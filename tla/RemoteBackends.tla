--------------------------- MODULE RemoteBackends ---------------------------
(***************************************************************************)
(* The backends of internal/storage that keep secrets with a vendor, and   *)
(* reach it with one command or request after another: doppler.go,         *)
(* infisical.go, vault.go, aws.go, gcp.go, azure.go, bitwarden.go and      *)
(* onepassword.go.                                                         *)
(*                                                                         *)
(* The vendor keeps entries in places: environment-style keys that several *)
(* names may map to (doppler, infisical), a name of its own for every      *)
(* secret (vault, aws, gcp, azure), or items that are found by their title *)
(* (bitwarden, onepassword).  A vendor call is one step.  It may fail      *)
(* without effect, and it may take effect without the caller learning of   *)
(* it (a reply lost, a command killed at its timeout).  A Put or Delete    *)
(* that makes several calls is several steps, and other callers, a List    *)
(* and an operator at the vendor's console come in between.                *)
(***************************************************************************)
EXTENDS BackendCalls, FiniteSetsExt

CONSTANTS
    Places,     \* keys, remote names or item ids at the vendor, ordered
    EnvKey,     \* the key of each name: dopplerKey, infisicalKey
    Remote,     \* the remote name of each name: remote, dataPath; distinct
    Attempts    \* how often purge tries

VARIABLES
    held,       \* the entry in each place
    reserved,   \* places of secrets that are scheduled for deletion or soft deleted
    work,       \* what each worker's call is doing
    present     \* history: names a List in progress could have listed

storeVars == <<held, reserved>>

Keyed == {"doppler", "infisical"}
\* Azure.Purge is part of the configuration.
Azure == {"azure", "azure-purge"}
Direct == {"vault", "aws", "gcp"} \cup Azure
Titled == {"bitwarden", "onepassword"}
RemoteKinds == Keyed \cup Direct \cup Titled

Nothing == [name |-> "none", value |-> "none"]
\* A value that is not a burndrop record (decodeRecord fails on it).
Foreign == [name |-> "foreign", value |-> "none"]
Entry(n, v) == [name |-> n, value |-> v]

Idle == [pc |-> "idle"]

Place(n) == IF backend \in Keyed THEN EnvKey[n] ELSE Remote[n]

\* The items that carry the title of a name: find.
Find(n) == {p \in Places : held[p].name = n}

\* What Get answers.  It reads the place of the name and checks the record's
\* name, takes the first item with the title (bitwarden), or the only one
\* (onepassword reports several as ambiguous).
InPlace(n) == IF held[Place(n)].name = n THEN held[Place(n)].value ELSE Absent
DopplerGet(n) == InPlace(n)
InfisicalGet(n) == InPlace(n)
VaultGet(n) == InPlace(n)
AwsGet(n) == InPlace(n)
GcpGet(n) == InPlace(n)
AzureGet(n) == InPlace(n)
BitwardenGet(n) == IF Find(n) # {} THEN held[Min(Find(n))].value ELSE Absent
OnePasswordGet(n) == IF Cardinality(Find(n)) = 1 THEN held[Min(Find(n))].value ELSE Absent

Answer(n) ==
    CASE backend = "doppler" -> DopplerGet(n)
      [] backend = "infisical" -> InfisicalGet(n)
      [] backend = "vault" -> VaultGet(n)
      [] backend = "aws" -> AwsGet(n)
      [] backend = "gcp" -> GcpGet(n)
      [] backend \in Azure -> AzureGet(n)
      [] backend = "bitwarden" -> BitwardenGet(n)
      [] backend = "onepassword" -> OnePasswordGet(n)

Stored == {n \in Names : Answer(n) # Absent}

Inits ==
    /\ held \in [Places -> {Nothing, Foreign} \cup [name : Names, value : Earlier]]
    /\ \A n \in Names : \A p, q \in Find(n) : p = q
    /\ \A p \in Places, n \in Names :
          /\ held[p].name = n /\ backend \notin Titled => Place(n) = p
          /\ held[p] = Foreign => backend \in Keyed
    /\ reserved = {}

----------------------------------------------------------------------------
(* Calls.                                                                  *)

Putting(w) == call[w].value # Absent
Deleting(w) == call[w].value = Absent
Name(w) == call[w].name
At(w, kinds, pc) == backend \in kinds /\ work[w].pc = pc /\ call[w] # NoCall

\* The backend's mutex is free; another process has its own.
Alone(w) ==
    backend \in Shared \/ \A u \in Workers : work[u].pc \in {"idle", "start", "list", "listed"}

Start(w, n, v) ==
    /\ work[w] = Idle
    /\ Enter(w, n, v, {})
    /\ work' = [work EXCEPT ![w] = [pc |-> "start", items |-> {}, tries |-> 0]]
    /\ UNCHANGED storeVars

Then(w, pc, items) ==
    /\ work' = [work EXCEPT ![w] = [@ EXCEPT !.pc = pc, !.items = items]]
    /\ UNCHANGED <<callVars, held, reserved>>

\* The method returns what its last vendor call came to.
Finish(w, result) ==
    /\ Return(w, \/ result = "ok"
                 \/ result = "not_found" /\ Deleting(w))
    /\ work' = [work EXCEPT ![w] = Idle]

Refuse(w, result) == Finish(w, result) /\ UNCHANGED storeVars

\* The call made its change; the caller may not hear of it.
Result(heard) == IF heard THEN "ok" ELSE "error"

Keep(w, p, heard) ==
    /\ held' = [held EXCEPT ![p] = Entry(Name(w), call[w].value)]
    /\ UNCHANGED reserved
    /\ Finish(w, Result(heard))

Drop(w, p, heard) ==
    /\ held' = [held EXCEPT ![p] = Nothing]
    /\ UNCHANGED reserved
    /\ Finish(w, Result(heard))

\* classifyExit and vaultError: which failures of a vendor call count as
\* ErrNotFound.  Others keep their meaning.
ClassifyExit(failure, notFound) == IF failure \in notFound THEN "not_found" ELSE "error"
VaultError(failure) == ClassifyExit(failure, {"missing"})
AwsClassify(failure) == ClassifyExit(failure, {"missing", "scheduled"})
GcpClassify(failure) == ClassifyExit(failure, {"missing"})
AzureClassify(failure) == ClassifyExit(failure, {"missing"})
BitwardenClassify(failure) == ClassifyExit(failure, {"missing"})
OnePasswordClassify(failure) == ClassifyExit(failure, {"missing"})
DopplerClassify(failure) == ClassifyExit(failure, {"missing"})
InfisicalClassify(failure) == ClassifyExit(failure, {"missing"})

\* A vendor call fails, or the input was refused before the first one (a record
\* too large), and nothing was changed.
Fails(w) == call[w] # NoCall /\ work[w].pc # "purge" /\ Refuse(w, "error")

\* ExecRunner.Run: a command that fails, or is killed at its timeout.
RunFails(w) == backend \in RemoteKinds \ {"vault"} /\ Fails(w)

\* Vault.call.
VaultCallFails(w) == backend = "vault" /\ Fails(w)

CallFails(w) == RunFails(w) \/ VaultCallFails(w)

----------------------------------------------------------------------------
(* doppler and infisical: look at the key, then write it.                  *)

\* Mutant: a key that another name maps to is taken over.
PutAtKey_NoCheck(w) == Then(w, "write", {})

\* A key that holds another name's record (ErrInvalidName), or no record, is
\* left alone.
PutAtKey(w) ==
    LET e == held[EnvKey[Name(w)]] IN
    IF e = Nothing \/ e.name = Name(w) THEN Then(w, "write", {}) ELSE Refuse(w, "error")

DeleteAtKey(w, missing) ==
    LET e == held[EnvKey[Name(w)]] IN
    IF e.name = Name(w) THEN Then(w, "write", {})
    ELSE Refuse(w, IF e = Foreign THEN "error" ELSE missing)

DopplerPut(w) ==
    /\ At(w, {"doppler"}, "start") /\ Putting(w) /\ Alone(w)
    /\ PutAtKey(w)

DopplerDelete(w) ==
    /\ At(w, {"doppler"}, "start") /\ Deleting(w) /\ Alone(w)
    /\ DeleteAtKey(w, DopplerClassify("missing"))

InfisicalPut(w) ==
    /\ At(w, {"infisical"}, "start") /\ Putting(w) /\ Alone(w)
    /\ PutAtKey(w)

InfisicalDelete(w) ==
    /\ At(w, {"infisical"}, "start") /\ Deleting(w) /\ Alone(w)
    /\ DeleteAtKey(w, "not_found")

\* The second call of both: "secrets set", "secrets delete".
SetKey(w, heard) ==
    /\ At(w, Keyed, "write") /\ Putting(w)
    /\ Keep(w, EnvKey[Name(w)], heard)

DeleteKey(w, heard) ==
    /\ At(w, Keyed, "write") /\ Deleting(w)
    /\ Drop(w, EnvKey[Name(w)], heard)

KeyedStep(w) ==
    \/ DopplerPut(w) \/ DopplerDelete(w) \/ InfisicalPut(w) \/ InfisicalDelete(w)
    \/ \E heard \in BOOLEAN : SetKey(w, heard) \/ DeleteKey(w, heard)

----------------------------------------------------------------------------
(* vault, aws, gcp and azure: no mutex, a remote name for every name.      *)

VaultPut(w, heard) ==
    /\ At(w, {"vault"}, "start") /\ Putting(w)
    /\ Keep(w, Remote[Name(w)], heard)

\* Deleting a missing secret succeeds at the vendor, so it is looked up first.
LookFirst(w, missing) ==
    LET p == Remote[Name(w)] IN
    IF held[p] = Nothing THEN Refuse(w, missing) ELSE Then(w, "write", {})

VaultDelete(w) ==
    /\ At(w, {"vault"}, "start") /\ Deleting(w)
    /\ LookFirst(w, VaultError("missing"))

\* create-secret: the name may exist already, or be scheduled for deletion.
AwsPut(w, heard) ==
    LET p == Remote[Name(w)] IN
    /\ At(w, {"aws"}, "start") /\ Putting(w)
    /\ \/ p \in reserved /\ Refuse(w, "error")
       \/ held[p] # Nothing /\ Then(w, "version", {})
       \/ p \notin reserved /\ held[p] = Nothing /\ Keep(w, p, heard)

\* put-secret-value: the secret may be gone again.
AwsPutVersion(w, heard) ==
    LET p == Remote[Name(w)] IN
    /\ At(w, {"aws"}, "version")
    /\ IF held[p] = Nothing
       THEN Refuse(w, AwsClassify(IF p \in reserved THEN "scheduled" ELSE "missing"))
       ELSE Keep(w, p, heard)

\* describe-secret: a secret scheduled for deletion counts as gone.
AwsDelete(w) ==
    /\ At(w, {"aws"}, "start") /\ Deleting(w)
    /\ LookFirst(w, AwsClassify("missing"))

GcpPut(w, heard) ==
    LET p == Remote[Name(w)] IN
    /\ At(w, {"gcp"}, "start") /\ Putting(w)
    /\ IF held[p] # Nothing THEN Then(w, "version", {}) ELSE Keep(w, p, heard)

GcpAddVersion(w, heard) ==
    LET p == Remote[Name(w)] IN
    /\ At(w, {"gcp"}, "version")
    /\ IF held[p] = Nothing THEN Refuse(w, GcpClassify("missing")) ELSE Keep(w, p, heard)

GcpDelete(w) ==
    /\ At(w, {"gcp"}, "start") /\ Deleting(w)
    /\ LookFirst(w, GcpClassify("missing"))

\* The second call of a Delete: whatever is there by now goes, at once.
RemoveForGood(w, heard) ==
    LET p == Remote[Name(w)] IN
    /\ At(w, {"vault", "aws", "gcp"}, "write")
    /\ held' = [held EXCEPT ![p] = Nothing]
    /\ reserved' = reserved \ {p}
    /\ Finish(w, Result(heard))

\* A name whose secret is soft deleted is reserved.
AzurePut(w, heard) ==
    LET p == Remote[Name(w)] IN
    /\ At(w, Azure, "start") /\ Putting(w)
    /\ IF p \in reserved THEN Refuse(w, "error") ELSE Keep(w, p, heard)

AzureDelete(w, heard) ==
    LET p == Remote[Name(w)] IN
    /\ At(w, Azure, "start") /\ Deleting(w)
    /\ IF held[p] = Nothing THEN Refuse(w, AzureClassify("missing"))
       ELSE /\ held' = [held EXCEPT ![p] = Nothing]
            /\ reserved' = reserved \cup {p}
            /\ IF heard /\ backend = "azure-purge"
               THEN /\ work' = [work EXCEPT ![w].pc = "purge"]
                    /\ UNCHANGED callVars
               ELSE Finish(w, Result(heard))

\* purge: done; too early, and tried again; or given up.
AzurePurge(w) ==
    /\ At(w, Azure, "purge")
    /\ \/ reserved' = reserved \ {Remote[Name(w)]} /\ UNCHANGED held /\ Finish(w, "ok")
       \/ /\ work[w].tries + 1 < Attempts
          /\ work' = [work EXCEPT ![w].tries = @ + 1]
          /\ UNCHANGED <<callVars, held, reserved>>
       \/ Refuse(w, "error")

DirectStep(w) ==
    \/ VaultDelete(w) \/ AwsDelete(w) \/ GcpDelete(w) \/ AzurePurge(w)
    \/ \E heard \in BOOLEAN :
          \/ VaultPut(w, heard)
          \/ AwsPut(w, heard) \/ AwsPutVersion(w, heard)
          \/ GcpPut(w, heard) \/ GcpAddVersion(w, heard)
          \/ AzurePut(w, heard) \/ AzureDelete(w, heard)
          \/ RemoveForGood(w, heard)

----------------------------------------------------------------------------
(* bitwarden and onepassword: find the item by its title, then change it.  *)

\* find: the first item with the title is edited, or one is created.
BitwardenPut(w) ==
    /\ At(w, {"bitwarden"}, "start") /\ Putting(w) /\ Alone(w)
    /\ Then(w, "write", IF Find(Name(w)) = {} THEN {} ELSE {Min(Find(Name(w)))})

\* The items are deleted one after another; a failure leaves the rest.
BitwardenDelete(w) ==
    /\ At(w, {"bitwarden"}, "start") /\ Deleting(w) /\ Alone(w)
    /\ IF Find(Name(w)) = {} THEN Refuse(w, "not_found") ELSE Then(w, "write", Find(Name(w)))

BitwardenDeleteItem(w, heard) ==
    LET p == Min(work[w].items) IN
    /\ At(w, {"bitwarden"}, "write") /\ Deleting(w)
    /\ IF held[p] = Nothing THEN Refuse(w, BitwardenClassify("missing"))
       ELSE IF heard /\ work[w].items # {p}
            THEN /\ held' = [held EXCEPT ![p] = Nothing]
                 /\ work' = [work EXCEPT ![w].items = @ \ {p}]
                 /\ UNCHANGED <<callVars, reserved>>
            ELSE Drop(w, p, heard)

OnePasswordPut(w) ==
    /\ At(w, {"onepassword"}, "start") /\ Putting(w) /\ Alone(w)
    /\ Then(w, "write", IF Find(Name(w)) = {} THEN {} ELSE {Min(Find(Name(w)))})

\* op item delete takes the title; several items with it are ambiguous.
OnePasswordDelete(w, heard) ==
    LET items == Find(Name(w)) IN
    /\ At(w, {"onepassword"}, "start") /\ Deleting(w) /\ Alone(w)
    /\ IF items = {} THEN Refuse(w, OnePasswordClassify("missing"))
       ELSE IF Cardinality(items) > 1 THEN Refuse(w, OnePasswordClassify("ambiguous"))
            ELSE Drop(w, Min(items), heard)

\* The second call of Put: edit the item that was found, which may be gone
\* by now, or create one.
PutItem(w, heard) ==
    /\ At(w, Titled, "write") /\ Putting(w)
    /\ \/ \E p \in work[w].items :
             IF held[p] = Nothing THEN Refuse(w, "not_found") ELSE Keep(w, p, heard)
       \/ /\ work[w].items = {}
          /\ \E p \in Places : held[p] = Nothing /\ Keep(w, p, heard)

TitledStep(w) ==
    \/ BitwardenPut(w) \/ BitwardenDelete(w) \/ OnePasswordPut(w)
    \/ \E heard \in BOOLEAN :
          BitwardenDeleteItem(w, heard) \/ OnePasswordDelete(w, heard) \/ PutItem(w, heard)

----------------------------------------------------------------------------
(* List: the names first, then the records.                                *)

Occupied == {p \in Places : held[p] # Nothing}

\* decodeRecord, and the check that the record belongs in its place.
Listed(places) == {n \in Names : \E p \in places : held[p].name = n}

Listing(w, kinds) == backend \in kinds /\ work[w].pc = "list"

\* The first call: what places are taken.
NameFirst(w, kinds) ==
    /\ backend \in kinds /\ work[w] = Idle
    /\ work' = [work EXCEPT ![w] = [pc |-> "list", items |-> Occupied, out |-> {}]]
    /\ UNCHANGED <<callVars, held, reserved>>

DopplerList(w) == NameFirst(w, {"doppler"})
VaultList(w) == NameFirst(w, {"vault"})
AwsList(w) == NameFirst(w, {"aws"})
GcpList(w) == NameFirst(w, {"gcp"})
AzureList(w) == NameFirst(w, Azure)
OnePasswordList(w) == NameFirst(w, {"onepassword"})

\* A List that is a single call.
AtOnce(w, kinds) ==
    /\ backend \in kinds /\ work[w] = Idle
    /\ work' = [work EXCEPT ![w] = [pc |-> "listed", items |-> {}, out |-> Listed(Occupied)]]
    /\ UNCHANGED <<callVars, held, reserved>>

InfisicalList(w) == AtOnce(w, {"infisical"})

BitwardenList(w) == AtOnce(w, {"bitwarden"}) /\ Alone(w)

StartList(w) ==
    \/ DopplerList(w) \/ InfisicalList(w) \/ VaultList(w) \/ AwsList(w)
    \/ GcpList(w) \/ AzureList(w) \/ BitwardenList(w) \/ OnePasswordList(w)

\* Mutant: the keys that are left are listed, and so are the names of the
\* keys that are gone.
FetchEach_KeepsGone(w) ==
    /\ Listing(w, Direct \cup {"onepassword"})
    /\ \E p \in work[w].items :
          work' = [work EXCEPT ![w].items = @ \ {p}, ![w].out = @ \cup {n \in Names : Remote[n] = p}]
    /\ UNCHANGED <<callVars, held, reserved>>

\* One record after another; what is gone by now is skipped.
FetchEach(w) ==
    /\ Listing(w, Direct \cup {"onepassword"})
    /\ \E p \in work[w].items :
          work' = [work EXCEPT ![w].items = @ \ {p}, ![w].out = @ \cup Listed({p})]
    /\ UNCHANGED <<callVars, held, reserved>>

\* doppler fetches all keys in one call, which fails when one of them is gone.
FetchAll(w) ==
    /\ Listing(w, {"doppler"}) /\ work[w].items # {}
    /\ work' = IF work[w].items \subseteq Occupied
               THEN [work EXCEPT ![w] = [@ EXCEPT !.items = {}, !.out = Listed(work[w].items)]]
               ELSE [work EXCEPT ![w] = Idle]
    /\ UNCHANGED <<callVars, held, reserved>>

ListDone(w) ==
    /\ work[w].pc = "list" /\ work[w].items = {}
    /\ work' = [work EXCEPT ![w].pc = "listed"]
    /\ UNCHANGED <<callVars, held, reserved>>

\* The caller has its list, or a call failed and it has none.
ListReturns(w) ==
    /\ work[w].pc \in {"list", "listed"}
    /\ work' = [work EXCEPT ![w] = Idle]
    /\ UNCHANGED <<callVars, held, reserved>>

ListStep(w) == FetchEach(w) \/ FetchAll(w) \/ ListDone(w) \/ ListReturns(w)

----------------------------------------------------------------------------
(* What happens at the vendor.                                             *)

\* An operator deletes a secret at the console: aws schedules its deletion,
\* azure soft deletes it.
Outside(n) ==
    /\ backend \in {"aws"} \cup Azure /\ Answer(n) # Absent
    /\ held' = [held EXCEPT ![Remote[n]] = Nothing]
    /\ reserved' = reserved \cup {Remote[n]}
    /\ Removed(n)
    /\ UNCHANGED work

\* The recovery window of a deleted secret ends.
Freed(p) ==
    /\ p \in reserved
    /\ reserved' = reserved \ {p}
    /\ UNCHANGED <<callVars, held, work>>

Step(w) == KeyedStep(w) \/ DirectStep(w) \/ TitledStep(w) \/ ListStep(w)

\* What was stored all the time a List ran, and what was at some time.
Observe ==
    present' = [w \in Workers |->
       IF work'[w].pc \notin {"list", "listed"} THEN [always |-> {}, ever |-> {}]
       ELSE IF work[w].pc \notin {"list", "listed"} THEN [always |-> Stored, ever |-> Stored]
       ELSE IF work[w].pc = "listed" THEN present[w]
       ELSE [always |-> present[w].always \cap Stored', ever |-> present[w].ever \cup Stored']]
============================================================================
