------------------------------ MODULE Backends ------------------------------
(***************************************************************************)
(* Every persistent backend behind the interface Backend of                *)
(* internal/storage/backend.go.  The configuration names one of them; the  *)
(* others have nothing to do.  Whichever it is, it is to keep the promise  *)
(* that SecretBackend states.                                              *)
(***************************************************************************)
EXTENDS BackendCalls

CONSTANTS
    Places, EnvKey, Remote, Attempts,               \* see RemoteBackends
    NoKey, OldKey, Tries, Stalls, Together,         \* see FileBackends
    ChunksOf, MaxChunks, Alike,                     \* see Keychain
    MaxCalls,   \* bound on the calls the workers, and an operator, make, by backend
    Offers      \* the values the workers store, by backend

ASSUME BackendsAssumption ==
    /\ EnvKey \in [Names -> Places] /\ Remote \in [Names -> Places]
    /\ \A m, n \in Names : Remote[m] = Remote[n] => m = n
    /\ ChunksOf \in [Values -> 1..MaxChunks] /\ Alike \subseteq Values
    /\ \A S \in SUBSET Places : S # {} => \E p \in S : \A q \in S : p <= q
    /\ Attempts \in Nat \ {0} /\ Tries \in Nat /\ MaxCalls \in [Kinds -> Nat]
    /\ Offers \in [Kinds -> SUBSET Values]

VARIABLES
    held, reserved, present,            \* see RemoteBackends
    file, lock, identity, keyOf,        \* see FileBackends
    entry, chunk, faults,               \* see Keychain
    work,                               \* what each worker's call is doing
    started                             \* how many calls have been made

R == INSTANCE RemoteBackends
F == INSTANCE FileBackends
K == INSTANCE Keychain

ASSUME KindsAssumption == Kinds \subseteq R!RemoteKinds \cup F!FileKinds \cup {"keychain"}

remoteVars == <<held, reserved>>
fileVars == <<file, lock, identity, keyOf>>
keychainVars == <<entry, chunk, faults>>
vars == <<callVars, remoteVars, fileVars, keychainVars, work, present, started>>

\* Get.
Answer(n) ==
    CASE backend \in R!RemoteKinds -> R!Answer(n)
      [] backend \in F!FileKinds -> F!Answer(n)
      [] backend = "keychain" -> K!Answer(n)

Init ==
    /\ backend \in Kinds
    /\ IF backend \in R!RemoteKinds THEN R!Inits
       ELSE held = [p \in Places |-> R!Nothing] /\ reserved = {}
    /\ IF backend \in F!FileKinds THEN F!Inits
       ELSE /\ file = [key |-> NoKey, entries |-> [n \in Names |-> Absent]]
            /\ lock = F!NoLock /\ identity = NoKey /\ keyOf = [w \in Workers |-> NoKey]
    /\ IF backend = "keychain" THEN K!Inits
       ELSE /\ entry = [n \in Names |-> K!NoEntry] /\ chunk = [n \in Names |-> K!Bare]
            /\ faults = [n \in Names |-> 0]
    /\ CallsInit(Kinds, [n \in Names |-> Answer(n)])
    /\ work = [w \in Workers |-> R!Idle]
    /\ present = [w \in Workers |-> [always |-> {}, ever |-> {}]]
    /\ started = 0

\* A worker makes one more call.
Starts(w) ==
    /\ started < MaxCalls[backend] /\ started' = started + 1
    /\ \/ \E n \in Names, v \in Offers[backend] \cup {Absent} :
             \/ backend \in R!RemoteKinds /\ R!Start(w, n, v) /\ UNCHANGED <<fileVars, keychainVars>>
             \/ F!Start(w, n, v) /\ UNCHANGED <<remoteVars, keychainVars>>
             \/ K!Start(w, n, v) /\ UNCHANGED <<remoteVars, fileVars>>
       \/ R!StartList(w) /\ UNCHANGED <<fileVars, keychainVars>>

\* A call goes on, or fails.
Step(w) ==
    /\ \/ R!Step(w) /\ UNCHANGED <<fileVars, keychainVars>>
       \/ F!Step(w) /\ UNCHANGED <<remoteVars, keychainVars>>
       \/ K!Step(w) /\ UNCHANGED <<remoteVars, fileVars>>
    /\ UNCHANGED started

Fails(w) == R!CallFails(w) /\ UNCHANGED <<fileVars, keychainVars, started>>

Crash(w) ==
    /\ \/ F!Crash(w) /\ UNCHANGED <<remoteVars, keychainVars>>
       \/ K!Crash(w) /\ UNCHANGED <<remoteVars, fileVars>>
    /\ UNCHANGED started

Operator ==
    /\ started < MaxCalls[backend] /\ started' = started + 1
    /\ \E n \in Names : R!Outside(n)
    /\ UNCHANGED <<fileVars, keychainVars>>

\* Time passes.
World ==
    /\ \/ \E p \in Places : R!Freed(p) /\ UNCHANGED <<fileVars, keychainVars>>
       \/ F!Minute /\ UNCHANGED <<remoteVars, keychainVars>>
    /\ UNCHANGED started

Next ==
    /\ \/ \E w \in Workers : Starts(w) \/ Step(w) \/ Fails(w) \/ Crash(w)
       \/ Operator
       \/ World
    /\ R!Observe

Spec == Init /\ [][Next]_vars

\* A goroutine that can go on does: vendor commands end at their timeout
\* (ExecRunner), and the schedulers let every goroutine run.
FairSpec == Spec /\ \A w \in Workers : WF_vars(Step(w) /\ R!Observe)

----------------------------------------------------------------------------

\* Whatever the backend is made of, it keeps the promise of the interface
\* Backend (backend.go:131-151).  The promise is weaker for the keychain: a Put
\* or Delete that did not return, or returned an error, may leave an error or
\* pieces of two records to be read (see MixedTakesTwoFaults); one that returned
\* without an error leaves its own value there, too.
Contract == INSTANCE SecretBackend WITH answer <- [n \in Names |-> Answer(n)]
KeepsContract == Contract!Spec

\* A List that returns lists what was stored all the time it ran, and nothing
\* that was stored at no time ("List returns metadata for every secret this
\* backend holds", backend.go:147).
ListTrue ==
    \A w \in Workers :
       work[w].pc = "listed" => /\ present[w].always \subseteq work[w].out
                                /\ work[w].out \subseteq present[w].ever

\* The call goes round over an abandoned lock that it cannot remove
\* (agevault.go:208-210).
Stuck(w) == backend = "agevault" /\ lock.old /\ work[w].pc \in {"lock", "stat", "steal"}

\* No call waits for ever but in one place: the retries of azure's purge end, and
\* so does the wait for a lock that is held (azure.go:262, agevault.go:197-214),
\* as long as an abandoned lock can be removed; one that cannot be is tried again
\* for ever, past the deadline.  As only so many calls are made, all the others
\* have ended at some time.
EveryCallEnds == <>[](\A w \in Workers : call[w] = NoCall \/ Stuck(w))

\* No two writers of the vault file are between load and save at once
\* (agevault.go:194).
OneWriter == F!OneWriter

\* No two names in the dotenv file make the same environment variable
\* (dotenv.go:330-334).
OneVariableEach == F!OneVariableEach

\* A single fault never makes a Get from the keychain answer with pieces of two
\* records (keychain.go:86-100).
MixedTakesTwoFaults == backend = "keychain" => K!MixedTakesTwoFaults

TypeOK ==
    /\ backend \in Kinds
    /\ call \in [Workers -> {NoCall} \cup CallRecords]
    /\ allowed \in [Names -> SUBSET Gets]
    /\ held \in [Places -> {R!Nothing, R!Foreign} \cup [name : Names, value : Values]]
    /\ reserved \in SUBSET Places
    /\ file \in [key : {NoKey, OldKey} \cup Workers, entries : [Names -> Answers]]
    /\ lock \in [owner : Workers \cup {"none"}, old : BOOLEAN]
    /\ identity \in {NoKey, OldKey} \cup Workers
    /\ keyOf \in [Workers -> {NoKey, OldKey} \cup Workers]
    /\ chunk \in [Names -> [0..(MaxChunks - 1) -> Answers]]
============================================================================
