--------------------------- MODULE Backends_proofs ---------------------------
(***************************************************************************)
(* What holds of every backend for any workers, names, values, places and  *)
(* bounds: types, one writer of the vault file, one name for each variable *)
(* of the dotenv file, and lists that are true.                            *)
(***************************************************************************)
EXTENDS Backends, FiniteSetTheorems, TLAPS

----------------------------------------------------------------------------
(* What a worker may be doing.                                             *)

RemoteWork ==
    {R!Idle}
    \cup [pc : {"start", "write", "version", "purge"}, items : SUBSET Places, tries : Nat]
    \cup [pc : {"list", "listed"}, items : SUBSET Places, out : SUBSET Names]

Rows == [Names -> Answers]

FileWork ==
    [pc : {"idle", "dead", "generate", "start", "load"}]
    \cup [pc : {"lock", "stat", "steal"}, tries : Int]
    \cup [pc : {"save"}, copy : Rows]
    \cup [pc : {"unlock"}, result : {"ok", "error", "not_found"}]

KeychainWork ==
    [pc : {"idle", "start"}]
    \cup [pc : {"clear"}, i : Nat, after : {"record", "chunk", "failed", "unset"}]
    \cup [pc : {"record", "chunk", "header", "failed", "unset"}, i : Nat]

Resting == {"idle", "dead", "generate", "list", "listed"}

\* A worker is in the middle of a Put or Delete when it has made that call.
InCalls == \A w \in Workers : work[w].pc \notin Resting <=> call[w] # NoCall

WorkOK ==
    /\ backend \in R!RemoteKinds => work \in [Workers -> RemoteWork]
    /\ backend \in F!FileKinds => work \in [Workers -> FileWork]
    /\ backend = "keychain" => work \in [Workers -> KeychainWork]
    /\ InCalls
    /\ backend \in R!RemoteKinds =>
          \A w \in Workers : work[w].pc = "version" => call[w].value # Absent

TypeInv ==
    /\ TypeOK
    /\ WorkOK

----------------------------------------------------------------------------
(* The age vault.                                                          *)

\* At most two processes use the vault.
AtMostTwo == \A u, v, w \in Workers : u = v \/ v = w \/ u = w

NobodyDied == \A w \in Workers : work[w] # F!Dead

\* Whoever reads and writes the vault file owns its lock file; a lock becomes
\* old only when its owner is dead, and so a lock is taken away only after a
\* process died.
LockInv ==
    backend = "agevault" =>
       /\ lock.old => lock.owner \in Workers /\ work[lock.owner] = F!Dead
       /\ \A w \in Workers : work[w].pc = "steal" =>
             \E d \in Workers : d # w /\ work[d] = F!Dead
       /\ NobodyDied \/ AtMostTwo =>
             \A w \in Workers : work[w].pc \in {"load", "save", "unlock"} => lock.owner = w

----------------------------------------------------------------------------
(* The dotenv file.                                                        *)

\* No two names of the rows make one variable.
OneEach(rows) ==
    \A m, n \in Names : m # n /\ EnvKey[m] = EnvKey[n] => Absent \in {rows[m], rows[n]}

DotenvInv ==
    backend = "dotenv" =>
       /\ OneEach(file.entries)
       /\ \A w \in Workers : work[w].pc = "save" => OneEach(work[w].copy)

----------------------------------------------------------------------------
(* The vendors' backends.                                                  *)

Titles == {n \in Names : \E p \in Places : held[p].name = n}

\* A record is in the place of its name.
PlacedInv ==
    backend \in R!Keyed \cup R!Direct =>
       \A p \in Places, n \in Names : held[p].name = n => R!Place(n) = p

\* onepassword keeps one item for a title: between find and the change that
\* follows, its mutex keeps the others away.
ItemInv ==
    backend = "onepassword" =>
       /\ \A p, q \in Places : held[p].name \in Names /\ held[p].name = held[q].name => p = q
       /\ \A u, w \in Workers : work[u].pc = "write" /\ work[w].pc = "write" => u = w
       /\ \A w \in Workers : /\ work[w].pc \in {"version", "purge"} => FALSE
                             /\ work[w].pc = "write" => /\ work[w].items = R!Find(R!Name(w))
                                                        /\ R!Putting(w)

\* Of a List under way: it has nothing that was at no time stored, and what
\* was stored all the time it has, or will find in a place it has yet to fetch.
ListInv ==
    \A w \in Workers :
       work[w].pc \in {"list", "listed"} =>
          /\ backend \in R!RemoteKinds
          /\ work[w].out \subseteq present[w].ever
          /\ work[w].pc = "list" /\ backend = "doppler" /\ work[w].items # {} => work[w].out = {}
          /\ work[w].pc = "list" => backend \notin {"infisical", "bitwarden"}
          /\ \A n \in present[w].always :
                \/ n \in work[w].out
                \/ work[w].pc = "list" /\ \E p \in work[w].items : held[p].name = n

----------------------------------------------------------------------------
(* Only the backend the configuration names has steps.                     *)

LEMMA KindsDiffer ==
    /\ \A k \in F!FileKinds : k \notin R!RemoteKinds /\ k # "keychain"
    /\ "keychain" \notin R!RemoteKinds
    /\ R!RemoteKinds = R!Keyed \cup R!Direct \cup R!Titled
    BY DEF F!FileKinds, R!RemoteKinds, R!Keyed, R!Direct, R!Titled, R!Azure

\* A vendor step that is not a List's is a step of a vendor's backend.
LEMMA RemoteOnly ==
    ASSUME NEW w, R!KeyedStep(w) \/ R!DirectStep(w) \/ R!TitledStep(w) \/ R!StartList(w) \/ R!CallFails(w)
    PROVE  backend \in R!RemoteKinds
  <1>1. CASE R!KeyedStep(w)
    BY <1>1 DEF R!KeyedStep, R!DopplerPut, R!DopplerDelete, R!InfisicalPut, R!InfisicalDelete,
       R!SetKey, R!DeleteKey, R!At, R!RemoteKinds, R!Keyed
  <1>2. CASE R!DirectStep(w)
    BY <1>2 DEF R!DirectStep, R!VaultDelete, R!AwsDelete, R!GcpDelete, R!AzurePurge, R!VaultPut,
       R!AwsPut, R!AwsPutVersion, R!GcpPut, R!GcpAddVersion, R!AzurePut, R!AzureDelete,
       R!RemoveForGood, R!At, R!RemoteKinds, R!Direct, R!Azure
  <1>3. CASE R!TitledStep(w)
    BY <1>3 DEF R!TitledStep, R!BitwardenPut, R!BitwardenDelete, R!OnePasswordPut,
       R!BitwardenDeleteItem, R!OnePasswordDelete, R!PutItem, R!At, R!RemoteKinds, R!Titled
  <1>4. CASE R!StartList(w)
    BY <1>4 DEF R!StartList, R!DopplerList, R!InfisicalList, R!VaultList, R!AwsList, R!GcpList,
       R!AzureList, R!BitwardenList, R!OnePasswordList, R!NameFirst, R!AtOnce,
       R!RemoteKinds, R!Keyed, R!Direct, R!Titled, R!Azure
  <1>5. CASE R!CallFails(w)
    BY <1>5 DEF R!CallFails, R!RunFails, R!VaultCallFails, R!RemoteKinds, R!Direct
  <1> QED
    BY <1>1, <1>2, <1>3, <1>4, <1>5

LEMMA KeychainOnly ==
    ASSUME NEW w, K!Step(w) \/ K!Crash(w) \/ \E n, v : K!Start(w, n, v)
    PROVE  backend = "keychain"
    BY DEF K!Step, K!Crash, K!Start, K!Put, K!Delete, K!DeleteChunks, K!Fails, K!ChunkFails,
       K!SetRecord, K!SetChunk, K!SetHeader, K!DeleteEntry, K!At

\* What a worker stores, or Absent for a Delete.
LEMMA OffersOK ==
    ASSUME TypeInv
    PROVE  Offers[backend] \cup {Absent} \subseteq Answers
    BY BackendsAssumption DEF TypeInv, TypeOK, Answers

\* The steps of a file backend.
LEMMA FileSteps ==
    ASSUME TypeInv, backend \in F!FileKinds, [Next]_vars
    PROVE  \/ UNCHANGED <<callVars, file, lock, identity, keyOf, work>>
           \/ \E w \in Workers, n \in Names, v \in Answers : F!Start(w, n, v)
           \/ \E w \in Workers : F!Step(w)
           \/ \E w \in Workers : F!Crash(w)
           \/ F!Minute
  <1>0. backend \notin R!RemoteKinds /\ backend # "keychain"
    BY KindsDiffer
  <1>1. \A w \in Workers : work[w].pc \notin {"list", "listed"}
    BY DEF TypeInv, WorkOK, FileWork
  <1>2. ASSUME NEW w \in Workers PROVE ~R!Step(w)
    BY <1>0, <1>1, RemoteOnly DEF R!Step, R!ListStep, R!FetchEach, R!FetchAll, R!ListDone,
       R!ListReturns, R!Listing
  <1>3. CASE UNCHANGED vars
    BY <1>3 DEF vars, fileVars, callVars
  <1>4. ASSUME NEW w \in Workers, Starts(w)
        PROVE  \E n \in Names, v \in Answers : F!Start(w, n, v)
    BY <1>0, <1>4, RemoteOnly, KeychainOnly, OffersOK DEF Starts
  <1>5. ASSUME NEW w \in Workers, Step(w) PROVE F!Step(w)
    BY <1>0, <1>2, <1>5, KeychainOnly DEF Step
  <1>6. ASSUME NEW w \in Workers PROVE ~Fails(w)
    BY <1>0, RemoteOnly DEF Fails
  <1>7. ASSUME NEW w \in Workers, Crash(w) PROVE F!Crash(w)
    BY <1>0, <1>7, KeychainOnly DEF Crash
  <1>8. ~Operator
    BY <1>0 DEF Operator, R!Outside, R!RemoteKinds, R!Direct
  <1>9. ASSUME NEW p \in Places, R!Freed(p), UNCHANGED fileVars
        PROVE  UNCHANGED <<callVars, file, lock, identity, keyOf, work>>
    BY <1>9 DEF R!Freed, fileVars, R!callVars, callVars
  <1> QED
    BY <1>3, <1>4, <1>5, <1>6, <1>7, <1>8, <1>9, Zenon DEF Next, World
----------------------------------------------------------------------------
(* Calls.                                                                  *)

CallType ==
    /\ call \in [Workers -> {NoCall} \cup CallRecords]
    /\ allowed \in [Names -> SUBSET Gets]

\* Every worker but w is in the call it was in.
Others(w) ==
    \A u \in Workers : u # w =>
       /\ call[u] = NoCall <=> call'[u] = NoCall
       /\ call[u] # NoCall => call'[u].name = call[u].name /\ call'[u].value = call[u].value

\* The call of w returns.
Returns(w) ==
    /\ call[w] # NoCall
    /\ call' = [call EXCEPT ![w] = NoCall]
    /\ \/ allowed' = allowed
       \/ allowed' = [allowed EXCEPT ![call[w].name] = {call[w].value} \cup call[w].met]
    /\ UNCHANGED backend

LEMMA CallFacts ==
    ASSUME CallType, NEW w \in Workers, call[w] # NoCall
    PROVE  /\ call[w] \in CallRecords /\ call[w].name \in Names /\ call[w].value \in Answers
           /\ call[w].value # Absent => call[w].value \in Values
    BY DEF CallType, CallRecords, Answers

LEMMA ReturnsOK ==
    ASSUME CallType, NEW w \in Workers, Returns(w)
    PROVE  CallType' /\ Others(w) /\ call'[w] = NoCall
  <1>1. call[w] \in CallRecords
    BY CallFacts DEF Returns
  <1>2. {call[w].value} \cup call[w].met \in SUBSET Gets
    BY <1>1 DEF CallRecords, Gets
  <1> QED
    BY <1>1, <1>2 DEF CallType, Returns, Others

LEMMA EnterOK ==
    ASSUME CallType, NEW w \in Workers, NEW n \in Names, NEW v \in Answers, NEW torn \in SUBSET Gets,
           Enter(w, n, v, torn)
    PROVE  /\ CallType' /\ Others(w) /\ call[w] = NoCall /\ call'[w] # NoCall
           /\ call'[w].name = n /\ call'[w].value = v /\ UNCHANGED backend
  <1> DEFINE may == {v} \cup torn
             new == [name |-> n, value |-> v, may |-> may, met |-> InFlight(n)]
  <1>1. may \in SUBSET Gets
    BY DEF Gets
  <1>2. \A u \in Workers : call[u].name = n => call[u] \in CallRecords
    BY NamesAssumption DEF CallType, NoCall
  <1>3. InFlight(n) \in SUBSET Gets
    BY <1>2 DEF InFlight, CallRecords
  <1>4. new \in CallRecords /\ new # NoCall /\ new.name = n /\ new.value = v
    BY <1>1, <1>3, NamesAssumption DEF CallRecords, NoCall
  <1>5. call' = [u \in Workers |-> IF u = w THEN new
                                   ELSE IF call[u].name = n THEN [call[u] EXCEPT !.met = @ \cup may] ELSE call[u]]
    BY DEF Enter
  <1>6. allowed' = [allowed EXCEPT ![n] = @ \cup may] /\ call[w] = NoCall /\ UNCHANGED backend
    BY DEF Enter
  <1> HIDE DEF may, new
  <1>7. ASSUME NEW u \in Workers, call[u].name = n
        PROVE  LET c == [call[u] EXCEPT !.met = @ \cup may] IN
               c \in CallRecords /\ c # NoCall /\ c.name = call[u].name /\ c.value = call[u].value
    BY <1>1, <1>2, <1>7, NamesAssumption DEF CallRecords, NoCall
  <1>8. call' \in [Workers -> {NoCall} \cup CallRecords]
    BY <1>4, <1>5, <1>7 DEF CallType
  <1>9. allowed' \in [Names -> SUBSET Gets]
    BY <1>1, <1>6 DEF CallType
  <1>10. Others(w)
    <2> SUFFICES ASSUME NEW u \in Workers, u # w
                 PROVE  /\ call[u] = NoCall <=> call'[u] = NoCall
                        /\ call[u] # NoCall => call'[u].name = call[u].name /\ call'[u].value = call[u].value
      BY DEF Others
    <2>1. CASE call[u].name # n
      BY <1>5, <2>1
    <2>2. CASE call[u].name = n
      <3>1. call'[u] = [call[u] EXCEPT !.met = @ \cup may]
        BY <1>5, <2>2
      <3>2. call[u] # NoCall
        BY <2>2, NamesAssumption DEF NoCall
      <3> QED
        BY <1>7, <2>2, <3>1, <3>2
    <2> QED
      BY <2>1, <2>2
  <1>11. call'[w] = new
    BY <1>5
  <1> QED
    BY <1>4, <1>6, <1>8, <1>9, <1>10, <1>11 DEF CallType

LEMMA RemovedOK ==
    ASSUME CallType, NEW n \in Names, Removed(n)
    PROVE  /\ CallType' /\ UNCHANGED backend
           /\ \A u \in Workers :
                 /\ call[u] = NoCall <=> call'[u] = NoCall
                 /\ call[u] # NoCall => call'[u].name = call[u].name /\ call'[u].value = call[u].value
  <1>1. allowed' \in [Names -> SUBSET Gets] /\ UNCHANGED backend
    BY DEF Removed, CallType, Gets, Answers
  <1>2. ASSUME NEW u \in Workers, call[u].name = n
        PROVE  LET c == [call[u] EXCEPT !.met = @ \cup {Absent}] IN
               /\ c \in CallRecords /\ c # NoCall /\ call[u] # NoCall
               /\ c.name = call[u].name /\ c.value = call[u].value
    <2>1. call[u] \in CallRecords /\ call[u] # NoCall
      BY <1>2, NamesAssumption DEF CallType, NoCall
    <2> QED
      BY <1>2, <2>1, NamesAssumption DEF CallRecords, NoCall, Gets, Answers
  <1>3. call' = [u \in Workers |-> IF call[u].name = n THEN [call[u] EXCEPT !.met = @ \cup {Absent}] ELSE call[u]]
    BY DEF Removed
  <1>4. call' \in [Workers -> {NoCall} \cup CallRecords]
    BY <1>2, <1>3 DEF CallType
  <1>5. ASSUME NEW u \in Workers
        PROVE  /\ call[u] = NoCall <=> call'[u] = NoCall
               /\ call[u] # NoCall => call'[u].name = call[u].name /\ call'[u].value = call[u].value
    BY <1>2, <1>3
  <1> QED
    BY <1>1, <1>4, <1>5 DEF CallType
\* A call begins, goes on or ends: what it leaves in call and work.
LEMMA WorkEnters ==
    ASSUME CallType, InCalls, NEW W, work \in [Workers -> W], NEW w \in Workers,
           NEW n \in Names, NEW v \in Answers, NEW torn \in SUBSET Gets, Enter(w, n, v, torn),
           NEW k \in W, k.pc \notin Resting, work' = [work EXCEPT ![w] = k]
    PROVE  CallType' /\ InCalls' /\ work' \in [Workers -> W] /\ UNCHANGED backend
    BY EnterOK DEF InCalls, Others

LEMMA WorkGoes ==
    ASSUME CallType, InCalls, NEW W, work \in [Workers -> W], NEW w \in Workers,
           UNCHANGED callVars, NEW k \in W, k.pc \notin Resting <=> call[w] # NoCall,
           work' = [work EXCEPT ![w] = k]
    PROVE  CallType' /\ InCalls' /\ work' \in [Workers -> W] /\ UNCHANGED backend
    BY DEF InCalls, CallType, callVars

LEMMA WorkEnds ==
    ASSUME CallType, InCalls, NEW W, work \in [Workers -> W], NEW w \in Workers,
           Returns(w), NEW k \in W, k.pc \in Resting, work' = [work EXCEPT ![w] = k]
    PROVE  CallType' /\ InCalls' /\ work' \in [Workers -> W] /\ UNCHANGED backend
    BY ReturnsOK DEF InCalls, Others, Returns

----------------------------------------------------------------------------
(* The file backends: what a step makes of a worker.                       *)

FileType ==
    /\ file \in [key : {NoKey, OldKey} \cup Workers, entries : Rows]
    /\ lock \in [owner : Workers \cup {"none"}, old : BOOLEAN]
    /\ identity \in {NoKey, OldKey} \cup Workers
    /\ keyOf \in [Workers -> {NoKey, OldKey} \cup Workers]

\* The worker goes on with k, or its call ends.
FileGoes(w, k) == work' = [work EXCEPT ![w] = k] /\ UNCHANGED callVars
FileEnds(w, k) == work' = [work EXCEPT ![w] = k] /\ Returns(w)

LEMMA FileForms ==
    ASSUME NEW w
    PROVE  /\ \A k : F!Go(w, k) => FileGoes(w, k)
           /\ \A r : F!Finish(w, r) => FileEnds(w, [pc |-> "idle"])
           /\ \A r : F!Result(w, r) => FileGoes(w, [pc |-> "unlock", result |-> r])
           /\ F!Crash(w) => FileEnds(w, [pc |-> "dead"])
  <1>1. \A k : F!Go(w, k) => FileGoes(w, k)
    BY DEF F!Go, FileGoes, F!callVars, callVars
  <1>2. ASSUME NEW s, F!Return(w, s) PROVE Returns(w)
    BY <1>2 DEF F!Return, Returns, F!NoCall, NoCall
  <1>3. \A r : F!Finish(w, r) => FileEnds(w, [pc |-> "idle"])
    BY <1>2 DEF F!Finish, FileEnds, F!Idle
  <1>4. \A r : F!Result(w, r) => FileGoes(w, [pc |-> "unlock", result |-> r])
    BY <1>1 DEF F!Result
  <1>5. F!Crash(w) => FileEnds(w, [pc |-> "dead"])
    BY <1>2 DEF F!Crash, FileEnds, F!Dead
  <1> QED
    BY <1>1, <1>3, <1>4, <1>5

\* The file, its lock and the keys.
AllSame == UNCHANGED <<file, lock, identity, keyOf>>
ButLock == UNCHANGED <<file, identity, keyOf>>

\* What each step of a call does, by what the worker was doing.
OpenCase(w) ==
    /\ work[w].pc = "idle" /\ UNCHANGED <<file, lock, identity>>
    /\ \/ FileGoes(w, [pc |-> "generate"]) /\ UNCHANGED keyOf
       \/ UNCHANGED <<callVars, work>> /\ keyOf' = [keyOf EXCEPT ![w] = identity]
GenerateCase(w) ==
    /\ work[w].pc = "generate" /\ FileGoes(w, [pc |-> "idle"]) /\ UNCHANGED <<file, lock>>
    /\ identity' = w /\ keyOf' = [keyOf EXCEPT ![w] = w]
LockCase(w) ==
    /\ work[w].pc = "start" /\ AllSame
    /\ FileGoes(w, IF backend = "agevault" THEN [pc |-> "lock", tries |-> 1] ELSE [pc |-> "load"])
CreateCase(w) ==
    /\ backend = "agevault" /\ work[w].pc = "lock" /\ lock = F!NoLock /\ ButLock
    /\ lock' = [owner |-> w, old |-> FALSE] /\ FileGoes(w, [pc |-> "load"])
\* The lock exists; it is old, or may be tried for again; an old one may be removed.
WaitCase(w) ==
    /\ backend = "agevault" /\ AllSame
    /\ \/ work[w].pc = "lock" /\ FileGoes(w, [work[w] EXCEPT !.pc = "stat"])
       \/ work[w].pc = "stat" /\ lock.old /\ FileGoes(w, [work[w] EXCEPT !.pc = "steal"])
       \/ work[w].pc = "stat" /\ FileGoes(w, [pc |-> "lock", tries |-> work[w].tries + 1])
StealCase(w) ==
    /\ backend = "agevault" /\ work[w].pc = "steal" /\ lock' \in {F!NoLock, lock} /\ ButLock
    /\ FileGoes(w, [work[w] EXCEPT !.pc = "lock"])
UnlockCase(w) ==
    /\ work[w].pc = "unlock" /\ FileEnds(w, [pc |-> "idle"]) /\ ButLock
    /\ lock' = IF backend = "agevault" THEN F!NoLock ELSE lock
LoadCase(w) ==
    /\ work[w].pc = "load" /\ AllSame
    /\ FileGoes(w, [pc |-> "save", copy |-> F!Edited(w)])
    /\ backend = "dotenv" /\ call[w].value # Absent =>
          \A m \in Names \ {call[w].name} : EnvKey[m] = EnvKey[call[w].name] => file.entries[m] = Absent
SaveCase(w) ==
    /\ work[w].pc = "save" /\ FileGoes(w, [pc |-> "unlock", result |-> "ok"])
    /\ file' = [key |-> IF backend = "agevault" THEN keyOf[w] ELSE file.key, entries |-> work[w].copy]
    /\ UNCHANGED <<lock, identity, keyOf>>
GiveUpCase(w) ==
    /\ AllSame
    /\ \/ work[w].pc \in {"start", "stat"} /\ FileEnds(w, [pc |-> "idle"])
       \/ work[w].pc \in {"load", "save"} /\ \E r \in {"error", "not_found"} :
             FileGoes(w, [pc |-> "unlock", result |-> r])

FileCase(w) ==
    \/ OpenCase(w) \/ GenerateCase(w) \/ LockCase(w) \/ CreateCase(w) \/ WaitCase(w) \/ StealCase(w)
    \/ UnlockCase(w) \/ LoadCase(w) \/ SaveCase(w) \/ GiveUpCase(w)

LEMMA FileCases ==
    ASSUME NEW w \in Workers, F!Step(w)
    PROVE  FileCase(w)
  <1>0. F!Idle.pc = "idle"
    BY DEF F!Idle
  <1>1. CASE F!OpenAgeVault(w)
    <2>1. OpenCase(w)
      BY <1>0, <1>1, FileForms DEF F!OpenAgeVault, OpenCase, F!callVars, callVars
    <2> QED
      BY <2>1 DEF FileCase
  <1>2. CASE F!GenerateIdentity(w)
    <2>1. GenerateCase(w)
      BY <1>2, FileForms DEF F!GenerateIdentity, F!Opening, GenerateCase, F!Idle
    <2> QED
      BY <2>1 DEF FileCase
  <1>3. CASE F!Lock(w)
    <2>1. LockCase(w)
      BY <1>3, FileForms DEF F!Lock, F!At, LockCase, F!fileVars, AllSame
    <2> QED
      BY <2>1 DEF FileCase
  <1>4. CASE F!CreateLock(w)
    <2>1. CreateCase(w) \/ WaitCase(w)
      BY <1>4, FileForms DEF F!CreateLock, F!At, CreateCase, WaitCase, AllSame, ButLock
    <2> QED
      BY <2>1 DEF FileCase
  <1>5. CASE F!StatLock(w)
    <2>1. WaitCase(w) \/ GiveUpCase(w)
      BY <1>5, FileForms DEF F!StatLock, F!At, WaitCase, GiveUpCase, AllSame, F!fileVars
    <2> QED
      BY <2>1 DEF FileCase
  <1>6. CASE F!StealLock(w)
    <2>1. StealCase(w)
      BY <1>6, FileForms DEF F!StealLock, F!At, StealCase, ButLock
    <2> QED
      BY <2>1 DEF FileCase
  <1>7. CASE F!Unlock(w)
    <2>1. UnlockCase(w)
      BY <1>7, FileForms DEF F!Unlock, F!At, UnlockCase, ButLock
    <2> QED
      BY <2>1 DEF FileCase
  <1>8. CASE F!AgeVaultPut(w) \/ F!AgeVaultDelete(w)
    <2>1. LoadCase(w) \/ GiveUpCase(w)
      BY <1>8, FileForms DEF F!AgeVaultPut, F!AgeVaultDelete, F!At, LoadCase, GiveUpCase, AllSame, F!fileVars
    <2> QED
      BY <2>1 DEF FileCase
  <1>9. CASE F!DotenvPut(w) \/ F!DotenvDelete(w)
    <2>1. LoadCase(w) \/ GiveUpCase(w)
      BY <1>9, FileForms DEF F!DotenvPut, F!DotenvDelete, F!At, F!Deleting, F!Name, LoadCase, GiveUpCase,
         AllSame, F!fileVars
    <2> QED
      BY <2>1 DEF FileCase
  <1>10. CASE F!Refused(w) \/ F!SaveFails(w)
    <2>1. GiveUpCase(w)
      BY <1>10, FileForms DEF F!Refused, F!SaveFails, F!At, GiveUpCase, AllSame, F!fileVars
    <2> QED
      BY <2>1 DEF FileCase
  <1>11. CASE F!Save(w)
    <2>1. SaveCase(w)
      BY <1>11, FileForms DEF F!Save, F!At, SaveCase
    <2> QED
      BY <2>1 DEF FileCase
  <1> QED
    BY <1>1, <1>2, <1>3, <1>4, <1>5, <1>6, <1>7, <1>8, <1>9, <1>10, <1>11 DEF F!Step
LEMMA FileTypeStep ==
    ASSUME TypeInv, backend \in F!FileKinds, [Next]_vars
    PROVE  CallType' /\ InCalls' /\ work' \in [Workers -> FileWork] /\ FileType' /\ UNCHANGED backend
  <1> DEFINE Goal == CallType' /\ InCalls' /\ work' \in [Workers -> FileWork] /\ FileType' /\ UNCHANGED backend
  <1>0. CallType /\ InCalls /\ work \in [Workers -> FileWork] /\ FileType
    BY DEF TypeInv, TypeOK, WorkOK, CallType, FileType, Rows
  <1>1. /\ \A pc \in {"idle", "dead", "generate", "start", "load"} :
              [pc |-> pc] \in FileWork /\ [pc |-> pc].pc = pc
        /\ \A pc \in {"lock", "stat", "steal"}, i \in Int :
              [pc |-> pc, tries |-> i] \in FileWork /\ [pc |-> pc, tries |-> i].pc = pc
        /\ \A r \in {"ok", "error", "not_found"} :
              [pc |-> "unlock", result |-> r] \in FileWork /\ [pc |-> "unlock", result |-> r].pc = "unlock"
        /\ F!NoLock \in [owner : Workers \cup {"none"}, old : BOOLEAN]
    BY DEF FileWork, F!NoLock
  <1>2. ASSUME NEW w \in Workers, NEW k \in FileWork, FileGoes(w, k), k.pc \notin Resting <=> work[w].pc \notin Resting,
               FileType'
        PROVE  Goal
    <2>1. k.pc \notin Resting <=> call[w] # NoCall
      BY <1>0, <1>2 DEF InCalls
    <2> QED
      BY <1>0, <1>2, <2>1, WorkGoes DEF FileGoes
  <1>3. ASSUME NEW w \in Workers, NEW k \in FileWork, FileEnds(w, k), k.pc \in Resting, FileType' PROVE Goal
    BY <1>0, <1>3, WorkEnds DEF FileEnds
  <1>4. ASSUME AllSame PROVE FileType'
    BY <1>0, <1>4 DEF AllSame, FileType
  <1>5. CASE UNCHANGED <<callVars, file, lock, identity, keyOf, work>>
    BY <1>0, <1>5 DEF CallType, callVars, InCalls, FileType
  <1>6. ASSUME NEW w \in Workers, NEW n \in Names, NEW v \in Answers, F!Start(w, n, v) PROVE Goal
    <2>1. Enter(w, n, v, {}) /\ work' = [work EXCEPT ![w] = [pc |-> "start"]] /\ AllSame
      BY <1>6 DEF F!Start, F!Enter, Enter, F!InFlight, InFlight, F!NoCall, NoCall, F!fileVars, AllSame
    <2>2. [pc |-> "start"] \in FileWork /\ [pc |-> "start"].pc \notin Resting /\ {} \in SUBSET Gets
      BY <1>1 DEF Resting
    <2> QED
      BY <1>0, <1>4, <2>1, <2>2, WorkEnters
  <1>7. ASSUME NEW w \in Workers, F!Crash(w) PROVE Goal
    <2>1. FileEnds(w, [pc |-> "dead"]) /\ AllSame
      BY <1>7, FileForms DEF F!Crash, F!fileVars, AllSame
    <2>2. [pc |-> "dead"] \in FileWork /\ [pc |-> "dead"].pc \in Resting
      BY <1>1 DEF Resting
    <2> QED
      BY <1>3, <1>4, <2>1, <2>2
  <1>8. CASE F!Minute
    BY <1>0, <1>8 DEF F!Minute, F!callVars, CallType, InCalls, FileType
  <1>9. ASSUME NEW w \in Workers, FileCase(w) PROVE Goal
    <2>0. work[w] \in FileWork
      BY <1>0
    <2>1. CASE OpenCase(w)
      <3>1. FileType'
        BY <1>0, <2>1 DEF OpenCase, FileType
      <3>2. CASE FileGoes(w, [pc |-> "generate"])
        BY <1>1, <1>2, <2>1, <3>1, <3>2 DEF OpenCase, Resting
      <3>3. CASE UNCHANGED <<callVars, work>>
        BY <1>0, <3>1, <3>3 DEF CallType, callVars, InCalls
      <3> QED
        BY <2>1, <3>2, <3>3 DEF OpenCase
    <2>2. CASE GenerateCase(w)
      <3>1. FileType'
        BY <1>0, <2>2 DEF GenerateCase, FileType
      <3> QED
        BY <1>1, <1>2, <2>2, <3>1 DEF GenerateCase, Resting
    <2>3. CASE LockCase(w)
      <3>1. FileType' /\ 1 \in Int
        BY <1>4, <2>3 DEF LockCase
      <3>2. CASE backend = "agevault"
        BY <1>1, <1>2, <2>3, <3>1, <3>2 DEF LockCase, Resting
      <3>3. CASE backend # "agevault"
        BY <1>1, <1>2, <2>3, <3>1, <3>3 DEF LockCase, Resting
      <3> QED
        BY <3>2, <3>3
    <2>4. CASE CreateCase(w)
      <3>1. FileType'
        BY <1>0, <2>4 DEF CreateCase, ButLock, FileType
      <3> QED
        BY <1>1, <1>2, <2>4, <3>1 DEF CreateCase, Resting
    <2>5. ASSUME work[w].pc \in {"lock", "stat", "steal"}
          PROVE  /\ work[w].tries \in Int
                 /\ \A pc \in {"lock", "stat", "steal"} :
                       [work[w] EXCEPT !.pc = pc] \in FileWork /\ [work[w] EXCEPT !.pc = pc].pc = pc
      BY <2>0, <2>5 DEF FileWork
    <2>6. CASE WaitCase(w)
      <3>1. FileType'
        BY <1>4, <2>6 DEF WaitCase
      <3>2. CASE work[w].pc = "lock" /\ FileGoes(w, [work[w] EXCEPT !.pc = "stat"])
        BY <1>2, <2>5, <3>1, <3>2 DEF Resting
      <3>3. CASE work[w].pc = "stat" /\ FileGoes(w, [work[w] EXCEPT !.pc = "steal"])
        BY <1>2, <2>5, <3>1, <3>3 DEF Resting
      <3>4. CASE work[w].pc = "stat" /\ FileGoes(w, [pc |-> "lock", tries |-> work[w].tries + 1])
        <4>1. work[w].tries + 1 \in Int
          BY <2>5, <3>4
        <4> QED
          BY <1>1, <1>2, <3>1, <3>4, <4>1 DEF Resting
      <3> QED
        BY <2>6, <3>2, <3>3, <3>4 DEF WaitCase
    <2>7. CASE StealCase(w)
      <3>1. FileType'
        BY <1>0, <1>1, <2>7 DEF StealCase, ButLock, FileType
      <3> QED
        BY <1>2, <2>5, <2>7, <3>1 DEF StealCase, Resting
    <2>8. CASE UnlockCase(w)
      <3>1. FileType'
        BY <1>0, <1>1, <2>8 DEF UnlockCase, ButLock, FileType
      <3> QED
        BY <1>1, <1>3, <2>8, <3>1 DEF UnlockCase, Resting
    <2>9. CASE LoadCase(w)
      <3>1. FileType' /\ call[w] # NoCall
        BY <1>0, <1>4, <2>9 DEF LoadCase, InCalls, Resting
      <3>2. F!Edited(w) \in Rows
        BY <1>0, <3>1, CallFacts DEF F!Edited, F!Name, FileType, Rows
      <3>3. [pc |-> "save", copy |-> F!Edited(w)] \in FileWork
        BY <3>2 DEF FileWork
      <3> QED
        BY <1>2, <2>9, <3>1, <3>3 DEF LoadCase, Resting
    <2>10. CASE SaveCase(w)
      <3>1. work[w].copy \in Rows
        BY <2>0, <2>10 DEF SaveCase, FileWork
      <3>2. FileType'
        BY <1>0, <2>10, <3>1 DEF SaveCase, FileType
      <3> QED
        BY <1>1, <1>2, <2>10, <3>2 DEF SaveCase, Resting
    <2>11. CASE GiveUpCase(w)
      <3>1. FileType'
        BY <1>4, <2>11 DEF GiveUpCase
      <3>2. CASE work[w].pc \in {"start", "stat"} /\ FileEnds(w, [pc |-> "idle"])
        BY <1>1, <1>3, <3>1, <3>2 DEF Resting
      <3>3. CASE work[w].pc \in {"load", "save"} /\ \E r \in {"error", "not_found"} :
                   FileGoes(w, [pc |-> "unlock", result |-> r])
        BY <1>1, <1>2, <3>1, <3>3 DEF Resting
      <3> QED
        BY <2>11, <3>2, <3>3 DEF GiveUpCase
    <2> QED
      BY <1>9, <2>1, <2>2, <2>3, <2>4, <2>6, <2>7, <2>8, <2>9, <2>10, <2>11 DEF FileCase
  <1> QED
    BY <1>5, <1>6, <1>7, <1>8, <1>9, FileSteps, FileCases, Zenon

----------------------------------------------------------------------------
(* The dotenv file has one name for each variable.                         *)

LEMMA DotenvStep ==
    ASSUME TypeInv, DotenvInv, [Next]_vars, UNCHANGED backend
    PROVE  DotenvInv'
  <1> SUFFICES ASSUME backend = "dotenv" PROVE OneEach(file'.entries) /\ \A u \in Workers :
                                                  work'[u].pc = "save" => OneEach(work'[u].copy)
    BY DEF DotenvInv, OneEach
  <1>0. /\ backend \in F!FileKinds /\ work \in [Workers -> FileWork] /\ CallType /\ InCalls
        /\ OneEach(file.entries) /\ file.entries \in Rows
        /\ \A u \in Workers : work[u].pc = "save" => OneEach(work[u].copy)
    BY DEF TypeInv, TypeOK, WorkOK, DotenvInv, F!FileKinds, CallType, Rows
  <1> DEFINE Goal == OneEach(file'.entries) /\ \A u \in Workers :
                        work'[u].pc = "save" => OneEach(work'[u].copy)
  <1>1. ASSUME file' = file, NEW w \in Workers, NEW k, work' = [work EXCEPT ![w] = k],
               k.pc = "save" => OneEach(k.copy)
        PROVE  Goal
    BY <1>0, <1>1
  <1>2. CASE UNCHANGED <<callVars, file, lock, identity, keyOf, work>>
    BY <1>0, <1>2
  <1>3. ASSUME NEW w \in Workers, NEW n \in Names, NEW v \in Answers, F!Start(w, n, v) PROVE Goal
    BY <1>1, <1>3 DEF F!Start, F!fileVars
  <1>4. ASSUME NEW w \in Workers, F!Crash(w) PROVE Goal
    BY <1>1, <1>4 DEF F!Crash, F!fileVars, F!Dead
  <1>5. CASE F!Minute
    BY <1>0, <1>5 DEF F!Minute
  <1>6. ASSUME NEW w \in Workers, FileCase(w) PROVE Goal
    <2>1. CASE LoadCase(w)
      <3> DEFINE x == call[w].name
      <3>1. call[w] # NoCall
        BY <1>0, <2>1 DEF LoadCase, InCalls, Resting
      <3>2. x \in Names /\ F!Edited(w) = [file.entries EXCEPT ![x] = call[w].value]
        BY <1>0, <3>1, CallFacts DEF F!Edited, F!Name
      <3>3. OneEach(F!Edited(w))
        <4> SUFFICES ASSUME NEW m \in Names, NEW n \in Names, m # n, EnvKey[m] = EnvKey[n]
                     PROVE  Absent \in {F!Edited(w)[m], F!Edited(w)[n]}
          BY DEF OneEach
        <4>1. \A q \in Names : F!Edited(w)[q] = IF q = x THEN call[w].value ELSE file.entries[q]
          BY <1>0, <3>2 DEF Rows
        <4>2. Absent \in {file.entries[m], file.entries[n]}
          BY <1>0 DEF OneEach
        <4>3. call[w].value # Absent =>
                 \A q \in Names \ {x} : EnvKey[q] = EnvKey[x] => file.entries[q] = Absent
          BY <2>1 DEF LoadCase
        <4> QED
          BY <4>1, <4>2, <4>3
      <3>4. PICK k : k = [pc |-> "save", copy |-> F!Edited(w)]
        OBVIOUS
      <3>5. k.copy = F!Edited(w)
        BY <3>4
      <3> QED
        BY <1>1, <2>1, <3>3, <3>4, <3>5 DEF LoadCase, AllSame, FileGoes
    <2>2. CASE SaveCase(w)
      <3>1. file'.entries = work[w].copy /\ OneEach(work[w].copy)
        BY <1>0, <2>2 DEF SaveCase
      <3>2. \A u \in Workers : work'[u].pc = "save" => u # w /\ work'[u] = work[u]
        BY <1>0, <2>2 DEF SaveCase, FileGoes
      <3> QED
        BY <1>0, <3>1, <3>2
    <2>3. CASE OpenCase(w)
      BY <1>0, <1>1, <2>3 DEF OpenCase, FileGoes
    <2>4. CASE GenerateCase(w) \/ LockCase(w) \/ UnlockCase(w)
      BY <1>1, <2>4 DEF GenerateCase, LockCase, UnlockCase, FileGoes, FileEnds, AllSame, ButLock
    <2>5. CASE GiveUpCase(w)
      BY <1>1, <2>5 DEF GiveUpCase, FileGoes, FileEnds, AllSame
    <2>6. ~(CreateCase(w) \/ WaitCase(w) \/ StealCase(w))
      BY DEF CreateCase, WaitCase, StealCase
    <2> QED
      BY <1>6, <2>1, <2>2, <2>3, <2>4, <2>5, <2>6 DEF FileCase
  <1> QED
    BY <1>0, <1>2, <1>3, <1>4, <1>5, <1>6, FileSteps, FileCases, Zenon
----------------------------------------------------------------------------
(* The vault file has one writer.                                          *)

\* A worker that is not dead goes from its place to k, the lock unchanged or
\* replaced by one that is not old.
LEMMA LockMoves ==
    ASSUME TypeInv, LockInv, backend = "agevault", UNCHANGED backend,
           NEW w \in Workers, NEW k, work[w].pc # "dead", work' = [work EXCEPT ![w] = k],
           lock' = lock \/ ~lock'.old,
           k.pc = "steal" => \E d \in Workers : d # w /\ work[d] = F!Dead,
           NobodyDied \/ AtMostTwo =>
              /\ k.pc \in {"load", "save", "unlock"} => lock'.owner = w
              /\ \A u \in Workers : u # w /\ work[u].pc \in {"load", "save", "unlock"} => lock'.owner = u
    PROVE  LockInv'
  <1>0. /\ \A u \in Workers : work'[u] = IF u = w THEN k ELSE work[u]
        /\ work[w] # F!Dead
    BY DEF TypeInv, WorkOK, F!FileKinds, F!Dead
  <1>1. lock'.old => lock'.owner \in Workers /\ work'[lock'.owner] = F!Dead
    BY <1>0 DEF LockInv
  <1>2. \A u \in Workers : work'[u].pc = "steal" => \E d \in Workers : d # u /\ work'[d] = F!Dead
    <2> SUFFICES ASSUME NEW u \in Workers, work'[u].pc = "steal"
                 PROVE  \E d \in Workers : d # u /\ work'[d] = F!Dead
      OBVIOUS
    <2>1. PICK d \in Workers : d # u /\ work[d] = F!Dead
      BY <1>0 DEF LockInv
    <2>2. work'[d] = F!Dead
      BY <1>0, <2>1
    <2> QED
      BY <2>1, <2>2
  <1>3. ASSUME (\A u \in Workers : work'[u] # F!Dead) \/ AtMostTwo,
               NEW u \in Workers, work'[u].pc \in {"load", "save", "unlock"}
        PROVE  lock'.owner = u
    <2>1. NobodyDied \/ AtMostTwo
      BY <1>0, <1>3 DEF NobodyDied
    <2> QED
      BY <1>0, <1>3, <2>1
  <1> QED
    BY <1>1, <1>2, <1>3 DEF LockInv, NobodyDied

LEMMA LockStep ==
    ASSUME ~Stalls, TypeInv, LockInv, [Next]_vars, UNCHANGED backend
    PROVE  LockInv'
  <1> SUFFICES ASSUME backend = "agevault" PROVE LockInv'
    BY DEF LockInv
  <1>0. /\ backend \in F!FileKinds /\ work \in [Workers -> FileWork]
        /\ lock \in [owner : Workers \cup {"none"}, old : BOOLEAN]
    BY DEF TypeInv, TypeOK, WorkOK, F!FileKinds
  <1> DEFINE Goal == LockInv'
             Inside == {"load", "save", "unlock"}
             Cond == NobodyDied \/ AtMostTwo
  <1>1. /\ lock.old => lock.owner \in Workers /\ work[lock.owner] = F!Dead
        /\ \A u \in Workers : work[u].pc = "steal" => \E d \in Workers : d # u /\ work[d] = F!Dead
        /\ Cond => \A u \in Workers : work[u].pc \in Inside => lock.owner = u
    BY DEF LockInv
  <1>2. ASSUME UNCHANGED <<lock, work>> PROVE Goal
    BY <1>2 DEF LockInv, NobodyDied
  \* The lock stays, and w does not get in.
  <1>3. ASSUME lock' = lock, NEW w \in Workers, NEW k, work[w].pc # "dead", work' = [work EXCEPT ![w] = k],
               k.pc # "steal", k.pc \in Inside => work[w].pc \in Inside
        PROVE  Goal
    BY <1>1, <1>3, LockMoves
  <1>4. CASE UNCHANGED <<callVars, file, lock, identity, keyOf, work>>
    BY <1>2, <1>4
  <1>5. ASSUME NEW w \in Workers, NEW n \in Names, NEW v \in Answers, F!Start(w, n, v) PROVE Goal
    <2>1. PICK k : k = [pc |-> "start"]
      OBVIOUS
    <2>2. /\ k.pc = "start" /\ work' = [work EXCEPT ![w] = k] /\ lock' = lock
          /\ work[w].pc = "idle"
      BY <1>5, <2>1 DEF F!Start, F!fileVars, F!Idle
    <2> QED
      BY <1>3, <2>2
  <1>6. ASSUME NEW w \in Workers, F!Crash(w) PROVE Goal
    <2>1. work[w].pc # "dead"
      <3>1. call[w] # NoCall
        BY <1>6 DEF F!Crash, F!NoCall, NoCall
      <3> QED
        BY <3>1 DEF TypeInv, WorkOK, InCalls, Resting
    <2>2. PICK k : k = F!Dead
      OBVIOUS
    <2>3. k.pc = "dead" /\ work' = [work EXCEPT ![w] = k] /\ lock' = lock
      BY <1>6, <2>2 DEF F!Crash, F!fileVars, F!Dead
    <2> QED
      BY <1>3, <2>1, <2>3
  <1>7. CASE F!Minute
    <2>1. lock.owner \in Workers /\ work[lock.owner] = F!Dead
      BY <1>0, <1>7 DEF F!Minute
    <2>2. lock'.owner = lock.owner /\ work' = work
      BY <1>0, <1>7 DEF F!Minute
    <2> QED
      BY <1>1, <2>1, <2>2 DEF LockInv, NobodyDied
  <1>8. ASSUME NEW w \in Workers, FileCase(w) PROVE Goal
    <2>1. CASE OpenCase(w)
      BY <1>2, <1>3, <2>1 DEF OpenCase, FileGoes
    <2>2. CASE GenerateCase(w)
      <3>1. PICK k : k = [pc |-> "idle"]
        OBVIOUS
      <3>2. k.pc # "steal" /\ (k.pc \in Inside => work[w].pc \in Inside)
        BY <2>2, <3>1 DEF GenerateCase
      <3>3. work' = [work EXCEPT ![w] = k] /\ lock' = lock /\ work[w].pc # "dead"
        BY <2>2, <3>1 DEF GenerateCase, FileGoes
      <3> QED
        BY <1>3, <3>2, <3>3
    <2>3. CASE LockCase(w)
      <3>1. PICK k : k = (IF backend = "agevault" THEN [pc |-> "lock", tries |-> 1] ELSE [pc |-> "load"])
        OBVIOUS
      <3>2. k.pc # "steal" /\ (k.pc \in Inside => work[w].pc \in Inside)
        BY <2>3, <3>1 DEF LockCase
      <3>3. work' = [work EXCEPT ![w] = k] /\ lock' = lock /\ work[w].pc # "dead"
        BY <2>3, <3>1 DEF LockCase, FileGoes, AllSame
      <3> QED
        BY <1>3, <3>2, <3>3
    <2>4. CASE CreateCase(w)
      <3>1. lock.owner \notin Workers
        BY <2>4, NamesAssumption DEF CreateCase, F!NoLock
      <3>2. Cond => \A u \in Workers : work[u].pc \notin Inside
        BY <1>1, <3>1
      <3>3. lock'.owner = w /\ ~lock'.old
        BY <2>4 DEF CreateCase
      <3> QED
        BY <2>4, <3>2, <3>3, LockMoves DEF CreateCase, FileGoes
    <2>5. CASE WaitCase(w)
      <3>0. work[w].pc \in {"lock", "stat"} => \A pc \in {"stat", "steal"} : [work[w] EXCEPT !.pc = pc].pc = pc
        BY <1>0 DEF FileWork
      <3>1. CASE work[w].pc = "lock" /\ FileGoes(w, [work[w] EXCEPT !.pc = "stat"])
        BY <1>3, <2>5, <3>0, <3>1 DEF WaitCase, AllSame, FileGoes
      <3>2. CASE work[w].pc = "stat" /\ lock.old /\ FileGoes(w, [work[w] EXCEPT !.pc = "steal"])
        <4>1. lock.owner \in Workers /\ work[lock.owner] = F!Dead /\ lock.owner # w
          BY <1>1, <3>2 DEF F!Dead
        <4>2. PICK k : k = [work[w] EXCEPT !.pc = "steal"]
          OBVIOUS
        <4>3. k.pc = "steal" /\ work' = [work EXCEPT ![w] = k] /\ lock' = lock
          BY <2>5, <3>0, <3>2, <4>2 DEF WaitCase, AllSame, FileGoes
        <4> QED
          BY <1>1, <3>2, <4>1, <4>3, LockMoves
      <3>3. CASE work[w].pc = "stat" /\ FileGoes(w, [pc |-> "lock", tries |-> work[w].tries + 1])
        <4>1. PICK k : k = [pc |-> "lock", tries |-> work[w].tries + 1]
          OBVIOUS
        <4>2. k.pc = "lock" /\ work' = [work EXCEPT ![w] = k] /\ lock' = lock
          BY <2>5, <3>3, <4>1 DEF WaitCase, AllSame, FileGoes
        <4> QED
          BY <1>3, <3>3, <4>2
      <3> QED
        BY <2>5, <3>1, <3>2, <3>3 DEF WaitCase
    <2>6. CASE StealCase(w)
      <3>1. PICK d \in Workers : d # w /\ work[d] = F!Dead
        BY <1>1, <2>6 DEF StealCase
      <3>2. Cond => \A u \in Workers : u = d \/ u = w
        BY <3>1 DEF NobodyDied, AtMostTwo
      <3>3. (lock' = lock \/ ~lock'.old) /\ work[d].pc \notin Inside
        BY <2>6, <3>1 DEF StealCase, F!NoLock, F!Dead
      <3>4. PICK k : k = [work[w] EXCEPT !.pc = "lock"]
        OBVIOUS
      <3>5. k.pc = "lock" /\ work' = [work EXCEPT ![w] = k] /\ work[w].pc = "steal"
        BY <1>0, <2>6, <3>4 DEF StealCase, FileGoes, FileWork
      <3> QED
        BY <3>1, <3>2, <3>3, <3>5, LockMoves
    <2>7. CASE UnlockCase(w)
      <3>1. Cond => \A u \in Workers : u # w => work[u].pc \notin Inside
        BY <1>1, <2>7 DEF UnlockCase
      <3>2. ~lock'.old
        BY <2>7 DEF UnlockCase, F!NoLock
      <3>3. PICK k : k = [pc |-> "idle"]
        OBVIOUS
      <3>4. k.pc = "idle" /\ work' = [work EXCEPT ![w] = k] /\ work[w].pc = "unlock"
        BY <2>7, <3>3 DEF UnlockCase, FileEnds
      <3> QED
        BY <3>1, <3>2, <3>4, LockMoves
    <2>8. CASE LoadCase(w)
      <3>1. PICK k : k = [pc |-> "save", copy |-> F!Edited(w)]
        OBVIOUS
      <3>2. k.pc = "save" /\ work' = [work EXCEPT ![w] = k] /\ lock' = lock /\ work[w].pc = "load"
        BY <2>8, <3>1 DEF LoadCase, FileGoes, AllSame
      <3> QED
        BY <1>3, <3>2
    <2>9. CASE SaveCase(w)
      BY <1>3, <2>9 DEF SaveCase, FileGoes
    <2>10. CASE GiveUpCase(w)
      BY <1>3, <2>10 DEF GiveUpCase, FileGoes, FileEnds, AllSame
    <2> QED
      BY <1>8, <2>1, <2>2, <2>3, <2>4, <2>5, <2>6, <2>7, <2>8, <2>9, <2>10 DEF FileCase
  <1> QED
    BY <1>0, <1>4, <1>5, <1>6, <1>7, <1>8, FileSteps, FileCases, Zenon
----------------------------------------------------------------------------
(* The vendors' backends: what a step makes of a worker and of the places. *)

ChangeWork == [pc : {"start", "write", "version", "purge"}, items : SUBSET Places, tries : Nat]
ListWork == [pc : {"list", "listed"}, items : SUBSET Places, out : SUBSET Names]

HeldType == held \in [Places -> {R!Nothing, R!Foreign} \cup [name : Names, value : Values]]

\* The worker's own record is written in p: the place of its name, or for an
\* item the one its find found, or a free one.
Writes(w, p) ==
    /\ held' = [held EXCEPT ![p] = [name |-> call[w].name, value |-> call[w].value]]
    /\ p \in Places /\ call[w].value # Absent
    /\ backend \in R!Keyed \cup R!Direct => p = R!Place(call[w].name)
    /\ backend = "onepassword" =>
          /\ work[w].pc = "write"
          /\ p \in work[w].items \/ (work[w].items = {} /\ held[p] = R!Nothing)

Clears(p) == held' = [held EXCEPT ![p] = R!Nothing]

\* The method goes on with k; for onepassword it has just taken the mutex and
\* looked for the item.
ChangeGoes(w, k) ==
    /\ k \in ChangeWork /\ work' = [work EXCEPT ![w] = k] /\ UNCHANGED callVars
    /\ k.pc = "version" => call[w].value # Absent
    /\ backend = "onepassword" =>
          /\ held' = held /\ k.pc = "write" /\ call[w].value # Absent /\ R!Alone(w)
          /\ k.items = IF R!Find(call[w].name) = {} THEN {} ELSE {R!Min(R!Find(call[w].name))}

ChangeEnds(w) == work' = [work EXCEPT ![w] = R!Idle] /\ Returns(w)

\* onepassword deletes an item with the mutex in hand.
Cleared(w) == \E p \in Places : Clears(p) /\ (backend = "onepassword" => R!Alone(w))

\* A Put or Delete goes on, or ends.
Change(w) ==
    /\ call[w] # NoCall
    /\ ChangeEnds(w) \/ \E k : ChangeGoes(w, k)
    /\ held' = held \/ Cleared(w) \/ \E p \in Places : Writes(w, p) /\ ChangeEnds(w)
    /\ reserved' \in SUBSET Places

\* At the start of every step: the call the worker is in.
LEMMA RemoteFacts ==
    ASSUME TypeInv, backend \in R!RemoteKinds, NEW w \in Workers, call[w] # NoCall
    PROVE  /\ call[w].name \in Names /\ call[w].value \in Answers
           /\ call[w].value # Absent => call[w].value \in Values
           /\ EnvKey[call[w].name] \in Places /\ Remote[call[w].name] \in Places
           /\ work[w] \in ChangeWork
           /\ held \in [Places -> {R!Nothing, R!Foreign} \cup [name : Names, value : Values]]
           /\ reserved \in SUBSET Places
           /\ work \in [Workers -> RemoteWork]
  <1>1. CallType /\ InCalls /\ work \in [Workers -> RemoteWork] /\ reserved \in SUBSET Places
    BY DEF TypeInv, TypeOK, WorkOK, CallType
  <1>2. call[w].name \in Names /\ call[w].value \in Answers
           /\ (call[w].value # Absent => call[w].value \in Values)
    BY <1>1, CallFacts
  <1>3. work[w].pc \notin Resting /\ work[w] \in RemoteWork
    BY <1>1 DEF InCalls
  <1>4. work[w] \in ChangeWork
    BY <1>3 DEF RemoteWork, ChangeWork, R!Idle, Resting
  <1>5. EnvKey[call[w].name] \in Places /\ Remote[call[w].name] \in Places
    BY <1>2, BackendsAssumption
  <1> QED
    BY <1>1, <1>2, <1>4, <1>5 DEF TypeInv, TypeOK

LEMMA MinOK ==
    ASSUME NEW S \in SUBSET Places, S # {}
    PROVE  R!Min(S) \in S
    BY BackendsAssumption DEF R!Min

LEMMA RemoteForms ==
    ASSUME NEW w
    PROVE  /\ \A r : R!Finish(w, r) => ChangeEnds(w)
           /\ \A r : R!Refuse(w, r) => ChangeEnds(w) /\ UNCHANGED <<held, reserved>>
           /\ \A p, heard : R!Drop(w, p, heard) => ChangeEnds(w) /\ Clears(p) /\ UNCHANGED reserved
           /\ \A p, heard : R!Keep(w, p, heard) =>
                 /\ ChangeEnds(w) /\ UNCHANGED reserved
                 /\ held' = [held EXCEPT ![p] = [name |-> call[w].name, value |-> call[w].value]]
  <1>1. ASSUME NEW s, R!Return(w, s) PROVE Returns(w)
    BY <1>1 DEF R!Return, Returns, R!NoCall, NoCall
  <1>2. \A r : R!Finish(w, r) => ChangeEnds(w)
    BY <1>1 DEF R!Finish, ChangeEnds
  <1>3. \A r : R!Refuse(w, r) => ChangeEnds(w) /\ UNCHANGED <<held, reserved>>
    BY <1>2 DEF R!Refuse, R!storeVars
  <1>4. \A p, heard : R!Drop(w, p, heard) => ChangeEnds(w) /\ Clears(p) /\ UNCHANGED reserved
    BY <1>2 DEF R!Drop, Clears
  <1>5. \A p, heard : R!Keep(w, p, heard) =>
           /\ ChangeEnds(w) /\ UNCHANGED reserved
           /\ held' = [held EXCEPT ![p] = [name |-> call[w].name, value |-> call[w].value]]
    BY <1>2 DEF R!Keep, R!Entry, R!Name
  <1> QED
    BY <1>2, <1>3, <1>4, <1>5
LEMMA ChangeCases ==
    ASSUME TypeInv, NEW w \in Workers,
           R!KeyedStep(w) \/ R!DirectStep(w) \/ R!TitledStep(w) \/ R!CallFails(w)
    PROVE  Change(w)
  <1> DEFINE x == call[w].name
             v == call[w].value
  <1>0. backend \in R!RemoteKinds
    BY RemoteOnly
  <1>1. /\ \A kinds, pc : R!At(w, kinds, pc) => call[w] # NoCall /\ backend \in kinds /\ work[w].pc = pc
        /\ R!CallFails(w) => call[w] # NoCall
    BY DEF R!At, R!NoCall, NoCall, R!CallFails, R!RunFails, R!VaultCallFails, R!Fails
  <1>2. call[w] # NoCall
    <2>1. CASE R!KeyedStep(w)
      BY <1>1, <2>1 DEF R!KeyedStep, R!DopplerPut, R!DopplerDelete, R!InfisicalPut, R!InfisicalDelete,
         R!SetKey, R!DeleteKey
    <2>2. CASE R!DirectStep(w)
      BY <1>1, <2>2 DEF R!DirectStep, R!VaultDelete, R!AwsDelete, R!GcpDelete, R!AzurePurge, R!VaultPut,
         R!AwsPut, R!AwsPutVersion, R!GcpPut, R!GcpAddVersion, R!AzurePut, R!AzureDelete, R!RemoveForGood
    <2>3. CASE R!TitledStep(w)
      BY <1>1, <2>3 DEF R!TitledStep, R!BitwardenPut, R!BitwardenDelete, R!OnePasswordPut,
         R!BitwardenDeleteItem, R!OnePasswordDelete, R!PutItem
    <2> QED
      BY <1>1, <2>1, <2>2, <2>3
  <1>3. /\ x \in Names /\ v \in Answers /\ (v # Absent => v \in Values)
        /\ EnvKey[x] \in Places /\ Remote[x] \in Places
        /\ work[w] \in ChangeWork /\ work[w].items \in SUBSET Places
        /\ held \in [Places -> {R!Nothing, R!Foreign} \cup [name : Names, value : Values]]
        /\ reserved \in SUBSET Places
    BY <1>0, <1>2, RemoteFacts DEF ChangeWork
  <1>4. ASSUME NEW r, R!Refuse(w, r) PROVE Change(w)
    BY <1>2, <1>3, <1>4, RemoteForms DEF Change
  <1>5. ASSUME NEW pc \in {"write", "version"}, NEW items \in SUBSET Places, R!Then(w, pc, items),
               pc = "version" => v # Absent,
               backend = "onepassword" =>
                  /\ pc = "write" /\ v # Absent /\ R!Alone(w)
                  /\ items = IF R!Find(x) = {} THEN {} ELSE {R!Min(R!Find(x))}
        PROVE  Change(w)
    <2>1. PICK k : k = [work[w] EXCEPT !.pc = pc, !.items = items]
      OBVIOUS
    <2>2. k \in ChangeWork /\ k.pc = pc /\ k.items = items
      BY <1>3, <1>5, <2>1 DEF ChangeWork
    <2>3. work' = [work EXCEPT ![w] = k] /\ UNCHANGED <<held, reserved, callVars>>
      BY <1>5, <2>1 DEF R!Then, R!callVars, callVars
    <2>4. ChangeGoes(w, k)
      BY <1>5, <2>2, <2>3 DEF ChangeGoes
    <2> QED
      BY <1>2, <1>3, <2>2, <2>3, <2>4 DEF Change
  <1>6. ASSUME NEW p \in Places, NEW heard, R!Keep(w, p, heard), v # Absent,
               backend \in R!Keyed \cup R!Direct => p = R!Place(x),
               backend = "onepassword" => /\ work[w].pc = "write"
                                          /\ p \in work[w].items \/ (work[w].items = {} /\ held[p] = R!Nothing)
        PROVE  Change(w)
    <2>1. Writes(w, p) /\ ChangeEnds(w) /\ UNCHANGED reserved
      BY <1>6, RemoteForms DEF Writes
    <2> QED
      BY <1>2, <1>3, <2>1 DEF Change
  <1>7. ASSUME NEW p \in Places, NEW heard, R!Drop(w, p, heard), backend = "onepassword" => R!Alone(w)
        PROVE  Change(w)
    <2>1. Clears(p) /\ ChangeEnds(w) /\ UNCHANGED reserved
      BY <1>7, RemoteForms
    <2> QED
      BY <1>2, <1>3, <1>7, <2>1 DEF Change, Cleared
  <1>8. /\ R!Keyed \cap R!Direct = {} /\ "onepassword" \notin R!Keyed \cup R!Direct
        /\ "bitwarden" \notin R!Keyed \cup R!Direct /\ R!Titled \cap (R!Keyed \cup R!Direct) = {}
        /\ R!Titled = {"bitwarden", "onepassword"} /\ R!Keyed = {"doppler", "infisical"}
        /\ R!Direct = {"vault", "aws", "gcp", "azure", "azure-purge"} /\ R!Azure = {"azure", "azure-purge"}
    BY DEF R!Keyed, R!Direct, R!Titled, R!Azure
  <1>9. {} \in SUBSET Places /\ "write" \in {"write", "version"} /\ "write" # "version"
    OBVIOUS
  <1>10. ASSUME backend # "onepassword", R!Then(w, "write", {}) PROVE Change(w)
    BY <1>5, <1>9, <1>10
  <1>11. ASSUME backend # "onepassword", R!Then(w, "version", {}), v # Absent PROVE Change(w)
    BY <1>5, <1>9, <1>11
  <1>12. CASE R!KeyedStep(w)
    <2>1. ASSUME backend \in R!Keyed, R!PutAtKey(w) PROVE Change(w)
      BY <1>4, <1>8, <1>10, <2>1 DEF R!PutAtKey
    <2>2. ASSUME NEW m, backend \in R!Keyed, R!DeleteAtKey(w, m) PROVE Change(w)
      BY <1>4, <1>8, <1>10, <2>2 DEF R!DeleteAtKey
    <2>3. CASE R!DopplerPut(w) \/ R!InfisicalPut(w)
      BY <1>1, <1>8, <2>1, <2>3 DEF R!DopplerPut, R!InfisicalPut
    <2>4. CASE R!DopplerDelete(w) \/ R!InfisicalDelete(w)
      BY <1>1, <1>8, <2>2, <2>4 DEF R!DopplerDelete, R!InfisicalDelete
    <2>5. ASSUME NEW heard \in BOOLEAN, R!SetKey(w, heard) PROVE Change(w)
      <3>1. backend \in R!Keyed /\ v # Absent /\ R!Keep(w, EnvKey[x], heard)
        BY <1>1, <2>5 DEF R!SetKey, R!Putting, R!Name
      <3>2. R!Place(x) = EnvKey[x] /\ backend # "onepassword"
        BY <1>8, <3>1 DEF R!Place
      <3> QED
        BY <1>3, <1>6, <3>1, <3>2
    <2>6. ASSUME NEW heard \in BOOLEAN, R!DeleteKey(w, heard) PROVE Change(w)
      BY <1>1, <1>3, <1>7, <1>8, <2>6 DEF R!DeleteKey, R!Name
    <2> QED
      BY <1>12, <2>3, <2>4, <2>5, <2>6 DEF R!KeyedStep
  <1>13. CASE R!DirectStep(w)
    <2>1. ASSUME backend \in R!Direct, NEW m, R!LookFirst(w, m) PROVE Change(w)
      BY <1>4, <1>8, <1>10, <2>1 DEF R!LookFirst
    <2>2. ASSUME backend \in R!Direct, NEW heard, R!Keep(w, Remote[x], heard), v # Absent PROVE Change(w)
      <3>1. R!Place(x) = Remote[x] /\ backend # "onepassword"
        BY <1>8, <2>2 DEF R!Place
      <3> QED
        BY <1>3, <1>6, <2>2, <3>1
    <2>3. CASE R!VaultDelete(w) \/ R!AwsDelete(w) \/ R!GcpDelete(w)
      BY <1>1, <1>8, <2>1, <2>3 DEF R!VaultDelete, R!AwsDelete, R!GcpDelete
    <2>4. CASE R!AzurePurge(w)
      <3>1. backend \in R!Azure /\ work[w].pc = "purge"
        BY <1>1, <2>4 DEF R!AzurePurge
      <3>2. CASE reserved' = reserved \ {Remote[x]} /\ UNCHANGED held /\ R!Finish(w, "ok")
        BY <1>2, <1>3, <3>2, RemoteForms DEF Change
      <3>3. CASE work' = [work EXCEPT ![w].tries = @ + 1] /\ UNCHANGED <<callVars, held, reserved>>
        <4>1. PICK k : k = [work[w] EXCEPT !.tries = @ + 1]
          OBVIOUS
        <4>2. k \in ChangeWork /\ k.pc = "purge"
          BY <1>3, <3>1, <4>1 DEF ChangeWork
        <4>3. work' = [work EXCEPT ![w] = k]
          BY <3>3, <4>1
        <4>4. ChangeGoes(w, k)
          BY <1>8, <3>1, <3>3, <4>2, <4>3 DEF ChangeGoes
        <4> QED
          BY <1>2, <1>3, <3>3, <4>4 DEF Change
      <3>4. CASE R!Refuse(w, "error")
        BY <1>4, <3>4
      <3> QED
        BY <2>4, <3>2, <3>3, <3>4 DEF R!AzurePurge, R!Name, R!callVars, callVars
    <2>5. ASSUME NEW heard \in BOOLEAN, R!VaultPut(w, heard) PROVE Change(w)
      BY <1>1, <1>8, <2>2, <2>5 DEF R!VaultPut, R!Putting, R!Name
    <2>6. ASSUME NEW heard \in BOOLEAN, R!AwsPut(w, heard) PROVE Change(w)
      <3>1. backend \in R!Direct /\ backend # "onepassword" /\ v # Absent
        BY <1>1, <1>8, <2>6 DEF R!AwsPut, R!Putting
      <3> QED
        BY <1>4, <1>11, <2>2, <2>6, <3>1 DEF R!AwsPut, R!Name
    <2>7. ASSUME work[w].pc = "version" PROVE v # Absent
      BY <1>0, <2>7 DEF TypeInv, WorkOK
    <2>8. ASSUME NEW heard \in BOOLEAN, R!AwsPutVersion(w, heard) PROVE Change(w)
      <3>1. backend \in R!Direct /\ v # Absent
        BY <1>1, <1>8, <2>7, <2>8 DEF R!AwsPutVersion
      <3> QED
        BY <1>4, <2>2, <2>8, <3>1 DEF R!AwsPutVersion, R!Name
    <2>9. ASSUME NEW heard \in BOOLEAN, R!GcpPut(w, heard) PROVE Change(w)
      <3>1. backend \in R!Direct /\ backend # "onepassword" /\ v # Absent
        BY <1>1, <1>8, <2>9 DEF R!GcpPut, R!Putting
      <3> QED
        BY <1>11, <2>2, <2>9, <3>1 DEF R!GcpPut, R!Name
    <2>10. ASSUME NEW heard \in BOOLEAN, R!GcpAddVersion(w, heard) PROVE Change(w)
      <3>1. backend \in R!Direct /\ v # Absent
        BY <1>1, <1>8, <2>7, <2>10 DEF R!GcpAddVersion
      <3> QED
        BY <1>4, <2>2, <2>10, <3>1 DEF R!GcpAddVersion, R!Name
    <2>11. ASSUME NEW heard \in BOOLEAN, R!AzurePut(w, heard) PROVE Change(w)
      <3>1. backend \in R!Direct /\ v # Absent
        BY <1>1, <1>8, <2>11 DEF R!AzurePut, R!Putting
      <3> QED
        BY <1>4, <2>2, <2>11, <3>1 DEF R!AzurePut, R!Name
    <2>12. ASSUME NEW heard \in BOOLEAN, R!AzureDelete(w, heard) PROVE Change(w)
      <3>1. backend \in R!Azure /\ backend # "onepassword"
        BY <1>1, <1>8, <2>12 DEF R!AzureDelete
      <3>2. CASE held[Remote[x]] = R!Nothing
        BY <1>4, <2>12, <3>2 DEF R!AzureDelete, R!Name
      <3>3. CASE held[Remote[x]] # R!Nothing
        <4>1. Clears(Remote[x]) /\ reserved' = reserved \cup {Remote[x]}
          BY <2>12, <3>3 DEF R!AzureDelete, R!Name, Clears
        <4>2. reserved' \in SUBSET Places
          BY <1>3, <4>1
        <4>3. ChangeEnds(w) \/ \E k : ChangeGoes(w, k)
          <5>1. CASE heard /\ backend = "azure-purge"
            <6>1. PICK k : k = [work[w] EXCEPT !.pc = "purge"]
              OBVIOUS
            <6>2. k \in ChangeWork /\ k.pc = "purge"
              BY <1>3, <6>1 DEF ChangeWork
            <6>3. work' = [work EXCEPT ![w] = k] /\ UNCHANGED callVars
              BY <2>12, <3>3, <5>1, <6>1 DEF R!AzureDelete, R!Name, R!callVars, callVars
            <6> QED
              BY <3>1, <6>2, <6>3 DEF ChangeGoes
          <5>2. CASE ~(heard /\ backend = "azure-purge")
            BY <2>12, <3>3, <5>2, RemoteForms DEF R!AzureDelete, R!Name
          <5> QED
            BY <5>1, <5>2
        <4> QED
          BY <1>2, <1>3, <3>1, <4>1, <4>2, <4>3 DEF Change, Cleared
      <3> QED
        BY <3>2, <3>3
    <2>13. ASSUME NEW heard \in BOOLEAN, R!RemoveForGood(w, heard) PROVE Change(w)
      <3>1. Clears(Remote[x]) /\ reserved' = reserved \ {Remote[x]} /\ ChangeEnds(w)
        BY <2>13, RemoteForms DEF R!RemoveForGood, R!Name, Clears
      <3>2. backend # "onepassword"
        BY <1>1, <2>13 DEF R!RemoveForGood
      <3> QED
        BY <1>2, <1>3, <3>1, <3>2 DEF Change, Cleared
    <2> QED
      BY <1>13, <2>3, <2>4, <2>5, <2>6, <2>8, <2>9, <2>10, <2>11, <2>12, <2>13 DEF R!DirectStep
  <1>14. CASE R!TitledStep(w)
    <2>0. R!Find(x) \in SUBSET Places /\ (R!Find(x) # {} => R!Min(R!Find(x)) \in Places)
      BY MinOK DEF R!Find
    <2>1. CASE R!BitwardenPut(w) \/ R!OnePasswordPut(w)
      <3> DEFINE found == IF R!Find(x) = {} THEN {} ELSE {R!Min(R!Find(x))}
      <3>1. found \in SUBSET Places
        BY <2>0
      <3>2. v # Absent /\ R!Alone(w) /\ R!Then(w, "write", found)
        BY <2>1 DEF R!BitwardenPut, R!OnePasswordPut, R!Putting, R!Name
      <3> QED
        BY <1>5, <1>9, <3>1, <3>2
    <2>2. CASE R!BitwardenDelete(w)
      <3>1. backend # "onepassword"
        BY <1>1, <2>2 DEF R!BitwardenDelete
      <3>2. R!Refuse(w, "not_found") \/ R!Then(w, "write", R!Find(x))
        BY <2>2 DEF R!BitwardenDelete, R!Name
      <3> QED
        BY <1>4, <1>5, <1>9, <2>0, <3>1, <3>2
    <2>3. ASSUME NEW heard \in BOOLEAN, R!BitwardenDeleteItem(w, heard) PROVE Change(w)
      <3> DEFINE p == R!Min(work[w].items)
      <3>1. backend = "bitwarden" /\ work[w].pc = "write"
        BY <1>1, <2>3 DEF R!BitwardenDeleteItem
      <3>2. CASE held[p] = R!Nothing
        BY <1>4, <2>3, <3>2 DEF R!BitwardenDeleteItem
      <3>4. ASSUME Clears(p) PROVE held' = held \/ Cleared(w)
        <4>1. CASE p \in Places
          BY <3>1, <3>4, <4>1 DEF Cleared
        <4>2. CASE p \notin Places
          BY <1>3, <3>4, <4>2 DEF Clears
        <4> QED
          BY <4>1, <4>2
      <3>5. CASE held[p] # R!Nothing /\ heard /\ work[w].items # {p}
        <4>1. PICK k : k = [work[w] EXCEPT !.items = @ \ {p}]
          OBVIOUS
        <4>2. k \in ChangeWork /\ k.pc = "write"
          BY <1>3, <3>1, <4>1 DEF ChangeWork
        <4>3. work' = [work EXCEPT ![w] = k] /\ UNCHANGED <<callVars, reserved>> /\ Clears(p)
          BY <2>3, <3>5, <4>1 DEF R!BitwardenDeleteItem, R!callVars, callVars, Clears
        <4>4. ChangeGoes(w, k)
          BY <3>1, <4>2, <4>3 DEF ChangeGoes
        <4> QED
          BY <1>2, <1>3, <3>4, <4>3, <4>4 DEF Change
      <3>6. CASE held[p] # R!Nothing /\ ~(heard /\ work[w].items # {p})
        <4>1. R!Drop(w, p, heard)
          BY <2>3, <3>6 DEF R!BitwardenDeleteItem
        <4>2. ChangeEnds(w) /\ Clears(p) /\ UNCHANGED reserved
          BY <4>1, RemoteForms
        <4> QED
          BY <1>2, <1>3, <3>4, <4>2 DEF Change
      <3> QED
        BY <3>2, <3>5, <3>6
    <2>4. ASSUME NEW heard \in BOOLEAN, R!OnePasswordDelete(w, heard) PROVE Change(w)
      <3>1. CASE R!Find(x) # {}
        <4>1. \/ R!Refuse(w, R!OnePasswordClassify("ambiguous")) \/ R!Drop(w, R!Min(R!Find(x)), heard)
          BY <2>4, <3>1 DEF R!OnePasswordDelete, R!Name
        <4>2. R!Alone(w)
          BY <2>4 DEF R!OnePasswordDelete
        <4> QED
          BY <1>4, <1>7, <2>0, <3>1, <4>1, <4>2
      <3>2. CASE R!Find(x) = {}
        <4>1. R!Refuse(w, R!OnePasswordClassify("missing"))
          BY <2>4, <3>2 DEF R!OnePasswordDelete, R!Name
        <4> QED
          BY <1>4, <4>1
      <3> QED
        BY <3>1, <3>2
    <2>5. ASSUME NEW heard \in BOOLEAN, R!PutItem(w, heard) PROVE Change(w)
      <3>1. backend \in R!Titled /\ work[w].pc = "write" /\ v # Absent
        BY <1>1, <2>5 DEF R!PutItem, R!Putting
      <3>2. backend \notin R!Keyed \cup R!Direct
        BY <1>8, <3>1
      <3>3. ASSUME NEW p \in work[w].items, R!Keep(w, p, heard) PROVE Change(w)
        BY <1>3, <1>6, <3>1, <3>2, <3>3
      <3>4. ASSUME work[w].items = {}, NEW p \in Places, held[p] = R!Nothing, R!Keep(w, p, heard)
            PROVE  Change(w)
        BY <1>6, <3>1, <3>2, <3>4
      <3> QED
        BY <1>4, <2>5, <3>3, <3>4 DEF R!PutItem
    <2> QED
      BY <1>14, <2>1, <2>2, <2>3, <2>4, <2>5 DEF R!TitledStep
  <1>15. CASE R!CallFails(w)
    BY <1>4, <1>15 DEF R!CallFails, R!RunFails, R!VaultCallFails, R!Fails
  <1> QED
    BY <1>12, <1>13, <1>14, <1>15

\* What a List does: its first call, one record after another, all at once.
ListBegins(w, k) ==
    /\ work[w] = R!Idle /\ backend \notin {"infisical", "bitwarden"}
    /\ k.pc = "list" /\ k.items = R!Occupied /\ k.out = {}
ListAtOnce(w, k) ==
    /\ work[w] = R!Idle
    /\ k.pc = "listed" /\ k.items = {} /\ k.out = R!Listed(R!Occupied)
ListFetches(w, k) ==
    /\ work[w].pc = "list" /\ backend # "doppler" /\ k.pc = "list"
    /\ \E p \in work[w].items : k.items = work[w].items \ {p} /\ k.out = work[w].out \cup R!Listed({p})
ListFetchesAll(w, k) ==
    /\ work[w].pc = "list" /\ backend = "doppler" /\ work[w].items # {}
    /\ k.pc = "list" /\ k.items = {} /\ k.out = R!Listed(work[w].items)
ListDone(w, k) ==
    /\ work[w].pc = "list" /\ work[w].items = {}
    /\ k.pc = "listed" /\ k.items = {} /\ k.out = work[w].out
ListStops(w, k) == work[w].pc \in {"list", "listed"} /\ k = R!Idle

ListKind(w, k) ==
    \/ ListBegins(w, k) \/ ListAtOnce(w, k) \/ ListFetches(w, k) \/ ListFetchesAll(w, k)
    \/ ListDone(w, k) \/ ListStops(w, k)

Listing(w) ==
    /\ UNCHANGED <<callVars, held, reserved>>
    /\ \E k \in ListWork \cup {R!Idle} : work' = [work EXCEPT ![w] = k] /\ ListKind(w, k)

LEMMA ListCases ==
    ASSUME TypeInv, backend \in R!RemoteKinds, NEW w \in Workers, R!StartList(w) \/ R!ListStep(w)
    PROVE  Listing(w)
  <1>0. R!callVars = callVars /\ R!callVars' = callVars'
    BY DEF R!callVars, callVars
  <1>1. work \in [Workers -> RemoteWork]
    BY DEF TypeInv, WorkOK
  <1>2. ASSUME work[w].pc \in {"list", "listed"} PROVE work[w] \in ListWork
    BY <1>1, <1>2 DEF RemoteWork, ListWork, R!Idle
  <1>3. R!Occupied \in SUBSET Places /\ \A S : R!Listed(S) \in SUBSET Names
    BY DEF R!Occupied, R!Listed
  <1>4. ASSUME NEW k \in ListWork \cup {R!Idle}, work' = [work EXCEPT ![w] = k], ListKind(w, k),
               UNCHANGED <<callVars, held, reserved>>
        PROVE  Listing(w)
    BY <1>4 DEF Listing
  <1>5. ASSUME NEW kinds, R!NameFirst(w, kinds), "infisical" \notin kinds, "bitwarden" \notin kinds
        PROVE  Listing(w)
    <2>1. PICK k : k = [pc |-> "list", items |-> R!Occupied, out |-> {}]
      OBVIOUS
    <2>2. k \in ListWork /\ k.pc = "list" /\ k.items = R!Occupied /\ k.out = {}
      BY <1>3, <2>1 DEF ListWork
    <2>3. work' = [work EXCEPT ![w] = k] /\ UNCHANGED <<callVars, held, reserved>>
          /\ work[w] = R!Idle /\ backend \in kinds
      BY <1>0, <1>5, <2>1 DEF R!NameFirst
    <2>4. ListBegins(w, k)
      BY <1>5, <2>2, <2>3 DEF ListBegins
    <2> QED
      BY <1>4, <2>2, <2>3, <2>4 DEF ListKind
  <1>6. ASSUME NEW kinds, R!AtOnce(w, kinds) PROVE Listing(w)
    <2>1. PICK k : k = [pc |-> "listed", items |-> {}, out |-> R!Listed(R!Occupied)]
      OBVIOUS
    <2>2. k \in ListWork /\ k.pc = "listed" /\ k.items = {} /\ k.out = R!Listed(R!Occupied)
      BY <1>3, <2>1 DEF ListWork
    <2>3. work' = [work EXCEPT ![w] = k] /\ UNCHANGED <<callVars, held, reserved>> /\ work[w] = R!Idle
      BY <1>0, <1>6, <2>1 DEF R!AtOnce
    <2>4. ListAtOnce(w, k)
      BY <2>2, <2>3 DEF ListAtOnce
    <2> QED
      BY <1>4, <2>2, <2>3, <2>4 DEF ListKind
  <1>7. CASE R!StartList(w)
    BY <1>5, <1>6, <1>7 DEF R!StartList, R!DopplerList, R!InfisicalList, R!VaultList, R!AwsList,
       R!GcpList, R!AzureList, R!BitwardenList, R!OnePasswordList, R!Azure
  <1>8. CASE R!FetchEach(w)
    <2>1. PICK p \in work[w].items :
             work' = [work EXCEPT ![w] = [work[w] EXCEPT !.items = work[w].items \ {p},
                                                         !.out = work[w].out \cup R!Listed({p})]]
      BY <1>8 DEF R!FetchEach
    <2>2. work[w].pc = "list" /\ backend # "doppler" /\ UNCHANGED <<callVars, held, reserved>>
      BY <1>0, <1>8 DEF R!FetchEach, R!Listing, R!Direct, R!Azure
    <2>3. PICK k : k = [work[w] EXCEPT !.items = work[w].items \ {p}, !.out = work[w].out \cup R!Listed({p})]
      OBVIOUS
    <2>4. /\ k \in ListWork /\ k.pc = "list" /\ k.items = work[w].items \ {p}
          /\ k.out = work[w].out \cup R!Listed({p})
      BY <1>2, <1>3, <2>2, <2>3 DEF ListWork
    <2>5. work' = [work EXCEPT ![w] = k]
      BY <2>1, <2>3
    <2>6. ListFetches(w, k)
      BY <2>2, <2>4 DEF ListFetches
    <2> QED
      BY <1>4, <2>2, <2>4, <2>5, <2>6 DEF ListKind
  <1>9. ASSUME work[w].pc \in {"list", "listed"}, work' = [work EXCEPT ![w] = R!Idle],
               UNCHANGED <<callVars, held, reserved>>
        PROVE  Listing(w)
    <2>1. PICK k : k = R!Idle
      OBVIOUS
    <2>2. ListStops(w, k)
      BY <1>9, <2>1 DEF ListStops
    <2> QED
      BY <1>4, <1>9, <2>1, <2>2 DEF ListKind
  <1>10. CASE R!FetchAll(w)
    <2>1. /\ work[w].pc = "list" /\ backend = "doppler" /\ work[w].items # {}
          /\ UNCHANGED <<callVars, held, reserved>>
      BY <1>0, <1>10 DEF R!FetchAll, R!Listing
    <2>2. CASE work[w].items \subseteq R!Occupied
      <3>1. PICK k : k = [work[w] EXCEPT !.items = {}, !.out = R!Listed(work[w].items)]
        OBVIOUS
      <3>2. k \in ListWork /\ k.pc = "list" /\ k.items = {} /\ k.out = R!Listed(work[w].items)
        BY <1>2, <1>3, <2>1, <3>1 DEF ListWork
      <3>3. work' = [work EXCEPT ![w] = k]
        BY <1>10, <2>2, <3>1 DEF R!FetchAll
      <3>4. ListFetchesAll(w, k)
        BY <2>1, <3>2 DEF ListFetchesAll
      <3> QED
        BY <1>4, <2>1, <3>2, <3>3, <3>4 DEF ListKind
    <2>3. CASE ~(work[w].items \subseteq R!Occupied)
      BY <1>9, <1>10, <2>1, <2>3 DEF R!FetchAll
    <2> QED
      BY <2>2, <2>3
  <1>11. CASE R!ListDone(w)
    <2>1. work[w].pc = "list" /\ work[w].items = {} /\ UNCHANGED <<callVars, held, reserved>>
      BY <1>0, <1>11 DEF R!ListDone
    <2>2. PICK k : k = [work[w] EXCEPT !.pc = "listed"]
      OBVIOUS
    <2>3. k \in ListWork /\ k.pc = "listed" /\ k.items = {} /\ k.out = work[w].out
      BY <1>2, <2>1, <2>2 DEF ListWork
    <2>4. work' = [work EXCEPT ![w] = k]
      BY <1>11, <2>2 DEF R!ListDone
    <2>5. ListDone(w, k)
      BY <2>1, <2>3 DEF ListDone
    <2> QED
      BY <1>4, <2>1, <2>3, <2>4, <2>5 DEF ListKind
  <1>12. CASE R!ListReturns(w)
    BY <1>0, <1>9, <1>12 DEF R!ListReturns
  <1> QED
    BY <1>7, <1>8, <1>10, <1>11, <1>12 DEF R!ListStep

\* Nothing of the backend changes but the places that are reserved.
Quiet == UNCHANGED <<callVars, held, work>> /\ reserved' \in SUBSET Places

\* An operator deletes a secret at the console.
ConsoleDeletes(n) ==
    /\ backend \in R!Direct /\ Removed(n) /\ Clears(Remote[n])
    /\ reserved' \in SUBSET Places /\ UNCHANGED work

Begins(w, n, v) ==
    /\ Enter(w, n, v, {}) /\ UNCHANGED <<held, reserved>>
    /\ work[w] = R!Idle /\ work' = [work EXCEPT ![w] = [pc |-> "start", items |-> {}, tries |-> 0]]

RemoteCase ==
    \/ Quiet
    \/ \E w \in Workers, n \in Names, v \in Answers : Begins(w, n, v)
    \/ \E w \in Workers : Change(w)
    \/ \E w \in Workers : Listing(w)
    \/ \E n \in Names : ConsoleDeletes(n)

LEMMA FileOnly ==
    ASSUME TypeInv, backend \notin F!FileKinds, NEW w \in Workers
    PROVE  ~F!Step(w) /\ ~F!Crash(w) /\ \A n, v : ~F!Start(w, n, v)
  <1>1. work[w].pc # "generate"
    <2>1. CASE backend \in R!RemoteKinds
      BY <2>1 DEF TypeInv, WorkOK, RemoteWork, R!Idle
    <2>2. CASE backend = "keychain"
      BY <2>2 DEF TypeInv, WorkOK, KeychainWork
    <2> QED
      BY <2>1, <2>2, KindsAssumption DEF TypeInv, TypeOK
  <1>2. ~F!Step(w)
    BY <1>1 DEF F!Step, F!OpenAgeVault, F!GenerateIdentity, F!Opening, F!Lock, F!CreateLock, F!StatLock,
       F!StealLock, F!Unlock, F!AgeVaultPut, F!AgeVaultDelete, F!DotenvPut, F!DotenvDelete, F!Refused,
       F!Save, F!SaveFails, F!At, F!FileKinds
  <1> QED
    BY <1>2 DEF F!Crash, F!Start, F!FileKinds

LEMMA RemoteCases ==
    ASSUME TypeInv, backend \in R!RemoteKinds, [Next]_vars
    PROVE  RemoteCase /\ FileType' /\ UNCHANGED chunk
  <1>0. backend \notin F!FileKinds /\ backend # "keychain" /\ FileType /\ reserved \in SUBSET Places
    BY KindsDiffer DEF TypeInv, TypeOK, FileType, Rows
  <1>1. ASSUME UNCHANGED <<fileVars, keychainVars>> PROVE FileType' /\ UNCHANGED chunk
    BY <1>0, <1>1 DEF fileVars, keychainVars, FileType
  <1>2. CASE UNCHANGED vars
    BY <1>0, <1>1, <1>2 DEF vars, remoteVars, Quiet, RemoteCase
  <1>3. ASSUME NEW w \in Workers, Starts(w) PROVE RemoteCase /\ FileType' /\ UNCHANGED chunk
    <2>1. CASE R!StartList(w) /\ UNCHANGED <<fileVars, keychainVars>>
      BY <1>1, <2>1, ListCases DEF RemoteCase
    <2>2. ASSUME NEW n \in Names, NEW v \in Answers, R!Start(w, n, v), UNCHANGED <<fileVars, keychainVars>>
          PROVE  RemoteCase /\ FileType' /\ UNCHANGED chunk
      <3>1. Begins(w, n, v)
        BY <2>2 DEF R!Start, Begins, R!Enter, Enter, R!InFlight, InFlight, R!NoCall, NoCall, R!storeVars
      <3> QED
        BY <1>1, <2>2, <3>1 DEF RemoteCase
    <2> QED
      BY <1>0, <1>3, <2>1, <2>2, FileOnly, KeychainOnly, OffersOK DEF Starts
  <1>4. ASSUME NEW w \in Workers, Step(w) PROVE RemoteCase /\ FileType' /\ UNCHANGED chunk
    <2>1. R!Step(w) /\ UNCHANGED <<fileVars, keychainVars>>
      BY <1>0, <1>4, FileOnly, KeychainOnly DEF Step
    <2> QED
      BY <1>1, <2>1, ListCases, ChangeCases DEF R!Step, RemoteCase
  <1>5. ASSUME NEW w \in Workers, Fails(w) PROVE RemoteCase /\ FileType' /\ UNCHANGED chunk
    BY <1>1, <1>5, ChangeCases DEF Fails, RemoteCase
  <1>6. ASSUME NEW w \in Workers PROVE ~Crash(w)
    BY <1>0, FileOnly, KeychainOnly DEF Crash
  <1>7. CASE Operator
    <2>1. PICK n \in Names : R!Outside(n)
      BY <1>7 DEF Operator
    <2>2. Remote[n] \in Places
      BY BackendsAssumption
    <2>3. ConsoleDeletes(n)
      BY <1>0, <2>1, <2>2 DEF R!Outside, ConsoleDeletes, R!Removed, Removed, Clears, R!Direct, R!Azure
    <2> QED
      BY <1>1, <1>7, <2>3 DEF Operator, RemoteCase
  <1>8. ASSUME NEW p \in Places, R!Freed(p), UNCHANGED <<fileVars, keychainVars>>
        PROVE  RemoteCase /\ FileType' /\ UNCHANGED chunk
    BY <1>0, <1>1, <1>8 DEF R!Freed, R!callVars, callVars, Quiet, RemoteCase
  <1>9. ASSUME F!Minute, UNCHANGED <<remoteVars, keychainVars>>
        PROVE  RemoteCase /\ FileType' /\ UNCHANGED chunk
    <2>1. Quiet
      BY <1>0, <1>9 DEF F!Minute, F!callVars, callVars, remoteVars, Quiet
    <2>2. FileType' /\ UNCHANGED chunk
      BY <1>0, <1>9 DEF F!Minute, FileType, keychainVars
    <2> QED
      BY <2>1, <2>2 DEF RemoteCase
  <1> QED
    BY <1>2, <1>3, <1>4, <1>5, <1>6, <1>7, <1>8, <1>9, Zenon DEF Next, World

\* Types.
VersionOK == \A w \in Workers : work[w].pc = "version" => call[w].value # Absent

LEMMA HeldOK ==
    ASSUME HeldType, NEW p \in Places
    PROVE  /\ Clears(p) => HeldType'
           /\ \A w \in Workers : Writes(w, p) /\ call[w].name \in Names /\ call[w].value \in Values => HeldType'
    BY DEF HeldType, Clears, Writes

LEMMA RemoteTypeStep ==
    ASSUME TypeInv, backend \in R!RemoteKinds, RemoteCase
    PROVE  /\ CallType' /\ InCalls' /\ work' \in [Workers -> RemoteWork] /\ VersionOK'
           /\ HeldType' /\ reserved' \in SUBSET Places /\ UNCHANGED backend
  <1> DEFINE Goal == /\ CallType' /\ InCalls' /\ work' \in [Workers -> RemoteWork] /\ VersionOK'
                     /\ HeldType' /\ reserved' \in SUBSET Places /\ UNCHANGED backend
  <1>0. /\ CallType /\ InCalls /\ work \in [Workers -> RemoteWork] /\ HeldType /\ reserved \in SUBSET Places
        /\ VersionOK
    BY DEF TypeInv, TypeOK, WorkOK, CallType, HeldType, VersionOK
  <1>1. CASE Quiet
    BY <1>0, <1>1 DEF Quiet, CallType, callVars, InCalls, HeldType, VersionOK
  <1>2. ASSUME NEW w \in Workers, NEW n \in Names, NEW v \in Answers, Begins(w, n, v) PROVE Goal
    <2>1. PICK k : k = [pc |-> "start", items |-> {}, tries |-> 0]
      OBVIOUS
    <2>2. k \in RemoteWork /\ k.pc = "start" /\ k.pc \notin Resting
      BY <2>1 DEF RemoteWork, Resting
    <2>3. /\ Enter(w, n, v, {}) /\ work' = [work EXCEPT ![w] = k] /\ UNCHANGED <<held, reserved>>
          /\ {} \in SUBSET Gets
      BY <1>2, <2>1 DEF Begins
    <2>4. CallType' /\ InCalls' /\ work' \in [Workers -> RemoteWork] /\ UNCHANGED backend
      BY <1>0, <2>2, <2>3, WorkEnters
    <2>5. VersionOK'
      <3>1. Others(w)
        BY <1>0, <2>3, EnterOK
      <3> SUFFICES ASSUME NEW u \in Workers, work'[u].pc = "version" PROVE call'[u].value # Absent
        BY DEF VersionOK
      <3>2. u # w /\ work[u].pc = "version"
        BY <1>0, <2>2, <2>3
      <3>3. call[u] # NoCall /\ call[u].value # Absent
        BY <1>0, <3>2 DEF InCalls, Resting, VersionOK
      <3> QED
        BY <3>1, <3>2, <3>3 DEF Others
    <2> QED
      BY <1>0, <2>3, <2>4, <2>5 DEF HeldType
  <1>3. ASSUME NEW w \in Workers, Change(w) PROVE Goal
    <2>0. call[w] # NoCall /\ reserved' \in SUBSET Places
      BY <1>3 DEF Change
    <2>1. call[w].name \in Names /\ (call[w].value # Absent => call[w].value \in Values)
      BY <2>0, RemoteFacts
    <2>2. HeldType'
      <3>1. CASE held' = held
        BY <1>0, <3>1 DEF HeldType
      <3>2. ASSUME NEW p \in Places, Clears(p) PROVE HeldType'
        BY <1>0, <3>2, HeldOK
      <3>3. ASSUME NEW p \in Places, Writes(w, p) PROVE HeldType'
        BY <1>0, <2>1, <3>3, HeldOK DEF Writes
      <3> QED
        BY <1>3, <3>1, <3>2, <3>3 DEF Change, Cleared
    <2>3. CASE ChangeEnds(w)
      <3>1. PICK k : k = R!Idle
        OBVIOUS
      <3>2. k \in RemoteWork /\ k.pc = "idle" /\ k.pc \in Resting
        BY <3>1 DEF RemoteWork, Resting, R!Idle
      <3>3. work' = [work EXCEPT ![w] = k] /\ Returns(w)
        BY <2>3, <3>1 DEF ChangeEnds
      <3>4. CallType' /\ InCalls' /\ work' \in [Workers -> RemoteWork] /\ UNCHANGED backend
        BY <1>0, <3>2, <3>3, WorkEnds
      <3>5. VersionOK'
        BY <1>0, <3>2, <3>3 DEF VersionOK, Returns
      <3> QED
        BY <2>0, <2>2, <3>4, <3>5
    <2>4. ASSUME NEW k, ChangeGoes(w, k) PROVE Goal
      <3>1. k \in RemoteWork /\ k.pc \notin Resting
        BY <2>4 DEF ChangeGoes, ChangeWork, RemoteWork, Resting
      <3>2. CallType' /\ InCalls' /\ work' \in [Workers -> RemoteWork] /\ UNCHANGED backend
        BY <1>0, <2>0, <2>4, <3>1, WorkGoes DEF ChangeGoes
      <3>3. VersionOK'
        BY <1>0, <2>4 DEF VersionOK, ChangeGoes, callVars
      <3> QED
        BY <2>0, <2>2, <3>2, <3>3
    <2> QED
      BY <1>3, <2>3, <2>4 DEF Change
  <1>4. ASSUME NEW w \in Workers, Listing(w) PROVE Goal
    <2>1. PICK k \in ListWork \cup {R!Idle} : work' = [work EXCEPT ![w] = k] /\ ListKind(w, k)
      BY <1>4 DEF Listing
    <2>2. k \in RemoteWork /\ k.pc \in Resting /\ k.pc # "version"
      BY <2>1 DEF ListWork, RemoteWork, Resting, R!Idle
    <2>3. work[w].pc \in Resting
      BY <2>1 DEF ListKind, ListBegins, ListAtOnce, ListFetches, ListFetchesAll, ListDone, ListStops,
         Resting, R!Idle
    <2>4. UNCHANGED <<callVars, held, reserved>>
      BY <1>4 DEF Listing
    <2>5. CallType' /\ InCalls' /\ work' \in [Workers -> RemoteWork] /\ UNCHANGED backend
      BY <1>0, <2>1, <2>2, <2>3, <2>4, WorkGoes DEF InCalls
    <2>6. VersionOK'
      BY <1>0, <2>1, <2>2, <2>4 DEF VersionOK, callVars
    <2> QED
      BY <1>0, <2>4, <2>5, <2>6 DEF HeldType
  <1>5. ASSUME NEW n \in Names, ConsoleDeletes(n) PROVE Goal
    <2>1. Remote[n] \in Places
      BY BackendsAssumption
    <2>2. HeldType'
      BY <1>0, <1>5, <2>1, HeldOK DEF ConsoleDeletes
    <2>3. /\ CallType' /\ UNCHANGED backend
          /\ \A u \in Workers :
                /\ call[u] = NoCall <=> call'[u] = NoCall
                /\ call[u] # NoCall => call'[u].name = call[u].name /\ call'[u].value = call[u].value
      BY <1>0, <1>5, RemovedOK DEF ConsoleDeletes
    <2>4. InCalls' /\ work' \in [Workers -> RemoteWork] /\ reserved' \in SUBSET Places
      BY <1>0, <1>5, <2>3 DEF InCalls, ConsoleDeletes
    <2>5. VersionOK'
      BY <1>0, <1>5, <2>3 DEF VersionOK, InCalls, ConsoleDeletes, Resting
    <2> QED
      BY <2>2, <2>3, <2>4, <2>5
  <1> QED
    BY <1>1, <1>2, <1>3, <1>4, <1>5 DEF RemoteCase

----------------------------------------------------------------------------
(* The keychain: what a step makes of a worker and of the chunks.          *)

ChunkType == chunk \in [Names -> [0..(MaxChunks - 1) -> Answers]]

KeychainGoes(w, k) ==
    /\ k \in KeychainWork /\ k.pc \notin Resting
    /\ work' = [work EXCEPT ![w] = k] /\ UNCHANGED callVars
KeychainEnds(w) == work' = [work EXCEPT ![w] = [pc |-> "idle"]] /\ Returns(w)

KeychainCase(w) == KeychainEnds(w) \/ (work[w].pc \notin Resting /\ \E k : KeychainGoes(w, k))

LEMMA KeychainCases ==
    ASSUME TypeInv, backend = "keychain", NEW w \in Workers, K!Step(w) \/ K!Crash(w)
    PROVE  KeychainCase(w) /\ ChunkType'
  <1>0. /\ CallType /\ InCalls /\ work[w] \in KeychainWork /\ ChunkType
        /\ work[w].pc \notin Resting <=> call[w] # NoCall
    BY DEF TypeInv, TypeOK, WorkOK, CallType, ChunkType, InCalls
  <1>1. ASSUME NEW s, K!Return(w, s) PROVE Returns(w)
    BY <1>1 DEF K!Return, Returns, K!NoCall, NoCall
  <1>2. ASSUME K!Settles(w) \/ K!GivesUp(w, TRUE) \/ K!GivesUp(w, FALSE) PROVE KeychainCase(w) /\ call[w] # NoCall
    BY <1>1, <1>2 DEF K!Settles, K!GivesUp, KeychainCase, KeychainEnds, K!Idle, Returns
  <1>3. ASSUME NEW k, NEW f \in BOOLEAN, K!Go(w, k, f), k \in KeychainWork, k.pc \notin Resting, work[w].pc \notin Resting
        PROVE  KeychainCase(w)
    BY <1>3 DEF K!Go, KeychainCase, KeychainGoes, K!callVars, callVars
  <1>4. ASSUME UNCHANGED chunk PROVE ChunkType'
    BY <1>0, <1>4 DEF ChunkType
  <1>5. /\ \A i \in Nat, a \in {"record", "chunk", "failed", "unset"} :
              K!Clear(i, a) \in KeychainWork /\ K!Clear(i, a).pc \notin Resting
        /\ \A i \in Nat, pc \in {"record", "chunk", "header", "failed", "unset"} :
              [pc |-> pc, i |-> i] \in KeychainWork /\ [pc |-> pc, i |-> i].pc \notin Resting
        /\ 0 \in Nat
    BY DEF K!Clear, KeychainWork, Resting
  <1>6. \A pc : pc \notin Resting /\ work[w].pc = pc => call[w] \in CallRecords /\ call[w].name \in Names /\ call[w].value \in Answers
    BY <1>0, CallFacts
  <1>7. CASE K!Put(w)
    <2>1. K!Go(w, K!Clear(0, "record"), FALSE) \/ K!Go(w, K!Clear(0, "chunk"), FALSE)
      BY <1>7 DEF K!Put
    <2>2. work[w].pc \notin Resting
      BY <1>7 DEF K!Put, K!At, Resting
    <2> QED
      BY <1>3, <1>4, <1>5, <1>7, <2>1, <2>2 DEF K!Put
  <1>8. CASE K!Delete(w)
    <2>1. \/ K!Settles(w)
          \/ K!Go(w, K!Clear(0, "unset"), FALSE) \/ K!Go(w, [pc |-> "unset", i |-> 0], FALSE)
      BY <1>8 DEF K!Delete
    <2>2. work[w].pc \notin Resting
      BY <1>8 DEF K!Delete, K!At, Resting
    <2> QED
      BY <1>2, <1>3, <1>4, <1>5, <1>8, <2>1, <2>2 DEF K!Delete
  <1>9. CASE K!DeleteChunks(w)
    <2>1. work[w].pc = "clear" /\ work[w].pc \notin Resting
      BY <1>9 DEF K!DeleteChunks, K!At, Resting
    <2>2. work[w].i \in Nat /\ work[w].after \in {"record", "chunk", "failed", "unset"}
      BY <1>0, <2>1 DEF KeychainWork
    <2>3. \E f \in BOOLEAN :
             K!Go(w, [pc |-> work[w].after, i |-> 0], f) \/ K!Go(w, K!Clear(work[w].i + 1, work[w].after), f)
      BY <1>9 DEF K!DeleteChunks
    <2>4. KeychainCase(w)
      <3>1. work[w].i + 1 \in Nat /\ work[w].after \in {"record", "chunk", "header", "failed", "unset"}
        BY <2>2
      <3> QED
        BY <1>3, <1>5, <2>1, <2>2, <2>3, <3>1
    <2>5. ChunkType'
      <3>1. call[w].name \in Names /\ Absent \in Answers
        BY <1>6, <2>1 DEF Answers
      <3>2. CASE chunk' = [chunk EXCEPT ![call[w].name][work[w].i] = Absent]
        BY <1>0, <3>1, <3>2 DEF ChunkType
      <3>3. CASE UNCHANGED chunk
        BY <1>4, <3>3
      <3> QED
        BY <1>9, <3>2, <3>3 DEF K!DeleteChunks, K!Name
    <2> QED
      BY <2>4, <2>5
  <1>10. CASE K!Fails(w) \/ K!Crash(w)
    BY <1>2, <1>4, <1>10 DEF K!Fails, K!Crash
  <1>11. CASE K!ChunkFails(w)
    <2>1. work[w].pc \notin Resting
      BY <1>11 DEF K!ChunkFails, K!At, Resting
    <2> QED
      BY <1>3, <1>4, <1>5, <1>11, <2>1 DEF K!ChunkFails
  <1>12. ASSUME NEW heard \in BOOLEAN, K!SetRecord(w, heard) \/ K!SetHeader(w, heard) \/ K!DeleteEntry(w, heard)
         PROVE  KeychainCase(w) /\ ChunkType'
    BY <1>2, <1>4, <1>12 DEF K!SetRecord, K!SetHeader, K!DeleteEntry, K!Returns
  <1>13. ASSUME NEW heard \in BOOLEAN, K!SetChunk(w, heard) PROVE KeychainCase(w) /\ ChunkType'
    <2>1. work[w].pc = "chunk" /\ work[w].pc \notin Resting
      BY <1>13 DEF K!SetChunk, K!At, Resting
    <2>2. work[w].i \in Nat
      BY <1>0, <2>1 DEF KeychainWork
    <2>3. \/ K!Go(w, K!Clear(0, "failed"), ~heard) \/ K!Go(w, [pc |-> "chunk", i |-> work[w].i + 1], ~heard)
          \/ K!Go(w, [pc |-> "header", i |-> 0], ~heard)
      BY <1>13 DEF K!SetChunk
    <2>4. KeychainCase(w)
      <3>1. work[w].i + 1 \in Nat
        BY <2>2
      <3> QED
        BY <1>3, <1>5, <2>1, <2>3, <3>1
    <2>5. ChunkType'
      <3>1. call[w].name \in Names /\ call[w].value \in Answers
        BY <1>6, <2>1
      <3>2. chunk' = [chunk EXCEPT ![call[w].name][work[w].i] = call[w].value]
        BY <1>13 DEF K!SetChunk, K!Name, K!Value
      <3> QED
        BY <1>0, <3>1, <3>2 DEF ChunkType
    <2> QED
      BY <2>4, <2>5
  <1> QED
    BY <1>7, <1>8, <1>9, <1>10, <1>11, <1>12, <1>13 DEF K!Step

LEMMA KeychainTypeStep ==
    ASSUME TypeInv, backend = "keychain", [Next]_vars
    PROVE  /\ CallType' /\ InCalls' /\ work' \in [Workers -> KeychainWork] /\ ChunkType'
           /\ FileType' /\ HeldType' /\ reserved' \in SUBSET Places /\ UNCHANGED backend
  <1> DEFINE Goal == /\ CallType' /\ InCalls' /\ work' \in [Workers -> KeychainWork] /\ ChunkType'
                     /\ FileType' /\ HeldType' /\ reserved' \in SUBSET Places /\ UNCHANGED backend
             Rest == FileType' /\ HeldType' /\ reserved' \in SUBSET Places
  <1>0. /\ backend \notin F!FileKinds /\ backend \notin R!RemoteKinds
        /\ CallType /\ InCalls /\ work \in [Workers -> KeychainWork] /\ ChunkType
        /\ FileType /\ HeldType /\ reserved \in SUBSET Places
    BY KindsDiffer DEF TypeInv, TypeOK, WorkOK, CallType, FileType, Rows, HeldType, ChunkType
  <1>1. ASSUME UNCHANGED <<remoteVars, fileVars>> PROVE Rest
    BY <1>0, <1>1 DEF remoteVars, fileVars, FileType, HeldType
  <1>2. ASSUME NEW w \in Workers, KeychainCase(w), ChunkType', Rest PROVE Goal
    <2>1. CASE KeychainEnds(w)
      <3>1. PICK k : k = [pc |-> "idle"]
        OBVIOUS
      <3>2. k \in KeychainWork /\ k.pc \in Resting
        BY <3>1 DEF KeychainWork, Resting
      <3>3. work' = [work EXCEPT ![w] = k] /\ Returns(w)
        BY <2>1, <3>1 DEF KeychainEnds
      <3> QED
        BY <1>0, <1>2, <3>2, <3>3, WorkEnds
    <2>2. ASSUME work[w].pc \notin Resting, NEW k, KeychainGoes(w, k) PROVE Goal
      <3>1. call[w] # NoCall
        BY <1>0, <2>2 DEF InCalls
      <3> QED
        BY <1>0, <1>2, <2>2, <3>1, WorkGoes DEF KeychainGoes
    <2> QED
      BY <1>2, <2>1, <2>2 DEF KeychainCase
  <1>3. ASSUME UNCHANGED <<callVars, work, chunk>>, Rest PROVE Goal
    BY <1>0, <1>3 DEF CallType, callVars, InCalls, ChunkType
  <1>4. ASSUME NEW w \in Workers PROVE ~R!Step(w) /\ ~Fails(w) /\ ~R!StartList(w)
    <2>1. work[w].pc \notin {"list", "listed"}
      BY <1>0 DEF KeychainWork
    <2>2. ~R!ListStep(w)
      BY <2>1 DEF R!ListStep, R!FetchEach, R!FetchAll, R!ListDone, R!ListReturns, R!Listing
    <2> QED
      BY <1>0, <2>2, RemoteOnly DEF R!Step, Fails
  <1>5. CASE UNCHANGED vars
    BY <1>1, <1>3, <1>5 DEF vars, keychainVars
  <1>6. ASSUME NEW w \in Workers, Starts(w) PROVE Goal
    <2>1. PICK n \in Names, v \in Answers : K!Start(w, n, v) /\ UNCHANGED <<remoteVars, fileVars>>
      BY <1>0, <1>4, <1>6, FileOnly, OffersOK DEF Starts
    <2>2. /\ Enter(w, n, v, {Absent, Mixed}) /\ work' = [work EXCEPT ![w] = [pc |-> "start"]] /\ UNCHANGED chunk
          /\ {Absent, Mixed} \in SUBSET Gets
      BY <2>1 DEF Gets, Answers, K!Start, K!Enter, Enter, K!InFlight, InFlight, K!NoCall, NoCall, K!keychainVars
    <2>3. PICK k : k = [pc |-> "start"]
      OBVIOUS
    <2>4. k \in KeychainWork /\ k.pc \notin Resting
      BY <2>3 DEF KeychainWork, Resting
    <2> QED
      BY <1>0, <1>1, <2>1, <2>2, <2>3, <2>4, WorkEnters DEF ChunkType
  <1>7. ASSUME NEW w \in Workers, Step(w) \/ Crash(w) PROVE Goal
    <2>1. (K!Step(w) \/ K!Crash(w)) /\ UNCHANGED <<remoteVars, fileVars>>
      BY <1>0, <1>4, <1>7, FileOnly DEF Step, Crash
    <2> QED
      BY <1>1, <1>2, <2>1, KeychainCases
  <1>8. ~Operator
    BY <1>0 DEF Operator, R!Outside, R!RemoteKinds, R!Direct
  <1>9. ASSUME NEW p \in Places, R!Freed(p), UNCHANGED <<fileVars, keychainVars>> PROVE Goal
    <2>1. Rest /\ UNCHANGED <<callVars, work, chunk>>
      BY <1>0, <1>9 DEF R!Freed, R!callVars, callVars, fileVars, keychainVars, FileType, HeldType
    <2> QED
      BY <1>3, <2>1
  <1>10. ASSUME F!Minute, UNCHANGED <<remoteVars, keychainVars>> PROVE Goal
    <2>1. Rest /\ UNCHANGED <<callVars, work, chunk>>
      BY <1>0, <1>10 DEF F!Minute, F!callVars, callVars, remoteVars, keychainVars, FileType, HeldType
    <2> QED
      BY <1>3, <2>1
  <1> QED
    BY <1>4, <1>5, <1>6, <1>7, <1>8, <1>9, <1>10, Zenon DEF Next, World

----------------------------------------------------------------------------
(* Types.                                                                  *)

\* What the steps of a file backend leave alone.
LEMMA FileLeaves ==
    ASSUME TypeInv, backend \in F!FileKinds, [Next]_vars
    PROVE  HeldType' /\ reserved' \in SUBSET Places /\ ChunkType'
  <1> DEFINE Goal == HeldType' /\ reserved' \in SUBSET Places /\ ChunkType'
  <1>0. /\ backend \notin R!RemoteKinds /\ backend # "keychain"
        /\ HeldType /\ reserved \in SUBSET Places /\ ChunkType
    BY KindsDiffer DEF TypeInv, TypeOK, HeldType, ChunkType
  <1>1. ASSUME UNCHANGED <<remoteVars, keychainVars>> PROVE Goal
    BY <1>0, <1>1 DEF remoteVars, keychainVars, HeldType, ChunkType
  <1>2. ASSUME NEW w \in Workers PROVE ~R!Step(w) /\ ~Fails(w) /\ ~R!StartList(w)
    <2>1. work[w].pc \notin {"list", "listed"}
      BY DEF TypeInv, WorkOK, FileWork
    <2>2. ~R!ListStep(w)
      BY <2>1 DEF R!ListStep, R!FetchEach, R!FetchAll, R!ListDone, R!ListReturns, R!Listing
    <2> QED
      BY <1>0, <2>2, RemoteOnly DEF R!Step, Fails
  <1>3. CASE UNCHANGED vars
    BY <1>1, <1>3 DEF vars
  <1>4. ASSUME NEW w \in Workers, Starts(w) \/ Step(w) \/ Crash(w) PROVE Goal
    BY <1>0, <1>1, <1>2, <1>4, KeychainOnly DEF Starts, Step, Crash
  <1>5. ~Operator
    BY <1>0 DEF Operator, R!Outside, R!RemoteKinds, R!Direct
  <1>6. ASSUME NEW p \in Places, R!Freed(p), UNCHANGED <<fileVars, keychainVars>> PROVE Goal
    BY <1>0, <1>6 DEF R!Freed, keychainVars, HeldType, ChunkType
  <1>7. ASSUME F!Minute, UNCHANGED <<remoteVars, keychainVars>> PROVE Goal
    BY <1>1, <1>7
  <1> QED
    BY <1>2, <1>3, <1>4, <1>5, <1>6, <1>7, Zenon DEF Next, World

LEMMA TypeParts ==
    /\ TypeInv <=> /\ backend \in Kinds /\ CallType /\ HeldType /\ reserved \in SUBSET Places
                   /\ FileType /\ ChunkType /\ InCalls
                   /\ backend \in R!RemoteKinds => work \in [Workers -> RemoteWork] /\ VersionOK
                   /\ backend \in F!FileKinds => work \in [Workers -> FileWork]
                   /\ backend = "keychain" => work \in [Workers -> KeychainWork]
    BY Zenon DEF TypeInv, TypeOK, WorkOK, CallType, HeldType, FileType, ChunkType, VersionOK, Rows

LEMMA TypeStep ==
    ASSUME TypeInv, [Next]_vars
    PROVE  TypeInv' /\ UNCHANGED backend
  <1>0. /\ TypeInv' <=> /\ backend' \in Kinds /\ CallType' /\ HeldType' /\ reserved' \in SUBSET Places
                        /\ FileType' /\ ChunkType' /\ InCalls'
                        /\ backend' \in R!RemoteKinds => work' \in [Workers -> RemoteWork] /\ VersionOK'
                        /\ backend' \in F!FileKinds => work' \in [Workers -> FileWork]
                        /\ backend' = "keychain" => work' \in [Workers -> KeychainWork]
        /\ backend \in Kinds /\ ChunkType
    BY Zenon DEF TypeInv, TypeOK, WorkOK, CallType, HeldType, FileType, ChunkType, VersionOK, Rows
  <1>1. CASE backend \in R!RemoteKinds
    <2>1. backend \notin F!FileKinds /\ backend # "keychain"
      BY <1>1, KindsDiffer
    <2>2. RemoteCase /\ FileType' /\ ChunkType'
      BY <1>0, <1>1, RemoteCases DEF ChunkType
    <2>3. /\ CallType' /\ InCalls' /\ work' \in [Workers -> RemoteWork] /\ VersionOK'
          /\ HeldType' /\ reserved' \in SUBSET Places /\ backend' = backend
      BY <1>1, <2>2, RemoteTypeStep
    <2> QED
      BY <1>0, <1>1, <2>1, <2>2, <2>3
  <1>2. CASE backend \in F!FileKinds
    <2>1. backend \notin R!RemoteKinds /\ backend # "keychain"
      BY <1>2, KindsDiffer
    <2>2. HeldType' /\ reserved' \in SUBSET Places /\ ChunkType'
      BY <1>2, FileLeaves
    <2>3. CallType' /\ InCalls' /\ work' \in [Workers -> FileWork] /\ FileType' /\ backend' = backend
      BY <1>2, FileTypeStep
    <2> QED
      BY <1>0, <1>2, <2>1, <2>2, <2>3
  <1>3. CASE backend = "keychain"
    <2>1. backend \notin R!RemoteKinds /\ backend \notin F!FileKinds
      BY <1>3, KindsDiffer
    <2>2. /\ CallType' /\ InCalls' /\ work' \in [Workers -> KeychainWork] /\ ChunkType'
          /\ FileType' /\ HeldType' /\ reserved' \in SUBSET Places /\ backend' = backend
      BY <1>3, KeychainTypeStep
    <2> QED
      BY <1>0, <1>3, <2>1, <2>2
  <1> QED
    BY <1>0, <1>1, <1>2, <1>3, KindsAssumption

LEMMA SameCardinality ==
    ASSUME NEW S
    PROVE  R!Cardinality(S) = Cardinality(S)
    BY DEF R!Cardinality, Cardinality

\* One item has a title: its set is that item alone.
LEMMA OneItem ==
    ASSUME NEW S \in SUBSET Places, \A p, q \in S : p = q
    PROVE  R!Cardinality(S) = 1 <=> S # {}
  <1>1. CASE S = {}
    BY <1>1, SameCardinality, FS_EmptySet
  <1>2. CASE S # {}
    <2>1. PICK p \in S : TRUE
      BY <1>2
    <2>2. S = {p}
      BY <2>1
    <2> QED
      BY <1>2, <2>2, SameCardinality, FS_Singleton
  <1> QED
    BY <1>1, <1>2

\* What Get answers at first.
LEMMA FirstAnswers ==
    ASSUME Init
    PROVE  \A n \in Names : Answer(n) \in Gets
  <1> SUFFICES ASSUME NEW n \in Names PROVE Answer(n) \in Gets
    OBVIOUS
  <1>0. Absent \in Answers /\ Earlier \subseteq Answers /\ Values \subseteq Answers
    BY EarlierAssumption DEF Answers
  <1>1. CASE backend \in R!RemoteKinds
    <2>1. R!Inits
      BY <1>1 DEF Init
    <2>2. \A p \in Places : held[p].name = n => held[p].value \in Answers
      <3> SUFFICES ASSUME NEW p \in Places, held[p].name = n PROVE held[p].value \in Answers
        OBVIOUS
      <3>1. held[p] \in {R!Nothing, R!Foreign} \cup [name : Names, value : Earlier]
        BY <2>1 DEF R!Inits
      <3>2. held[p] \notin {R!Nothing, R!Foreign}
        BY NamesAssumption DEF R!Nothing, R!Foreign
      <3> QED
        BY <1>0, <3>1, <3>2
    <2>3. R!Place(n) \in Places
      BY BackendsAssumption DEF R!Place
    <2>4. R!InPlace(n) \in Answers
      BY <1>0, <2>2, <2>3 DEF R!InPlace
    <2>5. R!Find(n) # {} => held[R!Min(R!Find(n))].value \in Answers
      BY <2>2, MinOK DEF R!Find
    <2>6. R!BitwardenGet(n) \in Answers
      BY <1>0, <2>5 DEF R!BitwardenGet
    <2>7. R!Cardinality(R!Find(n)) = 1 => R!Find(n) # {}
      <3>1. R!Find(n) \in SUBSET Places /\ \A p, q \in R!Find(n) : p = q
        BY <2>1 DEF R!Inits, R!Find
      <3> QED
        BY <3>1, OneItem
    <2>8. R!OnePasswordGet(n) \in Answers
      BY <1>0, <2>5, <2>7 DEF R!OnePasswordGet
    <2>9. R!Answer(n) \in Answers
      BY <1>1, <2>4, <2>6, <2>8 DEF R!Answer, R!DopplerGet, R!InfisicalGet, R!VaultGet, R!AwsGet, R!GcpGet,
         R!AzureGet, R!RemoteKinds, R!Keyed, R!Direct, R!Azure, R!Titled
    <2>10. backend \notin F!FileKinds /\ backend # "keychain"
      BY <1>1, KindsDiffer
    <2> QED
      BY <1>1, <2>9, <2>10 DEF Answer, Gets
  <1>2. CASE backend \in F!FileKinds
    <2>1. F!Inits
      BY <1>2 DEF Init
    <2>2. file.entries[n] \in Answers
      BY <1>0, <2>1 DEF F!Inits, Answers
    <2>3. F!Answer(n) \in Answers
      BY <1>0, <2>2 DEF F!Answer, F!AgeVaultGet, F!DotenvGet
    <2>4. backend \notin R!RemoteKinds /\ backend # "keychain"
      BY <1>2, KindsDiffer
    <2> QED
      BY <1>2, <2>3, <2>4 DEF Answer, Gets
  <1>3. CASE backend = "keychain"
    <2>1. K!Inits
      BY <1>3 DEF Init
    <2>2. PICK had \in [Names -> Earlier \cup {Absent}] : entry = [m \in Names |-> K!EntryOf(had[m])]
      BY <2>1 DEF K!Inits
    <2>3. entry[n].kind = "record" => entry[n].value \in Answers
      BY <1>0, <2>2 DEF K!EntryOf, K!NoEntry, K!Record, K!Header
    <2>4. K!Answer(n) \in Gets
      BY <1>0, <2>3 DEF K!Answer, Gets
    <2>5. backend \notin R!RemoteKinds /\ backend \notin F!FileKinds
      BY <1>3, KindsDiffer
    <2> QED
      BY <1>3, <2>4, <2>5 DEF Answer
  <1> QED
    BY <1>1, <1>2, <1>3, KindsAssumption DEF Init

LEMMA TypeInit ==
    ASSUME Init
    PROVE  TypeInv
  <1>0. Absent \in Answers /\ Earlier \subseteq Values
    BY EarlierAssumption DEF Answers
  <1>1. backend \in Kinds /\ call = [w \in Workers |-> NoCall] /\ work = [w \in Workers |-> [pc |-> "idle"]]
    BY DEF Init, CallsInit, R!Idle
  <1>2. CallType
    <2>1. allowed = [n \in Names |-> {Answer(n)}]
      BY DEF Init, CallsInit
    <2> QED
      BY <1>1, <2>1, FirstAnswers DEF CallType
  <1>3. InCalls /\ VersionOK
    BY <1>1 DEF InCalls, Resting, VersionOK
  <1>4. /\ [pc |-> "idle"] \in RemoteWork /\ [pc |-> "idle"] \in FileWork /\ [pc |-> "idle"] \in KeychainWork
    BY DEF RemoteWork, FileWork, KeychainWork, R!Idle
  <1>5. HeldType /\ reserved \in SUBSET Places
    <2>1. CASE backend \in R!RemoteKinds
      BY <1>0, <2>1 DEF Init, R!Inits, HeldType
    <2>2. CASE backend \notin R!RemoteKinds
      BY <2>2 DEF Init, HeldType
    <2> QED
      BY <2>1, <2>2
  <1>6. FileType
    <2>0. F!NoLock \in [owner : Workers \cup {"none"}, old : BOOLEAN]
      BY DEF F!NoLock
    <2>1. CASE backend \in F!FileKinds
      <3>1. F!Inits
        BY <2>1 DEF Init
      <3>2. file \in [key : {NoKey, OldKey}, entries : [Names -> Earlier \cup {Absent}]]
        BY <3>1 DEF F!Inits
      <3>3. file.entries \in Rows
        BY <1>0, <3>2 DEF Rows, Answers
      <3>4. file \in [key : {NoKey, OldKey} \cup Workers, entries : Rows] /\ file.key \in {NoKey, OldKey}
        BY <3>2, <3>3
      <3>5. lock = F!NoLock /\ identity = file.key /\ keyOf = [w \in Workers |-> NoKey]
        BY <3>1 DEF F!Inits
      <3> QED
        BY <2>0, <3>4, <3>5 DEF FileType
    <2>2. CASE backend \notin F!FileKinds
      <3>1. /\ file = [key |-> NoKey, entries |-> [n \in Names |-> Absent]]
            /\ lock = F!NoLock /\ identity = NoKey /\ keyOf = [w \in Workers |-> NoKey]
        BY <2>2 DEF Init
      <3>2. [n \in Names |-> Absent] \in Rows
        BY <1>0 DEF Rows
      <3> QED
        BY <2>0, <3>1, <3>2 DEF FileType
    <2> QED
      BY <2>1, <2>2
  <1>7. ChunkType
    <2>1. CASE backend = "keychain"
      <3>1. PICK had \in [Names -> Earlier \cup {Absent}] : chunk = [n \in Names |-> K!ChunkOf(had[n])]
        BY <2>1 DEF Init, K!Inits
      <3>2. \A n \in Names : K!ChunkOf(had[n]) \in [0..(MaxChunks - 1) -> Answers]
        BY <1>0 DEF K!ChunkOf, K!Indexes, Answers
      <3> QED
        BY <3>1, <3>2 DEF ChunkType
    <2>2. CASE backend # "keychain"
      BY <1>0, <2>2 DEF Init, K!Bare, K!Indexes, ChunkType
    <2> QED
      BY <2>1, <2>2
  <1> QED
    BY <1>1, <1>2, <1>3, <1>4, <1>5, <1>6, <1>7, TypeParts

\* Whatever the backend, a worker is where its call can be, and what the vendor,
\* the file and the credential store hold are records of known names and
\* values (the types of internal/storage/*.go, over every interleaving of calls).
THEOREM TypeCorrect == Spec => []TypeInv
  <1>1. Init => TypeInv
    BY TypeInit
  <1>2. TypeInv /\ [Next]_vars => TypeInv'
    BY TypeStep
  <1> QED
    BY <1>1, <1>2, PTL DEF Spec

\* Two names that make one environment variable are never both in the dotenv
\* file, whatever calls, of however many workers, are cut short: what dotenv.go
\* 330-334 refuses cannot come about in another way.
THEOREM OneNamePerVariable == Spec => []OneVariableEach
  <1>1. Init => DotenvInv
    <2> SUFFICES ASSUME Init, backend = "dotenv" PROVE DotenvInv
      BY DEF DotenvInv
    <2>1. F!Inits /\ work = [w \in Workers |-> [pc |-> "idle"]]
      BY DEF Init, F!FileKinds, R!Idle
    <2> QED
      BY <2>1 DEF F!Inits, DotenvInv, OneEach
  <1>2. TypeInv /\ DotenvInv /\ [Next]_vars => DotenvInv'
    BY TypeStep, DotenvStep
  <1>3. DotenvInv => OneVariableEach
    BY DEF DotenvInv, OneEach, OneVariableEach, F!OneVariableEach
  <1> QED
    BY <1>1, <1>2, <1>3, TypeCorrect, PTL DEF Spec

LEMMA LockInit ==
    ASSUME Init
    PROVE  LockInv
  <1> SUFFICES ASSUME backend = "agevault" PROVE LockInv
    BY DEF LockInv
  <1>1. F!Inits /\ work = [w \in Workers |-> [pc |-> "idle"]]
    BY DEF Init, F!FileKinds, R!Idle
  <1> QED
    BY <1>1 DEF F!Inits, F!NoLock, LockInv

\* Whoever reads and rewrites the vault file owns its lock, as long as no writer
\* holds the lock for more than a minute and either no process has died or no
\* more than two use the vault (withLock, agevault.go:194-236).
LEMMA LockIsOwned ==
    ASSUME ~Stalls
    PROVE  Spec => []LockInv
  <1>1. Init => LockInv
    BY LockInit
  <1>2. TypeInv /\ LockInv /\ [Next]_vars => LockInv'
    BY TypeStep, LockStep
  <1> QED
    BY <1>1, <1>2, TypeCorrect, PTL DEF Spec

LEMMA OwnerIsAlone ==
    ASSUME LockInv, NobodyDied \/ AtMostTwo
    PROVE  OneWriter
    BY DEF LockInv, OneWriter, F!OneWriter

\* Two processes that share a vault never have it open for a change at once,
\* even when one of them dies with the lock in hand and the other takes the
\* lock away (agevault.go:194-236).
THEOREM TwoWritersTakeTurns ==
    ASSUME ~Stalls, AtMostTwo
    PROVE  Spec => []OneWriter
  <1>1. LockInv => OneWriter
    BY OwnerIsAlone
  <1> QED
    BY <1>1, LockIsOwned, PTL

\* Any number of processes have the vault open for a change one at a time until
\* one of them dies (agevault.go:194-236).
THEOREM LivingWritersTakeTurns ==
    ASSUME ~Stalls
    PROVE  Spec => [](NobodyDied => OneWriter)
  <1>1. LockInv => (NobodyDied => OneWriter)
    BY OwnerIsAlone
  <1> QED
    BY <1>1, LockIsOwned, PTL

----------------------------------------------------------------------------
(* A List is true.                                                         *)

\* The names that have a record are the names a Get finds.
TitleInv == backend \in R!RemoteKinds => R!Stored = Titles

LEMMA PlacedStep ==
    ASSUME TypeInv, PlacedInv, RemoteCase, UNCHANGED backend
    PROVE  PlacedInv'
  <1> SUFFICES ASSUME backend \in R!Keyed \cup R!Direct
               PROVE  \A p \in Places, n \in Names : held'[p].name = n => R!Place(n) = p
    BY DEF PlacedInv, R!Place
  <1>0. /\ HeldType /\ \A p \in Places, n \in Names : held[p].name = n => R!Place(n) = p
        /\ R!Nothing.name \notin Names
    BY NamesAssumption DEF TypeInv, TypeOK, HeldType, PlacedInv, R!Nothing
  <1>1. CASE held' = held
    BY <1>0, <1>1
  <1>2. ASSUME NEW p \in Places, Clears(p)
        PROVE  \A q \in Places, n \in Names : held'[q].name = n => R!Place(n) = q
    BY <1>0, <1>2 DEF Clears, HeldType
  <1>3. ASSUME NEW w \in Workers, NEW p \in Places, Writes(w, p)
        PROVE  \A q \in Places, n \in Names : held'[q].name = n => R!Place(n) = q
    <2>1. held'[p].name = call[w].name /\ \A q \in Places : q # p => held'[q] = held[q]
      BY <1>0, <1>3 DEF Writes, HeldType
    <2> QED
      BY <1>0, <1>3, <2>1 DEF Writes
  <1>4. \A n \in Names : Remote[n] \in Places
    BY BackendsAssumption
  <1> QED
    BY <1>1, <1>2, <1>3, <1>4 DEF RemoteCase, Quiet, Begins, Change, Cleared, Listing, ConsoleDeletes

LEMMA ItemStep ==
    ASSUME "onepassword" \notin Shared, TypeInv, ItemInv, RemoteCase, UNCHANGED backend
    PROVE  ItemInv'
  <1> SUFFICES ASSUME backend = "onepassword" PROVE ItemInv'
    BY DEF ItemInv
  <1> DEFINE Unique(h) == \A p, q \in Places : h[p].name \in Names /\ h[p].name = h[q].name => p = q
             Found(h, u) == {p \in Places : h[p].name = call[u].name}
  <1>0. /\ HeldType /\ CallType /\ InCalls /\ work \in [Workers -> RemoteWork] /\ backend \in R!RemoteKinds
        /\ R!Nothing.name \notin Names
    BY NamesAssumption DEF TypeInv, TypeOK, WorkOK, HeldType, CallType, R!RemoteKinds, R!Titled, R!Nothing
  <1>1. /\ Unique(held)
        /\ \A u, w \in Workers : work[u].pc = "write" /\ work[w].pc = "write" => u = w
        /\ \A u \in Workers : /\ work[u].pc \notin {"version", "purge"}
                              /\ work[u].pc = "write" => work[u].items = Found(held, u) /\ call[u].value # Absent
    BY DEF ItemInv, R!Find, R!Name, R!Putting
  <1>2. ASSUME Unique(held'),
               \A u, w \in Workers : work'[u].pc = "write" /\ work'[w].pc = "write" => u = w,
               \A u \in Workers : /\ work'[u].pc \notin {"version", "purge"}
                                  /\ work'[u].pc = "write" =>
                                       /\ work'[u].items = {p \in Places : held'[p].name = call'[u].name}
                                       /\ call'[u].value # Absent
        PROVE  ItemInv'
    BY <1>2 DEF ItemInv, R!Find, R!Name, R!Putting
  <1>3. ASSUME held' = held, NEW w \in Workers, NEW k, work' = [work EXCEPT ![w] = k],
               k.pc \notin {"write", "version", "purge"},
               \A u \in Workers \ {w} : call[u] # NoCall =>
                  call'[u].name = call[u].name /\ call'[u].value = call[u].value
        PROVE  ItemInv'
    <2>1. \A u \in Workers : work'[u].pc = "write" => u # w /\ work'[u] = work[u] /\ call[u] # NoCall
      BY <1>0, <1>3 DEF InCalls, Resting
    <2>2. \A u, v \in Workers : work'[u].pc = "write" /\ work'[v].pc = "write" => u = v
      BY <1>1, <2>1
    <2>3. \A u \in Workers : work'[u].pc \notin {"version", "purge"}
      BY <1>0, <1>1, <1>3
    <2>4. ASSUME NEW u \in Workers, work'[u].pc = "write"
          PROVE  /\ work'[u].items = {p \in Places : held'[p].name = call'[u].name}
                 /\ call'[u].value # Absent
      BY <1>1, <1>3, <2>1, <2>4
    <2>5. Unique(held')
      BY <1>1, <1>3
    <2> QED
      BY <1>2, <2>2, <2>3, <2>4, <2>5
  <1>4. ASSUME Unique(held'), \A u \in Workers : work'[u].pc \notin {"write", "version", "purge"}
        PROVE  ItemInv'
    BY <1>2, <1>4
  <1>5. CASE Quiet
    <2>1. held' = held /\ work' = work /\ call' = call
      BY <1>5 DEF Quiet, callVars
    <2>2. Unique(held')
      BY <1>1, <2>1
    <2> QED
      BY <1>1, <1>2, <2>1, <2>2
  <1>6. ASSUME NEW w \in Workers, NEW n \in Names, NEW v \in Answers, Begins(w, n, v) PROVE ItemInv'
    <2>1. PICK k : k = [pc |-> "start", items |-> {}, tries |-> 0]
      OBVIOUS
    <2>2. k.pc = "start" /\ work' = [work EXCEPT ![w] = k] /\ held' = held
      BY <1>6, <2>1 DEF Begins
    <2>3. Others(w)
      BY <1>0, <1>6, EnterOK DEF Begins
    <2> QED
      BY <1>3, <2>2, <2>3 DEF Others
  <1>8. ASSUME NEW w \in Workers, R!Alone(w) PROVE \A u \in Workers : work[u].pc \in {"idle", "start", "list", "listed"}
    BY <1>8 DEF R!Alone
  <1>9. ASSUME NEW w \in Workers, ChangeEnds(w), call[w] # NoCall,
               held' = held \/ Cleared(w) \/ \E p \in Places : Writes(w, p)
        PROVE  ItemInv'
    <2>1. PICK k : k = R!Idle
      OBVIOUS
    <2>2. k.pc = "idle" /\ work' = [work EXCEPT ![w] = k] /\ call' = [call EXCEPT ![w] = NoCall]
      BY <1>9, <2>1 DEF ChangeEnds, Returns, R!Idle
    <2>3. CASE held' = held
      BY <1>0, <1>3, <2>2, <2>3 DEF CallType
    <2>4. CASE Cleared(w)
      <3>1. PICK p \in Places : Clears(p) /\ R!Alone(w)
        BY <2>4 DEF Cleared
      <3>2. \A u \in Workers : work'[u].pc \notin {"write", "version", "purge"}
        BY <1>0, <1>8, <2>2, <3>1
      <3>3. \A q \in Places : held'[q] = IF q = p THEN R!Nothing ELSE held[q]
        BY <1>0, <3>1 DEF Clears, HeldType
      <3>4. Unique(held')
        BY <1>0, <1>1, <3>3
      <3> QED
        BY <1>4, <3>2, <3>4
    <2>5. ASSUME NEW p \in Places, Writes(w, p) PROVE ItemInv'
      <3>1. work[w].pc = "write" /\ (p \in work[w].items \/ (work[w].items = {} /\ held[p] = R!Nothing))
        BY <2>5 DEF Writes
      <3>2. \A u \in Workers : work'[u].pc \notin {"write", "version", "purge"}
        BY <1>0, <1>1, <2>2, <3>1
      <3>3. held'[p].name = call[w].name /\ \A q \in Places : q # p => held'[q] = held[q]
        BY <1>0, <2>5 DEF Writes, HeldType
      <3>4. work[w].items = Found(held, w)
        BY <1>1, <3>1
      <3>5. \A q \in Places : held[q].name = call[w].name => q = p
        <4> SUFFICES ASSUME NEW q \in Places, held[q].name = call[w].name PROVE q = p
          OBVIOUS
        <4>1. call[w].name \in Names
          BY <1>0, <1>9, CallFacts
        <4>2. q \in Found(held, w)
          OBVIOUS
        <4>3. p \in Found(held, w)
          BY <3>1, <3>4, <4>2
        <4> QED
          BY <1>1, <4>1, <4>3
      <3>6. Unique(held')
        <4> SUFFICES ASSUME NEW r \in Places, NEW q \in Places, held'[r].name \in Names, held'[r].name = held'[q].name
                     PROVE  r = q
          OBVIOUS
        <4> QED
          BY <1>1, <3>3, <3>5
      <3> QED
        BY <1>4, <3>2, <3>6
    <2> QED
      BY <1>9, <2>3, <2>4, <2>5
  <1>10. ASSUME NEW w \in Workers, NEW k, ChangeGoes(w, k), call[w] # NoCall PROVE ItemInv'
    <2>1. /\ held' = held /\ k.pc = "write" /\ call[w].value # Absent /\ R!Alone(w) /\ call' = call
          /\ k.items = IF R!Find(call[w].name) = {} THEN {} ELSE {R!Min(R!Find(call[w].name))}
          /\ work' = [work EXCEPT ![w] = k]
      BY <1>10 DEF ChangeGoes, callVars
    <2>2. Found(held, w) = R!Find(call[w].name) /\ call[w].name \in Names
      BY <1>0, <1>10, CallFacts DEF R!Find
    <2>3. k.items = Found(held, w)
      <3>1. CASE Found(held, w) = {}
        BY <2>1, <2>2, <3>1
      <3>2. CASE Found(held, w) # {}
        <4>1. R!Min(Found(held, w)) \in Found(held, w)
          BY <3>2, MinOK
        <4>2. \A q \in Found(held, w) : q = R!Min(Found(held, w))
          BY <1>1, <2>2, <4>1
        <4> QED
          BY <2>1, <2>2, <3>2, <4>1, <4>2
      <3> QED
        BY <3>1, <3>2
    <2>4. \A u \in Workers : work'[u].pc \in {"write", "version", "purge"} => u = w
      BY <1>0, <1>8, <2>1
    <2>5. work'[w] = k
      BY <1>0, <2>1
    <2>6. Unique(held')
      BY <1>1, <2>1
    <2> QED
      BY <1>2, <2>1, <2>3, <2>4, <2>5, <2>6
  <1>11. ASSUME NEW w \in Workers, Listing(w) PROVE ItemInv'
    <2>1. PICK k \in ListWork \cup {R!Idle} : work' = [work EXCEPT ![w] = k] /\ ListKind(w, k)
      BY <1>11 DEF Listing
    <2>2. k.pc \notin {"write", "version", "purge"}
      BY <2>1 DEF ListWork, R!Idle
    <2>3. held' = held /\ call' = call
      BY <1>11 DEF Listing, callVars
    <2> QED
      BY <1>3, <2>1, <2>2, <2>3
  <1>12. ~\E n \in Names : ConsoleDeletes(n)
    BY DEF ConsoleDeletes, R!Direct, R!Azure
  <1>13. ASSUME NEW w \in Workers, Change(w) PROVE ItemInv'
    BY <1>9, <1>10, <1>13 DEF Change
  <1> QED
    BY <1>5, <1>6, <1>11, <1>12, <1>13 DEF RemoteCase

\* A Get finds a name that has a record: in its place, or as the only item with
\* the title.
LEMMA TitlesAreStored ==
    ASSUME TypeInv, PlacedInv, ItemInv
    PROVE  TitleInv
  <1> SUFFICES ASSUME backend \in R!RemoteKinds PROVE R!Stored = Titles
    BY DEF TitleInv
  <1>1. HeldType
    BY DEF TypeInv, TypeOK, HeldType
  <1>2. \A p \in Places, n \in Names : held[p].name = n => held[p].value # Absent
    <2> SUFFICES ASSUME NEW p \in Places, NEW n \in Names, held[p].name = n PROVE held[p].value # Absent
      OBVIOUS
    <2>1. held[p] \notin {R!Nothing, R!Foreign}
      BY NamesAssumption DEF R!Nothing, R!Foreign
    <2>2. held[p].value \in Values
      BY <1>1, <2>1 DEF HeldType
    <2> QED
      BY <2>2, AbsentAssumption
  <1> SUFFICES ASSUME NEW n \in Names PROVE R!Answer(n) # Absent <=> n \in Titles
    BY DEF R!Stored, Titles
  <1>3. n \in Titles <=> R!Find(n) # {}
    BY DEF Titles, R!Find
  <1>4. R!Find(n) # {} => held[R!Min(R!Find(n))].value # Absent
    <2>1. R!Find(n) \in SUBSET Places /\ \A p \in R!Find(n) : held[p].name = n
      BY DEF R!Find
    <2> QED
      BY <1>2, <2>1, MinOK
  <1>5. CASE backend \in R!Keyed \cup R!Direct
    <2>1. R!Answer(n) = R!InPlace(n)
      BY <1>5 DEF R!Answer, R!DopplerGet, R!InfisicalGet, R!VaultGet, R!AwsGet, R!GcpGet, R!AzureGet,
         R!Keyed, R!Direct, R!Azure
    <2>2. R!Place(n) \in Places
      BY BackendsAssumption DEF R!Place
    <2>3. \A p \in Places : held[p].name = n => R!Place(n) = p
      BY <1>5 DEF PlacedInv
    <2> QED
      BY <1>2, <2>1, <2>2, <2>3 DEF R!InPlace, Titles
  <1>6. CASE backend = "bitwarden"
    <2>1. R!Answer(n) = R!BitwardenGet(n)
      BY <1>6 DEF R!Answer, R!Azure
    <2> QED
      BY <1>3, <1>4, <2>1 DEF R!BitwardenGet
  <1>7. CASE backend = "onepassword"
    <2>1. R!Answer(n) = R!OnePasswordGet(n)
      BY <1>7 DEF R!Answer, R!Azure
    <2>2. R!Find(n) \in SUBSET Places /\ \A p, q \in R!Find(n) : p = q
      BY <1>7 DEF ItemInv, R!Find
    <2>3. R!Cardinality(R!Find(n)) = 1 <=> R!Find(n) # {}
      BY <2>2, OneItem
    <2> QED
      BY <1>3, <1>4, <2>1, <2>3 DEF R!OnePasswordGet
  <1> QED
    BY <1>5, <1>6, <1>7 DEF R!RemoteKinds, R!Titled

\* A record that a step leaves its name stays where it is, except for bitwarden,
\* which may have several items with one title.
LEMMA RecordsStay ==
    ASSUME TypeInv, PlacedInv, ItemInv, PlacedInv', RemoteCase, UNCHANGED backend,
           backend \in R!RemoteKinds, backend # "bitwarden",
           NEW q \in Places, held[q].name \in Titles'
    PROVE  held'[q].name = held[q].name
  <1> DEFINE n == held[q].name
  <1>0. HeldType /\ n \in Names /\ R!Nothing.name \notin Names
    BY NamesAssumption DEF TypeInv, TypeOK, HeldType, Titles, R!Nothing
  <1>1. PICK r \in Places : held'[r].name = n
    BY DEF Titles
  <1>2. CASE backend \in R!Keyed \cup R!Direct
    <2>1. R!Place(n) = q
      BY <1>0, <1>2 DEF PlacedInv
    <2>2. \A p \in Places, m \in Names : held'[p].name = m => R!Place(m) = p
      BY <1>2 DEF PlacedInv, R!Place
    <2> QED
      BY <1>0, <1>1, <2>1, <2>2
  <1>3. CASE backend = "onepassword"
    <2>1. \A p \in Places : held[p].name = n => p = q
      BY <1>0, <1>3 DEF ItemInv
    <2>2. CASE held' = held
      BY <2>2
    <2>3. ASSUME NEW p \in Places, Clears(p) PROVE held'[q].name = n
      <3>1. \A s \in Places : held'[s] = IF s = p THEN R!Nothing ELSE held[s]
        BY <1>0, <2>3 DEF Clears, HeldType
      <3>2. r # p /\ held[r].name = n
        BY <1>0, <1>1, <3>1
      <3> QED
        BY <1>1, <2>1, <3>2
    <2>4. ASSUME NEW w \in Workers, NEW p \in Places, Writes(w, p) PROVE held'[q].name = n
      <3>1. held'[p].name = call[w].name /\ \A s \in Places : s # p => held'[s] = held[s]
        BY <1>0, <2>4 DEF Writes, HeldType
      <3>2. work[w].pc = "write" /\ (p \in work[w].items \/ held[p] = R!Nothing)
        BY <1>3, <2>4 DEF Writes
      <3>3. work[w].items = R!Find(call[w].name)
        BY <1>3, <3>2 DEF ItemInv, R!Name
      <3>4. CASE p = q
        BY <1>0, <3>1, <3>2, <3>3, <3>4 DEF R!Find
      <3>5. CASE p # q
        BY <3>1, <3>5
      <3> QED
        BY <3>4, <3>5
    <2>5. ~\E m \in Names : ConsoleDeletes(m)
      BY <1>3 DEF ConsoleDeletes, R!Direct, R!Azure
    <2> QED
      BY <2>2, <2>3, <2>4, <2>5 DEF RemoteCase, Quiet, Begins, Change, Cleared, Listing
  <1> QED
    BY <1>2, <1>3 DEF R!RemoteKinds, R!Titled

LEMMA ListKeeps ==
    ASSUME TypeInv, TypeInv', PlacedInv, PlacedInv', ItemInv, TitleInv, TitleInv', ListInv,
           [Next]_vars, UNCHANGED backend
    PROVE  ListInv'
  <1> DEFINE Lists == {"list", "listed"}
             Good(w) == /\ work'[w].out \subseteq present'[w].ever
                        /\ work'[w].pc = "list" /\ backend = "doppler" /\ work'[w].items # {} => work'[w].out = {}
                        /\ work'[w].pc = "list" => backend \notin {"infisical", "bitwarden"}
                        /\ \A n \in present'[w].always :
                              \/ n \in work'[w].out
                              \/ work'[w].pc = "list" /\ \E p \in work'[w].items : held'[p].name = n
  <1>1. CASE backend \notin R!RemoteKinds
    <2>1. \A w \in Workers : work'[w].pc \notin Lists
      <3>1. CASE backend \in F!FileKinds
        BY <3>1 DEF TypeInv, WorkOK, FileWork
      <3>2. CASE backend = "keychain"
        BY <3>2 DEF TypeInv, WorkOK, KeychainWork
      <3> QED
        BY <1>1, <3>1, <3>2, KindsAssumption DEF TypeInv, TypeOK
    <2> QED
      BY <2>1 DEF ListInv
  <1>2. CASE UNCHANGED vars
    BY <1>2 DEF vars, remoteVars, ListInv
  <1>3. CASE backend \in R!RemoteKinds /\ Next
    <2>0. work \in [Workers -> RemoteWork] /\ RemoteCase
      BY <1>3, RemoteCases DEF TypeInv, WorkOK
    <2>1. R!Stored = Titles /\ R!Stored' = Titles'
      BY <1>3 DEF TitleInv
    <2>2. \A w \in Workers : work'[w].pc \in Lists =>
             present'[w] = IF work[w].pc \notin Lists THEN [always |-> Titles, ever |-> Titles]
                           ELSE IF work[w].pc = "listed" THEN present[w]
                           ELSE [always |-> present[w].always \cap Titles', ever |-> present[w].ever \cup Titles']
      BY <1>3, <2>1 DEF Next, R!Observe
    <2>3. ASSUME NEW w \in Workers, work'[w].pc \in Lists PROVE work'[w] = work[w] \/ Listing(w)
      <3>1. CASE Quiet \/ \E n \in Names : ConsoleDeletes(n)
        BY <3>1 DEF Quiet, ConsoleDeletes
      <3>2. ASSUME NEW u \in Workers, NEW n \in Names, NEW v \in Answers, Begins(u, n, v)
            PROVE  work'[w] = work[w]
        <4>1. u # w
          BY <2>0, <2>3, <3>2 DEF Begins
        <4> QED
          BY <2>0, <3>2, <4>1 DEF Begins
      <3>3. ASSUME NEW u \in Workers, Change(u) PROVE work'[w] = work[w]
        <4>1. PICK k : work' = [work EXCEPT ![u] = k] /\ k.pc \notin Lists
          <5>1. CASE ChangeEnds(u)
            <6>1. R!Idle.pc \notin Lists
              BY DEF R!Idle
            <6> QED
              BY <5>1, <6>1 DEF ChangeEnds
          <5>2. ASSUME NEW k, ChangeGoes(u, k)
                PROVE  work' = [work EXCEPT ![u] = k] /\ k.pc \notin Lists
            BY <5>2 DEF ChangeGoes, ChangeWork
          <5> QED
            BY <3>3, <5>1, <5>2 DEF Change
        <4> QED
          BY <2>0, <2>3, <4>1
      <3>4. ASSUME NEW u \in Workers, Listing(u), u # w PROVE work'[w] = work[w]
        BY <2>0, <3>4 DEF Listing
      <3> QED
        BY <2>0, <3>1, <3>2, <3>3, <3>4 DEF RemoteCase
    <2>4. ASSUME NEW w \in Workers, work'[w].pc \in Lists, work'[w] = work[w] PROVE Good(w)
      <3>1. /\ work[w].out \subseteq present[w].ever
            /\ work[w].pc = "list" /\ backend = "doppler" /\ work[w].items # {} => work[w].out = {}
            /\ work[w].pc = "list" => backend \notin {"infisical", "bitwarden"}
            /\ \A n \in present[w].always :
                  \/ n \in work[w].out
                  \/ work[w].pc = "list" /\ \E p \in work[w].items : held[p].name = n
        BY <2>4 DEF ListInv
      <3>2. CASE work[w].pc = "listed"
        <4>1. present'[w] = present[w]
          BY <2>2, <2>4, <3>2
        <4> QED
          BY <2>4, <3>1, <3>2, <4>1
      <3>3. CASE work[w].pc = "list"
        <4>1. present'[w] = [always |-> present[w].always \cap Titles', ever |-> present[w].ever \cup Titles']
          BY <2>2, <2>4, <3>3
        <4>2. work[w].items \subseteq Places
          BY <2>0, <3>3 DEF RemoteWork, R!Idle
        <4>3. ASSUME NEW n \in present[w].always \cap Titles', n \notin work[w].out
              PROVE  \E p \in work[w].items : held'[p].name = n
          <5>1. PICK p \in work[w].items : held[p].name = n
            BY <3>1, <4>3
          <5>2. held'[p].name = n
            BY <1>3, <2>0, <3>1, <3>3, <4>2, <4>3, <5>1, RecordsStay
          <5> QED
            BY <5>1, <5>2
        <4>4. present'[w].always = present[w].always \cap Titles' /\ present'[w].ever = present[w].ever \cup Titles'
          BY <4>1
        <4> QED
          BY <2>4, <3>1, <3>3, <4>3, <4>4
      <3> QED
        BY <2>4, <3>2, <3>3
    <2>5. ASSUME NEW w \in Workers, work'[w].pc \in Lists, Listing(w) PROVE Good(w)
      <3>1. PICK k \in ListWork \cup {R!Idle} : work' = [work EXCEPT ![w] = k] /\ ListKind(w, k)
        BY <2>5 DEF Listing
      <3>2. held' = held /\ work'[w] = k
        BY <2>0, <2>5, <3>1 DEF Listing
      <3>3. Titles' = Titles
        BY <3>2 DEF Titles
      <3>4. \A S : R!Listed(S) = {n \in Names : \E p \in S : held[p].name = n}
        BY DEF R!Listed
      <3>5. \A n \in Titles : \E p \in R!Occupied : held[p].name = n
        BY NamesAssumption DEF Titles, R!Occupied, R!Nothing
      <3>6. R!Listed(R!Occupied) = Titles /\ \A S \in SUBSET Places : R!Listed(S) \subseteq Titles
        BY <3>4, <3>5 DEF Titles, R!Occupied
      <3>7. ASSUME work[w] = R!Idle
            PROVE  present'[w].always = Titles /\ present'[w].ever = Titles
        <4>1. work[w].pc = "idle"
          BY <3>7 DEF R!Idle
        <4>2. present'[w] = [always |-> Titles, ever |-> Titles]
          BY <2>2, <2>5, <4>1
        <4> QED
          BY <4>2
      <3>8. ASSUME work[w].pc = "list"
            PROVE  /\ present'[w].always = present[w].always \cap Titles
                   /\ present'[w].ever = present[w].ever \cup Titles
                   /\ work[w].out \subseteq present[w].ever
                   /\ backend = "doppler" /\ work[w].items # {} => work[w].out = {}
                   /\ backend \notin {"infisical", "bitwarden"}
                   /\ \A n \in present[w].always :
                         n \in work[w].out \/ \E p \in work[w].items : held[p].name = n
                   /\ work[w].items \in SUBSET Places
        <4>1. present'[w] = [always |-> present[w].always \cap Titles', ever |-> present[w].ever \cup Titles']
          BY <2>2, <2>5, <3>8
        <4>2. work[w].items \in SUBSET Places
          BY <2>0, <3>8 DEF RemoteWork, R!Idle
        <4> QED
          BY <3>3, <3>8, <4>1, <4>2 DEF ListInv
      <3>9. CASE ListBegins(w, k)
        BY <3>2, <3>5, <3>7, <3>9 DEF ListBegins
      <3>10. CASE ListAtOnce(w, k)
        BY <3>2, <3>6, <3>7, <3>10 DEF ListAtOnce
      <3>11. CASE ListFetches(w, k)
        <4>1. work[w].pc = "list" /\ backend # "doppler" /\ k.pc = "list"
          BY <3>11 DEF ListFetches
        <4>2. PICK p \in work[w].items : k.items = work[w].items \ {p} /\ k.out = work[w].out \cup R!Listed({p})
          BY <3>11 DEF ListFetches
        <4>3. R!Listed({p}) \subseteq Titles
          BY <3>6, <3>8, <4>1
        <4>4. \A n \in Titles : held[p].name = n => n \in R!Listed({p})
          BY <3>4 DEF Titles
        <4>5. k.out \subseteq present'[w].ever
          BY <3>8, <4>1, <4>2, <4>3
        <4>6. \A n \in present'[w].always : n \in k.out \/ \E q \in k.items : held'[q].name = n
          BY <3>2, <3>8, <4>1, <4>2, <4>4
        <4> QED
          BY <3>2, <3>8, <4>1, <4>5, <4>6
      <3>12. CASE ListFetchesAll(w, k)
        <4>1. /\ work[w].pc = "list" /\ backend = "doppler" /\ work[w].items # {}
              /\ k.pc = "list" /\ k.items = {} /\ k.out = R!Listed(work[w].items)
          BY <3>12 DEF ListFetchesAll
        <4>2. k.out \subseteq present'[w].ever
          BY <3>6, <3>8, <4>1
        <4>3. \A n \in present'[w].always : n \in k.out
          BY <3>4, <3>8, <4>1 DEF Titles
        <4> QED
          BY <3>2, <4>1, <4>2, <4>3
      <3>13. CASE ListDone(w, k)
        <4>1. work[w].pc = "list" /\ work[w].items = {} /\ k.pc = "listed" /\ k.out = work[w].out
          BY <3>13 DEF ListDone
        <4> QED
          BY <3>2, <3>8, <4>1
      <3>14. ~ListStops(w, k)
        BY <2>5, <3>2 DEF ListStops, R!Idle
      <3> QED
        BY <3>1, <3>9, <3>10, <3>11, <3>12, <3>13, <3>14 DEF ListKind
    <2> QED
      BY <1>3, <2>3, <2>4, <2>5 DEF ListInv
  <1> QED
    BY <1>1, <1>2, <1>3

\* A record is in the place of its name, and one item has a title.
LEMMA PlacesInit ==
    ASSUME Init
    PROVE  PlacedInv /\ ItemInv /\ ListInv
  <1>0. work = [w \in Workers |-> R!Idle] /\ R!Idle.pc = "idle"
    BY DEF Init, R!Idle
  <1>1. PlacedInv
    BY DEF Init, R!Inits, PlacedInv, R!RemoteKinds, R!Keyed, R!Direct, R!Titled, R!Azure
  <1>2. ItemInv
    <2> SUFFICES ASSUME backend = "onepassword" PROVE ItemInv
      BY DEF ItemInv
    <2>1. \A n \in Names : \A p, q \in R!Find(n) : p = q
      BY DEF Init, R!Inits, R!RemoteKinds, R!Titled
    <2>2. \A p, q \in Places : held[p].name \in Names /\ held[p].name = held[q].name => p = q
      BY <2>1 DEF R!Find
    <2> QED
      BY <1>0, <2>2 DEF ItemInv
  <1>3. ListInv
    BY <1>0 DEF ListInv
  <1> QED
    BY <1>1, <1>2, <1>3

\* The list a backend returns has every secret that was stored all the time the
\* List ran, and none that was stored at no time, whatever Puts and Deletes came
\* in between (the List methods of internal/storage).  onepassword must be used
\* from one process: two that put one new name at once make two items.
THEOREM ListsAreTrue ==
    ASSUME "onepassword" \notin Shared
    PROVE  Spec => []ListTrue
  <1>1. Init => PlacedInv /\ ItemInv /\ ListInv
    BY PlacesInit
  <1>2. TypeInv /\ PlacedInv /\ ItemInv /\ [Next]_vars => (PlacedInv /\ ItemInv)'
    <2> SUFFICES ASSUME TypeInv, PlacedInv, ItemInv, [Next]_vars PROVE PlacedInv' /\ ItemInv'
      OBVIOUS
    <2>1. UNCHANGED backend
      BY TypeStep
    <2>2. CASE backend \in R!RemoteKinds
      BY <2>1, <2>2, RemoteCases, PlacedStep, ItemStep
    <2>3. CASE backend \notin R!RemoteKinds
      BY <2>1, <2>3 DEF PlacedInv, ItemInv, R!RemoteKinds, R!Titled
    <2> QED
      BY <2>2, <2>3
  <1>3. TypeInv /\ PlacedInv /\ ItemInv => TitleInv
    BY TitlesAreStored
  <1>4. /\ TypeInv /\ TypeInv' /\ PlacedInv /\ PlacedInv' /\ ItemInv /\ TitleInv /\ TitleInv' /\ ListInv
        /\ [Next]_vars
        => ListInv'
    BY TypeStep, ListKeeps
  <1>5. ListInv => ListTrue
    BY DEF ListInv, ListTrue
  <1> QED
    BY <1>1, <1>2, <1>3, <1>4, <1>5, TypeCorrect, PTL DEF Spec
==============================================================================
