----------------------- MODULE StorageManager_proofs -----------------------
(***************************************************************************)
(* What holds of StorageManager for any workers, names, values, dates and  *)
(* bounds.  InStep and ListFresh rest on the index's mutex, which is the   *)
(* process's own, and so on there being one process.                       *)
(***************************************************************************)
EXTENDS StorageManager, TLAPS

\* The goroutines are of one process: index.go's mutex excludes them all.
SingleProcess == \A u, w \in Workers : ProcessOf[u] = ProcessOf[w]

Held == Entries \cup {None}

Working(j) == j.pc \notin {"idle", "listed"}

----------------------------------------------------------------------------
(* Types.                                                                  *)

\* A method in progress.
Jobs ==
    [kind : {"put", "delete", "get", "purge"},
     pc : {"store", "remove", "load", "save", "collect"},
     todo : SUBSET Names, name : Names \cup {None}, entry : Held,
     copy : [Names -> Held] \cup {None}, list : BOOLEAN,
     start : Nat, busy : SUBSET Names]

\* A List that is about to return.
Lists == [pc : {"listed"}, start : Nat, busy : SUBSET Names, out : [Names -> Held]]

\* Where a method of each kind can be, and what it has at hand there.
ShapeOK(j) ==
    /\ j.kind # "purge" => j.name \in Names /\ j.todo = {j.name} /\ j.pc # "collect"
    /\ j.kind = "put" => j.pc # "remove"
    /\ j.kind # "put" => j.pc # "store" /\ j.entry = None
    /\ j.pc \in {"load", "save"} => j.name \in Names /\ j.name \in j.todo
    /\ j.pc = "save" => j.copy \in [Names -> Held]
    /\ j.pc = "collect" => j.todo = {}

AllJobs == {Idle} \cup Lists \cup Jobs

\* What each worker is in; a method began no later than now.
JobsOK ==
    /\ job \in [Workers -> AllJobs]
    /\ \A w \in Workers : Working(job[w]) => ShapeOK(job[w])
    /\ \A w \in Workers : job[w] # Idle => job[w].start <= clock

\* Session values have no expiry.
SessionOK == \A p \in Processes, n \in Names :
    session[p][n] # None => session[p][n].expires = Never

TypeInv ==
    /\ clock \in Nat /\ clock <= Horizon
    /\ session \in [Processes -> [Names -> Held]]
    /\ stored \in [Names -> Held]
    /\ index \in [Names -> Held]
    /\ settled \in [Names -> BOOLEAN]
    /\ JobsOK
    /\ SessionOK

LEMMA JobForms ==
    ASSUME NEW j \in AllJobs
    PROVE  /\ Working(j) <=> j \in Jobs
           /\ j.pc = "idle" <=> j = Idle
           /\ j.pc = "listed" <=> j \in Lists
           /\ Working(j) => Touches(j) = j.todo
           /\ ~Working(j) => Touches(j) = {}
           /\ Touches(j) \subseteq Names
    BY DEF AllJobs, Working, Jobs, Lists, Idle, Touches

LEMMA JobChange ==
    ASSUME JobsOK, clock' = clock, NEW w \in Workers, NEW k \in AllJobs,
           Working(k) => ShapeOK(k), k # Idle => k.start <= clock,
           job' = [job EXCEPT ![w] = k]
    PROVE  JobsOK'
    BY DEF JobsOK

LEMMA ChangeOK ==
    ASSUME NEW kind \in {"put", "delete", "get"}, NEW pc \in {"store", "remove", "load"},
           NEW n \in Names, NEW e \in Held,
           IF kind = "put" THEN pc = "store" ELSE pc # "store" /\ e = None
    PROVE  LET k == Change(kind, pc, n, e) IN
           /\ k \in Jobs /\ Working(k) /\ ShapeOK(k) /\ k.start = 0
           /\ k.kind = kind /\ k.pc = pc /\ k.name = n /\ k.todo = {n} /\ k.entry = e
    BY DEF Change, Jobs, Working, ShapeOK, Held

LEMMA PurgeOK ==
    ASSUME TypeInv, NEW list \in BOOLEAN
    PROVE  LET k == Purge("remove", Overdue, list) IN
           /\ k \in Jobs /\ Working(k) /\ ShapeOK(k) /\ k.start = clock
           /\ k.kind = "purge" /\ k.pc = "remove" /\ k.todo = Overdue /\ Overdue \subseteq Names
           /\ k.busy = {n \in Names : Touched(n)}
    BY DEF Purge, Jobs, Working, ShapeOK, Held, Overdue, TypeInv

----------------------------------------------------------------------------
(* The strengthened invariants.                                            *)

\* One goroutine at a time is between its load of the index and its save, and
\* what it will write is the index as it is with its own change.
MutexInv ==
    /\ \A u, w \in Workers : job[u].pc = "save" /\ job[w].pc = "save" => u = w
    /\ \A w \in Workers : job[w].pc = "save" => job[w].copy = Edited(w)

\* What was overdue when a purge began it has yet to take out of the index, or
\* is out; and whoever puts a name since then puts what is not overdue.
Fresh(w, n) ==
    /\ n \in job[w].todo \/ ~Expired(index[n], job[w].start)
    /\ \A u \in Workers :
          Working(job[u]) /\ job[u].kind = "put" /\ job[u].name = n
          => ~Expired(job[u].entry, job[w].start)
FreshInv ==
    \A w \in Workers : Working(job[w]) /\ job[w].kind = "purge" =>
       \A n \in Names \ job[w].busy : Fresh(w, n)

\* Of a settled name: at most one method is to change it; when none is, index
\* and backend agree; when one is between the backend and the index, the
\* backend holds what the index is to get.
Settled(n) ==
    /\ \A u, w \in Workers : n \in Touches(job[u]) /\ n \in Touches(job[w]) => u = w
    /\ ~Touched(n) => index[n] = stored[n]
    /\ \A w \in Workers :
          Working(job[w]) /\ job[w].pc \in {"load", "save"} /\ job[w].name = n
          => stored[n] = job[w].entry
SettledInv == \A n \in Names : settled[n] => Settled(n)

----------------------------------------------------------------------------
(* What a step of a method makes of it.                                    *)

\* The method goes on from j as k, or returns.
GoesOn(j, k) ==
    /\ k \in AllJobs
    /\ Working(k) => ShapeOK(k)
    /\ k # Idle => k.start = j.start /\ k.busy = j.busy /\ Working(j)
    /\ Working(k) => /\ k.kind = j.kind /\ k.entry = j.entry /\ k.todo \subseteq j.todo
                     /\ j.kind # "purge" => k.name = j.name

LEMMA StepJob ==
    ASSUME TypeInv, NEW w \in Workers, Step(w)
    PROVE  \E k : /\ job' = [job EXCEPT ![w] = k] /\ GoesOn(job[w], k)
                  /\ UNCHANGED <<clock, session, started>>
  <1> DEFINE j == job[w]
  <1>0. j \in AllJobs /\ (Working(j) => ShapeOK(j)) /\ (Working(j) <=> j \in Jobs)
    BY JobForms DEF TypeInv, JobsOK
  <1>1. GoesOn(j, Idle)
    BY DEF GoesOn, AllJobs, Working, Idle
  <1>2. ASSUME Returns(w) PROVE job' = [job EXCEPT ![w] = Idle] /\ UNCHANGED <<clock, session, started>>
    BY <1>2 DEF Returns, Go
  <1>3. CASE Store(w)
    <2>1. Working(j)
      BY <1>3 DEF Store, Working
    <2> DEFINE k == [j EXCEPT !.pc = "load"]
    <2>2. k \in Jobs /\ Working(k) /\ ShapeOK(k)
      BY <1>0, <1>3, <2>1 DEF Store, Working, Jobs, ShapeOK
    <2>3. GoesOn(j, k)
      BY <1>0, <2>1, <2>2 DEF GoesOn, AllJobs, Jobs
    <2> QED
      BY <1>3, <2>3 DEF Store, At, Go
  <1>4. CASE StoreFails(w)
    BY <1>1, <1>2, <1>4 DEF StoreFails
  <1>5. CASE Remove(w)
    <2>1. Working(j)
      BY <1>5 DEF Remove, Working
    <2>2. PICK n \in j.todo : Go(w, [j EXCEPT !.pc = "load", !.name = n])
      BY <1>5 DEF Remove
    <2> DEFINE k == [j EXCEPT !.pc = "load", !.name = n]
    <2>3. k \in Jobs /\ Working(k) /\ ShapeOK(k)
      BY <1>0, <1>5, <2>1 DEF Remove, Working, Jobs, ShapeOK
    <2>4. GoesOn(j, k)
      BY <1>0, <2>1, <2>3 DEF GoesOn, AllJobs, Jobs, ShapeOK
    <2> QED
      BY <2>2, <2>4 DEF Go
  <1>6. CASE RemoveFails(w)
    <2>1. Working(j)
      BY <1>6 DEF RemoveFails, Working
    <2>2. CASE Purging(w)
      BY <1>1, <1>2, <1>6, <2>2 DEF RemoveFails
    <2>3. CASE ~Purging(w)
      <3> DEFINE k == [j EXCEPT !.pc = "load"]
      <3>1. k \in Jobs /\ Working(k) /\ ShapeOK(k)
        BY <1>0, <1>6, <2>1, <2>3 DEF RemoveFails, Purging, Working, Jobs, ShapeOK
      <3>2. GoesOn(j, k)
        BY <1>0, <2>1, <3>1 DEF GoesOn, AllJobs, Jobs
      <3> QED
        BY <1>6, <2>3, <3>2 DEF RemoveFails, At, Go
    <2> QED
      BY <2>2, <2>3
  <1>7. CASE LoadIndex(w)
    <2>1. Working(j)
      BY <1>7 DEF LoadIndex, Working
    <2>2. Edited(w) \in [Names -> Held]
      BY <1>0, <2>1 DEF Edited, TypeInv, Jobs
    <2> DEFINE k == [j EXCEPT !.pc = "save", !.copy = Edited(w)]
    <2>3. k \in Jobs /\ Working(k) /\ ShapeOK(k)
      BY <1>0, <1>7, <2>1, <2>2 DEF LoadIndex, Working, Jobs, ShapeOK
    <2>4. GoesOn(j, k)
      BY <1>0, <2>1, <2>3 DEF GoesOn, AllJobs, Jobs
    <2> QED
      BY <1>7, <2>4 DEF LoadIndex, Go
  <1>8. CASE IndexDone(w) /\ j.pc \in {"load", "save"}
    <2>1. Working(j)
      BY <1>8 DEF Working
    <2>2. CASE Purging(w)
      <3> DEFINE k == [j EXCEPT !.pc = "remove", !.todo = @ \ {j.name}, !.name = None, !.copy = None]
      <3>1. k \in Jobs /\ Working(k) /\ ShapeOK(k)
        BY <1>0, <2>1, <2>2 DEF Purging, Working, Jobs, ShapeOK
      <3>2. GoesOn(j, k)
        BY <1>0, <2>1, <2>2, <3>1 DEF GoesOn, AllJobs, Jobs, Purging
      <3> QED
        BY <1>8, <2>2, <3>2 DEF IndexDone, Go
    <2>3. CASE ~Purging(w)
      BY <1>1, <1>8, <2>3 DEF IndexDone, Go
    <2> QED
      BY <2>2, <2>3
  <1>9. CASE NothingToDelete(w) \/ SaveIndex(w)
    BY <1>8, <1>9 DEF NothingToDelete, SaveIndex
  <1>10. CASE IndexFails(w)
    BY <1>1, <1>2, <1>10 DEF IndexFails
  <1>11. CASE Purged(w)
    <2>1. Working(j)
      BY <1>11 DEF Purged, Working
    <2>2. CASE j.list
      <3> DEFINE k == [j EXCEPT !.pc = "collect"]
      <3>1. k \in Jobs /\ Working(k) /\ ShapeOK(k)
        BY <1>0, <1>11, <2>1 DEF Purged, Purging, Working, Jobs, ShapeOK
      <3>2. GoesOn(j, k)
        BY <1>0, <2>1, <3>1 DEF GoesOn, AllJobs, Jobs
      <3> QED
        BY <1>11, <2>2, <3>2 DEF Purged, At, Go
    <2>3. CASE ~j.list
      BY <1>1, <1>2, <1>11, <2>3 DEF Purged
    <2> QED
      BY <2>2, <2>3
  <1>12. CASE Collect(w)
    <2>1. Working(j)
      BY <1>12 DEF Collect, Working
    <2> DEFINE p == ProcessOf[w]
               o == [n \in Names |-> IF session[p][n] # None THEN session[p][n] ELSE index[n]]
               k == [pc |-> "listed", start |-> j.start, busy |-> j.busy, out |-> o]
    <2>2. o \in [Names -> Held]
      BY ProcessAssumption DEF TypeInv
    <2>3. k \in Lists /\ ~Working(k)
      BY <1>0, <2>1, <2>2 DEF Lists, Jobs, Working
    <2>4. GoesOn(j, k)
      BY <1>0, <2>1, <2>3 DEF GoesOn, AllJobs, Jobs
    <2>5. Go(w, k)
      BY <1>12 DEF Collect
    <2> QED
      BY <2>4, <2>5 DEF Go
  <1>13. CASE Listed(w)
    BY <1>1, <1>2, <1>13 DEF Listed
  <1> QED
    BY <1>3, <1>4, <1>5, <1>6, <1>7, <1>9, <1>10, <1>11, <1>12, <1>13 DEF Step
\* What a worker begins: a change of one name, or a purge.
BeginsChange(w, k, n) ==
    /\ k \in Jobs /\ Working(k) /\ ShapeOK(k) /\ k.start = 0
    /\ k.kind # "purge" /\ k.pc # "save" /\ k.name = n /\ k.todo = {n}
    /\ job[w] = Idle /\ job' = [job EXCEPT ![w] = k]
    /\ UNCHANGED <<clock, stored, index>>

LEMMA PutJob ==
    ASSUME NEW w \in Workers, NEW n \in Names, NEW v \in Values,
           NEW until \in Dates \cup {Never}, Put(w, n, v, until)
    PROVE  \E k : /\ BeginsChange(w, k, n) /\ k.kind = "put" /\ k.pc = "store"
                  /\ k.entry.expires = Never \/ k.entry.expires > clock
  <1> DEFINE e == [value |-> v, expires |-> until]
  <1>1. e \in Held
    BY DEF Held, Entries
  <1>2. PICK k : k = Change("put", "store", n, e)
    OBVIOUS
  <1>3. /\ k \in Jobs /\ Working(k) /\ ShapeOK(k) /\ k.start = 0 /\ k.kind = "put"
        /\ k.pc = "store" /\ k.name = n /\ k.todo = {n} /\ k.entry = e
    BY <1>1, <1>2, ChangeOK
  <1>4. /\ job[w] = Idle /\ job' = [job EXCEPT ![w] = k]
        /\ UNCHANGED <<clock, stored, index>> /\ (until = Never \/ until > clock)
    BY <1>2 DEF Put, Begin
  <1>5. k.entry.expires = until
    BY <1>3
  <1>6. BeginsChange(w, k, n)
    BY <1>3, <1>4 DEF BeginsChange
  <1> QED
    BY <1>3, <1>4, <1>5, <1>6

LEMMA DeleteJob ==
    ASSUME NEW w \in Workers, NEW n \in Names, Delete(w, n)
    PROVE  \E k : BeginsChange(w, k, n) /\ k.kind = "delete" /\ k.pc = "remove"
  <1>1. PICK k : k = Change("delete", "remove", n, None)
    OBVIOUS
  <1>2. /\ k \in Jobs /\ Working(k) /\ ShapeOK(k) /\ k.start = 0 /\ k.kind = "delete"
        /\ k.pc = "remove" /\ k.name = n /\ k.todo = {n}
    BY <1>1, ChangeOK DEF Held
  <1>3. job[w] = Idle /\ job' = [job EXCEPT ![w] = k] /\ UNCHANGED <<clock, stored, index>>
    BY <1>1 DEF Delete, Begin
  <1> QED
    BY <1>2, <1>3 DEF BeginsChange

LEMMA GetJob ==
    ASSUME NEW w \in Workers, NEW n \in Names, GetCleansUp(w, n)
    PROVE  \E k : /\ BeginsChange(w, k, n) /\ k.kind = "get"
                  /\ k.pc = "load" => stored[n] = None
  <1> DEFINE pc == IF stored[n] = None THEN "load" ELSE "remove"
  <1>1. PICK k : k = Change("get", pc, n, None)
    OBVIOUS
  <1>2. /\ k \in Jobs /\ Working(k) /\ ShapeOK(k) /\ k.start = 0 /\ k.kind = "get"
        /\ k.pc = pc /\ k.name = n /\ k.todo = {n}
    BY <1>1, ChangeOK DEF Held
  <1>3. job[w] = Idle /\ job' = [job EXCEPT ![w] = k] /\ UNCHANGED <<clock, stored, index>>
    BY <1>1 DEF GetCleansUp, Begin
  <1> QED
    BY <1>2, <1>3 DEF BeginsChange

LEMMA PurgeJob ==
    ASSUME TypeInv, NEW w \in Workers, NEW list \in BOOLEAN, PurgeExpired(w, list)
    PROVE  \E k : /\ k \in Jobs /\ Working(k) /\ ShapeOK(k) /\ k.start = clock
                  /\ k.kind = "purge" /\ k.pc = "remove" /\ k.todo = Overdue
                  /\ k.busy = {n \in Names : Touched(n)}
                  /\ job[w] = Idle /\ job' = [job EXCEPT ![w] = k]
                  /\ UNCHANGED <<clock, session, stored, index>>
  <1>1. PICK k : k = Purge("remove", Overdue, list)
    OBVIOUS
  <1>2. /\ k \in Jobs /\ Working(k) /\ ShapeOK(k) /\ k.start = clock /\ k.kind = "purge"
        /\ k.pc = "remove" /\ k.todo = Overdue /\ k.busy = {n \in Names : Touched(n)}
    BY <1>1, PurgeOK
  <1>3. /\ job[w] = Idle /\ job' = [job EXCEPT ![w] = k]
        /\ UNCHANGED <<clock, session, stored, index>>
    BY <1>1 DEF PurgeExpired, Begin
  <1> QED
    BY <1>2, <1>3

\* A step is one of these.
LEMMA StepCases ==
    ASSUME [Next]_vars
    PROVE  \/ UNCHANGED vars
           \/ Tick
           \/ \E w \in Workers, n \in Names, v \in Values : PutSession(w, n, v)
           \/ \E w \in Workers, n \in Names, v \in Values, until \in Dates \cup {Never} : Put(w, n, v, until)
           \/ \E w \in Workers, n \in Names : Delete(w, n)
           \/ \E w \in Workers, n \in Names : GetCleansUp(w, n)
           \/ \E w \in Workers, list \in BOOLEAN : PurgeExpired(w, list)
           \/ \E w \in Workers : Step(w)
           \/ \E p \in Processes : Exit(p)
    BY DEF Next, Starts

LEMMA TypeStep == TypeInv /\ [Next]_vars => TypeInv'
  <1> SUFFICES ASSUME TypeInv, [Next]_vars PROVE TypeInv'
    OBVIOUS
  <1> DEFINE Goal == TypeInv'
  <1>0. JobsOK /\ Idle \in AllJobs /\ ~Working(Idle)
    BY DEF TypeInv, AllJobs, Working, Idle
  <1>1. UNCHANGED vars => Goal
    BY DEF vars, TypeInv, JobsOK, SessionOK
  <1>2. Tick => Goal
    <2> SUFFICES ASSUME Tick PROVE Goal
      OBVIOUS
    <2>1. \A w \in Workers : job[w] # Idle => job[w].start \in Nat
      BY DEF TypeInv, JobsOK, AllJobs, Lists, Jobs
    <2>2. JobsOK'
      BY <2>1 DEF TypeInv, JobsOK, Tick
    <2> QED
      BY <2>2, BoundsAssumption DEF TypeInv, Tick, SessionOK
  <1>3. ASSUME NEW w \in Workers, NEW n \in Names, NEW v \in Values, PutSession(w, n, v) PROVE Goal
    <2> DEFINE e == [value |-> v, expires |-> Never]
    <2>1. e \in Held /\ e.expires = Never
      BY DEF Held, Entries
    <2>2. session' = [session EXCEPT ![ProcessOf[w]] = [session[ProcessOf[w]] EXCEPT ![n] = e]]
      BY <1>3 DEF PutSession
    <2>3. session' \in [Processes -> [Names -> Held]] /\ SessionOK'
      BY <2>1, <2>2, ProcessAssumption DEF TypeInv, SessionOK
    <2>4. JobsOK'
      BY <1>0, <1>3 DEF PutSession, JobsOK
    <2> QED
      BY <1>3, <2>3, <2>4 DEF PutSession, TypeInv
  <1>4. ASSUME NEW w \in Workers, NEW n \in Names, NEW k, BeginsChange(w, k, n) PROVE JobsOK'
    <2>1. k \in AllJobs /\ 0 <= clock
      BY <1>4 DEF BeginsChange, AllJobs, TypeInv
    <2> QED
      BY <1>0, <1>4, <2>1, JobChange DEF BeginsChange
  <1>5. ASSUME NEW w \in Workers, NEW n \in Names, NEW v \in Values,
               NEW until \in Dates \cup {Never}, Put(w, n, v, until) PROVE Goal
    <2>1. JobsOK'
      BY <1>4, <1>5, PutJob
    <2>2. settled' \in [Names -> BOOLEAN]
      BY <1>5 DEF Put, TypeInv, Touched
    <2> QED
      BY <1>5, <2>1, <2>2 DEF Put, TypeInv, SessionOK
  <1>6. ASSUME NEW w \in Workers, NEW n \in Names, Delete(w, n) PROVE Goal
    <2>1. JobsOK'
      BY <1>4, <1>6, DeleteJob
    <2>2. session' = [session EXCEPT ![ProcessOf[w]] = [session[ProcessOf[w]] EXCEPT ![n] = None]]
      BY <1>6 DEF Delete
    <2>3. session' \in [Processes -> [Names -> Held]] /\ SessionOK'
      BY <2>2, ProcessAssumption DEF TypeInv, SessionOK, Held
    <2>4. settled' \in [Names -> BOOLEAN]
      BY <1>6 DEF Delete, TypeInv, Touched
    <2> QED
      BY <1>6, <2>1, <2>3, <2>4 DEF Delete, TypeInv
  <1>7. ASSUME NEW w \in Workers, NEW n \in Names, GetCleansUp(w, n) PROVE Goal
    <2>1. JobsOK'
      BY <1>4, <1>7, GetJob
    <2>2. settled' \in [Names -> BOOLEAN]
      BY <1>7 DEF GetCleansUp, TypeInv, Touched
    <2> QED
      BY <1>7, <2>1, <2>2 DEF GetCleansUp, TypeInv, SessionOK
  <1>8. ASSUME NEW w \in Workers, NEW list \in BOOLEAN, PurgeExpired(w, list) PROVE Goal
    <2>1. PICK k : /\ k \in Jobs /\ ShapeOK(k) /\ k.start = clock
                   /\ job' = [job EXCEPT ![w] = k]
                   /\ UNCHANGED <<clock, session, stored, index>>
      BY <1>8, PurgeJob
    <2>2. k \in AllJobs /\ clock <= clock
      BY <2>1 DEF AllJobs, TypeInv
    <2>3. JobsOK'
      BY <1>0, <2>1, <2>2, JobChange
    <2>4. settled' \in [Names -> BOOLEAN]
      BY <1>8 DEF PurgeExpired, TypeInv, Touched
    <2> QED
      BY <2>1, <2>3, <2>4 DEF TypeInv, SessionOK
  <1>9. ASSUME NEW w \in Workers, Step(w) PROVE Goal
    <2>1. PICK k : /\ job' = [job EXCEPT ![w] = k] /\ GoesOn(job[w], k)
                   /\ UNCHANGED <<clock, session, started>>
      BY <1>9, StepJob
    <2>2. k # Idle => job[w] # Idle
      BY <1>0, <2>1 DEF GoesOn
    <2>3. JobsOK'
      BY <1>0, <2>1, <2>2, JobChange DEF GoesOn, JobsOK
    <2>4. job[w] \in AllJobs /\ (Working(job[w]) => job[w] \in Jobs /\ ShapeOK(job[w]))
      BY <1>0, JobForms DEF JobsOK
    <2>5. stored' \in [Names -> Held]
      <3>1. CASE Store(w) \/ StoreFails(w)
        <4>1. job[w].pc = "store"
          BY <3>1 DEF Store, StoreFails
        <4>2. job[w].entry \in Held
          BY <2>4, <4>1 DEF Working, Jobs
        <4> QED
          BY <3>1, <4>2 DEF Store, StoreFails, TypeInv
      <3>2. CASE Remove(w) \/ RemoveFails(w)
        BY <3>2 DEF Remove, RemoveFails, TypeInv, Held
      <3>3. CASE UNCHANGED stored
        BY <3>3 DEF TypeInv
      <3> QED
        BY <1>9, <3>1, <3>2, <3>3 DEF Step, LoadIndex, NothingToDelete, SaveIndex, IndexFails,
           Purged, Collect, Listed
    <2>6. index' \in [Names -> Held]
      <3>1. CASE SaveIndex(w)
        <4>1. job[w].pc = "save"
          BY <3>1 DEF SaveIndex
        <4>2. job[w].copy \in [Names -> Held]
          BY <2>4, <4>1 DEF Working, ShapeOK
        <4> QED
          BY <3>1, <4>2 DEF SaveIndex
      <3>2. CASE UNCHANGED index
        BY <3>2 DEF TypeInv
      <3> QED
        BY <1>9, <3>1, <3>2 DEF Step, Store, StoreFails, Remove, RemoveFails, LoadIndex,
           NothingToDelete, IndexFails, Purged, Collect, Listed
    <2>7. settled' \in [Names -> BOOLEAN]
      <3>1. CASE UNCHANGED settled
        BY <3>1 DEF TypeInv
      <3>2. ASSUME NEW S, Unsettle(S) PROVE settled' \in [Names -> BOOLEAN]
        BY <3>2 DEF Unsettle, TypeInv
      <3> QED
        BY <1>9, <3>1, <3>2 DEF Step, Store, StoreFails, Remove, RemoveFails, LoadIndex,
           NothingToDelete, SaveIndex, IndexFails, Purged, Collect, Listed
    <2> QED
      BY <2>1, <2>3, <2>5, <2>6, <2>7 DEF TypeInv, SessionOK
  <1>10. ASSUME NEW p \in Processes, Exit(p) PROVE Goal
    <2>1. session' \in [Processes -> [Names -> Held]] /\ SessionOK'
      BY <1>10 DEF Exit, TypeInv, SessionOK, Held
    <2>2. JobsOK'
      BY <1>0, <1>10 DEF Exit, JobsOK, TypeInv
    <2>3. settled' \in [Names -> BOOLEAN]
      BY <1>10 DEF Exit, Unsettle, TypeInv
    <2> QED
      BY <1>10, <2>1, <2>2, <2>3 DEF Exit, TypeInv
  <1> QED
    BY <1>1, <1>2, <1>3, <1>5, <1>6, <1>7, <1>8, <1>9, <1>10, StepCases, Zenon

\* Every method has the shape its kind gives it at every stage, and what the
\* backend, the session and the index hold are entries (manager.go:37-135).
THEOREM TypeCorrect == Spec => [](TypeInv /\ TypeOK)
  <1>1. Init => TypeInv
    BY BoundsAssumption DEF Init, TypeInv, JobsOK, AllJobs, SessionOK, Held, Idle, Working
  <1>2. TypeInv => TypeOK
    BY JobForms DEF TypeInv, TypeOK, JobsOK, Held
  <1> QED
    BY <1>1, <1>2, TypeStep, PTL DEF Spec
----------------------------------------------------------------------------
(* What a step of a method does to the backend and the index.              *)

LEMMA JobFacts ==
    ASSUME TypeInv, NEW w \in Workers
    PROVE  /\ job[w] \in AllJobs
           /\ Working(job[w]) => job[w] \in Jobs /\ ShapeOK(job[w])
           /\ Working(job[w]) <=> job[w] \in Jobs
           /\ Touches(job[w]) = IF Working(job[w]) THEN job[w].todo ELSE {}
    BY JobForms DEF TypeInv, JobsOK

\* What Collect makes of a List.
Collected(w) ==
    [pc |-> "listed", start |-> job[w].start, busy |-> job[w].busy,
     out |-> [n \in Names |-> IF session[ProcessOf[w]][n] # None
                               THEN session[ProcessOf[w]][n] ELSE index[n]]]

\* What a method is once the index has been dealt with.
AfterIndex(w) ==
    IF Purging(w)
    THEN [job[w] EXCEPT !.pc = "remove", !.todo = @ \ {job[w].name}, !.name = None, !.copy = None]
    ELSE Idle

\* The name that Remove takes.
Removes(w, n, k) ==
    k = [job[w] EXCEPT !.pc = "load", !.name = n] /\ stored' = [stored EXCEPT ![n] = None]

\* The step by which w's method becomes k.
StepTo(w, k) == Step(w) /\ job' = [job EXCEPT ![w] = k]

\* What each step makes of the method.
Becomes(w, k) ==
    \/ Store(w) /\ k = [job[w] EXCEPT !.pc = "load"]
    \/ StoreFails(w) /\ k = Idle
    \/ Remove(w) /\ \E n \in job[w].todo : Removes(w, n, k)
    \/ RemoveFails(w) /\ k = (IF Purging(w) THEN Idle ELSE [job[w] EXCEPT !.pc = "load"])
    \/ LoadIndex(w) /\ k = [job[w] EXCEPT !.pc = "save", !.copy = Edited(w)]
    \/ (NothingToDelete(w) \/ SaveIndex(w)) /\ k = AfterIndex(w)
    \/ IndexFails(w) /\ k = Idle
    \/ Purged(w) /\ k = (IF job[w].list THEN [job[w] EXCEPT !.pc = "collect"] ELSE Idle)
    \/ Collect(w) /\ k = Collected(w)
    \/ Listed(w) /\ k = Idle

LEMMA StepKinds ==
    ASSUME TypeInv, NEW w \in Workers, NEW k, StepTo(w, k)
    PROVE  Becomes(w, k)
  <1>1. ASSUME NEW i, job' = [job EXCEPT ![w] = i] PROVE k = i
    <2>1. job'[w] = i /\ job'[w] = k
      BY <1>1 DEF StepTo, TypeInv, JobsOK
    <2> QED
      BY <2>1
  <1>2. CASE Store(w)
    BY <1>1, <1>2 DEF Becomes, Store, At, Go
  <1>3. CASE StoreFails(w)
    BY <1>1, <1>3 DEF Becomes, StoreFails, Returns, Go
  <1>4. CASE Remove(w)
    BY <1>1, <1>4 DEF Becomes, Remove, Removes, Go
  <1>5. CASE RemoveFails(w)
    BY <1>1, <1>5 DEF Becomes, RemoveFails, Returns, At, Go
  <1>6. CASE LoadIndex(w)
    BY <1>1, <1>6 DEF Becomes, LoadIndex, Go
  <1>7. CASE NothingToDelete(w) \/ SaveIndex(w)
    BY <1>1, <1>7 DEF Becomes, NothingToDelete, SaveIndex, IndexDone, AfterIndex, Go
  <1>8. CASE IndexFails(w)
    BY <1>1, <1>8 DEF Becomes, IndexFails, Returns, Go
  <1>9. CASE Purged(w)
    BY <1>1, <1>9 DEF Becomes, Purged, Returns, At, Go
  <1>10. CASE Collect(w)
    BY <1>1, <1>10 DEF Becomes, Collect, Collected, Go
  <1>11. CASE Listed(w)
    BY <1>1, <1>11 DEF Becomes, Listed, Returns, Go
  <1> QED
    BY <1>2, <1>3, <1>4, <1>5, <1>6, <1>7, <1>8, <1>9, <1>10, <1>11 DEF StepTo, Step

\* Only a load goes to "save", and only a save changes the index.
Saves(w, k) ==
    /\ \/ LoadIndex(w) /\ UNCHANGED index /\ k = [job[w] EXCEPT !.pc = "save", !.copy = Edited(w)]
       \/ k.pc # "save"
    /\ UNCHANGED index \/ (job[w].pc = "save" /\ index' = job[w].copy /\ k.pc # "save")

LEMMA StepSaves ==
    ASSUME TypeInv, NEW w \in Workers, NEW k, StepTo(w, k)
    PROVE  Saves(w, k)
  <1>0. /\ job[w] \in AllJobs
        /\ Working(job[w]) => job[w] \in Jobs
    BY JobFacts
  <1>1. CASE Store(w) /\ k = [job[w] EXCEPT !.pc = "load"]
    <2>1. job[w] \in Jobs
      BY <1>0, <1>1 DEF Store, Working
    <2> QED
      BY <1>1, <2>1 DEF Saves, Store, Jobs
  <1>2. CASE Remove(w) /\ \E n \in job[w].todo : Removes(w, n, k)
    <2>1. job[w] \in Jobs
      BY <1>0, <1>2 DEF Remove, Working
    <2> QED
      BY <1>2, <2>1 DEF Saves, Remove, Removes, Jobs
  <1>3. CASE RemoveFails(w) /\ k = (IF Purging(w) THEN Idle ELSE [job[w] EXCEPT !.pc = "load"])
    <2>1. job[w] \in Jobs
      BY <1>0, <1>3 DEF RemoveFails, Working
    <2> QED
      BY <1>3, <2>1 DEF Saves, RemoveFails, Jobs, Idle
  <1>4. CASE LoadIndex(w) /\ k = [job[w] EXCEPT !.pc = "save", !.copy = Edited(w)]
    BY <1>4 DEF Saves, LoadIndex
  <1>5. CASE (NothingToDelete(w) \/ SaveIndex(w)) /\ k = AfterIndex(w)
    <2>1. job[w] \in Jobs
      BY <1>0, <1>5 DEF NothingToDelete, SaveIndex, Working
    <2>2. k.pc # "save"
      BY <1>5, <2>1 DEF Jobs, Idle, AfterIndex
    <2> QED
      BY <1>5, <2>2 DEF Saves, NothingToDelete, SaveIndex
  <1>6. CASE Purged(w) /\ k = (IF job[w].list THEN [job[w] EXCEPT !.pc = "collect"] ELSE Idle)
    <2>1. job[w] \in Jobs
      BY <1>0, <1>6 DEF Purged, Working
    <2> QED
      BY <1>6, <2>1 DEF Saves, Purged, Jobs, Idle
  <1>7. CASE Collect(w) /\ k = Collected(w)
    BY <1>7 DEF Saves, Collect, Collected
  <1>8. CASE (StoreFails(w) \/ IndexFails(w) \/ Listed(w)) /\ k = Idle
    BY <1>8 DEF Saves, StoreFails, IndexFails, Listed, Idle
  <1>9. Becomes(w, k)
    BY StepKinds
  <1> QED
    BY <1>1, <1>2, <1>3, <1>4, <1>5, <1>6, <1>7, <1>8, <1>9, Zenon DEF Becomes

LEMMA MutexStep ==
    ASSUME SingleProcess, TypeInv, MutexInv, [Next]_vars
    PROVE  MutexInv'
  <1> DEFINE Goal == MutexInv'
  <1>0. /\ job \in [Workers -> AllJobs]
        /\ Idle.pc # "save"
    BY DEF TypeInv, JobsOK, Idle
  <1>1. ASSUME UNCHANGED <<job, index>> PROVE Goal
    BY <1>1 DEF MutexInv, Edited
  <1>2. ASSUME NEW w \in Workers, NEW k, job' = [job EXCEPT ![w] = k], k.pc # "save", UNCHANGED index
        PROVE  Goal
    <2>1. \A u \in Workers : job'[u].pc = "save" => u # w /\ job'[u] = job[u] /\ job[u].pc = "save"
      BY <1>0, <1>2
    <2> QED
      BY <1>2, <2>1 DEF MutexInv, Edited
  <1>3. CASE \E w \in Workers : Step(w)
    <2>1. PICK w \in Workers : Step(w)
      BY <1>3
    <2>2. PICK k : StepTo(w, k)
      BY <2>1, StepJob DEF StepTo
    <2>3. job' = [job EXCEPT ![w] = k]
      BY <2>2 DEF StepTo
    <2>4. CASE LoadIndex(w) /\ UNCHANGED index /\ k = [job[w] EXCEPT !.pc = "save", !.copy = Edited(w)]
      <3>1. \A u \in Workers : job[u].pc # "save"
        BY <2>4 DEF LoadIndex, Free, SingleProcess
      <3>2. \A u \in Workers : u # w => job'[u].pc # "save"
        BY <1>0, <2>3, <3>1
      <3>3. job[w] \in Jobs
        BY <2>4, JobFacts DEF LoadIndex, Working
      <3>4. /\ k.copy = [index EXCEPT ![job[w].name] = job[w].entry]
            /\ k.name = job[w].name /\ k.entry = job[w].entry
        BY <2>4, <3>3 DEF Jobs, Edited
      <3>5. job'[w].copy = [index' EXCEPT ![job'[w].name] = job'[w].entry]
        BY <1>0, <2>3, <2>4, <3>4
      <3> QED
        BY <3>2, <3>5 DEF MutexInv, Edited
    <2>5. CASE k.pc # "save" /\ UNCHANGED index
      BY <1>2, <2>3, <2>5
    <2>6. CASE job[w].pc = "save" /\ index' = job[w].copy /\ k.pc # "save"
      <3>1. \A u \in Workers : job'[u].pc # "save"
        BY <1>0, <2>3, <2>6 DEF MutexInv
      <3> QED
        BY <3>1 DEF MutexInv
    <2> QED
      BY <2>2, <2>4, <2>5, <2>6, StepSaves DEF Saves
  <1>4. ASSUME NEW w \in Workers, NEW n \in Names, NEW k, BeginsChange(w, k, n) PROVE Goal
    BY <1>2, <1>4 DEF BeginsChange
  <1>5. CASE \E w \in Workers, list \in BOOLEAN : PurgeExpired(w, list)
    <2>1. PICK w \in Workers, list \in BOOLEAN : PurgeExpired(w, list)
      BY <1>5
    <2>2. PICK k : k.pc = "remove" /\ job' = [job EXCEPT ![w] = k] /\ UNCHANGED index
      BY <2>1, PurgeJob
    <2> QED
      BY <1>2, <2>2
  <1>6. CASE \E p \in Processes : Exit(p)
    <2>1. PICK p \in Processes : Exit(p)
      BY <1>6
    <2>2. \A u \in Workers : job'[u].pc = "save" => job'[u] = job[u] /\ job[u].pc = "save"
      BY <1>0, <2>1 DEF Exit
    <2>3. UNCHANGED index
      BY <2>1 DEF Exit
    <2> QED
      BY <2>2, <2>3 DEF MutexInv, Edited
  <1>7. CASE UNCHANGED vars \/ Tick \/ \E w \in Workers, n \in Names, v \in Values : PutSession(w, n, v)
    BY <1>1, <1>7 DEF vars, Tick, PutSession
  <1>8. CASE \E w \in Workers, n \in Names, v \in Values, until \in Dates \cup {Never} : Put(w, n, v, until)
    BY <1>4, <1>8, PutJob
  <1>9. CASE \E w \in Workers, n \in Names : Delete(w, n)
    BY <1>4, <1>9, DeleteJob
  <1>10. CASE \E w \in Workers, n \in Names : GetCleansUp(w, n)
    BY <1>4, <1>10, GetJob
  <1> QED
    BY <1>3, <1>5, <1>6, <1>7, <1>8, <1>9, <1>10, StepCases, Zenon
----------------------------------------------------------------------------
(* A list has nothing that was over when it began.                         *)

\* A save writes the index as it is with its own change.
LEMMA StepIndex ==
    ASSUME TypeInv, MutexInv, NEW w \in Workers, NEW k, StepTo(w, k)
    PROVE  \/ index' = index
           \/ job[w].pc = "save" /\ index' = [index EXCEPT ![job[w].name] = job[w].entry]
    BY StepSaves DEF Saves, MutexInv, Edited

\* A purge is done with a name when the index no longer has it.
Shrinks(w, k) ==
    \A n \in job[w].todo \ k.todo :
       /\ Purging(w) /\ job[w].name = n /\ job[w].pc \in {"load", "save"}
       /\ NothingToDelete(w) \/ SaveIndex(w)

LEMMA StepShrinks ==
    ASSUME TypeInv, NEW w \in Workers, NEW k, StepTo(w, k), Working(k)
    PROVE  Shrinks(w, k)
  <1>0. Working(job[w]) => job[w] \in Jobs
    BY JobFacts
  <1>1. CASE Store(w) /\ k = [job[w] EXCEPT !.pc = "load"]
    <2>1. job[w] \in Jobs
      BY <1>0, <1>1 DEF Store, Working
    <2> QED
      BY <1>1, <2>1 DEF Shrinks, Jobs
  <1>2. CASE Remove(w) /\ \E n \in job[w].todo : Removes(w, n, k)
    <2>1. job[w] \in Jobs
      BY <1>0, <1>2 DEF Remove, Working
    <2> QED
      BY <1>2, <2>1 DEF Removes, Shrinks, Jobs
  <1>3. CASE RemoveFails(w) /\ k = (IF Purging(w) THEN Idle ELSE [job[w] EXCEPT !.pc = "load"])
    <2>1. job[w] \in Jobs
      BY <1>0, <1>3 DEF RemoveFails, Working
    <2> QED
      BY <1>3, <2>1 DEF Shrinks, Jobs, Idle, Working
  <1>4. CASE LoadIndex(w) /\ k = [job[w] EXCEPT !.pc = "save", !.copy = Edited(w)]
    <2>1. job[w] \in Jobs
      BY <1>0, <1>4 DEF LoadIndex, Working
    <2>2. k.todo = job[w].todo
      BY <1>4, <2>1 DEF Jobs
    <2> QED
      BY <2>2 DEF Shrinks
  <1>5. CASE (NothingToDelete(w) \/ SaveIndex(w)) /\ k = AfterIndex(w)
    <2>1. job[w].pc \in {"load", "save"} /\ job[w] \in Jobs
      BY <1>0, <1>5 DEF NothingToDelete, SaveIndex, Working
    <2>2. Purging(w)
      BY <1>5 DEF AfterIndex, Working, Idle
    <2>3. k.todo = job[w].todo \ {job[w].name}
      BY <1>5, <2>1, <2>2 DEF AfterIndex, Jobs
    <2> QED
      BY <1>5, <2>1, <2>2, <2>3 DEF Shrinks
  <1>6. CASE Purged(w) /\ k = (IF job[w].list THEN [job[w] EXCEPT !.pc = "collect"] ELSE Idle)
    <2>1. job[w] \in Jobs
      BY <1>0, <1>6 DEF Purged, Working
    <2> QED
      BY <1>6, <2>1 DEF Shrinks, Jobs, Idle, Working
  <1>7. CASE Collect(w) /\ k = Collected(w)
    BY <1>7 DEF Collected, Working
  <1>8. CASE (StoreFails(w) \/ IndexFails(w) \/ Listed(w)) /\ k = Idle
    BY <1>8 DEF Idle, Working
  <1>9. Becomes(w, k)
    BY StepKinds
  <1> QED
    BY <1>1, <1>2, <1>3, <1>4, <1>5, <1>6, <1>7, <1>8, <1>9, Zenon DEF Becomes

LEMMA FreshStep ==
    ASSUME TypeInv, MutexInv, FreshInv, [Next]_vars
    PROVE  FreshInv'
  <1> DEFINE Goal == FreshInv'
  <1>0. /\ job \in [Workers -> AllJobs]
        /\ ~Working(Idle)
        /\ \A w \in Workers : Working(job[w]) => job[w] \in Jobs /\ ShapeOK(job[w]) /\ job[w].start <= clock
    BY JobFacts DEF TypeInv, JobsOK, Idle, Working
  <1>1. ASSUME UNCHANGED <<job, index>> PROVE Goal
    BY <1>1 DEF FreshInv, Fresh, Working
  <1>2. CASE \E w \in Workers : Step(w)
    <2>1. PICK w \in Workers : Step(w)
      BY <1>2
    <2>2. PICK k : StepTo(w, k) /\ GoesOn(job[w], k)
      BY <2>1, StepJob DEF StepTo
    <2>3. job' = [job EXCEPT ![w] = k] /\ \A u \in Workers : job'[u] = IF u = w THEN k ELSE job[u]
      BY <1>0, <2>2 DEF StepTo
    <2>4. \A u \in Workers : Working(job'[u]) =>
             /\ Working(job[u]) /\ job'[u].kind = job[u].kind /\ job'[u].entry = job[u].entry
             /\ job'[u].start = job[u].start /\ job'[u].busy = job[u].busy
             /\ job[u].kind # "purge" => job'[u].name = job[u].name
      BY <1>0, <2>2, <2>3 DEF GoesOn
    <2>5. SUFFICES ASSUME NEW x \in Workers, Working(job'[x]), job'[x].kind = "purge",
                          NEW n \in Names, n \notin job'[x].busy
                   PROVE  /\ n \in job'[x].todo \/ ~Expired(index'[n], job[x].start)
                          /\ \A u \in Workers :
                                Working(job'[u]) /\ job'[u].kind = "put" /\ job'[u].name = n
                                => ~Expired(job'[u].entry, job[x].start)
      BY <2>4 DEF FreshInv, Fresh, Expired, Working
    <2>6. Working(job[x]) /\ job[x].kind = "purge" /\ n \notin job[x].busy /\ Fresh(x, n)
      BY <2>4, <2>5 DEF FreshInv
    <2>7. \A u \in Workers :
             Working(job[u]) /\ job[u].kind = "put" /\ job[u].name = n
             => ~Expired(job[u].entry, job[x].start)
      BY <2>6 DEF Fresh
    <2>8. ~Expired(index[n], job[x].start) => ~Expired(index'[n], job[x].start)
      <3>1. CASE index' = index
        BY <3>1
      <3>2. CASE job[w].pc = "save" /\ index' = [index EXCEPT ![job[w].name] = job[w].entry]
        <4>1. Working(job[w]) /\ (job[w].kind # "put" => job[w].entry = None)
          BY <1>0, <3>2 DEF Working, ShapeOK
        <4>2. index'[n] = IF n = job[w].name THEN job[w].entry ELSE index[n]
          BY <3>2 DEF TypeInv
        <4>3. ~Expired(None, job[x].start)
          BY DEF Expired
        <4> QED
          BY <2>7, <4>1, <4>2, <4>3
      <3> QED
        BY <2>2, <3>1, <3>2, StepIndex
    <2>9. n \in job'[x].todo \/ ~Expired(index'[n], job[x].start)
      <3>1. CASE n \notin job[x].todo
        BY <2>6, <2>8, <3>1 DEF Fresh
      <3>2. CASE n \in job[x].todo /\ x # w
        BY <2>3, <3>2
      <3>3. CASE n \in job[x].todo /\ x = w /\ n \notin k.todo
        <4>1. Working(k)
          BY <2>3, <2>5, <3>3
        <4>2. /\ Purging(w) /\ job[w].name = n /\ job[w].pc \in {"load", "save"}
              /\ NothingToDelete(w) \/ SaveIndex(w)
          BY <2>2, <3>3, <4>1, StepShrinks DEF Shrinks
        <4>3. job[w].entry = None
          BY <1>0, <2>6, <3>3 DEF ShapeOK
        <4>4. index'[n] = None
          <5>1. CASE NothingToDelete(w)
            BY <4>2, <5>1 DEF NothingToDelete
          <5>2. CASE SaveIndex(w)
            <6>1. index' = [index EXCEPT ![job[w].name] = job[w].entry]
              BY <5>2 DEF SaveIndex, MutexInv, Edited
            <6> QED
              BY <4>2, <4>3, <6>1 DEF TypeInv
          <5> QED
            BY <4>2, <5>1, <5>2
        <4> QED
          BY <4>4 DEF Expired
      <3>4. CASE x = w /\ n \in k.todo
        BY <2>3, <3>4
      <3> QED
        BY <3>1, <3>2, <3>3, <3>4
    <2> QED
      BY <2>4, <2>7, <2>9
  <1>3. ASSUME NEW w \in Workers, NEW m \in Names, NEW k, BeginsChange(w, k, m),
               k.kind = "put" => k.entry.expires = Never \/ k.entry.expires > clock
        PROVE  Goal
    <2>1. /\ \A u \in Workers : job'[u] = IF u = w THEN k ELSE job[u]
          /\ k.kind # "purge" /\ index' = index
      BY <1>0, <1>3 DEF BeginsChange
    <2>2. SUFFICES ASSUME NEW x \in Workers, x # w, Working(job[x]), job[x].kind = "purge",
                          NEW n \in Names, n \notin job[x].busy
                   PROVE  /\ n \in job[x].todo \/ ~Expired(index[n], job[x].start)
                          /\ \A u \in Workers :
                                Working(job'[u]) /\ job'[u].kind = "put" /\ job'[u].name = n
                                => ~Expired(job'[u].entry, job[x].start)
      BY <2>1 DEF FreshInv, Fresh, Expired, Working
    <2>3. Fresh(x, n)
      BY <2>2 DEF FreshInv
    <2>4. k.kind = "put" => ~Expired(k.entry, job[x].start)
      <3> SUFFICES ASSUME k.kind = "put", k.entry # None PROVE ~Expired(k.entry, job[x].start)
        BY DEF Expired
      <3>1. job[x].start \in Nat /\ job[x].start <= clock /\ clock \in Nat
        BY <1>0, <2>2 DEF Jobs, TypeInv
      <3>2. k.entry \in Entries
        BY <1>3 DEF BeginsChange, Jobs, Held
      <3>3. k.entry.expires \in Nat
        <4>1. k.entry.expires \in Dates \cup {Never}
          BY <3>2 DEF Entries
        <4>2. Never \in Nat
          BY DEF Never
        <4>3. \A d \in Dates : d \in Nat
          BY DatesAssumption
        <4> QED
          BY <4>1, <4>2, <4>3, Zenon
      <3> QED
        BY <1>3, <3>1, <3>3 DEF Expired
    <2> QED
      BY <2>1, <2>3, <2>4 DEF Fresh
  <1>4. CASE \E w \in Workers, list \in BOOLEAN : PurgeExpired(w, list)
    <2>1. PICK w \in Workers, list \in BOOLEAN : PurgeExpired(w, list)
      BY <1>4
    <2>2. PICK k : /\ k.start = clock /\ k.kind = "purge" /\ k.todo = Overdue
                   /\ k.busy = {n \in Names : Touched(n)}
                   /\ job' = [job EXCEPT ![w] = k] /\ index' = index
      BY <2>1, PurgeJob
    <2>3. \A u \in Workers : job'[u] = IF u = w THEN k ELSE job[u]
      BY <1>0, <2>2
    <2>4. SUFFICES ASSUME NEW x \in Workers, Working(job'[x]), job'[x].kind = "purge",
                          NEW n \in Names, n \notin job'[x].busy
                   PROVE  /\ n \in job'[x].todo \/ ~Expired(index[n], job'[x].start)
                          /\ \A u \in Workers :
                                Working(job'[u]) /\ job'[u].kind = "put" /\ job'[u].name = n
                                => ~Expired(job'[u].entry, job'[x].start)
      BY <2>2 DEF FreshInv, Fresh, Expired, Working
    <2>5. \A u \in Workers : Working(job'[u]) /\ job'[u].kind = "put" =>
             u # w /\ job'[u] = job[u]
      BY <2>2, <2>3
    <2>6. CASE x = w
      <3>1. job'[x] = k /\ ~Touched(n)
        BY <2>2, <2>3, <2>4, <2>6
      <3>2. \A u \in Workers : ~(Working(job[u]) /\ job[u].kind = "put" /\ job[u].name = n)
        <4> SUFFICES ASSUME NEW u \in Workers, Working(job[u]), job[u].kind = "put", job[u].name = n
                     PROVE  FALSE
          OBVIOUS
        <4>1. n \in Touches(job[u])
          BY <1>0, JobFacts DEF ShapeOK
        <4> QED
          BY <3>1, <4>1 DEF Touched
      <3>3. n \in Overdue \/ ~Expired(index[n], clock)
        BY DEF Overdue
      <3> QED
        BY <2>2, <2>5, <3>1, <3>2, <3>3
    <2>7. CASE x # w
      <3>1. job'[x] = job[x]
        BY <2>3, <2>7
      <3>2. Fresh(x, n)
        BY <2>4, <3>1 DEF FreshInv
      <3> QED
        BY <2>5, <3>1, <3>2 DEF Fresh
    <2> QED
      BY <2>6, <2>7
  <1>5. CASE \E p \in Processes : Exit(p)
    <2>1. PICK p \in Processes : Exit(p)
      BY <1>5
    <2>2. \A u \in Workers : Working(job'[u]) => job'[u] = job[u]
      BY <1>0, <2>1 DEF Exit
    <2>3. index' = index
      BY <2>1 DEF Exit
    <2> QED
      BY <2>2, <2>3 DEF FreshInv, Fresh, Expired, Working
  <1>6. CASE UNCHANGED vars \/ Tick \/ \E w \in Workers, n \in Names, v \in Values : PutSession(w, n, v)
    BY <1>1, <1>6 DEF vars, Tick, PutSession
  <1>7. CASE \E w \in Workers, n \in Names, v \in Values, until \in Dates \cup {Never} : Put(w, n, v, until)
    BY <1>3, <1>7, PutJob
  <1>8. CASE \E w \in Workers, n \in Names : Delete(w, n)
    BY <1>3, <1>8, DeleteJob
  <1>9. CASE \E w \in Workers, n \in Names : GetCleansUp(w, n)
    BY <1>3, <1>9, GetJob
  <1> QED
    BY <1>2, <1>4, <1>5, <1>6, <1>7, <1>8, <1>9, StepCases, Zenon
\* A list that Collect makes has what the index has that is fresh, and session
\* values, which do not expire.
LEMMA ListStep ==
    ASSUME TypeInv, FreshInv, ListFresh, [Next]_vars
    PROVE  ListFresh'
  <1> DEFINE Goal == ListFresh'
  <1>0. /\ job \in [Workers -> AllJobs]
        /\ \A w \in Workers : Working(job[w]) => job[w] \in Jobs /\ ShapeOK(job[w])
    BY JobFacts DEF TypeInv, JobsOK
  <1>1. ASSUME \A u \in Workers : job'[u].pc = "listed" => job'[u] = job[u] PROVE Goal
    BY <1>1 DEF ListFresh, Expired
  <1>2. CASE \E w \in Workers : Step(w)
    <2>1. PICK w \in Workers : Step(w)
      BY <1>2
    <2>2. PICK k : StepTo(w, k) /\ GoesOn(job[w], k)
      BY <2>1, StepJob DEF StepTo
    <2>3. \A u \in Workers : job'[u] = IF u = w THEN k ELSE job[u]
      BY <1>0, <2>2 DEF StepTo
    <2>4. CASE k.pc # "listed"
      BY <1>1, <2>3, <2>4
    <2>5. CASE Collect(w) /\ k = Collected(w)
      <3>1. job[w].pc = "collect" /\ Working(job[w])
        BY <2>5 DEF Collect, Working
      <3>2. job[w].kind = "purge" /\ job[w].todo = {}
        BY <1>0, <3>1 DEF ShapeOK
      <3>3. \A n \in Names \ job[w].busy : ~Expired(index[n], job[w].start)
        BY <3>1, <3>2 DEF FreshInv, Fresh
      <3>4. \A n \in Names : session[ProcessOf[w]][n] # None =>
               ~Expired(session[ProcessOf[w]][n], job[w].start)
        BY ProcessAssumption DEF TypeInv, SessionOK, Expired
      <3>5. /\ k.busy = job[w].busy /\ k.start = job[w].start
            /\ \A n \in Names : k.out[n] = IF session[ProcessOf[w]][n] # None
                                           THEN session[ProcessOf[w]][n] ELSE index[n]
        BY <2>5 DEF Collected
      <3>6. \A n \in Names \ k.busy : ~Expired(k.out[n], k.start)
        BY <3>3, <3>4, <3>5
      <3> QED
        BY <2>3, <3>6 DEF ListFresh, Expired
    <2>6. k.pc = "listed" => Collect(w) /\ k = Collected(w)
      <3> SUFFICES ASSUME ~Collect(w) \/ k # Collected(w) PROVE k.pc # "listed"
        OBVIOUS
      <3>1. CASE k = Idle
        BY <3>1 DEF Idle
      <3>2. ASSUME job[w] \in Jobs, NEW pc \in {"load", "collect"}, k = [job[w] EXCEPT !.pc = pc]
            PROVE  k.pc # "listed"
        BY <3>2 DEF Jobs
      <3>3. CASE Remove(w) /\ \E n \in job[w].todo : Removes(w, n, k)
        <4>1. job[w] \in Jobs
          BY <1>0, <3>3 DEF Remove, Working
        <4> QED
          BY <3>3, <4>1 DEF Removes, Jobs
      <3>4. CASE LoadIndex(w) /\ k = [job[w] EXCEPT !.pc = "save", !.copy = Edited(w)]
        <4>1. job[w] \in Jobs
          BY <1>0, <3>4 DEF LoadIndex, Working
        <4> QED
          BY <3>4, <4>1 DEF Jobs
      <3>5. CASE (NothingToDelete(w) \/ SaveIndex(w)) /\ k = AfterIndex(w)
        <4>1. job[w] \in Jobs
          BY <1>0, <3>5 DEF NothingToDelete, SaveIndex, Working
        <4> QED
          BY <3>1, <3>5, <4>1 DEF AfterIndex, Jobs
      <3>6. CASE Store(w) /\ k = [job[w] EXCEPT !.pc = "load"]
        <4>1. job[w] \in Jobs
          BY <1>0, <3>6 DEF Store, Working
        <4> QED
          BY <3>2, <3>6, <4>1
      <3>7. CASE RemoveFails(w) /\ k = (IF Purging(w) THEN Idle ELSE [job[w] EXCEPT !.pc = "load"])
        <4>1. job[w] \in Jobs
          BY <1>0, <3>7 DEF RemoveFails, Working
        <4> QED
          BY <3>1, <3>2, <3>7, <4>1
      <3>8. CASE Purged(w) /\ k = (IF job[w].list THEN [job[w] EXCEPT !.pc = "collect"] ELSE Idle)
        <4>1. job[w] \in Jobs
          BY <1>0, <3>8 DEF Purged, Working
        <4> QED
          BY <3>1, <3>2, <3>8, <4>1
      <3>9. Becomes(w, k)
        BY <2>2, StepKinds
      <3> QED
        BY <3>1, <3>3, <3>4, <3>5, <3>6, <3>7, <3>8, <3>9, Zenon DEF Becomes
    <2> QED
      BY <2>4, <2>5, <2>6
  <1>3. ASSUME NEW w \in Workers, NEW k, k \in Jobs, job' = [job EXCEPT ![w] = k] PROVE Goal
    BY <1>0, <1>1, <1>3 DEF Jobs
  <1>4. CASE \E p \in Processes : Exit(p)
    BY <1>0, <1>1, <1>4 DEF Exit, Idle
  <1>5. CASE UNCHANGED vars \/ Tick \/ \E w \in Workers, n \in Names, v \in Values : PutSession(w, n, v)
    BY <1>1, <1>5 DEF vars, Tick, PutSession
  <1>6. CASE \E w \in Workers, n \in Names, v \in Values, until \in Dates \cup {Never} : Put(w, n, v, until)
    BY <1>3, <1>6, PutJob DEF BeginsChange
  <1>7. CASE \E w \in Workers, n \in Names : Delete(w, n)
    BY <1>3, <1>7, DeleteJob DEF BeginsChange
  <1>8. CASE \E w \in Workers, n \in Names : GetCleansUp(w, n)
    BY <1>3, <1>8, GetJob DEF BeginsChange
  <1>9. CASE \E w \in Workers, list \in BOOLEAN : PurgeExpired(w, list)
    BY <1>3, <1>9, PurgeJob
  <1> QED
    BY <1>2, <1>4, <1>5, <1>6, <1>7, <1>8, <1>9, StepCases, Zenon

\* With one process, a list has nothing that was over when it began, whatever
\* goroutines and dates there are and whatever fails, except what a method that
\* was already under way was changing (List, manager.go:149-176, purges first).
THEOREM ListsAreFresh == ASSUME SingleProcess PROVE Spec => []ListFresh
  <1>1. Init => TypeInv /\ MutexInv /\ FreshInv /\ ListFresh
    <2> SUFFICES ASSUME Init PROVE MutexInv /\ FreshInv /\ ListFresh
      BY BoundsAssumption DEF Init, TypeInv, JobsOK, AllJobs, SessionOK, Held, Idle, Working
    <2>1. \A w \in Workers : job[w].pc = "idle"
      BY DEF Init, Idle
    <2> QED
      BY <2>1 DEF MutexInv, FreshInv, ListFresh, Working
  <1>2. TypeInv /\ MutexInv /\ FreshInv /\ ListFresh /\ [Next]_vars
        => (TypeInv /\ MutexInv /\ FreshInv /\ ListFresh)'
    BY TypeStep, MutexStep, FreshStep, ListStep
  <1> QED
    BY <1>1, <1>2, PTL DEF Spec
----------------------------------------------------------------------------
(* The index keeps in step with the backend.                               *)

\* What a step does to the names: those the method does not touch it leaves
\* alone, one it is done with without a failure the index has as the backend
\* does, and one it is about to enter in the index the backend has.
Keeps(w, k) ==
    \A n \in Names :
       /\ settled'[n] => settled[n]
       /\ n \notin Touches(job[w]) => stored'[n] = stored[n] /\ index'[n] = index[n]
       /\ n \in Touches(job[w]) /\ n \notin Touches(k) /\ settled'[n] =>
             /\ job[w].pc \in {"load", "save"} /\ job[w].name = n
             /\ index'[n] = job[w].entry /\ stored' = stored
       /\ k.pc \in {"load", "save"} /\ k.name = n /\ settled'[n] =>
             \/ stored'[n] = k.entry
             \/ job[w].pc = "load" /\ job[w].name = n /\ job[w].entry = k.entry /\ stored' = stored

LEMMA StepKeeps ==
    ASSUME TypeInv, MutexInv, NEW w \in Workers, NEW k, StepTo(w, k)
    PROVE  Keeps(w, k)
  <1> DEFINE j == job[w]
  <1>0. /\ Working(j) => j \in Jobs /\ ShapeOK(j)
        /\ Touches(j) = IF Working(j) THEN j.todo ELSE {}
        /\ Touches(Idle) = {} /\ Idle.pc = "idle"
    BY JobFacts DEF Touches, Idle
  <1>1. ASSUME NEW S, Unsettle(S) PROVE \A n \in Names : settled'[n] <=> settled[n] /\ n \notin S
    BY <1>1 DEF Unsettle
  <1>2. CASE Store(w) /\ k = [j EXCEPT !.pc = "load"]
    <2>1. j \in Jobs /\ ShapeOK(j) /\ Touches(j) = j.todo /\ j.pc = "store"
      BY <1>0, <1>2 DEF Store, Working
    <2>2. k.pc = "load" /\ k.todo = j.todo /\ k.name = j.name /\ k.entry = j.entry
      BY <1>2, <2>1 DEF Jobs
    <2>3. j.name \in Names /\ j.todo = {j.name}
      BY <2>1 DEF ShapeOK
    <2>4. Touches(k) = j.todo
      BY <2>2 DEF Touches
    <2>5. UNCHANGED <<index, settled>> /\ stored' = [stored EXCEPT ![j.name] = j.entry]
      BY <1>2 DEF Store
    <2> QED
      BY <2>1, <2>2, <2>3, <2>4, <2>5 DEF Keeps, TypeInv
  <1>3. CASE StoreFails(w) /\ k = Idle
    <2>1. ShapeOK(j) /\ Touches(j) = j.todo /\ j.pc = "store"
      BY <1>0, <1>3 DEF StoreFails, Working
    <2>2. j.name \in Names /\ j.todo = {j.name}
      BY <2>1 DEF ShapeOK
    <2>3. \A n \in Names : settled'[n] <=> settled[n] /\ n \notin j.todo
      BY <1>1, <1>3 DEF StoreFails
    <2>4. index' = index /\ \E e : stored' = [stored EXCEPT ![j.name] = e]
      BY <1>3 DEF StoreFails
    <2>5. \A n \in Names : n \notin j.todo => stored'[n] = stored[n]
      BY <2>2, <2>4 DEF TypeInv
    <2> QED
      BY <1>0, <1>3, <2>1, <2>3, <2>4, <2>5 DEF Keeps
  <1>4. CASE Remove(w) /\ \E n \in j.todo : Removes(w, n, k)
    <2>1. j \in Jobs /\ ShapeOK(j) /\ Touches(j) = j.todo /\ j.pc = "remove"
      BY <1>0, <1>4 DEF Remove, Working
    <2>2. PICK m \in j.todo : k = [j EXCEPT !.pc = "load", !.name = m] /\ stored' = [stored EXCEPT ![m] = None]
      BY <1>4 DEF Removes
    <2>3. k.pc = "load" /\ k.todo = j.todo /\ k.name = m /\ k.entry = j.entry
      BY <2>1, <2>2 DEF Jobs
    <2>4. j.entry = None /\ m \in Names
      BY <2>1 DEF ShapeOK, Jobs
    <2>5. Touches(k) = j.todo
      BY <2>3 DEF Touches
    <2>6. UNCHANGED <<index, settled>>
      BY <1>4 DEF Remove
    <2> QED
      BY <2>1, <2>2, <2>3, <2>4, <2>5, <2>6 DEF Keeps, TypeInv
  <1>5. CASE RemoveFails(w) /\ k = (IF Purging(w) THEN Idle ELSE [j EXCEPT !.pc = "load"])
    <2>1. j \in Jobs /\ ShapeOK(j) /\ Touches(j) = j.todo /\ j.pc = "remove" /\ j.todo \subseteq Names
      BY <1>0, <1>5 DEF RemoveFails, Working, Jobs
    <2>2. PICK m \in j.todo : /\ \E e : stored' = [stored EXCEPT ![m] = e]
                              /\ Unsettle(IF Purging(w) THEN j.todo ELSE {m})
      BY <1>5 DEF RemoveFails
    <2>3. \A n \in Names : settled'[n] <=> settled[n] /\ n \notin (IF Purging(w) THEN j.todo ELSE {m})
      BY <1>1, <2>2
    <2>4. index' = index
      BY <1>5 DEF RemoveFails
    <2>5. CASE Purging(w)
      BY <1>0, <1>5, <2>1, <2>2, <2>3, <2>4, <2>5 DEF Keeps, TypeInv
    <2>6. CASE ~Purging(w)
      <3>1. k.pc = "load" /\ k.todo = j.todo /\ k.name = j.name
        BY <1>5, <2>1, <2>6 DEF Jobs
      <3>2. Touches(k) = j.todo
        BY <3>1 DEF Touches
      <3>3. j.todo = {j.name} /\ m = j.name
        BY <2>1, <2>6 DEF ShapeOK, Purging
      <3> QED
        BY <2>1, <2>2, <2>3, <2>4, <2>6, <3>1, <3>2, <3>3 DEF Keeps, TypeInv
    <2> QED
      BY <2>5, <2>6
  <1>6. CASE LoadIndex(w) /\ k = [j EXCEPT !.pc = "save", !.copy = Edited(w)]
    <2>1. j \in Jobs /\ Touches(j) = j.todo /\ j.pc = "load"
      BY <1>0, <1>6 DEF LoadIndex, Working
    <2>2. k.pc = "save" /\ k.todo = j.todo /\ k.name = j.name /\ k.entry = j.entry
      BY <1>6, <2>1 DEF Jobs
    <2>3. Touches(k) = j.todo
      BY <2>2 DEF Touches
    <2>4. UNCHANGED <<stored, index, settled>>
      BY <1>6 DEF LoadIndex
    <2> QED
      BY <2>1, <2>2, <2>3, <2>4 DEF Keeps
  <1>7. CASE (NothingToDelete(w) \/ SaveIndex(w)) /\ k = AfterIndex(w)
    <2>1. j \in Jobs /\ ShapeOK(j) /\ Touches(j) = j.todo /\ j.pc \in {"load", "save"}
      BY <1>0, <1>7 DEF NothingToDelete, SaveIndex, Working
    <2>2. j.name \in Names /\ j.name \in j.todo
      BY <2>1 DEF ShapeOK
    <2>3. UNCHANGED <<stored, settled>>
      BY <1>7 DEF NothingToDelete, SaveIndex
    <2>4. \A n \in Names : index'[n] = IF n = j.name THEN j.entry ELSE index[n]
      <3>1. CASE NothingToDelete(w)
        BY <3>1 DEF NothingToDelete
      <3>2. CASE SaveIndex(w)
        <4>1. index' = [index EXCEPT ![j.name] = j.entry]
          BY <3>2 DEF SaveIndex, MutexInv, Edited
        <4> QED
          BY <4>1 DEF TypeInv
      <3> QED
        BY <1>7, <3>1, <3>2
    <2>5. Touches(k) = j.todo \ {j.name} /\ k.pc \notin {"load", "save"}
      <3>1. CASE Purging(w)
        <4>1. k.pc = "remove" /\ k.todo = j.todo \ {j.name}
          BY <1>7, <2>1, <3>1 DEF AfterIndex, Jobs
        <4> QED
          BY <4>1 DEF Touches
      <3>2. CASE ~Purging(w)
        <4>1. j.todo = {j.name}
          BY <2>1, <3>2 DEF ShapeOK, Purging
        <4> QED
          BY <1>0, <1>7, <3>2, <4>1 DEF AfterIndex
      <3> QED
        BY <3>1, <3>2
    <2> QED
      BY <2>1, <2>2, <2>3, <2>4, <2>5 DEF Keeps
  <1>8. CASE IndexFails(w) /\ k = Idle
    <2>1. Touches(j) = j.todo
      BY <1>0, <1>8 DEF IndexFails, Working
    <2>2. \A n \in Names : settled'[n] <=> settled[n] /\ n \notin j.todo
      BY <1>1, <1>8 DEF IndexFails
    <2>3. UNCHANGED <<stored, index>>
      BY <1>8 DEF IndexFails
    <2> QED
      BY <1>0, <1>8, <2>1, <2>2, <2>3 DEF Keeps
  <1>9. ASSUME UNCHANGED <<stored, index, settled>>, Touches(j) = {}, k.pc \notin {"load", "save"}
        PROVE  Keeps(w, k)
    BY <1>9 DEF Keeps
  <1>10. CASE Purged(w) /\ k = (IF j.list THEN [j EXCEPT !.pc = "collect"] ELSE Idle)
    <2>1. j \in Jobs /\ Touches(j) = {}
      BY <1>0, <1>10 DEF Purged, Working
    <2>2. k.pc \notin {"load", "save"}
      BY <1>0, <1>10, <2>1 DEF Jobs
    <2> QED
      BY <1>9, <1>10, <2>1, <2>2 DEF Purged
  <1>11. CASE Collect(w) /\ k = Collected(w)
    <2>1. Touches(j) = {}
      BY <1>0, <1>11 DEF Collect, Working, ShapeOK
    <2>2. k.pc = "listed"
      BY <1>11 DEF Collected
    <2> QED
      BY <1>9, <1>11, <2>1, <2>2 DEF Collect
  <1>12. CASE Listed(w) /\ k = Idle
    <2>1. Touches(j) = {}
      BY <1>0, <1>12 DEF Listed, Working
    <2> QED
      BY <1>0, <1>9, <1>12, <2>1 DEF Listed
  <1>13. Becomes(w, k)
    BY StepKinds
  <1> QED
    BY <1>2, <1>3, <1>4, <1>5, <1>6, <1>7, <1>8, <1>10, <1>11, <1>12, <1>13, Zenon DEF Becomes
LEMMA SettledStep ==
    ASSUME TypeInv, MutexInv, SettledInv, [Next]_vars
    PROVE  SettledInv'
  <1> DEFINE Goal == SettledInv'
  <1>0. /\ job \in [Workers -> AllJobs]
        /\ Touches(Idle) = {} /\ Idle.pc = "idle"
        /\ \A u \in Workers : job[u].pc \in {"load", "save"} => job[u].name \in Touches(job[u])
    <2>1. job \in [Workers -> AllJobs] /\ Touches(Idle) = {} /\ Idle.pc = "idle"
      BY DEF TypeInv, JobsOK, Touches, Idle
    <2>2. ASSUME NEW u \in Workers, job[u].pc \in {"load", "save"} PROVE job[u].name \in Touches(job[u])
      <3>1. Working(job[u])
        BY <2>2 DEF Working
      <3> QED
        BY <2>2, <3>1, JobFacts DEF ShapeOK
    <2> QED
      BY <2>1, <2>2
  \* It is enough to show these of one name.
  <1>1. SUFFICES ASSUME NEW n \in Names, settled'[n]
                 PROVE  /\ \A u, w \in Workers : n \in Touches(job'[u]) /\ n \in Touches(job'[w]) => u = w
                        /\ (\A u \in Workers : n \notin Touches(job'[u])) => index'[n] = stored'[n]
                        /\ \A u \in Workers : job'[u].pc \in {"load", "save"} /\ job'[u].name = n
                                              => stored'[n] = job'[u].entry
    BY DEF SettledInv, Settled, Touched, Touches, Working
  <1> DEFINE One == \A u, w \in Workers : n \in Touches(job'[u]) /\ n \in Touches(job'[w]) => u = w
             Same == (\A u \in Workers : n \notin Touches(job'[u])) => index'[n] = stored'[n]
             Between == \A u \in Workers : job'[u].pc \in {"load", "save"} /\ job'[u].name = n
                                          => stored'[n] = job'[u].entry
             Old == /\ \A u, w \in Workers : n \in Touches(job[u]) /\ n \in Touches(job[w]) => u = w
                    /\ (\A u \in Workers : n \notin Touches(job[u])) => index[n] = stored[n]
                    /\ \A u \in Workers : job[u].pc \in {"load", "save"} /\ job[u].name = n
                                         => stored[n] = job[u].entry
  <1>2. settled[n] => Old
    BY DEF SettledInv, Settled, Touched, Working
  <1>3. CASE UNCHANGED <<job, index, stored, settled>>
    BY <1>1, <1>2, <1>3
  <1>4. CASE \E w \in Workers : Step(w)
    <2>1. PICK w \in Workers : Step(w)
      BY <1>4
    <2>2. PICK k : StepTo(w, k) /\ GoesOn(job[w], k)
      BY <2>1, StepJob DEF StepTo
    <2>3. \A u \in Workers : job'[u] = IF u = w THEN k ELSE job[u]
      BY <1>0, <2>2 DEF StepTo
    <2>4. Keeps(w, k)
      BY <2>2, StepKeeps
    <2>5. settled[n] /\ Old
      BY <1>1, <1>2, <2>4 DEF Keeps
    <2>6. Touches(k) \subseteq Touches(job[w])
      <3>1. CASE Working(k)
        <4>1. k # Idle
          BY <1>0, <3>1 DEF Working
        <4>2. Working(job[w]) /\ k.todo \subseteq job[w].todo
          BY <2>2, <3>1, <4>1 DEF GoesOn
        <4> QED
          BY <3>1, <4>2 DEF Touches, Working
      <3>2. CASE ~Working(k)
        BY <3>2 DEF Touches, Working
      <3> QED
        BY <3>1, <3>2
    <2>7. One
      BY <2>3, <2>5, <2>6
    <2>8. Same
      <3>1. SUFFICES ASSUME \A u \in Workers : n \notin Touches(job'[u]) PROVE index'[n] = stored'[n]
        OBVIOUS
      <3>2. n \notin Touches(k) /\ \A u \in Workers : u # w => n \notin Touches(job[u])
        BY <2>3, <3>1
      <3>3. CASE n \in Touches(job[w])
        <4>1. /\ job[w].pc \in {"load", "save"} /\ job[w].name = n
              /\ index'[n] = job[w].entry /\ stored' = stored
          BY <1>1, <2>4, <3>2, <3>3 DEF Keeps
        <4> QED
          BY <2>5, <4>1
      <3>4. CASE n \notin Touches(job[w])
        <4>1. stored'[n] = stored[n] /\ index'[n] = index[n]
          BY <2>4, <3>4 DEF Keeps
        <4>2. \A u \in Workers : n \notin Touches(job[u])
          BY <3>2, <3>4
        <4> QED
          BY <2>5, <4>1, <4>2
      <3> QED
        BY <3>3, <3>4
    <2>9. Between
      <3>1. SUFFICES ASSUME NEW u \in Workers, job'[u].pc \in {"load", "save"}, job'[u].name = n
                     PROVE  stored'[n] = job'[u].entry
        OBVIOUS
      <3>2. CASE u = w
        <4>1. \/ stored'[n] = k.entry
              \/ job[w].pc = "load" /\ job[w].name = n /\ job[w].entry = k.entry /\ stored' = stored
          BY <1>1, <2>3, <2>4, <3>1, <3>2 DEF Keeps
        <4> QED
          BY <2>3, <2>5, <3>2, <4>1
      <3>3. CASE u # w
        <4>1. job'[u] = job[u]
          BY <2>3, <3>3
        <4>2. n \in Touches(job[u])
          BY <1>0, <3>1, <4>1
        <4>3. n \notin Touches(job[w])
          BY <2>5, <3>3, <4>2
        <4>4. stored'[n] = stored[n]
          BY <2>4, <4>3 DEF Keeps
        <4> QED
          BY <2>5, <3>1, <4>1, <4>4
      <3> QED
        BY <3>2, <3>3
    <2> QED
      BY <2>7, <2>8, <2>9
  \* A method begins on names that are settled if nothing else is to change them.
  <1>5. ASSUME NEW w \in Workers, NEW k, job[w] = Idle, job' = [job EXCEPT ![w] = k],
               UNCHANGED <<stored, index>>,
               n \in Touches(k) => ~Touched(n),
               n \notin Touches(k) => settled[n],
               k.pc \in {"load", "save"} => k.name \in Touches(k) /\ stored[k.name] = k.entry
        PROVE  One /\ Same /\ Between
    <2>1. \A u \in Workers : job'[u] = IF u = w THEN k ELSE job[u]
      BY <1>0, <1>5
    <2>2. n \notin Touches(job[w])
      BY <1>0, <1>5
    <2>3. CASE n \in Touches(k)
      <3>1. \A u \in Workers : n \notin Touches(job[u])
        BY <1>5, <2>3 DEF Touched
      <3>2. One /\ Same
        BY <2>1, <2>3, <3>1
      <3>3. Between
        BY <1>0, <1>5, <2>1, <3>1
      <3> QED
        BY <3>2, <3>3
    <2>4. CASE n \notin Touches(k)
      <3>1. Old
        BY <1>2, <1>5, <2>4
      <3>2. One
        BY <2>1, <2>4, <3>1
      <3>3. Same
        BY <1>5, <2>1, <2>2, <3>1
      <3>4. Between
        BY <1>5, <2>1, <2>4, <3>1
      <3> QED
        BY <3>2, <3>3, <3>4
    <2> QED
      BY <2>3, <2>4
  <1>6. CASE \E w \in Workers, m \in Names, v \in Values, until \in Dates \cup {Never} : Put(w, m, v, until)
    <2>1. PICK w \in Workers, m \in Names, v \in Values, until \in Dates \cup {Never} : Put(w, m, v, until)
      BY <1>6
    <2>2. PICK k : BeginsChange(w, k, m) /\ k.pc = "store"
      BY <2>1, PutJob
    <2>3. settled' = [settled EXCEPT ![m] = ~Touched(m)]
      BY <2>1 DEF Put
    <2>4. Touches(k) = {m}
      BY <2>2 DEF BeginsChange, Touches, Working
    <2>5. (n = m => ~Touched(n)) /\ (n # m => settled[n])
      BY <1>1, <2>3 DEF TypeInv
    <2> QED
      BY <1>5, <2>2, <2>4, <2>5 DEF BeginsChange
  <1>7. CASE \E w \in Workers, m \in Names : Delete(w, m)
    <2>1. PICK w \in Workers, m \in Names : Delete(w, m)
      BY <1>7
    <2>2. PICK k : BeginsChange(w, k, m) /\ k.pc = "remove"
      BY <2>1, DeleteJob
    <2>3. settled' = [settled EXCEPT ![m] = ~Touched(m)]
      BY <2>1 DEF Delete
    <2>4. Touches(k) = {m}
      BY <2>2 DEF BeginsChange, Touches, Working
    <2>5. (n = m => ~Touched(n)) /\ (n # m => settled[n])
      BY <1>1, <2>3 DEF TypeInv
    <2> QED
      BY <1>5, <2>2, <2>4, <2>5 DEF BeginsChange
  <1>8. CASE \E w \in Workers, m \in Names : GetCleansUp(w, m)
    <2>1. PICK w \in Workers, m \in Names : GetCleansUp(w, m)
      BY <1>8
    <2>2. PICK k : BeginsChange(w, k, m) /\ k.kind = "get" /\ (k.pc = "load" => stored[m] = None)
      BY <2>1, GetJob
    <2>3. settled' = [settled EXCEPT ![m] = settled[m] /\ ~Touched(m)]
      BY <2>1 DEF GetCleansUp
    <2>4. Touches(k) = {m}
      BY <2>2 DEF BeginsChange, Touches, Working
    <2>5. (n = m => ~Touched(n)) /\ (n # m => settled[n])
      BY <1>1, <2>3 DEF TypeInv
    <2>6. k.pc # "save" /\ k.name = m /\ k.entry = None
      BY <2>2 DEF BeginsChange, ShapeOK
    <2> QED
      BY <1>5, <2>2, <2>4, <2>5, <2>6 DEF BeginsChange
  <1>9. CASE \E w \in Workers, list \in BOOLEAN : PurgeExpired(w, list)
    <2>1. PICK w \in Workers, list \in BOOLEAN : PurgeExpired(w, list)
      BY <1>9
    <2>2. PICK k : /\ Working(k) /\ k.pc = "remove" /\ k.todo = Overdue
                   /\ job[w] = Idle /\ job' = [job EXCEPT ![w] = k]
                   /\ UNCHANGED <<clock, session, stored, index>>
      BY <2>1, PurgeJob
    <2>3. settled'[n] = IF n \in Overdue THEN settled[n] /\ ~Touched(n) ELSE settled[n]
      BY <2>1 DEF PurgeExpired
    <2>4. Touches(k) = Overdue
      BY <2>2 DEF Touches
    <2> QED
      BY <1>1, <1>5, <2>2, <2>3, <2>4
  <1>10. CASE \E p \in Processes : Exit(p)
    <2>1. PICK p \in Processes : Exit(p)
      BY <1>10
    <2> DEFINE lost == {w \in Workers : ProcessOf[w] = p}
    <2>2. settled'[n] <=> settled[n] /\ n \notin UNION {Touches(job[w]) : w \in lost}
      BY <2>1 DEF Exit, Unsettle
    <2>3. \A u \in Workers : job'[u] = IF u \in lost THEN Idle ELSE job[u]
      BY <2>1 DEF Exit
    <2>4. UNCHANGED <<stored, index>>
      BY <2>1 DEF Exit
    <2>5. \A u \in lost : n \notin Touches(job[u])
      BY <1>1, <2>2
    <2>6. \A u \in Workers : n \in Touches(job'[u]) <=> n \in Touches(job[u])
      BY <1>0, <2>3, <2>5
    <2>7. Old
      BY <1>1, <1>2, <2>2
    <2>8. One /\ Same
      BY <2>4, <2>6, <2>7
    <2>9. Between
      BY <1>0, <2>3, <2>4, <2>7
    <2> QED
      BY <2>8, <2>9
  <1>11. CASE UNCHANGED vars \/ Tick \/ \E w \in Workers, m \in Names, v \in Values : PutSession(w, m, v)
    BY <1>3, <1>11 DEF vars, Tick, PutSession
  <1> QED
    BY <1>4, <1>6, <1>7, <1>8, <1>9, <1>10, <1>11, StepCases, Zenon

\* With one process, the index says what the backend holds, and Stat what Get
\* finds, of every name that is not being changed and whose last change was
\* neither interleaved with another nor cut short: whatever calls fail in
\* between, and for any number of goroutines and names (Manager "keeps the local
\* index in step with what was stored", manager.go:11-13).
THEOREM IndexKeepsInStep == ASSUME SingleProcess PROVE Spec => []InStep
  <1>1. Init => TypeInv /\ MutexInv /\ SettledInv
    <2> SUFFICES ASSUME Init PROVE MutexInv /\ SettledInv
      BY BoundsAssumption DEF Init, TypeInv, JobsOK, AllJobs, SessionOK, Held, Idle, Working
    <2>1. \A w \in Workers : job[w].pc = "idle" /\ Touches(job[w]) = {}
      BY DEF Init, Idle, Touches
    <2> QED
      BY <2>1 DEF Init, MutexInv, SettledInv, Settled
  <1>2. TypeInv /\ MutexInv /\ SettledInv /\ [Next]_vars => (TypeInv /\ MutexInv /\ SettledInv)'
    BY TypeStep, MutexStep, SettledStep
  <1>3. SettledInv => InStep
    <2> SUFFICES ASSUME SettledInv, NEW n \in Names, settled[n], ~Touched(n)
                 PROVE  index[n] = stored[n] /\ \A p \in Processes : Stat(p, n) = Get(p, n)
      BY DEF InStep
    <2>1. index[n] = stored[n]
      BY DEF SettledInv, Settled
    <2> QED
      BY <2>1 DEF Stat, Get
  <1> QED
    BY <1>1, <1>2, <1>3, PTL DEF Spec
============================================================================
