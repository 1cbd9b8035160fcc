--------------------------- MODULE StorageManager ---------------------------
(***************************************************************************)
(* The storage manager, internal/storage/manager.go, with its session      *)
(* storage (memory.go), a persistent backend and the index file            *)
(* (index.go).                                                             *)
(*                                                                         *)
(* A method changes the backend and the index one after the other.  The    *)
(* index file is read, changed and written back under a mutex, which is    *)
(* the process's own; any number of processes may use the file.  A backend *)
(* call is one step that may fail, with or without its effect.  Get is     *)
(* modelled from the read that decided it: a Get that finds a value that   *)
(* has not expired changes nothing.  Session values have no expiry         *)
(* (ParseRetention), so the code that handles expired ones is never used.  *)
(***************************************************************************)
EXTENDS Integers, FiniteSets

CONSTANTS
    Processes,  \* programs that share the backend and the index file
    Workers,    \* goroutines
    ProcessOf,  \* the process of each worker
    Names,
    Values,
    Dates,      \* what until:<date> policies may name
    None,       \* no entry
    Horizon,    \* bound on the clock
    MaxCalls    \* bound on the calls the workers make

Never == 0

ASSUME ProcessAssumption == ProcessOf \in [Workers -> Processes]
ASSUME DatesAssumption == Dates \subseteq Nat \ {Never}
ASSUME BoundsAssumption == Horizon \in Nat /\ MaxCalls \in Nat

VARIABLES
    clock,      \* Manager.now, in seconds
    session,    \* the values each process keeps for its session
    stored,     \* the persistent backend: value and metadata
    index,      \* the index file: metadata
    job,        \* the method each worker is in
    settled,    \* history: names the last change of which was neither
                \* interrupted nor interleaved with another
    started     \* how many calls have been made

vars == <<clock, session, stored, index, job, settled, started>>

Entries == [value : Values, expires : Dates \cup {Never}]

\* Metadata.Expired.
Expired(e, t) == e # None /\ e.expires # Never /\ t >= e.expires

Idle == [pc |-> "idle"]

\* The names a method in progress has yet to change.
Touches(j) == IF j.pc \in {"idle", "listed"} THEN {} ELSE j.todo

Touched(n) == \E w \in Workers : n \in Touches(job[w])

\* Memory.Get, then Backend.Get: what Get answers, and Stat from the index.
Get(p, n) ==
    IF session[p][n] # None THEN session[p][n]
    ELSE IF Expired(stored[n], clock) THEN None ELSE stored[n]
Stat(p, n) ==
    IF session[p][n] # None THEN session[p][n]
    ELSE IF Expired(index[n], clock) THEN None ELSE index[n]

Init ==
    /\ clock = 0
    /\ session = [p \in Processes |-> [n \in Names |-> None]]
    /\ stored \in [Names -> Entries \cup {None}]
    /\ index = stored
    /\ job = [w \in Workers |-> Idle]
    /\ settled = [n \in Names |-> TRUE]
    /\ started = 0

Tick ==
    /\ clock < Horizon
    /\ clock' = clock + 1
    /\ UNCHANGED <<session, stored, index, job, settled, started>>

----------------------------------------------------------------------------
(* Methods begin.                                                          *)

Begin(w, j) ==
    /\ started < MaxCalls /\ started' = started + 1
    /\ job[w] = Idle
    /\ job' = [job EXCEPT ![w] = j]

\* A method that changes one name, or each of the names it purges.
Change(kind, pc, n, e) ==
    [kind |-> kind, pc |-> pc, todo |-> {n}, name |-> n, entry |-> e, copy |-> None,
     list |-> FALSE, start |-> 0, busy |-> {}]
Purge(pc, names, list) ==
    [kind |-> "purge", pc |-> pc, todo |-> names, name |-> None, entry |-> None, copy |-> None,
     list |-> list, start |-> clock, busy |-> {n \in Names : Touched(n)}]

\* Put with the retention session: memory only, one step.
PutSession(w, n, v) ==
    /\ started < MaxCalls /\ started' = started + 1
    /\ job[w] = Idle
    /\ session' = [session EXCEPT ![ProcessOf[w]][n] = [value |-> v, expires |-> Never]]
    /\ UNCHANGED <<clock, stored, index, job, settled>>

\* Put: ParseRetention refuses a date that is not in the future.
Put(w, n, v, until) ==
    /\ until = Never \/ until > clock
    /\ Begin(w, Change("put", "store", n, [value |-> v, expires |-> until]))
    /\ settled' = [settled EXCEPT ![n] = ~Touched(n)]
    /\ UNCHANGED <<clock, session, stored, index>>

\* Delete: session storage first.
Delete(w, n) ==
    /\ Begin(w, Change("delete", "remove", n, None))
    /\ session' = [session EXCEPT ![ProcessOf[w]][n] = None]
    /\ settled' = [settled EXCEPT ![n] = ~Touched(n)]
    /\ UNCHANGED <<clock, stored, index>>

\* Get of a name the backend has no value for, or an expired one.
GetCleansUp(w, n) ==
    /\ session[ProcessOf[w]][n] = None
    /\ stored[n] = None \/ Expired(stored[n], clock)
    /\ Begin(w, Change("get", IF stored[n] = None THEN "load" ELSE "remove", n, None))
    /\ settled' = [settled EXCEPT ![n] = @ /\ ~Touched(n)]
    /\ UNCHANGED <<clock, session, stored, index>>

Overdue == {n \in Names : Expired(index[n], clock)}

\* Mutant: List takes the index as it is.
PurgeExpired_ListSkips(w, list) ==
    /\ Begin(w, IF list THEN Purge("collect", {}, list) ELSE Purge("remove", Overdue, list))
    /\ settled' = [n \in Names |-> IF n \in Overdue THEN settled[n] /\ ~Touched(n) ELSE settled[n]]
    /\ UNCHANGED <<clock, session, stored, index>>

\* PurgeExpired, alone or as the first half of List: reads the index.
PurgeExpired(w, list) ==
    /\ Begin(w, Purge("remove", Overdue, list))
    /\ settled' = [n \in Names |-> IF n \in Overdue THEN settled[n] /\ ~Touched(n) ELSE settled[n]]
    /\ UNCHANGED <<clock, session, stored, index>>

----------------------------------------------------------------------------
(* Methods go on.                                                          *)

Go(w, j) == job' = [job EXCEPT ![w] = j] /\ UNCHANGED <<clock, session, started>>
At(w, pc) == Go(w, [job[w] EXCEPT !.pc = pc])

\* The method returns, with or without an error.
Returns(w) == Go(w, Idle)

Unsettle(names) == settled' = [n \in Names |-> settled[n] /\ n \notin names]

\* persistent.Put.
Store(w) ==
    /\ job[w].pc = "store"
    /\ stored' = [stored EXCEPT ![job[w].name] = job[w].entry]
    /\ At(w, "load")
    /\ UNCHANGED <<index, settled>>

\* persistent.Put returns an error: the value may have been stored.
StoreFails(w) ==
    /\ job[w].pc = "store"
    /\ \E e \in {stored[job[w].name], job[w].entry} :
          stored' = [stored EXCEPT ![job[w].name] = e]
    /\ Unsettle(job[w].todo)
    /\ Returns(w)
    /\ UNCHANGED index

Purging(w) == job[w].kind = "purge"

\* persistent.Delete; nothing there is ErrNotFound, which nobody minds.
Remove(w) ==
    /\ job[w].pc = "remove"
    /\ \E n \in job[w].todo :
          /\ stored' = [stored EXCEPT ![n] = None]
          /\ Go(w, [job[w] EXCEPT !.pc = "load", !.name = n])
    /\ UNCHANGED <<index, settled>>

\* persistent.Delete fails: PurgeExpired stops there, Get and Delete go on and
\* remove the name from the index all the same.
RemoveFails(w) ==
    /\ job[w].pc = "remove"
    /\ \E n \in job[w].todo : \E e \in {stored[n], None} :
          /\ stored' = [stored EXCEPT ![n] = e]
          /\ Unsettle(IF Purging(w) THEN job[w].todo ELSE {n})
    /\ IF Purging(w) THEN Returns(w) ELSE At(w, "load")
    /\ UNCHANGED index

\* No other goroutine of the process holds the index's mutex.
Free(w) ==
    \A u \in Workers : ProcessOf[u] = ProcessOf[w] => job[u].pc # "save"

\* The index is as it should be: PurgeExpired takes its next name.
IndexDone(w) ==
    Go(w, IF Purging(w)
          THEN [job[w] EXCEPT !.pc = "remove", !.todo = @ \ {job[w].name}, !.name = None, !.copy = None]
          ELSE Idle)

\* What Index.Put and Index.Delete make of the file as it is now.
Edited(w) == [index EXCEPT ![job[w].name] = job[w].entry]

\* Mutant: another goroutine may be between its load and its save.
LoadIndex_NoMutex(w) ==
    /\ job[w].pc = "load"
    /\ job[w].entry # None \/ index[job[w].name] # None
    /\ Go(w, [job[w] EXCEPT !.pc = "save", !.copy = Edited(w)])
    /\ UNCHANGED <<stored, index, settled>>

\* Index.Put and Index.Delete load the file and change what they loaded.
LoadIndex(w) ==
    /\ job[w].pc = "load" /\ Free(w)
    /\ job[w].entry # None \/ index[job[w].name] # None
    /\ Go(w, [job[w] EXCEPT !.pc = "save", !.copy = Edited(w)])
    /\ UNCHANGED <<stored, index, settled>>

\* Index.Delete of a name the file does not have writes nothing.
NothingToDelete(w) ==
    /\ job[w].pc = "load" /\ Free(w)
    /\ job[w].entry = None /\ index[job[w].name] = None
    /\ IndexDone(w)
    /\ UNCHANGED <<stored, index, settled>>

\* Index.save, by writeFileAtomic.
SaveIndex(w) ==
    /\ job[w].pc = "save"
    /\ index' = job[w].copy
    /\ IndexDone(w)
    /\ UNCHANGED <<stored, settled>>

\* The file cannot be read or written.
IndexFails(w) ==
    /\ job[w].pc \in {"load", "save"} /\ (job[w].pc = "load" => Free(w))
    /\ Unsettle(job[w].todo)
    /\ Returns(w)
    /\ UNCHANGED <<stored, index>>

\* PurgeExpired is done; List goes on to read the session's names and the index.
Purged(w) ==
    /\ job[w].pc = "remove" /\ Purging(w) /\ job[w].todo = {}
    /\ IF job[w].list THEN At(w, "collect") ELSE Returns(w)
    /\ UNCHANGED <<stored, index, settled>>

Collect(w) ==
    LET p == ProcessOf[w] IN
    /\ job[w].pc = "collect" /\ Free(w)
    /\ Go(w, [pc |-> "listed", start |-> job[w].start, busy |-> job[w].busy,
              out |-> [n \in Names |-> IF session[p][n] # None THEN session[p][n] ELSE index[n]]])
    /\ UNCHANGED <<stored, index, settled>>

Listed(w) ==
    /\ job[w].pc = "listed"
    /\ Returns(w)
    /\ UNCHANGED <<stored, index, settled>>

\* The process ends, orderly (Close) or not: session values are gone, and so
\* is what its methods had yet to do.
Exit(p) ==
    LET lost == {w \in Workers : ProcessOf[w] = p} IN
    /\ session' = [session EXCEPT ![p] = [n \in Names |-> None]]
    /\ job' = [w \in Workers |-> IF w \in lost THEN Idle ELSE job[w]]
    /\ Unsettle(UNION {Touches(job[w]) : w \in lost})
    /\ UNCHANGED <<clock, stored, index, started>>

Starts(w) ==
    \/ \E n \in Names : Delete(w, n) \/ GetCleansUp(w, n)
    \/ \E n \in Names, v \in Values :
          PutSession(w, n, v) \/ \E until \in Dates \cup {Never} : Put(w, n, v, until)
    \/ \E list \in BOOLEAN : PurgeExpired(w, list)

Step(w) ==
    \/ Store(w) \/ StoreFails(w) \/ Remove(w) \/ RemoveFails(w)
    \/ LoadIndex(w) \/ NothingToDelete(w) \/ SaveIndex(w) \/ IndexFails(w)
    \/ Purged(w) \/ Collect(w) \/ Listed(w)

Next ==
    \/ Tick
    \/ \E w \in Workers : Starts(w) \/ Step(w)
    \/ \E p \in Processes : Exit(p)

Spec == Init /\ [][Next]_vars

----------------------------------------------------------------------------

\* The index says what the backend holds, and Stat what Get would find, of
\* every name that is not being changed and whose last change was neither
\* interleaved with another nor cut short (Manager "keeps the local index in
\* step with what was stored", manager.go:11-13).
InStep ==
    \A n \in Names :
       settled[n] /\ ~Touched(n)
       => index[n] = stored[n] /\ \A p \in Processes : Stat(p, n) = Get(p, n)

\* A List that returns has nothing that was over when it began, except what a
\* Put under way since then has entered (manager.go:149-150, "with expired
\* entries purged first").
ListFresh ==
    \A w \in Workers : job[w].pc = "listed" =>
       \A n \in Names \ job[w].busy : ~Expired(job[w].out[n], job[w].start)

TypeOK ==
    /\ clock \in 0..Horizon
    /\ session \in [Processes -> [Names -> Entries \cup {None}]]
    /\ stored \in [Names -> Entries \cup {None}]
    /\ index \in [Names -> Entries \cup {None}]
    /\ settled \in [Names -> BOOLEAN]
    /\ \A w \in Workers : Touches(job[w]) \subseteq Names
============================================================================
