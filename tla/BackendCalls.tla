---------------------------- MODULE BackendCalls ----------------------------
(***************************************************************************)
(* Put and Delete calls on a storage backend (the interface Backend of     *)
(* internal/storage/backend.go), and what a Get may answer because of      *)
(* them.  A caller may be told of a failure after the change was made, so  *)
(* a call that returned an error leaves both the old and the new value     *)
(* possible; a call that returned without one leaves its own value and the *)
(* values of the calls it overlapped.                                      *)
(***************************************************************************)
EXTENDS Integers, FiniteSets

CONSTANTS
    Workers,    \* goroutines, of one or of several processes, that call the backend
    Names,      \* secret names, all of them valid (ValidateName)
    Values,     \* values, each with the metadata it was stored with
    Earlier,    \* those of them that may be stored already at first
    Absent,     \* what a Get of an unknown name answers: ErrNotFound, or no record
    Mixed,      \* what a Get answers that put pieces of two records together
    Kinds,      \* the backends
    Shared      \* the backends every worker uses from a process of its own

VARIABLES
    backend,    \* the backend the configuration names
    call,       \* the Put or Delete each worker is in, NoCall when in none
    allowed     \* what a Get of each name may answer

callVars == <<backend, call, allowed>>

ASSUME AbsentAssumption == Absent \notin Values /\ Mixed \notin Values \cup {Absent}
ASSUME EarlierAssumption == Earlier \subseteq Values
ASSUME NamesAssumption == "none" \notin Names /\ "foreign" \notin Names /\ "none" \notin Workers

Answers == Values \cup {Absent}
Gets == Answers \cup {Mixed}

NoCall == [name |-> "none"]

\* What the calls that are under way on a name may make a Get answer.
InFlight(n) == UNION {call[w].may : w \in {u \in Workers : call[u].name = n}}

CallsInit(kinds, first) ==
    /\ backend \in kinds
    /\ call = [w \in Workers |-> NoCall]
    /\ allowed = [n \in Names |-> {first[n]}]

\* A worker calls Put with a value, or Delete (the value Absent).  A backend
\* that changes several entries for one value may leave the name torn in
\* between and after a failure: what it may answer then.
Enter(w, n, v, torn) ==
    LET may == {v} \cup torn IN
    /\ call[w] = NoCall
    /\ call' = [u \in Workers |->
                  IF u = w THEN [name |-> n, value |-> v, may |-> may, met |-> InFlight(n)]
                  ELSE IF call[u].name = n
                       THEN [call[u] EXCEPT !.met = @ \cup may] ELSE call[u]]
    /\ allowed' = [allowed EXCEPT ![n] = @ \cup may]
    /\ UNCHANGED backend

\* The call returns: settled when its caller may rely on the outcome, that is
\* Put returned no error, or Delete returned none or ErrNotFound.
Return(w, settled) ==
    LET c == call[w] IN
    /\ c # NoCall
    /\ call' = [call EXCEPT ![w] = NoCall]
    /\ allowed' = IF settled THEN [allowed EXCEPT ![c.name] = {c.value} \cup c.met] ELSE allowed
    /\ UNCHANGED backend

\* Something other than this program removed the secret.
Removed(n) ==
    /\ allowed' = [allowed EXCEPT ![n] = @ \cup {Absent}]
    /\ call' = [w \in Workers |-> IF call[w].name = n
                                  THEN [call[w] EXCEPT !.met = @ \cup {Absent}] ELSE call[w]]
    /\ UNCHANGED backend

CallRecords == [name : Names, value : Answers, may : SUBSET Gets, met : SUBSET Gets]
============================================================================
