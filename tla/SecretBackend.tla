---------------------------- MODULE SecretBackend ----------------------------
(***************************************************************************)
(* What the interface Backend (internal/storage/backend.go) promises the   *)
(* Manager of any backend, whatever calls and files it is made of: a Get   *)
(* answers with the last value stored, or, while calls overlap or after    *)
(* one failed, with a value one of them was storing, never with one that   *)
(* was replaced or removed, and a change to one name never shows in        *)
(* another's.  A backend that keeps a value in several entries may answer  *)
(* with an error, or with pieces of two values, where a call was torn.     *)
(***************************************************************************)
EXTENDS BackendCalls

VARIABLE answer    \* what a Get of each name would answer now

vars == <<backend, call, allowed, answer>>

\* At most one name's answer changes in a step, and to an allowed one.
Changes ==
    \E n \in Names, a \in Gets : a \in allowed'[n] /\ answer' = [answer EXCEPT ![n] = a]

Init ==
    /\ answer \in [Names -> Gets]
    /\ CallsInit(Kinds, answer)

Begin(w) ==
    \E n \in Names, v \in Answers, torn \in {{}, {Absent, Mixed}} : Enter(w, n, v, torn) /\ UNCHANGED answer

\* The answer is an allowed one when the call returns, too.
End(w) ==
    /\ \E settled \in BOOLEAN : Return(w, settled)
    /\ Changes
    /\ answer'[call[w].name] \in allowed'[call[w].name]

Step == Changes /\ UNCHANGED callVars

\* An operator deletes a secret at the vendor, or a key is lost.
Outside(n) == Removed(n) /\ answer' = [answer EXCEPT ![n] = Absent]

Next ==
    \/ \E w \in Workers : Begin(w) \/ End(w)
    \/ Step
    \/ \E n \in Names : Outside(n)

Spec == Init /\ [][Next]_vars
============================================================================
