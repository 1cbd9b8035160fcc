----------------------------- MODULE SlotStore -----------------------------
(***************************************************************************)
(* What internal/relay/store.go promises of every slot store, whatever     *)
(* keeps the slots: a slot is a one-way state machine, its ciphertext is   *)
(* handed out at most once and only before its expiry, and a slot is       *)
(* forgotten only as a tombstone whose grace period is over.  Token and    *)
(* commitment checks, capacity limits, locks, timers, sweeps and long      *)
(* polls belong to the implementations, which are shown to implement this. *)
(***************************************************************************)
EXTENDS Integers

CONSTANTS
    Ids,     \* slot identifiers, each drawn at most once (crypto.RandomToken)
    Sizes,   \* lengths a ciphertext may have
    TTLs,    \* lifetimes a slot may be given
    Grace    \* StoreOptions.TombstoneGrace

VARIABLES
    now,     \* the store's clock, StoreOptions.Now
    slot,    \* what the store knows of each identifier
    handed   \* how many callers were given the slot's ciphertext

vars == <<now, slot, handed>>

Kinds == {"drop", "reveal"}
LiveStates == {"created", "uploaded"}
TerminalStates == {"fetched", "opened", "revoked", "expired"}
\* An identifier the store has no slot for: not drawn yet, or deleted again.
UnknownStates == {"fresh", "forgotten"}

Unknown(s) == [kind |-> "drop", state |-> s, held |-> 0, expires |-> 0]

Live(id) == slot[id].state \in LiveStates

\* The caller's clock has reached the slot's expiry: it counts as expired on
\* every call, whether or not a sweep has come by.
Due(id) == now >= slot[id].expires

Init ==
    /\ now = 0
    /\ slot = [id \in Ids |-> Unknown("fresh")]
    /\ handed = [id \in Ids |-> 0]

Advance ==
    /\ now' = now + 1
    /\ UNCHANGED <<slot, handed>>

\* Create inserts a new slot in state created.  A reveal arrives with its
\* ciphertext, a drop without one.
Create(id, kind, n, ttl) ==
    /\ slot[id].state = "fresh"
    /\ n > 0 <=> kind = "reveal"
    /\ slot' = [slot EXCEPT ![id] =
                  [kind |-> kind, state |-> "created", held |-> n, expires |-> now + ttl]]
    /\ UNCHANGED <<now, handed>>

\* Upload stores the ciphertext of a drop, once.
Upload(id, n) ==
    /\ slot[id].kind = "drop" /\ slot[id].state = "created" /\ ~Due(id)
    /\ slot' = [slot EXCEPT ![id].state = "uploaded", ![id].held = n]
    /\ UNCHANGED <<now, handed>>

\* Fetch and Open return and delete the ciphertext in one step.
Take(id, final) ==
    /\ ~Due(id)
    /\ \/ slot[id].kind = "drop" /\ slot[id].state = "uploaded" /\ final = "fetched"
       \/ slot[id].kind = "reveal" /\ Live(id) /\ final = "opened"
    /\ slot' = [slot EXCEPT ![id].state = final, ![id].held = 0]
    /\ handed' = [handed EXCEPT ![id] = @ + 1]
    /\ UNCHANGED now

Revoke(id) ==
    /\ Live(id) /\ ~Due(id)
    /\ slot' = [slot EXCEPT ![id].state = "revoked", ![id].held = 0]
    /\ UNCHANGED <<now, handed>>

Expire(id) ==
    /\ Live(id) /\ Due(id)
    /\ slot' = [slot EXCEPT ![id].state = "expired", ![id].held = 0]
    /\ UNCHANGED <<now, handed>>

\* Only a tombstone whose grace period is over is forgotten.
Forget(id) ==
    /\ slot[id].state \in TerminalStates
    /\ now >= slot[id].expires + Grace
    /\ slot' = [slot EXCEPT ![id] = Unknown("forgotten")]
    /\ UNCHANGED <<now, handed>>

\* Close releases everything the store holds.
Close ==
    /\ slot' = [id \in Ids |-> IF slot[id].state \in UnknownStates
                               THEN slot[id] ELSE Unknown("forgotten")]
    /\ UNCHANGED <<now, handed>>

Next ==
    \/ Advance
    \/ Close
    \/ \E id \in Ids :
          \/ \E kind \in Kinds, n \in Sizes \cup {0}, ttl \in TTLs : Create(id, kind, n, ttl)
          \/ \E n \in Sizes : Upload(id, n)
          \/ \E final \in {"fetched", "opened"} : Take(id, final)
          \/ Revoke(id)
          \/ Expire(id)
          \/ Forget(id)

Spec == Init /\ [][Next]_vars
============================================================================
