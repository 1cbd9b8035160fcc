-------------------------- MODULE ReplicatedStore --------------------------
(***************************************************************************)
(* What is left of the slot contract (SlotStore) when several relays serve *)
(* one set of slots and their clocks are ahead of the store's by up to     *)
(* Slack: a slot may be given that much more time and may lose that much   *)
(* of it, yet nothing is accepted or handed out after its expiry, and a    *)
(* slot still only goes forward and is read once.                          *)
(***************************************************************************)
EXTENDS SlotStore

CONSTANT Slack  \* no clock is further ahead

\* The expiry is the sum of a relay's clock and the lifetime.
CreateAhead(id, kind, n, ttl, ahead) ==
    /\ slot[id].state = "fresh"
    /\ n > 0 <=> kind = "reveal"
    /\ slot' = [slot EXCEPT ![id] =
                  [kind |-> kind, state |-> "created", held |-> n, expires |-> now + ahead + ttl]]
    /\ UNCHANGED <<now, handed>>

\* A relay whose clock is ahead expires a slot that others would still serve.
ExpireAhead(id) ==
    /\ Live(id) /\ now + Slack >= slot[id].expires
    /\ slot' = [slot EXCEPT ![id].state = "expired", ![id].held = 0]
    /\ UNCHANGED <<now, handed>>

\* A slot is forgotten after its grace period; one that no relay expired
\* before, too.
ForgetAhead(id) ==
    /\ slot[id].state \in LiveStates \cup TerminalStates
    /\ now + Slack >= slot[id].expires + Grace
    /\ slot' = [slot EXCEPT ![id] = Unknown("forgotten")]
    /\ UNCHANGED <<now, handed>>

ReplicatedNext ==
    \/ Advance
    \/ \E id \in Ids :
          \/ \E kind \in Kinds, n \in Sizes \cup {0}, ttl \in TTLs, ahead \in 0..Slack :
                CreateAhead(id, kind, n, ttl, ahead)
          \/ \E n \in Sizes : Upload(id, n)
          \/ \E final \in {"fetched", "opened"} : Take(id, final)
          \/ Revoke(id)
          \/ ExpireAhead(id)
          \/ ForgetAhead(id)

ReplicatedSpec == Init /\ [][ReplicatedNext]_vars
============================================================================
