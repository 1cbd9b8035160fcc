----------------------------- MODULE AgentFlow -----------------------------
(***************************************************************************)
(* The agent, internal/agent/agent.go, with its relay client,              *)
(* internal/client/client.go: request, fetch, send, revoke and delete.     *)
(* Each is a sequence of calls to the relay, to the storage manager and to *)
(* the redactor.  Several are in flight at once, any call may fail, an     *)
(* answer of the relay may be lost after the call had its effect, and the  *)
(* process may stop between any two calls.                                 *)
(*                                                                         *)
(* The relay is its contract (SlotStore) seen from outside, the storage    *)
(* manager one place per name.  A call and the local computation, logging  *)
(* and return that follow it are one step.  Input checks, key pairs, links *)
(* and the reveal password come before the first call of an operation and  *)
(* end it without a trace.                                                 *)
(***************************************************************************)
EXTENDS Integers, FiniteSets

CONSTANTS
    Ids,            \* slot identifiers, each drawn at most once
    Names,          \* names of secrets
    SessionNames,   \* those requested with retention session: kept in memory
    Calls,          \* operations the agent may have in flight at once
    MaxFailures,    \* failed polls in a row that waitWhile puts up with
    Past,           \* the drop by which each name's value came in an earlier run of the agent
    None

ASSUME NamesAssumption == SessionNames \subseteq Names
ASSUME FailuresAssumption == MaxFailures \in Nat
ASSUME NoneAssumption == None \notin Ids \cup Names
ASSUME PastAssumption ==
    /\ Past \in [Names -> Ids \cup {None}]
    /\ \A n \in SessionNames : Past[n] = None

VARIABLES
    slot,       \* the relay's slots
    about,      \* what the agent wrote into a slot's record, or its reveal
    over,       \* slots whose expiry has passed
    record,     \* slots with a pending. or sent. record in storage
    store,      \* the value each name has in storage; a value is the drop it came by
    masked,     \* Redactor: names and values registered
    call,       \* the operations in flight
    given,      \* links that reached the human
    told,       \* history: slots whose end some caller was told of
    kept        \* history: values that reached storage

vars == <<slot, about, over, record, store, masked, call, given, told, kept>>

LiveStates == {"created", "uploaded"}
TerminalStates == {"fetched", "opened", "revoked", "expired"}

\* A slot keeps its state for the properties after the relay has forgotten it.
Slot == [kind : {"drop", "reveal"}, state : {"fresh"} \cup LiveStates \cup TerminalStates,
         known : BOOLEAN,       \* whether the relay has the slot
         \* what the human submitted; a good one decrypts and matches the request
         sent : {"nothing", "good", "bad"},
         by : {"nobody", "agent", "other"}]   \* who fetched it

NewSlot(kind) == [kind |-> kind, state |-> "created", known |-> TRUE,
                  sent |-> "nothing", by |-> "nobody"]

Live(id) == slot[id].known /\ slot[id].state \in LiveStates

\* pendingRecord and sentRecord; copy is the link's statement that the agent
\* keeps its copy.
About == [name : Names \cup {None}, value : Ids \cup {None}, sendable : BOOLEAN, copy : BOOLEAN]
NoAbout == [name |-> None, value |-> None, sendable |-> FALSE, copy |-> TRUE]

Answers == {"expired", "revoked", "already", "elsewhere", "rejected", "stored",
            "unknown", "fetched", "opened"}

PCs == {"idle", "saving", "undoing", "polling", "taking", "storing", "masking", "dropping",
        "sending", "deleting", "revoking", "unmasking"}
Ops == {"none", "request", "fetch", "send", "revoke", "delete"}
Call == [op : Ops, pc : PCs, id : Ids \cup {None}, name : Names \cup {None}, value : Ids \cup {None},
         copy : BOOLEAN, answer : Answers \cup {"none"}, fails : 0 .. MaxFailures]
Idle == [op |-> "none", pc |-> "idle", id |-> None, name |-> None, value |-> None,
         copy |-> TRUE, answer |-> "none", fails |-> 0]

TypeOK ==
    /\ slot \in [Ids -> Slot]
    /\ about \in [Ids -> About]
    /\ over \subseteq Ids
    /\ record \subseteq Ids
    /\ store \in [Names -> Ids \cup {None}]
    /\ masked \subseteq Names \X Ids
    /\ call \in [Calls -> Call]
    /\ given \subseteq Ids
    /\ told \subseteq Ids
    /\ kept \subseteq Ids

\* The agent starts with what earlier runs left in storage: values of drops
\* that are over.
Earlier == {Past[n] : n \in Names} \ {None}
FreshSlot == [NewSlot("drop") EXCEPT !.state = "fresh", !.known = FALSE]
EndedSlot == [NewSlot("drop") EXCEPT !.state = "fetched", !.known = FALSE,
                                     !.sent = "good", !.by = "agent"]
EndedAbout(id) == [name |-> CHOOSE n \in Names : Past[n] = id, value |-> id,
                   sendable |-> TRUE, copy |-> TRUE]

Init ==
    /\ slot = [id \in Ids |-> IF id \in Earlier THEN EndedSlot ELSE FreshSlot]
    /\ about = [id \in Ids |-> IF id \in Earlier THEN EndedAbout(id) ELSE NoAbout]
    /\ over = Earlier /\ given = Earlier /\ told = Earlier /\ kept = Earlier
    /\ record = {} /\ masked = {}
    /\ store = Past
    /\ call = [c \in Calls |-> Idle]

At(c, pc) == call[c].pc = pc
Return(c) == call' = [call EXCEPT ![c] = Idle]
Goto(c, pc) == call' = [call EXCEPT ![c].pc = pc]
\* The operation has its answer and will delete the record before it returns.
Conclude(c, answer) == call' = [call EXCEPT ![c].pc = "dropping", ![c].answer = answer]

relayVars == <<slot, over>>
storageVars == <<record, store>>
historyVars == <<given, told, kept>>

----------------------------------------------------------------------------
(* Request.  heard: the relay's answer arrives.                            *)

RequestCreate(c, id, name, sendable, heard) ==
    /\ At(c, "idle") /\ slot[id].state = "fresh"
    /\ slot' = [slot EXCEPT ![id] = NewSlot("drop")]
    /\ about' = [about EXCEPT ![id] =
                   [name |-> name, value |-> id, sendable |-> sendable, copy |-> TRUE]]
    /\ call' = IF heard THEN [call EXCEPT ![c] = [Idle EXCEPT !.op = "request", !.pc = "saving", !.id = id]]
                        ELSE call
    /\ UNCHANGED <<over, masked>> /\ UNCHANGED storageVars /\ UNCHANGED historyVars

\* savePending or saveSent succeeds; a request, and a send that keeps its copy,
\* return the link.
Save(c) ==
    LET id == call[c].id IN
    /\ At(c, "saving")
    /\ record' = record \cup {id}
    /\ IF call[c].copy THEN Return(c) /\ given' = given \cup {id}
                       ELSE Goto(c, "deleting") /\ UNCHANGED given
    /\ UNCHANGED <<about, store, masked, told, kept>> /\ UNCHANGED relayVars

\* It fails, with the record written when only the index failed (Manager.Put),
\* or the link cannot be built: the slot is revoked.
SaveFails(c, written) ==
    /\ At(c, "saving")
    /\ record' = IF written THEN record \cup {call[c].id} ELSE record
    /\ Goto(c, "undoing")
    /\ UNCHANGED <<about, store, masked>> /\ UNCHANGED relayVars /\ UNCHANGED historyVars

\* The relay's half of a revoke.
RevokedSlot(s) == IF s.known /\ s.state \in LiveStates THEN [s EXCEPT !.state = "revoked"] ELSE s

\* Its answer does not matter; that it is not even sent is CallFails.
Undo(c) ==
    /\ At(c, "undoing")
    /\ slot' = [slot EXCEPT ![call[c].id] = RevokedSlot(@)]
    /\ Return(c)
    /\ UNCHANGED <<about, over, masked>> /\ UNCHANGED storageVars /\ UNCHANGED historyVars

\* A call to the relay fails without effect, or a send's encryption fails:
\* the operation returns an error.
CallFails(c) ==
    /\ call[c].pc \in {"undoing", "taking", "revoking", "sending"}
    /\ Return(c)
    /\ UNCHANGED <<about, masked>> /\ UNCHANGED relayVars /\ UNCHANGED storageVars
    /\ UNCHANGED historyVars

----------------------------------------------------------------------------
(* Fetch.                                                                  *)

\* loadPending, for the given request or the only one pending.
FetchBegin(c, id) ==
    /\ At(c, "idle") /\ id \in record /\ slot[id].kind = "drop"
    /\ call' = [call EXCEPT ![c] = [Idle EXCEPT !.op = "fetch", !.pc = "polling", !.id = id]]
    /\ UNCHANGED <<about, masked>> /\ UNCHANGED relayVars /\ UNCHANGED storageVars
    /\ UNCHANGED historyVars

\* A long poll of WaitForUpload is answered.  Only created keeps it waiting.
Poll(c) ==
    LET s == slot[call[c].id] IN
    /\ At(c, "polling")
    /\ CASE ~s.known -> Conclude(c, "unknown")
         [] s.known /\ s.state = "created" -> call' = [call EXCEPT ![c].fails = 0]
         [] s.known /\ s.state = "uploaded" -> Goto(c, "taking")
         [] s.known /\ s.state = "fetched" -> Conclude(c, "already")
         [] s.known /\ s.state \in {"revoked", "expired"} -> Conclude(c, s.state)
         [] OTHER -> Return(c)      \* unexpected relay state
    /\ UNCHANGED <<about, masked>> /\ UNCHANGED relayVars /\ UNCHANGED storageVars
    /\ UNCHANGED historyVars

\* Mutant: one failure too many is counted.
PollFails_OneMore(c) ==
    /\ At(c, "polling")
    /\ IF call[c].fails <= MaxFailures THEN call' = [call EXCEPT ![c].fails = @ + 1] ELSE Return(c)
    /\ UNCHANGED <<about, masked>> /\ UNCHANGED relayVars /\ UNCHANGED storageVars
    /\ UNCHANGED historyVars

\* It fails in a way that is tried again, until there were too many in a row.
PollFails(c) ==
    /\ At(c, "polling")
    /\ IF call[c].fails < MaxFailures THEN call' = [call EXCEPT ![c].fails = @ + 1] ELSE Return(c)
    /\ UNCHANGED <<about, masked>> /\ UNCHANGED relayVars /\ UNCHANGED storageVars
    /\ UNCHANGED historyVars

\* Mutant: the deadline is looked at only after a poll that was answered.
PollDeadline_Answered(c) ==
    /\ At(c, "polling") /\ call[c].fails = 0
    /\ Return(c)
    /\ UNCHANGED <<about, masked>> /\ UNCHANGED relayVars /\ UNCHANGED storageVars
    /\ UNCHANGED historyVars

\* The deadline is reached, and the caller told to wait on; or the caller's
\* context ends, or the relay refuses the poll for good.
PollDeadline(c) ==
    /\ At(c, "polling")
    /\ Return(c)
    /\ UNCHANGED <<about, masked>> /\ UNCHANGED relayVars /\ UNCHANGED storageVars
    /\ UNCHANGED historyVars

\* The relay hands the ciphertext out; the agent opens it and compares it with
\* the record.  A lost answer, or a key in the record that cannot be read, ends
\* the operation with an error and leaves the record.
Take(c, heard) ==
    LET id == call[c].id IN
    /\ At(c, "taking") /\ Live(id)
    /\ slot' = [slot EXCEPT ![id].state = "fetched", ![id].by = "agent"]
    /\ CASE ~heard -> Return(c)
         [] heard /\ slot[id].sent = "good" -> Goto(c, "storing")
         [] heard /\ slot[id].sent # "good" -> Conclude(c, "rejected")
    /\ UNCHANGED <<about, over, masked>> /\ UNCHANGED storageVars /\ UNCHANGED historyVars

\* The slot ended since the poll.  Whatever ended it, the agent concludes that
\* someone else has the submission; a slot the relay has forgotten is an error.
TakeGone(c) ==
    LET s == slot[call[c].id] IN
    /\ At(c, "taking") /\ ~Live(call[c].id)
    /\ IF s.known THEN Conclude(c, "elsewhere") ELSE Return(c)
    /\ UNCHANGED <<about, masked>> /\ UNCHANGED relayVars /\ UNCHANGED storageVars
    /\ UNCHANGED historyVars

\* Store.Put of the value.
StoreValue(c) ==
    LET id == call[c].id IN
    /\ At(c, "storing")
    /\ store' = [store EXCEPT ![about[id].name] = id]
    /\ kept' = kept \cup {id}
    /\ Goto(c, "masking")
    /\ UNCHANGED <<about, record, masked, given, told>> /\ UNCHANGED relayVars

\* Mutants: a value that could not be stored is reported as stored; the record
\* is cleaned up after the error.
StoreFails_GoesOn(c, written) ==
    LET id == call[c].id IN
    /\ At(c, "storing")
    /\ store' = IF written THEN [store EXCEPT ![about[id].name] = id] ELSE store
    /\ kept' = IF written THEN kept \cup {id} ELSE kept
    /\ Goto(c, "masking")
    /\ UNCHANGED <<about, record, masked, given, told>> /\ UNCHANGED relayVars
StoreFails_CleansUp(c, written) ==
    LET id == call[c].id IN
    /\ At(c, "storing")
    /\ store' = IF written THEN [store EXCEPT ![about[id].name] = id] ELSE store
    /\ kept' = IF written THEN kept \cup {id} ELSE kept
    /\ record' = record \ {id}
    /\ Return(c)
    /\ UNCHANGED <<about, masked, given, told>> /\ UNCHANGED relayVars

\* Put fails, with the value written when only the index failed.  The record
\* stays; the value is not registered with the redactor.
StoreFails(c, written) ==
    LET id == call[c].id IN
    /\ At(c, "storing")
    /\ store' = IF written THEN [store EXCEPT ![about[id].name] = id] ELSE store
    /\ kept' = IF written THEN kept \cup {id} ELSE kept
    /\ Return(c)
    /\ UNCHANGED <<about, record, masked, given, told>> /\ UNCHANGED relayVars

\* Redactor.Add.
Mask(c) ==
    LET id == call[c].id IN
    /\ At(c, "masking")
    /\ masked' = masked \cup {<<about[id].name, id>>}
    /\ Conclude(c, "stored")
    /\ UNCHANGED about /\ UNCHANGED relayVars /\ UNCHANGED storageVars /\ UNCHANGED historyVars

\* deletePending or deleteSent, whose failure is ignored, and the answer.
DropRecord(c, deleted) ==
    LET id == call[c].id IN
    /\ At(c, "dropping")
    /\ record' = IF deleted THEN record \ {id} ELSE record
    /\ told' = told \cup {id}
    /\ Return(c)
    /\ UNCHANGED <<about, store, masked, given, kept>> /\ UNCHANGED relayVars

----------------------------------------------------------------------------
(* Send.                                                                   *)

\* Store.Get, the sendable check and Redactor.Add.
SendBegin(c, name, copy) ==
    LET value == store[name] IN
    /\ At(c, "idle") /\ value # None /\ about[value].sendable
    /\ masked' = masked \cup {<<name, value>>}
    /\ call' = [call EXCEPT ![c] = [Idle EXCEPT !.op = "send", !.pc = "sending", !.name = name,
                                                !.value = value, !.copy = copy]]
    /\ UNCHANGED about /\ UNCHANGED relayVars /\ UNCHANGED storageVars /\ UNCHANGED historyVars

\* CreateReveal.  The link, and the ciphertext's additional data, say already
\* whether the agent keeps a copy.
SendCreate(c, id, heard) ==
    LET r == call[c] IN
    /\ At(c, "sending") /\ slot[id].state = "fresh"
    /\ slot' = [slot EXCEPT ![id] = NewSlot("reveal")]
    /\ about' = [about EXCEPT ![id] =
                   [name |-> r.name, value |-> r.value, sendable |-> FALSE, copy |-> r.copy]]
    /\ IF heard THEN call' = [call EXCEPT ![c].pc = "saving", ![c].id = id] ELSE Return(c)
    /\ UNCHANGED <<over, masked>> /\ UNCHANGED storageVars /\ UNCHANGED historyVars

\* Store.Delete for delete_after; then the link is returned either way.
SendDelete(c, deleted) ==
    LET r == call[c] IN
    /\ At(c, "deleting")
    /\ store' = IF deleted THEN [store EXCEPT ![r.name] = None] ELSE store
    /\ given' = given \cup {r.id}
    /\ Return(c)
    /\ UNCHANGED <<about, record, masked, told, kept>> /\ UNCHANGED relayVars

----------------------------------------------------------------------------
(* Revoke and Delete.                                                      *)

\* loadPending, then loadSent.
RevokeBegin(c, id) ==
    /\ At(c, "idle") /\ id \in record
    /\ call' = [call EXCEPT ![c] = [Idle EXCEPT !.op = "revoke", !.pc = "revoking", !.id = id]]
    /\ UNCHANGED <<about, masked>> /\ UNCHANGED relayVars /\ UNCHANGED storageVars
    /\ UNCHANGED historyVars

\* revokeState: revoked in time, else the state the relay reports.
RevokeState(s) == CASE ~s.known -> "unknown"
                    [] s.known /\ s.state \in LiveStates -> "revoked"
                    [] OTHER -> s.state

\* Mutant: without an answer the slot is taken for one the relay no longer knows.
RevokeCall_LostIsExpired(c, heard) ==
    LET id == call[c].id IN
    /\ At(c, "revoking")
    /\ \/ slot' = [slot EXCEPT ![id] = RevokedSlot(@)] /\ Conclude(c, RevokeState(slot[id]))
       \/ slot' = slot /\ Conclude(c, "unknown")
    /\ UNCHANGED <<about, over, masked>> /\ UNCHANGED storageVars /\ UNCHANGED historyVars

RevokeCall(c, heard) ==
    LET id == call[c].id IN
    /\ At(c, "revoking")
    /\ slot' = [slot EXCEPT ![id] = RevokedSlot(@)]
    /\ IF heard THEN Conclude(c, RevokeState(slot[id])) ELSE Return(c)
    /\ UNCHANGED <<about, over, masked>> /\ UNCHANGED storageVars /\ UNCHANGED historyVars

\* Delete: Store.Delete, which may fail with or without effect, then
\* Redactor.Remove whatever came of it.
DeleteSecret(c, name, deleted) ==
    /\ At(c, "idle")
    /\ store' = IF deleted THEN [store EXCEPT ![name] = None] ELSE store
    /\ call' = [call EXCEPT ![c] = [Idle EXCEPT !.op = "delete", !.pc = "unmasking", !.name = name]]
    /\ UNCHANGED <<about, record, masked>> /\ UNCHANGED relayVars /\ UNCHANGED historyVars

Unmask(c) ==
    LET name == call[c].name IN
    /\ At(c, "unmasking")
    /\ masked' = {m \in masked : m[1] # name}
    /\ Return(c)
    /\ UNCHANGED about /\ UNCHANGED relayVars /\ UNCHANGED storageVars /\ UNCHANGED historyVars

----------------------------------------------------------------------------
(* The human, the relay, time and the process.                             *)

Submit(id, sent) ==
    /\ id \in given /\ slot[id].kind = "drop" /\ slot[id].known /\ slot[id].state = "created"
    /\ slot' = [slot EXCEPT ![id].state = "uploaded", ![id].sent = sent]
    /\ UNCHANGED <<about, over, masked, call>> /\ UNCHANGED storageVars /\ UNCHANGED historyVars

Open(id) ==
    /\ id \in given /\ slot[id].kind = "reveal" /\ Live(id)
    /\ slot' = [slot EXCEPT ![id].state = "opened"]
    /\ UNCHANGED <<about, over, masked, call>> /\ UNCHANGED storageVars /\ UNCHANGED historyVars

\* Another holder of the fetch token is quicker.
OtherFetch(id) ==
    /\ slot[id].known /\ slot[id].state = "uploaded"
    /\ slot' = [slot EXCEPT ![id].state = "fetched", ![id].by = "other"]
    /\ UNCHANGED <<about, over, masked, call>> /\ UNCHANGED storageVars /\ UNCHANGED historyVars

\* A slot's time is up.  The relay and the agent's storage notice each in their
\* own time: the one expires the slot, the other no longer finds the record.
TimeUp(id) ==
    /\ slot[id].state # "fresh" /\ id \notin over
    /\ over' = over \cup {id}
    /\ UNCHANGED <<slot, about, masked, call>> /\ UNCHANGED storageVars /\ UNCHANGED historyVars

Expire(id) ==
    /\ id \in over /\ Live(id)
    /\ slot' = [slot EXCEPT ![id].state = "expired"]
    /\ UNCHANGED <<about, over, masked, call>> /\ UNCHANGED storageVars /\ UNCHANGED historyVars

Lapse(id) ==
    /\ id \in over /\ id \in record
    /\ record' = record \ {id}
    /\ UNCHANGED <<about, store, masked, call>> /\ UNCHANGED relayVars /\ UNCHANGED historyVars

\* The grace period of a tombstone is over, or a relay with a memory store stops.
Forget(id) ==
    /\ slot[id].known
    /\ slot' = [slot EXCEPT ![id].known = FALSE]
    /\ UNCHANGED <<about, over, masked, call>> /\ UNCHANGED storageVars /\ UNCHANGED historyVars

\* The agent's process stops and starts again: Manager.Close, and a new redactor.
Restart ==
    /\ call' = [c \in Calls |-> Idle]
    /\ store' = [n \in Names |-> IF n \in SessionNames THEN None ELSE store[n]]
    /\ masked' = {}
    /\ UNCHANGED <<about, record, given, told, kept>> /\ UNCHANGED relayVars

Begin(c) ==
    \/ \E id \in Ids :
          \/ \E name \in Names, sendable, heard \in BOOLEAN :
                RequestCreate(c, id, name, sendable, heard)
          \/ FetchBegin(c, id)
          \/ RevokeBegin(c, id)
    \/ \E name \in Names, b \in BOOLEAN : SendBegin(c, name, b) \/ DeleteSecret(c, name, b)

\* The next step of an operation in flight.
Step(c) ==
    \/ Save(c) \/ Undo(c) \/ CallFails(c)
    \/ Poll(c) \/ PollFails(c) \/ PollDeadline(c)
    \/ TakeGone(c) \/ StoreValue(c) \/ Mask(c) \/ Unmask(c)
    \/ \E b \in BOOLEAN :
          \/ SaveFails(c, b)
          \/ Take(c, b)
          \/ StoreFails(c, b)
          \/ DropRecord(c, b)
          \/ SendDelete(c, b)
          \/ RevokeCall(c, b)
          \/ \E id \in Ids : SendCreate(c, id, b)

World(id) ==
    \/ \E sent \in {"good", "bad"} : Submit(id, sent)
    \/ Open(id)
    \/ OtherFetch(id)
    \/ TimeUp(id)
    \/ Expire(id)
    \/ Lapse(id)
    \/ Forget(id)

Next ==
    \/ \E c \in Calls : Begin(c) \/ Step(c)
    \/ \E id \in Ids : World(id)
    \/ Restart

Spec == Init /\ [][Next]_vars

\* An operation in flight goes on, and its deadline comes.
FairSpec == Spec /\ \A c \in Calls : WF_vars(Step(c)) /\ WF_vars(PollDeadline(c))

----------------------------------------------------------------------------
(* Properties.                                                             *)

\* As long as a link that reached the human can still be used, the agent has
\* its record and so can fetch or revoke it, whatever failed or raced before.  A
\* link whose time is up on some clock is excused: an agent whose clock is ahead
\* purges the record of a link the relay would still take
\* (docs/troubleshooting.md:174).
RecordKept == \A id \in given : Live(id) => id \in record \cup over

\* No link is given up unnoticed: a lost answer, a value that could not be
\* stored or a process that stops leave the record to ask about, until a caller
\* was told how the slot ended or its time is up.
NoSilentLoss == given \subseteq record \cup told \cup over

\* Operation c is about to answer a.
Says(c, a) == At(c, "dropping") /\ call[c].answer = a

AnswerTrue(c) ==
    LET s == slot[call[c].id] IN
        /\ Says(c, "stored") => call[c].id \in kept /\ s.state = "fetched" /\ s.by = "agent"
        /\ Says(c, "rejected") => s.state = "fetched" /\ s.by = "agent" /\ s.sent = "bad"
        /\ Says(c, "already") => s.state = "fetched"
        /\ Says(c, "elsewhere") => s.state \in TerminalStates
        /\ Says(c, "unknown") => ~s.known
        /\ \A e \in TerminalStates : Says(c, e) => s.state = e

\* The state a caller is told a slot ended in is the state it ended in, a value
\* it is told is stored, or was rejected, is one this agent fetched, and a slot
\* that is unknown is unknown, also when other operations, the human or the relay
\* have moved on since the agent learnt of it (agent.go:385-490).  Of the answer
\* that someone else fetched the submission this says no more than that the slot
\* is over: ElsewhereTrue has what the words say.  The words "before the human
\* submitted anything" of expired and revoked (agent.go:397, 401) are not covered.
AnswersTrue == \A c \in Calls : AnswerTrue(c)

\* A caller that is told that "the submission was fetched by someone else before
\* this agent could" (agent.go:421; "Someone else fetched it first; treat the
\* secret as exposed", docs/agent-integration.md:153) is told so because someone
\* else did.
ElsewhereTrue == \A c \in Calls : Says(c, "elsewhere") => slot[call[c].id].by = "other"

\* What makes the above inductive: facts about slots and records,
SlotFacts ==
    \A id \in Ids :
        /\ slot[id].state = "uploaded" => slot[id].sent # "nothing"
        /\ slot[id].state # "fresh" => about[id].name \in Names
        /\ id \in record \cup given => slot[id].state # "fresh"

\* and, for an operation, that its slot exists and what it has done so far:
\* past the poll the submission was there, a value that is being stored is the
\* agent's, a record is only deleted when its link has no use any more.
CallFacts(c) ==
    LET r == call[c]  s == slot[r.id] IN
        /\ r.pc = "sending" => r.name \in Names
        /\ r.pc \notin {"idle", "sending", "unmasking"} => r.id \in Ids /\ s.state # "fresh"
        /\ r.pc = "taking" => s.state # "created"
        /\ r.pc \in {"storing", "masking"} => s.state = "fetched" /\ s.by = "agent"
        /\ r.pc = "masking" => r.id \in kept
        /\ r.pc = "deleting" => /\ r.id \in record \cup told \cup over
                                /\ Live(r.id) => r.id \in record \cup over
        /\ r.pc = "dropping" => ~Live(r.id)
OperationFacts == \A c \in Calls : CallFacts(c)

\* Every operation returns, even if the relay answers every poll with created,
\* or with an error now and then.
EveryCallReturns == \A c \in Calls : ~At(c, "idle") ~> At(c, "idle")
============================================================================
