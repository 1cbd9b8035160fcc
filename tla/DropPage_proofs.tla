--------------------------- MODULE DropPage_proofs ---------------------------
(***************************************************************************)
(* Proofs about the page, for any sizes, lifetimes, grace period, number   *)
(* of polls, clock bound and skew of the browser's clock.                  *)
(***************************************************************************)
EXTENDS DropPage, TLAPS

----------------------------------------------------------------------------
(* The inductive invariant.  PageTrue alone is not inductive: an answer is *)
(* applied after it was given, so the answers on their way have to be true *)
(* too (ReplyTrue), of the kind of link the page has (TruthOK), and no     *)
(* flow may be under way on a page that shows an end (FlowOK).             *)

Jobs == {"none", "boot", "status", "upload", "key", "open"}
Codes == {"none", "not_found", "network", "broken", "refused", "ok", "gone", "already_uploaded"}
PageStates == Final \cup Busy \cup {"waiting", "sent", "ready"}
SlotStates == LiveStates \cup TerminalStates \cup UnknownStates
Replies == [code : Codes, state : SlotStates \cup {"none"}, expires : Nat]

PageType ==
    /\ page \in [mode : Kinds, locked : BOOLEAN, state : PageStates, expires : Nat,
                 timer : BOOLEAN, held : BOOLEAN, aborted : BOOLEAN]
    /\ job \in Jobs /\ got \in BOOLEAN
    /\ reply \in Replies /\ poll \in [left : Nat, reply : Replies]

\* Which state of the card goes with which flow, and where the ciphertext is
\* once the page was given it.
FlowOK ==
    /\ job \in {"boot", "key", "none"} => reply = None
    /\ page.state = "loading" <=> job \in {"boot", "status"}
    /\ page.state = "sending" <=> job = "upload"
    /\ page.state = "revealing" <=> job \in {"key", "open"}
    /\ page.state \in {"waiting", "sending", "sent"} => page.mode = "drop"
    /\ page.state \in {"ready", "revealing"} => page.mode = "reveal"
    /\ page.state \in {"loading", "error"} => ~page.timer
    /\ poll # NoPoll => page.state = "sent"
    /\ poll.reply # None => poll.left > 0
    /\ page.held => page.locked /\ got
    /\ got => page.state \in {"ready", "revealing", "expired", "revealed", "error"}
    /\ got /\ page.state \in {"ready", "revealing"} => page.held /\ job # "open"
    /\ page.state = "revealed" => got

\* The slot, and its history.
StoreOK ==
    /\ now \in Nat /\ skew \in Int
    /\ slot \in [Ids -> [kind : Kinds, state : SlotStates, held : Sizes \cup {0}, expires : Nat]]
    /\ handed \in [Ids -> Nat]
    /\ slot[Link].state \in seen \cup {"fresh"}
    /\ slot[Link].kind = "drop" => slot[Link].state # "opened"
    /\ slot[Link].kind = "reveal" => slot[Link].state \notin {"uploaded", "fetched"}
    /\ slot[Link].state \in LiveStates \cup {"fresh"} => handed[Link] = 0
    /\ handed[Link] <= 1
    /\ slot[Link].state = "opened" => handed[Link] = 1

Known == slot[Link].state \notin UnknownStates

\* A state of the slot that was so, or of a slot that is over.
Told(s) == s \in seen \/ (s = "expired" /\ Due(Link))

StatesOf(mode) == IF mode = "drop" THEN {"created", "uploaded", "fetched", "revoked", "expired"}
                  ELSE {"created", "opened", "revoked", "expired"}

ReplyTrue(r) ==
    /\ r.code \in {"ok", "gone", "already_uploaded"} => r.state \in StatesOf(page.mode) /\ Told(r.state)
    /\ r.code = "gone" => r.state \notin LiveStates
    /\ r.code = "not_found" => "forgotten" \in seen

\* The page has read its link, which some slot was made for.
Started == job = "status" \/ page.state \notin {"loading", "error"}

ExpiresTrue(e) == e = slot[Link].expires \/ "forgotten" \in seen

TruthOK ==
    /\ Started => slot[Link].state # "fresh" /\ (Known => page.mode = slot[Link].kind)
    /\ page.timer => ExpiresTrue(page.expires)
    /\ ReplyTrue(reply)
    /\ ReplyTrue(poll.reply)
    /\ job = "status" /\ reply.code = "ok" => ExpiresTrue(reply.expires)
    /\ job = "upload" /\ reply.code \in {"ok", "already_uploaded"} => reply.state = "uploaded"
    /\ job = "open" /\ reply.code = "ok" => handed[Link] = 1
    /\ got => handed[Link] = 1
    /\ PageTrue

PageInv == PageType /\ FlowOK /\ StoreOK /\ TruthOK

----------------------------------------------------------------------------
(* The relay and what it answers.                                          *)

\* A step of the relay on the link's slot, or none.
StoreStep ==
    \/ Advance
    \/ Close
    \/ \E kind \in Kinds, n \in Sizes \cup {0}, ttl \in TTLs : Create(Link, kind, n, ttl)
    \/ \E n \in Sizes : Upload(Link, n)
    \/ \E final \in {"fetched", "opened"} : Take(Link, final)
    \/ Revoke(Link) \/ Expire(Link) \/ Forget(Link)
    \/ UNCHANGED storeVars

\* What holds of the slot and its past still holds after the step.
Onward ==
    /\ seen \subseteq seen'
    /\ handed[Link] = 1 => handed'[Link] = 1
    /\ slot[Link].state # "fresh" =>
          /\ slot'[Link].state # "fresh"
          /\ Due(Link) => Due(Link)'
          /\ LooksOver => LooksOver' \/ "forgotten" \in seen'
          /\ Known' => Known /\ slot'[Link].kind = slot[Link].kind
          /\ slot'[Link].expires = slot[Link].expires \/ "forgotten" \in seen'

\* Whatever the relay does to the slot, what was true of its past stays true.
LEMMA StoreMoves ==
    ASSUME StoreOK, StoreStep, Observe
    PROVE  StoreOK' /\ Onward
  <1> USE LinkAssumption, TTLsAssumption
  <1> DEFINE d == slot[Link]
             Rec == [kind : Kinds, state : SlotStates, held : Sizes \cup {0}, expires : Nat]
  <1>0. d \in Rec /\ now \in Nat /\ skew \in Int /\ skew' = skew /\ seen' = seen \cup {slot'[Link].state}
    BY DEF StoreOK, Observe
  <1> USE DEF SlotStates, LiveStates, TerminalStates, UnknownStates
  <1>1. CASE Advance \/ UNCHANGED storeVars
    BY <1>0, <1>1 DEF Advance, storeVars, StoreOK, Onward, Known, Due, LooksOver, Today
  <1>2. CASE Close
    <2>1. Unknown("forgotten") \in Rec
      BY DEF Unknown, Kinds
    <2>2. slot' \in [Ids -> Rec]
      BY <1>2, <2>1 DEF Close, StoreOK
    <2>3. \/ slot'[Link] = d /\ d.state \in UnknownStates
          \/ slot'[Link] = Unknown("forgotten") /\ d.state \notin UnknownStates
      BY <1>2 DEF Close, StoreOK
    <2>4. now' = now /\ handed' = handed
      BY <1>2 DEF Close
    <2> QED
      BY <1>0, <2>2, <2>3, <2>4 DEF StoreOK, Onward, Known, Due, LooksOver, Today, Unknown
  <1>3. ASSUME NEW kind \in Kinds, NEW n \in Sizes \cup {0}, NEW ttl \in TTLs, Create(Link, kind, n, ttl)
        PROVE  StoreOK' /\ Onward
    <2>1. [kind |-> kind, state |-> "created", held |-> n, expires |-> now + ttl] \in Rec
      BY <1>0
    <2>2. /\ slot' \in [Ids -> Rec] /\ slot'[Link].state = "created" /\ d.state = "fresh"
          /\ now' = now /\ handed' = handed
      BY <1>3, <2>1 DEF Create, StoreOK
    <2> QED
      BY <1>0, <2>2 DEF StoreOK, Onward
  <1>4. ASSUME NEW n \in Sizes, Upload(Link, n)
        PROVE  StoreOK' /\ Onward
    <2>1. /\ slot' \in [Ids -> Rec] /\ slot'[Link].state = "uploaded" /\ d.state = "created"
          /\ d.kind = "drop" /\ slot'[Link].kind = d.kind /\ slot'[Link].expires = d.expires
          /\ now' = now /\ handed' = handed
      BY <1>4 DEF Upload, StoreOK
    <2> QED
      BY <1>0, <2>1 DEF StoreOK, Onward, Known, Due, LooksOver, Today
  <1>5. ASSUME NEW final \in {"fetched", "opened"}, Take(Link, final)
        PROVE  StoreOK' /\ Onward
    <2>1. /\ slot' \in [Ids -> Rec] /\ slot'[Link].state = final
          /\ slot'[Link].kind = d.kind /\ slot'[Link].expires = d.expires
          /\ now' = now
      BY <1>5 DEF Take, StoreOK
    <2>2. \/ d.kind = "drop" /\ d.state = "uploaded" /\ final = "fetched"
          \/ d.kind = "reveal" /\ d.state \in LiveStates /\ final = "opened"
      BY <1>5 DEF Take, Live
    <2>3. handed' = [handed EXCEPT ![Link] = @ + 1] /\ handed[Link] = 0
      BY <1>5, <2>2 DEF Take, StoreOK
    <2>4. handed' \in [Ids -> Nat] /\ handed'[Link] = 1
      BY <2>3 DEF StoreOK
    <2> QED
      BY <1>0, <2>1, <2>2, <2>3, <2>4 DEF StoreOK, Onward, Known, Due, LooksOver, Today
  <1>6. CASE Revoke(Link) \/ Expire(Link)
    <2>1. /\ slot' \in [Ids -> Rec] /\ slot'[Link].state \in {"revoked", "expired"} /\ d.state \in LiveStates
          /\ slot'[Link].kind = d.kind /\ slot'[Link].expires = d.expires
          /\ now' = now /\ handed' = handed
      BY <1>6 DEF Revoke, Expire, Live, StoreOK
    <2> QED
      BY <1>0, <2>1 DEF StoreOK, Onward, Known, Due, LooksOver, Today
  <1>7. CASE Forget(Link)
    <2>1. Unknown("forgotten") \in Rec
      BY DEF Unknown, Kinds
    <2>2. /\ slot' \in [Ids -> Rec] /\ slot'[Link] = Unknown("forgotten") /\ d.state \in TerminalStates
          /\ now' = now /\ handed' = handed
      BY <1>7, <2>1 DEF Forget, StoreOK
    <2> QED
      BY <1>0, <2>2 DEF StoreOK, Onward, Known, Due, LooksOver, Today, Unknown
  <1> QED
    BY <1>1, <1>2, <1>3, <1>4, <1>5, <1>6, <1>7 DEF StoreStep

\* While the page does nothing, the relay does not make it say what is not so.
LEMMA PageFrame ==
    ASSUME PageInv, StoreOK', Onward, UNCHANGED <<page, job, reply, poll, got>>
    PROVE  PageInv'
  <1>1. PageType' /\ FlowOK'
    BY DEF PageInv, PageType, FlowOK
  <1>2. CASE Started
    <2>1. slot[Link].state # "fresh" /\ (Known => page.mode = slot[Link].kind)
      BY <1>2 DEF PageInv, TruthOK
    <2>2. ReplyTrue(reply)' /\ ReplyTrue(poll.reply)'
      BY <2>1 DEF PageInv, TruthOK, ReplyTrue, Told, Onward
    <2>3. \A e : ExpiresTrue(e) => ExpiresTrue(e)'
      BY <2>1 DEF ExpiresTrue, Onward
    <2>4. PageTrue'
      BY <2>1 DEF PageInv, TruthOK, PageTrue, Onward
    <2> QED
      BY <1>1, <2>1, <2>2, <2>3, <2>4 DEF PageInv, TruthOK, Onward, Started
  <1>3. CASE ~Started
    <2>1. page.state \in {"loading", "error"} /\ job # "status" /\ ~page.timer
      BY <1>3 DEF Started, PageInv, FlowOK
    <2>2. reply = None /\ poll.reply = None
      BY <2>1 DEF PageInv, PageType, FlowOK, Jobs, NoPoll
    <2>3. ReplyTrue(reply)' /\ ReplyTrue(poll.reply)'
      BY <2>2 DEF ReplyTrue, None, Error, Reply
    <2>4. job \notin {"upload", "open"}
      BY <2>1 DEF PageInv, FlowOK
    <2>5. PageTrue'
      BY <2>1 DEF PageInv, TruthOK, PageTrue, Onward
    <2> QED
      BY <1>1, <1>3, <2>1, <2>3, <2>4, <2>5 DEF PageInv, TruthOK, Onward, Started
  <1> QED
    BY <1>2, <1>3

\* What the relay says of the slot's state is so, and of the page's kind of link.
LEMMA FoundTold ==
    ASSUME PageInv, Started, Found \notin UnknownStates, UNCHANGED storeVars, Observe
    PROVE  /\ Found \in StatesOf(page.mode) /\ Told(Found)' /\ Found \in SlotStates
           /\ Found' = Found
  <1> USE DEF LiveStates, TerminalStates, UnknownStates
  <1>1. slot[Link].state \in SlotStates /\ slot[Link].kind \in Kinds /\ slot[Link].state \in seen'
    BY LinkAssumption DEF PageInv, StoreOK, Observe, storeVars
  <1>0. Found' = Found
    BY DEF Found, Live, Due, storeVars
  <1>2. Known /\ page.mode = slot[Link].kind
    BY DEF PageInv, TruthOK, Known, Found, Live
  <1>3. CASE Live(Link) /\ Due(Link)
    <2>1. Found = "expired" /\ Due(Link)'
      BY <1>3 DEF Found, Due, storeVars
    <2> QED
      BY <1>0, <2>1 DEF Told, StatesOf, SlotStates
  <1>4. CASE ~(Live(Link) /\ Due(Link))
    <2>1. Found = slot[Link].state
      BY <1>4 DEF Found
    <2> QED
      BY <1>0, <1>1, <1>2, <2>1 DEF Told, StatesOf, SlotStates, PageInv, StoreOK, Kinds
  <1> QED
    BY <1>3, <1>4

\* A slot the relay does not know, of a page that read its link, was forgotten.
LEMMA NotFoundTold ==
    ASSUME PageInv, Started, Found \in UnknownStates, UNCHANGED storeVars, Observe
    PROVE  "forgotten" \in seen'
  <1>1. slot[Link].state # "fresh"
    BY DEF PageInv, TruthOK
  <1>2. Found = slot[Link].state
    BY DEF Found, UnknownStates
  <1> QED
    BY <1>1, <1>2 DEF UnknownStates, Observe, storeVars

\* The two shapes an answer about the slot's state takes.
LEMMA StatusTrue ==
    ASSUME PageInv, Started, UNCHANGED storeVars, Observe, page' = page
    PROVE  /\ StatusReply' = StatusReply /\ GoneReply' = GoneReply
           /\ StatusReply \in Replies /\ ReplyTrue(StatusReply)'
           /\ StatusReply.code = "ok" => ExpiresTrue(StatusReply.expires)'
           /\ StatusReply.code \in {"ok", "not_found"}
           /\ GoneReply \in Replies
           /\ Found \notin LiveStates => ReplyTrue(GoneReply)'
           /\ GoneReply.code \in {"gone", "not_found"}
  <1>0. slot[Link].expires \in Nat /\ StatusReply' = StatusReply /\ GoneReply' = GoneReply
    BY LinkAssumption DEF PageInv, StoreOK, StatusReply, GoneReply, Found, Live, Due, storeVars
  <1>1. CASE Found \in UnknownStates
    <2>1. StatusReply = NotFound /\ GoneReply = NotFound
      BY <1>1 DEF StatusReply, GoneReply
    <2>2. "forgotten" \in seen'
      BY <1>1, NotFoundTold
    <2> QED
      BY <1>0, <2>1, <2>2 DEF NotFound, Error, Reply, ReplyTrue, Replies, Codes
  <1>2. CASE Found \notin UnknownStates
    <2>1. StatusReply = Reply("ok", Found, slot[Link].expires) /\ GoneReply = Reply("gone", Found, 0)
      BY <1>2 DEF StatusReply, GoneReply
    <2>2. Found \in StatesOf(page.mode) /\ Told(Found)' /\ Found \in SlotStates
      BY <1>2, FoundTold
    <2>3. ExpiresTrue(slot[Link].expires)'
      BY DEF ExpiresTrue, storeVars
    <2>4. StatusReply \in Replies /\ GoneReply \in Replies
      BY <1>0, <2>1, <2>2 DEF Reply, Replies, Codes
    <2>5. /\ StatusReply.code = "ok" /\ StatusReply.state = Found /\ StatusReply.expires = slot[Link].expires
          /\ GoneReply.code = "gone" /\ GoneReply.state = Found
      BY <2>1 DEF Reply
    <2> QED
      BY <1>0, <1>2, <2>2, <2>3, <2>4, <2>5, FoundTold DEF ReplyTrue, storeVars
  <1> QED
    BY <1>1, <1>2

----------------------------------------------------------------------------
(* The steps of the page.                                                  *)

PageRecord == [mode : Kinds, locked : BOOLEAN, state : PageStates, expires : Nat,
               timer : BOOLEAN, held : BOOLEAN, aborted : BOOLEAN]

\* What setState does to the fields of Page.
LEMMA SetStateEffect ==
    ASSUME NEW p \in PageRecord, NEW next \in PageStates
    PROVE  LET q == SetState(p, next) IN
           /\ q \in PageRecord
           /\ q.state = next /\ q.mode = p.mode /\ q.locked = p.locked
           /\ q.expires = p.expires /\ q.held = p.held
           /\ q.timer => p.timer /\ next # "error"
  BY DEF SetState, PageRecord, Final

\* What was true is still true after a step that leaves the relay alone.
LEMMA StillTrue ==
    ASSUME PageInv, UNCHANGED storeVars, Observe
    PROVE  /\ StoreOK' /\ Onward
           /\ seen \subseteq seen'
           /\ \A s : Told(s) => Told(s)'
           /\ \A e : ExpiresTrue(e) => ExpiresTrue(e)'
           /\ \A r : ReplyTrue(r) /\ page'.mode = page.mode => ReplyTrue(r)'
           /\ slot' = slot /\ handed' = handed /\ (Due(Link)' <=> Due(Link)) /\ (Known' <=> Known)
           /\ (LooksOver' <=> LooksOver) /\ (Today' = Today)
  <1>1. StoreOK' /\ Onward
    BY StoreMoves DEF PageInv, StoreStep
  <1>2. /\ seen \subseteq seen' /\ slot' = slot /\ handed' = handed
        /\ (Due(Link)' <=> Due(Link)) /\ (Known' <=> Known)
           /\ (LooksOver' <=> LooksOver) /\ (Today' = Today)
    BY DEF Observe, storeVars, Due, Known, LooksOver, Today
  <1> QED
    BY <1>1, <1>2 DEF Told, ExpiresTrue, ReplyTrue

\* An answer comes in, whatever else the relay does with it.
LEMMA AnswerFrame ==
    ASSUME PageInv, StoreOK', Onward, UNCHANGED <<page, job, poll, got>>,
           job \in {"status", "upload", "open"}, reply' \in Replies, ReplyTrue(reply)',
           job = "status" /\ reply'.code = "ok" => ExpiresTrue(reply.expires)',
           job = "upload" /\ reply'.code \in {"ok", "already_uploaded"} => reply'.state = "uploaded",
           job = "open" /\ reply'.code = "ok" => handed'[Link] = 1
    PROVE  PageInv'
  <1>1. PageType' /\ FlowOK'
    BY DEF PageInv, PageType, FlowOK
  <1>2. Started
    BY DEF PageInv, FlowOK, Started
  <1>3. slot[Link].state # "fresh" /\ (Known => page.mode = slot[Link].kind)
    BY <1>2 DEF PageInv, TruthOK
  <1>4. ReplyTrue(poll.reply)'
    BY <1>3 DEF PageInv, TruthOK, ReplyTrue, Told, Onward
  <1>5. page.timer => ExpiresTrue(page.expires)'
    BY <1>3 DEF PageInv, TruthOK, ExpiresTrue, Onward
  <1>6. PageTrue'
    BY <1>3 DEF PageInv, TruthOK, PageTrue, Onward
  <1> QED
    BY <1>1, <1>2, <1>3, <1>4, <1>5, <1>6 DEF PageInv, TruthOK, Onward, Started

\* Errors that say nothing of the slot are true.
LEMMA ErrorsTrue ==
    ASSUME NEW r \in {None, Network, Broken, Refused}
    PROVE  /\ r \in Replies /\ ReplyTrue(r) /\ ReplyTrue(r)'
           /\ r.code \notin {"ok", "gone", "already_uploaded", "not_found"}
  <1>1. r \in Replies /\ r.code \notin {"ok", "gone", "already_uploaded", "not_found"}
    BY DEF None, Network, Broken, Refused, Error, Reply, Replies, Codes
  <1> QED
    BY <1>1 DEF ReplyTrue

\* A request that fails, or whose answer is lost, tells the page nothing.
LEMMA LostStep ==
    ASSUME PageInv, StoreOK', Onward, UNCHANGED <<page, job, poll, got>>,
           job \in {"status", "upload", "open"}, reply' \in {Network, Broken, Refused}
    PROVE  PageInv'
  <1>1. /\ reply' \in Replies /\ ReplyTrue(reply)'
        /\ reply'.code \notin {"ok", "already_uploaded"}
    <2>1. \A r \in {Network, Broken, Refused} :
             /\ r \in Replies /\ r.code \notin {"ok", "gone", "already_uploaded", "not_found"}
      BY ErrorsTrue
    <2> QED
      BY <2>1 DEF ReplyTrue
  <1> QED
    BY <1>1, AnswerFrame

\* loadStatus's request is answered.
LEMMA AnswerStatusStep ==
    ASSUME PageInv, AnswerStatus, Observe
    PROVE  PageInv'
  <1>1. /\ job = "status" /\ reply' = StatusReply
        /\ UNCHANGED <<page, job, poll, got>> /\ UNCHANGED storeVars
    BY DEF AnswerStatus, Answers
  <1>2. Started
    BY <1>1 DEF Started
  <1>3. /\ reply' \in Replies /\ ReplyTrue(reply)'
        /\ reply'.code = "ok" => ExpiresTrue(reply.expires)'
    BY <1>1, <1>2, StatusTrue DEF ReplyTrue, ExpiresTrue
  <1>4. StoreOK' /\ Onward
    BY <1>1, StillTrue
  <1> QED
    BY <1>1, <1>3, <1>4, AnswerFrame

\* The upload takes place and is answered, or is refused with what is in its way.
LEMMA AnswerUploadStep ==
    ASSUME PageInv, NEW heard \in BOOLEAN, AnswerUpload(heard), Observe
    PROVE  PageInv'
  <1>1. job = "upload" /\ UNCHANGED <<page, job, poll, got>>
    BY DEF AnswerUpload, Answers
  <1>2. Started /\ page.mode = "drop"
    BY <1>1 DEF PageInv, FlowOK, Started
  <1>3. CASE Found = "created"
    <2>1. /\ reply' \in IF heard THEN {Reply("ok", "uploaded", 0)} ELSE {Network, Broken}
          /\ \E n \in Sizes : Upload(Link, n)
      BY <1>3 DEF AnswerUpload, Answers
    <2>2. StoreOK' /\ Onward
      BY <2>1, StoreMoves DEF PageInv, StoreStep
    <2>3. "uploaded" \in seen'
      BY <2>1, LinkAssumption DEF Upload, Observe, PageInv, StoreOK
    <2>4. CASE reply' = Reply("ok", "uploaded", 0)
      <3>1. reply' \in Replies /\ reply'.code = "ok" /\ reply'.state = "uploaded"
        BY <2>4 DEF Reply, Replies, Codes, SlotStates, LiveStates
      <3>2. ReplyTrue(reply)'
        BY <1>1, <1>2, <2>3, <3>1 DEF ReplyTrue, Told, StatesOf
      <3> QED
        BY <1>1, <2>2, <3>1, <3>2, AnswerFrame
    <2> QED
      BY <1>1, <2>1, <2>2, <2>4, LostStep
  <1>4. CASE Found # "created"
    <2>1. /\ reply' \in IF heard THEN {IF Found = "uploaded" THEN Reply("already_uploaded", Found, 0)
                                       ELSE GoneReply}
                        ELSE {Network, Broken}
          /\ UNCHANGED storeVars
      BY <1>4 DEF AnswerUpload, Answers
    <2>2. StoreOK' /\ Onward
      BY <2>1, StillTrue
    <2>3. CASE Found = "uploaded" /\ reply' = Reply("already_uploaded", Found, 0)
      <3>1. reply' \in Replies /\ reply'.code = "already_uploaded" /\ reply'.state = "uploaded"
        BY <2>3 DEF Reply, Replies, Codes, SlotStates, LiveStates
      <3>2. Told("uploaded")'
        BY <1>2, <2>1, <2>3, FoundTold DEF UnknownStates, Told
      <3>3. ReplyTrue(reply)'
        BY <1>1, <1>2, <3>1, <3>2 DEF ReplyTrue, StatesOf
      <3> QED
        BY <1>1, <2>2, <3>1, <3>3, AnswerFrame
    <2>4. CASE Found # "uploaded" /\ reply' = GoneReply
      <3>1. Found \notin LiveStates
        BY <1>4, <2>4 DEF LiveStates
      <3>2. /\ reply' \in Replies /\ ReplyTrue(reply)'
            /\ reply'.code \in {"gone", "not_found"}
        BY <1>1, <1>2, <2>1, <2>4, <3>1, StatusTrue DEF ReplyTrue
      <3> QED
        BY <1>1, <2>2, <3>2, AnswerFrame
    <2> QED
      BY <1>1, <2>1, <2>2, <2>3, <2>4, LostStep
  <1> QED
    BY <1>3, <1>4

\* The relay hands the ciphertext out and answers, or says what became of it.
LEMMA AnswerOpenStep ==
    ASSUME PageInv, NEW heard \in BOOLEAN, AnswerOpen(heard), Observe
    PROVE  PageInv'
  <1>1. job = "open" /\ UNCHANGED <<page, job, poll, got>>
    BY DEF AnswerOpen, Answers
  <1>2. Started /\ page.mode = "reveal"
    BY <1>1 DEF PageInv, FlowOK, Started
  <1>3. CASE Found = "created"
    <2>1. /\ reply' \in IF heard THEN {Reply("ok", "opened", 0)} ELSE {Network, Broken}
          /\ Take(Link, "opened")
      BY <1>3 DEF AnswerOpen, Answers
    <2>2. StoreOK' /\ Onward
      BY <2>1, StoreMoves DEF PageInv, StoreStep
    <2>3. slot'[Link].state = "opened" /\ "opened" \in seen'
      BY <2>1, LinkAssumption DEF Take, Observe, PageInv, StoreOK
    <2>4. handed'[Link] = 1
      BY <2>2, <2>3 DEF StoreOK
    <2>5. CASE reply' = Reply("ok", "opened", 0)
      <3>1. reply' \in Replies /\ reply'.code = "ok" /\ reply'.state = "opened"
        BY <2>5 DEF Reply, Replies, Codes, SlotStates, TerminalStates
      <3>2. ReplyTrue(reply)'
        BY <1>1, <1>2, <2>3, <3>1 DEF ReplyTrue, Told, StatesOf
      <3> QED
        BY <1>1, <2>2, <2>4, <3>1, <3>2, AnswerFrame
    <2> QED
      BY <1>1, <2>1, <2>2, <2>5, LostStep
  <1>4. CASE Found # "created"
    <2>1. /\ reply' \in IF heard THEN {GoneReply} ELSE {Network, Broken}
          /\ UNCHANGED storeVars
      BY <1>4 DEF AnswerOpen, Answers
    <2>2. StoreOK' /\ Onward
      BY <2>1, StillTrue
    <2>3. CASE reply' = GoneReply
      <3>1. Found \notin LiveStates
        <4>1. CASE Found \in UnknownStates
          BY <4>1 DEF LiveStates, UnknownStates
        <4>2. CASE Found \notin UnknownStates
          <5>1. Found \in StatesOf(page.mode)
            BY <1>2, <2>1, <4>2, FoundTold
          <5> QED
            BY <1>2, <1>4, <5>1 DEF StatesOf, LiveStates
        <4> QED
          BY <4>1, <4>2
      <3>2. /\ reply' \in Replies /\ ReplyTrue(reply)'
            /\ reply'.code \in {"gone", "not_found"}
        BY <1>1, <1>2, <2>1, <2>3, <3>1, StatusTrue DEF ReplyTrue
      <3> QED
        BY <1>1, <2>2, <3>2, AnswerFrame
    <2> QED
      BY <1>1, <2>1, <2>2, <2>3, LostStep
  <1> QED
    BY <1>3, <1>4

\* A step of the page that leaves the relay alone: what remains to be shown of
\* it.  The page goes on knowing a slot that was made, its answers stay true,
\* and what it says is so.
LEMMA PageMoves ==
    ASSUME PageInv, UNCHANGED storeVars, Observe, PageType', FlowOK',
           Started' => Started, page'.mode = page.mode,
           page'.timer => ExpiresTrue(page.expires)',
           reply' = None, ReplyTrue(poll.reply)',
           got' => handed[Link] = 1,
           PageTrue'
    PROVE  PageInv'
  <1>1. StoreOK' /\ slot' = slot /\ handed' = handed /\ (Known' <=> Known)
    BY StillTrue
  <1>2. ReplyTrue(reply)' /\ reply'.code \notin {"ok", "already_uploaded"}
    BY ErrorsTrue DEF ReplyTrue
  <1>3. Started' => slot'[Link].state # "fresh" /\ (Known' => page'.mode = slot'[Link].kind)
    BY <1>1 DEF PageInv, TruthOK
  <1> QED
    BY <1>1, <1>2, <1>3 DEF PageInv, TruthOK

\* The link is read.
LEMMA BootStep ==
    ASSUME PageInv, NEW locked \in BOOLEAN, Boot(locked), Observe
    PROVE  PageInv'
  <1>1. PICK mode \in Kinds :
           /\ slot[Link].state # "forgotten" => mode = slot[Link].kind
           /\ page' = [page EXCEPT !.mode = mode, !.locked = locked /\ mode = "reveal"]
    BY DEF Boot
  <1>2. /\ job = "boot" /\ job' = "status" /\ slot[Link].state # "fresh"
        /\ UNCHANGED <<reply, poll, got>> /\ UNCHANGED storeVars
    BY DEF Boot
  <1>3. page \in PageRecord
    BY DEF PageInv, PageType, PageRecord
  <1>4. /\ page' \in PageRecord /\ page'.mode = mode /\ page'.state = page.state
        /\ page'.timer = page.timer /\ page'.held = page.held /\ page'.expires = page.expires
    BY <1>1, <1>3 DEF PageRecord
  <1>5. /\ page.state = "loading" /\ ~page.timer /\ ~got /\ ~page.held /\ reply = None /\ poll = NoPoll
    BY <1>2 DEF PageInv, FlowOK
  <1>6. PageType' /\ FlowOK'
    BY <1>2, <1>4, <1>5 DEF PageInv, PageType, FlowOK, PageRecord, Jobs
  <1>7. StoreOK' /\ slot' = slot /\ (Known' <=> Known)
    BY <1>2, StillTrue
  <1>8. ReplyTrue(reply)' /\ ReplyTrue(poll.reply)' /\ reply'.code \notin {"ok", "already_uploaded"}
    BY <1>2, <1>5, ErrorsTrue DEF ReplyTrue, NoPoll
  <1>9. PageTrue'
    BY <1>2, <1>4, <1>5 DEF PageTrue
  <1> QED
    BY <1>1, <1>2, <1>4, <1>5, <1>6, <1>7, <1>8, <1>9 DEF PageInv, TruthOK, Started, Known, UnknownStates

\* The page fails for good.
LEMMA ErrorStep ==
    ASSUME PageInv, Show("error"), Done, job # "none", ~got, UNCHANGED <<poll, got>>, UNCHANGED storeVars, Observe
    PROVE  PageInv'
  <1>1. page \in PageRecord /\ "error" \in PageStates
    BY DEF PageInv, PageType, PageRecord, PageStates, Final
  <1>2. /\ page' \in PageRecord /\ page'.state = "error" /\ page'.mode = page.mode
        /\ page'.held = page.held /\ page'.timer = FALSE
    <2>1. page' = SetState(page, "error")
      BY DEF Show
    <2> QED
      BY <1>1, <2>1, SetStateEffect DEF PageRecord
  <1>3. job' = "none" /\ reply' = None /\ poll = NoPoll /\ ~page.held
    BY DEF Done, PageInv, PageType, FlowOK, Jobs
  <1>4. PageType' /\ FlowOK'
    BY <1>2, <1>3, ErrorsTrue DEF PageInv, PageType, FlowOK, PageRecord, Jobs
  <1>5. ReplyTrue(poll.reply)'
    BY <1>3, ErrorsTrue DEF ReplyTrue, NoPoll
  <1>6. PageTrue'
    BY <1>2, <1>3 DEF PageTrue
  <1>7. ~Started'
    BY <1>2, <1>3 DEF Started
  <1> QED
    BY <1>2, <1>3, <1>4, <1>5, <1>6, <1>7, PageMoves

\* What the page shows for the state the relay told is so.
LEMMA ShownTrue ==
    ASSUME PageInv, NEW r \in Replies, ReplyTrue(r), r.code = "ok", UNCHANGED storeVars, Observe,
           NEW next, next = IF page.mode = "drop" THEN DropStateFor(r.state) ELSE RevealStateFor(r.state)
    PROVE  /\ next \in PageStates \ (Busy \cup {"error", "revealed"})
           /\ next \in {"waiting", "sent"} => page.mode = "drop"
           /\ next = "ready" => page.mode = "reveal"
           /\ next = "sent" => "uploaded" \in seen'
           /\ next = "delivered" => "fetched" \in seen'
           /\ next = "revoked" => "revoked" \in seen'
           /\ next = "opened" => "opened" \in seen' /\ page.mode = "reveal"
           /\ next = "expired" => "forgotten" \in seen' \/ "expired" \in seen' \/ Due(Link)'
  <1>1. r.state \in StatesOf(page.mode) /\ Told(r.state) /\ page.mode \in Kinds
    BY DEF ReplyTrue, PageInv, PageType
  <1>2. Told(r.state) => r.state \in seen' \/ (r.state = "expired" /\ Due(Link)')
    BY StillTrue DEF Told
  <1>3. CASE page.mode = "drop"
    BY <1>1, <1>2, <1>3 DEF StatesOf, DropStateFor, PageStates, Final, Busy
  <1>4. CASE page.mode = "reveal"
    BY <1>1, <1>2, <1>4 DEF StatesOf, RevealStateFor, PageStates, Final, Busy
  <1> QED
    BY <1>1, <1>3, <1>4 DEF Kinds

\* loadStatus takes its answer.
LEMMA LoadStatusStep ==
    ASSUME PageInv, LoadStatus, Observe
    PROVE  PageInv'
  <1> DEFINE next == IF page.mode = "drop" THEN DropStateFor(reply.state) ELSE RevealStateFor(reply.state)
             timed == [page EXCEPT !.timer = TRUE, !.expires = reply.expires]
  <1>1. /\ job = "status" /\ reply # None /\ job' = "none" /\ reply' = None
        /\ UNCHANGED got /\ UNCHANGED storeVars
    BY DEF LoadStatus, Done
  <1>2. page \in PageRecord /\ reply \in Replies /\ ReplyTrue(reply)
    BY DEF PageInv, PageType, PageRecord, TruthOK
  <1>3. page.state = "loading" /\ ~got /\ ~page.held /\ poll = NoPoll /\ ~page.timer /\ Started
    BY <1>1 DEF PageInv, FlowOK, Started
  <1>4. CASE reply.code = "ok"
    <2>1. /\ page' = SetState(timed, next)
          /\ poll' = IF next = "sent" THEN [left |-> MaxPolls, reply |-> None] ELSE poll
      BY <1>4 DEF LoadStatus, WaitForDelivery
    <2>2. /\ next \in PageStates \ (Busy \cup {"error", "revealed"})
          /\ next \in {"waiting", "sent"} => page.mode = "drop"
          /\ next = "ready" => page.mode = "reveal"
          /\ next = "sent" => "uploaded" \in seen'
          /\ next = "delivered" => "fetched" \in seen'
          /\ next = "revoked" => "revoked" \in seen'
          /\ next = "opened" => "opened" \in seen' /\ page.mode = "reveal"
          /\ next = "expired" => "forgotten" \in seen' \/ "expired" \in seen' \/ Due(Link)'
      BY <1>1, <1>2, <1>4, ShownTrue
    <2> HIDE DEF next
    <2>3. timed \in PageRecord /\ timed.mode = page.mode /\ timed.held = page.held /\ timed.expires = reply.expires
      BY <1>2 DEF PageRecord, Replies
    <2>4. /\ page' \in PageRecord /\ page'.state = next /\ page'.mode = page.mode
          /\ page'.held = page.held /\ page'.expires = reply.expires
      <3> HIDE DEF timed
      <3> QED
        BY <2>1, <2>2, <2>3, SetStateEffect
    <2>5. poll' \in [left : Nat, reply : Replies] /\ poll'.reply = None /\ (poll' # NoPoll => next = "sent")
      BY <1>3, <2>1, ErrorsTrue, LinkAssumption DEF NoPoll, PageInv, PageType
    <2>6. PageType' /\ FlowOK'
      BY <1>1, <1>3, <2>2, <2>4, <2>5, ErrorsTrue DEF PageInv, PageType, FlowOK, PageRecord, Jobs, Busy
    <2>7. ExpiresTrue(page.expires)'
      BY <1>1, <1>4, <2>4, StillTrue DEF PageInv, TruthOK, ExpiresTrue
    <2>8. ReplyTrue(poll.reply)'
      BY <2>5, ErrorsTrue DEF ReplyTrue
    <2>9. PageTrue'
      BY <1>1, <1>3, <2>2, <2>4 DEF PageTrue
    <2> QED
      BY <1>1, <1>3, <2>4, <2>6, <2>7, <2>8, <2>9, PageMoves
  <1>5. CASE reply.code = "not_found"
    <2>1. page' = SetState(page, "expired") /\ poll' = poll
      BY <1>5 DEF LoadStatus, Show
    <2>2. /\ page' \in PageRecord /\ page'.state = "expired" /\ page'.mode = page.mode
          /\ page'.held = page.held /\ ~page'.timer
      BY <1>2, <1>3, <2>1, SetStateEffect DEF PageStates, Final
    <2>3. PageType' /\ FlowOK'
      BY <1>1, <1>3, <2>1, <2>2, ErrorsTrue DEF PageInv, PageType, FlowOK, PageRecord, Jobs
    <2>4. "forgotten" \in seen'
      BY <1>1, <1>2, <1>5, StillTrue DEF ReplyTrue
    <2>5. PageTrue' /\ ReplyTrue(poll.reply)'
      BY <1>1, <1>3, <2>1, <2>2, <2>4, ErrorsTrue DEF PageTrue, ReplyTrue, NoPoll
    <2> QED
      BY <1>1, <1>3, <2>2, <2>3, <2>5, PageMoves
  <1>6. CASE reply.code \notin {"ok", "not_found"}
    <2>1. Show("error") /\ Done /\ UNCHANGED poll
      BY <1>6 DEF LoadStatus
    <2> QED
      BY <1>1, <1>3, <2>1, ErrorStep
  <1> QED
    BY <1>4, <1>5, <1>6

\* The countdown reaches the expiry the relay told.
LEMMA CountdownStep ==
    ASSUME PageInv, Countdown, Observe
    PROVE  PageInv'
  <1>1. /\ page.timer /\ Today >= page.expires /\ page.state \in {"waiting", "ready"}
        /\ page' = SetState(page, "expired")
        /\ UNCHANGED <<job, reply, poll, got>> /\ UNCHANGED storeVars
    BY DEF Countdown, Show
  <1>2. /\ page' \in PageRecord /\ page'.state = "expired" /\ page'.mode = page.mode /\ page'.locked = page.locked
        /\ page'.held = page.held /\ page'.expires = page.expires
    BY <1>1, SetStateEffect DEF PageInv, PageType, PageRecord, PageStates, Final
  <1>3. job = "none" /\ reply = None /\ poll = NoPoll /\ Started
    BY <1>1 DEF PageInv, PageType, FlowOK, Jobs, Started
  <1>4. PageType' /\ FlowOK'
    BY <1>1, <1>2, <1>3 DEF PageInv, PageType, FlowOK, PageRecord
  <1>5. ExpiresTrue(page.expires) /\ ExpiresTrue(page.expires)'
    BY <1>1, <1>2, StillTrue DEF PageInv, TruthOK, ExpiresTrue
  <1>6. "forgotten" \in seen' \/ LooksOver'
    BY <1>1, <1>2, <1>5, StillTrue DEF ExpiresTrue, LooksOver
  <1>7. PageTrue'
    BY <1>1, <1>2, <1>6, StillTrue DEF PageInv, TruthOK, PageTrue
  <1>8. ReplyTrue(poll.reply)'
    BY <1>1, <1>3, ErrorsTrue DEF ReplyTrue, NoPoll
  <1> QED
    BY <1>1, <1>2, <1>3, <1>4, <1>5, <1>7, <1>8, PageMoves DEF PageInv, TruthOK

\* What has to be so for the page to say it.
MayShow(next) ==
    /\ next = "sent" => "uploaded" \in seen
    /\ next = "delivered" => "fetched" \in seen
    /\ next = "revoked" => "revoked" \in seen
    /\ next = "opened" => "opened" \in seen /\ ~got
    /\ next = "expired" => "forgotten" \in seen \/ "expired" \in seen \/ Due(Link)

\* A flow ends, or the poll does, and the card shows what came of it.
LEMMA ShowStep ==
    ASSUME PageInv, Started, NEW next \in PageStates \ (Busy \cup {"revealed"}), Show(next),
           job' = "none", reply' = None, UNCHANGED got, UNCHANGED storeVars, Observe,
           poll' \in [left : Nat, reply : {None}], poll' # NoPoll => next = "sent",
           next \in {"waiting", "sent"} => page.mode = "drop",
           next = "ready" => page.mode = "reveal",
           got => page.state \in {"ready", "revealing"} /\ next \in {"ready", "expired", "error"},
           MayShow(next)'
    PROVE  PageInv'
  <1>1. /\ page' \in PageRecord /\ page'.state = next /\ page'.mode = page.mode /\ page'.locked = page.locked
        /\ page'.held = page.held /\ page'.expires = page.expires
        /\ page'.timer => page.timer /\ next # "error"
    <2>1. page' = SetState(page, next) /\ page \in PageRecord
      BY DEF Show, PageInv, PageType, PageRecord
    <2> QED
      BY <2>1, SetStateEffect
  <1>2. PageType'
    BY <1>1, ErrorsTrue DEF PageInv, PageType, PageRecord, Jobs
  <1>3. FlowOK'
    BY <1>1 DEF PageInv, FlowOK, Busy
  <1>4. page'.timer => ExpiresTrue(page.expires)'
    BY <1>1, StillTrue DEF PageInv, TruthOK, ExpiresTrue
  <1>5. ReplyTrue(poll.reply)'
    BY ErrorsTrue DEF ReplyTrue
  <1>6. PageTrue'
    BY <1>1, StillTrue DEF PageInv, TruthOK, PageTrue, MayShow
  <1>7. got' => handed[Link] = 1
    BY DEF PageInv, TruthOK
  <1> QED
    BY <1>1, <1>2, <1>3, <1>4, <1>5, <1>6, <1>7, PageMoves

\* A flow begins.
LEMMA BeginStep ==
    ASSUME PageInv, NEW next \in {"sending", "revealing"}, Show(next), NEW j \in {"upload", "key", "open"},
           job' = j, UNCHANGED <<reply, poll, got>>, UNCHANGED storeVars, Observe,
           \/ next = "sending" /\ page.state = "waiting" /\ j = "upload"
           \/ next = "revealing" /\ page.state = "ready" /\ j = (IF page.locked THEN "key" ELSE "open")
    PROVE  PageInv'
  <1>1. /\ page' \in PageRecord /\ page'.state = next /\ page'.mode = page.mode /\ page'.locked = page.locked
        /\ page'.held = page.held /\ page'.expires = page.expires
        /\ page'.timer => page.timer /\ next # "error"
    <2>1. page' = SetState(page, next) /\ page \in PageRecord /\ next \in PageStates
      BY DEF Show, PageInv, PageType, PageRecord, PageStates, Busy
    <2> QED
      BY <2>1, SetStateEffect
  <1>2. job = "none" /\ reply = None /\ poll = NoPoll /\ Started
    BY DEF PageInv, PageType, FlowOK, Jobs, Started
  <1>3. PageType' /\ FlowOK'
    BY <1>1, <1>2 DEF PageInv, PageType, FlowOK, PageRecord, Jobs
  <1>4. page'.timer => ExpiresTrue(page.expires)'
    BY <1>1, StillTrue DEF PageInv, TruthOK, ExpiresTrue
  <1>5. ReplyTrue(poll.reply)' /\ reply' = None
    BY <1>2, ErrorsTrue DEF ReplyTrue, NoPoll
  <1>6. PageTrue'
    BY <1>1, StillTrue DEF PageInv, TruthOK, PageTrue
  <1>7. got' => handed[Link] = 1
    BY DEF PageInv, TruthOK
  <1> QED
    BY <1>1, <1>2, <1>3, <1>4, <1>5, <1>6, <1>7, PageMoves

\* submit takes the answer to its upload.
LEMMA SubmittedStep ==
    ASSUME PageInv, Submitted, Observe
    PROVE  PageInv'
  <1> DEFINE next == CASE reply.code \in {"ok", "already_uploaded"} -> "sent"
                       [] reply.code = "gone" /\ reply.state = "fetched" -> "delivered"
                       [] reply.code = "gone" /\ reply.state = "revoked" -> "revoked"
                       [] reply.code = "gone" /\ reply.state \notin {"fetched", "revoked"} -> "expired"
                       [] reply.code = "broken" -> "error"
                       [] OTHER -> "waiting"
  <1>1. /\ job = "upload" /\ Show(next) /\ job' = "none" /\ reply' = None
        /\ poll' = IF reply.code = "ok" THEN [left |-> MaxPolls, reply |-> None] ELSE poll
        /\ UNCHANGED got /\ UNCHANGED storeVars
    BY DEF Submitted, Done, WaitForDelivery
  <1>2. page.state = "sending" /\ page.mode = "drop" /\ ~got /\ poll = NoPoll /\ Started
    BY <1>1 DEF PageInv, FlowOK, Started
  <1>3. /\ reply.code \in {"ok", "gone", "already_uploaded"} =>
              /\ reply.state \in StatesOf("drop")
              /\ reply.state \in seen' \/ (reply.state = "expired" /\ Due(Link)')
        /\ reply.code \in {"ok", "already_uploaded"} => reply.state = "uploaded"
        /\ reply.code = "gone" => reply.state \notin LiveStates
    <2>1. ReplyTrue(reply) /\ (reply.code \in {"ok", "already_uploaded"} => reply.state = "uploaded")
      BY <1>1 DEF PageInv, TruthOK
    <2>2. \A s : Told(s) => s \in seen' \/ (s = "expired" /\ Due(Link)')
      BY <1>1, StillTrue DEF Told
    <2> QED
      BY <1>2, <2>1, <2>2 DEF ReplyTrue
  <1>4. PICK shown : shown = next
    OBVIOUS
  <1>5. /\ shown \in PageStates \ (Busy \cup {"revealed", "ready", "opened"})
        /\ reply.code = "ok" => shown = "sent"
    BY <1>4 DEF PageStates, Final, Busy
  <1>6. MayShow(shown)'
    BY <1>3, <1>4 DEF MayShow, StatesOf, LiveStates
  <1>7. Show(shown)
    BY <1>1, <1>4
  <1> HIDE DEF next
  <1>8. poll' \in [left : Nat, reply : {None}] /\ (poll' # NoPoll => shown = "sent")
    BY <1>1, <1>2, <1>5, LinkAssumption DEF NoPoll
  <1> QED
    BY <1>1, <1>2, <1>5, <1>6, <1>7, <1>8, ShowStep

\* waitForDelivery's request is answered, or fails.
LEMMA PollAnsweredStep ==
    ASSUME PageInv, PollAnswered, Observe
    PROVE  PageInv'
  <1>1. PICK r \in {StatusReply, Network, Refused} : poll' = [poll EXCEPT !.reply = r]
    BY DEF PollAnswered
  <1>2. poll.left > 0 /\ UNCHANGED <<page, job, reply, got>> /\ UNCHANGED storeVars
    BY DEF PollAnswered
  <1>3. page.state = "sent" /\ Started
    BY <1>2 DEF PageInv, PageType, FlowOK, NoPoll, Started
  <1>4. r \in Replies /\ ReplyTrue(r)'
    <2>1. CASE r = StatusReply
      BY <1>2, <1>3, <2>1, StatusTrue DEF ReplyTrue
    <2>2. CASE r \in {Network, Refused}
      BY <2>2, ErrorsTrue
    <2> QED
      BY <2>1, <2>2
  <1>5. poll' \in [left : Nat, reply : Replies] /\ poll'.reply = r /\ poll'.left = poll.left
    BY <1>1, <1>4 DEF PageInv, PageType
  <1>6. PageType' /\ FlowOK'
    BY <1>2, <1>3, <1>5 DEF PageInv, PageType, FlowOK
  <1>7. job = "none" /\ reply = None
    BY <1>3 DEF PageInv, PageType, FlowOK, Jobs
  <1>8. PageTrue'
    BY <1>2, StillTrue DEF PageInv, TruthOK, PageTrue
  <1>9. ReplyTrue(poll.reply)'
    BY <1>4, <1>5 DEF ReplyTrue
  <1>10. page'.timer => ExpiresTrue(page.expires)'
    BY <1>2, StillTrue DEF PageInv, TruthOK, ExpiresTrue
  <1>11. got' => handed[Link] = 1
    BY <1>2 DEF PageInv, TruthOK
  <1> QED
    BY <1>2, <1>3, <1>6, <1>7, <1>8, <1>9, <1>10, <1>11, PageMoves

\* waitForDelivery takes an answer: the delivery, an end, or one to ask again after.
LEMMA PollStepStep ==
    ASSUME PageInv, PollStep, Observe
    PROVE  PageInv'
  <1> DEFINE ends == \/ poll.reply.code = "not_found"
                     \/ poll.reply.code = "ok" /\ poll.reply.state # "uploaded"
             next == IF poll.reply.code = "ok" THEN DropStateFor(poll.reply.state) ELSE "expired"
  <1>1. /\ poll.reply # None
        /\ IF ends /\ ~page.aborted THEN Show(next) ELSE UNCHANGED page
        /\ poll' = IF ends \/ page.aborted THEN NoPoll ELSE [left |-> poll.left - 1, reply |-> None]
        /\ UNCHANGED <<job, reply, got>> /\ UNCHANGED storeVars
    BY DEF PollStep
  <1>2. /\ page.state = "sent" /\ Started /\ page.mode = "drop" /\ ~got
        /\ job = "none" /\ reply = None
    BY <1>1 DEF PageInv, PageType, FlowOK, NoPoll, Started, Jobs
  <1>3. poll.reply \in Replies /\ ReplyTrue(poll.reply) /\ poll.left \in Nat
    BY DEF PageInv, PageType, TruthOK
  <1>4. CASE ends /\ ~page.aborted
    <2>1. PICK shown : shown = next
      OBVIOUS
    <2>2. shown \in PageStates \ (Busy \cup {"revealed", "error", "opened", "ready"}) /\ MayShow(shown)'
      <3>1. CASE poll.reply.code = "ok"
        <4>1. shown = IF page.mode = "drop" THEN DropStateFor(poll.reply.state)
                      ELSE RevealStateFor(poll.reply.state)
          BY <1>2, <2>1, <3>1
        <4>2. /\ shown \in PageStates \ (Busy \cup {"error", "revealed"})
              /\ shown = "ready" => page.mode = "reveal"
              /\ shown = "sent" => "uploaded" \in seen'
              /\ shown = "delivered" => "fetched" \in seen'
              /\ shown = "revoked" => "revoked" \in seen'
              /\ shown = "opened" => "opened" \in seen' /\ page.mode = "reveal"
              /\ shown = "expired" => "forgotten" \in seen' \/ "expired" \in seen' \/ Due(Link)'
          BY <1>1, <1>3, <3>1, <4>1, ShownTrue
        <4> QED
          BY <1>2, <4>2 DEF MayShow
      <3>2. CASE poll.reply.code = "not_found"
        <4>1. shown = "expired" /\ "forgotten" \in seen'
          BY <1>1, <1>3, <2>1, <3>2, StillTrue DEF ReplyTrue
        <4> QED
          BY <4>1 DEF MayShow, PageStates, Final, Busy
      <3> QED
        BY <1>4, <3>1, <3>2
    <2>3. Show(shown) /\ poll' = NoPoll
      BY <1>1, <1>4, <2>1
    <2>4. poll' \in [left : Nat, reply : {None}]
      BY <2>3 DEF NoPoll
    <2> QED
      BY <1>1, <1>2, <2>2, <2>3, <2>4, ShowStep
  <1>5. CASE ~(ends /\ ~page.aborted)
    <2>1. page' = page /\ poll' \in {NoPoll, [left |-> poll.left - 1, reply |-> None]}
      BY <1>1, <1>5
    <2>2. poll.left - 1 \in Nat
      BY <1>1, <1>3 DEF PageInv, FlowOK
    <2>3. poll' \in [left : Nat, reply : {None}]
      BY <2>1, <2>2 DEF NoPoll
    <2>4. PageType' /\ FlowOK'
      BY <1>1, <1>2, <2>1, <2>3, ErrorsTrue DEF PageInv, PageType, FlowOK
    <2>5. PageTrue'
      BY <1>1, <2>1, StillTrue DEF PageInv, TruthOK, PageTrue
    <2>6. ReplyTrue(poll.reply)'
      BY <2>3, ErrorsTrue DEF ReplyTrue
    <2>7. page'.timer => ExpiresTrue(page.expires)'
      BY <1>1, <2>1, StillTrue DEF PageInv, TruthOK, ExpiresTrue
    <2> QED
      BY <1>1, <1>2, <2>1, <2>4, <2>5, <2>6, <2>7, PageMoves
  <1> QED
    BY <1>4, <1>5

\* decryptEnvelope on the ciphertext the page was given.
LEMMA DecryptStep ==
    ASSUME PageInv, NEW right \in BOOLEAN, Decrypt(right), page.state = "revealing", poll' = poll,
           got' = TRUE, handed[Link] = 1, UNCHANGED storeVars, Observe
    PROVE  PageInv'
  <1>1. job' = "none" /\ reply' = None /\ poll = NoPoll /\ Started /\ page.mode = "reveal"
    BY DEF Decrypt, Done, PageInv, FlowOK, Started
  <1>2. page \in PageRecord
    BY DEF PageInv, PageType, PageRecord
  <1>3. /\ page' \in PageRecord /\ page'.mode = page.mode /\ page'.locked = page.locked
        /\ page'.expires = page.expires /\ page'.state \in {"revealed", "ready", "error"}
        /\ page'.timer => page.timer /\ page'.state # "error"
        /\ page'.state = "ready" => page'.held
        /\ page'.held => page.locked
    <2>1. CASE right
      <3>1. page' = [SetState(page, "revealed") EXCEPT !.held = FALSE]
        BY <2>1 DEF Decrypt
      <3>2. LET q == SetState(page, "revealed") IN
            /\ q \in PageRecord /\ q.state = "revealed" /\ q.mode = page.mode /\ q.locked = page.locked
            /\ q.expires = page.expires /\ (q.timer => page.timer)
        BY <1>2, SetStateEffect DEF PageStates, Final
      <3>3. /\ page' \in PageRecord /\ page'.state = "revealed" /\ page'.mode = page.mode
            /\ page'.locked = page.locked /\ page'.held = FALSE /\ page'.expires = page.expires
            /\ page'.timer => page.timer
        BY <3>1, <3>2 DEF PageRecord
      <3> QED
        BY <3>3
    <2>2. CASE ~right /\ page.locked
      <3>1. page' = [SetState(page, "ready") EXCEPT !.held = TRUE]
        BY <2>2 DEF Decrypt
      <3>2. LET q == SetState(page, "ready") IN
            /\ q \in PageRecord /\ q.state = "ready" /\ q.mode = page.mode /\ q.locked = page.locked
            /\ q.expires = page.expires /\ (q.timer => page.timer)
        BY <1>2, SetStateEffect DEF PageStates
      <3>3. /\ page' \in PageRecord /\ page'.state = "ready" /\ page'.mode = page.mode
            /\ page'.locked = page.locked /\ page'.held = TRUE /\ page'.expires = page.expires
            /\ page'.timer => page.timer
        BY <3>1, <3>2 DEF PageRecord
      <3> QED
        BY <2>2, <3>3
    <2>3. CASE ~right /\ ~page.locked
      <3>1. page' = SetState(page, "error")
        BY <2>3 DEF Decrypt
      <3>2. /\ page' \in PageRecord /\ page'.state = "error" /\ page'.mode = page.mode
            /\ page'.locked = page.locked /\ page'.held = page.held /\ page'.expires = page.expires
            /\ ~page'.timer
        BY <1>2, <3>1, SetStateEffect DEF PageStates, Final, PageRecord
      <3>3. ~page.held
        BY <2>3 DEF PageInv, FlowOK
      <3> QED
        BY <3>2, <3>3
    <2> QED
      BY <2>1, <2>2, <2>3
  <1>4. PageType' /\ FlowOK'
    BY <1>1, <1>3, ErrorsTrue DEF PageInv, PageType, FlowOK, PageRecord, Jobs
  <1>5. page'.timer => ExpiresTrue(page.expires)'
    BY <1>3, StillTrue DEF PageInv, TruthOK, ExpiresTrue
  <1>6. PageTrue'
    BY <1>3, StillTrue DEF PageTrue
  <1>7. ReplyTrue(poll.reply)'
    BY <1>1, ErrorsTrue DEF ReplyTrue, NoPoll
  <1> QED
    BY <1>1, <1>3, <1>4, <1>5, <1>6, <1>7, PageMoves

\* The key is derived: the ciphertext is here already, or is asked for.
LEMMA DeriveKeyStep ==
    ASSUME PageInv, NEW right \in BOOLEAN, DeriveKey(right), Observe
    PROVE  PageInv'
  <1>1. job = "key" /\ UNCHANGED <<poll, got>> /\ UNCHANGED storeVars
    BY DEF DeriveKey
  <1>2. page.state = "revealing" /\ reply = None /\ poll = NoPoll /\ Started
    BY <1>1 DEF PageInv, FlowOK, Started
  <1>3. CASE page.held
    <2>1. got /\ handed[Link] = 1 /\ got \in BOOLEAN
      BY <1>3 DEF PageInv, PageType, FlowOK, TruthOK
    <2> QED
      BY <1>1, <1>2, <1>3, <2>1, DecryptStep DEF DeriveKey
  <1>4. CASE ~page.held
    <2>1. job' = "open" /\ UNCHANGED <<page, reply>>
      BY <1>4 DEF DeriveKey
    <2>2. PageType' /\ FlowOK'
      BY <1>1, <1>2, <1>4, <2>1 DEF PageInv, PageType, FlowOK, Jobs
    <2>3. PageTrue'
      BY <1>1, <2>1, StillTrue DEF PageInv, TruthOK, PageTrue
    <2>4. page'.timer => ExpiresTrue(page.expires)'
      BY <1>1, <2>1, StillTrue DEF PageInv, TruthOK, ExpiresTrue
    <2>5. ReplyTrue(poll.reply)'
      BY <1>1, <1>2, ErrorsTrue DEF ReplyTrue, NoPoll
    <2>6. got' => handed[Link] = 1
      BY <1>1 DEF PageInv, TruthOK
    <2> QED
      BY <1>1, <1>2, <2>1, <2>2, <2>3, <2>4, <2>5, <2>6, PageMoves
  <1> QED
    BY <1>3, <1>4

\* doReveal takes the answer to its open.
LEMMA OpenedStep ==
    ASSUME PageInv, NEW right \in BOOLEAN, Opened(right), Observe
    PROVE  PageInv'
  <1>1. job = "open" /\ reply # None /\ UNCHANGED poll /\ UNCHANGED storeVars
    BY DEF Opened
  <1>2. page.state = "revealing" /\ page.mode = "reveal" /\ ~got /\ poll = NoPoll /\ Started
    BY <1>1 DEF PageInv, FlowOK, Started
  <1>3. CASE reply.code = "ok"
    <2>1. handed[Link] = 1
      BY <1>1, <1>3 DEF PageInv, TruthOK
    <2> QED
      BY <1>1, <1>2, <1>3, <2>1, DecryptStep DEF Opened
  <1>4. CASE reply.code # "ok"
    <2> DEFINE next == CASE reply.code = "gone" /\ reply.state \in {"opened", "revoked"} -> reply.state
                         [] reply.code = "not_found" -> "expired"
                         [] reply.code = "gone" /\ reply.state \notin {"opened", "revoked"} -> "expired"
                         [] OTHER -> "ready"
    <2>1. Show(next) /\ job' = "none" /\ reply' = None /\ UNCHANGED got
      BY <1>4 DEF Opened, Done
    <2>2. /\ reply.code = "gone" => /\ reply.state \in {"opened", "revoked", "expired"}
                                    /\ reply.state \in seen' \/ (reply.state = "expired" /\ Due(Link)')
          /\ reply.code = "not_found" => "forgotten" \in seen'
      <3>1. ReplyTrue(reply)
        BY DEF PageInv, TruthOK
      <3>2. \A s : Told(s) => s \in seen' \/ (s = "expired" /\ Due(Link)')
        BY <1>1, StillTrue DEF Told
      <3>3. seen \subseteq seen'
        BY <1>1, StillTrue
      <3> QED
        BY <1>2, <3>1, <3>2, <3>3 DEF ReplyTrue, StatesOf, LiveStates
    <2>3. PICK shown : shown = next
      OBVIOUS
    <2>4. shown \in {"opened", "revoked", "expired", "ready"}
      BY <2>2, <2>3
    <2>5. MayShow(shown)'
      BY <1>2, <2>1, <2>2, <2>3 DEF MayShow
    <2>6. Show(shown)
      BY <2>1, <2>3
    <2> HIDE DEF next
    <2>7. shown \in PageStates \ (Busy \cup {"revealed"})
      BY <2>4 DEF PageStates, Final, Busy
    <2>8. poll' \in [left : Nat, reply : {None}] /\ poll' = NoPoll
      BY <1>1, <1>2 DEF NoPoll
    <2> QED
      BY <1>1, <1>2, <2>1, <2>4, <2>5, <2>6, <2>7, <2>8, ShowStep
  <1> QED
    BY <1>3, <1>4

\* The key cannot be derived; the human may try again.
LEMMA KeyFailsStep ==
    ASSUME PageInv, KeyFails, Observe
    PROVE  PageInv'
  <1>1. /\ job = "key" /\ Show("ready") /\ job' = "none" /\ reply' = None
        /\ UNCHANGED <<poll, got>> /\ UNCHANGED storeVars
    BY DEF KeyFails, Done
  <1>2. page.state = "revealing" /\ page.mode = "reveal" /\ poll = NoPoll /\ Started
    BY <1>1 DEF PageInv, FlowOK, Started
  <1>3. "ready" \in PageStates \ (Busy \cup {"revealed"}) /\ MayShow("ready")'
    BY DEF PageStates, Busy, MayShow
  <1>4. poll' \in [left : Nat, reply : {None}] /\ poll' = NoPoll
    BY <1>1, <1>2 DEF NoPoll
  <1> QED
    BY <1>1, <1>2, <1>3, <1>4, ShowStep

----------------------------------------------------------------------------

\* Every step of the page, the relay and the others keeps the page true.
LEMMA PageInvStep ==
    ASSUME PageInv, [PageNext]_allVars
    PROVE  PageInv'
  <1>1. CASE UNCHANGED allVars
    <2>1. StoreOK' /\ Onward
      BY <1>1 DEF allVars, PageInv, StoreOK, Onward, Known, Due, LooksOver, Today
    <2> QED
      BY <1>1, <2>1, PageFrame DEF allVars
  <1>2. CASE PageNext
    <2>0. Observe
      BY <1>2 DEF PageNext
    <2>1. CASE Others
      <3>1. StoreStep /\ UNCHANGED <<page, job, reply, poll, got>>
        BY <2>1 DEF Others, StoreStep
      <3> QED
        BY <2>0, <3>1, StoreMoves, PageFrame DEF PageInv
    <2>2. CASE Human
      <3>1. ASSUME NEW locked \in BOOLEAN, Boot(locked) PROVE PageInv'
        BY <2>0, <3>1, BootStep
      <3>2. CASE BadLink
        <4>1. /\ job = "boot" /\ Show("error") /\ Done
              /\ UNCHANGED <<poll, got>> /\ UNCHANGED storeVars
          BY <3>2 DEF BadLink
        <4>2. ~got
          BY <4>1 DEF PageInv, FlowOK
        <4> QED
          BY <2>0, <4>1, <4>2, ErrorStep
      <3>3. CASE Submit
        BY <2>0, <3>3, BeginStep DEF Submit
      <3>4. CASE DoReveal
        BY <2>0, <3>4, BeginStep DEF DoReveal
      <3> QED
        BY <2>2, <3>1, <3>2, <3>3, <3>4 DEF Human
    <2>3. CASE Relay
      <3>1. CASE Unanswered
        <4>1. StoreOK' /\ Onward
          BY <2>0, <3>1, StillTrue DEF Unanswered
        <4> QED
          BY <3>1, <4>1, LostStep DEF Unanswered
      <3> QED
        BY <2>0, <2>3, <3>1, AnswerStatusStep, AnswerUploadStep, AnswerOpenStep, PollAnsweredStep DEF Relay
    <2>4. CASE Script
      <3>1. CASE SealFails
        <4>1. /\ job = "upload" /\ Show("error") /\ Done
              /\ UNCHANGED <<poll, got>> /\ UNCHANGED storeVars
          BY <3>1 DEF SealFails
        <4>2. ~got
          BY <4>1 DEF PageInv, FlowOK
        <4> QED
          BY <2>0, <4>1, <4>2, ErrorStep
      <3> QED
        BY <2>0, <2>4, <3>1, LoadStatusStep, SubmittedStep, PollStepStep, KeyFailsStep, DeriveKeyStep, OpenedStep
        DEF Script
    <2>5. CASE Countdown
      BY <2>0, <2>5, CountdownStep
    <2> QED
      BY <1>2, <2>1, <2>2, <2>3, <2>4, <2>5 DEF PageNext
  <1> QED
    BY <1>1, <1>2

\* The invariant holds in every behaviour of page, relay and others.
THEOREM PageInvariant == PageSpec => []PageInv
  <1>1. PageInit => PageInv
    <2> SUFFICES ASSUME PageInit PROVE PageInv
      OBVIOUS
    <2>1. None \in Replies /\ ReplyTrue(None)
      BY ErrorsTrue
    <2>2. StoreOK
      BY LinkAssumption, SkewsAssumption DEF PageInit, Init, StoreOK, Unknown, SlotStates, UnknownStates, LiveStates, Kinds
    <2>3. PageType /\ FlowOK
      BY <2>1 DEF PageInit, PageType, FlowOK, NoPoll, PageStates, Busy, Jobs, Kinds
    <2>4. TruthOK
      BY <2>1 DEF PageInit, TruthOK, Started, NoPoll, PageTrue
    <2> QED
      BY <2>2, <2>3, <2>4 DEF PageInv
  <1> QED
    BY <1>1, PageInvStep, PTL DEF PageSpec

\* What the page tells the human of the slot is so, however late the answers
\* it goes by are, whatever gets lost, and whatever other browsers, the agent
\* and the relay do with the slot in between, and however far the browser's
\* clock is off: a link it calls expired is over, or that clock says it is
\* (page.ts, state.ts).
THEOREM PageIsTrue == PageSpec => []PageTrue
  <1>1. PageInv => PageTrue
    BY DEF PageInv, TruthOK
  <1> QED
    BY <1>1, PageInvariant, PTL

\* What the page ended with stays on it: setState's ends are ends, whichever
\* answer, poll or tick of the countdown comes late (page.ts).
THEOREM EndsStay == PageSpec => EndStays
  <1>1. PageInv /\ [PageNext]_allVars => [page.state \in Final => page'.state = page.state]_allVars
    <2> SUFFICES ASSUME PageInv, PageNext, page.state \in Final PROVE page' = page
      OBVIOUS
    <2>1. job = "none" /\ reply = None /\ poll = NoPoll /\ poll.reply = None
      BY DEF PageInv, PageType, FlowOK, Jobs, Final, NoPoll
    <2> QED
      BY <2>1 DEF PageNext, Others, Human, Relay, Script, Boot, BadLink, Submit, DoReveal, AnswerStatus, Unanswered,
         PollAnswered, AnswerUpload, AnswerOpen, Answers, LoadStatus, SealFails, Submitted, PollStep, KeyFails,
         DeriveKey, Opened, Countdown, Final
  <1> QED
    BY <1>1, PageInvariant, PTL DEF PageSpec, EndStays
=============================================================================
