----------------------------- MODULE DropPage -----------------------------
(***************************************************************************)
(* The page a human opens a link with, web/src/page.ts, state.ts and       *)
(* api.ts, against a relay that keeps the contract of its slot store       *)
(* (SlotStore).  The page is a state machine over one card that several    *)
(* things drive at once: the human's clicks, the answer to a request, the  *)
(* long poll that waits for the delivery and the countdown.  A request is  *)
(* answered with what the relay has at one time and the answer applied at  *)
(* a later one; it may get lost on its way or on its way back.             *)
(*                                                                         *)
(* Other browsers with the same link, the agent and the relay's own expiry *)
(* move the slot in between.  The countdown goes by the browser's clock,   *)
(* which may be ahead of the relay's or behind it.                         *)
(***************************************************************************)
EXTENDS SlotStore

CONSTANTS
    Link,       \* the slot the link is for
    MaxPolls,   \* how often waitForDelivery asks
    Skews,      \* how far the browser's clock may be ahead of the relay's
    Horizon     \* bound on the clock

ASSUME LinkAssumption == Link \in Ids /\ MaxPolls \in Nat \ {0} /\ Horizon \in Nat
ASSUME TTLsAssumption == TTLs \subseteq Nat
ASSUME SkewsAssumption == Skews \subseteq Int

VARIABLES
    page,       \* the fields of Page
    job,        \* what the flow the human started, or boot, is waiting for
    reply,      \* the answer to it
    poll,       \* waitForDelivery: asks left, and the answer
    skew,       \* how far the browser's clock is ahead
    seen,       \* history: states the slot has been in
    got         \* history: whether this page was given the ciphertext

storeVars == <<now, slot, handed>>
allVars == <<now, slot, handed, page, job, reply, poll, skew, seen, got>>

Reply(code, state, expires) == [code |-> code, state |-> state, expires |-> expires]
Error(code) == Reply(code, "none", 0)
None == Error("none")
NotFound == Error("not_found")
Network == Error("network")     \* fetch throws: a RelayError
Broken == Error("broken")       \* reading the body throws: no RelayError
Refused == Error("refused")     \* any other error: rate_limited, store_full, ...

NoPoll == [left |-> 0, reply |-> None]

Final == {"delivered", "expired", "revoked", "error", "opened", "revealed"}
Busy == {"loading", "sending", "revealing"}

\* dropStateFor and revealStateFor.
DropStateFor(s) == CASE s = "created" -> "waiting"
                     [] s = "uploaded" -> "sent"
                     [] s = "fetched" -> "delivered"
                     [] s = "revoked" -> "revoked"
                     [] OTHER -> "expired"
RevealStateFor(s) == CASE s = "created" -> "ready"
                       [] s = "opened" -> "opened"
                       [] s = "revoked" -> "revoked"
                       [] OTHER -> "expired"

\* setState: an end aborts the poll and stops the countdown, except that the
\* countdown goes on while a value is shown.
SetState(p, next) ==
    [p EXCEPT !.state = next,
              !.aborted = @ \/ next \in Final,
              !.timer = @ /\ (next \in Final => next = "revealed")]

PageInit ==
    /\ Init
    /\ page = [mode |-> "drop", locked |-> FALSE, state |-> "loading", expires |-> 0,
               timer |-> FALSE, held |-> FALSE, aborted |-> FALSE]
    /\ job = "boot" /\ reply = None /\ poll = NoPoll
    /\ skew \in Skews
    /\ seen = {} /\ got = FALSE

----------------------------------------------------------------------------
(* The relay answers.                                                      *)

\* What a call finds: a slot whose time is up is expired for every call.
Found == IF Live(Link) /\ Due(Link) THEN "expired" ELSE slot[Link].state

StatusReply == IF Found \in UnknownStates THEN NotFound ELSE Reply("ok", Found, slot[Link].expires)
GoneReply == IF Found \in UnknownStates THEN NotFound ELSE Reply("gone", Found, 0)

Answers(what, r, heard) ==
    /\ job = what /\ reply = None
    /\ reply' \in IF heard THEN {r} ELSE {Network, Broken}
    /\ UNCHANGED <<page, job, poll, got>>

AnswerStatus == Answers("status", StatusReply, TRUE) /\ UNCHANGED storeVars

AnswerUpload(heard) ==
    IF Found = "created"
    THEN /\ Answers("upload", Reply("ok", "uploaded", 0), heard)
         /\ \E n \in Sizes : Upload(Link, n)
    ELSE /\ Answers("upload", IF Found = "uploaded" THEN Reply("already_uploaded", Found, 0)
                              ELSE GoneReply, heard)
         /\ UNCHANGED storeVars

AnswerOpen(heard) ==
    IF Found = "created"
    THEN Answers("open", Reply("ok", "opened", 0), heard) /\ Take(Link, "opened")
    ELSE Answers("open", GoneReply, heard) /\ UNCHANGED storeVars

\* The request does not arrive, or is refused before it reaches the store.
Unanswered ==
    /\ job \in {"status", "upload", "open"} /\ reply = None
    /\ reply' \in {Network, Broken, Refused}
    /\ UNCHANGED <<page, job, poll, got>> /\ UNCHANGED storeVars

----------------------------------------------------------------------------
(* Loading.                                                                *)

Show(next) == page' = SetState(page, next)
Done == job' = "none" /\ reply' = None
WaitForDelivery == poll' = [left |-> MaxPolls, reply |-> None]

\* boot: the link is read; its key is protected by a password, or not.
Boot(locked) ==
    /\ job = "boot" /\ slot[Link].state \notin {"fresh"}
    /\ \E mode \in Kinds :
          /\ slot[Link].state # "forgotten" => mode = slot[Link].kind
          /\ page' = [page EXCEPT !.mode = mode, !.locked = locked /\ mode = "reveal"]
    /\ job' = "status"
    /\ UNCHANGED <<reply, poll, got>> /\ UNCHANGED storeVars

\* It cannot be read, or points at another relay.
BadLink ==
    /\ job = "boot"
    /\ Show("error") /\ Done
    /\ UNCHANGED <<poll, got>> /\ UNCHANGED storeVars

\* loadStatus and startCountdown.
LoadStatus ==
    LET next == IF page.mode = "drop" THEN DropStateFor(reply.state) ELSE RevealStateFor(reply.state)
        timed == [page EXCEPT !.timer = TRUE, !.expires = reply.expires] IN
    /\ job = "status" /\ reply # None
    /\ CASE reply.code = "ok" -> page' = SetState(timed, next)
         [] reply.code = "not_found" -> Show("expired")
         [] OTHER -> Show("error")
    /\ IF reply.code = "ok" /\ next = "sent" THEN WaitForDelivery ELSE UNCHANGED poll
    /\ Done
    /\ UNCHANGED got /\ UNCHANGED storeVars

\* new Date().
Today == now + skew

\* Mutant: the countdown ends the page whatever it shows.
Countdown_AnyState ==
    /\ page.timer /\ Today >= page.expires
    /\ page.state # "expired"
    /\ Show("expired")
    /\ UNCHANGED <<job, reply, poll, got>> /\ UNCHANGED storeVars

\* tick of startCountdown.
Countdown ==
    /\ page.timer /\ Today >= page.expires
    /\ page.state \in {"waiting", "ready"}
    /\ Show("expired")
    /\ UNCHANGED <<job, reply, poll, got>> /\ UNCHANGED storeVars

----------------------------------------------------------------------------
(* A drop.                                                                 *)

\* submit, past its checks of the input.
Submit ==
    /\ page.mode = "drop" /\ page.state = "waiting"
    /\ Show("sending") /\ job' = "upload"
    /\ UNCHANGED <<reply, poll, got>> /\ UNCHANGED storeVars

\* Sealing fails: an error that does not come from the relay.
SealFails ==
    /\ job = "upload" /\ reply = None
    /\ Show("error") /\ Done
    /\ UNCHANGED <<poll, got>> /\ UNCHANGED storeVars

Submitted ==
    /\ job = "upload" /\ reply # None
    /\ Show(CASE reply.code \in {"ok", "already_uploaded"} -> "sent"
              [] reply.code = "gone" /\ reply.state = "fetched" -> "delivered"
              [] reply.code = "gone" /\ reply.state = "revoked" -> "revoked"
              [] reply.code = "gone" /\ reply.state \notin {"fetched", "revoked"} -> "expired"
              [] reply.code = "broken" -> "error"
              [] OTHER -> "waiting")
    /\ IF reply.code = "ok" THEN WaitForDelivery ELSE UNCHANGED poll
    /\ Done
    /\ UNCHANGED got /\ UNCHANGED storeVars

\* waitForDelivery: a long poll is answered, or fails.
PollAnswered ==
    /\ poll.left > 0 /\ poll.reply = None
    /\ \E r \in {StatusReply, Network, Refused} : poll' = [poll EXCEPT !.reply = r]
    /\ UNCHANGED <<page, job, reply, got>> /\ UNCHANGED storeVars

PollStep ==
    LET ends == poll.reply.code = "not_found" \/ (poll.reply.code = "ok" /\ poll.reply.state # "uploaded")
        next == IF poll.reply.code = "ok" THEN DropStateFor(poll.reply.state) ELSE "expired" IN
    /\ poll.reply # None
    /\ IF ends /\ ~page.aborted THEN Show(next) ELSE UNCHANGED page
    /\ poll' = IF ends \/ page.aborted THEN NoPoll ELSE [left |-> poll.left - 1, reply |-> None]
    /\ UNCHANGED <<job, reply, got>> /\ UNCHANGED storeVars

----------------------------------------------------------------------------
(* A reveal.                                                               *)

\* doReveal: the key of a link with a password takes a moment to derive.
DoReveal ==
    /\ page.mode = "reveal" /\ page.state = "ready"
    /\ Show("revealing") /\ job' = IF page.locked THEN "key" ELSE "open"
    /\ UNCHANGED <<reply, poll, got>> /\ UNCHANGED storeVars

\* decryptEnvelope, with a key that is right or not.  The ciphertext is kept
\* while a wrong password is tried again.
Decrypt(right) ==
    /\ page' = IF right THEN [SetState(page, "revealed") EXCEPT !.held = FALSE]
               ELSE IF page.locked THEN [SetState(page, "ready") EXCEPT !.held = TRUE]
               ELSE SetState(page, "error")
    /\ Done

\* Mutant: the relay is asked again.
DeriveKey_AsksAgain(right) ==
    /\ job = "key"
    /\ job' = "open" /\ UNCHANGED <<page, reply>>
    /\ UNCHANGED <<poll, got>> /\ UNCHANGED storeVars

DeriveKey(right) ==
    /\ job = "key"
    /\ IF page.held THEN Decrypt(right) ELSE job' = "open" /\ UNCHANGED <<page, reply>>
    /\ UNCHANGED <<poll, got>> /\ UNCHANGED storeVars

KeyFails ==
    /\ job = "key"
    /\ Show("ready") /\ Done
    /\ UNCHANGED <<poll, got>> /\ UNCHANGED storeVars

\* Mutant: a slot the relay does not know is not provided for.
Opened_Known(right) ==
    /\ job = "open" /\ reply \notin {None, NotFound}
    /\ IF reply.code = "ok" THEN Decrypt(right) /\ got' = TRUE
       ELSE /\ Show(CASE reply.code = "gone" /\ reply.state \in {"opened", "revoked"} -> reply.state
                      [] reply.code = "gone" /\ reply.state \notin {"opened", "revoked"} -> "expired"
                      [] OTHER -> "ready")
            /\ Done /\ UNCHANGED got
    /\ UNCHANGED poll /\ UNCHANGED storeVars

Opened(right) ==
    /\ job = "open" /\ reply # None
    /\ IF reply.code = "ok" THEN Decrypt(right) /\ got' = TRUE
       ELSE /\ Show(CASE reply.code = "gone" /\ reply.state \in {"opened", "revoked"} -> reply.state
                      [] reply.code = "not_found" -> "expired"
                      [] reply.code = "gone" /\ reply.state \notin {"opened", "revoked"} -> "expired"
                      [] OTHER -> "ready")
            /\ Done /\ UNCHANGED got
    /\ UNCHANGED poll /\ UNCHANGED storeVars

----------------------------------------------------------------------------

\* The agent, other browsers and the relay.
Others ==
    /\ \/ now < Horizon /\ Advance
       \/ Close
       \/ \E kind \in Kinds, n \in Sizes \cup {0}, ttl \in TTLs : Create(Link, kind, n, ttl)
       \/ \E n \in Sizes : Upload(Link, n)
       \/ \E final \in {"fetched", "opened"} : Take(Link, final)
       \/ Revoke(Link) \/ Expire(Link) \/ Forget(Link)
    /\ UNCHANGED <<page, job, reply, poll, got>>

Human == \/ \E locked \in BOOLEAN : Boot(locked)
         \/ BadLink \/ Submit \/ DoReveal

Relay == \/ AnswerStatus \/ Unanswered \/ PollAnswered
         \/ \E heard \in BOOLEAN : AnswerUpload(heard) \/ AnswerOpen(heard)

Script == \/ LoadStatus \/ SealFails \/ Submitted \/ PollStep \/ KeyFails
          \/ \E right \in BOOLEAN : DeriveKey(right) \/ Opened(right)

\* The history; the browser's clock runs as fast as the relay's.
Observe == seen' = seen \cup {slot'[Link].state} /\ skew' = skew

PageNext == (Others \/ Human \/ Relay \/ Script \/ Countdown) /\ Observe

PageSpec == PageInit /\ [][PageNext]_allVars

\* A request that was made is answered or fails, the event loop runs what is
\* ready, and a link that was opened is read.
PageFairSpec ==
    /\ PageSpec
    /\ WF_allVars(Relay /\ Observe) /\ WF_allVars(Script /\ Observe)
    /\ WF_allVars((\E locked \in BOOLEAN : Boot(locked)) /\ Observe)

----------------------------------------------------------------------------

\* The browser's clock has reached the slot's expiry.
LooksOver == Today >= slot[Link].expires

\* What the page tells the human of the slot is so, however old the answer it
\* goes by: sent, delivered, revoked and opened have happened, and the alarm that
\* the secret was already revealed is never raised by a page that was given it
\* (state.ts:17-37).  A link it calls expired is over or unknown to the relay, or
\* the browser's clock is ahead and says so: such a page calls a live link
\* expired, earlier by no more than its clock is ahead
\* (docs/troubleshooting.md:174).  The clause is about the link being over, not
\* about the text "Nothing was sent" that comes with it for a drop (state.ts:22):
\* that text is wrong of a drop that was uploaded, or even fetched and forgotten.
PageTrue ==
    /\ page.state = "sent" => "uploaded" \in seen
    /\ page.state = "delivered" => "fetched" \in seen
    /\ page.state = "revoked" => "revoked" \in seen
    /\ page.state = "opened" => "opened" \in seen /\ ~got
    /\ page.state = "revealed" => got
    /\ page.state = "expired" => "forgotten" \in seen \/ "expired" \in seen \/ Due(Link) \/ LooksOver
    /\ page.held => got /\ handed[Link] = 1

\* What the page ended with stays on it: no late answer, poll or tick of the
\* countdown replaces it, least of all a value that is shown (setState,
\* page.ts:445-450).
EndStays == [][page.state \in Final => page'.state = page.state]_allVars

\* The page does not stay busy: whatever comes of a request, the human gets an
\* end or can try again (submit and doReveal handle every answer).
PageSettles == page.state \in Busy /\ job # "boot" ~> page.state \notin Busy

\* A human whose password was wrong can try again: "because the relay copy is
\* gone by then, the page and the CLI keep the ciphertext and let the human
\* retry locally" (docs/crypto-spec.md:102).
RetryPossible == page.held => page.state \in {"ready", "revealing"}
============================================================================
