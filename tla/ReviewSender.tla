---------------------------- MODULE ReviewSender ----------------------------
(***************************************************************************)
(* The sender half of web/static/review.js: grades collect in pending, go  *)
(* out in batches with fetch(), come back on a failure and are retried     *)
(* with backoff; pagehide hands what is left to navigator.sendBeacon.      *)
(* Against it: the network, the server's answers (internal/http/review.go) *)
(* and what happens to the tab and to the browser's session.               *)
(*                                                                         *)
(* takePending always drains pending and the server sorts a batch, so the  *)
(* order within pending never matters: it is a set.  Of inFlight only      *)
(* whether it is null is ever read.  Delays are abstracted: a timer that   *)
(* is set may fire at any later time.                                      *)
(***************************************************************************)
EXTENDS Integers, FiniteSets

CONSTANTS
    LastEvent,  \* bound on the grades of one page: the events are 1..LastEvent
    Overlong,   \* events whose durationMs is outside what the server takes
    Refused,    \* events the server answers "rejected" or "forbidden"
    MaxEventsPerPost,   \* maxEventsPerPost
    Tickets,    \* names for requests under way: bounds how many there are
    MaxFaults,  \* bound on failures, losses and time-outs
    Sessions,   \* who the browser may be signed in as, besides this account
    MaxSwitches,    \* bound on changes of the browser's session
    MaxTimers,  \* bound on the backoff timers told apart
    TabLife     \* what may happen to the tab: a subset of Lives

Events == 1..LastEvent
Lives == {"hide", "unload", "refuse", "restore", "truncate"}
Accounts == {"own", "other"}
Replies == {"200", "400", "401", "409", "500"}

Requests == [ticket : Tickets, watched : BOOLEAN, events : SUBSET Events,
             reply : Replies \cup {"none"}]

ASSUME SenderAssumption ==
    /\ LastEvent \in Nat /\ MaxEventsPerPost \in Nat \ {0}
    /\ MaxFaults \in Nat /\ MaxSwitches \in Nat /\ MaxTimers \in Nat \ {0}
    /\ Overlong \subseteq Events /\ Refused \subseteq Events
    /\ Sessions \subseteq {"other", "none"} /\ TabLife \subseteq Lives
    /\ IsFiniteSet(Tickets) /\ Tickets \subseteq Nat

VARIABLES
    graded,     \* how many grades the page has made
    pending,    \* state.pending
    inFlight,   \* state.inFlight is not null
    flushTimer, \* state.flushTimer is set
    retries,    \* the backoff timers that are set
    waiting,    \* the fetches whose callback has not run: [ticket, events]
    wire,       \* requests on the way to the server, and answers on the way back
    saved,      \* review_log: [account, event]
    dropped,    \* events given up with an error on screen
    page,       \* the tab: visible, hidden, away (unloaded, restorable), closed
    session,    \* the account the browser's session cookie names, or none
    faults, switches,   \* spent so far
    unwatched   \* history: events handed to a beacon, held by a closed page, or
                \* of a fetch whose answer broke off

sender == <<pending, inFlight, flushTimer, retries, waiting>>
vars == <<graded, sender, wire, saved, dropped, page, session, faults, switches,
          unwatched>>

Alive == page \in {"visible", "hidden"}

Used == {r.ticket : r \in wire} \cup {w.ticket : w \in waiting}

-----------------------------------------------------------------------------
Init ==
    /\ graded = 0
    /\ pending = {} /\ inFlight = FALSE /\ flushTimer = FALSE /\ retries = 0
    /\ waiting = {} /\ wire = {}
    /\ saved = {} /\ dropped = {}
    /\ page = "visible" /\ session = "own"
    /\ faults = 0 /\ switches = 0
    /\ unwatched = {}

(* A request leaves; a fetch is watched, a beacon is not. *)
Send(events, watched) ==
    \E k \in Tickets \ Used :
        /\ \A j \in Tickets \ Used : k <= j
        /\ wire' = wire \cup {[ticket |-> k, watched |-> watched,
                               events |-> events, reply |-> "none"]}
        /\ waiting' = IF watched
                      THEN waiting \cup {[ticket |-> k, events |-> events]}
                      ELSE waiting

(* MUTANT: a request under way does not hold the next one back. *)
MayFlushAlways == pending # {}

MayFlush == pending # {} /\ ~ inFlight

(* takePending drains pending ... *)
Left == {}

(* flush: ... and its events go out with a fetch. *)
Flush ==
    IF MayFlush
    THEN /\ Send(pending, TRUE)
         /\ pending' = Left
         /\ inFlight' = TRUE
    ELSE UNCHANGED <<pending, inFlight, waiting, wire>>

(* grade: the event is queued and a flush scheduled, nothing is awaited. *)
Grade ==
    /\ page = "visible"
    /\ graded < LastEvent
    /\ graded' = graded + 1
    /\ pending' = pending \cup {graded + 1}
    /\ flushTimer' = TRUE
    /\ UNCHANGED <<inFlight, retries, waiting, wire, saved, dropped, page,
                   session, faults, switches, unwatched>>

FlushTimer ==
    /\ Alive /\ flushTimer
    /\ flushTimer' = FALSE
    /\ Flush
    /\ UNCHANGED <<graded, retries, saved, dropped, page, session, faults,
                   switches, unwatched>>

RetryTimer ==
    /\ Alive /\ retries > 0
    /\ retries' = retries - 1
    /\ Flush
    /\ UNCHANGED <<graded, flushTimer, saved, dropped, page, session, faults,
                   switches, unwatched>>

(* MUTANT: grades made while the batch was out are overwritten. *)
PutBackSent(sent) == sent

(* "state.pending = batch.concat(state.pending)" *)
PutBack(sent) == sent \cup pending

(* MUTANT: what was graded meanwhile waits for the next grade. *)
RescheduleNever == flushTimer

(* "if (state.pending.length > 0) scheduleFlush()" *)
Reschedule == flushTimer \/ pending # {}

(* onBatchSettled, for the fetch w: "none" is a network error. *)
OnBatchSettled(w, status) ==
    /\ waiting' = waiting \ {w}
    /\ inFlight' = FALSE
    /\ CASE status = "200" ->
              /\ dropped' = dropped \cup (w.events \cap Refused)
              /\ flushTimer' = Reschedule
              /\ UNCHANGED <<pending, retries>>
         [] status \in {"400", "409"} ->
              /\ dropped' = dropped \cup w.events
              /\ UNCHANGED <<pending, retries, flushTimer>>
         [] OTHER ->
              /\ pending' = PutBack(w.events)
              /\ retries' = IF retries < MaxTimers THEN retries + 1 ELSE retries
              /\ UNCHANGED <<dropped, flushTimer>>

(* The callback of a fetch: with an answer, or because nothing is left that *)
(* could bring one.                                                         *)
Settle(w) ==
    /\ Alive
    /\ \/ \E r \in wire :
            /\ r.ticket = w.ticket /\ r.reply # "none"
            /\ wire' = wire \ {r}
            /\ OnBatchSettled(w, r.reply)
       \/ /\ \A r \in wire : r.ticket # w.ticket
          /\ OnBatchSettled(w, "none")
          /\ UNCHANGED wire
    /\ UNCHANGED <<graded, saved, page, session, faults, switches, unwatched>>

(* The connection breaks while the server may still be at work: the client *)
(* sees a network error, and the request goes on unwatched.                *)
Break(w) ==
    /\ Alive /\ faults < MaxFaults
    /\ faults' = faults + 1
    /\ \E r \in wire :
         /\ r.ticket = w.ticket /\ r.reply = "none"
         /\ wire' = (wire \ {r}) \cup {[r EXCEPT !.watched = FALSE]}
    /\ OnBatchSettled(w, "none")
    /\ UNCHANGED <<graded, saved, page, session, switches, unwatched>>

(* The status line arrives and the body does not: res.text() rejects, which *)
(* no handler of the promise chain catches, and onBatchSettled never runs.  *)
Truncate(w) ==
    /\ "truncate" \in TabLife /\ Alive /\ faults < MaxFaults
    /\ faults' = faults + 1
    /\ \E r \in wire :
         /\ r.ticket = w.ticket /\ r.reply # "none"
         /\ wire' = wire \ {r}
    /\ waiting' = waiting \ {w}
    /\ unwatched' = unwatched \cup w.events
    /\ UNCHANGED <<graded, pending, inFlight, flushTimer, retries, saved,
                   dropped, page, session, switches>>

-----------------------------------------------------------------------------
(* The server. *)

(* decodeBatch refuses a batch whole. *)
Malformed(events) == \/ Cardinality(events) > MaxEventsPerPost
                     \/ events \cap Overlong # {}

(* MUTANT: ?u= is not compared with the session. *)
VerdictAnyAccount(events) ==
    IF session = "none" THEN "401"
    ELSE IF Malformed(events) THEN "400" ELSE "200"

(* The handler: 401 without a session, 409 for another account's, 400 for  *)
(* a malformed batch.                                                      *)
Verdict(events) ==
    IF session = "none" THEN "401"
    ELSE IF session # "own" THEN "409"
    ELSE IF Malformed(events) THEN "400" ELSE "200"

(* Nobody reads the answer to a beacon. *)
Answer(r, reply) ==
    wire' = (wire \ {r}) \cup (IF r.watched THEN {[r EXCEPT !.reply = reply]}
                               ELSE {})

Handle(r) ==
    /\ r.reply = "none"
    /\ Answer(r, Verdict(r.events))
    /\ saved' = IF Verdict(r.events) = "200"
                THEN saved \cup [account : {session}, event : r.events \ Refused]
                ELSE saved
    /\ UNCHANGED <<graded, sender, dropped, page, session, faults, switches,
                   unwatched>>

(* serverError: nothing was committed. *)
Fail(r) ==
    /\ r.reply = "none" /\ faults < MaxFaults
    /\ faults' = faults + 1
    /\ Answer(r, "500")
    /\ UNCHANGED <<graded, sender, saved, dropped, page, session, switches,
                   unwatched>>

(* A request is lost before the server sees it, or its answer after. *)
Lose(r) ==
    /\ faults < MaxFaults
    /\ faults' = faults + 1
    /\ wire' = wire \ {r}
    /\ UNCHANGED <<graded, sender, saved, dropped, page, session, switches,
                   unwatched>>

(* Another tab signs out, in, or over to another account. *)
SwitchSession(account) ==
    /\ account # session /\ switches < MaxSwitches
    /\ switches' = switches + 1
    /\ session' = account
    /\ UNCHANGED <<graded, sender, wire, saved, dropped, page, faults, unwatched>>

-----------------------------------------------------------------------------
(* The tab. *)

(* visibilitychange: hidden flushes, visible does nothing. *)
Hide ==
    /\ "hide" \in TabLife /\ page = "visible"
    /\ page' = "hidden"
    /\ Flush
    /\ UNCHANGED <<graded, flushTimer, retries, saved, dropped, session, faults,
                   switches, unwatched>>

Show ==
    /\ page = "hidden"
    /\ page' = "visible"
    /\ UNCHANGED <<graded, sender, wire, saved, dropped, session, faults,
                   switches, unwatched>>

(* pagehide, flushOnUnload: what is pending leaves with a beacon, whatever *)
(* is under way.  The browser may refuse to queue the beacon.              *)
PageHide ==
    /\ "unload" \in TabLife /\ Alive
    /\ page' = "away"
    /\ \/ /\ pending = {}
          /\ UNCHANGED <<pending, inFlight, waiting, wire, unwatched>>
       \/ /\ pending # {}
          /\ Send(pending, FALSE)
          /\ pending' = {} /\ inFlight' = TRUE
          /\ unwatched' = unwatched \cup pending
       \/ /\ pending # {} /\ "refuse" \in TabLife
          /\ inFlight' = TRUE
          /\ UNCHANGED <<pending, waiting, wire, unwatched>>
    /\ UNCHANGED <<graded, flushTimer, retries, saved, dropped, session, faults,
                   switches>>

(* The browser restores the page from its back/forward cache, JavaScript   *)
(* state and all; or it discards it.                                       *)
Restore ==
    /\ "restore" \in TabLife /\ page = "away"
    /\ page' = "visible"
    /\ UNCHANGED <<graded, sender, wire, saved, dropped, session, faults,
                   switches, unwatched>>

Close ==
    /\ page = "away"
    /\ page' = "closed"
    /\ unwatched' = unwatched \cup pending
                      \cup UNION {w.events : w \in waiting}
    /\ pending' = {} /\ inFlight' = FALSE /\ flushTimer' = FALSE
    /\ retries' = 0 /\ waiting' = {}
    /\ wire' = {[r EXCEPT !.watched = FALSE] :
                  r \in {x \in wire : x.reply = "none"}}
    /\ UNCHANGED <<graded, saved, dropped, session, faults, switches>>

(* Nothing left to do in this instance. *)
Quiet ==
    /\ graded = LastEvent \/ page # "visible"
    /\ wire = {} /\ waiting = {} /\ ~ flushTimer /\ retries = 0
    /\ UNCHANGED vars

Next ==
    \/ Grade \/ FlushTimer \/ RetryTimer
    \/ \E w \in waiting : Settle(w) \/ Break(w) \/ Truncate(w)
    \/ \E r \in wire : Handle(r) \/ Fail(r) \/ Lose(r)
    \/ \E account \in Sessions \cup {"own"} : SwitchSession(account)
    \/ Hide \/ Show \/ PageHide \/ Restore \/ Close
    \/ Quiet

Spec == Init /\ [][Next]_vars

(* Timers fire, the server answers what reaches it, and every fetch of a   *)
(* living page settles.                                                    *)
FairSpec ==
    /\ Spec
    /\ WF_vars(FlushTimer) /\ WF_vars(RetryTimer)
    /\ WF_vars(\E r \in wire : Handle(r))
    /\ WF_vars(\E w \in waiting : Settle(w))
-----------------------------------------------------------------------------
TypeOK ==
    /\ graded \in 0..LastEvent
    /\ pending \subseteq Events /\ inFlight \in BOOLEAN
    /\ flushTimer \in BOOLEAN /\ retries \in 0..MaxTimers
    /\ waiting \subseteq [ticket : Tickets, events : SUBSET Events]
    /\ wire \subseteq Requests
    /\ saved \subseteq [account : Accounts, event : Events] /\ dropped \subseteq Events
    /\ page \in {"visible", "hidden", "away", "closed"}
    /\ session \in Sessions \cup {"own"}
    /\ faults \in 0..MaxFaults /\ switches \in 0..MaxSwitches
    /\ unwatched \subseteq Events

Carried == (UNION {r.events : r \in wire}) \cup (UNION {w.events : w \in waiting})

SavedFor(account) == {r.event : r \in {x \in saved : x.account = account}}

Settled == SavedFor("own") \cup dropped \cup unwatched

(* A grade the user made is waiting, under way, in review_log, or given up *)
(* with an error on screen; only a beacon, a closed page or an answer that *)
(* breaks off may lose it silently.                                       *)
NothingVanishes == 1..graded \subseteq pending \cup Carried \cup Settled

(* flush "will not be called while a request is outstanding", and an event *)
(* is in one of the sender's hands at a time: one fetch is out at most,    *)
(* and nothing it carries is pending.                                      *)
OneFetchAtATime ==
    /\ waiting # {} => inFlight
    /\ \A v, w \in waiting : v = w
    /\ \A w \in waiting : w.events \cap pending = {}

(* Every grade is in one hand at a time: pending, the fetch under way, the *)
(* log, or the error on screen (takePending, onBatchSettled).              *)
GradesInOneHand == NothingVanishes /\ OneFetchAtATime

(* #178: no grade is ever written under another account than the one the   *)
(* page was opened for, whenever the session switches.                     *)
NeverMisattributed == SavedFor("other") = {}

(* The client's sender is FIFO, as far as that goes: no grade is saved by  *)
(* a fetch while an earlier one that can still be saved is not.  Only a    *)
(* beacon overtakes, and only what was given up or what nobody watches any *)
(* more is overtaken.                                                      *)
OnlyBeaconsOvertake ==
    \A e, f \in Events :
        e < f /\ f \in SavedFor("own") \ unwatched /\ e \notin Refused =>
            e \in Settled

RefusedWhole == \E r \in wire : r.reply \in {"400", "409"}

(* flush, its timers and onBatchSettled leave nothing behind: in a page    *)
(* that stays open, none of whose batches is refused whole and none of     *)
(* whose answers breaks off, every grade is saved or visibly given up once *)
(* the session is its own for good.                                        *)
SettlesUnlessRefused ==
    /\ [](Alive /\ unwatched = {} /\ ~ RefusedWhole)
    /\ <>[](session = "own")
    => \A e \in Events : graded >= e ~> e \in Settled

(* docs/architecture.md:563, "the client's sender is FIFO": no grade is    *)
(* saved while an earlier one that can still be saved is not.              *)
SenderIsFIFO ==
    \A e, f \in Events :
        e < f /\ f \in SavedFor("own") /\ e \notin Refused =>
            e \in SavedFor("own") \cup dropped

(* docs/architecture.md:487, "events go out as they are produced": in a    *)
(* page that stays open under its own session, every grade is saved or     *)
(* visibly given up.                                                       *)
EverythingSettles ==
    <>[](Alive /\ session = "own") =>
        \A e \in Events : graded >= e ~> e \in Settled

(* docs/architecture.md:489, "retry transient failures with backoff; the   *)
(* endpoint is idempotent, so a retry after an ambiguous failure is always *)
(* safe": while the session is the page's own, a grade the server would    *)
(* take is never given up.                                                 *)
ValidIsNotDropped == switches = 0 => dropped \subseteq Overlong \cup Refused
=============================================================================
