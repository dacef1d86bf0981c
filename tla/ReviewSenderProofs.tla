------------------------- MODULE ReviewSenderProofs -------------------------
(***************************************************************************)
(* Proofs about ReviewSender, for any number of grades, any answers, any   *)
(* number of failures and session switches, and whatever becomes of the    *)
(* tab.  A grade is safe because the sender never counts on the wire: what *)
(* a fetch carries stays with its callback until the answer is in, and     *)
(* what a beacon carries is known to be unwatched.  The order is safe      *)
(* because takePending drains pending: when a fetch leaves, every earlier  *)
(* grade leaves with it or has been settled.                               *)
(***************************************************************************)
EXTENDS ReviewSender, TLAPS

AwaitedBy(e) == \E w \in waiting : e \in w.events

(* Only grades that were made travel. *)
KnownInv ==
    /\ pending \subseteq 1..graded
    /\ \A w \in waiting : w.events \subseteq 1..graded
    /\ \A r \in wire : r.events \subseteq 1..graded

(* The answer a fetch waits for is the answer to what it sent. *)
TicketInv ==
    \A w \in waiting : \A r \in wire :
        r.ticket = w.ticket => r.events = w.events

(* "200" is true: what the batch held is in review_log, or refused. *)
AnswerInv ==
    \A r \in wire : r.reply = "200" => r.events \ Refused \subseteq SavedFor("own")

(* The sender does not count on the wire. *)
HeldInv == \A e \in 1..graded : e \in pending \/ AwaitedBy(e) \/ e \in Settled

(* A batch that somebody watches left with every earlier grade that was    *)
(* not settled.                                                            *)
OrderInv ==
    \A r \in wire : \A f \in r.events \ unwatched : \A e \in Events :
        e < f => e \in r.events \/ e \in Settled

Inv == /\ TypeOK /\ KnownInv /\ TicketInv /\ AnswerInv /\ HeldInv /\ OrderInv
       /\ OneFetchAtATime /\ NeverMisattributed /\ OnlyBeaconsOvertake
-----------------------------------------------------------------------------
(* Types. *)

LEMMA SavedForMember ==
    ASSUME NEW a, NEW e
    PROVE  e \in SavedFor(a) <=> \E x \in saved : x.account = a /\ x.event = e
  BY DEF SavedFor

LEMMA BoundsAreNat ==
    /\ LastEvent \in Nat /\ MaxFaults \in Nat
    /\ MaxSwitches \in Nat /\ MaxTimers \in Nat
  BY SenderAssumption

LEMMA InitInv == Init => Inv
<1> SUFFICES ASSUME Init PROVE Inv
  OBVIOUS
<1> USE DEF Init
<1>1. TypeOK
  <2>1. /\ 0 \in 0..LastEvent /\ 0 \in 0..MaxTimers
        /\ 0 \in 0..MaxFaults /\ 0 \in 0..MaxSwitches
    BY BoundsAreNat
  <2> QED BY <2>1 DEF TypeOK
<1>2. KnownInv /\ TicketInv /\ AnswerInv /\ HeldInv /\ OrderInv
  BY DEF KnownInv, TicketInv, AnswerInv, HeldInv, OrderInv
<1>3. OneFetchAtATime
  BY DEF OneFetchAtATime
<1>4. NeverMisattributed /\ OnlyBeaconsOvertake
  BY DEF NeverMisattributed, OnlyBeaconsOvertake, SavedFor
<1> QED BY <1>1, <1>2, <1>3, <1>4 DEF Inv

(* What Send puts on the wire. *)
Outgoing(k, events, watched) ==
    [ticket |-> k, watched |-> watched, events |-> events, reply |-> "none"]

LEMMA SendEffect ==
    ASSUME NEW events \in SUBSET Events, NEW watched \in BOOLEAN, Send(events, watched)
    PROVE  \E k \in Tickets \ Used :
             /\ wire' = wire \cup {Outgoing(k, events, watched)}
             /\ waiting' = IF watched
                           THEN waiting \cup {[ticket |-> k, events |-> events]}
                           ELSE waiting
  BY DEF Send, Outgoing

LEMMA OutgoingType ==
    ASSUME NEW k \in Tickets, NEW events \in SUBSET Events, NEW watched \in BOOLEAN
    PROVE  Outgoing(k, events, watched) \in Requests
  BY DEF Outgoing, Requests

LEMMA SendType ==
    ASSUME TypeOK, NEW watched \in BOOLEAN, Send(pending, watched)
    PROVE  /\ waiting' \subseteq [ticket : Tickets, events : SUBSET Events]
           /\ wire' \subseteq Requests
<1> USE DEF TypeOK
<1> PICK k \in Tickets \ Used :
      /\ wire' = wire \cup {Outgoing(k, pending, watched)}
      /\ waiting' = IF watched
                    THEN waiting \cup {[ticket |-> k, events |-> pending]}
                    ELSE waiting
  BY SendEffect
<1> QED BY OutgoingType

LEMMA FlushType ==
    ASSUME TypeOK, Flush
    PROVE  /\ pending' \subseteq Events /\ inFlight' \in BOOLEAN
           /\ waiting' \subseteq [ticket : Tickets, events : SUBSET Events]
           /\ wire' \subseteq Requests
<1>1. CASE MayFlush
  BY <1>1, SendType DEF Flush, Left
<1>2. CASE ~ MayFlush
  BY <1>2 DEF Flush, TypeOK
<1> QED BY <1>1, <1>2

(* onBatchSettled, in one piece. *)
LEMMA SettledType ==
    ASSUME TypeOK, NEW w \in waiting, NEW status, OnBatchSettled(w, status)
    PROVE  /\ pending' \subseteq Events /\ inFlight' \in BOOLEAN
           /\ flushTimer' \in BOOLEAN /\ retries' \in 0..MaxTimers
           /\ waiting' \subseteq [ticket : Tickets, events : SUBSET Events]
           /\ dropped' \subseteq Events
<1> USE DEF TypeOK, OnBatchSettled
<1>1. CASE status = "200"
  BY <1>1 DEF Reschedule
<1>2. CASE status \in {"400", "409"}
  BY <1>2
<1>3. CASE status \notin {"200", "400", "409"}
  <2>1. (IF retries < MaxTimers THEN retries + 1 ELSE retries) \in 0..MaxTimers
    BY BoundsAreNat
  <2>2. PutBack(w.events) \subseteq Events
    BY DEF PutBack
  <2> QED BY <1>3, <2>1, <2>2
<1> QED BY <1>1, <1>2, <1>3

LEMMA TypeStep ==
    ASSUME TypeOK, [Next]_vars
    PROVE  TypeOK'
<1> USE DEF TypeOK, sender
<1>1. CASE Grade
  BY <1>1, SenderAssumption DEF Grade, Events
<1>2. CASE FlushTimer \/ RetryTimer
  <2>1. retries' \in 0..MaxTimers
    BY <1>2, BoundsAreNat DEF FlushTimer, RetryTimer
  <2> QED BY <1>2, <2>1, FlushType DEF FlushTimer, RetryTimer
<1>3. ASSUME NEW w \in waiting, Settle(w) PROVE TypeOK'
  <2>1. wire' \subseteq Requests
    BY <1>3 DEF Settle
  <2>2. \E status : OnBatchSettled(w, status)
    BY <1>3 DEF Settle
  <2> QED BY <1>3, <2>1, <2>2, SettledType DEF Settle
<1>4. ASSUME NEW w \in waiting, Break(w) PROVE TypeOK'
  <2>1. ASSUME NEW r \in wire PROVE [r EXCEPT !.watched = FALSE] \in Requests
    BY DEF Requests
  <2>2. wire' \subseteq Requests
    BY <1>4, <2>1 DEF Break
  <2>3. faults' \in 0..MaxFaults
    BY <1>4, SenderAssumption DEF Break
  <2> QED BY <1>4, <2>2, <2>3, SettledType DEF Break
<1>5. ASSUME NEW w \in waiting, Truncate(w) PROVE TypeOK'
  BY <1>5, SenderAssumption DEF Truncate
<1>6. ASSUME NEW r \in wire, Handle(r) PROVE TypeOK'
  <2>1. Verdict(r.events) \in Replies
    BY DEF Verdict, Replies
  <2>2. [r EXCEPT !.reply = Verdict(r.events)] \in Requests
    BY <2>1 DEF Requests
  <2>3. wire' \subseteq Requests
    BY <1>6, <2>2 DEF Handle, Answer
  <2>4. Verdict(r.events) = "200" => session \in Accounts
    BY DEF Verdict, Accounts
  <2>5. r.events \subseteq Events
    BY DEF Requests
  <2>6. saved' \subseteq [account : Accounts, event : Events]
    BY <1>6, <2>4, <2>5 DEF Handle
  <2> QED BY <1>6, <2>3, <2>6 DEF Handle
<1>7. ASSUME NEW r \in wire, Fail(r) \/ Lose(r) PROVE TypeOK'
  <2>1. [r EXCEPT !.reply = "500"] \in Requests
    BY DEF Requests, Replies
  <2>2. wire' \subseteq Requests
    BY <1>7, <2>1 DEF Fail, Lose, Answer
  <2>3. faults' \in 0..MaxFaults
    BY <1>7, SenderAssumption DEF Fail, Lose
  <2> QED BY <1>7, <2>2, <2>3 DEF Fail, Lose
<1>8. ASSUME NEW account \in Sessions \cup {"own"}, SwitchSession(account)
      PROVE  TypeOK'
  BY <1>8, SenderAssumption DEF SwitchSession
<1>9. CASE Hide
  BY <1>9, FlushType DEF Hide
<1>10. CASE PageHide
  <2>1. /\ pending' \subseteq Events /\ inFlight' \in BOOLEAN
        /\ unwatched' \subseteq Events
    BY <1>10 DEF PageHide
  <2>2. /\ waiting' \subseteq [ticket : Tickets, events : SUBSET Events]
        /\ wire' \subseteq Requests
    BY <1>10, SendType DEF PageHide
  <2> QED BY <1>10, <2>1, <2>2 DEF PageHide
<1>11. CASE Close
  <2>1. ASSUME NEW r \in wire PROVE [r EXCEPT !.watched = FALSE] \in Requests
    BY DEF Requests
  <2>2. wire' \subseteq Requests
    BY <1>11, <2>1 DEF Close
  <2>3. UNION {w.events : w \in waiting} \subseteq Events
    OBVIOUS
  <2>4. 0 \in 0..MaxTimers
    BY BoundsAreNat
  <2>5. unwatched' \subseteq Events
    BY <1>11, <2>3 DEF Close
  <2> QED BY <1>11, <2>2, <2>4, <2>5 DEF Close
<1>12. CASE Show \/ Restore
  BY <1>12 DEF Show, Restore
<1>13. CASE UNCHANGED vars
  BY <1>13 DEF vars
<1> QED BY <1>1, <1>2, <1>3, <1>4, <1>5, <1>6, <1>7, <1>8, <1>9, <1>10, <1>11,
           <1>12, <1>13 DEF Next, Quiet
-----------------------------------------------------------------------------
(* The kinds of step, as far as grades move in them. *)

FetchLeaves(k) ==
    /\ k \in Tickets \ Used /\ MayFlush
    /\ pending' = {} /\ inFlight' = TRUE
    /\ wire' = wire \cup {Outgoing(k, pending, TRUE)}
    /\ waiting' = waiting \cup {[ticket |-> k, events |-> pending]}
    /\ UNCHANGED <<graded, saved, dropped, unwatched>>

BeaconLeaves(k) ==
    /\ k \in Tickets \ Used
    /\ pending' = {} /\ inFlight' = TRUE
    /\ wire' = wire \cup {Outgoing(k, pending, FALSE)}
    /\ unwatched' = unwatched \cup pending
    /\ UNCHANGED <<graded, waiting, saved, dropped>>

(* Timers and the tab: nothing moves; flushOnUnload may set inFlight. *)
Still ==
    /\ inFlight' \in {inFlight, TRUE}
    /\ UNCHANGED <<graded, pending, waiting, wire, saved, dropped, unwatched>>

LEMMA FlushCases ==
    ASSUME TypeOK, Flush, UNCHANGED <<graded, saved, dropped, unwatched>>
    PROVE  Still \/ \E k \in Tickets : FetchLeaves(k)
<1>1. CASE MayFlush
  <2>0. pending \in SUBSET Events
    BY DEF TypeOK
  <2> PICK k \in Tickets \ Used :
        /\ wire' = wire \cup {Outgoing(k, pending, TRUE)}
        /\ waiting' = waiting \cup {[ticket |-> k, events |-> pending]}
    BY <1>1, <2>0, SendEffect DEF Flush
  <2> QED BY <1>1 DEF Flush, FetchLeaves, Left
<1>2. CASE ~ MayFlush
  BY <1>2 DEF Flush, Still
<1> QED BY <1>1, <1>2

LEMMA PageHideCases ==
    ASSUME TypeOK, PageHide
    PROVE  Still \/ \E k \in Tickets : BeaconLeaves(k)
<1>1. CASE Send(pending, FALSE) /\ pending' = {} /\ inFlight' = TRUE
           /\ unwatched' = unwatched \cup pending
  <2>0. pending \in SUBSET Events
    BY DEF TypeOK
  <2> PICK k \in Tickets \ Used :
        /\ wire' = wire \cup {Outgoing(k, pending, FALSE)}
        /\ waiting' = waiting
    BY <1>1, <2>0, SendEffect
  <2> QED BY <1>1 DEF PageHide, BeaconLeaves
<1>2. CASE inFlight' \in {inFlight, TRUE}
           /\ UNCHANGED <<pending, waiting, wire, unwatched>>
  BY <1>2 DEF PageHide, Still
<1> QED BY <1>1, <1>2 DEF PageHide

LEMMA StepCases ==
    ASSUME TypeOK, [Next]_vars
    PROVE  \/ Still
           \/ \E k \in Tickets : FetchLeaves(k)
           \/ \E k \in Tickets : BeaconLeaves(k)
           \/ Grade
           \/ \E w \in waiting : Settle(w)
           \/ \E w \in waiting : Break(w)
           \/ \E w \in waiting : Truncate(w)
           \/ \E r \in wire : Handle(r)
           \/ \E r \in wire : Fail(r)
           \/ \E r \in wire : Lose(r)
           \/ Close
<1>1. CASE FlushTimer \/ RetryTimer \/ Hide
  BY <1>1, FlushCases DEF FlushTimer, RetryTimer, Hide
<1>2. CASE PageHide
  BY <1>2, PageHideCases
<1>3. CASE Show \/ Restore \/ UNCHANGED vars
  BY <1>3 DEF Show, Restore, Still, vars, sender
<1>4. ASSUME NEW account, SwitchSession(account) PROVE Still
  BY <1>4 DEF SwitchSession, Still, sender
<1> QED BY <1>1, <1>2, <1>3, <1>4 DEF Next, Quiet

(* What is saved, given up or out of sight stays so. *)
LEMMA SettledGrows ==
    ASSUME TypeOK, [Next]_vars
    PROVE  /\ saved \subseteq saved' /\ dropped \subseteq dropped'
           /\ unwatched \subseteq unwatched'
           /\ \A a : SavedFor(a) \subseteq SavedFor(a)'
           /\ Settled \subseteq Settled'
<1>1. ASSUME NEW w \in waiting, Settle(w) \/ Break(w)
      PROVE  dropped \subseteq dropped' /\ UNCHANGED <<saved, unwatched>>
  <2>1. ASSUME NEW status, OnBatchSettled(w, status) PROVE dropped \subseteq dropped'
    BY <2>1 DEF OnBatchSettled
  <2> QED BY <1>1, <2>1 DEF Settle, Break
<1>2. /\ saved \subseteq saved' /\ dropped \subseteq dropped'
      /\ unwatched \subseteq unwatched'
  BY <1>1, StepCases
     DEF Still, FetchLeaves, BeaconLeaves, Grade, Truncate, Handle, Fail, Lose, Close
<1>3. ASSUME NEW a PROVE SavedFor(a) \subseteq SavedFor(a)'
  BY <1>2 DEF SavedFor
<1> QED BY <1>2, <1>3 DEF Settled

(* The batch a callback is about goes back to pending, or is given up, or  *)
(* was saved: its events are in one hand again.                            *)
LEMMA CallbackEffect ==
    ASSUME TypeOK, OneFetchAtATime, NEW w \in waiting, NEW status,
           OnBatchSettled(w, status)
    PROVE  /\ waiting' = {} /\ inFlight' = FALSE
           /\ pending' \in {pending, pending \cup w.events}
           /\ dropped \subseteq dropped'
           /\ \/ w.events \subseteq pending' \/ w.events \subseteq dropped'
              \/ status = "200" /\ w.events \cap Refused \subseteq dropped'
<1>1. waiting' = {} /\ inFlight' = FALSE
  BY DEF OnBatchSettled, OneFetchAtATime
<1>2. CASE status = "200"
  BY <1>1, <1>2 DEF OnBatchSettled
<1>3. CASE status \in {"400", "409"}
  BY <1>1, <1>3 DEF OnBatchSettled
<1>4. CASE status \notin {"200", "400", "409"}
  BY <1>1, <1>4 DEF OnBatchSettled, PutBack
<1> QED BY <1>2, <1>3, <1>4

(* What is on the wire after a step: it has just left, it has just been    *)
(* answered, or it was there with the same ticket and the same events.     *)
JustSent(r) ==
    \/ \E k \in Tickets : FetchLeaves(k) /\ r = Outgoing(k, pending, TRUE)
    \/ \E k \in Tickets : BeaconLeaves(k) /\ r = Outgoing(k, pending, FALSE)

JustHandled(r) ==
    \E x \in wire : /\ Handle(x) /\ r.reply = Verdict(x.events)
                    /\ r.ticket = x.ticket /\ r.events = x.events

WasThere(r) ==
    \E x \in wire : /\ r.ticket = x.ticket /\ r.events = x.events
                    /\ r.reply \in {x.reply, "500"}

LEMMA WireStep ==
    ASSUME TypeOK, [Next]_vars, NEW r \in wire'
    PROVE  JustSent(r) \/ JustHandled(r) \/ WasThere(r)
<1> USE DEF TypeOK, Requests
<1>0. r \in wire => WasThere(r)
  BY DEF WasThere
<1>1. ASSUME NEW k \in Tickets, FetchLeaves(k)
      PROVE  r \in wire \/ JustSent(r)
  BY <1>1 DEF FetchLeaves, JustSent
<1>2. ASSUME NEW k \in Tickets, BeaconLeaves(k)
      PROVE  r \in wire \/ JustSent(r)
  BY <1>2 DEF BeaconLeaves, JustSent
<1>3. ASSUME NEW w \in waiting, Settle(w) \/ Truncate(w) PROVE r \in wire
  BY <1>3 DEF Settle, Truncate
<1>4. ASSUME NEW w \in waiting, Break(w) PROVE WasThere(r)
  BY <1>4 DEF Break, WasThere
<1>5. ASSUME NEW x \in wire, Handle(x) PROVE r \in wire \/ JustHandled(r)
  <2>1. r \in wire \/ r = [x EXCEPT !.reply = Verdict(x.events)]
    BY <1>5 DEF Handle, Answer
  <2>2. CASE r = [x EXCEPT !.reply = Verdict(x.events)]
    <3>1. r.reply = Verdict(x.events) /\ r.ticket = x.ticket /\ r.events = x.events
      BY <2>2
    <3> QED BY <1>5, <3>1 DEF JustHandled
  <2> QED BY <2>1, <2>2
<1>6. ASSUME NEW x \in wire, Fail(x) \/ Lose(x) PROVE WasThere(r)
  <2>1. r \in wire \/ r = [x EXCEPT !.reply = "500"]
    BY <1>6 DEF Fail, Lose, Answer
  <2>2. CASE r = [x EXCEPT !.reply = "500"]
    BY <2>2 DEF WasThere
  <2> QED BY <1>0, <2>1, <2>2
<1>7. ASSUME Close PROVE WasThere(r)
  BY <1>7 DEF Close, WasThere
<1>8. ASSUME Still \/ Grade PROVE r \in wire
  BY <1>8 DEF Still, Grade
<1> QED BY <1>0, <1>1, <1>2, <1>3, <1>4, <1>5, <1>6, <1>7, <1>8, StepCases

-----------------------------------------------------------------------------
(* The steps preserve the invariant, a conjunct at a time. *)

LEMMA KnownStep ==
    ASSUME TypeOK, KnownInv, OneFetchAtATime, [Next]_vars
    PROVE  KnownInv'
<1> USE DEF TypeOK, KnownInv
<1>0. graded \in Nat /\ graded' \in {graded, graded + 1}
  <2>1. graded' = graded \/ graded' = graded + 1
    BY StepCases, Zenon
       DEF Still, FetchLeaves, BeaconLeaves, Grade, Settle, Break, Truncate,
           Handle, Fail, Lose, Close
  <2>2. graded \in Nat
    BY BoundsAreNat
  <2> QED BY <2>1, <2>2
<1>1. 1..graded \subseteq 1..graded'
  BY <1>0
<1>2. pending' \subseteq 1..graded' /\ \A w \in waiting' : w.events \subseteq 1..graded'
  <2>1. CASE Grade
    BY <1>0, <1>1, <2>1 DEF Grade
  <2>2. ASSUME NEW k \in Tickets, FetchLeaves(k) \/ BeaconLeaves(k)
        PROVE  pending' \subseteq 1..graded /\ \A w \in waiting' : w.events \subseteq 1..graded
    <3>1. pending' = {}
      BY <2>2 DEF FetchLeaves, BeaconLeaves
    <3>2. waiting' \subseteq waiting \cup {[ticket |-> k, events |-> pending]}
      BY <2>2 DEF FetchLeaves, BeaconLeaves
    <3> QED BY <3>1, <3>2
  <2>3. ASSUME NEW w \in waiting, NEW status, OnBatchSettled(w, status)
        PROVE  pending' \subseteq 1..graded /\ waiting' = {}
    BY <2>3, CallbackEffect
  <2>4. ASSUME NEW w \in waiting, Settle(w) \/ Break(w)
        PROVE  pending' \subseteq 1..graded /\ waiting' = {}
    BY <2>3, <2>4 DEF Settle, Break
  <2>5. CASE pending' \subseteq pending /\ waiting' \subseteq waiting
    BY <1>1, <2>5
  <2> QED BY <1>1, <2>1, <2>2, <2>4, <2>5, StepCases
          DEF Still, Truncate, Handle, Fail, Lose, Close, sender
<1>3. \A r \in wire' : r.events \subseteq 1..graded'
  <2> TAKE r \in wire'
  <2>1. JustSent(r) => r.events = pending
    BY DEF JustSent, Outgoing
  <2> QED BY <1>1, <2>1, WireStep DEF JustHandled, WasThere
<1> QED BY <1>2, <1>3

LEMMA AnswerStep ==
    ASSUME TypeOK, AnswerInv, [Next]_vars
    PROVE  AnswerInv'
<1> SUFFICES ASSUME NEW r \in wire', r.reply = "200"
             PROVE  r.events \ Refused \subseteq SavedFor("own")'
  BY DEF AnswerInv
<1>1. ~ JustSent(r)
  BY DEF JustSent, Outgoing
<1>2. CASE WasThere(r)
  BY <1>2, SettledGrows DEF WasThere, AnswerInv
<1>3. CASE JustHandled(r)
  <2> PICK x \in wire : /\ Handle(x) /\ Verdict(x.events) = "200"
                        /\ r.events = x.events
    BY <1>3 DEF JustHandled
  <2>1. session = "own"
    BY DEF Verdict
  <2>2. [account : {"own"}, event : r.events \ Refused] \subseteq saved'
    BY <2>1 DEF Handle
  <2>3. ASSUME NEW e \in r.events \ Refused PROVE e \in SavedFor("own")'
    <3>1. [account |-> "own", event |-> e] \in saved'
      BY <2>2, <2>3
    <3> QED BY <3>1 DEF SavedFor
  <2> QED BY <2>3
<1> QED BY <1>1, <1>2, <1>3, WireStep
(* Only a fetch that leaves is newly waited for. *)
LEMMA WaitingStep ==
    ASSUME TypeOK, [Next]_vars, NEW w \in waiting', w \notin waiting
    PROVE  \E k \in Tickets :
             FetchLeaves(k) /\ w = [ticket |-> k, events |-> pending]
<1>1. ASSUME NEW v \in waiting, Settle(v) \/ Break(v) PROVE waiting' \subseteq waiting
  BY <1>1 DEF Settle, Break, OnBatchSettled
<1>2. CASE waiting' \subseteq waiting
  BY <1>2
<1> QED BY <1>1, <1>2, StepCases
        DEF Still, FetchLeaves, BeaconLeaves, Grade, Truncate, Handle, Fail, Lose,
            Close, sender

LEMMA TicketStep ==
    ASSUME TypeOK, TicketInv, [Next]_vars
    PROVE  TicketInv'
<1> SUFFICES ASSUME NEW w \in waiting', NEW r \in wire', r.ticket = w.ticket
             PROVE  r.events = w.events
  BY DEF TicketInv
<1>1. ASSUME NEW x \in wire, r.ticket = x.ticket, r.events = x.events
      PROVE  r.events = w.events
  <2>1. CASE w \in waiting
    BY <1>1, <2>1 DEF TicketInv
  <2>2. CASE w \notin waiting
    <3> PICK k \in Tickets : FetchLeaves(k) /\ w = [ticket |-> k, events |-> pending]
      BY <2>2, WaitingStep
    <3>1. x.ticket \in Used /\ k \notin Used /\ w.ticket = k
      BY DEF FetchLeaves, Used
    <3> QED BY <1>1, <3>1
  <2> QED BY <2>1, <2>2
<1>2. CASE JustSent(r)
  <2> PICK k \in Tickets : /\ FetchLeaves(k) \/ BeaconLeaves(k)
                           /\ r.ticket = k /\ r.events = pending
    BY <1>2 DEF JustSent, Outgoing
  <2>1. w \notin waiting
    BY DEF FetchLeaves, BeaconLeaves, Used
  <2>2. w.events = pending
    BY <2>1, WaitingStep
  <2> QED BY <2>2
<1> QED BY <1>1, <1>2, WireStep DEF JustHandled, WasThere

LEMMA FetchStep ==
    ASSUME TypeOK, KnownInv, OneFetchAtATime, [Next]_vars
    PROVE  OneFetchAtATime'
<1> USE DEF OneFetchAtATime
<1>1. ASSUME NEW k \in Tickets, FetchLeaves(k) PROVE OneFetchAtATime'
  <2>1. waiting = {}
    BY <1>1 DEF FetchLeaves, MayFlush
  <2> QED BY <1>1, <2>1 DEF FetchLeaves
<1>2. ASSUME NEW k \in Tickets, BeaconLeaves(k) PROVE OneFetchAtATime'
  BY <1>2 DEF BeaconLeaves
<1>3. CASE Grade
  <2>1. graded \in Nat
    BY BoundsAreNat DEF TypeOK
  <2>2. ASSUME NEW w \in waiting PROVE graded + 1 \notin w.events
    BY <2>1 DEF KnownInv
  <2> QED BY <1>3, <2>2 DEF Grade
<1>4. ASSUME NEW w \in waiting, NEW status, OnBatchSettled(w, status)
      PROVE  OneFetchAtATime'
  BY <1>4, CallbackEffect
<1>5. ASSUME NEW w \in waiting, Settle(w) \/ Break(w) PROVE OneFetchAtATime'
  BY <1>4, <1>5 DEF Settle, Break
<1>6. CASE /\ waiting' \subseteq waiting /\ pending' = pending
           /\ inFlight => inFlight'
  BY <1>6
<1>7. CASE Close
  BY <1>7 DEF Close
<1>8. CASE Still
  <2>1. inFlight => inFlight'
    BY <1>8, Zenon DEF Still
  <2> QED BY <1>6, <1>8, <2>1 DEF Still
<1> QED BY <1>1, <1>2, <1>3, <1>5, <1>6, <1>7, <1>8, StepCases
        DEF Truncate, Handle, Fail, Lose, sender

LEMMA HeldStep ==
    ASSUME TypeOK, KnownInv, TicketInv, AnswerInv, HeldInv, OneFetchAtATime,
           [Next]_vars
    PROVE  HeldInv'
<1> SUFFICES ASSUME NEW e \in 1..graded'
             PROVE  e \in pending' \/ AwaitedBy(e)' \/ e \in Settled'
  BY DEF HeldInv
<1> USE DEF AwaitedBy
<1>1. CASE Grade
  <2>1. e \in 1..graded \/ e = graded + 1
    BY <1>1, BoundsAreNat DEF Grade, TypeOK
  <2> QED BY <1>1, <2>1, SettledGrows DEF Grade, HeldInv
<1>2. CASE ~ Grade
  <2>0. graded' = graded
    BY <1>2, StepCases, Zenon
       DEF Still, FetchLeaves, BeaconLeaves, Settle, Break, Truncate, Handle, Fail,
           Lose, Close
  <2>1. CASE e \in Settled
    BY <2>1, SettledGrows
  <2>2. ASSUME NEW k \in Tickets, FetchLeaves(k), e \in pending \/ AwaitedBy(e)
        PROVE  AwaitedBy(e)'
    <3>1. [ticket |-> k, events |-> pending] \in waiting' /\ waiting \subseteq waiting'
      BY <2>2 DEF FetchLeaves
    <3> QED BY <2>2, <3>1
  <2>3. ASSUME NEW k \in Tickets, BeaconLeaves(k), e \in pending \/ AwaitedBy(e)
        PROVE  AwaitedBy(e)' \/ e \in Settled'
    BY <2>3 DEF BeaconLeaves, Settled
  <2>4. ASSUME NEW w \in waiting, Settle(w), e \in pending \/ AwaitedBy(e)
        PROVE  e \in pending' \/ e \in Settled'
    <3> PICK status :
          /\ OnBatchSettled(w, status)
          /\ status = "200" => \E r \in wire : r.ticket = w.ticket /\ r.reply = "200"
      BY <2>4 DEF Settle
    <3>1. e \in pending \/ e \in w.events
      BY <2>4 DEF OneFetchAtATime
    <3>2. CASE w.events \subseteq pending' \/ w.events \subseteq dropped'
      BY <3>1, <3>2, CallbackEffect DEF Settled
    <3>3. CASE status = "200" /\ w.events \cap Refused \subseteq dropped'
      <4>1. w.events \ Refused \subseteq SavedFor("own")
        BY <3>3 DEF TicketInv, AnswerInv
      <4> QED BY <3>1, <3>3, <4>1, CallbackEffect, SettledGrows DEF Settled
    <3>4. \/ w.events \subseteq pending' \/ w.events \subseteq dropped'
          \/ status = "200" /\ w.events \cap Refused \subseteq dropped'
      BY CallbackEffect
    <3> QED BY <3>2, <3>3, <3>4
  <2>5. ASSUME NEW w \in waiting, Break(w), e \in pending \/ AwaitedBy(e)
        PROVE  e \in pending'
    <3>1. OnBatchSettled(w, "none")
      BY <2>5 DEF Break
    <3>2. pending' = w.events \cup pending
      BY <3>1 DEF OnBatchSettled, PutBack
    <3> QED BY <2>5, <3>2 DEF OneFetchAtATime
  <2>6. ASSUME NEW w \in waiting, Truncate(w), e \in pending \/ AwaitedBy(e)
        PROVE  e \in pending' \/ e \in Settled'
    BY <2>6 DEF Truncate, Settled, OneFetchAtATime
  <2>7. ASSUME Close, e \in pending \/ AwaitedBy(e)
        PROVE  e \in Settled'
    <3>1. e \in unwatched'
      BY <2>7 DEF Close
    <3> QED BY <3>1 DEF Settled
  <2>8. CASE UNCHANGED <<pending, waiting>>
    BY <2>0, <2>1, <2>8 DEF HeldInv
  <2>9. e \in pending \/ AwaitedBy(e) \/ e \in Settled
    BY <2>0 DEF HeldInv
  <2> QED BY <1>2, <2>1, <2>2, <2>3, <2>4, <2>5, <2>6, <2>7, <2>8, <2>9, StepCases
          DEF Still, Handle, Fail, Lose, sender
<1> QED BY <1>1, <1>2

LEMMA OrderStep ==
    ASSUME TypeOK, KnownInv, HeldInv, OrderInv, OneFetchAtATime, [Next]_vars
    PROVE  OrderInv'
<1> SUFFICES ASSUME NEW r \in wire', NEW f \in r.events \ unwatched',
                    NEW e \in Events, e < f
             PROVE  e \in r.events \/ e \in Settled'
  BY DEF OrderInv
<1>0. f \notin unwatched
  BY SettledGrows
<1>1. ASSUME NEW k \in Tickets, FetchLeaves(k), r.events = pending
      PROVE  e \in r.events \/ e \in Settled'
  <2>1. waiting = {}
    BY <1>1 DEF FetchLeaves, MayFlush, OneFetchAtATime
  <2>2. f \in 1..graded /\ graded \in Nat
    BY <1>1, BoundsAreNat DEF KnownInv, TypeOK
  <2>3. e \in 1..graded
    BY <2>2 DEF Events
  <2> QED BY <1>1, <2>1, <2>3, SettledGrows DEF HeldInv, AwaitedBy
<1>2. ASSUME NEW k \in Tickets, BeaconLeaves(k), r.events = pending PROVE FALSE
  BY <1>2 DEF BeaconLeaves
<1>3. JustSent(r) => e \in r.events \/ e \in Settled'
  BY <1>1, <1>2 DEF JustSent, Outgoing
<1>4. ASSUME NEW x \in wire, r.events = x.events
      PROVE  e \in r.events \/ e \in Settled'
  BY <1>0, <1>4, SettledGrows DEF OrderInv
<1> QED BY <1>3, <1>4, WireStep DEF JustHandled, WasThere

(* Only Handle writes to review_log, and only under the page's account. *)
LEMMA SavedStep ==
    ASSUME TypeOK, [Next]_vars, NEW x \in saved', x \notin saved
    PROVE  \E r \in wire : /\ Handle(r) /\ x.event \in r.events \ Refused
                           /\ r.events \ Refused \subseteq SavedFor("own")'
                           /\ x.account = "own"
<1>1. PICK r \in wire : Handle(r)
  BY StepCases
     DEF Still, FetchLeaves, BeaconLeaves, Grade, Settle, Break, Truncate, Fail,
         Lose, Close
<1>2. /\ session = "own"
      /\ saved' = saved \cup [account : {session}, event : r.events \ Refused]
  BY <1>1 DEF Handle, Verdict
<1>3. ASSUME NEW e \in r.events \ Refused PROVE e \in SavedFor("own")'
  <2>1. [account |-> "own", event |-> e] \in saved'
    BY <1>2, <1>3
  <2> QED BY <2>1 DEF SavedFor
<1> QED BY <1>1, <1>2, <1>3

LEMMA AccountStep ==
    ASSUME TypeOK, NeverMisattributed, [Next]_vars
    PROVE  NeverMisattributed'
<1>1. ASSUME NEW x \in saved', x.account = "other" PROVE FALSE
  <2>1. x \notin saved
    BY <1>1 DEF NeverMisattributed, SavedFor
  <2> QED BY <1>1, <2>1, SavedStep
<1> QED BY <1>1 DEF NeverMisattributed, SavedFor

LEMMA OvertakeStep ==
    ASSUME TypeOK, OrderInv, OnlyBeaconsOvertake, [Next]_vars
    PROVE  OnlyBeaconsOvertake'
<1> SUFFICES ASSUME NEW e \in Events, NEW f \in Events, e < f, e \notin Refused,
                    f \in SavedFor("own")', f \notin unwatched'
             PROVE  e \in Settled'
  BY DEF OnlyBeaconsOvertake
<1>0. f \notin unwatched
  BY SettledGrows
<1>1. CASE f \in SavedFor("own")
  BY <1>0, <1>1, SettledGrows DEF OnlyBeaconsOvertake
<1>2. CASE f \notin SavedFor("own")
  <2> PICK x \in saved' : x.account = "own" /\ x.event = f
    BY DEF SavedFor
  <2>1. x \notin saved
    BY <1>2 DEF SavedFor
  <2> PICK r \in wire : /\ f \in r.events
                        /\ r.events \ Refused \subseteq SavedFor("own")'
    BY <2>1, SavedStep
  <2>2. e \in r.events \/ e \in Settled
    BY <1>0 DEF OrderInv
  <2> QED BY <2>2, SettledGrows DEF Settled
<1> QED BY <1>1, <1>2

-----------------------------------------------------------------------------
(* The inductive invariant. *)
LEMMA Invariance == Spec => []Inv
<1>1. Init => Inv
  BY InitInv
<1>2. Inv /\ [Next]_vars => Inv'
  BY TypeStep, KnownStep, TicketStep, AnswerStep, HeldStep, OrderStep, FetchStep,
     AccountStep, OvertakeStep DEF Inv
<1> QED BY <1>1, <1>2, PTL DEF Spec

(* The sender's queues, the wire and the log hold grades of this page, and *)
(* its counters keep to their bounds.                                      *)
THEOREM TypeCorrect == Spec => []TypeOK
<1>1. Inv => TypeOK
  BY DEF Inv
<1> QED BY <1>1, Invariance, PTL

(* takePending, flush and onBatchSettled never let go of a grade: it is    *)
(* pending, with the one fetch under way, in review_log, on screen as an   *)
(* error, or was given to something that nobody watches.                   *)
THEOREM NothingSlipsAway == Spec => []GradesInOneHand
<1>1. Inv => GradesInOneHand
  <2>1. ASSUME NEW e, AwaitedBy(e) PROVE e \in Carried
    BY <2>1 DEF AwaitedBy, Carried
  <2>2. HeldInv => NothingVanishes
    BY <2>1 DEF HeldInv, NothingVanishes
  <2> QED BY <2>2 DEF Inv, GradesInOneHand
<1> QED BY <1>1, Invariance, PTL

(* The ?u= of batchURL and the handler's 409: whoever the browser is       *)
(* signed in as when a batch arrives, no other account's log gets it.      *)
THEOREM LogIsOwn == Spec => []NeverMisattributed
<1>1. Inv => NeverMisattributed
  BY DEF Inv
<1> QED BY <1>1, Invariance, PTL

(* A grade saved through a fetch has every earlier one saved, given up or  *)
(* out of sight before it.                                                 *)
THEOREM FetchesKeepOrder == Spec => []OnlyBeaconsOvertake
<1>1. Inv => OnlyBeaconsOvertake
  BY DEF Inv
<1> QED BY <1>1, Invariance, PTL
=============================================================================
