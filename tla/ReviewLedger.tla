---------------------------- MODULE ReviewLedger ----------------------------
(***************************************************************************)
(* What grading promises, without transactions, locks or buffers: a        *)
(* ledger of reviews per card.  A batch lands at one instant and whole;    *)
(* each of its reviews is believed, adjusted or refused against one        *)
(* reading of the server's clock; a review lands once, however often it is *)
(* sent; a card's progress is always the replay of its ledger, until its   *)
(* progress is reset; and only what the ledger holds is ever acknowledged. *)
(***************************************************************************)
EXTENDS ReviewHistory

CONSTANTS Cards, Posts, Packages, MaxNow, ForwardWindow, PastWindow,
          Seeded,       \* the cards a package may give a state without reviews
          Unsettled     \* the progress of a card about which nothing is promised

VARIABLES ledger, progress, acknowledged,
          cleared       \* the cards whose progress has been reset

vars == <<ledger, progress, acknowledged, cleared>>

Recorded == {e.id : e \in UNION {ledger[c] : c \in Cards}}

(* A seeded card, a cleared one and one with two reviews at one instant    *)
(* are the exceptions.                                                     *)
Settle(c, entries) == IF TieFree(entries) /\ c \notin Seeded \cup cleared
                      THEN Replay(entries) ELSE Unsettled

Init ==
    /\ ledger = [c \in Cards |-> {}]
    /\ progress = [c \in Cards |-> IF c \in Seeded THEN Unsettled ELSE NewCard]
    /\ acknowledged = {}
    /\ cleared = {}

(* Reviews enter the ledger together. *)
Land(reviews) ==
    /\ ledger' = [c \in Cards |->
                    ledger[c] \cup {Entry(e) : e \in {r \in reviews : r.card = c}}]
    /\ progress' = [c \in Cards |-> Settle(c, ledger'[c])]
    /\ UNCHANGED cleared

(* A batch, read against the clock, for the cards the user may study.  An  *)
(* id that is recorded does not land again, and one that stands twice in   *)
(* the batch lands once.                                                   *)
Accept(post, clock, allowed) ==
    LET believed == {e \in post : /\ e.card \in allowed
                                  /\ e.at <= clock + ForwardWindow
                                  /\ e.at >= clock - PastWindow}
        adjusted == {[e EXCEPT !.at = IF e.at > clock THEN clock ELSE e.at] :
                       e \in believed}
        fresh    == {e \in adjusted : e.id \notin Recorded}
    IN /\ \E landed \in SUBSET fresh :
            /\ \A e \in fresh : \E f \in landed : f.id = e.id
            /\ \A e, f \in landed : e.id = f.id => e = f
            /\ Land(landed)
       /\ acknowledged' = acknowledged \cup {e.id : e \in believed}

(* Imported history is taken at its word, but for the reviews of a card    *)
(* that are there.                                                         *)
Backfill(package) ==
    /\ Land({r \in package.reviews : \A e \in ledger[r.card] : e.id # r.id})
    /\ UNCHANGED acknowledged

(* A reset forgets the progress and keeps the reviews. *)
Forget(cards) ==
    /\ cleared' = cleared \cup cards
    /\ progress' = [c \in Cards |-> IF c \in cards THEN Unsettled ELSE progress[c]]
    /\ UNCHANGED <<ledger, acknowledged>>

Next ==
    \/ \E post \in Posts, clock \in 0..MaxNow, allowed \in SUBSET Cards :
         Accept(post, clock, allowed)
    \/ \E package \in Packages : Backfill(package)
    \/ \E cards \in SUBSET Cards : Forget(cards)

Spec == Init /\ [][Next]_vars
=============================================================================
