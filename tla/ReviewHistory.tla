--------------------------- MODULE ReviewHistory ---------------------------
(***************************************************************************)
(* The arithmetic of a card's review history: the order of review_log, the *)
(* forward scheduling of one review, and the fold that rebuilds a card's   *)
(* scheduling state from its log (internal/review, grade.go and replay.go).*)
(*                                                                         *)
(* FSRS is a pure function of the reviews it has been fed, in the order it *)
(* was fed them.  Its numbers (stability, difficulty, due ...) are         *)
(* abstracted to that history: a scheduling state is a set of steps, one   *)
(* per review scheduled, and each step remembers which reviews had been    *)
(* scheduled before it.  Two states are equal exactly when they come from  *)
(* the same reviews in the same order, so no two different histories are   *)
(* confused.                                                               *)
(*                                                                         *)
(* A review reaches the scheduler as an entry [id, at]: the review_log id  *)
(* (a UUID, ordered by its bytes: here an integer) and reviewed_at in      *)
(* microseconds.  The rating is a function of the id.                      *)
(***************************************************************************)
EXTENDS Integers, FiniteSets

Entries == [id : Int, at : Int]

Steps == [entry : Entries, after : SUBSET Entries]

Entry(r) == [id |-> r.id, at |-> r.at]

(* ORDER BY reviewed_at, id *)
Before(a, b) == \/ a.at < b.at
                \/ a.at = b.at /\ a.id < b.id

(* The state of a card that was never reviewed: fsrs.CardState{}. *)
NewCard == {}

(* The reviews a scheduling state was built from. *)
Reviewed(state) == {s.entry : s \in state}

(* fsrs.Schedule: one review applied to a state. *)
Schedule(state, e) == state \cup {[entry |-> e, after |-> Reviewed(state)]}

(* The reviews of a log that sort before e. *)
Preceding(entries, e) == {f \in entries : Before(f, e)}

(* replayStates: the state after folding Schedule, from NewCard, over the  *)
(* entries sorted by reviewed_at and id ...                                *)
Replay(entries) ==
    {[entry |-> e, after |-> Preceding(entries, e)] : e \in entries}

(* ... and the state that fold holds immediately before e: priors[i]. *)
PriorTo(entries, e) == Replay(Preceding(entries, e))

(* reviewed_at of the last row of a non-empty log. *)
LastReviewedAt(entries) ==
    (CHOOSE e \in entries : \A f \in entries : f = e \/ Before(f, e)).at

(* No two reviews of the card carry the same reviewed_at. *)
TieFree(entries) == \A a, b \in entries : a.at = b.at => a = b
=============================================================================
