-------------------------- MODULE MCReviewGrading --------------------------
(* Instances of ReviewGrading for TLC. *)
EXTENDS ReviewGrading, TLC

CONSTANTS c1, c2, c3, r1, r2, r3, i1

(* c1 and c2 have keys of their own; c3's hash collides with that of c1. *)
Key == [c \in Cards |-> IF c = c2 THEN 1 ELSE 2]

Grade(id, c, at) == [id |-> id, card |-> c, at |-> at]

(* A phone and a laptop grade the same two cards, one of them late; a batch *)
(* whose answer is lost is posted again, alone or with newer events.        *)
OverlappingPosts ==
    LET a == Grade(1, c1, 1)  b == Grade(2, c2, 0)  d == Grade(3, c1, 0)
    IN {{a, b}, {d}, {b, d}, {a, d}}

(* Batches of two cards that need the same two keys. *)
CrossingPosts ==
    {{Grade(1, c1, 0), Grade(2, c2, 0)}, {Grade(3, c2, 0), Grade(4, c3, 0)}}

(* With them, an event id used again for another card: only a broken client *)
(* does this.                                                              *)
BatchPosts == OverlappingPosts \cup {{Grade(1, c2, 1)}}

(* A client whose clock runs ahead: both reviews are clamped to the same   *)
(* instant.                                                                *)
SkewedPosts == {{Grade(1, c1, 2), Grade(2, c1, 3)}}

(* A review made on a phone before the others, which arrives last. *)
LatePosts == {{Grade(1, c1, 1)}, {Grade(2, c1, 2)}, {Grade(3, c1, 1)}}

NoPackages == {}

(* Batches of two cards, one of them late, from a client ahead of the      *)
(* server's clock.                                                         *)
RacingPosts == {{Grade(1, c1, 2), Grade(2, c2, 0)}, {Grade(3, c1, 0)}}

(* A re-import of a collection: history of c1 older or newer than what was *)
(* graded here, and a snapshot of c2, whose history it does not carry.     *)
History == {[reviews |-> {Grade(id, c1, at)}, seeds |-> {}] :
              <<id, at>> \in {<<11, -1>>, <<12, 2>>}}
Backfill == {[p EXCEPT !.seeds = {[id |-> 21, card |-> c2, at |-> at,
                                   suspended |-> at = Never]}] :
               p \in History, at \in {1, Never}}

(* Requests differ only in what they carry. *)
Handlers == Permutations(Requests)
=============================================================================
