-------------------------- MODULE DeckPackageProofs --------------------------
(***************************************************************************)
(* Proofs about DeckPackage, for any packages, tables, users and clocks.   *)
(***************************************************************************)
EXTENDS DeckPackage, FiniteSetTheorems, TLAPS

-----------------------------------------------------------------------------
(* The order of a card's reviews.                                          *)

Ordered(S) ==
    /\ IsFiniteSet(S)
    /\ \A q \in S : ~Earlier(q, q)
    /\ \A q, r \in S : q = r \/ Earlier(q, r) \/ Earlier(r, q)
    /\ \A q, r, s \in S : Earlier(q, r) /\ Earlier(r, s) => Earlier(q, s)

Rank(S, r) == Cardinality({q \in S : Earlier(q, r)})

(* The ranks of n reviews are 0 .. n - 1.                                   *)
LEMMA RanksAre ==
    ASSUME NEW S, Ordered(S)
    PROVE  /\ Cardinality(S) \in Nat
           /\ \A r \in S : Rank(S, r) \in 0 .. Cardinality(S) - 1
           /\ \A q, r \in S : Rank(S, q) = Rank(S, r) => q = r
           /\ \A i \in 0 .. Cardinality(S) - 1 : \E r \in S : Rank(S, r) = i
<1> DEFINE n == Cardinality(S)
           Below(r) == {q \in S : Earlier(q, r)}
<1>1. n \in Nat
  BY FS_CardinalityType DEF Ordered
<1>2. ASSUME NEW r \in S
      PROVE  IsFiniteSet(Below(r)) /\ Rank(S, r) \in 0 .. n - 1
  <2>1. Below(r) \subseteq S \ {r}
    BY DEF Ordered
  <2>2. IsFiniteSet(S \ {r}) /\ Cardinality(S \ {r}) = n - 1
    BY FS_RemoveElement DEF Ordered
  <2>3. IsFiniteSet(Below(r)) /\ Cardinality(Below(r)) <= n - 1
    BY <2>1, <2>2, FS_Subset
  <2>4. Cardinality(Below(r)) \in Nat
    BY <2>3, FS_CardinalityType
  <2> QED BY <1>1, <2>3, <2>4 DEF Rank
<1>3. ASSUME NEW q \in S, NEW r \in S, Earlier(q, r)
      PROVE  Rank(S, q) # Rank(S, r)
  <2>1. Below(q) \subseteq Below(r) /\ q \in Below(r) /\ q \notin Below(q)
    BY <1>3 DEF Ordered
  <2> QED BY <1>2, <2>1, FS_Subset DEF Rank
<1>4. \A q, r \in S : Rank(S, q) = Rank(S, r) => q = r
  BY <1>3 DEF Ordered
<1>5. \A i \in 0 .. n - 1 : \E r \in S : Rank(S, r) = i
  <2> DEFINE f == [r \in S |-> Rank(S, r)]
             T == 0 .. n - 1
  <2>1. IsFiniteSet(T) /\ Cardinality(T) = n
    BY <1>1, FS_Interval
  <2>2. f \in Injection(S, T)
    <3>1. f \in [S -> T]
      BY <1>2
    <3>2. \A q, r \in S : f[q] = f[r] => q = r
      BY <1>4
    <3> QED BY <3>1, <3>2 DEF Injection, IsInjective
  <2>3. IsFiniteSet(S)
    BY DEF Ordered
  <2>4. f \in Surjection(S, T)
    BY <2>1, <2>2, <2>3, FS_Injection
  <2> QED BY <2>4 DEF Surjection
<1> QED BY <1>1, <1>2, <1>4, <1>5

Rows(d, u, k) == {r \in d.log : r.user = u /\ r.card = k}
Orderly(log, t) == (\A r \in log : Made(r, t)) /\ Single(log)

(* What a user has reviewed of a card until an instant can be put in order. *)
LEMMA RowsAreOrdered ==
    ASSUME NEW d, NEW t \in Nat, Orderly(d.log, t), NEW u, NEW k
    PROVE  Ordered(Rows(d, u, k)) /\ \A r \in Rows(d, u, k) : r.at \in Nat
<1> DEFINE S == Rows(d, u, k)
           A == {r \in S : r.anki = None}
           B == {r \in S : r.anki # None}
<1>1. \A r \in S : /\ r \in d.log /\ r.user = u /\ r.card = k
                   /\ r.at \in Nat /\ r.at < t /\ r.id \in Nat
                   /\ IF r.anki = None THEN r.id = r.at ELSE r.at < r.id
  BY DEF Orderly, Made, Rows
<1>2. \A q, r \in S : q.at = r.at /\ (q.anki = None <=> r.anki = None) => q = r
  BY <1>1 DEF Orderly, Single
<1> HIDE DEF S
<1>3. IsFiniteSet(0 .. t)
  BY FS_Interval
<1>4. ASSUME NEW T, T \subseteq S, \A q, r \in T : (q.anki = None <=> r.anki = None)
      PROVE  IsFiniteSet(T)
  <2> DEFINE f == [r \in T |-> r.at]
  <2>1. f \in [T -> 0 .. t]
    BY <1>1, <1>4
  <2>2. \A q, r \in T : f[q] = f[r] => q = r
    BY <1>2, <1>4
  <2> HIDE DEF f
  <2>3. f \in Injection(T, 0 .. t)
    BY <2>1, <2>2 DEF Injection, IsInjective
  <2> QED BY <1>3, <2>3, FS_Injection
<1>5. IsFiniteSet(S)
  <2>1. IsFiniteSet(A) /\ IsFiniteSet(B)
    BY <1>4
  <2>2. S = A \cup B
    OBVIOUS
  <2> HIDE DEF A, B
  <2> QED BY <2>1, <2>2, FS_Union
<1>6. \A q, r \in S : q = r \/ Earlier(q, r) \/ Earlier(r, q)
  <2> SUFFICES ASSUME NEW q \in S, NEW r \in S, q.at = r.at, q.id = r.id PROVE q = r
    BY <1>1 DEF Earlier
  <2>1. q.anki = None <=> r.anki = None
    BY <1>1
  <2> QED BY <1>2, <2>1
<1>7. \A q \in S : ~Earlier(q, q)
  BY <1>1 DEF Earlier
<1>8. \A q, r, s \in S : Earlier(q, r) /\ Earlier(r, s) => Earlier(q, s)
  BY <1>1 DEF Earlier
<1> QED BY <1>1, <1>5, <1>6, <1>7, <1>8 DEF S, Ordered

HistoryOf(S) == [i \in 1 .. Cardinality(S) |-> (CHOOSE r \in S : Rank(S, r) = i - 1).at]

LEMMA HistoryIs ==
    \A d, u, k : History(d, u, k) = HistoryOf(Rows(d, u, k))
  BY DEF History, HistoryOf, Rows, Rank

(* A review later than all there are comes at the end of the history.       *)
LEMMA HistoryGrows ==
    ASSUME NEW S, Ordered(S), \A r \in S : r.at \in Nat,
           NEW new, new.at \in Nat, new \notin S, Ordered(S \cup {new}),
           \A r \in S : Earlier(r, new) /\ ~Earlier(new, r)
    PROVE  HistoryOf(S \cup {new}) = Append(HistoryOf(S), new.at)
<1> DEFINE T == S \cup {new}
           n == Cardinality(S)
           h == HistoryOf(S)
           g == HistoryOf(T)
<1>1. n \in Nat /\ Cardinality(T) = n + 1
  BY RanksAre, FS_AddElement DEF Ordered
<1>2. \A r \in S : Rank(T, r) = Rank(S, r)
  <2> SUFFICES ASSUME NEW r \in S PROVE {q \in T : Earlier(q, r)} = {q \in S : Earlier(q, r)}
    BY DEF Rank
  <2> QED OBVIOUS
<1>3. Rank(T, new) = n
  <2>1. ~Earlier(new, new)
    BY DEF Ordered
  <2>2. {q \in T : Earlier(q, new)} = S
    BY <2>1
  <2> QED BY <2>2 DEF Rank
<1>4. ASSUME NEW i \in 1 .. n PROVE g[i] = h[i] /\ h[i] \in Nat
  <2>1. i - 1 \in 0 .. n - 1 /\ i \in 1 .. n + 1
    BY <1>1
  <2>2. PICK r \in S : Rank(S, r) = i - 1
    <3>1. \A j \in 0 .. n - 1 : \E r \in S : Rank(S, r) = j
      BY RanksAre
    <3> QED BY <2>1, <3>1
  <2>3. \A q \in S : Rank(S, q) = i - 1 => q = r
    BY <2>2, RanksAre
  <2>4. Rank(T, r) = i - 1
    BY <1>2, <2>2
  <2>5. \A q \in T : Rank(T, q) = i - 1 => q = r
    <3>1. \A p, q \in T : Rank(T, p) = Rank(T, q) => p = q
      BY RanksAre
    <3> QED BY <2>4, <3>1
  <2>6. (CHOOSE q \in S : Rank(S, q) = i - 1) = r
    BY <2>2, <2>3
  <2>7. (CHOOSE q \in T : Rank(T, q) = i - 1) = r
    BY <2>4, <2>5
  <2>8. h[i] = r.at
    BY <2>6 DEF HistoryOf
  <2>9. g[i] = r.at
    BY <1>1, <2>1, <2>7 DEF HistoryOf
  <2> QED BY <2>8, <2>9
<1>5. g[n + 1] = new.at
  <2>1. n + 1 \in 1 .. n + 1 /\ (n + 1) - 1 = n
    BY <1>1
  <2>2. \A q \in T : Rank(T, q) = n => q = new
    <3>1. \A p, q \in T : Rank(T, p) = Rank(T, q) => p = q
      BY RanksAre
    <3> QED BY <1>3, <3>1
  <2>3. (CHOOSE q \in T : Rank(T, q) = n) = new
    BY <1>3, <2>2
  <2> QED BY <1>1, <2>1, <2>3 DEF HistoryOf
<1>6. h \in Seq(Nat) /\ Len(h) = n
  <2>1. h = [i \in 1 .. n |-> h[i]]
    BY DEF HistoryOf
  <2>2. h \in [1 .. n -> Nat]
    BY <1>4, <2>1
  <2> HIDE DEF h, n
  <2> QED BY <1>1, <2>2
<1>7. g = [i \in 1 .. n + 1 |-> g[i]]
  BY <1>1 DEF HistoryOf
<1>8. Append(h, new.at) = [i \in 1 .. n + 1 |-> IF i = n + 1 THEN new.at ELSE h[i]]
  <2> HIDE DEF h, n
  <2> QED BY <1>1, <1>6
<1>9. \A i \in 1 .. n + 1 : g[i] = IF i = n + 1 THEN new.at ELSE h[i]
  <2> TAKE i \in 1 .. n + 1
  <2> HIDE DEF g, h, n
  <2>1. CASE i = n + 1
    BY <1>5, <2>1
  <2>2. CASE i # n + 1
    <3>1. i \in 1 .. n
      BY <1>1, <2>2
    <3> QED BY <1>4, <2>2, <3>1
  <2> QED BY <2>1, <2>2
<1> HIDE DEF g, h, n
<1> QED BY <1>7, <1>8, <1>9 DEF g, h

-----------------------------------------------------------------------------
(* The log, what stands for it, and the packages that may add to it.        *)

Inv ==
    /\ now \in Nat
    /\ Scheduling(db, now)
    /\ \A f \in files : \A r \in f.revlog : r.id \in 0 .. now - 1

SameProgress(d, e) == DOMAIN e = DOMAIN d /\ e.log = d.log /\ e.states = d.states

LEMMA MadeLasts ==
    ASSUME NEW t \in Nat, NEW log, \A r \in log : Made(r, t)
    PROVE  \A r \in log : Made(r, t + 1)
<1> SUFFICES ASSUME NEW r \in log PROVE Made(r, t + 1)
  OBVIOUS
<1>1. Made(r, t)
  OBVIOUS
<1> QED BY <1>1 DEF Made

LEMMA SchedulingLasts ==
    ASSUME NEW t \in Nat, NEW d, NEW e, Scheduling(d, t), SameProgress(d, e)
    PROVE  Scheduling(e, t) /\ Scheduling(e, t + 1)
<1>1. \A u, k : History(e, u, k) = History(d, u, k)
  BY HistoryIs DEF Rows, SameProgress
<1>2. \A r \in e.log : Made(r, t) /\ Made(r, t + 1)
  BY MadeLasts DEF Scheduling, SameProgress
<1> QED BY <1>1, <1>2 DEF Scheduling, SameProgress

LEMMA NotStudied ==
    ASSUME NEW t \in Nat, NEW d, Scheduling(d, t), NEW u, NEW k, <<u, k>> \notin DOMAIN d.states
    PROVE  Rows(d, u, k) = {} /\ History(d, u, k) = <<>>
<1>1. Rows(d, u, k) = {}
  BY DEF Rows, Scheduling
<1>2. Cardinality({}) = 0
  BY FS_EmptySet
<1>3. HistoryOf({}) = <<>>
  BY <1>2 DEF HistoryOf
<1> QED BY <1>1, <1>3, HistoryIs

(* The steps of an import that leave the log and the rows alone.            *)
LEMMA FilingIsApart ==
    ASSUME NEW d, NEW u, NEW col
    PROVE  /\ SameProgress(d, importDecks(d, u, col))
           /\ SameProgress(d, importNoteTypes(d, u, col))
           /\ SameProgress(d, importNotes(d, u, col))
           /\ SameProgress(d, importCards(d, u, col))
           /\ SameProgress(d, seedDeckRetention(d, u, col))
<1>1. ASSUME NEW x PROVE SameProgress(d, [d EXCEPT !.decks = x])
  BY DEF SameProgress
<1>2. ASSUME NEW x PROVE SameProgress(d, [d EXCEPT !.types = x])
  BY DEF SameProgress
<1>3. ASSUME NEW x PROVE SameProgress(d, [d EXCEPT !.notes = x])
  BY DEF SameProgress
<1>4. ASSUME NEW x PROVE SameProgress(d, [d EXCEPT !.cards = x])
  BY DEF SameProgress
<1>5. ASSUME NEW x PROVE SameProgress(d, [d EXCEPT !.retention = x])
  BY DEF SameProgress
<1>6. SameProgress(d, importDecks(d, u, col))
  BY <1>1 DEF importDecks
<1>7. SameProgress(d, importNoteTypes(d, u, col))
  BY <1>2 DEF importNoteTypes
<1>8. SameProgress(d, importNotes(d, u, col))
  BY <1>3 DEF importNotes
<1>9. SameProgress(d, importCards(d, u, col))
  BY <1>4 DEF importCards
<1>10. SameProgress(d, seedDeckRetention(d, u, col))
  BY <1>5 DEF seedDeckRetention
<1> QED BY <1>6, <1>7, <1>8, <1>9, <1>10

LEMMA ScheduledIs ==
    ASSUME NEW r, "mem" \in DOMAIN r, NEW mem, NEW at, NEW retention
    PROVE  /\ DOMAIN Scheduled(r, mem, at, retention) = DOMAIN r
           /\ Scheduled(r, mem, at, retention).mem = mem
  BY DEF Scheduled

(* The reviews a package brings, as they are filed.                         *)
LEMMA InsertedIs ==
    ASSUME NEW d, NEW u, NEW col, \A r \in col.reviews : r.anki \in 0 .. now - 1,
           NEW r \in Inserted(d, u, col)
    PROVE  /\ r.user = u /\ r.at = r.anki /\ r.anki \in 0 .. now - 1 /\ r.id = now + r.anki
           /\ \E c \in Reviewed(d, u, col) : r.card = KeyOf(u, col, c)
           /\ \A l \in d.log : l.user # u \/ l.card # r.card \/ l.anki # r.anki
           /\ r = [user |-> u, card |-> r.card, at |-> r.anki, anki |-> r.anki, id |-> now + r.anki]
<1>1. PICK c \in Reviewed(d, u, col), v \in col.reviews :
         r = [user |-> u, card |-> KeyOf(u, col, c), at |-> v.anki, anki |-> v.anki,
              id |-> now + v.anki]
  BY DEF Inserted
<1>2. \A l \in d.log : l.user # u \/ l.card # r.card \/ l.anki # r.anki
  BY DEF Inserted
<1> QED BY <1>1, <1>2

LEMMA ReviewsFollow ==
    ASSUME now \in Nat, NEW d, Scheduling(d, now), NEW u, NEW col,
           \A r \in col.reviews : r.anki \in 0 .. now - 1
    PROVE  Scheduling(importReviews(d, u, col), now)
<1> DEFINE X == Inserted(d, u, col)
           logged == [d EXCEPT !.log = @ \cup X]
           P == {<<u, KeyOf(u, col, c)>> : c \in Reviewed(d, u, col)}
           new == [p \in P |-> ReplayCard(logged, u, p[2])]
           e == importReviews(d, u, col)
<1>1. {"log", "states"} \subseteq DOMAIN d
  BY DEF Scheduling
<1>2. logged.log = d.log \cup X /\ logged.states = d.states /\ DOMAIN logged = DOMAIN d
  BY <1>1
<1>3. e = [logged EXCEPT !.states = new ++ @]
  BY DEF importReviews
<1> HIDE DEF e, X, logged
<1>4. e.log = d.log \cup X /\ e.states = new ++ d.states /\ DOMAIN e = DOMAIN d
  BY <1>1, <1>2, <1>3
<1>5. DOMAIN e.states = P \cup DOMAIN d.states
  <2>1. DOMAIN new = P
    OBVIOUS
  <2> HIDE DEF new, P
  <2> QED BY <1>4, <2>1 DEF ++
<1>6. ASSUME NEW r \in X
      PROVE  /\ r.user = u /\ r.at = r.anki /\ r.anki \in 0 .. now - 1 /\ r.id = now + r.anki
             /\ <<u, r.card>> \in P
             /\ \A l \in d.log : l.user # u \/ l.card # r.card \/ l.anki # r.anki
             /\ r = [user |-> u, card |-> r.card, at |-> r.anki, anki |-> r.anki,
                     id |-> now + r.anki]
  BY <1>6, InsertedIs DEF X
<1>7. ASSUME NEW r \in e.log PROVE Made(r, now) /\ <<r.user, r.card>> \in DOMAIN e.states
  <2>1. CASE r \in d.log
    BY <1>5, <2>1 DEF Scheduling
  <2>2. CASE r \in X
    <3>1. r.anki \in Nat /\ r.anki # None /\ r.at = r.anki /\ r.at < now /\ r.id = now + r.at
      BY <1>6, <2>2, PackageAssumption
    <3> QED BY <1>5, <1>6, <2>2, <3>1 DEF Made
  <2> QED BY <1>4, <1>7, <2>1, <2>2
<1>8. Single(e.log)
  <2>1. Single(d.log) /\ \A r \in d.log : Made(r, now)
    BY DEF Scheduling
  <2>2. ASSUME NEW q \in d.log, NEW r \in X,
               q.user = r.user, q.card = r.card, q.at = r.at, (q.anki = None) = (r.anki = None)
        PROVE  FALSE
    <3>1. r.anki # None
      BY <1>6, PackageAssumption
    <3>2. q.anki = q.at
      BY <2>1, <2>2, <3>1 DEF Made
    <3> QED BY <1>6, <2>2, <3>2
  <2>3. ASSUME NEW q \in X, NEW r \in X, q.card = r.card, q.at = r.at
        PROVE  q = r
    BY <1>6, <2>3
  <2> SUFFICES ASSUME NEW q \in e.log, NEW r \in e.log,
                      q.user = r.user, q.card = r.card, q.at = r.at,
                      (q.anki = None) = (r.anki = None)
               PROVE  q = r
    BY DEF Single
  <2>4. CASE q \in d.log /\ r \in d.log
    BY <2>1, <2>4 DEF Single
  <2>5. CASE q \in X /\ r \in X
    BY <2>3, <2>5
  <2>6. CASE q \in d.log /\ r \in X
    BY <2>2, <2>6
  <2>7. CASE q \in X /\ r \in d.log
    BY <2>2, <2>7
  <2> QED BY <1>4, <2>4, <2>5, <2>6, <2>7
<1>9. \A v, k : Rows(e, v, k) = Rows(logged, v, k)
  BY <1>2, <1>4 DEF Rows
<1>10. ASSUME NEW p \in P
       PROVE  /\ p = <<p[1], p[2]>> /\ "mem" \in DOMAIN e.states[p]
              /\ "reviews" \in DOMAIN e.states[p].mem
              /\ e.states[p].mem.reviews = History(e, p[1], p[2])
  <2>1. PICK c \in Reviewed(d, u, col) : p = <<u, KeyOf(u, col, c)>>
    OBVIOUS
  <2>2. p[1] = u /\ p = <<p[1], p[2]>>
    BY <2>1
  <2> DEFINE h == History(logged, u, p[2])
             old == RowOf(logged, u, p[2])
  <2>3. "mem" \in DOMAIN old
    BY <1>2 DEF Scheduling, RowOf, Unseen
  <2>4. e.states[p] = ReplayCard(logged, u, p[2])
    <3>1. p \in DOMAIN new /\ new[p] = ReplayCard(logged, u, p[2])
      OBVIOUS
    <3> HIDE DEF new, P
    <3> QED BY <1>4, <3>1 DEF ++
  <2>5. ReplayCard(logged, u, p[2]).mem = [seed |-> None, reviews |-> h]
        /\ DOMAIN ReplayCard(logged, u, p[2]) = DOMAIN old
    <3> HIDE DEF old
    <3> QED BY <2>3, ScheduledIs DEF ReplayCard, old
  <2>6. h = History(e, p[1], p[2])
    BY <1>9, <2>2, HistoryIs
  <2> HIDE DEF h, old, P
  <2> QED BY <2>2, <2>3, <2>4, <2>5, <2>6
<1>11. ASSUME NEW p \in DOMAIN d.states, p \notin P
       PROVE  /\ p = <<p[1], p[2]>> /\ "mem" \in DOMAIN e.states[p]
              /\ "reviews" \in DOMAIN e.states[p].mem
              /\ e.states[p].mem.reviews = History(e, p[1], p[2])
  <2>1. /\ p = <<p[1], p[2]>> /\ "mem" \in DOMAIN d.states[p]
        /\ "reviews" \in DOMAIN d.states[p].mem
        /\ d.states[p].mem.reviews = History(d, p[1], p[2])
    BY DEF Scheduling
  <2>2. e.states[p] = d.states[p]
    <3>1. DOMAIN new = P
      OBVIOUS
    <3> HIDE DEF new, P
    <3> QED BY <1>4, <1>11, <3>1 DEF ++
  <2>3. Rows(e, p[1], p[2]) = Rows(d, p[1], p[2])
    <3> HIDE DEF P
    <3>1. \A r \in X : r.user # p[1] \/ r.card # p[2]
      <4> SUFFICES ASSUME NEW r \in X, r.user = p[1], r.card = p[2] PROVE p \in P
        BY <1>11
      <4>1. <<u, r.card>> \in P /\ r.user = u
        BY <1>6
      <4> QED BY <2>1, <4>1
    <3> QED BY <1>4, <3>1 DEF Rows
  <2> QED BY <2>1, <2>2, <2>3, HistoryIs
<1>12. ASSUME NEW p \in DOMAIN e.states
       PROVE  /\ p = <<p[1], p[2]>> /\ "mem" \in DOMAIN e.states[p]
              /\ "reviews" \in DOMAIN e.states[p].mem
              /\ e.states[p].mem.reviews = History(e, p[1], p[2])
  <2> HIDE DEF P
  <2> QED BY <1>5, <1>10, <1>11, <1>12
<1>13. {"log", "states"} \subseteq DOMAIN e
  BY <1>1, <1>4
<1> HIDE DEF P
<1>14. Scheduling(e, now)
  BY <1>7, <1>8, <1>12, <1>13 DEF Scheduling
<1> QED BY <1>14 DEF e

LEMMA SeedsFollow ==
    ASSUME now \in Nat, NEW d, Scheduling(d, now), NEW u, NEW col
    PROVE  Scheduling(seedCardStates(d, u, col), now)
<1> DEFINE C == {c \in ResolvedCards(d, u, col) :
                    /\ \A r \in col.reviews : r.card # c.anki
                    /\ c.fsrs # None \/ c.type # New \/ c.suspended \/ c.flag # 0
                    /\ c.type \in New .. Relearning}
           SeedOf(c) == [mem |-> IF c.fsrs = None THEN NoMemory ELSE AsSeed(c.fsrs),
                         state |-> c.type,
                         due |-> IF c.due.kind = "at" THEN c.due.at ELSE now,
                         ivl |-> c.ivl \div DayTicks, suspended |-> c.suspended,
                         buried |-> 0, flag |-> c.flag]
           P == {<<u, KeyOf(u, col, c)>> : c \in C}
           new == [p \in P |-> SeedOf(CHOOSE c \in C : KeyOf(u, col, c) = p[2])]
           e == seedCardStates(d, u, col)
<1>1. e = [d EXCEPT !.states = @ ++ new]
  BY DEF seedCardStates
<1> HIDE DEF e, C
<1>2. e.log = d.log /\ e.states = d.states ++ new /\ DOMAIN e = DOMAIN d
      /\ {"log", "states"} \subseteq DOMAIN d
  BY <1>1 DEF Scheduling
<1>3. \A p \in P : /\ p = <<p[1], p[2]>> /\ "mem" \in DOMAIN new[p]
                   /\ "reviews" \in DOMAIN new[p].mem /\ new[p].mem.reviews = <<>>
  BY DEF NoMemory, AsSeed
<1>4. DOMAIN new = P
  OBVIOUS
<1> HIDE DEF new, P
<1>5. DOMAIN e.states = DOMAIN d.states \cup P
  BY <1>2, <1>4 DEF ++
<1>6. \A v, k : History(e, v, k) = History(d, v, k)
  BY <1>2, HistoryIs DEF Rows
<1>7. ASSUME NEW p \in DOMAIN e.states
      PROVE  /\ p = <<p[1], p[2]>> /\ "mem" \in DOMAIN e.states[p]
             /\ "reviews" \in DOMAIN e.states[p].mem
             /\ e.states[p].mem.reviews = History(e, p[1], p[2])
  <2>1. CASE p \in DOMAIN d.states
    <3>1. e.states[p] = d.states[p]
      BY <1>2, <2>1 DEF ++
    <3> QED BY <1>6, <2>1, <3>1 DEF Scheduling
  <2>2. CASE p \notin DOMAIN d.states
    <3>1. p \in P /\ e.states[p] = new[p]
      BY <1>2, <1>4, <1>5, <2>2 DEF ++
    <3>2. p = <<p[1], p[2]>>
      BY <1>3, <3>1
    <3>3. History(d, p[1], p[2]) = <<>>
      BY <2>2, <3>2, NotStudied
    <3> QED BY <1>3, <1>6, <3>1, <3>3
  <2> QED BY <2>1, <2>2
<1>8. \A r \in e.log : Made(r, now) /\ <<r.user, r.card>> \in DOMAIN e.states
  BY <1>2, <1>5 DEF Scheduling
<1>9. Single(e.log)
  BY <1>2 DEF Scheduling
<1>10. {"log", "states"} \subseteq DOMAIN e
  BY <1>2
<1>11. Scheduling(e, now)
  BY <1>7, <1>8, <1>9, <1>10 DEF Scheduling
<1> QED BY <1>11 DEF e

LEMMA ImportKeeps ==
    ASSUME Inv, NEW u, NEW f \in files, Import(u, f)
    PROVE  Inv'
<1> DEFINE col == Read(f)
           d1 == importNoteTypes(importDecks(db, u, col), u, col)
           d2 == importCards(importNotes(d1, u, col), u, col)
           d3 == seedDeckRetention(d2, u, col)
           d4 == importReviews(d3, u, col)
<1>1. now \in Nat /\ now' = now + 1 /\ files' = files /\ Scheduling(db, now)
  BY DEF Inv, Import
<1>2. \A r \in col.reviews : r.anki \in 0 .. now - 1
  <2>1. col.reviews = readRevlog(f)
    BY DEF Read
  <2>2. \A r \in f.revlog : r.id \in 0 .. now - 1
    BY DEF Inv
  <2> QED BY <2>1, <2>2 DEF readRevlog
<1> HIDE DEF col
<1>3. SameProgress(db, d3)
  <2>1. \A a, b, c : SameProgress(a, b) /\ SameProgress(b, c) => SameProgress(a, c)
    BY DEF SameProgress
  <2>2. SameProgress(db, d1)
    <3>1. SameProgress(db, importDecks(db, u, col))
      BY FilingIsApart
    <3>2. SameProgress(importDecks(db, u, col), d1)
      BY FilingIsApart
    <3> QED BY <2>1, <3>1, <3>2
  <2> HIDE DEF d1
  <2>3. SameProgress(d1, d2)
    <3>1. SameProgress(d1, importNotes(d1, u, col))
      BY FilingIsApart
    <3>2. SameProgress(importNotes(d1, u, col), d2)
      BY FilingIsApart
    <3> QED BY <2>1, <3>1, <3>2
  <2> HIDE DEF d2
  <2>4. SameProgress(d2, d3)
    BY FilingIsApart
  <2> QED BY <2>1, <2>2, <2>3, <2>4
<1>4. Imported(db, u, col) = seedCardStates(d4, u, col)
  BY DEF Imported
<1> HIDE DEF d3
<1>5. Scheduling(d3, now)
  BY <1>1, <1>3, SchedulingLasts
<1>6. Scheduling(d4, now)
  BY <1>1, <1>2, <1>5, ReviewsFollow
<1> HIDE DEF d4
<1>7. Scheduling(Imported(db, u, col), now)
  BY <1>1, <1>4, <1>6, SeedsFollow
<1>8. Scheduling(db', now)
  BY <1>1, <1>7 DEF Import, col
<1>9. Scheduling(db', now')
  BY <1>1, <1>8, SchedulingLasts DEF SameProgress
<1>10. \A g \in files' : \A r \in g.revlog : r.id \in 0 .. now' - 1
  BY <1>1 DEF Inv
<1> QED BY <1>1, <1>9, <1>10 DEF Inv

(* An export writes reviews under the instants they were made at.           *)
LEMMA ReadRowsKeeps ==
    ASSUME Inv, ReadRows
    PROVE  Inv'
<1>1. now' = now /\ db' = db /\ now \in Nat /\ Scheduling(db, now)
  BY DEF ReadRows, Inv
<1>2. CASE files' = files
  BY <1>1, <1>2 DEF Inv
<1>3. CASE files' # files
  <2>1. PICK x : x.reviews.log = db.log /\ files' = files \cup {Package(x)}
    <3>1. PICK s \in DOMAIN Statements :
             /\ ~(s < Len(Statements))
             /\ files' = files \cup {Package([t \in {Statements[s]} |-> Seen(t)] ++ reading)}
      BY <1>3 DEF ReadRows
    <3>2. Statements[s] = "reviews"
      BY <3>1 DEF Statements
    <3>3. ([t \in {"reviews"} |-> Seen(t)] ++ reading).reviews = Seen("reviews")
      BY DEF ++
    <3>4. Seen("reviews").log = db.log
      BY DEF Seen, Tables, Restrict
    <3> QED BY <3>1, <3>2, <3>3, <3>4
  <2>2. ASSUME NEW r \in Package(x).revlog PROVE r.id \in 0 .. now - 1
    <3>1. PICK q \in ReviewRows(x) : r.id = exportAnkiID(q.anki, q.at)
      BY DEF Package
    <3>2. q \in db.log
      BY <2>1 DEF ReviewRows, ReviewsIn
    <3>3. Made(q, now)
      BY <1>1, <3>2 DEF Scheduling
    <3>4. q.at \in 0 .. now - 1 /\ (q.anki = None \/ q.anki = q.at)
      BY <1>1, <3>3 DEF Made
    <3> QED BY <3>1, <3>4 DEF exportAnkiID
  <2> QED BY <1>1, <2>1, <2>2 DEF Inv
<1> QED BY <1>2, <1>3

(* What users do besides studying and changing settings.                    *)
LEMMA EditKeeps ==
    ASSUME Inv, NEW d, Scheduling(d, now), Edit(d)
    PROVE  Inv'
<1>1. now \in Nat /\ now' = now + 1 /\ db' = d /\ files' = files
  BY DEF Inv, Edit
<1>2. Scheduling(d, now + 1)
  BY <1>1, SchedulingLasts DEF SameProgress
<1>3. \A f \in files' : \A r \in f.revlog : r.id \in 0 .. now' - 1
  BY <1>1 DEF Inv
<1> QED BY <1>1, <1>2, <1>3 DEF Inv

LEMMA OtherEditsKeep ==
    ASSUME Inv, NEW d, SameProgress(db, d), Edit(d)
    PROVE  Inv'
<1>1. Scheduling(d, now)
  BY SchedulingLasts DEF Inv
<1> QED BY <1>1, EditKeeps

(* Suspending, burying and flagging leave the memory as it is.              *)
LEMMA ChangeSettingsKeeps ==
    ASSUME Inv, NEW u, NEW k, NEW new \in Settings, ChangeSettings(u, k, new)
    PROVE  Inv'
<1> DEFINE p0 == <<u, k>>
           row == new ++ RowOf(db, u, k)
           d == [db EXCEPT !.states = [p \in {p0} |-> row] ++ @]
<1>1. now \in Nat /\ Scheduling(db, now) /\ {"log", "states"} \subseteq DOMAIN db
  BY DEF Inv, Scheduling
<1>2. "mem" \notin DOMAIN new
  BY DEF Settings
<1>3. /\ "mem" \in DOMAIN RowOf(db, u, k) /\ "reviews" \in DOMAIN RowOf(db, u, k).mem
      /\ RowOf(db, u, k).mem.reviews = History(db, u, k)
  <2>1. CASE p0 \in DOMAIN db.states
    BY <1>1, <2>1 DEF RowOf, Scheduling
  <2>2. CASE p0 \notin DOMAIN db.states
    BY <1>1, <2>2, NotStudied DEF RowOf, Unseen, NoMemory
  <2> QED BY <2>1, <2>2
<1>4. "mem" \in DOMAIN row /\ row.mem = RowOf(db, u, k).mem
  <2> DEFINE old == RowOf(db, u, k)
  <2> HIDE DEF old
  <2>1. "mem" \in DOMAIN old
    BY <1>3 DEF old
  <2>2. "mem" \in DOMAIN (new ++ old) /\ (new ++ old).mem = old.mem
    BY <1>2, <2>1 DEF ++
  <2> QED BY <2>2 DEF old
<1>5. d.log = db.log /\ DOMAIN d = DOMAIN db /\ d.states = [p \in {p0} |-> row] ++ db.states
  BY <1>1
<1> HIDE DEF row, d
<1>6. /\ DOMAIN d.states = {p0} \cup DOMAIN db.states /\ d.states[p0] = row
      /\ \A p \in DOMAIN db.states : p # p0 => d.states[p] = db.states[p]
  <2> HIDE DEF p0
  <2> QED BY <1>5 DEF ++
<1>7. \A v, c : History(d, v, c) = History(db, v, c)
  BY <1>5, HistoryIs DEF Rows
<1>8. ASSUME NEW p \in DOMAIN d.states
      PROVE  /\ p = <<p[1], p[2]>> /\ "mem" \in DOMAIN d.states[p]
             /\ "reviews" \in DOMAIN d.states[p].mem
             /\ d.states[p].mem.reviews = History(d, p[1], p[2])
  <2>1. CASE p = p0
    <3>1. p[1] = u /\ p[2] = k /\ p = <<p[1], p[2]>>
      BY <2>1
    <3> HIDE DEF p0
    <3> QED BY <1>3, <1>4, <1>6, <1>7, <2>1, <3>1
  <2>2. CASE p # p0
    <3> HIDE DEF p0
    <3> QED BY <1>1, <1>6, <1>7, <2>2 DEF Scheduling
  <2> QED BY <2>1, <2>2
<1>9. \A r \in d.log : Made(r, now) /\ <<r.user, r.card>> \in DOMAIN d.states
  <2> HIDE DEF p0
  <2> QED BY <1>1, <1>5, <1>6 DEF Scheduling
<1>10. Single(d.log)
  BY <1>1, <1>5 DEF Scheduling
<1>11. Scheduling(d, now)
  BY <1>1, <1>5, <1>8, <1>9, <1>10 DEF Scheduling
<1>12. Edit(d)
  BY DEF ChangeSettings, d, row
<1> QED BY <1>11, <1>12, EditKeeps

(* A review made now comes at the end of what the user reviewed of a card.  *)
LEMMA ReviewComesLast ==
    ASSUME NEW t \in Nat, NEW d, Orderly(d.log, t), NEW s \in Nat, NEW e, Orderly(e.log, s),
           NEW u, NEW k, NEW r, r.at = t, r.anki = None, r.id = t,
           Rows(e, u, k) = Rows(d, u, k) \cup {r}
    PROVE  History(e, u, k) = Append(History(d, u, k), t)
<1> DEFINE S == Rows(d, u, k)
           T == Rows(e, u, k)
<1>1. Ordered(S) /\ \A q \in S : q.at \in Nat
  BY RowsAreOrdered
<1>2. Ordered(T)
  BY RowsAreOrdered
<1>3. \A q \in S : q.at \in Nat /\ q.at < t
  BY <1>1 DEF Orderly, Made, Rows
<1> HIDE DEF S, T
<1>4. T = S \cup {r}
  BY DEF S, T
<1>5. r \notin S /\ \A q \in S : Earlier(q, r) /\ ~Earlier(r, q)
  BY <1>3 DEF Earlier
<1>6. HistoryOf(T) = Append(HistoryOf(S), r.at)
  BY <1>1, <1>2, <1>4, <1>5, HistoryGrows
<1> QED BY <1>6, HistoryIs DEF S, T

LEMMA GradeBatchKeeps ==
    ASSUME Inv, NEW u, NEW K, GradeBatch(u, K)
    PROVE  Inv'
<1> DEFINE New1(k) == [user |-> u, card |-> k, at |-> now, anki |-> None, id |-> now]
           X == {New1(k) : k \in K}
           P == {u} \X K
           Row(k) == Scheduled(RowOf(db, u, k), [RowOf(db, u, k).mem EXCEPT !.reviews = Append(@, now)],
                               now, Retention(db, u, db.cards[k].deck))
           new == [p \in P |-> Row(p[2])]
           d == [db EXCEPT !.log = @ \cup X, !.states = new ++ @]
<1>1. /\ now \in Nat /\ Scheduling(db, now) /\ {"log", "states"} \subseteq DOMAIN db
      /\ now' = now + 1 /\ files' = files
  BY DEF Inv, Scheduling, GradeBatch
<1>2. db' = d
  BY DEF GradeBatch
<1>3. d.log = db.log \cup X /\ d.states = new ++ db.states /\ DOMAIN d = DOMAIN db
  BY <1>1
<1> HIDE DEF d
<1>4. DOMAIN new = P
  OBVIOUS
<1>5. \A k \in K : <<u, k>> \in P /\ new[<<u, k>>] = Row(k)
  OBVIOUS
<1>6. \A p \in P : \E k \in K : p = <<u, k>>
  OBVIOUS
<1> HIDE DEF new, P
<1>7. /\ DOMAIN d.states = P \cup DOMAIN db.states
      /\ \A k \in K : d.states[<<u, k>>] = Row(k)
      /\ \A p \in DOMAIN db.states : p \notin P => d.states[p] = db.states[p]
  BY <1>3, <1>4, <1>5 DEF ++
<1>8. \A r \in X : /\ r.card \in K /\ r = New1(r.card)
                   /\ r.user = u /\ r.at = now /\ r.anki = None /\ r.id = now
  OBVIOUS
<1>9. \A k \in K : New1(k) \in X /\ New1(k).user = u /\ New1(k).card = k
  OBVIOUS
<1> HIDE DEF X
<1>10. ASSUME NEW r \in d.log
       PROVE  Made(r, now + 1) /\ <<r.user, r.card>> \in DOMAIN d.states
  <2>1. CASE r \in db.log
    <3>1. Made(r, now + 1) /\ <<r.user, r.card>> \in DOMAIN db.states
      BY <1>1, <2>1, MadeLasts DEF Scheduling
    <3> QED BY <1>7, <3>1
  <2>2. CASE r \in X
    <3>1. Made(r, now + 1)
      BY <1>1, <1>8, <2>2 DEF Made
    <3> QED BY <1>5, <1>7, <1>8, <2>2, <3>1
  <2> QED BY <1>3, <1>10, <2>1, <2>2
<1>11. Single(d.log)
  <2>1. \A q \in db.log : q.at < now
    BY <1>1 DEF Scheduling, Made
  <2>2. \A q \in db.log, r \in X : q.at # r.at
    BY <1>1, <1>8, <2>1
  <2>3. \A q, r \in X : q.card = r.card => q = r
    BY <1>8
  <2>4. Single(db.log)
    BY <1>1 DEF Scheduling
  <2> QED BY <1>3, <2>2, <2>3, <2>4 DEF Single
<1>12. Orderly(db.log, now) /\ Orderly(d.log, now + 1)
  BY <1>1, <1>10, <1>11 DEF Orderly, Scheduling
<1>13. ASSUME NEW k \in K
       PROVE  /\ "mem" \in DOMAIN d.states[<<u, k>>]
              /\ "reviews" \in DOMAIN d.states[<<u, k>>].mem
              /\ d.states[<<u, k>>].mem.reviews = History(d, u, k)
  <2> DEFINE old == RowOf(db, u, k)
  <2>1. "mem" \in DOMAIN old /\ "reviews" \in DOMAIN old.mem /\ old.mem.reviews = History(db, u, k)
    <3>1. CASE <<u, k>> \in DOMAIN db.states
      BY <1>1, <3>1 DEF RowOf, Scheduling
    <3>2. CASE <<u, k>> \notin DOMAIN db.states
      BY <1>1, <3>2, NotStudied DEF RowOf, Unseen, NoMemory
    <3> QED BY <3>1, <3>2
  <2> DEFINE mem == [old.mem EXCEPT !.reviews = Append(@, now)]
  <2>2. DOMAIN Row(k) = DOMAIN old /\ Row(k).mem = mem
    <3> HIDE DEF old
    <3> QED BY <2>1, ScheduledIs DEF old
  <2> HIDE DEF old
  <2>3. "reviews" \in DOMAIN mem /\ mem.reviews = Append(History(db, u, k), now)
    BY <2>1
  <2>4. Rows(d, u, k) = Rows(db, u, k) \cup {New1(k)}
    BY <1>3, <1>8, <1>9 DEF Rows
  <2>5. History(d, u, k) = Append(History(db, u, k), now)
    <3> DEFINE r == New1(k)
    <3>1. r.at = now /\ r.anki = None /\ r.id = now
      OBVIOUS
    <3>2. Rows(d, u, k) = Rows(db, u, k) \cup {r}
      BY <2>4
    <3>3. Orderly(db.log, now) /\ Orderly(d.log, now + 1) /\ now \in Nat /\ now + 1 \in Nat
      BY <1>1, <1>12
    <3> HIDE DEF r, mem, Row, New1
    <3> QED BY <3>1, <3>2, <3>3, ReviewComesLast
  <2> HIDE DEF mem, Row
  <2> QED BY <1>7, <2>1, <2>2, <2>3, <2>5
<1>14. ASSUME NEW p \in DOMAIN d.states
       PROVE  /\ p = <<p[1], p[2]>> /\ "mem" \in DOMAIN d.states[p]
              /\ "reviews" \in DOMAIN d.states[p].mem
              /\ d.states[p].mem.reviews = History(d, p[1], p[2])
  <2>1. CASE p \in P
    <3>1. PICK k \in K : p = <<u, k>>
      BY <1>6, <2>1
    <3>2. p[1] = u /\ p[2] = k /\ p = <<p[1], p[2]>>
      BY <3>1
    <3> QED BY <1>13, <3>1, <3>2
  <2>2. CASE p \notin P
    <3>1. p \in DOMAIN db.states /\ d.states[p] = db.states[p]
      BY <1>7, <2>2
    <3>2. p = <<p[1], p[2]>>
      BY <1>1, <3>1 DEF Scheduling
    <3>3. \A r \in X : r.user # p[1] \/ r.card # p[2]
      <4> SUFFICES ASSUME NEW r \in X, r.user = p[1], r.card = p[2] PROVE p \in P
        BY <2>2
      <4>1. <<u, r.card>> \in P /\ r.user = u
        BY <1>5, <1>8
      <4> QED BY <3>2, <4>1
    <3>4. Rows(d, p[1], p[2]) = Rows(db, p[1], p[2])
      BY <1>3, <3>3 DEF Rows
    <3>5. History(d, p[1], p[2]) = History(db, p[1], p[2])
      BY <3>4, HistoryIs
    <3> QED BY <1>1, <3>1, <3>2, <3>5 DEF Scheduling
  <2> QED BY <2>1, <2>2
<1>15. Scheduling(d, now + 1)
  BY <1>1, <1>3, <1>10, <1>11, <1>14 DEF Scheduling
<1>16. \A f \in files' : \A r \in f.revlog : r.id \in 0 .. now' - 1
  BY <1>1 DEF Inv
<1> QED BY <1>1, <1>2, <1>15, <1>16 DEF Inv

LEMMA NextKeeps ==
    ASSUME Inv, [Next]_vars
    PROVE  Inv'
<1>1. ASSUME NEW x PROVE /\ SameProgress(db, [db EXCEPT !.decks = x])
                         /\ SameProgress(db, [db EXCEPT !.types = x])
                         /\ SameProgress(db, [db EXCEPT !.retention = x])
                         /\ \A y : SameProgress(db, [db EXCEPT !.notes = x, !.cards = y])
  BY DEF SameProgress
<1>2. CASE UNCHANGED vars
  BY <1>2 DEF vars, Inv, Scheduling, History
<1>3. CASE ReadRows
  BY <1>3, ReadRowsKeeps
<1>4. ASSUME NEW u \in User, NEW f \in files, Import(u, f) PROVE Inv'
  BY <1>4, ImportKeeps
<1>5. ASSUME NEW u \in User, NEW i \in DOMAIN db.decks, Export(u, i) PROVE Inv'
  <2>1. db' = db /\ files' = files /\ now' = now + 1 /\ now \in Nat
    BY <1>5 DEF Export, Inv
  <2>2. Scheduling(db, now + 1)
    BY SchedulingLasts DEF SameProgress, Inv
  <2>3. \A f \in files' : \A r \in f.revlog : r.id \in 0 .. now' - 1
    BY <2>1 DEF Inv
  <2> QED BY <2>1, <2>2, <2>3 DEF Inv
<1>6. ASSUME NEW u, NEW i, NEW name, RenameDeck(u, i, name) PROVE Inv'
  <2>1. PICK x : Edit([db EXCEPT !.decks = x])
    <3>1. [db EXCEPT !.decks[i].name = name]
          = [db EXCEPT !.decks = [db.decks EXCEPT ![i].name = name]]
      OBVIOUS
    <3> QED BY <1>6, <3>1 DEF RenameDeck
  <2> QED BY <1>1, <2>1, OtherEditsKeep
<1>7. ASSUME NEW u, NEW t, NEW name, RenameType(u, t, name) PROVE Inv'
  <2>1. PICK x : Edit([db EXCEPT !.types = x])
    <3>1. [db EXCEPT !.types[t].name = name]
          = [db EXCEPT !.types = [db.types EXCEPT ![t].name = name]]
      OBVIOUS
    <3> QED BY <1>7, <3>1 DEF RenameType
  <2> QED BY <1>1, <2>1, OtherEditsKeep
<1>8. ASSUME NEW u, NEW i, NEW r, SetRetention(u, i, r) PROVE Inv'
  <2>1. PICK x : Edit([db EXCEPT !.retention = x])
    BY <1>8 DEF SetRetention
  <2> QED BY <1>1, <2>1, OtherEditsKeep
<1>9. ASSUME NEW u, NEW i, NEW t, NEW G, CreateNotes(u, i, t, G) PROVE Inv'
  <2>1. PICK v \in Value : Edit(Created(u, i, t, G, v))
    BY <1>9 DEF CreateNotes
  <2>2. SameProgress(db, Created(u, i, t, G, v))
    BY DEF Created, SameProgress
  <2> QED BY <2>1, <2>2, OtherEditsKeep
<1>10. ASSUME NEW u, NEW n, NEW i, MoveNote(u, n, i) PROVE Inv'
  <2>1. PICK x, y : Edit([db EXCEPT !.notes = x, !.cards = y])
    BY <1>10 DEF MoveNote
  <2> QED BY <1>1, <2>1, OtherEditsKeep
<1>11. ASSUME NEW u, NEW k, NEW new \in Settings, ChangeSettings(u, k, new) PROVE Inv'
  BY <1>11, ChangeSettingsKeeps
<1>12. ASSUME NEW u, NEW K, GradeBatch(u, K) PROVE Inv'
  BY <1>12, GradeBatchKeeps
<1> QED BY <1>2, <1>3, <1>4, <1>5, <1>6, <1>7, <1>8, <1>9, <1>10, <1>11, <1>12 DEF Next

LEMMA InitHolds == Init => Inv
  BY PackageAssumption, HistoryAssumption DEF Init, Inv

(* However often a history goes out in a package and comes back, through     *)
(* whatever packages, accounts and edits, what a package brought is in the   *)
(* log once and under its own id, beside at most the same review as the app  *)
(* logged it, and every scheduling row stands for exactly the log's rows of  *)
(* its card (importReviews, ReplayCard, GradeBatch).                         *)
THEOREM HistoriesComeBack == Spec => []LogComesBackOnce
<1>1. Inv => LogComesBackOnce
  <2> SUFFICES ASSUME Inv PROVE LogComesBackOnce
    OBVIOUS
  <2>1. /\ Single(db.log) /\ \A r \in db.log : Made(r, now)
        /\ \A p \in DOMAIN db.states : db.states[p].mem.reviews = History(db, p[1], p[2])
    BY DEF Inv, Scheduling
  <2>2. ReviewsComeBackOnce
    <3> SUFFICES ASSUME NEW q \in db.log, NEW r \in db.log, q # r, r.anki # None,
                        q.user = r.user, q.card = r.card, q.at = r.at
                 PROVE  q.anki = None /\ r.anki = r.at
      BY DEF ReviewsComeBackOnce
    <3>1. q.anki = None
      BY <2>1 DEF Single
    <3>2. r.anki = r.at
      BY <2>1 DEF Made
    <3> QED BY <3>1, <3>2
  <2> QED BY <2>1, <2>2 DEF LogComesBackOnce, MemoryFollowsLog
<1>2. Inv /\ [Next]_vars => Inv'
  BY NextKeeps
<1> QED BY <1>1, <1>2, InitHolds, PTL DEF Spec

-----------------------------------------------------------------------------
(* What an import leaves alone, table by table.                             *)

Only(d, e, x) == DOMAIN e = DOMAIN d /\ \A y \in DOMAIN d \ {x} : e[y] = d[y]

LEMMA NumberedAre ==
    ASSUME NEW n, NEW rows
    PROVE  \A i \in DOMAIN Numbered(n, rows) :
              \E j \in DOMAIN rows : Numbered(n, rows)[i] = rows[j]
<1> SUFFICES ASSUME NEW i \in {n + j : j \in DOMAIN rows}
             PROVE  \E j \in DOMAIN rows : Numbered(n, rows)[i] = rows[j]
  BY DEF Numbered
<1> DEFINE j == CHOOSE j \in DOMAIN rows : n + j = i
<1>1. j \in DOMAIN rows
  OBVIOUS
<1>2. Numbered(n, rows)[i] = rows[j]
  BY DEF Numbered
<1> HIDE DEF j
<1> QED BY <1>1, <1>2

LEMMA DecksStay ==
    ASSUME NEW d, "decks" \in DOMAIN d, NEW u, NEW col
    PROVE  LET e == importDecks(d, u, col)
           IN /\ Only(d, e, "decks") /\ DOMAIN d.decks \subseteq DOMAIN e.decks
              /\ \A i \in DOMAIN d.decks :
                    /\ d.decks[i].owner # u => e.decks[i] = d.decks[i]
                    /\ \A s \in DOMAIN d.decks[i] \ {"anki"} : e.decks[i][s] = d.decks[i][s]
              /\ \A i \in DOMAIN e.decks \ DOMAIN d.decks :
                    e.decks[i].owner = u /\ e.decks[i].viewers = {u}
<1> DEFINE real == {k \in col.decks : ~k.filtered}
           new == InIdOrder({k \in real : DeckNamed(d, u, k.name) = {}})
           Reused(i) == {k \in real : i \in DeckNamed(d, u, k.name)}
           SetDeckAnkiID(i) ==
               IF d.decks[i].anki = None /\ Reused(i) # {}
               THEN [d.decks[i] EXCEPT !.anki = (CHOOSE k \in Reused(i) : TRUE).anki]
               ELSE d.decks[i]
           Row(k) == [owner |-> u, name |-> k.name, anki |-> k.anki, created |-> now, viewers |-> {u}]
           old == [i \in DOMAIN d.decks |-> SetDeckAnkiID(i)]
           rows == [i \in DOMAIN new |-> Row(new[i])]
           more == Numbered(Len(d.decks), rows)
           e == importDecks(d, u, col)
<1>1. e = [d EXCEPT !.decks = old ++ more]
  BY DEF importDecks
<1>2. \A i \in DOMAIN d.decks : d.decks[i].owner # u => old[i] = d.decks[i]
  BY DEF DeckNamed
<1>3. DOMAIN old = DOMAIN d.decks
  OBVIOUS
<1>4. \A i \in DOMAIN d.decks : \A s \in DOMAIN d.decks[i] \ {"anki"} : old[i][s] = d.decks[i][s]
  OBVIOUS
<1>5. \A i \in DOMAIN more : more[i].owner = u /\ more[i].viewers = {u}
  <2>1. \A j \in DOMAIN rows : rows[j].owner = u /\ rows[j].viewers = {u}
    OBVIOUS
  <2> HIDE DEF rows
  <2> QED BY <2>1, NumberedAre
<1> HIDE DEF old, more, e
<1>6. e.decks = old ++ more /\ Only(d, e, "decks")
  BY <1>1 DEF Only
<1>7. /\ DOMAIN d.decks \subseteq DOMAIN e.decks
      /\ \A i \in DOMAIN d.decks : e.decks[i] = old[i]
      /\ \A i \in DOMAIN e.decks \ DOMAIN d.decks : i \in DOMAIN more /\ e.decks[i] = more[i]
  BY <1>3, <1>6 DEF ++
<1> QED BY <1>2, <1>4, <1>5, <1>6, <1>7 DEF e

LEMMA TypesStay ==
    ASSUME NEW d, "types" \in DOMAIN d, NEW u, NEW col
    PROVE  LET e == importNoteTypes(d, u, col)
           IN /\ Only(d, e, "types") /\ DOMAIN d.types \subseteq DOMAIN e.types
              /\ \A t \in DOMAIN d.types : e.types[t] = d.types[t]
              /\ \A t \in DOMAIN e.types \ DOMAIN d.types : e.types[t].owner = u
<1> DEFINE new == InIdOrder({t \in col.types : TypeNamed(d, u, t.name) = {}})
           rows == [i \in DOMAIN new |-> [owner |-> u] ++ new[i]]
           more == Numbered(Len(d.types), rows)
           e == importNoteTypes(d, u, col)
<1>1. e = [d EXCEPT !.types = d.types ++ more]
  BY DEF importNoteTypes
<1>2. \A t \in DOMAIN more : more[t].owner = u
  <2>1. \A x : ([owner |-> u] ++ x).owner = u
    BY DEF ++
  <2>2. \A j \in DOMAIN rows : rows[j].owner = u
    <3> HIDE DEF new
    <3> QED BY <2>1
  <2> HIDE DEF rows
  <2> QED BY <2>2, NumberedAre
<1> HIDE DEF more, e
<1>3. e.types = d.types ++ more /\ Only(d, e, "types")
  BY <1>1 DEF Only
<1>4. /\ DOMAIN d.types \subseteq DOMAIN e.types
      /\ \A t \in DOMAIN d.types : e.types[t] = d.types[t]
      /\ \A t \in DOMAIN e.types \ DOMAIN d.types : t \in DOMAIN more /\ e.types[t] = more[t]
  BY <1>3 DEF ++
<1> QED BY <1>2, <1>3, <1>4 DEF e

LEMMA NotesStay ==
    ASSUME NEW d, "notes" \in DOMAIN d, NEW u, NEW col,
           \A n \in DOMAIN d.notes : {"deck", "created"} \subseteq DOMAIN d.notes[n]
    PROVE  LET e == importNotes(d, u, col)
           IN /\ Only(d, e, "notes") /\ DOMAIN d.notes \subseteq DOMAIN e.notes
              /\ \A n \in DOMAIN d.notes : /\ Owner(n) # u => e.notes[n] = d.notes[n]
                                           /\ e.notes[n].deck = d.notes[n].deck
                                           /\ e.notes[n].created = d.notes[n].created
              /\ \A n \in DOMAIN e.notes : {"deck", "created"} \subseteq DOMAIN e.notes[n]
              /\ \A n \in DOMAIN e.notes \ DOMAIN d.notes : Owner(n) = u
<1> DEFINE N == ResolvedNotes(d, u, col)
           Written(k, n) == [type |-> noteTypeByAnkiID(d, u, col)[n.type], vals |-> n.vals, anki |-> n.anki]
           Found(k, n) == IF k \in DOMAIN d.notes THEN d.notes[k]
                          ELSE [deck |-> deckByAnkiID(d, u, col)[n.home], created |-> n.anki]
           K == {<<u, n.guid>> : n \in N}
           Pick(k) == CHOOSE n \in N : n.guid = k[2]
           new == [k \in K |-> Written(k, Pick(k)) ++ Found(k, Pick(k))]
           e == importNotes(d, u, col)
<1>1. e = [d EXCEPT !.notes = new ++ @]
  BY DEF importNotes
<1>2. DOMAIN new = K /\ \A k \in K : new[k] = Written(k, Pick(k)) ++ Found(k, Pick(k))
  OBVIOUS
<1>3. \A k \in K : Owner(k) = u
  BY DEF Owner
<1>4. ASSUME NEW k \in K
      PROVE  /\ {"deck", "created"} \subseteq DOMAIN new[k]
             /\ k \in DOMAIN d.notes => /\ new[k].deck = d.notes[k].deck
                                        /\ new[k].created = d.notes[k].created
  <2> DEFINE w == Written(k, Pick(k))
             f == Found(k, Pick(k))
  <2>1. new[k] = w ++ f
    BY <1>2
  <2>2. DOMAIN w = {"type", "vals", "anki"}
    OBVIOUS
  <2>3. {"deck", "created"} \subseteq DOMAIN f /\ (k \in DOMAIN d.notes => f = d.notes[k])
    OBVIOUS
  <2> HIDE DEF w, f, new, K
  <2>4. {"deck", "created"} \subseteq DOMAIN (w ++ f)
        /\ (w ++ f).deck = f.deck /\ (w ++ f).created = f.created
    BY <2>2, <2>3 DEF ++
  <2> QED BY <2>1, <2>3, <2>4
<1> HIDE DEF new, K, e
<1>5. e.notes = new ++ d.notes /\ Only(d, e, "notes")
  BY <1>1 DEF Only
<1>6. /\ DOMAIN e.notes = K \cup DOMAIN d.notes
      /\ \A k \in K : e.notes[k] = new[k]
      /\ \A k \in DOMAIN d.notes : k \notin K => e.notes[k] = d.notes[k]
  BY <1>2, <1>5 DEF ++
<1>7. \A n \in DOMAIN d.notes : /\ Owner(n) # u => e.notes[n] = d.notes[n]
                                /\ e.notes[n].deck = d.notes[n].deck
                                /\ e.notes[n].created = d.notes[n].created
  BY <1>3, <1>4, <1>6
<1>8. \A n \in DOMAIN e.notes : {"deck", "created"} \subseteq DOMAIN e.notes[n]
  BY <1>4, <1>6
<1>9. DOMAIN d.notes \subseteq DOMAIN e.notes /\ \A n \in DOMAIN e.notes \ DOMAIN d.notes : Owner(n) = u
  BY <1>3, <1>6
<1> QED BY <1>5, <1>7, <1>8, <1>9 DEF e

LEMMA CardsStay ==
    ASSUME NEW d, "cards" \in DOMAIN d, NEW u, NEW col
    PROVE  LET e == importCards(d, u, col)
           IN /\ Only(d, e, "cards") /\ DOMAIN d.cards \subseteq DOMAIN e.cards
              /\ \A k \in DOMAIN d.cards :
                    \/ e.cards[k] = d.cards[k]
                    \/ \E c \in ResolvedCards(d, u, col) : k = KeyOf(u, col, c)
              /\ \A k \in DOMAIN e.cards \ DOMAIN d.cards :
                    \E c \in ResolvedCards(d, u, col) : k = KeyOf(u, col, c)
<1> DEFINE C == ResolvedCards(d, u, col)
           Row(c) == LET t == noteTypeByAnkiID(d, u, col)[NoteOf(col, c).type]
                     IN [template |-> <<t, TemplateOrd(d.types[t], c.ord)>>,
                         deck |-> CardDeck(d, u, col, c), anki |-> c.anki,
                         position |-> IF c.due.kind = "position" THEN c.due.at ELSE None]
           K == {KeyOf(u, col, c) : c \in C}
           new == [k \in K |-> Row(CHOOSE c \in C : KeyOf(u, col, c) = k)]
           e == importCards(d, u, col)
<1>1. e = [d EXCEPT !.cards = new ++ @]
  BY DEF importCards
<1>2. DOMAIN new = K
  OBVIOUS
<1> HIDE DEF new, e
<1>3. e.cards = new ++ d.cards /\ Only(d, e, "cards")
  BY <1>1 DEF Only
<1>4. /\ DOMAIN d.cards \subseteq DOMAIN e.cards
      /\ \A k \in DOMAIN d.cards : k \notin K => e.cards[k] = d.cards[k]
      /\ \A k \in DOMAIN e.cards \ DOMAIN d.cards : k \in K
  <2> HIDE DEF K
  <2> QED BY <1>2, <1>3 DEF ++
<1> QED BY <1>3, <1>4 DEF e

LEMMA RetentionStays ==
    ASSUME NEW d, "retention" \in DOMAIN d, NEW u, NEW col
    PROVE  LET e == seedDeckRetention(d, u, col)
           IN /\ Only(d, e, "retention") /\ DOMAIN d.retention \subseteq DOMAIN e.retention
              /\ \A p \in DOMAIN d.retention : e.retention[p] = d.retention[p]
              /\ \A p \in DOMAIN e.retention \ DOMAIN d.retention : p[1] = u
<1> DEFINE voters == {c \in ResolvedCards(d, u, col) : c.fsrs # None /\ c.dr # 0}
           For(i, v) == {c \in voters : CardDeck(d, u, col, c) = i /\ c.dr = v}
           First(i, v) == Min({c.anki : c \in For(i, v)})
           Best(i) == CHOOSE v \in {c.dr : c \in voters} :
               /\ For(i, v) # {}
               /\ \A w \in {c.dr : c \in voters} :
                     \/ Cardinality(For(i, w)) < Cardinality(For(i, v))
                     \/ Cardinality(For(i, w)) = Cardinality(For(i, v)) /\ First(i, v) <= First(i, w)
           seeded == {i \in {CardDeck(d, u, col, c) : c \in voters} : Best(i) \in Retentions}
           more == [k \in {u} \X seeded |-> Best(k[2])]
           e == seedDeckRetention(d, u, col)
<1>1. e = [d EXCEPT !.retention = @ ++ more]
  BY DEF seedDeckRetention
<1> HIDE DEF Best, seeded, e
<1>2. \A p \in DOMAIN more : p[1] = u
  OBVIOUS
<1> HIDE DEF more
<1>3. e.retention = d.retention ++ more /\ Only(d, e, "retention")
  BY <1>1 DEF Only
<1> QED BY <1>2, <1>3 DEF e, ++

LEMMA ReviewsAreAdded ==
    ASSUME NEW d, {"log", "states"} \subseteq DOMAIN d, NEW u, NEW col,
           \A r \in col.reviews : r.anki \in 0 .. now - 1,
           \A p \in DOMAIN d.states :
              {"mem", "suspended", "buried", "flag"} \subseteq DOMAIN d.states[p]
    PROVE  LET e == importReviews(d, u, col)
           IN /\ DOMAIN e = DOMAIN d /\ \A y \in DOMAIN d \ {"log", "states"} : e[y] = d[y]
              /\ d.log \subseteq e.log
              /\ \A r \in e.log \ d.log :
                    r.user = u /\ \E c \in Reviewed(d, u, col) : r.card = KeyOf(u, col, c)
              /\ DOMAIN d.states \subseteq DOMAIN e.states
              /\ \A p \in DOMAIN d.states :
                    \/ e.states[p] = d.states[p]
                    \/ /\ \E c \in Reviewed(d, u, col) : p = <<u, KeyOf(u, col, c)>>
                       /\ \A s \in {"suspended", "buried", "flag"} : e.states[p][s] = d.states[p][s]
              /\ \A p \in DOMAIN e.states \ DOMAIN d.states :
                    \E c \in Reviewed(d, u, col) : p = <<u, KeyOf(u, col, c)>>
              /\ \A p \in DOMAIN e.states :
                    {"suspended", "buried", "flag"} \subseteq DOMAIN e.states[p]
<1> DEFINE X == Inserted(d, u, col)
           logged == [d EXCEPT !.log = @ \cup X]
           P == {<<u, KeyOf(u, col, c)>> : c \in Reviewed(d, u, col)}
           new == [p \in P |-> ReplayCard(logged, u, p[2])]
           e == importReviews(d, u, col)
           S == {"suspended", "buried", "flag"}
<1>1. e = [logged EXCEPT !.states = new ++ @]
  BY DEF importReviews
<1>2. \A r \in X : r.user = u /\ \E c \in Reviewed(d, u, col) : r.card = KeyOf(u, col, c)
  BY InsertedIs
<1> HIDE DEF X, e
<1>3. logged.log = d.log \cup X /\ logged.states = d.states /\ DOMAIN logged = DOMAIN d
      /\ \A y \in DOMAIN d \ {"log", "states"} : logged[y] = d[y]
  OBVIOUS
<1> HIDE DEF logged
<1>4. DOMAIN new = P /\ \A p \in P : new[p] = ReplayCard(logged, u, p[2])
  OBVIOUS
<1>5. ASSUME NEW p \in P
      PROVE  S \subseteq DOMAIN new[p]
             /\ (p \in DOMAIN d.states => \A s \in S : new[p][s] = d.states[p][s])
  <2> DEFINE row == RowOf(logged, u, p[2])
  <2>1. p = <<u, p[2]>>
    OBVIOUS
  <2> HIDE DEF P
  <2>2. S \cup {"mem"} \subseteq DOMAIN row /\ (p \in DOMAIN d.states => row = d.states[p])
    BY <1>3, <2>1 DEF RowOf, Unseen
  <2>3. \A mem, at, retention :
           /\ S \subseteq DOMAIN Scheduled(row, mem, at, retention)
           /\ \A s \in S : Scheduled(row, mem, at, retention)[s] = row[s]
    <3> HIDE DEF row
    <3> QED BY <2>2 DEF Scheduled
  <2>4. S \subseteq DOMAIN new[p] /\ \A s \in S : new[p][s] = row[s]
    <3>1. new[p] = ReplayCard(logged, u, p[2])
      BY <1>4
    <3> HIDE DEF new, S
    <3> QED BY <2>3, <3>1 DEF ReplayCard
  <2> HIDE DEF row, new, S
  <2> QED BY <2>2, <2>4
<1> HIDE DEF new
<1>6. e.log = d.log \cup X /\ e.states = new ++ d.states /\ DOMAIN e = DOMAIN d
      /\ \A y \in DOMAIN d \ {"log", "states"} : e[y] = d[y]
  BY <1>1, <1>3
<1>7. /\ DOMAIN e.states = P \cup DOMAIN d.states
      /\ \A p \in P : e.states[p] = new[p]
      /\ \A p \in DOMAIN d.states : p \notin P => e.states[p] = d.states[p]
  <2> HIDE DEF P
  <2> QED BY <1>4, <1>6 DEF ++
<1>8. \A p \in P : \E c \in Reviewed(d, u, col) : p = <<u, KeyOf(u, col, c)>>
  OBVIOUS
<1> HIDE DEF P
<1>9. \A p \in DOMAIN d.states :
         \/ e.states[p] = d.states[p]
         \/ /\ \E c \in Reviewed(d, u, col) : p = <<u, KeyOf(u, col, c)>>
            /\ \A s \in S : e.states[p][s] = d.states[p][s]
  BY <1>5, <1>7, <1>8
<1>10. \A p \in DOMAIN e.states : S \subseteq DOMAIN e.states[p]
  BY <1>5, <1>7
<1>11. /\ DOMAIN d.states \subseteq DOMAIN e.states
       /\ \A p \in DOMAIN e.states \ DOMAIN d.states :
             \E c \in Reviewed(d, u, col) : p = <<u, KeyOf(u, col, c)>>
  BY <1>7, <1>8
<1>12. d.log \subseteq e.log /\ \A r \in e.log \ d.log :
          r.user = u /\ \E c \in Reviewed(d, u, col) : r.card = KeyOf(u, col, c)
  BY <1>2, <1>6
<1> QED BY <1>6, <1>9, <1>10, <1>11, <1>12 DEF e

LEMMA SeedsAreAdded ==
    ASSUME NEW d, "states" \in DOMAIN d, NEW u, NEW col,
           \A p \in DOMAIN d.states : {"suspended", "buried", "flag"} \subseteq DOMAIN d.states[p]
    PROVE  LET e == seedCardStates(d, u, col)
           IN /\ Only(d, e, "states") /\ DOMAIN d.states \subseteq DOMAIN e.states
              /\ \A p \in DOMAIN d.states : e.states[p] = d.states[p]
              /\ \A p \in DOMAIN e.states \ DOMAIN d.states :
                    p[1] = u /\ Owner(p[2]) = u
              /\ \A p \in DOMAIN e.states :
                    {"suspended", "buried", "flag"} \subseteq DOMAIN e.states[p]
<1> DEFINE C == {c \in ResolvedCards(d, u, col) :
                    /\ \A r \in col.reviews : r.card # c.anki
                    /\ c.fsrs # None \/ c.type # New \/ c.suspended \/ c.flag # 0
                    /\ c.type \in New .. Relearning}
           SeedOf(c) == [mem |-> IF c.fsrs = None THEN NoMemory ELSE AsSeed(c.fsrs),
                         state |-> c.type,
                         due |-> IF c.due.kind = "at" THEN c.due.at ELSE now,
                         ivl |-> c.ivl \div DayTicks, suspended |-> c.suspended,
                         buried |-> 0, flag |-> c.flag]
           P == {<<u, KeyOf(u, col, c)>> : c \in C}
           new == [p \in P |-> SeedOf(CHOOSE c \in C : KeyOf(u, col, c) = p[2])]
           e == seedCardStates(d, u, col)
<1>1. e = [d EXCEPT !.states = @ ++ new]
  BY DEF seedCardStates
<1> HIDE DEF e, C
<1>2. /\ \A p \in DOMAIN new : {"suspended", "buried", "flag"} \subseteq DOMAIN new[p]
      /\ \A p \in DOMAIN new : p[1] = u /\ Owner(p[2]) = u
  BY DEF KeyOf, Owner
<1> HIDE DEF new
<1>3. e.states = d.states ++ new /\ Only(d, e, "states")
  BY <1>1 DEF Only
<1>4. /\ DOMAIN e.states = DOMAIN d.states \cup DOMAIN new
      /\ \A p \in DOMAIN d.states : e.states[p] = d.states[p]
      /\ \A p \in DOMAIN new : p \notin DOMAIN d.states => e.states[p] = new[p]
  BY <1>3 DEF ++
<1>5. /\ \A p \in DOMAIN e.states : {"suspended", "buried", "flag"} \subseteq DOMAIN e.states[p]
      /\ \A p \in DOMAIN e.states \ DOMAIN d.states : p[1] = u /\ Owner(p[2]) = u
  BY <1>2, <1>4
<1> QED BY <1>3, <1>4, <1>5 DEF e

(* What an import writes of a card, a note or a review is in its package.   *)
LEMMA KeysAreInPackage ==
    ASSUME NEW f, NEW d, NEW u, NEW c \in ResolvedCards(d, u, Read(f))
    PROVE  LET k == KeyOf(u, Read(f), c)
           IN /\ k[1] = u
              /\ \E a \in f.cards, n \in f.notes :
                    a.id = c.anki /\ a.nid = n.id /\ n.guid = k[2] /\ a.ord = k[3]
<1> DEFINE col == Read(f)
           m == NoteOf(col, c)
<1>1. c \in readCards(f) /\ \E n \in col.notes : n.anki = c.note
  <2>1. col.cards = readCards(f)
    BY DEF Read
  <2> HIDE DEF col
  <2> QED BY <2>1 DEF ResolvedCards, ResolvedNotes, col
<1>2. m \in col.notes /\ m.anki = c.note
  <2> HIDE DEF col
  <2> QED BY <1>1 DEF NoteOf
<1>3. col.notes = resolveHomeDecks(f.notes, readCards(f))
  BY DEF Read
<1> HIDE DEF col, m
<1>4. PICK a \in f.cards : a.id = c.anki /\ a.nid = c.note /\ a.ord = c.ord
  BY <1>1 DEF readCards
<1>5. PICK n \in f.notes : n.id = m.anki /\ n.guid = m.guid
  BY <1>2, <1>3 DEF resolveHomeDecks
<1>6. KeyOf(u, col, c) = <<u, m.guid, c.ord>>
  BY DEF KeyOf, m
<1> QED BY <1>2, <1>4, <1>5, <1>6 DEF col

Counted(l) == "imports" \in DOMAIN l /\ l.imports \in Int

ShapeInv == Shaped(db) /\ Counted(left)

LeavesAlone == OthersUntouched /\ ProgressKept /\ FilingKept

LEMMA ImportLeaves ==
    ASSUME Inv, ShapeInv, NEW u, NEW f \in files, Import(u, f)
    PROVE  ShapeInv' /\ LeavesAlone
<1> DEFINE col == Read(f)
           a1 == importDecks(db, u, col)
           a2 == importNoteTypes(a1, u, col)
           a3 == importNotes(a2, u, col)
           a4 == importCards(a3, u, col)
           a5 == seedDeckRetention(a4, u, col)
           a6 == importReviews(a5, u, col)
           a7 == seedCardStates(a6, u, col)
           S == {"suspended", "buried", "flag"}
           C == ResolvedCards(a3, u, col)
           R == Reviewed(a5, u, col)
<1>1. Counted(left)'
  <2>1. Counted(left)
        /\ left' = [left EXCEPT !.imports = left.imports - 1, !.changes = left.changes - 1]
    BY DEF Import, ShapeInv
  <2> QED BY <2>1 DEF Counted
<1>2. Importer = u /\ Content = f
  BY DEF Import, Importer, Content
<1>3. CASE db' = db
  BY <1>1, <1>3 DEF ShapeInv, LeavesAlone, OthersUntouched, ProgressKept, FilingKept
<1>4. CASE db' # db
  <2>1. db' = a7
    BY <1>4 DEF Import, Imported
  <2>2. \A r \in col.reviews : r.anki \in 0 .. now - 1
    <3>1. col.reviews = readRevlog(f) /\ \A r \in f.revlog : r.id \in 0 .. now - 1
      BY DEF Read, Inv
    <3> QED BY <3>1 DEF readRevlog
  <2> HIDE DEF col
  <2>3. Shaped(db) /\ Scheduling(db, now)
    BY DEF ShapeInv, Inv
  <2>4. /\ Only(db, a1, "decks") /\ DOMAIN db.decks \subseteq DOMAIN a1.decks
        /\ \A i \in DOMAIN db.decks :
              /\ db.decks[i].owner # u => a1.decks[i] = db.decks[i]
              /\ \A s \in DOMAIN db.decks[i] \ {"anki"} : a1.decks[i][s] = db.decks[i][s]
        /\ \A i \in DOMAIN a1.decks \ DOMAIN db.decks :
              a1.decks[i].owner = u /\ a1.decks[i].viewers = {u}
    BY <2>3, DecksStay DEF Shaped
  <2> HIDE DEF a1
  <2>5. DOMAIN a1 = DOMAIN db /\ {"decks", "types", "notes", "cards", "log", "states", "retention"} \subseteq DOMAIN db
    BY <2>3, <2>4 DEF Shaped, Only
  <2>6. /\ Only(a1, a2, "types") /\ DOMAIN a1.types \subseteq DOMAIN a2.types
        /\ \A t \in DOMAIN a1.types : a2.types[t] = a1.types[t]
        /\ \A t \in DOMAIN a2.types \ DOMAIN a1.types : a2.types[t].owner = u
    BY <2>5, TypesStay
  <2> HIDE DEF a2
  <2>7. /\ DOMAIN a2 = DOMAIN db /\ a2.decks = a1.decks /\ a2.notes = db.notes /\ a2.cards = db.cards
        /\ a2.log = db.log /\ a2.states = db.states /\ a2.retention = db.retention
        /\ a1.types = db.types
    BY <2>4, <2>5, <2>6 DEF Only
  <2>8. /\ Only(a2, a3, "notes") /\ DOMAIN db.notes \subseteq DOMAIN a3.notes
        /\ \A n \in DOMAIN db.notes : /\ Owner(n) # u => a3.notes[n] = db.notes[n]
                                      /\ a3.notes[n].deck = db.notes[n].deck
                                      /\ a3.notes[n].created = db.notes[n].created
        /\ \A n \in DOMAIN a3.notes : {"deck", "created"} \subseteq DOMAIN a3.notes[n]
        /\ \A n \in DOMAIN a3.notes \ DOMAIN db.notes : Owner(n) = u
    <3>1. "notes" \in DOMAIN a2 /\ \A n \in DOMAIN a2.notes : {"deck", "created"} \subseteq DOMAIN a2.notes[n]
      BY <2>3, <2>5, <2>7 DEF Shaped
    <3> QED BY <2>7, <3>1, NotesStay
  <2> HIDE DEF a3
  <2>9. DOMAIN a3 = DOMAIN db /\ a3.cards = db.cards
    BY <2>5, <2>7, <2>8 DEF Only
  <2>10. /\ Only(a3, a4, "cards") /\ DOMAIN db.cards \subseteq DOMAIN a4.cards
         /\ \A k \in DOMAIN db.cards : \/ a4.cards[k] = db.cards[k]
                                       \/ \E c \in C : k = KeyOf(u, col, c)
         /\ \A k \in DOMAIN a4.cards \ DOMAIN db.cards : \E c \in C : k = KeyOf(u, col, c)
    BY <2>5, <2>9, CardsStay
  <2> HIDE DEF a4
  <2>11. DOMAIN a4 = DOMAIN db /\ a4.retention = db.retention /\ a4.log = db.log /\ a4.states = db.states
         /\ a4.notes = a3.notes /\ a4.decks = a1.decks /\ a4.types = a2.types
    BY <2>5, <2>7, <2>8, <2>9, <2>10 DEF Only
  <2>12. /\ Only(a4, a5, "retention") /\ DOMAIN db.retention \subseteq DOMAIN a5.retention
         /\ \A p \in DOMAIN db.retention : a5.retention[p] = db.retention[p]
         /\ \A p \in DOMAIN a5.retention \ DOMAIN db.retention : p[1] = u
    BY <2>5, <2>11, RetentionStays
  <2> HIDE DEF a5
  <2>13. DOMAIN a5 = DOMAIN db /\ a5.log = db.log /\ a5.states = db.states
         /\ a5.notes = a3.notes /\ a5.decks = a1.decks /\ a5.types = a2.types /\ a5.cards = a4.cards
    BY <2>5, <2>11, <2>12 DEF Only
  <2>14. /\ DOMAIN a6 = DOMAIN a5 /\ \A y \in DOMAIN a5 \ {"log", "states"} : a6[y] = a5[y]
         /\ db.log \subseteq a6.log
         /\ \A r \in a6.log \ db.log : r.user = u /\ \E c \in R : r.card = KeyOf(u, col, c)
         /\ DOMAIN db.states \subseteq DOMAIN a6.states
         /\ \A p \in DOMAIN db.states :
               \/ a6.states[p] = db.states[p]
               \/ /\ \E c \in R : p = <<u, KeyOf(u, col, c)>>
                  /\ \A s \in S : a6.states[p][s] = db.states[p][s]
         /\ \A p \in DOMAIN a6.states \ DOMAIN db.states :
               \E c \in R : p = <<u, KeyOf(u, col, c)>>
         /\ \A p \in DOMAIN a6.states : S \subseteq DOMAIN a6.states[p]
    <3>1. {"log", "states"} \subseteq DOMAIN a5
      BY <2>5, <2>13
    <3>2. \A p \in DOMAIN a5.states : {"mem", "suspended", "buried", "flag"} \subseteq DOMAIN a5.states[p]
      BY <2>3, <2>13 DEF Shaped, Scheduling
    <3> QED BY <2>2, <2>13, <3>1, <3>2, ReviewsAreAdded
  <2> HIDE DEF a6
  <2>15. DOMAIN a6 = DOMAIN db /\ a6.notes = a3.notes /\ a6.decks = a1.decks /\ a6.types = a2.types
         /\ a6.cards = a4.cards /\ a6.retention = a5.retention
    BY <2>5, <2>13, <2>14
  <2>16. /\ Only(a6, a7, "states") /\ DOMAIN a6.states \subseteq DOMAIN a7.states
         /\ \A p \in DOMAIN a6.states : a7.states[p] = a6.states[p]
         /\ \A p \in DOMAIN a7.states \ DOMAIN a6.states : p[1] = u /\ Owner(p[2]) = u
         /\ \A p \in DOMAIN a7.states : S \subseteq DOMAIN a7.states[p]
    BY <2>5, <2>14, <2>15, SeedsAreAdded
  <2> HIDE DEF a7
  <2>17. DOMAIN a7 = DOMAIN db /\ a7.notes = a3.notes /\ a7.decks = a1.decks /\ a7.types = a2.types
         /\ a7.cards = a4.cards /\ a7.retention = a5.retention /\ a7.log = a6.log
    BY <2>5, <2>15, <2>16 DEF Only
  <2>18. ASSUME NEW k, NEW c \in C, k = KeyOf(u, col, c) PROVE Owner(k) = u /\ InPackage(k)
    <3>1. /\ KeyOf(u, col, c)[1] = u
          /\ \E a \in f.cards, n \in f.notes :
                a.id = c.anki /\ a.nid = n.id /\ n.guid = KeyOf(u, col, c)[2] /\ a.ord = KeyOf(u, col, c)[3]
      BY KeysAreInPackage DEF col
    <3> QED BY <1>2, <2>18, <3>1 DEF Owner, InPackage
  <2>19. ASSUME NEW k, NEW c \in R, k = KeyOf(u, col, c) PROVE Owner(k) = u /\ ReviewsIt(k)
    <3>1. c \in ResolvedCards(a5, u, col) /\ \E r \in col.reviews : r.card = c.anki
      BY DEF Reviewed
    <3>2. /\ KeyOf(u, col, c)[1] = u
          /\ \E a \in f.cards, n \in f.notes :
                a.id = c.anki /\ a.nid = n.id /\ n.guid = KeyOf(u, col, c)[2] /\ a.ord = KeyOf(u, col, c)[3]
      BY <3>1, KeysAreInPackage DEF col
    <3>3. \E r \in f.revlog : r.cid = c.anki
      BY <3>1 DEF col, Read, readRevlog
    <3> QED BY <1>2, <2>19, <3>2, <3>3 DEF Owner, ReviewsIt
  <2> HIDE DEF C, R, S
  <2>20. /\ \A k \in DOMAIN db.cards : a4.cards[k] = db.cards[k] \/ (Owner(k) = u /\ InPackage(k))
         /\ \A k \in DOMAIN a4.cards \ DOMAIN db.cards : Owner(k) = u
         /\ \A r \in a6.log \ db.log : r.user = u /\ Owner(r.card) = u
    BY <2>10, <2>14, <2>18, <2>19
  <2>21. \A p \in DOMAIN db.states :
            \/ a7.states[p] = db.states[p]
            \/ /\ p[1] = u /\ Owner(p[2]) = u /\ ReviewsIt(p[2])
               /\ \A s \in S : a7.states[p][s] = db.states[p][s]
    <3> SUFFICES ASSUME NEW p \in DOMAIN db.states, a7.states[p] # db.states[p]
                 PROVE  /\ p[1] = u /\ Owner(p[2]) = u /\ ReviewsIt(p[2])
                        /\ \A s \in S : a7.states[p][s] = db.states[p][s]
      OBVIOUS
    <3>1. a7.states[p] = a6.states[p]
      BY <2>14, <2>16
    <3>2. PICK c \in R : p = <<u, KeyOf(u, col, c)>>
      BY <2>14, <3>1
    <3>3. p[1] = u /\ p[2] = KeyOf(u, col, c)
      BY <3>2
    <3> QED BY <2>14, <2>19, <3>1, <3>3
  <2>22. \A p \in DOMAIN a7.states \ DOMAIN db.states : p[1] = u /\ Owner(p[2]) = u
    <3> SUFFICES ASSUME NEW p \in DOMAIN a7.states \ DOMAIN db.states
                 PROVE  p[1] = u /\ Owner(p[2]) = u
      OBVIOUS
    <3>1. CASE p \in DOMAIN a6.states
      <4>1. PICK c \in R : p = <<u, KeyOf(u, col, c)>>
        BY <2>14, <3>1
      <4>2. p[1] = u /\ p[2] = KeyOf(u, col, c)
        BY <4>1
      <4> QED BY <2>19, <4>2
    <3>2. CASE p \notin DOMAIN a6.states
      BY <2>16, <3>2
    <3> QED BY <3>1, <3>2
  <2>23. OthersUntouched
    <3>1. /\ \A i \in DOMAIN db.decks : db.decks[i].owner # u => db'.decks[i] = db.decks[i]
          /\ \A i \in DOMAIN db'.decks \ DOMAIN db.decks :
                db'.decks[i].owner = u /\ db'.decks[i].viewers = {u}
      BY <2>1, <2>4, <2>17
    <3>2. /\ \A t \in DOMAIN db.types : db'.types[t] = db.types[t]
          /\ \A t \in DOMAIN db'.types \ DOMAIN db.types : db'.types[t].owner = u
      BY <2>1, <2>6, <2>7, <2>17
    <3>3. /\ \A n \in DOMAIN db.notes : Owner(n) # u => db'.notes[n] = db.notes[n]
          /\ \A n \in DOMAIN db'.notes \ DOMAIN db.notes : Owner(n) = u
      BY <2>1, <2>8, <2>17
    <3>4. /\ \A k \in DOMAIN db.cards : Owner(k) # u => db'.cards[k] = db.cards[k]
          /\ \A k \in DOMAIN db'.cards \ DOMAIN db.cards : Owner(k) = u
          /\ \A r \in db'.log \ db.log : r.user = u /\ Owner(r.card) = u
      BY <2>1, <2>17, <2>20
    <3>5. /\ \A p \in DOMAIN db.states : p[1] # u \/ Owner(p[2]) # u => db'.states[p] = db.states[p]
          /\ \A p \in DOMAIN db'.states \ DOMAIN db.states : p[1] = u /\ Owner(p[2]) = u
      BY <2>1, <2>21, <2>22
    <3>6. \A p \in DOMAIN db'.retention \ DOMAIN db.retention : p[1] = u
      BY <2>1, <2>12, <2>17
    <3> QED BY <1>2, <3>1, <3>2, <3>3, <3>4, <3>5, <3>6 DEF OthersUntouched
  <2>24. ProgressKept
    <3>1. /\ DOMAIN db.decks \subseteq DOMAIN db'.decks /\ DOMAIN db.types \subseteq DOMAIN db'.types
          /\ DOMAIN db.notes \subseteq DOMAIN db'.notes /\ DOMAIN db.cards \subseteq DOMAIN db'.cards
          /\ DOMAIN db.states \subseteq DOMAIN db'.states
          /\ DOMAIN db.retention \subseteq DOMAIN db'.retention
      BY <2>1, <2>4, <2>6, <2>7, <2>8, <2>10, <2>12, <2>14, <2>16, <2>17
    <3>2. \A s \in {"decks", "types", "notes", "cards", "states", "retention"} :
             DOMAIN db[s] \subseteq DOMAIN db'[s]
      BY <3>1
    <3>3. db.log \subseteq db'.log /\ \A p \in DOMAIN db.retention : db'.retention[p] = db.retention[p]
      BY <2>1, <2>12, <2>14, <2>17
    <3> QED BY <2>1, <2>21, <3>2, <3>3 DEF ProgressKept, S
  <2>25. FilingKept
    BY <2>1, <2>4, <2>8, <2>17, <2>20 DEF FilingKept
  <2>26. Shaped(a7)
    BY <2>5, <2>8, <2>16, <2>17 DEF Shaped, S
  <2> QED BY <1>1, <2>1, <2>23, <2>24, <2>25, <2>26 DEF ShapeInv, LeavesAlone
<1> QED BY <1>3, <1>4

(* No other step is taken for an import, and none takes a column away.      *)
LEMMA EditShapes ==
    ASSUME ShapeInv, NEW d, Shaped(d), Edit(d)
    PROVE  ShapeInv' /\ ~Importing
<1>1. Counted(left) /\ db' = d
      /\ left' = [left EXCEPT !.edits = left.edits - 1, !.changes = left.changes - 1]
  BY DEF Edit, ShapeInv
<1>2. Counted(left)' /\ left'.imports = left.imports /\ left.imports \in Int
  BY <1>1 DEF Counted
<1> QED BY <1>1, <1>2 DEF ShapeInv, Importing

LEMMA GradeBatchShapes ==
    ASSUME Inv, ShapeInv, NEW u, NEW K, GradeBatch(u, K)
    PROVE  ShapeInv' /\ ~Importing
<1> DEFINE P == {u} \X K
           Row(k) == Scheduled(RowOf(db, u, k), [RowOf(db, u, k).mem EXCEPT !.reviews = Append(@, now)],
                               now, Retention(db, u, db.cards[k].deck))
           new == [p \in P |-> Row(p[2])]
           S == {"suspended", "buried", "flag"}
<1>1. Counted(left) /\ Shaped(db)
      /\ left' = [left EXCEPT !.grades = left.grades - 1, !.changes = left.changes - 1]
  BY DEF GradeBatch, ShapeInv
<1>2. Counted(left)' /\ left'.imports = left.imports /\ left.imports \in Int
  BY <1>1 DEF Counted
<1>3. PICK log : db' = [db EXCEPT !.log = log, !.states = new ++ @]
  BY DEF GradeBatch
<1>4. ASSUME NEW p \in P PROVE S \subseteq DOMAIN new[p]
  <2> DEFINE row == RowOf(db, u, p[2])
  <2>1. S \subseteq DOMAIN row
    BY <1>1 DEF RowOf, Unseen, Shaped
  <2>2. new[p] = Row(p[2])
    OBVIOUS
  <2> HIDE DEF row, new, P, S
  <2> QED BY <2>1, <2>2 DEF Scheduled, row
<1>5. DOMAIN new = P
  OBVIOUS
<1> HIDE DEF new, P
<1>6. DOMAIN db' = DOMAIN db /\ db'.notes = db.notes /\ db'.states = new ++ db.states
  BY <1>1, <1>3 DEF Shaped
<1>7. \A p \in DOMAIN db'.states : S \subseteq DOMAIN db'.states[p]
  <2>1. \A p \in DOMAIN db.states : S \subseteq DOMAIN db.states[p]
    BY <1>1 DEF Shaped
  <2> HIDE DEF S
  <2> QED BY <1>4, <1>5, <1>6, <2>1 DEF ++
<1>8. Shaped(db')
  BY <1>1, <1>6, <1>7 DEF Shaped
<1> QED BY <1>2, <1>8 DEF ShapeInv, Importing

LEMMA NextShapes ==
    ASSUME Inv, ShapeInv, [Next]_vars
    PROVE  ShapeInv' /\ (Importing => LeavesAlone)
<1> USE DEF ShapeInv
<1>1. CASE UNCHANGED vars
  <2>1. left' = left /\ db' = db /\ left.imports \in Int
    BY <1>1 DEF vars, Counted
  <2> QED BY <2>1 DEF Importing
<1>2. CASE ReadRows
  <2>1. left' = left /\ db' = db /\ left.imports \in Int
    BY <1>2 DEF ReadRows, Counted
  <2> QED BY <2>1 DEF Importing
<1>3. ASSUME NEW u \in User, NEW f \in files, Import(u, f) PROVE ShapeInv' /\ LeavesAlone
  BY <1>3, ImportLeaves
<1>4. ASSUME NEW u, NEW i, Export(u, i) PROVE ShapeInv' /\ ~Importing
  <2>1. db' = db /\ Counted(left) /\ left' = [left EXCEPT !.exports = left.exports - 1]
    BY <1>4 DEF Export
  <2>2. Counted(left)' /\ left'.imports = left.imports /\ left.imports \in Int
    BY <2>1 DEF Counted
  <2> QED BY <2>1, <2>2 DEF Importing
<1>5. ASSUME NEW x PROVE /\ Shaped([db EXCEPT !.decks = x])
                         /\ Shaped([db EXCEPT !.types = x])
                         /\ Shaped([db EXCEPT !.retention = x])
  BY DEF Shaped
<1>6. ASSUME NEW u, NEW i, NEW name, RenameDeck(u, i, name) PROVE ShapeInv' /\ ~Importing
  <2>1. PICK x : Edit([db EXCEPT !.decks = x])
    <3>1. [db EXCEPT !.decks[i].name = name]
          = [db EXCEPT !.decks = [db.decks EXCEPT ![i].name = name]]
      OBVIOUS
    <3> QED BY <1>6, <3>1 DEF RenameDeck
  <2> QED BY <1>5, <2>1, EditShapes
<1>7. ASSUME NEW u, NEW t, NEW name, RenameType(u, t, name) PROVE ShapeInv' /\ ~Importing
  <2>1. PICK x : Edit([db EXCEPT !.types = x])
    <3>1. [db EXCEPT !.types[t].name = name]
          = [db EXCEPT !.types = [db.types EXCEPT ![t].name = name]]
      OBVIOUS
    <3> QED BY <1>7, <3>1 DEF RenameType
  <2> QED BY <1>5, <2>1, EditShapes
<1>8. ASSUME NEW u, NEW i, NEW r, SetRetention(u, i, r) PROVE ShapeInv' /\ ~Importing
  <2>1. PICK x : Edit([db EXCEPT !.retention = x])
    BY <1>8 DEF SetRetention
  <2> QED BY <1>5, <2>1, EditShapes
<1>9. ASSUME NEW u, NEW i, NEW t, NEW G, CreateNotes(u, i, t, G) PROVE ShapeInv' /\ ~Importing
  <2>1. PICK v \in Value : Edit(Created(u, i, t, G, v))
    BY <1>9 DEF CreateNotes
  <2> DEFINE new == [n \in {u} \X G |-> [type |-> t, deck |-> i, vals |-> v,
                                         anki |-> None, created |-> now]]
             d == Created(u, i, t, G, v)
  <2>2. DOMAIN d = DOMAIN db /\ d.notes = new ++ db.notes /\ d.states = db.states
    BY DEF Created, Shaped
  <2>3. \A n \in DOMAIN new : {"deck", "created"} \subseteq DOMAIN new[n]
    OBVIOUS
  <2> HIDE DEF new, d
  <2>4. \A n \in DOMAIN d.notes : {"deck", "created"} \subseteq DOMAIN d.notes[n]
    BY <2>2, <2>3 DEF ++, Shaped
  <2>5. Shaped(d)
    BY <2>2, <2>4 DEF Shaped
  <2> QED BY <2>1, <2>5, EditShapes DEF d
<1>10. ASSUME NEW u, NEW n, NEW i, MoveNote(u, n, i) PROVE ShapeInv' /\ ~Importing
  <2>1. PICK y : Edit([db EXCEPT !.notes[n].deck = i, !.cards = y])
    BY <1>10 DEF MoveNote
  <2> DEFINE d == [db EXCEPT !.notes[n].deck = i, !.cards = y]
  <2>2. DOMAIN d = DOMAIN db /\ d.notes = [db.notes EXCEPT ![n].deck = i] /\ d.states = db.states
    BY DEF Shaped
  <2> HIDE DEF d
  <2>3. \A m \in DOMAIN d.notes : {"deck", "created"} \subseteq DOMAIN d.notes[m]
    BY <2>2 DEF Shaped
  <2>4. Shaped(d)
    BY <2>2, <2>3 DEF Shaped
  <2> QED BY <2>1, <2>4, EditShapes DEF d
<1>11. ASSUME NEW u, NEW k, NEW new \in Settings, ChangeSettings(u, k, new)
       PROVE  ShapeInv' /\ ~Importing
  <2> DEFINE row == new ++ RowOf(db, u, k)
             d == [db EXCEPT !.states = [p \in {<<u, k>>} |-> row] ++ @]
             S == {"suspended", "buried", "flag"}
  <2>1. S \subseteq DOMAIN RowOf(db, u, k)
    BY DEF RowOf, Unseen, Shaped
  <2>2. S \subseteq DOMAIN row
    <3> HIDE DEF S
    <3> QED BY <2>1 DEF ++
  <2> HIDE DEF row
  <2>3. DOMAIN d = DOMAIN db /\ d.notes = db.notes /\ d.states = [p \in {<<u, k>>} |-> row] ++ db.states
    BY DEF Shaped
  <2> HIDE DEF d
  <2>4. \A p \in DOMAIN d.states : S \subseteq DOMAIN d.states[p]
    <3>1. \A p \in DOMAIN db.states : S \subseteq DOMAIN db.states[p]
      BY DEF Shaped
    <3> HIDE DEF S
    <3> QED BY <2>2, <2>3, <3>1 DEF ++
  <2>5. Shaped(d)
    BY <2>3, <2>4 DEF Shaped
  <2>6. Edit(d)
    BY <1>11 DEF ChangeSettings, d, row
  <2> QED BY <2>5, <2>6, EditShapes
<1>12. ASSUME NEW u, NEW K, GradeBatch(u, K) PROVE ShapeInv' /\ ~Importing
  BY <1>12, GradeBatchShapes
<1> HIDE DEF ShapeInv
<1> QED BY <1>1, <1>2, <1>3, <1>4, <1>6, <1>7, <1>8, <1>9, <1>10, <1>11, <1>12 DEF Next

(* An import touches nothing of other users, whatever names and guids they   *)
(* share with its package: not their content, nor their progress, on the     *)
(* importer's cards as little as on others, nor the importer's progress on   *)
(* theirs.  Every row it adds is the importer's.  It takes no row and no     *)
(* review, and leaves the importer's settings, note decks, deck names and    *)
(* unreviewed cards as they were (importDecks to seedCardStates).            *)
THEOREM ImportsLeaveTheRestAlone == Spec => ImportLeavesAlone
<1>1. Init => Inv /\ ShapeInv
  BY InitHolds, HistoryAssumption, PackageAssumption DEF Init, ShapeInv, Counted
<1>2. Inv /\ ShapeInv /\ [Next]_vars => (Inv /\ ShapeInv)' /\ (Importing => LeavesAlone)
  BY NextKeeps, NextShapes
<1>3. Inv /\ ShapeInv /\ [Next]_vars => [Importing => OthersUntouched /\ ProgressKept /\ FilingKept]_vars
  BY <1>2 DEF LeavesAlone
<1> QED BY <1>1, <1>2, <1>3, PTL DEF Spec, ImportLeavesAlone
=============================================================================
