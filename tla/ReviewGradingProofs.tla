------------------------ MODULE ReviewGradingProofs ------------------------
(***************************************************************************)
(* Theorems about grading, for any cards, requests, imports and histories. *)
(*                                                                         *)
(* Type correctness needs that every log stays finite: last_review is the  *)
(* time of the last row of a replayed log, and an infinite log has none.   *)
(*                                                                         *)
(* Mutual exclusion per card needs what a transaction knows of its keys    *)
(* while it is still collecting them: each key of its cards is either yet  *)
(* to be taken or already its own.                                         *)
(***************************************************************************)
EXTENDS ReviewGrading, FiniteSetTheorems, TLAPS

-----------------------------------------------------------------------------
(* The order of review_log, forward scheduling and replay, for histories   *)
(* of any length (ReviewHistory).                                          *)

(* review_log's order is a strict total order on the entries: the id       *)
(* decides between equal timestamps.                                       *)
LEMMA BeforeIsStrictOrder ==
    /\ \A e \in Entries : ~ Before(e, e)
    /\ \A e, f \in Entries : e = f \/ Before(e, f) \/ Before(f, e)
    /\ \A e, f, g \in Entries : Before(e, f) /\ Before(f, g) => Before(e, g)
  BY DEF Before, Entries

IsLast(e, entries) == \A f \in entries : f = e \/ Before(f, e)

(* A finite, non-empty log has a last row: the order and finiteness alone  *)
(* give it, by taking a smallest counterexample.                           *)
LEMMA FiniteHasLast ==
    ASSUME NEW S, S \subseteq Entries, IsFiniteSet(S), S # {}
    PROVE  \E e \in S : IsLast(e, S)
<1> DEFINE Bad == {A \in FiniteSubsetsOf(Entries) :
                     A # {} /\ ~ \E e \in A : IsLast(e, A)}
<1>1. SUFFICES ASSUME Bad # {} PROVE FALSE
  BY DEF FiniteSubsetsOf
<1>2. PICK A \in Bad : \A B \in Bad : ~ (<<B, A>> \in StrictSubsetOrdering(Entries))
  <2>1. Bad \subseteq FiniteSubsetsOf(Entries)
    OBVIOUS
  <2>2. IsWellFoundedOn(StrictSubsetOrdering(Entries), FiniteSubsetsOf(Entries))
    BY FS_StrictSubsetOrderingWellFounded
  <2> QED BY <1>1, <2>1, <2>2, WFMin
<1>3. PICK x \in A : TRUE
  OBVIOUS
<1> DEFINE B == A \ {x}
<1>4. /\ A \subseteq Entries /\ IsFiniteSet(A) /\ A # {}
      /\ ~ \E e \in A : IsLast(e, A)
  BY DEF FiniteSubsetsOf
<1>5. IsFiniteSet(B) /\ B \subseteq Entries
  BY <1>4, FS_RemoveElement
<1>6. B \notin Bad
  <2>1. <<B, A>> \in StrictSubsetOrdering(Entries)
    BY <1>3, <1>4 DEF StrictSubsetOrdering
  <2> QED BY <1>2, <2>1
<1>7. CASE B = {}
  BY <1>3, <1>4, <1>7 DEF IsLast
<1>8. CASE B # {}
  <2>1. PICK y \in B : IsLast(y, B)
    BY <1>5, <1>6, <1>8 DEF FiniteSubsetsOf
  <2>2. IsLast(x, A) \/ IsLast(y, A)
    BY <1>3, <1>4, <2>1, BeforeIsStrictOrder DEF IsLast
  <2> QED BY <1>4, <2>2, <1>3
<1> QED BY <1>7, <1>8

(* The last row is unique, so last_review is well defined. *)
LEMMA LastReviewedAtIs ==
    ASSUME NEW S, S \subseteq Entries, NEW e \in S, IsLast(e, S)
    PROVE  LastReviewedAt(S) = e.at
<1>1. \A f \in S : IsLast(f, S) => f = e
  BY BeforeIsStrictOrder DEF IsLast
<1>2. (CHOOSE x \in S : \A f \in S : f = x \/ Before(f, x)) = e
  BY <1>1 DEF IsLast
<1> QED BY <1>2 DEF LastReviewedAt

LEMMA LastReviewedAtType ==
    ASSUME NEW S, S \subseteq Entries, IsFiniteSet(S), S # {}
    PROVE  LastReviewedAt(S) \in Int
<1>1. PICK e \in S : IsLast(e, S)
  BY FiniteHasLast
<1> QED BY <1>1, LastReviewedAtIs DEF Entries

(* Types of the scheduler's two entry points. *)
LEMMA ReplayType ==
    ASSUME NEW S, S \subseteq Entries
    PROVE  /\ Replay(S) \in SUBSET Steps
           /\ \A e \in Entries : PriorTo(S, e) \in SUBSET Steps
  BY DEF Replay, PriorTo, Preceding, Steps

LEMMA ScheduleType ==
    ASSUME NEW state \in SUBSET Steps, NEW e \in Entries
    PROVE  Schedule(state, e) \in SUBSET Steps
  BY DEF Schedule, Reviewed, Steps

(* A replayed state was built from exactly the rows it was given. *)
LEMMA ReviewedOfReplay ==
    ASSUME NEW S
    PROVE  Reviewed(Replay(S)) = S
<1> DEFINE step(e) == [entry |-> e, after |-> Preceding(S, e)]
<1>1. \A e : step(e).entry = e
  OBVIOUS
<1>2. Replay(S) = {step(e) : e \in S}
  BY DEF Replay
<1> HIDE DEF step
<1>3. {s.entry : s \in {step(e) : e \in S}} = S
  BY <1>1
<1> QED BY <1>2, <1>3 DEF Reviewed

LEMMA ReviewedOfSchedule ==
    ASSUME NEW state, NEW e
    PROVE  Reviewed(Schedule(state, e)) = Reviewed(state) \cup {e}
<1> DEFINE new == [entry |-> e, after |-> Reviewed(state)]
<1>1. new.entry = e
  OBVIOUS
<1>2. Schedule(state, e) = state \cup {new}
  BY DEF Schedule
<1> HIDE DEF new
<1>3. {s.entry : s \in state \cup {new}} = {s.entry : s \in state} \cup {e}
  BY <1>1
<1> QED BY <1>2, <1>3 DEF Reviewed

(* The key to forward scheduling (gradeInOrder): grading the newest review *)
(* on top of a replayed state gives the state a full replay would give.    *)
LEMMA ScheduleExtendsReplay ==
    ASSUME NEW S, S \subseteq Entries, NEW e \in Entries,
           \A f \in S : Before(f, e)
    PROVE  Schedule(Replay(S), e) = Replay(S \cup {e})
<1>1. e \notin S
  BY BeforeIsStrictOrder
<1>2. \A f \in S : Preceding(S \cup {e}, f) = Preceding(S, f)
  BY BeforeIsStrictOrder DEF Preceding
<1>3. Preceding(S \cup {e}, e) = S
  BY BeforeIsStrictOrder DEF Preceding
<1>4. Replay(S \cup {e}) =
        {[entry |-> f, after |-> Preceding(S \cup {e}, f)] : f \in S}
          \cup {[entry |-> e, after |-> Preceding(S \cup {e}, e)]}
  BY DEF Replay
<1>5. {[entry |-> f, after |-> Preceding(S \cup {e}, f)] : f \in S} = Replay(S)
  BY <1>2 DEF Replay
<1> QED BY <1>3, <1>4, <1>5, ReviewedOfReplay DEF Schedule

(* The reduction of log rows to entries keeps a finite log finite. *)
LEMMA FiniteEntries ==
    ASSUME NEW rows, IsFiniteSet(rows)
    PROVE  IsFiniteSet({Entry(r) : r \in rows})
<1> DEFINE T == {Entry(r) : r \in rows}
           f == [r \in rows |-> Entry(r)]
<1>1. f \in Surjection(rows, T)
  BY DEF Surjection
<1> QED BY <1>1, FS_Surjection

-----------------------------------------------------------------------------
(* The type invariant. *)

FiniteLogs ==
    /\ IsFiniteSet(log)
    /\ \A t \in Transactions : IsFiniteSet(todo[t]) /\ IsFiniteSet(work[t])
                               /\ IsFiniteSet(wlog[t])

TypeInv == TypeOK /\ FiniteLogs

-----------------------------------------------------------------------------
(* The operators the actions are built from. *)

(* What a transaction sees of a row is a row or none: the buffer's         *)
(* sentinel never leaks out of it.                                         *)
LEMMA RowSeenType ==
    ASSUME TypeOK, NEW t \in Transactions, NEW c \in Cards
    PROVE  RowSeen(t, c) \in Rows \cup {NoRow}
  BY DEF TypeOK, RowSeen

LEMMA StepsOfType ==
    ASSUME NEW row \in Rows \cup {NoRow}
    PROVE  StepsOf(row) \in SUBSET Steps
  BY DEF StepsOf, Rows, NewCard

(* Both upserts of user_card_state write a row. *)
LEMMA UpsertType ==
    ASSUME NEW row \in Rows \cup {NoRow}, NEW steps \in SUBSET Steps,
           NEW at \in Int
    PROVE  /\ ReplayUpsert(row, steps, at) \in Rows
           /\ GuardedUpsert(row, steps, at) \in Rows
<1>1. ReplayUpsert(row, steps, at) \in Rows
  BY DEF ReplayUpsert, Rows
<1> QED BY <1>1 DEF GuardedUpsert

LEMMA LogSeenType ==
    ASSUME TypeInv, NEW t \in Transactions
    PROVE  LogSeen(t) \subseteq LogRows /\ IsFiniteSet(LogSeen(t))
  BY FS_Union DEF TypeInv, TypeOK, FiniteLogs, LogSeen

(* The log of one card, as the scheduler reads it. *)
LEMMA LogOfType ==
    ASSUME NEW rows, rows \subseteq LogRows, IsFiniteSet(rows), NEW c
    PROVE  LogOf(rows, c) \subseteq Entries /\ IsFiniteSet(LogOf(rows, c))
<1> DEFINE own == {x \in rows : x.card = c}
<1>1. IsFiniteSet(own)
  BY FS_Subset
<1>2. LogOf(rows, c) = {Entry(r) : r \in own}
  BY DEF LogOf
<1>3. LogOf(rows, c) \subseteq Entries
  BY DEF LogOf, LogRows, Entry, Entries
<1> QED BY <1>1, <1>2, <1>3, FiniteEntries

-----------------------------------------------------------------------------
(* Type correctness, action by action. *)

LEMMA InitType == Init => TypeInv
<1> SUFFICES ASSUME Init PROVE TypeInv
  OBVIOUS
<1>1. TypeOK
  BY ClockAssumption DEF Init, TypeOK, Statuses, Keys
<1>2. FiniteLogs
  BY FS_EmptySet DEF Init, FiniteLogs
<1> QED BY <1>1, <1>2 DEF TypeInv

LEMMA PostType ==
    ASSUME TypeInv, NEW t \in Requests, Post(t)
    PROVE  TypeInv'
<1>1. PICK body \in Posts : work' = [work EXCEPT ![t] = body]
  BY DEF Post
<1>2. body \in SUBSET Events /\ IsFiniteSet(body)
  BY InputAssumption
<1>3. TypeOK'
  BY <1>1, <1>2 DEF TypeInv, TypeOK, Post, tables, Transactions
<1>4. FiniteLogs'
  BY <1>1, <1>2 DEF TypeInv, TypeOK, FiniteLogs, Post, tables, Transactions
<1> QED BY <1>3, <1>4 DEF TypeInv

LEMMA AdjustedType ==
    ASSUME NEW e \in Events, NEW clock \in Int
    PROVE  Adjusted(e, clock) \in Events
  BY DEF Adjusted, Events

LEMMA AuthoriseType ==
    ASSUME TypeInv, NEW t \in Transactions, Authorise(t)
    PROVE  TypeInv'
<1> DEFINE live    == {e \in work[t] : Believable(e, now)}
           allowed == {x \in live : x.card \in studyable}
           toGrade == {Adjusted(e, now) : e \in allowed}
<1>1. work[t] \subseteq Events /\ now \in Int /\ IsFiniteSet(work[t])
  BY DEF TypeInv, TypeOK, FiniteLogs
<1>2. toGrade \in SUBSET Events
  BY <1>1, AdjustedType
<1>3. IsFiniteSet(toGrade)
  <2>1. IsFiniteSet(allowed)
    BY <1>1, FS_Subset
  <2> DEFINE f == [e \in allowed |-> Adjusted(e, now)]
  <2>2. f \in Surjection(allowed, toGrade)
    BY DEF Surjection
  <2> QED BY <2>1, <2>2, FS_Surjection
<1>4. KeysOf(toGrade) \in SUBSET Keys
  BY <1>2 DEF KeysOf, CardsOf, Keys, Events
<1>5. /\ work' = [work EXCEPT ![t] = toGrade]
      /\ need' = [need EXCEPT ![t] = KeysOf(toGrade)]
      /\ pc' = [pc EXCEPT ![t] = IF toGrade = {} THEN "commit" ELSE "lock"]
      /\ UNCHANGED <<now, studyable, tables, owner, seeds, todo, held,
                     wlog, wucs, forgotten>>
  BY DEF Authorise
<1>6. results' \in [Transactions -> [EventIds -> Statuses]]
  BY DEF TypeInv, TypeOK, Authorise, Statuses
<1> HIDE DEF toGrade
<1>7. TypeOK'
  BY <1>2, <1>4, <1>5, <1>6 DEF TypeInv, TypeOK, tables
<1>8. FiniteLogs'
  BY <1>3, <1>5 DEF TypeInv, TypeOK, FiniteLogs, tables
<1> QED BY <1>7, <1>8 DEF TypeInv

LEMMA AcquireLockType ==
    ASSUME TypeInv, NEW t \in Transactions, NEW k \in Keys, AcquireLock(t, k)
    PROVE  TypeInv'
<1>1. TypeOK'
  BY DEF TypeInv, TypeOK, AcquireLock, tables
<1>2. FiniteLogs'
  BY DEF TypeInv, TypeOK, FiniteLogs, AcquireLock, tables
<1> QED BY <1>1, <1>2 DEF TypeInv

LEMMA FilterExistingType ==
    ASSUME TypeInv, NEW t \in Transactions, FilterExisting(t)
    PROVE  TypeInv'
<1> DEFINE fresh == {e \in work[t] : e.id \notin IdsOf(log)}
<1>1. fresh \in SUBSET Events /\ IsFiniteSet(fresh)
  BY FS_Subset DEF TypeInv, TypeOK, FiniteLogs
<1>2. /\ todo' = [todo EXCEPT ![t] = fresh]
      /\ pc' = [pc EXCEPT ![t] = IF fresh = {} THEN "commit" ELSE "grade"]
      /\ UNCHANGED <<now, studyable, tables, owner, work, seeds, need, held,
                     wlog, wucs, forgotten>>
  BY DEF FilterExisting
<1>3. results' \in [Transactions -> [EventIds -> Statuses]]
  BY DEF TypeInv, TypeOK, FilterExisting, Statuses
<1> HIDE DEF fresh
<1>4. TypeOK'
  BY <1>1, <1>2, <1>3 DEF TypeInv, TypeOK, tables
<1>5. FiniteLogs'
  BY <1>1, <1>2 DEF TypeInv, TypeOK, FiniteLogs, tables
<1> QED BY <1>4, <1>5 DEF TypeInv

LEMMA ReadStateType ==
    ASSUME TypeInv, NEW t \in Transactions, NEW e \in todo[t], ReadState(t, e)
    PROVE  TypeInv'
<1>1. e \in Events /\ e.card \in Cards
  BY DEF TypeInv, TypeOK, Events
<1>2. RowSeen(t, e.card) \in Rows \cup {NoRow}
  BY <1>1, RowSeenType DEF TypeInv
<1>3. TypeOK'
  BY <1>1, <1>2 DEF TypeInv, TypeOK, ReadState, tables
<1>4. FiniteLogs'
  BY DEF TypeInv, TypeOK, FiniteLogs, ReadState, tables
<1> QED BY <1>3, <1>4 DEF TypeInv

(* The tail of a graded event. *)
LEMMA FinishType ==
    ASSUME TypeInv, NEW t \in Transactions, NEW e, NEW status \in Statuses,
           Finish(t, e, status)
    PROVE  /\ now' \in 0..MaxNow /\ studyable' \subseteq Cards
           /\ UNCHANGED <<owner, work, seeds, need, forgotten>>
           /\ pc' \in [Transactions ->
                         {"idle", "authorise", "lock", "dedup", "grade",
                          "import", "commit", "done", "failed"}]
           /\ todo' \in [Transactions -> SUBSET Events]
           /\ \A u \in Transactions : IsFiniteSet(todo'[u])
           /\ held' \in [Transactions ->
                           [event : Events, row : Rows \cup {NoRow}] \cup {Nothing}]
           /\ results' \in [Transactions -> [EventIds -> Statuses]]
           /\ UNCHANGED tables
<1>1. results' \in [Transactions -> [EventIds -> Statuses]]
  BY DEF TypeInv, TypeOK, Finish
<1>2. todo' \in [Transactions -> SUBSET Events]
  BY DEF TypeInv, TypeOK, Finish
<1>3. \A u \in Transactions : IsFiniteSet(todo'[u])
  BY FS_Subset DEF TypeInv, TypeOK, FiniteLogs, Finish
<1>4. held' \in [Transactions ->
                   [event : Events, row : Rows \cup {NoRow}] \cup {Nothing}]
  BY DEF TypeInv, TypeOK, Finish
<1>5. UNCHANGED <<now, studyable, tables, owner, work, seeds, need, forgotten>>
  BY DEF Finish
<1>6. pc' \in [Transactions ->
                 {"idle", "authorise", "lock", "dedup", "grade",
                  "import", "commit", "done", "failed"}]
  BY DEF TypeInv, TypeOK, Finish
<1>7. now' \in 0..MaxNow /\ studyable' \subseteq Cards
  BY <1>5 DEF TypeInv, TypeOK
<1> QED BY <1>1, <1>2, <1>3, <1>4, <1>5, <1>6, <1>7

LEMMA AppendType ==
    ASSUME TypeInv, NEW t \in Transactions, NEW e \in Events,
           NEW prior \in SUBSET Steps, NEW row \in Rows, Append(t, e, prior, row)
    PROVE  TypeInv'
<1> DEFINE new == [id |-> e.id, card |-> e.card, at |-> e.at, prior |-> prior,
                   imported |-> FALSE]
<1>1. new \in LogRows
  BY DEF LogRows, Events
<1>2. Finish(t, e, "applied") /\ "applied" \in Statuses
  BY DEF Append, Statuses
<1>3. /\ wlog' = [wlog EXCEPT ![t] = @ \cup {new}]
      /\ wucs' = [wucs EXCEPT ![t][e.card] = row]
  BY DEF Append, KeepSettings
<1> HIDE DEF new
<1>4. wlog' \in [Transactions -> SUBSET LogRows]
      /\ \A u \in Transactions : IsFiniteSet(wlog'[u])
  <2>1. /\ wlog \in [Transactions -> SUBSET LogRows]
        /\ \A u \in Transactions : IsFiniteSet(wlog[u])
    BY DEF TypeInv, TypeOK, FiniteLogs
  <2>2. IsFiniteSet(wlog[t] \cup {new})
    BY <2>1, FS_AddElement
  <2> QED BY <1>1, <1>3, <2>1, <2>2
<1>5. wucs' \in [Transactions -> [Cards -> Rows \cup {NoRow, Unwritten}]]
  BY <1>3 DEF TypeInv, TypeOK, Events
<1>6. TypeOK'
  BY <1>2, <1>4, <1>5, FinishType DEF TypeInv, TypeOK, tables
<1>7. FiniteLogs'
  BY <1>2, <1>4, FinishType DEF TypeInv, FiniteLogs, tables
<1> QED BY <1>6, <1>7 DEF TypeInv

(* The event and the row a transaction is grading. *)
LEMMA HeldType ==
    ASSUME TypeInv, NEW t \in Transactions, held[t] # Nothing
    PROVE  /\ held[t].event \in Events
           /\ held[t].event.card \in Cards
           /\ held[t].event.at \in Int
           /\ Entry(held[t].event) \in Entries
           /\ held[t].row \in Rows \cup {NoRow}
<1>1. held[t] \in [event : Events, row : Rows \cup {NoRow}]
  BY DEF TypeInv, TypeOK
<1> QED BY <1>1 DEF Events, Entry, Entries

LEMMA GradeTakenType ==
    ASSUME TypeInv, NEW t \in Transactions, GradeTaken(t)
    PROVE  TypeInv'
<1> DEFINE e == held[t].event
<1>1. /\ Finish(t, e, "duplicate") /\ "duplicate" \in Statuses
      /\ UNCHANGED <<wlog, wucs>>
  BY DEF GradeTaken, Statuses
<1> HIDE DEF e
<1>2. TypeOK'
  BY <1>1, FinishType DEF TypeInv, TypeOK, tables
<1>3. FiniteLogs'
  BY <1>1, FinishType DEF TypeInv, FiniteLogs, tables
<1> QED BY <1>2, <1>3 DEF TypeInv

LEMMA GradeInOrderType ==
    ASSUME TypeInv, NEW t \in Transactions, GradeInOrder(t)
    PROVE  TypeInv'
<1> DEFINE e     == held[t].event
           prior == StepsOf(held[t].row)
           row   == GuardedUpsert(RowSeen(t, e.card),
                                  Schedule(prior, Entry(e)), e.at)
<1>1. held[t] # Nothing
  BY DEF GradeInOrder
<1>2. e \in Events /\ e.card \in Cards /\ e.at \in Int /\ Entry(e) \in Entries
      /\ held[t].row \in Rows \cup {NoRow}
  BY <1>1, HeldType
<1>3. prior \in SUBSET Steps
  BY <1>2, StepsOfType
<1>4. Schedule(prior, Entry(e)) \in SUBSET Steps
  BY <1>2, <1>3, ScheduleType
<1>5. RowSeen(t, e.card) \in Rows \cup {NoRow}
  BY <1>2, RowSeenType DEF TypeInv
<1>6. row \in Rows
  BY <1>2, <1>4, <1>5, UpsertType
<1>7. Append(t, e, prior, row)
  BY DEF GradeInOrder
<1> HIDE DEF e, prior, row
<1> QED BY <1>2, <1>3, <1>6, <1>7, AppendType

LEMMA GradeOutOfOrderType ==
    ASSUME TypeInv, NEW t \in Transactions, GradeOutOfOrder(t)
    PROVE  TypeInv'
<1> DEFINE e      == held[t].event
           entry  == Entry(e)
           merged == LogOf(LogSeen(t), e.card) \cup {entry}
           prior  == PriorTo(merged, entry)
           row    == ReplayUpsert(RowSeen(t, e.card), Replay(merged),
                                  LastReviewedAt(merged))
<1>1. held[t] # Nothing
  BY DEF GradeOutOfOrder
<1>2. e \in Events /\ e.card \in Cards /\ entry \in Entries
  BY <1>1, HeldType
<1>3. merged \subseteq Entries /\ IsFiniteSet(merged) /\ merged # {}
  <2>1. LogOf(LogSeen(t), e.card) \subseteq Entries
        /\ IsFiniteSet(LogOf(LogSeen(t), e.card))
    BY LogSeenType, LogOfType
  <2> QED BY <1>2, <2>1, FS_AddElement
<1>4. prior \in SUBSET Steps /\ Replay(merged) \in SUBSET Steps
  BY <1>2, <1>3, ReplayType
<1>5. LastReviewedAt(merged) \in Int
  BY <1>3, LastReviewedAtType
<1>6. row \in Rows
  BY <1>2, <1>4, <1>5, RowSeenType, UpsertType DEF TypeInv
<1>7. Append(t, e, prior, row)
  BY DEF GradeOutOfOrder, LatePrior, Rebuilt, RebuiltAt
<1> HIDE DEF e, entry, merged, prior, row
<1> QED BY <1>2, <1>4, <1>6, <1>7, AppendType

LEMMA ImportType ==
    ASSUME TypeInv, NEW t \in Imports, Import(t)
    PROVE  TypeInv'
<1>1. PICK p \in Packages :
         /\ work' = [work EXCEPT ![t] = p.reviews]
         /\ todo' = [todo EXCEPT ![t] = p.reviews]
         /\ seeds' = [seeds EXCEPT ![t] = p.seeds]
         /\ need' = [need EXCEPT ![t] = KeysOf(p.reviews \cup p.seeds)]
  BY DEF Import
<1>2. /\ p.reviews \in SUBSET Events /\ IsFiniteSet(p.reviews)
      /\ p.seeds \in SUBSET Snapshots
  BY InputAssumption
<1>3. KeysOf(p.reviews \cup p.seeds) \in SUBSET Keys
  BY <1>2 DEF KeysOf, CardsOf, Keys, Events, Snapshots
<1>4. TypeOK'
  BY <1>1, <1>2, <1>3 DEF TypeInv, TypeOK, Import, tables, Transactions
<1>5. FiniteLogs'
  BY <1>1, <1>2 DEF TypeInv, TypeOK, FiniteLogs, Import, tables, Transactions
<1> QED BY <1>4, <1>5 DEF TypeInv

(* A card whose package reviews are all in the log already still has a log *)
(* to replay.                                                              *)
LEMMA ImportReviewsType ==
    ASSUME TypeInv, NEW t \in Transactions, NEW c \in Cards, ImportReviews(t, c)
    PROVE  TypeInv'
<1> DEFINE reviews == {e \in todo[t] : e.card = c}
           fresh   == {x \in reviews : ~ Imported(t, x)}
           row(e)  == [id |-> e.id, card |-> c, at |-> e.at, prior |-> {},
                       imported |-> TRUE]
           rows    == {row(e) : e \in fresh}
           merged  == CardLog(t, rows, c)
           state   == ReplayUpsert(RowSeen(t, c), Replay(merged),
                                   LastReviewedAt(merged))
<1>1. /\ reviews # {}
      /\ wlog' = [wlog EXCEPT ![t] = @ \cup rows]
      /\ wucs' = [wucs EXCEPT ![t][c] = state]
      /\ todo' = [todo EXCEPT ![t] = @ \ reviews]
      /\ UNCHANGED <<now, studyable, tables, owner, pc, work, seeds, need,
                     held, results, forgotten>>
  BY DEF ImportReviews
<1>2. reviews \in SUBSET Events /\ IsFiniteSet(reviews) /\ IsFiniteSet(fresh)
  BY FS_Subset DEF TypeInv, TypeOK, FiniteLogs
<1>3. rows \in SUBSET LogRows
  <2>1. ASSUME NEW e \in Events PROVE row(e) \in LogRows
    BY DEF LogRows, Events
  <2> HIDE DEF row
  <2> QED BY <1>2, <2>1
<1>4. IsFiniteSet(rows)
  <2> DEFINE f == [e \in fresh |-> row(e)]
  <2>1. f \in Surjection(fresh, rows)
    BY DEF Surjection
  <2> QED BY <1>2, <2>1, FS_Surjection
<1>5. LogSeen(t) \cup rows \subseteq LogRows
      /\ IsFiniteSet(LogSeen(t) \cup rows)
  BY <1>3, <1>4, LogSeenType, FS_Union
<1>6. merged \subseteq Entries /\ IsFiniteSet(merged)
  BY <1>5, LogOfType DEF CardLog
<1>7. merged # {}
  <2>1. PICK e \in reviews : e.card = c
    BY <1>1
  <2>2. \E r \in LogSeen(t) \cup rows : r.card = c
    <3>1. CASE Imported(t, e)
      BY <2>1, <3>1 DEF Imported
    <3>2. CASE ~ Imported(t, e)
      <4>1. row(e) \in rows /\ row(e).card = c
        BY <3>2
      <4> QED BY <4>1
    <3> QED BY <3>1, <3>2
  <2> QED BY <2>2 DEF CardLog, LogOf
<1>8. state \in Rows
  BY <1>6, <1>7, ReplayType, LastReviewedAtType, RowSeenType, UpsertType
     DEF TypeInv
<1> HIDE DEF state, rows, reviews
<1>9. wlog' \in [Transactions -> SUBSET LogRows]
      /\ \A u \in Transactions : IsFiniteSet(wlog'[u])
  <2>1. /\ wlog \in [Transactions -> SUBSET LogRows]
        /\ \A u \in Transactions : IsFiniteSet(wlog[u])
    BY DEF TypeInv, TypeOK, FiniteLogs
  <2>2. IsFiniteSet(wlog[t] \cup rows)
    BY <1>4, <2>1, FS_Union
  <2> QED BY <1>1, <1>3, <2>1, <2>2
<1>10. wucs' \in [Transactions -> [Cards -> Rows \cup {NoRow, Unwritten}]]
  BY <1>1, <1>8 DEF TypeInv, TypeOK
<1>11. todo' \in [Transactions -> SUBSET Events]
       /\ \A u \in Transactions : IsFiniteSet(todo'[u])
  <2>1. /\ todo \in [Transactions -> SUBSET Events]
        /\ \A u \in Transactions : IsFiniteSet(todo[u])
    BY DEF TypeInv, TypeOK, FiniteLogs
  <2>2. IsFiniteSet(todo[t] \ reviews)
    BY <2>1, FS_Subset
  <2> QED BY <1>1, <2>1, <2>2
<1>12. TypeOK'
  BY <1>1, <1>9, <1>10, <1>11 DEF TypeInv, TypeOK, tables
<1>13. FiniteLogs'
  BY <1>1, <1>9, <1>11 DEF TypeInv, FiniteLogs, tables
<1> QED BY <1>12, <1>13 DEF TypeInv

LEMMA SeedCardStatesType ==
    ASSUME TypeInv, NEW t \in Transactions, SeedCardStates(t)
    PROVE  TypeInv'
<1> DEFINE Seeded(c) == {s \in seeds[t] : s.card = c /\ c \notin CardsOf(work[t])}
           chosen(c) == CHOOSE x \in Seeded(c) : TRUE
           snapshot(c) == [steps |-> Snapshot(chosen(c)), last |-> chosen(c).at,
                           suspended |-> chosen(c).suspended]
           buffer == [c \in Cards |->
                        IF Seeded(c) # {} /\ RowSeen(t, c) = NoRow
                        THEN snapshot(c) ELSE wucs[t][c]]
<1>1. /\ wucs' = [wucs EXCEPT ![t] = buffer]
      /\ pc' = [pc EXCEPT ![t] = "commit"]
      /\ UNCHANGED <<now, studyable, tables, owner, work, seeds, need, todo,
                     held, wlog, results, forgotten>>
  BY DEF SeedCardStates, TypeInv, TypeOK
<1>2. ASSUME NEW c \in Cards, Seeded(c) # {}
      PROVE  snapshot(c) \in Rows
  <2>1. chosen(c) \in Snapshots
    BY <1>2 DEF TypeInv, TypeOK
  <2>2. Snapshot(chosen(c)) \in SUBSET Steps
    <3>1. CASE chosen(c).at = Never
      BY <3>1 DEF Snapshot, NewCard
    <3>2. CASE chosen(c).at # Never
      <4>1. Entry(chosen(c)) \in Entries
        BY <2>1, <3>2 DEF Snapshots, Entry, Entries
      <4>2. NewCard \in SUBSET Steps
        BY DEF NewCard
      <4> QED BY <3>2, <4>1, <4>2, ScheduleType DEF Snapshot
    <3> QED BY <3>1, <3>2
  <2>3. chosen(c).at \in Int \cup {Never} /\ chosen(c).suspended \in BOOLEAN
    BY <2>1 DEF Snapshots
  <2> HIDE DEF chosen
  <2> QED BY <2>2, <2>3 DEF Rows
<1>3. buffer \in [Cards -> Rows \cup {NoRow, Unwritten}]
  <2> HIDE DEF Seeded, snapshot
  <2> QED BY <1>2 DEF TypeInv, TypeOK
<1> HIDE DEF buffer
<1>4. TypeOK'
  BY <1>1, <1>3 DEF TypeInv, TypeOK, tables
<1>5. FiniteLogs'
  BY <1>1 DEF TypeInv, FiniteLogs, tables
<1> QED BY <1>4, <1>5 DEF TypeInv

(* Releasing the locks and the buffers, after a commit or a rollback. *)
LEMMA ReleaseType ==
    ASSUME TypeInv, NEW t \in Transactions, Release(t)
    PROVE  /\ owner' \in [Keys -> Transactions \cup {Free}]
           /\ wlog' \in [Transactions -> SUBSET LogRows]
           /\ \A u \in Transactions : IsFiniteSet(wlog'[u])
           /\ wucs' \in [Transactions -> [Cards -> Rows \cup {NoRow, Unwritten}]]
  BY FS_EmptySet DEF TypeInv, TypeOK, FiniteLogs, Release

LEMMA CommitType ==
    ASSUME TypeInv, NEW t \in Transactions, Commit(t)
    PROVE  TypeInv'
<1>1. /\ log' = LogSeen(t)
      /\ ucs' = [c \in Cards |-> RowSeen(t, c)]
      /\ pc' = [pc EXCEPT ![t] = "done"]
      /\ Release(t)
      /\ UNCHANGED <<now, studyable, work, seeds, need, todo, held, results,
                     forgotten>>
  BY DEF Commit, Release
<1>2. log' \subseteq LogRows /\ IsFiniteSet(log')
  BY <1>1, LogSeenType
<1>3. ucs' \in [Cards -> Rows \cup {NoRow}]
  BY <1>1, RowSeenType DEF TypeInv
<1>4. TypeOK'
  BY <1>1, <1>2, <1>3, ReleaseType DEF TypeInv, TypeOK
<1>5. FiniteLogs'
  BY <1>1, <1>2, ReleaseType DEF TypeInv, FiniteLogs
<1> QED BY <1>4, <1>5 DEF TypeInv

LEMMA AbortType ==
    ASSUME TypeInv, NEW t \in Transactions, Abort(t)
    PROVE  TypeInv'
<1>1. /\ pc' = [pc EXCEPT ![t] = "failed"]
      /\ held' = [held EXCEPT ![t] = Nothing]
      /\ Release(t)
      /\ UNCHANGED <<now, studyable, log, ucs, work, seeds, need, todo, results,
                     forgotten>>
  BY DEF Abort, Release, FailureAnswer, tables
<1>2. TypeOK'
  BY <1>1, ReleaseType DEF TypeInv, TypeOK
<1>3. FiniteLogs'
  BY <1>1, ReleaseType DEF TypeInv, FiniteLogs
<1> QED BY <1>2, <1>3 DEF TypeInv

-----------------------------------------------------------------------------
(* The other writers, and the whole. *)

LEMMA SetSuspendedType ==
    ASSUME TypeInv, NEW c \in Touched, NEW value \in BOOLEAN,
           SetSuspended(c, value)
    PROVE  TypeInv'
<1> DEFINE row == IF ucs[c] = NoRow
                  THEN [steps |-> NewCard, last |-> Never, suspended |-> value]
                  ELSE [ucs[c] EXCEPT !.suspended = value]
<1>1. c \in Cards
  BY InputAssumption
<1>2. /\ ucs' = [ucs EXCEPT ![c] = row]
      /\ UNCHANGED <<now, studyable, log, owner, txVars, forgotten>>
  BY <1>1 DEF SetSuspended, TypeInv, TypeOK
<1>3. row \in Rows
  <2>1. CASE ucs[c] = NoRow
    <3>1. [steps |-> {}, last |-> Never, suspended |-> value] \in Rows
      BY Zenon DEF Rows
    <3> QED BY <2>1, <3>1 DEF NewCard
  <2>2. CASE ucs[c] # NoRow
    <3>1. ucs[c] \in Rows
      BY <1>1, <2>2 DEF TypeInv, TypeOK
    <3> QED BY <2>2, <3>1 DEF Rows
  <2> QED BY <2>1, <2>2
<1> HIDE DEF row
<1>4. TypeOK'
  BY <1>1, <1>2, <1>3 DEF TypeInv, TypeOK, txVars
<1>5. FiniteLogs'
  BY <1>2 DEF TypeInv, FiniteLogs, txVars
<1> QED BY <1>4, <1>5 DEF TypeInv

LEMMA ResetProgressType ==
    ASSUME TypeInv, NEW deck \in ResetDecks, ResetProgress(deck)
    PROVE  TypeInv'
<1>1. ASSUME NEW c \in Cards PROVE LogOf(log, c) \subseteq Entries
  BY LogOfType DEF TypeInv, TypeOK, FiniteLogs
<1>2. forgotten' \in [Cards -> SUBSET Entries]
  BY <1>1 DEF TypeInv, TypeOK, ResetProgress
<1>3. ucs' \in [Cards -> Rows \cup {NoRow}]
  BY DEF TypeInv, TypeOK, ResetProgress
<1>4. UNCHANGED <<now, studyable, log, owner, txVars>>
  BY DEF ResetProgress
<1>5. TypeOK'
  BY <1>2, <1>3, <1>4 DEF TypeInv, TypeOK, txVars
<1>6. FiniteLogs'
  BY <1>4 DEF TypeInv, FiniteLogs, txVars
<1> QED BY <1>5, <1>6 DEF TypeInv

LEMMA ClockAndAccessType ==
    ASSUME TypeInv, Tick \/ (\E c \in Revoked : RevokeStudy(c))
    PROVE  TypeInv'
<1>1. /\ now' \in 0..MaxNow
      /\ studyable' \subseteq Cards
      /\ UNCHANGED <<tables, owner, txVars, forgotten>>
  BY ClockAssumption DEF TypeInv, TypeOK, Tick, RevokeStudy
<1>2. TypeOK'
  BY <1>1 DEF TypeInv, TypeOK, txVars, tables
<1>3. FiniteLogs'
  BY <1>1 DEF TypeInv, FiniteLogs, txVars, tables
<1> QED BY <1>2, <1>3 DEF TypeInv

LEMMA StutterType == TypeInv /\ UNCHANGED vars => TypeInv'
<1> SUFFICES ASSUME TypeInv, UNCHANGED vars PROVE TypeInv'
  OBVIOUS
<1>1. TypeOK'
  BY DEF TypeInv, TypeOK, vars, tables, txVars
<1>2. FiniteLogs'
  BY DEF TypeInv, FiniteLogs, vars, tables, txVars
<1> QED BY <1>1, <1>2 DEF TypeInv

LEMMA ProgressType ==
    ASSUME TypeInv, NEW t \in Transactions, Progress(t)
    PROVE  TypeInv'
<1>1. CASE \E k \in Keys : AcquireLock(t, k)
  BY <1>1, AcquireLockType
<1>2. CASE Commit(t)
  BY <1>2, CommitType
<1>3. CASE GradeStep(t)
  <2>1. CASE Authorise(t)
    BY <2>1, AuthoriseType
  <2>2. CASE FilterExisting(t)
    BY <2>2, FilterExistingType
  <2>3. CASE \E e \in todo[t] : ReadState(t, e)
    BY <2>3, ReadStateType
  <2>4. CASE GradeTaken(t)
    BY <2>4, GradeTakenType
  <2>5. CASE GradeInOrder(t)
    BY <2>5, GradeInOrderType
  <2>6. CASE GradeOutOfOrder(t)
    BY <2>6, GradeOutOfOrderType
  <2> QED BY <1>3, <2>1, <2>2, <2>3, <2>4, <2>5, <2>6 DEF GradeStep
<1>4. CASE ImportStep(t)
  <2>1. CASE \E c \in Cards : ImportReviews(t, c)
    BY <2>1, ImportReviewsType
  <2>2. CASE SeedCardStates(t)
    BY <2>2, SeedCardStatesType
  <2> QED BY <1>4, <2>1, <2>2 DEF ImportStep
<1> QED BY <1>1, <1>2, <1>3, <1>4 DEF Progress

(* TypeInv is inductive. *)
LEMMA TypeStep == TypeInv /\ [Next]_vars => TypeInv'
<1> SUFFICES ASSUME TypeInv, [Next]_vars PROVE TypeInv'
  OBVIOUS
<1>1. CASE \E t \in Requests : Post(t)
  BY <1>1, PostType
<1>2. CASE \E t \in Imports : Import(t)
  BY <1>2, ImportType
<1>3. CASE \E t \in Transactions : Progress(t) \/ Abort(t)
  BY <1>3, ProgressType, AbortType
<1>4. CASE \E c \in Touched, value \in BOOLEAN : SetSuspended(c, value)
  BY <1>4, SetSuspendedType
<1>5. CASE \E deck \in ResetDecks : ResetProgress(deck)
  BY <1>5, ResetProgressType
<1>6. CASE Tick \/ \E c \in Revoked : RevokeStudy(c)
  BY <1>6, ClockAndAccessType
<1>7. CASE Quiet \/ UNCHANGED vars
  BY <1>7, StutterType DEF Quiet
<1> QED BY <1>1, <1>2, <1>3, <1>4, <1>5, <1>6, <1>7 DEF Next

(* Every value stays in its declared set, and every log, buffer and batch  *)
(* stays finite: each branch of GradeBatch, the importer and the other     *)
(* writers of user_card_state write rows, never the sentinels.             *)
THEOREM TypeCorrect == Spec => []TypeOK
<1>1. TypeInv => TypeOK
  BY DEF TypeInv
<1> QED BY InitType, TypeStep, <1>1, PTL DEF Spec

-----------------------------------------------------------------------------
(* Mutual exclusion per card. *)

Own(t) == CardsOf(work[t] \cup seeds[t])

(* While a transaction collects its locks, each key of its cards is yet to *)
(* be taken or is its own; from then on until it ends, all are its own.    *)
KeysAccounted ==
    \A t \in Transactions : \A c \in Own(t) :
        /\ pc[t] = "lock" => LockKey[c] \in need[t] \/ owner[LockKey[c]] = t
        /\ Locked(t) => owner[LockKey[c]] = t

(* What makes the two halves meet: only imports have snapshots, and an     *)
(* event is held only while its transaction is grading.                    *)
LockInv ==
    /\ \A t \in Requests : seeds[t] = {}
    /\ \A t \in Transactions : held[t] # Nothing => pc[t] = "grade"
    /\ KeysAccounted

ProtoInv == TypeInv /\ LockInv

(* Steps that touch no lock and no lock set. *)
LEMMA LockStutter ==
    ASSUME LockInv, UNCHANGED <<pc, work, seeds, need, owner, held>>
    PROVE  LockInv'
  BY DEF LockInv, KeysAccounted, Own, CardsOf, Locked

LEMMA PostKeepsLocks ==
    ASSUME ProtoInv, NEW t \in Requests, Post(t)
    PROVE  LockInv'
<1>1. PICK body : work' = [work EXCEPT ![t] = body]
  BY DEF Post
<1>2. /\ pc[t] = "idle" /\ pc' = [pc EXCEPT ![t] = "authorise"]
      /\ UNCHANGED <<seeds, need, owner, held>>
  BY DEF Post
<1>3. t \in Transactions
  BY DEF Transactions
<1> QED BY <1>1, <1>2, <1>3
        DEF ProtoInv, TypeInv, TypeOK, LockInv, KeysAccounted, Own, CardsOf, Locked

(* The keys computed are those of the cards that remain. *)
LEMMA AuthoriseKeepsLocks ==
    ASSUME ProtoInv, NEW t \in Requests, Authorise(t)
    PROVE  LockInv'
<1>1. PICK toGrade :
        /\ work' = [work EXCEPT ![t] = toGrade]
        /\ need' = [need EXCEPT ![t] = KeysOf(toGrade)]
        /\ pc' = [pc EXCEPT ![t] = IF toGrade = {} THEN "commit" ELSE "lock"]
  BY DEF Authorise
<1>2. pc[t] = "authorise" /\ UNCHANGED <<seeds, owner, held>>
  BY DEF Authorise
<1>3. t \in Transactions
  BY DEF Transactions
<1>4. KeysAccounted'
  <2> SUFFICES ASSUME NEW u \in Transactions, NEW c \in Own(u)'
               PROVE  /\ pc'[u] = "lock" => LockKey[c] \in need'[u]
                                            \/ owner'[LockKey[c]] = u
                      /\ Locked(u)' => owner'[LockKey[c]] = u
    BY DEF KeysAccounted
  <2>1. CASE u = t
    <3>1. c \in CardsOf(toGrade)
      BY <1>1, <1>2, <1>3, <2>1 DEF ProtoInv, TypeInv, TypeOK, LockInv, Own, CardsOf
    <3>2. LockKey[c] \in need'[u] /\ work'[u] = toGrade
      BY <1>1, <1>3, <2>1, <3>1 DEF ProtoInv, TypeInv, TypeOK, KeysOf
    <3>3. pc'[u] \in {"commit", "lock"} /\ (pc'[u] = "commit" => toGrade = {})
      BY <1>1, <1>3, <2>1 DEF ProtoInv, TypeInv, TypeOK
    <3>4. seeds'[u] = {}
      BY <1>2, <2>1 DEF ProtoInv, LockInv
    <3>5. ~ Locked(u)'
      BY <3>2, <3>3, <3>4 DEF Locked
    <3> QED BY <3>2, <3>5
  <2>2. CASE u # t
    BY <1>1, <1>2, <2>2
       DEF ProtoInv, TypeInv, TypeOK, LockInv, KeysAccounted, Own, CardsOf, Locked
  <2> QED BY <2>1, <2>2
<1>5. \A u \in Transactions : held'[u] # Nothing => pc'[u] = "grade"
  BY <1>1, <1>2, <1>3 DEF ProtoInv, TypeInv, TypeOK, LockInv
<1> QED BY <1>2, <1>4, <1>5 DEF ProtoInv, LockInv

(* A key granted was free: it is taken from nobody.  The last one makes    *)
(* the transaction the owner of all its cards' keys.                       *)
LEMMA AcquireLockKeepsLocks ==
    ASSUME ProtoInv, NEW t \in Transactions, NEW k \in Keys, AcquireLock(t, k)
    PROVE  LockInv'
<1>1. /\ pc[t] = "lock" /\ k \in need[t] /\ owner[k] = Free
      /\ owner' = [owner EXCEPT ![k] = t]
      /\ need' = [need EXCEPT ![t] = need[t] \ {k}]
      /\ pc' = [pc EXCEPT ![t] =
                  IF need[t] # {k} THEN "lock"
                  ELSE IF t \in Imports THEN "import" ELSE "dedup"]
      /\ UNCHANGED <<work, seeds, held>>
  BY DEF AcquireLock, NextKey, Granted, ProtoInv, TypeInv, TypeOK
<1>2. \A u \in Transactions : u # Free
  BY SentinelAssumption
<1>3. KeysAccounted'
  <2> SUFFICES ASSUME NEW u \in Transactions, NEW c \in Own(u)'
               PROVE  /\ pc'[u] = "lock" => LockKey[c] \in need'[u]
                                            \/ owner'[LockKey[c]] = u
                      /\ Locked(u)' => owner'[LockKey[c]] = u
    BY DEF KeysAccounted
  <2>1. c \in Own(u)
    BY <1>1 DEF Own, CardsOf
  <2>2. LockKey[c] \in Keys
    BY <2>1 DEF Own, CardsOf, Keys, ProtoInv, TypeInv, TypeOK, Events, Snapshots
  <2>3. owner[LockKey[c]] = u => owner'[LockKey[c]] = u
    BY <1>1, <1>2, <2>2 DEF ProtoInv, TypeInv, TypeOK
  <2>4. CASE u = t
    <3>1. LockKey[c] \in need[t] \/ owner[LockKey[c]] = t
      BY <1>1, <2>1, <2>4 DEF ProtoInv, LockInv, KeysAccounted
    <3>2. LockKey[c] \in need[t] \ {k} \/ owner'[LockKey[c]] = t
      BY <1>1, <2>2, <2>3, <2>4, <3>1 DEF ProtoInv, TypeInv, TypeOK
    <3>3. need'[t] = need[t] \ {k}
      BY <1>1 DEF ProtoInv, TypeInv, TypeOK
    <3>4. CASE need[t] = {k}
      BY <2>4, <3>2, <3>4
    <3>5. CASE need[t] # {k}
      <4>1. ~ Locked(u)'
        BY <1>1, <2>4, <3>5 DEF Locked, ProtoInv, TypeInv, TypeOK
      <4> QED BY <2>4, <3>2, <3>3, <4>1
    <3> QED BY <3>4, <3>5
  <2>5. CASE u # t
    <3>1. pc'[u] = pc[u] /\ need'[u] = need[u] /\ (Locked(u)' <=> Locked(u))
      BY <1>1, <2>5 DEF Locked, ProtoInv, TypeInv, TypeOK
    <3> QED BY <2>1, <2>3, <3>1 DEF ProtoInv, LockInv, KeysAccounted
  <2> QED BY <2>4, <2>5
<1>4. \A u \in Transactions : held'[u] # Nothing => pc'[u] = "grade"
  BY <1>1 DEF ProtoInv, TypeInv, TypeOK, LockInv
<1> QED BY <1>1, <1>3, <1>4 DEF ProtoInv, LockInv

(* A transaction moves on among the states that hold all its locks. *)
LEMMA MoveKeepsLocks ==
    ASSUME ProtoInv, NEW t \in Transactions,
           pc[t] \in {"dedup", "grade", "import"},
           NEW to \in {"grade", "commit"}, pc' = [pc EXCEPT ![t] = to],
           NEW h, held' = [held EXCEPT ![t] = h], h # Nothing => to = "grade",
           UNCHANGED <<work, seeds, need, owner>>
    PROVE  LockInv'
<1>1. KeysAccounted'
  <2> SUFFICES ASSUME NEW u \in Transactions, NEW c \in Own(u)'
               PROVE  /\ pc'[u] = "lock" => LockKey[c] \in need'[u]
                                            \/ owner'[LockKey[c]] = u
                      /\ Locked(u)' => owner'[LockKey[c]] = u
    BY DEF KeysAccounted
  <2>1. c \in Own(u)
    BY DEF Own, CardsOf
  <2>2. (Locked(u)' => Locked(u)) /\ (pc'[u] = "lock" => pc[u] = "lock")
    BY DEF Locked, ProtoInv, TypeInv, TypeOK
  <2> QED BY <2>1, <2>2 DEF ProtoInv, LockInv, KeysAccounted
<1>2. \A u \in Transactions : held'[u] # Nothing => pc'[u] = "grade"
  BY DEF ProtoInv, TypeInv, TypeOK, LockInv
<1> QED BY <1>1, <1>2 DEF ProtoInv, LockInv

LEMMA FinishKeepsLocks ==
    ASSUME ProtoInv, NEW t \in Transactions, held[t] # Nothing,
           NEW e, NEW status, Finish(t, e, status)
    PROVE  LockInv'
<1> DEFINE to == IF todo[t] = {e} THEN "commit" ELSE "grade"
<1>1. pc[t] = "grade"
  BY DEF ProtoInv, LockInv
<1>2. /\ pc' = [pc EXCEPT ![t] = to] /\ to \in {"grade", "commit"}
      /\ held' = [held EXCEPT ![t] = Nothing]
      /\ UNCHANGED <<work, seeds, need, owner>>
  BY DEF Finish
<1> HIDE DEF to
<1> QED BY <1>1, <1>2, MoveKeepsLocks

LEMMA GradeKeepsLocks ==
    ASSUME ProtoInv, NEW t \in Requests, GradeStep(t)
    PROVE  LockInv'
<1>1. t \in Transactions
  BY DEF Transactions
<1>2. CASE Authorise(t)
  BY <1>2, AuthoriseKeepsLocks
<1>3. CASE FilterExisting(t)
  <2> DEFINE fresh == {e \in work[t] : e.id \notin IdsOf(log)}
             to == IF fresh = {} THEN "commit" ELSE "grade"
  <2>1. /\ pc[t] = "dedup"
        /\ pc' = [pc EXCEPT ![t] = to] /\ to \in {"grade", "commit"}
        /\ UNCHANGED <<held, work, seeds, need, owner>>
    BY <1>3 DEF FilterExisting
  <2>2. held[t] = Nothing /\ held' = [held EXCEPT ![t] = Nothing]
    BY <1>1, <2>1 DEF ProtoInv, TypeInv, TypeOK, LockInv
  <2> HIDE DEF to
  <2> QED BY <1>1, <2>1, <2>2, MoveKeepsLocks
<1>4. CASE \E e \in todo[t] : ReadState(t, e)
  <2>1. PICK h : held' = [held EXCEPT ![t] = h]
    BY <1>4 DEF ReadState
  <2>2. /\ pc[t] = "grade" /\ pc' = [pc EXCEPT ![t] = "grade"]
        /\ UNCHANGED <<work, seeds, need, owner>>
    BY <1>1, <1>4 DEF ReadState, ProtoInv, TypeInv, TypeOK
  <2> QED BY <1>1, <2>1, <2>2, MoveKeepsLocks
<1>5. CASE GradeTaken(t)
  BY <1>1, <1>5, FinishKeepsLocks DEF GradeTaken
<1>6. CASE GradeInOrder(t)
  BY <1>1, <1>6, FinishKeepsLocks DEF GradeInOrder, Append
<1>7. CASE GradeOutOfOrder(t)
  BY <1>1, <1>7, FinishKeepsLocks DEF GradeOutOfOrder, Append
<1> QED BY <1>2, <1>3, <1>4, <1>5, <1>6, <1>7 DEF GradeStep

LEMMA BeginImportKeepsLocks ==
    ASSUME ProtoInv, NEW t \in Imports, Import(t)
    PROVE  LockInv'
<1>1. PICK p \in Packages :
         /\ work' = [work EXCEPT ![t] = p.reviews]
         /\ seeds' = [seeds EXCEPT ![t] = p.seeds]
         /\ need' = [need EXCEPT ![t] = KeysOf(p.reviews \cup p.seeds)]
  BY DEF Import
<1>2. /\ pc[t] = "idle" /\ pc' = [pc EXCEPT ![t] = "lock"]
      /\ UNCHANGED <<owner, held>>
  BY DEF Import
<1>3. t \in Transactions /\ t \notin Requests
  BY InputAssumption DEF Transactions
<1>4. KeysAccounted'
  <2> SUFFICES ASSUME NEW u \in Transactions, NEW c \in Own(u)'
               PROVE  /\ pc'[u] = "lock" => LockKey[c] \in need'[u]
                                            \/ owner'[LockKey[c]] = u
                      /\ Locked(u)' => owner'[LockKey[c]] = u
    BY DEF KeysAccounted
  <2>1. CASE u = t
    <3>1. c \in CardsOf(p.reviews \cup p.seeds)
      BY <1>1, <1>3, <2>1 DEF ProtoInv, TypeInv, TypeOK, Own
    <3>2. LockKey[c] \in need'[u]
      BY <1>1, <1>3, <2>1, <3>1 DEF ProtoInv, TypeInv, TypeOK, KeysOf
    <3>3. ~ Locked(u)'
      BY <1>2, <1>3, <2>1 DEF ProtoInv, TypeInv, TypeOK, Locked
    <3> QED BY <3>2, <3>3
  <2>2. CASE u # t
    BY <1>1, <1>2, <2>2
       DEF ProtoInv, TypeInv, TypeOK, LockInv, KeysAccounted, Own, CardsOf, Locked
  <2> QED BY <2>1, <2>2
<1>5. \A u \in Transactions : held'[u] # Nothing => pc'[u] = "grade"
  BY <1>2 DEF ProtoInv, TypeInv, TypeOK, LockInv
<1>6. \A u \in Requests : seeds'[u] = {}
  BY <1>1, <1>3 DEF ProtoInv, TypeInv, TypeOK, LockInv, Transactions
<1> QED BY <1>4, <1>5, <1>6 DEF LockInv

LEMMA ImportStepKeepsLocks ==
    ASSUME ProtoInv, NEW t \in Imports, ImportStep(t)
    PROVE  LockInv'
<1>1. t \in Transactions
  BY DEF Transactions
<1>2. CASE \E c \in Cards : ImportReviews(t, c)
  <2>1. UNCHANGED <<pc, work, seeds, need, owner, held>>
    BY <1>2 DEF ImportReviews
  <2> QED BY <2>1, LockStutter DEF ProtoInv
<1>3. CASE SeedCardStates(t)
  <2>1. /\ pc[t] = "import" /\ pc' = [pc EXCEPT ![t] = "commit"]
        /\ UNCHANGED <<work, seeds, need, owner, held>>
    BY <1>3 DEF SeedCardStates
  <2>2. held[t] = Nothing /\ held' = [held EXCEPT ![t] = Nothing]
    BY <1>1, <2>1 DEF ProtoInv, TypeInv, TypeOK, LockInv
  <2> QED BY <1>1, <2>1, <2>2, MoveKeepsLocks
<1> QED BY <1>2, <1>3 DEF ImportStep

(* The end of a transaction frees its own keys and no others. *)
LEMMA EndKeepsLocks ==
    ASSUME ProtoInv, NEW t \in Transactions, Commit(t) \/ Abort(t)
    PROVE  LockInv'
<1>1. /\ Release(t)
      /\ \E to \in {"done", "failed"} : pc' = [pc EXCEPT ![t] = to]
  BY DEF Commit, Abort, FailureAnswer
<1>2. UNCHANGED <<work, seeds, need>>
  BY <1>1 DEF Release
<1>3. \A u \in Transactions : held'[u] # Nothing => pc'[u] = "grade"
  <2>1. CASE Commit(t)
    BY <2>1 DEF Commit, ProtoInv, TypeInv, TypeOK, LockInv
  <2>2. CASE Abort(t)
    BY <2>2 DEF Abort, ProtoInv, TypeInv, TypeOK, LockInv
  <2> QED BY <2>1, <2>2
<1>4. KeysAccounted'
  <2> SUFFICES ASSUME NEW u \in Transactions, NEW c \in Own(u)'
               PROVE  /\ pc'[u] = "lock" => LockKey[c] \in need'[u]
                                            \/ owner'[LockKey[c]] = u
                      /\ Locked(u)' => owner'[LockKey[c]] = u
    BY DEF KeysAccounted
  <2>1. c \in Own(u)
    BY <1>2 DEF Own, CardsOf
  <2>2. LockKey[c] \in Keys
    BY <2>1 DEF Own, CardsOf, Keys, ProtoInv, TypeInv, TypeOK, Events, Snapshots
  <2>3. CASE u = t
    BY <1>1, <2>3 DEF Locked, ProtoInv, TypeInv, TypeOK
  <2>4. CASE u # t
    <3>1. owner[LockKey[c]] = u => owner'[LockKey[c]] = u
      BY <1>1, <2>2, <2>4 DEF Release
    <3>2. pc'[u] = pc[u] /\ need'[u] = need[u] /\ (Locked(u)' <=> Locked(u))
      BY <1>1, <1>2, <2>4 DEF Locked, ProtoInv, TypeInv, TypeOK
    <3> QED BY <2>1, <3>1, <3>2 DEF ProtoInv, LockInv, KeysAccounted
  <2> QED BY <2>3, <2>4
<1> QED BY <1>2, <1>3, <1>4 DEF ProtoInv, LockInv

(* A key has one owner: two transactions past their locks share no card.   *)
LEMMA LocksExclude == LockInv => CardExclusion
<1> SUFFICES ASSUME LockInv, NEW t \in Transactions, NEW u \in Transactions,
                    t # u, Locked(t), Locked(u), NEW c \in Own(t), c \in Own(u)
             PROVE  FALSE
  BY DEF CardExclusion, Own
<1>1. owner[LockKey[c]] = t /\ owner[LockKey[c]] = u
  BY DEF LockInv, KeysAccounted
<1> QED BY <1>1

LEMMA ProtoInit == Init => ProtoInv
<1> SUFFICES ASSUME Init PROVE ProtoInv
  OBVIOUS
<1>1. LockInv
  BY DEF Init, LockInv, KeysAccounted, Own, CardsOf, Transactions
<1> QED BY <1>1, InitType DEF ProtoInv

LEMMA ProtoStep == ProtoInv /\ [Next]_vars => ProtoInv'
<1> SUFFICES ASSUME ProtoInv, [Next]_vars PROVE ProtoInv'
  OBVIOUS
<1>1. TypeInv'
  BY TypeStep DEF ProtoInv
<1>2. CASE \E t \in Requests : Post(t)
  BY <1>1, <1>2, PostKeepsLocks DEF ProtoInv
<1>3. CASE \E t \in Imports : Import(t)
  BY <1>1, <1>3, BeginImportKeepsLocks DEF ProtoInv
<1>4. CASE \E t \in Transactions : Abort(t)
  BY <1>1, <1>4, EndKeepsLocks DEF ProtoInv
<1>5. ASSUME NEW t \in Transactions, Progress(t) PROVE LockInv'
  <2>1. CASE \E k \in Keys : AcquireLock(t, k)
    BY <2>1, AcquireLockKeepsLocks
  <2>2. CASE Commit(t)
    BY <2>2, EndKeepsLocks
  <2>3. CASE t \in Requests /\ GradeStep(t)
    BY <2>3, GradeKeepsLocks
  <2>4. CASE t \in Imports /\ ImportStep(t)
    BY <2>4, ImportStepKeepsLocks
  <2> QED BY <1>5, <2>1, <2>2, <2>3, <2>4 DEF Progress
<1>6. CASE \/ \E c \in Touched, value \in BOOLEAN : SetSuspended(c, value)
           \/ \E deck \in ResetDecks : ResetProgress(deck)
           \/ \E c \in Revoked : RevokeStudy(c)
           \/ Tick \/ Quiet \/ UNCHANGED vars
  <2>1. UNCHANGED <<pc, work, seeds, need, owner, held>>
    BY <1>6 DEF SetSuspended, ResetProgress, RevokeStudy, Tick, Quiet, vars,
                txVars
  <2> QED BY <1>1, <2>1, LockStutter DEF ProtoInv
<1> QED BY <1>1, <1>2, <1>3, <1>4, <1>5, <1>6 DEF Next, ProtoInv

(* A concurrent grade of the same card waits: whatever the batches and     *)
(* imports, and however the hashes of their cards collide, the sorted,     *)
(* one-by-one acquisition of lock.go keeps two of them from ever being     *)
(* past their locks on one card.                                           *)
THEOREM GradingExcludes == Spec => []CardExclusion
<1>1. ProtoInv => CardExclusion
  BY LocksExclude DEF ProtoInv
<1> QED BY ProtoInit, ProtoStep, <1>1, PTL DEF Spec
-----------------------------------------------------------------------------
(***************************************************************************)
(* What reaches review_log: every row is written under its card's lock, no *)
(* two rows have one key, and no answer is given without a row.  The other *)
(* half, what user_card_state makes of the log, follows.                    *)
(***************************************************************************)

(* Rows are written under their locks: a buffer never holds a card its     *)
(* transaction has not locked, and a log row never without the state row   *)
(* it changed.                                                             *)
BufferInv ==
    /\ \A t \in Transactions, c \in Cards : wucs[t][c] # Unwritten =>
          Locked(t) /\ c \in Own(t) /\ wucs[t][c] # NoRow
    /\ \A t \in Transactions : \A r \in wlog[t] : wucs[t][r.card] # Unwritten

(* Where a transaction is, and what it works on. *)
WorkInv ==
    /\ \A t \in Transactions : /\ todo[t] \subseteq work[t]
                               /\ pc[t] \in {"idle", "authorise"} => todo[t] = {}
                               /\ pc[t] = "import" => t \in Imports
                               /\ held[t] # Nothing => /\ held[t].event \in todo[t]
                                                       /\ t \in Requests
    /\ \A t \in Requests : IdsOf(work[t]) \subseteq EventIds
    /\ \A t \in Imports :
          \/ work[t] = {} /\ seeds[t] = {}
          \/ \E p \in Packages : work[t] \subseteq p.reviews /\ seeds[t] \subseteq p.seeds

(* The unique keys of review_log: the id of a graded review; the card and  *)
(* the revlog id of an imported one.                                       *)
SameKey(r, s) == r.id = s.id /\ (r.card = s.card \/ ~ r.imported)

Apart(A, B) == \A r \in A, s \in B : ~ SameKey(r, s)

(* No transaction has a row in its buffer whose key another one, or the    *)
(* committed log, holds.                                                   *)
KeyInv ==
    /\ \A r \in log : r.imported <=> r.id \notin EventIds
    /\ \A t \in Transactions :
          /\ \A r \in wlog[t] : /\ r.imported <=> r.id \notin EventIds
                                /\ r.imported <=> t \in Imports
          /\ Apart(wlog[t], log)
          /\ \A u \in Transactions \ {t} : Apart(wlog[t], wlog[u])
          /\ \A r, s \in wlog[t] : SameKey(r, s) => r = s
    /\ \A r, s \in log : SameKey(r, s) => r = s

(* An answer in the making is backed by a row of the buffer, or of the log.*)
ResultInv ==
    /\ \A t \in Requests, id \in EventIds :
          /\ pc[t] \in {"idle", "authorise", "lock", "dedup"} =>
                results[t][id] \notin {"applied", "duplicate"}
          /\ pc[t] \in {"grade", "commit"} =>
                /\ results[t][id] = "applied" => id \in IdsOf(wlog[t])
                /\ results[t][id] = "duplicate" => id \in IdsOf(LogSeen(t))
    /\ AckedIsLogged
    /\ \A t, u \in Requests, id \in EventIds :
          /\ t # u /\ pc[t] = "done" /\ pc[u] = "done"
          /\ results[t][id] = "applied"
          => results[u][id] # "applied"

LogInv == BufferInv /\ WorkInv /\ KeyInv /\ ResultInv

-----------------------------------------------------------------------------
(* Where a transaction is. *)

LEMMA WorkFrame ==
    ASSUME WorkInv, UNCHANGED <<work, seeds, todo, held>>,
           \A t \in Transactions :
              /\ pc'[t] \in {"idle", "authorise"} => pc[t] \in {"idle", "authorise"}
              /\ pc'[t] = "import" => t \in Imports
    PROVE  WorkInv'
  BY DEF WorkInv

LEMMA PostKeepsWork ==
    ASSUME ProtoInv, WorkInv, NEW t \in Requests, Post(t)
    PROVE  WorkInv'
<1>1. PICK body \in Posts : work' = [work EXCEPT ![t] = body]
  BY DEF Post
<1>2. IdsOf(body) \subseteq EventIds
  BY DEF IdsOf, EventIds
<1>3. /\ pc[t] = "idle" /\ pc' = [pc EXCEPT ![t] = "authorise"]
      /\ UNCHANGED <<seeds, todo, held>>
  BY DEF Post
<1>4. t \in Transactions /\ t \notin Imports
  BY InputAssumption DEF Transactions
<1>5. \A u \in Transactions : work'[u] = IF u = t THEN body ELSE work[u]
  BY <1>1 DEF ProtoInv, TypeInv, TypeOK
<1>6. todo[t] = {}
  BY <1>3, <1>4 DEF WorkInv
<1> QED BY <1>2, <1>3, <1>4, <1>5, <1>6
        DEF WorkInv, ProtoInv, TypeInv, TypeOK, Transactions

(* Clamping an event's time leaves its id alone. *)
LEMMA AuthoriseKeepsWork ==
    ASSUME ProtoInv, WorkInv, NEW t \in Requests, Authorise(t)
    PROVE  WorkInv'
<1> DEFINE live    == {e \in work[t] : Believable(e, now)}
           toGrade == {Adjusted(e, now) : e \in {x \in live : x.card \in studyable}}
<1>1. /\ work' = [work EXCEPT ![t] = toGrade]
      /\ pc[t] = "authorise"
      /\ pc' = [pc EXCEPT ![t] = IF toGrade = {} THEN "commit" ELSE "lock"]
      /\ UNCHANGED <<seeds, todo, held>>
  BY DEF Authorise
<1>2. t \in Transactions /\ t \notin Imports
  BY InputAssumption DEF Transactions
<1>3. IdsOf(toGrade) \subseteq EventIds
  <2>1. ASSUME NEW e \in work[t] PROVE Adjusted(e, now).id = e.id
    BY <1>2 DEF Adjusted, ProtoInv, TypeInv, TypeOK, Events
  <2>2. IdsOf(toGrade) \subseteq IdsOf(work[t])
    BY <2>1 DEF IdsOf
  <2> QED BY <2>2 DEF WorkInv
<1> HIDE DEF toGrade
<1>4. \A u \in Transactions : work'[u] = IF u = t THEN toGrade ELSE work[u]
  BY <1>1 DEF ProtoInv, TypeInv, TypeOK
<1>5. todo[t] = {} /\ held[t] = Nothing
  BY <1>1, <1>2 DEF WorkInv, ProtoInv, LockInv
<1> QED BY <1>1, <1>2, <1>3, <1>4, <1>5
        DEF WorkInv, ProtoInv, TypeInv, TypeOK, Transactions

LEMMA FilterKeepsWork ==
    ASSUME ProtoInv, WorkInv, NEW t \in Requests, FilterExisting(t)
    PROVE  WorkInv'
<1>1. PICK fresh \in SUBSET work[t] : todo' = [todo EXCEPT ![t] = fresh]
  BY DEF FilterExisting
<1>2. /\ pc[t] = "dedup"
      /\ \E to \in {"commit", "grade"} : pc' = [pc EXCEPT ![t] = to]
      /\ UNCHANGED <<work, seeds, held>>
  BY DEF FilterExisting
<1>3. t \in Transactions /\ held[t] = Nothing
  BY <1>2 DEF Transactions, ProtoInv, LockInv
<1> QED BY <1>1, <1>2, <1>3 DEF WorkInv, ProtoInv, TypeInv, TypeOK

LEMMA GradeKeepsWork ==
    ASSUME ProtoInv, WorkInv, NEW t \in Requests,
           (\E e \in todo[t] : ReadState(t, e)) \/ GradeTaken(t)
              \/ GradeInOrder(t) \/ GradeOutOfOrder(t)
    PROVE  WorkInv'
<1>1. t \in Transactions
  BY DEF Transactions
<1>2. CASE \E e \in todo[t] : ReadState(t, e)
  <2>0. PICK e \in todo[t] :
          \E row : held' = [held EXCEPT ![t] = [event |-> e, row |-> row]]
    BY <1>2 DEF ReadState
  <2>1. PICK row : held' = [held EXCEPT ![t] = [event |-> e, row |-> row]]
    BY <2>0
  <2>2. \A u \in Transactions : held'[u] # Nothing =>
            held'[u].event \in todo[u] /\ u \in Requests
    BY <2>1 DEF WorkInv, ProtoInv, TypeInv, TypeOK
  <2>3. UNCHANGED <<pc, work, seeds, todo>>
    BY <1>2 DEF ReadState
  <2> QED BY <2>2, <2>3 DEF WorkInv
<1>3. CASE GradeTaken(t) \/ GradeInOrder(t) \/ GradeOutOfOrder(t)
  <2>1. PICK e, status : Finish(t, e, status)
    BY <1>3 DEF GradeTaken, GradeInOrder, GradeOutOfOrder, Append
  <2> QED BY <1>1, <2>1 DEF Finish, WorkInv, ProtoInv, TypeInv, TypeOK
<1> QED BY <1>2, <1>3

LEMMA ImportKeepsWork ==
    ASSUME ProtoInv, WorkInv, NEW t \in Imports, Import(t)
    PROVE  WorkInv'
<1>1. PICK p \in Packages :
         /\ work' = [work EXCEPT ![t] = p.reviews]
         /\ todo' = [todo EXCEPT ![t] = p.reviews]
         /\ seeds' = [seeds EXCEPT ![t] = p.seeds]
  BY DEF Import
<1>2. /\ pc[t] = "idle" /\ pc' = [pc EXCEPT ![t] = "lock"]
      /\ UNCHANGED held
  BY DEF Import
<1>3. t \in Transactions /\ t \notin Requests /\ held[t] = Nothing
  BY <1>2, InputAssumption DEF Transactions, ProtoInv, LockInv
<1>4. \A u \in Transactions :
         /\ work'[u] = IF u = t THEN p.reviews ELSE work[u]
         /\ todo'[u] = IF u = t THEN p.reviews ELSE todo[u]
         /\ seeds'[u] = IF u = t THEN p.seeds ELSE seeds[u]
         /\ pc'[u] = IF u = t THEN "lock" ELSE pc[u]
  BY <1>1, <1>2 DEF ProtoInv, TypeInv, TypeOK
<1>5. \A u \in Imports : u \in Transactions
  BY DEF Transactions
<1>6. \A u \in Requests : u \in Transactions
  BY DEF Transactions
<1> QED BY <1>2, <1>3, <1>4, <1>5, <1>6 DEF WorkInv

LEMMA WorkStep == ProtoInv /\ WorkInv /\ [Next]_vars => WorkInv'
<1> SUFFICES ASSUME ProtoInv, WorkInv, [Next]_vars PROVE WorkInv'
  OBVIOUS
<1>1. CASE \E t \in Requests : Post(t)
  BY <1>1, PostKeepsWork
<1>2. CASE \E t \in Imports : Import(t)
  BY <1>2, ImportKeepsWork
<1>3. ASSUME NEW t \in Transactions, Abort(t) \/ Commit(t) PROVE WorkInv'
  <2>1. /\ UNCHANGED <<work, seeds, todo>>
        /\ \E to \in {"done", "failed"} : pc' = [pc EXCEPT ![t] = to]
        /\ held' = held \/ held' = [held EXCEPT ![t] = Nothing]
    BY <1>3 DEF Abort, Commit, Release, FailureAnswer
  <2> QED BY <2>1 DEF WorkInv, ProtoInv, TypeInv, TypeOK
<1>4. ASSUME NEW t \in Transactions, \E k \in Keys : AcquireLock(t, k)
      PROVE  WorkInv'
  <2>1. /\ UNCHANGED <<work, seeds, todo, held>>
        /\ \E to \in {"lock", "dedup", "import"} :
              pc' = [pc EXCEPT ![t] = to] /\ (to = "import" => t \in Imports)
    BY <1>4 DEF AcquireLock
  <2> QED BY <2>1, WorkFrame DEF WorkInv, ProtoInv, TypeInv, TypeOK
<1>5. ASSUME NEW t \in Requests, GradeStep(t) PROVE WorkInv'
  BY <1>5, AuthoriseKeepsWork, FilterKeepsWork, GradeKeepsWork DEF GradeStep
<1>6. ASSUME NEW t \in Imports, ImportStep(t) PROVE WorkInv'
  <2>1. CASE \E c \in Cards : ImportReviews(t, c)
    <3>1. /\ UNCHANGED <<pc, work, seeds, held>>
          /\ \E rest \in SUBSET todo[t] : todo' = [todo EXCEPT ![t] = rest]
      BY <2>1 DEF ImportReviews
    <3>2. held[t] = Nothing
      <4>1. t \in Transactions /\ t \notin Requests
        BY InputAssumption DEF Transactions
      <4> QED BY <4>1 DEF WorkInv
    <3>3. \A u \in Transactions : todo'[u] \subseteq todo[u]
                                   /\ (u # t => todo'[u] = todo[u])
      BY <3>1 DEF ProtoInv, TypeInv, TypeOK
    <3> QED BY <3>1, <3>2, <3>3 DEF WorkInv
  <2>2. CASE SeedCardStates(t)
    <3>1. /\ UNCHANGED <<work, seeds, todo, held>>
          /\ pc' = [pc EXCEPT ![t] = "commit"]
      BY <2>2 DEF SeedCardStates
    <3> QED BY <3>1, WorkFrame DEF WorkInv, ProtoInv, TypeInv, TypeOK
  <2> QED BY <1>6, <2>1, <2>2 DEF ImportStep
<1>7. CASE \/ \E c \in Touched, value \in BOOLEAN : SetSuspended(c, value)
           \/ \E deck \in ResetDecks : ResetProgress(deck)
           \/ \E c \in Revoked : RevokeStudy(c)
           \/ Tick \/ Quiet \/ UNCHANGED vars
  <2>1. UNCHANGED <<pc, work, seeds, todo, held>>
    BY <1>7 DEF SetSuspended, ResetProgress, RevokeStudy, Tick, Quiet, vars, txVars
  <2> QED BY <2>1, WorkFrame DEF WorkInv
<1> QED BY <1>1, <1>2, <1>3, <1>4, <1>5, <1>6, <1>7 DEF Next, Progress
-----------------------------------------------------------------------------
(* The three ways a row is written: grading, importing, seeding. *)

(* The log of a card as a transaction sees it. *)
Seen(t, c) == LogOf(LogSeen(t), c)

Merged(t) == Seen(t, held[t].event.card) \cup {Entry(held[t].event)}

InOrderRow(t) ==
    GuardedUpsert(RowSeen(t, held[t].event.card),
                  Schedule(StepsOf(held[t].row), Entry(held[t].event)),
                  held[t].event.at)

Rebuild(t, c, entries) ==
    ReplayUpsert(RowSeen(t, c), Replay(entries), LastReviewedAt(entries))

LogRow(e, prior) == [id |-> e.id, card |-> e.card, at |-> e.at,
                     prior |-> prior, imported |-> FALSE]

(* A transaction past its locks writes log rows and the state of a card of *)
(* its own.                                                                *)
Writes(t, c, rows, row) ==
    /\ Locked(t) /\ Locked(t)' /\ c \in Cards /\ c \in Own(t) /\ RowFree(t, c)
    /\ row \in Rows /\ \A r \in rows : r.card = c
    /\ wlog' = [wlog EXCEPT ![t] = wlog[t] \cup rows]
    /\ wucs' = [wucs EXCEPT ![t][c] = row]
    /\ \A u \in Transactions \ {t} : pc'[u] = pc[u]
    /\ UNCHANGED <<log, ucs, work, seeds, forgotten>>

LEMMA OwnCards ==
    ASSUME TypeInv, NEW t \in Transactions
    PROVE  Own(t) \subseteq Cards
  BY DEF TypeInv, TypeOK, Own, CardsOf, Events, Snapshots

LEMMA SeenType ==
    ASSUME TypeInv, NEW t \in Transactions, NEW c
    PROVE  Seen(t, c) \subseteq Entries /\ IsFiniteSet(Seen(t, c))
  BY LogSeenType, LogOfType DEF Seen

LEMMA RebuildType ==
    ASSUME TypeInv, NEW t \in Transactions, NEW c \in Cards,
           NEW S, S \subseteq Entries, IsFiniteSet(S), S # {}
    PROVE  Rebuild(t, c, S) \in Rows
  BY RowSeenType, ReplayType, LastReviewedAtType, UpsertType DEF TypeInv, Rebuild

(* An event being graded is one of its transaction's, under its lock. *)
LEMMA HeldIsOwn ==
    ASSUME ProtoInv, WorkInv, NEW t \in Transactions, held[t] # Nothing
    PROVE  /\ t \in Requests /\ pc[t] = "grade" /\ Locked(t)
           /\ held[t].event \in todo[t] /\ held[t].event \in work[t]
           /\ held[t].event.card \in Cards /\ held[t].event.card \in Own(t)
           /\ held[t].event.id \in EventIds
           /\ Merged(t) \subseteq Entries /\ IsFiniteSet(Merged(t))
           /\ Entry(held[t].event) \in Merged(t)
<1>1. /\ t \in Requests /\ pc[t] = "grade"
      /\ held[t].event \in todo[t] /\ held[t].event \in work[t]
  BY DEF ProtoInv, LockInv, WorkInv
<1>2. held[t].event.card \in Cards /\ Entry(held[t].event) \in Entries
  BY HeldType DEF ProtoInv
<1>3. held[t].event.card \in Own(t) /\ held[t].event.id \in EventIds /\ Locked(t)
  BY <1>1 DEF Own, CardsOf, WorkInv, IdsOf, Locked
<1>4. Merged(t) \subseteq Entries /\ IsFiniteSet(Merged(t))
  <2>1. /\ Seen(t, held[t].event.card) \subseteq Entries
        /\ IsFiniteSet(Seen(t, held[t].event.card))
    BY SeenType DEF ProtoInv
  <2> QED BY <1>2, <2>1, FS_AddElement DEF Merged
<1> QED BY <1>1, <1>2, <1>3, <1>4 DEF Merged

(* The end of an event leaves its transaction past its locks. *)
LEMMA FinishStaysLocked ==
    ASSUME ProtoInv, WorkInv, NEW t \in Transactions, held[t] # Nothing,
           NEW e, NEW status, Finish(t, e, status)
    PROVE  /\ Locked(t)' /\ UNCHANGED <<work, seeds, forgotten, log, ucs>>
           /\ \A u \in Transactions \ {t} : pc'[u] = pc[u]
<1>1. work[t] # {}
  BY HeldIsOwn
<1>2. pc'[t] \in {"grade", "commit"}
      /\ \A u \in Transactions \ {t} : pc'[u] = pc[u]
  BY DEF Finish, ProtoInv, TypeInv, TypeOK
<1>3. UNCHANGED <<work, seeds, forgotten, log, ucs>>
  BY DEF Finish, tables
<1> QED BY <1>1, <1>2, <1>3 DEF Locked

LEMMA GradeWrites ==
    ASSUME ProtoInv, WorkInv, NEW t \in Requests,
           GradeInOrder(t) \/ GradeOutOfOrder(t)
    PROVE  /\ held[t] # Nothing /\ Finish(t, held[t].event, "applied")
           /\ IdFree(t, held[t].event.id) /\ ~ Taken(t, held[t].event)
           /\ \E prior \in SUBSET Steps, row \in Rows :
                 /\ Writes(t, held[t].event.card, {LogRow(held[t].event, prior)}, row)
                 /\ \/ /\ ~ OutOfOrder(held[t].row, held[t].event)
                       /\ prior = StepsOf(held[t].row)
                       /\ row = InOrderRow(t)
                    \/ /\ prior = PriorTo(Merged(t), Entry(held[t].event))
                       /\ row = Rebuild(t, held[t].event.card, Merged(t))
<1> DEFINE e == held[t].event
           c == held[t].event.card
<1>1. t \in Transactions /\ held[t] # Nothing
  BY DEF Transactions, GradeInOrder, GradeOutOfOrder
<1>2. /\ e \in Events /\ c \in Cards /\ e.at \in Int /\ Entry(e) \in Entries
      /\ held[t].row \in Rows \cup {NoRow}
  BY <1>1, HeldType DEF ProtoInv
<1>3. /\ c \in Own(t) /\ Locked(t)
      /\ Merged(t) \subseteq Entries /\ IsFiniteSet(Merged(t)) /\ Merged(t) # {}
  BY <1>1, HeldIsOwn
<1>4. ASSUME NEW prior, NEW row \in Rows, Append(t, e, prior, row)
      PROVE  /\ Writes(t, c, {LogRow(e, prior)}, row)
             /\ Finish(t, e, "applied") /\ IdFree(t, e.id) /\ ~ Taken(t, e)
  <2>1. Finish(t, e, "applied") /\ IdFree(t, e.id) /\ ~ Taken(t, e) /\ RowFree(t, c)
    BY <1>4 DEF Append
  <2>2. /\ wlog' = [wlog EXCEPT ![t] = wlog[t] \cup {LogRow(e, prior)}]
        /\ wucs' = [wucs EXCEPT ![t][c] = row]
    BY <1>4 DEF Append, LogRow, KeepSettings
  <2>3. \A r \in {LogRow(e, prior)} : r.card = c
    BY DEF LogRow
  <2>4. /\ Locked(t)' /\ UNCHANGED <<work, seeds, forgotten, log, ucs>>
        /\ \A u \in Transactions \ {t} : pc'[u] = pc[u]
    BY <1>1, <2>1, FinishStaysLocked
  <2> HIDE DEF e, c
  <2> QED BY <1>2, <1>3, <2>1, <2>2, <2>3, <2>4 DEF Writes
<1>5. RowSeen(t, c) \in Rows \cup {NoRow}
  BY <1>1, <1>2, RowSeenType DEF ProtoInv, TypeInv
<1>6. CASE GradeInOrder(t)
  <2>1. StepsOf(held[t].row) \in SUBSET Steps
    BY <1>2, StepsOfType
  <2>2. InOrderRow(t) \in Rows
    BY <1>2, <1>5, <2>1, ScheduleType, UpsertType DEF InOrderRow
  <2>3. ~ OutOfOrder(held[t].row, e)
        /\ Append(t, e, StepsOf(held[t].row), InOrderRow(t))
    BY <1>6 DEF GradeInOrder, InOrderRow
  <2>4. /\ Writes(t, c, {LogRow(e, StepsOf(held[t].row))}, InOrderRow(t))
        /\ Finish(t, e, "applied") /\ IdFree(t, e.id) /\ ~ Taken(t, e)
    BY <1>4, <2>2, <2>3
  <2> QED BY <1>1, <2>1, <2>2, <2>3, <2>4
<1>7. CASE GradeOutOfOrder(t)
  <2>1. PriorTo(Merged(t), Entry(e)) \in SUBSET Steps
    BY <1>2, <1>3, ReplayType
  <2>2. Rebuild(t, c, Merged(t)) \in Rows
    BY <1>1, <1>2, <1>3, RebuildType DEF ProtoInv
  <2>3. Append(t, e, PriorTo(Merged(t), Entry(e)), Rebuild(t, c, Merged(t)))
    BY <1>7 DEF GradeOutOfOrder, LatePrior, Rebuilt, RebuiltAt, Rebuild, Merged, Seen
  <2>4. /\ Writes(t, c, {LogRow(e, PriorTo(Merged(t), Entry(e)))},
                  Rebuild(t, c, Merged(t)))
        /\ Finish(t, e, "applied") /\ IdFree(t, e.id) /\ ~ Taken(t, e)
    BY <1>4, <2>2, <2>3
  <2> QED BY <1>1, <2>1, <2>2, <2>4
<1> QED BY <1>6, <1>7

(* An import's log rows for a card: the reviews that are not there yet. *)
ImportRow(e, c) == [id |-> e.id, card |-> c, at |-> e.at, prior |-> {},
                    imported |-> TRUE]

NewRows(t, c) ==
    {ImportRow(e, c) : e \in {x \in todo[t] : x.card = c /\ ~ Imported(t, x)}}

LEMMA ImportWrites ==
    ASSUME ProtoInv, WorkInv, NEW t \in Imports, NEW c \in Cards,
           ImportReviews(t, c)
    PROVE  LET S == LogOf(LogSeen(t) \cup NewRows(t, c), c)
           IN /\ S \subseteq Entries /\ IsFiniteSet(S) /\ S # {}
              /\ Writes(t, c, NewRows(t, c), Rebuild(t, c, S))
              /\ UNCHANGED <<pc, held, results>> /\ todo'[t] \subseteq todo[t]
              /\ \A u \in Transactions \ {t} : todo'[u] = todo[u]
<1> DEFINE reviews == {e \in todo[t] : e.card = c}
           fresh   == {x \in reviews : ~ Imported(t, x)}
           S       == LogOf(LogSeen(t) \cup NewRows(t, c), c)
<1>1. t \in Transactions /\ pc[t] = "import" /\ Locked(t)
  BY DEF Transactions, ImportReviews, Locked
<1>2. NewRows(t, c) = {ImportRow(e, c) : e \in fresh}
  BY DEF NewRows
<1>3. /\ reviews # {} /\ RowFree(t, c)
      /\ wlog' = [wlog EXCEPT ![t] = wlog[t] \cup NewRows(t, c)]
      /\ wucs' = [wucs EXCEPT ![t][c] = Rebuild(t, c, S)]
      /\ todo' = [todo EXCEPT ![t] = todo[t] \ reviews]
      /\ UNCHANGED <<tables, pc, work, seeds, held, results, forgotten>>
  BY <1>2 DEF ImportReviews, ImportRow, CardLog, Rebuild
<1>4. c \in Own(t)
  BY <1>1, <1>3 DEF Own, CardsOf, WorkInv
<1>5. fresh \subseteq Events /\ IsFiniteSet(fresh)
  BY <1>1, FS_Subset DEF ProtoInv, TypeInv, TypeOK, FiniteLogs
<1>6. NewRows(t, c) \subseteq LogRows
  <2>1. ASSUME NEW e \in Events PROVE ImportRow(e, c) \in LogRows
    BY DEF ImportRow, LogRows, Events
  <2> QED BY <1>2, <1>5, <2>1
<1>7. IsFiniteSet(NewRows(t, c))
  <2> DEFINE f == [e \in fresh |-> ImportRow(e, c)]
  <2>1. f \in Surjection(fresh, NewRows(t, c))
    BY <1>2 DEF Surjection
  <2> QED BY <1>5, <2>1, FS_Surjection
<1>8. S \subseteq Entries /\ IsFiniteSet(S)
  <2>1. LogSeen(t) \cup NewRows(t, c) \subseteq LogRows
        /\ IsFiniteSet(LogSeen(t) \cup NewRows(t, c))
    BY <1>1, <1>6, <1>7, LogSeenType, FS_Union DEF ProtoInv
  <2> QED BY <2>1, LogOfType
<1>9. S # {}
  <2>1. PICK e \in reviews : e.card = c
    BY <1>3
  <2>2. \E r \in LogSeen(t) \cup NewRows(t, c) : r.card = c
    <3>1. CASE Imported(t, e)
      BY <2>1, <3>1 DEF Imported
    <3>2. CASE ~ Imported(t, e)
      <4>1. ImportRow(e, c) \in NewRows(t, c) /\ ImportRow(e, c).card = c
        BY <1>2, <3>2 DEF ImportRow
      <4> QED BY <4>1
    <3> QED BY <3>1, <3>2
  <2> QED BY <2>2 DEF LogOf
<1>10. Rebuild(t, c, S) \in Rows
  BY <1>1, <1>8, <1>9, RebuildType DEF ProtoInv
<1>11. \A r \in NewRows(t, c) : r.card = c
  BY DEF NewRows, ImportRow
<1>12. Locked(t)'
  BY <1>1, <1>3 DEF Locked
<1>13. UNCHANGED <<pc, log, ucs, work, seeds, forgotten, held, results>>
  BY <1>3 DEF tables
<1>14. todo'[t] \subseteq todo[t] /\ \A u \in Transactions \ {t} : todo'[u] = todo[u]
  BY <1>1, <1>3 DEF ProtoInv, TypeInv, TypeOK
<1> HIDE DEF S, reviews, fresh
<1>15. Writes(t, c, NewRows(t, c), Rebuild(t, c, S))
  BY <1>1, <1>3, <1>4, <1>10, <1>11, <1>12, <1>13 DEF Writes
<1> QED BY <1>8, <1>9, <1>13, <1>14, <1>15 DEF S

(* seedCardStates writes rows for cards that have none, from snapshots of  *)
(* its package.                                                            *)
SeedRow(s) == [steps |-> Snapshot(s), last |-> s.at, suspended |-> s.suspended]

SeedOf(t, c) == \E s \in seeds[t] : /\ s.card = c /\ wucs'[t][c] = SeedRow(s)
                                    /\ SeedRow(s) \in Rows

LEMMA SeedWrites ==
    ASSUME ProtoInv, WorkInv, NEW t \in Imports, SeedCardStates(t)
    PROVE  /\ Locked(t) /\ pc' = [pc EXCEPT ![t] = "commit"]
           /\ UNCHANGED <<log, ucs, work, seeds, forgotten, todo, held, wlog, results>>
           /\ wucs' \in [Transactions -> [Cards -> Rows \cup {NoRow, Unwritten}]]
           /\ \A u \in Transactions \ {t} : wucs'[u] = wucs[u]
           /\ \A c \in Cards :
                 \/ wucs'[t][c] = wucs[t][c]
                 \/ /\ RowFree(t, c) /\ RowSeen(t, c) = NoRow /\ SeedOf(t, c)
                    /\ c \in Own(t)
<1> DEFINE Seeded(c) == {s \in seeds[t] : s.card = c /\ c \notin CardsOf(work[t])}
           chosen(c) == CHOOSE x \in Seeded(c) : TRUE
<1>1. t \in Transactions /\ pc[t] = "import" /\ Locked(t)
  BY DEF Transactions, SeedCardStates, Locked
<1>2. /\ pc' = [pc EXCEPT ![t] = "commit"]
      /\ UNCHANGED <<log, ucs, work, seeds, forgotten, todo, held, wlog, results>>
      /\ \A c \in CardsOf(seeds[t]) : RowFree(t, c)
  BY DEF SeedCardStates, tables
<1>3. wucs' = [wucs EXCEPT ![t] =
                 [c \in Cards |-> IF Seeded(c) # {} /\ RowSeen(t, c) = NoRow
                                  THEN SeedRow(chosen(c)) ELSE wucs[t][c]]]
  BY <1>1 DEF SeedCardStates, SeedRow, ProtoInv, TypeInv, TypeOK
<1>4. ASSUME NEW c \in Cards, Seeded(c) # {}
      PROVE  /\ chosen(c) \in seeds[t] /\ chosen(c).card = c
             /\ SeedRow(chosen(c)) \in Rows
  <2>1. chosen(c) \in Seeded(c)
    BY <1>4
  <2>2. chosen(c) \in seeds[t] /\ chosen(c).card = c
    BY <2>1
  <2>3. chosen(c) \in Snapshots
    BY <1>1, <2>2 DEF ProtoInv, TypeInv, TypeOK
  <2> HIDE DEF chosen
  <2>4. Snapshot(chosen(c)) \in SUBSET Steps
    <3>1. CASE chosen(c).at = Never
      BY <3>1 DEF Snapshot, NewCard
    <3>2. CASE chosen(c).at # Never
      <4>1. Entry(chosen(c)) \in Entries
        BY <2>3, <3>2 DEF Snapshots, Entry, Entries
      <4>2. NewCard \in SUBSET Steps
        BY DEF NewCard
      <4> QED BY <3>2, <4>1, <4>2, ScheduleType DEF Snapshot
    <3> QED BY <3>1, <3>2
  <2>5. chosen(c).at \in Int \cup {Never} /\ chosen(c).suspended \in BOOLEAN
    BY <2>3 DEF Snapshots
  <2> QED BY <2>2, <2>4, <2>5 DEF Rows, SeedRow
<1> HIDE DEF chosen, Seeded
<1>5. \A c \in Cards : wucs'[t][c] = IF Seeded(c) # {} /\ RowSeen(t, c) = NoRow
                                     THEN SeedRow(chosen(c)) ELSE wucs[t][c]
  BY <1>1, <1>3 DEF ProtoInv, TypeInv, TypeOK
<1>6. \A u \in Transactions \ {t} : wucs'[u] = wucs[u]
  BY <1>3
<1>7. ASSUME NEW c \in Cards, wucs'[t][c] # wucs[t][c]
      PROVE  RowFree(t, c) /\ RowSeen(t, c) = NoRow /\ SeedOf(t, c) /\ c \in Own(t)
  <2>1. Seeded(c) # {} /\ RowSeen(t, c) = NoRow
        /\ wucs'[t][c] = SeedRow(chosen(c))
    BY <1>5, <1>7
  <2>2. chosen(c) \in seeds[t] /\ chosen(c).card = c /\ SeedRow(chosen(c)) \in Rows
    BY <1>4, <2>1
  <2>3. c \in CardsOf(seeds[t]) /\ c \in Own(t)
    BY <2>2 DEF CardsOf, Own
  <2> QED BY <1>2, <2>1, <2>2, <2>3 DEF SeedOf
<1>8. wucs' \in [Transactions -> [Cards -> Rows \cup {NoRow, Unwritten}]]
  BY <1>1, <1>3, <1>4 DEF ProtoInv, TypeInv, TypeOK
<1> QED BY <1>1, <1>2, <1>6, <1>7, <1>8

-----------------------------------------------------------------------------
(* Rows are written under their locks. *)

LEMMA BufferFrame ==
    ASSUME BufferInv, UNCHANGED <<wlog, wucs>>,
           \A t \in Transactions : Locked(t) => Locked(t)' /\ Own(t)' = Own(t)
    PROVE  BufferInv'
  BY DEF BufferInv

(* A transaction that has not all its locks has no buffer to lose. *)
LEMMA BufferBegin ==
    ASSUME ProtoInv, BufferInv, UNCHANGED <<wlog, wucs>>, NEW t \in Transactions,
           ~ Locked(t), NEW to, pc' = [pc EXCEPT ![t] = to],
           \A u \in Transactions \ {t} : work'[u] = work[u] /\ seeds'[u] = seeds[u]
    PROVE  BufferInv'
<1> SUFFICES ASSUME NEW u \in Transactions, Locked(u)
             PROVE  Locked(u)' /\ Own(u)' = Own(u)
  BY BufferFrame
<1>1. u # t /\ pc'[u] = pc[u]
  BY DEF ProtoInv, TypeInv, TypeOK
<1>2. work'[u] = work[u] /\ seeds'[u] = seeds[u]
  BY <1>1
<1> QED BY <1>1, <1>2 DEF Locked, Own, CardsOf

LEMMA WriteKeepsBuffers ==
    ASSUME ProtoInv, BufferInv, NEW t \in Transactions, NEW c, NEW rows, NEW row,
           Writes(t, c, rows, row)
    PROVE  BufferInv'
<1>1. \A u \in Transactions : (Locked(u) => Locked(u)') /\ Own(u)' = Own(u)
  BY DEF Writes, Locked, Own, CardsOf
<1>2. row # Unwritten /\ row # NoRow /\ c \in Cards /\ c \in Own(t) /\ Locked(t)
  BY SentinelAssumption DEF Writes
<1>3. \A u \in Transactions, d \in Cards :
         wucs'[u][d] = IF u = t /\ d = c THEN row ELSE wucs[u][d]
  BY <1>2 DEF Writes, ProtoInv, TypeInv, TypeOK
<1>4. \A u \in Transactions : wlog'[u] = IF u = t THEN wlog[t] \cup rows ELSE wlog[u]
  BY DEF Writes, ProtoInv, TypeInv, TypeOK
<1>5. \A u \in Transactions : \A r \in wlog[u] : r.card \in Cards
  BY DEF ProtoInv, TypeInv, TypeOK, LogRows
<1>6. \A r \in rows : r.card = c
  BY DEF Writes
<1>7. \A u \in Transactions, d \in Cards : wucs'[u][d] # Unwritten =>
          Locked(u)' /\ d \in Own(u)' /\ wucs'[u][d] # NoRow
  BY <1>1, <1>2, <1>3 DEF BufferInv
<1>8. \A u \in Transactions : \A r \in wlog'[u] : wucs'[u][r.card] # Unwritten
  BY <1>2, <1>3, <1>4, <1>5, <1>6 DEF BufferInv
<1> QED BY <1>7, <1>8 DEF BufferInv

LEMMA SeedKeepsBuffers ==
    ASSUME ProtoInv, WorkInv, BufferInv, NEW t \in Imports, SeedCardStates(t)
    PROVE  BufferInv'
<1>1. t \in Transactions
  BY DEF Transactions
<1>2. /\ pc'[t] = "commit" /\ \A u \in Transactions \ {t} : pc'[u] = pc[u]
      /\ UNCHANGED <<work, seeds, wlog>>
      /\ \A u \in Transactions \ {t} : wucs'[u] = wucs[u]
      /\ \A c \in Cards : wucs'[t][c] # wucs[t][c] => c \in Own(t)
                                                      /\ wucs'[t][c] \in Rows
  BY <1>1, SeedWrites DEF ProtoInv, TypeInv, TypeOK, SeedOf
<1>3. \A u \in Transactions : Own(u)' = Own(u)
  BY <1>2 DEF Own, CardsOf
<1>4. ASSUME NEW u \in Transactions, NEW c \in Cards, wucs'[u][c] # Unwritten
      PROVE  Locked(u)' /\ c \in Own(u)' /\ wucs'[u][c] # NoRow
  <2>1. CASE u # t
    BY <1>2, <1>3, <1>4, <2>1 DEF BufferInv, Locked
  <2>2. CASE u = t
    <3>1. c \in Own(t) /\ wucs'[t][c] # NoRow
      BY <1>2, <1>4, <2>2, SentinelAssumption DEF BufferInv
    <3>2. work[t] \cup seeds[t] # {}
      BY <3>1 DEF Own, CardsOf
    <3> QED BY <1>2, <1>3, <2>2, <3>1, <3>2 DEF Locked
  <2> QED BY <2>1, <2>2
<1>5. ASSUME NEW u \in Transactions, NEW r \in wlog'[u]
      PROVE  wucs'[u][r.card] # Unwritten
  <2>1. r \in wlog[u] /\ r.card \in Cards /\ wucs[u][r.card] # Unwritten
    BY <1>2 DEF BufferInv, ProtoInv, TypeInv, TypeOK, LogRows
  <2> QED BY <1>2, <2>1, SentinelAssumption
<1> QED BY <1>4, <1>5 DEF BufferInv

LEMMA EndKeepsBuffers ==
    ASSUME ProtoInv, BufferInv, NEW t \in Transactions, Commit(t) \/ Abort(t)
    PROVE  BufferInv'
<1>1. /\ wlog' = [wlog EXCEPT ![t] = {}]
      /\ wucs' = [wucs EXCEPT ![t] = [c \in Cards |-> Unwritten]]
      /\ UNCHANGED <<work, seeds>>
      /\ \E to \in {"done", "failed"} : pc' = [pc EXCEPT ![t] = to]
  BY DEF Commit, Abort, Release, FailureAnswer
<1>2. wlog'[t] = {} /\ \A c \in Cards : wucs'[t][c] = Unwritten
  BY <1>1 DEF ProtoInv, TypeInv, TypeOK
<1>3. \A u \in Transactions \ {t} : /\ wlog'[u] = wlog[u] /\ wucs'[u] = wucs[u]
                                    /\ pc'[u] = pc[u]
  BY <1>1 DEF ProtoInv, TypeInv, TypeOK
<1>4. \A u \in Transactions : Own(u)' = Own(u)
  BY <1>1 DEF Own, CardsOf
<1>5. \A u \in Transactions \ {t} : Locked(u)' <=> Locked(u)
  BY <1>1, <1>3 DEF Locked
<1> QED BY <1>2, <1>3, <1>4, <1>5 DEF BufferInv

LEMMA BufferStep == ProtoInv /\ WorkInv /\ BufferInv /\ [Next]_vars => BufferInv'
<1> SUFFICES ASSUME ProtoInv, WorkInv, BufferInv, [Next]_vars PROVE BufferInv'
  OBVIOUS
<1>1. ASSUME NEW t \in Requests, Post(t) PROVE BufferInv'
  <2>1. /\ pc[t] = "idle" /\ pc' = [pc EXCEPT ![t] = "authorise"]
        /\ UNCHANGED <<wlog, wucs, seeds>>
        /\ \A u \in Transactions \ {t} : work'[u] = work[u]
    BY <1>1 DEF Post
  <2>2. t \in Transactions /\ ~ Locked(t)
    BY <2>1 DEF Locked, Transactions
  <2> QED BY <2>1, <2>2, BufferBegin
<1>2. ASSUME NEW t \in Imports, Import(t) PROVE BufferInv'
  <2>1. /\ pc[t] = "idle" /\ pc' = [pc EXCEPT ![t] = "lock"]
        /\ UNCHANGED <<wlog, wucs>>
        /\ \A u \in Transactions \ {t} : work'[u] = work[u] /\ seeds'[u] = seeds[u]
    BY <1>2 DEF Import, ProtoInv, TypeInv, TypeOK
  <2>2. t \in Transactions /\ ~ Locked(t)
    BY <2>1 DEF Locked, Transactions
  <2> QED BY <2>1, <2>2, BufferBegin
<1>3. ASSUME NEW t \in Transactions, Abort(t) \/ Commit(t) PROVE BufferInv'
  BY <1>3, EndKeepsBuffers
<1>4. ASSUME NEW t \in Transactions, NEW k \in Keys, AcquireLock(t, k)
      PROVE  BufferInv'
  <2>1. /\ pc[t] = "lock" /\ \E to : pc' = [pc EXCEPT ![t] = to]
        /\ UNCHANGED <<wlog, wucs, work, seeds>>
    BY <1>4 DEF AcquireLock
  <2> QED BY <2>1, BufferBegin DEF Locked
<1>5. ASSUME NEW t \in Requests, GradeStep(t) PROVE BufferInv'
  <2>1. t \in Transactions
    BY DEF Transactions
  <2>2. CASE Authorise(t)
    <3>1. /\ pc[t] = "authorise" /\ \E to : pc' = [pc EXCEPT ![t] = to]
          /\ UNCHANGED <<wlog, wucs, seeds>>
          /\ \A u \in Transactions \ {t} : work'[u] = work[u]
      BY <2>2 DEF Authorise, ProtoInv, TypeInv, TypeOK
    <3>2. ~ Locked(t)
      BY <3>1 DEF Locked
    <3> QED BY <2>1, <3>1, <3>2, BufferBegin
  <2>3. CASE FilterExisting(t)
    <3>1. PICK fresh \in SUBSET work[t] :
            pc' = [pc EXCEPT ![t] = IF fresh = {} THEN "commit" ELSE "grade"]
      BY <2>3 DEF FilterExisting
    <3>2. UNCHANGED <<wlog, wucs, work, seeds>>
      BY <2>3 DEF FilterExisting
    <3>3. \A u \in Transactions : Own(u)' = Own(u)
      BY <3>2 DEF Own, CardsOf
    <3>4. pc'[t] \in {"commit", "grade"}
          /\ \A u \in Transactions \ {t} : pc'[u] = pc[u]
      BY <2>1, <3>1 DEF ProtoInv, TypeInv, TypeOK
    <3>5. ASSUME NEW u \in Transactions, NEW c \in Cards, wucs[u][c] # Unwritten
          PROVE  Locked(u)'
      <4>1. Locked(u) /\ work[u] \cup seeds[u] # {}
        BY <3>5 DEF BufferInv, Own, CardsOf
      <4> QED BY <3>2, <3>4, <4>1 DEF Locked
    <3> QED BY <3>2, <3>3, <3>5 DEF BufferInv
  <2>4. CASE \E e \in todo[t] : ReadState(t, e)
    <3>1. UNCHANGED <<pc, work, seeds, wlog, wucs>>
      BY <2>4 DEF ReadState
    <3> QED BY <3>1, BufferFrame DEF Locked, Own, CardsOf
  <2>5. CASE GradeTaken(t)
    <3>1. /\ held[t] # Nothing /\ UNCHANGED <<wlog, wucs>>
          /\ \E e, status : Finish(t, e, status)
      BY <2>5 DEF GradeTaken
    <3>2. /\ Locked(t)' /\ UNCHANGED <<work, seeds>>
          /\ \A u \in Transactions \ {t} : pc'[u] = pc[u]
      BY <2>1, <3>1, FinishStaysLocked
    <3> QED BY <3>1, <3>2, BufferFrame DEF Locked, Own, CardsOf
  <2>6. CASE GradeInOrder(t) \/ GradeOutOfOrder(t)
    <3>1. \E c, rows, row : Writes(t, c, rows, row)
      BY <2>6, GradeWrites
    <3> QED BY <2>1, <3>1, WriteKeepsBuffers
  <2> QED BY <1>5, <2>2, <2>3, <2>4, <2>5, <2>6 DEF GradeStep
<1>6. ASSUME NEW t \in Imports, ImportStep(t) PROVE BufferInv'
  <2>1. ASSUME NEW c \in Cards, ImportReviews(t, c) PROVE BufferInv'
    <3>1. \E rows, row : Writes(t, c, rows, row)
      BY <2>1, ImportWrites
    <3> QED BY <3>1, WriteKeepsBuffers DEF Transactions
  <2> QED BY <1>6, <2>1, SeedKeepsBuffers DEF ImportStep
<1>7. CASE \/ \E c \in Touched, value \in BOOLEAN : SetSuspended(c, value)
           \/ \E deck \in ResetDecks : ResetProgress(deck)
           \/ \E c \in Revoked : RevokeStudy(c)
           \/ Tick \/ Quiet \/ UNCHANGED vars
  <2>1. UNCHANGED <<pc, work, seeds, wlog, wucs>>
    BY <1>7 DEF SetSuspended, ResetProgress, RevokeStudy, Tick, Quiet, vars, txVars
  <2> QED BY <2>1, BufferFrame DEF Locked, Own, CardsOf
<1> QED BY <1>1, <1>2, <1>3, <1>4, <1>5, <1>6, <1>7 DEF Next, Progress

(* A card that one transaction has locked is in nobody else's buffer. *)
LEMMA OneWriter ==
    ASSUME ProtoInv, BufferInv, NEW t \in Transactions, Locked(t),
           NEW c \in Own(t), NEW u \in Transactions, u # t
    PROVE  wucs[u][c] = Unwritten /\ \A r \in wlog[u] : r.card # c
<1>1. c \in Cards
  BY OwnCards DEF ProtoInv
<1>2. wucs[u][c] = Unwritten
  <2> SUFFICES ASSUME wucs[u][c] # Unwritten PROVE FALSE
    OBVIOUS
  <2>1. Locked(u) /\ c \in Own(u)
    BY <1>1 DEF BufferInv
  <2>2. CardExclusion
    BY LocksExclude DEF ProtoInv
  <2> QED BY <2>1, <2>2 DEF CardExclusion, Own
<1> QED BY <1>2 DEF BufferInv

-----------------------------------------------------------------------------
(* The keys of review_log. *)

LEMMA KeyFrame == KeyInv /\ UNCHANGED <<log, wlog>> => KeyInv'
  BY DEF KeyInv, Apart

(* The insert found no row of its id, and waited for whoever had one.      *)
LEMMA GradeKeepsKeys ==
    ASSUME ProtoInv, LogInv, NEW t \in Requests,
           GradeInOrder(t) \/ GradeOutOfOrder(t)
    PROVE  KeyInv'
<1> DEFINE e == held[t].event
<1>1. t \in Transactions /\ t \notin Imports
  BY InputAssumption DEF Transactions
<1>2. /\ held[t] # Nothing /\ IdFree(t, e.id) /\ ~ Taken(t, e)
      /\ \E prior : \E row : Writes(t, e.card, {LogRow(e, prior)}, row)
  BY GradeWrites DEF LogInv
<1>3. PICK prior, row : Writes(t, e.card, {LogRow(e, prior)}, row)
  BY <1>2
<1> DEFINE n == LogRow(e, prior)
<1>4. e.id \in EventIds
  BY <1>1, <1>2, HeldIsOwn DEF LogInv
<1>5. n.id = e.id /\ n.imported = FALSE /\ n.card = e.card
  BY DEF LogRow
<1>6. /\ \A s \in log \cup wlog[t] : s.id # n.id
      /\ \A u \in Transactions \ {t} : \A s \in wlog[u] : s.id # n.id
  BY <1>2, <1>5 DEF IdFree, Taken, IdsOf, LogSeen
<1>7. \A u \in Transactions : wlog'[u] = IF u = t THEN wlog[t] \cup {n} ELSE wlog[u]
  BY <1>3 DEF Writes, ProtoInv, TypeInv, TypeOK
<1>8. log' = log
  BY <1>3 DEF Writes
<1> HIDE DEF e, n
<1> QED BY <1>1, <1>4, <1>5, <1>6, <1>7, <1>8 DEF LogInv, KeyInv, Apart, SameKey

(* The ids of a package are of its own making, and ON CONFLICT skips the   *)
(* reviews an earlier import brought.                                      *)
LEMMA ImportKeepsKeys ==
    ASSUME ProtoInv, LogInv, NEW t \in Imports, NEW c \in Cards,
           ImportReviews(t, c)
    PROVE  KeyInv'
<1> DEFINE new == NewRows(t, c)
<1>1. t \in Transactions /\ t \notin Requests
  BY InputAssumption DEF Transactions
<1>2. \E row : Writes(t, c, new, row)
  BY ImportWrites DEF LogInv
<1>3. /\ \A u \in Transactions : wlog'[u] = IF u = t THEN wlog[t] \cup new ELSE wlog[u]
      /\ log' = log /\ Locked(t) /\ c \in Own(t)
  BY <1>2 DEF Writes, ProtoInv, TypeInv, TypeOK
<1>4. ASSUME NEW r \in new
      PROVE  /\ r.imported = TRUE /\ r.card = c /\ r.id \notin EventIds
             /\ \A s \in log \cup wlog[t] :
                   s.imported /\ s.card = c => s.id # r.id
             /\ \A s \in new : s.id = r.id => s = r
  <2>1. PICK e \in todo[t] : e.card = c /\ ~ Imported(t, e) /\ r = ImportRow(e, c)
    BY DEF NewRows
  <2>2. r.imported = TRUE /\ r.card = c /\ r.id = e.id
    BY <2>1 DEF ImportRow
  <2>3. PICK p \in Packages : work[t] \subseteq p.reviews
    BY <1>1, <2>1 DEF LogInv, WorkInv
  <2>4. todo[t] \subseteq p.reviews
    BY <1>1, <2>3 DEF LogInv, WorkInv
  <2>5. r.id \notin EventIds
    BY <2>1, <2>2, <2>4, InputAssumption
  <2>6. \A s \in log \cup wlog[t] : s.imported /\ s.card = c => s.id # r.id
    BY <2>1, <2>2 DEF Imported, LogSeen
  <2>7. ASSUME NEW s \in new, s.id = r.id PROVE s = r
    <3>1. PICK f \in todo[t] : f.card = c /\ s = ImportRow(f, c)
      BY DEF NewRows
    <3>2. f.id = e.id
      BY <2>2, <2>7, <3>1 DEF ImportRow
    <3>3. f = e
      BY <2>4, <3>2, InputAssumption
    <3> QED BY <2>1, <3>1, <3>3
  <2> QED BY <2>2, <2>5, <2>6, <2>7
<1>5. \A u \in Transactions \ {t} : \A s \in wlog[u] : s.card # c
  BY <1>1, <1>3, OneWriter DEF LogInv
<1> HIDE DEF new
<1>6. \A u \in Transactions : \A r \in wlog'[u] : /\ r.imported <=> r.id \notin EventIds
                                                  /\ r.imported <=> u \in Imports
  BY <1>3, <1>4 DEF LogInv, KeyInv
<1>7. \A u \in Transactions : Apart(wlog'[u], log)
  BY <1>3, <1>4 DEF LogInv, KeyInv, Apart, SameKey
<1>8. \A u \in Transactions : \A v \in Transactions \ {u} : Apart(wlog'[u], wlog'[v])
  <2> SUFFICES ASSUME NEW u \in Transactions, NEW v \in Transactions, u # v,
                      NEW r \in wlog'[u], NEW s \in wlog'[v], SameKey(r, s)
               PROVE  FALSE
    BY DEF Apart
  <2>1. CASE r \in wlog[u] /\ s \in wlog[v]
    BY <2>1 DEF LogInv, KeyInv, Apart
  <2>2. CASE u = t /\ r \in new
    <3>1. s \in wlog[v] /\ s.card # c
      BY <1>3, <1>5, <2>2
    <3>2. r.imported = TRUE /\ r.card = c
      BY <1>4, <2>2
    <3> QED BY <3>1, <3>2 DEF SameKey
  <2>3. CASE v = t /\ s \in new
    <3>1. r \in wlog[u] /\ r.card # c
      BY <1>3, <1>5, <2>3
    <3>2. s.card = c /\ s.id \notin EventIds
      BY <1>4, <2>3
    <3>3. r.imported <=> r.id \notin EventIds
      BY <3>1 DEF LogInv, KeyInv
    <3> QED BY <3>1, <3>2, <3>3 DEF SameKey
  <2> QED BY <1>3, <2>1, <2>2, <2>3
<1>9. \A u \in Transactions : \A r, s \in wlog'[u] : SameKey(r, s) => r = s
  <2> SUFFICES ASSUME NEW u \in Transactions, NEW r \in wlog'[u], NEW s \in wlog'[u],
                      SameKey(r, s)
               PROVE  r = s
    OBVIOUS
  <2>1. CASE r \in wlog[u] /\ s \in wlog[u]
    BY <2>1 DEF LogInv, KeyInv
  <2>2. ASSUME NEW a \in new, NEW b \in wlog[t] \cup new, u = t, SameKey(a, b)
        PROVE  a = b
    <3>1. a.imported = TRUE /\ a.card = c /\ a.id \notin EventIds
      BY <1>4
    <3>2. b.imported <=> b.id \notin EventIds
      BY <1>4, <2>2 DEF LogInv, KeyInv
    <3>3. b.imported /\ b.card = c /\ b.id = a.id
      BY <2>2, <3>1, <3>2 DEF SameKey
    <3>4. b \in new
      BY <1>4, <2>2, <3>3
    <3> QED BY <1>4, <3>3, <3>4
  <2>3. ASSUME s \in new, u = t, r \in wlog[t] \cup new PROVE SameKey(s, r)
    <3>1. s.id \notin EventIds /\ r.id = s.id
      BY <1>4, <2>3 DEF SameKey
    <3>2. r.imported <=> r.id \notin EventIds
      BY <1>4, <2>3 DEF LogInv, KeyInv
    <3> QED BY <3>1, <3>2 DEF SameKey
  <2> QED BY <1>3, <2>1, <2>2, <2>3
<1>10. KeyInv
  BY DEF LogInv
<1> QED BY <1>3, <1>6, <1>7, <1>8, <1>9, <1>10 DEF KeyInv

LEMMA CommitKeepsKeys ==
    ASSUME ProtoInv, KeyInv, NEW t \in Transactions, Commit(t)
    PROVE  KeyInv'
<1>1. /\ log' = log \cup wlog[t]
      /\ \A u \in Transactions : wlog'[u] = IF u = t THEN {} ELSE wlog[u]
  BY DEF Commit, LogSeen, Release, ProtoInv, TypeInv, TypeOK
<1>2. \A r \in log' : r.imported <=> r.id \notin EventIds
  BY <1>1 DEF KeyInv
<1>3. \A u \in Transactions : Apart(wlog'[u], log')
  BY <1>1 DEF KeyInv, Apart
<1>4. \A u \in Transactions : \A v \in Transactions \ {u} : Apart(wlog'[u], wlog'[v])
  BY <1>1 DEF KeyInv, Apart
<1>5. ASSUME NEW r \in log', NEW s \in log', SameKey(r, s) PROVE r = s
  <2>1. SameKey(s, r)
    BY <1>2, <1>5 DEF SameKey
  <2> QED BY <1>1, <1>5, <2>1 DEF KeyInv, Apart
<1> QED BY <1>1, <1>2, <1>3, <1>4, <1>5 DEF KeyInv

LEMMA KeyStep == ProtoInv /\ LogInv /\ [Next]_vars => KeyInv'
<1> SUFFICES ASSUME ProtoInv, LogInv, [Next]_vars PROVE KeyInv'
  OBVIOUS
<1>1. ASSUME UNCHANGED <<log, wlog>> PROVE KeyInv'
  BY <1>1, KeyFrame DEF LogInv
<1>2. ASSUME NEW t \in Transactions, Abort(t) PROVE KeyInv'
  <2>1. /\ log' = log
        /\ \A u \in Transactions : wlog'[u] = IF u = t THEN {} ELSE wlog[u]
    BY <1>2 DEF Abort, Release, tables, ProtoInv, TypeInv, TypeOK
  <2> QED BY <2>1 DEF LogInv, KeyInv, Apart
<1>3. ASSUME NEW t \in Transactions, Commit(t) PROVE KeyInv'
  BY <1>3, CommitKeepsKeys DEF LogInv
<1>4. ASSUME NEW t \in Requests, GradeStep(t) PROVE KeyInv'
  <2>1. CASE Authorise(t) \/ FilterExisting(t) \/ GradeTaken(t)
             \/ \E e \in todo[t] : ReadState(t, e)
    BY <1>1, <2>1 DEF Authorise, FilterExisting, GradeTaken, Finish, ReadState, tables
  <2> QED BY <1>4, <2>1, GradeKeepsKeys DEF GradeStep
<1>5. ASSUME NEW t \in Imports, ImportStep(t) PROVE KeyInv'
  <2>1. CASE SeedCardStates(t)
    BY <1>1, <2>1 DEF SeedCardStates, tables
  <2> QED BY <1>5, <2>1, ImportKeepsKeys DEF ImportStep
<1>6. CASE \/ \E t \in Requests : Post(t)
           \/ \E t \in Imports : Import(t)
           \/ \E t \in Transactions, k \in Keys : AcquireLock(t, k)
           \/ \E c \in Touched, value \in BOOLEAN : SetSuspended(c, value)
           \/ \E deck \in ResetDecks : ResetProgress(deck)
           \/ \E c \in Revoked : RevokeStudy(c)
           \/ Tick \/ Quiet \/ UNCHANGED vars
  BY <1>1, <1>6 DEF Post, Import, AcquireLock, SetSuspended, ResetProgress,
                    RevokeStudy, Tick, Quiet, vars, txVars, tables
<1> QED BY <1>2, <1>3, <1>4, <1>5, <1>6 DEF Next, Progress

-----------------------------------------------------------------------------
(* Answers. *)

Early == {"idle", "authorise", "lock", "dedup"}

LEMMA ResultFrame ==
    ASSUME ResultInv, UNCHANGED <<log, results>>,
           \A t \in Requests :
              /\ pc'[t] \in Early => pc[t] \in Early
              /\ pc'[t] \in {"grade", "commit"} =>
                    /\ pc[t] \in Early \cup {"grade", "commit"}
                    /\ wlog'[t] = wlog[t]
              /\ pc'[t] = "done" => pc[t] = "done"
    PROVE  ResultInv'
<1>1. ASSUME NEW t \in Requests, NEW id \in EventIds
      PROVE  /\ pc'[t] \in Early => results'[t][id] \notin {"applied", "duplicate"}
             /\ pc'[t] \in {"grade", "commit"} =>
                   /\ results'[t][id] = "applied" => id \in IdsOf(wlog'[t])
                   /\ results'[t][id] = "duplicate" => id \in IdsOf(LogSeen(t)')
  BY DEF ResultInv, Early, LogSeen
<1> QED BY <1>1 DEF ResultInv, AckedIsLogged, Early, LogSeen

LEMMA AuthoriseKeepsResults ==
    ASSUME ProtoInv, ResultInv, NEW t \in Requests, Authorise(t)
    PROVE  ResultInv'
<1>1. /\ pc[t] = "authorise" /\ UNCHANGED <<log, wlog>>
      /\ \E to \in {"commit", "lock"} : pc' = [pc EXCEPT ![t] = to]
      /\ \E answer : /\ results' = [results EXCEPT ![t] = answer]
                     /\ \A id \in EventIds :
                           answer[id] \in {"forbidden", "rejected", "none"}
  <2> DEFINE live    == {e \in work[t] : Believable(e, now)}
             Answer(id) ==
               IF \E e \in live : e.id = id /\ e.card \notin studyable
               THEN "forbidden"
               ELSE IF id \in IdsOf(work[t] \ live) THEN "rejected" ELSE "none"
             answer == [id \in EventIds |-> Answer(id)]
  <2>1. results' = [results EXCEPT ![t] = answer]
    BY DEF Authorise
  <2>2. \A id \in EventIds : answer[id] \in {"forbidden", "rejected", "none"}
    OBVIOUS
  <2>3. /\ pc[t] = "authorise" /\ UNCHANGED <<log, wlog>>
        /\ \E to \in {"commit", "lock"} : pc' = [pc EXCEPT ![t] = to]
    BY DEF Authorise, tables
  <2> HIDE DEF answer
  <2> QED BY <2>1, <2>2, <2>3
<1>2. t \in Transactions /\ \A u \in Requests : u \in Transactions
  BY DEF Transactions
<1>3. \A u \in Requests \ {t} : pc'[u] = pc[u] /\ results'[u] = results[u]
  BY <1>1, <1>2 DEF ProtoInv, TypeInv, TypeOK
<1>4. pc'[t] \in {"commit", "lock"}
      /\ \A id \in EventIds : results'[t][id] \notin {"applied", "duplicate"}
  BY <1>1, <1>2 DEF ProtoInv, TypeInv, TypeOK
<1> QED BY <1>1, <1>3, <1>4 DEF ResultInv, AckedIsLogged, LogSeen

(* An id already logged is answered without being graded. *)
LEMMA FilterKeepsResults ==
    ASSUME ProtoInv, ResultInv, NEW t \in Requests, FilterExisting(t)
    PROVE  ResultInv'
<1> DEFINE fresh == {e \in work[t] : e.id \notin IdsOf(log)}
<1>1. /\ pc[t] = "dedup" /\ UNCHANGED <<log, wlog>>
      /\ \E to \in {"commit", "grade"} : pc' = [pc EXCEPT ![t] = to]
      /\ results' = [results EXCEPT ![t] =
                       [id \in EventIds |-> IF id \in IdsOf(work[t] \ fresh)
                                            THEN "duplicate" ELSE results[t][id]]]
  BY DEF FilterExisting, tables, ProtoInv, TypeInv, TypeOK, Transactions
<1>2. t \in Transactions /\ \A u \in Requests : u \in Transactions
  BY DEF Transactions
<1>3. IdsOf(work[t] \ fresh) \subseteq IdsOf(log)
  BY DEF IdsOf
<1>4. \A u \in Requests \ {t} : pc'[u] = pc[u] /\ results'[u] = results[u]
  BY <1>1, <1>2 DEF ProtoInv, TypeInv, TypeOK
<1> HIDE DEF fresh
<1>5. \A id \in EventIds :
         results'[t][id] = IF id \in IdsOf(work[t] \ fresh)
                           THEN "duplicate" ELSE results[t][id]
  BY <1>1, <1>2 DEF ProtoInv, TypeInv, TypeOK
<1>6. \A id \in EventIds : /\ results'[t][id] # "applied"
                           /\ results'[t][id] = "duplicate" => id \in IdsOf(log)
  <2> SUFFICES ASSUME NEW id \in EventIds
               PROVE  /\ results'[t][id] # "applied"
                      /\ results'[t][id] = "duplicate" => id \in IdsOf(log)
    OBVIOUS
  <2>1. results[t][id] \notin {"applied", "duplicate"}
    BY <1>1 DEF ResultInv
  <2>2. CASE id \in IdsOf(work[t] \ fresh)
    BY <1>3, <1>5, <2>2
  <2>3. CASE id \notin IdsOf(work[t] \ fresh)
    BY <1>5, <2>1, <2>3
  <2> QED BY <2>2, <2>3
<1>7. pc'[t] \in {"commit", "grade"}
  BY <1>1, <1>2 DEF ProtoInv, TypeInv, TypeOK
<1>8. IdsOf(log) \subseteq IdsOf(LogSeen(t)')
  BY <1>1 DEF IdsOf, LogSeen
<1>9. wlog' = wlog /\ log' = log /\ \A u \in Requests : LogSeen(u)' = LogSeen(u)
  BY <1>1 DEF LogSeen
<1>10. AckedIsLogged'
  BY <1>4, <1>7, <1>9 DEF ResultInv, AckedIsLogged
<1> QED BY <1>4, <1>6, <1>7, <1>8, <1>9, <1>10 DEF ResultInv

(* The answer to one graded event is backed by the row it found or wrote.  *)
LEMMA FinishKeepsResults ==
    ASSUME ProtoInv, ResultInv, NEW t \in Requests, pc[t] = "grade",
           NEW e, NEW status \in {"applied", "duplicate"}, Finish(t, e, status),
           log' = log,
           \A u \in Transactions : wlog[u] \subseteq wlog'[u],
           \A u \in Transactions \ {t} : wlog'[u] = wlog[u],
           status = "applied" => e.id \in IdsOf(wlog'[t]),
           e.id \in IdsOf(LogSeen(t)')
    PROVE  ResultInv'
<1>1. t \in Transactions /\ \A u \in Requests : u \in Transactions
  BY DEF Transactions
<1>2. \A u \in Requests \ {t} : pc'[u] = pc[u] /\ results'[u] = results[u]
  BY <1>1 DEF Finish, ProtoInv, TypeInv, TypeOK
<1>3. pc'[t] \in {"commit", "grade"}
  BY <1>1 DEF Finish, ProtoInv, TypeInv, TypeOK
<1>4. \A id \in EventIds : results'[t][id] = IF id = e.id THEN status ELSE results[t][id]
  BY <1>1 DEF Finish, ProtoInv, TypeInv, TypeOK
<1>5. /\ IdsOf(wlog[t]) \subseteq IdsOf(wlog'[t])
      /\ IdsOf(LogSeen(t)) \subseteq IdsOf(LogSeen(t)')
  BY <1>1 DEF IdsOf, LogSeen
<1>6. \A id \in EventIds :
         /\ results'[t][id] = "applied" => id \in IdsOf(wlog'[t])
         /\ results'[t][id] = "duplicate" => id \in IdsOf(LogSeen(t)')
  BY <1>4, <1>5 DEF ResultInv
<1>7. \A u \in Requests \ {t} : wlog'[u] = wlog[u] /\ LogSeen(u)' = LogSeen(u)
  BY <1>1 DEF LogSeen
<1> QED BY <1>1, <1>2, <1>3, <1>6, <1>7 DEF ResultInv, AckedIsLogged

LEMMA GradeKeepsResults ==
    ASSUME ProtoInv, LogInv, NEW t \in Requests,
           GradeTaken(t) \/ GradeInOrder(t) \/ GradeOutOfOrder(t)
    PROVE  ResultInv'
<1> DEFINE e == held[t].event
<1>1. t \in Transactions /\ held[t] # Nothing /\ pc[t] = "grade"
  BY DEF Transactions, GradeTaken, GradeInOrder, GradeOutOfOrder, ProtoInv, LockInv
<1>2. CASE GradeTaken(t)
  <2>1. /\ Finish(t, e, "duplicate") /\ e.id \in IdsOf(LogSeen(t))
        /\ UNCHANGED <<log, wlog>>
    BY <1>2 DEF GradeTaken, Taken, Finish, tables
  <2> HIDE DEF e
  <2>2. e.id \in IdsOf(LogSeen(t)')
    BY <2>1 DEF LogSeen
  <2> QED BY <1>1, <2>1, <2>2, FinishKeepsResults DEF LogInv
<1>3. CASE GradeInOrder(t) \/ GradeOutOfOrder(t)
  <2>1. Finish(t, e, "applied")
        /\ \E prior : \E row : Writes(t, e.card, {LogRow(e, prior)}, row)
    BY <1>3, GradeWrites DEF LogInv
  <2>2. PICK prior, row : Writes(t, e.card, {LogRow(e, prior)}, row)
    BY <2>1
  <2> DEFINE n == LogRow(e, prior)
  <2>3. n.id = e.id
    BY DEF LogRow
  <2> HIDE DEF e, n
  <2>4. /\ log' = log
        /\ \A u \in Transactions : wlog'[u] = IF u = t THEN wlog[t] \cup {n} ELSE wlog[u]
    BY <2>2 DEF Writes, ProtoInv, TypeInv, TypeOK, n
  <2>5. e.id \in IdsOf(wlog'[t]) /\ e.id \in IdsOf(LogSeen(t)')
    BY <1>1, <2>3, <2>4 DEF IdsOf, LogSeen
  <2> QED BY <1>1, <2>1, <2>4, <2>5, FinishKeepsResults DEF LogInv
<1> QED BY <1>2, <1>3

(* What a commit acknowledges lands with it; and nobody else's ids do.     *)
LEMMA CommitKeepsResults ==
    ASSUME ProtoInv, LogInv, NEW t \in Transactions, Commit(t)
    PROVE  ResultInv'
<1>1. /\ pc[t] = "commit" /\ log' = log \cup wlog[t] /\ results' = results
      /\ pc' = [pc EXCEPT ![t] = "done"]
      /\ \A u \in Transactions \ {t} : wlog'[u] = wlog[u]
  BY DEF Commit, LogSeen, Release
<1>2. \A u \in Requests : u \in Transactions
  BY DEF Transactions
<1>3. \A u \in Transactions : pc'[u] = IF u = t THEN "done" ELSE pc[u]
  BY <1>1 DEF ProtoInv, TypeInv, TypeOK
<1>4. IdsOf(log) \subseteq IdsOf(log') /\ IdsOf(LogSeen(t)) \subseteq IdsOf(log')
  BY <1>1 DEF IdsOf, LogSeen
<1>5. \A u \in Requests \ {t} : IdsOf(LogSeen(u)) \subseteq IdsOf(LogSeen(u)')
  BY <1>1, <1>2 DEF IdsOf, LogSeen
<1>6. AckedIsLogged'
  <2> SUFFICES ASSUME NEW u \in Requests, NEW id \in EventIds, pc'[u] = "done",
                      results'[u][id] \in {"applied", "duplicate"}
               PROVE  id \in IdsOf(log')
    BY DEF AckedIsLogged
  <2>1. CASE u = t
    <3>1. IdsOf(wlog[t]) \subseteq IdsOf(LogSeen(t))
      BY DEF IdsOf, LogSeen
    <3> QED BY <1>1, <1>4, <2>1, <3>1 DEF LogInv, ResultInv
  <2>2. CASE u # t
    BY <1>1, <1>2, <1>3, <1>4, <2>2 DEF LogInv, ResultInv, AckedIsLogged
  <2> QED BY <2>1, <2>2
<1>7. ASSUME NEW u \in Requests, NEW id \in EventIds, t \in Requests, u # t,
             pc[u] = "done", results[u][id] = "applied"
      PROVE  results[t][id] # "applied"
  <2> SUFFICES ASSUME results[t][id] = "applied" PROVE FALSE
    OBVIOUS
  <2>1. id \in IdsOf(log) /\ id \in IdsOf(wlog[t])
    BY <1>1, <1>7 DEF LogInv, ResultInv, AckedIsLogged
  <2>2. PICK r \in wlog[t], s \in log : r.id = id /\ s.id = id
    BY <2>1 DEF IdsOf
  <2>3. ~ r.imported /\ ~ SameKey(r, s)
    BY <1>7, <2>2 DEF LogInv, KeyInv, Apart
  <2> QED BY <2>2, <2>3 DEF SameKey
<1>8. ASSUME NEW u \in Requests, NEW v \in Requests, NEW id \in EventIds,
             u # v, pc'[u] = "done", pc'[v] = "done", results'[u][id] = "applied"
      PROVE  results'[v][id] # "applied"
  <2>1. CASE u = t
    <3>1. pc[v] = "done"
      BY <1>2, <1>3, <1>8, <2>1
    <3> QED BY <1>1, <1>7, <1>8, <2>1, <3>1
  <2>2. CASE v = t
    <3>1. pc[u] = "done"
      BY <1>2, <1>3, <1>8, <2>2
    <3> QED BY <1>1, <1>7, <1>8, <2>2, <3>1
  <2>3. CASE u # t /\ v # t
    BY <1>1, <1>2, <1>3, <1>8, <2>3 DEF LogInv, ResultInv
  <2> QED BY <2>1, <2>2, <2>3
<1>9. ASSUME NEW u \in Requests, NEW id \in EventIds
      PROVE  /\ pc'[u] \in {"idle", "authorise", "lock", "dedup"} =>
                   results'[u][id] \notin {"applied", "duplicate"}
             /\ pc'[u] \in {"grade", "commit"} =>
                   /\ results'[u][id] = "applied" => id \in IdsOf(wlog'[u])
                   /\ results'[u][id] = "duplicate" => id \in IdsOf(LogSeen(u)')
  <2>1. CASE u = t
    BY <1>2, <1>3, <2>1
  <2>2. CASE u # t
    <3>1. pc'[u] = pc[u] /\ results'[u] = results[u] /\ wlog'[u] = wlog[u]
      BY <1>1, <1>2, <1>3, <2>2
    <3>2. IdsOf(LogSeen(u)) \subseteq IdsOf(LogSeen(u)')
      BY <1>5, <2>2
    <3> QED BY <3>1, <3>2 DEF LogInv, ResultInv
  <2> QED BY <2>1, <2>2
<1> QED BY <1>6, <1>8, <1>9 DEF ResultInv

LEMMA ResultStep == ProtoInv /\ LogInv /\ [Next]_vars => ResultInv'
<1> SUFFICES ASSUME ProtoInv, LogInv, [Next]_vars PROVE ResultInv'
  OBVIOUS
<1> USE DEF Early
<1>1. \A t \in Requests : t \in Transactions /\ t \notin Imports
  BY InputAssumption DEF Transactions
<1>2. ASSUME NEW t \in Requests, Post(t) PROVE ResultInv'
  <2>1. UNCHANGED <<log, results, wlog>>
        /\ \A u \in Requests : pc'[u] = IF u = t THEN "authorise" ELSE pc[u]
    BY <1>1, <1>2 DEF Post, tables, ProtoInv, TypeInv, TypeOK
  <2>2. pc[t] = "idle"
    BY <1>2 DEF Post
  <2> QED BY <2>1, <2>2, ResultFrame DEF LogInv
<1>3. ASSUME NEW t \in Imports, Import(t) \/ ImportStep(t) PROVE ResultInv'
  <2>1. UNCHANGED <<log, results>>
        /\ \A u \in Requests : pc'[u] = pc[u] /\ wlog'[u] = wlog[u]
    <3>1. CASE Import(t)
      BY <1>1, <3>1 DEF Import, tables, ProtoInv, TypeInv, TypeOK
    <3>2. CASE \E c \in Cards : ImportReviews(t, c)
      BY <1>1, <3>2 DEF ImportReviews, tables, ProtoInv, TypeInv, TypeOK
    <3>3. CASE SeedCardStates(t)
      BY <1>1, <3>3 DEF SeedCardStates, tables, ProtoInv, TypeInv, TypeOK
    <3> QED BY <1>3, <3>1, <3>2, <3>3 DEF ImportStep
  <2> QED BY <2>1, ResultFrame DEF LogInv
<1>4. ASSUME NEW t \in Transactions, Abort(t) PROVE ResultInv'
  <2>1. /\ UNCHANGED <<log, results>>
        /\ \A u \in Transactions : pc'[u] = IF u = t THEN "failed" ELSE pc[u]
        /\ \A u \in Transactions \ {t} : wlog'[u] = wlog[u]
    BY <1>4 DEF Abort, Release, FailureAnswer, tables, ProtoInv, TypeInv, TypeOK
  <2> QED BY <1>1, <2>1, ResultFrame DEF LogInv
<1>5. ASSUME NEW t \in Transactions, Commit(t) PROVE ResultInv'
  BY <1>5, CommitKeepsResults
<1>6. ASSUME NEW t \in Transactions, NEW k \in Keys, AcquireLock(t, k)
      PROVE  ResultInv'
  <2>1. /\ UNCHANGED <<log, results, wlog>> /\ pc[t] = "lock"
        /\ pc'[t] \in {"lock", "dedup", "import"}
        /\ \A u \in Transactions \ {t} : pc'[u] = pc[u]
    BY <1>6 DEF AcquireLock, tables, ProtoInv, TypeInv, TypeOK
  <2> QED BY <1>1, <2>1, ResultFrame DEF LogInv
<1>7. ASSUME NEW t \in Requests, GradeStep(t) PROVE ResultInv'
  <2>1. CASE \E e \in todo[t] : ReadState(t, e)
    <3>1. UNCHANGED <<log, results, wlog, pc>>
      BY <2>1 DEF ReadState, tables
    <3> QED BY <3>1, ResultFrame DEF LogInv
  <2> QED BY <1>7, <2>1, AuthoriseKeepsResults, FilterKeepsResults,
             GradeKeepsResults DEF GradeStep, LogInv
<1>8. CASE \/ \E c \in Touched, value \in BOOLEAN : SetSuspended(c, value)
           \/ \E deck \in ResetDecks : ResetProgress(deck)
           \/ \E c \in Revoked : RevokeStudy(c)
           \/ Tick \/ Quiet \/ UNCHANGED vars
  <2>1. UNCHANGED <<pc, log, wlog, results>>
    BY <1>8 DEF SetSuspended, ResetProgress, RevokeStudy, Tick, Quiet, vars,
                txVars, tables
  <2> QED BY <2>1, ResultFrame DEF LogInv
<1> QED BY <1>2, <1>3, <1>4, <1>5, <1>6, <1>7, <1>8 DEF Next, Progress

LEMMA LogInit == Init => LogInv
<1> SUFFICES ASSUME Init PROVE LogInv
  OBVIOUS
<1>1. BufferInv /\ WorkInv /\ KeyInv
  BY DEF Init, BufferInv, WorkInv, KeyInv, Apart, IdsOf, Transactions
<1>2. ResultInv
  BY DEF Init, ResultInv, AckedIsLogged, Transactions
<1> QED BY <1>1, <1>2 DEF LogInv

LEMMA LogStep == ProtoInv /\ LogInv /\ [Next]_vars => LogInv'
  BY WorkStep, BufferStep, KeyStep, ResultStep DEF LogInv

(* GradeBatch's idempotency: however often a batch is posted, in parts     *)
(* that fail, are retried or run side by side, and whatever is imported    *)
(* meanwhile, what was acknowledged is in review_log for good and nothing  *)
(* lands twice.                                                            *)
THEOREM RetriesAreHarmless == Spec => []BatchesLandOnce
<1>1. Init => ProtoInv /\ LogInv
  BY ProtoInit, LogInit
<1>2. ProtoInv /\ LogInv /\ [Next]_vars => (ProtoInv /\ LogInv)'
  BY ProtoStep, LogStep
<1>3. LogInv => BatchesLandOnce
  BY DEF LogInv, ResultInv, KeyInv, SameKey, BatchesLandOnce, AppliedOnce
<1> QED BY <1>1, <1>2, <1>3, PTL DEF Spec

-----------------------------------------------------------------------------
(* What user_card_state makes of review_log, for any cards, posts,         *)
(* packages, resets and any number of overlapping transactions.            *)
(*                                                                         *)
(* The argument is per card.  Whoever writes a card holds its lock, so of  *)
(* the many views of a card (the committed one and one per transaction) at *)
(* most one differs from the committed view: what is true of each view is  *)
(* kept by every write, and a commit only makes one view everybody's.      *)

LastOf(row) == IF row = NoRow THEN Never ELSE row.last
Known(row) == Reviewed(StepsOf(row))

(* A row is the replay of the reviews it knows; of a card no package seeds *)
(* they are in the log.                                                    *)
Sound(row, entries, c) ==
    /\ IsFiniteSet(Known(row))
    /\ Known(row) # {} => row.last = LastReviewedAt(Known(row))
    /\ TieFree(Known(row)) => StepsOf(row) = Replay(Known(row))
    /\ \A e \in Known(row) : e \in entries \/ (~ Unseeded(c) /\ e.id \notin EventIds)

(* A row agrees with the whole log of its card. *)
Fits(row, entries) ==
    /\ LastOf(row) = IF entries = {} THEN Never ELSE LastReviewedAt(entries)
    /\ TieFree(entries) => StepsOf(row) = Replay(entries)

Whole(c) == Unseeded(c) /\ forgotten[c] = {}

Good(row, entries, c) == /\ Sound(row, entries, c)
                         /\ Whole(c) => Fits(row, entries)

RowInv ==
    \A c \in Cards :
        /\ Good(ucs[c], LogOf(log, c), c)
        /\ \A t \in Transactions : wucs[t][c] # Unwritten =>
                Good(wucs[t][c], Seen(t, c), c)

(* The row that was read is still the row, as far as scheduling goes,      *)
(* unless a reset has intervened: then it knows more.                      *)
HeldRight(t) ==
    LET row == held[t].row  c == held[t].event.card
    IN /\ Sound(row, Seen(t, c), c)
       /\ Known(RowSeen(t, c)) \subseteq Known(row)
       /\ Whole(c) => /\ StepsOf(row) = StepsOf(RowSeen(t, c))
                      /\ LastOf(row) = LastOf(RowSeen(t, c))
       /\ \A f \in todo[t] : ~ Before(f, held[t].event)

HeldInv == \A t \in Transactions : held[t] # Nothing => HeldRight(t)

(* A buffered row knows what the committed one knows, and its settings are *)
(* the committed ones: nothing can change the row under a writer.          *)
Keeps(old, new, c) ==
    /\ Unseeded(c) => Known(old) \subseteq Known(new)
    /\ old # NoRow => new.suspended = old.suspended

KeepInv ==
    \A t \in Transactions, c \in Cards :
        wucs[t][c] # Unwritten => Keeps(ucs[c], wucs[t][c], c)

(* The prior of a buffered row is the replay of what sorts before it, and  *)
(* what is still to be graded does not.                                    *)
PriorRight(t, r) ==
    /\ Whole(r.card) /\ TieFree(Seen(t, r.card)) =>
          r.prior = PriorTo(Seen(t, r.card), Entry(r))
    /\ \A f \in todo[t] : ~ Before(f, r)

PriorInv ==
    /\ \A t \in Requests : \A r \in wlog[t] : PriorRight(t, r)
    /\ \A t \in Requests : pc[t] = "dedup" => wlog[t] = {}

StateInv == RowInv /\ HeldInv /\ KeepInv /\ PriorInv

Inv == ProtoInv /\ LogInv /\ StateInv
-----------------------------------------------------------------------------
(* Histories. *)

(* last_review of a log is the newest reviewed_at in it. *)
LEMMA LastIsNewest ==
    ASSUME NEW S, S \subseteq Entries, IsFiniteSet(S), S # {}
    PROVE  /\ LastReviewedAt(S) \in Int
           /\ \E m \in S : m.at = LastReviewedAt(S)
           /\ \A f \in S : f.at <= LastReviewedAt(S)
<1>1. PICK e \in S : IsLast(e, S)
  BY FiniteHasLast
<1>2. LastReviewedAt(S) = e.at
  BY <1>1, LastReviewedAtIs
<1>3. \A f \in S : f.at <= e.at
  BY <1>1 DEF IsLast, Before, Entries
<1> QED BY <1>2, <1>3 DEF Entries

LEMMA NewestIs ==
    ASSUME NEW S, S \subseteq Entries, IsFiniteSet(S), NEW e \in S,
           \A f \in S : f.at <= e.at
    PROVE  LastReviewedAt(S) = e.at
<1>1. PICK m \in S : m.at = LastReviewedAt(S)
  BY LastIsNewest
<1>2. e.at <= m.at /\ m.at <= e.at
  BY <1>1, LastIsNewest
<1> QED BY <1>1, <1>2 DEF Entries

(* One more review, none of the others newer. *)
LEMMA ExtendReplay ==
    ASSUME NEW S, S \subseteq Entries, IsFiniteSet(S), NEW e \in Entries,
           e \notin S, \A f \in S : f.at <= e.at
    PROVE  /\ LastReviewedAt(S \cup {e}) = e.at
           /\ TieFree(S \cup {e}) => /\ TieFree(S)
                                     /\ Schedule(Replay(S), e) = Replay(S \cup {e})
                                     /\ PriorTo(S \cup {e}, e) = Replay(S)
<1>1. LastReviewedAt(S \cup {e}) = e.at
  <2>1. IsFiniteSet(S \cup {e}) /\ S \cup {e} \subseteq Entries
    BY FS_AddElement
  <2>2. \A f \in S \cup {e} : f.at <= e.at
    BY DEF Entries
  <2> QED BY <2>1, <2>2, NewestIs
<1>2. ASSUME TieFree(S \cup {e})
      PROVE  /\ TieFree(S)
             /\ Schedule(Replay(S), e) = Replay(S \cup {e})
             /\ PriorTo(S \cup {e}, e) = Replay(S)
  <2>1. TieFree(S)
    BY <1>2 DEF TieFree
  <2>2. \A f \in S : Before(f, e)
    BY <1>2 DEF TieFree, Before, Entries
  <2>3. Schedule(Replay(S), e) = Replay(S \cup {e})
    BY <2>2, ScheduleExtendsReplay
  <2>4. Preceding(S \cup {e}, e) = S
    BY <2>2, BeforeIsStrictOrder DEF Preceding
  <2> QED BY <2>1, <2>3, <2>4 DEF PriorTo
<1> QED BY <1>1, <1>2

LEMMA KnownType ==
    ASSUME NEW row \in Rows \cup {NoRow}
    PROVE  Known(row) \subseteq Entries /\ (row = NoRow => Known(row) = {})
  BY DEF Known, Reviewed, StepsOf, Rows, Steps, NewCard

LEMMA LogOfParts ==
    ASSUME NEW A, NEW B, NEW c
    PROVE  /\ LogOf(A \cup B, c) = LogOf(A, c) \cup LogOf(B, c)
           /\ (\A r \in A : r.card # c) => LogOf(A, c) = {}
           /\ (\A r \in A : r.card = c) => LogOf(A, c) = {Entry(r) : r \in A}
<1>1. LogOf(A \cup B, c) = LogOf(A, c) \cup LogOf(B, c)
  BY DEF LogOf
<1>2. (\A r \in A : r.card # c) => LogOf(A, c) = {}
  BY DEF LogOf
<1>3. (\A r \in A : r.card = c) => LogOf(A, c) = {Entry(r) : r \in A}
  BY DEF LogOf
<1> QED BY <1>1, <1>2, <1>3

-----------------------------------------------------------------------------
(* Views. *)

(* Who has written nothing for a card sees what is committed. *)
LEMMA PlainView ==
    ASSUME BufferInv, NEW t \in Transactions, NEW c \in Cards,
           wucs[t][c] = Unwritten
    PROVE  /\ \A r \in wlog[t] : r.card # c
           /\ Seen(t, c) = LogOf(log, c)
           /\ RowSeen(t, c) = ucs[c]
<1>1. \A r \in wlog[t] : r.card # c
  BY DEF BufferInv
<1>2. LogOf(wlog[t], c) = {}
  BY <1>1, LogOfParts
<1>3. LogOf(log \cup wlog[t], c) = LogOf(log, c) \cup LogOf(wlog[t], c)
  BY LogOfParts
<1>4. Seen(t, c) = LogOf(log, c)
  BY <1>2, <1>3 DEF Seen, LogSeen
<1> QED BY <1>1, <1>4 DEF RowSeen

LEMMA ViewGood ==
    ASSUME BufferInv, RowInv, NEW t \in Transactions, NEW c \in Cards
    PROVE  Good(RowSeen(t, c), Seen(t, c), c)
<1>1. CASE wucs[t][c] = Unwritten
  BY <1>1, PlainView DEF RowInv
<1>2. CASE wucs[t][c] # Unwritten
  BY <1>2 DEF RowInv, RowSeen
<1> QED BY <1>1, <1>2

LEMMA ViewKeeps ==
    ASSUME ProtoInv, BufferInv, KeepInv, NEW t \in Transactions, NEW c \in Cards
    PROVE  /\ Unseeded(c) => Known(ucs[c]) \subseteq Known(RowSeen(t, c))
           /\ ucs[c] # NoRow => /\ RowSeen(t, c) # NoRow
                                /\ RowSeen(t, c).suspended = ucs[c].suspended
  BY DEF KeepInv, Keeps, RowSeen, BufferInv

(* A larger log takes nothing from what a row knows. *)
LEMMA SoundMore ==
    ASSUME NEW row, NEW S, NEW T, S \subseteq T, NEW c, Sound(row, S, c)
    PROVE  Sound(row, T, c)
  BY DEF Sound

(* A rebuild is right by construction: that is why it is done. *)
LEMMA RebuildGood ==
    ASSUME TypeInv, NEW t \in Transactions, NEW c \in Cards,
           NEW S, S \subseteq Entries, IsFiniteSet(S), S # {}
    PROVE  /\ Good(Rebuild(t, c, S), S, c)
           /\ Known(Rebuild(t, c, S)) = S
           /\ RowSeen(t, c) # NoRow =>
                 Rebuild(t, c, S).suspended = RowSeen(t, c).suspended
<1> DEFINE row == Rebuild(t, c, S)
<1>1. row \in Rows /\ row # NoRow
  BY RebuildType, SentinelAssumption
<1>2. RowSeen(t, c) \in Rows \cup {NoRow}
  BY RowSeenType DEF TypeInv
<1>3. row.steps = Replay(S) /\ row.last = LastReviewedAt(S)
      /\ (RowSeen(t, c) # NoRow => row.suspended = RowSeen(t, c).suspended)
  BY <1>2 DEF Rebuild, ReplayUpsert, Rows
<1> HIDE DEF row
<1>4. StepsOf(row) = Replay(S) /\ Known(row) = S
  BY <1>1, <1>3, ReviewedOfReplay DEF StepsOf, Known
<1>5. Sound(row, S, c)
  BY <1>3, <1>4 DEF Sound
<1>6. Fits(row, S)
  BY <1>1, <1>3, <1>4 DEF Fits, LastOf
<1> QED BY <1>3, <1>4, <1>5, <1>6 DEF Good, row

(* Scheduling forward from the row that was read. *)
LEMMA InOrderGood ==
    ASSUME Inv, NEW t \in Transactions, held[t] # Nothing,
           ~ OutOfOrder(held[t].row, held[t].event), ~ Taken(t, held[t].event)
    PROVE  LET c == held[t].event.card
           IN /\ Good(InOrderRow(t), Merged(t), c)
              /\ Known(RowSeen(t, c)) \subseteq Known(InOrderRow(t))
              /\ RowSeen(t, c) # NoRow =>
                    InOrderRow(t).suspended = RowSeen(t, c).suspended
              /\ Whole(c) /\ TieFree(Merged(t)) =>
                    StepsOf(held[t].row) = PriorTo(Merged(t), Entry(held[t].event))
<1> DEFINE c  == held[t].event.card
           e  == Entry(held[t].event)
           hr == held[t].row
           R  == RowSeen(t, c)
           S  == Seen(t, c)
           K  == Known(hr)
           new == Schedule(StepsOf(hr), e)
           row == InOrderRow(t)
<1>1. /\ c \in Cards /\ e \in Entries /\ hr \in Rows \cup {NoRow}
      /\ held[t].event.at = e.at /\ e.at \in Int /\ e.id \in EventIds
      /\ e.id = held[t].event.id
  BY HeldType, HeldIsOwn DEF Inv, ProtoInv, LogInv, Entry, Entries
<1>2. S \subseteq Entries /\ IsFiniteSet(S) /\ Merged(t) = S \cup {e}
  BY SeenType DEF Inv, ProtoInv, Merged
<1>3. /\ Sound(hr, S, c) /\ Known(R) \subseteq K
      /\ Whole(c) => StepsOf(hr) = StepsOf(R) /\ LastOf(hr) = LastOf(R)
  BY DEF Inv, StateInv, HeldInv, HeldRight
<1>4. R \in Rows \cup {NoRow} /\ Good(R, S, c)
  BY <1>1, RowSeenType, ViewGood DEF Inv, ProtoInv, TypeInv, LogInv, StateInv
<1>5. hr = NoRow \/ hr.last = Never \/ ~ (e.at < hr.last)
  BY <1>1 DEF OutOfOrder
<1>6. row = IF R = NoRow \/ R.last = Never \/ R.last < e.at
            THEN ReplayUpsert(R, new, e.at) ELSE R
  BY <1>1 DEF InOrderRow, GuardedUpsert
<1>7. e \notin S
  <2>1. \A f \in S : f.id \in IdsOf(LogSeen(t))
    BY DEF Seen, LogOf, Entry, IdsOf
  <2> QED BY <1>1, <2>1 DEF Taken
<1>8. K \subseteq Entries /\ IsFiniteSet(K) /\ (hr = NoRow => K = {})
  BY <1>1, <1>3, KnownType DEF Sound
<1>9. e \notin K
  BY <1>1, <1>3, <1>7 DEF Sound
<1>10. hr = NoRow \/ hr.last \in Int \cup {Never}
  BY <1>1 DEF Rows
<1>11. R = NoRow \/ R.last \in Int \cup {Never}
  BY <1>4 DEF Rows
<1> HIDE DEF c, e, hr, R, S, K, row
<1>12. \A f \in K : f.at <= e.at
  <2> SUFFICES ASSUME NEW f \in K PROVE f.at <= e.at
    OBVIOUS
  <2>1. hr.last = LastReviewedAt(K) /\ hr # NoRow
    BY <1>3, <1>8 DEF Sound, K
  <2>2. hr.last \in Int /\ f.at <= hr.last
    BY <1>8, <2>1, LastIsNewest
  <2>3. hr.last <= e.at
    BY <1>1, <1>5, <2>1, <2>2, SentinelAssumption
  <2>4. f.at \in Int
    BY <1>8 DEF Entries
  <2> QED BY <1>1, <2>2, <2>3, <2>4
<1>13. Reviewed(new) = K \cup {e}
  BY ReviewedOfSchedule DEF K, Known
<1>14. /\ LastReviewedAt(K \cup {e}) = e.at
       /\ TieFree(K \cup {e}) => new = Replay(K \cup {e})
  <2>1. TieFree(K) => StepsOf(hr) = Replay(K)
    BY <1>3 DEF Sound, K
  <2> QED BY <1>1, <1>8, <1>9, <1>12, <2>1, ExtendReplay
<1>15. ASSUME Whole(c)
       PROVE  /\ \A f \in S : f.at <= e.at
              /\ LastReviewedAt(Merged(t)) = e.at
              /\ TieFree(Merged(t)) =>
                    /\ new = Replay(Merged(t))
                    /\ StepsOf(hr) = PriorTo(Merged(t), e)
              /\ R # NoRow /\ R.last # Never /\ ~ (R.last < e.at) =>
                    R.last = e.at /\ ~ TieFree(Merged(t))
  <2>1. Fits(R, S) /\ LastOf(hr) = LastOf(R) /\ StepsOf(hr) = StepsOf(R)
    BY <1>3, <1>4, <1>15 DEF Good
  <2>2. ASSUME S # {}
        PROVE  LastReviewedAt(S) \in Int /\ LastReviewedAt(S) <= e.at
               /\ R # NoRow /\ R.last = LastReviewedAt(S)
    <3>1. LastOf(R) = LastReviewedAt(S) /\ LastReviewedAt(S) \in Int
      BY <1>2, <2>1, <2>2, LastIsNewest DEF Fits
    <3>2. LastReviewedAt(S) # Never
      BY <3>1, SentinelAssumption
    <3>3. hr # NoRow /\ hr.last = LastReviewedAt(S)
      BY <2>1, <3>1, <3>2 DEF LastOf
    <3>4. R # NoRow /\ R.last = LastReviewedAt(S)
      BY <3>1, <3>2 DEF LastOf
    <3> QED BY <1>1, <1>5, <3>1, <3>2, <3>3, <3>4
  <2>3. \A f \in S : f.at <= e.at
    <3> SUFFICES ASSUME NEW f \in S PROVE f.at <= e.at
      OBVIOUS
    <3>1. f.at <= LastReviewedAt(S) /\ f.at \in Int
      BY <1>2, LastIsNewest DEF Entries
    <3> QED BY <1>1, <2>2, <3>1
  <2>4. /\ LastReviewedAt(Merged(t)) = e.at
        /\ TieFree(Merged(t)) => /\ TieFree(S)
                                 /\ Schedule(Replay(S), e) = Replay(Merged(t))
                                 /\ PriorTo(Merged(t), e) = Replay(S)
    BY <1>1, <1>2, <1>7, <2>3, ExtendReplay
  <2>5. TieFree(S) => StepsOf(hr) = Replay(S)
    BY <2>1 DEF Fits
  <2>6. ASSUME R # NoRow, R.last # Never, ~ (R.last < e.at)
        PROVE  R.last = e.at /\ ~ TieFree(Merged(t))
    <3>1. S # {}
      BY <2>1, <2>6 DEF Fits, LastOf
    <3>2. R.last = LastReviewedAt(S) /\ LastReviewedAt(S) \in Int
          /\ LastReviewedAt(S) <= e.at
      BY <2>2, <3>1
    <3>3. R.last = e.at
      BY <1>1, <2>6, <3>2
    <3>4. PICK m \in S : m.at = LastReviewedAt(S)
      BY <1>2, <3>1, LastIsNewest
    <3> QED BY <1>2, <1>7, <3>2, <3>3, <3>4 DEF TieFree
  <2> QED BY <2>3, <2>4, <2>5, <2>6
<1>16. ASSUME R = NoRow \/ R.last = Never \/ R.last < e.at
       PROVE  /\ Good(row, Merged(t), c)
              /\ Known(R) \subseteq Known(row)
              /\ R # NoRow => row.suspended = R.suspended
  <2>1. row = ReplayUpsert(R, new, e.at)
    BY <1>6, <1>16
  <2>2. row \in Rows
    <3>1. new \in SUBSET Steps
      BY <1>1, StepsOfType, ScheduleType
    <3> QED BY <1>1, <1>4, <2>1, <3>1, UpsertType
  <2>3. row # NoRow /\ row.steps = new /\ row.last = e.at
        /\ (R # NoRow => row.suspended = R.suspended)
    BY <1>4, <2>1, <2>2, SentinelAssumption DEF ReplayUpsert, Rows
  <2>4. StepsOf(row) = new /\ Known(row) = K \cup {e} /\ LastOf(row) = e.at
    BY <1>13, <2>3 DEF StepsOf, Known, LastOf
  <2>5. IsFiniteSet(K \cup {e})
    BY <1>8, FS_AddElement
  <2>6. \A f \in K \cup {e} : f \in Merged(t) \/ (~ Unseeded(c) /\ f.id \notin EventIds)
    BY <1>2, <1>3 DEF Sound, K
  <2>7. Sound(row, Merged(t), c)
    BY <1>14, <2>3, <2>4, <2>5, <2>6 DEF Sound
  <2>8. Whole(c) => Fits(row, Merged(t))
    BY <1>2, <1>15, <2>4 DEF Fits
  <2> QED BY <1>3, <2>3, <2>4, <2>7, <2>8 DEF Good
<1>17. ASSUME ~ (R = NoRow \/ R.last = Never \/ R.last < e.at)
       PROVE  row = R /\ Good(R, Merged(t), c)
  <2>1. row = R
    BY <1>6, <1>17
  <2>2. Sound(R, Merged(t), c)
    BY <1>2, <1>4, SoundMore DEF Good
  <2>3. Whole(c) => Fits(R, Merged(t))
    BY <1>2, <1>15, <1>17 DEF Fits, LastOf
  <2> QED BY <2>1, <2>2, <2>3 DEF Good
<1> QED BY <1>15, <1>16, <1>17 DEF row, R, c, e, hr

-----------------------------------------------------------------------------
(* What each kind of step does to the views. *)

LEMMA WriteViews ==
    ASSUME ProtoInv, NEW t \in Transactions, NEW c, NEW rows, NEW row,
           Writes(t, c, rows, row)
    PROVE  /\ \A u \in Transactions, d \in Cards : u # t \/ d # c =>
                 /\ wucs'[u][d] = wucs[u][d]
                 /\ RowSeen(u, d)' = RowSeen(u, d)
                 /\ Seen(u, d)' = Seen(u, d)
           /\ wucs'[t][c] = row /\ RowSeen(t, c)' = row
           /\ Seen(t, c)' = Seen(t, c) \cup {Entry(r) : r \in rows}
           /\ wlog'[t] = wlog[t] \cup rows
           /\ \A u \in Transactions \ {t} : wlog'[u] = wlog[u]
           /\ UNCHANGED <<log, ucs, forgotten>>
<1>1. /\ c \in Cards /\ row \in Rows /\ \A r \in rows : r.card = c
      /\ UNCHANGED <<log, ucs, forgotten>>
  BY DEF Writes
<1>2. \A u \in Transactions, d \in Cards :
         wucs'[u][d] = IF u = t /\ d = c THEN row ELSE wucs[u][d]
  BY <1>1 DEF Writes, ProtoInv, TypeInv, TypeOK
<1>3. \A u \in Transactions : wlog'[u] = IF u = t THEN wlog[t] \cup rows ELSE wlog[u]
  BY DEF Writes, ProtoInv, TypeInv, TypeOK
<1>4. row # Unwritten
  BY <1>1, SentinelAssumption
<1>5. \A u \in Transactions, d \in Cards :
         RowSeen(u, d)' = IF u = t /\ d = c THEN row ELSE RowSeen(u, d)
  BY <1>1, <1>2, <1>4 DEF RowSeen
<1>6. ASSUME NEW u \in Transactions, NEW d \in Cards
      PROVE  Seen(u, d)' = IF u = t /\ d = c
                           THEN Seen(t, c) \cup {Entry(r) : r \in rows}
                           ELSE Seen(u, d)
  <2>1. CASE u # t
    BY <1>1, <1>3, <2>1 DEF Seen, LogSeen
  <2>2. CASE u = t
    <3>1. LogSeen(t)' = LogSeen(t) \cup rows
      BY <1>1, <1>3 DEF LogSeen
    <3>2. LogOf(LogSeen(t) \cup rows, d) = LogOf(LogSeen(t), d) \cup LogOf(rows, d)
      BY LogOfParts
    <3>3. Seen(u, d)' = Seen(t, d) \cup LogOf(rows, d)
      BY <2>2, <3>1, <3>2 DEF Seen
    <3>4. LogOf(rows, d) = IF d = c THEN {Entry(r) : r \in rows} ELSE {}
      BY <1>1, LogOfParts
    <3> QED BY <2>2, <3>3, <3>4
  <2> QED BY <2>1, <2>2
<1> QED BY <1>1, <1>2, <1>3, <1>5, <1>6

LEMMA CommitViews ==
    ASSUME ProtoInv, BufferInv, NEW t \in Transactions, Commit(t)
    PROVE  /\ log' = LogSeen(t) /\ UNCHANGED <<forgotten, held, todo>>
           /\ \A d \in Cards : /\ ucs'[d] = RowSeen(t, d)
                               /\ LogOf(log', d) = Seen(t, d)
                               /\ wucs'[t][d] = Unwritten
           /\ wlog'[t] = {} /\ held[t] = Nothing
           /\ \A u \in Transactions \ {t} :
                 /\ wucs'[u] = wucs[u] /\ wlog'[u] = wlog[u] /\ pc'[u] = pc[u]
                 /\ \A d \in Cards : Locked(u) /\ d \in Own(u) =>
                       /\ ucs'[d] = ucs[d]
                       /\ Seen(u, d)' = Seen(u, d)
                       /\ RowSeen(u, d)' = RowSeen(u, d)
<1>1. /\ log' = LogSeen(t) /\ ucs' = [c \in Cards |-> RowSeen(t, c)]
      /\ wlog' = [wlog EXCEPT ![t] = {}]
      /\ wucs' = [wucs EXCEPT ![t] = [c \in Cards |-> Unwritten]]
      /\ pc[t] = "commit" /\ pc' = [pc EXCEPT ![t] = "done"]
      /\ UNCHANGED <<forgotten, held, todo>>
  BY DEF Commit, Release
<1>2. /\ wlog'[t] = {} /\ \A d \in Cards : wucs'[t][d] = Unwritten
      /\ \A u \in Transactions \ {t} : /\ wucs'[u] = wucs[u] /\ wlog'[u] = wlog[u]
                                       /\ pc'[u] = pc[u]
  BY <1>1 DEF ProtoInv, TypeInv, TypeOK
<1>3. held[t] = Nothing
  BY <1>1 DEF ProtoInv, LockInv
<1>4. \A d \in Cards : ucs'[d] = RowSeen(t, d) /\ LogOf(log', d) = Seen(t, d)
  BY <1>1 DEF Seen
<1>5. ASSUME NEW u \in Transactions \ {t}, NEW d \in Cards, Locked(u), d \in Own(u)
      PROVE  /\ ucs'[d] = ucs[d]
             /\ Seen(u, d)' = Seen(u, d)
             /\ RowSeen(u, d)' = RowSeen(u, d)
  <2>1. wucs[t][d] = Unwritten /\ \A r \in wlog[t] : r.card # d
    BY <1>5, OneWriter
  <2>2. ucs'[d] = ucs[d]
    BY <1>4, <2>1 DEF RowSeen
  <2>3. RowSeen(u, d)' = RowSeen(u, d)
    BY <1>2, <2>2 DEF RowSeen
  <2>4. LogSeen(u)' = LogSeen(u) \cup wlog[t]
    BY <1>1, <1>2 DEF LogSeen
  <2>5. LogOf(LogSeen(u) \cup wlog[t], d) = LogOf(LogSeen(u), d) \cup LogOf(wlog[t], d)
    BY DEF LogOf
  <2>6. LogOf(wlog[t], d) = {}
    BY <2>1, LogOfParts
  <2> QED BY <2>2, <2>3, <2>4, <2>5, <2>6 DEF Seen
<1> QED BY <1>1, <1>2, <1>3, <1>4, <1>5

LEMMA AbortViews ==
    ASSUME ProtoInv, NEW t \in Transactions, Abort(t)
    PROVE  /\ UNCHANGED <<log, ucs, forgotten, todo>>
           /\ held'[t] = Nothing /\ wlog'[t] = {}
           /\ \A d \in Cards : wucs'[t][d] = Unwritten
           /\ pc'[t] = "failed"
           /\ \A u \in Transactions \ {t} :
                 /\ held'[u] = held[u] /\ pc'[u] = pc[u]
                 /\ wlog'[u] = wlog[u] /\ wucs'[u] = wucs[u]
                 /\ \A d \in Cards : /\ Seen(u, d)' = Seen(u, d)
                                     /\ RowSeen(u, d)' = RowSeen(u, d)
<1>1. /\ held' = [held EXCEPT ![t] = Nothing] /\ wlog' = [wlog EXCEPT ![t] = {}]
      /\ wucs' = [wucs EXCEPT ![t] = [c \in Cards |-> Unwritten]]
      /\ pc' = [pc EXCEPT ![t] = "failed"]
      /\ UNCHANGED <<log, ucs, forgotten, todo>>
  BY DEF Abort, Release, tables, FailureAnswer
<1>2. /\ held'[t] = Nothing /\ wlog'[t] = {} /\ pc'[t] = "failed"
      /\ \A d \in Cards : wucs'[t][d] = Unwritten
      /\ \A u \in Transactions \ {t} : /\ held'[u] = held[u] /\ pc'[u] = pc[u]
                                       /\ wlog'[u] = wlog[u] /\ wucs'[u] = wucs[u]
  BY <1>1 DEF ProtoInv, TypeInv, TypeOK
<1>3. \A u \in Transactions \ {t} : \A d \in Cards :
         Seen(u, d)' = Seen(u, d) /\ RowSeen(u, d)' = RowSeen(u, d)
  BY <1>1, <1>2 DEF Seen, LogSeen, RowSeen
<1> QED BY <1>1, <1>2, <1>3

(* The settings upsert changes nothing that scheduling looks at. *)
LEMMA SuspendViews ==
    ASSUME ProtoInv, NEW c \in Touched, NEW value \in BOOLEAN,
           SetSuspended(c, value)
    PROVE  /\ UNCHANGED <<log, wlog, wucs, forgotten, held, todo, pc>>
           /\ \A d \in Cards :
                 /\ StepsOf(ucs'[d]) = StepsOf(ucs[d])
                 /\ LastOf(ucs'[d]) = LastOf(ucs[d])
                 /\ \/ ucs'[d] = ucs[d]
                    \/ \A t \in Transactions : wucs[t][d] = Unwritten
<1>1. c \in Cards /\ UNCHANGED <<log, wlog, wucs, forgotten, held, todo, pc>>
      /\ \A t \in Transactions : wucs[t][c] = Unwritten
  BY InputAssumption DEF SetSuspended, txVars
<1>2. \A d \in Cards \ {c} : ucs'[d] = ucs[d]
  BY <1>1 DEF SetSuspended, ProtoInv, TypeInv, TypeOK
<1>3. CASE ucs[c] = NoRow
  <2> DEFINE row == [steps |-> NewCard, last |-> Never, suspended |-> value]
  <2>1. ucs'[c] = row
    BY <1>1, <1>3 DEF SetSuspended, ProtoInv, TypeInv, TypeOK
  <2>2. row \in Rows
    <3>1. NewCard \in SUBSET Steps
      BY DEF NewCard
    <3> QED BY <3>1, Zenon DEF Rows
  <2>3. row.steps = NewCard /\ row.last = Never
    OBVIOUS
  <2> HIDE DEF row
  <2>4. row # NoRow
    BY <2>2, SentinelAssumption
  <2>5. StepsOf(ucs'[c]) = StepsOf(ucs[c]) /\ LastOf(ucs'[c]) = LastOf(ucs[c])
    BY <1>3, <2>1, <2>3, <2>4 DEF StepsOf, LastOf
  <2> QED BY <1>1, <1>2, <2>5
<1>4. CASE ucs[c] # NoRow
  <2>1. ucs[c] \in Rows
    BY <1>1, <1>4 DEF ProtoInv, TypeInv, TypeOK
  <2>2. ucs'[c] = [ucs[c] EXCEPT !.suspended = value]
    BY <1>1, <1>4 DEF SetSuspended, ProtoInv, TypeInv, TypeOK
  <2>3. /\ ucs'[c] \in Rows /\ ucs'[c].steps = ucs[c].steps
        /\ ucs'[c].last = ucs[c].last
    BY <2>1, <2>2 DEF Rows
  <2>4. StepsOf(ucs'[c]) = StepsOf(ucs[c]) /\ LastOf(ucs'[c]) = LastOf(ucs[c])
    BY <1>4, <2>3, SentinelAssumption DEF StepsOf, LastOf
  <2> QED BY <1>1, <1>2, <2>4
<1> QED BY <1>3, <1>4

(* A reset takes only rows that nobody is writing. *)
LEMMA ResetViews ==
    ASSUME ProtoInv, NEW deck \in ResetDecks, ResetProgress(deck)
    PROVE  /\ UNCHANGED <<log, wlog, wucs, held, todo, pc>>
           /\ \A d \in Cards :
                 /\ Whole(d)' => Whole(d)
                 /\ \/ ucs'[d] = ucs[d]
                    \/ /\ ucs'[d] = NoRow /\ d \in deck
                       /\ \A t \in Transactions : wucs[t][d] = Unwritten
                       /\ Whole(d)' => LogOf(log, d) = {}
<1>1. UNCHANGED <<log, wlog, wucs, held, todo, pc>>
  BY DEF ResetProgress, txVars
<1>2. ASSUME NEW d \in Cards
      PROVE  /\ ucs'[d] = IF d \in deck THEN NoRow ELSE ucs[d]
             /\ forgotten'[d] = IF d \in deck /\ ucs[d] # NoRow
                                THEN forgotten[d] \cup LogOf(log, d)
                                ELSE forgotten[d]
             /\ d \in deck /\ ucs[d] # NoRow =>
                   \A t \in Transactions : wucs[t][d] = Unwritten
  BY DEF ResetProgress
<1>3. ASSUME NEW d \in Cards PROVE Whole(d)' => Whole(d)
  BY <1>2 DEF Whole
<1>4. ASSUME NEW d \in Cards, ucs'[d] # ucs[d]
      PROVE  /\ ucs'[d] = NoRow /\ d \in deck
             /\ \A t \in Transactions : wucs[t][d] = Unwritten
             /\ Whole(d)' => LogOf(log, d) = {}
  BY <1>2, <1>4 DEF Whole
<1> QED BY <1>1, <1>3, <1>4

-----------------------------------------------------------------------------
(* Every write is a good one. *)

GoodWrite(t, c, rows, row) ==
    /\ Writes(t, c, rows, row)
    /\ Good(row, Seen(t, c) \cup {Entry(r) : r \in rows}, c)
    /\ Unseeded(c) => Known(RowSeen(t, c)) \subseteq Known(row)
    /\ RowSeen(t, c) # NoRow => row.suspended = RowSeen(t, c).suspended

(* What a view knows is in its log, unless a package put it there. *)
LEMMA RebuildKnowsMore ==
    ASSUME BufferInv, RowInv, NEW t \in Transactions, NEW c \in Cards, Unseeded(c),
           NEW S, Seen(t, c) \subseteq S, NEW row, Known(row) = S
    PROVE  Known(RowSeen(t, c)) \subseteq Known(row)
  BY ViewGood DEF Good, Sound

LEMMA GradeGood ==
    ASSUME Inv, NEW t \in Requests, GradeInOrder(t) \/ GradeOutOfOrder(t)
    PROVE  LET e == held[t].event
           IN /\ held[t] # Nothing /\ Finish(t, e, "applied") /\ ~ Taken(t, e)
              /\ \E prior, row :
                    /\ GoodWrite(t, e.card, {LogRow(e, prior)}, row)
                    /\ Whole(e.card) /\ TieFree(Merged(t)) =>
                          prior = PriorTo(Merged(t), Entry(e))
<1> DEFINE e == held[t].event
           c == held[t].event.card
<1>1. t \in Transactions
  BY DEF Transactions
<1>2. held[t] # Nothing /\ Finish(t, e, "applied") /\ ~ Taken(t, e)
  BY GradeWrites DEF Inv, LogInv
<1>3. PICK prior, row :
         /\ Writes(t, c, {LogRow(e, prior)}, row)
         /\ \/ /\ ~ OutOfOrder(held[t].row, e)
               /\ prior = StepsOf(held[t].row)
               /\ row = InOrderRow(t)
            \/ /\ prior = PriorTo(Merged(t), Entry(e))
               /\ row = Rebuild(t, c, Merged(t))
  BY GradeWrites DEF Inv, LogInv
<1>4. /\ c \in Cards /\ Merged(t) \subseteq Entries /\ IsFiniteSet(Merged(t))
      /\ Merged(t) # {}
  BY <1>1, <1>2, HeldIsOwn DEF Inv, LogInv
<1>5. Entry(LogRow(e, prior)) = Entry(e)
  BY DEF Entry, LogRow
<1>6. Seen(t, c) \cup {Entry(r) : r \in {LogRow(e, prior)}} = Merged(t)
  BY <1>5 DEF Merged
<1>7. CASE ~ OutOfOrder(held[t].row, e) /\ prior = StepsOf(held[t].row)
           /\ row = InOrderRow(t)
  <2>1. /\ Good(row, Merged(t), c)
        /\ Known(RowSeen(t, c)) \subseteq Known(row)
        /\ RowSeen(t, c) # NoRow => row.suspended = RowSeen(t, c).suspended
        /\ Whole(c) /\ TieFree(Merged(t)) => prior = PriorTo(Merged(t), Entry(e))
    BY <1>1, <1>2, <1>7, InOrderGood
  <2> HIDE DEF e, c
  <2>2. GoodWrite(t, c, {LogRow(e, prior)}, row)
    BY <1>3, <1>6, <2>1 DEF GoodWrite
  <2> QED BY <1>2, <2>1, <2>2 DEF e, c
<1>8. CASE prior = PriorTo(Merged(t), Entry(e)) /\ row = Rebuild(t, c, Merged(t))
  <2>1. /\ Good(row, Merged(t), c) /\ Known(row) = Merged(t)
        /\ RowSeen(t, c) # NoRow => row.suspended = RowSeen(t, c).suspended
    BY <1>1, <1>4, <1>8, RebuildGood DEF Inv, ProtoInv
  <2>2. Unseeded(c) => Known(RowSeen(t, c)) \subseteq Known(row)
    BY <1>1, <1>4, <2>1, RebuildKnowsMore DEF Inv, LogInv, StateInv, Merged
  <2> HIDE DEF e, c
  <2>3. GoodWrite(t, c, {LogRow(e, prior)}, row)
    BY <1>3, <1>6, <2>1, <2>2 DEF GoodWrite
  <2> QED BY <1>2, <1>8, <2>3 DEF e, c
<1> QED BY <1>3, <1>7, <1>8

LEMMA ImportGood ==
    ASSUME Inv, NEW t \in Imports, NEW c \in Cards, ImportReviews(t, c)
    PROVE  \E row : GoodWrite(t, c, NewRows(t, c), row)
<1> DEFINE S   == LogOf(LogSeen(t) \cup NewRows(t, c), c)
           row == Rebuild(t, c, S)
<1>1. t \in Transactions
  BY DEF Transactions
<1>2. /\ S \subseteq Entries /\ IsFiniteSet(S) /\ S # {}
      /\ Writes(t, c, NewRows(t, c), row)
  BY ImportWrites DEF Inv, LogInv
<1>3. S = Seen(t, c) \cup {Entry(r) : r \in NewRows(t, c)}
  <2>1. \A r \in NewRows(t, c) : r.card = c
    BY <1>2 DEF Writes
  <2> QED BY <2>1 DEF LogOf, Seen
<1> HIDE DEF S
<1>4. /\ Good(row, S, c) /\ Known(row) = S
      /\ RowSeen(t, c) # NoRow => row.suspended = RowSeen(t, c).suspended
  BY <1>1, <1>2, RebuildGood DEF Inv, ProtoInv
<1>5. Unseeded(c) => Known(RowSeen(t, c)) \subseteq Known(row)
  BY <1>1, <1>3, <1>4, RebuildKnowsMore DEF Inv, LogInv, StateInv
<1> HIDE DEF row
<1> QED BY <1>2, <1>3, <1>4, <1>5 DEF GoodWrite

(* A snapshot without reviews seeds a card whose log is empty; one with    *)
(* reviews makes the card a seeded one.                                    *)
LEMMA SeedGood ==
    ASSUME Inv, NEW t \in Imports, NEW c \in Cards, SeedOf(t, c),
           RowSeen(t, c) = NoRow
    PROVE  Good(wucs'[t][c], Seen(t, c), c) /\ wucs'[t][c] \in Rows
<1>1. t \in Transactions
  BY DEF Transactions
<1>2. PICK s \in seeds[t] : s.card = c /\ wucs'[t][c] = SeedRow(s) /\ SeedRow(s) \in Rows
  BY DEF SeedOf
<1>3. PICK p \in Packages : s \in p.seeds
  BY <1>2 DEF Inv, LogInv, WorkInv
<1>4. s \in Snapshots /\ s.id \notin EventIds
  BY <1>3, InputAssumption
<1> DEFINE row == SeedRow(s)
<1>5. /\ row # NoRow /\ row.steps = Snapshot(s) /\ row.last = s.at
      /\ StepsOf(row) = Snapshot(s) /\ LastOf(row) = s.at
  BY <1>2, SentinelAssumption DEF SeedRow, StepsOf, LastOf
<1> HIDE DEF row
<1>6. CASE s.at = Never
  <2>1. StepsOf(row) = {} /\ Known(row) = {} /\ Replay({}) = {}
    BY <1>5, <1>6 DEF Snapshot, NewCard, Known, Reviewed, Replay
  <2>2. Sound(row, Seen(t, c), c)
    BY <2>1, FS_EmptySet DEF Sound
  <2>3. ASSUME Whole(c) PROVE Fits(row, Seen(t, c))
    <3>1. Fits(NoRow, Seen(t, c))
      BY <1>1, <2>3, ViewGood DEF Inv, LogInv, StateInv, Good
    <3>2. Seen(t, c) = {}
      <4> SUFFICES ASSUME Seen(t, c) # {} PROVE FALSE
        OBVIOUS
      <4>1. LastReviewedAt(Seen(t, c)) \in Int
        BY <1>1, SeenType, LastIsNewest DEF Inv, ProtoInv
      <4> QED BY <3>1, <4>1, SentinelAssumption DEF Fits, LastOf
    <3> QED BY <1>5, <1>6, <2>1, <3>2 DEF Fits
  <2> QED BY <1>2, <2>2, <2>3 DEF Good, row
<1>7. CASE s.at # Never
  <2>1. ~ Unseeded(c)
    BY <1>2, <1>3, <1>7 DEF Unseeded
  <2> DEFINE e == Entry(s)
  <2>2. e \in Entries /\ e.at = s.at /\ e.id \notin EventIds
    BY <1>4, <1>7 DEF Snapshots, Entry, Entries
  <2>3. StepsOf(row) = Schedule({}, e)
    BY <1>5, <1>7 DEF Snapshot, NewCard
  <2> HIDE DEF e
  <2>4. Reviewed({}) = {} /\ Replay({}) = {}
    BY DEF Reviewed, Replay
  <2>5. Known(row) = {e}
    BY <2>3, <2>4, ReviewedOfSchedule DEF Known
  <2>6. LastReviewedAt({} \cup {e}) = e.at
        /\ (TieFree({} \cup {e}) => Schedule(Replay({}), e) = Replay({} \cup {e}))
    BY <2>2, FS_EmptySet, ExtendReplay
  <2>7. TieFree({e}) /\ {} \cup {e} = {e}
    BY DEF TieFree
  <2>8. StepsOf(row) = Replay({e}) /\ LastReviewedAt({e}) = row.last
    BY <1>5, <2>2, <2>3, <2>4, <2>6, <2>7
  <2>9. IsFiniteSet({e})
    BY FS_Singleton
  <2>10. Sound(row, Seen(t, c), c)
    BY <2>1, <2>2, <2>5, <2>8, <2>9 DEF Sound
  <2> QED BY <1>2, <2>1, <2>10 DEF Good, Whole, row
<1> QED BY <1>6, <1>7

-----------------------------------------------------------------------------
(* Rows and their logs. *)

LEMMA RowFrame ==
    ASSUME RowInv,
           \A c \in Cards : /\ Whole(c)' => Whole(c)
                            /\ ucs'[c] = ucs[c] /\ LogOf(log', c) = LogOf(log, c),
           \A t \in Transactions, c \in Cards : wucs'[t][c] # Unwritten =>
              \/ wucs'[t][c] = wucs[t][c] /\ Seen(t, c)' = Seen(t, c)
              \/ Good(wucs'[t][c], Seen(t, c)', c)
    PROVE  RowInv'
<1>1. ASSUME NEW c \in Cards PROVE Good(ucs[c], LogOf(log, c), c)'
  BY <1>1 DEF RowInv, Good
<1>2. ASSUME NEW t \in Transactions, NEW c \in Cards, wucs'[t][c] # Unwritten
      PROVE  Good(wucs[t][c], Seen(t, c), c)'
  <2>1. Good(wucs'[t][c], Seen(t, c)', c)
    BY <1>2 DEF RowInv
  <2> QED BY <2>1 DEF Good
<1> QED BY <1>1, <1>2 DEF RowInv

LEMMA WriteKeepsRows ==
    ASSUME Inv, NEW t \in Transactions, NEW c, NEW rows, NEW row,
           GoodWrite(t, c, rows, row)
    PROVE  RowInv'
<1>1. Writes(t, c, rows, row) /\ c \in Cards
  BY DEF GoodWrite, Writes
<1>2. /\ \A u \in Transactions, d \in Cards : u # t \/ d # c =>
             wucs'[u][d] = wucs[u][d] /\ Seen(u, d)' = Seen(u, d)
      /\ wucs'[t][c] = row
      /\ Seen(t, c)' = Seen(t, c) \cup {Entry(r) : r \in rows}
      /\ UNCHANGED <<log, ucs, forgotten>>
  BY <1>1, WriteViews DEF Inv
<1>3. Good(wucs'[t][c], Seen(t, c)', c)
  BY <1>2 DEF GoodWrite
<1>4. \A d \in Cards : Whole(d)' => Whole(d)
  BY <1>2 DEF Whole
<1> QED BY <1>1, <1>2, <1>3, <1>4, RowFrame DEF Inv, StateInv

LEMMA SeedKeepsRows ==
    ASSUME Inv, NEW t \in Imports, SeedCardStates(t)
    PROVE  RowInv'
<1>1. /\ UNCHANGED <<log, ucs, forgotten, wlog>>
      /\ \A u \in Transactions \ {t} : wucs'[u] = wucs[u]
      /\ \A c \in Cards : \/ wucs'[t][c] = wucs[t][c]
                          \/ RowSeen(t, c) = NoRow /\ SeedOf(t, c)
  BY SeedWrites DEF Inv, LogInv
<1>2. \A u \in Transactions, c \in Cards : Seen(u, c)' = Seen(u, c)
  BY <1>1 DEF Seen, LogSeen
<1>3. \A c \in Cards : Whole(c)' => Whole(c)
  BY <1>1 DEF Whole
<1>4. \A c \in Cards : \/ wucs'[t][c] = wucs[t][c]
                       \/ Good(wucs'[t][c], Seen(t, c)', c)
  BY <1>1, <1>2, SeedGood DEF Transactions
<1> QED BY <1>1, <1>2, <1>3, <1>4, RowFrame DEF Inv, StateInv

LEMMA CommitKeepsRows ==
    ASSUME Inv, NEW t \in Transactions, Commit(t)
    PROVE  RowInv'
<1>1. /\ forgotten' = forgotten
      /\ \A d \in Cards : /\ ucs'[d] = RowSeen(t, d)
                          /\ LogOf(log', d) = Seen(t, d)
                          /\ wucs'[t][d] = Unwritten
      /\ \A u \in Transactions \ {t} :
            /\ wucs'[u] = wucs[u]
            /\ \A d \in Cards : Locked(u) /\ d \in Own(u) => Seen(u, d)' = Seen(u, d)
  BY CommitViews DEF Inv, LogInv
<1>2. \A d \in Cards : Whole(d)' <=> Whole(d)
  BY <1>1 DEF Whole
<1>3. ASSUME NEW d \in Cards PROVE Good(ucs[d], LogOf(log, d), d)'
  <2>1. Good(RowSeen(t, d), Seen(t, d), d)
    BY ViewGood DEF Inv, LogInv, StateInv
  <2> QED BY <1>1, <1>2, <2>1 DEF Good
<1>4. ASSUME NEW u \in Transactions, NEW d \in Cards, wucs'[u][d] # Unwritten
      PROVE  Good(wucs[u][d], Seen(u, d), d)'
  <2>1. u # t /\ wucs'[u][d] = wucs[u][d]
    BY <1>1, <1>4
  <2>2. Locked(u) /\ d \in Own(u) /\ Good(wucs[u][d], Seen(u, d), d)
    BY <1>4, <2>1 DEF Inv, LogInv, BufferInv, StateInv, RowInv
  <2>3. Seen(u, d)' = Seen(u, d)
    BY <1>1, <2>1, <2>2
  <2> QED BY <1>2, <2>1, <2>2, <2>3 DEF Good
<1> QED BY <1>3, <1>4 DEF RowInv

(* Good is about what scheduling looks at. *)
LEMMA SameGood ==
    ASSUME NEW R, NEW Q, NEW S, NEW c, Good(R, S, c),
           StepsOf(Q) = StepsOf(R), LastOf(Q) = LastOf(R)
    PROVE  Good(Q, S, c)
<1>1. Known(Q) = Known(R)
  BY DEF Known
<1>2. Known(R) # {} => R # NoRow /\ Q # NoRow
  BY <1>1 DEF Known, StepsOf, Reviewed, NewCard
<1>3. Known(R) # {} => Q.last = R.last
  BY <1>2 DEF LastOf
<1>4. Sound(Q, S, c)
  BY <1>1, <1>3 DEF Good, Sound
<1> QED BY <1>4 DEF Good, Fits

LEMMA SettingKeepsRows ==
    ASSUME Inv, NEW c \in Touched, NEW value \in BOOLEAN, SetSuspended(c, value)
    PROVE  RowInv'
<1>1. /\ UNCHANGED <<log, wlog, wucs, forgotten>>
      /\ \A d \in Cards : StepsOf(ucs'[d]) = StepsOf(ucs[d])
                          /\ LastOf(ucs'[d]) = LastOf(ucs[d])
  BY SuspendViews DEF Inv
<1>2. \A d \in Cards : Whole(d)' <=> Whole(d)
  BY <1>1 DEF Whole
<1>3. ASSUME NEW d \in Cards PROVE Good(ucs[d], LogOf(log, d), d)'
  <2>1. Good(ucs'[d], LogOf(log, d), d)
    BY <1>1, SameGood DEF Inv, StateInv, RowInv
  <2> QED BY <1>1, <1>2, <2>1 DEF Good
<1>4. \A u \in Transactions, d \in Cards : Seen(u, d)' = Seen(u, d)
  BY <1>1 DEF Seen, LogSeen
<1>5. ASSUME NEW u \in Transactions, NEW d \in Cards, wucs'[u][d] # Unwritten
      PROVE  Good(wucs[u][d], Seen(u, d), d)'
  BY <1>1, <1>2, <1>4, <1>5 DEF Inv, StateInv, RowInv, Good
<1> QED BY <1>3, <1>5 DEF RowInv

LEMMA ResetKeepsRows ==
    ASSUME Inv, NEW deck \in ResetDecks, ResetProgress(deck)
    PROVE  RowInv'
<1>1. /\ UNCHANGED <<log, wlog, wucs>>
      /\ \A d \in Cards :
            /\ Whole(d)' => Whole(d)
            /\ \/ ucs'[d] = ucs[d]
               \/ ucs'[d] = NoRow /\ (Whole(d)' => LogOf(log, d) = {})
  BY ResetViews DEF Inv
<1>2. ASSUME NEW d \in Cards PROVE Good(ucs[d], LogOf(log, d), d)'
  <2>1. CASE ucs'[d] = ucs[d]
    BY <1>1, <2>1 DEF Inv, StateInv, RowInv, Good
  <2>2. CASE ucs'[d] = NoRow /\ (Whole(d)' => LogOf(log, d) = {})
    <3>1. StepsOf(NoRow) = {} /\ Known(NoRow) = {} /\ Replay({}) = {}
      BY DEF StepsOf, NewCard, Known, Reviewed, Replay
    <3>2. Sound(NoRow, LogOf(log, d), d)
      BY <3>1, FS_EmptySet DEF Sound
    <3>3. Whole(d)' => Fits(NoRow, LogOf(log, d))
      BY <2>2, <3>1 DEF Fits, LastOf
    <3> QED BY <1>1, <2>2, <3>2, <3>3 DEF Good
  <2> QED BY <1>1, <2>1, <2>2
<1>3. \A u \in Transactions, d \in Cards : Seen(u, d)' = Seen(u, d)
  BY <1>1 DEF Seen, LogSeen
<1>4. ASSUME NEW u \in Transactions, NEW d \in Cards, wucs'[u][d] # Unwritten
      PROVE  Good(wucs[u][d], Seen(u, d), d)'
  BY <1>1, <1>3, <1>4 DEF Inv, StateInv, RowInv, Good
<1> QED BY <1>2, <1>4 DEF RowInv

LEMMA RowStep == Inv /\ [Next]_vars => RowInv'
<1> SUFFICES ASSUME Inv, [Next]_vars PROVE RowInv'
  OBVIOUS
<1>1. ASSUME UNCHANGED <<log, ucs, wlog, wucs, forgotten>> PROVE RowInv'
  <2>1. \A u \in Transactions, d \in Cards : Seen(u, d)' = Seen(u, d)
    BY <1>1 DEF Seen, LogSeen
  <2>2. \A d \in Cards : Whole(d)' => Whole(d)
    BY <1>1 DEF Whole
  <2> QED BY <1>1, <2>1, <2>2, RowFrame DEF Inv, StateInv
<1>2. ASSUME NEW t \in Transactions, Abort(t) PROVE RowInv'
  <2>1. /\ UNCHANGED <<log, ucs, forgotten>>
        /\ \A d \in Cards : wucs'[t][d] = Unwritten
        /\ \A u \in Transactions \ {t} :
              wucs'[u] = wucs[u] /\ \A d \in Cards : Seen(u, d)' = Seen(u, d)
    BY <1>2, AbortViews DEF Inv
  <2>2. \A d \in Cards : Whole(d)' => Whole(d)
    BY <2>1 DEF Whole
  <2> QED BY <2>1, <2>2, RowFrame DEF Inv, StateInv
<1>3. ASSUME NEW t \in Requests, GradeStep(t) PROVE RowInv'
  <2>1. CASE Authorise(t) \/ FilterExisting(t) \/ GradeTaken(t)
             \/ \E e \in todo[t] : ReadState(t, e)
    BY <1>1, <2>1 DEF Authorise, FilterExisting, GradeTaken, Finish, ReadState, tables
  <2>2. CASE GradeInOrder(t) \/ GradeOutOfOrder(t)
    <3>1. \E c, rows, row : GoodWrite(t, c, rows, row)
      BY <2>2, GradeGood
    <3> QED BY <3>1, WriteKeepsRows DEF Transactions
  <2> QED BY <1>3, <2>1, <2>2 DEF GradeStep
<1>4. ASSUME NEW t \in Imports, ImportStep(t) PROVE RowInv'
  <2>1. ASSUME NEW c \in Cards, ImportReviews(t, c) PROVE RowInv'
    <3>1. \E row : GoodWrite(t, c, NewRows(t, c), row)
      BY <2>1, ImportGood
    <3> QED BY <3>1, WriteKeepsRows DEF Transactions
  <2> QED BY <1>4, <2>1, SeedKeepsRows DEF ImportStep
<1>5. CASE \/ \E t \in Requests : Post(t)
           \/ \E t \in Imports : Import(t)
           \/ \E t \in Transactions, k \in Keys : AcquireLock(t, k)
           \/ \E c \in Revoked : RevokeStudy(c)
           \/ Tick \/ Quiet \/ UNCHANGED vars
  BY <1>1, <1>5 DEF Post, Import, AcquireLock, RevokeStudy, Tick, Quiet, vars,
                    txVars, tables
<1> QED BY <1>2, <1>3, <1>4, <1>5, CommitKeepsRows, SettingKeepsRows,
           ResetKeepsRows DEF Next, Progress

-----------------------------------------------------------------------------
(* What was read is still so. *)

LEMMA HeldFrame ==
    ASSUME NEW t \in Transactions, HeldRight(t), held'[t] = held[t],
           \A f \in todo'[t] : f \in todo[t],
           NEW c, c = held[t].event.card,
           Seen(t, c) \subseteq Seen(t, c)',
           Known(RowSeen(t, c)') \subseteq Known(RowSeen(t, c)),
           Whole(c)' => /\ Whole(c)
                        /\ StepsOf(RowSeen(t, c)') = StepsOf(RowSeen(t, c))
                        /\ LastOf(RowSeen(t, c)') = LastOf(RowSeen(t, c))
    PROVE  HeldRight(t)'
<1>1. Sound(held[t].row, Seen(t, c)', c)
  BY SoundMore DEF HeldRight
<1> QED BY <1>1 DEF HeldRight

(* A step of one transaction that leaves the others' views alone. *)
LEMMA HeldOthers ==
    ASSUME Inv, NEW t \in Transactions, held'[t] = Nothing,
           \A u \in Transactions \ {t} :
              /\ held'[u] = held[u] /\ todo'[u] = todo[u]
              /\ \A d \in Cards : /\ Seen(u, d)' = Seen(u, d)
                                  /\ RowSeen(u, d)' = RowSeen(u, d),
           forgotten' = forgotten
    PROVE  HeldInv'
<1> SUFFICES ASSUME NEW u \in Transactions, held'[u] # Nothing
             PROVE  HeldRight(u)'
  BY DEF HeldInv
<1>1. u # t /\ held'[u] = held[u] /\ todo'[u] = todo[u] /\ held[u] # Nothing
  OBVIOUS
<1>2. PICK c \in Cards : c = held[u].event.card
  BY <1>1, HeldIsOwn DEF Inv, LogInv
<1>3. Seen(u, c)' = Seen(u, c) /\ RowSeen(u, c)' = RowSeen(u, c)
  BY <1>1
<1>4. Whole(c)' => Whole(c)
  BY DEF Whole
<1>5. HeldRight(u)
  BY <1>1 DEF Inv, StateInv, HeldInv
<1> QED BY <1>1, <1>2, <1>3, <1>4, <1>5, HeldFrame

LEMMA ReadIsRight ==
    ASSUME Inv, NEW t \in Requests, NEW e \in todo[t], ReadState(t, e)
    PROVE  HeldInv'
<1>1. t \in Transactions
  BY DEF Transactions
<1>2. /\ \A f \in todo[t] : ~ Before(f, e)
      /\ held' = [held EXCEPT ![t] = [event |-> e, row |-> RowSeen(t, e.card)]]
      /\ UNCHANGED <<log, ucs, wlog, wucs, todo, forgotten>>
  BY DEF ReadState, tables
<1>3. e.card \in Cards
  BY <1>1 DEF Inv, ProtoInv, TypeInv, TypeOK, Events
<1>4. \A u \in Transactions, d \in Cards : /\ Seen(u, d)' = Seen(u, d)
                                           /\ RowSeen(u, d)' = RowSeen(u, d)
  BY <1>2 DEF Seen, LogSeen, RowSeen
<1>5. \A d \in Cards : Whole(d)' <=> Whole(d)
  BY <1>2 DEF Whole
<1> SUFFICES ASSUME NEW u \in Transactions, held'[u] # Nothing
             PROVE  HeldRight(u)'
  BY DEF HeldInv
<1>6. CASE u = t
  <2>1. held'[u].event = e /\ held'[u].row = RowSeen(t, e.card)
    BY <1>1, <1>2, <1>6 DEF Inv, ProtoInv, TypeInv, TypeOK
  <2>2. Sound(RowSeen(t, e.card), Seen(t, e.card), e.card)
    BY <1>1, <1>3, ViewGood DEF Inv, LogInv, StateInv, Good
  <2> QED BY <1>1, <1>2, <1>3, <1>4, <1>6, <2>1, <2>2 DEF HeldRight
<1>7. CASE u # t
  <2>1. held'[u] = held[u] /\ held[u] # Nothing
    BY <1>1, <1>2, <1>7 DEF Inv, ProtoInv, TypeInv, TypeOK
  <2>2. held[u].event.card \in Cards
    BY <2>1, HeldIsOwn DEF Inv, LogInv
  <2>3. HeldRight(u)
    BY <2>1 DEF Inv, StateInv, HeldInv
  <2> QED BY <1>2, <1>4, <1>5, <2>1, <2>2, <2>3, HeldFrame
<1> QED BY <1>6, <1>7

LEMMA CommitKeepsHeld ==
    ASSUME Inv, NEW t \in Transactions, Commit(t)
    PROVE  HeldInv'
<1>1. /\ UNCHANGED <<forgotten, held, todo>> /\ held[t] = Nothing
      /\ \A u \in Transactions \ {t} : \A d \in Cards :
            Locked(u) /\ d \in Own(u) => /\ Seen(u, d)' = Seen(u, d)
                                         /\ RowSeen(u, d)' = RowSeen(u, d)
  BY CommitViews DEF Inv, LogInv
<1> SUFFICES ASSUME NEW u \in Transactions, held'[u] # Nothing
             PROVE  HeldRight(u)'
  BY DEF HeldInv
<1>2. u # t /\ held[u] # Nothing /\ held'[u] = held[u] /\ todo'[u] = todo[u]
  BY <1>1
<1>3. held[u].event.card \in Cards /\ Locked(u) /\ held[u].event.card \in Own(u)
  BY <1>2, HeldIsOwn DEF Inv, LogInv
<1>4. \A d \in Cards : Whole(d)' => Whole(d)
  BY <1>1 DEF Whole
<1>5. HeldRight(u)
  BY <1>2 DEF Inv, StateInv, HeldInv
<1> QED BY <1>1, <1>2, <1>3, <1>4, <1>5, HeldFrame

(* The settings upsert and the reset wait for writers, not for readers.    *)
LEMMA OtherWritersKeepHeld ==
    ASSUME Inv, UNCHANGED <<log, wlog, wucs, held, todo>>,
           \A d \in Cards :
              \/ ucs'[d] = ucs[d]
              \/ Known(ucs'[d]) \subseteq Known(ucs[d]),
           \A d \in Cards : Whole(d)' =>
              /\ Whole(d)
              /\ StepsOf(ucs'[d]) = StepsOf(ucs[d]) /\ LastOf(ucs'[d]) = LastOf(ucs[d])
    PROVE  HeldInv'
<1> SUFFICES ASSUME NEW u \in Transactions, held'[u] # Nothing
             PROVE  HeldRight(u)'
  BY DEF HeldInv
<1>1. PICK c \in Cards : c = held[u].event.card
  BY HeldIsOwn DEF Inv, LogInv
<1>2. Seen(u, c)' = Seen(u, c)
  BY DEF Seen, LogSeen
<1>3. /\ Known(RowSeen(u, c)') \subseteq Known(RowSeen(u, c))
      /\ Whole(c)' => /\ Whole(c)
                      /\ StepsOf(RowSeen(u, c)') = StepsOf(RowSeen(u, c))
                      /\ LastOf(RowSeen(u, c)') = LastOf(RowSeen(u, c))
  <2>1. CASE wucs[u][c] = Unwritten
    BY <1>1, <2>1 DEF RowSeen
  <2>2. CASE wucs[u][c] # Unwritten
    BY <1>1, <2>2 DEF RowSeen
  <2> QED BY <2>1, <2>2
<1>4. HeldRight(u)
  BY DEF Inv, StateInv, HeldInv
<1> QED BY <1>1, <1>2, <1>3, <1>4, HeldFrame

LEMMA HeldStep == Inv /\ [Next]_vars => HeldInv'
<1> SUFFICES ASSUME Inv, [Next]_vars PROVE HeldInv'
  OBVIOUS
<1>1. ASSUME UNCHANGED <<log, ucs, wlog, wucs, forgotten, held, todo>>
      PROVE  HeldInv'
  <2>1. \A d \in Cards : Whole(d)' <=> Whole(d)
    BY <1>1 DEF Whole
  <2> QED BY <1>1, <2>1, OtherWritersKeepHeld
<1>2. \A t \in Imports : t \in Transactions /\ held[t] = Nothing
  BY InputAssumption DEF Transactions, Inv, LogInv, WorkInv
<1>3. ASSUME NEW t \in Transactions, UNCHANGED <<log, ucs, forgotten>>,
             held'[t] = Nothing,
             \A u \in Transactions \ {t} :
                /\ held'[u] = held[u] /\ todo'[u] = todo[u]
                /\ wlog'[u] = wlog[u] /\ wucs'[u] = wucs[u]
      PROVE  HeldInv'
  <2>1. \A u \in Transactions \ {t} : \A d \in Cards :
           Seen(u, d)' = Seen(u, d) /\ RowSeen(u, d)' = RowSeen(u, d)
    BY <1>3 DEF Seen, LogSeen, RowSeen
  <2> QED BY <1>3, <2>1, HeldOthers
<1>4. ASSUME NEW t \in Imports, Import(t) PROVE HeldInv'
  BY <1>2, <1>3, <1>4 DEF Import, tables
<1>5. ASSUME NEW t \in Transactions, Abort(t) PROVE HeldInv'
  BY <1>3, <1>5, AbortViews DEF Inv
<1>6. ASSUME NEW t \in Requests, GradeStep(t) PROVE HeldInv'
  <2>1. t \in Transactions
    BY DEF Transactions
  <2>2. CASE Authorise(t)
    BY <1>1, <2>2 DEF Authorise, tables
  <2>3. CASE FilterExisting(t)
    <3>1. held[t] = Nothing
      BY <2>1, <2>3 DEF FilterExisting, Inv, ProtoInv, LockInv
    <3> QED BY <1>3, <2>1, <2>3, <3>1 DEF FilterExisting, tables
  <2>4. CASE GradeTaken(t) \/ GradeInOrder(t) \/ GradeOutOfOrder(t)
    <3>1. \E e, status : Finish(t, e, status)
      BY <2>4 DEF GradeTaken, GradeInOrder, GradeOutOfOrder, Append
    <3>2. /\ held'[t] = Nothing /\ UNCHANGED <<log, ucs, forgotten>>
          /\ \A u \in Transactions \ {t} : held'[u] = held[u] /\ todo'[u] = todo[u]
      BY <2>1, <3>1 DEF Finish, tables, Inv, ProtoInv, TypeInv, TypeOK
    <3>3. \A u \in Transactions \ {t} : wlog'[u] = wlog[u] /\ wucs'[u] = wucs[u]
      <4>1. CASE GradeTaken(t)
        BY <4>1 DEF GradeTaken
      <4>2. CASE GradeInOrder(t) \/ GradeOutOfOrder(t)
        <5>1. PICK c, rows, row : Writes(t, c, rows, row)
          BY <4>2, GradeGood DEF GoodWrite
        <5> QED BY <5>1 DEF Writes, Inv, ProtoInv, TypeInv, TypeOK
      <4> QED BY <2>4, <4>1, <4>2
    <3> QED BY <1>3, <2>1, <3>2, <3>3
  <2> QED BY <1>6, <2>2, <2>3, <2>4, ReadIsRight DEF GradeStep
<1>7. ASSUME NEW t \in Imports, ImportStep(t) PROVE HeldInv'
  <2>1. CASE \E c \in Cards : ImportReviews(t, c)
    BY <1>2, <1>3, <2>1 DEF ImportReviews, tables
  <2>2. CASE SeedCardStates(t)
    BY <1>2, <1>3, <2>2 DEF SeedCardStates, tables
  <2> QED BY <1>7, <2>1, <2>2 DEF ImportStep
<1>8. ASSUME NEW c \in Touched, NEW value \in BOOLEAN, SetSuspended(c, value)
      PROVE  HeldInv'
  <2>1. /\ UNCHANGED <<log, wlog, wucs, forgotten, held, todo>>
        /\ \A d \in Cards : StepsOf(ucs'[d]) = StepsOf(ucs[d])
                            /\ LastOf(ucs'[d]) = LastOf(ucs[d])
    BY <1>8, SuspendViews DEF Inv
  <2>2. \A d \in Cards : (Whole(d)' => Whole(d)) /\ Known(ucs'[d]) = Known(ucs[d])
    BY <2>1 DEF Whole, Known
  <2> QED BY <2>1, <2>2, OtherWritersKeepHeld
<1>9. ASSUME NEW deck \in ResetDecks, ResetProgress(deck) PROVE HeldInv'
  <2>1. /\ UNCHANGED <<log, wlog, wucs, held, todo>>
        /\ \A d \in Cards :
              /\ Whole(d)' => Whole(d)
              /\ \/ ucs'[d] = ucs[d]
                 \/ ucs'[d] = NoRow /\ (Whole(d)' => LogOf(log, d) = {})
    BY <1>9, ResetViews DEF Inv
  <2>2. StepsOf(NoRow) = {} /\ Known(NoRow) = {} /\ LastOf(NoRow) = Never
    BY DEF StepsOf, NewCard, Known, Reviewed, LastOf
  <2>3. ASSUME NEW d \in Cards, Whole(d)'
        PROVE  /\ Whole(d)
               /\ StepsOf(ucs'[d]) = StepsOf(ucs[d]) /\ LastOf(ucs'[d]) = LastOf(ucs[d])
    <3>1. CASE ucs'[d] = ucs[d]
      BY <2>1, <2>3, <3>1
    <3>2. CASE ucs'[d] = NoRow /\ LogOf(log, d) = {}
      <4>1. Whole(d) /\ Fits(ucs[d], {})
        BY <2>1, <2>3, <3>2 DEF Inv, StateInv, RowInv, Good
      <4>2. StepsOf(ucs[d]) = {} /\ LastOf(ucs[d]) = Never
        BY <4>1 DEF Fits, TieFree, Replay
      <4> QED BY <2>2, <3>2, <4>1, <4>2
    <3> QED BY <2>1, <2>3, <3>1, <3>2
  <2> QED BY <2>1, <2>2, <2>3, OtherWritersKeepHeld
<1>10. CASE \/ \E t \in Requests : Post(t)
            \/ \E t \in Transactions, k \in Keys : AcquireLock(t, k)
            \/ \E c \in Revoked : RevokeStudy(c)
            \/ Tick \/ Quiet \/ UNCHANGED vars
  BY <1>1, <1>10 DEF Post, AcquireLock, RevokeStudy, Tick, Quiet, vars,
                     txVars, tables
<1> QED BY <1>4, <1>5, <1>6, <1>7, <1>8, <1>9, <1>10, CommitKeepsHeld
        DEF Next, Progress

-----------------------------------------------------------------------------
(* Writes keep what was there. *)

LEMMA KeepFrame ==
    ASSUME KeepInv,
           \A t \in Transactions, c \in Cards : wucs'[t][c] # Unwritten =>
              \/ wucs'[t][c] = wucs[t][c] /\ ucs'[c] = ucs[c]
              \/ Keeps(ucs'[c], wucs'[t][c], c)
    PROVE  KeepInv'
<1> SUFFICES ASSUME NEW t \in Transactions, NEW c \in Cards,
                    wucs'[t][c] # Unwritten
             PROVE  Keeps(ucs'[c], wucs'[t][c], c)
  BY DEF KeepInv, Keeps
<1> QED BY DEF KeepInv

LEMMA WriteKeeps ==
    ASSUME Inv, NEW t \in Transactions, NEW c, NEW rows, NEW row,
           GoodWrite(t, c, rows, row)
    PROVE  KeepInv'
<1>1. Writes(t, c, rows, row) /\ c \in Cards
  BY DEF GoodWrite, Writes
<1>2. /\ \A u \in Transactions, d \in Cards : u # t \/ d # c =>
             wucs'[u][d] = wucs[u][d]
      /\ wucs'[t][c] = row /\ ucs' = ucs
  BY <1>1, WriteViews DEF Inv
<1>3. /\ Unseeded(c) => Known(ucs[c]) \subseteq Known(RowSeen(t, c))
      /\ ucs[c] # NoRow => /\ RowSeen(t, c) # NoRow
                           /\ RowSeen(t, c).suspended = ucs[c].suspended
  BY <1>1, ViewKeeps DEF Inv, LogInv, StateInv
<1>4. Keeps(ucs[c], row, c)
  BY <1>3 DEF GoodWrite, Keeps
<1> QED BY <1>2, <1>4, KeepFrame DEF Inv, StateInv

LEMMA SeedKeeps ==
    ASSUME Inv, NEW t \in Imports, SeedCardStates(t)
    PROVE  KeepInv'
<1>1. /\ ucs' = ucs
      /\ \A u \in Transactions \ {t} : wucs'[u] = wucs[u]
      /\ \A c \in Cards : wucs'[t][c] = wucs[t][c] \/ RowSeen(t, c) = NoRow
  BY SeedWrites DEF Inv, LogInv
<1>2. t \in Transactions
  BY DEF Transactions
<1>3. ASSUME NEW c \in Cards, RowSeen(t, c) = NoRow
      PROVE  Keeps(ucs[c], wucs'[t][c], c)
  <2>1. ucs[c] = NoRow
    BY <1>2, <1>3 DEF RowSeen, Inv, LogInv, BufferInv
  <2>2. Known(NoRow) = {}
    BY DEF Known, Reviewed, StepsOf, NewCard
  <2> QED BY <2>1, <2>2 DEF Keeps
<1> QED BY <1>1, <1>3, KeepFrame DEF Inv, StateInv

LEMMA KeepStep == Inv /\ [Next]_vars => KeepInv'
<1> SUFFICES ASSUME Inv, [Next]_vars PROVE KeepInv'
  OBVIOUS
<1>1. ASSUME UNCHANGED <<ucs, wucs>> PROVE KeepInv'
  BY <1>1, KeepFrame DEF Inv, StateInv
<1>2. ASSUME NEW t \in Transactions, Abort(t) PROVE KeepInv'
  BY <1>2, AbortViews, KeepFrame DEF Inv, StateInv
<1>3. ASSUME NEW t \in Transactions, Commit(t) PROVE KeepInv'
  <2>1. /\ \A d \in Cards : wucs'[t][d] = Unwritten
        /\ \A u \in Transactions \ {t} :
              /\ wucs'[u] = wucs[u]
              /\ \A d \in Cards : Locked(u) /\ d \in Own(u) => ucs'[d] = ucs[d]
    BY <1>3, CommitViews DEF Inv, LogInv
  <2>2. \A u \in Transactions, d \in Cards : wucs[u][d] # Unwritten =>
            Locked(u) /\ d \in Own(u)
    BY DEF Inv, LogInv, BufferInv
  <2> QED BY <2>1, <2>2, KeepFrame DEF Inv, StateInv
<1>4. ASSUME NEW t \in Requests, GradeStep(t) PROVE KeepInv'
  <2>1. CASE Authorise(t) \/ FilterExisting(t) \/ GradeTaken(t)
             \/ \E e \in todo[t] : ReadState(t, e)
    BY <1>1, <2>1 DEF Authorise, FilterExisting, GradeTaken, Finish, ReadState, tables
  <2>2. CASE GradeInOrder(t) \/ GradeOutOfOrder(t)
    <3>1. \E c, rows, row : GoodWrite(t, c, rows, row)
      BY <2>2, GradeGood
    <3> QED BY <3>1, WriteKeeps DEF Transactions
  <2> QED BY <1>4, <2>1, <2>2 DEF GradeStep
<1>5. ASSUME NEW t \in Imports, ImportStep(t) PROVE KeepInv'
  <2>1. ASSUME NEW c \in Cards, ImportReviews(t, c) PROVE KeepInv'
    <3>1. \E row : GoodWrite(t, c, NewRows(t, c), row)
      BY <2>1, ImportGood
    <3> QED BY <3>1, WriteKeeps DEF Transactions
  <2> QED BY <1>5, <2>1, SeedKeeps DEF ImportStep
<1>6. ASSUME NEW c \in Touched, NEW value \in BOOLEAN, SetSuspended(c, value)
      PROVE  KeepInv'
  <2>1. /\ wucs' = wucs
        /\ \A d \in Cards : \/ ucs'[d] = ucs[d]
                            \/ \A t \in Transactions : wucs[t][d] = Unwritten
    BY <1>6, SuspendViews DEF Inv
  <2> QED BY <2>1, KeepFrame DEF Inv, StateInv
<1>7. ASSUME NEW deck \in ResetDecks, ResetProgress(deck) PROVE KeepInv'
  <2>1. /\ wucs' = wucs
        /\ \A d \in Cards : \/ ucs'[d] = ucs[d]
                            \/ \A t \in Transactions : wucs[t][d] = Unwritten
    BY <1>7, ResetViews DEF Inv
  <2> QED BY <2>1, KeepFrame DEF Inv, StateInv
<1>8. CASE \/ \E t \in Requests : Post(t)
           \/ \E t \in Imports : Import(t)
           \/ \E t \in Transactions, k \in Keys : AcquireLock(t, k)
           \/ \E c \in Revoked : RevokeStudy(c)
           \/ Tick \/ Quiet \/ UNCHANGED vars
  BY <1>1, <1>8 DEF Post, Import, AcquireLock, RevokeStudy, Tick, Quiet, vars,
                    txVars, tables
<1> QED BY <1>2, <1>3, <1>4, <1>5, <1>6, <1>7, <1>8 DEF Next, Progress

-----------------------------------------------------------------------------
(* The prior a log row is given. *)

LEMMA PriorFrame ==
    ASSUME NEW t \in Transactions, NEW r, PriorRight(t, r),
           NEW c, c = r.card, Seen(t, c)' = Seen(t, c), Whole(c)' => Whole(c),
           \A f \in todo'[t] : f \in todo[t]
    PROVE  PriorRight(t, r)'
  BY DEF PriorRight

(* A step that leaves the buffers, and what is to be graded, alone. *)
LEMMA PriorFrames ==
    ASSUME PriorInv,
           \A c \in Cards : Whole(c)' => Whole(c),
           \A t \in Requests : \A r \in wlog'[t] :
              \/ PriorRight(t, r)'
              \/ /\ r \in wlog[t] /\ r.card \in Cards
                 /\ Seen(t, r.card)' = Seen(t, r.card)
                 /\ \A f \in todo'[t] : f \in todo[t],
           \A t \in Requests : pc'[t] = "dedup" =>
              wlog'[t] = {} \/ (pc[t] = "dedup" /\ wlog'[t] = wlog[t])
    PROVE  PriorInv'
<1>1. ASSUME NEW t \in Requests, NEW r \in wlog'[t] PROVE PriorRight(t, r)'
  <2>1. CASE /\ r \in wlog[t] /\ r.card \in Cards
             /\ Seen(t, r.card)' = Seen(t, r.card)
             /\ \A f \in todo'[t] : f \in todo[t]
    <3>1. PriorRight(t, r) /\ (Whole(r.card)' => Whole(r.card))
      BY <2>1 DEF PriorInv
    <3> QED BY <2>1, <3>1, PriorFrame DEF Transactions
  <2> QED BY <1>1, <2>1
<1> QED BY <1>1 DEF PriorInv

(* A late review sorts before none of those already graded. *)
LEMMA GradeKeepsPriors ==
    ASSUME Inv, NEW t \in Requests, GradeInOrder(t) \/ GradeOutOfOrder(t)
    PROVE  PriorInv'
<1>1. t \in Transactions
  BY DEF Transactions
<1>2. held[t] # Nothing /\ Finish(t, held[t].event, "applied")
      /\ ~ Taken(t, held[t].event)
  BY GradeGood
<1>3. PICK e \in todo[t] : e = held[t].event
  BY <1>1, <1>2, HeldIsOwn DEF Inv, LogInv
<1>4. PICK c \in Cards : c = e.card
  BY <1>1, <1>2, <1>3, HeldIsOwn DEF Inv, LogInv
<1>5. PICK prior, row :
         /\ GoodWrite(t, c, {LogRow(e, prior)}, row)
         /\ Whole(c) /\ TieFree(Merged(t)) => prior = PriorTo(Merged(t), Entry(e))
  BY <1>3, <1>4, GradeGood
<1> DEFINE n == LogRow(e, prior)
<1>6. PICK S : S = Merged(t)
  OBVIOUS
<1>7. /\ Entry(n) = Entry(e) /\ n.card = c /\ n.prior = prior
      /\ n.at = e.at /\ n.id = e.id
  BY <1>4 DEF LogRow, Entry
<1>8. /\ \A u \in Transactions, d \in Cards : u # t \/ d # c =>
             Seen(u, d)' = Seen(u, d)
      /\ Seen(t, c)' = S
      /\ wlog'[t] = wlog[t] \cup {n}
      /\ \A u \in Transactions \ {t} : wlog'[u] = wlog[u]
      /\ UNCHANGED <<log, ucs, forgotten>>
  <2>1. /\ \A u \in Transactions, d \in Cards : u # t \/ d # c =>
               Seen(u, d)' = Seen(u, d)
        /\ Seen(t, c)' = Seen(t, c) \cup {Entry(r) : r \in {n}}
        /\ wlog'[t] = wlog[t] \cup {n}
        /\ \A u \in Transactions \ {t} : wlog'[u] = wlog[u]
        /\ UNCHANGED <<log, ucs, forgotten>>
    BY <1>1, <1>5, WriteViews DEF Inv, GoodWrite
  <2>2. {Entry(r) : r \in {n}} = {Entry(e)}
    BY <1>7
  <2>3. S = Seen(t, c) \cup {Entry(e)}
    BY <1>3, <1>4, <1>6 DEF Merged
  <2> HIDE DEF n
  <2> QED BY <2>1, <2>2, <2>3
<1>9. /\ todo'[t] = todo[t] \ {e} /\ pc'[t] # "dedup"
      /\ \A u \in Transactions \ {t} : todo'[u] = todo[u] /\ pc'[u] = pc[u]
  BY <1>1, <1>2, <1>3 DEF Finish, Inv, ProtoInv, TypeInv, TypeOK
<1>10. \A d \in Cards : Whole(d)' <=> Whole(d)
  BY <1>8 DEF Whole
<1>11. \A f \in todo[t] : ~ Before(f, e)
  BY <1>1, <1>2, <1>3 DEF Inv, StateInv, HeldInv, HeldRight
<1> HIDE DEF n
<1>12. PriorRight(t, n)'
  <2>1. \A f \in todo'[t] : ~ Before(f, n)
    BY <1>7, <1>9, <1>11 DEF Before
  <2>2. Whole(c)' /\ TieFree(S) => n.prior = PriorTo(S, Entry(n))
    BY <1>5, <1>6, <1>7, <1>10
  <2> QED BY <1>7, <1>8, <2>1, <2>2 DEF PriorRight
<1>13. ASSUME NEW r \in wlog[t], r.card = c PROVE PriorRight(t, r)'
  <2>1. PriorRight(t, r)
    BY <1>13 DEF Inv, StateInv, PriorInv
  <2>2. ~ Before(e, r) /\ \A f \in todo'[t] : ~ Before(f, r)
    BY <1>9, <2>1 DEF PriorRight
  <2>3. S = Seen(t, c) \cup {Entry(e)}
    BY <1>3, <1>4, <1>6 DEF Merged
  <2>4. ~ Before(Entry(e), Entry(r))
    BY <2>2 DEF Before, Entry
  <2>5. Preceding(S, Entry(r)) = Preceding(Seen(t, c), Entry(r))
    BY <2>3, <2>4 DEF Preceding
  <2>6. TieFree(S) => TieFree(Seen(t, c))
    BY <2>3 DEF TieFree
  <2>7. Whole(c)' /\ TieFree(S) => r.prior = PriorTo(S, Entry(r))
    BY <1>10, <1>13, <2>1, <2>5, <2>6 DEF PriorRight, PriorTo
  <2> QED BY <1>8, <1>13, <2>2, <2>7 DEF PriorRight
<1>14. \A u \in Transactions : \A r \in wlog[u] : r.card \in Cards
  BY DEF Inv, ProtoInv, TypeInv, TypeOK, LogRows
<1>15. ASSUME NEW u \in Requests, NEW r \in wlog'[u]
       PROVE  \/ PriorRight(u, r)'
              \/ /\ r \in wlog[u] /\ r.card \in Cards
                 /\ Seen(u, r.card)' = Seen(u, r.card)
                 /\ \A f \in todo'[u] : f \in todo[u]
  <2>1. u \in Transactions
    BY DEF Transactions
  <2>2. CASE u = t
    BY <1>8, <1>9, <1>12, <1>13, <1>14, <1>15, <2>1, <2>2
  <2>3. CASE u # t
    BY <1>8, <1>9, <1>14, <1>15, <2>1, <2>3
  <2> QED BY <2>2, <2>3
<1>16. \A u \in Requests : pc'[u] = "dedup" =>
          wlog'[u] = {} \/ (pc[u] = "dedup" /\ wlog'[u] = wlog[u])
  BY <1>8, <1>9 DEF Transactions
<1> QED BY <1>10, <1>15, <1>16, PriorFrames DEF Inv, StateInv

LEMMA PriorStep == Inv /\ [Next]_vars => PriorInv'
<1> SUFFICES ASSUME Inv, [Next]_vars PROVE PriorInv'
  OBVIOUS
<1>1. \A t \in Requests : t \in Transactions
  BY DEF Transactions
<1>2. \A t \in Transactions : \A r \in wlog[t] : r.card \in Cards
  BY DEF Inv, ProtoInv, TypeInv, TypeOK, LogRows
<1>3. ASSUME UNCHANGED <<log, forgotten, wlog, todo>>,
             \A t \in Requests : pc'[t] = "dedup" => pc[t] = "dedup" \/ wlog[t] = {}
      PROVE  PriorInv'
  <2>1. \A c \in Cards : Whole(c)' => Whole(c)
    BY <1>3 DEF Whole
  <2>2. \A t \in Requests : \A r \in wlog[t] : Seen(t, r.card)' = Seen(t, r.card)
    BY <1>3 DEF Seen, LogSeen
  <2>3. \A t \in Requests : \A r \in wlog'[t] :
           /\ r \in wlog[t] /\ r.card \in Cards
           /\ Seen(t, r.card)' = Seen(t, r.card)
           /\ \A f \in todo'[t] : f \in todo[t]
    BY <1>1, <1>2, <1>3, <2>2
  <2> QED BY <1>3, <2>1, <2>3, PriorFrames DEF Inv, StateInv
(* What an import does is no request's. *)
<1>4. ASSUME NEW t \in Transactions,
             UNCHANGED <<log, forgotten>>,
             t \in Requests => wlog'[t] = {},
             \A u \in Requests \ {t} : /\ wlog'[u] = wlog[u] /\ pc'[u] = pc[u]
                                       /\ \A f \in todo'[u] : f \in todo[u]
      PROVE  PriorInv'
  <2>1. \A c \in Cards : Whole(c)' => Whole(c)
    BY <1>4 DEF Whole
  <2>2. \A u \in Requests \ {t} : \A r \in wlog[u] : Seen(u, r.card)' = Seen(u, r.card)
    BY <1>4 DEF Seen, LogSeen
  <2>3. \A u \in Requests : \A r \in wlog'[u] :
           /\ r \in wlog[u] /\ r.card \in Cards
           /\ Seen(u, r.card)' = Seen(u, r.card)
           /\ \A f \in todo'[u] : f \in todo[u]
    BY <1>1, <1>2, <1>4, <2>2
  <2>4. \A u \in Requests : pc'[u] = "dedup" =>
           wlog'[u] = {} \/ (pc[u] = "dedup" /\ wlog'[u] = wlog[u])
    BY <1>4
  <2> QED BY <2>1, <2>3, <2>4, PriorFrames DEF Inv, StateInv
<1>5. ASSUME NEW t \in Transactions, ~ Locked(t) PROVE wlog[t] = {}
  BY <1>2, <1>5 DEF Inv, LogInv, BufferInv
<1>6. \A t \in Imports : t \in Transactions /\ t \notin Requests
  BY InputAssumption DEF Transactions
<1>7. ASSUME NEW t \in Transactions, Abort(t) PROVE PriorInv'
  BY <1>1, <1>4, <1>7, AbortViews DEF Inv
<1>8. ASSUME NEW t \in Transactions, Commit(t) PROVE PriorInv'
  <2>1. /\ UNCHANGED <<forgotten, todo>> /\ wlog'[t] = {}
        /\ \A u \in Transactions \ {t} :
              /\ wlog'[u] = wlog[u] /\ pc'[u] = pc[u]
              /\ \A d \in Cards : Locked(u) /\ d \in Own(u) => Seen(u, d)' = Seen(u, d)
    BY <1>8, CommitViews DEF Inv, LogInv
  <2>2. \A c \in Cards : Whole(c)' => Whole(c)
    BY <2>1 DEF Whole
  <2>3. \A u \in Transactions : \A r \in wlog[u] : Locked(u) /\ r.card \in Own(u)
    BY <1>2 DEF Inv, LogInv, BufferInv
  <2>4. \A u \in Requests : \A r \in wlog'[u] :
           /\ r \in wlog[u] /\ r.card \in Cards
           /\ Seen(u, r.card)' = Seen(u, r.card)
           /\ \A f \in todo'[u] : f \in todo[u]
    BY <1>1, <1>2, <2>1, <2>3
  <2>5. \A u \in Requests : pc'[u] = "dedup" =>
           wlog'[u] = {} \/ (pc[u] = "dedup" /\ wlog'[u] = wlog[u])
    BY <1>1, <2>1
  <2> QED BY <2>2, <2>4, <2>5, PriorFrames DEF Inv, StateInv
<1>9. ASSUME NEW t \in Transactions, NEW k \in Keys, AcquireLock(t, k)
      PROVE  PriorInv'
  <2>1. UNCHANGED <<log, forgotten, wlog, todo>> /\ pc[t] = "lock"
        /\ \A u \in Transactions \ {t} : pc'[u] = pc[u]
    BY <1>9 DEF AcquireLock, tables, Inv, ProtoInv, TypeInv, TypeOK
  <2>2. wlog[t] = {}
    BY <1>5, <2>1 DEF Locked
  <2> QED BY <1>1, <1>3, <2>1, <2>2
<1>10. ASSUME NEW t \in Requests, GradeStep(t) PROVE PriorInv'
  <2>1. CASE Authorise(t)
    <3>1. /\ UNCHANGED <<log, forgotten, wlog, todo>>
          /\ \A u \in Transactions : pc'[u] = "dedup" => pc[u] = "dedup"
      BY <2>1 DEF Authorise, tables, Inv, ProtoInv, TypeInv, TypeOK
    <3> QED BY <1>1, <1>3, <3>1
  <2>2. CASE FilterExisting(t)
    <3>1. wlog[t] = {} /\ UNCHANGED <<log, forgotten, wlog>>
      BY <2>2 DEF FilterExisting, tables, Inv, StateInv, PriorInv
    <3>2. \A u \in Transactions \ {t} : todo'[u] = todo[u] /\ pc'[u] = pc[u]
      BY <2>2 DEF FilterExisting, Inv, ProtoInv, TypeInv, TypeOK
    <3> QED BY <1>1, <1>4, <3>1, <3>2
  <2>3. CASE \E e \in todo[t] : ReadState(t, e)
    BY <1>3, <2>3 DEF ReadState, tables
  <2>4. CASE GradeTaken(t)
    <3>1. /\ UNCHANGED <<log, forgotten, wlog>>
          /\ \A u \in Transactions :
                /\ \A f \in todo'[u] : f \in todo[u]
                /\ pc'[u] = "dedup" => pc[u] = "dedup"
      BY <2>4 DEF GradeTaken, Finish, tables, Inv, ProtoInv, TypeInv, TypeOK
    <3>2. \A c \in Cards : Whole(c)' => Whole(c)
      BY <3>1 DEF Whole
    <3>3. \A u \in Requests : \A r \in wlog[u] : Seen(u, r.card)' = Seen(u, r.card)
      BY <3>1 DEF Seen, LogSeen
    <3>4. \A u \in Requests : \A r \in wlog'[u] :
             /\ r \in wlog[u] /\ r.card \in Cards
             /\ Seen(u, r.card)' = Seen(u, r.card)
             /\ \A f \in todo'[u] : f \in todo[u]
      BY <1>1, <1>2, <3>1, <3>3
    <3> QED BY <1>1, <3>1, <3>2, <3>4, PriorFrames DEF Inv, StateInv
  <2> QED BY <1>10, <2>1, <2>2, <2>3, <2>4, GradeKeepsPriors DEF GradeStep
<1>11. ASSUME NEW t \in Imports, ImportStep(t) PROVE PriorInv'
  <2>1. ASSUME NEW c \in Cards, ImportReviews(t, c) PROVE PriorInv'
    <3>1. /\ Writes(t, c, NewRows(t, c),
                    Rebuild(t, c, LogOf(LogSeen(t) \cup NewRows(t, c), c)))
          /\ pc' = pc /\ \A u \in Transactions \ {t} : todo'[u] = todo[u]
      BY <2>1, ImportWrites DEF Inv, LogInv
    <3>2. /\ UNCHANGED <<log, forgotten>>
          /\ \A u \in Transactions \ {t} : wlog'[u] = wlog[u]
      BY <3>1 DEF Writes, Inv, ProtoInv, TypeInv, TypeOK
    <3> QED BY <1>1, <1>4, <1>6, <3>1, <3>2
  <2>2. CASE SeedCardStates(t)
    <3>1. /\ UNCHANGED <<log, forgotten, wlog, todo>>
          /\ \A u \in Transactions \ {t} : pc'[u] = pc[u]
      BY <2>2 DEF SeedCardStates, tables, Inv, ProtoInv, TypeInv, TypeOK
    <3> QED BY <1>1, <1>4, <1>6, <3>1
  <2> QED BY <1>11, <2>1, <2>2 DEF ImportStep
<1>12. ASSUME NEW t \in Imports, Import(t) PROVE PriorInv'
  <2>1. /\ UNCHANGED <<log, forgotten, wlog>>
        /\ \A u \in Transactions \ {t} : todo'[u] = todo[u] /\ pc'[u] = pc[u]
    BY <1>12 DEF Import, tables, Inv, ProtoInv, TypeInv, TypeOK
  <2> QED BY <1>1, <1>4, <1>6, <2>1
<1>13. ASSUME NEW t \in Requests, Post(t) PROVE PriorInv'
  <2>1. /\ UNCHANGED <<log, forgotten, wlog, todo>>
        /\ \A u \in Transactions : pc'[u] = "dedup" => pc[u] = "dedup"
    BY <1>13 DEF Post, tables, Inv, ProtoInv, TypeInv, TypeOK
  <2> QED BY <1>1, <1>3, <2>1
<1>14. ASSUME NEW deck \in ResetDecks, ResetProgress(deck) PROVE PriorInv'
  <2>1. /\ UNCHANGED <<log, wlog, todo, pc>>
        /\ \A d \in Cards : Whole(d)' => Whole(d)
    BY <1>14, ResetViews DEF Inv
  <2>2. \A u \in Requests : \A r \in wlog[u] : Seen(u, r.card)' = Seen(u, r.card)
    BY <2>1 DEF Seen, LogSeen
  <2>3. \A u \in Requests : \A r \in wlog'[u] :
           /\ r \in wlog[u] /\ r.card \in Cards
           /\ Seen(u, r.card)' = Seen(u, r.card)
           /\ \A f \in todo'[u] : f \in todo[u]
    BY <1>1, <1>2, <2>1, <2>2
  <2> QED BY <2>1, <2>3, PriorFrames DEF Inv, StateInv
<1>15. CASE \/ \E c \in Touched, value \in BOOLEAN : SetSuspended(c, value)
            \/ \E c \in Revoked : RevokeStudy(c)
            \/ Tick \/ Quiet \/ UNCHANGED vars
  BY <1>3, <1>15 DEF SetSuspended, RevokeStudy, Tick, Quiet, vars, txVars, tables
<1> QED BY <1>7, <1>8, <1>9, <1>10, <1>11, <1>12, <1>13, <1>14, <1>15
        DEF Next, Progress

-----------------------------------------------------------------------------
LEMMA StateInit == Init => StateInv
<1> SUFFICES ASSUME Init PROVE StateInv
  OBVIOUS
<1>1. /\ log = {} /\ \A c \in Cards : ucs[c] = NoRow
      /\ \A t \in Transactions : /\ held[t] = Nothing /\ wlog[t] = {}
                                 /\ \A c \in Cards : wucs[t][c] = Unwritten
  BY DEF Init
<1>2. RowInv
  <2>1. StepsOf(NoRow) = {} /\ Known(NoRow) = {} /\ Replay({}) = {}
    BY DEF StepsOf, NewCard, Known, Reviewed, Replay
  <2>2. \A c : Sound(NoRow, {}, c) /\ Fits(NoRow, {})
    BY <2>1, FS_EmptySet DEF Sound, Fits, LastOf
  <2>3. \A c : LogOf(log, c) = {}
    BY <1>1 DEF LogOf
  <2> QED BY <1>1, <2>2, <2>3 DEF RowInv, Good
<1>3. HeldInv /\ KeepInv
  BY <1>1 DEF HeldInv, KeepInv
<1>4. PriorInv
  BY <1>1 DEF PriorInv, Transactions
<1> QED BY <1>2, <1>3, <1>4 DEF StateInv

LEMMA InvInit == Init => Inv
  BY ProtoInit, LogInit, StateInit DEF Inv

LEMMA InvStep == Inv /\ [Next]_vars => Inv'
  BY ProtoStep, LogStep, RowStep, HeldStep, KeepStep, PriorStep DEF Inv, StateInv

-----------------------------------------------------------------------------
(* What the invariant says of the committed tables. *)

LEMMA InvMatches == Inv => StateMatchesLog /\ NewestReviewWins
<1> SUFFICES ASSUME Inv PROVE StateMatchesLog /\ NewestReviewWins
  OBVIOUS
<1>1. \A c \in Cards : Good(ucs[c], LogOf(log, c), c)
  BY DEF Inv, StateInv, RowInv
<1>2. StoredIsReplay
  BY <1>1 DEF StoredIsReplay, Regular, Whole, Good, Fits
<1>3. SelfConsistent
  <2> SUFFICES ASSUME NEW c \in Cards
               PROVE  /\ Known(ucs[c]) # {} => ucs[c].last = LastReviewedAt(Known(ucs[c]))
                      /\ TieFree(Known(ucs[c])) => StepsOf(ucs[c]) = Replay(Known(ucs[c]))
                      /\ Unseeded(c) => Known(ucs[c]) \subseteq LogOf(log, c)
    BY DEF SelfConsistent, Known
  <2> QED BY <1>1 DEF Good, Sound
<1>4. NewestReviewWins
  <2> SUFFICES ASSUME NEW c \in Cards, Whole(c), LogOf(log, c) # {}
               PROVE  ucs[c] # NoRow /\ ucs[c].last = LastReviewedAt(LogOf(log, c))
    BY DEF NewestReviewWins, Whole
  <2>1. LogOf(log, c) \subseteq Entries /\ IsFiniteSet(LogOf(log, c))
    BY LogOfType DEF Inv, ProtoInv, TypeInv, TypeOK, FiniteLogs
  <2>2. LastReviewedAt(LogOf(log, c)) \in Int
    BY <2>1, LastIsNewest
  <2>3. LastOf(ucs[c]) = LastReviewedAt(LogOf(log, c))
    BY <1>1 DEF Good, Fits
  <2> QED BY <2>2, <2>3, SentinelAssumption DEF LastOf
<1> QED BY <1>2, <1>3, <1>4 DEF StateMatchesLog

(* Only a commit changes the log. *)
LEMMA LogChange ==
    ASSUME Inv, Next \/ UNCHANGED vars
    PROVE  \/ log' = log
           \/ \E t \in Transactions : Commit(t)
<1>1. ASSUME NEW t \in Requests, GradeStep(t) PROVE log' = log
  BY <1>1 DEF GradeStep, Authorise, FilterExisting, ReadState, GradeTaken,
              GradeInOrder, GradeOutOfOrder, Append, Finish, tables
<1>2. ASSUME NEW t \in Imports, ImportStep(t) PROVE log' = log
  BY <1>2 DEF ImportStep, ImportReviews, SeedCardStates, tables
<1>3. ASSUME NEW t \in Transactions, Abort(t) \/ \E k \in Keys : AcquireLock(t, k)
      PROVE  log' = log
  BY <1>3 DEF Abort, AcquireLock, tables
<1> QED BY <1>1, <1>2, <1>3 DEF Next, Progress, Post, Import, SetSuspended,
           ResetProgress, RevokeStudy, Tick, Quiet, vars, txVars, tables

(* Only a commit, the settings upsert and a reset change a row. *)
LEMMA RowChange ==
    ASSUME Inv, Next \/ UNCHANGED vars
    PROVE  \/ ucs' = ucs
           \/ \E t \in Transactions : Commit(t)
           \/ \E c \in Touched, value \in BOOLEAN : SetSuspended(c, value)
           \/ \E deck \in ResetDecks : ResetProgress(deck)
<1>1. ASSUME NEW t \in Requests, GradeStep(t) PROVE ucs' = ucs
  BY <1>1 DEF GradeStep, Authorise, FilterExisting, ReadState, GradeTaken,
              GradeInOrder, GradeOutOfOrder, Append, Finish, tables
<1>2. ASSUME NEW t \in Imports, ImportStep(t) PROVE ucs' = ucs
  BY <1>2 DEF ImportStep, ImportReviews, SeedCardStates, tables
<1>3. ASSUME NEW t \in Transactions, Abort(t) \/ \E k \in Keys : AcquireLock(t, k)
      PROVE  ucs' = ucs
  BY <1>3 DEF Abort, AcquireLock, tables
<1> QED BY <1>1, <1>2, <1>3 DEF Next, Progress, Post, Import,
           RevokeStudy, Tick, Quiet, vars, txVars, tables

LEMMA StepIsTruthful ==
    ASSUME Inv, Next \/ UNCHANGED vars, NEW r \in log' \ log,
           NEW c, c = r.card, ~ r.imported,
           Unseeded(c), forgotten'[c] = {}, TieFree(LogOf(log', c))
    PROVE  r.prior = PriorTo(LogOf(log', c), Entry(r))
<1>1. PICK t \in Transactions : Commit(t)
  BY LogChange
<1>2. /\ log' = log \cup wlog[t] /\ forgotten' = forgotten
      /\ \A d \in Cards : LogOf(log', d) = Seen(t, d)
  BY <1>1, CommitViews DEF Inv, LogInv, LogSeen
<1>3. r \in wlog[t] /\ c \in Cards
  BY <1>2 DEF Inv, ProtoInv, TypeInv, TypeOK, LogRows
<1>4. t \in Requests
  BY <1>3 DEF Inv, LogInv, KeyInv, Transactions
<1>5. PriorRight(t, r)
  BY <1>3, <1>4 DEF Inv, StateInv, PriorInv
<1>6. LogOf(log', c) = Seen(t, c) /\ Whole(c)
  BY <1>2, <1>3 DEF Whole
<1> QED BY <1>5, <1>6 DEF PriorRight

(* A commit's row knows what the row it replaces knew, and keeps its       *)
(* settings.                                                               *)
LEMMA CommitKeeps ==
    ASSUME Inv, NEW t \in Transactions, Commit(t), NEW c \in Cards
    PROVE  /\ Unseeded(c) => Known(ucs[c]) \subseteq Known(ucs'[c])
           /\ ucs[c] # NoRow => /\ ucs'[c] # NoRow
                                /\ ucs'[c].suspended = ucs[c].suspended
<1>1. ucs'[c] = RowSeen(t, c)
  BY CommitViews DEF Inv, LogInv
<1> QED BY <1>1, ViewKeeps DEF Inv, LogInv, StateInv

LEMMA StepUnlearnsNothing ==
    ASSUME Inv, Next \/ UNCHANGED vars
    PROVE  /\ log \subseteq log'
           /\ \A c \in Cards :
                \/ Known(ucs[c]) \subseteq Known(ucs'[c])
                \/ ~ Unseeded(c)
                \/ \E deck \in ResetDecks : c \in deck /\ ResetProgress(deck)
<1>1. log \subseteq log'
  BY LogChange DEF Commit, LogSeen
<1>2. ASSUME NEW c \in Cards, Unseeded(c),
             ~ \E deck \in ResetDecks : c \in deck /\ ResetProgress(deck)
      PROVE  Known(ucs[c]) \subseteq Known(ucs'[c])
  <2>1. CASE \E t \in Transactions : Commit(t)
    BY <1>2, <2>1, CommitKeeps
  <2>2. CASE \E d \in Touched, value \in BOOLEAN : SetSuspended(d, value)
    <3>1. StepsOf(ucs'[c]) = StepsOf(ucs[c])
      BY <2>2, SuspendViews DEF Inv
    <3> QED BY <3>1 DEF Known
  <2>3. CASE \E deck \in ResetDecks : ResetProgress(deck)
    <3>1. PICK deck \in ResetDecks : ResetProgress(deck)
      BY <2>3
    <3>2. c \notin deck
      BY <1>2, <3>1
    <3>3. ucs'[c] = ucs[c]
      BY <3>1, <3>2 DEF ResetProgress
    <3> QED BY <3>3
  <2> QED BY <2>1, <2>2, <2>3, RowChange
<1> QED BY <1>1, <1>2

LEMMA StepKeepsSettings ==
    ASSUME Inv, Next \/ UNCHANGED vars, NEW c \in Cards, pc' # pc,
           ucs[c] # NoRow
    PROVE  ucs'[c] # NoRow /\ ucs'[c].suspended = ucs[c].suspended
<1>1. ~ \E d \in Touched, value \in BOOLEAN : SetSuspended(d, value)
  BY DEF SetSuspended, txVars
<1>2. ~ \E deck \in ResetDecks : ResetProgress(deck)
  BY DEF ResetProgress, txVars
<1> QED BY <1>1, <1>2, RowChange, CommitKeeps

-----------------------------------------------------------------------------
(* user_card_state is the replay of review_log, or for the cards that were *)
(* seeded, reset or reviewed twice at an instant, of the part of it that   *)
(* it knows, whatever order batches, retries and imports come in.          *)
THEOREM StateFollowsLog == Spec => []StateMatchesLog
<1>1. Inv => StateMatchesLog
  BY InvMatches
<1> QED BY <1>1, InvInit, InvStep, PTL DEF Spec

(* The replay half of StateMatchesLog on its own. *)
THEOREM StoredStateIsReplay == Spec => []StoredIsReplay
<1>1. Inv => StoredIsReplay
  BY InvMatches DEF StateMatchesLog
<1> QED BY <1>1, InvInit, InvStep, PTL DEF Spec

(* last_review is the reviewed_at of the newest row of the card's log,     *)
(* also where two reviews share it.                                        *)
THEOREM NewestWins == Spec => []NewestReviewWins
<1>1. Inv => NewestReviewWins
  BY InvMatches
<1> QED BY <1>1, InvInit, InvStep, PTL DEF Spec

(* The prior state a graded review is logged with is the replay of every   *)
(* review of the card that sorts before it, at the instant it commits.     *)
THEOREM PriorsAreTrue == Spec => TruthfulPriors
<1>1. Inv /\ [Next]_vars =>
        \A r \in log' \ log : Regular(r.card)' /\ ~ r.imported =>
            r.prior = PriorTo(LogOf(log', r.card), Entry(r))
  <2> SUFFICES ASSUME Inv, Next \/ UNCHANGED vars, NEW r \in log' \ log,
                      Regular(r.card)', ~ r.imported
               PROVE  r.prior = PriorTo(LogOf(log', r.card), Entry(r))
    OBVIOUS
  <2> QED BY StepIsTruthful DEF Regular, Unseeded
<1> QED BY <1>1, InvInit, InvStep, PTL DEF Spec, TruthfulPriors

(* No commit undoes another one's: log rows stay, a state forgets a review *)
(* it was built from only by a reset of that card, and batches and imports *)
(* leave the user's settings as they find them when they commit.           *)
THEOREM CommitsUndoNothing == Spec => NothingUndone
<1>1. Inv /\ [Next]_vars =>
        /\ log \subseteq log'
        /\ \A c \in Cards :
              \/ Reviewed(StepsOf(ucs[c])) \subseteq Reviewed(StepsOf(ucs'[c]))
              \/ ~ Unseeded(c)
              \/ \E deck \in ResetDecks : c \in deck /\ ResetProgress(deck)
  BY StepUnlearnsNothing DEF Known
<1>2. Inv /\ [Next]_vars =>
        \A c \in Cards : pc' # pc /\ ucs[c] # NoRow =>
            ucs'[c] # NoRow /\ ucs'[c].suspended = ucs[c].suspended
  BY StepKeepsSettings
<1> QED BY <1>1, <1>2, InvInit, InvStep, PTL
        DEF Spec, NothingUndone, NothingUnlearned, SettingsKept

-----------------------------------------------------------------------------
(***************************************************************************)
(* Grading implements the ledger.  A transaction's buffer is what its      *)
(* batch or package will have added when it commits (LandInv), and at a    *)
(* commit the whole of it lands at once, which is a step of ReviewLedger.  *)
(***************************************************************************)

Answered == {"applied", "duplicate"}

(* What GradeBatch makes of a post. *)
Adjusting(post, clock, allowed) ==
    {Adjusted(e, clock) : e \in {x \in post : Believable(x, clock) /\ x.card \in allowed}}

Adjusts(entries) == \E post \in Posts, clock \in 0 .. MaxNow, allowed \in SUBSET Cards :
                       entries = Adjusting(post, clock, allowed)

(* A batch is a post, adjusted at one reading of the clock; what it has    *)
(* done with is answered; and what it writes is of its events.             *)
BatchLands(t) ==
    /\ pc[t] = "authorise" => work[t] \in Posts
    /\ pc[t] \in {"lock", "dedup", "grade", "commit"} =>
          Adjusts(work[t])
    /\ pc[t] \in {"grade", "commit"} =>
          \A id \in EventIds :
              results[t][id] \in Answered <=> id \in IdsOf(work[t] \ todo[t])
    /\ pc[t] = "commit" => todo[t] = {}
    /\ \A r \in wlog[t] : \E e \in work[t] : r.card = e.card /\ Entry(r) = Entry(e)

(* Of the reviews an import is done with, those that were not in the log.  *)
Brought(t, c) ==
    {Entry(e) : e \in {x \in work[t] \ todo[t] :
                         x.card = c /\ \A f \in LogOf(log, c) : f.id # x.id}}

(* An import is a package, and its buffer is what it brought. *)
ImportLands(t) ==
    /\ pc[t] \in {"lock", "import", "commit"} =>
          \E p \in Packages : work[t] = p.reviews
    /\ pc[t] = "lock" => todo[t] = work[t]
    /\ pc[t] \in {"import", "commit"} =>
          \A c \in Cards : LogOf(wlog[t], c) = Brought(t, c)
    /\ pc[t] = "commit" => todo[t] = {}

LandInv == /\ \A t \in Requests : BatchLands(t)
           /\ \A t \in Imports : ImportLands(t)

-----------------------------------------------------------------------------
(* What a transaction does is its own affair while the log stays. *)
LEMMA LandFrame ==
    ASSUME LandInv, NEW t, log' = log,
           \A u \in Transactions \ {t} :
              /\ pc'[u] = pc[u] /\ work'[u] = work[u] /\ todo'[u] = todo[u]
              /\ results'[u] = results[u] /\ wlog'[u] = wlog[u],
           t \in Requests => BatchLands(t)',
           t \in Imports => ImportLands(t)'
    PROVE  LandInv'
<1>1. ASSUME NEW u \in Requests, u # t PROVE BatchLands(u)'
  <2>1. /\ pc'[u] = pc[u] /\ work'[u] = work[u] /\ todo'[u] = todo[u]
        /\ results'[u] = results[u] /\ wlog'[u] = wlog[u]
    BY <1>1 DEF Transactions
  <2>2. BatchLands(u)
    BY DEF LandInv
  <2> QED BY <2>1, <2>2 DEF BatchLands
<1>2. ASSUME NEW u \in Imports, u # t PROVE ImportLands(u)'
  <2>1. /\ pc'[u] = pc[u] /\ work'[u] = work[u] /\ todo'[u] = todo[u]
        /\ results'[u] = results[u] /\ wlog'[u] = wlog[u]
    BY <1>2 DEF Transactions
  <2>2. ImportLands(u)
    BY DEF LandInv
  <2>3. \A c : Brought(u, c)' = Brought(u, c)
    BY <2>1 DEF Brought
  <2> QED BY <2>1, <2>2, <2>3 DEF ImportLands
<1> QED BY <1>1, <1>2 DEF LandInv

(* A transaction that has not its locks has written nothing. *)
LEMMA NothingWritten ==
    ASSUME TypeInv, BufferInv, NEW t \in Transactions, ~ Locked(t)
    PROVE  wlog[t] = {}
<1> SUFFICES ASSUME NEW r \in wlog[t] PROVE FALSE
  OBVIOUS
<1>1. r.card \in Cards
  BY DEF TypeInv, TypeOK, LogRows
<1> QED BY <1>1 DEF BufferInv

LEMMA PostLands ==
    ASSUME ProtoInv, LogInv, LandInv, NEW t \in Requests, Post(t)
    PROVE  LandInv'
<1>1. t \in Transactions /\ t \notin Imports
  BY InputAssumption DEF Transactions
<1>2. /\ pc[t] = "idle" /\ UNCHANGED <<log, todo, results, wlog>>
      /\ \A u \in Transactions \ {t} : pc'[u] = pc[u] /\ work'[u] = work[u]
      /\ pc'[t] = "authorise" /\ work'[t] \in Posts
  BY <1>1 DEF Post, tables, ProtoInv, TypeInv, TypeOK
<1>3. wlog[t] = {}
  BY <1>1, <1>2, NothingWritten DEF Locked, ProtoInv, LogInv
<1>4. BatchLands(t)'
  BY <1>2, <1>3 DEF BatchLands
<1> QED BY <1>1, <1>2, <1>4, LandFrame

(* The top of GradeBatch adjusts the post against the clock it reads. *)
LEMMA AuthoriseLands ==
    ASSUME ProtoInv, LogInv, LandInv, NEW t \in Requests, Authorise(t)
    PROVE  LandInv'
<1> DEFINE toGrade == Adjusting(work[t], now, studyable)
<1>1. t \in Transactions /\ t \notin Imports
  BY InputAssumption DEF Transactions
<1>2. {Adjusted(e, now) : e \in {x \in {e \in work[t] : Believable(e, now)} : x.card \in studyable}}
        = toGrade
  BY DEF Adjusting
<1>3. /\ pc[t] = "authorise" /\ UNCHANGED <<log, todo, wlog>>
      /\ work' = [work EXCEPT ![t] = toGrade]
      /\ pc' = [pc EXCEPT ![t] = IF toGrade = {} THEN "commit" ELSE "lock"]
      /\ \E answer : results' = [results EXCEPT ![t] = answer]
  BY <1>2 DEF Authorise, tables
<1>4. work[t] \in Posts /\ now \in 0 .. MaxNow /\ studyable \in SUBSET Cards
  BY <1>3 DEF LandInv, BatchLands, ProtoInv, TypeInv, TypeOK
<1>5. todo[t] = {} /\ wlog[t] = {}
  BY <1>1, <1>3, NothingWritten DEF Locked, ProtoInv, LogInv, WorkInv
<1>6. \A id \in EventIds : results'[t][id] \notin Answered
  <2>1. \A id \in EventIds : results'[t][id] \in {"forbidden", "rejected", "none"}
    <3> DEFINE live    == {e \in work[t] : Believable(e, now)}
               Answer(id) ==
                 IF \E e \in live : e.id = id /\ e.card \notin studyable
                 THEN "forbidden"
                 ELSE IF id \in IdsOf(work[t] \ live) THEN "rejected" ELSE "none"
               answer == [id \in EventIds |-> Answer(id)]
    <3>1. results' = [results EXCEPT ![t] = answer]
      BY DEF Authorise
    <3>2. \A id \in EventIds : answer[id] \in {"forbidden", "rejected", "none"}
      OBVIOUS
    <3> HIDE DEF answer
    <3> QED BY <1>1, <3>1, <3>2 DEF ProtoInv, TypeInv, TypeOK
  <2> QED BY <2>1 DEF Answered
<1> HIDE DEF toGrade
<1>7. work'[t] = toGrade /\ pc'[t] \in {"commit", "lock"} /\ (pc'[t] = "commit" => toGrade = {})
      /\ \A u \in Transactions \ {t} : /\ pc'[u] = pc[u] /\ work'[u] = work[u]
                                       /\ results'[u] = results[u]
  BY <1>1, <1>3 DEF ProtoInv, TypeInv, TypeOK
<1>8. BatchLands(t)'
  <2>1. Adjusts(work'[t])
    BY <1>4, <1>7 DEF toGrade, Adjusts
  <2>2. pc'[t] = "commit" => \A id \in EventIds : id \notin IdsOf(work'[t] \ todo'[t])
    BY <1>7 DEF IdsOf
  <2> QED BY <1>3, <1>5, <1>6, <1>7, <2>1, <2>2 DEF BatchLands
<1> QED BY <1>1, <1>3, <1>7, <1>8, LandFrame

LEMMA LockLands ==
    ASSUME ProtoInv, LogInv, LandInv, NEW t \in Transactions, NEW k \in Keys, AcquireLock(t, k)
    PROVE  LandInv'
<1>1. /\ pc[t] = "lock" /\ UNCHANGED <<log, work, todo, results, wlog>>
      /\ \A u \in Transactions \ {t} : pc'[u] = pc[u]
      /\ pc'[t] \in {"lock", "dedup", "import"}
      /\ t \in Requests => pc'[t] \in {"lock", "dedup"}
      /\ t \in Imports => pc'[t] \in {"lock", "import"}
  BY InputAssumption DEF AcquireLock, tables, ProtoInv, TypeInv, TypeOK
<1>2. ASSUME t \in Requests PROVE BatchLands(t)'
  BY <1>1, <1>2 DEF LandInv, BatchLands
<1>3. ASSUME t \in Imports PROVE ImportLands(t)'
  <2>1. wlog[t] = {}
    BY <1>1, NothingWritten DEF Locked, ProtoInv, LogInv
  <2>2. todo[t] = work[t]
    BY <1>1, <1>3 DEF LandInv, ImportLands
  <2>3. \A c \in Cards : LogOf(wlog'[t], c) = {} /\ Brought(t, c)' = {}
    BY <1>1, <2>1, <2>2 DEF LogOf, Brought
  <2> QED BY <1>1, <1>3, <2>2, <2>3 DEF LandInv, ImportLands
<1> QED BY <1>1, <1>2, <1>3, LandFrame

LEMMA FilterLands ==
    ASSUME ProtoInv, LogInv, LandInv, NEW t \in Requests, FilterExisting(t)
    PROVE  LandInv'
<1> DEFINE fresh == {e \in work[t] : e.id \notin IdsOf(log)}
<1>1. t \in Transactions /\ t \notin Imports
  BY InputAssumption DEF Transactions
<1>2. /\ pc[t] = "dedup" /\ UNCHANGED <<log, work, wlog>>
      /\ todo' = [todo EXCEPT ![t] = fresh]
      /\ pc' = [pc EXCEPT ![t] = IF fresh = {} THEN "commit" ELSE "grade"]
      /\ results' = [results EXCEPT ![t] =
                       [id \in EventIds |-> IF id \in IdsOf(work[t] \ fresh)
                                            THEN "duplicate" ELSE results[t][id]]]
  BY <1>1 DEF FilterExisting, tables, ProtoInv, TypeInv, TypeOK
<1> HIDE DEF fresh
<1>3. /\ todo'[t] = fresh /\ pc'[t] \in {"commit", "grade"} /\ (pc'[t] = "commit" => fresh = {})
      /\ \A id \in EventIds : results'[t][id] = IF id \in IdsOf(work[t] \ fresh)
                                                THEN "duplicate" ELSE results[t][id]
      /\ \A u \in Transactions \ {t} : /\ pc'[u] = pc[u] /\ todo'[u] = todo[u]
                                       /\ results'[u] = results[u]
  BY <1>1, <1>2 DEF ProtoInv, TypeInv, TypeOK
<1>4. \A id \in EventIds : results[t][id] \notin Answered
  BY <1>2 DEF Answered, LogInv, ResultInv
<1>5. BatchLands(t)'
  <2>1. /\ Adjusts(work[t])
        /\ \A r \in wlog[t] : \E e \in work[t] : r.card = e.card /\ Entry(r) = Entry(e)
    BY <1>2 DEF LandInv, BatchLands
  <2>2. \A id \in EventIds : results'[t][id] \in Answered <=> id \in IdsOf(work'[t] \ todo'[t])
    BY <1>2, <1>3, <1>4 DEF Answered
  <2> QED BY <1>2, <1>3, <2>1, <2>2 DEF BatchLands
<1> QED BY <1>1, <1>2, <1>3, <1>5, LandFrame

(* A graded event is answered, and either was there or is in the buffer. *)
LEMMA FinishLands ==
    ASSUME ProtoInv, LogInv, LandInv, NEW t \in Requests, held[t] # Nothing,
           NEW status \in Answered, Finish(t, held[t].event, status), log' = log,
           \A u \in Transactions \ {t} : wlog'[u] = wlog[u],
           \A r \in wlog'[t] : \/ r \in wlog[t]
                               \/ /\ r.card = held[t].event.card
                                  /\ Entry(r) = Entry(held[t].event)
    PROVE  LandInv'
<1> DEFINE e == held[t].event
<1>1. t \in Transactions /\ t \notin Imports
  BY InputAssumption DEF Transactions
<1>2. e \in todo[t] /\ e \in work[t] /\ pc[t] = "grade" /\ todo[t] \subseteq work[t]
  BY <1>1, HeldIsOwn DEF LogInv, WorkInv
<1> HIDE DEF e
<1>3. /\ work' = work /\ todo'[t] = todo[t] \ {e} /\ pc'[t] \in {"commit", "grade"}
      /\ pc'[t] = "commit" => todo'[t] = {}
      /\ \A id \in EventIds : results'[t][id] = IF id = e.id THEN status ELSE results[t][id]
      /\ \A u \in Transactions \ {t} : /\ pc'[u] = pc[u] /\ todo'[u] = todo[u]
                                       /\ results'[u] = results[u]
  BY <1>1 DEF e, Finish, ProtoInv, TypeInv, TypeOK
<1>4. \A id \in EventIds :
         results'[t][id] \in Answered <=> id \in IdsOf(work'[t] \ todo'[t])
  <2>1. work'[t] \ todo'[t] = (work[t] \ todo[t]) \cup {e}
    BY <1>2, <1>3
  <2>2. IdsOf(work'[t] \ todo'[t]) = IdsOf(work[t] \ todo[t]) \cup {e.id}
    BY <2>1 DEF IdsOf
  <2>3. \A id \in EventIds : results[t][id] \in Answered <=> id \in IdsOf(work[t] \ todo[t])
    BY <1>2 DEF LandInv, BatchLands
  <2> QED BY <1>3, <2>2, <2>3
<1>5. \A r \in wlog'[t] : \E f \in work[t] : r.card = f.card /\ Entry(r) = Entry(f)
  BY <1>2 DEF e, LandInv, BatchLands
<1>6. BatchLands(t)'
  <2>1. Adjusts(work'[t])
    BY <1>2, <1>3 DEF LandInv, BatchLands
  <2> QED BY <1>3, <1>4, <1>5, <2>1 DEF BatchLands
<1> QED BY <1>1, <1>3, <1>6, LandFrame

LEMMA GradeLands ==
    ASSUME ProtoInv, LogInv, LandInv, NEW t \in Requests,
           GradeTaken(t) \/ GradeInOrder(t) \/ GradeOutOfOrder(t)
    PROVE  LandInv'
<1>1. CASE GradeTaken(t)
  <2>1. /\ held[t] # Nothing /\ Finish(t, held[t].event, "duplicate")
        /\ UNCHANGED <<log, wlog>>
    BY <1>1 DEF GradeTaken, Finish, tables
  <2> QED BY <2>1, FinishLands DEF Answered
<1>2. CASE GradeInOrder(t) \/ GradeOutOfOrder(t)
  <2> DEFINE e == held[t].event
  <2>1. held[t] # Nothing /\ Finish(t, e, "applied")
        /\ \E prior : \E row : Writes(t, e.card, {LogRow(e, prior)}, row)
    BY <1>2, GradeWrites DEF LogInv
  <2>2. PICK prior, row : Writes(t, e.card, {LogRow(e, prior)}, row)
    BY <2>1
  <2>3. LogRow(e, prior).card = e.card /\ Entry(LogRow(e, prior)) = Entry(e)
    BY DEF LogRow, Entry
  <2>4. /\ log' = log
        /\ \A u \in Transactions : wlog'[u] = IF u = t THEN wlog[t] \cup {LogRow(e, prior)}
                                                       ELSE wlog[u]
    BY <2>2 DEF Writes, ProtoInv, TypeInv, TypeOK
  <2>5. t \in Transactions
    BY DEF Transactions
  <2> HIDE DEF e
  <2>6. \A r \in wlog'[t] : r \in wlog[t] \/ (r.card = e.card /\ Entry(r) = Entry(e))
    BY <2>3, <2>4, <2>5
  <2> QED BY <2>1, <2>4, <2>6, FinishLands DEF e, Answered
<1> QED BY <1>1, <1>2
LEMMA BeginImportLands ==
    ASSUME ProtoInv, LogInv, LandInv, NEW t \in Imports, Import(t)
    PROVE  LandInv'
<1>1. t \in Transactions /\ t \notin Requests
  BY InputAssumption DEF Transactions
<1>2. PICK p \in Packages : /\ work' = [work EXCEPT ![t] = p.reviews]
                            /\ todo' = [todo EXCEPT ![t] = p.reviews]
  BY DEF Import
<1>3. /\ UNCHANGED <<log, results, wlog>> /\ pc' = [pc EXCEPT ![t] = "lock"]
  BY DEF Import, tables
<1>4. /\ work'[t] = p.reviews /\ todo'[t] = p.reviews /\ pc'[t] = "lock"
      /\ \A u \in Transactions \ {t} : /\ pc'[u] = pc[u] /\ work'[u] = work[u]
                                       /\ todo'[u] = todo[u]
  BY <1>1, <1>2, <1>3 DEF ProtoInv, TypeInv, TypeOK
<1>5. ImportLands(t)'
  BY <1>4 DEF ImportLands
<1> QED BY <1>1, <1>3, <1>4, <1>5, LandFrame

(* The reviews of a package have ids of their own, and none of an event's. *)
LEMMA PackageIds ==
    ASSUME ProtoInv, LogInv, LandInv, NEW t \in Imports, pc[t] \in {"import", "commit"}
    PROVE  /\ \A e \in work[t] : e.id \notin EventIds
           /\ \A e, f \in work[t] : e.id = f.id => e = f
<1>1. PICK p \in Packages : work[t] = p.reviews
  BY DEF LandInv, ImportLands
<1> QED BY <1>1, InputAssumption

(* What importReviews inserts is what the log has not got. *)
LEMMA ImportReviewsLands ==
    ASSUME ProtoInv, LogInv, LandInv, NEW t \in Imports, NEW c \in Cards, ImportReviews(t, c)
    PROVE  LandInv'
<1>1. t \in Transactions /\ t \notin Requests
  BY InputAssumption DEF Transactions
<1>2. /\ pc[t] = "import" /\ UNCHANGED <<log, results, pc, work>>
      /\ \A u \in Transactions : wlog'[u] = IF u = t THEN wlog[t] \cup NewRows(t, c) ELSE wlog[u]
      /\ \A u \in Transactions \ {t} : todo'[u] = todo[u]
      /\ todo'[t] = {e \in todo[t] : e.card # c}
  <2>1. Writes(t, c, NewRows(t, c), Rebuild(t, c, LogOf(LogSeen(t) \cup NewRows(t, c), c)))
    BY ImportWrites DEF LogInv
  <2>2. todo' = [todo EXCEPT ![t] = todo[t] \ {e \in todo[t] : e.card = c}]
    BY DEF ImportReviews
  <2>3. pc[t] = "import" /\ UNCHANGED <<log, results, pc, work>>
    BY DEF ImportReviews, tables
  <2> QED BY <1>1, <2>1, <2>2, <2>3 DEF Writes, ProtoInv, TypeInv, TypeOK
<1>3. /\ \A e \in work[t] : e.id \notin EventIds
      /\ \A e, f \in work[t] : e.id = f.id => e = f
      /\ todo[t] \subseteq work[t]
  BY <1>1, <1>2, PackageIds DEF LogInv, WorkInv
<1>4. \A d \in Cards : LogOf(wlog[t], d) = Brought(t, d)
  BY <1>2 DEF LandInv, ImportLands
<1>5. \A d \in Cards : LogOf(wlog'[t], d) = LogOf(wlog[t], d) \cup LogOf(NewRows(t, c), d)
  BY <1>1, <1>2 DEF LogOf
<1>6. ASSUME NEW d \in Cards, d # c PROVE LogOf(wlog'[t], d) = Brought(t, d)'
  <2>1. \A r \in NewRows(t, c) : r.card = c
    BY DEF NewRows, ImportRow
  <2>2. LogOf(NewRows(t, c), d) = {}
    BY <1>6, <2>1 DEF LogOf
  <2>3. Brought(t, d)' = Brought(t, d)
    BY <1>2, <1>6 DEF Brought
  <2> QED BY <1>4, <1>5, <2>2, <2>3
<1>7. LogOf(wlog'[t], c) = Brought(t, c)'
  <2> DEFINE there(e) == \E f \in LogOf(log, c) : f.id = e.id
             mine == {e \in work[t] : e.card = c}
  <2>1. Brought(t, c)' = {Entry(e) : e \in {x \in mine : ~ there(x)}}
    BY <1>2 DEF Brought
  <2>2. Brought(t, c) = {Entry(e) : e \in {x \in mine \ todo[t] : ~ there(x)}}
    BY DEF Brought
  <2>3. LogOf(NewRows(t, c), c) =
           {Entry(e) : e \in {x \in todo[t] : x.card = c /\ ~ Imported(t, x)}}
    <3>1. \A e \in todo[t] : /\ ImportRow(e, c).card = c
                             /\ Entry(ImportRow(e, c)) = Entry(e)
      BY DEF ImportRow, Entry
    <3> QED BY <3>1 DEF LogOf, NewRows
  <2>4. ASSUME NEW e \in todo[t], e.card = c
        PROVE  Imported(t, e) <=> there(e)
    <3>1. ASSUME there(e) PROVE Imported(t, e)
      <4>1. PICK r \in log : r.card = c /\ r.id = e.id
        BY <3>1 DEF LogOf, Entry
      <4>2. r.imported
        BY <1>3, <4>1 DEF LogInv, KeyInv
      <4> QED BY <2>4, <4>1, <4>2 DEF Imported, LogSeen
    <3>2. ASSUME Imported(t, e), ~ there(e) PROVE FALSE
      <4>1. PICK r \in LogSeen(t) : r.card = c /\ r.id = e.id
        BY <2>4, <3>2 DEF Imported
      <4>2. r \in wlog[t]
        <5>1. ASSUME r \in log PROVE FALSE
          <6>1. Entry(r) \in LogOf(log, c) /\ Entry(r).id = e.id
            BY <4>1, <5>1 DEF LogOf, Entry
          <6> QED BY <3>2, <6>1
        <5> QED BY <4>1, <5>1 DEF LogSeen
      <4>3. Entry(r) \in Brought(t, c)
        BY <1>4, <4>1, <4>2 DEF LogOf
      <4>4. PICK f \in work[t] \ todo[t] : Entry(r) = Entry(f)
        BY <4>3 DEF Brought
      <4>5. f.id = e.id
        BY <4>1, <4>4 DEF Entry
      <4> QED BY <1>3, <4>4, <4>5
    <3> QED BY <3>1, <3>2
  <2> HIDE DEF there
  <2>5. {x \in mine : ~ there(x)} = {x \in mine \ todo[t] : ~ there(x)}
                                    \cup {x \in todo[t] : x.card = c /\ ~ Imported(t, x)}
    BY <1>3, <2>4
  <2> QED BY <1>4, <1>5, <2>1, <2>2, <2>3, <2>5
<1>8. ImportLands(t)'
  BY <1>2, <1>6, <1>7 DEF LandInv, ImportLands
<1> QED BY <1>1, <1>2, <1>8, LandFrame

LEMMA SeedLands ==
    ASSUME ProtoInv, LogInv, LandInv, NEW t \in Imports, SeedCardStates(t)
    PROVE  LandInv'
<1>1. t \in Transactions /\ t \notin Requests
  BY InputAssumption DEF Transactions
<1>2. /\ pc[t] = "import" /\ pc'[t] = "commit" /\ todo[t] = {}
      /\ UNCHANGED <<log, results, work, todo, wlog>>
      /\ \A u \in Transactions \ {t} : pc'[u] = pc[u]
  BY <1>1 DEF SeedCardStates, tables, ProtoInv, TypeInv, TypeOK
<1>3. \A c \in Cards : Brought(t, c)' = Brought(t, c)
  BY <1>2 DEF Brought
<1>4. ImportLands(t)'
  BY <1>2, <1>3 DEF LandInv, ImportLands
<1> QED BY <1>1, <1>2, <1>4, LandFrame

(* A transaction that ends publishes, or not, rows of cards that are its   *)
(* own, so that nobody else finds other reviews in the log.                *)
LEMMA EndLands ==
    ASSUME ProtoInv, LogInv, LandInv, NEW t \in Transactions, Commit(t) \/ Abort(t)
    PROVE  LandInv'
<1>1. /\ UNCHANGED <<work, todo, results>> /\ pc'[t] \in {"done", "failed"} /\ wlog'[t] = {}
      /\ \A u \in Transactions \ {t} : pc'[u] = pc[u] /\ wlog'[u] = wlog[u]
      /\ log' \in {log, log \cup wlog[t]}
  BY DEF Commit, Abort, Release, FailureAnswer, LogSeen, tables, ProtoInv, TypeInv, TypeOK
<1>2. ASSUME NEW u \in Requests PROVE BatchLands(u)'
  <2>1. CASE u = t
    BY <1>1, <2>1 DEF BatchLands
  <2>2. CASE u # t
    <3>1. pc'[u] = pc[u] /\ wlog'[u] = wlog[u]
      BY <1>1, <2>2 DEF Transactions
    <3> QED BY <1>1, <3>1 DEF LandInv, BatchLands
  <2> QED BY <2>1, <2>2
<1>3. ASSUME NEW u \in Imports PROVE ImportLands(u)'
  <2>1. CASE u = t
    BY <1>1, <2>1 DEF ImportLands
  <2>2. CASE u # t
    <3>1. pc'[u] = pc[u] /\ wlog'[u] = wlog[u] /\ u \in Transactions
      BY <1>1, <2>2 DEF Transactions
    <3>2. ASSUME NEW c \in Cards, pc[u] \in {"import", "commit"}
          PROVE  Brought(u, c)' = Brought(u, c)
      <4>1. CASE \E e \in work[u] : e.card = c
        <5>1. Locked(u) /\ c \in Own(u)
          BY <3>2, <4>1 DEF Locked, Own, CardsOf
        <5>2. \A r \in wlog[t] : r.card # c
          BY <2>2, <3>1, <5>1, OneWriter DEF LogInv
        <5>3. LogOf(log', c) = LogOf(log, c)
          BY <1>1, <5>2 DEF LogOf
        <5> QED BY <1>1, <5>3 DEF Brought
      <4>2. CASE ~ \E e \in work[u] : e.card = c
        BY <1>1, <4>2 DEF Brought
      <4> QED BY <4>1, <4>2
    <3> QED BY <1>1, <3>1, <3>2 DEF LandInv, ImportLands
  <2> QED BY <2>1, <2>2
<1> QED BY <1>2, <1>3 DEF LandInv

LEMMA LandStep == ProtoInv /\ LogInv /\ LandInv /\ [Next]_vars => LandInv'
<1> SUFFICES ASSUME ProtoInv, LogInv, LandInv, [Next]_vars PROVE LandInv'
  OBVIOUS
<1>1. ASSUME UNCHANGED <<log, pc, work, todo, results, wlog>> PROVE LandInv'
  BY <1>1 DEF LandInv, BatchLands, ImportLands, Brought
<1>2. ASSUME NEW t \in Requests, GradeStep(t) PROVE LandInv'
  <2>1. CASE \E e \in todo[t] : ReadState(t, e)
    BY <1>1, <2>1 DEF ReadState, tables
  <2> QED BY <1>2, <2>1, AuthoriseLands, FilterLands, GradeLands DEF GradeStep
<1>3. ASSUME NEW t \in Imports, ImportStep(t) PROVE LandInv'
  BY <1>3, ImportReviewsLands, SeedLands DEF ImportStep
<1>4. CASE \/ \E c \in Touched, value \in BOOLEAN : SetSuspended(c, value)
           \/ \E deck \in ResetDecks : ResetProgress(deck)
           \/ \E c \in Revoked : RevokeStudy(c)
           \/ Tick \/ Quiet \/ UNCHANGED vars
  BY <1>1, <1>4 DEF SetSuspended, ResetProgress, RevokeStudy, Tick, Quiet, vars, txVars, tables
<1> QED BY <1>2, <1>3, <1>4, PostLands, BeginImportLands, LockLands, EndLands DEF Next, Progress

LEMMA LandInit == Init => LandInv
  BY DEF Init, LandInv, BatchLands, ImportLands, Transactions
-----------------------------------------------------------------------------
(* The refinement mapping. *)
ProgressNow == [c \in Cards |-> IF Regular(c) THEN StepsOf(ucs[c]) ELSE Unsettled]
LedgerNow == [c \in Cards |-> LogOf(log, c)]

(* What is mapped to a card's progress is what the ledger settles on. *)
LEMMA SettledIs ==
    ASSUME StoredIsReplay, NEW c \in Cards
    PROVE  ProgressNow[c] = Ledger!Settle(c, LogOf(log, c))
<1>1. Regular(c) <=> c \notin SeededCards \cup ClearedCards /\ TieFree(LogOf(log, c))
  BY DEF Regular, SeededCards, ClearedCards
<1>2. Regular(c) => StepsOf(ucs[c]) = Replay(LogOf(log, c))
  BY DEF StoredIsReplay
<1> QED BY <1>1, <1>2 DEF ProgressNow, Ledger!Settle, Ledger!TieFree, Ledger!Replay,
             Ledger!Preceding, Ledger!Before, TieFree, Replay, Preceding, Before

(* Reviews that are added to the log and to nothing else land. *)
LEMMA Lands ==
    ASSUME StoredIsReplay', UNCHANGED forgotten, NEW reviews,
           \A c \in Cards : LogOf(log', c) =
               LogOf(log, c) \cup {Entry(e) : e \in {r \in reviews : r.card = c}}
    PROVE  Ledger!Land(reviews)
<1>1. LedgerNow' = [c \in Cards |-> LedgerNow[c] \cup
                     {Ledger!Entry(e) : e \in {r \in reviews : r.card = c}}]
  BY DEF LedgerNow, Entry, Ledger!Entry
<1>2. ClearedCards' = ClearedCards /\ SeededCards' = SeededCards
  BY DEF ClearedCards, SeededCards, Unseeded
<1>3. ProgressNow' = [c \in Cards |-> Ledger!Settle(c, LedgerNow'[c])]
  <2>1. ASSUME NEW c \in Cards PROVE ProgressNow'[c] = Ledger!Settle(c, LedgerNow'[c])
    <3>1. Regular(c)' <=> c \notin SeededCards \cup ClearedCards /\ TieFree(LogOf(log', c))
      BY <1>2 DEF Regular, SeededCards, ClearedCards
    <3>2. Regular(c)' => StepsOf(ucs'[c]) = Replay(LogOf(log', c))
      BY DEF StoredIsReplay
    <3> QED BY <3>1, <3>2 DEF ProgressNow, LedgerNow, Ledger!Settle, Ledger!TieFree, Ledger!Replay,
             Ledger!Preceding, Ledger!Before, TieFree, Replay, Preceding, Before
  <2> QED BY <2>1 DEF ProgressNow
<1> QED BY <1>1, <1>2, <1>3 DEF Ledger!Land, LedgerNow, ProgressNow
(* What has been acknowledged changes only when a batch commits. *)
LEMMA AcknowledgedStays ==
    ASSUME UNCHANGED results,
           \A t \in Requests : pc'[t] = "done" <=> pc[t] = "done"
    PROVE  Acknowledged' = Acknowledged
  BY DEF Acknowledged

(* A batch lands when it commits: of its events that the log had not got   *)
(* one for each id, and all of them are acknowledged.                      *)
LEMMA BatchIsAccepted ==
    ASSUME ProtoInv, LogInv, LandInv, StoredIsReplay', NEW t \in Requests, Commit(t)
    PROVE  Ledger!Next
<1> DEFINE landed == {e \in work[t] : \E r \in wlog[t] : r.card = e.card /\ Entry(r) = Entry(e)}
<1>1. t \in Transactions /\ t \notin Imports
  BY InputAssumption DEF Transactions
<1>2. /\ pc[t] = "commit" /\ log' = log \cup wlog[t] /\ UNCHANGED <<results, forgotten>>
      /\ \A u \in Transactions : pc'[u] = IF u = t THEN "done" ELSE pc[u]
  BY DEF Commit, Release, LogSeen, ProtoInv, TypeInv, TypeOK
<1>3. PICK post \in Posts, clock \in 0 .. MaxNow, allowed \in SUBSET Cards :
         work[t] = Adjusting(post, clock, allowed)
  BY <1>2 DEF LandInv, BatchLands, Adjusts
<1>4. /\ todo[t] = {} /\ work[t] \subseteq Events /\ IdsOf(work[t]) \subseteq EventIds
      /\ \A r \in wlog[t] : \E e \in work[t] : r.card = e.card /\ Entry(r) = Entry(e)
      /\ \A id \in EventIds : results[t][id] \in Answered <=> id \in IdsOf(work[t])
  <2>1. work[t] \ {} = work[t]
    OBVIOUS
  <2> QED BY <1>1, <1>2, <2>1 DEF LandInv, BatchLands, ProtoInv, TypeInv, TypeOK, LogInv, WorkInv
<1>5. /\ \A r \in wlog[t], s \in log : r.id # s.id
      /\ \A r, s \in wlog[t] : r.id = s.id => r = s
  <2>1. \A r \in wlog[t] : ~ r.imported
    BY <1>1 DEF LogInv, KeyInv
  <2> QED BY <1>1, <2>1 DEF LogInv, KeyInv, Apart, SameKey
<1>6. {e.id : e \in UNION {LedgerNow[c] : c \in Cards}} = IdsOf(log)
  <2>1. log \subseteq LogRows
    BY DEF ProtoInv, TypeInv, TypeOK
  <2>2. \A r \in log : r.card \in Cards
    BY <2>1 DEF LogRows
  <2>3. ASSUME NEW r \in log PROVE r.id \in {e.id : e \in UNION {LedgerNow[c] : c \in Cards}}
    <3>1. Entry(r) \in LedgerNow[r.card] /\ Entry(r).id = r.id
      BY <2>2 DEF LedgerNow, LogOf, Entry
    <3> QED BY <2>2, <3>1
  <2>4. ASSUME NEW c \in Cards, NEW e \in LedgerNow[c] PROVE e.id \in IdsOf(log)
    BY DEF LedgerNow, LogOf, Entry, IdsOf
  <2> QED BY <2>3, <2>4 DEF IdsOf
<1>7. ASSUME NEW e \in landed PROVE e.id \notin IdsOf(log)
  BY <1>5 DEF IdsOf, Entry
<1>8. ASSUME NEW e \in work[t], e.id \notin IdsOf(log) PROVE \E f \in landed : f.id = e.id
  <2>1. results[t][e.id] \in Answered /\ e.id \in EventIds
    BY <1>4 DEF IdsOf
  <2>2. e.id \in IdsOf(LogSeen(t))
    <3>1. IdsOf(wlog[t]) \subseteq IdsOf(LogSeen(t))
      BY DEF IdsOf, LogSeen
    <3> QED BY <1>2, <2>1, <3>1 DEF Answered, LogInv, ResultInv
  <2>3. PICK r \in wlog[t] : r.id = e.id
    BY <1>8, <2>2 DEF IdsOf, LogSeen
  <2>4. PICK f \in work[t] : r.card = f.card /\ Entry(r) = Entry(f)
    BY <1>4
  <2> QED BY <2>3, <2>4 DEF Entry
<1>9. ASSUME NEW e \in landed, NEW f \in landed, e.id = f.id PROVE e = f
  <2>1. PICK r \in wlog[t], s \in wlog[t] : /\ r.card = e.card /\ Entry(r) = Entry(e)
                                            /\ s.card = f.card /\ Entry(s) = Entry(f)
    OBVIOUS
  <2>2. r.id = e.id /\ r.at = e.at /\ s.id = f.id /\ s.at = f.at
    BY <2>1 DEF Entry
  <2>3. r = s
    BY <1>5, <1>9, <2>2
  <2>4. e \in Events /\ f \in Events
    BY <1>4
  <2> QED BY <2>1, <2>2, <2>3, <2>4 DEF Events
<1>10. ASSUME NEW c \in Cards
       PROVE  LogOf(log', c) =
                  LogOf(log, c) \cup {Entry(e) : e \in {r \in landed : r.card = c}}
  <2>1. LogOf(log', c) = LogOf(log, c) \cup LogOf(wlog[t], c)
    BY <1>2 DEF LogOf
  <2>2. LogOf(wlog[t], c) = {Entry(e) : e \in {r \in landed : r.card = c}}
    BY <1>4 DEF LogOf
  <2> QED BY <2>1, <2>2
<1>11. IdsOf(work[t]) = {e.id : e \in {x \in post : Believable(x, clock) /\ x.card \in allowed}}
  <2>1. ASSUME NEW e \in post PROVE Adjusted(e, clock).id = e.id
    BY InputAssumption DEF Adjusted, Events
  <2> QED BY <1>3, <2>1 DEF Adjusting, IdsOf
<1>12. Acknowledged' = Acknowledged \cup IdsOf(work[t])
  <2> DEFINE answers(u) == {id \in EventIds : results[u][id] \in {"applied", "duplicate"}}
  <2>1. answers(t) = IdsOf(work[t])
    BY <1>4 DEF Answered
  <2>2. Acknowledged = UNION {answers(u) : u \in {v \in Requests : pc[v] = "done"}}
    BY DEF Acknowledged
  <2>3. Acknowledged' = UNION {answers(u) : u \in {v \in Requests : pc'[v] = "done"}}
    BY <1>2 DEF Acknowledged
  <2>4. {v \in Requests : pc'[v] = "done"} = {v \in Requests : pc[v] = "done"} \cup {t}
    BY <1>2 DEF Transactions
  <2> HIDE DEF answers
  <2> QED BY <2>1, <2>2, <2>3, <2>4
<1> HIDE DEF landed
<1>13. Ledger!Land(landed)
  BY <1>2, <1>10, Lands
<1>14. landed \subseteq work[t]
  BY DEF landed
<1>15. Ledger!Accept(post, clock, allowed)
  <2> DEFINE believed == {e \in post : /\ e.card \in allowed
                                       /\ e.at <= clock + ForwardWindow
                                       /\ e.at >= clock - PastWindow}
             adjusted == {[e EXCEPT !.at = IF e.at > clock THEN clock ELSE e.at] : e \in believed}
  <2>1. believed = {x \in post : Believable(x, clock) /\ x.card \in allowed}
    BY DEF Believable
  <2>2. adjusted = work[t]
    BY <1>3, <2>1 DEF Adjusting, Adjusted
  <2>3. Ledger!Recorded = IdsOf(log)
    BY <1>6 DEF Ledger!Recorded, LedgerNow
  <2>4. Acknowledged' = Acknowledged \cup {e.id : e \in believed}
    BY <1>11, <1>12, <2>1
  <2>5. landed \in SUBSET {e \in adjusted : e.id \notin Ledger!Recorded}
    BY <1>7, <1>14, <2>2, <2>3
  <2>6. \A e \in {x \in adjusted : x.id \notin Ledger!Recorded} : \E f \in landed : f.id = e.id
    BY <1>8, <2>2, <2>3
  <2> HIDE DEF believed
  <2> QED BY <1>9, <1>13, <2>4, <2>5, <2>6 DEF Ledger!Accept, believed
<1> QED BY <1>15 DEF Ledger!Next

(* An import lands when it commits: its reviews that the log had not got.  *)
LEMMA ImportIsBackfilled ==
    ASSUME ProtoInv, LogInv, LandInv, StoredIsReplay', NEW t \in Imports, Commit(t)
    PROVE  Ledger!Next
<1>1. t \in Transactions /\ t \notin Requests
  BY InputAssumption DEF Transactions
<1>2. /\ pc[t] = "commit" /\ log' = log \cup wlog[t] /\ UNCHANGED <<results, forgotten>>
      /\ \A u \in Transactions \ {t} : pc'[u] = pc[u]
  BY DEF Commit, Release, LogSeen, ProtoInv, TypeInv, TypeOK
<1>3. todo[t] = {} /\ \A c \in Cards : LogOf(wlog[t], c) = Brought(t, c)
  BY <1>2 DEF LandInv, ImportLands
<1>4. PICK p \in Packages : work[t] = p.reviews
  BY <1>2 DEF LandInv, ImportLands
<1> DEFINE landed == {r \in p.reviews : \A e \in LedgerNow[r.card] : e.id # r.id}
<1>5. ASSUME NEW c \in Cards
      PROVE  LogOf(log', c) =
                 LogOf(log, c) \cup {Entry(e) : e \in {r \in landed : r.card = c}}
  <2>1. LogOf(log', c) = LogOf(log, c) \cup LogOf(wlog[t], c)
    BY <1>2 DEF LogOf
  <2>2. Brought(t, c) = {Entry(e) : e \in {r \in landed : r.card = c}}
    BY <1>3, <1>4 DEF Brought, LedgerNow
  <2> QED BY <1>3, <2>1, <2>2
<1> HIDE DEF landed
<1>6. Ledger!Land(landed)
  BY <1>2, <1>5, Lands
<1>7. Acknowledged' = Acknowledged
  BY <1>1, <1>2, AcknowledgedStays DEF Transactions
<1>8. Ledger!Backfill(p)
  BY <1>6, <1>7 DEF Ledger!Backfill, landed, LedgerNow
<1> QED BY <1>8 DEF Ledger!Next

(* A reset is the ledger's, of the cards it found rows and a log of. *)
LEMMA ResetForgets ==
    ASSUME StoredIsReplay, StoredIsReplay', NEW deck, ResetProgress(deck)
    PROVE  Ledger!Next
<1>1. /\ UNCHANGED <<log, pc, results>>
      /\ \A c \in Cards : forgotten[c] # {} => forgotten'[c] # {}
  BY DEF ResetProgress, txVars
<1>2. ClearedCards' = ClearedCards \cup ClearedCards' /\ ClearedCards' \in SUBSET Cards
  BY <1>1 DEF ClearedCards
<1>3. LedgerNow' = LedgerNow /\ Acknowledged' = Acknowledged
  BY <1>1, AcknowledgedStays DEF LedgerNow
<1>4. ASSUME NEW c \in Cards
      PROVE  ProgressNow'[c] = IF c \in ClearedCards' THEN Unsettled ELSE ProgressNow[c]
  <2>1. CASE c \in ClearedCards'
    BY <2>1 DEF ProgressNow, Regular, ClearedCards
  <2>2. CASE c \notin ClearedCards'
    <3>1. forgotten'[c] = {} /\ forgotten[c] = {}
      BY <1>1, <2>2 DEF ClearedCards
    <3>2. Regular(c)' <=> Regular(c)
      BY <1>1, <3>1 DEF Regular, Unseeded
    <3>3. Regular(c) => StepsOf(ucs'[c]) = StepsOf(ucs[c])
      BY <1>1, <3>2 DEF StoredIsReplay
    <3> QED BY <2>2, <3>2, <3>3 DEF ProgressNow
  <2> QED BY <2>1, <2>2
<1>5. ProgressNow' = [c \in Cards |-> IF c \in ClearedCards' THEN Unsettled ELSE ProgressNow[c]]
  BY <1>4 DEF ProgressNow
<1>6. Ledger!Forget(ClearedCards')
  BY <1>2, <1>3, <1>5 DEF Ledger!Forget, LedgerNow, ProgressNow
<1> QED BY <1>2, <1>6 DEF Ledger!Next
(* Every other step leaves the log, the answers given and what resets have *)
(* discarded as they are, and so the whole ledger.                         *)
LEMMA OthersStutter ==
    ASSUME StoredIsReplay, StoredIsReplay', UNCHANGED <<log, forgotten>>,
           Acknowledged' = Acknowledged
    PROVE  UNCHANGED Ledger!vars
<1>1. LedgerNow' = LedgerNow
  BY DEF LedgerNow
<1>2. ASSUME NEW c \in Cards PROVE ProgressNow'[c] = ProgressNow[c]
  <2>1. Regular(c)' <=> Regular(c)
    BY DEF Regular, Unseeded
  <2>2. Regular(c) => StepsOf(ucs'[c]) = StepsOf(ucs[c])
    BY <2>1 DEF StoredIsReplay
  <2> QED BY <2>1, <2>2 DEF ProgressNow
<1>3. ProgressNow' = ProgressNow
  BY <1>2 DEF ProgressNow
<1>4. ClearedCards' = ClearedCards
  BY DEF ClearedCards
<1> QED BY <1>1, <1>3, <1>4 DEF Ledger!vars, LedgerNow, ProgressNow

LEMMA StepIsLedgers ==
    ASSUME Inv, LandInv, StoredIsReplay, StoredIsReplay', [Next]_vars
    PROVE  Ledger!Next \/ UNCHANGED Ledger!vars
<1>1. CASE \E t \in Transactions : Commit(t)
  BY <1>1, BatchIsAccepted, ImportIsBackfilled DEF Transactions, Inv
<1>2. CASE \E deck \in ResetDecks : ResetProgress(deck)
  BY <1>2, ResetForgets
<1>3. ASSUME UNCHANGED <<log, forgotten>>, Acknowledged' = Acknowledged
      PROVE  UNCHANGED Ledger!vars
  BY <1>3, OthersStutter
<1>4. ASSUME NEW t \in Transactions, pc[t] # "done", pc'[t] # "done",
             UNCHANGED <<log, forgotten>>,
             \A u \in Transactions \ {t} : pc'[u] = pc[u] /\ results'[u] = results[u]
      PROVE  UNCHANGED Ledger!vars
  <2>1. {u \in Requests : pc'[u] = "done"} = {u \in Requests : pc[u] = "done"}
    BY <1>4 DEF Transactions
  <2>2. \A u \in {v \in Requests : pc[v] = "done"} : results'[u] = results[u]
    BY <1>4 DEF Transactions
  <2>3. Acknowledged' = Acknowledged
    BY <2>1, <2>2 DEF Acknowledged
  <2> QED BY <1>3, <1>4, <2>3
<1>5. TypeOK /\ \A t \in Requests \cup Imports : t \in Transactions
  BY DEF Inv, ProtoInv, TypeInv, Transactions
<1>6. ASSUME NEW t \in Requests, Post(t) \/ GradeStep(t) PROVE UNCHANGED Ledger!vars
  <2>1. UNCHANGED <<log, forgotten>>
    BY <1>6 DEF Post, GradeStep, Authorise, FilterExisting, ReadState, GradeTaken, GradeInOrder,
                GradeOutOfOrder, Append, Finish, tables
  <2>2. CASE \E e \in todo[t] : ReadState(t, e)
    <3>1. UNCHANGED <<pc, results>>
      BY <2>2 DEF ReadState
    <3> QED BY <1>3, <2>1, <3>1, AcknowledgedStays
  <2>3. CASE Post(t)
    <3>1. /\ pc[t] = "idle" /\ pc' = [pc EXCEPT ![t] = "authorise"] /\ results' = results
      BY <2>3 DEF Post
    <3> QED BY <1>4, <1>5, <2>1, <3>1 DEF TypeOK
  <2>4. CASE Authorise(t) \/ FilterExisting(t)
    <3>1. /\ pc[t] \in {"authorise", "dedup"}
          /\ \E to \in {"commit", "lock", "grade"} : pc' = [pc EXCEPT ![t] = to]
          /\ \E answers : results' = [results EXCEPT ![t] = answers]
      BY <2>4 DEF Authorise, FilterExisting
    <3> QED BY <1>4, <1>5, <2>1, <3>1 DEF TypeOK
  <2>5. CASE GradeTaken(t) \/ GradeInOrder(t) \/ GradeOutOfOrder(t)
    <3>1. PICK e, status : Finish(t, e, status)
      BY <2>5 DEF GradeTaken, GradeInOrder, GradeOutOfOrder, Append
    <3>2. pc[t] = "grade"
      BY <2>5 DEF GradeTaken, GradeInOrder, GradeOutOfOrder, Inv, ProtoInv, LockInv, Transactions
    <3>3. /\ \E to \in {"commit", "grade"} : pc' = [pc EXCEPT ![t] = to]
          /\ \A u \in Transactions \ {t} : results'[u] = results[u]
      BY <1>5, <3>1 DEF Finish, TypeOK
    <3> QED BY <1>4, <1>5, <2>1, <3>2, <3>3 DEF TypeOK
  <2> QED BY <1>6, <2>2, <2>3, <2>4, <2>5 DEF GradeStep
<1>7. ASSUME NEW t \in Transactions,
             Abort(t) \/ (\E k \in Keys : AcquireLock(t, k))
             \/ (t \in Imports /\ (Import(t) \/ ImportStep(t)))
      PROVE  UNCHANGED Ledger!vars
  <2>1. /\ UNCHANGED <<log, forgotten, results>> /\ pc[t] # "done"
        /\ \E to : to # "done" /\ pc' = [pc EXCEPT ![t] = to]
    <3>1. CASE Abort(t)
      BY <3>1 DEF Abort, Release, FailureAnswer, tables
    <3>2. CASE \E k \in Keys : AcquireLock(t, k)
      BY <3>2 DEF AcquireLock, tables
    <3>3. CASE Import(t)
      BY <3>3 DEF Import, tables
    <3>4. CASE SeedCardStates(t)
      BY <3>4 DEF SeedCardStates, tables
    <3>5. CASE \E c \in Cards : ImportReviews(t, c)
      <4>1. /\ UNCHANGED <<log, forgotten, results, pc>> /\ pc[t] = "import"
        BY <3>5 DEF ImportReviews, tables
      <4>2. pc' = [pc EXCEPT ![t] = "import"]
        BY <1>5, <4>1 DEF TypeOK
      <4> QED BY <4>1, <4>2
    <3> QED BY <1>7, <3>1, <3>2, <3>3, <3>4, <3>5 DEF ImportStep
  <2> QED BY <1>4, <1>5, <2>1 DEF TypeOK
<1>8. CASE \/ \E c \in Touched, value \in BOOLEAN : SetSuspended(c, value)
           \/ \E c \in Revoked : RevokeStudy(c)
           \/ Tick \/ Quiet \/ UNCHANGED vars
  <2>1. UNCHANGED <<log, forgotten, pc, results>>
    BY <1>8 DEF SetSuspended, RevokeStudy, Tick, Quiet, vars, txVars, tables
  <2> QED BY <1>3, <2>1, AcknowledgedStays
<1> QED BY <1>1, <1>2, <1>5, <1>6, <1>7, <1>8 DEF Next, Progress

LEMMA InitIsLedgers == Init => Ledger!Init
<1> SUFFICES ASSUME Init PROVE Ledger!Init
  OBVIOUS
<1>1. LedgerNow = [c \in Cards |-> {}]
  BY DEF Init, LedgerNow, LogOf
<1>2. Acknowledged = {} /\ ClearedCards = {}
  BY DEF Init, Acknowledged, ClearedCards, Transactions
<1>3. ProgressNow = [c \in Cards |-> IF c \in SeededCards THEN Unsettled ELSE Ledger!NewCard]
  <2>1. ASSUME NEW c \in Cards PROVE Regular(c) <=> c \notin SeededCards
    BY DEF Init, Regular, SeededCards, TieFree, LogOf
  <2>2. ASSUME NEW c \in Cards PROVE StepsOf(ucs[c]) = Ledger!NewCard
    BY DEF Init, StepsOf, NewCard, Ledger!NewCard
  <2> QED BY <2>1, <2>2 DEF ProgressNow
<1> QED BY <1>1, <1>2, <1>3 DEF Ledger!Init, LedgerNow, ProgressNow

(* Grading implements the ledger: however batches, retries, imports and    *)
(* resets overlap, wait, fail and collide, each commit is one batch or one *)
(* import landing whole and at once, and each other step shows nothing.    *)
THEOREM GradingIsALedger == Spec => LedgerSpec
<1>1. Init => Inv /\ LandInv /\ Ledger!Init
  BY InvInit, LandInit, InitIsLedgers
<1>2. Inv /\ LandInv /\ [Next]_vars => (Inv /\ LandInv)'
  BY InvStep, LandStep DEF Inv
<1>3. Inv => StoredIsReplay
  BY InvMatches DEF StateMatchesLog
<1>4. Inv /\ LandInv /\ StoredIsReplay /\ StoredIsReplay' /\ [Next]_vars
         => [Ledger!Next]_(Ledger!vars)
  BY StepIsLedgers
<1> QED BY <1>1, <1>2, <1>3, <1>4, PTL DEF Spec, LedgerSpec, Ledger!Spec

=============================================================================
