--------------------------- MODULE ReviewGrading ---------------------------
(***************************************************************************)
(* POST /api/reviews/batch (internal/review/grade.go, lock.go, replay.go)  *)
(* against everything that writes the same rows: other batches and         *)
(* retries, the .apkg importer's history backfill, the settings upsert     *)
(* (suspend, bury, flag) and a reset of a deck's progress.                 *)
(*                                                                         *)
(* Postgres runs every transaction READ COMMITTED.  A transaction's writes *)
(* are kept in its own buffers wlog and wucs until it commits; it sees its *)
(* own buffers over the committed tables log and ucs.  Advisory locks are  *)
(* held to the end of the transaction; so are the row locks implied by the *)
(* buffers.                                                                *)
(*                                                                         *)
(* A card here is a (user, card) pair: every lock, row and log query of    *)
(* the code is scoped to the pair.                                         *)
(***************************************************************************)
EXTENDS ReviewHistory

CONSTANTS
    Cards,      \* (user, card) pairs
    LockKey,    \* LockKey[c]: the FNV-1a hash of the pair; two pairs may collide
    Requests,   \* batch requests, each one POST (a retry is another request)
    Imports,    \* .apkg import requests
    Posts,      \* the bodies a POST may carry: sets of events [id, card, at]
    Packages,   \* the packages an import may carry: review history, and the
                \* scheduling snapshots (one per card) it may be seeded from
    ResetDecks, \* the sets of cards a progress reset may cover
    Touched,    \* the cards whose settings the user changes
    Revoked,    \* the cards whose can_study may be revoked
    MaxNow,     \* bound on the server clock
    ForwardWindow,  \* clampForwardWindow
    PastWindow,     \* rejectPastWindow
    Free, Never, NoRow, Unwritten, Nothing   \* sentinels

Transactions == Requests \cup Imports

EventIds == {e.id : e \in UNION Posts}

Events == [id : Int, card : Cards, at : Int]

\* A card of a package without history: its last review, or Never for a new
\* card that is only suspended or flagged.
Snapshots == [id : Int, card : Cards, at : Int \cup {Never}, suspended : BOOLEAN]

Rows == [steps : SUBSET Steps, last : Int \cup {Never}, suspended : BOOLEAN]

LogRows == [id : Int, card : Cards, at : Int, prior : SUBSET Steps,
            imported : BOOLEAN]

Statuses == {"none", "applied", "duplicate", "rejected", "forbidden"}

ASSUME KeyAssumption == LockKey \in [Cards -> Int]
\* revlog's key is the review's id, so a package holds a review once; the
\* ids of events are the clients' own, and no snapshot is of an event.
ASSUME InputAssumption ==
    /\ Requests \cap Imports = {}
    /\ Posts \subseteq SUBSET Events
    /\ \A post \in Posts : IsFiniteSet(post)
    /\ Packages \subseteq [reviews : SUBSET Events, seeds : SUBSET Snapshots]
    /\ \A p \in Packages :
         /\ IsFiniteSet(p.reviews) /\ p.reviews \cup p.seeds # {}
         /\ \A e, f \in p.reviews : e.id = f.id => e = f
         /\ EventIds \cap {e.id : e \in p.reviews \cup p.seeds} = {}
    /\ ResetDecks \subseteq SUBSET Cards
    /\ Touched \subseteq Cards /\ Revoked \subseteq Cards
ASSUME ClockAssumption ==
    MaxNow \in Nat /\ ForwardWindow \in Nat /\ PastWindow \in Nat
ASSUME SentinelAssumption ==
    /\ Free \notin Transactions
    /\ Never \notin Int
    /\ NoRow \notin Rows /\ Unwritten \notin Rows /\ NoRow # Unwritten
    /\ Nothing \notin [event : Events, row : Rows \cup {NoRow}]

VARIABLES
    now,        \* the server's clock
    studyable,  \* the cards ListStudyableCards returns
    log,        \* review_log, committed
    ucs,        \* user_card_state, committed: a row per card, or NoRow
    owner,      \* advisory locks: the transaction holding a key, or Free
    pc,         \* where each transaction is
    work,       \* its events: the body, then the adjusted and authorised ones
    seeds,      \* an import's scheduling snapshots
    need,       \* the advisory keys it still has to take
    todo,       \* the events it still has to apply
    held,       \* the event being graded and the row gradeEvent read for it
    wlog, wucs, \* its uncommitted writes to log and ucs
    results,    \* GradeBatch's results, by event id
    forgotten   \* history: the reviews of a card that a reset has discarded

txVars == <<pc, work, seeds, need, todo, held, wlog, wucs, results>>
tables == <<log, ucs>>
vars == <<now, studyable, tables, owner, txVars, forgotten>>

-----------------------------------------------------------------------------
(* What a transaction sees: its own writes over the committed rows. *)

LogOf(rows, c) == {Entry(r) : r \in {x \in rows : x.card = c}}

LogSeen(t) == log \cup wlog[t]

(* MUTANT: the committed row is never consulted. *)
RowSeenOwnOnly(t, c) == wucs[t][c]

RowSeen(t, c) == IF wucs[t][c] = Unwritten THEN ucs[c] ELSE wucs[t][c]

StepsOf(row) == IF row = NoRow THEN NewCard ELSE row.steps

IdsOf(rows) == {r.id : r \in rows}

CardsOf(events) == {e.card : e \in events}

(* A row another transaction wrote and has not committed is locked, and so *)
(* is the primary key of a log row it inserted.                            *)
RowFree(t, c) == \A u \in Transactions \ {t} : wucs[u][c] = Unwritten
IdFree(t, id) == \A u \in Transactions \ {t} : id \notin IdsOf(wlog[u])

Keys == {LockKey[c] : c \in Cards}
KeysOf(events) == {LockKey[c] : c \in CardsOf(events)}

-----------------------------------------------------------------------------
(* clampOrReject: the reviewed_at policy, against the clock the handler    *)
(* read.                                                                   *)

Believable(e, clock) == /\ e.at <= clock + ForwardWindow
                        /\ e.at >= clock - PastWindow

(* MUTANT: accepted without the clamp. *)
AdjustedNever(e, clock) == e

Adjusted(e, clock) == [e EXCEPT !.at = IF e.at > clock THEN clock ELSE e.at]

(* MUTANT: every event is scheduled forward. *)
OutOfOrderNever(row, e) == FALSE

(* gradeEvent's choice: at or after the stored last_review is in order. *)
OutOfOrder(row, e) == row # NoRow /\ row.last # Never /\ e.at < row.last

(* MUTANT: the update arm leaves last_review alone. *)
ReplayUpsertStaleTime(row, steps, at) ==
    IF row = NoRow
    THEN [steps |-> steps, last |-> at, suspended |-> FALSE]
    ELSE [row EXCEPT !.steps = steps]

(* UpsertUserCardStateFromReplay: unguarded, settings kept. *)
ReplayUpsert(row, steps, at) ==
    IF row = NoRow
    THEN [steps |-> steps, last |-> at, suspended |-> FALSE]
    ELSE [row EXCEPT !.steps = steps, !.last = at]

(* UpsertUserCardStateOnReview: the newer review wins, settings kept. *)
GuardedUpsert(row, steps, at) ==
    IF row = NoRow \/ row.last = Never \/ row.last < at
    THEN ReplayUpsert(row, steps, at)
    ELSE row

-----------------------------------------------------------------------------
Init ==
    /\ now = 0
    /\ studyable = Cards
    /\ log = {}
    /\ ucs = [c \in Cards |-> NoRow]
    /\ owner = [k \in Keys |-> Free]
    /\ pc = [t \in Transactions |-> "idle"]
    /\ work = [t \in Transactions |-> {}]
    /\ seeds = [t \in Transactions |-> {}]
    /\ need = [t \in Transactions |-> {}]
    /\ todo = [t \in Transactions |-> {}]
    /\ held = [t \in Transactions |-> Nothing]
    /\ wlog = [t \in Transactions |-> {}]
    /\ wucs = [t \in Transactions |-> [c \in Cards |-> Unwritten]]
    /\ results = [t \in Transactions |-> [id \in EventIds |-> "none"]]
    /\ forgotten = [c \in Cards |-> {}]

(* The handler begins a transaction for a well-formed body. *)
Post(t) ==
    /\ pc[t] = "idle"
    /\ \E body \in Posts :
         work' = [work EXCEPT ![t] = body]
    /\ pc' = [pc EXCEPT ![t] = "authorise"]
    /\ UNCHANGED <<now, studyable, tables, owner, seeds, need, todo, held,
                   wlog, wucs, results, forgotten>>

(* The top of GradeBatch: adjust or reject each event against one reading  *)
(* of the clock, drop the cards the user may not study, and compute the    *)
(* lock keys of the rest.                                                  *)
Authorise(t) ==
    LET live    == {e \in work[t] : Believable(e, now)}
        toGrade == {Adjusted(e, now) : e \in {x \in live : x.card \in studyable}}
        Answer(id) ==
            IF \E e \in live : e.id = id /\ e.card \notin studyable
            THEN "forbidden"
            ELSE IF id \in IdsOf(work[t] \ live) THEN "rejected" ELSE "none"
    IN /\ pc[t] = "authorise"
       /\ work' = [work EXCEPT ![t] = toGrade]
       /\ need' = [need EXCEPT ![t] = KeysOf(toGrade)]
       /\ results' = [results EXCEPT ![t] = [id \in EventIds |-> Answer(id)]]
       /\ pc' = [pc EXCEPT ![t] = IF toGrade = {} THEN "commit" ELSE "lock"]
       /\ UNCHANGED <<now, studyable, tables, owner, seeds, todo, held,
                      wlog, wucs, forgotten>>

(* MUTANT: keys are taken in whatever order the batch lists its cards. *)
NextKeyAny(t, k) == k \in need[t]

(* acquireLocks: the smallest key first, waiting for its holder. *)
NextKey(t, k) == k \in need[t] /\ \A j \in need[t] : k <= j

(* MUTANT: the lock is tried, and the answer ignored. *)
GrantedAlways(k) == TRUE

Granted(k) == owner[k] = Free

AcquireLock(t, k) ==
    /\ pc[t] = "lock"
    /\ NextKey(t, k)
    /\ Granted(k)
    /\ owner' = [owner EXCEPT ![k] = t]
    /\ need' = [need EXCEPT ![t] = @ \ {k}]
    /\ pc' = [pc EXCEPT ![t] =
                IF need[t] # {k} THEN "lock"
                ELSE IF t \in Imports THEN "import" ELSE "dedup"]
    /\ UNCHANGED <<now, studyable, tables, work, seeds, todo, held,
                   wlog, wucs, results, forgotten>>

(* ListExistingReviewLogIDs, under the locks: what is already logged is    *)
(* answered and never scheduled again.                                     *)
FilterExisting(t) ==
    LET fresh == {e \in work[t] : e.id \notin IdsOf(log)}
    IN /\ pc[t] = "dedup"
       /\ todo' = [todo EXCEPT ![t] = fresh]
       /\ results' = [results EXCEPT ![t] =
                        [id \in EventIds |-> IF id \in IdsOf(work[t] \ fresh)
                                             THEN "duplicate" ELSE @[id]]]
       /\ pc' = [pc EXCEPT ![t] = IF fresh = {} THEN "commit" ELSE "grade"]
       /\ UNCHANGED <<now, studyable, tables, owner, work, seeds, need, held,
                      wlog, wucs, forgotten>>

(* gradeEvent reads the stored row of the earliest event left. *)
ReadState(t, e) ==
    /\ pc[t] = "grade"
    /\ held[t] = Nothing
    /\ e \in todo[t]
    /\ \A f \in todo[t] : ~ Before(f, e)
    /\ held' = [held EXCEPT ![t] = [event |-> e, row |-> RowSeen(t, e.card)]]
    /\ UNCHANGED <<now, studyable, tables, owner, pc, work, seeds, need, todo,
                   wlog, wucs, results, forgotten>>

(* The tail every graded event shares: one result, one event fewer. *)
Finish(t, e, status) ==
    /\ results' = [results EXCEPT ![t][e.id] = status]
    /\ todo' = [todo EXCEPT ![t] = @ \ {e}]
    /\ held' = [held EXCEPT ![t] = Nothing]
    /\ pc' = [pc EXCEPT ![t] = IF todo[t] = {e} THEN "commit" ELSE "grade"]
    /\ UNCHANGED <<now, studyable, tables, owner, work, seeds, need, forgotten>>

(* MUTANT: the conflict of the insert goes unnoticed. *)
TakenNever(t, e) == FALSE

(* InsertReviewLog conflicts: the id was taken since FilterExisting, by    *)
(* this same batch or under another card's lock.                           *)
Taken(t, e) == e.id \in IdsOf(LogSeen(t))

(* MUTANT: the update writes back the settings that were read. *)
KeepReadSettings(row, read) ==
    IF read = NoRow THEN row ELSE [row EXCEPT !.suspended = read.suspended]

(* Neither upsert names suspended, buried_until or flag. *)
KeepSettings(row, read) == row

(* appendReviewLogRow and the upsert that follows it. *)
Append(t, e, prior, row) ==
    /\ IdFree(t, e.id) /\ RowFree(t, e.card)
    /\ ~ Taken(t, e)
    /\ wlog' = [wlog EXCEPT ![t] = @ \cup
                  {[id |-> e.id, card |-> e.card, at |-> e.at, prior |-> prior,
                    imported |-> FALSE]}]
    /\ wucs' = [wucs EXCEPT ![t][e.card] = KeepSettings(row, held[t].row)]
    /\ Finish(t, e, "applied")

GradeTaken(t) ==
    /\ held[t] # Nothing
    /\ LET e == held[t].event
       IN /\ IdFree(t, e.id)
          /\ Taken(t, e)
          /\ Finish(t, e, "duplicate")
          /\ UNCHANGED <<wlog, wucs>>

GradeInOrder(t) ==
    /\ held[t] # Nothing
    /\ LET e     == held[t].event
           prior == StepsOf(held[t].row)
       IN /\ ~ OutOfOrder(held[t].row, e)
          /\ Append(t, e, prior,
                    GuardedUpsert(RowSeen(t, e.card),
                                  Schedule(prior, Entry(e)), e.at))

(* MUTANT: the log row's prior is the stored state. *)
LatePriorStored(row, merged, e) == StepsOf(row)

(* MUTANT: last_review becomes the late event's own time. *)
RebuiltAtOwnTime(merged, e) == e.at

(* What gradeOutOfOrder takes from the replay of the merged log: the prior *)
(* of the late event, the final state and the time of the last row.        *)
LatePrior(row, merged, e) == PriorTo(merged, e)
Rebuilt(merged, e) == Replay(merged)
RebuiltAt(merged, e) == LastReviewedAt(merged)

GradeOutOfOrder(t) ==
    /\ held[t] # Nothing
    /\ LET e      == held[t].event
           merged == LogOf(LogSeen(t), e.card) \cup {Entry(e)}
       IN /\ OutOfOrder(held[t].row, e)
          /\ Append(t, e, LatePrior(held[t].row, merged, Entry(e)),
                    ReplayUpsert(RowSeen(t, e.card), Rebuilt(merged, Entry(e)),
                                 RebuiltAt(merged, Entry(e))))

-----------------------------------------------------------------------------
(* .apkg import: every card of the package is locked first. *)
Import(t) ==
    /\ pc[t] = "idle"
    /\ \E p \in Packages :
         /\ work' = [work EXCEPT ![t] = p.reviews]
         /\ todo' = [todo EXCEPT ![t] = p.reviews]
         /\ seeds' = [seeds EXCEPT ![t] = p.seeds]
         /\ need' = [need EXCEPT ![t] = KeysOf(p.reviews \cup p.seeds)]
    /\ pc' = [pc EXCEPT ![t] = "lock"]
    /\ UNCHANGED <<now, studyable, tables, owner, held, wlog, wucs, results,
                   forgotten>>

(* ListReviewLogForCard once the package's rows are in. *)
CardLog(t, rows, c) == LogOf(LogSeen(t) \cup rows, c)

(* ON CONFLICT (user_id, card_id, anki_id): the row of an earlier import. *)
Imported(t, e) ==
    \E r \in LogSeen(t) : r.imported /\ r.card = e.card /\ r.id = e.id

(* importReviews, one card: insert the history that is not there yet and   *)
(* rebuild the card from all of it (ReplayCard).  An imported row has an   *)
(* id of the database's making; here it is the revlog id it stands for.    *)
ImportReviews(t, c) ==
    LET reviews == {e \in todo[t] : e.card = c}
        rows    == {[id |-> e.id, card |-> c, at |-> e.at, prior |-> {},
                     imported |-> TRUE] :
                      e \in {x \in reviews : ~ Imported(t, x)}}
        merged  == CardLog(t, rows, c)
    IN /\ pc[t] = "import"
       /\ reviews # {}
       /\ RowFree(t, c)
       /\ wlog' = [wlog EXCEPT ![t] = @ \cup rows]
       /\ wucs' = [wucs EXCEPT ![t][c] =
                     ReplayUpsert(RowSeen(t, c), Replay(merged),
                                  LastReviewedAt(merged))]
       /\ todo' = [todo EXCEPT ![t] = @ \ reviews]
       /\ UNCHANGED <<now, studyable, tables, owner, pc, work, seeds, need,
                      held, results, forgotten>>

(* What is known of a card reviewed elsewhere: one review stands for all.  *)
Snapshot(s) == IF s.at = Never THEN NewCard ELSE Schedule(NewCard, Entry(s))

(* seedCardStates: a card without imported reviews and without a row takes *)
(* the package's snapshot of its state.                                    *)
SeedCardStates(t) ==
    LET Seeded(c) == {s \in seeds[t] : s.card = c /\ c \notin CardsOf(work[t])}
    IN /\ pc[t] = "import"
       /\ todo[t] = {}
       /\ \A c \in CardsOf(seeds[t]) : RowFree(t, c)
       /\ wucs' = [wucs EXCEPT ![t] =
                     [c \in Cards |->
                        IF Seeded(c) # {} /\ RowSeen(t, c) = NoRow
                        THEN LET s == CHOOSE x \in Seeded(c) : TRUE
                             IN [steps |-> Snapshot(s), last |-> s.at,
                                 suspended |-> s.suspended]
                        ELSE @[c]]]
       /\ pc' = [pc EXCEPT ![t] = "commit"]
       /\ UNCHANGED <<now, studyable, tables, owner, work, seeds, need, todo,
                      held, wlog, results, forgotten>>

-----------------------------------------------------------------------------
(* The end of a transaction: its buffers land or vanish, its locks go. *)
Release(t) ==
    /\ owner' = [k \in Keys |-> IF owner[k] = t THEN Free ELSE owner[k]]
    /\ wlog' = [wlog EXCEPT ![t] = {}]
    /\ wucs' = [wucs EXCEPT ![t] = [c \in Cards |-> Unwritten]]
    /\ UNCHANGED <<now, studyable, work, seeds, need, todo, results, forgotten>>

Commit(t) ==
    /\ pc[t] = "commit"
    /\ log' = LogSeen(t)
    /\ ucs' = [c \in Cards |-> RowSeen(t, c)]
    /\ pc' = [pc EXCEPT ![t] = "done"]
    /\ Release(t)
    /\ UNCHANGED held

(* serverError: the client sees a 5xx and no results. *)
FailureAnswer == "failed"

(* Any statement may fail (timeout, lost connection, scheduler error) and  *)
(* the deferred rollback discards the whole batch; so does a crash.        *)
Abort(t) ==
    /\ pc[t] \notin {"idle", "done", "failed"}
    /\ pc' = [pc EXCEPT ![t] = FailureAnswer]
    /\ held' = [held EXCEPT ![t] = Nothing]
    /\ Release(t)
    /\ UNCHANGED tables

-----------------------------------------------------------------------------
(* The other writers. *)

(* POST /decks/{id}/cards/state: one upsert outside the advisory locks. It *)
(* waits for an uncommitted write of the row, then acts on the newest one. *)
SetSuspended(c, value) ==
    /\ c \in studyable
    /\ \A t \in Transactions : wucs[t][c] = Unwritten
    /\ ucs' = [ucs EXCEPT ![c] =
                 IF @ = NoRow
                 THEN [steps |-> NewCard, last |-> Never, suspended |-> value]
                 ELSE [@ EXCEPT !.suspended = value]]
    /\ UNCHANGED <<now, studyable, log, owner, txVars, forgotten>>

(* ResetDeckProgress: deletes the rows it can see, waiting for those that  *)
(* are locked, and takes no advisory lock.  review_log is untouched.       *)
ResetProgress(deck) ==
    /\ \A c \in deck : ucs[c] # NoRow =>
         \A t \in Transactions : wucs[t][c] = Unwritten
    /\ ucs' = [c \in Cards |-> IF c \in deck THEN NoRow ELSE ucs[c]]
    /\ forgotten' = [c \in Cards |->
                       IF c \in deck /\ ucs[c] # NoRow
                       THEN forgotten[c] \cup LogOf(log, c) ELSE forgotten[c]]
    /\ UNCHANGED <<now, studyable, log, owner, txVars>>

(* The owner revokes can_study.  A batch already authorised goes on. *)
RevokeStudy(c) ==
    /\ studyable' = studyable \ {c}
    /\ UNCHANGED <<now, tables, owner, txVars, forgotten>>

Tick ==
    /\ now < MaxNow
    /\ now' = now + 1
    /\ UNCHANGED <<studyable, tables, owner, txVars, forgotten>>

(* Nothing left in this instance. *)
Quiet ==
    /\ now = MaxNow
    /\ \A t \in Transactions : pc[t] \in {"done", "failed"}
    /\ UNCHANGED vars

-----------------------------------------------------------------------------
GradeStep(t) ==
    \/ Authorise(t) \/ FilterExisting(t)
    \/ \E e \in todo[t] : ReadState(t, e)
    \/ GradeTaken(t) \/ GradeInOrder(t) \/ GradeOutOfOrder(t)

ImportStep(t) == \/ \E c \in Cards : ImportReviews(t, c)
                 \/ SeedCardStates(t)

Progress(t) == \/ \E k \in Keys : AcquireLock(t, k)
               \/ Commit(t)
               \/ t \in Requests /\ GradeStep(t)
               \/ t \in Imports /\ ImportStep(t)

Next ==
    \/ \E t \in Requests : Post(t)
    \/ \E t \in Imports : Import(t)
    \/ \E t \in Transactions : Progress(t) \/ Abort(t)
    \/ \E c \in Touched, value \in BOOLEAN : SetSuspended(c, value)
    \/ \E deck \in ResetDecks : ResetProgress(deck)
    \/ \E c \in Revoked : RevokeStudy(c)
    \/ Tick
    \/ Quiet

Spec == Init /\ [][Next]_vars

(* Go runs every handler and Postgres grants a freed lock: a transaction   *)
(* that can move does move.  Nothing obliges it to fail.                   *)
FairSpec == Spec /\ \A t \in Transactions : WF_vars(Progress(t))
-----------------------------------------------------------------------------
Active(t) == pc[t] \notin {"idle", "done", "failed"}

(* All locks taken, not yet ended: the code that relies on them. *)
Locked(t) == \/ pc[t] \in {"dedup", "grade", "import"}
             \/ pc[t] = "commit" /\ work[t] \cup seeds[t] # {}

TypeOK ==
    /\ now \in 0..MaxNow
    /\ studyable \subseteq Cards
    /\ log \subseteq LogRows
    /\ ucs \in [Cards -> Rows \cup {NoRow}]
    /\ owner \in [Keys -> Transactions \cup {Free}]
    /\ pc \in [Transactions -> {"idle", "authorise", "lock", "dedup", "grade",
                                "import", "commit", "done", "failed"}]
    /\ work \in [Transactions -> SUBSET Events]
    /\ seeds \in [Transactions -> SUBSET Snapshots]
    /\ need \in [Transactions -> SUBSET Keys]
    /\ todo \in [Transactions -> SUBSET Events]
    /\ held \in [Transactions ->
                   [event : Events, row : Rows \cup {NoRow}] \cup {Nothing}]
    /\ wlog \in [Transactions -> SUBSET LogRows]
    /\ wucs \in [Transactions -> [Cards -> Rows \cup {NoRow, Unwritten}]]
    /\ results \in [Transactions -> [EventIds -> Statuses]]
    /\ forgotten \in [Cards -> SUBSET Entries]

(* The comment over lockKeys and GradeBatch: a concurrent grade of the     *)
(* same card waits.  No two transactions are past their locks on the same  *)
(* card, whatever collides and however their card sets overlap.            *)
CardExclusion ==
    \A t, u \in Transactions :
        t # u /\ Locked(t) /\ Locked(u) =>
            CardsOf(work[t] \cup seeds[t]) \cap CardsOf(work[u] \cup seeds[u]) = {}

Unseeded(c) == \A p \in Packages : \A s \in p.seeds :
                  s.card = c => s.at = Never

(* Cards whose history is all in review_log and unambiguous. *)
Regular(c) == Unseeded(c) /\ forgotten[c] = {} /\ TieFree(LogOf(log, c))

(* user_card_state is what replaying review_log would give, whatever the   *)
(* order batches, retries and imports arrived and overlapped in.  Excluded *)
(* are cards with two reviews at one instant, cards an import seeded       *)
(* without history, and cards a reset has cleared.                         *)
StoredIsReplay ==
    \A c \in Cards : Regular(c) => StepsOf(ucs[c]) = Replay(LogOf(log, c))

(* last_review is reviewed_at of the newest row of the log, ties included. *)
NewestReviewWins ==
    \A c \in Cards :
        Unseeded(c) /\ forgotten[c] = {} /\ LogOf(log, c) # {} =>
            ucs[c] # NoRow /\ ucs[c].last = LastReviewedAt(LogOf(log, c))

(* Whatever races it met, seeds and resets included, a row is the replay   *)
(* of the reviews it was built from, and its last_review is the newest of  *)
(* them: scheduling forward from it is sound.                              *)
SelfConsistent ==
    \A c \in Cards :
        LET known == Reviewed(StepsOf(ucs[c]))
        IN /\ known # {} => ucs[c].last = LastReviewedAt(known)
           /\ TieFree(known) => StepsOf(ucs[c]) = Replay(known)
           /\ Unseeded(c) => known \subseteq LogOf(log, c)

(* What the scheduler goes by follows the log: for regular cards the whole *)
(* log, for the others some part of it, last_review included.              *)
StateMatchesLog == StoredIsReplay /\ SelfConsistent

(* A review answered "applied" or "duplicate" is in the log for good: the  *)
(* client may drop it.                                                     *)
AckedIsLogged ==
    \A t \in Requests, id \in EventIds :
        pc[t] = "done" /\ results[t][id] \in {"applied", "duplicate"} =>
            id \in IdsOf(log)

(* However often an event is posted, one transaction at most applies it,   *)
(* and no card's log holds a review twice.  (Two collections may use one   *)
(* revlog id for reviews of different cards.)                              *)
AppliedOnce ==
    /\ \A t, u \in Requests, id \in EventIds :
          /\ t # u /\ pc[t] = "done" /\ pc[u] = "done"
          /\ results[t][id] = "applied"
          => results[u][id] # "applied"
    /\ \A r, s \in log :
          r.id = s.id /\ (r.card = s.card \/ ~ r.imported) => r = s

(* A batch posted however often, in parts that fail, are retried or run     *)
(* side by side, lands once: what was acknowledged stays, nothing lands    *)
(* twice (GradeBatch's idempotency).                                       *)
BatchesLandOnce == AckedIsLogged /\ AppliedOnce

(* What a commit adds to the log carries the true state before the review: *)
(* the replay of every row of the card that sorts before it.               *)
TruthfulPriors ==
    [][\A r \in log' \ log :
          Regular(r.card)' /\ ~ r.imported =>
              r.prior = PriorTo(LogOf(log', r.card), Entry(r))]_vars

(* review_log is append-only, and a state never forgets a review it was    *)
(* built from, except by a reset.                                          *)
NothingUnlearned ==
    [][/\ log \subseteq log'
       /\ \A c \in Cards :
            \/ Reviewed(StepsOf(ucs[c])) \subseteq Reviewed(StepsOf(ucs'[c]))
            \/ ~ Unseeded(c)
            \/ \E deck \in ResetDecks : c \in deck /\ ResetProgress(deck)]_vars

(* A batch or an import never changes a setting the user has made, even    *)
(* one made while it ran.                                                  *)
SettingsKept ==
    [][\A c \in Cards :
          pc' # pc /\ ucs[c] # NoRow =>
              ucs'[c] # NoRow /\ ucs'[c].suspended = ucs[c].suspended]_vars

(* No commit undoes what another one has made: neither log rows, nor the   *)
(* reviews that a state was built from, nor a user's settings.             *)
NothingUndone == NothingUnlearned /\ SettingsKept

(* Sorted keys: no set of overlapping batches waits for itself.            *)
EveryBatchEnds ==
    \A t \in Transactions : Active(t) ~> pc[t] \in {"done", "failed"}

-----------------------------------------------------------------------------
(* Grading implements the ledger: a commit is the instant a batch lands.   *)
CONSTANT Unsettled

Acknowledged ==
    UNION {{id \in EventIds : results[t][id] \in {"applied", "duplicate"}} :
             t \in {u \in Requests : pc[u] = "done"}}

SeededCards == {c \in Cards : ~ Unseeded(c)}
ClearedCards == {c \in Cards : forgotten[c] # {}}

Ledger == INSTANCE ReviewLedger WITH
    Seeded <- SeededCards,
    ledger <- [c \in Cards |-> LogOf(log, c)],
    progress <- [c \in Cards |-> IF Regular(c) THEN StepsOf(ucs[c])
                                 ELSE Unsettled],
    acknowledged <- Acknowledged,
    cleared <- ClearedCards

(* Every batch, retry and import, however they overlap, fail or wait, is   *)
(* one step of the ledger or none.                                         *)
LedgerSpec == Ledger!Spec

-----------------------------------------------------------------------------
(* What the source and its documents say, and the code does not do. *)

(* docs/architecture.md:561, "Rebuilding the card's history instead makes  *)
(* every arrival order converge": the stored state is the replay of the    *)
(* log, ties or not.                                                       *)
ArrivalOrderConverges ==
    \A c \in Cards : Unseeded(c) /\ forgotten[c] = {} =>
        StepsOf(ucs[c]) = Replay(LogOf(log, c))

(* deletion.sql:91, "the next review for a reset card starts fresh", and   *)
(* not from a replay of its history.                                       *)
ResetStartsFresh ==
    \A c \in Cards : Reviewed(StepsOf(ucs[c])) \cap forgotten[c] = {}

(* replay.go:34, "a rebuild from review_log is the newest truth for the    *)
(* card by construction": no rebuild discards what the row already knew.   *)
RebuildKeepsProgress ==
    [][forgotten' = forgotten =>
         \A c \in Cards :
            Reviewed(StepsOf(ucs[c])) \subseteq Reviewed(StepsOf(ucs'[c]))]_vars
=============================================================================
