# deckshare in TLA+

deckshare is a shared spaced-repetition server: a Go program over PostgreSQL
with server-rendered pages and one piece of client code that matters, the
reviewer (`web/static/review.js`). This directory holds TLA+ models of the parts
of it where several actors touch the same state, the TLC runs that check them,
and TLAPS proofs of what holds for every size of instance. `PROJECT.json` maps
every definition to the source lines it translates, every property to a run and
to a mutation of the code that breaks it, and every hazard to the properties
that would catch it.

- [1 Inventory](#1-inventory)
- [2 Plan](#2-plan)
- [3 The modules](#3-the-modules)
- [4 The runs](#4-the-runs)
- [5 Fairness](#5-fairness)
- [6 The proofs](#6-the-proofs)
- [7 What the source says and the code does not do](#7-what-the-source-says-and-the-code-does-not-do)
- [8 What is not modelled](#8-what-is-not-modelled)

## 1 Inventory

### Grading (`internal/review/grade.go`, `lock.go`, `replay.go`, `internal/http/review.go`)

*State.* `review_log` (append-only, client-made ids), `user_card_state` (one row
per user and card: the FSRS state, `last_review`, and the user's settings),
transaction-scoped advisory locks keyed by a 64-bit hash of (user, card).

*Operations.* `POST /api/reviews/batch` runs `GradeBatch` in one transaction:
clamp or reject each `reviewedAt` against the server's clock, drop the cards the
user may not study, take the advisory locks in ascending key order, drop what is
already logged, then grade the rest oldest first. A review at or after
`last_review` is scheduled forward; an earlier one rebuilds the card from the
whole log. The same rows are written by the .apkg importer (under the same
locks), by suspend, bury and flag (one upsert, no advisory lock) and by a
progress reset (deletes rows, no advisory lock).

*Hard.* Overlapping batches and imports; a retry while the first post is still
running; reviews arriving out of order or clamped to one instant; settings
changed between the read and the write of a row; hash collisions; a failure half
way through.

*Correct when* the stored state is what replaying the log gives, a review lands
once, what was acknowledged stays, every log row carries the true state before
it, no setting is lost, and no set of batches waits for itself.

### Review client, sender half (`web/static/review.js`, `grade` to `onBatchSettled`)

*State.* `pending`, `inFlight`, a flush timer, backoff timers.
*Operations.* grade, flush, settle (200, 400, 401, 409, 5xx, network error),
flush on `visibilitychange`, beacon on `pagehide`. *Interacts* with the batch
handler over a network that loses requests and answers, with the browser's
back/forward cache, and with the session cookie that other tabs change.
*Hard.* Answers lost after the server committed, a beacon next to a fetch, a
page restored with its JavaScript state, a session that becomes another
account's. *Correct when* no grade vanishes silently, none is written under
another account, they are saved in order, and all are eventually saved or
visibly refused.

### Review client, session queue (`web/static/review.js`)

*State.* the cards still to show, the cursor of the next refill,
`refillInFlight`, the grades not sent yet. *Operations.* show the next card,
requeue a learning card, refill from `GET /api/reviews/next`, study more, the
done screen. *Hard.* a refill is asked for once, at a threshold, by a cursor
into an order that the session's own grades change, and may be lost. *Correct
when* a session says it is done only when nothing is left, and never shows
nothing without saying so or waiting for an answer.

### Study queue (`internal/review/batch.go`, `order.go`, `interleave.go`, `preset.go`, `queries/reviews.sql`)

*State.* none of its own: it reads cards, the student's rows and log, and the
deck's preset. *Operations.* `BuildBatch` counts what the day has had, then
pages due, review and new cards under daily limits, a priority, a class-day
release gate and a cursor; mixed mode interleaves two streams. The deck page and
the deck list compute what is left from counts. *Hard.* counts and lists are
separate statements while grades are stored between them; the limits are
applied by rank in one place and by arithmetic in two others. *Correct when*
limits hold over a day, no card is skipped in a pass, and the numbers agree with
the pages.

### Class calendar (`internal/review/calendar.go`)

*State.* a start date, weekdays, skipped dates. *Operations.* the lesson a class
has reached on a date (by counting weeks), the date of a lesson (by walking).
*Correct when* the two agree, so that a lesson opens when it was announced.

### Media store and sweep (`internal/media`, `importMedia`, avatar upload)

*State.* files named by digest; `media_blobs`; references from `media_refs` and
`users.avatar_sha256`. *Operations.* `Put` (stat, or write and rename), row and
reference inserts in the importer's or the upload's transaction, cascade of a
deck's deletion, an hourly sweep of rows without references and of old files
without rows. *Hard.* the file system is outside every transaction; the sweep
decides first and unlinks later; crashes between the two. *Correct when* a
reference has its row and its bytes, and garbage goes.

### Deck access (`internal/db/deletion.go`, `internal/http/access.go`)

*State.* `decks`, `deck_access` (one row of flags per deck and user), row locks.
*Operations.* grant (INSERT), edit, revoke, reset progress, delete. Edit and
revoke lock the deck's row, change, then count the remaining managers and
deleters and roll back if none is left; a grant takes no such lock.
*Hard.* two managers removing each other, a grant racing a deletion, a check
made against a snapshot older than the lock. *Correct when* a deck never loses
its last manager or deleter.

### Deck contents and note types (`internal/db/notes.go`, `cards.go`, `notetypes.go`, `deletion.go`)

*State.* notes (each with a home deck), cards (each in a deck, unique per note
and ordinal), note types with their templates. *Operations.* create, edit, move
and delete notes; the ordinal diff `SyncNoteCards`; delete a deck, rehoming
notes that have cards elsewhere; renumber, add and remove templates in two
phases. *Hard.* each is several statements under different row locks. *Correct
when* no note is left without cards and no card under the wrong template.

### Authentication (`internal/auth`)

*State.* users, sessions (hashed token, idle and absolute expiry), reset tokens,
in-memory rate limiters. *Operations.* signup, login, logout, the middleware's
renewal, password change, operator-issued reset, hourly purge. *Hard.* a reset
link used twice or superseded while in use; a login that read the old password
committing its session after the purge of a password change. *Correct when* a
token works once and an old password leaves no session behind.

### .apkg import and export (`internal/apkg`, `internal/http/import.go`, `export.go`)

*State.* the tables of all the others. *Operations.* an import upserts note
types, decks, notes, cards, history and scheduling under the importing user, in
one transaction; an export reads a deck with the caller's own progress, converts
it to Anki's units and ids and writes the collection. *Hard.* re-imports over
rows the user has changed since, ids synthesised from instants and uuids, due
dates in three units, an export whose statements see different states.
*Correct when* what comes back is there once, what the user did stays, and what
one user exports another finds.

### The rest

`internal/fsrs` wraps the scheduler, a pure function; `internal/render` and
`internal/textimport` transform strings; the statistics, progress and flag
pages read, or write one statement; `migrations`, `cmd` and the sqlc output are
schema, wiring and generated code.

### How the parts interact

```
review.js queue --GET next--> Study queue --reads--> user_card_state, cards
review.js sender --POST-----> Grading ----writes--> review_log, user_card_state
.apkg import ---------------> Grading's tables (same locks), notes, cards, media
Deck access ----deletes-----> decks: cascade to cards, states, logs, media_refs
Media sweep ----deletes-----> media_blobs, files
```

## 2 Plan

Done, in this order, the most important behaviour first:

1. `ReviewHistory`, `ReviewGrading`, and `ReviewLedger` as the abstract
   specification it refines.
2. `ReviewSender`: the client's side of the same protocol.
3. `MediaStore`.
4. `DeckAccess`.
5. First proofs: exclusion by advisory locks; everything about deck access that
   is safety.
6. `DeckContents`: decks, notes, cards and note types at the granularity of
   statements, the two-phase remap of ordinals among them.
7. `ClassCalendar` and `StudyQueue`: the server's pages composed with the
   session that reads them and the grades that change them.
8. `Accounts`: sessions, passwords, reset links, limiters, clean-up.
9. `DeckPackage`: import and export, composed with what is done in between.

10. Proofs of what grading promises: `BatchesLandOnce`, `StateMatchesLog` with
    `StoredIsReplay`, `NewestReviewWins`, `TruthfulPriors`, `NothingUndone`.
11. Proofs of the safety properties of the sender, the media store and the
    accounts.
12. Proofs of `NothingSkipped`, `NeverStranded`, `PagesAgree`,
    `CapsHoldUpToOverlap` and `LessonsOpenOnTheirDate`: the queue's pages, its
    counters, the limits of the day, the calendar and the session that reads and
    grades fit together.
13. Proofs of all that is asked of `DeckContents`: `ContentsFit`,
    `DeletionIsExact`, `CardsOutliveEdits`, `DiscardIsConfirmed`.
14. Proofs of `LogComesBackOnce` and `ImportLeavesAlone` of `DeckPackage`.
15. The proof that `ReviewGrading` implements `ReviewLedger`.

Open:

16. `ReimportIsNoOp` and `ArrivesAsItWas` as theorems, for packages that are
    finite and repeat no id or name.
17. `StudyQueue` under fairness: that a session whose refills are answered
    reaches the done screen.

## 3 The modules

| module | models | proofs |
|---|---|---|
| `ReviewHistory` | FSRS as a function of the reviews fed to it, order and replay of a log | lemmas in `ReviewGradingProofs` |
| `ReviewGrading` | the grading transaction and every other writer of its tables | `ReviewGradingProofs`: types and locks, the log, the state, the ledger |
| `ReviewLedger` | what grading promises: an atomic ledger of reviews | implemented by `ReviewGrading`: `ReviewGradingProofs` |
| `ReviewSender` | the client's sender, the network, the answers, the tab | `ReviewSenderProofs` |
| `MediaStore` | blob files, rows, references, uploads, the sweep | `MediaStoreProofs` |
| `DeckAccess` | one deck, its access rows, the requests that change them | `DeckAccessProofs` |
| `DeckContents` | decks, notes, cards, note types, the requests that change them | `DeckContentsProofs` |
| `ClassCalendar` | lessons and dates: pure operators | |
| `StudyQueue` | the server's queue and the browser's session over it; EXTENDS `ClassCalendar` | `StudyQueueProofs` |
| `Accounts` | accounts, sessions, reset links, limiters | `AccountsProofs` |
| `DeckPackage` | packages, their import and export | `DeckPackageProofs` |
| `MCReviewGrading`, `MCMediaStore`, `MCDeckAccess`, `MCDeckContents`, `MCStudyQueue`, `MCAccounts`, `MCDeckPackage` | small instances | |

Operators whose comment begins with MUTANT are slips the code could have made;
they are used by nothing and exist to show that each property can fail. Where
several properties say one thing from several sides, their conjunction has a
name of its own (`ContentsFit`, `TokensEnd`, `ImportLeavesAlone`, ...) and that
is what a run checks.

**Postgres.** Every transaction of the program runs READ COMMITTED. A statement
is a step; a transaction's writes sit in buffers of its own (`wlog`, `wucs`,
`wrows`, `wrefs`; in `DeckAccess` the pending change itself) that other
transactions do not see and that Commit publishes and Abort drops. A write that
meets another transaction's uncommitted write of the same row or key is not
enabled until that one ends. `SELECT ... FOR UPDATE` is two steps, the snapshot
that decides and the lock with the re-read of the row, because another
transaction may commit in between.

**ReviewHistory.** FSRS numbers are abstracted to what they are a function of: a
state is the set of steps that built it, a step being a review with the reviews
that were known before it. Scheduling the same reviews in another order gives
another state, so a wrong order, a lost or a doubled review shows.

**ReviewGrading.** A "card" is a (user, card) pair. `Post` to `Commit` follow
`GradeBatch`: `Authorise` (clamp, reject, `ListStudyableCards`, lock keys),
`AcquireLock` (one key per step), `FilterExisting`, and per event `ReadState`
followed by `GradeTaken`, `GradeInOrder` or `GradeOutOfOrder`. The read of the
clock and of the studyable cards are one step: nothing between them depends on
their order. `Import`, `ImportReviews` and `SeedCardStates` are the importer's
part; an imported row stands for its Anki revlog id, which is what its unique
key holds. `SetSuspended` stands for suspend, bury and flag, three upserts of
the same form on the same row. `ResetProgress` waits only for rows it can see.
`Abort` is any failure at any statement, a crash included.

**ReviewLedger.** Variables `ledger`, `progress`, `acknowledged` and `cleared`;
a batch is one step, in which of the reviews that share an id one lands.
`ReviewGrading!Ledger` is the refinement mapping: the
ledger is the committed log, the progress the stored state. Nothing is promised
of the progress of a card that was seeded without history, was reset, or has two
reviews at one instant; it is mapped to `Unsettled`.

**ReviewSender.** `pending` is a set: `takePending` always drains it and the
server sorts. `wire` holds requests and answers; a fetch has a callback in
`waiting`, a beacon has none. `TabLife` chooses what may happen to the tab in an
instance. Delays are not modelled: a timer that is set may fire at any later
moment.

**MediaStore.** A file is absent, new, or past the sweep's grace period; it can
only age when no running upload wrote it, since the grace period is far longer
than an import may last. Put's stat and rename are one step: two writers of one
digest write the same bytes. The sweep is one goroutine. A deadlock of two
imports, which Postgres resolves by failing one, is the action `Victim`.

**DeckAccess.** One deck: no statement of these operations touches two.
`Receive` to `Commit` follow the five handlers. The foreign key's
`FOR KEY SHARE` is `sharers`, `FOR UPDATE` is `locker`.

**DeckContents.** A request reads its page or form, waits while the user fills
it in, and then runs its transaction: `seen` is what it read, `scan` the
snapshot of a statement that changes many rows, `dirty` its own writes, `excl`
and `share` its row locks. An UPDATE or DELETE of many rows is its scan and,
when nobody else holds those rows, its effect on those that still qualify; what
its subqueries read of other tables stays as the scan saw it. A note-type edit
goes through `planFields`, the remap of values and checksums, and
`planTemplates` with the ordinals staged below zero and finalised. Whether a
user may write is decided from a snapshot, and may be out of date when the
change lands. Histories: `torn` marks notes written last from a form or a
snapshot that was already replaced, `outrun` notes whose cards changed under the
deletion of their deck. The ids of new templates are drawn by the first
statement of the plan that needs them, which nobody else can see before the
commit. `Sound` is what the schema itself enforces or an import leaves: foreign
keys, unique ordinals, at least one field and template, a checksum that is that
of the first value.

**ClassCalendar, StudyQueue.** A page is `BuildBatch` with its arguments; `fetch`
is the request on its way: counts first (`ReadCounts`), list afterwards (`ListCards`), and
anything may be graded between the two. The two count queries are one step, and
so are the two list queries of mixed mode. `unsent` holds grades given and not
yet stored; the sender itself is `ReviewSender`'s subject. What FSRS computes is
the set `Outcome` of states and due dates a rating may lead to. The order by
hash is the constant `Shuffle`. `today` records what the caps of the day were
and what disturbed them: a settings change, say (`shifted`), and cards whose grade
was stored while a request was between its statements, whose grade was given
before midnight and stored after it, or that were hidden while their grade was
on its way (`slipped`).

**Accounts.** A request goes from statement to statement; a token is named by
the request that made it. `snap` and `doomed` are the snapshot of a DELETE and
the rows it takes, `owner` the lock of a user's row. `racers` records who ran
beside a transaction, `late` who ran beside the last change of the password.
Password hashing is why the window between reading the old hash and inserting
the session is wide; it is a step boundary here.

**DeckPackage.** Tables are one record, `db`. An import is one step (its locks
are `ReviewGrading`'s subject, its media `MediaStore`'s); an export is one step
for each of its eight statements (`Statements`), which sees the tables it joins
(`Tables`, `Seen`) and keeps them in `reading`. `Package` is the conversion to Anki's
columns, `Writable` the primary keys of the collection it is written to, and
reading the file back (`Read`) is the first part of `Import`. A state is named by what
it was computed from: a seed and the reviews since.

Every `Quiet` action only stutters, in states where the instance has nothing
left to do, so that TLC's deadlock check is meaningful everywhere else.

## 4 The runs

| run | shows | bounds |
|---|---|---|
| `grading_batches` | three posts with shared events, late events, a reused id, a suspend and failures at any statement: `StoredIsReplay`, `NewestReviewWins`, `BatchesLandOnce`, `TruthfulPriors`, `NothingUndone`, `TypeOK` | 3 requests (interchangeable, hence symmetry), 2 cards, 4 events, clock 0..1 |
| `grading_imports` | two batches, an import with history and a seed, a reset, a revocation: `LedgerSpec` (refinement), `StateMatchesLog`, `CardExclusion`, and `EveryBatchEnds` under fairness | 2 requests, 1 import, 2 cards |
| `sender` | everything that can happen to a tab and to a request: `GradesInOneHand`, `NeverMisattributed`, `OnlyBeaconsOvertake`, and `SettlesUnlessRefused` under fairness | 3 grades, 3 requests under way, 2 faults, 2 session switches |
| `media_shared` | `EveryRefHasRow`, `LossNeedsOverlap`, `NovelContentIsSafe`, `GarbageIsCollected` under fairness | 2 uploads of up to 2 files, 2 digests, 2 decks, 1 user, 1 fault or crash |
| `access_guard` | `NeverStranded`, `NoOrphanRow`, `GrantOnlyAdds`, `EveryChangeEnds` under fairness, `TypeOK` | 2 members, 3 requests of any kind, 1 failure |
| `accounts` | three requests of any kind beside ticks, clean-ups and a failure: `OldPasswordNeedsOverlap`, `LinksWorkOnce`, `TokensEnd`, `BudgetHolds` | 3 requests (interchangeable), 2 ticks, 1 failure, 2 addresses |
| `contents` | two requests of any kind, of two users, statement by statement: `ContentsFit`, `DeletionIsExact`, `CardsOutliveEdits`, `DiscardIsConfirmed` | 2 requests, 3 decks, up to 3 notes, 4 note types, cloze and standard, 8 cards |
| `study` | one student and one deck: `CapsHoldUpToOverlap`, `NothingSkipped`, `NeverStranded`, `PagesAgree`, `LessonsOpenOnTheirDate` | 5 cards on 4 notes, pages of 2, 2 ticks to a day, 2 events besides grading, 2 unsent grades, 1 extra round |
| `packages` | two users, two Anki packages and what is exported: `LogComesBackOnce`, `ImportLeavesAlone`, `ExportFailsOnTwins`, `ArrivesOnce` (`ArrivesAsItWas` and `ReimportIsNoOp`) | 1 export; of 2 imports, 2 edits and 2 batches of grades any three, in any order |
| `access_blind`, `contents_cardless`, `packages_torn` | disagreements, section 7 | as small as shows them |

Why these bounds are enough to meet the interesting cases. Grading: an
out-of-order review needs two events of a card, a race two transactions, a retry
of something half done a third; the replay of a log of three rows has a row
before, at and after the late one. Sender: a batch of two events with a third
graded meanwhile; two faults let a retry fail. Store: two uploads share one
digest, so that one finds the file or row the other made; two files each make
the deadlock possible. Access: one request makes the second manager, the other
two race. Accounts: of three requests two can race and the third use, or miss,
what they leave; with one failure each of them can fail half way. Contents: two
requests race over notes whose cards lie in several decks, one of them already
bereft of a card by an earlier deletion, which stands for a third request.
Study: two pages and a refill with grades of the first unsent, of new, due and
relearning cards in two lessons. Packages: two imports are the least for a
re-import and for a package that comes back, and with the export and a change
between them they exercise each writer of the shared rows; two batches or two
edits let one fall before the export and one among its statements. `MaxNow`,
`MaxFaults`, `MaxSwitches`, `MaxTimers`, `LastEvent`, `Tickets`, `MaxTime`,
`MaxEvents`, `MaxSlots`, `MaxRounds`, `MaxUnsent`, `MaxEdits`, `MaxGrades`,
`MaxImports`, `MaxExports` and `MaxChanges` are bounds of the instance, each in
the guard of the action it limits; while an export reads, `Spare` keeps one
import and one change back, so that what it writes can still be imported. `CHECK_DEADLOCK FALSE` stands where the
instance has no `Quiet` action and simply runs out of inputs.

Configurations beside these, which pass as well: `MCGradingLocks.cfg` (three
batches over three cards, two of which share a lock: `CardExclusion`,
`EveryBatchEnds`), and the remaining invariants of the other instances,
types among them: `MCMediaMore.cfg`, `MCAccountsMore.cfg`
(`OneAccountPerAddress`, `NobodyWaitsForTheGone`), `MCStudyMore.cfg`,
`MCPackagesMore.cfg`, `SenderMore.cfg`.

What properties except, they name, and each exception is a case where they would
be false, not a convenience:

- `StoredIsReplay` (`Regular`): a card with two reviews at one instant, one
  seeded without history, one that was reset. `StateMatchesLog` says something
  of those too.
- `LossNeedsOverlap`: a live reference can lose its bytes only if a sweep had
  decided on the digest while an upload held it; `NovelContentIsSafe` says that
  content nobody had stored before, nor stored meanwhile, is never lost, the
  purpose of the grace period.
- `OnlyBeaconsOvertake`, `SettlesUnlessRefused`: beacons, batches refused whole,
  answers that break off; see section 7.
- `ContentsFit` (`torn`): only the number of a form's values is compared, so a
  form that outlived a reorder of fields is stored misaligned; a note created
  while its note type changed has the cards of the templates it read, and
  `CreateCardsForNewTemplate` may add one to a note that has just switched type.
- `DeletionIsExact` (`outrun`): the deletion counts the cards elsewhere in a
  snapshot, so a note that another request moved or whose last other card went
  meanwhile is spared or taken wrongly; a deletion racing `MoveNote` takes the
  moved note. It also excepts a removed template: a note that lost its other
  card with a deck loses its last one then, even with nothing concurrent.
- `CardsOutliveEdits` (`torn` again): an edit that had read the templates before
  they were reordered repoints cards, and so does the next one, which puts them
  right.
- `DiscardIsConfirmed`: a template added, or a note made, after the check of the
  form is not part of what was confirmed.
- `CapsHoldUpToOverlap` (`slipped`, `shifted`): a grade stored between a
  request's counts and its list gives its place to another card; so does a grade
  of yesterday that is stored today, which is booked on yesterday's limits and
  takes the card out of today's ranks, and a card hidden while its grade is on
  its way; a settings change re-ranks what was served.
- `NothingSkipped`, `NeverStranded` (`steady`): nothing but grading happened to
  the session. After a change of priority a cursor of the other kind is read as
  position zero, or makes a refill fail, which is never retried
  (`refillInFlight` stays set); a grade of yesterday's page that lands today
  re-keys a card already served.
- `OldPasswordNeedsOverlap`: a login that had read the old hash commits its
  session after the purge; `LinksWorkOnce` excepts two links issued side by side.
- `LogComesBackOnce` (`ReviewsComeBackOnce`): the key that keeps history from
  being filed twice is the Anki id, and a review made in the app has none. Its
  user who exports it and imports the package has it in the log twice, as it was
  made and as it came back, and FSRS counts both; further imports add no third
  row, since the second has the id. What a package brought is there once.
- `ImportLeavesAlone`: of retention settings it says that those there stay and
  that new ones are the importer's own; that their deck is the importer's too
  holds of the instance (`TypeOK` and the packages of `MCDeckPackage`) but not of
  a package that repeats ids, whose meaning `CHOOSE` leaves open.
- `ExportFailsOnTwins`: reviews made in the app have no Anki id; exported and
  imported again by the same user they are inserted a second time, and the two
  rows then share the revlog key, so that the deck can no longer be exported.
  Notes created in one transaction share their instant, with the same effect.
- `ArrivesAsItWas`: due dates of reviewed cards are whole days; suspension,
  burial, flags and the seed of a card that has reviews stay behind.

## 5 Fairness

Every fairness condition is weak and on the program's own steps; only
`grading_imports`, `sender`, `media_shared` and `access_guard` use one. `ReviewGrading`
and `DeckAccess`: a handler whose next statement can run runs it; a statement
waiting for a lock can run once the lock is free, and each lock is freed by its
holder's own end. Where several wait for one lock, the instances hold finitely
many requests, so weak fairness suffices and Postgres's queueing order need not
be assumed. `ReviewSender`: timers fire, the server handles a request that
reaches it, a fetch's promise settles; faults and session switches are finite
and nothing is assumed of them. The server's success is not assumed either, only
that it stops failing after `MaxFaults`. `MediaStore`: uploads finish, files
age, the sweep keeps ticking. Failing, crashing, suspending, resetting,
revoking, deleting and closing a tab are never fair. `Accounts`, `DeckContents`,
`StudyQueue` and `DeckPackage` are checked for safety only: `NeverStranded` and
`NobodyWaitsForTheGone` say as invariants that nothing waits for what will not
come.

## 6 The proofs

All constants are arbitrary: any number of cards, requests, users, any hash
function, any posts and packages. The assumptions are the `ASSUME`s of the
modules: the type of the inputs, finite batches, sentinels that are not values,
non-negative windows and bounds.

Each invariant below was checked with TLC on the instances of section 4 before
it was proved, and each theorem follows from Init => Inv, Inv /\ [Next]_vars =>
Inv' and Inv => the property.

**Grading** is proved in four layers, each one's invariant resting on the one
below.

The first part of *`ReviewGradingProofs`*: who may write. `TypeCorrect` proves `TypeOK`,
strengthened by `FiniteLogs` (logs and work sets are finite), which the maximum
and order of a log need. `GradingExcludes` proves `CardExclusion`. That property
is not inductive: it speaks of transactions past their locks and says nothing of
how the locks got there. The invariant that carries it, `LockInv`, says that
every key of a transaction's work and seeds is either still in `need` or owned
by it (`KeysAccounted`), that only a transaction in its grading phase holds an
event, and that batch requests carry no seeds. A transaction that is past "lock"
has an empty `need`, hence owns all its keys; two transactions sharing a card
would own one key.

The second part of *`ReviewGradingProofs`*: what reaches `review_log`. `LogInv` says that a buffer holds
nothing of a card its transaction has not locked (`BufferInv`), where a
transaction's work comes from (`WorkInv`), that the buffers and the committed
log share no unique key (`KeyInv`), and that an answer in the making is backed
by a row, "applied" by the transaction's own and "duplicate" by one in the log
(`ResultInv`). `RetriesAreHarmless` follows: `BatchesLandOnce` for any number of
posts of the same events.

The third part of *`ReviewGradingProofs`*: what `user_card_state` makes of the log. A card has many
views, the committed one and one per transaction that has written it. `RowInv`
says that every view's state is the replay of the reviews it knows, and for a
card that was neither seeded nor reset that it knows its whole log; `HeldInv`
that the row a handler read before scheduling still is the row; `KeepInv` that a
buffered row knows what the committed one knows and has its settings; `PriorInv`
that each buffered log row carries the replay of what sorts before it, and that
nothing that sorts before it is still to be graded. By `CardExclusion` at most
one view differs from the committed one, so a write has one view to keep right
and a commit only publishes it. The theorems are `StateFollowsLog`,
`StoredStateIsReplay`, `NewestWins`, `PriorsAreTrue` and `CommitsUndoNothing`.

The fourth part: `GradingIsALedger`, that `ReviewGrading` implements `ReviewLedger`
under the mapping `Ledger`. `LandInv` says ahead of each commit what it will have
added: a batch's work is a post adjusted at one reading of the clock, its answers
are those of the events it is done with, and its rows are of its events
(`BatchLands`); an import's work is a package, and its rows are the reviews it is
done with that the log has not got (`ImportLands`), which the commits of others
cannot change, by exclusion. Then a commit is `Accept` of that post
(`BatchIsAccepted`) or `Backfill` of that package (`ImportIsBackfilled`), a reset is
`Forget` of the cards it found with a log (`ResetForgets`), and every other step
stutters (`OthersStutter`). That the mapped progress is what the ledger settles on
is `StoredIsReplay`, before the step and after it (`SettledIs`, `Lands`).

All rest on the lemmas about `ReviewHistory` that *`ReviewGradingProofs`* begins
with, about entries, replay and the newest review of a finite log: in particular
that `Replay` of a log extended at its end is one more scheduling step, which is
why the in-order path may skip the replay.

**Sender** (*`ReviewSenderProofs`*). `HeldInv` says that every grade made is
pending, with a callback, or settled; `OrderInv` that a watched batch left with
every earlier grade that was not settled; `TicketInv` and `AnswerInv` tie an
answer to the batch it answers and to the log. `NothingSlipsAway`, `LogIsOwn`
and `FetchesKeepOrder` follow. The wire is never counted on: a lost request or
answer changes none of the sets the invariant speaks of.

**Media store** (*`MediaStoreProofs`*). `ParentInv` is the foreign key inside a
transaction; `OverlapInv` extends `LossNeedsOverlap` to blobs an upload holds
without having committed; `SweepInv` says what the sweep's candidates are at each
of its steps; `NovelInv` and `SettledInv` that content nobody else ever put is in
a file too young for the sweep until its reference is committed, and has a row
that is referenced afterwards. From them `RefsHaveRows`, `LossIsOverlap`,
`NovelIsSafe`.

**Deck access** (*`DeckAccessProofs`*). `Inv` is `TypeOK`, `NeverStranded`,
`NoOrphanRow` and four facts that tie the program counters to the locks: which
kinds of change reach which step, that whoever is between lock and commit holds
the deck's row (and whoever inserted holds the share, so nobody holds the row),
that an edit or revocation counted rows that are still the committed ones, and
that a grant past its INSERT found no row and nobody has written that key since.
From it follow `TypeCorrect`, `GuardHolds`, `DeletionIsComplete` and, as an
action property, `GrantsAdd`.

**Deck contents** (*`DeckContentsProofs`*). The tables are `Sound`, and a note that
is not `torn` follows its type (`Tables`); that alone is not inductive, because a
statement relies on what earlier statements of its transaction read. `Local` says
of one request, stage by stage, what its statements have built up and what of it
its locks keep true: rows it locked exist and what it will delete it has locked
(`Locks`); the note it writes is the one it locked, with its cards once they are
read FOR UPDATE (`NoteInv`); a note with all its cards in a deck under deletion is
doomed, and every doomed note is out of others' reach with its cards, unless its
cards changed since the scan (`DeckInv`); the notes of a type under edit have all
been rewritten for the new fields or the fields are the same, which holds because
the type's lock keeps notes from coming to it (`FieldsInv`); each staged or
deleted card is of a moved or removed template (`TemplatesInv`). `Apart` says how
the locks of two requests exclude each other, and that no template will belong
to two types.

A commit must not break what the others know, and it would be pairs of stages
times pairs of stages to show that directly. `Respects` states once what a
commit may not do to the rows another request holds, shares or refers to:
`LocalStays` shows that this is all `Local` needs, and each committing action is
shown to respect every other request, from the conflict of its locks with
theirs. Statements that commit nothing take locks nobody holds (`Grown`). The
action properties are proved in the same pass: `Careful` is the conjunction of
their bodies, and `NextKeeps` gives `Inv'` and `Careful` for every step. So
follow `ContentsAlwaysFit`, `DeckDeletionIsExact`, `EditsKeepCards` and
`RemovalIsConfirmed`. `ContentsAssumption` only keeps the kinds of rows and the
sentinels apart; `ImportedAssumption` says that the tables to start from are
`Sound`, as the schema's keys and an import leave them, and nothing of notes
following their types.

The proof needed two exceptions that the properties had put wrongly and that the
instance never met. `CardlessOnlyIfOutrun` excused a step in which the note's
own type lost a template; the card that goes may be of another type's template
if the note is torn, so it now asks for a card whose template is gone.
`RepointNeedsTypeChange` looked at `torn` after the step only, although an edit
that puts the cards of a torn note right repoints them too.

**Accounts** (*`AccountsProofs`*). `PlaceInv` says what a request knows where it
is. Beside it four invariants, none of which needs the row lock of a user:

- `PasswordInv`, for `OldSessionsRacedTheChange`. Whoever is under way while a
  transaction runs is in its `racers` (`Company`); what its DELETE of sessions
  did not see is of one of those (`PurgeInv`); and a request that is about to
  open a session on a hash that is out of date ran beside the last change
  (`HashInv`).
- `LinkInv`, for `LinksAreSpentOnce` and `TokensStayDead`. No link is known
  before an answer has handed it out (`HandInv`), so a link made after a
  snapshot is never in it; what a DELETE of links does not take was made by
  company (`ScanInv`); what it takes is there and of its account (`ClaimInv`);
  two transactions never take one row (`Apart`, the row lock of the DELETE); and
  the link of a reset that was answered is gone (`UsedUp`).
- `SignupInv` and `LockInv`, for `OneSignupWins` and `LocksEndWithRequests`.
- `BudgetInv`, for `TwoBudgetsPerWindow`. A bucket has counted everybody since
  it was opened (`Counts`), and so at most one budget; the window before it was
  opened had one budget as well. If the sweep has dropped the bucket, the last
  window had at most one (`Forgets`): it drops only what has elapsed. A stretch
  as long as the window that contains this moment lies in those two.

**Study queue** (*`StudyQueueProofs`*). Half of the module is about
operators: `RankedIs`, that a query's ranks are the numbers below its size and its
order is the order of the keys; `InterleaveIs`, that the interleaving takes each source
in order and all of it if there is room; `BatchIs`, that a page from a cursor,
in any priority mode and whatever the limits, is what the invariant needs it to
be (`Progress`): cards that are offered and ahead of the cursor, all of them if
it is the last page, and otherwise some card, with a cursor that has passed what
was served and nothing else. `GradeShrinks` is the argument of the cutoffs: a
grade lowers a remainder by what it takes out of the ranks, so what is offered
afterwards was offered before. On these rests `SteadyInv`. From where the session
stands, what is offered and not ahead has been served, and in the first round
what was served is not met again (`CanGoOn`); the same holds of the page on its
way; and at least two slots are pending until a refill is asked for. It speaks
of sessions to which nothing but grading has happened (`steady`), as the two
properties do, and of counts that may have been overtaken by grades between a
request's statements. `DoneMeansServed` and `SessionsGoOn` follow. The
assumption that the refill threshold is at least 2 is needed: with 1 a refill
would be asked for only when the last slot is answered, and none is shown then
(`REFILL_THRESHOLD` is 10). `NumbersAgree`, that pages and counters tell the
same, needs no history: a cutoff by rank has as many cards as the lesser of the
allowance and the pool (`CutoffSizes`), and whichever source the priority puts
first, the two together are allotted the lesser of their sum and the total
(`AllocationIs`).

`CapsHold` is `CapsHoldUpToOverlap`, and its invariant `CapInv` follows a card from
the page that lists it to the log. Served and not yet stored, it is *owed*: it is
on a page on its way, pending in the queue, or graded and unsent. What is booked
is not only within the cap (`Kept`): every owed card is in the pool the server
picks from and has a rank there below what the cap leaves. Then it does not
matter in which order the grades arrive. Storing one moves its card from owed to
booked and out of the pool, and every card behind it loses a rank
(`KeptBooks`). A page adds only cards within the ranks its
counts left, and those counts missed nothing that was stored by then but what
has `slipped` (`CountInv`). A due card may come up again in the session that
answered it; it is booked once, because a card stands twice in a queue only as a
repetition (`Single`) and a repetition follows its first answer (`RepeatInv`).
What `slipped` and `shifted` leave out is what the code does not count
(section 4), no more: `NewKept` needs only that nobody edited the settings, since no card becomes new
again; `DueKept` falls with any shift, since a card that falls due or is
unsuspended may come in front of those already served.

`LessonsOpenOnTheirDate` sets two algorithms against each other:
`CurrentClassDay` counts weeks, `MeetingDates` walks from date to date. What
would be inductions over dates are arguments from the least counterexample. Any
seven days in a row hold each weekday once (`WeekIs`), so whole weeks hold weeks
times weekdays of class days (`WeeksAre`), and the arithmetic of the gate counts
the meetings up to a date, skipped ones left out (`ClassDayIs`). The walk meets
every class day in turn and its limit suffices (`WalkIsEnough`, `DatesAre`). A
lesson's date is then the first on which the gate has reached it (`DateAndGate`).
The invariant `CalendarInv` says only that the deck's preset has a calendar of the
kind the settings form accepts, `PresetAssumption` that the presets an instance
begins with or changes to are such.

**Packages** (*`DeckPackageProofs`*). For `LogComesBackOnce` the invariant is
`Scheduling` of the tables at this moment: every row of the log was made before
now, belongs to a scheduling row, and has a key of its own (`Single`: its
instant, and whether it came with an Anki id), and each
scheduling row was computed from the `History` of its card, the card's rows in
the log's order; and every package at hand holds only past reviews. A history is
a sequence, and the proof gets at it through ranks: an entry's place is the
number of entries before it (`RanksAre`), so that a log which grows at its end
gives a history which grows at its end (`HistoryGrows`). Hence grading may append
where importing replays: `GradeBatch` stamps its review now, after all there are,
while `ReviewsFollow` needs no order, since `importReviews` replays the whole
history of each card that got a row. `HistoriesComeBack` is the theorem.

`ImportLeavesAlone` follows the parts of an import table by table: `DecksStay`,
`TypesStay`, `NotesStay`, `CardsStay` and `RetentionStays` say what of a table's old
rows a part may change, of whom, and whose the rows are that it adds;
`ReviewsAreAdded` and `SeedsAreAdded` say the same of the log and the scheduling
rows, where only rows of the importer on the importer's own cards are written;
every card written has a key of the package (`KeysAreInPackage`). `ImportsLeaveTheRestAlone` puts them together for one
import, from the invariant that the tables are `Shaped`, which is that they and
the columns an import passes over are there. Nothing is asked of the package: it
may repeat ids, guids and names.

`HistoryAssumption` says of the constants what the code writes there: the
stored rows are `Shaped` and stand for their log, and the files at hand hold no
review of the future.

Only model-checked, and why:

- `EveryBatchEnds`, `SettlesUnlessRefused`, `GarbageIsCollected`,
  `EveryChangeEnds`: liveness under fairness is beyond this prover.
- Of `DeckPackage`: `ExportFailsOnTwins`, which is not true of all constants (two
  Anki packages may bring an id each had given to something else);
  `ReimportIsNoOp` and `ArrivesAsItWas`, which hold of packages that are finite and
  repeat no id and no name, as Anki writes them and a read file is checked. They
  compare whole tables before and after two long computations, and their
  theorems would first need that of every package at hand as an invariant.
- What a recursive definition computes for every input: no prover at hand
  instantiates the induction theorems. The models avoid recursion where they are
  proved about.

## 7 What the source says and the code does not do

Each of these is a run whose one property states the quoted sentence; TLC's
counterexample is what the code does. `PROJECT.json` quotes both sides.

- `access_blind`: the last manager may clear `can_view` on its own row; the
  guard still counts it, and every route then answers 404.
- `contents_cardless`: two decks deleted at once, each with one card of a note:
  each deletion sees the other's card and spares the note, which is left without
  cards, against the post-condition at `internal/db/deletion.go:25`.
- `packages_torn`: an export's statements do not see one snapshot
  (`internal/http/export.go:60`): its transaction is READ COMMITTED, and a note
  created between two of them gives the package a card without its note.

Further disagreements, stated as properties and refuted by the configuration
named, which is not among the listed runs:

- `MCGradingSeeded.cfg`, `RebuildKeepsProgress`: a rebuild from `review_log`
  forgets a state that was seeded from a package without history, against
  `user_card_state.sql:52`.
- `MCGradingSkew.cfg`, `ArrivalOrderConverges`: two reviews clamped to one
  instant; the second is logged and never scheduled (`grade.go:39`, the strict
  guard of `user_card_state.sql:50`), against `docs/architecture.md:561`.
- `MCGradingReset.cfg`, `ResetStartsFresh`: after a reset, a review that
  arrives out of order replays the log the reset kept, against
  `deletion.sql:91`.
- `SenderBacklog.cfg`, `ValidIsNotDropped`: a backlog longer than
  `maxEventsPerPost` is answered 400 and dropped whole after an outage, against
  `docs/architecture.md:489`.
- `SenderStranded.cfg`, `EverythingSettles`: grades made while a refused batch
  was out are not scheduled, against `docs/architecture.md:487`.
- `SenderOvertaken.cfg`, `SenderIsFIFO`: the `pagehide` beacon overtakes an
  outstanding fetch, against `docs/architecture.md:563`.
- `SenderRestored.cfg`, `EverythingSettles`: a page restored from the
  back/forward cache after its beacon has `inFlight` set for good, against
  `review.js:590`.
- `SenderTruncated.cfg`, `EverythingSettles`: an answer whose body breaks off
  leaves `inFlight` set for good, against `docs/architecture.md:489`.
- `MCMediaStranded.cfg`, `NoRowIsStranded`: a reference committed between the
  sweep's unlink and its DELETE leaves a row without bytes for good, against
  `gc.go:66`.
- `MCMediaAvatar.cfg`, `NoAvatarIsStranded`: an avatar uploaded again while its
  old row is swept, against `settings.go:341`.
- `MCMediaNames.cfg`, `OnlyDeckDeleteStrands`: an import whose filename is taken
  leaves an unreferenced row, against `media_blobs.sql:13`.
- `MCContentsRepoint.cfg`, `NeverRepoints`: a note edit that read the templates
  before a reorder committed repoints cards although the note type stays, against
  the comment in `cards.go`.
- `MCStudyTotal.cfg`, `TotalCapHolds`: a refill is cut by a total that leaves out
  the cards served and not graded yet, so a day serves more than the total
  (`preset.go:205`).
- `MCPackagesSettings.cfg`, `SettingsTravel`: a suspension or flag of a card that
  has reviews is lost on a round trip, which `docs/apkg-format.md:327` does not
  list among its losses.

Observed while modelling and left as it is: re-importing after a note type was
renamed makes a second type with the same Anki id, of which an export keeps the
last; a re-import moves a card back to the package's deck although its note
stays where it was filed; `UpdateImportedNote` may change a note's type while
cards the file does not contain keep their old templates; suspending from the
note list makes a state-0 row that escapes the new-card cap and the lesson gate.

## 8 What is not modelled

- Numbers of FSRS (stability, difficulty, due dates): a pure function, covered
  by its own vectors.
- Of .apkg packages: ratings, tags, CSS, the media of an export, archive and
  encoding limits, the rejections of a malformed file. An import is one step.
- Template rendering, text import: string transformations without shared state.
- Statistics, progress and flag pages, and pages whose whole effect is one
  statement; migrations, commands and generated code.
- Liveness of the study session: `ENABLED` of its fairness conditions would
  evaluate whole pages at every state, which is out of TLC's reach here.
- Serialisation failures: no transaction asks for more than READ COMMITTED.
- More than one server process for the sweep: the program starts one.
