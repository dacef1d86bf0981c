----------------------------- MODULE StudyQueue -----------------------------
(***************************************************************************)
(* What a student is served from one deck: the server's paged queue        *)
(* (internal/review, the study queries) and the session that pages through *)
(* it in the browser (web/static/review.js), while grades are still on     *)
(* their way, the deck's settings change, cards are suspended elsewhere    *)
(* and the study day ends.                                                 *)
(*                                                                         *)
(* Time is counted in ticks, TicksPerDay of them in a study day.  Cards    *)
(* are numbered in the order of their ids.  Rendering is left out; what    *)
(* FSRS computes is abstracted to the state and the due date it leads to.  *)
(***************************************************************************)
EXTENDS ClassCalendar

CONSTANTS
    Card,              \* card ids, positive integers
    Notes,             \* a partition of Card: the cards of each note
    Position,          \* [Card -> Int]: import_due_position, or NoPosition
    NoPosition,
    Lesson,            \* [Card -> 0 .. MaxReleaseDay]: the release day of its note
    Shuffle(_, _),     \* the hash of a card and a day, for a random order
    TicksPerDay,
    Page,              \* cards per page and refill
    RefillThreshold,   \* a refill is asked for with fewer unseen cards left
    maxExtraRounds,    \* bound on the extra rounds a request may ask for
    DefaultNewPerDay, MaxNewPerDay, DefaultRevPerDay, MaxRevPerDay,
    MaxLookAhead,
    Rating,            \* the ratings given, a subset of 1 .. 4
    InitPreset,        \* the settings a deck may start with
    InitRow,           \* the student's rows at the start
    Edit,              \* settings forms submitted: [field, value]
    InitTick, MaxSlots, MaxRounds, MaxUnsent,
    MaxEvents          \* page loads, ticks, settings, marked cards, lost refills

\* A user_card_state row: due and last are ticks, buried and days are days.
Row == [state : 0 .. 3, due : Int, last : Int, days : Int,
        suspended : BOOLEAN, buried : Int]
NoRow == [state |-> -1]

ASSUME StudyAssumption ==
    /\ Card \subseteq Nat \ {0} /\ IsFiniteSet(Card)
    /\ UNION Notes = Card
    /\ Position \in [Card -> Int] /\ Lesson \in [Card -> 0 .. MaxReleaseDay]
    /\ Rating \subseteq 1 .. 4
    /\ {TicksPerDay, Page} \subseteq Nat \ {0} /\ RefillThreshold \in Nat \ {0, 1}
    /\ {DefaultNewPerDay, MaxNewPerDay, DefaultRevPerDay, MaxRevPerDay} \subseteq Nat
    /\ {maxExtraRounds, MaxRounds, MaxEvents} \subseteq Nat /\ InitTick \in Int
    /\ \A c \in Card, t \in InitTick .. InitTick + MaxEvents :
          Shuffle(c, t \div TicksPerDay) \in Int
    /\ InitRow \in [Card -> Row \cup {NoRow}]

ASSUME PresetAssumption ==
    /\ \A p \in InitPreset : "calendar" \in DOMAIN p /\ Dated(p.calendar)
    /\ \A e \in Edit : e.field = "calendar" => Dated(e.value)

VARIABLES
    now,      \* the tick
    preset,   \* decks.preset, as stored
    row,      \* the student's user_card_state rows
    log,      \* the student's review_log rows
    queue,    \* the session's slots
    session,  \* the rest of the page's state
    fetch,    \* the page or refill request under way
    unsent,   \* grades given and not yet stored, oldest first
    today,    \* what this study day's caps were and what disturbed them
    spent     \* how often the bounded events have happened

vars == <<now, preset, row, log, queue, session, fetch, unsent, today, spent>>

Never == -1
Day(t) == t \div TicksPerDay
DayStart(t) == Day(t) * TicksPerDay

Least(S) == CHOOSE x \in S : \A y \in S : x <= y
Most(S) == CHOOSE x \in S : \A y \in S : x >= y

-----------------------------------------------------------------------------
(* The deck's settings, read from what is stored.                          *)

Absent == -1

newPerDay(p) == IF p.newPerDay \in 0 .. MaxNewPerDay THEN p.newPerDay ELSE DefaultNewPerDay
revPerDay(p) == IF p.revPerDay \in 0 .. MaxRevPerDay THEN p.revPerDay ELSE DefaultRevPerDay
dueLookAhead(p) == IF p.ahead \in 0 .. MaxLookAhead THEN p.ahead ELSE 0
revOrder(p) ==
    IF p.order \in {"due", "random", "intervalAsc", "intervalDesc"} THEN p.order ELSE "due"

\* A deck saved before priorities existed keeps the choice its mix made.
priority(p) ==
    CASE p.priority \in {"due", "new", "mixed"} -> p.priority
      [] p.priority = "absent" /\ p.mix = "beforeReviews" -> "new"
      [] p.priority = "absent" /\ p.mix = "mixed" -> "mixed"
      [] OTHER -> "due"

Settings(p, day) ==
    [newPerDay |-> newPerDay(p), revPerDay |-> revPerDay(p), order |-> revOrder(p),
     priority |-> priority(p), ahead |-> dueLookAhead(p),
     classDay |-> GateDay(calendarFromWire(p.calendar), day)]

-----------------------------------------------------------------------------
(* Which cards are eligible, in which order, and up to which rank.         *)

\* Positions are compared like SQL rows.
Less(a, b) == \E i \in 1 .. 3 : a[i] < b[i] /\ \A j \in 1 .. i - 1 : a[j] = b[j]
Ranked(S, key) ==
    [i \in 1 .. Cardinality(S) |->
        CHOOSE c \in S : Cardinality({d \in S : Less(key[d], key[c])}) = i - 1]
Upto(s, n) == IF Len(s) <= n THEN s ELSE SubSeq(s, 1, n)

\* The first rows of S behind a position.
Behind(S, key, pos, limit) == Upto(Ranked({c \in S : Less(pos, key[c])}, key), limit)

LastPosition == 1000000
newCardKey(c) == IF Position[c] = NoPosition THEN LastPosition ELSE Position[c]
revKey(order, at, c) ==
    CASE order = "random" -> Shuffle(c, Day(at))
      [] order = "intervalAsc" -> row[c].days
      [] order = "intervalDesc" -> -row[c].days
      [] OTHER -> row[c].due

NewKey(c) == <<0, newCardKey(c), c>>
RevKey(order, at, c) == <<0, revKey(order, at, c), c>>

unseen(c) == row[c] = NoRow

\* Neither suspended nor buried, due, and not answered in this study day.
Ready(s, at, c) ==
    /\ ~row[c].suspended
    /\ row[c].buried <= Day(at)
    /\ row[c].due <= at + s.ahead
    /\ row[c].last < DayStart(at)

NewCards(s) == {c \in Card : unseen(c) /\ Lesson[c] <= s.classDay}
ReadyCards(s, at) == {c \in Card : ~unseen(c) /\ Ready(s, at, c)}
DueCards(s, at) == {c \in ReadyCards(s, at) : row[c].state = 2}

\* MUTANT: the ranks are taken behind the cursor.
newCutoffPaged(s, newRemaining, pos) ==
    {c \in NewCards(s) :
        Cardinality({d \in NewCards(s) : Less(pos, NewKey(d)) /\ Less(NewKey(d), NewKey(c))})
            < newRemaining}

\* The allowances cut by rank, over every eligible card and not only those
\* behind the cursor.
newCutoff(s, newRemaining, pos) ==
    {c \in NewCards(s) :
        Cardinality({d \in NewCards(s) : Less(NewKey(d), NewKey(c))}) < newRemaining}

revCutoff(s, at, totalRemaining) ==
    {c \in DueCards(s, at) :
        Cardinality({d \in DueCards(s, at) :
            Less(RevKey(s.order, at, d), RevKey(s.order, at, c))}) < totalRemaining}

\* Cards that are neither new nor in review state are never cut.
OfferedReviews(s, at, totalRemaining) ==
    revCutoff(s, at, totalRemaining) \cup (ReadyCards(s, at) \ DueCards(s, at))

groupBit(s, c) == IF unseen(c) = (s.priority = "new") THEN 0 ELSE 1
SortKey(s, at, c) ==
    <<groupBit(s, c), IF unseen(c) THEN newCardKey(c) ELSE revKey(s.order, at, c), c>>

ListDueCardsForStudy(s, at, newRemaining, totalRemaining, pos, limit) ==
    LET offered == newCutoff(s, newRemaining, pos) \cup OfferedReviews(s, at, totalRemaining)
        key == [c \in offered |-> SortKey(s, at, c)]
    IN Behind(offered, key, pos, limit)

ListReviewCardsForStudy(s, at, totalRemaining, pos, limit) ==
    LET offered == OfferedReviews(s, at, totalRemaining)
    IN Behind(offered, [c \in offered |-> RevKey(s.order, at, c)], pos, limit)

ListNewCardsForStudy(s, newRemaining, pos, limit) ==
    LET offered == newCutoff(s, newRemaining, pos)
    IN Behind(offered, [c \in offered |-> NewKey(c)], pos, limit)

-----------------------------------------------------------------------------
(* A page of the queue.                                                    *)

\* A position holds a group, a key and a card.  A cursor of the other mode is
\* read as <<0, 0, no card>>: no card with key 0 is behind it.
Start == <<-1, -LastPosition, 0>>
Foreign == <<0, 0, LastPosition>>
AtStart == [mixed |-> FALSE, pos |-> Start, rev |-> Start, new |-> Start]
SingleCursor(pos) == [mixed |-> FALSE, pos |-> pos, rev |-> Foreign, new |-> Foreign]
MixedCursor(rev, new) == [mixed |-> TRUE, pos |-> Foreign, rev |-> rev, new |-> new]

\* A position that names no card is written out empty and not read back.
Decodable(cur) == ~cur.mixed \/ Foreign \notin {cur.rev, cur.new}

\* The next row comes from the source that is furthest behind its share, a
\* review if both are: the j-th review after the new cards whose share of their
\* source is smaller than j / reviews.
interleave(reviews, news, limit) ==
    LET total == Least({reviews + news, limit})
        place(j) == j + Cardinality({k \in 1 .. news : k * reviews < j * news})
        taken(i) == Cardinality({j \in 1 .. reviews : place(j) <= i})
    IN [i \in 0 .. total |-> [rev |-> taken(i), new |-> i - taken(i)]]

\* The rows of two pages in that order.
Mixed(revs, news, taken, total) ==
    [i \in 1 .. total |-> IF taken[i].rev > taken[i - 1].rev THEN revs[taken[i].rev]
                          ELSE news[taken[i].new]]

NewRemaining(perDay, introduced) == Most({perDay - introduced, 0})
RevRemaining(perDay, studied) == Most({perDay - studied, 0})

buildSingleBatch(s, at, newRemaining, totalRemaining, cur, limit) ==
    LET rows == ListDueCardsForStudy(s, at, newRemaining, totalRemaining, cur.pos, limit)
        exhausted == Len(rows) < limit
    IN [cards |-> rows, exhausted |-> exhausted,
        cursor |-> IF exhausted \/ rows = <<>> THEN AtStart
                   ELSE SingleCursor(SortKey(s, at, rows[Len(rows)]))]

\* MUTANT: the position of the last row that was read.
carryCursorRead(keys, taken, pos) == IF keys # <<>> THEN keys[Len(keys)] ELSE pos

\* The position of the last row that was served; a source that gave no row
\* keeps the position it had.
carryCursor(keys, taken, pos) == IF taken > 0 THEN keys[taken] ELSE pos

\* Rows of two complete pages may still be left over by the interleaving.
mixedExhausted(revs, news, limit) ==
    Len(revs) < limit /\ Len(news) < limit /\ Len(revs) + Len(news) <= limit

\* Two pages interleaved, and cut to the size of one.
buildMixedBatch(s, at, newRemaining, totalRemaining, cur, limit) ==
    LET revs == ListReviewCardsForStudy(s, at, totalRemaining, cur.rev, limit)
        news == ListNewCardsForStudy(s, newRemaining, cur.new, limit)
        exhausted == mixedExhausted(revs, news, limit)
        taken == interleave(Len(revs), Len(news), limit)
        total == Least({Len(revs) + Len(news), limit})
        end == taken[total]
    IN [cards |-> Mixed(revs, news, taken, total),
        exhausted |-> exhausted,
        cursor |-> IF exhausted \/ total = 0 THEN AtStart
                   ELSE MixedCursor(
                          carryCursor([i \in DOMAIN revs |-> RevKey(s.order, at, revs[i])],
                                      end.rev, cur.rev),
                          carryCursor([i \in DOMAIN news |-> NewKey(news[i])],
                                      end.new, cur.new))]

\* MUTANT: a spent total leaves no room for any card.
effectiveLimitClamped(limit, total) == Least({limit, total})

\* The page is no larger than the total left.  A spent total still leaves the
\* cards no limit applies to, at the full page size.
effectiveLimit(limit, total) == IF total = 0 THEN limit ELSE Least({limit, total})

\* New cards draw on the total too: none when it is spent.
BuildBatch(s, at, cur, limit, rounds, introduced, reviewed) ==
    LET newLeft == NewRemaining(s.newPerDay * (1 + rounds), introduced)
        total == RevRemaining(s.revPerDay * (1 + rounds), introduced + reviewed)
        newRemaining == IF total = 0 THEN 0 ELSE newLeft
        size == effectiveLimit(limit, total)
    IN IF s.priority = "mixed"
       THEN buildMixedBatch(s, at, newRemaining, total, cur, size)
       ELSE buildSingleBatch(s, at, newRemaining, total, cur, size)

\* Distinct cards, by the state they were in when answered.
CountNewIntroducedToday(day) ==
    Cardinality({e.card : e \in {l \in log : l.before = 0 /\ l.day = day}})
CountReviewedToday(day) ==
    Cardinality({e.card : e \in {l \in log : l.before = 2 /\ l.day = day}})

parseExtraRounds(rounds) == Least({rounds, maxExtraRounds})

-----------------------------------------------------------------------------
(* The session in the browser.                                             *)

Closed == [open |-> FALSE, deck |-> TRUE, cursor |-> AtStart, exhausted |-> FALSE,
           refilling |-> FALSE, rounds |-> 0, steady |-> TRUE]
Idle == [pc |-> "idle"]
Ask(kind, cursor, rounds) ==
    [pc |-> "sent", kind |-> kind, cursor |-> cursor, rounds |-> rounds]
Undisturbed == [newCap |-> 0, revCap |-> 0, slipped |-> {}, shifted |-> {}]

Init ==
    /\ now = InitTick /\ preset \in InitPreset /\ row = InitRow /\ log = {}
    /\ queue = <<>> /\ session = Closed /\ fetch = Idle /\ unsent = <<>>
    /\ today = Undisturbed
    /\ spent = 0

Pending(q) == {i \in DOMAIN q : ~q[i].done}
Done == session.open /\ Pending(queue) = {} /\ session.exhausted
Blank == session.open /\ Pending(queue) = {} /\ ~session.exhausted

\* MUTANT: a refill is asked for when the last unseen slot has been answered.
showNextLate(q, sess, idle) ==
    LET refill == /\ Pending(q) # {}
                  /\ ~sess.exhausted /\ ~sess.refilling
                  /\ {i \in Pending(q) : ~q[i].repeat} = {}
    IN /\ queue' = q
       /\ session' = [sess EXCEPT !.refilling = @ \/ refill]
       /\ fetch' = IF refill THEN Ask("refill", sess.cursor, sess.rounds) ELSE idle

\* Shown when a slot is pending; only then may a refill be asked for.
showNext(q, sess, idle) ==
    LET unseenLeft == {i \in Pending(q) : ~q[i].repeat}
        refill == /\ Pending(q) # {}
                  /\ ~sess.exhausted /\ ~sess.refilling
                  /\ Cardinality(unseenLeft) < RefillThreshold
    IN /\ queue' = q
       /\ session' = [sess EXCEPT !.refilling = @ \/ refill]
       /\ fetch' = IF refill THEN Ask("refill", sess.cursor, sess.rounds) ELSE idle

\* A slot notes the state in which the card was served, and the day.
cardToSlot(c) ==
    [card |-> c, done |-> FALSE, repeat |-> FALSE, kind |-> row[c].state, day |-> Day(fetch.at)]

\* A card already queued or graded in this session is not queued again.
indexBatch(slots) ==
    LET known == {queue[i].card : i \in DOMAIN queue}
        fresh == {i \in DOMAIN slots : slots[i].card \notin known}
        order == Ranked(fresh, [i \in fresh |-> <<0, 0, i>>])
    IN queue \o [k \in DOMAIN order |-> slots[order[k]]]

\* A reload or another page: what was graded goes out with the old page.
OpenPage(kind) ==
    /\ spent < MaxEvents
    /\ spent' = spent + 1
    /\ queue' = <<>>
    /\ session' = [Closed EXCEPT !.deck = kind = "page", !.steady = unsent = <<>>]
    /\ fetch' = Ask(kind, AtStart, 0)
    /\ UNCHANGED <<now, preset, row, log, unsent, today>>

GetReview == OpenPage("page")
GetStudy == OpenPage("study")

\* The deck, the study day and the two counts are read first.
ReadCounts ==
    /\ fetch.pc = "sent" /\ Decodable(fetch.cursor)
    /\ LET s == Settings(preset, Day(now))
           rounds == parseExtraRounds(fetch.rounds)
       IN /\ fetch' = [pc |-> "counted", kind |-> fetch.kind, cursor |-> fetch.cursor,
                       rounds |-> rounds, settings |-> s, at |-> now,
                       introduced |-> CountNewIntroducedToday(Day(now)),
                       reviewed |-> CountReviewedToday(Day(now))]
          /\ today' = [today EXCEPT !.newCap = Most({@, s.newPerDay * (1 + rounds)}),
                                    !.revCap = Most({@, s.revPerDay * (1 + rounds)})]
    /\ UNCHANGED <<now, preset, row, log, queue, session, unsent, spent>>

\* The list is read after them, by the settings and the clock of the request.
ListCards ==
    /\ fetch.pc = "counted"
    /\ LET b == BuildBatch(fetch.settings, fetch.at, fetch.cursor, Page, fetch.rounds,
                           fetch.introduced, fetch.reviewed)
       IN fetch' = [pc |-> "answered", kind |-> fetch.kind,
                    exhausted |-> b.exhausted, cursor |-> b.cursor,
                    slots |-> [i \in DOMAIN b.cards |-> cardToSlot(b.cards[i])]]
    /\ UNCHANGED <<now, preset, row, log, queue, session, unsent, today, spent>>

\* The page is swapped in, and a card shown if none was.
RespondReview ==
    /\ fetch.pc = "answered" /\ fetch.kind = "page"
    /\ showNext(indexBatch(fetch.slots),
                [session EXCEPT !.open = TRUE, !.exhausted = fetch.exhausted,
                                !.cursor = fetch.cursor],
                Idle)
    /\ UNCHANGED <<now, preset, row, log, unsent, today, spent>>

\* The mix over all decks is shuffled, and is never refilled.
RespondStudy ==
    /\ fetch.pc = "answered" /\ fetch.kind = "study"
    /\ LET slots == fetch.slots IN
       \E shuffled \in {s \in [DOMAIN slots -> {slots[i] : i \in DOMAIN slots}] :
                          \A i, j \in DOMAIN s : s[i] = s[j] => i = j} :
          showNext(indexBatch(shuffled),
                   [session EXCEPT !.open = TRUE, !.exhausted = TRUE], Idle)
    /\ UNCHANGED <<now, preset, row, log, unsent, today, spent>>

\* A refill is swapped in; it only shows a card if the stage was empty.
onAfterSwap ==
    /\ fetch.pc = "answered" /\ fetch.kind = "refill"
    /\ LET q == indexBatch(fetch.slots)
           sess == [session EXCEPT !.exhausted = fetch.exhausted, !.cursor = fetch.cursor,
                                   !.refilling = FALSE]
       IN \/ Pending(queue) = {} /\ showNext(q, sess, Idle)
          \/ Pending(queue) # {} /\ queue' = q /\ session' = sess /\ fetch' = Idle
    /\ UNCHANGED <<now, preset, row, log, unsent, today, spent>>

\* A refill that fails, or whose cursor is refused: nothing is swapped in and
\* the session goes on believing that a refill is under way.
LoseRefill ==
    /\ fetch.pc # "idle" /\ fetch.kind = "refill"
    /\ IF fetch.pc = "answered" \/ Decodable(fetch.cursor)
       THEN /\ spent < MaxEvents
            /\ spent' = spent + 1
       ELSE UNCHANGED spent
    /\ fetch' = Idle
    /\ session' = [session EXCEPT !.steady = FALSE]
    /\ UNCHANGED <<now, preset, row, log, queue, unsent, today>>

-----------------------------------------------------------------------------
(* Grading, in the browser and later on the server.                        *)

Again == 1
Good == 3

\* FSRS: a failed card is learned again, a new card answered well starts
\* learning, any other goes on to review.
Outcome(state, rating) ==
    CASE rating = Again -> IF state \in {-1, 0, 1} THEN 1 ELSE 3
      [] rating # Again /\ rating # 4 /\ state \in {-1, 0} -> 1
      [] OTHER -> 2

shouldRequeue(rating, branchState) == branchState \in {1, 3} /\ rating # Good

\* Behind `ahead' pending slots after the current one, or at the end.
maybeRequeue(q, current, slot, ahead) ==
    LET later == {j \in Pending(q) : j > current}
        at == {j \in later : Cardinality({i \in later : i <= j}) = ahead}
        insertAt == IF at = {} THEN Len(q) ELSE Least(at) - 1
    IN SubSeq(q, 1, insertAt) \o <<[slot EXCEPT !.done = FALSE, !.repeat = TRUE]>>
       \o SubSeq(q, insertAt + 1, Len(q))

\* `ahead': how many pending cards are due before the requeued one, at least 3.
grade(rating, ahead) ==
    /\ session.open /\ Pending(queue) # {} /\ Len(unsent) < MaxUnsent
    /\ LET current == Least(Pending(queue))
           slot == queue[current]
           answered == [queue EXCEPT ![current].done = TRUE]
           requeue == shouldRequeue(rating, Outcome(slot.kind, rating))
       IN /\ unsent' = Append(unsent, [card |-> slot.card, rating |-> rating, at |-> now,
                                       kind |-> slot.kind, served |-> slot.day])
          /\ ahead > 3 => requeue /\ ahead <= Cardinality(Pending(answered))
          /\ requeue => Len(queue) < MaxSlots
          /\ showNext(IF requeue
                      THEN maybeRequeue(answered, current, slot, ahead)
                      ELSE answered, session, fetch)
    /\ UNCHANGED <<now, preset, row, log, today, spent>>

\* FSRS computes when the card is due; the settings of the row are kept.
Scheduled(old, g) ==
    LET state == Outcome(old.state, g.rating)
        days == IF state # 2 THEN 0 ELSE IF old.state = 2 THEN 2 ELSE 1
        kept == IF old = NoRow THEN [suspended |-> FALSE, buried |-> Never] ELSE old
    IN [state |-> state, due |-> g.at + days * TicksPerDay, last |-> g.at, days |-> days,
        suspended |-> kept.suspended, buried |-> kept.buried]

\* The oldest grade is stored.  `fair': served under today's caps, as what it
\* still was when it was answered.  A grade of an earlier day is booked on that
\* day and schedules the card now.
GradeBatch ==
    /\ unsent # <<>>
    /\ LET g == Head(unsent)
           old == row[g.card]
           before == IF old = NoRow THEN 0 ELSE old.state
           fair == g.served = Day(g.at) /\ g.kind = old.state /\ g.kind # 0
       IN /\ row' = [row EXCEPT ![g.card] = Scheduled(old, g)]
          /\ log' = log \cup {[card |-> g.card, before |-> before, day |-> Day(g.at), fair |-> fair]}
          /\ today' = IF fetch.pc = "counted" \/ Day(g.at) # Day(now)
                      THEN [today EXCEPT !.slipped = @ \cup {g.card}] ELSE today
    /\ unsent' = Tail(unsent)
    /\ UNCHANGED <<now, preset, queue, session, fetch, spent>>

-----------------------------------------------------------------------------
(* What else changes the queue.                                            *)

\* A card without a row gets one in state 0, due at once.
settingsRow(old) ==
    IF old # NoRow THEN old
    ELSE [state |-> 0, due |-> now, last |-> Never, days |-> 0,
          suspended |-> FALSE, buried |-> Never]
UpsertUserCardStateSettings(c, what) ==
    LET r == settingsRow(row[c]) IN
    CASE what = "suspend" -> [r EXCEPT !.suspended = TRUE]
      [] what = "bury" -> [r EXCEPT !.buried = Day(now) + 1]
      [] OTHER -> r

\* Suspend, bury or flag the card on screen, which is then passed over.
sendCardState(what) ==
    /\ session.open /\ session.deck /\ Pending(queue) # {}
    /\ spent < MaxEvents
    /\ spent' = spent + 1
    /\ LET current == Least(Pending(queue))
           c == queue[current].card
       IN /\ row' = [row EXCEPT ![c] = UpsertUserCardStateSettings(c, what)]
          /\ today' = [today EXCEPT !.slipped =
                          @ \cup ({c} \cap {unsent[i].card : i \in DOMAIN unsent})]
          /\ showNext([queue EXCEPT ![current].done = TRUE],
                      [session EXCEPT !.steady = FALSE], fetch)
    /\ UNCHANGED <<now, preset, log, unsent>>

\* From the note list: all of a note's cards, unless all are suspended.
ToggleSuspendCardsForNote(note) ==
    /\ spent < MaxEvents
    /\ spent' = spent + 1
    /\ LET all == \A c \in note : ~unseen(c) /\ row[c].suspended
       IN row' = [c \in Card |-> IF c \notin note THEN row[c]
                                ELSE [settingsRow(row[c]) EXCEPT !.suspended = ~all]]
    /\ session' = [session EXCEPT !.steady = FALSE]
    /\ today' = [today EXCEPT !.shifted = @ \cup {"toggle"}]
    /\ UNCHANGED <<now, preset, log, queue, fetch, unsent>>

\* What the form refuses: a value out of range, or half a calendar.
AcceptedSetting(e) ==
    CASE e.field = "newPerDay" -> e.value \in 0 .. MaxNewPerDay
      [] e.field = "revPerDay" -> e.value \in 0 .. MaxRevPerDay
      [] e.field = "ahead" -> e.value \in 0 .. MaxLookAhead
      [] e.field = "priority" -> e.value \in {"due", "new", "mixed"}
      [] e.field = "order" -> e.value \in {"due", "random", "intervalAsc", "intervalDesc"}
      [] OTHER -> e.value = NoCalendar \/ calendarFromWire(e.value) # NoCalendar

\* One setting changed, the others left as they are stored.
PostDeckEdit(e) ==
    /\ spent < MaxEvents
    /\ AcceptedSetting(e)
    /\ spent' = spent + 1
    /\ preset' = [preset EXCEPT ![e.field] = e.value]
    /\ session' = [session EXCEPT !.steady = FALSE]
    /\ today' = [today EXCEPT !.shifted = @ \cup {"edit"}]
    /\ UNCHANGED <<now, row, log, queue, fetch, unsent>>

\* One more round of the deck's limits, from the start of the queue.
onStudyMoreClick ==
    /\ Done /\ session.deck /\ session.rounds < MaxRounds
    /\ session' = [session EXCEPT !.rounds = @ + 1, !.exhausted = FALSE, !.cursor = AtStart,
                                  !.refilling = TRUE]
    /\ fetch' = Ask("refill", AtStart, session.rounds + 1)
    /\ UNCHANGED <<now, preset, row, log, queue, unsent, today, spent>>

Tick ==
    /\ spent < MaxEvents
    /\ spent' = spent + 1
    /\ now' = now + 1
    /\ today' = IF Day(now') = Day(now) THEN [today EXCEPT !.shifted = @ \cup {"tick"}]
              ELSE Undisturbed
    /\ session' = [session EXCEPT !.steady = FALSE]
    /\ UNCHANGED <<preset, row, log, queue, fetch, unsent>>

Next ==
    \/ GetReview \/ GetStudy \/ ReadCounts \/ ListCards \/ RespondReview \/ RespondStudy
    \/ onAfterSwap \/ LoseRefill \/ GradeBatch \/ onStudyMoreClick \/ Tick
    \/ \E rating \in Rating, ahead \in 3 .. MaxSlots : grade(rating, ahead)
    \/ \E what \in {"suspend", "bury", "flag"} : sendCardState(what)
    \/ \E note \in Notes : ToggleSuspendCardsForNote(note)
    \/ \E e \in Edit : PostDeckEdit(e)

Spec == Init /\ [][Next]_vars

-----------------------------------------------------------------------------
(* What the deck pages say is left.                                        *)

CountQueueForDeck(s, at) ==
    [new |-> Cardinality(NewCards(s)),
     learning |-> Cardinality({c \in ReadyCards(s, at) : row[c].state \in {1, 3}}),
     due |-> Cardinality(DueCards(s, at))]

PriorityAllocate(s, ceiling, total, count) ==
    LET newFirst == Least({ceiling, count.new, total})
        dueFirst == Least({total, count.due})
    IN CASE s.priority = "new" -> [new |-> newFirst, due |-> Least({total - newFirst, count.due})]
         [] s.priority = "due" -> [new |-> Least({ceiling, total - dueFirst, count.new}), due |-> dueFirst]
         [] OTHER -> [new |-> Least({ceiling, count.new}), due |-> dueFirst]

LeftToStudy(s, ceiling, total, count) ==
    LET allowance == PriorityAllocate(s, ceiling, total, count)
    IN Least({allowance.new + allowance.due, total}) + count.learning

\* The deck's page.
DeckPageLeft(s, at) ==
    LET introduced == CountNewIntroducedToday(Day(at))
        reviewed == CountReviewedToday(Day(at))
    IN LeftToStudy(s, NewRemaining(s.newPerDay, introduced),
                   RevRemaining(s.revPerDay, introduced + reviewed), CountQueueForDeck(s, at))

\* The deck list: a deck with no card waiting has no row and counts nothing.
CountQueueForUser(s, at) ==
    IF NewCards(s) \cup ReadyCards(s, at) = {} THEN {} ELSE {CountQueueForDeck(s, at)}
DeckListLeft(s, at) ==
    LET introduced == CountNewIntroducedToday(Day(at))
        reviewed == CountReviewedToday(Day(at))
        left == {LeftToStudy(s, NewRemaining(s.newPerDay, introduced),
                             RevRemaining(s.revPerDay, introduced + reviewed), count) :
                    count \in CountQueueForUser(s, at)}
    IN IF left = {} THEN 0 ELSE Least(left)

\* The lowest lesson still locked for the student, and the day it opens.
NextLockedLesson(classDay) ==
    LET locked == {Lesson[c] : c \in {d \in Card : unseen(d) /\ Lesson[d] > classDay}}
    IN IF locked = {} THEN 0 ELSE Least(locked)
nextUnlock(cal, day) ==
    LET lesson == NextLockedLesson(CurrentClassDay(cal, day))
    IN IF ~Configured(cal) \/ lesson = 0 THEN NoDate ELSE MeetingDate(cal, lesson)

calendarPreviewMeetings == 4

\* The deck page's table: each meeting's date, and whether it has opened.
deckClassDays(cal, day) ==
    LET classDay == CurrentClassDay(cal, day)
        dates == MeetingDates(cal, Most({Lesson[c] : c \in Card}
                                       \cup {classDay, calendarPreviewMeetings}))
    IN [i \in DOMAIN dates |-> [date |-> dates[i], unlocked |-> i <= classDay]]

-----------------------------------------------------------------------------
(* Properties                                                              *)

\* Types of the rows, the session and the request.
TypeOK ==
    /\ now \in InitTick .. InitTick + MaxEvents
    /\ \A c \in Card : row[c] = NoRow \/ row[c].state \in 0 .. 3
    /\ \A i \in DOMAIN queue : queue[i].card \in Card /\ queue[i].done \in BOOLEAN
    /\ \A e \in log : e.card \in Card /\ e.before \in 0 .. 3
    /\ session.rounds \in 0 .. MaxRounds
    /\ fetch.pc \in {"idle", "sent", "counted", "answered"}

Fair(before) == {e.card : e \in {l \in log : l.before = before /\ l.day = Day(now) /\ l.fair}}

\* The cards introduced in a study day, out of those served new in it, exceed
\* the deck's limit by no more than the cards whose grade was stored between a
\* request's counts and its list or was given before midnight and stored after
\* it, or that were suspended or buried while their grade was on its way:
\* however pages, refills, reloads and unsent grades interleave, capping by
\* rank holds.  A settings change may open cards that rank before the ones
\* already served.
NewCapUpToOverlap ==
    "edit" \notin today.shifted =>
        Cardinality(Fair(0)) <= today.newCap + Cardinality(today.slipped)

\* The same for review cards and the combined limit, as long as no card came
\* back in front of the ones served.
DueCapUpToOverlap ==
    today.shifted = {} =>
        Cardinality(Fair(2)) <= today.revCap + Cardinality(today.slipped)

\* The day's limits hold across pages, refills, reloads and late grades.
CapsHoldUpToOverlap == NewCapUpToOverlap /\ DueCapUpToOverlap

\* New and review cards together stay within the day's total: "over a full
\* study day every priority mode converges to serving at most totalRemaining
\* combined new+due cards" (preset.go, LeftToStudy).
TotalCapHolds ==
    today.shifted = {} =>
        Cardinality(Fair(0) \cup Fair(2)) <= today.revCap + Cardinality(today.slipped)

OfferedNow(rounds) ==
    BuildBatch(Settings(preset, Day(now)), now, AtStart, Cardinality(Card) + 1, rounds,
               CountNewIntroducedToday(Day(now)), CountReviewedToday(Day(now))).cards

\* A session that says it is done has been given every card the server would
\* still offer under the same limits, although it paged by cursor through an
\* order that its own grades kept changing.
NothingSkipped ==
    Done /\ session.deck /\ session.steady =>
        LET served == {queue[i].card : i \in DOMAIN queue}
            offered == OfferedNow(parseExtraRounds(session.rounds))
        IN \A i \in DOMAIN offered : offered[i] \in served

\* A session with nothing on screen is done, or a refill is under way, unless
\* it was restarted or something else than grading happened to it.
NeverStranded ==
    Blank /\ session.steady /\ session.rounds = 0 => fetch.pc # "idle"

\* A fresh page is empty exactly when the deck page and the deck list say that
\* nothing is left, and never larger than they say: the page is cut by rank in
\* one query, the numbers come from counts and arithmetic.  (A card with a row
\* that was never answered is served and not counted.)
PagesAgree ==
    LET s == Settings(preset, Day(now))
        left == DeckPageLeft(s, now)
        page == BuildBatch(s, now, AtStart, Page, 0, CountNewIntroducedToday(Day(now)),
                           CountReviewedToday(Day(now))).cards
    IN (\A c \in ReadyCards(s, now) : row[c].state # 0) =>
           /\ left = DeckListLeft(s, now)
           /\ Len(page) <= left
           /\ page = <<>> <=> left = 0

\* The gate, which counts weeks, opens a lesson on the date that the walk over
\* the calendar announces: the unlock line names a day to come, the table
\* shows a meeting as open from its date on, and no new card is offered early.
LessonsOpenOnTheirDate ==
    LET cal == calendarFromWire(preset.calendar)
        table == deckClassDays(cal, Day(now))
        unlock == nextUnlock(cal, Day(now))
    IN Configured(cal) =>
         /\ \A i \in DOMAIN table : table[i].unlocked = (table[i].date <= Day(now))
         /\ unlock = NoDate \/ unlock > Day(now)
         /\ \A c \in NewCards(Settings(preset, Day(now))) :
              Lesson[c] > 0 => MeetingDate(cal, Lesson[c]) <= Day(now)
=============================================================================
