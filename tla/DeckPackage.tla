---------------------------- MODULE DeckPackage ----------------------------
(***************************************************************************)
(* Anki packages: reading one, filing it under the importing user, and     *)
(* writing a deck with the caller's own progress back into one             *)
(* (internal/apkg and its handlers), between the requests that change what *)
(* a package is made of.                                                   *)
(*                                                                         *)
(* An import is one transaction and one step; how its locks meet a grading *)
(* batch is the subject of ReviewGrading, and its media that of            *)
(* MediaStore.  An export runs READ COMMITTED: each of its statements sees *)
(* the tables as they are when it runs.                                    *)
(*                                                                         *)
(* Time is counted in ticks, DayTicks to a day.  An Anki id is a number:   *)
(* a review's is its instant, and so is a note's.  FSRS numbers are        *)
(* abstracted to what they were computed from: the snapshot a card was     *)
(* seeded with, and the instants of the reviews scheduled since.           *)
(***************************************************************************)
EXTENDS Integers, Sequences, FiniteSets, SequencesExt, FiniteSetsExt, TLC

CONSTANTS
    User, Guid, Value,        \* users; notes' guids; a note's fields and tags
    DeckName, TypeName,
    Anki,                     \* the packages that come from Anki
    Stored,                   \* the tables to start from
    Start,                    \* the instant to start from
    DayTicks,
    epochSecondsThreshold,
    Uuid(_),                  \* the leading bytes of a card's or type's id
    Interval(_),              \* the interval FSRS plans at a retention
    Retentions,               \* the desired retentions that are in range
    DefaultRetention,
    None,
    MaxEdits, MaxGrades, MaxImports, MaxChanges, MaxExports   \* bounds on a behaviour

ASSUME PackageAssumption ==
    /\ DayTicks \in Nat \ {0}
    /\ epochSecondsThreshold \in Nat /\ Start \in Nat
    /\ Start >= epochSecondsThreshold
    /\ None \notin Nat
    /\ {MaxEdits, MaxGrades, MaxImports, MaxChanges, MaxExports} \subseteq Nat

VARIABLES
    db,      \* decks, types, notes, cards, log, states and retention
    now,
    files,   \* the packages at hand, as they are on disk
    reading, \* the export under way, with the tables each statement saw
    left,    \* how many more edits, grades, imports, changes in all, and exports
    last     \* history: who imported which package in the last step, if any

vars == <<db, now, files, reading, left, last>>

Owner(k) == k[1]

\* Rows written over rows found.  Rows found keep their ids: found ++ new adds
\* what is not there.
new ++ found ==
    [x \in DOMAIN new \cup DOMAIN found |-> IF x \in DOMAIN new THEN new[x] ELSE found[x]]

-----------------------------------------------------------------------------
(* A card's due column, and back.                                          *)

New == 0       \* cards.type
Learning == 1
Review == 2
Relearning == 3
Suspended == -1   \* cards.queue, which is the type when nothing holds the card
SchedBuried == -2
UserBuried == -3
DayLearning == 3
Preview == 4

At(t) == [kind |-> "at", at |-> t]
Position(p) == [kind |-> "position", at |-> p]
NoDue == [kind |-> "none", at |-> 0]

resolveDue(queue, type, due, odue, odid, crt) ==
    LET v == IF odid # 0 THEN odue ELSE due
        days == At(crt + v * DayTicks)
    IN CASE queue = New -> Position(v)
         [] queue \in {Learning, Preview} -> At(v)
         [] queue \in {Review, DayLearning} -> days
         [] queue \in {Suspended, SchedBuried, UserBuried} ->
                IF type = New THEN Position(v)
                ELSE IF v >= epochSecondsThreshold THEN At(v) ELSE days
         [] OTHER -> NoDue

\* MUTANT: whole days are cut off rather than rounded.
unresolveDueCut(queue, due, crt) ==
    IF due.kind = "at" /\ queue \in {Review, DayLearning}
    THEN (due.at - crt) \div DayTicks ELSE due.at

unresolveDue(queue, due, crt) ==
    IF due.kind = "at" /\ queue \in {Review, DayLearning}
    THEN Max({0, (2 * (due.at - crt) + DayTicks) \div (2 * DayTicks)})
    ELSE due.at

\* Days when positive, ticks when negative.
intervalSeconds(ivl) == IF ivl < 0 THEN -ivl ELSE ivl * DayTicks
unintervalSeconds(s) == IF s % DayTicks = 0 THEN s \div DayTicks ELSE -s

\* Midnight before the earliest review-state due date.
deriveCrt(dues, fallback) ==
    LET earliest == IF dues = {} THEN fallback ELSE Min(dues)
    IN earliest - (earliest % DayTicks)

-----------------------------------------------------------------------------
(* Reading a package.                                                      *)

readCards(f) ==
    {[anki |-> c.id, note |-> c.nid, ord |-> c.ord, type |-> c.type,
      deck |-> IF c.odid # 0 THEN c.odid ELSE c.did,
      due |-> resolveDue(c.queue, c.type, c.due, c.odue, c.odid, f.crt),
      ivl |-> intervalSeconds(c.ivl), flag |-> c.flag,
      suspended |-> c.queue = Suspended, fsrs |-> c.fsrs, dr |-> c.dr] : c \in f.cards}

\* Manual reschedules and rows out of range are dropped.
readRevlog(f) ==
    {[anki |-> r.id, card |-> r.cid] :
        r \in {r \in f.revlog : r.ease \in 1 .. 4 /\ r.type \in 0 .. 4}}

\* A note's home is the deck of its lowest-numbered card.
resolveHomeDecks(notes, cards) ==
    {LET own == {c \in cards : c.note = n.id}
     IN [anki |-> n.id, guid |-> n.guid, type |-> n.mid, vals |-> n.flds,
         home |-> IF own = {} THEN 0
                  ELSE (CHOOSE c \in own : \A e \in own : c.anki <= e.anki).deck] : n \in notes}

Read(f) ==
    [types |-> f.types, decks |-> f.decks, cards |-> readCards(f),
     notes |-> resolveHomeDecks(f.notes, readCards(f)), reviews |-> readRevlog(f)]

-----------------------------------------------------------------------------
(* A card's progress.                                                      *)

NoMemory == [seed |-> None, reviews |-> <<>>]

\* The row of a card that has only been suspended, buried or flagged.
Unseen == [mem |-> NoMemory, state |-> New, due |-> now, ivl |-> 0,
           suspended |-> FALSE, buried |-> 0, flag |-> 0]

Retention(d, u, i) ==
    IF <<u, i>> \in DOMAIN d.retention THEN d.retention[<<u, i>>] ELSE DefaultRetention

\* What scheduling leaves of a row: all but suspended, buried and flag.
Scheduled(row, mem, at, retention) ==
    [row EXCEPT !.mem = mem, !.due = at + Interval(retention),
                !.state = IF mem.seed = None /\ Len(mem.reviews) = 1 THEN Learning ELSE Review,
                !.ivl = Interval(retention) \div DayTicks]

RowOf(d, u, k) == IF <<u, k>> \in DOMAIN d.states THEN d.states[<<u, k>>] ELSE Unseen

Earlier(q, r) == q.at < r.at \/ (q.at = r.at /\ q.id < r.id)

\* When a user has reviewed a card, in the order in which reviews are replayed.
History(d, u, k) ==
    LET rows == {r \in d.log : r.user = u /\ r.card = k}
    IN [i \in 1 .. Cardinality(rows) |->
           (CHOOSE r \in rows : Cardinality({q \in rows : Earlier(q, r)}) = i - 1).at]

ReplayCard(d, u, k) ==
    LET h == History(d, u, k)
    IN Scheduled(RowOf(d, u, k), [seed |-> None, reviews |-> h], h[Len(h)],
                 Retention(d, u, d.cards[k].deck))

\* A review is known by its instant, here and in Anki; one that came in a
\* package was filed after it was made.
Made(r, t) ==
    /\ r.at \in Nat /\ r.at < t
    /\ IF r.anki = None THEN r.id = r.at ELSE r.anki = r.at /\ r.id \in Nat /\ r.at < r.id

\* At an instant a user reviews a card at most once, not counting what comes
\* back of it.
Single(log) ==
    \A q, r \in log :
        /\ q.user = r.user /\ q.card = r.card /\ q.at = r.at
        /\ (q.anki = None) = (r.anki = None)
        => q = r

\* A log of what was reviewed until t, with a scheduling row for each card in
\* it that stands for the reviews of that card.
Scheduling(d, t) ==
    /\ {"log", "states"} \subseteq DOMAIN d
    /\ \A r \in d.log : Made(r, t) /\ <<r.user, r.card>> \in DOMAIN d.states
    /\ Single(d.log)
    /\ \A p \in DOMAIN d.states :
          /\ p = <<p[1], p[2]>>
          /\ "mem" \in DOMAIN d.states[p] /\ "reviews" \in DOMAIN d.states[p].mem
          /\ d.states[p].mem.reviews = History(d, p[1], p[2])

\* The columns that an import and the settings leave alone are there.
Shaped(d) ==
    /\ {"decks", "types", "notes", "cards", "log", "states", "retention"} \subseteq DOMAIN d
    /\ \A n \in DOMAIN d.notes : {"deck", "created"} \subseteq DOMAIN d.notes[n]
    /\ \A p \in DOMAIN d.states : {"suspended", "buried", "flag"} \subseteq DOMAIN d.states[p]

ASSUME HistoryAssumption ==
    /\ Shaped(Stored)
    /\ Scheduling(Stored, Start)
    /\ \A f \in Anki : \A r \in f.revlog : r.id \in 0 .. Start - 1

-----------------------------------------------------------------------------
(* Importing: each part takes the tables and returns them changed.         *)

DeckNamed(d, u, name) == {i \in DOMAIN d.decks : d.decks[i].owner = u /\ d.decks[i].name = name}
TypeNamed(d, u, name) == {i \in DOMAIN d.types : d.types[i].owner = u /\ d.types[i].name = name}

InIdOrder(rows) ==
    [i \in 1 .. Cardinality(rows) |->
        CHOOSE r \in rows : Cardinality({q \in rows : q.anki < r.anki}) = i - 1]

\* The ids that rows get when n have been given out.
Numbered(n, rows) ==
    [i \in {n + j : j \in DOMAIN rows} |-> rows[CHOOSE j \in DOMAIN rows : n + j = i]]

\* Filtered decks are never created; a reused deck keeps the id it has.
importDecks(d, u, col) ==
    LET real == {k \in col.decks : ~k.filtered}
        new == InIdOrder({k \in real : DeckNamed(d, u, k.name) = {}})
        Reused(i) == {k \in real : i \in DeckNamed(d, u, k.name)}
        SetDeckAnkiID(i) ==
            IF d.decks[i].anki = None /\ Reused(i) # {}
            THEN [d.decks[i] EXCEPT !.anki = (CHOOSE k \in Reused(i) : TRUE).anki]
            ELSE d.decks[i]
        Row(k) == [owner |-> u, name |-> k.name, anki |-> k.anki, created |-> now, viewers |-> {u}]
    IN [d EXCEPT !.decks = [i \in DOMAIN @ |-> SetDeckAnkiID(i)]
                           ++ Numbered(Len(@), [i \in DOMAIN new |-> Row(new[i])])]

deckByAnkiID(d, u, col) ==
    [a \in {k.anki : k \in {k \in col.decks : ~k.filtered}} |->
        CHOOSE i \in DOMAIN d.decks : \E k \in col.decks : k.anki = a /\ i \in DeckNamed(d, u, k.name)]

\* ErrNoteTypeMismatch, which fails the import.
NoteTypeMismatch(d, u, col) ==
    \E t \in col.types : \E i \in TypeNamed(d, u, t.name) : d.types[i].fields # t.fields

importNoteTypes(d, u, col) ==
    LET new == InIdOrder({t \in col.types : TypeNamed(d, u, t.name) = {}})
    IN [d EXCEPT !.types = @ ++ Numbered(Len(@), [i \in DOMAIN new |-> [owner |-> u] ++ new[i]])]

noteTypeByAnkiID(d, u, col) ==
    [a \in {t.anki : t \in col.types} |->
        CHOOSE i \in DOMAIN d.types : \E t \in col.types : t.anki = a /\ i \in TypeNamed(d, u, t.name)]

ResolvedNotes(d, u, col) ==
    {n \in col.notes : n.type \in DOMAIN noteTypeByAnkiID(d, u, col)
                       /\ n.home \in DOMAIN deckByAnkiID(d, u, col)}

\* CreateImportedNote, and UpdateImportedNote, which leaves the deck alone.
importNotes(d, u, col) ==
    LET Row(k, n) == [type |-> noteTypeByAnkiID(d, u, col)[n.type], vals |-> n.vals, anki |-> n.anki]
                     ++ (IF k \in DOMAIN d.notes THEN d.notes[k]
                         ELSE [deck |-> deckByAnkiID(d, u, col)[n.home], created |-> n.anki])
        N == ResolvedNotes(d, u, col)
    IN [d EXCEPT !.notes = [k \in {<<u, n.guid>> : n \in N} |->
                               Row(k, CHOOSE n \in N : n.guid = k[2])] ++ @]

NoteOf(col, c) == CHOOSE n \in col.notes : n.anki = c.note
KeyOf(u, col, c) == <<u, NoteOf(col, c).guid, c.ord>>
TemplateOrd(t, ord) == IF t.cloze THEN 0 ELSE ord

\* The card's own deck, else its note's home deck.
CardDeck(d, u, col, c) ==
    LET decks == deckByAnkiID(d, u, col)
    IN decks[IF c.deck \in DOMAIN decks THEN c.deck ELSE NoteOf(col, c).home]

ResolvedCards(d, u, col) ==
    {c \in col.cards :
        \E n \in ResolvedNotes(d, u, col) :
            /\ n.anki = c.note
            /\ LET t == d.types[noteTypeByAnkiID(d, u, col)[n.type]]
               IN TemplateOrd(t, c.ord) \in t.templates}

\* UpsertImportedCard: a card that exists keeps its identity and its history.
importCards(d, u, col) ==
    LET C == ResolvedCards(d, u, col)
        Row(c) == LET t == noteTypeByAnkiID(d, u, col)[NoteOf(col, c).type]
                  IN [template |-> <<t, TemplateOrd(d.types[t], c.ord)>>,
                      deck |-> CardDeck(d, u, col, c), anki |-> c.anki,
                      position |-> IF c.due.kind = "position" THEN c.due.at ELSE None]
    IN [d EXCEPT !.cards = [k \in {KeyOf(u, col, c) : c \in C} |->
                               Row(CHOOSE c \in C : KeyOf(u, col, c) = k)] ++ @]

\* The retention most of a deck's cards carry, the first seen on a tie, unless
\* it is out of range or the user has one on the deck.
seedDeckRetention(d, u, col) ==
    LET voters == {c \in ResolvedCards(d, u, col) : c.fsrs # None /\ c.dr # 0}
        For(i, v) == {c \in voters : CardDeck(d, u, col, c) = i /\ c.dr = v}
        First(i, v) == Min({c.anki : c \in For(i, v)})
        Best(i) == CHOOSE v \in {c.dr : c \in voters} :
            /\ For(i, v) # {}
            /\ \A w \in {c.dr : c \in voters} :
                  \/ Cardinality(For(i, w)) < Cardinality(For(i, v))
                  \/ Cardinality(For(i, w)) = Cardinality(For(i, v)) /\ First(i, v) <= First(i, w)
        seeded == {i \in {CardDeck(d, u, col, c) : c \in voters} : Best(i) \in Retentions}
    IN [d EXCEPT !.retention = @ ++ [k \in {u} \X seeded |-> Best(k[2])]]

\* The cards that the package has reviews of.
Reviewed(d, u, col) == {c \in ResolvedCards(d, u, col) : \E r \in col.reviews : r.card = c.anki}

\* MUTANT: no conflict key: whatever comes is inserted.
InsertedAgain(d, u, col) ==
    {[user |-> u, card |-> KeyOf(u, col, p[1]), at |-> p[2].anki, anki |-> p[2].anki, id |-> now + p[2].anki] :
        p \in {q \in Reviewed(d, u, col) \X col.reviews : q[2].card = q[1].anki}}

\* InsertImportedReviewLog, once per (user, card, anki_id).
Inserted(d, u, col) ==
    LET Row(c, r) == [user |-> u, card |-> KeyOf(u, col, c), at |-> r.anki, anki |-> r.anki,
                      id |-> now + r.anki]
        brought == {Row(p[1], p[2]) :
                       p \in {q \in Reviewed(d, u, col) \X col.reviews : q[2].card = q[1].anki}}
    IN {r \in brought : \A l \in d.log : l.user # u \/ l.card # r.card \/ l.anki # r.anki}

\* MUTANT: a card that the user has studied is not rebuilt.
importReviewsUnreplayed(d, u, col) ==
    LET logged == [d EXCEPT !.log = @ \cup Inserted(d, u, col)]
    IN [logged EXCEPT !.states = @ ++ [k \in {<<u, KeyOf(u, col, c)>> : c \in Reviewed(d, u, col)} |->
                                          ReplayCard(logged, u, k[2])]]

\* Every card with reviews in the package is then rebuilt from its log.
importReviews(d, u, col) ==
    LET logged == [d EXCEPT !.log = @ \cup Inserted(d, u, col)]
    IN [logged EXCEPT !.states = [k \in {<<u, KeyOf(u, col, c)>> : c \in Reviewed(d, u, col)} |->
                                     ReplayCard(logged, u, k[2])] ++ @]

\* A state taken over without its reviews is a snapshot like any other.
AsSeed(mem) == [seed |-> IF mem.reviews = <<>> THEN mem.seed ELSE mem, reviews |-> <<>>]

\* MUTANT: everyone who studies the card is given the snapshot.
seedCardStatesForViewers(d, u, col) ==
    LET C == {c \in ResolvedCards(d, u, col) :
                 (\A r \in col.reviews : r.card # c.anki) /\ c.fsrs # None}
        Row(c) == [Unseen EXCEPT !.mem = c.fsrs, !.state = c.type, !.suspended = c.suspended,
                                 !.due = IF c.due.kind = "at" THEN c.due.at ELSE now]
        Viewers(c) == d.decks[CardDeck(d, u, col, c)].viewers
    IN [d EXCEPT !.states = @ ++ [k \in UNION {Viewers(c) \X {KeyOf(u, col, c)} : c \in C} |->
                                     Row(CHOOSE c \in C : KeyOf(u, col, c) = k[2])]]

\* A card with state and no reviews in the package starts from its snapshot,
\* unless the user has a row for it.
seedCardStates(d, u, col) ==
    LET C == {c \in ResolvedCards(d, u, col) :
                 /\ \A r \in col.reviews : r.card # c.anki
                 /\ c.fsrs # None \/ c.type # New \/ c.suspended \/ c.flag # 0
                 /\ c.type \in New .. Relearning}
        Row(c) == [mem |-> IF c.fsrs = None THEN NoMemory ELSE AsSeed(c.fsrs), state |-> c.type,
                   due |-> IF c.due.kind = "at" THEN c.due.at ELSE now,
                   ivl |-> c.ivl \div DayTicks, suspended |-> c.suspended,
                   buried |-> 0, flag |-> c.flag]
    IN [d EXCEPT !.states = @ ++ [k \in {<<u, KeyOf(u, col, c)>> : c \in C} |->
                                     Row(CHOOSE c \in C : KeyOf(u, col, c) = k[2])]]

Imported(d, u, col) ==
    LET d1 == importNoteTypes(importDecks(d, u, col), u, col)
        d2 == importCards(importNotes(d1, u, col), u, col)
        d3 == importReviews(seedDeckRetention(d2, u, col), u, col)
    IN seedCardStates(d3, u, col)

\* A bound: while an export reads, room is kept to import what it writes.
Spare(bound) == left[bound] > IF reading = None THEN 0 ELSE 1

Import(u, f) ==
    /\ Spare("imports") /\ Spare("changes")
    /\ LET col == Read(f)
       IN db' = IF NoteTypeMismatch(db, u, col) THEN db ELSE Imported(db, u, col)
    /\ left' = [left EXCEPT !.imports = @ - 1, !.changes = @ - 1]
    /\ now' = now + 1
    /\ last' = <<u, f>>
    /\ UNCHANGED <<files, reading>>

-----------------------------------------------------------------------------
(* Exporting one deck, with the caller's own progress on its cards.        *)

exportAnkiID(existing, fallback) == IF existing = None THEN fallback ELSE existing

CardsIn(d, i) == {k \in DOMAIN d.cards : d.cards[k].deck = i}
NotesIn(d, i) == {<<k[1], k[2]>> : k \in CardsIn(d, i)}
TypesIn(d, i) == {d.notes[n].type : n \in NotesIn(d, i)}

ReviewsIn(d, u, i) == {r \in d.log : r.user = u /\ r.card \in CardsIn(d, i)}

\* The statements in their order, and the tables that each joins.
Statements == <<"decks", "types", "fields", "templates", "notes", "cards", "states", "reviews">>

Tables(s) ==
    CASE s = "decks" -> {"decks"}
      [] s \in {"types", "fields", "templates"} -> {"types", "notes", "cards"}
      [] s = "notes" -> {"notes", "cards"}
      [] s = "cards" -> {"cards"}
      [] s = "states" -> {"states", "cards"}
      [] s = "reviews" -> {"log", "cards"}

Seen(s) == Restrict(db, Tables(s))

\* The ids under which rows leave; 0 for a row that an earlier statement
\* did not list.
deckAnkiID(x) == exportAnkiID(x.decks.decks[x.deck].anki, x.decks.decks[x.deck].created)
noteTypeAnkiID(x, t) ==
    IF t \notin TypesIn(x.types, x.deck) THEN 0
    ELSE exportAnkiID(x.types.types[t].anki, Uuid(<<t>>))
noteAnkiID(x, n) ==
    IF n \notin NotesIn(x.notes, x.deck) THEN 0
    ELSE exportAnkiID(x.notes.notes[n].anki, x.notes.notes[n].created)

\* MUTANT: a card without an id gets its note's.
cardAnkiIDOfNote(x, k) == exportAnkiID(x.cards.cards[k].anki, noteAnkiID(x, <<k[1], k[2]>>))

cardAnkiID(x, k) == exportAnkiID(x.cards.cards[k].anki, Uuid(k))

\* The position the card has, else its place among the rows.
cardPosition(x, k) ==
    IF x.cards.cards[k].position # None THEN x.cards.cards[k].position
    ELSE Cardinality({c \in CardsIn(x.cards, x.deck) : Uuid(c) <= Uuid(k)})

deriveCardScheduling(x, k) ==
    LET row == x.states.states[<<x.user, k>>]
        queue == IF row.suspended THEN Suspended
                 ELSE IF row.buried > x.at THEN UserBuried
                 ELSE IF row.state = Relearning THEN Learning ELSE row.state
        place == Position(cardPosition(x, k))
    IN IF <<x.user, k>> \notin DOMAIN x.states.states \/ k \notin CardsIn(x.states, x.deck)
       THEN [queue |-> New, type |-> New, due |-> place, ivl |-> 0, flag |-> 0, fsrs |-> None]
       ELSE [queue |-> queue, type |-> row.state, ivl |-> row.ivl * DayTicks, flag |-> row.flag,
             due |-> IF row.state = New THEN place ELSE At(row.due), fsrs |-> row.mem]

\* A note type in use leaves with the fields and templates that later statements
\* list, each of the note types in use by then.  The models are keyed by id: of
\* two note types with one id the last stays.
encodeModels(x) ==
    LET T == TypesIn(x.types, x.deck)
        Fields(t) == IF t \in TypesIn(x.fields, x.deck) THEN x.fields.types[t].fields ELSE 0
        Templates(t) ==
            IF t \in TypesIn(x.templates, x.deck) THEN x.templates.types[t].templates ELSE {}
    IN {[name |-> x.types.types[t].name, cloze |-> x.types.types[t].cloze,
         fields |-> Fields(t), templates |-> Templates(t), anki |-> noteTypeAnkiID(x, t)] :
            t \in {t \in T : \A s \in T : noteTypeAnkiID(x, s) = noteTypeAnkiID(x, t) => s <= t}}

\* The reviews of the cards that were listed.
ReviewRows(x) == {r \in ReviewsIn(x.reviews, x.user, x.deck) : r.card \in CardsIn(x.cards, x.deck)}

\* What the deck was if it stood still: history, for the properties.
Original(x) ==
    IF \E s \in Range(Statements) : x[s] # Seen(s) THEN None
    ELSE [k \in {<<c[2], c[3]>> : c \in CardsIn(db, x.deck)} |->
             LET c == CHOOSE c \in CardsIn(db, x.deck) : <<c[2], c[3]>> = k
                 n == db.notes[<<c[1], c[2]>>]
             IN [vals |-> n.vals, type |-> db.types[n.type].name, position |-> db.cards[c].position,
                 row |-> IF <<x.user, c>> \in DOMAIN db.states THEN db.states[<<x.user, c>>] ELSE None,
                 reviews |-> History(db, x.user, c)]]

Package(x) ==
    LET C == CardsIn(x.cards, x.deck)
        plan == [k \in C |-> deriveCardScheduling(x, k)]
        crt == deriveCrt({plan[k].due.at : k \in {k \in C : plan[k].type = Review}}, x.at)
    IN [crt |-> crt, types |-> encodeModels(x), original |-> Original(x),
        decks |-> {[anki |-> deckAnkiID(x), name |-> x.decks.decks[x.deck].name, filtered |-> FALSE]},
        notes |-> {[id |-> noteAnkiID(x, n), guid |-> n[2], flds |-> x.notes.notes[n].vals,
                    mid |-> noteTypeAnkiID(x, x.notes.notes[n].type)] : n \in NotesIn(x.notes, x.deck)},
        cards |-> {[id |-> cardAnkiID(x, k), nid |-> noteAnkiID(x, <<k[1], k[2]>>),
                    did |-> deckAnkiID(x), odid |-> 0, odue |-> 0, ord |-> k[3],
                    type |-> plan[k].type, queue |-> plan[k].queue,
                    due |-> unresolveDue(plan[k].queue, plan[k].due, crt),
                    ivl |-> unintervalSeconds(plan[k].ivl), flag |-> plan[k].flag,
                    fsrs |-> plan[k].fsrs, dr |-> 0] : k \in C},
        revlog |-> {[id |-> exportAnkiID(r.anki, r.at), cid |-> cardAnkiID(x, r.card),
                     ease |-> 3, type |-> 1] : r \in ReviewRows(x)}]

\* Every table's id is its primary key: writing two rows with one id fails.
Writable(x) ==
    /\ \A m, n \in NotesIn(x.notes, x.deck) : noteAnkiID(x, m) = noteAnkiID(x, n) => m = n
    /\ \A j, k \in CardsIn(x.cards, x.deck) : cardAnkiID(x, j) = cardAnkiID(x, k) => j = k
    /\ \A q, r \in ReviewRows(x) : exportAnkiID(q.anki, q.at) = exportAnkiID(r.anki, r.at) => q = r

\* GetDeckForExport; an export goes by the clock at its beginning.
Export(u, i) ==
    /\ left.exports > 0 /\ left.imports > 0 /\ left.changes > 0 /\ reading = None
    /\ u \in db.decks[i].viewers
    /\ reading' = [user |-> u, deck |-> i, at |-> now, decks |-> Seen("decks")]
    /\ left' = [left EXCEPT !.exports = @ - 1]
    /\ now' = now + 1
    /\ last' = None
    /\ UNCHANGED <<db, files>>

\* The next statement; after the last the package is written, or fails.
ReadRows ==
    /\ reading # None
    /\ \E s \in DOMAIN Statements :
          /\ \A j \in DOMAIN Statements : j < s <=> Statements[j] \in DOMAIN reading
          /\ LET x == [t \in {Statements[s]} |-> Seen(t)] ++ reading
             IN IF s < Len(Statements) THEN reading' = x /\ UNCHANGED files
                ELSE /\ reading' = None
                     /\ files' = IF Writable(x) THEN files \cup {Package(x)} ELSE files
    /\ last' = None
    /\ UNCHANGED <<db, now, left>>

-----------------------------------------------------------------------------
(* What users do between imports and exports.                              *)

Edit(d) ==
    /\ left.edits > 0 /\ Spare("changes")
    /\ db' = d
    /\ left' = [left EXCEPT !.edits = @ - 1, !.changes = @ - 1]
    /\ now' = now + 1
    /\ last' = None
    /\ UNCHANGED <<files, reading>>

Studies(u, k) == u \in db.decks[db.cards[k].deck].viewers

\* A batch of reviews.  When the client's clock runs ahead, all of them are
\* clamped to the instant the batch arrives.
GradeBatch(u, K) ==
    LET Row(k) == LET row == RowOf(db, u, k)
                  IN Scheduled(row, [row.mem EXCEPT !.reviews = Append(@, now)], now,
                               Retention(db, u, db.cards[k].deck))
    IN /\ left.grades > 0 /\ Spare("changes")
       /\ \A k \in K : Studies(u, k)
       /\ db' = [db EXCEPT
                    !.log = @ \cup {[user |-> u, card |-> k, at |-> now, anki |-> None, id |-> now] : k \in K},
                    !.states = [p \in {u} \X K |-> Row(p[2])] ++ @]
       /\ left' = [left EXCEPT !.grades = @ - 1, !.changes = @ - 1]
       /\ now' = now + 1
       /\ last' = None
       /\ UNCHANGED <<files, reading>>

\* UpsertUserCardStateSettings: suspended, buried and flagged, as the form says.
ChangeSettings(u, k, new) ==
    /\ Studies(u, k)
    /\ Edit([db EXCEPT !.states = [p \in {<<u, k>>} |-> new ++ RowOf(db, u, k)] ++ @])

MoveNote(u, n, i) ==
    /\ Owner(n) = u /\ db.decks[i].owner = u
    /\ db.notes[n].deck # i
    /\ Edit([db EXCEPT !.notes[n].deck = i,
                       !.cards = [k \in DOMAIN @ |->
                           IF <<k[1], k[2]>> = n /\ @[k].deck = db.notes[n].deck
                           THEN [@[k] EXCEPT !.deck = i] ELSE @[k]]])

\* UpdateDeck and UpdateNoteType: names are unique to their owner.
RenameDeck(u, i, name) ==
    /\ db.decks[i].owner = u /\ DeckNamed(db, u, name) = {}
    /\ Edit([db EXCEPT !.decks[i].name = name])

RenameType(u, t, name) ==
    /\ db.types[t].owner = u /\ TypeNamed(db, u, name) = {}
    /\ Edit([db EXCEPT !.types[t].name = name])

\* Each at the end of the deck's queue.
Created(u, i, t, G, v) ==
    LET cards == {<<u, g, o>> : g \in G, o \in db.types[t].templates}
        end == Max({0} \cup {db.cards[k].position : k \in {k \in CardsIn(db, i) : db.cards[k].position # None}})
        Place(k) == end + Cardinality({c \in cards : Uuid(c) <= Uuid(k)})
    IN [db EXCEPT
           !.notes = [n \in {u} \X G |-> [type |-> t, deck |-> i, vals |-> v,
                                          anki |-> None, created |-> now]] ++ @,
           !.cards = [k \in cards |-> [template |-> <<t, k[3]>>, deck |-> i,
                                       anki |-> None, position |-> Place(k)]] ++ @]

\* Notes created in one transaction; one without cards fails it (ErrNoCards).
CreateNotes(u, i, t, G) ==
    /\ db.decks[i].owner = u /\ db.types[t].owner = u
    /\ ~db.types[t].cloze /\ db.types[t].templates # {}
    /\ \A g \in G : <<u, g>> \notin DOMAIN db.notes
    /\ \E v \in Value : Edit(Created(u, i, t, G, v))

SetRetention(u, i, r) ==
    /\ u \in db.decks[i].viewers
    /\ Edit([db EXCEPT !.retention = [p \in {<<u, i>>} |-> r] ++ @])

Init ==
    /\ db = Stored
    /\ now = Start
    /\ files = Anki /\ reading = None
    /\ left = [edits |-> MaxEdits, grades |-> MaxGrades, imports |-> MaxImports,
                changes |-> MaxChanges, exports |-> MaxExports]
    /\ last = None

Settings == {[suspended |-> TRUE, flag |-> 1], [suspended |-> FALSE, buried |-> now - (now % DayTicks) + DayTicks]}

Next ==
    \/ ReadRows
    \/ \E u \in User :
        \/ \E f \in files : Import(u, f)
        \/ \E i \in DOMAIN db.decks :
              \/ Export(u, i)
              \/ \E name \in DeckName : RenameDeck(u, i, name)
              \/ \E r \in Retentions : SetRetention(u, i, r)
              \/ \E t \in DOMAIN db.types, G \in SUBSET Guid \ {{}} : CreateNotes(u, i, t, G)
              \/ \E n \in DOMAIN db.notes : MoveNote(u, n, i)
        \/ \E t \in DOMAIN db.types, name \in TypeName : RenameType(u, t, name)
        \/ \E k \in DOMAIN db.cards, new \in Settings : ChangeSettings(u, k, new)
        \/ \E k \in DOMAIN db.cards : GradeBatch(u, {k}) \/ GradeBatch(u, CardsIn(db, db.cards[k].deck))

Spec == Init /\ [][Next]_vars

-----------------------------------------------------------------------------
(* Properties.                                                             *)

Ids == Nat \cup {None}

(* The tables keep the shape their constraints give them: a note belongs   *)
(* to the owner of its deck, a card to a note and a template, a review and *)
(* a scheduling row to a card.                                             *)
TypeOK ==
    /\ \A i \in DOMAIN db.decks : /\ db.decks[i].owner \in User /\ db.decks[i].anki \in Ids
                                  /\ DeckNamed(db, db.decks[i].owner, db.decks[i].name) = {i}
    /\ \A t \in DOMAIN db.types : /\ db.types[t].anki \in Ids
                                  /\ TypeNamed(db, db.types[t].owner, db.types[t].name) = {t}
    /\ \A n \in DOMAIN db.notes : /\ n \in User \X Guid /\ db.notes[n].anki \in Ids
                                  /\ db.decks[db.notes[n].deck].owner = Owner(n)
                                  /\ db.types[db.notes[n].type].owner = Owner(n)
    /\ \A k \in DOMAIN db.cards : /\ <<k[1], k[2]>> \in DOMAIN db.notes
                                  /\ db.decks[db.cards[k].deck].owner = Owner(k)
                                  /\ db.cards[k].template[2] \in db.types[db.cards[k].template[1]].templates
    /\ \A r \in db.log : r.user \in User /\ r.card \in DOMAIN db.cards
    /\ DOMAIN db.states \subseteq User \X DOMAIN db.cards
    /\ \A p \in DOMAIN db.states : db.states[p].state \in New .. Relearning /\ db.states[p].ivl >= 0
    /\ DOMAIN db.retention \subseteq User \X DOMAIN db.decks

(* A review that came in a package is in its user's log of the card once,  *)
(* under the id it came with, however often and through however many files *)
(* it comes back (review_log_user_id_card_id_anki_id_key).  The exception  *)
(* are reviews made in the app: they have no Anki id for that key, so one  *)
(* that its user exports and imports again is filed a second time beside   *)
(* itself, and never a third time (InsertImportedReviewLog).               *)
ReviewsComeBackOnce ==
    \A q, r \in db.log :
        q # r /\ r.anki # None /\ q.user = r.user /\ q.card = r.card /\ q.at = r.at
        => q.anki = None /\ r.anki = r.at

(* A scheduling row never disagrees with the log it stands for: the        *)
(* reviews it was computed from, after whatever snapshot it was seeded     *)
(* with, are the rows the user's log has of the card, all of them and in   *)
(* their order (importReviews, ReplayCard, seedCardStates).                *)
MemoryFollowsLog ==
    \A p \in DOMAIN db.states : db.states[p].mem.reviews = History(db, p[1], p[2])

(* However often a history goes out and comes back, what a package brought  *)
(* is logged once, what the app logged is logged at most once more, and    *)
(* the memory is the one that the rows of the log lead to, such a second   *)
(* row included.                                                           *)
LogComesBackOnce == ReviewsComeBackOnce /\ MemoryFollowsLog

Twin(q, r) == q # r /\ q.at = r.at

(* An export cannot be written only where two rows were made at one        *)
(* instant: a user's review that came back through a package of their own, *)
(* two reviews clamped to one instant, or two notes created together       *)
(* (exportAnkiID; writeCollection's primary keys).                         *)
ExportFailsOnTwins ==
    \A u \in User, i \in DOMAIN db.decks :
        \/ Writable([user |-> u, deck |-> i] ++ [s \in Range(Statements) |-> db])
        \/ \E q, r \in db.log : q.user = u /\ r.user = u /\ q.anki = None /\ Twin(q, r)
        \/ \E m, n \in NotesIn(db, i) : m # n /\ db.notes[m].created = db.notes[n].created

Importing == left'.imports < left.imports
Importer == last'[1]
Content == last'[2]

(* What an import by one user may never touch: other users' decks, note    *)
(* types, notes and cards, other users' progress on any card, the          *)
(* importer's cards that they study included, and the importer's own       *)
(* progress on cards of others, even where names and guids are the same.   *)
(* Nor does it add anything to what others have: every row it adds is the  *)
(* importer's, and only the importer sees a deck it adds.                  *)
OthersUntouched ==
    /\ \A i \in DOMAIN db.decks : db.decks[i].owner # Importer => db'.decks[i] = db.decks[i]
    /\ \A t \in DOMAIN db.types : db'.types[t] = db.types[t]
    /\ \A n \in DOMAIN db.notes : Owner(n) # Importer => db'.notes[n] = db.notes[n]
    /\ \A k \in DOMAIN db.cards : Owner(k) # Importer => db'.cards[k] = db.cards[k]
    /\ \A p \in DOMAIN db.states :
          p[1] # Importer \/ Owner(p[2]) # Importer => db'.states[p] = db.states[p]
    /\ \A i \in DOMAIN db'.decks \ DOMAIN db.decks :
          db'.decks[i].owner = Importer /\ db'.decks[i].viewers = {Importer}
    /\ \A t \in DOMAIN db'.types \ DOMAIN db.types : db'.types[t].owner = Importer
    /\ \A n \in DOMAIN db'.notes \ DOMAIN db.notes : Owner(n) = Importer
    /\ \A k \in DOMAIN db'.cards \ DOMAIN db.cards : Owner(k) = Importer
    /\ \A r \in db'.log \ db.log : r.user = Importer /\ Owner(r.card) = Importer
    /\ \A p \in DOMAIN db'.states \ DOMAIN db.states : p[1] = Importer /\ Owner(p[2]) = Importer
    /\ \A p \in DOMAIN db'.retention \ DOMAIN db.retention : p[1] = Importer

ReviewsIt(k) == \E c \in Content.cards, n \in Content.notes, r \in Content.revlog :
                    r.cid = c.id /\ c.nid = n.id /\ c.ord = k[3] /\ n.guid = k[2]

(* An import takes nothing: no row goes, no review is lost, what the        *)
(* importer suspended, buried, flagged or set as retention stays, and only *)
(* reviews that the package brings may change how a card of the importer's *)
(* is scheduled for the importer.                                          *)
ProgressKept ==
    /\ \A s \in {"decks", "types", "notes", "cards", "states", "retention"} :
          DOMAIN db[s] \subseteq DOMAIN db'[s]
    /\ db.log \subseteq db'.log
    /\ \A p \in DOMAIN db.retention : db'.retention[p] = db.retention[p]
    /\ \A p \in DOMAIN db.states :
          \/ db'.states[p] = db.states[p]
          \/ /\ ReviewsIt(p[2])
             /\ \A s \in {"suspended", "buried", "flag"} : db'.states[p][s] = db.states[p][s]

InPackage(k) == \E c \in Content.cards, n \in Content.notes :
                    c.nid = n.id /\ n.guid = k[2] /\ c.ord = k[3]

(* An import changes nothing of a deck but its Anki id, never moves a note *)
(* to another deck, and leaves every card alone that the package does not  *)
(* contain (SetDeckAnkiID, UpdateImportedNote).                            *)
FilingKept ==
    /\ \A i \in DOMAIN db.decks : \A s \in DOMAIN db.decks[i] \ {"anki"} :
          db'.decks[i][s] = db.decks[i][s]
    /\ \A n \in DOMAIN db.notes : /\ db'.notes[n].deck = db.notes[n].deck
                                  /\ db'.notes[n].created = db.notes[n].created
    /\ \A k \in DOMAIN db.cards : ~InPackage(k) => db'.cards[k] = db.cards[k]

(* What an import leaves alone: what others have, and what the importer    *)
(* has learned and filed.                                                  *)
ImportLeavesAlone == [][Importing => OthersUntouched /\ ProgressKept /\ FilingKept]_vars

(* Importing the same package again, with nothing done in between, changes *)
(* nothing (Import: "re-importing the same package updates rather than     *)
(* duplicates").                                                           *)
ReimportIsNoOp == [][Importing /\ last' = last => db' = db]_vars

\* The importer has nothing of the package, and it lacks no note type.
Novel ==
    /\ Content \notin Anki /\ Content.original # None
    /\ \A k \in DOMAIN Content.original : /\ <<Importer, k[1]>> \notin DOMAIN db.notes
                                          /\ TypeNamed(db, Importer, Content.original[k].type) = {}
                                          /\ \E t \in Content.types : t.name = Content.original[k].type

Near(a, b) == a - b \in -(DayTicks \div 2) .. (DayTicks \div 2)

(* A deck that one user exports and another imports arrives as it was:     *)
(* note contents, note types, the order of new cards and the reviews are   *)
(* the same, and so is the scheduling of a card without reviews, its due   *)
(* date to within half a day.  A card with reviews is scheduled from them  *)
(* alone: a snapshot from before them, and what was suspended, buried or   *)
(* flagged, stays behind.                                                  *)
ArrivesAsItWas ==
    [][Importing /\ Novel =>
        \A o \in DOMAIN Content.original :
            LET was == Content.original[o]
                k == <<Importer, o[1], o[2]>>
                n == db'.notes[<<Importer, o[1]>>]
                row == db'.states[<<Importer, k>>]
            IN /\ k \in DOMAIN db'.cards
               /\ n.vals = was.vals /\ db'.types[n.type].name = was.type
               /\ History(db', Importer, k) = was.reviews
               /\ (was.row = None) = (<<Importer, k>> \notin DOMAIN db'.states)
               /\ was.row = None /\ was.position # None => db'.cards[k].position = was.position
               /\ was.row # None /\ was.reviews = <<>> =>
                     /\ \A s \in {"mem", "state", "ivl", "suspended", "flag"} : row[s] = was.row[s]
                     /\ was.row.state # New => Near(row.due, was.row.due)
               /\ was.reviews # <<>> =>
                     /\ row.mem = [seed |-> None, reviews |-> was.reviews]
                     /\ ~row.suspended /\ row.flag = 0]_vars

(* What a package carries arrives as it was, and a second import of it     *)
(* adds nothing.                                                           *)
ArrivesOnce == ArrivesAsItWas /\ ReimportIsNoOp

(* What a card is set to travels with its package, reviews or not: the     *)
(* round trip of internal/apkg's tests "must produce equivalent ...        *)
(* scheduling state".                                                      *)
SettingsTravel ==
    [][Importing /\ Novel =>
        \A o \in DOMAIN Content.original :
            LET was == Content.original[o]
                row == db'.states[<<Importer, <<Importer, o[1], o[2]>>>>]
            IN was.row # None => row.suspended = was.row.suspended /\ row.flag = was.row.flag]_vars

(* internal/http/export.go:60: the statements of an export "must see one   *)
(* consistent snapshot".  A package that did has the note of every card in *)
(* it, and the note type of every note; whoever imports it misses neither. *)
ExportIsOneSnapshot ==
    \A f \in files \ Anki :
        /\ \A c \in f.cards : \E n \in f.notes : n.id = c.nid
        /\ \A n \in f.notes : \E t \in f.types : t.anki = n.mid
=============================================================================
