---------------------------- MODULE DeckContents ----------------------------
(***************************************************************************)
(* Decks, notes, cards and note types, and the requests that change them:  *)
(* internal/db/deletion.go, notes.go, cards.go, notetypes.go and their     *)
(* handlers in internal/http.                                              *)
(*                                                                         *)
(* Each request reads what it needs outside a transaction, then runs one   *)
(* READ COMMITTED transaction, a statement at a time.  A transaction's     *)
(* writes sit in "dirty" until it commits.  A statement that changes many  *)
(* rows is two steps: its snapshot is taken (Scan...), and later, when no  *)
(* other transaction holds the rows, it changes those that still satisfy   *)
(* the part of its condition that is about the row itself.  What it read   *)
(* of other tables stays what its snapshot showed.                         *)
(***************************************************************************)
EXTENDS Integers, Sequences, FiniteSets, SequencesExt, Functions

CONSTANTS
    Deck, Note, Type, Card,   \* the rows that may come to exist
    Field, Template,          \* ids of a note type's fields and templates
    Cloze,                    \* the note types that are cloze
    Ordinals,                 \* the cloze ordinals a text may carry
    Request,                  \* the requests, each runs once
    UserOf,                   \* who sends it
    Edits, Manages,           \* the decks a user may view and edit; and manage
    OwnerOf,                  \* who owns a note type
    Kinds,                    \* the kinds of request that it may be
    Imported,                 \* contents of the tables to start from
    maxFieldsPerNoteType, maxTemplatesPerNoteType,
    Gone, New, Empty          \* no row; a form row without id; an empty value

Row == Deck \cup Note \cup Type \cup Card

\* A value was entered for a field, by a request or before them.
Value == (Field \X (Request \cup {Empty})) \cup {Empty}
NoteRow == [home : Deck, type : Type, vals : Seq(Value), sum : Value]
CardRow == [note : Note, tmpl : Template, ord : Int, deck : Deck]
TypeRow == [fields : Seq(Field), templates : Seq(Template)]

ASSUME ContentsAssumption ==
    /\ Deck \cap (Note \cup Type \cup Card) = {} /\ Note \cap (Type \cup Card) = {}
    /\ Type \cap Card = {}
    /\ Gone \notin {"live"} \cup NoteRow \cup CardRow \cup TypeRow
    /\ Gone \notin Deck /\ New \notin Field \cup Template
    /\ Cloze \subseteq Type /\ Ordinals \subseteq Nat
    /\ maxFieldsPerNoteType \in Nat \ {0} /\ maxTemplatesPerNoteType \in Nat \ {0}
    /\ UserOf \in [Request -> DOMAIN Edits] /\ OwnerOf \in [Type -> DOMAIN Edits]
    /\ Manages \in [DOMAIN Edits -> SUBSET Deck]
    /\ \A u \in DOMAIN Edits : Edits[u] \subseteq Deck /\ Manages[u] \subseteq Edits[u]

VARIABLES
    row,     \* the committed rows
    tx,      \* the requests
    torn,    \* history: notes last written from something already replaced
    outrun   \* history: notes whose cards changed under a deck deletion

vars == <<row, tx, torn, outrun>>

-----------------------------------------------------------------------------
(* Rows.                                                                   *)

\* A transaction's writes over the rows it found.
new ++ found ==
    [x \in DOMAIN new \cup DOMAIN found |-> IF x \in DOMAIN new THEN new[x] ELSE found[x]]

Live(v, S) == {x \in S : v[x] # Gone}
CardsOf(v, n) == {c \in Live(v, Card) : v[c].note = n}
NotesOfType(v, t) == {n \in Live(v, Note) : v[n].type = t}
HasTemplate(v, x) == \E t \in Live(v, Type) : x \in ToSet(v[t].templates)
Collide(v) == \E c, x \in Live(v, Card) :
                  c # x /\ v[c].note = v[x].note /\ v[c].ord = v[x].ord

ComputeNoteChecksum(vals) == vals[1]

\* What the tables hold at any time: rows refer to rows that exist (foreign
\* keys), a template belongs to one note type, ordinals are unique per note
\* and not staged, and a note's checksum is that of its first value.
Sound(v) ==
    /\ \A n \in Live(v, Note) : /\ v[n] \in NoteRow /\ v[n].vals # <<>>
                                /\ v[v[n].home] # Gone /\ v[v[n].type] # Gone
                                /\ v[n].sum = ComputeNoteChecksum(v[n].vals)
    /\ \A c \in Live(v, Card) : /\ v[c] \in CardRow /\ v[c].ord >= 0
                                /\ v[v[c].note] # Gone /\ v[v[c].deck] # Gone
                                /\ HasTemplate(v, v[c].tmpl)
    /\ \A t \in Live(v, Type) : /\ v[t] \in TypeRow
                                /\ v[t].fields # <<>> /\ v[t].templates # <<>>
                                /\ IsInjective(v[t].templates)
                                /\ t \in Cloze => Len(v[t].templates) = 1
    /\ \A t, u \in Live(v, Type) :
          t # u => ToSet(v[t].templates) \cap ToSet(v[u].templates) = {}
    /\ ~Collide(v)

\* A card is made from the template its note's type has at that ordinal, all
\* those of a cloze note from the only one.
CardsFollowTemplates(v, n) ==
    LET templates == v[v[n].type].templates IN
    \A c \in CardsOf(v, n) :
        IF v[n].type \in Cloze THEN v[c].tmpl = templates[1]
        ELSE v[c].ord < Len(templates) /\ v[c].tmpl = templates[v[c].ord + 1]

\* A note has one value per field, each entered for that field or empty.
ValuesFollowFields(v, n) ==
    LET fields == v[v[n].type].fields IN
    /\ Len(v[n].vals) = Len(fields)
    /\ \A i \in DOMAIN fields : v[n].vals[i] = Empty \/ v[n].vals[i][1] = fields[i]

Follows(v, n) == CardsFollowTemplates(v, n) /\ ValuesFollowFields(v, n)

\* What an import leaves in the tables.  Its notes need not follow their types:
\* a file may bring too few values, or a note type that differs from ours.
ASSUME ImportedAssumption ==
    \A v \in Imported : DOMAIN v = Row /\ Sound(v)

-----------------------------------------------------------------------------
(* Requests and row locks.                                                 *)

Nothing == [kind |-> "none"]

Fresh == [pc |-> "new", req |-> Nothing, seen |-> <<>>, scan |-> <<>>,
          dirty |-> <<>>, excl |-> {}, share |-> {}]

Over == [Fresh EXCEPT !.pc = "over"]

Init ==
    /\ row \in Imported
    /\ tx = [r \in Request |-> Fresh]
    /\ torn = {n \in Live(row, Note) : ~Follows(row, n)} /\ outrun = {}

View(r) == tx[r].dirty ++ row

Taken(u) == tx[u].excl \cup DOMAIN tx[u].dirty

\* FOR UPDATE and DELETE wait for every other holder, UPDATE for all but the
\* foreign-key checks, and a foreign-key check for FOR UPDATE and DELETE.
Lockable(r, S) == \A u \in Request \ {r} : S \cap (Taken(u) \cup tx[u].share) = {}
Updatable(r, S) == \A u \in Request \ {r} : S \cap Taken(u) = {}
Sharable(r, S) == \A u \in Request \ {r} : S \cap tx[u].excl = {}

Step(r, change) == tx' = [tx EXCEPT ![r] = change ++ @]

Write(r, next, rows) ==
    Step(r, [pc |-> next, dirty |-> rows ++ tx[r].dirty,
             excl |-> tx[r].excl \cup {x \in DOMAIN rows : rows[x] = Gone}])

Refuse(r) == tx' = [tx EXCEPT ![r] = Over] /\ UNCHANGED <<row, torn, outrun>>

Commit(r, rows) ==
    /\ row' = rows ++ View(r)
    /\ tx' = [tx EXCEPT ![r] = Over]

\* Ids are never reused while some transaction still sees them.
Unused(S) == {x \in S : row[x] = Gone /\ \A u \in Request : x \notin DOMAIN tx[u].dirty}
Layouts == {row[t] : t \in Live(row, Type)}
           \cup UNION {{tx[u].dirty[t] : t \in (DOMAIN tx[u].dirty) \cap Type} : u \in Request}
UnusedOf(S, list) == S \ UNION {ToSet(l[list]) : l \in Layouts \ {Gone}}

\* A new id for each member of S; the bound is that there are enough.
Enough(ids, S) == \E new \in Injection(S, ids) : TRUE
Assigned(ids, S) == CHOOSE new \in Injection(S, ids) : TRUE

-----------------------------------------------------------------------------
(* What a note's cards should be.                                          *)

\* One card per template, or one per cloze ordinal from the first template.
desiredCards(t, templates, marks) ==
    IF t \in Cloze
    THEN [o \in marks |-> templates[1]]
    ELSE [o \in 0 .. Len(templates) - 1 |-> templates[o + 1]]

fieldsCompatible(v, from, to) ==
    /\ (from \in Cloze) = (to \in Cloze)
    /\ v[from].fields = v[to].fields

\* The values a form with these fields submits, and their checksum.
Submit(r, fields) == [i \in DOMAIN fields |-> <<fields[i], r>>]
NewNote(d, t, vals) ==
    [home |-> d, type |-> t, vals |-> vals, sum |-> ComputeNoteChecksum(vals)]
Rewritten(old, t, vals) ==
    [old EXCEPT !.type = t, !.vals = vals, !.sum = ComputeNoteChecksum(vals)]

ListTemplatesForNoteType(t) == row[t].templates
ListFieldsForNoteType(t) == row[t].fields

\* READABLE and WRITABLE: authority over a note type comes from the decks of
\* the notes that use it, its owner counts only while none does.
DecksUsing(v, t) == {v[n].home : n \in NotesOfType(v, t)}
Readable(r, v, t) == \/ OwnerOf[t] = UserOf[r]
                     \/ DecksUsing(v, t) \cap Edits[UserOf[r]] # {}
WritableType(r, v, t) == /\ DecksUsing(v, t) \subseteq Edits[UserOf[r]]
                         /\ DecksUsing(v, t) # {} \/ OwnerOf[t] = UserOf[r]

CanEdit(r, d) == d \in Edits[UserOf[r]]
CanRetype(r, d) == d \in Manages[UserOf[r]]

-----------------------------------------------------------------------------
(* Opening a form: GET pages.  What they show may be old when it is posted. *)

Sends(r, kind) == tx[r].pc = "new" /\ kind \in Kinds[r]

GetNewNote(r) ==
    /\ Sends(r, "create")
    /\ \E d \in Live(row, Deck), t \in Live(row, Type), marks \in (SUBSET Ordinals) \ {{}} :
        /\ CanEdit(r, d) /\ Readable(r, row, t)
        /\ t \notin Cloze => marks = Ordinals
        /\ Step(r, [pc |-> "readTemplates", seen |-> [fields |-> row[t].fields],
                    req |-> [kind |-> "create", deck |-> d, type |-> t, marks |-> marks]])
    /\ UNCHANGED <<row, torn, outrun>>

\* The posted form may name another note type of the same shape.
GetNoteEdit(r) ==
    /\ Sends(r, "edit")
    /\ \E n \in Live(row, Note), to \in Live(row, Type), marks \in (SUBSET Ordinals) \ {{}} :
        LET t == row[n].type IN
        /\ CanEdit(r, row[n].home)
        /\ t \notin Cloze => marks = Ordinals
        /\ to # t => Readable(r, row, to) /\ fieldsCompatible(row, t, to)
        /\ Step(r, [pc |-> "readTemplates", seen |-> [fields |-> row[t].fields],
                    req |-> [kind |-> "edit", note |-> n, type |-> to, marks |-> marks]])
    /\ UNCHANGED <<row, torn, outrun>>

\* A submitted form keeps, drops, reorders and adds rows.
Rearranged(s) ==
    {q \in SeqOf(ToSet(s) \cup {New}, Len(s) + 1) : q # <<>> /\ IsInjective(q)}

GetNoteTypeEdit(r) ==
    /\ Sends(r, "edittype")
    /\ \E t \in Live(row, Type) :
        \E fs \in Rearranged(row[t].fields), ts \in Rearranged(row[t].templates) :
            /\ WritableType(r, row, t)
            /\ fs = row[t].fields \/ ts = row[t].templates   \* bound: one list changes
            /\ Step(r, [pc |-> "postType",
                        req |-> [kind |-> "edittype", type |-> t, fields |-> fs, templates |-> ts,
                                 confirmed |-> FALSE]])
    /\ UNCHANGED <<row, torn, outrun>>

\* Requests whose form carries only ids.
PostIds(r) ==
    /\ \/ \E n \in Note, d \in Deck :
            /\ Sends(r, "move")
            /\ Step(r, [pc |-> "lockNote", req |-> [kind |-> "move", note |-> n, deck |-> d]])
       \/ \E n \in Note :
            /\ Sends(r, "delnote")
            /\ Step(r, [pc |-> "deleteNote", req |-> [kind |-> "delnote", note |-> n]])
       \/ \E d \in Deck :
            /\ Sends(r, "deldeck")
            /\ Step(r, [pc |-> "lockDeck", req |-> [kind |-> "deldeck", deck |-> d]])
    /\ UNCHANGED <<row, torn, outrun>>

-----------------------------------------------------------------------------
(* Writing a note: POST /decks/{deckId}/notes and POST /notes/{id}/edit.   *)

\* The templates and then the fields are read, still outside the transaction.
PostNoteTemplates(r) ==
    LET q == tx[r].req IN
    /\ tx[r].pc = "readTemplates"
    /\ IF \/ row[q.type] = Gone
          \/ q.kind = "edit" /\ (row[q.note] = Gone \/ ~CanEdit(r, row[q.note].home))
       THEN Refuse(r)
       ELSE /\ Step(r, [pc |-> "readFields",
                        seen |-> [want |-> desiredCards(q.type, ListTemplatesForNoteType(q.type), q.marks)]
                                 ++ tx[r].seen])
            /\ UNCHANGED <<row, torn, outrun>>

\* validateNoteFields compares the number of values and nothing else.
validateNoteFields(vals, wantCount) == Len(vals) = wantCount

\* Another note type also takes the right to manage access, and must still fit.
MayRetype(r, n, to) ==
    row[n].type # to => /\ CanRetype(r, row[n].home) /\ Readable(r, row, to)
                        /\ fieldsCompatible(row, row[n].type, to)

PostNoteFields(r) ==
    LET q == tx[r].req IN
    /\ tx[r].pc = "readFields"
    /\ IF \/ row[q.type] = Gone
          \/ q.kind = "edit" /\ (row[q.note] = Gone \/ ~MayRetype(r, q.note, q.type))
          \/ ~validateNoteFields(tx[r].seen.fields, Len(ListFieldsForNoteType(q.type)))
       THEN Refuse(r)
       ELSE /\ Step(r, [pc |-> IF q.kind = "create" THEN "createNote" ELSE "lockNote"])
            /\ UNCHANGED <<row, torn, outrun>>

\* The insert checks its deck and its note type (foreign keys).
CreateNote(r) ==
    LET q == tx[r].req IN
    /\ tx[r].pc = "createNote"
    /\ Sharable(r, {q.deck, q.type})
    /\ IF row[q.deck] = Gone \/ row[q.type] = Gone \/ ~Readable(r, row, q.type)
       THEN Refuse(r)
       ELSE LET n == CHOOSE n \in Unused(Note) : TRUE
                vals == Submit(r, tx[r].seen.fields)
            IN /\ Unused(Note) # {}
               /\ Step(r, [pc |-> "lockCards", req |-> [note |-> n] ++ q,
                           share |-> {q.deck, q.type},
                           dirty |-> [x \in {n} |-> NewNote(q.deck, q.type, vals)]])
               /\ UNCHANGED <<row, torn, outrun>>

\* The caller's rights are those on the deck the snapshot shows.
LockNoteForContentEdit(r) ==
    LET q == tx[r].req IN
    /\ tx[r].pc = "lockNote"
    /\ Lockable(r, {q.note})
    /\ IF row[q.note] = Gone \/ ~CanEdit(r, row[q.note].home)
       THEN Refuse(r)
       ELSE /\ Step(r, [pc |-> IF q.kind = "move" THEN "moveNote" ELSE "updateNote",
                        seen |-> [home |-> row[q.note].home] ++ tx[r].seen,
                        excl |-> {q.note}])
            /\ UNCHANGED <<row, torn, outrun>>

\* A changed note type is checked by its foreign key, an unchanged one is not.
UpdateNoteContent(r) ==
    LET q == tx[r].req
        old == row[q.note]
        checked == {q.type} \ {old.type}
        vals == Submit(r, tx[r].seen.fields)
    IN
    /\ tx[r].pc = "updateNote"
    /\ Sharable(r, checked)
    /\ IF row[q.type] = Gone
       THEN Refuse(r)
       ELSE /\ Step(r, [pc |-> "lockCards", share |-> checked,
                        dirty |-> [n \in {q.note} |-> Rewritten(old, q.type, vals)]])
            /\ UNCHANGED <<row, torn, outrun>>

\* SyncNoteCards reads the cards FOR UPDATE.
ListCardsForNoteForUpdate(r) ==
    LET q == tx[r].req
        cards == CardsOf(View(r), q.note)
    IN
    /\ tx[r].pc = "lockCards"
    /\ Lockable(r, cards)
    /\ Step(r, [pc |-> "syncCards", excl |-> tx[r].excl \cup cards])
    /\ UNCHANGED <<row, torn, outrun>>

CreateCard(n, x, o, d) == [note |-> n, tmpl |-> x, ord |-> o, deck |-> d]
Repointed(card, x) == [card EXCEPT !.tmpl = x]

Created(r, new) ==
    [c \in Range(new) |->
        LET o == CHOOSE o \in DOMAIN new : new[o] = c
        IN CreateCard(tx[r].req.note, tx[r].seen.want[o], o, View(r)[tx[r].req.note].home)]

\* MUTANT: the cards are dropped and made again.
SyncedByRecreating(r) ==
    [c \in CardsOf(View(r), tx[r].req.note) |-> Gone]
    ++ Created(r, Assigned(Unused(Card), DOMAIN tx[r].seen.want))

Missing(r) ==
    DOMAIN tx[r].seen.want \ {View(r)[c].ord : c \in CardsOf(View(r), tx[r].req.note)}

\* The diff: missing ordinals are created, undesired ones deleted, and the
\* others keep their card, whose template is repointed where it differs.
Synced(r) ==
    LET v == View(r)
        want == tx[r].seen.want
    IN [c \in CardsOf(v, tx[r].req.note) |->
          IF v[c].ord \in DOMAIN want THEN Repointed(v[c], want[v[c].ord]) ELSE Gone]
       ++ Created(r, Assigned(Unused(Card), Missing(r)))

\* Was this note written from a layout that is no longer the note type's?
Outdated(r) ==
    LET q == tx[r].req IN
    \/ tx[r].seen.fields # row[q.type].fields
    \/ tx[r].seen.want # desiredCards(q.type, row[q.type].templates, q.marks)

\* A template being deleted is waited for, and then its foreign key refuses.
TemplateHeld(r, S) ==
    \E u \in Request \ {r} : \E t \in (DOMAIN tx[u].dirty) \cap Type :
        /\ tx[u].dirty[t] # Gone /\ row[t] # Gone
        /\ S \cap (ToSet(row[t].templates) \ ToSet(tx[u].dirty[t].templates)) # {}

SyncNoteCards(r) ==
    LET v == View(r)
        n == tx[r].req.note
        rows == Synced(r)
        written == {c \in DOMAIN rows : rows[c] # Gone /\ rows[c] # v[c]}
        created == {c \in written : v[c] = Gone}
        needed == {rows[c].tmpl : c \in written}
    IN
    /\ tx[r].pc = "syncCards"
    /\ Enough(Unused(Card), Missing(r))
    /\ created # {} => Sharable(r, {v[n].home})
    /\ ~TemplateHeld(r, needed)
    /\ IF \/ \E x \in needed : ~HasTemplate(row, x)
          \/ created # {} /\ row[v[n].home] = Gone
       THEN Refuse(r)
       ELSE /\ Commit(r, rows)
            /\ torn' = IF Outdated(r) THEN torn \cup {n} ELSE torn \ {n}
            /\ UNCHANGED outrun

-----------------------------------------------------------------------------
(* Moving and deleting a note.                                             *)

\* A target deck that is gone, or goes while it is waited for, refuses.
MoveNoteToDeck(r) ==
    LET q == tx[r].req IN
    /\ tx[r].pc = "moveNote"
    /\ Sharable(r, {q.deck})
    /\ IF row[q.deck] = Gone \/ ~CanEdit(r, q.deck)
       THEN Refuse(r)
       ELSE /\ Step(r, [pc |-> "moveCards", share |-> {q.deck},
                        dirty |-> [n \in {q.note} |-> [row[n] EXCEPT !.home = q.deck]]])
            /\ UNCHANGED <<row, torn, outrun>>

\* Only the cards filed in the old home deck follow the note.
MovedCards(v, n, source, target) ==
    [c \in {c \in CardsOf(v, n) : v[c].deck = source} |-> [v[c] EXCEPT !.deck = target]]

MoveNoteCardsFromDeck(r) ==
    LET q == tx[r].req
        rows == MovedCards(View(r), q.note, tx[r].seen.home, q.deck)
    IN
    /\ tx[r].pc = "moveCards"
    /\ Updatable(r, DOMAIN rows)
    /\ Commit(r, rows)
    /\ UNCHANGED <<torn, outrun>>

\* DELETE of one row, whose cards go with it (ON DELETE CASCADE).
WithCards(n) == {n} \cup CardsOf(row, n)

DeleteNote(r) ==
    LET n == tx[r].req.note IN
    /\ tx[r].pc = "deleteNote"
    /\ Lockable(r, WithCards(n))
    /\ IF row[n] = Gone \/ ~CanEdit(r, row[n].home)
       THEN Refuse(r)
       ELSE /\ Commit(r, [x \in WithCards(n) |-> Gone])
            /\ UNCHANGED <<torn, outrun>>

-----------------------------------------------------------------------------
(* Deleting a deck.                                                        *)

LockDeckForDelete(r) ==
    LET d == tx[r].req.deck IN
    /\ tx[r].pc = "lockDeck"
    /\ Lockable(r, {d})
    /\ IF row[d] = Gone \/ ~CanEdit(r, d)
       THEN Refuse(r)
       ELSE /\ Step(r, [pc |-> "scanOrphans", excl |-> {d}])
            /\ UNCHANGED <<row, torn, outrun>>

Here(v, n, d) == \E c \in CardsOf(v, n) : v[c].deck = d
Elsewhere(v, n, d) == \E c \in CardsOf(v, n) : v[c].deck # d

\* MUTANT: the home deck alone decides.
OrphanedByHome(v, d) == {n \in Live(v, Note) : v[n].home = d}

OrphanedBy(v, d) ==
    {n \in Live(v, Note) : (v[n].home = d \/ Here(v, n, d)) /\ ~Elsewhere(v, n, d)}

ScanOrphans(r) ==
    LET d == tx[r].req.deck IN
    /\ tx[r].pc = "scanOrphans"
    /\ Step(r, [pc |-> "deleteOrphans",
                scan |-> [n \in OrphanedBy(row, d) |-> Here(row, n, d)],
                seen |-> [n \in Note |-> {c \in CardsOf(row, n) : row[c].deck # d}]])
    /\ UNCHANGED <<row, torn, outrun>>

\* A note that has moved meanwhile is rechecked for its home deck only.
DeleteNotesOrphanedByDeckDelete(r) ==
    LET d == tx[r].req.deck
        notes == {n \in Live(row, DOMAIN tx[r].scan) : row[n].home = d \/ tx[r].scan[n]}
        rows == UNION {WithCards(n) : n \in notes}
    IN
    /\ tx[r].pc = "deleteOrphans"
    /\ Lockable(r, (DOMAIN tx[r].scan) \cup rows)
    /\ Write(r, "scanHomeless", [x \in rows |-> Gone])
    /\ UNCHANGED <<row, torn, outrun>>

\* The deck of the lowest-ordinal card that is not in the deck.
NewHome(v, n, d) ==
    LET left == {c \in CardsOf(v, n) : v[c].deck # d}
    IN IF left = {} THEN Gone
       ELSE v[CHOOSE c \in left : \A x \in left : v[c].ord <= v[x].ord].deck

HomedIn(v, d) == {n \in Live(v, Note) : v[n].home = d}

ScanHomeless(r) ==
    LET v == View(r)
        d == tx[r].req.deck
    IN
    /\ tx[r].pc = "scanHomeless"
    /\ Step(r, [pc |-> "rehome", scan |-> [n \in HomedIn(v, d) |-> NewHome(v, n, d)]])
    /\ UNCHANGED <<row, torn, outrun>>

\* No surviving card, or a new home that is gone, fails the statement.
RehomeNotesOffDeck(r) ==
    LET v == View(r)
        notes == {n \in Live(v, DOMAIN tx[r].scan) : v[n].home = tx[r].req.deck}
        homes == {tx[r].scan[n] : n \in notes}
    IN
    /\ tx[r].pc = "rehome"
    /\ Updatable(r, DOMAIN tx[r].scan)
    /\ Sharable(r, homes)
    /\ IF \E d \in homes : d = Gone \/ row[d] = Gone
       THEN Refuse(r)
       ELSE /\ Step(r, [pc |-> "deleteDeck", share |-> homes,
                        dirty |-> [n \in notes |-> [v[n] EXCEPT !.home = tx[r].scan[n]]]
                                  ++ tx[r].dirty])
            /\ UNCHANGED <<row, torn, outrun>>

FiledIn(v, d) == {c \in Live(v, Card) : v[c].deck = d}

\* The cards filed in the deck go with it; a note still homed in it refuses.
DeleteDeckRow(r) ==
    LET v == View(r)
        d == tx[r].req.deck
        cards == FiledIn(v, d)
        changed == {n \in Live(row, Note) :
                      {c \in CardsOf(row, n) : row[c].deck # d} # tx[r].seen[n]}
    IN
    /\ tx[r].pc = "deleteDeck"
    /\ Lockable(r, cards)
    /\ IF HomedIn(v, d) # {}
       THEN Refuse(r)
       ELSE /\ Commit(r, [x \in {d} \cup cards |-> Gone])
            /\ outrun' = outrun \cup changed
            /\ UNCHANGED torn

-----------------------------------------------------------------------------
(* Editing a note type: UpdateNoteType and RemapNoteTypeCards.             *)

\* A list may not outgrow its limit, one that is over it already may stay so.
noteTypeLimitErr(fields, templates, prev) ==
    \/ Len(fields) > maxFieldsPerNoteType /\ Len(fields) > Len(prev.fields)
    \/ Len(templates) > maxTemplatesPerNoteType /\ Len(templates) > Len(prev.templates)

\* MUTANT: only a shorter list is a change.
OrderChangedByLength(existing, submitted) == Len(submitted) < Len(existing)

\* Anything but new rows at the end.
OrderChanged(existing, submitted) ==
    \/ Len(submitted) < Len(existing)
    \/ SubSeq(submitted, 1, Len(existing)) # existing

\* The post is checked before the transaction.  When it removes or reorders
\* something and there are notes, a page asks to confirm it instead.
PostNoteTypeEdit(r) ==
    LET q == tx[r].req
        t == q.type
        structural == \/ OrderChanged(row[t].fields, q.fields)
                      \/ OrderChanged(row[t].templates, q.templates)
    IN
    /\ tx[r].pc = "postType"
    /\ Lockable(r, {t})
    /\ IF \/ row[t] = Gone
          \/ ~WritableType(r, row, t)
          \/ t \in Cloze /\ Len(q.templates) # 1
          \/ noteTypeLimitErr(q.fields, q.templates, row[t])
       THEN Refuse(r)
       ELSE /\ Step(r, [pc |-> IF structural /\ NotesOfType(row, t) # {} /\ ~q.confirmed
                               THEN "confirm" ELSE "lockType",
                        req |-> [checked |-> row[t], unused |-> NotesOfType(row, t) = {}] ++ q])
            /\ UNCHANGED <<row, torn, outrun>>

\* The confirmed form is posted, and checked, anew.
ConfirmStructuralChange(r) ==
    /\ tx[r].pc = "confirm"
    /\ Step(r, [pc |-> "postType", req |-> [tx[r].req EXCEPT !.confirmed = TRUE]])
    /\ UNCHANGED <<row, torn, outrun>>

LockNoteTypeForEdit(r) ==
    LET t == tx[r].req.type IN
    /\ tx[r].pc = "lockType"
    /\ Lockable(r, {t})
    /\ IF \/ row[t] = Gone
          \/ ~WritableType(r, row, t)
          \/ t \in Cloze /\ Len(tx[r].req.templates) # 1
       THEN Refuse(r)
       ELSE /\ Step(r, [pc |-> "planFields", excl |-> {t}])
            /\ UNCHANGED <<row, torn, outrun>>

\* A submitted id the note type no longer has is refused.
Known(submitted, existing) == ToSet(submitted) \subseteq ToSet(existing) \cup {New}

\* For each submitted row its old position, or -1 for a new one.
keptOldOrdinal(submitted, existing) ==
    [i \in DOMAIN submitted |->
        IF submitted[i] = New THEN -1
        ELSE (CHOOSE j \in DOMAIN existing : existing[j] = submitted[i]) - 1]

fieldPlanIsIdentity(kept, existing) == kept = [i \in DOMAIN existing |-> i - 1]

\* The new rows get their ids.
Numbered(submitted, ids) ==
    [i \in DOMAIN submitted |->
        IF submitted[i] = New THEN CHOOSE x \in ids : TRUE ELSE submitted[i]]

planFields(r) ==
    LET q == tx[r].req
        old == row[q.type]
        kept == keptOldOrdinal(q.fields, old.fields)
        ids == Numbered(q.fields, UnusedOf(Field, "fields"))
    IN
    /\ tx[r].pc = "planFields"
    /\ New \in ToSet(q.fields) => UnusedOf(Field, "fields") # {}   \* bound: ids
    /\ IF ~Known(q.fields, old.fields)
       THEN Refuse(r)
       ELSE /\ Step(r, [pc |-> IF fieldPlanIsIdentity(kept, old.fields) THEN "planTemplates" ELSE "remapFields",
                        seen |-> kept,
                        scan |-> NotesOfType(row, q.type),
                        dirty |-> [t \in {q.type} |-> [old EXCEPT !.fields = ids]]])
            /\ UNCHANGED <<row, torn, outrun>>

\* MUTANT: values stay where they are.
RemappedInPlace(vals, kept) ==
    [i \in DOMAIN kept |-> IF kept[i] < 0 \/ i \notin DOMAIN vals THEN Empty ELSE vals[i]]

\* Position i takes the value of old position kept[i], a new one is empty.
Remapped(vals, kept) ==
    [i \in DOMAIN kept |->
        IF kept[i] < 0 \/ kept[i] + 1 \notin DOMAIN vals THEN Empty ELSE vals[kept[i] + 1]]

\* Another field has become the first one.
FirstFieldMoved(kept) == kept[1] # 0

RemapNoteFields(r) ==
    LET q == tx[r].req
        kept == tx[r].seen
        notes == {n \in tx[r].scan : row[n] # Gone /\ row[n].type = q.type}
    IN
    /\ tx[r].pc = "remapFields"
    /\ Updatable(r, tx[r].scan)
    /\ Write(r, IF FirstFieldMoved(kept) THEN "listFields" ELSE "planTemplates",
             [n \in notes |-> [row[n] EXCEPT !.vals = Remapped(@, kept)]])
    /\ UNCHANGED <<row, torn, outrun>>

\* Every note is then read back, for the checksum of its first field ...
ListNoteFieldsForNoteType(r) ==
    LET v == View(r) IN
    /\ tx[r].pc = "listFields"
    /\ Step(r, [pc |-> "updateChecksums",
                scan |-> [n \in NotesOfType(v, tx[r].req.type) |-> v[n].vals]])
    /\ UNCHANGED <<row, torn, outrun>>

\* ... which is written by id, whatever the note is by then.
BulkUpdateNoteChecksums(r) ==
    LET v == View(r)
        read == tx[r].scan
        notes == Live(v, DOMAIN read)
    IN
    /\ tx[r].pc = "updateChecksums"
    /\ Updatable(r, DOMAIN read)
    /\ Write(r, "planTemplates", [n \in notes |-> [v[n] EXCEPT !.sum = ComputeNoteChecksum(read[n])]])
    /\ UNCHANGED <<row, torn, outrun>>


\* What the plan does with each template.
Ordinal(s, x) == (CHOOSE i \in DOMAIN s : s[i] = x) - 1
Removed(old, new) == ToSet(old) \ ToSet(new)
Added(old, new) == ToSet(new) \ ToSet(old)
Changed(old, new) ==
    {x \in ToSet(old) \cap ToSet(new) : Ordinal(old, x) # Ordinal(new, x)}

CardsFrom(v, S) == {c \in Live(v, Card) : v[c].tmpl \in S}

\* seen is from here on the templates before and after; the ids of those that
\* are inserted by the plan are drawn where something first refers to them.
planTemplates(r) ==
    LET q == tx[r].req
        old == row[q.type].templates
    IN
    /\ tx[r].pc = "planTemplates"
    /\ IF ~Known(q.templates, old)
       THEN Refuse(r)
       ELSE IF q.templates = old
       THEN Commit(r, <<>>) /\ UNCHANGED <<torn, outrun>>
       ELSE /\ Step(r, [pc |-> "offset", seen |-> [old |-> old, new |-> q.templates],
                        scan |-> CardsFrom(row, Changed(old, q.templates))])
            /\ UNCHANGED <<row, torn, outrun>>

\* The cards of a moved template are staged at negative ordinals.
Offset(o) == -(o + 1)

OffsetCardOrdinalsForTemplates(r) ==
    LET p == tx[r].seen
        cards == {c \in tx[r].scan : row[c] # Gone /\ row[c].tmpl \in Changed(p.old, p.new)}
    IN
    /\ tx[r].pc = "offset"
    /\ Lockable(r, tx[r].scan)
    /\ Step(r, [pc |-> "deleteCards",
                dirty |-> [c \in cards |-> [row[c] EXCEPT !.ord = Offset(@)]] ++ tx[r].dirty,
                scan |-> CardsFrom(row, Removed(p.old, p.new))])
    /\ UNCHANGED <<row, torn, outrun>>

DeleteCardsForTemplates(r) ==
    LET p == tx[r].seen
        cards == {c \in tx[r].scan : row[c] # Gone /\ row[c].tmpl \in Removed(p.old, p.new)}
    IN
    /\ tx[r].pc = "deleteCards"
    /\ Lockable(r, tx[r].scan)
    /\ Write(r, "deleteTemplates", [c \in cards |-> Gone])
    /\ UNCHANGED <<row, torn, outrun>>

\* A card made from a removed template since then refuses (ON DELETE RESTRICT).
DeleteTemplatesByIDs(r) ==
    LET q == tx[r].req
        p == tx[r].seen
        v == View(r)
        new == Numbered(p.new, UnusedOf(Template, "templates"))
    IN
    /\ tx[r].pc = "deleteTemplates"
    /\ New \in ToSet(p.new) => UnusedOf(Template, "templates") # {}   \* bound: ids
    /\ IF CardsFrom(v, Removed(p.old, p.new)) # {}
       THEN Refuse(r)
       ELSE /\ Step(r, [pc |-> "addCards", seen |-> [old |-> p.old, new |-> new],
                        dirty |-> [t \in {q.type} |-> [v[t] EXCEPT !.templates = new]] ++ tx[r].dirty,
                        scan |-> [n \in NotesOfType(v, q.type) |-> v[n].home]])
            /\ UNCHANGED <<row, torn, outrun>>

\* One card for each note and added template, unless its ordinal is taken.
\* The statement goes by the note type and the home its snapshot showed.
NewCards(v, notes, p) ==
    {nx \in notes \X Added(p.old, p.new) :
        \A c \in CardsOf(v, nx[1]) : v[c].ord # Ordinal(p.new, nx[2])}

CreateCardsForNewTemplate(r) ==
    LET p == tx[r].seen
        home == tx[r].scan
        pairs == NewCards(View(r), DOMAIN home, p)
        new == Assigned(Unused(Card), pairs)
        Filed(nx) == CreateCard(nx[1], nx[2], Ordinal(p.new, nx[2]), home[nx[1]])
        checked == UNION {{nx[1], home[nx[1]]} : nx \in pairs}
    IN
    /\ tx[r].pc = "addCards"
    /\ Sharable(r, checked)
    /\ IF \E x \in checked : row[x] = Gone
       THEN Refuse(r)
       ELSE /\ Enough(Unused(Card), pairs)
            /\ Step(r, [pc |-> "finalize", share |-> checked,
                        dirty |-> [c \in Range(new) |-> Filed(CHOOSE nx \in pairs : new[nx] = c)]
                                  ++ tx[r].dirty])
            /\ UNCHANGED <<row, torn, outrun>>

\* The final ordinal of every card of a moved template.
Finalized(v, p) ==
    [c \in CardsFrom(v, Changed(p.old, p.new)) |->
        [v[c] EXCEPT !.ord = Ordinal(p.new, v[c].tmpl)]]

\* UNIQUE (note_id, ordinal) is checked row by row: a card that was never
\* staged may or may not have left its ordinal by the time another arrives.
FinalizeCardOrdinalsForTemplates(r) ==
    LET p == tx[r].seen
        v == View(r)
        rows == Finalized(v, p)
        unstaged == \E c \in DOMAIN rows : v[c].ord >= 0 /\ v[c].ord # rows[c].ord
        switched == {n \in DOMAIN tx[r].scan : v[n] # Gone /\ v[n].type # tx[r].req.type}
    IN
    /\ tx[r].pc = "finalize"
    /\ Lockable(r, DOMAIN rows)
    /\ \/ /\ Collide(rows ++ v) \/ unstaged
          /\ Refuse(r)
       \/ /\ ~Collide(rows ++ v)
          /\ Commit(r, rows)
          /\ torn' = torn \cup (IF Added(p.old, p.new) = {} THEN {} ELSE switched)
          /\ UNCHANGED outrun

-----------------------------------------------------------------------------
(* Requests of a single statement, or of inserts nobody else can see.      *)

\* A name that is taken is a conflict.
CreateDeckWithAccess(r) ==
    /\ Sends(r, "newdeck")
    /\ \E d \in Deck : row[d] = Gone /\ CanEdit(r, d) /\ Commit(r, [x \in {d} |-> "live"])
    /\ UNCHANGED <<torn, outrun>>

NewType(fields, templates) == [fields |-> fields, templates |-> templates]

CreateNoteTypeWithFieldsAndTemplates(r) ==
    /\ Sends(r, "newtype")
    /\ \E t \in Type, f \in UnusedOf(Field, "fields"), x \in UnusedOf(Template, "templates") :
        /\ row[t] = Gone /\ OwnerOf[t] = UserOf[r]
        /\ Commit(r, [k \in {t} |-> NewType(<<f>>, <<x>>)])
    /\ UNCHANGED <<torn, outrun>>

\* A note that uses it refuses (ON DELETE RESTRICT); its owner alone may.
Referenced(t) == NotesOfType(row, t) # {} \/ CardsFrom(row, ToSet(row[t].templates)) # {}

DeleteNoteType(r) ==
    /\ Sends(r, "deltype")
    /\ \E t \in Live(row, Type) :
        /\ OwnerOf[t] = UserOf[r]
        /\ Lockable(r, {t})
        /\ IF Referenced(t)
           THEN Refuse(r)
           ELSE Commit(r, [k \in {t} |-> Gone]) /\ UNCHANGED <<torn, outrun>>

\* Any statement of a transaction may fail, and a deadlock's victim does: the
\* deferred Rollback undoes the request.
Rollback(r) == tx[r].pc \notin {"new", "over"} /\ Refuse(r)

Resting == (\A r \in Request : tx[r].pc = "over") /\ UNCHANGED vars

Handle(r) ==
    \/ GetNewNote(r) \/ GetNoteEdit(r) \/ GetNoteTypeEdit(r) \/ PostIds(r)
    \/ PostNoteTemplates(r) \/ PostNoteFields(r)
    \/ CreateNote(r) \/ LockNoteForContentEdit(r) \/ UpdateNoteContent(r)
    \/ ListCardsForNoteForUpdate(r) \/ SyncNoteCards(r)
    \/ MoveNoteToDeck(r) \/ MoveNoteCardsFromDeck(r) \/ DeleteNote(r)
    \/ LockDeckForDelete(r) \/ ScanOrphans(r) \/ DeleteNotesOrphanedByDeckDelete(r)
    \/ ScanHomeless(r) \/ RehomeNotesOffDeck(r) \/ DeleteDeckRow(r)
    \/ PostNoteTypeEdit(r) \/ ConfirmStructuralChange(r) \/ LockNoteTypeForEdit(r)
    \/ planFields(r) \/ RemapNoteFields(r)
    \/ ListNoteFieldsForNoteType(r) \/ BulkUpdateNoteChecksums(r) \/ planTemplates(r)
    \/ OffsetCardOrdinalsForTemplates(r) \/ DeleteCardsForTemplates(r)
    \/ DeleteTemplatesByIDs(r) \/ CreateCardsForNewTemplate(r)
    \/ FinalizeCardOrdinalsForTemplates(r)
    \/ CreateDeckWithAccess(r) \/ CreateNoteTypeWithFieldsAndTemplates(r) \/ DeleteNoteType(r)
    \/ Rollback(r)

Next == (\E r \in Request : Handle(r)) \/ Resting

Spec == Init /\ [][Next]_vars

-----------------------------------------------------------------------------
(* Properties.                                                             *)

\* Type: the tables are sound, and the locks are locks on rows.
TypeOK ==
    /\ DOMAIN row = Row /\ Sound(row)
    /\ \A r \in Request : tx[r].excl \cup tx[r].share \cup DOMAIN tx[r].dirty \subseteq Row
    /\ torn \cup outrun \subseteq Note

\* What is committed fits together, whatever edits of notes and note types ran
\* beside each other: references, ordinals and checksums always, templates and
\* values unless the note was last written from a form or a snapshot that a
\* note-type edit, or a change of note type, had already replaced.
\* The checksum is that of the first field although a note-type edit reads the
\* values and writes the checksums in two statements: no note can be edited
\* between them, since the remap has locked the notes and the note type's lock
\* keeps new ones out.
ContentsFit == TypeOK /\ \A n \in Live(row, Note) \ torn : Follows(row, n)

\* A step leaves a note without cards only when it deletes a deck and another
\* request changed that note's other cards between its scan and its commit,
\* or when it removes a template that the note had a card of.
CardlessOnlyIfOutrun ==
    [][\A n \in Note : row'[n] # Gone /\ CardsOf(row', n) = {} =>
        \/ row[n] # Gone /\ CardsOf(row, n) = {}
        \/ n \in outrun'
        \/ row[n] # Gone /\ \E c \in CardsOf(row, n) : ~HasTemplate(row', row[c].tmpl)]_vars

\* What deletion.go promises: no note is ever left with zero cards.
NoCardlessNote == \A n \in Live(row, Note) : CardsOf(row, n) # {}

\* A deck deletion takes only notes that have no card in another deck, again
\* unless another request changed their cards since it looked.
DeletionTakesOnlyOrphans ==
    [][\A d \in Live(row, Deck) : row'[d] = Gone =>
        \A n \in Live(row, Note) :
            row'[n] = Gone => ~Elsewhere(row, n, d) \/ n \in outrun']_vars

\* Deleting a deck takes the notes that have no card elsewhere, those and no
\* others, as far as its own scan can know (deletion.go).
DeletionIsExact == CardlessOnlyIfOutrun /\ DeletionTakesOnlyOrphans

\* A card, and with it every student's schedule, goes only with its note, its
\* deck or its template, or because the edited note no longer wants its
\* ordinal: a sync or a remap never recreates a card that survives.
CardsAreNotDiscarded ==
    [][\A c \in Live(row, Card) : row'[c] = Gone =>
        \/ row'[row[c].note] = Gone
        \/ row'[row[c].deck] = Gone
        \/ ~HasTemplate(row', row[c].tmpl)
        \/ \E r \in Request : /\ tx[r].pc = "syncCards" /\ tx'[r].pc = "over"
                             /\ tx[r].req.note = row[c].note
                             /\ row[c].ord \notin DOMAIN tx[r].seen.want]_vars

\* A card is pointed at another template only when its note changes its note
\* type, or by a note edit that had read the templates before a reorder, or
\* after that, by one that had not.
RepointNeedsTypeChange ==
    [][\A c \in Live(row, Card) :
        row'[c] # Gone /\ row'[c].tmpl # row[c].tmpl =>
            row'[row[c].note].type # row[row[c].note].type \/ row[c].note \in torn \cup torn']_vars

\* A card, and every student's progress on it, outlives the edits of its note
\* and note type, and stays the same question (SyncNoteCards, the remap).
CardsOutliveEdits == CardsAreNotDiscarded /\ RepointNeedsTypeChange

\* A template that has cards is removed only by a request that was confirmed,
\* or whose note type was changed, or used for the first time, after the check.
DiscardIsConfirmed ==
    [][\A r \in Request : tx[r].req.kind = "edittype" /\ tx'[r].pc = "over" =>
        LET t == tx[r].req.type
            lost == ToSet(row[t].templates) \ ToSet(row'[t].templates)
        IN row[t] # Gone /\ row'[t] # Gone /\ CardsFrom(row, lost) # {} =>
               tx[r].req.confirmed \/ tx[r].req.unused \/ tx[r].req.checked # row[t]]_vars

\* What cards.go says of it: an edit that keeps the note type never repoints.
NeverRepoints ==
    [][\A c \in Live(row, Card) :
        row'[c] # Gone /\ row'[c].tmpl # row[c].tmpl =>
            row'[row[c].note].type # row[row[c].note].type]_vars
=============================================================================
