------------------------- MODULE DeckContentsProofs -------------------------
(***************************************************************************)
(* Theorems about decks, notes, cards and note types, for any tables, any  *)
(* number of requests and any interleaving of their statements.            *)
(*                                                                         *)
(* The invariant says of each request what its statements have built up so *)
(* far and what of it the locks it holds keep true, stage by stage.  Its   *)
(* parts are about a table v of committed rows, the notes "lost" that were *)
(* written from something replaced, and one request "me", so that what a   *)
(* commit of another request leaves alone can be said once (Respects).     *)
(***************************************************************************)
EXTENDS DeckContents, FiniteSetTheorems, WellFoundedInduction, TLAPS

-----------------------------------------------------------------------------
(* The inductive invariant.                                                *)

Slots == {"pc", "req", "seen", "scan", "dirty", "excl", "share"}

Shape == DOMAIN tx = Request /\ \A r \in Request : DOMAIN tx[r] = Slots

Dirty(me) == DOMAIN me.dirty
Held(me) == me.excl \cup Dirty(me)

Unlocked == {"new", "over", "readTemplates", "readFields", "createNote", "lockNote",
             "deleteNote", "lockDeck", "postType", "confirm", "lockType"}
Forming == {"postType", "confirm", "lockType"}
Arranging == {"offset", "deleteCards", "deleteTemplates", "addCards", "finalize"}
Remapping == {"remapFields", "listFields", "updateChecksums", "planTemplates"} \cup Arranging
Deleting == {"scanOrphans", "deleteOrphans", "scanHomeless", "rehome", "deleteDeck"}
Writing == {"lockCards", "syncCards"}
Stage == Unlocked \cup Remapping \cup Deleting \cup Writing \cup
         {"planFields", "updateNote", "moveNote", "moveCards"}

Disjoint(s, q) == ToSet(s) \cap ToSet(q) = {}

\* A locked row exists, a row that will be deleted is locked, and so is a note
\* type that will be changed; its templates will not be those of another.
Locks(v, me) ==
    /\ me.pc \in Stage
    /\ me.excl \subseteq Row /\ me.share \subseteq Row /\ Dirty(me) \subseteq Row \ Deck
    /\ \A x \in me.excl \cup me.share : v[x] # Gone
    /\ \A x \in Dirty(me) : me.dirty[x] = Gone => x \in me.excl
    /\ \A t \in Dirty(me) \cap Type :
          /\ t \in me.excl /\ me.dirty[t] # Gone
          /\ \A k \in Live(v, Type) \ {t} : Disjoint(me.dirty[t].templates, v[k].templates)
    /\ me.pc \in Unlocked => me.excl = {} /\ me.share = {} /\ Dirty(me) = {}
    /\ me.pc \in {"new", "over"} => me.req.kind = "none"

\* The locks of two requests exclude each other, and they never come to give
\* two note types the same template.
Apart(me, you) ==
    /\ Held(me) \cap Held(you) = {} /\ me.excl \cap you.share = {} /\ you.excl \cap me.share = {}
    /\ \A t \in Dirty(me) \cap Type, k \in Dirty(you) \cap Type :
          Disjoint(me.dirty[t].templates, you.dirty[k].templates)

\* Values that fit these fields.
Fitting(vals, fields) ==
    /\ Len(vals) = Len(fields)
    /\ \A i \in DOMAIN fields : vals[i] = Empty \/ vals[i][1] = fields[i]

\* What a form of a note, and then its templates, say.
NoteForm(me) ==
    LET q == me.req IN
    /\ {"kind", "type", "marks"} \subseteq DOMAIN q /\ "fields" \in DOMAIN me.seen
    /\ q.kind \in {"create", "edit"} /\ q.type \in Type
    /\ q.marks \subseteq Ordinals /\ q.marks # {}
    /\ q.kind = "create" => "deck" \in DOMAIN q /\ q.deck \in Deck
    /\ q.kind = "edit" => "note" \in DOMAIN q /\ q.note \in Note
    /\ me.seen.fields \in Seq(Field) /\ me.seen.fields # <<>>

NoteWanted(me) ==
    LET want == me.seen.want IN
    /\ "want" \in DOMAIN me.seen
    /\ DOMAIN want \subseteq Nat /\ DOMAIN want # {} /\ \A o \in DOMAIN want : want[o] \in Template

\* The note as it will be, and its locks.
NoteWritten(v, me) ==
    LET n == me.req.note
        note == me.dirty[n]
    IN /\ n \in Note /\ Dirty(me) = {n} /\ note \in NoteRow
       /\ note.type = me.req.type
       /\ note.vals # <<>> /\ Fitting(note.vals, me.seen.fields)
       /\ note.sum = ComputeNoteChecksum(note.vals)
       /\ \/ v[n] = Gone /\ note.home \in me.share /\ note.type \in me.share
          \/ /\ v[n] # Gone /\ n \in me.excl /\ note.home = v[n].home
             /\ note.type = v[n].type \/ note.type \in me.share

NoteInv(v, me) ==
    /\ me.pc \in {"readTemplates", "readFields", "createNote", "updateNote"} \cup Writing => NoteForm(me)
    /\ me.pc \in {"readFields", "createNote", "updateNote"} \cup Writing => NoteWanted(me)
    /\ me.pc = "createNote" => me.req.kind = "create"
    /\ me.pc = "lockNote" => /\ me.req.note \in Note
                             /\ \/ me.req.kind = "move" /\ me.req.deck \in Deck
                                \/ me.req.kind = "edit" /\ NoteForm(me) /\ NoteWanted(me)
    /\ me.pc = "updateNote" => /\ me.req.kind = "edit" /\ me.excl = {me.req.note}
                               /\ me.share = {} /\ Dirty(me) = {}
    /\ me.pc \in Writing => NoteWritten(v, me)
    /\ me.pc = "syncCards" => CardsOf(v, me.req.note) \subseteq me.excl

MoveInv(v, me) ==
    LET n == me.req.note
        d == me.req.deck
    IN
    /\ me.pc = "deleteNote" => n \in Note /\ me.req.kind = "delnote"
    /\ me.pc \in {"moveNote", "moveCards"} =>
          n \in Note /\ d \in Deck /\ me.req.kind = "move" /\ me.excl = {n}
    /\ me.pc = "moveNote" => me.share = {} /\ Dirty(me) = {}
    /\ me.pc = "moveCards" => /\ me.share = {d} /\ Dirty(me) = {n}
                              /\ me.dirty[n] = [v[n] EXCEPT !.home = d]

\* The notes that are to be deleted.
Doomed(me, n) ==
    IF me.pc = "deleteOrphans" THEN n \in DOMAIN me.scan /\ me.scan[n]
    ELSE n \in Dirty(me) /\ me.dirty[n] = Gone

\* A note all of whose cards are in the deck, as far as the scan could know, is
\* doomed, and only such a note is.
DeckInv(v, me) ==
    LET d == me.req.deck IN
    /\ me.pc \in Deleting \cup {"lockDeck"} => d \in Deck /\ me.req.kind = "deldeck"
    /\ me.pc \in Deleting => d \in me.excl
    /\ me.pc \in {"scanOrphans", "deleteOrphans"} => me.share = {} /\ Dirty(me) = {}
    /\ me.pc = "deleteOrphans" => /\ DOMAIN me.scan \subseteq Note
                                  /\ \A n \in DOMAIN me.scan : me.seen[n] = {}
    /\ me.pc \in Deleting \ {"scanOrphans"} =>
          \A n \in Live(v, Note) : me.seen[n] = {} /\ Here(v, n, d) => Doomed(me, n)
    /\ me.pc \in {"scanHomeless", "rehome"} => me.share = {} /\ \A x \in Dirty(me) : me.dirty[x] = Gone
    /\ me.pc \in {"scanHomeless", "rehome", "deleteDeck"} =>
          /\ Dirty(me) \subseteq Live(v, Note \cup Card)
          /\ \A c \in Dirty(me) \cap Card : /\ me.dirty[c] = Gone /\ v[c].note \in Dirty(me)
                                            /\ me.dirty[v[c].note] = Gone
          /\ \A n \in Dirty(me) \cap Note :
                \/ me.dirty[n] = Gone /\ me.seen[n] = {} /\ CardsOf(v, n) \subseteq Dirty(me)
                \/ /\ me.dirty[n].home \in me.share \cap Deck
                   /\ me.dirty[n] = [v[n] EXCEPT !.home = me.dirty[n].home]
    /\ me.pc = "rehome" => /\ DOMAIN me.scan \subseteq Note
                           /\ \A n \in DOMAIN me.scan : me.scan[n] \in Deck \cup {Gone}

\* The form of a note type.
TypeForm(q) ==
    /\ {"kind", "type", "fields", "templates", "confirmed"} \subseteq DOMAIN q
    /\ q.kind = "edittype" /\ q.type \in Type /\ q.confirmed \in BOOLEAN
    /\ q.fields \in Seq(Field \cup {New}) /\ q.fields # <<>>
    /\ q.templates \in Seq(Template \cup {New}) /\ q.templates # <<>>
    /\ IsInjective(q.templates)

\* An edit that was not confirmed only appends, as far as its check could know.
Confirmed(q) ==
    q.confirmed \/ q.unused \/ ~OrderChanged(q.checked.templates, q.templates)

\* Where each field comes from.
Planned(kept, old, new) ==
    /\ DOMAIN kept = DOMAIN new
    /\ \A i \in DOMAIN new :
          \/ kept[i] = -1
          \/ kept[i] \in Nat /\ kept[i] + 1 \in DOMAIN old /\ old[kept[i] + 1] = new[i]

\* The note as it will be fits the fields as they will be.
Refitted(v, lost, me, n) ==
    LET t == me.req.type
        note == me.dirty[n]
    IN /\ v[n] # Gone /\ v[n].type = t
       /\ note \in NoteRow /\ note.vals # <<>>
       /\ note.home = v[n].home /\ note.type = t
       /\ n \notin lost => Fitting(note.vals, me.dirty[t].fields)
       /\ me.pc \notin {"listFields", "updateChecksums"} => note.sum = ComputeNoteChecksum(note.vals)

\* The fields were the same, or all notes of the type have been rewritten.
FieldsInv(v, lost, me) ==
    LET t == me.req.type IN
    /\ t \in Dirty(me) /\ Dirty(me) \subseteq {t} \cup Note \cup Card
    /\ me.dirty[t] \in TypeRow /\ me.dirty[t].fields # <<>>
    /\ me.pc \notin {"addCards", "finalize"} => me.dirty[t].templates = v[t].templates
    /\ me.pc = "remapFields" =>
          /\ Dirty(me) = {t} /\ me.scan \subseteq Note /\ NotesOfType(v, t) \subseteq me.scan
          /\ Planned(me.seen, v[t].fields, me.dirty[t].fields)
    /\ me.pc # "remapFields" =>
          \/ me.dirty[t].fields = v[t].fields /\ Dirty(me) \cap Note = {}
          \/ NotesOfType(v, t) \subseteq Dirty(me)
    /\ \A n \in Dirty(me) \cap Note : Refitted(v, lost, me, n)
    /\ me.pc \in {"listFields", "updateChecksums"} => NotesOfType(v, t) \subseteq Dirty(me)
    /\ me.pc = "updateChecksums" =>
          /\ DOMAIN me.scan = Dirty(me) \cap Note
          /\ \A n \in DOMAIN me.scan : me.scan[n] = me.dirty[n].vals
    /\ me.pc \notin Arranging \ {"offset"} => Dirty(me) \cap Card = {}
    /\ me.pc # "finalize" => me.share = {}

\* The cards of a moved template are staged, those of a removed one deleted.
Staged(v, me, c) ==
    LET p == me.seen IN
    \/ me.dirty[c] = Gone /\ v[c].tmpl \in Removed(p.old, p.new)
    \/ me.dirty[c] = [v[c] EXCEPT !.ord = Offset(@)] /\ v[c].tmpl \in Changed(p.old, p.new)

\* The new card of a note, for an added template.
Made(me, c) ==
    LET p == me.seen
        card == me.dirty[c]
    IN /\ card \in CardRow
       /\ card.note \in DOMAIN me.scan \cap me.share /\ card.deck \in me.share
       /\ card.tmpl \in Added(p.old, p.new) /\ card.ord = Ordinal(p.new, card.tmpl)

\* The templates as they will be.
Arranged(v, me) ==
    LET q == me.req
        p == me.seen
    IN /\ p.new = me.dirty[q.type].templates /\ p.new # <<>> /\ IsInjective(p.new)
       /\ q.type \in Cloze => Len(p.new) = 1
       /\ ToSet(q.templates) \subseteq ToSet(p.new) \cup {New}
       /\ CardsFrom(me.dirty ++ v, Removed(p.old, p.new)) = {}
       /\ DOMAIN me.scan \subseteq Note /\ \A n \in DOMAIN me.scan : me.scan[n] \in Deck

TemplatesInv(v, me) ==
    LET p == me.seen IN
    /\ p.old = v[me.req.type].templates
    /\ me.pc \in {"offset", "deleteCards"} => me.scan \subseteq Card
    /\ me.pc \notin {"addCards", "finalize"} => p.new = me.req.templates /\ Known(p.new, p.old)
    /\ \A c \in Dirty(me) \cap Card :
          \/ v[c] # Gone /\ Staged(v, me, c)
          \/ v[c] = Gone /\ me.pc = "finalize" /\ Made(me, c)
    /\ me.pc \in {"addCards", "finalize"} => Arranged(v, me)

TypeInv(v, lost, me) ==
    LET q == me.req IN
    /\ me.pc \in Forming \cup {"planFields"} \cup Remapping => TypeForm(q)
    /\ me.pc \in {"lockType", "planFields"} \cup Remapping => Confirmed(q)
    /\ me.pc \in {"planFields"} \cup Remapping => q.type \in me.excl /\ (q.type \in Cloze => Len(q.templates) = 1)
    /\ me.pc = "planFields" => me.share = {} /\ Dirty(me) = {}
    /\ me.pc \in Remapping => FieldsInv(v, lost, me)
    /\ me.pc \in Arranging => TemplatesInv(v, me)

Tables(v, lost) ==
    /\ DOMAIN v = Row /\ Sound(v) /\ lost \subseteq Note
    /\ \A n \in Live(v, Note) \ lost : Follows(v, n)

Local(v, lost, me) ==
    Locks(v, me) /\ NoteInv(v, me) /\ MoveInv(v, me) /\ DeckInv(v, me) /\ TypeInv(v, lost, me)

Inv ==
    /\ Shape /\ Tables(row, torn) /\ outrun \subseteq Note
    /\ \A r \in Request : Local(row, torn, tx[r])
    /\ \A r, u \in Request : r # u => Apart(tx[r], tx[u])

-----------------------------------------------------------------------------
(* Overlays, steps and requests.                                           *)

\* What a step of a request does to its record and to the others'.
LEMMA StepEffect ==
    ASSUME Shape, NEW u \in Request, NEW change, DOMAIN change \subseteq Slots, Step(u, change)
    PROVE  /\ Shape'
           /\ \A r \in Request \ {u} : tx'[r] = tx[r]
           /\ \A k \in DOMAIN change : tx'[u][k] = change[k]
           /\ \A k \in Slots \ DOMAIN change : tx'[u][k] = tx[u][k]
  <1>1. tx'[u] = change ++ tx[u] /\ DOMAIN tx' = Request /\ \A r \in Request \ {u} : tx'[r] = tx[r]
    BY DEF Shape, Step
  <1>2. DOMAIN tx[u] = Slots
    BY DEF Shape
  <1>3. DOMAIN tx'[u] = Slots
    BY <1>1, <1>2 DEF ++
  <1>4. Shape'
    BY <1>1, <1>3 DEF Shape
  <1> QED BY <1>1, <1>2, <1>4 DEF ++

LEMMA OverEffect ==
    ASSUME Shape, NEW u \in Request, tx' = [tx EXCEPT ![u] = Over]
    PROVE  Shape' /\ tx'[u] = Over /\ \A r \in Request \ {u} : tx'[r] = tx[r]
  <1>1. DOMAIN Over = Slots
    BY DEF Over, Fresh, Slots
  <1> QED BY <1>1 DEF Shape

LEMMA Idle ==
    /\ Fresh.pc = "new" /\ Over.pc = "over" /\ Fresh.req.kind = "none" /\ Over.req.kind = "none"
    /\ \A me \in {Fresh, Over} : me.excl = {} /\ me.share = {} /\ Dirty(me) = {}
  BY DEF Fresh, Over, Nothing, Dirty

LEMMA IdleLocal ==
    ASSUME NEW v, NEW lost, NEW me \in {Fresh, Over}
    PROVE  Local(v, lost, me)
  <1>1. /\ me.pc \in {"new", "over"} /\ me.req.kind = "none"
        /\ me.excl = {} /\ me.share = {} /\ Dirty(me) = {}
    BY Idle
  <1>2. Locks(v, me)
    BY <1>1 DEF Locks, Stage, Unlocked
  <1>3. NoteInv(v, me) /\ MoveInv(v, me)
    BY <1>1 DEF NoteInv, MoveInv, Writing
  <1>4. DeckInv(v, me)
    BY <1>1 DEF DeckInv, Deleting
  <1>5. TypeInv(v, lost, me)
    BY <1>1 DEF TypeInv, Forming, Remapping, Arranging
  <1> QED BY <1>2, <1>3, <1>4, <1>5 DEF Local

LEMMA IdleApart ==
    ASSUME NEW me \in {Fresh, Over}, NEW you
    PROVE  Apart(me, you) /\ Apart(you, me)
  BY Idle DEF Apart, Held

LEMMA ApartBoth ==
    ASSUME NEW me, NEW you, Apart(me, you)
    PROVE  Apart(you, me)
  BY DEF Apart, Disjoint

\* A step that commits nothing.
LEMMA Quiet ==
    ASSUME Inv, NEW u \in Request, Shape', UNCHANGED <<row, torn, outrun>>,
           \A r \in Request \ {u} : tx'[r] = tx[r],
           Local(row, torn, tx'[u]),
           \A r \in Request \ {u} : Apart(tx'[u], tx[r])
    PROVE  Inv'
  <1>1. Tables(row', torn') /\ outrun' \subseteq Note
    BY DEF Inv
  <1>2. ASSUME NEW r \in Request PROVE Local(row', torn', tx'[r])
    <2>1. CASE r = u
      BY <2>1
    <2>2. CASE r # u
      BY <2>2 DEF Inv
    <2> QED BY <2>1, <2>2
  <1>3. ASSUME NEW r \in Request, NEW w \in Request, r # w PROVE Apart(tx'[r], tx'[w])
    <2>1. CASE r = u
      BY <2>1, <1>3
    <2>2. CASE w = u
      BY <2>2, <1>3, ApartBoth
    <2>3. CASE r # u /\ w # u
      BY <2>3, <1>3 DEF Inv
    <2> QED BY <2>1, <2>2, <2>3
  <1> QED BY <1>1, <1>2, <1>3 DEF Inv

LEMMA Refused ==
    ASSUME Inv, NEW u \in Request, Refuse(u)
    PROVE  Inv' /\ UNCHANGED <<row, torn, outrun>> /\ tx'[u] = Over /\ \A r \in Request \ {u} : tx'[r] = tx[r]
  <1>1. Shape' /\ tx'[u] = Over /\ \A r \in Request \ {u} : tx'[r] = tx[r]
    BY OverEffect DEF Inv, Refuse
  <1> QED BY <1>1, IdleLocal, IdleApart, Quiet DEF Refuse

-----------------------------------------------------------------------------
(* What a commit leaves alone for another request.                         *)

\* The rows w that replace v, and the notes "then" that are lost by then.
Respects(v, w, lost, then, me) ==
    /\ \A x \in Held(me) : w[x] = v[x]
    /\ \A x \in me.share : w[x] # Gone
    /\ Held(me) \cap lost \subseteq then
    /\ \A c \in Live(w, Card) :
          /\ IF v[c] = Gone THEN w[c].note \notin me.excl ELSE w[c].note = v[c].note
          /\ (v[c] # Gone /\ w[c].deck = v[c].deck) \/ w[c].deck \notin me.excl
          /\ \/ v[c] # Gone /\ w[c].tmpl = v[c].tmpl
             \/ \A t \in Dirty(me) \cap Type :
                   w[c].tmpl \notin Removed(v[t].templates, me.dirty[t].templates)
    /\ \A n \in Live(w, Note) : (v[n] # Gone /\ w[n].type = v[n].type) \/ w[n].type \notin me.excl
    /\ \A k \in Live(w, Type) :
          \/ v[k] # Gone /\ w[k].templates = v[k].templates
          \/ \A t \in Dirty(me) \cap Type : Disjoint(me.dirty[t].templates, w[k].templates)

LEMMA LocksStay ==
    ASSUME NEW v, NEW w, NEW lost, NEW then, NEW me,
           Locks(v, me), Respects(v, w, lost, then, me)
    PROVE  Locks(w, me)
  <1>1. \A x \in me.excl \cup me.share : w[x] # Gone
    BY DEF Locks, Respects, Held
  <1>2. ASSUME NEW t \in Dirty(me) \cap Type, NEW k \in Live(w, Type) \ {t}
        PROVE  Disjoint(me.dirty[t].templates, w[k].templates)
    <2>1. CASE v[k] # Gone /\ w[k].templates = v[k].templates
      BY <2>1 DEF Locks, Live
    <2>2. CASE \A s \in Dirty(me) \cap Type : Disjoint(me.dirty[s].templates, w[k].templates)
      BY <2>2
    <2> QED BY <2>1, <2>2 DEF Respects
  <1> QED BY <1>1, <1>2 DEF Locks

LEMMA NoteStays ==
    ASSUME NEW v, NEW w, NEW lost, NEW then, NEW me, DOMAIN w = Row, Sound(w),
           NoteInv(v, me), Respects(v, w, lost, then, me)
    PROVE  NoteInv(w, me)
  <1>1. ASSUME NoteWritten(v, me) PROVE NoteWritten(w, me)
    BY <1>1 DEF NoteWritten, Respects, Held
  <1>2. ASSUME NoteWritten(v, me), CardsOf(v, me.req.note) \subseteq me.excl
        PROVE  CardsOf(w, me.req.note) \subseteq me.excl
    <2> SUFFICES ASSUME NEW c \in Live(w, Card), w[c].note = me.req.note PROVE c \in me.excl
      BY DEF CardsOf
    <2>1. w[me.req.note] # Gone
      BY DEF Sound
    <2>2. v[me.req.note] # Gone
      BY <2>1, <1>2 DEF NoteWritten, Respects, Held
    <2>3. me.req.note \in me.excl
      BY <2>2, <1>2 DEF NoteWritten
    <2>4. v[c] # Gone /\ v[c].note = me.req.note
      BY <2>3 DEF Respects
    <2> QED BY <2>4, <1>2 DEF CardsOf, Live
  <1> QED BY <1>1, <1>2 DEF NoteInv, Writing

LEMMA MoveStays ==
    ASSUME NEW v, NEW w, NEW lost, NEW then, NEW me,
           MoveInv(v, me), Respects(v, w, lost, then, me)
    PROVE  MoveInv(w, me)
  BY DEF MoveInv, Respects, Held

LEMMA DeckStays ==
    ASSUME NEW v, NEW w, NEW lost, NEW then, NEW me, Sound(v), Locks(v, me),
           DeckInv(v, me), Respects(v, w, lost, then, me)
    PROVE  DeckInv(w, me)
  <1> DEFINE d == me.req.deck
  <1>1. ASSUME me.pc \in Deleting, NEW n \in Live(w, Note), Here(w, n, d)
        PROVE  n \in Live(v, Note) /\ Here(v, n, d)
    <2>1. PICK c \in Live(w, Card) : w[c].note = n /\ w[c].deck = d
      BY <1>1 DEF Here, CardsOf
    <2>2. d \in me.excl
      BY <1>1 DEF DeckInv
    <2>3. v[c] # Gone /\ v[c].note = n /\ v[c].deck = d
      BY <2>1, <2>2 DEF Respects
    <2>4. v[n] # Gone
      BY <2>3 DEF Sound, Live
    <2> QED BY <2>3, <2>4 DEF Here, CardsOf, Live
  <1>2. ASSUME me.pc \in Deleting \ {"scanOrphans"},
               NEW n \in Live(w, Note), me.seen[n] = {}, Here(w, n, d)
        PROVE  Doomed(me, n)
    BY <1>1, <1>2 DEF DeckInv
  <1>3. ASSUME me.pc \in {"scanHomeless", "rehome", "deleteDeck"}
        PROVE  /\ Dirty(me) \subseteq Live(w, Note \cup Card)
               /\ \A c \in Dirty(me) \cap Card : /\ me.dirty[c] = Gone /\ w[c].note \in Dirty(me)
                                                 /\ me.dirty[w[c].note] = Gone
    BY <1>3 DEF DeckInv, Respects, Held, Live
  <1>4. ASSUME me.pc \in {"scanHomeless", "rehome", "deleteDeck"}, NEW n \in Dirty(me) \cap Note
        PROVE  \/ me.dirty[n] = Gone /\ me.seen[n] = {} /\ CardsOf(w, n) \subseteq Dirty(me)
               \/ /\ me.dirty[n].home \in me.share \cap Deck
                  /\ me.dirty[n] = [w[n] EXCEPT !.home = me.dirty[n].home]
    <2>1. CASE me.dirty[n] = Gone /\ me.seen[n] = {} /\ CardsOf(v, n) \subseteq Dirty(me)
      <3>1. n \in me.excl
        BY <2>1 DEF Locks
      <3>2. CardsOf(w, n) \subseteq CardsOf(v, n)
        BY <3>1 DEF CardsOf, Live, Respects
      <3> QED BY <2>1, <3>2
    <2>2. CASE /\ me.dirty[n].home \in me.share \cap Deck
               /\ me.dirty[n] = [v[n] EXCEPT !.home = me.dirty[n].home]
      <3>1. w[n] = v[n]
        BY DEF Respects, Held
      <3> QED BY <2>2, <3>1
    <2> QED BY <1>4, <2>1, <2>2 DEF DeckInv
  <1> QED BY <1>2, <1>3, <1>4 DEF DeckInv, Deleting

LEMMA TypeStays ==
    ASSUME NEW v, NEW w, NEW lost, NEW then, NEW me, Locks(v, me),
           DOMAIN v = Row, DOMAIN w = Row, TypeInv(v, lost, me), Respects(v, w, lost, then, me)
    PROVE  TypeInv(w, then, me)
  <1> DEFINE t == me.req.type
  <1> SUFFICES ASSUME me.pc \in Remapping PROVE FieldsInv(w, then, me) /\ (me.pc \in Arranging => TemplatesInv(w, me))
    BY DEF TypeInv, Remapping
  <1>1. FieldsInv(v, lost, me) /\ t \in me.excl /\ t \in Dirty(me) /\ t \in Type
    BY DEF TypeInv, FieldsInv, TypeForm
  <1>2. w[t] = v[t] /\ \A n \in Dirty(me) : w[n] = v[n]
    BY <1>1 DEF Respects, Held
  <1>3. NotesOfType(w, t) \subseteq NotesOfType(v, t)
    BY <1>1 DEF NotesOfType, Live, Respects
  <1>4. ASSUME NEW n \in Dirty(me) \cap Note PROVE Refitted(w, then, me, n)
    <2>1. Refitted(v, lost, me, n)
      BY <1>1 DEF FieldsInv
    <2>2. n \notin then => n \notin lost
      BY DEF Respects, Held
    <2> QED BY <2>1, <2>2, <1>2 DEF Refitted
  <1>5. FieldsInv(w, then, me)
    BY <1>1, <1>2, <1>3, <1>4 DEF FieldsInv
  <1>6. ASSUME me.pc \in Arranging PROVE TemplatesInv(w, me)
    <2> DEFINE p == me.seen
    <2>1. TemplatesInv(v, me) /\ p.old = v[t].templates
      BY <1>6 DEF TypeInv, TemplatesInv
    <2>2. ASSUME NEW c \in Dirty(me) \cap Card
          PROVE  \/ w[c] # Gone /\ Staged(w, me, c)
                 \/ w[c] = Gone /\ me.pc = "finalize" /\ Made(me, c)
      BY <2>1, <1>2 DEF TemplatesInv, Staged
    <2>3. ASSUME Arranged(v, me) PROVE CardsFrom(me.dirty ++ w, Removed(p.old, p.new)) = {}
      <3> SUFFICES ASSUME NEW c \in Card, (me.dirty ++ w)[c] # Gone,
                          (me.dirty ++ w)[c].tmpl \in Removed(p.old, p.new)
                   PROVE  FALSE
        BY DEF CardsFrom, Live
      <3>1. \A x \in Card : (me.dirty ++ v)[x] # Gone => (me.dirty ++ v)[x].tmpl \notin Removed(p.old, p.new)
        BY <2>3 DEF Arranged, CardsFrom, Live
      <3>2. c \in DOMAIN v /\ c \in DOMAIN w
        BY DEF Row
      <3>3. CASE c \in Dirty(me)
        BY <3>1, <3>3 DEF ++, Dirty
      <3>4. CASE c \notin Dirty(me)
        <4>1. (me.dirty ++ w)[c] = w[c] /\ (me.dirty ++ v)[c] = v[c]
          BY <3>2, <3>4 DEF ++, Dirty
        <4>2. w[c].tmpl \notin Removed(v[t].templates, me.dirty[t].templates) \/ (v[c] # Gone /\ w[c].tmpl = v[c].tmpl)
          BY <4>1, <1>1 DEF Respects, Live
        <4> QED BY <3>1, <4>1, <4>2, <2>1, <2>3 DEF Arranged
      <3> QED BY <3>3, <3>4
    <2>4. ASSUME Arranged(v, me) PROVE Arranged(w, me)
      BY <2>3, <2>4 DEF Arranged
    <2> QED BY <2>1, <2>2, <2>4, <1>2 DEF TemplatesInv
  <1> QED BY <1>5, <1>6

LEMMA LocalStays ==
    ASSUME NEW v, NEW w, NEW lost, NEW then, NEW me, Tables(v, lost), Tables(w, then),
           Local(v, lost, me), Respects(v, w, lost, then, me)
    PROVE  Local(w, then, me)
  <1>1. Sound(v) /\ Sound(w) /\ DOMAIN v = Row /\ DOMAIN w = Row
    BY DEF Tables
  <1> QED BY <1>1, LocksStay, NoteStays, MoveStays, DeckStays, TypeStays DEF Local

\* A step that commits.
LEMMA Committed ==
    ASSUME Inv, NEW u \in Request, Shape', tx'[u] = Over,
           \A r \in Request \ {u} : tx'[r] = tx[r],
           Tables(row', torn'), outrun' \subseteq Note,
           \A r \in Request \ {u} : Respects(row, row', torn, torn', tx[r])
    PROVE  Inv'
  <1>1. ASSUME NEW r \in Request PROVE Local(row', torn', tx'[r])
    <2>1. CASE r = u
      BY <2>1, IdleLocal
    <2>2. CASE r # u
      BY <2>2, LocalStays DEF Inv
    <2> QED BY <2>1, <2>2
  <1>2. ASSUME NEW r \in Request, NEW w \in Request, r # w PROVE Apart(tx'[r], tx'[w])
    <2>1. CASE r = u \/ w = u
      BY <2>1, IdleApart
    <2>2. CASE r # u /\ w # u
      BY <2>2, <1>2 DEF Inv
    <2> QED BY <2>1, <2>2
  <1> QED BY <1>1, <1>2 DEF Inv

-----------------------------------------------------------------------------
(* Steps that commit nothing: what is common to them.                      *)

Noting == {"readTemplates", "readFields", "createNote", "lockNote", "updateNote"} \cup Writing
Moving == {"deleteNote", "moveNote", "moveCards"}
Editing == Forming \cup {"planFields"} \cup Remapping

LEMMA Unconcerned ==
    ASSUME NEW v, NEW lost, NEW me
    PROVE  /\ me.pc \notin Noting => NoteInv(v, me)
           /\ me.pc \notin Moving => MoveInv(v, me)
           /\ me.pc \notin Deleting \cup {"lockDeck"} => DeckInv(v, me)
           /\ me.pc \notin Editing => TypeInv(v, lost, me)
  <1>1. me.pc \notin Noting => NoteInv(v, me)
    BY DEF Noting, Writing, NoteInv
  <1>2. me.pc \notin Moving => MoveInv(v, me)
    BY DEF Moving, MoveInv
  <1>3. me.pc \notin Deleting \cup {"lockDeck"} => DeckInv(v, me)
    BY DEF Deleting, DeckInv
  <1>4. me.pc \notin Editing => TypeInv(v, lost, me)
    BY DEF Editing, Forming, Remapping, Arranging, TypeInv
  <1> QED BY <1>1, <1>2, <1>3, <1>4

\* Kinds of stages exclude each other.
LEMMA StagesApart ==
    ASSUME NEW pc
    PROVE  /\ pc \in Noting => pc \notin Moving \cup Deleting \cup {"lockDeck"} \cup Editing
           /\ pc \in Moving => pc \notin Noting \cup Deleting \cup {"lockDeck"} \cup Editing
           /\ pc \in Deleting \cup {"lockDeck"} => pc \notin Noting \cup Moving \cup Editing
           /\ pc \in Editing => pc \notin Noting \cup Moving \cup Deleting \cup {"lockDeck"}
           /\ pc \in Noting \cup Moving \cup Deleting \cup {"lockDeck"} \cup Editing =>
                 pc \in Stage \ {"new", "over"}
  BY DEF Noting, Writing, Moving, Deleting, Editing, Forming, Remapping, Arranging, Stage, Unlocked

\* The guards in terms of the others' locks.
LEMMA Guards ==
    ASSUME NEW u \in Request, NEW S, NEW r \in Request \ {u}
    PROVE  /\ Lockable(u, S) => S \cap (Held(tx[r]) \cup tx[r].share) = {}
           /\ Updatable(u, S) => S \cap Held(tx[r]) = {}
           /\ Sharable(u, S) => S \cap tx[r].excl = {}
  BY DEF Lockable, Updatable, Sharable, Taken, Held, Dirty

\* New locks were free.
LEMMA Grown ==
    ASSUME Inv, NEW u \in Request, NEW now,
           Lockable(u, now.excl \ tx[u].excl),
           Updatable(u, Dirty(now) \ Held(tx[u])),
           Sharable(u, now.share \ tx[u].share),
           \A t \in Dirty(now) \cap Type :
              \/ t \in Dirty(tx[u]) /\ now.dirty[t].templates = tx[u].dirty[t].templates
              \/ \A r \in Request \ {u} : \A k \in Dirty(tx[r]) \cap Type :
                    Disjoint(now.dirty[t].templates, tx[r].dirty[k].templates),
           NEW r \in Request \ {u}
    PROVE  Apart(now, tx[r])
  <1>1. Apart(tx[u], tx[r])
    BY DEF Inv
  <1>2. /\ (now.excl \ tx[u].excl) \cap (Held(tx[r]) \cup tx[r].share) = {}
        /\ (Dirty(now) \ Held(tx[u])) \cap Held(tx[r]) = {}
        /\ (now.share \ tx[u].share) \cap tx[r].excl = {}
    BY Guards
  <1>3. /\ Held(now) \cap Held(tx[r]) = {}
        /\ now.excl \cap tx[r].share = {} /\ tx[r].excl \cap now.share = {}
    BY <1>1, <1>2 DEF Apart, Held
  <1>4. \A t \in Dirty(now) \cap Type, k \in Dirty(tx[r]) \cap Type :
           Disjoint(now.dirty[t].templates, tx[r].dirty[k].templates)
    BY <1>1 DEF Apart, Disjoint
  <1> QED BY <1>3, <1>4 DEF Apart

LEMMA QuietStep ==
    ASSUME Inv, NEW u \in Request, NEW change, DOMAIN change \subseteq Slots, Step(u, change),
           UNCHANGED <<row, torn, outrun>>, Local(row, torn, tx'[u]),
           \A r \in Request \ {u} : Apart(tx'[u], tx[r])
    PROVE  Inv' /\ row' = row
  <1>1. Shape' /\ \A r \in Request \ {u} : tx'[r] = tx[r]
    BY StepEffect DEF Inv
  <1> QED BY <1>1, Quiet

\* A step that takes no lock and writes nothing.
LEMMA SameLocks ==
    ASSUME Inv, NEW u \in Request, NEW now,
           now.excl = tx[u].excl, now.share = tx[u].share, now.dirty = tx[u].dirty,
           now.pc \in Stage \ {"new", "over"}, now.pc \in Unlocked => tx[u].pc \in Unlocked
    PROVE  Locks(row, now) /\ \A r \in Request \ {u} : Apart(now, tx[r])
  <1>1. Locks(row, tx[u])
    BY DEF Inv, Local
  <1>2. Locks(row, now)
    BY <1>1 DEF Locks, Dirty
  <1>3. ASSUME NEW r \in Request \ {u} PROVE Apart(now, tx[r])
    <2>1. Apart(tx[u], tx[r])
      BY DEF Inv
    <2> QED BY <2>1 DEF Apart, Held, Dirty
  <1> QED BY <1>2, <1>3

-----------------------------------------------------------------------------
(* Opening a form.                                                         *)

LEMMA RowsTyped ==
    ASSUME Inv
    PROVE  /\ \A t \in Live(row, Type) : /\ row[t] \in TypeRow
                                         /\ row[t].fields \in Seq(Field) /\ row[t].fields # <<>>
                                         /\ row[t].templates \in Seq(Template) /\ row[t].templates # <<>>
                                         /\ IsInjective(row[t].templates)
           /\ \A n \in Live(row, Note) : row[n] \in NoteRow /\ row[n].home \in Deck /\ row[n].type \in Type
           /\ \A c \in Live(row, Card) : row[c] \in CardRow /\ row[c].note \in Note
                                         /\ row[c].deck \in Deck /\ row[c].tmpl \in Template
  BY DEF Inv, Tables, Sound, TypeRow, NoteRow, CardRow

LEMMA GetNewNoteKeeps ==
    ASSUME Inv, NEW u \in Request, GetNewNote(u)
    PROVE  Inv' /\ row' = row
  <1> PICK d \in Live(row, Deck), t \in Live(row, Type), marks \in (SUBSET Ordinals) \ {{}} :
        Step(u, [pc |-> "readTemplates", seen |-> [fields |-> row[t].fields],
                 req |-> [kind |-> "create", deck |-> d, type |-> t, marks |-> marks]])
    BY DEF GetNewNote
  <1>1. /\ tx'[u].pc = "readTemplates" /\ tx'[u].seen = [fields |-> row[t].fields]
        /\ tx'[u].req = [kind |-> "create", deck |-> d, type |-> t, marks |-> marks]
        /\ tx'[u].excl = tx[u].excl /\ tx'[u].share = tx[u].share /\ tx'[u].dirty = tx[u].dirty
    BY StepEffect DEF Inv, Slots
  <1>2. NoteForm(tx'[u])
    BY <1>1, RowsTyped DEF NoteForm, Live
  <1>3. tx'[u].pc \in Noting \ Writing /\ tx'[u].pc \in Stage \ {"new", "over"} /\ tx[u].pc \in Unlocked
    BY <1>1 DEF Noting, Writing, Stage, Unlocked, GetNewNote, Sends
  <1>4. NoteInv(row, tx'[u])
    BY <1>1, <1>2 DEF NoteInv, Writing
  <1>5. Locks(row, tx'[u]) /\ \A r \in Request \ {u} : Apart(tx'[u], tx[r])
    BY <1>1, <1>3, SameLocks
  <1>6. Local(row, torn, tx'[u])
    BY <1>3, <1>4, <1>5, Unconcerned, StagesApart DEF Local
  <1> QED BY <1>5, <1>6, QuietStep DEF GetNewNote, Slots

LEMMA GetNoteEditKeeps ==
    ASSUME Inv, NEW u \in Request, GetNoteEdit(u)
    PROVE  Inv' /\ row' = row
  <1> PICK n \in Live(row, Note), to \in Live(row, Type), marks \in (SUBSET Ordinals) \ {{}} :
        Step(u, [pc |-> "readTemplates", seen |-> [fields |-> row[row[n].type].fields],
                 req |-> [kind |-> "edit", note |-> n, type |-> to, marks |-> marks]])
    BY DEF GetNoteEdit
  <1>1. /\ tx'[u].pc = "readTemplates" /\ tx'[u].seen = [fields |-> row[row[n].type].fields]
        /\ tx'[u].req = [kind |-> "edit", note |-> n, type |-> to, marks |-> marks]
        /\ tx'[u].excl = tx[u].excl /\ tx'[u].share = tx[u].share /\ tx'[u].dirty = tx[u].dirty
    BY StepEffect DEF Inv, Slots
  <1>2. NoteForm(tx'[u])
    <2>1. row[n].type \in Live(row, Type)
      BY RowsTyped DEF Inv, Tables, Sound, Live
    <2> QED BY <1>1, <2>1, RowsTyped DEF NoteForm, Live
  <1>3. tx'[u].pc \in Noting \ Writing /\ tx'[u].pc \in Stage \ {"new", "over"} /\ tx[u].pc \in Unlocked
    BY <1>1 DEF Noting, Writing, Stage, Unlocked, GetNoteEdit, Sends
  <1>4. NoteInv(row, tx'[u])
    BY <1>1, <1>2 DEF NoteInv, Writing
  <1>5. Locks(row, tx'[u]) /\ \A r \in Request \ {u} : Apart(tx'[u], tx[r])
    BY <1>1, <1>3, SameLocks
  <1>6. Local(row, torn, tx'[u])
    BY <1>3, <1>4, <1>5, Unconcerned, StagesApart DEF Local
  <1> QED BY <1>5, <1>6, QuietStep DEF GetNoteEdit, Slots

LEMMA RearrangedIs ==
    ASSUME NEW S, NEW s \in Seq(S), NEW q \in Rearranged(s)
    PROVE  q \in Seq(S \cup {New}) /\ q # <<>> /\ IsInjective(q)
  <1>1. q \in SeqOf(ToSet(s) \cup {New}, Len(s) + 1) /\ q # <<>> /\ IsInjective(q)
    BY DEF Rearranged
  <1>2. PICK m \in 0 .. Len(s) + 1 : q \in [1 .. m -> ToSet(s) \cup {New}]
    BY <1>1 DEF SeqOf
  <1>3. ToSet(s) \subseteq S
    BY DEF ToSet
  <1>4. m \in Nat /\ q \in [1 .. m -> S \cup {New}]
    BY <1>2, <1>3
  <1> QED BY <1>1, <1>4

LEMMA GetNoteTypeEditKeeps ==
    ASSUME Inv, NEW u \in Request, GetNoteTypeEdit(u)
    PROVE  Inv' /\ row' = row
  <1> PICK t \in Live(row, Type) :
        \E fs \in Rearranged(row[t].fields), ts \in Rearranged(row[t].templates) :
            Step(u, [pc |-> "postType",
                     req |-> [kind |-> "edittype", type |-> t, fields |-> fs, templates |-> ts,
                              confirmed |-> FALSE]])
    BY DEF GetNoteTypeEdit
  <1> PICK fs \in Rearranged(row[t].fields), ts \in Rearranged(row[t].templates) :
        Step(u, [pc |-> "postType",
                 req |-> [kind |-> "edittype", type |-> t, fields |-> fs, templates |-> ts,
                          confirmed |-> FALSE]])
    OBVIOUS
  <1> DEFINE form == [kind |-> "edittype", type |-> t, fields |-> fs, templates |-> ts, confirmed |-> FALSE]
  <1>0. Step(u, [pc |-> "postType", req |-> form])
    OBVIOUS
  <1> HIDE DEF form
  <1>1. /\ tx'[u].pc = "postType" /\ tx'[u].req = form
        /\ tx'[u].excl = tx[u].excl /\ tx'[u].share = tx[u].share /\ tx'[u].dirty = tx[u].dirty
    BY <1>0, StepEffect DEF Inv, Slots
  <1>2. TypeForm(tx'[u].req)
    <2>1. row[t].fields \in Seq(Field) /\ row[t].templates \in Seq(Template)
      BY RowsTyped
    <2>2. fs \in Seq(Field \cup {New}) /\ fs # <<>>
      BY <2>1, RearrangedIs
    <2>3. ts \in Seq(Template \cup {New}) /\ ts # <<>> /\ IsInjective(ts)
      BY <2>1, RearrangedIs
    <2> QED BY <1>1, <2>2, <2>3 DEF TypeForm, Live, form
  <1>3. tx'[u].pc \in Editing /\ tx'[u].pc \in Stage \ {"new", "over"} /\ tx[u].pc \in Unlocked
    BY <1>1 DEF Editing, Forming, Stage, Unlocked, GetNoteTypeEdit, Sends
  <1>4. TypeInv(row, torn, tx'[u])
    BY <1>1, <1>2 DEF TypeInv, Remapping, Arranging
  <1>5. Locks(row, tx'[u]) /\ \A r \in Request \ {u} : Apart(tx'[u], tx[r])
    BY <1>1, <1>3, SameLocks
  <1>6. Local(row, torn, tx'[u])
    BY <1>3, <1>4, <1>5, Unconcerned, StagesApart DEF Local
  <1> QED BY <1>0, <1>5, <1>6, QuietStep DEF GetNoteTypeEdit, Slots

LEMMA PostIdsKeeps ==
    ASSUME Inv, NEW u \in Request, PostIds(u)
    PROVE  Inv' /\ row' = row
  <1>1. CASE \E n \in Note, d \in Deck :
               Step(u, [pc |-> "lockNote", req |-> [kind |-> "move", note |-> n, deck |-> d]])
    <2> PICK n \in Note, d \in Deck :
          Step(u, [pc |-> "lockNote", req |-> [kind |-> "move", note |-> n, deck |-> d]])
      BY <1>1
    <2>1. /\ tx'[u].pc = "lockNote" /\ tx'[u].req = [kind |-> "move", note |-> n, deck |-> d]
          /\ tx'[u].excl = tx[u].excl /\ tx'[u].share = tx[u].share /\ tx'[u].dirty = tx[u].dirty
      BY StepEffect DEF Inv, Slots
    <2>2. tx'[u].pc \in Noting /\ tx'[u].pc \in Stage \ {"new", "over"} /\ tx[u].pc \in Unlocked
      BY <2>1 DEF Noting, Stage, Unlocked, PostIds, Sends
    <2>3. NoteInv(row, tx'[u])
      BY <2>1 DEF NoteInv, Writing
    <2>4. Locks(row, tx'[u]) /\ \A r \in Request \ {u} : Apart(tx'[u], tx[r])
      BY <2>1, <2>2, SameLocks
    <2>5. Local(row, torn, tx'[u])
      BY <2>2, <2>3, <2>4, Unconcerned, StagesApart DEF Local
    <2> QED BY <2>4, <2>5, QuietStep DEF PostIds, Slots
  <1>2. CASE \E n \in Note : Step(u, [pc |-> "deleteNote", req |-> [kind |-> "delnote", note |-> n]])
    <2> PICK n \in Note : Step(u, [pc |-> "deleteNote", req |-> [kind |-> "delnote", note |-> n]])
      BY <1>2
    <2>1. /\ tx'[u].pc = "deleteNote" /\ tx'[u].req = [kind |-> "delnote", note |-> n]
          /\ tx'[u].excl = tx[u].excl /\ tx'[u].share = tx[u].share /\ tx'[u].dirty = tx[u].dirty
      BY StepEffect DEF Inv, Slots
    <2>2. tx'[u].pc \in Moving /\ tx'[u].pc \in Stage \ {"new", "over"} /\ tx[u].pc \in Unlocked
      BY <2>1 DEF Moving, Stage, Unlocked, PostIds, Sends
    <2>3. MoveInv(row, tx'[u])
      BY <2>1 DEF MoveInv
    <2>4. Locks(row, tx'[u]) /\ \A r \in Request \ {u} : Apart(tx'[u], tx[r])
      BY <2>1, <2>2, SameLocks
    <2>5. Local(row, torn, tx'[u])
      BY <2>2, <2>3, <2>4, Unconcerned, StagesApart DEF Local
    <2> QED BY <2>4, <2>5, QuietStep DEF PostIds, Slots
  <1>3. CASE \E d \in Deck : Step(u, [pc |-> "lockDeck", req |-> [kind |-> "deldeck", deck |-> d]])
    <2> PICK d \in Deck : Step(u, [pc |-> "lockDeck", req |-> [kind |-> "deldeck", deck |-> d]])
      BY <1>3
    <2>1. /\ tx'[u].pc = "lockDeck" /\ tx'[u].req = [kind |-> "deldeck", deck |-> d]
          /\ tx'[u].excl = tx[u].excl /\ tx'[u].share = tx[u].share /\ tx'[u].dirty = tx[u].dirty
      BY StepEffect DEF Inv, Slots
    <2>2. tx'[u].pc \in Deleting \cup {"lockDeck"} /\ tx'[u].pc \in Stage \ {"new", "over"} /\ tx[u].pc \in Unlocked
      BY <2>1 DEF Stage, Unlocked, PostIds, Sends
    <2>3. DeckInv(row, tx'[u])
      BY <2>1 DEF DeckInv, Deleting
    <2>4. Locks(row, tx'[u]) /\ \A r \in Request \ {u} : Apart(tx'[u], tx[r])
      BY <2>1, <2>2, SameLocks
    <2>5. Local(row, torn, tx'[u])
      BY <2>2, <2>3, <2>4, Unconcerned, StagesApart DEF Local
    <2> QED BY <2>4, <2>5, QuietStep DEF PostIds, Slots
  <1> QED BY <1>1, <1>2, <1>3 DEF PostIds

-----------------------------------------------------------------------------
(* Writing a note.                                                         *)

LEMMA DesiredCards ==
    ASSUME NEW t \in Type, NEW s \in Seq(Template), s # <<>>, NEW marks, marks \subseteq Ordinals, marks # {}
    PROVE  LET want == desiredCards(t, s, marks) IN
           /\ DOMAIN want \subseteq Nat /\ DOMAIN want # {} /\ \A o \in DOMAIN want : want[o] \in Template
  <1>1. Ordinals \subseteq Nat /\ Len(s) \in Nat /\ Len(s) >= 1 /\ s[1] \in Template
    BY ContentsAssumption
  <1>2. CASE t \in Cloze
    BY <1>1, <1>2 DEF desiredCards
  <1>3. CASE t \notin Cloze
    <2>1. desiredCards(t, s, marks) = [o \in 0 .. Len(s) - 1 |-> s[o + 1]]
      BY <1>3 DEF desiredCards
    <2>2. 0 \in 0 .. Len(s) - 1 /\ \A o \in 0 .. Len(s) - 1 : s[o + 1] \in Template
      BY <1>1
    <2> DEFINE want == desiredCards(t, s, marks)
    <2>3. DOMAIN want = 0 .. Len(s) - 1 /\ \A o \in 0 .. Len(s) - 1 : want[o] = s[o + 1]
      BY <2>1
    <2> HIDE DEF want
    <2>4. DOMAIN want \subseteq Nat /\ DOMAIN want # {}
      <3>1. 0 .. Len(s) - 1 \subseteq Nat
        BY <1>1
      <3> QED BY <2>2, <2>3, <3>1
    <2>5. \A o \in DOMAIN want : want[o] \in Template
      BY <2>2, <2>3
    <2> QED BY <2>4, <2>5 DEF want
  <1> QED BY <1>2, <1>3

LEMMA PostNoteTemplatesKeeps ==
    ASSUME Inv, NEW u \in Request, PostNoteTemplates(u)
    PROVE  Inv' /\ row' = row
  <1> DEFINE q == tx[u].req
             want == desiredCards(q.type, ListTemplatesForNoteType(q.type), q.marks)
  <1>1. CASE Refuse(u)
    BY <1>1, Refused
  <1>2. CASE /\ row[q.type] # Gone /\ UNCHANGED <<row, torn, outrun>>
             /\ Step(u, [pc |-> "readFields", seen |-> [want |-> want] ++ tx[u].seen])
    <2>1. /\ tx'[u].pc = "readFields" /\ tx'[u].seen = [want |-> want] ++ tx[u].seen
          /\ tx'[u].req = q
          /\ tx'[u].excl = tx[u].excl /\ tx'[u].share = tx[u].share /\ tx'[u].dirty = tx[u].dirty
      BY <1>2, StepEffect DEF Inv, Slots
    <2>2. tx[u].pc = "readTemplates" /\ NoteForm(tx[u])
      BY DEF PostNoteTemplates, Inv, Local, NoteInv
    <2>3. /\ DOMAIN tx'[u].seen = {"want"} \cup DOMAIN tx[u].seen
          /\ tx'[u].seen.want = want /\ tx'[u].seen.fields = tx[u].seen.fields
      BY <2>1, <2>2 DEF ++, NoteForm
    <2>4. NoteForm(tx'[u])
      BY <2>1, <2>2, <2>3 DEF NoteForm
    <2>5. NoteWanted(tx'[u])
      <3>1. row[q.type].templates \in Seq(Template) /\ row[q.type].templates # <<>>
        BY <1>2, <2>2, RowsTyped DEF NoteForm, Live
      <3> HIDE DEF want
      <3>2. DOMAIN want \subseteq Nat /\ DOMAIN want # {} /\ \A o \in DOMAIN want : want[o] \in Template
        BY <2>2, <3>1, DesiredCards DEF want, NoteForm, ListTemplatesForNoteType
      <3> QED BY <2>3, <3>2 DEF NoteWanted
    <2>6. tx'[u].pc \in Noting /\ tx'[u].pc \in Stage \ {"new", "over"} /\ tx[u].pc \in Unlocked
      BY <2>1, <2>2 DEF Noting, Stage, Unlocked
    <2>7. NoteInv(row, tx'[u])
      BY <2>1, <2>4, <2>5 DEF NoteInv, Writing
    <2>8. Locks(row, tx'[u]) /\ \A r \in Request \ {u} : Apart(tx'[u], tx[r])
      BY <2>1, <2>6, SameLocks
    <2>9. Local(row, torn, tx'[u])
      BY <2>6, <2>7, <2>8, Unconcerned, StagesApart DEF Local
    <2> HIDE DEF want
    <2> QED BY <1>2, <2>8, <2>9, QuietStep DEF Slots
  <1> QED BY <1>1, <1>2 DEF PostNoteTemplates

LEMMA PostNoteFieldsKeeps ==
    ASSUME Inv, NEW u \in Request, PostNoteFields(u)
    PROVE  Inv' /\ row' = row
  <1> DEFINE next == IF tx[u].req.kind = "create" THEN "createNote" ELSE "lockNote"
  <1>1. CASE Refuse(u)
    BY <1>1, Refused
  <1>2. CASE Step(u, [pc |-> next]) /\ UNCHANGED <<row, torn, outrun>>
    <2>0. DOMAIN [pc |-> next] = {"pc"} /\ [pc |-> next].pc = next
      OBVIOUS
    <2>1. /\ tx'[u].pc = next /\ tx'[u].req = tx[u].req /\ tx'[u].seen = tx[u].seen
          /\ tx'[u].excl = tx[u].excl /\ tx'[u].share = tx[u].share /\ tx'[u].dirty = tx[u].dirty
      BY <1>2, <2>0, StepEffect DEF Inv, Slots
    <2>2. tx[u].pc = "readFields" /\ NoteForm(tx[u]) /\ NoteWanted(tx[u])
      BY DEF PostNoteFields, Inv, Local, NoteInv
    <2>3. NoteForm(tx'[u]) /\ NoteWanted(tx'[u])
      BY <2>1, <2>2 DEF NoteForm, NoteWanted
    <2>4. tx'[u].pc \in Noting /\ tx'[u].pc \in Stage \ {"new", "over"} /\ tx[u].pc \in Unlocked
      BY <2>1, <2>2 DEF Noting, Stage, Unlocked
    <2>5. NoteInv(row, tx'[u])
      BY <2>1, <2>2, <2>3 DEF NoteInv, NoteForm, Writing
    <2>6. Locks(row, tx'[u]) /\ \A r \in Request \ {u} : Apart(tx'[u], tx[r])
      BY <2>1, <2>4, SameLocks
    <2>7. Local(row, torn, tx'[u])
      BY <2>4, <2>5, <2>6, Unconcerned, StagesApart DEF Local
    <2> QED BY <1>2, <2>6, <2>7, QuietStep DEF Slots
  <1> QED BY <1>1, <1>2 DEF PostNoteFields

\* The values a form submits fit the fields it showed.
LEMMA SubmitFits ==
    ASSUME NEW r \in Request, NEW fields \in Seq(Field), fields # <<>>
    PROVE  /\ Submit(r, fields) \in Seq(Value) /\ Submit(r, fields) # <<>>
           /\ Fitting(Submit(r, fields), fields)
           /\ ComputeNoteChecksum(Submit(r, fields)) \in Value
  <1>1. Len(fields) \in Nat \ {0} /\ DOMAIN fields = 1 .. Len(fields)
    OBVIOUS
  <1>2. \A i \in DOMAIN fields : <<fields[i], r>> \in Value
    BY DEF Value
  <1>3. /\ Submit(r, fields) \in [1 .. Len(fields) -> Value]
        /\ \A i \in DOMAIN fields : Submit(r, fields)[i][1] = fields[i]
    BY <1>1, <1>2 DEF Submit
  <1>4. Submit(r, fields) \in Seq(Value) /\ Len(Submit(r, fields)) = Len(fields)
    BY <1>1, <1>3
  <1> QED BY <1>1, <1>3, <1>4 DEF Fitting, ComputeNoteChecksum

\* An id that is not in use is nobody's.
LEMMA UnusedFree ==
    ASSUME Inv, NEW S, S \subseteq Row, NEW x \in Unused(S), NEW r \in Request
    PROVE  row[x] = Gone /\ x \notin Held(tx[r]) /\ x \notin tx[r].share
  BY DEF Unused, Inv, Local, Locks, Held, Dirty

\* The note and its new locks, for a step that writes the note.
LEMMA NoteLocked ==
    ASSUME Inv, NEW u \in Request, NEW now,
           now.pc = "lockCards", NoteForm(now), NoteWanted(now), NoteWritten(row, now),
           now.excl = tx[u].excl, tx[u].share = {}, now.share \subseteq Row,
           \A x \in now.share : row[x] # Gone, Sharable(u, now.share),
           Updatable(u, Dirty(now) \ Held(tx[u]))
    PROVE  Local(row, torn, now) /\ \A r \in Request \ {u} : Apart(now, tx[r])
  <1>1. Locks(row, tx[u])
    BY DEF Inv, Local
  <1>2. now.pc \in Noting /\ now.pc \in Stage \ {"new", "over"} /\ now.pc \notin Unlocked
    BY DEF Noting, Writing, Stage, Unlocked
  <1>3. Dirty(now) \cap (Deck \cup Type) = {} /\ Dirty(now) \subseteq Row \ Deck
    BY ContentsAssumption DEF NoteWritten, Row
  <1>4. \A x \in Dirty(now) : now.dirty[x] # Gone
    BY ContentsAssumption DEF NoteWritten
  <1>5. Locks(row, now)
    BY <1>1, <1>2, <1>3, <1>4 DEF Locks
  <1>6. Lockable(u, now.excl \ tx[u].excl) /\ now.share \ tx[u].share = now.share
    BY DEF Lockable
  <1>7. \A r \in Request \ {u} : Apart(now, tx[r])
    BY <1>3, <1>6, Grown
  <1>8. NoteInv(row, now)
    BY DEF NoteInv, Writing
  <1> QED BY <1>2, <1>5, <1>7, <1>8, Unconcerned, StagesApart DEF Local

LEMMA CreateNoteKeeps ==
    ASSUME Inv, NEW u \in Request, CreateNote(u)
    PROVE  Inv' /\ row' = row
  <1> DEFINE q == tx[u].req
             n == CHOOSE n \in Unused(Note) : TRUE
             note == NewNote(q.deck, q.type, Submit(u, tx[u].seen.fields))
             form == [note |-> n] ++ q
             rows == [x \in {n} |-> note]
             cited == {q.deck, q.type}
  <1>1. CASE Refuse(u)
    BY <1>1, Refused
  <1>2. CASE /\ row[q.deck] # Gone /\ row[q.type] # Gone
             /\ Unused(Note) # {} /\ UNCHANGED <<row, torn, outrun>>
             /\ Step(u, [pc |-> "lockCards", req |-> form, share |-> cited, dirty |-> rows])
    <2>1. tx[u].pc = "createNote" /\ NoteForm(tx[u]) /\ NoteWanted(tx[u]) /\ q.kind = "create"
      BY DEF CreateNote, Inv, Local, NoteInv
    <2>2. n \in Unused(Note) /\ Note \subseteq Row
      BY <1>2 DEF Row
    <2>3. /\ form.note = n /\ form.kind = q.kind /\ form.type = q.type /\ form.marks = q.marks
          /\ form.deck = q.deck /\ DOMAIN form = {"note"} \cup DOMAIN q
      BY <2>1 DEF ++, NoteForm
    <2>4. DOMAIN rows = {n} /\ rows[n] = note
      OBVIOUS
    <2>5. /\ note \in NoteRow /\ note.type = q.type /\ note.home = q.deck
          /\ note.vals # <<>> /\ Fitting(note.vals, tx[u].seen.fields)
          /\ note.sum = ComputeNoteChecksum(note.vals)
      BY <2>1, SubmitFits DEF NewNote, NoteRow, NoteForm
    <2> HIDE DEF n, note, form, rows, cited
    <2>6. /\ tx'[u].pc = "lockCards" /\ tx'[u].req = form /\ tx'[u].seen = tx[u].seen
          /\ tx'[u].excl = tx[u].excl /\ tx'[u].share = cited /\ tx'[u].dirty = rows
      BY <1>2, StepEffect DEF Inv, Slots
    <2>7. NoteForm(tx'[u]) /\ NoteWanted(tx'[u])
      BY <2>1, <2>2, <2>3, <2>6 DEF NoteForm, NoteWanted, Unused
    <2>8. row[n] = Gone /\ \A r \in Request : n \notin Held(tx[r])
      BY <2>2, UnusedFree
    <2>9. NoteWritten(row, tx'[u])
      BY <2>2, <2>3, <2>4, <2>5, <2>6, <2>8 DEF NoteWritten, Dirty, Unused, cited
    <2>10. tx[u].share = {} /\ cited \subseteq Row /\ (\A x \in cited : row[x] # Gone) /\ Sharable(u, cited)
      BY <1>2, <2>1 DEF Inv, Local, Locks, Unlocked, Row, NoteForm, CreateNote, cited
    <2>11. Updatable(u, Dirty(tx'[u]) \ Held(tx[u]))
      BY <2>4, <2>6, <2>8 DEF Updatable, Taken, Held, Dirty
    <2>12. Local(row, torn, tx'[u]) /\ \A r \in Request \ {u} : Apart(tx'[u], tx[r])
      BY <2>6, <2>7, <2>9, <2>10, <2>11, NoteLocked
    <2> QED BY <1>2, <2>12, QuietStep DEF Slots
  <1> QED BY <1>1, <1>2 DEF CreateNote

LEMMA LockNoteForContentEditKeeps ==
    ASSUME Inv, NEW u \in Request, LockNoteForContentEdit(u)
    PROVE  Inv' /\ row' = row
  <1> DEFINE q == tx[u].req
             n == q.note
             next == IF q.kind = "move" THEN "moveNote" ELSE "updateNote"
             read == [home |-> row[n].home] ++ tx[u].seen
  <1>1. CASE Refuse(u)
    BY <1>1, Refused
  <1>2. CASE /\ row[n] # Gone /\ UNCHANGED <<row, torn, outrun>>
             /\ Step(u, [pc |-> next, seen |-> read, excl |-> {n}])
    <2>1. /\ tx[u].pc = "lockNote" /\ Lockable(u, {n}) /\ n \in Note
          /\ \/ q.kind = "move" /\ q.deck \in Deck
             \/ q.kind = "edit" /\ NoteForm(tx[u]) /\ NoteWanted(tx[u])
      BY DEF LockNoteForContentEdit, Inv, Local, NoteInv
    <2>2. \A k \in DOMAIN tx[u].seen : k # "home" => k \in DOMAIN read /\ read[k] = tx[u].seen[k]
      BY DEF ++
    <2>3. next \in Stage \ Unlocked /\ next \in {"moveNote", "updateNote"}
      BY DEF Stage, Unlocked
    <2> HIDE DEF read, next
    <2>4. /\ tx'[u].pc = next /\ tx'[u].req = q /\ tx'[u].seen = read
          /\ tx'[u].excl = {n} /\ tx'[u].share = tx[u].share /\ tx'[u].dirty = tx[u].dirty
      BY <1>2, StepEffect DEF Inv, Slots
    <2>5. Locks(row, tx[u]) /\ tx[u].share = {} /\ Dirty(tx[u]) = {} /\ tx[u].excl = {}
      BY <2>1 DEF Inv, Local, Locks, Unlocked
    <2>6. Locks(row, tx'[u])
      BY <1>2, <2>1, <2>3, <2>4, <2>5 DEF Locks, Dirty, Row, Unlocked
    <2>7. \A r \in Request \ {u} : Apart(tx'[u], tx[r])
      <3>1. Updatable(u, {}) /\ Sharable(u, {}) /\ Dirty(tx'[u]) = {}
        BY <2>4, <2>5 DEF Updatable, Sharable, Dirty
      <3> QED BY <2>1, <2>4, <2>5, <3>1, Grown
    <2>8. CASE q.kind = "move"
      <3>1. next = "moveNote"
        BY <2>8 DEF next
      <3>2. MoveInv(row, tx'[u]) /\ tx'[u].pc \in Moving
        BY <2>1, <2>4, <2>5, <2>8, <3>1 DEF MoveInv, Moving, NoteForm, Dirty
      <3>3. Local(row, torn, tx'[u])
        BY <2>6, <3>2, Unconcerned, StagesApart DEF Local
      <3> QED BY <1>2, <2>7, <3>3, QuietStep DEF Slots
    <2>9. CASE q.kind = "edit"
      <3>1. next = "updateNote" /\ NoteForm(tx[u]) /\ NoteWanted(tx[u])
        BY <2>1, <2>9 DEF next
      <3>2. NoteForm(tx'[u]) /\ NoteWanted(tx'[u])
        BY <2>2, <2>4, <3>1 DEF NoteForm, NoteWanted
      <3>3. NoteInv(row, tx'[u]) /\ tx'[u].pc \in Noting
        BY <2>4, <2>5, <2>9, <3>1, <3>2 DEF NoteInv, Noting, Writing, Dirty
      <3>4. Local(row, torn, tx'[u])
        BY <2>6, <3>3, Unconcerned, StagesApart DEF Local
      <3> QED BY <1>2, <2>7, <3>4, QuietStep DEF Slots
    <2> QED BY <2>1, <2>8, <2>9
  <1> QED BY <1>1, <1>2 DEF LockNoteForContentEdit

LEMMA UpdateNoteContentKeeps ==
    ASSUME Inv, NEW u \in Request, UpdateNoteContent(u)
    PROVE  Inv' /\ row' = row
  <1> DEFINE q == tx[u].req
             n == q.note
             note == Rewritten(row[n], q.type, Submit(u, tx[u].seen.fields))
             rows == [x \in {n} |-> note]
             cited == {q.type} \ {row[n].type}
  <1>1. CASE Refuse(u)
    BY <1>1, Refused
  <1>2. CASE /\ row[q.type] # Gone /\ UNCHANGED <<row, torn, outrun>>
             /\ Step(u, [pc |-> "lockCards", share |-> cited, dirty |-> rows])
    <2>1. /\ tx[u].pc = "updateNote" /\ NoteForm(tx[u]) /\ NoteWanted(tx[u]) /\ q.kind = "edit"
          /\ tx[u].excl = {n} /\ tx[u].share = {} /\ Dirty(tx[u]) = {} /\ Sharable(u, cited)
      BY DEF UpdateNoteContent, Inv, Local, NoteInv
    <2>2. n \in Note /\ row[n] # Gone /\ row[n] \in NoteRow /\ q.type \in Type
      BY <2>1, RowsTyped DEF Inv, Local, Locks, NoteForm, Live
    <2>3. DOMAIN rows = {n} /\ rows[n] = note
      OBVIOUS
    <2>4. /\ note \in NoteRow /\ note.type = q.type /\ note.home = row[n].home
          /\ note.vals # <<>> /\ Fitting(note.vals, tx[u].seen.fields)
          /\ note.sum = ComputeNoteChecksum(note.vals)
      BY <2>1, <2>2, SubmitFits DEF Rewritten, NoteRow, NoteForm
    <2> HIDE DEF note, rows, cited
    <2>5. /\ tx'[u].pc = "lockCards" /\ tx'[u].req = q /\ tx'[u].seen = tx[u].seen
          /\ tx'[u].excl = tx[u].excl /\ tx'[u].share = cited /\ tx'[u].dirty = rows
      BY <1>2, StepEffect DEF Inv, Slots
    <2>6. NoteForm(tx'[u]) /\ NoteWanted(tx'[u])
      BY <2>1, <2>5 DEF NoteForm, NoteWanted
    <2>7. NoteWritten(row, tx'[u])
      BY <2>1, <2>2, <2>3, <2>4, <2>5 DEF NoteWritten, Dirty, cited
    <2>8. cited \subseteq Row /\ (\A x \in cited : row[x] # Gone)
      BY <1>2, <2>2 DEF Row, cited
    <2>9. Updatable(u, Dirty(tx'[u]) \ Held(tx[u]))
      BY <2>1, <2>3, <2>5 DEF Updatable, Held, Dirty
    <2>10. Local(row, torn, tx'[u]) /\ \A r \in Request \ {u} : Apart(tx'[u], tx[r])
      BY <2>1, <2>5, <2>6, <2>7, <2>8, <2>9, NoteLocked
    <2> QED BY <1>2, <2>10, QuietStep DEF Slots
  <1> QED BY <1>1, <1>2 DEF UpdateNoteContent

\* The picture a request has of a row.
LEMMA ViewAt ==
    ASSUME Inv, NEW u \in Request
    PROVE  /\ DOMAIN View(u) = Row
           /\ \A x \in Row : View(u)[x] = IF x \in Dirty(tx[u]) THEN tx[u].dirty[x] ELSE row[x]
  <1>1. DOMAIN row = Row /\ Dirty(tx[u]) \subseteq Row
    BY DEF Inv, Tables, Local, Locks
  <1> QED BY <1>1 DEF View, ++, Dirty

LEMMA ListCardsForNoteForUpdateKeeps ==
    ASSUME Inv, NEW u \in Request, ListCardsForNoteForUpdate(u)
    PROVE  Inv' /\ row' = row
  <1> DEFINE n == tx[u].req.note
             cards == CardsOf(View(u), n)
             held == tx[u].excl \cup cards
  <1>1. /\ tx[u].pc = "lockCards" /\ Lockable(u, cards) /\ UNCHANGED <<row, torn, outrun>>
        /\ Step(u, [pc |-> "syncCards", excl |-> held])
    BY DEF ListCardsForNoteForUpdate
  <1>2. NoteForm(tx[u]) /\ NoteWanted(tx[u]) /\ NoteWritten(row, tx[u]) /\ Locks(row, tx[u])
    <2>1. NoteInv(row, tx[u]) /\ Locks(row, tx[u])
      BY DEF Inv, Local
    <2> QED BY <1>1, <2>1 DEF NoteInv, Writing
  <1>3. cards = CardsOf(row, n) /\ cards \subseteq Row /\ \A c \in cards : row[c] # Gone
    <2>1. Card \subseteq Row /\ Card \cap Dirty(tx[u]) = {}
      <3>1. n \in Note /\ Dirty(tx[u]) = {n}
        BY <1>2 DEF NoteWritten
      <3> QED BY <3>1, ContentsAssumption DEF Row
    <2>2. \A c \in Card : View(u)[c] = row[c]
      BY <2>1, ViewAt
    <2> QED BY <2>1, <2>2 DEF CardsOf, Live
  <1> HIDE DEF held, cards
  <1>4. /\ tx'[u].pc = "syncCards" /\ tx'[u].req = tx[u].req /\ tx'[u].seen = tx[u].seen
        /\ tx'[u].excl = held /\ tx'[u].share = tx[u].share /\ tx'[u].dirty = tx[u].dirty
    BY <1>1, StepEffect DEF Inv, Slots
  <1>5. tx'[u].pc \in Noting /\ tx'[u].pc \in Stage \ {"new", "over"} /\ tx'[u].pc \notin Unlocked
    BY <1>4 DEF Noting, Writing, Stage, Unlocked
  <1>6. Locks(row, tx'[u])
    BY <1>2, <1>3, <1>4, <1>5 DEF Locks, Dirty, held
  <1>7. NoteForm(tx'[u]) /\ NoteWanted(tx'[u]) /\ NoteWritten(row, tx'[u])
    BY <1>2, <1>4 DEF NoteForm, NoteWanted, NoteWritten, Dirty, held
  <1>8. NoteInv(row, tx'[u])
    BY <1>3, <1>4, <1>7 DEF NoteInv, Writing, held
  <1>9. \A r \in Request \ {u} : Apart(tx'[u], tx[r])
    <2>1. Lockable(u, tx'[u].excl \ tx[u].excl)
      BY <1>1, <1>4 DEF Lockable, held
    <2>2. Updatable(u, Dirty(tx'[u]) \ Held(tx[u])) /\ Sharable(u, tx'[u].share \ tx[u].share)
      BY <1>4 DEF Updatable, Sharable, Held, Dirty
    <2> QED BY <1>4, <2>1, <2>2, Grown DEF Dirty
  <1>10. Local(row, torn, tx'[u])
    BY <1>5, <1>6, <1>8, Unconcerned, StagesApart DEF Local
  <1> QED BY <1>1, <1>9, <1>10, QuietStep DEF Slots

-----------------------------------------------------------------------------
(* Moving a note.                                                          *)

LEMMA MoveNoteToDeckKeeps ==
    ASSUME Inv, NEW u \in Request, MoveNoteToDeck(u)
    PROVE  Inv' /\ row' = row
  <1> DEFINE n == tx[u].req.note
             d == tx[u].req.deck
             rows == [x \in {n} |-> [row[x] EXCEPT !.home = d]]
  <1>1. CASE Refuse(u)
    BY <1>1, Refused
  <1>2. CASE /\ row[d] # Gone /\ UNCHANGED <<row, torn, outrun>>
             /\ Step(u, [pc |-> "moveCards", share |-> {d}, dirty |-> rows])
    <2>1. /\ tx[u].pc = "moveNote" /\ Sharable(u, {d}) /\ n \in Note /\ d \in Deck
          /\ tx[u].req.kind = "move" /\ tx[u].excl = {n} /\ tx[u].share = {} /\ Dirty(tx[u]) = {}
          /\ Locks(row, tx[u])
      BY DEF MoveNoteToDeck, Inv, Local, MoveInv
    <2>2. row[n] # Gone /\ row[n] \in NoteRow
      BY <2>1, RowsTyped DEF Locks, Live
    <2>3. DOMAIN rows = {n} /\ rows[n] = [row[n] EXCEPT !.home = d] /\ rows[n] \in NoteRow /\ rows[n] # Gone
      BY <2>1, <2>2, ContentsAssumption DEF NoteRow
    <2> HIDE DEF rows
    <2>4. /\ tx'[u].pc = "moveCards" /\ tx'[u].req = tx[u].req
          /\ tx'[u].excl = tx[u].excl /\ tx'[u].share = {d} /\ tx'[u].dirty = rows
      BY <1>2, StepEffect DEF Inv, Slots
    <2>5. tx'[u].pc \in Moving /\ tx'[u].pc \in Stage \ {"new", "over"} /\ tx'[u].pc \notin Unlocked
      BY <2>4 DEF Moving, Stage, Unlocked
    <2>6. MoveInv(row, tx'[u])
      BY <2>1, <2>3, <2>4 DEF MoveInv, Dirty
    <2>7. Locks(row, tx'[u])
      BY <1>2, <2>1, <2>3, <2>4, <2>5, ContentsAssumption DEF Locks, Dirty, Row
    <2>8. Dirty(tx'[u]) \cap Type = {} /\ Dirty(tx'[u]) \ Held(tx[u]) = {}
      BY <2>1, <2>3, <2>4, ContentsAssumption DEF Held, Dirty
    <2>9. \A r \in Request \ {u} : Apart(tx'[u], tx[r])
      <3>1. Lockable(u, tx'[u].excl \ tx[u].excl) /\ Updatable(u, Dirty(tx'[u]) \ Held(tx[u]))
        BY <2>4, <2>8 DEF Lockable, Updatable
      <3>2. Sharable(u, tx'[u].share \ tx[u].share)
        BY <2>1, <2>4
      <3> QED BY <2>8, <3>1, <3>2, Grown
    <2>10. Local(row, torn, tx'[u])
      BY <2>5, <2>6, <2>7, Unconcerned, StagesApart DEF Local
    <2> QED BY <1>2, <2>9, <2>10, QuietStep DEF Slots
  <1> QED BY <1>1, <1>2 DEF MoveNoteToDeck

-----------------------------------------------------------------------------
(* Deleting a deck, up to its commit.                                      *)

LEMMA LockDeckForDeleteKeeps ==
    ASSUME Inv, NEW u \in Request, LockDeckForDelete(u)
    PROVE  Inv' /\ row' = row
  <1> DEFINE d == tx[u].req.deck
  <1>1. CASE Refuse(u)
    BY <1>1, Refused
  <1>2. CASE /\ row[d] # Gone /\ UNCHANGED <<row, torn, outrun>>
             /\ Step(u, [pc |-> "scanOrphans", excl |-> {d}])
    <2>1. /\ tx[u].pc = "lockDeck" /\ Lockable(u, {d}) /\ d \in Deck
          /\ tx[u].req.kind = "deldeck" /\ Locks(row, tx[u])
          /\ tx[u].share = {} /\ Dirty(tx[u]) = {} /\ tx[u].excl = {}
      BY DEF LockDeckForDelete, Inv, Local, DeckInv, Locks, Unlocked
    <2>2. /\ tx'[u].pc = "scanOrphans" /\ tx'[u].req = tx[u].req
          /\ tx'[u].excl = {d} /\ tx'[u].share = tx[u].share /\ tx'[u].dirty = tx[u].dirty
      BY <1>2, StepEffect DEF Inv, Slots
    <2>3. tx'[u].pc \in Deleting /\ tx'[u].pc \in Stage \ {"new", "over"} /\ tx'[u].pc \notin Unlocked
      BY <2>2 DEF Deleting, Stage, Unlocked
    <2>4. Locks(row, tx'[u])
      BY <1>2, <2>1, <2>2, <2>3 DEF Locks, Dirty, Row
    <2>5. DeckInv(row, tx'[u])
      BY <2>1, <2>2 DEF DeckInv, Deleting, Dirty
    <2>6. \A r \in Request \ {u} : Apart(tx'[u], tx[r])
      <3>1. Updatable(u, {}) /\ Sharable(u, {}) /\ Dirty(tx'[u]) = {}
        BY <2>1, <2>2 DEF Updatable, Sharable, Dirty
      <3> QED BY <2>1, <2>2, <3>1, Grown
    <2>7. Local(row, torn, tx'[u])
      BY <2>3, <2>4, <2>5, Unconcerned, StagesApart DEF Local
    <2> QED BY <1>2, <2>6, <2>7, QuietStep DEF Slots
  <1> QED BY <1>1, <1>2 DEF LockDeckForDelete

LEMMA ScanOrphansKeeps ==
    ASSUME Inv, NEW u \in Request, ScanOrphans(u)
    PROVE  Inv' /\ row' = row
  <1> DEFINE d == tx[u].req.deck
             found == [n \in OrphanedBy(row, d) |-> Here(row, n, d)]
             others == [n \in Note |-> {c \in CardsOf(row, n) : row[c].deck # d}]
  <1>1. /\ tx[u].pc = "scanOrphans" /\ UNCHANGED <<row, torn, outrun>>
        /\ Step(u, [pc |-> "deleteOrphans", scan |-> found, seen |-> others])
    BY DEF ScanOrphans
  <1>2. /\ d \in Deck /\ tx[u].req.kind = "deldeck" /\ d \in tx[u].excl
        /\ tx[u].share = {} /\ Dirty(tx[u]) = {}
    BY <1>1 DEF Inv, Local, DeckInv, Deleting
  <1>3. /\ DOMAIN found \subseteq Note
        /\ \A n \in DOMAIN found : others[n] = {}
        /\ \A n \in Live(row, Note) : others[n] = {} /\ Here(row, n, d) => n \in DOMAIN found /\ found[n]
    BY DEF OrphanedBy, Elsewhere, Live
  <1> HIDE DEF found, others
  <1>4. /\ tx'[u].pc = "deleteOrphans" /\ tx'[u].req = tx[u].req
        /\ tx'[u].scan = found /\ tx'[u].seen = others
        /\ tx'[u].excl = tx[u].excl /\ tx'[u].share = tx[u].share /\ tx'[u].dirty = tx[u].dirty
    BY <1>1, StepEffect DEF Inv, Slots
  <1>5. tx'[u].pc \in Deleting /\ tx'[u].pc \in Stage \ {"new", "over"} /\ tx'[u].pc \notin Unlocked
    BY <1>4 DEF Deleting, Stage, Unlocked
  <1>6. DeckInv(row, tx'[u])
    BY <1>2, <1>3, <1>4 DEF DeckInv, Doomed, Deleting, Dirty
  <1>7. Locks(row, tx'[u]) /\ \A r \in Request \ {u} : Apart(tx'[u], tx[r])
    BY <1>4, <1>5, SameLocks
  <1>8. Local(row, torn, tx'[u])
    BY <1>5, <1>6, <1>7, Unconcerned, StagesApart DEF Local
  <1> QED BY <1>1, <1>7, <1>8, QuietStep DEF Slots

LEMMA DeleteNotesOrphanedKeeps ==
    ASSUME Inv, NEW u \in Request, DeleteNotesOrphanedByDeckDelete(u)
    PROVE  Inv' /\ row' = row
  <1> DEFINE d == tx[u].req.deck
             notes == {n \in Live(row, DOMAIN tx[u].scan) : row[n].home = d \/ tx[u].scan[n]}
             rows == UNION {WithCards(n) : n \in notes}
             dirty == [x \in rows |-> Gone] ++ tx[u].dirty
             held == tx[u].excl \cup {x \in DOMAIN [y \in rows |-> Gone] : [y \in rows |-> Gone][x] = Gone}
  <1>1. /\ tx[u].pc = "deleteOrphans" /\ UNCHANGED <<row, torn, outrun>>
        /\ Lockable(u, (DOMAIN tx[u].scan) \cup rows)
        /\ Step(u, [pc |-> "scanHomeless", dirty |-> dirty, excl |-> held])
    BY DEF DeleteNotesOrphanedByDeckDelete, Write
  <1>2. /\ d \in Deck /\ tx[u].req.kind = "deldeck" /\ d \in tx[u].excl
        /\ tx[u].share = {} /\ Dirty(tx[u]) = {} /\ DOMAIN tx[u].scan \subseteq Note
        /\ \A n \in DOMAIN tx[u].scan : tx[u].seen[n] = {}
        /\ \A n \in Live(row, Note) : tx[u].seen[n] = {} /\ Here(row, n, d) => Doomed(tx[u], n)
        /\ Locks(row, tx[u])
    BY <1>1 DEF Inv, Local, DeckInv, Deleting
  <1>3. /\ DOMAIN dirty = rows /\ (\A x \in rows : dirty[x] = Gone) /\ held = tx[u].excl \cup rows
    BY <1>2 DEF ++, Dirty
  <1>4. /\ rows \subseteq Live(row, Note \cup Card)
        /\ rows \cap Note = notes
        /\ \A c \in rows \cap Card : row[c].note \in notes
        /\ \A n \in notes : CardsOf(row, n) \subseteq rows /\ tx[u].seen[n] = {}
        /\ \A n \in Live(row, Note) : Doomed(tx[u], n) => n \in notes
    <2>1. notes \subseteq Live(row, Note)
      BY <1>2 DEF Live
    <2>2. \A n \in notes : WithCards(n) = {n} \cup {c \in Live(row, Card) : row[c].note = n}
      BY DEF WithCards, CardsOf
    <2>3. \A n \in Live(row, Note) : Doomed(tx[u], n) => n \in notes
      BY <1>1 DEF Doomed, Live
    <2> HIDE DEF notes
    <2>4. \A x \in rows : \E n \in notes : x = n \/ (x \in Live(row, Card) /\ row[x].note = n)
      BY <2>2
    <2>5. rows \subseteq Live(row, Note \cup Card)
      BY <2>1, <2>4 DEF Live
    <2>6. rows \cap Note = notes
      BY <2>1, <2>2, <2>4, ContentsAssumption DEF Live
    <2>7. \A c \in rows \cap Card : row[c].note \in notes
      BY <2>1, <2>4, ContentsAssumption DEF Live
    <2>8. \A n \in notes : CardsOf(row, n) \subseteq rows /\ tx[u].seen[n] = {}
      BY <1>2, <2>2 DEF CardsOf, notes, Live
    <2> QED BY <2>3, <2>5, <2>6, <2>7, <2>8
  <1> HIDE DEF dirty, held, rows, notes
  <1>5. /\ tx'[u].pc = "scanHomeless" /\ tx'[u].req = tx[u].req /\ tx'[u].seen = tx[u].seen
        /\ tx'[u].excl = held /\ tx'[u].share = tx[u].share /\ tx'[u].dirty = dirty
    BY <1>1, StepEffect DEF Inv, Slots
  <1>6. tx'[u].pc \in Deleting /\ tx'[u].pc \in Stage \ {"new", "over"} /\ tx'[u].pc \notin Unlocked
    BY <1>5 DEF Deleting, Stage, Unlocked
  <1>7. rows \subseteq Row \ (Deck \cup Type) /\ rows \subseteq Note \cup Card
    BY <1>4, ContentsAssumption DEF Row, Live
  <1>8. Locks(row, tx'[u])
    BY <1>2, <1>3, <1>4, <1>5, <1>6, <1>7 DEF Locks, Dirty, Live
  <1>9. DeckInv(row, tx'[u])
    BY <1>2, <1>3, <1>4, <1>5, <1>7 DEF DeckInv, Doomed, Deleting, Dirty, Live
  <1>10. \A r \in Request \ {u} : Apart(tx'[u], tx[r])
    <2>1. Lockable(u, tx'[u].excl \ tx[u].excl) /\ Updatable(u, Dirty(tx'[u]) \ Held(tx[u]))
      BY <1>1, <1>3, <1>5 DEF Lockable, Updatable, Held, Dirty
    <2>2. Sharable(u, tx'[u].share \ tx[u].share) /\ Dirty(tx'[u]) \cap Type = {}
      BY <1>3, <1>5, <1>7 DEF Sharable, Dirty
    <2> QED BY <2>1, <2>2, Grown
  <1>11. Local(row, torn, tx'[u])
    BY <1>6, <1>8, <1>9, Unconcerned, StagesApart DEF Local
  <1> QED BY <1>1, <1>10, <1>11, QuietStep DEF Slots

LEMMA LowestCard ==
    ASSUME NEW v, NEW S, S # {}, \A c \in S : v[c].ord \in Nat
    PROVE  \E c \in S : \A x \in S : v[c].ord <= v[x].ord
  <1> DEFINE ords == {v[c].ord : c \in S}
  <1>1. ords \subseteq Nat /\ ords # {}
    OBVIOUS
  <1>2. PICK o \in ords : \A m \in ords : <<m, o>> \notin OpToRel(<, Nat)
    BY <1>1, NatLessThanWellFounded, WFMin
  <1>3. ASSUME NEW m \in ords PROVE o <= m
    <2>1. <<m, o>> \notin {ss \in Nat \X Nat : ss[1] < ss[2]}
      BY <1>2, <1>3 DEF OpToRel
    <2>2. m \in Nat /\ o \in Nat
      BY <1>1, <1>3
    <2>3. ~(m < o)
      BY <2>1, <2>2
    <2> QED BY <2>2, <2>3
  <1> QED BY <1>3

LEMMA NewHomeIs ==
    ASSUME NEW v, NEW n, NEW d,
           \A c \in CardsOf(v, n) : v[c].ord \in Nat /\ v[c].deck \in Deck
    PROVE  NewHome(v, n, d) \in Deck \cup {Gone}
  <1> DEFINE left == {c \in CardsOf(v, n) : v[c].deck # d}
  <1>1. CASE left = {}
    BY <1>1 DEF NewHome
  <1>2. CASE left # {}
    <2>1. \E c \in left : \A x \in left : v[c].ord <= v[x].ord
      BY <1>2, LowestCard
    <2>2. NewHome(v, n, d) = v[CHOOSE c \in left : \A x \in left : v[c].ord <= v[x].ord].deck
      BY <1>2 DEF NewHome
    <2> QED BY <2>1, <2>2
  <1> QED BY <1>1, <1>2

\* A request that deletes a deck sees the cards as they are, but for those it
\* has deleted.
LEMMA DeletingView ==
    ASSUME Inv, NEW u \in Request, tx[u].pc \in {"scanHomeless", "rehome", "deleteDeck"}
    PROVE  /\ \A c \in Card : View(u)[c] = IF c \in Dirty(tx[u]) THEN Gone ELSE row[c]
           /\ \A c \in Live(View(u), Card) : View(u)[c] = row[c] /\ c \in Live(row, Card) \ Dirty(tx[u])
  <1>1. Card \subseteq Row /\ DeckInv(row, tx[u])
    BY DEF Inv, Local, Row
  <1>2. \A c \in Card : View(u)[c] = IF c \in Dirty(tx[u]) THEN Gone ELSE row[c]
    BY <1>1, ViewAt DEF DeckInv
  <1> QED BY <1>2 DEF Live

LEMMA ScanHomelessKeeps ==
    ASSUME Inv, NEW u \in Request, ScanHomeless(u)
    PROVE  Inv' /\ row' = row
  <1> DEFINE d == tx[u].req.deck
             v == View(u)
             found == [n \in HomedIn(v, d) |-> NewHome(v, n, d)]
  <1>1. /\ tx[u].pc = "scanHomeless" /\ UNCHANGED <<row, torn, outrun>>
        /\ Step(u, [pc |-> "rehome", scan |-> found])
    BY DEF ScanHomeless
  <1>2. DeckInv(row, tx[u])
    BY DEF Inv, Local
  <1>3. DOMAIN found \subseteq Note /\ \A n \in DOMAIN found : found[n] \in Deck \cup {Gone}
    <2>1. \A c \in Live(row, Card) : row[c].ord \in Nat /\ row[c].deck \in Deck
      BY DEF Inv, Tables, Sound, CardRow
    <2>3. \A c \in Live(v, Card) : v[c].ord \in Nat /\ v[c].deck \in Deck
      BY <1>1, <2>1, DeletingView
    <2>2. \A n \in DOMAIN found : \A c \in CardsOf(v, n) : v[c].ord \in Nat /\ v[c].deck \in Deck
      BY <2>3 DEF CardsOf
    <2> QED BY <2>2, NewHomeIs DEF HomedIn, Live
  <1> HIDE DEF found
  <1>4. /\ tx'[u].pc = "rehome" /\ tx'[u].req = tx[u].req /\ tx'[u].scan = found /\ tx'[u].seen = tx[u].seen
        /\ tx'[u].excl = tx[u].excl /\ tx'[u].share = tx[u].share /\ tx'[u].dirty = tx[u].dirty
    BY <1>1, StepEffect DEF Inv, Slots
  <1>5. tx'[u].pc \in Deleting /\ tx'[u].pc \in Stage \ {"new", "over"} /\ tx'[u].pc \notin Unlocked
    BY <1>4 DEF Deleting, Stage, Unlocked
  <1>6. DeckInv(row, tx'[u])
    BY <1>1, <1>2, <1>3, <1>4 DEF DeckInv, Doomed, Deleting, Dirty
  <1>7. Locks(row, tx'[u]) /\ \A r \in Request \ {u} : Apart(tx'[u], tx[r])
    BY <1>4, <1>5, SameLocks
  <1>8. Local(row, torn, tx'[u])
    BY <1>5, <1>6, <1>7, Unconcerned, StagesApart DEF Local
  <1> QED BY <1>1, <1>7, <1>8, QuietStep DEF Slots

LEMMA RehomeNotesOffDeckKeeps ==
    ASSUME Inv, NEW u \in Request, RehomeNotesOffDeck(u)
    PROVE  Inv' /\ row' = row
  <1> DEFINE d == tx[u].req.deck
             v == View(u)
             scan == tx[u].scan
             notes == {n \in Live(v, DOMAIN scan) : v[n].home = d}
             homes == {scan[n] : n \in notes}
             moved == [n \in notes |-> [v[n] EXCEPT !.home = scan[n]]]
             dirty == moved ++ tx[u].dirty
  <1>1. CASE Refuse(u)
    BY <1>1, Refused
  <1>2. CASE /\ \A x \in homes : x # Gone /\ row[x] # Gone
             /\ Step(u, [pc |-> "deleteDeck", share |-> homes, dirty |-> dirty])
             /\ UNCHANGED <<row, torn, outrun>>
    <2>1. /\ tx[u].pc = "rehome" /\ Updatable(u, DOMAIN scan) /\ Sharable(u, homes)
          /\ DeckInv(row, tx[u]) /\ Locks(row, tx[u])
      BY DEF RehomeNotesOffDeck, Inv, Local
    <2>2. /\ d \in Deck /\ tx[u].req.kind = "deldeck" /\ d \in tx[u].excl
          /\ tx[u].share = {} /\ (\A x \in Dirty(tx[u]) : tx[u].dirty[x] = Gone)
          /\ DOMAIN scan \subseteq Note /\ \A n \in DOMAIN scan : scan[n] \in Deck \cup {Gone}
      BY <2>1 DEF DeckInv, Deleting
    <2>3. /\ notes \subseteq Live(row, Note) /\ notes \cap Dirty(tx[u]) = {}
          /\ \A n \in notes : v[n] = row[n] /\ row[n] \in NoteRow
      <3>1. \A n \in Note : v[n] = IF n \in Dirty(tx[u]) THEN Gone ELSE row[n]
        BY <2>2, ViewAt DEF Row
      <3> QED BY <2>2, <3>1, RowsTyped DEF Live
    <2>4. homes \subseteq Deck /\ homes \subseteq Row /\ \A x \in homes : row[x] # Gone
      BY <1>2, <2>2 DEF Row, Live
    <2>5. /\ DOMAIN dirty = notes \cup Dirty(tx[u])
          /\ \A x \in Dirty(tx[u]) : dirty[x] = Gone
          /\ \A n \in notes : dirty[n] = [row[n] EXCEPT !.home = scan[n]]
      BY <2>2, <2>3 DEF ++, Dirty
    <2>6. ASSUME NEW n \in notes PROVE dirty[n] # Gone /\ dirty[n].home = scan[n] /\ scan[n] \in homes
      <3>1. row[n] \in NoteRow /\ scan[n] \in Deck
        BY <2>3, <2>4
      <3>2. [row[n] EXCEPT !.home = scan[n]] \in NoteRow /\ [row[n] EXCEPT !.home = scan[n]].home = scan[n]
        BY <3>1 DEF NoteRow
      <3> QED BY <2>5, <3>2, ContentsAssumption
    <2> HIDE DEF dirty, notes, homes
    <2>7. /\ tx'[u].pc = "deleteDeck" /\ tx'[u].req = tx[u].req /\ tx'[u].seen = tx[u].seen
          /\ tx'[u].excl = tx[u].excl /\ tx'[u].share = homes /\ tx'[u].dirty = dirty
      BY <1>2, StepEffect DEF Inv, Slots
    <2>8. tx'[u].pc \in Deleting /\ tx'[u].pc \in Stage \ {"new", "over"} /\ tx'[u].pc \notin Unlocked
      BY <2>7 DEF Deleting, Stage, Unlocked
    <2>9. notes \cap (Deck \cup Type \cup Card) = {} /\ notes \subseteq Row \ Deck
      BY <2>3, ContentsAssumption DEF Live, Row
    <2>10. Dirty(tx[u]) \cap Type = {} /\ Dirty(tx[u]) \subseteq Live(row, Note \cup Card)
      BY <2>1, ContentsAssumption DEF DeckInv, Live
    <2>11. Locks(row, tx'[u])
      <3>1. Dirty(tx'[u]) = notes \cup Dirty(tx[u]) /\ Dirty(tx'[u]) \cap Type = {}
        BY <2>5, <2>7, <2>9, <2>10 DEF Dirty
      <3>2. \A x \in Dirty(tx'[u]) : tx'[u].dirty[x] = Gone => x \in tx'[u].excl
        BY <2>1, <2>2, <2>6, <2>7, <3>1 DEF Locks
      <3> QED BY <2>1, <2>4, <2>7, <2>8, <2>9, <3>1, <3>2 DEF Locks
    <2>12. DeckInv(row, tx'[u])
      <3>1. \A n \in Live(row, Note) : tx'[u].seen[n] = {} /\ Here(row, n, d) => Doomed(tx'[u], n)
        BY <2>1, <2>5, <2>7 DEF DeckInv, Doomed, Deleting, Dirty
      <3>2. \A c \in Dirty(tx'[u]) \cap Card : /\ tx'[u].dirty[c] = Gone /\ row[c].note \in Dirty(tx'[u])
                                               /\ tx'[u].dirty[row[c].note] = Gone
        BY <2>1, <2>5, <2>7, <2>9 DEF DeckInv, Dirty
      <3>3. \A n \in Dirty(tx'[u]) \cap Note :
               \/ tx'[u].dirty[n] = Gone /\ tx'[u].seen[n] = {} /\ CardsOf(row, n) \subseteq Dirty(tx'[u])
               \/ /\ tx'[u].dirty[n].home \in tx'[u].share \cap Deck
                  /\ tx'[u].dirty[n] = [row[n] EXCEPT !.home = tx'[u].dirty[n].home]
        <4> TAKE n \in Dirty(tx'[u]) \cap Note
        <4>1. CASE n \in notes
          BY <2>4, <2>5, <2>6, <2>7, <4>1
        <4>2. CASE n \in Dirty(tx[u])
          <5>1. \/ tx[u].dirty[n] = Gone /\ tx[u].seen[n] = {} /\ CardsOf(row, n) \subseteq Dirty(tx[u])
                \/ tx[u].dirty[n].home \in tx[u].share \cap Deck
            BY <2>1, <4>2 DEF DeckInv
          <5> QED BY <2>2, <2>5, <2>7, <4>2, <5>1 DEF Dirty
        <4> QED BY <2>5, <2>7, <4>1, <4>2 DEF Dirty
      <3>4. Dirty(tx'[u]) \subseteq Live(row, Note \cup Card)
        BY <2>3, <2>5, <2>7, <2>10 DEF Dirty, Live
      <3> QED BY <2>2, <2>7, <3>1, <3>2, <3>3, <3>4 DEF DeckInv, Deleting
    <2>13. \A r \in Request \ {u} : Apart(tx'[u], tx[r])
      <3>1. Lockable(u, tx'[u].excl \ tx[u].excl) /\ Updatable(u, Dirty(tx'[u]) \ Held(tx[u]))
        BY <2>1, <2>5, <2>7 DEF Lockable, Updatable, Held, Dirty, notes, Live
      <3>2. Sharable(u, tx'[u].share \ tx[u].share) /\ Dirty(tx'[u]) \cap Type = {}
        BY <2>1, <2>5, <2>7, <2>9, <2>10 DEF Sharable, Dirty
      <3> QED BY <3>1, <3>2, Grown
    <2>14. Local(row, torn, tx'[u])
      BY <2>8, <2>11, <2>12, Unconcerned, StagesApart DEF Local
    <2> QED BY <1>2, <2>13, <2>14, QuietStep DEF Slots
  <1> QED BY <1>1, <1>2 DEF RehomeNotesOffDeck

-----------------------------------------------------------------------------
(* Editing a note type: the form and the lock.                             *)

LEMMA EditingLocal ==
    ASSUME NEW v, NEW lost, NEW me, me.pc \in Editing, Locks(v, me), TypeInv(v, lost, me)
    PROVE  Local(v, lost, me)
  BY Unconcerned, StagesApart DEF Local

LEMMA EditingStages ==
    /\ Forming \subseteq Editing /\ "planFields" \in Editing /\ Remapping \subseteq Editing
    /\ Forming \subseteq Stage \ {"new", "over"} /\ "planFields" \in Stage \ Unlocked
    /\ Remapping \subseteq Stage \ (Unlocked \cup {"new", "over"})
    /\ "planFields" \notin Remapping /\ Forming \subseteq Unlocked /\ Forming \cap ({"planFields"} \cup Remapping) = {}
  BY DEF Editing, Forming, Remapping, Arranging, Stage, Unlocked

LEMMA PostNoteTypeEditKeeps ==
    ASSUME Inv, NEW u \in Request, PostNoteTypeEdit(u)
    PROVE  Inv' /\ row' = row
  <1> DEFINE q == tx[u].req
             t == q.type
             structural == \/ OrderChanged(row[t].fields, q.fields)
                           \/ OrderChanged(row[t].templates, q.templates)
             next == IF structural /\ NotesOfType(row, t) # {} /\ ~q.confirmed THEN "confirm" ELSE "lockType"
             form == [checked |-> row[t], unused |-> NotesOfType(row, t) = {}] ++ q
  <1>1. CASE Refuse(u)
    BY <1>1, Refused
  <1>2. CASE Step(u, [pc |-> next, req |-> form]) /\ UNCHANGED <<row, torn, outrun>>
    <2>1. tx[u].pc = "postType" /\ TypeForm(q)
      BY DEF PostNoteTypeEdit, Inv, Local, TypeInv, Forming
    <2>2. /\ DOMAIN form = {"checked", "unused"} \cup DOMAIN q
          /\ form.checked = row[t] /\ form.unused = (NotesOfType(row, t) = {})
          /\ \A k \in DOMAIN q \ {"checked", "unused"} : form[k] = q[k]
      BY DEF ++
    <2>3. TypeForm(form)
      BY <2>1, <2>2 DEF TypeForm
    <2>4. next \in {"confirm", "lockType"}
      OBVIOUS
    <2>5. next = "lockType" => Confirmed(form)
      BY <2>1, <2>2 DEF Confirmed, TypeForm
    <2> HIDE DEF form, next
    <2>6. /\ tx'[u].pc = next /\ tx'[u].req = form
          /\ tx'[u].excl = tx[u].excl /\ tx'[u].share = tx[u].share /\ tx'[u].dirty = tx[u].dirty
      BY <1>2, StepEffect DEF Inv, Slots
    <2>7. tx'[u].pc \in Forming /\ tx[u].pc \in Forming
      BY <2>1, <2>4, <2>6 DEF Forming
    <2>8. TypeInv(row, torn, tx'[u])
      BY <2>3, <2>5, <2>6, <2>7, EditingStages DEF TypeInv, Remapping, Forming
    <2>9. Locks(row, tx'[u]) /\ \A r \in Request \ {u} : Apart(tx'[u], tx[r])
      BY <2>6, <2>7, EditingStages, SameLocks
    <2>10. Local(row, torn, tx'[u])
      BY <2>7, <2>8, <2>9, EditingStages, EditingLocal
    <2> QED BY <1>2, <2>9, <2>10, QuietStep DEF Slots
  <1> QED BY <1>1, <1>2 DEF PostNoteTypeEdit

LEMMA ConfirmStructuralChangeKeeps ==
    ASSUME Inv, NEW u \in Request, ConfirmStructuralChange(u)
    PROVE  Inv' /\ row' = row
  <1> DEFINE form == [tx[u].req EXCEPT !.confirmed = TRUE]
  <1>1. /\ tx[u].pc = "confirm" /\ Step(u, [pc |-> "postType", req |-> form])
        /\ UNCHANGED <<row, torn, outrun>>
    BY DEF ConfirmStructuralChange
  <1>2. TypeForm(tx[u].req)
    BY <1>1 DEF Inv, Local, TypeInv, Forming
  <1>3. TypeForm(form)
    BY <1>2 DEF TypeForm
  <1> HIDE DEF form
  <1>4. /\ tx'[u].pc = "postType" /\ tx'[u].req = form
        /\ tx'[u].excl = tx[u].excl /\ tx'[u].share = tx[u].share /\ tx'[u].dirty = tx[u].dirty
    BY <1>1, StepEffect DEF Inv, Slots
  <1>5. tx'[u].pc \in Forming /\ tx[u].pc \in Forming
    BY <1>1, <1>4 DEF Forming
  <1>6. TypeInv(row, torn, tx'[u])
    BY <1>3, <1>4, <1>5, EditingStages DEF TypeInv, Remapping
  <1>7. Locks(row, tx'[u]) /\ \A r \in Request \ {u} : Apart(tx'[u], tx[r])
    BY <1>4, <1>5, EditingStages, SameLocks
  <1>8. Local(row, torn, tx'[u])
    BY <1>5, <1>6, <1>7, EditingStages, EditingLocal
  <1> QED BY <1>1, <1>7, <1>8, QuietStep DEF Slots

LEMMA LockNoteTypeForEditKeeps ==
    ASSUME Inv, NEW u \in Request, LockNoteTypeForEdit(u)
    PROVE  Inv' /\ row' = row
  <1> DEFINE t == tx[u].req.type
  <1>1. CASE Refuse(u)
    BY <1>1, Refused
  <1>2. CASE /\ row[t] # Gone /\ (t \in Cloze => Len(tx[u].req.templates) = 1)
             /\ Step(u, [pc |-> "planFields", excl |-> {t}]) /\ UNCHANGED <<row, torn, outrun>>
    <2>1. /\ tx[u].pc = "lockType" /\ Lockable(u, {t})
          /\ TypeForm(tx[u].req) /\ Confirmed(tx[u].req) /\ t \in Type
          /\ tx[u].excl = {} /\ tx[u].share = {} /\ Dirty(tx[u]) = {} /\ Locks(row, tx[u])
      BY DEF LockNoteTypeForEdit, Inv, Local, TypeInv, Forming, TypeForm, Locks, Unlocked
    <2>2. /\ tx'[u].pc = "planFields" /\ tx'[u].req = tx[u].req
          /\ tx'[u].excl = {t} /\ tx'[u].share = tx[u].share /\ tx'[u].dirty = tx[u].dirty
      BY <1>2, StepEffect DEF Inv, Slots
    <2>3. TypeInv(row, torn, tx'[u])
      BY <1>2, <2>1, <2>2, EditingStages DEF TypeInv, Dirty, Remapping, Arranging
    <2>4. Locks(row, tx'[u])
      BY <1>2, <2>1, <2>2, EditingStages DEF Locks, Dirty, Row
    <2>5. \A r \in Request \ {u} : Apart(tx'[u], tx[r])
      <3>1. Updatable(u, {}) /\ Sharable(u, {}) /\ Dirty(tx'[u]) = {}
        BY <2>1, <2>2 DEF Updatable, Sharable, Dirty
      <3> QED BY <2>1, <2>2, <3>1, Grown
    <2>6. Local(row, torn, tx'[u])
      BY <2>2, <2>3, <2>4, EditingStages, EditingLocal
    <2> QED BY <1>2, <2>5, <2>6, QuietStep DEF Slots
  <1> QED BY <1>1, <1>2 DEF LockNoteTypeForEdit

-----------------------------------------------------------------------------
(* Editing a note type: the fields.                                        *)

\* Every submitted row has an id in the end.
LEMMA NumberedIs ==
    ASSUME NEW S, NEW ids, ids \subseteq S, NEW s \in Seq(S \cup {New}), s # <<>>,
           New \in ToSet(s) => ids # {}
    PROVE  /\ Numbered(s, ids) \in Seq(S) /\ Numbered(s, ids) # <<>>
           /\ Len(Numbered(s, ids)) = Len(s) /\ DOMAIN Numbered(s, ids) = DOMAIN s
           /\ \A i \in DOMAIN s :
                 IF s[i] = New THEN Numbered(s, ids)[i] = (CHOOSE x \in ids : TRUE) /\ Numbered(s, ids)[i] \in ids
                 ELSE Numbered(s, ids)[i] = s[i]
  <1> DEFINE x == CHOOSE x \in ids : TRUE
  <1>1. \A i \in DOMAIN s : s[i] = New => x \in ids
    BY DEF ToSet
  <1>2. DOMAIN s = 1 .. Len(s) /\ Len(s) \in Nat /\ \A i \in DOMAIN s : s[i] \in S \cup {New}
    OBVIOUS
  <1> HIDE DEF x
  <1>3. /\ DOMAIN Numbered(s, ids) = 1 .. Len(s)
        /\ \A i \in 1 .. Len(s) : Numbered(s, ids)[i] = IF s[i] = New THEN x ELSE s[i]
    BY <1>2 DEF Numbered, x
  <1>4. Numbered(s, ids) = [i \in 1 .. Len(s) |-> IF s[i] = New THEN x ELSE s[i]]
    BY <1>2 DEF Numbered, x
  <1>5. Numbered(s, ids) \in [1 .. Len(s) -> S]
    BY <1>1, <1>2, <1>4
  <1>6. Numbered(s, ids) \in Seq(S) /\ Len(Numbered(s, ids)) = Len(s)
    BY <1>2, <1>5
  <1> QED BY <1>1, <1>2, <1>3, <1>6 DEF x

\* Where a submitted row was before.
LEMMA KeptIs ==
    ASSUME NEW S, NEW old \in Seq(S), NEW s \in Seq(S \cup {New}), Known(s, old)
    PROVE  /\ DOMAIN keptOldOrdinal(s, old) = DOMAIN s
           /\ \A i \in DOMAIN s :
                 LET k == keptOldOrdinal(s, old)[i] IN
                 IF s[i] = New THEN k = -1
                 ELSE k \in Nat /\ k + 1 \in DOMAIN old /\ old[k + 1] = s[i]
  <1>1. ASSUME NEW i \in DOMAIN s, s[i] # New
        PROVE  LET k == keptOldOrdinal(s, old)[i] IN
               k \in Nat /\ k + 1 \in DOMAIN old /\ old[k + 1] = s[i]
    <2>1. \E j \in DOMAIN old : old[j] = s[i]
      BY <1>1 DEF Known, ToSet
    <2> DEFINE j == CHOOSE j \in DOMAIN old : old[j] = s[i]
    <2>2. j \in DOMAIN old /\ old[j] = s[i]
      BY <2>1
    <2>3. keptOldOrdinal(s, old)[i] = j - 1
      BY <1>1 DEF keptOldOrdinal
    <2> HIDE DEF j
    <2>4. j \in Nat \ {0}
      BY <2>2
    <2> QED BY <2>2, <2>3, <2>4
  <1> QED BY <1>1 DEF keptOldOrdinal

LEMMA PlanIs ==
    ASSUME NEW S, NEW ids, ids \subseteq S, NEW old \in Seq(S), NEW s \in Seq(S \cup {New}), s # <<>>,
           New \in ToSet(s) => ids # {}, Known(s, old)
    PROVE  LET kept == keptOldOrdinal(s, old) IN
           /\ Planned(kept, old, Numbered(s, ids))
           /\ fieldPlanIsIdentity(kept, old) => Numbered(s, ids) = old
  <1> DEFINE kept == keptOldOrdinal(s, old)
             new == Numbered(s, ids)
  <1>1. /\ DOMAIN kept = DOMAIN s
        /\ \A i \in DOMAIN s : IF s[i] = New THEN kept[i] = -1
              ELSE kept[i] \in Nat /\ kept[i] + 1 \in DOMAIN old /\ old[kept[i] + 1] = s[i]
    BY KeptIs
  <1>2. /\ new \in Seq(S) /\ DOMAIN new = DOMAIN s /\ Len(new) = Len(s)
        /\ \A i \in DOMAIN s : s[i] # New => new[i] = s[i]
    BY NumberedIs
  <1> HIDE DEF kept, new
  <1>3. Planned(kept, old, new)
    BY <1>1, <1>2 DEF Planned
  <1>4. ASSUME fieldPlanIsIdentity(kept, old) PROVE new = old
    <2>1. DOMAIN s = DOMAIN old /\ \A i \in DOMAIN old : kept[i] = i - 1
      BY <1>1, <1>4 DEF fieldPlanIsIdentity
    <2>2. \A i \in DOMAIN old : i \in Nat \ {0}
      OBVIOUS
    <2>3. \A i \in DOMAIN old : s[i] # New /\ old[i] = s[i]
      BY <1>1, <2>1, <2>2
    <2> QED BY <1>2, <2>1, <2>3
  <1> QED BY <1>3, <1>4 DEF kept, new

LEMMA planFieldsKeeps ==
    ASSUME Inv, NEW u \in Request, planFields(u)
    PROVE  Inv' /\ row' = row
  <1> DEFINE q == tx[u].req
             t == q.type
             old == row[t]
             kept == keptOldOrdinal(q.fields, old.fields)
             ids == Numbered(q.fields, UnusedOf(Field, "fields"))
             next == IF fieldPlanIsIdentity(kept, old.fields) THEN "planTemplates" ELSE "remapFields"
             notes == NotesOfType(row, t)
             rows == [k \in {t} |-> [old EXCEPT !.fields = ids]]
  <1>1. CASE Refuse(u)
    BY <1>1, Refused
  <1>2. CASE /\ Known(q.fields, old.fields) /\ UNCHANGED <<row, torn, outrun>>
             /\ Step(u, [pc |-> next, seen |-> kept, scan |-> notes, dirty |-> rows])
    <2>1. /\ tx[u].pc = "planFields" /\ (New \in ToSet(q.fields) => UnusedOf(Field, "fields") # {})
          /\ TypeForm(q) /\ Confirmed(q) /\ t \in Type /\ t \in tx[u].excl
          /\ (t \in Cloze => Len(q.templates) = 1) /\ tx[u].share = {} /\ Dirty(tx[u]) = {} /\ Locks(row, tx[u])
      BY DEF planFields, Inv, Local, TypeInv, TypeForm
    <2>2. /\ row[t] # Gone /\ old \in TypeRow /\ old.fields \in Seq(Field)
          /\ \A k \in Live(row, Type) \ {t} : Disjoint(old.templates, row[k].templates)
      BY <2>1, RowsTyped DEF Locks, Live, Inv, Tables, Sound, Disjoint
    <2>3. q.fields \in Seq(Field \cup {New}) /\ q.fields # <<>> /\ UnusedOf(Field, "fields") \subseteq Field
      BY <2>1 DEF TypeForm, UnusedOf
    <2>4. /\ ids \in Seq(Field) /\ ids # <<>>
          /\ Planned(kept, old.fields, ids) /\ (next = "planTemplates" => ids = old.fields)
      <3>1. ids \in Seq(Field) /\ ids # <<>>
        <4> DEFINE free == UnusedOf(Field, "fields")
                   form == q.fields
        <4>1. /\ free \subseteq Field /\ form \in Seq(Field \cup {New}) /\ form # <<>>
              /\ (New \in ToSet(form) => free # {})
          BY <2>1, <2>3
        <4>2. ids = Numbered(form, free)
          OBVIOUS
        <4> HIDE DEF free, form, ids
        <4> QED BY <4>1, <4>2, NumberedIs
      <3>2. Planned(kept, old.fields, ids) /\ (fieldPlanIsIdentity(kept, old.fields) => ids = old.fields)
        <4> DEFINE free == UnusedOf(Field, "fields")
                   form == q.fields
                   was == old.fields
        <4>1. /\ free \subseteq Field /\ form \in Seq(Field \cup {New}) /\ form # <<>> /\ was \in Seq(Field)
              /\ (New \in ToSet(form) => free # {}) /\ Known(form, was)
          BY <1>2, <2>1, <2>2, <2>3
        <4>2. ids = Numbered(form, free) /\ kept = keptOldOrdinal(form, was)
          OBVIOUS
        <4> HIDE DEF free, form, was, ids, kept
        <4>3. Planned(kept, was, ids) /\ (fieldPlanIsIdentity(kept, was) => ids = was)
          BY <4>1, <4>2, PlanIs
        <4> QED BY <4>3 DEF was
      <3> QED BY <3>1, <3>2
    <2>5. next \in {"planTemplates", "remapFields"}
      OBVIOUS
    <2> HIDE DEF ids, kept, next
    <2>6. /\ DOMAIN rows = {t} /\ rows[t] \in TypeRow /\ rows[t].fields = ids /\ rows[t].templates = old.templates
          /\ rows[t] # Gone
      BY <2>2, <2>4, ContentsAssumption DEF TypeRow
    <2> HIDE DEF rows, notes
    <2>7. /\ tx'[u].pc = next /\ tx'[u].req = q /\ tx'[u].seen = kept /\ tx'[u].scan = notes
          /\ tx'[u].excl = tx[u].excl /\ tx'[u].share = tx[u].share /\ tx'[u].dirty = rows
      BY <1>2, StepEffect DEF Inv, Slots
    <2>8. tx'[u].pc \in Remapping \ Arranging
      BY <2>5, <2>7 DEF Remapping, Arranging
    <2>9. FieldsInv(row, torn, tx'[u])
      <3>1. Dirty(tx'[u]) = {t} /\ t \notin Note \cup Card
        BY <2>1, <2>6, <2>7, ContentsAssumption DEF Dirty
      <3>2. Dirty(tx'[u]) \cap Note = {} /\ Dirty(tx'[u]) \cap Card = {} /\ notes \subseteq Note
        BY <3>1 DEF notes, NotesOfType, Live
      <3> QED BY <2>1, <2>4, <2>5, <2>6, <2>7, <3>1, <3>2 DEF FieldsInv, notes, Arranging
    <2>10. TypeInv(row, torn, tx'[u])
      BY <2>1, <2>7, <2>8, <2>9 DEF TypeInv, Forming, Remapping, Arranging
    <2>11. Locks(row, tx'[u])
      BY <2>1, <2>2, <2>6, <2>7, <2>8, EditingStages, ContentsAssumption DEF Locks, Dirty, Row
    <2>12. \A r \in Request \ {u} : Apart(tx'[u], tx[r])
      <3>1. /\ Lockable(u, tx'[u].excl \ tx[u].excl) /\ Updatable(u, Dirty(tx'[u]) \ Held(tx[u]))
            /\ Sharable(u, tx'[u].share \ tx[u].share)
        BY <2>1, <2>6, <2>7 DEF Lockable, Updatable, Sharable, Dirty, Held
      <3>2. ASSUME NEW r \in Request \ {u}, NEW k \in Dirty(tx[r]) \cap Type
            PROVE  Disjoint(tx'[u].dirty[t].templates, tx[r].dirty[k].templates)
        <4>1. Locks(row, tx[r]) /\ Apart(tx[u], tx[r])
          BY DEF Inv, Local
        <4>2. k # t /\ t \in Live(row, Type) \ {k}
          BY <2>1, <2>2, <3>2, <4>1 DEF Apart, Held, Live
        <4>3. Disjoint(tx[r].dirty[k].templates, row[t].templates)
          BY <3>2, <4>1, <4>2 DEF Locks
        <4> QED BY <2>6, <2>7, <4>3 DEF Disjoint
      <3> QED BY <2>6, <2>7, <3>1, <3>2, Grown DEF Dirty
    <2>13. Local(row, torn, tx'[u])
      BY <2>8, <2>10, <2>11, EditingStages, EditingLocal
    <2> QED BY <1>2, <2>12, <2>13, QuietStep DEF Slots
  <1> QED BY <1>1, <1>2 DEF planFields

\* What a request knows while it remaps a note type.
LEMMA Remaps ==
    ASSUME Inv, NEW u \in Request, tx[u].pc \in Remapping
    PROVE  LET me == tx[u]
               t == me.req.type
           IN
           /\ TypeForm(me.req) /\ Confirmed(me.req) /\ t \in Type /\ t \in me.excl /\ t \in Dirty(me)
           /\ (t \in Cloze => Len(me.req.templates) = 1)
           /\ Locks(row, me) /\ FieldsInv(row, torn, me)
           /\ row[t] \in TypeRow /\ row[t] # Gone /\ row[t].templates \in Seq(Template)
           /\ row[t].templates # <<>> /\ IsInjective(row[t].templates)
           /\ me.dirty[t] \in TypeRow /\ me.dirty[t] # Gone
           /\ t \notin Note \cup Card
           /\ \A n \in Dirty(me) \cap Note : Refitted(row, torn, me, n) /\ me.dirty[n] # Gone
  <1>1. TypeInv(row, torn, tx[u]) /\ Locks(row, tx[u])
    BY DEF Inv, Local
  <1>2. FieldsInv(row, torn, tx[u]) /\ TypeForm(tx[u].req)
    BY <1>1 DEF TypeInv
  <1>3. tx[u].req.type \in tx[u].excl /\ tx[u].req.type \in Live(row, Type)
    BY <1>1, <1>2 DEF TypeInv, Locks, TypeForm, Live
  <1>4. Gone \notin TypeRow /\ Gone \notin NoteRow /\ Type \cap (Note \cup Card) = {}
    BY ContentsAssumption
  <1> DEFINE t == tx[u].req.type
  <1>5. /\ row[t] \in TypeRow /\ row[t] # Gone /\ row[t].templates \in Seq(Template)
        /\ row[t].templates # <<>> /\ IsInjective(row[t].templates)
    BY <1>3, RowsTyped DEF Live
  <1>6. /\ Confirmed(tx[u].req) /\ t \in Type /\ (t \in Cloze => Len(tx[u].req.templates) = 1)
        /\ t \in Dirty(tx[u]) /\ tx[u].dirty[t] \in TypeRow /\ tx[u].dirty[t] # Gone /\ t \notin Note \cup Card
    BY <1>1, <1>2, <1>4 DEF TypeInv, FieldsInv, TypeForm
  <1>7. \A n \in Dirty(tx[u]) \cap Note : Refitted(row, torn, tx[u], n) /\ tx[u].dirty[n] # Gone
    BY <1>2, <1>4 DEF FieldsInv, Refitted
  <1> QED BY <1>1, <1>2, <1>3, <1>5, <1>6, <1>7

\* A position keeps its value where its field was, and the first one stays the
\* first unless another field has become it.
LEMMA RemappedFits ==
    ASSUME NEW vals \in Seq(Value), vals # <<>>, NEW old \in Seq(Field),
           NEW new \in Seq(Field), new # <<>>, NEW kept, Planned(kept, old, new)
    PROVE  /\ Remapped(vals, kept) \in Seq(Value) /\ Remapped(vals, kept) # <<>>
           /\ Fitting(vals, old) => Fitting(Remapped(vals, kept), new)
           /\ ~FirstFieldMoved(kept) => Remapped(vals, kept)[1] = vals[1]
  <1> DEFINE now == Remapped(vals, kept)
  <1>1. /\ DOMAIN kept = 1 .. Len(new) /\ Len(new) \in Nat \ {0} /\ 1 \in DOMAIN kept
        /\ \A i \in DOMAIN kept :
              \/ kept[i] = -1
              \/ kept[i] \in Nat /\ kept[i] + 1 \in DOMAIN old /\ old[kept[i] + 1] = new[i]
    BY DEF Planned
  <1>2. \A i \in DOMAIN kept : now[i] = IF kept[i] < 0 \/ kept[i] + 1 \notin DOMAIN vals THEN Empty ELSE vals[kept[i] + 1]
    BY DEF Remapped
  <1>3. now \in [1 .. Len(new) -> Value]
    <2>1. Empty \in Value /\ \A j \in DOMAIN vals : vals[j] \in Value
      BY DEF Value
    <2> QED BY <1>1, <2>1 DEF Remapped
  <1> HIDE DEF now
  <1>4. now \in Seq(Value) /\ Len(now) = Len(new) /\ now # <<>>
    <2> DEFINE m == Len(new)
    <2>1. m \in Nat \ {0}
      BY <1>1
    <2>2. now \in [1 .. m -> Value]
      BY <1>3
    <2> HIDE DEF m
    <2>3. now \in Seq(Value) /\ Len(now) = m
      BY <2>1, <2>2
    <2> QED BY <2>1, <2>3 DEF m
  <1>5. ASSUME Fitting(vals, old) PROVE Fitting(now, new)
    <2> SUFFICES ASSUME NEW i \in DOMAIN new PROVE now[i] = Empty \/ now[i][1] = new[i]
      BY <1>4 DEF Fitting
    <2>1. i \in DOMAIN kept /\ DOMAIN vals = DOMAIN old
      BY <1>1, <1>5 DEF Fitting
    <2>2. CASE kept[i] = -1
      BY <1>2, <2>1, <2>2
    <2>3. CASE kept[i] \in Nat /\ kept[i] + 1 \in DOMAIN old /\ old[kept[i] + 1] = new[i]
      BY <1>2, <1>5, <2>1, <2>3 DEF Fitting
    <2> QED BY <1>1, <2>1, <2>2, <2>3
  <1>6. ASSUME ~FirstFieldMoved(kept) PROVE now[1] = vals[1]
    BY <1>1, <1>2, <1>6 DEF FirstFieldMoved
  <1> QED BY <1>4, <1>5, <1>6 DEF now

LEMMA FollowsIs ==
    ASSUME NEW v, NEW n
    PROVE  Follows(v, n) <=> CardsFollowTemplates(v, n) /\ Fitting(v[n].vals, v[v[n].type].fields)
  BY DEF Follows, ValuesFollowFields, Fitting

\* A remapping request that has rewritten notes of the type and nothing else.
LEMMA NotesWritten ==
    ASSUME Inv, NEW u \in Request, NEW now, tx[u].pc \in Remapping, now.pc \in Remapping \ Arranging,
           now.req = tx[u].req, now.excl = tx[u].excl, now.share = tx[u].share,
           FieldsInv(row, torn, now), now.dirty[tx[u].req.type] = tx[u].dirty[tx[u].req.type],
           Updatable(u, Dirty(now) \ Held(tx[u]))
    PROVE  Local(row, torn, now) /\ \A r \in Request \ {u} : Apart(now, tx[r])
  <1> DEFINE t == tx[u].req.type
  <1>1. /\ TypeForm(now.req) /\ Confirmed(now.req) /\ t \in Type /\ t \in now.excl /\ t \in Dirty(tx[u])
        /\ (t \in Cloze => Len(now.req.templates) = 1) /\ Locks(row, tx[u])
    BY Remaps
  <1>2. /\ t \in Dirty(now) /\ Dirty(now) \subseteq {t} \cup Note \cup Card /\ Dirty(now) \cap Type = {t}
        /\ Dirty(now) \cap Card = {} /\ Dirty(now) \subseteq Row \ Deck
    BY <1>1, ContentsAssumption DEF FieldsInv, Row
  <1>3. \A n \in Dirty(now) : now.dirty[n] # Gone
    BY <1>2, ContentsAssumption DEF FieldsInv, Refitted
  <1>4. Locks(row, now)
    BY <1>1, <1>2, <1>3, EditingStages DEF Locks
  <1>5. TypeInv(row, torn, now)
    BY <1>1, EditingStages DEF TypeInv
  <1>6. \A r \in Request \ {u} : Apart(now, tx[r])
    <2>1. Lockable(u, now.excl \ tx[u].excl) /\ Sharable(u, now.share \ tx[u].share)
      BY DEF Lockable, Sharable
    <2> QED BY <1>1, <1>2, <2>1, Grown
  <1> QED BY <1>4, <1>5, <1>6, EditingStages, EditingLocal

LEMMA RemapNoteFieldsKeeps ==
    ASSUME Inv, NEW u \in Request, RemapNoteFields(u)
    PROVE  Inv' /\ row' = row
  <1> DEFINE q == tx[u].req
             t == q.type
             kept == tx[u].seen
             new == tx[u].dirty[t].fields
             notes == {n \in tx[u].scan : row[n] # Gone /\ row[n].type = t}
             rows == [n \in notes |-> [row[n] EXCEPT !.vals = Remapped(@, kept)]]
             dirty == rows ++ tx[u].dirty
             next == IF FirstFieldMoved(kept) THEN "listFields" ELSE "planTemplates"
             held == tx[u].excl \cup {x \in DOMAIN rows : rows[x] = Gone}
  <1>1. /\ tx[u].pc = "remapFields" /\ Updatable(u, tx[u].scan) /\ UNCHANGED <<row, torn, outrun>>
        /\ Step(u, [pc |-> next, dirty |-> dirty, excl |-> held])
    BY DEF RemapNoteFields, Write
  <1>2. tx[u].pc \in Remapping
    BY <1>1 DEF Remapping
  <1>3. /\ t \in Type /\ t \notin Note \cup Card /\ FieldsInv(row, torn, tx[u])
        /\ row[t] \in TypeRow /\ tx[u].dirty[t] \in TypeRow
        /\ tx[u].dirty[t].templates = row[t].templates /\ new # <<>>
        /\ Dirty(tx[u]) = {t} /\ tx[u].scan \subseteq Note /\ NotesOfType(row, t) \subseteq tx[u].scan
        /\ Planned(kept, row[t].fields, new) /\ tx[u].share = {}
    BY <1>1, <1>2, Remaps DEF FieldsInv
  <1>4. notes = NotesOfType(row, t) /\ notes \subseteq Live(row, Note) /\ notes \subseteq tx[u].scan
    BY <1>3 DEF NotesOfType, Live
  <1>5. ASSUME NEW n \in notes
        PROVE  LET note == rows[n] IN
               /\ note \in NoteRow /\ note.vals # <<>> /\ note.home = row[n].home /\ note.type = t
               /\ n \notin torn => Fitting(note.vals, new)
               /\ ~FirstFieldMoved(kept) => note.sum = ComputeNoteChecksum(note.vals)
    <2> DEFINE vals == row[n].vals
               note == [row[n] EXCEPT !.vals = Remapped(vals, kept)]
    <2>1. rows[n] = note
      OBVIOUS
    <2>2. row[n] \in NoteRow /\ row[n].type = t /\ vals # <<>> /\ row[n].sum = ComputeNoteChecksum(vals)
      BY <1>4, <1>5 DEF Inv, Tables, Sound
    <2>3. vals \in Seq(Value) /\ row[t].fields \in Seq(Field) /\ new \in Seq(Field)
      BY <1>3, <2>2 DEF NoteRow, TypeRow
    <2>4. n \notin torn => Fitting(vals, row[t].fields)
      BY <1>4, <1>5, <2>2, FollowsIs DEF Inv, Tables
    <2> HIDE DEF vals, rows
    <2>5. /\ note \in NoteRow /\ note.vals = Remapped(vals, kept) /\ note.vals # <<>>
          /\ note.home = row[n].home /\ note.type = t /\ note.sum = row[n].sum
      <3>1. Remapped(vals, kept) \in Seq(Value) /\ Remapped(vals, kept) # <<>>
        BY <1>3, <2>2, <2>3, RemappedFits
      <3> QED BY <2>2, <3>1 DEF NoteRow
    <2>6. n \notin torn => Fitting(note.vals, new)
      <3>1. n \notin torn => Fitting(Remapped(vals, kept), new)
        BY <1>3, <2>2, <2>3, <2>4, RemappedFits
      <3> QED BY <2>5, <3>1
    <2>7. ~FirstFieldMoved(kept) => note.sum = ComputeNoteChecksum(note.vals)
      <3>1. ~FirstFieldMoved(kept) => Remapped(vals, kept)[1] = vals[1]
        BY <1>3, <2>2, <2>3, RemappedFits
      <3> QED BY <2>2, <2>5, <3>1 DEF ComputeNoteChecksum
    <2> QED BY <2>1, <2>5, <2>6, <2>7
  <1>6. DOMAIN rows = notes /\ \A n \in notes : rows[n] # Gone
    <2>1. Gone \notin NoteRow
      BY ContentsAssumption
    <2>2. \A n \in notes : rows[n] \in NoteRow
      BY <1>5
    <2>3. DOMAIN rows = notes
      OBVIOUS
    <2> HIDE DEF rows, notes
    <2> QED BY <2>1, <2>2, <2>3
  <1>7. /\ DOMAIN dirty = {t} \cup notes /\ dirty[t] = tx[u].dirty[t]
        /\ \A n \in notes : dirty[n] = rows[n]
    BY <1>3, <1>4, <1>6 DEF ++, Dirty, Live
  <1>8. held = tx[u].excl /\ next \in {"listFields", "planTemplates"}
    BY <1>6
  <1>9. next = "planTemplates" => ~FirstFieldMoved(kept)
    OBVIOUS
  <1> HIDE DEF rows, dirty, next, held, notes
  <1>10. /\ tx'[u].pc = next /\ tx'[u].req = q
         /\ tx'[u].excl = tx[u].excl /\ tx'[u].share = tx[u].share /\ tx'[u].dirty = dirty
    BY <1>1, <1>8, StepEffect DEF Inv, Slots
  <1>11. tx'[u].pc \in Remapping \ Arranging
    BY <1>8, <1>10 DEF Remapping, Arranging
  <1>12. Dirty(tx'[u]) = {t} \cup notes /\ Dirty(tx'[u]) \cap Note = notes /\ Dirty(tx'[u]) \cap Card = {}
    <2>1. Dirty(tx'[u]) = {t} \cup notes
      BY <1>7, <1>10 DEF Dirty
    <2>2. notes \subseteq Note /\ Note \cap Card = {}
      BY <1>4, ContentsAssumption DEF Live
    <2> QED BY <1>3, <2>1, <2>2
  <1>13. \A n \in Dirty(tx'[u]) \cap Note : Refitted(row, torn, tx'[u], n)
    BY <1>4, <1>5, <1>7, <1>8, <1>9, <1>10, <1>12 DEF Refitted, NotesOfType, Live
  <1>14. FieldsInv(row, torn, tx'[u])
    BY <1>3, <1>4, <1>7, <1>8, <1>10, <1>11, <1>12, <1>13 DEF FieldsInv, Live, Arranging
  <1>15. Updatable(u, Dirty(tx'[u]) \ Held(tx[u]))
    BY <1>1, <1>3, <1>4, <1>12 DEF Updatable, Held
  <1>16. Local(row, torn, tx'[u]) /\ \A r \in Request \ {u} : Apart(tx'[u], tx[r])
    BY <1>2, <1>7, <1>10, <1>11, <1>14, <1>15, NotesWritten
  <1> QED BY <1>1, <1>16, QuietStep DEF Slots

LEMMA ListNoteFieldsForNoteTypeKeeps ==
    ASSUME Inv, NEW u \in Request, ListNoteFieldsForNoteType(u)
    PROVE  Inv' /\ row' = row
  <1> DEFINE t == tx[u].req.type
             v == View(u)
             read == [n \in NotesOfType(v, t) |-> v[n].vals]
  <1>1. /\ tx[u].pc = "listFields" /\ UNCHANGED <<row, torn, outrun>>
        /\ Step(u, [pc |-> "updateChecksums", scan |-> read])
    BY DEF ListNoteFieldsForNoteType
  <1>2. tx[u].pc \in Remapping /\ FieldsInv(row, torn, tx[u]) /\ NotesOfType(row, t) \subseteq Dirty(tx[u])
        /\ \A n \in Dirty(tx[u]) \cap Note : Refitted(row, torn, tx[u], n) /\ tx[u].dirty[n] # Gone
    BY <1>1, Remaps DEF Remapping, FieldsInv
  <1>3. NotesOfType(v, t) = Dirty(tx[u]) \cap Note
    <2>1. \A n \in Note : v[n] = IF n \in Dirty(tx[u]) THEN tx[u].dirty[n] ELSE row[n]
      BY ViewAt DEF Row
    <2> QED BY <1>2, <2>1 DEF NotesOfType, Live, Refitted
  <1>4. DOMAIN read = Dirty(tx[u]) \cap Note /\ \A n \in DOMAIN read : read[n] = tx[u].dirty[n].vals
    BY <1>3, ViewAt DEF Row
  <1> HIDE DEF read
  <1>5. /\ tx'[u].pc = "updateChecksums" /\ tx'[u].req = tx[u].req /\ tx'[u].scan = read
        /\ tx'[u].excl = tx[u].excl /\ tx'[u].share = tx[u].share /\ tx'[u].dirty = tx[u].dirty
    BY <1>1, StepEffect DEF Inv, Slots
  <1>6. tx'[u].pc \in Remapping \ Arranging
    BY <1>5 DEF Remapping, Arranging
  <1>7. FieldsInv(row, torn, tx'[u])
    <2>1. \A n \in Dirty(tx'[u]) \cap Note : Refitted(row, torn, tx'[u], n)
      BY <1>2, <1>5 DEF Refitted, Dirty
    <2> QED BY <1>1, <1>2, <1>4, <1>5, <2>1 DEF FieldsInv, Dirty, Arranging
  <1>8. Updatable(u, Dirty(tx'[u]) \ Held(tx[u]))
    BY <1>5 DEF Updatable, Held, Dirty
  <1>9. Local(row, torn, tx'[u]) /\ \A r \in Request \ {u} : Apart(tx'[u], tx[r])
    BY <1>2, <1>5, <1>6, <1>7, <1>8, NotesWritten
  <1> QED BY <1>1, <1>9, QuietStep DEF Slots

LEMMA BulkUpdateNoteChecksumsKeeps ==
    ASSUME Inv, NEW u \in Request, BulkUpdateNoteChecksums(u)
    PROVE  Inv' /\ row' = row
  <1> DEFINE t == tx[u].req.type
             v == View(u)
             read == tx[u].scan
             notes == Live(v, DOMAIN read)
             rows == [n \in notes |-> [v[n] EXCEPT !.sum = ComputeNoteChecksum(read[n])]]
             dirty == rows ++ tx[u].dirty
             held == tx[u].excl \cup {x \in DOMAIN rows : rows[x] = Gone}
  <1>1. /\ tx[u].pc = "updateChecksums" /\ UNCHANGED <<row, torn, outrun>>
        /\ Step(u, [pc |-> "planTemplates", dirty |-> dirty, excl |-> held])
    BY DEF BulkUpdateNoteChecksums, Write
  <1>2. /\ tx[u].pc \in Remapping /\ FieldsInv(row, torn, tx[u]) /\ NotesOfType(row, t) \subseteq Dirty(tx[u])
        /\ \A n \in Dirty(tx[u]) \cap Note : Refitted(row, torn, tx[u], n) /\ tx[u].dirty[n] # Gone
        /\ DOMAIN read = Dirty(tx[u]) \cap Note /\ \A n \in DOMAIN read : read[n] = tx[u].dirty[n].vals
        /\ t \in Type /\ t \notin Note \cup Card /\ t \in Dirty(tx[u])
    BY <1>1, Remaps DEF Remapping, FieldsInv
  <1>3. notes = Dirty(tx[u]) \cap Note /\ \A n \in notes : v[n] = tx[u].dirty[n]
    <2>1. \A n \in Dirty(tx[u]) \cap Note : v[n] = tx[u].dirty[n]
      BY ViewAt DEF Row
    <2> QED BY <1>2, <2>1 DEF Live
  <1> HIDE DEF notes, v
  <1>4. ASSUME NEW n \in notes
        PROVE  LET old == tx[u].dirty[n] IN
               /\ rows[n] \in NoteRow /\ rows[n].vals = old.vals /\ rows[n].home = old.home
               /\ rows[n].type = old.type /\ rows[n].sum = ComputeNoteChecksum(old.vals)
    <2> DEFINE old == tx[u].dirty[n]
    <2>1. old \in NoteRow /\ old.vals \in Seq(Value) /\ old.vals # <<>>
      BY <1>2, <1>3 DEF Refitted, NoteRow
    <2>2. ComputeNoteChecksum(old.vals) \in Value
      BY <2>1 DEF ComputeNoteChecksum
    <2>3. rows[n] = [old EXCEPT !.sum = ComputeNoteChecksum(old.vals)]
      BY <1>2, <1>3
    <2> QED BY <2>1, <2>2, <2>3 DEF NoteRow
  <1>5. DOMAIN rows = notes /\ \A n \in notes : rows[n] # Gone
    BY <1>4, ContentsAssumption
  <1>6. /\ DOMAIN dirty = Dirty(tx[u]) /\ (\A x \in Dirty(tx[u]) \ notes : dirty[x] = tx[u].dirty[x])
        /\ \A n \in notes : dirty[n] = rows[n]
    BY <1>3, <1>5 DEF ++, Dirty
  <1>7. held = tx[u].excl
    BY <1>5
  <1> HIDE DEF rows, dirty, held
  <1>8. /\ tx'[u].pc = "planTemplates" /\ tx'[u].req = tx[u].req
        /\ tx'[u].excl = tx[u].excl /\ tx'[u].share = tx[u].share /\ tx'[u].dirty = dirty
    BY <1>1, <1>7, StepEffect DEF Inv, Slots
  <1>9. tx'[u].pc \in Remapping \ Arranging
    BY <1>8 DEF Remapping, Arranging
  <1>10. Dirty(tx'[u]) = Dirty(tx[u]) /\ tx'[u].dirty[t] = tx[u].dirty[t]
    BY <1>2, <1>3, <1>6, <1>8 DEF Dirty
  <1>11. \A n \in Dirty(tx'[u]) \cap Note : Refitted(row, torn, tx'[u], n)
    BY <1>2, <1>3, <1>4, <1>6, <1>8, <1>10 DEF Refitted
  <1>12. FieldsInv(row, torn, tx'[u])
    BY <1>1, <1>2, <1>8, <1>10, <1>11 DEF FieldsInv, Arranging
  <1>13. Updatable(u, Dirty(tx'[u]) \ Held(tx[u]))
    BY <1>10 DEF Updatable, Held
  <1>14. Local(row, torn, tx'[u]) /\ \A r \in Request \ {u} : Apart(tx'[u], tx[r])
    BY <1>2, <1>8, <1>9, <1>10, <1>12, <1>13, NotesWritten
  <1> QED BY <1>1, <1>14, QuietStep DEF Slots

-----------------------------------------------------------------------------
(* Editing a note type: the templates.                                     *)

\* What FieldsInv says of the fields and the notes stays so while cards are
\* written.
LEMMA FieldsCarry ==
    ASSUME NEW v, NEW lost, NEW me, NEW now, NEW cards, FieldsInv(v, lost, me),
           me.pc \in {"planTemplates", "offset", "deleteCards"},
           now.pc \in {"offset", "deleteCards", "deleteTemplates"},
           now.pc = "offset" => me.pc = "planTemplates" /\ cards = {},
           now.req = me.req, now.share = me.share,
           Dirty(now) = Dirty(me) \cup cards, cards \subseteq Card,
           me.req.type \in Type,
           \A x \in Dirty(me) \ Card : now.dirty[x] = me.dirty[x]
    PROVE  FieldsInv(v, lost, now)
  <1> DEFINE t == me.req.type
  <1>1. t \notin Note \cup Card /\ Note \cap Card = {}
    BY ContentsAssumption
  <1>2. /\ Dirty(now) \cap Note = Dirty(me) \cap Note /\ now.dirty[t] = me.dirty[t]
        /\ \A n \in Dirty(me) \cap Note : now.dirty[n] = me.dirty[n]
    BY <1>1 DEF FieldsInv
  <1>3. \A n \in Dirty(now) \cap Note : Refitted(v, lost, now, n)
    <2> TAKE n \in Dirty(now) \cap Note
    <2>1. Refitted(v, lost, me, n)
      BY <1>2 DEF FieldsInv
    <2> QED BY <1>2, <2>1 DEF Refitted
  <1>4. now.pc = "offset" => Dirty(now) \cap Card = {}
    BY DEF FieldsInv, Arranging
  <1>5. \/ now.dirty[t].fields = v[t].fields /\ Dirty(now) \cap Note = {}
        \/ NotesOfType(v, t) \subseteq Dirty(now)
    BY <1>2 DEF FieldsInv
  <1> QED BY <1>1, <1>2, <1>3, <1>4, <1>5 DEF FieldsInv, Arranging

\* A remapping request that has written cards and nothing else.
LEMMA CardsWritten ==
    ASSUME Inv, NEW u \in Request, NEW now, NEW cards,
           tx[u].pc \in {"planTemplates", "offset", "deleteCards"},
           now.pc \in {"offset", "deleteCards", "deleteTemplates"},
           now.pc = "offset" => tx[u].pc = "planTemplates" /\ cards = {},
           now.req = tx[u].req, now.share = tx[u].share, cards \subseteq Live(row, Card),
           tx[u].excl \subseteq now.excl, now.excl \subseteq tx[u].excl \cup cards,
           Dirty(now) = Dirty(tx[u]) \cup cards,
           \A x \in Dirty(tx[u]) \ cards : now.dirty[x] = tx[u].dirty[x],
           \A c \in cards : now.dirty[c] = Gone => c \in now.excl,
           Lockable(u, cards), TemplatesInv(row, now)
    PROVE  Local(row, torn, now) /\ \A r \in Request \ {u} : Apart(now, tx[r])
  <1> DEFINE t == tx[u].req.type
  <1>1. tx[u].pc \in Remapping /\ now.pc \in Arranging /\ now.pc \in Remapping
    BY DEF Remapping, Arranging
  <1>2. /\ TypeForm(now.req) /\ Confirmed(now.req) /\ t \in Type /\ t \in now.excl /\ t \in Dirty(tx[u])
        /\ (t \in Cloze => Len(now.req.templates) = 1) /\ Locks(row, tx[u])
        /\ FieldsInv(row, torn, tx[u])
    BY <1>1, Remaps
  <1>3. FieldsInv(row, torn, now)
    BY <1>2, FieldsCarry DEF Live
  <1>4. /\ cards \cap (Type \cup Deck) = {} /\ cards \subseteq Row /\ \A c \in cards : row[c] # Gone
    BY ContentsAssumption DEF Live, Row
  <1>5. Locks(row, now)
    <2>1. now.excl \subseteq Row /\ now.share \subseteq Row /\ Dirty(now) \subseteq Row \ Deck
      BY <1>2, <1>4 DEF Locks
    <2>2. \A x \in now.excl \cup now.share : row[x] # Gone
      BY <1>2, <1>4 DEF Locks
    <2>3. \A x \in Dirty(now) : now.dirty[x] = Gone => x \in now.excl
      BY <1>2 DEF Locks
    <2>4. \A k \in Dirty(now) \cap Type : k \in Dirty(tx[u]) \cap Type /\ now.dirty[k] = tx[u].dirty[k]
      BY <1>4
    <2> QED BY <1>1, <1>2, <2>1, <2>2, <2>3, <2>4, EditingStages DEF Locks
  <1>6. TypeInv(row, torn, now)
    BY <1>1, <1>2, <1>3, EditingStages DEF TypeInv
  <1>7. \A r \in Request \ {u} : Apart(now, tx[r])
    <2>1. Lockable(u, now.excl \ tx[u].excl) /\ Updatable(u, Dirty(now) \ Held(tx[u]))
      BY DEF Lockable, Updatable, Held
    <2>2. Sharable(u, now.share \ tx[u].share)
      BY DEF Sharable
    <2> QED BY <1>4, <2>1, <2>2, Grown
  <1> QED BY <1>1, <1>5, <1>6, <1>7, EditingStages, EditingLocal

LEMMA planTemplatesKeeps ==
    ASSUME Inv, NEW u \in Request, planTemplates(u),
           tx[u].req.templates # row[tx[u].req.type].templates
    PROVE  Inv' /\ row' = row
  <1> DEFINE q == tx[u].req
             old == row[q.type].templates
             plan == [old |-> old, new |-> q.templates]
             scan == CardsFrom(row, Changed(old, q.templates))
  <1>1. CASE Refuse(u)
    BY <1>1, Refused
  <1>2. CASE /\ Known(q.templates, old) /\ UNCHANGED <<row, torn, outrun>>
             /\ Step(u, [pc |-> "offset", seen |-> plan, scan |-> scan])
    <2>1. tx[u].pc = "planTemplates" /\ scan \subseteq Card /\ plan.old = old /\ plan.new = q.templates
      BY DEF planTemplates, CardsFrom, Live
    <2>2. Dirty(tx[u]) \cap Card = {}
      BY <2>1, Remaps DEF Remapping, Arranging, FieldsInv
    <2> HIDE DEF plan, scan
    <2>3. /\ tx'[u].pc = "offset" /\ tx'[u].req = q /\ tx'[u].seen = plan /\ tx'[u].scan = scan
          /\ tx'[u].excl = tx[u].excl /\ tx'[u].share = tx[u].share /\ tx'[u].dirty = tx[u].dirty
      BY <1>2, StepEffect DEF Inv, Slots
    <2>4. TemplatesInv(row, tx'[u])
      BY <1>2, <2>1, <2>2, <2>3 DEF TemplatesInv, Dirty
    <2>5. Lockable(u, {})
      BY DEF Lockable
    <2>6. Local(row, torn, tx'[u]) /\ \A r \in Request \ {u} : Apart(tx'[u], tx[r])
      <3> DEFINE none == {}
      <3>1. /\ none = {} /\ none \subseteq Live(row, Card) /\ Lockable(u, none)
            /\ tx'[u].excl \subseteq tx[u].excl \cup none /\ Dirty(tx'[u]) = Dirty(tx[u]) \cup none
            /\ (\A x \in Dirty(tx[u]) \ none : tx'[u].dirty[x] = tx[u].dirty[x])
            /\ \A c \in none : tx'[u].dirty[c] = Gone => c \in tx'[u].excl
        BY <2>3, <2>5 DEF Dirty
      <3> HIDE DEF none
      <3> QED BY <2>1, <2>3, <2>4, <3>1, CardsWritten
    <2> QED BY <1>2, <2>6, QuietStep DEF Slots
  <1> QED BY <1>1, <1>2 DEF planTemplates

LEMMA OffsetCardOrdinalsKeeps ==
    ASSUME Inv, NEW u \in Request, OffsetCardOrdinalsForTemplates(u)
    PROVE  Inv' /\ row' = row
  <1> DEFINE p == tx[u].seen
             cards == {c \in tx[u].scan : row[c] # Gone /\ row[c].tmpl \in Changed(p.old, p.new)}
             rows == [c \in cards |-> [row[c] EXCEPT !.ord = Offset(@)]]
             dirty == rows ++ tx[u].dirty
             scan == CardsFrom(row, Removed(p.old, p.new))
  <1>1. /\ tx[u].pc = "offset" /\ Lockable(u, tx[u].scan) /\ UNCHANGED <<row, torn, outrun>>
        /\ Step(u, [pc |-> "deleteCards", dirty |-> dirty, scan |-> scan])
    BY DEF OffsetCardOrdinalsForTemplates
  <1>2. TemplatesInv(row, tx[u]) /\ FieldsInv(row, torn, tx[u])
    BY <1>1 DEF Inv, Local, TypeInv, Arranging, Remapping
  <1>3. tx[u].scan \subseteq Card /\ Dirty(tx[u]) \cap Card = {} /\ scan \subseteq Card
    BY <1>1, <1>2 DEF TemplatesInv, FieldsInv, CardsFrom, Live, Arranging
  <1>4. cards \subseteq Live(row, Card) /\ Lockable(u, cards)
    BY <1>1, <1>3 DEF Live, Lockable
  <1>5. ASSUME NEW c \in cards PROVE rows[c] # Gone /\ rows[c] = [row[c] EXCEPT !.ord = Offset(@)]
    <2>1. row[c] \in CardRow
      BY <1>4, RowsTyped
    <2>2. [row[c] EXCEPT !.ord = Offset(@)] \in CardRow
      BY <2>1 DEF CardRow, Offset
    <2> QED BY <2>2, ContentsAssumption
  <1>6. /\ DOMAIN dirty = Dirty(tx[u]) \cup cards
        /\ \A x \in Dirty(tx[u]) \ cards : dirty[x] = tx[u].dirty[x]
        /\ \A c \in cards : dirty[c] = rows[c]
    BY DEF ++, Dirty
  <1> HIDE DEF rows, dirty, scan
  <1>7. /\ tx'[u].pc = "deleteCards" /\ tx'[u].req = tx[u].req /\ tx'[u].seen = p /\ tx'[u].scan = scan
        /\ tx'[u].excl = tx[u].excl /\ tx'[u].share = tx[u].share /\ tx'[u].dirty = dirty
    BY <1>1, StepEffect DEF Inv, Slots
  <1>8. TemplatesInv(row, tx'[u])
    <2>1. \A c \in Dirty(tx'[u]) \cap Card : row[c] # Gone /\ Staged(row, tx'[u], c)
      BY <1>3, <1>5, <1>6, <1>7 DEF Staged, Dirty
    <2> QED BY <1>1, <1>2, <1>3, <1>7, <2>1 DEF TemplatesInv
  <1>9. Local(row, torn, tx'[u]) /\ \A r \in Request \ {u} : Apart(tx'[u], tx[r])
    <2>1. \A c \in cards : tx'[u].dirty[c] = Gone => c \in tx'[u].excl
      BY <1>5, <1>6, <1>7
    <2>2. /\ Dirty(tx'[u]) = Dirty(tx[u]) \cup cards
          /\ \A x \in Dirty(tx[u]) \ cards : tx'[u].dirty[x] = tx[u].dirty[x]
      BY <1>6, <1>7 DEF Dirty
    <2> HIDE DEF cards
    <2> QED BY <1>1, <1>4, <1>7, <1>8, <2>1, <2>2, CardsWritten
  <1> QED BY <1>1, <1>9, QuietStep DEF Slots

LEMMA DeleteCardsForTemplatesKeeps ==
    ASSUME Inv, NEW u \in Request, DeleteCardsForTemplates(u)
    PROVE  Inv' /\ row' = row
  <1> DEFINE p == tx[u].seen
             cards == {c \in tx[u].scan : row[c] # Gone /\ row[c].tmpl \in Removed(p.old, p.new)}
             rows == [c \in cards |-> Gone]
             dirty == rows ++ tx[u].dirty
             held == tx[u].excl \cup {x \in DOMAIN rows : rows[x] = Gone}
  <1>1. /\ tx[u].pc = "deleteCards" /\ Lockable(u, tx[u].scan) /\ UNCHANGED <<row, torn, outrun>>
        /\ Step(u, [pc |-> "deleteTemplates", dirty |-> dirty, excl |-> held])
    BY DEF DeleteCardsForTemplates, Write
  <1>2. TemplatesInv(row, tx[u]) /\ tx[u].scan \subseteq Card
    BY <1>1 DEF Inv, Local, TypeInv, Arranging, TemplatesInv
  <1>3. cards \subseteq Live(row, Card) /\ Lockable(u, cards)
    BY <1>1, <1>2 DEF Live, Lockable
  <1>4. /\ DOMAIN dirty = Dirty(tx[u]) \cup cards /\ held = tx[u].excl \cup cards
        /\ \A x \in Dirty(tx[u]) \ cards : dirty[x] = tx[u].dirty[x]
        /\ \A c \in cards : dirty[c] = Gone
    BY DEF ++, Dirty
  <1> HIDE DEF rows, dirty, held
  <1>5. /\ tx'[u].pc = "deleteTemplates" /\ tx'[u].req = tx[u].req /\ tx'[u].seen = p
        /\ tx'[u].excl = held /\ tx'[u].share = tx[u].share /\ tx'[u].dirty = dirty
    BY <1>1, StepEffect DEF Inv, Slots
  <1>6. TemplatesInv(row, tx'[u])
    <2>1. ASSUME NEW c \in Dirty(tx'[u]) \cap Card PROVE row[c] # Gone /\ Staged(row, tx'[u], c)
      <3>1. CASE c \in cards
        BY <1>4, <1>5, <3>1 DEF Staged
      <3>2. CASE c \notin cards
        <4>1. c \in Dirty(tx[u]) \cap Card /\ tx'[u].dirty[c] = tx[u].dirty[c]
          BY <1>4, <1>5, <3>2 DEF Dirty
        <4>2. row[c] # Gone /\ Staged(row, tx[u], c)
          BY <1>1, <1>2, <4>1 DEF TemplatesInv
        <4> QED BY <1>5, <4>1, <4>2 DEF Staged
      <3> QED BY <3>1, <3>2
    <2> QED BY <1>1, <1>2, <1>5, <2>1 DEF TemplatesInv
  <1>7. Local(row, torn, tx'[u]) /\ \A r \in Request \ {u} : Apart(tx'[u], tx[r])
    <2>1. /\ Dirty(tx'[u]) = Dirty(tx[u]) \cup cards
          /\ \A x \in Dirty(tx[u]) \ cards : tx'[u].dirty[x] = tx[u].dirty[x]
      BY <1>4, <1>5 DEF Dirty
    <2> HIDE DEF cards
    <2> QED BY <1>1, <1>3, <1>4, <1>5, <1>6, <2>1, CardsWritten
  <1> QED BY <1>1, <1>7, QuietStep DEF Slots

\* Where a template stands.
LEMMA OrdinalIs ==
    ASSUME NEW S, NEW s \in Seq(S), NEW x \in ToSet(s)
    PROVE  /\ Ordinal(s, x) \in 0 .. Len(s) - 1 /\ s[Ordinal(s, x) + 1] = x
           /\ IsInjective(s) => \A i \in DOMAIN s : s[i] = x => Ordinal(s, x) = i - 1
  <1> DEFINE j == CHOOSE j \in DOMAIN s : s[j] = x
  <1>1. j \in DOMAIN s /\ s[j] = x
    BY DEF ToSet
  <1>2. Ordinal(s, x) = j - 1
    BY DEF Ordinal
  <1> HIDE DEF j
  <1>3. j \in 1 .. Len(s)
    BY <1>1
  <1> QED BY <1>1, <1>2, <1>3 DEF IsInjective

LEMMA NumberedTemplates ==
    ASSUME NEW old \in Seq(Template), IsInjective(old),
           NEW s \in Seq(Template \cup {New}), s # <<>>, IsInjective(s), Known(s, old),
           NEW ids, ids \subseteq Template, ids \cap ToSet(old) = {}, New \in ToSet(s) => ids # {}
    PROVE  LET new == Numbered(s, ids) IN
           /\ new \in Seq(Template) /\ new # <<>> /\ Len(new) = Len(s) /\ IsInjective(new)
           /\ ToSet(new) \subseteq ToSet(old) \cup ids /\ ToSet(s) \subseteq ToSet(new) \cup {New}
           /\ Removed(old, new) = Removed(old, s) /\ Changed(old, new) = Changed(old, s)
  <1> DEFINE new == Numbered(s, ids)
  <1>0. New \notin Template
    BY ContentsAssumption
  <1>1. /\ new \in Seq(Template) /\ new # <<>> /\ Len(new) = Len(s) /\ DOMAIN new = DOMAIN s
        /\ \A i \in DOMAIN s : IF s[i] = New THEN new[i] \in ids ELSE new[i] = s[i]
    <2>1. new = Numbered(s, ids)
      OBVIOUS
    <2> HIDE DEF new
    <2> DEFINE S == Template
    <2>2. s \in Seq(S \cup {New}) /\ s # <<>> /\ ids \subseteq S /\ (New \in ToSet(s) => ids # {})
      OBVIOUS
    <2> HIDE DEF S
    <2>3. new \in Seq(S) /\ new # <<>> /\ Len(new) = Len(s) /\ DOMAIN new = DOMAIN s
      <3>1. Numbered(s, ids) \in Seq(S) /\ Numbered(s, ids) # <<>>
        BY <2>2, NumberedIs
      <3>2. DOMAIN Numbered(s, ids) = DOMAIN s
        BY DEF Numbered
      <3>3. Len(Numbered(s, ids)) = Len(s)
        BY <2>2, <3>1, <3>2
      <3> QED BY <2>1, <3>1, <3>2, <3>3
    <2>4. \A i \in DOMAIN s : IF s[i] = New THEN new[i] \in ids ELSE new[i] = s[i]
      BY <2>1, <2>2, NumberedIs
    <2> QED BY <2>3, <2>4 DEF S
  <1> HIDE DEF new
  <1>2. \A i \in DOMAIN s : s[i] # New => s[i] \in ToSet(old)
    BY DEF Known, ToSet
  <1>3. ToSet(old) \subseteq Template
    BY DEF ToSet
  <1>4. IsInjective(new)
    BY <1>1, <1>2 DEF IsInjective
  <1>5. ToSet(new) \subseteq ToSet(old) \cup ids
    <2>1. \A i \in DOMAIN new : new[i] \in ToSet(old) \cup ids
      BY <1>1, <1>2
    <2> QED BY <2>1 DEF ToSet
  <1>6. \A x \in ToSet(s) : x # New => x \in ToSet(new)
    BY <1>1 DEF ToSet
  <1>7. \A x \in ToSet(old) : x \in ToSet(new) <=> x \in ToSet(s)
    <2> TAKE x \in ToSet(old)
    <2>1. x # New /\ x \notin ids
      BY <1>0, <1>3
    <2>2. ASSUME x \in ToSet(new) PROVE x \in ToSet(s)
      BY <1>1, <2>1, <2>2 DEF ToSet
    <2> QED BY <1>6, <2>1, <2>2
  <1>8. ASSUME NEW x \in ToSet(old) \cap ToSet(s) PROVE Ordinal(new, x) = Ordinal(s, x)
    <2>1. x # New /\ x \in ToSet(s)
      BY <1>0, <1>3
    <2>2. PICK i \in DOMAIN s : s[i] = x
      BY DEF ToSet
    <2>3. new[i] = x /\ i \in DOMAIN new /\ x \in ToSet(new)
      BY <1>1, <1>7, <2>1, <2>2
    <2>4. Ordinal(s, x) = i - 1
      BY <2>1, <2>2, OrdinalIs
    <2>5. Ordinal(new, x) = i - 1
      BY <1>1, <1>4, <2>3, OrdinalIs
    <2> QED BY <2>4, <2>5
  <1>9. Removed(old, new) = Removed(old, s)
    BY <1>7 DEF Removed
  <1>10. Changed(old, new) = Changed(old, s)
    BY <1>7, <1>8 DEF Changed
  <1> QED BY <1>1, <1>4, <1>5, <1>6, <1>9, <1>10 DEF new

\* An id drawn for a template is in no layout, committed or not.
LEMMA UnusedTemplate ==
    ASSUME Inv, NEW x \in UnusedOf(Template, "templates")
    PROVE  /\ x \in Template
           /\ \A t \in Live(row, Type) : x \notin ToSet(row[t].templates)
           /\ \A r \in Request : \A t \in Dirty(tx[r]) \cap Type : x \notin ToSet(tx[r].dirty[t].templates)
  <1>1. \A t \in Live(row, Type) : row[t] \in Layouts \ {Gone}
    BY DEF Layouts, Live
  <1>2. \A r \in Request : \A t \in Dirty(tx[r]) \cap Type : tx[r].dirty[t] \in Layouts \ {Gone}
    BY DEF Layouts, Dirty, Inv, Local, Locks
  <1>3. x \in Template /\ \A l \in Layouts \ {Gone} : x \notin ToSet(l["templates"])
    BY DEF UnusedOf
  <1> QED BY <1>1, <1>2, <1>3

LEMMA DeleteTemplatesByIDsKeeps ==
    ASSUME Inv, NEW u \in Request, DeleteTemplatesByIDs(u)
    PROVE  Inv' /\ row' = row
  <1> DEFINE q == tx[u].req
             t == q.type
             p == tx[u].seen
             v == View(u)
             free == UnusedOf(Template, "templates")
             new == Numbered(p.new, free)
             plan == [old |-> p.old, new |-> new]
             dirty == [k \in {t} |-> [v[k] EXCEPT !.templates = new]] ++ tx[u].dirty
             scan == [n \in NotesOfType(v, t) |-> v[n].home]
  <1>1. CASE Refuse(u)
    BY <1>1, Refused
  <1>2. CASE /\ CardsFrom(v, Removed(p.old, p.new)) = {} /\ UNCHANGED <<row, torn, outrun>>
             /\ Step(u, [pc |-> "addCards", seen |-> plan, dirty |-> dirty, scan |-> scan])
    <2>0. tx[u].pc = "deleteTemplates" /\ tx[u].pc \in Remapping /\ tx[u].pc \in Arranging
      BY DEF DeleteTemplatesByIDs, Remapping, Arranging
    <2>1. /\ (New \in ToSet(p.new) => free # {})
          /\ TypeForm(q) /\ Confirmed(q) /\ t \in Type /\ t \in tx[u].excl /\ t \in Dirty(tx[u])
          /\ (t \in Cloze => Len(q.templates) = 1) /\ Locks(row, tx[u]) /\ FieldsInv(row, torn, tx[u])
          /\ row[t] # Gone /\ row[t].templates \in Seq(Template) /\ IsInjective(row[t].templates)
          /\ tx[u].dirty[t] \in TypeRow /\ t \notin Note \cup Card
      BY <2>0, Remaps DEF DeleteTemplatesByIDs
    <2>2. TemplatesInv(row, tx[u]) /\ p.old = row[t].templates /\ p.new = q.templates /\ Known(p.new, p.old)
      BY <2>0 DEF Inv, Local, TypeInv, TemplatesInv
    <2>3. free \subseteq Template /\ free \cap ToSet(p.old) = {}
      BY <2>1, <2>2, UnusedTemplate DEF Live
    <2>4. /\ new \in Seq(Template) /\ new # <<>> /\ Len(new) = Len(p.new) /\ IsInjective(new)
          /\ ToSet(new) \subseteq ToSet(p.old) \cup free /\ ToSet(p.new) \subseteq ToSet(new) \cup {New}
          /\ Removed(p.old, new) = Removed(p.old, p.new) /\ Changed(p.old, new) = Changed(p.old, p.new)
      <3>1. p.old \in Seq(Template) /\ IsInjective(p.old)
        BY <2>1, <2>2
      <3>2. p.new \in Seq(Template \cup {New}) /\ p.new # <<>> /\ IsInjective(p.new)
        BY <2>1, <2>2 DEF TypeForm
      <3> HIDE DEF p, free
      <3> QED BY <2>1, <2>2, <2>3, <3>1, <3>2, NumberedTemplates
    <2>5. v[t] = tx[u].dirty[t]
      BY <2>1, ViewAt DEF Row
    <2> HIDE DEF new, v, free
    <2>6. /\ DOMAIN dirty = Dirty(tx[u]) /\ dirty[t] = [tx[u].dirty[t] EXCEPT !.templates = new]
          /\ \A x \in Dirty(tx[u]) \ {t} : dirty[x] = tx[u].dirty[x]
      BY <2>1, <2>5 DEF ++, Dirty
    <2>7. /\ dirty[t] \in TypeRow /\ dirty[t].templates = new /\ dirty[t].fields = tx[u].dirty[t].fields
          /\ dirty[t] # Gone
      <3> DEFINE old == tx[u].dirty[t]
      <3>1. old \in TypeRow /\ dirty[t] = [old EXCEPT !.templates = new]
        BY <2>1, <2>6
      <3> HIDE DEF old, dirty
      <3>2. dirty[t] \in TypeRow /\ dirty[t].templates = new /\ dirty[t].fields = old.fields
        BY <2>4, <3>1 DEF TypeRow
      <3> QED BY <3>2, ContentsAssumption DEF old
    <2>8. plan.old = p.old /\ plan.new = new
      OBVIOUS
    <2> HIDE DEF dirty, plan, scan
    <2>9. /\ tx'[u].pc = "addCards" /\ tx'[u].req = q /\ tx'[u].seen = plan /\ tx'[u].scan = scan
          /\ tx'[u].excl = tx[u].excl /\ tx'[u].share = tx[u].share /\ tx'[u].dirty = dirty
      BY <1>2, StepEffect DEF Inv, Slots
    <2>10. Dirty(tx'[u]) = Dirty(tx[u])
      BY <2>6, <2>9 DEF Dirty
    <2>11. \A n \in Dirty(tx'[u]) \cap Note : Refitted(row, torn, tx'[u], n)
      <3> TAKE n \in Dirty(tx'[u]) \cap Note
      <3>1. Refitted(row, torn, tx[u], n) /\ dirty[n] = tx[u].dirty[n]
        BY <2>1, <2>6, <2>10 DEF FieldsInv
      <3> QED BY <2>0, <2>7, <2>9, <3>1 DEF Refitted
    <2>12. FieldsInv(row, torn, tx'[u])
      BY <2>0, <2>1, <2>7, <2>9, <2>10, <2>11 DEF FieldsInv, Arranging
    <2>13. Arranged(row, tx'[u])
      <3>1. /\ tx'[u].seen.new = tx'[u].dirty[t].templates /\ tx'[u].seen.new # <<>> /\ IsInjective(tx'[u].seen.new)
            /\ (t \in Cloze => Len(tx'[u].seen.new) = 1)
            /\ ToSet(q.templates) \subseteq ToSet(tx'[u].seen.new) \cup {New}
        BY <2>1, <2>2, <2>4, <2>7, <2>8, <2>9
      <3>2. CardsFrom(tx'[u].dirty ++ row, Removed(tx'[u].seen.old, tx'[u].seen.new)) = {}
        <4>1. \A c \in Card : (dirty ++ row)[c] = v[c]
          <5>1. Card \subseteq DOMAIN row /\ t \notin Card
            BY <2>1 DEF Inv, Tables, Row
          <5> QED BY <2>6, <5>1 DEF v, View, ++, Dirty
        <4> QED BY <1>2, <2>4, <2>8, <2>9, <4>1 DEF CardsFrom, Live
      <3>3. DOMAIN scan \subseteq Note /\ \A n \in DOMAIN scan : scan[n] \in Deck
        <4>1. ASSUME NEW n \in NotesOfType(v, t) PROVE n \in Note /\ v[n].home \in Deck
          <5>1. n \in Note /\ v[n] # Gone /\ v[n] = IF n \in Dirty(tx[u]) THEN tx[u].dirty[n] ELSE row[n]
            BY <4>1, ViewAt DEF NotesOfType, Live, Row, v
          <5>2. n \in Dirty(tx[u]) => tx[u].dirty[n] \in NoteRow
            BY <2>1, <5>1 DEF FieldsInv, Refitted
          <5>3. v[n] \in NoteRow
            BY <5>1, <5>2, RowsTyped DEF Live
          <5> QED BY <5>1, <5>3 DEF NoteRow
        <4> QED BY <4>1 DEF scan
      <3> QED BY <2>9, <3>1, <3>2, <3>3 DEF Arranged
    <2>14. TemplatesInv(row, tx'[u])
      <3>1. ASSUME NEW c \in Dirty(tx'[u]) \cap Card PROVE row[c] # Gone /\ Staged(row, tx'[u], c)
        <4>1. dirty[c] = tx[u].dirty[c] /\ row[c] # Gone /\ Staged(row, tx[u], c)
          BY <2>0, <2>1, <2>2, <2>6, <2>10 DEF TemplatesInv
        <4> QED BY <2>4, <2>8, <2>9, <4>1 DEF Staged
      <3> QED BY <2>2, <2>8, <2>9, <2>13, <3>1 DEF TemplatesInv
    <2>15. tx'[u].pc \in Arranging /\ tx'[u].pc \in Remapping
      BY <2>9 DEF Arranging, Remapping
    <2>16. TypeInv(row, torn, tx'[u])
      BY <2>1, <2>9, <2>12, <2>14, <2>15, EditingStages DEF TypeInv
    <2>17. ASSUME NEW k \in Live(row, Type) \ {t} PROVE Disjoint(new, row[k].templates)
      <3>1. Disjoint(p.old, row[k].templates)
        BY <2>1, <2>2, <2>17 DEF Inv, Tables, Sound, Disjoint, Live
      <3>2. free \cap ToSet(row[k].templates) = {}
        BY <2>17, UnusedTemplate DEF free
      <3> QED BY <2>4, <3>1, <3>2 DEF Disjoint
    <2>18. Dirty(tx[u]) \cap Type = {t}
      BY <2>1, ContentsAssumption DEF FieldsInv
    <2>19. Locks(row, tx'[u])
      <3>1. \A x \in Dirty(tx'[u]) : tx'[u].dirty[x] = Gone => x \in tx'[u].excl
        BY <2>1, <2>6, <2>7, <2>9, <2>10 DEF Locks
      <3> QED BY <2>1, <2>7, <2>9, <2>10, <2>15, <2>17, <2>18, <3>1, EditingStages DEF Locks
    <2>20. \A r \in Request \ {u} : Apart(tx'[u], tx[r])
      <3>1. ASSUME NEW r \in Request \ {u}, NEW k \in Dirty(tx[r]) \cap Type
            PROVE  Disjoint(new, tx[r].dirty[k].templates)
        <4>1. Locks(row, tx[r]) /\ Apart(tx[u], tx[r])
          BY DEF Inv, Local
        <4>2. k # t /\ t \in Live(row, Type) \ {k}
          BY <2>1, <3>1, <4>1 DEF Apart, Held, Live
        <4>3. Disjoint(tx[r].dirty[k].templates, p.old)
          BY <2>2, <3>1, <4>1, <4>2 DEF Locks
        <4>4. free \cap ToSet(tx[r].dirty[k].templates) = {}
          BY <3>1, UnusedTemplate DEF free
        <4> QED BY <2>4, <4>3, <4>4 DEF Disjoint
      <3>2. /\ Lockable(u, tx'[u].excl \ tx[u].excl) /\ Updatable(u, Dirty(tx'[u]) \ Held(tx[u]))
            /\ Sharable(u, tx'[u].share \ tx[u].share)
        BY <2>9, <2>10 DEF Lockable, Updatable, Sharable, Held
      <3> QED BY <2>7, <2>9, <2>10, <2>18, <3>1, <3>2, Grown
    <2>21. Local(row, torn, tx'[u])
      BY <2>15, <2>16, <2>19, EditingStages, EditingLocal
    <2> QED BY <1>2, <2>20, <2>21, QuietStep DEF Slots
  <1> QED BY <1>1, <1>2 DEF DeleteTemplatesByIDs

\* New ids, one for each.
LEMMA AssignedIs ==
    ASSUME NEW S, NEW ids, Enough(ids, S)
    PROVE  LET new == Assigned(ids, S) IN
           /\ \A x \in S : new[x] \in Range(new)
           /\ \A c \in Range(new) : c \in ids /\ \E x \in S : new[x] = c
           /\ \A x, y \in S : new[x] = new[y] => x = y
  <1> DEFINE new == Assigned(ids, S)
  <1>1. new \in Injection(S, ids)
    BY DEF Assigned, Enough
  <1> HIDE DEF new
  <1>2. new \in [S -> ids] /\ IsInjective(new)
    BY <1>1 DEF Injection
  <1>3. \A x, y \in S : new[x] = new[y] => x = y
    BY <1>2 DEF IsInjective
  <1>4. /\ \A x \in S : new[x] \in Range(new)
        /\ \A c \in Range(new) : c \in ids /\ \E x \in S : new[x] = c
    BY <1>2 DEF Range
  <1> QED BY <1>3, <1>4 DEF new

LEMMA UnusedCards ==
    ASSUME Inv, NEW c \in Unused(Card)
    PROVE  c \in Card /\ row[c] = Gone /\ \A r \in Request : c \notin Held(tx[r]) \cup tx[r].share
  <1>1. c \in Card /\ row[c] = Gone /\ \A r \in Request : c \notin Dirty(tx[r])
    BY DEF Unused, Dirty
  <1>2. \A r \in Request : c \notin tx[r].excl \cup tx[r].share
    BY <1>1 DEF Inv, Local, Locks
  <1> QED BY <1>1, <1>2 DEF Held

LEMMA CreateCardsForNewTemplateKeeps ==
    ASSUME Inv, NEW u \in Request, CreateCardsForNewTemplate(u)
    PROVE  Inv' /\ row' = row
  <1> DEFINE t == tx[u].req.type
             p == tx[u].seen
             home == tx[u].scan
             pairs == NewCards(View(u), DOMAIN home, p)
             new == Assigned(Unused(Card), pairs)
             Filed(nx) == CreateCard(nx[1], nx[2], Ordinal(p.new, nx[2]), home[nx[1]])
             checked == UNION {{nx[1], home[nx[1]]} : nx \in pairs}
             cards == Range(new)
             rows == [c \in cards |-> Filed(CHOOSE nx \in pairs : new[nx] = c)]
             dirty == rows ++ tx[u].dirty
  <1>1. CASE Refuse(u)
    BY <1>1, Refused
  <1>2. CASE /\ ~ \E x \in checked : row[x] = Gone
             /\ Enough(Unused(Card), pairs) /\ UNCHANGED <<row, torn, outrun>>
             /\ Step(u, [pc |-> "finalize", share |-> checked, dirty |-> dirty])
    <2>0. tx[u].pc = "addCards" /\ tx[u].pc \in Remapping /\ tx[u].pc \in Arranging /\ Sharable(u, checked)
      BY DEF CreateCardsForNewTemplate, Remapping, Arranging
    <2>1. /\ TypeForm(tx[u].req) /\ Confirmed(tx[u].req) /\ t \in Type /\ t \in tx[u].excl /\ t \in Dirty(tx[u])
          /\ (t \in Cloze => Len(tx[u].req.templates) = 1) /\ Locks(row, tx[u]) /\ FieldsInv(row, torn, tx[u])
          /\ tx[u].dirty[t] \in TypeRow /\ t \notin Note \cup Card /\ tx[u].share = {}
      BY <2>0, Remaps DEF FieldsInv
    <2>2. TemplatesInv(row, tx[u]) /\ Arranged(row, tx[u])
      BY <2>0 DEF Inv, Local, TypeInv, TemplatesInv
    <2>3. /\ p.new \in Seq(Template) /\ DOMAIN home \subseteq Note /\ \A n \in DOMAIN home : home[n] \in Deck
      BY <2>1, <2>2 DEF Arranged, TypeRow
    <2>4. \A nx \in pairs : /\ nx[1] \in DOMAIN home /\ nx[2] \in Added(p.old, p.new)
                            /\ nx[1] \in checked /\ home[nx[1]] \in checked
      BY DEF NewCards
    <2>5. ASSUME NEW nx \in pairs
          PROVE  /\ Filed(nx) \in CardRow /\ Filed(nx).note = nx[1] /\ Filed(nx).deck = home[nx[1]]
                 /\ Filed(nx).tmpl = nx[2] /\ Filed(nx).ord = Ordinal(p.new, nx[2])
      <3>1. nx[2] \in ToSet(p.new) /\ nx[1] \in Note /\ home[nx[1]] \in Deck
        BY <2>3, <2>4 DEF Added
      <3>2. nx[2] \in Template /\ Ordinal(p.new, nx[2]) \in Int
        <4> DEFINE s == p.new
                   x == nx[2]
        <4>1. s \in Seq(Template) /\ x \in ToSet(s)
          BY <2>3, <3>1
        <4> HIDE DEF s, x
        <4>2. x \in Template
          BY <4>1 DEF ToSet
        <4>3. Ordinal(s, x) \in 0 .. Len(s) - 1
          BY <4>1, OrdinalIs
        <4> QED BY <4>1, <4>2, <4>3 DEF s, x
      <3> HIDE DEF p, home
      <3> QED BY <3>1, <3>2 DEF CreateCard, CardRow
    <2>6. \A c \in cards : c \in Unused(Card) /\ \E nx \in pairs : new[nx] = c
      <3> HIDE DEF pairs
      <3> QED BY <1>2, AssignedIs
    <2>7. ASSUME NEW c \in cards
          PROVE  \E nx \in pairs : rows[c] = Filed(nx)
      BY <2>6
    <2>8. checked \subseteq Note \cup Deck /\ \A x \in checked : row[x] # Gone
      <3>1. \A x \in checked : \E nx \in pairs : x = nx[1] \/ x = home[nx[1]]
        OBVIOUS
      <3> HIDE DEF checked, pairs
      <3>2. \A x \in checked : row[x] # Gone
        BY <1>2
      <3> QED BY <2>3, <2>4, <3>1, <3>2
    <2> HIDE DEF pairs, new, Filed, checked
    <2>9. ASSUME NEW c \in cards
          PROVE  /\ rows[c] \in CardRow /\ rows[c] # Gone
                 /\ rows[c].note \in DOMAIN home \cap checked /\ rows[c].deck \in checked
                 /\ rows[c].tmpl \in Added(p.old, p.new) /\ rows[c].ord = Ordinal(p.new, rows[c].tmpl)
      BY <2>4, <2>5, <2>7, ContentsAssumption
    <2>10. \A c \in cards : c \in Card /\ row[c] = Gone /\ \A r \in Request : c \notin Held(tx[r]) \cup tx[r].share
      BY <2>6, UnusedCards
    <2> HIDE DEF cards, rows
    <2>11. /\ DOMAIN dirty = Dirty(tx[u]) \cup cards
           /\ \A x \in Dirty(tx[u]) : dirty[x] = tx[u].dirty[x]
           /\ \A c \in cards : dirty[c] = rows[c]
      <3>1. DOMAIN rows = cards
        BY DEF rows
      <3>2. cards \cap Dirty(tx[u]) = {}
        BY <2>10 DEF Held
      <3> QED BY <3>1, <3>2 DEF ++, Dirty
    <2> HIDE DEF dirty
    <2>12. /\ tx'[u].pc = "finalize" /\ tx'[u].req = tx[u].req /\ tx'[u].seen = p /\ tx'[u].scan = home
           /\ tx'[u].excl = tx[u].excl /\ tx'[u].share = checked /\ tx'[u].dirty = dirty
      BY <1>2, StepEffect DEF Inv, Slots
    <2>13. Dirty(tx'[u]) = Dirty(tx[u]) \cup cards
      BY <2>11, <2>12 DEF Dirty
    <2>14. /\ Dirty(tx'[u]) \cap Note = Dirty(tx[u]) \cap Note /\ Dirty(tx'[u]) \cap Type = Dirty(tx[u]) \cap Type
           /\ cards \subseteq Card
      BY <2>10, <2>13, ContentsAssumption
    <2>15. FieldsInv(row, torn, tx'[u])
      <3>1. ASSUME NEW n \in Dirty(tx'[u]) \cap Note PROVE Refitted(row, torn, tx'[u], n)
        <4>1. Refitted(row, torn, tx[u], n) /\ dirty[n] = tx[u].dirty[n] /\ dirty[t] = tx[u].dirty[t]
          BY <2>1, <2>11, <2>14 DEF FieldsInv
        <4> QED BY <2>0, <2>12, <4>1 DEF Refitted
      <3>2. /\ tx'[u].dirty[t] = tx[u].dirty[t] /\ t \in Dirty(tx'[u])
            /\ Dirty(tx'[u]) \subseteq {t} \cup Note \cup Card
        BY <2>1, <2>11, <2>12, <2>13, <2>14 DEF FieldsInv
      <3>3. \/ tx'[u].dirty[t].fields = row[t].fields /\ Dirty(tx'[u]) \cap Note = {}
            \/ NotesOfType(row, t) \subseteq Dirty(tx'[u])
        BY <2>0, <2>1, <2>13, <2>14, <3>2 DEF FieldsInv
      <3> QED BY <2>1, <2>12, <3>1, <3>2, <3>3 DEF FieldsInv, Arranging
    <2>16. CardsFrom(dirty ++ row, Removed(p.old, p.new)) = {}
      <3> SUFFICES ASSUME NEW c \in Card, (dirty ++ row)[c] # Gone,
                          (dirty ++ row)[c].tmpl \in Removed(p.old, p.new)
                   PROVE  FALSE
        BY DEF CardsFrom, Live
      <3>1. (tx[u].dirty ++ row)[c] # Gone => (tx[u].dirty ++ row)[c].tmpl \notin Removed(p.old, p.new)
        BY <2>2 DEF Arranged, CardsFrom, Live
      <3>2. c \in DOMAIN row
        BY DEF Inv, Tables, Row
      <3>3. CASE c \in cards
        <4>1. (dirty ++ row)[c] = rows[c]
          BY <2>11, <3>3 DEF ++
        <4> QED BY <2>9, <3>3, <4>1 DEF Added, Removed
      <3>4. CASE c \notin cards
        <4>1. (dirty ++ row)[c] = (tx[u].dirty ++ row)[c]
          BY <2>11, <3>2, <3>4 DEF ++, Dirty
        <4> QED BY <3>1, <4>1
      <3> QED BY <3>3, <3>4
    <2>17. TemplatesInv(row, tx'[u])
      <3>1. ASSUME NEW c \in Dirty(tx'[u]) \cap Card
            PROVE  \/ row[c] # Gone /\ Staged(row, tx'[u], c)
                   \/ row[c] = Gone /\ Made(tx'[u], c)
        <4>1. CASE c \in cards
          BY <2>9, <2>10, <2>11, <2>12, <4>1 DEF Made
        <4>2. CASE c \notin cards
          <5>1. c \in Dirty(tx[u]) /\ dirty[c] = tx[u].dirty[c]
            BY <2>11, <2>13, <4>2
          <5>2. row[c] # Gone /\ Staged(row, tx[u], c)
            BY <2>0, <2>2, <5>1 DEF TemplatesInv
          <5> QED BY <2>12, <5>1, <5>2 DEF Staged
        <4> QED BY <4>1, <4>2
      <3>2. Arranged(row, tx'[u])
        BY <2>1, <2>2, <2>11, <2>12, <2>16 DEF Arranged
      <3> QED BY <2>2, <2>12, <3>1, <3>2 DEF TemplatesInv
    <2>18. tx'[u].pc \in Arranging /\ tx'[u].pc \in Remapping
      BY <2>12 DEF Arranging, Remapping
    <2>19. TypeInv(row, torn, tx'[u])
      BY <2>1, <2>12, <2>15, <2>17, <2>18, EditingStages DEF TypeInv
    <2>20. Locks(row, tx'[u])
      <3>1. /\ tx'[u].excl \subseteq Row /\ tx'[u].share \subseteq Row /\ Dirty(tx'[u]) \subseteq Row \ Deck
            /\ \A x \in tx'[u].excl \cup tx'[u].share : row[x] # Gone
        BY <2>1, <2>8, <2>12, <2>13, <2>14, ContentsAssumption DEF Locks, Row
      <3>2. \A x \in Dirty(tx'[u]) : tx'[u].dirty[x] = Gone => x \in tx'[u].excl
        BY <2>1, <2>9, <2>11, <2>12, <2>13 DEF Locks
      <3>3. \A k \in Dirty(tx'[u]) \cap Type : k \in Dirty(tx[u]) \cap Type /\ tx'[u].dirty[k] = tx[u].dirty[k]
        BY <2>11, <2>12, <2>14
      <3> QED BY <2>1, <2>12, <2>18, <3>1, <3>2, <3>3, EditingStages DEF Locks
    <2>21. \A r \in Request \ {u} : Apart(tx'[u], tx[r])
      <3>1. Lockable(u, tx'[u].excl \ tx[u].excl)
        BY <2>12 DEF Lockable
      <3>2. Updatable(u, Dirty(tx'[u]) \ Held(tx[u]))
        BY <2>10, <2>13 DEF Updatable, Held, Taken, Dirty
      <3>3. Sharable(u, tx'[u].share \ tx[u].share)
        BY <2>0, <2>12 DEF Sharable
      <3>4. \A k \in Dirty(tx'[u]) \cap Type : k \in Dirty(tx[u]) /\ tx'[u].dirty[k] = tx[u].dirty[k]
        BY <2>11, <2>12, <2>14
      <3> QED BY <3>1, <3>2, <3>3, <3>4, Grown
    <2>22. Local(row, torn, tx'[u])
      BY <2>18, <2>19, <2>20, EditingStages, EditingLocal
    <2> QED BY <1>2, <2>21, <2>22, QuietStep DEF Slots
  <1> QED BY <1>1, <1>2 DEF CreateCardsForNewTemplate

-----------------------------------------------------------------------------
(* What a step does to the tables: the bodies of the action properties.    *)

NoneLeftCardless ==
    \A n \in Note : row'[n] # Gone /\ CardsOf(row', n) = {} =>
        \/ row[n] # Gone /\ CardsOf(row, n) = {}
        \/ n \in outrun'
        \/ row[n] # Gone /\ \E c \in CardsOf(row, n) : ~HasTemplate(row', row[c].tmpl)

OnlyOrphansGo ==
    \A d \in Live(row, Deck) : row'[d] = Gone =>
        \A n \in Live(row, Note) : row'[n] = Gone => ~Elsewhere(row, n, d) \/ n \in outrun'

NoCardDiscarded ==
    \A c \in Live(row, Card) : row'[c] = Gone =>
        \/ row'[row[c].note] = Gone
        \/ row'[row[c].deck] = Gone
        \/ ~HasTemplate(row', row[c].tmpl)
        \/ \E r \in Request : /\ tx[r].pc = "syncCards" /\ tx'[r].pc = "over"
                             /\ tx[r].req.note = row[c].note
                             /\ row[c].ord \notin DOMAIN tx[r].seen.want

NoCardRepointed ==
    \A c \in Live(row, Card) :
        row'[c] # Gone /\ row'[c].tmpl # row[c].tmpl =>
            row'[row[c].note].type # row[row[c].note].type \/ row[c].note \in torn \cup torn'

RemovalConfirmed ==
    \A r \in Request : tx[r].req.kind = "edittype" /\ tx'[r].pc = "over" =>
        LET t == tx[r].req.type
            lost == ToSet(row[t].templates) \ ToSet(row'[t].templates)
        IN row[t] # Gone /\ row'[t] # Gone /\ CardsFrom(row, lost) # {} =>
               tx[r].req.confirmed \/ tx[r].req.unused \/ tx[r].req.checked # row[t]

Careful == NoneLeftCardless /\ OnlyOrphansGo /\ NoCardDiscarded /\ NoCardRepointed /\ RemovalConfirmed

LEMMA QuietIsCareful ==
    ASSUME row' = row
    PROVE  Careful
  <1>1. NoneLeftCardless /\ OnlyOrphansGo /\ NoCardDiscarded /\ NoCardRepointed
    BY DEF NoneLeftCardless, OnlyOrphansGo, NoCardDiscarded, NoCardRepointed, Live
  <1>2. RemovalConfirmed
    BY DEF RemovalConfirmed, CardsFrom
  <1> QED BY <1>1, <1>2 DEF Careful

\* Only the request that edits a note type has removed templates to answer for.
LEMMA OthersConfirm ==
    ASSUME Inv, NEW u \in Request, tx[u].req.kind # "edittype",
           \A r \in Request \ {u} : tx'[r] = tx[r]
    PROVE  RemovalConfirmed
  BY DEF RemovalConfirmed, Inv, Local, Locks

-----------------------------------------------------------------------------
(* SyncNoteCards.                                                          *)

\* What it makes of the note, of its cards C, and of the new cards N.
Syncing(u, C, N) ==
    LET n == tx[u].req.note
        note == tx[u].dirty[n]
        want == tx[u].seen.want
    IN
    /\ C = CardsOf(row, n) /\ C \subseteq tx[u].excl /\ N \subseteq Unused(Card)
    /\ row'[n] = note /\ \A x \in Row \ ({n} \cup C \cup N) : row'[x] = row[x]
    /\ \A c \in C : row'[c] = IF row[c].ord \in DOMAIN want THEN Repointed(row[c], want[row[c].ord]) ELSE Gone
    /\ \A c \in N : /\ row'[c] = CreateCard(n, row'[c].tmpl, row'[c].ord, note.home)
                    /\ row'[c].ord \in DOMAIN want /\ row'[c].tmpl = want[row'[c].ord]
                    /\ \A x \in C : row[x].ord # row'[c].ord
                    /\ \A x \in N : x # c => row'[x].ord # row'[c].ord
    /\ \A o \in DOMAIN want : (\E c \in C : row[c].ord = o) \/ \E c \in N : row'[c].ord = o
    /\ \A c \in C \cup N : row'[c] # Gone /\ row'[c] # row[c] =>
          HasTemplate(row, row'[c].tmpl) /\ ~TemplateHeld(u, {row'[c].tmpl})
    /\ N # {} => row[note.home] # Gone /\ Sharable(u, {note.home})

LEMMA SyncIs ==
    ASSUME Inv, NEW u \in Request, SyncNoteCards(u), ~Refuse(u)
    PROVE  /\ \E N : Syncing(u, CardsOf(row, tx[u].req.note), N)
           /\ DOMAIN row' = Row /\ tx' = [tx EXCEPT ![u] = Over]
           /\ torn' = IF Outdated(u) THEN torn \cup {tx[u].req.note} ELSE torn \ {tx[u].req.note}
           /\ outrun' = outrun
  <1> DEFINE n == tx[u].req.note
             note == tx[u].dirty[n]
             want == tx[u].seen.want
             v == View(u)
             C == CardsOf(row, n)
             old == [c \in C |-> IF v[c].ord \in DOMAIN want THEN Repointed(v[c], want[v[c].ord]) ELSE Gone]
             missing == Missing(u)
             new == Assigned(Unused(Card), missing)
             N == Range(new)
             Made1(o) == CreateCard(n, want[o], o, note.home)
             made == Created(u, new)
             rows == Synced(u)
             written == {c \in DOMAIN rows : rows[c] # Gone /\ rows[c] # v[c]}
  <1>1. /\ tx[u].pc = "syncCards" /\ NoteWanted(tx[u]) /\ NoteWritten(row, tx[u]) /\ CardsOf(row, n) \subseteq tx[u].excl
        /\ n \in Note /\ Dirty(tx[u]) = {n} /\ n \notin Card /\ n \in Row /\ Card \subseteq Row
    BY ContentsAssumption DEF SyncNoteCards, Inv, Local, NoteInv, Writing, NoteWritten, Row
  <1>2. /\ DOMAIN v = Row /\ v[n] = note /\ \A x \in Row \ {n} : v[x] = row[x]
    BY <1>1, ViewAt
  <1>3. CardsOf(v, n) = C /\ \A c \in C : c \in Card /\ v[c] = row[c] /\ row[c] # Gone
    BY <1>1, <1>2 DEF CardsOf, Live
  <1>4. /\ row' = rows ++ v /\ tx' = [tx EXCEPT ![u] = Over] /\ outrun' = outrun
        /\ torn' = IF Outdated(u) THEN torn \cup {n} ELSE torn \ {n}
        /\ Enough(Unused(Card), missing)
        /\ ~TemplateHeld(u, {rows[c].tmpl : c \in written})
        /\ \A c \in written : HasTemplate(row, rows[c].tmpl)
        /\ \A c \in written : v[c] = Gone => Sharable(u, {v[n].home}) /\ row[v[n].home] # Gone
    BY DEF SyncNoteCards, Commit
  <1>5. rows = old ++ made
    BY <1>3 DEF Synced
  <1> HIDE DEF v, rows
  <1>6. missing = DOMAIN want \ {row[c].ord : c \in C}
    BY <1>3 DEF Missing, v
  <1> HIDE DEF missing
  <1>7. /\ \A o \in missing : new[o] \in N
        /\ \A c \in N : c \in Unused(Card) /\ \E o \in missing : new[o] = c
        /\ \A x, y \in missing : new[x] = new[y] => x = y
    BY <1>4, AssignedIs
  <1>8. DOMAIN new = missing
    BY <1>4 DEF Assigned, Enough, Injection
  <1> HIDE DEF new
  <1>9. ASSUME NEW c \in N PROVE \E o \in missing : new[o] = c /\ made[c] = Made1(o)
    <2> DEFINE o == CHOOSE o \in DOMAIN new : new[o] = c
    <2>1. o \in missing /\ new[o] = c
      BY <1>7, <1>8
    <2>2. made[c] = CreateCard(n, want[o], o, View(u)[n].home)
      BY DEF Created
    <2>3. made[c] = Made1(o)
      BY <1>2, <2>2 DEF v
    <2> QED BY <2>1, <2>3
  <1>10. DOMAIN made = N /\ DOMAIN old = C
    BY DEF Created
  <1>11. \A c \in N : c \in Card /\ row[c] = Gone /\ c \notin C /\ c # n
    BY <1>1, <1>3, <1>7, UnusedCards
  <1> HIDE DEF N, made, C
  <1>12. /\ DOMAIN rows = C \cup N /\ \A c \in N : rows[c] = made[c]
         /\ \A c \in C : rows[c] = IF row[c].ord \in DOMAIN want THEN Repointed(row[c], want[row[c].ord]) ELSE Gone
    <2>1. /\ DOMAIN rows = C \cup N /\ \A c \in N : rows[c] = made[c]
          /\ \A c \in C : rows[c] = old[c]
      BY <1>5, <1>10, <1>11 DEF ++
    <2> QED BY <1>3, <2>1
  <1> HIDE DEF old
  <1>13. /\ DOMAIN row' = Row /\ \A c \in C \cup N : row'[c] = rows[c]
         /\ \A x \in Row \ (C \cup N) : row'[x] = v[x]
    BY <1>1, <1>2, <1>3, <1>4, <1>11, <1>12 DEF ++
  <1>14. \A c \in C \cup N : v[c] = row[c]
    BY <1>1, <1>2, <1>3, <1>11
  <1>15. row'[n] = note /\ \A x \in Row \ ({n} \cup C \cup N) : row'[x] = row[x]
    BY <1>1, <1>2, <1>3, <1>11, <1>13
  <1>16. ASSUME NEW c \in N
         PROVE  /\ \E o \in missing : new[o] = c /\ row'[c] = Made1(o)
                /\ row'[c].note = n /\ row'[c].deck = note.home
                /\ row'[c].ord \in missing /\ row'[c].tmpl = want[row'[c].ord] /\ new[row'[c].ord] = c
                /\ row'[c] = CreateCard(n, row'[c].tmpl, row'[c].ord, note.home)
    <2>1. PICK o \in missing : new[o] = c /\ row'[c] = Made1(o)
      BY <1>9, <1>12, <1>13
    <2>2. row'[c].note = n /\ row'[c].deck = note.home /\ row'[c].ord = o /\ row'[c].tmpl = want[o]
      BY <2>1 DEF CreateCard
    <2> QED BY <2>1, <2>2
  <1>17. \A o \in DOMAIN want : (\E c \in C : row[c].ord = o) \/ \E c \in N : row'[c].ord = o
    <2> TAKE o \in DOMAIN want
    <2>1. ASSUME o \in missing PROVE \E c \in N : row'[c].ord = o
      <3>1. new[o] \in N /\ row'[new[o]].ord \in missing /\ new[row'[new[o]].ord] = new[o]
        BY <1>7, <1>16, <2>1
      <3> QED BY <1>7, <2>1, <3>1
    <2> QED BY <1>6, <2>1
  <1>18. ASSUME NEW c \in C \cup N, row'[c] # Gone, row'[c] # row[c]
         PROVE  c \in written /\ HasTemplate(row, row'[c].tmpl) /\ ~TemplateHeld(u, {row'[c].tmpl})
    <2>1. c \in written
      BY <1>12, <1>13, <1>14, <1>18
    <2>2. ~TemplateHeld(u, {rows[c].tmpl})
      BY <1>4, <2>1 DEF TemplateHeld
    <2> QED BY <1>4, <1>13, <2>1, <2>2
  <1>19. ASSUME N # {} PROVE row[note.home] # Gone /\ Sharable(u, {note.home})
    <2>1. PICK c \in N : TRUE
      BY <1>19
    <2>2. row'[c].tmpl \in Template /\ row'[c].ord \in Int /\ note.home \in Deck
      <3>1. \A o \in DOMAIN want : o \in Int /\ want[o] \in Template
        BY <1>1 DEF NoteWanted
      <3>2. note.home \in Deck
        BY <1>1 DEF NoteWritten, NoteRow
      <3> HIDE DEF want, note
      <3>3. row'[c].ord \in DOMAIN want /\ row'[c].tmpl = want[row'[c].ord]
        BY <1>6, <1>16, <2>1
      <3> QED BY <3>1, <3>2, <3>3
    <2>3. row'[c] \in CardRow
      <3>1. row'[c] = CreateCard(n, row'[c].tmpl, row'[c].ord, note.home)
        BY <1>16, <2>1
      <3> DEFINE x == row'[c].tmpl
                 o == row'[c].ord
                 d == note.home
      <3>2. x \in Template /\ o \in Int /\ d \in Deck /\ n \in Note
        BY <1>1, <2>2
      <3> HIDE DEF x, o, d
      <3>3. CreateCard(n, x, o, d) \in CardRow
        BY <3>2 DEF CreateCard, CardRow
      <3> QED BY <3>1, <3>3 DEF x, o, d
    <2>4. row'[c] # Gone
      BY <2>3, ContentsAssumption
    <2> QED BY <1>2, <1>4, <1>11, <1>14, <1>18, <2>1, <2>4
  <1>20. Syncing(u, C, N)
    <2>1. C = CardsOf(row, n) /\ C \subseteq tx[u].excl /\ N \subseteq Unused(Card)
      BY <1>1, <1>7 DEF C
    <2>2. \A c \in C : row'[c] = IF row[c].ord \in DOMAIN want THEN Repointed(row[c], want[row[c].ord]) ELSE Gone
      BY <1>12, <1>13
    <2>3. ASSUME NEW c \in N
          PROVE  /\ row'[c] = CreateCard(n, row'[c].tmpl, row'[c].ord, note.home)
                 /\ row'[c].ord \in DOMAIN want /\ row'[c].tmpl = want[row'[c].ord]
                 /\ \A x \in C : row[x].ord # row'[c].ord
                 /\ \A x \in N : x # c => row'[x].ord # row'[c].ord
      <3>1. row'[c].ord \in DOMAIN want /\ \A x \in C : row[x].ord # row'[c].ord
        BY <1>6, <1>16
      <3>2. \A x \in N : x # c => row'[x].ord # row'[c].ord
        BY <1>16
      <3> QED BY <1>16, <3>1, <3>2
    <2> HIDE DEF note, want
    <2> QED BY <1>15, <1>17, <1>18, <1>19, <2>1, <2>2, <2>3 DEF Syncing, note, want
  <1> QED BY <1>4, <1>13, <1>20 DEF C

LEMMA SameTypes ==
    ASSUME NEW v, NEW w, \A t \in Type : w[t] = v[t]
    PROVE  Live(w, Type) = Live(v, Type) /\ \A x : HasTemplate(w, x) <=> HasTemplate(v, x)
  BY DEF Live, HasTemplate

LEMMA SyncFacts ==
    ASSUME Inv, NEW u \in Request, tx[u].pc = "syncCards", NEW C, NEW N, Syncing(u, C, N)
    PROVE  LET n == tx[u].req.note
               note == tx[u].dirty[n]
               want == tx[u].seen.want
           IN
           /\ n \in Note /\ note \in NoteRow /\ note # Gone /\ note.vals # <<>>
           /\ note.sum = ComputeNoteChecksum(note.vals) /\ note.home \in Deck /\ note.type \in Type
           /\ row[note.home] # Gone /\ row[note.type] # Gone /\ row'[n] = note
           /\ \A x \in Deck \cup Type : row'[x] = row[x]
           /\ \A m \in Note \ {n} : row'[m] = row[m]
           /\ C \cup N \subseteq Card /\ \A c \in N : row[c] = Gone /\ row'[c] # Gone
           /\ \A c \in C : row[c] # Gone /\ row[c].note = n
           /\ \A c \in Card \ (C \cup N) : row'[c] = row[c] /\ (row[c] # Gone => row[c].note # n)
           /\ \A c \in C \cup N : row'[c] # Gone =>
                 /\ row'[c] \in CardRow /\ row'[c].note = n
                 /\ row'[c].ord \in DOMAIN want /\ row'[c].ord \in Nat /\ row'[c].tmpl = want[row'[c].ord]
           /\ \A c \in C : row'[c] # Gone => row'[c].ord = row[c].ord /\ row'[c].deck = row[c].deck
           /\ \A c \in C : row'[c] = Gone <=> row[c].ord \notin DOMAIN want
           /\ \A c \in N : row'[c].deck = note.home
  <1> DEFINE n == tx[u].req.note
             note == tx[u].dirty[n]
             want == tx[u].seen.want
  <1>1. NoteWritten(row, tx[u]) /\ NoteWanted(tx[u]) /\ Locks(row, tx[u])
    BY DEF Inv, Local, NoteInv, Writing
  <1>2. /\ n \in Note /\ note \in NoteRow /\ note.vals # <<>>
        /\ note.sum = ComputeNoteChecksum(note.vals) /\ note.home \in Deck /\ note.type \in Type
    BY <1>1 DEF NoteWritten, NoteRow
  <1>3. note # Gone
    BY <1>2, ContentsAssumption
  <1>4. row[note.home] # Gone /\ row[note.type] # Gone
    <2>1. CASE row[n] = Gone
      BY <1>1, <2>1 DEF NoteWritten, Locks
    <2>2. CASE row[n] # Gone
      <3>1. row[row[n].home] # Gone /\ row[row[n].type] # Gone
        BY <1>2, <2>2 DEF Inv, Tables, Sound, Live
      <3> QED BY <1>1, <2>2, <3>1 DEF NoteWritten, Locks
    <2> QED BY <2>1, <2>2
  <1>5. C \cup N \subseteq Card /\ \A c \in N : row[c] = Gone
    <2>1. C \subseteq Card
      BY DEF Syncing, CardsOf, Live
    <2>2. \A c \in N : c \in Card /\ row[c] = Gone
      BY UnusedCards DEF Syncing
    <2> QED BY <2>1, <2>2
  <1>6. /\ \A x \in Deck \cup Type : row'[x] = row[x]
        /\ \A m \in Note \ {n} : row'[m] = row[m]
    <2>1. (Deck \cup Type \cup (Note \ {n})) \subseteq Row \ ({n} \cup C \cup N)
      BY <1>2, <1>5, ContentsAssumption DEF Row
    <2> QED BY <2>1 DEF Syncing
  <1>7. \A c \in C : row[c] # Gone /\ row[c].note = n
    BY DEF Syncing, CardsOf, Live
  <1>8. \A c \in Card \ (C \cup N) : row'[c] = row[c] /\ (row[c] # Gone => row[c].note # n)
    <2>1. \A c \in Card : c \in Row /\ c # n
      BY <1>2, ContentsAssumption DEF Row
    <2> QED BY <2>1 DEF Syncing, CardsOf, Live
  <1>9. row'[n] = note
    BY DEF Syncing
  <1>10. ASSUME NEW o \in DOMAIN want PROVE o \in Nat /\ want[o] \in Template
    BY <1>1 DEF NoteWanted
  <1>11. ASSUME NEW c \in C, row[c].ord \in DOMAIN want
         PROVE  /\ row'[c] \in CardRow /\ row'[c] # Gone /\ row'[c].note = n /\ row'[c].deck = row[c].deck
                /\ row'[c].ord = row[c].ord /\ row'[c].tmpl = want[row[c].ord]
    <2> DEFINE card == row[c]
               x == want[card.ord]
    <2>1. card \in CardRow /\ x \in Template /\ card.note = n
      BY <1>5, <1>7, <1>10, <1>11, RowsTyped DEF Live
    <2>2. row'[c] = Repointed(card, x)
      BY <1>11 DEF Syncing
    <2> HIDE DEF card, x
    <2>3. /\ row'[c] \in CardRow /\ row'[c].note = n /\ row'[c].deck = card.deck
          /\ row'[c].ord = card.ord /\ row'[c].tmpl = x
      BY <2>1, <2>2 DEF Repointed, CardRow
    <2> QED BY <2>3, ContentsAssumption DEF card, x
  <1>12. ASSUME NEW c \in C, row[c].ord \notin DOMAIN want
         PROVE  row'[c] = Gone
    BY <1>12 DEF Syncing
  <1>13. ASSUME NEW c \in N
         PROVE  /\ row'[c] \in CardRow /\ row'[c] # Gone /\ row'[c].note = n /\ row'[c].deck = note.home
                /\ row'[c].ord \in DOMAIN want /\ row'[c].tmpl = want[row'[c].ord]
    <2> DEFINE x == row'[c].tmpl
               o == row'[c].ord
               d == note.home
    <2>1. row'[c] = CreateCard(n, x, o, d) /\ o \in DOMAIN want /\ x = want[o]
      BY DEF Syncing
    <2>2. x \in Template /\ o \in Int /\ d \in Deck /\ n \in Note
      BY <1>2, <1>10, <2>1
    <2> HIDE DEF x, o, d, want, note
    <2>3. row'[c] \in CardRow /\ row'[c].note = n /\ row'[c].deck = d
      BY <2>1, <2>2 DEF CreateCard, CardRow
    <2> QED BY <2>1, <2>3, ContentsAssumption DEF x, o, d
  <1>14. \A c \in C \cup N : row'[c] # Gone =>
            /\ row'[c] \in CardRow /\ row'[c].note = n
            /\ row'[c].ord \in DOMAIN want /\ row'[c].ord \in Nat /\ row'[c].tmpl = want[row'[c].ord]
    BY <1>10, <1>11, <1>12, <1>13
  <1> HIDE DEF n, note, want
  <1>15. /\ \A c \in C : row'[c] # Gone => row'[c].ord = row[c].ord /\ row'[c].deck = row[c].deck
         /\ \A c \in C : row'[c] = Gone <=> row[c].ord \notin DOMAIN want
         /\ \A c \in N : row'[c].deck = note.home /\ row'[c] # Gone
    BY <1>11, <1>12, <1>13
  <1> QED BY <1>2, <1>3, <1>4, <1>5, <1>6, <1>7, <1>8, <1>9, <1>14, <1>15 DEF n, note, want

LEMMA SyncSound ==
    ASSUME Inv, NEW u \in Request, tx[u].pc = "syncCards", NEW C, NEW N, Syncing(u, C, N)
    PROVE  Sound(row')
  <1> DEFINE n == tx[u].req.note
             note == tx[u].dirty[n]
             want == tx[u].seen.want
  <1>1. \A c \in N : /\ \A x \in C : row[x].ord # row'[c].ord
                    /\ \A x \in N : x # c => row'[x].ord # row'[c].ord
    BY DEF Syncing
  <1>2. \A t \in Live(row', Type) : t \in Live(row, Type) /\ row'[t] = row[t]
    BY SyncFacts DEF Live
  <1>3. /\ \A t \in Live(row', Type) : /\ row'[t] \in TypeRow
                                       /\ row'[t].fields # <<>> /\ row'[t].templates # <<>>
                                       /\ IsInjective(row'[t].templates)
                                       /\ (t \in Cloze => Len(row'[t].templates) = 1)
        /\ \A t, k \in Live(row', Type) :
              t # k => ToSet(row'[t].templates) \cap ToSet(row'[k].templates) = {}
    BY <1>2 DEF Inv, Tables, Sound
  <1> USE SyncFacts
  <1>4. Sound(row)
    BY DEF Inv, Tables
  <1>5. Live(row', Type) = Live(row, Type) /\ \A x : HasTemplate(row', x) <=> HasTemplate(row, x)
    BY SameTypes
  <1>6. ASSUME NEW m \in Live(row', Note)
        PROVE  /\ row'[m] \in NoteRow /\ row'[m].vals # <<>>
               /\ row'[row'[m].home] # Gone /\ row'[row'[m].type] # Gone
               /\ row'[m].sum = ComputeNoteChecksum(row'[m].vals)
    <2>1. CASE m = n
      BY <2>1
    <2>2. CASE m # n
      <3>1. m \in Live(row, Note) /\ row'[m] = row[m]
        BY <2>2 DEF Live
      <3>2. row[m].home \in Deck /\ row[m].type \in Type
        BY <3>1, RowsTyped
      <3> QED BY <1>4, <3>1, <3>2 DEF Sound
    <2> QED BY <2>1, <2>2
  <1>7. ASSUME NEW c \in Live(row', Card)
        PROVE  /\ row'[c] \in CardRow /\ row'[c].ord >= 0 /\ row'[row'[c].note] # Gone
               /\ row'[row'[c].deck] # Gone /\ HasTemplate(row', row'[c].tmpl)
    <2>1. CASE c \in C \cup N
      <3>1. HasTemplate(row, row'[c].tmpl)
        <4>1. CASE row'[c] = row[c]
          BY <1>4, <1>7, <4>1 DEF Sound, Live
        <4>2. CASE row'[c] # row[c]
          BY <1>7, <2>1, <4>2 DEF Syncing, Live
        <4> QED BY <4>1, <4>2
      <3>2. row'[c].deck \in Deck /\ row[row'[c].deck] # Gone
        <4>1. CASE c \in C
          <5>1. row[row[c].deck] # Gone /\ row[c].deck \in Deck
            BY <1>4, <4>1, RowsTyped DEF Sound, Live
          <5> QED BY <1>7, <4>1, <5>1 DEF Live
        <4>2. CASE c \in N
          BY <4>2
        <4> QED BY <2>1, <4>1, <4>2
      <3> QED BY <1>5, <1>7, <2>1, <3>1, <3>2 DEF Live
    <2>2. CASE c \notin C \cup N
      <3>1. c \in Live(row, Card) /\ row'[c] = row[c] /\ row[c].note # n
        BY <1>7, <2>2 DEF Live
      <3>2. row[c].note \in Note /\ row[c].deck \in Deck
        BY <3>1, RowsTyped
      <3> QED BY <1>4, <1>5, <3>1, <3>2 DEF Sound
    <2> QED BY <2>1, <2>2
  <1>8. \A t \in Live(row', Type) : t \in Live(row, Type) /\ row'[t] = row[t]
    BY <1>5 DEF Live
  <1>9. ~Collide(row')
    <2> SUFFICES ASSUME NEW c \in Live(row', Card), NEW x \in Live(row', Card), c # x,
                        row'[c].note = row'[x].note, row'[c].ord = row'[x].ord
                 PROVE  FALSE
      BY DEF Collide
    <2>1. CASE c \notin C \cup N \/ x \notin C \cup N
      <3>1. row'[c].note # n /\ row'[x].note # n
        BY <2>1 DEF Live
      <3>2. c \notin C \cup N /\ x \notin C \cup N
        BY <3>1 DEF Live
      <3>3. c \in Live(row, Card) /\ x \in Live(row, Card) /\ row'[c] = row[c] /\ row'[x] = row[x]
        BY <3>2 DEF Live
      <3> QED BY <1>4, <3>3 DEF Sound, Collide
    <2>2. CASE c \in C /\ x \in C
      <3>1. row[c].ord = row[x].ord /\ row[c].note = row[x].note /\ c \in Live(row, Card) /\ x \in Live(row, Card)
        BY <2>2 DEF Live
      <3>2. ~Collide(row)
        BY <1>4 DEF Sound
      <3> QED BY <3>1, <3>2 DEF Collide
    <2>3. CASE c \in N /\ x \in N
      BY <1>1, <2>3
    <2>4. CASE c \in C /\ x \in N
      <3>1. row[c].ord = row'[c].ord
        BY <2>4 DEF Live
      <3> QED BY <1>1, <2>4, <3>1
    <2>5. CASE c \in N /\ x \in C
      <3>1. row[x].ord = row'[x].ord
        BY <2>5 DEF Live
      <3> QED BY <1>1, <2>5, <3>1
    <2> QED BY <2>1, <2>2, <2>3, <2>4, <2>5
  <1> QED BY <1>6, <1>7, <1>9, <1>3 DEF Sound

\* What leaves a note's type, values and cards alone leaves it following.
LEMMA FollowsStays ==
    ASSUME NEW v, NEW w, NEW n \in Note, Follows(v, n),
           w[n].type = v[n].type, w[n].vals = v[n].vals,
           w[v[n].type] = v[v[n].type],
           \A c \in CardsOf(w, n) : c \in CardsOf(v, n) /\ w[c].tmpl = v[c].tmpl /\ w[c].ord = v[c].ord
    PROVE  Follows(w, n)
  BY DEF Follows, CardsFollowTemplates, ValuesFollowFields

LEMMA SyncTables ==
    ASSUME Inv, NEW u \in Request, tx[u].pc = "syncCards", NEW C, NEW N, Syncing(u, C, N),
           DOMAIN row' = Row,
           torn' = IF Outdated(u) THEN torn \cup {tx[u].req.note} ELSE torn \ {tx[u].req.note}
    PROVE  Tables(row', torn')
  <1> DEFINE n == tx[u].req.note
             note == tx[u].dirty[n]
             want == tx[u].seen.want
             q == tx[u].req
  <1>1. Sound(row')
    BY SyncSound
  <1>2. torn' \subseteq Note
    BY SyncFacts DEF Inv, Tables
  <1>3. ASSUME NEW m \in Live(row', Note) \ torn', m # n PROVE Follows(row', m)
    <2>1. m \in Live(row, Note) \ torn /\ row'[m] = row[m] /\ m \in Note
      BY <1>3, SyncFacts DEF Live
    <2>2. Follows(row, m) /\ row[m].type \in Type
      BY <2>1, RowsTyped DEF Inv, Tables
    <2>3. row'[row[m].type] = row[row[m].type]
      BY <2>2, SyncFacts
    <2>4. \A c \in CardsOf(row', m) : c \in CardsOf(row, m) /\ row'[c] = row[c]
      BY <1>3, SyncFacts DEF CardsOf, Live
    <2> QED BY <2>1, <2>2, <2>3, <2>4, FollowsStays
  <1>4. ASSUME n \in Live(row', Note) \ torn' PROVE Follows(row', n)
    <2>1. ~Outdated(u)
      BY <1>4
    <2>2. NoteForm(tx[u]) /\ NoteWritten(row, tx[u])
      BY DEF Inv, Local, NoteInv, Writing
    <2>3. /\ row'[n] = note /\ note.type = q.type /\ q.type \in Type /\ row'[q.type] = row[q.type]
          /\ tx[u].seen.fields = row[q.type].fields
          /\ want = desiredCards(q.type, row[q.type].templates, q.marks)
      BY <2>1, <2>2, SyncFacts DEF Outdated, NoteForm, NoteWritten
    <2>4. Fitting(row'[n].vals, row'[row'[n].type].fields)
      BY <2>2, <2>3 DEF NoteWritten
    <2>5. ASSUME NEW c \in CardsOf(row', n)
          PROVE  row'[c].ord \in DOMAIN want /\ row'[c].tmpl = want[row'[c].ord]
      BY SyncFacts DEF CardsOf, Live
    <2>6. CardsFollowTemplates(row', n)
      <3> DEFINE templates == row[q.type].templates
      <3>1. row[q.type] # Gone
        <4>1. row[note.type] # Gone /\ note.type = q.type
          BY <2>3, SyncFacts
        <4> HIDE DEF note, q
        <4> QED BY <4>1
      <3>2. Len(templates) \in Nat
        BY <2>3, <3>1, RowsTyped DEF Live
      <3> HIDE DEF templates
      <3>3. want = desiredCards(q.type, templates, q.marks) /\ row'[row'[n].type].templates = templates
        BY <2>3 DEF templates
      <3>4. CASE q.type \in Cloze
        BY <2>3, <2>5, <3>3, <3>4 DEF desiredCards, CardsFollowTemplates
      <3>5. CASE q.type \notin Cloze
        <4>1. \A o \in DOMAIN want : o \in 0 .. Len(templates) - 1 /\ want[o] = templates[o + 1]
          BY <3>3, <3>5 DEF desiredCards
        <4>2. \A c \in CardsOf(row', n) : row'[c].ord < Len(templates) /\ row'[c].tmpl = templates[row'[c].ord + 1]
          BY <2>5, <3>2, <4>1
        <4> QED BY <2>3, <3>3, <3>5, <4>2 DEF CardsFollowTemplates
      <3> QED BY <3>4, <3>5
    <2> QED BY <2>4, <2>6, FollowsIs
  <1> QED BY <1>1, <1>2, <1>3, <1>4 DEF Tables

LEMMA SyncRespects ==
    ASSUME Inv, NEW u \in Request, tx[u].pc = "syncCards", NEW C, NEW N, Syncing(u, C, N),
           DOMAIN row' = Row, torn \ {tx[u].req.note} \subseteq torn', NEW r \in Request \ {u}
    PROVE  Respects(row, row', torn, torn', tx[r])
  <1> DEFINE n == tx[u].req.note
             note == tx[u].dirty[n]
             me == tx[r]
  <1>1. /\ Apart(tx[u], me) /\ NoteWritten(row, tx[u]) /\ C \subseteq tx[u].excl
        /\ Locks(row, me) /\ Locks(row, tx[u])
    BY DEF Inv, Local, NoteInv, Writing, Syncing
  <1>2. n \in Held(tx[u]) /\ n \notin Held(me) /\ C \cap (Held(me) \cup me.share) = {}
    BY <1>1 DEF Apart, Held, NoteWritten
  <1>3. N \cap (Held(me) \cup me.share) = {}
    BY UnusedCards DEF Syncing
  <1>4. \A x \in Row \ ({n} \cup C \cup N) : row'[x] = row[x]
    BY DEF Syncing
  <1>5. Held(me) \cup me.share \subseteq Row
    BY <1>1 DEF Locks, Held
  <1>6. \A x \in Held(me) : row'[x] = row[x]
    BY <1>2, <1>3, <1>4, <1>5
  <1>7. \A x \in me.share : row'[x] # Gone
    <2>1. \A x \in me.share : x \in Row /\ row[x] # Gone /\ x \notin C \cup N
      BY <1>1, <1>2, <1>3, <1>5 DEF Locks
    <2>2. row'[n] # Gone
      BY SyncFacts
    <2> QED BY <1>4, <2>1, <2>2
  <1>8. Held(me) \cap torn \subseteq torn'
    BY <1>2
  <1>9. ASSUME NEW c \in Live(row', Card)
        PROVE  /\ IF row[c] = Gone THEN row'[c].note \notin me.excl ELSE row'[c].note = row[c].note
               /\ (row[c] # Gone /\ row'[c].deck = row[c].deck) \/ row'[c].deck \notin me.excl
               /\ \/ row[c] # Gone /\ row'[c].tmpl = row[c].tmpl
                  \/ \A t \in Dirty(me) \cap Type :
                        row'[c].tmpl \notin Removed(row[t].templates, me.dirty[t].templates)
    <2>1. CASE c \notin C \cup N
      BY <2>1, SyncFacts DEF Live
    <2>2. CASE c \in C \cup N
      <3>1. row'[c] # Gone /\ row'[c].note = n
        BY <2>2, SyncFacts DEF Live
      <3>2. IF row[c] = Gone THEN row'[c].note \notin me.excl ELSE row'[c].note = row[c].note
        <4>1. row[c] # Gone => row[c].note = n
          BY <2>2, SyncFacts
        <4> QED BY <1>2, <3>1, <4>1 DEF Held
      <3>3. (row[c] # Gone /\ row'[c].deck = row[c].deck) \/ row'[c].deck \notin me.excl
        <4>1. CASE c \in C
          BY <3>1, <4>1, SyncFacts
        <4>2. CASE c \in N
          <5>1. Sharable(u, {note.home}) /\ row'[c].deck = note.home
            <6>1. Sharable(u, {note.home})
              BY <4>2 DEF Syncing
            <6>2. row'[c].deck = note.home
              BY <4>2, SyncFacts
            <6> QED BY <6>1, <6>2
          <5> QED BY <5>1, Guards
        <4> QED BY <2>2, <4>1, <4>2
      <3>4. \/ row[c] # Gone /\ row'[c].tmpl = row[c].tmpl
            \/ \A t \in Dirty(me) \cap Type :
                  row'[c].tmpl \notin Removed(row[t].templates, me.dirty[t].templates)
        <4>1. CASE row'[c] = row[c]
          BY <3>1, <4>1
        <4>2. CASE row'[c] # row[c]
          <5>1. ~TemplateHeld(u, {row'[c].tmpl})
            BY <2>2, <3>1, <4>2 DEF Syncing
          <5>2. \A t \in Dirty(me) \cap Type : me.dirty[t] # Gone /\ row[t] # Gone
            BY <1>1 DEF Locks
          <5>3. \A t \in Dirty(me) \cap Type :
                   row'[c].tmpl \notin ToSet(row[t].templates) \ ToSet(me.dirty[t].templates)
            BY <5>1, <5>2 DEF TemplateHeld, Dirty
          <5> QED BY <5>3 DEF Removed
        <4> QED BY <4>1, <4>2
      <3> QED BY <3>2, <3>3, <3>4
    <2> QED BY <2>1, <2>2
  <1>10. ASSUME NEW m \in Live(row', Note)
         PROVE  (row[m] # Gone /\ row'[m].type = row[m].type) \/ row'[m].type \notin me.excl
    <2>1. CASE m = n
      <3>1. row'[m] = note
        BY <2>1, SyncFacts
      <3>2. (row[n] # Gone /\ note.type = row[n].type) \/ note.type \in tx[u].share
        BY <1>1 DEF NoteWritten
      <3> QED BY <1>1, <2>1, <3>1, <3>2 DEF Apart
    <2>2. CASE m # n
      BY <2>2, SyncFacts DEF Live
    <2> QED BY <2>1, <2>2
  <1>11. \A k \in Live(row', Type) : row[k] # Gone /\ row'[k].templates = row[k].templates
    BY SyncFacts DEF Live
  <1> QED BY <1>6, <1>7, <1>8, <1>9, <1>10, <1>11 DEF Respects

LEMMA SyncCareful ==
    ASSUME Inv, NEW u \in Request, tx[u].pc = "syncCards", NEW C, NEW N, Syncing(u, C, N),
           tx'[u].pc = "over", \A r \in Request \ {u} : tx'[r] = tx[r],
           ~Outdated(u) \/ tx[u].req.note \in torn'
    PROVE  Careful
  <1> DEFINE n == tx[u].req.note
             note == tx[u].dirty[n]
             want == tx[u].seen.want
             q == tx[u].req
  <1>1. NoteForm(tx[u]) /\ NoteWanted(tx[u]) /\ NoteWritten(row, tx[u])
    BY DEF Inv, Local, NoteInv, Writing
  <1>2. NoneLeftCardless
    <2> SUFFICES ASSUME NEW m \in Note, row'[m] # Gone, CardsOf(row', m) = {}
                 PROVE  row[m] # Gone /\ CardsOf(row, m) = {}
      BY DEF NoneLeftCardless
    <2>1. CASE m = n
      <3>1. PICK o \in DOMAIN want : TRUE
        BY <1>1 DEF NoteWanted
      <3>2. PICK c \in C \cup N : row'[c] # Gone
        <4>1. (\E c \in C : row[c].ord = o) \/ \E c \in N : row'[c].ord = o
          BY <3>1 DEF Syncing
        <4> QED BY <3>1, <4>1, SyncFacts
      <3>3. c \in Live(row', Card) /\ row'[c].note = n
        BY <3>2, SyncFacts DEF Live
      <3> QED BY <2>1, <3>3 DEF CardsOf
    <2>2. CASE m # n
      <3>1. \A c \in CardsOf(row, m) : c \in CardsOf(row', m)
        BY <2>2, SyncFacts DEF CardsOf, Live
      <3> QED BY <2>2, <3>1, SyncFacts
    <2> QED BY <2>1, <2>2
  <1>3. OnlyOrphansGo
    BY SyncFacts DEF OnlyOrphansGo, Live
  <1>4. NoCardDiscarded
    <2> SUFFICES ASSUME NEW c \in Live(row, Card), row'[c] = Gone
                 PROVE  /\ tx[u].pc = "syncCards" /\ tx'[u].pc = "over" /\ n = row[c].note
                        /\ row[c].ord \notin DOMAIN want
      BY DEF NoCardDiscarded
    <2>1. c \in C
      BY SyncFacts DEF Live
    <2> QED BY <2>1, SyncFacts
  <1>5. NoCardRepointed
    <2>0. /\ \A c \in Card \ (C \cup N) : row'[c] = row[c]
          /\ \A c \in N : row[c] = Gone
          /\ \A c \in C : row[c].note = n
          /\ \A c \in C : row'[c] # Gone =>
                /\ row'[c].ord = row[c].ord /\ row'[c].ord \in DOMAIN want /\ row'[c].ord \in Nat
                /\ row'[c].tmpl = want[row'[c].ord]
      BY SyncFacts
    <2> SUFFICES ASSUME NEW c \in Live(row, Card), row'[c] # Gone, row'[c].tmpl # row[c].tmpl,
                        row'[row[c].note].type = row[row[c].note].type, row[c].note \notin torn \cup torn'
                 PROVE  FALSE
      BY DEF NoCardRepointed
    <2>1. c \in C /\ row[c].note = n
      BY <2>0 DEF Live
    <2>2. /\ row'[c].ord = row[c].ord /\ row[c].ord \in DOMAIN want /\ row[c].ord \in Nat
          /\ row'[c].tmpl = want[row[c].ord] /\ c \in CardsOf(row, n)
      BY <2>0, <2>1 DEF CardsOf
    <2>3. row[n] # Gone /\ n \in Live(row, Note)
      <3>1. row[row[c].note] # Gone /\ n \in Note
        BY SyncFacts DEF Inv, Tables, Sound
      <3> HIDE DEF n
      <3> QED BY <2>1, <3>1 DEF Live
    <2>4. Follows(row, n)
      BY <2>1, <2>3 DEF Inv, Tables
    <2>5. row[n].type = q.type /\ want = desiredCards(q.type, row[q.type].templates, q.marks)
      <3>1. n \in torn' \/ want = desiredCards(q.type, row[q.type].templates, q.marks)
        BY DEF Outdated
      <3>2. note.type = q.type
        BY <1>1 DEF NoteWritten
      <3>3. row'[n] = note
        BY SyncFacts
      <3> HIDE DEF n, note, q, want
      <3> QED BY <2>1, <3>1, <3>2, <3>3
    <2>6. IF q.type \in Cloze THEN row[c].tmpl = row[q.type].templates[1]
          ELSE row[c].ord < Len(row[q.type].templates) /\ row[c].tmpl = row[q.type].templates[row[c].ord + 1]
      BY <2>2, <2>4, <2>5 DEF Follows, CardsFollowTemplates
    <2>7. row'[c].tmpl = row[c].tmpl
      BY <2>2, <2>5, <2>6 DEF desiredCards
    <2> QED BY <2>7
  <1>6. RemovalConfirmed
    BY <1>1, OthersConfirm DEF NoteForm
  <1> QED BY <1>2, <1>3, <1>4, <1>5, <1>6 DEF Careful

LEMMA SyncNoteCardsKeeps ==
    ASSUME Inv, NEW u \in Request, SyncNoteCards(u)
    PROVE  Inv' /\ Careful
  <1>1. CASE Refuse(u)
    BY <1>1, Refused, QuietIsCareful
  <1>2. CASE ~Refuse(u)
    <2>1. PICK N : Syncing(u, CardsOf(row, tx[u].req.note), N)
      BY <1>2, SyncIs
    <2>2. /\ tx[u].pc = "syncCards" /\ DOMAIN row' = Row /\ tx' = [tx EXCEPT ![u] = Over] /\ outrun' = outrun
          /\ torn' = IF Outdated(u) THEN torn \cup {tx[u].req.note} ELSE torn \ {tx[u].req.note}
      BY <1>2, SyncIs DEF SyncNoteCards
    <2>3. Shape' /\ tx'[u] = Over /\ \A r \in Request \ {u} : tx'[r] = tx[r]
      BY <2>2, OverEffect DEF Inv
    <2> DEFINE C == CardsOf(row, tx[u].req.note)
    <2> HIDE DEF C
    <2>4. Syncing(u, C, N)
      BY <2>1 DEF C
    <2>5. Tables(row', torn')
      BY <2>2, <2>4, SyncTables
    <2>6. \A r \in Request \ {u} : Respects(row, row', torn, torn', tx[r])
      BY <2>2, <2>4, SyncRespects
    <2>7. Inv'
      BY <2>2, <2>3, <2>5, <2>6, Committed DEF Inv
    <2>8. Careful
      BY <2>2, <2>3, <2>4, Idle, SyncCareful
    <2> QED BY <2>7, <2>8
  <1> QED BY <1>1, <1>2

-----------------------------------------------------------------------------
(* Commits that bring no row: moving and deleting.                         *)

\* No row comes, and one that stays changes no more than its deck.
Thinned(v, w) ==
    /\ DOMAIN w = Row
    /\ \A n \in Live(w, Note) : /\ v[n] # Gone /\ w[n] \in NoteRow /\ w[n].type = v[n].type
                                /\ w[n].vals = v[n].vals /\ w[n].sum = v[n].sum
                                /\ w[w[n].home] # Gone /\ w[w[n].type] # Gone
    /\ \A c \in Live(w, Card) : /\ v[c] # Gone /\ w[c] \in CardRow /\ w[c].note = v[c].note
                                /\ w[c].tmpl = v[c].tmpl /\ w[c].ord = v[c].ord
                                /\ w[w[c].note] # Gone /\ w[w[c].deck] # Gone /\ HasTemplate(w, w[c].tmpl)
    /\ \A t \in Live(w, Type) : v[t] # Gone /\ w[t] = v[t]

LEMMA ThinnedTables ==
    ASSUME NEW v, NEW w, NEW lost, Tables(v, lost), Thinned(v, w)
    PROVE  Tables(w, lost)
  <1>1. Sound(v)
    BY DEF Tables
  <1>2. \A n \in Live(w, Note) : n \in Live(v, Note) /\ w[n].vals # <<>> /\ w[n].sum = ComputeNoteChecksum(w[n].vals)
    BY <1>1 DEF Sound, Thinned, Live
  <1>3. \A c \in Live(w, Card) : c \in Live(v, Card) /\ w[c].ord >= 0
    BY <1>1 DEF Sound, Thinned, Live
  <1>4. \A t \in Live(w, Type) : t \in Live(v, Type) /\ w[t] = v[t]
    BY DEF Thinned, Live
  <1>5. ~Collide(w)
    <2>1. ~Collide(v)
      BY <1>1 DEF Sound
    <2> QED BY <1>3, <2>1 DEF Thinned, Collide
  <1>6. Sound(w)
    <2>1. \A t \in Live(w, Type) : /\ w[t] \in TypeRow /\ w[t].fields # <<>> /\ w[t].templates # <<>>
                                   /\ IsInjective(w[t].templates) /\ (t \in Cloze => Len(w[t].templates) = 1)
      BY <1>1, <1>4 DEF Sound
    <2>2. \A t, u \in Live(w, Type) : t # u => ToSet(w[t].templates) \cap ToSet(w[u].templates) = {}
      BY <1>1, <1>4 DEF Sound
    <2> QED BY <1>2, <1>3, <1>5, <2>1, <2>2 DEF Sound, Thinned
  <1>7. ASSUME NEW n \in Live(w, Note) \ lost PROVE Follows(w, n)
    <2>1. n \in Live(v, Note) /\ Follows(v, n) /\ n \in Note
      BY <1>2, <1>7 DEF Tables, Live
    <2>2. w[n].type = v[n].type /\ w[n].vals = v[n].vals
      BY <1>7 DEF Thinned
    <2>3. w[v[n].type] = v[v[n].type]
      <3>1. w[n].type \in Type /\ w[w[n].type] # Gone
        BY <1>7 DEF Thinned, NoteRow
      <3> QED BY <1>4, <2>2, <3>1 DEF Live
    <2>4. \A c \in CardsOf(w, n) : c \in CardsOf(v, n) /\ w[c].tmpl = v[c].tmpl /\ w[c].ord = v[c].ord
      BY <1>3 DEF Thinned, CardsOf
    <2> QED BY <2>1, <2>2, <2>3, <2>4, FollowsStays
  <1> QED BY <1>6, <1>7 DEF Tables, Thinned

LEMMA ThinnedKeeps ==
    ASSUME Inv, NEW u \in Request, tx' = [tx EXCEPT ![u] = Over], Thinned(row, row'),
           torn' = torn, outrun' \subseteq Note,
           \A r \in Request \ {u} :
              /\ \A x \in Held(tx[r]) : row'[x] = row[x]
              /\ \A x \in tx[r].share : row'[x] # Gone
              /\ \A c \in Live(row', Card) : row'[c].deck = row[c].deck \/ row'[c].deck \notin tx[r].excl
    PROVE  Inv' /\ NoCardRepointed
  <1>1. Shape' /\ tx'[u] = Over /\ \A r \in Request \ {u} : tx'[r] = tx[r]
    BY OverEffect DEF Inv
  <1>2. Tables(row', torn')
    BY ThinnedTables DEF Inv
  <1>3. ASSUME NEW r \in Request \ {u} PROVE Respects(row, row', torn, torn', tx[r])
    <2>1. \A c \in Live(row', Card) : /\ row[c] # Gone /\ row'[c].note = row[c].note
                                      /\ row'[c].tmpl = row[c].tmpl
                                      /\ row'[c].deck = row[c].deck \/ row'[c].deck \notin tx[r].excl
      BY DEF Thinned
    <2>2. \A n \in Live(row', Note) : row[n] # Gone /\ row'[n].type = row[n].type
      BY DEF Thinned
    <2>3. \A k \in Live(row', Type) : row[k] # Gone /\ row'[k].templates = row[k].templates
      BY DEF Thinned
    <2> QED BY <2>1, <2>2, <2>3 DEF Respects
  <1>4. Inv'
    BY <1>1, <1>2, <1>3, Committed
  <1>5. NoCardRepointed
    BY DEF NoCardRepointed, Thinned, Live
  <1> QED BY <1>4, <1>5

LEMMA MoveNoteCardsFromDeckKeeps ==
    ASSUME Inv, NEW u \in Request, MoveNoteCardsFromDeck(u)
    PROVE  Inv' /\ Careful
  <1> DEFINE n == tx[u].req.note
             d == tx[u].req.deck
             v == View(u)
             moved == {c \in CardsOf(v, n) : v[c].deck = tx[u].seen.home}
             rows == MovedCards(v, n, tx[u].seen.home, d)
  <1>1. /\ tx[u].pc = "moveCards" /\ Updatable(u, DOMAIN rows) /\ row' = rows ++ v
        /\ tx' = [tx EXCEPT ![u] = Over] /\ torn' = torn /\ outrun' = outrun
    BY DEF MoveNoteCardsFromDeck, Commit
  <1>2. /\ n \in Note /\ d \in Deck /\ tx[u].req.kind = "move" /\ tx[u].excl = {n} /\ tx[u].share = {d}
        /\ Dirty(tx[u]) = {n} /\ tx[u].dirty[n] = [row[n] EXCEPT !.home = d] /\ Locks(row, tx[u])
    BY <1>1 DEF Inv, Local, MoveInv
  <1>3. row[n] # Gone /\ row[d] # Gone /\ n \in Live(row, Note) /\ n \in Row /\ d \in Row /\ n \notin Card
    BY <1>2, ContentsAssumption DEF Locks, Live, Row
  <1>4. DOMAIN v = Row /\ v[n] = tx[u].dirty[n] /\ \A x \in Row \ {n} : v[x] = row[x]
    BY <1>2, <1>3, ViewAt
  <1> HIDE DEF v
  <1>5. /\ moved \subseteq Live(row, Card) \ {n} /\ moved \subseteq Row
        /\ \A c \in moved : row[c].note = n /\ v[c] = row[c]
    BY <1>3, <1>4 DEF CardsOf, Live, Row
  <1>6. DOMAIN rows = moved /\ \A c \in moved : rows[c] = [row[c] EXCEPT !.deck = d]
    BY <1>5 DEF MovedCards
  <1> HIDE DEF moved, rows
  <1>7. /\ DOMAIN row' = Row /\ row'[n] = [row[n] EXCEPT !.home = d]
        /\ \A c \in moved : row'[c] = [row[c] EXCEPT !.deck = d]
        /\ \A x \in Row \ ({n} \cup moved) : row'[x] = row[x]
    BY <1>1, <1>2, <1>3, <1>4, <1>5, <1>6 DEF ++
  <1>8. /\ row'[n] \in NoteRow /\ row'[n].home = d /\ row'[n].type = row[n].type
        /\ row'[n].vals = row[n].vals /\ row'[n].sum = row[n].sum /\ row'[n] # Gone
    <2>1. row[n] \in NoteRow
      BY <1>3, RowsTyped
    <2>2. /\ row'[n] \in NoteRow /\ row'[n].home = d /\ row'[n].type = row[n].type
          /\ row'[n].vals = row[n].vals /\ row'[n].sum = row[n].sum
      BY <1>2, <1>7, <2>1 DEF NoteRow
    <2> QED BY <2>2, ContentsAssumption
  <1>9. ASSUME NEW c \in moved
        PROVE  /\ row'[c] \in CardRow /\ row'[c].deck = d /\ row'[c].note = row[c].note
               /\ row'[c].tmpl = row[c].tmpl /\ row'[c].ord = row[c].ord /\ row'[c] # Gone
    <2>1. row[c] \in CardRow
      BY <1>5, RowsTyped
    <2>2. /\ row'[c] \in CardRow /\ row'[c].deck = d /\ row'[c].note = row[c].note
          /\ row'[c].tmpl = row[c].tmpl /\ row'[c].ord = row[c].ord
      <3> DEFINE card == row[c]
                 next == row'[c]
      <3>1. card \in CardRow /\ d \in Deck /\ next = [card EXCEPT !.deck = d]
        BY <1>2, <1>7, <2>1
      <3> HIDE DEF card, next, d
      <3>2. /\ next \in CardRow /\ next.deck = d /\ next.note = card.note
            /\ next.tmpl = card.tmpl /\ next.ord = card.ord
        BY <3>1 DEF CardRow
      <3> QED BY <3>2 DEF card, next
    <2> QED BY <2>2, ContentsAssumption
  <1>10. /\ \A x \in Deck \cup Type : row'[x] = row[x]
         /\ \A m \in Note \ {n} : row'[m] = row[m]
         /\ \A c \in Card \ moved : row'[c] = row[c]
    BY <1>2, <1>5, <1>7, ContentsAssumption DEF Row, Live
  <1>11. \A x \in Row : row'[x] = Gone <=> row[x] = Gone
    BY <1>3, <1>5, <1>7, <1>8, <1>9 DEF Live
  <1>12. Thinned(row, row')
    <2>1. Sound(row) /\ \A x : HasTemplate(row', x) <=> HasTemplate(row, x)
      BY <1>10, SameTypes DEF Inv, Tables
    <2>2. ASSUME NEW m \in Live(row', Note)
          PROVE  /\ row[m] # Gone /\ row'[m] \in NoteRow /\ row'[m].type = row[m].type
                 /\ row'[m].vals = row[m].vals /\ row'[m].sum = row[m].sum
                 /\ row'[row'[m].home] # Gone /\ row'[row'[m].type] # Gone
      <3>1. m \in Live(row, Note)
        BY <1>11 DEF Live, Row
      <3>2. /\ row[m] \in NoteRow /\ row[m].home \in Deck /\ row[m].type \in Type
            /\ row[row[m].home] # Gone /\ row[row[m].type] # Gone
        BY <2>1, <3>1, RowsTyped DEF Sound
      <3>3. CASE m = n
        BY <1>2, <1>3, <1>8, <1>10, <3>2, <3>3
      <3>4. CASE m # n
        BY <1>10, <3>1, <3>2, <3>4 DEF Live
      <3> QED BY <3>3, <3>4
    <2>3. ASSUME NEW c \in Live(row', Card)
          PROVE  /\ row[c] # Gone /\ row'[c] \in CardRow /\ row'[c].note = row[c].note
                 /\ row'[c].tmpl = row[c].tmpl /\ row'[c].ord = row[c].ord
                 /\ row'[row'[c].note] # Gone /\ row'[row'[c].deck] # Gone /\ HasTemplate(row', row'[c].tmpl)
      <3>1. c \in Live(row, Card)
        BY <1>11 DEF Live, Row
      <3>2. /\ row[c] \in CardRow /\ row[c].deck \in Deck /\ row[c].note \in Note
            /\ row[row[c].deck] # Gone /\ row[row[c].note] # Gone /\ HasTemplate(row, row[c].tmpl)
        BY <2>1, <3>1, RowsTyped DEF Sound
      <3>3. row'[row[c].note] # Gone /\ row'[row[c].deck] # Gone /\ row'[d] # Gone
        BY <1>2, <1>3, <1>11, <3>2 DEF Row
      <3>4. CASE c \in moved
        BY <1>9, <2>1, <3>1, <3>2, <3>3, <3>4 DEF Live
      <3>5. CASE c \notin moved
        BY <1>10, <2>1, <3>1, <3>2, <3>3, <3>5 DEF Live
      <3> QED BY <3>4, <3>5
    <2>4. \A t \in Live(row', Type) : row[t] # Gone /\ row'[t] = row[t]
      BY <1>10 DEF Live
    <2> QED BY <1>7, <2>2, <2>3, <2>4 DEF Thinned
  <1>13. ASSUME NEW r \in Request \ {u}
         PROVE  /\ \A x \in Held(tx[r]) : row'[x] = row[x]
                /\ \A x \in tx[r].share : row'[x] # Gone
                /\ \A c \in Live(row', Card) : row'[c].deck = row[c].deck \/ row'[c].deck \notin tx[r].excl
    <2>1. Apart(tx[u], tx[r]) /\ Locks(row, tx[r]) /\ moved \cap Held(tx[r]) = {}
      BY <1>1, <1>6, Guards DEF Inv, Local
    <2>2. n \notin Held(tx[r]) /\ d \notin tx[r].excl /\ Held(tx[r]) \cup tx[r].share \subseteq Row
      BY <1>2, <2>1 DEF Apart, Held, Locks
    <2>3. \A x \in tx[r].share : row'[x] # Gone
      BY <1>11, <2>1, <2>2 DEF Locks
    <2>4. \A c \in Live(row', Card) : row'[c].deck = row[c].deck \/ row'[c].deck \notin tx[r].excl
      BY <1>9, <1>10, <2>2 DEF Live
    <2> QED BY <1>7, <2>1, <2>2, <2>3, <2>4
  <1>14. Inv' /\ NoCardRepointed
    BY <1>1, <1>12, <1>13, ThinnedKeeps DEF Inv
  <1>15. NoneLeftCardless
    <2> SUFFICES ASSUME NEW m \in Note, row'[m] # Gone, CardsOf(row', m) = {}
                 PROVE  row[m] # Gone /\ CardsOf(row, m) = {}
      BY DEF NoneLeftCardless
    <2>1. row[m] # Gone
      BY <1>11 DEF Row
    <2>2. \A c \in CardsOf(row, m) : c \in CardsOf(row', m)
      <3> TAKE c \in CardsOf(row, m)
      <3>1. c \in Card /\ row[c] # Gone /\ row[c].note = m /\ row'[c] # Gone
        BY <1>11 DEF CardsOf, Live, Row
      <3> QED BY <1>9, <1>10, <3>1 DEF CardsOf, Live
    <2> QED BY <2>1, <2>2
  <1>16. OnlyOrphansGo /\ NoCardDiscarded
    BY <1>11 DEF OnlyOrphansGo, NoCardDiscarded, Live, Row
  <1>17. RemovalConfirmed
    BY <1>1, <1>2, OverEffect, OthersConfirm DEF Inv
  <1> QED BY <1>14, <1>15, <1>16, <1>17 DEF Careful

LEMMA DeleteNoteKeeps ==
    ASSUME Inv, NEW u \in Request, DeleteNote(u)
    PROVE  Inv' /\ Careful
  <1> DEFINE n == tx[u].req.note
             S == WithCards(n)
  <1>1. CASE Refuse(u)
    BY <1>1, Refused, QuietIsCareful
  <1>2. CASE row[n] # Gone /\ Commit(u, [x \in S |-> Gone]) /\ UNCHANGED <<torn, outrun>>
    <2>1. /\ tx[u].pc = "deleteNote" /\ Lockable(u, S) /\ n \in Note /\ tx[u].req.kind = "delnote"
          /\ Dirty(tx[u]) = {} /\ tx' = [tx EXCEPT ![u] = Over] /\ Sound(row) /\ DOMAIN row = Row
      BY <1>2 DEF DeleteNote, Commit, Inv, Tables, Local, MoveInv, Locks, Unlocked
    <2>2. /\ n \in S /\ S \subseteq {n} \cup Card /\ S \subseteq Row
          /\ \A c \in Live(row, Card) : c \in S <=> row[c].note = n
      BY <2>1, ContentsAssumption DEF WithCards, CardsOf, Live, Row
    <2> HIDE DEF S
    <2>3. DOMAIN row' = Row /\ \A x \in Row : row'[x] = IF x \in S THEN Gone ELSE row[x]
      <3>1. DOMAIN View(u) = Row /\ \A x \in Row : View(u)[x] = row[x]
        BY <2>1, ViewAt
      <3> QED BY <1>2, <2>2, <3>1 DEF Commit, ++
    <2>4. \A x \in Deck \cup Type \cup (Note \ {n}) : x \in Row /\ row'[x] = row[x]
      BY <2>1, <2>2, <2>3, ContentsAssumption DEF Row
    <2>5. \A c \in Card : c \in Row /\ row'[c] = IF row[c] = Gone \/ row[c].note = n THEN Gone ELSE row[c]
      BY <2>2, <2>3 DEF Row, Live
    <2>6. row'[n] = Gone
      BY <2>2, <2>3
    <2>7. Thinned(row, row')
      <3>1. \A x : HasTemplate(row', x) <=> HasTemplate(row, x)
        BY <2>4, SameTypes
      <3>2. ASSUME NEW m \in Live(row', Note)
            PROVE  /\ row[m] # Gone /\ row'[m] = row[m] /\ row'[m] \in NoteRow
                   /\ row'[row'[m].home] # Gone /\ row'[row'[m].type] # Gone
        <4>1. m # n /\ m \in Live(row, Note) /\ row'[m] = row[m]
          BY <2>4, <2>6 DEF Live
        <4>2. row[m] \in NoteRow /\ row[m].home \in Deck /\ row[m].type \in Type
          BY <4>1, RowsTyped
        <4> QED BY <2>1, <2>4, <4>1, <4>2 DEF Sound, Live
      <3>3. ASSUME NEW c \in Live(row', Card)
            PROVE  /\ row[c] # Gone /\ row'[c] = row[c] /\ row'[c] \in CardRow
                   /\ row'[row'[c].note] # Gone /\ row'[row'[c].deck] # Gone /\ HasTemplate(row', row'[c].tmpl)
        <4>1. c \in Live(row, Card) /\ row'[c] = row[c] /\ row[c].note # n
          BY <2>5 DEF Live
        <4>2. row[c] \in CardRow /\ row[c].note \in Note \ {n} /\ row[c].deck \in Deck
          BY <4>1, RowsTyped
        <4> QED BY <2>1, <2>4, <3>1, <4>1, <4>2 DEF Sound, Live
      <3>4. \A t \in Live(row', Type) : row[t] # Gone /\ row'[t] = row[t]
        BY <2>4 DEF Live
      <3> QED BY <2>3, <3>2, <3>3, <3>4 DEF Thinned
    <2>8. ASSUME NEW r \in Request \ {u}
          PROVE  /\ \A x \in Held(tx[r]) : row'[x] = row[x]
                 /\ \A x \in tx[r].share : row'[x] # Gone
                 /\ \A c \in Live(row', Card) : row'[c].deck = row[c].deck \/ row'[c].deck \notin tx[r].excl
      <3>1. S \cap (Held(tx[r]) \cup tx[r].share) = {} /\ Locks(row, tx[r])
        BY <2>1, Guards DEF Inv, Local
      <3>2. Held(tx[r]) \cup tx[r].share \subseteq Row
        BY <3>1 DEF Locks, Held
      <3>3. \A x \in tx[r].share : row'[x] # Gone
        BY <2>3, <3>1, <3>2 DEF Locks
      <3> QED BY <2>3, <2>5, <3>1, <3>2, <3>3 DEF Live
    <2>9. Inv' /\ NoCardRepointed
      BY <1>2, <2>1, <2>7, <2>8, ThinnedKeeps DEF Inv
    <2>10. NoneLeftCardless
      <3> SUFFICES ASSUME NEW m \in Note, row'[m] # Gone, CardsOf(row', m) = {}
                   PROVE  row[m] # Gone /\ CardsOf(row, m) = {}
        BY DEF NoneLeftCardless
      <3>1. m # n /\ row[m] # Gone
        BY <2>4, <2>6
      <3>2. \A c \in CardsOf(row, m) : c \in CardsOf(row', m)
        BY <2>5, <3>1 DEF CardsOf, Live
      <3> QED BY <3>1, <3>2
    <2>11. OnlyOrphansGo
      BY <2>4 DEF OnlyOrphansGo, Live
    <2>12. NoCardDiscarded
      BY <2>5, <2>6 DEF NoCardDiscarded, Live
    <2>13. RemovalConfirmed
      BY <2>1, OverEffect, OthersConfirm DEF Inv
    <2> QED BY <2>9, <2>10, <2>11, <2>12, <2>13 DEF Careful
  <1> QED BY <1>1, <1>2 DEF DeleteNote

LEMMA DeleteDeckRowKeeps ==
    ASSUME Inv, NEW u \in Request, DeleteDeckRow(u)
    PROVE  Inv' /\ Careful
  <1> DEFINE me == tx[u]
             d == tx[u].req.deck
             v == View(u)
             cards == FiledIn(v, d)
             changed == {n \in Live(row, Note) : {c \in CardsOf(row, n) : row[c].deck # d} # tx[u].seen[n]}
  <1>1. CASE Refuse(u)
    BY <1>1, Refused, QuietIsCareful
  <1>2. CASE /\ HomedIn(v, d) = {} /\ Commit(u, [x \in {d} \cup cards |-> Gone])
             /\ outrun' = outrun \cup changed /\ torn' = torn
    <2>1. /\ me.pc = "deleteDeck" /\ Lockable(u, cards) /\ DeckInv(row, me) /\ Locks(row, me)
          /\ Sound(row) /\ DOMAIN row = Row
      BY DEF DeleteDeckRow, Inv, Tables, Local
    <2>2. /\ d \in Deck /\ d \in me.excl /\ me.req.kind = "deldeck"
          /\ Dirty(me) \subseteq Live(row, Note \cup Card)
          /\ \A c \in Dirty(me) \cap Card : row[c].note \in Dirty(me) /\ me.dirty[row[c].note] = Gone
          /\ \A n \in Live(row, Note) : me.seen[n] = {} /\ Here(row, n, d) => n \in Dirty(me) /\ me.dirty[n] = Gone
      BY <2>1 DEF DeckInv, Deleting, Doomed
    <2>3. ASSUME NEW n \in Dirty(me) \cap Note
          PROVE  \/ me.dirty[n] = Gone /\ me.seen[n] = {} /\ CardsOf(row, n) \subseteq Dirty(me)
                 \/ /\ me.dirty[n] # Gone /\ me.dirty[n] \in NoteRow
                    /\ me.dirty[n].home \in me.share \cap Deck /\ me.dirty[n].type = row[n].type
                    /\ me.dirty[n].vals = row[n].vals /\ me.dirty[n].sum = row[n].sum
      <3> DEFINE old == row[n]
                 note == me.dirty[n]
      <3>1. \/ note = Gone /\ me.seen[n] = {} /\ CardsOf(row, n) \subseteq Dirty(me)
            \/ note.home \in me.share \cap Deck /\ note = [old EXCEPT !.home = note.home]
        BY <2>1 DEF DeckInv
      <3>2. old \in NoteRow
        BY <2>2, RowsTyped DEF Live
      <3>3. ASSUME note.home \in Deck, note = [old EXCEPT !.home = note.home]
            PROVE  note \in NoteRow /\ note.type = old.type /\ note.vals = old.vals /\ note.sum = old.sum
        <4> DEFINE h == note.home
        <4>1. h \in Deck /\ note = [old EXCEPT !.home = h]
          BY <3>3
        <4> HIDE DEF h, note, old
        <4> QED BY <3>2, <4>1 DEF NoteRow
      <3> QED BY <3>1, <3>3, ContentsAssumption
    <2>4. /\ DOMAIN v = Row /\ \A x \in Row : v[x] = IF x \in Dirty(me) THEN me.dirty[x] ELSE row[x]
          /\ \A c \in Card : v[c] = IF c \in Dirty(me) THEN Gone ELSE row[c]
          /\ Card \subseteq Row
      BY <2>1, ViewAt, DeletingView DEF Row
    <2>5. cards \subseteq Card /\ \A c \in Card : c \in cards <=> c \notin Dirty(me) /\ row[c] # Gone /\ row[c].deck = d
      BY <2>4 DEF FiledIn, Live
    <2>6. \A n \in Note : n \in Row /\ (v[n] # Gone => v[n].home # d)
      BY <1>2 DEF HomedIn, Live, Row
    <2> HIDE DEF v, cards
    <2>7. DOMAIN row' = Row /\ \A x \in Row : row'[x] = IF x = d \/ x \in cards THEN Gone ELSE v[x]
      BY <1>2, <2>2, <2>4, <2>5 DEF Commit, ++, v, Row
    <2>8. row'[d] = Gone /\ \A x \in (Deck \ {d}) \cup Type : x \in Row /\ row'[x] = row[x]
      BY <2>2, <2>4, <2>5, <2>7, ContentsAssumption DEF Row, Live
    <2>9. /\ \A c \in Card : row'[c] = IF c \in Dirty(me) \/ (row[c] # Gone /\ row[c].deck = d) THEN Gone ELSE row[c]
          /\ \A n \in Note : row'[n] = (IF n \in Dirty(me) THEN me.dirty[n] ELSE row[n]) /\ (row'[n] # Gone => row'[n].home # d)
      BY <2>2, <2>4, <2>5, <2>6, <2>7, ContentsAssumption
    <2>10. ASSUME NEW n \in Live(row', Note)
           PROVE  /\ n \in Live(row, Note) /\ row'[n] \in NoteRow /\ row'[n].type = row[n].type
                  /\ row'[n].vals = row[n].vals /\ row'[n].sum = row[n].sum
                  /\ row'[row'[n].home] # Gone /\ row'[row'[n].type] # Gone
      <3>1. CASE n \in Dirty(me)
        <4>1. /\ me.dirty[n] \in NoteRow
              /\ me.dirty[n].home \in me.share \cap Deck /\ me.dirty[n].type = row[n].type
              /\ me.dirty[n].vals = row[n].vals /\ me.dirty[n].sum = row[n].sum
              /\ row'[n] = me.dirty[n] /\ me.dirty[n].home # d
          BY <2>3, <2>9, <3>1 DEF Live
        <4>2. n \in Live(row, Note)
          BY <2>2, <3>1 DEF Live
        <4>3. row[row[n].type] # Gone /\ row[n].type \in Type
          BY <2>1, <4>2, RowsTyped DEF Sound
        <4>4. row[me.dirty[n].home] # Gone
          BY <2>1, <4>1 DEF Locks
        <4> HIDE DEF me, d
        <4> QED BY <2>8, <4>1, <4>2, <4>3, <4>4
      <3>2. CASE n \notin Dirty(me)
        <4>1. row'[n] = row[n] /\ n \in Live(row, Note) /\ row[n].home # d
          BY <2>9, <3>2 DEF Live
        <4>2. /\ row[n] \in NoteRow /\ row[n].home \in Deck /\ row[n].type \in Type
              /\ row[row[n].home] # Gone /\ row[row[n].type] # Gone
          BY <2>1, <4>1, RowsTyped DEF Sound
        <4> QED BY <2>8, <4>1, <4>2
      <3> QED BY <3>1, <3>2
    <2>11. ASSUME NEW c \in Live(row', Card)
           PROVE  /\ c \in Live(row, Card) /\ row'[c] = row[c] /\ row'[c] \in CardRow
                  /\ row'[row'[c].note] # Gone /\ row'[row'[c].deck] # Gone /\ HasTemplate(row', row'[c].tmpl)
      <3>1. c \in Live(row, Card) \ Dirty(me) /\ row'[c] = row[c] /\ row[c].deck # d
        BY <2>9 DEF Live
      <3>2. /\ row[c] \in CardRow /\ row[c].note \in Note /\ row[c].deck \in Deck
            /\ row[row[c].note] # Gone /\ row[row[c].deck] # Gone /\ HasTemplate(row, row[c].tmpl)
        BY <2>1, <3>1, RowsTyped DEF Sound
      <3>3. HasTemplate(row', row[c].tmpl)
        BY <2>8, <3>2, SameTypes
      <3>4. row'[row[c].note] # Gone
        <4> DEFINE n == row[c].note
        <4>1. n \in Note /\ row[n] # Gone /\ c \in CardsOf(row, n)
          BY <3>1, <3>2 DEF CardsOf
        <4> HIDE DEF n
        <4>2. n \in Dirty(me) => me.dirty[n] # Gone
          BY <2>3, <3>1, <4>1
        <4>3. row'[n] # Gone
          BY <2>9, <4>1, <4>2
        <4> QED BY <4>3 DEF n
      <3> QED BY <2>8, <3>1, <3>2, <3>3, <3>4
    <2>12. Thinned(row, row')
      <3>1. \A t \in Live(row', Type) : row[t] # Gone /\ row'[t] = row[t]
        BY <2>8 DEF Live
      <3> QED BY <2>7, <2>10, <2>11, <3>1 DEF Thinned, Live
    <2>13. ASSUME NEW r \in Request \ {u}
           PROVE  /\ \A x \in Held(tx[r]) : row'[x] = row[x]
                  /\ \A x \in tx[r].share : row'[x] # Gone
                  /\ \A c \in Live(row', Card) : row'[c].deck = row[c].deck \/ row'[c].deck \notin tx[r].excl
      <3>1. cards \cap (Held(tx[r]) \cup tx[r].share) = {} /\ Locks(row, tx[r]) /\ Apart(me, tx[r])
        BY <2>1, Guards DEF Inv, Local
      <3>2. Held(tx[r]) \cup tx[r].share \subseteq Row /\ d \notin Held(tx[r]) \cup tx[r].share /\ Dirty(me) \cap Held(tx[r]) = {}
        BY <2>2, <3>1 DEF Locks, Held, Apart
      <3>3. \A x \in Held(tx[r]) : row'[x] = row[x]
        BY <2>4, <2>7, <3>1, <3>2
      <3>4. ASSUME NEW x \in tx[r].share PROVE row'[x] # Gone
        <4>1. row'[x] = v[x] /\ x \in Row /\ row[x] # Gone
          BY <2>7, <3>1, <3>2, <3>4 DEF Locks
        <4>2. x \in Dirty(me) => me.dirty[x] # Gone
          BY <2>1, <3>1, <3>4 DEF Locks, Apart
        <4> QED BY <2>4, <4>1, <4>2
      <3> QED BY <2>11, <3>3, <3>4
    <2>14. tx' = [tx EXCEPT ![u] = Over] /\ outrun' \subseteq Note
      BY <1>2 DEF Commit, Inv, Live
    <2>15. Inv' /\ NoCardRepointed
      BY <1>2, <2>12, <2>13, <2>14, ThinnedKeeps
    <2>16. NoneLeftCardless
      <3> SUFFICES ASSUME NEW m \in Note, row'[m] # Gone, CardsOf(row', m) = {}, m \notin outrun'
                   PROVE  row[m] # Gone /\ CardsOf(row, m) = {}
        BY DEF NoneLeftCardless
      <3>1. m \in Live(row, Note) /\ ~(m \in Dirty(me) /\ me.dirty[m] = Gone)
        BY <2>9, <2>10 DEF Live
      <3>2. {c \in CardsOf(row, m) : row[c].deck # d} = me.seen[m]
        BY <1>2, <3>1
      <3>3. ASSUME NEW c \in CardsOf(row, m) PROVE row[c].deck = d
        <4>1. c \in Card /\ row[c] # Gone /\ row[c].note = m /\ row'[c] = Gone
          <5>1. c \in Card /\ row[c] # Gone /\ row[c].note = m
            BY DEF CardsOf, Live
          <5>2. row'[c] = Gone
            BY <2>9, <5>1 DEF CardsOf, Live
          <5> QED BY <5>1, <5>2
        <4>2. c \notin Dirty(me)
          BY <2>2, <3>1, <4>1
        <4> QED BY <2>9, <4>1, <4>2
      <3>4. me.seen[m] = {}
        BY <3>2, <3>3
      <3>5. ~Here(row, m, d)
        BY <2>2, <3>1, <3>4
      <3>6. CardsOf(row, m) = {}
        BY <3>3, <3>5 DEF Here
      <3> QED BY <3>1, <3>6 DEF Live
    <2>17. OnlyOrphansGo
      <3> SUFFICES ASSUME NEW k \in Live(row, Deck), row'[k] = Gone,
                          NEW n \in Live(row, Note), row'[n] = Gone, n \notin outrun'
                   PROVE  ~Elsewhere(row, n, k)
        BY DEF OnlyOrphansGo
      <3>1. k = d
        BY <2>8 DEF Live
      <3>2. n \in Dirty(me) \cap Note /\ me.dirty[n] = Gone
        BY <2>9 DEF Live
      <3>3. me.seen[n] = {}
        BY <2>3, <3>2
      <3>4. {c \in CardsOf(row, n) : row[c].deck # d} = me.seen[n]
        BY <1>2
      <3> QED BY <3>1, <3>3, <3>4 DEF Elsewhere
    <2>18. NoCardDiscarded
      <3> SUFFICES ASSUME NEW c \in Live(row, Card), row'[c] = Gone
                   PROVE  row'[row[c].note] = Gone \/ row'[row[c].deck] = Gone
        BY DEF NoCardDiscarded
      <3>1. c \in Dirty(me) \/ row[c].deck = d
        BY <2>9 DEF Live
      <3>2. row[c].note \in Note
        BY RowsTyped
      <3> QED BY <2>2, <2>8, <2>9, <3>1, <3>2 DEF Live
    <2>19. RemovalConfirmed
      BY <2>2, <2>14, OverEffect, OthersConfirm DEF Inv
    <2> QED BY <2>15, <2>16, <2>17, <2>18, <2>19 DEF Careful
  <1> QED BY <1>1, <1>2 DEF DeleteDeckRow

-----------------------------------------------------------------------------
(* Requests of a single statement.                                         *)

LEMMA OneRow ==
    ASSUME Inv, NEW u \in Request, tx[u].pc = "new", NEW rows, NEW k \in Row, DOMAIN rows = {k}, Commit(u, rows)
    PROVE  /\ DOMAIN row' = Row /\ row'[k] = rows[k] /\ \A x \in Row \ {k} : row'[x] = row[x]
           /\ tx' = [tx EXCEPT ![u] = Over] /\ RemovalConfirmed /\ Shape'
           /\ tx'[u] = Over /\ \A r \in Request \ {u} : tx'[r] = tx[r]
  <1>1. Dirty(tx[u]) = {} /\ tx[u].req.kind = "none"
    BY DEF Inv, Local, Locks, Unlocked
  <1>2. DOMAIN View(u) = Row /\ \A x \in Row : View(u)[x] = row[x]
    BY <1>1, ViewAt
  <1>3. DOMAIN row' = Row /\ row'[k] = rows[k] /\ \A x \in Row \ {k} : row'[x] = row[x]
    BY <1>2 DEF Commit, ++
  <1>4. tx' = [tx EXCEPT ![u] = Over]
    BY DEF Commit
  <1>5. Shape' /\ tx'[u] = Over /\ \A r \in Request \ {u} : tx'[r] = tx[r]
    BY <1>4, OverEffect DEF Inv
  <1>6. RemovalConfirmed
    BY <1>1, <1>5, OthersConfirm
  <1> QED BY <1>3, <1>4, <1>5, <1>6

\* Which rows a request may not find gone.
LEMMA HeldExists ==
    ASSUME Inv, NEW r \in Request
    PROVE  /\ Held(tx[r]) \cup tx[r].share \subseteq Row
           /\ \A x \in tx[r].excl \cup tx[r].share : row[x] # Gone
           /\ \A x \in Held(tx[r]) : row[x] = Gone => x \in Note \cup Card
  BY DEF Inv, Local, Locks, Held, Row

\* A step that keeps every card keeps what is asked of cards.
LEMMA CardsKept ==
    ASSUME \A c \in Card : row'[c] = row[c], \A n \in Note : row'[n] # Gone => row[n] # Gone,
           \A d \in Deck : row'[d] = Gone => row[d] = Gone
    PROVE  NoneLeftCardless /\ OnlyOrphansGo /\ NoCardDiscarded /\ NoCardRepointed
  BY DEF NoneLeftCardless, OnlyOrphansGo, NoCardDiscarded, NoCardRepointed, CardsOf, Live

LEMMA CreateDeckWithAccessKeeps ==
    ASSUME Inv, NEW u \in Request, CreateDeckWithAccess(u)
    PROVE  Inv' /\ Careful
  <1>1. PICK d \in Deck : row[d] = Gone /\ Commit(u, [x \in {d} |-> "live"])
    BY DEF CreateDeckWithAccess
  <1>2. tx[u].pc = "new" /\ torn' = torn /\ outrun' = outrun /\ d \in Row
    BY DEF CreateDeckWithAccess, Sends, Row
  <1>3. /\ DOMAIN row' = Row /\ row'[d] = "live" /\ \A x \in Row \ {d} : row'[x] = row[x]
        /\ tx' = [tx EXCEPT ![u] = Over] /\ RemovalConfirmed
    <2> DEFINE rows == [x \in {d} |-> "live"]
    <2>1. DOMAIN rows = {d} /\ rows[d] = "live" /\ Commit(u, rows)
      BY <1>1
    <2> HIDE DEF rows
    <2> QED BY <1>2, <2>1, OneRow
  <1>4. /\ row'[d] # Gone /\ \A x \in Note \cup Type \cup Card : x \in Row /\ row'[x] = row[x]
        /\ \A x \in Row : row[x] # Gone => row'[x] = row[x]
    BY <1>1, <1>3, ContentsAssumption DEF Row
  <1>5. Thinned(row, row')
    <2>1. Sound(row) /\ \A x : HasTemplate(row', x) <=> HasTemplate(row, x)
      BY <1>4, SameTypes DEF Inv, Tables
    <2>2. ASSUME NEW n \in Live(row', Note)
          PROVE  row[n] # Gone /\ row'[n] = row[n] /\ row'[n] \in NoteRow /\ row'[row'[n].home] # Gone /\ row'[row'[n].type] # Gone
      <3>1. n \in Live(row, Note) /\ row'[n] = row[n]
        BY <1>4 DEF Live
      <3>2. row[n] \in NoteRow /\ row[n].home \in Row /\ row[n].type \in Row
        BY <3>1, RowsTyped DEF Row
      <3> QED BY <1>4, <2>1, <3>1, <3>2 DEF Sound, Live
    <2>3. ASSUME NEW c \in Live(row', Card)
          PROVE  /\ row[c] # Gone /\ row'[c] = row[c] /\ row'[c] \in CardRow /\ row'[row'[c].note] # Gone
                 /\ row'[row'[c].deck] # Gone /\ HasTemplate(row', row'[c].tmpl)
      <3>1. c \in Live(row, Card) /\ row'[c] = row[c]
        BY <1>4 DEF Live
      <3>2. row[c] \in CardRow /\ row[c].note \in Row /\ row[c].deck \in Row
        BY <3>1, RowsTyped DEF Row
      <3> QED BY <1>4, <2>1, <3>1, <3>2 DEF Sound, Live
    <2> QED BY <1>3, <1>4, <2>2, <2>3 DEF Thinned, Live
  <1>6. ASSUME NEW r \in Request \ {u}
        PROVE  /\ \A x \in Held(tx[r]) : row'[x] = row[x]
               /\ \A x \in tx[r].share : row'[x] # Gone
               /\ \A c \in Live(row', Card) : row'[c].deck = row[c].deck \/ row'[c].deck \notin tx[r].excl
    BY <1>4, HeldExists DEF Live
  <1>7. Inv'
    BY <1>2, <1>3, <1>5, <1>6, ThinnedKeeps DEF Inv
  <1>8. \A x \in Deck : row'[x] = Gone => row[x] = Gone
    BY <1>3, <1>4 DEF Row
  <1> QED BY <1>3, <1>4, <1>7, <1>8, CardsKept DEF Careful

LEMMA DeleteNoteTypeKeeps ==
    ASSUME Inv, NEW u \in Request, DeleteNoteType(u)
    PROVE  Inv' /\ Careful
  <1>1. PICK t \in Live(row, Type) :
           /\ Lockable(u, {t})
           /\ IF Referenced(t) THEN Refuse(u)
              ELSE Commit(u, [k \in {t} |-> Gone]) /\ UNCHANGED <<torn, outrun>>
    BY DEF DeleteNoteType
  <1>2. CASE Refuse(u)
    BY <1>2, Refused, QuietIsCareful
  <1>3. CASE ~Referenced(t) /\ Commit(u, [k \in {t} |-> Gone]) /\ UNCHANGED <<torn, outrun>>
    <2>1. tx[u].pc = "new" /\ t \in Row /\ t \in Type /\ row[t] # Gone
      BY DEF DeleteNoteType, Sends, Row, Live
    <2>2. /\ DOMAIN row' = Row /\ row'[t] = Gone /\ \A x \in Row \ {t} : row'[x] = row[x]
          /\ tx' = [tx EXCEPT ![u] = Over] /\ RemovalConfirmed
      <3> DEFINE rows == [x \in {t} |-> Gone]
      <3>1. DOMAIN rows = {t} /\ rows[t] = Gone /\ Commit(u, rows)
        BY <1>3
      <3> HIDE DEF rows
      <3> QED BY <2>1, <3>1, OneRow
    <2>3. \A x \in Deck \cup Note \cup Card \cup (Type \ {t}) : x \in Row /\ row'[x] = row[x]
      BY <2>1, <2>2, ContentsAssumption DEF Row
    <2>4. NotesOfType(row, t) = {} /\ CardsFrom(row, ToSet(row[t].templates)) = {} /\ Sound(row)
      BY <1>3 DEF Referenced, Inv, Tables
    <2>5. Thinned(row, row')
      <3>1. ASSUME NEW n \in Live(row', Note)
            PROVE  row[n] # Gone /\ row'[n] = row[n] /\ row'[n] \in NoteRow /\ row'[row'[n].home] # Gone /\ row'[row'[n].type] # Gone
        <4>1. n \in Live(row, Note) /\ row'[n] = row[n]
          BY <2>3 DEF Live
        <4>2. row[n] \in NoteRow /\ row[n].home \in Deck /\ row[n].type \in Type \ {t}
          BY <2>4, <4>1, RowsTyped DEF NotesOfType
        <4> QED BY <2>3, <2>4, <4>1, <4>2 DEF Sound, Live
      <3>2. ASSUME NEW c \in Live(row', Card)
            PROVE  /\ row[c] # Gone /\ row'[c] = row[c] /\ row'[c] \in CardRow /\ row'[row'[c].note] # Gone
                   /\ row'[row'[c].deck] # Gone /\ HasTemplate(row', row'[c].tmpl)
        <4>1. c \in Live(row, Card) /\ row'[c] = row[c]
          BY <2>3 DEF Live
        <4>2. /\ row[c] \in CardRow /\ row[c].note \in Note /\ row[c].deck \in Deck
              /\ row[c].tmpl \notin ToSet(row[t].templates)
          BY <2>4, <4>1, RowsTyped DEF CardsFrom
        <4>3. PICK k \in Live(row, Type) : row[c].tmpl \in ToSet(row[k].templates)
          BY <2>4, <4>1 DEF Sound, HasTemplate
        <4>4. k \in Live(row', Type) /\ row'[k] = row[k]
          BY <2>3, <4>2, <4>3 DEF Live
        <4>5. HasTemplate(row', row'[c].tmpl)
          BY <4>1, <4>3, <4>4 DEF HasTemplate
        <4> QED BY <2>3, <2>4, <4>1, <4>2, <4>5 DEF Sound, Live
      <3>3. \A k \in Live(row', Type) : row[k] # Gone /\ row'[k] = row[k]
        BY <2>2, <2>3 DEF Live
      <3> QED BY <2>2, <3>1, <3>2, <3>3 DEF Thinned
    <2>6. ASSUME NEW r \in Request \ {u}
          PROVE  /\ \A x \in Held(tx[r]) : row'[x] = row[x]
                 /\ \A x \in tx[r].share : row'[x] # Gone
                 /\ \A c \in Live(row', Card) : row'[c].deck = row[c].deck \/ row'[c].deck \notin tx[r].excl
      <3>1. t \notin Held(tx[r]) \cup tx[r].share
        BY <1>1, Guards
      <3> QED BY <2>2, <2>3, <3>1, HeldExists DEF Live
    <2>7. Inv'
      BY <1>3, <2>2, <2>5, <2>6, ThinnedKeeps DEF Inv
    <2> QED BY <2>2, <2>3, <2>7, CardsKept DEF Careful
  <1> QED BY <1>1, <1>2, <1>3

LEMMA CreateNoteTypeKeeps ==
    ASSUME Inv, NEW u \in Request, CreateNoteTypeWithFieldsAndTemplates(u)
    PROVE  Inv' /\ Careful
  <1>1. PICK t \in Type, f \in UnusedOf(Field, "fields"), x \in UnusedOf(Template, "templates") :
           row[t] = Gone /\ Commit(u, [k \in {t} |-> NewType(<<f>>, <<x>>)])
    BY DEF CreateNoteTypeWithFieldsAndTemplates
  <1>2. tx[u].pc = "new" /\ torn' = torn /\ outrun' = outrun /\ t \in Row
    BY DEF CreateNoteTypeWithFieldsAndTemplates, Sends, Row
  <1>3. /\ DOMAIN row' = Row /\ row'[t] = NewType(<<f>>, <<x>>) /\ \A k \in Row \ {t} : row'[k] = row[k]
        /\ tx' = [tx EXCEPT ![u] = Over] /\ RemovalConfirmed /\ Shape' /\ tx'[u] = Over
        /\ \A r \in Request \ {u} : tx'[r] = tx[r]
    <2> DEFINE rows == [k \in {t} |-> NewType(<<f>>, <<x>>)]
    <2>1. DOMAIN rows = {t} /\ rows[t] = NewType(<<f>>, <<x>>) /\ Commit(u, rows)
      BY <1>1
    <2> HIDE DEF rows
    <2> QED BY <1>2, <2>1, OneRow
  <1>4. /\ x \in Template /\ f \in Field
        /\ \A k \in Live(row, Type) : x \notin ToSet(row[k].templates)
        /\ \A r \in Request : \A k \in Dirty(tx[r]) \cap Type : x \notin ToSet(tx[r].dirty[k].templates)
    BY UnusedTemplate DEF UnusedOf
  <1>5. /\ row'[t] \in TypeRow /\ row'[t].fields # <<>> /\ row'[t].templates = <<x>> /\ row'[t] # Gone
        /\ row'[t].templates # <<>> /\ IsInjective(row'[t].templates) /\ Len(row'[t].templates) = 1
        /\ ToSet(row'[t].templates) = {x}
    <2>1. row'[t].templates = <<x>> /\ row'[t].fields = <<f>> /\ row'[t] \in TypeRow
      BY <1>3, <1>4 DEF NewType, TypeRow
    <2>2. IsInjective(<<x>>) /\ ToSet(<<x>>) = {x} /\ <<x>> # <<>> /\ <<f>> # <<>> /\ Len(<<x>>) = 1
      BY DEF IsInjective, ToSet
    <2> QED BY <2>1, <2>2, ContentsAssumption
  <1>6. \A k \in Deck \cup Note \cup Card \cup (Type \ {t}) : k \in Row /\ row'[k] = row[k]
    BY <1>2, <1>3, ContentsAssumption DEF Row
  <1>7. Sound(row) /\ \A k \in Live(row, Type) : k \in Live(row', Type) /\ row'[k] = row[k] /\ k # t
    BY <1>1, <1>6 DEF Inv, Tables, Live
  <1>8. \A y : HasTemplate(row, y) => HasTemplate(row', y)
    BY <1>7 DEF HasTemplate
  <1>9. Sound(row')
    <2>1. ASSUME NEW n \in Live(row', Note)
          PROVE  /\ row'[n] \in NoteRow /\ row'[n].vals # <<>>
                 /\ row'[row'[n].home] # Gone /\ row'[row'[n].type] # Gone
                 /\ row'[n].sum = ComputeNoteChecksum(row'[n].vals)
      <3>1. n \in Live(row, Note) /\ row'[n] = row[n]
        BY <1>6 DEF Live
      <3>2. row[n].home \in Deck /\ row[n].type \in Type /\ row[row[n].type] # Gone
        BY <1>7, <3>1, RowsTyped DEF Sound
      <3>3. row'[row[n].type] # Gone
        BY <1>7, <3>2 DEF Live
      <3> QED BY <1>6, <1>7, <3>1, <3>2, <3>3 DEF Sound
    <2>2. ASSUME NEW c \in Live(row', Card)
          PROVE  /\ row'[c] \in CardRow /\ row'[c].ord >= 0 /\ row'[row'[c].note] # Gone
                 /\ row'[row'[c].deck] # Gone /\ HasTemplate(row', row'[c].tmpl)
      <3>1. c \in Live(row, Card) /\ row'[c] = row[c]
        BY <1>6 DEF Live
      <3>2. row[c].note \in Note /\ row[c].deck \in Deck
        BY <3>1, RowsTyped
      <3> QED BY <1>6, <1>7, <1>8, <3>1, <3>2 DEF Sound
    <2>3. ASSUME NEW k \in Live(row', Type)
          PROVE  /\ row'[k] \in TypeRow /\ row'[k].fields # <<>> /\ row'[k].templates # <<>>
                 /\ IsInjective(row'[k].templates) /\ (k \in Cloze => Len(row'[k].templates) = 1)
      <3>1. CASE k = t
        BY <1>5, <3>1
      <3>2. CASE k # t
        BY <1>6, <1>7, <3>2 DEF Sound, Live
      <3> QED BY <3>1, <3>2
    <2>4. ASSUME NEW k \in Live(row', Type), NEW j \in Live(row', Type), k # j
          PROVE  ToSet(row'[k].templates) \cap ToSet(row'[j].templates) = {}
      <3>1. CASE k # t /\ j # t
        <4>1. k \in Live(row, Type) /\ j \in Live(row, Type) /\ row'[k] = row[k] /\ row'[j] = row[j]
          BY <1>6, <3>1 DEF Live
        <4> QED BY <1>7, <2>4, <4>1 DEF Sound
      <3>2. CASE k = t
        <4>1. j \in Live(row, Type) /\ row'[j] = row[j]
          BY <1>6, <2>4, <3>2 DEF Live
        <4> QED BY <1>4, <1>5, <3>2, <4>1
      <3>3. CASE j = t
        <4>1. k \in Live(row, Type) /\ row'[k] = row[k]
          BY <1>6, <2>4, <3>3 DEF Live
        <4> QED BY <1>4, <1>5, <3>3, <4>1
      <3> QED BY <3>1, <3>2, <3>3
    <2>5. ~Collide(row')
      BY <1>6, <1>7 DEF Sound, Collide, Live
    <2> QED BY <2>1, <2>2, <2>3, <2>4, <2>5 DEF Sound
  <1>10. ASSUME NEW n \in Live(row', Note) \ torn PROVE Follows(row', n)
    <2>1. n \in Live(row, Note) /\ row'[n] = row[n] /\ n \in Note /\ Follows(row, n)
      BY <1>6, <1>10 DEF Live, Inv, Tables
    <2>2. row[n].type \in Live(row, Type)
      BY <1>7, <2>1, RowsTyped DEF Sound, Live
    <2>3. \A c \in CardsOf(row', n) : c \in CardsOf(row, n) /\ row'[c] = row[c]
      BY <1>6 DEF CardsOf, Live
    <2> QED BY <1>7, <2>1, <2>2, <2>3, FollowsStays
  <1>11. Tables(row', torn')
    BY <1>2, <1>3, <1>9, <1>10 DEF Tables, Inv
  <1>12. ASSUME NEW r \in Request \ {u} PROVE Respects(row, row', torn, torn', tx[r])
    <2>1. \A y \in Held(tx[r]) : row'[y] = row[y]
      BY <1>1, <1>3, HeldExists, ContentsAssumption
    <2>2. \A y \in tx[r].share : row'[y] # Gone
      BY <1>1, <1>3, HeldExists
    <2>3. \A c \in Live(row', Card) : row[c] # Gone /\ row'[c] = row[c]
      BY <1>6 DEF Live
    <2>4. \A n \in Live(row', Note) : row[n] # Gone /\ row'[n] = row[n]
      BY <1>6 DEF Live
    <2>5. \A k \in Live(row', Type) : k # t => row[k] # Gone /\ row'[k] = row[k]
      BY <1>6 DEF Live
    <2>6. \A k \in Dirty(tx[r]) \cap Type : Disjoint(tx[r].dirty[k].templates, row'[t].templates)
      BY <1>4, <1>5 DEF Disjoint
    <2> QED BY <1>2, <2>1, <2>2, <2>3, <2>4, <2>5, <2>6 DEF Respects
  <1>13. Inv'
    BY <1>2, <1>3, <1>11, <1>12, Committed DEF Inv
  <1> QED BY <1>3, <1>6, <1>13, CardsKept DEF Careful

-----------------------------------------------------------------------------
(* Committing an edit of a note type.                                      *)

\* The note type and its notes become what was written of them.
TypeWritten(u) ==
    LET me == tx[u]
        t == me.req.type
    IN
    /\ DOMAIN row' = Row /\ row'[t] = me.dirty[t]
    /\ \A x \in Deck \cup (Type \ {t}) : row'[x] = row[x]
    /\ \A n \in Note : row'[n] = IF n \in Dirty(me) THEN me.dirty[n] ELSE row[n]

LEMMA RemapNotes ==
    ASSUME Inv, NEW u \in Request, tx[u].pc \in {"planTemplates", "finalize"}, TypeWritten(u)
    PROVE  /\ \A x \in Deck \cup Note \cup Type : row'[x] = Gone <=> row[x] = Gone
           /\ \A n \in Live(row', Note) :
                 /\ n \in Live(row, Note) /\ row'[n] \in NoteRow /\ row'[n].home = row[n].home
                 /\ row'[n].type = row[n].type /\ row[n].type \in Type
                 /\ row[row[n].home] # Gone /\ row[row[n].type] # Gone
                 /\ row'[row[n].home] # Gone /\ row'[row[n].type] # Gone
                 /\ row'[n].vals # <<>> /\ row'[n].sum = ComputeNoteChecksum(row'[n].vals)
                 /\ n \notin torn => Fitting(row'[n].vals, row'[row'[n].type].fields)
  <1> DEFINE me == tx[u]
             t == me.req.type
  <1>1. /\ t \in Type /\ FieldsInv(row, torn, me) /\ row[t] # Gone /\ me.dirty[t] # Gone /\ t \in Dirty(me)
        /\ \A n \in Dirty(me) \cap Note : Refitted(row, torn, me, n) /\ me.dirty[n] # Gone
    BY Remaps DEF Remapping, Arranging
  <1>2. Sound(row) /\ \A n \in Live(row, Note) \ torn : Follows(row, n)
    BY DEF Inv, Tables
  <1>3. \A x \in Deck \cup Type : row'[x] = Gone <=> row[x] = Gone
    BY <1>1 DEF TypeWritten
  <1>4. \A n \in Note : row'[n] = Gone <=> row[n] = Gone
    BY <1>1 DEF TypeWritten, Refitted
  <1>5. ASSUME NEW n \in Live(row', Note)
        PROVE  /\ n \in Live(row, Note) /\ row'[n] \in NoteRow /\ row'[n].home = row[n].home
               /\ row'[n].type = row[n].type /\ row[n].type \in Type
               /\ row[row[n].home] # Gone /\ row[row[n].type] # Gone
               /\ row'[row[n].home] # Gone /\ row'[row[n].type] # Gone
               /\ row'[n].vals # <<>> /\ row'[n].sum = ComputeNoteChecksum(row'[n].vals)
               /\ n \notin torn => Fitting(row'[n].vals, row'[row'[n].type].fields)
    <2>1. n \in Live(row, Note) /\ n \in Note
      BY <1>4 DEF Live
    <2>2. /\ row[n] \in NoteRow /\ row[n].home \in Deck /\ row[n].type \in Type
          /\ row[row[n].home] # Gone /\ row[row[n].type] # Gone
          /\ row[n].vals # <<>> /\ row[n].sum = ComputeNoteChecksum(row[n].vals)
          /\ n \notin torn => Fitting(row[n].vals, row[row[n].type].fields)
      BY <1>2, <2>1, RowsTyped, FollowsIs DEF Sound
    <2>3. row'[row[n].home] # Gone /\ row'[row[n].type] # Gone
      BY <1>3, <2>2
    <2>4. CASE n \in Dirty(me)
      <3>1. row'[n] = me.dirty[n] /\ row'[t] = me.dirty[t] /\ Refitted(row, torn, me, n)
        BY <1>1, <2>1, <2>4 DEF TypeWritten
      <3> QED BY <2>1, <2>2, <2>3, <3>1 DEF Refitted
    <2>5. CASE n \notin Dirty(me)
      <3>1. row'[n] = row[n]
        BY <2>1, <2>5 DEF TypeWritten
      <3>2. CASE row[n].type = t
        <4>1. n \in NotesOfType(row, t)
          BY <2>1, <3>2 DEF NotesOfType
        <4>2. row'[t].fields = row[t].fields
          BY <1>1, <2>5, <4>1 DEF FieldsInv, TypeWritten
        <4> QED BY <2>1, <2>2, <2>3, <3>1, <3>2, <4>2
      <3>3. CASE row[n].type # t
        <4>1. row'[row[n].type] = row[row[n].type]
          BY <2>2, <3>3 DEF TypeWritten
        <4> QED BY <2>1, <2>2, <2>3, <3>1, <4>1
      <3> QED BY <3>2, <3>3
    <2> QED BY <2>4, <2>5
  <1> QED BY <1>3, <1>4, <1>5

LEMMA RemapTables ==
    ASSUME Inv, NEW u \in Request, tx[u].pc \in {"planTemplates", "finalize"}, TypeWritten(u),
           torn' \subseteq Note, torn \subseteq torn', ~Collide(row'),
           LET t == tx[u].req.type
               new == tx[u].dirty[t].templates
           IN new # <<>> /\ IsInjective(new) /\ (t \in Cloze => Len(new) = 1),
           \A c \in Live(row', Card) :
              /\ row'[c] \in CardRow /\ row'[c].ord >= 0 /\ row'[row'[c].note] # Gone
              /\ row'[row'[c].deck] # Gone /\ HasTemplate(row', row'[c].tmpl),
           \A n \in Live(row', Note) \ torn' : CardsFollowTemplates(row', n)
    PROVE  Tables(row', torn')
  <1> DEFINE me == tx[u]
             t == me.req.type
  <1>1. /\ t \in Type /\ FieldsInv(row, torn, me) /\ me.dirty[t] # Gone /\ t \in Dirty(me) /\ Locks(row, me)
        /\ me.dirty[t] \in TypeRow /\ row'[t] = me.dirty[t] /\ row[t] # Gone
    BY Remaps DEF Remapping, Arranging, TypeWritten
  <1>2. Sound(row)
    BY DEF Inv, Tables
  <1>3. ASSUME NEW k \in Live(row', Type)
        PROVE  /\ row'[k] \in TypeRow /\ row'[k].fields # <<>> /\ row'[k].templates # <<>>
               /\ IsInjective(row'[k].templates) /\ (k \in Cloze => Len(row'[k].templates) = 1)
    <2>1. CASE k = t
      BY <1>1, <2>1 DEF FieldsInv
    <2>2. CASE k # t
      <3>1. k \in Live(row, Type) /\ row'[k] = row[k]
        BY <2>2 DEF Live, TypeWritten
      <3> QED BY <1>2, <3>1 DEF Sound
    <2> QED BY <2>1, <2>2
  <1>4. ASSUME NEW k \in Live(row', Type), NEW j \in Live(row', Type), k # j
        PROVE  ToSet(row'[k].templates) \cap ToSet(row'[j].templates) = {}
    <2>1. \A i \in Live(row', Type) \ {t} : i \in Live(row, Type) \ {t} /\ row'[i] = row[i]
      BY DEF Live, TypeWritten
    <2>2. \A i \in Live(row, Type) \ {t} : ToSet(me.dirty[t].templates) \cap ToSet(row[i].templates) = {}
      BY <1>1 DEF Locks, Disjoint
    <2>3. CASE k # t /\ j # t
      BY <1>2, <1>4, <2>1, <2>3 DEF Sound
    <2>4. CASE k = t
      BY <1>1, <1>4, <2>1, <2>2, <2>4
    <2>5. CASE j = t
      BY <1>1, <1>4, <2>1, <2>2, <2>5
    <2> QED BY <2>3, <2>4, <2>5
  <1>5. \A n \in Live(row', Note) : /\ row'[n] \in NoteRow /\ row'[n].vals # <<>>
                                    /\ row'[row'[n].home] # Gone /\ row'[row'[n].type] # Gone
                                    /\ row'[n].sum = ComputeNoteChecksum(row'[n].vals)
    BY RemapNotes
  <1>6. Sound(row')
    BY <1>3, <1>4, <1>5 DEF Sound
  <1>7. \A n \in Live(row', Note) \ torn' : Fitting(row'[n].vals, row'[row'[n].type].fields)
    BY RemapNotes
  <1> QED BY <1>6, <1>7, FollowsIs DEF Tables, TypeWritten

LEMMA RemapRespects ==
    ASSUME Inv, NEW u \in Request, tx[u].pc \in {"planTemplates", "finalize"}, TypeWritten(u),
           torn \subseteq torn', NEW r \in Request \ {u},
           \A c \in Card : c \in Held(tx[r]) => row'[c] = row[c],
           \A c \in Card : c \in tx[r].share => row'[c] # Gone,
           \A c \in Live(row', Card) :
              \/ /\ row[c] # Gone /\ row'[c].note = row[c].note /\ row'[c].deck = row[c].deck
                 /\ row'[c].tmpl = row[c].tmpl
              \/ /\ row[c] = Gone /\ row'[c].note \in tx[u].share /\ row'[c].deck \in tx[u].share
                 /\ row'[c].tmpl \in ToSet(tx[u].dirty[tx[u].req.type].templates)
    PROVE  Respects(row, row', torn, torn', tx[r])
  <1> DEFINE me == tx[u]
             you == tx[r]
             t == me.req.type
  <1>1. /\ t \in Type /\ t \in me.excl /\ t \in Dirty(me) /\ Locks(row, me) /\ row'[t] = me.dirty[t]
        /\ row[t] # Gone /\ me.dirty[t] # Gone
    BY Remaps DEF Remapping, Arranging, TypeWritten
  <1>2. Apart(me, you) /\ Locks(row, you)
    BY DEF Inv, Local
  <1>3. t \notin Held(you) /\ t \notin you.share /\ Dirty(me) \cap Held(you) = {}
    BY <1>1, <1>2 DEF Apart, Held
  <1>4. \A x \in Held(you) : row'[x] = row[x]
    <2> TAKE x \in Held(you)
    <2>1. x \in Row /\ x # t /\ x \notin Dirty(me)
      BY <1>2, <1>3 DEF Locks, Held
    <2> QED BY <2>1 DEF TypeWritten, Row
  <1>5. \A x \in you.share : row'[x] # Gone
    <2> TAKE x \in you.share
    <2>1. x \in Row /\ row[x] # Gone
      BY <1>2 DEF Locks
    <2> QED BY <2>1, RemapNotes DEF Row
  <1>6. \A k \in Dirty(you) \cap Type : k # t /\ k \in Live(row, Type)
    BY <1>2, <1>3 DEF Held, Locks, Live
  <1>7. ASSUME NEW c \in Live(row', Card)
        PROVE  /\ IF row[c] = Gone THEN row'[c].note \notin you.excl ELSE row'[c].note = row[c].note
               /\ (row[c] # Gone /\ row'[c].deck = row[c].deck) \/ row'[c].deck \notin you.excl
               /\ \/ row[c] # Gone /\ row'[c].tmpl = row[c].tmpl
                  \/ \A k \in Dirty(you) \cap Type :
                        row'[c].tmpl \notin Removed(row[k].templates, you.dirty[k].templates)
    <2>1. CASE /\ row[c] # Gone /\ row'[c].note = row[c].note /\ row'[c].deck = row[c].deck
               /\ row'[c].tmpl = row[c].tmpl
      BY <2>1
    <2>2. CASE /\ row[c] = Gone /\ row'[c].note \in me.share /\ row'[c].deck \in me.share
               /\ row'[c].tmpl \in ToSet(me.dirty[t].templates)
      <3>1. \A k \in Live(row, Type) \ {t} : row'[c].tmpl \notin ToSet(row[k].templates)
        BY <1>1, <2>2 DEF Locks, Disjoint
      <3> QED BY <1>2, <1>6, <2>2, <3>1 DEF Apart, Removed
    <2> QED BY <2>1, <2>2
  <1>8. \A n \in Live(row', Note) : row[n] # Gone /\ row'[n].type = row[n].type
    BY RemapNotes DEF Live
  <1>9. ASSUME NEW k \in Live(row', Type)
        PROVE  \/ row[k] # Gone /\ row'[k].templates = row[k].templates
               \/ \A j \in Dirty(you) \cap Type : Disjoint(you.dirty[j].templates, row'[k].templates)
    <2>1. CASE k = t
      <3>1. \A j \in Dirty(you) \cap Type : Disjoint(me.dirty[t].templates, you.dirty[j].templates)
        BY <1>1, <1>2 DEF Apart
      <3> QED BY <1>1, <2>1, <3>1 DEF Disjoint
    <2>2. CASE k # t
      BY <2>2 DEF TypeWritten, Live
    <2> QED BY <2>1, <2>2
  <1> QED BY <1>4, <1>5, <1>7, <1>8, <1>9 DEF Respects

LEMMA planTemplatesCommits ==
    ASSUME Inv, NEW u \in Request, planTemplates(u),
           tx[u].req.templates = row[tx[u].req.type].templates
    PROVE  Inv' /\ Careful
  <1> DEFINE me == tx[u]
             t == me.req.type
  <1>1. CASE Refuse(u)
    BY <1>1, Refused, QuietIsCareful
  <1>2. CASE Commit(u, <<>>) /\ UNCHANGED <<torn, outrun>>
    <2>1. /\ me.pc = "planTemplates" /\ row' = <<>> ++ View(u) /\ tx' = [tx EXCEPT ![u] = Over]
      BY <1>2 DEF planTemplates, Commit
    <2>2. /\ t \in Type /\ FieldsInv(row, torn, me) /\ me.dirty[t] # Gone /\ t \in Dirty(me) /\ Locks(row, me)
          /\ row[t] # Gone /\ row[t] \in TypeRow /\ row[t].templates # <<>> /\ IsInjective(row[t].templates)
          /\ t \notin Note \cup Card
      BY <2>1, Remaps DEF Remapping, Arranging
    <2>3. /\ Dirty(me) \subseteq {t} \cup Note /\ me.dirty[t].templates = row[t].templates /\ Sound(row)
      BY <2>1, <2>2 DEF FieldsInv, Arranging, Inv, Tables
    <2>4. DOMAIN row' = Row /\ \A x \in Row : row'[x] = IF x \in Dirty(me) THEN me.dirty[x] ELSE row[x]
      <3>1. DOMAIN View(u) = Row /\ \A x \in Row : View(u)[x] = IF x \in Dirty(me) THEN me.dirty[x] ELSE row[x]
        BY ViewAt
      <3> QED BY <2>1, <3>1 DEF ++
    <2>5. TypeWritten(u) /\ \A c \in Card : row'[c] = row[c]
      BY <2>2, <2>3, <2>4, ContentsAssumption DEF TypeWritten, Row
    <2>6. \A k \in Type : row'[k].templates = row[k].templates \/ row[k] = Gone
      BY <2>2, <2>3, <2>5 DEF TypeWritten
    <2>7. \A x : HasTemplate(row, x) => HasTemplate(row', x)
      <3>1. \A k \in Live(row, Type) : k \in Live(row', Type) /\ row'[k].templates = row[k].templates
        BY <2>1, <2>5, <2>6, RemapNotes DEF Live
      <3> QED BY <3>1 DEF HasTemplate
    <2>8. ASSUME NEW c \in Live(row', Card)
          PROVE  /\ c \in Live(row, Card) /\ row'[c] = row[c]
                 /\ row'[c] \in CardRow /\ row'[c].ord >= 0 /\ row'[row'[c].note] # Gone
                 /\ row'[row'[c].deck] # Gone /\ HasTemplate(row', row'[c].tmpl)
      <3>1. c \in Live(row, Card) /\ row'[c] = row[c]
        BY <2>5 DEF Live
      <3>2. /\ row[c].note \in Note /\ row[c].deck \in Deck /\ row[c] \in CardRow /\ row[c].ord >= 0
            /\ row[row[c].note] # Gone /\ row[row[c].deck] # Gone /\ HasTemplate(row, row[c].tmpl)
        BY <2>3, <3>1, RowsTyped DEF Sound
      <3> QED BY <2>1, <2>5, <2>7, <3>1, <3>2, RemapNotes
    <2>9. \A n \in Live(row', Note) \ torn' : CardsFollowTemplates(row', n)
      <3> TAKE n \in Live(row', Note) \ torn'
      <3>1. n \in Live(row, Note) \ torn /\ row'[n].type = row[n].type /\ row[n].type \in Live(row, Type)
        BY <1>2, <2>1, <2>5, RemapNotes DEF Live
      <3>2. CardsFollowTemplates(row, n) /\ row'[row[n].type].templates = row[row[n].type].templates
        BY <2>6, <3>1 DEF Inv, Tables, Follows, Live
      <3>3. \A c \in CardsOf(row', n) : c \in CardsOf(row, n) /\ row'[c] = row[c]
        BY <2>8 DEF CardsOf
      <3> QED BY <3>1, <3>2, <3>3 DEF CardsFollowTemplates
    <2>10. ~Collide(row')
      BY <2>3, <2>8 DEF Sound, Collide
    <2>11. Tables(row', torn')
      <3>1. torn' \subseteq Note /\ torn \subseteq torn'
        BY <1>2 DEF Inv, Tables
      <3>2. t \in Cloze => Len(row[t].templates) = 1
        BY <2>2, <2>3 DEF Sound, Live
      <3> QED BY <2>1, <2>2, <2>3, <2>5, <2>8, <2>9, <2>10, <3>1, <3>2, RemapTables
    <2>12. \A r \in Request \ {u} : Respects(row, row', torn, torn', tx[r])
      <3> TAKE r \in Request \ {u}
      <3>1. \A c \in Card : c \in tx[r].share => row'[c] # Gone
        BY <2>5, HeldExists
      <3> QED BY <1>2, <2>1, <2>5, <2>8, <3>1, RemapRespects DEF Live
    <2>13. Shape' /\ tx'[u] = Over /\ \A r \in Request \ {u} : tx'[r] = tx[r]
      BY <2>1, OverEffect DEF Inv
    <2>14. Inv'
      BY <1>2, <2>11, <2>12, <2>13, Committed DEF Inv
    <2>15. RemovalConfirmed
      <3> SUFFICES ASSUME NEW r \in Request, tx[r].req.kind = "edittype", tx'[r].pc = "over",
                          row[tx[r].req.type] # Gone
                   PROVE  CardsFrom(row, ToSet(row[tx[r].req.type].templates) \ ToSet(row'[tx[r].req.type].templates)) = {}
        BY DEF RemovalConfirmed
      <3>1. r = u
        BY <2>13 DEF Inv, Local, Locks
      <3>2. row'[t].templates = row[t].templates
        BY <2>3, <2>5 DEF TypeWritten
      <3> QED BY <3>1, <3>2 DEF CardsFrom
    <2>16. /\ \A n \in Note : row'[n] # Gone => row[n] # Gone
           /\ \A d \in Deck : row'[d] = Gone => row[d] = Gone
      BY <2>1, <2>5, RemapNotes
    <2> QED BY <2>5, <2>14, <2>15, <2>16, CardsKept DEF Careful
  <1> QED BY <1>1, <1>2 DEF planTemplates

\* The cards after the last statement: they keep their note, deck and template,
\* and those of moved and added templates have the template's ordinal.
LEMMA FinalizeCards ==
    ASSUME Inv, NEW u \in Request, tx[u].pc = "finalize",
           row' = Finalized(View(u), tx[u].seen) ++ View(u)
    PROVE  LET me == tx[u]
               p == me.seen
           IN
           /\ TypeWritten(u)
           /\ \A c \in Live(row', Card) :
                 /\ row'[c] \in CardRow /\ row'[c].ord >= 0 /\ row'[c].tmpl \notin Removed(p.old, p.new)
                 /\ \/ /\ row[c] # Gone /\ row'[c].note = row[c].note /\ row'[c].deck = row[c].deck
                       /\ row'[c].tmpl = row[c].tmpl
                       /\ row'[c].ord = IF row[c].tmpl \in Changed(p.old, p.new)
                                        THEN Ordinal(p.new, row[c].tmpl) ELSE row[c].ord
                    \/ /\ row[c] = Gone /\ row'[c].note \in DOMAIN me.scan \cap me.share
                       /\ row'[c].deck \in me.share /\ row'[c].tmpl \in Added(p.old, p.new)
                       /\ row'[c].ord = Ordinal(p.new, row'[c].tmpl)
           /\ \A c \in Live(row, Card) : row'[c] = Gone => row[c].tmpl \in Removed(p.old, p.new) /\ c \in me.excl
           /\ \A c \in Card : c \notin Dirty(me) \cup DOMAIN Finalized(View(u), p) => row'[c] = row[c]
  <1> DEFINE me == tx[u]
             t == me.req.type
             p == me.seen
             v == View(u)
             rows == Finalized(v, p)
  <1>1. /\ t \in Type /\ FieldsInv(row, torn, me) /\ me.dirty[t] # Gone /\ t \in Dirty(me) /\ Locks(row, me)
        /\ me.dirty[t] \in TypeRow /\ t \notin Note \cup Card
    BY Remaps DEF Remapping, Arranging
  <1>2. TemplatesInv(row, me) /\ Arranged(row, me) /\ Sound(row)
    BY DEF Inv, Tables, Local, TypeInv, Arranging, TemplatesInv
  <1>3. p.new \in Seq(Template) /\ CardsFrom(v, Removed(p.old, p.new)) = {}
    BY <1>1, <1>2 DEF Arranged, TypeRow, View
  <1>4. DOMAIN v = Row /\ \A x \in Row : v[x] = IF x \in Dirty(me) THEN me.dirty[x] ELSE row[x]
    BY ViewAt
  <1>5. \A x \in Changed(p.old, p.new) \cup Added(p.old, p.new) : Ordinal(p.new, x) \in Nat
    <2> DEFINE s == p.new
    <2>1. s \in Seq(Template)
      BY <1>3
    <2> HIDE DEF s
    <2>2. ASSUME NEW x \in ToSet(s) PROVE Ordinal(s, x) \in Nat
      <3>1. Ordinal(s, x) \in 0 .. Len(s) - 1
        BY <2>1, OrdinalIs
      <3> QED BY <2>1, <3>1
    <2> QED BY <2>2 DEF s, Changed, Added
  <1>6. /\ DOMAIN rows \subseteq Card /\ \A c \in Card : c \in DOMAIN rows <=> v[c] # Gone /\ v[c].tmpl \in Changed(p.old, p.new)
        /\ \A c \in DOMAIN rows : rows[c] = [v[c] EXCEPT !.ord = Ordinal(p.new, v[c].tmpl)]
    BY DEF Finalized, CardsFrom, Live
  <1> HIDE DEF v, rows
  <1>7. DOMAIN row' = Row /\ \A x \in Row : row'[x] = IF x \in DOMAIN rows THEN rows[x] ELSE v[x]
    <2>1. row' = rows ++ v /\ Card \subseteq Row
      BY DEF v, rows, Row
    <2> QED BY <1>4, <1>6, <2>1 DEF ++
  <1>8. TypeWritten(u)
    <2>1. \A x \in Deck \cup Note \cup Type : x \in Row /\ x \notin DOMAIN rows
      BY <1>6, ContentsAssumption DEF Row
    <2>2. \A x \in Deck \cup (Type \ {t}) : x \notin Dirty(me)
      BY <1>1, ContentsAssumption DEF FieldsInv
    <2> QED BY <1>1, <1>4, <1>7, <2>1, <2>2 DEF TypeWritten
  <1>9. ASSUME NEW c \in Card, v[c] # Gone
        PROVE  /\ v[c] \in CardRow /\ v[c].tmpl \notin Removed(p.old, p.new)
               /\ \/ /\ row[c] # Gone /\ v[c].note = row[c].note /\ v[c].deck = row[c].deck
                     /\ v[c].tmpl = row[c].tmpl
                     /\ v[c].tmpl \notin Changed(p.old, p.new) => v[c].ord = row[c].ord /\ v[c].ord >= 0
                  \/ /\ row[c] = Gone /\ v[c].note \in DOMAIN me.scan \cap me.share
                     /\ v[c].deck \in me.share /\ v[c].tmpl \in Added(p.old, p.new)
                     /\ v[c].ord = Ordinal(p.new, v[c].tmpl)
    <2>1. c \in Row /\ v[c].tmpl \notin Removed(p.old, p.new)
      BY <1>3, <1>9 DEF CardsFrom, Live, Row
    <2>2. CASE c \notin Dirty(me)
      <3>1. v[c] = row[c] /\ c \in Live(row, Card)
        BY <1>4, <1>9, <2>1, <2>2 DEF Live
      <3>2. row[c] \in CardRow /\ row[c].ord >= 0 /\ row[c] # Gone
        BY <1>2, <3>1 DEF Sound, Live
      <3> QED BY <2>1, <3>1, <3>2
    <2>3. CASE c \in Dirty(me) /\ row[c] # Gone
      <3> DEFINE card == row[c]
                 next == v[c]
      <3>1. next = me.dirty[c] /\ Staged(row, me, c)
        BY <1>2, <1>4, <2>1, <2>3 DEF TemplatesInv
      <3>2. next = [card EXCEPT !.ord = Offset(@)] /\ card.tmpl \in Changed(p.old, p.new)
        BY <1>9, <3>1 DEF Staged
      <3>3. card \in CardRow
        BY <2>3, RowsTyped DEF Live
      <3>4. /\ next \in CardRow /\ next.note = card.note /\ next.deck = card.deck /\ next.tmpl = card.tmpl
        <4> HIDE DEF card, next
        <4> QED BY <3>2, <3>3 DEF CardRow, Offset
      <3> QED BY <2>1, <2>3, <3>2, <3>4
    <2>4. CASE c \in Dirty(me) /\ row[c] = Gone
      <3>1. v[c] = me.dirty[c] /\ Made(me, c)
        BY <1>2, <1>4, <2>1, <2>4 DEF TemplatesInv
      <3> QED BY <2>1, <2>4, <3>1 DEF Made
    <2> QED BY <2>2, <2>3, <2>4
  <1>10. ASSUME NEW c \in Live(row', Card)
         PROVE  /\ row'[c] \in CardRow /\ row'[c].ord >= 0 /\ row'[c].tmpl \notin Removed(p.old, p.new)
                /\ \/ /\ row[c] # Gone /\ row'[c].note = row[c].note /\ row'[c].deck = row[c].deck
                      /\ row'[c].tmpl = row[c].tmpl
                      /\ row'[c].ord = IF row[c].tmpl \in Changed(p.old, p.new)
                                       THEN Ordinal(p.new, row[c].tmpl) ELSE row[c].ord
                   \/ /\ row[c] = Gone /\ row'[c].note \in DOMAIN me.scan \cap me.share
                      /\ row'[c].deck \in me.share /\ row'[c].tmpl \in Added(p.old, p.new)
                      /\ row'[c].ord = Ordinal(p.new, row'[c].tmpl)
    <2>1. c \in Card /\ c \in Row /\ row'[c] # Gone
      BY DEF Live, Row
    <2>2. CASE c \in DOMAIN rows
      <3> DEFINE card == v[c]
                 next == row'[c]
                 o == Ordinal(p.new, v[c].tmpl)
      <3>1. card # Gone /\ card.tmpl \in Changed(p.old, p.new) /\ next = [card EXCEPT !.ord = o] /\ o \in Nat
        BY <1>5, <1>6, <1>7, <2>1, <2>2
      <3>2. card \in CardRow
        BY <1>9, <2>1, <3>1
      <3>3. /\ next \in CardRow /\ next.note = card.note /\ next.deck = card.deck /\ next.tmpl = card.tmpl
            /\ next.ord = o /\ next.ord >= 0
        <4> HIDE DEF card, next, o
        <4> QED BY <3>1, <3>2 DEF CardRow
      <3>4. card.tmpl \notin Added(p.old, p.new)
        BY <3>1 DEF Changed, Added
      <3> QED BY <1>9, <2>1, <3>1, <3>3, <3>4
    <2>3. CASE c \notin DOMAIN rows
      <3>1. row'[c] = v[c] /\ v[c] # Gone /\ v[c].tmpl \notin Changed(p.old, p.new)
        BY <1>6, <1>7, <2>1, <2>3
      <3>2. v[c].ord >= 0
        BY <1>5, <1>9, <2>1, <3>1
      <3> QED BY <1>9, <2>1, <3>1, <3>2
    <2> QED BY <2>2, <2>3
  <1>11. ASSUME NEW c \in Live(row, Card), row'[c] = Gone
         PROVE  row[c].tmpl \in Removed(p.old, p.new) /\ c \in me.excl
    <2>1. c \in Card /\ c \in Row /\ row[c] # Gone
      BY DEF Live, Row
    <2>2. v[c] = Gone
      <3>1. ASSUME v[c] # Gone, c \in DOMAIN rows PROVE row'[c] # Gone
        <4> DEFINE card == v[c]
                   next == row'[c]
                   o == Ordinal(p.new, v[c].tmpl)
        <4>1. card \in CardRow /\ card.tmpl \in Changed(p.old, p.new) /\ next = [card EXCEPT !.ord = o] /\ o \in Nat
          BY <1>5, <1>6, <1>7, <1>9, <2>1, <3>1
        <4> HIDE DEF card, next, o
        <4>2. next \in CardRow
          BY <4>1 DEF CardRow
        <4> QED BY <4>2, ContentsAssumption DEF next
      <3> QED BY <1>7, <1>11, <2>1, <3>1
    <2>3. c \in Dirty(me) /\ me.dirty[c] = Gone
      BY <1>4, <2>1, <2>2
    <2>4. Staged(row, me, c) /\ c \in me.excl
      BY <1>1, <1>2, <2>1, <2>3 DEF TemplatesInv, Locks
    <2>5. me.dirty[c] # [row[c] EXCEPT !.ord = Offset(@)]
      <3> DEFINE card == row[c]
      <3>1. card \in CardRow
        BY RowsTyped
      <3> HIDE DEF card
      <3>2. [card EXCEPT !.ord = Offset(@)] \in CardRow
        BY <3>1 DEF CardRow, Offset
      <3> QED BY <2>3, <3>2, ContentsAssumption DEF card
    <2> QED BY <2>4, <2>5 DEF Staged
  <1>12. \A c \in Card : c \notin Dirty(me) \cup DOMAIN rows => row'[c] = row[c]
    BY <1>4, <1>7 DEF Row
  <1> QED BY <1>8, <1>10, <1>11, <1>12 DEF rows, v

\* An edit that was not confirmed, and whose note type stayed as it was checked,
\* removes no template.
LEMMA UnconfirmedKeeps ==
    ASSUME NEW old \in Seq(Template), NEW new, NEW q, TypeForm(q), ~OrderChanged(old, q.templates),
           ToSet(q.templates) \subseteq ToSet(new) \cup {New}
    PROVE  ToSet(old) \subseteq ToSet(new)
  <1> DEFINE s == q.templates
             S == Template \cup {New}
  <1>1. s \in Seq(S) /\ Len(s) >= Len(old) /\ SubSeq(s, 1, Len(old)) = old
    BY DEF TypeForm, OrderChanged
  <1> HIDE DEF s
  <1>2. \A i \in 1 .. Len(old) : old[i] = s[i] /\ i \in 1 .. Len(s)
    BY <1>1
  <1>3. \A i \in 1 .. Len(old) : s[i] \in ToSet(s) /\ old[i] \in Template
    BY <1>1, <1>2 DEF ToSet
  <1>4. \A i \in 1 .. Len(old) : old[i] \in ToSet(new)
    BY <1>2, <1>3, ContentsAssumption DEF s
  <1> QED BY <1>4 DEF ToSet

LEMMA FinalizeFollows ==
    ASSUME Inv, NEW u \in Request, tx[u].pc = "finalize",
           row' = Finalized(View(u), tx[u].seen) ++ View(u),
           NEW n \in Live(row', Note), n \notin torn,
           Added(tx[u].seen.old, tx[u].seen.new) # {} => n \notin DOMAIN tx[u].scan \/ View(u)[n].type = tx[u].req.type
    PROVE  CardsFollowTemplates(row', n)
  <1> DEFINE me == tx[u]
             t == me.req.type
             p == me.seen
             k == row[n].type
  <1>0. TypeWritten(u)
    BY FinalizeCards
  <1>1. /\ t \in Type /\ t \in Dirty(me) /\ row[t] # Gone /\ row[t].templates \in Seq(Template)
        /\ IsInjective(row[t].templates) /\ me.dirty[t] \in TypeRow
    BY Remaps DEF Remapping, Arranging
  <1>2. TemplatesInv(row, me) /\ Arranged(row, me) /\ Sound(row)
    BY DEF Inv, Tables, Local, TypeInv, Arranging, TemplatesInv
  <1>3. /\ p.old = row[t].templates /\ p.new = me.dirty[t].templates /\ p.new # <<>> /\ IsInjective(p.new)
        /\ (t \in Cloze => Len(p.new) = 1 /\ Len(p.old) = 1) /\ p.new \in Seq(Template) /\ p.old \in Seq(Template)
    <2>1. p.old = row[t].templates /\ p.new = me.dirty[t].templates /\ p.new # <<>> /\ IsInjective(p.new)
      BY <1>2 DEF TemplatesInv, Arranged
    <2>2. t \in Cloze => Len(p.new) = 1
      BY <1>2 DEF Arranged
    <2>3. t \in Cloze => Len(row[t].templates) = 1
      BY <1>1, <1>2 DEF Sound, Live
    <2>4. me.dirty[t].templates \in Seq(Template)
      BY <1>1 DEF TypeRow
    <2> QED BY <1>1, <2>1, <2>2, <2>3, <2>4
  <1>4. n \in Live(row, Note) /\ row'[n].type = k /\ k \in Live(row, Type)
    BY <1>0, RemapNotes DEF Live
  <1>5. CardsFollowTemplates(row, n)
    BY <1>4 DEF Inv, Tables, Follows
  <1>5a. \A c \in CardsOf(row, n) :
            IF k \in Cloze THEN row[c].tmpl = row[k].templates[1]
            ELSE row[c].ord < Len(row[k].templates) /\ row[c].tmpl = row[k].templates[row[c].ord + 1]
    BY <1>5 DEF CardsFollowTemplates
  <1>6. row'[t].templates = p.new /\ \A j \in Type \ {t} : row'[j] = row[j]
    BY <1>0, <1>3 DEF TypeWritten
  <1> USE FinalizeCards
  <1>7. \A c \in CardsOf(row', n) : row[c] # Gone => c \in CardsOf(row, n)
    BY DEF CardsOf, Live
  <1>8. View(u)[n].type = k
    <2>1. n \in Row /\ row'[n] = View(u)[n]
      <3>1. n \in Row /\ row'[n] = IF n \in Dirty(me) THEN me.dirty[n] ELSE row[n]
        BY <1>0, <1>4 DEF TypeWritten, Live, Row
      <3> QED BY <3>1, ViewAt
    <2> QED BY <1>4, <2>1
  <1>9. CASE k # t
    <2>1. row'[k].templates = row[k].templates
      BY <1>4, <1>6, <1>9 DEF Live
    <2>2. \A x \in ToSet(row[k].templates) : x \notin ToSet(p.old)
      BY <1>1, <1>2, <1>3, <1>4, <1>9 DEF Sound, Live
    <2>3. ASSUME NEW c \in CardsOf(row', n)
          PROVE  c \in CardsOf(row, n) /\ row'[c].tmpl = row[c].tmpl /\ row'[c].ord = row[c].ord
      <3>1. c \in Live(row', Card) /\ row'[c].note = n
        BY DEF CardsOf
      <3>2. row[c] # Gone
        <4>1. row[c] = Gone => n \in DOMAIN me.scan /\ Added(p.old, p.new) # {}
          BY <3>1
        <4> QED BY <1>8, <1>9, <4>1
      <3>3. c \in CardsOf(row, n)
        BY <1>7, <3>2
      <3>4. row[c].tmpl \in ToSet(row[k].templates)
        <4>1. c \in Live(row, Card) /\ row[c].ord >= 0 /\ row[c].ord \in Int
          BY <1>2, <3>3 DEF Sound, CardsOf, CardRow
        <4>2. row[k].templates \in Seq(Template) /\ row[k].templates # <<>>
          BY <1>4, RowsTyped
        <4> DEFINE s == row[k].templates
        <4>3. /\ k \in Cloze => row[c].tmpl = s[1]
              /\ k \notin Cloze => row[c].ord < Len(s) /\ row[c].tmpl = s[row[c].ord + 1]
          BY <1>5a, <3>3
        <4> HIDE DEF s
        <4>4. s \in Seq(Template) /\ s # <<>>
          BY <4>2 DEF s
        <4>5. \E i \in DOMAIN s : row[c].tmpl = s[i]
          <5>1. CASE k \in Cloze
            BY <4>3, <4>4, <5>1
          <5>2. CASE k \notin Cloze
            BY <4>1, <4>3, <4>4, <5>2
          <5> QED BY <5>1, <5>2
        <4> QED BY <4>5 DEF ToSet, s
      <3>5. row[c].tmpl \notin Changed(p.old, p.new)
        BY <2>2, <3>4 DEF Changed
      <3> QED BY <3>1, <3>2, <3>3, <3>5
    <2> QED BY <1>4, <1>5, <2>1, <2>3 DEF CardsFollowTemplates
  <1>10. CASE k = t /\ t \in Cloze
    <2>1. ASSUME NEW c \in CardsOf(row', n) PROVE row'[c].tmpl \in ToSet(p.new)
      <3>1. c \in Live(row', Card)
        BY DEF CardsOf
      <3>2. CASE row[c] = Gone
        BY <3>1, <3>2 DEF Added
      <3>3. CASE row[c] # Gone
        <4>1. row[c].tmpl = p.old[1]
          <5>1. c \in CardsOf(row, n)
            BY <1>7, <3>3
          <5>2. row[c].tmpl = row[k].templates[1]
            BY <1>5a, <1>10, <5>1
          <5> QED BY <1>3, <1>10, <5>2
        <4>2. row'[c].tmpl = row[c].tmpl /\ row'[c].tmpl \notin Removed(p.old, p.new)
          BY <3>1, <3>3
        <4>3. p.old[1] \in ToSet(p.old)
          <5> DEFINE s == p.old
          <5>1. s \in Seq(Template) /\ Len(s) = 1
            BY <1>3, <1>10
          <5> HIDE DEF s
          <5>2. 1 \in DOMAIN s
            BY <5>1
          <5> QED BY <5>2 DEF ToSet, s
        <4> QED BY <4>1, <4>2, <4>3 DEF Removed
      <3> QED BY <3>2, <3>3
    <2>2. ToSet(p.new) = {p.new[1]}
      <3> DEFINE s == p.new
      <3>1. s \in Seq(Template) /\ Len(s) = 1
        BY <1>3, <1>10
      <3> HIDE DEF s
      <3>2. DOMAIN s = {1}
        BY <3>1
      <3>3. ToSet(s) = {s[1]}
        BY <3>2 DEF ToSet
      <3> QED BY <3>3 DEF s
    <2> QED BY <1>4, <1>6, <1>10, <2>1, <2>2 DEF CardsFollowTemplates
  <1>11. CASE k = t /\ t \notin Cloze
    <2>1. ASSUME NEW c \in CardsOf(row', n)
          PROVE  row'[c].tmpl \in ToSet(p.new) /\ row'[c].ord = Ordinal(p.new, row'[c].tmpl)
      <3>1. c \in Live(row', Card)
        BY DEF CardsOf
      <3>2. CASE row[c] = Gone
        BY <3>1, <3>2 DEF Added
      <3>3. CASE row[c] # Gone
        <4> DEFINE x == row[c].tmpl
                   o == row[c].ord
                   s == p.old
        <4>1. c \in Live(row, Card) /\ o >= 0 /\ o \in Int
          BY <1>2, <1>7, <3>3 DEF Sound, CardsOf, CardRow
        <4>2. o < Len(s) /\ x = s[o + 1] /\ s \in Seq(Template) /\ IsInjective(s)
          <5>1. c \in CardsOf(row, n)
            BY <1>7, <3>3
          <5>2. o < Len(row[k].templates) /\ x = row[k].templates[o + 1]
            BY <1>5a, <1>11, <5>1
          <5>3. s = row[k].templates
            BY <1>3, <1>11
          <5> HIDE DEF o, x
          <5> QED BY <1>1, <1>3, <5>2, <5>3
        <4>3. row'[c].tmpl = x /\ x \notin Removed(p.old, p.new)
              /\ row'[c].ord = IF x \in Changed(p.old, p.new) THEN Ordinal(p.new, x) ELSE o
          BY <3>1, <3>3
        <4> HIDE DEF x, o, s
        <4>4. o + 1 \in DOMAIN s
          BY <4>1, <4>2
        <4>5. x \in ToSet(s)
          BY <4>2, <4>4 DEF ToSet
        <4>6. Ordinal(s, x) = o
          <5>1. Ordinal(s, x) = (o + 1) - 1
            BY <4>2, <4>4, <4>5, OrdinalIs
          <5> QED BY <4>1, <5>1
        <4>7. x \in ToSet(p.new)
          BY <4>3, <4>5 DEF Removed, s
        <4>8. x \notin Changed(p.old, p.new) => o = Ordinal(p.new, x)
          BY <4>5, <4>6, <4>7 DEF Changed, s
        <4> QED BY <4>3, <4>7, <4>8
      <3> QED BY <3>2, <3>3
    <2>2. ASSUME NEW x \in ToSet(p.new)
          PROVE  Ordinal(p.new, x) < Len(p.new) /\ p.new[Ordinal(p.new, x) + 1] = x
      <3> DEFINE s == p.new
      <3>1. s \in Seq(Template) /\ x \in ToSet(s)
        BY <1>3
      <3> HIDE DEF s
      <3>2. Ordinal(s, x) \in 0 .. Len(s) - 1 /\ s[Ordinal(s, x) + 1] = x
        BY <3>1, OrdinalIs
      <3>3. Ordinal(s, x) < Len(s)
        BY <3>1, <3>2
      <3> QED BY <3>2, <3>3 DEF s
    <2> QED BY <1>4, <1>6, <1>11, <2>1, <2>2 DEF CardsFollowTemplates
  <1> QED BY <1>9, <1>10, <1>11

\* Which templates there are after the last statement.
LEMMA FinalizeTemplates ==
    ASSUME Inv, NEW u \in Request, tx[u].pc = "finalize", TypeWritten(u)
    PROVE  LET t == tx[u].req.type
               p == tx[u].seen
           IN
           /\ row'[t].templates = p.new /\ p.old = row[t].templates /\ p.new = tx[u].dirty[t].templates
           /\ p.new # <<>> /\ IsInjective(p.new) /\ (t \in Cloze => Len(p.new) = 1)
           /\ ToSet(tx[u].req.templates) \subseteq ToSet(p.new) \cup {New}
           /\ DOMAIN tx[u].scan \subseteq Note
           /\ \A x \in Removed(p.old, p.new) : ~HasTemplate(row', x)
           /\ \A x : HasTemplate(row, x) /\ x \notin Removed(p.old, p.new) => HasTemplate(row', x)
           /\ \A x \in ToSet(p.new) : HasTemplate(row', x)
  <1> DEFINE me == tx[u]
             t == me.req.type
             p == me.seen
  <1>1. t \in Type /\ row[t] # Gone /\ me.dirty[t] # Gone
    BY Remaps DEF Remapping, Arranging
  <1>2. TemplatesInv(row, me) /\ Arranged(row, me) /\ Sound(row)
    BY DEF Inv, Tables, Local, TypeInv, Arranging, TemplatesInv
  <1>3. /\ row'[t].templates = p.new /\ p.old = row[t].templates /\ p.new = me.dirty[t].templates
        /\ p.new # <<>> /\ IsInjective(p.new) /\ (t \in Cloze => Len(p.new) = 1)
        /\ ToSet(me.req.templates) \subseteq ToSet(p.new) \cup {New} /\ DOMAIN me.scan \subseteq Note
    BY <1>2 DEF TemplatesInv, Arranged, TypeWritten
  <1>4. t \in Live(row, Type) /\ t \in Live(row', Type)
    BY <1>1 DEF Live, TypeWritten
  <1>5. \A k \in Type \ {t} : row'[k] = row[k] /\ (k \in Live(row', Type) <=> k \in Live(row, Type))
    BY DEF Live, TypeWritten
  <1>6. ASSUME NEW x \in Removed(p.old, p.new) PROVE ~HasTemplate(row', x)
    <2> SUFFICES ASSUME NEW k \in Live(row', Type), x \in ToSet(row'[k].templates) PROVE FALSE
      BY DEF HasTemplate
    <2>1. k # t
      BY <1>3 DEF Removed
    <2>2. k \in Live(row, Type) /\ row'[k] = row[k]
      BY <1>5, <2>1 DEF Live
    <2> QED BY <1>2, <1>3, <1>4, <2>1, <2>2 DEF Sound, Removed
  <1>7. ASSUME NEW x, HasTemplate(row, x), x \notin Removed(p.old, p.new) PROVE HasTemplate(row', x)
    <2>1. PICK k \in Live(row, Type) : x \in ToSet(row[k].templates)
      BY <1>7 DEF HasTemplate
    <2>2. CASE k = t
      BY <1>3, <1>4, <1>7, <2>1, <2>2 DEF HasTemplate, Removed
    <2>3. CASE k # t
      BY <1>5, <2>1, <2>3 DEF HasTemplate, Live
    <2> QED BY <2>2, <2>3
  <1>8. \A x \in ToSet(p.new) : HasTemplate(row', x)
    BY <1>3, <1>4 DEF HasTemplate
  <1> QED BY <1>3, <1>6, <1>7, <1>8

LEMMA FinalizeCareful ==
    ASSUME Inv, NEW u \in Request, tx[u].pc = "finalize",
           row' = Finalized(View(u), tx[u].seen) ++ View(u),
           \A r \in Request \ {u} : tx'[r] = tx[r]
    PROVE  Careful
  <1> DEFINE me == tx[u]
             t == me.req.type
             p == me.seen
  <1>1. /\ TypeWritten(u)
        /\ \A c \in Live(row', Card) : row[c] # Gone => row'[c].note = row[c].note /\ row'[c].tmpl = row[c].tmpl
        /\ \A c \in Live(row, Card) : row'[c] = Gone => row[c].tmpl \in Removed(p.old, p.new)
    BY FinalizeCards
  <1>2. /\ row'[t].templates = p.new /\ p.old = row[t].templates /\ row[t].templates \in Seq(Template)
        /\ ToSet(me.req.templates) \subseteq ToSet(p.new) \cup {New}
        /\ \A x \in Removed(p.old, p.new) : ~HasTemplate(row', x)
        /\ TypeForm(me.req) /\ Confirmed(me.req)
    BY <1>1, FinalizeTemplates, Remaps DEF Remapping, Arranging
  <1>3. \A x \in Deck \cup Note : row'[x] = Gone <=> row[x] = Gone
    BY <1>1, RemapNotes
  <1>4. NoneLeftCardless
    <2> SUFFICES ASSUME NEW n \in Note, row'[n] # Gone, CardsOf(row', n) = {}, NEW c \in CardsOf(row, n)
                 PROVE  row[n] # Gone /\ ~HasTemplate(row', row[c].tmpl)
      BY <1>3 DEF NoneLeftCardless
    <2>1. c \in Live(row, Card) /\ row[c].note = n
      BY DEF CardsOf
    <2>2. row'[c] = Gone
      BY <1>1, <2>1 DEF CardsOf, Live
    <2> QED BY <1>1, <1>2, <1>3, <2>1, <2>2
  <1>5. OnlyOrphansGo
    BY <1>3 DEF OnlyOrphansGo, Live
  <1>6. NoCardDiscarded
    BY <1>1, <1>2 DEF NoCardDiscarded
  <1>7. NoCardRepointed
    BY <1>1 DEF NoCardRepointed, Live
  <1>8. RemovalConfirmed
    <2> SUFFICES ASSUME NEW r \in Request, tx[r].req.kind = "edittype", tx'[r].pc = "over",
                        ~tx[r].req.confirmed, ~tx[r].req.unused, tx[r].req.checked = row[tx[r].req.type]
                 PROVE  CardsFrom(row, ToSet(row[tx[r].req.type].templates) \ ToSet(row'[tx[r].req.type].templates)) = {}
      BY DEF RemovalConfirmed
    <2>1. r = u
      BY DEF Inv, Local, Locks
    <2>2. ~OrderChanged(row[t].templates, me.req.templates)
      BY <1>2, <2>1 DEF Confirmed
    <2>3. ToSet(row[t].templates) \subseteq ToSet(p.new)
      <3> DEFINE old == row[t].templates
                 new == p.new
                 q == me.req
      <3>1. old \in Seq(Template) /\ TypeForm(q) /\ ~OrderChanged(old, q.templates)
            /\ ToSet(q.templates) \subseteq ToSet(new) \cup {New}
        BY <1>2, <2>2
      <3> HIDE DEF old, new, q
      <3>2. ToSet(old) \subseteq ToSet(new)
        BY <3>1, UnconfirmedKeeps
      <3> QED BY <3>2 DEF old, new
    <2>4. ToSet(row[t].templates) \ ToSet(row'[t].templates) = {}
      BY <1>2, <2>3
    <2> QED BY <2>1, <2>4 DEF CardsFrom
  <1> QED BY <1>4, <1>5, <1>6, <1>7, <1>8 DEF Careful

LEMMA FinalizeKeeps ==
    ASSUME Inv, NEW u \in Request, FinalizeCardOrdinalsForTemplates(u)
    PROVE  Inv' /\ Careful
  <1> DEFINE me == tx[u]
             t == me.req.type
             p == me.seen
             rows == Finalized(View(u), p)
             switched == {n \in DOMAIN me.scan : View(u)[n] # Gone /\ View(u)[n].type # t}
  <1>1. CASE Refuse(u)
    BY <1>1, Refused, QuietIsCareful
  <1>2. CASE /\ ~Collide(rows ++ View(u)) /\ Commit(u, rows) /\ Lockable(u, DOMAIN rows) /\ me.pc = "finalize"
             /\ torn' = torn \cup (IF Added(p.old, p.new) = {} THEN {} ELSE switched) /\ UNCHANGED outrun
    <2>1. me.pc = "finalize" /\ row' = rows ++ View(u) /\ tx' = [tx EXCEPT ![u] = Over] /\ ~Collide(row')
      BY <1>2 DEF Commit
    <2>2. /\ TypeWritten(u)
          /\ \A c \in Live(row', Card) :
                /\ row'[c] \in CardRow /\ row'[c].ord >= 0 /\ row'[c].tmpl \notin Removed(p.old, p.new)
                /\ \/ /\ row[c] # Gone /\ row'[c].note = row[c].note /\ row'[c].deck = row[c].deck
                      /\ row'[c].tmpl = row[c].tmpl
                   \/ /\ row[c] = Gone /\ row'[c].note \in DOMAIN me.scan \cap me.share
                      /\ row'[c].deck \in me.share /\ row'[c].tmpl \in Added(p.old, p.new)
          /\ \A c \in Live(row, Card) : row'[c] = Gone => c \in me.excl
          /\ \A c \in Card : c \notin Dirty(me) \cup DOMAIN rows => row'[c] = row[c]
      BY <2>1, FinalizeCards
    <2>3. /\ p.new = me.dirty[t].templates /\ p.new # <<>> /\ IsInjective(p.new) /\ (t \in Cloze => Len(p.new) = 1)
          /\ DOMAIN me.scan \subseteq Note
          /\ \A x : HasTemplate(row, x) /\ x \notin Removed(p.old, p.new) => HasTemplate(row', x)
          /\ \A x \in ToSet(p.new) : HasTemplate(row', x)
      BY <2>1, <2>2, FinalizeTemplates
    <2>4. torn' \subseteq Note /\ torn \subseteq torn'
      BY <1>2, <2>3 DEF Inv, Tables
    <2> HIDE DEF rows, switched
    <2>5. ASSUME NEW c \in Live(row', Card)
          PROVE  /\ row'[row'[c].note] # Gone /\ row'[row'[c].deck] # Gone /\ HasTemplate(row', row'[c].tmpl)
      <3>1. CASE row[c] # Gone
        <4>1. c \in Live(row, Card) /\ row[c].note \in Note /\ row[c].deck \in Deck
          BY <3>1, RowsTyped DEF Live
        <4>2. row[row[c].note] # Gone /\ row[row[c].deck] # Gone /\ HasTemplate(row, row[c].tmpl)
          BY <4>1 DEF Inv, Tables, Sound
        <4>3. row'[row[c].note] # Gone /\ row'[row[c].deck] # Gone
          BY <2>1, <2>2, <4>1, <4>2, RemapNotes
        <4> QED BY <2>2, <2>3, <3>1, <4>2, <4>3
      <3>2. CASE row[c] = Gone
        <4>1. row'[c].note \in me.share /\ row'[c].deck \in me.share /\ row'[c].tmpl \in ToSet(p.new)
          BY <2>2, <3>2 DEF Added
        <4>2. row'[c].note \in Note /\ row'[c].deck \in Deck
          BY <2>2 DEF CardRow
        <4>3. row[row'[c].note] # Gone /\ row[row'[c].deck] # Gone
          BY <4>1, HeldExists
        <4>4. row'[row'[c].note] # Gone /\ row'[row'[c].deck] # Gone
          BY <2>1, <2>2, <4>2, <4>3, RemapNotes
        <4> QED BY <2>3, <4>1, <4>4
      <3> QED BY <3>1, <3>2
    <2>6. ASSUME NEW n \in Live(row', Note) \ torn' PROVE CardsFollowTemplates(row', n)
      <3>1. n \in Live(row', Note) /\ n \notin torn
        BY <2>4
      <3>2. Added(p.old, p.new) # {} => n \notin DOMAIN me.scan \/ View(u)[n].type = t
        <4> SUFFICES ASSUME Added(p.old, p.new) # {}, n \in DOMAIN me.scan PROVE View(u)[n].type = t
          OBVIOUS
        <4>1. n \notin switched
          BY <1>2
        <4>2. View(u)[n] # Gone
          <5>1. n \in Row /\ row'[n] # Gone /\ row'[n] = IF n \in Dirty(me) THEN me.dirty[n] ELSE row[n]
            BY <2>2, <3>1 DEF Live, Row, TypeWritten
          <5> QED BY <5>1, ViewAt
        <4> QED BY <4>1, <4>2 DEF switched
      <3>3. row' = Finalized(View(u), tx[u].seen) ++ View(u)
        BY <2>1 DEF rows
      <3> QED BY <2>1, <3>1, <3>2, <3>3, FinalizeFollows
    <2>7. Tables(row', torn')
      BY <2>1, <2>2, <2>3, <2>4, <2>5, <2>6, RemapTables
    <2>8. ASSUME NEW r \in Request \ {u} PROVE Respects(row, row', torn, torn', tx[r])
      <3>1. Apart(me, tx[r])
        BY DEF Inv
      <3>2. DOMAIN rows \cap (Held(tx[r]) \cup tx[r].share) = {}
        BY <1>2, Guards
      <3>3. \A c \in Card : c \in Held(tx[r]) => row'[c] = row[c]
        BY <2>2, <3>1, <3>2 DEF Apart, Held
      <3>4. \A c \in Card : c \in tx[r].share => row'[c] # Gone
        <4> SUFFICES ASSUME NEW c \in Card, c \in tx[r].share, row'[c] = Gone PROVE FALSE
          OBVIOUS
        <4>1. c \in Live(row, Card)
          BY HeldExists DEF Live
        <4> QED BY <2>2, <3>1, <4>1 DEF Apart
      <3>5. \A c \in Live(row', Card) :
               \/ /\ row[c] # Gone /\ row'[c].note = row[c].note /\ row'[c].deck = row[c].deck
                  /\ row'[c].tmpl = row[c].tmpl
               \/ /\ row[c] = Gone /\ row'[c].note \in me.share /\ row'[c].deck \in me.share
                  /\ row'[c].tmpl \in ToSet(me.dirty[t].templates)
        BY <2>2, <2>3 DEF Added
      <3> QED BY <2>1, <2>2, <2>4, <3>3, <3>4, <3>5, RemapRespects
    <2>9. Shape' /\ tx'[u] = Over /\ \A r \in Request \ {u} : tx'[r] = tx[r]
      BY <2>1, OverEffect DEF Inv
    <2>10. Inv'
      BY <1>2, <2>7, <2>8, <2>9, Committed DEF Inv
    <2>11. Careful
      BY <2>1, <2>9, FinalizeCareful DEF rows
    <2> QED BY <2>10, <2>11
  <1> QED BY <1>1, <1>2 DEF FinalizeCardOrdinalsForTemplates

-----------------------------------------------------------------------------
(* Every step.                                                             *)

LEMMA InitInv ==
    ASSUME Init
    PROVE  Inv
  <1>1. DOMAIN row = Row /\ Sound(row)
    BY ImportedAssumption DEF Init
  <1>2. DOMAIN Fresh = Slots
    BY DEF Fresh, Slots
  <1>3. Shape
    BY <1>2 DEF Init, Shape
  <1>4. Tables(row, torn) /\ outrun \subseteq Note
    BY <1>1 DEF Init, Tables, Live
  <1>5. \A r \in Request : tx[r] = Fresh
    BY DEF Init
  <1> QED BY <1>3, <1>4, <1>5, IdleLocal, IdleApart DEF Inv

\* Statements that read, lock or write rows without committing them.
LEMMA NoteStatements ==
    ASSUME Inv, NEW u \in Request,
           \/ GetNewNote(u) \/ GetNoteEdit(u) \/ PostIds(u) \/ PostNoteTemplates(u) \/ PostNoteFields(u)
           \/ CreateNote(u) \/ LockNoteForContentEdit(u) \/ UpdateNoteContent(u)
           \/ ListCardsForNoteForUpdate(u) \/ MoveNoteToDeck(u)
    PROVE  Inv' /\ row' = row
  <1>1. CASE GetNewNote(u)
    BY <1>1, GetNewNoteKeeps
  <1>2. CASE GetNoteEdit(u)
    BY <1>2, GetNoteEditKeeps
  <1>3. CASE PostIds(u)
    BY <1>3, PostIdsKeeps
  <1>4. CASE PostNoteTemplates(u)
    BY <1>4, PostNoteTemplatesKeeps
  <1>5. CASE PostNoteFields(u)
    BY <1>5, PostNoteFieldsKeeps
  <1>6. CASE CreateNote(u)
    BY <1>6, CreateNoteKeeps
  <1>7. CASE LockNoteForContentEdit(u)
    BY <1>7, LockNoteForContentEditKeeps
  <1>8. CASE UpdateNoteContent(u)
    BY <1>8, UpdateNoteContentKeeps
  <1>9. CASE ListCardsForNoteForUpdate(u)
    BY <1>9, ListCardsForNoteForUpdateKeeps
  <1>10. CASE MoveNoteToDeck(u)
    BY <1>10, MoveNoteToDeckKeeps
  <1> QED BY <1>1, <1>2, <1>3, <1>4, <1>5, <1>6, <1>7, <1>8, <1>9, <1>10

LEMMA DeckStatements ==
    ASSUME Inv, NEW u \in Request,
           \/ LockDeckForDelete(u) \/ ScanOrphans(u) \/ DeleteNotesOrphanedByDeckDelete(u)
           \/ ScanHomeless(u) \/ RehomeNotesOffDeck(u)
    PROVE  Inv' /\ row' = row
  <1>1. CASE LockDeckForDelete(u)
    BY <1>1, LockDeckForDeleteKeeps
  <1>2. CASE ScanOrphans(u)
    BY <1>2, ScanOrphansKeeps
  <1>3. CASE DeleteNotesOrphanedByDeckDelete(u)
    BY <1>3, DeleteNotesOrphanedKeeps
  <1>4. CASE ScanHomeless(u)
    BY <1>4, ScanHomelessKeeps
  <1>5. CASE RehomeNotesOffDeck(u)
    BY <1>5, RehomeNotesOffDeckKeeps
  <1> QED BY <1>1, <1>2, <1>3, <1>4, <1>5

LEMMA TypeStatements ==
    ASSUME Inv, NEW u \in Request,
           \/ GetNoteTypeEdit(u) \/ PostNoteTypeEdit(u) \/ ConfirmStructuralChange(u)
           \/ LockNoteTypeForEdit(u) \/ planFields(u) \/ RemapNoteFields(u)
           \/ ListNoteFieldsForNoteType(u) \/ BulkUpdateNoteChecksums(u)
           \/ OffsetCardOrdinalsForTemplates(u) \/ DeleteCardsForTemplates(u)
           \/ DeleteTemplatesByIDs(u) \/ CreateCardsForNewTemplate(u)
    PROVE  Inv' /\ row' = row
  <1>1. CASE GetNoteTypeEdit(u)
    BY <1>1, GetNoteTypeEditKeeps
  <1>2. CASE PostNoteTypeEdit(u)
    BY <1>2, PostNoteTypeEditKeeps
  <1>3. CASE ConfirmStructuralChange(u)
    BY <1>3, ConfirmStructuralChangeKeeps
  <1>4. CASE LockNoteTypeForEdit(u)
    BY <1>4, LockNoteTypeForEditKeeps
  <1>5. CASE planFields(u)
    BY <1>5, planFieldsKeeps
  <1>6. CASE RemapNoteFields(u)
    BY <1>6, RemapNoteFieldsKeeps
  <1>7. CASE ListNoteFieldsForNoteType(u)
    BY <1>7, ListNoteFieldsForNoteTypeKeeps
  <1>8. CASE BulkUpdateNoteChecksums(u)
    BY <1>8, BulkUpdateNoteChecksumsKeeps
  <1>9. CASE OffsetCardOrdinalsForTemplates(u)
    BY <1>9, OffsetCardOrdinalsKeeps
  <1>10. CASE DeleteCardsForTemplates(u)
    BY <1>10, DeleteCardsForTemplatesKeeps
  <1>11. CASE DeleteTemplatesByIDs(u)
    BY <1>11, DeleteTemplatesByIDsKeeps
  <1>12. CASE CreateCardsForNewTemplate(u)
    BY <1>12, CreateCardsForNewTemplateKeeps
  <1> QED BY <1>1, <1>2, <1>3, <1>4, <1>5, <1>6, <1>7, <1>8, <1>9, <1>10, <1>11, <1>12

LEMMA Handles ==
    ASSUME Inv, NEW u \in Request, Handle(u)
    PROVE  Inv' /\ Careful
  <1>1. CASE \/ GetNewNote(u) \/ GetNoteEdit(u) \/ PostIds(u) \/ PostNoteTemplates(u) \/ PostNoteFields(u)
             \/ CreateNote(u) \/ LockNoteForContentEdit(u) \/ UpdateNoteContent(u)
             \/ ListCardsForNoteForUpdate(u) \/ MoveNoteToDeck(u)
    BY <1>1, NoteStatements, QuietIsCareful
  <1>2. CASE \/ LockDeckForDelete(u) \/ ScanOrphans(u) \/ DeleteNotesOrphanedByDeckDelete(u)
             \/ ScanHomeless(u) \/ RehomeNotesOffDeck(u)
    BY <1>2, DeckStatements, QuietIsCareful
  <1>3. CASE \/ GetNoteTypeEdit(u) \/ PostNoteTypeEdit(u) \/ ConfirmStructuralChange(u)
             \/ LockNoteTypeForEdit(u) \/ planFields(u) \/ RemapNoteFields(u)
             \/ ListNoteFieldsForNoteType(u) \/ BulkUpdateNoteChecksums(u)
             \/ OffsetCardOrdinalsForTemplates(u) \/ DeleteCardsForTemplates(u)
             \/ DeleteTemplatesByIDs(u) \/ CreateCardsForNewTemplate(u)
    BY <1>3, TypeStatements, QuietIsCareful
  <1>4. CASE planTemplates(u)
    <2>1. CASE tx[u].req.templates = row[tx[u].req.type].templates
      BY <1>4, <2>1, planTemplatesCommits
    <2>2. CASE tx[u].req.templates # row[tx[u].req.type].templates
      BY <1>4, <2>2, planTemplatesKeeps, QuietIsCareful
    <2> QED BY <2>1, <2>2
  <1>5. CASE SyncNoteCards(u)
    BY <1>5, SyncNoteCardsKeeps
  <1>6. CASE MoveNoteCardsFromDeck(u)
    BY <1>6, MoveNoteCardsFromDeckKeeps
  <1>7. CASE DeleteNote(u)
    BY <1>7, DeleteNoteKeeps
  <1>8. CASE DeleteDeckRow(u)
    BY <1>8, DeleteDeckRowKeeps
  <1>9. CASE FinalizeCardOrdinalsForTemplates(u)
    BY <1>9, FinalizeKeeps
  <1>10. CASE CreateDeckWithAccess(u)
    BY <1>10, CreateDeckWithAccessKeeps
  <1>11. CASE CreateNoteTypeWithFieldsAndTemplates(u)
    BY <1>11, CreateNoteTypeKeeps
  <1>12. CASE DeleteNoteType(u)
    BY <1>12, DeleteNoteTypeKeeps
  <1>13. CASE Rollback(u)
    BY <1>13, Refused, QuietIsCareful DEF Rollback
  <1> QED BY <1>1, <1>2, <1>3, <1>4, <1>5, <1>6, <1>7, <1>8, <1>9, <1>10, <1>11, <1>12, <1>13 DEF Handle

LEMMA NextKeeps ==
    ASSUME Inv, [Next]_vars
    PROVE  Inv' /\ Careful
  <1>1. CASE \E r \in Request : Handle(r)
    BY <1>1, Handles
  <1>2. CASE UNCHANGED vars
    <2>1. row' = row /\ tx' = tx /\ torn' = torn /\ outrun' = outrun
      BY <1>2 DEF vars
    <2>2. Shape' /\ Tables(row', torn')
      BY <2>1 DEF Inv, Shape
    <2> QED BY <2>1, <2>2, QuietIsCareful DEF Inv
  <1> QED BY <1>1, <1>2 DEF Next, Resting

-----------------------------------------------------------------------------
(* Theorems.                                                               *)

\* Each statement of each request leaves the tables sound, and each request
\* knowing what its locks keep true (deletion.go, notes.go, notetypes.go).
THEOREM StatementsKeepInv == Spec => []Inv
  <1>1. Init => Inv
    BY InitInv
  <1>2. Inv /\ [Next]_vars => Inv'
    BY NextKeeps
  <1> QED BY <1>1, <1>2, PTL DEF Spec

\* What is committed fits together: rows refer to rows that exist, ordinals are
\* unique, a checksum is that of the first value although an edit of the note
\* type writes it two statements after the values, and the cards and values of
\* a note follow its note type unless it was last written from a replaced one.
THEOREM ContentsAlwaysFit == Spec => []ContentsFit
  <1>1. Inv => ContentsFit
    <2> SUFFICES ASSUME Inv PROVE ContentsFit
      OBVIOUS
    <2>1. Tables(row, torn) /\ outrun \subseteq Note /\ \A r \in Request : Locks(row, tx[r])
      BY DEF Inv, Local
    <2>2. \A r \in Request : tx[r].excl \cup tx[r].share \cup DOMAIN tx[r].dirty \subseteq Row
      BY <2>1 DEF Locks, Dirty
    <2> QED BY <2>1, <2>2 DEF ContentsFit, TypeOK, Tables
  <1> QED BY <1>1, StatementsKeepInv, PTL

\* Deleting a deck takes the notes that have no card in another one, and those
\* only; what else leaves a note without cards is the removal of a template it
\* had a card of.  The exception is a note whose cards another request changed
\* between the scan and the delete of DeleteNotesOrphanedByDeckDelete.
THEOREM DeckDeletionIsExact == Spec => DeletionIsExact
  <1>1. Inv /\ [Next]_vars => NoneLeftCardless /\ OnlyOrphansGo
    BY NextKeeps DEF Careful
  <1>2. Spec => CardlessOnlyIfOutrun
    BY <1>1, StatementsKeepInv, PTL DEF Spec, CardlessOnlyIfOutrun, NoneLeftCardless
  <1>3. Spec => DeletionTakesOnlyOrphans
    BY <1>1, StatementsKeepInv, PTL DEF Spec, DeletionTakesOnlyOrphans, OnlyOrphansGo
  <1> QED BY <1>2, <1>3 DEF DeletionIsExact

\* SyncNoteCards and the remap of a note type never recreate a card that stays
\* and never point it at another template, so no student's progress is lost or
\* moved to another question, unless the note changes its note type or is
\* written from templates that were replaced meanwhile.
THEOREM EditsKeepCards == Spec => CardsOutliveEdits
  <1>1. Inv /\ [Next]_vars => NoCardDiscarded /\ NoCardRepointed
    BY NextKeeps DEF Careful
  <1>2. Spec => CardsAreNotDiscarded
    BY <1>1, StatementsKeepInv, PTL DEF Spec, CardsAreNotDiscarded, NoCardDiscarded
  <1>3. Spec => RepointNeedsTypeChange
    BY <1>1, StatementsKeepInv, PTL DEF Spec, RepointNeedsTypeChange, NoCardRepointed
  <1> QED BY <1>2, <1>3 DEF CardsOutliveEdits

\* The confirmation page of a note-type edit is asked for before the lock is
\* taken, and yet no card goes with a template unless someone confirmed it, or
\* the note type was another, or without notes, when it was checked.
THEOREM RemovalIsConfirmed == Spec => DiscardIsConfirmed
  <1>1. Inv /\ [Next]_vars => RemovalConfirmed
    BY NextKeeps DEF Careful
  <1> QED BY <1>1, StatementsKeepInv, PTL DEF Spec, DiscardIsConfirmed, RemovalConfirmed
=============================================================================
