--------------------------- MODULE MCDeckPackage ---------------------------
(* Small instances of DeckPackage.                                         *)
EXTENDS DeckPackage

CONSTANTS ann, ben, g1, g2, g3, v1, v2, seed

(* Ids of imported rows and past instants are below Start; those made from *)
(* a uuid are above every instant.                                         *)
Index(x) == CASE x = ann -> 0 [] x = ben -> 1 [] x = g1 -> 0 [] x = g2 -> 1 [] x = g3 -> 2 [] OTHER -> 0
MCUuid(k) == 1000 + IF Len(k) = 1 THEN k[1] ELSE 100 + 20 * Index(k[1]) + 5 * Index(k[2]) + k[3]
MCInterval(r) == r + 1

(* ann has a deck of one note with two cards, and ben studies it too.      *)
ACard(o) == [template |-> <<1, o>>, deck |-> 1, anki |-> None, position |-> o + 1]
MCStored ==
    [decks |-> <<[owner |-> ann, name |-> "one", anki |-> None, created |-> 41, viewers |-> {ann, ben}]>>,
     types |-> <<[owner |-> ann, name |-> "basic", fields |-> 1, templates |-> {0, 1},
                  cloze |-> FALSE, anki |-> None]>>,
     notes |-> <<ann, g1>> :> [type |-> 1, deck |-> 1, vals |-> v1, anki |-> None, created |-> 42],
     cards |-> <<ann, g1, 0>> :> ACard(0) @@ <<ann, g1, 1>> :> ACard(1),
     log |-> {}, states |-> <<>>, retention |-> <<>>]

Basic(fields) == [anki |-> 7, name |-> "basic", fields |-> fields, templates |-> {0, 1}, cloze |-> FALSE]
Cloze == [anki |-> 8, name |-> "cloze", fields |-> 1, templates |-> {0}, cloze |-> TRUE]
NormalDeck(id, name) == [anki |-> id, name |-> name, filtered |-> FALSE]
Filtered == [anki |-> 3, name |-> "cram", filtered |-> TRUE]
Snapshot == [seed |-> seed, reviews |-> <<>>]
Plain == [id |-> 31, nid |-> 30, ord |-> 0, did |-> 1, odid |-> 0, odue |-> 0, type |-> New,
          queue |-> New, due |-> 7, ivl |-> 0, flag |-> 0, fsrs |-> None, dr |-> 0]

(* A card with a snapshot, sitting in a filtered deck; a suspended and      *)
(* flagged card with a review and a manual reschedule; and one without a    *)
(* template.                                                                *)
Collection ==
    [crt |-> 43, types |-> {Basic(1)}, decks |-> {NormalDeck(1, "one"), NormalDeck(2, "two"), Filtered},
     notes |-> {[id |-> 30, guid |-> g2, mid |-> 7, flds |-> v1]},
     cards |-> {[Plain EXCEPT !.did = 3, !.odid = 2, !.odue = 6, !.type = Review, !.queue = Review,
                              !.ivl = 2, !.fsrs = Snapshot, !.dr = 1],
                [Plain EXCEPT !.id = 32, !.ord = 1, !.type = Review, !.queue = Suspended,
                              !.due = 5, !.flag = 1, !.fsrs = Snapshot, !.dr = 2],
                [Plain EXCEPT !.id = 36, !.ord = 2]},
     revlog |-> {[id |-> 45, cid |-> 32, ease |-> 3, type |-> 1],
                 [id |-> 46, cid |-> 32, ease |-> 0, type |-> 4]}]

(* The same note after a change of note type, a learning card, a card of a  *)
(* deck that is not in the package and a retention that is out of range.    *)
Update ==
    [crt |-> 40, types |-> {Basic(2), Cloze}, decks |-> {NormalDeck(1, "one")},
     notes |-> {[id |-> 30, guid |-> g2, mid |-> 8, flds |-> v2]},
     cards |-> {[Plain EXCEPT !.type = Learning, !.queue = Learning, !.due = 58, !.ivl = -2,
                              !.fsrs = Snapshot, !.dr = 9],
                [Plain EXCEPT !.id = 33, !.ord = 2, !.did = 5, !.flag = 2]},
     revlog |-> {}]

MCAnki == {Collection, Update}
=============================================================================
