--------------------------- MODULE MCDeckContents ---------------------------
(* Small instances of DeckContents.                                        *)
EXTENDS DeckContents, TLC

CONSTANTS d1, d2, d3, n1, n2, n3, A, B, C, D, f, g, h, front, back, solo, gap, w, y, r1, r2, r3, author, guest

All == {"create", "edit", "move", "delnote", "deldeck", "edittype", "newtype", "deltype", "newdeck"}
MCKinds == r1 :> All @@ r2 :> All @@ r3 :> {"deldeck"}
Deletions == [r \in Request |-> {"deldeck"}]
TypeAndNoteEdits == r1 :> {"edittype"} @@ r2 :> {"edit"}
MCUserOf == [r \in Request |-> IF r = r2 THEN guest ELSE author]
MCEdits == author :> {d1, d2, d3} @@ guest :> {d1, d2}
MCManages == author :> {d1, d2, d3} @@ guest :> {d2}
MCOwnerOf == [t \in Type |-> IF t = D THEN guest ELSE author]

Val(x) == <<x, Empty>>
ACard(n, o, x, d) == [note |-> n, ord |-> o, tmpl |-> x, deck |-> d]

(* A is a standard note type with two templates, B one with the same field  *)
(* and a single template, C is cloze.  The note n1 was imported with its    *)
(* cards filed in two decks; the cloze note n2 with cards in three, before  *)
(* the marker of the card in its home deck was edited away.                 *)
Types == A :> [fields |-> <<f, g>>, templates |-> <<front, back>>]
         @@ B :> [fields |-> <<f, g>>, templates |-> <<solo>>]
         @@ C :> [fields |-> <<h>>, templates |-> <<gap>>]
Standard == n1 :> [home |-> d1, type |-> A, vals |-> <<Val(f), Val(g)>>, sum |-> Val(f)]
            @@ 1 :> ACard(n1, 0, front, d1) @@ 2 :> ACard(n1, 1, back, d2)
Scattered == n2 :> [home |-> d3, type |-> C, vals |-> <<Val(h)>>, sum |-> Val(h)]
             @@ 3 :> ACard(n2, 0, gap, d1) @@ 4 :> ACard(n2, 1, gap, d2)

\* n1 after the deck of its first card was deleted.
Bereft == n1 :> [home |-> d2, type |-> A, vals |-> <<Val(f), Val(g)>>, sum |-> Val(f)]
          @@ 2 :> ACard(n1, 1, back, d2) @@ d1 :> Gone

Base == [x \in Row |-> IF x \in Deck THEN "live" ELSE Gone]
Both == {Standard @@ Scattered @@ Types @@ Base, Bereft @@ Types @@ Base}
OnlyStandard == {Standard @@ Types @@ Base}
OnlyScattered == {Scattered @@ Types @@ Base}
=============================================================================
