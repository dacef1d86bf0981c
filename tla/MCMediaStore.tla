---------------------------- MODULE MCMediaStore ----------------------------
(* Instances of MediaStore for TLC. *)
EXTENDS MediaStore

CONSTANTS b1, b2, d1f, d1g, d2f, ann

File(h, b) == [holder |-> h, blob |-> b]

OneDeck == {{d1f, d1g}}
TwoDecks == {{d1f, d1g}, {d2f}}
NoDecks == {}

(* Packages of one deck or two, sharing content, and an avatar that is the *)
(* same picture.                                                           *)
SharedBodies == {{File(d1f, b1)}, {File(d2f, b1)}, {File(ann, b1)},
                 {File(d1f, b1), File(d1g, b2)}}

DeckBodies == {{File(d1f, b1)}, {File(d1f, b1), File(d1g, b2)}}

(* The same filename with other content. *)
RenamedBodies == {{File(d1f, b1)}, {File(d1f, b2)}}

AvatarBodies == {{File(ann, b1)}, {File(ann, b2)}}
=============================================================================
