---------------------------- MODULE MCDeckAccess ----------------------------
(* Small instances of DeckAccess. *)
EXTENDS DeckAccess

CONSTANTS ann, bob, r1, r2, r3

Both == [kind : Kinds \ {"reset"}, caller : {ann, bob}, target : {ann, bob}]

With(c, form) == [kind |-> c.kind, caller |-> c.caller, target |-> c.target,
                  form |-> form]

\* Deletion and reset name no member, revocation no flags; an edit keeps
\* can_view alone, so that guard and form both have something to refuse.
SharedChanges ==
    [kind : {"delete", "reset"}, caller : {ann, bob}, target : {ann}, form : {{}}]
    \cup {With(c, CASE c.kind = "grant" -> Flags
                     [] c.kind = "set" -> {"view", "other"}
                     [] OTHER -> {}) :
             c \in {b \in Both : b.kind # "delete"}}

BlindChanges ==
    {With(c, f) : c \in {b \in Both : b.kind = "set"},
                  f \in {Flags \ {"view"}, {"view", "manage"}, Flags}}
    \cup {With(c, Flags) : c \in {b \in Both : b.kind = "grant"}}
=============================================================================
