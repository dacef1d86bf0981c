----------------------------- MODULE DeckAccess -----------------------------
(***************************************************************************)
(* Who may do what with one deck: the deck_access rows, and the requests   *)
(* that change them -- grant, edit, revoke (internal/http/access.go), the  *)
(* progress reset and the deck's deletion (internal/db/deletion.go).       *)
(*                                                                         *)
(* Every request but a grant takes FOR UPDATE on the deck's row; a grant   *)
(* only inserts, and its foreign key takes FOR KEY SHARE on that row.      *)
(* Postgres runs them READ COMMITTED, a statement at a time: the snapshot  *)
(* that authorises a caller is older than the lock the statement waits     *)
(* for.  What a transaction has written is a function of its request, and  *)
(* lands in access when it commits.                                        *)
(***************************************************************************)
EXTENDS Integers, FiniteSets

CONSTANTS
    Users,
    Requests,   \* the POSTs: each is handled once
    Changes,    \* what a POST may ask for
    Creator,    \* who made the deck, with every flag
    MaxFaults,  \* bound on the statements that fail
    Free, NoRow, None   \* sentinels

Flags == {"view", "study", "manage", "delete"}

\* A form carries fields; those the handler does not know it ignores.
Fields == Flags \cup {"other"}

Kinds == {"grant", "set", "revoke", "reset", "delete"}

ChangeRecords == [kind : Kinds, caller : Users, target : Users,
                  form : SUBSET Fields]

ASSUME AccessAssumption ==
    /\ Creator \in Users /\ Changes \subseteq ChangeRecords
    /\ MaxFaults \in Nat
    /\ Free \notin Requests /\ \A form \in SUBSET Fields : NoRow # form
    /\ None \notin ChangeRecords

VARIABLES
    deck,       \* whether the deck exists
    access,     \* deck_access: a set of flags per user, or NoRow
    locker,     \* who holds FOR UPDATE on the deck's row
    sharers,    \* who holds FOR KEY SHARE on it
    pc, change, \* where each request is, and what it asks for
    faults

vars == <<deck, access, locker, sharers, pc, change, faults>>

Active(t) == pc[t] \notin {"idle", "done", "notFound", "conflict", "failed"}

Holds(u, flags) == access[u] # NoRow /\ flags \subseteq access[u]

-----------------------------------------------------------------------------
(* CreateDeckWithAccess has run: the creator holds every flag. *)
Init ==
    /\ deck = TRUE
    /\ access = [u \in Users |-> IF u = Creator THEN Flags ELSE NoRow]
    /\ locker = Free /\ sharers = {}
    /\ pc = [t \in Requests |-> "idle"]
    /\ change = [t \in Requests |-> None]
    /\ faults = 0

(* MUTANT: the form is stored as it comes. *)
FlagsFromFormUnread(form) == form

(* flagsFromForm: every known flag on or off; can_view is not insisted on. *)
FlagsFromForm(form) == form \cap Flags

(* A request's answer ends its transaction, and releases what it locked. *)
Answer(t, status) ==
    /\ pc' = [pc EXCEPT ![t] = status]
    /\ locker' = IF locker = t THEN Free ELSE locker
    /\ sharers' = sharers \ {t}

Go(t, where) ==
    /\ pc' = [pc EXCEPT ![t] = where]
    /\ UNCHANGED <<locker, sharers>>

Receive(t) ==
    /\ pc[t] = "idle"
    /\ \E c \in Changes : change' = [change EXCEPT ![t] = c]
    /\ Go(t, IF change'[t].kind = "grant" THEN "look" ELSE "authorise")
    /\ UNCHANGED <<deck, access, faults>>

(* The flags a request needs its caller to hold. *)
Needed(kind) == {"view", IF kind = "delete" THEN "delete" ELSE "manage"}

Authorised(t) == deck /\ Holds(change[t].caller, Needed(change[t].kind))

(* GetDeckForAccessManage, before the grant's INSERT. *)
Look(t) ==
    /\ pc[t] = "look"
    /\ IF Authorised(t) THEN Go(t, "authorise") ELSE Answer(t, "notFound")
    /\ UNCHANGED <<deck, access, change, faults>>

(* The snapshot of LockDeckForDelete, of LockDeckForAccessChange and of    *)
(* GrantDeckAccess: no row means 404.                                      *)
Authorise(t) ==
    /\ pc[t] = "authorise"
    /\ IF ~ Authorised(t) THEN Answer(t, "notFound")
       ELSE Go(t, IF change[t].kind = "grant" THEN "insert" ELSE "lock")
    /\ UNCHANGED <<deck, access, change, faults>>

(* FOR UPDATE waits for every other lock on the row. *)
Lockable == locker = Free /\ sharers = {}

(* The lock is granted, and the row re-read: gone if the deck was deleted. *)
Lock(t) ==
    /\ pc[t] = "lock"
    /\ Lockable
    /\ IF deck THEN /\ locker' = t
                    /\ pc' = [pc EXCEPT ![t] = "change"]
                    /\ UNCHANGED sharers
       ELSE Answer(t, "notFound")
    /\ UNCHANGED <<deck, access, change, faults>>

(* deck_access as a request leaves it: DeleteDeckAccessRow,                *)
(* UpdateDeckAccessRow, the INSERT, the cascade of DeleteDeckRow.          *)
After(t) ==
    LET c == change[t]
        row == FlagsFromForm(c.form)
    IN CASE c.kind \in {"grant", "set"} -> [access EXCEPT ![c.target] = row]
         [] c.kind = "revoke" -> [access EXCEPT ![c.target] = NoRow]
         [] c.kind = "reset" -> access
         [] c.kind = "delete" -> [u \in Users |-> NoRow]

(* The statement after the lock; zero rows affected is a 404. *)
Change(t) ==
    /\ pc[t] = "change"
    /\ IF change[t].kind \in {"set", "revoke"}
       THEN IF access[change[t].target] = NoRow THEN Answer(t, "notFound")
            ELSE Go(t, "count")
       ELSE Go(t, "commit")
    /\ UNCHANGED <<deck, access, change, faults>>

(* MUTANT: counted before the change. *)
HoldersBefore(t) == access

(* The rows CountDeckAccessHolders counts: the transaction's own. *)
Holders(t) == After(t)

Manageable(rows) ==
    /\ \E u \in Users : rows[u] # NoRow /\ "manage" \in rows[u]
    /\ \E u \in Users : rows[u] # NoRow /\ "delete" \in rows[u]

(* MUTANT: the refusal forgets the rollback and leaves the lock behind. *)
RefuseNoRollback(t) == Go(t, "conflict")

(* ErrLastAccessHolder: the handler answers 409 and rolls back. *)
Refuse(t) == Answer(t, "conflict")

(* assertDeckStillManageable, after the change. *)
Count(t) ==
    /\ pc[t] = "count"
    /\ IF Manageable(Holders(t)) THEN Go(t, "commit") ELSE Refuse(t)
    /\ UNCHANGED <<deck, access, change, faults>>

(* MUTANT: (deck_id, user_id) is not declared a key, nothing is waited for. *)
KeyDecidedAlways(t) == TRUE

(* The primary key: the INSERT waits for whoever has written the same key  *)
(* and not committed.                                                      *)
KeyDecided(t) ==
    \A u \in Requests \ {t} :
        LET target == change[u].target IN
        /\ ~ /\ pc[u] \in {"count", "commit"}
             /\ \/ change[u].kind = "delete"
                \/ /\ change[u].kind \in {"set", "revoke"}
                   /\ target = change[t].target
        /\ ~ /\ pc[u] \in {"share", "commit"} /\ change[u].kind = "grant"
             /\ target = change[t].target

(* GrantDeckAccess: a duplicate is a 409. *)
Insert(t) ==
    /\ pc[t] = "insert"
    /\ KeyDecided(t)
    /\ IF access[change[t].target] # NoRow THEN Answer(t, "conflict")
       ELSE Go(t, "share")
    /\ UNCHANGED <<deck, access, change, faults>>

(* MUTANT: deck_id is declared without its foreign key. *)
SharedAnyway == TRUE

(* REFERENCES decks: the row's FOR KEY SHARE waits for FOR UPDATE. *)
Shared == locker = Free

(* The foreign key of the row inserted. *)
Share(t) ==
    /\ pc[t] = "share"
    /\ Shared
    /\ IF deck THEN /\ sharers' = sharers \cup {t}
                    /\ pc' = [pc EXCEPT ![t] = "commit"]
                    /\ UNCHANGED locker
       ELSE Answer(t, "failed")
    /\ UNCHANGED <<deck, access, change, faults>>

Commit(t) ==
    /\ pc[t] = "commit"
    /\ access' = After(t)
    /\ deck' = (deck /\ change[t].kind # "delete")
    /\ Answer(t, "done")
    /\ UNCHANGED <<change, faults>>

(* A statement fails or the connection goes: rolled back. *)
Abort(t) ==
    /\ Active(t) /\ faults < MaxFaults
    /\ faults' = faults + 1
    /\ Answer(t, "failed")
    /\ UNCHANGED <<deck, access, change>>

(* No request left to receive in this instance. *)
Quiet ==
    /\ \A t \in Requests : pc[t] # "idle"
    /\ UNCHANGED vars

Progress(t) == \/ Look(t) \/ Authorise(t) \/ Lock(t) \/ Change(t) \/ Count(t)
               \/ Insert(t) \/ Share(t) \/ Commit(t)

Next == \/ \E t \in Requests : Receive(t) \/ Progress(t) \/ Abort(t)
        \/ Quiet

Spec == Init /\ [][Next]_vars

(* A handler that can take its next statement takes it. *)
FairSpec == Spec /\ \A t \in Requests : WF_vars(Progress(t))
-----------------------------------------------------------------------------
TypeOK ==
    /\ deck \in BOOLEAN
    /\ access \in [Users -> (SUBSET Flags) \cup {NoRow}]
    /\ locker \in Requests \cup {Free} /\ sharers \subseteq Requests
    /\ pc \in [Requests -> {"idle", "look", "authorise", "lock", "change",
                            "count", "insert", "share", "commit", "done",
                            "notFound", "conflict", "failed"}]
    /\ change \in [Requests -> Changes \cup {None}]
    /\ faults \in 0..MaxFaults

(* deletion.go:12, deck_access 00007:7: a deck always has a member with    *)
(* can_manage_access and one with can_delete, whatever revokes, edits and  *)
(* deletions overlap.                                                      *)
NeverStranded == deck => Manageable(access)

(* 00007:12, "a grant on a deleted deck grants nothing": no row outlives   *)
(* the deck, even one inserted while the deck was being deleted.           *)
NoOrphanRow == ~ deck => \A u \in Users : access[u] = NoRow

(* deck_access.sql:40, "adding a holder can never strand a deck": a grant  *)
(* never overwrites a row, so it needs no count.                           *)
GrantOnlyAdds ==
    [][\A t \in Requests :
          pc[t] = "commit" /\ pc'[t] = "done" /\ change[t].kind = "grant" =>
              access[change[t].target] = NoRow]_vars

(* The two row locks and the key never wait for each other in a circle.    *)
EveryChangeEnds == \A t \in Requests : Active(t) ~> ~ Active(t)

-----------------------------------------------------------------------------
(* What the source says, and the code does not do. *)

(* access.go:249, "a deck must keep at least one member who can manage     *)
(* access and one who can delete it": there is a caller whom               *)
(* GetDeckForAccessManage lets in, and one whom LockDeckForDelete does.    *)
SomebodyCan ==
    deck => /\ \E u \in Users : Holds(u, {"view", "manage"})
            /\ \E u \in Users : Holds(u, {"view", "delete"})
=============================================================================
