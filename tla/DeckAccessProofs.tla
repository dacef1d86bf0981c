-------------------------- MODULE DeckAccessProofs --------------------------
(***************************************************************************)
(* Proofs about DeckAccess, for any users, requests, forms and number of   *)
(* failures.  A deck is never left without a manager and a deleter because *)
(* what was counted is still what is there when the change commits: the    *)
(* deck's row lock keeps every other commit out, except a grant's, whose   *)
(* FOR KEY SHARE it conflicts with; and a grant, which counts nothing,     *)
(* only ever adds a row, because its key was decided when it inserted.     *)
(***************************************************************************)
EXTENDS DeckAccess, TLAPS

(* What each place in the code knows of its request. *)
KindInv ==
    \A t \in Requests :
        /\ Active(t) => change[t] \in Changes
        /\ pc[t] \in {"look", "insert", "share"} => change[t].kind = "grant"
        /\ pc[t] \in {"lock", "change", "count"} => change[t].kind # "grant"
        /\ pc[t] = "count" => change[t].kind \in {"set", "revoke"}

(* Whoever has a lock on the deck's row has the deck. *)
LockInv ==
    /\ locker # Free => sharers = {}
    /\ \A t \in Requests :
          pc[t] \in {"change", "count", "commit"} =>
              /\ deck
              /\ change[t].kind = "grant" => t \in sharers
              /\ change[t].kind # "grant" => locker = t

Edits(t) == change[t].kind \in {"set", "revoke"}

Inserted(t) == pc[t] \in {"share", "commit"} /\ change[t].kind = "grant"

(* What a request has read of access. *)
Found(t) ==
    /\ pc[t] \in {"count", "commit"} /\ Edits(t) =>
          access[change[t].target] # NoRow
    /\ pc[t] = "commit" /\ Edits(t) => Manageable(After(t))
    /\ Inserted(t) => access[change[t].target] = NoRow

(* It still holds when the change is committed. *)
RowInv == \A t \in Requests : Found(t)

(* One INSERT of a key at a time. *)
KeyInv ==
    \A t, u \in Requests :
        t # u /\ Inserted(t) /\ Inserted(u) =>
            change[t].target # change[u].target

Inv == /\ TypeOK /\ KindInv /\ LockInv /\ RowInv /\ KeyInv
       /\ NoOrphanRow /\ NeverStranded

-----------------------------------------------------------------------------
(* Facts about the rows. *)

(* The form of a request becomes a row: a set of known flags. *)
LEMMA RowType ==
    ASSUME NEW c \in ChangeRecords
    PROVE  /\ FlagsFromForm(c.form) \in SUBSET Flags
           /\ FlagsFromForm(c.form) # NoRow
  BY AccessAssumption DEF FlagsFromForm, Fields, Flags

(* A request past its first statement asks for something well-formed. *)
LEMMA ChangeType ==
    ASSUME TypeOK, KindInv, NEW t \in Requests, Active(t)
    PROVE  change[t] \in ChangeRecords
  BY AccessAssumption DEF KindInv

LEMMA AfterType ==
    ASSUME TypeOK, NEW t \in Requests, change[t] \in ChangeRecords
    PROVE  After(t) \in [Users -> (SUBSET Flags) \cup {NoRow}]
<1>1. FlagsFromForm(change[t].form) \in SUBSET Flags
  BY RowType
<1>2. change[t].kind \in Kinds
  BY DEF ChangeRecords
<1>3. CASE change[t].kind \in {"grant", "set"}
  BY <1>1, <1>3 DEF TypeOK, After
<1>4. CASE change[t].kind = "revoke"
  BY <1>4 DEF TypeOK, After
<1>5. CASE change[t].kind = "reset"
  BY <1>5 DEF TypeOK, After
<1>6. CASE change[t].kind = "delete"
  BY <1>6 DEF TypeOK, After
<1> QED BY <1>2, <1>3, <1>4, <1>5, <1>6 DEF Kinds

(* CreateDeckWithAccess leaves a deck its creator manages. *)
LEMMA InitInv == Init => Inv
<1> SUFFICES ASSUME Init PROVE Inv
  OBVIOUS
<1>0. access \in [Users -> (SUBSET Flags) \cup {NoRow}]
  BY DEF Init
<1>1. TypeOK
  BY <1>0, AccessAssumption DEF Init, TypeOK
<1>2. KindInv /\ LockInv /\ RowInv /\ KeyInv
  BY DEF Init, KindInv, LockInv, RowInv, Found, KeyInv, Active, Inserted, Edits
<1>3. Creator \in Users /\ Flags # NoRow
  BY AccessAssumption DEF Flags, Fields
<1>4. NoOrphanRow /\ NeverStranded
  BY <1>3 DEF Init, NoOrphanRow, NeverStranded, Manageable, Flags
<1> QED BY <1>1, <1>2, <1>4 DEF Inv

-----------------------------------------------------------------------------
(* Types and places. *)

LEMMA TypeStep ==
    ASSUME TypeOK, KindInv, [Next]_vars
    PROVE  TypeOK'
<1> USE DEF TypeOK, Answer, Go
<1>1. ASSUME NEW t \in Requests, Receive(t) PROVE TypeOK'
  BY <1>1 DEF Receive
<1>2. ASSUME NEW t \in Requests,
             Look(t) \/ Authorise(t) \/ Lock(t) \/ Change(t) \/ Insert(t) \/ Share(t)
      PROVE  TypeOK'
  BY <1>2 DEF Look, Authorise, Lock, Change, Insert, Share
<1>3. ASSUME NEW t \in Requests, Count(t) PROVE TypeOK'
  BY <1>3 DEF Count, Refuse
<1>4. ASSUME NEW t \in Requests, Commit(t) PROVE TypeOK'
  <2>1. change[t] \in ChangeRecords
    BY <1>4, ChangeType DEF Commit, Active
  <2>2. After(t) \in [Users -> (SUBSET Flags) \cup {NoRow}]
    BY <2>1, AfterType
  <2> QED BY <1>4, <2>2 DEF Commit
<1>5. ASSUME NEW t \in Requests, Abort(t) PROVE TypeOK'
  BY <1>5, AccessAssumption DEF Abort
<1>6. CASE UNCHANGED vars
  BY <1>6 DEF vars
<1> QED BY <1>1, <1>2, <1>3, <1>4, <1>5, <1>6 DEF Next, Progress, Quiet

LEMMA KindStep ==
    ASSUME TypeOK, KindInv, [Next]_vars
    PROVE  KindInv'
<1> USE DEF TypeOK, KindInv, Active, Answer, Go
<1>1. ASSUME NEW t \in Requests, Receive(t) PROVE KindInv'
  BY <1>1 DEF Receive
<1>2. ASSUME NEW t \in Requests,
             Look(t) \/ Authorise(t) \/ Lock(t) \/ Insert(t) \/ Share(t)
      PROVE  KindInv'
  BY <1>2 DEF Look, Authorise, Lock, Insert, Share
<1>3. ASSUME NEW t \in Requests, Change(t) \/ Count(t) PROVE KindInv'
  BY <1>3 DEF Change, Count, Refuse
<1>4. ASSUME NEW t \in Requests, Commit(t) \/ Abort(t) PROVE KindInv'
  BY <1>4 DEF Commit, Abort
<1>5. CASE UNCHANGED vars
  BY <1>5 DEF vars
<1> QED BY <1>1, <1>2, <1>3, <1>4, <1>5 DEF Next, Progress, Quiet

-----------------------------------------------------------------------------
(* The locks. *)

(* Whoever commits anything but a grant has the deck's row to itself. *)
LEMMA CommitAlone ==
    ASSUME LockInv, NEW t \in Requests, NEW u \in Requests, t # u,
           pc[t] = "commit", pc[u] \in {"change", "count", "commit"}
    PROVE  change[t].kind = "grant" /\ change[u].kind = "grant"
  BY AccessAssumption DEF LockInv

LEMMA LockStep ==
    ASSUME TypeOK, KindInv, LockInv, [Next]_vars
    PROVE  LockInv'
<1> USE AccessAssumption DEF TypeOK, LockInv, Answer, Go
<1>1. ASSUME NEW t \in Requests, Receive(t) PROVE LockInv'
  BY <1>1 DEF Receive
<1>2. ASSUME NEW t \in Requests, Look(t) \/ Authorise(t) \/ Insert(t)
      PROVE  LockInv'
  BY <1>2 DEF Look, Authorise, Insert
<1>3. ASSUME NEW t \in Requests, Lock(t) PROVE LockInv'
  BY <1>3 DEF Lock, Lockable, KindInv
<1>4. ASSUME NEW t \in Requests, Change(t) \/ Count(t) PROVE LockInv'
  BY <1>4 DEF Change, Count, Refuse
<1>5. ASSUME NEW t \in Requests, Share(t) PROVE LockInv'
  BY <1>5 DEF Share, Shared, KindInv
<1>6. ASSUME NEW t \in Requests, Commit(t) PROVE LockInv'
  <2>1. ASSUME NEW u \in Requests, pc'[u] \in {"change", "count", "commit"}
        PROVE  u # t /\ pc[u] = pc'[u]
    BY <1>6, <2>1 DEF Commit
  <2>2. ASSUME NEW u \in Requests, pc'[u] \in {"change", "count", "commit"}
        PROVE  change[t].kind = "grant" /\ change[u].kind = "grant"
    BY <1>6, <2>1, <2>2, CommitAlone DEF Commit
  <2> QED BY <1>6, <2>1, <2>2 DEF Commit
<1>7. ASSUME NEW t \in Requests, Abort(t) PROVE LockInv'
  BY <1>7 DEF Abort
<1>8. CASE UNCHANGED vars
  BY <1>8 DEF vars
<1> QED BY <1>1, <1>2, <1>3, <1>4, <1>5, <1>6, <1>7, <1>8
        DEF Next, Progress, Quiet

-----------------------------------------------------------------------------
(* What was read still holds. *)

(* A request's rows depend on access alone. *)
LEMMA AfterKept ==
    ASSUME NEW t \in Requests, access' = access, change'[t] = change[t]
    PROVE  /\ After(t)' = After(t)
           /\ Manageable(After(t))' = Manageable(After(t))
<1>1. After(t)' = After(t)
  BY DEF After
<1> QED BY <1>1 DEF Manageable

(* No edit is under way on a row that a commit can touch. *)
LEMMA EditsUndisturbed ==
    ASSUME LockInv, NEW t \in Requests, pc[t] = "commit",
           NEW u \in Requests, u # t, pc[u] \in {"count", "commit"}
    PROVE  ~ Edits(u)
  BY CommitAlone DEF Edits

(* A commit leaves the row of an INSERT under way empty. *)
LEMMA KeyUndisturbed ==
    ASSUME Inv, NEW t \in Requests, Commit(t),
           NEW u \in Requests, u # t, Inserted(u)
    PROVE  access'[change[u].target] = NoRow
<1>1. access[change[u].target] = NoRow
  BY DEF Inv, RowInv, Found
<1>2. change[u].target \in Users /\ change[t] \in ChangeRecords
  <2>1. Active(t) /\ Active(u)
    BY DEF Commit, Inserted, Active
  <2> QED BY <2>1, ChangeType DEF Inv, ChangeRecords
<1>3. access' = After(t)
  BY DEF Commit
<1>4. CASE change[t].kind = "grant"
  <2>1. change[t].target # change[u].target
    BY <1>4 DEF Inv, KeyInv, Inserted, Commit
  <2> QED BY <1>1, <1>2, <1>3, <1>4, <2>1 DEF After, Inv, TypeOK
<1>5. CASE change[t].kind \in {"set", "revoke"}
  <2>1. access[change[t].target] # NoRow
    BY <1>5 DEF Inv, RowInv, Found, Edits, Commit
  <2>2. change[t].target # change[u].target
    BY <1>1, <2>1
  <2> QED BY <1>1, <1>2, <1>3, <1>5, <2>2 DEF After, Inv, TypeOK
<1>6. CASE change[t].kind \in {"reset", "delete"}
  BY <1>1, <1>2, <1>3, <1>6 DEF After
<1> QED BY <1>2, <1>4, <1>5, <1>6 DEF ChangeRecords, Kinds

(* Outside a commit, a request that stays where it is keeps what it found, *)
(* and one that goes where nothing was read has nothing to keep.           *)
LEMMA FoundKept ==
    ASSUME NEW u \in Requests, Found(u), access' = access,
           change'[u] = change[u],
           pc'[u] = pc[u] \/ pc'[u] \notin {"count", "share", "commit"}
    PROVE  Found(u)'
  BY AfterKept DEF Found, Edits, Inserted

LEMMA NothingFound ==
    ASSUME NEW u \in Requests, pc'[u] \notin {"count", "share", "commit"}
    PROVE  Found(u)'
  BY DEF Found, Inserted

LEMMA RowStep ==
    ASSUME Inv, [Next]_vars
    PROVE  RowInv'
<1> SUFFICES ASSUME NEW u \in Requests PROVE Found(u)'
  BY DEF RowInv
<1> USE DEF Answer, Go
<1>0. TypeOK /\ KindInv /\ LockInv /\ Found(u)
  BY DEF Inv, RowInv
<1>1. ASSUME NEW t \in Requests, Receive(t) PROVE Found(u)'
  <2>1. CASE u = t
    BY <1>0, <1>1, <2>1, NothingFound DEF Receive, TypeOK
  <2>2. CASE u # t
    BY <1>0, <1>1, <2>2, FoundKept DEF Receive, TypeOK
  <2> QED BY <2>1, <2>2
<1>2. ASSUME NEW t \in Requests, Look(t) \/ Authorise(t) \/ Lock(t) \/ Abort(t)
      PROVE  Found(u)'
  BY <1>0, <1>2, FoundKept DEF Look, Authorise, Lock, Abort, TypeOK
<1>3. ASSUME NEW t \in Requests, Change(t) PROVE Found(u)'
  <2>1. CASE u = t
    BY <1>0, <1>3, <2>1 DEF Change, Found, Edits, Inserted, KindInv, TypeOK
  <2>2. CASE u # t
    BY <1>0, <1>3, <2>2, FoundKept DEF Change, TypeOK
  <2> QED BY <2>1, <2>2
<1>4. ASSUME NEW t \in Requests, Count(t) PROVE Found(u)'
  <2>1. CASE u = t /\ Manageable(After(t))
    <3>1. Manageable(After(t))' /\ access' = access
      BY <1>4, <2>1, AfterKept DEF Count
    <3>2. change[u].kind # "grant" /\ access[change[u].target] # NoRow
      BY <1>0, <1>4, <2>1 DEF Count, Found, Edits, KindInv
    <3> QED BY <1>4, <2>1, <3>1, <3>2 DEF Count, Found, Inserted
  <2>2. CASE u = t /\ ~ Manageable(After(t))
    BY <1>0, <1>4, <2>2, NothingFound DEF Count, Holders, Refuse, TypeOK
  <2>3. CASE u # t
    BY <1>0, <1>4, <2>3, FoundKept DEF Count, Refuse, TypeOK
  <2> QED BY <2>1, <2>2, <2>3
<1>5. ASSUME NEW t \in Requests, Insert(t) PROVE Found(u)'
  <2>1. CASE u = t
    BY <1>0, <1>5, <2>1 DEF Insert, Found, Edits, Inserted, KindInv, TypeOK
  <2>2. CASE u # t
    BY <1>0, <1>5, <2>2, FoundKept DEF Insert, TypeOK
  <2> QED BY <2>1, <2>2
<1>6. ASSUME NEW t \in Requests, Share(t) PROVE Found(u)'
  <2>1. CASE u = t
    BY <1>0, <1>6, <2>1 DEF Share, Found, Edits, Inserted, KindInv, TypeOK
  <2>2. CASE u # t
    BY <1>0, <1>6, <2>2, FoundKept DEF Share, TypeOK
  <2> QED BY <2>1, <2>2
<1>7. ASSUME NEW t \in Requests, Commit(t) PROVE Found(u)'
  <2>1. CASE u = t
    BY <1>0, <1>7, <2>1, NothingFound DEF Commit, TypeOK
  <2>2. CASE u # t
    <3>1. pc'[u] = pc[u] /\ change' = change
      BY <1>0, <1>7, <2>2 DEF Commit, TypeOK
    <3>2. ~ (pc[u] \in {"count", "commit"} /\ Edits(u))
      BY <1>0, <1>7, <2>2, EditsUndisturbed DEF Commit
    <3>3. Inserted(u) => access'[change[u].target] = NoRow
      BY <1>7, <2>2, KeyUndisturbed
    <3> QED BY <3>1, <3>2, <3>3 DEF Found, Edits, Inserted
  <2> QED BY <2>1, <2>2
<1>8. CASE UNCHANGED vars
  BY <1>0, <1>8, FoundKept DEF vars
<1> QED BY <1>1, <1>2, <1>3, <1>4, <1>5, <1>6, <1>7, <1>8
        DEF Next, Progress, Quiet

LEMMA KeyStep ==
    ASSUME TypeOK, KindInv, KeyInv, [Next]_vars
    PROVE  KeyInv'
<1> USE DEF TypeOK, KeyInv, Inserted, Answer, Go
<1>1. ASSUME NEW t \in Requests,
             Receive(t) \/ Look(t) \/ Authorise(t) \/ Lock(t) \/ Abort(t)
      PROVE  KeyInv'
  BY <1>1 DEF Receive, Look, Authorise, Lock, Abort
<1>2. ASSUME NEW t \in Requests, Change(t) \/ Count(t)
      PROVE  KeyInv'
  BY <1>2 DEF Change, Count, Refuse, KindInv
<1>3. ASSUME NEW t \in Requests, Insert(t) PROVE KeyInv'
  BY <1>3 DEF Insert, KeyDecided
<1>4. ASSUME NEW t \in Requests, Share(t) \/ Commit(t) PROVE KeyInv'
  BY <1>4 DEF Share, Commit
<1>5. CASE UNCHANGED vars
  BY <1>5 DEF vars
<1> QED BY <1>1, <1>2, <1>3, <1>4, <1>5 DEF Next, Progress, Quiet

-----------------------------------------------------------------------------
(* The deck. *)

(* A commit leaves the deck with a manager and a deleter, or without rows. *)
LEMMA CommitSafe ==
    ASSUME Inv, NEW t \in Requests, Commit(t)
    PROVE  NeverStranded' /\ NoOrphanRow'
<1>1. deck /\ Manageable(access) /\ Found(t)
  BY DEF Inv, LockInv, RowInv, NeverStranded, Commit
<1>2. access' = After(t) /\ change[t] \in ChangeRecords
  BY ChangeType DEF Commit, Active, Inv
<1>3. deck' = (change[t].kind # "delete")
  BY <1>1 DEF Commit
<1>4. CASE Edits(t)
  BY <1>1, <1>2, <1>3, <1>4
     DEF Found, Edits, Commit, NeverStranded, NoOrphanRow, Manageable
<1>5. CASE change[t].kind = "grant"
  <2>1. access[change[t].target] = NoRow
    BY <1>1, <1>5 DEF Found, Inserted, Commit
  <2>2. \A u \in Users : access[u] # NoRow => access'[u] = access[u]
    BY <1>2, <1>5, <2>1 DEF After, Inv, TypeOK
  <2> QED BY <1>1, <1>3, <1>5, <2>2 DEF Manageable, NeverStranded, NoOrphanRow
<1>6. CASE change[t].kind = "reset"
  BY <1>1, <1>2, <1>3, <1>6 DEF After, Manageable, NeverStranded, NoOrphanRow
<1>7. CASE change[t].kind = "delete"
  BY <1>2, <1>3, <1>7 DEF After, NeverStranded, NoOrphanRow
<1> QED BY <1>2, <1>4, <1>5, <1>6, <1>7 DEF Edits, ChangeRecords, Kinds

LEMMA DeckStep ==
    ASSUME Inv, [Next]_vars
    PROVE  NeverStranded' /\ NoOrphanRow'
<1>1. ASSUME UNCHANGED <<deck, access>>
      PROVE  NeverStranded' /\ NoOrphanRow'
  BY <1>1 DEF Inv, NeverStranded, NoOrphanRow, Manageable
<1>2. ASSUME NEW t \in Requests,
             \/ Receive(t) \/ Look(t) \/ Authorise(t) \/ Lock(t) \/ Change(t)
             \/ Count(t) \/ Insert(t) \/ Share(t) \/ Abort(t)
      PROVE  UNCHANGED <<deck, access>>
  BY <1>2 DEF Receive, Look, Authorise, Lock, Change, Count, Insert, Share, Abort
<1>3. ASSUME NEW t \in Requests, Commit(t) PROVE NeverStranded' /\ NoOrphanRow'
  BY <1>3, CommitSafe
<1>4. CASE UNCHANGED vars
  BY <1>1, <1>4 DEF vars
<1> QED BY <1>1, <1>2, <1>3, <1>4 DEF Next, Progress, Quiet

LEMMA InvStep == Inv /\ [Next]_vars => Inv'
<1> SUFFICES ASSUME Inv, [Next]_vars PROVE Inv'
  OBVIOUS
<1>1. TypeOK' /\ KindInv' /\ LockInv' /\ KeyInv'
  BY TypeStep, KindStep, LockStep, KeyStep DEF Inv
<1>2. RowInv'
  BY RowStep
<1>3. NeverStranded' /\ NoOrphanRow'
  BY DeckStep
<1> QED BY <1>1, <1>2, <1>3 DEF Inv

-----------------------------------------------------------------------------
(* Every reachable state is well-typed: flagsFromForm lets no unknown      *)
(* field into a row, and no request stores half a change.                  *)
THEOREM TypeCorrect == Spec => []TypeOK
<1>1. Inv => TypeOK
  BY DEF Inv
<1> QED BY <1>1, InitInv, InvStep, PTL DEF Spec

(* deletion.go:12: whatever grants, edits, revocations, resets and         *)
(* deletions overlap, wait for each other or fail, a deck is never left    *)
(* without a can_manage_access holder or without a can_delete holder.      *)
THEOREM GuardHolds == Spec => []NeverStranded
<1>1. Inv => NeverStranded
  BY DEF Inv
<1> QED BY <1>1, InitInv, InvStep, PTL DEF Spec

(* 00007:12: a grant that races the deletion of its deck leaves no row.    *)
THEOREM DeletionIsComplete == Spec => []NoOrphanRow
<1>1. Inv => NoOrphanRow
  BY DEF Inv
<1> QED BY <1>1, InitInv, InvStep, PTL DEF Spec

(* deck_access.sql:40: no grant ever commits over a row that is there.     *)
THEOREM GrantsAdd == Spec => GrantOnlyAdds
<1>1. Inv /\ [Next]_vars =>
        [\A t \in Requests :
           pc[t] = "commit" /\ pc'[t] = "done" /\ change[t].kind = "grant" =>
             access[change[t].target] = NoRow]_vars
  BY DEF Inv, RowInv, Found, Inserted
<1> QED BY <1>1, InitInv, InvStep, PTL DEF Spec, GrantOnlyAdds
=============================================================================
