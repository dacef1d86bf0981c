-------------------------- MODULE MediaStoreProofs --------------------------
(***************************************************************************)
(* Proofs about MediaStore, for any blobs, decks, accounts, uploads and    *)
(* packages and any number of failures.  The sweep takes no lock and the   *)
(* files are outside every transaction, so what is safe rests on three     *)
(* things: the foreign key, which keeps a row under every reference; the   *)
(* order of the sweep, which unlinks first, drops the row next, and looks  *)
(* for rows again before it unlinks an old file; and the grace period,     *)
(* which keeps a file from being old while the upload that wrote it runs.  *)
(***************************************************************************)
EXTENDS MediaStore, TLAPS

(* An upload that is not running has nothing; one that has put a file      *)
(* knows which.                                                            *)
UploadInv ==
    \A t \in Uploads :
        /\ ~ InFlight(t) => /\ wrows[t] = {} /\ wrefs[t] = {}
                            /\ wrote[t] = {} /\ novel[t] = {}
        /\ pc[t] \in {"row", "ref"} => item[t] # None

(* The foreign key, inside a transaction. *)
ParentInv ==
    \A t \in Uploads : \A w \in wrefs[t] : w.blob \in rows \cup wrows[t]

Attached(b) == Referenced(b) \/ \E t \in Uploads : Holding(t, b)

(* What is referred to, or about to be, is without its file, or doomed to  *)
(* be, only through an overlap.                                            *)
OverlapInv ==
    \A b \in Blobs :
        Attached(b) /\ (b \in doomed \/ files[b] = "none") => b \in overlapped

(* What the sweep is about to unlink: in its first half blobs with a row,  *)
(* in its second half old files.                                           *)
SweepInv ==
    /\ gc \in {"idle", "walked"} => doomed = {}
    /\ gc = "rows" => doomed \subseteq rows /\ dropping \notin doomed
    /\ gc # "rows" => dropping = NoBlob
    /\ gc = "files" => \A b \in doomed : files[b] = "old"
    /\ gc = "walked" => \A b \in candidates : files[b] = "old"

(* Content that only t ever put: t wrote the file, which cannot be old     *)
(* yet, and no one else can have given it a row.                           *)
NovelInv ==
    \A t \in Uploads : \A b \in novel[t] :
        /\ files[b] = "new" /\ b \in wrote[t] /\ b \notin rows
        /\ \A u \in Uploads \ {t} : ~ Holding(u, b)

(* Once its reference is committed no sweep can choose it. *)
SettledInv ==
    \A h \in settled :
        refs[h] # NoBlob /\ files[refs[h]] # "none" /\ refs[h] \notin doomed

Inv == /\ TypeOK /\ UploadInv /\ ParentInv /\ EveryRefHasRow /\ OverlapInv
       /\ SweepInv /\ NovelInv /\ SettledInv
-----------------------------------------------------------------------------
(* Types. *)

LEMMA InitInv == Init => Inv
<1> SUFFICES ASSUME Init PROVE Inv
  OBVIOUS
<1> USE DEF Init
<1>1. TypeOK
  BY MediaAssumption DEF TypeOK
<1>2. UploadInv /\ ParentInv /\ EveryRefHasRow
  BY DEF UploadInv, ParentInv, EveryRefHasRow, InFlight
<1>3. OverlapInv
  BY MediaAssumption DEF OverlapInv, Attached, Referenced, Holding, InFlight
<1>4. SweepInv /\ NovelInv /\ SettledInv
  BY DEF SweepInv, NovelInv, SettledInv
<1> QED BY <1>1, <1>2, <1>3, <1>4 DEF Inv

(* The end of an upload leaves its variables empty. *)
LEMMA EndType ==
    ASSUME TypeOK, NEW t \in Uploads, NEW s \in {"done", "failed"}, End(t, s)
    PROVE  /\ pc' \in [Uploads -> {"idle", "put", "row", "ref", "commit", "done",
                                   "failed"}]
           /\ todo' \in [Uploads -> SUBSET [holder : Holders, blob : Blobs]]
           /\ item' \in [Uploads -> [holder : Holders, blob : Blobs] \cup {None}]
           /\ wrows' \in [Uploads -> SUBSET Blobs]
           /\ wrefs' \in [Uploads -> SUBSET [holder : Holders, blob : Blobs]]
           /\ wrote' \in [Uploads -> SUBSET Blobs]
           /\ novel' \in [Uploads -> SUBSET Blobs]
  BY DEF TypeOK, End

LEMMA TypeStep ==
    ASSUME TypeOK, UploadInv, [Next]_vars
    PROVE  TypeOK'
<1> USE DEF TypeOK
<1>1. ASSUME NEW t \in Uploads, Upload(t) PROVE TypeOK'
  BY <1>1, MediaAssumption DEF Upload, sweep, history
<1>2. ASSUME NEW t \in Uploads, Put(t) PROVE TypeOK'
  BY <1>2 DEF Put, sweep
<1>3. ASSUME NEW t \in Uploads, CreateMediaBlob(t) PROVE TypeOK'
  <2>1. item[t].blob \in Blobs
    BY <1>3 DEF CreateMediaBlob, UploadInv
  <2> QED BY <1>3, <2>1 DEF CreateMediaBlob, sweep, history
<1>4. ASSUME NEW t \in Uploads, Refer(t) PROVE TypeOK'
  <2>1. item[t] \in [holder : Holders, blob : Blobs]
    BY <1>4 DEF Refer, UploadInv
  <2> QED BY <1>4, <2>1 DEF Refer, sweep, history
<1>5. ASSUME NEW t \in Uploads, Commit(t) PROVE TypeOK'
  <2> DEFINE At(h) == {w \in wrefs[t] : w.holder = h}
  <2>1. ASSUME NEW h \in Holders, At(h) # {}
        PROVE  (CHOOSE w \in At(h) : TRUE).blob \in Blobs
    <3>1. (CHOOSE w \in At(h) : TRUE) \in At(h)
      BY <2>1
    <3> QED BY <3>1
  <2>2. refs' \in [Holders -> Blobs \cup {NoBlob}]
    BY <1>5, <2>1 DEF Commit
  <2>3. settled' \subseteq Holders
    BY <1>5 DEF Commit
  <2>4. rows' \subseteq Blobs
    BY <1>5 DEF Commit
  <2> QED BY <1>5, <2>2, <2>3, <2>4, EndType DEF Commit, sweep
<1>6. ASSUME NEW t \in Uploads, Orphaned(t) \/ Victim(t) \/ Abort(t)
      PROVE  TypeOK'
  <2>1. faults' \in 0..MaxFaults
    BY <1>6, MediaAssumption DEF Orphaned, Victim, Abort
  <2> QED BY <1>6, <2>1, EndType DEF Orphaned, Victim, Abort, sweep, history
<1>7. ASSUME NEW deck \in Decks, DeleteDeck(deck) PROVE TypeOK'
  BY <1>7 DEF DeleteDeck, uploads, sweep
<1>8. ASSUME NEW b \in Blobs, Age(b) \/ UnlinkRow(b) \/ UnlinkOrphan(b)
      PROVE  TypeOK'
  BY <1>8 DEF Age, UnlinkRow, UnlinkOrphan, uploads, sweep, history
<1>9. CASE ListUnreferenced \/ ListExisting
  BY <1>9 DEF ListUnreferenced, ListExisting, Unreferenced, InHand, uploads
<1>10. CASE DropRow \/ Walk \/ Tick
  BY <1>10 DEF DropRow, Dropped, Walk, Tick, uploads, history
<1>11. CASE SweepFails
  BY <1>11, MediaAssumption DEF SweepFails, uploads, history
<1>12. CASE Crash
  BY <1>12, MediaAssumption DEF Crash, history
<1>13. CASE UNCHANGED vars
  BY <1>13 DEF vars, uploads, sweep, history
<1> QED BY <1>1, <1>2, <1>3, <1>4, <1>5, <1>6, <1>7, <1>8, <1>9, <1>10, <1>11,
           <1>12, <1>13 DEF Next, UploadStep, SweepStep

(* What Put does with the file it takes. *)
PutFile(t, w) ==
    /\ item' = [item EXCEPT ![t] = w]
    /\ \/ files[w.blob] # "none" /\ UNCHANGED <<files, wrote>>
       \/ /\ files[w.blob] = "none"
          /\ files' = [files EXCEPT ![w.blob] = "new"]
          /\ wrote' = [wrote EXCEPT ![t] = @ \cup {w.blob}]
    /\ \A u \in Uploads \ {t} : novel'[u] = novel[u] \ {w.blob}
    /\ novel'[t] = IF Unknown(w.blob) THEN novel[t] \cup {w.blob} ELSE novel[t]
    /\ overlapped' = {b \in overlapped : b # w.blob \/ files[b] # "none"}
                        \cup (doomed \cap {w.blob})

LEMMA PutIsPutFile ==
    ASSUME TypeOK, NEW t \in Uploads, Put(t)
    PROVE  \E w \in todo[t] : PutFile(t, w)
<1> USE DEF TypeOK
<1> PICK w \in todo[t] :
      /\ item' = [item EXCEPT ![t] = w]
      /\ todo' = [todo EXCEPT ![t] = @ \ {w}]
      /\ IF files[w.blob] # "none"
         THEN UNCHANGED <<files, wrote>>
         ELSE /\ files' = [files EXCEPT ![w.blob] = "new"]
              /\ wrote' = [wrote EXCEPT ![t] = @ \cup {w.blob}]
      /\ novel' = [u \in Uploads |->
                     IF u = t /\ Unknown(w.blob) THEN novel[u] \cup {w.blob}
                     ELSE IF u = t THEN novel[u] ELSE novel[u] \ {w.blob}]
      /\ overlapped' = {b \in overlapped : b # w.blob \/ files[b] # "none"}
                          \cup (doomed \cap {w.blob})
  BY Zenon DEF Put
<1> QED BY DEF PutFile

(* What an upload has, and what it no longer has when it ends. *)
LEMMA UploadInvStep ==
    ASSUME TypeOK, UploadInv, [Next]_vars
    PROVE  UploadInv'
<1> USE DEF TypeOK, UploadInv, InFlight
<1>1. ASSUME NEW t \in Uploads, Upload(t) PROVE UploadInv'
  BY <1>1 DEF Upload
<1>2. ASSUME NEW t \in Uploads, Put(t) PROVE UploadInv'
  <2> PICK w \in todo[t] : PutFile(t, w)
    BY <1>2, PutIsPutFile
  <2>1. w # None
    BY MediaAssumption
  <2> QED BY <1>2, <2>1 DEF Put, PutFile
<1>3. ASSUME NEW t \in Uploads, CreateMediaBlob(t) \/ Refer(t) PROVE UploadInv'
  BY <1>3 DEF CreateMediaBlob, Refer
<1>4. ASSUME NEW t \in Uploads, NEW s \in {"done", "failed"}, End(t, s)
      PROVE  UploadInv'
  BY <1>4 DEF End
<1>5. CASE Crash
  BY <1>5 DEF Crash
<1>6. CASE UNCHANGED uploads
  BY <1>6 DEF uploads
<1> QED BY <1>1, <1>2, <1>3, <1>4, <1>5, <1>6
        DEF Next, UploadStep, SweepStep, SweepFails, Commit, Orphaned, Victim,
            Abort, DeleteDeck, Age, ListUnreferenced, UnlinkRow, DropRow, Walk,
            ListExisting, UnlinkOrphan, Tick, vars
-----------------------------------------------------------------------------
(* Who has a blob in hand. *)

(* A reference not yet committed is one. *)
LEMMA WrittenIsHeld ==
    ASSUME UploadInv, NEW t \in Uploads,
           NEW b, b \in wrows[t] \/ \E w \in wrefs[t] : w.blob = b
    PROVE  Holding(t, b)
  BY DEF UploadInv, Holding

(* Put takes one in hand ... *)
LEMMA HoldingPut ==
    ASSUME TypeOK, NEW t \in Uploads, NEW w \in todo[t], Put(t), PutFile(t, w),
           NEW u \in Uploads, NEW b \in Blobs, Holding(u, b)'
    PROVE  Holding(u, b) \/ (u = t /\ b = w.blob)
  BY DEF TypeOK, Put, PutFile, Holding, InFlight

(* ... and nothing else does. *)
LEMMA HoldingQuiet ==
    ASSUME TypeOK, UploadInv, [Next]_vars, ~ \E t \in Uploads : Put(t),
           NEW u \in Uploads, NEW b \in Blobs, Holding(u, b)'
    PROVE  Holding(u, b)
<1> USE DEF TypeOK, UploadInv, Holding, InFlight
<1>1. ASSUME NEW t \in Uploads, Upload(t) PROVE Holding(u, b)
  BY <1>1 DEF Upload
<1>2. ASSUME NEW t \in Uploads, CreateMediaBlob(t) PROVE Holding(u, b)
  BY <1>2 DEF CreateMediaBlob
<1>3. ASSUME NEW t \in Uploads, Refer(t) PROVE Holding(u, b)
  BY <1>3 DEF Refer
<1>4. ASSUME NEW t \in Uploads, NEW s \in {"done", "failed"}, End(t, s)
      PROVE  Holding(u, b)
  BY <1>4 DEF End
<1>5. CASE Crash
  BY <1>5 DEF Crash
<1>6. CASE UNCHANGED uploads
  BY <1>6 DEF uploads
<1> QED BY <1>1, <1>2, <1>3, <1>4, <1>5, <1>6
        DEF Next, UploadStep, SweepStep, SweepFails, Commit, Orphaned, Victim,
            Abort, DeleteDeck, Age, ListUnreferenced, UnlinkRow, DropRow, Walk,
            ListExisting, UnlinkOrphan, Tick, vars

(* A committed reference comes from an upload that has inserted it. *)
LEMMA CommitRefers ==
    ASSUME TypeOK, NEW t \in Uploads, Commit(t), NEW h \in Holders
    PROVE  \/ /\ refs'[h] = refs[h]
              /\ h \in settled' => h \in settled
           \/ /\ \E w \in wrefs[t] : refs'[h] = w.blob
              /\ h \in settled' => refs'[h] \in novel[t]
<1> USE DEF TypeOK
<1> DEFINE At == {w \in wrefs[t] : w.holder = h}
<1>1. /\ refs'[h] = IF At = {} THEN refs[h] ELSE (CHOOSE w \in At : TRUE).blob
      /\ h \in settled' <=> IF At = {} THEN h \in settled ELSE refs'[h] \in novel[t]
  BY DEF Commit
<1>2. CASE At = {}
  BY <1>1, <1>2
<1>3. CASE At # {}
  <2>1. (CHOOSE w \in At : TRUE) \in At
    BY <1>3
  <2> QED BY <1>1, <1>3, <2>1
<1> QED BY <1>2, <1>3

(* No other step refers to anything new. *)
LEMMA RefsQuiet ==
    ASSUME TypeOK, [Next]_vars, ~ \E t \in Uploads : Commit(t), NEW h \in Holders
    PROVE  /\ refs'[h] \in {refs[h], NoBlob}
           /\ h \in settled' => h \in settled /\ refs'[h] = refs[h]
<1>1. ASSUME NEW deck \in Decks, DeleteDeck(deck)
      PROVE  /\ refs'[h] \in {refs[h], NoBlob}
             /\ h \in settled' => h \in settled /\ refs'[h] = refs[h]
  BY <1>1 DEF DeleteDeck, TypeOK
<1>2. CASE UNCHANGED <<refs, settled>>
  BY <1>2
<1> QED BY <1>1, <1>2
        DEF Next, UploadStep, SweepStep, SweepFails, Upload, Put, CreateMediaBlob,
            Refer, Orphaned, Victim, Abort, Age, ListUnreferenced, UnlinkRow,
            DropRow, Walk, ListExisting, UnlinkOrphan, Tick, Crash, vars, history

-----------------------------------------------------------------------------
(* Rows and what refers to them. *)

(* The rows a step leaves: only DropRow takes one away, and then no        *)
(* transaction has inserted a reference to it and none is committed.       *)
LEMMA RowsStep ==
    ASSUME TypeOK, [Next]_vars, NEW b \in rows, b \notin rows'
    PROVE  /\ DropRow /\ b = dropping /\ ~ Referenced(b)
           /\ \A t \in Uploads : \A w \in wrefs[t] : w.blob # b
<1>1. CASE DropRow
  BY <1>1 DEF DropRow, Dropped
<1>2. CASE rows \subseteq rows'
  BY <1>2
<1> QED BY <1>1, <1>2
        DEF Next, UploadStep, SweepStep, SweepFails, Upload, Put, CreateMediaBlob,
            Refer, Commit, Orphaned, Victim, Abort, DeleteDeck, Age,
            ListUnreferenced, UnlinkRow, Walk, ListExisting, UnlinkOrphan, Tick,
            Crash, vars

(* A transaction keeps the parents of its references until it ends. *)
LEMMA ParentStep ==
    ASSUME TypeOK, UploadInv, ParentInv, [Next]_vars
    PROVE  ParentInv'
<1> SUFFICES ASSUME NEW t \in Uploads, NEW w \in wrefs'[t]
             PROVE  w.blob \in rows' \cup wrows'[t]
  BY DEF ParentInv
<1> USE DEF TypeOK
<1>1. CASE Refer(t) /\ w \notin wrefs[t]
  <2>1. w = item[t] /\ UNCHANGED <<rows, wrows>> /\ Parent(t, w.blob)
    <3>1. w = item[t]
      BY <1>1 DEF Refer
    <3>2. ~ (w.holder \in Slots /\ (\/ refs[w.holder] # NoBlob
                                   \/ \E x \in wrefs[t] : x.holder = w.holder))
      BY <1>1, <3>1 DEF Refer
    <3> QED BY <1>1, <3>1, <3>2 DEF Refer
  <2> QED BY <2>1 DEF Parent
<1>2. CASE w \in wrefs[t]
  <2>1. w.blob \in rows \cup wrows[t]
    BY <1>2 DEF ParentInv
  <2>2. w.blob \in rows => w.blob \in rows'
    BY <1>2, RowsStep
  <2>3. w.blob \in wrows[t] => w.blob \in rows' \cup wrows'[t]
    <3>1. ASSUME NEW u \in Uploads, NEW s \in {"done", "failed"}, End(u, s),
                 w.blob \in wrows[t]
          PROVE  w.blob \in wrows'[t]
      BY <3>1 DEF End
    <3>2. ASSUME NEW u \in Uploads, CreateMediaBlob(u)
          PROVE  wrows[t] \subseteq wrows'[t]
      BY <3>2 DEF CreateMediaBlob
    <3>3. ~ Crash
      BY DEF Crash
    <3> QED BY <3>1, <3>2, <3>3
            DEF Next, UploadStep, SweepStep, SweepFails, Upload, Put, Refer,
                Commit, Orphaned, Victim, Abort, DeleteDeck, Age,
                ListUnreferenced, UnlinkRow, DropRow, Walk, ListExisting,
                UnlinkOrphan, Tick, vars, uploads
  <2> QED BY <2>1, <2>2, <2>3
<1>3. ~ Refer(t) => w \in wrefs[t]
  <2>1. ASSUME NEW u \in Uploads \ {t}, Refer(u) PROVE wrefs'[t] = wrefs[t]
    BY <2>1 DEF Refer
  <2>2. ASSUME NEW u \in Uploads, NEW s \in {"done", "failed"}, End(u, s)
        PROVE  wrefs'[t] \subseteq wrefs[t]
    BY <2>2 DEF End
  <2>3. ~ Crash
    BY DEF Crash
  <2> QED BY <2>1, <2>2, <2>3
          DEF Next, UploadStep, SweepStep, SweepFails, Upload, Put,
              CreateMediaBlob, Commit, Orphaned, Victim, Abort, DeleteDeck, Age,
              ListUnreferenced, UnlinkRow, DropRow, Walk, ListExisting,
              UnlinkOrphan, Tick, vars, uploads
<1> QED BY <1>1, <1>2, <1>3

(* The foreign key: no reference is committed without its row. *)
LEMMA RowStep ==
    ASSUME TypeOK, ParentInv, EveryRefHasRow, [Next]_vars
    PROVE  EveryRefHasRow'
<1> SUFFICES ASSUME NEW h \in Holders, refs'[h] # NoBlob
             PROVE  refs'[h] \in rows'
  BY DEF EveryRefHasRow
<1>1. CASE refs'[h] = refs[h]
  BY <1>1, RowsStep DEF EveryRefHasRow, Referenced, TypeOK
<1>2. ASSUME NEW t \in Uploads, Commit(t), NEW w \in wrefs[t], refs'[h] = w.blob
      PROVE  refs'[h] \in rows'
  BY <1>2 DEF ParentInv, Commit
<1> QED BY <1>1, <1>2, RefsQuiet, CommitRefers

-----------------------------------------------------------------------------
(* What the sweep may unlink. *)

(* A file goes only when the sweep has decided on it, a blob is decided on *)
(* only by the two listings, and no overlap is forgotten but by Put.       *)
LEMMA FilesQuiet ==
    ASSUME TypeOK, [Next]_vars, ~ \E t \in Uploads : Put(t),
           ~ ListUnreferenced, ~ ListExisting, NEW b \in Blobs
    PROVE  /\ files'[b] = "none" => files[b] = "none" \/ b \in doomed
           /\ doomed' \subseteq doomed
           /\ overlapped' = overlapped
<1> USE DEF TypeOK, vars, uploads, sweep, history
<1>1. ASSUME NEW c \in Blobs, Age(c) \/ UnlinkRow(c) \/ UnlinkOrphan(c)
      PROVE  /\ files'[b] = "none" => files[b] = "none" \/ b \in doomed
             /\ doomed' \subseteq doomed
             /\ overlapped' = overlapped
  BY <1>1 DEF Age, UnlinkRow, UnlinkOrphan
<1>2. CASE UNCHANGED files /\ doomed' \subseteq doomed /\ overlapped' = overlapped
  BY <1>2
<1> QED BY <1>1, <1>2
        DEF Next, UploadStep, SweepStep, SweepFails, Upload, CreateMediaBlob,
            Refer, Commit, Orphaned, Victim, Abort, DeleteDeck, DropRow, Walk,
            Tick, Crash

(* What is attached after a step was attached before it, or was just put. *)
LEMMA AttachedStep ==
    ASSUME TypeOK, UploadInv, [Next]_vars, ~ \E t \in Uploads : Put(t),
           NEW b \in Blobs, Attached(b)'
    PROVE  Attached(b)
<1>1. CASE \E u \in Uploads : Holding(u, b)'
  BY <1>1, HoldingQuiet DEF Attached
<1>2. ASSUME NEW h \in Holders, refs'[h] = b PROVE Attached(b)
  <2>1. CASE refs[h] = b
    BY <2>1 DEF Attached, Referenced
  <2>2. ASSUME NEW t \in Uploads, Commit(t), NEW w \in wrefs[t], b = w.blob
        PROVE  Attached(b)
    BY <2>2, WrittenIsHeld DEF Attached
  <2> QED BY <1>2, <2>1, <2>2, RefsQuiet, CommitRefers, MediaAssumption
<1> QED BY <1>1, <1>2 DEF Attached, Referenced

LEMMA OverlapStep ==
    ASSUME TypeOK, UploadInv, EveryRefHasRow, OverlapInv, [Next]_vars
    PROVE  OverlapInv'
<1> SUFFICES ASSUME NEW b \in Blobs, Attached(b)',
                    b \in doomed' \/ files'[b] = "none"
             PROVE  b \in overlapped'
  BY DEF OverlapInv
<1>1. ASSUME NEW t \in Uploads, Put(t) PROVE b \in overlapped'
  <2> PICK w \in todo[t] : PutFile(t, w)
    BY <1>1, PutIsPutFile
  <2>0. w.blob \in Blobs /\ doomed' = doomed /\ refs' = refs
    BY <1>1 DEF Put, TypeOK, sweep
  <2>1. CASE b = w.blob
    <3>1. files'[b] # "none"
      BY <2>0, <2>1 DEF PutFile, TypeOK
    <3> QED BY <2>0, <2>1, <3>1 DEF PutFile
  <2>2. CASE b # w.blob
    <3>1. Attached(b)
      BY <1>1, <2>0, <2>2, HoldingPut DEF Attached, Referenced
    <3>2. b \in doomed \/ files[b] = "none"
      BY <2>0, <2>2 DEF PutFile, TypeOK
    <3>3. b \in overlapped
      BY <3>1, <3>2 DEF OverlapInv
    <3> QED BY <2>2, <3>3 DEF PutFile
  <2> QED BY <2>1, <2>2
<1>2. CASE ~ \E t \in Uploads : Put(t)
  <2>0. Attached(b)
    BY <1>2, AttachedStep
  <2>1. ASSUME NEW found, found \in {Unreferenced, candidates \ rows},
               doomed' = found, overlapped' = overlapped \cup InHand(found),
               files' = files
        PROVE  b \in overlapped'
    <3>1. CASE files[b] = "none"
      BY <2>0, <2>1, <3>1 DEF OverlapInv
    <3>2. CASE b \in found
      <4>1. ~ Referenced(b)
        BY <2>1, <3>2, MediaAssumption
           DEF Unreferenced, EveryRefHasRow, Referenced, TypeOK
      <4> QED BY <2>0, <2>1, <3>2, <4>1 DEF Attached, InHand
    <3> QED BY <2>1, <3>1, <3>2
  <2>2. CASE ListUnreferenced \/ ListExisting
    BY <2>1, <2>2 DEF ListUnreferenced, ListExisting
  <2>3. CASE ~ ListUnreferenced /\ ~ ListExisting
    BY <1>2, <2>0, <2>3, FilesQuiet DEF OverlapInv
  <2> QED BY <2>2, <2>3
<1> QED BY <1>1, <1>2

(* Between listing and unlinking: a doomed row stays a row, and an old     *)
(* file an old file, until the sweep itself takes it.                      *)
LEMMA SweepInvStep ==
    ASSUME TypeOK, SweepInv, [Next]_vars
    PROVE  SweepInv'
<1> USE DEF TypeOK, SweepInv
<1>1. ASSUME NEW t \in Uploads, Put(t) PROVE SweepInv'
  <2> PICK w \in todo[t] : PutFile(t, w)
    BY <1>1, PutIsPutFile
  <2> QED BY <1>1 DEF Put, PutFile, sweep
<1>2. ASSUME NEW t \in Uploads, Commit(t) PROVE SweepInv'
  BY <1>2 DEF Commit, sweep
<1>3. ASSUME NEW b \in Blobs, Age(b) PROVE SweepInv'
  BY <1>3 DEF Age, sweep
<1>4. ASSUME NEW b \in Blobs, UnlinkRow(b) \/ UnlinkOrphan(b) PROVE SweepInv'
  BY <1>4 DEF UnlinkRow, UnlinkOrphan
<1>5. CASE ListUnreferenced \/ ListExisting
  BY <1>5, MediaAssumption DEF ListUnreferenced, ListExisting, Unreferenced
<1>6. CASE DropRow \/ Walk \/ Tick
  BY <1>6, MediaAssumption DEF DropRow, Dropped, Walk, Tick
<1>7. CASE SweepFails
  BY <1>7, MediaAssumption DEF SweepFails
<1>8. CASE Crash
  BY <1>8 DEF Crash
<1>9. CASE UNCHANGED <<files, rows, sweep>>
  BY <1>9 DEF sweep
<1> QED BY <1>1, <1>2, <1>3, <1>4, <1>5, <1>6, <1>7, <1>8, <1>9
        DEF Next, UploadStep, SweepStep, Upload, CreateMediaBlob, Refer, Orphaned,
            Victim, Abort, DeleteDeck, vars

(* No sweep has chosen content that only one upload ever put. *)
LEMMA NovelIsNotDoomed ==
    ASSUME TypeOK, SweepInv, NovelInv, NEW t \in Uploads, NEW b \in novel[t]
    PROVE  b \notin doomed
  BY DEF TypeOK, SweepInv, NovelInv

(* What only t ever put is neither old nor a row until t ends. *)
LEMMA NovelQuiet ==
    ASSUME TypeOK, UploadInv, [Next]_vars, ~ \E u \in Uploads : Put(u),
           NEW t \in Uploads, NEW b \in novel'[t]
    PROVE  /\ b \in novel[t]
           /\ wrote'[t] = wrote[t]
           /\ ~ Commit(t)
<1> USE DEF TypeOK, UploadInv, InFlight
<1>1. ASSUME NEW u \in Uploads, NEW s \in {"done", "failed"}, End(u, s)
      PROVE  u # t /\ b \in novel[t] /\ wrote'[t] = wrote[t]
  BY <1>1 DEF End
<1>2. ASSUME Commit(t) PROVE FALSE
  BY <1>2, <1>1 DEF Commit
<1>3. ~ Crash
  BY DEF Crash
<1>4. b \in novel[t] /\ wrote'[t] = wrote[t]
  BY <1>1, <1>3
     DEF Next, UploadStep, SweepStep, SweepFails, Upload, CreateMediaBlob, Refer,
         Commit, Orphaned, Victim, Abort, DeleteDeck, Age, ListUnreferenced,
         UnlinkRow, DropRow, Walk, ListExisting, UnlinkOrphan, Tick, vars, uploads
<1> QED BY <1>2, <1>4

LEMMA NovelStep ==
    ASSUME TypeOK, UploadInv, SweepInv, NovelInv, [Next]_vars
    PROVE  NovelInv'
<1> SUFFICES ASSUME NEW t \in Uploads, NEW b \in novel'[t]
             PROVE  /\ files'[b] = "new" /\ b \in wrote'[t] /\ b \notin rows'
                    /\ \A u \in Uploads \ {t} : ~ Holding(u, b)'
  BY DEF NovelInv
<1>0. b \in Blobs
  BY TypeStep DEF TypeOK
<1>1. ASSUME NEW u \in Uploads, Put(u)
      PROVE  /\ files'[b] = "new" /\ b \in wrote'[t] /\ b \notin rows'
             /\ \A v \in Uploads \ {t} : ~ Holding(v, b)'
  <2> PICK w \in todo[u] : PutFile(u, w)
    BY <1>1, PutIsPutFile
  <2>0. w.blob \in Blobs /\ rows' = rows
    BY <1>1 DEF Put, TypeOK
  <2>1. \/ b \in novel[t] /\ (u # t => b # w.blob)
        \/ u = t /\ b = w.blob /\ Unknown(b)
    BY DEF PutFile
  <2>2. CASE b \in novel[t] /\ (u # t => b # w.blob)
    <3>1. files[b] = "new" /\ b \in wrote[t] /\ b \notin rows
      BY <2>2 DEF NovelInv
    <3>2. files'[b] = "new" /\ b \in wrote'[t]
      BY <2>0, <3>1 DEF PutFile, TypeOK
    <3>3. ASSUME NEW v \in Uploads \ {t}, Holding(v, b)' PROVE FALSE
      <4>1. Holding(v, b)
        BY <1>0, <1>1, <2>2, <3>3, HoldingPut
      <4> QED BY <2>2, <4>1 DEF NovelInv
    <3> QED BY <2>0, <3>1, <3>2, <3>3
  <2>3. CASE u = t /\ b = w.blob /\ Unknown(b)
    <3>1. files[b] = "none" /\ b \notin rows /\ \A v \in Uploads : ~ Holding(v, b)
      BY <2>3 DEF Unknown
    <3>2. files'[b] = "new" /\ b \in wrote'[t]
      BY <1>0, <2>3, <3>1 DEF PutFile, TypeOK
    <3>3. ASSUME NEW v \in Uploads \ {t}, Holding(v, b)' PROVE FALSE
      BY <1>0, <1>1, <2>3, <3>1, <3>3, HoldingPut
    <3> QED BY <2>0, <3>1, <3>2, <3>3
  <2> QED BY <2>1, <2>2, <2>3
<1>2. CASE ~ \E u \in Uploads : Put(u)
  <2>1. b \in novel[t] /\ wrote'[t] = wrote[t] /\ ~ Commit(t)
    BY <1>2, NovelQuiet
  <2>2. /\ files[b] = "new" /\ b \in wrote[t] /\ b \notin rows
        /\ \A u \in Uploads \ {t} : ~ Holding(u, b)
    BY <2>1 DEF NovelInv
  <2>3. \A u \in Uploads \ {t} : ~ Holding(u, b)'
    BY <1>0, <1>2, <2>2, HoldingQuiet
  <2>4. b \notin doomed
    BY <2>1, NovelIsNotDoomed
  <2>5. files'[b] = "new"
    <3>1. ASSUME NEW c \in Blobs, Age(c) \/ UnlinkRow(c) \/ UnlinkOrphan(c)
          PROVE  files'[b] = "new"
      <4>1. c # b
        BY <2>2, <2>4, <3>1 DEF Age, OldEnough, UnlinkRow, UnlinkOrphan
      <4> QED BY <2>2, <3>1, <4>1 DEF Age, UnlinkRow, UnlinkOrphan, TypeOK
    <3>2. CASE UNCHANGED files
      BY <2>2, <3>2
    <3> QED BY <1>2, <3>1, <3>2
            DEF Next, UploadStep, SweepStep, SweepFails, Upload, CreateMediaBlob,
                Refer, Commit, Orphaned, Victim, Abort, DeleteDeck,
                ListUnreferenced, DropRow, Walk, ListExisting, Tick, Crash, vars
  <2>6. b \notin rows'
    <3>1. ASSUME NEW u \in Uploads, Commit(u) PROVE b \notin rows'
      <4>1. u # t /\ b \notin wrows[u]
        BY <2>1, <2>2, <3>1, WrittenIsHeld
      <4> QED BY <2>2, <3>1, <4>1 DEF Commit
    <3>2. CASE rows' \subseteq rows
      BY <2>2, <3>2
    <3> QED BY <1>2, <3>1, <3>2
            DEF Next, UploadStep, SweepStep, SweepFails, Upload, CreateMediaBlob,
                Refer, Orphaned, Victim, Abort, DeleteDeck, Age,
                ListUnreferenced, UnlinkRow, DropRow, Dropped, Walk, ListExisting,
                UnlinkOrphan, Tick, Crash, vars
  <2> QED BY <2>1, <2>2, <2>3, <2>5, <2>6
<1> QED BY <1>1, <1>2

LEMMA SettledStep ==
    ASSUME TypeOK, UploadInv, EveryRefHasRow, SweepInv, NovelInv, SettledInv,
           [Next]_vars
    PROVE  SettledInv'
<1> SUFFICES ASSUME NEW h \in settled'
             PROVE  /\ refs'[h] # NoBlob /\ files'[refs'[h]] # "none"
                    /\ refs'[h] \notin doomed'
  BY DEF SettledInv
<1>0. h \in Holders
  BY TypeStep DEF TypeOK
<1>1. ASSUME NEW t \in Uploads, Commit(t), NEW w \in wrefs[t], refs'[h] = w.blob,
             refs'[h] \in novel[t]
      PROVE  /\ refs'[h] # NoBlob /\ files'[refs'[h]] # "none"
             /\ refs'[h] \notin doomed'
  <2>1. refs'[h] \in Blobs /\ files' = files /\ doomed' = doomed
    BY <1>1 DEF Commit, TypeOK, sweep
  <2>2. files[refs'[h]] = "new" /\ refs'[h] \notin doomed
    BY <1>1, NovelIsNotDoomed DEF NovelInv
  <2> QED BY <2>1, <2>2, MediaAssumption
<1>2. CASE h \in settled /\ refs'[h] = refs[h]
  <2> DEFINE b == refs[h]
  <2>1. b \in Blobs /\ files[b] # "none" /\ b \notin doomed /\ b \in rows
    BY <1>0, <1>2 DEF SettledInv, EveryRefHasRow, TypeOK
  <2>2. ASSUME NEW t \in Uploads, Put(t)
        PROVE  files'[b] # "none" /\ b \notin doomed'
    <3> PICK w \in todo[t] : PutFile(t, w)
      BY <2>2, PutIsPutFile
    <3> QED BY <2>1, <2>2 DEF Put, PutFile, TypeOK, sweep
  <2>3. ASSUME ListUnreferenced \/ ListExisting
        PROVE  files'[b] # "none" /\ b \notin doomed'
    <3>1. b \notin Unreferenced
      BY <1>0 DEF Unreferenced, Referenced
    <3> QED BY <2>1, <2>3, <3>1 DEF ListUnreferenced, ListExisting
  <2>4. ASSUME ~ \E t \in Uploads : Put(t), ~ ListUnreferenced, ~ ListExisting
        PROVE  files'[b] # "none" /\ b \notin doomed'
    BY <2>1, <2>4, FilesQuiet
  <2>5. files'[b] # "none" /\ b \notin doomed'
    BY <2>2, <2>3, <2>4
  <2> QED BY <1>2, <2>1, <2>5, MediaAssumption
<1>3. CASE \E t \in Uploads : Commit(t)
  BY <1>0, <1>1, <1>2, <1>3, CommitRefers
<1>4. CASE ~ \E t \in Uploads : Commit(t)
  BY <1>0, <1>2, <1>4, RefsQuiet
<1> QED BY <1>3, <1>4

-----------------------------------------------------------------------------
(* The inductive invariant. *)
LEMMA Invariance == Spec => []Inv
<1>1. Init => Inv
  BY InitInv
<1>2. Inv /\ [Next]_vars => Inv'
  BY TypeStep, UploadInvStep, ParentStep, RowStep, OverlapStep, SweepInvStep,
     NovelStep, SettledStep DEF Inv
<1> QED BY <1>1, <1>2, PTL DEF Spec

(* Each variable of the store, the uploads and the sweep stays in its      *)
(* range: a blob, a file or a row is never anything but one of these.      *)
THEOREM TypeCorrect == Spec => []TypeOK
<1>1. Inv => TypeOK
  BY DEF Inv
<1> QED BY <1>1, Invariance, PTL

(* media_refs and avatar_sha256 never name a row that is gone: the sweep's *)
(* DELETE waits for references being inserted and spares a row that has    *)
(* one.                                                                    *)
THEOREM RefsHaveRows == Spec => []EveryRefHasRow
<1>1. Inv => EveryRefHasRow
  BY DEF Inv
<1> QED BY <1>1, Invariance, PTL

(* A committed reference without its bytes is the work of a sweep that     *)
(* listed the blob as garbage while the upload was between Put and commit. *)
THEOREM LossIsOverlap == Spec => []LossNeedsOverlap
<1>1. Inv => LossNeedsOverlap
  BY DEF Inv, LossNeedsOverlap, OverlapInv, Attached, Referenced, TypeOK
<1> QED BY <1>1, Invariance, PTL

(* gc.go's grace period does what its comment promises: content new to the *)
(* store when it was put, and put by nobody else meanwhile, keeps its      *)
(* bytes from the commit of its reference until that reference goes.       *)
THEOREM NovelIsSafe == Spec => []NovelContentIsSafe
<1>1. Inv => NovelContentIsSafe
  BY DEF Inv, NovelContentIsSafe, SettledInv
<1> QED BY <1>1, Invariance, PTL
=============================================================================
