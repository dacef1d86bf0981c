----------------------------- MODULE MediaStore -----------------------------
(***************************************************************************)
(* The content-addressed blob store (internal/media/store.go), the two     *)
(* writers that fill it (the .apkg importer's importMedia and the avatar   *)
(* upload of internal/http/settings.go), deck deletion, and the hourly     *)
(* sweep that reclaims what nothing refers to (internal/media/gc.go).      *)
(*                                                                         *)
(* Bytes live in the file system, outside every transaction; rows and      *)
(* references live in Postgres (READ COMMITTED).  A transaction's inserts  *)
(* sit in wrows and wrefs until it commits.  A reference it has inserted   *)
(* holds FOR KEY SHARE on the blob's row, which makes a DELETE of that row *)
(* wait, and a committed one makes it fail (ON DELETE RESTRICT).           *)
(***************************************************************************)
EXTENDS Integers, FiniteSets

CONSTANTS
    Blobs,      \* digests
    Slots,      \* (deck, filename) pairs: the primary key of media_refs
    Decks,      \* decks, as sets of slots
    Users,      \* accounts, whose avatar_sha256 is a reference too
    Uploads,    \* imports and avatar uploads: each runs once
    Bodies,     \* what an upload may carry: sets of [holder, blob]
    Crashes,    \* whether the server may crash and restart
    MaxFaults,  \* bound on failures and crashes
    NoBlob, None    \* sentinels

Holders == Slots \cup Users

ASSUME MediaAssumption ==
    /\ Slots \cap Users = {}
    /\ UNION Decks = Slots
    /\ Bodies \subseteq SUBSET [holder : Holders, blob : Blobs]
    /\ \A body \in Bodies : IsFiniteSet(body)
    /\ Crashes \in BOOLEAN /\ MaxFaults \in Nat
    /\ NoBlob \notin Blobs
    /\ None \notin Blobs /\ None \notin [holder : Holders, blob : Blobs]

VARIABLES
    files,      \* per digest: no file, a new one, one past the grace period
    rows,       \* media_blobs
    refs,       \* media_refs and users.avatar_sha256
    pc,         \* where each upload is
    todo,       \* the files of its package still to store
    item,       \* the one being stored
    wrows, wrefs,   \* its uncommitted inserts
    wrote,      \* the digests whose file it wrote itself
    gc,         \* where the sweep is
    doomed,     \* what it decided to unlink
    dropping,   \* the digest unlinked whose row goes next
    candidates, \* old files the walk found
    faults,     \* failures so far
    novel,      \* history: digests that only this upload ever put
    overlapped, \* history: digests a sweep decided on while an upload had them
    settled     \* history: references committed by an upload of a novel digest

uploads == <<pc, todo, item, wrows, wrefs, wrote, novel>>
sweep == <<gc, doomed, dropping, candidates>>
history == <<overlapped, settled>>
vars == <<files, rows, refs, uploads, sweep, faults, history>>

InFlight(t) == pc[t] \notin {"idle", "done", "failed"}

(* From Put of b to the end of the upload. *)
Holding(t, b) ==
    /\ InFlight(t)
    /\ \/ b \in wrote[t] \cup wrows[t]
       \/ \E w \in wrefs[t] : w.blob = b
       \/ pc[t] \in {"row", "ref"} /\ item[t].blob = b

Referenced(b) == \E h \in Holders : refs[h] = b

-----------------------------------------------------------------------------
Init ==
    /\ files = [b \in Blobs |-> "none"]
    /\ rows = {} /\ refs = [h \in Holders |-> NoBlob]
    /\ pc = [t \in Uploads |-> "idle"]
    /\ todo = [t \in Uploads |-> {}] /\ item = [t \in Uploads |-> None]
    /\ wrows = [t \in Uploads |-> {}] /\ wrefs = [t \in Uploads |-> {}]
    /\ wrote = [t \in Uploads |-> {}]
    /\ gc = "idle" /\ doomed = {} /\ dropping = NoBlob /\ candidates = {}
    /\ faults = 0
    /\ novel = [t \in Uploads |-> {}] /\ overlapped = {} /\ settled = {}

Upload(t) ==
    /\ pc[t] = "idle"
    /\ \E body \in Bodies : todo' = [todo EXCEPT ![t] = body]
    /\ pc' = [pc EXCEPT ![t] = "put"]
    /\ UNCHANGED <<files, rows, refs, item, wrows, wrefs, wrote, novel, sweep,
                   faults, history>>

(* Neither stored nor being stored. *)
Unknown(b) == /\ files[b] = "none" /\ b \notin rows
              /\ \A u \in Uploads : ~ Holding(u, b)

(* Put finds the file, or writes it under a temporary name and renames it. *)
(* The row is not looked at; a file that is found keeps its mtime.         *)
Put(t) ==
    /\ pc[t] = "put"
    /\ \E w \in todo[t] :
         /\ item' = [item EXCEPT ![t] = w]
         /\ todo' = [todo EXCEPT ![t] = @ \ {w}]
         /\ IF files[w.blob] # "none"
            THEN UNCHANGED <<files, wrote>>
            ELSE /\ files' = [files EXCEPT ![w.blob] = "new"]
                 /\ wrote' = [wrote EXCEPT ![t] = @ \cup {w.blob}]
         /\ novel' = [u \in Uploads |->
                        IF u = t /\ Unknown(w.blob) THEN novel[u] \cup {w.blob}
                        ELSE IF u = t THEN novel[u] ELSE novel[u] \ {w.blob}]
         /\ overlapped' =
              {b \in overlapped : b # w.blob \/ files[b] # "none"}
                \cup (doomed \cap {w.blob})
    /\ pc' = [pc EXCEPT ![t] = "row"]
    /\ UNCHANGED <<rows, refs, wrows, wrefs, sweep, faults, settled>>

(* CreateMediaBlob: ON CONFLICT DO NOTHING, after waiting for an insert of *)
(* the same row to be decided.                                             *)
CreateMediaBlob(t) ==
    LET b == item[t].blob
    IN /\ pc[t] = "row"
       /\ \A u \in Uploads \ {t} : b \notin wrows[u]
       /\ wrows' = [wrows EXCEPT ![t] = IF b \in rows THEN @ ELSE @ \cup {b}]
       /\ pc' = [pc EXCEPT ![t] = "ref"]
       /\ UNCHANGED <<files, rows, refs, todo, item, wrefs, wrote, novel, sweep,
                      faults, history>>

(* MUTANT: the foreign key is not enforced. *)
ParentAnyway(t, b) == TRUE

(* The parent row as the foreign key sees it. *)
Parent(t, b) == b \in rows \cup wrows[t]

(* CreateMediaRef keeps the first reference a filename ever got; an avatar *)
(* is overwritten.  Either waits for an uncommitted write of the same row. *)
Refer(t) ==
    LET w == item[t]
        taken == \/ refs[w.holder] # NoBlob
                 \/ \E x \in wrefs[t] : x.holder = w.holder
        kept == w.holder \in Slots /\ taken
    IN /\ pc[t] = "ref"
       /\ \A u \in Uploads \ {t} : \A x \in wrefs[u] : x.holder # w.holder
       /\ kept \/ Parent(t, w.blob)
       /\ wrefs' = [wrefs EXCEPT ![t] = IF kept THEN @ ELSE
                      {x \in @ : x.holder # w.holder} \cup {w}]
       /\ pc' = [pc EXCEPT ![t] = IF todo[t] = {} THEN "commit" ELSE "put"]
       /\ UNCHANGED <<files, rows, refs, todo, item, wrows, wrote, novel, sweep,
                      faults, history>>

(* The end of an upload: only its files outlive a rollback. *)
End(t, status) ==
    /\ pc' = [pc EXCEPT ![t] = status]
    /\ todo' = [todo EXCEPT ![t] = {}]
    /\ item' = [item EXCEPT ![t] = None]
    /\ wrows' = [wrows EXCEPT ![t] = {}]
    /\ wrefs' = [wrefs EXCEPT ![t] = {}]
    /\ wrote' = [wrote EXCEPT ![t] = {}]
    /\ novel' = [novel EXCEPT ![t] = {}]

Commit(t) ==
    LET At(h) == {w \in wrefs[t] : w.holder = h}
    IN /\ pc[t] = "commit"
       /\ rows' = rows \cup wrows[t]
       /\ refs' = [h \in Holders |->
                     IF At(h) = {} THEN refs[h]
                     ELSE (CHOOSE w \in At(h) : TRUE).blob]
       /\ settled' = {h \in Holders : IF At(h) = {} THEN h \in settled
                                      ELSE refs'[h] \in novel[t]}
       /\ End(t, "done")
       /\ UNCHANGED <<files, sweep, faults, overlapped>>

(* The foreign key refuses the reference and the upload rolls back. *)
Orphaned(t) ==
    /\ pc[t] = "ref"
    /\ ~ Parent(t, item[t].blob)
    /\ item[t].holder \in Slots =>
         /\ refs[item[t].holder] = NoBlob
         /\ \A x \in wrefs[t] : x.holder # item[t].holder
    /\ End(t, "failed")
    /\ UNCHANGED <<files, rows, refs, sweep, faults, history>>

(* Any statement fails, or importTimeout runs out. *)
Abort(t) ==
    /\ InFlight(t) /\ faults < MaxFaults
    /\ faults' = faults + 1
    /\ End(t, "failed")
    /\ UNCHANGED <<files, rows, refs, sweep, history>>

(* t waits for what u has inserted. *)
WaitsFor(t, u) ==
    /\ t # u
    /\ \/ pc[t] = "row" /\ item[t].blob \in wrows[u]
       \/ pc[t] = "ref" /\ \E x \in wrefs[u] : x.holder = item[t].holder

(* Packages that share files in another order wait for each other: Postgres *)
(* finds the deadlock and fails one of them.                                *)
Victim(t) ==
    /\ \E waiting \in SUBSET Uploads :
         /\ t \in waiting
         /\ \A u \in waiting : \E v \in waiting : WaitsFor(u, v)
    /\ End(t, "failed")
    /\ UNCHANGED <<files, rows, refs, sweep, faults, history>>

(* media_refs cascade with their deck.  An import that files cards in the  *)
(* deck holds the deck's row, and the delete waits for it.                 *)
DeleteDeck(deck) ==
    /\ \E h \in deck : refs[h] # NoBlob
    /\ \A t \in Uploads : InFlight(t) =>
         \A w \in todo[t] \cup wrefs[t] \cup ({item[t]} \ {None}) :
            w.holder \notin deck
    /\ refs' = [h \in Holders |-> IF h \in deck THEN NoBlob ELSE refs[h]]
    /\ settled' = settled \ deck
    /\ UNCHANGED <<files, rows, uploads, sweep, faults, overlapped>>

(* MUTANT: a file counts as old at once. *)
OldEnoughAlways(b) == TRUE

(* The grace period is far longer than an import can last. *)
OldEnough(b) == \A t \in Uploads : b \notin wrote[t]

Age(b) ==
    /\ files[b] = "new" /\ OldEnough(b)
    /\ files' = [files EXCEPT ![b] = "old"]
    /\ UNCHANGED <<rows, refs, uploads, sweep, faults, history>>

-----------------------------------------------------------------------------
(* The sweep: one goroutine, ticking for ever. *)

(* MUTANT: avatars are not looked at. *)
UnreferencedSlotsOnly == {b \in rows : \A h \in Slots : refs[h] # b}

(* ListUnreferencedMediaBlobs, over what is committed. *)
Unreferenced == {b \in rows : ~ Referenced(b)}

InHand(blobs) == {b \in blobs : \E t \in Uploads : Holding(t, b)}

ListUnreferenced ==
    /\ gc = "idle"
    /\ doomed' = Unreferenced
    /\ overlapped' = overlapped \cup InHand(Unreferenced)
    /\ gc' = "rows"
    /\ UNCHANGED <<files, rows, refs, uploads, dropping, candidates, faults,
                   settled>>

(* The file goes first ... *)
UnlinkRow(b) ==
    /\ gc = "rows" /\ dropping = NoBlob
    /\ b \in doomed
    /\ files' = [files EXCEPT ![b] = "none"]
    /\ doomed' = doomed \ {b}
    /\ dropping' = b
    /\ UNCHANGED <<rows, refs, uploads, gc, candidates, faults, history>>

(* MUTANT: the row is left to a cascade that does not exist. *)
DroppedNever(b) == rows

(* ... then DeleteMediaBlob; RESTRICT spares a row referenced meanwhile. *)
Dropped(b) == IF Referenced(b) THEN rows ELSE rows \ {b}

DropRow ==
    /\ gc = "rows" /\ dropping # NoBlob
    /\ \A t \in Uploads : \A w \in wrefs[t] : w.blob # dropping
    /\ rows' = Dropped(dropping)
    /\ dropping' = NoBlob
    /\ UNCHANGED <<files, refs, uploads, gc, doomed, candidates, faults, history>>

(* os.Remove or the DELETE fails: logged, and found again by the next sweep. *)
SweepFails ==
    /\ gc \in {"rows", "files"} /\ faults < MaxFaults
    /\ faults' = faults + 1
    /\ \/ dropping # NoBlob /\ dropping' = NoBlob /\ UNCHANGED doomed
       \/ /\ dropping = NoBlob /\ UNCHANGED dropping
          /\ \E b \in doomed : doomed' = doomed \ {b}
    /\ UNCHANGED <<files, rows, refs, uploads, gc, candidates, history>>

(* Walk: the files past the grace period. *)
Walk ==
    /\ gc = "rows" /\ doomed = {} /\ dropping = NoBlob
    /\ candidates' = {b \in Blobs : files[b] = "old"}
    /\ gc' = "walked"
    /\ UNCHANGED <<files, rows, refs, uploads, doomed, dropping, faults, history>>

(* ListExistingMediaBlobs: those of them without a row. *)
ListExisting ==
    /\ gc = "walked"
    /\ doomed' = candidates \ rows
    /\ overlapped' = overlapped \cup InHand(candidates \ rows)
    /\ candidates' = {}
    /\ gc' = "files"
    /\ UNCHANGED <<files, rows, refs, uploads, dropping, faults, settled>>

UnlinkOrphan(b) ==
    /\ gc = "files"
    /\ b \in doomed
    /\ files' = [files EXCEPT ![b] = "none"]
    /\ doomed' = doomed \ {b}
    /\ UNCHANGED <<rows, refs, uploads, gc, dropping, candidates, faults, history>>

Tick ==
    /\ gc = "files" /\ doomed = {}
    /\ gc' = "idle"
    /\ UNCHANGED <<files, rows, refs, uploads, doomed, dropping, candidates,
                   faults, history>>

(* The server dies: transactions roll back, the sweep starts afresh. *)
Crash ==
    /\ Crashes /\ faults < MaxFaults
    /\ faults' = faults + 1
    /\ pc' = [t \in Uploads |-> IF InFlight(t) THEN "failed" ELSE pc[t]]
    /\ todo' = [t \in Uploads |-> {}] /\ item' = [t \in Uploads |-> None]
    /\ wrows' = [t \in Uploads |-> {}] /\ wrefs' = [t \in Uploads |-> {}]
    /\ wrote' = [t \in Uploads |-> {}] /\ novel' = [t \in Uploads |-> {}]
    /\ gc' = "idle" /\ doomed' = {} /\ dropping' = NoBlob /\ candidates' = {}
    /\ UNCHANGED <<files, rows, refs, history>>

-----------------------------------------------------------------------------
UploadStep(t) == \/ Put(t) \/ CreateMediaBlob(t) \/ Refer(t)
                 \/ Commit(t) \/ Orphaned(t)

SweepStep == \/ ListUnreferenced \/ DropRow \/ Walk \/ ListExisting \/ Tick
             \/ \E b \in Blobs : UnlinkRow(b) \/ UnlinkOrphan(b)

Next ==
    \/ \E t \in Uploads : Upload(t) \/ UploadStep(t) \/ Victim(t) \/ Abort(t)
    \/ \E deck \in Decks : DeleteDeck(deck)
    \/ \E b \in Blobs : Age(b)
    \/ SweepStep \/ SweepFails \/ Crash

Spec == Init /\ [][Next]_vars

(* Handlers run, Postgres breaks deadlocks, the ticker ticks, time passes. *)
FairSpec ==
    /\ Spec
    /\ \A t \in Uploads : WF_vars(UploadStep(t) \/ Victim(t))
    /\ \A b \in Blobs : WF_vars(Age(b))
    /\ WF_vars(SweepStep)
-----------------------------------------------------------------------------
TypeOK ==
    /\ files \in [Blobs -> {"none", "new", "old"}]
    /\ rows \subseteq Blobs /\ refs \in [Holders -> Blobs \cup {NoBlob}]
    /\ pc \in [Uploads -> {"idle", "put", "row", "ref", "commit", "done",
                           "failed"}]
    /\ todo \in [Uploads -> SUBSET [holder : Holders, blob : Blobs]]
    /\ item \in [Uploads -> [holder : Holders, blob : Blobs] \cup {None}]
    /\ wrows \in [Uploads -> SUBSET Blobs]
    /\ wrefs \in [Uploads -> SUBSET [holder : Holders, blob : Blobs]]
    /\ wrote \in [Uploads -> SUBSET Blobs] /\ novel \in [Uploads -> SUBSET Blobs]
    /\ gc \in {"idle", "rows", "walked", "files"}
    /\ doomed \subseteq Blobs /\ dropping \in Blobs \cup {NoBlob}
    /\ candidates \subseteq Blobs
    /\ faults \in 0..MaxFaults
    /\ overlapped \subseteq Blobs /\ settled \subseteq Holders

(* A reference never outlives its row: the unlink-then-delete order and    *)
(* the RESTRICT that spares a row re-referenced in mid-sweep.              *)
EveryRefHasRow == \A h \in Holders : refs[h] # NoBlob => refs[h] \in rows

(* A deck or an avatar loses its bytes only to a sweep that was decided on *)
(* the blob while the upload that stored the reference held it.            *)
LossNeedsOverlap ==
    \A h \in Holders :
        refs[h] # NoBlob /\ files[refs[h]] = "none" => refs[h] \in overlapped

(* gc.go, the grace period: content the store did not know when it was     *)
(* put, and that no other upload put before its reference was committed,   *)
(* keeps its bytes, whatever sweeps ran while its import was in flight.    *)
NovelContentIsSafe == \A h \in settled : files[refs[h]] # "none"

Garbage(b) ==
    /\ b \in rows \/ files[b] # "none"
    /\ ~ Referenced(b)
    /\ \A t \in Uploads : ~ Holding(t, b)

(* Both orphan classes are found again by every sweep until they are gone. *)
GarbageIsCollected == \A b \in Blobs : Garbage(b) ~> ~ Garbage(b)

-----------------------------------------------------------------------------
(* What the source says, and the code does not do. *)

(* gc.go:66, the import "hits the missing parent instead and rolls the     *)
(* whole import back", or its reference is "skipped, re-listed": no row    *)
(* that a deck refers to is ever stranded without its bytes.               *)
NoRowIsStranded == \A h \in Slots : refs[h] # NoBlob => files[refs[h]] # "none"

(* settings.go:343, one transaction "so the GC sweep never observes the    *)
(* blob row committed but not yet referenced", stranding the avatar.       *)
NoAvatarIsStranded ==
    \A u \in Users : refs[u] # NoBlob => files[refs[u]] # "none"

(* media_blobs.sql:15, "a deck delete is the only thing that strands a row". *)
OnlyDeckDeleteStrands ==
    [][\/ Unreferenced' \subseteq Unreferenced
       \/ \E deck \in Decks : DeleteDeck(deck)]_vars
=============================================================================
