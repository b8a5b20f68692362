------------------------------ MODULE NoteSync ------------------------------
(***************************************************************************)
(* The sync engine of CarroNote (packages/core/lib/src/sync/               *)
(* sync_engine.dart) running on several devices against one vault.         *)
(*                                                                         *)
(* Each device keeps an encrypted SQLite table of notes.  A sync round     *)
(* reads the remote manifest and its ETag, snapshots the local rows,       *)
(* merges note by note (a three-way comparison against the state of the    *)
(* last successful sync, then last-writer-wins), transfers blobs, writes   *)
(* the merged manifest back with a compare-and-swap on the ETag and        *)
(* finally records what converged.  The engine is one asynchronous Dart    *)
(* task: at every await the user's own edits, and other devices, run.      *)
(*                                                                         *)
(* A content hash is a number, so hashes are ordered as the tie-break of   *)
(* _resolveConflict needs; 0 is "none".  Every edit makes a new content.   *)
(* Vault keys are fixed here (no dataKey migration, no blob re-upload) and *)
(* blobs are never collected: those are other modules' subjects.           *)
(***************************************************************************)
EXTENDS Naturals, FiniteSets

CONSTANTS
    Device,       \* the devices that share the vault
    Note,         \* note uuids: those in use and those still to be generated
    Seeded,       \* notes every device already has in sync at the start
    SeedContent,  \* the content each seeded note starts with
    MaxContent,   \* bound: contents ever produced by edits and conflict copies
    MaxTime,      \* bound: wall-clock readings (updatedAt)
    MaxOps,       \* bound: user operations
    Windows,      \* the awaits of a sync round in which the user's calls may run
    Faults,       \* what may go wrong, a subset of FaultKinds
    Expiry        \* TRUE: a tombstone may be older than 30 days

States == {"idle", "get", "plan", "merge", "fetch", "write", "settle", "mark", "unpurge"}

Content == 1 .. MaxContent
Hash    == 0 .. MaxContent
Time    == 0 .. MaxTime
Stamp   == 1 .. MaxTime
MaxRetries == 3

\* A blob upload fails after its retries; making a conflict copy fails; the
\* answer to a PUT is lost; the round ends in an exception or with the process.
FaultKinds == {"upload", "copy", "lost", "abort"}

ASSUME BoundsAssumption ==
    MaxContent \in Nat /\ MaxTime \in Nat \ {0} /\ MaxOps \in Nat
ASSUME SeedAssumption ==
    /\ Seeded \subseteq Note
    /\ SeedContent \in [Seeded -> Content]
    /\ \A m, n \in Seeded : SeedContent[m] = SeedContent[n] => m = n
ASSUME WindowsAssumption == Windows \subseteq (States \cup {"editor"})
ASSUME SwitchAssumption == Faults \subseteq FaultKinds /\ Expiry \in BOOLEAN

VARIABLES
    row,      \* row[d][n]: the notes table of device d
    hist,     \* hist[d][n]: contents in the version history of n on d
    purged,   \* purged[d]: sync_meta.purged_uuids
    editor,   \* editor[d][n]: the row as the open editor of n last read it
    manifest, \* the remote manifest's items
    exists,   \* whether the remote manifest exists
    blobs,    \* content hashes whose blob is stored remotely
    pc,       \* pc[d]: where the sync round of d stands
    run,      \* run[d]: the local variables of that round
    etagOk,   \* etagOk[d]: the ETag d read is still the remote one
    tries     \* tries[d]: conflictAttempts of sync()

(* Bookkeeping that the program does not keep.                             *)
VARIABLES
    ops,       \* user operations so far
    used,      \* contents produced so far
    born,      \* uuids generated so far
    seen,      \* seen[c]: the contents c was written on top of
    published, \* <<n, hash>> that some manifest has carried
    erased     \* erased[d]: notes the user of d permanently deleted

local_vars  == <<row, hist, purged>>
remote_vars == <<manifest, exists, blobs>>
aux_vars    == <<ops, used, born, seen, published, erased>>
vars == <<row, hist, purged, editor, manifest, exists, blobs, pc, run, etagOk,
          tries, ops, used, born, seen, published, erased>>

-----------------------------------------------------------------------------
(* Records                                                                 *)

Item == [hash : Hash, deleted : BOOLEAN, at : Time]
NoItem == [hash |-> 0, deleted |-> FALSE, at |-> 0]

Row == [hash : Hash, deleted : BOOLEAN, at : Time, base : Hash, baseDeleted : BOOLEAN]
NoRow == [hash |-> 0, deleted |-> FALSE, at |-> 0, base |-> 0, baseDeleted |-> FALSE]

Present(x) == x.hash # 0
Live(x)    == x.hash # 0 /\ ~x.deleted

AsItem(r) == [hash |-> r.hash, deleted |-> r.deleted, at |-> r.at]

\* A row as storeNote and _downloadNote write it: no base until markSynced.
Unsynced(h, t) ==
    [hash |-> h, deleted |-> FALSE, at |-> t, base |-> 0, baseDeleted |-> FALSE]

Closed == [n \in Note |-> NoRow]  \* no note open in the editor
NoItems == [n \in Note |-> NoItem]

Run == [fresh : BOOLEAN, snap : [Note -> Item], local : [Note -> Item],
        merged : [Note -> Item], psnap : SUBSET Note, todo : SUBSET Note,
        acted : BOOLEAN, failed : SUBSET Note, conv : SUBSET Note,
        cur : SUBSET Note, existing : Row]

IdleRun ==
    [fresh |-> FALSE, snap |-> NoItems, local |-> NoItems, merged |-> NoItems,
     psnap |-> {}, todo |-> {}, acted |-> FALSE, failed |-> {}, conv |-> {},
     cur |-> {}, existing |-> NoRow]

Incorporates(c) == seen[c] \cup {c}

PublishedBy(items) == {<<n, items[n].hash>> : n \in {m \in Note : Present(items[m])}}

-----------------------------------------------------------------------------
(* Initial state: every device holds the seeded notes, in sync; with no    *)
(* seeded note the vault is new and the remote manifest does not exist.    *)

SeedRow(n) ==
    IF n \in Seeded
    THEN [hash |-> SeedContent[n], deleted |-> FALSE, at |-> 1,
          base |-> SeedContent[n], baseDeleted |-> FALSE]
    ELSE NoRow

Init ==
    /\ row = [d \in Device |-> [n \in Note |-> SeedRow(n)]]
    /\ hist = [d \in Device |-> [n \in Note |-> {}]]
    /\ purged = [d \in Device |-> {}]
    /\ editor = [d \in Device |-> Closed]
    /\ manifest = [n \in Note |-> AsItem(SeedRow(n))]
    /\ exists = (Seeded # {})
    /\ blobs = {SeedContent[n] : n \in Seeded}
    /\ pc = [d \in Device |-> "idle"]
    /\ run = [d \in Device |-> IdleRun]
    /\ etagOk = [d \in Device |-> FALSE]
    /\ tries = [d \in Device |-> 0]
    /\ ops = 0
    /\ used = {SeedContent[n] : n \in Seeded}
    /\ born = Seeded
    /\ seen = [c \in Content |-> {}]
    /\ published = PublishedBy(manifest)
    /\ erased = [d \in Device |-> {}]

-----------------------------------------------------------------------------
(* The user's calls.  updatedAt is DateTime.now(), and device clocks are   *)
(* not synchronised, so any stamp may be read.                             *)

\* The user's calls run while the engine awaits; the app shows one screen, so
\* nothing else is done while an editor is open.
InWindow(d) == ops < MaxOps /\ pc[d] \in ({"idle", "get"} \cup Windows)
UserMay(d)  == InWindow(d) /\ editor[d] = Closed

engine_vars == <<manifest, exists, blobs, pc, run, etagOk, tries, published>>

\* Content c now exists; it was written on top of the contents in cs.
Produce(c, cs) ==
    /\ c \in Content \ used
    /\ used' = used \cup {c}
    /\ seen' = [seen EXCEPT ![c] = cs]

\* editor_state.addNote -> storeNote
AddNote(d, n) ==
    /\ UserMay(d)
    /\ n \notin born
    /\ \E c \in Content, t \in Stamp :
         /\ Produce(c, {})
         /\ row' = [row EXCEPT ![d][n] = Unsynced(c, t)]
    /\ born' = born \cup {n}
    /\ ops' = ops + 1
    /\ UNCHANGED <<hist, purged, editor, erased, engine_vars>>

\* editor_state.updateNote: orig is the row as the editor read it.  The base
\* comes from a fresh read (copyWith keeps orig's where that is null), all the
\* rest from orig; the UPDATE by id changes nothing once the row is gone.
Saved(d, n, orig, c, t) ==
    LET fresh == row[d][n] IN
    IF Present(fresh)
    THEN [hash |-> c, deleted |-> orig.deleted, at |-> t,
          base |-> IF fresh.base # 0 THEN fresh.base ELSE orig.base,
          baseDeleted |-> fresh.baseDeleted]
    ELSE NoRow

SaveNote(d, n, orig) ==
    /\ \E c \in Content, t \in Stamp :
         /\ Produce(c, Incorporates(orig.hash))
         /\ row' = [row EXCEPT ![d][n] = Saved(d, n, orig, c, t)]
    /\ hist' = [hist EXCEPT ![d][n] = @ \cup {orig.hash}]
    /\ ops' = ops + 1
    /\ UNCHANGED <<purged, born, erased, engine_vars>>

\* An edit whose opening and saving fall between the same two engine steps.
Edit(d, n) ==
    /\ UserMay(d)
    /\ Live(row[d][n])
    /\ SaveNote(d, n, row[d][n])
    /\ UNCHANGED editor

\* An editor that stays open while the engine takes steps.
OpenEditor(d, n) ==
    /\ "editor" \in Windows
    /\ UserMay(d)
    /\ Live(row[d][n])
    /\ editor' = [editor EXCEPT ![d][n] = row[d][n]]
    /\ UNCHANGED <<row, hist, purged, ops, used, born, seen, erased, engine_vars>>

SaveEditor(d, n) ==
    /\ InWindow(d)
    /\ Present(editor[d][n])
    /\ SaveNote(d, n, editor[d][n])
    /\ editor' = [editor EXCEPT ![d][n] = NoRow]

\* softDelete
SoftDelete(d, n) ==
    /\ UserMay(d)
    /\ Live(row[d][n])
    /\ \E t \in Stamp :
         row' = [row EXCEPT ![d][n].deleted = TRUE, ![d][n].at = t]
    /\ ops' = ops + 1
    /\ UNCHANGED <<hist, purged, editor, used, born, seen, erased, engine_vars>>

\* restoreNote
RestoreNote(d, n) ==
    /\ UserMay(d)
    /\ row[d][n].deleted
    /\ \E t \in Stamp :
         row' = [row EXCEPT ![d][n].deleted = FALSE, ![d][n].at = t]
    /\ ops' = ops + 1
    /\ UNCHANGED <<hist, purged, editor, used, born, seen, erased, engine_vars>>

\* hardDelete, offered only for notes in the recycle bin: the row and its
\* versions go and the uuid is remembered, in one transaction.
HardDelete(d, n) ==
    /\ UserMay(d)
    /\ row[d][n].deleted
    /\ row' = [row EXCEPT ![d][n] = NoRow]
    /\ hist' = [hist EXCEPT ![d][n] = {}]
    /\ purged' = [purged EXCEPT ![d] = @ \cup {n}]
    /\ erased' = [erased EXCEPT ![d] = @ \cup {n}]
    /\ ops' = ops + 1
    /\ UNCHANGED <<editor, used, born, seen, engine_vars>>

-----------------------------------------------------------------------------
(* The sync round.                                                         *)

user_vars == <<editor, ops, used, born, seen, erased>>

Move(d, s, r) ==
    /\ pc' = [pc EXCEPT ![d] = s]
    /\ run' = [run EXCEPT ![d] = r]

\* The round of d is done with uuid n; x goes into the merged manifest.
Handled(r, n, x) ==
    [r EXCEPT !.todo = @ \ {n}, !.merged[n] = x, !.cur = {}, !.existing = NoRow]

\* _syncOnce: GET the manifest with its ETag, then _buildLocalManifest, which
\* hard-deletes the tombstones older than 30 days and snapshots the rest.
Get(d) ==
    /\ pc[d] \in {"idle", "get"}
    /\ \E gone \in SUBSET {n \in Note : row[d][n].deleted} :
         LET kept == [n \in Note |-> IF n \in gone THEN NoRow ELSE row[d][n]] IN
         /\ Expiry \/ gone = {}
         /\ row' = [row EXCEPT ![d] = kept]
         /\ hist' = [hist EXCEPT ![d] = [n \in Note |-> IF n \in gone THEN {} ELSE @[n]]]
         /\ purged' = [purged EXCEPT ![d] = @ \cup gone]
         /\ Move(d, "plan", [IdleRun EXCEPT
                !.fresh = ~exists, !.snap = manifest,
                !.local = [n \in Note |-> AsItem(kept[n])]])
    /\ etagOk' = [etagOk EXCEPT ![d] = TRUE]
    /\ UNCHANGED <<remote_vars, tries, published, user_vars>>

\* A blob upload of row r: a tombstone sends nothing and always succeeds.
Upload(r, ok) ==
    /\ ok \/ ("upload" \in Faults /\ Live(r))
    /\ blobs' = IF ok /\ Live(r) THEN blobs \cup {r.hash} ELSE blobs

\* _mergeAndTransfer with no remote manifest: upload every row as it is now,
\* publish the snapshot without the uuids that are purged or failed to upload.
FirstUpload(d) ==
    LET rs   == {n \in Note : Present(row[d][n])} \ purged[d]
        live == {n \in rs : Live(row[d][n])} IN
    /\ pc[d] = "plan" /\ run[d].fresh
    /\ \E failed \in SUBSET live :
         /\ "upload" \in Faults \/ failed = {}
         /\ blobs' = blobs \cup {row[d][n].hash : n \in live \ failed}
         /\ Move(d, "merge", [run[d] EXCEPT
                !.merged = [n \in Note |-> IF n \in purged[d] \cup failed
                                           THEN NoItem ELSE run[d].local[n]],
                !.failed = failed, !.acted = TRUE])
    /\ UNCHANGED <<local_vars, manifest, exists, etagOk, tries, published, user_vars>>

\* _mergeAndTransfer with a remote manifest: read the purged list, then go
\* through the uuids of either side in any order.
StartMerge(d) ==
    /\ pc[d] = "plan" /\ ~run[d].fresh
    /\ Move(d, "merge", [run[d] EXCEPT
           !.psnap = purged[d],
           !.todo = {n \in Note : Present(run[d].local[n]) \/ Present(run[d].snap[n])}])
    /\ UNCHANGED <<local_vars, remote_vars, etagOk, tries, published, user_vars>>

\* The next uuid of the loop, with its local and remote items.
Merging(d, n) == pc[d] = "merge" /\ n \in run[d].todo
L(d, n) == run[d].local[n]
R(d, n) == run[d].snap[n]

\* A purged uuid that only one side has is dropped.
SkipPurged(d, n) ==
    /\ Merging(d, n)
    /\ n \in run[d].psnap
    /\ ~(Present(L(d, n)) /\ Present(R(d, n)))
    /\ Move(d, "merge", Handled(run[d], n, NoItem))
    /\ UNCHANGED <<local_vars, remote_vars, etagOk, tries, published, user_vars>>

\* _downloadNote is called for n.
StartDownload(d, n) == Move(d, "fetch", [run[d] EXCEPT !.cur = {n}])

\* Mutant of RemoteOnly: the purged list is not consulted.
RemoteOnly_IgnoresPurged(d, n) ==
    /\ Merging(d, n)
    /\ ~Present(L(d, n)) /\ Present(R(d, n))
    /\ StartDownload(d, n)
    /\ UNCHANGED <<local_vars, remote_vars, etagOk, tries, published, user_vars>>

RemoteOnly(d, n) ==
    /\ Merging(d, n)
    /\ n \notin run[d].psnap
    /\ ~Present(L(d, n)) /\ Present(R(d, n))
    /\ StartDownload(d, n)
    /\ UNCHANGED <<local_vars, remote_vars, etagOk, tries, published, user_vars>>

\* Mutant of Send: the new item is published although its upload failed.
Send_PublishesFailed(d, n, r, x, y) ==
    \E ok \in BOOLEAN :
      /\ Upload(r, ok)
      /\ Move(d, "merge", [Handled(run[d], n, x) EXCEPT
             !.acted = @ \/ ok,
             !.failed = IF ok THEN @ ELSE @ \cup {n}])

\* Sending row r as it is now; x is published if that works, y otherwise.
Send(d, n, r, x, y) ==
    \E ok \in BOOLEAN :
      /\ Upload(r, ok)
      /\ Move(d, "merge", [Handled(run[d], n, IF ok THEN x ELSE y) EXCEPT
             !.acted = @ \/ ok,
             !.failed = IF ok THEN @ ELSE @ \cup {n}])

\* The blob is that of the row read now, the item that of the snapshot.
LocalOnly(d, n) ==
    /\ Merging(d, n)
    /\ n \notin run[d].psnap
    /\ Present(L(d, n)) /\ ~Present(R(d, n))
    /\ IF Present(row[d][n])
       THEN Send(d, n, row[d][n], L(d, n), NoItem)
       ELSE Move(d, "merge", Handled(run[d], n, NoItem)) /\ UNCHANGED blobs
    /\ UNCHANGED <<local_vars, manifest, exists, etagOk, tries, published, user_vars>>

ItemsEqual(a, b) == a.hash = b.hash /\ a.deleted = b.deleted

KeepEqual(d, n) ==
    /\ Merging(d, n)
    /\ Present(L(d, n)) /\ Present(R(d, n)) /\ ItemsEqual(L(d, n), R(d, n))
    /\ Move(d, "merge", Handled(run[d], n, L(d, n)))
    /\ UNCHANGED <<local_vars, remote_vars, etagOk, tries, published, user_vars>>

\* The three-way comparison; the base is that of the row as it is now.
Differ(d, n) ==
    Present(L(d, n)) /\ Present(R(d, n)) /\ ~ItemsEqual(L(d, n), R(d, n))
ChangedFrom(x, r) == r.base = 0 \/ x.hash # r.base \/ x.deleted # r.baseDeleted
LocalChanged(d, n)  == ChangedFrom(L(d, n), row[d][n])
RemoteChanged(d, n) == ChangedFrom(R(d, n), row[d][n])

FastForwardLocal(d, n) ==
    /\ Merging(d, n) /\ Differ(d, n)
    /\ LocalChanged(d, n) /\ ~RemoteChanged(d, n)
    /\ Send(d, n, row[d][n], L(d, n), R(d, n))
    /\ UNCHANGED <<local_vars, manifest, exists, etagOk, tries, published, user_vars>>

FastForwardRemote(d, n) ==
    /\ Merging(d, n) /\ Differ(d, n)
    /\ ~LocalChanged(d, n) /\ RemoteChanged(d, n)
    /\ StartDownload(d, n)
    /\ UNCHANGED <<local_vars, remote_vars, etagOk, tries, published, user_vars>>

Conflict(d, n) ==
    Merging(d, n) /\ Differ(d, n) /\ LocalChanged(d, n) /\ RemoteChanged(d, n)

\* _resolveConflict
RemoteWins(a, b) == b.at > a.at \/ (b.at = a.at /\ b.hash < a.hash)

\* Mutant of BothLive: a loser saved in the same millisecond is not kept.
BothLive_NoTies(d, n) ==
    /\ ~L(d, n).deleted /\ ~R(d, n).deleted /\ L(d, n).hash # R(d, n).hash
    /\ L(d, n).at # R(d, n).at

\* shouldPreserveCopy
BothLive(d, n) ==
    ~L(d, n).deleted /\ ~R(d, n).deleted /\ L(d, n).hash # R(d, n).hash

\* _preserveConflictCopy: the losing content h becomes a new note of d, whose
\* upload may fail.  There is no copy with nothing to keep, and none when
\* reading the loser fails, which the caller does not notice.
NoCopy == [note |-> {}, hash |-> 0, at |-> 0, ok |-> FALSE]
Copies(wanted) ==
    IF wanted
    THEN [note : {{m} : m \in Note \ born}, hash : Content \ used, at : Stamp,
          ok : {TRUE} \cup {"upload" \notin Faults}]
         \cup {cp \in {NoCopy} : "copy" \in Faults}
    ELSE {NoCopy}

StoreCopy(d, h, cp) ==
    /\ row' = [row EXCEPT ![d] = [m \in Note |->
                  IF m \in cp.note THEN Unsynced(cp.hash, cp.at) ELSE @[m]]]
    /\ born' = born \cup cp.note
    /\ used' = used \cup {c \in {cp.hash} : c # 0}
    /\ seen' = [c \in Content |-> IF c = cp.hash THEN Incorporates(h) ELSE seen[c]]
    /\ UNCHANGED <<hist, purged>>

WithCopy(r, cp) ==
    [r EXCEPT !.merged = [m \in Note |-> IF m \in cp.note /\ cp.ok
                                         THEN AsItem(Unsynced(cp.hash, cp.at)) ELSE @[m]],
              !.acted = @ \/ cp.ok,
              !.failed = IF cp.ok THEN @ ELSE @ \cup cp.note]

CopyBlob(cp) == IF cp.ok THEN {cp.hash} ELSE {}

\* The remote loser is copied if its blob is there; then the local row is sent.
ConflictLocalWins(d, n) ==
    LET r == row[d][n] IN
    /\ Conflict(d, n) /\ ~RemoteWins(L(d, n), R(d, n))
    /\ Present(r)
    /\ \E cp \in Copies(BothLive(d, n) /\ R(d, n).hash \in blobs), ok \in BOOLEAN :
         /\ StoreCopy(d, R(d, n).hash, cp)
         /\ ok \/ ("upload" \in Faults /\ Live(r))
         /\ blobs' = blobs \cup CopyBlob(cp)
                           \cup (IF ok /\ Live(r) THEN {r.hash} ELSE {})
         /\ Move(d, "merge",
                 [Handled(WithCopy(run[d], cp), n, IF ok THEN L(d, n) ELSE R(d, n))
                  EXCEPT !.acted = @ \/ ok,
                         !.failed = IF ok THEN @ ELSE @ \cup {n}])
    /\ UNCHANGED <<manifest, exists, etagOk, tries, published, editor, ops, erased>>

\* The local side wins but its row was permanently deleted meanwhile: nothing
\* is sent and n leaves the manifest.
ConflictLocalGone(d, n) ==
    /\ Conflict(d, n) /\ ~RemoteWins(L(d, n), R(d, n))
    /\ ~Present(row[d][n])
    /\ \E cp \in Copies(BothLive(d, n) /\ R(d, n).hash \in blobs) :
         /\ StoreCopy(d, R(d, n).hash, cp)
         /\ blobs' = blobs \cup CopyBlob(cp)
         /\ Move(d, "merge", Handled(WithCopy(run[d], cp), n, NoItem))
    /\ UNCHANGED <<manifest, exists, etagOk, tries, published, editor, ops, erased>>

\* The local loser, as the row is now, is copied; then the remote is fetched.
ConflictRemoteWins(d, n) ==
    LET r == row[d][n] IN
    /\ Conflict(d, n) /\ RemoteWins(L(d, n), R(d, n))
    /\ \E cp \in Copies(BothLive(d, n) /\ Present(r)) :
         /\ StoreCopy(d, r.hash, cp)
         /\ blobs' = blobs \cup CopyBlob(cp)
         /\ Move(d, "fetch", [WithCopy(run[d], cp) EXCEPT !.cur = {n}])
    /\ UNCHANGED <<manifest, exists, etagOk, tries, published, editor, ops, erased>>

-----------------------------------------------------------------------------
(* _downloadNote                                                           *)

Fetching(d, n) == pc[d] = "fetch" /\ n \in run[d].cur

\* Mutant of FetchTombstone: the tombstone is accepted but not applied.
FetchTombstone_NotApplied(d, n) ==
    /\ Fetching(d, n) /\ R(d, n).deleted
    /\ Move(d, "merge", Handled(run[d], n, R(d, n)))
    /\ UNCHANGED <<local_vars, remote_vars, etagOk, tries, published, user_vars>>

\* A remote tombstone concerns only a live local row.
FetchTombstone(d, n) ==
    /\ Fetching(d, n) /\ R(d, n).deleted
    /\ IF Live(row[d][n])
       THEN Move(d, "write", [run[d] EXCEPT !.existing = row[d][n]])
       ELSE Move(d, "merge", Handled(run[d], n, R(d, n)))
    /\ UNCHANGED <<local_vars, remote_vars, etagOk, tries, published, user_vars>>

\* The blob is missing: a live local row with that content is uploaded again,
\* otherwise the item is kept for a later round.
FetchMissing(d, n) ==
    LET h == R(d, n).hash
        sources == {m \in Note : Live(row[d][m]) /\ row[d][m].hash = h} IN
    /\ Fetching(d, n) /\ ~R(d, n).deleted /\ h \notin blobs
    /\ IF sources = {}
       THEN Move(d, "merge", Handled(run[d], n, R(d, n))) /\ UNCHANGED blobs
       ELSE \E m \in (IF n \in sources THEN {n} ELSE sources) :
              \E ok \in BOOLEAN :
                /\ Upload(row[d][m], ok)
                /\ Move(d, "merge", [Handled(run[d], n, R(d, n)) EXCEPT
                       !.acted = @ \/ ok,
                       !.failed = IF ok THEN @ ELSE @ \cup {m}])
    /\ UNCHANGED <<local_vars, manifest, exists, etagOk, tries, published, user_vars>>

\* Mutant of FetchBlob: no version is saved before the row is overwritten.
FetchBlob_NoVersion(d, n) ==
    /\ Fetching(d, n) /\ ~R(d, n).deleted /\ R(d, n).hash \in blobs
    /\ Move(d, "write", [run[d] EXCEPT !.existing = row[d][n]])
    /\ UNCHANGED <<local_vars, remote_vars, etagOk, tries, published, user_vars>>

\* The blob arrives; the row it replaces is read and goes into the history.
FetchBlob(d, n) ==
    LET r == row[d][n] IN
    /\ Fetching(d, n) /\ ~R(d, n).deleted /\ R(d, n).hash \in blobs
    /\ hist' = IF Live(r) THEN [hist EXCEPT ![d][n] = @ \cup {r.hash}] ELSE hist
    /\ Move(d, "write", [run[d] EXCEPT !.existing = r])
    /\ UNCHANGED <<row, purged, remote_vars, etagOk, tries, published, user_vars>>

\* Mutant of Downloaded: the manifest's item is written, not a whole row.
Downloaded_BareItem(x, existing) == x

\* storeNote for a new row, else updateNoteByUuid, a whole-row UPDATE of what
\* was computed from the row read before (no effect once the row is gone).
Downloaded(x, existing) ==
    IF x.deleted THEN [existing EXCEPT !.deleted = TRUE, !.at = x.at]
                 ELSE Unsynced(x.hash, x.at)

Write(d, n) ==
    LET old == run[d].existing
        new == Downloaded(R(d, n), old) IN
    /\ pc[d] = "write" /\ n \in run[d].cur
    /\ row' = IF Present(old) => Present(row[d][n])
              THEN [row EXCEPT ![d][n] = new] ELSE row
    /\ Move(d, "merge", [Handled(run[d], n, R(d, n)) EXCEPT !.acted = TRUE])
    /\ UNCHANGED <<hist, purged, remote_vars, etagOk, tries, published, user_vars>>

-----------------------------------------------------------------------------
(* The end of the round.                                                   *)

MergeDone(d) == pc[d] = "merge" /\ run[d].todo = {}

\* The merged manifest, without the uuids purged when the merge began.
Final(d) ==
    [n \in Note |-> IF n \in run[d].psnap THEN NoItem ELSE run[d].merged[n]]

\* Mutant of Changed: every round writes the manifest.
Changed_Always(d) == TRUE

\* _hasEffectiveChange
Changed(d) == run[d].fresh \/ run[d].acted \/ Final(d) # run[d].snap

Settling(d) == [IdleRun EXCEPT !.merged = Final(d), !.failed = run[d].failed]

\* PUT with the ETag of the GET; every other reader's ETag becomes stale.
StoreManifest(d) ==
    /\ manifest' = Final(d)
    /\ exists' = TRUE
    /\ published' = published \cup PublishedBy(Final(d))
    /\ etagOk' = [e \in Device |-> FALSE]

\* Mutant of PutOk: an unconditional PUT.
PutOk_NoEtag(d) ==
    /\ MergeDone(d) /\ Changed(d)
    /\ StoreManifest(d)
    /\ Move(d, "settle", Settling(d))
    /\ tries' = [tries EXCEPT ![d] = 0]
    /\ UNCHANGED <<local_vars, blobs, user_vars>>

PutOk(d) ==
    /\ MergeDone(d) /\ Changed(d) /\ etagOk[d]
    /\ StoreManifest(d)
    /\ Move(d, "settle", Settling(d))
    /\ tries' = [tries EXCEPT ![d] = 0]
    /\ UNCHANGED <<local_vars, blobs, user_vars>>

\* The PUT takes effect but its answer is lost: the round ends in an error.
PutLost(d) ==
    /\ "lost" \in Faults
    /\ MergeDone(d) /\ Changed(d) /\ etagOk[d]
    /\ StoreManifest(d)
    /\ Move(d, "idle", IdleRun)
    /\ tries' = [tries EXCEPT ![d] = 0]
    /\ UNCHANGED <<local_vars, blobs, user_vars>>

\* ConflictException: sync() starts over, three times at most.
PutConflict(d) ==
    /\ MergeDone(d) /\ Changed(d) /\ ~etagOk[d]
    /\ IF tries[d] + 1 < MaxRetries
       THEN Move(d, "get", IdleRun) /\ tries' = [tries EXCEPT ![d] = @ + 1]
       ELSE Move(d, "idle", IdleRun) /\ tries' = [tries EXCEPT ![d] = 0]
    /\ UNCHANGED <<local_vars, remote_vars, etagOk, published, user_vars>>

SkipPut(d) ==
    /\ MergeDone(d) /\ ~Changed(d)
    /\ Move(d, "settle", Settling(d))
    /\ tries' = [tries EXCEPT ![d] = 0]
    /\ UNCHANGED <<local_vars, remote_vars, etagOk, published, user_vars>>

\* Mutant of Compare: every row that did not fail counts as converged.
Compare_AllRows(d) ==
    /\ pc[d] = "settle"
    /\ Move(d, "mark", [run[d] EXCEPT !.conv =
           {n \in Note \ run[d].failed : Present(row[d][n])}])
    /\ UNCHANGED <<local_vars, remote_vars, etagOk, tries, published, user_vars>>

\* _updateLocalState: the rows that are, when read, as the manifest says ...
Compare(d) ==
    LET m == run[d].merged IN
    /\ pc[d] = "settle"
    /\ Move(d, "mark", [run[d] EXCEPT !.conv =
           {n \in Note \ run[d].failed :
              /\ Present(row[d][n]) /\ Present(m[n])
              /\ ItemsEqual(row[d][n], m[n])}])
    /\ UNCHANGED <<local_vars, remote_vars, etagOk, tries, published, user_vars>>

\* ... are marked by one UPDATE, which copies the columns as they are by then;
\* then the purged list is read.
Marked(r) == [r EXCEPT !.base = r.hash, !.baseDeleted = r.deleted]

Mark(d) ==
    /\ pc[d] = "mark"
    /\ row' = [row EXCEPT ![d] = [n \in Note |->
                  IF n \in run[d].conv /\ Present(@[n]) THEN Marked(@[n]) ELSE @[n]]]
    /\ Move(d, "unpurge", [run[d] EXCEPT !.psnap = purged[d]])
    /\ UNCHANGED <<hist, purged, remote_vars, etagOk, tries, published, user_vars>>

\* Mutant of Cleaned: the whole list is forgotten once a round is over.
Cleaned_All(d) == run[d].psnap

\* removePurgedUuids writes the list it read without the uuids the manifest
\* no longer has, if there are any.
Cleaned(d) == {n \in run[d].psnap : ~Present(run[d].merged[n])}

Unpurge(d) ==
    /\ pc[d] = "unpurge"
    /\ purged' = IF Cleaned(d) = {} THEN purged
                 ELSE [purged EXCEPT ![d] = run[d].psnap \ Cleaned(d)]
    /\ Move(d, "idle", IdleRun)
    /\ UNCHANGED <<row, hist, remote_vars, etagOk, tries, published, user_vars>>

\* An exception out of the engine, or the process dies: the round is over.
Abort(d) ==
    /\ "abort" \in Faults
    /\ pc[d] # "idle"
    /\ Move(d, "idle", IdleRun)
    /\ tries' = [tries EXCEPT ![d] = 0]
    /\ UNCHANGED <<local_vars, remote_vars, etagOk, published, user_vars>>

-----------------------------------------------------------------------------
User(d) ==
    \E n \in Note :
      \/ AddNote(d, n)
      \/ Edit(d, n)
      \/ OpenEditor(d, n)
      \/ SaveEditor(d, n)
      \/ SoftDelete(d, n)
      \/ RestoreNote(d, n)
      \/ HardDelete(d, n)

MergeNote(d) ==
    \E n \in Note :
      \/ SkipPurged(d, n)
      \/ RemoteOnly(d, n)
      \/ LocalOnly(d, n)
      \/ KeepEqual(d, n)
      \/ FastForwardLocal(d, n)
      \/ FastForwardRemote(d, n)
      \/ ConflictLocalWins(d, n)
      \/ ConflictLocalGone(d, n)
      \/ ConflictRemoteWins(d, n)
      \/ FetchTombstone(d, n)
      \/ FetchMissing(d, n)
      \/ FetchBlob(d, n)
      \/ Write(d, n)

Engine(d) ==
    \/ Get(d)
    \/ FirstUpload(d)
    \/ StartMerge(d)
    \/ MergeNote(d)
    \/ PutOk(d)
    \/ PutConflict(d)
    \/ SkipPut(d)
    \/ Compare(d)
    \/ Mark(d)
    \/ Unpurge(d)

Fault(d) == PutLost(d) \/ Abort(d)

Next == \E d \in Device : User(d) \/ Engine(d) \/ Fault(d)

Spec == Init /\ [][Next]_vars

\* Each device keeps syncing and a round that started goes on.
Fairness == \A d \in Device : WF_vars(Engine(d))
FairSpec == Spec /\ Fairness

-----------------------------------------------------------------------------
(* Type correctness                                                        *)

\* Every variable keeps its shape: in particular the engine's locals, which
\* are read long after they were computed, stay within the notes and bounds.
TypeOK ==
    /\ row \in [Device -> [Note -> Row]]
    /\ hist \in [Device -> [Note -> SUBSET Hash]]
    /\ purged \in [Device -> SUBSET Note]
    /\ editor \in [Device -> [Note -> Row]]
    /\ manifest \in [Note -> Item]
    /\ exists \in BOOLEAN
    /\ blobs \subseteq Hash
    /\ pc \in [Device -> States]
    /\ run \in [Device -> Run]
    /\ etagOk \in [Device -> BOOLEAN]
    /\ tries \in [Device -> 0 .. MaxRetries - 1]
    /\ ops \in Nat
    /\ used \subseteq Content
    /\ born \subseteq Note
    /\ seen \in [Content -> SUBSET Hash]
    /\ published \subseteq Note \X Hash
    /\ erased \in [Device -> SUBSET Note]

-----------------------------------------------------------------------------
(* Safety                                                                  *)

\* The manifest never refers to a blob that was not uploaded (a "ghost
\* reference" in the comments of _mergeAndTransfer).
GhostFree == \A n \in Note : Live(manifest[n]) => manifest[n].hash \in blobs

\* The base of the three-way comparison is a state the vault really had: were
\* it an unpublished edit, the next round would take the vault's older content
\* for a one-sided remote change and overwrite the edit (markSyncedForUuids).
BasePublished ==
    \A d \in Device, n \in Note :
      row[d][n].base # 0 => <<n, row[d][n].base>> \in published

\* A note on the purged list is gone from the notes table: nothing the engine
\* downloads brings a permanently deleted note back while it is remembered.
PurgedAbsent == \A d \in Device : \A n \in purged[d] : ~Present(row[d][n])

\* removePurgedUuids forgets a uuid only once the manifest the device has just
\* written or confirmed has no entry for it.
PurgeConfirmed ==
    [][\A d \in Device : \A n \in purged[d] \ purged'[d] :
         ~Present(run[d].merged[n])]_vars

\* An entry leaves the manifest only when the device that PUTs has the note on
\* its purged list: neither two devices that create the vault at once, nor
\* failed uploads and downloads, take another device's notes out of it.
EntriesStay ==
    [][\A n \in Note :
         (Present(manifest[n]) /\ ~Present(manifest'[n])) =>
           \E d \in Device : pc'[d] # pc[d] /\ n \in purged[d]]_vars

\* When a PUT replaces the text of a note by another, either the new text was
\* written on top of the old one, or the device that PUTs holds the old text,
\* as a conflict copy or in what it wrote on top of it.
OverwritePreserves ==
    [][\A n \in Note :
         LET old == manifest[n]
             new == manifest'[n] IN
         (Live(old) /\ Live(new) /\ old.hash # new.hash /\ old.hash \in blobs) =>
           \/ old.hash \in Incorporates(new.hash)
           \/ \E d \in Device :
                /\ pc'[d] # pc[d]
                /\ \E m \in Note : \/ Present(row[d][m]) /\ old.hash \in Incorporates(row[d][m].hash)
                                   \/ m \in erased[d]]_vars

\* Text that disappears from a row, by a download or by the user's own save,
\* is in the note's version history (saveVersion before each overwrite).
OverwriteVersioned ==
    [][\A d \in Device, n \in Note :
         (Live(row[d][n]) /\ Present(row'[d][n]) /\ row'[d][n].hash # row[d][n].hash)
           => row[d][n].hash \in hist'[d][n]]_vars

-----------------------------------------------------------------------------
(* Liveness                                                                *)

SameText(r, x) == Live(r) = Live(x) /\ (Live(r) => r.hash = x.hash)

\* Once the users stop, every device ends up with the vault's notes and texts.
Converges ==
    <>[](\A d \in Device, n \in Note : SameText(row[d][n], manifest[n]))

\* Once the users stop, the manifest stops being rewritten.
Quiesces == <>[][\A d \in Device : ~PutOk(d)]_vars

=============================================================================
