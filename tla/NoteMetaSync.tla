---------------------------- MODULE NoteMetaSync ----------------------------
(***************************************************************************)
(* Synchronisation of note metadata (stars, tags, colours) in CarroNote:   *)
(* _syncNoteMeta and _uploadNoteMetaSnapshot of sync_engine.dart, and the  *)
(* note_meta table of database_handler.dart.                               *)
(*                                                                         *)
(* All metadata of a vault is one encrypted remote file, items.meta.  A    *)
(* round downloads it, merges it note by note (the later updatedAt wins)   *)
(* into the table, and if a row is waiting to be reported (synced = 0)     *)
(* uploads the whole table with a compare-and-swap on the ETag, marks the  *)
(* rows it sent and drops the tombstones among them.  A device that joins  *)
(* a vault made by another one uploads its table unconditionally.          *)
(*                                                                         *)
(* Of the columns, tags stands for those that travel (pinned, archived,    *)
(* color, payload) and locked for the one that does not; a value is the    *)
(* number of the call that set it, 0 the default.  The in-memory copy of   *)
(* the table is left out: a setter reads the table.                        *)
(***************************************************************************)
EXTENDS Naturals, FiniteSets

CONSTANTS
    Device,     \* the devices that share the vault
    Note,       \* note uuids
    Joining,    \* devices that have yet to join the vault
    MaxTime,    \* bound: clock readings (updatedAt)
    MaxOps,     \* bound: calls of the users
    MaxSetters, \* bound: setters of a device that run at a time
    MaxFaults,  \* bound: faults
    Fields,     \* the fields the users set, of AllFields
    Faults,     \* what may go wrong, a subset of FaultKinds
    Skew        \* TRUE: clocks disagree; FALSE: a later call reads a later time

States == {"apart", "joining", "idle", "read", "put", "refetch", "mark", "purge"}
AllFields == {"tags", "locked"}
Kinds  == {"none", "ok", "bad", "future"}

Time  == 0 .. MaxTime
Value == 0 .. MaxOps
MetaCasMaxAttempts == 3

\* A GET that fails and is answered null; the round ends in an exception (after
\* a PUT: its answer is lost) or with the process; the file is damaged; a newer
\* client rewrites it in a format this one does not know.
FaultKinds == {"miss", "abort", "damage", "upgrade"}

ASSUME BoundsAssumption ==
    MaxTime \in Nat \ {0} /\ MaxOps \in Nat /\ MaxSetters \in Nat /\ MaxFaults \in Nat
ASSUME ScopeAssumption ==
    /\ Joining \subseteq Device /\ Fields \subseteq AllFields
    /\ Faults \subseteq FaultKinds /\ Skew \in BOOLEAN

VARIABLES
    meta,    \* meta[d][n]: the row of n in d's note_meta table
    setting, \* setting[d]: setters that have read their row and not yet written
    file,    \* the remote items.meta
    pc,      \* pc[d]: where d's metadata round stands
    run,     \* run[d]: the local variables of that round
    etagOk   \* etagOk[d]: the ETag d read is still that of the file

(* Bookkeeping that the program does not keep.                             *)
VARIABLES
    now,     \* the latest time any row was stamped with
    ops,     \* calls of the users so far
    faults,  \* faults so far
    gone,    \* gone[d]: notes the user of d permanently deleted
    sent,    \* <<n, entry>> that some version of the file carried
    intact   \* the file was never damaged nor replaced unconditionally

vars == <<meta, setting, file, pc, run, etagOk, now, ops, faults, gone, sent, intact>>

-----------------------------------------------------------------------------
Row == [at : Time, deleted : BOOLEAN, tags : Value, locked : Value, synced : BOOLEAN]
NoRow == [at |-> 0, deleted |-> FALSE, tags |-> 0, locked |-> 0, synced |-> FALSE]
NoRows == [n \in Note |-> NoRow]

Entry == [at : Time, deleted : BOOLEAN, tags : Value]
NoEntry == [at |-> 0, deleted |-> FALSE, tags |-> 0]
NoEntries == [n \in Note |-> NoEntry]

Present(x) == x.at # 0
Dirty(r) == Present(r) /\ ~r.synced

\* _entryToJson: the wire format has no locked column.
AsEntry(r) == [at |-> r.at, deleted |-> r.deleted, tags |-> r.tags]

Wire(rows) == [n \in Note |-> AsEntry(rows[n])]

Setter == [note : Note, field : Fields, row : Row, value : Value]
Run == [create : BOOLEAN, force : BOOLEAN, all : [Note -> Row],
        attempt : 1 .. MetaCasMaxAttempts]
IdleRun == [create |-> FALSE, force |-> FALSE, all |-> NoRows, attempt |-> 1]

(* Initially the metadata of the notes in S is in sync on the devices of   *)
(* the vault; if there is none, nobody has uploaded the file yet.          *)
Start(S) ==
    LET seed == [n \in Note |-> IF n \in S THEN [NoRow EXCEPT !.at = 1, !.synced = TRUE]
                                           ELSE NoRow] IN
    /\ meta = [d \in Device |-> IF d \in Joining THEN NoRows ELSE seed]
    /\ file = [kind |-> IF S = {} THEN "none" ELSE "ok", items |-> Wire(seed)]
    /\ now = 1
    /\ sent = {<<n, AsEntry(seed[n])>> : n \in S}

Init ==
    /\ \E S \in SUBSET Note : Start(S)
    /\ setting = [d \in Device |-> {}]
    /\ pc = [d \in Device |-> IF d \in Joining THEN "apart" ELSE "idle"]
    /\ run = [d \in Device |-> IdleRun]
    /\ etagOk = [d \in Device |-> FALSE]
    /\ ops = 0
    /\ faults = 0
    /\ gone = [d \in Device |-> {}]
    /\ intact = TRUE

-----------------------------------------------------------------------------
(* The user's calls; they run at any await of a round.                     *)

engine_vars == <<file, pc, run, etagOk, faults, sent, intact>>

\* DateTime.now() when a row is stamped.
ReadClock(t) ==
    /\ t \in (IF Skew THEN 1 .. MaxTime ELSE {now + 1})
    /\ now' = IF t > now THEN t ELSE now

\* getNoteMeta inside setNotePinned, setNoteTags, setNoteLocked ...: a
\* tombstone counts as no row.
ReadRow(d, n, f) ==
    /\ ops < MaxOps
    /\ n \notin gone[d]
    /\ Cardinality(setting[d]) < MaxSetters
    /\ setting' = [setting EXCEPT ![d] = @ \cup
           {[note |-> n, field |-> f, value |-> ops + 1,
             row |-> IF meta[d][n].deleted THEN NoRow ELSE meta[d][n]]}]
    /\ ops' = ops + 1
    /\ UNCHANGED <<meta, now, gone, engine_vars>>

\* Mutant of WriteRow: the flag of the row that was read is kept.
WriteRow_KeepsSynced(d, s) ==
    /\ s \in setting[d]
    /\ \E t \in Time :
         /\ ReadClock(t)
         /\ meta' = [meta EXCEPT ![d][s.note] = [s.row EXCEPT ![s.field] = s.value, !.at = t]]
    /\ setting' = [setting EXCEPT ![d] = @ \ {s}]
    /\ UNCHANGED <<ops, gone, engine_vars>>

\* upsertNoteMeta: the row that was read, with the field set, replaces the row.
WriteRow(d, s) ==
    /\ s \in setting[d]
    /\ \E t \in Time :
         /\ ReadClock(t)
         /\ meta' = [meta EXCEPT ![d][s.note] =
                [s.row EXCEPT ![s.field] = s.value, !.at = t, !.synced = FALSE]]
    /\ setting' = [setting EXCEPT ![d] = @ \ {s}]
    /\ UNCHANGED <<ops, gone, engine_vars>>

\* hardDelete, through _markNoteMetaDeletedInTxn.
HardDelete(d, n) ==
    /\ ops < MaxOps
    /\ n \notin gone[d]
    /\ \E t \in Time :
         /\ ReadClock(t)
         /\ meta' = [meta EXCEPT ![d][n] = [NoRow EXCEPT !.at = t, !.deleted = TRUE]]
    /\ gone' = [gone EXCEPT ![d] = @ \cup {n}]
    /\ ops' = ops + 1
    /\ UNCHANGED <<setting, engine_vars>>

-----------------------------------------------------------------------------
(* The round.                                                              *)

user_vars == <<setting, now, ops, gone>>

Move(d, s, r) ==
    /\ pc' = [pc EXCEPT ![d] = s]
    /\ run' = [run EXCEPT ![d] = r]

EndRound(d) == Move(d, "idle", IdleRun)

\* mergeRemoteNoteMetas: a remote row replaces the local one whole; locked
\* is not in the file and falls back to its default.
RemoteWins(e, r) == e.at > r.at

Adopt(e) == [at |-> e.at, deleted |-> e.deleted, tags |-> e.tags, locked |-> 0, synced |-> TRUE]
Merged(rows, items) ==
    [n \in Note |-> IF RemoteWins(items[n], rows[n]) THEN Adopt(items[n]) ELSE rows[n]]

\* The answer to a GET: getMetaObject answers null for any failure (WebDAV), as
\* if there were no file.
Answer(kind) ==
    \/ kind = file.kind /\ UNCHANGED faults
    \/ /\ "miss" \in Faults /\ faults < MaxFaults
       /\ kind = "none" /\ file.kind # "none"
       /\ faults' = faults + 1

\* The file was read and merged: the round of d goes on to read the table.
Download(d, items, r) ==
    /\ meta' = [meta EXCEPT ![d] = Merged(@, items)]
    /\ Move(d, "read", r)
    /\ etagOk' = [etagOk EXCEPT ![d] = ~r.create]
    /\ UNCHANGED <<file, sent, intact, user_vars>>

\* GET, open, decode and merge.  A file that cannot be opened is to be
\* replaced by the local table; a file of a newer format ends the round.
Get(d) ==
    /\ pc[d] = "idle"
    /\ \E kind \in Kinds \ {"future"} :
         /\ Answer(kind)
         /\ Download(d, IF kind = "ok" THEN file.items ELSE NoEntries,
                     [IdleRun EXCEPT !.create = (kind = "none"), !.force = (kind = "bad")])

SkipRound(d) ==
    /\ pc[d] = "idle" /\ file.kind = "future"
    /\ UNCHANGED vars

\* readAllNoteMetaIncludingTombstones; nothing to upload ends the round.
ReadAll(d) ==
    /\ pc[d] = "read"
    /\ IF run[d].force \/ \E n \in Note : Dirty(meta[d][n])
       THEN Move(d, "put", [run[d] EXCEPT !.all = meta[d]])
       ELSE EndRound(d)
    /\ UNCHANGED <<meta, file, etagOk, faults, sent, intact, user_vars>>

\* If-Match with the ETag of the GET, or If-None-Match: * for a first file.
CasHolds(d) == IF run[d].create THEN file.kind = "none" ELSE etagOk[d]

StoreFile(rows) ==
    /\ file' = [kind |-> "ok", items |-> Wire(rows)]
    /\ etagOk' = [d \in Device |-> FALSE]
    /\ sent' = sent \cup {<<n, AsEntry(rows[n])>> : n \in Note}

Put(d) ==
    /\ pc[d] = "put" /\ CasHolds(d)
    /\ StoreFile(run[d].all)
    /\ Move(d, "mark", run[d])
    /\ UNCHANGED <<meta, faults, intact, user_vars>>

\* ConflictException: the file is read again, the third time it is left.
PutConflict(d) ==
    /\ pc[d] = "put" /\ ~CasHolds(d)
    /\ IF run[d].attempt < MetaCasMaxAttempts
       THEN Move(d, "refetch", [run[d] EXCEPT !.all = NoRows])
       ELSE EndRound(d)
    /\ UNCHANGED <<meta, file, etagOk, faults, sent, intact, user_vars>>

\* Mutant of Refetch: the file is not merged again, only its ETag is taken.
Refetch_NoMerge(d) ==
    /\ pc[d] = "refetch"
    /\ \E kind \in Kinds :
         /\ Answer(kind)
         /\ IF kind \in {"bad", "future"}
            THEN EndRound(d) /\ UNCHANGED <<meta, file, etagOk, sent, intact, user_vars>>
            ELSE Download(d, NoEntries,
                          [run[d] EXCEPT !.create = (kind = "none"), !.attempt = @ + 1])

\* Mutant of Refetch: the format of the file is not looked at again.
Refetch_AnyVersion(d) ==
    /\ pc[d] = "refetch"
    /\ \E kind \in Kinds :
         /\ Answer(kind)
         /\ IF kind = "bad"
            THEN EndRound(d) /\ UNCHANGED <<meta, file, etagOk, sent, intact, user_vars>>
            ELSE Download(d, IF kind # "none" THEN file.items ELSE NoEntries,
                          [run[d] EXCEPT !.create = (kind = "none"), !.attempt = @ + 1])

\* A file that cannot be opened or is newer ends the round this time.
Refetch(d) ==
    /\ pc[d] = "refetch"
    /\ \E kind \in Kinds :
         /\ Answer(kind)
         /\ IF kind \in {"bad", "future"}
            THEN EndRound(d) /\ UNCHANGED <<meta, file, etagOk, sent, intact, user_vars>>
            ELSE Download(d, IF kind = "ok" THEN file.items ELSE NoEntries,
                          [run[d] EXCEPT !.create = (kind = "none"), !.attempt = @ + 1])

\* Mutant of Marked: the stamp is not compared.
Marked_AnyStamp(r, snapshot) ==
    IF Present(snapshot) /\ Present(r) THEN [r EXCEPT !.synced = TRUE] ELSE r

\* markNoteMetasSynced: the rows that still have the stamp that was sent.
Marked(r, snapshot) ==
    IF Present(snapshot) /\ r.at = snapshot.at THEN [r EXCEPT !.synced = TRUE] ELSE r

MarkSynced(d) ==
    /\ pc[d] = "mark"
    /\ meta' = [meta EXCEPT ![d] = [n \in Note |-> Marked(@[n], run[d].all[n])]]
    /\ Move(d, "purge", IdleRun)
    /\ UNCHANGED <<file, etagOk, faults, sent, intact, user_vars>>

\* purgeReportedNoteMetaTombstones
Purgeable(r) == r.deleted /\ r.synced

Purge(d) ==
    /\ pc[d] = "purge"
    /\ meta' = [meta EXCEPT ![d] =
           [n \in Note |-> IF Purgeable(@[n]) THEN NoRow ELSE @[n]]]
    /\ EndRound(d)
    /\ UNCHANGED <<file, etagOk, faults, sent, intact, user_vars>>

-----------------------------------------------------------------------------
(* Joining: _executeMigrationVault has re-encrypted the notes of d with    *)
(* the vault's key and calls _uploadNoteMetaSnapshot, which does not look  *)
(* at the file; a failure is ignored.                                      *)

JoinRead(d) ==
    /\ pc[d] = "apart"
    /\ Move(d, "joining", [IdleRun EXCEPT !.all = meta[d]])
    /\ UNCHANGED <<meta, file, etagOk, faults, sent, intact, user_vars>>

JoinPut(d) ==
    /\ pc[d] = "joining"
    /\ StoreFile(run[d].all)
    /\ intact' = (intact /\ file.kind = "none")
    /\ EndRound(d)
    /\ UNCHANGED <<meta, faults, user_vars>>

-----------------------------------------------------------------------------
(* Faults.                                                                 *)

Fail(kind) == kind \in Faults /\ faults < MaxFaults /\ faults' = faults + 1

Abort(d) ==
    /\ Fail("abort")
    /\ pc[d] \notin {"apart", "idle"}
    /\ EndRound(d)
    /\ UNCHANGED <<meta, file, etagOk, sent, intact, user_vars>>

Damage ==
    /\ Fail("damage")
    /\ file.kind = "ok"
    /\ file' = [kind |-> "bad", items |-> NoEntries]
    /\ etagOk' = [d \in Device |-> FALSE]
    /\ intact' = FALSE
    /\ UNCHANGED <<meta, pc, run, sent, user_vars>>

Upgrade ==
    /\ Fail("upgrade")
    /\ file.kind = "ok"
    /\ file' = [file EXCEPT !.kind = "future"]
    /\ etagOk' = [d \in Device |-> FALSE]
    /\ UNCHANGED <<meta, pc, run, sent, intact, user_vars>>

-----------------------------------------------------------------------------
User(d) ==
    \/ \E n \in Note, f \in Fields : ReadRow(d, n, f)
    \/ \E n \in Note : HardDelete(d, n)

\* A setter that has read its row goes on to write it.
FinishSetter(d) == \E s \in setting[d] : WriteRow(d, s)

Engine(d) ==
    \/ Get(d)
    \/ SkipRound(d)
    \/ ReadAll(d)
    \/ Put(d)
    \/ PutConflict(d)
    \/ Refetch(d)
    \/ MarkSynced(d)
    \/ Purge(d)
    \/ JoinRead(d)
    \/ JoinPut(d)

Next ==
    \/ \E d \in Device : User(d) \/ FinishSetter(d) \/ Engine(d) \/ Abort(d)
    \/ Damage
    \/ Upgrade

Spec == Init /\ [][Next]_vars

\* Each device keeps syncing, a round that started goes on, a setter returns.
Fairness == \A d \in Device : WF_vars(Engine(d)) /\ WF_vars(FinishSetter(d))
FairSpec == Spec /\ Fairness

-----------------------------------------------------------------------------
(* Type correctness                                                        *)

\* Every variable keeps its shape, the setters' and the round's copies of rows
\* included, which are written back long after they were read.
TypeOK ==
    /\ meta \in [Device -> [Note -> Row]]
    /\ setting \in [Device -> SUBSET Setter]
    /\ file \in [kind : Kinds, items : [Note -> Entry]]
    /\ pc \in [Device -> States]
    /\ run \in [Device -> Run]
    /\ etagOk \in [Device -> BOOLEAN]
    /\ now \in Time
    /\ ops \in Value
    /\ faults \in Nat
    /\ gone \in [Device -> SUBSET Note]
    /\ sent \subseteq Note \X Entry
    /\ intact \in BOOLEAN

-----------------------------------------------------------------------------
(* Safety.  Those about intact hold when clocks agree (Skew = FALSE) and   *)
(* until the file is damaged or replaced by a joining device.              *)

Carries(n, r) == file.items[n].at > r.at \/ file.items[n] = AsEntry(r)

\* A row marked as synced is in the remote file, as it is or superseded by a
\* later one: the loss that putMetaObject's conditions were introduced against
\* (a whole-file upload takes out an entry whose device believes it reported).
CasKeepsPublished ==
    intact => \A d \in Device, n \in Note :
                meta[d][n].synced => Carries(n, meta[d][n])

\* A device that has deleted a note and dropped the tombstone
\* (purgeReportedNoteMetaTombstones) has told the others: the file has an entry.
TombstonesReported ==
    intact => \A d \in Device : \A n \in gone[d] :
                Present(meta[d][n]) \/ Present(file.items[n])

\* Only what some version of the file carried is marked as synced, whatever is
\* edited while the file is on its way (markNoteMetasSynced) and whatever
\* becomes of the file.
SyncedSent ==
    \A d \in Device, n \in Note :
      meta[d][n].synced => <<n, AsEntry(meta[d][n])>> \in sent

\* What a device believes to have reported it has: all of the above.
Reported == TypeOK /\ CasKeepsPublished /\ TombstonesReported /\ SyncedSent

\* No upload takes an entry of the file back to an earlier state or out of it.
FileMonotone ==
    [][intact' => \A n \in Note : file'.items[n].at >= file.items[n].at]_vars

\* An old client never replaces a file of a newer format, whenever between its
\* GET and its PUT the file was upgraded (_syncNoteMeta, kNoteMetaWireVersion).
NoDowngrade ==
    [][(intact' /\ file.kind = "future") => file'.kind = "future"]_vars

\* A row that was uploaded stays in the vault, whoever joins it.
SyncedStaysPublished ==
    \A d \in Device, n \in Note :
      (meta[d][n].synced /\ file.kind # "bad") => Carries(n, meta[d][n])

\* The lock of a note is a local flag that does not synchronise: nothing but
\* the device's own setters, or the note's deletion, changes it.
LockStays ==
    [][\A d \in Device, n \in Note :
         (/\ Present(meta'[d][n]) /\ ~meta'[d][n].deleted
          /\ meta'[d][n].locked # meta[d][n].locked)
           => setting'[d] # setting[d]]_vars

-----------------------------------------------------------------------------
(* Liveness                                                                *)

\* Once the users stop, every device holds what the file holds, as long as the
\* devices can read it.
Aligned == \A d \in Device, n \in Note : AsEntry(meta[d][n]) = file.items[n]
MetaConverges == <>[](~intact \/ file.kind = "future" \/ Aligned)

=============================================================================
