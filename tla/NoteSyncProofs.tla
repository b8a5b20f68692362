--------------------------- MODULE NoteSyncProofs ---------------------------
(***************************************************************************)
(* Proofs about NoteSync, for any devices, notes, bounds and faults.       *)
(***************************************************************************)
EXTENDS NoteSync, TLAPS

(* The values that occur.                                                  *)

LEMMA Values ==
    /\ 0 \in Hash /\ Content \subseteq Hash
    /\ 0 \in Time /\ 1 \in Time /\ Stamp \subseteq Time
  BY BoundsAssumption, SMT DEF Hash, Content, Time, Stamp

LEMMA RowValues ==
    /\ NoRow \in Row /\ NoItem \in Item
    /\ \A r \in Row : AsItem(r) \in Item /\ Marked(r) \in Row
    /\ \A h \in Hash, t \in Time : Unsynced(h, t) \in Row
    /\ \A n \in Note : SeedRow(n) \in Row
<1>1. NoRow \in Row /\ NoItem \in Item
  BY Values DEF NoRow, Row, NoItem, Item
<1>2. \A r \in Row : AsItem(r) \in Item /\ Marked(r) \in Row
  BY DEF AsItem, Marked, Row, Item
<1>3. \A h \in Hash, t \in Time : Unsynced(h, t) \in Row
  BY Values DEF Unsynced, Row
<1>4. ASSUME NEW n \in Note PROVE SeedRow(n) \in Row
  <2>1. CASE n \in Seeded
    <3>1. SeedContent[n] \in Hash
      BY <2>1, Values, SeedAssumption
    <3> QED BY <2>1, <3>1, Values DEF SeedRow, Row
  <2> QED BY <2>1, <1>1 DEF SeedRow
<1> QED BY <1>1, <1>2, <1>3, <1>4

LEMMA RunValues ==
    /\ NoItems \in [Note -> Item]
    /\ Closed \in [Note -> Row]
    /\ IdleRun \in Run
    /\ \A r \in Run, n \in Note, x \in Item : Handled(r, n, x) \in Run
<1>1. NoItems \in [Note -> Item] /\ Closed \in [Note -> Row]
  BY RowValues DEF NoItems, Closed
<1>2. IdleRun \in Run
  BY <1>1, RowValues DEF IdleRun, Run
<1>3. ASSUME NEW r \in Run, NEW n \in Note, NEW x \in Item
      PROVE  Handled(r, n, x) \in Run
  BY RowValues DEF Handled, Run
<1> QED BY <1>1, <1>2, <1>3

-----------------------------------------------------------------------------
(* Type correctness                                                        *)

LEMMA TypeInit == Init => TypeOK
<1> SUFFICES ASSUME Init PROVE TypeOK
  OBVIOUS
<1>1. row \in [Device -> [Note -> Row]] /\ manifest \in [Note -> Item]
  BY RowValues DEF Init
<1>2. editor \in [Device -> [Note -> Row]] /\ run \in [Device -> Run]
  BY RunValues DEF Init
<1>3. used \subseteq Content /\ blobs \subseteq Hash /\ born \subseteq Note
  BY Values, SeedAssumption DEF Init
<1>4. published \subseteq Note \X Hash
  BY <1>1 DEF Init, PublishedBy, Item
<1>5. pc \in [Device -> States] /\ tries \in [Device -> 0 .. MaxRetries - 1]
  BY DEF Init, States, MaxRetries
<1> QED
  BY <1>1, <1>2, <1>3, <1>4, <1>5 DEF Init, TypeOK

LEMMA ProduceType ==
    ASSUME TypeOK, NEW c, NEW cs \in SUBSET Hash, Produce(c, cs)
    PROVE  c \in Hash /\ (used \subseteq Content)' /\ (seen \in [Content -> SUBSET Hash])'
  BY Values DEF TypeOK, Produce

LEMMA IncorporatesType ==
    ASSUME TypeOK, NEW c \in Hash
    PROVE  (c # 0 => Incorporates(c) \in SUBSET Hash) /\ Hash \ {0} = Content
  BY BoundsAssumption, SMT DEF TypeOK, Incorporates, Hash, Content

LEMMA UserType ==
    ASSUME TypeOK, NEW d \in Device, User(d) PROVE TypeOK'
<1> SUFFICES ASSUME NEW n \in Note,
                    \/ AddNote(d, n)    \/ Edit(d, n)       \/ OpenEditor(d, n)
                    \/ SaveEditor(d, n) \/ SoftDelete(d, n) \/ RestoreNote(d, n)
                    \/ HardDelete(d, n)
             PROVE  TypeOK'
  BY DEF User
<1>1. CASE AddNote(d, n)
  <2>1. PICK c \in Content, t \in Stamp :
          Produce(c, {}) /\ row' = [row EXCEPT ![d][n] = Unsynced(c, t)]
    BY <1>1 DEF AddNote
  <2>2. (row \in [Device -> [Note -> Row]])'
    BY <2>1, Values, RowValues DEF TypeOK
  <2> QED
    BY <1>1, <2>1, <2>2, ProduceType DEF AddNote, TypeOK, engine_vars
<1>2. ASSUME NEW orig \in Row, Present(orig), SaveNote(d, n, orig),
             (editor \in [Device -> [Note -> Row]])'
      PROVE  TypeOK'
  <2>1. PICK c \in Content, t \in Stamp :
          /\ Produce(c, Incorporates(orig.hash))
          /\ row' = [row EXCEPT ![d][n] = Saved(d, n, orig, c, t)]
    BY <1>2 DEF SaveNote
  <2>2. orig.hash \in Hash /\ Incorporates(orig.hash) \in SUBSET Hash
    BY <1>2, IncorporatesType DEF Row, Present
  <2>3. row[d][n] \in Row
    BY DEF TypeOK
  <2>4. Saved(d, n, orig, c, t) \in Row
    BY <2>3, Values, RowValues DEF Saved, Row
  <2>5. (row \in [Device -> [Note -> Row]])'
    BY <2>1, <2>4 DEF TypeOK
  <2>6. (hist \in [Device -> [Note -> SUBSET Hash]])'
    BY <1>2, <2>2 DEF SaveNote, TypeOK
  <2> QED
    BY <1>2, <2>1, <2>2, <2>5, <2>6, ProduceType DEF SaveNote, TypeOK, engine_vars
<1>3. CASE Edit(d, n)
  BY <1>2, <1>3 DEF Edit, TypeOK, Live, Present
<1>4. CASE SaveEditor(d, n)
  <2>1. editor[d][n] \in Row /\ (editor \in [Device -> [Note -> Row]])'
    BY <1>4, RowValues DEF SaveEditor, TypeOK
  <2> QED
    BY <1>2, <1>4, <2>1 DEF SaveEditor
<1>5. CASE OpenEditor(d, n)
  BY <1>5 DEF OpenEditor, TypeOK, engine_vars
<1>6. ASSUME NEW b \in BOOLEAN, NEW t \in Stamp,
             row' = [row EXCEPT ![d][n].deleted = b, ![d][n].at = t],
             UNCHANGED <<hist, purged, editor, used, born, seen, erased, engine_vars>>,
             ops' = ops + 1
      PROVE  TypeOK'
  <2>1. row[d][n] \in Row /\ t \in Time
    BY Values DEF TypeOK
  <2>2. [row[d][n] EXCEPT !.deleted = b, !.at = t] \in Row
    BY <2>1 DEF Row
  <2>3. row' = [row EXCEPT ![d][n] = [row[d][n] EXCEPT !.deleted = b, !.at = t]]
    BY <1>6 DEF TypeOK, Row
  <2>4. (row \in [Device -> [Note -> Row]])'
    BY <2>2, <2>3 DEF TypeOK
  <2> QED
    BY <1>6, <2>4 DEF TypeOK, engine_vars
<1>8. CASE SoftDelete(d, n)
  BY <1>6, <1>8 DEF SoftDelete
<1>9. CASE RestoreNote(d, n)
  BY <1>6, <1>9 DEF RestoreNote
<1>7. CASE HardDelete(d, n)
  <2>1. (row \in [Device -> [Note -> Row]])' /\ (hist \in [Device -> [Note -> SUBSET Hash]])'
    BY <1>7, RowValues DEF HardDelete, TypeOK
  <2> QED
    BY <1>7, <2>1 DEF HardDelete, TypeOK, engine_vars
<1> QED
  BY <1>1, <1>3, <1>4, <1>5, <1>7, <1>8, <1>9

(* What the steps of a round share: one device's pc and locals move, and    *)
(* most of them change nothing but these and the remote blobs.             *)

LEMMA MoveType ==
    ASSUME TypeOK, NEW d \in Device, NEW s \in States, NEW r \in Run, Move(d, s, r)
    PROVE  (pc \in [Device -> States])' /\ (run \in [Device -> Run])'
  BY DEF TypeOK, Move

LEMMA RoundType ==
    ASSUME TypeOK, NEW d \in Device, NEW s \in States, NEW r \in Run, Move(d, s, r),
           blobs' \subseteq Hash,
           UNCHANGED <<local_vars, manifest, exists, etagOk, tries, published, user_vars>>
    PROVE  TypeOK'
  BY MoveType DEF TypeOK, local_vars, user_vars

LEMMA RunFields ==
    ASSUME TypeOK, NEW d \in Device
    PROVE  /\ run[d] \in Run
           /\ \A n \in Note : /\ L(d, n) \in Item /\ R(d, n) \in Item
                              /\ row[d][n] \in Row /\ row[d][n].hash \in Hash
           /\ run[d].existing \in Row /\ run[d].psnap \subseteq Note
           /\ run[d].failed \subseteq Note /\ run[d].merged \in [Note -> Item]
<1>1. run[d] \in Run /\ \A n \in Note : row[d][n] \in Row
  BY DEF TypeOK
<1> QED
  BY <1>1 DEF Run, L, R, Row

LEMMA GetType ==
    ASSUME TypeOK, NEW d \in Device, Get(d) PROVE TypeOK'
<1>1. PICK gone \in SUBSET {n \in Note : row[d][n].deleted} :
        LET kept == [n \in Note |-> IF n \in gone THEN NoRow ELSE row[d][n]] IN
        /\ row' = [row EXCEPT ![d] = kept]
        /\ hist' = [hist EXCEPT ![d] = [n \in Note |-> IF n \in gone THEN {} ELSE @[n]]]
        /\ purged' = [purged EXCEPT ![d] = @ \cup gone]
        /\ Move(d, "plan", [IdleRun EXCEPT
               !.fresh = ~exists, !.snap = manifest,
               !.local = [n \in Note |-> AsItem(kept[n])]])
  BY DEF Get
<1> DEFINE kept == [n \in Note |-> IF n \in gone THEN NoRow ELSE row[d][n]]
           locals == [n \in Note |-> AsItem(kept[n])]
           r == [IdleRun EXCEPT !.fresh = ~exists, !.snap = manifest, !.local = locals]
<1>2. kept \in [Note -> Row]
  BY RowValues DEF TypeOK
<1>3. locals \in [Note -> Item]
  BY <1>2, RowValues
<1>4. r \in Run
  <2> HIDE DEF locals
  <2> QED BY <1>3, RunValues DEF Run, TypeOK
<1>5. (row \in [Device -> [Note -> Row]])'
  <2> HIDE DEF kept
  <2> QED BY <1>1, <1>2 DEF TypeOK, kept
<1>6. (hist \in [Device -> [Note -> SUBSET Hash]])'
  BY <1>1 DEF TypeOK
<1>7. (purged \in [Device -> SUBSET Note])'
  BY <1>1 DEF TypeOK
<1>8. (pc \in [Device -> States])' /\ (run \in [Device -> Run])'
  <2>1. Move(d, "plan", r)
    BY <1>1
  <2> HIDE DEF r
  <2> QED BY <1>4, <2>1, MoveType DEF States
<1> QED
  BY <1>5, <1>6, <1>7, <1>8 DEF Get, TypeOK, remote_vars, user_vars

LEMMA FirstUploadType ==
    ASSUME TypeOK, NEW d \in Device, FirstUpload(d) PROVE TypeOK'
<1> DEFINE live == {n \in {n \in Note : Present(row[d][n])} \ purged[d] : Live(row[d][n])}
<1>1. PICK failed \in SUBSET live :
        /\ blobs' = blobs \cup {row[d][n].hash : n \in live \ failed}
        /\ Move(d, "merge", [run[d] EXCEPT
               !.merged = [n \in Note |-> IF n \in purged[d] \cup failed
                                          THEN NoItem ELSE run[d].local[n]],
               !.failed = failed, !.acted = TRUE])
  BY DEF FirstUpload
<1> DEFINE items == [n \in Note |-> IF n \in purged[d] \cup failed
                                    THEN NoItem ELSE run[d].local[n]]
           r == [run[d] EXCEPT !.merged = items, !.failed = failed, !.acted = TRUE]
<1>2. items \in [Note -> Item]
  BY RunFields, RowValues DEF L
<1>3. r \in Run
  <2>1. failed \subseteq Note
    OBVIOUS
  <2> HIDE DEF items
  <2> QED BY <1>2, <2>1, RunFields, ZenonT(60) DEF Run
<1>4. blobs' \subseteq Hash
  BY <1>1, RunFields DEF TypeOK
<1>5. Move(d, "merge", r)
  BY <1>1
<1> HIDE DEF r
<1> QED
  BY <1>3, <1>4, <1>5, RoundType DEF FirstUpload, States

(* The branches of the merge.                                              *)

LEMMA SendType ==
    ASSUME TypeOK, NEW d \in Device, NEW n \in Note, NEW w \in Row,
           NEW x \in Item, NEW y \in Item, Send(d, n, w, x, y)
    PROVE  \E r \in Run : Move(d, "merge", r) /\ blobs' \subseteq Hash
<1>1. PICK ok \in BOOLEAN :
        /\ Upload(w, ok)
        /\ Move(d, "merge", [Handled(run[d], n, IF ok THEN x ELSE y) EXCEPT
               !.acted = @ \/ ok, !.failed = IF ok THEN @ ELSE @ \cup {n}])
  BY DEF Send
<1> DEFINE h == Handled(run[d], n, IF ok THEN x ELSE y)
           r == [h EXCEPT !.acted = @ \/ ok, !.failed = IF ok THEN @ ELSE @ \cup {n}]
<1>2. h \in Run
  BY RunValues, RunFields
<1>3. r \in Run
  <2> HIDE DEF h
  <2> QED BY <1>2 DEF Run
<1>4. blobs' \subseteq Hash
  BY <1>1 DEF Upload, Row, TypeOK
<1> HIDE DEF r
<1> QED
  BY <1>1, <1>3, <1>4 DEF r

LEMMA DownloadType ==
    ASSUME TypeOK, NEW d \in Device, NEW n \in Note
    PROVE  [run[d] EXCEPT !.cur = {n}] \in Run
  BY RunFields DEF Run

LEMMA CopyType ==
    ASSUME TypeOK, NEW d \in Device, NEW wanted, NEW cp \in Copies(wanted),
           NEW h \in Hash, wanted => h # 0, StoreCopy(d, h, cp)
    PROVE  /\ cp.note \subseteq Note /\ cp.hash \in Hash /\ cp.at \in Time
           /\ cp.ok \in BOOLEAN /\ CopyBlob(cp) \subseteq Hash
           /\ WithCopy(run[d], cp) \in Run
           /\ (row \in [Device -> [Note -> Row]])' /\ (born \subseteq Note)'
           /\ (used \subseteq Content)' /\ (seen \in [Content -> SUBSET Hash])'
<1>1. /\ cp.note \subseteq Note /\ cp.hash \in Hash /\ cp.at \in Time /\ cp.ok \in BOOLEAN
      /\ cp.hash # 0 => (wanted /\ cp.hash \in Content)
  <2>1. CASE cp = NoCopy
    BY <2>1, Values DEF NoCopy
  <2>2. CASE cp # NoCopy
    <3>1. /\ wanted
          /\ cp \in [note : {{m} : m \in Note \ born}, hash : Content \ used, at : Stamp,
                    ok : {TRUE} \cup {"upload" \notin Faults}]
      BY <2>2, Zenon DEF Copies
    <3> QED
      BY <3>1, Values
  <2> QED
    BY <2>1, <2>2
<1>2. CopyBlob(cp) \subseteq Hash
  BY <1>1 DEF CopyBlob
<1>3. Unsynced(cp.hash, cp.at) \in Row /\ AsItem(Unsynced(cp.hash, cp.at)) \in Item
  BY <1>1, RowValues
<1>4. WithCopy(run[d], cp) \in Run
  <2> DEFINE items == [m \in Note |-> IF m \in cp.note /\ cp.ok
                         THEN AsItem(Unsynced(cp.hash, cp.at)) ELSE run[d].merged[m]]
  <2>1. items \in [Note -> Item]
    BY <1>3, RunFields
  <2>2. WithCopy(run[d], cp) = [run[d] EXCEPT !.merged = items,
            !.acted = @ \/ cp.ok, !.failed = IF cp.ok THEN @ ELSE @ \cup cp.note]
    BY RunFields, Zenon DEF WithCopy
  <2>3. run[d] \in Run /\ cp.note \subseteq Note /\ cp.ok \in BOOLEAN
    BY <1>1, RunFields
  <2> DEFINE acts == run[d].acted \/ cp.ok
             fails == IF cp.ok THEN run[d].failed ELSE run[d].failed \cup cp.note
  <2>4. acts \in BOOLEAN /\ fails \subseteq Note
    BY <2>3, RunFields
  <2>5. WithCopy(run[d], cp)
          = [run[d] EXCEPT !.merged = items, !.acted = acts, !.failed = fails]
    BY <2>2
  <2> HIDE DEF items, acts, fails
  <2> QED
    BY <2>1, <2>3, <2>4, <2>5, ZenonT(60) DEF Run
<1>5. (row \in [Device -> [Note -> Row]])'
  BY <1>3 DEF StoreCopy, TypeOK
<1>6. (born \subseteq Note)' /\ (used \subseteq Content)'
  BY <1>1 DEF StoreCopy, TypeOK
<1>7. (seen \in [Content -> SUBSET Hash])'
  <2>1. ASSUME NEW c \in Content, c = cp.hash PROVE Incorporates(h) \in SUBSET Hash
    <3>1. c # 0
      BY BoundsAssumption, SMT DEF Content
    <3> QED BY <1>1, <2>1, <3>1, IncorporatesType
  <2> QED
    BY <2>1 DEF StoreCopy, TypeOK
<1> QED
  BY <1>1, <1>2, <1>4, <1>5, <1>6, <1>7

LEMMA ConflictType ==
    ASSUME TypeOK, NEW d \in Device, NEW n \in Note,
           ConflictLocalWins(d, n) \/ ConflictLocalGone(d, n) \/ ConflictRemoteWins(d, n)
    PROVE  TypeOK'
<1>0. row[d][n].hash \in Hash /\ L(d, n) \in Item /\ R(d, n) \in Item /\ R(d, n).hash \in Hash
  BY RunFields DEF Item
<1>1. Conflict(d, n) => R(d, n).hash # 0
  BY DEF Conflict, Differ, Present
<1>2. ASSUME NEW wanted, NEW cp \in Copies(wanted), NEW h \in Hash, wanted => h # 0,
             StoreCopy(d, h, cp), NEW s \in States, NEW r \in Run, Move(d, s, r),
             blobs' \subseteq Hash,
             UNCHANGED <<manifest, exists, etagOk, tries, published, editor, ops, erased>>
      PROVE  TypeOK'
  <2>1. /\ (row \in [Device -> [Note -> Row]])' /\ (born \subseteq Note)'
        /\ (used \subseteq Content)' /\ (seen \in [Content -> SUBSET Hash])'
    BY <1>2, CopyType
  <2>2. (pc \in [Device -> States])' /\ (run \in [Device -> Run])'
    BY <1>2, MoveType
  <2>3. UNCHANGED <<hist, purged>>
    BY <1>2 DEF StoreCopy
  <2> QED
    BY <1>2, <2>1, <2>2, <2>3 DEF TypeOK
<1>3. CASE ConflictLocalWins(d, n)
  <2>1. PICK cp \in Copies(BothLive(d, n) /\ R(d, n).hash \in blobs), ok \in BOOLEAN :
          /\ StoreCopy(d, R(d, n).hash, cp)
          /\ blobs' = blobs \cup CopyBlob(cp)
                \cup (IF ok /\ Live(row[d][n]) THEN {row[d][n].hash} ELSE {})
          /\ Move(d, "merge",
                  [Handled(WithCopy(run[d], cp), n, IF ok THEN L(d, n) ELSE R(d, n))
                   EXCEPT !.acted = @ \/ ok, !.failed = IF ok THEN @ ELSE @ \cup {n}])
    BY <1>3, ZenonT(60) DEF ConflictLocalWins
  <2> DEFINE g == Handled(WithCopy(run[d], cp), n, IF ok THEN L(d, n) ELSE R(d, n))
             r == [g EXCEPT !.acted = @ \/ ok, !.failed = IF ok THEN @ ELSE @ \cup {n}]
  <2>2. WithCopy(run[d], cp) \in Run /\ CopyBlob(cp) \subseteq Hash
    BY <1>0, <1>1, <1>3, <2>1, CopyType DEF ConflictLocalWins
  <2>3. g \in Run
    BY <1>0, <2>2, RunValues
  <2>4. r \in Run
    <3> HIDE DEF g
    <3> QED BY <2>3 DEF Run
  <2>5. blobs' \subseteq Hash
    BY <1>0, <2>1, <2>2 DEF TypeOK
  <2>6. Move(d, "merge", r)
    BY <2>1
  <2> HIDE DEF r
  <2> QED
    BY <1>0, <1>1, <1>2, <1>3, <2>1, <2>4, <2>5, <2>6 DEF ConflictLocalWins, States
<1>4. CASE ConflictLocalGone(d, n)
  <2>1. PICK cp \in Copies(BothLive(d, n) /\ R(d, n).hash \in blobs) :
          /\ StoreCopy(d, R(d, n).hash, cp)
          /\ blobs' = blobs \cup CopyBlob(cp)
          /\ Move(d, "merge", Handled(WithCopy(run[d], cp), n, NoItem))
    BY <1>4 DEF ConflictLocalGone
  <2>2. WithCopy(run[d], cp) \in Run /\ CopyBlob(cp) \subseteq Hash
    BY <1>0, <1>1, <1>4, <2>1, CopyType DEF ConflictLocalGone
  <2>3. Handled(WithCopy(run[d], cp), n, NoItem) \in Run
    BY <2>2, RowValues, RunValues
  <2>4. blobs' \subseteq Hash
    BY <2>1, <2>2 DEF TypeOK
  <2> QED
    BY <1>0, <1>1, <1>2, <1>4, <2>1, <2>3, <2>4 DEF ConflictLocalGone, States
<1>5. CASE ConflictRemoteWins(d, n)
  <2>1. PICK cp \in Copies(BothLive(d, n) /\ Present(row[d][n])) :
          /\ StoreCopy(d, row[d][n].hash, cp)
          /\ blobs' = blobs \cup CopyBlob(cp)
          /\ Move(d, "fetch", [WithCopy(run[d], cp) EXCEPT !.cur = {n}])
    BY <1>5 DEF ConflictRemoteWins
  <2>2. WithCopy(run[d], cp) \in Run /\ CopyBlob(cp) \subseteq Hash
    BY <1>0, <2>1, CopyType DEF Present
  <2>3. [WithCopy(run[d], cp) EXCEPT !.cur = {n}] \in Run
    BY <2>2 DEF Run
  <2>4. blobs' \subseteq Hash
    BY <2>1, <2>2 DEF TypeOK
  <2> QED
    BY <1>0, <1>2, <1>5, <2>1, <2>3, <2>4 DEF ConflictRemoteWins, States, Present
<1> QED
  BY <1>3, <1>4, <1>5

LEMMA BranchType ==
    ASSUME TypeOK, NEW d \in Device, NEW n \in Note,
           \/ SkipPurged(d, n)       \/ RemoteOnly(d, n) \/ LocalOnly(d, n)
           \/ KeepEqual(d, n)        \/ FastForwardLocal(d, n)
           \/ FastForwardRemote(d, n)
    PROVE  TypeOK'
<1>0. L(d, n) \in Item /\ R(d, n) \in Item /\ row[d][n] \in Row /\ run[d] \in Run
  BY RunFields
<1>1. ASSUME NEW x \in Item, Move(d, "merge", Handled(run[d], n, x)), UNCHANGED blobs,
             UNCHANGED <<local_vars, manifest, exists, etagOk, tries, published, user_vars>>
      PROVE  TypeOK'
  <2>1. Handled(run[d], n, x) \in Run
    BY <1>0, RunValues
  <2> QED
    BY <1>1, <2>1, RoundType DEF TypeOK, States
<1>2. ASSUME NEW x \in Item, NEW y \in Item, Send(d, n, row[d][n], x, y),
             UNCHANGED <<local_vars, manifest, exists, etagOk, tries, published, user_vars>>
      PROVE  TypeOK'
  <2>1. PICK r \in Run : Move(d, "merge", r) /\ blobs' \subseteq Hash
    BY <1>0, <1>2, SendType
  <2> QED
    BY <1>2, <2>1, RoundType DEF States
<1>3. ASSUME StartDownload(d, n),
             UNCHANGED <<local_vars, remote_vars, etagOk, tries, published, user_vars>>
      PROVE  TypeOK'
  BY <1>3, DownloadType, RoundType DEF StartDownload, States, TypeOK, remote_vars
<1>4. CASE SkipPurged(d, n)
  BY <1>1, <1>4, RowValues DEF SkipPurged, remote_vars
<1>5. CASE RemoteOnly(d, n)
  BY <1>3, <1>5 DEF RemoteOnly
<1>6. CASE LocalOnly(d, n)
  BY <1>0, <1>1, <1>2, <1>6, RowValues DEF LocalOnly
<1>7. CASE KeepEqual(d, n)
  BY <1>0, <1>1, <1>7 DEF KeepEqual, remote_vars
<1>8. CASE FastForwardLocal(d, n)
  BY <1>0, <1>2, <1>8 DEF FastForwardLocal
<1>9. CASE FastForwardRemote(d, n)
  BY <1>3, <1>9 DEF FastForwardRemote
<1> QED
  BY <1>4, <1>5, <1>6, <1>7, <1>8, <1>9

LEMMA FetchType ==
    ASSUME TypeOK, NEW d \in Device, NEW n \in Note,
           FetchTombstone(d, n) \/ FetchMissing(d, n) \/ FetchBlob(d, n) \/ Write(d, n)
    PROVE  TypeOK'
<1>0. R(d, n) \in Item /\ row[d][n] \in Row /\ run[d] \in Run /\ run[d].existing \in Row
  BY RunFields
<1>1. Handled(run[d], n, R(d, n)) \in Run
  BY <1>0, RunValues
<1>2. [run[d] EXCEPT !.existing = row[d][n]] \in Run
  BY <1>0 DEF Run
<1>3. CASE FetchTombstone(d, n)
  BY <1>1, <1>2, <1>3, RoundType DEF FetchTombstone, States, TypeOK, remote_vars
<1>4. CASE FetchMissing(d, n)
  <2>1. CASE Move(d, "merge", Handled(run[d], n, R(d, n))) /\ UNCHANGED blobs
    BY <1>1, <1>4, <2>1, RoundType DEF FetchMissing, States, TypeOK
  <2>2. CASE ~(Move(d, "merge", Handled(run[d], n, R(d, n))) /\ UNCHANGED blobs)
    <3>1. PICK m \in Note, ok \in BOOLEAN :
            /\ Upload(row[d][m], ok)
            /\ Move(d, "merge", [Handled(run[d], n, R(d, n)) EXCEPT
                   !.acted = @ \/ ok, !.failed = IF ok THEN @ ELSE @ \cup {m}])
      BY <1>4, <2>2 DEF FetchMissing
    <3> DEFINE h == Handled(run[d], n, R(d, n))
               r == [h EXCEPT !.acted = @ \/ ok, !.failed = IF ok THEN @ ELSE @ \cup {m}]
    <3>2. r \in Run
      <4> HIDE DEF h
      <4> QED BY <1>1 DEF Run, h
    <3>3. blobs' \subseteq Hash
      BY <3>1, RunFields DEF Upload, TypeOK
    <3>4. Move(d, "merge", r)
      BY <3>1
    <3> HIDE DEF r
    <3> QED
      BY <1>4, <3>2, <3>3, <3>4, RoundType DEF FetchMissing, States
  <2> QED
    BY <2>1, <2>2
<1>5. CASE FetchBlob(d, n)
  <2>1. (hist \in [Device -> [Note -> SUBSET Hash]])'
    BY <1>0, <1>5 DEF FetchBlob, TypeOK, Row
  <2> QED
    BY <1>2, <1>5, <2>1, MoveType DEF FetchBlob, TypeOK, remote_vars, user_vars, States
<1>6. CASE Write(d, n)
  <2>1. Downloaded(R(d, n), run[d].existing) \in Row
    BY <1>0, RowValues DEF Downloaded, Row, Item
  <2>2. (row \in [Device -> [Note -> Row]])'
    BY <1>6, <2>1 DEF Write, TypeOK
  <2>3. [Handled(run[d], n, R(d, n)) EXCEPT !.acted = TRUE] \in Run
    BY <1>1 DEF Run
  <2> QED
    BY <1>6, <2>2, <2>3, MoveType DEF Write, TypeOK, remote_vars, user_vars, States
<1> QED
  BY <1>3, <1>4, <1>5, <1>6

(* The end of the round.                                                   *)

LEMMA FinalType ==
    ASSUME TypeOK, NEW d \in Device
    PROVE  Final(d) \in [Note -> Item] /\ Settling(d) \in Run
<1>1. Final(d) \in [Note -> Item]
  BY RunFields, RowValues DEF Final
<1>2. Settling(d) \in Run
  <2> HIDE DEF Final
  <2> QED BY <1>1, RunFields, RunValues DEF Settling, Run
<1> QED
  BY <1>1, <1>2

LEMMA EndType ==
    ASSUME TypeOK, NEW d \in Device,
           \/ PutOk(d)   \/ PutLost(d) \/ PutConflict(d) \/ SkipPut(d)
           \/ Compare(d) \/ Mark(d)    \/ Unpurge(d)     \/ Abort(d)
    PROVE  TypeOK'
<1>0. 0 \in 0 .. MaxRetries - 1
  BY DEF MaxRetries
<1>1. ASSUME StoreManifest(d)
      PROVE  /\ (manifest \in [Note -> Item])' /\ (exists \in BOOLEAN)'
             /\ (published \subseteq Note \X Hash)' /\ (etagOk \in [Device -> BOOLEAN])'
  <2>1. PublishedBy(Final(d)) \subseteq Note \X Hash
    <3> HIDE DEF Final
    <3> QED BY FinalType DEF PublishedBy, Item
  <2> QED
    BY <1>1, <2>1, FinalType DEF StoreManifest, TypeOK
<1>2. CASE PutOk(d)
  BY <1>0, <1>1, <1>2, FinalType, MoveType DEF PutOk, TypeOK, local_vars, user_vars, States
<1>3. CASE PutLost(d)
  BY <1>0, <1>1, <1>3, RunValues, MoveType DEF PutLost, TypeOK, local_vars, user_vars, States
<1>4. CASE PutConflict(d)
  <2>1. (tries \in [Device -> 0 .. MaxRetries - 1])'
    <3>1. tries[d] \in 0 .. MaxRetries - 1
      BY DEF TypeOK
    <3>2. tries[d] + 1 < MaxRetries => tries[d] + 1 \in 0 .. MaxRetries - 1
      BY <3>1, SMT DEF MaxRetries
    <3>3. tries' = [tries EXCEPT ![d] = tries[d] + 1] \/ tries' = [tries EXCEPT ![d] = 0]
      BY <1>4 DEF PutConflict
    <3>4. tries[d] + 1 < MaxRetries \/ tries' = [tries EXCEPT ![d] = 0]
      BY <1>4 DEF PutConflict
    <3> QED BY <1>0, <3>2, <3>3, <3>4 DEF TypeOK
  <2>2. (pc \in [Device -> States])' /\ (run \in [Device -> Run])'
    BY <1>4, RunValues, MoveType DEF PutConflict, States
  <2> QED
    BY <1>4, <2>1, <2>2 DEF PutConflict, TypeOK, local_vars, remote_vars, user_vars
<1>5. CASE SkipPut(d)
  BY <1>0, <1>5, FinalType, MoveType
     DEF SkipPut, TypeOK, local_vars, remote_vars, user_vars, States
<1>6. CASE Compare(d)
  <2> DEFINE conv == {n \in Note \ run[d].failed :
                        /\ Present(row[d][n]) /\ Present(run[d].merged[n])
                        /\ ItemsEqual(row[d][n], run[d].merged[n])}
  <2>1. [run[d] EXCEPT !.conv = conv] \in Run
    <3>1. conv \subseteq Note
      OBVIOUS
    <3> HIDE DEF conv
    <3> QED BY <3>1, RunFields DEF Run
  <2>2. Move(d, "mark", [run[d] EXCEPT !.conv = conv])
    BY <1>6 DEF Compare
  <2> HIDE DEF conv
  <2> QED
    BY <1>6, <2>1, <2>2, MoveType
       DEF Compare, TypeOK, local_vars, remote_vars, user_vars, States
<1>7. CASE Mark(d)
  <2>1. (row \in [Device -> [Note -> Row]])'
    BY <1>7, RowValues DEF Mark, TypeOK
  <2>2. [run[d] EXCEPT !.psnap = purged[d]] \in Run
    <3>1. purged[d] \subseteq Note
      BY DEF TypeOK
    <3> QED BY <3>1, RunFields DEF Run
  <2> QED
    BY <1>7, <2>1, <2>2, MoveType DEF Mark, TypeOK, remote_vars, user_vars, States
<1>8. CASE Unpurge(d)
  <2>1. (purged \in [Device -> SUBSET Note])'
    BY <1>8, RunFields DEF Unpurge, TypeOK
  <2> QED
    BY <1>8, <2>1, RunValues, MoveType
       DEF Unpurge, TypeOK, remote_vars, user_vars, States
<1>9. CASE Abort(d)
  BY <1>0, <1>9, RunValues, MoveType
     DEF Abort, TypeOK, local_vars, remote_vars, user_vars, States
<1> QED
  BY <1>2, <1>3, <1>4, <1>5, <1>6, <1>7, <1>8, <1>9

LEMMA StartMergeType ==
    ASSUME TypeOK, NEW d \in Device, StartMerge(d) PROVE TypeOK'
<1> DEFINE todo == {n \in Note : Present(run[d].local[n]) \/ Present(run[d].snap[n])}
           r == [run[d] EXCEPT !.psnap = purged[d], !.todo = todo]
<1>1. r \in Run
  <2>1. todo \subseteq Note /\ purged[d] \subseteq Note
    BY DEF TypeOK
  <2> HIDE DEF todo
  <2> QED BY <2>1, RunFields, ZenonT(60) DEF Run
<1>2. Move(d, "merge", r)
  BY DEF StartMerge
<1> HIDE DEF r
<1> QED
  BY <1>1, <1>2, RoundType DEF StartMerge, States, TypeOK, remote_vars

LEMMA TypeNext == TypeOK /\ [Next]_vars => TypeOK'
<1> SUFFICES ASSUME TypeOK, [Next]_vars PROVE TypeOK'
  OBVIOUS
<1>1. ASSUME NEW d \in Device, Engine(d) PROVE TypeOK'
  <2>1. CASE MergeNote(d)
    BY <2>1, BranchType, ConflictType, FetchType DEF MergeNote
  <2>2. CASE Get(d)
    BY <2>2, GetType
  <2>3. CASE FirstUpload(d)
    BY <2>3, FirstUploadType
  <2>4. CASE StartMerge(d)
    BY <2>4, StartMergeType
  <2> QED
    BY <1>1, <2>1, <2>2, <2>3, <2>4, EndType DEF Engine
<1>2. CASE UNCHANGED vars
  BY <1>2 DEF TypeOK, vars
<1> QED
  BY <1>1, <1>2, UserType, EndType DEF Next, Fault

\* Whatever the users, the network and the engine do, every variable of the
\* system, the locals that a sync round carries across its awaits included,
\* stays within the notes, contents and states it was declared over.
THEOREM TypeCorrect == Spec => []TypeOK
  BY TypeInit, TypeNext, PTL DEF Spec

-----------------------------------------------------------------------------
(***************************************************************************)
(* Safety theorems about NoteSync: which entries a device may take out of  *)
(* the manifest, and what the base of the three-way comparison is.         *)
(***************************************************************************)

\* The states of a round in which its snapshots are in use.
Transfer == {"plan", "merge", "fetch", "write"}

-----------------------------------------------------------------------------
(* EntriesStay                                                             *)

\* While its ETag is good, what the round read is what the PUT replaces ...
SnapCurrent(d) ==
    etagOk[d] => run[d].snap = manifest /\ run[d].fresh = ~exists

\* ... a row of the local snapshot only goes away by a permanent delete ...
RowsKept(d) ==
    \A n \in Note : Present(L(d, n)) => Present(row[d][n]) \/ n \in purged[d]

\* ... one note at a time is downloaded, and only what the vault has ...
FetchesPresent(d) ==
    \A m, n \in run[d].cur : m = n /\ Present(R(d, n))

\* ... and every entry dealt with is still there or purged.
EntriesKept(d) ==
    \A n \in Note \ run[d].todo :
      (~run[d].fresh /\ Present(R(d, n))) => Present(run[d].merged[n]) \/ n \in purged[d]

RoundEntries(d) ==
    /\ pc[d] \in Transfer =>
         SnapCurrent(d) /\ run[d].psnap \subseteq purged[d] /\ RowsKept(d)
    /\ pc[d] \in {"fetch", "write"} => FetchesPresent(d)
    /\ pc[d] = "write" => \A n \in run[d].cur :
                            R(d, n).deleted => Present(run[d].existing)
    /\ pc[d] \in Transfer \ {"plan"} => EntriesKept(d)

EntryInv ==
    /\ exists \/ \A n \in Note : ~Present(manifest[n])
    /\ \A d \in Device : RoundEntries(d)

LEMMA EntriesInit == Init => EntryInv
<1> SUFFICES ASSUME Init PROVE EntryInv
  OBVIOUS
<1>1. exists \/ \A n \in Note : ~Present(manifest[n])
  <2>1. CASE Seeded # {}
    BY <2>1 DEF Init
  <2>2. CASE Seeded = {}
    BY <2>2 DEF Init, SeedRow, AsItem, NoRow, Present
  <2> QED BY <2>1, <2>2
<1> QED
  BY <1>1 DEF Init, EntryInv, RoundEntries, Transfer

\* A step of d leaves the rounds of the others alone, but that a PUT makes
\* their ETags stale.
LEMMA OthersEntries ==
    ASSUME TypeOK, EntryInv, NEW d \in Device, NEW e \in Device \ {d},
           pc'[e] = pc[e], run'[e] = run[e], row'[e] = row[e], purged'[e] = purged[e],
           \/ UNCHANGED <<manifest, exists>> /\ etagOk'[e] = etagOk[e]
           \/ etagOk'[e] = FALSE
    PROVE  RoundEntries(e)'
  BY DEF EntryInv, RoundEntries, SnapCurrent, RowsKept, FetchesPresent, EntriesKept,
         L, R, Present

LEMMA UserRows ==
    ASSUME TypeOK, NEW d \in Device, User(d)
    PROVE  /\ purged[d] \subseteq purged'[d]
           /\ \A m \in Note : Present(row[d][m]) => Present(row'[d][m]) \/ m \in purged'[d]
           /\ \A e \in Device \ {d} : row'[e] = row[e] /\ purged'[e] = purged[e]
           /\ UNCHANGED engine_vars
<1>1. PICK n \in Note :
        \/ AddNote(d, n)    \/ Edit(d, n)       \/ OpenEditor(d, n)
        \/ SaveEditor(d, n) \/ SoftDelete(d, n) \/ RestoreNote(d, n)
        \/ HardDelete(d, n)
  BY DEF User
<1>2. \A h \in Content : h # 0
  BY BoundsAssumption, SMT DEF Content
<1>3. CASE AddNote(d, n)
  BY <1>2, <1>3 DEF AddNote, TypeOK, Unsynced, Present
<1>4. ASSUME NEW orig, SaveNote(d, n, orig)
      PROVE  /\ purged' = purged
             /\ \A m \in Note : Present(row[d][m]) => Present(row'[d][m])
             /\ \A e \in Device \ {d} : row'[e] = row[e]
             /\ UNCHANGED engine_vars
  BY <1>2, <1>4 DEF SaveNote, Saved, TypeOK, Present
<1>5. CASE Edit(d, n)
  BY <1>4, <1>5 DEF Edit
<1>6. CASE SaveEditor(d, n)
  BY <1>4, <1>6 DEF SaveEditor
<1>7. CASE OpenEditor(d, n)
  BY <1>7 DEF OpenEditor
<1>8. CASE SoftDelete(d, n)
  BY <1>8 DEF SoftDelete, TypeOK, Row, Present
<1>9. CASE RestoreNote(d, n)
  BY <1>9 DEF RestoreNote, TypeOK, Row, Present
<1>10. CASE HardDelete(d, n)
  BY <1>10 DEF HardDelete, TypeOK
<1> QED
  BY <1>1, <1>3, <1>5, <1>6, <1>7, <1>8, <1>9, <1>10

LEMMA UserEntries ==
    ASSUME TypeOK, EntryInv, NEW d \in Device, User(d) PROVE EntryInv'
<1>1. UNCHANGED <<manifest, exists, pc, run, etagOk>>
  BY UserRows DEF engine_vars
<1>2. RoundEntries(d)'
  BY <1>1, UserRows
     DEF EntryInv, RoundEntries, SnapCurrent, RowsKept, FetchesPresent, EntriesKept,
         L, R, Present
<1>3. ASSUME NEW e \in Device \ {d} PROVE RoundEntries(e)'
  BY <1>1, UserRows, OthersEntries
<1> QED
  BY <1>1, <1>2, <1>3 DEF EntryInv, Present

\* What a step inside the merge has to show.
LEMMA MergeEntries ==
    ASSUME TypeOK, EntryInv, NEW d \in Device, pc[d] \in Transfer,
           NEW s \in Transfer \ {"plan"}, NEW r \in Run, Move(d, s, r),
           UNCHANGED <<manifest, exists, etagOk, purged>>,
           r.fresh = run[d].fresh, r.snap = run[d].snap, r.local = run[d].local,
           r.psnap \in {run[d].psnap, purged[d]},
           \A m \in Note : Present(row[d][m]) => Present(row'[d][m]),
           \A e \in Device \ {d} : row'[e] = row[e],
           \A m \in Note \ r.todo : (~r.fresh /\ Present(R(d, m)))
                => Present(r.merged[m]) \/ m \in purged[d],
           s # "merge" => \A k, m \in r.cur : k = m /\ Present(R(d, m)),
           s = "write" => \A m \in r.cur : R(d, m).deleted => Present(r.existing)
    PROVE  EntryInv'
<1>1. pc'[d] = s /\ run'[d] = r
  BY DEF Move, TypeOK
<1>2. RoundEntries(d)
  BY DEF EntryInv
<1>3. SnapCurrent(d)' /\ (run[d].psnap \subseteq purged[d])' /\ RowsKept(d)'
  BY <1>1, <1>2 DEF RoundEntries, SnapCurrent, RowsKept, L
<1>4. RoundEntries(d)'
  BY <1>1, <1>3 DEF RoundEntries, FetchesPresent, EntriesKept, R, Transfer
<1>5. ASSUME NEW e \in Device \ {d} PROVE RoundEntries(e)'
  BY <1>5, OthersEntries DEF Move, TypeOK
<1> QED
  BY <1>4, <1>5 DEF EntryInv

\* What a step that ends the merge has to show: nothing.
LEMMA EndEntries ==
    ASSUME TypeOK, EntryInv, NEW d \in Device, NEW s \in States \ Transfer, NEW r,
           Move(d, s, r),
           \/ UNCHANGED <<manifest, exists, etagOk>>
           \/ exists' = TRUE /\ etagOk' = [e \in Device |-> FALSE],
           \A e \in Device \ {d} : row'[e] = row[e] /\ purged'[e] = purged[e]
    PROVE  EntryInv'
<1>1. RoundEntries(d)'
  BY DEF Move, TypeOK, RoundEntries, Transfer
<1>2. ASSUME NEW e \in Device \ {d} PROVE RoundEntries(e)'
  BY <1>2, OthersEntries DEF Move, TypeOK
<1> QED
  BY <1>1, <1>2 DEF EntryInv

\* Whatever n becomes, the round has dealt with it.
LEMMA HandledEntries ==
    ASSUME TypeOK, EntryInv, NEW d \in Device, NEW n \in Note,
           pc[d] \in Transfer \ {"plan"},
           NEW q \in Run, q.fresh = run[d].fresh, q.snap = run[d].snap,
           q.local = run[d].local, q.psnap = run[d].psnap, q.todo = run[d].todo,
           \A m \in Note : Present(run[d].merged[m]) => Present(q.merged[m]),
           NEW x \in Item, NEW g \in Run,
           g.fresh = q.fresh, g.snap = q.snap, g.local = q.local, g.psnap = q.psnap,
           g.todo = q.todo \ {n}, g.merged = [q.merged EXCEPT ![n] = x],
           Present(R(d, n)) => Present(x) \/ n \in purged[d],
           Move(d, "merge", g),
           UNCHANGED <<manifest, exists, etagOk, purged>>,
           \A m \in Note : Present(row[d][m]) => Present(row'[d][m]),
           \A e \in Device \ {d} : row'[e] = row[e]
    PROVE  EntryInv'
<1>1. EntriesKept(d)
  BY DEF EntryInv, RoundEntries
<1>2. \A m \in Note \ g.todo : (~g.fresh /\ Present(R(d, m)))
         => Present(g.merged[m]) \/ m \in purged[d]
  BY <1>1 DEF EntriesKept, Run
<1> QED
  BY <1>2, MergeEntries DEF Transfer

LEMMA HandledFields ==
    ASSUME NEW r \in Run, NEW n \in Note, NEW x \in Item
    PROVE  LET h == Handled(r, n, x) IN
           /\ h \in Run /\ h.fresh = r.fresh /\ h.snap = r.snap /\ h.local = r.local
           /\ h.psnap = r.psnap /\ h.todo = r.todo \ {n}
           /\ h.merged = [r.merged EXCEPT ![n] = x]
           /\ h.failed = r.failed /\ h.acted = r.acted
<1>1. Handled(r, n, x) \in Run
  BY RunValues
<1> QED
  BY <1>1 DEF Handled, Run

LEMMA BranchEntries ==
    ASSUME TypeOK, EntryInv, NEW d \in Device, NEW n \in Note,
           \/ SkipPurged(d, n)       \/ RemoteOnly(d, n) \/ LocalOnly(d, n)
           \/ KeepEqual(d, n)        \/ FastForwardLocal(d, n)
           \/ FastForwardRemote(d, n)
    PROVE  EntryInv'
<1>0. L(d, n) \in Item /\ R(d, n) \in Item /\ run[d] \in Run /\ NoItem \in Item
  BY RunFields, RowValues
<1>1. pc[d] = "merge" /\ RoundEntries(d) /\ EntriesKept(d) /\ run[d].psnap \subseteq purged[d]
  BY DEF SkipPurged, RemoteOnly, LocalOnly, KeepEqual, FastForwardLocal,
         FastForwardRemote, Merging, EntryInv, RoundEntries, Transfer
<1>2. ASSUME NEW x \in Item, NEW acted \in BOOLEAN, NEW failed \in SUBSET Note,
             Move(d, "merge", [Handled(run[d], n, x) EXCEPT !.acted = acted, !.failed = failed]),
             Present(R(d, n)) => Present(x) \/ n \in purged[d],
             UNCHANGED <<local_vars, manifest, exists, etagOk>>
      PROVE  EntryInv'
  <2> DEFINE h == Handled(run[d], n, x)
             g == [h EXCEPT !.acted = acted, !.failed = failed]
  <2>1. h \in Run /\ h.fresh = run[d].fresh /\ h.snap = run[d].snap
        /\ h.local = run[d].local /\ h.psnap = run[d].psnap
        /\ h.todo = run[d].todo \ {n} /\ h.merged = [run[d].merged EXCEPT ![n] = x]
    BY <1>0, HandledFields
  <2>2. g \in Run /\ g.fresh = run[d].fresh /\ g.snap = run[d].snap
        /\ g.local = run[d].local /\ g.psnap = run[d].psnap
        /\ g.todo = run[d].todo \ {n} /\ g.merged = [run[d].merged EXCEPT ![n] = x]
    <3> HIDE DEF h
    <3> QED BY <2>1 DEF Run
  <2> HIDE DEF g
  <2>3. Move(d, "merge", g)
    BY <1>2 DEF g
  <2> QED
    BY <1>0, <1>1, <1>2, <2>2, <2>3, HandledEntries DEF local_vars, Transfer
<1>3. ASSUME NEW x \in Item, Move(d, "merge", Handled(run[d], n, x)),
             Present(R(d, n)) => Present(x) \/ n \in purged[d],
             UNCHANGED <<local_vars, manifest, exists, etagOk>>
      PROVE  EntryInv'
  <2> DEFINE g == Handled(run[d], n, x)
  <2>1. g \in Run /\ g.fresh = run[d].fresh /\ g.snap = run[d].snap
        /\ g.local = run[d].local /\ g.psnap = run[d].psnap
        /\ g.todo = run[d].todo \ {n} /\ g.merged = [run[d].merged EXCEPT ![n] = x]
    BY <1>0, HandledFields
  <2>2. Move(d, "merge", g)
    BY <1>3
  <2> HIDE DEF g
  <2> QED
    BY <1>0, <1>1, <1>3, <2>1, <2>2, HandledEntries DEF local_vars, Transfer
<1>4. ASSUME NEW x \in Item, NEW y \in Item, Send(d, n, row[d][n], x, y),
             Present(R(d, n)) => Present(x) /\ Present(y),
             UNCHANGED <<local_vars, manifest, exists, etagOk>>
      PROVE  EntryInv'
  <2>1. PICK ok \in BOOLEAN :
          Move(d, "merge", [Handled(run[d], n, IF ok THEN x ELSE y) EXCEPT
             !.acted = @ \/ ok, !.failed = IF ok THEN @ ELSE @ \cup {n}])
    BY <1>4 DEF Send
  <2> DEFINE z == IF ok THEN x ELSE y
             h == Handled(run[d], n, z)
             acted == h.acted \/ ok
             failed == IF ok THEN h.failed ELSE h.failed \cup {n}
  <2>2. z \in Item /\ (Present(R(d, n)) => Present(z))
    BY <1>4
  <2>3. acted \in BOOLEAN /\ failed \in SUBSET Note
    <3>1. h \in Run
      BY <1>0, <2>2, RunValues
    <3> HIDE DEF h
    <3> QED BY <3>1 DEF Run
  <2>4. Move(d, "merge", [Handled(run[d], n, z) EXCEPT !.acted = acted, !.failed = failed])
    BY <2>1, Zenon
  <2> HIDE DEF z, acted, failed
  <2> QED
    BY <1>2, <1>4, <2>2, <2>3, <2>4
<1>5. ASSUME StartDownload(d, n), Present(R(d, n)),
             UNCHANGED <<local_vars, manifest, exists, etagOk>>
      PROVE  EntryInv'
  <2> DEFINE g == [run[d] EXCEPT !.cur = {n}]
  <2>1. g \in Run /\ g.fresh = run[d].fresh /\ g.snap = run[d].snap
        /\ g.local = run[d].local /\ g.psnap = run[d].psnap
        /\ g.todo = run[d].todo /\ g.merged = run[d].merged /\ g.cur = {n}
    BY <1>0, DownloadType DEF Run
  <2>2. Move(d, "fetch", g)
    BY <1>5 DEF StartDownload
  <2> HIDE DEF g
  <2> QED
    BY <1>1, <1>5, <2>1, <2>2, MergeEntries DEF EntriesKept, local_vars, Transfer
<1>6. CASE SkipPurged(d, n)
  BY <1>0, <1>1, <1>3, <1>6 DEF SkipPurged, remote_vars
<1>7. CASE RemoteOnly(d, n)
  BY <1>5, <1>7 DEF RemoteOnly, remote_vars
<1>8. CASE LocalOnly(d, n)
  BY <1>0, <1>3, <1>4, <1>8 DEF LocalOnly
<1>9. CASE KeepEqual(d, n)
  BY <1>0, <1>3, <1>9 DEF KeepEqual, remote_vars
<1>10. CASE FastForwardLocal(d, n)
  BY <1>0, <1>4, <1>10 DEF FastForwardLocal, Differ
<1>11. CASE FastForwardRemote(d, n)
  BY <1>5, <1>11 DEF FastForwardRemote, Differ, remote_vars
<1> QED
  BY <1>6, <1>7, <1>8, <1>9, <1>10, <1>11

LEMMA CopyEntries ==
    ASSUME TypeOK, NEW d \in Device, NEW wanted, NEW cp \in Copies(wanted),
           NEW h \in Hash, wanted => h # 0, StoreCopy(d, h, cp)
    PROVE  /\ purged' = purged
           /\ \A m \in Note : Present(row[d][m]) => Present(row'[d][m])
           /\ \A e \in Device \ {d} : row'[e] = row[e]
           /\ LET q == WithCopy(run[d], cp) IN
              /\ q \in Run /\ q.fresh = run[d].fresh /\ q.snap = run[d].snap
              /\ q.local = run[d].local /\ q.psnap = run[d].psnap
              /\ q.todo = run[d].todo
              /\ \A m \in Note : Present(run[d].merged[m]) => Present(q.merged[m])
<1>1. cp.note # {} => cp.hash # 0
  <2>1. CASE cp = NoCopy
    BY <2>1 DEF NoCopy
  <2>2. CASE cp # NoCopy
    <3>1. cp.hash \in Content
      BY <2>2, Zenon DEF Copies
    <3> QED BY <3>1, BoundsAssumption, SMT DEF Content
  <2> QED BY <2>1, <2>2
<1>2. purged' = purged /\ \A e \in Device \ {d} : row'[e] = row[e]
  BY DEF StoreCopy, TypeOK
<1>3. \A m \in Note : Present(row[d][m]) => Present(row'[d][m])
  BY <1>1 DEF StoreCopy, TypeOK, Present, Unsynced
<1> DEFINE q == WithCopy(run[d], cp)
           items == [m \in Note |-> IF m \in cp.note /\ cp.ok
                       THEN AsItem(Unsynced(cp.hash, cp.at)) ELSE run[d].merged[m]]
<1>4. q \in Run
  BY CopyType
<1>5. /\ q.fresh = run[d].fresh /\ q.snap = run[d].snap /\ q.local = run[d].local
      /\ q.psnap = run[d].psnap /\ q.todo = run[d].todo /\ q.merged = items
  <2>1. run[d] \in Run
    BY RunFields
  <2>2. q = [run[d] EXCEPT !.merged = items, !.acted = @ \/ cp.ok,
                           !.failed = IF cp.ok THEN @ ELSE @ \cup cp.note]
    BY <2>1, Zenon DEF WithCopy
  <2> HIDE DEF items, q
  <2> QED BY <2>1, <2>2 DEF Run
<1>6. \A m \in Note : Present(run[d].merged[m]) => Present(items[m])
  BY <1>1 DEF Present, AsItem, Unsynced
<1> HIDE DEF q, items
<1>7. \A m \in Note : Present(run[d].merged[m]) => Present(q.merged[m])
  BY <1>5, <1>6
<1> QED
  BY <1>2, <1>3, <1>4, <1>5, <1>7 DEF q

LEMMA ConflictEntries ==
    ASSUME TypeOK, EntryInv, NEW d \in Device, NEW n \in Note,
           ConflictLocalWins(d, n) \/ ConflictLocalGone(d, n) \/ ConflictRemoteWins(d, n)
    PROVE  EntryInv'
<1>0. /\ L(d, n) \in Item /\ R(d, n) \in Item /\ run[d] \in Run /\ NoItem \in Item
      /\ row[d][n].hash \in Hash /\ R(d, n).hash \in Hash
  BY RunFields, RowValues DEF Item
<1>1. /\ pc[d] = "merge" /\ RoundEntries(d) /\ EntriesKept(d) /\ RowsKept(d)
      /\ Present(L(d, n)) /\ Present(R(d, n))
  BY DEF ConflictLocalWins, ConflictLocalGone, ConflictRemoteWins, Conflict, Differ,
         Merging, EntryInv, RoundEntries, Transfer
<1>2. CASE ConflictLocalWins(d, n)
  <2>1. PICK cp \in Copies(BothLive(d, n) /\ R(d, n).hash \in blobs), ok \in BOOLEAN :
          /\ StoreCopy(d, R(d, n).hash, cp)
          /\ Move(d, "merge",
                  [Handled(WithCopy(run[d], cp), n, IF ok THEN L(d, n) ELSE R(d, n))
                   EXCEPT !.acted = @ \/ ok, !.failed = IF ok THEN @ ELSE @ \cup {n}])
    BY <1>2 DEF ConflictLocalWins
  <2> DEFINE q == WithCopy(run[d], cp)
             x == IF ok THEN L(d, n) ELSE R(d, n)
             h == Handled(q, n, x)
             g == [h EXCEPT !.acted = @ \/ ok, !.failed = IF ok THEN @ ELSE @ \cup {n}]
  <2>2. x \in Item /\ Present(x)
    BY <1>0, <1>1
  <2>3. /\ purged' = purged
        /\ \A m \in Note : Present(row[d][m]) => Present(row'[d][m])
        /\ \A e \in Device \ {d} : row'[e] = row[e]
        /\ q \in Run /\ q.fresh = run[d].fresh /\ q.snap = run[d].snap
        /\ q.local = run[d].local /\ q.psnap = run[d].psnap /\ q.todo = run[d].todo
        /\ \A m \in Note : Present(run[d].merged[m]) => Present(q.merged[m])
    BY <1>0, <1>1, <2>1, CopyEntries DEF Present
  <2>4. Move(d, "merge", g)
    BY <2>1
  <2> HIDE DEF q, x
  <2>5. h \in Run /\ h.fresh = q.fresh /\ h.snap = q.snap /\ h.local = q.local
        /\ h.psnap = q.psnap /\ h.todo = q.todo \ {n}
        /\ h.merged = [q.merged EXCEPT ![n] = x]
    BY <2>2, <2>3, HandledFields
  <2> HIDE DEF h
  <2>6. g \in Run /\ g.fresh = q.fresh /\ g.snap = q.snap /\ g.local = q.local
        /\ g.psnap = q.psnap /\ g.todo = q.todo \ {n}
        /\ g.merged = [q.merged EXCEPT ![n] = x]
    BY <2>5 DEF Run
  <2> HIDE DEF g
  <2>7. UNCHANGED <<manifest, exists, etagOk>>
    BY <1>2 DEF ConflictLocalWins
  <2> QED
    BY <1>1, <2>2, <2>3, <2>4, <2>6, <2>7, HandledEntries DEF Transfer
<1>3. CASE ConflictLocalGone(d, n)
  <2>1. PICK cp \in Copies(BothLive(d, n) /\ R(d, n).hash \in blobs) :
          /\ StoreCopy(d, R(d, n).hash, cp)
          /\ Move(d, "merge", Handled(WithCopy(run[d], cp), n, NoItem))
    BY <1>3 DEF ConflictLocalGone
  <2> DEFINE q == WithCopy(run[d], cp)
             g == Handled(q, n, NoItem)
  <2>2. /\ purged' = purged
        /\ \A m \in Note : Present(row[d][m]) => Present(row'[d][m])
        /\ \A e \in Device \ {d} : row'[e] = row[e]
        /\ q \in Run /\ q.fresh = run[d].fresh /\ q.snap = run[d].snap
        /\ q.local = run[d].local /\ q.psnap = run[d].psnap /\ q.todo = run[d].todo
        /\ \A m \in Note : Present(run[d].merged[m]) => Present(q.merged[m])
    BY <1>0, <1>1, <2>1, CopyEntries DEF Present
  <2>3. n \in purged[d]
    BY <1>1, <1>3 DEF ConflictLocalGone, RowsKept
  <2>4. Move(d, "merge", g)
    BY <2>1
  <2> HIDE DEF q
  <2>5. g \in Run /\ g.fresh = q.fresh /\ g.snap = q.snap /\ g.local = q.local
        /\ g.psnap = q.psnap /\ g.todo = q.todo \ {n}
        /\ g.merged = [q.merged EXCEPT ![n] = NoItem]
    BY <1>0, <2>2, HandledFields
  <2> HIDE DEF g
  <2>6. UNCHANGED <<manifest, exists, etagOk>>
    BY <1>3 DEF ConflictLocalGone
  <2> QED
    BY <1>0, <1>1, <2>2, <2>3, <2>4, <2>5, <2>6, HandledEntries DEF Transfer
<1>4. CASE ConflictRemoteWins(d, n)
  <2>1. PICK cp \in Copies(BothLive(d, n) /\ Present(row[d][n])) :
          /\ StoreCopy(d, row[d][n].hash, cp)
          /\ Move(d, "fetch", [WithCopy(run[d], cp) EXCEPT !.cur = {n}])
    BY <1>4 DEF ConflictRemoteWins
  <2> DEFINE q == WithCopy(run[d], cp)
             g == [q EXCEPT !.cur = {n}]
  <2>2. /\ purged' = purged
        /\ \A m \in Note : Present(row[d][m]) => Present(row'[d][m])
        /\ \A e \in Device \ {d} : row'[e] = row[e]
        /\ q \in Run /\ q.fresh = run[d].fresh /\ q.snap = run[d].snap
        /\ q.local = run[d].local /\ q.psnap = run[d].psnap /\ q.todo = run[d].todo
        /\ \A m \in Note : Present(run[d].merged[m]) => Present(q.merged[m])
    BY <1>0, <1>1, <2>1, CopyEntries, ZenonT(60) DEF Present
  <2>3. Move(d, "fetch", g)
    BY <2>1
  <2> HIDE DEF q
  <2>4. g \in Run /\ g.fresh = q.fresh /\ g.snap = q.snap /\ g.local = q.local
        /\ g.psnap = q.psnap /\ g.todo = q.todo /\ g.merged = q.merged /\ g.cur = {n}
    BY <2>2 DEF Run
  <2> HIDE DEF g
  <2>5. UNCHANGED <<manifest, exists, etagOk>>
    BY <1>4 DEF ConflictRemoteWins
  <2> QED
    BY <1>1, <2>2, <2>3, <2>4, <2>5, MergeEntries DEF EntriesKept, Transfer
<1> QED
  BY <1>2, <1>3, <1>4

LEMMA FetchEntries ==
    ASSUME TypeOK, EntryInv, NEW d \in Device, NEW n \in Note,
           FetchTombstone(d, n) \/ FetchMissing(d, n) \/ FetchBlob(d, n) \/ Write(d, n)
    PROVE  EntryInv'
<1>0. R(d, n) \in Item /\ row[d][n] \in Row /\ run[d] \in Run /\ run[d].existing \in Row
  BY RunFields
<1>1. /\ pc[d] \in {"fetch", "write"} /\ n \in run[d].cur
      /\ RoundEntries(d) /\ EntriesKept(d) /\ FetchesPresent(d)
  BY DEF FetchTombstone, FetchMissing, FetchBlob, Write, Fetching, EntryInv,
         RoundEntries, Transfer
<1> DEFINE h == Handled(run[d], n, R(d, n))
<1>2. h \in Run /\ h.fresh = run[d].fresh /\ h.snap = run[d].snap
      /\ h.local = run[d].local /\ h.psnap = run[d].psnap
      /\ h.todo = run[d].todo \ {n} /\ h.merged = [run[d].merged EXCEPT ![n] = R(d, n)]
  BY <1>0, HandledFields
<1> HIDE DEF h
<1>3. ASSUME NEW acted \in BOOLEAN, NEW failed \in SUBSET Note,
             Move(d, "merge", [h EXCEPT !.acted = acted, !.failed = failed]),
             UNCHANGED <<manifest, exists, etagOk, purged>>,
             \A m \in Note : Present(row[d][m]) => Present(row'[d][m]),
             \A e \in Device \ {d} : row'[e] = row[e]
      PROVE  EntryInv'
  <2> DEFINE g == [h EXCEPT !.acted = acted, !.failed = failed]
  <2>1. g \in Run /\ g.fresh = run[d].fresh /\ g.snap = run[d].snap
        /\ g.local = run[d].local /\ g.psnap = run[d].psnap
        /\ g.todo = run[d].todo \ {n} /\ g.merged = [run[d].merged EXCEPT ![n] = R(d, n)]
    BY <1>2 DEF Run
  <2>2. Move(d, "merge", g)
    BY <1>3
  <2> HIDE DEF g
  <2> QED
    BY <1>0, <1>1, <1>3, <2>1, <2>2, HandledEntries DEF Transfer
<1>4. ASSUME Move(d, "merge", h), UNCHANGED <<local_vars, manifest, exists, etagOk>>
      PROVE  EntryInv'
  BY <1>0, <1>1, <1>2, <1>4, HandledEntries DEF local_vars, Transfer
<1>5. ASSUME Move(d, "write", [run[d] EXCEPT !.existing = row[d][n]]),
             R(d, n).deleted => Present(row[d][n]),
             UNCHANGED <<row, purged, manifest, exists, etagOk>>
      PROVE  EntryInv'
  <2> DEFINE g == [run[d] EXCEPT !.existing = row[d][n]]
  <2>1. g \in Run /\ g.fresh = run[d].fresh /\ g.snap = run[d].snap
        /\ g.local = run[d].local /\ g.psnap = run[d].psnap
        /\ g.todo = run[d].todo /\ g.merged = run[d].merged
        /\ g.cur = run[d].cur /\ g.existing = row[d][n]
    BY <1>0 DEF Run
  <2>2. Move(d, "write", g)
    BY <1>5
  <2> HIDE DEF g
  <2> QED
    BY <1>1, <1>5, <2>1, <2>2, MergeEntries DEF EntriesKept, FetchesPresent, Transfer
<1>6. CASE FetchTombstone(d, n)
  BY <1>4, <1>5, <1>6 DEF FetchTombstone, local_vars, remote_vars, Live, Present, h
<1>7. CASE FetchMissing(d, n)
  <2>1. CASE Move(d, "merge", h)
    BY <1>4, <1>7, <2>1 DEF FetchMissing
  <2>2. CASE ~Move(d, "merge", h)
    <3>1. PICK m \in Note, ok \in BOOLEAN :
            Move(d, "merge", [h EXCEPT
                   !.acted = @ \/ ok, !.failed = IF ok THEN @ ELSE @ \cup {m}])
      BY <1>7, <2>2 DEF FetchMissing, h
    <3> DEFINE acted == h.acted \/ ok
               failed == IF ok THEN h.failed ELSE h.failed \cup {m}
    <3>2. acted \in BOOLEAN /\ failed \in SUBSET Note
      BY <1>2 DEF Run
    <3>3. Move(d, "merge", [h EXCEPT !.acted = acted, !.failed = failed])
      BY <3>1, Zenon
    <3> HIDE DEF acted, failed
    <3> QED
      BY <1>3, <1>7, <3>2, <3>3 DEF FetchMissing, local_vars
  <2> QED
    BY <2>1, <2>2
<1>8. CASE FetchBlob(d, n)
  BY <1>5, <1>8 DEF FetchBlob, remote_vars
<1>9. CASE Write(d, n)
  <2>1. Present(run[d].existing) => Present(Downloaded(R(d, n), run[d].existing))
    BY <1>0, <1>1 DEF FetchesPresent, Downloaded, Unsynced, Present, Row
  <2>2. R(d, n).deleted => Present(run[d].existing)
    BY <1>1, <1>9 DEF RoundEntries, Write
  <2>3. Present(Downloaded(R(d, n), run[d].existing))
    BY <1>1, <2>1, <2>2 DEF FetchesPresent, Downloaded, Unsynced, Present
  <2>4. /\ \A m \in Note : Present(row[d][m]) => Present(row'[d][m])
        /\ \A e \in Device \ {d} : row'[e] = row[e]
    <3>1. \/ row' = [row EXCEPT ![d][n] = Downloaded(R(d, n), run[d].existing)]
          \/ row' = row
      BY <1>9 DEF Write
    <3> DEFINE new == Downloaded(R(d, n), run[d].existing)
    <3> HIDE DEF new
    <3>2. CASE row' = [row EXCEPT ![d][n] = new]
      BY <2>3, <3>2 DEF TypeOK, new
    <3>3. CASE row' = row
      BY <3>3
    <3> QED BY <3>1, <3>2, <3>3 DEF new
  <2>5. Move(d, "merge", [h EXCEPT !.acted = TRUE, !.failed = h.failed])
    <3>1. [h EXCEPT !.acted = TRUE] = [h EXCEPT !.acted = TRUE, !.failed = h.failed]
      BY <1>2 DEF Run
    <3> QED BY <1>9, <3>1 DEF Write, h
  <2>6. h.failed \in SUBSET Note
    BY <1>2 DEF Run
  <2> QED
    BY <1>3, <1>9, <2>4, <2>5, <2>6 DEF Write, remote_vars
<1> QED
  BY <1>6, <1>7, <1>8, <1>9

LEMMA StartEntries ==
    ASSUME TypeOK, EntryInv, NEW d \in Device, Get(d) \/ FirstUpload(d) \/ StartMerge(d)
    PROVE  EntryInv'
<1>0. run[d] \in Run /\ RoundEntries(d)
  BY RunFields DEF EntryInv
<1>1. CASE Get(d)
  <2>1. PICK gone \in SUBSET {n \in Note : row[d][n].deleted} :
          LET kept == [n \in Note |-> IF n \in gone THEN NoRow ELSE row[d][n]] IN
          /\ row' = [row EXCEPT ![d] = kept]
          /\ purged' = [purged EXCEPT ![d] = @ \cup gone]
          /\ Move(d, "plan", [IdleRun EXCEPT
                 !.fresh = ~exists, !.snap = manifest,
                 !.local = [n \in Note |-> AsItem(kept[n])]])
    BY <1>1 DEF Get
  <2> DEFINE kept == [n \in Note |-> IF n \in gone THEN NoRow ELSE row[d][n]]
             items == [n \in Note |-> AsItem(kept[n])]
             r == [IdleRun EXCEPT !.fresh = ~exists, !.snap = manifest, !.local = items]
  <2>2. row'[d] = kept /\ \A n \in Note : Present(items[n]) => Present(kept[n])
    BY <2>1 DEF TypeOK, Present, AsItem
  <2>3. pc'[d] = "plan" /\ run'[d] = r /\ UNCHANGED <<manifest, exists>>
        /\ etagOk'[d] = TRUE
        /\ \A e \in Device \ {d} :
             row'[e] = row[e] /\ purged'[e] = purged[e] /\ pc'[e] = pc[e]
             /\ run'[e] = run[e] /\ etagOk'[e] = etagOk[e]
    BY <1>1, <2>1, ZenonT(60) DEF Get, Move, TypeOK, remote_vars
  <2> HIDE DEF kept
  <2>4. r.fresh = ~exists /\ r.snap = manifest /\ r.local = items /\ r.psnap = {}
    BY DEF IdleRun
  <2> HIDE DEF r, items
  <2>5. RoundEntries(d)'
    BY <2>2, <2>3, <2>4 DEF RoundEntries, SnapCurrent, RowsKept, L, Transfer
  <2>6. ASSUME NEW e \in Device \ {d} PROVE RoundEntries(e)'
    BY <2>3, OthersEntries
  <2> QED
    BY <2>3, <2>5, <2>6 DEF EntryInv
<1>2. CASE FirstUpload(d)
  <2>1. PICK failed \in SUBSET Note :
          Move(d, "merge", [run[d] EXCEPT
               !.merged = [n \in Note |-> IF n \in purged[d] \cup failed
                                          THEN NoItem ELSE run[d].local[n]],
               !.failed = failed, !.acted = TRUE])
    BY <1>2 DEF FirstUpload
  <2> DEFINE items == [n \in Note |-> IF n \in purged[d] \cup failed
                                      THEN NoItem ELSE run[d].local[n]]
             r == [run[d] EXCEPT !.merged = items, !.failed = failed, !.acted = TRUE]
  <2>2. items \in [Note -> Item]
    BY RunFields, RowValues DEF L
  <2>3. Move(d, "merge", r)
    BY <2>1
  <2> HIDE DEF items
  <2>4. r \in Run /\ r.fresh = run[d].fresh /\ r.snap = run[d].snap
        /\ r.local = run[d].local /\ r.psnap = run[d].psnap
    BY <1>0, <2>2 DEF Run
  <2> HIDE DEF r
  <2> QED
    BY <1>2, <2>3, <2>4, MergeEntries DEF FirstUpload, local_vars, Transfer
<1>3. CASE StartMerge(d)
  <2> DEFINE todo == {n \in Note : Present(run[d].local[n]) \/ Present(run[d].snap[n])}
             r == [run[d] EXCEPT !.psnap = purged[d], !.todo = todo]
  <2>1. todo \subseteq Note /\ purged[d] \subseteq Note
    BY DEF TypeOK
  <2>2. \A n \in Note \ todo : ~Present(R(d, n))
    BY DEF R
  <2>3. Move(d, "merge", r)
    BY <1>3 DEF StartMerge
  <2> HIDE DEF todo
  <2>4. r \in Run /\ r.fresh = run[d].fresh /\ r.snap = run[d].snap /\ r.todo = todo
        /\ r.local = run[d].local /\ r.psnap = purged[d]
    BY <1>0, <2>1 DEF Run
  <2> HIDE DEF r
  <2> QED
    BY <1>3, <2>2, <2>3, <2>4, MergeEntries DEF StartMerge, local_vars, remote_vars, Transfer
<1> QED
  BY <1>1, <1>2, <1>3

LEMMA EntriesNext == TypeOK /\ EntryInv /\ [Next]_vars => EntryInv'
<1> SUFFICES ASSUME TypeOK, EntryInv, [Next]_vars PROVE EntryInv'
  OBVIOUS
<1>1. ASSUME NEW d \in Device,
             \/ PutOk(d)   \/ PutLost(d) \/ PutConflict(d) \/ SkipPut(d)
             \/ Compare(d) \/ Mark(d)    \/ Unpurge(d)     \/ Abort(d)
      PROVE  EntryInv'
  <2>1. PICK s \in States \ Transfer : \E r : Move(d, s, r)
    BY <1>1 DEF PutOk, PutLost, PutConflict, SkipPut, Compare, Mark, Unpurge, Abort,
                States, Transfer
  <2>2. \/ UNCHANGED <<manifest, exists, etagOk>>
        \/ exists' = TRUE /\ etagOk' = [e \in Device |-> FALSE]
    BY <1>1 DEF PutOk, PutLost, PutConflict, SkipPut, Compare, Mark, Unpurge, Abort,
                StoreManifest, remote_vars
  <2>3. \A e \in Device \ {d} : row'[e] = row[e] /\ purged'[e] = purged[e]
    BY <1>1 DEF PutOk, PutLost, PutConflict, SkipPut, Compare, Mark, Unpurge, Abort,
                local_vars, TypeOK
  <2> QED
    BY <2>1, <2>2, <2>3, EndEntries
<1>2. ASSUME NEW d \in Device, Engine(d) PROVE EntryInv'
  <2>1. CASE MergeNote(d)
    BY <2>1, BranchEntries, ConflictEntries, FetchEntries DEF MergeNote
  <2> QED
    BY <1>1, <1>2, <2>1, StartEntries DEF Engine
<1>3. CASE UNCHANGED vars
  BY <1>3 DEF vars, EntryInv, RoundEntries, SnapCurrent, RowsKept, FetchesPresent,
              EntriesKept, L, R, Present
<1> QED
  BY <1>1, <1>2, <1>3, UserEntries DEF Next, Fault

\* The manifest changes only by the PUT of a device whose ETag is good, which
\* has dealt with every entry.
LEMMA EntriesStep ==
    ASSUME TypeOK, EntryInv, [Next]_vars, NEW n \in Note,
           Present(manifest[n]), ~Present(manifest'[n])
    PROVE  \E d \in Device : pc'[d] # pc[d] /\ n \in purged[d]
<1>1. PICK d \in Device : PutOk(d) \/ PutLost(d)
  <2>1. manifest' # manifest
    BY DEF Present
  <2>2. ASSUME NEW e \in Device, User(e) PROVE FALSE
    BY <2>1, <2>2, UserRows DEF engine_vars
  <2>3. ASSUME NEW e \in Device, Engine(e), ~PutOk(e) PROVE FALSE
    BY <2>1, <2>3 DEF Engine, Get, FirstUpload, StartMerge, MergeNote, SkipPurged,
         RemoteOnly, LocalOnly, KeepEqual, FastForwardLocal, FastForwardRemote,
         ConflictLocalWins, ConflictLocalGone, ConflictRemoteWins, FetchTombstone,
         FetchMissing, FetchBlob, Write, PutConflict, SkipPut, Compare, Mark, Unpurge,
         remote_vars
  <2>4. ASSUME NEW e \in Device, Abort(e) PROVE FALSE
    BY <2>1, <2>4 DEF Abort, remote_vars
  <2> QED
    BY <2>1, <2>2, <2>3, <2>4 DEF Next, Fault, vars
<1>2. pc[d] = "merge" /\ run[d].todo = {} /\ etagOk[d] /\ manifest' = Final(d)
      /\ pc'[d] # pc[d]
  BY <1>1 DEF PutOk, PutLost, MergeDone, StoreManifest, Move, TypeOK
<1>3. RoundEntries(d)
  BY DEF EntryInv
<1>4. R(d, n) = manifest[n] /\ ~run[d].fresh
  BY <1>2, <1>3 DEF EntryInv, RoundEntries, SnapCurrent, R, Transfer
<1>5. Present(run[d].merged[n]) \/ n \in purged[d]
  BY <1>2, <1>3, <1>4 DEF RoundEntries, EntriesKept, Transfer
<1>6. n \in run[d].psnap \/ ~Present(run[d].merged[n])
  BY <1>2 DEF Final
<1>7. n \in purged[d]
  BY <1>2, <1>3, <1>5, <1>6 DEF RoundEntries, Transfer
<1> QED
  BY <1>2, <1>7

\* With any number of devices, edits in any window of a round and every fault,
\* no sync round takes a note out of the manifest unless its user has purged
\* it: not a stale snapshot, not a failed transfer, not a racing first sync.
THEOREM EntriesCorrect == Spec => EntriesStay
<1>1. TypeOK /\ EntryInv /\ [Next]_vars =>
        [\A n \in Note : (Present(manifest[n]) /\ ~Present(manifest'[n])) =>
           \E d \in Device : pc'[d] # pc[d] /\ n \in purged[d]]_vars
  BY EntriesStep
<1> QED
  BY <1>1, TypeInit, TypeNext, EntriesInit, EntriesNext, PTL DEF Spec, EntriesStay

-----------------------------------------------------------------------------
(* BasePublished                                                           *)

Known(n, h) == h # 0 => <<n, h>> \in published

RoundKnown(d) ==
    /\ pc[d] \in Transfer => \A n \in Note : Known(n, R(d, n).hash)
    /\ pc[d] = "write" => \A n \in run[d].cur : Known(n, run[d].existing.base)
    /\ pc[d] \in {"settle", "mark"} => \A n \in Note : Known(n, run[d].merged[n].hash)
    /\ pc[d] = "mark" => \A n \in run[d].conv : Known(n, row[d][n].hash)

BaseInv ==
    /\ \A n \in Note : Known(n, manifest[n].hash)
    /\ \A d \in Device, n \in Note :
         Known(n, row[d][n].base) /\ Known(n, editor[d][n].base)
    /\ \A d \in Device : RoundKnown(d)

LEMMA BaseInit == Init => BaseInv
<1> SUFFICES ASSUME Init PROVE BaseInv
  OBVIOUS
<1>1. \A n \in Note : Known(n, manifest[n].hash)
  BY DEF Init, Known, PublishedBy, Present
<1>2. \A n \in Note : SeedRow(n).base = AsItem(SeedRow(n)).hash
  BY DEF SeedRow, AsItem, NoRow
<1>3. \A d \in Device, n \in Note : Known(n, row[d][n].base) /\ Known(n, editor[d][n].base)
  BY <1>1, <1>2 DEF Init, Known, Closed, NoRow
<1> QED
  BY <1>1, <1>3 DEF Init, BaseInv, RoundKnown, Transfer

\* What a step of d has to show; other devices' rows and rounds stay as they are.
LEMMA StepKnown ==
    ASSUME TypeOK, BaseInv, NEW d \in Device,
           published \subseteq published',
           \A e \in Device \ {d} : /\ row'[e] = row[e] /\ editor'[e] = editor[e]
                                   /\ pc'[e] = pc[e] /\ run'[e] = run[e],
           \A n \in Note : Known(n, manifest[n].hash)',
           \A n \in Note : Known(n, row[d][n].base)' /\ Known(n, editor[d][n].base)',
           RoundKnown(d)'
    PROVE  BaseInv'
<1>1. ASSUME NEW e \in Device \ {d} PROVE RoundKnown(e)'
  BY DEF BaseInv, RoundKnown, Known, R
<1>2. ASSUME NEW e \in Device \ {d}, NEW n \in Note
      PROVE  Known(n, row[e][n].base)' /\ Known(n, editor[e][n].base)'
  BY DEF BaseInv, Known
<1> QED
  BY <1>1, <1>2 DEF BaseInv

LEMMA UserKnown ==
    ASSUME TypeOK, BaseInv, "mark" \notin Windows, NEW d \in Device, User(d)
    PROVE  BaseInv'
<1>1. PICK n \in Note :
        \/ AddNote(d, n)    \/ Edit(d, n)       \/ OpenEditor(d, n)
        \/ SaveEditor(d, n) \/ SoftDelete(d, n) \/ RestoreNote(d, n)
        \/ HardDelete(d, n)
  BY DEF User
<1>2. UNCHANGED engine_vars
  BY UserRows
<1>3. pc[d] # "mark"
  BY <1>1 DEF AddNote, Edit, OpenEditor, SaveEditor, SoftDelete, RestoreNote, HardDelete,
              UserMay, InWindow
<1>4. RoundKnown(d)'
  BY <1>2, <1>3 DEF engine_vars, BaseInv, RoundKnown, Known, R
<1>5. ASSUME NEW new, row' = [row EXCEPT ![d][n] = new],
             new.base # 0 => <<n, new.base>> \in published
      PROVE  /\ \A m \in Note : Known(m, row[d][m].base)'
             /\ \A e \in Device \ {d} : row'[e] = row[e]
  <2>1. ASSUME NEW m \in Note PROVE (row'[d][m] = new /\ m = n) \/ row'[d][m] = row[d][m]
    BY <1>5 DEF TypeOK
  <2>2. \A m \in Note : row[d][m].base # 0 => <<m, row[d][m].base>> \in published
    BY DEF BaseInv, Known
  <2>3. published' = published
    BY <1>2 DEF engine_vars
  <2>4. ASSUME NEW m \in Note PROVE Known(m, row[d][m].base)'
    BY <1>5, <2>1, <2>2, <2>3 DEF Known
  <2>5. \A e \in Device \ {d} : row'[e] = row[e]
    BY <1>5 DEF TypeOK
  <2> QED
    BY <2>4, <2>5
<1>6. /\ \A m \in Note : Known(m, row[d][m].base)'
      /\ \A e \in Device \ {d} : row'[e] = row[e]
  <2>1. CASE AddNote(d, n)
    BY <1>5, <2>1 DEF AddNote, Unsynced
  <2>2. ASSUME NEW orig, orig.base # 0 => <<n, orig.base>> \in published,
               SaveNote(d, n, orig)
        PROVE  /\ \A m \in Note : Known(m, row[d][m].base)'
               /\ \A e \in Device \ {d} : row'[e] = row[e]
    <3>1. PICK c \in Content, t \in Stamp :
            row' = [row EXCEPT ![d][n] = Saved(d, n, orig, c, t)]
      BY <2>2 DEF SaveNote
    <3> DEFINE new == Saved(d, n, orig, c, t)
    <3>2. new.base # 0 => <<n, new.base>> \in published
      BY <2>2 DEF Saved, NoRow, BaseInv, Known
    <3>3. row' = [row EXCEPT ![d][n] = new]
      BY <3>1
    <3> HIDE DEF new
    <3> QED BY <1>5, <3>2, <3>3
  <2>3. row[d][n].base # 0 => <<n, row[d][n].base>> \in published
    BY DEF BaseInv, Known
  <2>4. editor[d][n].base # 0 => <<n, editor[d][n].base>> \in published
    BY DEF BaseInv, Known
  <2>5. CASE Edit(d, n)
    BY <2>2, <2>3, <2>5 DEF Edit
  <2>6. CASE SaveEditor(d, n)
    BY <2>2, <2>4, <2>6 DEF SaveEditor
  <2>7. CASE OpenEditor(d, n)
    BY <1>2, <2>7 DEF OpenEditor, engine_vars, BaseInv, Known
  <2>8. ASSUME NEW b \in BOOLEAN, NEW t \in Stamp,
                row' = [row EXCEPT ![d][n].deleted = b, ![d][n].at = t]
         PROVE  /\ \A m \in Note : Known(m, row[d][m].base)'
                /\ \A e \in Device \ {d} : row'[e] = row[e]
    <3> DEFINE new == [row[d][n] EXCEPT !.deleted = b, !.at = t]
    <3>1. row[d][n] \in Row
      BY DEF TypeOK
    <3>2. new.base = row[d][n].base
      BY <3>1 DEF Row
    <3>3. row' = [row EXCEPT ![d][n] = new]
      BY <2>8, <3>1 DEF TypeOK, Row
    <3> HIDE DEF new
    <3> QED BY <1>5, <2>3, <3>2, <3>3
  <2>9. CASE SoftDelete(d, n)
    BY <2>9, <2>8 DEF SoftDelete
  <2>10. CASE RestoreNote(d, n)
    BY <2>10, <2>8 DEF RestoreNote
  <2>11. CASE HardDelete(d, n)
    BY <1>5, <2>11 DEF HardDelete, NoRow
  <2> QED
    BY <1>1, <2>1, <2>5, <2>6, <2>7, <2>9, <2>10, <2>11
<1>7. /\ \A m \in Note : Known(m, editor[d][m].base)'
      /\ \A e \in Device \ {d} : editor'[e] = editor[e]
  <2>1. \/ editor' = editor
        \/ editor' = [editor EXCEPT ![d][n] = row[d][n]]
        \/ editor' = [editor EXCEPT ![d][n] = NoRow]
    BY <1>1 DEF AddNote, Edit, OpenEditor, SaveEditor, SoftDelete, RestoreNote, HardDelete
  <2>2. /\ \A m \in Note : Known(m, editor[d][m].base)
        /\ Known(n, row[d][n].base) /\ Known(n, NoRow.base)
    BY DEF BaseInv, Known, NoRow
  <2>4. ASSUME NEW new, Known(n, new.base), editor' = [editor EXCEPT ![d][n] = new]
        PROVE  /\ \A m \in Note : Known(m, editor'[d][m].base)
               /\ \A e \in Device \ {d} : editor'[e] = editor[e]
    <3>1. \A m \in Note : editor'[d][m] = IF m = n THEN new ELSE editor[d][m]
      BY <2>4 DEF TypeOK
    <3>2. \A e \in Device \ {d} : editor'[e] = editor[e]
      BY <2>4 DEF TypeOK
    <3> QED BY <2>2, <2>4, <3>1, <3>2
  <2>5. /\ \A m \in Note : Known(m, editor'[d][m].base)
        /\ \A e \in Device \ {d} : editor'[e] = editor[e]
    BY <2>1, <2>2, <2>4
  <2>6. \A m \in Note : Known(m, editor[d][m].base)'
    BY <1>2, <2>5 DEF engine_vars, Known
  <2> QED
    BY <2>5, <2>6
<1> QED
  BY <1>2, <1>4, <1>6, <1>7, StepKnown DEF engine_vars, BaseInv, Known

\* What a step inside the round has to show when it does not change manifest.
LEMMA MoveKnown ==
    ASSUME TypeOK, BaseInv, NEW d \in Device, NEW s \in States, NEW r, Move(d, s, r),
           UNCHANGED <<manifest, published, editor>>,
           \A e \in Device \ {d} : row'[e] = row[e],
           \A n \in Note : Known(n, row'[d][n].base),
           s \in Transfer => r.snap \in {run[d].snap, manifest}
                             /\ (r.snap = run[d].snap => pc[d] \in Transfer \/ r.snap = manifest),
           s = "write" => \A n \in r.cur : Known(n, r.existing.base),
           s \in {"settle", "mark"} => \A n \in Note : Known(n, r.merged[n].hash),
           s = "mark" => \A n \in r.conv : Known(n, row'[d][n].hash)
    PROVE  BaseInv'
<1>1. pc'[d] = s /\ run'[d] = r
  BY DEF Move, TypeOK
<1>2. \A e \in Device \ {d} : pc'[e] = pc[e] /\ run'[e] = run[e]
  BY DEF Move, TypeOK
<1>3. RoundKnown(d)'
  BY <1>1 DEF RoundKnown, BaseInv, Known, R
<1> QED
  BY <1>2, <1>3, StepKnown DEF BaseInv, Known

LEMMA BranchKnown ==
    ASSUME TypeOK, BaseInv, NEW d \in Device, NEW n \in Note,
           \/ SkipPurged(d, n)       \/ RemoteOnly(d, n) \/ LocalOnly(d, n)
           \/ KeepEqual(d, n)        \/ FastForwardLocal(d, n)
           \/ FastForwardRemote(d, n)
    PROVE  BaseInv'
<1>0. L(d, n) \in Item /\ R(d, n) \in Item /\ run[d] \in Run /\ NoItem \in Item
  BY RunFields, RowValues
<1>1. pc[d] = "merge" /\ UNCHANGED <<row, manifest, published, editor>>
  BY DEF SkipPurged, RemoteOnly, LocalOnly, KeepEqual, FastForwardLocal,
         FastForwardRemote, Merging, local_vars, remote_vars, user_vars
<1>2. PICK s \in {"merge", "fetch"} : \E r : Move(d, s, r) /\ r.snap = run[d].snap
  <2>1. ASSUME NEW x \in Item PROVE Handled(run[d], n, x).snap = run[d].snap
    BY <1>0, HandledFields, ZenonT(60)
  <2>2. ASSUME NEW x \in Item, NEW y \in Item, Send(d, n, row[d][n], x, y)
        PROVE  \E r : Move(d, "merge", r) /\ r.snap = run[d].snap
    <3>1. PICK ok \in BOOLEAN :
            Move(d, "merge", [Handled(run[d], n, IF ok THEN x ELSE y) EXCEPT
               !.acted = @ \/ ok, !.failed = IF ok THEN @ ELSE @ \cup {n}])
      BY <2>2 DEF Send
    <3> DEFINE z == IF ok THEN x ELSE y
               h == Handled(run[d], n, z)
    <3>2. h \in Run /\ h.snap = run[d].snap
      <4>1. z \in Item
        OBVIOUS
      <4> HIDE DEF z
      <4> QED BY <1>0, <4>1, HandledFields, ZenonT(60)
    <3> DEFINE g == [h EXCEPT !.acted = @ \/ ok, !.failed = IF ok THEN @ ELSE @ \cup {n}]
    <3>3. Move(d, "merge", g)
      BY <3>1
    <3> HIDE DEF h
    <3>4. g.snap = run[d].snap
      BY <3>2 DEF Run
    <3> QED BY <3>3, <3>4
  <2>3. [run[d] EXCEPT !.cur = {n}].snap = run[d].snap
    BY <1>0 DEF Run
  <2> QED
    BY <1>0, <2>1, <2>2, <2>3 DEF SkipPurged, RemoteOnly, LocalOnly, KeepEqual,
         FastForwardLocal, FastForwardRemote, StartDownload
<1> QED
  BY <1>1, <1>2, MoveKnown DEF BaseInv, Known, States, Transfer

LEMMA ConflictKnown ==
    ASSUME TypeOK, BaseInv, NEW d \in Device, NEW n \in Note,
           ConflictLocalWins(d, n) \/ ConflictLocalGone(d, n) \/ ConflictRemoteWins(d, n)
    PROVE  BaseInv'
<1>0. /\ L(d, n) \in Item /\ R(d, n) \in Item /\ run[d] \in Run /\ NoItem \in Item
      /\ row[d][n].hash \in Hash /\ R(d, n).hash \in Hash
  BY RunFields, RowValues DEF Item
<1>1. /\ pc[d] = "merge" /\ R(d, n).hash # 0
      /\ UNCHANGED <<manifest, published, editor>>
  BY DEF ConflictLocalWins, ConflictLocalGone, ConflictRemoteWins, Conflict, Differ,
         Present, Merging
<1>2. ASSUME NEW wanted, NEW cp \in Copies(wanted), NEW h \in Hash, StoreCopy(d, h, cp)
      PROVE  /\ \A m \in Note : row'[d][m].base \in {row[d][m].base, 0}
             /\ \A e \in Device \ {d} : row'[e] = row[e]
  BY <1>2 DEF StoreCopy, TypeOK, Unsynced
<1>3. /\ \A m \in Note : row'[d][m].base \in {row[d][m].base, 0}
      /\ \A e \in Device \ {d} : row'[e] = row[e]
      /\ \E s \in {"merge", "fetch"} : \E r : Move(d, s, r) /\ r.snap = run[d].snap
  <2>1. CASE ConflictLocalWins(d, n)
    <3>1. PICK cp \in Copies(BothLive(d, n) /\ R(d, n).hash \in blobs), ok \in BOOLEAN :
            /\ StoreCopy(d, R(d, n).hash, cp)
            /\ Move(d, "merge",
                    [Handled(WithCopy(run[d], cp), n, IF ok THEN L(d, n) ELSE R(d, n))
                     EXCEPT !.acted = @ \/ ok, !.failed = IF ok THEN @ ELSE @ \cup {n}])
      BY <2>1 DEF ConflictLocalWins
    <3> DEFINE q == WithCopy(run[d], cp)
               z == IF ok THEN L(d, n) ELSE R(d, n)
               g == Handled(q, n, z)
               r == [g EXCEPT !.acted = @ \/ ok, !.failed = IF ok THEN @ ELSE @ \cup {n}]
    <3>2. q \in Run /\ q.snap = run[d].snap
      BY <1>0, <1>1, <3>1, CopyEntries
    <3>3. g \in Run /\ g.snap = run[d].snap
      <4>1. z \in Item
        BY <1>0
      <4> HIDE DEF q, z
      <4> QED BY <3>2, <4>1, HandledFields, ZenonT(60)
    <3>4. Move(d, "merge", r)
      BY <3>1
    <3> HIDE DEF g
    <3>5. r.snap = run[d].snap
      BY <3>3 DEF Run
    <3> QED BY <1>0, <1>2, <3>1, <3>4, <3>5
  <2>2. CASE ConflictLocalGone(d, n)
    <3>1. PICK cp \in Copies(BothLive(d, n) /\ R(d, n).hash \in blobs) :
            /\ StoreCopy(d, R(d, n).hash, cp)
            /\ Move(d, "merge", Handled(WithCopy(run[d], cp), n, NoItem))
      BY <2>2 DEF ConflictLocalGone
    <3> DEFINE q == WithCopy(run[d], cp)
    <3>2. q \in Run /\ q.snap = run[d].snap
      BY <1>0, <1>1, <3>1, CopyEntries
    <3>3. Handled(q, n, NoItem).snap = run[d].snap
      <4> HIDE DEF q
      <4> QED BY <1>0, <3>2, HandledFields, ZenonT(60)
    <3> QED BY <1>0, <1>2, <3>1, <3>3
  <2>3. CASE ConflictRemoteWins(d, n)
    <3>1. PICK cp \in Copies(BothLive(d, n) /\ Present(row[d][n])) :
            /\ StoreCopy(d, row[d][n].hash, cp)
            /\ Move(d, "fetch", [WithCopy(run[d], cp) EXCEPT !.cur = {n}])
      BY <2>3 DEF ConflictRemoteWins
    <3> DEFINE q == WithCopy(run[d], cp)
    <3>2. q \in Run /\ q.snap = run[d].snap
      BY <1>0, <3>1, CopyEntries DEF Present
    <3>3. [q EXCEPT !.cur = {n}].snap = run[d].snap
      <4> HIDE DEF q
      <4> QED BY <3>2 DEF Run
    <3> QED BY <1>0, <1>2, <3>1, <3>3
  <2> QED
    BY <2>1, <2>2, <2>3
<1>4. \A m \in Note : Known(m, row'[d][m].base)
  BY <1>3 DEF BaseInv, Known
<1>5. PICK s \in {"merge", "fetch"} : \E r : Move(d, s, r) /\ r.snap = run[d].snap
  BY <1>3
<1>6. PICK r : Move(d, s, r) /\ r.snap = run[d].snap
  BY <1>5
<1>7. s \in States /\ s \notin {"write", "settle", "mark"} /\ pc[d] \in Transfer
  BY <1>1 DEF States, Transfer
<1> QED
  BY <1>1, <1>3, <1>4, <1>6, <1>7, MoveKnown

LEMMA FetchKnown ==
    ASSUME TypeOK, EntryInv, BaseInv, NEW d \in Device, NEW n \in Note,
           FetchTombstone(d, n) \/ FetchMissing(d, n) \/ FetchBlob(d, n) \/ Write(d, n)
    PROVE  BaseInv'
<1>0. R(d, n) \in Item /\ row[d][n] \in Row /\ run[d] \in Run /\ run[d].existing \in Row
  BY RunFields
<1>1. /\ pc[d] \in {"fetch", "write"} /\ n \in run[d].cur
      /\ UNCHANGED <<manifest, published, editor>>
  BY DEF FetchTombstone, FetchMissing, FetchBlob, Write, Fetching, remote_vars, user_vars
<1>2. run[d].cur = {n}
  BY <1>1 DEF EntryInv, RoundEntries, FetchesPresent
<1>3. \A m \in Note : Known(m, row[d][m].base)
  BY DEF BaseInv
<1> DEFINE h == Handled(run[d], n, R(d, n))
<1>4. h \in Run /\ h.snap = run[d].snap
  BY <1>0, HandledFields
<1> HIDE DEF h
<1>5. ASSUME NEW s \in {"merge", "write"}, NEW r, Move(d, s, r), r.snap = run[d].snap,
             \A e \in Device \ {d} : row'[e] = row[e],
             \A m \in Note : Known(m, row'[d][m].base),
             s = "write" => \A m \in r.cur : Known(m, r.existing.base)
      PROVE  BaseInv'
  BY <1>1, <1>5, MoveKnown DEF States, Transfer
<1>6. ASSUME UNCHANGED row, Move(d, "write", [run[d] EXCEPT !.existing = row[d][n]])
      PROVE  BaseInv'
  <2> DEFINE g == [run[d] EXCEPT !.existing = row[d][n]]
  <2>1. g.snap = run[d].snap /\ g.cur = run[d].cur /\ g.existing = row[d][n]
    BY <1>0 DEF Run
  <2>2. Move(d, "write", g)
    BY <1>6
  <2> HIDE DEF g
  <2> QED BY <1>2, <1>3, <1>5, <1>6, <2>1, <2>2
<1>7. CASE FetchTombstone(d, n)
  BY <1>3, <1>4, <1>5, <1>6, <1>7 DEF FetchTombstone, local_vars, h
<1>8. CASE FetchMissing(d, n)
  <2>1. CASE Move(d, "merge", h)
    BY <1>3, <1>4, <1>5, <1>8, <2>1 DEF FetchMissing, local_vars
  <2>2. CASE ~Move(d, "merge", h)
    <3>1. PICK m \in Note, ok \in BOOLEAN :
            Move(d, "merge", [h EXCEPT
                   !.acted = @ \/ ok, !.failed = IF ok THEN @ ELSE @ \cup {m}])
      BY <1>8, <2>2 DEF FetchMissing, h
    <3> DEFINE g == [h EXCEPT !.acted = @ \/ ok, !.failed = IF ok THEN @ ELSE @ \cup {m}]
    <3>2. g.snap = run[d].snap
      BY <1>4 DEF Run
    <3>3. Move(d, "merge", g)
      BY <3>1
    <3> HIDE DEF g
    <3> QED BY <1>3, <1>5, <1>8, <3>2, <3>3 DEF FetchMissing, local_vars
  <2> QED
    BY <2>1, <2>2
<1>9. CASE FetchBlob(d, n)
  BY <1>6, <1>9 DEF FetchBlob
<1>10. CASE Write(d, n)
  <2> DEFINE new == Downloaded(R(d, n), run[d].existing)
             g == [h EXCEPT !.acted = TRUE]
  <2>1. Known(n, run[d].existing.base)
    BY <1>1, <1>10 DEF BaseInv, RoundKnown, Write
  <2>2. Known(n, new.base)
    BY <1>0, <2>1 DEF Downloaded, Unsynced, Row, Known
  <2>3. row' = [row EXCEPT ![d][n] = new] \/ row' = row
    BY <1>10 DEF Write
  <2>4. Move(d, "merge", g)
    BY <1>10 DEF Write, h
  <2>5. g.snap = run[d].snap
    BY <1>4 DEF Run
  <2> HIDE DEF new, g
  <2>6. /\ \A e \in Device \ {d} : row'[e] = row[e]
        /\ \A m \in Note : row'[d][m] = row[d][m] \/ (m = n /\ row'[d][m] = new)
    BY <2>3 DEF TypeOK
  <2>7. \A m \in Note : Known(m, row'[d][m].base)
    BY <1>3, <2>2, <2>6
  <2> QED BY <1>5, <2>4, <2>5, <2>6, <2>7
<1> QED
  BY <1>7, <1>8, <1>9, <1>10

LEMMA StartKnown ==
    ASSUME TypeOK, BaseInv, NEW d \in Device, Get(d) \/ FirstUpload(d) \/ StartMerge(d)
    PROVE  BaseInv'
<1>0. run[d] \in Run /\ \A m \in Note : Known(m, row[d][m].base)
  BY RunFields DEF BaseInv
<1>1. CASE Get(d)
  <2>1. PICK gone \in SUBSET Note :
          /\ row' = [row EXCEPT ![d] = [n \in Note |-> IF n \in gone THEN NoRow ELSE row[d][n]]]
          /\ \E items : Move(d, "plan", [IdleRun EXCEPT
                 !.fresh = ~exists, !.snap = manifest, !.local = items])
    BY <1>1 DEF Get
  <2>2. PICK items : Move(d, "plan", [IdleRun EXCEPT
                 !.fresh = ~exists, !.snap = manifest, !.local = items])
    BY <2>1
  <2> DEFINE r == [IdleRun EXCEPT !.fresh = ~exists, !.snap = manifest, !.local = items]
  <2>3. r.snap = manifest
    BY DEF IdleRun
  <2>4. Move(d, "plan", r)
    BY <2>2
  <2> HIDE DEF r
  <2>5. /\ \A e \in Device \ {d} : row'[e] = row[e]
        /\ \A m \in Note : row'[d][m] = row[d][m] \/ row'[d][m] = NoRow
    BY <2>1 DEF TypeOK
  <2>6. \A m \in Note : Known(m, row'[d][m].base)
    BY <1>0, <2>5 DEF Known, NoRow
  <2> QED
    BY <1>1, <2>3, <2>4, <2>5, <2>6, MoveKnown DEF Get, remote_vars, user_vars, States
<1>2. CASE FirstUpload(d)
  <2>1. PICK failed, items :
          Move(d, "merge", [run[d] EXCEPT
               !.merged = items, !.failed = failed, !.acted = TRUE])
    BY <1>2 DEF FirstUpload
  <2> DEFINE r == [run[d] EXCEPT !.merged = items, !.failed = failed, !.acted = TRUE]
  <2>2. r.snap = run[d].snap
    BY <1>0 DEF Run
  <2>3. Move(d, "merge", r)
    BY <2>1
  <2> HIDE DEF r
  <2> QED
    BY <1>0, <1>2, <2>2, <2>3, MoveKnown
       DEF FirstUpload, local_vars, user_vars, States, Transfer
<1>3. CASE StartMerge(d)
  <2> DEFINE todo == {n \in Note : Present(run[d].local[n]) \/ Present(run[d].snap[n])}
             r == [run[d] EXCEPT !.psnap = purged[d], !.todo = todo]
  <2>1. Move(d, "merge", r)
    BY <1>3 DEF StartMerge
  <2> HIDE DEF todo
  <2>2. r.snap = run[d].snap
    BY <1>0 DEF Run
  <2> HIDE DEF r
  <2> QED
    BY <1>0, <1>3, <2>1, <2>2, MoveKnown
       DEF StartMerge, local_vars, remote_vars, user_vars, States, Transfer
<1> QED
  BY <1>1, <1>2, <1>3

LEMMA EndKnown ==
    ASSUME TypeOK, BaseInv, NEW d \in Device,
           \/ PutOk(d)   \/ PutLost(d) \/ PutConflict(d) \/ SkipPut(d)
           \/ Compare(d) \/ Mark(d)    \/ Unpurge(d)     \/ Abort(d)
    PROVE  BaseInv'
<1>0. run[d] \in Run /\ \A m \in Note : Known(m, row[d][m].base)
  BY RunFields DEF BaseInv
<1>1. Settling(d).merged = Final(d)
  BY DEF Settling, IdleRun
<1>2. ASSUME StoreManifest(d), UNCHANGED <<row, editor>>,
             NEW s \in {"settle", "idle"}, NEW r, Move(d, s, r),
             s = "settle" => r.merged = Final(d)
      PROVE  BaseInv'
  <2>1. published \subseteq published' /\ manifest' = Final(d)
    BY <1>2 DEF StoreManifest
  <2>2. Final(d) \in [Note -> Item]
    BY FinalType
  <2> HIDE DEF Final
  <2>3. \A m \in Note : Final(d)[m].hash # 0 => <<m, Final(d)[m].hash>> \in published'
    BY <1>2, <2>2 DEF StoreManifest, PublishedBy, Present
  <2>4. pc'[d] = s /\ run'[d] = r
        /\ \A e \in Device \ {d} : pc'[e] = pc[e] /\ run'[e] = run[e]
    BY <1>2 DEF Move, TypeOK
  <2>5. RoundKnown(d)'
    BY <1>2, <2>3, <2>4 DEF RoundKnown, Known, Transfer
  <2>6. \A m \in Note : Known(m, manifest[m].hash)'
    BY <2>1, <2>3 DEF Known
  <2>7. \A m \in Note : Known(m, row[d][m].base)' /\ Known(m, editor[d][m].base)'
    BY <1>2, <2>1 DEF BaseInv, Known
  <2> QED
    BY <1>2, <2>1, <2>4, <2>5, <2>6, <2>7, StepKnown
<1>3. CASE PutOk(d)
  BY <1>1, <1>2, <1>3 DEF PutOk, local_vars, user_vars
<1>4. CASE PutLost(d)
  BY <1>2, <1>4 DEF PutLost, local_vars, user_vars
<1>5. ASSUME UNCHANGED <<row, manifest, published, editor>>,
             NEW s \in {"idle", "get"}, Move(d, s, IdleRun)
      PROVE  BaseInv'
  BY <1>0, <1>5, MoveKnown DEF States, Transfer
<1>6. CASE PutConflict(d)
  BY <1>5, <1>6 DEF PutConflict, local_vars, remote_vars, user_vars
<1>7. CASE SkipPut(d)
  <2>1. Final(d) = run[d].snap /\ pc[d] \in Transfer
    BY <1>7 DEF SkipPut, Changed, MergeDone, Transfer
  <2>2. \A m \in Note : Known(m, Settling(d).merged[m].hash)
    BY <1>1, <2>1 DEF BaseInv, RoundKnown, R
  <2> QED
    BY <1>0, <1>7, <2>2, MoveKnown
       DEF SkipPut, local_vars, remote_vars, user_vars, States, Transfer
<1>8. CASE Compare(d)
  <2> DEFINE conv == {n \in Note \ run[d].failed :
                        /\ Present(row[d][n]) /\ Present(run[d].merged[n])
                        /\ ItemsEqual(row[d][n], run[d].merged[n])}
             r == [run[d] EXCEPT !.conv = conv]
  <2>1. \A m \in Note : Known(m, run[d].merged[m].hash)
    BY <1>8 DEF Compare, BaseInv, RoundKnown
  <2>2. \A m \in conv : Known(m, row[d][m].hash)
    BY <2>1 DEF ItemsEqual
  <2>3. Move(d, "mark", r)
    BY <1>8 DEF Compare
  <2> HIDE DEF conv
  <2>4. r.merged = run[d].merged /\ r.conv = conv
    BY <1>0 DEF Run
  <2> HIDE DEF r
  <2> QED
    BY <1>0, <1>8, <2>1, <2>2, <2>3, <2>4, MoveKnown
       DEF Compare, local_vars, remote_vars, user_vars, States, Transfer
<1>9. CASE Mark(d)
  <2>1. \A m \in run[d].conv : Known(m, row[d][m].hash)
    BY <1>9 DEF Mark, BaseInv, RoundKnown
  <2>2. /\ \A e \in Device \ {d} : row'[e] = row[e]
        /\ \A m \in Note : \/ row'[d][m] = row[d][m]
                           \/ m \in run[d].conv /\ row'[d][m] = Marked(row[d][m])
    BY <1>9 DEF Mark, TypeOK
  <2>3. \A m \in Note : row[d][m] \in Row
    BY RunFields
  <2>4. \A m \in Note : Marked(row[d][m]).base = row[d][m].hash
    BY <2>3 DEF Marked, Row
  <2>5. \A m \in Note : Known(m, row'[d][m].base)
    BY <1>0, <2>1, <2>2, <2>4
  <2> QED
    BY <1>9, <2>2, <2>5, MoveKnown DEF Mark, remote_vars, user_vars, States, Transfer
<1>10. CASE Unpurge(d)
  BY <1>5, <1>10 DEF Unpurge, remote_vars, user_vars
<1>11. CASE Abort(d)
  BY <1>5, <1>11 DEF Abort, local_vars, remote_vars, user_vars
<1> QED
  BY <1>3, <1>4, <1>6, <1>7, <1>8, <1>9, <1>10, <1>11

LEMMA BaseNext ==
    ASSUME "mark" \notin Windows
    PROVE  TypeOK /\ EntryInv /\ BaseInv /\ [Next]_vars => BaseInv'
<1> SUFFICES ASSUME TypeOK, EntryInv, BaseInv, [Next]_vars PROVE BaseInv'
  OBVIOUS
<1>1. ASSUME NEW d \in Device, Engine(d) PROVE BaseInv'
  <2>1. CASE MergeNote(d)
    BY <2>1, BranchKnown, ConflictKnown, FetchKnown DEF MergeNote
  <2> QED
    BY <1>1, <2>1, StartKnown, EndKnown DEF Engine
<1>2. CASE UNCHANGED vars
  BY <1>2 DEF vars, BaseInv, RoundKnown, Known, R
<1> QED
  BY <1>1, <1>2, UserKnown, EndKnown DEF Next, Fault

\* As long as no edit is made between the SELECT that compares the rows with
\* the manifest and the UPDATE that marks them, the base that every device
\* compares against is a state the vault really had, whatever else the users
\* do, and whatever fails.  (With "mark" added to the windows of sync_merge
\* TLC finds BasePublished violated: the assumption cannot be dropped.)
THEOREM BaseCorrect ==
    ASSUME "mark" \notin Windows
    PROVE  Spec => []BasePublished
<1>1. BaseInv => BasePublished
  BY DEF BaseInv, BasePublished, Known
<1> QED
  BY <1>1, TypeInit, TypeNext, EntriesInit, EntriesNext, BaseInit, BaseNext, PTL DEF Spec

-----------------------------------------------------------------------------
(* What a sync round preserves: text that a download or a PUT replaces,    *)
(* the permanent deletes a device remembers, and the blobs the manifest    *)
(* refers to.  Several of these theorems hold only if the user's calls     *)
(* stay out of certain awaits of the round; the hypothesis of each names   *)
(* these awaits.                                                           *)

(* What the steps of a merge do to the locals of its round.                *)

Kept(d) ==
    /\ run'[d].fresh = run[d].fresh /\ run'[d].snap = run[d].snap
    /\ run'[d].local = run[d].local /\ run'[d].psnap = run[d].psnap

CopyItem(cp) == AsItem(Unsynced(cp.hash, cp.at))

\* What the copy cp leaves in the merged manifest for m.
WithCopyOf(d, cp, m) ==
    IF m \in cp.note /\ cp.ok THEN CopyItem(cp) ELSE run[d].merged[m]

\* n is dealt with and enters the merged manifest as x, beside the copy cp.
Deals(d, n, x, cp) ==
    /\ Kept(d) /\ pc'[d] = "merge"
    /\ run'[d].todo = run[d].todo \ {n}
    /\ run'[d].cur = {} /\ run'[d].existing = NoRow
    /\ \A m \in Note : run'[d].merged[m] = IF m = n THEN x ELSE WithCopyOf(d, cp, m)

\* The download of the notes in cur has come to s; they replace the row e.
Downloads(d, cur, s, e, cp) ==
    /\ Kept(d) /\ pc'[d] = s
    /\ run'[d].todo = run[d].todo
    /\ run'[d].cur = cur /\ run'[d].existing = e
    /\ \A m \in Note : run'[d].merged[m] = WithCopyOf(d, cp, m)

\* The row of n, as it is now, has been sent.
Sent(d, n) == Live(row[d][n]) => row[d][n].hash \in blobs'

-----------------------------------------------------------------------------
(* The effect of each step of the merge.                                   *)

LEMMA DealsBy ==
    ASSUME TypeOK, NEW d \in Device, NEW n \in Note, NEW cp, NEW q \in Run,
           q.fresh = run[d].fresh, q.snap = run[d].snap, q.local = run[d].local,
           q.psnap = run[d].psnap, q.todo = run[d].todo,
           \A m \in Note : q.merged[m] = WithCopyOf(d, cp, m),
           NEW x \in Item, NEW acted \in BOOLEAN, NEW failed \in SUBSET Note,
           \/ Move(d, "merge", [Handled(q, n, x) EXCEPT !.acted = acted, !.failed = failed])
           \/ Move(d, "merge", [Handled(q, n, x) EXCEPT !.acted = acted])
           \/ Move(d, "merge", Handled(q, n, x))
    PROVE  Deals(d, n, x, cp)
<1> DEFINE h == Handled(q, n, x)
<1>1. h \in Run /\ h.fresh = q.fresh /\ h.snap = q.snap /\ h.local = q.local
      /\ h.psnap = q.psnap /\ h.todo = q.todo \ {n} /\ h.merged = [q.merged EXCEPT ![n] = x]
  BY HandledFields
<1>2. h.cur = {} /\ h.existing = NoRow
  BY DEF Handled, Run
<1>3. q.merged \in [Note -> Item]
  BY DEF Run
<1> HIDE DEF h
<1>4. ASSUME NEW g, \/ g = [h EXCEPT !.acted = acted, !.failed = failed]
                    \/ g = [h EXCEPT !.acted = acted]
                    \/ g = h
      PROVE  /\ g.fresh = q.fresh /\ g.snap = q.snap /\ g.local = q.local
             /\ g.psnap = q.psnap /\ g.todo = q.todo \ {n}
             /\ g.merged = [q.merged EXCEPT ![n] = x]
             /\ g.cur = {} /\ g.existing = NoRow
  BY <1>1, <1>2, <1>4 DEF Run
<1>5. PICK g : /\ \/ g = [h EXCEPT !.acted = acted, !.failed = failed]
                  \/ g = [h EXCEPT !.acted = acted]
                  \/ g = h
               /\ Move(d, "merge", g)
  BY DEF h
<1>6. pc'[d] = "merge" /\ run'[d] = g
  BY <1>5 DEF Move, TypeOK
<1> QED
  BY <1>3, <1>4, <1>5, <1>6 DEF Deals, Kept

LEMMA BranchEffects ==
    ASSUME TypeOK, NEW d \in Device, NEW n \in Note,
           \/ SkipPurged(d, n)       \/ RemoteOnly(d, n) \/ LocalOnly(d, n)
           \/ KeepEqual(d, n)        \/ FastForwardLocal(d, n)
           \/ FastForwardRemote(d, n)
    PROVE  /\ pc[d] = "merge" /\ n \in run[d].todo
           /\ UNCHANGED <<local_vars, manifest, exists, etagOk, published, user_vars>>
           /\ blobs \subseteq blobs'
           /\ \/ /\ Downloads(d, {n}, "fetch", run[d].existing, NoCopy)
                 /\ Present(R(d, n)) /\ (Present(L(d, n)) \/ n \notin run[d].psnap)
              \/ Deals(d, n, NoItem, NoCopy)
              \/ Deals(d, n, R(d, n), NoCopy)
              \/ /\ Deals(d, n, L(d, n), NoCopy)
                 /\ \/ ItemsEqual(L(d, n), R(d, n))
                    \/ /\ Sent(d, n)
                       /\ Present(R(d, n)) => row[d][n].base = R(d, n).hash
<1>0. L(d, n) \in Item /\ R(d, n) \in Item /\ row[d][n] \in Row /\ run[d] \in Run
      /\ NoItem \in Item
  BY RunFields, RowValues
<1>1. pc[d] = "merge" /\ n \in run[d].todo
      /\ UNCHANGED <<local_vars, manifest, exists, etagOk, published, user_vars>>
  BY DEF SkipPurged, RemoteOnly, LocalOnly, KeepEqual, FastForwardLocal,
         FastForwardRemote, Merging, remote_vars
<1>2. \A m \in Note : run[d].merged[m] = WithCopyOf(d, NoCopy, m)
  BY DEF WithCopyOf, NoCopy
<1>3. ASSUME NEW x \in Item, Move(d, "merge", Handled(run[d], n, x))
      PROVE  Deals(d, n, x, NoCopy)
  <2>1. TRUE \in BOOLEAN /\ {} \in SUBSET Note
    OBVIOUS
  <2> QED BY <1>0, <1>2, <1>3, <2>1, DealsBy
<1>4. ASSUME NEW x \in Item, NEW y \in Item, Send(d, n, row[d][n], x, y)
      PROVE  /\ blobs \subseteq blobs'
             /\ Deals(d, n, y, NoCopy) \/ (Deals(d, n, x, NoCopy) /\ Sent(d, n))
  <2>1. PICK ok \in BOOLEAN :
          /\ Upload(row[d][n], ok)
          /\ Move(d, "merge", [Handled(run[d], n, IF ok THEN x ELSE y) EXCEPT
             !.acted = @ \/ ok, !.failed = IF ok THEN @ ELSE @ \cup {n}])
    BY <1>4 DEF Send
  <2> DEFINE z == IF ok THEN x ELSE y
             h == Handled(run[d], n, z)
             acted == h.acted \/ ok
             failed == IF ok THEN h.failed ELSE h.failed \cup {n}
  <2>2. z \in Item
    BY <1>4
  <2>3. acted \in BOOLEAN /\ failed \in SUBSET Note
    <3>1. h \in Run
      BY <1>0, <2>2, RunValues
    <3> HIDE DEF h
    <3> QED BY <3>1 DEF Run
  <2>4. Move(d, "merge", [Handled(run[d], n, z) EXCEPT !.acted = acted, !.failed = failed])
    BY <2>1, Zenon
  <2>5. z = IF ok THEN x ELSE y
    OBVIOUS
  <2> HIDE DEF z, acted, failed
  <2>6. Deals(d, n, z, NoCopy)
    BY <1>0, <1>2, <2>2, <2>3, <2>4, DealsBy
  <2>7. blobs \subseteq blobs' /\ (ok => Sent(d, n))
    BY <2>1 DEF Upload, Sent
  <2> QED
    BY <2>5, <2>6, <2>7
<1>5. ASSUME StartDownload(d, n)
      PROVE  Downloads(d, {n}, "fetch", run[d].existing, NoCopy)
  <2> DEFINE g == [run[d] EXCEPT !.cur = {n}]
  <2>1. g.fresh = run[d].fresh /\ g.snap = run[d].snap /\ g.local = run[d].local
        /\ g.psnap = run[d].psnap /\ g.todo = run[d].todo /\ g.merged = run[d].merged
        /\ g.cur = {n} /\ g.existing = run[d].existing
    BY <1>0 DEF Run
  <2>2. pc'[d] = "fetch" /\ run'[d] = g
    BY <1>5 DEF StartDownload, Move, TypeOK
  <2> HIDE DEF g
  <2> QED BY <1>2, <2>1, <2>2 DEF Downloads, Kept
<1>6. CASE SkipPurged(d, n)
  BY <1>0, <1>1, <1>3, <1>6 DEF SkipPurged, remote_vars
<1>7. CASE RemoteOnly(d, n)
  BY <1>1, <1>5, <1>7 DEF RemoteOnly, remote_vars
<1>8. CASE LocalOnly(d, n)
  BY <1>0, <1>1, <1>3, <1>4, <1>8 DEF LocalOnly
<1>9. CASE KeepEqual(d, n)
  BY <1>0, <1>1, <1>3, <1>9 DEF KeepEqual, remote_vars
<1>10. CASE FastForwardLocal(d, n)
  <2>1. row[d][n].base = R(d, n).hash
    BY <1>10 DEF FastForwardLocal, RemoteChanged, ChangedFrom
  <2> QED
    BY <1>0, <1>1, <1>4, <1>10, <2>1 DEF FastForwardLocal
<1>11. CASE FastForwardRemote(d, n)
  BY <1>1, <1>5, <1>11 DEF FastForwardRemote, Differ, remote_vars
<1> QED
  BY <1>6, <1>7, <1>8, <1>9, <1>10, <1>11

\* A copy fills a note that did not exist, with a content on top of the loser.
CopyStored(d, h, cp) ==
    /\ cp.note \subseteq Note \ born
    /\ cp.note # {} => cp.hash \in Content \ used
    /\ \A m \in Note : row'[d][m] =
         IF m \in cp.note THEN Unsynced(cp.hash, cp.at) ELSE row[d][m]
    /\ born' = born \cup cp.note
    /\ used \subseteq used' /\ (cp.note # {} => cp.hash \in used')
    /\ \A c \in used : seen'[c] = seen[c]
    /\ cp.note # {} => h \in seen'[cp.hash]
    /\ UNCHANGED <<hist, purged>>

LEMMA CopyEffects ==
    ASSUME TypeOK, NEW d \in Device, NEW wanted, NEW cp \in Copies(wanted), NEW h,
           StoreCopy(d, h, cp)
    PROVE  /\ CopyStored(d, h, cp)
           /\ (wanted /\ "copy" \notin Faults) => cp.note # {}
<1>1. \A c \in Content : c # 0
  BY BoundsAssumption, SMT DEF Content
<1>2. CASE cp = NoCopy
  <2>1. cp.note = {} /\ cp.hash = 0
    BY <1>2 DEF NoCopy
  <2>2. wanted => "copy" \in Faults
    <3>1. ASSUME wanted, "copy" \notin Faults PROVE FALSE
      <4>1. cp \in [note : {{m} : m \in Note \ born}, hash : Content \ used, at : Stamp,
                    ok : {TRUE} \cup {"upload" \notin Faults}]
        BY <3>1, Zenon DEF Copies
      <4> QED BY <2>1, <4>1
    <3> QED BY <3>1
  <2>3. \A c \in used : seen'[c] = seen[c]
    BY <1>1, <2>1 DEF StoreCopy, TypeOK
  <2> QED
    BY <2>1, <2>2, <2>3 DEF StoreCopy, CopyStored, TypeOK
<1>3. CASE cp # NoCopy
  <2>1. cp \in [note : {{m} : m \in Note \ born}, hash : Content \ used, at : Stamp,
                ok : {TRUE} \cup {"upload" \notin Faults}]
    BY <1>3, Zenon DEF Copies
  <2>2. cp.note \subseteq Note \ born /\ cp.note # {} /\ cp.hash \in Content \ used
    BY <2>1
  <2>3. \A c \in used : seen'[c] = seen[c]
    BY <2>2 DEF StoreCopy, TypeOK
  <2>4. seen'[cp.hash] = Incorporates(h)
    BY <2>2 DEF StoreCopy
  <2>5. cp.hash \in used'
    BY <1>1, <2>2 DEF StoreCopy
  <2> QED
    BY <2>2, <2>3, <2>4, <2>5 DEF StoreCopy, CopyStored, TypeOK, Incorporates
<1> QED
  BY <1>2, <1>3

\* What the three ways to resolve a conflict have in common: a loser h may be
\* copied, its copy has its blob, and n is dealt with or downloaded.
LEMMA ConflictEffects ==
    ASSUME TypeOK, NEW d \in Device, NEW n \in Note,
           ConflictLocalWins(d, n) \/ ConflictLocalGone(d, n) \/ ConflictRemoteWins(d, n)
    PROVE  /\ pc[d] = "merge" /\ n \in run[d].todo
           /\ Present(L(d, n)) /\ Present(R(d, n))
           /\ UNCHANGED <<manifest, exists, etagOk, published, editor, ops, erased>>
           /\ blobs \subseteq blobs'
           /\ \E cp, h :
                /\ CopyStored(d, h, cp)
                /\ cp.ok => cp.hash \in blobs'
                /\ \/ Downloads(d, {n}, "fetch", run[d].existing, cp)
                   \/ Deals(d, n, NoItem, cp)
                   \/ Deals(d, n, R(d, n), cp)
                   \/ /\ Deals(d, n, L(d, n), cp) /\ Sent(d, n)
                      /\ (BothLive(d, n) /\ R(d, n).hash \in blobs /\ "copy" \notin Faults)
                           => (h = R(d, n).hash /\ cp.note # {})
<1>0. /\ L(d, n) \in Item /\ R(d, n) \in Item /\ run[d] \in Run /\ NoItem \in Item
      /\ row[d][n].hash \in Hash /\ R(d, n).hash \in Hash
  BY RunFields, RowValues DEF Item
<1>1. /\ pc[d] = "merge" /\ n \in run[d].todo /\ Present(L(d, n)) /\ Present(R(d, n))
      /\ UNCHANGED <<manifest, exists, etagOk, published, editor, ops, erased>>
  BY DEF ConflictLocalWins, ConflictLocalGone, ConflictRemoteWins, Conflict, Differ, Merging
<1>2. ASSUME NEW wanted, NEW cp \in Copies(wanted), NEW h \in Hash, wanted => h # 0,
             StoreCopy(d, h, cp)
      PROVE  LET q == WithCopy(run[d], cp) IN
             /\ q \in Run /\ q.fresh = run[d].fresh /\ q.snap = run[d].snap
             /\ q.local = run[d].local /\ q.psnap = run[d].psnap /\ q.todo = run[d].todo
             /\ q.existing = run[d].existing
             /\ \A m \in Note : q.merged[m] = WithCopyOf(d, cp, m)
  <2> DEFINE q == WithCopy(run[d], cp)
             items == [m \in Note |-> IF m \in cp.note /\ cp.ok
                         THEN AsItem(Unsynced(cp.hash, cp.at)) ELSE run[d].merged[m]]
  <2>1. q \in Run
    BY <1>2, CopyType
  <2>2. q = [run[d] EXCEPT !.merged = items, !.acted = @ \/ cp.ok,
                           !.failed = IF cp.ok THEN @ ELSE @ \cup cp.note]
    BY <1>0, Zenon DEF WithCopy
  <2>3. \A m \in Note : items[m] = WithCopyOf(d, cp, m)
    BY DEF WithCopyOf, CopyItem
  <2> HIDE DEF items, q
  <2>4. /\ q.fresh = run[d].fresh /\ q.snap = run[d].snap
        /\ q.local = run[d].local /\ q.psnap = run[d].psnap /\ q.todo = run[d].todo
        /\ q.existing = run[d].existing /\ q.merged = items
    BY <1>0, <2>2 DEF Run
  <2> QED BY <2>1, <2>3, <2>4 DEF q
<1>3. CASE ConflictLocalWins(d, n)
  <2> DEFINE wanted == BothLive(d, n) /\ R(d, n).hash \in blobs
  <2>1. PICK cp \in Copies(wanted), ok \in BOOLEAN :
          /\ StoreCopy(d, R(d, n).hash, cp)
          /\ blobs' = blobs \cup CopyBlob(cp)
                \cup (IF ok /\ Live(row[d][n]) THEN {row[d][n].hash} ELSE {})
          /\ Move(d, "merge",
                  [Handled(WithCopy(run[d], cp), n, IF ok THEN L(d, n) ELSE R(d, n))
                   EXCEPT !.acted = @ \/ ok, !.failed = IF ok THEN @ ELSE @ \cup {n}])
    BY <1>3 DEF ConflictLocalWins
  <2> DEFINE q == WithCopy(run[d], cp)
             x == IF ok THEN L(d, n) ELSE R(d, n)
             h == Handled(q, n, x)
             acted == h.acted \/ ok
             failed == IF ok THEN h.failed ELSE h.failed \cup {n}
  <2>2. x \in Item /\ x = IF ok THEN L(d, n) ELSE R(d, n)
    BY <1>0
  <2>3. wanted => R(d, n).hash # 0
    BY <1>1 DEF Present
  <2>4. /\ q \in Run /\ q.fresh = run[d].fresh /\ q.snap = run[d].snap
        /\ q.local = run[d].local /\ q.psnap = run[d].psnap /\ q.todo = run[d].todo
        /\ \A m \in Note : q.merged[m] = WithCopyOf(d, cp, m)
    BY <1>0, <1>2, <2>1, <2>3
  <2>5. acted \in BOOLEAN /\ failed \in SUBSET Note
    <3>1. h \in Run
      BY <2>2, <2>4, RunValues
    <3> HIDE DEF h
    <3> QED BY <3>1 DEF Run
  <2>6. Move(d, "merge", [h EXCEPT !.acted = acted, !.failed = failed])
    BY <2>1, Zenon
  <2>7. CopyStored(d, R(d, n).hash, cp)
        /\ ((wanted /\ "copy" \notin Faults) => cp.note # {})
    <3> HIDE DEF wanted
    <3> QED BY <2>1, CopyEffects
  <2>8. /\ cp.ok => cp.hash \in blobs'
        /\ blobs \subseteq blobs'
        /\ ok => Sent(d, n)
    BY <2>1 DEF CopyBlob, Sent
  <2> HIDE DEF q, x, acted, failed
  <2>9. Deals(d, n, x, cp)
    BY <2>2, <2>4, <2>5, <2>6, DealsBy
  <2>10. Deals(d, n, R(d, n), cp) \/ (Deals(d, n, L(d, n), cp) /\ Sent(d, n))
    BY <2>2, <2>8, <2>9
  <2> QED
    BY <1>1, <2>7, <2>8, <2>10
<1>4. CASE ConflictLocalGone(d, n)
  <2> DEFINE wanted == BothLive(d, n) /\ R(d, n).hash \in blobs
  <2>1. PICK cp \in Copies(wanted) :
          /\ StoreCopy(d, R(d, n).hash, cp)
          /\ blobs' = blobs \cup CopyBlob(cp)
          /\ Move(d, "merge", Handled(WithCopy(run[d], cp), n, NoItem))
    BY <1>4 DEF ConflictLocalGone
  <2> DEFINE q == WithCopy(run[d], cp)
  <2>2. wanted => R(d, n).hash # 0
    BY <1>1 DEF Present
  <2>3. /\ q \in Run /\ q.fresh = run[d].fresh /\ q.snap = run[d].snap
        /\ q.local = run[d].local /\ q.psnap = run[d].psnap /\ q.todo = run[d].todo
        /\ \A m \in Note : q.merged[m] = WithCopyOf(d, cp, m)
    BY <1>0, <1>2, <2>1, <2>2
  <2>4. CopyStored(d, R(d, n).hash, cp)
    <3> HIDE DEF wanted
    <3> QED BY <2>1, CopyEffects
  <2>5. (cp.ok => cp.hash \in blobs') /\ blobs \subseteq blobs'
    BY <2>1 DEF CopyBlob
  <2>6. Move(d, "merge", Handled(q, n, NoItem)) /\ TRUE \in BOOLEAN /\ {} \in SUBSET Note
    BY <2>1
  <2> HIDE DEF q
  <2>7. Deals(d, n, NoItem, cp)
    BY <1>0, <2>3, <2>6, DealsBy
  <2> QED
    BY <1>1, <2>4, <2>5, <2>7
<1>5. CASE ConflictRemoteWins(d, n)
  <2> DEFINE wanted == BothLive(d, n) /\ Present(row[d][n])
  <2>1. PICK cp \in Copies(wanted) :
          /\ StoreCopy(d, row[d][n].hash, cp)
          /\ blobs' = blobs \cup CopyBlob(cp)
          /\ Move(d, "fetch", [WithCopy(run[d], cp) EXCEPT !.cur = {n}])
    BY <1>5 DEF ConflictRemoteWins
  <2> DEFINE q == WithCopy(run[d], cp)
             g == [q EXCEPT !.cur = {n}]
  <2>2. wanted => row[d][n].hash # 0
    BY DEF Present
  <2>3. /\ q \in Run /\ q.fresh = run[d].fresh /\ q.snap = run[d].snap
        /\ q.local = run[d].local /\ q.psnap = run[d].psnap /\ q.todo = run[d].todo
        /\ q.existing = run[d].existing
        /\ \A m \in Note : q.merged[m] = WithCopyOf(d, cp, m)
    BY <1>0, <1>2, <2>1, <2>2
  <2>4. CopyStored(d, row[d][n].hash, cp)
    <3> HIDE DEF wanted
    <3> QED BY <2>1, CopyEffects
  <2>5. (cp.ok => cp.hash \in blobs') /\ blobs \subseteq blobs'
    BY <2>1 DEF CopyBlob
  <2>6. pc'[d] = "fetch" /\ run'[d] = g
    BY <2>1 DEF Move, TypeOK
  <2> HIDE DEF q
  <2>7. /\ g.fresh = q.fresh /\ g.snap = q.snap /\ g.local = q.local /\ g.psnap = q.psnap
        /\ g.todo = q.todo /\ g.merged = q.merged /\ g.existing = q.existing /\ g.cur = {n}
    BY <2>3 DEF Run
  <2> HIDE DEF g
  <2>8. Downloads(d, {n}, "fetch", run[d].existing, cp)
    BY <2>3, <2>6, <2>7 DEF Downloads, Kept
  <2> QED
    BY <1>1, <2>4, <2>5, <2>8
<1> QED
  BY <1>3, <1>4, <1>5

LEMMA FetchEffects ==
    ASSUME TypeOK, NEW d \in Device, NEW n \in Note,
           FetchTombstone(d, n) \/ FetchMissing(d, n) \/ FetchBlob(d, n)
    PROVE  /\ pc[d] = "fetch" /\ n \in run[d].cur
           /\ UNCHANGED <<row, purged, manifest, exists, etagOk, published, user_vars>>
           /\ blobs \subseteq blobs'
           /\ \A e \in Device, m \in Note : hist[e][m] \subseteq hist'[e][m]
           /\ \A e \in Device \ {d} : hist'[e] = hist[e]
           /\ \/ Deals(d, n, R(d, n), NoCopy)
              \/ /\ Downloads(d, run[d].cur, "write", row[d][n], NoCopy)
                 /\ (~R(d, n).deleted /\ Live(row[d][n])) => row[d][n].hash \in hist'[d][n]
<1>0. R(d, n) \in Item /\ row[d][n] \in Row /\ run[d] \in Run
  BY RunFields
<1>1. pc[d] = "fetch" /\ n \in run[d].cur
      /\ UNCHANGED <<row, purged, manifest, exists, etagOk, published, user_vars>>
  BY DEF FetchTombstone, FetchMissing, FetchBlob, Fetching, local_vars, remote_vars
<1>2. \A m \in Note : run[d].merged[m] = WithCopyOf(d, NoCopy, m)
  BY DEF WithCopyOf, NoCopy
<1>3. ASSUME Move(d, "merge", Handled(run[d], n, R(d, n)))
      PROVE  Deals(d, n, R(d, n), NoCopy)
  <2>1. TRUE \in BOOLEAN /\ {} \in SUBSET Note
    OBVIOUS
  <2> QED BY <1>0, <1>2, <1>3, <2>1, DealsBy
<1>4. ASSUME Move(d, "write", [run[d] EXCEPT !.existing = row[d][n]])
      PROVE  Downloads(d, run[d].cur, "write", row[d][n], NoCopy)
  <2> DEFINE g == [run[d] EXCEPT !.existing = row[d][n]]
  <2>1. g.fresh = run[d].fresh /\ g.snap = run[d].snap /\ g.local = run[d].local
        /\ g.psnap = run[d].psnap /\ g.todo = run[d].todo /\ g.merged = run[d].merged
        /\ g.cur = run[d].cur /\ g.existing = row[d][n]
    BY <1>0 DEF Run
  <2>2. pc'[d] = "write" /\ run'[d] = g
    BY <1>4 DEF Move, TypeOK
  <2> HIDE DEF g
  <2> QED BY <1>2, <2>1, <2>2 DEF Downloads, Kept
<1>5. CASE FetchTombstone(d, n)
  BY <1>1, <1>3, <1>4, <1>5 DEF FetchTombstone, local_vars, remote_vars
<1>6. CASE FetchMissing(d, n)
  <2>1. UNCHANGED hist
    BY <1>6 DEF FetchMissing, local_vars
  <2>2. CASE Move(d, "merge", Handled(run[d], n, R(d, n))) /\ UNCHANGED blobs
    BY <1>1, <1>3, <2>1, <2>2
  <2>3. CASE ~(Move(d, "merge", Handled(run[d], n, R(d, n))) /\ UNCHANGED blobs)
    <3>1. PICK m \in Note, ok \in BOOLEAN :
            /\ Upload(row[d][m], ok)
            /\ Move(d, "merge", [Handled(run[d], n, R(d, n)) EXCEPT
                   !.acted = @ \/ ok, !.failed = IF ok THEN @ ELSE @ \cup {m}])
      BY <1>6, <2>3 DEF FetchMissing
    <3> DEFINE h == Handled(run[d], n, R(d, n))
               acted == h.acted \/ ok
               failed == IF ok THEN h.failed ELSE h.failed \cup {m}
    <3>2. acted \in BOOLEAN /\ failed \in SUBSET Note
      <4>1. h \in Run
        BY <1>0, RunValues
      <4> HIDE DEF h
      <4> QED BY <4>1 DEF Run
    <3>3. Move(d, "merge", [h EXCEPT !.acted = acted, !.failed = failed])
      BY <3>1, Zenon
    <3> HIDE DEF acted, failed
    <3>4. Deals(d, n, R(d, n), NoCopy)
      BY <1>0, <1>2, <3>2, <3>3, DealsBy
    <3>5. blobs \subseteq blobs'
      BY <3>1 DEF Upload
    <3> QED
      BY <1>1, <2>1, <3>4, <3>5
  <2> QED BY <2>2, <2>3
<1>7. CASE FetchBlob(d, n)
  <2>1. Downloads(d, run[d].cur, "write", row[d][n], NoCopy) /\ UNCHANGED blobs
    BY <1>4, <1>7 DEF FetchBlob, remote_vars
  <2>2. /\ \A e \in Device, m \in Note : hist[e][m] \subseteq hist'[e][m]
        /\ \A e \in Device \ {d} : hist'[e] = hist[e]
        /\ Live(row[d][n]) => row[d][n].hash \in hist'[d][n]
    BY <1>7 DEF FetchBlob, TypeOK
  <2> QED
    BY <1>1, <2>1, <2>2
<1> QED
  BY <1>5, <1>6, <1>7

LEMMA WriteEffects ==
    ASSUME TypeOK, NEW d \in Device, NEW n \in Note, Write(d, n)
    PROVE  /\ pc[d] = "write" /\ n \in run[d].cur
           /\ UNCHANGED <<hist, purged, remote_vars, etagOk, published, user_vars>>
           /\ Deals(d, n, R(d, n), NoCopy)
           /\ \A m \in Note \ {n} : row'[d][m] = row[d][m]
           /\ \A e \in Device \ {d} : row'[e] = row[e]
           /\ \/ row'[d][n] = row[d][n]
              \/ row'[d][n] = Downloaded(R(d, n), run[d].existing)
<1>0. R(d, n) \in Item /\ run[d] \in Run
  BY RunFields
<1>1. \A m \in Note : run[d].merged[m] = WithCopyOf(d, NoCopy, m)
  BY DEF WithCopyOf, NoCopy
<1>2. Deals(d, n, R(d, n), NoCopy)
  <2>1. TRUE \in BOOLEAN /\ {} \in SUBSET Note
    OBVIOUS
  <2>2. Move(d, "merge", [Handled(run[d], n, R(d, n)) EXCEPT !.acted = TRUE])
    BY DEF Write
  <2> QED BY <1>0, <1>1, <2>1, <2>2, DealsBy
<1> DEFINE new == Downloaded(R(d, n), run[d].existing)
<1>3. row' = [row EXCEPT ![d][n] = new] \/ row' = row
  BY DEF Write
<1> HIDE DEF new
<1>4. /\ \A m \in Note \ {n} : row'[d][m] = row[d][m]
      /\ \A e \in Device \ {d} : row'[e] = row[e]
      /\ row'[d][n] = row[d][n] \/ row'[d][n] = new
  BY <1>3 DEF TypeOK
<1> QED
  BY <1>2, <1>4 DEF Write, new

-----------------------------------------------------------------------------
(* What every step leaves alone.                                           *)

\* A step of d touches no other device, and nothing produced is forgotten.
Frame(d) ==
    /\ \A e \in Device \ {d} :
         /\ row'[e] = row[e] /\ hist'[e] = hist[e] /\ purged'[e] = purged[e]
         /\ editor'[e] = editor[e] /\ erased'[e] = erased[e]
         /\ pc'[e] = pc[e] /\ run'[e] = run[e]
    /\ born \subseteq born' /\ used \subseteq used' /\ blobs \subseteq blobs'
    /\ \A c \in used : seen'[c] = seen[c]

LEMMA UserFrame == ASSUME TypeOK, NEW d \in Device, User(d) PROVE Frame(d)
<1>1. PICK n \in Note :
        \/ AddNote(d, n)    \/ Edit(d, n)       \/ OpenEditor(d, n)
        \/ SaveEditor(d, n) \/ SoftDelete(d, n) \/ RestoreNote(d, n)
        \/ HardDelete(d, n)
  BY DEF User
<1>2. ASSUME NEW c, NEW cs, Produce(c, cs)
      PROVE  used \subseteq used' /\ \A b \in used : seen'[b] = seen[b]
  BY <1>2 DEF Produce, TypeOK
<1>3. /\ \A e \in Device \ {d} : row'[e] = row[e] /\ purged'[e] = purged[e]
      /\ UNCHANGED engine_vars
  BY UserRows
<1>4. /\ \A e \in Device \ {d} : hist'[e] = hist[e] /\ editor'[e] = editor[e]
                                 /\ erased'[e] = erased[e]
      /\ born \subseteq born'
  BY <1>1 DEF AddNote, Edit, OpenEditor, SaveEditor, SaveNote, SoftDelete, RestoreNote,
              HardDelete, TypeOK
<1>5. used \subseteq used' /\ \A b \in used : seen'[b] = seen[b]
  BY <1>1, <1>2 DEF AddNote, Edit, OpenEditor, SaveEditor, SaveNote, SoftDelete,
                    RestoreNote, HardDelete
<1> QED
  BY <1>3, <1>4, <1>5 DEF Frame, engine_vars

\* The steps of a round other than those of the merge.
LEMMA EdgeFrame ==
    ASSUME TypeOK, NEW d \in Device,
           \/ Get(d)     \/ FirstUpload(d) \/ StartMerge(d)
           \/ PutOk(d)   \/ PutLost(d)     \/ PutConflict(d) \/ SkipPut(d)
           \/ Compare(d) \/ Mark(d)        \/ Unpurge(d)     \/ Abort(d)
    PROVE  Frame(d)
<1>1. \E s, r : Move(d, s, r)
  BY DEF Get, FirstUpload, StartMerge, PutOk, PutLost, PutConflict, SkipPut, Compare,
         Mark, Unpurge, Abort
<1>2. \A e \in Device \ {d} : pc'[e] = pc[e] /\ run'[e] = run[e]
  BY <1>1 DEF Move, TypeOK
<1>3. UNCHANGED user_vars
  BY DEF Get, FirstUpload, StartMerge, PutOk, PutLost, PutConflict, SkipPut, Compare,
         Mark, Unpurge, Abort
<1>4. blobs \subseteq blobs'
  BY DEF Get, FirstUpload, StartMerge, PutOk, PutLost, PutConflict, SkipPut, Compare,
         Mark, Unpurge, Abort, remote_vars
<1>5. \A e \in Device \ {d} :
        row'[e] = row[e] /\ hist'[e] = hist[e] /\ purged'[e] = purged[e]
  BY DEF Get, FirstUpload, StartMerge, PutOk, PutLost, PutConflict, SkipPut, Compare,
         Mark, Unpurge, Abort, local_vars, TypeOK
<1> QED
  BY <1>2, <1>3, <1>4, <1>5 DEF Frame, user_vars

LEMMA MergeFrame == ASSUME TypeOK, NEW d \in Device, MergeNote(d) PROVE Frame(d)
<1>1. PICK n \in Note :
        \/ \/ SkipPurged(d, n)       \/ RemoteOnly(d, n) \/ LocalOnly(d, n)
           \/ KeepEqual(d, n)        \/ FastForwardLocal(d, n)
           \/ FastForwardRemote(d, n)
        \/ ConflictLocalWins(d, n) \/ ConflictLocalGone(d, n) \/ ConflictRemoteWins(d, n)
        \/ FetchTombstone(d, n) \/ FetchMissing(d, n) \/ FetchBlob(d, n)
        \/ Write(d, n)
  BY DEF MergeNote
<1>2. \A e \in Device \ {d} : pc'[e] = pc[e] /\ run'[e] = run[e]
  <2>1. \E s, r : Move(d, s, r)
    BY <1>1 DEF SkipPurged, RemoteOnly, LocalOnly, KeepEqual, FastForwardLocal,
         FastForwardRemote, ConflictLocalWins, ConflictLocalGone, ConflictRemoteWins,
         FetchTombstone, FetchMissing, FetchBlob, Write, Send, StartDownload
  <2> QED BY <2>1 DEF Move, TypeOK
<1>3. CASE \/ SkipPurged(d, n)       \/ RemoteOnly(d, n) \/ LocalOnly(d, n)
           \/ KeepEqual(d, n)        \/ FastForwardLocal(d, n)
           \/ FastForwardRemote(d, n)
  BY <1>2, <1>3, BranchEffects DEF Frame, local_vars, user_vars
<1>4. CASE ConflictLocalWins(d, n) \/ ConflictLocalGone(d, n) \/ ConflictRemoteWins(d, n)
  <2>1. PICK cp, h : CopyStored(d, h, cp)
    BY <1>4, ConflictEffects
  <2>2. \E wanted, c, h2 : StoreCopy(d, h2, c)
    BY <1>4 DEF ConflictLocalWins, ConflictLocalGone, ConflictRemoteWins
  <2>3. \A e \in Device \ {d} : row'[e] = row[e]
    BY <2>2 DEF StoreCopy, TypeOK
  <2>4. UNCHANGED <<manifest, exists, etagOk, published, editor, ops, erased>>
        /\ blobs \subseteq blobs'
    BY <1>4, ConflictEffects
  <2> QED BY <1>2, <2>1, <2>3, <2>4 DEF Frame, CopyStored
<1>5. CASE FetchTombstone(d, n) \/ FetchMissing(d, n) \/ FetchBlob(d, n)
  BY <1>2, <1>5, FetchEffects DEF Frame, user_vars
<1>6. CASE Write(d, n)
  BY <1>2, <1>6, WriteEffects DEF Frame, user_vars, remote_vars
<1> QED
  BY <1>1, <1>3, <1>4, <1>5, <1>6

LEMMA StepFrame ==
    ASSUME TypeOK, NEW d \in Device, User(d) \/ Engine(d) \/ Fault(d) PROVE Frame(d)
  BY UserFrame, EdgeFrame, MergeFrame DEF Engine, Fault

\* What the end of a round does: rows keep their texts, the purged list may
\* shrink when the round is over, and a PUT publishes the merged manifest.
LEMMA EndEffects ==
    ASSUME TypeOK, NEW d \in Device,
           \/ PutOk(d)   \/ PutLost(d) \/ PutConflict(d) \/ SkipPut(d)
           \/ Compare(d) \/ Mark(d)    \/ Unpurge(d)     \/ Abort(d)
    PROVE  /\ pc'[d] \notin Transfer
           /\ UNCHANGED <<hist, blobs, user_vars>>
           /\ \A m \in Note :
                /\ row'[d][m].hash = row[d][m].hash
                /\ row'[d][m].deleted = row[d][m].deleted
                /\ row'[d][m].base \in {row[d][m].base, row[d][m].hash}
           /\ \/ purged' = purged
              \/ /\ pc[d] = "unpurge" /\ pc'[d] # "unpurge"
                 /\ purged'[d] = run[d].psnap \ Cleaned(d)
           /\ pc'[d] = "unpurge" => run'[d].psnap = purged'[d]
           /\ \/ UNCHANGED <<manifest, exists>>
              \/ /\ pc[d] = "merge" /\ run[d].todo = {} /\ etagOk[d]
                 /\ manifest' = Final(d) /\ pc'[d] # pc[d]
<1>1. ASSUME NEW m \in Note
      PROVE  /\ row'[d][m].hash = row[d][m].hash
             /\ row'[d][m].deleted = row[d][m].deleted
             /\ row'[d][m].base \in {row[d][m].base, row[d][m].hash}
  <2>1. CASE Mark(d)
    <3>1. row'[d][m] = row[d][m] \/ row'[d][m] = Marked(row[d][m])
      BY <2>1 DEF Mark, TypeOK
    <3>2. row[d][m] \in Row
      BY DEF TypeOK
    <3> QED BY <3>1, <3>2 DEF Marked, Row
  <2>2. CASE ~Mark(d)
    BY <2>2 DEF PutOk, PutLost, PutConflict, SkipPut, Compare, Unpurge, Abort, local_vars
  <2> QED BY <2>1, <2>2
<1>2. UNCHANGED <<hist, blobs, user_vars>>
  BY DEF PutOk, PutLost, PutConflict, SkipPut, Compare, Mark, Unpurge, Abort, local_vars,
         remote_vars
<1>3. /\ \/ UNCHANGED <<manifest, exists>>
         \/ /\ pc[d] = "merge" /\ run[d].todo = {} /\ etagOk[d]
            /\ manifest' = Final(d) /\ pc'[d] # pc[d]
      /\ pc'[d] \notin Transfer
  BY DEF PutOk, PutLost, PutConflict, SkipPut, Compare, Mark, Unpurge, Abort,
         remote_vars, MergeDone, StoreManifest, Move, TypeOK, Transfer
<1>4. CASE Mark(d)
  <2>1. run'[d] = [run[d] EXCEPT !.psnap = purged[d]] /\ purged' = purged
    BY <1>4 DEF Mark, Move, TypeOK
  <2>2. run[d] \in Run
    BY RunFields
  <2>3. run'[d].psnap = purged'[d]
    BY <2>1, <2>2 DEF Run
  <2> QED BY <1>1, <1>2, <1>3, <2>1, <2>3
<1>5. CASE Unpurge(d)
  <2>1. pc[d] = "unpurge" /\ pc'[d] = "idle"
    BY <1>5 DEF Unpurge, Move, TypeOK
  <2>2. purged' = purged \/ purged'[d] = run[d].psnap \ Cleaned(d)
    BY <1>5 DEF Unpurge, TypeOK
  <2> QED BY <1>1, <1>2, <1>3, <2>1, <2>2
<1>6. CASE PutOk(d) \/ PutLost(d) \/ PutConflict(d) \/ SkipPut(d) \/ Compare(d) \/ Abort(d)
  <2>1. purged' = purged /\ pc'[d] # "unpurge"
    BY <1>6 DEF PutOk, PutLost, PutConflict, SkipPut, Compare, Abort, local_vars,
                Move, TypeOK
  <2> QED BY <1>1, <1>2, <1>3, <2>1
<1> QED
  BY <1>4, <1>5, <1>6

\* The start of a round: expired tombstones go, the rest is snapshotted.
Gets(d, gone) ==
    /\ pc'[d] = "plan"
    /\ UNCHANGED <<remote_vars, tries, published, user_vars>>
    /\ purged'[d] = purged[d] \cup gone
    /\ \A m \in Note : row'[d][m] = IF m \in gone THEN NoRow ELSE row[d][m]
    /\ run'[d].fresh = ~exists /\ run'[d].snap = manifest
    /\ \A m \in Note : run'[d].local[m] = AsItem(row'[d][m])
    /\ run'[d].todo = {} /\ run'[d].cur = {} /\ run'[d].merged = NoItems

LEMMA GetEffects ==
    ASSUME TypeOK, NEW d \in Device, Get(d)
    PROVE  \E gone \in SUBSET {n \in Note : row[d][n].deleted} : Gets(d, gone)
<1>1. PICK gone \in SUBSET {n \in Note : row[d][n].deleted} :
        LET kept == [n \in Note |-> IF n \in gone THEN NoRow ELSE row[d][n]] IN
        /\ row' = [row EXCEPT ![d] = kept]
        /\ purged' = [purged EXCEPT ![d] = @ \cup gone]
        /\ Move(d, "plan", [IdleRun EXCEPT
               !.fresh = ~exists, !.snap = manifest,
               !.local = [n \in Note |-> AsItem(kept[n])]])
  BY DEF Get
<1> DEFINE kept == [n \in Note |-> IF n \in gone THEN NoRow ELSE row[d][n]]
           items == [n \in Note |-> AsItem(kept[n])]
           r == [IdleRun EXCEPT !.fresh = ~exists, !.snap = manifest, !.local = items]
<1>2. row'[d] = kept /\ purged'[d] = purged[d] \cup gone
  BY <1>1 DEF TypeOK
<1>3. pc'[d] = "plan" /\ run'[d] = r
  BY <1>1 DEF Move, TypeOK
<1> HIDE DEF items
<1>4. /\ r.fresh = ~exists /\ r.snap = manifest /\ r.local = items
      /\ r.todo = {} /\ r.cur = {} /\ r.merged = NoItems
  BY DEF IdleRun
<1> HIDE DEF r
<1>5. \A m \in Note : /\ row'[d][m] = IF m \in gone THEN NoRow ELSE row[d][m]
                      /\ run'[d].local[m] = AsItem(row'[d][m])
  BY <1>2, <1>3, <1>4 DEF items
<1> QED
  BY <1>2, <1>3, <1>4, <1>5 DEF Get, Gets

LEMMA FirstUploadEffects ==
    ASSUME TypeOK, NEW d \in Device, FirstUpload(d)
    PROVE  /\ pc[d] = "plan" /\ pc'[d] = "merge" /\ run[d].fresh /\ Kept(d)
           /\ run'[d].todo = run[d].todo /\ run'[d].cur = run[d].cur
           /\ blobs \subseteq blobs'
           /\ UNCHANGED <<local_vars, manifest, exists, etagOk, published, user_vars>>
           /\ \A m \in Note :
                \/ run'[d].merged[m] = NoItem
                \/ run'[d].merged[m] = L(d, m) /\ Sent(d, m)
<1> DEFINE live == {n \in {n \in Note : Present(row[d][n])} \ purged[d] : Live(row[d][n])}
<1>1. PICK failed \in SUBSET live :
        /\ blobs' = blobs \cup {row[d][n].hash : n \in live \ failed}
        /\ Move(d, "merge", [run[d] EXCEPT
               !.merged = [n \in Note |-> IF n \in purged[d] \cup failed
                                          THEN NoItem ELSE run[d].local[n]],
               !.failed = failed, !.acted = TRUE])
  BY DEF FirstUpload
<1> DEFINE items == [n \in Note |-> IF n \in purged[d] \cup failed
                                    THEN NoItem ELSE run[d].local[n]]
           r == [run[d] EXCEPT !.merged = items, !.failed = failed, !.acted = TRUE]
<1>2. pc'[d] = "merge" /\ run'[d] = r
  BY <1>1 DEF Move, TypeOK
<1>3. \A m \in Note : \/ items[m] = NoItem
                      \/ items[m] = L(d, m) /\ Sent(d, m)
  BY <1>1 DEF L, Sent, Live, Present
<1>4. run[d] \in Run
  BY RunFields
<1> HIDE DEF items
<1>5. /\ r.fresh = run[d].fresh /\ r.snap = run[d].snap /\ r.local = run[d].local
      /\ r.psnap = run[d].psnap /\ r.todo = run[d].todo /\ r.cur = run[d].cur
      /\ r.merged = items
  BY <1>4 DEF Run
<1> HIDE DEF r
<1> QED
  BY <1>1, <1>2, <1>3, <1>5 DEF FirstUpload, Kept

LEMMA StartMergeEffects ==
    ASSUME TypeOK, NEW d \in Device, StartMerge(d)
    PROVE  /\ pc[d] = "plan" /\ pc'[d] = "merge"
           /\ run'[d].fresh = run[d].fresh /\ run'[d].snap = run[d].snap
           /\ run'[d].local = run[d].local /\ run'[d].psnap = purged[d]
           /\ run'[d].todo = {n \in Note : Present(L(d, n)) \/ Present(R(d, n))}
           /\ run'[d].cur = run[d].cur /\ run'[d].merged = run[d].merged
           /\ UNCHANGED <<local_vars, remote_vars, etagOk, published, user_vars>>
<1> DEFINE todo == {n \in Note : Present(run[d].local[n]) \/ Present(run[d].snap[n])}
           r == [run[d] EXCEPT !.psnap = purged[d], !.todo = todo]
<1>1. pc'[d] = "merge" /\ run'[d] = r
  BY DEF StartMerge, Move, TypeOK
<1>2. todo = {n \in Note : Present(L(d, n)) \/ Present(R(d, n))}
  BY DEF L, R
<1>3. run[d] \in Run
  BY RunFields
<1> HIDE DEF todo
<1>4. /\ r.fresh = run[d].fresh /\ r.snap = run[d].snap /\ r.local = run[d].local
      /\ r.psnap = purged[d] /\ r.todo = todo /\ r.cur = run[d].cur
      /\ r.merged = run[d].merged
  BY <1>3 DEF Run
<1> HIDE DEF r
<1> QED
  BY <1>1, <1>2, <1>4 DEF StartMerge

\* The user's calls, by what they do to the note n they are about: a new note,
Adds(d, n) ==
    /\ n \notin born /\ n \in born'
    /\ \E c \in Content \ used, t \in Stamp :
         c \in used' /\ row'[d][n] = Unsynced(c, t)
    /\ UNCHANGED <<hist, purged, erased>>

\* a text saved on top of orig, the row or what the editor read of it before,
Saves(d, n, orig) ==
    /\ Present(orig)
    /\ orig = row[d][n] \/ (orig = editor[d][n] /\ Present(editor[d][n]))
    /\ \E c \in Content \ used, t \in Stamp :
         /\ row'[d][n] = Saved(d, n, orig, c, t)
         /\ c \in used' /\ seen'[c] = Incorporates(orig.hash)
    /\ orig.hash \in hist'[d][n]
    /\ UNCHANGED <<purged, erased>>

\* a row that keeps its text and its base,
Turns(d, n) ==
    /\ Present(row[d][n]) \/ row[d][n].deleted
    /\ row'[d][n].hash = row[d][n].hash /\ row'[d][n].base = row[d][n].base
    /\ UNCHANGED <<hist, purged, erased>>

\* or a permanent delete.
Erases(d, n) ==
    /\ row[d][n].deleted /\ row'[d][n] = NoRow
    /\ purged'[d] = purged[d] \cup {n}
    /\ erased'[d] = erased[d] \cup {n}

LEMMA UserEffects ==
    ASSUME TypeOK, NEW d \in Device, User(d)
    PROVE  /\ pc[d] \in {"idle", "get"} \cup Windows
           /\ pc' = pc /\ run' = run
           /\ UNCHANGED <<manifest, exists, blobs, etagOk, published>>
           /\ \E n \in Note :
                /\ \A m \in Note \ {n} :
                     row'[d][m] = row[d][m] /\ hist'[d][m] = hist[d][m]
                /\ "editor" \notin Windows => editor' = editor \/ Present(editor[d][n])
                /\ \/ Adds(d, n)
                   \/ \E orig : Saves(d, n, orig)
                   \/ Turns(d, n)
                   \/ Erases(d, n)
<1>1. PICK n \in Note :
        \/ AddNote(d, n)    \/ Edit(d, n)       \/ OpenEditor(d, n)
        \/ SaveEditor(d, n) \/ SoftDelete(d, n) \/ RestoreNote(d, n)
        \/ HardDelete(d, n)
  BY DEF User
<1>2. UNCHANGED <<manifest, exists, blobs, etagOk, published>> /\ pc' = pc /\ run' = run
  BY UserRows DEF engine_vars
<1>3. pc[d] \in {"idle", "get"} \cup Windows
  BY <1>1 DEF AddNote, Edit, OpenEditor, SaveEditor, SoftDelete, RestoreNote, HardDelete,
              UserMay, InWindow
<1>4. \A m \in Note \ {n} :
        row'[d][m] = row[d][m] /\ hist'[d][m] = hist[d][m] /\ editor'[d][m] = editor[d][m]
  BY <1>1 DEF AddNote, Edit, OpenEditor, SaveEditor, SaveNote, SoftDelete, RestoreNote,
              HardDelete, TypeOK
<1>5. "editor" \notin Windows => editor' = editor \/ Present(editor[d][n])
  BY <1>1 DEF AddNote, Edit, OpenEditor, SaveEditor, SoftDelete, RestoreNote, HardDelete
<1>6. ASSUME NEW orig, Present(orig), SaveNote(d, n, orig),
             orig = row[d][n] \/ (orig = editor[d][n] /\ Present(editor[d][n]))
      PROVE  Saves(d, n, orig)
  <2>1. PICK c \in Content, t \in Stamp :
          /\ Produce(c, Incorporates(orig.hash))
          /\ row' = [row EXCEPT ![d][n] = Saved(d, n, orig, c, t)]
    BY <1>6 DEF SaveNote
  <2> DEFINE new == Saved(d, n, orig, c, t)
  <2>2. row' = [row EXCEPT ![d][n] = new]
    BY <2>1
  <2> HIDE DEF new
  <2>3. row'[d][n] = new
    BY <2>2 DEF TypeOK
  <2>4. orig.hash \in hist'[d][n] /\ UNCHANGED <<purged, erased>>
    BY <1>6 DEF SaveNote, TypeOK
  <2>5. c \in Content \ used /\ c \in used' /\ seen'[c] = Incorporates(orig.hash)
    BY <2>1 DEF Produce, TypeOK
  <2> QED BY <1>6, <2>3, <2>4, <2>5 DEF new, Saves
<1>7. CASE AddNote(d, n)
  <2>1. n \notin born /\ n \in born' /\ UNCHANGED <<hist, purged, erased>>
    BY <1>7 DEF AddNote
  <2>2. \E c \in Content \ used, t \in Stamp : c \in used' /\ row'[d][n] = Unsynced(c, t)
    BY <1>7 DEF AddNote, Produce, TypeOK
  <2> QED BY <1>2, <1>3, <1>4, <1>5, <2>1, <2>2 DEF Adds
<1>8. CASE Edit(d, n)
  BY <1>2, <1>3, <1>4, <1>5, <1>6, <1>8 DEF Edit, Live, Present
<1>9. CASE SaveEditor(d, n)
  BY <1>2, <1>3, <1>4, <1>5, <1>6, <1>9 DEF SaveEditor
<1>10. CASE OpenEditor(d, n)
  <2>1. row' = row /\ UNCHANGED <<hist, purged, erased>> /\ Present(row[d][n])
    BY <1>10 DEF OpenEditor, Live, Present
  <2> QED BY <1>2, <1>3, <1>4, <1>5, <2>1 DEF Turns
<1>11. CASE SoftDelete(d, n) \/ RestoreNote(d, n)
  <2>1. row[d][n] \in Row
    BY DEF TypeOK
  <2>2. \E b \in BOOLEAN, t \in Stamp :
          row' = [row EXCEPT ![d][n].deleted = b, ![d][n].at = t]
    BY <1>11 DEF SoftDelete, RestoreNote
  <2>3. row'[d][n].hash = row[d][n].hash /\ row'[d][n].base = row[d][n].base
    BY <2>1, <2>2 DEF TypeOK, Row
  <2>4. Present(row[d][n]) \/ row[d][n].deleted
    BY <1>11 DEF SoftDelete, RestoreNote, Live, Present
  <2>5. UNCHANGED <<hist, purged, erased>>
    BY <1>11 DEF SoftDelete, RestoreNote
  <2> QED BY <1>2, <1>3, <1>4, <1>5, <2>3, <2>4, <2>5 DEF Turns
<1>12. CASE HardDelete(d, n)
  <2>1. /\ row[d][n].deleted /\ row'[d][n] = NoRow
        /\ purged'[d] = purged[d] \cup {n} /\ erased'[d] = erased[d] \cup {n}
    BY <1>12 DEF HardDelete, TypeOK
  <2> QED BY <1>2, <1>3, <1>4, <1>5, <2>1 DEF Erases
<1> QED
  BY <1>1, <1>7, <1>8, <1>9, <1>10, <1>11, <1>12

-----------------------------------------------------------------------------
(* The uuids in circulation: whatever a row, the manifest, a snapshot, the *)
(* merged manifest or a purged list names has been generated, so that a    *)
(* new note or a conflict copy never falls on one of them.                 *)

BornRows(d) ==
    \A n \in Note : /\ Present(row[d][n]) => n \in born
                    /\ row[d][n].deleted => Present(row[d][n])

BornRound(d) ==
    /\ pc[d] \in Transfer =>
         /\ run[d].todo \subseteq born /\ run[d].cur \subseteq run[d].todo
         /\ \A n \in Note :
              (Present(L(d, n)) \/ Present(R(d, n)) \/ Present(run[d].merged[n]))
                => n \in born
    /\ pc[d] = "plan" => run[d].cur = {}
    /\ pc[d] = "unpurge" => run[d].psnap \subseteq purged[d]

BornInv ==
    /\ \A n \in Note : Present(manifest[n]) => n \in born
    /\ \A d \in Device : purged[d] \subseteq born /\ BornRows(d) /\ BornRound(d)

LEMMA BornInit == Init => BornInv
<1> SUFFICES ASSUME Init PROVE BornInv
  OBVIOUS
<1>1. \A n \in Note : /\ Present(SeedRow(n)) => n \in born
                      /\ Present(AsItem(SeedRow(n))) => n \in born
                      /\ ~SeedRow(n).deleted
  BY DEF Init, SeedRow, NoRow, AsItem, Present
<1> QED
  BY <1>1 DEF Init, BornInv, BornRows, BornRound, Transfer

LEMMA BornStep ==
    ASSUME TypeOK, BornInv, NEW d \in Device, Frame(d),
           \A n \in Note : Present(manifest'[n]) => n \in born',
           purged'[d] \subseteq born',
           BornRows(d)', BornRound(d)'
    PROVE  BornInv'
<1>1. ASSUME NEW e \in Device \ {d}
      PROVE  (purged[e] \subseteq born)' /\ BornRows(e)' /\ BornRound(e)'
  BY DEF Frame, BornInv, BornRows, BornRound, L, R
<1> QED
  BY <1>1 DEF BornInv

LEMMA UserBorn ==
    ASSUME TypeOK, BornInv, NEW d \in Device, User(d) PROVE BornInv'
<1>0. \A c \in Content : c # 0
  BY BoundsAssumption, SMT DEF Content
<1>1. Frame(d)
  BY UserFrame
<1>2. PICK n \in Note :
        /\ \A m \in Note \ {n} : row'[d][m] = row[d][m]
        /\ Adds(d, n) \/ (\E orig : Saves(d, n, orig)) \/ Turns(d, n) \/ Erases(d, n)
  BY UserEffects
<1>7. pc' = pc /\ run' = run /\ manifest' = manifest
  BY UserEffects
<1>3. BornRows(d) /\ born \subseteq born'
  BY <1>1 DEF BornInv, Frame
<1>4. /\ Present(row'[d][n]) => n \in born'
      /\ row'[d][n].deleted => Present(row'[d][n])
      /\ purged'[d] \subseteq born' /\ purged[d] \subseteq purged'[d]
  <2>1. purged[d] \subseteq born
    BY DEF BornInv
  <2>2. CASE Adds(d, n)
    BY <1>0, <1>3, <2>1, <2>2 DEF Adds, Unsynced, Present
  <2>3. ASSUME NEW orig, Saves(d, n, orig)
        PROVE  /\ Present(row'[d][n]) => n \in born'
               /\ row'[d][n].deleted => Present(row'[d][n])
               /\ purged' = purged
    <3>1. PICK c \in Content, t \in Stamp : row'[d][n] = Saved(d, n, orig, c, t)
      BY <2>3 DEF Saves
    <3> QED BY <1>0, <1>3, <2>3, <3>1 DEF Saves, Saved, NoRow, Present, BornRows
  <2>4. CASE Turns(d, n)
    BY <1>3, <2>1, <2>4 DEF Turns, Present, BornRows
  <2>5. CASE Erases(d, n)
    BY <1>3, <2>1, <2>5 DEF Erases, NoRow, Present, BornRows
  <2> QED BY <1>2, <1>3, <2>1, <2>2, <2>3, <2>4, <2>5
<1>5. BornRows(d)'
  BY <1>2, <1>3, <1>4 DEF BornRows
<1>6. BornRound(d)'
  BY <1>3, <1>4, <1>7 DEF BornInv, BornRound, L, R
<1> QED
  BY <1>1, <1>3, <1>4, <1>5, <1>6, <1>7, BornStep DEF BornInv

\* What a step of the merge has to show of the round.
LEMMA DealsBorn ==
    ASSUME TypeOK, BornInv, NEW d \in Device, pc[d] \in Transfer, NEW n \in run[d].todo,
           NEW cp, born \subseteq born', cp.note \subseteq born', NEW x,
           \/ Deals(d, n, x, cp)
           \/ \E e : \E s \in {"fetch", "write"} :
                Downloads(d, {n}, s, e, cp) \/ Downloads(d, run[d].cur, s, e, cp)
    PROVE  BornRound(d)'
<1>1. /\ run[d].todo \subseteq born /\ run[d].cur \subseteq run[d].todo
      /\ \A m \in Note :
           (Present(L(d, m)) \/ Present(R(d, m)) \/ Present(run[d].merged[m])) => m \in born
  BY DEF BornInv, BornRound
<1>2. Kept(d) /\ pc'[d] \in {"merge", "fetch", "write"}
      /\ run'[d].todo \subseteq run[d].todo /\ run'[d].cur \subseteq run'[d].todo
  BY <1>1 DEF Deals, Downloads
<1>3. ASSUME NEW m \in Note, Present(run'[d].merged[m]) PROVE m \in born'
  BY <1>1, <1>3 DEF Deals, Downloads, WithCopyOf
<1>4. \A m \in Note : L(d, m)' = L(d, m) /\ R(d, m)' = R(d, m)
  BY <1>2 DEF Kept, L, R
<1> QED
  BY <1>1, <1>2, <1>3, <1>4 DEF BornRound, Transfer

LEMMA MergeBorn ==
    ASSUME TypeOK, EntryInv, BornInv, NEW d \in Device, MergeNote(d) PROVE BornInv'
<1>0. Frame(d) /\ born \subseteq born'
  BY MergeFrame DEF Frame
<1>1. PICK n \in Note :
        \/ \/ SkipPurged(d, n)       \/ RemoteOnly(d, n) \/ LocalOnly(d, n)
           \/ KeepEqual(d, n)        \/ FastForwardLocal(d, n)
           \/ FastForwardRemote(d, n)
        \/ ConflictLocalWins(d, n) \/ ConflictLocalGone(d, n) \/ ConflictRemoteWins(d, n)
        \/ FetchTombstone(d, n) \/ FetchMissing(d, n) \/ FetchBlob(d, n)
        \/ Write(d, n)
  BY DEF MergeNote
<1>2. ASSUME UNCHANGED <<manifest, purged>>, BornRows(d)', BornRound(d)' PROVE BornInv'
  BY <1>0, <1>2, BornStep DEF BornInv
<1>3. BornRows(d) /\ (pc[d] \in Transfer => run[d].cur \subseteq run[d].todo)
  BY DEF BornInv, BornRound
<1>4. NoCopy.note \subseteq born'
  BY DEF NoCopy
<1>5. CASE \/ SkipPurged(d, n)       \/ RemoteOnly(d, n) \/ LocalOnly(d, n)
           \/ KeepEqual(d, n)        \/ FastForwardLocal(d, n)
           \/ FastForwardRemote(d, n)
  <2>1. /\ pc[d] = "merge" /\ n \in run[d].todo
        /\ UNCHANGED <<row, purged, manifest>>
        /\ \/ \E x : Deals(d, n, x, NoCopy)
           \/ Downloads(d, {n}, "fetch", run[d].existing, NoCopy)
    BY <1>5, BranchEffects DEF local_vars
  <2>2. BornRound(d)'
    BY <1>0, <1>4, <2>1, DealsBorn DEF Transfer
  <2>3. BornRows(d)'
    BY <1>0, <1>3, <2>1 DEF BornRows
  <2> QED BY <1>2, <2>1, <2>2, <2>3
<1>6. CASE ConflictLocalWins(d, n) \/ ConflictLocalGone(d, n) \/ ConflictRemoteWins(d, n)
  <2>1. PICK cp, h : /\ CopyStored(d, h, cp)
                     /\ \/ \E x : Deals(d, n, x, cp)
                        \/ Downloads(d, {n}, "fetch", run[d].existing, cp)
    BY <1>6, ConflictEffects
  <2>2. pc[d] = "merge" /\ n \in run[d].todo /\ UNCHANGED <<manifest, purged>>
    BY <1>6, <2>1, ConflictEffects DEF CopyStored
  <2>3. cp.note \subseteq born'
    BY <2>1 DEF CopyStored
  <2>4. BornRound(d)'
    BY <1>0, <2>1, <2>2, <2>3, DealsBorn DEF Transfer
  <2>5. BornRows(d)'
    <3>1. \A c \in Content : c # 0
      BY BoundsAssumption, SMT DEF Content
    <3>2. ASSUME NEW m \in cp.note
          PROVE  ~row'[d][m].deleted /\ m \in born'
      BY <2>1 DEF CopyStored, Unsynced
    <3>3. ASSUME NEW m \in Note \ cp.note PROVE row'[d][m] = row[d][m]
      BY <2>1 DEF CopyStored
    <3> QED BY <1>0, <1>3, <3>2, <3>3 DEF BornRows
  <2> QED BY <1>2, <2>2, <2>4, <2>5
<1>7. CASE FetchTombstone(d, n) \/ FetchMissing(d, n) \/ FetchBlob(d, n)
  <2>1. /\ pc[d] = "fetch" /\ n \in run[d].cur
        /\ UNCHANGED <<row, purged, manifest>>
        /\ \/ Deals(d, n, R(d, n), NoCopy)
           \/ Downloads(d, run[d].cur, "write", row[d][n], NoCopy)
    BY <1>7, FetchEffects
  <2>2. n \in run[d].todo
    BY <1>3, <2>1 DEF Transfer
  <2>3. BornRound(d)'
    BY <1>0, <1>4, <2>1, <2>2, DealsBorn DEF Transfer
  <2>4. BornRows(d)'
    BY <1>0, <1>3, <2>1 DEF BornRows
  <2> QED BY <1>2, <2>1, <2>3, <2>4
<1>8. CASE Write(d, n)
  <2>1. /\ pc[d] = "write" /\ n \in run[d].cur
        /\ UNCHANGED <<purged, manifest>>
        /\ Deals(d, n, R(d, n), NoCopy)
        /\ \A m \in Note \ {n} : row'[d][m] = row[d][m]
        /\ \/ row'[d][n] = row[d][n]
           \/ row'[d][n] = Downloaded(R(d, n), run[d].existing)
    BY <1>8, WriteEffects DEF remote_vars
  <2>2. n \in run[d].todo /\ n \in born
    BY <1>3, <2>1 DEF Transfer, BornInv, BornRound
  <2>3. BornRound(d)'
    BY <1>0, <1>4, <2>1, <2>2, DealsBorn DEF Transfer
  <2>4. R(d, n).deleted => Present(run[d].existing)
    BY <2>1 DEF EntryInv, RoundEntries
  <2>5. Downloaded(R(d, n), run[d].existing).deleted
          => Present(Downloaded(R(d, n), run[d].existing))
    <3>1. run[d].existing \in Row
      BY RunFields
    <3> QED BY <2>4, <3>1 DEF Downloaded, Unsynced, Present, Row
  <2>6. BornRows(d)'
    BY <1>0, <1>3, <2>1, <2>2, <2>5 DEF BornRows
  <2> QED BY <1>2, <2>1, <2>3, <2>6
<1> QED
  BY <1>1, <1>5, <1>6, <1>7, <1>8

LEMMA EdgeBorn ==
    ASSUME TypeOK, EntryInv, BornInv, NEW d \in Device,
           \/ Get(d)     \/ FirstUpload(d) \/ StartMerge(d)
           \/ PutOk(d)   \/ PutLost(d)     \/ PutConflict(d) \/ SkipPut(d)
           \/ Compare(d) \/ Mark(d)        \/ Unpurge(d)     \/ Abort(d)
    PROVE  BornInv'
<1>0. Frame(d) /\ BornRows(d) /\ BornRound(d) /\ purged[d] \subseteq born
  BY EdgeFrame DEF BornInv
<1>1. CASE Get(d)
  <2>0. PICK gone \in SUBSET {n \in Note : row[d][n].deleted} : Gets(d, gone)
    BY <1>1, GetEffects
  <2>1. /\ pc'[d] = "plan"
        /\ UNCHANGED <<remote_vars, tries, published, user_vars>>
        /\ purged'[d] = purged[d] \cup gone
        /\ \A m \in Note : row'[d][m] = IF m \in gone THEN NoRow ELSE row[d][m]
        /\ run'[d].fresh = ~exists /\ run'[d].snap = manifest
        /\ \A m \in Note : run'[d].local[m] = AsItem(row'[d][m])
        /\ run'[d].todo = {} /\ run'[d].cur = {} /\ run'[d].merged = NoItems
    BY <2>0 DEF Gets
  <2>2. UNCHANGED <<born, manifest>>
    BY <2>1 DEF user_vars, remote_vars
  <2>3. BornRows(d)'
    BY <1>0, <2>1, <2>2 DEF BornRows, NoRow, Present
  <2>4. ASSUME NEW n \in Note,
               (Present(L(d, n)) \/ Present(R(d, n)) \/ Present(run[d].merged[n]))'
        PROVE  n \in born'
    <3>1. L(d, n)' = AsItem(row'[d][n])
      BY <2>1 DEF L
    <3>2. R(d, n)' = manifest[n] /\ ~Present(run'[d].merged[n])
      BY <2>1 DEF R, Present, NoItems, NoItem
    <3>3. Present(row'[d][n]) => n \in born'
      BY <2>3 DEF BornRows
    <3> QED BY <2>2, <2>4, <3>1, <3>2, <3>3 DEF BornInv, Present, AsItem
  <2>5. purged'[d] \subseteq born'
    BY <1>0, <2>1, <2>2 DEF BornRows
  <2> QED
    BY <1>0, <2>1, <2>2, <2>3, <2>4, <2>5, BornStep DEF BornRound, BornInv
<1>2. CASE FirstUpload(d)
  <2>1. /\ pc[d] = "plan" /\ pc'[d] = "merge" /\ Kept(d)
        /\ run'[d].todo = run[d].todo /\ run'[d].cur = run[d].cur
        /\ UNCHANGED <<row, purged, manifest, born>>
        /\ \A m \in Note : \/ run'[d].merged[m] = NoItem
                           \/ run'[d].merged[m] = L(d, m)
    BY <1>2, FirstUploadEffects DEF local_vars, user_vars
  <2>2. \A n \in Note : Present(run'[d].merged[n]) => n \in born
    BY <1>0, <2>1 DEF BornRound, Transfer, Present, NoItem
  <2>3. BornRows(d)'
    BY <1>0, <2>1 DEF BornRows
  <2>4. BornRound(d)'
    BY <1>0, <2>1, <2>2 DEF BornRound, Transfer, Kept, L, R
  <2> QED
    BY <1>0, <2>1, <2>3, <2>4, BornStep DEF BornInv
<1>3. CASE StartMerge(d)
  <2>1. /\ pc[d] = "plan" /\ pc'[d] = "merge"
        /\ run'[d].snap = run[d].snap /\ run'[d].local = run[d].local
        /\ run'[d].todo = {n \in Note : Present(L(d, n)) \/ Present(R(d, n))}
        /\ run'[d].cur = run[d].cur /\ run'[d].merged = run[d].merged
        /\ UNCHANGED <<row, purged, manifest, born>>
    BY <1>3, StartMergeEffects DEF local_vars, remote_vars, user_vars
  <2>2. run[d].cur = {}
    BY <1>0, <2>1 DEF BornRound
  <2>3. BornRows(d)'
    BY <1>0, <2>1 DEF BornRows
  <2>4. BornRound(d)'
    BY <1>0, <2>1, <2>2 DEF BornRound, Transfer, L, R
  <2> QED
    BY <1>0, <2>1, <2>3, <2>4, BornStep DEF BornInv
<1>4. CASE \/ PutOk(d)   \/ PutLost(d) \/ PutConflict(d) \/ SkipPut(d)
           \/ Compare(d) \/ Mark(d)    \/ Unpurge(d)     \/ Abort(d)
  <2>1. /\ pc'[d] \notin Transfer /\ born' = born
        /\ \A m \in Note : /\ row'[d][m].hash = row[d][m].hash
                           /\ row'[d][m].deleted = row[d][m].deleted
        /\ \/ purged' = purged
           \/ /\ pc[d] = "unpurge" /\ pc'[d] # "unpurge"
              /\ purged'[d] = run[d].psnap \ Cleaned(d)
        /\ pc'[d] = "unpurge" => run'[d].psnap = purged'[d]
        /\ \/ manifest' = manifest
           \/ pc[d] = "merge" /\ manifest' = Final(d)
    BY <1>4, EndEffects DEF user_vars
  <2>2. BornRows(d)'
    BY <1>0, <2>1 DEF BornRows, Present
  <2>3. BornRound(d)'
    BY <2>1 DEF BornRound, Transfer
  <2>4. \A n \in Note : Present(manifest'[n]) => n \in born'
    BY <1>0, <2>1 DEF BornInv, BornRound, Final, Transfer, Present, NoItem
  <2>5. purged'[d] \subseteq born'
    BY <1>0, <2>1 DEF BornRound
  <2> QED
    BY <1>0, <2>2, <2>3, <2>4, <2>5, BornStep
<1> QED
  BY <1>1, <1>2, <1>3, <1>4

LEMMA BornNext == TypeOK /\ EntryInv /\ BornInv /\ [Next]_vars => BornInv'
<1> SUFFICES ASSUME TypeOK, EntryInv, BornInv, [Next]_vars PROVE BornInv'
  OBVIOUS
<1>1. CASE UNCHANGED vars
  BY <1>1 DEF vars, BornInv, BornRows, BornRound, L, R
<1> QED
  BY <1>1, UserBorn, MergeBorn, EdgeBorn DEF Next, Engine, Fault

-----------------------------------------------------------------------------
(* PurgeConfirmed                                                          *)

\* Between its read and its write of the list, the round has it to itself.
PurgeInv ==
    \A d \in Device : pc[d] = "unpurge" => run[d].psnap = purged[d]

LEMMA MergeKept ==
    ASSUME TypeOK, NEW d \in Device, MergeNote(d)
    PROVE  /\ pc[d] \in {"merge", "fetch", "write"} /\ pc'[d] \in {"merge", "fetch", "write"}
           /\ Kept(d)
           /\ UNCHANGED <<purged, manifest, exists, etagOk, editor, erased>>
<1>1. PICK n \in Note :
        \/ \/ SkipPurged(d, n)       \/ RemoteOnly(d, n) \/ LocalOnly(d, n)
           \/ KeepEqual(d, n)        \/ FastForwardLocal(d, n)
           \/ FastForwardRemote(d, n)
        \/ ConflictLocalWins(d, n) \/ ConflictLocalGone(d, n) \/ ConflictRemoteWins(d, n)
        \/ FetchTombstone(d, n) \/ FetchMissing(d, n) \/ FetchBlob(d, n)
        \/ Write(d, n)
  BY DEF MergeNote
<1>2. CASE \/ SkipPurged(d, n)       \/ RemoteOnly(d, n) \/ LocalOnly(d, n)
           \/ KeepEqual(d, n)        \/ FastForwardLocal(d, n)
           \/ FastForwardRemote(d, n)
  BY <1>2, BranchEffects DEF Deals, Downloads, local_vars, user_vars
<1>3. CASE ConflictLocalWins(d, n) \/ ConflictLocalGone(d, n) \/ ConflictRemoteWins(d, n)
  BY <1>3, ConflictEffects DEF Deals, Downloads, CopyStored
<1>4. CASE FetchTombstone(d, n) \/ FetchMissing(d, n) \/ FetchBlob(d, n)
  BY <1>4, FetchEffects DEF Deals, Downloads, user_vars
<1>5. CASE Write(d, n)
  BY <1>5, WriteEffects DEF Deals, user_vars, remote_vars
<1> QED
  BY <1>1, <1>2, <1>3, <1>4, <1>5

LEMMA PurgeInit == Init => PurgeInv
  BY DEF Init, PurgeInv

LEMMA PurgeNext ==
    TypeOK /\ PurgeInv /\ "unpurge" \notin Windows /\ [Next]_vars => PurgeInv'
<1> SUFFICES ASSUME TypeOK, PurgeInv, "unpurge" \notin Windows, [Next]_vars
             PROVE  PurgeInv'
  OBVIOUS
<1>1. CASE UNCHANGED vars
  BY <1>1 DEF vars, PurgeInv
<1>2. ASSUME NEW d \in Device, Frame(d), pc'[d] = "unpurge" => run'[d].psnap = purged'[d]
      PROVE  PurgeInv'
  BY <1>2 DEF Frame, PurgeInv
<1>3. ASSUME NEW d \in Device, User(d) PROVE PurgeInv'
  BY <1>2, <1>3, UserFrame, UserEffects
<1>4. ASSUME NEW d \in Device, MergeNote(d) PROVE PurgeInv'
  BY <1>2, <1>4, MergeFrame, MergeKept
<1>5. ASSUME NEW d \in Device, Get(d) \/ FirstUpload(d) \/ StartMerge(d) PROVE PurgeInv'
  BY <1>2, <1>5, EdgeFrame, GetEffects, FirstUploadEffects, StartMergeEffects DEF Gets
<1>6. ASSUME NEW d \in Device,
             \/ PutOk(d)   \/ PutLost(d) \/ PutConflict(d) \/ SkipPut(d)
             \/ Compare(d) \/ Mark(d)    \/ Unpurge(d)     \/ Abort(d)
      PROVE  PurgeInv'
  BY <1>2, <1>6, EdgeFrame, EndEffects
<1> QED
  BY <1>1, <1>3, <1>4, <1>5, <1>6 DEF Next, Engine, Fault

LEMMA PurgeStep ==
    ASSUME TypeOK, PurgeInv, [Next]_vars, NEW d \in Device, NEW n \in purged[d] \ purged'[d]
    PROVE  ~Present(run[d].merged[n])
<1>1. PICK e \in Device : User(e) \/ Engine(e) \/ Fault(e)
  BY DEF Next, vars
<1>2. e = d
  BY <1>1, StepFrame DEF Frame
<1>3. ~User(d)
  BY UserRows
<1>4. ~MergeNote(d)
  BY MergeKept
<1>5. ~(Get(d) \/ FirstUpload(d) \/ StartMerge(d))
  BY GetEffects, FirstUploadEffects, StartMergeEffects DEF Gets, local_vars
<1>6. pc[d] = "unpurge" /\ purged'[d] = run[d].psnap \ Cleaned(d)
  BY <1>1, <1>2, <1>3, <1>4, <1>5, EndEffects DEF Engine, Fault
<1> QED
  BY <1>6 DEF PurgeInv, Cleaned

\* If no note is permanently deleted between removePurgedUuids' read of the
\* list and its write of it, what it forgets is what the manifest has lost,
\* whatever else the users do meanwhile.
THEOREM PurgeCorrect == "unpurge" \notin Windows => (Spec => PurgeConfirmed)
<1> SUFFICES ASSUME "unpurge" \notin Windows PROVE Spec => PurgeConfirmed
  OBVIOUS
<1>1. TypeOK /\ PurgeInv /\ [Next]_vars =>
        [\A d \in Device : \A n \in purged[d] \ purged'[d] :
           ~Present(run[d].merged[n])]_vars
  BY PurgeStep
<1>2. TypeOK /\ PurgeInv /\ [Next]_vars => PurgeInv'
  BY PurgeNext
<1> QED
  BY <1>1, <1>2, TypeInit, TypeNext, PurgeInit, PTL DEF Spec, PurgeConfirmed

-----------------------------------------------------------------------------
(* OverwriteVersioned                                                      *)

\* When a download is about to be written, the row it replaces is the one the
\* round has read, whose text it has put in the history.
Versioned(d, n) ==
    /\ run[d].existing = row[d][n]
    /\ (~R(d, n).deleted /\ Live(row[d][n])) => row[d][n].hash \in hist[d][n]

VersionInv ==
    \A d \in Device : /\ editor[d] = Closed
                      /\ pc[d] = "write" => \A n \in run[d].cur : Versioned(d, n)

LEMMA VersionInit == Init => VersionInv
  BY DEF Init, VersionInv

LEMMA VersionNext ==
    /\ TypeOK /\ EntryInv /\ VersionInv
    /\ "editor" \notin Windows /\ "write" \notin Windows
    /\ [Next]_vars
    => VersionInv'
<1> SUFFICES ASSUME TypeOK, EntryInv, VersionInv, [Next]_vars,
                    "editor" \notin Windows, "write" \notin Windows
             PROVE  VersionInv'
  OBVIOUS
<1>1. CASE UNCHANGED vars
  BY <1>1 DEF vars, VersionInv, Versioned, R
<1>2. ASSUME NEW d \in Device, Frame(d), editor'[d] = editor[d],
             pc'[d] = "write" => \A n \in run'[d].cur : Versioned(d, n)'
      PROVE  VersionInv'
  BY <1>2 DEF Frame, VersionInv, Versioned, R
<1>3. ASSUME NEW d \in Device, User(d) PROVE VersionInv'
  <2>1. pc[d] # "write" /\ pc' = pc
    BY <1>3, UserEffects
  <2>2. editor'[d] = editor[d]
    <3>1. \A n \in Note : ~Present(editor[d][n])
      BY DEF VersionInv, Closed, NoRow, Present
    <3> QED BY <1>3, <3>1, UserEffects
  <2> QED BY <1>2, <1>3, <2>1, <2>2, UserFrame
<1>4. ASSUME NEW d \in Device, MergeNote(d) PROVE VersionInv'
  <2>1. Frame(d) /\ editor' = editor
    BY <1>4, MergeFrame, MergeKept
  <2>2. PICK n \in Note :
          \/ \/ SkipPurged(d, n)       \/ RemoteOnly(d, n) \/ LocalOnly(d, n)
             \/ KeepEqual(d, n)        \/ FastForwardLocal(d, n)
             \/ FastForwardRemote(d, n)
          \/ ConflictLocalWins(d, n) \/ ConflictLocalGone(d, n) \/ ConflictRemoteWins(d, n)
          \/ FetchTombstone(d, n) \/ FetchMissing(d, n) \/ FetchBlob(d, n)
          \/ Write(d, n)
    BY <1>4 DEF MergeNote
  <2>3. CASE FetchTombstone(d, n) \/ FetchMissing(d, n) \/ FetchBlob(d, n)
    <3>1. \A m \in run[d].cur : m = n
      BY <2>3, FetchEffects DEF EntryInv, RoundEntries, FetchesPresent
    <3>2. CASE Deals(d, n, R(d, n), NoCopy)
      BY <1>2, <2>1, <3>2 DEF Deals
    <3>3. CASE /\ Downloads(d, run[d].cur, "write", row[d][n], NoCopy)
               /\ (~R(d, n).deleted /\ Live(row[d][n])) => row[d][n].hash \in hist'[d][n]
      <4>1. row' = row /\ R(d, n)' = R(d, n) /\ run'[d].cur = run[d].cur
            /\ run'[d].existing = row[d][n]
        BY <2>3, <3>3, FetchEffects DEF Downloads, Kept, R
      <4>2. Versioned(d, n)'
        BY <3>3, <4>1 DEF Versioned
      <4> QED BY <1>2, <2>1, <3>1, <4>1, <4>2
    <3> QED BY <2>3, <3>2, <3>3, FetchEffects
  <2>4. CASE ~(FetchTombstone(d, n) \/ FetchMissing(d, n) \/ FetchBlob(d, n))
    <3>1. pc'[d] # "write"
      BY <2>2, <2>4, BranchEffects, ConflictEffects, WriteEffects DEF Deals, Downloads
    <3> QED BY <1>2, <2>1, <3>1
  <2> QED BY <2>3, <2>4
<1>5. ASSUME NEW d \in Device,
             \/ Get(d)     \/ FirstUpload(d) \/ StartMerge(d)
             \/ PutOk(d)   \/ PutLost(d)     \/ PutConflict(d) \/ SkipPut(d)
             \/ Compare(d) \/ Mark(d)        \/ Unpurge(d)     \/ Abort(d)
      PROVE  VersionInv'
  <2>1. Frame(d)
    BY <1>5, EdgeFrame
  <2>2. pc'[d] # "write" /\ editor' = editor
    <3>1. CASE Get(d)
      BY <3>1, GetEffects DEF Gets, user_vars
    <3>2. CASE FirstUpload(d) \/ StartMerge(d)
      BY <3>2, FirstUploadEffects, StartMergeEffects DEF user_vars
    <3>3. CASE ~(Get(d) \/ FirstUpload(d) \/ StartMerge(d))
      BY <1>5, <3>3, EndEffects DEF user_vars, Transfer
    <3> QED BY <3>1, <3>2, <3>3
  <2> QED BY <1>2, <2>1, <2>2
<1> QED
  BY <1>1, <1>3, <1>4, <1>5 DEF Next, Engine, Fault

LEMMA VersionStep ==
    ASSUME TypeOK, BornInv, VersionInv, [Next]_vars, NEW d \in Device, NEW n \in Note,
           Live(row[d][n]), Present(row'[d][n]), row'[d][n].hash # row[d][n].hash
    PROVE  row[d][n].hash \in hist'[d][n]
<1>1. PICK e \in Device : User(e) \/ Engine(e) \/ Fault(e)
  BY DEF Next, vars
<1>2. e = d
  BY <1>1, StepFrame DEF Frame
<1>3. n \in born /\ editor[d][n] = NoRow
  BY DEF BornInv, BornRows, Live, Present, VersionInv, Closed
<1>4. CASE User(d)
  <2>1. PICK m \in Note :
          /\ \A k \in Note \ {m} : row'[d][k] = row[d][k]
          /\ Adds(d, m) \/ (\E orig : Saves(d, m, orig)) \/ Turns(d, m) \/ Erases(d, m)
    BY <1>4, UserEffects
  <2>2. m = n
    BY <2>1
  <2> QED BY <1>3, <2>1, <2>2 DEF Adds, Saves, Turns, Erases, Present, NoRow
<1>5. CASE MergeNote(d)
  <2>1. PICK m \in Note :
          \/ \/ SkipPurged(d, m)       \/ RemoteOnly(d, m) \/ LocalOnly(d, m)
             \/ KeepEqual(d, m)        \/ FastForwardLocal(d, m)
             \/ FastForwardRemote(d, m)
          \/ ConflictLocalWins(d, m) \/ ConflictLocalGone(d, m) \/ ConflictRemoteWins(d, m)
          \/ FetchTombstone(d, m) \/ FetchMissing(d, m) \/ FetchBlob(d, m)
          \/ Write(d, m)
    BY <1>5 DEF MergeNote
  <2>2. CASE Write(d, m)
    <3>1. /\ pc[d] = "write" /\ m \in run[d].cur /\ hist' = hist
          /\ \A k \in Note \ {m} : row'[d][k] = row[d][k]
          /\ \/ row'[d][m] = row[d][m]
             \/ row'[d][m] = Downloaded(R(d, m), run[d].existing)
      BY <2>2, WriteEffects
    <3>2. m = n /\ row'[d][n] = Downloaded(R(d, n), run[d].existing)
      BY <3>1
    <3>3. Versioned(d, n)
      BY <3>1, <3>2 DEF VersionInv
    <3>4. ~R(d, n).deleted
      <4>1. run[d].existing \in Row
        BY RunFields
      <4> QED BY <3>2, <3>3, <4>1 DEF Downloaded, Versioned, Row
    <3> QED BY <3>1, <3>3, <3>4 DEF Versioned
  <2>3. CASE ConflictLocalWins(d, m) \/ ConflictLocalGone(d, m) \/ ConflictRemoteWins(d, m)
    <3>1. PICK cp, h : CopyStored(d, h, cp)
      BY <2>3, ConflictEffects
    <3> QED BY <1>3, <3>1 DEF CopyStored
  <2> QED
    BY <2>1, <2>2, <2>3, BranchEffects, FetchEffects DEF local_vars
<1>6. CASE Get(d)
  <2>1. row'[d][n] = row[d][n] \/ row'[d][n] = NoRow
    BY <1>6, GetEffects DEF Gets
  <2> QED BY <2>1 DEF NoRow, Present
<1> QED
  BY <1>1, <1>2, <1>4, <1>5, <1>6, FirstUploadEffects, StartMergeEffects, EndEffects
     DEF Engine, Fault, local_vars

\* If no user call falls between the engine's read of the row it will replace
\* and its write of the downloaded one, and no editor stays open across a
\* sync, then text never leaves a row without a version of it in the history.
THEOREM VersionCorrect ==
    ("editor" \notin Windows /\ "write" \notin Windows) => (Spec => OverwriteVersioned)
<1> SUFFICES ASSUME "editor" \notin Windows, "write" \notin Windows
             PROVE  Spec => OverwriteVersioned
  OBVIOUS
<1>1. TypeOK /\ BornInv /\ VersionInv /\ [Next]_vars =>
        [\A d \in Device, n \in Note :
           (Live(row[d][n]) /\ Present(row'[d][n]) /\ row'[d][n].hash # row[d][n].hash)
             => row[d][n].hash \in hist'[d][n]]_vars
  BY VersionStep
<1>2. TypeOK /\ EntryInv /\ VersionInv /\ [Next]_vars => VersionInv'
  BY VersionNext
<1> QED
  BY <1>1, <1>2, TypeInit, TypeNext, EntriesInit, EntriesNext, BornInit, BornNext,
     VersionInit, PTL DEF Spec, OverwriteVersioned

-----------------------------------------------------------------------------
(* PurgedAbsent                                                            *)

\* No user call runs while a round is reading, merging or transferring.
Quiet == Windows \cap Transfer = {}

PurgedRound(d) ==
    pc[d] \in Transfer =>
      /\ \A n \in Note : Present(L(d, n)) => n \notin purged[d]
      /\ run[d].todo # {} => run[d].psnap = purged[d]
      /\ run[d].cur \cap purged[d] = {}

PurgedInv == PurgedAbsent /\ \A d \in Device : PurgedRound(d)

LEMMA PurgedInit == Init => PurgedInv
  BY DEF Init, PurgedInv, PurgedAbsent, PurgedRound, Transfer

LEMMA PurgedStep ==
    ASSUME TypeOK, PurgedInv, NEW d \in Device, Frame(d), PurgedRound(d)',
           \A n \in purged'[d] : ~Present(row'[d][n])
    PROVE  PurgedInv'
<1>1. ASSUME NEW e \in Device \ {d}
      PROVE  PurgedRound(e)' /\ \A n \in purged'[e] : ~Present(row'[e][n])
  BY DEF Frame, PurgedInv, PurgedAbsent, PurgedRound, L
<1> QED
  BY <1>1 DEF PurgedInv, PurgedAbsent

LEMMA UserPurged ==
    ASSUME TypeOK, BornInv, PurgedInv, Quiet, NEW d \in Device, User(d) PROVE PurgedInv'
<1>0. \A c \in Content : c # 0
  BY BoundsAssumption, SMT DEF Content
<1>1. PICK n \in Note :
        /\ \A k \in Note \ {n} : row'[d][k] = row[d][k]
        /\ Adds(d, n) \/ (\E orig : Saves(d, n, orig)) \/ Turns(d, n) \/ Erases(d, n)
  BY UserEffects
<1>2. pc'[d] \notin Transfer
  BY UserEffects DEF Quiet, Transfer
<1>3. purged[d] \subseteq born /\ purged[d] \subseteq Note /\ purged'[d] \subseteq purged[d] \cup {n}
  BY <1>1 DEF BornInv, Adds, Saves, Turns, Erases, TypeOK
<1>4. n \in purged'[d] => ~Present(row'[d][n])
  <2>1. CASE Adds(d, n)
    BY <1>3, <2>1 DEF Adds
  <2>2. ASSUME NEW orig, Saves(d, n, orig) PROVE n \in purged'[d] => ~Present(row'[d][n])
    BY <2>2 DEF Saves, Saved, PurgedInv, PurgedAbsent, NoRow, Present
  <2>3. CASE Turns(d, n)
    BY <2>3 DEF Turns, PurgedInv, PurgedAbsent, Present
  <2>4. CASE Erases(d, n)
    BY <2>4 DEF Erases, NoRow, Present
  <2> QED BY <1>1, <2>1, <2>2, <2>3, <2>4
<1>5. \A k \in purged'[d] : ~Present(row'[d][k])
  BY <1>1, <1>3, <1>4 DEF PurgedInv, PurgedAbsent
<1> QED
  BY <1>2, <1>5, PurgedStep, UserFrame DEF PurgedRound

LEMMA MergePurged ==
    ASSUME TypeOK, BornInv, PurgedInv, NEW d \in Device, MergeNote(d) PROVE PurgedInv'
<1>1. PICK n \in Note :
        \/ \/ SkipPurged(d, n)       \/ RemoteOnly(d, n) \/ LocalOnly(d, n)
           \/ KeepEqual(d, n)        \/ FastForwardLocal(d, n)
           \/ FastForwardRemote(d, n)
        \/ ConflictLocalWins(d, n) \/ ConflictLocalGone(d, n) \/ ConflictRemoteWins(d, n)
        \/ FetchTombstone(d, n) \/ FetchMissing(d, n) \/ FetchBlob(d, n)
        \/ Write(d, n)
  BY DEF MergeNote
<1>2. Frame(d) /\ pc[d] \in Transfer /\ Kept(d) /\ purged' = purged
  BY MergeFrame, MergeKept DEF Transfer
<1>3. PurgedRound(d) /\ (\A m \in purged[d] : ~Present(row[d][m])) /\ purged[d] \subseteq born
  BY DEF PurgedInv, PurgedAbsent, BornInv
<1>4. ASSUME run'[d].todo \subseteq run[d].todo,
             run'[d].cur \cap purged[d] = {},
             \A m \in purged[d] : ~Present(row'[d][m])
      PROVE  PurgedInv'
  <2>1. PurgedRound(d)'
    BY <1>2, <1>3, <1>4 DEF PurgedRound, Kept, L
  <2> QED BY <1>2, <1>4, <2>1, PurgedStep
<1>5. CASE \/ SkipPurged(d, n)       \/ RemoteOnly(d, n) \/ LocalOnly(d, n)
           \/ KeepEqual(d, n)        \/ FastForwardLocal(d, n)
           \/ FastForwardRemote(d, n)
  <2>1. /\ n \in run[d].todo /\ row' = row
        /\ \/ /\ Downloads(d, {n}, "fetch", run[d].existing, NoCopy)
              /\ (Present(L(d, n)) \/ n \notin run[d].psnap)
           \/ \E x : Deals(d, n, x, NoCopy)
    BY <1>5, BranchEffects DEF local_vars
  <2>2. run'[d].cur \cap purged[d] = {}
    BY <1>2, <1>3, <2>1 DEF Deals, Downloads, PurgedRound
  <2> QED BY <1>3, <1>4, <2>1, <2>2 DEF Deals, Downloads
<1>6. CASE ConflictLocalWins(d, n) \/ ConflictLocalGone(d, n) \/ ConflictRemoteWins(d, n)
  <2>1. PICK cp, h : /\ CopyStored(d, h, cp)
                     /\ \/ \E x : Deals(d, n, x, cp)
                        \/ Downloads(d, {n}, "fetch", run[d].existing, cp)
    BY <1>6, ConflictEffects
  <2>2. Present(L(d, n))
    BY <1>6, ConflictEffects
  <2>3. run'[d].cur \cap purged[d] = {} /\ run'[d].todo \subseteq run[d].todo
    BY <1>2, <1>3, <2>1, <2>2 DEF Deals, Downloads, PurgedRound
  <2>4. \A m \in purged[d] : ~Present(row'[d][m])
    BY <1>3, <2>1 DEF CopyStored, TypeOK
  <2> QED BY <1>4, <2>3, <2>4
<1>7. CASE FetchTombstone(d, n) \/ FetchMissing(d, n) \/ FetchBlob(d, n)
  <2>1. /\ row' = row
        /\ \/ Deals(d, n, R(d, n), NoCopy)
           \/ Downloads(d, run[d].cur, "write", row[d][n], NoCopy)
    BY <1>7, FetchEffects
  <2> QED BY <1>2, <1>3, <1>4, <2>1 DEF Deals, Downloads, PurgedRound
<1>8. CASE Write(d, n)
  <2>1. /\ n \in run[d].cur /\ Deals(d, n, R(d, n), NoCopy)
        /\ \A m \in Note \ {n} : row'[d][m] = row[d][m]
    BY <1>8, WriteEffects
  <2>2. n \notin purged[d] /\ purged[d] \subseteq Note
    BY <1>2, <1>3, <2>1 DEF PurgedRound, TypeOK
  <2> QED BY <1>3, <1>4, <2>1, <2>2 DEF Deals
<1> QED
  BY <1>1, <1>5, <1>6, <1>7, <1>8

LEMMA EdgePurged ==
    ASSUME TypeOK, BornInv, PurgedInv, NEW d \in Device,
           \/ Get(d)     \/ FirstUpload(d) \/ StartMerge(d)
           \/ PutOk(d)   \/ PutLost(d)     \/ PutConflict(d) \/ SkipPut(d)
           \/ Compare(d) \/ Mark(d)        \/ Unpurge(d)     \/ Abort(d)
    PROVE  PurgedInv'
<1>0. Frame(d) /\ PurgedRound(d) /\ (\A m \in purged[d] : ~Present(row[d][m]))
      /\ purged[d] \subseteq Note
  BY EdgeFrame DEF PurgedInv, PurgedAbsent, TypeOK
<1>1. CASE Get(d)
  <2>0. PICK gone \in SUBSET {n \in Note : row[d][n].deleted} : Gets(d, gone)
    BY <1>1, GetEffects
  <2>1. /\ purged'[d] = purged[d] \cup gone
        /\ \A m \in Note : row'[d][m] = IF m \in gone THEN NoRow ELSE row[d][m]
        /\ \A m \in Note : run'[d].local[m] = AsItem(row'[d][m])
        /\ run'[d].todo = {} /\ run'[d].cur = {}
    BY <2>0 DEF Gets
  <2>2. \A m \in purged'[d] : ~Present(row'[d][m])
    BY <1>0, <2>1 DEF NoRow, Present
  <2>3. ASSUME NEW m \in Note, Present(L(d, m)') PROVE m \notin purged'[d]
    <3>1. L(d, m)' = AsItem(row'[d][m])
      BY <2>1 DEF L
    <3> QED BY <2>2, <2>3, <3>1 DEF AsItem, Present
  <2>4. PurgedRound(d)'
    BY <2>1, <2>3 DEF PurgedRound
  <2> QED BY <1>0, <2>2, <2>4, PurgedStep
<1>2. CASE FirstUpload(d)
  <2>1. /\ pc[d] = "plan" /\ Kept(d) /\ run'[d].todo = run[d].todo /\ run'[d].cur = run[d].cur
        /\ UNCHANGED <<row, purged>>
    BY <1>2, FirstUploadEffects DEF local_vars
  <2>2. PurgedRound(d)'
    BY <1>0, <2>1 DEF PurgedRound, Kept, L, Transfer
  <2> QED BY <1>0, <2>1, <2>2, PurgedStep
<1>3. CASE StartMerge(d)
  <2>1. /\ pc[d] = "plan" /\ run'[d].local = run[d].local /\ run'[d].psnap = purged[d]
        /\ run'[d].cur = run[d].cur /\ UNCHANGED <<row, purged>>
    BY <1>3, StartMergeEffects DEF local_vars
  <2>2. PurgedRound(d)'
    BY <1>0, <2>1 DEF PurgedRound, L, Transfer
  <2> QED BY <1>0, <2>1, <2>2, PurgedStep
<1>4. CASE \/ PutOk(d)   \/ PutLost(d) \/ PutConflict(d) \/ SkipPut(d)
           \/ Compare(d) \/ Mark(d)    \/ Unpurge(d)     \/ Abort(d)
  <2>1. /\ pc'[d] \notin Transfer
        /\ \A m \in Note : row'[d][m].hash = row[d][m].hash
        /\ \/ purged' = purged
           \/ pc[d] = "unpurge" /\ purged'[d] = run[d].psnap \ Cleaned(d)
    BY <1>4, EndEffects
  <2>2. purged'[d] \subseteq purged[d]
    BY <2>1 DEF BornInv, BornRound
  <2>3. PurgedRound(d)'
    BY <2>1 DEF PurgedRound
  <2> QED BY <1>0, <2>1, <2>2, <2>3, PurgedStep DEF Present
<1> QED
  BY <1>1, <1>2, <1>3, <1>4

LEMMA PurgedNext == TypeOK /\ BornInv /\ PurgedInv /\ Quiet /\ [Next]_vars => PurgedInv'
<1> SUFFICES ASSUME TypeOK, BornInv, PurgedInv, Quiet, [Next]_vars PROVE PurgedInv'
  OBVIOUS
<1>1. CASE UNCHANGED vars
  BY <1>1 DEF vars, PurgedInv, PurgedAbsent, PurgedRound, L
<1> QED
  BY <1>1, UserPurged, MergePurged, EdgePurged DEF Next, Engine, Fault

\* As long as the users' calls stay out of the engine's merge, a permanently
\* deleted note stays away while it is remembered: neither the download of
\* what other devices publish, nor a conflict copy, nor a round that ends in
\* the middle, nor the expiry of old tombstones puts a row in its place.
THEOREM PurgedCorrect == Quiet => (Spec => []PurgedAbsent)
<1> SUFFICES ASSUME Quiet PROVE Spec => []PurgedAbsent
  OBVIOUS
<1>1. TypeOK /\ BornInv /\ PurgedInv /\ [Next]_vars => PurgedInv'
  BY PurgedNext
<1>2. PurgedInv => PurgedAbsent
  BY DEF PurgedInv
<1> QED
  BY <1>1, <1>2, TypeInit, TypeNext, EntriesInit, EntriesNext, BornInit, BornNext,
     PurgedInit, PTL DEF Spec

-----------------------------------------------------------------------------
(* GhostFree                                                               *)

\* The items a round has read or merged have their blobs, and the rows it has
\* still to deal with are those it has snapshotted.
GhostRound(d) ==
    pc[d] \in Transfer =>
      \A n \in Note :
        /\ Live(R(d, n)) => R(d, n).hash \in blobs
        /\ Live(run[d].merged[n]) => run[d].merged[n].hash \in blobs
        /\ (pc[d] = "plan" \/ n \in run[d].todo) => AsItem(row[d][n]) = L(d, n)

GhostInv == GhostFree /\ \A d \in Device : GhostRound(d)

LEMMA GhostInit == Init => GhostInv
<1> SUFFICES ASSUME Init PROVE GhostInv
  OBVIOUS
<1>1. \A n \in Note : Live(AsItem(SeedRow(n))) => AsItem(SeedRow(n)).hash \in blobs
  BY DEF Init, SeedRow, NoRow, AsItem, Live
<1> QED
  BY <1>1 DEF Init, GhostInv, GhostFree, GhostRound, Transfer

LEMMA GhostStep ==
    ASSUME TypeOK, GhostInv, NEW d \in Device, Frame(d), GhostFree', GhostRound(d)'
    PROVE  GhostInv'
<1>1. ASSUME NEW e \in Device \ {d} PROVE GhostRound(e)'
  BY DEF Frame, GhostInv, GhostRound, L, R
<1> QED
  BY <1>1 DEF GhostInv

\* What a step of the merge has to show: that what n becomes has its blob.
LEMMA DealsGhost ==
    ASSUME TypeOK, GhostInv, NEW d \in Device, pc[d] \in Transfer, NEW n \in Note, NEW x, NEW cp,
           blobs \subseteq blobs', cp.ok => cp.hash \in blobs',
           \/ Deals(d, n, x, cp) /\ (Live(x) => x.hash \in blobs')
           \/ \E cur, e : \E s \in {"fetch", "write"} : Downloads(d, cur, s, e, cp),
           \A m \in run'[d].todo : row'[d][m] = row[d][m]
    PROVE  GhostRound(d)'
<1>1. GhostRound(d) /\ Kept(d) /\ pc'[d] # "plan" /\ run'[d].todo \subseteq run[d].todo
  BY DEF GhostInv, Deals, Downloads
<1>2. \A m \in Note : L(d, m)' = L(d, m) /\ R(d, m)' = R(d, m)
  BY <1>1 DEF Kept, L, R
<1>3. ASSUME NEW m \in Note, Live(run'[d].merged[m]) PROVE run'[d].merged[m].hash \in blobs'
  <2>1. CASE run'[d].merged[m] = x /\ (Live(x) => x.hash \in blobs')
    BY <1>3, <2>1
  <2>2. CASE run'[d].merged[m] = WithCopyOf(d, cp, m)
    BY <1>1, <1>3, <2>2 DEF WithCopyOf, CopyItem, AsItem, Unsynced, GhostRound
  <2> QED BY <2>1, <2>2 DEF Deals, Downloads
<1> QED
  BY <1>1, <1>2, <1>3 DEF GhostRound

LEMMA MergeGhost ==
    ASSUME TypeOK, BornInv, GhostInv, NEW d \in Device, MergeNote(d) PROVE GhostInv'
<1>1. PICK n \in Note :
        \/ \/ SkipPurged(d, n)       \/ RemoteOnly(d, n) \/ LocalOnly(d, n)
           \/ KeepEqual(d, n)        \/ FastForwardLocal(d, n)
           \/ FastForwardRemote(d, n)
        \/ ConflictLocalWins(d, n) \/ ConflictLocalGone(d, n) \/ ConflictRemoteWins(d, n)
        \/ FetchTombstone(d, n) \/ FetchMissing(d, n) \/ FetchBlob(d, n)
        \/ Write(d, n)
  BY DEF MergeNote
<1>2. Frame(d) /\ pc[d] \in Transfer /\ manifest' = manifest /\ blobs \subseteq blobs'
  BY MergeFrame, MergeKept DEF Transfer, Frame
<1>3. ASSUME GhostRound(d)' PROVE GhostInv'
  <2>1. GhostFree'
    BY <1>2 DEF GhostInv, GhostFree
  <2> QED BY <1>2, <1>3, <2>1, GhostStep
<1>4. /\ GhostRound(d) /\ run[d].todo \subseteq born /\ run[d].cur \subseteq run[d].todo
      /\ run[d].todo \subseteq Note
  BY <1>2, RunFields DEF GhostInv, BornInv, BornRound, Run
<1>5. /\ ~NoCopy.ok /\ ~Live(NoItem)
      /\ Live(R(d, n)) => R(d, n).hash \in blobs'
  BY <1>2, <1>4 DEF NoCopy, NoItem, Live, GhostRound
<1>6. n \in run[d].todo => \/ ~Sent(d, n)
                           \/ Live(L(d, n)) => L(d, n).hash \in blobs'
  BY <1>2, <1>4 DEF GhostRound, Sent, AsItem, Live
<1>7. CASE \/ SkipPurged(d, n)       \/ RemoteOnly(d, n) \/ LocalOnly(d, n)
           \/ KeepEqual(d, n)        \/ FastForwardLocal(d, n)
           \/ FastForwardRemote(d, n)
  <2>1. n \in run[d].todo /\ row' = row
    BY <1>7, BranchEffects DEF local_vars
  <2>2. \/ Downloads(d, {n}, "fetch", run[d].existing, NoCopy)
        \/ \E x : Deals(d, n, x, NoCopy) /\ (Live(x) => x.hash \in blobs')
    <3>1. \/ Downloads(d, {n}, "fetch", run[d].existing, NoCopy)
          \/ Deals(d, n, NoItem, NoCopy)
          \/ Deals(d, n, R(d, n), NoCopy)
          \/ Deals(d, n, L(d, n), NoCopy) /\ (ItemsEqual(L(d, n), R(d, n)) \/ Sent(d, n))
      BY <1>7, BranchEffects
    <3>2. ItemsEqual(L(d, n), R(d, n)) => (Live(L(d, n)) => L(d, n).hash \in blobs')
      BY <1>5 DEF ItemsEqual, Live
    <3> QED BY <1>5, <1>6, <2>1, <3>1, <3>2
  <2>3. GhostRound(d)'
    BY <1>2, <1>5, <2>1, <2>2, DealsGhost
  <2> QED BY <1>3, <2>3
<1>8. CASE ConflictLocalWins(d, n) \/ ConflictLocalGone(d, n) \/ ConflictRemoteWins(d, n)
  <2>1. n \in run[d].todo
    BY <1>8, ConflictEffects
  <2>2. PICK cp, h :
          /\ CopyStored(d, h, cp)
          /\ cp.ok => cp.hash \in blobs'
          /\ \/ Downloads(d, {n}, "fetch", run[d].existing, cp)
             \/ Deals(d, n, NoItem, cp)
             \/ Deals(d, n, R(d, n), cp)
             \/ Deals(d, n, L(d, n), cp) /\ Sent(d, n)
    BY <1>8, ConflictEffects
  <2>3. \/ Downloads(d, {n}, "fetch", run[d].existing, cp)
        \/ \E x : Deals(d, n, x, cp) /\ (Live(x) => x.hash \in blobs')
    BY <1>5, <1>6, <2>1, <2>2
  <2>4. run'[d].todo \subseteq run[d].todo
    BY <2>3 DEF Deals, Downloads
  <2>5. \A m \in run'[d].todo : row'[d][m] = row[d][m]
    BY <1>4, <2>2, <2>4 DEF CopyStored
  <2>6. GhostRound(d)'
    BY <1>2, <2>2, <2>3, <2>5, DealsGhost
  <2> QED BY <1>3, <2>6
<1>9. CASE FetchTombstone(d, n) \/ FetchMissing(d, n) \/ FetchBlob(d, n)
  <2>1. /\ row' = row
        /\ \/ Deals(d, n, R(d, n), NoCopy)
           \/ Downloads(d, run[d].cur, "write", row[d][n], NoCopy)
    BY <1>9, FetchEffects
  <2>2. GhostRound(d)'
    BY <1>2, <1>5, <2>1, DealsGhost
  <2> QED BY <1>3, <2>2
<1>10. CASE Write(d, n)
  <2>1. /\ Deals(d, n, R(d, n), NoCopy)
        /\ \A m \in Note \ {n} : row'[d][m] = row[d][m]
    BY <1>10, WriteEffects
  <2>2. \A m \in run'[d].todo : row'[d][m] = row[d][m]
    BY <1>4, <2>1 DEF Deals
  <2>3. GhostRound(d)'
    BY <1>2, <1>5, <2>1, <2>2, DealsGhost
  <2> QED BY <1>3, <2>3
<1> QED
  BY <1>1, <1>7, <1>8, <1>9, <1>10

LEMMA EdgeGhost ==
    ASSUME TypeOK, GhostInv, NEW d \in Device,
           \/ Get(d)     \/ FirstUpload(d) \/ StartMerge(d)
           \/ PutOk(d)   \/ PutLost(d)     \/ PutConflict(d) \/ SkipPut(d)
           \/ Compare(d) \/ Mark(d)        \/ Unpurge(d)     \/ Abort(d)
    PROVE  GhostInv'
<1>0. Frame(d) /\ GhostRound(d) /\ GhostFree /\ blobs \subseteq blobs'
  BY EdgeFrame DEF GhostInv, Frame
<1>1. CASE Get(d)
  <2>1. /\ pc'[d] = "plan" /\ UNCHANGED <<manifest, blobs>>
        /\ run'[d].snap = manifest /\ run'[d].todo = {} /\ run'[d].merged = NoItems
        /\ \A m \in Note : run'[d].local[m] = AsItem(row'[d][m])
    BY <1>1, GetEffects DEF Gets, remote_vars
  <2>2. \A n \in Note : ~Live(run'[d].merged[n])
    BY <2>1 DEF NoItems, NoItem, Live
  <2>3. \A n \in Note : R(d, n)' = manifest[n] /\ L(d, n)' = AsItem(row'[d][n])
    BY <2>1 DEF L, R
  <2>4. GhostRound(d)' /\ GhostFree'
    BY <1>0, <2>1, <2>2, <2>3 DEF GhostRound, GhostFree
  <2> QED BY <1>0, <2>4, GhostStep
<1>2. CASE FirstUpload(d)
  <2>1. /\ pc[d] = "plan" /\ pc'[d] = "merge" /\ Kept(d) /\ run'[d].todo = run[d].todo
        /\ UNCHANGED <<row, manifest>>
        /\ \A m \in Note : \/ run'[d].merged[m] = NoItem
                           \/ run'[d].merged[m] = L(d, m) /\ Sent(d, m)
    BY <1>2, FirstUploadEffects DEF local_vars
  <2>2. ASSUME NEW m \in Note, Live(run'[d].merged[m]) PROVE run'[d].merged[m].hash \in blobs'
    BY <1>0, <2>1, <2>2 DEF GhostRound, Sent, AsItem, Live, NoItem, Transfer
  <2>3. \A m \in Note : L(d, m)' = L(d, m) /\ R(d, m)' = R(d, m)
    BY <2>1 DEF Kept, L, R
  <2>4. GhostRound(d)' /\ GhostFree'
    BY <1>0, <2>1, <2>2, <2>3 DEF GhostRound, GhostFree, Transfer
  <2> QED BY <1>0, <2>4, GhostStep
<1>3. CASE StartMerge(d)
  <2>1. /\ pc[d] = "plan" /\ run'[d].snap = run[d].snap /\ run'[d].local = run[d].local
        /\ run'[d].merged = run[d].merged /\ UNCHANGED <<row, manifest, blobs>>
    BY <1>3, StartMergeEffects DEF local_vars, remote_vars
  <2>2. \A m \in Note : L(d, m)' = L(d, m) /\ R(d, m)' = R(d, m)
    BY <2>1 DEF L, R
  <2>3. GhostRound(d)' /\ GhostFree'
    BY <1>0, <2>1, <2>2 DEF GhostRound, GhostFree, Transfer
  <2> QED BY <1>0, <2>3, GhostStep
<1>4. CASE \/ PutOk(d)   \/ PutLost(d) \/ PutConflict(d) \/ SkipPut(d)
           \/ Compare(d) \/ Mark(d)    \/ Unpurge(d)     \/ Abort(d)
  <2>1. /\ pc'[d] \notin Transfer /\ blobs' = blobs
        /\ \/ manifest' = manifest
           \/ pc[d] = "merge" /\ manifest' = Final(d)
    BY <1>4, EndEffects
  <2>2. GhostFree'
    BY <1>0, <2>1 DEF GhostFree, GhostRound, Final, NoItem, Live, Transfer
  <2> QED BY <1>0, <2>1, <2>2, GhostStep DEF GhostRound
<1> QED
  BY <1>1, <1>2, <1>3, <1>4

LEMMA GhostNext == TypeOK /\ BornInv /\ GhostInv /\ Quiet /\ [Next]_vars => GhostInv'
<1> SUFFICES ASSUME TypeOK, BornInv, GhostInv, Quiet, [Next]_vars PROVE GhostInv'
  OBVIOUS
<1>1. CASE UNCHANGED vars
  BY <1>1 DEF vars, GhostInv, GhostFree, GhostRound, L, R
<1>2. ASSUME NEW d \in Device, User(d) PROVE GhostInv'
  <2>1. pc'[d] \notin Transfer /\ UNCHANGED <<manifest, blobs>>
    BY <1>2, UserEffects DEF Quiet, Transfer
  <2> QED
    BY <1>2, <2>1, UserFrame, GhostStep DEF GhostRound, GhostInv, GhostFree
<1> QED
  BY <1>1, <1>2, MergeGhost, EdgeGhost DEF Next, Engine, Fault

\* As long as the users' calls stay out of the engine's merge, the manifest
\* never refers to a blob the vault does not have: an entry is published only
\* with a text whose upload has succeeded, whatever uploads fail, rounds end
\* in the middle, copies are made and devices race.
THEOREM GhostCorrect == Quiet => (Spec => []GhostFree)
<1> SUFFICES ASSUME Quiet PROVE Spec => []GhostFree
  OBVIOUS
<1>1. TypeOK /\ BornInv /\ GhostInv /\ [Next]_vars => GhostInv'
  BY GhostNext
<1>2. GhostInv => GhostFree
  BY DEF GhostInv
<1> QED
  BY <1>1, <1>2, TypeInit, TypeNext, EntriesInit, EntriesNext, BornInit, BornNext,
     GhostInit, PTL DEF Spec


-----------------------------------------------------------------------------
(* A text of the vault that a PUT replaces.                                *)

\* The hash h names no text, or one of u.
Written(u, h) == h = 0 \/ h \in u

\* h and what it was written on top of, by s; Incorporates is Over(seen, _).
Over(s, h) == s[h] \cup {h}

\* The row r was written on top of its base.
OnBase(s, r) == r.base # 0 => (Present(r) /\ r.base \in Over(s, r.hash))

\* One of the notes in done holds the text h, or has been erased.
Holds(rows, gone, done, s, h) ==
    \E m \in done : \/ Present(rows[m]) /\ h \in Over(s, rows[m].hash)
                    \/ m \in gone

Done(d) == Note \ run[d].todo

\* What a hash in the round names has been written, so that what it was
\* written on top of does not change any more.
KnownRound(d) ==
    /\ pc[d] \in Transfer =>
         \A n \in Note : /\ Written(used, L(d, n).hash) /\ Written(used, R(d, n).hash)
                         /\ Written(used, run[d].merged[n].hash)
    /\ pc[d] = "write" => /\ Written(used, run[d].existing.hash)
                          /\ OnBase(seen, run[d].existing)

\* What the snapshot has of a row still to be dealt with was written on the
\* row's base too, and what the round read of the vault can be copied.
BaseRound(d) ==
    pc[d] \in Transfer =>
      \A n \in Note :
        /\ ((pc[d] = "plan" \/ n \in run[d].todo) /\ row[d][n].base # 0) =>
             (Present(L(d, n)) /\ row[d][n].base \in Over(seen, L(d, n).hash))
        /\ Live(R(d, n)) => R(d, n).hash \in blobs

\* Where the merged manifest has another text than the vault, it was written
\* on top of the vault's, or the device holds that one elsewhere.
Replaces(d, n) ==
    /\ n \notin run[d].todo
    /\ Live(R(d, n)) /\ Live(run[d].merged[n]) /\ R(d, n).hash # run[d].merged[n].hash

KeptRound(d) ==
    (pc[d] \in {"merge", "fetch", "write"} /\ ~run[d].fresh) =>
      \A n \in Note : Replaces(d, n) =>
        \/ R(d, n).hash \in Over(seen, run[d].merged[n].hash)
        \/ Holds(row[d], erased[d], Done(d), seen, R(d, n).hash)

KeptRows(d) == \A n \in Note : Written(used, row[d][n].hash) /\ OnBase(seen, row[d][n])

KeptInv ==
    /\ editor = [d \in Device |-> Closed]
    /\ \A n \in Note : Written(used, manifest[n].hash)
    /\ \A d \in Device : KeptRows(d) /\ KnownRound(d) /\ BaseRound(d) /\ KeptRound(d)

LEMMA KeptInit == Init => KeptInv
<1> SUFFICES ASSUME Init PROVE KeptInv
  OBVIOUS
<1>1. \A n \in Note : /\ Written(used, SeedRow(n).hash) /\ OnBase(seen, SeedRow(n))
                      /\ Written(used, AsItem(SeedRow(n)).hash)
  BY DEF Init, SeedRow, NoRow, AsItem, Written, OnBase, Present, Over
<1> QED
  BY <1>1 DEF Init, KeptInv, KeptRows, KnownRound, BaseRound, KeptRound, Transfer

\* What is known of a text stays true of it.
LEMMA KnownStays ==
    ASSUME NEW d \in Device, Frame(d)
    PROVE  /\ \A h : Written(used, h) => Written(used', h)
           /\ \A h : (Written(used, h) /\ h # 0) => Over(seen', h) = Over(seen, h)
           /\ \A r : (Written(used, r.hash) /\ OnBase(seen, r)) => OnBase(seen', r)
<1>1. used \subseteq used' /\ \A c \in used : seen'[c] = seen[c]
  BY DEF Frame
<1>2. \A h : Written(used, h) => Written(used', h)
  BY <1>1 DEF Written
<1>3. \A h : (Written(used, h) /\ h # 0) => Over(seen', h) = Over(seen, h)
  BY <1>1 DEF Written, Over
<1> QED
  BY <1>2, <1>3 DEF OnBase, Present

\* A device keeps holding what it held, as long as its rows keep their texts
\* or have new ones written on top.
LEMMA HoldsStays ==
    ASSUME NEW d \in Device, Frame(d), NEW e \in Device, KeptRows(e),
           NEW done, NEW done2, done \subseteq Note, done \subseteq done2,
           erased[e] \subseteq erased'[e],
           \A m \in done : Present(row[e][m]) =>
             \/ m \in erased'[e]
             \/ row'[e][m] = row[e][m]
             \/ /\ Present(row'[e][m])
                /\ Over(seen, row[e][m].hash) \subseteq Over(seen', row'[e][m].hash)
    PROVE  \A h : Holds(row[e], erased[e], done, seen, h) =>
                    Holds(row'[e], erased'[e], done2, seen', h)
<1> SUFFICES ASSUME NEW h, Holds(row[e], erased[e], done, seen, h)
             PROVE  Holds(row'[e], erased'[e], done2, seen', h)
  OBVIOUS
<1>1. PICK m \in done : \/ Present(row[e][m]) /\ h \in Over(seen, row[e][m].hash)
                        \/ m \in erased[e]
  BY DEF Holds
<1>2. CASE m \in erased'[e]
  BY <1>1, <1>2 DEF Holds
<1>3. CASE Present(row[e][m]) /\ h \in Over(seen, row[e][m].hash) /\ row'[e][m] = row[e][m]
  <2>1. Written(used, row[e][m].hash) /\ row[e][m].hash # 0
    BY <1>1, <1>3 DEF KeptRows, Present
  <2>2. Over(seen', row[e][m].hash) = Over(seen, row[e][m].hash)
    BY <2>1, KnownStays
  <2> QED BY <1>1, <1>3, <2>2 DEF Holds
<1>4. CASE /\ Present(row'[e][m])
           /\ h \in Over(seen', row'[e][m].hash)
  BY <1>1, <1>4 DEF Holds
<1> QED
  BY <1>1, <1>2, <1>3, <1>4

LEMMA KeptStep ==
    ASSUME TypeOK, KeptInv, NEW d \in Device, Frame(d), editor' = editor,
           \A n \in Note : Written(used', manifest'[n].hash),
           KeptRows(d)', KnownRound(d)', BaseRound(d)', KeptRound(d)'
    PROVE  KeptInv'
<1>1. ASSUME NEW e \in Device \ {d}
      PROVE  KeptRows(e)' /\ KnownRound(e)' /\ BaseRound(e)' /\ KeptRound(e)'
  <2>1. KeptRows(e) /\ KnownRound(e) /\ BaseRound(e) /\ KeptRound(e)
    BY DEF KeptInv
  <2>2. /\ row'[e] = row[e] /\ erased'[e] = erased[e]
        /\ pc'[e] = pc[e] /\ run'[e] = run[e] /\ blobs \subseteq blobs'
    BY DEF Frame
  <2>3. Done(e) \subseteq Note /\ Done(e)' = Done(e)
    BY <2>2 DEF Done
  <2>4. \A h : Holds(row[e], erased[e], Done(e), seen, h) =>
                 Holds(row'[e], erased'[e], Done(e)', seen', h)
    BY <2>1, <2>2, <2>3, HoldsStays
  <2>5. KnownRound(e)'
    BY <2>1, <2>2, KnownStays DEF KnownRound, L, R
  <2>6. KeptRows(e)'
    BY <2>1, <2>2, KnownStays DEF KeptRows
  <2>7. BaseRound(e)'
    <3>1. pc[e] \in Transfer =>
            \A n \in Note : Present(L(e, n)) => Over(seen', L(e, n).hash) = Over(seen, L(e, n).hash)
      BY <2>1, KnownStays DEF KnownRound, Present
    <3> QED BY <2>1, <2>2, <3>1 DEF BaseRound, L, R, Live, Present
  <2>8. KeptRound(e)'
    <3>1. pc[e] \in Transfer => \A n \in Note : Live(run[e].merged[n]) =>
            Over(seen', run[e].merged[n].hash) = Over(seen, run[e].merged[n].hash)
      BY <2>1, KnownStays DEF KnownRound, Live
    <3> QED BY <2>1, <2>2, <2>4, <3>1 DEF KeptRound, Replaces, L, R, Live, Transfer
  <2> QED BY <2>5, <2>6, <2>7, <2>8
<1> QED
  BY <1>1 DEF KeptInv


LEMMA UserKept ==
    ASSUME TypeOK, BornInv, KeptInv, "editor" \notin Windows, NEW d \in Device, User(d)
    PROVE  KeptInv'
<1>0. \A c \in Content : c # 0
  BY BoundsAssumption, SMT DEF Content
<1>1. /\ KeptRows(d) /\ KnownRound(d) /\ BaseRound(d) /\ KeptRound(d) /\ BornRows(d)
      /\ \A m \in Note : ~Present(editor[d][m])
  BY DEF KeptInv, BornInv, Closed, NoRow, Present
<1>2. Frame(d)
  BY UserFrame
<1>3. PICK n \in Note :
        /\ \A m \in Note \ {n} : row'[d][m] = row[d][m]
        /\ editor' = editor
        /\ Adds(d, n) \/ (\E orig : Saves(d, n, orig)) \/ Turns(d, n) \/ Erases(d, n)
  BY <1>1, UserEffects
<1>4. pc' = pc /\ run' = run /\ manifest' = manifest /\ blobs' = blobs
  BY UserEffects
<1>5. /\ Written(used', row'[d][n].hash) /\ OnBase(seen', row'[d][n])
      /\ row'[d][n].base \in {0, row[d][n].base}
      /\ erased[d] \subseteq erased'[d]
      /\ Present(row[d][n]) =>
           \/ n \in erased'[d]
           \/ /\ Present(row'[d][n])
              /\ Over(seen, row[d][n].hash) \subseteq Over(seen', row'[d][n].hash)
  <2>0. /\ Written(used, row[d][n].hash) /\ OnBase(seen, row[d][n])
        /\ Present(row[d][n]) => Over(seen', row[d][n].hash) = Over(seen, row[d][n].hash)
    BY <1>1, <1>2, KnownStays DEF KeptRows, Present
  <2>1. CASE Adds(d, n)
    <3>1. PICK c \in Content, t \in Stamp : c \in used' /\ row'[d][n] = Unsynced(c, t)
      BY <2>1 DEF Adds
    <3>2. ~Present(row[d][n]) /\ erased' = erased
      BY <1>1, <2>1 DEF BornRows, Adds
    <3>3. row'[d][n].hash = c /\ row'[d][n].base = 0
      BY <3>1 DEF Unsynced
    <3> QED BY <3>1, <3>2, <3>3 DEF Written, OnBase
  <2>2. ASSUME NEW orig, Saves(d, n, orig)
        PROVE  /\ Written(used', row'[d][n].hash) /\ OnBase(seen', row'[d][n])
               /\ row'[d][n].base \in {0, row[d][n].base}
               /\ erased[d] \subseteq erased'[d]
               /\ Present(row'[d][n])
               /\ Over(seen, row[d][n].hash) \subseteq Over(seen', row'[d][n].hash)
    <3>1. PICK c \in Content, t \in Stamp :
            /\ row'[d][n] = Saved(d, n, orig, c, t)
            /\ c \in used' /\ seen'[c] = Incorporates(orig.hash)
      BY <2>2 DEF Saves
    <3>2. orig = row[d][n] /\ Present(row[d][n]) /\ erased' = erased
      BY <1>1, <2>2 DEF Saves
    <3>3. row'[d][n].hash = c /\ row'[d][n].base = row[d][n].base
      BY <3>1, <3>2 DEF Saved
    <3>4. Over(seen, row[d][n].hash) \subseteq Over(seen', row'[d][n].hash)
      BY <3>1, <3>2, <3>3 DEF Incorporates, Over
    <3>5. Present(row'[d][n])
      BY <1>0, <3>1, <3>3 DEF Present
    <3> QED BY <2>0, <3>1, <3>2, <3>3, <3>4, <3>5 DEF Written, OnBase
  <2>3. CASE Turns(d, n)
    <3>1. row'[d][n].hash = row[d][n].hash /\ row'[d][n].base = row[d][n].base
          /\ erased' = erased
      BY <2>3 DEF Turns
    <3>2. Written(used', row[d][n].hash)
      BY <1>2, <2>0, KnownStays
    <3>3. OnBase(seen', row'[d][n])
      BY <2>0, <3>1 DEF OnBase, Present
    <3> QED BY <2>0, <3>1, <3>2, <3>3 DEF Present
  <2>4. CASE Erases(d, n)
    <3>1. row'[d][n] = NoRow /\ n \in erased'[d] /\ erased[d] \subseteq erased'[d]
      BY <2>4 DEF Erases
    <3>2. row'[d][n].hash = 0 /\ row'[d][n].base = 0
      BY <3>1 DEF NoRow
    <3> QED BY <3>1, <3>2 DEF Written, OnBase
  <2> QED BY <1>3, <2>1, <2>2, <2>3, <2>4
<1>6. KeptRows(d)'
  <2>1. \A m \in Note \ {n} : Written(used', row'[d][m].hash) /\ OnBase(seen', row'[d][m])
    BY <1>1, <1>2, <1>3, KnownStays DEF KeptRows
  <2> QED BY <1>5, <2>1 DEF KeptRows
<1>7. \A h : Holds(row[d], erased[d], Done(d), seen, h) =>
               Holds(row'[d], erased'[d], Done(d)', seen', h)
  <2>1. Done(d) \subseteq Note /\ Done(d)' = Done(d)
    BY <1>4 DEF Done
  <2>2. \A m \in Done(d) : Present(row[d][m]) =>
          \/ m \in erased'[d]
          \/ row'[d][m] = row[d][m]
          \/ /\ Present(row'[d][m])
             /\ Over(seen, row[d][m].hash) \subseteq Over(seen', row'[d][m].hash)
    BY <1>3, <1>5, <2>1
  <2> QED BY <1>1, <1>2, <1>5, <2>1, <2>2, HoldsStays
<1>8. KnownRound(d)'
  BY <1>1, <1>2, <1>4, KnownStays DEF KnownRound, L, R
<1>9. BaseRound(d)'
  <2>1. \A m \in Note : row'[d][m].base \in {0, row[d][m].base}
    BY <1>3, <1>5
  <2>2. pc[d] \in Transfer =>
          \A m \in Note : Present(L(d, m)) => Over(seen', L(d, m).hash) = Over(seen, L(d, m).hash)
    BY <1>1, <1>2, KnownStays DEF KnownRound, Present
  <2> QED BY <1>1, <1>4, <2>1, <2>2 DEF BaseRound, L, R, Live, Present
<1>10. KeptRound(d)'
  <2>1. pc[d] \in Transfer => \A m \in Note : Live(run[d].merged[m]) =>
          Over(seen', run[d].merged[m].hash) = Over(seen, run[d].merged[m].hash)
    BY <1>1, <1>2, KnownStays DEF KnownRound, Live
  <2> QED BY <1>1, <1>4, <1>7, <2>1 DEF KeptRound, Replaces, L, R, Live, Transfer
<1>11. \A m \in Note : Written(used', manifest'[m].hash)
  BY <1>2, <1>4, KnownStays DEF KeptInv
<1> QED
  BY <1>2, <1>3, <1>6, <1>8, <1>9, <1>10, <1>11, KeptStep


\* What a step of the merge has to show of n, which it deals with or downloads,
\* and of the rows it writes.
LEMMA DealsKept ==
    ASSUME TypeOK, BornInv, KeptInv, NEW d \in Device, NEW n \in Note, Frame(d),
           NEW cp,
           pc[d] \in {"merge", "fetch", "write"}, n \in run[d].todo,
           UNCHANGED <<manifest, editor, erased>>,
           cp.note \cap born = {}, cp.note # {} => cp.hash \in used',
           KeptRows(d)',
           \A m \in Note : \/ row'[d][m] = row[d][m]
                           \/ m \in cp.note /\ row'[d][m].base = 0
                           \/ m = n /\ n \notin run'[d].todo,
           \/ \E x \in {NoItem, L(d, n), R(d, n)} :
                /\ Deals(d, n, x, cp)
                /\ (x = L(d, n) /\ Live(x) /\ Live(R(d, n)) /\ x.hash # R(d, n).hash) =>
                     \/ R(d, n).hash \in Over(seen', x.hash)
                     \/ Holds(row'[d], erased'[d], Done(d)', seen', R(d, n).hash)
           \/ \E cur, old : Downloads(d, cur, "fetch", old, cp)
           \/ \E cur, old : /\ Downloads(d, cur, "write", old, cp)
                            /\ Written(used', old.hash) /\ OnBase(seen', old)
    PROVE  KeptInv'
<1>1. /\ KeptRows(d) /\ KnownRound(d) /\ BaseRound(d) /\ KeptRound(d) /\ BornRows(d)
      /\ run[d].todo \subseteq born /\ blobs \subseteq blobs'
      /\ \A m \in Note : Present(R(d, m)) => m \in born
  BY DEF KeptInv, BornInv, BornRound, Transfer, Frame
<1>2. /\ run'[d].fresh = run[d].fresh
      /\ pc'[d] \in {"merge", "fetch", "write"}
      /\ run'[d].todo \in {run[d].todo, run[d].todo \ {n}}
  BY DEF Deals, Downloads, Kept
<1>3. \A m \in Note : run'[d].local[m] = L(d, m) /\ run'[d].snap[m] = R(d, m)
  BY DEF Deals, Downloads, Kept, L, R
<1>4. ASSUME NEW m \in Note
      PROVE  \/ /\ run'[d].merged[m] = run[d].merged[m]
                /\ m # n \/ run'[d].todo = run[d].todo
             \/ run'[d].merged[m] = CopyItem(cp) /\ m \in cp.note
             \/ \E x \in {NoItem, L(d, n), R(d, n)} :
                  /\ m = n /\ run'[d].merged[m] = x
                  /\ (x = L(d, n) /\ Live(x) /\ Live(R(d, n)) /\ x.hash # R(d, n).hash) =>
                       \/ R(d, n).hash \in Over(seen', x.hash)
                       \/ Holds(row'[d], erased'[d], Done(d)', seen', R(d, n).hash)
  <2>1. CASE \E cur, s, old : Downloads(d, cur, s, old, cp)
    BY <2>1 DEF Downloads, WithCopyOf
  <2>2. CASE ~\E cur, s, old : Downloads(d, cur, s, old, cp)
    BY <2>2 DEF Deals, WithCopyOf
  <2> QED BY <2>1, <2>2
<1>5. ASSUME NEW h, Holds(row[d], erased[d], Done(d), seen, h)
      PROVE  Holds(row'[d], erased'[d], Done(d)', seen', h)
  <2>1. Done(d) \subseteq Note /\ Done(d) \subseteq Done(d)'
    BY <1>2 DEF Done
  <2>2. \A m \in Done(d) : Present(row[d][m]) => row'[d][m] = row[d][m]
    BY <1>1, <2>1 DEF BornRows, Done
  <2> QED BY <1>1, <1>5, <2>1, <2>2, HoldsStays
<1>6. KnownRound(d)'
  <2>1. ASSUME NEW m \in Note PROVE Written(used', run'[d].merged[m].hash)
    <3>1. CASE run'[d].merged[m] = run[d].merged[m]
      BY <1>1, <3>1, KnownStays DEF KnownRound, Transfer
    <3>2. CASE run'[d].merged[m] = CopyItem(cp) /\ m \in cp.note
      BY <3>2 DEF CopyItem, AsItem, Unsynced, Written
    <3>3. CASE run'[d].merged[m] \in {NoItem, L(d, n), R(d, n)}
      BY <1>1, <3>3, KnownStays DEF KnownRound, Transfer, NoItem, Written
    <3> QED BY <1>4, <3>1, <3>2, <3>3
  <2>2. pc'[d] = "write" =>
          Written(used', run'[d].existing.hash) /\ OnBase(seen', run'[d].existing)
    BY DEF Deals, Downloads
  <2>3. \A m \in Note : Written(used', L(d, m).hash) /\ Written(used', R(d, m).hash)
    BY <1>1, KnownStays DEF KnownRound, Transfer
  <2> QED BY <1>3, <2>1, <2>2, <2>3 DEF KnownRound, L, R
<1>7. BaseRound(d)'
  <2>1. ASSUME NEW m \in Note, m \in run'[d].todo, row'[d][m].base # 0
        PROVE  Present(L(d, m)) /\ row'[d][m].base \in Over(seen', L(d, m).hash)
    <3>1. m \in run[d].todo /\ row'[d][m] = row[d][m]
      BY <1>1, <1>2, <2>1
    <3>2. Present(L(d, m)) /\ row[d][m].base \in Over(seen, L(d, m).hash)
          /\ Written(used, L(d, m).hash)
      BY <1>1, <2>1, <3>1 DEF BaseRound, KnownRound, Transfer
    <3>3. Over(seen', L(d, m).hash) = Over(seen, L(d, m).hash)
      BY <3>2, KnownStays DEF Present
    <3> QED BY <3>1, <3>2, <3>3
  <2>2. \A m \in Note : Live(R(d, m)) => R(d, m).hash \in blobs'
    BY <1>1 DEF BaseRound, Transfer
  <2> QED BY <1>2, <1>3, <2>1, <2>2 DEF BaseRound, L, R, Present, Live
<1>8. KeptRound(d)'
  <2>1. ASSUME NEW m \in Note, m \notin run'[d].todo, ~run[d].fresh,
               Live(R(d, m)), Live(run'[d].merged[m]), R(d, m).hash # run'[d].merged[m].hash
        PROVE  \/ R(d, m).hash \in Over(seen', run'[d].merged[m].hash)
               \/ Holds(row'[d], erased'[d], Done(d)', seen', R(d, m).hash)
    <3>1. m \in born
      BY <1>1, <2>1 DEF Live, Present
    <3>2. CASE run'[d].merged[m] = run[d].merged[m] /\ (m # n \/ run'[d].todo = run[d].todo)
      <4>1. Replaces(d, m)
        BY <1>2, <2>1, <3>2 DEF Replaces
      <4>2. \/ R(d, m).hash \in Over(seen, run[d].merged[m].hash)
            \/ Holds(row[d], erased[d], Done(d), seen, R(d, m).hash)
        BY <1>1, <2>1, <4>1 DEF KeptRound
      <4>3. Over(seen', run[d].merged[m].hash) = Over(seen, run[d].merged[m].hash)
        BY <1>1, <2>1, <3>2, KnownStays DEF KnownRound, Transfer, Live
      <4> QED BY <1>5, <3>2, <4>2, <4>3
    <3>3. ASSUME NEW x \in {NoItem, L(d, n), R(d, n)}, m = n, run'[d].merged[m] = x,
                 (x = L(d, n) /\ Live(x) /\ Live(R(d, n)) /\ x.hash # R(d, n).hash) =>
                     \/ R(d, n).hash \in Over(seen', x.hash)
                     \/ Holds(row'[d], erased'[d], Done(d)', seen', R(d, n).hash)
          PROVE  \/ R(d, m).hash \in Over(seen', run'[d].merged[m].hash)
                 \/ Holds(row'[d], erased'[d], Done(d)', seen', R(d, m).hash)
      BY <2>1, <3>3 DEF NoItem, Live
    <3>4. ~(run'[d].merged[m] = CopyItem(cp) /\ m \in cp.note)
      BY <3>1
    <3> QED BY <1>4, <3>2, <3>3, <3>4
  <2> QED BY <1>2, <1>3, <2>1 DEF KeptRound, Replaces, L, R, Live
<1>9. \A m \in Note : Written(used', manifest'[m].hash)
  BY KnownStays DEF KeptInv
<1> QED
  BY <1>6, <1>7, <1>8, <1>9, KeptStep


LEMMA MergeHolds ==
    ASSUME TypeOK, BornInv, KeptInv, "copy" \notin Faults, NEW d \in Device, MergeNote(d)
    PROVE  KeptInv'
<1>0. Frame(d) /\ \A c \in Content : c # 0
  BY BoundsAssumption, MergeFrame, SMT DEF Content
<1>1. PICK n \in Note :
        \/ \/ SkipPurged(d, n)       \/ RemoteOnly(d, n) \/ LocalOnly(d, n)
           \/ KeepEqual(d, n)        \/ FastForwardLocal(d, n)
           \/ FastForwardRemote(d, n)
        \/ ConflictLocalWins(d, n) \/ ConflictLocalGone(d, n) \/ ConflictRemoteWins(d, n)
        \/ FetchTombstone(d, n) \/ FetchMissing(d, n) \/ FetchBlob(d, n)
        \/ Write(d, n)
  BY DEF MergeNote
<1>2. /\ KeptRows(d) /\ KnownRound(d) /\ BaseRound(d)
      /\ pc[d] \in Transfer =>
           run[d].todo \subseteq born /\ run[d].cur \subseteq run[d].todo
  BY DEF KeptInv, BornInv, BornRound
<1>3. \A m \in Note : Written(used', row[d][m].hash) /\ OnBase(seen', row[d][m])
  BY <1>0, <1>2, KnownStays DEF KeptRows
<1>4. NoCopy.note = {}
  BY DEF NoCopy
<1>5. CASE \/ SkipPurged(d, n)       \/ RemoteOnly(d, n) \/ LocalOnly(d, n)
           \/ KeepEqual(d, n)        \/ FastForwardLocal(d, n)
           \/ FastForwardRemote(d, n)
  <2>1. /\ pc[d] = "merge" /\ n \in run[d].todo /\ row' = row
        /\ UNCHANGED <<manifest, editor, erased>>
    BY <1>5, BranchEffects DEF local_vars, user_vars
  <2>2. KeptRows(d)'
    BY <1>3, <2>1 DEF KeptRows
  <2>3. ASSUME NEW x \in {NoItem, R(d, n), L(d, n)}, Deals(d, n, x, NoCopy),
               x = L(d, n) => \/ ItemsEqual(L(d, n), R(d, n))
                              \/ Present(R(d, n)) => row[d][n].base = R(d, n).hash
        PROVE  KeptInv'
    <3>1. ASSUME x = L(d, n), Live(x), Live(R(d, n)), x.hash # R(d, n).hash
          PROVE  R(d, n).hash \in Over(seen', x.hash)
      <4>1. row[d][n].base = R(d, n).hash /\ R(d, n).hash # 0
        BY <2>3, <3>1 DEF ItemsEqual, Live, Present
      <4>2. R(d, n).hash \in Over(seen, x.hash) /\ Written(used, x.hash)
        BY <1>2, <2>1, <3>1, <4>1 DEF BaseRound, KnownRound, Transfer
      <4> QED BY <1>0, <3>1, <4>2, KnownStays DEF Live
    <3> QED BY <1>0, <1>4, <2>1, <2>2, <2>3, <3>1, DealsKept
  <2>4. ASSUME Downloads(d, {n}, "fetch", run[d].existing, NoCopy)
        PROVE  KeptInv'
    BY <1>0, <1>4, <2>1, <2>2, <2>4, DealsKept
  <2>5. \/ Downloads(d, {n}, "fetch", run[d].existing, NoCopy)
        \/ Deals(d, n, NoItem, NoCopy)
        \/ Deals(d, n, R(d, n), NoCopy)
        \/ /\ Deals(d, n, L(d, n), NoCopy)
           /\ \/ ItemsEqual(L(d, n), R(d, n))
              \/ Present(R(d, n)) => row[d][n].base = R(d, n).hash
    BY <1>5, BranchEffects
  <2>6. ASSUME NEW x \in {NoItem, R(d, n)}, Deals(d, n, x, NoCopy) PROVE KeptInv'
    <3>1. CASE x # L(d, n)
      BY <2>3, <2>6, <3>1
    <3>2. CASE x = L(d, n) /\ x = R(d, n)
      BY <2>3, <2>6, <3>2 DEF ItemsEqual
    <3>3. CASE x = L(d, n) /\ x = NoItem
      <4>1. ~Live(x)
        BY <3>3 DEF NoItem, Live
      <4> QED BY <1>0, <1>4, <2>1, <2>2, <2>6, <4>1, DealsKept
    <3> QED BY <3>1, <3>2, <3>3
  <2> QED BY <2>3, <2>4, <2>5, <2>6
<1>6. CASE ConflictLocalWins(d, n) \/ ConflictLocalGone(d, n) \/ ConflictRemoteWins(d, n)
  <2>1. /\ pc[d] = "merge" /\ n \in run[d].todo
        /\ UNCHANGED <<manifest, editor, erased>>
    BY <1>6, ConflictEffects
  <2>2. PICK cp, h :
          /\ CopyStored(d, h, cp)
          /\ cp.ok => cp.hash \in blobs'
          /\ \/ Downloads(d, {n}, "fetch", run[d].existing, cp)
             \/ Deals(d, n, NoItem, cp)
             \/ Deals(d, n, R(d, n), cp)
             \/ /\ Deals(d, n, L(d, n), cp) /\ Sent(d, n)
                /\ (BothLive(d, n) /\ R(d, n).hash \in blobs /\ "copy" \notin Faults)
                     => (h = R(d, n).hash /\ cp.note # {})
    BY <1>6, ConflictEffects
  <2>3. /\ cp.note \cap born = {} /\ cp.note \subseteq Note
        /\ cp.note # {} => (cp.hash \in used' /\ cp.hash # 0 /\ h \in seen'[cp.hash])
        /\ \A m \in Note \ cp.note : row'[d][m] = row[d][m]
        /\ \A m \in cp.note : row'[d][m] = Unsynced(cp.hash, cp.at)
    BY <1>0, <2>2 DEF CopyStored
  <2>4. \A m \in cp.note : row'[d][m].hash = cp.hash /\ row'[d][m].base = 0
    BY <2>3 DEF Unsynced
  <2>5. KeptRows(d)'
    <3>1. ASSUME NEW m \in Note
          PROVE  Written(used', row'[d][m].hash) /\ OnBase(seen', row'[d][m])
      <4>1. CASE m \in cp.note
        BY <2>3, <2>4, <4>1 DEF Written, OnBase
      <4>2. CASE m \notin cp.note
        BY <1>3, <2>3, <4>2
      <4> QED BY <4>1, <4>2
    <3> QED BY <3>1 DEF KeptRows
  <2>6. \A m \in Note : \/ row'[d][m] = row[d][m]
                        \/ m \in cp.note /\ row'[d][m].base = 0
                        \/ m = n /\ n \notin run'[d].todo
    BY <2>3, <2>4
  <2>7. ASSUME Deals(d, n, L(d, n), cp), Live(L(d, n)), Live(R(d, n)),
               L(d, n).hash # R(d, n).hash,
               (BothLive(d, n) /\ R(d, n).hash \in blobs) => (h = R(d, n).hash /\ cp.note # {})
        PROVE  Holds(row'[d], erased'[d], Done(d)', seen', R(d, n).hash)
    <3>1. R(d, n).hash \in blobs /\ BothLive(d, n)
      BY <1>2, <2>1, <2>7 DEF BaseRound, Transfer, BothLive, Live
    <3>2. PICK m \in cp.note : TRUE
      BY <2>7, <3>1
    <3>3. m \in Note /\ m \notin run[d].todo
      BY <1>2, <2>1, <2>3, <3>2 DEF Transfer
    <3>4. m \in Done(d)'
      BY <2>7, <3>3 DEF Done, Deals
    <3>5. Present(row'[d][m]) /\ R(d, n).hash \in Over(seen', row'[d][m].hash)
      BY <2>3, <2>4, <2>7, <3>1, <3>2 DEF Present, Over
    <3> QED BY <3>4, <3>5 DEF Holds
  <2>8. CASE Downloads(d, {n}, "fetch", run[d].existing, cp)
    BY <1>0, <2>1, <2>3, <2>5, <2>6, <2>8, DealsKept
  <2>9. ASSUME NEW x \in {NoItem, R(d, n), L(d, n)}, Deals(d, n, x, cp),
               (x = L(d, n) /\ Live(x) /\ Live(R(d, n)) /\ x.hash # R(d, n).hash) =>
                  \/ R(d, n).hash \in Over(seen', x.hash)
                  \/ Holds(row'[d], erased'[d], Done(d)', seen', R(d, n).hash)
        PROVE  KeptInv'
    BY <1>0, <2>1, <2>3, <2>5, <2>6, <2>9, DealsKept
  <2>10. CASE Deals(d, n, L(d, n), cp)
              /\ ((BothLive(d, n) /\ R(d, n).hash \in blobs /\ "copy" \notin Faults)
                     => (h = R(d, n).hash /\ cp.note # {}))
    BY <2>7, <2>9, <2>10
  <2>11. CASE Deals(d, n, R(d, n), cp)
    <3>1. (R(d, n) = L(d, n) /\ R(d, n).hash # R(d, n).hash) => FALSE
      OBVIOUS
    <3> QED BY <2>9, <2>11
  <2>12. CASE Deals(d, n, NoItem, cp)
    <3>1. ~Live(NoItem)
      BY DEF Live, NoItem
    <3> QED BY <2>9, <2>12, <3>1
  <2> QED BY <2>2, <2>8, <2>10, <2>11, <2>12
<1>7. CASE FetchTombstone(d, n) \/ FetchMissing(d, n) \/ FetchBlob(d, n)
  <2>1. /\ pc[d] = "fetch" /\ n \in run[d].cur /\ row' = row
        /\ UNCHANGED <<manifest, editor, erased>>
        /\ \/ Deals(d, n, R(d, n), NoCopy)
           \/ Downloads(d, run[d].cur, "write", row[d][n], NoCopy)
    BY <1>7, FetchEffects DEF user_vars
  <2>2. n \in run[d].todo
    BY <1>2, <2>1 DEF Transfer
  <2>3. KeptRows(d)'
    BY <1>3, <2>1 DEF KeptRows
  <2>4. Written(used', row[d][n].hash) /\ OnBase(seen', row[d][n])
    BY <1>3
  <2>5. CASE Deals(d, n, R(d, n), NoCopy)
    BY <1>0, <1>4, <2>1, <2>2, <2>3, <2>5, DealsKept
  <2>6. CASE Downloads(d, run[d].cur, "write", row[d][n], NoCopy)
    BY <1>0, <1>4, <2>1, <2>2, <2>3, <2>4, <2>6, DealsKept
  <2> QED BY <2>1, <2>5, <2>6
<1>8. CASE Write(d, n)
  <2>1. /\ pc[d] = "write" /\ n \in run[d].cur
        /\ UNCHANGED <<manifest, editor, erased>>
        /\ Deals(d, n, R(d, n), NoCopy)
        /\ \A m \in Note \ {n} : row'[d][m] = row[d][m]
        /\ \/ row'[d][n] = row[d][n]
           \/ row'[d][n] = Downloaded(R(d, n), run[d].existing)
    BY <1>8, WriteEffects DEF user_vars, remote_vars
  <2>2. n \in run[d].todo /\ n \notin run'[d].todo
    BY <1>2, <2>1 DEF Transfer, Deals
  <2>3. Written(used', row'[d][n].hash) /\ OnBase(seen', row'[d][n])
    <3>1. CASE row'[d][n] = row[d][n]
      BY <1>3, <3>1
    <3>2. CASE row'[d][n] = Downloaded(R(d, n), run[d].existing)
      <4>1. run[d].existing \in Row /\ Written(used, R(d, n).hash)
            /\ Written(used, run[d].existing.hash) /\ OnBase(seen, run[d].existing)
        BY <1>2, <2>1, RunFields DEF KnownRound, Transfer, Run
      <4>2. Written(used', R(d, n).hash) /\ Written(used', run[d].existing.hash)
            /\ OnBase(seen', run[d].existing)
        BY <1>0, <4>1, KnownStays
      <4>3. CASE R(d, n).deleted
        <5>1. row'[d][n].hash = run[d].existing.hash /\ row'[d][n].base = run[d].existing.base
          BY <3>2, <4>1, <4>3 DEF Downloaded, Row
        <5> QED BY <4>2, <5>1 DEF OnBase, Present
      <4>4. CASE ~R(d, n).deleted
        <5>1. row'[d][n].hash = R(d, n).hash /\ row'[d][n].base = 0
          BY <3>2, <4>4 DEF Downloaded, Unsynced
        <5> QED BY <4>2, <5>1 DEF OnBase
      <4> QED BY <4>3, <4>4
    <3> QED BY <2>1, <3>1, <3>2
  <2>4. KeptRows(d)'
    BY <1>3, <2>1, <2>3 DEF KeptRows
  <2> QED BY <1>0, <1>4, <2>1, <2>2, <2>4, DealsKept
<1> QED
  BY <1>1, <1>5, <1>6, <1>7, <1>8


LEMMA EdgeHolds ==
    ASSUME TypeOK, BornInv, KeptInv, GhostFree, NEW d \in Device,
           \/ Get(d)     \/ FirstUpload(d) \/ StartMerge(d)
           \/ PutOk(d)   \/ PutLost(d)     \/ PutConflict(d) \/ SkipPut(d)
           \/ Compare(d) \/ Mark(d)        \/ Unpurge(d)     \/ Abort(d)
    PROVE  KeptInv'
<1>0. /\ Frame(d) /\ KeptRows(d) /\ KnownRound(d) /\ BaseRound(d) /\ KeptRound(d)
      /\ blobs \subseteq blobs'
  BY EdgeFrame DEF KeptInv, Frame
<1>1. /\ \A n \in Note : Written(used', row[d][n].hash) /\ OnBase(seen', row[d][n])
      /\ \A n \in Note : Written(used', manifest[n].hash)
  BY <1>0, KnownStays DEF KeptRows, KeptInv
<1>2. CASE Get(d)
  <2>1. PICK gone : Gets(d, gone)
    BY <1>2, GetEffects
  <2>2. /\ pc'[d] = "plan" /\ UNCHANGED <<manifest, blobs, editor>>
        /\ run'[d].snap = manifest /\ run'[d].merged = NoItems
        /\ \A m \in Note : run'[d].local[m] = AsItem(row'[d][m])
        /\ \A m \in Note : row'[d][m] = IF m \in gone THEN NoRow ELSE row[d][m]
    BY <2>1 DEF Gets, remote_vars, user_vars
  <2>3. NoRow.hash = 0 /\ NoRow.base = 0
    BY DEF NoRow
  <2>4. \A m \in Note : Written(used', row'[d][m].hash) /\ OnBase(seen', row'[d][m])
    BY <1>1, <2>2, <2>3 DEF Written, OnBase
  <2>5. \A m \in Note : run'[d].local[m].hash = row'[d][m].hash
                        /\ run'[d].merged[m].hash = 0
    <3>1. \A m \in Note : NoItems[m].hash = 0
      BY DEF NoItems, NoItem
    <3>2. \A m \in Note : AsItem(row'[d][m]).hash = row'[d][m].hash
      BY DEF AsItem
    <3> QED BY <2>2, <3>1, <3>2
  <2>6. KeptRows(d)'
    BY <2>4 DEF KeptRows
  <2>7. KnownRound(d)'
    BY <1>1, <2>2, <2>4, <2>5 DEF KnownRound, L, R, Written
  <2>8. BaseRound(d)'
    BY <2>2, <2>4, <2>5 DEF BaseRound, OnBase, GhostFree, L, R, Present, Live
  <2>9. KeptRound(d)'
    BY <2>2 DEF KeptRound
  <2> QED
    BY <1>0, <1>1, <2>2, <2>6, <2>7, <2>8, <2>9, KeptStep
<1>3. CASE FirstUpload(d)
  <2>1. /\ pc[d] = "plan" /\ pc'[d] = "merge" /\ Kept(d) /\ run[d].fresh
        /\ UNCHANGED <<row, manifest, editor>>
        /\ \A m \in Note : run'[d].merged[m] \in {NoItem, L(d, m)}
    BY <1>3, FirstUploadEffects DEF local_vars, user_vars
  <2>2. \A m \in Note : run'[d].local[m] = L(d, m) /\ run'[d].snap[m] = R(d, m)
    BY <2>1 DEF Kept, L, R
  <2>3. KeptRows(d)'
    BY <1>1, <2>1 DEF KeptRows
  <2>4. \A m \in Note : Written(used', L(d, m).hash) /\ Written(used', R(d, m).hash)
                        /\ Written(used', run'[d].merged[m].hash)
    <3>1. Written(used', NoItem.hash)
      BY DEF Written, NoItem
    <3> QED BY <1>0, <2>1, <3>1, KnownStays DEF KnownRound, Transfer
  <2>5. KnownRound(d)'
    BY <2>1, <2>2, <2>4 DEF KnownRound, L, R
  <2>6. \A m \in Note : Present(L(d, m)) => Over(seen', L(d, m).hash) = Over(seen, L(d, m).hash)
    BY <1>0, <2>1, KnownStays DEF KnownRound, Present, Transfer
  <2>7. BaseRound(d)'
    BY <1>0, <2>1, <2>2, <2>6 DEF BaseRound, L, R, Present, Live, Transfer
  <2>8. KeptRound(d)'
    BY <2>1 DEF KeptRound, Kept
  <2> QED
    BY <1>0, <1>1, <2>1, <2>3, <2>5, <2>7, <2>8, KeptStep
<1>4. CASE StartMerge(d)
  <2>1. /\ pc[d] = "plan" /\ pc'[d] = "merge"
        /\ run'[d].snap = run[d].snap /\ run'[d].local = run[d].local
        /\ run'[d].todo = {n \in Note : Present(L(d, n)) \/ Present(R(d, n))}
        /\ run'[d].merged = run[d].merged
        /\ UNCHANGED <<row, manifest, editor>>
    BY <1>4, StartMergeEffects DEF local_vars, remote_vars, user_vars
  <2>2. \A m \in Note : run'[d].local[m] = L(d, m) /\ run'[d].snap[m] = R(d, m)
    BY <2>1 DEF L, R
  <2>3. KeptRows(d)'
    BY <1>1, <2>1 DEF KeptRows
  <2>4. KnownRound(d)'
    BY <1>0, <2>1, <2>2, KnownStays DEF KnownRound, L, R, Transfer
  <2>5. \A m \in Note : Present(L(d, m)) => Over(seen', L(d, m).hash) = Over(seen, L(d, m).hash)
    BY <1>0, <2>1, KnownStays DEF KnownRound, Present, Transfer
  <2>6. BaseRound(d)'
    BY <1>0, <2>1, <2>2, <2>5 DEF BaseRound, L, R, Present, Live, Transfer
  <2>7. KeptRound(d)'
    <3>1. \A m \in Note : m \notin run'[d].todo => ~Live(R(d, m))
      BY <2>1 DEF Live, Present
    <3> QED BY <2>2, <3>1 DEF KeptRound, Replaces, R, Live
  <2> QED
    BY <1>0, <1>1, <2>1, <2>3, <2>4, <2>6, <2>7, KeptStep
<1>5. CASE \/ PutOk(d)   \/ PutLost(d) \/ PutConflict(d) \/ SkipPut(d)
           \/ Compare(d) \/ Mark(d)    \/ Unpurge(d)     \/ Abort(d)
  <2>1. /\ pc'[d] \notin Transfer /\ editor' = editor
        /\ \A m \in Note :
             /\ row'[d][m].hash = row[d][m].hash
             /\ row'[d][m].base \in {row[d][m].base, row[d][m].hash}
        /\ \/ manifest' = manifest
           \/ pc[d] = "merge" /\ manifest' = Final(d)
    BY <1>5, EndEffects DEF user_vars
  <2>2. KeptRows(d)'
    BY <1>1, <2>1 DEF KeptRows, OnBase, Over, Present
  <2>3. \A m \in Note : Written(used', manifest'[m].hash)
    <3>1. CASE manifest' = manifest
      BY <1>1, <3>1
    <3>2. CASE pc[d] = "merge" /\ manifest' = Final(d)
      <4>1. \A m \in Note : Written(used', run[d].merged[m].hash)
        BY <1>0, <3>2, KnownStays DEF KnownRound, Transfer
      <4> QED BY <3>2, <4>1 DEF Final, NoItem, Written
    <3> QED BY <2>1, <3>1, <3>2
  <2>4. KnownRound(d)' /\ BaseRound(d)' /\ KeptRound(d)'
    BY <2>1 DEF KnownRound, BaseRound, KeptRound, Transfer
  <2> QED
    BY <1>0, <2>1, <2>2, <2>3, <2>4, KeptStep
<1> QED
  BY <1>2, <1>3, <1>4, <1>5

LEMMA KeptNext ==
    ASSUME TypeOK, BornInv, GhostFree, KeptInv,
           "editor" \notin Windows, "copy" \notin Faults, [Next]_vars
    PROVE  KeptInv'
<1>1. CASE UNCHANGED vars
  BY <1>1 DEF vars, KeptInv, KeptRows, KnownRound, BaseRound, KeptRound, Replaces, Done, L, R
<1> QED
  BY <1>1, UserKept, MergeHolds, EdgeHolds DEF Next, Engine, Fault

\* Only a PUT changes the manifest, and one that succeeds has read the manifest
\* it replaces.
LEMMA KeptPut ==
    ASSUME TypeOK, EntryInv, KeptInv, [Next]_vars, NEW n \in Note,
           Live(manifest[n]), Live(manifest'[n]), manifest[n].hash # manifest'[n].hash
    PROVE  \/ manifest[n].hash \in Incorporates(manifest'[n].hash)
           \/ \E d \in Device :
                /\ pc'[d] # pc[d]
                /\ \E m \in Note :
                     \/ /\ Present(row[d][m])
                        /\ manifest[n].hash \in Incorporates(row[d][m].hash)
                     \/ m \in erased[d]
<1>1. manifest' # manifest
  OBVIOUS
<1>2. PICK d \in Device :
        \/ PutOk(d)   \/ PutLost(d) \/ PutConflict(d) \/ SkipPut(d)
        \/ Compare(d) \/ Mark(d)    \/ Unpurge(d)     \/ Abort(d)
  <2>1. PICK d \in Device : User(d) \/ Engine(d) \/ Fault(d)
    BY <1>1 DEF Next, vars
  <2>2. ~User(d)
    BY <1>1, UserEffects
  <2>3. ~MergeNote(d)
    BY <1>1, MergeKept
  <2>4. ~Get(d) /\ ~StartMerge(d)
    BY <1>1, GetEffects, StartMergeEffects DEF Gets, remote_vars
  <2>5. ~FirstUpload(d)
    BY <1>1, FirstUploadEffects
  <2> QED BY <2>1, <2>2, <2>3, <2>4, <2>5 DEF Engine, Fault
<1>3. /\ pc[d] = "merge" /\ run[d].todo = {} /\ etagOk[d]
      /\ manifest' = Final(d) /\ pc'[d] # pc[d]
  BY <1>1, <1>2, EndEffects
<1>4. run[d].snap = manifest /\ run[d].fresh = ~exists /\ KeptRound(d)
      /\ (exists \/ \A m \in Note : ~Present(manifest[m]))
  BY <1>3 DEF EntryInv, RoundEntries, SnapCurrent, Transfer, KeptInv
<1>5. ~run[d].fresh /\ R(d, n) = manifest[n]
  BY <1>4 DEF Live, Present, R
<1>6. manifest'[n] = run[d].merged[n]
  BY <1>3 DEF Final, Live, NoItem
<1>7. Replaces(d, n)
  BY <1>3, <1>5, <1>6 DEF Replaces
<1>8. \/ manifest[n].hash \in Over(seen, manifest'[n].hash)
      \/ Holds(row[d], erased[d], Done(d), seen, manifest[n].hash)
  BY <1>3, <1>4, <1>5, <1>6, <1>7 DEF KeptRound
<1>9. Done(d) = Note
  BY <1>3 DEF Done
<1> QED
  BY <1>3, <1>8, <1>9 DEF Over, Incorporates, Holds

\* A PUT never replaces a text unseen: as long as reading a conflict's loser
\* does not fail and no editor is left open over steps of the engine, the new
\* text was written on top of the old one, or the device that PUTs holds the
\* old one or has erased it.  Without ghost references, because a loser whose
\* blob is missing when the conflict is resolved is not copied, and its blob
\* may be there again by the time of the PUT.
THEOREM PreserveCorrect ==
    ("editor" \notin Windows /\ "copy" \notin Faults) =>
      (Spec /\ []GhostFree => OverwritePreserves)
<1> SUFFICES ASSUME "editor" \notin Windows, "copy" \notin Faults
             PROVE  Spec /\ []GhostFree => OverwritePreserves
  OBVIOUS
<1>1. TypeOK /\ EntryInv /\ KeptInv /\ [Next]_vars =>
        [\A n \in Note :
           LET old == manifest[n]
               new == manifest'[n] IN
           (Live(old) /\ Live(new) /\ old.hash # new.hash /\ old.hash \in blobs) =>
             \/ old.hash \in Incorporates(new.hash)
             \/ \E d \in Device :
                  /\ pc'[d] # pc[d]
                  /\ \E m \in Note :
                       \/ Present(row[d][m]) /\ old.hash \in Incorporates(row[d][m].hash)
                       \/ m \in erased[d]]_vars
  BY KeptPut
<1>2. TypeOK /\ BornInv /\ GhostFree /\ KeptInv /\ [Next]_vars => KeptInv'
  BY KeptNext
<1> QED
  BY <1>1, <1>2, TypeInit, TypeNext, EntriesInit, EntriesNext, BornInit, BornNext,
     KeptInit, PTL DEF Spec, OverwritePreserves


\* In particular when the users' calls stay out of the engine's merge.
THEOREM QuietPreserves ==
    (Quiet /\ "editor" \notin Windows /\ "copy" \notin Faults) => (Spec => OverwritePreserves)
<1> SUFFICES ASSUME Quiet, "editor" \notin Windows, "copy" \notin Faults
             PROVE  Spec => OverwritePreserves
  OBVIOUS
<1>1. Spec => []GhostFree
  BY GhostCorrect
<1>2. Spec /\ []GhostFree => OverwritePreserves
  BY PreserveCorrect
<1> QED
  BY <1>1, <1>2, PTL
================================================================================
