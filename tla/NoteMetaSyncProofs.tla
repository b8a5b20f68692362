------------------------- MODULE NoteMetaSyncProofs -------------------------
(***************************************************************************)
(* Proofs about NoteMetaSync, for any devices, notes, bounds and faults.   *)
(***************************************************************************)
EXTENDS NoteMetaSync, TLAPS

(* The values that occur.                                                  *)

LEMMA Values ==
    /\ NoRow \in Row /\ NoEntry \in Entry
    /\ NoRows \in [Note -> Row] /\ NoEntries \in [Note -> Entry]
    /\ IdleRun \in Run
    /\ \A r \in Row : AsEntry(r) \in Entry
    /\ \A e \in Entry : Adopt(e) \in Row
<1>1. 0 \in Time /\ 0 \in Value /\ 1 \in Time
  BY BoundsAssumption DEF Time, Value
<1>2. NoRow \in Row /\ NoEntry \in Entry
  BY <1>1 DEF NoRow, Row, NoEntry, Entry
<1>3. NoRows \in [Note -> Row] /\ NoEntries \in [Note -> Entry]
  BY <1>2 DEF NoRows, NoEntries
<1>4. IdleRun \in Run
  BY <1>3 DEF IdleRun, Run, MetaCasMaxAttempts
<1>5. ASSUME NEW r \in Row PROVE AsEntry(r) \in Entry
  BY DEF AsEntry, Row, Entry
<1>6. ASSUME NEW e \in Entry PROVE Adopt(e) \in Row
  BY <1>1 DEF Adopt, Row, Entry
<1> QED BY <1>2, <1>3, <1>4, <1>5, <1>6

-----------------------------------------------------------------------------
(* Type correctness                                                        *)

LEMMA TypeInit == Init => TypeOK
<1> SUFFICES ASSUME Init PROVE TypeOK
  OBVIOUS
<1>1. PICK S \in SUBSET Note : Start(S)
  BY DEF Init
<1> DEFINE seed == [n \in Note |-> IF n \in S THEN [NoRow EXCEPT !.at = 1, !.synced = TRUE]
                                          ELSE NoRow]
<1>2. seed \in [Note -> Row]
  <2>1. 1 \in Time
    BY BoundsAssumption DEF Time
  <2>2. [NoRow EXCEPT !.at = 1, !.synced = TRUE] \in Row
    BY <2>1, Values DEF Row
  <2> QED BY <2>2, Values
<1>3. Wire(seed) \in [Note -> Entry] /\ \A n \in Note : AsEntry(seed[n]) \in Entry
  BY <1>2, Values DEF Wire
<1>4. /\ meta = [d \in Device |-> IF d \in Joining THEN NoRows ELSE seed]
      /\ file = [kind |-> IF S = {} THEN "none" ELSE "ok", items |-> Wire(seed)]
      /\ now = 1
      /\ sent = {<<n, AsEntry(seed[n])>> : n \in S}
  BY <1>1 DEF Start
<1> HIDE DEF seed
<1>5. meta \in [Device -> [Note -> Row]]
  BY <1>2, <1>4, Values
<1>6. file \in [kind : Kinds, items : [Note -> Entry]]
  BY <1>3, <1>4 DEF Kinds
<1>7. sent \subseteq Note \X Entry
  BY <1>3, <1>4
<1>8. now \in Time /\ ops \in Value /\ faults \in Nat
  BY <1>4, BoundsAssumption DEF Init, Time, Value
<1>9. pc \in [Device -> States]
  BY DEF Init, States
<1> QED
  BY <1>5, <1>6, <1>7, <1>8, <1>9, Values DEF Init, TypeOK

LEMMA ClockType ==
    ASSUME TypeOK, NEW t \in Time, ReadClock(t)
    PROVE  now' \in Time
  BY DEF TypeOK, ReadClock

LEMMA UserType ==
    ASSUME TypeOK, NEW d \in Device, User(d) \/ FinishSetter(d) PROVE TypeOK'
<1>1. ASSUME NEW n \in Note, NEW f \in Fields, ReadRow(d, n, f) PROVE TypeOK'
  <2> DEFINE s == [note |-> n, field |-> f, value |-> ops + 1,
                   row |-> IF meta[d][n].deleted THEN NoRow ELSE meta[d][n]]
  <2>1. ops' = ops + 1 /\ ops' \in Value
    BY <1>1, BoundsAssumption DEF ReadRow, TypeOK, Value
  <2>2. s \in Setter
    BY <2>1, Values DEF Setter, TypeOK
  <2>3. setting' = [setting EXCEPT ![d] = @ \cup {s}]
    BY <1>1 DEF ReadRow
  <2> HIDE DEF s
  <2>4. setting' \in [Device -> SUBSET Setter]
    BY <2>2, <2>3 DEF TypeOK
  <2> QED
    BY <1>1, <2>1, <2>4 DEF ReadRow, TypeOK, engine_vars
<1>2. ASSUME NEW s \in setting[d], WriteRow(d, s) PROVE TypeOK'
  <2>1. PICK t \in Time : /\ ReadClock(t)
                          /\ meta' = [meta EXCEPT ![d][s.note] =
                                [s.row EXCEPT ![s.field] = s.value, !.at = t, !.synced = FALSE]]
    BY <1>2 DEF WriteRow
  <2>2. s \in Setter /\ s.field \in {"tags", "locked"}
    <3>1. setting[d] \in SUBSET Setter
      BY DEF TypeOK
    <3>2. s \in Setter
      BY <3>1
    <3>3. s.field \in Fields
      BY <3>2 DEF Setter
    <3> QED BY <3>2, <3>3, ScopeAssumption DEF AllFields
  <2>3. [s.row EXCEPT ![s.field] = s.value, !.at = t, !.synced = FALSE] \in Row
    <3>1. CASE s.field = "tags"
      BY <2>2, <3>1 DEF Setter, Row
    <3>2. CASE s.field = "locked"
      BY <2>2, <3>2 DEF Setter, Row
    <3> QED BY <2>2, <3>1, <3>2
  <2>4. meta' \in [Device -> [Note -> Row]]
    BY <2>1, <2>2, <2>3 DEF TypeOK, Setter
  <2>5. setting' \in [Device -> SUBSET Setter]
    BY <1>2 DEF WriteRow, TypeOK
  <2> QED
    BY <1>2, <2>1, <2>4, <2>5, ClockType DEF WriteRow, TypeOK, engine_vars
<1>3. ASSUME NEW n \in Note, HardDelete(d, n) PROVE TypeOK'
  <2>1. PICK t \in Time : /\ ReadClock(t)
                          /\ meta' = [meta EXCEPT ![d][n] =
                                [NoRow EXCEPT !.at = t, !.deleted = TRUE]]
    BY <1>3 DEF HardDelete
  <2>2. [NoRow EXCEPT !.at = t, !.deleted = TRUE] \in Row
    BY Values DEF Row
  <2>3. meta' \in [Device -> [Note -> Row]]
    BY <2>1, <2>2 DEF TypeOK
  <2>4. ops' \in Value
    BY <1>3, BoundsAssumption DEF HardDelete, TypeOK, Value
  <2>5. gone' \in [Device -> SUBSET Note]
    BY <1>3 DEF HardDelete, TypeOK
  <2> QED
    BY <1>3, <2>1, <2>3, <2>4, <2>5, ClockType DEF HardDelete, TypeOK, engine_vars
<1> QED
  BY <1>1, <1>2, <1>3 DEF User, FinishSetter

LEMMA MoveType ==
    ASSUME TypeOK, NEW d \in Device, NEW s \in States, NEW r \in Run, Move(d, s, r)
    PROVE  pc' \in [Device -> States] /\ run' \in [Device -> Run]
  BY DEF TypeOK, Move

LEMMA StoreType ==
    ASSUME TypeOK, NEW rows \in [Note -> Row], StoreFile(rows)
    PROVE  /\ file' \in [kind : Kinds, items : [Note -> Entry]]
           /\ etagOk' \in [Device -> BOOLEAN]
           /\ sent' \subseteq Note \X Entry
<1>1. Wire(rows) \in [Note -> Entry] /\ \A n \in Note : AsEntry(rows[n]) \in Entry
  BY Values DEF Wire
<1> QED
  BY <1>1 DEF StoreFile, TypeOK, Kinds

LEMMA DownloadType ==
    ASSUME TypeOK, NEW d \in Device, NEW items \in [Note -> Entry], NEW r \in Run,
           Download(d, items, r), faults' \in Nat
    PROVE  TypeOK'
<1>1. Merged(meta[d], items) \in [Note -> Row]
  BY Values DEF Merged, TypeOK
<1>2. meta' \in [Device -> [Note -> Row]]
  BY <1>1 DEF Download, TypeOK
<1>3. etagOk' \in [Device -> BOOLEAN]
  BY DEF Download, TypeOK, Run
<1> QED
  BY <1>2, <1>3, MoveType DEF Download, States, TypeOK, user_vars

\* A round that reads the file again after a conflict has an attempt left.
AttemptLeft ==
    \A d \in Device : pc[d] = "refetch" => run[d].attempt < MetaCasMaxAttempts

LEMMA AttemptNext == TypeOK /\ AttemptLeft /\ [Next]_vars => AttemptLeft'
<1> SUFFICES ASSUME TypeOK, AttemptLeft, [Next]_vars, NEW e \in Device, pc'[e] = "refetch"
             PROVE  run'[e].attempt < MetaCasMaxAttempts
  BY DEF AttemptLeft
<1>1. ASSUME NEW d \in Device, NEW s \in States, NEW r \in Run, Move(d, s, r),
             s = "refetch" => r.attempt < MetaCasMaxAttempts
      PROVE  run'[e].attempt < MetaCasMaxAttempts
  BY <1>1 DEF Move, TypeOK, AttemptLeft
<1>2. ASSUME NEW d \in Device, NEW s \in States \ {"refetch"}, NEW r, Move(d, s, r)
      PROVE  run'[e].attempt < MetaCasMaxAttempts
  BY <1>2 DEF Move, TypeOK, AttemptLeft
<1>3. ASSUME NEW d \in Device, PutConflict(d) PROVE run'[e].attempt < MetaCasMaxAttempts
  <2>1. run[d].attempt < MetaCasMaxAttempts => [run[d] EXCEPT !.all = NoRows].attempt < MetaCasMaxAttempts
    BY DEF TypeOK, Run
  <2>2. [run[d] EXCEPT !.all = NoRows] \in Run
    BY Values DEF TypeOK, Run
  <2> QED
    BY <1>1, <1>2, <1>3, <2>1, <2>2 DEF PutConflict, EndRound, States
<1>4. ASSUME NEW d \in Device, Engine(d), ~PutConflict(d)
      PROVE  run'[e].attempt < MetaCasMaxAttempts
  BY <1>2, <1>4 DEF Engine, Get, SkipRound, ReadAll, Put, Refetch, MarkSynced, Purge,
                    JoinRead, JoinPut, Download, EndRound, States, vars, AttemptLeft
<1>5. ASSUME NEW d \in Device, User(d) \/ FinishSetter(d)
      PROVE  run'[e].attempt < MetaCasMaxAttempts
  BY <1>5 DEF User, FinishSetter, ReadRow, WriteRow, HardDelete, engine_vars, AttemptLeft
<1>6. ASSUME NEW d \in Device, Abort(d) PROVE run'[e].attempt < MetaCasMaxAttempts
  BY <1>2, <1>6 DEF Abort, EndRound, States
<1>7. CASE Damage \/ Upgrade \/ UNCHANGED vars
  BY <1>7 DEF Damage, Upgrade, vars, AttemptLeft
<1> QED
  BY <1>3, <1>4, <1>5, <1>6, <1>7 DEF Next

LEMMA EngineType ==
    ASSUME TypeOK, AttemptLeft, NEW d \in Device, Engine(d) PROVE TypeOK'
<1> USE DEF user_vars
<1>0. /\ run[d] \in Run /\ meta[d] \in [Note -> Row] /\ run[d].all \in [Note -> Row]
      /\ file.items \in [Note -> Entry]
  BY DEF TypeOK, Run
<1>1. ASSUME NEW kind \in Kinds, Answer(kind)
      PROVE  /\ faults' \in Nat
             /\ (IF kind = "ok" THEN file.items ELSE NoEntries) \in [Note -> Entry]
  BY <1>0, <1>1, Values DEF Answer, TypeOK
<1>2. CASE Get(d)
  <2>1. PICK kind \in Kinds \ {"future"} :
          /\ Answer(kind)
          /\ Download(d, IF kind = "ok" THEN file.items ELSE NoEntries,
                     [IdleRun EXCEPT !.create = (kind = "none"), !.force = (kind = "bad")])
    BY <1>2 DEF Get
  <2>2. [IdleRun EXCEPT !.create = (kind = "none"), !.force = (kind = "bad")] \in Run
    BY Values DEF Run
  <2> QED
    BY <1>1, <2>1, <2>2, DownloadType
<1>3. CASE SkipRound(d)
  BY <1>3 DEF SkipRound, vars, TypeOK
<1>4. CASE ReadAll(d)
  <2>1. [run[d] EXCEPT !.all = meta[d]] \in Run
    BY <1>0 DEF Run
  <2>2. pc' \in [Device -> States] /\ run' \in [Device -> Run]
    BY <1>4, <2>1, MoveType, Values DEF ReadAll, EndRound, States
  <2> QED BY <1>4, <2>2 DEF ReadAll, TypeOK
<1>5. CASE Put(d)
  <2>1. pc' \in [Device -> States] /\ run' \in [Device -> Run]
    BY <1>5, <1>0, MoveType DEF Put, States
  <2> QED BY <1>5, <1>0, <2>1, StoreType DEF Put, TypeOK
<1>6. CASE PutConflict(d)
  <2>1. [run[d] EXCEPT !.all = NoRows] \in Run
    BY <1>0, Values DEF Run
  <2>2. pc' \in [Device -> States] /\ run' \in [Device -> Run]
    BY <1>6, <2>1, MoveType, Values DEF PutConflict, EndRound, States
  <2> QED BY <1>6, <2>2 DEF PutConflict, TypeOK
<1>7. CASE Refetch(d)
  <2>1. PICK kind \in Kinds :
          /\ Answer(kind)
          /\ IF kind \in {"bad", "future"}
             THEN EndRound(d) /\ UNCHANGED <<meta, file, etagOk, sent, intact, user_vars>>
             ELSE Download(d, IF kind = "ok" THEN file.items ELSE NoEntries,
                           [run[d] EXCEPT !.create = (kind = "none"), !.attempt = @ + 1])
    BY <1>7 DEF Refetch
  <2>2. CASE kind \in {"bad", "future"}
    <3>1. pc' \in [Device -> States] /\ run' \in [Device -> Run]
      BY <2>1, <2>2, MoveType, Values DEF EndRound, States
    <3> QED BY <1>1, <2>1, <2>2, <3>1 DEF TypeOK
  <2>3. CASE kind \notin {"bad", "future"}
    <3>1. [run[d] EXCEPT !.create = (kind = "none"), !.attempt = @ + 1] \in Run
      <4>1. run[d].attempt < MetaCasMaxAttempts /\ run[d].attempt \in 1 .. MetaCasMaxAttempts
        BY <1>0, <1>7 DEF Run, AttemptLeft, Refetch
      <4>2. run[d].attempt + 1 \in 1 .. MetaCasMaxAttempts
        BY <4>1 DEF MetaCasMaxAttempts
      <4> HIDE DEF MetaCasMaxAttempts
      <4> QED BY <1>0, <4>2 DEF Run
    <3> QED BY <1>1, <2>1, <2>3, <3>1, DownloadType
  <2> QED BY <2>2, <2>3
<1>8. CASE MarkSynced(d)
  <2>1. \A r, x \in Row : Marked(r, x) \in Row
    BY DEF Marked, Row
  <2>2. meta' \in [Device -> [Note -> Row]]
    BY <1>8, <1>0, <2>1 DEF MarkSynced, TypeOK
  <2>3. pc' \in [Device -> States] /\ run' \in [Device -> Run]
    BY <1>8, MoveType, Values DEF MarkSynced, States
  <2> QED BY <1>8, <2>2, <2>3 DEF MarkSynced, TypeOK
<1>9. CASE Purge(d)
  <2>1. meta' \in [Device -> [Note -> Row]]
    BY <1>9, <1>0, Values DEF Purge, TypeOK
  <2>2. pc' \in [Device -> States] /\ run' \in [Device -> Run]
    BY <1>9, MoveType, Values DEF Purge, EndRound, States
  <2> QED BY <1>9, <2>1, <2>2 DEF Purge, TypeOK
<1>10. CASE JoinRead(d)
  <2>1. [IdleRun EXCEPT !.all = meta[d]] \in Run
    BY <1>0, Values DEF Run
  <2>2. pc' \in [Device -> States] /\ run' \in [Device -> Run]
    BY <1>10, <2>1, MoveType DEF JoinRead, States
  <2> QED BY <1>10, <2>2 DEF JoinRead, TypeOK
<1>11. CASE JoinPut(d)
  <2>1. pc' \in [Device -> States] /\ run' \in [Device -> Run]
    BY <1>11, MoveType, Values DEF JoinPut, EndRound, States
  <2> QED BY <1>11, <1>0, <2>1, StoreType DEF JoinPut, TypeOK
<1> QED
  BY <1>2, <1>3, <1>4, <1>5, <1>6, <1>7, <1>8, <1>9, <1>10, <1>11 DEF Engine

LEMMA TypeNext == TypeOK /\ AttemptLeft /\ [Next]_vars => TypeOK'
<1> SUFFICES ASSUME TypeOK, AttemptLeft, [Next]_vars PROVE TypeOK'
  OBVIOUS
<1>1. ASSUME NEW d \in Device, Abort(d) PROVE TypeOK'
  <2>1. pc' \in [Device -> States] /\ run' \in [Device -> Run]
    BY <1>1, MoveType, Values DEF Abort, EndRound, States
  <2> QED BY <1>1, <2>1 DEF Abort, Fail, TypeOK, user_vars
<1>2. CASE Damage
  <2>1. file' \in [kind : Kinds, items : [Note -> Entry]]
    BY <1>2, Values DEF Damage, Kinds
  <2>2. faults' \in Nat
    BY <1>2 DEF Damage, Fail, TypeOK
  <2>3. intact' \in BOOLEAN /\ etagOk' \in [Device -> BOOLEAN]
    BY <1>2 DEF Damage
  <2> QED BY <1>2, <2>1, <2>2, <2>3 DEF Damage, TypeOK, user_vars
<1>3. CASE Upgrade
  <2>1. file' \in [kind : Kinds, items : [Note -> Entry]]
    BY <1>3 DEF Upgrade, TypeOK, Kinds
  <2>2. faults' \in Nat
    BY <1>3 DEF Upgrade, Fail, TypeOK
  <2>3. etagOk' \in [Device -> BOOLEAN]
    BY <1>3 DEF Upgrade
  <2> QED BY <1>3, <2>1, <2>2, <2>3 DEF Upgrade, TypeOK, user_vars
<1>4. CASE UNCHANGED vars
  BY <1>4 DEF vars, TypeOK
<1> QED
  BY <1>1, <1>2, <1>3, <1>4, UserType, EngineType DEF Next

\* Whatever users, devices and faults do, every variable keeps its shape: the
\* rows a setter read and the table a round is uploading included.
THEOREM MetaTypeCorrect == Spec => []TypeOK
<1>1. Init => AttemptLeft
  BY DEF Init, AttemptLeft
<1> QED
  BY <1>1, TypeInit, TypeNext, AttemptNext, PTL DEF Spec

-----------------------------------------------------------------------------
(***************************************************************************)
(* Safety theorems about NoteMetaSync: what is marked as synced was sent   *)
(* and stays in the file, and the file only moves forward.  They assume    *)
(* clocks that agree (Skew = FALSE), except the one about the format of    *)
(* the file.                                                               *)
(***************************************************************************)

-----------------------------------------------------------------------------
(* The inductive invariant.                                                *)

\* Every state of the metadata of n that is held somewhere.
Known(n) ==
    {NoEntry, file.items[n]}
    \cup {AsEntry(meta[d][n]) : d \in Device}
    \cup {AsEntry(run[d].all[n]) : d \in Device}

\* A stamp identifies what was set at that time ...
Stamps ==
    \A n \in Note : \A x \in Known(n) :
      /\ x.at <= now
      /\ \A y \in Known(n) : x.at = y.at => x = y

SyncedPresent ==
    \A d \in Device, n \in Note : meta[d][n].synced => Present(meta[d][n])

FileShape ==
    /\ file.kind = "none" => file.items = NoEntries
    /\ file.kind = "bad" => ~intact
    /\ \A n \in Note : Present(file.items[n]) => <<n, file.items[n]>> \in sent

\* ... while its condition would let the PUT of d through, what d will send is
\* the file's state or later ...
Covers(rows) ==
    \A n \in Note : rows[n].at > file.items[n].at \/ AsEntry(rows[n]) = file.items[n]

Uploading(d) ==
    (pc[d] \in {"read", "put"} /\ CasHolds(d) /\ intact) =>
      Covers(IF pc[d] = "read" THEN meta[d] ELSE run[d].all)

\* ... and what it is about to mark was sent and is in the file.
Marking(d) ==
    pc[d] = "mark" =>
      \A n \in Note : Present(run[d].all[n]) =>
        /\ <<n, AsEntry(run[d].all[n])>> \in sent
        /\ intact => Carries(n, run[d].all[n])

MetaInv ==
    /\ Stamps
    /\ SyncedPresent
    /\ FileShape
    /\ \A d \in Device : Uploading(d) /\ Marking(d)
    /\ CasKeepsPublished
    /\ TombstonesReported
    /\ SyncedSent

LEMMA EntryFacts ==
    ASSUME TypeOK, NEW n \in Note
    PROVE  /\ file.items[n] \in Entry
           /\ \A d \in Device : /\ meta[d][n] \in Row
                                /\ run[d].all[n] \in Row
                                /\ AsEntry(meta[d][n]) \in Entry
                                /\ AsEntry(run[d].all[n]) \in Entry
           /\ \A r \in Row : AsEntry(r).at = r.at
           /\ \A x \in Entry : x.at \in Nat /\ AsEntry(Adopt(x)) = x
           /\ now \in Nat
<1>1. file.items[n] \in Entry /\ now \in Nat
  BY DEF TypeOK, Time
<1>2. \A d \in Device : meta[d][n] \in Row /\ run[d].all[n] \in Row
  BY DEF TypeOK, Run
<1>3. \A r \in Row : AsEntry(r).at = r.at
  BY DEF AsEntry
<1>4. \A x \in Entry : x.at \in Nat /\ AsEntry(Adopt(x)) = x
  BY DEF Entry, Time, AsEntry, Adopt
<1> QED
  BY <1>1, <1>2, <1>3, <1>4, Values

LEMMA EmptyFacts ==
    /\ AsEntry(NoRow) = NoEntry /\ ~NoRow.synced
    /\ \A n \in Note : AsEntry(NoRows[n]) = NoEntry /\ AsEntry(IdleRun.all[n]) = NoEntry
  BY DEF AsEntry, NoRow, NoEntry, NoRows, IdleRun

LEMMA MetaInit == Init => MetaInv
<1> SUFFICES ASSUME Init PROVE MetaInv
  OBVIOUS
<1>0. TypeOK
  BY TypeInit
<1>1. PICK S \in SUBSET Note : Start(S)
  BY DEF Init
<1> DEFINE seed == [n \in Note |-> IF n \in S THEN [NoRow EXCEPT !.at = 1, !.synced = TRUE]
                                          ELSE NoRow]
           first == [at |-> 1, deleted |-> FALSE, tags |-> 0]
<1>2. /\ meta = [d \in Device |-> IF d \in Joining THEN NoRows ELSE seed]
      /\ file = [kind |-> IF S = {} THEN "none" ELSE "ok", items |-> Wire(seed)]
      /\ now = 1
      /\ sent = {<<n, AsEntry(seed[n])>> : n \in S}
  BY <1>1 DEF Start
<1>3. \A n \in Note : /\ seed[n].synced => n \in S /\ seed[n].at = 1
                      /\ AsEntry(seed[n]) = (IF n \in S THEN first ELSE NoEntry)
                      /\ AsEntry(NoRow) = NoEntry /\ NoRows[n] = NoRow /\ ~NoRow.synced
  BY DEF NoRow, NoEntry, AsEntry, NoRows
<1> HIDE DEF seed
<1>4. \A n \in Note : file.items[n] = (IF n \in S THEN first ELSE NoEntry)
  BY <1>2, <1>3 DEF Wire
<1>5. ASSUME NEW d \in Device, NEW n \in Note
      PROVE  /\ meta[d][n] \in {NoRow, seed[n]}
             /\ run[d].all[n] = NoRow
  BY <1>2, <1>3 DEF Init, IdleRun
<1>6. ASSUME NEW n \in Note, NEW x \in Known(n)
      PROVE  x = NoEntry \/ x = file.items[n]
  BY <1>3, <1>4, <1>5, <1>6 DEF Known
<1>7. Stamps
  <2>1. ASSUME NEW n \in Note PROVE file.items[n] \in {first, NoEntry}
    BY <1>4
  <2>2. first.at = 1 /\ NoEntry.at = 0
    BY DEF NoEntry
  <2> HIDE DEF first
  <2> QED BY <1>2, <1>6, <2>1, <2>2 DEF Stamps
<1>8. SyncedPresent
  BY <1>3, <1>5 DEF SyncedPresent, Present
<1>9. FileShape
  <2>1. file.kind = "none" => file.items = NoEntries
    <3>1. CASE S = {}
      BY <1>2, <1>3, <3>1 DEF Wire, NoEntries
    <3> QED BY <1>2, <3>1
  <2>2. ASSUME NEW n \in Note, Present(file.items[n]) PROVE <<n, file.items[n]>> \in sent
    <3>1. n \in S
      BY <1>4, <2>2 DEF Present, NoEntry
    <3> QED BY <1>2, <1>3, <1>4, <3>1
  <2>3. file.kind # "bad"
    BY <1>2
  <2> QED BY <2>1, <2>2, <2>3 DEF FileShape
<1>10. ASSUME NEW d \in Device, NEW n \in Note, meta[d][n].synced
       PROVE  AsEntry(meta[d][n]) = file.items[n] /\ <<n, AsEntry(meta[d][n])>> \in sent
  BY <1>2, <1>3, <1>4, <1>5, <1>10
<1>11. ASSUME NEW d \in Device PROVE Uploading(d) /\ Marking(d)
  BY DEF Init, Uploading, Marking
<1> QED
  BY <1>7, <1>8, <1>9, <1>10, <1>11
  DEF Init, MetaInv, CasKeepsPublished, Carries, TombstonesReported, SyncedSent

-----------------------------------------------------------------------------
(* Steps of one device that leave the file alone.                          *)

\* What such a step must establish for the rows of d.
DeviceStep(d) ==
    /\ UNCHANGED <<file, now, sent, intact, gone>>
    /\ \A e \in Device \ {d} :
         /\ meta'[e] = meta[e] /\ etagOk'[e] = etagOk[e]
         /\ pc'[e] = pc[e] /\ run'[e] = run[e]
    /\ \A n \in Note :
         /\ AsEntry(meta'[d][n]) \in Known(n)
         /\ AsEntry(run'[d].all[n]) \in Known(n)
         /\ meta'[d][n].synced =>
              /\ Present(meta'[d][n])
              /\ <<n, AsEntry(meta'[d][n])>> \in sent
              /\ intact => Carries(n, meta'[d][n])
         /\ n \in gone[d] /\ intact => Present(meta'[d][n]) \/ Present(file.items[n])

LEMMA DeviceStepInv ==
    ASSUME TypeOK, MetaInv, NEW d \in Device, DeviceStep(d), Uploading(d)', Marking(d)'
    PROVE  MetaInv'
<1>1. ASSUME NEW n \in Note PROVE Known(n)' \subseteq Known(n)
  BY DEF DeviceStep, Known
<1>2. Stamps'
  BY <1>1 DEF MetaInv, Stamps, DeviceStep
<1>3. ASSUME NEW e \in Device, NEW n \in Note
      PROVE  /\ meta'[e][n].synced =>
                   /\ Present(meta'[e][n])
                   /\ <<n, AsEntry(meta'[e][n])>> \in sent
                   /\ intact => Carries(n, meta'[e][n])
             /\ n \in gone[e] /\ intact => Present(meta'[e][n]) \/ Present(file.items[n])
  BY DEF MetaInv, SyncedPresent, SyncedSent, CasKeepsPublished, TombstonesReported, DeviceStep
<1>4. ASSUME NEW e \in Device PROVE Uploading(e)' /\ Marking(e)'
  BY DEF MetaInv, DeviceStep, Uploading, Marking, CasHolds, Covers, Carries
<1>5. FileShape'
  BY DEF MetaInv, FileShape, DeviceStep
<1>6. SyncedPresent' /\ SyncedSent'
  BY <1>3 DEF SyncedPresent, SyncedSent, DeviceStep
<1>7. CasKeepsPublished'
  BY <1>3 DEF CasKeepsPublished, Carries, DeviceStep
<1>8. TombstonesReported'
  BY <1>3 DEF TombstonesReported, DeviceStep, TypeOK
<1> QED
  BY <1>2, <1>4, <1>5, <1>6, <1>7, <1>8 DEF MetaInv

LEMMA DownloadInv ==
    ASSUME TypeOK, MetaInv, NEW d \in Device, NEW items \in [Note -> Entry], NEW r \in Run,
           Download(d, items, r), r.all \in {NoRows, run[d].all},
           \/ items = file.items /\ file.kind = "ok" /\ ~r.create
           \/ items = NoEntries /\ r.create
           \/ items = NoEntries /\ file.kind = "bad" /\ ~r.create
    PROVE  MetaInv'
<1>1. /\ UNCHANGED <<file, now, sent, intact, gone>>
      /\ meta' = [meta EXCEPT ![d] = Merged(@, items)]
      /\ pc' = [pc EXCEPT ![d] = "read"] /\ run' = [run EXCEPT ![d] = r]
      /\ etagOk' = [etagOk EXCEPT ![d] = ~r.create]
  BY DEF Download, Move, user_vars
<1>2. /\ \A e \in Device \ {d} :
           /\ meta'[e] = meta[e] /\ etagOk'[e] = etagOk[e]
           /\ pc'[e] = pc[e] /\ run'[e] = run[e]
      /\ pc'[d] = "read" /\ run'[d] = r /\ etagOk'[d] = ~r.create
      /\ meta'[d] = Merged(meta[d], items)
  BY <1>1 DEF TypeOK
<1>3. ASSUME NEW n \in Note
      PROVE  /\ items[n] \in {NoEntry, file.items[n]}
             /\ items[n] \in Known(n) /\ AsEntry(meta[d][n]) \in Known(n)
             /\ AsEntry(r.all[n]) \in Known(n)
             /\ items[n] \in Entry /\ meta[d][n] \in Row
             /\ AsEntry(meta[d][n]).at = meta[d][n].at
             /\ AsEntry(NoRow) = NoEntry
  <2>1. items[n] \in {NoEntry, file.items[n]} /\ items[n] \in Entry
    BY DEF NoEntries
  <2>2. AsEntry(NoRow) = NoEntry
    BY DEF AsEntry, NoRow, NoEntry
  <2>3. AsEntry(r.all[n]) \in {NoEntry, AsEntry(run[d].all[n])}
    BY <2>2 DEF NoRows
  <2> QED BY <2>1, <2>2, <2>3, EntryFacts DEF Known
<1>4. ASSUME NEW n \in Note, items[n].at > meta[d][n].at
      PROVE  /\ meta'[d][n] = Adopt(items[n])
             /\ AsEntry(meta'[d][n]) = items[n] /\ meta'[d][n].at = items[n].at
             /\ Present(meta'[d][n]) /\ items[n] = file.items[n] /\ Present(file.items[n])
  <2>1. meta'[d][n] = Adopt(items[n])
    BY <1>2, <1>4 DEF Merged, RemoteWins
  <2>2. items[n].at \in Nat /\ meta[d][n].at \in Nat /\ items[n].at # 0
    BY <1>3, <1>4 DEF Entry, Row, Time
  <2>3. items[n] = file.items[n]
    BY <1>3, <2>2 DEF NoEntry
  <2> QED BY <2>1, <2>2, <2>3, <1>3, EntryFacts DEF Adopt, Present
<1>5. ASSUME NEW n \in Note, ~(items[n].at > meta[d][n].at)
      PROVE  meta'[d][n] = meta[d][n]
  BY <1>2, <1>5 DEF Merged, RemoteWins
<1>6. DeviceStep(d)
  <2>1. ASSUME NEW n \in Note
        PROVE  /\ AsEntry(meta'[d][n]) \in Known(n)
               /\ meta'[d][n].synced =>
                    /\ Present(meta'[d][n])
                    /\ <<n, AsEntry(meta'[d][n])>> \in sent
                    /\ intact => Carries(n, meta'[d][n])
               /\ n \in gone[d] /\ intact => Present(meta'[d][n]) \/ Present(file.items[n])
    <3>1. CASE items[n].at > meta[d][n].at
      BY <1>3, <1>4, <3>1 DEF MetaInv, FileShape, Carries
    <3>2. CASE ~(items[n].at > meta[d][n].at)
      BY <1>3, <1>5, <3>2 DEF MetaInv, SyncedPresent, SyncedSent, CasKeepsPublished, TombstonesReported
    <3> QED BY <3>1, <3>2
  <2> QED BY <1>1, <1>2, <1>3, <2>1 DEF DeviceStep
<1>7. Uploading(d)'
  <2> SUFFICES ASSUME CasHolds(d)'
               PROVE  intact => Covers(meta'[d])
    BY <1>1, <1>2 DEF Uploading, Covers
  <2>1. IF r.create THEN file.kind = "none" ELSE file.kind \in {"ok", "bad"}
    BY <1>1, <1>2 DEF CasHolds
  <2>2. ASSUME intact, NEW n \in Note
        PROVE  meta'[d][n].at > file.items[n].at \/ AsEntry(meta'[d][n]) = file.items[n]
    <3>1. items = file.items
      BY <2>1, <2>2 DEF MetaInv, FileShape
    <3>2. CASE items[n].at > meta[d][n].at
      BY <1>4, <3>1, <3>2
    <3>3. CASE ~(items[n].at > meta[d][n].at)
      <4>1. meta[d][n].at = items[n].at => AsEntry(meta[d][n]) = items[n]
        BY <1>3 DEF MetaInv, Stamps
      <4>2. meta[d][n].at \in Nat /\ items[n].at \in Nat
        BY <1>3 DEF Entry, Row, Time
      <4> QED BY <1>5, <3>1, <3>3, <4>1, <4>2
    <3> QED BY <3>2, <3>3
  <2> QED BY <2>1, <2>2 DEF Covers
<1>8. Marking(d)'
  BY <1>2 DEF Marking
<1> QED
  BY <1>6, <1>7, <1>8, DeviceStepInv

LEMMA AnswerShape ==
    ASSUME NEW kind, Answer(kind)
    PROVE  kind = file.kind \/ kind = "none"
  BY DEF Answer

\* A step in the middle of the round of d that leaves its rows alone.
LEMMA MoveInv ==
    ASSUME TypeOK, MetaInv, NEW d \in Device, NEW s, NEW r, Move(d, s, r),
           UNCHANGED <<meta, file, now, sent, intact, gone, etagOk>>,
           r.all \in {NoRows, run[d].all, meta[d]},
           s # "mark", s # "read",
           s = "put" => pc[d] = "read" /\ r.create = run[d].create /\ r.all = meta[d]
    PROVE  MetaInv'
<1>1. /\ \A e \in Device \ {d} :
           /\ meta'[e] = meta[e] /\ etagOk'[e] = etagOk[e]
           /\ pc'[e] = pc[e] /\ run'[e] = run[e]
      /\ pc'[d] = s /\ run'[d] = r
  BY DEF TypeOK, Move
<1>2. ASSUME NEW n \in Note PROVE AsEntry(r.all[n]) \in Known(n)
  BY EmptyFacts DEF Known
<1>3. DeviceStep(d)
  <2>1. ASSUME NEW n \in Note
        PROVE  /\ AsEntry(meta'[d][n]) \in Known(n)
               /\ meta'[d][n].synced =>
                    /\ Present(meta'[d][n])
                    /\ <<n, AsEntry(meta'[d][n])>> \in sent
                    /\ intact => Carries(n, meta'[d][n])
               /\ n \in gone[d] /\ intact => Present(meta'[d][n]) \/ Present(file.items[n])
    BY DEF Known, MetaInv, SyncedPresent, SyncedSent, CasKeepsPublished, TombstonesReported
  <2> QED BY <1>1, <1>2, <2>1 DEF DeviceStep
<1>4. Uploading(d)'
  BY <1>1 DEF MetaInv, Uploading, CasHolds, Covers
<1>5. Marking(d)'
  BY <1>1 DEF Marking
<1> QED
  BY <1>3, <1>4, <1>5, DeviceStepInv

LEMMA MarkInv ==
    ASSUME TypeOK, MetaInv, NEW d \in Device, MarkSynced(d) PROVE MetaInv'
<1>1. /\ UNCHANGED <<file, now, sent, intact, gone>>
      /\ \A e \in Device \ {d} :
           /\ meta'[e] = meta[e] /\ etagOk'[e] = etagOk[e]
           /\ pc'[e] = pc[e] /\ run'[e] = run[e]
      /\ pc'[d] = "purge" /\ run'[d] = IdleRun
      /\ meta'[d] = [n \in Note |-> Marked(meta[d][n], run[d].all[n])]
  BY DEF MarkSynced, Move, TypeOK, user_vars
<1>2. ASSUME NEW n \in Note
      PROVE  /\ AsEntry(meta'[d][n]) = AsEntry(meta[d][n])
             /\ meta'[d][n].at = meta[d][n].at
             /\ AsEntry(run'[d].all[n]) = NoEntry
             /\ meta'[d][n].synced =>
                  \/ meta[d][n].synced
                  \/ Present(run[d].all[n]) /\ meta[d][n].at = run[d].all[n].at
  <2>1. meta'[d][n] = Marked(meta[d][n], run[d].all[n]) /\ meta[d][n] \in Row
    BY <1>1, EntryFacts
  <2>2. AsEntry(run'[d].all[n]) = NoEntry
    BY <1>1, EmptyFacts
  <2> QED BY <2>1, <2>2 DEF Marked, AsEntry, Row
<1>3. ASSUME NEW n \in Note, meta'[d][n].synced
      PROVE  /\ Present(meta'[d][n])
             /\ <<n, AsEntry(meta'[d][n])>> \in sent
             /\ intact => Carries(n, meta'[d][n])
  <2>1. CASE meta[d][n].synced
    BY <1>2, <2>1 DEF MetaInv, SyncedPresent, SyncedSent, CasKeepsPublished, Present, Carries
  <2>2. CASE Present(run[d].all[n]) /\ meta[d][n].at = run[d].all[n].at
    <3>1. AsEntry(meta[d][n]) = AsEntry(run[d].all[n])
      <4>1. /\ AsEntry(meta[d][n]) \in Known(n) /\ AsEntry(run[d].all[n]) \in Known(n)
            /\ AsEntry(meta[d][n]).at = AsEntry(run[d].all[n]).at
        BY <2>2, EntryFacts DEF Known
      <4> QED BY <4>1 DEF MetaInv, Stamps
    <3>2. /\ <<n, AsEntry(run[d].all[n])>> \in sent
          /\ intact => Carries(n, run[d].all[n])
      BY <2>2 DEF MetaInv, Marking, MarkSynced
    <3> QED BY <1>2, <2>2, <3>1, <3>2 DEF Present, Carries
  <2> QED BY <1>2, <1>3, <2>1, <2>2
<1>4. DeviceStep(d)
  <2>1. ASSUME NEW n \in Note
        PROVE  /\ AsEntry(meta'[d][n]) \in Known(n) /\ AsEntry(run'[d].all[n]) \in Known(n)
               /\ n \in gone[d] /\ intact => Present(meta'[d][n]) \/ Present(file.items[n])
    BY <1>2 DEF Known, MetaInv, TombstonesReported, Present
  <2> QED BY <1>1, <1>3, <2>1 DEF DeviceStep
<1>5. Uploading(d)' /\ Marking(d)'
  BY <1>1 DEF Uploading, Marking
<1> QED
  BY <1>4, <1>5, DeviceStepInv

LEMMA PurgeInv ==
    ASSUME TypeOK, MetaInv, NEW d \in Device, Purge(d) PROVE MetaInv'
<1>1. /\ UNCHANGED <<file, now, sent, intact, gone>>
      /\ \A e \in Device \ {d} :
           /\ meta'[e] = meta[e] /\ etagOk'[e] = etagOk[e]
           /\ pc'[e] = pc[e] /\ run'[e] = run[e]
      /\ pc'[d] = "idle" /\ run'[d] = IdleRun
      /\ meta'[d] = [n \in Note |-> IF Purgeable(meta[d][n]) THEN NoRow ELSE meta[d][n]]
  BY DEF Purge, EndRound, Move, TypeOK, user_vars
<1>2. ASSUME NEW n \in Note
      PROVE  /\ \/ meta'[d][n] = meta[d][n]
                \/ meta'[d][n] = NoRow /\ meta[d][n].synced
             /\ AsEntry(NoRow) = NoEntry /\ ~NoRow.synced
             /\ AsEntry(run'[d].all[n]) = NoEntry
  BY <1>1, EmptyFacts DEF Purgeable
<1>3. ASSUME NEW n \in Note, n \in gone[d], intact
      PROVE  Present(meta'[d][n]) \/ Present(file.items[n])
  <2>1. CASE meta'[d][n] = meta[d][n]
    BY <1>3, <2>1 DEF MetaInv, TombstonesReported
  <2>2. CASE meta[d][n].synced
    <3>1. Present(meta[d][n]) /\ Carries(n, meta[d][n])
      BY <1>3, <2>2 DEF MetaInv, SyncedPresent, CasKeepsPublished
    <3>2. meta[d][n].at \in Nat /\ file.items[n].at \in Nat /\ AsEntry(meta[d][n]).at = meta[d][n].at
      BY EntryFacts DEF Row, Time
    <3> QED BY <3>1, <3>2 DEF Present, Carries
  <2> QED BY <1>2, <2>1, <2>2
<1>4. DeviceStep(d)
  <2>1. ASSUME NEW n \in Note
        PROVE  /\ AsEntry(meta'[d][n]) \in Known(n) /\ AsEntry(run'[d].all[n]) \in Known(n)
               /\ meta'[d][n].synced =>
                    /\ Present(meta'[d][n])
                    /\ <<n, AsEntry(meta'[d][n])>> \in sent
                    /\ intact => Carries(n, meta'[d][n])
    BY <1>2 DEF Known, MetaInv, SyncedPresent, SyncedSent, CasKeepsPublished
  <2> QED BY <1>1, <1>3, <2>1 DEF DeviceStep
<1>5. Uploading(d)' /\ Marking(d)'
  BY <1>1 DEF Uploading, Marking
<1> QED
  BY <1>4, <1>5, DeviceStepInv

-----------------------------------------------------------------------------
(* Steps that change the file.                                             *)

\* The file only moves forward, unless it is damaged or replaced unread.
FileGrowth ==
    intact' => /\ intact
               /\ \A n \in Note : \/ file'.items[n].at > file.items[n].at
                                  \/ file'.items[n] = file.items[n]

\* A step that leaves the tables alone and invalidates every ETag.
FileStep ==
    /\ UNCHANGED <<meta, now, gone>>
    /\ etagOk' = [e \in Device |-> FALSE]
    /\ file'.kind # "none"
    /\ sent \subseteq sent'
    /\ FileGrowth
    /\ \A n \in Note : file'.items[n] \in Known(n)
    /\ \A e \in Device, n \in Note : AsEntry(run'[e].all[n]) \in Known(n)

LEMMA FileStepInv ==
    ASSUME TypeOK, MetaInv, FileStep, FileShape',
           \A e \in Device : \/ pc'[e] = pc[e] /\ run'[e] = run[e]
                             \/ pc'[e] \notin {"read", "put"} /\ Marking(e)'
    PROVE  MetaInv'
<1>1. Stamps'
  <2>1. ASSUME NEW n \in Note PROVE Known(n)' \subseteq Known(n)
    BY DEF FileStep, Known
  <2> QED BY <2>1 DEF MetaInv, Stamps, FileStep
<1>2. ASSUME intact', NEW n \in Note, NEW r \in Row, Carries(n, r) PROVE Carries(n, r)'
  <2>1. \/ file'.items[n].at > file.items[n].at
        \/ file'.items[n] = file.items[n]
    BY <1>2 DEF FileStep, FileGrowth
  <2>2. file.items[n].at \in Nat /\ r.at \in Nat /\ AsEntry(r).at = r.at
    BY EntryFacts DEF Row, Time
  <2>3. file.items[n].at >= r.at
    BY <1>2, <2>2 DEF Carries
  <2>4. file'.items[n] \in Entry
    <3>1. Known(n) \subseteq Entry
      BY EntryFacts, Values DEF Known
    <3> QED BY <3>1 DEF FileStep
  <2>5. file'.items[n].at \in Nat
    BY <2>4 DEF Entry, Time
  <2> QED BY <1>2, <2>1, <2>2, <2>3, <2>5 DEF Carries
<1>3. ASSUME NEW e \in Device PROVE Uploading(e)' /\ Marking(e)'
  <2>1. CASE pc'[e] = pc[e] /\ run'[e] = run[e]
    <3>1. ~CasHolds(e)'
      BY <2>1 DEF FileStep, CasHolds
    <3>2. Marking(e)'
      BY <1>2, <2>1, EntryFacts DEF MetaInv, Marking, FileStep, FileGrowth
    <3> QED BY <3>1, <3>2 DEF Uploading
  <2>2. CASE pc'[e] \notin {"read", "put"} /\ Marking(e)'
    BY <2>2 DEF Uploading
  <2> QED BY <2>1, <2>2
<1>4. SyncedPresent' /\ SyncedSent'
  BY DEF MetaInv, SyncedPresent, SyncedSent, FileStep
<1>5. CasKeepsPublished'
  BY <1>2, EntryFacts DEF MetaInv, CasKeepsPublished, FileStep, FileGrowth
<1>6. TombstonesReported'
  <2> SUFFICES ASSUME intact', NEW d \in Device, NEW n \in gone[d], ~Present(meta[d][n])
               PROVE  Present(file'.items[n])
    BY DEF TombstonesReported, FileStep
  <2>1. n \in Note /\ file.items[n].at \in Nat /\ Present(file.items[n])
    BY EntryFacts DEF MetaInv, TombstonesReported, FileStep, FileGrowth, TypeOK
  <2> QED BY <2>1 DEF FileStep, FileGrowth, Present
<1> QED
  BY <1>1, <1>3, <1>4, <1>5, <1>6 DEF MetaInv

\* A PUT whose rows are not behind the file, as far as the file is intact.
LEMMA StoreInv ==
    ASSUME TypeOK, MetaInv, NEW d \in Device, StoreFile(run[d].all),
           UNCHANGED <<meta, now, gone>>,
           \/ Move(d, "mark", run[d])
           \/ EndRound(d),
           intact' => intact /\ Covers(run[d].all)
    PROVE  MetaInv' /\ FileGrowth
<1>1. /\ file' = [kind |-> "ok", items |-> Wire(run[d].all)]
      /\ etagOk' = [e \in Device |-> FALSE]
      /\ sent' = sent \cup {<<n, AsEntry(run[d].all[n])>> : n \in Note}
  BY DEF StoreFile
<1>2. ASSUME NEW n \in Note
      PROVE  file'.items[n] = AsEntry(run[d].all[n]) /\ <<n, file'.items[n]>> \in sent'
  BY <1>1 DEF Wire
<1>3. /\ \A e \in Device \ {d} : pc'[e] = pc[e] /\ run'[e] = run[e]
      /\ \/ pc'[d] = "mark" /\ run'[d] = run[d]
         \/ pc'[d] = "idle" /\ run'[d] = IdleRun
  BY DEF EndRound, Move, TypeOK
<1>4. FileGrowth
  BY <1>2, EntryFacts DEF FileGrowth, Covers
<1>5. FileStep
  <2>1. \A e \in Device, n \in Note : AsEntry(run'[e].all[n]) \in Known(n)
    BY <1>3, EmptyFacts DEF Known
  <2>2. \A n \in Note : file'.items[n] \in Known(n)
    BY <1>2 DEF Known
  <2>3. file'.kind # "none" /\ sent \subseteq sent'
    BY <1>1
  <2> QED BY <1>1, <1>4, <2>1, <2>2, <2>3 DEF FileStep
<1>6. FileShape'
  BY <1>1, <1>2 DEF FileShape
<1>7. ASSUME NEW e \in Device
      PROVE  \/ pc'[e] = pc[e] /\ run'[e] = run[e]
             \/ pc'[e] \notin {"read", "put"} /\ Marking(e)'
  <2>1. CASE e # d
    BY <1>3, <2>1
  <2>2. CASE pc'[d] = "mark" /\ run'[d] = run[d]
    <3>1. \A n \in Note : Carries(n, run[d].all[n])'
      BY <1>2, <2>2 DEF Carries
    <3>2. Marking(d)'
      BY <1>2, <2>2, <3>1 DEF Marking
    <3> QED BY <2>1, <2>2, <3>2
  <2>3. CASE pc'[d] = "idle"
    BY <2>1, <2>3 DEF Marking
  <2> QED BY <1>3, <2>1, <2>2, <2>3
<1> QED
  BY <1>4, <1>5, <1>6, <1>7, FileStepInv

LEMMA PutInv ==
    ASSUME TypeOK, MetaInv, NEW d \in Device, Put(d)
    PROVE  MetaInv' /\ FileGrowth
<1>1. Uploading(d)
  BY DEF MetaInv
<1>2. intact => Covers(run[d].all)
  BY <1>1 DEF Put, Uploading
<1> QED
  BY <1>2, StoreInv DEF Put, user_vars

LEMMA JoinPutInv ==
    ASSUME TypeOK, MetaInv, NEW d \in Device, JoinPut(d)
    PROVE  MetaInv' /\ FileGrowth
<1>1. intact' => intact /\ file.kind = "none"
  BY DEF JoinPut, TypeOK
<1>2. ASSUME intact' PROVE Covers(run[d].all)
  <2>1. file.items = NoEntries
    BY <1>1, <1>2 DEF MetaInv, FileShape
  <2> SUFFICES ASSUME NEW n \in Note
               PROVE  run[d].all[n].at > file.items[n].at \/ AsEntry(run[d].all[n]) = file.items[n]
    BY DEF Covers
  <2>2. file.items[n] = NoEntry /\ NoEntry.at = 0
    BY <2>1 DEF NoEntries, NoEntry
  <2>3. run[d].all[n].at \in Nat /\ AsEntry(run[d].all[n]).at = run[d].all[n].at
    BY EntryFacts DEF Row, Time
  <2>4. AsEntry(run[d].all[n]).at = NoEntry.at => AsEntry(run[d].all[n]) = NoEntry
    BY DEF MetaInv, Stamps, Known
  <2> QED BY <2>2, <2>3, <2>4
<1> QED
  BY <1>1, <1>2, StoreInv DEF JoinPut, user_vars

LEMMA DamageInv ==
    ASSUME TypeOK, MetaInv, Damage PROVE MetaInv' /\ ~intact'
<1>1. /\ UNCHANGED <<meta, pc, run, sent, now, gone>>
      /\ file' = [kind |-> "bad", items |-> NoEntries]
      /\ etagOk' = [d \in Device |-> FALSE] /\ intact' = FALSE
  BY DEF Damage, user_vars
<1>2. \A n \in Note : file'.items[n] = NoEntry
  BY <1>1 DEF NoEntries
<1>3. FileStep
  BY <1>1, <1>2 DEF FileStep, FileGrowth, Known
<1>4. FileShape'
  BY <1>1, <1>2 DEF FileShape, Present, NoEntry
<1> QED
  BY <1>1, <1>3, <1>4, FileStepInv

LEMMA UpgradeInv ==
    ASSUME TypeOK, MetaInv, Upgrade
    PROVE  MetaInv' /\ FileGrowth
<1>1. /\ UNCHANGED <<meta, pc, run, sent, now, gone, intact>>
      /\ file'.kind = "future" /\ file'.items = file.items
      /\ etagOk' = [d \in Device |-> FALSE]
  BY DEF Upgrade, user_vars, TypeOK
<1>2. FileStep
  <2>1. FileGrowth
    BY <1>1 DEF FileGrowth
  <2> QED BY <1>1, <2>1 DEF FileStep, Known
<1>3. FileShape'
  BY <1>1 DEF MetaInv, FileShape
<1> QED
  BY <1>1, <1>2, <1>3, FileStepInv DEF FileStep

-----------------------------------------------------------------------------
(* The user's calls.                                                       *)

\* A row is stamped with a time no other row has.
LEMMA StampInv ==
    ASSUME TypeOK, MetaInv, NEW d \in Device, NEW n \in Note, NEW r \in Row,
           now' = now + 1, r.at = now + 1, ~r.synced,
           meta' = [meta EXCEPT ![d][n] = r],
           UNCHANGED <<file, pc, run, etagOk, sent, intact>>,
           \A e \in Device : gone'[e] \subseteq gone[e] \cup (IF e = d THEN {n} ELSE {})
    PROVE  MetaInv'
<1>1. meta'[d][n] = r /\ \A e \in Device, m \in Note : (e # d \/ m # n) => meta'[e][m] = meta[e][m]
  BY DEF TypeOK
<1>2. Present(r) /\ AsEntry(r).at = now + 1 /\ now \in Nat
  BY EntryFacts DEF Present
<1>3. ASSUME NEW m \in Note, NEW x \in Known(m) PROVE x.at <= now /\ x.at \in Nat
  <2>1. x \in Entry
    BY EntryFacts, Values DEF Known
  <2> QED BY <2>1 DEF MetaInv, Stamps, Entry, Time
<1>4. ASSUME NEW m \in Note PROVE Known(m)' \subseteq Known(m) \cup (IF m = n THEN {AsEntry(r)} ELSE {})
  BY <1>1 DEF Known
<1>5. Stamps'
  <2> SUFFICES ASSUME NEW m \in Note, NEW x \in Known(m)'
               PROVE  x.at <= now' /\ \A y \in Known(m)' : x.at = y.at => x = y
    BY DEF Stamps
  <2>1. ASSUME NEW z \in Known(m)'
        PROVE  \/ z \in Known(m) /\ z.at <= now /\ z.at \in Nat
               \/ z = AsEntry(r) /\ z.at = now + 1
    BY <1>2, <1>3, <1>4, <2>1
  <2>2. x.at <= now'
    BY <1>2, <2>1
  <2>3. ASSUME NEW y \in Known(m)', x.at = y.at PROVE x = y
    <3>1. CASE x \in Known(m) /\ y \in Known(m)
      BY <2>3, <3>1 DEF MetaInv, Stamps
    <3>2. CASE x = AsEntry(r) /\ y = AsEntry(r)
      BY <3>2
    <3> QED BY <1>2, <2>1, <2>3, <3>1, <3>2
  <2> QED BY <2>2, <2>3
<1>6. ASSUME NEW e \in Device PROVE Uploading(e)' /\ Marking(e)'
  <2>1. Marking(e)'
    BY DEF MetaInv, Marking, Carries
  <2>2. ASSUME Covers(meta[e]) PROVE Covers(meta'[e])
    <3>1. \A m \in Note : file.items[m].at < now + 1
      BY <1>2, <1>3 DEF Known
    <3> QED BY <1>1, <2>2, <3>1 DEF Covers
  <2>3. Uploading(e)'
    <3>1. CasHolds(e)' <=> CasHolds(e)
      BY DEF CasHolds
    <3>2. Covers(meta[e])' <=> Covers(meta'[e])
      BY DEF Covers
    <3>3. Covers(run[e].all)' <=> Covers(run[e].all)
      BY DEF Covers
    <3> QED BY <2>2, <3>1, <3>2, <3>3 DEF MetaInv, Uploading
  <2> QED BY <2>1, <2>3
<1>7. FileShape'
  BY DEF MetaInv, FileShape
<1>8. ASSUME NEW e \in Device, NEW m \in Note, meta'[e][m].synced
      PROVE  meta'[e][m] = meta[e][m]
  BY <1>1, <1>8
<1>9. SyncedPresent' /\ SyncedSent' /\ CasKeepsPublished'
  BY <1>8 DEF MetaInv, SyncedPresent, SyncedSent, CasKeepsPublished, Carries
<1>10. TombstonesReported'
  BY <1>1, <1>2 DEF MetaInv, TombstonesReported, TypeOK
<1> QED
  BY <1>5, <1>6, <1>7, <1>9, <1>10 DEF MetaInv

LEMMA UserInv ==
    ASSUME TypeOK, TypeOK', MetaInv, Skew = FALSE, NEW d \in Device, User(d) \/ FinishSetter(d)
    PROVE  MetaInv' /\ UNCHANGED file
<1>0. ASSUME NEW n \in Note, meta'[d][n].at = now + 1, ~meta'[d][n].synced, now' = now + 1,
             meta' = [meta EXCEPT ![d][n] = meta'[d][n]],
             UNCHANGED engine_vars,
             \A e \in Device : gone'[e] \subseteq gone[e] \cup (IF e = d THEN {n} ELSE {})
      PROVE  MetaInv' /\ UNCHANGED file
  <2>1. meta'[d][n] \in Row
    BY DEF TypeOK
  <2> QED BY <1>0, <2>1, StampInv DEF engine_vars
<1>1. ASSUME NEW t \in Time, ReadClock(t) PROVE t = now + 1 /\ now' = now + 1
  BY <1>1, EntryFacts DEF ReadClock, TypeOK, Time
<1>2. ASSUME NEW n \in Note, NEW f \in Fields, ReadRow(d, n, f)
      PROVE  MetaInv' /\ UNCHANGED file
  <2>1. UNCHANGED <<meta, now, gone, engine_vars>>
    BY <1>2 DEF ReadRow
  <2> QED
    BY <2>1 DEF engine_vars, MetaInv, Stamps, Known, SyncedPresent, FileShape, Uploading,
                Covers, CasHolds, Marking, Carries, CasKeepsPublished, TombstonesReported, SyncedSent
<1>3. ASSUME NEW s \in setting[d], WriteRow(d, s) PROVE MetaInv' /\ UNCHANGED file
  <2>1. PICK t \in Time : /\ ReadClock(t)
                          /\ meta' = [meta EXCEPT ![d][s.note] =
                                [s.row EXCEPT ![s.field] = s.value, !.at = t, !.synced = FALSE]]
    BY <1>3 DEF WriteRow
  <2> DEFINE r == [s.row EXCEPT ![s.field] = s.value, !.at = t, !.synced = FALSE]
  <2>2. s \in Setter
    BY DEF TypeOK
  <2>3. s.note \in Note /\ s.field \in {"tags", "locked"} /\ s.row \in Row
    BY <2>2, ScopeAssumption DEF Setter, AllFields
  <2>4. r.at = t /\ r.synced = FALSE
    BY <2>3 DEF Row
  <2>5. meta'[d][s.note] = r
    BY <2>1, <2>3 DEF TypeOK
  <2>6. gone' = gone /\ UNCHANGED engine_vars
    BY <1>3 DEF WriteRow
  <2> HIDE DEF r
  <2>7. meta' = [meta EXCEPT ![d][s.note] = meta'[d][s.note]]
    BY <2>1, <2>5 DEF r
  <2> QED BY <1>0, <1>1, <2>1, <2>3, <2>4, <2>5, <2>6, <2>7
<1>4. ASSUME NEW n \in Note, HardDelete(d, n) PROVE MetaInv' /\ UNCHANGED file
  <2>1. PICK t \in Time : /\ ReadClock(t)
                          /\ meta' = [meta EXCEPT ![d][n] =
                                [NoRow EXCEPT !.at = t, !.deleted = TRUE]]
    BY <1>4 DEF HardDelete
  <2>2. meta'[d][n].at = t /\ ~meta'[d][n].synced
    BY <2>1 DEF TypeOK, NoRow
  <2>3. meta' = [meta EXCEPT ![d][n] = meta'[d][n]]
    BY <2>1 DEF TypeOK
  <2>4. \A e \in Device : gone'[e] \subseteq gone[e] \cup (IF e = d THEN {n} ELSE {})
    BY <1>4 DEF HardDelete, TypeOK
  <2>5. UNCHANGED engine_vars
    BY <1>4 DEF HardDelete
  <2> QED BY <1>0, <1>1, <2>1, <2>2, <2>3, <2>4, <2>5
<1> QED
  BY <1>2, <1>3, <1>4 DEF User, FinishSetter

-----------------------------------------------------------------------------
(* The steps of the engine together.                                       *)

LEMMA EngineInv ==
    ASSUME TypeOK, AttemptLeft, MetaInv, NEW d \in Device,
           Get(d) \/ SkipRound(d) \/ ReadAll(d) \/ PutConflict(d) \/ Refetch(d)
           \/ MarkSynced(d) \/ Purge(d) \/ JoinRead(d) \/ Abort(d)
    PROVE  MetaInv' /\ UNCHANGED file
<1> USE DEF user_vars
<1>0. IdleRun.all = NoRows /\ run[d] \in Run /\ meta[d] \in [Note -> Row]
      /\ file.items \in [Note -> Entry] /\ file.kind \in Kinds
  BY DEF IdleRun, TypeOK
<1>1. ASSUME EndRound(d), UNCHANGED <<meta, file, now, sent, intact, gone, etagOk>>
      PROVE  MetaInv' /\ UNCHANGED file
  BY <1>0, <1>1, MoveInv DEF EndRound
<1>2. CASE Get(d)
  <2>1. PICK kind \in Kinds \ {"future"} :
          /\ Answer(kind)
          /\ Download(d, IF kind = "ok" THEN file.items ELSE NoEntries,
                     [IdleRun EXCEPT !.create = (kind = "none"), !.force = (kind = "bad")])
    BY <1>2 DEF Get
  <2> DEFINE r == [IdleRun EXCEPT !.create = (kind = "none"), !.force = (kind = "bad")]
             items == IF kind = "ok" THEN file.items ELSE NoEntries
  <2>2. r \in Run /\ r.create = (kind = "none") /\ r.all = NoRows
    BY Values DEF IdleRun, Run
  <2>3. items \in [Note -> Entry]
    BY <1>0, Values
  <2>4. \/ items = file.items /\ file.kind = "ok" /\ kind # "none"
        \/ items = NoEntries /\ kind = "none"
        \/ items = NoEntries /\ file.kind = "bad" /\ kind # "none"
    BY <2>1, AnswerShape DEF Kinds
  <2>5. Download(d, items, r)
    BY <2>1
  <2>6. UNCHANGED file
    BY <2>1 DEF Download
  <2> HIDE DEF r, items
  <2> QED BY <2>2, <2>3, <2>4, <2>5, <2>6, DownloadInv
<1>3. CASE Refetch(d)
  <2>1. PICK kind \in Kinds :
          /\ Answer(kind)
          /\ IF kind \in {"bad", "future"}
             THEN EndRound(d) /\ UNCHANGED <<meta, file, etagOk, sent, intact, user_vars>>
             ELSE Download(d, IF kind = "ok" THEN file.items ELSE NoEntries,
                           [run[d] EXCEPT !.create = (kind = "none"), !.attempt = @ + 1])
    BY <1>3 DEF Refetch
  <2>2. CASE kind \in {"bad", "future"}
    BY <1>1, <2>1, <2>2
  <2>3. CASE kind \in {"ok", "none"}
    <3> DEFINE r == [run[d] EXCEPT !.create = (kind = "none"), !.attempt = @ + 1]
               items == IF kind = "ok" THEN file.items ELSE NoEntries
    <3>1. run[d].attempt + 1 \in 1 .. MetaCasMaxAttempts
      <4>1. run[d].attempt < MetaCasMaxAttempts /\ run[d].attempt \in 1 .. MetaCasMaxAttempts
        BY <1>0, <1>3 DEF Run, AttemptLeft, Refetch
      <4> QED BY <4>1 DEF MetaCasMaxAttempts
    <3>2. r \in Run /\ r.create = (kind = "none") /\ r.all = run[d].all
      <4> HIDE DEF MetaCasMaxAttempts
      <4> QED BY <1>0, <3>1 DEF Run
    <3>3. items \in [Note -> Entry]
      BY <1>0, Values
    <3>4. \/ items = file.items /\ file.kind = "ok" /\ kind # "none"
          \/ items = NoEntries /\ kind = "none"
      BY <2>1, <2>3, AnswerShape
    <3>5. Download(d, items, r)
      BY <2>1, <2>3
    <3>6. UNCHANGED file
      BY <3>5 DEF Download
    <3> HIDE DEF r, items
    <3> QED BY <3>2, <3>3, <3>4, <3>5, <3>6, DownloadInv
  <2> QED BY <2>1, <2>2, <2>3 DEF Kinds
<1>4. CASE ReadAll(d)
  <2>1. CASE Move(d, "put", [run[d] EXCEPT !.all = meta[d]])
    <3>1. [run[d] EXCEPT !.all = meta[d]].all = meta[d]
          /\ [run[d] EXCEPT !.all = meta[d]].create = run[d].create
      BY <1>0 DEF Run
    <3> QED BY <1>4, <2>1, <3>1, MoveInv DEF ReadAll
  <2> QED BY <1>1, <1>4, <2>1 DEF ReadAll
<1>5. CASE PutConflict(d)
  <2>1. CASE Move(d, "refetch", [run[d] EXCEPT !.all = NoRows])
    <3>1. [run[d] EXCEPT !.all = NoRows].all = NoRows
      BY <1>0 DEF Run
    <3> QED BY <1>5, <2>1, <3>1, MoveInv DEF PutConflict
  <2> QED BY <1>1, <1>5, <2>1 DEF PutConflict
<1>6. CASE JoinRead(d)
  <2>1. [IdleRun EXCEPT !.all = meta[d]].all = meta[d]
    BY DEF IdleRun
  <2> QED BY <1>6, <2>1, MoveInv DEF JoinRead
<1>7. CASE Abort(d)
  BY <1>1, <1>7 DEF Abort
<1>8. CASE SkipRound(d)
  BY <1>8 DEF SkipRound, vars, MetaInv, Stamps, Known, SyncedPresent, FileShape, Uploading,
              Covers, CasHolds, Marking, Carries, CasKeepsPublished, TombstonesReported, SyncedSent
<1>9. CASE MarkSynced(d) \/ Purge(d)
  BY <1>9, MarkInv, PurgeInv DEF MarkSynced, Purge
<1> QED
  BY <1>2, <1>3, <1>4, <1>5, <1>6, <1>7, <1>8, <1>9

LEMMA MetaNext ==
    ASSUME TypeOK, TypeOK', AttemptLeft, MetaInv, [Next]_vars, Skew = FALSE
    PROVE  /\ MetaInv'
           /\ FileGrowth \/ ~intact'
<1>1. ASSUME UNCHANGED file, intact' => intact
      PROVE  FileGrowth
  BY <1>1 DEF FileGrowth
<1>2. ASSUME NEW d \in Device, User(d) \/ FinishSetter(d)
      PROVE  MetaInv' /\ UNCHANGED <<file, intact>>
  <2>1. UNCHANGED intact
    BY <1>2 DEF User, FinishSetter, ReadRow, WriteRow, HardDelete, engine_vars
  <2> QED BY <1>2, <2>1, UserInv
<1>3. ASSUME NEW d \in Device, Engine(d) \/ Abort(d), ~Put(d), ~JoinPut(d)
      PROVE  MetaInv' /\ UNCHANGED <<file, intact>>
  <2>1. UNCHANGED intact
    BY <1>3 DEF Engine, Get, SkipRound, ReadAll, PutConflict, Refetch, MarkSynced, Purge,
                JoinRead, Abort, Download, vars
  <2> QED BY <1>3, <2>1, EngineInv DEF Engine
<1>4. CASE UNCHANGED vars
  <2>1. MetaInv'
    BY <1>4 DEF vars, MetaInv, Stamps, Known, SyncedPresent, FileShape, Uploading, Covers,
                CasHolds, Marking, Carries, CasKeepsPublished, TombstonesReported, SyncedSent
  <2> QED BY <1>1, <1>4, <2>1 DEF vars
<1>5. ASSUME NEW d \in Device, Put(d) \/ JoinPut(d)
      PROVE  MetaInv' /\ FileGrowth
  BY <1>5, PutInv, JoinPutInv
<1> QED
  BY <1>1, <1>2, <1>3, <1>4, <1>5, DamageInv, UpgradeInv DEF Next

-----------------------------------------------------------------------------
(* The theorems.                                                           *)

\* For any number of devices, notes, calls and faults, with clocks that agree:
\* a row marked as synced was in some version of the file, and as long as the
\* file is neither damaged nor replaced unread, it carries the row or a later
\* state, tombstones whose row is gone included.
THEOREM MetaCorrect ==
    ASSUME Skew = FALSE
    PROVE  Spec => []Reported
<1>1. TypeOK /\ MetaInv => Reported
  BY DEF MetaInv, Reported
<1>2. Init => AttemptLeft
  BY DEF Init, AttemptLeft
<1> QED
  BY <1>1, <1>2, TypeInit, TypeNext, AttemptNext, MetaInit, MetaNext, PTL DEF Spec

\* Under the same assumption no upload takes an entry of the file back or out.
THEOREM FileMonotoneCorrect ==
    ASSUME Skew = FALSE
    PROVE  Spec => FileMonotone
<1>1. Init => AttemptLeft
  BY DEF Init, AttemptLeft
<1>2. TypeOK /\ TypeOK' /\ AttemptLeft /\ MetaInv /\ [Next]_vars
        => [intact' => \A n \in Note : file'.items[n].at >= file.items[n].at]_vars
  <2> SUFFICES ASSUME TypeOK, TypeOK', AttemptLeft, MetaInv, [Next]_vars, intact', NEW n \in Note
               PROVE  file'.items[n].at >= file.items[n].at
    OBVIOUS
  <2>1. FileGrowth
    BY MetaNext
  <2>2. file.items[n] \in Entry /\ file'.items[n] \in Entry
    BY DEF TypeOK
  <2>3. file.items[n].at \in Nat /\ file'.items[n].at \in Nat
    BY <2>2 DEF Entry, Time
  <2> QED BY <2>1, <2>3 DEF FileGrowth
<1> QED
  BY <1>1, <1>2, TypeInit, TypeNext, AttemptNext, MetaInit, MetaNext, PTL DEF Spec, FileMonotone

-----------------------------------------------------------------------------
(* The format of the file, whatever the clocks.                            *)

\* A PUT whose condition holds does not replace a file of a newer format.
FormatSafe ==
    \A d \in Device : pc[d] \in {"read", "put"} /\ CasHolds(d) => file.kind # "future"

LEMMA FormatNext ==
    TypeOK /\ FormatSafe /\ [Next]_vars
      => FormatSafe' /\ ((intact' /\ file.kind = "future") => file'.kind = "future")
<1> SUFFICES ASSUME TypeOK, FormatSafe, [Next]_vars
             PROVE  FormatSafe' /\ ((intact' /\ file.kind = "future") => file'.kind = "future")
  OBVIOUS
<1>1. ASSUME etagOk' = [d \in Device |-> FALSE], file'.kind # "none" PROVE FormatSafe'
  BY <1>1 DEF FormatSafe, CasHolds
<1>2. ASSUME UNCHANGED <<file, etagOk>>, NEW d \in Device, NEW s, NEW r, Move(d, s, r),
             s # "read", s = "put" => pc[d] = "read" /\ r.create = run[d].create
      PROVE  FormatSafe'
  BY <1>2 DEF FormatSafe, CasHolds, Move, TypeOK
<1>3. ASSUME NEW d \in Device, NEW items, NEW r, Download(d, items, r),
             ~r.create => file.kind # "future"
      PROVE  FormatSafe' /\ UNCHANGED file
  <2>1. /\ UNCHANGED file
        /\ \A e \in Device \ {d} : pc'[e] = pc[e] /\ run'[e] = run[e] /\ etagOk'[e] = etagOk[e]
        /\ run'[d] = r /\ etagOk'[d] = ~r.create
    BY <1>3 DEF Download, Move, TypeOK
  <2>2. ASSUME NEW e \in Device, pc'[e] \in {"read", "put"}, CasHolds(e)'
        PROVE  file.kind # "future"
    <3>1. CASE e = d
      BY <1>3, <2>1, <2>2, <3>1 DEF CasHolds
    <3>2. CASE e # d
      BY <2>1, <2>2, <3>2 DEF CasHolds, FormatSafe
    <3> QED BY <3>1, <3>2
  <2> QED BY <2>1, <2>2 DEF FormatSafe
<1>4. ASSUME NEW d \in Device, User(d) \/ FinishSetter(d) PROVE FormatSafe' /\ UNCHANGED file
  <2>1. UNCHANGED engine_vars
    BY <1>4 DEF User, FinishSetter, ReadRow, WriteRow, HardDelete
  <2> QED BY <2>1 DEF engine_vars, FormatSafe, CasHolds
<1>5. ASSUME NEW d \in Device, Get(d) PROVE FormatSafe' /\ UNCHANGED file
  <2>1. PICK kind \in Kinds \ {"future"} :
          /\ Answer(kind)
          /\ Download(d, IF kind = "ok" THEN file.items ELSE NoEntries,
                     [IdleRun EXCEPT !.create = (kind = "none"), !.force = (kind = "bad")])
    BY <1>5 DEF Get
  <2>2. kind # "none" => file.kind # "future"
    BY <2>1, AnswerShape
  <2>3. [IdleRun EXCEPT !.create = (kind = "none"), !.force = (kind = "bad")].create = (kind = "none")
    BY DEF IdleRun
  <2> QED BY <1>3, <2>1, <2>2, <2>3
<1>6. ASSUME NEW d \in Device, Refetch(d) PROVE FormatSafe' /\ UNCHANGED file
  <2>1. PICK kind \in Kinds :
          /\ Answer(kind)
          /\ IF kind \in {"bad", "future"}
             THEN EndRound(d) /\ UNCHANGED <<meta, file, etagOk, sent, intact, user_vars>>
             ELSE Download(d, IF kind = "ok" THEN file.items ELSE NoEntries,
                           [run[d] EXCEPT !.create = (kind = "none"), !.attempt = @ + 1])
    BY <1>6 DEF Refetch
  <2>2. CASE kind \in {"bad", "future"}
    BY <1>2, <2>1, <2>2 DEF EndRound
  <2>3. CASE kind \notin {"bad", "future"}
    <3>1. kind # "none" => file.kind # "future"
      BY <2>1, <2>3, AnswerShape
    <3>2. [run[d] EXCEPT !.create = (kind = "none"), !.attempt = @ + 1].create = (kind = "none")
      BY DEF TypeOK, Run
    <3> QED BY <1>3, <2>1, <2>3, <3>1, <3>2
  <2> QED BY <2>2, <2>3
<1>7. ASSUME NEW d \in Device, ReadAll(d) PROVE FormatSafe' /\ UNCHANGED file
  <2>1. [run[d] EXCEPT !.all = meta[d]].create = run[d].create
    BY DEF TypeOK, Run
  <2> QED BY <1>2, <1>7, <2>1 DEF ReadAll, EndRound
<1>8. ASSUME NEW d \in Device,
             \/ PutConflict(d) \/ MarkSynced(d) \/ Purge(d) \/ JoinRead(d) \/ Abort(d)
      PROVE  FormatSafe' /\ UNCHANGED file
  BY <1>2, <1>8 DEF PutConflict, MarkSynced, Purge, JoinRead, Abort, EndRound
<1>9. ASSUME NEW d \in Device, Put(d) \/ JoinPut(d)
      PROVE  FormatSafe' /\ ~(intact' /\ file.kind = "future")
  <2>1. FormatSafe'
    BY <1>1, <1>9 DEF Put, JoinPut, StoreFile
  <2>2. CASE Put(d)
    BY <2>1, <2>2 DEF Put, FormatSafe
  <2>3. CASE JoinPut(d)
    BY <2>1, <2>3 DEF JoinPut
  <2> QED BY <1>9, <2>2, <2>3
<1>10. CASE Damage
  BY <1>1, <1>10 DEF Damage
<1>11. CASE Upgrade
  <2>1. file'.kind = "future"
    BY <1>11 DEF Upgrade, TypeOK
  <2> QED BY <1>1, <1>11, <2>1 DEF Upgrade
<1>12. ASSUME UNCHANGED vars PROVE FormatSafe' /\ UNCHANGED file
  BY <1>12 DEF vars, FormatSafe, CasHolds
<1> QED
  BY <1>4, <1>5, <1>6, <1>7, <1>8, <1>9, <1>10, <1>11, <1>12 DEF Next, Engine, SkipRound

\* Whatever the clocks, an old client never replaces a file of a newer format,
\* whenever between its GET and its PUT the file was upgraded.
THEOREM NoDowngradeCorrect == Spec => NoDowngrade
<1>1. Init => AttemptLeft /\ FormatSafe
  BY DEF Init, AttemptLeft, FormatSafe
<1>2. TypeOK /\ FormatSafe /\ [Next]_vars
        => [(intact' /\ file.kind = "future") => file'.kind = "future"]_vars
  BY FormatNext
<1> QED
  BY <1>1, <1>2, TypeInit, TypeNext, AttemptNext, FormatNext, PTL DEF Spec, NoDowngrade

=============================================================================
