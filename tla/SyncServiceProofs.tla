--------------------------- MODULE SyncServiceProofs ---------------------------
(* Proofs about the service that runs the sync engine (SyncService).       *)
EXTENDS SyncService, FiniteSetTheorems, TLAPS

-----------------------------------------------------------------------------
(* The records keep their shape.                                           *)

LEMMA BackendsNat == Cardinality(Backend) \in Nat /\ Backend \subseteq Backends /\ 0 \in Backends
<1>1. Cardinality(Backend) \in Nat
  BY FS_CardinalityType, ServiceAssumption
<1>2. \A b \in 1 .. Cardinality(Backend) : b \in 0 .. Cardinality(Backend)
  BY <1>1
<1>3. 0 \in 0 .. Cardinality(Backend)
  BY <1>1
<1> QED
  BY <1>1, <1>2, <1>3, ServiceAssumption DEF Backends

\* A field of the service at a time.
LEMMA ServiceFields ==
  ASSUME NEW s \in ServiceState
  PROVE  /\ \A b \in BOOLEAN : /\ [s EXCEPT !.closing = b] \in ServiceState
                              /\ [s EXCEPT !.lock = b] \in ServiceState
                              /\ [s EXCEPT !.ready = b] \in ServiceState
                              /\ [s EXCEPT !.retried = b] \in ServiceState
         /\ \A e \in Backends : /\ [s EXCEPT !.backend = e] \in ServiceState
                               /\ [s EXCEPT !.engine = e] \in ServiceState
         /\ \A t \in {"off", "auto", "again", "retry"} : [s EXCEPT !.timer = t] \in ServiceState
BY DEF ServiceState

\* One field of a call after another.
LEMMA CallFields ==
  ASSUME NEW r \in CallState
  PROVE  /\ \A b \in BOOLEAN : [r EXCEPT !.stray = b] \in CallState
         /\ \A a \in {"none", "init", "round", "sending"} :
               /\ \A e \in Backends : [r EXCEPT !.at = a, !.init = e] \in CallState
               /\ \A n \in 0 .. changes : [r EXCEPT !.at = a, !.covers = n] \in CallState
BY DEF CallState

LEMMA NoCallTyped == ASSUME changes \in 0 .. MaxChanges PROVE NoCall \in CallState
BY BackendsNat, ServiceAssumption DEF NoCall, CallState

\* What a call is about to do when it has taken the lock.
LEMMA BeginsTyped ==
  ASSUME ServiceTypeOK, NEW s \in ServiceState, NEW by \in {"auto", "bare", "user", "repair"},
         Begins(s, by)
  PROVE  svc' \in ServiceState /\ calls' \in [Caller -> CallState]
<1>1. NewCall(s, by) \in CallState
  BY BackendsNat, ServiceAssumption DEF NewCall, CallState, ServiceState, ServiceTypeOK
<1> QED
  BY <1>1, ServiceFields DEF Begins, ServiceTypeOK

LEMMA AsksTyped ==
  ASSUME ServiceTypeOK, NEW s \in ServiceState, NEW by \in {"auto", "bare", "user", "repair"},
         Asks(s, by)
  PROVE  svc' \in ServiceState /\ calls' \in [Caller -> CallState]
BY BeginsTyped DEF Asks, ServiceTypeOK

\* What a timer or the end of a call leaves of the service.
LEMMA AfterTyped ==
  ASSUME NEW s \in ServiceState
  PROVE  /\ Skipped(s) \in ServiceState /\ Failed(s) \in ServiceState
         /\ Succeeded(s) \in ServiceState /\ Armed(s) \in ServiceState
<1>1. Skipped(s) \in ServiceState
  BY ServiceFields DEF Skipped
<1>2. [s EXCEPT !.retried = TRUE, !.timer = "retry"] \in ServiceState
  BY DEF ServiceState
<1>3. [s EXCEPT !.retried = FALSE] \in ServiceState
  BY ServiceFields
<1>4. Failed(s) \in ServiceState
  BY <1>2, <1>3 DEF Failed
<1>5. Armed(s) \in ServiceState
  BY ServiceFields DEF Armed
<1> QED
  BY <1>1, <1>3, <1>4, <1>5 DEF Succeeded

LEMMA ReturnsTyped ==
  ASSUME ServiceTypeOK, NEW c \in Caller, NEW ok \in BOOLEAN, Returns(c, ok)
  PROVE  svc' \in ServiceState /\ excused' \in 0 .. changes
<1>1. [svc EXCEPT !.lock = FALSE] \in ServiceState
  BY ServiceFields DEF ServiceTypeOK
<1>2. svc' \in ServiceState
  BY <1>1, AfterTyped DEF Returns, ServiceTypeOK
<1>3. changes \in 0 .. changes
  BY ServiceAssumption DEF ServiceTypeOK
<1>4. excused' \in 0 .. changes
  BY <1>3 DEF Returns, Excused, ServiceTypeOK
<1> QED
  BY <1>2, <1>4

\* Init.
LEMMA ServiceInitTyped == ServiceInit => ServiceTypeOK
<1> SUFFICES ASSUME ServiceInit PROVE ServiceTypeOK
  OBVIOUS
<1>1. svc \in ServiceState
  BY BackendsNat DEF ServiceInit, ServiceState
<1>2. calls \in [Caller -> CallState]
  BY NoCallTyped, ServiceAssumption DEF ServiceInit
<1>3. op \in [is : {"none", "start", "switch", "shut"}, at : {"none", "journal", "init", "closed"},
               to : Backends, old : Backends]
  BY BackendsNat DEF ServiceInit, NoOp
<1> QED
  BY <1>1, <1>2, <1>3, BackendsNat, ServiceAssumption DEF ServiceInit, ServiceTypeOK

OpState == [is : {"none", "start", "switch", "shut"}, at : {"none", "journal", "init", "closed"},
            to : Backends, old : Backends]

LEMMA CallStep ==
  ASSUME ServiceTypeOK, NEW c \in Caller, Goes(c) \/ TimesOut(c)
  PROVE  ServiceTypeOK'
<1> USE DEF ServiceTypeOK
<1>1. ASSUME Initialised(c) PROVE ServiceTypeOK'
  <2>1. calls[c].init \in Backends /\ 0 \in Backends
    BY BackendsNat DEF CallState
  <2>2. [calls[c] EXCEPT !.at = "round", !.init = 0] \in CallState
    BY <2>1, CallFields
  <2>3. calls' \in [Caller -> CallState]
    BY <1>1, <2>2 DEF Initialised
  <2>4. svc' \in ServiceState
    BY <1>1, ServiceFields DEF Initialised
  <2> QED
    BY <1>1, <2>1, <2>3, <2>4 DEF Initialised, CallState
<1>2. ASSUME Reads(c) PROVE ServiceTypeOK'
  <2>a. changes \in 0 .. changes
    BY ServiceAssumption
  <2>1. [calls[c] EXCEPT !.at = "sending", !.covers = changes] \in CallState
    BY <2>a, CallFields
  <2>2. calls' \in [Caller -> CallState]
    BY <1>2, <2>1 DEF Reads
  <2> QED
    BY <1>2, <2>2 DEF Reads, CallState
<1>3. ASSUME Ends(c) \/ Fails(c) PROVE ServiceTypeOK'
  <2>1. svc' \in ServiceState /\ excused' \in 0 .. changes
    BY <1>3, ReturnsTyped DEF Ends, Fails
  <2>2. calls' \in [Caller -> CallState]
    BY <1>3, NoCallTyped DEF Ends, Fails
  <2>3. calls[c].covers \in 0 .. changes
    BY DEF CallState
  <2>4. synced' \in 0 .. changes
    BY <1>3, <2>3 DEF Ends, Fails
  <2> QED
    BY <1>3, <2>1, <2>2, <2>4 DEF Ends, Fails, CallState
<1>4. ASSUME TimesOut(c) PROVE ServiceTypeOK'
  <2>1. svc' \in ServiceState /\ excused' \in 0 .. changes
    BY <1>4, ReturnsTyped DEF TimesOut
  <2>2. calls' \in [Caller -> CallState]
    BY <1>4, CallFields DEF TimesOut
  <2> QED
    BY <1>4, <2>1, <2>2 DEF TimesOut, CallState
<1> QED
  BY <1>1, <1>2, <1>3, <1>4 DEF Goes

LEMMA UserStep ==
  ASSUME ServiceTypeOK,
         Change \/ Resume \/ Fire \/ (\E by \in {"user", "repair"} : Sync(by))
  PROVE  ServiceTypeOK'
<1> USE DEF ServiceTypeOK
<1>a. changes \in 0 .. changes
  BY ServiceAssumption
<1>1. ASSUME Change PROVE ServiceTypeOK'
  <2>1. svc' \in ServiceState
    BY <1>1, AfterTyped DEF Change
  <2>2. changes \in Nat /\ changes' = changes + 1 /\ changes' \in 0 .. MaxChanges
    BY <1>1, ServiceAssumption DEF Change
  <2>3. \A n \in 0 .. changes : n \in 0 .. changes'
    BY <2>2
  <2>4. calls' \in [Caller -> CallState']
    BY <1>1, <2>3 DEF Change, CallState
  <2>5. excused' \in 0 .. changes'
    BY <1>1, <2>2, <2>3 DEF Change
  <2> QED
    BY <1>1, <2>1, <2>2, <2>3, <2>4, <2>5 DEF Change
<1>2. ASSUME Resume PROVE ServiceTypeOK'
  <2>1. svc' \in ServiceState
    BY <1>2, AfterTyped DEF Resume
  <2>2. acts' \in 0 .. MaxActs
    BY <1>2, ServiceAssumption DEF Resume, Act
  <2> QED
    BY <1>2, <2>1, <2>2 DEF Resume, CallState
<1>3. ASSUME Fire PROVE ServiceTypeOK'
  <2> DEFINE b == IF svc.timer = "retry" THEN FALSE ELSE svc.retried
             s == [svc EXCEPT !.timer = "off", !.retried = b]
  <2>1. b \in BOOLEAN
    BY DEF ServiceState
  <2>2. s \in ServiceState
    BY <2>1 DEF ServiceState
  <2>3. /\ IF ~Refuses(s) THEN Begins(s, IF svc.timer = "auto" THEN "auto" ELSE "bare")
           ELSE /\ svc' = IF svc.timer = "auto" THEN Skipped(s) ELSE s
                /\ UNCHANGED calls
        /\ IF Refuses(s) /\ s.lock /\ ~s.closing /\ s.engine # 0
           THEN /\ missed' = IF svc'.timer = "off" THEN changes ELSE missed
                /\ UNCHANGED excused
           ELSE Excused(Refuses(s) /\ (svc.timer # "auto" \/ svc.engine = 0)) /\ UNCHANGED missed
        /\ UNCHANGED <<op, leaving, opened, given, changes, acts, synced>>
    BY <1>3 DEF Fire
  <2> HIDE DEF s, b
  <2>4. svc' \in ServiceState /\ calls' \in [Caller -> CallState]
    <3>1. CASE ~Refuses(s)
      BY <3>1, <2>2, <2>3, BeginsTyped
    <3>2. CASE Refuses(s)
      BY <3>2, <2>2, <2>3, AfterTyped
    <3> QED
      BY <3>1, <3>2
  <2>5. missed' \in 0 .. changes /\ excused' \in 0 .. changes
    BY <2>3, <1>a DEF Excused
  <2> QED
    BY <2>3, <2>4, <2>5 DEF CallState
<1>4. ASSUME NEW by \in {"user", "repair"}, Sync(by) PROVE ServiceTypeOK'
  <2>1. svc' \in ServiceState /\ calls' \in [Caller -> CallState]
    BY <1>4, AsksTyped DEF Sync
  <2>2. acts' \in 0 .. MaxActs
    BY <1>4, ServiceAssumption DEF Sync, Act
  <2> QED
    BY <1>4, <2>1, <2>2 DEF Sync, CallState
<1> QED
  BY <1>1, <1>2, <1>3, <1>4

LEMMA OperationStep ==
  ASSUME ServiceTypeOK, Proceeds \/ Leaves \/ Start \/ Switch \/ Shutdown
                          \/ (\E is \in {"logout", "dispose"} : Leave(is))
  PROVE  ServiceTypeOK'
<1> USE DEF ServiceTypeOK
<1>a. changes \in 0 .. changes
  BY ServiceAssumption
<1>b. 0 \in Backends /\ Backend \subseteq Backends
  BY BackendsNat
<1>c. svc.backend \in Backends /\ op.to \in Backends
  BY DEF ServiceState
<1>d. ASSUME Act PROVE acts' \in 0 .. MaxActs
  BY <1>d, ServiceAssumption DEF Act
<1>e. NoOp \in OpState
  BY <1>b DEF NoOp, OpState
<1>f. Cleared \in ServiceState
  BY <1>b DEF Cleared, ServiceState
<1>1. ASSUME Start PROVE ServiceTypeOK'
  <2>1. given' \in Backends /\ given' = given + 1
    BY <1>1, <1>b DEF Start
  <2>2. svc' \in ServiceState
    BY <1>1, <2>1 DEF Start, ServiceState
  <2>3. op' \in OpState
    BY <1>1, <1>b, <2>1 DEF Start, NoOp, OpState
  <2>4. opened' \subseteq Backends /\ acts' \in 0 .. MaxActs
    BY <1>1, <1>d DEF Start
  <2> QED
    BY <1>1, <2>1, <2>2, <2>3, <2>4 DEF Start, CallState, OpState
<1>2. ASSUME MakeEngine PROVE ServiceTypeOK'
  <2>1. svc' \in ServiceState
    BY <1>2, <1>c, ServiceFields DEF MakeEngine
  <2>2. op' \in OpState
    BY <1>2 DEF MakeEngine, OpState
  <2> QED
    BY <1>2, <2>1, <2>2 DEF MakeEngine, CallState, OpState
<1>3. ASSUME Switch PROVE ServiceTypeOK'
  <2>1. given' \in Backends
    BY <1>3, <1>b DEF Switch
  <2>2. svc' \in ServiceState
    BY <1>3, ServiceFields DEF Switch
  <2>3. op' \in OpState
    BY <1>3, <1>c, <2>1 DEF Switch, OpState
  <2>4. acts' \in 0 .. MaxActs
    BY <1>3, <1>d DEF Switch
  <2> QED
    BY <1>3, <2>1, <2>2, <2>3, <2>4 DEF Switch, CallState, OpState
<1>4. ASSUME Ready PROVE ServiceTypeOK'
  <2>1. opened' \subseteq Backends
    BY <1>4, <1>c DEF Ready
  <2>2. [svc EXCEPT !.ready = TRUE] \in ServiceState
    BY ServiceFields
  <2>3. svc' \in ServiceState /\ calls' \in [Caller -> CallState]
    BY <1>4, <2>2, AsksTyped DEF Ready
  <2>4. op' \in OpState
    BY <1>4, <1>e DEF Ready, OpState
  <2> QED
    BY <1>4, <2>1, <2>3, <2>4 DEF Ready, CallState, OpState
<1>5. ASSUME NotReady PROVE ServiceTypeOK'
  <2>1. svc' \in ServiceState
    BY <1>5, ServiceFields DEF NotReady
  <2> QED
    BY <1>5, <1>e, <2>1 DEF NotReady, CallState, OpState
<1>6. ASSUME Switched PROVE ServiceTypeOK'
  <2>1. (IF svc.engine = 0 THEN 0 ELSE op.to) \in Backends
    BY <1>b, <1>c
  <2>2. [svc EXCEPT !.backend = op.to, !.ready = TRUE,
                    !.engine = IF svc.engine = 0 THEN 0 ELSE op.to] \in ServiceState
    BY <2>1, <1>c DEF ServiceState
  <2>3. svc' \in ServiceState /\ calls' \in [Caller -> CallState]
    BY <1>6, <2>2, AsksTyped DEF Switched
  <2> QED
    BY <1>6, <1>e, <2>3 DEF Switched, CallState, OpState
<1>7. ASSUME Shutdown PROVE ServiceTypeOK'
  <2>1. svc' \in ServiceState
    BY <1>7, ServiceFields DEF Shutdown
  <2>2. op' \in OpState
    BY <1>7, <1>b DEF Shutdown, OpState, NoOp
  <2>3. acts' \in 0 .. MaxActs /\ excused' \in 0 .. changes
    BY <1>7, <1>a, <1>d DEF Shutdown, Excused
  <2> QED
    BY <1>7, <2>1, <2>2, <2>3 DEF Shutdown, CallState, OpState
<1>8. ASSUME ShutDown PROVE ServiceTypeOK'
  BY <1>8, <1>e, <1>f DEF ShutDown, CallState, OpState
<1>9. ASSUME NEW is \in {"logout", "dispose"}, Leave(is) PROVE ServiceTypeOK'
  <2>1. svc' \in ServiceState
    BY <1>9 DEF Leave, ServiceState
  <2>2. acts' \in 0 .. MaxActs /\ excused' \in 0 .. changes
    BY <1>9, <1>a, <1>d DEF Leave, Excused
  <2> QED
    BY <1>9, <2>1, <2>2 DEF Leave, CallState
<1>10. ASSUME Close PROVE ServiceTypeOK'
  BY <1>10 DEF Close, CallState
<1>11. ASSUME Left PROVE ServiceTypeOK'
  <2>1. (leaving.is = "dispose") \in BOOLEAN
    OBVIOUS
  <2>2. svc' \in ServiceState
    BY <1>11, <1>f, <2>1, ServiceFields DEF Left
  <2> QED
    BY <1>11, <2>2 DEF Left, CallState
<1> QED
  BY <1>1, <1>2, <1>3, <1>4, <1>5, <1>6, <1>7, <1>8, <1>9, <1>10, <1>11 DEF Proceeds, Leaves

\* The fields of the service, the calls, the operations under way and the counts
\* keep their shape.
THEOREM ServiceTypeCorrect == ServiceSpec => []ServiceTypeOK
<1>1. ServiceTypeOK /\ UNCHANGED service_vars => ServiceTypeOK'
  BY DEF ServiceTypeOK, service_vars, CallState
<1>2. ServiceTypeOK /\ ServiceNext => ServiceTypeOK'
  BY CallStep, UserStep, OperationStep DEF ServiceNext
<1> QED
  BY ServiceInitTyped, <1>1, <1>2, PTL DEF ServiceSpec

-----------------------------------------------------------------------------
(* The lock.                                                               *)

\* At most one call is waited for, and it has the lock.
OneHolder ==
    /\ \A c, e \in Holders : c = e
    /\ svc.lock <=> Holders # {}

LEMMA OneHolderEngine == OneHolder => OneEngine
<1> SUFFICES ASSUME OneHolder PROVE Cardinality(Holders) <= 1
  BY DEF OneHolder, OneEngine
<1>1. CASE Holders = {}
  BY <1>1, FS_EmptySet
<1>2. CASE Holders # {}
  <2>1. PICK c \in Holders : TRUE
    BY <1>2
  <2>2. Holders = {c}
    BY <2>1 DEF OneHolder
  <2> QED
    BY <2>2, FS_Singleton
<1> QED
  BY <1>1, <1>2

\* Whoever takes the lock finds nobody who has it.
LEMMA BeginsHolds ==
  ASSUME ServiceTypeOK, OneHolder, NEW s, NEW by, s \in ServiceState, s.lock = svc.lock,
         ~Refuses(s), Begins(s, by)
  PROVE  OneHolder'
<1>1. Holders = {}
  BY DEF Refuses, OneHolder
<1>2. PICK c \in Caller : calls[c] = NoCall /\ calls' = [calls EXCEPT ![c] = NewCall(s, by)]
  BY DEF Begins
<1>3. svc'.lock
  BY DEF Begins, ServiceState
<1>4. NewCall(s, by).at # "none" /\ ~NewCall(s, by).stray
  BY DEF NewCall
<1>5. Holders' = {c}
  BY <1>1, <1>2, <1>4 DEF Holders, ServiceTypeOK
<1> QED
  BY <1>3, <1>5 DEF OneHolder

LEMMA AsksHolds ==
  ASSUME ServiceTypeOK, OneHolder, NEW s, NEW by, s \in ServiceState, s.lock = svc.lock, Asks(s, by)
  PROVE  OneHolder'
BY BeginsHolds DEF Asks, OneHolder, Holders

\* Who gives it back had it; a round that nobody waits for leaves it alone.
LEMMA ReturnsHolds ==
  ASSUME ServiceTypeOK, OneHolder, NEW c \in Caller, NEW ok \in BOOLEAN, NEW r,
         calls[c].at # "none", r.stray \/ r.at = "none",
         Returns(c, ok), calls' = [calls EXCEPT ![c] = r]
  PROVE  OneHolder'
<1>1. Holders' = Holders \ {c}
  BY DEF Holders, ServiceTypeOK
<1>2. CASE calls[c].stray
  BY <1>1, <1>2 DEF Holders, OneHolder, Returns
<1>3. CASE ~calls[c].stray
  <2>1. Holders' = {}
    BY <1>1, <1>3 DEF Holders, OneHolder
  <2>2. [svc EXCEPT !.lock = FALSE] \in ServiceState
    BY ServiceFields DEF ServiceTypeOK
  <2>3. \A s \in ServiceState : Failed(s).lock = s.lock /\ Succeeded(s).lock = s.lock
    BY DEF Failed, Succeeded, ServiceState
  <2>4. ~svc'.lock
    BY <1>3, <2>2, <2>3 DEF Returns, ServiceTypeOK, ServiceState
  <2> QED
    BY <2>1, <2>4 DEF OneHolder
<1> QED
  BY <1>2, <1>3

\* Everything else leaves the lock and the calls alone.
LEMMA OthersHold ==
  ASSUME OneHolder, UNCHANGED calls, svc'.lock = svc.lock
  PROVE  OneHolder'
BY DEF OneHolder, Holders

LEMMA CallHolds ==
  ASSUME ServiceTypeOK, OneHolder, NEW c \in Caller, Goes(c) \/ TimesOut(c)
  PROVE  OneHolder'
<1>a. calls[c] \in CallState /\ svc \in ServiceState
  BY DEF ServiceTypeOK
<1>1. ASSUME Initialised(c) PROVE OneHolder'
  <2>1. calls'[c].at = "round" /\ calls'[c].stray = calls[c].stray
        /\ \A e \in Caller \ {c} : calls'[e] = calls[e]
    BY <1>1, <1>a DEF Initialised, ServiceTypeOK, CallState
  <2>2. Holders' = Holders /\ svc'.lock = svc.lock
    BY <1>1, <1>a, <2>1 DEF Initialised, Holders, ServiceState
  <2> QED
    BY <2>2 DEF OneHolder
<1>2. ASSUME Reads(c) PROVE OneHolder'
  <2>1. calls'[c].at = "sending" /\ calls'[c].stray = calls[c].stray
        /\ \A e \in Caller \ {c} : calls'[e] = calls[e]
    BY <1>2, <1>a DEF Reads, ServiceTypeOK, CallState
  <2>2. Holders' = Holders /\ svc'.lock = svc.lock
    BY <1>2, <2>1 DEF Reads, Holders
  <2> QED
    BY <2>2 DEF OneHolder
<1>3. ASSUME Ends(c) \/ Fails(c) PROVE OneHolder'
  <2>1. NoCall.at = "none"
    BY DEF NoCall
  <2> QED
    BY <1>3, <2>1, ReturnsHolds DEF Ends, Fails
<1>4. ASSUME TimesOut(c) PROVE OneHolder'
  <2>1. [calls[c] EXCEPT !.stray = TRUE].stray
    BY <1>a DEF CallState
  <2>2. calls' = [calls EXCEPT ![c] = [calls[c] EXCEPT !.stray = TRUE]]
    BY <1>4 DEF TimesOut
  <2> QED
    BY <1>4, <2>1, <2>2, ReturnsHolds DEF TimesOut
<1> QED
  BY <1>1, <1>2, <1>3, <1>4 DEF Goes

LEMMA UserHolds ==
  ASSUME ServiceTypeOK, OneHolder,
         Change \/ Resume \/ Fire \/ (\E by \in {"user", "repair"} : Sync(by))
  PROVE  OneHolder'
<1>a. svc \in ServiceState
  BY DEF ServiceTypeOK
<1>1. ASSUME Change \/ Resume PROVE OneHolder'
  <2>1. Armed(svc).lock = svc.lock
    BY <1>a DEF Armed, ServiceState
  <2> QED
    BY <1>1, <2>1, OthersHold DEF Change, Resume
<1>2. ASSUME Fire PROVE OneHolder'
  <2> DEFINE b == IF svc.timer = "retry" THEN FALSE ELSE svc.retried
             s == [svc EXCEPT !.timer = "off", !.retried = b]
  <2>1. b \in BOOLEAN
    BY <1>a DEF ServiceState
  <2>2. s \in ServiceState /\ s.lock = svc.lock
    BY <1>a, <2>1 DEF ServiceState
  <2>3. IF ~Refuses(s) THEN Begins(s, IF svc.timer = "auto" THEN "auto" ELSE "bare")
           ELSE /\ svc' = IF svc.timer = "auto" THEN Skipped(s) ELSE s
                /\ UNCHANGED calls
    BY <1>2 DEF Fire
  <2> HIDE DEF s, b
  <2>4. CASE ~Refuses(s)
    BY <2>2, <2>3, <2>4, BeginsHolds
  <2>5. CASE Refuses(s)
    <3>1. Skipped(s).lock = s.lock
      BY <2>2 DEF Skipped, ServiceState
    <3> QED
      BY <2>2, <2>3, <2>5, <3>1, OthersHold
  <2> QED
    BY <2>4, <2>5
<1>3. ASSUME NEW by \in {"user", "repair"}, Sync(by) PROVE OneHolder'
  BY <1>a, <1>3, AsksHolds DEF Sync
<1> QED
  BY <1>1, <1>2, <1>3

LEMMA OperationHolds ==
  ASSUME ServiceTypeOK, OneHolder, Proceeds \/ Leaves \/ Start \/ Switch \/ Shutdown
                                     \/ (\E is \in {"logout", "dispose"} : Leave(is))
  PROVE  OneHolder'
<1>a. svc \in ServiceState
  BY DEF ServiceTypeOK
<1>b. op.to \in Backends /\ 0 \in Backends
  BY BackendsNat DEF ServiceTypeOK
<1>1. ASSUME Ready PROVE OneHolder'
  <2>1. [svc EXCEPT !.ready = TRUE] \in ServiceState /\ [svc EXCEPT !.ready = TRUE].lock = svc.lock
    BY <1>a DEF ServiceState
  <2> QED
    BY <1>1, <2>1, AsksHolds, OthersHold DEF Ready
<1>2. ASSUME Switched PROVE OneHolder'
  <2> DEFINE e == IF svc.engine = 0 THEN 0 ELSE op.to
             s == [svc EXCEPT !.backend = op.to, !.ready = TRUE, !.engine = e]
  <2>1. e \in Backends
    BY <1>b
  <2>2. s \in ServiceState /\ s.lock = svc.lock
    BY <1>a, <1>b, <2>1 DEF ServiceState
  <2>3. Asks(s, "user")
    BY <1>2 DEF Switched
  <2> HIDE DEF s
  <2> QED
    BY <2>2, <2>3, AsksHolds
<1>3. Cleared.lock = svc.lock /\ [Cleared EXCEPT !.closing = (leaving.is = "dispose")].lock = svc.lock
  BY <1>a DEF Cleared, ServiceState
<1>4. ASSUME MakeEngine \/ NotReady \/ ShutDown \/ Close \/ Left \/ Start \/ Switch \/ Shutdown
               \/ (\E is \in {"logout", "dispose"} : Leave(is))
      PROVE  OneHolder'
  <2>1. svc'.lock = svc.lock
    BY <1>4, <1>a, <1>3
       DEF MakeEngine, NotReady, ShutDown, Close, Left, Start, Switch, Shutdown, Leave, ServiceState
  <2>2. UNCHANGED calls
    BY <1>4 DEF MakeEngine, NotReady, ShutDown, Close, Left, Start, Switch, Shutdown, Leave
  <2> QED
    BY <2>1, <2>2, OthersHold
<1> QED
  BY <1>1, <1>2, <1>4 DEF Proceeds, Leaves

\* However calls of the user, timers, failures, the time limit and the coming and
\* going of backends fall together: one call at a time runs an engine that is
\* waited for, and the lock is given back whatever ends it (sync, repairRemote).
THEOREM OneEngineCorrect == ServiceSpec => []OneEngine
<1>1. ServiceInit => OneHolder
  BY DEF ServiceInit, OneHolder, Holders, NoCall
<1>2. ServiceTypeOK /\ OneHolder /\ [ServiceNext]_service_vars => OneHolder'
  <2>1. ServiceTypeOK /\ OneHolder /\ ServiceNext => OneHolder'
    BY CallHolds, UserHolds, OperationHolds DEF ServiceNext
  <2>2. OneHolder /\ UNCHANGED service_vars => OneHolder'
    BY OthersHold DEF service_vars
  <2> QED
    BY <2>1, <2>2
<1> QED
  BY <1>1, <1>2, ServiceTypeCorrect, OneHolderEngine, PTL DEF ServiceSpec
================================================================================
