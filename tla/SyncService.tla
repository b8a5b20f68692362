-------------------------------- MODULE SyncService --------------------------------
(***************************************************************************)
(* The service of the app that runs the sync engine                        *)
(* (lib/sync/sync_service.dart): one call at a time, an automatic call     *)
(* some seconds after a change, a second chance for a call that was        *)
(* skipped or failed, a time limit, and the engine and the backend coming  *)
(* and going as the user logs in and out and changes the settings.         *)
(*                                                                         *)
(* An engine is named by the backend it was made for.  Of its round only   *)
(* when it reads the notes and how it ends is kept (NoteSync has the rest).*)
(* A timer may fire at any time; SyncConfig allows what is asked for.      *)
(***************************************************************************)
EXTENDS Naturals, FiniteSets

CONSTANTS
    Backend,     \* backends that the settings give, in turn: 1, 2, ...
    Caller,      \* calls of sync() and repairRemote() that are under way
    Reliable,    \* TRUE: nothing fails but a round whose backend has been closed
    MaxChanges,  \* bound: changes of notes
    MaxActs      \* bound: those, and what else the user does

ASSUME ServiceAssumption ==
    /\ IsFiniteSet(Backend) /\ Backend = 1 .. Cardinality(Backend) /\ Caller # {} /\ Reliable \in BOOLEAN
    /\ MaxChanges \in Nat /\ MaxActs \in Nat

VARIABLES
    svc,      \* the fields of SyncService
    calls,    \* calls[c]: what the call c does
    op,       \* initialize, switchBackend or _shutdownEngine under way
    leaving,  \* logout or dispose under way
    opened,   \* backends that are initialised and not closed
    given,    \* backends given so far
    changes,  \* changes of notes
    acts,
    (* Bookkeeping that the program does not keep.                         *)
    synced,   \* changes that a round has taken to a backend
    excused,  \* changes that will wait for the user: see Excused
    missed    \* changes whose call was skipped, and the next one too

service_vars == <<svc, calls, op, leaving, opened, given, changes, acts, synced, excused,
                 missed>>

NoCall == [at |-> "none", by |-> "user", on |-> 0, init |-> 0, covers |-> 0, stray |-> FALSE]
NoOp == [is |-> "none", at |-> "none", to |-> 0, old |-> 0]

ServiceInit ==
    /\ svc = [closing |-> FALSE, lock |-> FALSE, ready |-> FALSE, backend |-> 0, engine |-> 0,
              timer |-> "off", retried |-> FALSE]
    /\ calls = [c \in Caller |-> NoCall]
    /\ op = NoOp /\ leaving = [is |-> "none", at |-> "none"]
    /\ opened = {} /\ given = 0
    /\ changes = 0 /\ acts = 0 /\ synced = 0 /\ excused = 0 /\ missed = 0

-----------------------------------------------------------------------------
(* sync() and repairRemote().                                              *)

\* The lock looked at after the backend is ready, as once (see lines 477-479).
Refuses_Late(s) == s.closing \/ (s.ready /\ s.lock) \/ s.engine = 0 \/ (~s.ready /\ s.backend = 0)

\* What makes them return null before the first await.
Refuses(s) == s.closing \/ s.lock \/ s.engine = 0 \/ (~s.ready /\ s.backend = 0)

\* Otherwise the lock is theirs; a backend that is not ready is initialised first.
NewCall(s, by) ==
    [at |-> IF s.ready THEN "round" ELSE "init", by |-> by, on |-> s.engine,
     init |-> IF s.ready THEN 0 ELSE s.backend, covers |-> 0, stray |-> FALSE]
Begins(s, by) ==
    LET idle == {c \in Caller : calls[c] = NoCall} IN
    /\ idle # {}
    /\ svc' = [s EXCEPT !.lock = TRUE]
    /\ calls' = [calls EXCEPT ![CHOOSE c \in idle : TRUE] = NewCall(s, by)]

\* A call that the user makes, in the state s.
Asks(s, by) == IF Refuses(s) THEN svc' = s /\ UNCHANGED calls ELSE Begins(s, by)

\* autoSync: what follows a call of the timer.
Skipped(s) == IF s.engine # 0 /\ s.timer = "off" THEN [s EXCEPT !.timer = "again"] ELSE s
Failed_NoRetry(s) == [s EXCEPT !.retried = FALSE]
Failed(s) ==
    IF s.engine = 0 THEN s
    ELSE IF s.retried THEN [s EXCEPT !.retried = FALSE]
    ELSE IF s.timer # "off" THEN s
    ELSE [s EXCEPT !.retried = TRUE, !.timer = "retry"]
Succeeded(s) == [s EXCEPT !.retried = FALSE]

\* The changes so far are left to the user unless a timer is pending.
Excused(given_up) == excused' = IF given_up /\ svc'.timer = "off" THEN changes ELSE excused

\* A call returns; a round that went on after the time limit has nobody to tell.
Returns(c, ok) ==
    LET free == [svc EXCEPT !.lock = FALSE]
        by == calls[c].by
    IN IF calls[c].stray THEN UNCHANGED <<svc, excused>>
       ELSE /\ svc' = IF by # "auto" THEN free ELSE IF ok THEN Succeeded(free) ELSE Failed(free)
            /\ Excused(~ok /\ (by = "bare" \/ (by = "auto" /\ (svc.retried \/ svc.engine = 0))))

Initialised(c) ==
    /\ calls[c].at = "init"
    /\ opened' = opened \cup {calls[c].init}
    /\ svc' = [svc EXCEPT !.ready = TRUE]
    /\ calls' = [calls EXCEPT ![c].at = "round", ![c].init = 0]
    /\ UNCHANGED <<op, leaving, given, changes, acts, synced, excused, missed>>

\* The round reads the notes; those that change later are not in it.
Reads(c) ==
    /\ calls[c].at = "round"
    /\ calls' = [calls EXCEPT ![c].at = "sending", ![c].covers = changes]
    /\ UNCHANGED <<svc, op, leaving, opened, given, changes, acts, synced, excused, missed>>

\* A round on a backend that has been closed does not succeed; a repair is not
\* counted on to upload what has changed.
Ends(c) ==
    /\ calls[c].at = "sending" /\ calls[c].on \in opened
    /\ Returns(c, TRUE)
    /\ synced' = IF calls[c].by # "repair" /\ calls[c].covers > synced THEN calls[c].covers ELSE synced
    /\ calls' = [calls EXCEPT ![c] = NoCall]
    /\ UNCHANGED <<op, leaving, opened, given, changes, acts, missed>>

Fails(c) ==
    /\ calls[c].at # "none"
    /\ Reliable => calls[c].at # "init" /\ calls[c].on \notin opened
    /\ Returns(c, FALSE)
    /\ calls' = [calls EXCEPT ![c] = NoCall]
    /\ UNCHANGED <<op, leaving, opened, given, changes, acts, synced, missed>>

\* _syncTotalTimeout, which repairRemote does not have: the caller is told, the
\* engine goes on.
TimesOut(c) ==
    /\ ~Reliable /\ calls[c].at \in {"round", "sending"} /\ calls[c].by # "repair" /\ ~calls[c].stray
    /\ Returns(c, FALSE)
    /\ calls' = [calls EXCEPT ![c].stray = TRUE]
    /\ UNCHANGED <<op, leaving, opened, given, changes, acts, synced, missed>>

-----------------------------------------------------------------------------
(* autoSync().                                                             *)

Act == changes + acts < MaxActs /\ acts' = acts + 1

Armed(s) == IF s.closing \/ s.engine = 0 THEN s ELSE [s EXCEPT !.timer = "auto"]

Change ==
    /\ changes < MaxChanges /\ changes + acts < MaxActs
    /\ changes' = changes + 1
    /\ svc' = Armed(svc)
    /\ excused' = IF svc'.timer = "auto" THEN excused ELSE changes'
    /\ UNCHANGED <<calls, op, leaving, opened, given, acts, synced, missed>>

\* The app comes to the foreground.
Resume ==
    /\ Act
    /\ svc' = Armed(svc)
    /\ UNCHANGED <<calls, op, leaving, opened, given, changes, synced, excused, missed>>

Fire ==
    LET s == [svc EXCEPT !.timer = "off", !.retried = IF svc.timer = "retry" THEN FALSE ELSE @]
    IN  /\ svc.timer # "off"
        /\ IF ~Refuses(s) THEN Begins(s, IF svc.timer = "auto" THEN "auto" ELSE "bare")
           ELSE /\ svc' = IF svc.timer = "auto" THEN Skipped(s) ELSE s
                /\ UNCHANGED calls
        /\ IF Refuses(s) /\ s.lock /\ ~s.closing /\ s.engine # 0
           THEN /\ missed' = IF svc'.timer = "off" THEN changes ELSE missed
                /\ UNCHANGED excused
           ELSE Excused(Refuses(s) /\ (svc.timer # "auto" \/ svc.engine = 0)) /\ UNCHANGED missed
        /\ UNCHANGED <<op, leaving, opened, given, changes, acts, synced>>

-----------------------------------------------------------------------------
(* What the user does.                                                     *)

Sync(by) ==
    /\ Act
    /\ Asks(svc, by)
    /\ UNCHANGED <<op, leaving, opened, given, changes, synced, excused, missed>>

\* initialize, when the user logs in or turns synchronisation on.
Start ==
    /\ Act /\ op = NoOp /\ svc.engine = 0 /\ leaving.is = "none" /\ given + 1 \in Backend
    /\ given' = given + 1
    /\ opened' = opened \ {svc.backend}
    /\ svc' = [svc EXCEPT !.backend = given', !.ready = FALSE]
    /\ op' = [NoOp EXCEPT !.is = "start", !.at = "journal", !.to = given']
    /\ UNCHANGED <<calls, leaving, changes, synced, excused, missed>>

MakeEngine ==
    /\ op.at = "journal"
    /\ svc' = [svc EXCEPT !.engine = op.to]
    /\ op' = [op EXCEPT !.at = "init"]
    /\ UNCHANGED <<calls, leaving, opened, given, changes, acts, synced, excused, missed>>

\* switchBackend: the lock is looked at before the new backend is initialised.
MaySwitch(s) == ~s.closing /\ ~s.lock
Switch ==
    /\ Act /\ op = NoOp /\ svc.engine # 0 /\ MaySwitch(svc) /\ given + 1 \in Backend
    /\ given' = given + 1
    /\ svc' = [svc EXCEPT !.ready = FALSE]
    /\ op' = [is |-> "switch", at |-> "init", to |-> given', old |-> svc.backend]
    /\ UNCHANGED <<calls, leaving, opened, changes, synced, excused, missed>>

\* backend.init(); whoever has started the service then calls sync().
Ready ==
    /\ op.at = "init"
    /\ IF op.is = "start"
       THEN /\ opened' = opened \cup {op.to}
            /\ Asks([svc EXCEPT !.ready = TRUE], "user")
            /\ op' = NoOp
       ELSE /\ opened' = (opened \cup {op.to}) \ {op.old}
            /\ op' = [op EXCEPT !.at = "closed"]
            /\ UNCHANGED <<svc, calls>>
    /\ UNCHANGED <<leaving, given, changes, acts, synced, excused, missed>>

NotReady ==
    /\ op.at = "init" /\ ~Reliable
    /\ svc' = [svc EXCEPT !.ready = FALSE]
    /\ op' = NoOp
    /\ UNCHANGED <<calls, leaving, opened, given, changes, acts, synced, excused, missed>>

\* The new backend takes the place of the old one; the engine is made again
\* unless the user has logged out.
Switched ==
    /\ op.at = "closed" /\ op.is = "switch"
    /\ Asks([svc EXCEPT !.backend = op.to, !.ready = TRUE,
                        !.engine = IF svc.engine = 0 THEN 0 ELSE op.to], "user")
    /\ op' = NoOp
    /\ UNCHANGED <<leaving, opened, given, changes, acts, synced, excused, missed>>

\* _shutdownEngine, when synchronisation is turned off.
Shutdown ==
    /\ Act /\ op = NoOp
    /\ svc.engine # 0 \/ svc.backend # 0
    /\ svc' = [svc EXCEPT !.timer = "off"]
    /\ Excused(svc.timer # "off")
    /\ opened' = opened \ {svc.backend}
    /\ op' = [NoOp EXCEPT !.is = "shut", !.at = "closed"]
    /\ UNCHANGED <<calls, leaving, given, changes, synced, missed>>

Cleared == [svc EXCEPT !.backend = 0, !.engine = 0, !.ready = FALSE]
ShutDown ==
    /\ op.at = "closed" /\ op.is = "shut"
    /\ svc' = Cleared
    /\ op' = NoOp
    /\ UNCHANGED <<calls, leaving, opened, given, changes, acts, synced, excused, missed>>

\* logout, or dispose when the app ends: waitForSyncCompletion gives up after a
\* while.
Leave(is) ==
    /\ Act /\ leaving.is = "none" /\ ~svc.closing
    /\ leaving' = [is |-> is, at |-> "waiting"]
    /\ svc' = [svc EXCEPT !.closing = TRUE, !.timer = "off", !.retried = FALSE]
    /\ Excused(svc.timer # "off")
    /\ UNCHANGED <<calls, op, opened, given, changes, synced, missed>>

Close ==
    /\ leaving.at = "waiting"
    /\ leaving' = [leaving EXCEPT !.at = "closed"]
    /\ opened' = opened \ {svc.backend}
    /\ UNCHANGED <<svc, calls, op, given, changes, acts, synced, excused, missed>>

Left ==
    /\ leaving.at = "closed"
    /\ svc' = [Cleared EXCEPT !.closing = (leaving.is = "dispose")]
    /\ leaving' = [is |-> "none", at |-> "none"]
    /\ UNCHANGED <<calls, op, opened, given, changes, acts, synced, excused, missed>>

-----------------------------------------------------------------------------
\* What happens of itself; a round may fail at any time, but need not.
Goes(c) == Initialised(c) \/ Reads(c) \/ Ends(c) \/ Fails(c)
Proceeds == Ready \/ NotReady \/ MakeEngine \/ Switched \/ ShutDown
Leaves == Close \/ Left

ServiceNext ==
    \/ \E c \in Caller : Goes(c) \/ TimesOut(c)
    \/ Proceeds \/ Leaves \/ Fire
    \/ Change \/ Resume \/ Start \/ Switch \/ Shutdown
    \/ \E by \in {"user", "repair"} : Sync(by)
    \/ \E is \in {"logout", "dispose"} : Leave(is)

\* Timers fire; requests have time limits, so that rounds and the service's own
\* operations come to an end.
ServiceFairness ==
    /\ WF_service_vars(Fire) /\ WF_service_vars(Proceeds) /\ WF_service_vars(Leaves)
    /\ \A c \in Caller : WF_service_vars(Goes(c))
ServiceSpec == ServiceInit /\ [][ServiceNext]_service_vars
FairService == ServiceSpec /\ ServiceFairness

-----------------------------------------------------------------------------
Backends == 0 .. Cardinality(Backend)

ServiceState ==
    [closing : BOOLEAN, lock : BOOLEAN, ready : BOOLEAN, backend : Backends, engine : Backends,
     timer : {"off", "auto", "again", "retry"}, retried : BOOLEAN]
CallState ==
    [at : {"none", "init", "round", "sending"}, by : {"auto", "bare", "user", "repair"},
     on : Backends, init : Backends, covers : 0 .. changes, stray : BOOLEAN]

ServiceTypeOK ==
    /\ svc \in ServiceState /\ calls \in [Caller -> CallState]
    /\ op \in [is : {"none", "start", "switch", "shut"}, at : {"none", "journal", "init", "closed"},
               to : Backends, old : Backends]
    /\ leaving \in [is : {"none", "logout", "dispose"}, at : {"none", "waiting", "closed"}]
    /\ opened \subseteq Backends /\ given \in Backends
    /\ changes \in 0 .. MaxChanges /\ acts \in 0 .. MaxActs
    /\ synced \in 0 .. changes /\ excused \in 0 .. changes /\ missed \in 0 .. changes

\* Whoever has the lock is the only one whose engine runs, but for rounds that
\* went on after the time limit; and the lock is taken exactly while somebody has
\* it: it is never left behind, whatever ends a call.
Holders == {c \in Caller : calls[c].at # "none" /\ ~calls[c].stray}
OneEngine == Cardinality(Holders) <= 1 /\ (svc.lock <=> Holders # {})

\* Every change of a note gets to a backend without the user's help, unless it is
\* excused: the service was closed or never started, its call was skipped twice,
\* or failed and so did the retry.
Synchronised == \A n \in 1 .. MaxChanges : changes >= n ~> (synced >= n \/ excused >= n \/ missed >= n)

\* What the comment on autoSync says (lines 746-747): no change is lost because
\* its call was skipped while another one ran.
SkippedKept == \A n \in 1 .. MaxChanges : changes >= n ~> (synced >= n \/ excused >= n)
================================================================================
