---------------------------- MODULE WebDatabase ----------------------------
(* The database worker of the web build (web/sqflite_sw.js, compiled from  *)
(* sqflite_common_ffi_web): clients (the tabs that share it) open one      *)
(* database and send it statements and transactions.  SQLite has a single  *)
(* connection to it, so a statement of one client must not run in the      *)
(* transaction of another: what does not belong to the open transaction    *)
(* waits until it has ended.                                               *)
(*                                                                         *)
(* A database (class ax) has the id of its transaction (cur, b in the      *)
(* code), the last id given (last, a), the calls that wait (waiting, c),   *)
(* those whose statement waits for the lock d (lock) and those that use or *)
(* wait for the lock as: drains of waiting, and the end of it at a close   *)
(* (turns).  open and owner are SQLite's: whether the connection is open   *)
(* and whose BEGIN holds.  A client has one call under way at a time.      *)
EXTENDS Integers, Sequences, FiniteSets, SequencesExt

CONSTANTS
    Client,
    Start   \* where the model starts, and its bounds

\* At the start the clients all have the database open, or the worker has had
\* no request yet.  Bounds: the clients there are; the statements, but for
\* those that end a transaction; the times a database is closed or deleted;
\* the statements that fail.
ASSUME StartAssumption ==
    Start \subseteq [open : BOOLEAN,
                    left : [tabs : SUBSET Client, calls : Nat, closes : Nat, faults : Nat]]

\* What stands for no client is none.
ASSUME ClientAssumption == 0 \notin Client /\ "answered" \notin Client

VARIABLES
    db,         \* the databases opened so far, by id ($.nr)
    single,     \* the id of the single instance of the path, or 0 ($.fP)
    globals,    \* the calls that hold or wait for the global lock ($.o1())
    files,      \* the file system in use ($.al), 0 before the first call
    systems,    \* file systems made so far
    phase,      \* where the call of a client is
    call,       \* what it asks for
    handle,     \* the database the client has been given, 0 for none
    tx,         \* the id of its transaction, 0 for none
    left,       \* what is left of the bounds
    raced,      \* two requests came before the file system was made
    reclosed,   \* a database was closed a second time
    orphaned,   \* calls may wait for ever: see Answered
    robbed      \* a transaction was forgotten before it began: see Robs

sched_vars == <<db, single, globals, files, systems>>
client_vars == <<phase, call, handle, tx>>
history == <<raced, reclosed, orphaned, robbed>>
vars == <<sched_vars, client_vars, left, history>>

-----------------------------------------------------------------------------
\* _ab: what a database schedules for itself, and what the global lock does.
Statements == {"execute", "batch", "begin", "end"}
Globals == {"open", "close", "delete"}
Answered_ == "answered"     \* stands in waiting for a call that was answered at a close
NoCall == [kind |-> "none", via |-> "none", res |-> "none"]
Database(system) ==
    [cur |-> 0, last |-> 0, waiting |-> <<>>, lock |-> <<>>, turns |-> <<>>,
     open |-> TRUE, owner |-> 0, files |-> system]

Mine(c) == db[handle[c]]
Ids == DOMAIN db
WithDb(i, d) == [j \in Ids \cup {i} |-> IF j = i THEN d ELSE db[j]]

\* A client posts a request.
Asks(c, kind) ==
    /\ phase[c] = "idle"
    /\ phase' = [phase EXCEPT ![c] = "sent"]
    /\ call' = [call EXCEPT ![c] = [NoCall EXCEPT !.kind = kind]]
    /\ UNCHANGED <<sched_vars, handle, tx, history>>

Spend(what) == left[what] > 0 /\ left' = [left EXCEPT ![what] = @ - 1]

Send(c) ==
    \/ handle[c] = 0 /\ Asks(c, "open") /\ UNCHANGED left
    \/ /\ handle[c] # 0 /\ Spend("calls")
       /\ \/ \E kind \in {"execute", "batch"} : Asks(c, kind)
          \/ tx[c] = 0 /\ Asks(c, "begin")
    \/ /\ tx[c] = 0 /\ Spend("closes")
       /\ Asks(c, "delete") \/ (handle[c] # 0 /\ Asks(c, "close"))

\* COMMIT or ROLLBACK: a client ends the transaction it has begun.
SendEnd(c) == tx[c] # 0 /\ Asks(c, "end") /\ UNCHANGED left

\* The answer reaches the client.
Answers(c, h, t) ==
    /\ phase' = [phase EXCEPT ![c] = "idle"]
    /\ call' = [call EXCEPT ![c] = NoCall]
    /\ handle' = [handle EXCEPT ![c] = h]
    /\ tx' = [tx EXCEPT ![c] = t]

-----------------------------------------------------------------------------
(* Scheduling: A.ax.aM.                                                    *)

\* An action starts: BEGIN takes an id at once (A.im), then its statement
\* waits for the lock.
Started(d, c) ==
    LET e == [d EXCEPT !.lock = Append(@, c)] IN
    IF call[c].kind = "begin" THEN [e EXCEPT !.last = @ + 1, !.cur = e.last + 1] ELSE e

\* Mutant of Free: whoever sends a BEGIN need not wait.
Free_Begin(c) == Mine(c).cur = 0 \/ call[c].kind = "begin"

Free(c) == Mine(c).cur = 0
Own(c) == Mine(c).cur # 0 /\ Mine(c).cur = tx[c]

Schedule(c) ==
    LET i == handle[c]
        d == db[i]
    IN IF Free(c) \/ Own(c)
       THEN /\ db' = WithDb(i, Started(d, c))
            /\ phase' = [phase EXCEPT ![c] = "turn"]
            /\ call' = [call EXCEPT ![c].via = IF Own(c) THEN "own" ELSE "free"]
       ELSE /\ db' = WithDb(i, [d EXCEPT !.waiting = Append(@, c)])
            /\ phase' = [phase EXCEPT ![c] = "queued"]
            /\ call' = [call EXCEPT ![c].via = "queue"]

Dispatch(c) ==
    /\ \/ call[c].kind \in Statements /\ Schedule(c) /\ UNCHANGED globals
       \/ /\ call[c].kind \in Globals
          /\ globals' = Append(globals, c)
          /\ phase' = [phase EXCEPT ![c] = "global"]
          /\ UNCHANGED <<db, call>>
    /\ UNCHANGED <<single, handle, tx, left, history>>

\* SQLite is loaded, and the file system made, for the first request.
Boots(c) == files = 0

\* A.e_: the worker takes the request.
Arrive(c) ==
    /\ phase[c] = "sent"
    /\ IF Boots(c)
       THEN /\ phase' = [phase EXCEPT ![c] = "booting"]
            /\ raced' = (raced \/ \E b \in Client : phase[b] = "booting")
            /\ UNCHANGED <<db, globals, single, call, handle, tx, left, reclosed, orphaned, robbed>>
       ELSE Dispatch(c)
    /\ UNCHANGED <<files, systems>>

\* A.fQ makes a file system for every call.
NewSystem == systems + 1

\* SQLite is loaded: what it made is used from now on, and replaces
\* what a request that came meanwhile may have made.
Booted(c) ==
    /\ phase[c] = "booting"
    /\ systems' = NewSystem /\ files' = NewSystem
    /\ Dispatch(c)

\* SQLite could not be loaded; the next request tries again.
BootFails(c) ==
    /\ phase[c] = "booting" /\ Spend("faults")
    /\ Answers(c, handle[c], tx[c])
    /\ UNCHANGED <<sched_vars, history>>

-----------------------------------------------------------------------------
(* Statements run one after the other, each without interruption.          *)

\* What a statement may do to the database d: its outcome (error is SQLite's
\* exception, failure any other, told one that says that the transaction has
\* ended) and the database after it.
Outcome(res, d) == [res |-> res, db |-> d, fault |-> FALSE]
Fault(res, d) == [Outcome(res, d) EXCEPT !.fault = TRUE]

\* An error leaves SQLite's transaction open or rolls it back.
AfterError(d) == {d, [d EXCEPT !.owner = 0]}

RunBegin(c, d) ==
    {IF d.owner = 0 THEN Outcome("ok", [d EXCEPT !.owner = c]) ELSE Outcome("error", d),
     Fault("error", d)}

RunEnd(d) ==
    {IF d.owner # 0 THEN Outcome("ok", [d EXCEPT !.owner = 0]) ELSE Outcome("error", d),
     Fault("error", d)}

RunStatement(d) == {Outcome("ok", d)} \cup {Fault("error", e) : e \in AfterError(d)}

\* With continueOnError the batch goes on, unless it finds an id and no
\* transaction: it takes the id for that of a transaction rolled back (A.hN).
RunBatch(d) ==
    {Outcome("ok", d)}
      \cup {Fault("failure", e) : e \in AfterError(d)}
      \cup {IF d.cur # 0 /\ e.owner = 0 THEN Fault("told", [e EXCEPT !.cur = 0])
                                       ELSE Fault("ok", e) : e \in AfterError(d)}

\* After a close nothing runs, but such a batch asks the connection that is
\* gone whether a transaction is open: either answer.
RunClosed(c, d) ==
    {Outcome("failure", d)}
      \cup IF call[c].kind = "batch" /\ d.cur # 0 THEN {Outcome("told", [d EXCEPT !.cur = 0])} ELSE {}

Run(c, d) ==
    IF ~d.open THEN RunClosed(c, d)
    ELSE CASE call[c].kind = "begin" -> RunBegin(c, d)
           [] call[c].kind = "end" -> RunEnd(d)
           [] call[c].kind = "execute" -> RunStatement(d)
           [] call[c].kind = "batch" -> RunBatch(d)

\* A batch that runs outside any transaction finds the id of a BEGIN whose
\* statement waits behind it.
Robs(c, o) == o.res = "told" /\ call[c].via # "own" /\ Mine(c).open

\* The head of the lock's chain runs its statement.
Execute(c) ==
    /\ phase[c] = "turn" /\ Head(Mine(c).lock) = c
    /\ \E o \in Run(c, Mine(c)) :
         /\ IF o.fault THEN Spend("faults") ELSE UNCHANGED left
         /\ db' = WithDb(handle[c], [o.db EXCEPT !.lock = Tail(@)])
         /\ phase' = [phase EXCEPT ![c] = "ran"]
         /\ call' = [call EXCEPT ![c].res = o.res]
         /\ robbed' = (robbed \/ Robs(c, o))
    /\ UNCHANGED <<single, globals, files, systems, handle, tx, raced, reclosed, orphaned>>

\* A.im goes on after its statement: a BEGIN that failed gives the id back,
\* a COMMIT or ROLLBACK that succeeded ends the transaction.
Settled(d, c) ==
    IF \/ call[c].kind = "begin" /\ call[c].res # "ok"
       \/ call[c].kind = "end" /\ call[c].res = "ok"
    THEN [d EXCEPT !.cur = 0] ELSE d

Settle(c) ==
    /\ phase[c] = "ran"
    /\ db' = WithDb(handle[c], Settled(Mine(c), c))
    /\ phase' = [phase EXCEPT ![c] = "settled"]
    /\ UNCHANGED <<single, globals, files, systems, call, handle, tx, left, history>>

\* Mutant of Drains: the calls that wait are left to the next transaction.
Drains_Never(d) == d

\* A.ax.b8
Drains(d) == IF d.waiting # <<>> THEN [d EXCEPT !.turns = Append(@, "drain")] ELSE d

\* An error of SQLite after which no transaction is open ends it for the
\* worker too, and the client is told.
RolledBack(c) ==
    call[c].via = "own" /\ call[c].res = "error" /\ Mine(c).cur # 0 /\ Mine(c).open /\ Mine(c).owner = 0

\* Mutant of TxAfter: nobody is told.
TxAfter_Untold(c) ==
    CASE call[c].kind = "begin" /\ call[c].res = "ok" -> Mine(c).cur
      [] call[c].kind = "end" /\ call[c].res = "ok" -> 0
      [] OTHER -> tx[c]

\* The id that the client has after its call: a BEGIN is answered with one.
TxAfter(c) ==
    CASE call[c].kind = "begin" /\ call[c].res = "ok" -> Mine(c).cur
      [] call[c].kind = "end" /\ call[c].res = "ok" -> 0
      [] call[c].res = "told" \/ RolledBack(c) -> 0
      [] OTHER -> tx[c]

Returned(d, c) ==
    CASE call[c].via = "free" -> d
      [] call[c].via = "own" -> IF d.cur = 0 THEN Drains(d) ELSE d
      [] call[c].via = "queue" -> [d EXCEPT !.waiting = Tail(@)]

\* A.aM goes on: a call of the transaction that leaves none drains the queue;
\* one that came from the queue leaves it (A.hR), whose drain goes on.
Return(c) ==
    LET i == handle[c]
        d == IF RolledBack(c) THEN [Mine(c) EXCEPT !.cur = 0] ELSE Mine(c)
    IN /\ phase[c] = "settled"
       /\ db' = WithDb(i, Returned(d, c))
       /\ Answers(c, handle[c], TxAfter(c))
       /\ orphaned' = (orphaned \/ (call[c].via = "free" /\ d.cur = 0 /\ d.waiting # <<>>))
       /\ UNCHANGED <<single, globals, files, systems, left, raced, reclosed, robbed>>

\* A.hR: one after the other until one begins a transaction; a call that was
\* answered already fails again and stops it.
Drain(i) ==
    LET d == db[i]
        c == Head(d.waiting)
    IN /\ d.turns # <<>> /\ Head(d.turns) = "drain"
       /\ d.waiting # <<>> /\ c # Answered_ => phase[c] = "queued"
       /\ IF d.waiting = <<>> \/ d.cur # 0 \/ c = Answered_
          THEN db' = WithDb(i, [d EXCEPT !.turns = Tail(@)]) /\ UNCHANGED phase
          ELSE db' = WithDb(i, Started(d, c)) /\ phase' = [phase EXCEPT ![c] = "turn"]
       /\ UNCHANGED <<single, globals, files, systems, call, handle, tx, left, history>>

-----------------------------------------------------------------------------
(* Opening and closing, under the global lock (A.bL).                      *)

\* Mutant of Holds: nobody waits for the global lock.
Holds_Anyone(c) == c \in ToSet(globals)

Holds(c) == globals # <<>> /\ Head(globals) = c
Released(c) == Tail(globals)     \* the call c that holds it is the first

\* A.ip: the single instance that is open is given again, or else one is opened.
OpenStart(c) ==
    /\ phase[c] = "global" /\ call[c].kind = "open" /\ Holds(c)
    /\ IF single # 0
       THEN Answers(c, single, 0) /\ globals' = Released(c)
       ELSE phase' = [phase EXCEPT ![c] = "opening"] /\ UNCHANGED <<call, handle, tx, globals>>
    /\ UNCHANGED <<db, single, files, systems, left, history>>

OpenDone(c) ==
    LET i == Cardinality(Ids) + 1 IN
    /\ phase[c] = "opening"
    /\ db' = WithDb(i, Database(files))
    /\ single' = i
    /\ Answers(c, i, 0)
    /\ globals' = Released(c)
    /\ UNCHANGED <<files, systems, left, history>>

\* SQLite cannot open the file: the client has no database.
OpenFails(c) ==
    /\ phase[c] = "opening" /\ Spend("faults")
    /\ Answers(c, 0, 0)
    /\ globals' = Released(c)
    /\ UNCHANGED <<db, single, files, systems, history>>

\* The calls that wait are to be answered (A.ax.aZ), the connection is
\* closed (A.ek.P); SQLite rolls back.
EndsQueue(d) == IF d.waiting # <<>> THEN [d EXCEPT !.turns = Append(@, "close")] ELSE d
Disconnected(d) == [d EXCEPT !.open = FALSE, !.owner = 0]
Closed(d) == Disconnected(EndsQueue(d))

Abandons(i) == orphaned' = (orphaned \/ db[i].cur # 0)

\* A.kF: whichever instance is closed, the path has none from now on.
Close(c) ==
    /\ phase[c] = "global" /\ call[c].kind = "close" /\ Holds(c)
    /\ db' = WithDb(handle[c], Closed(Mine(c)))
    /\ single' = 0
    /\ Abandons(handle[c])
    /\ reclosed' = (reclosed \/ ~Mine(c).open)
    /\ Answers(c, 0, 0)
    /\ globals' = Released(c)
    /\ UNCHANGED <<files, systems, left, raced, robbed>>

\* A.il: the single instance is closed before the file is deleted.
DeleteDatabase(c) ==
    /\ phase[c] = "global" /\ call[c].kind = "delete" /\ Holds(c)
    /\ IF single # 0
       THEN db' = WithDb(single, Closed(db[single])) /\ Abandons(single)
       ELSE UNCHANGED <<db, orphaned>>
    /\ single' = 0
    /\ Answers(c, handle[c], tx[c])
    /\ globals' = Released(c)
    /\ UNCHANGED <<files, systems, left, raced, reclosed, robbed>>

\* A.hM: the calls that wait are answered, the database has been closed; they
\* stay in the list, at which a second close fails.
EndQueue(i) ==
    LET d == db[i]
        rest == ToSet(d.waiting)
    IN /\ d.turns # <<>> /\ Head(d.turns) = "close"
       /\ IF Answered_ \in rest
          THEN /\ db' = WithDb(i, [d EXCEPT !.turns = Tail(@)])
               /\ UNCHANGED <<phase, call>>
          ELSE /\ db' = WithDb(i, [d EXCEPT !.turns = Tail(@), !.waiting = [k \in DOMAIN @ |-> Answered_]])
               /\ phase' = [c \in Client |-> IF c \in rest THEN "idle" ELSE phase[c]]
               /\ call' = [c \in Client |-> IF c \in rest THEN NoCall ELSE call[c]]
       /\ UNCHANGED <<single, globals, files, systems, handle, tx, left, history>>

-----------------------------------------------------------------------------
Init ==
    /\ \E start \in Start :
         /\ left = start.left
         /\ IF start.open
            THEN db = <<Database(1)>> /\ single = 1 /\ files = 1 /\ systems = 1
            ELSE db = <<>> /\ single = 0 /\ files = 0 /\ systems = 0
    /\ globals = <<>>
    /\ phase = [c \in Client |-> "idle"] /\ call = [c \in Client |-> NoCall]
    /\ handle = [c \in Client |-> single] /\ tx = [c \in Client |-> 0]
    /\ raced = FALSE /\ reclosed = FALSE /\ orphaned = FALSE /\ robbed = FALSE

Worker(c) ==
    \/ Arrive(c) \/ Booted(c) \/ BootFails(c) \/ Execute(c) \/ Settle(c) \/ Return(c)
    \/ OpenStart(c) \/ OpenDone(c) \/ OpenFails(c) \/ Close(c) \/ DeleteDatabase(c)

Next ==
    \/ \E c \in left.tabs : Send(c) \/ SendEnd(c) \/ Worker(c)
    \/ \E i \in Ids : Drain(i) \/ EndQueue(i)

Spec == Init /\ [][Next]_vars

\* The worker's event loop serves what has come, and a client ends the
\* transaction it has begun.
FairSpec ==
    /\ Spec
    /\ \A c \in Client : WF_vars(Worker(c)) /\ WF_vars(SendEnd(c))
    /\ WF_vars(\E i \in Ids : Drain(i) \/ EndQueue(i))

-----------------------------------------------------------------------------
Phases == {"idle", "sent", "booting", "queued", "turn", "ran", "settled", "global", "opening"}

TypeOK ==
    /\ phase \in [Client -> Phases]
    /\ single \in {0} \cup Ids /\ handle \in [Client -> {0} \cup Ids]
    /\ \A i \in Ids :
         /\ db[i].cur \in 0 .. db[i].last
         /\ \A c \in ToSet(db[i].waiting) \ {Answered_} : phase[c] \in {"queued", "turn", "ran", "settled"}

\* No statement runs in a transaction that another client has begun, unless
\* a batch took the worker's knowledge of one away.
Isolated ==
    [][\A c \in Client :
         phase[c] = "turn" /\ phase'[c] = "ran" /\ ~robbed => Mine(c).owner \in {0, c}]_vars

\* The worker knows of the transaction that SQLite has open: as soon as it
\* forgets it, another client's statements would run in it.
Known == ~robbed => \A i \in Ids : db[i].owner # 0 => db[i].cur # 0

\* A client that believes to be in a transaction is in the one the worker
\* knows of; it is told when SQLite has rolled it back.
Told ==
    \A c \in Client : phase[c] = "idle" /\ tx[c] # 0 /\ ~robbed => Mine(c).cur = tx[c]

\* A transaction that the worker knows of has a client that will end it.
Ending ==
    \A i \in Ids : db[i].cur # 0 /\ ~orphaned =>
      \E c \in Client : handle[c] = i /\ (tx[c] = db[i].cur \/ call[c].kind = "begin")

\* Worker, SQLite and clients agree which transaction is open.
Agreed == TypeOK /\ Known /\ Told /\ Ending

\* A path has one open instance, the one that is given to the next client,
\* unless one was closed twice.
OneInstance ==
    /\ ~reclosed => \A i \in Ids : db[i].open => i = single
    /\ single # 0 => db[single].open

\* All databases are in the file system that is in use, unless two requests
\* came before the first one had made it.
OneFileSystem == ~raced => \A i \in Ids : db[i].files = files

\* There is one database behind a path, whoever opens it.
OneDatabase == OneInstance /\ OneFileSystem

\* Every call is answered, unless a BEGIN failed while calls were waiting,
\* the database was closed with a transaction open, or one was forgotten.
Answered ==
    \A c \in Client : phase[c] # "idle" ~> (phase[c] = "idle" \/ orphaned \/ robbed)

=============================================================================
