------------------------------ MODULE ServerFront ------------------------------
(***************************************************************************)
(* Exchanges of the Node.js server: how a request comes in (handle and the *)
(* server's time limits in server/nodejs/server.js), passes the token and  *)
(* the limit on failures (AuthLimit), is handled (ServerStorage; here only *)
(* how that may end), answered and logged (src/middleware.js,              *)
(* src/logger.js), and how the process stops.                              *)
(*                                                                         *)
(* Node.js itself is external: it keeps connections alive between          *)
(* requests, and closes idle ones when the server closes, or not.          *)
(***************************************************************************)
EXTENDS AuthLimit

CONSTANTS
    Conn,         \* connections
    LogLevels,    \* values of logLevel
    MaxRequests   \* bound of the model: requests

VARIABLES
    level,    \* the Logger's level
    proc,     \* the process
    conn,     \* connections, and the exchange on each
    requests  \* how many there were

front_vars == <<level, proc, conn, requests>>

-----------------------------------------------------------------------------
(* src/logger.js, src/auth.js                                              *)

Levels == [debug |-> 10, info |-> 20, warn |-> 30, error |-> 40]

\* The constructor: a level it does not know is info.
LevelOf(name) == IF name \in DOMAIN Levels THEN Levels[name] ELSE Levels["info"]
Enabled(name) == Levels[name] >= level

\* extractIP: what a proxy has told first, if anything, or the other end, without
\* the prefix that an IPv4 address may have: it is the same one.
ClientIP(r) == IF r.forwarded \notin {"absent", "blank"} THEN r.forwarded ELSE r.remote.ip

\* checkToken
CheckToken(r) == r.scheme = "bearer" /\ r.token = "right"

-----------------------------------------------------------------------------
(* An exchange: what the handler has done (at), the status that            *)
(* wrapResponse has seen, what has been sent, and the log's entries.       *)

NoExchange == [status |-> 200, sent |-> 0, access |-> <<>>, errors |-> 0]
Connection(at) == [at |-> at, gone |-> FALSE, ex |-> NoExchange]

Busy(c) == conn[c].at \in {"reading", "working"}

\* wrapResponse
Captured(ex, status) == [ex EXCEPT !.status = status]

\* _log
Entered(ex, name) ==
    IF Enabled(name) THEN [ex EXCEPT !.access = Append(@, [level |-> name, status |-> ex.status])] ELSE ex

\* logging: in detail, or not.
Logged(ex) == Entered(ex, IF Enabled("debug") THEN "debug" ELSE "info")

\* handle, to its end: the answer, if anybody is there, and the entry (finally).
Over(x, status) ==
    LET left == x.gone
        ex == Captured(IF left THEN x.ex ELSE [x.ex EXCEPT !.sent = status], status)
    IN [at |-> IF left THEN "closed" ELSE "open", gone |-> FALSE, ex |-> Logged(ex)]

Ends(c, x) == conn' = [conn EXCEPT ![c] = x]

Connect(c) ==
    /\ proc = "up" /\ conn[c].at = "closed"
    /\ Ends(c, Connection("open"))
    /\ UNCHANGED <<auth_vars, level, proc, requests>>

\* handle, up to its first await: what AuthLimit answers is final but for 0.
Comes(c, r) ==
    /\ proc \in {"up", "closing"} /\ conn[c].at = "open" /\ requests < MaxRequests
    /\ requests' = requests + 1
    /\ LET i == ClientIP(r)
       IN \/ r.health /\ Health(i)
          \/ ~r.health /\ ~CheckToken(r) /\ (Locked(i) \/ Unauthorized(i))
          \/ ~r.health /\ CheckToken(r) /\ Authorized(i)
    /\ IF answer' = 0
       THEN \E at \in {"reading", "working"} : Ends(c, Connection(at))    \* with a body, or without
       ELSE Ends(c, Over(Connection("working"), answer'))
    /\ UNCHANGED <<level, proc>>

\* readBody: it is there.
ReadBody(c) ==
    /\ conn[c].at = "reading"
    /\ Ends(c, [conn[c] EXCEPT !.at = "working"])
    /\ UNCHANGED <<auth_vars, level, proc, requests>>

\* readBody: the connection is cut before the answer (400 to an operation).
TooLarge(c) ==
    /\ conn[c].at = "reading"
    /\ \E status \in {400, 413} : Ends(c, Over([conn[c] EXCEPT !.gone = TRUE], status))
    /\ UNCHANGED <<auth_vars, level, proc, requests>>

\* A handler answers.
Answers(c) ==
    /\ conn[c].at = "working"
    /\ \E status \in {200, 412, 500} : Ends(c, Over(conn[c], status))
    /\ UNCHANGED <<auth_vars, level, proc, requests>>

\* The path cannot be decoded, or the body of an operation is null: recovered.
Throws(c) ==
    /\ conn[c].at = "working"
    /\ Ends(c, Over([conn[c] EXCEPT !.ex.errors = @ + 1], 500))
    /\ UNCHANGED <<auth_vars, level, proc, requests>>

\* The client goes away; or nothing is written for too long (server.timeout), or
\* nothing comes (keepAliveTimeout).  readBody fails then, other work goes on.
Leaves(c) ==
    /\ proc \in {"up", "closing"} /\ conn[c].at # "closed" /\ ~conn[c].gone
    /\ Ends(c, CASE conn[c].at = "reading" -> Over([conn[c] EXCEPT !.gone = TRUE], 400)
                 [] conn[c].at = "working" -> [conn[c] EXCEPT !.gone = TRUE]
                 [] conn[c].at = "open" -> [conn[c] EXCEPT !.at = "closed"])
    /\ UNCHANGED <<auth_vars, level, proc, requests>>

\* requestTimeout: Node.js answers 408 and cuts the connection.
ReadTimeout(c) ==
    /\ conn[c].at = "reading"
    /\ LET over == Over([conn[c] EXCEPT !.gone = TRUE], 400)
       IN Ends(c, [over EXCEPT !.ex.sent = 408])
    /\ UNCHANGED <<auth_vars, level, proc, requests>>

-----------------------------------------------------------------------------
(* shutdown                                                                *)

\* The server no longer listens; a second signal changes nothing.
Signal ==
    /\ proc = "up" /\ proc' = "closing"
    /\ conn' \in {conn, [c \in Conn |-> IF conn[c].at = "open" THEN [conn[c] EXCEPT !.at = "closed"] ELSE conn[c]]}
    /\ UNCHANGED <<auth_vars, level, requests>>

Alive(c) == conn[c].at # "closed" /\ ~conn[c].gone

\* A mutant: only connections without an exchange are waited for.
NoneOpen_Idle == \A c \in Conn : conn[c].at # "open"

NoneOpen == \A c \in Conn : ~Alive(c)

\* server.close calls back.
Closed ==
    /\ proc = "closing" /\ NoneOpen
    /\ proc' = "exit 0"
    /\ UNCHANGED <<auth_vars, level, conn, requests>>

\* After 30 seconds.
ForcedExit ==
    /\ proc = "closing"
    /\ proc' = "exit 1"
    /\ UNCHANGED <<auth_vars, level, conn, requests>>

FrontInit ==
    /\ AuthInit
    /\ level \in {LevelOf(l) : l \in LogLevels}
    /\ proc = "up" /\ requests = 0
    /\ conn = [c \in Conn |-> Connection("closed")]

Incoming ==
    [health : BOOLEAN, scheme : {"bearer", "other"}, token : {"right", "wrong"},
     forwarded : IP \cup {"absent", "blank"}, remote : [ip : IP]]

Running(c) ==
    /\ proc \in {"up", "closing"}
    /\ ReadBody(c) \/ TooLarge(c) \/ Answers(c) \/ Throws(c) \/ ReadTimeout(c)

FrontNext ==
    \/ \E c \in Conn : Connect(c) \/ Running(c) \/ Leaves(c) \/ (\E r \in Incoming : Comes(c, r))
    \/ Signal \/ Closed \/ ForcedExit

FrontSpec == FrontInit /\ [][FrontNext]_<<auth_vars, front_vars>>

-----------------------------------------------------------------------------
(* Properties.                                                             *)

\* Every exchange that is over has one access entry, unless the level leaves it
\* out, and it tells what the client was sent; where they differ, the client has
\* got 408 or nothing (wrapResponse, logging, finally of handle).
Accounted ==
    \A c \in Conn :
        LET ex == conn[c].ex
            over == ~Busy(c) /\ (ex.sent # 0 \/ ex.access # <<>>)
        IN /\ over /\ Enabled("info") => Len(ex.access) = 1
           /\ ~over \/ ~Enabled("info") => ex.access = <<>>
           /\ ex.access # <<>> /\ ex.sent \notin {0, 408} => ex.access[1].status = ex.sent

\* The process leaves no exchange unanswered unless the time for it is up or the
\* client has gone (shutdown).
Graceful == proc = "exit 0" => \A c \in Conn : Busy(c) => conn[c].gone

\* Whatever becomes of an exchange, it is answered and logged as it went, and
\* stopping the server breaks off none that goes on.
Exchanges == Accounted /\ Graceful
================================================================================
