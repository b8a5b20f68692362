------------------------------- MODULE AuthLimit -------------------------------
(***************************************************************************)
(* The front of the Node.js server: handle (server/nodejs/server.js), the  *)
(* limit on failed authentications it keeps in a FailTracker (src/auth.js)  *)
(* and the configuration that sets it (src/config.js).  A request runs     *)
(* without an await until it is answered or handed to its handler          *)
(* (ServerStorage), so it is one step.                                     *)
(*                                                                         *)
(* A time is kept as its age, counted up to the window, beyond which a     *)
(* failure no longer matters; so the clock needs no bound.                 *)
(***************************************************************************)
EXTENDS Integers, Sequences, FiniteSets

CONSTANTS
    IP,      \* addresses requests come from
    DefaultLimit,  \* rateLimit of defaultConfig
    InFile,        \* values of rateLimit that a configuration file may give
    OnLine,        \* values of --rate-limit
    Unset,         \* no such value
    NaN,           \* what parseInt makes of a text that is no number
    Window,        \* windowMs, in steps of the clock
    MaxIPs,        \* addresses the tracker may hold
    MaxFailures    \* bound of the model: failures kept for an address without a limit

ASSUME LimitAssumption ==
    /\ DefaultLimit \in Nat \ {0} /\ Window \in Nat \ {0} /\ MaxIPs \in Nat \ {0}
    /\ InFile \subseteq Int \cup {Unset} /\ OnLine \subseteq Int \cup {Unset, NaN}
    /\ Unset \notin Int /\ NaN \notin Int /\ NaN # Unset

VARIABLES
    limit,    \* cfg.rateLimit: failures within the window that lock an address out
    tracker,  \* the FailTracker
    answer,   \* the status of the latest answer; 0 if a handler is to give it
    (* Bookkeeping that the program does not keep.                         *)
    given,    \* given[i]: the failures of i within the window, since it last succeeded
    heard,    \* heard[i]: time since i last sent a wrong token
    lost      \* addresses of which the tracker forgot such a failure

auth_vars == <<limit, tracker, answer, given, heard, lost>>

Age == 0 .. Window

\* What the filter by the cutoff leaves: failures are kept in the order in which
\* they came, so that those that have expired are the first.
Expired(ages) == {k \in DOMAIN ages : ages[k] >= Window}
Recent(ages) == SubSeq(ages, Cardinality(Expired(ages)) + 1, Len(ages))
Older(a) == IF a < Window THEN a + 1 ELSE a

\* The limit locks addresses out: zero and less switch it off, and so does NaN,
\* which nothing is greater than or equal to.
Limited == limit # NaN /\ limit > 0

\* A Map with addresses as keys.
IsMap(f, S) == DOMAIN f \subseteq IP /\ f \in [DOMAIN f -> S]

Only(f, S) == [i \in DOMAIN f \cap S |-> f[i]]
Set(f, i, v) == [j \in DOMAIN f \cup {i} |-> IF j = i THEN v ELSE f[j]]
Failures(t, i) == IF i \in DOMAIN t.failures THEN t.failures[i] ELSE <<>>

-----------------------------------------------------------------------------
\* A mutant: the addresses heard of latest go.
Evict_Newest(t) ==
    LET fresh == {i \in DOMAIN t.failures : Recent(t.failures[i]) # <<>>}
        known == DOMAIN t.lastAccess \ (DOMAIN t.failures \ fresh)
        Staying(S) ==
            /\ \A i \in known \ S, j \in S : t.lastAccess[i] <= t.lastAccess[j]
            /\ IF Cardinality(fresh) <= MaxIPs
               THEN S = known
               ELSE Cardinality(S \cap fresh) = MaxIPs
    IN  {[failures   |-> [i \in fresh \cap S |-> Recent(t.failures[i])],
          lastAccess |-> Only(t.lastAccess, S)] : S \in {R \in SUBSET known : Staying(R)}}

\* evict: expired failures go; if that is not enough, the addresses heard of
\* longest ago go (which of several, the order of the Map decides).
Evict(t) ==
    LET fresh == {i \in DOMAIN t.failures : Recent(t.failures[i]) # <<>>}
        known == DOMAIN t.lastAccess \ (DOMAIN t.failures \ fresh)
        Staying(S) ==
            /\ \A i \in known \ S, j \in S : t.lastAccess[i] >= t.lastAccess[j]
            /\ IF Cardinality(fresh) <= MaxIPs
               THEN S = known
               ELSE Cardinality(S \cap fresh) = MaxIPs
    IN  {[failures   |-> [i \in fresh \cap S |-> Recent(t.failures[i])],
          lastAccess |-> Only(t.lastAccess, S)] : S \in {R \in SUBSET known : Staying(R)}}

Bound(t) == IF Cardinality(DOMAIN t.failures) > MaxIPs THEN Evict(t) ELSE {t}

\* isRateLimited: what it leaves of the tracker, and what it answers.
Asked(t, i) ==
    IF limit # NaN /\ ~Limited THEN {t}
    ELSE LET list == Recent(Failures(t, i))
         IN  Bound([failures   |-> IF list = <<>>
                                   THEN Only(t.failures, IP \ {i})
                                   ELSE Set(t.failures, i, list),
                    lastAccess |-> Set(t.lastAccess, i, 0)])

\* A mutant: expired failures count.
IsRateLimited_Expired(t, i) == Limited /\ Len(Failures(t, i)) >= limit

IsRateLimited(t, i) == Limited /\ Len(Recent(Failures(t, i))) >= limit

\* A mutant: the number of addresses is not looked at.
Recorded_Unbounded(t, i) ==
    {[failures   |-> Set(t.failures, i, Append(Failures(t, i), 0)),
      lastAccess |-> Set(t.lastAccess, i, 0)]}

\* recordFailure
Recorded(t, i) ==
    Bound([failures   |-> Set(t.failures, i, Append(Failures(t, i), 0)),
           lastAccess |-> Set(t.lastAccess, i, 0)])

\* resetFailures
Reset(t, i) == [failures   |-> Only(t.failures, IP \ {i}),
                lastAccess |-> Only(t.lastAccess, IP \ {i})]

-----------------------------------------------------------------------------
\* loadConfigFile: a zero in the file counts as not set.
FromFile(inFile, default) == IF inFile \in {Unset, 0} THEN default ELSE inFile

\* parseArgs, for any setting: the command line goes before the file, and the
\* file before the default.
Setting(inFile, onLine, default) ==
    IF onLine # Unset THEN onLine ELSE FromFile(inFile, default)

RateLimit(inFile, onLine) == Setting(inFile, onLine, DefaultLimit)

AuthInit ==
    /\ \E f \in InFile, a \in OnLine : limit = RateLimit(f, a)
    /\ tracker = [failures |-> <<>>, lastAccess |-> <<>>]
    /\ answer = 200
    /\ given = [i \in IP |-> <<>>]
    /\ heard = [i \in IP |-> Window]
    /\ lost = {}

\* Bookkeeping: addresses whose recent failures the tracker does not all hold.
Forgotten == {i \in IP : Limited /\ Recent(Failures(tracker', i)) # given'[i]}

\* The bookkeeping keeps the latest failures, as many as the limit, if there is one.
Latest(s) ==
    IF ~Limited THEN <<>>
    ELSE IF Len(s) > limit THEN SubSeq(s, Len(s) - limit + 1, Len(s))
    ELSE s

\* The methods of the paths that handle knows once a request is authorised.
Methods ==
    [manifest  |-> {"GET", "PUT", "DELETE"},
     blobs     |-> {"GET"},
     blob      |-> {"GET", "PUT", "DELETE"},
     resources |-> {"GET", "PUT", "DELETE", "POST"}]
Routed(path, method) ==
    IF path \notin DOMAIN Methods THEN 404
    ELSE IF method \in Methods[path] THEN 0
    ELSE IF path = "blobs" THEN 404 ELSE 405

\* handle: whether the server is alive is told to everybody.
Health(i) ==
    /\ answer' = 200
    /\ UNCHANGED <<limit, tracker, given, heard, lost>>

\* handle: a wrong token.  An address that is locked out gets 429 and the
\* attempt is not counted.
Locked(i) ==
    /\ IsRateLimited(tracker, i)
    /\ tracker' \in Asked(tracker, i)
    /\ answer' = 429
    /\ heard' = [heard EXCEPT ![i] = 0]
    /\ UNCHANGED <<limit, given>>
    /\ lost' = Forgotten

Unauthorized(i) ==
    /\ ~IsRateLimited(tracker, i)
    /\ Limited \/ Len(Failures(tracker, i)) < MaxFailures
    /\ \E t \in Asked(tracker, i) : tracker' \in Recorded(t, i)
    /\ answer' = 401
    /\ heard' = [heard EXCEPT ![i] = 0]
    /\ given' = [given EXCEPT ![i] = Latest(Append(@, 0))]
    /\ lost' = Forgotten
    /\ UNCHANGED limit

\* handle: the right token, whatever went before.
Authorized(i) ==
    /\ tracker' = Reset(tracker, i)
    /\ answer' \in {Routed(p, m) : p \in DOMAIN Methods \cup {"other"},
                                  m \in {"GET", "PUT", "DELETE", "POST"}}
    /\ given' = [given EXCEPT ![i] = <<>>]
    /\ UNCHANGED <<limit, heard>>
    /\ lost' = Forgotten

Tick ==
    /\ tracker' =
        [failures   |-> [i \in DOMAIN tracker.failures |->
                            [k \in DOMAIN tracker.failures[i] |-> Older(tracker.failures[i][k])]],
         lastAccess |-> [i \in DOMAIN tracker.lastAccess |-> Older(tracker.lastAccess[i])]]
    /\ given' = [i \in IP |-> Recent([k \in DOMAIN given[i] |-> Older(given[i][k])])]
    /\ heard' = [i \in IP |-> Older(heard[i])]
    /\ lost' = Forgotten
    /\ UNCHANGED <<limit, answer>>

AuthNext ==
    Tick \/ \E i \in IP : Health(i) \/ Locked(i) \/ Unauthorized(i) \/ Authorized(i)
AuthSpec == AuthInit /\ [][AuthNext]_auth_vars

-----------------------------------------------------------------------------
(* Properties.                                                             *)

AuthTypeOK ==
    /\ tracker = [failures |-> tracker.failures, lastAccess |-> tracker.lastAccess]
    /\ IsMap(tracker.failures, Seq(Age)) /\ IsMap(tracker.lastAccess, Age)
    /\ limit \in Int \cup {NaN}
    /\ answer \in {200, 401, 404, 405, 429, 0}
    /\ given \in [IP -> Seq(Age)] /\ heard \in [IP -> Age] /\ lost \subseteq IP

\* With a limit set, the tracker's memory is bounded: MaxIPs addresses in both
\* maps, which hold the same ones, and Limit failures for each (evict,
\* recordFailure).
Bounded ==
    Limited =>
        /\ DOMAIN tracker.failures = DOMAIN tracker.lastAccess
        /\ Cardinality(DOMAIN tracker.failures) <= MaxIPs
        /\ \A i \in DOMAIN tracker.failures : Len(tracker.failures[i]) <= limit

\* Nobody is locked out without Limit failures of its own within the window
\* since its last success: what is expired, reset or was answered 429 does not
\* count (isRateLimited, resetFailures).
NoFalseLockout ==
    \A i \in IP : IsRateLimited(tracker, i) => Len(given[i]) >= limit

\* Every address with Limit such failures is locked out, unless the tracker
\* forgot some of them (isRateLimited, recordFailure).
Enforced ==
    Limited => \A i \in IP \ lost : Len(given[i]) >= limit => IsRateLimited(tracker, i)

\* Exactly those are locked out who should be.
Lockouts == AuthTypeOK /\ NoFalseLockout /\ Enforced

\* The tracker forgets failures only when more than MaxIPs addresses have failed
\* within the window, and those of an address heard of no later than the ones it
\* keeps (evict).
ForgetsOldest ==
    [][\A i \in lost' \ lost :
          /\ Cardinality({j \in IP : given'[j] # <<>>}) > MaxIPs
          /\ \A j \in DOMAIN tracker'.failures : heard'[i] >= heard'[j]]_auth_vars
================================================================================
