--------------------------- MODULE WebDatabaseProofs ---------------------------
(* Proofs about the database worker of the web build (WebDatabase).        *)
EXTENDS WebDatabase, FiniteSetTheorems, TLAPS

-----------------------------------------------------------------------------
(* Queues.  A client is in a queue at most once; Answered_ may be there     *)
(* several times.                                                          *)

In(b, s) == \E k \in 1 .. Len(s) : s[k] = b
Distinct(s) == \A j, k \in 1 .. Len(s) : s[j] = s[k] /\ s[j] \in Client => j = k
AtEnd(s, c) == s # <<>> /\ s[Len(s)] = c
Entry == Client \cup {Answered_}

LEMMA InSet ==
  ASSUME NEW s \in Seq(Entry)
  PROVE  \A b : b \in ToSet(s) <=> In(b, s)
<1>1. DOMAIN s = 1 .. Len(s)
  OBVIOUS
<1> QED
  BY <1>1 DEF ToSet, In

LEMMA Appended ==
  ASSUME NEW s \in Seq(Entry), NEW c \in Client
  PROVE  /\ Append(s, c) \in Seq(Entry) /\ Append(s, c) # <<>> /\ AtEnd(Append(s, c), c)
         /\ s \in Seq(Client) => Append(s, c) \in Seq(Client)
         /\ \A b : In(b, Append(s, c)) <=> In(b, s) \/ b = c
         /\ Distinct(s) /\ ~In(c, s) => Distinct(Append(s, c))
         /\ s # <<>> => Head(Append(s, c)) = Head(s)
<1>1. c \in Entry
  BY DEF Entry
<1>0. Append(s, c) \in Seq(Entry)
  BY <1>1
<1>2. PICK x \in Seq(Entry) : x = Append(s, c)
  BY <1>0
<1>3. /\ Len(x) = Len(s) + 1 /\ Len(s) \in Nat /\ x[Len(s) + 1] = c
      /\ \A k \in 1 .. Len(s) : x[k] = s[k]
  BY <1>1, <1>2
<1>4. \A k \in 1 .. Len(x) : k = Len(s) + 1 \/ k \in 1 .. Len(s)
  BY <1>3
<1>5. Len(s) + 1 \in 1 .. Len(x) /\ \A k \in 1 .. Len(s) : k \in 1 .. Len(x)
  BY <1>3
<1>6. \A b : In(b, x) <=> In(b, s) \/ b = c
  BY <1>3, <1>4, <1>5 DEF In
<1>7. Distinct(s) /\ ~In(c, s) => Distinct(x)
  BY <1>3, <1>4 DEF In, Distinct
<1>8. x # <<>> /\ AtEnd(x, c)
  BY <1>3 DEF AtEnd
<1>9. s # <<>> => Head(x) = Head(s)
  BY <1>2, <1>3
<1>10. s \in Seq(Client) => x \in Seq(Client)
  BY <1>2
<1> QED
  BY <1>2, <1>6, <1>7, <1>8, <1>9, <1>10

LEMMA Tailed ==
  ASSUME NEW s \in Seq(Entry), s # <<>>
  PROVE  /\ Tail(s) \in Seq(Entry) /\ Head(s) \in Entry /\ In(Head(s), s)
         /\ s \in Seq(Client) => Tail(s) \in Seq(Client) /\ Head(s) \in Client
         /\ Distinct(s) => Distinct(Tail(s))
         /\ Distinct(s) => \A b \in Client : In(b, Tail(s)) <=> In(b, s) /\ b # Head(s)
         /\ \A c : AtEnd(s, c) /\ c # Head(s) => AtEnd(Tail(s), c)
         /\ Distinct(s) => \A c \in Client : AtEnd(s, c) /\ c = Head(s) => \A b : In(b, s) => b = c
<1>0. Tail(s) \in Seq(Entry)
  OBVIOUS
<1>1. PICK x \in Seq(Entry) : x = Tail(s)
  BY <1>0
<1>2. /\ Len(x) = Len(s) - 1 /\ Len(s) \in Nat \ {0} /\ Head(s) = s[1] /\ Len(x) \in Nat
      /\ \A k \in 1 .. Len(x) : x[k] = s[k + 1]
  BY <1>1
<1>3. \A k \in 1 .. Len(s) : k = 1 \/ (k - 1 \in 1 .. Len(x) /\ (k - 1) + 1 = k)
  BY <1>2
<1>4. 1 \in 1 .. Len(s) /\ \A k \in 1 .. Len(x) : k + 1 \in 1 .. Len(s) /\ k + 1 # 1
  BY <1>2
<1>5. Head(s) \in Entry /\ In(Head(s), s)
  BY <1>2, <1>4 DEF In
<1>6. ASSUME Distinct(s) PROVE Distinct(x)
  <2>1. SUFFICES ASSUME NEW j \in 1 .. Len(x), NEW k \in 1 .. Len(x), x[j] = x[k], x[j] \in Client
                 PROVE  j = k
    BY DEF Distinct
  <2>2. s[j + 1] = s[k + 1] /\ s[j + 1] \in Client
    BY <1>2, <2>1
  <2>3. j + 1 = k + 1
    BY <1>4, <1>6, <2>2 DEF Distinct
  <2> QED
    BY <2>3
<1>7. ASSUME Distinct(s), NEW b \in Client PROVE In(b, x) <=> In(b, s) /\ b # Head(s)
  <2>1. ASSUME In(b, x) PROVE In(b, s) /\ b # Head(s)
    <3>1. PICK k \in 1 .. Len(x) : x[k] = b
      BY <2>1 DEF In
    <3>2. k + 1 \in 1 .. Len(s) /\ s[k + 1] = b /\ k + 1 # 1
      BY <1>2, <1>4, <3>1
    <3> QED
      BY <1>2, <1>4, <1>7, <3>2 DEF In, Distinct
  <2>2. ASSUME In(b, s), b # Head(s) PROVE In(b, x)
    <3>1. PICK k \in 1 .. Len(s) : s[k] = b
      BY <2>2 DEF In
    <3>2. k - 1 \in 1 .. Len(x) /\ x[k - 1] = s[k]
      BY <1>2, <1>3, <2>2, <3>1
    <3> QED
      BY <3>1, <3>2 DEF In
  <2> QED
    BY <2>1, <2>2
<1>8. ASSUME NEW c, AtEnd(s, c), c # Head(s) PROVE AtEnd(x, c)
  <2>1. s[Len(s)] = c /\ Len(s) # 1
    BY <1>2, <1>8 DEF AtEnd
  <2>2. Len(x) \in 1 .. Len(x) /\ Len(x) + 1 = Len(s)
    BY <1>2, <2>1
  <2> QED
    BY <1>2, <2>1, <2>2 DEF AtEnd
<1>9. ASSUME Distinct(s), NEW c \in Client, AtEnd(s, c), c = Head(s), NEW b, In(b, s) PROVE b = c
  <2>1. Len(s) = 1
    BY <1>2, <1>4, <1>9 DEF AtEnd, Distinct
  <2> QED
    BY <1>2, <1>9, <2>1 DEF In
<1>10. s \in Seq(Client) => x \in Seq(Client) /\ Head(s) \in Client
  BY <1>1, <1>2
<1> QED
  BY <1>1, <1>5, <1>6, <1>7, <1>8, <1>9, <1>10

-----------------------------------------------------------------------------
(* The shape of the state.                                                 *)

Kinds == {"none"} \cup Statements \cup Globals
Results == {"none", "ok", "error", "failure", "told"}
CallType == [kind : Kinds, via : {"none", "free", "own", "queue"}, res : Results]
DbType ==
    [cur : Nat, last : Nat, waiting : Seq(Entry), lock : Seq(Client),
     turns : Seq({"drain", "close"}), open : BOOLEAN, owner : Client \cup {0}, files : Nat]
LeftType == [tabs : SUBSET Client, calls : Nat, closes : Nat, faults : Nat]

Working == {"turn", "ran", "settled"}

Types ==
    /\ \E n \in Nat : Ids = 1 .. n
    /\ db = [i \in Ids |-> db[i]]
    /\ \A i \in Ids : db[i] \in DbType
    /\ single \in {0} \cup Ids
    /\ globals \in Seq(Client)
    /\ files \in Nat /\ systems \in Nat
    /\ phase \in [Client -> Phases]
    /\ call \in [Client -> CallType]
    /\ handle \in [Client -> {0} \cup Ids]
    /\ tx \in [Client -> Nat]
    /\ left \in LeftType
    /\ raced \in BOOLEAN /\ reclosed \in BOOLEAN /\ orphaned \in BOOLEAN /\ robbed \in BOOLEAN

\* What a call of a client is at each phase, and what it takes to make it.
CallOK(c) ==
    /\ phase[c] = "idle" => call[c] = NoCall
    /\ phase[c] # "idle" => call[c].kind # "none"
    /\ phase[c] \in {"sent", "booting", "global", "opening"} => call[c].via = "none" /\ call[c].res = "none"
    /\ phase[c] \in {"queued"} \cup Working => call[c].kind \in Statements
    /\ phase[c] \in {"global", "opening"} => call[c].kind \in Globals
    /\ phase[c] = "opening" => call[c].kind = "open"
    /\ phase[c] = "queued" => call[c].via = "queue" /\ call[c].res = "none"
    /\ phase[c] \in Working => call[c].via # "none"
    /\ phase[c] = "turn" => call[c].res = "none"
    /\ phase[c] \in {"ran", "settled"} => call[c].res # "none"
    /\ call[c].res = "told" => call[c].kind = "batch"
    /\ call[c].via = "own" => tx[c] # 0

HandleOK(c) ==
    /\ call[c].kind \in Statements \cup {"close"} => handle[c] # 0
    /\ call[c].kind = "open" => handle[c] = 0
    /\ call[c].kind \in {"begin"} \cup Globals => tx[c] = 0
    /\ call[c].kind = "end" => tx[c] # 0
    /\ handle[c] = 0 => tx[c] = 0
    /\ handle[c] # 0 => tx[c] <= Mine(c).last

DbOK(d) == d.cur <= d.last /\ (~d.open => d.owner = 0)

Shape == Types /\ (\A c \in Client : CallOK(c) /\ HandleOK(c)) /\ \A i \in Ids : DbOK(db[i])

-----------------------------------------------------------------------------
(* The queues hold the calls that wait in them, each once.                 *)

\* The call that the drain of the queue is busy with.
Drained(c) == phase[c] \in Working /\ call[c].via = "queue"

LockOK(i) ==
    /\ Distinct(db[i].lock)
    /\ \A c \in Client : In(c, db[i].lock) <=> handle[c] = i /\ phase[c] = "turn"

WaitingOK(i) ==
    /\ Distinct(db[i].waiting)
    /\ \A c \in Client : In(c, db[i].waiting) <=> handle[c] = i /\ (phase[c] = "queued" \/ Drained(c))

DrainOK(c) ==
    Drained(c) => /\ Mine(c).waiting # <<>> /\ Head(Mine(c).waiting) = c
                  /\ Mine(c).turns # <<>> /\ Head(Mine(c).turns) = "drain"

GlobalsOK ==
    /\ Distinct(globals)
    /\ \A c \in Client : In(c, globals) <=> phase[c] \in {"global", "opening"}
    /\ \A c \in Client : phase[c] = "opening" => globals # <<>> /\ Head(globals) = c /\ single = 0

Queues ==
    /\ \A i \in Ids : LockOK(i) /\ WaitingOK(i)
    /\ \A c \in Client : DrainOK(c)
    /\ GlobalsOK

-----------------------------------------------------------------------------
(* The file system is made before anything else.                           *)

Made ==
    /\ files = 0 => Ids = {} /\ \A c \in Client : phase[c] \in {"idle", "sent", "booting"}
    /\ ~raced => \A b, c \in Client : phase[b] = "booting" /\ phase[c] = "booting" => b = c
    /\ ~raced => \A c \in Client : phase[c] = "booting" => files = 0

-----------------------------------------------------------------------------
(* Who is in a transaction.                                                *)

\* The call of c has ended its transaction: it will be told so.
Gone(c) ==
    \/ call[c].kind = "end" /\ phase[c] = "settled" /\ call[c].res = "ok"
    \/ call[c].res = "told"

\* The call of c has begun a transaction.
Began(c) == call[c].kind = "begin" /\ phase[c] \in {"ran", "settled"} /\ call[c].res = "ok"

\* c is in a transaction of SQLite, or was until SQLite gave it up.
Strong(c) == (tx[c] # 0 /\ ~Gone(c)) \/ Began(c)

\* c has an id of a transaction that has not begun, or has failed to begin.
Weak(c) == call[c].kind = "begin" /\ (phase[c] = "turn" \/ (phase[c] = "ran" /\ call[c].res # "ok"))

\* The client that ends the transaction cur of the database i.
Ends(c, i) ==
    /\ handle[c] = i
    /\ \/ tx[c] = db[i].cur
       \/ call[c].kind = "begin" /\ phase[c] \in {"turn", "ran"}
       \/ Began(c)

HasEnd ==
    /\ \A i \in Ids : db[i].cur # 0 /\ ~orphaned => \E c \in Client : Ends(c, i)
    /\ \A c \in Client : Gone(c) /\ tx[c] # 0 => tx[c] # Mine(c).cur

\* Whoever is in a transaction has the database for itself.
Alone(c) ==
    Strong(c) =>
      /\ Mine(c).cur # 0
      /\ tx[c] # 0 => tx[c] = Mine(c).cur
      /\ \A b \in Client : handle[b] = handle[c] /\ (Strong(b) \/ Weak(b) \/ phase[b] = "turn") => b = c

\* Whoever begins one comes after all that run.
Latest(c) ==
    Weak(c) /\ Mine(c).open =>
      /\ Mine(c).cur # 0 /\ Mine(c).owner = 0
      /\ \A b \in Client : handle[b] = handle[c] /\ Weak(b) => b = c
      /\ phase[c] = "turn" => AtEnd(Mine(c).lock, c)
      /\ phase[c] = "ran" => \A b \in Client : handle[b] = handle[c] => phase[b] # "turn"

\* The call of c has ended it for SQLite: the worker is to be told.
Ended(c) == call[c].kind = "end" /\ phase[c] = "ran" /\ call[c].res = "ok"

Committed(c) == Ended(c) => Mine(c).owner = 0

Owned(i) == db[i].owner # 0 => handle[db[i].owner] = i /\ Strong(db[i].owner)

\* What holds of a database and of those who use it.
Orderly(i) ==
    /\ Owned(i)
    /\ \A c \in Client : handle[c] = i => Alone(c) /\ Latest(c) /\ Committed(c)

Exclusive == ~robbed => \A i \in Ids : Orderly(i)

WebInv == Shape /\ Queues /\ Made /\ OneDatabase /\ HasEnd /\ Exclusive

-----------------------------------------------------------------------------
(* What the operations leave of a database.                                *)

LEMMA Turned ==
  ASSUME NEW s \in Seq({"drain", "close"})
  PROVE  /\ \A x \in {"drain", "close"} : Append(s, x) \in Seq({"drain", "close"}) /\ Append(s, x) # <<>>
         /\ s # <<>> => Tail(s) \in Seq({"drain", "close"})
         /\ s # <<>> => \A x \in {"drain", "close"} : Head(Append(s, x)) = Head(s)
<1>1. \A x \in {"drain", "close"} : Append(s, x) \in Seq({"drain", "close"}) /\ Append(s, x) # <<>>
  OBVIOUS
<1>2. s # <<>> => Tail(s) \in Seq({"drain", "close"})
  OBVIOUS
<1>3. ASSUME s # <<>>, NEW x \in {"drain", "close"} PROVE Head(Append(s, x)) = Head(s)
  BY <1>3
<1> QED
  BY <1>1, <1>2, <1>3

\* The parts of a database that only the queue's operations change.
SameQueues(d, e) == e.waiting = d.waiting /\ e.turns = d.turns
SameConnection(d, e) == e.open = d.open /\ e.owner = d.owner /\ e.files = d.files
SameIds(d, e) == e.cur = d.cur /\ e.last = d.last

LEMMA StartedFacts ==
  ASSUME NEW d \in DbType, DbOK(d), NEW c \in Client
  PROVE  /\ Started(d, c) \in DbType /\ DbOK(Started(d, c))
         /\ SameQueues(d, Started(d, c)) /\ SameConnection(d, Started(d, c))
         /\ Started(d, c).lock = Append(d.lock, c)
         /\ call[c].kind = "begin" => Started(d, c).cur = d.last + 1 /\ Started(d, c).last = d.last + 1
         /\ call[c].kind # "begin" => SameIds(d, Started(d, c))
<1>1. Append(d.lock, c) \in Seq(Client)
  BY DEF DbType
<1>2. PICK e \in DbType : e = [d EXCEPT !.lock = Append(@, c)]
  BY <1>1 DEF DbType
<1>3. SameQueues(d, e) /\ SameConnection(d, e) /\ SameIds(d, e) /\ e.lock = Append(d.lock, c) /\ DbOK(e)
  BY <1>2 DEF DbType, SameQueues, SameConnection, SameIds, DbOK
<1>4. CASE call[c].kind # "begin"
  <2>1. Started(d, c) = e
    BY <1>2, <1>4 DEF Started
  <2> QED
    BY <1>3, <1>4, <2>1
<1>5. CASE call[c].kind = "begin"
  <2>1. Started(d, c) = [e EXCEPT !.last = @ + 1, !.cur = e.last + 1]
    BY <1>2, <1>5 DEF Started
  <2>2. e.last + 1 \in Nat /\ e.last = d.last
    BY <1>3 DEF DbType, SameIds
  <2>3. [e EXCEPT !.last = @ + 1, !.cur = e.last + 1] \in DbType
    BY <2>2 DEF DbType
  <2>4. PICK f \in DbType : f = [e EXCEPT !.last = @ + 1, !.cur = e.last + 1]
    BY <2>3
  <2>5. /\ f.cur = e.last + 1 /\ f.last = e.last + 1 /\ f.lock = e.lock
        /\ SameQueues(e, f) /\ SameConnection(e, f)
    BY <2>4 DEF DbType, SameQueues, SameConnection
  <2>6. DbOK(f)
    BY <1>3, <2>2, <2>5 DEF DbOK, SameConnection
  <2> QED
    BY <1>3, <1>5, <2>1, <2>2, <2>4, <2>5, <2>6 DEF SameQueues, SameConnection
<1> QED
  BY <1>4, <1>5

LEMMA OutcomeFacts ==
  \A o, r, d :
         /\ o = Outcome(r, d) => o.res = r /\ o.db = d /\ o.fault = FALSE
         /\ o = Fault(r, d) => o.res = r /\ o.db = d /\ o.fault = TRUE
<1> SUFFICES ASSUME NEW o, NEW r, NEW d
             PROVE  /\ o = Outcome(r, d) => o.res = r /\ o.db = d /\ o.fault = FALSE
                    /\ o = Fault(r, d) => o.res = r /\ o.db = d /\ o.fault = TRUE
  OBVIOUS
<1>1. o = Outcome(r, d) => o.res = r /\ o.db = d /\ o.fault = FALSE
  BY DEF Outcome
<1>2. ASSUME o = Fault(r, d) PROVE o.res = r /\ o.db = d /\ o.fault = TRUE
  <2>1. Outcome(r, d) = [res |-> r, db |-> d, fault |-> FALSE]
    BY DEF Outcome
  <2>2. o = [[res |-> r, db |-> d, fault |-> FALSE] EXCEPT !.fault = TRUE]
    BY <1>2, <2>1 DEF Fault
  <2>3. o = [res |-> r, db |-> d, fault |-> TRUE]
    BY <2>2
  <2> QED
    BY <2>3
<1> QED
  BY <1>1, <1>2

LEMMA AfterErrorFacts ==
  ASSUME NEW d \in DbType, DbOK(d), NEW e \in AfterError(d)
  PROVE  /\ e \in DbType /\ DbOK(e) /\ SameQueues(d, e) /\ SameIds(d, e)
         /\ e.lock = d.lock /\ e.open = d.open /\ e.files = d.files
         /\ e.owner \in {0, d.owner}
  BY DEF AfterError, DbType, DbOK, SameQueues, SameIds

LEMMA Forgotten ==
  ASSUME NEW d \in DbType, DbOK(d)
  PROVE  LET e == [d EXCEPT !.cur = 0]
         IN /\ e \in DbType /\ DbOK(e) /\ SameQueues(d, e) /\ SameConnection(d, e)
            /\ e.lock = d.lock /\ e.last = d.last /\ e.cur = 0
<1>1. PICK e \in DbType : e = [d EXCEPT !.cur = 0]
  BY DEF DbType
<1>2. /\ SameQueues(d, e) /\ SameConnection(d, e)
      /\ e.lock = d.lock /\ e.last = d.last /\ e.cur = 0
  BY <1>1 DEF DbType, SameQueues, SameConnection
<1>3. DbOK(e)
  BY <1>2 DEF DbOK, DbType, SameConnection
<1> QED
  BY <1>1, <1>2, <1>3

LEMMA RunFacts ==
  ASSUME NEW d \in DbType, DbOK(d), NEW c \in Client, call \in [Client -> CallType],
         call[c].kind \in Statements, NEW o \in Run(c, d)
  PROVE  /\ o.db \in DbType /\ DbOK(o.db) /\ SameQueues(d, o.db)
         /\ o.db.lock = d.lock /\ o.db.last = d.last /\ o.db.open = d.open /\ o.db.files = d.files
         /\ o.res \in Results \ {"none"} /\ o.fault \in BOOLEAN
         /\ o.res = "told" => call[c].kind = "batch" /\ d.cur # 0 /\ o.db.cur = 0 /\ o.db.owner = 0
         /\ o.res # "told" => o.db.cur = d.cur
         /\ o.db.owner \in {0, d.owner} \/ (call[c].kind = "begin" /\ o.res = "ok" /\ o.db.owner = c)
         /\ call[c].kind = "begin" /\ o.res = "ok" => d.open /\ d.owner = 0 /\ o.db.owner = c
         /\ call[c].kind = "end" /\ o.res = "ok" => o.db.owner = 0
<1>0. ClientAssumption!1 /\ call[c].kind \in {"execute", "batch", "begin", "end"}
  BY ClientAssumption DEF Statements
<1>1. CASE ~d.open
  <2>1. o = Outcome("failure", d) \/ (call[c].kind = "batch" /\ d.cur # 0 /\ o = Outcome("told", [d EXCEPT !.cur = 0]))
    BY <1>1 DEF Run, RunClosed
  <2>2. d.owner = 0
    BY <1>1 DEF DbOK
  <2>3. CASE o = Outcome("failure", d)
    <3>1. o.res = "failure" /\ o.db = d /\ o.fault = FALSE
      BY <2>3 DEF Outcome
    <3> QED
      BY <1>0, <1>1, <2>2, <3>1 DEF Results, SameQueues, DbOK, DbType
  <2>4. CASE call[c].kind = "batch" /\ d.cur # 0 /\ o = Outcome("told", [d EXCEPT !.cur = 0])
    <3>1. o.res = "told" /\ o.db = [d EXCEPT !.cur = 0] /\ o.fault = FALSE
      BY <2>4 DEF Outcome
    <3> QED
      BY <1>0, <1>1, <2>2, <2>4, <3>1, Forgotten, ZenonT(60) DEF Results, SameConnection
  <2> QED
    BY <2>1, <2>3, <2>4
<1>2. CASE d.open /\ call[c].kind = "begin"
  <2>1. o \in RunBegin(c, d)
    BY <1>2 DEF Run
  <2>2. \/ o.res = "ok" /\ d.owner = 0 /\ o.db = [d EXCEPT !.owner = c] /\ o.fault = FALSE
        \/ o.res = "error" /\ o.db = d /\ o.fault \in BOOLEAN
    <3>1. \/ d.owner = 0 /\ o = Outcome("ok", [d EXCEPT !.owner = c])
          \/ o = Outcome("error", d) \/ o = Fault("error", d)
      BY <2>1 DEF RunBegin
    <3>2. CASE d.owner = 0 /\ o = Outcome("ok", [d EXCEPT !.owner = c])
      <4>1. PICK e : e = [d EXCEPT !.owner = c]
        OBVIOUS
      <4>2. o = Outcome("ok", e)
        BY <3>2, <4>1
      <4>3. o.res = "ok" /\ o.db = e /\ o.fault = FALSE
        BY <4>2 DEF Outcome
      <4> QED
        BY <3>2, <4>1, <4>3
    <3>3. CASE o = Outcome("error", d) \/ o = Fault("error", d)
      BY <3>3, OutcomeFacts
    <3> QED
      BY <3>1, <3>2, <3>3
  <2> QED
    BY <1>0, <1>2, <2>2, ZenonT(60) DEF Results, SameQueues, DbOK, DbType
<1>3. CASE d.open /\ call[c].kind = "end"
  <2>1. o \in RunEnd(d)
    BY <1>3 DEF Run
  <2>2. \/ o.res = "ok" /\ o.db = [d EXCEPT !.owner = 0] /\ o.fault = FALSE
        \/ o.res = "error" /\ o.db = d /\ o.fault \in BOOLEAN
    <3>1. \/ o = Outcome("ok", [d EXCEPT !.owner = 0])
          \/ o = Outcome("error", d) \/ o = Fault("error", d)
      BY <2>1 DEF RunEnd
    <3> QED
      BY <3>1, OutcomeFacts
  <2> QED
    BY <1>0, <1>3, <2>2, ZenonT(60) DEF Results, SameQueues, DbOK, DbType
<1>4. CASE d.open /\ call[c].kind = "execute"
  <2>1. o \in RunStatement(d)
    BY <1>4 DEF Run
  <2>2. \/ o.res = "ok" /\ o.db = d /\ o.fault = FALSE
        \/ o.res = "error" /\ o.db \in AfterError(d) /\ o.fault = TRUE
    <3>1. o = Outcome("ok", d) \/ \E e \in AfterError(d) : o = Fault("error", e)
      BY <2>1 DEF RunStatement
    <3> QED
      BY <3>1, OutcomeFacts
  <2> QED
    BY <1>0, <1>4, <2>2, AfterErrorFacts DEF Results, SameQueues, SameIds
<1>5. CASE d.open /\ call[c].kind = "batch"
  <2>1. o \in RunBatch(d)
    BY <1>5 DEF Run
  <2>2. \/ o.res = "ok" /\ o.db = d /\ o.fault = FALSE
        \/ \E e \in AfterError(d) : \/ o.res \in {"failure", "ok"} /\ o.db = e /\ o.fault = TRUE
                                    \/ o.res = "told" /\ d.cur # 0 /\ e.owner = 0 /\ o.db = [e EXCEPT !.cur = 0] /\ o.fault = TRUE
    <3>1. \/ o = Outcome("ok", d)
          \/ \E e \in AfterError(d) : \/ o = Fault("failure", e) \/ o = Fault("ok", e)
                                      \/ d.cur # 0 /\ e.owner = 0 /\ o = Fault("told", [e EXCEPT !.cur = 0])
      BY <2>1 DEF RunBatch
    <3>2. CASE o = Outcome("ok", d)
      BY <3>2, OutcomeFacts
    <3>3. ASSUME NEW e \in AfterError(d), o = Fault("failure", e) \/ o = Fault("ok", e)
          PROVE  o.res \in {"failure", "ok"} /\ o.db = e /\ o.fault = TRUE
      BY <3>3, OutcomeFacts
    <3>4. ASSUME NEW e \in AfterError(d), o = Fault("told", [e EXCEPT !.cur = 0])
          PROVE  o.res = "told" /\ o.db = [e EXCEPT !.cur = 0] /\ o.fault = TRUE
      <4>1. PICK f : f = [e EXCEPT !.cur = 0]
        OBVIOUS
      <4>2. o = Fault("told", f)
        BY <3>4, <4>1
      <4>3. o.res = "told" /\ o.db = f /\ o.fault = TRUE
        BY <4>2, OutcomeFacts
      <4> QED
        BY <4>1, <4>3
    <3> QED
      BY <3>1, <3>2, <3>3, <3>4
  <2>4. CASE \E e \in AfterError(d) : o.res = "told" /\ d.cur # 0 /\ e.owner = 0 /\ o.db = [e EXCEPT !.cur = 0] /\ o.fault = TRUE
    <3>1. PICK e \in AfterError(d) : o.res = "told" /\ d.cur # 0 /\ e.owner = 0 /\ o.db = [e EXCEPT !.cur = 0] /\ o.fault = TRUE
      BY <2>4
    <3>2. /\ e \in DbType /\ DbOK(e) /\ SameQueues(d, e) /\ e.last = d.last
          /\ e.lock = d.lock /\ e.open = d.open /\ e.files = d.files
      BY AfterErrorFacts DEF SameIds
    <3>3. /\ o.db \in DbType /\ DbOK(o.db) /\ SameQueues(e, o.db) /\ SameConnection(e, o.db)
          /\ o.db.lock = e.lock /\ o.db.last = e.last /\ o.db.cur = 0
      BY <3>1, <3>2, Forgotten
    <3> QED
      BY <1>0, <1>5, <3>1, <3>2, <3>3 DEF Results, SameQueues, SameConnection
  <2>5. CASE \E e \in AfterError(d) \cup {d} : o.res \in {"failure", "ok"} /\ o.db = e /\ o.fault \in BOOLEAN
    <3>1. d \in AfterError(d)
      BY DEF AfterError
    <3>2. PICK e \in AfterError(d) : o.res \in {"failure", "ok"} /\ o.db = e /\ o.fault \in BOOLEAN
      BY <2>5, <3>1
    <3> QED
      BY <1>5, <3>2, AfterErrorFacts DEF Results, SameIds
  <2> QED
    BY <2>2, <2>4, <2>5
<1> QED
  BY <1>0, <1>1, <1>2, <1>3, <1>4, <1>5

LEMMA SettledFacts ==
  ASSUME NEW d \in DbType, DbOK(d), NEW c \in Client
  PROVE  LET fails == call[c].kind = "begin" /\ call[c].res # "ok"
             ends == call[c].kind = "end" /\ call[c].res = "ok"
             e == Settled(d, c)
         IN /\ e \in DbType /\ DbOK(e) /\ SameQueues(d, e) /\ SameConnection(d, e)
            /\ e.lock = d.lock /\ e.last = d.last
            /\ e.cur = IF fails \/ ends THEN 0 ELSE d.cur
<1>1. CASE (call[c].kind = "begin" /\ call[c].res # "ok") \/ (call[c].kind = "end" /\ call[c].res = "ok")
  <2>1. Settled(d, c) = [d EXCEPT !.cur = 0]
    BY <1>1 DEF Settled
  <2> QED
    BY <1>1, <2>1, Forgotten
<1>2. CASE ~((call[c].kind = "begin" /\ call[c].res # "ok") \/ (call[c].kind = "end" /\ call[c].res = "ok"))
  <2>1. Settled(d, c) = d
    BY <1>2 DEF Settled
  <2> QED
    BY <1>2, <2>1 DEF SameQueues, SameConnection
<1> QED
  BY <1>1, <1>2

\* Another turn of the queue comes behind those there are.
Behind(d, e) ==
    /\ e.waiting = d.waiting /\ e.lock = d.lock /\ SameIds(d, e)
    /\ d.turns # <<>> => e.turns # <<>> /\ Head(e.turns) = Head(d.turns)

LEMMA TurnAdded ==
  ASSUME NEW d \in DbType, DbOK(d), NEW turn \in {"drain", "close"}
  PROVE  LET e == [d EXCEPT !.turns = Append(@, turn)]
         IN e \in DbType /\ DbOK(e) /\ Behind(d, e) /\ SameConnection(d, e)
<1>1. d.turns \in Seq({"drain", "close"})
  BY DEF DbType
<1>2. Append(d.turns, turn) \in Seq({"drain", "close"})
  BY <1>1, Turned
<1>3. PICK e \in DbType : e = [d EXCEPT !.turns = Append(@, turn)]
  BY <1>2 DEF DbType
<1>4. e.turns = Append(d.turns, turn) /\ SameConnection(d, e) /\ SameIds(d, e) /\ e.waiting = d.waiting /\ e.lock = d.lock
  BY <1>3 DEF DbType, SameConnection, SameIds
<1>5. DbOK(e)
  BY <1>4 DEF DbOK, SameConnection, SameIds
<1>6. d.turns # <<>> => e.turns # <<>> /\ Head(e.turns) = Head(d.turns)
  BY <1>1, <1>4, Turned
<1> QED
  BY <1>3, <1>4, <1>5, <1>6 DEF Behind

LEMMA DrainsFacts ==
  ASSUME NEW d \in DbType, DbOK(d)
  PROVE  /\ Drains(d) \in DbType /\ DbOK(Drains(d)) /\ Behind(d, Drains(d)) /\ SameConnection(d, Drains(d))
         /\ EndsQueue(d) \in DbType /\ DbOK(EndsQueue(d)) /\ Behind(d, EndsQueue(d)) /\ SameConnection(d, EndsQueue(d))
<1>1. d \in DbType /\ DbOK(d) /\ Behind(d, d) /\ SameConnection(d, d)
  BY DEF Behind, SameIds, SameConnection
<1>2. Drains(d) \in {d, [d EXCEPT !.turns = Append(@, "drain")]}
  BY DEF Drains
<1>3. EndsQueue(d) \in {d, [d EXCEPT !.turns = Append(@, "close")]}
  BY DEF EndsQueue
<1>4. Drains(d) \in DbType /\ DbOK(Drains(d)) /\ Behind(d, Drains(d)) /\ SameConnection(d, Drains(d))
  BY <1>1, <1>2, TurnAdded
<1>5. EndsQueue(d) \in DbType /\ DbOK(EndsQueue(d)) /\ Behind(d, EndsQueue(d)) /\ SameConnection(d, EndsQueue(d))
  BY <1>1, <1>3, TurnAdded
<1> QED
  BY <1>4, <1>5

LEMMA ClosedFacts ==
  ASSUME NEW d \in DbType, DbOK(d)
  PROVE  /\ Closed(d) \in DbType /\ DbOK(Closed(d)) /\ Behind(d, Closed(d))
         /\ ~Closed(d).open /\ Closed(d).owner = 0 /\ Closed(d).files = d.files
<1>1. PICK e \in DbType : e = EndsQueue(d) /\ DbOK(e) /\ Behind(d, e) /\ SameConnection(d, e)
  BY DrainsFacts
<1>2. Closed(d) = [e EXCEPT !.open = FALSE, !.owner = 0]
  BY <1>1 DEF Closed, Disconnected
<1>3. PICK f \in DbType : f = [e EXCEPT !.open = FALSE, !.owner = 0]
  BY DEF DbType
<1>4. /\ f.cur = e.cur /\ f.last = e.last /\ f.waiting = e.waiting /\ f.lock = e.lock /\ f.turns = e.turns
      /\ f.open = FALSE /\ f.owner = 0 /\ f.files = e.files
  BY <1>3 DEF DbType
<1>5. DbOK(f)
  BY <1>1, <1>4 DEF DbOK
<1>6. Behind(d, f)
  BY <1>1, <1>4 DEF Behind, SameIds
<1> QED
  BY <1>1, <1>2, <1>3, <1>4, <1>5, <1>6 DEF SameConnection

\* What a call leaves of the database when it returns.
LEMMA ReturnedFacts ==
  ASSUME NEW d \in DbType, DbOK(d), NEW c \in Client, call[c].via \in {"free", "own", "queue"},
         call[c].via = "queue" => d.waiting # <<>>
  PROVE  LET e == Returned(d, c)
         IN /\ e \in DbType /\ DbOK(e) /\ SameIds(d, e) /\ SameConnection(d, e) /\ e.lock = d.lock
            /\ e.waiting = IF call[c].via = "queue" THEN Tail(d.waiting) ELSE d.waiting
            /\ d.turns # <<>> => e.turns # <<>> /\ Head(e.turns) = Head(d.turns)
<1>1. CASE call[c].via # "queue"
  <2>1. Returned(d, c) \in {d, Drains(d)}
    BY <1>1 DEF Returned
  <2>2. Behind(d, d) /\ SameConnection(d, d)
    BY DEF Behind, SameIds, SameConnection
  <2>3. \A e \in {d, Drains(d)} : e \in DbType /\ DbOK(e) /\ Behind(d, e) /\ SameConnection(d, e)
    BY <2>2, DrainsFacts
  <2> QED
    BY <1>1, <2>1, <2>3 DEF Behind
<1>2. CASE call[c].via = "queue"
  <2>1. Returned(d, c) = [d EXCEPT !.waiting = Tail(@)]
    BY <1>2 DEF Returned
  <2>2. d.waiting \in Seq(Entry) /\ d.waiting # <<>>
    BY <1>2 DEF DbType
  <2>3. Tail(d.waiting) \in Seq(Entry)
    BY <2>2, Tailed
  <2>4. PICK e \in DbType : e = [d EXCEPT !.waiting = Tail(@)]
    BY <2>3 DEF DbType
  <2>5. e.waiting = Tail(d.waiting) /\ e.turns = d.turns /\ e.lock = d.lock /\ SameIds(d, e) /\ SameConnection(d, e)
    BY <2>4 DEF DbType, SameIds, SameConnection
  <2>6. DbOK(e)
    BY <2>5 DEF DbOK, SameIds, SameConnection
  <2> QED
    BY <1>2, <2>1, <2>4, <2>5, <2>6
<1> QED
  BY <1>1, <1>2

LEMMA NewFacts ==
  ASSUME files \in Nat
  PROVE  LET d == Database(files)
         IN /\ d \in DbType /\ DbOK(d)
            /\ d.cur = 0 /\ d.owner = 0 /\ d.waiting = <<>> /\ d.lock = <<>> /\ d.turns = <<>> /\ d.open /\ d.files = files
  BY DEF Database, DbType, DbOK

-----------------------------------------------------------------------------
(* What an action changes.                                                 *)

\* One database is changed, and may be a new one.
LEMMA Changed ==
  ASSUME Types, NEW i, NEW e, db' = WithDb(i, e)
  PROVE  /\ Ids' = Ids \cup {i} /\ db' = [j \in Ids' |-> db'[j]]
         /\ db'[i] = e /\ \A j \in Ids \ {i} : db'[j] = db[j]
  BY DEF WithDb, Ids

\* One client goes on to a phase p with a call k, a database h and a
\* transaction t.
Moves(c, p, k, h, t) ==
    /\ phase' = [phase EXCEPT ![c] = p]
    /\ call' = [call EXCEPT ![c] = k]
    /\ handle' = [handle EXCEPT ![c] = h]
    /\ tx' = [tx EXCEPT ![c] = t]

Rests(b) == phase'[b] = phase[b] /\ call'[b] = call[b] /\ handle'[b] = handle[b] /\ tx'[b] = tx[b]

LEMMA Moved ==
  ASSUME Types, NEW c \in Client, NEW p, NEW k, NEW h, NEW t, Moves(c, p, k, h, t)
  PROVE  /\ phase'[c] = p /\ call'[c] = k /\ handle'[c] = h /\ tx'[c] = t
         /\ \A b \in Client \ {c} : Rests(b)
         /\ p \in Phases => phase' \in [Client -> Phases]
         /\ k \in CallType => call' \in [Client -> CallType]
         /\ t \in Nat => tx' \in [Client -> Nat]
         /\ \A S : handle \in [Client -> S] /\ h \in S => handle' \in [Client -> S]
  BY DEF Types, Moves, Rests

-----------------------------------------------------------------------------
(* The shape of the state is kept.                                         *)

\* The databases keep their shape, and an id that was given stays given.
Grows ==
    /\ \E n \in Nat : Ids' = 1 .. n
    /\ db' = [i \in Ids' |-> db'[i]]
    /\ \A i \in Ids' : db'[i] \in DbType /\ DbOK(db'[i])
    /\ \A i \in Ids : i \in Ids' /\ db[i].last <= db'[i].last

\* So does what is neither a database nor a client.
OthersOK ==
    /\ single' \in {0} \cup Ids'
    /\ globals' \in Seq(Client)
    /\ files' \in Nat /\ systems' \in Nat
    /\ left' \in LeftType
    /\ raced' \in BOOLEAN /\ reclosed' \in BOOLEAN /\ orphaned' \in BOOLEAN /\ robbed' \in BOOLEAN

LEMMA Unchanged ==
  ASSUME Shape, UNCHANGED db
  PROVE  Grows /\ Ids' = Ids
<1>1. Ids' = Ids
  BY DEF Ids
<1>2. \A i \in Ids : db[i] \in DbType /\ DbOK(db[i]) /\ db[i].last \in Nat
  BY DEF Shape, Types, DbType
<1>3. \A i \in Ids : db[i].last <= db[i].last
  BY <1>2
<1>4. (\E n \in Nat : Ids = 1 .. n) /\ db = [i \in Ids |-> db[i]]
  BY DEF Shape, Types
<1> QED
  BY <1>1, <1>2, <1>3, <1>4 DEF Grows

LEMMA Replaced ==
  ASSUME Shape, NEW i \in Ids, NEW e \in DbType, DbOK(e), db[i].last <= e.last, db' = WithDb(i, e)
  PROVE  Grows /\ Ids' = Ids /\ db'[i] = e /\ \A j \in Ids \ {i} : db'[j] = db[j]
<1>1. Types /\ \A j \in Ids : db[j] \in DbType /\ DbOK(db[j])
  BY DEF Shape, Types
<1>2. /\ Ids' = Ids /\ db' = [j \in Ids' |-> db'[j]]
      /\ db'[i] = e /\ \A j \in Ids \ {i} : db'[j] = db[j]
  BY <1>1, Changed
<1>3. \A j \in Ids : db'[j] \in DbType /\ DbOK(db'[j]) /\ db[j].last <= db'[j].last
  <2>1. \A j \in Ids : db[j].last <= db[j].last
    BY <1>1 DEF DbType
  <2> QED
    BY <1>1, <1>2, <2>1
<1>4. \E n \in Nat : Ids = 1 .. n
  BY <1>1 DEF Types
<1> QED
  BY <1>2, <1>3, <1>4 DEF Grows

LEMMA Opened ==
  ASSUME Shape, db' = WithDb(Cardinality(Ids) + 1, Database(files))
  PROVE  LET i == Cardinality(Ids) + 1
         IN /\ Grows /\ i # 0 /\ i \notin Ids /\ Ids' = Ids \cup {i}
            /\ db'[i] = Database(files) /\ \A j \in Ids : db'[j] = db[j]
<1>1. Types /\ \A j \in Ids : db[j] \in DbType /\ DbOK(db[j])
  BY DEF Shape, Types
<1>2. PICK n \in Nat : Ids = 1 .. n
  BY <1>1 DEF Types
<1>3. Cardinality(Ids) = n
  BY <1>2, FS_Interval
<1>4. PICK i \in Nat : i = Cardinality(Ids) + 1
  BY <1>3
<1>5. i # 0 /\ i \notin Ids /\ Ids \cup {i} = 1 .. n + 1
  BY <1>2, <1>3, <1>4
<1>6. PICK e \in DbType : e = Database(files) /\ DbOK(e)
  BY <1>1, NewFacts DEF Types
<1>7. /\ Ids' = Ids \cup {i} /\ db' = [j \in Ids' |-> db'[j]]
      /\ db'[i] = e /\ \A j \in Ids \ {i} : db'[j] = db[j]
  BY <1>1, <1>4, <1>6, Changed
<1>8. \A j \in Ids' : db'[j] \in DbType /\ DbOK(db'[j])
  BY <1>1, <1>6, <1>7
<1>9. \A j \in Ids : j \in Ids' /\ db[j].last <= db'[j].last
  <2>1. \A j \in Ids : db[j].last \in Nat /\ j \in Ids' /\ db'[j] = db[j]
    BY <1>1, <1>5, <1>7 DEF DbType
  <2> QED
    BY <2>1
<1>10. \E m \in Nat : Ids' = 1 .. m
  BY <1>5, <1>7
<1> QED
  BY <1>4, <1>5, <1>6, <1>7, <1>8, <1>9, <1>10 DEF Grows

LEMMA ShapeKept ==
  ASSUME Shape, Grows, OthersOK, NEW c \in Client, NEW p \in Phases, NEW k \in CallType,
         NEW h \in {0} \cup Ids', NEW t \in Nat, Moves(c, p, k, h, t), CallOK(c)', HandleOK(c)'
  PROVE  Shape'
<1>1. Types /\ (\A b \in Client : CallOK(b) /\ HandleOK(b)) /\ Ids \subseteq Ids'
  BY DEF Shape, Grows
<1>2. /\ phase'[c] = p /\ call'[c] = k /\ handle'[c] = h /\ tx'[c] = t
      /\ \A b \in Client \ {c} : Rests(b)
      /\ phase' \in [Client -> Phases] /\ call' \in [Client -> CallType] /\ tx' \in [Client -> Nat]
  BY <1>1, Moved
<1>3. handle' \in [Client -> {0} \cup Ids']
  <2>1. handle \in [Client -> {0} \cup Ids']
    BY <1>1 DEF Types
  <2> QED
    BY <2>1 DEF Moves
<1>4. Types'
  BY <1>2, <1>3 DEF Types, Grows, OthersOK
<1>5. ASSUME NEW b \in Client \ {c} PROVE CallOK(b)' /\ HandleOK(b)'
  <2>1. CallOK(b)'
    BY <1>1, <1>2 DEF CallOK, Rests
  <2>2. tx[b] \in Nat /\ (handle[b] # 0 => handle[b] \in Ids /\ db[handle[b]].last <= db'[handle[b]].last)
    BY <1>1 DEF Types, Grows
  <2>3. handle[b] # 0 => db[handle[b]] \in DbType /\ db'[handle[b]] \in DbType
    BY <1>1, <2>2 DEF Types, Grows
  <2>4. handle[b] # 0 => tx[b] <= db'[handle[b]].last
    <3>1. handle[b] # 0 => tx[b] <= db[handle[b]].last
      BY <1>1 DEF HandleOK, Mine
    <3>2. handle[b] # 0 => db[handle[b]].last \in Nat /\ db'[handle[b]].last \in Nat
      BY <2>3 DEF DbType
    <3> QED
      BY <2>2, <3>1, <3>2
  <2>5. HandleOK(b)'
    BY <1>1, <1>2, <2>4 DEF HandleOK, Rests, Mine
  <2> QED
    BY <2>1, <2>5
<1> QED
  BY <1>4, <1>5 DEF Shape, Grows

-----------------------------------------------------------------------------
(* What each action does.                                                  *)

LEMMA Stays ==
  ASSUME Types, NEW c \in Client
  PROVE  /\ phase = [phase EXCEPT ![c] = phase[c]] /\ call = [call EXCEPT ![c] = call[c]]
         /\ handle = [handle EXCEPT ![c] = handle[c]] /\ tx = [tx EXCEPT ![c] = tx[c]]
  BY DEF Types

LEMMA OneOf ==
  ASSUME Types, NEW c \in Client
  PROVE  /\ phase[c] \in Phases /\ call[c] \in CallType /\ handle[c] \in {0} \cup Ids /\ tx[c] \in Nat
         /\ call[c].kind \in Kinds /\ call[c].via \in {"none", "free", "own", "queue"} /\ call[c].res \in Results
  BY DEF Types, CallType

LEMMA MineFacts ==
  ASSUME Shape, NEW c \in Client, handle[c] # 0
  PROVE  /\ handle[c] \in Ids /\ Mine(c) = db[handle[c]]
         /\ Mine(c) \in DbType /\ DbOK(Mine(c))
         /\ Mine(c).waiting \in Seq(Entry) /\ Mine(c).lock \in Seq(Client)
         /\ Mine(c).cur \in Nat /\ Mine(c).last \in Nat
<1>1. handle[c] \in Ids
  BY OneOf DEF Shape
<1>2. db[handle[c]] \in DbType /\ DbOK(db[handle[c]])
  BY <1>1 DEF Shape, Types
<1> QED
  BY <1>1, <1>2 DEF Mine, DbType

LEMMA Spent ==
  ASSUME Types, NEW what \in {"calls", "closes", "faults"}, Spend(what)
  PROVE  left' \in LeftType
<1>1. left \in LeftType /\ left[what] > 0
  BY DEF Types, Spend
<1>2. left[what] \in Nat
  BY <1>1 DEF LeftType
<1>3. left[what] - 1 \in Nat
  BY <1>1, <1>2
<1>4. left' = [left EXCEPT ![what] = left[what] - 1]
  BY DEF Spend
<1> QED
  BY <1>1, <1>3, <1>4 DEF LeftType

\* A client posts a request.
Posts(c, kind) ==
    /\ phase[c] = "idle" /\ call[c] = NoCall
    /\ Moves(c, "sent", [NoCall EXCEPT !.kind = kind], handle[c], tx[c])
    /\ UNCHANGED <<sched_vars, history>> /\ left' \in LeftType
    /\ kind \in Statements \cup {"close"} => handle[c] # 0
    /\ kind = "open" => handle[c] = 0
    /\ kind \in {"begin"} \cup Globals => tx[c] = 0
    /\ kind = "end" => tx[c] # 0

LEMMA SendDoes ==
  ASSUME Shape, NEW c \in Client, Send(c) \/ SendEnd(c)
  PROVE  \E kind \in Statements \cup Globals : Posts(c, kind)
<1>1. Types /\ left \in LeftType /\ CallOK(c) /\ HandleOK(c)
  BY DEF Shape, Types
<1>2. ASSUME NEW kind, Asks(c, kind)
      PROVE  /\ phase[c] = "idle" /\ call[c] = NoCall /\ UNCHANGED <<sched_vars, history>>
             /\ Moves(c, "sent", [NoCall EXCEPT !.kind = kind], handle[c], tx[c])
  BY <1>1, <1>2, Stays DEF Asks, Moves, CallOK
<1>3. PICK kind \in Statements \cup Globals :
        /\ Asks(c, kind) /\ left' \in LeftType
        /\ kind \in Statements \cup {"close"} => handle[c] # 0
        /\ kind = "open" => handle[c] = 0
        /\ kind \in {"begin"} \cup Globals => tx[c] = 0
        /\ kind = "end" => tx[c] # 0
  <2>1. CASE handle[c] = 0 /\ Asks(c, "open") /\ UNCHANGED left
    BY <1>1, <2>1 DEF HandleOK, Statements, Globals
  <2>2. ASSUME handle[c] # 0, Spend("calls"), NEW kind \in {"execute", "batch"}, Asks(c, kind)
        PROVE  \E k \in {"execute", "batch"} : Asks(c, k) /\ handle[c] # 0 /\ left' \in LeftType
    BY <1>1, <2>2, Spent
  <2>3. CASE handle[c] # 0 /\ Spend("calls") /\ tx[c] = 0 /\ Asks(c, "begin")
    BY <1>1, <2>3, Spent DEF Statements, Globals
  <2>4. CASE tx[c] = 0 /\ Spend("closes") /\ Asks(c, "delete")
    BY <1>1, <2>4, Spent DEF Statements, Globals
  <2>5. CASE tx[c] = 0 /\ Spend("closes") /\ handle[c] # 0 /\ Asks(c, "close")
    BY <1>1, <2>5, Spent DEF Statements, Globals
  <2>6. CASE SendEnd(c)
    BY <1>1, <2>6 DEF SendEnd, HandleOK, Statements, Globals
  <2>7. CASE Send(c)
    BY <2>1, <2>2, <2>3, <2>4, <2>5, <2>7 DEF Send, Statements, Globals
  <2> QED
    BY <2>6, <2>7
<1> QED
  BY <1>2, <1>3 DEF Posts

\* A request that comes before anything is made.
Loads(c) ==
    /\ phase[c] = "sent" /\ files = 0
    /\ Moves(c, "booting", call[c], handle[c], tx[c])
    /\ raced' = (raced \/ \E b \in Client : phase[b] = "booting")
    /\ UNCHANGED <<sched_vars, left, reclosed, orphaned, robbed>>

\* A request is taken, and runs, waits, or waits for the global lock.
Taken(c) ==
    /\ phase[c] \in {"sent", "booting"}
    /\ phase[c] = "sent" => UNCHANGED files
    /\ files' \in Nat \ {0} /\ systems' \in Nat
    /\ UNCHANGED <<single, left, history>>

Runs(c, via) ==
    /\ Taken(c) /\ UNCHANGED globals /\ call[c].kind \in Statements
    /\ IF via = "own" THEN Own(c) ELSE via = "free" /\ Free(c)
    /\ db' = WithDb(handle[c], Started(Mine(c), c))
    /\ Moves(c, "turn", [call[c] EXCEPT !.via = via], handle[c], tx[c])

Waits(c) ==
    /\ Taken(c) /\ UNCHANGED globals /\ call[c].kind \in Statements
    /\ ~Free(c) /\ ~Own(c)
    /\ db' = WithDb(handle[c], [Mine(c) EXCEPT !.waiting = Append(@, c)])
    /\ Moves(c, "queued", [call[c] EXCEPT !.via = "queue"], handle[c], tx[c])

WaitsGlobally(c) ==
    /\ Taken(c) /\ call[c].kind \in Globals
    /\ globals' = Append(globals, c) /\ UNCHANGED db
    /\ Moves(c, "global", call[c], handle[c], tx[c])

LEMMA DispatchDoes ==
  ASSUME Shape, NEW c \in Client, Taken(c), Dispatch(c)
  PROVE  Runs(c, "own") \/ Runs(c, "free") \/ Waits(c) \/ WaitsGlobally(c)
<1>1. Types /\ UNCHANGED <<handle, tx>>
  BY DEF Shape, Dispatch
<1>2. CASE call[c].kind \in Globals /\ globals' = Append(globals, c) /\ phase' = [phase EXCEPT ![c] = "global"] /\ UNCHANGED <<db, call>>
  <2>1. Moves(c, "global", call[c], handle[c], tx[c])
    BY <1>1, <1>2, Stays DEF Moves
  <2> QED
    BY <1>2, <2>1 DEF WaitsGlobally
<1>3. CASE call[c].kind \in Statements /\ Schedule(c) /\ UNCHANGED globals
  <2>1. CASE Own(c)
    <3>1. /\ db' = WithDb(handle[c], Started(Mine(c), c)) /\ phase' = [phase EXCEPT ![c] = "turn"]
          /\ call' = [call EXCEPT ![c].via = "own"]
      BY <1>3, <2>1 DEF Schedule, Mine
    <3>2. Moves(c, "turn", [call[c] EXCEPT !.via = "own"], handle[c], tx[c])
      BY <1>1, <3>1, Stays DEF Moves
    <3> QED
      BY <1>3, <2>1, <3>1, <3>2 DEF Runs
  <2>2. CASE Free(c) /\ ~Own(c)
    <3>1. /\ db' = WithDb(handle[c], Started(Mine(c), c)) /\ phase' = [phase EXCEPT ![c] = "turn"]
          /\ call' = [call EXCEPT ![c].via = "free"]
      BY <1>3, <2>2 DEF Schedule, Mine
    <3>2. Moves(c, "turn", [call[c] EXCEPT !.via = "free"], handle[c], tx[c])
      BY <1>1, <3>1, Stays DEF Moves
    <3> QED
      BY <1>3, <2>2, <3>1, <3>2 DEF Runs
  <2>3. CASE ~Free(c) /\ ~Own(c)
    <3>1. /\ db' = WithDb(handle[c], [Mine(c) EXCEPT !.waiting = Append(@, c)]) /\ phase' = [phase EXCEPT ![c] = "queued"]
          /\ call' = [call EXCEPT ![c].via = "queue"]
      BY <1>3, <2>3 DEF Schedule, Mine
    <3>2. Moves(c, "queued", [call[c] EXCEPT !.via = "queue"], handle[c], tx[c])
      BY <1>1, <3>1, Stays DEF Moves
    <3> QED
      BY <1>3, <2>3, <3>1, <3>2 DEF Waits
  <2> QED
    BY <2>1, <2>2, <2>3
<1> QED
  BY <1>2, <1>3 DEF Dispatch

LEMMA ArriveDoes ==
  ASSUME Shape, NEW c \in Client, Arrive(c) \/ Booted(c)
  PROVE  Loads(c) \/ Runs(c, "own") \/ Runs(c, "free") \/ Waits(c) \/ WaitsGlobally(c)
<1>1. Types
  BY DEF Shape
<1>2. CASE Arrive(c) /\ Boots(c)
  BY <1>1, <1>2, Stays DEF Arrive, Boots, Loads, Moves, sched_vars
<1>3. CASE Arrive(c) /\ ~Boots(c)
  <2>1. Taken(c) /\ Dispatch(c)
    BY <1>1, <1>3 DEF Arrive, Boots, Taken, Dispatch, Types
  <2> QED
    BY <2>1, DispatchDoes
<1>4. CASE Booted(c)
  <2>1. systems + 1 \in Nat /\ systems + 1 # 0
    BY <1>1 DEF Types
  <2>2. Taken(c) /\ Dispatch(c)
    BY <1>4, <2>1 DEF Booted, Taken, Dispatch, NewSystem
  <2> QED
    BY <2>2, DispatchDoes
<1> QED
  BY <1>2, <1>3, <1>4

\* The call is answered before it was taken.
Refuses(c) ==
    /\ phase[c] = "booting"
    /\ Moves(c, "idle", NoCall, handle[c], tx[c])
    /\ UNCHANGED <<sched_vars, history>> /\ left' \in LeftType

LEMMA BootFailsDoes ==
  ASSUME Shape, NEW c \in Client, BootFails(c)
  PROVE  Refuses(c)
<1>1. Types
  BY DEF Shape
<1> QED
  BY <1>1, Spent DEF BootFails, Refuses, Answers, Moves

\* What a statement that has run leaves of the database.
Executed(c, o, e) ==
    /\ e \in DbType /\ DbOK(e) /\ SameQueues(Mine(c), e)
    /\ e.lock = Tail(Mine(c).lock) /\ e.last = Mine(c).last /\ e.open = Mine(c).open /\ e.files = Mine(c).files
    /\ e.cur = o.db.cur /\ e.owner = o.db.owner

Executes(c, o, e) ==
    /\ phase[c] = "turn" /\ Mine(c).lock # <<>> /\ Head(Mine(c).lock) = c
    /\ o \in Run(c, Mine(c)) /\ Executed(c, o, e)
    /\ db' = WithDb(handle[c], e)
    /\ Moves(c, "ran", [call[c] EXCEPT !.res = o.res], handle[c], tx[c])
    /\ robbed' = (robbed \/ Robs(c, o))
    /\ left' \in LeftType
    /\ UNCHANGED <<single, globals, files, systems, raced, reclosed, orphaned>>

LEMMA ExecuteDoes ==
  ASSUME Shape, Queues, NEW c \in Client, Execute(c)
  PROVE  /\ handle[c] # 0 /\ call[c].kind \in Statements
         /\ \E o, e : Executes(c, o, e)
<1>1. Types /\ left \in LeftType /\ phase[c] = "turn" /\ CallOK(c) /\ HandleOK(c)
  BY DEF Shape, Types, Execute
<1>2. call[c].kind \in Statements /\ handle[c] # 0
  BY <1>1 DEF CallOK, HandleOK, Working
<1>3. /\ handle[c] \in Ids /\ Mine(c) = db[handle[c]] /\ Mine(c) \in DbType /\ DbOK(Mine(c))
      /\ Mine(c).lock \in Seq(Client)
  BY <1>2, MineFacts
<1>4. Mine(c).lock # <<>>
  <2>1. In(c, Mine(c).lock)
    BY <1>1, <1>3 DEF Queues, LockOK
  <2> QED
    BY <2>1 DEF In
<1>5. Tail(Mine(c).lock) \in Seq(Client)
  BY <1>3, <1>4
<1>6. PICK o \in Run(c, Mine(c)) :
         /\ IF o.fault THEN Spend("faults") ELSE UNCHANGED left
         /\ db' = WithDb(handle[c], [o.db EXCEPT !.lock = Tail(@)])
         /\ phase' = [phase EXCEPT ![c] = "ran"]
         /\ call' = [call EXCEPT ![c].res = o.res]
         /\ robbed' = (robbed \/ Robs(c, o))
  BY DEF Execute
<1>7. call \in [Client -> CallType]
  BY <1>1 DEF Types
<1>8. /\ o.db \in DbType /\ DbOK(o.db) /\ SameQueues(Mine(c), o.db)
      /\ o.db.lock = Mine(c).lock /\ o.db.last = Mine(c).last /\ o.db.open = Mine(c).open /\ o.db.files = Mine(c).files
  BY <1>2, <1>3, <1>7, RunFacts
<1>9. PICK e \in DbType : e = [o.db EXCEPT !.lock = Tail(Mine(c).lock)]
  BY <1>5, <1>8 DEF DbType
<1>10. /\ e.lock = Tail(Mine(c).lock) /\ SameIds(o.db, e) /\ SameConnection(o.db, e) /\ SameQueues(o.db, e)
  BY <1>8, <1>9 DEF DbType, SameIds, SameConnection, SameQueues
<1>11. DbOK(e)
  BY <1>8, <1>10 DEF DbOK, SameIds, SameConnection
<1>12. Executed(c, o, e)
  BY <1>8, <1>9, <1>10, <1>11 DEF Executed, SameIds, SameConnection, SameQueues
<1>13. db' = WithDb(handle[c], e)
  BY <1>6, <1>8, <1>9
<1>14. Moves(c, "ran", [call[c] EXCEPT !.res = o.res], handle[c], tx[c])
  BY <1>1, <1>6, Stays DEF Moves, Execute
<1>15. left' \in LeftType
  BY <1>1, <1>6, Spent
<1> QED
  BY <1>1, <1>2, <1>4, <1>6, <1>12, <1>13, <1>14, <1>15 DEF Executes, Execute

Settles(c) ==
    /\ phase[c] = "ran"
    /\ db' = WithDb(handle[c], Settled(Mine(c), c))
    /\ Moves(c, "settled", call[c], handle[c], tx[c])
    /\ UNCHANGED <<single, globals, files, systems, left, history>>

LEMMA SettleDoes ==
  ASSUME Shape, NEW c \in Client, Settle(c)
  PROVE  Settles(c) /\ handle[c] # 0 /\ call[c].kind \in Statements
<1>1. Types /\ phase[c] = "ran" /\ CallOK(c) /\ HandleOK(c)
  BY DEF Shape, Settle
<1>2. call[c].kind \in Statements /\ handle[c] # 0
  BY <1>1 DEF CallOK, HandleOK, Working
<1> QED
  BY <1>1, <1>2, Stays DEF Settle, Settles, Moves

\* What a call that returns leaves of the database.
Left(c, e) ==
    /\ e \in DbType /\ DbOK(e) /\ SameConnection(Mine(c), e)
    /\ e.cur = (IF RolledBack(c) THEN 0 ELSE Mine(c).cur) /\ e.last = Mine(c).last
    /\ e.lock = Mine(c).lock
    /\ e.waiting = IF call[c].via = "queue" THEN Tail(Mine(c).waiting) ELSE Mine(c).waiting
    /\ Mine(c).turns # <<>> => e.turns # <<>> /\ Head(e.turns) = Head(Mine(c).turns)

Returns(c, e) ==
    /\ phase[c] = "settled" /\ Left(c, e)
    /\ call[c].via = "queue" => Mine(c).waiting # <<>> /\ Head(Mine(c).waiting) = c
    /\ db' = WithDb(handle[c], e)
    /\ Moves(c, "idle", NoCall, handle[c], TxAfter(c))
    /\ orphaned => orphaned'
    /\ orphaned' \in BOOLEAN
    /\ UNCHANGED <<single, globals, files, systems, left, raced, reclosed, robbed>>

LEMMA ReturnDoes ==
  ASSUME Shape, Queues, NEW c \in Client, Return(c)
  PROVE  /\ handle[c] # 0 /\ call[c].kind \in Statements
         /\ \E e : Returns(c, e)
<1>1. Types /\ phase[c] = "settled" /\ CallOK(c) /\ HandleOK(c) /\ DrainOK(c) /\ call[c].via \in {"none", "free", "own", "queue"}
  BY OneOf DEF Shape, Return, Queues
<1>2. call[c].kind \in Statements /\ handle[c] # 0 /\ call[c].via \in {"free", "own", "queue"}
  BY <1>1 DEF CallOK, HandleOK, Working
<1>3. /\ handle[c] \in Ids /\ Mine(c) = db[handle[c]] /\ Mine(c) \in DbType /\ DbOK(Mine(c))
  BY <1>2, MineFacts
<1>4. call[c].via = "queue" => Mine(c).waiting # <<>> /\ Head(Mine(c).waiting) = c
  BY <1>1 DEF DrainOK, Drained, Working
<1>5. PICK d : d = IF RolledBack(c) THEN [Mine(c) EXCEPT !.cur = 0] ELSE Mine(c)
  OBVIOUS
<1>6. /\ d \in DbType /\ DbOK(d) /\ SameQueues(Mine(c), d) /\ SameConnection(Mine(c), d)
      /\ d.lock = Mine(c).lock /\ d.last = Mine(c).last
      /\ d.cur = IF RolledBack(c) THEN 0 ELSE Mine(c).cur
  <2>1. CASE RolledBack(c)
    BY <1>3, <1>5, <2>1, Forgotten
  <2>2. CASE ~RolledBack(c)
    BY <1>3, <1>5, <2>2 DEF SameQueues, SameConnection
  <2> QED
    BY <2>1, <2>2
<1>7. call[c].via = "queue" => d.waiting # <<>>
  BY <1>4, <1>6 DEF SameQueues
<1>8. PICK e : e = Returned(d, c)
  OBVIOUS
<1>9. /\ e \in DbType /\ DbOK(e) /\ SameIds(d, e) /\ SameConnection(d, e) /\ e.lock = d.lock
      /\ e.waiting = IF call[c].via = "queue" THEN Tail(d.waiting) ELSE d.waiting
      /\ d.turns # <<>> => e.turns # <<>> /\ Head(e.turns) = Head(d.turns)
  BY <1>2, <1>6, <1>7, <1>8, ReturnedFacts
<1>10. Left(c, e)
  BY <1>6, <1>9 DEF Left, SameIds, SameConnection, SameQueues
<1>11. db' = WithDb(handle[c], e) /\ Answers(c, handle[c], TxAfter(c))
  BY <1>5, <1>8 DEF Return
<1>12. /\ orphaned => orphaned'
       /\ orphaned' \in BOOLEAN
       /\ UNCHANGED <<single, globals, files, systems, left, raced, reclosed, robbed>>
  BY <1>1 DEF Return, Types
<1> QED
  BY <1>1, <1>2, <1>4, <1>10, <1>11, <1>12 DEF Returns, Answers, Moves

\* The call c that has the global lock gives it back.
Frees(c) == globals # <<>> /\ Head(globals) = c /\ globals' = Tail(globals)

GivesOpen(c) ==
    /\ phase[c] = "global" /\ call[c].kind = "open" /\ Frees(c) /\ single # 0
    /\ Moves(c, "idle", NoCall, single, 0)
    /\ UNCHANGED <<db, single, files, systems, left, history>>

BeginsOpen(c) ==
    /\ phase[c] = "global" /\ call[c].kind = "open" /\ single = 0
    /\ globals # <<>> /\ Head(globals) = c
    /\ Moves(c, "opening", call[c], handle[c], tx[c])
    /\ UNCHANGED <<db, single, globals, files, systems, left, history>>

Opens(c, i) ==
    /\ phase[c] = "opening" /\ Frees(c)
    /\ i = Cardinality(Ids) + 1 /\ db' = WithDb(i, Database(files)) /\ single' = i
    /\ Moves(c, "idle", NoCall, i, 0)
    /\ UNCHANGED <<files, systems, left, history>>

FailsOpen(c) ==
    /\ phase[c] = "opening" /\ Frees(c)
    /\ Moves(c, "idle", NoCall, 0, 0)
    /\ left' \in LeftType
    /\ UNCHANGED <<db, single, files, systems, history>>

Closes(c) ==
    /\ phase[c] = "global" /\ call[c].kind = "close" /\ Frees(c)
    /\ db' = WithDb(handle[c], Closed(Mine(c))) /\ single' = 0
    /\ orphaned' = (orphaned \/ Mine(c).cur # 0)
    /\ reclosed' = (reclosed \/ ~Mine(c).open)
    /\ Moves(c, "idle", NoCall, 0, 0)
    /\ UNCHANGED <<files, systems, left, raced, robbed>>

Deletes(c) ==
    /\ phase[c] = "global" /\ call[c].kind = "delete" /\ Frees(c)
    /\ IF single # 0
       THEN db' = WithDb(single, Closed(db[single])) /\ orphaned' = (orphaned \/ db[single].cur # 0)
       ELSE UNCHANGED <<db, orphaned>>
    /\ single' = 0
    /\ Moves(c, "idle", NoCall, handle[c], tx[c])
    /\ UNCHANGED <<files, systems, left, raced, reclosed, robbed>>

LEMMA GlobalDoes ==
  ASSUME Shape, Queues, NEW c \in Client
  PROVE  /\ OpenStart(c) => GivesOpen(c) \/ BeginsOpen(c)
         /\ OpenDone(c) => \E i : Opens(c, i)
         /\ OpenFails(c) => FailsOpen(c)
         /\ Close(c) => Closes(c)
         /\ DeleteDatabase(c) => Deletes(c)
<1>1. Types
  BY DEF Shape
<1>2. phase[c] = "opening" => globals # <<>> /\ Head(globals) = c
  BY DEF Queues, GlobalsOK
<1>3. ASSUME OpenStart(c) PROVE GivesOpen(c) \/ BeginsOpen(c)
  BY <1>1, <1>3, Stays DEF OpenStart, GivesOpen, BeginsOpen, Holds, Released, Answers, Moves, Frees
<1>4. ASSUME OpenDone(c) PROVE \E i : Opens(c, i)
  BY <1>2, <1>4 DEF OpenDone, Opens, Released, Answers, Moves, Frees
<1>5. ASSUME OpenFails(c) PROVE FailsOpen(c)
  BY <1>1, <1>2, <1>5, Spent DEF OpenFails, FailsOpen, Released, Answers, Moves, Frees
<1>6. ASSUME Close(c) PROVE Closes(c)
  BY <1>6 DEF Close, Closes, Holds, Released, Answers, Moves, Frees, Abandons, Mine
<1>7. ASSUME DeleteDatabase(c) PROVE Deletes(c)
  <2>1. UNCHANGED <<files, systems, left, raced, reclosed, robbed>> /\ single' = 0
    BY <1>7 DEF DeleteDatabase
  <2>2. Frees(c) /\ phase[c] = "global" /\ call[c].kind = "delete" /\ Moves(c, "idle", NoCall, handle[c], tx[c])
    BY <1>7 DEF DeleteDatabase, Holds, Released, Answers, Moves, Frees
  <2>3. CASE single # 0
    BY <1>7, <2>1, <2>2, <2>3 DEF DeleteDatabase, Deletes, Abandons
  <2>4. CASE single = 0
    BY <1>7, <2>1, <2>2, <2>4 DEF DeleteDatabase, Deletes
  <2> QED
    BY <2>3, <2>4
<1> QED
  BY <1>3, <1>4, <1>5, <1>6, <1>7

\* A turn of the queue of the database i ends.
TurnEnds(i) ==
    /\ db[i].turns # <<>>
    /\ db' = WithDb(i, [db[i] EXCEPT !.turns = Tail(@)])
    /\ \A c \in Client : handle[c] = i => ~Drained(c)
    /\ UNCHANGED <<single, globals, files, systems, phase, call, handle, tx, left, history>>

\* The drain lets the first call that waits go on.
LetsIn(i, c) ==
    /\ phase[c] = "queued" /\ handle[c] = i
    /\ db[i].turns # <<>> /\ Head(db[i].turns) = "drain"
    /\ db[i].waiting # <<>> /\ Head(db[i].waiting) = c
    /\ db[i].cur = 0
    /\ db' = WithDb(i, Started(db[i], c))
    /\ Moves(c, "turn", call[c], handle[c], tx[c])
    /\ UNCHANGED <<single, globals, files, systems, left, history>>

LEMMA DrainDoes ==
  ASSUME Shape, Queues, NEW i \in Ids, Drain(i)
  PROVE  TurnEnds(i) \/ \E c \in Client : LetsIn(i, c)
<1>1. Types /\ db[i] \in DbType
  BY DEF Shape, Types
<1>2. db[i].waiting \in Seq(Entry)
  BY <1>1 DEF DbType
<1>3. /\ db[i].turns # <<>> /\ Head(db[i].turns) = "drain"
      /\ db[i].waiting # <<>> /\ Head(db[i].waiting) # Answered_ => phase[Head(db[i].waiting)] = "queued"
      /\ UNCHANGED <<single, globals, files, systems, call, handle, tx, left, history>>
  BY DEF Drain
<1>4. CASE db[i].waiting = <<>> \/ db[i].cur # 0 \/ Head(db[i].waiting) = Answered_
  <2>1. db' = WithDb(i, [db[i] EXCEPT !.turns = Tail(@)]) /\ UNCHANGED phase
    BY <1>4 DEF Drain
  <2>2. ASSUME NEW c \in Client, handle[c] = i, Drained(c) PROVE FALSE
    <3>1. db[i].waiting # <<>> /\ Head(db[i].waiting) = c /\ phase[c] # "queued"
      BY <2>2 DEF Queues, DrainOK, Mine, Drained, Working
    <3> QED
      BY <1>3, <3>1, ClientAssumption DEF Answered_
  <2> QED
    BY <1>3, <2>1, <2>2 DEF TurnEnds
<1>5. CASE ~(db[i].waiting = <<>> \/ db[i].cur # 0 \/ Head(db[i].waiting) = Answered_)
  <2>1. PICK c : c = Head(db[i].waiting)
    OBVIOUS
  <2>2. db' = WithDb(i, Started(db[i], c)) /\ phase' = [phase EXCEPT ![c] = "turn"] /\ phase[c] = "queued"
    BY <1>3, <1>5, <2>1 DEF Drain
  <2>3. c \in Client /\ In(c, db[i].waiting)
    BY <1>2, <1>5, <2>1, Tailed DEF Entry
  <2>4. handle[c] = i
    BY <2>3 DEF Queues, WaitingOK
  <2>5. Moves(c, "turn", call[c], handle[c], tx[c])
    BY <1>1, <1>3, <2>2, <2>3, Stays DEF Moves
  <2> QED
    BY <1>3, <1>5, <2>1, <2>2, <2>3, <2>4, <2>5 DEF LetsIn
<1> QED
  BY <1>4, <1>5

\* The calls that wait for the database i are answered.
AnswersAll(i, e) ==
    /\ e \in DbType /\ DbOK(e) /\ SameIds(db[i], e) /\ SameConnection(db[i], e) /\ e.lock = db[i].lock
    /\ Distinct(e.waiting) /\ \A c \in Client : ~In(c, e.waiting)
    /\ \A c \in Client : handle[c] = i => ~Drained(c)
    /\ \A c \in Client : In(c, db[i].waiting) => handle[c] = i /\ phase[c] = "queued"
    /\ db' = WithDb(i, e)
    /\ phase' = [c \in Client |-> IF In(c, db[i].waiting) THEN "idle" ELSE phase[c]]
    /\ call' = [c \in Client |-> IF In(c, db[i].waiting) THEN NoCall ELSE call[c]]
    /\ UNCHANGED <<single, globals, files, systems, handle, tx, left, history>>

LEMMA EndQueueDoes ==
  ASSUME Shape, Queues, NEW i \in Ids, EndQueue(i)
  PROVE  TurnEnds(i) \/ \E e : AnswersAll(i, e)
<1>1. Types /\ db[i] \in DbType /\ DbOK(db[i])
  BY DEF Shape, Types
<1>2. db[i].waiting \in Seq(Entry) /\ db[i].turns \in Seq({"drain", "close"})
  BY <1>1 DEF DbType
<1>3. /\ db[i].turns # <<>> /\ Head(db[i].turns) = "close"
      /\ UNCHANGED <<single, globals, files, systems, handle, tx, left, history>>
  BY DEF EndQueue
<1>4. \A c \in Client : handle[c] = i => ~Drained(c)
  BY <1>3 DEF Queues, DrainOK, Mine
<1>5. CASE Answered_ \in ToSet(db[i].waiting)
  <2>1. db' = WithDb(i, [db[i] EXCEPT !.turns = Tail(@)]) /\ UNCHANGED <<phase, call>>
    BY <1>5 DEF EndQueue
  <2> QED
    BY <1>3, <1>4, <2>1 DEF TurnEnds
<1>6. CASE Answered_ \notin ToSet(db[i].waiting)
  <2>1. PICK w : w = [k \in DOMAIN db[i].waiting |-> Answered_]
    OBVIOUS
  <2>2. PICK n \in Nat : n = Len(db[i].waiting) /\ DOMAIN db[i].waiting = 1 .. n
    BY <1>2
  <2>3. w \in Seq(Entry) /\ Len(w) = n /\ \A k \in 1 .. n : w[k] = Answered_
    BY <2>1, <2>2 DEF Entry
  <2>4. Distinct(w) /\ \A c \in Client : ~In(c, w)
    BY <2>3, ClientAssumption DEF Distinct, In, Answered_
  <2>5. Tail(db[i].turns) \in Seq({"drain", "close"})
    BY <1>2, <1>3, Turned
  <2>6. PICK e \in DbType : e = [db[i] EXCEPT !.turns = Tail(@), !.waiting = w]
    BY <1>1, <2>3, <2>5 DEF DbType
  <2>7. SameIds(db[i], e) /\ SameConnection(db[i], e) /\ e.lock = db[i].lock /\ e.waiting = w
    BY <1>1, <2>6 DEF SameIds, SameConnection, DbType
  <2>8. DbOK(e)
    BY <1>1, <2>7 DEF DbOK, SameIds, SameConnection
  <2>9. db' = WithDb(i, e)
    BY <1>6, <2>1, <2>6 DEF EndQueue
  <2>10. \A c \in Client : c \in ToSet(db[i].waiting) <=> In(c, db[i].waiting)
    BY <1>2, InSet
  <2>11. /\ phase' = [c \in Client |-> IF In(c, db[i].waiting) THEN "idle" ELSE phase[c]]
         /\ call' = [c \in Client |-> IF In(c, db[i].waiting) THEN NoCall ELSE call[c]]
    BY <1>6, <2>10 DEF EndQueue
  <2>12. \A c \in Client : In(c, db[i].waiting) => handle[c] = i /\ phase[c] = "queued"
    BY <1>4 DEF Queues, WaitingOK
  <2> QED
    BY <1>3, <1>4, <2>4, <2>6, <2>7, <2>8, <2>9, <2>11, <2>12 DEF AnswersAll
<1> QED
  BY <1>5, <1>6

\* What a client, or the worker for it, does.
Does(c) ==
    \/ (\E kind \in Statements \cup Globals : Posts(c, kind)) \/ Loads(c) \/ Refuses(c)
    \/ Runs(c, "own") \/ Runs(c, "free") \/ Waits(c) \/ WaitsGlobally(c)
    \/ (\E o, e : Executes(c, o, e)) \/ Settles(c) \/ (\E e : Returns(c, e))
    \/ GivesOpen(c) \/ BeginsOpen(c) \/ (\E i : Opens(c, i)) \/ FailsOpen(c)
    \/ Closes(c) \/ Deletes(c)
    \/ \E i \in Ids : LetsIn(i, c)

LEMMA Steps ==
  ASSUME Shape, Queues, Next
  PROVE  \/ \E c \in Client : Does(c)
         \/ \E i \in Ids : TurnEnds(i) \/ \E e : AnswersAll(i, e)
<1>1. ASSUME NEW c \in left.tabs, Send(c) \/ SendEnd(c) \/ Worker(c)
      PROVE  c \in Client /\ Does(c)
  <2>1. c \in Client
    BY DEF Shape, Types, LeftType
  <2>2. CASE Send(c) \/ SendEnd(c)
    BY <2>1, <2>2, SendDoes DEF Does
  <2>3. CASE Arrive(c) \/ Booted(c)
    BY <2>1, <2>3, ArriveDoes DEF Does
  <2>4. CASE BootFails(c)
    BY <2>1, <2>4, BootFailsDoes DEF Does
  <2>5. CASE Execute(c)
    BY <2>1, <2>5, ExecuteDoes DEF Does
  <2>6. CASE Settle(c)
    BY <2>1, <2>6, SettleDoes DEF Does
  <2>7. CASE Return(c)
    BY <2>1, <2>7, ReturnDoes DEF Does
  <2>8. CASE OpenStart(c) \/ OpenDone(c) \/ OpenFails(c) \/ Close(c) \/ DeleteDatabase(c)
    BY <2>1, <2>8, GlobalDoes DEF Does
  <2> QED
    BY <1>1, <2>1, <2>2, <2>3, <2>4, <2>5, <2>6, <2>7, <2>8 DEF Worker
<1>2. ASSUME NEW i \in Ids, Drain(i) \/ EndQueue(i)
      PROVE  TurnEnds(i) \/ (\E e : AnswersAll(i, e)) \/ \E c \in Client : Does(c)
  BY <1>2, DrainDoes, EndQueueDoes DEF Does
<1> QED
  BY <1>1, <1>2 DEF Next

-----------------------------------------------------------------------------
\* One lemma for each way in which the shape is kept.
LEMMA OthersKept ==
  ASSUME Shape, Grows
  PROVE  /\ single \in {0} \cup Ids' /\ globals \in Seq(Client) /\ files \in Nat /\ systems \in Nat /\ left \in LeftType
         /\ raced \in BOOLEAN /\ reclosed \in BOOLEAN /\ orphaned \in BOOLEAN /\ robbed \in BOOLEAN
         /\ \A c \in Client : handle[c] \in {0} \cup Ids'
  BY OneOf DEF Shape, Types, Grows

LEMMA CallTyped ==
  ASSUME Types, NEW c \in Client
  PROVE  /\ NoCall \in CallType
         /\ \A kind \in Kinds : [NoCall EXCEPT !.kind = kind] \in CallType
         /\ \A via \in {"free", "own", "queue"} : [call[c] EXCEPT !.via = via] \in CallType
         /\ \A res \in Results : [call[c] EXCEPT !.res = res] \in CallType
<1>1. call[c] \in CallType
  BY OneOf
<1>2. NoCall \in CallType
  BY DEF NoCall, CallType, Kinds, Results
<1>3. \A kind \in Kinds : [NoCall EXCEPT !.kind = kind] \in CallType
  BY <1>2 DEF CallType
<1>4. \A via \in {"free", "own", "queue"} : [call[c] EXCEPT !.via = via] \in CallType
  BY <1>1 DEF CallType
<1>5. \A res \in Results : [call[c] EXCEPT !.res = res] \in CallType
  BY <1>1 DEF CallType
<1> QED
  BY <1>2, <1>3, <1>4, <1>5

LEMMA PostsShape ==
  ASSUME Shape, NEW c \in Client, NEW kind \in Statements \cup Globals, Posts(c, kind)
  PROVE  Shape'
<1>1. Types /\ HandleOK(c) /\ kind \in Kinds /\ Grows
  BY Unchanged DEF Shape, Kinds, Posts, sched_vars
<1>2. Ids' = Ids /\ db' = db
  BY DEF Posts, sched_vars, Ids
<1>3. PICK k \in CallType : k = [NoCall EXCEPT !.kind = kind]
  BY <1>1, CallTyped
<1>4. k.kind = kind /\ k.via = "none" /\ k.res = "none"
  BY <1>3 DEF NoCall
<1>5. Moves(c, "sent", k, handle[c], tx[c])
  BY <1>3 DEF Posts
<1>6. phase'[c] = "sent" /\ call'[c] = k /\ handle'[c] = handle[c] /\ tx'[c] = tx[c]
  BY <1>1, <1>5, Moved
<1>7. CallOK(c)'
  BY <1>4, <1>6 DEF CallOK, Working, Statements, Globals
<1>8. HandleOK(c)'
  BY <1>1, <1>2, <1>4, <1>6 DEF HandleOK, Mine, Posts
<1>9. OthersOK
  BY <1>1, OthersKept DEF OthersOK, Posts, sched_vars, history
<1>10. handle[c] \in {0} \cup Ids' /\ tx[c] \in Nat /\ "sent" \in Phases
  BY <1>1, <1>2, OneOf DEF Phases
<1> QED
  BY <1>1, <1>5, <1>7, <1>8, <1>9, <1>10, ShapeKept

LEMMA LoadsShape ==
  ASSUME Shape, NEW c \in Client, Loads(c) \/ Refuses(c)
  PROVE  Shape'
<1>1. Types /\ HandleOK(c) /\ CallOK(c) /\ Grows
  BY Unchanged DEF Shape, Loads, Refuses, sched_vars
<1>2. Ids' = Ids /\ db' = db
  BY DEF Loads, Refuses, sched_vars, Ids
<1>3. OthersOK
  BY <1>1, OthersKept DEF OthersOK, Loads, Refuses, sched_vars, history
<1>4. handle[c] \in {0} \cup Ids' /\ tx[c] \in Nat /\ "booting" \in Phases /\ "idle" \in Phases /\ call[c] \in CallType /\ NoCall \in CallType
  BY <1>1, <1>2, OneOf, CallTyped DEF Phases
<1>5. CASE Loads(c)
  <2>1. Moves(c, "booting", call[c], handle[c], tx[c]) /\ phase[c] = "sent"
    BY <1>5 DEF Loads
  <2>2. phase'[c] = "booting" /\ call'[c] = call[c] /\ handle'[c] = handle[c] /\ tx'[c] = tx[c]
    BY <1>1, <2>1, Moved
  <2>3. CallOK(c)' /\ HandleOK(c)'
    BY <1>1, <1>2, <2>1, <2>2 DEF CallOK, HandleOK, Mine, Working
  <2> QED
    BY <1>1, <1>3, <1>4, <2>1, <2>3, ShapeKept
<1>6. CASE Refuses(c)
  <2>1. Moves(c, "idle", NoCall, handle[c], tx[c])
    BY <1>6 DEF Refuses
  <2>2. phase'[c] = "idle" /\ call'[c] = NoCall /\ handle'[c] = handle[c] /\ tx'[c] = tx[c]
    BY <1>1, <2>1, Moved
  <2>3. CallOK(c)' /\ HandleOK(c)'
    BY <1>1, <1>2, <2>2 DEF CallOK, HandleOK, Mine, Working, NoCall, Statements, Globals
  <2> QED
    BY <1>1, <1>3, <1>4, <2>1, <2>3, ShapeKept
<1> QED
  BY <1>5, <1>6

LEMMA TakenShape ==
  ASSUME Shape, NEW c \in Client, Runs(c, "own") \/ Runs(c, "free") \/ Waits(c) \/ WaitsGlobally(c)
  PROVE  Shape'
<1>1. Types /\ HandleOK(c) /\ CallOK(c) /\ Taken(c)
  BY DEF Shape, Runs, Waits, WaitsGlobally
<1>2. phase[c] \in {"sent", "booting"} /\ call[c].via = "none" /\ call[c].res = "none" /\ call[c] \in CallType
  BY <1>1, OneOf DEF Taken, CallOK
<1>3. handle[c] \in {0} \cup Ids /\ tx[c] \in Nat /\ {"turn", "queued", "global"} \subseteq Phases
  BY <1>1, OneOf DEF Phases
<1>4. ASSUME Grows, globals' \in Seq(Client) PROVE OthersOK
  BY <1>1, <1>4, OthersKept DEF OthersOK, Taken, history
<1>5. ASSUME NEW via \in {"own", "free"}, Runs(c, via) PROVE Shape'
  <2>1. call[c].kind \in Statements /\ handle[c] # 0
    BY <1>1, <1>5 DEF Runs, HandleOK
  <2>2. handle[c] \in Ids /\ Mine(c) \in DbType /\ DbOK(Mine(c)) /\ Mine(c) = db[handle[c]]
    BY <2>1, MineFacts
  <2>3. PICK e : e = Started(Mine(c), c)
    OBVIOUS
  <2>4. e \in DbType /\ DbOK(e) /\ Mine(c).last <= e.last
    <3>1. /\ e \in DbType /\ DbOK(e)
          /\ e.last = Mine(c).last \/ e.last = Mine(c).last + 1
      BY <2>2, <2>3, StartedFacts DEF SameIds
    <3>2. e.last \in Nat /\ Mine(c).last \in Nat
      BY <2>2, <3>1 DEF DbType
    <3> QED
      BY <3>1, <3>2
  <2>5. Grows /\ Ids' = Ids /\ db'[handle[c]] = e
    BY <1>5, <2>2, <2>3, <2>4, Replaced DEF Runs
  <2>6. PICK k \in CallType : k = [call[c] EXCEPT !.via = via]
    BY <1>1, CallTyped
  <2>7. k.kind = call[c].kind /\ k.via = via /\ k.res = call[c].res
    BY <1>2, <2>6 DEF CallType
  <2>8. Moves(c, "turn", k, handle[c], tx[c])
    BY <1>5, <2>6 DEF Runs
  <2>9. phase'[c] = "turn" /\ call'[c] = k /\ handle'[c] = handle[c] /\ tx'[c] = tx[c]
    BY <1>1, <2>8, Moved
  <2>10. via = "own" => tx[c] # 0
    BY <1>5 DEF Runs, Own
  <2>11. CallOK(c)'
    BY <1>1, <1>2, <1>5, <2>1, <2>7, <2>9, <2>10 DEF CallOK, Working
  <2>12. tx[c] <= e.last
    <3>1. tx[c] <= Mine(c).last /\ Mine(c).last \in Nat /\ e.last \in Nat
      BY <1>1, <2>1, <2>2, <2>4 DEF HandleOK, DbType
    <3> QED
      BY <1>3, <2>4, <3>1
  <2>13. HandleOK(c)'
    BY <1>1, <2>1, <2>5, <2>7, <2>9, <2>12 DEF HandleOK, Mine
  <2>14. OthersOK
    BY <1>1, <1>4, <1>5, <2>5 DEF Runs, Types
  <2> QED
    BY <1>3, <2>5, <2>8, <2>11, <2>13, <2>14, ShapeKept
<1>6. ASSUME Waits(c) PROVE Shape'
  <2>1. call[c].kind \in Statements /\ handle[c] # 0
    BY <1>1, <1>6 DEF Waits, HandleOK
  <2>2. handle[c] \in Ids /\ Mine(c) \in DbType /\ DbOK(Mine(c)) /\ Mine(c) = db[handle[c]] /\ Mine(c).waiting \in Seq(Entry)
    BY <2>1, MineFacts
  <2>3. Append(Mine(c).waiting, c) \in Seq(Entry)
    BY <2>2, Appended
  <2>4. PICK e \in DbType : e = [Mine(c) EXCEPT !.waiting = Append(@, c)]
    BY <2>2, <2>3 DEF DbType
  <2>5. SameIds(Mine(c), e) /\ SameConnection(Mine(c), e)
    BY <2>2, <2>4 DEF SameIds, SameConnection, DbType
  <2>6. DbOK(e) /\ Mine(c).last <= e.last
    BY <2>2, <2>5 DEF DbOK, SameIds, SameConnection, DbType
  <2>7. Grows /\ Ids' = Ids /\ db'[handle[c]] = e
    BY <1>6, <2>2, <2>4, <2>6, Replaced DEF Waits
  <2>8. PICK k \in CallType : k = [call[c] EXCEPT !.via = "queue"]
    BY <1>1, CallTyped
  <2>9. k.kind = call[c].kind /\ k.via = "queue" /\ k.res = call[c].res
    BY <1>2, <2>8 DEF CallType
  <2>10. Moves(c, "queued", k, handle[c], tx[c])
    BY <1>6, <2>8 DEF Waits
  <2>11. phase'[c] = "queued" /\ call'[c] = k /\ handle'[c] = handle[c] /\ tx'[c] = tx[c]
    BY <1>1, <2>10, Moved
  <2>12. CallOK(c)'
    BY <1>1, <1>2, <1>6, <2>1, <2>9, <2>11 DEF CallOK, Working
  <2>13. HandleOK(c)'
    BY <1>1, <2>1, <2>2, <2>5, <2>7, <2>9, <2>11 DEF HandleOK, Mine, SameIds
  <2>14. OthersOK
    BY <1>1, <1>4, <1>6, <2>7 DEF Waits, Types
  <2> QED
    BY <1>3, <2>7, <2>10, <2>12, <2>13, <2>14, ShapeKept
<1>7. ASSUME WaitsGlobally(c) PROVE Shape'
  <2>1. Grows /\ Ids' = Ids /\ db' = db
    BY <1>7, Unchanged DEF WaitsGlobally
  <2>2. globals' \in Seq(Client) /\ OthersOK
    <3>1. globals' \in Seq(Client)
      BY <1>1, <1>7 DEF WaitsGlobally, Types
    <3> QED
      BY <1>4, <2>1, <3>1
  <2>3. Moves(c, "global", call[c], handle[c], tx[c])
    BY <1>7 DEF WaitsGlobally
  <2>4. phase'[c] = "global" /\ call'[c] = call[c] /\ handle'[c] = handle[c] /\ tx'[c] = tx[c]
    BY <1>1, <2>3, Moved
  <2>5. CallOK(c)' /\ HandleOK(c)'
    BY <1>1, <1>2, <1>7, <2>1, <2>4 DEF CallOK, HandleOK, Mine, Working, WaitsGlobally
  <2> QED
    BY <1>2, <1>3, <2>1, <2>2, <2>3, <2>5, ShapeKept
<1> QED
  BY <1>5, <1>6, <1>7

LEMMA LetsInShape ==
  ASSUME Shape, NEW c \in Client, NEW i \in Ids, LetsIn(i, c)
  PROVE  Shape'
<1>1. Types /\ HandleOK(c) /\ CallOK(c) /\ phase[c] = "queued" /\ handle[c] = i
  BY DEF Shape, LetsIn
<1>2. call[c].kind \in Statements /\ call[c].via = "queue" /\ call[c].res = "none" /\ handle[c] # 0
  BY <1>1 DEF CallOK, HandleOK
<1>3. i \in Ids /\ Mine(c) \in DbType /\ DbOK(Mine(c)) /\ Mine(c) = db[i]
  BY <1>1, <1>2, MineFacts
<1>4. PICK e : e = Started(Mine(c), c)
  OBVIOUS
<1>5. e \in DbType /\ DbOK(e) /\ Mine(c).last <= e.last
  <2>1. /\ e \in DbType /\ DbOK(e)
        /\ e.last = Mine(c).last \/ e.last = Mine(c).last + 1
    BY <1>3, <1>4, StartedFacts DEF SameIds
  <2>2. e.last \in Nat /\ Mine(c).last \in Nat
    BY <1>3, <2>1 DEF DbType
  <2> QED
    BY <2>1, <2>2
<1>6. Grows /\ Ids' = Ids /\ db'[i] = e
  BY <1>3, <1>4, <1>5, Replaced DEF LetsIn
<1>7. Moves(c, "turn", call[c], handle[c], tx[c])
  BY DEF LetsIn
<1>8. phase'[c] = "turn" /\ call'[c] = call[c] /\ handle'[c] = handle[c] /\ tx'[c] = tx[c]
  BY <1>1, <1>7, Moved
<1>9. CallOK(c)'
  BY <1>1, <1>2, <1>8 DEF CallOK, Working
<1>10. tx[c] <= e.last
  <2>1. tx[c] <= Mine(c).last /\ Mine(c).last \in Nat /\ e.last \in Nat /\ tx[c] \in Nat
    BY <1>1, <1>2, <1>3, <1>5, OneOf DEF HandleOK, DbType
  <2> QED
    BY <1>5, <2>1
<1>11. HandleOK(c)'
  BY <1>1, <1>2, <1>6, <1>8, <1>10 DEF HandleOK, Mine
<1>12. OthersOK
  BY <1>1, <1>6, OthersKept DEF OthersOK, LetsIn, history, Types
<1>13. handle[c] \in {0} \cup Ids' /\ tx[c] \in Nat /\ "turn" \in Phases /\ call[c] \in CallType
  BY <1>1, <1>6, OneOf DEF Phases
<1> QED
  BY <1>6, <1>7, <1>9, <1>11, <1>12, <1>13, ShapeKept

LEMMA ExecutesShape ==
  ASSUME Shape, NEW c \in Client, NEW o, NEW e, Executes(c, o, e)
  PROVE  Shape'
<1>1. Types /\ HandleOK(c) /\ CallOK(c) /\ phase[c] = "turn"
  BY DEF Shape, Executes
<1>2. call[c].kind \in Statements /\ call[c].via # "none" /\ handle[c] # 0 /\ call[c] \in CallType
  BY <1>1, OneOf DEF CallOK, HandleOK, Working
<1>3. handle[c] \in Ids /\ Mine(c) \in DbType /\ DbOK(Mine(c)) /\ Mine(c) = db[handle[c]]
  BY <1>2, MineFacts
<1>4. o.res \in Results \ {"none"} /\ (o.res = "told" => call[c].kind = "batch")
  BY <1>1, <1>2, <1>3, RunFacts DEF Executes, Types
<1>5. e \in DbType /\ DbOK(e) /\ e.last = Mine(c).last
  BY DEF Executes, Executed
<1>6. Mine(c).last <= e.last
  BY <1>5 DEF DbType
<1>7. Grows /\ Ids' = Ids /\ db'[handle[c]] = e
  BY <1>3, <1>5, <1>6, Replaced DEF Executes
<1>8. PICK k \in CallType : k = [call[c] EXCEPT !.res = o.res]
  BY <1>1, <1>4, CallTyped
<1>9. k.kind = call[c].kind /\ k.via = call[c].via /\ k.res = o.res
  BY <1>2, <1>8 DEF CallType
<1>10. Moves(c, "ran", k, handle[c], tx[c])
  BY <1>8 DEF Executes
<1>11. phase'[c] = "ran" /\ call'[c] = k /\ handle'[c] = handle[c] /\ tx'[c] = tx[c]
  BY <1>1, <1>10, Moved
<1>12. CallOK(c)'
  BY <1>1, <1>2, <1>4, <1>9, <1>11 DEF CallOK, Working, Statements
<1>13. HandleOK(c)'
  BY <1>1, <1>2, <1>3, <1>5, <1>7, <1>9, <1>11 DEF HandleOK, Mine
<1>14. Robs(c, o) \in BOOLEAN
  BY DEF Robs
<1>15. OthersOK
  BY <1>1, <1>7, <1>14, OthersKept DEF OthersOK, Executes, Types
<1>16. handle[c] \in {0} \cup Ids' /\ tx[c] \in Nat /\ "ran" \in Phases
  BY <1>1, <1>7, OneOf DEF Phases
<1> QED
  BY <1>7, <1>10, <1>12, <1>13, <1>15, <1>16, ShapeKept

LEMMA SettlesShape ==
  ASSUME Shape, NEW c \in Client, Settles(c)
  PROVE  Shape'
<1>1. Types /\ HandleOK(c) /\ CallOK(c) /\ phase[c] = "ran"
  BY DEF Shape, Settles
<1>2. call[c].kind \in Statements /\ call[c].via # "none" /\ call[c].res # "none" /\ handle[c] # 0
  BY <1>1 DEF CallOK, HandleOK, Working
<1>3. handle[c] \in Ids /\ Mine(c) \in DbType /\ DbOK(Mine(c)) /\ Mine(c) = db[handle[c]]
  BY <1>2, MineFacts
<1>4. PICK e : e = Settled(Mine(c), c)
  OBVIOUS
<1>5. e \in DbType /\ DbOK(e) /\ e.last = Mine(c).last
  BY <1>3, <1>4, SettledFacts
<1>6. Mine(c).last <= e.last
  BY <1>5 DEF DbType
<1>7. Grows /\ Ids' = Ids /\ db'[handle[c]] = e
  BY <1>3, <1>4, <1>5, <1>6, Replaced DEF Settles
<1>8. Moves(c, "settled", call[c], handle[c], tx[c])
  BY DEF Settles
<1>9. phase'[c] = "settled" /\ call'[c] = call[c] /\ handle'[c] = handle[c] /\ tx'[c] = tx[c]
  BY <1>1, <1>8, Moved
<1>10. CallOK(c)'
  BY <1>1, <1>2, <1>9 DEF CallOK, Working
<1>11. HandleOK(c)'
  BY <1>1, <1>2, <1>3, <1>5, <1>7, <1>9 DEF HandleOK, Mine
<1>12. OthersOK
  BY <1>1, <1>7, OthersKept DEF OthersOK, Settles, history, Types
<1>13. handle[c] \in {0} \cup Ids' /\ tx[c] \in Nat /\ "settled" \in Phases /\ call[c] \in CallType
  BY <1>1, <1>7, OneOf DEF Phases
<1> QED
  BY <1>7, <1>8, <1>10, <1>11, <1>12, <1>13, ShapeKept

LEMMA AfterFacts ==
  ASSUME Shape, NEW c \in Client, handle[c] # 0
  PROVE  TxAfter(c) \in Nat /\ TxAfter(c) <= Mine(c).last
<1>1. Types /\ HandleOK(c)
  BY DEF Shape
<1>2. Mine(c) \in DbType /\ Mine(c).cur <= Mine(c).last /\ Mine(c).cur \in Nat /\ Mine(c).last \in Nat
  BY MineFacts DEF DbOK
<1>3. tx[c] \in Nat /\ tx[c] <= Mine(c).last
  BY <1>1, OneOf DEF HandleOK
<1>4. TxAfter(c) \in {Mine(c).cur, 0, tx[c]}
  BY DEF TxAfter
<1> QED
  BY <1>2, <1>3, <1>4

LEMMA ReturnsShape ==
  ASSUME Shape, NEW c \in Client, NEW e, Returns(c, e)
  PROVE  Shape'
<1>1. Types /\ HandleOK(c) /\ CallOK(c) /\ phase[c] = "settled"
  BY DEF Shape, Returns
<1>2. handle[c] # 0
  BY <1>1 DEF CallOK, HandleOK, Working
<1>3. handle[c] \in Ids /\ Mine(c) \in DbType /\ DbOK(Mine(c)) /\ Mine(c) = db[handle[c]]
  BY <1>2, MineFacts
<1>4. e \in DbType /\ DbOK(e) /\ e.last = Mine(c).last
  BY DEF Returns, Left
<1>5. Mine(c).last <= e.last
  BY <1>4 DEF DbType
<1>6. Grows /\ Ids' = Ids /\ db'[handle[c]] = e
  BY <1>3, <1>4, <1>5, Replaced DEF Returns
<1>7. Moves(c, "idle", NoCall, handle[c], TxAfter(c))
  BY DEF Returns
<1>8. phase'[c] = "idle" /\ call'[c] = NoCall /\ handle'[c] = handle[c] /\ tx'[c] = TxAfter(c)
  BY <1>1, <1>7, Moved
<1>9. CallOK(c)'
  BY <1>8 DEF CallOK, Working, NoCall
<1>10. HandleOK(c)'
  BY <1>2, <1>4, <1>6, <1>8, AfterFacts DEF HandleOK, Mine, NoCall, Statements, Globals
<1>11. OthersOK
  BY <1>1, <1>6, OthersKept DEF OthersOK, Returns, Types
<1>12. handle[c] \in {0} \cup Ids' /\ TxAfter(c) \in Nat /\ "idle" \in Phases /\ NoCall \in CallType
  BY <1>1, <1>2, <1>3, <1>6, AfterFacts, CallTyped DEF Phases
<1> QED
  BY <1>6, <1>7, <1>9, <1>10, <1>11, <1>12, ShapeKept

LEMMA IdleShape ==
  ASSUME Shape, Grows, OthersOK, NEW c \in Client, NEW h \in {0} \cup Ids', NEW t \in Nat,
         Moves(c, "idle", NoCall, h, t),
         h = 0 => t = 0, h # 0 => t <= db'[h].last
  PROVE  Shape'
<1>1. Types
  BY DEF Shape
<1>2. phase'[c] = "idle" /\ call'[c] = NoCall /\ handle'[c] = h /\ tx'[c] = t
  BY <1>1, Moved
<1>3. CallOK(c)' /\ HandleOK(c)'
  BY <1>2 DEF CallOK, HandleOK, Mine, Working, NoCall, Statements, Globals
<1>4. "idle" \in Phases /\ NoCall \in CallType
  BY <1>1, CallTyped DEF Phases
<1> QED
  BY <1>3, <1>4, ShapeKept

LEMMA FreesFacts ==
  ASSUME Types, NEW c, Frees(c)
  PROVE  globals' \in Seq(Client)
  BY DEF Types, Frees

LEMMA GlobalsShape ==
  ASSUME Shape, NEW c \in Client,
         GivesOpen(c) \/ BeginsOpen(c) \/ (\E i : Opens(c, i)) \/ FailsOpen(c) \/ Closes(c) \/ Deletes(c)
  PROVE  Shape'
<1>1. Types /\ HandleOK(c) /\ CallOK(c) /\ call[c] \in CallType /\ tx[c] \in Nat /\ handle[c] \in {0} \cup Ids
      /\ single \in {0} \cup Ids
  BY OneOf DEF Shape, Types
<1>2. \A i \in Ids : db[i] \in DbType /\ DbOK(db[i]) /\ db[i].last \in Nat
  BY DEF Shape, Types, DbType
<1>3. UNCHANGED db => Grows /\ Ids' = Ids
  BY Unchanged
<1>4. CASE GivesOpen(c)
  <2>1. Grows /\ Ids' = Ids /\ db' = db /\ single # 0
    BY <1>3, <1>4 DEF GivesOpen
  <2>2. OthersOK
    BY <1>1, <1>4, <2>1, OthersKept, FreesFacts DEF OthersOK, GivesOpen, history
  <2>3. 0 <= db'[single].last
    BY <1>1, <1>2, <2>1
  <2>4. Moves(c, "idle", NoCall, single, 0) /\ single \in {0} \cup Ids'
    BY <1>1, <1>4, <2>1 DEF GivesOpen
  <2> QED
    BY <2>1, <2>2, <2>3, <2>4, IdleShape
<1>5. CASE BeginsOpen(c)
  <2>1. Grows /\ Ids' = Ids /\ db' = db
    BY <1>3, <1>5 DEF BeginsOpen
  <2>2. OthersOK
    BY <1>1, <1>5, <2>1, OthersKept DEF OthersOK, BeginsOpen, history
  <2>3. Moves(c, "opening", call[c], handle[c], tx[c]) /\ phase[c] = "global" /\ call[c].kind = "open"
    BY <1>5 DEF BeginsOpen
  <2>4. phase'[c] = "opening" /\ call'[c] = call[c] /\ handle'[c] = handle[c] /\ tx'[c] = tx[c]
    BY <1>1, <2>3, Moved
  <2>5. CallOK(c)' /\ HandleOK(c)'
    BY <1>1, <2>1, <2>3, <2>4 DEF CallOK, HandleOK, Mine, Working
  <2>6. handle[c] \in {0} \cup Ids' /\ "opening" \in Phases
    BY <1>1, <2>1 DEF Phases
  <2> QED
    BY <1>1, <2>1, <2>2, <2>3, <2>5, <2>6, ShapeKept
<1>6. ASSUME NEW i, Opens(c, i) PROVE Shape'
  <2>1. i = Cardinality(Ids) + 1 /\ db' = WithDb(Cardinality(Ids) + 1, Database(files))
    BY <1>6 DEF Opens
  <2>2. Grows /\ i # 0 /\ Ids' = Ids \cup {i} /\ db'[i] = Database(files)
    BY <2>1, Opened
  <2>3. OthersOK
    BY <1>1, <1>6, <2>2, OthersKept, FreesFacts DEF OthersOK, Opens, history
  <2>4. 0 <= db'[i].last
    BY <2>2 DEF Grows, DbType
  <2>5. Moves(c, "idle", NoCall, i, 0)
    BY <1>6 DEF Opens
  <2> QED
    BY <2>2, <2>3, <2>4, <2>5, IdleShape
<1>7. CASE FailsOpen(c)
  <2>1. Grows /\ Ids' = Ids /\ db' = db
    BY <1>3, <1>7 DEF FailsOpen
  <2>2. OthersOK
    BY <1>1, <1>7, <2>1, OthersKept, FreesFacts DEF OthersOK, FailsOpen, history
  <2>3. Moves(c, "idle", NoCall, 0, 0)
    BY <1>7 DEF FailsOpen
  <2> QED
    BY <2>1, <2>2, <2>3, IdleShape
<1>8. CASE Closes(c)
  <2>1. handle[c] # 0 /\ db' = WithDb(handle[c], Closed(Mine(c)))
    BY <1>1, <1>8 DEF Closes, HandleOK
  <2>2. handle[c] \in Ids /\ Mine(c) \in DbType /\ DbOK(Mine(c)) /\ Mine(c) = db[handle[c]]
    BY <2>1, MineFacts
  <2>3. PICK e \in DbType : e = Closed(Mine(c)) /\ DbOK(e) /\ Behind(Mine(c), e)
    BY <2>2, ClosedFacts
  <2>4. Mine(c).last <= e.last
    BY <2>2, <2>3 DEF Behind, SameIds, DbType
  <2>5. Grows /\ Ids' = Ids
    BY <2>1, <2>2, <2>3, <2>4, Replaced
  <2>6. OthersOK
    BY <1>1, <1>8, <2>2, <2>5, OthersKept, FreesFacts DEF OthersOK, Closes, DbType
  <2>7. Moves(c, "idle", NoCall, 0, 0)
    BY <1>8 DEF Closes
  <2> QED
    BY <2>5, <2>6, <2>7, IdleShape
<1>9. CASE Deletes(c)
  <2>1. Grows /\ Ids' = Ids /\ (handle[c] # 0 => tx[c] <= db'[handle[c]].last)
    <3>1. CASE single = 0
      <4>1. UNCHANGED db
        BY <1>9, <3>1 DEF Deletes
      <4> QED
        BY <1>1, <1>3, <4>1 DEF HandleOK, Mine
    <3>2. CASE single # 0
      <4>1. single \in Ids /\ db[single] \in DbType /\ DbOK(db[single])
        BY <1>1, <1>2, <3>2
      <4>2. PICK e \in DbType : e = Closed(db[single]) /\ DbOK(e) /\ Behind(db[single], e)
        BY <4>1, ClosedFacts
      <4>3. db[single].last <= e.last /\ e.last = db[single].last
        BY <4>1, <4>2 DEF Behind, SameIds, DbType
      <4>4. /\ Grows /\ Ids' = Ids /\ db'[single] = e
            /\ \A j \in Ids \ {single} : db'[j] = db[j]
        BY <1>9, <3>2, <4>1, <4>2, <4>3, Replaced DEF Deletes
      <4>5. handle[c] # 0 => db'[handle[c]].last = db[handle[c]].last
        BY <1>1, <4>3, <4>4
      <4> QED
        BY <1>1, <4>4, <4>5 DEF HandleOK, Mine
    <3> QED
      BY <3>1, <3>2
  <2>2. orphaned' \in BOOLEAN
    <3>1. CASE single = 0
      BY <1>1, <1>9, <3>1 DEF Deletes, Types
    <3>2. CASE single # 0
      BY <1>1, <1>9, <3>2 DEF Deletes, Types
    <3> QED
      BY <3>1, <3>2
  <2>3. OthersOK
    BY <1>1, <1>9, <2>1, <2>2, OthersKept, FreesFacts DEF OthersOK, Deletes
  <2>4. Moves(c, "idle", NoCall, handle[c], tx[c]) /\ handle[c] \in {0} \cup Ids' /\ (handle[c] = 0 => tx[c] = 0)
    BY <1>1, <1>9, <2>1 DEF Deletes, HandleOK
  <2> QED
    BY <1>1, <2>1, <2>3, <2>4, IdleShape
<1> QED
  BY <1>4, <1>5, <1>6, <1>7, <1>8, <1>9

LEMMA TurnEndsFacts ==
  ASSUME Shape, NEW i \in Ids, TurnEnds(i)
  PROVE  /\ Grows /\ Ids' = Ids /\ \A j \in Ids \ {i} : db'[j] = db[j]
         /\ SameIds(db[i], db'[i]) /\ SameConnection(db[i], db'[i])
         /\ db'[i].lock = db[i].lock /\ db'[i].waiting = db[i].waiting
<1>1. db[i] \in DbType /\ DbOK(db[i]) /\ db[i].turns \in Seq({"drain", "close"}) /\ db[i].turns # <<>>
  BY DEF Shape, Types, DbType, TurnEnds
<1>2. Tail(db[i].turns) \in Seq({"drain", "close"})
  BY <1>1, Turned
<1>3. PICK e \in DbType : e = [db[i] EXCEPT !.turns = Tail(@)]
  BY <1>1, <1>2 DEF DbType
<1>4. SameIds(db[i], e) /\ SameConnection(db[i], e) /\ e.lock = db[i].lock /\ e.waiting = db[i].waiting
  BY <1>1, <1>3 DEF SameIds, SameConnection, DbType
<1>5. DbOK(e) /\ db[i].last <= e.last
  BY <1>1, <1>4 DEF DbOK, SameIds, SameConnection, DbType
<1>6. Grows /\ Ids' = Ids /\ db'[i] = e /\ \A j \in Ids \ {i} : db'[j] = db[j]
  BY <1>3, <1>5, Replaced DEF TurnEnds
<1> QED
  BY <1>4, <1>6

LEMMA QueueShape ==
  ASSUME Shape, NEW i \in Ids, TurnEnds(i) \/ \E e : AnswersAll(i, e)
  PROVE  Shape'
<1>1. Types /\ (\A c \in Client : CallOK(c) /\ HandleOK(c)) /\ db[i] \in DbType
  BY DEF Shape, Types
<1>2. /\ Grows /\ Ids' = Ids /\ \A j \in Ids \ {i} : db'[j] = db[j]
      /\ db'[i].last = db[i].last
  <2>1. CASE TurnEnds(i)
    BY <2>1, TurnEndsFacts DEF SameIds
  <2>2. ASSUME NEW e, AnswersAll(i, e) 
        PROVE  Grows /\ Ids' = Ids /\ (\A j \in Ids \ {i} : db'[j] = db[j]) /\ db'[i].last = db[i].last
    <3>1. e \in DbType /\ DbOK(e) /\ e.last = db[i].last /\ db[i].last \in Nat /\ db' = WithDb(i, e)
      BY <1>1, <2>2 DEF AnswersAll, SameIds, DbType
    <3>2. db[i].last <= e.last
      BY <3>1
    <3> QED
      BY <3>1, <3>2, Replaced
  <2> QED
    BY <2>1, <2>2
<1>3. UNCHANGED <<single, globals, files, systems, handle, tx, left, history>>
  BY DEF TurnEnds, AnswersAll
<1>4. \A c \in Client : \/ phase'[c] = phase[c] /\ call'[c] = call[c]
                        \/ phase'[c] = "idle" /\ call'[c] = NoCall
  BY <1>1 DEF TurnEnds, AnswersAll, Types
<1>5. phase' \in [Client -> Phases] /\ call' \in [Client -> CallType]
  <2>1. CASE TurnEnds(i)
    BY <1>1, <2>1 DEF TurnEnds, Types
  <2>2. ASSUME NEW e, AnswersAll(i, e) PROVE phase' \in [Client -> Phases] /\ call' \in [Client -> CallType]
    <3>1. NoCall \in CallType /\ "idle" \in Phases /\ phase \in [Client -> Phases] /\ call \in [Client -> CallType]
      BY <1>1 DEF Types, Phases, NoCall, CallType, Kinds, Results
    <3>2. /\ phase' = [c \in Client |-> IF In(c, db[i].waiting) THEN "idle" ELSE phase[c]]
          /\ call' = [c \in Client |-> IF In(c, db[i].waiting) THEN NoCall ELSE call[c]]
      BY <2>2 DEF AnswersAll
    <3> QED
      BY <3>1, <3>2
  <2> QED
    BY <2>1, <2>2
<1>6. OthersOK
  BY <1>2, <1>3, OthersKept DEF OthersOK, history
<1>7. Types'
  <2>1. handle' \in [Client -> {0} \cup Ids'] /\ tx' \in [Client -> Nat]
    BY <1>1, <1>2, <1>3 DEF Types
  <2> QED
    BY <1>2, <1>5, <1>6, <2>1 DEF Types, Grows, OthersOK
<1>8. ASSUME NEW c \in Client PROVE CallOK(c)' /\ HandleOK(c)'
  <2>1. handle'[c] = handle[c] /\ tx'[c] = tx[c]
    BY <1>3
  <2>2. CallOK(c)'
    BY <1>1, <1>4, <2>1 DEF CallOK, NoCall, Working
  <2>3. handle[c] # 0 => db'[handle[c]].last = db[handle[c]].last
    BY <1>1, <1>2, OneOf
  <2>4. HandleOK(c)'
    BY <1>1, <1>4, <2>1, <2>3 DEF HandleOK, Mine, NoCall, Statements, Globals
  <2> QED
    BY <2>2, <2>4
<1> QED
  BY <1>2, <1>7, <1>8 DEF Shape, Grows

\* Whatever is done keeps the shape.
LEMMA ShapeStep ==
  ASSUME Shape, Queues, Next
  PROVE  Shape'
<1>1. CASE \E c \in Client : Does(c)
  <2>1. PICK c \in Client : Does(c)
    BY <1>1
  <2> QED
    BY <2>1, PostsShape, LoadsShape, TakenShape, LetsInShape, ExecutesShape, SettlesShape, ReturnsShape, GlobalsShape DEF Does
<1>2. CASE \E i \in Ids : TurnEnds(i) \/ \E e : AnswersAll(i, e)
  BY <1>2, QueueShape
<1> QED
  BY <1>1, <1>2, Steps

-----------------------------------------------------------------------------
(* What the steps mean for those who run and wait.                         *)

Others(c) == \A b \in Client \ {c} : Rests(b)
OnlyDb(i) == Ids' = Ids /\ \A j \in Ids \ {i} : db'[j] = db[j]

Outside == {"idle", "sent", "booting", "global", "opening"}

\* A step of a client that has nothing to do with statements: a database may
\* be closed by it, or be new.
Calm(c) ==
    /\ Others(c)
    /\ phase[c] \in Outside /\ phase'[c] \in Outside
    /\ call[c].via = "none" /\ call'[c].via = "none" /\ call[c].res = "none" /\ call'[c].res = "none"
    /\ tx'[c] = tx[c] /\ (tx[c] # 0 => handle'[c] = handle[c])
    /\ Ids \subseteq Ids' /\ robbed' = robbed /\ (orphaned => orphaned')
    /\ \A i \in Ids : /\ Behind(db[i], db'[i])
                      /\ SameConnection(db[i], db'[i]) \/ (~db'[i].open /\ db'[i].owner = 0)
    /\ \A i \in Ids' \ Ids : LET d == db'[i]
                             IN d.cur = 0 /\ d.owner = 0 /\ d.waiting = <<>> /\ d.lock = <<>>

LEMMA Kept ==
  \A d : Behind(d, d) /\ SameConnection(d, d)
  BY DEF Behind, SameIds, SameConnection

LEMMA CalmFacts ==
  ASSUME Shape, NEW c \in Client,
         \/ (\E kind \in Statements \cup Globals : Posts(c, kind)) \/ Loads(c) \/ Refuses(c)
         \/ WaitsGlobally(c) \/ GivesOpen(c) \/ BeginsOpen(c)
         \/ (\E i : Opens(c, i)) \/ FailsOpen(c) \/ Closes(c) \/ Deletes(c)
  PROVE  Calm(c)
<1>1. Types /\ CallOK(c) /\ HandleOK(c) /\ handle[c] \in {0} \cup Ids /\ single \in {0} \cup Ids
  BY OneOf DEF Shape, Types
<1>2. \A i \in Ids : db[i] \in DbType /\ DbOK(db[i])
  BY DEF Shape, Types
<1>3. NoCall.via = "none" /\ NoCall.res = "none"
  BY DEF NoCall
<1>4. ASSUME NEW p \in Outside, phase[c] \in Outside, NEW k, NEW h, NEW t, Moves(c, p, k, h, t),
             k.via = "none", k.res = "none", t = tx[c], t # 0 => h = handle[c], UNCHANGED <<db, robbed>>, orphaned => orphaned'
      PROVE  Calm(c)
  <2>1. /\ phase'[c] = p /\ call'[c] = k /\ handle'[c] = h /\ tx'[c] = t
        /\ \A b \in Client \ {c} : Rests(b)
    BY <1>1, <1>4, Moved
  <2>2. call[c].via = "none" /\ call[c].res = "none"
    BY <1>1, <1>3, <1>4 DEF CallOK, Outside
  <2>3. Ids' = Ids /\ db' = db
    BY <1>4 DEF Ids
  <2> QED
    BY <1>4, <2>1, <2>2, <2>3, Kept DEF Calm, Others
<1>5. ASSUME NEW kind \in Statements \cup Globals, Posts(c, kind) PROVE Calm(c)
  <2>1. PICK k : k = [NoCall EXCEPT !.kind = kind]
    OBVIOUS
  <2>2. k.via = "none" /\ k.res = "none"
    BY <2>1 DEF NoCall
  <2>3. Moves(c, "sent", k, handle[c], tx[c]) /\ phase[c] = "idle" /\ UNCHANGED <<db, robbed, orphaned>>
    BY <1>5, <2>1 DEF Posts, sched_vars, history
  <2> QED
    BY <1>4, <2>2, <2>3 DEF Outside
<1>6. CASE Loads(c)
  BY <1>1, <1>4, <1>6 DEF Loads, Outside, CallOK, sched_vars
<1>7. CASE Refuses(c)
  BY <1>1, <1>3, <1>4, <1>7 DEF Refuses, Outside, sched_vars, history
<1>8. CASE WaitsGlobally(c)
  <2>1. phase[c] \in {"sent", "booting"} /\ UNCHANGED <<db, robbed, orphaned>> /\ Moves(c, "global", call[c], handle[c], tx[c])
    BY <1>8 DEF WaitsGlobally, Taken, history
  <2> QED
    BY <1>1, <1>4, <2>1 DEF Outside, CallOK
<1>9. CASE GivesOpen(c)
  BY <1>1, <1>3, <1>4, <1>9 DEF GivesOpen, Outside, HandleOK, history, Globals
<1>10. CASE BeginsOpen(c)
  BY <1>1, <1>4, <1>10 DEF BeginsOpen, Outside, CallOK, history
<1>11. CASE FailsOpen(c)
  BY <1>1, <1>3, <1>4, <1>11 DEF FailsOpen, Outside, CallOK, HandleOK, history, Globals
<1>12. ASSUME NEW i, Opens(c, i) PROVE Calm(c)
  <2>1. phase[c] = "opening" /\ Moves(c, "idle", NoCall, i, 0) /\ UNCHANGED <<robbed, orphaned>>
    BY <1>12 DEF Opens, history
  <2>2. /\ phase'[c] = "idle" /\ call'[c] = NoCall /\ handle'[c] = i /\ tx'[c] = 0
        /\ \A b \in Client \ {c} : Rests(b)
    BY <1>1, <2>1, Moved
  <2>3. tx[c] = 0 /\ call[c].via = "none" /\ call[c].res = "none"
    BY <1>1, <2>1 DEF CallOK, HandleOK
  <2>4. /\ Ids' = Ids \cup {i} /\ db'[i] = Database(files) /\ \A j \in Ids : db'[j] = db[j]
    BY <1>12, Opened DEF Opens
  <2>5. db'[i].cur = 0 /\ db'[i].owner = 0 /\ db'[i].waiting = <<>> /\ db'[i].lock = <<>>
    BY <1>1, <2>4, NewFacts DEF Types
  <2> QED
    BY <1>3, <2>1, <2>2, <2>3, <2>4, <2>5, Kept DEF Calm, Others, Outside
<1>13. CASE Closes(c) \/ (Deletes(c) /\ single # 0)
  <2>1. PICK i \in Ids : db' = WithDb(i, Closed(db[i])) /\ (orphaned => orphaned')
    BY <1>1, <1>13 DEF Closes, Deletes, HandleOK, Mine
  <2>2. PICK e \in DbType : e = Closed(db[i]) /\ DbOK(e) /\ Behind(db[i], e) /\ ~e.open /\ e.owner = 0
    BY <1>2, ClosedFacts
  <2>3. db[i].last <= e.last
    BY <1>2, <2>2 DEF Behind, SameIds, DbType
  <2>4. Ids' = Ids /\ db'[i] = e /\ \A j \in Ids \ {i} : db'[j] = db[j]
    BY <2>1, <2>2, <2>3, Replaced
  <2>5. phase[c] = "global" /\ call[c].kind \in {"close", "delete"} /\ robbed' = robbed
    BY <1>13 DEF Closes, Deletes
  <2>6. tx[c] = 0 /\ call[c].via = "none" /\ call[c].res = "none"
    BY <1>1, <2>5 DEF CallOK, HandleOK, Globals
  <2>7. PICK h : Moves(c, "idle", NoCall, h, 0)
    BY <1>13, <2>6 DEF Closes, Deletes
  <2>8. /\ phase'[c] = "idle" /\ call'[c] = NoCall /\ tx'[c] = 0
        /\ \A b \in Client \ {c} : Rests(b)
    BY <1>1, <2>7, Moved
  <2> QED
    BY <1>3, <2>1, <2>2, <2>4, <2>5, <2>6, <2>8, Kept DEF Calm, Others, Outside
<1>14. CASE Deletes(c) /\ single = 0
  BY <1>1, <1>3, <1>4, <1>14 DEF Deletes, Outside
<1> QED
  BY <1>5, <1>6, <1>7, <1>8, <1>9, <1>10, <1>11, <1>12, <1>13, <1>14

\* A call gets its turn for the lock of its database, at once or from the queue.
Starts(c, i) ==
    /\ Others(c) /\ OnlyDb(i) /\ i \in Ids
    /\ handle[c] = i /\ handle'[c] = i /\ tx'[c] = tx[c]
    /\ phase[c] \in {"sent", "booting", "queued"} /\ phase'[c] = "turn"
    /\ call'[c].kind = call[c].kind /\ call[c].res = "none" /\ call'[c].res = "none"
    /\ IF phase[c] = "queued"
       THEN /\ call[c].via = "queue" /\ call'[c].via = "queue" /\ db[i].cur = 0
            /\ db[i].turns # <<>> /\ Head(db[i].turns) = "drain"
            /\ db[i].waiting # <<>> /\ Head(db[i].waiting) = c
       ELSE /\ call[c].via = "none" /\ call'[c].via \in {"own", "free"}
            /\ db[i].cur \in {0, tx[c]}
    /\ db'[i].lock = Append(db[i].lock, c)
    /\ SameQueues(db[i], db'[i]) /\ SameConnection(db[i], db'[i])
    /\ call[c].kind = "begin" => db'[i].cur = db[i].last + 1 /\ db'[i].last = db[i].last + 1 /\ db[i].cur = 0
    /\ call[c].kind # "begin" => SameIds(db[i], db'[i])
    /\ robbed' = robbed /\ orphaned' = orphaned

LEMMA StartsFacts ==
  ASSUME Shape, NEW c \in Client
  PROVE  /\ Runs(c, "own") \/ Runs(c, "free") => Starts(c, handle[c])
         /\ \A i \in Ids : LetsIn(i, c) => Starts(c, i)
<1>1. Types /\ CallOK(c) /\ HandleOK(c) /\ call[c] \in CallType
  BY OneOf DEF Shape
<1>2. ASSUME NEW i \in Ids, handle[c] = i, db' = WithDb(i, Started(db[i], c))
      PROVE  /\ OnlyDb(i) /\ db'[i].lock = Append(db[i].lock, c)
             /\ SameQueues(db[i], db'[i]) /\ SameConnection(db[i], db'[i])
             /\ call[c].kind = "begin" => db'[i].cur = db[i].last + 1 /\ db'[i].last = db[i].last + 1
             /\ call[c].kind # "begin" => SameIds(db[i], db'[i])
  <2>1. db[i] \in DbType /\ DbOK(db[i])
    BY DEF Shape, Types
  <2>2. Ids' = Ids /\ db'[i] = Started(db[i], c) /\ \A j \in Ids \ {i} : db'[j] = db[j]
    <3>1. PICK e : e = Started(db[i], c)
      OBVIOUS
    <3>2. db' = WithDb(i, e)
      BY <1>2, <3>1
    <3>3. Ids' = Ids \cup {i} /\ db'[i] = e /\ \A j \in Ids \ {i} : db'[j] = db[j]
      BY <1>1, <3>2, Changed
    <3> QED
      BY <3>1, <3>3
  <2>3. /\ SameQueues(db[i], Started(db[i], c)) /\ SameConnection(db[i], Started(db[i], c))
        /\ Started(db[i], c).lock = Append(db[i].lock, c)
        /\ call[c].kind = "begin" => Started(db[i], c).cur = db[i].last + 1 /\ Started(db[i], c).last = db[i].last + 1
        /\ call[c].kind # "begin" => SameIds(db[i], Started(db[i], c))
    BY <2>1, StartedFacts
  <2> QED
    BY <2>2, <2>3 DEF OnlyDb
<1>3. ASSUME NEW via \in {"own", "free"}, Runs(c, via) PROVE Starts(c, handle[c])
  <2>1. PICK i \in Ids : i = handle[c] /\ Mine(c) = db[i]
    <3>1. handle[c] # 0
      BY <1>1, <1>3 DEF Runs, HandleOK
    <3> QED
      BY <3>1, MineFacts
  <2>2. phase[c] \in {"sent", "booting"} /\ call[c].via = "none" /\ call[c].res = "none" /\ UNCHANGED <<robbed, orphaned>>
    BY <1>1, <1>3 DEF Runs, Taken, CallOK, history
  <2>3. PICK k : k = [call[c] EXCEPT !.via = via]
    OBVIOUS
  <2>4. k.kind = call[c].kind /\ k.via = via /\ k.res = call[c].res
    BY <1>1, <2>3 DEF CallType
  <2>5. Moves(c, "turn", k, handle[c], tx[c])
    BY <1>3, <2>3 DEF Runs
  <2>6. /\ phase'[c] = "turn" /\ call'[c] = k /\ handle'[c] = i /\ tx'[c] = tx[c]
        /\ \A b \in Client \ {c} : Rests(b)
    BY <1>1, <2>1, <2>5, Moved
  <2>7. db[i].cur \in {0, tx[c]} /\ (call[c].kind = "begin" => db[i].cur = 0)
    BY <1>1, <1>3, <2>1 DEF Runs, Own, Free, HandleOK
  <2>8. db' = WithDb(i, Started(db[i], c))
    BY <1>3, <2>1 DEF Runs
  <2> QED
    BY <1>2, <2>1, <2>2, <2>4, <2>6, <2>7, <2>8 DEF Starts, Others
<1>4. ASSUME NEW i \in Ids, LetsIn(i, c) PROVE Starts(c, i)
  <2>1. Moves(c, "turn", call[c], handle[c], tx[c]) /\ phase[c] = "queued" /\ handle[c] = i
    BY <1>4 DEF LetsIn
  <2>2. /\ phase'[c] = "turn" /\ call'[c] = call[c] /\ handle'[c] = i /\ tx'[c] = tx[c]
        /\ \A b \in Client \ {c} : Rests(b)
    BY <1>1, <2>1, Moved
  <2>3. call[c].via = "queue" /\ call[c].res = "none"
    BY <1>1, <2>1 DEF CallOK
  <2> QED
    BY <1>2, <1>4, <2>1, <2>2, <2>3 DEF Starts, Others, LetsIn, history
<1> QED
  BY <1>3, <1>4

\* A call has to wait for its database.
Queued(c, i) ==
    /\ Others(c) /\ OnlyDb(i) /\ i \in Ids
    /\ handle[c] = i /\ handle'[c] = i /\ tx'[c] = tx[c]
    /\ phase[c] \in {"sent", "booting"} /\ phase'[c] = "queued"
    /\ call'[c].kind = call[c].kind /\ call[c].res = "none" /\ call'[c].res = "none"
    /\ call[c].via = "none" /\ call'[c].via = "queue"
    /\ db'[i].waiting = Append(db[i].waiting, c)
    /\ db'[i].lock = db[i].lock /\ db'[i].turns = db[i].turns
    /\ SameIds(db[i], db'[i]) /\ SameConnection(db[i], db'[i])
    /\ robbed' = robbed /\ orphaned' = orphaned

LEMMA WaitsFacts ==
  ASSUME Shape, NEW c \in Client, Waits(c)
  PROVE  Queued(c, handle[c])
<1>1. Types /\ CallOK(c) /\ HandleOK(c) /\ call[c] \in CallType
  BY OneOf DEF Shape
<1>2. PICK i \in Ids : i = handle[c] /\ Mine(c) = db[i] /\ db[i] \in DbType
  <2>1. handle[c] # 0
    BY <1>1 DEF Waits, HandleOK
  <2> QED
    BY <2>1, MineFacts
<1>3. phase[c] \in {"sent", "booting"} /\ call[c].via = "none" /\ call[c].res = "none" /\ UNCHANGED <<robbed, orphaned>>
  BY <1>1 DEF Waits, Taken, CallOK, history
<1>4. PICK k : k = [call[c] EXCEPT !.via = "queue"]
  OBVIOUS
<1>5. k.kind = call[c].kind /\ k.via = "queue" /\ k.res = call[c].res
  BY <1>1, <1>4 DEF CallType
<1>6. Moves(c, "queued", k, handle[c], tx[c])
  BY <1>4 DEF Waits
<1>7. /\ phase'[c] = "queued" /\ call'[c] = k /\ handle'[c] = i /\ tx'[c] = tx[c]
      /\ \A b \in Client \ {c} : Rests(b)
  BY <1>1, <1>2, <1>6, Moved
<1>8. PICK e : e = [db[i] EXCEPT !.waiting = Append(@, c)]
  OBVIOUS
<1>9. e.waiting = Append(db[i].waiting, c) /\ e.lock = db[i].lock /\ e.turns = db[i].turns /\ SameIds(db[i], e) /\ SameConnection(db[i], e)
  BY <1>2, <1>8 DEF DbType, SameIds, SameConnection
<1>10. db' = WithDb(i, e)
  BY <1>2, <1>8 DEF Waits
<1>11. Ids' = Ids \cup {i} /\ db'[i] = e /\ \A j \in Ids \ {i} : db'[j] = db[j]
  BY <1>1, <1>10, Changed
<1>12. OnlyDb(i)
  BY <1>11 DEF OnlyDb
<1> QED
  BY <1>2, <1>3, <1>5, <1>7, <1>9, <1>11, <1>12 DEF Queued, Others

\* The call at the head of the lock runs its statement, with the outcome o.
RunsIt(c, i, o) ==
    /\ Others(c) /\ OnlyDb(i) /\ i \in Ids
    /\ handle[c] = i /\ handle'[c] = i /\ tx'[c] = tx[c]
    /\ phase[c] = "turn" /\ phase'[c] = "ran"
    /\ call[c].kind \in Statements /\ call'[c].kind = call[c].kind /\ call'[c].via = call[c].via
    /\ call[c].res = "none" /\ call'[c].res = o.res /\ o.res # "none"
    /\ db[i].lock # <<>> /\ Head(db[i].lock) = c
    /\ db'[i].lock = Tail(db[i].lock)
    /\ SameQueues(db[i], db'[i]) /\ db'[i].last = db[i].last /\ db'[i].open = db[i].open /\ db'[i].files = db[i].files
    /\ o.res = "told" => call[c].kind = "batch" /\ db[i].cur # 0 /\ db'[i].cur = 0 /\ db'[i].owner = 0
    /\ o.res # "told" => db'[i].cur = db[i].cur
    /\ db'[i].owner \in {0, db[i].owner} \/ (call[c].kind = "begin" /\ o.res = "ok" /\ db'[i].owner = c)
    /\ call[c].kind = "begin" /\ o.res = "ok" => db[i].open /\ db[i].owner = 0 /\ db'[i].owner = c
    /\ call[c].kind = "end" /\ o.res = "ok" => db'[i].owner = 0
    /\ robbed' = (robbed \/ Robs(c, o)) /\ orphaned' = orphaned

LEMMA ExecutesFacts ==
  ASSUME Shape, NEW c \in Client, NEW o, NEW e, Executes(c, o, e)
  PROVE  RunsIt(c, handle[c], o)
<1>1. Types /\ CallOK(c) /\ HandleOK(c) /\ call[c] \in CallType /\ phase[c] = "turn"
  BY OneOf DEF Shape, Executes
<1>2. call[c].kind \in Statements /\ call[c].res = "none"
  BY <1>1 DEF CallOK, Working
<1>3. PICK i \in Ids : i = handle[c] /\ Mine(c) = db[i] /\ db[i] \in DbType /\ DbOK(db[i])
  <2>1. handle[c] # 0
    BY <1>1, <1>2 DEF HandleOK
  <2> QED
    BY <2>1, MineFacts
<1>4. /\ o.res \in Results \ {"none"}
      /\ o.res = "told" => call[c].kind = "batch" /\ db[i].cur # 0 /\ o.db.cur = 0 /\ o.db.owner = 0
      /\ o.res # "told" => o.db.cur = db[i].cur
      /\ o.db.owner \in {0, db[i].owner} \/ (call[c].kind = "begin" /\ o.res = "ok" /\ o.db.owner = c)
      /\ call[c].kind = "begin" /\ o.res = "ok" => db[i].open /\ db[i].owner = 0 /\ o.db.owner = c
      /\ call[c].kind = "end" /\ o.res = "ok" => o.db.owner = 0
  <2>1. o \in Run(c, db[i]) /\ call \in [Client -> CallType]
    BY <1>1, <1>3 DEF Executes, Types
  <2> QED
    BY <1>2, <1>3, <2>1, RunFacts
<1>5. /\ SameQueues(db[i], e) /\ e.lock = Tail(db[i].lock) /\ e.last = db[i].last /\ e.open = db[i].open
      /\ e.files = db[i].files /\ e.cur = o.db.cur /\ e.owner = o.db.owner
  BY <1>3 DEF Executes, Executed
<1>6. db' = WithDb(i, e)
  BY <1>3 DEF Executes
<1>7. Ids' = Ids \cup {i} /\ db'[i] = e /\ \A j \in Ids \ {i} : db'[j] = db[j]
  BY <1>1, <1>6, Changed
<1>8. OnlyDb(i)
  BY <1>7 DEF OnlyDb
<1>9. PICK k : k = [call[c] EXCEPT !.res = o.res]
  OBVIOUS
<1>10. k.kind = call[c].kind /\ k.via = call[c].via /\ k.res = o.res
  BY <1>1, <1>9 DEF CallType
<1>11. Moves(c, "ran", k, handle[c], tx[c])
  BY <1>9 DEF Executes
<1>12. /\ phase'[c] = "ran" /\ call'[c] = k /\ handle'[c] = i /\ tx'[c] = tx[c] /\ Others(c)
  BY <1>1, <1>3, <1>11, Moved DEF Others
<1>13. /\ db[i].lock # <<>> /\ Head(db[i].lock) = c
       /\ robbed' = (robbed \/ Robs(c, o)) /\ orphaned' = orphaned
  BY <1>3 DEF Executes
<1> QED
  BY <1>1, <1>2, <1>3, <1>4, <1>5, <1>7, <1>8, <1>10, <1>12, <1>13 DEF RunsIt

\* A statement that has run is accounted for.
SettlesIt(c, i) ==
    /\ Others(c) /\ OnlyDb(i) /\ i \in Ids
    /\ handle[c] = i /\ handle'[c] = i /\ tx'[c] = tx[c]
    /\ phase[c] = "ran" /\ phase'[c] = "settled"
    /\ call'[c] = call[c]
    /\ SameQueues(db[i], db'[i]) /\ SameConnection(db[i], db'[i])
    /\ db'[i].lock = db[i].lock /\ db'[i].last = db[i].last
    /\ db'[i].cur = IF \/ call[c].kind = "begin" /\ call[c].res # "ok"
                       \/ call[c].kind = "end" /\ call[c].res = "ok"
                    THEN 0 ELSE db[i].cur
    /\ robbed' = robbed /\ orphaned' = orphaned

LEMMA SettlesFacts ==
  ASSUME Shape, NEW c \in Client, Settles(c)
  PROVE  SettlesIt(c, handle[c])
<1>1. Types /\ CallOK(c) /\ HandleOK(c) /\ phase[c] = "ran"
  BY DEF Shape, Settles
<1>2. PICK i \in Ids : i = handle[c] /\ Mine(c) = db[i] /\ db[i] \in DbType /\ DbOK(db[i])
  <2>1. handle[c] # 0
    BY <1>1 DEF HandleOK, CallOK, Working
  <2> QED
    BY <2>1, MineFacts
<1>3. PICK e : e = Settled(db[i], c)
  OBVIOUS
<1>4. /\ SameQueues(db[i], e) /\ SameConnection(db[i], e) /\ e.lock = db[i].lock /\ e.last = db[i].last
      /\ e.cur = IF \/ call[c].kind = "begin" /\ call[c].res # "ok"
                    \/ call[c].kind = "end" /\ call[c].res = "ok"
                 THEN 0 ELSE db[i].cur
  BY <1>2, <1>3, SettledFacts
<1>5. db' = WithDb(i, e)
  BY <1>2, <1>3 DEF Settles
<1>6. Ids' = Ids \cup {i} /\ db'[i] = e /\ \A j \in Ids \ {i} : db'[j] = db[j]
  BY <1>1, <1>5, Changed
<1>7. OnlyDb(i)
  BY <1>6 DEF OnlyDb
<1>8. Moves(c, "settled", call[c], handle[c], tx[c])
  BY DEF Settles
<1>9. /\ phase'[c] = "settled" /\ call'[c] = call[c] /\ handle'[c] = i /\ tx'[c] = tx[c] /\ Others(c)
  BY <1>1, <1>2, <1>8, Moved DEF Others
<1> QED
  BY <1>1, <1>2, <1>4, <1>6, <1>7, <1>9 DEF SettlesIt, Settles, history

\* A call is answered.
ReturnsIt(c, i) ==
    /\ Others(c) /\ OnlyDb(i) /\ i \in Ids
    /\ handle[c] = i /\ handle'[c] = i /\ tx'[c] = TxAfter(c)
    /\ phase[c] = "settled" /\ phase'[c] = "idle"
    /\ call'[c] = NoCall
    /\ SameConnection(db[i], db'[i]) /\ db'[i].lock = db[i].lock /\ db'[i].last = db[i].last
    /\ db'[i].cur = (IF RolledBack(c) THEN 0 ELSE db[i].cur)
    /\ IF call[c].via = "queue"
       THEN db[i].waiting # <<>> /\ Head(db[i].waiting) = c /\ db'[i].waiting = Tail(db[i].waiting)
       ELSE db'[i].waiting = db[i].waiting
    /\ db[i].turns # <<>> => db'[i].turns # <<>> /\ Head(db'[i].turns) = Head(db[i].turns)
    /\ robbed' = robbed /\ (orphaned => orphaned')

LEMMA ReturnsFacts ==
  ASSUME Shape, NEW c \in Client, NEW e, Returns(c, e)
  PROVE  ReturnsIt(c, handle[c])
<1>1. Types /\ CallOK(c) /\ HandleOK(c) /\ phase[c] = "settled"
  BY DEF Shape, Returns
<1>2. PICK i \in Ids : i = handle[c] /\ Mine(c) = db[i] /\ db[i] \in DbType /\ DbOK(db[i])
  <2>1. handle[c] # 0
    BY <1>1 DEF HandleOK, CallOK, Working
  <2> QED
    BY <2>1, MineFacts
<1>3. db' = WithDb(i, e)
  BY <1>2 DEF Returns
<1>4. Ids' = Ids \cup {i} /\ db'[i] = e /\ \A j \in Ids \ {i} : db'[j] = db[j]
  BY <1>1, <1>3, Changed
<1>5. OnlyDb(i)
  BY <1>4 DEF OnlyDb
<1>6. /\ SameConnection(db[i], e) /\ e.lock = db[i].lock /\ e.last = db[i].last
      /\ e.cur = (IF RolledBack(c) THEN 0 ELSE db[i].cur)
      /\ IF call[c].via = "queue"
         THEN db[i].waiting # <<>> /\ Head(db[i].waiting) = c /\ e.waiting = Tail(db[i].waiting)
         ELSE e.waiting = db[i].waiting
      /\ db[i].turns # <<>> => e.turns # <<>> /\ Head(e.turns) = Head(db[i].turns)
  BY <1>2 DEF Returns, Left
<1>7. Moves(c, "idle", NoCall, handle[c], TxAfter(c))
  BY DEF Returns
<1>8. /\ phase'[c] = "idle" /\ call'[c] = NoCall /\ handle'[c] = i /\ tx'[c] = TxAfter(c) /\ Others(c)
  BY <1>1, <1>2, <1>7, Moved DEF Others
<1> QED
  BY <1>1, <1>2, <1>4, <1>5, <1>6, <1>8 DEF ReturnsIt, Returns

\* The calls that wait for a database are answered together.
Clears(i) ==
    /\ OnlyDb(i) /\ i \in Ids
    /\ SameIds(db[i], db'[i]) /\ SameConnection(db[i], db'[i]) /\ db'[i].lock = db[i].lock
    /\ Distinct(db'[i].waiting) /\ \A c \in Client : ~In(c, db'[i].waiting)
    /\ \A c \in Client : handle[c] = i => ~Drained(c)
    /\ \A c \in Client :
         /\ handle'[c] = handle[c] /\ tx'[c] = tx[c]
         /\ IF In(c, db[i].waiting)
            THEN handle[c] = i /\ phase[c] = "queued" /\ phase'[c] = "idle" /\ call'[c] = NoCall
            ELSE phase'[c] = phase[c] /\ call'[c] = call[c]
    /\ robbed' = robbed /\ orphaned' = orphaned

LEMMA ClearsFacts ==
  ASSUME Shape, NEW i \in Ids, NEW e, AnswersAll(i, e)
  PROVE  Clears(i)
<1>1. Types
  BY DEF Shape
<1>2. db' = WithDb(i, e)
  BY DEF AnswersAll
<1>3. Ids' = Ids \cup {i} /\ db'[i] = e /\ \A j \in Ids \ {i} : db'[j] = db[j]
  BY <1>1, <1>2, Changed
<1>4. OnlyDb(i)
  BY <1>3 DEF OnlyDb
<1>5. \A c \in Client : handle'[c] = handle[c] /\ tx'[c] = tx[c]
  BY DEF AnswersAll
<1>6. \A c \in Client : IF In(c, db[i].waiting)
                        THEN handle[c] = i /\ phase[c] = "queued" /\ phase'[c] = "idle" /\ call'[c] = NoCall
                        ELSE phase'[c] = phase[c] /\ call'[c] = call[c]
  BY DEF AnswersAll
<1> QED
  BY <1>3, <1>4, <1>5, <1>6 DEF Clears, AnswersAll, history

\* A turn of the queue ends.
Turns(i) ==
    /\ OnlyDb(i) /\ i \in Ids
    /\ SameIds(db[i], db'[i]) /\ SameConnection(db[i], db'[i])
    /\ db'[i].lock = db[i].lock /\ db'[i].waiting = db[i].waiting
    /\ \A c \in Client : Rests(c) /\ (handle[c] = i => ~Drained(c))
    /\ robbed' = robbed /\ orphaned' = orphaned

LEMMA TurnsFacts ==
  ASSUME Shape, NEW i \in Ids, TurnEnds(i)
  PROVE  Turns(i)
  BY TurnEndsFacts DEF Turns, TurnEnds, OnlyDb, Rests, history

\* Every step is one of these.
LEMMA AllSteps ==
  ASSUME Shape, Queues, Next
  PROVE  \/ \E c \in Client : \/ Calm(c)
                              \/ \E i \in Ids : \/ Starts(c, i) \/ Queued(c, i) \/ SettlesIt(c, i) \/ ReturnsIt(c, i)
                                                \/ \E o : RunsIt(c, i, o)
         \/ \E i \in Ids : Clears(i) \/ Turns(i)
<1>1. ASSUME NEW c \in Client, Does(c)
      PROVE  \/ Calm(c)
             \/ \E i \in Ids : \/ Starts(c, i) \/ Queued(c, i) \/ SettlesIt(c, i) \/ ReturnsIt(c, i)
                               \/ \E o : RunsIt(c, i, o)
  <2>1. CASE \/ (\E kind \in Statements \cup Globals : Posts(c, kind)) \/ Loads(c) \/ Refuses(c)
             \/ WaitsGlobally(c) \/ GivesOpen(c) \/ BeginsOpen(c)
             \/ (\E i : Opens(c, i)) \/ FailsOpen(c) \/ Closes(c) \/ Deletes(c)
    BY <2>1, CalmFacts
  <2>2. CASE Runs(c, "own") \/ Runs(c, "free")
    <3>1. Starts(c, handle[c])
      BY <2>2, StartsFacts
    <3> QED
      BY <3>1 DEF Starts
  <2>3. CASE \E i \in Ids : LetsIn(i, c)
    BY <2>3, StartsFacts
  <2>4. CASE Waits(c)
    <3>1. Queued(c, handle[c])
      BY <2>4, WaitsFacts
    <3> QED
      BY <3>1 DEF Queued
  <2>5. CASE Settles(c)
    <3>1. SettlesIt(c, handle[c])
      BY <2>5, SettlesFacts
    <3> QED
      BY <3>1 DEF SettlesIt
  <2>6. CASE \E e : Returns(c, e)
    <3>1. ReturnsIt(c, handle[c])
      BY <2>6, ReturnsFacts
    <3> QED
      BY <3>1 DEF ReturnsIt
  <2>7. CASE \E o, e : Executes(c, o, e)
    <3>1. PICK o, e : Executes(c, o, e)
      BY <2>7
    <3>2. RunsIt(c, handle[c], o)
      BY <3>1, ExecutesFacts
    <3>3. handle[c] \in Ids
      BY <3>2 DEF RunsIt
    <3> QED
      BY <3>2, <3>3
  <2> QED
    BY <1>1, <2>1, <2>2, <2>3, <2>4, <2>5, <2>6, <2>7 DEF Does
<1>2. ASSUME NEW i \in Ids, TurnEnds(i) \/ \E e : AnswersAll(i, e) PROVE Clears(i) \/ Turns(i)
  BY <1>2, ClearsFacts, TurnsFacts
<1> QED
  BY <1>1, <1>2, Steps

-----------------------------------------------------------------------------
(* The queues keep the calls that wait in them.                            *)

LEMMA QueueTypes ==
  ASSUME Shape
  PROVE  /\ 0 \notin Ids
         /\ \A i \in Ids : db[i].lock \in Seq(Client) /\ db[i].lock \in Seq(Entry) /\ db[i].waiting \in Seq(Entry)
         /\ \A c \in Client : handle[c] \in {0} \cup Ids
<1>1. 0 \notin Ids
  BY DEF Shape, Types
<1>2. \A i \in Ids : db[i].lock \in Seq(Client) /\ db[i].waiting \in Seq(Entry)
  BY DEF Shape, Types, DbType
<1>3. \A s \in Seq(Client) : s \in Seq(Entry)
  BY DEF Entry
<1> QED
  BY <1>1, <1>2, <1>3, OneOf DEF Shape

LEMMA LockStep ==
  ASSUME Shape, Queues, Shape', Next
  PROVE  \A i \in Ids' : LockOK(i)'
<1>1. /\ \A i \in Ids : LockOK(i)
      /\ \A i \in Ids : db[i].lock \in Seq(Client) /\ db[i].lock \in Seq(Entry)
      /\ \A c \in Client : handle[c] \in {0} \cup Ids
  BY QueueTypes DEF Queues
<1>2. 0 \notin Ids'
  BY DEF Shape, Types
<1>3. ASSUME NEW c \in Client, Calm(c), NEW j \in Ids' PROVE LockOK(j)'
  <2>1. CASE j \in Ids
    <3>1. db'[j].lock = db[j].lock
      BY <1>3, <2>1 DEF Calm, Behind
    <3>2. \A b \in Client : handle'[b] = j /\ phase'[b] = "turn" <=> handle[b] = j /\ phase[b] = "turn"
      BY <1>3 DEF Calm, Others, Rests, Outside
    <3> QED
      BY <1>1, <2>1, <3>1, <3>2 DEF LockOK
  <2>2. CASE j \notin Ids
    <3>1. db'[j].lock = <<>>
      BY <1>3, <2>2 DEF Calm
    <3>2. \A b \in Client : ~(handle'[b] = j /\ phase'[b] = "turn")
      BY <1>1, <1>2, <1>3, <2>2 DEF Calm, Others, Rests, Outside
    <3> QED
      BY <3>1, <3>2 DEF LockOK, In, Distinct
  <2> QED
    BY <2>1, <2>2
<1>4. ASSUME NEW c \in Client, NEW i \in Ids, Starts(c, i), NEW j \in Ids' PROVE LockOK(j)'
  <2>1. j \in Ids /\ (j # i => db'[j] = db[j]) /\ db'[i].lock = Append(db[i].lock, c)
    BY <1>4 DEF Starts, OnlyDb
  <2>2. \A b \in Client : handle'[b] = j /\ phase'[b] = "turn" <=> (handle[b] = j /\ phase[b] = "turn") \/ (j = i /\ b = c)
    BY <1>4 DEF Starts, Others, Rests
  <2>3. CASE j # i
    BY <1>1, <2>1, <2>2, <2>3 DEF LockOK
  <2>4. CASE j = i
    <3>1. ~In(c, db[i].lock) /\ Distinct(db[i].lock)
      BY <1>1, <1>4 DEF LockOK, Starts
    <3>2. Distinct(db'[i].lock) /\ \A b : In(b, db'[i].lock) <=> In(b, db[i].lock) \/ b = c
      BY <1>1, <2>1, <3>1, Appended
    <3> QED
      BY <1>1, <2>2, <2>4, <3>2 DEF LockOK
  <2> QED
    BY <2>3, <2>4
<1>5. ASSUME NEW c \in Client, NEW i \in Ids, NEW o, RunsIt(c, i, o), NEW j \in Ids' PROVE LockOK(j)'
  <2>1. j \in Ids /\ (j # i => db'[j] = db[j]) /\ db'[i].lock = Tail(db[i].lock)
    BY <1>5 DEF RunsIt, OnlyDb
  <2>2. \A b \in Client : handle'[b] = j /\ phase'[b] = "turn" <=> handle[b] = j /\ phase[b] = "turn" /\ b # c
    BY <1>5 DEF RunsIt, Others, Rests
  <2>3. CASE j # i
    <3>1. handle[c] # j
      BY <1>5, <2>3 DEF RunsIt
    <3> QED
      BY <1>1, <2>1, <2>2, <2>3, <3>1 DEF LockOK
  <2>4. CASE j = i
    <3>1. db[i].lock # <<>> /\ Head(db[i].lock) = c /\ Distinct(db[i].lock)
      BY <1>1, <1>5 DEF LockOK, RunsIt
    <3>2. Distinct(db'[i].lock) /\ \A b \in Client : In(b, db'[i].lock) <=> In(b, db[i].lock) /\ b # c
      BY <1>1, <2>1, <3>1, Tailed
    <3> QED
      BY <1>1, <2>2, <2>4, <3>2 DEF LockOK
  <2> QED
    BY <2>3, <2>4
<1>6. ASSUME NEW i \in Ids, NEW j \in Ids',
             \/ \E c \in Client : Queued(c, i) \/ SettlesIt(c, i) \/ ReturnsIt(c, i)
             \/ Clears(i) \/ Turns(i)
      PROVE  LockOK(j)'
  <2>1. j \in Ids /\ db'[j].lock = db[j].lock
    BY <1>6 DEF Queued, SettlesIt, ReturnsIt, Clears, Turns, OnlyDb
  <2>2. \A b \in Client : handle'[b] = j /\ phase'[b] = "turn" <=> handle[b] = j /\ phase[b] = "turn"
    BY <1>6 DEF Queued, SettlesIt, ReturnsIt, Clears, Turns, Others, Rests
  <2> QED
    BY <1>1, <2>1, <2>2 DEF LockOK
<1> QED
  BY <1>3, <1>4, <1>5, <1>6, AllSteps

LEMMA WaitingStep ==
  ASSUME Shape, Queues, Shape', Next
  PROVE  \A i \in Ids' : WaitingOK(i)'
<1>1. /\ \A i \in Ids : WaitingOK(i)
      /\ \A i \in Ids : db[i].waiting \in Seq(Entry)
      /\ \A c \in Client : handle[c] \in {0} \cup Ids
  BY QueueTypes DEF Queues
<1>2. 0 \notin Ids' /\ \A c \in Client : CallOK(c)'
  BY DEF Shape, Types
<1> DEFINE Waiting(b) == phase[b] = "queued" \/ Drained(b)
<1>3. ASSUME NEW c \in Client, Calm(c), NEW j \in Ids' PROVE WaitingOK(j)'
  <2>1. \A b \in Client \ {c} : Waiting(b)' <=> Waiting(b)
    BY <1>3 DEF Calm, Others, Rests, Drained
  <2>2. ~Waiting(c)' /\ ~Waiting(c)
    BY <1>3 DEF Calm, Outside, Drained, Working
  <2>3. CASE j \in Ids
    <3>1. db'[j].waiting = db[j].waiting
      BY <1>3, <2>3 DEF Calm, Behind
    <3>2. \A b \in Client : handle'[b] = j /\ Waiting(b)' <=> handle[b] = j /\ Waiting(b)
      BY <1>3, <2>1, <2>2 DEF Calm, Others, Rests
    <3> QED
      BY <1>1, <2>3, <3>1, <3>2 DEF WaitingOK
  <2>4. CASE j \notin Ids
    <3>1. db'[j].waiting = <<>>
      BY <1>3, <2>4 DEF Calm
    <3>2. \A b \in Client : ~(handle'[b] = j /\ Waiting(b)')
      BY <1>1, <1>2, <1>3, <2>2, <2>4 DEF Calm, Others, Rests
    <3> QED
      BY <3>1, <3>2 DEF WaitingOK, In, Distinct
  <2> QED
    BY <2>3, <2>4
<1>4. ASSUME NEW c \in Client, NEW i \in Ids, Queued(c, i), NEW j \in Ids' PROVE WaitingOK(j)'
  <2>1. j \in Ids /\ (j # i => db'[j] = db[j]) /\ db'[i].waiting = Append(db[i].waiting, c)
    BY <1>4 DEF Queued, OnlyDb
  <2>2. ~Waiting(c) /\ Waiting(c)'
    BY <1>4 DEF Queued, Drained, Working
  <2>3. \A b \in Client : handle'[b] = j /\ Waiting(b)' <=> (handle[b] = j /\ Waiting(b)) \/ (j = i /\ b = c)
    BY <1>4, <2>2 DEF Queued, Others, Rests, Drained
  <2>4. CASE j # i
    BY <1>1, <2>1, <2>3, <2>4 DEF WaitingOK
  <2>5. CASE j = i
    <3>1. ~In(c, db[i].waiting) /\ Distinct(db[i].waiting)
      BY <1>1, <2>2 DEF WaitingOK
    <3>2. Distinct(db'[i].waiting) /\ \A b : In(b, db'[i].waiting) <=> In(b, db[i].waiting) \/ b = c
      BY <1>1, <2>1, <3>1, Appended
    <3> QED
      BY <1>1, <2>3, <2>5, <3>2 DEF WaitingOK
  <2> QED
    BY <2>4, <2>5
<1>5. ASSUME NEW c \in Client, NEW i \in Ids, ReturnsIt(c, i), NEW j \in Ids' PROVE WaitingOK(j)'
  <2>1. j \in Ids /\ (j # i => db'[j] = db[j])
    BY <1>5 DEF ReturnsIt, OnlyDb
  <2>2. ~Waiting(c)'
    BY <1>5 DEF ReturnsIt, Drained, Working
  <2>3. Waiting(c) <=> call[c].via = "queue"
    BY <1>5 DEF ReturnsIt, Drained, Working
  <2>4. \A b \in Client : handle'[b] = j /\ Waiting(b)' <=> handle[b] = j /\ Waiting(b) /\ b # c
    BY <1>5, <2>2 DEF ReturnsIt, Others, Rests, Drained
  <2>5. CASE j # i
    <3>1. handle[c] # j
      BY <1>5, <2>5 DEF ReturnsIt
    <3> QED
      BY <1>1, <2>1, <2>4, <2>5, <3>1 DEF WaitingOK
  <2>6. CASE j = i /\ call[c].via # "queue"
    <3>1. db'[i].waiting = db[i].waiting
      BY <1>5, <2>6 DEF ReturnsIt
    <3> QED
      BY <1>1, <2>3, <2>4, <2>6, <3>1 DEF WaitingOK
  <2>7. CASE j = i /\ call[c].via = "queue"
    <3>1. db[i].waiting # <<>> /\ Head(db[i].waiting) = c /\ Distinct(db[i].waiting) /\ db'[i].waiting = Tail(db[i].waiting)
      BY <1>1, <1>5, <2>7 DEF WaitingOK, ReturnsIt
    <3>2. Distinct(db'[i].waiting) /\ \A b \in Client : In(b, db'[i].waiting) <=> In(b, db[i].waiting) /\ b # c
      BY <1>1, <3>1, Tailed
    <3> QED
      BY <1>1, <2>4, <2>7, <3>2 DEF WaitingOK
  <2> QED
    BY <2>5, <2>6, <2>7
<1>6. ASSUME NEW i \in Ids, Clears(i), NEW j \in Ids' PROVE WaitingOK(j)'
  <2>1. j \in Ids /\ (j # i => db'[j] = db[j])
    BY <1>6 DEF Clears, OnlyDb
  <2>2. \A b \in Client : handle[b] = i /\ Waiting(b) <=> In(b, db[i].waiting)
    BY <1>1 DEF WaitingOK
  <2>3. \A b \in Client : IF In(b, db[i].waiting) THEN ~Waiting(b)' ELSE (Waiting(b)' <=> Waiting(b))
    BY <1>6 DEF Clears, Drained, Working
  <2>4. \A b \in Client : handle'[b] = handle[b]
    BY <1>6 DEF Clears
  <2>5. CASE j # i
    <3>1. \A b \in Client : In(b, db[i].waiting) => handle[b] # j
      BY <2>2, <2>5
    <3> QED
      BY <1>1, <2>1, <2>3, <2>4, <2>5, <3>1 DEF WaitingOK
  <2>6. CASE j = i
    <3>1. Distinct(db'[i].waiting) /\ \A b \in Client : ~In(b, db'[i].waiting)
      BY <1>6 DEF Clears
    <3>2. \A b \in Client : ~(handle'[b] = i /\ Waiting(b)')
      BY <2>2, <2>3, <2>4
    <3> QED
      BY <2>6, <3>1, <3>2 DEF WaitingOK
  <2> QED
    BY <2>5, <2>6
<1>7. ASSUME NEW i \in Ids, NEW j \in Ids',
             \/ \E c \in Client : Starts(c, i) \/ SettlesIt(c, i) \/ \E o : RunsIt(c, i, o)
             \/ Turns(i)
      PROVE  WaitingOK(j)'
  <2>1. j \in Ids /\ db'[j].waiting = db[j].waiting
    BY <1>7, SMTT(60) DEF Starts, SettlesIt, RunsIt, Turns, OnlyDb, SameQueues
  <2>2. \A b \in Client : handle'[b] = handle[b] /\ (Waiting(b)' <=> Waiting(b))
    BY <1>7, SMTT(60) DEF Starts, SettlesIt, RunsIt, Turns, Others, Rests, Drained, Working
  <2> QED
    BY <1>1, <2>1, <2>2 DEF WaitingOK
<1> QED
  BY <1>3, <1>4, <1>5, <1>6, <1>7, AllSteps

LEMMA DrainStep ==
  ASSUME Shape, Queues, Shape', Next
  PROVE  \A c \in Client : DrainOK(c)'
<1>1. \A c \in Client : DrainOK(c)
  BY DEF Queues
<1>2. \A c \in Client : Drained(c) => handle[c] \in Ids /\ Mine(c) = db[handle[c]] /\ db[handle[c]].waiting \in Seq(Entry)
  <2>1. \A c \in Client : CallOK(c) /\ HandleOK(c)
    BY DEF Shape
  <2>2. \A c \in Client : Drained(c) => handle[c] # 0
    BY <2>1 DEF Drained, Working, CallOK, HandleOK
  <2> QED
    BY <2>2, MineFacts
<1>3. ASSUME NEW c \in Client, Calm(c), NEW b \in Client PROVE DrainOK(b)'
  <2>1. CASE b = c
    BY <1>3, <2>1 DEF Calm, DrainOK, Drained, Working, Outside
  <2>2. CASE b # c /\ Drained(b)
    <3>1. handle'[b] = handle[b] /\ Behind(db[handle[b]], db'[handle[b]])
      BY <1>2, <1>3, <2>2 DEF Calm, Others, Rests
    <3> QED
      BY <1>1, <2>2, <3>1 DEF DrainOK, Mine, Behind
  <2>3. CASE b # c /\ ~Drained(b)
    BY <1>3, <2>3 DEF Calm, Others, Rests, DrainOK, Drained
  <2> QED
    BY <2>1, <2>2, <2>3
<1>4. ASSUME NEW c \in Client, NEW i \in Ids, Starts(c, i), NEW b \in Client PROVE DrainOK(b)'
  <2>1. db'[i].waiting = db[i].waiting /\ db'[i].turns = db[i].turns
    BY <1>4 DEF Starts, SameQueues
  <2>2. CASE b = c
    BY <1>4, <2>1, <2>2 DEF Starts, DrainOK, Drained, Mine
  <2>3. CASE b # c
    <3>1. Rests(b) /\ \A j \in Ids : db'[j].waiting = db[j].waiting /\ db'[j].turns = db[j].turns
      BY <1>4, <2>1, <2>3 DEF Starts, Others, OnlyDb
    <3> QED
      BY <1>1, <1>2, <3>1 DEF DrainOK, Drained, Mine, Rests
  <2> QED
    BY <2>2, <2>3
<1>5. ASSUME NEW c \in Client, NEW i \in Ids, Queued(c, i), NEW b \in Client PROVE DrainOK(b)'
  <2>1. CASE b = c
    BY <1>5, <2>1 DEF Queued, DrainOK, Drained, Working
  <2>2. CASE b # c /\ Drained(b)
    <3>1. Rests(b) /\ db'[i].turns = db[i].turns /\ db'[i].waiting = Append(db[i].waiting, c)
      BY <1>5, <2>2 DEF Queued, Others
    <3>2. CASE handle[b] = i
      <4>1. db[i].waiting # <<>> /\ Head(db[i].waiting) = b /\ db[i].turns # <<>> /\ Head(db[i].turns) = "drain" /\ db[i].waiting \in Seq(Entry)
        BY <1>1, <1>2, <2>2, <3>2 DEF DrainOK
      <4>2. db'[i].waiting # <<>> /\ Head(db'[i].waiting) = b
        BY <3>1, <4>1, Appended
      <4> QED
        BY <3>1, <3>2, <4>1, <4>2 DEF DrainOK, Mine, Rests
    <3>3. CASE handle[b] # i
      <4>1. db'[handle[b]] = db[handle[b]]
        BY <1>2, <1>5, <2>2, <3>3 DEF Queued, OnlyDb
      <4> QED
        BY <1>1, <2>2, <3>1, <4>1 DEF DrainOK, Mine, Rests
    <3> QED
      BY <3>2, <3>3
  <2>3. CASE b # c /\ ~Drained(b)
    BY <1>5, <2>3 DEF Queued, Others, Rests, DrainOK, Drained
  <2> QED
    BY <2>1, <2>2, <2>3
<1>6. ASSUME NEW c \in Client, NEW i \in Ids, SettlesIt(c, i) \/ \E o : RunsIt(c, i, o), NEW b \in Client PROVE DrainOK(b)'
  <2>1. handle'[b] = handle[b] /\ (Drained(b)' => Drained(b))
    BY <1>6 DEF SettlesIt, RunsIt, Others, Rests, Drained, Working
  <2>2. \A j \in Ids : db'[j].waiting = db[j].waiting /\ db'[j].turns = db[j].turns
    BY <1>6 DEF SettlesIt, RunsIt, OnlyDb, SameQueues
  <2> QED
    BY <1>1, <1>2, <2>1, <2>2 DEF DrainOK, Mine
<1>7. ASSUME NEW c \in Client, NEW i \in Ids, ReturnsIt(c, i), NEW b \in Client PROVE DrainOK(b)'
  <2>1. CASE b = c
    BY <1>7, <2>1 DEF ReturnsIt, DrainOK, Drained, Working
  <2>2. CASE b # c /\ Drained(b)
    <3>1. Rests(b)
      BY <1>7, <2>2 DEF ReturnsIt, Others
    <3>2. CASE handle[b] = i
      <4>1. db[i].waiting # <<>> /\ Head(db[i].waiting) = b /\ db[i].turns # <<>> /\ Head(db[i].turns) = "drain"
        BY <1>1, <1>2, <2>2, <3>2 DEF DrainOK
      <4>2. db'[i].waiting = db[i].waiting /\ db'[i].turns # <<>> /\ Head(db'[i].turns) = "drain"
        BY <1>7, <2>2, <4>1 DEF ReturnsIt
      <4> QED
        BY <3>1, <3>2, <4>1, <4>2 DEF DrainOK, Mine, Rests
    <3>3. CASE handle[b] # i
      <4>1. db'[handle[b]] = db[handle[b]]
        BY <1>2, <1>7, <2>2, <3>3 DEF ReturnsIt, OnlyDb
      <4> QED
        BY <1>1, <2>2, <3>1, <4>1 DEF DrainOK, Mine, Rests
    <3> QED
      BY <3>2, <3>3
  <2>3. CASE b # c /\ ~Drained(b)
    BY <1>7, <2>3 DEF ReturnsIt, Others, Rests, DrainOK, Drained
  <2> QED
    BY <2>1, <2>2, <2>3
<1>8. ASSUME NEW i \in Ids, Clears(i) \/ Turns(i), NEW b \in Client PROVE DrainOK(b)'
  <2>1. handle'[b] = handle[b] /\ (Drained(b)' => Drained(b))
    BY <1>8 DEF Clears, Turns, Rests, Drained, Working
  <2>2. Drained(b) => handle[b] # i /\ db'[handle[b]] = db[handle[b]]
    BY <1>2, <1>8 DEF Clears, Turns, OnlyDb
  <2> QED
    BY <1>1, <2>1, <2>2 DEF DrainOK, Mine
<1> QED
  BY <1>3, <1>4, <1>5, <1>6, <1>7, <1>8, AllSteps

\* The steps that leave the global lock alone.
Apart ==
    /\ UNCHANGED <<globals, single>>
    /\ \A b \in Client : phase'[b] = phase[b] \/ (phase[b] \notin {"global", "opening"} /\ phase'[b] \notin {"global", "opening"})

LEMMA ApartFacts ==
  ASSUME Types, NEW c \in Client, NEW p \in {"idle", "sent", "booting", "queued", "turn", "ran", "settled"},
         phase' = [phase EXCEPT ![c] = p], globals' = globals, single' = single,
         phase[c] \notin {"global", "opening"}
  PROVE  Apart
  BY DEF Types, Apart

LEMMA GlobalsStep ==
  ASSUME Shape, Queues, Next
  PROVE  GlobalsOK'
<1>1. /\ Types /\ globals \in Seq(Client) /\ globals \in Seq(Entry) /\ Distinct(globals)
      /\ \A b \in Client : In(b, globals) <=> phase[b] \in {"global", "opening"}
      /\ \A b \in Client : phase[b] = "opening" => globals # <<>> /\ Head(globals) = b /\ single = 0
  <2>1. \A s \in Seq(Client) : s \in Seq(Entry)
    BY DEF Entry
  <2> QED
    BY <2>1 DEF Shape, Types, Queues, GlobalsOK
<1>2. CASE Apart
  BY <1>1, <1>2 DEF Apart, GlobalsOK
<1>3. ASSUME NEW c \in Client, WaitsGlobally(c) PROVE GlobalsOK'
  <2>1. globals' = Append(globals, c) /\ single' = single /\ phase[c] \in {"sent", "booting"} /\ Moves(c, "global", call[c], handle[c], tx[c])
    BY <1>3 DEF WaitsGlobally, Taken
  <2>2. phase'[c] = "global" /\ \A b \in Client \ {c} : Rests(b)
    BY <1>1, <2>1, Moved
  <2>3. ~In(c, globals)
    BY <1>1, <2>1
  <2>4. /\ Distinct(globals') /\ \A b \in Client : In(b, globals') <=> In(b, globals) \/ b = c
        /\ globals # <<>> => globals' # <<>> /\ Head(globals') = Head(globals)
    BY <1>1, <2>1, <2>3, Appended
  <2> QED
    BY <1>1, <2>1, <2>2, <2>4 DEF GlobalsOK, Rests
<1>4. ASSUME NEW c \in Client, BeginsOpen(c) PROVE GlobalsOK'
  <2>1. /\ UNCHANGED <<globals, single>> /\ single = 0 /\ globals # <<>> /\ Head(globals) = c /\ phase[c] = "global"
        /\ Moves(c, "opening", call[c], handle[c], tx[c])
    BY <1>4 DEF BeginsOpen
  <2>2. phase'[c] = "opening" /\ \A b \in Client \ {c} : Rests(b)
    BY <1>1, <2>1, Moved
  <2> QED
    BY <1>1, <2>1, <2>2 DEF GlobalsOK, Rests
<1>5. ASSUME NEW c \in Client, NEW h, NEW t, Frees(c), Moves(c, "idle", NoCall, h, t) PROVE GlobalsOK'
  <2>1. phase'[c] = "idle" /\ \A b \in Client \ {c} : Rests(b)
    BY <1>1, <1>5, Moved
  <2>2. globals # <<>> /\ Head(globals) = c /\ globals' = Tail(globals)
    BY <1>5 DEF Frees
  <2>3. Distinct(globals') /\ \A b \in Client : In(b, globals') <=> In(b, globals) /\ b # c
    BY <1>1, <2>2, Tailed
  <2>4. \A b \in Client : phase'[b] # "opening"
    BY <1>1, <2>1, <2>2 DEF Rests
  <2> QED
    BY <1>1, <2>1, <2>3, <2>4 DEF GlobalsOK, Rests
<1>6. ASSUME NEW c \in Client, Does(c) PROVE GlobalsOK'
  <2>1. CASE GivesOpen(c) \/ (\E i : Opens(c, i)) \/ FailsOpen(c) \/ Closes(c) \/ Deletes(c)
    BY <1>5, <2>1 DEF GivesOpen, Opens, FailsOpen, Closes, Deletes
  <2>2. ASSUME NEW kind \in Statements \cup Globals, Posts(c, kind) PROVE Apart
    <3>1. /\ phase' = [phase EXCEPT ![c] = "sent"] /\ globals' = globals /\ single' = single
          /\ phase[c] \notin {"global", "opening"}
      BY <2>2 DEF Posts, sched_vars, Moves
    <3> QED
      BY <1>1, <1>2, <3>1, ApartFacts
  <2>3. CASE Loads(c)
    <3>1. /\ phase' = [phase EXCEPT ![c] = "booting"] /\ globals' = globals /\ single' = single
          /\ phase[c] \notin {"global", "opening"}
      BY <2>3 DEF Loads, sched_vars, Moves
    <3> QED
      BY <1>1, <1>2, <3>1, ApartFacts
  <2>4. CASE Refuses(c)
    <3>1. /\ phase' = [phase EXCEPT ![c] = "idle"] /\ globals' = globals /\ single' = single
          /\ phase[c] \notin {"global", "opening"}
      BY <2>4 DEF Refuses, sched_vars, Moves
    <3> QED
      BY <1>1, <1>2, <3>1, ApartFacts
  <2>5. CASE Runs(c, "own") \/ Runs(c, "free")
    <3>1. /\ phase' = [phase EXCEPT ![c] = "turn"] /\ globals' = globals /\ single' = single
          /\ phase[c] \notin {"global", "opening"}
      BY <2>5 DEF Runs, Taken, Moves
    <3> QED
      BY <1>1, <1>2, <3>1, ApartFacts
  <2>6. CASE Waits(c)
    <3>1. /\ phase' = [phase EXCEPT ![c] = "queued"] /\ globals' = globals /\ single' = single
          /\ phase[c] \notin {"global", "opening"}
      BY <2>6 DEF Waits, Taken, Moves
    <3> QED
      BY <1>1, <1>2, <3>1, ApartFacts
  <2>7. CASE \E o, e : Executes(c, o, e)
    <3>1. /\ phase' = [phase EXCEPT ![c] = "ran"] /\ globals' = globals /\ single' = single
          /\ phase[c] \notin {"global", "opening"}
      BY <2>7 DEF Executes, Moves
    <3> QED
      BY <1>1, <1>2, <3>1, ApartFacts
  <2>8. CASE Settles(c)
    <3>1. /\ phase' = [phase EXCEPT ![c] = "settled"] /\ globals' = globals /\ single' = single
          /\ phase[c] \notin {"global", "opening"}
      BY <2>8 DEF Settles, Moves
    <3> QED
      BY <1>1, <1>2, <3>1, ApartFacts
  <2>9. CASE \E e : Returns(c, e)
    <3>1. /\ phase' = [phase EXCEPT ![c] = "idle"] /\ globals' = globals /\ single' = single
          /\ phase[c] \notin {"global", "opening"}
      BY <2>9 DEF Returns, Moves
    <3> QED
      BY <1>1, <1>2, <3>1, ApartFacts
  <2>10. CASE \E i \in Ids : LetsIn(i, c)
    <3>1. /\ phase' = [phase EXCEPT ![c] = "turn"] /\ globals' = globals /\ single' = single
          /\ phase[c] \notin {"global", "opening"}
      BY <2>10 DEF LetsIn, Moves
    <3> QED
      BY <1>1, <1>2, <3>1, ApartFacts
  <2> QED
    BY <1>2, <1>3, <1>4, <1>6, <2>1, <2>2, <2>3, <2>4, <2>5, <2>6, <2>7, <2>8, <2>9, <2>10 DEF Does
<1>7. ASSUME NEW i \in Ids, TurnEnds(i) \/ \E e : AnswersAll(i, e) PROVE Apart
  <2>1. CASE TurnEnds(i)
    BY <2>1 DEF TurnEnds, Apart
  <2>2. ASSUME NEW e, AnswersAll(i, e) PROVE Apart
    <3>1. \A b \in Client : phase'[b] = phase[b] \/ (phase[b] = "queued" /\ phase'[b] = "idle")
      BY <2>2 DEF AnswersAll
    <3> QED
      BY <2>2, <3>1 DEF AnswersAll, Apart
  <2> QED
    BY <1>7, <2>1, <2>2
<1> QED
  BY <1>2, <1>6, <1>7, Steps

LEMMA QueuesStep ==
  ASSUME Shape, Queues, Shape', Next
  PROVE  Queues'
  BY LockStep, WaitingStep, DrainStep, GlobalsStep DEF Queues

-----------------------------------------------------------------------------
(* One file system and one open instance.                                  *)

\* The steps that neither open nor close a database.
Connected ==
    /\ Ids' = Ids /\ single' = single /\ reclosed' = reclosed
    /\ \A i \in Ids : db'[i].open = db[i].open /\ db'[i].files = db[i].files

LEMMA ConnectedFacts ==
  ASSUME Shape, NEW c \in Client, Does(c)
  PROVE  Connected \/ (\E i : Opens(c, i)) \/ Closes(c) \/ Deletes(c)
<1>1. UNCHANGED db => Ids' = Ids /\ db' = db
  BY DEF Ids
<1>2. CASE \/ (\E kind \in Statements \cup Globals : Posts(c, kind)) \/ Loads(c) \/ Refuses(c)
           \/ WaitsGlobally(c) \/ GivesOpen(c) \/ BeginsOpen(c) \/ FailsOpen(c)
  <2>1. UNCHANGED <<db, single, reclosed>>
    BY <1>2 DEF Posts, Loads, Refuses, WaitsGlobally, GivesOpen, BeginsOpen, FailsOpen, Taken, sched_vars, history
  <2> QED
    BY <1>1, <2>1 DEF Connected
<1>3. ASSUME NEW i \in Ids, OnlyDb(i), SameConnection(db[i], db'[i]), single' = single, reclosed' = reclosed
      PROVE  Connected
  BY <1>3 DEF OnlyDb, SameConnection, Connected
<1>4. CASE Runs(c, "own") \/ Runs(c, "free")
  <2>1. Starts(c, handle[c])
    BY <1>4, StartsFacts
  <2>2. handle[c] \in Ids /\ OnlyDb(handle[c]) /\ SameConnection(db[handle[c]], db'[handle[c]])
    BY <2>1 DEF Starts
  <2>3. single' = single /\ reclosed' = reclosed
    BY <1>4 DEF Runs, Taken, history
  <2> QED
    BY <1>3, <2>2, <2>3
<1>5. CASE Waits(c)
  <2>1. Queued(c, handle[c])
    BY <1>5, WaitsFacts
  <2>2. handle[c] \in Ids /\ OnlyDb(handle[c]) /\ SameConnection(db[handle[c]], db'[handle[c]])
    BY <2>1 DEF Queued
  <2>3. single' = single /\ reclosed' = reclosed
    BY <1>5 DEF Waits, Taken, history
  <2> QED
    BY <1>3, <2>2, <2>3
<1>6. ASSUME NEW o, NEW e, Executes(c, o, e) PROVE Connected
  <2>1. RunsIt(c, handle[c], o)
    BY <1>6, ExecutesFacts
  <2>2. single' = single /\ reclosed' = reclosed
    BY <1>6 DEF Executes
  <2> QED
    BY <2>1, <2>2 DEF RunsIt, OnlyDb, Connected
<1>7. CASE Settles(c)
  <2>1. SettlesIt(c, handle[c])
    BY <1>7, SettlesFacts
  <2>2. handle[c] \in Ids /\ OnlyDb(handle[c]) /\ SameConnection(db[handle[c]], db'[handle[c]])
    BY <2>1 DEF SettlesIt
  <2>3. single' = single /\ reclosed' = reclosed
    BY <1>7 DEF Settles, history
  <2> QED
    BY <1>3, <2>2, <2>3
<1>8. ASSUME NEW e, Returns(c, e) PROVE Connected
  <2>1. ReturnsIt(c, handle[c])
    BY <1>8, ReturnsFacts
  <2>2. handle[c] \in Ids /\ OnlyDb(handle[c]) /\ SameConnection(db[handle[c]], db'[handle[c]])
    BY <2>1 DEF ReturnsIt
  <2>3. single' = single /\ reclosed' = reclosed
    BY <1>8 DEF Returns
  <2> QED
    BY <1>3, <2>2, <2>3
<1>9. ASSUME NEW i \in Ids, LetsIn(i, c) PROVE Connected
  <2>1. Starts(c, i)
    BY <1>9, StartsFacts
  <2>2. OnlyDb(i) /\ SameConnection(db[i], db'[i])
    BY <2>1 DEF Starts
  <2>3. single' = single /\ reclosed' = reclosed
    BY <1>9 DEF LetsIn, history
  <2> QED
    BY <1>3, <2>2, <2>3
<1> QED
  BY <1>2, <1>4, <1>5, <1>6, <1>7, <1>8, <1>9 DEF Does

LEMMA QueueConnected ==
  ASSUME Shape, NEW i \in Ids, TurnEnds(i) \/ \E e : AnswersAll(i, e)
  PROVE  Connected /\ UNCHANGED <<files, raced>>
<1>1. UNCHANGED <<single, reclosed, files, raced>>
  BY DEF TurnEnds, AnswersAll, history
<1>2. Clears(i) \/ Turns(i)
  BY ClearsFacts, TurnsFacts
<1> QED
  BY <1>1, <1>2 DEF Clears, Turns, OnlyDb, SameConnection, Connected

LEMMA OneInstanceStep ==
  ASSUME Shape, Queues, OneInstance, Next
  PROVE  OneInstance'
<1>1. CASE Connected
  <2>1. single \in {0} \cup Ids
    BY DEF Shape, Types
  <2> QED
    BY <1>1, <2>1 DEF Connected, OneInstance
<1>2. ASSUME NEW c \in Client, NEW i, Opens(c, i) PROVE OneInstance'
  <2>1. /\ Ids' = Ids \cup {i} /\ i \notin Ids /\ db'[i] = Database(files) /\ \A j \in Ids : db'[j] = db[j]
    BY <1>2, Opened DEF Opens
  <2>2. db'[i].open /\ single' = i /\ reclosed' = reclosed
    BY <1>2, <2>1 DEF Opens, Database, history
  <2>3. single = 0 /\ 0 \notin Ids
    BY <1>2, QueueTypes DEF Opens, Queues, GlobalsOK
  <2>4. ~reclosed => \A j \in Ids : ~db[j].open
    BY <2>3 DEF OneInstance
  <2> QED
    BY <2>1, <2>2, <2>4 DEF OneInstance
<1>3. ASSUME NEW i \in Ids, db' = WithDb(i, Closed(db[i])), single' = 0, ~reclosed' => ~reclosed /\ (i = single \/ db[i].open)
      PROVE  OneInstance'
  <2>1. db[i] \in DbType /\ DbOK(db[i])
    BY DEF Shape, Types
  <2>2. PICK e \in DbType : e = Closed(db[i]) /\ DbOK(e) /\ Behind(db[i], e) /\ ~e.open
    BY <2>1, ClosedFacts
  <2>3. db[i].last <= e.last
    BY <2>1, <2>2 DEF Behind, SameIds, DbType
  <2>4. Ids' = Ids /\ db'[i] = e /\ \A j \in Ids \ {i} : db'[j] = db[j]
    BY <1>3, <2>2, <2>3, Replaced
  <2>5. ~reclosed' => \A j \in Ids : ~db'[j].open
    BY <1>3, <2>2, <2>4 DEF OneInstance
  <2> QED
    BY <1>3, <2>4, <2>5 DEF OneInstance
<1>4. ASSUME NEW c \in Client, Closes(c) PROVE OneInstance'
  <2>1. handle[c] # 0
    BY <1>4 DEF Closes, Shape, HandleOK
  <2>2. handle[c] \in Ids /\ Mine(c) = db[handle[c]]
    BY <2>1, MineFacts
  <2>3. db' = WithDb(handle[c], Closed(db[handle[c]])) /\ single' = 0 /\ (~reclosed' => ~reclosed /\ db[handle[c]].open)
    BY <1>4, <2>2 DEF Closes
  <2> QED
    BY <1>3, <2>2, <2>3
<1>5. ASSUME NEW c \in Client, Deletes(c) PROVE OneInstance'
  <2>1. CASE single # 0
    <3>1. single \in Ids
      BY <2>1 DEF Shape, Types
    <3>2. db' = WithDb(single, Closed(db[single])) /\ single' = 0 /\ reclosed' = reclosed
      BY <1>5, <2>1 DEF Deletes
    <3> QED
      BY <1>3, <3>1, <3>2
  <2>2. CASE single = 0
    BY <1>5, <2>2 DEF Deletes, OneInstance, Ids
  <2> QED
    BY <2>1, <2>2
<1> QED
  BY <1>1, <1>2, <1>4, <1>5, Steps, ConnectedFacts, QueueConnected

LEMMA MadeStep ==
  ASSUME Shape, Queues, Made, Next
  PROVE  Made'
<1>1. /\ Types
      /\ files = 0 => Ids = {} /\ \A b \in Client : phase[b] \in {"idle", "sent", "booting"}
      /\ ~raced => \A a, b \in Client : phase[a] = "booting" /\ phase[b] = "booting" => a = b
      /\ ~raced => \A b \in Client : phase[b] = "booting" => files = 0
      /\ \A b \in Client : phase[b] \in Phases
  BY OneOf DEF Shape, Made
<1>2. ASSUME files' # 0, files' = files, raced' = raced, \A b \in Client : phase'[b] = "booting" => phase[b] = "booting"
      PROVE  Made'
  BY <1>1, <1>2 DEF Made
<1>3. ASSUME NEW c \in Client, Loads(c) PROVE Made'
  <2>1. files' = files /\ Ids' = Ids /\ files = 0 /\ raced' = (raced \/ \E b \in Client : phase[b] = "booting")
    BY <1>3 DEF Loads, sched_vars, Ids
  <2>2. phase' = [phase EXCEPT ![c] = "booting"]
    BY <1>3 DEF Loads, Moves
  <2>3. phase'[c] = "booting" /\ \A b \in Client \ {c} : phase'[b] = phase[b]
    BY <1>1, <2>2 DEF Types
  <2> QED
    BY <1>1, <2>1, <2>3 DEF Made
<1>4. ASSUME NEW c \in Client, Taken(c), NEW p \in {"turn", "queued", "global"}, phase' = [phase EXCEPT ![c] = p] PROVE Made'
  <2>1. files' # 0 /\ raced' = raced /\ phase[c] \in {"sent", "booting"} /\ (phase[c] = "sent" => files' = files)
    BY <1>4 DEF Taken, history
  <2>2. phase'[c] = p /\ \A b \in Client \ {c} : phase'[b] = phase[b]
    BY <1>1, <1>4 DEF Types
  <2>3. ASSUME ~raced, NEW b \in Client, phase'[b] = "booting" PROVE FALSE
    <3>1. b # c /\ phase[b] = "booting" /\ files = 0
      BY <1>1, <2>2, <2>3
    <3> QED
      BY <1>1, <2>1, <2>3, <3>1
  <2> QED
    BY <2>1, <2>3 DEF Made
<1>5. ASSUME NEW c \in Client, NEW p \in {"idle", "sent"}, phase' = [phase EXCEPT ![c] = p], Ids' = Ids, files' = files, raced' = raced
      PROVE  Made'
  <2>1. phase'[c] = p /\ \A b \in Client \ {c} : phase'[b] = phase[b]
    BY <1>1, <1>5 DEF Types
  <2> QED
    BY <1>1, <1>5, <2>1 DEF Made
<1>6. ASSUME NEW c \in Client, phase[c] \notin {"idle", "sent", "booting"}, NEW p \in Phases \ {"booting"},
             phase' = [phase EXCEPT ![c] = p], files' = files, raced' = raced
      PROVE  Made'
  <2>1. \A b \in Client : phase'[b] = "booting" => phase[b] = "booting"
    BY <1>1, <1>6 DEF Types
  <2> QED
    BY <1>1, <1>2, <1>6, <2>1
<1>7. ASSUME NEW c \in Client, Does(c) PROVE Made'
  <2>1. CASE (\E kind \in Statements \cup Globals : Posts(c, kind)) \/ Refuses(c)
    <3>1. (phase' = [phase EXCEPT ![c] = "sent"] \/ phase' = [phase EXCEPT ![c] = "idle"]) /\ db' = db /\ files' = files /\ raced' = raced
      BY <2>1 DEF Posts, Refuses, Moves, sched_vars, history
    <3>2. Ids' = Ids
      BY <3>1 DEF Ids
    <3> QED
      BY <1>5, <3>1, <3>2
  <2>2. CASE Runs(c, "own") \/ Runs(c, "free") \/ Waits(c) \/ WaitsGlobally(c)
    BY <1>4, <2>2 DEF Runs, Waits, WaitsGlobally, Moves
  <2>3. ASSUME NEW o, NEW e, Executes(c, o, e) PROVE Made'
    <3>1. phase[c] = "turn" /\ phase' = [phase EXCEPT ![c] = "ran"] /\ files' = files /\ raced' = raced
      BY <2>3 DEF Executes, Moves
    <3> QED
      BY <1>6, <3>1 DEF Phases
  <2>4. CASE Settles(c)
    <3>1. phase[c] = "ran" /\ phase' = [phase EXCEPT ![c] = "settled"] /\ files' = files /\ raced' = raced
      BY <2>4 DEF Settles, Moves, history
    <3> QED
      BY <1>6, <3>1 DEF Phases
  <2>5. ASSUME NEW e, Returns(c, e) PROVE Made'
    <3>1. phase[c] = "settled" /\ phase' = [phase EXCEPT ![c] = "idle"] /\ files' = files /\ raced' = raced
      BY <2>5 DEF Returns, Moves
    <3> QED
      BY <1>6, <3>1 DEF Phases
  <2>6. CASE GivesOpen(c) \/ (\E i : Opens(c, i)) \/ FailsOpen(c) \/ Closes(c) \/ Deletes(c)
    <3>1. phase[c] \in {"global", "opening"} /\ phase' = [phase EXCEPT ![c] = "idle"] /\ files' = files /\ raced' = raced
      BY <2>6 DEF GivesOpen, Opens, FailsOpen, Closes, Deletes, Moves, history
    <3> QED
      BY <1>6, <3>1 DEF Phases
  <2>7. CASE BeginsOpen(c)
    <3>1. phase[c] = "global" /\ phase' = [phase EXCEPT ![c] = "opening"] /\ files' = files /\ raced' = raced
      BY <2>7 DEF BeginsOpen, Moves, history
    <3> QED
      BY <1>6, <3>1 DEF Phases
  <2>8. CASE \E i \in Ids : LetsIn(i, c)
    <3>1. phase[c] = "queued" /\ phase' = [phase EXCEPT ![c] = "turn"] /\ files' = files /\ raced' = raced
      BY <2>8 DEF LetsIn, Moves, history
    <3> QED
      BY <1>6, <3>1 DEF Phases
  <2> QED
    BY <1>3, <1>7, <2>1, <2>2, <2>3, <2>4, <2>5, <2>6, <2>7, <2>8 DEF Does
<1>8. ASSUME NEW i \in Ids, TurnEnds(i) \/ \E e : AnswersAll(i, e) PROVE Made'
  <2>1. files' = files /\ raced' = raced /\ files # 0
    BY <1>1, <1>8, QueueConnected
  <2>2. \A b \in Client : phase'[b] = phase[b] \/ phase'[b] = "idle"
    <3>1. CASE TurnEnds(i)
      BY <3>1 DEF TurnEnds
    <3>2. ASSUME NEW e, AnswersAll(i, e) PROVE \A b \in Client : phase'[b] = phase[b] \/ phase'[b] = "idle"
      BY <3>2 DEF AnswersAll
    <3> QED
      BY <1>8, <3>1, <3>2
  <2> QED
    BY <1>2, <2>1, <2>2
<1> QED
  BY <1>7, <1>8, Steps

LEMMA OneFileSystemStep ==
  ASSUME Shape, Queues, Made, OneFileSystem, Next
  PROVE  OneFileSystem'
<1>1. \A c \in Client : handle[c] \in {0} \cup Ids /\ HandleOK(c)
  BY OneOf DEF Shape
<1>2. ASSUME Connected, files' = files, raced => raced' PROVE OneFileSystem'
  BY <1>2 DEF Connected, OneFileSystem
<1>3. ASSUME NEW c \in Client, Taken(c), Connected, phase[c] = "sent" PROVE OneFileSystem'
  BY <1>2, <1>3 DEF Taken, history
<1>4. ASSUME NEW c \in Client, Taken(c), Connected, phase[c] = "booting" PROVE OneFileSystem'
  <2>1. raced' = raced
    BY <1>4 DEF Taken, history
  <2>2. ~raced => Ids = {}
    BY <1>4 DEF Made
  <2> QED
    BY <1>4, <2>1, <2>2 DEF Connected, OneFileSystem
<1>5. ASSUME NEW c \in Client, NEW i, Opens(c, i) PROVE OneFileSystem'
  <2>1. /\ Ids' = Ids \cup {i} /\ db'[i] = Database(files) /\ \A j \in Ids : db'[j] = db[j]
    BY <1>5, Opened DEF Opens
  <2>2. db'[i].files = files /\ files' = files /\ raced' = raced
    BY <1>5, <2>1 DEF Opens, Database, history
  <2> QED
    BY <2>1, <2>2 DEF OneFileSystem
<1>6. ASSUME NEW i \in Ids, db' = WithDb(i, Closed(db[i])), files' = files, raced' = raced
      PROVE  OneFileSystem'
  <2>1. db[i] \in DbType /\ DbOK(db[i])
    BY DEF Shape, Types
  <2>2. PICK e \in DbType : e = Closed(db[i]) /\ DbOK(e) /\ Behind(db[i], e) /\ e.files = db[i].files
    BY <2>1, ClosedFacts
  <2>3. db[i].last <= e.last
    BY <2>1, <2>2 DEF Behind, SameIds, DbType
  <2>4. Ids' = Ids /\ db'[i] = e /\ \A j \in Ids \ {i} : db'[j] = db[j]
    BY <1>6, <2>2, <2>3, Replaced
  <2> QED
    BY <1>6, <2>2, <2>4 DEF OneFileSystem
<1>7. ASSUME NEW c \in Client, Closes(c) PROVE OneFileSystem'
  <2>1. handle[c] # 0
    BY <1>1, <1>7 DEF Closes, HandleOK
  <2> QED
    BY <1>1, <1>6, <1>7, <2>1 DEF Closes, Mine
<1>8. ASSUME NEW c \in Client, Deletes(c) PROVE OneFileSystem'
  <2>1. CASE single # 0
    <3>1. single \in Ids
      BY <2>1 DEF Shape, Types
    <3> QED
      BY <1>6, <1>8, <2>1, <3>1 DEF Deletes
  <2>2. CASE single = 0
    BY <1>8, <2>2 DEF Deletes, OneFileSystem, Ids
  <2> QED
    BY <2>1, <2>2
<1>9. ASSUME NEW c \in Client, Does(c), Connected PROVE OneFileSystem'
  <2>1. CASE Taken(c)
    BY <1>3, <1>4, <1>9, <2>1 DEF Taken
  <2>2. CASE ~Taken(c)
    <3>1. files' = files /\ (raced => raced')
      <4>1. CASE \E kind \in Statements \cup Globals : Posts(c, kind)
        BY <4>1 DEF Posts, sched_vars, history
      <4>2. CASE Loads(c)
        <5>1. files' = files /\ raced' = (raced \/ \E b \in Client : phase[b] = "booting")
          BY <4>2 DEF Loads, sched_vars
        <5> QED
          BY <5>1
      <4>3. CASE Refuses(c)
        BY <4>3 DEF Refuses, sched_vars, history
      <4>7. CASE \E o, e : Executes(c, o, e)
        <5>1. files' = files /\ raced' = raced
          BY <4>7 DEF Executes
        <5> QED
          BY <5>1
      <4>8. CASE Settles(c)
        BY <4>8 DEF Settles, history
      <4>4. CASE (\E e : Returns(c, e)) \/ \E i \in Ids : LetsIn(i, c)
        BY <4>4 DEF Returns, LetsIn, history
      <4>5. CASE GivesOpen(c) \/ BeginsOpen(c) \/ FailsOpen(c)
        BY <4>5 DEF GivesOpen, BeginsOpen, FailsOpen, history
      <4>6. CASE (\E i : Opens(c, i)) \/ Closes(c) \/ Deletes(c)
        BY <4>6 DEF Opens, Closes, Deletes, history
      <4> QED
        BY <1>9, <2>2, <4>1, <4>2, <4>3, <4>4, <4>5, <4>6, <4>7, <4>8 DEF Does, Runs, Waits, WaitsGlobally
    <3> QED
      BY <1>2, <1>9, <3>1
  <2> QED
    BY <2>1, <2>2
<1> QED
  BY <1>2, <1>5, <1>7, <1>8, <1>9, Steps, ConnectedFacts, QueueConnected

-----------------------------------------------------------------------------
(* Every transaction has an end.                                           *)

LEMMA HandleFacts ==
  ASSUME Shape, NEW c \in Client
  PROVE  /\ Types /\ CallOK(c) /\ HandleOK(c) /\ tx[c] \in Nat
         /\ tx[c] # 0 => handle[c] # 0
         /\ handle[c] # 0 => /\ handle[c] \in Ids /\ Mine(c) = db[handle[c]]
                             /\ tx[c] <= db[handle[c]].last /\ db[handle[c]].last \in Nat
         /\ call[c].kind = "begin" => handle[c] # 0 /\ tx[c] = 0
         /\ call[c].kind = "end" => handle[c] # 0 /\ tx[c] # 0
<1>1. Types /\ CallOK(c) /\ HandleOK(c) /\ tx[c] \in Nat
  BY OneOf DEF Shape
<1>2. handle[c] # 0 => /\ handle[c] \in Ids /\ Mine(c) = db[handle[c]] /\ Mine(c).last \in Nat
  BY MineFacts
<1> QED
  BY <1>1, <1>2 DEF HandleOK, Statements

LEMMA CurFacts ==
  ASSUME Shape, Queues, Next, NEW j \in Ids
  PROVE  j \in Ids' /\ (db'[j].cur \in {0, db[j].cur} \/ db'[j].cur = db[j].last + 1)
<1>1. ASSUME NEW c \in Client, Calm(c)
      PROVE  j \in Ids' /\ db'[j].cur = db[j].cur
  BY <1>1 DEF Calm, Behind, SameIds
<1>2. ASSUME NEW c \in Client, NEW i \in Ids,
             Starts(c, i) \/ Queued(c, i) \/ SettlesIt(c, i) \/ ReturnsIt(c, i) \/ \E o : RunsIt(c, i, o)
      PROVE  j \in Ids' /\ (db'[j].cur \in {0, db[j].cur} \/ db'[j].cur = db[j].last + 1)
  <2>1. OnlyDb(i)
    BY <1>2 DEF Starts, Queued, SettlesIt, ReturnsIt, RunsIt
  <2>2. CASE j # i
    BY <2>1, <2>2 DEF OnlyDb
  <2>3. CASE j = i
    BY <1>2, <2>1, <2>3 DEF OnlyDb, Starts, Queued, SettlesIt, ReturnsIt, RunsIt, SameIds
  <2> QED
    BY <2>2, <2>3
<1>3. ASSUME NEW i \in Ids, Clears(i) \/ Turns(i)
      PROVE  j \in Ids' /\ db'[j].cur = db[j].cur
  BY <1>3 DEF Clears, Turns, OnlyDb, SameIds
<1> QED
  BY <1>1, <1>2, <1>3, AllSteps

LEMMA GoneStep ==
  ASSUME Shape, Queues, HasEnd, Next, NEW b \in Client
  PROVE  (Gone(b) /\ tx[b] # 0 => tx[b] # Mine(b).cur)'
<1>1. /\ Gone(b) /\ tx[b] # 0 => tx[b] # Mine(b).cur
      /\ tx[b] \in Nat
      /\ tx[b] # 0 => handle[b] \in Ids /\ Mine(b) = db[handle[b]] /\ tx[b] <= db[handle[b]].last /\ db[handle[b]].last \in Nat
  BY HandleFacts DEF HasEnd
<1>2. ASSUME Gone(b), tx'[b] = tx[b], handle'[b] = handle[b] PROVE (Gone(b) /\ tx[b] # 0 => tx[b] # Mine(b).cur)'
  <2>1. CASE tx[b] = 0
    BY <1>2, <2>1
  <2>2. CASE tx[b] # 0
    <3>1. PICK j \in Ids : j = handle[b]
      BY <1>1, <2>2
    <3>2. tx[b] # db[j].cur /\ tx[b] <= db[j].last /\ db[j].last \in Nat
      BY <1>1, <1>2, <2>2, <3>1
    <3>3. db'[j].cur \in {0, db[j].cur} \/ db'[j].cur = db[j].last + 1
      BY CurFacts
    <3>4. tx[b] # db'[j].cur
      BY <1>1, <2>2, <3>2, <3>3
    <3> QED
      BY <1>2, <3>1, <3>4 DEF Mine
  <2> QED
    BY <2>1, <2>2
<1>3. ASSUME Rests(b) PROVE (Gone(b) /\ tx[b] # 0 => tx[b] # Mine(b).cur)'
  <2>1. Gone(b)' <=> Gone(b)
    BY <1>3 DEF Rests, Gone
  <2> QED
    BY <1>2, <1>3, <2>1 DEF Rests
<1>4. ASSUME NEW c \in Client, Calm(c) PROVE (Gone(b) /\ tx[b] # 0 => tx[b] # Mine(b).cur)'
  <2>1. CASE b = c
    BY <1>4, <2>1 DEF Calm, Gone, Outside
  <2> QED
    BY <1>3, <1>4, <2>1 DEF Calm, Others
<1>5. ASSUME NEW c \in Client, NEW i \in Ids, Starts(c, i) \/ Queued(c, i) PROVE (Gone(b) /\ tx[b] # 0 => tx[b] # Mine(b).cur)'
  <2>1. CASE b = c
    BY <1>5, <2>1 DEF Starts, Queued, Gone
  <2> QED
    BY <1>3, <1>5, <2>1 DEF Starts, Queued, Others
<1>6. ASSUME NEW c \in Client, NEW i \in Ids, SettlesIt(c, i) PROVE (Gone(b) /\ tx[b] # 0 => tx[b] # Mine(b).cur)'
  <2>1. CASE b = c /\ Gone(b)
    BY <1>2, <1>6, <2>1 DEF SettlesIt
  <2>2. CASE b = c /\ ~Gone(b)
    <3>1. Gone(b)' => db'[i].cur = 0
      BY <1>6, <2>2 DEF SettlesIt, Gone
    <3>2. handle'[b] = i
      BY <1>6, <2>2 DEF SettlesIt
    <3> QED
      BY <3>1, <3>2 DEF Mine
  <2> QED
    BY <1>3, <1>6, <2>1, <2>2 DEF SettlesIt, Others
<1>7. ASSUME NEW c \in Client, NEW i \in Ids, NEW o, RunsIt(c, i, o) PROVE (Gone(b) /\ tx[b] # 0 => tx[b] # Mine(b).cur)'
  <2>1. CASE b = c
    <3>1. Gone(b)' => db'[i].cur = 0
      BY <1>7, <2>1 DEF RunsIt, Gone
    <3>2. handle'[b] = i
      BY <1>7, <2>1 DEF RunsIt
    <3> QED
      BY <3>1, <3>2 DEF Mine
  <2> QED
    BY <1>3, <1>7, <2>1 DEF RunsIt, Others
<1>8. ASSUME NEW c \in Client, NEW i \in Ids, ReturnsIt(c, i) PROVE (Gone(b) /\ tx[b] # 0 => tx[b] # Mine(b).cur)'
  <2>1. CASE b = c
    BY <1>8, <2>1 DEF ReturnsIt, Gone, NoCall
  <2> QED
    BY <1>3, <1>8, <2>1 DEF ReturnsIt, Others
<1>9. ASSUME NEW i \in Ids, Clears(i) \/ Turns(i) PROVE (Gone(b) /\ tx[b] # 0 => tx[b] # Mine(b).cur)'
  <2>1. Rests(b) \/ call'[b] = NoCall
    BY <1>9 DEF Clears, Turns, Rests
  <2>2. call'[b] = NoCall => ~Gone(b)'
    BY DEF Gone, NoCall
  <2> QED
    BY <1>3, <2>1, <2>2
<1> QED
  BY <1>4, <1>5, <1>6, <1>7, <1>8, <1>9, AllSteps

LEMMA HasEndStep ==
  ASSUME Shape, Queues, HasEnd, Shape', Next
  PROVE  HasEnd'
<1>1. \A b \in Client : (Gone(b) /\ tx[b] # 0 => tx[b] # Mine(b).cur)'
  BY GoneStep
<1>2. ASSUME NEW j \in Ids', db'[j].cur # 0, ~orphaned' PROVE \E b \in Client : Ends(b, j)'
  <2>1. ASSUME j \in Ids, db'[j].cur = db[j].cur, ~orphaned PROVE \E b \in Client : Ends(b, j)
    BY <1>2, <2>1 DEF HasEnd
  <2>2. ASSUME NEW b \in Client, Ends(b, j), Rests(b), db'[j].cur = db[j].cur PROVE Ends(b, j)'
    BY <2>2 DEF Ends, Rests, Began
  <2>3. ASSUME NEW b \in Client, Ends(b, j), tx[b] = db[j].cur, tx'[b] = tx[b], handle'[b] = handle[b], db'[j].cur = db[j].cur PROVE Ends(b, j)'
    BY <2>3 DEF Ends
  <2>4. ASSUME NEW c \in Client, Calm(c) PROVE \E b \in Client : Ends(b, j)'
    <3>1. j \in Ids /\ db'[j].cur = db[j].cur /\ ~orphaned
      BY <1>2, <2>4 DEF Calm, Behind, SameIds
    <3>2. PICK b \in Client : Ends(b, j)
      BY <2>1, <3>1
    <3>3. CASE b = c
      <4>1. tx[b] = db[j].cur /\ tx'[b] = tx[b] /\ handle'[b] = handle[b]
        BY <1>2, <2>4, <3>1, <3>2, <3>3 DEF Calm, Ends, Began, Outside
      <4> QED
        BY <2>3, <3>1, <3>2, <4>1
    <3> QED
      BY <2>2, <2>4, <3>1, <3>2, <3>3 DEF Calm, Others
  <2>5. ASSUME NEW c \in Client, NEW i \in Ids, Starts(c, i) \/ Queued(c, i) PROVE \E b \in Client : Ends(b, j)'
    <3>1. j \in Ids /\ ~orphaned
      BY <1>2, <2>5 DEF Starts, Queued, OnlyDb
    <3>2. CASE j = i /\ Starts(c, i) /\ call[c].kind = "begin"
      BY <3>2 DEF Starts, Ends
    <3>3. CASE ~(j = i /\ Starts(c, i) /\ call[c].kind = "begin")
      <4>1. db'[j].cur = db[j].cur
        BY <2>5, <3>1, <3>3 DEF Starts, Queued, OnlyDb, SameIds
      <4>2. PICK b \in Client : Ends(b, j)
        BY <2>1, <3>1, <4>1
      <4>3. CASE b = c
        <5>1. tx[b] = db[j].cur /\ tx'[b] = tx[b] /\ handle'[b] = handle[b]
          BY <2>5, <4>2, <4>3 DEF Starts, Queued, Ends, Began
        <5> QED
          BY <2>3, <4>1, <4>2, <5>1
      <4> QED
        BY <2>2, <2>5, <4>1, <4>2, <4>3 DEF Starts, Queued, Others
    <3> QED
      BY <3>2, <3>3
  <2>6. ASSUME NEW c \in Client, NEW i \in Ids, SettlesIt(c, i) \/ \E o : RunsIt(c, i, o) PROVE \E b \in Client : Ends(b, j)'
    <3>1. j \in Ids /\ ~orphaned /\ db'[j].cur = db[j].cur
      BY <1>2, <2>6 DEF SettlesIt, RunsIt, OnlyDb
    <3>2. PICK b \in Client : Ends(b, j)
      BY <2>1, <3>1
    <3>3. CASE b = c
      <4>1. handle[c] = i /\ j = i
        BY <2>6, <3>2, <3>3 DEF SettlesIt, RunsIt, Ends
      <4>2. CASE SettlesIt(c, i)
        <5>1. ~(call[c].kind = "begin" /\ call[c].res # "ok")
          BY <1>2, <4>1, <4>2 DEF SettlesIt
        <5> QED
          BY <3>1, <3>2, <3>3, <4>2, <5>1 DEF SettlesIt, Ends, Began
      <4>3. ASSUME NEW o, RunsIt(c, i, o) PROVE Ends(b, j)'
        BY <3>1, <3>2, <3>3, <4>3 DEF RunsIt, Ends, Began
      <4> QED
        BY <2>6, <4>2, <4>3
    <3> QED
      BY <2>2, <2>6, <3>1, <3>2, <3>3 DEF SettlesIt, RunsIt, Others
  <2>7. ASSUME NEW c \in Client, NEW i \in Ids, ReturnsIt(c, i) PROVE \E b \in Client : Ends(b, j)'
    <3>1. j \in Ids /\ ~orphaned /\ db'[j].cur = db[j].cur
      BY <1>2, <2>7 DEF ReturnsIt, OnlyDb
    <3>2. PICK b \in Client : Ends(b, j)
      BY <2>1, <3>1
    <3>3. CASE b = c
      <4>1. handle[c] = i /\ j = i /\ Mine(c) = db[i] /\ ~RolledBack(c)
        BY <1>2, <2>7, <3>2, <3>3 DEF ReturnsIt, Ends, Mine
      <4>2. CASE Began(c)
        <5>1. TxAfter(c) = db[i].cur
          BY <4>1, <4>2 DEF TxAfter, Began
        <5> QED
          BY <2>7, <3>1, <3>3, <4>1, <5>1 DEF ReturnsIt, Ends
      <4>3. CASE ~Began(c)
        <5>1. tx[c] = db[i].cur /\ tx[c] # 0
          BY <1>2, <2>7, <3>1, <3>2, <3>3, <4>1, <4>3 DEF ReturnsIt, Ends
        <5>2. ~Gone(c)
          BY <4>1, <5>1 DEF HasEnd
        <5>3. TxAfter(c) = tx[c]
          BY <2>7, <4>1, <4>3, <5>2 DEF TxAfter, Gone, Began, ReturnsIt
        <5> QED
          BY <2>7, <3>1, <3>3, <4>1, <5>1, <5>3 DEF ReturnsIt, Ends
      <4> QED
        BY <4>2, <4>3
    <3> QED
      BY <2>2, <2>7, <3>1, <3>2, <3>3 DEF ReturnsIt, Others
  <2>8. ASSUME NEW i \in Ids, Clears(i) \/ Turns(i) PROVE \E b \in Client : Ends(b, j)'
    <3>1. j \in Ids /\ ~orphaned /\ db'[j].cur = db[j].cur
      BY <1>2, <2>8 DEF Clears, Turns, OnlyDb, SameIds
    <3>2. PICK b \in Client : Ends(b, j)
      BY <2>1, <3>1
    <3>3. Rests(b) \/ (phase[b] = "queued" /\ tx'[b] = tx[b] /\ handle'[b] = handle[b])
      BY <2>8 DEF Clears, Turns, Rests
    <3>4. CASE phase[b] = "queued" /\ tx'[b] = tx[b] /\ handle'[b] = handle[b]
      <4>1. tx[b] = db[j].cur
        BY <3>2, <3>4 DEF Ends, Began
      <4> QED
        BY <2>3, <3>1, <3>2, <3>4, <4>1
    <3> QED
      BY <2>2, <3>1, <3>2, <3>3, <3>4
  <2> QED
    BY <2>4, <2>5, <2>6, <2>7, <2>8, AllSteps
<1> QED
  BY <1>1, <1>2 DEF HasEnd

-----------------------------------------------------------------------------
(* Whoever is in a transaction has the database for itself.                *)

\* What is said of b and the database j stays as it is.
Keeps(b, j) ==
    \/ /\ handle[b] = j /\ handle'[b] = j
       /\ Strong(b)' <=> Strong(b)
       /\ Strong(b) => tx'[b] \in {tx[b], db[j].cur}
       /\ Weak(b)' => Weak(b) /\ phase'[b] = phase[b]
       /\ phase'[b] = "turn" => phase[b] = "turn"
       /\ Ended(b)' => Ended(b)
    \/ /\ handle[b] # j \/ ~Strong(b)
       /\ handle'[b] # j \/ (~Strong(b)' /\ ~Weak(b)' /\ ~Ended(b)' /\ phase'[b] # "turn")

LEMMA Still ==
  ASSUME NEW j, Orderly(j), \A b \in Client : Keeps(b, j),
         db'[j].cur = db[j].cur, db'[j].lock = db[j].lock,
         SameConnection(db[j], db'[j]) \/ (~db'[j].open /\ db'[j].owner = 0),
         db[j].owner \in Client \cup {0}
  PROVE  Orderly(j)'
<1>1. Owned(j)'
  <2>1. SUFFICES ASSUME db'[j].owner # 0 PROVE handle'[db'[j].owner] = j /\ Strong(db[j].owner)' /\ db'[j].owner = db[j].owner
    BY DEF Owned
  <2>2. db'[j].owner = db[j].owner /\ db[j].owner \in Client
    BY <2>1 DEF SameConnection
  <2>3. PICK b \in Client : b = db[j].owner
    BY <2>2
  <2>4. handle[b] = j /\ Strong(b)
    BY <2>1, <2>2, <2>3 DEF Orderly, Owned
  <2>5. handle'[b] = j /\ Strong(b)'
    BY <2>4 DEF Keeps
  <2> QED
    BY <2>2, <2>3, <2>5
<1>2. ASSUME NEW c \in Client, handle'[c] = j PROVE Alone(c)' /\ Latest(c)' /\ Committed(c)'
  <2>1. CASE ~Strong(c)' /\ ~Weak(c)' /\ ~Ended(c)'
    BY <2>1 DEF Alone, Latest, Committed
  <2>2. CASE Strong(c)' \/ Weak(c)' \/ Ended(c)'
    <3>1. /\ handle[c] = j
          /\ Strong(c)' <=> Strong(c)
          /\ Strong(c) => tx'[c] \in {tx[c], db[j].cur}
          /\ Weak(c)' => Weak(c) /\ phase'[c] = phase[c]
          /\ Ended(c)' => Ended(c)
      BY <1>2, <2>2 DEF Keeps
    <3>2. Mine(c) = db[j] /\ Mine(c)' = db'[j]
      BY <1>2, <3>1 DEF Mine
    <3>3. Alone(c) /\ Latest(c) /\ Committed(c)
      BY <3>1 DEF Orderly
    <3>4. Alone(c)'
      <4>1. SUFFICES ASSUME Strong(c)'
                     PROVE  /\ db'[j].cur # 0
                            /\ tx'[c] # 0 => tx'[c] = db'[j].cur
                            /\ \A b \in Client : handle'[b] = handle'[c] /\ (Strong(b)' \/ Weak(b)' \/ phase'[b] = "turn") => b = c
        BY <3>2 DEF Alone
      <4>2. /\ db[j].cur # 0
            /\ tx[c] # 0 => tx[c] = db[j].cur
            /\ \A b \in Client : handle[b] = j /\ (Strong(b) \/ Weak(b) \/ phase[b] = "turn") => b = c
        BY <3>1, <3>2, <3>3, <4>1 DEF Alone
      <4>3. ASSUME NEW b \in Client, handle'[b] = j, Strong(b)' \/ Weak(b)' \/ phase'[b] = "turn"
            PROVE  b = c
        <5>1. handle[b] = j /\ (Strong(b) \/ Weak(b) \/ phase[b] = "turn")
          BY <4>3 DEF Keeps
        <5> QED
          BY <4>2, <5>1
      <4> QED
        BY <1>2, <3>1, <4>1, <4>2, <4>3
    <3>5. Latest(c)'
      <4>1. SUFFICES ASSUME Weak(c)', db'[j].open
                     PROVE  /\ db'[j].cur # 0 /\ db'[j].owner = 0
                            /\ \A b \in Client : handle'[b] = j /\ Weak(b)' => b = c
                            /\ phase'[c] = "turn" => AtEnd(db'[j].lock, c)
                            /\ phase'[c] = "ran" => \A b \in Client : handle'[b] = j => phase'[b] # "turn"
        BY <1>2, <3>2 DEF Latest
      <4>2. Weak(c) /\ phase'[c] = phase[c] /\ db[j].open /\ db'[j].owner = db[j].owner
        BY <3>1, <4>1 DEF SameConnection
      <4>3. /\ db[j].cur # 0 /\ db[j].owner = 0
            /\ \A b \in Client : handle[b] = j /\ Weak(b) => b = c
            /\ phase[c] = "turn" => AtEnd(db[j].lock, c)
            /\ phase[c] = "ran" => \A b \in Client : handle[b] = j => phase[b] # "turn"
        BY <3>1, <3>2, <3>3, <4>2 DEF Latest
      <4>4. \A b \in Client : handle'[b] = j /\ Weak(b)' => handle[b] = j /\ Weak(b)
        BY DEF Keeps
      <4>5. \A b \in Client : handle'[b] = j /\ phase'[b] = "turn" => handle[b] = j /\ phase[b] = "turn"
        BY DEF Keeps
      <4> QED
        BY <4>2, <4>3, <4>4, <4>5
    <3>6. Committed(c)'
      BY <3>1, <3>2, <3>3 DEF Committed, SameConnection
    <3> QED
      BY <3>4, <3>5, <3>6
  <2> QED
    BY <2>1, <2>2
<1> QED
  BY <1>1, <1>2 DEF Orderly

\* Nobody is in a transaction any more.
LEMMA Empties ==
  ASSUME NEW j, db'[j].owner = 0,
         \A b \in Client : handle'[b] = j => ~Strong(b)' /\ (db'[j].open => ~Weak(b)')
  PROVE  Orderly(j)'
<1>1. Owned(j)'
  BY DEF Owned
<1>2. ASSUME NEW c \in Client, handle'[c] = j PROVE Alone(c)' /\ Latest(c)' /\ Committed(c)'
  <2>1. Mine(c)' = db'[j]
    BY <1>2 DEF Mine
  <2> QED
    BY <1>2, <2>1 DEF Alone, Latest, Committed
<1> QED
  BY <1>1, <1>2 DEF Orderly

\* What a database is to those who use it.
LEMMA OrderlyFacts ==
  ASSUME NEW i, Orderly(i), NEW c \in Client, handle[c] = i
  PROVE  /\ Strong(c) => /\ db[i].cur # 0 /\ (tx[c] # 0 => tx[c] = db[i].cur)
                         /\ \A b \in Client : handle[b] = i /\ (Strong(b) \/ Weak(b) \/ phase[b] = "turn") => b = c
         /\ Weak(c) /\ db[i].open =>
              /\ db[i].cur # 0 /\ db[i].owner = 0
              /\ \A b \in Client : handle[b] = i /\ Weak(b) => b = c
              /\ phase[c] = "turn" => AtEnd(db[i].lock, c)
              /\ phase[c] = "ran" => \A b \in Client : handle[b] = i => phase[b] # "turn"
         /\ Ended(c) => db[i].owner = 0
<1>1. Mine(c) = db[i] /\ Alone(c) /\ Latest(c) /\ Committed(c)
  BY DEF Orderly, Mine
<1> QED
  BY <1>1 DEF Alone, Latest, Committed

LEMMA EndedFacts ==
  ASSUME Shape, NEW c \in Client
  PROVE  /\ Ended(c) => Strong(c)
         /\ Weak(c) => ~Strong(c)
         /\ phase[c] = "turn" \/ call[c].res = "none" => ~Gone(c) /\ ~Began(c) /\ (Strong(c) <=> tx[c] # 0)
<1>1. CallOK(c) /\ (call[c].kind = "end" => tx[c] # 0) /\ (call[c].kind = "begin" => tx[c] = 0)
  BY HandleFacts
<1>2. Ended(c) => Strong(c)
  BY <1>1 DEF Ended, Strong, Gone
<1>3. Weak(c) => ~Strong(c)
  BY <1>1 DEF Weak, Strong, Began
<1>4. phase[c] = "turn" \/ call[c].res = "none" => ~Gone(c) /\ ~Began(c)
  BY <1>1 DEF CallOK, Gone, Began
<1> QED
  BY <1>2, <1>3, <1>4 DEF Strong

LEMMA RestsKeeps ==
  \A b, j : Rests(b) => Keeps(b, j)
<1> SUFFICES ASSUME NEW b, NEW j, Rests(b) PROVE Keeps(b, j)
  OBVIOUS
<1>1. (Strong(b)' <=> Strong(b)) /\ (Weak(b)' <=> Weak(b)) /\ (Ended(b)' <=> Ended(b))
  BY DEF Rests, Strong, Weak, Ended, Gone, Began
<1> QED
  BY <1>1 DEF Rests, Keeps

\* The databases that are not concerned by a step of c.
LEMMA Elsewhere ==
  ASSUME NEW c \in Client, NEW i \in Ids, NEW j \in Ids, j # i, Others(c), OnlyDb(i),
         handle[c] = i, handle'[c] = i, Orderly(j), db[j].owner \in Client \cup {0}
  PROVE  Orderly(j)'
<1>1. db'[j] = db[j]
  BY DEF OnlyDb
<1>2. \A b \in Client : Keeps(b, j)
  BY RestsKeeps DEF Others, Keeps
<1> QED
  BY <1>1, <1>2, Still DEF SameConnection

LEMMA CalmOrderly ==
  ASSUME Shape, Shape', Exclusive, ~robbed, NEW c \in Client, Calm(c), NEW j \in Ids'
  PROVE  Orderly(j)'
<1>1. (Strong(c) <=> tx[c] # 0) /\ (Strong(c)' <=> tx'[c] # 0)
  BY DEF Calm, Strong, Gone, Began, Outside
<1>2. ~Weak(c)' /\ ~Ended(c)' /\ phase'[c] # "turn"
  BY DEF Calm, Weak, Ended, Outside
<1>3. CASE j \in Ids
  <2>1. Keeps(c, j)
    BY <1>1, <1>2 DEF Calm, Keeps
  <2>2. \A b \in Client : Keeps(b, j)
    BY <2>1, RestsKeeps DEF Calm, Others
  <2>3. db[j].owner \in Client \cup {0}
    BY <1>3 DEF Shape, Types, DbType
  <2>4. db'[j].cur = db[j].cur /\ db'[j].lock = db[j].lock
    BY <1>3 DEF Calm, Behind, SameIds
  <2>5. SameConnection(db[j], db'[j]) \/ (~db'[j].open /\ db'[j].owner = 0)
    BY <1>3 DEF Calm
  <2>6. Orderly(j)
    BY <1>3 DEF Exclusive
  <2> QED
    BY <2>2, <2>3, <2>4, <2>5, <2>6, Still
<1>4. CASE j \notin Ids
  <2>1. db'[j].owner = 0
    BY <1>4 DEF Calm
  <2>2. ASSUME NEW b \in Client, handle'[b] = j PROVE ~Strong(b)' /\ ~Weak(b)'
    <3>1. b = c
      <4>1. CASE b # c
        <5>1. handle[b] = j
          BY <2>2, <4>1 DEF Calm, Others, Rests
        <5>2. handle[b] \in {0} \cup Ids /\ 0 \notin Ids'
          BY QueueTypes DEF Shape, Types
        <5> QED
          BY <1>4, <5>1, <5>2
      <4> QED
        BY <4>1
    <3>2. tx[c] = 0
      <4>1. CASE tx[c] # 0
        BY <1>4, <2>2, <3>1, <4>1, HandleFacts DEF Calm
      <4> QED
        BY <4>1
    <3> QED
      BY <1>1, <1>2, <3>1, <3>2 DEF Calm
  <2> QED
    BY <2>1, <2>2, Empties
<1> QED
  BY <1>3, <1>4

LEMMA StartsOrderly ==
  ASSUME Shape, NEW i \in Ids, Orderly(i), NEW c \in Client, Starts(c, i)
  PROVE  Orderly(i)'
<1>1. /\ handle[c] = i /\ handle'[c] = i /\ tx'[c] = tx[c] /\ tx[c] \in Nat
      /\ phase'[c] = "turn" /\ call[c].res = "none" /\ call'[c].res = "none" /\ call'[c].kind = call[c].kind
      /\ call[c].kind = "begin" => tx[c] = 0
  BY HandleFacts DEF Starts
<1>2. db[i].owner \in Client \cup {0} /\ db[i].last \in Nat
  BY DEF Shape, Types, DbType
<1>3. \A b \in Client \ {c} : /\ Rests(b)
                              /\ (Strong(b)' <=> Strong(b)) /\ (Weak(b)' <=> Weak(b)) /\ (Ended(b)' <=> Ended(b))
  BY DEF Starts, Others, Rests, Strong, Weak, Ended, Gone, Began
<1>4. /\ Strong(c) <=> tx[c] # 0
      /\ Strong(c)' <=> tx[c] # 0
      /\ Weak(c)' <=> call[c].kind = "begin"
      /\ ~Ended(c)'
  BY <1>1, EndedFacts DEF Strong, Weak, Ended, Gone, Began
<1>5. db'[i].owner = db[i].owner /\ db'[i].open = db[i].open
  BY DEF Starts, SameConnection
<1>6. CASE db[i].cur = 0
  <2>1. \A b \in Client : handle[b] = i => ~Strong(b) /\ (db[i].open => ~Weak(b))
    BY <1>6, OrderlyFacts
  <2>2. db'[i].owner = 0
    BY <1>2, <1>5, <2>1 DEF Orderly, Owned
  <2>3. tx[c] = 0
    BY <1>1, <1>4, <2>1
  <2>4. \A b \in Client : handle'[b] = i => ~Strong(b)' /\ (b # c /\ db'[i].open => ~Weak(b)')
    BY <1>3, <1>4, <1>5, <2>1, <2>3 DEF Rests
  <2>5. CASE call[c].kind # "begin"
    BY <1>4, <2>2, <2>4, <2>5, Empties
  <2>6. CASE call[c].kind = "begin"
    <3>1. Owned(i)'
      BY <2>2 DEF Owned
    <3>2. db'[i].cur # 0
      BY <1>2, <2>6 DEF Starts
    <3>3. AtEnd(db'[i].lock, c)
      <4>1. db[i].lock \in Seq(Entry) /\ db'[i].lock = Append(db[i].lock, c)
        BY QueueTypes DEF Starts
      <4> QED
        BY <4>1, Appended
    <3>4. ASSUME NEW b \in Client, handle'[b] = i PROVE Alone(b)' /\ Latest(b)' /\ Committed(b)'
      <4>1. Mine(b)' = db'[i]
        BY <3>4 DEF Mine
      <4>2. Alone(b)' /\ Committed(b)'
        BY <2>2, <2>4, <3>4, <4>1 DEF Alone, Committed
      <4>3. Latest(b)'
        <5>1. CASE b # c
          BY <2>4, <3>4, <4>1, <5>1 DEF Latest
        <5>2. CASE b = c
          BY <1>1, <2>2, <2>4, <3>2, <3>3, <3>4, <4>1, <5>2 DEF Latest
        <5> QED
          BY <5>1, <5>2
      <4> QED
        BY <4>2, <4>3
    <3> QED
      BY <3>1, <3>4 DEF Orderly
  <2> QED
    BY <2>5, <2>6
<1>7. CASE db[i].cur # 0
  <2>1. phase[c] # "queued" /\ db[i].cur = tx[c] /\ tx[c] # 0 /\ call[c].kind # "begin"
    BY <1>1, <1>7 DEF Starts
  <2>2. /\ Strong(c) /\ Strong(c)' /\ ~Weak(c)'
        /\ \A b \in Client : handle[b] = i /\ (Strong(b) \/ Weak(b) \/ phase[b] = "turn") => b = c
    BY <1>1, <1>4, <2>1, OrderlyFacts
  <2>3. db'[i].cur = db[i].cur
    BY <2>1 DEF Starts, SameIds
  <2>4. \A b \in Client : handle'[b] = i /\ (Strong(b)' \/ Weak(b)' \/ phase'[b] = "turn" \/ Ended(b)') => b = c
    BY <1>3, <2>2, EndedFacts DEF Rests
  <2>5. Owned(i)'
    <3>1. db[i].owner # 0 => handle[db[i].owner] = i /\ Strong(db[i].owner)
      BY DEF Orderly, Owned
    <3>2. db[i].owner # 0 => db[i].owner = c
      BY <1>2, <2>2, <3>1
    <3> QED
      BY <1>1, <1>5, <2>2, <3>2 DEF Owned
  <2>6. ASSUME NEW b \in Client, handle'[b] = i PROVE Alone(b)' /\ Latest(b)' /\ Committed(b)'
    <3>1. Mine(b)' = db'[i]
      BY <2>6 DEF Mine
    <3>2. CASE b # c
      BY <2>4, <2>6, <3>2 DEF Alone, Latest, Committed
    <3>3. CASE b = c
      BY <1>1, <1>4, <2>1, <2>2, <2>3, <2>4, <2>6, <3>1, <3>3 DEF Alone, Latest, Committed
    <3> QED
      BY <3>2, <3>3
  <2> QED
    BY <2>5, <2>6 DEF Orderly
<1> QED
  BY <1>6, <1>7

LEMMA RunsOrderly ==
  ASSUME Shape, Queues, NEW i \in Ids, Orderly(i), NEW c \in Client, NEW o, RunsIt(c, i, o), ~Robs(c, o)
  PROVE  Orderly(i)'
<1>1. /\ handle[c] = i /\ handle'[c] = i /\ tx'[c] = tx[c] /\ tx[c] \in Nat /\ Mine(c) = db[i]
      /\ phase[c] = "turn" /\ phase'[c] = "ran" /\ call[c].res = "none" /\ call'[c].res = o.res
      /\ call'[c].kind = call[c].kind
      /\ call[c].kind = "begin" => tx[c] = 0
      /\ call[c].via = "own" => tx[c] # 0
  BY HandleFacts DEF RunsIt, CallOK, Mine
<1>2. db[i].owner \in Client \cup {0} /\ DbOK(db[i]) /\ db'[i].open = db[i].open
  BY DEF Shape, Types, DbType, RunsIt
<1>3. \A b \in Client \ {c} : /\ Rests(b)
                              /\ (Strong(b)' <=> Strong(b)) /\ (Weak(b)' <=> Weak(b)) /\ (Ended(b)' <=> Ended(b))
  BY DEF RunsIt, Others, Rests, Strong, Weak, Ended, Gone, Began
<1>4. Strong(c) <=> tx[c] # 0
  BY <1>1, EndedFacts
\* Who is in a transaction is the one that runs.
<1>5. \A b \in Client : handle[b] = i /\ Strong(b) => b = c
  BY <1>1, OrderlyFacts
<1>6. \A b \in Client : handle'[b] = i /\ b # c => ~Strong(b)' /\ ~Ended(b)'
  BY <1>3, <1>5, EndedFacts DEF Rests
<1>7. CASE o.res = "told"
  <2>1. call[c].kind = "batch" /\ db'[i].owner = 0
    BY <1>7 DEF RunsIt
  <2>2. ~Strong(c)' /\ ~Weak(c)'
    BY <1>1, <1>7, <2>1 DEF Strong, Weak, Gone, Began
  <2>3. ASSUME NEW b \in Client, handle'[b] = i, b # c, db'[i].open PROVE ~Weak(b)'
    <3>1. Strong(c)
      BY <1>1, <1>2, <1>4, <1>7, <2>3 DEF Robs
    <3> QED
      BY <1>1, <1>3, <2>3, <3>1, OrderlyFacts DEF Rests
  <2> QED
    BY <1>6, <2>1, <2>2, <2>3, Empties
<1>8. CASE call[c].kind = "begin" /\ o.res = "ok"
  <2>1. db[i].open /\ db[i].owner = 0 /\ db'[i].owner = c /\ db'[i].cur = db[i].cur
    BY <1>8 DEF RunsIt
  <2>2. Weak(c)
    BY <1>1, <1>8 DEF Weak
  <2>3. /\ db[i].cur # 0 /\ AtEnd(db[i].lock, c)
        /\ \A b \in Client : handle[b] = i /\ Weak(b) => b = c
    BY <1>1, <2>1, <2>2, OrderlyFacts
  <2>4. \A b \in Client : handle[b] = i /\ phase[b] = "turn" => b = c
    <3>1. /\ db[i].lock \in Seq(Entry) /\ db[i].lock # <<>> /\ Head(db[i].lock) = c /\ Distinct(db[i].lock)
          /\ \A b \in Client : handle[b] = i /\ phase[b] = "turn" => In(b, db[i].lock)
      BY QueueTypes DEF RunsIt, Queues, LockOK
    <3> QED
      BY <2>3, <3>1, Tailed
  <2>5. Strong(c)' /\ ~Weak(c)' /\ ~Ended(c)'
    BY <1>1, <1>8 DEF Strong, Weak, Began, Ended
  <2>6. \A b \in Client : handle'[b] = i /\ (Strong(b)' \/ Weak(b)' \/ phase'[b] = "turn" \/ Ended(b)') => b = c
    BY <1>3, <1>6, <2>3, <2>4 DEF Rests
  <2>7. Owned(i)'
    BY <1>1, <2>1, <2>5 DEF Owned
  <2>8. ASSUME NEW b \in Client, handle'[b] = i PROVE Alone(b)' /\ Latest(b)' /\ Committed(b)'
    <3>1. Mine(b)' = db'[i]
      BY <2>8 DEF Mine
    <3>2. CASE b # c
      BY <2>6, <2>8, <3>2 DEF Alone, Latest, Committed
    <3>3. CASE b = c
      <4>1. tx'[c] = 0
        BY <1>1, <1>8
      <4> QED
        BY <1>1, <2>1, <2>3, <2>5, <2>6, <2>8, <3>1, <3>3, <4>1 DEF Alone, Latest, Committed
    <3> QED
      BY <3>2, <3>3
  <2> QED
    BY <2>7, <2>8 DEF Orderly
<1>9. CASE call[c].kind = "begin" /\ o.res # "ok"
  <2>1. db'[i].cur = db[i].cur /\ db'[i].owner \in {0, db[i].owner}
    BY <1>9 DEF RunsIt
  <2>2. Weak(c) /\ ~Strong(c)
    BY <1>1, <1>4, <1>9 DEF Weak
  <2>3. ~Strong(c)' /\ ~Ended(c)'
    BY <1>1, <1>9 DEF Strong, Began, Ended
  <2>4. db'[i].owner = 0
    BY <1>1, <1>2, <2>1, <2>2, OrderlyFacts DEF DbOK
  <2>5. CASE ~db'[i].open
    BY <1>6, <2>3, <2>4, <2>5, Empties
  <2>6. CASE db'[i].open
    <3>1. /\ db[i].cur # 0 /\ AtEnd(db[i].lock, c)
          /\ \A b \in Client : handle[b] = i /\ Weak(b) => b = c
      BY <1>1, <1>2, <2>2, <2>6, OrderlyFacts, ZenonT(60)
    <3>2. \A b \in Client : handle[b] = i /\ phase[b] = "turn" => b = c
      <4>1. /\ db[i].lock \in Seq(Entry) /\ db[i].lock # <<>> /\ Head(db[i].lock) = c /\ Distinct(db[i].lock)
            /\ \A b \in Client : handle[b] = i /\ phase[b] = "turn" => In(b, db[i].lock)
        BY QueueTypes DEF RunsIt, Queues, LockOK
      <4> QED
        BY <3>1, <4>1, Tailed
    <3>3. \A b \in Client : handle'[b] = i => /\ ~Strong(b)' /\ ~Ended(b)' /\ phase'[b] # "turn"
                                              /\ Weak(b)' => b = c
      BY <1>1, <1>3, <1>6, <2>3, <3>1, <3>2 DEF Rests
    <3>4. Owned(i)'
      BY <2>4 DEF Owned
    <3>5. ASSUME NEW b \in Client, handle'[b] = i PROVE Alone(b)' /\ Latest(b)' /\ Committed(b)'
      <4>1. Mine(b)' = db'[i]
        BY <3>5 DEF Mine
      <4> QED
        BY <2>1, <2>4, <3>1, <3>3, <3>5, <4>1 DEF Alone, Latest, Committed
    <3> QED
      BY <3>4, <3>5 DEF Orderly
  <2> QED
    BY <2>5, <2>6
<1>10. CASE call[c].kind # "begin" /\ o.res # "told"
  <2>1. db'[i].cur = db[i].cur /\ db'[i].owner \in {0, db[i].owner} /\ db'[i].lock = Tail(db[i].lock)
    BY <1>10 DEF RunsIt
  <2>2. (Strong(c)' <=> tx[c] # 0) /\ ~Weak(c)'
    BY <1>1, <1>10 DEF Strong, Weak, Gone, Began
  <2>3. Ended(c)' => db'[i].owner = 0
    BY <1>1 DEF Ended, RunsIt
  <2>4. Owned(i)'
    <3>1. db[i].owner # 0 => handle[db[i].owner] = i /\ Strong(db[i].owner)
      BY DEF Orderly, Owned
    <3>2. db[i].owner # 0 => db[i].owner = c
      BY <1>2, <1>5, <3>1
    <3>3. db[i].owner # 0 => Strong(c)
      BY <3>1, <3>2
    <3> QED
      BY <1>1, <1>4, <2>1, <2>2, <3>2, <3>3 DEF Owned
  <2>5. ASSUME NEW b \in Client, handle'[b] = i PROVE Alone(b)' /\ Latest(b)' /\ Committed(b)'
    <3>1. Mine(b)' = db'[i]
      BY <2>5 DEF Mine
    <3>2. CASE b = c
      <4>1. Latest(c)' /\ Committed(c)'
        BY <2>2, <2>3, <3>1, <3>2 DEF Latest, Committed
      <4>2. Alone(c)'
        <5>1. CASE ~Strong(c)'
          BY <5>1 DEF Alone
        <5>2. CASE Strong(c)'
          <6>1. /\ db[i].cur # 0 /\ (tx[c] # 0 => tx[c] = db[i].cur)
                /\ \A a \in Client : handle[a] = i /\ (Strong(a) \/ Weak(a) \/ phase[a] = "turn") => a = c
            BY <1>1, <1>4, <2>2, <5>2, OrderlyFacts
          <6>2. \A a \in Client : handle'[a] = i /\ (Strong(a)' \/ Weak(a)' \/ phase'[a] = "turn") => a = c
            BY <1>3, <6>1 DEF Rests
          <6> QED
            BY <1>1, <2>1, <3>1, <3>2, <6>1, <6>2 DEF Alone
        <5> QED
          BY <5>1, <5>2
      <4> QED
        BY <3>2, <4>1, <4>2
    <3>3. CASE b # c
      <4>1. ~Strong(b)' /\ ~Ended(b)' /\ handle[b] = i /\ phase'[b] = phase[b]
        BY <1>3, <1>6, <2>5, <3>3 DEF Rests
      <4>2. Latest(b)'
        <5>1. SUFFICES ASSUME Weak(b)', db'[i].open
                       PROVE  /\ db'[i].cur # 0 /\ db'[i].owner = 0
                              /\ \A a \in Client : handle'[a] = i /\ Weak(a)' => a = b
                              /\ phase'[b] = "turn" => AtEnd(db'[i].lock, b)
                              /\ phase'[b] = "ran" => \A a \in Client : handle'[a] = i => phase'[a] # "turn"
          BY <2>5, <3>1 DEF Latest
        <5>2. /\ db[i].cur # 0 /\ db[i].owner = 0
              /\ \A a \in Client : handle[a] = i /\ Weak(a) => a = b
              /\ phase[b] = "turn" => AtEnd(db[i].lock, b)
              /\ phase[b] = "ran" => \A a \in Client : handle[a] = i => phase[a] # "turn"
          BY <1>2, <1>3, <3>3, <4>1, <5>1, OrderlyFacts
        <5>3. \A a \in Client : handle'[a] = i /\ Weak(a)' => a = b
          BY <1>3, <2>2, <5>2 DEF Rests
        <5>4. phase'[b] = "turn" => AtEnd(db'[i].lock, b)
          <6>1. db[i].lock \in Seq(Entry) /\ db[i].lock # <<>> /\ Head(db[i].lock) = c
            BY QueueTypes DEF RunsIt
          <6> QED
            BY <2>1, <3>3, <4>1, <5>2, <6>1, Tailed
        <5>5. phase'[b] # "ran"
          BY <1>1, <4>1, <5>2
        <5> QED
          BY <2>1, <5>2, <5>3, <5>4, <5>5
      <4> QED
        BY <4>1, <4>2 DEF Alone, Committed
    <3> QED
      BY <3>2, <3>3
  <2> QED
    BY <2>4, <2>5 DEF Orderly
<1> QED
  BY <1>7, <1>8, <1>9, <1>10

LEMMA QueuedOrderly ==
  ASSUME Shape, NEW i \in Ids, Orderly(i), NEW c \in Client, Queued(c, i)
  PROVE  Orderly(i)'
<1>1. Keeps(c, i)
  <2>1. (Strong(c) <=> tx[c] # 0) /\ (Strong(c)' <=> tx[c] # 0)
    BY DEF Queued, Strong, Gone, Began
  <2>2. ~Weak(c)' /\ ~Ended(c)' /\ phase'[c] # "turn"
    BY DEF Queued, Weak, Ended
  <2> QED
    BY <2>1, <2>2 DEF Queued, Keeps
<1>2. \A b \in Client : Keeps(b, i)
  BY <1>1, RestsKeeps DEF Queued, Others
<1>3. db[i].owner \in Client \cup {0}
  BY DEF Shape, Types, DbType
<1> QED
  BY <1>2, <1>3, Still DEF Queued, SameIds

LEMMA SettlesOrderly ==
  ASSUME Shape, NEW i \in Ids, Orderly(i), NEW c \in Client, SettlesIt(c, i)
  PROVE  Orderly(i)'
<1>1. /\ handle[c] = i /\ handle'[c] = i /\ tx'[c] = tx[c] /\ call'[c] = call[c]
      /\ phase[c] = "ran" /\ phase'[c] = "settled"
      /\ call[c].kind = "begin" => tx[c] = 0
      /\ db'[i].open = db[i].open /\ db'[i].owner = db[i].owner
  BY HandleFacts DEF SettlesIt, SameConnection
<1>2. db[i].owner \in Client \cup {0} /\ DbOK(db[i])
  BY DEF Shape, Types, DbType
<1>3. \A b \in Client \ {c} : Rests(b) /\ (Strong(b)' <=> Strong(b)) /\ (Weak(b)' <=> Weak(b))
  BY DEF SettlesIt, Others, Rests, Strong, Weak, Gone, Began
<1>4. ~Weak(c)' /\ ~Ended(c)'
  BY <1>1 DEF Weak, Ended
<1>5. CASE call[c].kind = "begin" /\ call[c].res # "ok"
  <2>1. Weak(c)
    BY <1>1, <1>5 DEF Weak
  <2>2. ~Strong(c)'
    BY <1>1, <1>5 DEF Strong, Began
  <2>3. db[i].owner = 0
    BY <1>1, <1>2, <2>1, OrderlyFacts DEF DbOK
  <2>4. \A b \in Client : handle[b] = i /\ Strong(b) => b = c
    BY <1>1, <2>1, OrderlyFacts
  <2>5. \A b \in Client : handle[b] = i /\ Weak(b) /\ db[i].open => b = c
    BY <1>1, <2>1, OrderlyFacts
  <2> QED
    BY <1>1, <1>3, <1>4, <2>2, <2>3, <2>4, <2>5, Empties DEF Rests
<1>6. CASE call[c].kind = "end" /\ call[c].res = "ok"
  <2>1. Ended(c) /\ Strong(c)
    BY <1>1, <1>6, EndedFacts DEF Ended
  <2>2. ~Strong(c)'
    BY <1>1, <1>6 DEF Strong, Began, Gone
  <2>3. /\ db[i].owner = 0
        /\ \A b \in Client : handle[b] = i /\ (Strong(b) \/ Weak(b)) => b = c
    BY <1>1, <2>1, OrderlyFacts
  <2> QED
    BY <1>1, <1>3, <1>4, <2>2, <2>3, Empties DEF Rests
<1>7. CASE ~(call[c].kind = "begin" /\ call[c].res # "ok") /\ ~(call[c].kind = "end" /\ call[c].res = "ok")
  <2>1. Strong(c)' <=> Strong(c)
    BY <1>1, <1>7 DEF Strong, Gone, Began
  <2>2. Keeps(c, i)
    BY <1>1, <1>4, <2>1 DEF Keeps
  <2>3. \A b \in Client : Keeps(b, i)
    BY <2>2, RestsKeeps DEF SettlesIt, Others
  <2>4. db'[i].cur = db[i].cur /\ db'[i].lock = db[i].lock /\ SameConnection(db[i], db'[i])
    BY <1>7 DEF SettlesIt
  <2> QED
    BY <1>2, <2>3, <2>4, Still
<1> QED
  BY <1>5, <1>6, <1>7

LEMMA ReturnsOrderly ==
  ASSUME Shape, NEW i \in Ids, Orderly(i), NEW c \in Client, ReturnsIt(c, i)
  PROVE  Orderly(i)'
<1>1. /\ handle[c] = i /\ handle'[c] = i /\ tx'[c] = TxAfter(c) /\ call'[c] = NoCall /\ Mine(c) = db[i]
      /\ phase[c] = "settled" /\ phase'[c] = "idle"
      /\ call[c].kind = "begin" => tx[c] = 0
      /\ call[c].via = "own" => tx[c] # 0
      /\ call[c].res = "told" => call[c].kind = "batch"
      /\ db'[i].open = db[i].open /\ db'[i].owner = db[i].owner
  BY HandleFacts DEF ReturnsIt, SameConnection, Mine, CallOK
<1>2. db[i].owner \in Client \cup {0}
  BY DEF Shape, Types, DbType
<1>3. \A b \in Client \ {c} : Rests(b) /\ (Strong(b)' <=> Strong(b)) /\ (Weak(b)' <=> Weak(b))
  BY DEF ReturnsIt, Others, Rests, Strong, Weak, Gone, Began
<1>4. ~Weak(c)' /\ ~Ended(c)' /\ (Strong(c)' <=> tx'[c] # 0)
  BY <1>1 DEF Weak, Ended, Strong, Gone, Began, NoCall
<1>5. CASE RolledBack(c)
  <2>1. call[c].via = "own" /\ call[c].res = "error" /\ db[i].owner = 0
    BY <1>1, <1>5 DEF RolledBack
  <2>2. Strong(c)
    BY <1>1, <2>1 DEF Strong, Gone
  <2>3. tx'[c] = 0
    BY <1>1, <1>5, <2>1 DEF TxAfter
  <2>4. \A b \in Client : handle[b] = i /\ (Strong(b) \/ Weak(b)) => b = c
    BY <1>1, <2>2, OrderlyFacts
  <2> QED
    BY <1>1, <1>3, <1>4, <2>1, <2>3, <2>4, Empties DEF Rests
<1>6. CASE ~RolledBack(c)
  <2>1. (Strong(c)' <=> Strong(c)) /\ (Strong(c) => tx'[c] \in {tx[c], db[i].cur})
    <3>1. CASE Began(c)
      <4>1. Strong(c) /\ tx'[c] = db[i].cur
        <5>1. Strong(c)
          BY <3>1 DEF Strong
        <5>2. TxAfter(c) = Mine(c).cur
          BY <1>6, <3>1 DEF Began, TxAfter
        <5> QED
          BY <1>1, <5>1, <5>2
      <4>2. db[i].cur # 0
        BY <1>1, <4>1, OrderlyFacts
      <4> QED
        BY <1>4, <4>1, <4>2
    <3>2. CASE ~Began(c) /\ Gone(c)
      <4>1. ~Strong(c)
        BY <3>2 DEF Strong
      <4>2. tx'[c] = 0
        BY <1>1, <3>2 DEF Gone, TxAfter
      <4> QED
        BY <1>4, <4>1, <4>2
    <3>3. CASE ~Began(c) /\ ~Gone(c)
      <4>1. Strong(c) <=> tx[c] # 0
        BY <3>3 DEF Strong
      <4>2. tx'[c] = tx[c]
        BY <1>1, <1>6, <3>3 DEF Gone, Began, TxAfter
      <4> QED
        BY <1>4, <4>1, <4>2
    <3> QED
      BY <3>1, <3>2, <3>3
  <2>2. Keeps(c, i)
    BY <1>1, <1>4, <2>1 DEF Keeps
  <2>3. \A b \in Client : Keeps(b, i)
    BY <2>2, RestsKeeps DEF ReturnsIt, Others
  <2>4. db'[i].cur = db[i].cur /\ db'[i].lock = db[i].lock /\ SameConnection(db[i], db'[i])
    BY <1>6 DEF ReturnsIt
  <2> QED
    BY <1>2, <2>3, <2>4, Still
<1> QED
  BY <1>5, <1>6

LEMMA QueueOrderly ==
  ASSUME Shape, NEW i \in Ids, Clears(i) \/ Turns(i), NEW j \in Ids, Orderly(j)
  PROVE  Orderly(j)'
<1>1. ASSUME NEW b \in Client PROVE Keeps(b, j)
  <2>1. CASE Rests(b)
    BY <2>1, RestsKeeps
  <2>2. CASE ~Rests(b)
    <3>1. phase[b] = "queued" /\ phase'[b] = "idle" /\ call'[b] = NoCall /\ handle'[b] = handle[b] /\ tx'[b] = tx[b]
      BY <2>2 DEF Clears, Turns, Rests
    <3>2. call[b].res = "none"
      BY <3>1, HandleFacts DEF CallOK
    <3>3. (Strong(b) <=> tx[b] # 0) /\ (Strong(b)' <=> tx[b] # 0) /\ ~Weak(b)' /\ ~Ended(b)'
      BY <3>1, <3>2 DEF Strong, Weak, Ended, Gone, Began, NoCall
    <3> QED
      BY <3>1, <3>3 DEF Keeps
  <2> QED
    BY <2>1, <2>2
<1>2. db[j].owner \in Client \cup {0}
  BY DEF Shape, Types, DbType
<1>3. db'[j].cur = db[j].cur /\ db'[j].lock = db[j].lock /\ SameConnection(db[j], db'[j])
  BY DEF Clears, Turns, OnlyDb, SameIds, SameConnection
<1> QED
  BY <1>1, <1>2, <1>3, Still

LEMMA ExclusiveStep ==
  ASSUME Shape, Queues, Exclusive, Shape', Next
  PROVE  Exclusive'
<1>1. SUFFICES ASSUME ~robbed', NEW j \in Ids' PROVE Orderly(j)'
  BY DEF Exclusive
<1>2. \A k \in Ids : db[k].owner \in Client \cup {0}
  BY DEF Shape, Types, DbType
<1>3. ~robbed => \A k \in Ids : Orderly(k)
  BY DEF Exclusive
<1>4. ASSUME NEW c \in Client, Calm(c) PROVE Orderly(j)'
  <2>1. ~robbed
    BY <1>1, <1>4 DEF Calm
  <2> QED
    BY <1>4, <2>1, CalmOrderly
<1>5. ASSUME NEW c \in Client, NEW i \in Ids,
             \/ Starts(c, i) \/ Queued(c, i) \/ SettlesIt(c, i) \/ ReturnsIt(c, i)
             \/ \E o : RunsIt(c, i, o)
      PROVE  Orderly(j)'
  <2>1. ~robbed /\ Others(c) /\ OnlyDb(i) /\ handle[c] = i /\ handle'[c] = i
    <3>1. CASE Starts(c, i) \/ Queued(c, i)
      BY <1>1, <3>1 DEF Starts, Queued
    <3>2. CASE SettlesIt(c, i) \/ ReturnsIt(c, i)
      BY <1>1, <3>2 DEF SettlesIt, ReturnsIt
    <3>3. ASSUME NEW o, RunsIt(c, i, o) PROVE ~robbed /\ Others(c) /\ OnlyDb(i) /\ handle[c] = i /\ handle'[c] = i
      BY <1>1, <3>3 DEF RunsIt
    <3> QED
      BY <1>5, <3>1, <3>2, <3>3
  <2>2. j \in Ids
    BY <2>1 DEF OnlyDb
  <2>3. Orderly(i) /\ Orderly(j)
    BY <1>3, <2>1, <2>2
  <2>4. CASE j # i
    BY <1>2, <2>1, <2>2, <2>3, <2>4, Elsewhere
  <2>5. ASSUME NEW o, RunsIt(c, i, o) PROVE Orderly(i)'
    <3>1. ~Robs(c, o)
      BY <1>1, <2>5 DEF RunsIt
    <3> QED
      BY <2>3, <2>5, <3>1, RunsOrderly
  <2>6. CASE j = i
    BY <1>5, <2>3, <2>5, <2>6, StartsOrderly, QueuedOrderly, SettlesOrderly, ReturnsOrderly
  <2> QED
    BY <2>4, <2>6
<1>6. ASSUME NEW i \in Ids, Clears(i) \/ Turns(i) PROVE Orderly(j)'
  <2>1. ~robbed /\ j \in Ids
    BY <1>1, <1>6 DEF Clears, Turns, OnlyDb
  <2> QED
    BY <1>3, <1>6, <2>1, QueueOrderly
<1> QED
  BY <1>4, <1>5, <1>6, AllSteps

-----------------------------------------------------------------------------
(* The theorems.                                                           *)

LEMMA InitInv ==
  ASSUME Init
  PROVE  WebInv
<1>1. PICK start \in Start :
         /\ left = start.left
         /\ IF start.open
            THEN db = <<Database(1)>> /\ single = 1 /\ files = 1 /\ systems = 1
            ELSE db = <<>> /\ single = 0 /\ files = 0 /\ systems = 0
  BY DEF Init
<1>2. left \in LeftType
  BY <1>1, StartAssumption DEF LeftType
<1>3. /\ globals = <<>>
      /\ phase = [c \in Client |-> "idle"] /\ call = [c \in Client |-> NoCall]
      /\ handle = [c \in Client |-> single] /\ tx = [c \in Client |-> 0]
      /\ ~raced /\ raced \in BOOLEAN /\ reclosed \in BOOLEAN /\ orphaned \in BOOLEAN /\ robbed \in BOOLEAN
  BY DEF Init
<1>4. /\ Ids = 1 .. files /\ files \in {0, 1} /\ systems = files /\ single = files
      /\ db = [i \in Ids |-> db[i]]
      /\ \A i \in Ids : /\ i = single
                        /\ db[i] \in DbType /\ DbOK(db[i])
                        /\ db[i].cur = 0 /\ db[i].owner = 0 /\ db[i].waiting = <<>> /\ db[i].lock = <<>>
                        /\ db[i].open /\ db[i].files = files
  <2>1. CASE start.open
    <3>1. db = <<Database(1)>> /\ single = 1 /\ files = 1 /\ systems = 1
      BY <1>1, <2>1
    <3>2. Ids = 1 .. 1 /\ db[1] = Database(1) /\ db = [i \in 1 .. 1 |-> db[i]]
      BY <3>1 DEF Ids
    <3>3. \A i \in 1 .. 1 : i = 1
      OBVIOUS
    <3>4. LET d == Database(1)
          IN /\ d \in DbType /\ DbOK(d) /\ d.cur = 0 /\ d.owner = 0 /\ d.waiting = <<>> /\ d.lock = <<>>
             /\ d.open /\ d.files = 1
      BY <3>1, NewFacts
    <3> QED
      BY <3>1, <3>2, <3>3, <3>4
  <2>2. CASE ~start.open
    <3>1. db = <<>> /\ single = 0 /\ files = 0 /\ systems = 0
      BY <1>1, <2>2
    <3>2. Ids = {} /\ 1 .. 0 = {} /\ db = [i \in {} |-> db[i]]
      BY <3>1 DEF Ids
    <3> QED
      BY <3>1, <3>2
  <2> QED
    BY <2>1, <2>2
<1>5. NoCall \in CallType /\ NoCall.kind = "none" /\ NoCall.via = "none" /\ NoCall.res = "none"
  BY DEF NoCall, CallType, Kinds, Results
<1>6. \A c \in Client : phase[c] = "idle" /\ call[c] = NoCall /\ handle[c] = single /\ tx[c] = 0
  BY <1>3
<1>7. single \in {0} \cup Ids
  BY <1>4
<1>8. Types
  <2>1. \E n \in Nat : Ids = 1 .. n
    BY <1>4
  <2>2. files \in Nat /\ systems \in Nat /\ globals \in Seq(Client)
    BY <1>3, <1>4
  <2>3. phase \in [Client -> Phases] /\ call \in [Client -> CallType] /\ handle \in [Client -> {0} \cup Ids] /\ tx \in [Client -> Nat]
    BY <1>3, <1>5, <1>7 DEF Phases
  <2> QED
    BY <1>2, <1>3, <1>4, <1>7, <2>1, <2>2, <2>3 DEF Types
<1>9. Shape
  <2>1. ASSUME NEW c \in Client PROVE CallOK(c) /\ HandleOK(c)
    <3>1. handle[c] # 0 => Mine(c).last \in Nat
      BY <1>4, <1>6, <1>7 DEF Mine, DbType
    <3>2. handle[c] # 0 => tx[c] <= Mine(c).last
      BY <1>6, <3>1
    <3> QED
      BY <1>5, <1>6, <3>2 DEF CallOK, HandleOK, Working, Statements, Globals
  <2> QED
    BY <1>4, <1>8, <2>1 DEF Shape
<1>10. Queues
  <2>1. \A b : ~In(b, <<>>)
    BY DEF In
  <2>2. Distinct(<<>>)
    BY DEF Distinct
  <2>3. \A c \in Client : ~Drained(c)
    BY <1>6 DEF Drained, Working
  <2>4. \A i \in Ids : LockOK(i) /\ WaitingOK(i)
    BY <1>4, <1>6, <2>1, <2>2, <2>3 DEF LockOK, WaitingOK
  <2>5. GlobalsOK
    BY <1>3, <1>6, <2>1, <2>2 DEF GlobalsOK
  <2> QED
    BY <2>3, <2>4, <2>5 DEF Queues, DrainOK
<1>11. Made
  <2>1. files = 0 => Ids = {}
    BY <1>4
  <2> QED
    BY <1>6, <2>1 DEF Made
<1>12. OneDatabase
  BY <1>4, <1>7 DEF OneDatabase, OneInstance, OneFileSystem
<1>13. HasEnd
  BY <1>4, <1>6 DEF HasEnd
<1>14. Exclusive
  <2>1. ASSUME NEW i \in Ids PROVE Orderly(i)
    <3>1. \A c \in Client : ~Strong(c) /\ ~Weak(c) /\ ~Ended(c)
      BY <1>5, <1>6 DEF Strong, Weak, Ended, Gone, Began
    <3> QED
      BY <1>4, <3>1 DEF Orderly, Owned, Alone, Latest, Committed
  <2> QED
    BY <2>1 DEF Exclusive
<1> QED
  BY <1>9, <1>10, <1>11, <1>12, <1>13, <1>14 DEF WebInv

LEMMA StutterInv ==
  ASSUME WebInv, UNCHANGED vars
  PROVE  WebInv'
<1>1. /\ db' = db /\ single' = single /\ globals' = globals /\ files' = files /\ systems' = systems
      /\ phase' = phase /\ call' = call /\ handle' = handle /\ tx' = tx /\ left' = left
      /\ raced' = raced /\ reclosed' = reclosed /\ orphaned' = orphaned /\ robbed' = robbed
  BY DEF vars, sched_vars, client_vars, history
<1>2. Ids' = Ids
  BY <1>1 DEF Ids
<1>3. \A c \in Client : Mine(c)' = Mine(c)
  BY <1>1 DEF Mine
<1>4. \A c \in Client : /\ (Strong(c)' <=> Strong(c)) /\ (Weak(c)' <=> Weak(c)) /\ (Ended(c)' <=> Ended(c))
                        /\ (Gone(c)' <=> Gone(c)) /\ (Began(c)' <=> Began(c)) /\ (Drained(c)' <=> Drained(c))
  BY <1>1 DEF Strong, Weak, Ended, Gone, Began, Drained
<1>5. Shape'
  <2>1. Types'
    BY <1>1, <1>2 DEF WebInv, Shape, Types
  <2>2. \A c \in Client : CallOK(c)' /\ HandleOK(c)'
    BY <1>1, <1>3 DEF WebInv, Shape, CallOK, HandleOK
  <2>3. \A i \in Ids' : DbOK(db'[i])
    BY <1>1, <1>2 DEF WebInv, Shape
  <2> QED
    BY <2>1, <2>2, <2>3 DEF Shape
<1>6. Queues'
  <2>1. \A i \in Ids' : LockOK(i)' /\ WaitingOK(i)'
    BY <1>1, <1>2, <1>4 DEF WebInv, Queues, LockOK, WaitingOK
  <2>2. \A c \in Client : DrainOK(c)'
    BY <1>3, <1>4 DEF WebInv, Queues, DrainOK
  <2>3. GlobalsOK'
    BY <1>1 DEF WebInv, Queues, GlobalsOK
  <2> QED
    BY <2>1, <2>2, <2>3 DEF Queues
<1>7. Made'
  BY <1>1, <1>2 DEF WebInv, Made
<1>8. OneDatabase'
  BY <1>1, <1>2 DEF WebInv, OneDatabase, OneInstance, OneFileSystem
<1>9. HasEnd'
  <2>1. \A c \in Client, i \in Ids : Ends(c, i)' <=> Ends(c, i)
    BY <1>1, <1>4 DEF Ends
  <2> QED
    BY <1>1, <1>2, <1>3, <1>4, <2>1 DEF WebInv, HasEnd
<1>10. Exclusive'
  <2>1. SUFFICES ASSUME ~robbed', NEW i \in Ids' PROVE Orderly(i)'
    BY DEF Exclusive
  <2>2. Orderly(i) /\ i \in Ids
    BY <1>1, <1>2, <2>1 DEF WebInv, Exclusive
  <2>3. \A c \in Client : (Alone(c)' <=> Alone(c)) /\ (Latest(c)' <=> Latest(c)) /\ (Committed(c)' <=> Committed(c))
    BY <1>1, <1>3, <1>4 DEF Alone, Latest, Committed
  <2>4. Owned(i)'
    <3>1. db[i].owner \in Client \cup {0}
      BY <2>2 DEF WebInv, Shape, Types, DbType
    <3> QED
      BY <1>1, <1>4, <2>2, <3>1 DEF Orderly, Owned
  <2> QED
    BY <1>1, <2>2, <2>3, <2>4 DEF Orderly
<1> QED
  BY <1>5, <1>6, <1>7, <1>8, <1>9, <1>10 DEF WebInv

LEMMA NextInv ==
  ASSUME WebInv, Next
  PROVE  WebInv'
<1>1. Shape /\ Queues /\ Made /\ OneInstance /\ OneFileSystem /\ HasEnd /\ Exclusive
  BY DEF WebInv, OneDatabase
<1>2. Shape'
  BY <1>1, ShapeStep
<1>3. Queues' /\ Made' /\ OneInstance' /\ OneFileSystem' /\ HasEnd' /\ Exclusive'
  BY <1>1, <1>2, QueuesStep, MadeStep, OneInstanceStep, OneFileSystemStep, HasEndStep, ExclusiveStep
<1> QED
  BY <1>2, <1>3 DEF WebInv, OneDatabase

LEMMA InvCorrect == Spec => []WebInv
<1>1. Init => WebInv
  BY InitInv
<1>2. WebInv /\ [Next]_vars => WebInv'
  BY NextInv, StutterInv
<1> QED
  BY <1>1, <1>2, PTL DEF Spec

LEMMA InvAgreed ==
  ASSUME WebInv
  PROVE  Agreed
<1>1. Shape /\ Queues /\ HasEnd /\ Exclusive /\ Types
  BY DEF WebInv, Shape
<1>2. TypeOK
  <2>1. phase \in [Client -> Phases] /\ single \in {0} \cup Ids /\ handle \in [Client -> {0} \cup Ids]
    BY <1>1 DEF Types
  <2>2. ASSUME NEW i \in Ids PROVE db[i].cur \in 0 .. db[i].last
    <3>1. db[i].cur \in Nat /\ db[i].last \in Nat /\ db[i].cur <= db[i].last
      BY <1>1 DEF Shape, Types, DbType, DbOK
    <3> QED
      BY <3>1
  <2>3. ASSUME NEW i \in Ids, NEW c \in ToSet(db[i].waiting) \ {Answered_}
        PROVE  phase[c] \in {"queued", "turn", "ran", "settled"}
    <3>1. db[i].waiting \in Seq(Entry)
      BY <1>1, QueueTypes
    <3>2. In(c, db[i].waiting)
      BY <3>1, InSet
    <3>3. c \in Client
      BY <3>1, <3>2 DEF In, Entry
    <3>4. phase[c] = "queued" \/ Drained(c)
      BY <1>1, <3>2, <3>3 DEF Queues, WaitingOK
    <3> QED
      BY <3>4 DEF Drained, Working
  <2> QED
    BY <2>1, <2>2, <2>3 DEF TypeOK
<1>3. Known
  <2>1. SUFFICES ASSUME ~robbed, NEW i \in Ids, db[i].owner # 0 PROVE db[i].cur # 0
    BY DEF Known
  <2>2. PICK c \in Client : c = db[i].owner
    BY <1>1, <2>1 DEF Types, DbType
  <2>3. Orderly(i)
    BY <1>1, <2>1 DEF Exclusive
  <2>4. handle[c] = i /\ Strong(c)
    BY <2>1, <2>2, <2>3 DEF Orderly, Owned
  <2> QED
    BY <2>3, <2>4, OrderlyFacts
<1>4. Told
  <2>1. SUFFICES ASSUME NEW c \in Client, phase[c] = "idle", tx[c] # 0, ~robbed PROVE Mine(c).cur = tx[c]
    BY DEF Told
  <2>2. call[c] = NoCall /\ handle[c] \in Ids /\ Mine(c) = db[handle[c]]
    BY <1>1, <2>1, HandleFacts DEF CallOK
  <2>3. Strong(c)
    BY <2>1, <2>2 DEF Strong, Gone, NoCall
  <2>4. Orderly(handle[c])
    BY <1>1, <2>1, <2>2 DEF Exclusive
  <2> QED
    BY <2>1, <2>2, <2>3, <2>4, OrderlyFacts
<1>5. Ending
  <2>1. SUFFICES ASSUME NEW i \in Ids, db[i].cur # 0, ~orphaned
                 PROVE  \E c \in Client : handle[c] = i /\ (tx[c] = db[i].cur \/ call[c].kind = "begin")
    BY DEF Ending
  <2>2. PICK c \in Client : Ends(c, i)
    BY <1>1, <2>1 DEF HasEnd
  <2> QED
    BY <2>2 DEF Ends, Began
<1> QED
  BY <1>2, <1>3, <1>4, <1>5 DEF Agreed

\* A statement runs while nobody else is in a transaction.
LEMMA InvIsolated ==
  ASSUME WebInv, ~robbed, NEW c \in Client, phase[c] = "turn"
  PROVE  Mine(c).owner \in {0, c}
<1>1. Shape /\ Exclusive
  BY DEF WebInv
<1>2. handle[c] \in Ids /\ Mine(c) = db[handle[c]]
  <2>1. CallOK(c) /\ HandleOK(c)
    BY <1>1, HandleFacts
  <2>2. handle[c] # 0
    BY <2>1 DEF CallOK, HandleOK, Working
  <2> QED
    BY <1>1, <2>2, HandleFacts
<1>3. PICK i \in Ids : i = handle[c]
  BY <1>2
<1>4. Orderly(i) /\ db[i].owner \in Client \cup {0}
  BY <1>1 DEF Exclusive, Shape, Types, DbType
<1>5. CASE db[i].owner = 0
  BY <1>2, <1>3, <1>5
<1>6. CASE db[i].owner # 0
  <2>1. PICK b \in Client : b = db[i].owner
    BY <1>4, <1>6
  <2>2. handle[b] = i /\ Strong(b)
    BY <1>4, <1>6, <2>1 DEF Orderly, Owned
  <2>3. c = b
    BY <1>3, <1>4, <2>2, OrderlyFacts
  <2> QED
    BY <1>2, <1>3, <2>1, <2>3
<1> QED
  BY <1>5, <1>6

\* The worker, SQLite and the clients agree which transaction is open: the
\* worker never forgets one that SQLite has (A.im, A.aM), a client that
\* believes to be in one is, and every one has a client that will end it.
THEOREM AgreedCorrect == Spec => []Agreed
<1>1. WebInv => Agreed
  BY InvAgreed
<1> QED
  BY <1>1, InvCorrect, PTL

\* A path has one open instance, the one the next client is given (A.ip,
\* A.kF), and it is in the file system in use (A.fQ).
THEOREM OneDatabaseCorrect == Spec => []OneDatabase
<1>1. WebInv => OneDatabase
  BY DEF WebInv
<1> QED
  BY <1>1, InvCorrect, PTL

\* However the calls of the tabs interleave, no statement runs in a
\* transaction that another tab has begun (A.ax.aM, A.hR).
THEOREM IsolatedCorrect == Spec => Isolated
<1>1. WebInv /\ [Next]_vars =>
        [\A c \in Client :
           phase[c] = "turn" /\ phase'[c] = "ran" /\ ~robbed => Mine(c).owner \in {0, c}]_vars
  BY InvIsolated
<1> QED
  BY <1>1, InvCorrect, PTL DEF Spec, Isolated

===============================================================================
