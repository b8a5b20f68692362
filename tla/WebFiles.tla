------------------------------ MODULE WebFiles ------------------------------
(* The file system under the web build's SQLite (web/sqflite_sw.js,        *)
(* compiled from sqlite3's IndexedDbFileSystem).  SQLite's calls change    *)
(* the files in memory (mem) and return; what they changed is queued, and  *)
(* one IndexedDB transaction after the other stores the whole queue.  The  *)
(* queue is coalesced as it grows: a later write joins an earlier one, a   *)
(* deletion removes the writes before it.                                  *)
(*                                                                         *)
(* fs is the state of the worker, which SQLite's calls change without      *)
(* interruption: mem, the temporary files temp (y in the code), the queue  *)
(* (x), whether a transaction is running (f) and what is left of its items *)
(* (batch).  ids is the cache of row ids (z).  work is the object store as *)
(* the running transaction sees it, store what is committed.  seen, taken  *)
(* and sound are bookkeeping for the properties.                           *)
EXTENDS Integers, Sequences, FiniteSets, FiniteSetsExt, SequencesExt, Functions

CONSTANTS
    File,           \* the names of the files
    Paged,          \* those that SQLite writes in whole blocks (databases)
    BlockSize,      \* 4096 in the code
    MinCap,         \* the least capacity a buffer grows to, 8 in the code
    MaxLen,         \* bound: length of a file
    Chunk,          \* the writes [at, len] made to a file that is not paged
    Cut,            \* the lengths files are cut to: whole blocks
    MaxOps,         \* bound: calls of SQLite
    MaxCrashes,     \* bound
    MaxFaults       \* bound: transactions that IndexedDB refuses (quota)

ASSUME BlockAssumption ==
    /\ BlockSize \in Nat \ {0} /\ MinCap \in Nat /\ MaxOps \in Nat
    /\ MaxLen \in Nat /\ MaxLen % BlockSize = 0 /\ BlockSize <= MaxLen
    /\ Cut \subseteq 0 .. MaxLen /\ \A n \in Cut : n % BlockSize = 0
    /\ \A w \in Chunk : w.at \in Nat /\ w.len \in Nat /\ w.at + w.len <= MaxLen

ASSUME FileAssumption == IsFiniteSet(File) /\ Paged \subseteq File

VARIABLES fs, ids, work, store, sound, ops, crashes, faults
vars == <<fs, ids, work, store, sound, ops, crashes, faults>>

-----------------------------------------------------------------------------
(* Buffers: data is what the file holds, cap the length of the array.  A   *)
(* view of the array goes on showing the file until the array is replaced. *)

Cells == 0 .. MaxLen - 1
Zeros(n) == [i \in 1 .. n |-> 0]

\* The first n bytes of an array that holds data: zero where it is longer.
Padded(data, n) == SubSeq(data \o Zeros(n), 1, n)

EmptyBuffer == [data |-> <<>>, cap |-> 0]

\* A.b7.ek: twice as long, or as long as is needed.
Doubled(cap, n) == IF 2 * cap < n THEN n ELSE IF 2 * cap < MinCap THEN MinCap ELSE 2 * cap

NewCap(cap, n) == IF cap = 0 THEN n ELSE Doubled(cap, n)

Replaced(b, n) == n > b.cap
Resized(b, n) ==
    [data |-> Padded(b.data, n), cap |-> IF Replaced(b, n) THEN NewCap(b.cap, n) ELSE b.cap]

Patched(b, c, v) ==
    [b EXCEPT !.data = [i \in DOMAIN @ |-> IF i - 1 \in c.at .. c.at + c.len - 1 THEN v ELSE @[i]]]

-----------------------------------------------------------------------------
(* The queue.                                                              *)

Create(f) == [op |-> "create", file |-> f]
Delete(f) == [op |-> "delete", file |-> f]
Truncate(f, n) == [op |-> "truncate", file |-> f, len |-> n]
WriteItem(f, view, c, v) ==
    [op |-> "write", file |-> f, base |-> view, writes |-> <<[at |-> c.at, len |-> c.len, val |-> v]>>]

\* The array a write starts from: seen through the view, or kept as it was.
LiveView(n) == [live |-> TRUE, len |-> n, data |-> <<>>]
KeptView(data) == [live |-> FALSE, len |-> Len(data), data |-> data]

Kept(it, f, data) ==
    IF it.op = "write" /\ it.file = f /\ it.base.live
    THEN [it EXCEPT !.base = KeptView(Padded(data, it.base.len))] ELSE it

\* The array of f is replaced or dropped: views of it stay as they are.
Detached(items, f, data) == [i \in DOMAIN items |-> Kept(items[i], f, data)]

\* The first item of a transaction looks at its view as the item starts.
Started(mem, items) ==
    IF items = <<>> THEN items
    ELSE [items EXCEPT ![1] = IF @.file \in DOMAIN mem THEN Kept(@, @.file, mem[@.file].data) ELSE @]

\* The last of these places in the queue, 0 if there is none.
LastOf(places) == Max(places \cup {0})

\* The queue without the items of f.
Without(q, f) ==
    LET kept[n \in 0 .. Len(q)] ==
          IF n = 0 THEN <<>>
          ELSE IF q[n].file = f THEN kept[n - 1] ELSE Append(kept[n - 1], q[n])
    IN kept[Len(q)]

\* A.dt.ci: the writes to f are taken out; a deletion of f that waits is
\* enough, and a creation that waits goes instead.
Deletion(q, f) ==
    LET stop == LastOf({i \in DOMAIN q : \/ q[i].op = "truncate"
                                         \/ q[i].file = f /\ q[i].op \in {"delete", "create"}})
        rest == Without(SubSeq(q, stop + 1, Len(q)), f)
        before == SubSeq(q, 1, stop)
    IN IF stop = 0 \/ q[stop].op = "truncate"
       THEN [added |-> TRUE, queue |-> before \o rest \o <<Delete(f)>>]
       ELSE [added |-> FALSE,
             queue |-> (IF q[stop].op = "create" THEN Front(before) ELSE before) \o rest]

\* Mutants of Joining: a truncation between the writes is not looked at; the
\* write that joins is lost.
Joining_PastTruncation(q, it) ==
    LET stop == LastOf({i \in DOMAIN q : q[i].op = "write" /\ q[i].file = it.file})
    IN IF stop # 0
       THEN [added |-> FALSE, queue |-> [q EXCEPT ![stop].writes = @ \o it.writes]]
       ELSE [added |-> TRUE, queue |-> Append(q, it)]
Joining_Lost(q, it) ==
    IF \E i \in DOMAIN q : q[i].op = "write" /\ q[i].file = it.file
    THEN [added |-> FALSE, queue |-> q] ELSE [added |-> TRUE, queue |-> Append(q, it)]

\* A.cA.ci: a write that waits for the same file takes this one in, unless a
\* deletion, a truncation or the creation of the file is between them.
Joining(q, it) ==
    LET stop == LastOf({i \in DOMAIN q : q[i].op \in {"delete", "truncate"} \/ q[i].file = it.file})
    IN IF stop # 0 /\ q[stop].op = "write"
       THEN [added |-> FALSE, queue |-> [q EXCEPT ![stop].writes = @ \o it.writes]]
       ELSE [added |-> TRUE, queue |-> Append(q, it)]

\* A.a2.ci, which creations and truncations inherit.
Coalesced(q, it) ==
    CASE it.op = "delete" -> Deletion(q, it.file)
      [] it.op = "write" -> Joining(q, it)
      [] OTHER -> [added |-> TRUE, queue |-> Append(q, it)]

\* A.cf.aw: unless one is running a transaction is started with all that waits.
Drained(s) ==
    IF s.running \/ s.queue = <<>> THEN s
    ELSE [s EXCEPT !.running = TRUE, !.queue = <<>>, !.batch = Started(s.mem, s.queue),
                   !.taken = Len(s.seen)]

\* A.cf.b9
Enqueued(s, it) ==
    LET c == Coalesced(s.queue, it) IN
    IF c.added THEN Drained([s EXCEPT !.queue = c.queue]) ELSE [s EXCEPT !.queue = c.queue]

-----------------------------------------------------------------------------
(* SQLite's calls, as functions of the worker's state.                     *)

\* What has to reach the disk: the files but for the temporary ones.
Files(s) == [f \in DOMAIN s.mem \ s.temp |-> s.mem[f].data]

Noted(s) == [s EXCEPT !.seen = Append(@, Files(s))]

SetBuffer(s, f, b) == [s EXCEPT !.mem = [g \in DOMAIN @ \cup {f} |-> IF g = f THEN b ELSE @[g]]]

\* The file is given n bytes; the views of an array that is too short stay behind.
Grown(s, f, n) ==
    LET b == s.mem[f]
        t == SetBuffer(s, f, Resized(b, n))
    IN IF Replaced(b, n)
       THEN [t EXCEPT !.queue = Detached(@, f, b.data), !.batch = Detached(@, f, b.data)]
       ELSE t

\* xOpen: a file that is not there is made, only in memory if it is temporary.
Opened(s, f, temporary) ==
    LET t == SetBuffer(s, f, EmptyBuffer) IN
    IF f \in DOMAIN s.mem THEN s
    ELSE IF temporary THEN [t EXCEPT !.temp = @ \cup {f}]
    ELSE Enqueued(Noted(t), Create(f))

\* xWrite: the item keeps the view of the file that there was before.
Wrote(s, f, c, v) ==
    LET b == s.mem[f]
        n == c.at + c.len
        t == IF n > Len(b.data) THEN Grown(s, f, n) ELSE s
        u == SetBuffer(t, f, Patched(t.mem[f], c, v))
        view == IF Replaced(b, n) THEN KeptView(b.data) ELSE LiveView(Len(b.data))
    IN IF f \in s.temp THEN u ELSE Enqueued(Noted(u), WriteItem(f, view, c, v))

\* xTruncate
Truncated(s, f, n) ==
    LET t == Grown(s, f, n) IN
    IF f \in s.temp THEN t ELSE Enqueued(Noted(t), Truncate(f, n))

\* xDelete
Deleted(s, f) ==
    LET data == s.mem[f].data
        t == [s EXCEPT !.mem = Restrict(@, DOMAIN @ \ {f}), !.temp = @ \ {f},
                       !.queue = Detached(@, f, data), !.batch = Detached(@, f, data)]
    IN IF f \in s.temp THEN t ELSE Enqueued(Noted(t), Delete(f))

-----------------------------------------------------------------------------
(* The object stores: rows are the files by their id, with the cells of    *)
(* their blocks (zero where there is no block).                            *)

EmptyStore == [next |-> 1, rows |-> <<>>]
Names(db) == {db.rows[i].name : i \in DOMAIN db.rows}
IdIn(db, f) == CHOOSE i \in DOMAIN db.rows : db.rows[i].name = f
WithRow(db, i, r) ==
    [db EXCEPT !.rows = [j \in DOMAIN @ \cup {i} |-> IF j = i THEN r ELSE @[j]]]

\* A.cf.aJ: all files are read at the start.
Content(r) == [i \in 1 .. r.len |-> r.cells[i - 1]]
OnDisk(db) == [f \in Names(db) |-> Content(db.rows[IdIn(db, f)])]
LoadedIds(db) == [f \in Names(db) |-> IdIn(db, f)]
Loaded(db) ==
    [mem |-> [f \in Names(db) |-> [data |-> OnDisk(db)[f], cap |-> Len(OnDisk(db)[f])]],
     temp |-> {}, queue |-> <<>>, batch |-> <<>>, running |-> FALSE,
     seen |-> <<>>, taken |-> 0]

\* A.cf.aq: the id from the cache, or else from the index.
Resolved(it) ==
    IF it.file \in DOMAIN ids \/ it.file \notin Names(work) THEN ids
    ELSE [f \in DOMAIN ids \cup {it.file} |-> IF f = it.file THEN IdIn(work, f) ELSE ids[f]]

Block(c) == c \div BlockSize
Covers(w, c) == c \in w.at .. w.at + w.len - 1

\* A.j9: blocks made of the view and, over it, of the writes in their order.
CellWritten(it, c) ==
    LET over == {i \in DOMAIN it.writes : Covers(it.writes[i], c)} IN
    IF over # {} THEN it.writes[Max(over)].val ELSE Padded(it.base.data, MaxLen)[c + 1]
LenWritten(it) == Max({it.base.len} \cup {w.at + w.len : w \in ToSet(it.writes)})

\* A.jx: the blocks that are put.
Touched(it) == {Block(c) : c \in {x \in Cells : \E w \in ToSet(it.writes) : Covers(w, x)}}

\* A.bZ.an
RowWritten(r, it) ==
    [r EXCEPT !.len = LenWritten(it),
              !.cells = [c \in Cells |->
                           IF Block(c) \in Touched(it) THEN CellWritten(it, c) ELSE @[c]]]

\* A.bZ.am: the block of the new end goes too.
RowTruncated(r, n) ==
    [r EXCEPT !.len = n,
              !.cells = [c \in Cells |-> IF r.len > n /\ Block(c) >= Block(n) THEN 0 ELSE @[c]]]

\* A.bZ.bf: the row and its blocks.
WithoutRow(db, i) == [db EXCEPT !.rows = Restrict(@, DOMAIN @ \ {i})]

-----------------------------------------------------------------------------
(* The steps of a transaction.                                             *)

bounds == <<ops, crashes, faults>>
item == fs.batch[1]

\* The item has run: the next one starts.
ItemDone == fs' = [fs EXCEPT !.batch = Started(fs.mem, Tail(@))]

\* A.cv.M; the name is unique.
RunCreate ==
    /\ item.op = "create" /\ item.file \notin Names(work)
    /\ work' = [WithRow(work, work.next, [name |-> item.file, len |-> 0, cells |-> [c \in Cells |-> 0]])
                EXCEPT !.next = @ + 1]
    /\ ids' = [f \in DOMAIN ids \cup {item.file} |-> IF f = item.file THEN work.next ELSE ids[f]]

\* Mutant of RunDelete: the id stays in the cache.
RunDelete_KeepsId ==
    LET known == Resolved(item) IN
    /\ item.op = "delete" /\ item.file \in DOMAIN known
    /\ work' = WithoutRow(work, known[item.file])
    /\ ids' = known

\* A.dt.M
RunDelete ==
    LET known == Resolved(item) IN
    /\ item.op = "delete" /\ item.file \in DOMAIN known
    /\ work' = WithoutRow(work, known[item.file])
    /\ ids' = Restrict(ids, DOMAIN ids \ {item.file})

\* A.cA.M and A.jr; the row must be there (A.js).
RunChange ==
    LET known == Resolved(item)
        i == known[item.file]
    IN /\ item.op \in {"write", "truncate"} /\ item.file \in DOMAIN known /\ i \in DOMAIN work.rows
       /\ ids' = known
       /\ work' = WithRow(work, i, IF item.op = "write" THEN RowWritten(work.rows[i], item)
                                   ELSE RowTruncated(work.rows[i], item.len))

RunItem ==
    /\ fs.batch # <<>>
    /\ RunCreate \/ RunDelete \/ RunChange
    /\ ItemDone
    /\ UNCHANGED <<store, sound, bounds>>

\* A.hu: the transaction is over, well or not; what has gathered is next.
Over(s) == Drained([s EXCEPT !.running = FALSE, !.batch = <<>>, !.taken = 0])

Commit ==
    /\ fs.running /\ fs.batch = <<>>
    /\ store' = work
    /\ fs' = Over([fs EXCEPT !.seen = SubSeq(@, fs.taken + 1, Len(@))])
    /\ UNCHANGED <<ids, work, sound, bounds>>

\* A.fW: an item has failed or IndexedDB refuses; nothing of the items is
\* stored, and they are not tried again.  The cache of ids stays.
Abort ==
    /\ work' = store
    /\ sound' = FALSE
    /\ fs' = Over([fs EXCEPT !.seen = <<>>])
    /\ UNCHANGED <<store, ops, crashes>>

ItemFails ==
    /\ fs.batch # <<>>
    /\ \/ item.op = "create" /\ item.file \in Names(work) /\ UNCHANGED ids
       \/ /\ item.op \in {"delete", "truncate", "write"}
          /\ item.file \notin DOMAIN Resolved(item)
          /\ UNCHANGED ids
       \/ /\ item.op \in {"truncate", "write"}
          /\ item.file \in DOMAIN Resolved(item) /\ Resolved(item)[item.file] \notin DOMAIN work.rows
          /\ ids' = Resolved(item)
    /\ Abort /\ UNCHANGED faults

Quota ==
    /\ fs.running /\ faults < MaxFaults
    /\ faults' = faults + 1
    /\ Abort /\ UNCHANGED ids

-----------------------------------------------------------------------------
(* The calls.                                                              *)

\* (seen is kept as long as something is promised of it.)
Call(s) ==
    /\ ops < MaxOps
    /\ ops' = ops + 1
    /\ fs' = IF sound THEN s ELSE [s EXCEPT !.seen = <<>>, !.taken = 0]
    /\ UNCHANGED <<ids, work, store, sound, crashes, faults>>

Whole == {[at |-> b * BlockSize, len |-> BlockSize] : b \in 0 .. (MaxLen \div BlockSize) - 1}
Chunks(f) == IF f \in Paged THEN Whole ELSE Chunk

\* xAccess
Exists(f) == f \in DOMAIN fs.mem

XOpen(f) ==
    /\ ~Exists(f)
    /\ \E temporary \in {FALSE, f \notin Paged} : Call(Opened(fs, f, temporary))
XWrite(f) == Exists(f) /\ \E c \in Chunks(f) : Call(Wrote(fs, f, c, ops + 1))
XTruncate(f) ==
    /\ Exists(f)
    /\ \E n \in Cut : Call(Truncated(fs, f, n))

\* xDelete of a journal, and A.hL.bd (deleteDatabase), which look first.
XDelete(f) == Exists(f) /\ Call(Deleted(fs, f))

\* A.hL.aQ (writeDatabaseBytes): the three calls in one step; the flushes
\* before and after (A.hL.ac) find nothing to start and wait for nothing.
WriteBytes(f) ==
    f \in Paged /\
    Call(Wrote(Truncated(Opened(fs, f, FALSE), f, 0), f, [at |-> 0, len |-> BlockSize], ops + 1))

\* The worker or the page ends, and A.er starts again from the store.
Crash ==
    /\ crashes < MaxCrashes
    /\ crashes' = crashes + 1
    /\ fs' = Loaded(store) /\ ids' = LoadedIds(store) /\ work' = store
    /\ UNCHANGED <<store, sound, ops, faults>>

SeedRow(f) ==
    [name |-> f, len |-> BlockSize, cells |-> [c \in Cells |-> IF c < BlockSize THEN MaxOps + 1 ELSE 0]]

SeededStore ==
    [next |-> Cardinality(File) + 1, rows |-> [i \in 1 .. Cardinality(File) |-> SeedRow(SetToSeq(File)[i])]]

\* A store without files, and one that an earlier session has left.
Init ==
    /\ store \in {EmptyStore, SeededStore}
    /\ work = store /\ fs = Loaded(store) /\ ids = LoadedIds(store)
    /\ sound = TRUE /\ ops = 0 /\ crashes = 0 /\ faults = 0

Calls == \E f \in File : XOpen(f) \/ XWrite(f) \/ XTruncate(f) \/ XDelete(f) \/ WriteBytes(f)
Transaction == RunItem \/ Commit \/ ItemFails

Next == Calls \/ Transaction \/ Quota \/ Crash

Spec == Init /\ [][Next]_vars

\* IndexedDB goes on with a transaction that has been started.
FairSpec == Spec /\ WF_vars(Transaction)

-----------------------------------------------------------------------------
TypeOK ==
    /\ DOMAIN fs.mem \subseteq File /\ fs.temp \subseteq DOMAIN fs.mem
    /\ \A f \in DOMAIN fs.mem : Len(fs.mem[f].data) <= fs.mem[f].cap
    /\ fs.running \in BOOLEAN /\ fs.taken \in 0 .. Len(fs.seen)
    /\ DOMAIN ids \subseteq File
    /\ \A f, g \in File : \A i, j \in DOMAIN store.rows :
         store.rows[i].name = store.rows[j].name => i = j

\* The files on the disk are the memory as it was at some earlier moment,
\* whatever was joined, dropped or reordered on the way (DurableFiles).
Durable == INSTANCE DurableFiles WITH disk <- OnDisk(store), seen <- fs.seen
Implements == Durable!Spec

\* Nothing waits without a transaction that will take it (A.cf.aw, A.hu).
Awake == fs.queue # <<>> => fs.running

\* No call of SQLite makes a transaction fail, whatever came before it:
\* only IndexedDB does.
OnlyQuota == [][~sound' /\ sound => faults' > faults]_vars

\* The disk follows the memory, and only a lack of space may end that.
WrittenBehind == Implements /\ OnlyQuota

\* The cached ids lead to the rows of their files: no write to one file ends
\* up in another (A.cf.aq).
OwnRows ==
    sound => \A f \in DOMAIN ids : ids[f] \in DOMAIN work.rows /\ work.rows[ids[f]].name = f

\* Nothing is left behind and nothing goes astray.
RowsOK == TypeOK /\ Awake /\ OwnRows

\* When SQLite has stopped calling, the disk has all it wrote.
Flushed == []<>(sound => OnDisk(store) = Files(fs))

=============================================================================
