------------------------------ MODULE ServerProofs ------------------------------
(* Proofs about the files of the Node.js server (ServerStorage) and about   *)
(* the register that the manifest is (ServerRegister).                      *)
EXTENDS ServerRegister, SequenceTheorems, TLAPS

-----------------------------------------------------------------------------
(* Control: where a request may stand, and what the chain of manifestLock   *)
(* holds.                                                                  *)

\* A request for operation q may await a.
Awaiting(q, a) ==
    /\ a = "read" => q.op = "get"
    /\ a = "check" => q.op = "put" /\ (Allow(q) # Content \/ q.path = Manifest)
    /\ a \in {"mkparents", "rename"} => q.op \in {"put", "move", "copy"}
    /\ a = "unlink" => q.op = "delete"
    /\ a \in {"stat", "mkdest", "readsource"} => q.op \in {"move", "copy"}
    /\ a \in {"move", "unlinksource"} => q.op = "move"
    /\ a \in {"statdir", "statparent", "makedir"} => q.op = "mkdir"
    /\ a \in {"props", "etag"} => q.op = "propfind"
    /\ a = "etag" => q.path \in File
    /\ a \in {"readdir", "statentry"} => q.op = "propfind" /\ q.deep /\ q.path \in Dir
    /\ a = "listblobs" => q.op = "list"

Active(r) == pc[r] \notin {"idle", "body", "done"}
Locked(r) == Active(r) /\ NeedsLock(req[r])

\* What comes after the first await of an operation that takes the lock.
Inner == {"mkparents", "rename", "mkdest", "move", "readsource", "unlinksource"}

In(x, s) == \E i \in 1 .. Len(s) : s[i] = x
Distinct(s) == \A i, j \in 1 .. Len(s) : s[i] = s[j] => i = j

Control ==
    /\ load \in Load /\ mode \in {"up", "closing", "down"} /\ queue \in Seq(Slot)
    /\ req \in [Slot -> load.requests \cup {NoRequest}]
    /\ pc \in [Slot -> Awaits] /\ status \in [Slot -> Statuses]
    /\ \A r \in Slot :
          /\ pc[r] # "idle" => req[r] \in load.requests /\ Awaiting(req[r], pc[r])
          /\ pc[r] # "done" => status[r] = 0
          /\ Locked(r) <=> In(r, queue)
          /\ Locked(r) /\ pc[r] \in Inner => queue[1] = r
    /\ Distinct(queue)

-----------------------------------------------------------------------------
(* Data.                                                                   *)

Carried(r) ==
    /\ temp[r] # Nothing <=> pc[r] = "rename"
    /\ pc[r] \in {"mkparents", "rename", "unlinksource"} /\ req[r].op \in {"move", "copy"} => seen[r] # Nothing

Files ==
    /\ disk \in [File -> Content] /\ dirs \subseteq Dir /\ litter \subseteq File
    /\ temp \in [Slot -> Content] /\ seen \in [Slot -> Content]
    /\ todo \in [Slot -> SUBSET Entry] /\ found \in [Slot -> SUBSET Entry]
    /\ kept \in [Slot -> SUBSET File]
    /\ \A r \in Slot : Carried(r)

NoHalf ==
    "short" \notin load.faults =>
        /\ \A f \in File : disk[f] # Half
        /\ \A r \in Slot : temp[r] # Half /\ seen[r] # Half

Listed(r) ==
    /\ kept[r] # {} => pc[r] # "idle" /\ req[r].op \in {"propfind", "list"}
    /\ pc[r] = "statentry" => \A f \in kept[r] : Parent[f] = req[r].path => Plain(f) \in todo[r] \cup found[r]
    /\ kept[r] \subseteq Present
    /\ pc[r] = "done" /\ status[r] = 200 /\ (req[r].op = "list" \/ req[r].deep) =>
          \A f \in kept[r] : Parent[f] = req[r].path => Plain(f) \in found[r]
    /\ req[r].op = "list" => \A e \in found[r] : ~e.tmp /\ e.file \in File
    /\ pc[r] \in {"idle", "body"} => found[r] = {}

\* While an operation on the manifest has the lock, what it has found there
\* stays.
Guarded(r) ==
    /\ req[r].op = "put" /\ req[r].path = Manifest /\ pc[r] \in {"mkparents", "rename"} =>
          disk[Manifest] \in Allow(req[r])
    /\ req[r].op \in {"move", "copy"} /\ req[r].dest = Manifest
          /\ pc[r] \in {"mkdest", "move", "readsource", "mkparents", "rename"} =>
          disk[Manifest] \in Allow(req[r])
    /\ req[r].op = "move" /\ req[r].path = Manifest /\ pc[r] \in {"mkparents", "rename", "unlinksource"} =>
          seen[r] = disk[Manifest]
    /\ req[r].op = "put" /\ pc[r] = "rename" /\ "short" \notin load.faults => temp[r] = req[r].body

-----------------------------------------------------------------------------
(* What clients ask, and what they are answered.                           *)

LEMMA Asked ==
  ASSUME load \in Load, NEW q \in load.requests
  PROVE  /\ q.op \in Ops /\ q.path \in File \cup Dir /\ q.dest \in File /\ q.body \in Body
         /\ q.overwrite \in BOOLEAN /\ q.ifNoneMatch \in BOOLEAN /\ q.ifMatch \in Content
         /\ q.op \in {"get", "put", "delete", "move", "copy"} => q.path \in File
         /\ q.op = "mkdir" => q.path \in Dir \ {Root}
         /\ q.op = "list" => q.path = Blobs
         /\ q.op \in {"move", "copy"} => q.path # q.dest
<1>1. q \in UNION {l.requests : l \in Load} /\ q \in Requests
  BY RequestAssumption
<1>2. q.op \in Ops /\ q.path \in File \cup Dir /\ q.dest \in File /\ q.body \in Body
      /\ q.overwrite \in BOOLEAN /\ q.ifNoneMatch \in BOOLEAN /\ q.ifMatch \in Content
  BY <1>1 DEF Requests
<1> QED
  BY <1>1, <1>2, RequestAssumption

LEMMA AllowTyped ==
  ASSUME load \in Load, NEW q \in load.requests
  PROVE  Allow(q) \subseteq Content
  BY Asked DEF Allow, Content

LEMMA Errors ==
  ASSUME NEW q, q.op \in Ops
  PROVE  Answer(q, "error") = 500
  BY DEF Answer, Ops, ManifestAnswers, BlobAnswers, ResourceAnswer, ResourceOpAnswer, Reading, Writing,
         Deleting, OfBlobs

LEMMA Successes ==
  ASSUME NEW q, q.op \in Ops, q.op = "list" => q.path = Blobs
  PROVE  /\ Answer(q, "ok") \in {200, 201, 204}
         /\ q.op # "mkdir" => Answer(q, "ok") \in {200, 204}
<1> USE DEF Answer, ManifestAnswers, BlobAnswers, ResourceAnswer, ResourceOpAnswer, Reading, Writing,
            Deleting, OfBlobs
<1>1. CASE q.op \in {"get", "put", "delete"}
  BY <1>1
<1>2. CASE q.op \in {"move", "copy"}
  BY <1>2
<1>3. CASE q.op \in {"mkdir", "propfind"}
  BY <1>3
<1>4. CASE q.op = "list"
  BY <1>4
<1> QED
  BY <1>1, <1>2, <1>3, <1>4 DEF Ops

LEMMA Absences ==
  ASSUME NEW q, q.op \in {"get", "propfind"}
  PROVE  Answer(q, "NotFound") = 404
  BY DEF Answer, ManifestAnswers, BlobAnswers, ResourceAnswer, ResourceOpAnswer, Reading, OfBlobs

LEMMA Refusals ==
  ASSUME NEW q
  PROVE  /\ q.op = "put" /\ (q.path = Manifest \/ Allow(q) # Content) => Answer(q, "PreconditionFailed") = 412
         /\ q.op \in {"move", "copy", "mkdir"} => Answer(q, "Conflict") = 409
         /\ q.op = "mkdir" => Answer(q, "Exists") = 405
  BY DEF Answer, ManifestAnswers, BlobAnswers, ResourceAnswer, ResourceOpAnswer, Writing, OfBlobs, Allow

-----------------------------------------------------------------------------
(* The chain.                                                              *)

LEMMA Popped ==
  ASSUME NEW s \in Seq(Slot), Distinct(s), s # <<>>
  PROVE  /\ Tail(s) \in Seq(Slot) /\ Distinct(Tail(s)) /\ Head(s) = s[1] /\ s[1] \in Slot
         /\ \A x \in Slot : In(x, Tail(s)) <=> x # s[1] /\ In(x, s)
<1>1. /\ Len(s) \in Nat /\ Len(s) > 0 /\ Tail(s) \in Seq(Slot) /\ Len(Tail(s)) = Len(s) - 1
      /\ \A i \in 1 .. Len(Tail(s)) : Tail(s)[i] = s[i + 1]
      /\ Head(s) = s[1] /\ s[1] \in Slot
  BY HeadTailProperties, EmptySeq, LenProperties
<1>2. Distinct(Tail(s))
  BY <1>1 DEF Distinct
<1>3. ASSUME NEW x \in Slot, In(x, Tail(s)) PROVE x # s[1] /\ In(x, s)
  BY <1>1, <1>3 DEF In, Distinct
<1>4. ASSUME NEW x \in Slot, x # s[1], In(x, s) PROVE In(x, Tail(s))
  <2>1. PICK i \in 1 .. Len(s) : s[i] = x
    BY <1>4 DEF In
  <2>2. i - 1 \in 1 .. Len(Tail(s)) /\ Tail(s)[i - 1] = x
    BY <1>1, <1>4, <2>1
  <2> QED
    BY <2>2 DEF In
<1> QED
  BY <1>1, <1>2, <1>3, <1>4

LEMMA Pushed ==
  ASSUME NEW s \in Seq(Slot), Distinct(s), NEW r \in Slot, ~In(r, s)
  PROVE  /\ Append(s, r) \in Seq(Slot) /\ Distinct(Append(s, r))
         /\ \A x \in Slot : In(x, Append(s, r)) <=> x = r \/ In(x, s)
         /\ \A x \in Slot : In(x, s) /\ s[1] = x => Append(s, r)[1] = x
<1>1. /\ Append(s, r) \in Seq(Slot) /\ Len(Append(s, r)) = Len(s) + 1 /\ Len(s) \in Nat
      /\ \A i \in 1 .. Len(s) : Append(s, r)[i] = s[i]
      /\ Append(s, r)[Len(s) + 1] = r
  BY AppendProperties, LenProperties
<1> HIDE DEF Distinct, In
<1>2. Distinct(Append(s, r))
  BY <1>1 DEF Distinct, In
<1>3. ASSUME NEW x \in Slot PROVE In(x, Append(s, r)) <=> x = r \/ In(x, s)
  BY <1>1 DEF In
<1>4. ASSUME NEW x \in Slot, In(x, s), s[1] = x PROVE Append(s, r)[1] = x
  BY <1>1, <1>4 DEF In
<1> QED
  BY <1>1, <1>2, <1>3, <1>4

LEMMA ControlInit == Init => Control
<1> SUFFICES ASSUME Init PROVE Control
  OBVIOUS
<1>1. \A r \in Slot : ~In(r, queue) /\ ~Active(r)
  BY EmptySeq DEF Init, In, Active
<1>2. Distinct(queue) /\ queue \in Seq(Slot)
  BY EmptySeq DEF Init, Distinct
<1> QED
  BY <1>1, <1>2 DEF Init, Control, Locked, Awaits, Statuses

LEMMA Heads ==
  ASSUME Control, NEW r \in Slot, Active(r), At(r, pc[r]), NeedsLock(req[r])
  PROVE  queue # <<>> /\ queue[1] = r /\ Head(queue) = r
<1>1. In(r, queue)
  BY DEF Control, Locked
<1>2. queue # <<>>
  BY <1>1, EmptySeq DEF In
<1> QED
  BY <1>2, Popped DEF Control, At

LEMMA ControlGo ==
  ASSUME Control, NEW r \in Slot, Active(r), At(r, pc[r]),
         NEW a \in Awaits \ {"idle", "body", "done"}, Awaiting(req[r], a), Go(r, a),
         UNCHANGED <<load, mode, req>>
  PROVE  Control'
<1>1. /\ pc' = [pc EXCEPT ![r] = a] /\ pc' \in [Slot -> Awaits] /\ pc'[r] = a
      /\ \A s \in Slot \ {r} : pc'[s] = pc[s]
      /\ UNCHANGED <<queue, status>>
  BY DEF Go, Control
<1>2. \A s \in Slot : Locked(s)' <=> Locked(s)
  BY <1>1 DEF Locked, Active
<1>3. Locked(r) => queue[1] = r
  BY Heads DEF Locked
<1> QED
  BY <1>1, <1>2, <1>3 DEF Control, Active, Locked

LEMMA ControlFinish ==
  ASSUME Control, NEW r \in Slot, Active(r), At(r, pc[r]), NEW o, Finish(r, o),
         Answer(req[r], o) \in Statuses, UNCHANGED <<load, mode, req>>
  PROVE  Control'
<1>1. /\ pc' \in [Slot -> Awaits] /\ pc'[r] = "done" /\ status' \in [Slot -> Statuses]
      /\ \A s \in Slot \ {r} : pc'[s] = pc[s] /\ status'[s] = status[s]
  BY DEF Finish, Control, Awaits
<1>2. ~Locked(r)' /\ \A s \in Slot \ {r} : Locked(s)' <=> Locked(s)
  BY <1>1 DEF Locked, Active
<1>a. \A s \in Slot : /\ pc'[s] # "idle" => req'[s] \in load'.requests /\ Awaiting(req'[s], pc'[s])
                      /\ pc'[s] # "done" => status'[s] = 0
  <2>1. Awaiting(req[r], "done")
    BY DEF Awaiting
  <2> QED
    BY <1>1, <2>1 DEF Control, Active
<1>3. CASE NeedsLock(req[r])
  <2>1. queue # <<>> /\ queue[1] = r /\ queue' = Tail(queue) /\ Locked(r)
    BY <1>3, Heads DEF Finish, Locked
  <2>2. queue' \in Seq(Slot) /\ Distinct(queue)' /\ \A s \in Slot : In(s, queue)' <=> s # r /\ In(s, queue)
    BY <2>1, Popped DEF Control
  <2>3. \A s \in Slot : (Locked(s)' <=> In(s, queue)') /\ ~(Locked(s)' /\ pc'[s] \in Inner)
    BY <1>1, <1>2, <2>1, <2>2 DEF Control
  <2> QED
    BY <1>1, <1>a, <2>2, <2>3 DEF Control
<1>4. CASE ~NeedsLock(req[r])
  <2>1. queue' = queue /\ ~Locked(r)
    BY <1>4 DEF Finish, Locked
  <2> QED
    <3>1. \A s \in Slot : /\ Locked(s)' <=> In(s, queue)'
                          /\ Locked(s)' /\ pc'[s] \in Inner => queue'[1] = s
      BY <1>1, <1>2, <2>1 DEF Control
    <3> QED
      BY <1>1, <1>a, <2>1, <3>1 DEF Control
<1> QED
  BY <1>3, <1>4

LEMMA Firsts ==
  ASSUME load \in Load, NEW q \in load.requests
  PROVE  /\ First(q) \in Awaits \ {"idle", "body", "done", "rename", "unlinksource", "statentry"}
         /\ Awaiting(q, First(q)) /\ (NeedsLock(q) => First(q) \notin Inner)
         /\ First(q) = "mkparents" => q.op = "put" /\ q.path # Manifest
         /\ First(q) \notin {"mkdest", "move", "readsource"}
<1>1. q.op \in Ops
  BY Asked
<1>2. CASE q.op = "put"
  BY <1>2 DEF First, Awaits, Awaiting, NeedsLock, Inner
<1>3. CASE q.op # "put"
  BY <1>1, <1>3 DEF Ops, First, Awaits, Awaiting, NeedsLock, Inner
<1> QED
  BY <1>2, <1>3

LEMMA ControlEnter ==
  ASSUME Control, NEW r \in Slot, pc[r] \in {"idle", "body"}, NEW q \in load.requests, Enter(r, q),
         req' = [req EXCEPT ![r] = q], UNCHANGED <<load, mode, status>>
  PROVE  Control'
<1>1. First(q) \in Awaits \ {"idle", "body", "done"} /\ Awaiting(q, First(q)) /\ (NeedsLock(q) => First(q) \notin Inner)
  BY Firsts DEF Control
<1>2. /\ pc' \in [Slot -> Awaits] /\ pc'[r] = First(q) /\ req'[r] = q
      /\ req' \in [Slot -> load'.requests \cup {NoRequest}]
      /\ \A s \in Slot \ {r} : pc'[s] = pc[s] /\ req'[s] = req[s]
  BY <1>1 DEF Enter, Control
<1>3. ~Locked(r) /\ (Locked(r)' <=> NeedsLock(q)) /\ \A s \in Slot \ {r} : Locked(s)' <=> Locked(s)
  BY <1>1, <1>2 DEF Locked, Active
<1>4. ~In(r, queue)
  BY <1>3 DEF Control
<1>5. /\ queue' \in Seq(Slot) /\ Distinct(queue)' /\ \A s \in Slot : In(s, queue)' <=> Locked(s)'
      /\ \A s \in Slot : In(s, queue) /\ queue[1] = s => queue'[1] = s
  <2>1. CASE NeedsLock(q)
    <3>1. queue' = Append(queue, r)
      BY <2>1 DEF Enter
    <3> QED
      BY <1>3, <1>4, <2>1, <3>1, Pushed DEF Control
  <2>2. CASE ~NeedsLock(q)
    <3>1. queue' = queue
      BY <2>2 DEF Enter
    <3> QED
      BY <1>3, <1>4, <2>2, <3>1 DEF Control
  <2> QED
    BY <2>1, <2>2
<1>6. \A s \in Slot : Locked(s)' /\ pc'[s] \in Inner => queue'[1] = s
  <2> SUFFICES ASSUME NEW s \in Slot, Locked(s)', pc'[s] \in Inner PROVE queue'[1] = s
    OBVIOUS
  <2>1. s # r
    BY <1>1, <1>2, <1>3
  <2>2. Locked(s) /\ pc[s] \in Inner
    BY <1>2, <1>3, <2>1
  <2> QED
    BY <1>5, <2>2 DEF Control
<1> QED
  BY <1>1, <1>2, <1>5, <1>6 DEF Control

LEMMA ControlPassive ==
  ASSUME Control, NEW r \in Slot, ~Active(r), NEW a \in {"idle", "body", "done"},
         NEW q \in load.requests \cup {NoRequest}, a # "idle" => q \in load.requests,
         NEW c \in Statuses, a # "done" => c = 0,
         pc' = [pc EXCEPT ![r] = a], req' = [req EXCEPT ![r] = q], status' = [status EXCEPT ![r] = c],
         UNCHANGED <<load, mode, queue>>
  PROVE  Control'
<1>1. /\ pc' \in [Slot -> Awaits] /\ status' \in [Slot -> Statuses]
      /\ req' \in [Slot -> load'.requests \cup {NoRequest}]
      /\ pc'[r] = a /\ status'[r] = c /\ req'[r] = q
      /\ \A s \in Slot \ {r} : pc'[s] = pc[s] /\ req'[s] = req[s] /\ status'[s] = status[s]
  BY DEF Control, Awaits
<1>2. ~Locked(r) /\ ~Locked(r)' /\ \A s \in Slot \ {r} : Locked(s)' <=> Locked(s)
  BY <1>1 DEF Locked, Active
<1>3. Awaiting(q, a)
  BY DEF Awaiting
<1>4. \A s \in Slot : /\ pc'[s] # "idle" => req'[s] \in load'.requests /\ Awaiting(req'[s], pc'[s])
                      /\ pc'[s] # "done" => status'[s] = 0
                      /\ Locked(s)' <=> In(s, queue)'
                      /\ Locked(s)' /\ pc'[s] \in Inner => queue'[1] = s
  BY <1>1, <1>2, <1>3 DEF Control
<1> QED
  BY <1>1, <1>4 DEF Control

\* A request that has arrived stands where its operation may stand.
LEMMA Standing ==
  ASSUME Control, NEW r \in Slot, NEW a, At(r, a), a \notin {"idle", "body", "done"}
  PROVE  /\ pc[r] = a /\ Active(r) /\ At(r, pc[r]) /\ req[r] \in load.requests /\ Awaiting(req[r], a)
         /\ req[r].op \in Ops /\ (req[r].op = "list" => req[r].path = Blobs)
<1>1. pc[r] = a /\ Active(r) /\ At(r, pc[r]) /\ req[r] \in load.requests /\ Awaiting(req[r], a)
  BY DEF Control, At, Active
<1> QED
  BY <1>1, Asked DEF Control

\* Every step of a request that has got past its body.
Await(r) ==
    \/ Read(r) \/ Check(r) \/ WriteTemp(r) \/ Rename(r) \/ Unlink(r)
    \/ StatDest(r) \/ MakeDest(r) \/ MoveFile(r) \/ MoveFails(r)
    \/ ReadSource(r) \/ UnlinkSource(r)
    \/ StatDir(r) \/ StatParent(r) \/ MakeDir(r)
    \/ Props(r) \/ ReadForETag(r) \/ ReadDir(r) \/ StatEntry(r) \/ EntriesDone(r)
    \/ ListBlobs(r)

LEMMA ControlAwait ==
  ASSUME Control, NEW r \in Slot, Await(r) \/ OperationFails(r), UNCHANGED load
  PROVE  Control'
<1> USE DEF Keep
<1>a. {200, 201, 204, 404, 405, 409, 412, 500} \subseteq Statuses
  BY DEF Statuses
<1>1. CASE Read(r)
  <2>1. At(r, "read") /\ \E o \in {"NotFound", "ok"} : Finish(r, o)
    BY <1>1 DEF Read
  <2>2. req[r].op = "get"
    BY <2>1, Standing DEF Awaiting
  <2> QED
    BY <1>1, <1>a, <2>1, <2>2, Standing, ControlFinish, Absences, Successes DEF Read
<1>2. CASE Check(r)
  <2>1. At(r, "check")
    BY <1>2 DEF Check
  <2>2. req[r].op = "put" /\ (Allow(req[r]) # Content \/ req[r].path = Manifest)
    BY <2>1, Standing DEF Awaiting
  <2>3. CASE Go(r, "mkparents")
    <3>1. Awaiting(req[r], "mkparents")
      BY <2>2 DEF Awaiting
    <3> QED
      BY <1>2, <2>1, <2>3, <3>1, Standing, ControlGo DEF Check, Awaits
  <2>4. CASE Finish(r, "PreconditionFailed")
    BY <1>2, <1>a, <2>1, <2>2, <2>4, Standing, ControlFinish, Refusals DEF Check
  <2> QED
    BY <1>2, <2>3, <2>4 DEF Check
<1>3. CASE WriteTemp(r)
  <2>1. At(r, "mkparents") /\ Go(r, "rename")
    BY <1>3 DEF WriteTemp
  <2>2. Awaiting(req[r], "rename")
    BY <2>1, Standing DEF Awaiting
  <2> QED
    BY <1>3, <2>1, <2>2, Standing, ControlGo DEF WriteTemp, Awaits
<1>4. CASE Rename(r)
  <2>1. At(r, "rename")
    BY <1>4 DEF Rename
  <2>2. req[r].op \in {"put", "move", "copy"}
    BY <2>1, Standing DEF Awaiting
  <2>3. CASE req[r].op = "move" /\ Go(r, "unlinksource")
    <3>1. Awaiting(req[r], "unlinksource")
      BY <2>3 DEF Awaiting
    <3> QED
      BY <1>4, <2>1, <2>3, <3>1, Standing, ControlGo DEF Rename, Awaits
  <2>4. CASE Finish(r, "ok")
    BY <1>4, <1>a, <2>1, <2>2, <2>4, Standing, ControlFinish, Successes DEF Rename
  <2> QED
    BY <1>4, <2>3, <2>4 DEF Rename
<1>5. CASE Unlink(r) \/ MoveFile(r) \/ ListBlobs(r) \/ EntriesDone(r)
  <2>1. Finish(r, "ok") /\ \E a \in {"unlink", "move", "listblobs", "statentry"} : At(r, a)
    BY <1>5 DEF Unlink, MoveFile, ListBlobs, EntriesDone
  <2> QED
    BY <1>5, <1>a, <2>1, Standing, ControlFinish, Successes DEF Unlink, MoveFile, ListBlobs, EntriesDone
<1>6. CASE StatDest(r)
  <2>1. At(r, "stat")
    BY <1>6 DEF StatDest
  <2>2. req[r].op \in {"move", "copy"}
    BY <2>1, Standing DEF Awaiting
  <2>3. CASE Go(r, "mkdest")
    <3>1. Awaiting(req[r], "mkdest")
      BY <2>2 DEF Awaiting
    <3> QED
      BY <1>6, <2>1, <2>3, <3>1, Standing, ControlGo DEF StatDest, Awaits
  <2>4. CASE Finish(r, "Conflict")
    BY <1>6, <1>a, <2>1, <2>2, <2>4, Standing, ControlFinish, Refusals DEF StatDest
  <2> QED
    BY <1>6, <2>3, <2>4 DEF StatDest
<1>7. CASE MakeDest(r) \/ MoveFails(r)
  <2>1. PICK a \in {"mkdest", "move"} : At(r, a)
    BY <1>7 DEF MakeDest, MoveFails
  <2>2. PICK b \in {"move", "readsource"} : Go(r, b) /\ (b = "move" => req[r].op = "move")
    BY <1>7 DEF MakeDest, MoveFails
  <2>3. req[r].op \in {"move", "copy"}
    BY <2>1, Standing DEF Awaiting
  <2>4. Awaiting(req[r], b)
    BY <2>2, <2>3 DEF Awaiting
  <2> QED
    BY <1>7, <2>1, <2>2, <2>4, Standing, ControlGo DEF MakeDest, MoveFails, Awaits
<1>8. CASE ReadSource(r)
  <2>1. At(r, "readsource")
    BY <1>8 DEF ReadSource
  <2>2. req[r].op \in {"move", "copy"}
    BY <2>1, Standing DEF Awaiting
  <2>3. CASE Go(r, "mkparents")
    <3>1. Awaiting(req[r], "mkparents")
      BY <2>2 DEF Awaiting
    <3> QED
      BY <1>8, <2>1, <2>3, <3>1, Standing, ControlGo DEF ReadSource, Awaits
  <2>4. CASE Finish(r, "error")
    BY <1>8, <1>a, <2>1, <2>4, Standing, ControlFinish, Errors DEF ReadSource
  <2> QED
    BY <1>8, <2>3, <2>4 DEF ReadSource
<1>9. CASE UnlinkSource(r) \/ ReadForETag(r)
  <2>1. \E o \in {"error", "ok"}, a \in {"unlinksource", "etag"} : Finish(r, o) /\ At(r, a)
    BY <1>9 DEF UnlinkSource, ReadForETag
  <2> QED
    BY <1>9, <1>a, <2>1, Standing, ControlFinish, Errors, Successes DEF UnlinkSource, ReadForETag
<1>10. CASE StatDir(r) \/ StatParent(r) \/ MakeDir(r)
  <2>1. PICK a \in {"statdir", "statparent", "makedir"} : At(r, a)
    BY <1>10 DEF StatDir, StatParent, MakeDir
  <2>2. req[r].op = "mkdir"
    BY <2>1, Standing DEF Awaiting
  <2>3. \/ \E b \in {"statparent", "makedir"} : Go(r, b)
        \/ \E o \in {"Exists", "Conflict", "ok"} : Finish(r, o)
    BY <1>10 DEF StatDir, StatParent, MakeDir
  <2>4. ASSUME NEW b \in {"statparent", "makedir"}, Go(r, b) PROVE Control'
    <3>1. Awaiting(req[r], b)
      BY <2>2 DEF Awaiting
    <3> QED
      BY <1>10, <2>1, <2>4, <3>1, Standing, ControlGo DEF StatDir, StatParent, MakeDir, Awaits
  <2>5. ASSUME NEW o \in {"Exists", "Conflict", "ok"}, Finish(r, o) PROVE Control'
    BY <1>10, <1>a, <2>1, <2>2, <2>5, Standing, ControlFinish, Refusals, Successes DEF StatDir, StatParent, MakeDir
  <2> QED
    BY <2>3, <2>4, <2>5
<1>11. CASE Props(r)
  <2>1. At(r, "props")
    BY <1>11 DEF Props
  <2>2. req[r].op = "propfind"
    BY <2>1, Standing DEF Awaiting
  <2>3. \/ Go(r, "readdir") /\ req[r].deep /\ req[r].path \in Dir
        \/ Go(r, "etag") /\ req[r].path \notin Dir
        \/ \E o \in {"NotFound", "ok"} : Finish(r, o)
    BY <1>11 DEF Props
  <2>4. ASSUME NEW b \in {"readdir", "etag"}, Go(r, b), b = "readdir" => req[r].deep /\ req[r].path \in Dir,
               b = "etag" => req[r].path \notin Dir PROVE Control'
    <3>1. req[r].path \in File \cup Dir
      BY <2>1, Standing, Asked DEF Control
    <3>2. Awaiting(req[r], b)
      BY <2>2, <2>4, <3>1 DEF Awaiting
    <3> QED
      BY <1>11, <2>1, <2>4, <3>2, Standing, ControlGo DEF Props, Awaits
  <2>5. ASSUME NEW o \in {"NotFound", "ok"}, Finish(r, o) PROVE Control'
    BY <1>11, <1>a, <2>1, <2>2, <2>5, Standing, ControlFinish, Absences, Successes DEF Props
  <2> QED
    BY <2>3, <2>4, <2>5
<1>12. CASE ReadDir(r) \/ StatEntry(r)
  <2>1. Go(r, "statentry") /\ \E a \in {"readdir", "statentry"} : At(r, a)
    BY <1>12 DEF ReadDir, StatEntry
  <2>2. Awaiting(req[r], "statentry")
    BY <2>1, Standing DEF Awaiting
  <2> QED
    BY <1>12, <2>1, <2>2, Standing, ControlGo DEF ReadDir, StatEntry, Awaits
<1>13. CASE OperationFails(r)
  <2>1. At(r, pc[r]) /\ pc[r] \notin {"idle", "body", "done"} /\ Finish(r, "error")
    BY <1>13 DEF OperationFails
  <2> QED
    BY <1>13, <1>a, <2>1, Standing, ControlFinish, Errors DEF OperationFails
<1> QED
  BY <1>1, <1>2, <1>3, <1>4, <1>5, <1>6, <1>7, <1>8, <1>9, <1>10, <1>11, <1>12, <1>13 DEF Await

LEMMA ControlStep ==
  ASSUME Control, [Next]_<<load, vars>>
  PROVE  Control'
<1>1. ASSUME NEW r \in Slot, NEW q \in load.requests, Arrive(r, q), UNCHANGED load PROVE Control'
  <2>1. CASE HasBody(q)
    <3>1. /\ pc[r] = "idle" /\ UNCHANGED <<mode, queue, status>>
          /\ pc' = [pc EXCEPT ![r] = "body"] /\ req' = [req EXCEPT ![r] = q]
      BY <1>1, <2>1 DEF Arrive
    <3>2. status' = [status EXCEPT ![r] = 0] /\ 0 \in Statuses /\ ~Active(r)
      BY <3>1 DEF Control, Active, Statuses
    <3>3. q \in load.requests \cup {NoRequest} /\ "body" \in {"idle", "body", "done"}
      OBVIOUS
    <3> QED
      BY <1>1, <3>1, <3>2, <3>3, ControlPassive
  <2>2. CASE ~HasBody(q)
    BY <1>1, <2>2, ControlEnter DEF Arrive
  <2> QED
    BY <2>1, <2>2
<1>2. ASSUME NEW r \in Slot, BodyEnds(r), UNCHANGED load PROVE Control'
  <2>1. req[r] \in load.requests /\ req' = [req EXCEPT ![r] = req[r]]
    BY <1>2 DEF BodyEnds, Keep, Control
  <2> QED
    BY <1>2, <2>1, ControlEnter DEF BodyEnds, Keep
<1>3. ASSUME NEW r \in Slot, BodyFails(r), UNCHANGED load PROVE Control'
  <2>1. req[r] \in load.requests /\ req' = [req EXCEPT ![r] = req[r]]
    BY <1>3 DEF BodyFails, Keep, Control
  <2> QED
    <3>1. /\ ~Active(r) /\ UNCHANGED <<mode, queue>> /\ 400 \in Statuses
          /\ pc' = [pc EXCEPT ![r] = "done"] /\ status' = [status EXCEPT ![r] = 400]
      BY <1>3 DEF BodyFails, Keep, Active, Statuses
    <3>2. req[r] \in load.requests \cup {NoRequest} /\ "done" \in {"idle", "body", "done"}
      BY <2>1
    <3> QED
      BY <1>3, <2>1, <3>1, <3>2, ControlPassive, ZenonT(60)
<1>4. ASSUME NEW r \in Slot, Return(r), UNCHANGED load PROVE Control'
  <2>1. /\ ~Active(r) /\ UNCHANGED <<mode, queue>> /\ 0 \in Statuses
        /\ pc' = [pc EXCEPT ![r] = "idle"] /\ status' = [status EXCEPT ![r] = 0]
        /\ req' = [req EXCEPT ![r] = NoRequest]
    BY <1>4 DEF Return, Active, Statuses
  <2>2. NoRequest \in load.requests \cup {NoRequest} /\ "idle" \in {"idle", "body", "done"}
    OBVIOUS
  <2> QED
    BY <1>4, <2>1, <2>2, ControlPassive
<1>5. ASSUME Crash, UNCHANGED load PROVE Control'
  <2>1. /\ pc' = [r \in Slot |-> "idle"] /\ req' = [r \in Slot |-> NoRequest] /\ mode' = "down"
        /\ status' = [r \in Slot |-> 0] /\ queue' = <<>> /\ load' = load
    BY <1>5 DEF Crash
  <2>2. queue' \in Seq(Slot) /\ Distinct(queue)' /\ \A r \in Slot : ~In(r, queue)' /\ ~Locked(r)'
    BY <2>1, EmptySeq DEF Distinct, In, Locked, Active
  <2> QED
    BY <2>1, <2>2 DEF Control, Awaits, Statuses
<1>6. ASSUME Shutdown \/ Exit \/ Restart \/ UNCHANGED <<load, vars>>, UNCHANGED load PROVE Control'
  <2>1. UNCHANGED <<queue, req, pc, status>> /\ mode' \in {"up", "closing", "down"}
    BY <1>6 DEF Shutdown, Exit, Restart, vars, local_vars, Control
  <2> QED
    BY <1>6, <2>1 DEF Control, Locked, Active, In, Distinct
<1>7. ASSUME NEW r \in Slot, Step(r), UNCHANGED load PROVE Control'
  BY <1>2, <1>3, <1>7, ControlAwait DEF Step, Await
<1> QED
  BY <1>1, <1>4, <1>5, <1>6, <1>7, ControlAwait DEF Next

-----------------------------------------------------------------------------
(* The files.                                                              *)

LEMMA FilesInit == Init => Files /\ NoHalf
  BY BodyAssumption, FileAssumption DEF Init, Files, Carried, NoHalf, Content

LEMMA KeptTyped ==
  ASSUME Files, Observe
  PROVE  kept' \in [Slot -> SUBSET File]
<1>1. Present' \subseteq File
  BY DEF Present
<1>2. \A r \in Slot : kept[r] \in SUBSET File
  BY DEF Files
<1> QED
  BY <1>1, <1>2 DEF Observe

\* What a request needs to be in order for the files it touches.
LEMMA Touched ==
  ASSUME Control, NEW r \in Slot, pc[r] \notin {"idle", "body", "done"}
  PROVE  /\ req[r].op \in {"get", "put", "delete", "move", "copy"} => req[r].path \in File
         /\ req[r].dest \in File /\ req[r].body \in Body /\ req[r].op \in Ops
         /\ req[r].path \in File \cup Dir
         /\ req[r].op \in {"put", "move", "copy"} => Target(req[r]) \in File
         /\ req[r].op \in {"move", "copy"} => req[r].path # req[r].dest
         /\ Awaiting(req[r], pc[r]) /\ req[r] \in load.requests
         /\ req[r].op = "mkdir" => req[r].path \in Dir
<1>1. req[r] \in load.requests /\ load \in Load /\ Awaiting(req[r], pc[r])
  BY DEF Control
<1> QED
  BY <1>1, Asked DEF Target

\* The step of one request, for the others.
LEMMA CarriedStep ==
  ASSUME Files, NEW r \in Slot, Carried(r)',
         \A s \in Slot \ {r} : /\ pc'[s] = pc[s] /\ temp'[s] = temp[s]
                               /\ seen'[s] = seen[s] /\ req'[s] = req[s]
  PROVE  \A s \in Slot : Carried(s)'
<1>1. ASSUME NEW s \in Slot \ {r} PROVE Carried(s)'
  <2>1. Carried(s)
    BY DEF Files
  <2> QED
    BY <1>1, <2>1 DEF Carried
<1> QED
  BY <1>1

LEMMA FilesAwait ==
  ASSUME Control, Files, NEW r \in Slot, Await(r) \/ OperationFails(r)
  PROVE  Files'
<1> USE DEF Keep
<1>a. /\ disk \in [File -> Content] /\ dirs \subseteq Dir /\ litter \subseteq File
      /\ temp \in [Slot -> Content] /\ seen \in [Slot -> Content]
      /\ todo \in [Slot -> SUBSET Entry] /\ found \in [Slot -> SUBSET Entry]
      /\ Carried(r) /\ pc \in [Slot -> Awaits]
  BY DEF Files, Control
<1>b. /\ UNCHANGED req /\ kept' \in [Slot -> SUBSET File]
      /\ pc[r] \notin {"idle", "body", "done"}
      /\ \A s \in Slot \ {r} : pc'[s] = pc[s]
  BY <1>a, KeptTyped DEF Await, Go, Finish, At, OperationFails, Read, Check, WriteTemp, Rename, Unlink, StatDest, MakeDest,
         MoveFile, MoveFails, ReadSource, UnlinkSource, StatDir, StatParent, MakeDir, Props, ReadForETag,
         ReadDir, StatEntry, EntriesDone, ListBlobs
<1>c. Nothing \in Content /\ Body \subseteq Content /\ Half \in Content /\ Nothing \notin Body /\ Half # Nothing
  BY BodyAssumption DEF Content, Value
<1>d. Parent \in [File \cup (Dir \ {Root}) -> Dir]
  BY FileAssumption
<1>1. ASSUME UNCHANGED <<disk, dirs, litter, temp, todo, found>>, pc[r] # "rename", pc'[r] # "rename",
             pc'[r] \in {"mkparents", "unlinksource"} /\ req[r].op \in {"move", "copy"} => seen'[r] # Nothing,
             \/ UNCHANGED seen
             \/ \E v \in Content : seen' = [seen EXCEPT ![r] = v]
      PROVE  Files'
  <2>1. seen' \in [Slot -> Content] /\ \A s \in Slot \ {r} : seen'[s] = seen[s]
    BY <1>1, <1>a
  <2>2. Carried(r)'
    BY <1>1, <1>a, <1>b DEF Carried
  <2>3. \A s \in Slot : Carried(s)'
    BY <1>1, <1>b, <2>1, <2>2, CarriedStep
  <2> QED
    BY <1>1, <1>a, <1>b, <2>1, <2>3 DEF Files
<1>2. CASE Read(r) \/ ReadForETag(r)
  <2>1. req[r].path \in File
    BY <1>2, <1>b, Touched DEF Read, ReadForETag, At, Awaiting
  <2>2. \E v \in Content : seen' = [seen EXCEPT ![r] = v]
    BY <1>2, <2>1, <1>a DEF Read, ReadForETag
  <2>3. pc[r] # "rename" /\ pc'[r] = "done"
    BY <1>2, <1>a DEF Read, ReadForETag, Finish, At
  <2> QED
    BY <1>1, <1>2, <2>2, <2>3 DEF Read, ReadForETag
<1>3. CASE Check(r) \/ StatDest(r) \/ MoveFails(r) \/ StatDir(r) \/ StatParent(r)
  <2>1. pc[r] \in {"check", "stat", "move", "statdir", "statparent"}
        /\ pc'[r] \in {"mkparents", "mkdest", "readsource", "statparent", "makedir", "done"}
        /\ (pc'[r] = "mkparents" => pc[r] = "check")
    BY <1>3, <1>a DEF Check, StatDest, MoveFails, StatDir, StatParent, Go, Finish, At
  <2>2. pc[r] = "check" => req[r].op = "put"
    BY <1>b, Touched DEF Awaiting
  <2> QED
    BY <1>1, <1>3, <2>1, <2>2 DEF Check, StatDest, MoveFails, StatDir, StatParent
<1>4. CASE ReadSource(r)
  <2>1. req[r].path \in File
    BY <1>4, <1>b, Touched DEF ReadSource, At, Awaiting
  <2>2. \E v \in Content : seen' = [seen EXCEPT ![r] = v] /\ (v = Nothing => pc'[r] = "done")
    BY <1>4, <2>1, <1>a DEF ReadSource, Finish
  <2>3. pc[r] = "readsource" /\ pc'[r] \in {"mkparents", "done"}
    BY <1>4, <1>a DEF ReadSource, Finish, Go, At
  <2> QED
    BY <1>1, <1>4, <1>a, <2>2, <2>3 DEF ReadSource
<1>5. CASE WriteTemp(r)
  <2>1. pc[r] = "mkparents" /\ pc'[r] = "rename" /\ req[r].op \in {"put", "move", "copy"}
    BY <1>5, <1>a, <1>b, Touched DEF WriteTemp, Go, At, Awaiting
  <2>2. PICK v \in Content : v # Nothing /\ temp' = [temp EXCEPT ![r] = v]
    <3>1. (IF req[r].op = "put" THEN req[r].body ELSE seen[r]) \in Content \ {Nothing}
      BY <1>a, <1>b, <1>c, <2>1, Touched DEF Carried
    <3> QED
      BY <1>5, <1>c, <3>1 DEF WriteTemp
  <2>3. dirs' \subseteq Dir
    BY <1>5, <1>a, <1>b, <1>d, <2>1, Touched DEF WriteTemp
  <2>4. temp' \in [Slot -> Content] /\ temp'[r] = v /\ \A s \in Slot \ {r} : temp'[s] = temp[s]
    BY <2>2, <1>a
  <2>5. Carried(r)'
    BY <1>5, <1>a, <1>b, <2>1, <2>2, <2>4 DEF Carried, WriteTemp
  <2>6. \A s \in Slot : Carried(s)'
    BY <1>5, <1>b, <2>4, <2>5, CarriedStep DEF WriteTemp
  <2> QED
    BY <1>5, <1>a, <1>b, <2>3, <2>4, <2>6 DEF Files, WriteTemp
<1>6. CASE Rename(r)
  <2>1. /\ pc[r] = "rename" /\ pc'[r] # "rename" /\ req[r].op \in {"put", "move", "copy"}
        /\ (pc'[r] = "unlinksource" \/ pc'[r] = "done")
    BY <1>6, <1>a, <1>b, Touched DEF Rename, Go, Finish, At, Awaiting
  <2>2. disk' \in [File -> Content]
    BY <1>6, <1>a, <1>b, <2>1, Touched DEF Rename
  <2>4. temp' \in [Slot -> Content] /\ temp'[r] = Nothing /\ \A s \in Slot \ {r} : temp'[s] = temp[s]
    BY <1>6, <1>a, <1>c DEF Rename
  <2>5. Carried(r)'
    BY <1>6, <1>a, <1>b, <2>1, <2>4 DEF Carried, Rename
  <2>6. \A s \in Slot : Carried(s)'
    BY <1>6, <1>b, <2>4, <2>5, CarriedStep DEF Rename
  <2> QED
    BY <1>6, <1>a, <1>b, <2>2, <2>4, <2>6 DEF Files, Rename
<1>7. CASE Unlink(r) \/ UnlinkSource(r) \/ MoveFile(r)
  <2>1. /\ pc[r] \in {"unlink", "unlinksource", "move"} /\ pc'[r] = "done" /\ req[r].path \in File /\ req[r].dest \in File
    BY <1>7, <1>a, <1>b, Touched DEF Unlink, UnlinkSource, MoveFile, Finish, At, Awaiting
  <2>2. disk' \in [File -> Content]
    BY <1>7, <1>a, <1>c, <2>1 DEF Unlink, UnlinkSource, MoveFile
  <2>3. seen' \in [Slot -> Content] /\ \A s \in Slot \ {r} : seen'[s] = seen[s]
    BY <1>7, <1>a, <2>1 DEF Unlink, UnlinkSource, MoveFile
  <2>4. UNCHANGED <<dirs, litter, temp, todo, found>>
    BY <1>7 DEF Unlink, UnlinkSource, MoveFile
  <2>5. Carried(r)'
    BY <1>a, <2>1, <2>4 DEF Carried
  <2>6. \A s \in Slot : Carried(s)'
    BY <1>b, <2>3, <2>4, <2>5, CarriedStep
  <2> QED
    BY <1>a, <1>b, <2>2, <2>3, <2>4, <2>6 DEF Files
<1>8. CASE MakeDest(r) \/ MakeDir(r)
  <2>1. /\ pc[r] \in {"mkdest", "makedir"} /\ pc'[r] \in {"move", "readsource", "done"}
        /\ (pc[r] = "makedir" => req[r].op = "mkdir")
    BY <1>8, <1>a, <1>b, Touched DEF MakeDest, MakeDir, Finish, Go, At, Awaiting
  <2>2. dirs' \subseteq Dir
    BY <1>8, <1>a, <1>b, <1>d, <2>1, Touched DEF MakeDest, MakeDir, At
  <2>4. UNCHANGED <<disk, litter, temp, seen, todo, found>>
    BY <1>8 DEF MakeDest, MakeDir
  <2>5. Carried(r)'
    BY <1>a, <2>1, <2>4 DEF Carried
  <2>6. \A s \in Slot : Carried(s)'
    BY <1>b, <2>4, <2>5, CarriedStep
  <2> QED
    BY <1>a, <1>b, <2>2, <2>4, <2>6 DEF Files
<1>9. CASE Props(r) \/ ReadDir(r) \/ StatEntry(r) \/ EntriesDone(r) \/ ListBlobs(r)
  <2>1. pc[r] # "rename" /\ pc'[r] \notin {"rename", "mkparents", "unlinksource"}
    BY <1>9, <1>a DEF Props, ReadDir, StatEntry, EntriesDone, ListBlobs, Finish, Go, At
  <2>2. UNCHANGED <<disk, dirs, litter, temp, seen>>
    BY <1>9 DEF Props, ReadDir, StatEntry, EntriesDone, ListBlobs
  <2>3. Children(req[r].path) \subseteq Entry
    <3>1. Temps \subseteq File
      <4>1. ASSUME NEW s \in Slot, temp[s] # Nothing PROVE Target(req[s]) \in File
        <5>1. pc[s] = "rename"
          BY <4>1 DEF Files, Carried
        <5> QED
          BY <5>1, Touched DEF Awaiting
      <4> QED
        BY <4>1, <1>a DEF Temps
    <3>2. \A f \in File \cup Dir : Plain(f) \in Entry /\ [file |-> f, tmp |-> TRUE] \in Entry
      BY DEF Plain, Entry
    <3>3. /\ {Plain(f) : f \in {g \in Present : Parent[g] = req[r].path}} \subseteq Entry
          /\ {Plain(e) : e \in {s \in dirs \ {Root} : Parent[s] = req[r].path}} \subseteq Entry
          /\ {[file |-> f, tmp |-> TRUE] : f \in {g \in Temps : Parent[g] = req[r].path}} \subseteq Entry
      BY <3>1, <3>2, <1>a DEF Present
    <3> QED
      BY <3>3 DEF Children
  <2>4. Plain(req[r].path) \in Entry
    BY <1>b, Touched DEF Plain, Entry
  <2>5. todo' \in [Slot -> SUBSET Entry] /\ found' \in [Slot -> SUBSET Entry]
    <3>1. CASE Props(r)
      BY <3>1, <1>a, <2>4 DEF Props
    <3>2. CASE ReadDir(r)
      BY <3>2, <1>a, <2>3 DEF ReadDir
    <3>3. CASE StatEntry(r)
      BY <3>3, <1>a DEF StatEntry
    <3>4. CASE EntriesDone(r)
      BY <3>4, <1>a DEF EntriesDone
    <3>5. CASE ListBlobs(r)
      <4>1. {e \in Children(req[r].path) : ~e.tmp /\ e.file \in File} \in SUBSET Entry
        BY <2>3
      <4> QED
        BY <3>5, <1>a, <4>1 DEF ListBlobs
    <3> QED
      BY <1>9, <3>1, <3>2, <3>3, <3>4, <3>5
  <2>6. Carried(r)'
    BY <1>a, <2>1, <2>2 DEF Carried
  <2>7. \A s \in Slot : Carried(s)'
    BY <1>b, <2>2, <2>6, CarriedStep
  <2> QED
    BY <1>a, <1>b, <2>2, <2>5, <2>7 DEF Files
<1>10. CASE OperationFails(r)
  <2>1. pc'[r] = "done" /\ UNCHANGED <<disk, dirs, seen, todo, found>>
    BY <1>10, <1>a DEF OperationFails, Finish
  <2>2. temp' \in [Slot -> Content] /\ temp'[r] = Nothing /\ \A s \in Slot \ {r} : temp'[s] = temp[s]
    BY <1>10, <1>a, <1>c DEF OperationFails
  <2>3. litter' \subseteq File
    <3>1. temp[r] # Nothing => Target(req[r]) \in File
      BY <1>a, <1>b, Touched DEF Carried, Awaiting
    <3> QED
      BY <1>10, <1>a, <3>1 DEF OperationFails
  <2>4. Carried(r)'
    BY <2>1, <2>2 DEF Carried
  <2>5. \A s \in Slot : Carried(s)'
    BY <1>b, <2>1, <2>2, <2>4, CarriedStep
  <2> QED
    BY <1>a, <1>b, <2>1, <2>2, <2>3, <2>5 DEF Files
<1> QED
  BY <1>2, <1>3, <1>4, <1>5, <1>6, <1>7, <1>8, <1>9, <1>10 DEF Await

LEMMA FilesStep ==
  ASSUME Control, Files, [Next]_<<load, vars>>
  PROVE  Files'
<1>a. /\ disk \in [File -> Content] /\ dirs \subseteq Dir /\ litter \subseteq File
      /\ temp \in [Slot -> Content] /\ seen \in [Slot -> Content]
      /\ todo \in [Slot -> SUBSET Entry] /\ found \in [Slot -> SUBSET Entry]
      /\ kept \in [Slot -> SUBSET File] /\ pc \in [Slot -> Awaits]
      /\ Nothing \in Content
  BY DEF Files, Control, Content
<1>1. ASSUME NEW r \in Slot, pc[r] \in {"idle", "body", "done"}, pc'[r] \notin {"rename", "unlinksource"},
             pc'[r] = "mkparents" => req'[r].op = "put",
             UNCHANGED <<disk, dirs, litter, temp>>, Observe,
             \A s \in Slot \ {r} : /\ pc'[s] = pc[s] /\ req'[s] = req[s] /\ seen'[s] = seen[s],
             \/ UNCHANGED <<seen, todo, found>>
             \/ /\ seen' = [seen EXCEPT ![r] = Nothing]
                /\ found' = [found EXCEPT ![r] = {}] /\ todo' = [todo EXCEPT ![r] = {}]
      PROVE  Files'
  <2>1. seen' \in [Slot -> Content] /\ todo' \in [Slot -> SUBSET Entry] /\ found' \in [Slot -> SUBSET Entry]
    BY <1>1, <1>a
  <2>2. kept' \in [Slot -> SUBSET File]
    BY <1>1, KeptTyped
  <2>3. Carried(r)
    BY DEF Files
  <2>4. Carried(r)'
    BY <1>1, <2>3 DEF Carried
  <2>5. \A s \in Slot : Carried(s)'
    BY <1>1, <2>4, CarriedStep
  <2> QED
    BY <1>1, <1>a, <2>1, <2>2, <2>5 DEF Files
<1>2. ASSUME NEW r \in Slot, NEW q \in load.requests, Arrive(r, q) PROVE Files'
  <2>1. pc'[r] \notin {"rename", "unlinksource"} /\ (pc'[r] = "mkparents" => req'[r].op = "put")
    BY <1>2, <1>a, Firsts DEF Arrive, Enter, Control
  <2>2. \A s \in Slot \ {r} : pc'[s] = pc[s] /\ req'[s] = req[s]
    BY <1>2, <1>a DEF Arrive, Enter, Control
  <2> QED
    BY <1>1, <1>2, <2>1, <2>2 DEF Arrive
<1>3. ASSUME NEW r \in Slot, BodyEnds(r) \/ BodyFails(r) PROVE Files'
  <2>1. req[r] \in load.requests /\ load \in Load
    BY <1>3 DEF Control, BodyEnds, BodyFails
  <2>2. pc'[r] \notin {"rename", "unlinksource"} /\ (pc'[r] = "mkparents" => req[r].op = "put")
    BY <1>3, <1>a, <2>1, Firsts DEF BodyEnds, BodyFails, Enter
  <2>3. \A s \in Slot \ {r} : pc'[s] = pc[s]
    BY <1>3, <1>a DEF BodyEnds, BodyFails, Enter
  <2> QED
    BY <1>1, <1>3, <2>2, <2>3 DEF BodyEnds, BodyFails, Keep
<1>4. ASSUME NEW r \in Slot, Return(r) PROVE Files'
  <2>1. pc'[r] = "idle" /\ \A s \in Slot \ {r} : pc'[s] = pc[s] /\ req'[s] = req[s] /\ seen'[s] = seen[s]
    BY <1>4, <1>a DEF Return, Control
  <2> QED
    BY <1>1, <1>4, <2>1 DEF Return
<1>5. ASSUME Crash PROVE Files'
  <2>1. Temps \subseteq File
    <3>1. ASSUME NEW s \in Slot, temp[s] # Nothing PROVE Target(req[s]) \in File
      <4>1. pc[s] = "rename"
        BY <3>1 DEF Files, Carried
      <4> QED
        BY <4>1, Touched DEF Awaiting
    <3> QED
      BY <3>1, <1>a DEF Temps
  <2>2. \A r \in {s \in Slot : pc[s] = "mkparents" /\ At(s, pc[s])} : Target(req[r]) \in File
    BY Touched DEF Awaiting
  <2>3. litter' \subseteq File
    BY <1>5, <2>1, <2>2 DEF Crash
  <2>4. \A r \in Slot : Carried(r)'
    BY <1>5 DEF Crash, Carried
  <2>5. kept' \in [Slot -> SUBSET File]
    BY <1>5, KeptTyped DEF Crash
  <2>6. /\ temp' \in [Slot -> Content] /\ seen' \in [Slot -> Content]
        /\ todo' \in [Slot -> SUBSET Entry] /\ found' \in [Slot -> SUBSET Entry]
    BY <1>5, <1>a DEF Crash
  <2> QED
    BY <1>5, <1>a, <2>3, <2>4, <2>5, <2>6 DEF Files, Crash
<1>6. ASSUME Shutdown \/ Exit \/ Restart \/ UNCHANGED <<load, vars>> PROVE Files'
  <2>1. UNCHANGED <<disk, dirs, litter, temp, seen, todo, found, kept, req, pc>>
    BY <1>6 DEF Shutdown, Exit, Restart, vars, local_vars
  <2> QED
    BY <2>1 DEF Files, Carried
<1> QED
  BY <1>2, <1>3, <1>4, <1>5, <1>6, FilesAwait DEF Next, Step, Await

LEMMA TypesCorrect == Spec => [](Control /\ Files)
<1>1. Control /\ Files /\ [Next]_<<load, vars>> => Control' /\ Files'
  BY ControlStep, FilesStep
<1> QED
  BY ControlInit, FilesInit, <1>1, PTL DEF Spec

\* Unless a write was cut short, nothing that is not whole is anywhere.
LEMMA NoHalfStep ==
  ASSUME Control, Files, NoHalf, [Next]_<<load, vars>>
  PROVE  NoHalf'
<1> SUFFICES ASSUME "short" \notin load.faults, "short" \notin load'.faults
             PROVE  /\ \A f \in File : disk'[f] # Half
                    /\ \A r \in Slot : temp'[r] # Half /\ seen'[r] # Half
  BY DEF NoHalf, Next, vars
<1>a. /\ \A f \in File : disk[f] # Half
      /\ \A r \in Slot : temp[r] # Half /\ seen[r] # Half
      /\ disk \in [File -> Content] /\ temp \in [Slot -> Content] /\ seen \in [Slot -> Content]
      /\ Nothing # Half /\ Half \notin Body
  BY BodyAssumption DEF NoHalf, Files
<1>1. ASSUME NEW r \in Slot, WriteTemp(r)
      PROVE  \A s \in Slot : temp'[s] # Half
  <2>1. req[r].body # Half
    BY <1>1, <1>a, Touched DEF WriteTemp, At
  <2> QED
    BY <1>1, <1>a, <2>1 DEF WriteTemp
<1>2. ASSUME NEW r \in Slot, Read(r) \/ ReadForETag(r) \/ ReadSource(r) \/ MoveFile(r)
      PROVE  (\A s \in Slot : seen'[s] # Half) /\ \A f \in File : disk'[f] # Half
  <2>1. req[r].path \in File
    BY <1>2, Touched DEF Read, ReadForETag, ReadSource, MoveFile, At, Awaiting
  <2> QED
    BY <1>2, <1>a, <2>1 DEF Read, ReadForETag, ReadSource, MoveFile, Keep
<1>3. ASSUME NEW r \in Slot, Rename(r)
      PROVE  /\ \A f \in File : disk'[f] # Half
             /\ \A s \in Slot : temp'[s] # Half
  BY <1>3, <1>a DEF Rename
<1>4. ASSUME NEW r \in Slot, Unlink(r) \/ UnlinkSource(r)
      PROVE  \A f \in File : disk'[f] # Half
  BY <1>4, <1>a DEF Unlink, UnlinkSource
<1>5. ASSUME NEW r \in Slot, OperationFails(r)
      PROVE  \A s \in Slot : temp'[s] # Half
  BY <1>5, <1>a DEF OperationFails
<1>6. ASSUME NEW r \in Slot, Return(r)
      PROVE  \A s \in Slot : seen'[s] # Half
  BY <1>6, <1>a DEF Return
<1>7. ASSUME Crash
      PROVE  \A s \in Slot : temp'[s] # Half /\ seen'[s] # Half
  BY <1>7, <1>a DEF Crash
<1>8. ASSUME NEW r \in Slot, Step(r)
      PROVE  /\ \A f \in File : disk'[f] # Half
             /\ \A s \in Slot : temp'[s] # Half /\ seen'[s] # Half
  BY <1>1, <1>2, <1>3, <1>4, <1>8, <1>a
     DEF Step, BodyEnds, BodyFails, Keep, Read, Check, WriteTemp, Rename, Unlink, StatDest, MakeDest,
         MoveFile, MoveFails, ReadSource, UnlinkSource, StatDir, StatParent, MakeDir, Props, ReadForETag,
         ReadDir, StatEntry, EntriesDone, ListBlobs
<1>9. ASSUME Shutdown \/ Exit \/ Restart \/ UNCHANGED <<load, vars>> \/ \E r \in Slot, q \in load.requests : Arrive(r, q)
      PROVE  UNCHANGED <<disk, temp, seen>>
  BY <1>9 DEF Shutdown, Exit, Restart, vars, local_vars, Arrive
<1> QED
  BY <1>5, <1>6, <1>7, <1>8, <1>9, <1>a DEF Next, OperationFails, Return, Crash, Keep

\* Whatever clients ask, in any number, whatever file operation fails and
\* whenever the process dies: locks, answers, files and listings keep their shape,
\* and no file is ever half written, unless the disk is full (atomicWrite).
THEOREM StoreCorrect == Spec => []StoreOK
<1>1. Spec => []NoHalf
  <2>1. Control /\ Files /\ NoHalf /\ [Next]_<<load, vars>> => NoHalf'
    BY NoHalfStep
  <2> QED
    BY <2>1, FilesInit, TypesCorrect, PTL DEF Spec
<1>2. Control /\ Files /\ NoHalf => StoreOK
  BY DEF Control, Files, NoHalf, StoreOK, TypeOK, Whole
<1> QED
  BY <1>1, <1>2, TypesCorrect, PTL

-----------------------------------------------------------------------------
(* What listings contain.                                                  *)

LEMMA KeptStep ==
  ASSUME Observe, NEW r \in Slot
  PROVE  /\ kept'[r] \subseteq Present' /\ (pc[r] # "idle" => kept'[r] \subseteq kept[r])
         /\ kept'[r] # {} => pc'[r] # "idle" /\ req'[r].op \in {"propfind", "list"}
  BY DEF Observe

\* Where a request stands that has nothing to tell yet.
LEMMA ListedSame ==
  ASSUME Observe, NEW r \in Slot, Listed(r), req'[r] = req[r] \/ pc'[r] \in {"idle", "body"},
         pc'[r] \in {"idle", "body"} \/ req'[r].op = "list" => found'[r] = found[r] \/ found'[r] = {},
         pc'[r] \in {"idle", "body"} => found'[r] = {},
         pc'[r] = "statentry" => /\ pc[r] = "statentry" /\ req'[r] = req[r]
                                 /\ todo'[r] = todo[r] /\ found'[r] = found[r],
         pc'[r] = "done" /\ status'[r] = 200 /\ (req'[r].op = "list" \/ req'[r].deep) =>
             \/ pc[r] = "done" /\ req'[r] = req[r] /\ status'[r] = status[r] /\ found'[r] = found[r]
             \/ req[r].op \notin {"propfind", "list"} /\ req'[r] = req[r]
  PROVE  Listed(r)'
<1>1. kept'[r] \subseteq Present' /\ (pc[r] # "idle" => kept'[r] \subseteq kept[r])
      /\ (kept'[r] # {} => pc'[r] # "idle" /\ req'[r].op \in {"propfind", "list"})
  BY KeptStep
<1>2. pc'[r] = "statentry" => \A f \in kept'[r] : Parent[f] = req'[r].path => Plain(f) \in todo'[r] \cup found'[r]
  BY <1>1 DEF Listed
<1>3. pc'[r] = "done" /\ status'[r] = 200 /\ (req'[r].op = "list" \/ req'[r].deep) =>
          \A f \in kept'[r] : Parent[f] = req'[r].path => Plain(f) \in found'[r]
  BY <1>1 DEF Listed
<1>4. req'[r].op = "list" => \A e \in found'[r] : ~e.tmp /\ e.file \in File
  BY DEF Listed
<1> QED
  BY <1>1, <1>2, <1>3, <1>4 DEF Listed

\* A request that another one's step leaves alone.
LEMMA ListedFrame ==
  ASSUME Observe, NEW s \in Slot, Listed(s), req'[s] = req[s], pc'[s] = pc[s], status'[s] = status[s],
         todo'[s] = todo[s], found'[s] = found[s]
  PROVE  Listed(s)'
<1>1. pc[s] \in {"idle", "body"} => found[s] = {}
  BY DEF Listed
<1> QED
  BY <1>1, ListedSame

\* The steps of an operation that lists nothing, and a failure.
LEMMA ListedOther ==
  ASSUME Control, Observe, NEW r \in Slot, Listed(r), UNCHANGED <<req, found>>,
         pc[r] \notin {"idle", "body", "done"}, pc'[r] \notin {"idle", "body", "statentry"},
         \/ req[r].op \notin {"propfind", "list"}
         \/ pc'[r] = "done" => status'[r] # 200
  PROVE  Listed(r)'
  BY ListedSame

LEMMA ListedAwait ==
  ASSUME Control, Files, NEW r \in Slot, Listed(r), Await(r) \/ OperationFails(r)
  PROVE  Listed(r)'
<1> USE DEF Keep
<1>a. /\ pc \in [Slot -> Awaits] /\ status \in [Slot -> Statuses]
      /\ todo \in [Slot -> SUBSET Entry] /\ found \in [Slot -> SUBSET Entry]
      /\ Parent \in [File \cup (Dir \ {Root}) -> Dir] /\ File \cap Dir = {}
  BY FileAssumption DEF Files, Control
<1>b. UNCHANGED req /\ Observe /\ pc[r] \notin {"idle", "body", "done"}
  BY <1>a DEF Await, Go, Finish, At, OperationFails, Read, Check, WriteTemp, Rename, Unlink, StatDest, MakeDest,
         MoveFile, MoveFails, ReadSource, UnlinkSource, StatDir, StatParent, MakeDir, Props, ReadForETag,
         ReadDir, StatEntry, EntriesDone, ListBlobs
<1>c. kept'[r] \subseteq Present' /\ kept'[r] \subseteq kept[r] /\ kept[r] \subseteq Present
      /\ (kept'[r] # {} => pc'[r] # "idle" /\ req'[r].op \in {"propfind", "list"})
  BY <1>b, KeptStep DEF Listed
<1>d. Awaiting(req[r], pc[r]) /\ req[r].op \in Ops /\ req[r].path \in File \cup Dir
  BY <1>b, Touched
<1>1. CASE Read(r) \/ Check(r) \/ WriteTemp(r) \/ Rename(r) \/ Unlink(r) \/ StatDest(r) \/ MakeDest(r)
  <2>1. pc[r] \in {"read", "check", "mkparents", "rename", "unlink", "stat", "mkdest"}
        /\ pc'[r] \in {"mkparents", "rename", "unlinksource", "mkdest", "move", "readsource", "done"} /\ UNCHANGED found
    BY <1>1, <1>a DEF Read, Check, WriteTemp, Rename, Unlink, StatDest, MakeDest, Go, Finish, At
  <2>2. req[r].op \notin {"propfind", "list"}
    BY <1>d, <2>1 DEF Awaiting
  <2> QED
    BY <1>b, <2>1, <2>2, ListedOther
<1>2. CASE MoveFile(r) \/ MoveFails(r) \/ ReadSource(r) \/ UnlinkSource(r) \/ StatDir(r) \/ StatParent(r) \/ MakeDir(r)
  <2>1. pc[r] \in {"move", "readsource", "unlinksource", "statdir", "statparent", "makedir"}
        /\ pc'[r] \in {"readsource", "mkparents", "statparent", "makedir", "done"} /\ UNCHANGED found
    BY <1>2, <1>a DEF MoveFile, MoveFails, ReadSource, UnlinkSource, StatDir, StatParent, MakeDir, Go, Finish, At
  <2>2. req[r].op \notin {"propfind", "list"}
    BY <1>d, <2>1 DEF Awaiting
  <2> QED
    BY <1>b, <2>1, <2>2, ListedOther
<1>3. CASE OperationFails(r)
  <2>1. pc'[r] = "done" /\ status'[r] = 500 /\ UNCHANGED found
    BY <1>3, <1>a, <1>d, Errors DEF OperationFails, Finish
  <2> QED
    BY <1>b, <2>1, ListedOther
\* The entry of a file has no files in it.
<1>4. ASSUME req[r].op = "propfind", pc'[r] \notin {"idle", "body", "statentry"},
             pc'[r] = "done" /\ status'[r] = 200 /\ req[r].deep => req[r].path \in File
      PROVE  Listed(r)'
  <2>1. req[r].path \in File => \A f \in kept'[r] : Parent[f] # req[r].path
    <3>1. kept'[r] \subseteq File
      BY <1>c DEF Present
    <3> QED
      BY <1>a, <3>1
  <2> QED
    BY <1>4, <1>b, <1>c, <2>1 DEF Listed
<1>5. CASE Props(r)
  <2>1. req[r].op = "propfind"
    BY <1>5, <1>d DEF Props, At, Awaiting
  <2>2. pc'[r] \in {"readdir", "etag", "done"}
    BY <1>5, <1>a DEF Props, Go, Finish
  <2>3. pc'[r] = "done" /\ status'[r] = 200 /\ req[r].deep => req[r].path \in File
    <3>1. Answer(req[r], "NotFound") = 404
      BY <2>1, Absences
    <3> QED
      BY <1>5, <1>a, <1>d, <3>1 DEF Props, Go, Finish
  <2> QED
    BY <1>4, <2>1, <2>2, <2>3
<1>6. CASE ReadForETag(r)
  <2>1. req[r].op = "propfind" /\ req[r].path \in File
    BY <1>6, <1>d DEF ReadForETag, At, Awaiting
  <2>2. pc'[r] = "done"
    BY <1>6, <1>a DEF ReadForETag, Finish
  <2> QED
    BY <1>4, <2>1, <2>2
<1>7. CASE ReadDir(r)
  <2>1. todo'[r] = Children(req[r].path) /\ pc'[r] = "statentry" /\ req[r].op = "propfind"
    BY <1>7, <1>a, <1>d DEF ReadDir, Go, At, Awaiting
  <2>2. \A f \in kept'[r] : Parent[f] = req[r].path => Plain(f) \in Children(req[r].path)
    BY <1>c DEF Children, Present
  <2> QED
    BY <1>b, <1>c, <2>1, <2>2 DEF Listed
<1>8. CASE StatEntry(r)
  <2>1. pc[r] = "statentry" /\ pc'[r] = "statentry" /\ req[r].op = "propfind"
    BY <1>8, <1>a, <1>d DEF StatEntry, Go, At, Awaiting
  <2>2. PICK e \in todo[r] : /\ todo' = [todo EXCEPT ![r] = @ \ {e}]
                             /\ \/ Stats(e) /\ found' = [found EXCEPT ![r] = @ \cup {e}]
                                \/ ~Stats(e) /\ UNCHANGED found
    BY <1>8 DEF StatEntry
  <2>3. \A f \in kept'[r] : Stats(Plain(f))
    BY <1>c DEF Stats, Plain
  <2>4. todo'[r] = todo[r] \ {e} /\ found'[r] = IF Stats(e) THEN found[r] \cup {e} ELSE found[r]
    BY <1>a, <2>2
  <2>5. \A f \in kept'[r] : Parent[f] = req[r].path => Plain(f) \in todo'[r] \cup found'[r]
    <3> SUFFICES ASSUME NEW f \in kept'[r], Parent[f] = req[r].path PROVE Plain(f) \in todo'[r] \cup found'[r]
      OBVIOUS
    <3>1. Plain(f) \in todo[r] \cup found[r] /\ Stats(Plain(f))
      BY <1>c, <2>1, <2>3 DEF Listed
    <3> QED
      BY <2>4, <3>1
  <2> QED
    BY <1>b, <1>c, <2>1, <2>5 DEF Listed
<1>9. CASE EntriesDone(r)
  <2>1. /\ pc[r] = "statentry" /\ pc'[r] = "done" /\ req[r].op = "propfind"
        /\ todo[r] = {} /\ UNCHANGED found
    BY <1>9, <1>a, <1>d DEF EntriesDone, Finish, At, Awaiting
  <2>2. \A f \in kept'[r] : Parent[f] = req[r].path => Plain(f) \in found'[r]
    BY <1>c, <2>1 DEF Listed
  <2> QED
    BY <1>b, <1>c, <2>1, <2>2 DEF Listed
<1>10. CASE ListBlobs(r)
  <2>1. /\ pc'[r] = "done" /\ req[r].op = "list"
        /\ found'[r] = {e \in Children(req[r].path) : ~e.tmp /\ e.file \in File}
    BY <1>10, <1>a, <1>d DEF ListBlobs, Finish, At, Awaiting
  <2>2. \A f \in kept'[r] : Parent[f] = req[r].path => Plain(f) \in found'[r]
    <3> SUFFICES ASSUME NEW f \in kept'[r], Parent[f] = req[r].path PROVE Plain(f) \in found'[r]
      OBVIOUS
    <3>1. f \in File /\ Plain(f) \in Children(req[r].path)
      BY <1>c DEF Children, Present
    <3>2. ~Plain(f).tmp /\ Plain(f).file = f
      BY DEF Plain
    <3> QED
      BY <2>1, <3>1, <3>2
  <2> QED
    BY <1>b, <1>c, <2>1, <2>2 DEF Listed
<1> QED
  BY <1>1, <1>2, <1>3, <1>5, <1>6, <1>7, <1>8, <1>9, <1>10 DEF Await

LEMMA ListedStep ==
  ASSUME Control, Files, \A r \in Slot : Listed(r), [Next]_<<load, vars>>
  PROVE  \A r \in Slot : Listed(r)'
<1>a. /\ pc \in [Slot -> Awaits] /\ status \in [Slot -> Statuses] /\ req \in [Slot -> load.requests \cup {NoRequest}]
      /\ todo \in [Slot -> SUBSET Entry] /\ found \in [Slot -> SUBSET Entry]
  BY DEF Files, Control
\* One request makes a step.
<1>1. ASSUME NEW r \in Slot, Listed(r)', Observe,
             \A s \in Slot \ {r} : /\ req'[s] = req[s] /\ pc'[s] = pc[s] /\ status'[s] = status[s]
                                   /\ todo'[s] = todo[s] /\ found'[s] = found[s]
      PROVE  \A s \in Slot : Listed(s)'
  <2>1. ASSUME NEW s \in Slot \ {r} PROVE Listed(s)'
    BY <1>1, <2>1, ListedFrame
  <2> QED
    BY <1>1, <2>1
<1>2. ASSUME NEW r \in Slot, NEW q \in load.requests, Arrive(r, q) PROVE \A s \in Slot : Listed(s)'
  <2>1. /\ pc[r] = "idle" /\ Observe /\ UNCHANGED <<todo, found, status>>
        /\ pc'[r] \notin {"idle", "done", "statentry"}
        /\ \A s \in Slot \ {r} : req'[s] = req[s] /\ pc'[s] = pc[s]
    BY <1>2, <1>a, Firsts DEF Arrive, Enter, Control
  <2>2. found'[r] = {}
    BY <2>1 DEF Listed
  <2>3. kept'[r] \subseteq Present' /\ (kept'[r] # {} => pc'[r] # "idle" /\ req'[r].op \in {"propfind", "list"})
    BY <2>1, KeptStep
  <2>4. Listed(r)'
    BY <2>1, <2>2, <2>3 DEF Listed
  <2> QED
    BY <1>1, <2>1, <2>4
<1>3. ASSUME NEW r \in Slot, BodyEnds(r) \/ BodyFails(r) PROVE \A s \in Slot : Listed(s)'
  <2>1. req[r] \in load.requests /\ load \in Load /\ pc[r] = "body"
    BY <1>3 DEF Control, BodyEnds, BodyFails
  <2>2. /\ Observe /\ UNCHANGED <<req, todo, found>>
        /\ pc'[r] \notin {"idle", "body", "statentry"} /\ (pc'[r] = "done" => status'[r] = 400)
        /\ \A s \in Slot \ {r} : pc'[s] = pc[s] /\ status'[s] = status[s]
    BY <1>3, <1>a, <2>1, Firsts DEF BodyEnds, BodyFails, Enter, Keep
  <2>3. Listed(r)'
    BY <2>2, ListedSame
  <2> QED
    BY <1>1, <2>2, <2>3
<1>4. ASSUME NEW r \in Slot, Return(r) PROVE \A s \in Slot : Listed(s)'
  <2>1. /\ Observe /\ pc'[r] = "idle" /\ found'[r] = {}
        /\ \A s \in Slot \ {r} : /\ req'[s] = req[s] /\ pc'[s] = pc[s] /\ status'[s] = status[s]
                                 /\ todo'[s] = todo[s] /\ found'[s] = found[s]
    BY <1>4, <1>a DEF Return
  <2>2. Listed(r)'
    <3>1. kept'[r] \subseteq Present' /\ (kept'[r] # {} => pc'[r] # "idle" /\ req'[r].op \in {"propfind", "list"})
      BY <2>1, KeptStep
    <3> QED
      BY <2>1, <3>1 DEF Listed
  <2> QED
    BY <1>1, <2>1, <2>2
<1>5. ASSUME NEW r \in Slot, Await(r) \/ OperationFails(r) PROVE \A s \in Slot : Listed(s)'
  <2>1. Listed(r)'
    BY <1>5, ListedAwait
  <2>2. /\ Observe /\ UNCHANGED req
        /\ \A s \in Slot \ {r} : pc'[s] = pc[s] /\ status'[s] = status[s]
    BY <1>5, <1>a DEF Await, Keep, Go, Finish, OperationFails, Read, Check, WriteTemp, Rename, Unlink, StatDest,
           MakeDest, MoveFile, MoveFails, ReadSource, UnlinkSource, StatDir, StatParent, MakeDir, Props,
           ReadForETag, ReadDir, StatEntry, EntriesDone, ListBlobs
  <2>3. \A s \in Slot \ {r} : todo'[s] = todo[s] /\ found'[s] = found[s]
    BY <1>5, <1>a DEF Await, Keep, OperationFails, Read, Check, WriteTemp, Rename, Unlink, StatDest,
           MakeDest, MoveFile, MoveFails, ReadSource, UnlinkSource, StatDir, StatParent, MakeDir, Props,
           ReadForETag, ReadDir, StatEntry, EntriesDone, ListBlobs
  <2> QED
    BY <1>1, <2>1, <2>2, <2>3
<1>6. ASSUME Crash PROVE \A s \in Slot : Listed(s)'
  <2> SUFFICES ASSUME NEW s \in Slot PROVE Listed(s)'
    OBVIOUS
  <2>1. Observe /\ pc'[s] = "idle" /\ found'[s] = {}
    BY <1>6 DEF Crash
  <2>2. kept'[s] \subseteq Present' /\ (kept'[s] # {} => pc'[s] # "idle" /\ req'[s].op \in {"propfind", "list"})
    BY <2>1, KeptStep
  <2> QED
    BY <2>1, <2>2 DEF Listed
<1>7. ASSUME Shutdown \/ Exit \/ Restart \/ UNCHANGED <<load, vars>> PROVE \A s \in Slot : Listed(s)'
  <2>1. UNCHANGED <<disk, todo, found, kept, req, pc, status>>
    BY <1>7 DEF Shutdown, Exit, Restart, vars, local_vars
  <2> QED
    BY <2>1 DEF Listed, Present
<1> QED
  BY <1>2, <1>3, <1>4, <1>5, <1>6, <1>7 DEF Next, Step, Await

\* While files come and go, a listing has every file that was in the directory all
\* the while, is not cut short by one that vanished, and the list of blobs has
\* nothing in it that is not a blob (propFind, listBlobs).
THEOREM ListingsCorrect == Spec => []Listings
<1>1. Init => \A r \in Slot : Listed(r)
  BY DEF Init, Listed, NoRequest
<1>2. Spec => [](\A r \in Slot : Listed(r))
  <2>1. Control /\ Files /\ (\A r \in Slot : Listed(r)) /\ [Next]_<<load, vars>> => (\A r \in Slot : Listed(r))'
    BY ListedStep
  <2> QED
    BY <1>1, <2>1, TypesCorrect, PTL DEF Spec
<1>3. (\A r \in Slot : Listed(r)) => Listings
  BY DEF Listed, Listings, ListingComplete, ListingOfBlobs
<1> QED
  BY <1>2, <1>3, PTL

-----------------------------------------------------------------------------
(* The lock.                                                               *)

\* What every step past the body leaves alone.
LEMMA AwaitFrame ==
  ASSUME Control, Files, NEW r \in Slot, Await(r) \/ OperationFails(r)
  PROVE  /\ UNCHANGED req /\ At(r, pc[r]) /\ pc[r] \notin {"idle", "body", "done"}
         /\ \A s \in Slot \ {r} : /\ pc'[s] = pc[s] /\ status'[s] = status[s]
                                  /\ temp'[s] = temp[s] /\ seen'[s] = seen[s]
<1>a. /\ pc \in [Slot -> Awaits] /\ status \in [Slot -> Statuses]
      /\ temp \in [Slot -> Content] /\ seen \in [Slot -> Content]
  BY DEF Control, Files
<1> QED
  BY <1>a DEF Await, Keep, Go, Finish, At, OperationFails, Read, Check, WriteTemp, Rename, Unlink, StatDest,
         MakeDest, MoveFile, MoveFails, ReadSource, UnlinkSource, StatDir, StatParent, MakeDir, Props,
         ReadForETag, ReadDir, StatEntry, EntriesDone, ListBlobs

\* The steps that change files, and which ones.
LEMMA Changes ==
  ASSUME Control, Files, NEW r \in Slot, Await(r) \/ OperationFails(r)
  PROVE  \/ UNCHANGED disk
         \/ /\ Rename(r) /\ req[r].op \in {"put", "move", "copy"}
            /\ \A f \in File \ {Target(req[r])} : disk'[f] = disk[f]
         \/ /\ Unlink(r) /\ req[r].op = "delete"
            /\ \A f \in File \ {req[r].path} : disk'[f] = disk[f]
         \/ /\ MoveFile(r) /\ req[r].op = "move"
            /\ \A f \in File \ {req[r].path, req[r].dest} : disk'[f] = disk[f]
         \/ /\ UnlinkSource(r) /\ req[r].op = "move"
            /\ \A f \in File \ {req[r].path} : disk'[f] = disk[f]
<1>1. disk \in [File -> Content] /\ Awaiting(req[r], pc[r])
  BY AwaitFrame, Touched DEF Files
<1>2. CASE Rename(r) \/ Unlink(r) \/ MoveFile(r) \/ UnlinkSource(r)
  BY <1>1, <1>2 DEF Rename, Unlink, MoveFile, UnlinkSource, At, Awaiting
<1>3. CASE ~(Rename(r) \/ Unlink(r) \/ MoveFile(r) \/ UnlinkSource(r))
  BY <1>3 DEF Await, Keep, OperationFails, Read, Check, WriteTemp, StatDest,
         MakeDest, MoveFails, ReadSource, StatDir, StatParent, MakeDir, Props,
         ReadForETag, ReadDir, StatEntry, EntriesDone, ListBlobs
<1> QED
  BY <1>2, <1>3

\* Who changes the manifest has the lock, and nobody else is inside.
LEMMA Excluded ==
  ASSUME Control, Files, NEW r \in Slot, Await(r) \/ OperationFails(r), disk'[Manifest] # disk[Manifest],
         NEW s \in Slot \ {r}, NeedsLock(req[s]), pc[s] \in Inner
  PROVE  FALSE
<1>1. At(r, pc[r]) /\ Active(r)
  BY AwaitFrame DEF Active
<1>2. NeedsLock(req[r])
  BY Changes, FileAssumption DEF NeedsLock, Target
<1>3. queue[1] = r
  BY <1>1, <1>2, Heads
<1>4. queue[1] = s
  BY DEF Control, Locked, Active, Inner
<1> QED
  BY <1>3, <1>4

LEMMA GuardedFrame ==
  ASSUME Control, NEW s \in Slot, Guarded(s), req'[s] = req[s], pc'[s] = pc[s], temp'[s] = temp[s],
         seen'[s] = seen[s], UNCHANGED load,
         NeedsLock(req[s]) /\ pc[s] \in Inner => disk'[Manifest] = disk[Manifest]
  PROVE  Guarded(s)'
<1>1. /\ req[s].op = "put" /\ req[s].path = Manifest => NeedsLock(req[s])
      /\ req[s].op \in {"move", "copy"} /\ Manifest \in {req[s].path, req[s].dest} => NeedsLock(req[s])
  BY DEF NeedsLock
<1>2. {"mkparents", "rename", "mkdest", "move", "readsource", "unlinksource"} \subseteq Inner
  BY DEF Inner
<1> QED
  BY <1>1, <1>2 DEF Guarded

LEMMA GuardedAwait ==
  ASSUME Control, Files, NEW r \in Slot, Guarded(r), Await(r) \/ OperationFails(r), UNCHANGED load
  PROVE  Guarded(r)'
<1>a. /\ pc \in [Slot -> Awaits] /\ temp \in [Slot -> Content] /\ seen \in [Slot -> Content]
      /\ disk \in [File -> Content] /\ Manifest \in File
  BY FileAssumption DEF Files, Control
<1>b. /\ UNCHANGED req /\ Awaiting(req[r], pc[r]) /\ At(r, pc[r]) /\ pc[r] \notin {"idle", "body", "done"}
      /\ (req[r].op \in {"move", "copy"} => req[r].path # req[r].dest)
  BY AwaitFrame, Touched
<1>1. CASE pc'[r] \notin {"mkdest", "move", "readsource", "mkparents", "rename", "unlinksource"}
  BY <1>1 DEF Guarded
<1>2. CASE Check(r)
  BY <1>2, <1>1, <1>a, <1>b DEF Check, Go, Finish, Guarded, At, Awaiting, Keep
<1>3. CASE WriteTemp(r)
  <2>1. /\ pc[r] = "mkparents" /\ pc'[r] = "rename" /\ UNCHANGED <<disk, seen>>
    BY <1>3, <1>a DEF WriteTemp, Go, At, Keep
  <2>2. req[r].op = "put" /\ "short" \notin load.faults => temp'[r] = req[r].body
    BY <1>3, <1>a DEF WriteTemp
  <2> QED
    BY <1>b, <2>1, <2>2 DEF Guarded
<1>4. CASE Rename(r)
  <2>1. /\ pc[r] = "rename" /\ pc'[r] \in {"unlinksource", "done"} /\ UNCHANGED seen
        /\ (pc'[r] = "unlinksource" => req[r].op = "move")
    BY <1>4, <1>a DEF Rename, Go, Finish, At, Keep
  <2>2. req[r].op = "move" /\ req[r].path = Manifest => disk'[Manifest] = disk[Manifest]
    BY <1>4, <1>a, <1>b DEF Rename, Target
  <2> QED
    BY <1>b, <2>1, <2>2 DEF Guarded
<1>5. CASE StatDest(r)
  BY <1>5, <1>1, <1>a, <1>b DEF StatDest, Go, Finish, Guarded, At, Awaiting, Keep
<1>6. CASE MakeDest(r) \/ MoveFails(r)
  <2>1. /\ pc[r] \in {"mkdest", "move"} /\ pc'[r] \in {"move", "readsource"} /\ UNCHANGED disk
        /\ req[r].op \in {"move", "copy"}
    BY <1>6, <1>a, <1>b DEF MakeDest, MoveFails, Go, At, Keep, Awaiting
  <2> QED
    BY <1>b, <2>1 DEF Guarded
<1>7. CASE ReadSource(r)
  <2>1. /\ pc[r] = "readsource" /\ pc'[r] \in {"mkparents", "done"} /\ UNCHANGED disk
        /\ req[r].op \in {"move", "copy"} /\ seen'[r] = disk[req[r].path]
    BY <1>7, <1>a, <1>b DEF ReadSource, Go, Finish, At, Keep, Awaiting
  <2> QED
    BY <1>b, <2>1 DEF Guarded
<1>8. CASE ~(Check(r) \/ WriteTemp(r) \/ Rename(r) \/ StatDest(r) \/ MakeDest(r) \/ MoveFails(r) \/ ReadSource(r))
  <2>1. pc'[r] \notin {"mkdest", "move", "readsource", "mkparents", "rename", "unlinksource"}
    BY <1>8, <1>a DEF Await, Go, Finish, OperationFails, Read, Unlink,
         MoveFile, UnlinkSource, StatDir, StatParent, MakeDir, Props,
         ReadForETag, ReadDir, StatEntry, EntriesDone, ListBlobs
  <2> QED
    BY <1>1, <2>1
<1> QED
  BY <1>2, <1>3, <1>4, <1>5, <1>6, <1>7, <1>8

LEMMA GuardedStep ==
  ASSUME Control, Files, \A r \in Slot : Guarded(r), [Next]_<<load, vars>>
  PROVE  \A r \in Slot : Guarded(r)'
<1>a. /\ pc \in [Slot -> Awaits] /\ req \in [Slot -> load.requests \cup {NoRequest}]
      /\ temp \in [Slot -> Content] /\ seen \in [Slot -> Content] /\ load' = load
  BY DEF Files, Control, Next, vars
<1>1. ASSUME NEW r \in Slot, Await(r) \/ OperationFails(r) PROVE \A s \in Slot : Guarded(s)'
  <2>1. Guarded(r)'
    BY <1>1, <1>a, GuardedAwait
  <2>2. ASSUME NEW s \in Slot \ {r} PROVE Guarded(s)'
    <3>1. NeedsLock(req[s]) /\ pc[s] \in Inner => disk'[Manifest] = disk[Manifest]
      BY <1>1, <2>2, Excluded
    <3> QED
      BY <1>1, <1>a, <2>2, <3>1, AwaitFrame, GuardedFrame
  <2> QED
    BY <2>1, <2>2
\* A step before the first await, or after the last.
<1>2. ASSUME NEW r \in Slot, UNCHANGED <<disk, temp>>,
             \/ pc'[r] \notin {"mkdest", "move", "readsource", "mkparents", "rename", "unlinksource"}
             \/ pc'[r] = "mkparents" /\ req'[r].op = "put" /\ req'[r].path # Manifest,
             \A s \in Slot \ {r} : req'[s] = req[s] /\ pc'[s] = pc[s] /\ seen'[s] = seen[s]
      PROVE  \A s \in Slot : Guarded(s)'
  <2>1. Guarded(r)'
    BY <1>2 DEF Guarded
  <2>2. ASSUME NEW s \in Slot \ {r} PROVE Guarded(s)'
    BY <1>2, <1>a, <2>2, GuardedFrame
  <2> QED
    BY <2>1, <2>2
<1>3. ASSUME NEW r \in Slot, NEW q \in load.requests, Arrive(r, q) PROVE \A s \in Slot : Guarded(s)'
  <2>1. /\ \/ pc'[r] = "body" \/ pc'[r] = First(q)
        /\ req'[r] = q /\ \A s \in Slot \ {r} : req'[s] = req[s] /\ pc'[s] = pc[s]
    BY <1>3, <1>a DEF Arrive, Enter
  <2>2. load \in Load
    BY DEF Control
  <2>3. \/ pc'[r] \notin {"mkdest", "move", "readsource", "mkparents", "rename", "unlinksource"}
        \/ pc'[r] = "mkparents" /\ req'[r].op = "put" /\ req'[r].path # Manifest
    BY <2>1, <2>2, Firsts
  <2> QED
    BY <1>2, <1>3, <2>1, <2>3 DEF Arrive
<1>4. ASSUME NEW r \in Slot, BodyEnds(r) \/ BodyFails(r) PROVE \A s \in Slot : Guarded(s)'
  <2>1. req[r] \in load.requests /\ load \in Load /\ req' = req
    BY <1>4 DEF Control, BodyEnds, BodyFails, Keep
  <2>2. /\ \/ pc'[r] = "done" \/ pc'[r] = First(req[r])
        /\ \A s \in Slot \ {r} : pc'[s] = pc[s]
    BY <1>4, <1>a DEF BodyEnds, BodyFails, Enter
  <2>3. \/ pc'[r] \notin {"mkdest", "move", "readsource", "mkparents", "rename", "unlinksource"}
        \/ pc'[r] = "mkparents" /\ req'[r].op = "put" /\ req'[r].path # Manifest
    BY <2>1, <2>2, Firsts
  <2> QED
    BY <1>2, <1>4, <2>1, <2>2, <2>3 DEF BodyEnds, BodyFails, Keep
<1>5. ASSUME NEW r \in Slot, Return(r) PROVE \A s \in Slot : Guarded(s)'
  <2>1. pc'[r] = "idle" /\ \A s \in Slot \ {r} : req'[s] = req[s] /\ pc'[s] = pc[s] /\ seen'[s] = seen[s]
    BY <1>5, <1>a DEF Return
  <2> QED
    BY <1>2, <1>5, <2>1 DEF Return
<1>6. ASSUME Crash PROVE \A s \in Slot : Guarded(s)'
  BY <1>6 DEF Crash, Guarded
<1>7. ASSUME Shutdown \/ Exit \/ Restart \/ UNCHANGED <<load, vars>> PROVE \A s \in Slot : Guarded(s)'
  <2>1. UNCHANGED <<disk, temp, seen, req, pc>>
    BY <1>7 DEF Shutdown, Exit, Restart, vars, local_vars
  <2> QED
    BY <1>a, <2>1 DEF Guarded
<1> QED
  BY <1>1, <1>3, <1>4, <1>5, <1>6, <1>7 DEF Next, Step, Await

-----------------------------------------------------------------------------
(* The manifest is a compare-and-swap register.                            *)

\* Only where no write is cut short may a manifest be written: what atomicWrite
\* then puts in its place is not what the client sent.
FullDiskSpares ==
    \A l \in Load : "short" \in l.faults =>
        \A q \in l.requests : q.op = "put" => q.path # Manifest

\* CallOn as a function of the request, what it awaits, its status and what it read.
Settles(q, a) ==
    \/ a = "done"
    \/ q.op = "move" /\ q.dest = Manifest /\ a = "unlinksource"
    \/ q.op = "copy" /\ q.path = Manifest /\ a \in {"mkparents", "rename"}

\* The kind of q, and its outcome.
K(q) == KindOn(Manifest, q)
Told(q, s) == Outcome(K(q), s)
Handed(q, s, v) == IF Told(q, s) = "ok" /\ K(q) \in {"read", "take"} THEN v ELSE Nothing

CallWhen(q, a, s, v) ==
    IF a = "idle" \/ K(q) = "none" THEN InManifest!Idle
    ELSE IF Settles(q, a) THEN InManifest!Settled(OpOn(Manifest, q), Told(q, s), Handed(q, s, v))
    ELSE InManifest!Called(OpOn(Manifest, q))

LEMMA Calls ==
  ASSUME NEW r \in Slot
  PROVE  /\ CallOn(Manifest, r) = CallWhen(req[r], pc[r], status[r], seen[r])
         /\ CallOn(Manifest, r)' = CallWhen(req'[r], pc'[r], status'[r], seen'[r])
<1> USE DEF CallOn, CallWhen, Effective, Settles, Data, Handed, Told, K, InManifest!Idle, InManifest!NoOp,
            InManifest!Settled, InManifest!Called
<1>1. OpOn(Manifest, req[r]).kind = KindOn(Manifest, req[r]) /\ OpOn(Manifest, req'[r]).kind = KindOn(Manifest, req'[r])
  BY DEF OpOn
<1>2. CallOn(Manifest, r) = CallWhen(req[r], pc[r], status[r], seen[r])
  BY <1>1
<1>3. CallOn(Manifest, r)' = CallWhen(req'[r], pc'[r], status'[r], seen'[r])
  BY <1>1
<1> QED
  BY <1>2, <1>3

\* The call of one slot changes.
Shifts(r, c) ==
    /\ CallWhen(req'[r], pc'[r], status'[r], seen'[r]) = c
    /\ \A s \in Slot \ {r} : /\ req'[s] = req[s] /\ pc'[s] = pc[s]
                             /\ status'[s] = status[s] /\ seen'[s] = seen[s]
Now(r) == CallWhen(req[r], pc[r], status[r], seen[r])

LEMMA Shifted ==
  ASSUME NEW r \in Slot, NEW c, Shifts(r, c)
  PROVE  /\ [s \in Slot |-> CallOn(Manifest, s)]' = [[s \in Slot |-> CallOn(Manifest, s)] EXCEPT ![r] = c]
         /\ [s \in Slot |-> CallOn(Manifest, s)][r] = Now(r)
         /\ [s \in Slot |-> CallOn(Manifest, s)]'[r] = c
<1>1. \A s \in Slot : CallOn(Manifest, s)' = IF s = r THEN c ELSE CallOn(Manifest, s)
  BY Calls DEF Shifts
<1>2. CallOn(Manifest, r) = Now(r)
  BY Calls DEF Now
<1> QED
  BY <1>1, <1>2

LEMMA RegisterStutters ==
  ASSUME NEW r \in Slot, Shifts(r, Now(r)), disk'[Manifest] = disk[Manifest]
  PROVE  UNCHANGED InManifest!vars
<1>1. \A s \in Slot : CallOn(Manifest, s)' = CallOn(Manifest, s)
  BY Calls DEF Shifts, Now
<1> QED
  BY <1>1 DEF InManifest!vars

LEMMA RegisterInvokes ==
  ASSUME NEW r \in Slot, NEW op, op \in InManifest!Op, Shifts(r, InManifest!Called(op)), Now(r) = InManifest!Idle,
         disk'[Manifest] = disk[Manifest]
  PROVE  InManifest!Next
<1>1. InManifest!Called(op).op = op
  BY DEF InManifest!Called
<1>2. InManifest!Invoke(r)
  BY <1>1, Shifted DEF InManifest!Invoke
<1> QED
  BY <1>2 DEF InManifest!Next

\* The ways in which a call may take effect.
LEMMA RegisterEffects ==
  ASSUME NEW r \in Slot, NEW op, Now(r) = InManifest!Called(op), NEW s, NEW d,
         Shifts(r, InManifest!Settled(op, s, d)),
         \/ /\ op.kind = "read" /\ s = "ok" /\ d = disk[Manifest]
            /\ disk'[Manifest] = disk[Manifest]
         \/ /\ op.kind \in {"write", "fill"} /\ disk[Manifest] \in op.allow /\ s = "ok" /\ d = Nothing
            /\ op.kind = "write" => disk'[Manifest] = op.body
            /\ op.kind = "fill" => disk'[Manifest] \in Value
         \/ /\ op.kind \in {"write", "fill"} /\ disk[Manifest] \notin op.allow /\ s = "refused" /\ d = Nothing
            /\ disk'[Manifest] = disk[Manifest]
         \/ /\ op.kind = "remove" /\ s = "ok" /\ d = Nothing
            /\ disk'[Manifest] = Nothing
         \/ /\ op.kind = "take" /\ disk[Manifest] # Nothing /\ s = "ok" /\ d = disk[Manifest]
            /\ disk'[Manifest] = Nothing
  PROVE  InManifest!Next
<1>1. Now(r).op = op /\ Now(r).phase = "called"
  BY DEF InManifest!Called
<1>2. InManifest!Settle(r, s, d)
  BY <1>1, Shifted DEF InManifest!Settle
<1>3. [x \in Slot |-> CallOn(Manifest, x)][r] = Now(r)
  BY Shifted
<1>4. InManifest!Effect(r)
  BY <1>1, <1>2, <1>3 DEF InManifest!Effect
<1> QED
  BY <1>4 DEF InManifest!Next

LEMMA RegisterFails ==
  ASSUME NEW r \in Slot, NEW op, Now(r) = InManifest!Called(op) \/ \E s, d : Now(r) = InManifest!Settled(op, s, d),
         Shifts(r, InManifest!Settled(op, "failed", Nothing)), disk'[Manifest] = disk[Manifest]
  PROVE  InManifest!Next
<1>1. Now(r).op = op /\ Now(r).phase # "idle"
  BY DEF InManifest!Called, InManifest!Settled
<1>2. InManifest!Fail(r)
  BY <1>1, Shifted DEF InManifest!Fail, InManifest!Settle
<1> QED
  BY <1>2 DEF InManifest!Next

LEMMA RegisterReturns ==
  ASSUME NEW r \in Slot, NEW op, NEW s, NEW d, Now(r) = InManifest!Settled(op, s, d),
         Shifts(r, InManifest!Idle), disk'[Manifest] = disk[Manifest]
  PROVE  InManifest!Next
<1>1. Now(r).phase = "settled"
  BY DEF InManifest!Settled
<1>2. InManifest!Return(r)
  BY <1>1, Shifted DEF InManifest!Return
<1> QED
  BY <1>2 DEF InManifest!Next

LEMMA OpTyped ==
  ASSUME load \in Load, NEW q \in load.requests, K(q) # "none"
  PROVE  OpOn(Manifest, q) \in InManifest!Op
<1>1. Allow(q) \subseteq Content /\ q.body \in Body
  BY Asked, AllowTyped
<1>2. K(q) \in InManifest!Kind
  BY DEF K, KindOn, InManifest!Kind
<1> QED
  BY <1>1, <1>2 DEF OpOn, InManifest!Op, InManifest!Content, Content, Value, K

\* What the kinds are.
LEMMA Kinds ==
  ASSUME load \in Load, NEW q \in load.requests
  PROVE  /\ K(q) = "read" <=> q.op \in {"get", "copy"} /\ q.path = Manifest
         /\ K(q) = "fill" <=> q.op \in {"move", "copy"} /\ q.dest = Manifest
         /\ K(q) = "write" <=> q.op = "put" /\ q.path = Manifest
         /\ K(q) = "remove" <=> q.op = "delete" /\ q.path = Manifest
         /\ K(q) = "take" <=> q.op = "move" /\ q.path = Manifest
         /\ K(q) \in {"read", "fill", "write", "remove", "take", "none"}
         /\ OpOn(Manifest, q).kind = K(q)
         /\ K(q) \in {"write", "fill"} => OpOn(Manifest, q).allow = Allow(q)
         /\ K(q) = "write" => OpOn(Manifest, q).body = q.body
<1>1. q.op \in {"move", "copy"} => q.path # q.dest
  BY Asked
<1> QED
  BY <1>1 DEF K, KindOn, Reads, Fills, OpOn

\* The steps of each operation.
LEMMA StepsOf ==
  ASSUME Control, Files, NEW r \in Slot, Await(r)
  PROVE  /\ req[r].op = "get" => Read(r)
         /\ req[r].op = "put" => Check(r) \/ WriteTemp(r) \/ Rename(r)
         /\ req[r].op = "delete" => Unlink(r)
         /\ req[r].op = "move" => \/ StatDest(r) \/ MakeDest(r) \/ MoveFile(r) \/ MoveFails(r)
                                  \/ ReadSource(r) \/ WriteTemp(r) \/ Rename(r) \/ UnlinkSource(r)
         /\ req[r].op = "copy" => StatDest(r) \/ MakeDest(r) \/ ReadSource(r) \/ WriteTemp(r) \/ Rename(r)
<1>1. Awaiting(req[r], pc[r])
  BY AwaitFrame, Touched
<1> QED
  BY <1>1 DEF Await, Awaiting, At, Read, Check, WriteTemp, Rename, Unlink, StatDest,
         MakeDest, MoveFile, MoveFails, ReadSource, UnlinkSource, StatDir, StatParent, MakeDir, Props,
         ReadForETag, ReadDir, StatEntry, EntriesDone, ListBlobs

\* A step that does not show in the register, and one that fails.
LEMMA RegisterHidden ==
  ASSUME Control, Files, NEW r \in Slot, Await(r) \/ OperationFails(r), disk'[Manifest] = disk[Manifest],
         pc'[r] # "idle",
         \/ K(req[r]) = "none"
         \/ ~Settles(req[r], pc[r]) /\ ~Settles(req[r], pc'[r])
         \/ /\ Settles(req[r], pc[r]) /\ Settles(req[r], pc'[r])
            /\ Told(req[r], status'[r]) = Told(req[r], status[r])
            /\ seen'[r] = seen[r]
  PROVE  UNCHANGED InManifest!vars
<1>1. /\ req' = req /\ pc[r] # "idle"
      /\ \A s \in Slot \ {r} : req'[s] = req[s] /\ pc'[s] = pc[s] /\ status'[s] = status[s] /\ seen'[s] = seen[s]
  BY AwaitFrame
<1>2. Shifts(r, Now(r))
  BY <1>1 DEF Shifts, Now, CallWhen, Handed
<1> QED
  BY <1>2, RegisterStutters

LEMMA RegisterErrs ==
  ASSUME Control, Files, NEW r \in Slot, Await(r) \/ OperationFails(r), disk'[Manifest] = disk[Manifest],
         pc'[r] = "done", Told(req[r], status'[r]) = "failed" \/ K(req[r]) = "none"
  PROVE  InManifest!Next \/ UNCHANGED InManifest!vars
<1>1. /\ req' = req /\ pc[r] # "idle"
      /\ \A s \in Slot \ {r} : req'[s] = req[s] /\ pc'[s] = pc[s] /\ status'[s] = status[s] /\ seen'[s] = seen[s]
  BY AwaitFrame
<1>2. CASE K(req[r]) = "none"
  BY <1>2, RegisterHidden
<1>3. CASE K(req[r]) # "none"
  <2> DEFINE op == OpOn(Manifest, req[r])
  <2>1. Settles(req[r], "done")
    BY DEF Settles
  <2>2. Shifts(r, InManifest!Settled(op, "failed", Nothing))
    BY <1>1, <1>3, <2>1 DEF Shifts, CallWhen, Handed
  <2>3. Now(r) = InManifest!Called(op) \/ \E s, d : Now(r) = InManifest!Settled(op, s, d)
    BY <1>1, <1>3 DEF Now, CallWhen
  <2> HIDE DEF op
  <2> QED
    BY <2>2, <2>3, RegisterFails
<1> QED
  BY <1>2, <1>3

\* A step by which a call takes effect.
LEMMA RegisterActs ==
  ASSUME Control, Files, NEW r \in Slot, Await(r) \/ OperationFails(r),
         K(req[r]) # "none", ~Settles(req[r], pc[r]), Settles(req[r], pc'[r]), pc'[r] # "idle",
         \/ /\ K(req[r]) = "read" /\ Told(req[r], status'[r]) = "ok" /\ seen'[r] = disk[Manifest]
            /\ disk'[Manifest] = disk[Manifest]
         \/ /\ K(req[r]) \in {"write", "fill"} /\ disk[Manifest] \in Allow(req[r]) /\ Told(req[r], status'[r]) = "ok"
            /\ K(req[r]) = "write" => disk'[Manifest] = req[r].body
            /\ K(req[r]) = "fill" => disk'[Manifest] \in Value
         \/ /\ K(req[r]) \in {"write", "fill"} /\ disk[Manifest] \notin Allow(req[r]) /\ Told(req[r], status'[r]) = "refused"
            /\ disk'[Manifest] = disk[Manifest]
         \/ /\ K(req[r]) = "remove" /\ Told(req[r], status'[r]) = "ok"
            /\ disk'[Manifest] = Nothing
         \/ /\ K(req[r]) = "take" /\ disk[Manifest] # Nothing /\ Told(req[r], status'[r]) = "ok"
            /\ seen'[r] = disk[Manifest]
            /\ disk'[Manifest] = Nothing
  PROVE  InManifest!Next
<1> DEFINE op == OpOn(Manifest, req[r])
           s == Told(req[r], status'[r])
           d == Handed(req[r], status'[r], seen'[r])
<1>1. /\ req' = req /\ pc[r] # "idle" /\ req[r] \in load.requests /\ load \in Load
      /\ \A x \in Slot \ {r} : req'[x] = req[x] /\ pc'[x] = pc[x] /\ status'[x] = status[x] /\ seen'[x] = seen[x]
  BY AwaitFrame, Touched DEF Control
<1>2. Now(r) = InManifest!Called(op)
  BY <1>1 DEF Now, CallWhen
<1>3. Shifts(r, InManifest!Settled(op, s, d))
  BY <1>1 DEF Shifts, CallWhen
<1>4. /\ op.kind = K(req[r]) /\ (K(req[r]) \in {"write", "fill"} => op.allow = Allow(req[r]))
      /\ (K(req[r]) = "write" => op.body = req[r].body)
  BY <1>1, Kinds
<1>5. d = IF s = "ok" /\ K(req[r]) \in {"read", "take"} THEN seen'[r] ELSE Nothing
  BY DEF Handed
<1> HIDE DEF op, s, d
<1>6. \/ /\ op.kind = "read" /\ s = "ok" /\ d = disk[Manifest]
         /\ disk'[Manifest] = disk[Manifest]
      \/ /\ op.kind \in {"write", "fill"} /\ disk[Manifest] \in op.allow /\ s = "ok" /\ d = Nothing
         /\ op.kind = "write" => disk'[Manifest] = op.body
         /\ op.kind = "fill" => disk'[Manifest] \in Value
      \/ /\ op.kind \in {"write", "fill"} /\ disk[Manifest] \notin op.allow /\ s = "refused" /\ d = Nothing
         /\ disk'[Manifest] = disk[Manifest]
      \/ /\ op.kind = "remove" /\ s = "ok" /\ d = Nothing
         /\ disk'[Manifest] = Nothing
      \/ /\ op.kind = "take" /\ disk[Manifest] # Nothing /\ s = "ok" /\ d = disk[Manifest]
         /\ disk'[Manifest] = Nothing
  BY <1>4, <1>5 DEF s
<1> QED
  BY <1>2, <1>3, <1>6, RegisterEffects

\* What a client is told of each outcome.
LEMMA Tells ==
  ASSUME load \in Load, NEW q \in load.requests
  PROVE  /\ Told(q, 400) = "failed" /\ Told(q, 500) = "failed"
         /\ Told(q, 0) = "ok" /\ Told(q, 200) = "ok" /\ Told(q, 204) = "ok"
         /\ K(q) = "read" => Told(q, 404) = "ok"
         /\ K(q) \in {"write", "fill"} => Told(q, 412) = "refused" /\ Told(q, 409) = "refused"
         /\ K(q) \in {"read", "take", "remove", "none"} => Told(q, 409) = "failed"
  BY DEF Told, Outcome

LEMMA RegisterGet ==
  ASSUME Control, Files, NEW r \in Slot, req[r].op = "get", Await(r)
  PROVE  InManifest!Next \/ UNCHANGED InManifest!vars
<1>a. /\ pc \in [Slot -> Awaits] /\ status \in [Slot -> Statuses] /\ seen \in [Slot -> Content]
      /\ req[r] \in load.requests /\ load \in Load /\ req[r].op \in Ops /\ Read(r)
  BY AwaitFrame, Touched, StepsOf DEF Control, Files
<1>1. /\ pc[r] = "read" /\ pc'[r] = "done" /\ UNCHANGED disk /\ seen'[r] = disk[req[r].path]
      /\ status'[r] = Answer(req[r], IF disk[req[r].path] = Nothing THEN "NotFound" ELSE "ok")
  BY <1>a DEF Read, Finish, At, Keep
<1>2. status'[r] \in {200, 204, 404}
  BY <1>a, <1>1, Absences, Successes
<1>3. CASE req[r].path = Manifest
  <2>1. K(req[r]) = "read" /\ Told(req[r], status'[r]) = "ok"
    BY <1>3, <1>a, <1>2, Kinds, Tells
  <2>2. ~Settles(req[r], pc[r]) /\ Settles(req[r], pc'[r])
    BY <1>1 DEF Settles
  <2> QED
    BY <1>3, <1>1, <2>1, <2>2, RegisterActs
<1>4. CASE req[r].path # Manifest
  <2>1. K(req[r]) = "none"
    BY <1>4, <1>a, Kinds
  <2> QED
    BY <1>1, <2>1, RegisterHidden
<1> QED
  BY <1>3, <1>4

LEMMA RegisterPut ==
  ASSUME FullDiskSpares, Control, Files, NEW r \in Slot, Guarded(r), req[r].op = "put", Await(r)
  PROVE  InManifest!Next \/ UNCHANGED InManifest!vars
<1>a. /\ pc \in [Slot -> Awaits] /\ status \in [Slot -> Statuses] /\ disk \in [File -> Content]
      /\ req[r] \in load.requests /\ load \in Load /\ req[r].op \in Ops
      /\ Target(req[r]) = req[r].path /\ Manifest \in File
      /\ (Check(r) \/ WriteTemp(r) \/ Rename(r))
  BY AwaitFrame, Touched, StepsOf, FileAssumption DEF Control, Files, Target
<1>1. /\ pc[r] \in {"check", "mkparents", "rename"}
      /\ pc'[r] \in {"mkparents", "rename", "done"}
  BY <1>a DEF Check, WriteTemp, Rename, Go, Finish, At
<1>2. CASE req[r].path # Manifest
  <2>1. K(req[r]) = "none"
    BY <1>2, <1>a, Kinds
  <2>2. disk'[Manifest] = disk[Manifest]
    BY <1>2, <1>a, Changes
  <2> QED
    BY <1>1, <2>1, <2>2, RegisterHidden
<1>3. CASE req[r].path = Manifest
  <2>1. K(req[r]) = "write"
    BY <1>3, <1>a, Kinds
  <2>2. \A a : Settles(req[r], a) <=> a = "done"
    BY DEF Settles
  <2>3. CASE Check(r)
    <3>1. UNCHANGED disk
      BY <2>3 DEF Check, Keep
    <3>2. CASE disk[Manifest] \in Allow(req[r])
      <4>1. pc[r] = "check" /\ pc'[r] = "mkparents"
        BY <1>3, <1>a, <2>3, <3>2 DEF Check, Go, At
      <4> QED
        BY <2>2, <3>1, <4>1, RegisterHidden
    <3>3. CASE disk[Manifest] \notin Allow(req[r])
      <4>1. pc[r] = "check" /\ pc'[r] = "done" /\ status'[r] = 412
        BY <1>3, <1>a, <2>3, <3>3, Refusals DEF Check, Finish, At
      <4>2. Told(req[r], status'[r]) = "refused"
        BY <1>a, <2>1, <4>1, Tells
      <4> QED
        BY <2>1, <2>2, <3>1, <3>3, <4>1, <4>2, RegisterActs
    <3> QED
      BY <3>2, <3>3
  <2>4. CASE WriteTemp(r)
    <3>1. UNCHANGED disk /\ pc[r] = "mkparents" /\ pc'[r] = "rename"
      BY <1>a, <2>4 DEF WriteTemp, Keep, Go, At
    <3> QED
      BY <2>2, <3>1, RegisterHidden
  <2>5. CASE Rename(r)
    <3>1. /\ pc[r] = "rename" /\ pc'[r] = "done" /\ status'[r] = Answer(req[r], "ok")
          /\ disk'[Manifest] = temp[r]
      BY <1>3, <1>a, <2>5 DEF Rename, Finish, At
    <3>2. "short" \notin load.faults
      BY <1>3, <1>a DEF FullDiskSpares
    <3>3. temp[r] = req[r].body /\ disk[Manifest] \in Allow(req[r])
      BY <1>3, <3>1, <3>2 DEF Guarded
    <3>4. Told(req[r], status'[r]) = "ok"
      BY <1>a, <3>1, Successes, Tells
    <3> QED
      BY <2>1, <2>2, <3>1, <3>3, <3>4, RegisterActs
  <2> QED
    BY <1>a, <2>3, <2>4, <2>5
<1> QED
  BY <1>2, <1>3

LEMMA RegisterDelete ==
  ASSUME Control, Files, NEW r \in Slot, req[r].op = "delete", Await(r)
  PROVE  InManifest!Next \/ UNCHANGED InManifest!vars
<1>a. /\ pc \in [Slot -> Awaits] /\ status \in [Slot -> Statuses] /\ disk \in [File -> Content]
      /\ req[r] \in load.requests /\ load \in Load /\ req[r].op \in Ops /\ Manifest \in File
      /\ Unlink(r)
  BY AwaitFrame, Touched, StepsOf, FileAssumption DEF Control, Files
<1>1. /\ pc[r] = "unlink" /\ pc'[r] = "done" /\ status'[r] = Answer(req[r], "ok")
      /\ disk' = [disk EXCEPT ![req[r].path] = Nothing]
  BY <1>a DEF Unlink, Finish, At
<1>2. Told(req[r], status'[r]) = "ok"
  BY <1>a, <1>1, Successes, Tells
<1>3. CASE req[r].path = Manifest
  <2>1. K(req[r]) = "remove" /\ disk'[Manifest] = Nothing
    BY <1>3, <1>a, <1>1, Kinds
  <2>2. ~Settles(req[r], pc[r]) /\ Settles(req[r], pc'[r])
    BY <1>1 DEF Settles
  <2> QED
    BY <1>1, <1>2, <2>1, <2>2, RegisterActs
<1>4. CASE req[r].path # Manifest
  <2>1. K(req[r]) = "none" /\ disk'[Manifest] = disk[Manifest]
    BY <1>4, <1>a, <1>1, Kinds
  <2> QED
    BY <1>1, <2>1, RegisterHidden
<1> QED
  BY <1>3, <1>4

\* What move and copy need of their source and their destination.
LEMMA MoveFacts ==
  ASSUME Control, Files, NEW r \in Slot, req[r].op \in {"move", "copy"}, Await(r)
  PROVE  /\ pc \in [Slot -> Awaits] /\ status \in [Slot -> Statuses] /\ disk \in [File -> Content]
         /\ seen \in [Slot -> Content] /\ temp \in [Slot -> Content]
         /\ req[r] \in load.requests /\ load \in Load /\ req[r].op \in Ops
         /\ Target(req[r]) = req[r].dest /\ req[r].path # req[r].dest
         /\ Manifest \in File /\ req[r].path \in File /\ req[r].dest \in File
         /\ pc[r] \in {"stat", "mkdest", "move", "readsource", "mkparents", "rename", "unlinksource"}
         /\ pc'[r] \in {"mkdest", "move", "readsource", "mkparents", "rename", "unlinksource", "done"}
<1>1. /\ pc \in [Slot -> Awaits] /\ status \in [Slot -> Statuses] /\ disk \in [File -> Content]
      /\ seen \in [Slot -> Content] /\ temp \in [Slot -> Content]
      /\ req[r] \in load.requests /\ load \in Load /\ req[r].op \in Ops
      /\ Target(req[r]) = req[r].dest /\ req[r].path # req[r].dest
      /\ Manifest \in File /\ req[r].path \in File /\ req[r].dest \in File
  BY AwaitFrame, Touched, FileAssumption DEF Control, Files, Target
<1>2. /\ pc[r] \in {"stat", "mkdest", "move", "readsource", "mkparents", "rename", "unlinksource"}
      /\ pc'[r] \in {"mkdest", "move", "readsource", "mkparents", "rename", "unlinksource", "done"}
  BY <1>1, StepsOf, SMTT(60) DEF StatDest, MakeDest, MoveFile, MoveFails, ReadSource, WriteTemp, Rename, UnlinkSource,
         Go, Finish, At
<1> QED
  BY <1>1, <1>2

LEMMA RegisterAside ==
  ASSUME Control, Files, NEW r \in Slot, req[r].op \in {"move", "copy"}, Await(r),
         Manifest \notin {req[r].path, req[r].dest}
  PROVE  InManifest!Next \/ UNCHANGED InManifest!vars
<1>1. K(req[r]) = "none"
  BY MoveFacts, Kinds
<1>2. disk'[Manifest] = disk[Manifest]
  BY MoveFacts, Changes
<1>3. pc'[r] # "idle"
  BY MoveFacts
<1> QED
  BY <1>1, <1>2, <1>3, RegisterHidden

\* A file is moved, or copied, over the manifest.
LEMMA RegisterFill ==
  ASSUME Control, Files, NEW r \in Slot, Guarded(r), req[r].op \in {"move", "copy"}, Await(r),
         req[r].dest = Manifest
  PROVE  InManifest!Next \/ UNCHANGED InManifest!vars
<1>a. /\ pc \in [Slot -> Awaits] /\ status \in [Slot -> Statuses] /\ disk \in [File -> Content]
      /\ temp \in [Slot -> Content] /\ seen \in [Slot -> Content]
      /\ req[r] \in load.requests /\ load \in Load /\ req[r].op \in Ops /\ Manifest \in File
      /\ Target(req[r]) = Manifest /\ req[r].path # Manifest /\ req[r].path \in File
  BY MoveFacts
<1>b. K(req[r]) = "fill"
  BY <1>a, Kinds
<1>c. \A a : Settles(req[r], a) <=> a = "done" \/ (req[r].op = "move" /\ a = "unlinksource")
  BY <1>a DEF Settles
<1>d. Value = Content \ {Nothing}
  BY BodyAssumption DEF Content, Value
<1>e. Answer(req[r], "ok") \in {200, 204} /\ Answer(req[r], "error") = 500 /\ Answer(req[r], "Conflict") = 409
  BY <1>a, Successes, Errors, Refusals
<1>f. /\ Told(req[r], 0) = "ok" /\ Told(req[r], 200) = "ok" /\ Told(req[r], 204) = "ok"
      /\ Told(req[r], 500) = "failed" /\ Told(req[r], 409) = "refused"
  BY <1>a, <1>b, Tells
<1>1. CASE StatDest(r)
  <2>1. UNCHANGED disk /\ pc[r] = "stat"
    BY <1>1 DEF StatDest, Keep, At
  <2>2. CASE disk[Manifest] \in Allow(req[r])
    <3>1. pc'[r] = "mkdest"
      BY <1>1, <1>a, <2>2 DEF StatDest, Go
    <3> QED
      BY <1>c, <2>1, <3>1, RegisterHidden
  <2>3. CASE disk[Manifest] \notin Allow(req[r])
    <3>1. pc'[r] = "done" /\ status'[r] = 409
      BY <1>1, <1>a, <1>e, <2>3 DEF StatDest, Finish
    <3> QED
      BY <1>b, <1>c, <1>f, <2>1, <2>3, <3>1, RegisterActs
  <2> QED
    BY <2>2, <2>3
<1>2. CASE MakeDest(r) \/ MoveFails(r) \/ WriteTemp(r)
  <2>1. UNCHANGED disk /\ pc[r] \in {"mkdest", "move", "mkparents"} /\ pc'[r] \in {"move", "readsource", "rename"}
    BY <1>2, <1>a DEF MakeDest, MoveFails, WriteTemp, Keep, Go, At
  <2> QED
    BY <1>c, <2>1, RegisterHidden
<1>3. CASE MoveFile(r)
  <2>1. /\ pc[r] = "move" /\ pc'[r] = "done" /\ status'[r] = Answer(req[r], "ok")
        /\ disk'[Manifest] = disk[req[r].path] /\ disk[req[r].path] # Nothing
    BY <1>3, <1>a DEF MoveFile, Finish, At
  <2>2. disk[Manifest] \in Allow(req[r]) /\ disk'[Manifest] \in Value
    BY <1>a, <1>d, <2>1 DEF Guarded
  <2> QED
    BY <1>b, <1>c, <1>e, <1>f, <2>1, <2>2, RegisterActs
<1>4. CASE ReadSource(r)
  <2>1. UNCHANGED disk /\ pc[r] = "readsource"
    BY <1>4 DEF ReadSource, Keep, At
  <2>2. \/ pc'[r] = "mkparents"
        \/ pc'[r] = "done" /\ status'[r] = 500
    BY <1>4, <1>a, <1>e DEF ReadSource, Go, Finish
  <2>3. CASE pc'[r] = "mkparents"
    BY <1>c, <2>1, <2>3, RegisterHidden
  <2>4. CASE pc'[r] = "done" /\ status'[r] = 500
    BY <1>f, <2>1, <2>4, RegisterErrs
  <2> QED
    BY <2>2, <2>3, <2>4
<1>5. CASE Rename(r)
  <2>1. /\ pc[r] = "rename" /\ disk'[Manifest] = temp[r]
        /\ \/ pc'[r] = "unlinksource" /\ status'[r] = status[r] /\ req[r].op = "move"
           \/ pc'[r] = "done" /\ status'[r] = Answer(req[r], "ok")
    BY <1>5, <1>a DEF Rename, Go, Finish, At
  <2>2. status[r] = 0 /\ temp[r] # Nothing
    BY <2>1 DEF Control, Files, Carried
  <2>3. disk[Manifest] \in Allow(req[r]) /\ disk'[Manifest] \in Value
    BY <1>a, <1>d, <2>1, <2>2 DEF Guarded
  <2> QED
    BY <1>b, <1>c, <1>e, <1>f, <2>1, <2>2, <2>3, RegisterActs
<1>6. CASE UnlinkSource(r) /\ req[r].op = "move"
  <2>1. /\ pc[r] = "unlinksource" /\ pc'[r] = "done" /\ disk'[Manifest] = disk[Manifest] /\ UNCHANGED seen
        /\ status'[r] \in {Answer(req[r], "ok"), Answer(req[r], "error")}
    BY <1>6, <1>a DEF UnlinkSource, Finish, At, Keep
  <2>2. status[r] = 0
    BY <2>1 DEF Control
  <2>3. CASE status'[r] = 500
    BY <1>f, <2>1, <2>3, RegisterErrs
  <2>4. CASE status'[r] \in {200, 204}
    <3>1. Settles(req[r], pc[r]) /\ Settles(req[r], pc'[r])
      BY <1>6, <1>c, <2>1
    <3> QED
      BY <1>f, <2>1, <2>2, <2>4, <3>1, RegisterHidden
  <2> QED
    BY <1>e, <2>1, <2>3, <2>4
<1> QED
  BY <1>1, <1>2, <1>3, <1>4, <1>5, <1>6, StepsOf

\* The manifest is moved away, or copied.
LEMMA RegisterSource ==
  ASSUME Control, Files, NEW r \in Slot, Guarded(r), req[r].op \in {"move", "copy"}, Await(r),
         req[r].path = Manifest
  PROVE  InManifest!Next \/ UNCHANGED InManifest!vars
<1>a. /\ pc \in [Slot -> Awaits] /\ status \in [Slot -> Statuses] /\ disk \in [File -> Content]
      /\ temp \in [Slot -> Content] /\ seen \in [Slot -> Content]
      /\ req[r] \in load.requests /\ load \in Load /\ req[r].op \in Ops /\ Manifest \in File
      /\ Target(req[r]) # Manifest /\ req[r].dest # Manifest /\ req[r].dest \in File
  BY MoveFacts
<1>b. K(req[r]) = IF req[r].op = "move" THEN "take" ELSE "read"
  BY <1>a, Kinds
<1>c. \A a : Settles(req[r], a) <=> a = "done" \/ (req[r].op = "copy" /\ a \in {"mkparents", "rename"})
  BY <1>a DEF Settles
<1>e. Answer(req[r], "ok") \in {200, 204} /\ Answer(req[r], "error") = 500 /\ Answer(req[r], "Conflict") = 409
  BY <1>a, Successes, Errors, Refusals
<1>f. /\ Told(req[r], 0) = "ok" /\ Told(req[r], 200) = "ok" /\ Told(req[r], 204) = "ok"
      /\ Told(req[r], 500) = "failed" /\ Told(req[r], 409) = "failed"
  BY <1>a, <1>b, Tells
<1>1. CASE StatDest(r)
  <2>1. UNCHANGED disk /\ pc[r] = "stat"
    BY <1>1 DEF StatDest, Keep, At
  <2>2. pc'[r] = "mkdest" \/ (pc'[r] = "done" /\ status'[r] = 409)
    BY <1>1, <1>a, <1>e DEF StatDest, Go, Finish
  <2>3. CASE pc'[r] = "mkdest"
    BY <1>c, <2>1, <2>3, RegisterHidden
  <2>4. CASE pc'[r] = "done" /\ status'[r] = 409
    BY <1>f, <2>1, <2>4, RegisterErrs
  <2> QED
    BY <2>2, <2>3, <2>4
<1>2. CASE MakeDest(r) \/ MoveFails(r)
  <2>1. UNCHANGED disk /\ pc[r] \in {"mkdest", "move"} /\ pc'[r] \in {"move", "readsource"}
    BY <1>2, <1>a DEF MakeDest, MoveFails, Keep, Go, At
  <2> QED
    BY <1>c, <2>1, RegisterHidden
<1>3. CASE MoveFile(r) /\ req[r].op = "move"
  <2>1. /\ pc[r] = "move" /\ pc'[r] = "done" /\ status'[r] = Answer(req[r], "ok")
        /\ disk'[Manifest] = Nothing /\ disk[Manifest] # Nothing /\ seen'[r] = disk[Manifest]
    BY <1>3, <1>a DEF MoveFile, Finish, At
  <2> QED
    BY <1>3, <1>b, <1>c, <1>e, <1>f, <2>1, RegisterActs
<1>4. CASE ReadSource(r)
  <2>1. UNCHANGED disk /\ pc[r] = "readsource" /\ seen'[r] = disk[Manifest]
    BY <1>4, <1>a DEF ReadSource, Keep, At
  <2>2. \/ pc'[r] = "mkparents" /\ status'[r] = status[r]
        \/ pc'[r] = "done" /\ status'[r] = 500
    BY <1>4, <1>a, <1>e DEF ReadSource, Go, Finish
  <2>3. CASE pc'[r] = "mkparents" /\ status'[r] = status[r] /\ req[r].op = "move"
    BY <1>c, <2>1, <2>3, RegisterHidden
  <2>4. CASE pc'[r] = "mkparents" /\ status'[r] = status[r] /\ req[r].op = "copy"
    <3>1. status[r] = 0
      BY <2>1 DEF Control
    <3> QED
      BY <1>b, <1>c, <1>f, <2>1, <2>4, <3>1, RegisterActs
  <2>5. CASE pc'[r] = "done" /\ status'[r] = 500
    BY <1>f, <2>1, <2>5, RegisterErrs
  <2> QED
    BY <2>2, <2>3, <2>4, <2>5
<1>5. CASE WriteTemp(r)
  <2>1. UNCHANGED <<disk, seen, status>> /\ pc[r] = "mkparents" /\ pc'[r] = "rename"
    BY <1>5, <1>a DEF WriteTemp, Keep, Go, At
  <2> QED
    BY <1>c, <2>1, RegisterHidden
<1>6. CASE Rename(r)
  <2>1. /\ pc[r] = "rename" /\ disk'[Manifest] = disk[Manifest] /\ UNCHANGED seen
        /\ \/ pc'[r] = "unlinksource" /\ req[r].op = "move"
           \/ pc'[r] = "done" /\ status'[r] = Answer(req[r], "ok") /\ req[r].op = "copy"
    BY <1>6, <1>a DEF Rename, Go, Finish, At, Keep
  <2>2. status[r] = 0
    BY <2>1 DEF Control
  <2>3. CASE pc'[r] = "unlinksource" /\ req[r].op = "move"
    BY <1>c, <2>1, <2>3, RegisterHidden
  <2>4. CASE pc'[r] = "done" /\ status'[r] = Answer(req[r], "ok") /\ req[r].op = "copy"
    <3>1. Told(req[r], status'[r]) = Told(req[r], status[r])
      BY <1>e, <1>f, <2>2, <2>4
    <3> QED
      BY <1>c, <2>1, <2>4, <3>1, RegisterHidden
  <2> QED
    BY <2>1, <2>3, <2>4
<1>7. CASE UnlinkSource(r) /\ req[r].op = "move"
  <2>1. /\ pc[r] = "unlinksource" /\ pc'[r] = "done" /\ disk'[Manifest] = Nothing /\ UNCHANGED seen
        /\ status'[r] = Answer(req[r], IF disk[Manifest] = Nothing THEN "error" ELSE "ok")
    BY <1>7, <1>a DEF UnlinkSource, Finish, At, Keep
  <2>2. CASE disk[Manifest] = Nothing
    <3>1. Told(req[r], status'[r]) = "failed"
      BY <1>e, <1>f, <2>1, <2>2
    <3> QED
      BY <2>1, <2>2, <3>1, RegisterErrs
  <2>3. CASE disk[Manifest] # Nothing
    <3>1. seen[r] = disk[Manifest]
      BY <1>7, <2>1 DEF Guarded
    <3> QED
      BY <1>7, <1>b, <1>c, <1>e, <1>f, <2>1, <2>3, <3>1, RegisterActs
  <2> QED
    BY <2>2, <2>3
<1> QED
  BY <1>1, <1>2, <1>3, <1>4, <1>5, <1>6, <1>7, StepsOf

LEMMA RegisterAwait ==
  ASSUME FullDiskSpares, Control, Files, NEW r \in Slot, Guarded(r), Await(r) \/ OperationFails(r)
  PROVE  InManifest!Next \/ UNCHANGED InManifest!vars
<1>a. pc \in [Slot -> Awaits] /\ req[r] \in load.requests /\ load \in Load /\ req[r].op \in Ops
  BY AwaitFrame, Touched DEF Control
<1>1. CASE OperationFails(r)
  <2>1. pc'[r] = "done" /\ status'[r] = 500 /\ UNCHANGED disk
    BY <1>1, <1>a, Errors DEF OperationFails, Finish, Keep, Control
  <2> QED
    BY <1>1, <1>a, <2>1, Tells, RegisterErrs
<1>2. CASE Await(r) /\ req[r].op \in {"mkdir", "propfind", "list"}
  <2>1. K(req[r]) = "none" /\ disk'[Manifest] = disk[Manifest]
    BY <1>2, <1>a, Kinds, Changes
  <2>2. pc'[r] # "idle"
    BY <1>2, <1>a DEF Await, Go, Finish, Read, Check, WriteTemp, Rename, Unlink, StatDest,
         MakeDest, MoveFile, MoveFails, ReadSource, UnlinkSource, StatDir, StatParent, MakeDir, Props,
         ReadForETag, ReadDir, StatEntry, EntriesDone, ListBlobs
  <2> QED
    BY <1>2, <2>1, <2>2, RegisterHidden
<1>3. CASE Await(r) /\ req[r].op \in {"move", "copy"}
  BY <1>3, RegisterAside, RegisterFill, RegisterSource
<1> QED
  BY <1>1, <1>2, <1>3, <1>a, RegisterGet, RegisterPut, RegisterDelete DEF Ops

\* Every step of the server is one of the register, or does not show in it.
LEMMA RegisterStep ==
  ASSUME FullDiskSpares, Control, Files, \A r \in Slot : Guarded(r), [Next]_<<load, vars>>
  PROVE  [InManifest!Next]_(InManifest!vars)
<1>a. /\ pc \in [Slot -> Awaits] /\ req \in [Slot -> load.requests \cup {NoRequest}]
      /\ status \in [Slot -> Statuses] /\ seen \in [Slot -> Content] /\ load \in Load
  BY DEF Control, Files
<1>1. ASSUME NEW r \in Slot, NEW q \in load.requests, Arrive(r, q)
      PROVE  InManifest!Next \/ UNCHANGED InManifest!vars
  <2>1. /\ pc[r] = "idle" /\ UNCHANGED <<disk, seen, status>>
        /\ pc'[r] = "body" \/ (pc'[r] = First(q) /\ ~HasBody(q))
        /\ req'[r] = q /\ \A s \in Slot \ {r} : req'[s] = req[s] /\ pc'[s] = pc[s]
    BY <1>1, <1>a DEF Arrive, Enter
  <2>2. pc'[r] # "idle" /\ ~Settles(q, pc'[r])
    BY <1>a, <2>1, Firsts DEF Settles, HasBody
  <2>3. Now(r) = InManifest!Idle
    BY <2>1 DEF Now, CallWhen
  <2>4. CASE K(q) = "none"
    <3>1. Shifts(r, Now(r))
      BY <2>1, <2>2, <2>3, <2>4 DEF Shifts, CallWhen
    <3> QED
      BY <2>1, <3>1, RegisterStutters
  <2>5. CASE K(q) # "none"
    <3>1. Shifts(r, InManifest!Called(OpOn(Manifest, q)))
      BY <2>1, <2>2, <2>5 DEF Shifts, CallWhen
    <3>2. OpOn(Manifest, q) \in InManifest!Op
      BY <1>a, <2>5, OpTyped
    <3> QED
      BY <2>1, <2>3, <3>1, <3>2, RegisterInvokes
  <2> QED
    BY <2>4, <2>5
<1>2. ASSUME NEW r \in Slot, BodyEnds(r)
      PROVE  InManifest!Next \/ UNCHANGED InManifest!vars
  <2>1. req[r] \in load.requests
    BY <1>2 DEF Control, BodyEnds
  <2>2. /\ pc[r] = "body" /\ pc'[r] = First(req[r]) /\ UNCHANGED <<disk, req, seen, status>>
        /\ \A s \in Slot \ {r} : pc'[s] = pc[s]
    BY <1>2, <1>a DEF BodyEnds, Enter, Keep
  <2>3. pc'[r] # "idle" /\ ~Settles(req[r], pc[r]) /\ ~Settles(req[r], pc'[r])
    BY <1>a, <2>1, <2>2, Firsts DEF Settles
  <2>4. Shifts(r, Now(r))
    BY <2>2, <2>3 DEF Shifts, Now, CallWhen
  <2> QED
    BY <2>2, <2>4, RegisterStutters
<1>3. ASSUME NEW r \in Slot, BodyFails(r)
      PROVE  InManifest!Next \/ UNCHANGED InManifest!vars
  <2> DEFINE op == OpOn(Manifest, req[r])
  <2>1. req[r] \in load.requests
    BY <1>3 DEF Control, BodyFails
  <2>2. /\ pc[r] = "body" /\ pc'[r] = "done" /\ status'[r] = 400 /\ UNCHANGED <<disk, req, seen>>
        /\ \A s \in Slot \ {r} : pc'[s] = pc[s] /\ status'[s] = status[s]
    BY <1>3, <1>a DEF BodyFails, Keep
  <2>3. ~Settles(req[r], pc[r]) /\ Settles(req[r], pc'[r]) /\ Told(req[r], 400) = "failed"
    BY <1>a, <2>1, <2>2, Tells DEF Settles
  <2>4. CASE K(req[r]) = "none"
    <3>1. Shifts(r, Now(r))
      BY <2>2, <2>4 DEF Shifts, Now, CallWhen
    <3> QED
      BY <2>2, <3>1, RegisterStutters
  <2>5. CASE K(req[r]) # "none"
    <3>1. Now(r) = InManifest!Called(op)
      BY <2>2, <2>3, <2>5 DEF Now, CallWhen
    <3>2. Shifts(r, InManifest!Settled(op, "failed", Nothing))
      BY <2>2, <2>3, <2>5 DEF Shifts, CallWhen, Handed
    <3> HIDE DEF op
    <3> QED
      BY <2>2, <3>1, <3>2, RegisterFails
  <2> QED
    BY <2>4, <2>5
<1>4. ASSUME NEW r \in Slot, Return(r)
      PROVE  InManifest!Next \/ UNCHANGED InManifest!vars
  <2>1. /\ pc[r] = "done" /\ pc'[r] = "idle" /\ UNCHANGED disk
        /\ \A s \in Slot \ {r} : /\ req'[s] = req[s] /\ pc'[s] = pc[s]
                                 /\ status'[s] = status[s] /\ seen'[s] = seen[s]
    BY <1>4, <1>a DEF Return
  <2>2. Shifts(r, InManifest!Idle)
    BY <2>1 DEF Shifts, CallWhen
  <2>3. CASE K(req[r]) = "none"
    <3>1. Shifts(r, Now(r))
      BY <2>1, <2>2, <2>3 DEF Now, CallWhen
    <3> QED
      BY <2>1, <3>1, RegisterStutters
  <2>4. CASE K(req[r]) # "none"
    <3>1. \E op, s, d : Now(r) = InManifest!Settled(op, s, d)
      BY <2>1, <2>4 DEF Now, CallWhen, Settles
    <3> QED
      BY <2>1, <2>2, <3>1, RegisterReturns
  <2> QED
    BY <2>3, <2>4
<1>5. ASSUME Crash
      PROVE  InManifest!Next
  <2>1. /\ disk' = disk /\ \A s \in Slot : pc'[s] = "idle"
    BY <1>5 DEF Crash
  <2>2. \A s \in Slot : CallOn(Manifest, s)' = InManifest!Idle
    BY <2>1, Calls DEF CallWhen
  <2>3. InManifest!Stop
    BY <2>1, <2>2 DEF InManifest!Stop
  <2> QED
    BY <2>3 DEF InManifest!Next
<1>6. ASSUME Shutdown \/ Exit \/ Restart \/ UNCHANGED <<load, vars>>
      PROVE  UNCHANGED InManifest!vars
  <2>1. UNCHANGED <<disk, seen, req, pc, status>>
    BY <1>6 DEF Shutdown, Exit, Restart, vars, local_vars
  <2>2. \A s \in Slot : CallOn(Manifest, s)' = CallOn(Manifest, s)
    BY <2>1, Calls
  <2> QED
    BY <2>1, <2>2 DEF InManifest!vars
<1> QED
  BY <1>1, <1>2, <1>3, <1>4, <1>5, <1>6, RegisterAwait DEF Next, Step, Await

LEMMA GuardedInit == Init => \A r \in Slot : Guarded(r)
  BY DEF Init, Guarded

\* With any number of requests, devices and contents, whatever fails and whenever
\* the process dies, the manifest is a compare-and-swap register: what the sync
\* engine assumes of it (putManifest, moveResource, withLock).  A full disk is
\* excepted, for a manifest cut short is one that no client sent.
THEOREM RegisterCorrect == FullDiskSpares => (Spec => ManifestRegister)
<1>1. Init => InManifest!Init
  <2> SUFFICES ASSUME Init PROVE InManifest!Init
    OBVIOUS
  <2>1. \A s \in Slot : CallOn(Manifest, s) = InManifest!Idle
    BY Calls DEF Init, CallWhen
  <2>2. disk[Manifest] \in InManifest!Content
    BY FileAssumption DEF Init, InManifest!Content
  <2> QED
    BY <2>1, <2>2 DEF InManifest!Init
<1>2. Spec => [](\A r \in Slot : Guarded(r))
  <2>1. Control /\ Files /\ (\A r \in Slot : Guarded(r)) /\ [Next]_<<load, vars>> => (\A r \in Slot : Guarded(r))'
    BY GuardedStep
  <2> QED
    BY <2>1, GuardedInit, TypesCorrect, PTL DEF Spec
<1>3. FullDiskSpares /\ Control /\ Files /\ (\A r \in Slot : Guarded(r)) /\ [Next]_<<load, vars>>
        => [InManifest!Next]_(InManifest!vars)
  BY RegisterStep
<1> SUFFICES ASSUME FullDiskSpares PROVE Spec => ManifestRegister
  OBVIOUS
<1>4. Control /\ Files /\ (\A r \in Slot : Guarded(r)) /\ [Next]_<<load, vars>>
        => [InManifest!Next]_(InManifest!vars)
  BY <1>3
<1> QED
  BY <1>1, <1>2, <1>4, TypesCorrect, PTL DEF Spec, ManifestRegister, InManifest!Spec
================================================================================
