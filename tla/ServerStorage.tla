----------------------------- MODULE ServerStorage -----------------------------
(***************************************************************************)
(* The Node.js server (server/nodejs): HTTP requests against the files of  *)
(* one vault.  JavaScript runs one callback at a time, so a request is a   *)
(* process that goes from one await to the next; between two of its steps  *)
(* any other request may run.  Operations on the file "manifest" wait in   *)
(* the promise chain manifestLock; the others take no lock.                *)
(*                                                                         *)
(* An ETag is the hash of a content, so it is compared as the content.     *)
(* Requests are authenticated (AuthLimit) and carry valid paths in normal   *)
(* form, as the clients send them.  Each file operation takes effect when   *)
(* its callback runs.                                                      *)
(***************************************************************************)
EXTENDS Naturals, Sequences, FiniteSets

CONSTANTS
    Slot,      \* requests that may be in progress at a time
    File,      \* the files a vault may have
    Manifest,  \* the file every operation on which is locked
    Dir,       \* its directories
    Root,      \* the directory of the vault
    Blobs,     \* the directory of the blobs, which have endpoints of their own
    Parent,    \* Parent[p]: the directory of the file or directory p
    Body,      \* contents that clients send
    Nothing,   \* "content" of a file that does not exist
    Half,      \* a content that was not written to its end
    Load       \* what clients ask and what may go wrong, of which each behaviour has one

Value   == Body \cup {Half}
Content == Value \cup {Nothing}

Ops == {"get", "put", "delete", "move", "copy", "mkdir", "propfind", "list"}
Requests ==
    [op          : Ops,
     path        : File \cup Dir,
     dest        : File,     \* of move and copy
     overwrite   : BOOLEAN,
     body        : Body,     \* of put
     ifNoneMatch : BOOLEAN,
     ifMatch     : Content,  \* the content with that ETag; Nothing if not given
     deep        : BOOLEAN]  \* of propfind: depth 1

\* The process is killed; a file operation fails; a write is cut short by a
\* full disk; the process is told to stop; a request body does not arrive.
FaultKinds == {"crash", "io", "short", "stop", "abort"}

ASSUME FileAssumption ==
    /\ Manifest \in File /\ Root \in Dir /\ Blobs \in Dir \ {Root} /\ File \cap Dir = {}
    /\ Parent \in [File \cup (Dir \ {Root}) -> Dir]
ASSUME BodyAssumption == Half \notin Body /\ Nothing \notin Body /\ Half # Nothing
ASSUME RequestAssumption ==
    /\ \A l \in Load : l = [requests |-> l.requests, faults |-> l.faults]
                       /\ l.requests \subseteq Requests
    /\ \A q \in UNION {l.requests : l \in Load} :
          /\ q.op \in {"get", "put", "delete", "move", "copy"} => q.path \in File
          /\ q.op = "mkdir" => q.path \in Dir \ {Root}
          /\ q.op = "list" => q.path = Blobs
          /\ q.op = "propfind" => q.path # Root
          /\ q.op \in {"move", "copy"} => q.path # q.dest
ASSUME FaultAssumption == \A l \in Load : l.faults \subseteq FaultKinds

\* What a request may await: its body, a file operation.
Awaits ==
    {"idle", "body", "read", "check", "mkparents", "rename", "unlink", "stat", "mkdest",
     "move", "readsource", "unlinksource", "statdir", "statparent", "makedir",
     "props", "etag", "readdir", "statentry", "listblobs", "done"}
Statuses == {0, 200, 201, 204, 400, 404, 405, 409, 412, 500}

VARIABLES
    load,    \* what clients ask and what may go wrong in this behaviour
    disk,    \* disk[f]: the content of file f
    dirs,    \* the directories that exist
    litter,  \* files next to which a temporary file was left
    queue,   \* the promise chain of manifestLock; its head runs
    mode,    \* the server process: "up", "closing", "down"
    req,     \* req[r]: the request in slot r
    pc,      \* pc[r]: the file operation that r awaits
    temp,    \* temp[r]: the content of the temporary file of r
    seen,    \* seen[r]: the content r read
    todo,    \* todo[r]: directory entries that r has yet to stat
    found,   \* found[r]: entries of the answer of r
    status,  \* status[r]: the HTTP status of the answer of r
    kept     \* bookkeeping: files present ever since the listing r arrived

local_vars == <<req, pc, temp, seen, todo, found, status>>
vars == <<disk, dirs, litter, queue, mode, local_vars, kept>>

-----------------------------------------------------------------------------
NoRequest == [op |-> "none"]

Entry == [file : File \cup Dir, tmp : BOOLEAN]
Plain(p) == [file |-> p, tmp |-> FALSE]

\* A mutant: only PUTs wait for the lock.
NeedsLock_PutsOnly(q) == q.op = "put" /\ q.path = Manifest

\* withLock: operations that change the manifest run one after the other.
NeedsLock(q) ==
    \/ q.op \in {"put", "delete"} /\ q.path = Manifest
    \/ q.op \in {"move", "copy"} /\ Manifest \in {q.path, q.dest}

\* The file that atomicWrite replaces.
Target(q) == IF q.op = "put" THEN q.path ELSE q.dest

\* The request goes to the endpoints of blobs, putBlob among them, which pass
\* no conditions on.
OfBlobs(q) == q.op \in {"get", "put", "delete", "list"} /\ Blobs \in {q.path, Parent[q.path]}

\* PutOptions, overwrite: the contents that the request may replace.  Given
\* both conditions, putManifest looks at If-None-Match and putResource at both.
Allow(q) ==
    IF q.op # "put" THEN IF q.overwrite THEN Content ELSE {Nothing}
    ELSE IF OfBlobs(q) THEN Content
    ELSE IF q.ifNoneMatch
         THEN {Nothing} \ (IF q.ifMatch # Nothing /\ q.path # Manifest THEN Content ELSE {})
    ELSE IF q.ifMatch # Nothing THEN {q.ifMatch} ELSE Content

\* readBody: a PUT sends a content, a POST the operation and its arguments.
HasBody(q) == q.op \notin {"get", "delete", "list"}

\* What the vault awaits first.  putResource reads the file only to compare
\* it, putManifest always.
First(q) ==
    IF q.op = "put"
    THEN IF Allow(q) = Content /\ q.path # Manifest THEN "mkparents" ELSE "check"
    ELSE [get |-> "read", delete |-> "unlink", move |-> "stat", copy |-> "stat",
          mkdir |-> "statdir", propfind |-> "props", list |-> "listblobs"][q.op]

Present == {f \in File : disk[f] # Nothing}

\* The temporary files on disk: of the writes in progress, and left over.
Temps == litter \cup {Target(req[r]) : r \in {s \in Slot : temp[s] # Nothing}}
Children(d) ==
    {Plain(f) : f \in {g \in Present : Parent[g] = d}}
        \cup {Plain(e) : e \in {s \in dirs \ {Root} : Parent[s] = d}}
        \cup {[file |-> f, tmp |-> TRUE] : f \in {g \in Temps : Parent[g] = d}}
Stats(e) ==
    IF e.tmp THEN e.file \in Temps ELSE e.file \in Present \cup dirs

-----------------------------------------------------------------------------
(* What the handlers answer: a status for each way a vault operation ends.  *)

Reading  == [ok |-> 200, NotFound |-> 404, error |-> 500]
Writing  == [ok |-> 200, PreconditionFailed |-> 412, error |-> 500]
Deleting == [ok |-> 204, error |-> 500]

ManifestAnswers == [get |-> Reading, put |-> Writing, delete |-> Deleting]
BlobAnswers ==
    [get |-> Reading, put |-> [ok |-> 200, error |-> 500], delete |-> Deleting,
     list |-> [ok |-> 200, error |-> 500]]
ResourceOpAnswer(op) ==
    [ok       |-> [move |-> 204, copy |-> 204, mkdir |-> 201, propfind |-> 200][op],
     NotFound |-> 404, Conflict |-> 409, Exists |-> 405, error |-> 500]
ResourceAnswer(op) ==
    CASE op = "get" -> Reading
      [] op = "put" -> Writing
      [] op = "delete" -> Deleting
      [] OTHER -> ResourceOpAnswer(op)

\* handle: the handler of a request.
Answer(q, outcome) ==
    IF q.path = Manifest /\ q.op \in DOMAIN ManifestAnswers
    THEN ManifestAnswers[q.op][outcome]
    ELSE IF OfBlobs(q)
    THEN BlobAnswers[q.op][outcome]
    ELSE ResourceAnswer(q.op)[outcome]

-----------------------------------------------------------------------------
Init ==
    /\ load \in Load
    /\ disk = [f \in File |-> Nothing]
    /\ dirs = {Root}
    /\ litter = {}
    /\ queue = <<>>
    /\ mode = "up"
    /\ req = [r \in Slot |-> NoRequest]
    /\ pc = [r \in Slot |-> "idle"]
    /\ temp = [r \in Slot |-> Nothing]
    /\ seen = [r \in Slot |-> Nothing]
    /\ todo = [r \in Slot |-> {}]
    /\ found = [r \in Slot |-> {}]
    /\ status = [r \in Slot |-> 0]
    /\ kept = [r \in Slot |-> {}]

-----------------------------------------------------------------------------
(* Steps.                                                                  *)

At(r, await) == pc[r] = await /\ (NeedsLock(req[r]) => Head(queue) = r)

Go(r, await) ==
    /\ pc' = [pc EXCEPT ![r] = await]
    /\ UNCHANGED <<queue, status>>

\* A mutant: an operation that throws breaks the chain.
Finish_KeepsLock(r, outcome) ==
    /\ pc' = [pc EXCEPT ![r] = "done"]
    /\ status' = [status EXCEPT ![r] = Answer(req[r], outcome)]
    /\ queue' = IF NeedsLock(req[r]) /\ outcome = "ok" THEN Tail(queue) ELSE queue

\* The operation resolves or throws: the handler answers and the next
\* operation of the chain runs.
Finish(r, outcome) ==
    /\ pc' = [pc EXCEPT ![r] = "done"]
    /\ status' = [status EXCEPT ![r] = Answer(req[r], outcome)]
    /\ queue' = IF NeedsLock(req[r]) THEN Tail(queue) ELSE queue

\* Bookkeeping of every step: what a listing in progress should contain.
Observe ==
    kept' = [r \in Slot |->
                IF pc'[r] = "idle" \/ req'[r].op \notin {"propfind", "list"} THEN {}
                ELSE IF pc[r] = "idle" THEN Present'
                ELSE kept[r] \cap Present']

Keep(x) == UNCHANGED <<mode, req>> /\ UNCHANGED x /\ Observe

\* The handler calls the vault.
Enter(r, q) ==
    /\ pc' = [pc EXCEPT ![r] = First(q)]
    /\ queue' = IF NeedsLock(q) THEN Append(queue, r) ELSE queue

\* handle routes a request to its handler.
Arrive(r, q) ==
    /\ mode = "up" /\ pc[r] = "idle"
    /\ req' = [req EXCEPT ![r] = q]
    /\ IF HasBody(q)
       THEN pc' = [pc EXCEPT ![r] = "body"] /\ UNCHANGED queue
       ELSE Enter(r, q)
    /\ UNCHANGED <<disk, dirs, litter, mode, temp, seen, todo, found, status>>
    /\ Observe

BodyEnds(r) ==
    /\ pc[r] = "body"
    /\ Enter(r, req[r])
    /\ UNCHANGED status
    /\ Keep(<<disk, dirs, litter, temp, seen, todo, found>>)

\* The client goes away or is too slow, the body is too large or makes no sense.
BodyFails(r) ==
    /\ pc[r] = "body" /\ "abort" \in load.faults
    /\ pc' = [pc EXCEPT ![r] = "done"]
    /\ status' = [status EXCEPT ![r] = 400]
    /\ UNCHANGED queue
    /\ Keep(<<disk, dirs, litter, temp, seen, todo, found>>)

\* getManifest, getResource
Read(r) ==
    LET v == disk[req[r].path] IN
    /\ At(r, "read")
    /\ seen' = [seen EXCEPT ![r] = v]
    /\ Finish(r, IF v = Nothing THEN "NotFound" ELSE "ok")
    /\ Keep(<<disk, dirs, litter, temp, todo, found>>)

\* putManifest, putResource: the file is read and compared with the condition.
Check(r) ==
    /\ At(r, "check")
    /\ IF disk[req[r].path] \in Allow(req[r])
       THEN Go(r, "mkparents")
       ELSE Finish(r, "PreconditionFailed")
    /\ Keep(<<disk, dirs, litter, temp, seen, todo, found>>)

\* A mutant: the file itself is opened for writing.
WriteTemp_InPlace(r) ==
    /\ At(r, "mkparents")
    /\ disk' = [disk EXCEPT ![Target(req[r])] = Half]
    /\ dirs' = dirs \cup {Parent[Target(req[r])]}
    /\ temp' = [temp EXCEPT ![r] = IF req[r].op = "put" THEN req[r].body ELSE seen[r]]
    /\ Go(r, "rename")
    /\ Keep(<<litter, seen, todo, found>>)

\* atomicWrite: after mkdir the temporary file is written, without an await.
WriteTemp(r) ==
    LET v == IF req[r].op = "put" THEN req[r].body ELSE seen[r] IN
    /\ At(r, "mkparents")
    /\ dirs' = dirs \cup {Parent[Target(req[r])]}
    /\ \/ temp' = [temp EXCEPT ![r] = v]
       \/ "short" \in load.faults /\ temp' = [temp EXCEPT ![r] = Half]
    /\ Go(r, "rename")
    /\ Keep(<<disk, litter, seen, todo, found>>)

Rename(r) ==
    /\ At(r, "rename")
    /\ disk' = [disk EXCEPT ![Target(req[r])] = temp[r]]
    /\ temp' = [temp EXCEPT ![r] = Nothing]
    /\ IF req[r].op = "move"
       THEN Go(r, "unlinksource")
       ELSE Finish(r, "ok")
    /\ Keep(<<dirs, litter, seen, todo, found>>)

\* deleteManifest, deleteResource
Unlink(r) ==
    /\ At(r, "unlink")
    /\ disk' = [disk EXCEPT ![req[r].path] = Nothing]
    /\ Finish(r, "ok")
    /\ Keep(<<dirs, litter, temp, seen, todo, found>>)

\* moveResourceLocked, copyResourceLocked
StatDest(r) ==
    /\ At(r, "stat")
    /\ IF disk[req[r].dest] \in Allow(req[r])
       THEN Go(r, "mkdest")
       ELSE Finish(r, "Conflict")
    /\ Keep(<<disk, dirs, litter, temp, seen, todo, found>>)

MakeDest(r) ==
    /\ At(r, "mkdest")
    /\ dirs' = dirs \cup {Parent[req[r].dest]}
    /\ Go(r, IF req[r].op = "move" THEN "move" ELSE "readsource")
    /\ Keep(<<disk, litter, temp, seen, todo, found>>)

MoveFile(r) ==
    LET v == disk[req[r].path] IN
    /\ At(r, "move") /\ v # Nothing
    /\ disk' = [disk EXCEPT ![req[r].dest] = v, ![req[r].path] = Nothing]
    /\ seen' = [seen EXCEPT ![r] = v]
    /\ Finish(r, "ok")
    /\ Keep(<<dirs, litter, temp, todo, found>>)

\* Any error of rename leads to copy and delete.
MoveFails(r) ==
    /\ At(r, "move")
    /\ disk[req[r].path] = Nothing \/ "io" \in load.faults
    /\ Go(r, "readsource")
    /\ Keep(<<disk, dirs, litter, temp, seen, todo, found>>)

ReadSource(r) ==
    LET v == disk[req[r].path] IN
    /\ At(r, "readsource")
    /\ seen' = [seen EXCEPT ![r] = v]
    /\ IF v = Nothing THEN Finish(r, "error") ELSE Go(r, "mkparents")
    /\ Keep(<<disk, dirs, litter, temp, todo, found>>)

UnlinkSource(r) ==
    /\ At(r, "unlinksource")
    /\ disk' = [disk EXCEPT ![req[r].path] = Nothing]
    /\ Finish(r, IF disk[req[r].path] = Nothing THEN "error" ELSE "ok")
    /\ Keep(<<dirs, litter, temp, seen, todo, found>>)

\* mkCol
StatDir(r) ==
    /\ At(r, "statdir")
    /\ IF req[r].path \in dirs THEN Finish(r, "Exists") ELSE Go(r, "statparent")
    /\ Keep(<<disk, dirs, litter, temp, seen, todo, found>>)

StatParent(r) ==
    /\ At(r, "statparent")
    /\ IF Parent[req[r].path] \in dirs THEN Go(r, "makedir") ELSE Finish(r, "Conflict")
    /\ Keep(<<disk, dirs, litter, temp, seen, todo, found>>)

MakeDir(r) ==
    /\ At(r, "makedir")
    /\ dirs' = dirs \cup {req[r].path}
    /\ Finish(r, IF req[r].path \in dirs THEN "Exists" ELSE "ok")
    /\ Keep(<<disk, litter, temp, seen, todo, found>>)

\* propFind: one resource, or a directory and its entries, one stat each.
Props(r) ==
    LET q == req[r] IN
    /\ At(r, "props")
    /\ IF ~Stats(Plain(q.path))
       THEN Finish(r, "NotFound") /\ UNCHANGED found
       ELSE /\ found' = [found EXCEPT ![r] = {Plain(q.path)}]
            /\ IF q.path \in Dir
               THEN IF q.deep THEN Go(r, "readdir") ELSE Finish(r, "ok")
               ELSE IF q.deep THEN Finish(r, "ok") ELSE Go(r, "etag")
    /\ Keep(<<disk, dirs, litter, temp, seen, todo>>)

ReadForETag(r) ==
    LET v == disk[req[r].path] IN
    /\ At(r, "etag")
    /\ seen' = [seen EXCEPT ![r] = v]
    /\ Finish(r, IF v = Nothing THEN "error" ELSE "ok")
    /\ Keep(<<disk, dirs, litter, temp, todo, found>>)

ReadDir(r) ==
    /\ At(r, "readdir")
    /\ todo' = [todo EXCEPT ![r] = Children(req[r].path)]
    /\ Go(r, "statentry")
    /\ Keep(<<disk, dirs, litter, temp, seen, found>>)

\* A mutant: an entry whose stat fails ends the listing.
StatEntry_Stops(r) ==
    /\ At(r, "statentry")
    /\ \E e \in todo[r] :
        \/ /\ Stats(e)
           /\ todo' = [todo EXCEPT ![r] = @ \ {e}]
           /\ found' = [found EXCEPT ![r] = @ \cup {e}]
        \/ ~Stats(e) /\ todo' = [todo EXCEPT ![r] = {}] /\ UNCHANGED found
    /\ Go(r, "statentry")
    /\ Keep(<<disk, dirs, litter, temp, seen>>)

\* An entry whose stat fails is left out.
StatEntry(r) ==
    /\ At(r, "statentry")
    /\ \E e \in todo[r] :
        /\ todo' = [todo EXCEPT ![r] = @ \ {e}]
        /\ \/ Stats(e) /\ found' = [found EXCEPT ![r] = @ \cup {e}]
           \/ ~Stats(e) /\ UNCHANGED found
    /\ Go(r, "statentry")
    /\ Keep(<<disk, dirs, litter, temp, seen>>)

EntriesDone(r) ==
    /\ At(r, "statentry") /\ todo[r] = {}
    /\ Finish(r, "ok")
    /\ Keep(<<disk, dirs, litter, temp, seen, todo, found>>)

\* listBlobs: one readdir; only files, and no temporary ones.
ListBlobs(r) ==
    /\ At(r, "listblobs")
    /\ found' = [found EXCEPT ![r] =
                    {e \in Children(req[r].path) : ~e.tmp /\ e.file \in File}]
    /\ Finish(r, "ok")
    /\ Keep(<<disk, dirs, litter, temp, seen, todo>>)

Step(r) ==
    \/ BodyEnds(r) \/ BodyFails(r)
    \/ Read(r) \/ Check(r) \/ WriteTemp(r) \/ Rename(r) \/ Unlink(r)
    \/ StatDest(r) \/ MakeDest(r) \/ MoveFile(r) \/ MoveFails(r)
    \/ ReadSource(r) \/ UnlinkSource(r)
    \/ StatDir(r) \/ StatParent(r) \/ MakeDir(r)
    \/ Props(r) \/ ReadForETag(r) \/ ReadDir(r) \/ StatEntry(r) \/ EntriesDone(r)
    \/ ListBlobs(r)

\* Any other file operation fails: the temporary file, if any, is unlinked
\* (which may fail too) and the handler answers 500.
OperationFails(r) ==
    /\ "io" \in load.faults
    /\ pc[r] \notin {"idle", "body", "done", "move", "statentry"} /\ At(r, pc[r])
    /\ temp' = [temp EXCEPT ![r] = Nothing]
    /\ \/ UNCHANGED litter
       \/ temp[r] # Nothing /\ litter' = litter \cup {Target(req[r])}
    /\ Finish(r, "error")
    /\ Keep(<<disk, dirs, seen, todo, found>>)

\* The answer reaches the client, or is lost.
Return(r) ==
    /\ pc[r] = "done"
    /\ req' = [req EXCEPT ![r] = NoRequest]
    /\ pc' = [pc EXCEPT ![r] = "idle"]
    /\ seen' = [seen EXCEPT ![r] = Nothing]
    /\ found' = [found EXCEPT ![r] = {}]
    /\ todo' = [todo EXCEPT ![r] = {}]
    /\ status' = [status EXCEPT ![r] = 0]
    /\ UNCHANGED <<disk, dirs, litter, queue, mode, temp>>
    /\ Observe

-----------------------------------------------------------------------------
(* The process.                                                            *)

\* SIGTERM: server.close takes no new request and waits for those in progress.
Shutdown ==
    /\ "stop" \in load.faults /\ mode = "up"
    /\ mode' = "closing"
    /\ UNCHANGED <<disk, dirs, litter, queue, local_vars, kept>>

Exit ==
    /\ mode = "closing" /\ \A r \in Slot : pc[r] = "idle"
    /\ mode' = "down"
    /\ UNCHANGED <<disk, dirs, litter, queue, local_vars, kept>>

\* The process is killed, by itself 30 s after the signal or from outside.
\* A write that was about to start may have begun its temporary file.
Crash ==
    /\ "crash" \in load.faults \/ mode = "closing"
    /\ mode # "down"
    /\ mode' = "down"
    /\ \E begun \in SUBSET {r \in Slot : pc[r] = "mkparents" /\ At(r, pc[r])} :
          litter' = Temps \cup {Target(req[r]) : r \in begun}
    /\ queue' = <<>>
    /\ req' = [r \in Slot |-> NoRequest]
    /\ pc' = [r \in Slot |-> "idle"]
    /\ temp' = [r \in Slot |-> Nothing]
    /\ seen' = [r \in Slot |-> Nothing]
    /\ todo' = [r \in Slot |-> {}]
    /\ found' = [r \in Slot |-> {}]
    /\ status' = [r \in Slot |-> 0]
    /\ UNCHANGED <<disk, dirs>>
    /\ Observe

Restart ==
    /\ mode = "down"
    /\ mode' = "up"
    /\ UNCHANGED <<disk, dirs, litter, queue, local_vars, kept>>

Next ==
    /\ \/ \E r \in Slot :
           \/ \E q \in load.requests : Arrive(r, q)
           \/ Step(r) \/ OperationFails(r) \/ Return(r)
       \/ Shutdown \/ Exit \/ Crash \/ Restart
    /\ UNCHANGED load

Spec == Init /\ [][Next]_<<load, vars>>

\* The operating system completes file operations, the event loop runs every
\* callback, and requestTimeout ends the wait for a body.
Fairness == \A r \in Slot : WF_vars(Step(r)) /\ WF_vars(Return(r))
FairSpec == Spec /\ Fairness

-----------------------------------------------------------------------------
(* Properties.                                                             *)

TypeOK ==
    /\ load \in Load /\ disk \in [File -> Content]
    /\ dirs \subseteq Dir /\ litter \subseteq File
    /\ queue \in Seq(Slot)
    /\ mode \in {"up", "closing", "down"}
    /\ req \in [Slot -> load.requests \cup {NoRequest}]
    /\ pc \in [Slot -> Awaits]
    /\ temp \in [Slot -> Content] /\ seen \in [Slot -> Content]
    /\ todo \in [Slot -> SUBSET Entry] /\ found \in [Slot -> SUBSET Entry]
    /\ status \in [Slot -> Statuses]
    /\ kept \in [Slot -> SUBSET File]

\* No file ever holds a content that was not written to its end, whatever
\* fails and whenever the process dies, unless the disk is full: atomicWrite
\* does not look at how much it has written (fs.js:415).
Whole == "short" \notin load.faults => \A f \in File : disk[f] # Half

\* The store is as it should be at any moment, whatever fails.
StoreOK == TypeOK /\ Whole

\* A listing has every file that was in the directory all the while it ran,
\* and is not cut short by the files that come and go (propFind, listBlobs).
ListingComplete ==
    \A r \in Slot :
        pc[r] = "done" /\ status[r] = 200 /\ (req[r].op = "list" \/ req[r].deep) =>
            \A f \in kept[r] : Parent[f] = req[r].path => Plain(f) \in found[r]

\* What the blob collection is told to be a blob is one: neither a temporary
\* file nor a directory (listBlobs).
ListingOfBlobs ==
    \A r \in Slot : req[r].op = "list" =>
        \A e \in found[r] : ~e.tmp /\ e.file \in File

\* A listing tells what is there, though files come and go while it is made.
Listings == ListingComplete /\ ListingOfBlobs

\* Every request is answered or ends with the process: nobody waits for ever
\* for manifestLock, whatever fails (withLock).
Answered == \A r \in Slot : pc[r] # "idle" ~> pc[r] = "idle"
================================================================================
