---------------------------- MODULE DartFutures ----------------------------
(* What the web worker (web/sqflite_sw.js) awaits with: the futures,       *)
(* completers, microtasks and async functions of the Dart runtime that is  *)
(* compiled into it, the lock built on them that serialises a database     *)
(* (A.ea), and the wait for several futures (A.lJ) with which the blocks   *)
(* of a file are stored.                                                   *)
(*                                                                         *)
(* Code runs to its end, but code that is called back, or that a completer *)
(* releases at once, runs inside it: the stack is what runs.  What code    *)
(* does with futures is left open.  All of it is in one zone.              *)
EXTENDS Integers, Sequences, FiniteSets, SequencesExt

CONSTANT Load   \* what code there is and what it may do

ASSUME LoadAssumption ==
    \A x \in Load :
        /\ x.now \subseteq Nat /\ x.later \subseteq Nat  \* completers, of the futures 1 ..: see Complete
        /\ x.now \cup x.later = 1 .. Cardinality(x.now \cup x.later)
        /\ x.plain \subseteq Nat             \* async functions
        /\ x.locked \cap x.plain = {}        \* calls of the lock
        /\ x.section \in [x.locked -> x.plain \cup {0}]   \* what they call: see LockedCall
        /\ x.does \subseteq STRING /\ x.acts \in Nat      \* bound: how often code does it

VARIABLES
    w,      \* the worker: futures, listeners, microtasks, and what runs
    task,   \* the async functions
    last,   \* the lock: the future of the latest call of it, 0 if it is free (a)
    wait,   \* the wait for several futures
    acts,   \* what code has done
    load    \* the one of Load that is checked

vars == <<w, task, last, wait, acts>>

-----------------------------------------------------------------------------
(* Values and errors are told apart by what made them.                     *)
Value(x) == [is |-> "value", of |-> x]
Failure(x) == [is |-> "error", of |-> x]
Later(f) == [is |-> "future", of |-> f]      \* a future in the place of a value
Null == Value(<<"null", 0>>)
Cyclic == Failure(<<"cyclic", 0>>)

\* A.x: how far it is, what it was completed with, the future it takes its
\* result from (0: none) and the listeners that wait for it.  (gave is what it
\* was last completed with, kept for the properties.)
Future == [state |-> "open", res |-> Null, src |-> 0, waiting |-> <<>>, gave |-> Null]

Known(h, f) == h.fut[f].state = "done"

RECURSIVE Follow(_, _, _)
Follow(h, f, n) ==
    IF n = 0 \/ h.fut[f].state # "chained" THEN f ELSE Follow(h, h.fut[f].src, n - 1)

\* The end of the chain that f takes its result from.
Root(h, f) == Follow(h, f, Len(h.fut))

RECURSIVE Nearest(_, _)
\* The same, but for a future whose source has its result: that is copied (b_).
Nearest(h, f) ==
    IF h.fut[f].state = "chained" /\ ~Known(h, h.fut[f].src) THEN Nearest(h, h.fut[f].src) ELSE f

\* nk: the loop is started unless it runs, or is about to.
Microtask(h, m) ==
    [h EXCEPT !.queue = Append(@, m), !.loop = IF @ = "idle" THEN "due" ELSE @]

\* qR: before the others, after those that were put there since the last one ran.
Urgent(h, m) ==
    IF h.queue = <<>> THEN [Microtask(h, m) EXCEPT !.urgent = 1]
    ELSE [h EXCEPT !.queue = InsertAt(@, h.urgent + 1, m), !.urgent = @ + 1]

\* qU: an error that was thrown ends the loop; another one is started for the rest.
AfterThrow(h) == IF h.queue = <<>> THEN "idle" ELSE "due"

Notify(f, ls) == [do |-> "notify", fut |-> f, of |-> 0, ls |-> ls, res |-> Null]
Link(f, g) == [do |-> "link", fut |-> f, of |-> g, ls |-> <<>>, res |-> Null]
Settle(f, r) == [do |-> "settle", fut |-> f, of |-> 0, ls |-> <<>>, res |-> r]
Uncaught(f) == [do |-> "throw", fut |-> f, of |-> 0, ls |-> <<>>, res |-> Null]

Frame(kind, id, ls) == [kind |-> kind, id |-> id, ls |-> ls]
Push(h, fr) == [h EXCEPT !.stack = Append(@, fr)]
Pop(h) == [h EXCEPT !.stack = Front(@)]
Top == w.stack[Len(w.stack)]

\* Mutant of Propagate: an error that nobody waits for is dropped.
Propagate_Silent(h, f, ls) == IF ls = <<>> THEN h ELSE Push(h, Frame("notify", f, ls))

\* bX: the listeners of f, which has its result, are served; an error that
\* has none is thrown in a microtask of its own (fO).
Propagate(h, f, ls) ==
    IF ls # <<>> THEN Push(h, Frame("notify", f, ls))
    ELSE IF h.fut[f].res.is = "error"
         THEN [Urgent(h, Uncaught(f)) EXCEPT !.reported = @ \cup {f}]
         ELSE h

\* Mutant of Listen: the latest listener is told first.
Listen_First(h, f, l) ==
    IF Known(h, Root(h, f)) THEN Microtask(h, Notify(Root(h, f), <<l>>))
    ELSE [h EXCEPT !.fut[Root(h, f)].waiting = <<l>> \o @]

\* aX: what is known already is told in a microtask.
Listen(h, f, l) ==
    LET g == Nearest(h, f)
        told == IF h.fut[g].state = "chained" THEN h.fut[h.fut[g].src] ELSE h.fut[g]
    IN IF told.state = "done"
       THEN Microtask([h EXCEPT !.fut[g].state = "done", !.fut[g].res = told.res], Notify(g, <<l>>))
       ELSE [h EXCEPT !.fut[g].waiting = Append(@, l)]

\* b0 and T: the result is there.
Settled(h, f, r) ==
    Propagate([h EXCEPT !.fut[f].state = "done", !.fut[f].res = r, !.fut[f].waiting = <<>>],
              f, h.fut[f].waiting)

\* ea and aY: it is there in a microtask.
SettledLater(h, f, r) == Microtask([h EXCEPT !.fut[f].state = "pending"], Settle(f, r))

Gave(h, f, r) == [h EXCEPT !.fut[f].gave = r]

\* aK and cY: the listeners of f go behind those of n, from which f takes its result.
Joined(h, f, n) ==
    [h EXCEPT !.fut[f].state = "chained", !.fut[f].src = n, !.fut[f].waiting = <<>>,
              !.fut[n].waiting = @ \o h.fut[f].waiting]

\* ji: f takes its result from g.  Its listeners go to the end of the chain; if
\* there is a result there, then f has it now, or in a microtask if somebody is
\* to be given the time to listen to an error.
Chained(h, f, g, now) ==
    LET n == Root(h, g)
        s == Gave(h, f, IF n = f THEN Cyclic ELSE Later(g))
    IN IF n = f THEN SettledLater(s, f, Cyclic)
       ELSE IF ~Known(h, n) THEN Joined(s, f, n)
       ELSE IF now \/ (h.fut[f].waiting = <<>> /\ h.fut[n].res.is = "value")
       THEN Settled(s, f, h.fut[n].res)
       ELSE Microtask([s EXCEPT !.fut[f].state = "pending"], Link(f, n))

\* A completer that completes at once (A.Y) and one that does not (A.bU).
Completed(h, f, r, now) ==
    IF r.is = "future" THEN Chained(h, f, r.of, now)
    ELSE IF now THEN Settled(Gave(h, f, r), f, r)
    ELSE SettledLater(Gave(h, f, r), f, r)

NewFuture(h) == [h EXCEPT !.fut = Append(@, Future)]
NextFuture == Len(w.fut) + 1

\* A listener (A.b9): the future it listens to, the future its callback is to
\* complete (0: nobody ever looks at that), and for whom it listens.  (served
\* is how often it was told, kept for the properties.)
Listener(f, child, kind, who) ==
    [on |-> f, child |-> child, kind |-> kind, who |-> who, served |-> 0]
Add(h, f, child, kind, who) ==
    Listen([h EXCEPT !.lis = Append(@, Listener(f, child, kind, who))], f, Len(h.lis) + 1)

\* Whether a listener has a callback for a value, or for an error.
Hears(l, r) ==
    CASE l.kind = "then" -> r.is = "value"
      [] l.kind = "catch" -> r.is = "error"
      [] OTHER -> TRUE

-----------------------------------------------------------------------------
(* Async functions.  A call has the future it answers with (fut), and went *)
(* on being run after its first await or not (late).  A call of the lock   *)
(* (aI) is one; it also has its own future in the lock (mine), where it is *)
(* (pc) and what its section gave it (got).                                *)

NoTask == [at |-> "new", fut |-> 0, late |-> FALSE, pc |-> "enter", mine |-> 0, got |-> Null]

Plain == load.plain
Locked == load.locked

\* A.l: an async function runs at once, up to its first await.
Called(h, b) == Push(NewFuture(h), Frame("task", b, <<>>))
StartedTask(b) == [task EXCEPT ![b].at = "run", ![b].fut = NextFuture]

\* h and qb: it listens, and is then left.
Suspended(h, b, f) ==
    Add([h EXCEPT !.stack[Len(h.stack)].kind = "leaving"], f, 0, "await", b)
Waiting(b) == [task EXCEPT ![b].at = "await", ![b].late = TRUE]

\* k, j and A.dq: before the first await its caller does not have the future
\* yet, so the result comes later.
Ended(h, b, r) ==
    LET f == task[b].fut IN
    IF r.is = "future" THEN Chained(Pop(h), f, r.of, FALSE)
    ELSE Completed(Pop(h), f, r, task[b].late)
Over(b) == [task EXCEPT ![b].at = "over"]

-----------------------------------------------------------------------------
(* What code does: Code is the frame it runs in.                           *)

InCode ==
    /\ w.stack # <<>>
    /\ Top.kind \in {"event", "call"} \/ (Top.kind = "task" /\ Top.id \in Plain)

Act(what) ==
    /\ InCode /\ what \in load.does /\ acts < load.acts
    /\ acts' = acts + 1

\* The futures that code can get at: not those inside the lock.
Futures == DOMAIN w.fut \ {task[b].mine : b \in Locked}
Results(x) ==
    {Value(x), Failure(x)} \cup (IF "forward" \in load.does THEN {Later(f) : f \in Futures} ELSE {})

\* W and a3 of A.cu: otherwise "Future already completed".
Open(f) == w.fut[f].state = "open"

Complete ==
    /\ Act("complete")
    /\ \E f \in load.now \cup load.later, r \in Results(<<"act", acts>>) :
         Open(f) /\ w' = Completed(w, f, r, f \in load.now)
    /\ UNCHANGED <<task, last, wait>>

\* aP and its like: a future for what the callback is to give.
AddListener ==
    /\ \E kind \in {"then", "catch", "always"}, f \in Futures :
         /\ Act(kind)
         /\ w' = Add(NewFuture(w), f, NextFuture, kind, 0)
    /\ UNCHANGED <<task, last, wait>>

Call ==
    /\ \E b \in DOMAIN task :
         /\ Act(IF b \in Locked THEN "lock" ELSE "call")
         /\ task[b].at = "new" /\ b \notin Range(load.section)
         /\ w' = Called(w, b) /\ task' = StartedTask(b)
    /\ UNCHANGED <<last, wait>>

NoWait == [fut |-> 0, all |-> FALSE, of |-> {}, left |-> 0, failed |-> Null]

\* lJ (Future.wait) and op (the wait of a list, all): a listener for each
\* future, in their order.
Wait ==
    /\ Act("wait") /\ wait.fut = 0
    /\ \E F \in SUBSET Futures \ {{}}, all \in BOOLEAN :
         /\ wait' = [fut |-> NextFuture, all |-> all, of |-> F, left |-> Cardinality(F), failed |-> Null]
         /\ w' = FoldLeft(LAMBDA h, f : Add(h, f, 0, "wait", 0), NewFuture(w), SetToSortSeq(F, <))
    /\ UNCHANGED <<task, last>>

Await ==
    /\ Act("await") /\ Top.kind = "task"
    /\ \E f \in Futures \ {task[Top.id].fut} : w' = Suspended(w, Top.id, f)
    /\ task' = Waiting(Top.id)
    /\ UNCHANGED <<last, wait>>

Gives == Results(<<"end", Top.id>>)     \* what a callback or an async function ends with

Return ==
    /\ InCode /\ Top.kind = "task"
    /\ \E r \in Gives : w' = Ended(w, Top.id, r)
    /\ task' = Over(Top.id)
    /\ UNCHANGED <<last, wait, acts>>

EndEvent ==
    /\ InCode /\ Top.kind = "event"
    /\ w' = Pop(w)
    /\ UNCHANGED <<task, last, wait, acts>>

-----------------------------------------------------------------------------
(* The runtime.                                                            *)

Running(kind) == w.stack # <<>> /\ Top.kind = kind
Told == w.fut[Top.id].res
Listening == Head(Top.ls)

\* The listener at the head of the frame has its turn.
Serving ==
    [w EXCEPT !.stack[Len(w.stack)].ls = Tail(@), !.lis[Listening].served = @ + 1]

\* jl, jm, jn: the callback runs.
CallBack ==
    /\ Running("notify") /\ Top.ls # <<>>
    /\ LET l == w.lis[Listening] IN
         /\ l.kind \in {"then", "catch", "always"} /\ Hears(l, Told)
         /\ w' = Push(Serving, Frame("call", Listening, <<>>))
    /\ UNCHANGED <<task, last, wait, acts>>

\* jO, jP: an async function goes on, with a value or an error.
Resume ==
    /\ Running("notify") /\ Top.ls # <<>>
    /\ LET l == w.lis[Listening] IN
         /\ l.kind = "await"
         /\ w' = Push(Serving, Frame("task", l.who, <<>>))
         /\ task' = [task EXCEPT ![l.who].at = "run",
                                 ![l.who].got = IF task[l.who].pc = "in" THEN Told ELSE @]
    /\ UNCHANGED <<last, wait, acts>>

\* A listener without a callback for this result passes it on.
PassOn ==
    /\ Running("notify") /\ Top.ls # <<>>
    /\ ~Hears(w.lis[Listening], Told)
    /\ w' = Settled(Serving, w.lis[Listening].child, Told)
    /\ UNCHANGED <<task, last, wait, acts>>

\* jo, jp: what whenComplete's callback gave is there; an error of it goes
\* before the result it followed.
Restore ==
    /\ Running("notify") /\ Top.ls # <<>>
    /\ LET l == w.lis[Listening] IN
         /\ l.kind = "restore"
         /\ w' = Settled(Serving, l.child, IF Told.is = "error" THEN Told ELSE w.fut[l.who].res)
    /\ UNCHANGED <<task, last, wait, acts>>

WaitOver == wait'.left = 0

\* hq and hr keep the first error; jc counts them, and hp makes one of them all.
Failed(r) ==
    IF r.is = "value" THEN wait.failed
    ELSE IF wait.all THEN Failure(<<"several", 0>>)
    ELSE IF wait.failed = Null THEN r ELSE wait.failed

WaitResult == IF wait'.failed = Null THEN Value(<<"all", 0>>) ELSE wait'.failed

CountDown ==
    /\ Running("notify") /\ Top.ls # <<>> /\ w.lis[Listening].kind = "wait"
    /\ wait' = [wait EXCEPT !.left = @ - 1, !.failed = Failed(Told)]
    /\ w' = IF WaitOver THEN Settled(Serving, wait.fut, WaitResult) ELSE Serving
    /\ UNCHANGED <<task, last, acts>>

AllServed ==
    /\ Running("leaving") \/ (Running("notify") /\ Top.ls = <<>>)
    /\ w' = Pop(w)
    /\ UNCHANGED <<task, last, wait, acts>>

\* jm, jl: what the callback of then or catchError gives is the result.
\* jn: that of whenComplete keeps the result it followed, unless it fails; a
\* future that it gives is waited for.
Leaves(l, r, kept) ==
    CASE l.kind # "always" -> r
      [] r.is = "future" /\ Known(w, r.of) ->
           IF w.fut[r.of].res.is = "error" THEN w.fut[r.of].res ELSE kept
      [] r.is = "value" -> kept
      [] OTHER -> r

\* The end of an iteration of bX.
Concluded(h, f, r) ==
    IF r.is # "future" THEN Settled(h, f, r)
    ELSE IF Known(h, r.of) THEN Settled(h, f, h.fut[r.of].res)
    ELSE Chained(h, f, r.of, TRUE)

CallbackReturns ==
    /\ Running("call")
    /\ LET l == w.lis[Top.id]
            source == Root(w, l.on)
            Restoring(g) == Add(NewFuture(Pop(w)), g, NextFuture, "restore", source)
       IN \E r \in Gives :
            LET left == Leaves(l, r, w.fut[source].res) IN
            w' = IF l.kind = "always" /\ left.is = "future"
                 THEN Concluded(Restoring(left.of), l.child, Later(NextFuture))
                 ELSE Concluded(Pop(w), l.child, left)
    /\ UNCHANGED <<task, last, wait, acts>>

\* qG: a microtask.
TakeMicrotask ==
    /\ w.stack = <<>> /\ w.queue # <<>> /\ w.loop # "idle"
    /\ LET m == Head(w.queue)
            h == [w EXCEPT !.queue = Tail(@), !.urgent = 0, !.loop = "running"]
       IN w' = CASE m.do = "notify" -> Propagate(h, m.fut, m.ls)
                 [] m.do = "link" -> Chained(h, m.fut, m.of, TRUE)
                 [] m.do = "settle" -> Settled(h, m.fut, m.res)
                 [] m.do = "throw" -> [h EXCEPT !.loop = AfterThrow(h)]
    /\ UNCHANGED <<task, last, wait, acts>>

LoopEnds ==
    /\ w.stack = <<>> /\ w.queue = <<>> /\ w.loop # "idle"
    /\ w' = [w EXCEPT !.loop = "idle", !.urgent = 0]
    /\ UNCHANGED <<task, last, wait, acts>>

\* The host runs something else: also before the loop that is due (a timer).
Event ==
    /\ w.stack = <<>> /\ w.loop # "running" /\ acts < load.acts
    /\ w' = Push(w, Frame("event", 0, <<>>))
    /\ UNCHANGED <<task, last, wait, acts>>

-----------------------------------------------------------------------------
(* The lock (A.ea.aI).                                                     *)

InLock(pc) == Running("task") /\ Top.id \in Locked /\ task[Top.id].pc = pc
At(t, b, pc) == [t EXCEPT ![b].pc = pc]

\* It takes its place, and waits for the call before it.
Enter ==
    /\ InLock("enter")
    /\ LET b == Top.id
            t == [At(task, b, "run") EXCEPT ![b].mine = NextFuture]
            h == NewFuture(w)
       IN /\ last' = NextFuture
          /\ IF last = 0 THEN w' = h /\ task' = t
             ELSE /\ w' = Suspended(h, b, last)
                  /\ task' = [t EXCEPT ![b].at = "await", ![b].late = TRUE]
    /\ UNCHANGED <<wait, acts>>

\* It calls its section: an async function, or (0) code that ends at once.
LockedCall ==
    /\ InLock("run")
    /\ LET b == Top.id
            s == load.section[b]
       IN IF s = 0
          THEN /\ \E r \in {Value(<<"end", b>>), Failure(<<"end", b>>)} :
                    task' = [At(task, b, "leave") EXCEPT ![b].got = r]
               /\ UNCHANGED w
          ELSE w' = Called(w, s) /\ task' = At(StartedTask(s), b, "called")
    /\ UNCHANGED <<last, wait, acts>>

AwaitSection ==
    /\ InLock("called")
    /\ LET b == Top.id IN
         /\ w' = Suspended(w, b, task[load.section[b]].fut)
         /\ task' = At(Waiting(b), b, "in")
    /\ UNCHANGED <<last, wait, acts>>

\* Mutant of Freed: whether another call has come is not looked at.
Freed_Always(b) == 0

\* fZ: the lock is free if nobody has come since, and the next one goes on at once.
Freed(b) == IF last = task[b].mine THEN 0 ELSE last

Leave ==
    /\ InLock("in") \/ InLock("leave")
    /\ LET b == Top.id IN
         /\ last' = Freed(b)
         /\ w' = Settled(w, task[b].mine, Null)
         /\ task' = At(task, b, "left")
    /\ UNCHANGED <<wait, acts>>

LockReturns ==
    /\ InLock("left")
    /\ w' = Ended(w, Top.id, task[Top.id].got) /\ task' = Over(Top.id)
    /\ UNCHANGED <<last, wait, acts>>

-----------------------------------------------------------------------------
Init ==
    /\ load \in Load
    /\ w = [fut |-> [f \in load.now \cup load.later |-> Future], lis |-> <<>>,
            queue |-> <<>>, urgent |-> 0, loop |-> "idle", stack |-> <<>>, reported |-> {}]
    /\ task = [b \in load.plain \cup load.locked |-> NoTask]
    /\ last = 0 /\ acts = 0
    /\ wait = NoWait

Code == Complete \/ AddListener \/ Call \/ Wait \/ Await \/ Return \/ EndEvent
Runtime ==
    \/ CallBack \/ Resume \/ PassOn \/ Restore \/ CountDown \/ AllServed \/ CallbackReturns
    \/ TakeMicrotask \/ LoopEnds
Lock == Enter \/ LockedCall \/ AwaitSection \/ Leave \/ LockReturns

Next == (Code \/ Runtime \/ Lock \/ Event) /\ UNCHANGED load

Spec == Init /\ [][Next]_<<load, vars>>

-----------------------------------------------------------------------------
\* Nothing goes on by itself any more: only the host may call again.
Quiet == w.stack = <<>> /\ w.loop = "idle"

Result(f) == w.fut[Root(w, f)]

TypeOK ==
    /\ \A f \in DOMAIN w.fut :
         /\ w.fut[f].state \in {"open", "pending", "chained", "done"}
         /\ w.fut[f].src \in 0 .. Len(w.fut)
         /\ w.fut[f].waiting # <<>> => w.fut[f].state \in {"open", "pending"}
    /\ w.urgent \in 0 .. Len(w.queue) /\ w.loop \in {"idle", "due", "running"}
    /\ \A b \in DOMAIN task : task[b].fut # 0 <=> task[b].at # "new"
    /\ last # 0 => \E b \in Locked : task[b].mine = last

\* Listeners of one future are told its result in the order in which they
\* were added, each once, however the future came by it (A.bX, A.aX, A.cY).
InOrder ==
    [][\A l \in DOMAIN w.lis :
         w'.lis[l].served > w.lis[l].served =>
           /\ w.lis[l].served = 0
           /\ \A k \in 1 .. l - 1 : w.lis[k].on = w.lis[l].on => w.lis[k].served = 1]_vars

\* When nothing goes on, everybody has been told who listens to a future that
\* has its result: no await is left hanging, also after errors that nobody
\* caught have ended the microtask loop (A.qU).
NoneForgotten ==
    Quiet => \A l \in DOMAIN w.lis :
        Result(w.lis[l].on).state = "done" => w.lis[l].served = 1

\* Futures that wait for one another get an error instead of waiting for ever (A.ji).
NoLoop == \A f \in DOMAIN w.fut : Result(f).state # "chained"

\* A future that was completed with another one ends as that one does (A.ji).
FollowsOther ==
    Quiet => \A f \in DOMAIN w.fut :
        LET g == w.fut[f].gave IN
        g.is = "future" /\ Result(g.of).state = "done" =>
            Result(f).state = "done" /\ Result(f).res = Result(g.of).res

\* An error that nobody listens to is thrown where the host reports it (A.bX, A.fO).
ErrorsSurface ==
    Quiet => \A f \in DOMAIN w.fut :
        /\ w.fut[f].state = "done" /\ w.fut[f].res.is = "error"
        /\ \A l \in DOMAIN w.lis : w.lis[l].on # f
        /\ \A g \in DOMAIN w.fut : w.fut[g].gave # Later(f)
        => f \in w.reported

\* An async function is not gone on with while it still runs: what it awaits
\* is known, and told, only after it has left (A.aX).
NotReentered ==
    \A i, j \in DOMAIN w.stack :
        i < j /\ w.stack[i].kind \in {"task", "leaving"} /\ w.stack[j].kind = "task"
        => w.stack[i].id # w.stack[j].id

\* Sections of the lock do not overlap, whatever they await and however they
\* end (A.ea.aI), and nobody waits for a lock that is free.
Inside(b) == task[b].pc \in {"called", "in", "leave"}
Exclusive ==
    /\ \A a, b \in Locked : Inside(a) /\ Inside(b) => a = b
    /\ Quiet /\ (\A b \in Locked : ~Inside(b))
       => \A b \in Locked : task[b].at \in {"new", "over"}

\* The wait ends when all futures have ended: with an error if one has failed,
\* and no other error (A.lJ, A.op).
WaitsForAll ==
    wait.fut # 0 /\ w.fut[wait.fut].state = "done" =>
        /\ \A f \in wait.of : Result(f).state = "done"
        /\ IF w.fut[wait.fut].res.is = "error"
           THEN \E f \in wait.of :
                    Result(f).res.is = "error" /\ (wait.all \/ Result(f).res = w.fut[wait.fut].res)
           ELSE \A f \in wait.of : Result(f).res.is = "value"

\* Whoever waits is told once what there is to be told: for a future, for those
\* that follow one another, for all of several, and for an error.
Delivered ==
    TypeOK /\ NoLoop /\ NoneForgotten /\ FollowsOther /\ ErrorsSurface /\ WaitsForAll

\* What has begun is not begun again before it has ended.
Undisturbed == NotReentered /\ Exclusive

=============================================================================
