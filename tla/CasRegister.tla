------------------------------ MODULE CasRegister ------------------------------
(***************************************************************************)
(* What the sync engine expects of the place where it keeps a shared       *)
(* object (the manifest, items.meta): a register with compare-and-swap.    *)
(* A call takes effect at one moment between its arrival and its answer,   *)
(* and the answer tells what the register held, or became, at that moment. *)
(* NoteSync and NoteMetaSync are written over such a register; the server  *)
(* must implement it (ServerStorage).                                      *)
(***************************************************************************)
CONSTANTS
    Caller,   \* calls that may be in progress at a time
    Value,    \* contents the register may hold
    Nothing   \* the content of a register that does not exist

VARIABLES
    value,    \* what the register holds
    call      \* call[c]: the call c, until its answer is delivered or lost

vars == <<value, call>>

Content == Value \cup {Nothing}

\* "write" is a PUT; "fill" writes a content found elsewhere; "take" removes
\* the content and hands it to the caller.
Kind == {"read", "write", "fill", "remove", "take"}
\* allow: the contents over which the call may write.  Every content for a
\* plain PUT, {Nothing} for If-None-Match: *, {v} for If-Match: the ETag of v.
Op == [kind : Kind, allow : SUBSET Content, body : Content]
NoOp == [kind |-> "none", allow |-> {}, body |-> Nothing]

Idle == [phase |-> "idle", op |-> NoOp, status |-> "none", data |-> Nothing]
Called(op) == [phase |-> "called", op |-> op, status |-> "none", data |-> Nothing]
Settled(op, s, d) == [phase |-> "settled", op |-> op, status |-> s, data |-> d]

Init == value \in Content /\ call = [c \in Caller |-> Idle]

\* Any operation.
Invoke(c) ==
    /\ call[c] = Idle
    /\ call'[c].op \in Op
    /\ call' = [call EXCEPT ![c] = Called(call'[c].op)]
    /\ UNCHANGED value

Settle(c, s, d) == call' = [call EXCEPT ![c] = Settled(call[c].op, s, d)]

\* The moment at which a call takes effect.
Effect(c) ==
    LET op == call[c].op IN
    /\ call[c].phase = "called"
    /\ \/ /\ op.kind = "read"
          /\ UNCHANGED value
          /\ Settle(c, "ok", value)
       \/ /\ op.kind \in {"write", "fill"} /\ value \in op.allow
          /\ IF op.kind = "write" THEN value' = op.body ELSE value' \in Value
          /\ Settle(c, "ok", Nothing)
       \/ /\ op.kind \in {"write", "fill"} /\ value \notin op.allow
          /\ UNCHANGED value
          /\ Settle(c, "refused", Nothing)
       \/ /\ op.kind = "remove"
          /\ value' = Nothing
          /\ Settle(c, "ok", Nothing)
       \/ /\ op.kind = "take" /\ value # Nothing
          /\ value' = Nothing
          /\ Settle(c, "ok", value)

\* An error answer: the caller does not learn whether the call took effect.
Fail(c) ==
    /\ call[c].phase # "idle"
    /\ UNCHANGED value
    /\ Settle(c, "failed", Nothing)

\* The answer is delivered, or lost.
Return(c) ==
    /\ call[c].phase = "settled"
    /\ call' = [call EXCEPT ![c] = Idle]
    /\ UNCHANGED value

\* The server stops: no call gets an answer any more, what took effect stays.
Stop == call' = [c \in Caller |-> Idle] /\ UNCHANGED value

Next ==
    \/ \E c \in Caller : Invoke(c) \/ Effect(c) \/ Fail(c) \/ Return(c)
    \/ Stop

Spec == Init /\ [][Next]_vars
================================================================================
