----------------------------- MODULE ServerRegister -----------------------------
(***************************************************************************)
(* Which of the server's files are the registers that the sync engine      *)
(* needs: a refinement mapping from ServerStorage to CasRegister, for any   *)
(* file.  The moment at which a request takes effect can be seen in pc, so  *)
(* the mapping needs no auxiliary variable.                                *)
(***************************************************************************)
EXTENDS ServerStorage

CONSTANT Meta   \* the file "items.meta"

ASSUME MetaAssumption == Meta \in File

\* What a request is to the register kept in file f.
Reads(f, q) == q.op \in {"get", "copy"} /\ q.path = f
Fills(f, q) == q.op \in {"move", "copy"} /\ q.dest = f
KindOn(f, q) ==
    CASE Reads(f, q) -> "read"
      [] Fills(f, q) -> "fill"
      [] q.op = "put" /\ q.path = f -> "write"
      [] q.op = "delete" /\ q.path = f -> "remove"
      [] q.op = "move" /\ q.path = f -> "take"
      [] OTHER -> "none"

OpOn(f, q) ==
    [kind  |-> KindOn(f, q),
     allow |-> IF KindOn(f, q) \in {"write", "fill"} THEN Allow(q) ELSE {},
     body  |-> IF KindOn(f, q) = "write" THEN q.body ELSE Nothing]

\* The call has taken effect, though its request may not be finished.
Effective(f, r) ==
    \/ pc[r] = "done"
    \/ req[r].op = "move" /\ req[r].dest = f /\ pc[r] = "unlinksource"
    \/ req[r].op = "copy" /\ req[r].path = f /\ pc[r] \in {"mkparents", "rename"}

Outcome(kind, s) ==
    IF s \in {0, 200, 204} \/ (kind = "read" /\ s = 404) THEN "ok"
    ELSE IF kind \in {"write", "fill"} /\ s \in {409, 412} THEN "refused"
    ELSE "failed"

Data(kind, outcome, r) ==
    IF outcome = "ok" /\ kind \in {"read", "take"} THEN seen[r] ELSE Nothing

CallOn(f, r) ==
    LET op == OpOn(f, req[r])
        outcome == Outcome(op.kind, status[r])
    IN  IF pc[r] = "idle" \/ op.kind = "none"
        THEN [phase |-> "idle", status |-> "none", data |-> Nothing,
              op |-> [kind |-> "none", allow |-> {}, body |-> Nothing]]
        ELSE IF Effective(f, r)
        THEN [phase |-> "settled", op |-> op, status |-> outcome,
              data |-> Data(op.kind, outcome, r)]
        ELSE [phase |-> "called", op |-> op, status |-> "none", data |-> Nothing]

InManifest == INSTANCE CasRegister
    WITH Caller <- Slot, value <- disk[Manifest],
         call <- [r \in Slot |-> CallOn(Manifest, r)]
InMeta == INSTANCE CasRegister
    WITH Caller <- Slot, value <- disk[Meta],
         call <- [r \in Slot |-> CallOn(Meta, r)]

\* The manifest is a compare-and-swap register: of two devices that send
\* If-Match with the ETag they both read, one is refused; an answer tells what
\* was there; a manifest moved aside is the one that was there; and what took
\* effect survives a crash (putManifest, moveResource, withLock).
ManifestRegister == InManifest!Spec

\* items.meta is one too, as putMetaObject expects: "the condition is checked
\* and the file written in one critical section" (storage.js:116).
MetaRegister == InMeta!Spec
================================================================================
