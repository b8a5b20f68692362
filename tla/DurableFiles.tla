---------------------------- MODULE DurableFiles ----------------------------
(* What a file system whose memory is written behind may promise: the disk *)
(* is the memory as it was at some earlier moment, a crash goes back to    *)
(* that moment and nothing older is ever brought back.  Files written in   *)
(* whole blocks (Paged) are exactly as they were then; in the others a     *)
(* cell may already have a later value.  After a write that failed (sound  *)
(* = FALSE) nothing is promised, not even after a restart.                 *)
EXTENDS Integers, Sequences, SequencesExt, Functions

CONSTANTS
    Paged,      \* the files that are written in whole blocks only
    Cells       \* the positions of a file

VARIABLES
    disk,       \* the files on the disk: name -> sequence of cells
    seen,       \* the memory after each change the disk does not have yet
    sound

vars == <<disk, seen, sound>>

\* The value at a position of a file: zero outside of it.
CellOf(files, f, c) ==
    IF f \in DOMAIN files /\ c < Len(files[f]) THEN files[f][c + 1] ELSE 0

Moments == <<disk>> \o seen
Memory == Last(Moments)

Change ==
    /\ sound /\ IsStrictPrefix(seen, seen')
    /\ UNCHANGED <<disk, sound>>

\* The disk becomes the memory after the first i changes.
Persist(i) ==
    LET moment == Moments[i + 1] IN
    /\ seen' = SubSeq(seen, i + 1, Len(seen))
    /\ DOMAIN disk' = DOMAIN moment
    /\ \A f \in DOMAIN moment :
         /\ Len(disk'[f]) = Len(moment[f])
         /\ f \in Paged => disk'[f] = moment[f]
         /\ \A c \in Cells :
              \E j \in i .. Len(seen) : CellOf(disk', f, c) = CellOf(Moments[j + 1], f, c)

Break == sound' = FALSE

Crash == seen' = <<>> /\ UNCHANGED <<disk, sound>>

Init == seen = <<>> /\ sound = TRUE

Next ==
    \/ Change
    \/ sound /\ sound' /\ \E i \in 0 .. Len(seen) : Persist(i)
    \/ Break
    \/ Crash

Spec == Init /\ [][Next]_vars

=============================================================================
