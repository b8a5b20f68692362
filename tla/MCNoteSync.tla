----------------------------- MODULE MCNoteSync -----------------------------
(* TLC instances of NoteSync: two or three devices, one note in sync at    *)
(* the start and uuids for notes and conflict copies still to come.        *)
EXTENDS NoteSync, TLC

CONSTANTS d1, d2, n1, n2, n3

\* The seeded note n1 holds the content 2, so that the contents produced
\* later hash below it as well as above it.
MCSeedContent == [n \in Seeded |-> IF n = n1 THEN 2 ELSE 1]

Symmetry == Permutations(Device) \cup Permutations(Note \ Seeded)

=============================================================================
