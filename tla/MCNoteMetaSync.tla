--------------------------- MODULE MCNoteMetaSync ---------------------------
(* TLC instances of NoteMetaSync: two devices and one or two notes.        *)
EXTENDS NoteMetaSync, TLC

CONSTANTS d1, d2, n1, n2

Symmetry == Permutations(Note)

=============================================================================
