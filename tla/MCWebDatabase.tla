--------------------------- MODULE MCWebDatabase ---------------------------
(* An instance of WebDatabase for TLC: two tabs from the first request on, *)
(* and three tabs that have the database open.                             *)
EXTENDS WebDatabase

CONSTANTS t1, t2, t3

MCStart ==
    {[open |-> FALSE, left |-> [tabs |-> {t1, t2}, calls |-> 3, closes |-> 1, faults |-> 1]],
     [open |-> TRUE, left |-> [tabs |-> {t1, t2, t3}, calls |-> 3, closes |-> 0, faults |-> 1]]}

=============================================================================
