------------------------------- MODULE MCServer -------------------------------
(* The parts of the Node.js server for TLC: the store under concurrent     *)
(* requests (MCServerStorage); the limit on failed attempts over time      *)
(* (AuthLimit); a few exchanges from connection to log (ServerFront).  A   *)
(* behaviour is one of one part: the others have nothing to do.            *)
EXTENDS MCServerStorage, ServerFront

CONSTANTS i1, i2, i3

VARIABLE part   \* "store", "limit" or "exchanges"

Quiet == CHOOSE l \in Load : TRUE
MCInit ==
    /\ part \in {"store", "limit", "exchanges"}
    /\ Init /\ FrontInit
    /\ part # "store" => load = Quiet
    /\ part # "limit" => limit = 1
    /\ part # "exchanges" => level = LevelOf("info")

MCNext ==
    /\ UNCHANGED part
    /\ \/ part = "store" /\ Next /\ UNCHANGED <<auth_vars, front_vars>>
       \/ part = "limit" /\ AuthNext /\ UNCHANGED <<load, vars, front_vars>>
       \/ part = "exchanges" /\ FrontNext /\ UNCHANGED <<load, vars>>

MCSpec ==
    /\ MCInit /\ [][MCNext]_<<part, load, vars, auth_vars, front_vars>>
    /\ \A r \in Slot :
          WF_vars(part = "store" /\ Step(r)) /\ WF_vars(part = "store" /\ Return(r))
================================================================================
