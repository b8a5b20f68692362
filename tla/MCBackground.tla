----------------------------- MODULE MCBackground -----------------------------
(* What a device does in the background, for TLC: the service that runs    *)
(* the engine (SyncService), and the collection of orphans that ends a     *)
(* round (OrphanGc).  A behaviour is one of one of them.                   *)
EXTENDS OrphanGc, SyncService

CONSTANTS d1, d2, n1, h1, h2

VARIABLE part   \* "service" or "collection"

MCInit == part \in {"service", "collection"} /\ Init /\ ServiceInit

MCNext ==
    /\ UNCHANGED part
    /\ \/ part = "service" /\ ServiceNext /\ UNCHANGED gc_vars
       \/ part = "collection" /\ Next /\ UNCHANGED service_vars

Service(A) == part = "service" /\ A
MCSpec ==
    /\ MCInit /\ [][MCNext]_<<part, gc_vars, service_vars>>
    /\ WF_service_vars(Service(Fire)) /\ WF_service_vars(Service(Proceeds))
    /\ WF_service_vars(Service(Leaves))
    /\ \A c \in Caller : WF_service_vars(Service(Goes(c)))
    /\ WF_gc_vars(part = "collection" /\ Tick)
    /\ \A d \in Device : WF_gc_vars(part = "collection" /\ Round(d))
================================================================================
