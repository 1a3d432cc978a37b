----------------------------- MODULE GatewayTests -----------------------------
(***************************************************************************)
(* The calls of the Gateway and the coordinator its tests go through.      *)
(* Each sees of the other only that a test has a result, so that a         *)
(* behaviour is one of the component `part` names.                         *)
(***************************************************************************)
EXTENDS GatewayCalls

CONSTANTS Callers, MaxResets    \* of SharedHealth

VARIABLES part, cache, stored, leftover, inflight, pc, joined, answer, begun, window, resets

Health == INSTANCE SharedHealth

health == <<cache, stored, leftover, inflight, pc, joined, answer, begun, window, resets>>

Start == part \in {"gateway", "health"} /\ Init /\ Health!Init

Step ==
    \/ part = "health" /\ Health!Next /\ UNCHANGED <<part, vars>>
    \/ part = "gateway" /\ Next /\ UNCHANGED <<part, health>>

\* Probes return or raise, and threads that can go on do.
GatewayAndHealth ==
    /\ Start /\ [][Step]_<<part, vars, health>>
    /\ \A c \in Callers : WF_health(Health!Proceed(c))
    /\ \A t \in Everyone : WF_call(Proceed(t))

\* shared_health.py:283-284: at most one probe of a model at a time and per window.
OneProbe == Health!OneProbe
\* Every call and every test comes back: retries are counted, the list of targets
\* is finite, and a probe that raises wakes those that wait for it.
EveryoneReturns == CallsReturn /\ Health!CallersReturn
===============================================================================
