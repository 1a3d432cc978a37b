---------------------------- MODULE TurnsAndStreams ----------------------------
(***************************************************************************)
(* The chat turn and the streams in which what it produced is read.  They  *)
(* share no state of the program, so that a behaviour is one of the        *)
(* component `part` names.                                                 *)
(***************************************************************************)
EXTENDS ChatTurn

CONSTANTS MaxItems, MaxLine, MaxBreaks, Hot, Limit, Recent, Batch, MaxPage  \* of OutputStreams

\* A query or a page asks for something, and the event table keeps something.
ASSUME StreamsAssumption ==
    /\ MaxItems \in Nat /\ MaxLine \in Nat /\ MaxBreaks \in Nat /\ Hot \in Nat
    /\ Limit \in Nat \ {0} /\ Recent \in Nat /\ Batch \in Nat \ {0} /\ MaxPage \in Nat \ {0}

VARIABLES part, channel, kept, ends, store, source, hand, client, breaks

Streams == INSTANCE OutputStreams

streams == <<channel, kept, ends, store, source, hand, client, breaks>>

TurnsOrStreams ==
    \/ part = "turns" /\ Next /\ UNCHANGED <<part, streams>>
    \/ part = "streams" /\ Streams!Next /\ UNCHANGED <<part, vars>>

\* _sse_start_id "instead of skipping or replaying events": a reader is handed,
\* once and in order, all that retention has not dropped.
Delivers == Streams!Delivers
\* Every request is answered, and whoever stays connected receives what is written.
TurnsReturnAndFollowersCatchUp == TurnsReturn /\ Streams!FollowersCatchUp
===============================================================================
