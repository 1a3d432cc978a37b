------------------------------- MODULE OneAnswer ------------------------------
(***************************************************************************)
(* What every operation of Astra promises to the one who asked for it and  *)
(* to the reader of the activity log: it begins, at most one voice answers *)
(* it, it ends once, and nothing of it follows the end.  The detailed      *)
(* modules (GatewayCalls, ChatTurn) are shown to implement this.           *)
(***************************************************************************)
CONSTANTS
    Askers,     \* those who have operations carried out, one at a time each
    Voices      \* what may answer

VARIABLES
    phase,      \* of the asker's operation: "none", "open" or "ended"
    voice       \* who has answered it: nobody, or one

vars == <<phase, voice>>

Init ==
    /\ phase = [a \in Askers |-> "none"]
    /\ voice = [a \in Askers |-> {}]

Begin(a) ==
    /\ phase[a] = "none"
    /\ phase' = [phase EXCEPT ![a] = "open"]
    /\ UNCHANGED voice

\* The first words of an answer, or more from the same source.
Speak(a, v) ==
    /\ phase[a] = "open" /\ voice[a] \subseteq {v}
    /\ voice' = [voice EXCEPT ![a] = {v}]
    /\ UNCHANGED phase

\* The terminal event; the answer may come with it.
End(a) ==
    /\ phase[a] = "open"
    /\ phase' = [phase EXCEPT ![a] = "ended"]
    /\ \/ UNCHANGED voice
       \/ voice[a] = {} /\ \E v \in Voices : voice' = [voice EXCEPT ![a] = {v}]

Return(a) ==
    /\ phase[a] = "ended"
    /\ phase' = [phase EXCEPT ![a] = "none"]
    /\ voice' = [voice EXCEPT ![a] = {}]

\* The process stops with everything that was going on.
Crash ==
    /\ phase' = [a \in Askers |-> "none"]
    /\ voice' = [a \in Askers |-> {}]

Next ==
    \/ \E a \in Askers : Begin(a) \/ End(a) \/ Return(a) \/ \E v \in Voices : Speak(a, v)
    \/ Crash

Spec == Init /\ [][Next]_vars
===============================================================================
