---------------------------- MODULE MCWorkflowRuns ----------------------------
(* A small instance of WorkflowRuns alone for TLC. *)
EXTENDS WorkflowRuns, TLC

CONSTANTS r1, s1, s2

\* s1 stands last in the list; s2 runs when it succeeded.
ShortList == <<s2, s1>>
ShortEdges == (s1 :> {}) @@ (s2 :> {s1})
ShortIfs == (s1 :> None) @@ (s2 :> <<s1, "ok">>)
===============================================================================
