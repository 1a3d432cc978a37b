------------------------------ MODULE MCWorkflow ------------------------------
(***************************************************************************)
(* Small instances for TLC of the three workflow modules: runs of a        *)
(* workflow, the table of definitions and the scheduler.  They share no    *)
(* state, so that a behaviour is one of the component `part` names.        *)
(***************************************************************************)
EXTENDS WorkflowDefinitions, WorkflowRuns, Scheduler, TLC

CONSTANTS r1, s1, s2, s3, i1, c1, c2

VARIABLE part    \* the component that runs

\* s1 stands last in the list; s2 waits for it, s3 runs when it failed.
List == <<s2, s3, s1>>
Edges == (s1 :> {}) @@ (s2 :> {s1}) @@ (s3 :> {s1})
Ifs == (s1 :> None) @@ (s2 :> None) @@ (s3 :> <<s1, "not_ok">>)

\* One client submits every graph without a step that waits for itself, and
\* two that are refused at once; the other competes for the name.
Three == {s1, s2, s3}
Graphs == {g \in [Three -> SUBSET Three] : \A s \in Three : s \notin g[s]}
Strays == {(s1 :> {}) @@ (s2 :> {s1, Unknown}) @@ (s3 :> {s2}),
           (s1 :> {s1}) @@ (s2 :> {s1}) @@ (s3 :> {})}
Line == (s1 :> {s2}) @@ (s2 :> {s3}) @@ (s3 :> {})

Submissions == (c1 :> (Graphs \cup Strays)) @@ (c2 :> {Line})
ThreeSteps == <<s1, s2, s3>>

\* A day of 2 and a week of 3 ticks; a time and a window that do not parse, and a
\* window of two days.  The first row has any plan, the second one fires once.
FirstPlans == {[kind |-> "oneshot", value |-> 2], [kind |-> "interval", value |-> 0],
               [kind |-> "daily", value |-> 1], [kind |-> "daily", value |-> Bad],
               [kind |-> "weekly", value |-> 0], [kind |-> "deadline", value |-> 2],
               [kind |-> "deadline", value |-> Bad]}
SecondPlans == {[kind |-> "oneshot", value |-> 2]}
BothPlans == <<FirstPlans, SecondPlans>>
ShortPeriods == [daily |-> 2, weekly |-> 3]
OneDeadline == {[name |-> "a", date |-> 2]}
Two == {1, 2}

all == <<part, vars, definitionVars, schedulerVars>>

Boot ==
    /\ part \in {"runs", "definitions", "scheduler"}
    /\ Init /\ NoDefinitions /\ NoSchedules

OfRuns(A) == part = "runs" /\ A /\ UNCHANGED <<part, definitionVars, schedulerVars>>
OfDefinitions(A) == part = "definitions" /\ A /\ UNCHANGED <<part, vars, schedulerVars>>
OfScheduler(A) == part = "scheduler" /\ A /\ UNCHANGED <<part, vars, definitionVars>>

Step ==
    \/ OfRuns(Next)
    \/ OfDefinitions(DefinitionsNext)
    \/ OfScheduler(SchedulerNext)

\* The tools return, so a run's thread goes on; bootstrap starts the
\* scheduler, and its daemon thread is scheduled.
Workflows ==
    /\ Boot /\ [][Step]_all
    /\ \A r \in Runs : WF_vars(RunStep(r))
    /\ WF_schedulerVars(part = "scheduler" /\ \E c \in Callers : StartLoop(c))
    /\ \A c \in Callers : WF_schedulerVars(LoopStep(c))
===============================================================================
