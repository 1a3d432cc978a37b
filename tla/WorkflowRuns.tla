----------------------------- MODULE WorkflowRuns -----------------------------
(***************************************************************************)
(* Runs of one workflow (astra/workflows/engine.py): each run has a thread *)
(* that executes it, while other threads cancel, pause and resume runs and *)
(* delete the workflow.  Every store call is a step of its own; the engine *)
(* holds no lock.                                                          *)
(***************************************************************************)
EXTENDS WorkflowGraph

CONSTANTS
    Runs,       \* run ids
    StepList,   \* step ids in list order
    Depends,    \* dependencies of each step
    Condition,  \* <<step, op>> a step's `if` names, None without one
    MaxCalls,   \* bound: a run that made so many tool calls is not resumed
    None

Steps == ToSet(StepList)
Ordered == Topo(StepList, Depends)

\* What define() has let in.
ASSUME RunsAssumption ==
    /\ StepList \in Seq(Steps) /\ IsInjective(StepList)
    /\ None \notin Steps /\ MaxCalls \in Nat
    /\ Depends \in [Steps -> SUBSET Steps]
    /\ Condition \in [Steps -> (Steps \X {"ok", "not_ok"}) \cup {None}]
    /\ CheckCycles(StepList, Depends)

VARIABLES
    defined,    \* the workflow_definitions row exists
    status,     \* workflow_runs.status, "absent" where no row is
    saved,      \* workflow_runs.results
    pc,         \* where the thread of a run is
    todo,       \* steps it has still to look at
    results,    \* its local results
    live,       \* the status it read last
    canceller,  \* what the thread that cancels a run has read
    started,    \* steps a run's tool calls were made for, in order
    extra,      \* tool calls made since the run was cancelled
    events      \* terminal workflow events of a run

local == <<todo, results, live>>
trace == <<started, extra, events>>
vars == <<defined, status, saved, pc, local, canceller, trace>>

RunStatuses == {"absent", "created", "running", "paused", "completed", "failed", "cancelled"}
Ended == {"completed", "failed", "cancelled"}
Outcomes == {"none", "ok", "failed", "blocked", "skipped"}
NoResults == [s \in Steps |-> "none"]

TypeOK ==
    /\ defined \in BOOLEAN
    /\ status \in [Runs -> RunStatuses]
    /\ saved \in [Runs -> [Steps -> Outcomes]]
    /\ pc \in [Runs -> {"idle", "load", "check", "mark", "next", "step", "call",
                        "final", "write", "done"}]
    /\ todo \in [Runs -> Seq(Steps)]
    /\ results \in [Runs -> [Steps -> Outcomes]]
    /\ live \in [Runs -> RunStatuses]
    /\ canceller \in [Runs -> RunStatuses]
    /\ started \in [Runs -> Seq(Steps)]
    /\ extra \in [Runs -> Nat]
    /\ events \in [Runs -> Seq(Ended)]

Init ==
    /\ defined = TRUE
    /\ status = [r \in Runs |-> "absent"]
    /\ saved = [r \in Runs |-> NoResults]
    /\ pc = [r \in Runs |-> "idle"]
    /\ todo = [r \in Runs |-> << >>]
    /\ results = [r \in Runs |-> NoResults]
    /\ live = [r \in Runs |-> "absent"]
    /\ canceller = [r \in Runs |-> "absent"]
    /\ started = [r \in Runs |-> << >>]
    /\ extra = [r \in Runs |-> 0]
    /\ events = [r \in Runs |-> << >>]

Move(r, label) == pc' = [pc EXCEPT ![r] = label]
\* An UPDATE of a row that is gone changes nothing.
SetStatus(r, s) == status' = [status EXCEPT ![r] = IF @ = "absent" THEN @ ELSE s]

-------------------------------------------------------------------------------
(* run(): create the row, load the steps, mark it running. *)

Create(r) ==
    /\ pc[r] = "idle" /\ defined
    /\ status' = [status EXCEPT ![r] = "created"]
    /\ Move(r, "load")
    /\ UNCHANGED <<defined, saved, local, canceller, trace>>

\* Mutant: a definition that is gone makes the thread raise.
LoadExisting(r) ==
    /\ pc[r] = "load" /\ defined
    /\ todo' = [todo EXCEPT ![r] = Ordered]
    /\ results' = [results EXCEPT ![r] = NoResults]
    /\ Move(r, "check")
    /\ UNCHANGED <<defined, status, saved, live, canceller, trace>>

\* A definition that is gone has no steps.
Load(r) ==
    /\ pc[r] = "load"
    /\ todo' = [todo EXCEPT ![r] = IF defined THEN Ordered ELSE << >>]
    /\ results' = [results EXCEPT ![r] = NoResults]
    /\ Move(r, "check")
    /\ UNCHANGED <<defined, status, saved, live, canceller, trace>>

\* Cancelled while queued: nothing runs.
CheckQueued(r) ==
    /\ pc[r] = "check"
    /\ Move(r, IF status[r] = "cancelled" THEN "done" ELSE "mark")
    /\ UNCHANGED <<defined, status, saved, local, canceller, trace>>

MarkRunning(r) ==
    /\ pc[r] = "mark"
    /\ SetStatus(r, "running")
    /\ Move(r, "next")
    /\ UNCHANGED <<defined, saved, local, canceller, trace>>

-------------------------------------------------------------------------------
(* The loop over the steps. *)

\* _condition on the results so far.
Holds(r, s) ==
    LET ok == results[r][Condition[s][1]] = "ok"
    IN Condition[s] = None \/ ok = (Condition[s][2] = "ok")

\* Mutant: only a pause is looked for.
InterruptedByPause(r) == status[r] = "paused"
\* The status is read again before every step.
Interrupted(r) == status[r] \in {"paused", "cancelled"}
NextStep(r) ==
    /\ pc[r] = "next"
    /\ IF todo[r] = << >> \/ Interrupted(r)
       THEN Move(r, "final") /\ UNCHANGED <<todo, results>>
       ELSE IF Holds(r, Head(todo[r]))
       THEN Move(r, "step") /\ UNCHANGED <<todo, results>>
       ELSE /\ results' = [results EXCEPT ![r][Head(todo[r])] = "skipped"]
            /\ todo' = [todo EXCEPT ![r] = Tail(@)]
            /\ UNCHANGED pc
    /\ UNCHANGED <<defined, status, saved, live, canceller, trace>>

\* current_step is written, then the tool is called.
StartStep(r) ==
    /\ pc[r] = "step"
    /\ started' = [started EXCEPT ![r] = Append(@, Head(todo[r]))]
    /\ extra' = [extra EXCEPT ![r] = IF status[r] = "cancelled" THEN @ + 1 ELSE @]
    /\ Move(r, "call")
    /\ UNCHANGED <<defined, status, saved, local, canceller, events>>

\* The registry returned, asked for a confirmation, or raised.
EndStep(r) ==
    /\ pc[r] = "call"
    /\ \E o \in {"ok", "failed", "blocked"} :
         results' = [results EXCEPT ![r][Head(todo[r])] = o]
    /\ todo' = [todo EXCEPT ![r] = Tail(@)]
    /\ Move(r, "next")
    /\ UNCHANGED <<defined, status, saved, live, canceller, trace>>

\* Mutant: the status written at the start is believed.
BelieveRunning(r) ==
    /\ pc[r] = "final"
    /\ live' = [live EXCEPT ![r] = "running"]
    /\ Move(r, "write")
    /\ UNCHANGED <<defined, status, saved, todo, results, canceller, trace>>
ReadFinal(r) ==
    /\ pc[r] = "final"
    /\ live' = [live EXCEPT ![r] = status[r]]
    /\ Move(r, "write")
    /\ UNCHANGED <<defined, status, saved, todo, results, canceller, trace>>

\* Mutant: a step that waits for a confirmation counts as done.
LaxVerdict(r) ==
    IF live[r] \in {"paused", "cancelled"} THEN live[r]
    ELSE IF \E s \in Steps : results[r][s] = "failed" THEN "failed"
    ELSE "completed"
Verdict(r) ==
    IF live[r] \in {"paused", "cancelled"} THEN live[r]
    ELSE IF \E s \in Steps : results[r][s] \in {"failed", "blocked"} THEN "failed"
    ELSE "completed"
Announced(r) == Verdict(r) \in {"completed", "failed"}
WriteFinal(r) ==
    /\ pc[r] = "write"
    /\ SetStatus(r, Verdict(r))
    /\ saved' = [saved EXCEPT ![r] = IF status[r] = "absent" THEN @ ELSE results[r]]
    /\ events' = IF Announced(r)
                 THEN [events EXCEPT ![r] = Append(@, Verdict(r))] ELSE events
    /\ Move(r, "done")
    /\ UNCHANGED <<defined, local, canceller, started, extra>>

RunStep(r) ==
    \/ Load(r) \/ CheckQueued(r) \/ MarkRunning(r) \/ NextStep(r)
    \/ StartStep(r) \/ EndStep(r) \/ ReadFinal(r) \/ WriteFinal(r)

-------------------------------------------------------------------------------
(* Other threads. *)

\* cancel_run reads the row, and writes it unless it had ended.
CancelRead(r) ==
    /\ status[r] \notin Ended \cup {"absent"} /\ canceller[r] = "absent"
    /\ canceller' = [canceller EXCEPT ![r] = status[r]]
    /\ UNCHANGED <<defined, status, saved, pc, local, trace>>
CancelWrite(r) ==
    /\ canceller[r] # "absent"
    /\ SetStatus(r, "cancelled")
    /\ canceller' = [canceller EXCEPT ![r] = "absent"]
    /\ UNCHANGED <<defined, saved, pc, local, trace>>

\* set_status(run_id, "paused"), and run(run_id=...) of the paused run.
Pause(r) ==
    /\ status[r] = "running" /\ pc[r] # "done"
    /\ SetStatus(r, "paused")
    /\ UNCHANGED <<defined, saved, pc, local, canceller, trace>>
Resume(r) ==
    /\ pc[r] = "done" /\ status[r] = "paused"
    /\ Len(started[r]) < MaxCalls
    /\ Move(r, "load")
    /\ UNCHANGED <<defined, status, saved, local, canceller, trace>>

\* The foreign key takes the runs along.
Delete ==
    /\ defined
    /\ defined' = FALSE
    /\ status' = [r \in Runs |-> "absent"]
    /\ UNCHANGED <<saved, pc, local, canceller, trace>>

Next ==
    \/ \E r \in Runs : RunStep(r) \/ Create(r)
    \/ \E r \in Runs : CancelRead(r) \/ CancelWrite(r) \/ Pause(r) \/ Resume(r)
    \/ Delete

Spec == Init /\ [][Next]_vars
\* The tools return, so a run's thread goes on.
FairSpec == Spec /\ \A r \in Runs : WF_vars(RunStep(r))

-------------------------------------------------------------------------------
(* Properties. *)

\* A tool is called only when every dependency of its step has been dealt with.
DependenciesDone ==
    \A r \in Runs : pc[r] = "call" =>
      \A d \in Depends[Head(todo[r])] : results[r][d] # "none"

\* engine.py:582-584 "a workflow whose step errored is NOT completed": a row
\* says completed only with every step done or skipped, failed only with one
\* that failed.
Failing(f) == \E s \in Steps : f[s] \in {"failed", "blocked"}
HonestOutcome ==
    \A r \in Runs :
      /\ status[r] = "completed" => \A s \in Steps : saved[r][s] \in {"ok", "skipped"}
      /\ status[r] = "failed" => Failing(saved[r])

\* engine.py:454-456: a cancellation that stands stops the run between steps;
\* the call that was about to be made is the last one.
CancelStopsSteps == \A r \in Runs : extra[r] <= 1

\* What a row says of a run is what its steps did, in an order that respects
\* their dependencies and up to its cancellation.
RunsAreHonest == DependenciesDone /\ HonestOutcome /\ CancelStopsSteps

\* A run's thread always comes to its end.
RunsEnd == \A r \in Runs : pc[r] = "load" ~> pc[r] = "done"

\* A cancellation recorded before the outcome was read decides the outcome.
CancelDecides ==
    \A r \in Runs : (pc[r] \in {"next", "step", "call", "final"} /\ status[r] = "cancelled")
                      ~> (pc[r] = "done" /\ status[r] \in {"cancelled", "absent"})

\* engine.py:404 and 461: runs end, also those that lose their definition, and a
\* cancellation in time is how they end.
EndsAsDecided == RunsEnd /\ CancelDecides

\* engine.py:454 "The engine re-reads the run status before every step, so this
\* stops a run between steps": a cancelled run is not set running again.
CancelStays == [][\A r \in Runs : status[r] = "cancelled" => status'[r] # "running"]_vars
===============================================================================
