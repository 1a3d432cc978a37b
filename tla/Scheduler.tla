------------------------------- MODULE Scheduler -------------------------------
(***************************************************************************)
(* SchedulerManager (astra/workflows/scheduler.py): the schedules table,   *)
(* the daemon loop that reads what is due and fires it row by row, the     *)
(* request threads that add, enable and delete schedules, and restarts of  *)
(* the process.  Times are small numbers, 0 is the empty next_run.         *)
(***************************************************************************)
EXTENDS Integers, Sequences, FiniteSets

CONSTANTS
    Ids,        \* row ids in the order they are given out, 1..n
    Plans,      \* [kind, value] records POST /api/schedules makes a row with, per id
    Bad,        \* a value that does not parse
    Period,     \* length of a day and of a week
    Deadlines,  \* what deadline_callback may list: [name, date]
    Callers,    \* callers of start()
    MaxTime,    \* bound on the clock
    MaxCrashes  \* bound on restarts

Kinds == {"oneshot", "interval", "daily", "weekly", "deadline"}
Never == 0
\* add() makes no row of an interval that is not a number: int() raises.
Allowed(p) ==
    /\ p \in [kind : Kinds, value : Nat \cup {Bad}]
    /\ p.kind = "interval" => p.value # Bad

ASSUME SchedulerAssumption ==
    /\ IsFiniteSet(Ids) /\ Ids \subseteq Nat
    /\ \A i \in Ids : \A p \in Plans[i] : Allowed(p)
    /\ Bad \notin Nat
    /\ Period \in [{"daily", "weekly"} -> Nat \ {0}]
    /\ MaxTime \in Nat \ {0} /\ MaxCrashes \in Nat

VARIABLES
    table,      \* the schedules rows, {} where no row is
    used,       \* ids that were given out
    seen,       \* the one deadline_key of astra_sched_seen
    tracked,    \* deadlines the callback lists now
    clock,
    looping,    \* _started
    stopping,   \* the _stop event
    loop,       \* where the loop of each caller is
    queue,      \* rows its tick has still to fire, as due() read them
    at,         \* now, as the firing of the first of them read it
    runs,       \* occurrences workflow threads were started for, per row
    crashes

loops == <<looping, stopping, loop, queue, at>>
schedulerVars == <<table, used, seen, tracked, clock, loops, runs, crashes>>

Row(p, next) == [plan |-> p, enabled |-> TRUE, next |-> next, last |-> Never]
Rows == {i \in Ids : table[i] # {}}
The(i) == CHOOSE r \in table[i] : TRUE

Stored == [plan : UNION {Plans[i] : i \in Ids}, enabled : BOOLEAN, next : Nat, last : Nat]
Found == [id : Ids, row : Stored, targets : SUBSET Deadlines]

SchedulesTypeOK ==
    /\ table \in [Ids -> SUBSET Stored]
    /\ \A i \in Rows : table[i] = {The(i)} /\ The(i).plan \in Plans[i]
    /\ used \subseteq Ids /\ Rows \subseteq used
    /\ seen \subseteq Deadlines /\ tracked \subseteq Deadlines
    /\ clock \in 1..MaxTime /\ looping \in BOOLEAN /\ stopping \in BOOLEAN
    /\ loop \in [Callers -> {"none", "tick", "fire", "update", "launch", "wait", "ended"}]
    /\ queue \in [Callers -> Seq(Found)]
    /\ at \in [Callers -> 1..MaxTime]
    /\ runs \in [Ids -> Seq([next : Nat, targets : SUBSET Deadlines])]
    /\ crashes \in 0..MaxCrashes

NoSchedules ==
    /\ table = [i \in Ids |-> {}]
    /\ used = {}
    /\ seen = {} /\ tracked = {}
    /\ clock = 1
    /\ looping = FALSE /\ stopping = FALSE
    /\ loop = [c \in Callers |-> "none"]
    /\ queue = [c \in Callers |-> << >>]
    /\ at = [c \in Callers |-> 1]
    /\ runs = [i \in Ids |-> << >>]
    /\ crashes = 0

-------------------------------------------------------------------------------
(* compute_next_run. *)

\* Mutant: the time of day that is now counts as still ahead.
NextTodayOrNow(now, phase, period) == now + ((phase - now) % period)
\* The least time after now at that time of day, or of the week.
NextAt(now, phase, period) == now + 1 + ((phase - (now + 1)) % period)

NextRun(p, now) ==
    IF p.value = Bad THEN Never
    ELSE CASE p.kind = "oneshot" -> IF p.value > now THEN p.value ELSE Never
           [] p.kind = "interval" -> now + IF p.value = 0 THEN 1 ELSE p.value
           [] p.kind \in {"daily", "weekly"} -> NextAt(now, p.value, Period[p.kind])
           [] p.kind = "deadline" -> now + p.value

-------------------------------------------------------------------------------
(* Request threads. *)

Set(i, r) == table' = [table EXCEPT ![i] = {r}]

Add(i, p) ==
    /\ i \notin used /\ \A j \in Ids : j < i => j \in used
    /\ used' = used \cup {i}
    /\ Set(i, Row(p, NextRun(p, clock)))
    /\ UNCHANGED <<seen, tracked, clock, loops, runs, crashes>>

SetEnabled(i) ==
    /\ i \in Rows
    /\ Set(i, [The(i) EXCEPT !.enabled = ~@])
    /\ UNCHANGED <<used, seen, tracked, clock, loops, runs, crashes>>

DeleteSchedule(i) ==
    /\ i \in Rows
    /\ table' = [table EXCEPT ![i] = {}]
    /\ UNCHANGED <<used, seen, tracked, clock, loops, runs, crashes>>

-------------------------------------------------------------------------------
(* The loop. *)

MoveLoop(c, label) == loop' = [loop EXCEPT ![c] = label]

\* Mutant: every caller gets a loop.
StartLoopAgain(c) ==
    /\ loop[c] = "none"
    /\ looping' = TRUE
    /\ MoveLoop(c, "wait")
    /\ UNCHANGED <<table, used, seen, tracked, clock, stopping, queue, at, runs, crashes>>
\* start(): the first caller gets a loop, the others return.
StartLoop(c) ==
    /\ loop[c] = "none" /\ ~looping
    /\ looping' = TRUE
    /\ MoveLoop(c, "wait")
    /\ UNCHANGED <<table, used, seen, tracked, clock, stopping, queue, at, runs, crashes>>

\* _deadline_targets: untouched when the set of targets inside the window is
\* not the one that was handled last, by whatever schedule.
Targets(i) == {d \in tracked : clock <= d.date /\ d.date <= clock + The(i).plan.value}
Untouched(i) == Targets(i) # {} /\ seen # Targets(i)
Reached(i) == The(i).next # Never /\ The(i).next <= clock
IsDue(i) ==
    The(i).enabled /\ IF The(i).plan.kind = "deadline" THEN Untouched(i) ELSE Reached(i)

\* Mutant: a time of day that does not parse raises as well.
RaisesOnAnyBad == \E i \in Rows : The(i).enabled /\ The(i).plan.value = Bad
\* int(value) of a deadline row raises out of due(), tick() and into the loop.
BadWindow(i) == The(i).enabled /\ The(i).plan = [kind |-> "deadline", value |-> Bad]
Raises == \E i \in Rows : BadWindow(i)
Due == {i \in Rows : IsDue(i)}
\* due() returns the rows in the order of their ids, as it reads them now.
InOrder(ids) == \A m, n \in DOMAIN ids : m < n => ids[m] < ids[n]
AsRead(ids) ==
    [n \in DOMAIN ids |->
       [id |-> ids[n], row |-> The(ids[n]),
        targets |-> IF The(ids[n]).plan.kind = "deadline" THEN Targets(ids[n]) ELSE {}]]

Tick(c) ==
    /\ loop[c] = "tick"
    /\ IF Raises \/ Due = {}
       THEN MoveLoop(c, "wait") /\ UNCHANGED queue
       ELSE /\ MoveLoop(c, "fire")
            /\ \E ids \in [1..Cardinality(Due) -> Due] :
                 InOrder(ids) /\ queue' = [queue EXCEPT ![c] = AsRead(ids)]
    /\ UNCHANGED <<table, used, seen, tracked, clock, looping, stopping, at, runs, crashes>>

\* Mutant: the targets are not recorded.
FireUnmarked(c) ==
    /\ loop[c] = "fire"
    /\ at' = [at EXCEPT ![c] = clock]
    /\ MoveLoop(c, "update")
    /\ UNCHANGED <<table, used, seen, tracked, clock, looping, stopping, queue, runs, crashes>>
\* _fire reads the clock and marks the targets of a deadline as handled.
Fire(c) ==
    /\ loop[c] = "fire"
    /\ at' = [at EXCEPT ![c] = clock]
    /\ seen' = IF Head(queue[c]).targets = {} THEN seen ELSE Head(queue[c]).targets
    /\ MoveLoop(c, "update")
    /\ UNCHANGED <<table, used, tracked, clock, looping, stopping, queue, runs, crashes>>

\* The row may be gone, or disabled, since due() read it.
Update(c) ==
    /\ loop[c] = "update"
    /\ LET i == Head(queue[c]).id
       IN table' = [table EXCEPT ![i] =
            {[r EXCEPT !.last = at[c], !.next = NextRun(Head(queue[c]).row.plan, at[c])] : r \in @}]
    /\ MoveLoop(c, "launch")
    /\ UNCHANGED <<used, seen, tracked, clock, looping, stopping, queue, at, runs, crashes>>

\* The workflow thread is started, and the next row is taken.
Launch(c) ==
    /\ loop[c] = "launch"
    /\ LET f == Head(queue[c])
       IN runs' = [runs EXCEPT ![f.id] = Append(@, [next |-> f.row.next, targets |-> f.targets])]
    /\ queue' = [queue EXCEPT ![c] = Tail(@)]
    /\ MoveLoop(c, IF Len(queue[c]) = 1 THEN "wait" ELSE "fire")
    /\ UNCHANGED <<table, used, seen, tracked, clock, looping, stopping, at, crashes>>

\* _stop.wait(tick_every_s): some time, or none that the clock shows, passes.
Wake(c) ==
    /\ loop[c] = "wait"
    /\ MoveLoop(c, IF stopping THEN "ended" ELSE "tick")
    /\ UNCHANGED <<table, used, seen, tracked, clock, looping, stopping, queue, at, runs, crashes>>

Stop ==
    /\ ~stopping /\ stopping' = TRUE
    /\ UNCHANGED <<table, used, seen, tracked, clock, looping, loop, queue, at, runs, crashes>>

LoopStep(c) == Tick(c) \/ Fire(c) \/ Update(c) \/ Launch(c) \/ Wake(c)

-------------------------------------------------------------------------------
Advance ==
    /\ clock < MaxTime
    /\ clock' = clock + 1
    /\ UNCHANGED <<table, used, seen, tracked, loops, runs, crashes>>

\* What is tracked stays listed; the window and the date take it out.
Track ==
    /\ \E d \in Deadlines \ tracked : tracked' = tracked \cup {d}
    /\ UNCHANGED <<table, used, seen, clock, loops, runs, crashes>>

Crash ==
    /\ crashes < MaxCrashes
    /\ crashes' = crashes + 1
    /\ looping' = FALSE /\ stopping' = FALSE
    /\ loop' = [c \in Callers |-> "none"]
    /\ queue' = [c \in Callers |-> << >>]
    /\ UNCHANGED <<table, used, seen, tracked, clock, at, runs>>

SchedulerNext ==
    \/ \E i \in Ids : SetEnabled(i) \/ DeleteSchedule(i) \/ \E p \in Plans[i] : Add(i, p)
    \/ \E c \in Callers : StartLoop(c) \/ LoopStep(c)
    \/ Advance \/ Track \/ Stop \/ Crash

SchedulerSpec == NoSchedules /\ [][SchedulerNext]_schedulerVars
\* bootstrap starts the scheduler, and its daemon thread is scheduled.
FairScheduler ==
    /\ SchedulerSpec
    /\ WF_schedulerVars(\E c \in Callers : StartLoop(c))
    /\ \A c \in Callers : WF_schedulerVars(LoopStep(c))

-------------------------------------------------------------------------------
(* Properties. *)

Timed(i) == {n \in DOMAIN runs[i] : runs[i][n].targets = {}}

\* scheduler.py:243-244 "must not start two tick loops that fire every schedule
\* twice": whoever calls start(), whenever the process restarts, a workflow is
\* started at most once for one occurrence of a schedule.
OncePerOccurrence ==
    \A i \in Ids : \A m, n \in Timed(i) : runs[i][m].next = runs[i][n].next => m = n

Settled(i) == stopping \/ i \notin Rows \/ BadWindow(i) \/ ~IsDue(i)

\* What is due does not stay due (it fires, is disabled or deleted, or the scheduler
\* is stopped), also beside rows whose time does not parse; only an enabled deadline
\* row whose window is no number holds the others up.
FiresWhatIsDue == \A i \in Ids : []<>(Settled(i) \/ \E j \in Rows : BadWindow(j))

\* scheduler.py:201 "Fire everything currently due": whatever other rows there are,
\* each row that is due fires.
FiresEverythingDue == \A i \in Ids : []<>Settled(i)

\* scheduler.py:215 "record the target key so it doesn't refire": while the set
\* of deadlines in its window stays as it is, the one deadline schedule does not
\* fire again (a crash between the record and its run, or a second deadline
\* schedule, overwrites the record).
RefiresOnChange ==
    \A i \in Ids :
      crashes = 0 /\ (\A j \in Ids \ {i} : Timed(j) = DOMAIN runs[j]) =>
        \A n \in DOMAIN runs[i] \ (Timed(i) \cup {1}) :
          runs[i][n].targets # runs[i][n - 1].targets

\* A row that fired is due again only later, also when it fires on its minute.
NextIsAhead ==
    \A i \in Rows : The(i).plan.kind # "deadline" /\ The(i).next # Never
                      => The(i).next > The(i).last

\* Two loops, restarts, the minute it is due at and the deadlines of its window:
\* nothing makes a schedule fire again for what it has fired for.
FiresOnce == OncePerOccurrence /\ RefiresOnChange /\ NextIsAhead
===============================================================================
