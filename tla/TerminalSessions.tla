--------------------------- MODULE TerminalSessions ---------------------------
(***************************************************************************)
(* The host terminal (astra/terminal/session.py, manager.py, tools.py):    *)
(* sessions by key, one foreground command per session behind _exec_lock,  *)
(* background processes with their records, and the operations that close  *)
(* sessions: terminal_close, shutdown, the eviction of an idle session and *)
(* the idle sweep.  A block under one lock is one step; starting a process *)
(* and publishing it are two.                                              *)
(***************************************************************************)
EXTENDS Naturals, FiniteSets

CONSTANTS
    Keys,           \* session ids, one per conversation
    Insts,          \* session objects still to be created
    Procs,          \* processes still to be started
    Threads,
    MaxSessions,
    None

ASSUME TerminalAssumption ==
    /\ None \notin Keys \cup Insts \cup Procs \cup Threads
    /\ MaxSessions \in Nat \ {0}

VARIABLES
    table,      \* TerminalManager._sessions
    born,       \* the sessions that were created
    closed,     \* _closed
    idle,       \* sessions unused for idle_seconds
    active,     \* _active: the foreground process
    records,    \* _processes: the background ones
    turn,       \* _exec_lock
    home,       \* the session that started a process
    alive,      \* what the operating system runs
    status,     \* ProcessRecord.status
    emitted,    \* exit_emitted
    ends,       \* completed and failed events of a process
    pc, op, inst, proc,
    doomed,     \* sessions a thread has taken out of the table to close
    todo,       \* processes it still has to kill or to refresh
    sweep       \* sessions the idle sweep still has to look at

sessions == <<table, born, closed, idle, active, records, turn>>
processes == <<home, alive, status, emitted, ends>>
threads == <<pc, op, inst, proc, doomed, todo, sweep>>
vars == <<sessions, processes, threads>>

Ops == {"none", "exec", "start", "status", "stop", "close", "sweep"}
Labels == {"idle", "close", "enter", "lock", "spawn", "publish", "wait", "report",
           "refresh", "stop", "sweep", "check", "reap"}
TypeOK ==
    /\ table \in [Keys -> Insts \cup {None}]
    /\ born \subseteq Insts /\ closed \subseteq Insts /\ idle \subseteq Insts
    /\ active \in [Insts -> Procs \cup {None}]
    /\ records \in [Insts -> SUBSET Procs]
    /\ turn \in [Insts -> Threads \cup {None}]
    /\ home \in [Procs -> Insts \cup {None}]
    /\ alive \subseteq Procs
    /\ status \in [Procs -> {"none", "running", "ended", "stopped"}]
    /\ emitted \subseteq Procs
    /\ ends \in [Procs -> Nat]
    /\ pc \in [Threads -> Labels]
    /\ op \in [Threads -> Ops]
    /\ inst \in [Threads -> Insts \cup {None}]
    /\ proc \in [Threads -> Procs \cup {None}]
    /\ doomed \in [Threads -> SUBSET Insts]
    /\ todo \in [Threads -> SUBSET Procs]
    /\ sweep \in [Threads -> SUBSET Insts]
    /\ \A t \in Threads :
         /\ op[t] \in {"exec", "start", "status", "stop"} => inst[t] # None
         /\ pc[t] \in {"publish", "wait", "report"} => proc[t] # None

\* A process in which the sessions `old` have been opened, have run the
\* commands `spent` and have been closed.
InitAfter(old, spent) ==
    /\ table = [k \in Keys |-> None]
    /\ born = old /\ closed = old /\ idle = old
    /\ active = [i \in Insts |-> None]
    /\ records = [i \in Insts |-> {}]
    /\ turn = [i \in Insts |-> None]
    /\ home = [p \in Procs |-> IF p \in spent THEN CHOOSE i \in old : TRUE ELSE None]
    /\ alive = {}
    /\ status = [p \in Procs |-> "none"]
    /\ emitted = {}
    /\ ends = [p \in Procs |-> IF p \in spent THEN 1 ELSE 0]
    /\ pc = [t \in Threads |-> "idle"]
    /\ op = [t \in Threads |-> "none"]
    /\ inst = [t \in Threads |-> None]
    /\ proc = [t \in Threads |-> None]
    /\ doomed = [t \in Threads |-> {}]
    /\ todo = [t \in Threads |-> {}]
    /\ sweep = [t \in Threads |-> {}]
Init == InitAfter({}, {})

Set(f, t, v) == [f EXCEPT ![t] = v]
At(t, label) == pc' = Set(pc, t, label)
Return(t) ==
    /\ At(t, "idle")
    /\ op' = Set(op, t, "none") /\ inst' = Set(inst, t, None) /\ proc' = Set(proc, t, None)
Go(t, label) ==
    IF label = "idle" THEN Return(t) ELSE At(t, label) /\ UNCHANGED <<op, inst, proc>>
Held == {table[k] : k \in Keys} \ {None}

\* can_reap(): no command, and no record that is running and alive.
CanReap(i) ==
    \/ i \in closed
    \/ active[i] = None /\ \A p \in records[i] : status[p] # "running" \/ p \notin alive

-------------------------------------------------------------------------------
(* TerminalManager.get(), by every tool, then the tool's own operation.     *)

FirstLabel(o) == CASE o \in {"exec", "start"} -> "enter"
                   [] o \in {"status", "stop"} -> "refresh"

\* The records a refresh goes through are listed under the session lock.
Open(t, i, o) ==
    /\ At(t, FirstLabel(o))
    /\ todo' = Set(todo, t, IF o \in {"status", "stop"} THEN records[i] ELSE {})

\* An open session of this key.
Get(t, k, o) ==
    /\ pc[t] = "idle" /\ table[k] # None /\ table[k] \notin closed
    /\ op' = Set(op, t, o) /\ inst' = Set(inst, t, table[k])
    /\ Open(t, table[k], o)
    /\ UNCHANGED <<table, born, closed, idle, active, records, turn, processes,
                   proc, doomed, sweep>>

\* A new session; the least recently used reapable ones make room for it.
Evicted ==
    LET reapable == {i \in Held : CanReap(i)}
        excess == Cardinality(Held) + 1 - MaxSessions
    IN {E \in SUBSET reapable :
          \/ Cardinality(E) = excess
          \/ E = reapable /\ Cardinality(E) < excess
          \/ E = {} /\ excess < 0}
Create(t, k, o) ==
    /\ pc[t] = "idle" /\ (table[k] = None \/ table[k] \in closed)
    /\ \E i \in Insts \ born : \E E \in Evicted :
         /\ born' = born \cup {i}
         /\ table' = [j \in Keys |-> IF j = k THEN i
                                     ELSE IF table[j] \in E THEN None ELSE table[j]]
         /\ inst' = Set(inst, t, i)
         /\ doomed' = Set(doomed, t, E)
    /\ op' = Set(op, t, o)
    /\ At(t, "close")
    /\ UNCHANGED <<closed, idle, active, records, turn, processes, proc, todo, sweep>>

-------------------------------------------------------------------------------
(* Closing what was taken out of the table.                                 *)

\* Mutant: the session stays in the table.
CloseInPlace(t, K) ==
    /\ pc[t] = "idle"
    /\ doomed' = Set(doomed, t, {table[k] : k \in K} \ {None})
    /\ doomed'[t] # {}
    /\ UNCHANGED table
    /\ op' = Set(op, t, "close")
    /\ At(t, "close")
    /\ UNCHANGED <<born, closed, idle, active, records, turn, processes,
                   inst, proc, todo, sweep>>
\* TerminalManager.close() and close_all().
Close(t, K) ==
    /\ pc[t] = "idle"
    /\ doomed' = Set(doomed, t, {table[k] : k \in K} \ {None})
    /\ doomed'[t] # {}
    /\ table' = [k \in Keys |-> IF k \in K THEN None ELSE table[k]]
    /\ op' = Set(op, t, "close")
    /\ At(t, "close")
    /\ UNCHANGED <<born, closed, idle, active, records, turn, processes,
                   inst, proc, todo, sweep>>

\* Mutant: the execution lock is taken first.
CloseSessionAfter(t, i) ==
    /\ pc[t] = "close" /\ i \in doomed[t] /\ turn[i] = None
    /\ doomed' = Set(doomed, t, doomed[t] \ {i})
    /\ closed' = closed \cup {i}
    /\ todo' = IF i \in closed THEN todo
               ELSE Set(todo, t, todo[t] \cup ({active[i]} \ {None}) \cup records[i])
    /\ UNCHANGED <<table, born, idle, active, records, turn, processes,
                   pc, op, inst, proc, sweep>>
\* Mutant: the foreground command is forgotten.
CloseSessionLeaves(t, i) ==
    /\ pc[t] = "close" /\ i \in doomed[t]
    /\ doomed' = Set(doomed, t, doomed[t] \ {i})
    /\ closed' = closed \cup {i}
    /\ todo' = IF i \in closed THEN todo
               ELSE Set(todo, t, todo[t] \cup records[i])
    /\ UNCHANGED <<table, born, idle, active, records, turn, processes,
                   pc, op, inst, proc, sweep>>
\* TerminalSession.close(): under the lock, the flag and what is to be killed.
CloseSession(t, i) ==
    /\ pc[t] = "close" /\ i \in doomed[t]
    /\ doomed' = Set(doomed, t, doomed[t] \ {i})
    /\ closed' = closed \cup {i}
    /\ todo' = IF i \in closed THEN todo
               ELSE Set(todo, t, todo[t] \cup ({active[i]} \ {None}) \cup records[i])
    /\ UNCHANGED <<table, born, idle, active, records, turn, processes,
                   pc, op, inst, proc, sweep>>

\* _terminate(): SIGTERM, and SIGKILL to what has not ended three seconds later.
Terminate(p) == alive' = alive \ {p}

\* exit_emitted = True and _terminate(), outside the lock.
Kill(t, p) ==
    /\ pc[t] = "close" /\ p \in todo[t]
    /\ Terminate(p)
    /\ emitted' = IF status[p] = "none" THEN emitted ELSE emitted \cup {p}
    /\ todo' = Set(todo, t, todo[t] \ {p})
    /\ UNCHANGED <<sessions, home, status, ends, pc, op, inst, proc,
                   doomed, sweep>>

\* Back to what the thread was about to do.
Closed(t) ==
    /\ pc[t] = "close" /\ doomed[t] = {} /\ todo[t] = {}
    /\ CASE op[t] = "close" -> Go(t, "idle") /\ UNCHANGED todo
         [] op[t] = "sweep" -> Go(t, "sweep") /\ UNCHANGED todo
         [] OTHER -> Open(t, inst[t], op[t]) /\ UNCHANGED <<op, inst, proc>>
    /\ UNCHANGED <<sessions, processes, doomed, sweep>>

-------------------------------------------------------------------------------
(* exec(): a foreground command, or a background process.                   *)

\* last_used; a session that was closed since get() refuses.
Enter(t) ==
    /\ pc[t] = "enter"
    /\ IF inst[t] \in closed
       THEN Go(t, "idle") /\ UNCHANGED idle
       ELSE /\ idle' = idle \ {inst[t]}
            /\ Go(t, IF op[t] = "exec" THEN "lock" ELSE "spawn")
    /\ UNCHANGED <<table, born, closed, active, records, turn, processes, doomed, todo, sweep>>

\* Mutant: two foreground commands of one session run side by side.
LockShared(t) ==
    /\ pc[t] = "lock"
    /\ IF inst[t] \in closed
       THEN Go(t, "idle") /\ UNCHANGED turn
       ELSE Go(t, "spawn") /\ turn' = Set(turn, inst[t], t)
    /\ UNCHANGED <<table, born, closed, idle, active, records, processes, doomed, todo, sweep>>
Lock(t) ==
    /\ pc[t] = "lock" /\ turn[inst[t]] = None
    /\ IF inst[t] \in closed
       THEN Go(t, "idle") /\ UNCHANGED turn
       ELSE Go(t, "spawn") /\ turn' = Set(turn, inst[t], t)
    /\ UNCHANGED <<table, born, closed, idle, active, records, processes, doomed, todo, sweep>>

\* Popen(), with no lock held.
Spawn(t) ==
    /\ pc[t] = "spawn"
    /\ \E p \in {q \in Procs : home[q] = None} :
         /\ home' = Set(home, p, inst[t])
         /\ alive' = alive \cup {p}
         /\ proc' = Set(proc, t, p)
    /\ At(t, "publish")
    /\ UNCHANGED <<sessions, status, emitted, ends, op, inst, doomed, todo, sweep>>

\* Only now the session knows its process.
Publish(t) ==
    /\ pc[t] = "publish"
    /\ IF op[t] = "exec"
       THEN /\ active' = Set(active, inst[t], proc[t])
            /\ Go(t, "wait")
            /\ UNCHANGED <<records, status>>
       ELSE /\ records' = Set(records, inst[t], records[inst[t]] \cup {proc[t]})
            /\ status' = Set(status, proc[t], "running")
            /\ Go(t, "idle")
            /\ UNCHANGED active
    /\ UNCHANGED <<table, born, closed, idle, turn, home, alive, emitted, ends, doomed, todo, sweep>>

Left(t) ==
    /\ active' = IF active[inst[t]] = proc[t] THEN Set(active, inst[t], None) ELSE active
    /\ Go(t, "report")
    /\ UNCHANGED <<table, born, closed, idle, records, turn, home, status, emitted,
                   ends, doomed, todo, sweep>>
Ended(t) ==
    /\ pc[t] = "wait" /\ proc[t] \notin alive
    /\ Left(t) /\ UNCHANGED alive
TimeOut(t) ==
    /\ pc[t] = "wait" /\ proc[t] \in alive
    /\ Terminate(proc[t])
    /\ Left(t)

\* The command's event, and the next one's turn.
Report(t) ==
    /\ pc[t] = "report"
    /\ turn' = Set(turn, inst[t], None)
    /\ ends' = Set(ends, proc[t], ends[proc[t]] + 1)
    /\ Go(t, "idle")
    /\ UNCHANGED <<table, born, closed, idle, active, records, home, alive, status,
                   emitted, doomed, todo, sweep>>

-------------------------------------------------------------------------------
(* Background processes.                                                    *)

Exit(p) ==
    /\ p \in alive
    /\ alive' = alive \ {p}
    /\ UNCHANGED <<sessions, home, status, emitted, ends, threads>>

\* refresh() of a record: its status, from that of the process.
Polled(p) ==
    status' = IF status[p] = "running" /\ p \notin alive THEN Set(status, p, "ended") ELSE status
\* claim_exit(), after the poll: true for one caller.
Claimed(p) == status'[p] # "running" /\ p \notin emitted

\* Mutant: the flag is not looked at under the record's lock.
ClaimExitAgain(t, p) ==
    /\ pc[t] = "refresh" /\ p \in todo[t]
    /\ todo' = Set(todo, t, todo[t] \ {p})
    /\ Polled(p)
    /\ IF status'[p] # "running"
       THEN emitted' = emitted \cup {p} /\ ends' = Set(ends, p, ends[p] + 1)
       ELSE UNCHANGED <<emitted, ends>>
    /\ UNCHANGED <<sessions, home, alive, pc, op, inst, proc, doomed, sweep>>
\* _refresh_all() of one record: the event of whoever claimed its end.
ClaimExit(t, p) ==
    /\ pc[t] = "refresh" /\ p \in todo[t]
    /\ todo' = Set(todo, t, todo[t] \ {p})
    /\ Polled(p)
    /\ IF Claimed(p)
       THEN emitted' = emitted \cup {p} /\ ends' = Set(ends, p, ends[p] + 1)
       ELSE UNCHANGED <<emitted, ends>>
    /\ UNCHANGED <<sessions, home, alive, pc, op, inst, proc, doomed, sweep>>

Refreshed(t) ==
    /\ pc[t] = "refresh" /\ todo[t] = {}
    /\ Go(t, CASE op[t] = "status" -> "idle" [] op[t] = "stop" -> "stop"
               [] op[t] = "sweep" -> "check")
    /\ UNCHANGED <<sessions, processes, doomed, todo, sweep>>

\* stop() and kill(), all of it under the record's lock; then
\* terminal.stopped.  An unknown id is refused.
Stop(t) ==
    /\ pc[t] = "stop"
    /\ \/ \E p \in records[inst[t]] :
            /\ emitted' = emitted \cup {p}
            /\ IF status[p] = "running"
               THEN Terminate(p) /\ status' = Set(status, p, "stopped")
               ELSE UNCHANGED <<alive, status>>
       \/ UNCHANGED <<emitted, alive, status>>
    /\ Go(t, "idle")
    /\ UNCHANGED <<sessions, home, ends, doomed, todo, sweep>>

-------------------------------------------------------------------------------
(* close_idle().                                                            *)

Sweep(t) ==
    /\ pc[t] = "idle"
    /\ Held \cap idle # {}
    /\ sweep' = Set(sweep, t, Held \cap idle)
    /\ op' = Set(op, t, "sweep")
    /\ At(t, "sweep")
    /\ UNCHANGED <<sessions, processes, inst, proc, doomed, todo>>

\* is_idle() refreshes the next session's records first.
SweepNext(t) ==
    /\ pc[t] = "sweep"
    /\ IF sweep[t] = {}
       THEN Return(t) /\ UNCHANGED <<todo, sweep>>
       ELSE \E i \in sweep[t] :
              /\ sweep' = Set(sweep, t, sweep[t] \ {i})
              /\ inst' = Set(inst, t, i)
              /\ todo' = Set(todo, t, records[i])
              /\ At(t, "refresh")
              /\ UNCHANGED <<op, proc>>
    /\ UNCHANGED <<sessions, processes, doomed>>

Check(t) ==
    /\ pc[t] = "check"
    /\ Go(t, IF CanReap(inst[t]) THEN "reap" ELSE "sweep")
    /\ UNCHANGED <<sessions, processes, doomed, todo, sweep>>

\* Mutant: the age is not looked at again.
ReapAnyway(t) ==
    /\ pc[t] = "reap"
    /\ IF inst[t] \in Held
       THEN /\ table' = [k \in Keys |-> IF table[k] = inst[t] THEN None ELSE table[k]]
            /\ doomed' = Set(doomed, t, {inst[t]})
            /\ Go(t, "close")
       ELSE Go(t, "sweep") /\ UNCHANGED <<table, doomed>>
    /\ UNCHANGED <<born, closed, idle, active, records, turn, processes, todo, sweep>>
\* Under the manager's lock: the same object, and still unused.
Reap(t) ==
    /\ pc[t] = "reap"
    /\ IF inst[t] \in Held /\ inst[t] \in idle
       THEN /\ table' = [k \in Keys |-> IF table[k] = inst[t] THEN None ELSE table[k]]
            /\ doomed' = Set(doomed, t, {inst[t]})
            /\ Go(t, "close")
       ELSE Go(t, "sweep") /\ UNCHANGED <<table, doomed>>
    /\ UNCHANGED <<born, closed, idle, active, records, turn, processes, todo, sweep>>

\* idle_seconds (half an hour) pass; nobody stands between two statements
\* for that long.
Age(i) ==
    /\ i \in born \ idle
    /\ \A t \in Threads : pc[t] \in {"idle", "lock", "wait"}
    /\ idle' = idle \cup {i}
    /\ UNCHANGED <<table, born, closed, active, records, turn, processes, threads>>

-------------------------------------------------------------------------------
Begin(t) ==
    \/ \E k \in Keys : \E o \in {"exec", "start", "status", "stop"} :
         Get(t, k, o) \/ Create(t, k, o)
    \/ Close(t, Keys) \/ \E k \in Keys : Close(t, {k})
    \/ Sweep(t)

Proceed(t) ==
    \/ \E i \in Insts : CloseSession(t, i)
    \/ \E p \in Procs : Kill(t, p) \/ ClaimExit(t, p)
    \/ Closed(t) \/ Enter(t) \/ Lock(t) \/ Spawn(t) \/ Publish(t) \/ Ended(t) \/ Report(t)
    \/ Refreshed(t) \/ Stop(t) \/ SweepNext(t) \/ Check(t) \/ Reap(t)

Next ==
    \/ \E t \in Threads : Begin(t) \/ Proceed(t) \/ TimeOut(t)
    \/ \E p \in Procs : Exit(p)
    \/ \E i \in Insts : Age(i)

Spec == Init /\ [][Next]_vars
\* Threads that can go on do; no command has to end, nor to have a timeout.
FairSpec == Spec /\ \A t \in Threads : WF_vars(Proceed(t))

-------------------------------------------------------------------------------
(* Properties. *)

\* session.py:250-254 "exactly ONCE": a process has one completion event, from
\* whichever thread sees its end, and none after stop() took its end.
EndsOnce ==
    \A p \in Procs : ends[p] <= IF status[p] = "stopped" THEN 0 ELSE 1

\* A live process is one its session can find and stop, but for the moment
\* between its start and its registration.
Published(p, i) == active[i] = p \/ (p \in records[i] /\ status[p] = "running")
LiveIsKnown ==
    \A p \in alive :
      Published(p, home[p]) \/ \E t \in Threads : pc[t] = "publish" /\ proc[t] = p

\* What get() hands out is open: a session leaves the table before it is
\* closed, and only one thread ever takes it out.
TableIsOpen ==
    /\ Held \cap closed = {}
    /\ \A t \in Threads : doomed[t] \cap (Held \cup closed) = {}
    /\ \A t, u \in Threads : t # u => doomed[t] \cap doomed[u] = {}

\* What runs can be reached: through a process its session knows, and a session
\* of the table.
SessionsAreSound == LiveIsKnown /\ TableIsOpen

\* manager.py:151-153 "never kill a dev server just because no command ran
\* recently": the sweep takes no session with a live background process.
SweepSparesServers ==
    [][\A t \in Threads : pc[t] = "reap" /\ pc'[t] = "close"
         => \A p \in alive : home[p] = inst[t] => active[inst[t]] = p \/ status[p] = "none"]_vars

\* session.py:316-319 "an in-flight command must never block shutdown or
\* process control": what controls sessions returns, whether or not any
\* command ever ends.
ControlReturns ==
    \A t \in Threads : (op[t] \in {"status", "stop", "close", "sweep"} /\ pc[t] # "idle")
                          ~> pc[t] = "idle"

\* And a session that is being closed kills what it knows, so that a thread
\* that waits for its command comes back.
CloseKills ==
    \A p \in Procs :
      (\E t \in Threads : \E i \in doomed[t] : p \in alive /\ Published(p, i)) ~> p \notin alive

\* So the operator keeps control of a session whose command never ends.
ControlWorks == ControlReturns /\ CloseKills

\* web_fastapi.py:313-315 "no dev server or child process outlives the app"
\* and manager.py:16-17 "`close` ends one session and kills its background
\* processes": a live process of a closed session is about to be killed, or
\* its caller is about to wait for it.
ClosedLeavesNothing ==
    \A p \in alive :
      home[p] \in closed => \E t \in Threads : 
        p \in todo[t] \/ (proc[t] = p /\ pc[t] # "idle")
===============================================================================
