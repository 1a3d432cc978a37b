------------------------ MODULE TerminalSessions_proof ------------------------
(***************************************************************************)
(* What the runs of TerminalSessions show of sessions and processes on     *)
(* small instances, for any numbers of keys, sessions, processes and       *)
(* threads.                                                                *)
(***************************************************************************)
EXTENDS TerminalSessions, TLAPS

-------------------------------------------------------------------------------
(* Types, and what a thread is about at each place.                          *)

Ready(t) ==
    /\ pc[t] \in {"enter", "spawn", "publish"} => op[t] \in {"exec", "start"}
    /\ pc[t] \in {"lock", "wait", "report"} => op[t] = "exec"
    /\ pc[t] = "refresh" => op[t] \in {"status", "stop", "sweep"} /\ inst[t] \in Insts
    /\ pc[t] = "stop" => op[t] = "stop"
    /\ pc[t] = "sweep" => op[t] = "sweep"
    /\ pc[t] \in {"check", "reap"} => op[t] = "sweep" /\ inst[t] \in Insts
    /\ pc[t] = "close" => op[t] # "none"
TypesInv == TypeOK /\ \A t \in Threads : Ready(t)

\* Which sessions may make room.
LEMMA EvictedFacts == \A E \in Evicted : E \subseteq Held
BY DEF Evicted

\* The opening of a session, from get() and after an eviction.
LEMMA OpenTypes ==
    ASSUME TypesInv, NEW t \in Threads, NEW i \in Insts,
           NEW o \in {"exec", "start", "status", "stop"}, Open(t, i, o)
    PROVE  /\ pc' = [pc EXCEPT ![t] = FirstLabel(o)]
           /\ todo' = [todo EXCEPT ![t] = IF o \in {"status", "stop"} THEN records[i] ELSE {}]
           /\ FirstLabel(o) = IF o \in {"exec", "start"} THEN "enter" ELSE "refresh"
           /\ todo' \in [Threads -> SUBSET Procs]
BY DEF Open, FirstLabel, At, Set, TypesInv, TypeOK

\* What a step that only moves a thread has to show.
ThreadTypes ==
    /\ pc \in [Threads -> Labels] /\ op \in [Threads -> Ops]
    /\ inst \in [Threads -> Insts \cup {None}] /\ proc \in [Threads -> Procs \cup {None}]
    /\ \A u \in Threads :
         /\ op[u] \in {"exec", "start", "status", "stop"} => inst[u] # None
         /\ pc[u] \in {"publish", "wait", "report"} => proc[u] # None
         /\ Ready(u)

LEMMA ReturnTypes ==
    ASSUME TypesInv, NEW t \in Threads, Return(t)
    PROVE  ThreadTypes'
<1>1. /\ pc' = [pc EXCEPT ![t] = "idle"] /\ op' = [op EXCEPT ![t] = "none"]
      /\ inst' = [inst EXCEPT ![t] = None] /\ proc' = [proc EXCEPT ![t] = None]
    BY DEF Return, At, Set
<1>2. /\ pc' \in [Threads -> Labels] /\ op' \in [Threads -> Ops]
      /\ inst' \in [Threads -> Insts \cup {None}] /\ proc' \in [Threads -> Procs \cup {None}]
    BY <1>1 DEF TypesInv, TypeOK, Labels, Ops
<1>3. ASSUME NEW u \in Threads
      PROVE  /\ (op[u] \in {"exec", "start", "status", "stop"} => inst[u] # None)'
             /\ (pc[u] \in {"publish", "wait", "report"} => proc[u] # None)'
             /\ Ready(u)'
    <2>1. CASE u = t
        BY <1>1, <2>1 DEF Ready, TypesInv, TypeOK
    <2>2. CASE u # t
        <3>1. pc'[u] = pc[u] /\ op'[u] = op[u] /\ inst'[u] = inst[u] /\ proc'[u] = proc[u]
            BY <1>1, <2>2 DEF TypesInv, TypeOK
        <3> QED BY <3>1 DEF Ready, TypesInv, TypeOK
    <2> QED BY <2>1, <2>2
<1> QED BY <1>2, <1>3 DEF ThreadTypes

LEMMA GoTypes ==
    ASSUME TypesInv, NEW t \in Threads, NEW label \in Labels,
           At(t, label), UNCHANGED <<op, inst, proc>>,
           label \in {"publish", "wait", "report"} => proc[t] # None,
           \/ label \in {"spawn", "publish"} /\ op[t] \in {"exec", "start"}
           \/ label \in {"lock", "wait", "report"} /\ op[t] = "exec"
           \/ label = "sweep" /\ op[t] = "sweep"
    PROVE  ThreadTypes'
<1>1. pc' = [pc EXCEPT ![t] = label]
    BY DEF At, Set
<1>2. pc' \in [Threads -> Labels]
    BY <1>1 DEF TypesInv, TypeOK
<1>3. ASSUME NEW u \in Threads
      PROVE  /\ (op[u] \in {"exec", "start", "status", "stop"} => inst[u] # None)'
             /\ (pc[u] \in {"publish", "wait", "report"} => proc[u] # None)'
             /\ Ready(u)'
    <2>1. CASE u = t
        <3>1. pc'[u] = label
            BY <1>1, <2>1 DEF TypesInv, TypeOK
        <3> QED BY <2>1, <3>1 DEF Ready, TypesInv, TypeOK
    <2>2. CASE u # t
        <3>1. pc'[u] = pc[u]
            BY <1>1, <2>2 DEF TypesInv, TypeOK
        <3> QED BY <3>1 DEF Ready, TypesInv, TypeOK
    <2> QED BY <2>1, <2>2
<1> QED BY <1>2, <1>3 DEF ThreadTypes, TypesInv, TypeOK

LEMMA ThreadsMoved ==
    ASSUME TypesInv, ThreadTypes', UNCHANGED <<processes, doomed, todo, sweep>>,
           UNCHANGED <<table, born, closed, records>>,
           idle' \subseteq Insts, active' \in [Insts -> Procs \cup {None}],
           turn' \in [Insts -> Threads \cup {None}]
    PROVE  TypesInv'
<1>1. /\ table' \in [Keys -> Insts \cup {None}] /\ born' \subseteq Insts /\ closed' \subseteq Insts
      /\ records' \in [Insts -> SUBSET Procs]
    BY DEF TypesInv, TypeOK
<1>2. /\ home' \in [Procs -> Insts \cup {None}] /\ alive' \subseteq Procs
      /\ status' \in [Procs -> {"none", "running", "ended", "stopped"}]
      /\ emitted' \subseteq Procs /\ ends' \in [Procs -> Nat]
    BY DEF TypesInv, TypeOK, processes
<1>3. /\ doomed' \in [Threads -> SUBSET Insts] /\ todo' \in [Threads -> SUBSET Procs]
      /\ sweep' \in [Threads -> SUBSET Insts]
    BY DEF TypesInv, TypeOK
<1> QED BY <1>1, <1>2, <1>3 DEF ThreadTypes, TypesInv, TypeOK

LEMMA TypesMove ==
    ASSUME TypesInv, NEW t \in Threads,
           \/ Enter(t) \/ Lock(t) \/ (Publish(t) /\ op[t] = "exec")
           \/ Closed(t) /\ op[t] \in {"close", "sweep"}
    PROVE  TypesInv'
<1>1. CASE Enter(t)
    <2>1. idle' \subseteq Insts
        BY <1>1 DEF Enter, TypesInv, TypeOK
    <2>2. pc[t] = "enter" /\ op[t] \in {"exec", "start"}
        BY <1>1 DEF Enter, TypesInv, Ready
    <2>3. Return(t) \/ \E label \in Labels : /\ At(t, label) /\ UNCHANGED <<op, inst, proc>>
                                             /\ label = IF op[t] = "exec" THEN "lock" ELSE "spawn"
        BY <1>1 DEF Enter, Go, Labels
    <2>4. ThreadTypes'
        BY <2>2, <2>3, ReturnTypes, GoTypes
    <2>5. UNCHANGED <<processes, doomed, todo, sweep>> /\ UNCHANGED <<table, born, closed, records>>
          /\ UNCHANGED <<active, turn>>
        BY <1>1 DEF Enter
    <2>6. active' \in [Insts -> Procs \cup {None}] /\ turn' \in [Insts -> Threads \cup {None}]
        BY <2>5 DEF TypesInv, TypeOK
    <2> QED BY <2>1, <2>4, <2>5, <2>6, ThreadsMoved
<1>2. CASE Lock(t)
    <2>1. op[t] = "exec" /\ inst[t] \in Insts
        BY <1>2 DEF Lock, TypesInv, TypeOK, Ready
    <2>2. turn' \in [Insts -> Threads \cup {None}]
        BY <1>2, <2>1 DEF Lock, Set, TypesInv, TypeOK
    <2>3. Return(t) \/ (At(t, "spawn") /\ UNCHANGED <<op, inst, proc>>)
        BY <1>2 DEF Lock, Go
    <2>4. ThreadTypes'
        BY <2>1, <2>3, ReturnTypes, GoTypes DEF Labels
    <2>5. UNCHANGED <<processes, doomed, todo, sweep>> /\ UNCHANGED <<table, born, closed, records>>
          /\ UNCHANGED <<active, idle>>
        BY <1>2 DEF Lock
    <2>6. active' \in [Insts -> Procs \cup {None}] /\ idle' \subseteq Insts
        BY <2>5 DEF TypesInv, TypeOK
    <2> QED BY <2>2, <2>4, <2>5, <2>6, ThreadsMoved
<1>3. CASE Publish(t) /\ op[t] = "exec"
    <2>1. inst[t] \in Insts /\ proc[t] \in Procs /\ proc[t] # None
        BY <1>3 DEF Publish, TypesInv, TypeOK, Ready
    <2>2. active' \in [Insts -> Procs \cup {None}]
        BY <1>3, <2>1 DEF Publish, Set, TypesInv, TypeOK
    <2>3. At(t, "wait") /\ UNCHANGED <<op, inst, proc>>
        BY <1>3 DEF Publish, Go
    <2>4. ThreadTypes'
        BY <1>3, <2>1, <2>3, GoTypes DEF Labels
    <2>5. UNCHANGED <<processes, doomed, todo, sweep>> /\ UNCHANGED <<table, born, closed, records>>
          /\ UNCHANGED <<turn, idle>>
        BY <1>3 DEF Publish, processes
    <2>6. turn' \in [Insts -> Threads \cup {None}] /\ idle' \subseteq Insts
        BY <2>5 DEF TypesInv, TypeOK
    <2> QED BY <2>2, <2>4, <2>5, <2>6, ThreadsMoved
<1>4. CASE Closed(t) /\ op[t] \in {"close", "sweep"}
    <2>1. Return(t) \/ (At(t, "sweep") /\ UNCHANGED <<op, inst, proc>> /\ op[t] = "sweep")
        BY <1>4 DEF Closed, Go
    <2>2. ThreadTypes'
        BY <2>1, ReturnTypes, GoTypes DEF Labels
    <2>3. UNCHANGED <<sessions, processes, doomed, todo, sweep>>
        BY <1>4 DEF Closed
    <2>4. /\ idle' \subseteq Insts /\ active' \in [Insts -> Procs \cup {None}]
          /\ turn' \in [Insts -> Threads \cup {None}]
        BY <2>3 DEF TypesInv, TypeOK, sessions
    <2> QED BY <2>2, <2>3, <2>4, ThreadsMoved DEF sessions
<1> QED BY <1>1, <1>2, <1>3, <1>4

LEMMA TypesBegin ==
    ASSUME TypesInv, NEW t \in Threads, Begin(t)
    PROVE  TypesInv'
<1> USE TerminalAssumption DEF TypesInv, TypeOK, Ready, At, Set, Labels, Ops
<1>1. ASSUME NEW k \in Keys, NEW o \in {"exec", "start", "status", "stop"}, Get(t, k, o)
      PROVE  TypesInv'
    <2>1. table[k] \in Insts /\ Open(t, table[k], o)
        BY <1>1 DEF Get
    <2>2. /\ pc' = [pc EXCEPT ![t] = FirstLabel(o)]
          /\ FirstLabel(o) = IF o \in {"exec", "start"} THEN "enter" ELSE "refresh"
          /\ todo' \in [Threads -> SUBSET Procs]
        BY <2>1, OpenTypes
    <2> QED BY <1>1, <2>1, <2>2 DEF Get, processes
<1>2. ASSUME NEW k \in Keys, NEW o \in {"exec", "start", "status", "stop"}, Create(t, k, o)
      PROVE  TypesInv'
    <2>1. PICK i \in Insts \ born, E \in Evicted :
              /\ born' = born \cup {i}
              /\ table' = [j \in Keys |-> IF j = k THEN i
                                          ELSE IF table[j] \in E THEN None ELSE table[j]]
              /\ inst' = Set(inst, t, i) /\ doomed' = Set(doomed, t, E)
        BY <1>2 DEF Create
    <2>2. E \subseteq Insts
        BY <2>1, EvictedFacts DEF Held
    <2> QED BY <1>2, <2>1, <2>2 DEF Create, processes
<1>3. ASSUME NEW K \in SUBSET Keys, Close(t, K) PROVE TypesInv'
    <2>1. ({table[k] : k \in K} \ {None}) \subseteq Insts
        OBVIOUS
    <2> QED BY <1>3, <2>1 DEF Close, processes
<1>4. CASE Sweep(t)
    <2>1. Held \subseteq Insts
        BY DEF Held
    <2> QED BY <1>4, <2>1 DEF Sweep, sessions, processes
<1>5. Keys \in SUBSET Keys /\ \A k \in Keys : {k} \in SUBSET Keys
    OBVIOUS
<1> HIDE DEF TypesInv
<1> QED BY <1>1, <1>2, <1>3, <1>4, <1>5 DEF Begin

LEMMA TypesProceed ==
    ASSUME TypesInv, NEW t \in Threads, Proceed(t) \/ TimeOut(t)
    PROVE  TypesInv'
<1> USE TerminalAssumption DEF TypesInv, TypeOK, Ready, At, Set, Labels, Ops
<1>1. ASSUME NEW i \in Insts, CloseSession(t, i) PROVE TypesInv'
    <2>1. todo' \in [Threads -> SUBSET Procs] /\ closed' \subseteq Insts
        BY <1>1 DEF CloseSession
    <2> QED BY <1>1, <2>1 DEF CloseSession, processes
<1>2. ASSUME NEW p \in Procs, Kill(t, p) PROVE TypesInv'
    BY <1>2 DEF Kill, Terminate, sessions
<1>3. ASSUME NEW p \in Procs, ClaimExit(t, p) PROVE TypesInv'
    <2>1. status' \in [Procs -> {"none", "running", "ended", "stopped"}]
        BY <1>3 DEF ClaimExit, Polled
    <2>2. emitted' \subseteq Procs /\ ends' \in [Procs -> Nat]
        BY <1>3 DEF ClaimExit
    <2>3. todo' \in [Threads -> SUBSET Procs] /\ UNCHANGED <<sessions, home, alive, pc, op, inst, proc, doomed, sweep>>
        BY <1>3 DEF ClaimExit
    <2> HIDE DEF Set
    <2> QED BY <2>1, <2>2, <2>3 DEF sessions
<1>4. CASE Closed(t)
    <2>1. CASE op[t] \in {"close", "sweep"}
        BY <1>4, <2>1, TypesMove
    <2>2. CASE op[t] \in {"exec", "start", "status", "stop"}
        <3>1. inst[t] \in Insts /\ Open(t, inst[t], op[t]) /\ UNCHANGED <<op, inst, proc>>
            BY <1>4, <2>2 DEF Closed
        <3>2. /\ pc' = [pc EXCEPT ![t] = FirstLabel(op[t])]
              /\ FirstLabel(op[t]) = IF op[t] \in {"exec", "start"} THEN "enter" ELSE "refresh"
              /\ todo' \in [Threads -> SUBSET Procs]
            BY <2>2, <3>1, OpenTypes
        <3> QED BY <1>4, <2>2, <3>1, <3>2 DEF Closed, sessions, processes
    <2> QED BY <1>4, <2>1, <2>2 DEF Closed
<1>5. CASE Enter(t)
    BY <1>5, TypesMove
<1>6. CASE Lock(t)
    BY <1>6, TypesMove
<1>7. CASE Spawn(t)
    BY <1>7 DEF Spawn, sessions
<1>8. CASE Publish(t)
    <2>1. inst[t] \in Insts /\ proc[t] \in Procs /\ op[t] \in {"exec", "start"}
        BY <1>8 DEF Publish
    <2>2. CASE op[t] = "exec"
        BY <1>8, <2>2, TypesMove
    <2>3. CASE op[t] = "start"
        <3>1. /\ records' = [records EXCEPT ![inst[t]] = records[inst[t]] \cup {proc[t]}]
              /\ status' = [status EXCEPT ![proc[t]] = "running"] /\ Return(t) /\ active' = active
              /\ UNCHANGED <<table, born, closed, idle, turn, home, alive, emitted, ends,
                             doomed, todo, sweep>>
            BY <1>8, <2>3 DEF Publish, Go
        <3>2. /\ records' \in [Insts -> SUBSET Procs]
              /\ status' \in [Procs -> {"none", "running", "ended", "stopped"}]
            BY <2>1, <3>1
        <3> QED BY <3>1, <3>2 DEF Return
    <2> QED BY <2>1, <2>2, <2>3
<1>9. CASE Ended(t) \/ TimeOut(t)
    BY <1>9 DEF Ended, TimeOut, Left, Terminate, Go
<1>10. CASE Report(t)
    <2>1. /\ inst[t] \in Insts /\ proc[t] \in Procs /\ Return(t)
          /\ turn' = [turn EXCEPT ![inst[t]] = None]
          /\ ends' = [ends EXCEPT ![proc[t]] = ends[proc[t]] + 1]
          /\ UNCHANGED <<table, born, closed, idle, active, records, home, alive, status,
                         emitted, doomed, todo, sweep>>
        BY <1>10 DEF Report, Go
    <2>2. turn' \in [Insts -> Threads \cup {None}] /\ ends' \in [Procs -> Nat]
        BY <2>1
    <2> QED BY <2>1, <2>2 DEF Return
<1>11. CASE Refreshed(t)
    BY <1>11 DEF Refreshed, Go, Return, sessions, processes
<1>12. CASE Stop(t)
    <2>1. /\ emitted' \subseteq Procs /\ alive' \subseteq Procs
          /\ status' \in [Procs -> {"none", "running", "ended", "stopped"}]
        BY <1>12 DEF Stop, Terminate
    <2>2. Return(t) /\ UNCHANGED <<sessions, home, ends, doomed, todo, sweep>>
        BY <1>12 DEF Stop, Go
    <2> QED BY <2>1, <2>2 DEF Return, sessions
<1>13. CASE SweepNext(t)
    <2>1. CASE sweep[t] = {}
        BY <1>13, <2>1 DEF SweepNext, Return, sessions, processes
    <2>2. CASE sweep[t] # {}
        <3>1. PICK i \in sweep[t] : /\ sweep' = [sweep EXCEPT ![t] = sweep[t] \ {i}]
                                    /\ inst' = [inst EXCEPT ![t] = i]
                                    /\ todo' = [todo EXCEPT ![t] = records[i]]
                                    /\ pc' = [pc EXCEPT ![t] = "refresh"]
                                    /\ UNCHANGED <<op, proc>>
            BY <1>13, <2>2 DEF SweepNext
        <3>2. i \in Insts /\ i # None
            BY <3>1
        <3>3. UNCHANGED <<sessions, processes, doomed>> /\ op[t] = "sweep"
            BY <1>13 DEF SweepNext
        <3>4. todo' \in [Threads -> SUBSET Procs] /\ sweep' \in [Threads -> SUBSET Insts]
              /\ inst' \in [Threads -> Insts \cup {None}] /\ pc' \in [Threads -> Labels]
            BY <3>1, <3>2
        <3> QED BY <3>1, <3>2, <3>3, <3>4 DEF sessions, processes
    <2> QED BY <2>1, <2>2
<1>14. CASE Check(t)
    BY <1>14 DEF Check, Go, sessions, processes
<1>15. CASE Reap(t)
    BY <1>15 DEF Reap, Go, processes
<1> HIDE DEF TypesInv
<1> QED BY <1>1, <1>2, <1>3, <1>4, <1>5, <1>6, <1>7, <1>8, <1>9, <1>10, <1>11, <1>12,
           <1>13, <1>14, <1>15 DEF Proceed

\* Processes and time that pass change no thread.
LEMMA TypesAlone ==
    ASSUME TypesInv, (\E p \in Procs : Exit(p)) \/ (\E i \in Insts : Age(i)) \/ UNCHANGED vars
    PROVE  TypesInv'
BY DEF TypesInv, TypeOK, Ready, Exit, Age, vars, sessions, processes, threads

LEMMA TypesInit ==
    ASSUME NEW old \in SUBSET Insts, NEW spent \in SUBSET Procs, old = {} => spent = {},
           InitAfter(old, spent)
    PROVE  TypesInv
<1>1. spent # {} => (CHOOSE i \in old : TRUE) \in Insts
    OBVIOUS
<1>2. home \in [Procs -> Insts \cup {None}] /\ ends \in [Procs -> Nat]
    BY <1>1 DEF InitAfter
<1> QED BY <1>2 DEF TypesInv, TypeOK, Ready, InitAfter, Labels, Ops

LEMMA TypesStep ==
    ASSUME TypesInv, [Next]_vars PROVE TypesInv'
BY TypesBegin, TypesProceed, TypesAlone DEF Next

LEMMA TypesInvariant == Spec => []TypesInv
<1>1. Init => TypesInv
    BY TypesInit DEF Init
<1> QED BY <1>1, TypesStep, PTL DEF Spec

\* Every variable keeps its type, with any number of sessions and processes.
THEOREM TerminalTypes == Spec => []TypeOK
<1>1. TypesInv => TypeOK
    BY DEF TypesInv
<1> QED BY <1>1, TypesInvariant, PTL

-------------------------------------------------------------------------------
(* Sessions.  Each is in one place: in the table, taken out by one thread     *)
(* that closes it, or closed; and only sessions that were created are in any. *)

TableInv ==
    /\ Held \subseteq born /\ closed \subseteq born /\ \A t \in Threads : doomed[t] \subseteq born
    /\ \A j, k \in Keys : table[j] = table[k] /\ table[j] # None => j = k
    /\ TableIsOpen

\* A thread has taken the sessions D out of the table.
LEMMA TakenOut ==
    ASSUME TypesInv, TableInv, NEW t \in Threads, NEW D \in SUBSET Held,
           table' \in [Keys -> Insts \cup {None}],
           \A k \in Keys : IF table[k] \in D THEN table'[k] = None ELSE table'[k] = table[k],
           doomed' = [doomed EXCEPT ![t] = D], UNCHANGED <<born, closed>>
    PROVE  TableInv'
<1>1. \A u \in Threads : doomed'[u] = IF u = t THEN D ELSE doomed[u]
    BY DEF TypesInv, TypeOK
<1>2. Held' \subseteq Held \ D
    BY TerminalAssumption DEF Held, TypesInv, TypeOK
<1>3. D \cap closed = {} /\ \A u \in Threads : D \cap doomed[u] = {}
    BY DEF TableInv, TableIsOpen
<1>4. \A j, k \in Keys : table'[j] = table'[k] /\ table'[j] # None => j = k
    BY DEF TableInv
<1>5. TableIsOpen'
    BY <1>1, <1>2, <1>3 DEF TableInv, TableIsOpen
<1> QED BY <1>1, <1>2, <1>4, <1>5 DEF TableInv

LEMMA TableStep ==
    ASSUME TypesInv, TypesInv', TableInv, [Next]_vars
    PROVE  TableInv'
<1>1. ASSUME UNCHANGED <<table, born, closed, doomed>> PROVE TableInv'
    BY <1>1 DEF TableInv, TableIsOpen, Held
<1>2. ASSUME NEW t \in Threads, NEW k \in Keys, NEW o \in {"exec", "start", "status", "stop"},
             Create(t, k, o)
      PROVE  TableInv'
    <2>1. PICK i \in Insts \ born, E \in Evicted :
              /\ born' = born \cup {i}
              /\ table' = [j \in Keys |-> IF j = k THEN i
                                          ELSE IF table[j] \in E THEN None ELSE table[j]]
              /\ doomed' = [doomed EXCEPT ![t] = E]
              /\ closed' = closed
        BY <1>2 DEF Create, Set
    <2>2. E \subseteq Held /\ i \notin Held /\ i \notin closed /\ \A u \in Threads : i \notin doomed[u]
        BY <2>1, EvictedFacts DEF TableInv
    <2>3. \A u \in Threads : doomed'[u] = IF u = t THEN E ELSE doomed[u]
        BY <2>1 DEF TypesInv, TypeOK
    <2>4. Held' \subseteq (Held \ E) \cup {i}
        BY <2>1, <2>2 DEF Held
    <2>5. E \cap closed = {} /\ \A u \in Threads : E \cap doomed[u] = {}
        BY <2>2 DEF TableInv, TableIsOpen
    <2>6. \A j \in Keys : table[j] # i
        BY <2>1, <2>2, TerminalAssumption DEF Held
    <2>7. \A j, m \in Keys : table'[j] = table'[m] /\ table'[j] # None => j = m
        BY <2>1, <2>6 DEF TableInv
    <2>8. TableIsOpen'
        BY <2>1, <2>2, <2>3, <2>4, <2>5 DEF TableInv, TableIsOpen
    <2> QED BY <2>1, <2>2, <2>3, <2>4, <2>7, <2>8 DEF TableInv
<1>3. ASSUME NEW t \in Threads, NEW K \in SUBSET Keys, Close(t, K) PROVE TableInv'
    <2> DEFINE D == {table[k] : k \in K} \ {None}
    <2>1. D \in SUBSET Held
        BY DEF Held
    <2>2. \A k \in Keys : IF table[k] \in D THEN table'[k] = None ELSE table'[k] = table[k]
        BY <1>3 DEF Close, TableInv
    <2>3. doomed' = [doomed EXCEPT ![t] = D] /\ UNCHANGED <<born, closed>>
        BY <1>3 DEF Close, Set
    <2> HIDE DEF D
    <2> QED BY <2>1, <2>2, <2>3, TakenOut DEF TypesInv, TypeOK
<1>4. ASSUME NEW t \in Threads, Reap(t) PROVE TableInv'
    <2>1. CASE ~(inst[t] \in Held /\ inst[t] \in idle)
        BY <1>1, <1>4, <2>1 DEF Reap
    <2>2. CASE inst[t] \in Held /\ inst[t] \in idle
        <3> DEFINE D == {inst[t]}
        <3>1. D \in SUBSET Held /\ doomed' = [doomed EXCEPT ![t] = D] /\ UNCHANGED <<born, closed>>
            BY <1>4, <2>2 DEF Reap, Set
        <3>2. \A k \in Keys : IF table[k] \in D THEN table'[k] = None ELSE table'[k] = table[k]
            BY <1>4, <2>2 DEF Reap
        <3> HIDE DEF D
        <3> QED BY <3>1, <3>2, TakenOut DEF TypesInv, TypeOK
    <2> QED BY <2>1, <2>2
<1>5. ASSUME NEW t \in Threads, NEW i \in Insts, CloseSession(t, i) PROVE TableInv'
    <2>1. /\ i \in doomed[t] /\ closed' = closed \cup {i} /\ UNCHANGED <<table, born>>
          /\ \A u \in Threads : doomed'[u] = IF u = t THEN doomed[t] \ {i} ELSE doomed[u]
        BY <1>5 DEF CloseSession, Set, TypesInv, TypeOK
    <2>2. Held' = Held
        BY <2>1 DEF Held
    <2>3. TableIsOpen'
        BY <2>1, <2>2 DEF TableInv, TableIsOpen
    <2> QED BY <2>1, <2>2, <2>3 DEF TableInv
<1>6. ASSUME NEW t \in Threads, \E k \in Keys : \E o \in {"exec", "start", "status", "stop"} : Get(t, k, o)
      PROVE  TableInv'
    BY <1>1, <1>6 DEF Get
<1>7. ASSUME NEW t \in Threads,
             \/ \E p \in Procs : Kill(t, p) \/ ClaimExit(t, p)
             \/ Sweep(t) \/ Closed(t) \/ Enter(t) \/ Lock(t) \/ Spawn(t) \/ Publish(t) \/ Ended(t)
             \/ Report(t) \/ Refreshed(t) \/ Stop(t) \/ SweepNext(t) \/ Check(t) \/ TimeOut(t)
      PROVE  TableInv'
    BY <1>1, <1>7 DEF Kill, ClaimExit, Sweep, Closed, Enter, Lock, Spawn, Publish, Ended, TimeOut,
                      Left, Report, Refreshed, Stop, SweepNext, Check, sessions
<1>8. CASE (\E p \in Procs : Exit(p)) \/ (\E i \in Insts : Age(i)) \/ UNCHANGED vars
    BY <1>1, <1>8 DEF Exit, Age, vars, sessions, threads
<1>9. Keys \in SUBSET Keys /\ \A k \in Keys : {k} \in SUBSET Keys
    OBVIOUS
<1>10. ASSUME NEW t \in Threads, Begin(t) PROVE TableInv'
    BY <1>2, <1>3, <1>6, <1>7, <1>9, <1>10 DEF Begin
<1>11. ASSUME NEW t \in Threads, Proceed(t) \/ TimeOut(t) PROVE TableInv'
    BY <1>4, <1>5, <1>7, <1>11 DEF Proceed
<1> QED BY <1>8, <1>10, <1>11 DEF Next

LEMMA TableInvariant == Spec => []TableInv
<1>1. Init => TableInv
    BY DEF Init, InitAfter, TableInv, TableIsOpen, Held
<1> QED BY <1>1, TypesInvariant, TableStep, PTL DEF Spec

-------------------------------------------------------------------------------
(* Processes.  A process belongs to the thread that started it until it is    *)
(* registered or over; then, if it runs in the background, to its record.     *)

Has(t) == pc[t] \in {"publish", "wait", "report"}
\* What has been counted of the end of a process, and by whom.
Counted(p) ==
    /\ status[p] = "stopped" => ends[p] = 0 /\ p \in emitted
    /\ status[p] = "running" => ends[p] = 0
    /\ status[p] # "none" /\ p \notin emitted => ends[p] = 0
    /\ ends[p] <= 1
OwnInv ==
    /\ \A t \in Threads : Has(t) =>
         home[proc[t]] = inst[t] /\ status[proc[t]] = "none" /\ ends[proc[t]] = 0
    /\ \A t, u \in Threads : t # u /\ Has(t) /\ Has(u) => proc[t] # proc[u]
    /\ \A i \in Insts : \A p \in records[i] : status[p] # "none" /\ home[p] = i
    /\ \A t \in Threads : pc[t] = "refresh" => \A p \in todo[t] : status[p] # "none"
    /\ \A p \in Procs : home[p] = None => status[p] = "none" /\ ends[p] = 0 /\ p \notin alive
    /\ \A p \in Procs : Counted(p)

\* The other threads stay where they are.
Stays(u) == pc'[u] = pc[u] /\ op'[u] = op[u] /\ inst'[u] = inst[u] /\ proc'[u] = proc[u]
            /\ todo'[u] = todo[u]
LEMMA OthersStay ==
    ASSUME TypesInv, NEW t \in Threads, Begin(t) \/ Proceed(t) \/ TimeOut(t)
    PROVE  \A u \in Threads \ {t} : Stays(u)
<1> USE DEF At, Set, Stays, Return
<1>0. /\ pc \in [Threads -> Labels] /\ op \in [Threads -> Ops]
      /\ inst \in [Threads -> Insts \cup {None}] /\ proc \in [Threads -> Procs \cup {None}]
      /\ todo \in [Threads -> SUBSET Procs]
    BY DEF TypesInv, TypeOK
<1>1. \A i, o : Open(t, i, o) => \A u \in Threads \ {t} : pc'[u] = pc[u] /\ todo'[u] = todo[u]
    BY <1>0 DEF Open
<1>2. ASSUME NEW label, Go(t, label), todo' = todo PROVE \A u \in Threads \ {t} : Stays(u)
    BY <1>0, <1>2 DEF Go
<1>3. CASE Begin(t)
    <2>1. ASSUME NEW k \in Keys, NEW o, Get(t, k, o) PROVE \A u \in Threads \ {t} : Stays(u)
        BY <1>0, <1>1, <2>1 DEF Get
    <2>2. ASSUME NEW k \in Keys, NEW o, Create(t, k, o) PROVE \A u \in Threads \ {t} : Stays(u)
        BY <1>0, <2>2 DEF Create
    <2>3. ASSUME NEW K, Close(t, K) PROVE \A u \in Threads \ {t} : Stays(u)
        BY <1>0, <2>3 DEF Close
    <2>4. CASE Sweep(t)
        BY <1>0, <2>4 DEF Sweep
    <2> QED BY <1>3, <2>1, <2>2, <2>3, <2>4 DEF Begin
<1>4. CASE \E i \in Insts : CloseSession(t, i)
    BY <1>0, <1>4 DEF CloseSession
<1>5. CASE \E p \in Procs : Kill(t, p) \/ ClaimExit(t, p)
    BY <1>0, <1>5 DEF Kill, ClaimExit
<1>6. CASE Closed(t)
    BY <1>0, <1>1, <1>2, <1>6 DEF Closed
<1>7. CASE Enter(t) \/ Lock(t) \/ Publish(t) \/ Ended(t) \/ TimeOut(t) \/ Report(t) \/ Refreshed(t)
           \/ Stop(t) \/ Check(t)
    <2>1. todo' = todo /\ \E label : Go(t, label)
        BY <1>7 DEF Enter, Lock, Publish, Ended, TimeOut, Left, Report, Refreshed, Stop, Check
    <2> QED BY <1>2, <2>1
<1>8. CASE Spawn(t)
    BY <1>0, <1>8 DEF Spawn
<1>9. CASE Reap(t)
    <2>1. todo' = todo /\ \E label : Go(t, label)
        BY <1>9 DEF Reap
    <2> QED BY <1>2, <2>1
<1>10. CASE SweepNext(t)
    BY <1>0, <1>10 DEF SweepNext
<1> QED BY <1>3, <1>4, <1>5, <1>6, <1>7, <1>8, <1>9, <1>10 DEF Proceed

\* A step of a thread that starts, registers, counts and claims nothing.
Quiet(t) ==
    /\ UNCHANGED <<home, status, ends, records>> /\ alive' \subseteq alive /\ emitted \subseteq emitted'
    /\ Has(t)' => Has(t) /\ proc'[t] = proc[t] /\ inst'[t] = inst[t]
    /\ pc'[t] = "refresh" => \A p \in todo'[t] : status[p] # "none"

LEMMA QuietOwns ==
    ASSUME TypesInv, OwnInv, NEW t \in Threads, \A u \in Threads \ {t} : Stays(u), Quiet(t)
    PROVE  OwnInv'
<1>1. \A u \in Threads : Has(u)' => Has(u) /\ proc'[u] = proc[u] /\ inst'[u] = inst[u]
    BY DEF Quiet, Stays, Has
<1>2. \A u \in Threads : pc'[u] = "refresh" => \A p \in todo'[u] : status[p] # "none"
    BY DEF OwnInv, Quiet, Stays
<1>3. \A p \in Procs : Counted(p)'
    BY DEF OwnInv, Counted, Quiet
<1> QED BY <1>1, <1>2, <1>3 DEF OwnInv, Quiet

\* What the steps of a thread do with processes.
LEMMA QuietSteps ==
    ASSUME TypesInv, OwnInv, NEW t \in Threads,
           \/ Begin(t) \/ Closed(t) \/ Enter(t) \/ Lock(t) \/ Ended(t) \/ TimeOut(t)
           \/ Refreshed(t) \/ SweepNext(t) \/ Check(t) \/ Reap(t)
           \/ \E i \in Insts : CloseSession(t, i)
           \/ \E p \in Procs : Kill(t, p)
           \/ Publish(t) /\ op[t] = "exec"
    PROVE  Quiet(t)
<1> USE DEF At, Set, Return, Quiet, Has
<1>0. /\ \A v : [pc EXCEPT ![t] = v][t] = v /\ [todo EXCEPT ![t] = v][t] = v
      /\ \A i \in Insts : \A p \in records[i] : status[p] # "none"
      /\ \A i \in Insts : records[i] \subseteq Procs
    BY DEF TypesInv, TypeOK, OwnInv
<1>1. ASSUME NEW i \in Insts, NEW o \in {"exec", "start", "status", "stop"}, Open(t, i, o)
      PROVE  pc'[t] \in {"enter", "refresh"} /\ \A p \in todo'[t] : status[p] # "none"
    <2>1. /\ pc' = [pc EXCEPT ![t] = FirstLabel(o)]
          /\ todo' = [todo EXCEPT ![t] = IF o \in {"status", "stop"} THEN records[i] ELSE {}]
          /\ FirstLabel(o) \in {"enter", "refresh"}
        BY <1>1, OpenTypes
    <2> QED BY <1>0, <2>1
<1>2. ASSUME NEW label, Go(t, label) PROVE pc'[t] = label
    BY <1>0, <1>2 DEF Go
<1>3. CASE Begin(t)
    <2>1. ASSUME NEW k \in Keys, NEW o \in {"exec", "start", "status", "stop"}, Get(t, k, o) PROVE Quiet(t)
        <3>1. table[k] \in Insts
            BY <2>1 DEF Get, TypesInv, TypeOK
        <3> QED BY <1>1, <2>1, <3>1 DEF Get, processes
    <2>2. ASSUME NEW k \in Keys, NEW o, Create(t, k, o) PROVE Quiet(t)
        BY <1>0, <2>2 DEF Create, processes
    <2>3. ASSUME NEW K, Close(t, K) PROVE Quiet(t)
        BY <1>0, <2>3 DEF Close, processes
    <2>4. CASE Sweep(t)
        BY <1>0, <2>4 DEF Sweep, sessions, processes
    <2> QED BY <1>3, <2>1, <2>2, <2>3, <2>4 DEF Begin
<1>4. CASE Closed(t)
    <2>1. CASE op[t] \in {"close", "sweep"}
        BY <1>2, <1>4, <2>1 DEF Closed, sessions, processes
    <2>2. CASE op[t] \in {"exec", "start", "status", "stop"}
        <3>1. inst[t] \in Insts /\ Open(t, inst[t], op[t])
            BY <1>4, <2>2 DEF Closed, TypesInv, TypeOK
        <3> QED BY <1>1, <1>4, <2>2, <3>1 DEF Closed, sessions, processes
    <2> QED BY <1>4, <2>1, <2>2 DEF Closed, TypesInv, TypeOK, Ready, Ops
<1>5. CASE Enter(t) \/ Lock(t)
    BY <1>2, <1>5 DEF Enter, Lock, processes
<1>6. CASE Ended(t) \/ TimeOut(t)
    BY <1>2, <1>6 DEF Ended, TimeOut, Left, Go, Terminate
<1>7. CASE Refreshed(t) \/ Check(t)
    BY <1>2, <1>7 DEF Refreshed, Check, sessions, processes, TypesInv, Ready
<1>8. CASE Reap(t)
    BY <1>2, <1>8 DEF Reap, processes
<1>9. CASE SweepNext(t)
    <2>1. CASE sweep[t] = {}
        BY <1>0, <1>9, <2>1 DEF SweepNext, sessions, processes
    <2>2. CASE sweep[t] # {}
        <3>1. PICK i \in sweep[t] : todo' = [todo EXCEPT ![t] = records[i]]
            BY <1>9, <2>2 DEF SweepNext
        <3>2. i \in Insts
            BY <3>1 DEF TypesInv, TypeOK
        <3>3. \A p \in todo'[t] : status[p] # "none"
            BY <1>0, <3>1, <3>2
        <3>4. pc'[t] = "refresh" /\ UNCHANGED <<sessions, processes, doomed>>
            BY <1>0, <1>9, <2>2 DEF SweepNext
        <3> QED BY <3>3, <3>4 DEF sessions, processes
    <2> QED BY <2>1, <2>2
<1>10. CASE \E i \in Insts : CloseSession(t, i)
    BY <1>10 DEF CloseSession, processes
<1>11. CASE \E p \in Procs : Kill(t, p)
    BY <1>11 DEF Kill, Terminate, sessions
<1>12. CASE Publish(t) /\ op[t] = "exec"
    <2>1. pc'[t] = "wait" /\ UNCHANGED <<records, status, proc, inst>>
        BY <1>0, <1>2, <1>12 DEF Publish, Go
    <2> QED BY <1>12, <2>1 DEF Publish
<1> QED BY <1>3, <1>4, <1>5, <1>6, <1>7, <1>8, <1>9, <1>10, <1>11, <1>12

\* A process is started ...
LEMMA SpawnOwns ==
    ASSUME TypesInv, OwnInv, NEW t \in Threads, Spawn(t)
    PROVE  OwnInv'
<1>1. PICK p \in Procs : /\ home[p] = None /\ home' = [home EXCEPT ![p] = inst[t]]
                         /\ alive' = alive \cup {p} /\ proc' = [proc EXCEPT ![t] = p]
    BY DEF Spawn, Set
<1>2. inst[t] \in Insts /\ pc' = [pc EXCEPT ![t] = "publish"] /\ pc[t] = "spawn"
      /\ UNCHANGED <<sessions, status, emitted, ends, op, inst, todo>>
    BY DEF Spawn, At, Set, TypesInv, TypeOK, Ready
<1>3. \A u \in Threads : /\ pc'[u] = IF u = t THEN "publish" ELSE pc[u]
                         /\ proc'[u] = IF u = t THEN p ELSE proc[u]
    BY <1>1, <1>2 DEF TypesInv, TypeOK
<1>4. \A q \in Procs : home'[q] = IF q = p THEN inst[t] ELSE home[q]
    BY <1>1 DEF TypesInv, TypeOK
<1>5. status[p] = "none" /\ ends[p] = 0
    BY <1>1 DEF OwnInv
<1>6. \A u \in Threads : Has(u) => proc[u] \in Procs /\ proc[u] # p
    <2>1. \A u \in Threads : Has(u) => proc[u] \in Procs /\ inst[u] # None
        BY DEF TypesInv, TypeOK, Ready, Has
    <2> QED BY <1>1, <2>1 DEF OwnInv
<1>7. \A i \in Insts : \A q \in records[i] : q \in Procs /\ q # p
    BY <1>1, TerminalAssumption DEF OwnInv, TypesInv, TypeOK
<1>8. \A u \in Threads : Has(u)' =>
          home'[proc'[u]] = inst[u] /\ status[proc'[u]] = "none" /\ ends[proc'[u]] = 0
    BY <1>3, <1>4, <1>5, <1>6 DEF OwnInv, Has
<1>9. \A u, w \in Threads : u # w /\ Has(u)' /\ Has(w)' => proc'[u] # proc'[w]
    BY <1>3, <1>6 DEF OwnInv, Has
<1>10. \A i \in Insts : \A q \in records[i] : status[q] # "none" /\ home'[q] = i
    BY <1>4, <1>7 DEF OwnInv
<1>11. \A q \in Procs : home'[q] = None => status[q] = "none" /\ ends[q] = 0 /\ q \notin alive'
    BY <1>1, <1>2, <1>4, TerminalAssumption DEF OwnInv
<1>12. \A u \in Threads : pc'[u] = "refresh" => \A q \in todo[u] : status[q] # "none"
    BY <1>3 DEF OwnInv
<1> QED BY <1>2, <1>8, <1>9, <1>10, <1>11, <1>12 DEF OwnInv, Counted, sessions

\* ... registered in the background ...
LEMMA RegisterOwns ==
    ASSUME TypesInv, OwnInv, NEW t \in Threads, Publish(t), op[t] # "exec"
    PROVE  OwnInv'
<1> DEFINE p == proc[t]
           i == inst[t]
<1>1. /\ p \in Procs /\ i \in Insts /\ Has(t) /\ Return(t)
      /\ records' = [records EXCEPT ![i] = records[i] \cup {p}]
      /\ status' = [status EXCEPT ![p] = "running"]
      /\ UNCHANGED <<home, alive, emitted, ends, todo>>
    BY DEF Publish, Go, Set, TypesInv, TypeOK, Ready, Has
<1>2. home[p] = i /\ ends[p] = 0
    BY <1>1 DEF OwnInv
<1>3. \A u \in Threads : /\ pc'[u] = IF u = t THEN "idle" ELSE pc[u]
                         /\ u # t => proc'[u] = proc[u] /\ inst'[u] = inst[u]
    BY <1>1 DEF Return, At, Set, TypesInv, TypeOK
<1>4. \A q \in Procs : status'[q] = IF q = p THEN "running" ELSE status[q]
    BY <1>1 DEF TypesInv, TypeOK
<1>5. \A j \in Insts : records'[j] = IF j = i THEN records[i] \cup {p} ELSE records[j]
    BY <1>1 DEF TypesInv, TypeOK
<1>6. \A u \in Threads : Has(u)' => u # t /\ Has(u) /\ proc[u] # p /\ proc[u] \in Procs
    BY <1>1, <1>3, TerminalAssumption DEF OwnInv, Has, TypesInv, TypeOK
<1> HIDE DEF p, i
<1>7. \A u \in Threads : Has(u)' =>
          home[proc'[u]] = inst'[u] /\ status'[proc'[u]] = "none" /\ ends[proc'[u]] = 0
    BY <1>3, <1>4, <1>6 DEF OwnInv
<1>8. \A u, w \in Threads : u # w /\ Has(u)' /\ Has(w)' => proc'[u] # proc'[w]
    BY <1>3, <1>6 DEF OwnInv
<1>9. \A j \in Insts : records[j] \subseteq Procs
    BY DEF TypesInv, TypeOK
<1>10. \A j \in Insts : \A q \in records'[j] : status'[q] # "none" /\ home[q] = j
    BY <1>1, <1>2, <1>4, <1>5, <1>9 DEF OwnInv
<1>11. \A u \in Threads : pc'[u] = "refresh" => \A q \in todo[u] : status'[q] # "none"
    BY <1>3, <1>4 DEF OwnInv, TypesInv, TypeOK
<1>12. \A q \in Procs : home[q] = None => status'[q] = "none" /\ ends[q] = 0 /\ q \notin alive
    BY <1>1, <1>2, <1>4, TerminalAssumption DEF OwnInv
<1>13. \A q \in Procs : Counted(q)'
    BY <1>1, <1>2, <1>4 DEF OwnInv, Counted
<1> QED BY <1>1, <1>7, <1>8, <1>10, <1>11, <1>12, <1>13 DEF OwnInv

\* ... or counted by the thread that has waited for it.
LEMMA ReportOwns ==
    ASSUME TypesInv, OwnInv, NEW t \in Threads, Report(t)
    PROVE  OwnInv'
<1> DEFINE p == proc[t]
<1>1. /\ p \in Procs /\ Has(t) /\ Return(t)
      /\ ends' = [ends EXCEPT ![p] = ends[p] + 1]
      /\ UNCHANGED <<records, home, alive, status, emitted, todo>>
    BY DEF Report, Go, Set, TypesInv, TypeOK, Ready, Has
<1>2. status[p] = "none" /\ ends[p] = 0 /\ home[p] = inst[t] /\ inst[t] \in Insts
    BY <1>1 DEF OwnInv, Report, TypesInv, TypeOK, Ready
<1>3. \A u \in Threads : /\ pc'[u] = IF u = t THEN "idle" ELSE pc[u]
                         /\ u # t => proc'[u] = proc[u] /\ inst'[u] = inst[u]
    BY <1>1 DEF Return, At, Set, TypesInv, TypeOK
<1>4. \A q \in Procs : ends'[q] = IF q = p THEN 1 ELSE ends[q]
    BY <1>1, <1>2 DEF TypesInv, TypeOK
<1>5. \A u \in Threads : Has(u)' => u # t /\ Has(u) /\ proc[u] # p /\ proc[u] \in Procs
    BY <1>1, <1>3, TerminalAssumption DEF OwnInv, Has, TypesInv, TypeOK
<1> HIDE DEF p
<1>6. \A u \in Threads : Has(u)' =>
          home[proc'[u]] = inst'[u] /\ status[proc'[u]] = "none" /\ ends'[proc'[u]] = 0
    BY <1>3, <1>4, <1>5 DEF OwnInv
<1>7. \A u, w \in Threads : u # w /\ Has(u)' /\ Has(w)' => proc'[u] # proc'[w]
    BY <1>3, <1>5 DEF OwnInv
<1>8. \A u \in Threads : pc'[u] = "refresh" => \A q \in todo[u] : status[q] # "none"
    BY <1>3 DEF OwnInv
<1>9. \A q \in Procs : home[q] = None => status[q] = "none" /\ ends'[q] = 0 /\ q \notin alive
    BY <1>2, <1>4, TerminalAssumption DEF OwnInv
<1>10. \A q \in Procs : Counted(q)'
    BY <1>1, <1>2, <1>4 DEF OwnInv, Counted
<1> QED BY <1>1, <1>6, <1>7, <1>8, <1>9, <1>10 DEF OwnInv


\* The end of a background process is claimed by one thread, or taken by stop().
Claims(p) ==
    /\ status[p] # "none" /\ emitted' = emitted \cup {p}
    /\ \/ /\ p \notin emitted /\ ends' = [ends EXCEPT ![p] = ends[p] + 1]
          /\ \/ status' = status /\ status[p] # "running"
             \/ status[p] = "running" /\ status' = [status EXCEPT ![p] = "ended"]
       \/ /\ ends' = ends
          /\ \/ status' = status
             \/ status[p] = "running" /\ status' = [status EXCEPT ![p] = "stopped"]
Sees(p) ==
    /\ UNCHANGED <<emitted, ends>>
    /\ \/ status' = status
       \/ status[p] = "running" /\ status' = [status EXCEPT ![p] = "ended"]

LEMMA ClaimOwns ==
    ASSUME TypesInv, OwnInv, NEW t \in Threads, \A u \in Threads \ {t} : Stays(u),
           NEW p \in Procs, Claims(p) \/ Sees(p),
           UNCHANGED <<home, records>>, alive' \subseteq alive,
           ~Has(t)', todo'[t] \subseteq todo[t], pc'[t] = "refresh" => pc[t] = "refresh"
    PROVE  OwnInv'
<1>1. \A q \in Procs : /\ status'[q] = "none" <=> status[q] = "none"
                       /\ q # p => status'[q] = status[q] /\ ends'[q] = ends[q]
                       /\ status[q] = "none" => ends'[q] = ends[q]
    BY DEF Claims, Sees, TypesInv, TypeOK
<1>2. \A u \in Threads : Has(u)' =>
          /\ Has(u) /\ proc'[u] = proc[u] /\ inst'[u] = inst[u] /\ proc[u] \in Procs
    BY TerminalAssumption DEF Has, Stays, TypesInv, TypeOK
<1>3. \A u \in Threads : Has(u)' =>
          home'[proc'[u]] = inst'[u] /\ status'[proc'[u]] = "none" /\ ends'[proc'[u]] = 0
    BY <1>1, <1>2 DEF OwnInv
<1>4. \A u, w \in Threads : u # w /\ Has(u)' /\ Has(w)' => proc'[u] # proc'[w]
    BY <1>2 DEF OwnInv
<1>5. \A i \in Insts : records[i] \subseteq Procs
    BY DEF TypesInv, TypeOK
<1>6. \A i \in Insts : \A q \in records'[i] : status'[q] # "none" /\ home'[q] = i
    BY <1>1, <1>5 DEF OwnInv
<1>7. \A u \in Threads : pc'[u] = "refresh" => \A q \in todo'[u] : status'[q] # "none"
    BY <1>1 DEF OwnInv, Stays, TypesInv, TypeOK
<1>8. \A q \in Procs : home'[q] = None => status'[q] = "none" /\ ends'[q] = 0 /\ q \notin alive'
    BY <1>1 DEF OwnInv
<1>9. \A q \in Procs : Counted(q)'
    <2>1. \A q \in Procs \ {p} : Counted(q)'
        BY <1>1 DEF OwnInv, Counted, Claims, Sees
    <2>2. Counted(p) /\ ends[p] \in Nat /\ ends \in [Procs -> Nat]
          /\ status \in [Procs -> {"none", "running", "ended", "stopped"}]
        BY DEF OwnInv, TypesInv, TypeOK
    <2>3. Counted(p)'
        BY <2>2 DEF Counted, Claims, Sees
    <2> QED BY <2>1, <2>3
<1> QED BY <1>3, <1>4, <1>6, <1>7, <1>8, <1>9 DEF OwnInv

LEMMA ClaimExitOwns ==
    ASSUME TypesInv, OwnInv, NEW t \in Threads, \A u \in Threads \ {t} : Stays(u),
           NEW p \in Procs, ClaimExit(t, p)
    PROVE  OwnInv'
<1>1. status[p] # "none" /\ status[p] \in {"running", "ended", "stopped"}
    BY DEF ClaimExit, OwnInv, TypesInv, TypeOK
<1>2. \/ status' = status
      \/ status[p] = "running" /\ status' = [status EXCEPT ![p] = "ended"]
    BY DEF ClaimExit, Polled, Set
<1>3. status' = [status EXCEPT ![p] = "ended"] => status'[p] = "ended"
    BY DEF TypesInv, TypeOK
<1>4. \/ /\ status'[p] # "running" /\ p \notin emitted /\ emitted' = emitted \cup {p}
         /\ ends' = [ends EXCEPT ![p] = ends[p] + 1]
      \/ UNCHANGED <<emitted, ends>>
    BY DEF ClaimExit, Claimed, Set
<1>5. Claims(p) \/ Sees(p)
    BY <1>1, <1>2, <1>3, <1>4 DEF Claims, Sees
<1>6. /\ UNCHANGED <<home, records, alive, pc>> /\ pc[t] = "refresh"
      /\ todo'[t] \subseteq todo[t]
    BY DEF ClaimExit, sessions, Set, TypesInv, TypeOK
<1>7. ~Has(t)'
    BY <1>6 DEF Has
<1> QED BY <1>5, <1>6, <1>7, ClaimOwns

LEMMA StopOwns ==
    ASSUME TypesInv, OwnInv, NEW t \in Threads, \A u \in Threads \ {t} : Stays(u), Stop(t)
    PROVE  OwnInv'
<1>1. /\ inst[t] \in Insts /\ pc'[t] = "idle" /\ UNCHANGED <<home, records, ends, todo>>
      /\ alive' \subseteq alive
    BY DEF Stop, Go, Return, At, Set, Terminate, sessions, TypesInv, TypeOK, Ready
<1>2. CASE UNCHANGED <<emitted, alive, status>>
    <2>1. Quiet(t)
        BY <1>1, <1>2 DEF Quiet, Has
    <2> QED BY <2>1, QuietOwns
<1>3. CASE \E p \in records[inst[t]] : /\ emitted' = emitted \cup {p}
              /\ IF status[p] = "running"
                 THEN Terminate(p) /\ status' = Set(status, p, "stopped")
                 ELSE UNCHANGED <<alive, status>>
    <2>1. PICK p \in records[inst[t]] : /\ emitted' = emitted \cup {p}
              /\ IF status[p] = "running"
                 THEN Terminate(p) /\ status' = Set(status, p, "stopped")
                 ELSE UNCHANGED <<alive, status>>
        BY <1>3
    <2>2. p \in Procs /\ status[p] # "none"
        BY <1>1 DEF OwnInv, TypesInv, TypeOK
    <2>3. Claims(p)
        BY <1>1, <2>1, <2>2 DEF Claims, Set
    <2> QED BY <1>1, <2>2, <2>3, ClaimOwns DEF Has
<1> QED BY <1>2, <1>3 DEF Stop

LEMMA OwnStep ==
    ASSUME TypesInv, OwnInv, [Next]_vars
    PROVE  OwnInv'
<1>1. ASSUME NEW t \in Threads, Begin(t) \/ Proceed(t) \/ TimeOut(t) PROVE OwnInv'
    <2>1. \A u \in Threads \ {t} : Stays(u)
        BY <1>1, OthersStay
    <2>2. ASSUME Quiet(t) PROVE OwnInv'
        BY <2>1, <2>2, QuietOwns
    <2>3. CASE Spawn(t) \/ Report(t) \/ (Publish(t) /\ op[t] # "exec")
        BY <2>3, SpawnOwns, ReportOwns, RegisterOwns
    <2>4. CASE Stop(t) \/ \E p \in Procs : ClaimExit(t, p)
        BY <2>1, <2>4, StopOwns, ClaimExitOwns
    <2> QED BY <1>1, <2>2, <2>3, <2>4, QuietSteps DEF Proceed
<1>2. CASE (\E p \in Procs : Exit(p)) \/ (\E i \in Insts : Age(i)) \/ UNCHANGED vars
    <2>1. UNCHANGED <<home, status, ends, records, emitted, pc, inst, proc, todo>> /\ alive' \subseteq alive
        BY <1>2 DEF Exit, Age, vars, sessions, processes, threads
    <2> QED BY <2>1 DEF OwnInv, Has, Counted
<1> QED BY <1>1, <1>2 DEF Next

LEMMA OwnInvariant == Spec => []OwnInv
<1>1. Init => OwnInv
    BY DEF Init, InitAfter, OwnInv, Has, Counted
<1> QED BY <1>1, TypesInvariant, OwnStep, PTL DEF Spec

\* A process has one completion event, from whichever thread sees its end, and
\* none after stop() took its end.
THEOREM OneEnd == Spec => []EndsOnce
<1>1. OwnInv => EndsOnce
    BY DEF OwnInv, Counted, EndsOnce
<1> QED BY <1>1, OwnInvariant, PTL

-------------------------------------------------------------------------------
(* What runs is known.  A session's foreground command is that of the thread  *)
(* whose turn it is, so that no other command takes its place.                *)

Runs(t) == op[t] = "exec" /\ pc[t] \in {"spawn", "publish", "wait", "report"}
TurnInv ==
    /\ \A t \in Threads : Runs(t) => turn[inst[t]] = t
    /\ \A t \in Threads : pc[t] = "wait" => active[inst[t]] = proc[t]
    /\ \A i \in Insts : active[i] # None => \E t \in Threads : pc[t] = "wait" /\ inst[t] = i
    /\ LiveIsKnown

\* A step of a thread that is not about to run a command, and takes no live
\* process out of its record.
Calm(t) ==
    /\ UNCHANGED <<active, turn, home, records>> /\ alive' \subseteq alive
    /\ \A p \in alive' : status[p] = "running" => status'[p] = "running"
    /\ {pc[t], pc'[t]} \cap {"publish", "wait"} = {} /\ ~Runs(t)'

LEMMA CalmTurns ==
    ASSUME TypesInv, TurnInv, NEW t \in Threads, \A u \in Threads \ {t} : Stays(u), Calm(t)
    PROVE  TurnInv'
<1>1. \A u \in Threads : Runs(u)' => Runs(u) /\ inst'[u] = inst[u]
    BY DEF Calm, Stays, Runs
<1>2. \A u \in Threads : pc'[u] \in {"publish", "wait"} => inst'[u] = inst[u] /\ proc'[u] = proc[u] /\ pc[u] = pc'[u]
    BY DEF Calm, Stays
<1>3. \A u \in Threads : pc[u] \in {"publish", "wait"} => inst'[u] = inst[u] /\ proc'[u] = proc[u] /\ pc[u] = pc'[u]
    BY DEF Calm, Stays
<1>4. \A i \in Insts : active'[i] # None => \E u \in Threads : pc'[u] = "wait" /\ inst'[u] = i
    BY <1>3 DEF Calm, TurnInv
<1>5. LiveIsKnown'
    BY <1>3 DEF Calm, TurnInv, LiveIsKnown, Published
<1> QED BY <1>1, <1>2, <1>4, <1>5 DEF TurnInv, Calm

\* What the steps of a thread do with the turns.
LEMMA CalmSteps ==
    ASSUME TypesInv, NEW t \in Threads,
           \/ Begin(t) \/ Closed(t) \/ Enter(t) \/ (Lock(t) /\ inst[t] \in closed)
           \/ Refreshed(t) \/ Stop(t) \/ SweepNext(t) \/ Check(t) \/ Reap(t)
           \/ \E i \in Insts : CloseSession(t, i)
           \/ \E p \in Procs : Kill(t, p) \/ ClaimExit(t, p)
    PROVE  Calm(t)
<1> USE DEF At, Set, Return, Calm, Runs
<1>0. /\ \A v : [pc EXCEPT ![t] = v][t] = v
      /\ status \in [Procs -> {"none", "running", "ended", "stopped"}] /\ alive \subseteq Procs
    BY DEF TypesInv, TypeOK
<1>1. ASSUME NEW i \in Insts, NEW o \in {"exec", "start", "status", "stop"}, Open(t, i, o)
      PROVE  pc'[t] \in {"enter", "refresh"}
    BY <1>0, <1>1, OpenTypes
<1>2. ASSUME NEW label, Go(t, label) PROVE pc'[t] = label
    BY <1>0, <1>2 DEF Go
<1>3. CASE Begin(t)
    <2>1. ASSUME NEW k \in Keys, NEW o \in {"exec", "start", "status", "stop"}, Get(t, k, o) PROVE Calm(t)
        <3>1. table[k] \in Insts
            BY <2>1 DEF Get, TypesInv, TypeOK
        <3> QED BY <1>1, <2>1, <3>1 DEF Get, processes
    <2>2. ASSUME NEW k \in Keys, NEW o, Create(t, k, o) PROVE Calm(t)
        BY <1>0, <2>2 DEF Create, processes
    <2>3. ASSUME NEW K, Close(t, K) PROVE Calm(t)
        BY <1>0, <2>3 DEF Close, processes
    <2>4. CASE Sweep(t)
        BY <1>0, <2>4 DEF Sweep, sessions, processes
    <2> QED BY <1>3, <2>1, <2>2, <2>3, <2>4 DEF Begin
<1>4. CASE Closed(t)
    <2>1. CASE op[t] \in {"close", "sweep"}
        BY <1>2, <1>4, <2>1 DEF Closed, sessions, processes
    <2>2. CASE op[t] \in {"exec", "start", "status", "stop"}
        <3>1. inst[t] \in Insts /\ Open(t, inst[t], op[t])
            BY <1>4, <2>2 DEF Closed, TypesInv, TypeOK
        <3> QED BY <1>1, <1>4, <2>2, <3>1 DEF Closed, sessions, processes
    <2> QED BY <1>4, <2>1, <2>2 DEF Closed, TypesInv, TypeOK, Ready, Ops
<1>5. CASE Enter(t)
    <2>1. CASE inst[t] \in closed
        BY <1>2, <1>5, <2>1 DEF Enter, processes
    <2>2. CASE inst[t] \notin closed
        <3>1. Go(t, IF op[t] = "exec" THEN "lock" ELSE "spawn")
              /\ pc[t] = "enter" /\ UNCHANGED <<active, turn, records, processes>>
            BY <1>5, <2>2 DEF Enter
        <3>2. op' = op /\ pc'[t] = IF op[t] = "exec" THEN "lock" ELSE "spawn"
            BY <1>0, <3>1 DEF Go
        <3> QED BY <3>1, <3>2 DEF processes
    <2> QED BY <2>1, <2>2
<1>6. CASE Lock(t) /\ inst[t] \in closed
    BY <1>2, <1>6 DEF Lock, processes
<1>7. CASE Refreshed(t) \/ Check(t)
    BY <1>2, <1>7 DEF Refreshed, Check, sessions, processes, TypesInv, Ready
<1>8. CASE Reap(t)
    BY <1>2, <1>8 DEF Reap, processes
<1>9. CASE SweepNext(t)
    BY <1>0, <1>9 DEF SweepNext, sessions, processes
<1>10. CASE \E i \in Insts : CloseSession(t, i)
    BY <1>10 DEF CloseSession, processes
<1>11. CASE \E p \in Procs : Kill(t, p)
    BY <1>11 DEF Kill, Terminate, sessions
<1>12. ASSUME NEW p \in Procs, ClaimExit(t, p) PROVE Calm(t)
    <2>1. pc[t] = "refresh" /\ UNCHANGED <<sessions, home, alive, pc>>
        BY <1>12 DEF ClaimExit
    <2>2. \A q \in alive : status'[q] = status[q]
        BY <1>0, <1>12 DEF ClaimExit, Polled
    <2> QED BY <2>1, <2>2 DEF sessions
<1>13. CASE Stop(t)
    <2>1. Go(t, "idle") /\ pc[t] = "stop" /\ UNCHANGED <<sessions, home>>
        BY <1>13 DEF Stop
    <2>2. alive' \subseteq alive /\ \A q \in alive' : status'[q] = status[q]
        BY <1>0, <1>13 DEF Stop, Terminate
    <2> QED BY <1>2, <2>1, <2>2 DEF sessions
<1> QED BY <1>3, <1>4, <1>5, <1>6, <1>7, <1>8, <1>9, <1>10, <1>11, <1>12, <1>13

\* The others keep their turns when a thread takes one, or gives its own back.
LEMMA LockTurns ==
    ASSUME TypesInv, TurnInv, NEW t \in Threads, \A u \in Threads \ {t} : Stays(u),
           Lock(t), inst[t] \notin closed
    PROVE  TurnInv'
<1>1. /\ pc[t] = "lock" /\ turn[inst[t]] = None /\ turn' = [turn EXCEPT ![inst[t]] = t]
      /\ pc' = [pc EXCEPT ![t] = "spawn"] /\ op' = op /\ inst' = inst /\ proc' = proc
      /\ UNCHANGED <<active, records, home, alive, status>>
    BY DEF Lock, Go, At, Set, processes
<1>2. inst[t] \in Insts /\ \A u \in Threads : Runs(u) => inst[u] \in Insts
    BY <1>1 DEF TypesInv, TypeOK, Ready, Runs
<1>3. \A u \in Threads : pc'[u] = IF u = t THEN "spawn" ELSE pc[u]
    BY <1>1 DEF TypesInv, TypeOK
<1>4. \A i \in Insts : turn'[i] = IF i = inst[t] THEN t ELSE turn[i]
    BY <1>1 DEF TypesInv, TypeOK
<1>5. \A u \in Threads : Runs(u)' => turn'[inst[u]] = u
    BY <1>1, <1>2, <1>3, <1>4, TerminalAssumption DEF TurnInv, Runs
<1>6. \A i \in Insts : active[i] # None => \E u \in Threads : pc'[u] = "wait" /\ inst[u] = i
    BY <1>1, <1>3 DEF TurnInv
<1>7. LiveIsKnown'
    BY <1>1, <1>3 DEF TurnInv, LiveIsKnown, Published
<1> QED BY <1>1, <1>3, <1>5, <1>6, <1>7 DEF TurnInv

LEMMA ReportTurns ==
    ASSUME TypesInv, TurnInv, NEW t \in Threads, \A u \in Threads \ {t} : Stays(u), Report(t)
    PROVE  TurnInv'
<1>1. /\ pc[t] = "report" /\ turn' = [turn EXCEPT ![inst[t]] = None] /\ Return(t)
      /\ UNCHANGED <<active, records, home, alive, status>>
    BY DEF Report, Go, Set
<1>2. inst[t] \in Insts /\ Runs(t) /\ \A u \in Threads : Runs(u) => inst[u] \in Insts
    BY <1>1 DEF TypesInv, TypeOK, Ready, Runs
<1>3. /\ \A u \in Threads : pc'[u] = IF u = t THEN "idle" ELSE pc[u]
      /\ \A u \in Threads \ {t} : inst'[u] = inst[u] /\ proc'[u] = proc[u] /\ op'[u] = op[u]
    BY <1>1 DEF Return, At, Set, Stays, TypesInv, TypeOK
<1>4. \A i \in Insts : turn'[i] = IF i = inst[t] THEN None ELSE turn[i]
    BY <1>1 DEF TypesInv, TypeOK
<1>5. \A u \in Threads : Runs(u)' => u # t /\ Runs(u)
    BY <1>3 DEF Runs
<1>6. \A u \in Threads : Runs(u)' => turn'[inst'[u]] = u
    BY <1>2, <1>3, <1>4, <1>5 DEF TurnInv
<1>7. \A u \in Threads : pc'[u] = "wait" => active[inst'[u]] = proc'[u]
    BY <1>3 DEF TurnInv
<1>8. \A i \in Insts : active[i] # None => \E u \in Threads : pc'[u] = "wait" /\ inst'[u] = i
    BY <1>1, <1>3 DEF TurnInv
<1>9. LiveIsKnown'
    BY <1>1, <1>3 DEF TurnInv, LiveIsKnown, Published
<1> QED BY <1>1, <1>6, <1>7, <1>8, <1>9 DEF TurnInv

\* A process is started ...
LEMMA SpawnTurns ==
    ASSUME TypesInv, OwnInv, TurnInv, NEW t \in Threads, Spawn(t)
    PROVE  TurnInv'
<1>1. PICK p \in Procs : /\ home[p] = None /\ home' = [home EXCEPT ![p] = inst[t]]
                         /\ alive' = alive \cup {p} /\ proc' = [proc EXCEPT ![t] = p]
    BY DEF Spawn, Set
<1>2. /\ pc[t] = "spawn" /\ pc' = [pc EXCEPT ![t] = "publish"]
      /\ UNCHANGED <<active, turn, records, status, op, inst>>
    BY DEF Spawn, At, Set, sessions
<1>3. \A u \in Threads : /\ pc'[u] = IF u = t THEN "publish" ELSE pc[u]
                         /\ proc'[u] = IF u = t THEN p ELSE proc[u]
    BY <1>1, <1>2 DEF TypesInv, TypeOK
<1>4. p \notin alive /\ \A q \in alive : home'[q] = home[q]
    BY <1>1 DEF OwnInv, TypesInv, TypeOK
<1>5. \A u \in Threads : Runs(u)' => Runs(u)
    BY <1>2, <1>3 DEF Runs
<1>6. \A i \in Insts : active[i] # None => \E u \in Threads : pc'[u] = "wait" /\ inst[u] = i
    BY <1>2, <1>3 DEF TurnInv
<1>7. LiveIsKnown'
    <2>1. ASSUME NEW q \in alive
          PROVE  Published(q, home[q])' \/ \E u \in Threads : pc'[u] = "publish" /\ proc'[u] = q
        <3>1. CASE Published(q, home[q])
            BY <1>2, <1>4, <3>1 DEF Published
        <3>2. CASE \E u \in Threads : pc[u] = "publish" /\ proc[u] = q
            BY <1>2, <1>3, <3>2
        <3> QED BY <3>1, <3>2 DEF TurnInv, LiveIsKnown
    <2>2. pc'[t] = "publish" /\ proc'[t] = p
        BY <1>3
    <2> QED BY <1>1, <2>1, <2>2 DEF LiveIsKnown
<1> QED BY <1>2, <1>3, <1>5, <1>6, <1>7 DEF TurnInv

\* ... registered in the background ...
LEMMA RegisterTurns ==
    ASSUME TypesInv, OwnInv, TurnInv, NEW t \in Threads, Publish(t), op[t] # "exec"
    PROVE  TurnInv'
<1> DEFINE p == proc[t]
           i == inst[t]
<1>1. /\ p \in Procs /\ i \in Insts /\ Has(t) /\ Return(t)
      /\ records' = [records EXCEPT ![i] = records[i] \cup {p}]
      /\ status' = [status EXCEPT ![p] = "running"]
      /\ UNCHANGED <<home, alive, active, turn>>
    BY DEF Publish, Go, Set, TypesInv, TypeOK, Ready, Has
<1>2. home[p] = i /\ pc[t] = "publish"
    BY <1>1 DEF OwnInv, Publish
<1>3. /\ \A u \in Threads : pc'[u] = IF u = t THEN "idle" ELSE pc[u]
      /\ \A u \in Threads \ {t} : inst'[u] = inst[u] /\ proc'[u] = proc[u] /\ op'[u] = op[u]
    BY <1>1 DEF Return, At, Set, TypesInv, TypeOK
<1>4. \A q \in Procs : status'[q] = IF q = p THEN "running" ELSE status[q]
    BY <1>1 DEF TypesInv, TypeOK
<1>5. \A j \in Insts : records'[j] = IF j = i THEN records[i] \cup {p} ELSE records[j]
    BY <1>1 DEF TypesInv, TypeOK
<1> HIDE DEF p, i
<1>6. \A u \in Threads : Runs(u)' => u # t /\ Runs(u)
    BY <1>3 DEF Runs
<1>7. \A j \in Insts : active[j] # None => \E u \in Threads : pc'[u] = "wait" /\ inst'[u] = j
    BY <1>2, <1>3 DEF TurnInv
<1>8. \A q \in alive : home[q] \in Insts /\ q \in Procs
    BY DEF OwnInv, TypesInv, TypeOK
<1>9. p \in records'[i] /\ status'[p] = "running"
    BY <1>1, <1>4, <1>5
<1>10. ASSUME NEW q \in alive, q # p
       PROVE  Published(q, home[q])' \/ \E u \in Threads : pc'[u] = "publish" /\ proc'[u] = q
    <2>1. CASE Published(q, home[q])
        BY <1>1, <1>4, <1>5, <1>8, <1>10, <2>1 DEF Published
    <2>2. CASE \E u \in Threads : pc[u] = "publish" /\ proc[u] = q
        BY <1>3, <1>10, <2>2 DEF p
    <2> QED BY <2>1, <2>2 DEF TurnInv, LiveIsKnown
<1>11. LiveIsKnown'
    BY <1>1, <1>2, <1>9, <1>10 DEF LiveIsKnown, Published
<1>12. \A u \in Threads : Runs(u)' => turn[inst'[u]] = u
    BY <1>3, <1>6 DEF TurnInv
<1>13. \A u \in Threads : pc'[u] = "wait" => active[inst'[u]] = proc'[u]
    BY <1>3 DEF TurnInv
<1> QED BY <1>1, <1>7, <1>11, <1>12, <1>13 DEF TurnInv

\* ... or in the foreground, where no other command of the session runs ...
LEMMA ForegroundTurns ==
    ASSUME TypesInv, OwnInv, TurnInv, NEW t \in Threads, Publish(t), op[t] = "exec"
    PROVE  TurnInv'
<1> DEFINE p == proc[t]
           i == inst[t]
<1>1. /\ p \in Procs /\ i \in Insts /\ pc[t] = "publish"
      /\ active' = [active EXCEPT ![i] = p] /\ pc' = [pc EXCEPT ![t] = "wait"]
      /\ UNCHANGED <<home, alive, records, status, turn, op, inst, proc>>
    BY DEF Publish, Go, At, Set, TypesInv, TypeOK
<1>2. Has(t) /\ Runs(t) /\ home[p] = i /\ turn[i] = t
    BY <1>1 DEF OwnInv, TurnInv, Has, Runs
<1>3. \A u \in Threads : pc'[u] = IF u = t THEN "wait" ELSE pc[u]
    BY <1>1 DEF TypesInv, TypeOK
<1>4. \A j \in Insts : active'[j] = IF j = i THEN p ELSE active[j]
    BY <1>1 DEF TypesInv, TypeOK
<1>5. \A u \in Threads : pc[u] = "wait" => u # t /\ inst[u] \in Insts /\ inst[u] # i
    <2>1. \A u \in Threads : pc[u] = "wait" => Runs(u) /\ inst[u] \in Insts
        BY DEF TypesInv, TypeOK, Ready, Runs
    <2> QED BY <1>1, <1>2, <2>1 DEF TurnInv
<1>6. active[i] = None
    BY <1>1, <1>5 DEF TurnInv
<1>7. \A q \in alive : home[q] \in Insts /\ q \in Procs /\ q # None
    BY TerminalAssumption DEF OwnInv, TypesInv, TypeOK
<1>8. pc'[t] = "wait" /\ active'[i] = p /\ t \in Threads
    BY <1>1, <1>3, <1>4
<1>9. \A u \in Threads : Runs(u)' => turn[inst[u]] = u
    <2>1. \A u \in Threads : Runs(u)' => Runs(u)
        BY <1>1, <1>3 DEF Runs
    <2> QED BY <2>1 DEF TurnInv
<1>10. \A u \in Threads : pc'[u] = "wait" => active'[inst[u]] = proc[u]
    BY <1>1, <1>3, <1>4, <1>5 DEF TurnInv
<1>11. \A j \in Insts : active'[j] # None => \E u \in Threads : pc'[u] = "wait" /\ inst[u] = j
    BY <1>3, <1>4 DEF TurnInv
<1>12. \A u \in Threads : pc[u] = "publish" /\ proc[u] # p => u # t
    OBVIOUS
<1> HIDE DEF p, i
<1>13. ASSUME NEW q \in alive, q # p
       PROVE  Published(q, home[q])' \/ \E u \in Threads : pc'[u] = "publish" /\ proc[u] = q
    <2>1. CASE Published(q, home[q])
        BY <1>1, <1>4, <1>6, <1>7, <1>13, <2>1 DEF Published
    <2>2. CASE \E u \in Threads : pc[u] = "publish" /\ proc[u] = q
        BY <1>3, <1>12, <1>13, <2>2
    <2> QED BY <2>1, <2>2 DEF TurnInv, LiveIsKnown
<1>14. LiveIsKnown'
    BY <1>1, <1>2, <1>8, <1>13 DEF LiveIsKnown, Published
<1> QED BY <1>1, <1>9, <1>10, <1>11, <1>14 DEF TurnInv

\* ... until its thread has seen its end.
LEMMA LeftTurns ==
    ASSUME TypesInv, OwnInv, TurnInv, NEW t \in Threads, Ended(t) \/ TimeOut(t)
    PROVE  TurnInv'
<1> DEFINE p == proc[t]
           i == inst[t]
<1>1. /\ p \in Procs /\ i \in Insts /\ pc[t] = "wait" /\ active[i] = p
      /\ alive' \subseteq alive /\ p \notin alive'
      /\ active' = [active EXCEPT ![i] = None] /\ pc' = [pc EXCEPT ![t] = "report"]
      /\ UNCHANGED <<home, records, status, turn, op, inst, proc>>
    <2>1. pc[t] = "wait" /\ Left(t) /\ alive' \subseteq alive /\ p \notin alive'
        BY DEF Ended, TimeOut, Terminate
    <2>2. p \in Procs /\ i \in Insts /\ active[i] = p
        BY <2>1 DEF TypesInv, TypeOK, Ready, TurnInv
    <2> QED BY <2>1, <2>2 DEF Left, Go, At, Set
<1>2. \A u \in Threads : pc'[u] = IF u = t THEN "report" ELSE pc[u]
    BY <1>1 DEF TypesInv, TypeOK
<1>3. \A j \in Insts : active'[j] = IF j = i THEN None ELSE active[j]
    BY <1>1 DEF TypesInv, TypeOK
<1>4. \A u \in Threads : pc'[u] = "wait" => u # t /\ pc[u] = "wait" /\ inst[u] \in Insts /\ inst[u] # i
    <2>1. \A u \in Threads : pc[u] = "wait" => Runs(u) /\ inst[u] \in Insts
        BY DEF TypesInv, TypeOK, Ready, Runs
    <2> QED BY <1>1, <1>2, <2>1 DEF TurnInv
<1>5. \A q \in alive : home[q] \in Insts /\ q \in Procs
    BY DEF OwnInv, TypesInv, TypeOK
<1>6. \A u \in Threads : Runs(u)' => turn[inst[u]] = u
    <2>1. \A u \in Threads : Runs(u)' => Runs(u)
        BY <1>1, <1>2 DEF Runs, TypesInv, TypeOK, Ready
    <2> QED BY <2>1 DEF TurnInv
<1>7. \A u \in Threads : pc'[u] = "wait" => active'[inst[u]] = proc[u]
    BY <1>3, <1>4 DEF TurnInv
<1>8. \A j \in Insts : active'[j] # None => \E u \in Threads : pc'[u] = "wait" /\ inst[u] = j
    BY <1>2, <1>3 DEF TurnInv
<1> HIDE DEF p, i
<1>9. ASSUME NEW q \in alive'
      PROVE  Published(q, home[q])' \/ \E u \in Threads : pc'[u] = "publish" /\ proc[u] = q
    <2>1. CASE Published(q, home[q])
        BY <1>1, <1>3, <1>5, <1>9, <2>1 DEF Published
    <2>2. CASE \E u \in Threads : pc[u] = "publish" /\ proc[u] = q
        BY <1>1, <1>2, <2>2
    <2> QED BY <1>1, <1>9, <2>1, <2>2 DEF TurnInv, LiveIsKnown
<1>10. LiveIsKnown'
    BY <1>1, <1>9 DEF LiveIsKnown
<1> QED BY <1>1, <1>6, <1>7, <1>8, <1>10 DEF TurnInv

LEMMA TurnStep ==
    ASSUME TypesInv, OwnInv, TurnInv, [Next]_vars
    PROVE  TurnInv'
<1>1. ASSUME NEW t \in Threads, Begin(t) \/ Proceed(t) \/ TimeOut(t) PROVE TurnInv'
    <2>1. \A u \in Threads \ {t} : Stays(u)
        BY <1>1, OthersStay
    <2>2. ASSUME Calm(t) PROVE TurnInv'
        BY <2>1, <2>2, CalmTurns
    <2>3. CASE Lock(t) /\ inst[t] \notin closed
        BY <2>1, <2>3, LockTurns
    <2>4. CASE Report(t)
        BY <2>1, <2>4, ReportTurns
    <2>5. CASE Spawn(t) \/ Publish(t)
        BY <2>5, SpawnTurns, RegisterTurns, ForegroundTurns
    <2>6. CASE Ended(t) \/ TimeOut(t)
        BY <2>6, LeftTurns
    <2> QED BY <1>1, <2>2, <2>3, <2>4, <2>5, <2>6, CalmSteps DEF Proceed
<1>2. CASE (\E p \in Procs : Exit(p)) \/ (\E i \in Insts : Age(i)) \/ UNCHANGED vars
    <2>1. UNCHANGED <<home, status, records, active, turn, pc, op, inst, proc>> /\ alive' \subseteq alive
        BY <1>2 DEF Exit, Age, vars, sessions, processes, threads
    <2>2. LiveIsKnown'
        BY <2>1 DEF TurnInv, LiveIsKnown, Published
    <2> QED BY <2>1, <2>2 DEF TurnInv, Runs
<1> QED BY <1>1, <1>2 DEF Next

LEMMA TurnInvariant == Spec => []TurnInv
<1>1. Init => TurnInv
    BY DEF Init, InitAfter, TurnInv, Runs, LiveIsKnown
<1> QED BY <1>1, TypesInvariant, OwnInvariant, TurnStep, PTL DEF Spec

\* What runs can be reached: a live process is one its session knows, but for
\* the moment between its start and its registration, and a session in the table
\* is open and is taken out of it by one thread only.
THEOREM NothingIsLost == Spec => []SessionsAreSound
<1>1. TableInv /\ TurnInv => SessionsAreSound
    BY DEF TableInv, TurnInv, SessionsAreSound
<1> QED BY <1>1, TableInvariant, TurnInvariant, PTL

-------------------------------------------------------------------------------
(* The idle sweep.  A session that is unused has no process on its way into   *)
(* its records; so what the sweep found it still finds when it takes the      *)
(* session, unless a command has come in between.                             *)

Settled(i) == i \in closed \/ \A p \in records[i] : status[p] # "running" \/ p \notin alive
SweepInv ==
    /\ \A t \in Threads : op[t] = "start" /\ pc[t] \in {"spawn", "publish"} => inst[t] \notin idle
    /\ \A t \in Threads : pc[t] = "reap" /\ inst[t] \in idle => Settled(inst[t])

\* How a thread gets to a reap, and to a process it registers.
LEMMA Arrivals ==
    ASSUME TypesInv, NEW t \in Threads, Begin(t) \/ Proceed(t) \/ TimeOut(t)
    PROVE  /\ pc'[t] = "reap" => Check(t) /\ CanReap(inst[t])
           /\ pc'[t] = "spawn" => Lock(t) \/ Enter(t)
           /\ pc'[t] = "publish" => Spawn(t)
<1> USE DEF At, Set, Return
<1>0. \A v : [pc EXCEPT ![t] = v][t] = v
    BY DEF TypesInv, TypeOK
<1>1. ASSUME NEW i \in Insts, NEW o \in {"exec", "start", "status", "stop"}, Open(t, i, o)
      PROVE  pc'[t] \in {"enter", "refresh"}
    BY <1>0, <1>1, OpenTypes
<1>2. ASSUME NEW label, Go(t, label) PROVE pc'[t] = label
    BY <1>0, <1>2 DEF Go
<1>3. CASE Begin(t)
    <2>1. ASSUME NEW k \in Keys, NEW o \in {"exec", "start", "status", "stop"}, Get(t, k, o)
          PROVE  pc'[t] \in {"enter", "refresh"}
        BY <1>1, <2>1 DEF Get, TypesInv, TypeOK
    <2>2. ASSUME \/ \E k \in Keys, o \in Ops : Create(t, k, o)
                 \/ \E K \in SUBSET Keys : Close(t, K)
                 \/ Sweep(t)
          PROVE  pc'[t] \in {"close", "sweep"}
        BY <1>0, <2>2 DEF Create, Close, Sweep
    <2>3. Keys \in SUBSET Keys /\ \A k \in Keys : {k} \in SUBSET Keys
        OBVIOUS
    <2> QED BY <1>3, <2>1, <2>2, <2>3 DEF Begin, Ops
<1>4. CASE Closed(t)
    <2>1. CASE op[t] \in {"close", "sweep"}
        BY <1>2, <1>4, <2>1 DEF Closed
    <2>2. CASE op[t] \in {"exec", "start", "status", "stop"}
        BY <1>1, <1>4, <2>2 DEF Closed, TypesInv, TypeOK
    <2> QED BY <1>4, <2>1, <2>2 DEF Closed, TypesInv, TypeOK, Ready, Ops
<1>5. CASE Enter(t)
    BY <1>2, <1>5 DEF Enter
<1>6. CASE Lock(t)
    BY <1>2, <1>6 DEF Lock
<1>7. CASE Spawn(t)
    <2>1. pc' = [pc EXCEPT ![t] = "publish"]
        BY <1>7 DEF Spawn
    <2> QED BY <1>0, <1>7, <2>1
<1>8. CASE Publish(t)
    BY <1>2, <1>8 DEF Publish
<1>9. CASE Ended(t) \/ TimeOut(t) \/ Report(t) \/ Stop(t)
    BY <1>2, <1>9 DEF Ended, TimeOut, Left, Report, Stop
<1>10. CASE Refreshed(t)
    BY <1>2, <1>10 DEF Refreshed, TypesInv, Ready
<1>11. CASE SweepNext(t)
    BY <1>0, <1>11 DEF SweepNext
<1>12. CASE Check(t)
    BY <1>2, <1>12 DEF Check
<1>13. CASE Reap(t)
    BY <1>2, <1>13 DEF Reap
<1>14. CASE \E i \in Insts : CloseSession(t, i)
    BY <1>14 DEF CloseSession
<1>15. CASE \E p \in Procs : Kill(t, p) \/ ClaimExit(t, p)
    BY <1>15 DEF Kill, ClaimExit
<1> QED BY <1>3, <1>4, <1>5, <1>6, <1>7, <1>8, <1>9, <1>10, <1>11, <1>12, <1>13, <1>14, <1>15
        DEF Proceed

\* A session that is settled and unused stays settled while it is unused: a
\* process that starts is in no record, and one that is registered is in the
\* record of a session in use.
LEMMA SettledStays ==
    ASSUME TypesInv, OwnInv, SweepInv, NEW t \in Threads, Begin(t) \/ Proceed(t) \/ TimeOut(t)
    PROVE  /\ idle' \subseteq idle
           /\ \A i \in Insts : i \in idle /\ Settled(i) => Settled(i)'
<1>0. /\ status \in [Procs -> {"none", "running", "ended", "stopped"}]
      /\ \A i \in Insts : records[i] \subseteq Procs
    BY DEF TypesInv, TypeOK
<1>1. CASE Publish(t) /\ op[t] # "exec"
    <2>1. op[t] = "start" /\ inst[t] \in Insts /\ proc[t] \in Procs /\ pc[t] = "publish"
        BY <1>1 DEF Publish, TypesInv, TypeOK, Ready
    <2>2. /\ records' = [records EXCEPT ![inst[t]] = records[inst[t]] \cup {proc[t]}]
          /\ status' = [status EXCEPT ![proc[t]] = "running"]
          /\ UNCHANGED <<idle, closed, alive>>
        BY <1>1 DEF Publish, Set
    <2>3. inst[t] \notin idle /\ Has(t) /\ status[proc[t]] = "none"
        BY <2>1 DEF SweepInv, OwnInv, Has
    <2>4. \A i \in Insts : i \in idle => records'[i] = records[i] /\ proc[t] \notin records[i]
        BY <2>1, <2>2, <2>3 DEF TypesInv, TypeOK, OwnInv
    <2>5. \A p \in Procs : p # proc[t] => status'[p] = status[p]
        BY <2>2 DEF TypesInv, TypeOK
    <2> QED BY <1>0, <2>2, <2>4, <2>5 DEF Settled
<1>2. ASSUME idle' \subseteq idle, closed \subseteq closed', records' = records,
             \A p \in Procs : status'[p] = "running" => status[p] = "running",
             \A p \in alive' : p \in alive \/ home[p] = None
      PROVE  /\ idle' \subseteq idle
             /\ \A i \in Insts : i \in idle /\ Settled(i) => Settled(i)'
    <2>1. \A i \in Insts : \A p \in records[i] : home[p] # None
        BY TerminalAssumption DEF OwnInv
    <2> QED BY <1>0, <1>2, <2>1 DEF Settled
<1>3. CASE Begin(t)
    <2>1. UNCHANGED <<idle, closed, records, processes>>
        BY <1>3 DEF Begin, Get, Create, Close, Sweep, sessions
    <2> QED BY <1>2, <2>1 DEF processes
<1>4. CASE \/ Closed(t) \/ Enter(t) \/ Lock(t) \/ Refreshed(t) \/ SweepNext(t) \/ Check(t) \/ Reap(t)
           \/ \E i \in Insts : CloseSession(t, i)
    <2>1. /\ idle' \subseteq idle /\ closed \subseteq closed' /\ UNCHANGED <<records, processes>>
        BY <1>4 DEF Closed, Enter, Lock, Refreshed, SweepNext, Check, Reap, CloseSession, sessions
    <2> QED BY <1>2, <2>1 DEF processes
<1>5. CASE (\E p \in Procs : Kill(t, p)) \/ Report(t) \/ Ended(t) \/ TimeOut(t)
           \/ (Publish(t) /\ op[t] = "exec")
    <2>1. alive' \subseteq alive /\ UNCHANGED <<idle, closed, records, status>>
        BY <1>5 DEF Kill, Report, Ended, TimeOut, Left, Publish, Terminate, sessions
    <2> QED BY <1>2, <2>1
<1>6. CASE Spawn(t)
    <2>1. UNCHANGED <<idle, closed, records, status>> /\ \A p \in alive' : p \in alive \/ home[p] = None
        BY <1>6 DEF Spawn, sessions
    <2> QED BY <1>2, <2>1
<1>7. CASE Stop(t) \/ \E p \in Procs : ClaimExit(t, p)
    <2>1. alive' \subseteq alive /\ UNCHANGED <<idle, closed, records>>
        BY <1>7 DEF Stop, ClaimExit, Terminate, sessions
    <2>2. \A p \in Procs : status'[p] = "running" => status[p] = "running"
        BY <1>0, <1>7 DEF Stop, ClaimExit, Polled, Set
    <2> QED BY <1>2, <2>1, <2>2
<1> QED BY <1>1, <1>3, <1>4, <1>5, <1>6, <1>7 DEF Proceed

LEMMA SweepStep ==
    ASSUME TypesInv, TypesInv', OwnInv, SweepInv, [Next]_vars
    PROVE  SweepInv'
<1>1. ASSUME NEW t \in Threads, Begin(t) \/ Proceed(t) \/ TimeOut(t) PROVE SweepInv'
    <2>1. \A u \in Threads \ {t} : Stays(u)
        BY <1>1, OthersStay
    <2>2. idle' \subseteq idle /\ \A i \in Insts : i \in idle /\ Settled(i) => Settled(i)'
        BY <1>1, SettledStays
    <2>3. op'[t] = "start" /\ pc'[t] \in {"spawn", "publish"} => inst'[t] \notin idle'
        <3>1. CASE Enter(t)
            BY <3>1 DEF Enter, Go, Return, At, Set, TypesInv, TypeOK
        <3>2. CASE Lock(t)
            BY <3>2 DEF Lock, Go, Return, At, Set, TypesInv, TypeOK, Ready
        <3>3. CASE Spawn(t)
            BY <2>2, <3>3 DEF Spawn, SweepInv
        <3> QED BY <1>1, <3>1, <3>2, <3>3, Arrivals
    <2>4. pc'[t] = "reap" => inst'[t] \in Insts /\ Settled(inst[t])'
        <3>1. ASSUME Check(t), CanReap(inst[t]), pc'[t] = "reap" PROVE Settled(inst[t])'
            <4>1. UNCHANGED <<inst, closed, records, status, alive>>
                BY <3>1 DEF Check, Go, At, Set, Return, sessions, processes, TypesInv, TypeOK
            <4> QED BY <3>1, <4>1 DEF CanReap, Settled
        <3> QED BY <1>1, <3>1, Arrivals DEF TypesInv, Ready
    <2>5. \A u \in Threads \ {t} : pc[u] = "reap" => inst[u] \in Insts
        BY DEF TypesInv, Ready
    <2>6. \A u \in Threads : op'[u] = "start" /\ pc'[u] \in {"spawn", "publish"} => inst'[u] \notin idle'
        BY <2>1, <2>2, <2>3 DEF SweepInv, Stays
    <2>7. ASSUME NEW u \in Threads, pc'[u] = "reap", inst'[u] \in idle' PROVE Settled(inst[u])'
        <3>1. CASE u # t
            <4>1. inst'[u] = inst[u] /\ inst[u] \in Insts /\ inst[u] \in idle /\ Settled(inst[u])
                BY <2>1, <2>2, <2>5, <2>7, <3>1 DEF SweepInv, Stays
            <4> QED BY <2>2, <4>1 DEF Settled
        <3> QED BY <2>4, <2>7, <3>1
    <2> QED BY <2>6, <2>7 DEF SweepInv
<1>2. CASE \E i \in Insts : Age(i)
    BY <1>2 DEF Age, SweepInv, threads
<1>3. CASE (\E p \in Procs : Exit(p)) \/ UNCHANGED vars
    <2>1. UNCHANGED <<idle, closed, records, status, pc, op, inst>> /\ alive' \subseteq alive
        BY <1>3 DEF Exit, vars, sessions, processes, threads
    <2> QED BY <2>1 DEF SweepInv, Settled
<1> QED BY <1>1, <1>2, <1>3 DEF Next

LEMMA SweepInvariant == Spec => []SweepInv
<1>1. Init => SweepInv
    BY DEF Init, InitAfter, SweepInv
<1> QED BY <1>1, TypesInvariant, OwnInvariant, SweepStep, PTL DEF Spec

\* The sweep takes no session with a live background process: none that it had
\* found, and none that was registered after it had looked.
THEOREM SweepSpares == Spec => SweepSparesServers
<1> DEFINE Spared(t) == \A p \in alive : home[p] = inst[t] => active[inst[t]] = p \/ status[p] = "none"
<1>1. ASSUME TypesInv, TableInv, OwnInv, TurnInv, SweepInv, [Next]_vars
      PROVE  [\A t \in Threads : pc[t] = "reap" /\ pc'[t] = "close" => Spared(t)]_vars
    <2>1. ASSUME NEW t \in Threads, pc[t] = "reap", inst[t] \in Held, inst[t] \in idle PROVE Spared(t)
        <3>1. inst[t] \notin closed /\ Settled(inst[t])
            BY <1>1, <2>1 DEF SweepInv, TableInv, TableIsOpen
        <3>2. ASSUME NEW p \in alive, home[p] = inst[t], active[inst[t]] # p PROVE status[p] = "none"
            <4>1. ~Published(p, home[p])
                BY <3>1, <3>2 DEF Settled, Published
            <4>2. \E u \in Threads : pc[u] = "publish" /\ proc[u] = p
                BY <1>1, <4>1 DEF TurnInv, LiveIsKnown
            <4> QED BY <1>1, <4>2 DEF OwnInv, Has
        <3> QED BY <3>2
    <2>2. ASSUME NEW t \in Threads, NEW u \in Threads, Begin(u) \/ Proceed(u) \/ TimeOut(u),
                 pc[t] = "reap", pc'[t] = "close"
          PROVE  inst[t] \in Held /\ inst[t] \in idle
        <3>1. u = t
            BY <1>1, <2>2, OthersStay DEF Stays
        <3>2. Reap(t)
            BY <2>2, <3>1 DEF Begin, Proceed, Get, Create, Close, Sweep, CloseSession, Kill, ClaimExit,
                  Closed, Enter, Lock, Spawn, Publish, Ended, TimeOut, Report, Refreshed, Stop, SweepNext, Check
        <3> QED BY <1>1, <2>2, <3>2 DEF Reap, Go, At, Set, Return, TypesInv, TypeOK
    <2>3. ASSUME (\E p \in Procs : Exit(p)) \/ (\E i \in Insts : Age(i)) PROVE pc' = pc
        BY <2>3 DEF Exit, Age, threads
    <2> QED BY <1>1, <2>1, <2>2, <2>3 DEF Next
<1> QED BY <1>1, TypesInvariant, TableInvariant, OwnInvariant, TurnInvariant, SweepInvariant, PTL
        DEF Spec, SweepSparesServers
===============================================================================
