-------------------------- MODULE AgentRuntime_proof --------------------------
(***************************************************************************)
(* Proofs about AgentRuntime, for any number of threads, sessions,         *)
(* terminals, commands and restarts: its types, that a terminal's number   *)
(* is its own, that its status is decided once, that "running" is of this  *)
(* process, and that what is answered of a command is what became of it.   *)
(***************************************************************************)
EXTENDS AgentRuntime, TLAPS, WellFoundedInduction, SequenceTheorems, FiniteSetTheorems

-------------------------------------------------------------------------------
(* Numbers, sets and sequences.                                              *)

\* A nonempty set of numbers has a smallest one, and Min is it.
LEMMA Smallest ==
    ASSUME NEW S \in SUBSET Nat, S # {}
    PROVE  Min(S) \in S /\ \A j \in S : Min(S) <= j
<1> DEFINE R == OpToRel(<, Nat)
<1>1. IsWellFoundedOn(R, Nat)
  BY NatLessThanWellFounded
<1>2. R = {pair \in Nat \X Nat : pair[1] < pair[2]}
  BY DEF OpToRel
<1> HIDE DEF R
<1>3. PICK m \in S : \A j \in S : ~(<<j, m>> \in R)
  BY <1>1, WFMin
<1>4. \A j \in S : ~(j < m)
  BY <1>2, <1>3
<1>5. \A j \in S : m <= j
  BY <1>4
<1> QED
  BY <1>5 DEF Min

\* Sessions hold terminals, of which there are finitely many: they can be listed.
LEMMA Listed ==
    ASSUME NEW n \in Nat, NEW S \in SUBSET (1..n)
    PROVE  SetToSeq(S) \in Seq(1..n)
<1>1. IsFiniteSet(1..n)
  BY FS_Interval
<1>2. IsFiniteSet(S)
  BY <1>1, FS_Subset
<1>3. PICK m \in Nat : ExistsBijection(1..m, S)
  BY <1>2, FS_NatBijection
<1>4. Cardinality(S) = m
  BY <1>3, FS_CountingElements
<1>5. PICK f : f \in Bijection(1..m, S)
  BY <1>3 DEF ExistsBijection
<1>6. f \in [1..m -> S] /\ IsInjective(f)
  BY <1>5 DEF Bijection, Injection, IsInjective
<1>7. SetToSeq(S) \in [1..m -> S]
  BY <1>4, <1>6 DEF SetToSeq
<1>8. SetToSeq(S) \in [1..m -> 1..n]
  BY <1>7
<1> QED
  BY <1>8

-------------------------------------------------------------------------------
(* Types, and what a thread has in hand where it is.                         *)

HostRec == [backend : {"proot", "wsl2"}, missing : SUBSET (Checks("proot") \cup Checks("wsl2"))]
RuntimeRec == [state : States, disk : States \cup {None}]
ShellRec ==
    [status : {"created", "running", "exited", "stopped"},
     key : Sessions \cup {None},
     fd : Handles \cup {None}, own : Handles \cup {None}, closed : BOOLEAN,
     lives : BOOLEAN, bridge : {"loop", "hangup", "gone", None},
     killed : BOOLEAN, reader : {"on", "done"}, reaper : {"on", "done"},
     typed : Seq(Commands), busy : Commands \cup {None},
     out : Seq(Chunk), seen : Seq(Chunk)]
CommandRec == [truth : {"new", "typed", "lost", "running"} \cup Codes,
               answer : {None, "completed", "failed", "timeout", "running"}]
GuestRec == [has : SUBSET {"apt", "pip", "package"}, caps : (SUBSET {"apt", "pip"}) \cup {None},
             told : {None, "installed", "failed"}]
ThreadRec ==
    [pc : Labels, kind : Kinds \cup {None}, key : Sessions \cup {None},
     shell : Shells \cup {None}, close : Seq(Shells), command : Commands \cup {None},
     fd : Handles \cup {None}, from : Nat, seen : {"no", "half"}]
PastRec == [requests : Nat, restarts : Nat, started : BOOLEAN, strayed : BOOLEAN]

\* What a thread has in hand where it is.
Closers == {"stop", "close_all", "restart", "reset", "destroy"}
Fits(r) ==
    /\ r.pc \in {"look", "spawn", "register", "pop"} => r.key \in Sessions
    /\ r.pc \in {"register", "type", "send", "poll", "judge"} => r.shell \in Shells
    /\ r.pc \in {"send", "poll", "judge"} => r.command \in Commands
    /\ r.pc = "pop_all" => r.kind \in Closers
    /\ r.pc = "pop" => r.kind = "close"
    /\ r.pc \in {"shut", "grace", "down", "release"} => r.kind \in Closers \cup {"close"}
    /\ r.pc \in {"grace", "down", "release"} => r.close # << >>
    /\ r.pc = "stopped" => r.kind \in Closers \ {"close_all"}

ThreadsOK == thread \in [Threads -> ThreadRec] /\ \A t \in Threads : Fits(thread[t])
TablesOK ==
    /\ host \in HostRec /\ runtime \in RuntimeRec /\ guest \in GuestRec /\ past \in PastRec
    /\ sessions \in [Sessions -> Shells \cup {None}]
    /\ command \in [Commands -> CommandRec]
TerminalsOK == shell \in [Shells -> ShellRec] /\ open \in [Handles -> Shells \cup {None}]

LEMMA TypeParts == TablesOK /\ TerminalsOK /\ ThreadsOK => TypeOK
  BY DEF TypeOK, TablesOK, TerminalsOK, ThreadsOK, HostRec, RuntimeRec, ShellRec, CommandRec,
         GuestRec, ThreadRec, PastRec

LEMMA Numbers ==
    /\ MaxShells \in Nat /\ MaxCommands \in Nat /\ None \notin Nat
    /\ Shells \subseteq Nat /\ Commands \subseteq Nat /\ Handles \subseteq Nat
    /\ Posix \subseteq Handles /\ None \notin Sessions /\ None \notin Kinds
    /\ \A p \in Shells : Pipe(p) \in Handles /\ Pipe(p) \notin Posix
    /\ \A p, q \in Shells : Pipe(p) = Pipe(q) => p = q
  BY RuntimeAssumption DEF Shells, Commands, Handles, Posix, Pipe

LEMMA IdleFits == Idle \in ThreadRec /\ Fits(Idle) /\ Idle.pc = "idle"
<1>1. << >> \in Seq(Shells)
  OBVIOUS
<1>2. Idle \in ThreadRec
  BY <1>1 DEF Idle, ThreadRec, Labels
<1>3. Idle.pc = "idle"
  BY DEF Idle
<1> QED
  BY <1>2, <1>3 DEF Fits

\* Only one thread moves, and it does not come to send anything.
Quits(t) == thread'[t].pc # "send" /\ \A u \in Threads \ {t} : thread'[u] = thread[u]

\* A thread that gets a record that fits leaves the threads as they must be.
LEMMA ThreadSet ==
    ASSUME ThreadsOK, NEW t \in Threads, NEW r \in ThreadRec, Fits(r),
           thread' = [thread EXCEPT ![t] = r]
    PROVE  ThreadsOK' /\ (r.pc # "send" => Quits(t))
<1>1. \A u \in Threads : thread'[u] = IF u = t THEN r ELSE thread[u]
  BY DEF ThreadsOK
<1> QED
  BY <1>1 DEF ThreadsOK, Quits

LEMMA DoneFits ==
    ASSUME ThreadsOK, NEW t \in Threads, Done(t) PROVE ThreadsOK' /\ Quits(t)
  BY IdleFits, ThreadSet DEF Done

\* Moving a thread changes its label alone.
LEMMA Relabelled ==
    ASSUME NEW r \in ThreadRec, NEW l \in Labels
    PROVE  LET n == [r EXCEPT !.pc = l] IN
           /\ n \in ThreadRec /\ n.pc = l /\ n.kind = r.kind /\ n.key = r.key
           /\ n.shell = r.shell /\ n.close = r.close /\ n.command = r.command
           /\ n.fd = r.fd /\ n.from = r.from /\ n.seen = r.seen
<1> DEFINE n == [r EXCEPT !.pc = l]
<1>1. n \in ThreadRec
  BY Zenon DEF ThreadRec
<1>2. n.pc = l
  BY Zenon DEF ThreadRec
<1>3. n.kind = r.kind /\ n.key = r.key /\ n.shell = r.shell
  BY Zenon DEF ThreadRec
<1>4. n.close = r.close /\ n.command = r.command /\ n.fd = r.fd
  BY Zenon DEF ThreadRec
<1>5. n.from = r.from /\ n.seen = r.seen
  BY Zenon DEF ThreadRec
<1> QED
  BY <1>1, <1>2, <1>3, <1>4, <1>5, Zenon

LEMMA GoFits ==
    ASSUME ThreadsOK, NEW t \in Threads, NEW l \in Labels, Go(t, l), l # "send",
           l \in {"look", "spawn", "register", "pop"} => thread[t].key \in Sessions,
           l \in {"register", "type", "poll", "judge"} => thread[t].shell \in Shells,
           l \in {"poll", "judge"} => thread[t].command \in Commands,
           l = "pop_all" => thread[t].kind \in Closers,
           l = "pop" => thread[t].kind = "close",
           l \in {"shut", "grace", "down", "release"} => thread[t].kind \in Closers \cup {"close"},
           l \in {"grace", "down", "release"} => thread[t].close # << >>,
           l = "stopped" => thread[t].kind \in Closers \ {"close_all"}
    PROVE  ThreadsOK' /\ Quits(t)
<1> DEFINE r == thread[t]
           n == [r EXCEPT !.pc = l]
<1>1. r \in ThreadRec /\ thread' = [thread EXCEPT ![t] = n]
  BY DEF ThreadsOK, Go
<1>2. /\ n \in ThreadRec /\ n.pc = l /\ n.kind = r.kind /\ n.key = r.key
      /\ n.shell = r.shell /\ n.close = r.close /\ n.command = r.command
  BY <1>1, Relabelled, Zenon
<1> HIDE DEF n
<1>3. Fits(n)
  BY <1>2 DEF Fits
<1> QED
  BY <1>1, <1>2, <1>3, ThreadSet

\* A request is accepted with what its first step needs.
LEMMA AcceptFits ==
    ASSUME ThreadsOK, NEW t \in Threads, Accept(t) PROVE ThreadsOK' /\ Quits(t)
<1>1. PICK kind \in Requests, key \in Sessions :
        thread' = [thread EXCEPT ![t] =
          [Idle EXCEPT !.kind = kind, !.key = key,
             !.pc = CASE kind \in {"open", "exec"} -> "look"
                      [] kind = "close" -> "pop"
                      [] kind \in {"stop", "close_all", "restart", "reset", "destroy"} -> "pop_all"
                      [] kind = "start" -> "begin"
                      [] kind = "create" -> "remake"
                      [] kind = "install" -> "detect"]]
  BY DEF Accept
<1> DEFINE l == CASE kind \in {"open", "exec"} -> "look"
                  [] kind = "close" -> "pop"
                  [] kind \in {"stop", "close_all", "restart", "reset", "destroy"} -> "pop_all"
                  [] kind = "start" -> "begin"
                  [] kind = "create" -> "remake"
                  [] kind = "install" -> "detect"
           r == [Idle EXCEPT !.kind = kind, !.key = key, !.pc = l]
<1>2. kind \in Kinds
  BY RuntimeAssumption
<1>3. /\ l \in Labels /\ l \notin {"register", "type", "send", "poll", "judge", "shut", "grace",
                                    "down", "release", "stopped", "spawn"}
      /\ (l = "pop_all" => kind \in Closers) /\ (l = "pop" => kind = "close")
  BY <1>2 DEF Kinds, Closers, Labels
<1>4. thread' = [thread EXCEPT ![t] = r]
  BY <1>1
<1> HIDE DEF l
<1>5. r \in ThreadRec /\ r.pc = l /\ r.kind = kind /\ r.key = key
  BY <1>2, <1>3, IdleFits, Zenon DEF ThreadRec
<1> HIDE DEF r
<1>6. Fits(r)
  BY <1>3, <1>5 DEF Fits
<1> QED
  BY <1>3, <1>4, <1>5, <1>6, ThreadSet

LEMMA HaveFits ==
    ASSUME ThreadsOK, NEW t \in Threads, NEW p \in Shells, Have(t, p)
    PROVE  ThreadsOK' /\ Quits(t)
<1> DEFINE r == [thread[t] EXCEPT !.pc = "type", !.shell = p]
<1>1. thread[t] \in ThreadRec /\ "type" \in Labels
  BY DEF ThreadsOK, Labels
<1>2. thread' = [thread EXCEPT ![t] = Idle] \/ thread' = [thread EXCEPT ![t] = r]
  BY DEF Have
<1>3. r \in ThreadRec /\ r.pc = "type" /\ r.shell = p
  BY <1>1, Zenon DEF ThreadRec
<1> HIDE DEF r
<1>4. Fits(r)
  BY <1>3 DEF Fits
<1> QED
  BY <1>2, <1>3, <1>4, IdleFits, ThreadSet

\* Looking up, making and registering a terminal.
LEMMA OpenFits ==
    ASSUME TablesOK, ThreadsOK, NEW t \in Threads, Look(t) \/ Spawn(t) \/ Register(t)
    PROVE  ThreadsOK' /\ Quits(t)
<1>1. thread[t] \in ThreadRec /\ Fits(thread[t])
  BY DEF ThreadsOK
<1>2. CASE Look(t)
  <2>1. thread[t].key \in Sessions
    BY <1>1, <1>2 DEF Look, At, Fits
  <2>2. sessions[thread[t].key] \in Shells \cup {None}
    BY <2>1 DEF TablesOK
  <2>3. Done(t) \/ Go(t, "spawn") \/ \E p \in Shells : Have(t, p)
    BY <1>2, <2>2 DEF Look
  <2> QED
    BY <2>1, <2>3, DoneFits, GoFits, HaveFits DEF Labels
<1>3. CASE Spawn(t)
  <2> DEFINE p == Cardinality(Made) + 1
             r == [thread[t] EXCEPT !.pc = "register", !.shell = p]
  <2>1. CASE Done(t)
    BY <2>1, DoneFits
  <2>2. CASE p <= MaxShells /\ thread' = [thread EXCEPT ![t].pc = "register", ![t].shell = p]
    <3>1. p \in Shells
      <4>1. IsFiniteSet(1..MaxShells)
        BY Numbers, FS_Interval
      <4>2. Cardinality(Made) \in Nat
        BY <4>1, FS_Subset, FS_CardinalityType DEF Made, Shells
      <4> QED
        BY <2>2, <4>2, Numbers DEF Shells
    <3>2. thread[t].key \in Sessions
      BY <1>1, <1>3 DEF Spawn, At, Fits
    <3>3. thread' = [thread EXCEPT ![t] = r]
      BY <2>2
    <3> HIDE DEF p
    <3>4. r \in ThreadRec /\ r.pc = "register" /\ r.shell = p /\ r.key = thread[t].key
      BY <1>1, <3>1, ZenonT(60) DEF ThreadRec, Labels
    <3> HIDE DEF r
    <3>5. Fits(r)
      BY <3>1, <3>2, <3>4 DEF Fits
    <3> QED
      BY <3>3, <3>4, <3>5, ThreadSet
  <2> QED
    BY <1>3, <2>1, <2>2 DEF Spawn
<1>4. CASE Register(t)
  BY <1>1, <1>4, HaveFits DEF Register, At, Fits
<1> QED
  BY <1>2, <1>3, <1>4

\* What the poll has seen is nothing, a marker without its digits, or the code.
LEMMA FoundType ==
    ASSUME NEW seen, NEW c, NEW from
    PROVE  Found(seen, c, from) \in {"no", "half"} \cup Codes
  BY DEF Found

LEMMA AnswerFits ==
    ASSUME ThreadsOK, NEW t \in Threads, NEW a, Answer(t, a) PROVE ThreadsOK' /\ Quits(t)
  BY DoneFits DEF Answer

\* Typing takes the first command that is new.
LEMMA TypeFits ==
    ASSUME TerminalsOK, ThreadsOK, NEW t \in Threads, Type(t)
    PROVE  /\ ThreadsOK'
           /\ \A u \in Threads \ {t} : thread'[u] = thread[u]
           /\ \E c \in Commands :
                /\ thread'[t].pc = "send" /\ thread'[t].command = c
                /\ command[c].truth = "new" /\ command' = [command EXCEPT ![c].truth = "typed"]
<1> DEFINE left == {n \in Commands : command[n].truth = "new"}
           c == Min(left)
           p == thread[t].shell
           f == shell[p].fd
           from == Len(shell[p].seen)
           r == [thread[t] EXCEPT !.pc = "send", !.command = c, !.fd = f, !.from = from]
<1>0. thread[t] \in ThreadRec /\ Fits(thread[t])
  BY DEF ThreadsOK
<1>1. /\ c \in Commands /\ command[c].truth = "new"
      /\ command' = [command EXCEPT ![c].truth = "typed"]
  BY Smallest, Numbers DEF Type
<1>2. p \in Shells
  BY <1>0 DEF Type, At, Fits
<1>3. shell[p] \in ShellRec
  BY <1>2 DEF TerminalsOK
<1>4. f \in Handles \cup {None}
  BY <1>3, Zenon DEF ShellRec
<1>5. shell[p].seen \in Seq(Chunk)
  BY <1>3, Zenon DEF ShellRec
<1>6. from \in Nat
  BY <1>5
<1>7. thread' = [thread EXCEPT ![t] = r]
  BY DEF Type
<1> HIDE DEF left, c, f, from, p
<1>8. r \in ThreadRec /\ r.pc = "send" /\ r.shell = p /\ r.command = c
  BY <1>0, <1>1, <1>4, <1>6, ZenonT(60) DEF ThreadRec, Labels, p
<1> HIDE DEF r
<1>9. Fits(r)
  BY <1>1, <1>2, <1>8 DEF Fits
<1>10. ThreadsOK'
  BY <1>7, <1>8, <1>9, ThreadSet
<1>11. thread'[t] = r /\ \A u \in Threads \ {t} : thread'[u] = thread[u]
  BY <1>7 DEF ThreadsOK
<1> QED
  BY <1>1, <1>8, <1>10, <1>11

\* Waiting for the marker of what was typed.
LEMMA ExecFits ==
    ASSUME TerminalsOK, ThreadsOK, NEW t \in Threads, Send(t) \/ Poll(t) \/ Judge(t)
    PROVE  ThreadsOK' /\ Quits(t)
<1>1. thread[t] \in ThreadRec /\ Fits(thread[t])
  BY DEF ThreadsOK
<1>3. CASE Send(t)
  BY <1>1, <1>3, GoFits DEF Send, At, Fits, Labels
<1>4. CASE Poll(t)
  <2> DEFINE s == Found(shell[thread[t].shell].seen, thread[t].command, thread[t].from)
             r == [thread[t] EXCEPT !.pc = "judge", !.seen = s]
  <2>1. CASE s \in Codes
    BY <1>4, <2>1, AnswerFits DEF Poll
  <2>2. CASE s \notin Codes
    <3>1. s \in {"no", "half"}
      BY <2>2, FoundType
    <3>2. thread' = [thread EXCEPT ![t] = r]
      BY <1>4, <2>2 DEF Poll
    <3>3. thread[t].shell \in Shells /\ thread[t].command \in Commands
      BY <1>1, <1>4 DEF Poll, At, Fits
    <3> HIDE DEF s
    <3>4. /\ r \in ThreadRec /\ r.pc = "judge" /\ r.shell = thread[t].shell
          /\ r.command = thread[t].command
      BY <1>1, <3>1, ZenonT(60) DEF ThreadRec, Labels
    <3> HIDE DEF r
    <3>5. Fits(r)
      BY <3>3, <3>4 DEF Fits
    <3> QED
      BY <3>2, <3>4, <3>5, ThreadSet
  <2> QED
    BY <2>1, <2>2
<1>5. CASE Judge(t)
  <2>1. Go(t, "poll") \/ \E a \in {"timeout", "running"} : Answer(t, a)
    BY <1>5 DEF Judge
  <2>2. thread[t].shell \in Shells /\ thread[t].command \in Commands
    BY <1>1, <1>5 DEF Judge, At, Fits
  <2> QED
    BY <2>1, <2>2, GoFits, AnswerFits DEF Labels
<1> QED
  BY <1>3, <1>4, <1>5

\* A thread that has something to close goes on with the list.
LEMMA ListFits ==
    ASSUME ThreadsOK, NEW t \in Threads, NEW s \in Seq(Shells),
           thread[t].kind \in Closers \cup {"close"},
           thread' = [thread EXCEPT ![t].pc = "shut", ![t].close = s]
    PROVE  ThreadsOK' /\ Quits(t)
<1> DEFINE r == [thread[t] EXCEPT !.pc = "shut", !.close = s]
<1>1. thread[t] \in ThreadRec
  BY DEF ThreadsOK
<1>2. thread' = [thread EXCEPT ![t] = r]
  OBVIOUS
<1>3. r \in ThreadRec /\ r.pc = "shut" /\ r.kind = thread[t].kind
  BY <1>1, ZenonT(60) DEF ThreadRec, Labels
<1> HIDE DEF r
<1>4. Fits(r)
  BY <1>3 DEF Fits
<1> QED
  BY <1>2, <1>3, <1>4, ThreadSet

\* close_terminal(), close_all() and the end of a terminal.
LEMMA CloseFits ==
    ASSUME TablesOK, ThreadsOK, NEW t \in Threads,
           Pop(t) \/ PopAll(t) \/ Shut(t) \/ Grace(t) \/ Down(t) \/ Release(t)
    PROVE  ThreadsOK' /\ Quits(t)
<1>1. thread[t] \in ThreadRec /\ Fits(thread[t])
  BY DEF ThreadsOK
<1>2. CASE Pop(t)
  <2> DEFINE p == sessions[thread[t].key]
  <2>1. thread[t].key \in Sessions /\ thread[t].kind = "close"
    BY <1>1, <1>2 DEF Pop, At, Fits
  <2>2. p \in Shells \cup {None}
    BY <2>1 DEF TablesOK
  <2>3. CASE p = None
    BY <1>2, <2>3, DoneFits DEF Pop
  <2>4. CASE p # None
    <3>1. <<p>> \in Seq(Shells)
      BY <2>2, <2>4
    <3>2. thread' = [thread EXCEPT ![t].pc = "shut", ![t].close = <<p>>]
      BY <1>2, <2>4 DEF Pop
    <3> HIDE DEF p
    <3> QED
      BY <2>1, <3>1, <3>2, ListFits
  <2> QED
    BY <2>3, <2>4
<1>3. CASE PopAll(t)
  <2> DEFINE s == SetToSeq({sessions[k] : k \in Sessions} \ {None})
  <2>1. {sessions[k] : k \in Sessions} \ {None} \subseteq 1..MaxShells
    BY DEF TablesOK, Shells
  <2>2. s \in Seq(Shells)
    BY <2>1, Listed, Numbers DEF Shells
  <2>3. thread' = [thread EXCEPT ![t].pc = "shut", ![t].close = s]
    BY <1>3 DEF PopAll
  <2>4. thread[t].kind \in Closers
    BY <1>1, <1>3 DEF PopAll, At, Fits
  <2> HIDE DEF s
  <2> QED
    BY <2>2, <2>3, <2>4, ListFits
<1>4. CASE Shut(t)
  <2>1. thread[t].kind \in Closers \cup {"close"}
    BY <1>1, <1>4 DEF Shut, At, Fits
  <2>2. CASE thread[t].close = << >>
    <3>1. \/ Done(t)
          \/ thread[t].kind \in Closers \ {"close_all"} /\ Go(t, "stopped")
      BY <1>4, <2>1, <2>2 DEF Shut
    <3> QED
      BY <3>1, DoneFits, GoFits DEF Labels
  <2>3. CASE thread[t].close # << >>
    <3>1. Go(t, "grace") \/ Go(t, "release")
      BY <1>4, <2>3 DEF Shut
    <3> QED
      BY <2>1, <2>3, <3>1, GoFits DEF Labels
  <2> QED
    BY <2>2, <2>3
<1>5. CASE Grace(t) \/ Down(t)
  <2>1. thread[t].kind \in Closers \cup {"close"} /\ thread[t].close # << >>
    BY <1>1, <1>5 DEF Grace, Down, At, Fits
  <2>2. Go(t, "down") \/ Go(t, "release")
    BY <1>5 DEF Grace, Down
  <2> QED
    BY <2>1, <2>2, GoFits DEF Labels
<1>6. CASE Release(t)
  <2> DEFINE s == Tail(thread[t].close)
  <2>1. thread[t].kind \in Closers \cup {"close"} /\ thread[t].close # << >>
    BY <1>1, <1>6 DEF Release, At, Fits
  <2>2. thread[t].close \in Seq(Shells)
    BY <1>1, Zenon DEF ThreadRec
  <2>3. s \in Seq(Shells)
    BY <2>1, <2>2
  <2>4. thread' = [thread EXCEPT ![t].pc = "shut", ![t].close = s]
    BY <1>6 DEF Release
  <2> HIDE DEF s
  <2> QED
    BY <2>1, <2>3, <2>4, ListFits
<1> QED
  BY <1>2, <1>3, <1>4, <1>5, <1>6

\* The lifecycle and the installation.
LEMMA LifeFits ==
    ASSUME ThreadsOK, NEW t \in Threads,
           \/ Stopped(t) \/ Begin(t) \/ Run(t) \/ Remake(t) \/ Erase(t)
           \/ Detect(t) \/ Bootstrap(t) \/ Install(t) \/ Verify(t)
    PROVE  ThreadsOK' /\ Quits(t)
<1>1. thread[t] \in ThreadRec /\ Fits(thread[t])
  BY DEF ThreadsOK
<1>2. \/ Done(t)
      \/ \E l \in {"begin", "remake", "erase", "run", "bootstrap", "install", "verify"} : Go(t, l)
  <2>1. CASE Stopped(t)
    <3>1. thread[t].kind \in {"stop", "restart", "reset", "destroy"}
      BY <1>1, <2>1 DEF Stopped, At, Fits, Closers
    <3> QED
      BY <2>1, <3>1 DEF Stopped
  <2>2. CASE Begin(t) \/ Run(t) \/ Remake(t) \/ Erase(t)
    BY <2>2 DEF Begin, Run, Remake, Erase
  <2>3. CASE Detect(t)
    BY <2>3 DEF Detect
  <2>4. CASE Bootstrap(t) \/ Install(t) \/ Verify(t)
    BY <2>4 DEF Bootstrap, Install, Verify, Refused
  <2> QED
    BY <2>1, <2>2, <2>3, <2>4
<1> QED
  BY <1>2, DoneFits, GoFits DEF Labels

\* Every step of a thread leaves the threads as they must be, and only typing a
\* command brings one to send something.
LEMMA ThreadsKept ==
    ASSUME TablesOK, TerminalsOK, ThreadsOK, [Next]_vars
    PROVE  /\ ThreadsOK'
           /\ \A t \in Threads : (Accept(t) \/ Step(t)) /\ ~Type(t) => Quits(t)
<1>1. ASSUME NEW t \in Threads, Accept(t) \/ Step(t)
      PROVE  ThreadsOK' /\ (~Type(t) => Quits(t))
  BY <1>1, AcceptFits, OpenFits, TypeFits, ExecFits, CloseFits, LifeFits DEF Step
<1>2. UNCHANGED thread => ThreadsOK'
  BY DEF ThreadsOK
<1>3. ASSUME NEW p \in Shells, Read(p) \/ Reap(p) \/ Bridge(p) \/ Guest(p) PROVE UNCHANGED thread
  BY <1>3, Zenon DEF Read, Reap, Bridge, Guest, ShellRuns, ShellFinishes, ShellSwallows, ShellExits
<1>4. ASSUME Restart PROVE ThreadsOK'
  BY <1>4, IdleFits DEF Restart, ThreadsOK
<1>5. ThreadsOK'
  BY <1>1, <1>2, <1>3, <1>4 DEF Next, vars
<1> QED
  BY <1>1, <1>5

-------------------------------------------------------------------------------
(* The tables: the lifecycle, the sessions, the commands, the guest.         *)

\* The shape of a record of the guest, with what a probe found forgotten.
LEMMA CapsReset ==
  /\ \A g : g \in GuestRec => [g EXCEPT !.caps = None] \in GuestRec
  /\ \A had \in SUBSET {"apt", "pip", "package"} :
       [has |-> had, caps |-> None, told |-> None] \in GuestRec
<1> DEFINE S == SUBSET {"apt", "pip", "package"}
           C == (SUBSET {"apt", "pip"}) \cup {None}
           D == {None, "installed", "failed"}
<1>1. GuestRec = [has : S, caps : C, told : D]
  BY Zenon DEF GuestRec
<1>2. None \in C /\ None \in D
  OBVIOUS
<1> HIDE DEF S, C, D
<1>3. \A g : g \in GuestRec => [g EXCEPT !.caps = None] \in GuestRec
  BY <1>1, <1>2, Zenon
<1>4. ASSUME NEW had \in S PROVE [has |-> had, caps |-> None, told |-> None] \in GuestRec
  BY <1>1, <1>2, Zenon
<1> QED
  BY <1>3, <1>4, Zenon DEF S

LEMMA PersistTyped ==
    ASSUME NEW s \in States, Persist(s)
    PROVE  runtime' \in RuntimeRec /\ runtime'.state = s
  BY DEF Persist, RuntimeRec

\* create() leaves the state, or records "created" or a failure.
LEMMA CreateTyped ==
    ASSUME NEW s \in States, NEW disk \in States \cup {None}, Create(s, disk)
    PROVE  runtime' \in RuntimeRec /\ runtime'.state \in {s, "created", "failed"}
<1> DEFINE kept == IF disk = None THEN "created" ELSE s
           file == IF disk = None THEN "created" ELSE disk
<1>1. runtime' = [state |-> kept, disk |-> file] \/ Persist("failed")
  BY DEF Create
<1>2. kept \in States /\ file \in States /\ kept \in {s, "created"}
  BY DEF States
<1> HIDE DEF kept, file
<1>3. CASE runtime' = [state |-> kept, disk |-> file]
  BY <1>2, <1>3 DEF RuntimeRec
<1>4. CASE Persist("failed")
  BY <1>4, PersistTyped DEF States
<1> QED
  BY <1>1, <1>3, <1>4

\* What start(), create() and stop() leave of the lifecycle.
LEMMA LifecycleTyped ==
    ASSUME TablesOK, NEW t \in Threads,
           Stopped(t) \/ Begin(t) \/ Run(t) \/ Remake(t) \/ Erase(t)
    PROVE  /\ runtime' \in RuntimeRec
           /\ runtime'.state = "running" => runtime.state = "running" \/ Run(t)
<1>1. runtime.state \in States /\ runtime.disk \in States \cup {None}
  BY DEF TablesOK, RuntimeRec
<1>2. CASE Stopped(t)
  BY <1>2, PersistTyped DEF Stopped, States
<1>3. CASE Begin(t)
  <2>1. CASE Persist("failed")
    BY <2>1, PersistTyped DEF States
  <2>2. CASE Create(runtime.state, runtime.disk)
    BY <1>1, <2>2, CreateTyped
  <2> QED
    BY <1>3, <2>1, <2>2 DEF Begin
<1>4. CASE Run(t)
  BY <1>4, PersistTyped DEF Run, States
<1>5. CASE Remake(t)
  <2>1. PICK disk \in {runtime.disk, None} : Create(runtime.state, disk)
    BY <1>5 DEF Remake
  <2> QED
    BY <1>1, <2>1, CreateTyped
<1>6. CASE Erase(t)
  BY <1>6 DEF Erase, RuntimeRec, States
<1> QED
  BY <1>2, <1>3, <1>4, <1>5, <1>6

\* A restarted process takes no state over but "stopped" and "created".
LEMMA RestartTyped ==
    ASSUME TablesOK, Restart
    PROVE  runtime' \in RuntimeRec /\ runtime'.state # "running"
<1>1. runtime.disk \in States \cup {None}
  BY DEF TablesOK, RuntimeRec
<1>2. Restored(runtime.disk) \in {"stopped", "created"}
  BY DEF Restored
<1>3. Create(Restored(runtime.disk), runtime.disk)
  BY DEF Restart
<1> QED
  BY <1>1, <1>2, <1>3, CreateTyped DEF States

\* The truth or the answer of one command is written; the rest stays.
LEMMA CommandSet ==
    ASSUME command \in [Commands -> CommandRec], NEW c \in Commands
    PROVE  /\ \A v \in {"new", "typed", "lost", "running"} \cup Codes :
                command' = [command EXCEPT ![c].truth = v]
                => /\ command' \in [Commands -> CommandRec]
                   /\ command'[c].truth = v /\ command'[c].answer = command[c].answer
                   /\ \A d \in Commands : d # c => command'[d] = command[d]
           /\ \A v \in {None, "completed", "failed", "timeout", "running"} :
                command' = [command EXCEPT ![c].answer = v]
                => /\ command' \in [Commands -> CommandRec]
                   /\ command'[c].answer = v /\ command'[c].truth = command[c].truth
                   /\ \A d \in Commands : d # c => command'[d] = command[d]
<1>1. command[c] \in CommandRec
  OBVIOUS
<1>2. ASSUME NEW v \in {"new", "typed", "lost", "running"} \cup Codes,
             command' = [command EXCEPT ![c].truth = v]
      PROVE  /\ command' \in [Commands -> CommandRec]
             /\ command'[c].truth = v /\ command'[c].answer = command[c].answer
             /\ \A d \in Commands : d # c => command'[d] = command[d]
  <2> DEFINE r == [command[c] EXCEPT !.truth = v]
  <2>1. r \in CommandRec /\ r.truth = v /\ r.answer = command[c].answer
    BY <1>1, Zenon DEF CommandRec
  <2>2. command' = [command EXCEPT ![c] = r]
    BY <1>2
  <2> HIDE DEF r
  <2> QED
    BY <2>1, <2>2
<1>3. ASSUME NEW v \in {None, "completed", "failed", "timeout", "running"},
             command' = [command EXCEPT ![c].answer = v]
      PROVE  /\ command' \in [Commands -> CommandRec]
             /\ command'[c].answer = v /\ command'[c].truth = command[c].truth
             /\ \A d \in Commands : d # c => command'[d] = command[d]
  <2> DEFINE r == [command[c] EXCEPT !.answer = v]
  <2>1. r \in CommandRec /\ r.answer = v /\ r.truth = command[c].truth
    BY <1>1, Zenon DEF CommandRec
  <2>2. command' = [command EXCEPT ![c] = r]
    BY <1>3
  <2> HIDE DEF r
  <2> QED
    BY <2>1, <2>2
<1> QED
  BY <1>2, <1>3, Zenon

\* What waits in a shell, and what it is busy with, are commands.
LEMMA ShellCommands ==
    ASSUME TerminalsOK, NEW p \in Shells
    PROVE  /\ shell[p] \in ShellRec /\ shell[p].typed \in Seq(Commands)
           /\ shell[p].busy \in Commands \cup {None}
           /\ shell[p].typed # << >> =>
                Head(shell[p].typed) \in Commands /\ Tail(shell[p].typed) \in Seq(Commands)
<1>1. shell[p] \in ShellRec
  BY DEF TerminalsOK
<1>2. shell[p].typed \in Seq(Commands) /\ shell[p].busy \in Commands \cup {None}
  BY <1>1, Zenon DEF ShellRec
<1> QED
  BY <1>1, <1>2

\* Every step leaves the tables well typed.
LEMMA TablesKept ==
    ASSUME TablesOK, TerminalsOK, ThreadsOK, [Next]_vars PROVE TablesOK'
<1> USE DEF TablesOK
<1>1. ASSUME NEW t \in Threads, Accept(t) PROVE TablesOK'
  <2>1. past' = [past EXCEPT !.requests = @ + 1] /\ past.requests \in Nat
    BY <1>1, Zenon DEF Accept, PastRec
  <2>2. past' \in PastRec
    BY <2>1 DEF PastRec
  <2> QED
    BY <1>1, <2>2 DEF Accept
<1>2. ASSUME NEW t \in Threads, Look(t) \/ Register(t) \/ Pop(t) \/ PopAll(t) PROVE TablesOK'
  <2>1. sessions' \in [Sessions -> Shells \cup {None}]
    <3>1. CASE Register(t)
      <4>1. thread[t].shell \in Shells
        BY <3>1 DEF Register, At, ThreadsOK, Fits
      <4> QED
        BY <3>1, <4>1 DEF Register
    <3>2. CASE Look(t)
      BY <3>2 DEF Look
    <3>3. CASE Pop(t) \/ PopAll(t)
      BY <3>3 DEF Pop, PopAll
    <3> QED
      BY <1>2, <3>1, <3>2, <3>3
  <2> QED
    BY <1>2, <2>1 DEF Look, Register, Pop, PopAll
<1>3. ASSUME NEW t \in Threads, Type(t) \/ Poll(t) \/ Judge(t) PROVE TablesOK'
  <2>1. command' \in [Commands -> CommandRec]
    <3>1. CASE Type(t)
      <4> DEFINE c == Min({n \in Commands : command[n].truth = "new"})
      <4>1. c \in Commands
        BY <3>1, Smallest, Numbers DEF Type
      <4>2. command' = [command EXCEPT ![c].truth = "typed"]
        BY <3>1 DEF Type
      <4> HIDE DEF c
      <4> QED
        BY <4>1, <4>2, CommandSet
    <3>2. CASE Poll(t) \/ Judge(t)
      <4>1. thread[t].command \in Commands
        BY <3>2 DEF Poll, Judge, At, ThreadsOK, Fits
      <4>2. \/ UNCHANGED command
            \/ \E v \in {"completed", "failed", "timeout", "running"} :
                 command' = [command EXCEPT ![thread[t].command].answer = v]
        BY <3>2 DEF Poll, Judge, Answer
      <4> QED
        BY <4>1, <4>2, CommandSet
    <3> QED
      BY <1>3, <3>1, <3>2
  <2> QED
    BY <1>3, <2>1 DEF Type, Poll, Judge
<1>4. ASSUME NEW t \in Threads, Stopped(t) \/ Begin(t) \/ Run(t) \/ Remake(t) \/ Erase(t)
      PROVE  TablesOK'
  <2>1. runtime' \in RuntimeRec
    BY <1>4, LifecycleTyped
  <2>2. guest' \in GuestRec
    <3>1. guest.has \in SUBSET {"apt", "pip", "package"}
      BY Zenon DEF GuestRec
    <3>2. guest' = guest \/ guest' = [guest EXCEPT !.has = guest.has \ {"package"}]
      BY <1>4 DEF Stopped, Begin, Run, Remake, Erase
    <3>3. guest.has \ {"package"} \in SUBSET {"apt", "pip", "package"}
      BY <3>1
    <3> QED
      BY <3>2, <3>3, Zenon DEF GuestRec
  <2>3. past' \in PastRec
    <3>1. past' = past \/ past' = [past EXCEPT !.started = TRUE]
      BY <1>4 DEF Stopped, Begin, Run, Remake, Erase
    <3> QED
      BY <3>1 DEF PastRec
  <2> QED
    BY <1>4, <2>1, <2>2, <2>3 DEF Stopped, Begin, Run, Remake, Erase
<1>5. ASSUME NEW t \in Threads, Detect(t) \/ Bootstrap(t) \/ Install(t) \/ Verify(t)
      PROVE  TablesOK'
  <2>1. guest.has \in SUBSET {"apt", "pip", "package"}
        /\ guest.caps \in (SUBSET {"apt", "pip"}) \cup {None}
    BY Zenon DEF GuestRec
  <2>2. guest' \in GuestRec
    <3>1. CASE Detect(t)
      <4>1. UNCHANGED guest
            \/ \E caps \in (SUBSET {"apt", "pip"}) \cup {None} : \E w \in {"failed", None} :
                 guest' = [guest EXCEPT !.caps = caps, !.told = w]
        <5>1. \A caps \in Detected \cup (IF guest.caps = None THEN {} ELSE {guest.caps}) :
                 caps \in (SUBSET {"apt", "pip"}) \cup {None}
          BY <2>1 DEF Detected
        <5>2. CASE UNCHANGED guest
          BY <5>2
        <5>3. CASE ~UNCHANGED guest
          <6>1. PICK caps \in Detected \cup (IF guest.caps = None THEN {} ELSE {guest.caps}) :
                   guest' = [guest EXCEPT !.caps = caps,
                                          !.told = IF caps = {} THEN "failed" ELSE None]
            BY <3>1, <5>3 DEF Detect
          <6> DEFINE w == IF caps = {} THEN "failed" ELSE None
          <6>2. guest' = [guest EXCEPT !.caps = caps, !.told = w] /\ w \in {"failed", None}
            BY <6>1
          <6> HIDE DEF w
          <6> QED
            BY <5>1, <6>2
        <5> QED
          BY <5>2, <5>3
      <4> QED
        BY <4>1, Zenon DEF GuestRec
    <3>2. CASE Bootstrap(t) \/ Install(t) \/ Verify(t)
      <4>1. \/ guest' = guest
            \/ \E h \in SUBSET {"apt", "pip", "package"} : guest' = [guest EXCEPT !.has = h]
            \/ \E w \in {"failed", "installed"} : guest' = [guest EXCEPT !.told = w]
        <5>1. CASE Bootstrap(t)
          <6>1. guest.has \cup {"pip"} \in SUBSET {"apt", "pip", "package"}
            BY <2>1
          <6>2. \/ guest' = [guest EXCEPT !.has = guest.has \cup {"pip"}]
                \/ guest' = [guest EXCEPT !.told = "failed"]
            BY <5>1 DEF Bootstrap, Refused
          <6> QED
            BY <6>1, <6>2
        <5>2. CASE Install(t)
          <6>1. \/ guest' = [guest EXCEPT !.told = "failed"]
                \/ \E got \in {{}, {"package"}} : guest' = [guest EXCEPT !.has = guest.has \cup got]
            BY <5>2 DEF Install, Refused
          <6>2. \A got \in {{}, {"package"}} : guest.has \cup got \in SUBSET {"apt", "pip", "package"}
            BY <2>1
          <6> QED
            BY <6>1, <6>2
        <5>3. CASE Verify(t)
          BY <5>3 DEF Verify, Refused
        <5> QED
          BY <3>2, <5>1, <5>2, <5>3
      <4> QED
        BY <4>1, Zenon DEF GuestRec
    <3> QED
      BY <1>5, <3>1, <3>2
  <2> QED
    BY <1>5, <2>2 DEF Detect, Bootstrap, Install, Verify
<1>6. ASSUME NEW t \in Threads,
             Spawn(t) \/ Send(t) \/ Shut(t) \/ Grace(t) \/ Down(t) \/ Release(t)
      PROVE  TablesOK'
  BY <1>6 DEF Spawn, Send, Shut, Grace, Down, Release
<1>7. ASSUME NEW p \in Shells, Read(p) \/ Reap(p) \/ Bridge(p) \/ ShellExits(p) PROVE TablesOK'
  <2>1. past' \in PastRec
    <3>1. past' = past \/ \E b \in BOOLEAN : past' = [past EXCEPT !.strayed = b]
      <4>1. past.strayed \in BOOLEAN
        BY Zenon DEF PastRec
      <4>2. past' = past \/ past' = [past EXCEPT !.strayed = @ \/ open[shell[p].own] # p]
        BY <1>7, Zenon DEF Read, Reap, Bridge, ShellExits
      <4> QED
        BY <4>1, <4>2, Zenon
    <3> QED
      BY <3>1, Zenon DEF PastRec
  <2> QED
    BY <1>7, <2>1, Zenon DEF Read, Reap, Bridge, ShellExits
<1>8. ASSUME NEW p \in Shells, ShellRuns(p) \/ ShellFinishes(p) \/ ShellSwallows(p)
      PROVE  TablesOK'
  <2>1. command' \in [Commands -> CommandRec]
    <3>1. CASE ShellRuns(p) \/ ShellSwallows(p)
      <4>1. Head(shell[p].typed) \in Commands
        BY <3>1, ShellCommands DEF ShellRuns, ShellSwallows
      <4>2. \E v \in {"running", "lost"} : command' = [command EXCEPT ![Head(shell[p].typed)].truth = v]
        BY <3>1 DEF ShellRuns, ShellSwallows
      <4> QED
        BY <4>1, <4>2, CommandSet
    <3>2. CASE ShellFinishes(p)
      <4>1. shell[p].busy \in Commands
        BY <3>2, ShellCommands DEF ShellFinishes
      <4>2. \E v \in Codes : command' = [command EXCEPT ![shell[p].busy].truth = v]
        BY <3>2 DEF ShellFinishes
      <4> QED
        BY <4>1, <4>2, CommandSet
    <3> QED
      BY <1>8, <3>1, <3>2
  <2> QED
    BY <1>8, <2>1 DEF ShellRuns, ShellFinishes, ShellSwallows
<1>9. CASE Restart
  <2>1. runtime' \in RuntimeRec
    BY <1>9, RestartTyped
  <2>2. past' \in PastRec
    <3>1. past.restarts + 1 \in Nat
      BY DEF PastRec
    <3>2. past' = [past EXCEPT !.restarts = past.restarts + 1, !.started = FALSE, !.strayed = FALSE]
      BY <1>9 DEF Restart
    <3> QED
      BY <3>1, <3>2, Zenon DEF PastRec
  <2>3. guest' \in GuestRec
    <3>1. guest' = [guest EXCEPT !.caps = None]
      BY <1>9, Zenon DEF Restart
    <3> QED
      BY <3>1, CapsReset, Zenon
  <2>4. command' \in [Commands -> CommandRec] /\ sessions' \in [Sessions -> Shells \cup {None}]
    BY <1>9 DEF Restart, CommandRec, NoCommand
  <2> QED
    BY <1>9, <2>1, <2>2, <2>3, <2>4 DEF Restart
<1>10. CASE UNCHANGED vars
  BY <1>10 DEF vars
<1> QED
  BY <1>1, <1>2, <1>3, <1>4, <1>5, <1>6, <1>7, <1>8, <1>9, <1>10 DEF Next, Step, Guest

-------------------------------------------------------------------------------
(* The terminals: numbered in the order they were made; the numbers and the  *)
(* terminals that keep them match; a number is of its terminal's own kind.   *)

InOrder == \A p \in Shells : \A q \in 1..p : p \in Made => q \in Made
OwnersMatch == \A h \in Handles : \A p \in Shells : open[h] = p <=> shell[p].fd = h
NumberOf(p) == IF Wsl THEN {Pipe(p)} ELSE Posix
Wired(p) ==
    /\ shell[p].fd \in {None, shell[p].own}
    /\ shell[p].own \in NumberOf(p) \cup {None}
    /\ shell[p].own = None => shell[p].status = "created"
    /\ shell[p].status = "created" =>
         shell[p].fd = None /\ shell[p].reader = "done" /\ shell[p].reaper = "done"
TerminalInv == InOrder /\ OwnersMatch /\ (\A p \in Shells : Wired(p))

\* A status that is decided stays, unless the process ends.
Decided(p) == shell[p].status \notin {"created", "running"}
StatusKept == \A p \in Shells : Decided(p) => shell'[p].status = shell[p].status

\* A step that leaves the numbers of a terminal alone.
SameWires(p) ==
    /\ shell'[p].fd = shell[p].fd /\ shell'[p].own = shell[p].own
    /\ shell'[p].status = "created" <=> shell[p].status = "created"
    /\ shell'[p].reader \in {shell[p].reader, "done"}
    /\ shell'[p].reaper \in {shell[p].reaper, "done"}

LEMMA WiresFrame ==
    ASSUME TerminalInv, UNCHANGED <<host, open>>, \A p \in Shells : SameWires(p)
    PROVE  TerminalInv'
<1>1. InOrder'
  <2>1. Made' = Made
    BY DEF Made, SameWires
  <2> QED
    BY <2>1 DEF TerminalInv, InOrder
<1>2. OwnersMatch'
  BY DEF TerminalInv, OwnersMatch, SameWires
<1>3. \A p \in Shells : Wired(p)'
  BY DEF TerminalInv, Wired, NumberOf, Wsl, SameWires
<1> QED
  BY <1>1, <1>2, <1>3 DEF TerminalInv

\* One terminal is written and keeps its number.
LEMMA ShellSet ==
    ASSUME TerminalsOK, TerminalInv, NEW p \in Shells, NEW n \in ShellRec,
           n.fd = shell[p].fd, n.own = shell[p].own,
           n.status = shell[p].status \/ (shell[p].status = "running" /\ n.status # "created"),
           n.reader \in {shell[p].reader, "done"}, n.reaper \in {shell[p].reaper, "done"},
           shell' = [shell EXCEPT ![p] = n], UNCHANGED <<host, open>>
    PROVE  TerminalsOK' /\ TerminalInv' /\ StatusKept
<1>1. shell'[p] = n /\ \A q \in Shells : q # p => shell'[q] = shell[q]
  BY DEF TerminalsOK
<1>2. TerminalsOK'
  BY DEF TerminalsOK
<1>3. \A q \in Shells : SameWires(q)
  BY <1>1 DEF SameWires
<1>4. StatusKept
  BY <1>1 DEF StatusKept, Decided
<1> QED
  BY <1>2, <1>3, <1>4, WiresFrame

\* One terminal gives its number back.
LEMMA ShellCloses ==
    ASSUME TerminalsOK, TerminalInv, NEW p \in Shells, NEW n \in ShellRec,
           n.fd = None, n.own = shell[p].own,
           n.status = shell[p].status \/ (shell[p].status = "running" /\ n.status # "created"),
           n.reader \in {shell[p].reader, "done"}, n.reaper \in {shell[p].reaper, "done"},
           shell' = [shell EXCEPT ![p] = n], open' = Closed(p), UNCHANGED host
    PROVE  TerminalsOK' /\ TerminalInv' /\ StatusKept
<1>1. shell'[p] = n /\ \A q \in Shells : q # p => shell'[q] = shell[q]
  BY DEF TerminalsOK
<1>2. shell[p].fd \in Handles \cup {None}
  BY Zenon DEF TerminalsOK, ShellRec
<1>3. \A h \in Handles : open'[h] = IF h = shell[p].fd THEN None ELSE open[h]
  BY <1>2, Numbers DEF TerminalsOK, Closed
<1>4. TerminalsOK'
  BY <1>2 DEF TerminalsOK, Closed
<1>5. InOrder'
  <2>1. Made' = Made
    BY <1>1 DEF Made
  <2> QED
    BY <2>1 DEF TerminalInv, InOrder
<1>6. OwnersMatch'
  <2> SUFFICES ASSUME NEW h \in Handles, NEW q \in Shells PROVE open'[h] = q <=> shell'[q].fd = h
    BY DEF OwnersMatch
  <2>1. None # h /\ None # q
    BY Numbers
  <2>2. (open[h] = q <=> shell[q].fd = h) /\ (open[h] = p <=> shell[p].fd = h)
    BY DEF TerminalInv, OwnersMatch
  <2> QED
    BY <1>1, <1>3, <2>1, <2>2
<1>7. \A q \in Shells : Wired(q)'
  BY <1>1 DEF TerminalInv, Wired, NumberOf, Wsl
<1>8. StatusKept
  BY <1>1 DEF StatusKept, Decided
<1> QED
  BY <1>4, <1>5, <1>6, <1>7, <1>8 DEF TerminalInv

\* The terminals made so far are the first ones.
LEMMA MadeCount ==
    ASSUME InOrder
    PROVE  /\ Cardinality(Made) \in Nat /\ Made = 1..Cardinality(Made)
           /\ IsFiniteSet(Made)
<1> DEFINE S == {j \in 1..(MaxShells + 1) : j \notin Made}
           m == Min(S)
<1>1. MaxShells + 1 \in S /\ S \subseteq Nat
  BY Numbers DEF Made, Shells
<1>2. m \in S /\ \A j \in S : m <= j
  BY <1>1, Smallest
<1>3. m \in Nat /\ m >= 1 /\ m <= MaxShells + 1 /\ m \notin Made
  BY <1>2, Numbers
<1> HIDE DEF m
<1>4. \A i \in 1..(m - 1) : i \in Made
  BY <1>2, <1>3, Numbers
<1>5. \A i \in Made : i < m
  <2> SUFFICES ASSUME NEW i \in Made, ~(i < m) PROVE FALSE
    OBVIOUS
  <2>1. i \in Shells /\ i \in Nat
    BY Numbers DEF Made
  <2>2. m \in 1..i
    BY <1>3, <2>1
  <2> QED
    BY <1>3, <2>1, <2>2 DEF InOrder
<1>6. Made \subseteq Nat \ {0}
  BY Numbers DEF Made, Shells
<1>7. Made = 1..(m - 1)
  <2>1. \A i \in Nat \ {0} : i < m => i \in 1..(m - 1)
    BY <1>3
  <2>2. Made \subseteq 1..(m - 1)
    BY <1>5, <1>6, <2>1
  <2> QED
    BY <1>4, <2>2
<1>8. IsFiniteSet(1..(m - 1)) /\ Cardinality(1..(m - 1)) = m - 1
  BY <1>3, FS_Interval
<1> QED
  BY <1>3, <1>7, <1>8

\* While a terminal can still be made there is a number for it.
LEMMA NumberLeft ==
    ASSUME TerminalsOK, TerminalInv, Cardinality(Made) + 1 <= MaxShells
    PROVE  {h \in Posix : open[h] = None} # {}
<1> SUFFICES ASSUME \A h \in Posix : open[h] # None PROVE FALSE
  OBVIOUS
<1>1. Cardinality(Made) \in Nat /\ IsFiniteSet(Made)
  BY MadeCount DEF TerminalInv
<1> DEFINE f == [h \in Posix |-> open[h]]
<1>2. ASSUME NEW h \in Posix PROVE open[h] \in Made /\ shell[open[h]].fd = h
  <2>1. h \in Handles /\ open[h] \in Shells
    BY Numbers DEF TerminalsOK
  <2>2. shell[open[h]].fd = h /\ h # None
    <3>1. OwnersMatch
      BY DEF TerminalInv
    <3>2. shell[open[h]].fd = h
      BY <2>1, <3>1 DEF OwnersMatch
    <3> QED
      BY <2>1, <3>2, Numbers
  <2> QED
    BY <2>1, <2>2 DEF TerminalInv, Wired, Made
<1>3. f \in [Posix -> Made]
  BY <1>2
<1>4. \A g, h \in Posix : f[g] = f[h] => g = h
  BY <1>2
<1>5. f \in Injection(Posix, Made)
  BY <1>3, <1>4 DEF Injection, IsInjective
<1>6. Cardinality(Posix) <= Cardinality(Made)
  BY <1>1, <1>5, FS_Injection
<1>7. Cardinality(Posix) = MaxShells
  <2>1. MaxShells \in Int /\ 1 \in Int
    BY Numbers
  <2>2. Cardinality(1..MaxShells) = IF 1 > MaxShells THEN 0 ELSE MaxShells - 1 + 1
    BY <2>1, FS_Interval
  <2> QED
    BY <2>2, Numbers DEF Posix
<1> QED
  BY <1>1, <1>6, <1>7, Numbers

\* Writing a terminal without its number and its status.
Wires(n, r) ==
    /\ n.fd = r.fd /\ n.own = r.own /\ n.status = r.status
    /\ n.reader = r.reader /\ n.reaper = r.reaper

LEMMA ShellWritten ==
    ASSUME NEW r \in ShellRec
    PROVE  /\ \A b \in {"gone", "hangup"} :
                LET n == [r EXCEPT !.bridge = b] IN n \in ShellRec /\ Wires(n, r)
           /\ \A b \in Commands \cup {None}, s \in Seq(Commands) :
                LET n == [r EXCEPT !.busy = b, !.typed = s] IN n \in ShellRec /\ Wires(n, r)
           /\ \A s \in Seq(Commands) :
                LET n == [r EXCEPT !.typed = s] IN n \in ShellRec /\ Wires(n, r)
           /\ \A o \in Seq(Chunk) :
                LET n == [r EXCEPT !.busy = None, !.out = o] IN n \in ShellRec /\ Wires(n, r)
           /\ \A o \in Seq(Chunk) :
                LET n == [r EXCEPT !.out = o] IN n \in ShellRec /\ Wires(n, r)
           /\ \A s \in Seq(Chunk) :
                LET n == [r EXCEPT !.seen = s] IN n \in ShellRec /\ Wires(n, r)
           /\ LET n == [r EXCEPT !.closed = TRUE] IN n \in ShellRec /\ Wires(n, r)
           /\ \A b \in BOOLEAN :
                LET n == [r EXCEPT !.killed = b] IN n \in ShellRec /\ Wires(n, r)
           /\ LET n == [r EXCEPT !.lives = FALSE, !.busy = None, !.typed = << >>]
              IN  n \in ShellRec /\ Wires(n, r)
<1>0. << >> \in Seq(Commands)
  OBVIOUS
<1>1. ASSUME NEW b \in {"gone", "hangup"}
      PROVE  LET n == [r EXCEPT !.bridge = b] IN n \in ShellRec /\ Wires(n, r)
  BY Zenon DEF ShellRec, Wires
<1>2. ASSUME NEW b \in Commands \cup {None}, NEW s \in Seq(Commands)
      PROVE  LET n == [r EXCEPT !.busy = b, !.typed = s] IN n \in ShellRec /\ Wires(n, r)
  BY Zenon DEF ShellRec, Wires
<1>3. ASSUME NEW s \in Seq(Commands)
      PROVE  LET n == [r EXCEPT !.typed = s] IN n \in ShellRec /\ Wires(n, r)
  BY Zenon DEF ShellRec, Wires
<1>4. ASSUME NEW o \in Seq(Chunk)
      PROVE  LET n == [r EXCEPT !.busy = None, !.out = o] IN n \in ShellRec /\ Wires(n, r)
  BY Zenon DEF ShellRec, Wires
<1>5. ASSUME NEW o \in Seq(Chunk)
      PROVE  LET n == [r EXCEPT !.out = o] IN n \in ShellRec /\ Wires(n, r)
  BY Zenon DEF ShellRec, Wires
<1>6. ASSUME NEW s \in Seq(Chunk)
      PROVE  LET n == [r EXCEPT !.seen = s] IN n \in ShellRec /\ Wires(n, r)
  BY Zenon DEF ShellRec, Wires
<1>7. LET n == [r EXCEPT !.closed = TRUE] IN n \in ShellRec /\ Wires(n, r)
  BY Zenon DEF ShellRec, Wires
<1>8. ASSUME NEW b \in BOOLEAN
      PROVE  LET n == [r EXCEPT !.killed = b] IN n \in ShellRec /\ Wires(n, r)
  BY Zenon DEF ShellRec, Wires
<1>9. LET n == [r EXCEPT !.lives = FALSE, !.busy = None, !.typed = << >>]
      IN  n \in ShellRec /\ Wires(n, r)
  BY <1>0, Zenon DEF ShellRec, Wires
<1> QED
  BY <1>1, <1>2, <1>3, <1>4, <1>5, <1>6, <1>7, <1>8, <1>9, Zenon

\* The reader, the reaper or kill() ends a terminal that runs; else nothing but
\* their own state is written.
LEMMA MarkEndedKeeps ==
    ASSUME TerminalsOK, TerminalInv, NEW p \in Shells, NEW new \in ShellRec,
           new.fd = shell[p].fd, new.own = shell[p].own, new.status = shell[p].status,
           new.reader \in {shell[p].reader, "done"}, new.reaper \in {shell[p].reaper, "done"},
           NEW waited \in BOOLEAN, MarkEnded(p, new, waited), UNCHANGED host
    PROVE  TerminalsOK' /\ TerminalInv' /\ StatusKept
<1>1. CASE new.status # "running"
  BY <1>1, ShellSet DEF MarkEnded
<1>2. CASE new.status = "running"
  <2> DEFINE s == IF waited THEN "exited" ELSE "stopped"
             n == [new EXCEPT !.fd = None, !.status = s]
  <2>1. s \in {"exited", "stopped"}
    OBVIOUS
  <2>2. shell' = [shell EXCEPT ![p] = n] /\ open' = Closed(p)
    BY <1>2 DEF MarkEnded
  <2> HIDE DEF s
  <2>3. n \in ShellRec /\ n.fd = None /\ n.status = s
    BY <2>1, Zenon DEF ShellRec
  <2>4. n.own = new.own /\ n.reader = new.reader /\ n.reaper = new.reaper
    BY <2>1, Zenon DEF ShellRec
  <2> HIDE DEF n
  <2> QED
    BY <1>2, <2>1, <2>2, <2>3, <2>4, ShellCloses
<1> QED
  BY <1>1, <1>2

\* The numbers of a terminal, and what a reader reads from.
LEMMA WiredTypes ==
    ASSUME TerminalsOK, TerminalInv, NEW p \in Shells
    PROVE  /\ shell[p] \in ShellRec
           /\ shell[p].fd \in Handles \cup {None} /\ shell[p].own \in Handles \cup {None}
           /\ shell[p].out \in Seq(Chunk) /\ shell[p].seen \in Seq(Chunk)
           /\ shell[p].reader = "on" \/ shell[p].status # "created" =>
                shell[p].own \in Handles /\ open[shell[p].own] \in Shells \cup {None}
<1>1. shell[p] \in ShellRec
  BY DEF TerminalsOK
<1>2. shell[p].fd \in Handles \cup {None} /\ shell[p].own \in Handles \cup {None}
  BY <1>1, Zenon DEF ShellRec
<1>3. shell[p].out \in Seq(Chunk) /\ shell[p].seen \in Seq(Chunk)
  BY <1>1, Zenon DEF ShellRec
<1>4. shell[p].reader = "on" \/ shell[p].status # "created" => shell[p].own # None
  BY DEF TerminalInv, Wired
<1> QED
  BY <1>1, <1>2, <1>3, <1>4 DEF TerminalsOK

\* A read takes the first n chunks.
LEMMA Split ==
    ASSUME NEW S, NEW s \in Seq(S), NEW n \in 1..Len(s)
    PROVE  /\ SubSeq(s, 1, n) \in Seq(S) /\ Len(SubSeq(s, 1, n)) = n
           /\ \A i \in 1..n : SubSeq(s, 1, n)[i] = s[i]
           /\ SubSeq(s, n + 1, Len(s)) \in Seq(S) /\ Len(SubSeq(s, n + 1, Len(s))) = Len(s) - n
           /\ \A i \in 1..(Len(s) - n) : SubSeq(s, n + 1, Len(s))[i] = s[n + i]
<1> DEFINE l == Len(s)
<1>1. l \in Nat /\ n \in Nat /\ 1 <= n /\ n <= l
  OBVIOUS
<1>2. \A i \in 1..l : s[i] \in S
  OBVIOUS
<1> HIDE DEF l
<1>3. /\ SubSeq(s, 1, n) \in Seq(S)
      /\ Len(SubSeq(s, 1, n)) = IF 1 <= n THEN n - 1 + 1 ELSE 0
      /\ \A i \in 1..(n - 1 + 1) : SubSeq(s, 1, n)[i] = s[1 + i - 1]
  <2>1. 1 \in Int /\ n \in Int /\ \A i \in 1..n : s[i] \in S
    BY <1>1, <1>2
  <2> QED
    BY <2>1, SubSeqProperties
<1>4. /\ SubSeq(s, n + 1, l) \in Seq(S)
      /\ Len(SubSeq(s, n + 1, l)) = IF n + 1 <= l THEN l - (n + 1) + 1 ELSE 0
      /\ \A i \in 1..(l - (n + 1) + 1) : SubSeq(s, n + 1, l)[i] = s[n + 1 + i - 1]
  <2>1. n + 1 \in Int /\ l \in Int /\ \A i \in (n + 1)..l : s[i] \in S
    BY <1>1, <1>2
  <2> QED
    BY <2>1, SubSeqProperties
<1> DEFINE a == SubSeq(s, 1, n)
           b == SubSeq(s, n + 1, l)
<1> HIDE DEF a, b
<1>5. Len(a) = n /\ \A i \in 1..n : a[i] = s[i]
  BY <1>1, <1>3 DEF a
<1>6. Len(b) = l - n
  BY <1>1, <1>4 DEF b
<1>7. \A i \in 1..(l - n) : b[i] = s[n + i]
  BY <1>1, <1>4 DEF b
<1> QED
  BY <1>3, <1>4, <1>5, <1>6, <1>7 DEF a, b, l

\* The reader takes what is there, or ends.
LEMMA ReadKeeps ==
    ASSUME TerminalsOK, TerminalInv, NEW p \in Shells, Read(p)
    PROVE  TerminalsOK' /\ TerminalInv' /\ StatusKept
<1> DEFINE me == shell[p]
           q == open[me.own]
<1>1. me \in ShellRec /\ q \in Shells \cup {None} /\ me.seen \in Seq(Chunk)
  BY WiredTypes DEF Read
<1>2. ASSUME MarkEnded(p, [me EXCEPT !.reader = "done"], FALSE)
      PROVE  TerminalsOK' /\ TerminalInv' /\ StatusKept
  <2> DEFINE new == [me EXCEPT !.reader = "done"]
  <2>1. new \in ShellRec /\ new.fd = me.fd /\ new.own = me.own /\ new.status = me.status
    BY <1>1, Zenon DEF ShellRec
  <2>2. new.reader = "done" /\ new.reaper = me.reaper
    BY <1>1, Zenon DEF ShellRec
  <2>3. MarkEnded(p, new, FALSE) /\ UNCHANGED host
    BY <1>2 DEF Read
  <2> HIDE DEF new
  <2> QED
    BY <2>1, <2>2, <2>3, MarkEndedKeeps
<1>3. ASSUME ~MarkEnded(p, [me EXCEPT !.reader = "done"], FALSE)
      PROVE  TerminalsOK' /\ TerminalInv' /\ StatusKept
  <2>1. q # None /\ UNCHANGED <<host, open>>
    BY <1>3 DEF Read
  <2>2. PICK n \in 1..Len(shell[q].out) :
          shell' = [shell EXCEPT ![p].seen = @ \o SubSeq(shell[q].out, 1, n),
                                 ![q].out = SubSeq(@, n + 1, Len(@))]
    BY <1>3 DEF Read
  <2>3. q \in Shells /\ shell[q] \in ShellRec /\ shell[q].out \in Seq(Chunk)
    BY <1>1, <2>1, WiredTypes
  <2> DEFINE s == me.seen \o SubSeq(shell[q].out, 1, n)
             o == SubSeq(shell[q].out, n + 1, Len(shell[q].out))
  <2>4. s \in Seq(Chunk) /\ o \in Seq(Chunk)
    BY <1>1, <2>3, Split
  <2>5. CASE q = p
    <3>1. shell'[p] = [[me EXCEPT !.seen = s] EXCEPT !.out = o]
          /\ shell' = [shell EXCEPT ![p] = [[me EXCEPT !.seen = s] EXCEPT !.out = o]]
      <4> DEFINE a == [me EXCEPT !.seen = s]
      <4>1. a.out = me.out
        BY <1>1, Zenon DEF ShellRec
      <4>2. shell' = [[shell EXCEPT ![p] = a] EXCEPT ![p] = [a EXCEPT !.out = o]]
        BY <1>1, <2>2, <2>5, <4>1 DEF TerminalsOK
      <4> HIDE DEF a, s, o
      <4> QED
        BY <4>2 DEF TerminalsOK, a
    <3> DEFINE a == [me EXCEPT !.seen = s]
               b == [a EXCEPT !.out = o]
    <3>2. a \in ShellRec /\ Wires(a, me)
      BY <1>1, <2>4, ShellWritten, Zenon
    <3>3. b \in ShellRec /\ Wires(b, a)
      BY <2>4, <3>2, ShellWritten, Zenon
    <3>4. shell' = [shell EXCEPT ![p] = b]
      BY <3>1
    <3> HIDE DEF a, b
    <3> QED
      BY <2>1, <3>2, <3>3, <3>4, ShellSet DEF Wires
  <2>6. CASE q # p
    <3> DEFINE a == [me EXCEPT !.seen = s]
               b == [shell[q] EXCEPT !.out = o]
    <3>1. shell' = [shell EXCEPT ![p] = a, ![q] = b]
      BY <2>2, <2>3, <2>6 DEF TerminalsOK
    <3>2. a \in ShellRec /\ Wires(a, me)
      BY <1>1, <2>4, ShellWritten, Zenon
    <3>3. b \in ShellRec /\ Wires(b, shell[q])
      BY <2>3, <2>4, ShellWritten, Zenon
    <3> HIDE DEF a, b, s, o
    <3>4. /\ shell'[p] = a /\ shell'[q] = b /\ shell' \in [Shells -> ShellRec]
          /\ \A r \in Shells : r # p /\ r # q => shell'[r] = shell[r]
      BY <2>3, <2>6, <3>1, <3>2, <3>3 DEF TerminalsOK
    <3>5. \A r \in Shells : SameWires(r)
      BY <3>2, <3>3, <3>4 DEF SameWires, Wires
    <3>6. StatusKept
      BY <3>2, <3>3, <3>4 DEF StatusKept, Wires
    <3> QED
      BY <2>1, <3>4, <3>5, <3>6, WiresFrame DEF TerminalsOK
  <2> QED
    BY <2>5, <2>6
<1> QED
  BY <1>2, <1>3

LEMMA ReapKeeps ==
    ASSUME TerminalsOK, TerminalInv, NEW p \in Shells, Reap(p)
    PROVE  TerminalsOK' /\ TerminalInv' /\ StatusKept
<1> DEFINE me == shell[p]
           new == [me EXCEPT !.reaper = "done"]
<1>1. me \in ShellRec
  BY DEF TerminalsOK
<1>2. new \in ShellRec /\ new.fd = me.fd /\ new.own = me.own /\ new.status = me.status
  BY <1>1, Zenon DEF ShellRec
<1>3. new.reaper = "done" /\ new.reader = me.reader
  BY <1>1, Zenon DEF ShellRec
<1>4. MarkEnded(p, new, TRUE) /\ UNCHANGED host
  BY DEF Reap
<1> HIDE DEF new
<1> QED
  BY <1>2, <1>3, <1>4, MarkEndedKeeps

\* A terminal that ends loses what it was doing; its number is left alone.
LEMMA DiesTyped ==
    ASSUME TerminalsOK, NEW p \in Shells
    PROVE  Dies(p) \in ShellRec /\ Wires(Dies(p), shell[p])
  BY ShellWritten, Zenon DEF TerminalsOK, Dies

\* A terminal gets a record that has its wires.
LEMMA WiresSet ==
    ASSUME TerminalsOK, TerminalInv, NEW p \in Shells, NEW n \in ShellRec, Wires(n, shell[p]),
           shell' = [shell EXCEPT ![p] = n], UNCHANGED <<host, open>>
    PROVE  TerminalsOK' /\ TerminalInv' /\ StatusKept
  BY ShellSet DEF Wires

LEMMA GuestKeeps ==
    ASSUME TerminalsOK, TerminalInv, NEW p \in Shells, Bridge(p) \/ Guest(p)
    PROVE  TerminalsOK' /\ TerminalInv' /\ StatusKept
<1> DEFINE me == shell[p]
<1>1. /\ me \in ShellRec /\ me.typed \in Seq(Commands) /\ me.busy \in Commands \cup {None}
      /\ me.out \in Seq(Chunk)
      /\ me.typed # << >> => Head(me.typed) \in Commands /\ Tail(me.typed) \in Seq(Commands)
  BY ShellCommands, WiredTypes
<1>2. UNCHANGED <<host, open>>
  BY DEF Bridge, Guest, ShellRuns, ShellFinishes, ShellSwallows, ShellExits
<1>3. CASE Bridge(p)
  <2>1. CASE \E b \in {"gone", "hangup"} : shell' = [shell EXCEPT ![p].bridge = b]
    <3>1. PICK b \in {"gone", "hangup"} : shell' = [shell EXCEPT ![p].bridge = b]
      BY <2>1
    <3> DEFINE n == [me EXCEPT !.bridge = b]
    <3>2. shell' = [shell EXCEPT ![p] = n]
      BY <3>1
    <3>3. n \in ShellRec /\ Wires(n, me)
      BY <1>1, ShellWritten, Zenon
    <3> HIDE DEF n
    <3> QED
      BY <1>2, <3>2, <3>3, WiresSet
  <2>2. CASE shell' = [shell EXCEPT ![p] = [Dies(p) EXCEPT !.killed = FALSE]]
    <3> DEFINE n == [Dies(p) EXCEPT !.killed = FALSE]
    <3>1. n \in ShellRec /\ Wires(n, Dies(p))
      BY DiesTyped, ShellWritten, Zenon
    <3>2. Wires(n, me)
      BY <3>1, DiesTyped DEF Wires
    <3>3. shell' = [shell EXCEPT ![p] = n]
      BY <2>2
    <3> HIDE DEF n
    <3> QED
      BY <1>2, <3>1, <3>2, <3>3, WiresSet
  <2> QED
    BY <1>3, <2>1, <2>2 DEF Bridge
<1>4. CASE ShellRuns(p)
  <2> DEFINE b == Head(me.typed)
             s == Tail(me.typed)
             n == [me EXCEPT !.busy = b, !.typed = s]
  <2>1. shell' = [shell EXCEPT ![p] = n] /\ b \in Commands \cup {None} /\ s \in Seq(Commands)
    BY <1>1, <1>4 DEF ShellRuns
  <2>2. n \in ShellRec /\ Wires(n, me)
    BY <1>1, <2>1, ShellWritten, Zenon
  <2> HIDE DEF n
  <2> QED
    BY <1>2, <2>1, <2>2, WiresSet
<1>5. CASE ShellFinishes(p)
  <2> DEFINE c == me.busy
  <2>1. PICK code \in Codes :
          shell' = [shell EXCEPT ![p].busy = None,
                                 ![p].out = @ \o << <<c, "marker">>, <<c, code>> >>]
    BY <1>5 DEF ShellFinishes
  <2> DEFINE o == me.out \o << <<c, "marker">>, <<c, code>> >>
             n == [me EXCEPT !.busy = None, !.out = o]
  <2>2. c \in Commands
    BY <1>1, <1>5 DEF ShellFinishes
  <2>3. <<c, "marker">> \in Chunk /\ <<c, code>> \in Chunk
    BY <2>2 DEF Chunk
  <2>4. o \in Seq(Chunk)
    BY <1>1, <2>3
  <2>5. shell' = [shell EXCEPT ![p] = n]
    BY <2>1
  <2> HIDE DEF o
  <2>6. n \in ShellRec /\ Wires(n, me)
    BY <1>1, <2>4, ShellWritten, Zenon
  <2> HIDE DEF n
  <2> QED
    BY <1>2, <2>5, <2>6, WiresSet
<1>6. CASE ShellSwallows(p)
  <2> DEFINE s == Tail(me.typed)
             n == [me EXCEPT !.typed = s]
  <2>1. shell' = [shell EXCEPT ![p] = n] /\ s \in Seq(Commands)
    BY <1>1, <1>6 DEF ShellSwallows
  <2>2. n \in ShellRec /\ Wires(n, me)
    BY <1>1, <2>1, ShellWritten, Zenon
  <2> HIDE DEF n
  <2> QED
    BY <1>2, <2>1, <2>2, WiresSet
<1>7. CASE ShellExits(p)
  BY <1>2, <1>7, DiesTyped, WiresSet DEF ShellExits
<1> QED
  BY <1>3, <1>4, <1>5, <1>6, <1>7 DEF Guest

\* A new terminal gets a number nobody has.
LEMMA StartedKeeps ==
    ASSUME TerminalsOK, TerminalInv, NEW key \in Sessions, UNCHANGED host,
           Cardinality(Made) + 1 <= MaxShells, Started(Cardinality(Made) + 1, key)
    PROVE  TerminalsOK' /\ TerminalInv' /\ StatusKept
<1> DEFINE p == Cardinality(Made) + 1
           fd == IF Wsl THEN Pipe(p) ELSE Min({h \in Posix : open[h] = None})
           bridge == IF Wsl THEN "loop" ELSE None
           n == [NoShell EXCEPT !.status = "running", !.key = key, !.fd = fd, !.own = fd,
                                !.lives = TRUE, !.reader = "on", !.reaper = "on",
                                !.bridge = bridge]
<1>1. shell' = [shell EXCEPT ![p] = n] /\ open' = [open EXCEPT ![fd] = p]
  BY DEF Started
<1>2. Cardinality(Made) \in Nat /\ Made = 1..Cardinality(Made)
  BY MadeCount DEF TerminalInv
<1>3. p \in Shells /\ p \notin Made /\ 1..p = Made \cup {p}
  <2> DEFINE m == Cardinality(Made)
  <2> HIDE DEF m
  <2>1. m \in Nat /\ Made = 1..m /\ m + 1 <= MaxShells
    BY <1>2 DEF m
  <2>2. m + 1 \in Shells /\ m + 1 \notin Made /\ 1..(m + 1) = Made \cup {m + 1}
    BY <2>1, Numbers DEF Shells
  <2> QED
    BY <2>2 DEF m
<1>4. fd \in Handles /\ fd \in NumberOf(p) /\ open[fd] = None
  <2>1. CASE Wsl
    <3>1. fd = Pipe(p) /\ fd \in Handles /\ NumberOf(p) = {Pipe(p)}
      BY <1>3, <2>1, Numbers DEF NumberOf
    <3>2. ASSUME open[Pipe(p)] # None PROVE FALSE
      <4> DEFINE q == open[Pipe(p)]
      <4>1. q \in Shells /\ Pipe(p) \in Handles
        BY <1>3, <3>1, <3>2 DEF TerminalsOK
      <4>2. shell[q].fd = Pipe(p)
        BY <4>1 DEF TerminalInv, OwnersMatch
      <4>3. Pipe(p) # None
        BY <4>1, Numbers
      <4>4. shell[q].own = Pipe(p) /\ q \in Made
        BY <4>1, <4>2, <4>3 DEF TerminalInv, Wired, Made
      <4>5. Pipe(q) = Pipe(p)
        BY <2>1, <4>1, <4>3, <4>4 DEF TerminalInv, Wired, NumberOf
      <4> QED
        BY <1>3, <4>1, <4>4, <4>5, Numbers
    <3> QED
      BY <3>1, <3>2
  <2>2. CASE ~Wsl
    <3> DEFINE free == {h \in Posix : open[h] = None}
    <3>1. free \subseteq Nat /\ free # {}
      BY NumberLeft, Numbers
    <3>2. Min(free) \in free
      BY <3>1, Smallest
    <3>3. fd = Min(free) /\ NumberOf(p) = Posix
      BY <2>2 DEF NumberOf
    <3> QED
      BY <3>2, <3>3, Numbers
  <2> QED
    BY <2>1, <2>2
<1>5. fd # None
  BY <1>4, Numbers
<1>6. bridge \in {"loop", "hangup", "gone", None}
  OBVIOUS
<1> HIDE DEF fd, bridge, p
<1>7. /\ n \in ShellRec /\ n.status = "running" /\ n.fd = fd /\ n.own = fd
  <2>1. NoShell \in ShellRec
    <3>1. << >> \in Seq(Commands) /\ << >> \in Seq(Chunk)
      OBVIOUS
    <3> QED
      BY <3>1, Zenon DEF NoShell, ShellRec
  <2> QED
    BY <1>4, <1>6, <2>1, ZenonT(60) DEF ShellRec
<1> HIDE DEF n
<1>8. shell'[p] = n /\ \A q \in Shells : q # p => shell'[q] = shell[q]
  BY <1>1, <1>3 DEF TerminalsOK
<1>9. open'[fd] = p /\ \A h \in Handles : h # fd => open'[h] = open[h]
  BY <1>1, <1>4 DEF TerminalsOK
<1>10. TerminalsOK'
  BY <1>1, <1>3, <1>7 DEF TerminalsOK
<1>11. InOrder'
  <2>1. Made' = Made \cup {p}
    BY <1>3, <1>7, <1>8 DEF Made
  <2>2. \A q \in Made : 1..q \subseteq Made
    BY DEF TerminalInv, InOrder, Made
  <2> QED
    BY <1>3, <2>1, <2>2 DEF InOrder
<1>12. OwnersMatch'
  <2> SUFFICES ASSUME NEW h \in Handles, NEW q \in Shells PROVE open'[h] = q <=> shell'[q].fd = h
    BY DEF OwnersMatch
  <2>1. open[h] = q <=> shell[q].fd = h
    BY DEF TerminalInv, OwnersMatch
  <2>2. shell[p].fd = None /\ None # h /\ None # q
    BY <1>3, Numbers DEF TerminalInv, Wired, Made
  <2>3. h = fd => shell[q].fd # h
    BY <1>4, <2>1, <2>2
  <2> QED
    BY <1>7, <1>8, <1>9, <2>1, <2>2, <2>3
<1>13. \A q \in Shells : Wired(q)'
  <2> SUFFICES ASSUME NEW q \in Shells PROVE Wired(q)'
    OBVIOUS
  <2>1. CASE q # p
    BY <1>8, <2>1 DEF TerminalInv, Wired, NumberOf, Wsl
  <2>2. CASE q = p
    BY <1>4, <1>5, <1>7, <1>8, <2>2 DEF Wired, NumberOf, Wsl
  <2> QED
    BY <2>1, <2>2
<1>14. StatusKept
  BY <1>3, <1>8 DEF StatusKept, Decided, Made
<1> QED
  BY <1>10, <1>11, <1>12, <1>13, <1>14 DEF TerminalInv

\* What a thread does to terminals: it types, marks, kills and releases.
LEMMA ThreadKeepsTerminals ==
    ASSUME TerminalsOK, TerminalInv, ThreadsOK, NEW t \in Threads,
           Send(t) \/ Shut(t) \/ Down(t) \/ Release(t)
    PROVE  TerminalsOK' /\ TerminalInv' /\ StatusKept
<1> DEFINE me == thread[t]
<1>1. me \in ThreadRec /\ Fits(me)
  BY DEF ThreadsOK
<1>u. ASSUME UNCHANGED <<host, shell, open>> PROVE TerminalsOK' /\ TerminalInv' /\ StatusKept
  <2>1. \A p \in Shells : SameWires(p)
    BY <1>u DEF SameWires
  <2> QED
    BY <1>u, <2>1, WiresFrame DEF TerminalsOK, StatusKept
<1>h. ASSUME me.close # << >> PROVE Head(me.close) \in Shells
  <2>1. me.close \in Seq(Shells)
    BY <1>1, Zenon DEF ThreadRec
  <2> QED
    BY <1>h, <2>1
<1>2. CASE Send(t)
  <2> DEFINE q == IF me.fd = None THEN None ELSE open[me.fd]
  <2>1. UNCHANGED <<host, open>>
    BY <1>2 DEF Send
  <2>2. CASE UNCHANGED shell
    BY <1>u, <2>1, <2>2
  <2>3. CASE ~UNCHANGED shell
    <3>1. q # None /\ shell' = [shell EXCEPT ![q].typed = Append(@, me.command)]
      BY <1>2, <2>3 DEF Send
    <3>2. me.fd \in Handles \cup {None} /\ me.command \in Commands
      <4>1. me.fd \in Handles \cup {None}
        BY <1>1, Zenon DEF ThreadRec
      <4> QED
        BY <1>1, <1>2, <4>1 DEF Send, At, Fits
    <3>3. q \in Shells
      BY <3>1, <3>2 DEF TerminalsOK
    <3> HIDE DEF q
    <3> DEFINE s == Append(shell[q].typed, me.command)
               n == [shell[q] EXCEPT !.typed = s]
    <3>4. shell[q] \in ShellRec /\ s \in Seq(Commands)
      BY <3>2, <3>3, ShellCommands
    <3>5. shell' = [shell EXCEPT ![q] = n]
      BY <3>1
    <3> HIDE DEF s
    <3>6. n \in ShellRec /\ Wires(n, shell[q])
      BY <3>4, ShellWritten, Zenon
    <3> HIDE DEF n
    <3> QED
      BY <2>1, <3>3, <3>5, <3>6, WiresSet
  <2> QED
    BY <2>2, <2>3
<1>3. CASE Shut(t)
  <2>1. UNCHANGED <<host, open>>
    BY <1>3 DEF Shut
  <2>2. CASE me.close = << >>
    BY <1>3, <1>u, <2>1, <2>2 DEF Shut
  <2>3. CASE me.close # << >>
    <3> DEFINE p == Head(me.close)
               n == [shell[p] EXCEPT !.closed = TRUE]
    <3>1. shell' = [shell EXCEPT ![p] = n] /\ p \in Shells
      BY <1>3, <1>h, <2>3 DEF Shut
    <3> HIDE DEF p
    <3>2. n \in ShellRec /\ Wires(n, shell[p])
      BY <3>1, ShellWritten, Zenon DEF TerminalsOK
    <3> HIDE DEF n
    <3> QED
      BY <2>1, <3>1, <3>2, WiresSet
  <2> QED
    BY <2>2, <2>3
<1>4. CASE Down(t)
  <2> DEFINE p == Head(me.close)
             n == Kill(p)
  <2>1. /\ shell' = [shell EXCEPT ![p] = n] /\ p \in Shells /\ UNCHANGED <<host, open>>
    BY <1>1, <1>4, <1>h DEF Down, At, Fits
  <2> HIDE DEF p
  <2>2. shell[p] \in ShellRec
    BY <2>1 DEF TerminalsOK
  <2>3. Killed(p) \in ShellRec /\ Wires(Killed(p), shell[p])
    <3>1. CASE Wsl
      <4> DEFINE b == open[shell[p].own] = p
      <4>1. b \in BOOLEAN /\ Killed(p) = [shell[p] EXCEPT !.killed = b]
        BY <3>1 DEF Killed
      <4> HIDE DEF b
      <4>2. LET m == [shell[p] EXCEPT !.killed = b] IN m \in ShellRec /\ Wires(m, shell[p])
        BY <2>2, <4>1, ShellWritten, Zenon
      <4> QED
        BY <4>1, <4>2
    <3>2. CASE ~Wsl
      BY <2>1, <2>2, <3>2, DiesTyped DEF Killed, Wires
    <3> QED
      BY <3>1, <3>2
  <2> DEFINE s == IF Killed(p).status = "running" THEN "stopped" ELSE Killed(p).status
  <2>4. n = [Killed(p) EXCEPT !.status = s]
    BY DEF Kill
  <2>5. s \in {"created", "running", "exited", "stopped"}
    BY <2>3, Zenon DEF ShellRec
  <2>6. /\ n \in ShellRec /\ n.status = s /\ n.fd = Killed(p).fd /\ n.own = Killed(p).own
        /\ n.reader = Killed(p).reader /\ n.reaper = Killed(p).reaper
    <3> HIDE DEF n, s
    <3> QED
      BY <2>3, <2>4, <2>5, Zenon DEF ShellRec
  <2> HIDE DEF n
  <2>7. n.status = shell[p].status \/ (shell[p].status = "running" /\ n.status # "created")
    BY <2>3, <2>6 DEF Wires
  <2> QED
    BY <2>1, <2>3, <2>6, <2>7, ShellSet DEF Wires
<1>5. CASE Release(t)
  <2> DEFINE p == Head(me.close)
             n == [shell[p] EXCEPT !.fd = None]
  <2>1. /\ shell' = [shell EXCEPT ![p] = n] /\ open' = Closed(p) /\ UNCHANGED host /\ p \in Shells
    BY <1>1, <1>5, <1>h DEF Release, At, Fits
  <2> HIDE DEF p
  <2>2. /\ n \in ShellRec /\ n.fd = None /\ n.own = shell[p].own /\ n.status = shell[p].status
        /\ n.reader = shell[p].reader /\ n.reaper = shell[p].reaper
    <3>1. shell[p] \in ShellRec
      BY <2>1 DEF TerminalsOK
    <3> QED
      BY <3>1, Zenon DEF ShellRec
  <2> HIDE DEF n
  <2> QED
    BY <2>1, <2>2, ShellCloses
<1> QED
  BY <1>2, <1>3, <1>4, <1>5

\* A step that is not a restart keeps the terminals, and every decided status.
LEMMA TerminalsStep ==
    ASSUME TablesOK, TerminalsOK, ThreadsOK, TerminalInv, [Next]_vars
    PROVE  TerminalsOK' /\ TerminalInv' /\ (StatusKept \/ Restart)
<1>1. ASSUME UNCHANGED <<host, shell, open>> PROVE TerminalsOK' /\ TerminalInv' /\ StatusKept
  <2>1. \A p \in Shells : SameWires(p)
    BY <1>1 DEF SameWires
  <2> QED
    BY <1>1, <2>1, WiresFrame DEF TerminalsOK, StatusKept
<1>2. ASSUME NEW t \in Threads,
             \/ Accept(t) \/ Look(t) \/ Register(t) \/ Type(t) \/ Poll(t) \/ Judge(t)
             \/ Pop(t) \/ PopAll(t) \/ Grace(t)
      PROVE  UNCHANGED <<host, shell, open>>
  BY <1>2 DEF Accept, Look, Register, Type, Poll, Judge, Pop, PopAll, Grace
<1>3. ASSUME NEW t \in Threads,
             \/ Stopped(t) \/ Begin(t) \/ Run(t) \/ Remake(t) \/ Erase(t)
             \/ Detect(t) \/ Bootstrap(t) \/ Install(t) \/ Verify(t)
      PROVE  UNCHANGED <<host, shell, open>>
  BY <1>3 DEF Stopped, Begin, Run, Remake, Erase, Detect, Bootstrap, Install, Verify
<1>4. ASSUME NEW t \in Threads, Spawn(t) PROVE TerminalsOK' /\ TerminalInv' /\ StatusKept
  <2>1. thread[t].key \in Sessions
    BY <1>4 DEF Spawn, At, ThreadsOK, Fits
  <2>2. UNCHANGED host
    BY <1>4 DEF Spawn
  <2>3. CASE UNCHANGED <<shell, open>>
    BY <1>1, <2>2, <2>3
  <2>4. CASE Cardinality(Made) + 1 <= MaxShells /\ Started(Cardinality(Made) + 1, thread[t].key)
    BY <2>1, <2>2, <2>4, StartedKeeps
  <2> QED
    BY <1>4, <2>3, <2>4 DEF Spawn
<1>5. CASE Restart
  <2>1. /\ shell' = [p \in Shells |-> NoShell] /\ open' = [h \in Handles |-> None]
    BY <1>5 DEF Restart
  <2>2. /\ NoShell.status = "created" /\ NoShell.fd = None /\ NoShell.own = None
        /\ NoShell.reader = "done" /\ NoShell.reaper = "done"
    BY DEF NoShell
  <2>3. TerminalsOK'
    <3>1. NoShell \in ShellRec
      <4>1. << >> \in Seq(Commands) /\ << >> \in Seq(Chunk)
        OBVIOUS
      <4> QED
        BY <4>1, Zenon DEF NoShell, ShellRec
    <3> QED
      BY <2>1, <3>1 DEF TerminalsOK
  <2>4. InOrder' /\ OwnersMatch'
    BY <2>1, <2>2, Numbers DEF InOrder, OwnersMatch, Made
  <2>5. \A p \in Shells : Wired(p)'
    BY <2>1, <2>2 DEF Wired
  <2> QED
    BY <1>5, <2>3, <2>4, <2>5 DEF TerminalInv
<1>6. ASSUME NEW p \in Shells, Read(p) \/ Reap(p) \/ Bridge(p) \/ Guest(p)
      PROVE  TerminalsOK' /\ TerminalInv' /\ StatusKept
  BY <1>6, ReadKeeps, ReapKeeps, GuestKeeps
<1>7. ASSUME NEW t \in Threads, Send(t) \/ Shut(t) \/ Down(t) \/ Release(t)
      PROVE  TerminalsOK' /\ TerminalInv' /\ StatusKept
  BY <1>7, ThreadKeepsTerminals
<1>8. UNCHANGED vars => UNCHANGED <<host, shell, open>>
  BY DEF vars
<1> QED
  BY <1>1, <1>2, <1>3, <1>4, <1>5, <1>6, <1>7, <1>8 DEF Next, Step

\* What holds of every reachable state of a process, and is inductive.
StateInv == TablesOK /\ TerminalsOK /\ ThreadsOK /\ TerminalInv

LEMMA StateInit == Init => StateInv
<1> SUFFICES ASSUME Init PROVE StateInv
  OBVIOUS
<1>1. TablesOK
  <2>1. host \in HostRec
    BY DEF Init, Hosts, HostRec, Checks
  <2>2. runtime \in RuntimeRec
    BY DEF Init, RuntimeRec, States
  <2>3. guest \in GuestRec /\ past \in PastRec
    <3>1. guest = [has |-> {"apt"}, caps |-> None, told |-> None]
      BY DEF Init
    <3>2. {"apt"} \in SUBSET {"apt", "pip", "package"}
      OBVIOUS
    <3>3. guest \in GuestRec
      BY <3>1, <3>2, CapsReset, Zenon
    <3>4. past \in PastRec
      BY DEF Init, PastRec
    <3> QED
      BY <3>3, <3>4
  <2>4. sessions \in [Sessions -> Shells \cup {None}] /\ command \in [Commands -> CommandRec]
    BY DEF Init, CommandRec, NoCommand
  <2> QED
    BY <2>1, <2>2, <2>3, <2>4 DEF TablesOK
<1>2. shell = [p \in Shells |-> NoShell] /\ open = [h \in Handles |-> None]
  BY DEF Init
<1>3. NoShell \in ShellRec
  <2>1. << >> \in Seq(Commands) /\ << >> \in Seq(Chunk)
    OBVIOUS
  <2> QED
    BY <2>1, Zenon DEF NoShell, ShellRec
<1>4. /\ NoShell.status = "created" /\ NoShell.fd = None /\ NoShell.own = None
      /\ NoShell.reader = "done" /\ NoShell.reaper = "done"
  BY DEF NoShell
<1>5. TerminalsOK
  BY <1>2, <1>3 DEF TerminalsOK
<1>6. TerminalInv
  BY <1>2, <1>4, Numbers DEF TerminalInv, InOrder, OwnersMatch, Made, Wired
<1>7. ThreadsOK
  BY IdleFits DEF Init, ThreadsOK
<1> QED
  BY <1>1, <1>5, <1>6, <1>7 DEF StateInv

LEMMA StateStep == StateInv /\ [Next]_vars => StateInv'
  BY TablesKept, ThreadsKept, TerminalsStep DEF StateInv

LEMMA StateInvariant == Spec => []StateInv
  BY StateInit, StateStep, PTL DEF Spec

\* Every variable stays within its type, with any number of threads.
THEOREM RuntimeTypes == Spec => []TypeOK
<1>1. StateInv => TypeOK
  BY TypeParts DEF StateInv
<1> QED
  BY <1>1, StateInvariant, PTL

\* The number a terminal keeps is open and its own, although the number of a
\* closed terminal is given to the next one.
THEOREM NumbersAreOwned == Spec => []DescriptorsAreOwned
<1>1. StateInv => DescriptorsAreOwned
  <2> SUFFICES ASSUME StateInv, NEW p \in Shells, shell[p].fd # None PROVE open[shell[p].fd] = p
    BY DEF DescriptorsAreOwned
  <2>1. shell[p].fd \in Handles
    BY WiredTypes DEF StateInv
  <2> QED
    BY <2>1 DEF StateInv, TerminalInv, OwnersMatch
<1> QED
  BY <1>1, StateInvariant, PTL

\* Reader, reaper and kill() race for the status of a terminal, and the first
\* decides it; only the end of the process takes the terminal away.
THEOREM StatusIsDecidedOnce == Spec => StatusIsFinal
<1>1. StateInv /\ [Next]_vars =>
        [\A p \in Made : shell[p].status # "running" =>
           shell'[p].status = shell[p].status \/ shell'[p] = NoShell]_vars
  <2> SUFFICES ASSUME StateInv, [Next]_vars, NEW p \in Made, shell[p].status # "running"
               PROVE  shell'[p].status = shell[p].status \/ shell'[p] = NoShell
    OBVIOUS
  <2>1. p \in Shells /\ Decided(p)
    BY DEF Made, Decided
  <2>2. StatusKept \/ Restart
    BY TerminalsStep DEF StateInv
  <2>3. Restart => shell'[p] = NoShell
    BY <2>1 DEF Restart
  <2> QED
    BY <2>1, <2>2, <2>3 DEF StatusKept
<1> QED
  BY <1>1, StateInvariant, PTL DEF Spec, StatusIsFinal

\* A runtime is "running" only when this process has started it: what another
\* process left on disk is never taken for a running one.
THEOREM RunningIsOfThisProcess == Spec => []RunningWasStarted
<1>1. Init => RunningWasStarted
  BY DEF Init, RunningWasStarted
<1>2. StateInv /\ RunningWasStarted /\ [Next]_vars => RunningWasStarted'
  <2> SUFFICES ASSUME StateInv, RunningWasStarted, [Next]_vars PROVE RunningWasStarted'
    OBVIOUS
  <2>p. past \in PastRec
    BY DEF StateInv, TablesOK
  <2>1. ASSUME NEW t \in Threads,
               Stopped(t) \/ Begin(t) \/ Run(t) \/ Remake(t) \/ Erase(t)
        PROVE  RunningWasStarted'
    <3>1. runtime'.state = "running" => runtime.state = "running" \/ Run(t)
      BY <2>1, LifecycleTyped DEF StateInv
    <3>2. Run(t) => past'.started
      <4>1. [past EXCEPT !.started = TRUE].started = TRUE
        BY <2>p, Zenon DEF PastRec
      <4> QED
        BY <4>1 DEF Run
    <3>3. past' = past \/ Run(t)
      BY <2>1 DEF Stopped, Begin, Remake, Erase
    <3> QED
      BY <3>1, <3>2, <3>3 DEF RunningWasStarted
  <2>2. CASE Restart
    BY <2>2, RestartTyped DEF StateInv, RunningWasStarted
  <2>3. ASSUME runtime' = runtime, past'.started = past.started PROVE RunningWasStarted'
    BY <2>3 DEF RunningWasStarted
  <2>4. ASSUME NEW t \in Threads, Accept(t) PROVE RunningWasStarted'
    <3>1. past'.started = past.started /\ runtime' = runtime
      BY <2>4, <2>p, Zenon DEF Accept, PastRec
    <3> QED
      BY <2>3, <3>1
  <2>5. ASSUME NEW t \in Threads,
               \/ Look(t) \/ Spawn(t) \/ Register(t) \/ Type(t) \/ Send(t) \/ Poll(t) \/ Judge(t)
               \/ Pop(t) \/ PopAll(t) \/ Shut(t) \/ Grace(t) \/ Down(t) \/ Release(t)
               \/ Detect(t) \/ Bootstrap(t) \/ Install(t) \/ Verify(t)
        PROVE  RunningWasStarted'
    BY <2>3, <2>5, Zenon DEF Look, Spawn, Register, Type, Send, Poll, Judge, Pop, PopAll, Shut, Grace,
                      Down, Release, Detect, Bootstrap, Install, Verify
  <2>6. ASSUME NEW p \in Shells, Read(p) PROVE RunningWasStarted'
    <3>1. runtime' = runtime
          /\ (past' = past \/ past' = [past EXCEPT !.strayed = @ \/ open[shell[p].own] # p])
      BY <2>6 DEF Read
    <3>2. past'.started = past.started
      BY <2>p, <3>1, Zenon DEF PastRec
    <3> QED
      BY <2>3, <3>1, <3>2
  <2>7. ASSUME NEW p \in Shells, Reap(p) \/ Bridge(p) \/ Guest(p) PROVE RunningWasStarted'
    BY <2>3, <2>7 DEF Reap, Bridge, Guest, ShellRuns, ShellFinishes, ShellSwallows, ShellExits
  <2>8. CASE UNCHANGED vars
    BY <2>3, <2>8 DEF vars
  <2> QED
    BY <2>1, <2>2, <2>4, <2>5, <2>6, <2>7, <2>8 DEF Next, Step
<1> QED
  BY <1>1, <1>2, StateInvariant, PTL DEF Spec

-------------------------------------------------------------------------------
(* Where the commands are, and what the terminals show of them.              *)

Sending == [t \in Threads |-> IF thread[t].pc = "send" THEN thread[t].command ELSE None]
Typed == [p \in Shells |-> shell[p].typed]
Busy == [p \in Shells |-> shell[p].busy]
Stream == [p \in Shells |-> shell[p].seen \o shell[p].out]
Truth == [c \in Commands |-> command[c].truth]
Told == [c \in Commands |-> command[c].answer]
Truths == {"new", "typed", "lost", "running"} \cup Codes
Places ==
    /\ Sending \in [Threads -> Commands \cup {None}]
    /\ Typed \in [Shells -> Seq(Commands)] /\ Busy \in [Shells -> Commands \cup {None}]
    /\ Stream \in [Shells -> Seq(Chunk)]
    /\ Truth \in [Commands -> Truths]
    /\ Told \in [Commands -> {None, "completed", "failed", "timeout", "running"}]

\* A command is on its way at one place only, and its truth says so: a thread
\* is about to send it, it waits in a shell, or a shell runs it.
SendInv ==
    /\ \A t \in Threads : Sending[t] # None => Truth[Sending[t]] = "typed"
    /\ \A t, u \in Threads : Sending[t] # None /\ Sending[t] = Sending[u] => t = u
    /\ \A t \in Threads, p \in Shells : \A i \in 1..Len(Typed[p]) : Typed[p][i] # Sending[t]
TypedInv ==
    /\ \A p \in Shells : \A i \in 1..Len(Typed[p]) : Truth[Typed[p][i]] = "typed"
    /\ \A p, q \in Shells : \A i \in 1..Len(Typed[p]), j \in 1..Len(Typed[q]) :
         Typed[p][i] = Typed[q][j] => p = q /\ i = j
BusyInv ==
    /\ \A p \in Shells : Busy[p] # None => Truth[Busy[p]] = "running"
    /\ \A p, q \in Shells : Busy[p] # None /\ Busy[p] = Busy[q] => p = q

\* What a shell writes: every marker is followed by its command's exit code, and
\* every exit code is what became of its command.
Paired(s) ==
    \A i \in 1..Len(s) : s[i][2] = "marker" =>
      i < Len(s) /\ s[i + 1][1] = s[i][1] /\ s[i + 1][2] \in Codes
Vouched(s, truth) == \A i \in 1..Len(s) : s[i][2] \in Codes => truth[s[i][1]] = s[i][2]
StreamInv ==
    ~past.strayed => \A p \in Shells : Paired(Stream[p]) /\ Vouched(Stream[p], Truth)
ToldInv ==
    ~past.strayed => \A c \in Commands : /\ Told[c] = "completed" => Truth[c] = "zero"
                                         /\ Told[c] = "failed" => Truth[c] = "bad"
AnswerInv == Places /\ SendInv /\ TypedInv /\ BusyInv /\ StreamInv /\ ToldInv

LEMMA PlacesTyped == TablesOK /\ TerminalsOK /\ ThreadsOK => Places
<1> SUFFICES ASSUME TablesOK, TerminalsOK, ThreadsOK PROVE Places
  OBVIOUS
<1>1. Sending \in [Threads -> Commands \cup {None}]
  BY DEF Sending, ThreadsOK, Fits
<1>2. ASSUME NEW p \in Shells
      PROVE  /\ shell[p].typed \in Seq(Commands) /\ shell[p].busy \in Commands \cup {None}
             /\ shell[p].out \in Seq(Chunk) /\ shell[p].seen \in Seq(Chunk)
  <2>1. shell[p] \in ShellRec
    BY DEF TerminalsOK
  <2> QED
    BY <2>1, Zenon DEF ShellRec
<1>3. Typed \in [Shells -> Seq(Commands)] /\ Busy \in [Shells -> Commands \cup {None}]
  BY <1>2 DEF Typed, Busy
<1>4. Stream \in [Shells -> Seq(Chunk)]
  <2>1. \A p \in Shells : shell[p].seen \o shell[p].out \in Seq(Chunk)
    BY <1>2
  <2> QED
    BY <2>1 DEF Stream
<1>5. Truth \in [Commands -> Truths]
      /\ Told \in [Commands -> {None, "completed", "failed", "timeout", "running"}]
  BY DEF Truth, Told, Truths, TablesOK, CommandRec
<1> QED
  BY <1>1, <1>3, <1>4, <1>5 DEF Places

\* Nothing is sent, typed or run, and what is shown is the same or nothing; or
\* a reader has strayed.
Quiet ==
    /\ Sending' = Sending /\ Truth' = Truth /\ Told' = Told
    /\ \A p \in Shells : Typed'[p] \in {Typed[p], << >>} /\ Busy'[p] \in {Busy[p], None}
    /\ past'.strayed \/ (~past.strayed /\ \A p \in Shells : Stream'[p] \in {Stream[p], << >>})

LEMMA QuietKeeps ==
    ASSUME AnswerInv, Places', Quiet PROVE AnswerInv'
<1>1. \A p \in Shells : \A i \in 1..Len(Typed'[p]) :
        i \in 1..Len(Typed[p]) /\ Typed'[p][i] = Typed[p][i]
  BY DEF Quiet, AnswerInv, Places
<1>2. SendInv'
  BY <1>1 DEF AnswerInv, SendInv, Quiet
<1>3. TypedInv'
  BY <1>1 DEF AnswerInv, TypedInv, Quiet
<1>4. BusyInv'
  BY DEF AnswerInv, BusyInv, Quiet
<1>5. StreamInv'
  <2> SUFFICES ASSUME ~past'.strayed, NEW p \in Shells
               PROVE  Paired(Stream'[p]) /\ Vouched(Stream'[p], Truth')
    BY DEF StreamInv
  <2>1. Stream'[p] \in {Stream[p], << >>} /\ ~past.strayed /\ Truth' = Truth
    BY DEF Quiet
  <2>2. Paired(<< >>) /\ Vouched(<< >>, Truth)
    BY DEF Paired, Vouched
  <2> QED
    BY <2>1, <2>2 DEF AnswerInv, StreamInv
<1>6. ToldInv'
  BY DEF AnswerInv, ToldInv, Quiet
<1> QED
  BY <1>2, <1>3, <1>4, <1>5, <1>6 DEF AnswerInv

\* A command without an exit code comes to something: no code shown is of it.
LEMMA StillVouched ==
    ASSUME Places, Places', NEW c \in Commands, Truth[c] \notin Codes, NEW v,
           Truth' = [Truth EXCEPT ![c] = v], NEW s \in Seq(Chunk), Vouched(s, Truth)
    PROVE  Vouched(s, Truth')
<1>1. \A d \in Commands : Truth'[d] = IF d = c THEN v ELSE Truth[d]
  BY DEF Places
<1> SUFFICES ASSUME NEW i \in 1..Len(s), s[i][2] \in Codes PROVE Truth'[s[i][1]] = s[i][2]
  BY DEF Vouched
<1>2. s[i] \in Chunk
  OBVIOUS
<1>3. s[i][1] \in Commands
  BY <1>2 DEF Chunk
<1>4. Truth[s[i][1]] = s[i][2]
  BY DEF Vouched
<1> QED
  BY <1>1, <1>3, <1>4

\* The same for everything shown and everything told.
LEMMA StillTrue ==
    ASSUME AnswerInv, Places', NEW c \in Commands, Truth[c] \notin Codes, NEW v,
           Truth' = [Truth EXCEPT ![c] = v], Told' = Told, Stream' = Stream,
           past'.strayed = past.strayed
    PROVE  StreamInv' /\ ToldInv'
<1>1. \A d \in Commands : Truth'[d] = IF d = c THEN v ELSE Truth[d]
  BY DEF AnswerInv, Places
<1>2. StreamInv'
  <2> SUFFICES ASSUME ~past'.strayed, NEW p \in Shells
               PROVE  Paired(Stream'[p]) /\ Vouched(Stream'[p], Truth')
    BY DEF StreamInv
  <2>1. Paired(Stream[p]) /\ Vouched(Stream[p], Truth) /\ Stream[p] \in Seq(Chunk) /\ Places
    BY DEF AnswerInv, StreamInv, Places
  <2> QED
    BY <2>1, StillVouched
<1>3. ToldInv'
  BY <1>1 DEF AnswerInv, ToldInv, Codes
<1> QED
  BY <1>2, <1>3

SameShown == Stream' = Stream /\ Told' = Told /\ past'.strayed = past.strayed

LEMMA TypeKeepsAnswers ==
    ASSUME AnswerInv, Places', NEW t \in Threads, NEW c \in Commands, Truth[c] = "new",
           Sending' = [Sending EXCEPT ![t] = c], Truth' = [Truth EXCEPT ![c] = "typed"],
           Typed' = Typed, Busy' = Busy, SameShown
    PROVE  AnswerInv'
<1>1. \A d \in Commands : Truth'[d] = IF d = c THEN "typed" ELSE Truth[d]
  BY DEF AnswerInv, Places
<1>2. \A u \in Threads : Sending'[u] = IF u = t THEN c ELSE Sending[u]
  BY DEF AnswerInv, Places
<1>3. ASSUME NEW p \in Shells, NEW i \in 1..Len(Typed[p])
      PROVE  Typed[p][i] \in Commands /\ Typed[p][i] # c
  <2>1. Typed[p] \in Seq(Commands)
    BY DEF AnswerInv, Places
  <2> QED
    BY <2>1 DEF AnswerInv, TypedInv
<1>4. \A u \in Threads : Sending[u] # c
  <2>1. c # None
    BY Numbers
  <2> QED
    BY <2>1 DEF AnswerInv, SendInv
<1>5. SendInv'
  BY <1>1, <1>2, <1>3, <1>4 DEF AnswerInv, SendInv
<1>6. TypedInv'
  BY <1>1, <1>3 DEF AnswerInv, TypedInv
<1>7. BusyInv'
  BY <1>1 DEF AnswerInv, BusyInv, Places
<1>8. StreamInv' /\ ToldInv'
  BY StillTrue DEF SameShown, Codes
<1> QED
  BY <1>5, <1>6, <1>7, <1>8 DEF AnswerInv

\* What is typed reaches the shell that has the number, or nobody.
LEMMA SendKeepsAnswers ==
    ASSUME AnswerInv, Places', NEW t \in Threads, Sending[t] \in Commands,
           Sending' = [Sending EXCEPT ![t] = None], Truth' = Truth, Busy' = Busy, SameShown,
           \/ Typed' = Typed
           \/ \E q \in Shells : Typed' = [Typed EXCEPT ![q] = Append(@, Sending[t])]
    PROVE  AnswerInv'
<1> DEFINE c == Sending[t]
<1>1. \A u \in Threads : Sending'[u] = IF u = t THEN None ELSE Sending[u]
  BY DEF AnswerInv, Places
<1>2. c # None /\ Truth[c] = "typed"
  BY Numbers DEF AnswerInv, SendInv
<1>3. \A p \in Shells : \A i \in 1..Len(Typed[p]) : Typed[p][i] \in Commands /\ Typed[p][i] # c
  BY DEF AnswerInv, SendInv, Places
<1>4. PICK q \in Shells \cup {None} :
        \A p \in Shells : Typed'[p] = IF p = q THEN Append(Typed[p], c) ELSE Typed[p]
  <2>1. CASE Typed' = Typed
    <3>1. \A p \in Shells : p # None
      BY Numbers
    <3> QED
      BY <2>1, <3>1
  <2>2. CASE \E q \in Shells : Typed' = [Typed EXCEPT ![q] = Append(@, Sending[t])]
    BY <2>2 DEF AnswerInv, Places
  <2> QED
    BY <2>1, <2>2
<1>5. ASSUME NEW p \in Shells, NEW i \in 1..Len(Typed'[p])
      PROVE  \/ i \in 1..Len(Typed[p]) /\ Typed'[p][i] = Typed[p][i]
             \/ p = q /\ i = Len(Typed[p]) + 1 /\ Typed'[p][i] = c
  <2>1. Typed[p] \in Seq(Commands) /\ c \in Commands
    BY DEF AnswerInv, Places
  <2> HIDE DEF c
  <2>2. CASE p = q
    <3>1. /\ Len(Append(Typed[p], c)) = Len(Typed[p]) + 1
          /\ \A j \in 1..Len(Typed[p]) : Append(Typed[p], c)[j] = Typed[p][j]
          /\ Append(Typed[p], c)[Len(Typed[p]) + 1] = c
      BY <2>1, AppendProperties
    <3>2. Typed'[p] = Append(Typed[p], c)
      BY <1>4, <2>2, Zenon
    <3>3. Len(Typed[p]) \in Nat
      BY <2>1
    <3> QED
      BY <2>2, <3>1, <3>2, <3>3
  <2> QED
    BY <1>4, <2>2
<1> HIDE DEF c
<1>6. SendInv'
  <2>1. \A u \in Threads : Sending'[u] # None => Sending'[u] = Sending[u] /\ Sending'[u] # c
    BY <1>1, <1>2 DEF AnswerInv, SendInv, c
  <2>2. \A u \in Threads, p \in Shells : \A i \in 1..Len(Typed'[p]) : Typed'[p][i] # Sending'[u]
    <3> SUFFICES ASSUME NEW u \in Threads, NEW p \in Shells, NEW i \in 1..Len(Typed'[p])
                 PROVE  Typed'[p][i] # Sending'[u]
      OBVIOUS
    <3>1. Typed'[p][i] # None
      <4>1. Typed'[p][i] \in Commands \/ Typed'[p][i] = c
        BY <1>3, <1>5
      <4>2. None \notin Commands
        BY Numbers
      <4> QED
        BY <1>2, <4>1, <4>2, Zenon
    <3> QED
      BY <1>5, <2>1, <3>1 DEF AnswerInv, SendInv
  <2> QED
    BY <2>1, <2>2 DEF AnswerInv, SendInv
<1>7. TypedInv'
  <2>1. \A p \in Shells : \A i \in 1..Len(Typed'[p]) : Truth'[Typed'[p][i]] = "typed"
    BY <1>2, <1>5 DEF AnswerInv, TypedInv
  <2>2. ASSUME NEW p \in Shells, NEW r \in Shells,
               NEW i \in 1..Len(Typed'[p]), NEW j \in 1..Len(Typed'[r]), Typed'[p][i] = Typed'[r][j]
        PROVE  p = r /\ i = j
    BY <1>3, <1>5, <2>2 DEF AnswerInv, TypedInv
  <2> QED
    BY <2>1, <2>2 DEF TypedInv
<1>8. BusyInv' /\ StreamInv' /\ ToldInv'
  BY DEF AnswerInv, BusyInv, StreamInv, ToldInv, SameShown
<1> QED
  BY <1>6, <1>7, <1>8 DEF AnswerInv

\* The first of what waits in a shell is taken from it.
LEMMA Taken ==
    ASSUME Places, NEW p \in Shells, Typed[p] # << >>, Typed' = [Typed EXCEPT ![p] = Tail(@)]
    PROVE  /\ Head(Typed[p]) \in Commands /\ Head(Typed[p]) = Typed[p][1]
           /\ 1 \in 1..Len(Typed[p])
           /\ \A q \in Shells : \A i \in 1..Len(Typed'[q]) :
                LET j == IF q = p THEN i + 1 ELSE i IN
                j \in 1..Len(Typed[q]) /\ Typed'[q][i] = Typed[q][j]
<1>1. Typed[p] \in Seq(Commands) /\ \A q \in Shells : Len(Typed[q]) \in Nat
  BY DEF Places
<1>2. /\ Len(Tail(Typed[p])) = Len(Typed[p]) - 1 /\ Len(Typed[p]) >= 1
      /\ \A i \in 1..Len(Tail(Typed[p])) : Tail(Typed[p])[i] = Typed[p][i + 1]
      /\ Head(Typed[p]) \in Commands /\ Head(Typed[p]) = Typed[p][1]
  BY <1>1, HeadTailProperties
<1>3. Typed'[p] = Tail(Typed[p]) /\ \A q \in Shells : q # p => Typed'[q] = Typed[q]
  BY DEF Places
<1>4. ASSUME NEW q \in Shells, NEW i \in 1..Len(Typed'[q])
      PROVE  LET j == IF q = p THEN i + 1 ELSE i IN
             j \in 1..Len(Typed[q]) /\ Typed'[q][i] = Typed[q][j]
  <2>1. CASE q = p
    <3>1. Len(Typed'[q]) = Len(Typed[q]) - 1 /\ \A k \in 1..Len(Typed'[q]) : Typed'[q][k] = Typed[q][k + 1]
      BY <1>2, <1>3, <2>1, ZenonT(60)
    <3>2. Len(Typed[q]) \in Nat
      BY <1>1
    <3> QED
      BY <2>1, <3>1, <3>2
  <2>2. CASE q # p
    BY <1>3, <2>2
  <2> QED
    BY <2>1, <2>2
<1> QED
  BY <1>1, <1>2, <1>4

\* The command that is taken is nowhere else.
LEMMA TakenIsAlone ==
    ASSUME AnswerInv, Places', NEW p \in Shells, Typed[p] # << >>,
           Typed' = [Typed EXCEPT ![p] = Tail(@)],
           NEW v, Truth' = [Truth EXCEPT ![Head(Typed[p])] = v], Sending' = Sending, SameShown
    PROVE  /\ SendInv' /\ TypedInv' /\ StreamInv' /\ ToldInv'
           /\ Head(Typed[p]) \in Commands /\ Truth[Head(Typed[p])] = "typed"
<1> DEFINE c == Head(Typed[p])
<1>1. c \in Commands /\ c = Typed[p][1] /\ 1 \in 1..Len(Typed[p])
  BY Taken DEF AnswerInv
<1>2. ASSUME NEW q \in Shells, NEW i \in 1..Len(Typed'[q])
      PROVE  \E j \in 1..Len(Typed[q]) :
               /\ Typed'[q][i] = Typed[q][j]
               /\ (q = p => j = i + 1) /\ (q # p => j = i)
  <2> DEFINE j == IF q = p THEN i + 1 ELSE i
  <2>1. j \in 1..Len(Typed[q]) /\ Typed'[q][i] = Typed[q][j]
    BY Taken DEF AnswerInv
  <2> QED
    BY <2>1
<1> HIDE DEF c
<1>3. Truth[c] = "typed" /\ \A d \in Commands : Truth'[d] = IF d = c THEN v ELSE Truth[d]
  BY <1>1 DEF AnswerInv, TypedInv, Places, c
<1>4. ASSUME NEW q \in Shells, NEW i \in 1..Len(Typed'[q])
      PROVE  Typed'[q][i] # c /\ Typed'[q][i] \in Commands
  <2>1. PICK j \in 1..Len(Typed[q]) : /\ Typed'[q][i] = Typed[q][j]
                                      /\ (q = p => j = i + 1)
    BY <1>2
  <2>2. Typed[q][j] \in Commands
    BY DEF AnswerInv, Places
  <2>3. ASSUME Typed[q][j] = c PROVE FALSE
    <3>1. q = p /\ j = 1
      BY <1>1, <2>3 DEF AnswerInv, TypedInv
    <3> QED
      BY <2>1, <3>1
  <2> QED
    BY <2>1, <2>2, <2>3
<1>5. SendInv'
  <2>1. \A t \in Threads : Sending[t] # c /\ Sending[t] \in Commands \cup {None}
    BY <1>1 DEF AnswerInv, SendInv, Places
  <2>2. \A t \in Threads, q \in Shells : \A i \in 1..Len(Typed'[q]) : Typed'[q][i] # Sending[t]
    BY <1>2 DEF AnswerInv, SendInv
  <2> QED
    BY <1>3, <2>1, <2>2 DEF AnswerInv, SendInv
<1>6. TypedInv'
  <2>1. \A q \in Shells : \A i \in 1..Len(Typed'[q]) : Truth'[Typed'[q][i]] = "typed"
    BY <1>2, <1>3, <1>4 DEF AnswerInv, TypedInv
  <2>2. ASSUME NEW q \in Shells, NEW r \in Shells,
               NEW i \in 1..Len(Typed'[q]), NEW j \in 1..Len(Typed'[r]), Typed'[q][i] = Typed'[r][j]
        PROVE  q = r /\ i = j
    <3>1. PICK k \in 1..Len(Typed[q]) : /\ Typed'[q][i] = Typed[q][k]
                                        /\ (q = p => k = i + 1) /\ (q # p => k = i)
      BY <1>2
    <3>2. PICK l \in 1..Len(Typed[r]) : /\ Typed'[r][j] = Typed[r][l]
                                        /\ (r = p => l = j + 1) /\ (r # p => l = j)
      BY <1>2
    <3>3. q = r /\ k = l
      BY <2>2, <3>1, <3>2 DEF AnswerInv, TypedInv
    <3> QED
      BY <3>1, <3>2, <3>3
  <2> QED
    BY <2>1, <2>2 DEF TypedInv
<1>7. StreamInv' /\ ToldInv'
  BY <1>1, <1>3, StillTrue DEF SameShown, Codes, c
<1> QED
  BY <1>1, <1>3, <1>5, <1>6, <1>7 DEF c

LEMMA RunKeepsAnswers ==
    ASSUME AnswerInv, Places', NEW p \in Shells, Typed[p] # << >>, Busy[p] = None,
           Typed' = [Typed EXCEPT ![p] = Tail(@)], Busy' = [Busy EXCEPT ![p] = Head(Typed[p])],
           Truth' = [Truth EXCEPT ![Head(Typed[p])] = "running"], Sending' = Sending, SameShown
    PROVE  AnswerInv'
<1> DEFINE c == Head(Typed[p])
<1>1. SendInv' /\ TypedInv' /\ StreamInv' /\ ToldInv' /\ c \in Commands /\ Truth[c] = "typed"
  BY TakenIsAlone
<1> HIDE DEF c
<1>2. \A d \in Commands : Truth'[d] = IF d = c THEN "running" ELSE Truth[d]
  BY DEF AnswerInv, Places, c
<1>3. \A q \in Shells : Busy'[q] = IF q = p THEN c ELSE Busy[q]
  BY DEF AnswerInv, Places, c
<1>4. \A q \in Shells : Busy[q] \in Commands \cup {None} /\ Busy[q] # c
  <2>1. c # None
    BY <1>1, Numbers
  <2> QED
    BY <1>1, <2>1 DEF AnswerInv, BusyInv, Places
<1>5. BusyInv'
  BY <1>1, <1>2, <1>3, <1>4 DEF AnswerInv, BusyInv
<1> QED
  BY <1>1, <1>5 DEF AnswerInv

LEMMA SwallowKeepsAnswers ==
    ASSUME AnswerInv, Places', NEW p \in Shells, Typed[p] # << >>, Busy' = Busy,
           Typed' = [Typed EXCEPT ![p] = Tail(@)],
           Truth' = [Truth EXCEPT ![Head(Typed[p])] = "lost"], Sending' = Sending, SameShown
    PROVE  AnswerInv'
<1> DEFINE c == Head(Typed[p])
<1>1. SendInv' /\ TypedInv' /\ StreamInv' /\ ToldInv' /\ c \in Commands /\ Truth[c] = "typed"
  BY TakenIsAlone
<1> HIDE DEF c
<1>2. \A d \in Commands : Truth'[d] = IF d = c THEN "lost" ELSE Truth[d]
  BY DEF AnswerInv, Places, c
<1>3. BusyInv'
  BY <1>1, <1>2 DEF AnswerInv, BusyInv, Places
<1> QED
  BY <1>1, <1>3 DEF AnswerInv

\* A command ends: its marker and its code go to the end of what is shown.
LEMMA PairedEnd ==
    ASSUME NEW s \in Seq(Chunk), Paired(s), NEW c \in Commands, NEW code \in Codes
    PROVE  LET new == s \o << <<c, "marker">>, <<c, code>> >> IN
           /\ new \in Seq(Chunk) /\ Paired(new)
           /\ \A truth : Vouched(s, truth) /\ truth[c] = code => Vouched(new, truth)
<1> DEFINE e == << <<c, "marker">>, <<c, code>> >>
           new == s \o e
           n == Len(s)
<1>1. e \in Seq(Chunk) /\ Len(e) = 2 /\ e[1] = <<c, "marker">> /\ e[2] = <<c, code>>
  BY DEF Chunk
<1> HIDE DEF e
<1>2. n \in Nat /\ new \in Seq(Chunk) /\ Len(new) = n + 2
  <2>1. new \in Seq(Chunk) /\ Len(new) = Len(s) + Len(e)
    BY <1>1, ConcatProperties
  <2> HIDE DEF new
  <2> QED
    BY <1>1, <2>1
<1>0. \A i \in 1..(Len(s) + Len(e)) : new[i] = IF i <= Len(s) THEN s[i] ELSE e[i - Len(s)]
  BY <1>1, ConcatProperties
<1>3. ASSUME NEW i \in 1..n PROVE new[i] = s[i]
  <2>1. i \in 1..(Len(s) + Len(e)) /\ i <= Len(s)
    BY <1>1, <1>2
  <2>2. new[i] = IF i <= Len(s) THEN s[i] ELSE e[i - Len(s)]
    BY <1>0, <2>1
  <2> HIDE DEF new
  <2> QED
    BY <2>1, <2>2
<1>4. new[n + 1] = <<c, "marker">> /\ new[n + 2] = <<c, code>>
  <2>2. n + 1 \in 1..(Len(s) + Len(e)) /\ n + 2 \in 1..(Len(s) + Len(e))
        /\ ~(n + 1 <= Len(s)) /\ ~(n + 2 <= Len(s)) /\ n + 1 - Len(s) = 1 /\ n + 2 - Len(s) = 2
    BY <1>1, <1>2
  <2>3. new[n + 1] = e[n + 1 - Len(s)] /\ new[n + 2] = e[n + 2 - Len(s)]
    BY <1>0, <2>2
  <2> HIDE DEF new
  <2> QED
    BY <1>1, <2>2, <2>3
<1> HIDE DEF new, n
<1>5. \A i \in 1..Len(new) : i \in 1..n \/ i = n + 1 \/ i = n + 2
  BY <1>2
<1>6. code # "marker"
  BY DEF Codes
<1>7. Paired(new)
  <2> SUFFICES ASSUME NEW i \in 1..Len(new), new[i][2] = "marker"
               PROVE  i < Len(new) /\ new[i + 1][1] = new[i][1] /\ new[i + 1][2] \in Codes
    BY DEF Paired
  <2>1. CASE i \in 1..n
    <3>1. s[i][2] = "marker" /\ new[i] = s[i]
      BY <1>3, <2>1
    <3>2. i < Len(s) /\ s[i + 1][1] = s[i][1] /\ s[i + 1][2] \in Codes
      BY <2>1, <3>1 DEF Paired, n
    <3>3. i + 1 \in 1..n
      BY <1>2, <2>1, <3>2 DEF n
    <3>4. new[i + 1] = s[i + 1]
      BY <1>3, <3>3
    <3> QED
      BY <1>2, <2>1, <3>1, <3>2, <3>4 DEF n
  <2>2. CASE i = n + 1
    <3>1. new[i] = <<c, "marker">> /\ new[i + 1] = <<c, code>> /\ i < Len(new)
      BY <1>2, <1>4, <2>2
    <3> QED
      BY <3>1
  <2>3. CASE i = n + 2
    BY <1>4, <1>6, <2>3
  <2> QED
    BY <1>5, <2>1, <2>2, <2>3
<1>8. ASSUME NEW truth, Vouched(s, truth), truth[c] = code PROVE Vouched(new, truth)
  <2> SUFFICES ASSUME NEW i \in 1..Len(new), new[i][2] \in Codes PROVE truth[new[i][1]] = new[i][2]
    BY DEF Vouched
  <2>1. CASE i \in 1..n
    BY <1>3, <1>8, <2>1 DEF Vouched, n
  <2>2. CASE i = n + 1
    BY <1>4, <2>2 DEF Codes
  <2>3. CASE i = n + 2
    BY <1>4, <1>8, <2>3
  <2> QED
    BY <1>5, <2>1, <2>2, <2>3
<1> QED
  BY <1>2, <1>7, <1>8 DEF new, e

LEMMA FinishKeepsAnswers ==
    ASSUME AnswerInv, Places', NEW p \in Shells, Busy[p] \in Commands, NEW code \in Codes,
           Busy' = [Busy EXCEPT ![p] = None], Typed' = Typed, Sending' = Sending,
           Stream' = [Stream EXCEPT ![p] = @ \o << <<Busy[p], "marker">>, <<Busy[p], code>> >>],
           Truth' = [Truth EXCEPT ![Busy[p]] = code], Told' = Told, past'.strayed = past.strayed
    PROVE  AnswerInv'
<1> DEFINE c == Busy[p]
<1>1. c \in Commands /\ c # None
  BY Numbers
<1>2. Truth[c] = "running"
  BY <1>1 DEF AnswerInv, BusyInv
<1>3. \A d \in Commands : Truth'[d] = IF d = c THEN code ELSE Truth[d]
  BY DEF AnswerInv, Places
<1>4. \A q \in Shells : Busy'[q] = IF q = p THEN None ELSE Busy[q]
  BY DEF AnswerInv, Places
<1>5. \A q \in Shells : q # p => Busy[q] # c
  BY <1>1 DEF AnswerInv, BusyInv
<1> HIDE DEF c
<1>6. SendInv'
  <2>1. \A t \in Threads : Sending[t] # c \/ Sending[t] = None
    BY <1>2 DEF AnswerInv, SendInv
  <2> QED
    BY <1>1, <1>3, <2>1 DEF AnswerInv, SendInv, Places
<1>7. TypedInv'
  <2>1. ASSUME NEW q \in Shells, NEW i \in 1..Len(Typed[q])
        PROVE  Typed[q][i] \in Commands /\ Typed[q][i] # c
    <3>1. Typed[q] \in Seq(Commands)
      BY DEF AnswerInv, Places
    <3> QED
      BY <1>2, <3>1 DEF AnswerInv, TypedInv
  <2> QED
    BY <1>3, <2>1 DEF AnswerInv, TypedInv
<1>8. BusyInv'
  BY <1>3, <1>4, <1>5 DEF AnswerInv, BusyInv, Places
<1>9. StreamInv'
  <2> SUFFICES ASSUME ~past'.strayed, NEW q \in Shells
               PROVE  Paired(Stream'[q]) /\ Vouched(Stream'[q], Truth')
    BY DEF StreamInv
  <2>1. Paired(Stream[q]) /\ Vouched(Stream[q], Truth) /\ Stream[q] \in Seq(Chunk) /\ Places
    BY DEF AnswerInv, StreamInv, Places
  <2>2. Vouched(Stream[q], Truth')
    <3>1. Truth[c] \notin Codes /\ Truth' = [Truth EXCEPT ![c] = code]
      BY <1>2 DEF c, Codes
    <3> QED
      BY <1>1, <2>1, <3>1, StillVouched
  <2>3. CASE q # p
    <3>1. Stream'[q] = Stream[q]
      BY <2>1, <2>3 DEF Places
    <3> QED
      BY <2>1, <2>2, <3>1
  <2>4. CASE q = p
    <3> DEFINE new == Stream[q] \o << <<c, "marker">>, <<c, code>> >>
    <3>1. Stream'[q] = new
      BY <2>1, <2>4, Zenon DEF Places, c
    <3>2. Paired(new) /\ (Vouched(Stream[q], Truth') /\ Truth'[c] = code => Vouched(new, Truth'))
      BY <1>1, <2>1, PairedEnd
    <3> HIDE DEF new
    <3> QED
      BY <1>1, <1>3, <2>2, <3>1, <3>2
  <2> QED
    BY <2>3, <2>4
<1>10. ToldInv'
  <2>1. ~past.strayed => Told[c] \notin {"completed", "failed"}
    BY <1>1, <1>2 DEF AnswerInv, ToldInv
  <2> QED
    BY <1>3, <2>1 DEF AnswerInv, ToldInv
<1> QED
  BY <1>6, <1>7, <1>8, <1>9, <1>10 DEF AnswerInv

\* An answer that is true is given.
LEMMA TellKeepsAnswers ==
    ASSUME AnswerInv, Places', NEW c \in Commands, NEW a, Told' = [Told EXCEPT ![c] = a],
           ~past.strayed => (a = "completed" => Truth[c] = "zero") /\ (a = "failed" => Truth[c] = "bad"),
           Typed' = Typed, Busy' = Busy, Sending' = Sending, Truth' = Truth,
           Stream' = Stream, past'.strayed = past.strayed
    PROVE  AnswerInv'
<1>1. \A d \in Commands : Told'[d] = IF d = c THEN a ELSE Told[d]
  BY DEF AnswerInv, Places
<1>2. ToldInv'
  BY <1>1 DEF AnswerInv, ToldInv
<1>3. SendInv' /\ TypedInv'
  BY DEF AnswerInv, SendInv, TypedInv
<1>4. BusyInv' /\ StreamInv'
  BY DEF AnswerInv, BusyInv, StreamInv
<1> QED
  BY <1>2, <1>3, <1>4 DEF AnswerInv

\* A record of a terminal with these commands and this output.
Holds(n, typed, busy, seen, out) ==
    n \in ShellRec /\ n.typed = typed /\ n.busy = busy /\ n.seen = seen /\ n.out = out
\* Nothing new is typed or run in it, and it shows what it showed.
Soft(n, r) ==
    /\ n \in ShellRec /\ n.typed \in {r.typed, << >>} /\ n.busy \in {r.busy, None}
    /\ n.seen = r.seen /\ n.out = r.out

LEMMA SoftWritten ==
    ASSUME NEW r \in ShellRec
    PROVE  /\ \A b \in {"gone", "hangup"} : Soft([r EXCEPT !.bridge = b], r)
           /\ Soft([r EXCEPT !.closed = TRUE], r)
           /\ \A b \in BOOLEAN : Soft([r EXCEPT !.killed = b], r)
           /\ Soft([r EXCEPT !.reader = "done"], r) /\ Soft([r EXCEPT !.reaper = "done"], r)
           /\ Soft([r EXCEPT !.fd = None], r)
           /\ \A s \in {"created", "running", "exited", "stopped"} :
                Soft([r EXCEPT !.status = s], r)
           /\ \A s \in {"exited", "stopped"} : Soft([r EXCEPT !.fd = None, !.status = s], r)
           /\ Soft([r EXCEPT !.lives = FALSE, !.busy = None, !.typed = << >>], r)
<1>0. << >> \in Seq(Commands)
  OBVIOUS
<1>1. ASSUME NEW b \in {"gone", "hangup"} PROVE Soft([r EXCEPT !.bridge = b], r)
  BY Zenon DEF ShellRec, Soft
<1>2. Soft([r EXCEPT !.closed = TRUE], r)
  BY Zenon DEF ShellRec, Soft
<1>3. ASSUME NEW b \in BOOLEAN PROVE Soft([r EXCEPT !.killed = b], r)
  BY Zenon DEF ShellRec, Soft
<1>4. Soft([r EXCEPT !.reader = "done"], r)
  BY Zenon DEF ShellRec, Soft
<1>5. Soft([r EXCEPT !.reaper = "done"], r)
  BY Zenon DEF ShellRec, Soft
<1>6. Soft([r EXCEPT !.fd = None], r)
  BY Zenon DEF ShellRec, Soft
<1>7. ASSUME NEW s \in {"created", "running", "exited", "stopped"}
      PROVE  Soft([r EXCEPT !.status = s], r)
  BY Zenon DEF ShellRec, Soft
<1>8. ASSUME NEW s \in {"exited", "stopped"} PROVE Soft([r EXCEPT !.fd = None, !.status = s], r)
  <2>1. s \in {"created", "running", "exited", "stopped"}
    OBVIOUS
  <2> QED
    BY <2>1, Zenon DEF ShellRec, Soft
<1>9. Soft([r EXCEPT !.lives = FALSE, !.busy = None, !.typed = << >>], r)
  BY <1>0, Zenon DEF ShellRec, Soft
<1> QED
  BY <1>1, <1>2, <1>3, <1>4, <1>5, <1>6, <1>7, <1>8, <1>9, Zenon

LEMMA SoftTwice ==
    ASSUME NEW r, NEW m, NEW n, Soft(m, r), Soft(n, m) PROVE Soft(n, r)
  BY Zenon DEF Soft

\* The commands and the output of a terminal are written.
LEMMA HoldsWritten ==
    ASSUME NEW r \in ShellRec
    PROVE  /\ \A b \in Commands \cup {None}, s \in Seq(Commands) :
                Holds([r EXCEPT !.busy = b, !.typed = s], s, b, r.seen, r.out)
           /\ \A s \in Seq(Commands) : Holds([r EXCEPT !.typed = s], s, r.busy, r.seen, r.out)
           /\ \A o \in Seq(Chunk) :
                Holds([r EXCEPT !.busy = None, !.out = o], r.typed, None, r.seen, o)
           /\ \A o \in Seq(Chunk) : Holds([r EXCEPT !.out = o], r.typed, r.busy, r.seen, o)
           /\ \A s \in Seq(Chunk) : Holds([r EXCEPT !.seen = s], r.typed, r.busy, s, r.out)
<1>2. ASSUME NEW b \in Commands \cup {None}, NEW s \in Seq(Commands)
      PROVE  Holds([r EXCEPT !.busy = b, !.typed = s], s, b, r.seen, r.out)
  BY Zenon DEF ShellRec, Holds
<1>3. ASSUME NEW s \in Seq(Commands)
      PROVE  Holds([r EXCEPT !.typed = s], s, r.busy, r.seen, r.out)
  BY Zenon DEF ShellRec, Holds
<1>4. ASSUME NEW o \in Seq(Chunk)
      PROVE  Holds([r EXCEPT !.busy = None, !.out = o], r.typed, None, r.seen, o)
  BY Zenon DEF ShellRec, Holds
<1>5. ASSUME NEW o \in Seq(Chunk)
      PROVE  Holds([r EXCEPT !.out = o], r.typed, r.busy, r.seen, o)
  BY Zenon DEF ShellRec, Holds
<1>6. ASSUME NEW s \in Seq(Chunk)
      PROVE  Holds([r EXCEPT !.seen = s], r.typed, r.busy, s, r.out)
  BY Zenon DEF ShellRec, Holds
<1> QED
  BY <1>2, <1>3, <1>4, <1>5, <1>6, Zenon

\* What writing one terminal does to the places of the commands.
LEMMA OneWritten ==
    ASSUME NEW D, NEW R, NEW f \in [D -> R], NEW g \in [D -> R], NEW p \in D,
           \A q \in D : q # p => g[q] = f[q]
    PROVE  g = [f EXCEPT ![p] = g[p]]
  OBVIOUS

LEMMA PlacesWritten ==
    ASSUME TerminalsOK, Places, Places', NEW p \in Shells, NEW n \in ShellRec,
           shell' = [shell EXCEPT ![p] = n]
    PROVE  /\ Typed' = [Typed EXCEPT ![p] = n.typed] /\ Busy' = [Busy EXCEPT ![p] = n.busy]
           /\ Stream' = [Stream EXCEPT ![p] = n.seen \o n.out]
<1>1. shell'[p] = n /\ \A q \in Shells : q # p => shell'[q] = shell[q]
  BY DEF TerminalsOK
<1>2. ASSUME NEW q \in Shells
      PROVE  /\ Typed[q] = shell[q].typed /\ Typed'[q] = shell'[q].typed
             /\ Busy[q] = shell[q].busy /\ Busy'[q] = shell'[q].busy
             /\ Stream[q] = shell[q].seen \o shell[q].out
             /\ Stream'[q] = shell'[q].seen \o shell'[q].out
  BY DEF Typed, Busy, Stream
<1>3. /\ Typed'[p] = n.typed /\ Busy'[p] = n.busy /\ Stream'[p] = n.seen \o n.out
      /\ \A q \in Shells : q # p =>
           Typed'[q] = Typed[q] /\ Busy'[q] = Busy[q] /\ Stream'[q] = Stream[q]
  <2>1. Typed'[p] = n.typed /\ Busy'[p] = n.busy
    BY <1>1, <1>2
  <2>2. Stream'[p] = n.seen \o n.out
    BY <1>1, <1>2, Zenon
  <2>3. ASSUME NEW q \in Shells, q # p
        PROVE  Typed'[q] = Typed[q] /\ Busy'[q] = Busy[q] /\ Stream'[q] = Stream[q]
    <3>1. shell'[q] = shell[q]
      BY <1>1, <2>3
    <3>2. Stream'[q] = Stream[q]
      BY <1>2, <3>1, ZenonT(60)
    <3>3. Typed'[q] = Typed[q]
      <4>1. Typed'[q] = shell'[q].typed /\ Typed[q] = shell[q].typed
        BY <1>2
      <4> QED
        BY <3>1, <4>1, Zenon
    <3>4. Busy'[q] = Busy[q]
      BY <1>2, <3>1, ZenonT(60)
    <3> QED
      BY <3>2, <3>3, <3>4, Zenon
  <2> QED
    BY <2>1, <2>2, <2>3, Zenon
<1>4. Typed' = [Typed EXCEPT ![p] = Typed'[p]]
  BY <1>3, OneWritten, ZenonT(60) DEF Places
<1>5. Busy' = [Busy EXCEPT ![p] = Busy'[p]]
  BY <1>3, OneWritten, ZenonT(60) DEF Places
<1>6. Stream' = [Stream EXCEPT ![p] = Stream'[p]]
  BY <1>3, OneWritten, ZenonT(60) DEF Places
<1> QED
  BY <1>3, <1>4, <1>5, <1>6, Zenon

LEMMA SoftWrite ==
    ASSUME TerminalsOK, NEW p \in Shells, NEW n, Soft(n, shell[p]),
           shell' = [shell EXCEPT ![p] = n]
    PROVE  \A q \in Shells : /\ Typed'[q] \in {Typed[q], << >>} /\ Busy'[q] \in {Busy[q], None}
                             /\ Stream'[q] = Stream[q]
<1>1. shell'[p] = n /\ \A q \in Shells : q # p => shell'[q] = shell[q]
  BY DEF TerminalsOK
<1> SUFFICES ASSUME NEW q \in Shells
             PROVE  /\ Typed'[q] \in {Typed[q], << >>} /\ Busy'[q] \in {Busy[q], None}
                    /\ Stream'[q] = Stream[q]
  OBVIOUS
<1>2. /\ Typed[q] = shell[q].typed /\ Typed'[q] = shell'[q].typed
      /\ Busy[q] = shell[q].busy /\ Busy'[q] = shell'[q].busy
      /\ Stream[q] = shell[q].seen \o shell[q].out
      /\ Stream'[q] = shell'[q].seen \o shell'[q].out
  BY DEF Typed, Busy, Stream
<1>3. Soft(shell'[q], shell[q]) \/ shell'[q] = shell[q]
  BY <1>1
<1> QED
  BY <1>2, <1>3, Zenon DEF Soft

\* The places of the commands when no terminal and no command is written.
LEMMA SendingFrame ==
    ASSUME NEW t \in Threads, thread[t].pc # "send", Quits(t) PROVE Sending' = Sending
<1>1. ASSUME NEW u \in Threads
      PROVE  (IF thread[u].pc = "send" THEN thread[u].command ELSE None)'
               = IF thread[u].pc = "send" THEN thread[u].command ELSE None
  <2>1. CASE u = t
    BY <2>1 DEF Quits
  <2>2. CASE u # t
    BY <2>2 DEF Quits
  <2> QED
    BY <2>1, <2>2
<1> QED
  BY <1>1, Zenon DEF Sending

-------------------------------------------------------------------------------
(* Every step keeps what is answered true.                                   *)

LEMMA CommandsKept == UNCHANGED command => Truth' = Truth /\ Told' = Told
  BY DEF Truth, Told

LEMMA SoftStep ==
    ASSUME AnswerInv, Places', TerminalsOK, UNCHANGED command, Sending' = Sending,
           past'.strayed = past.strayed,
           \/ UNCHANGED shell
           \/ \E p \in Shells : \E n : Soft(n, shell[p]) /\ shell' = [shell EXCEPT ![p] = n]
    PROVE  AnswerInv'
<1>1. \A q \in Shells : /\ Typed'[q] \in {Typed[q], << >>} /\ Busy'[q] \in {Busy[q], None}
                        /\ Stream'[q] = Stream[q]
  <2>1. CASE UNCHANGED shell
    <3>1. Typed' = Typed /\ Busy' = Busy /\ Stream' = Stream
      BY <2>1, Zenon DEF Typed, Busy, Stream
    <3> QED
      BY <3>1
  <2>2. CASE \E p \in Shells : \E n : Soft(n, shell[p]) /\ shell' = [shell EXCEPT ![p] = n]
    BY <2>2, SoftWrite, Zenon
  <2> QED
    BY <2>1, <2>2
<1>2. Quiet
  <2>1. Truth' = Truth /\ Told' = Told
    BY CommandsKept
  <2>2. past'.strayed \/ (~past.strayed /\ \A p \in Shells : Stream'[p] \in {Stream[p], << >>})
    BY <1>1
  <2> QED
    BY <1>1, <2>1, <2>2 DEF Quiet
<1> QED
  BY <1>2, QuietKeeps

\* A thread that is not about to send anything, and does not come to.
LEMMA QuietThreads ==
    ASSUME StateInv, Places', AnswerInv, NEW t \in Threads,
           \/ Accept(t) \/ Look(t) \/ Register(t) \/ Pop(t) \/ PopAll(t) \/ Grace(t)
           \/ Stopped(t) \/ Begin(t) \/ Run(t) \/ Remake(t) \/ Erase(t)
           \/ Detect(t) \/ Bootstrap(t) \/ Install(t) \/ Verify(t)
    PROVE  AnswerInv'
<1>1. UNCHANGED <<command, shell>> /\ thread[t].pc # "send"
  BY DEF Accept, Look, Register, Pop, PopAll, Grace, Stopped, Begin, Run, Remake, Erase,
         Detect, Bootstrap, Install, Verify, At
<1>2. Quits(t)
  BY AcceptFits, OpenFits, CloseFits, LifeFits DEF StateInv
<1>3. Sending' = Sending
  BY <1>1, <1>2, SendingFrame
<1>4. past'.strayed = past.strayed
  <2>1. past \in PastRec
    BY DEF StateInv, TablesOK
  <2>2. \/ past' = past \/ past' = [past EXCEPT !.started = TRUE]
        \/ past' = [past EXCEPT !.requests = @ + 1]
    BY DEF Accept, Look, Register, Pop, PopAll, Grace, Stopped, Begin, Run, Remake, Erase,
           Detect, Bootstrap, Install, Verify
  <2> QED
    BY <2>1, <2>2, Zenon DEF PastRec
<1> QED
  BY <1>1, <1>3, <1>4, SoftStep DEF StateInv

\* A thread marks, kills or releases a terminal.
LEMMA QuietClosers ==
    ASSUME StateInv, Places', AnswerInv, NEW t \in Threads, Shut(t) \/ Down(t) \/ Release(t)
    PROVE  AnswerInv'
<1>1. UNCHANGED <<command, past>> /\ thread[t].pc # "send"
  BY DEF Shut, Down, Release, At
<1>2. Quits(t)
  BY CloseFits DEF StateInv
<1>3. Sending' = Sending
  BY <1>1, <1>2, SendingFrame
<1>4. thread[t] \in ThreadRec /\ Fits(thread[t]) /\ TerminalsOK
  BY DEF StateInv, ThreadsOK
<1>5. thread[t].close # << >> => Head(thread[t].close) \in Shells
  <2>1. thread[t].close \in Seq(Shells)
    BY <1>4, Zenon DEF ThreadRec
  <2> QED
    BY <2>1
<1>6. \/ UNCHANGED shell
      \/ \E p \in Shells : \E n : Soft(n, shell[p]) /\ shell' = [shell EXCEPT ![p] = n]
  <2> DEFINE p == Head(thread[t].close)
  <2>1. CASE Shut(t)
    <3>1. \/ UNCHANGED shell
          \/ p \in Shells /\ shell' = [shell EXCEPT ![p] = [shell[p] EXCEPT !.closed = TRUE]]
      BY <1>5, <2>1 DEF Shut
    <3> HIDE DEF p
    <3>2. p \in Shells => Soft([shell[p] EXCEPT !.closed = TRUE], shell[p])
      BY <1>4, SoftWritten, Zenon DEF TerminalsOK
    <3> QED
      BY <3>1, <3>2
  <2>2. CASE Release(t)
    <3>1. p \in Shells /\ shell' = [shell EXCEPT ![p] = [shell[p] EXCEPT !.fd = None]]
      BY <1>4, <1>5, <2>2 DEF Release, At, Fits
    <3> HIDE DEF p
    <3>2. Soft([shell[p] EXCEPT !.fd = None], shell[p])
      BY <1>4, <3>1, SoftWritten, Zenon DEF TerminalsOK
    <3> QED
      BY <3>1, <3>2
  <2>3. CASE Down(t)
    <3>1. p \in Shells /\ shell' = [shell EXCEPT ![p] = Kill(p)]
      BY <1>4, <1>5, <2>3 DEF Down, At, Fits
    <3> HIDE DEF p
    <3>2. shell[p] \in ShellRec
      BY <1>4, <3>1 DEF TerminalsOK
    <3>3. Soft(Killed(p), shell[p])
      <4>1. CASE Wsl
        <5> DEFINE b == open[shell[p].own] = p
        <5>1. b \in BOOLEAN /\ Killed(p) = [shell[p] EXCEPT !.killed = b]
          BY <4>1 DEF Killed
        <5> HIDE DEF b
        <5> QED
          BY <3>2, <5>1, SoftWritten, Zenon
      <4>2. CASE ~Wsl
        <5>1. Soft(Dies(p), shell[p]) /\ Soft(shell[p], shell[p])
          BY <3>2, SoftWritten, Zenon DEF Dies, Soft
        <5> QED
          BY <4>2, <5>1 DEF Killed
      <4> QED
        BY <4>1, <4>2
    <3> DEFINE s == IF Killed(p).status = "running" THEN "stopped" ELSE Killed(p).status
    <3>4. Killed(p) \in ShellRec
      BY <3>3 DEF Soft
    <3>5. Kill(p) = [Killed(p) EXCEPT !.status = s] /\ s \in {"created", "running", "exited", "stopped"}
      <4>1. Killed(p).status \in {"created", "running", "exited", "stopped"}
        BY <3>4, Zenon DEF ShellRec
      <4> QED
        BY <4>1 DEF Kill
    <3> HIDE DEF s
    <3>6. Soft([Killed(p) EXCEPT !.status = s], Killed(p))
      BY <3>4, <3>5, SoftWritten, Zenon
    <3>7. Soft(Kill(p), shell[p])
      BY <3>3, <3>5, <3>6, SoftTwice, Zenon
    <3> QED
      BY <3>1, <3>7
  <2> QED
    BY <2>1, <2>2, <2>3
<1>7. past'.strayed = past.strayed
  BY <1>1
<1> QED
  BY <1>1, <1>3, <1>4, <1>6, <1>7, SoftStep

\* A terminal that is made has nothing typed and nothing shown.
LEMMA NewTerminal ==
    ASSUME StateInv, Places', AnswerInv, NEW t \in Threads, Spawn(t)
    PROVE  AnswerInv'
<1>1. UNCHANGED <<command, past>> /\ thread[t].pc # "send"
  BY DEF Spawn, At
<1>2. Quits(t)
  BY OpenFits DEF StateInv
<1>3. Sending' = Sending
  BY <1>1, <1>2, SendingFrame
<1>4. CASE UNCHANGED shell
  BY <1>1, <1>3, <1>4, SoftStep DEF StateInv
<1>5. CASE ~UNCHANGED shell
  <2> DEFINE p == Cardinality(Made) + 1
             fd == IF Wsl THEN Pipe(p) ELSE Min({h \in Posix : open[h] = None})
             bridge == IF Wsl THEN "loop" ELSE None
             key == thread[t].key
             n == [NoShell EXCEPT !.status = "running", !.key = key, !.fd = fd, !.own = fd,
                                  !.lives = TRUE, !.reader = "on", !.reaper = "on",
                                  !.bridge = bridge]
  <2>1. shell' = [shell EXCEPT ![p] = n]
    BY <1>5 DEF Spawn, Started
  <2> HIDE DEF fd, bridge, key, p
  <2>2. n.typed = << >> /\ n.busy = None /\ n.seen = << >> /\ n.out = << >>
    BY DEF NoShell
  <2> HIDE DEF n
  <2>3. ASSUME NEW q \in Shells
        PROVE  /\ Typed'[q] \in {Typed[q], << >>} /\ Busy'[q] \in {Busy[q], None}
               /\ Stream'[q] \in {Stream[q], << >>}
    <3>1. /\ Typed[q] = shell[q].typed /\ Typed'[q] = shell'[q].typed
          /\ Busy[q] = shell[q].busy /\ Busy'[q] = shell'[q].busy
          /\ Stream[q] = shell[q].seen \o shell[q].out
          /\ Stream'[q] = shell'[q].seen \o shell'[q].out
      BY DEF Typed, Busy, Stream
    <3>2. shell'[q] = n \/ shell'[q] = shell[q]
      BY <2>1 DEF StateInv, TerminalsOK
    <3>3. CASE shell'[q] = n
      <4>1. << >> \o << >> = << >>
        OBVIOUS
      <4> QED
        BY <2>2, <3>1, <3>3, <4>1, Zenon
    <3>4. CASE shell'[q] = shell[q]
      BY <3>1, <3>4, Zenon
    <3> QED
      BY <3>2, <3>3, <3>4
  <2>4. Truth' = Truth /\ Told' = Told /\ past' = past
    BY <1>1, CommandsKept
  <2>5. Quiet
    BY <1>3, <2>3, <2>4 DEF Quiet
  <2> QED
    BY <2>5, QuietKeeps
<1> QED
  BY <1>4, <1>5

\* The end of a terminal is marked by one of its threads: its output stays.
LEMMA MarkingIsSoft ==
    ASSUME NEW p \in Shells, NEW new, Soft(new, shell[p]), NEW waited \in BOOLEAN,
           MarkEnded(p, new, waited)
    PROVE  \E n : Soft(n, shell[p]) /\ shell' = [shell EXCEPT ![p] = n]
<1>1. CASE new.status # "running"
  BY <1>1 DEF MarkEnded
<1>2. CASE new.status = "running"
  <2> DEFINE s == IF waited THEN "exited" ELSE "stopped"
             n == [new EXCEPT !.fd = None, !.status = s]
  <2>1. s \in {"exited", "stopped"} /\ new \in ShellRec
    BY DEF Soft
  <2>2. shell' = [shell EXCEPT ![p] = n]
    BY <1>2 DEF MarkEnded
  <2> HIDE DEF s
  <2>3. Soft(n, new)
    BY <2>1, SoftWritten, Zenon
  <2> HIDE DEF n
  <2>4. Soft(n, shell[p])
    BY <2>3, SoftTwice, Zenon
  <2> QED
    BY <2>2, <2>4
<1> QED
  BY <1>1, <1>2

LEMMA SendingStays == UNCHANGED thread => Sending' = Sending
  BY DEF Sending

\* The bridge, the reaper, and a shell that exits.
LEMMA QuietTerminals ==
    ASSUME StateInv, Places', AnswerInv, NEW p \in Shells, Reap(p) \/ Bridge(p) \/ ShellExits(p)
    PROVE  AnswerInv'
<1>1. UNCHANGED <<command, past, thread>> /\ TerminalsOK /\ shell[p] \in ShellRec
  BY DEF Reap, Bridge, ShellExits, StateInv, TerminalsOK
<1>2. \E n : Soft(n, shell[p]) /\ shell' = [shell EXCEPT ![p] = n]
  <2>1. CASE Reap(p)
    <3> DEFINE new == [shell[p] EXCEPT !.reaper = "done"]
    <3>1. MarkEnded(p, new, TRUE)
      BY <2>1 DEF Reap
    <3>2. Soft(new, shell[p])
      BY <1>1, SoftWritten, Zenon
    <3> HIDE DEF new
    <3> QED
      BY <3>1, <3>2, MarkingIsSoft
  <2>2. CASE ShellExits(p)
    <3>1. Soft(Dies(p), shell[p])
      BY <1>1, SoftWritten, Zenon DEF Dies
    <3> QED
      BY <2>2, <3>1 DEF ShellExits
  <2>3. CASE Bridge(p)
    <3>1. Soft(Dies(p), shell[p])
      BY <1>1, SoftWritten, Zenon DEF Dies
    <3>2. Soft([Dies(p) EXCEPT !.killed = FALSE], Dies(p))
      <4>1. Dies(p) \in ShellRec
        BY <3>1 DEF Soft
      <4> QED
        BY <4>1, SoftWritten, Zenon
    <3>3. Soft([Dies(p) EXCEPT !.killed = FALSE], shell[p])
      BY <3>1, <3>2, SoftTwice, Zenon
    <3>4. \A b \in {"gone", "hangup"} : Soft([shell[p] EXCEPT !.bridge = b], shell[p])
      BY <1>1, SoftWritten, Zenon
    <3>5. \/ \E b \in {"gone", "hangup"} : shell' = [shell EXCEPT ![p] = [shell[p] EXCEPT !.bridge = b]]
          \/ shell' = [shell EXCEPT ![p] = [Dies(p) EXCEPT !.killed = FALSE]]
      BY <2>3 DEF Bridge
    <3> QED
      BY <3>3, <3>4, <3>5, Zenon
  <2> QED
    BY <2>1, <2>2, <2>3
<1>3. Sending' = Sending
  BY <1>1, SendingStays
<1> QED
  BY <1>1, <1>2, <1>3, SoftStep

LEMMA Associates == \A S : \A s, t, u \in Seq(S) : (s \o t) \o u = s \o (t \o u)
  BY ConcatAssociative, SMTT(60)

\* A read moves the first n chunks from what is written to what is seen.
LEMMA Rejoined ==
    ASSUME NEW S, NEW s \in Seq(S), NEW o \in Seq(S), NEW n \in 1..Len(o)
    PROVE  (s \o SubSeq(o, 1, n)) \o SubSeq(o, n + 1, Len(o)) = s \o o
<1> DEFINE a == SubSeq(o, 1, n)
           b == SubSeq(o, n + 1, Len(o))
<1>1. /\ a \in Seq(S) /\ Len(a) = n /\ \A i \in 1..n : a[i] = o[i]
      /\ b \in Seq(S) /\ Len(b) = Len(o) - n /\ \A i \in 1..(Len(o) - n) : b[i] = o[n + i]
  BY Split
<1> HIDE DEF a, b
<1>2. a \o b = o
  <2>1. a \o b \in Seq(S) /\ Len(a \o b) = Len(a) + Len(b)
        /\ \A i \in 1..(Len(a) + Len(b)) : (a \o b)[i] = IF i <= Len(a) THEN a[i] ELSE b[i - Len(a)]
    BY <1>1, ConcatProperties
  <2> DEFINE c == a \o b
  <2>2. c \in Seq(S) /\ Len(c) = Len(a) + Len(b)
        /\ \A i \in 1..(Len(a) + Len(b)) : c[i] = IF i <= Len(a) THEN a[i] ELSE b[i - Len(a)]
    BY <2>1
  <2> HIDE DEF c
  <2>3. Len(o) \in Nat /\ n \in Nat /\ n <= Len(o) /\ Len(c) = Len(o)
    BY <1>1, <2>2
  <2>4. ASSUME NEW i \in 1..Len(c) PROVE c[i] = o[i]
    <3>1. CASE i <= n
      BY <1>1, <2>2, <2>3, <3>1
    <3>2. CASE ~(i <= n)
      <4>1. i - n \in 1..(Len(o) - n) /\ n + (i - n) = i /\ i \in 1..(Len(a) + Len(b))
        BY <1>1, <2>3, <3>2
      <4>2. c[i] = b[i - n]
        BY <1>1, <2>2, <3>2, <4>1
      <4>3. b[i - n] = o[n + (i - n)]
        BY <1>1, <4>1
      <4> QED
        BY <4>1, <4>2, <4>3
    <3> QED
      BY <3>1, <3>2
  <2>5. c = o
    BY <2>2, <2>3, <2>4, SeqEqual
  <2> QED
    BY <2>5 DEF c
<1>3. (s \o a) \o b = s \o (a \o b)
  <2>1. a \in Seq(S) /\ b \in Seq(S)
    BY <1>1
  <2> QED
    BY <2>1, Associates, SMTT(60)
<1> QED
  BY <1>2, <1>3 DEF a, b

LEMMA ReadIsQuiet ==
    ASSUME StateInv, Places', AnswerInv, NEW p \in Shells, Read(p)
    PROVE  AnswerInv'
<1> DEFINE me == shell[p]
           q == open[me.own]
           a == [me EXCEPT !.reader = "done"]
<1>0. TerminalsOK /\ TerminalInv /\ Places
  BY DEF StateInv, AnswerInv
<1>1. /\ me \in ShellRec /\ q \in Shells \cup {None} /\ UNCHANGED <<command, thread>>
      /\ me.seen \in Seq(Chunk) /\ me.out \in Seq(Chunk)
  BY <1>0, WiredTypes DEF Read
<1>2. Sending' = Sending /\ Truth' = Truth /\ Told' = Told
  BY <1>1, SendingStays, CommandsKept
<1>3. CASE MarkEnded(p, a, FALSE) /\ UNCHANGED past
  <2>1. Soft(a, me)
    BY <1>1, SoftWritten, Zenon
  <2> HIDE DEF a
  <2>2. \E n : Soft(n, me) /\ shell' = [shell EXCEPT ![p] = n]
    BY <1>3, <2>1, MarkingIsSoft
  <2> QED
    BY <1>0, <1>1, <1>2, <1>3, <2>2, SoftStep
<1>4. CASE ~(MarkEnded(p, a, FALSE) /\ UNCHANGED past)
  <2>1. q # None
    BY <1>4 DEF Read
  <2>2. PICK n \in 1..Len(shell[q].out) :
          /\ shell' = [shell EXCEPT ![p].seen = @ \o SubSeq(shell[q].out, 1, n),
                                    ![q].out = SubSeq(@, n + 1, Len(@))]
          /\ past' = [past EXCEPT !.strayed = @ \/ q # p]
    BY <1>4 DEF Read
  <2>3. q \in Shells /\ shell[q] \in ShellRec /\ shell[q].out \in Seq(Chunk)
    BY <1>0, <1>1, <2>1, WiredTypes
  <2> HIDE DEF a, q
  <2> DEFINE s == me.seen \o SubSeq(shell[q].out, 1, n)
             o == SubSeq(shell[q].out, n + 1, Len(shell[q].out))
             b == [me EXCEPT !.seen = s]
  <2>4. s \in Seq(Chunk) /\ o \in Seq(Chunk)
    BY <1>1, <2>3, Split
  <2>5. Holds(b, me.typed, me.busy, s, me.out)
    BY <1>1, <2>4, HoldsWritten, Zenon
  <2>6. past'.strayed = (past.strayed \/ q # p)
    <3>1. past \in PastRec
      BY DEF StateInv, TablesOK
    <3> QED
      BY <2>2, <3>1, Zenon DEF PastRec
  <2>7. CASE q = p
    <3> DEFINE c == [b EXCEPT !.out = o]
    <3>1. shell' = [shell EXCEPT ![p] = c]
      <4>1. b.out = me.out
        BY <2>5 DEF Holds
      <4>2. shell' = [[shell EXCEPT ![p] = b] EXCEPT ![p] = [b EXCEPT !.out = o]]
        BY <1>0, <1>1, <2>2, <2>7, <4>1 DEF TerminalsOK
      <4> HIDE DEF b, s, o
      <4> QED
        BY <1>0, <4>2 DEF TerminalsOK
    <3>2. Holds(c, me.typed, me.busy, s, o)
      <4>1. b \in ShellRec /\ b.typed = me.typed /\ b.busy = me.busy /\ b.seen = s
        BY <2>5, Zenon DEF Holds
      <4> HIDE DEF b, s, o
      <4>2. Holds([b EXCEPT !.out = o], b.typed, b.busy, b.seen, o)
        BY <2>4, <4>1, HoldsWritten, Zenon
      <4> QED
        BY <4>1, <4>2 DEF b
    <3> HIDE DEF c
    <3>3. /\ c \in ShellRec /\ c.typed = me.typed /\ c.busy = me.busy
          /\ c.seen = s /\ c.out = o
      BY <3>2, Zenon DEF Holds
    <3>4. s \o o = me.seen \o me.out
      BY <1>1, <2>7, Rejoined
    <3> HIDE DEF s, o, b
    <3>5. /\ Typed' = [Typed EXCEPT ![p] = me.typed] /\ Busy' = [Busy EXCEPT ![p] = me.busy]
          /\ Stream' = [Stream EXCEPT ![p] = c.seen \o c.out]
      <4>1. p \in Shells /\ c \in ShellRec
        BY <3>3
      <4>2. /\ Typed' = [Typed EXCEPT ![p] = c.typed] /\ Busy' = [Busy EXCEPT ![p] = c.busy]
            /\ Stream' = [Stream EXCEPT ![p] = c.seen \o c.out]
        BY <1>0, <3>1, <4>1, PlacesWritten, Zenon
      <4> QED
        BY <3>3, <4>2, Zenon
    <3>6. c.seen \o c.out = Stream[p]
      <4>1. Stream[p] = me.seen \o me.out
        BY DEF Stream
      <4> QED
        BY <3>3, <3>4, <4>1, Zenon
    <3>7. Typed[p] = me.typed /\ Busy[p] = me.busy
      BY DEF Typed, Busy
    <3>8. \A r \in Shells : Typed'[r] = Typed[r] /\ Busy'[r] = Busy[r] /\ Stream'[r] = Stream[r]
      <4> DEFINE new == c.seen \o c.out
      <4>1. Stream' = [Stream EXCEPT ![p] = new] /\ new = Stream[p]
        BY <3>5, <3>6
      <4> HIDE DEF new
      <4> QED
        BY <1>0, <3>5, <3>7, <4>1 DEF Places
    <3> QED
      BY <1>2, <2>6, <2>7, <3>8, QuietKeeps DEF Quiet
  <2>8. CASE q # p
    <3> DEFINE c == [shell[q] EXCEPT !.out = o]
    <3>1. shell' = [shell EXCEPT ![p] = b, ![q] = c]
      BY <1>0, <2>2, <2>3, <2>8 DEF TerminalsOK
    <3>2. c.typed = shell[q].typed /\ c.busy = shell[q].busy
      <4>1. Holds(c, shell[q].typed, shell[q].busy, shell[q].seen, o)
        BY <2>3, <2>4, HoldsWritten, Zenon
      <4> QED
        BY <4>1 DEF Holds
    <3>3. b.typed = me.typed /\ b.busy = me.busy
      BY <2>5 DEF Holds
    <3> HIDE DEF b, c, s, o
    <3>4. ASSUME NEW r \in Shells PROVE Typed'[r] = Typed[r] /\ Busy'[r] = Busy[r]
      <4>1. shell'[r] = IF r = q THEN c ELSE IF r = p THEN b ELSE shell[r]
        BY <1>0, <2>3, <2>8, <3>1 DEF TerminalsOK
      <4>2. /\ Typed[r] = shell[r].typed /\ Typed'[r] = shell'[r].typed
            /\ Busy[r] = shell[r].busy /\ Busy'[r] = shell'[r].busy
        BY DEF Typed, Busy
      <4> QED
        BY <3>2, <3>3, <4>1, <4>2
    <3> QED
      BY <1>2, <2>6, <2>8, <3>4, QuietKeeps DEF Quiet
  <2> QED
    BY <2>7, <2>8
<1> QED
  BY <1>3, <1>4

\* The truth of a command, or its answer, is written.
LEMMA CommandWritten ==
    ASSUME TablesOK, NEW c \in Commands
    PROVE  /\ \A v : command' = [command EXCEPT ![c].truth = v]
                       => Truth' = [Truth EXCEPT ![c] = v] /\ Told' = Told
           /\ \A v : command' = [command EXCEPT ![c].answer = v]
                       => Told' = [Told EXCEPT ![c] = v] /\ Truth' = Truth
<1>0. command \in [Commands -> CommandRec] /\ \A d \in Commands : command[d] \in CommandRec
  BY DEF TablesOK
<1>1. ASSUME NEW v, command' = [command EXCEPT ![c].truth = v]
      PROVE  Truth' = [Truth EXCEPT ![c] = v] /\ Told' = Told
  <2> DEFINE n == [command[c] EXCEPT !.truth = v]
  <2>1. n.truth = v /\ n.answer = command[c].answer
    BY <1>0, Zenon DEF CommandRec
  <2>2. command'[c] = n /\ \A d \in Commands : d # c => command'[d] = command[d]
    BY <1>0, <1>1
  <2> HIDE DEF n
  <2>3. Truth' = [Truth EXCEPT ![c] = v]
    BY <2>1, <2>2 DEF Truth
  <2>4. Told' = Told
    BY <2>1, <2>2 DEF Told
  <2> QED
    BY <2>3, <2>4
<1>2. ASSUME NEW v, command' = [command EXCEPT ![c].answer = v]
      PROVE  Told' = [Told EXCEPT ![c] = v] /\ Truth' = Truth
  <2> DEFINE n == [command[c] EXCEPT !.answer = v]
  <2>1. n.answer = v /\ n.truth = command[c].truth
    BY <1>0, Zenon DEF CommandRec
  <2>2. command'[c] = n /\ \A d \in Commands : d # c => command'[d] = command[d]
    BY <1>0, <1>2
  <2> HIDE DEF n
  <2>3. Told' = [Told EXCEPT ![c] = v]
    BY <2>1, <2>2 DEF Told
  <2>4. Truth' = Truth
    BY <2>1, <2>2 DEF Truth
  <2> QED
    BY <2>3, <2>4
<1> QED
  BY <1>1, <1>2

\* The shell in the guest runs, finishes or swallows a command.
LEMMA ShellKeepsAnswers ==
    ASSUME StateInv, Places', AnswerInv, NEW p \in Shells,
           ShellRuns(p) \/ ShellFinishes(p) \/ ShellSwallows(p)
    PROVE  AnswerInv'
<1> DEFINE me == shell[p]
<1>0. TerminalsOK /\ TablesOK /\ Places
  BY DEF StateInv, AnswerInv
<1>1. /\ me \in ShellRec /\ me.typed \in Seq(Commands) /\ me.busy \in Commands \cup {None}
      /\ me.out \in Seq(Chunk) /\ me.seen \in Seq(Chunk)
      /\ me.typed # << >> => Head(me.typed) \in Commands /\ Tail(me.typed) \in Seq(Commands)
  BY <1>0, ShellCommands, WiredTypes DEF StateInv
<1>2. UNCHANGED <<past, thread>>
  BY DEF ShellRuns, ShellFinishes, ShellSwallows
<1>3. Sending' = Sending /\ past'.strayed = past.strayed
  BY <1>2, SendingStays
<1>4. Typed[p] = me.typed /\ Busy[p] = me.busy /\ Stream[p] = me.seen \o me.out
  BY DEF Typed, Busy, Stream
<1>5. CASE ShellRuns(p)
  <2> DEFINE c == Head(me.typed)
             s == Tail(me.typed)
             n == [me EXCEPT !.busy = c, !.typed = s]
  <2>1. /\ shell' = [shell EXCEPT ![p] = n] /\ c \in Commands /\ s \in Seq(Commands)
        /\ me.typed # << >> /\ me.busy = None
        /\ command' = [command EXCEPT ![c].truth = "running"]
    BY <1>1, <1>5 DEF ShellRuns
  <2>2. Holds(n, s, c, me.seen, me.out)
    BY <1>1, <2>1, HoldsWritten, Zenon
  <2>3. Truth' = [Truth EXCEPT ![c] = "running"] /\ Told' = Told
    BY <1>0, <2>1, CommandWritten
  <2> HIDE DEF n
  <2>4. /\ Typed' = [Typed EXCEPT ![p] = n.typed] /\ Busy' = [Busy EXCEPT ![p] = n.busy]
        /\ Stream' = [Stream EXCEPT ![p] = n.seen \o n.out]
    <3>1. n \in ShellRec
      BY <2>2 DEF Holds
    <3> QED
      BY <1>0, <2>1, <3>1, PlacesWritten, Zenon
  <2>5. Typed' = [Typed EXCEPT ![p] = s] /\ Busy' = [Busy EXCEPT ![p] = c]
    BY <2>2, <2>4, Zenon DEF Holds
  <2>6. Stream' = Stream
    <3> DEFINE new == n.seen \o n.out
    <3>1. new = Stream[p]
      BY <1>4, <2>2, Zenon DEF Holds
    <3>2. Stream' = [Stream EXCEPT ![p] = new]
      BY <2>4
    <3> HIDE DEF new
    <3> QED
      BY <1>0, <3>1, <3>2 DEF Places
  <2>7. /\ Typed[p] # << >> /\ Busy[p] = None /\ c = Head(Typed[p])
        /\ Typed' = [Typed EXCEPT ![p] = Tail(@)] /\ SameShown
    BY <1>3, <1>4, <2>1, <2>3, <2>5, <2>6 DEF SameShown
  <2> HIDE DEF c, s
  <2> QED
    BY <1>3, <2>3, <2>5, <2>7, RunKeepsAnswers
<1>6. CASE ShellSwallows(p)
  <2> DEFINE c == Head(me.typed)
             s == Tail(me.typed)
             n == [me EXCEPT !.typed = s]
  <2>1. /\ shell' = [shell EXCEPT ![p] = n] /\ c \in Commands /\ s \in Seq(Commands)
        /\ me.typed # << >> /\ command' = [command EXCEPT ![c].truth = "lost"]
    BY <1>1, <1>6 DEF ShellSwallows
  <2>2. Holds(n, s, me.busy, me.seen, me.out)
    BY <1>1, <2>1, HoldsWritten, Zenon
  <2>3. Truth' = [Truth EXCEPT ![c] = "lost"] /\ Told' = Told
    BY <1>0, <2>1, CommandWritten
  <2> HIDE DEF n
  <2>4. /\ Typed' = [Typed EXCEPT ![p] = n.typed] /\ Busy' = [Busy EXCEPT ![p] = n.busy]
        /\ Stream' = [Stream EXCEPT ![p] = n.seen \o n.out]
    <3>1. n \in ShellRec
      BY <2>2 DEF Holds
    <3> QED
      BY <1>0, <2>1, <3>1, PlacesWritten, Zenon
  <2>5. Typed' = [Typed EXCEPT ![p] = s] /\ Busy' = [Busy EXCEPT ![p] = me.busy]
    BY <2>2, <2>4, Zenon DEF Holds
  <2>6. Stream' = Stream /\ Busy' = Busy
    <3> DEFINE new == n.seen \o n.out
    <3>1. new = Stream[p]
      BY <1>4, <2>2, Zenon DEF Holds
    <3>2. Stream' = [Stream EXCEPT ![p] = new]
      BY <2>4
    <3> HIDE DEF new
    <3> QED
      BY <1>0, <1>4, <2>5, <3>1, <3>2 DEF Places
  <2>7. /\ Typed[p] # << >> /\ c = Head(Typed[p])
        /\ Typed' = [Typed EXCEPT ![p] = Tail(@)] /\ SameShown
    BY <1>3, <1>4, <2>1, <2>3, <2>5, <2>6 DEF SameShown
  <2> HIDE DEF c, s
  <2> QED
    BY <1>3, <2>3, <2>6, <2>7, SwallowKeepsAnswers
<1>7. CASE ShellFinishes(p)
  <2> DEFINE c == me.busy
  <2>1. PICK code \in Codes :
          /\ shell' = [shell EXCEPT ![p].busy = None,
                                    ![p].out = @ \o << <<c, "marker">>, <<c, code>> >>]
          /\ command' = [command EXCEPT ![c].truth = code]
    BY <1>7 DEF ShellFinishes
  <2> DEFINE e == << <<c, "marker">>, <<c, code>> >>
             o == me.out \o e
             n == [me EXCEPT !.busy = None, !.out = o]
  <2>2. c \in Commands
    BY <1>1, <1>7 DEF ShellFinishes
  <2>3. e \in Seq(Chunk)
    BY <2>2 DEF Chunk
  <2>4. shell' = [shell EXCEPT ![p] = n]
    BY <2>1
  <2> HIDE DEF e
  <2>5. o \in Seq(Chunk)
    BY <1>1, <2>3
  <2>6. me.seen \o o = (me.seen \o me.out) \o e
    <3> DEFINE x == me.seen
               y == me.out
    <3>1. x \in Seq(Chunk) /\ y \in Seq(Chunk)
      BY <1>1
    <3> HIDE DEF x, y
    <3>2. x \o (y \o e) = (x \o y) \o e
      BY <2>3, <3>1, Associates, SMTT(60)
    <3> QED
      BY <3>2 DEF x, y
  <2> HIDE DEF o
  <2>7. Holds(n, me.typed, None, me.seen, o)
    BY <1>1, <2>5, HoldsWritten, Zenon
  <2>8. Truth' = [Truth EXCEPT ![c] = code] /\ Told' = Told
    BY <1>0, <2>1, <2>2, CommandWritten
  <2> HIDE DEF n
  <2>9. /\ Typed' = [Typed EXCEPT ![p] = n.typed] /\ Busy' = [Busy EXCEPT ![p] = n.busy]
        /\ Stream' = [Stream EXCEPT ![p] = n.seen \o n.out]
    <3>1. n \in ShellRec
      BY <2>7 DEF Holds
    <3> QED
      BY <1>0, <2>4, <3>1, PlacesWritten, Zenon
  <2>10. Typed' = [Typed EXCEPT ![p] = me.typed] /\ Busy' = [Busy EXCEPT ![p] = None]
    BY <2>7, <2>9, Zenon DEF Holds
  <2>11. Typed' = Typed
    BY <1>0, <1>4, <2>10 DEF Places
  <2>12. Stream' = [Stream EXCEPT ![p] = @ \o e]
    <3>1. n.seen = me.seen /\ n.out = o
      BY <2>7 DEF Holds
    <3>2. n.seen \o n.out = Stream[p] \o e
      BY <1>4, <2>6, <3>1, Zenon
    <3> QED
      BY <2>9, <3>2, Zenon
  <2>13. c = Busy[p]
    BY <1>4
  <2> QED
    BY <1>3, <2>2, <2>8, <2>10, <2>11, <2>12, <2>13, FinishKeepsAnswers DEF e
<1> QED
  BY <1>5, <1>6, <1>7

\* A thread takes a command that is new, and sends it.
LEMMA TypeAndSend ==
    ASSUME StateInv, Places', AnswerInv, NEW t \in Threads, Type(t) \/ Send(t)
    PROVE  AnswerInv'
<1>0. TerminalsOK /\ TablesOK /\ ThreadsOK /\ Places
  BY DEF StateInv, AnswerInv
<1>1. ASSUME NEW u \in Threads
      PROVE  /\ Sending[u] = IF thread[u].pc = "send" THEN thread[u].command ELSE None
             /\ Sending'[u] = IF thread'[u].pc = "send" THEN thread'[u].command ELSE None
  BY DEF Sending
<1>2. CASE Type(t)
  <2>1. PICK c \in Commands :
          /\ thread'[t].pc = "send" /\ thread'[t].command = c
          /\ command[c].truth = "new" /\ command' = [command EXCEPT ![c].truth = "typed"]
    BY <1>0, <1>2, TypeFits
  <2>2. \A u \in Threads \ {t} : thread'[u] = thread[u]
    BY <1>0, <1>2, TypeFits
  <2>3. Sending' = [Sending EXCEPT ![t] = c]
    <3>1. Sending'[t] = c /\ \A u \in Threads : u # t => Sending'[u] = Sending[u]
      BY <1>1, <2>1, <2>2
    <3> QED
      BY <1>0, <3>1 DEF Places
  <2>4. Truth' = [Truth EXCEPT ![c] = "typed"] /\ Told' = Told
    BY <1>0, <2>1, CommandWritten
  <2>5. Truth[c] = "new"
    BY <2>1 DEF Truth
  <2>6. UNCHANGED <<shell, past>>
    BY <1>2 DEF Type
  <2>7. Typed' = Typed /\ Busy' = Busy /\ Stream' = Stream
    BY <2>6, Zenon DEF Typed, Busy, Stream
  <2>8. SameShown
    BY <2>4, <2>6, <2>7 DEF SameShown
  <2> QED
    BY <2>3, <2>4, <2>5, <2>7, <2>8, TypeKeepsAnswers
<1>3. CASE Send(t)
  <2> DEFINE me == thread[t]
             q == IF me.fd = None THEN None ELSE open[me.fd]
             c == me.command
  <2>1. me \in ThreadRec /\ me.pc = "send" /\ c \in Commands
    BY <1>0, <1>3 DEF ThreadsOK, Fits, Send, At
  <2>2. Quits(t)
    BY <1>0, <1>3, ExecFits
  <2>3. Sending[t] = c /\ Sending' = [Sending EXCEPT ![t] = None]
    <3>1. Sending'[t] = None /\ \A u \in Threads : u # t => Sending'[u] = Sending[u]
      BY <1>1, <2>2 DEF Quits
    <3> QED
      BY <1>0, <1>1, <2>1, <3>1 DEF Places
  <2>4. UNCHANGED <<command, past>>
    BY <1>3 DEF Send
  <2>5. Truth' = Truth /\ Told' = Told
    BY <2>4, CommandsKept
  <2>6. CASE UNCHANGED shell
    <3>1. Typed' = Typed /\ Busy' = Busy /\ Stream' = Stream
      BY <2>6, Zenon DEF Typed, Busy, Stream
    <3>2. SameShown
      BY <2>4, <2>5, <3>1 DEF SameShown
    <3> QED
      BY <2>1, <2>3, <2>5, <3>1, <3>2, SendKeepsAnswers
  <2>7. CASE ~UNCHANGED shell
    <3>1. q # None /\ shell' = [shell EXCEPT ![q].typed = Append(@, c)]
      BY <1>3, <2>7 DEF Send
    <3>2. me.fd \in Handles \cup {None}
      BY <2>1, Zenon DEF ThreadRec
    <3>3. q \in Shells
      BY <1>0, <3>1, <3>2 DEF TerminalsOK
    <3> HIDE DEF q, c
    <3> DEFINE s == Append(shell[q].typed, c)
               n == [shell[q] EXCEPT !.typed = s]
    <3>4. /\ shell[q] \in ShellRec /\ s \in Seq(Commands)
      BY <1>0, <2>1, <3>3, ShellCommands
    <3>5. shell' = [shell EXCEPT ![q] = n]
      BY <3>1
    <3>6. Typed[q] = shell[q].typed /\ Busy[q] = shell[q].busy
          /\ Stream[q] = shell[q].seen \o shell[q].out
      BY <3>3 DEF Typed, Busy, Stream
    <3>7. s = Append(Typed[q], c)
      BY <3>6
    <3> HIDE DEF s
    <3>8. Holds(n, s, shell[q].busy, shell[q].seen, shell[q].out)
      BY <3>4, HoldsWritten, Zenon
    <3> HIDE DEF n
    <3>9. /\ Typed' = [Typed EXCEPT ![q] = n.typed] /\ Busy' = [Busy EXCEPT ![q] = n.busy]
          /\ Stream' = [Stream EXCEPT ![q] = n.seen \o n.out]
      <4>1. n \in ShellRec
        BY <3>8 DEF Holds
      <4> QED
        BY <1>0, <3>3, <3>5, <4>1, PlacesWritten, Zenon
    <3>10. Typed' = [Typed EXCEPT ![q] = s] /\ Busy' = [Busy EXCEPT ![q] = shell[q].busy]
      BY <3>8, <3>9, Zenon DEF Holds
    <3>11. Stream' = Stream /\ Busy' = Busy
      <4> DEFINE new == n.seen \o n.out
      <4>1. new = Stream[q]
        BY <3>6, <3>8, Zenon DEF Holds
      <4>2. Stream' = [Stream EXCEPT ![q] = new]
        BY <3>9
      <4> HIDE DEF new
      <4> QED
        BY <1>0, <3>6, <3>10, <4>1, <4>2 DEF Places
    <3>12. Typed' = [Typed EXCEPT ![q] = Append(@, Sending[t])]
      BY <2>3, <3>7, <3>10, Zenon
    <3>13. SameShown
      BY <2>4, <2>5, <3>11 DEF SameShown
    <3>14. Sending[t] \in Commands
      BY <2>1, <2>3
    <3> QED
      BY <2>3, <2>5, <3>3, <3>11, <3>12, <3>13, <3>14, SendKeepsAnswers
  <2> QED
    BY <2>6, <2>7
<1> QED
  BY <1>2, <1>3

\* The code that is found after a command's marker is what became of it.
LEMMA FoundIsTrue ==
    ASSUME NEW seen \in Seq(Chunk), NEW out \in Seq(Chunk), NEW truth,
           Paired(seen \o out), Vouched(seen \o out, truth),
           NEW c \in Commands, NEW from \in Nat, Found(seen, c, from) \in Codes
    PROVE  truth[c] = Found(seen, c, from)
<1> DEFINE marks == {i \in from + 1..Len(seen) : Marker(c, seen[i])}
           m == Min(marks)
           all == seen \o out
<1>1. marks # {}
  BY DEF Found, Codes
<1>2. m \in marks
  <2>1. marks \subseteq Nat
    OBVIOUS
  <2> QED
    BY <1>1, <2>1, Smallest
<1>3. /\ ~(m + 1 > Len(seen)) /\ seen[m + 1][2] \in Codes
      /\ Found(seen, c, from) = seen[m + 1][2]
  BY <1>1 DEF Found, Codes
<1>4. Len(seen) \in Nat /\ m \in Nat /\ m >= 1 /\ m <= Len(seen) /\ Marker(c, seen[m])
  BY <1>2
<1>5. Len(all) = Len(seen) + Len(out) /\ Len(out) \in Nat
      /\ \A i \in 1..(Len(seen) + Len(out)) : all[i] = IF i <= Len(seen) THEN seen[i] ELSE out[i - Len(seen)]
  BY ConcatProperties
<1> HIDE DEF m, marks, all
<1>6. m \in 1..Len(all) /\ m + 1 \in 1..Len(all) /\ m + 1 <= Len(seen)
  BY <1>3, <1>4, <1>5
<1>7. all[m] = seen[m] /\ all[m + 1] = seen[m + 1]
  BY <1>4, <1>5, <1>6
<1>8. seen[m] = <<c, "marker">>
  BY <1>4 DEF Marker
<1>9. Paired(all) /\ Vouched(all, truth)
  BY DEF all
<1>10. all[m][1] = c /\ all[m][2] = "marker"
  BY <1>7, <1>8
<1>11. all[m + 1][1] = c
  BY <1>6, <1>9, <1>10 DEF Paired
<1>12. truth[all[m + 1][1]] = all[m + 1][2]
  BY <1>3, <1>6, <1>7, <1>9 DEF Vouched
<1> QED
  BY <1>3, <1>7, <1>11, <1>12

\* The poll answers with the code it finds; the deadline and the end of the
\* terminal answer nothing of the command.
LEMMA AnswersKept ==
    ASSUME StateInv, Places', AnswerInv, NEW t \in Threads, Poll(t) \/ Judge(t)
    PROVE  AnswerInv'
<1> DEFINE me == thread[t]
           c == me.command
           p == me.shell
           f == Found(shell[p].seen, c, me.from)
<1>0. TerminalsOK /\ TerminalInv /\ TablesOK /\ ThreadsOK /\ Places
  BY DEF StateInv, AnswerInv
<1>1. me \in ThreadRec /\ c \in Commands /\ p \in Shells /\ me.pc # "send"
  BY <1>0 DEF ThreadsOK, Fits, Poll, Judge, At
<1>2. UNCHANGED <<shell, past>>
  BY DEF Poll, Judge
<1>3. Quits(t)
  BY <1>0, ExecFits
<1>4. Sending' = Sending
  BY <1>1, <1>3, SendingFrame
<1>5. Typed' = Typed /\ Busy' = Busy /\ Stream' = Stream /\ past'.strayed = past.strayed
  BY <1>2, Zenon DEF Typed, Busy, Stream
<1>6. CASE UNCHANGED command
  BY <1>0, <1>2, <1>4, <1>5, <1>6, SoftStep
<1>7. CASE ~UNCHANGED command
  <2>1. PICK a :
          /\ command' = [command EXCEPT ![c].answer = a]
          /\ a \in {"timeout", "running"}
             \/ (f \in Codes /\ a = IF f = "zero" THEN "completed" ELSE "failed")
    BY <1>7 DEF Poll, Judge, Answer
  <2>2. Told' = [Told EXCEPT ![c] = a] /\ Truth' = Truth
    BY <1>0, <1>1, <2>1, CommandWritten
  <2>3. ASSUME ~past.strayed, f \in Codes PROVE Truth[c] = f
    <3>1. shell[p].seen \in Seq(Chunk) /\ shell[p].out \in Seq(Chunk)
      BY <1>0, <1>1, WiredTypes
    <3>2. me.from \in Nat
      BY <1>1, Zenon DEF ThreadRec
    <3>3. Stream[p] = shell[p].seen \o shell[p].out
      BY <1>1 DEF Stream
    <3>4. Paired(Stream[p]) /\ Vouched(Stream[p], Truth)
      BY <1>1, <2>3 DEF AnswerInv, StreamInv
    <3> DEFINE seen == shell[p].seen
               out == shell[p].out
               from == me.from
               truth == Truth
    <3>5. Paired(seen \o out) /\ Vouched(seen \o out, truth) /\ Found(seen, c, from) \in Codes
      BY <2>3, <3>3, <3>4
    <3> HIDE DEF seen, out, from, c, truth
    <3>6. seen \in Seq(Chunk) /\ out \in Seq(Chunk) /\ from \in Nat /\ c \in Commands
      BY <1>1, <3>1, <3>2 DEF seen, out, from, c
    <3>7. truth[c] = Found(seen, c, from)
      BY <3>5, <3>6, FoundIsTrue
    <3> QED
      BY <3>7 DEF seen, out, from, c, truth
  <2>4. ~past.strayed => (a = "completed" => Truth[c] = "zero") /\ (a = "failed" => Truth[c] = "bad")
    BY <2>1, <2>3 DEF Codes
  <2> HIDE DEF c, f
  <2> QED
    BY <1>1, <1>4, <1>5, <2>2, <2>4, TellKeepsAnswers
<1> QED
  BY <1>6, <1>7

\* A process that has just started has answered nothing.
Fresh ==
    /\ thread = [t \in Threads |-> Idle] /\ shell = [p \in Shells |-> NoShell]
    /\ command = [c \in Commands |-> NoCommand]

LEMMA FreshAnswers == Fresh /\ Places => AnswerInv
<1> SUFFICES ASSUME Fresh, Places PROVE AnswerInv
  OBVIOUS
<1>1. /\ \A t \in Threads : Sending[t] = None
      /\ \A c \in Commands : Told[c] = None
  BY DEF Fresh, Sending, Told, Idle, NoCommand
<1>2. /\ NoShell.typed = << >> /\ NoShell.busy = None
      /\ NoShell.seen = << >> /\ NoShell.out = << >>
  BY DEF NoShell
<1>3. ASSUME NEW p \in Shells
      PROVE  Typed[p] = << >> /\ Busy[p] = None /\ Stream[p] = << >>
  <2>1. /\ Typed[p] = shell[p].typed /\ Busy[p] = shell[p].busy
        /\ Stream[p] = shell[p].seen \o shell[p].out /\ shell[p] = NoShell
    BY DEF Typed, Busy, Stream, Fresh
  <2>2. << >> \o << >> = << >>
    OBVIOUS
  <2> QED
    BY <1>2, <2>1, <2>2, Zenon
<1>4. SendInv /\ TypedInv
  BY <1>1, <1>3 DEF SendInv, TypedInv
<1>5. BusyInv
  BY <1>3 DEF BusyInv
<1>6. StreamInv
  <2>1. Paired(<< >>) /\ Vouched(<< >>, Truth)
    BY DEF Paired, Vouched
  <2> QED
    BY <1>3, <2>1 DEF StreamInv
<1>7. ToldInv
  BY <1>1, RuntimeAssumption DEF ToldInv
<1> QED
  BY <1>4, <1>5, <1>6, <1>7 DEF AnswerInv

LEMMA StatePlaces == StateInv => Places
  BY PlacesTyped DEF StateInv

LEMMA AnswerInit == Init => AnswerInv
<1>1. Init => StateInv /\ Fresh
  BY StateInit DEF Init, Fresh
<1> QED
  BY <1>1, StatePlaces, FreshAnswers

LEMMA AnswerStep == StateInv /\ AnswerInv /\ [Next]_vars => AnswerInv'
<1> SUFFICES ASSUME StateInv, AnswerInv, [Next]_vars PROVE AnswerInv'
  OBVIOUS
<1>1. Places'
  <2>1. StateInv'
    BY StateStep
  <2>2. (StateInv => Places)'
    BY StatePlaces, PTL
  <2> QED
    BY <2>1, <2>2
<1>2. CASE Restart
  <2>1. Fresh'
    BY <1>2 DEF Restart, Fresh
  <2>2. (Fresh /\ Places => AnswerInv)'
    BY FreshAnswers, PTL
  <2> QED
    BY <1>1, <2>1, <2>2
<1>3. CASE UNCHANGED vars
  <2>1. UNCHANGED <<thread, shell, command, past>>
    BY <1>3 DEF vars
  <2> QED
    BY <1>1, <2>1, SendingStays, SoftStep DEF StateInv
<1>4. ASSUME NEW t \in Threads, Accept(t) \/ Step(t) PROVE AnswerInv'
  BY <1>1, <1>4, QuietThreads, QuietClosers, NewTerminal, TypeAndSend, AnswersKept DEF Step
<1>5. ASSUME NEW p \in Shells, Read(p) \/ Reap(p) \/ Bridge(p) \/ Guest(p) PROVE AnswerInv'
  BY <1>1, <1>5, ReadIsQuiet, QuietTerminals, ShellKeepsAnswers DEF Guest
<1> QED
  BY <1>2, <1>3, <1>4, <1>5 DEF Next

\* What is answered of a command is what became of it, with any number of
\* threads typing into the shells, as long as every reader reads its own.
THEOREM AnswersTellTheTruth == Spec => []AnswersAreTrue
<1>1. AnswerInv => AnswersAreTrue
  BY DEF AnswerInv, ToldInv, Told, Truth, AnswersAreTrue
<1> QED
  BY <1>1, AnswerInit, AnswerStep, StateInvariant, PTL DEF Spec
===============================================================================
