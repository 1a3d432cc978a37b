----------------------------- MODULE AgentRuntime -----------------------------
(***************************************************************************)
(* One Agent Runtime (astra/runtime): its lifecycle and what it leaves on  *)
(* disk, the table of terminal sessions, their pseudo terminals with a     *)
(* reader and a reaper thread each, and the commands that web and chat     *)
(* threads type into them.  Both backends are modelled: proot, where the   *)
(* shell is a child on a POSIX pty, and WSL2, where the child is wsl.exe   *)
(* with a bridge behind it.                                                *)
(***************************************************************************)
EXTENDS Naturals, FiniteSets, Sequences, SequencesExt, FiniteSetsExt

CONSTANTS
    Threads,    \* request threads
    Sessions,   \* session ids
    Requests,   \* the kinds of requests that are made
    MaxShells, MaxCommands, MaxRequests, MaxRestarts,   \* bounds of the model
    None

Kinds == {"open", "exec", "close", "stop", "close_all", "start", "restart",
          "reset", "destroy", "create", "install"}

ASSUME RuntimeAssumption ==
    /\ Requests \subseteq Kinds
    /\ None \notin Sessions \cup Nat \cup Kinds \cup {"completed", "failed"}
    /\ {MaxShells, MaxCommands, MaxRequests, MaxRestarts} \subseteq Nat

VARIABLES
    host,       \* the backend, and what its probe found missing (cached for good)
    runtime,    \* _state; the state in runtime.json, None without the directory
    sessions,   \* _sessions
    shell,      \* every pseudo terminal made since the process started
    open,       \* the open file descriptors and whose terminal they are
    command,    \* every command typed: what became of it, what was answered
    guest,      \* what is installed; what detect() found; the answer of an install
    thread,
    past        \* requests and restarts so far; start() was called in this
                \* process; a reader has read from a terminal not its own

vars == <<host, runtime, sessions, shell, open, command, guest, thread, past>>

Shells == 1..MaxShells
Commands == 1..MaxCommands
\* A POSIX descriptor is the lowest free number; a pipe object is never another's.
Posix == 1..MaxShells
Pipe(p) == MaxShells + p
Handles == 1..(2 * MaxShells)

States == {"created", "running", "stopped", "failed"}
Codes == {"zero", "bad"}
Chunk == Commands \X ({"marker"} \cup Codes)
Labels == {"idle", "look", "spawn", "register", "type", "send", "poll", "judge", "pop",
           "pop_all", "shut", "grace", "down", "release", "stopped", "begin", "run",
           "remake", "erase", "detect", "bootstrap", "install", "verify"}

Idle == [pc |-> "idle", kind |-> None, key |-> None, shell |-> None, close |-> << >>,
         command |-> None, fd |-> None, from |-> 0, seen |-> "no"]
NoCommand == [truth |-> "new", answer |-> None]
NoShell == [status |-> "created", key |-> None, fd |-> None, own |-> None,
            closed |-> FALSE, lives |-> FALSE, bridge |-> None, killed |-> FALSE,
            reader |-> "done", reaper |-> "done",
            typed |-> << >>, busy |-> None, out |-> << >>, seen |-> << >>]

\* What probe() of a backend looks for.
Checks(b) == IF b = "proot" THEN {"launcher", "rootfs", "shell", "sysdata"}
             ELSE {"windows", "launcher", "distribution", "version", "tools", "session"}

TypeOK ==
    /\ host \in [backend : {"proot", "wsl2"}, missing : SUBSET (Checks("proot") \cup Checks("wsl2"))]
    /\ runtime \in [state : States, disk : States \cup {None}]
    /\ sessions \in [Sessions -> Shells \cup {None}]
    /\ shell \in [Shells ->
         [status : {"created", "running", "exited", "stopped"},
          key : Sessions \cup {None},
          fd : Handles \cup {None}, own : Handles \cup {None}, closed : BOOLEAN,
          lives : BOOLEAN, bridge : {"loop", "hangup", "gone", None},
          killed : BOOLEAN, reader : {"on", "done"}, reaper : {"on", "done"},
          typed : Seq(Commands), busy : Commands \cup {None},
          out : Seq(Chunk), seen : Seq(Chunk)]]
    /\ open \in [Handles -> Shells \cup {None}]
    /\ command \in [Commands -> [truth : {"new", "typed", "lost", "running"} \cup Codes,
                                 answer : {None, "completed", "failed", "timeout", "running"}]]
    /\ guest \in [has : SUBSET {"apt", "pip", "package"}, caps : (SUBSET {"apt", "pip"}) \cup {None},
                  told : {None, "installed", "failed"}]
    /\ thread \in [Threads ->
         [pc : Labels, kind : Kinds \cup {None}, key : Sessions \cup {None},
          shell : Shells \cup {None}, close : Seq(Shells), command : Commands \cup {None},
          fd : Handles \cup {None}, from : Nat, seen : {"no", "half"}]]
    /\ past \in [requests : Nat, restarts : Nat, started : BOOLEAN, strayed : BOOLEAN]

-------------------------------------------------------------------------------
(* Backends: discovery and preparation.                                     *)

\* probe() is made once and cached; it is available when no check failed.
Hosts == UNION {[backend : {b}, missing : {{}} \cup {{c} : c \in Checks(b)}] :
                b \in {"proot", "wsl2"}}
Available == host.missing = {}
Wsl == host.backend = "wsl2"

\* prepare(): nothing to do for proot; on WSL it needs the probe and a guest
\* that answers.
Prepared == IF Wsl THEN {r \in BOOLEAN : r => Available} ELSE {TRUE}

\* _persist(): a state of the lifecycle is on disk before the lock is left.
Persist(state) == runtime' = [state |-> state, disk |-> state]

\* create() under the lock: the directories, and what prepare() came to.
Create(state, disk) ==
    \E ok \in Prepared :
      LET kept == IF disk = None THEN "created" ELSE state
          file == IF disk = None THEN "created" ELSE disk
      IN IF ok THEN runtime' = [state |-> kept, disk |-> file] ELSE Persist("failed")

\* _restore() of a new process; what a process left "stopped" is "created" now.
\* Mutant: the state of the last process is taken over.
RestoredAsIs(disk) == IF disk = None THEN "created" ELSE disk
Restored(disk) == IF disk \in {"running", "failed"} THEN "stopped" ELSE "created"

Init ==
    /\ host \in Hosts
    /\ \E ok \in Prepared : LET state == IF ok THEN "created" ELSE "failed"
                            IN runtime = [state |-> state, disk |-> state]
    /\ sessions = [k \in Sessions |-> None]
    /\ shell = [p \in Shells |-> NoShell]
    /\ open = [h \in Handles |-> None]
    /\ command = [c \in Commands |-> NoCommand]
    /\ guest = [has |-> {"apt"}, caps |-> None, told |-> None]
    /\ thread = [t \in Threads |-> Idle]
    /\ past = [requests |-> 0, restarts |-> 0, started |-> FALSE, strayed |-> FALSE]

-------------------------------------------------------------------------------
(* Pseudo terminals.                                                        *)

At(t, where) == thread[t].pc = where
Go(t, where) == thread' = [thread EXCEPT ![t].pc = where]
Done(t) == thread' = [thread EXCEPT ![t] = Idle]
Alive(p) == shell[p].status = "running"
Made == {p \in Shells : shell[p].status # "created"}
\* The process the host waits for: the shell, or wsl.exe in front of the bridge.
Ended(p) == IF Wsl THEN shell[p].bridge = "gone" ELSE ~shell[p].lives

\* pty.fork() or Popen(), and the two threads of the terminal.
Started(p, key) ==
    LET fd == IF Wsl THEN Pipe(p) ELSE Min({h \in Posix : open[h] = None})
    IN /\ shell' = [shell EXCEPT ![p] =
                      [NoShell EXCEPT !.status = "running", !.key = key, !.fd = fd, !.own = fd,
                                      !.lives = TRUE, !.reader = "on", !.reaper = "on",
                                      !.bridge = IF Wsl THEN "loop" ELSE None]]
       /\ open' = [open EXCEPT ![fd] = p]

\* _close_fd(): swapped for None first, so that one of two callers closes it.
Closed(p) == IF shell[p].fd = None THEN open ELSE [open EXCEPT ![shell[p].fd] = None]

\* _mark_ended(): the first of reader, reaper and kill() decides the status;
\* "exited" stands for COMPLETED and FAILED, which the exit code decides.
MarkEnded(p, new, waited) ==
    IF new.status = "running"
    THEN /\ shell' = [shell EXCEPT ![p] =
              [new EXCEPT !.fd = None,
                          !.status = IF waited THEN "exited" ELSE "stopped"]]
         /\ open' = Closed(p)
    ELSE shell' = [shell EXCEPT ![p] = new] /\ UNCHANGED open

\* _read_loop() and _absorb(): from the descriptor it was started with, whoever
\* has that number now.  A read may end between a marker and its digits.
Read(p) ==
    LET me == shell[p]
        q == open[me.own]
    IN /\ me.reader = "on"
       /\ IF me.closed \/ q = None \/ (shell[q].out = << >> /\ Ended(q))
          THEN MarkEnded(p, [me EXCEPT !.reader = "done"], FALSE) /\ UNCHANGED past
          ELSE \E n \in 1..Len(shell[q].out) :
                 /\ n + 1 >= Len(shell[q].out)
                 /\ shell' = [shell EXCEPT ![p].seen = @ \o SubSeq(shell[q].out, 1, n),
                                           ![q].out = SubSeq(@, n + 1, Len(@))]
                 /\ past' = [past EXCEPT !.strayed = @ \/ q # p]
                 /\ UNCHANGED open
    /\ UNCHANGED <<host, runtime, sessions, command, guest, thread>>

\* _reap_loop(): waitpid() or wait() has come back.
Reap(p) ==
    /\ shell[p].reaper = "on" /\ Ended(p)
    /\ MarkEnded(p, [shell[p] EXCEPT !.reaper = "done"], TRUE)
    /\ UNCHANGED <<host, runtime, sessions, command, guest, thread, past>>

\* The shell ends: what it was doing and what was typed ahead is lost.
Dies(p) == [shell[p] EXCEPT !.lives = FALSE, !.busy = None, !.typed = << >>]

\* The bridge in the guest: a closed stdin is a hangup, and what has not ended
\* within EXIT_GRACE then is killed, as it is by a KILL frame.
Bridge(p) ==
    LET me == shell[p] IN
    /\ Wsl
    /\ \/ /\ me.bridge \in {"loop", "hangup"} /\ ~me.lives
          /\ shell' = [shell EXCEPT ![p].bridge = "gone"]
       \/ /\ me.lives /\ (me.bridge = "hangup" \/ me.killed)
          /\ shell' = [shell EXCEPT ![p] = [Dies(p) EXCEPT !.killed = FALSE]]
       \/ /\ me.lives /\ me.bridge = "loop" /\ open[me.own] # p
          /\ shell' = [shell EXCEPT ![p].bridge = "hangup"]
    /\ UNCHANGED <<host, runtime, sessions, open, command, guest, thread, past>>

-------------------------------------------------------------------------------
(* The shell behind a terminal (bash in the guest).                         *)

ShellRuns(p) ==
    LET me == shell[p] IN
    /\ me.lives /\ me.busy = None /\ me.typed # << >>
    /\ shell' = [shell EXCEPT ![p].busy = Head(me.typed), ![p].typed = Tail(me.typed)]
    /\ command' = [command EXCEPT ![Head(me.typed)].truth = "running"]
    /\ UNCHANGED <<host, runtime, sessions, open, guest, thread, past>>

\* The command has ended and printf writes the marker and the exit code.
ShellFinishes(p) ==
    LET c == shell[p].busy IN
    /\ shell[p].lives /\ c # None
    /\ \E code \in Codes :
         /\ shell' = [shell EXCEPT ![p].busy = None,
                                   ![p].out = @ \o << <<c, "marker">>, <<c, code>> >>]
         /\ command' = [command EXCEPT ![c].truth = code]
    /\ UNCHANGED <<host, runtime, sessions, open, guest, thread, past>>

\* A running command reads the terminal: the next one typed is its input.
ShellSwallows(p) ==
    LET me == shell[p] IN
    /\ me.lives /\ me.busy # None /\ me.typed # << >>
    /\ shell' = [shell EXCEPT ![p].typed = Tail(@)]
    /\ command' = [command EXCEPT ![Head(me.typed)].truth = "lost"]
    /\ UNCHANGED <<host, runtime, sessions, open, guest, thread, past>>

\* exit, Ctrl+D, a crash; a shell that obeys SIGTERM (an interactive bash does
\* not) or the hangup of its terminal.
ShellExits(p) ==
    /\ shell[p].lives
    /\ shell' = [shell EXCEPT ![p] = Dies(p)]
    /\ UNCHANGED <<host, runtime, sessions, open, command, guest, thread, past>>

-------------------------------------------------------------------------------
(* open_terminal() and exec_command().                                      *)

\* Bounds: an install touches nothing a terminal does and is explored alone; a
\* command needs a token of its own.
Apart(kind) == IF kind = "install" THEN Made = {} ELSE guest.caps = None
TokenLeft(kind) ==
    kind = "exec" =>
      Cardinality({t \in Threads : thread[t].kind = "exec" /\ thread[t].command = None})
        < Cardinality({c \in Commands : command[c].truth = "new"})

\* A web route or a runtime tool asks for something.
Accept(t) ==
    /\ At(t, "idle") /\ past.requests < MaxRequests
    /\ \E kind \in Requests, key \in Sessions :
         /\ Apart(kind) /\ TokenLeft(kind)
         /\ thread' = [thread EXCEPT ![t] =
              [Idle EXCEPT !.kind = kind, !.key = key,
                 !.pc = CASE kind \in {"open", "exec"} -> "look"
                          [] kind = "close" -> "pop"
                          [] kind \in {"stop", "close_all", "restart", "reset", "destroy"} -> "pop_all"
                          [] kind = "start" -> "begin"
                          [] kind = "create" -> "remake"
                          [] kind = "install" -> "detect"]]
    /\ past' = [past EXCEPT !.requests = @ + 1]
    /\ UNCHANGED <<host, runtime, sessions, shell, open, command, guest>>

\* open_terminal() has its terminal; exec_command() goes on with it.
Have(t, p) ==
    thread' = [thread EXCEPT ![t] = IF @.kind = "open" THEN Idle
                                    ELSE [@ EXCEPT !.pc = "type", !.shell = p]]

\* The lookup, under the lock; an unavailable runtime raises.
Look(t) ==
    LET key == thread[t].key
        p == sessions[key]
    IN /\ At(t, "look")
       /\ \/ ~Available /\ Done(t) /\ UNCHANGED sessions
          \/ Available /\ p # None /\ Alive(p) /\ Have(t, p) /\ UNCHANGED sessions
          \/ /\ Available /\ (p # None => ~Alive(p)) /\ Go(t, "spawn")
             /\ sessions' = [sessions EXCEPT ![key] = None]
       /\ UNCHANGED <<host, runtime, shell, open, command, guest, past>>

\* The process is made and started without the lock; fork() or Popen() may
\* raise.
Spawn(t) ==
    LET p == Cardinality(Made) + 1 IN
    /\ At(t, "spawn")
    /\ \/ /\ p <= MaxShells /\ Started(p, thread[t].key)
          /\ thread' = [thread EXCEPT ![t].pc = "register", ![t].shell = p]
       \/ Done(t) /\ UNCHANGED <<shell, open>>
    /\ UNCHANGED <<host, runtime, sessions, command, guest, past>>

Register(t) ==
    /\ At(t, "register")
    /\ sessions' = [sessions EXCEPT ![thread[t].key] = thread[t].shell]
    /\ Have(t, thread[t].shell)
    /\ UNCHANGED <<host, runtime, shell, open, command, guest, past>>

\* A new token; total_bytes(); write() takes the descriptor under its lock.
Type(t) ==
    LET left == {n \in Commands : command[n].truth = "new"}
        c == Min(left)
        p == thread[t].shell
    IN /\ At(t, "type") /\ left # {}
       /\ thread' = [thread EXCEPT ![t].pc = "send", ![t].command = c,
                        ![t].fd = shell[p].fd, ![t].from = Len(shell[p].seen)]
       /\ command' = [command EXCEPT ![c].truth = "typed"]
       /\ UNCHANGED <<host, runtime, sessions, shell, open, guest, past>>

\* os.write() goes to whoever has the number.  (The echo of the line holds no
\* marker: it is typed in two pieces.)
Send(t) ==
    LET me == thread[t]
        q == IF me.fd = None THEN None ELSE open[me.fd]
        heard == IF q = None THEN FALSE ELSE shell[q].lives
    IN /\ At(t, "send") /\ Go(t, "poll")
       /\ shell' = IF ~heard THEN shell
                   ELSE [shell EXCEPT ![q].typed = Append(@, me.command)]
       /\ UNCHANGED <<host, runtime, sessions, open, command, guest, past>>

\* The marker of this command, and the digits after it.
\* Mutant: one marker for all commands.
AnyMarker(c, chunk) == chunk[2] = "marker"
Marker(c, chunk) == chunk = <<c, "marker">>
Found(seen, c, from) ==
    LET marks == {i \in from + 1..Len(seen) : Marker(c, seen[i])} IN
    IF marks = {} THEN "no"
    ELSE LET i == Min(marks) + 1 IN
         IF i > Len(seen) THEN "half"
         ELSE IF seen[i][2] \in Codes THEN seen[i][2] ELSE "half"

Answer(t, answer) ==
    command' = [command EXCEPT ![thread[t].command].answer = answer] /\ Done(t)

\* text_since(): with an exit code the answer is decided.
Poll(t) ==
    LET me == thread[t]
        seen == Found(shell[me.shell].seen, me.command, me.from)
    IN /\ At(t, "poll")
       /\ IF seen \in Codes
          THEN Answer(t, IF seen = "zero" THEN "completed" ELSE "failed")
          ELSE /\ thread' = [thread EXCEPT ![t].pc = "judge", ![t].seen = seen]
               /\ UNCHANGED command
       /\ UNCHANGED <<host, runtime, sessions, shell, open, guest, past>>

\* The loop ends with half a marker, with the terminal or at the deadline.
Judge(t) ==
    LET me == thread[t] IN
    /\ At(t, "judge")
    /\ \/ me.seen = "no" /\ Alive(me.shell) /\ Go(t, "poll") /\ UNCHANGED command
       \/ Answer(t, IF Alive(me.shell) THEN "timeout" ELSE "running")
    /\ UNCHANGED <<host, runtime, sessions, shell, open, guest, past>>

-------------------------------------------------------------------------------
(* close_terminal(), close_all() and PtyProcess.close().                    *)

Pop(t) ==
    LET p == sessions[thread[t].key] IN
    /\ At(t, "pop")
    /\ IF p = None THEN Done(t)
       ELSE thread' = [thread EXCEPT ![t].pc = "shut", ![t].close = <<p>>]
    /\ sessions' = [sessions EXCEPT ![thread[t].key] = None]
    /\ UNCHANGED <<host, runtime, shell, open, command, guest, past>>

PopAll(t) ==
    /\ At(t, "pop_all")
    /\ thread' = [thread EXCEPT ![t].pc = "shut",
                     ![t].close = SetToSeq({sessions[k] : k \in Sessions} \ {None})]
    /\ sessions' = [k \in Sessions |-> None]
    /\ UNCHANGED <<host, runtime, shell, open, command, guest, past>>

\* Every terminal is marked closed and, while it runs, sent SIGTERM.
Shut(t) ==
    LET me == thread[t] IN
    /\ At(t, "shut")
    /\ IF me.close = << >>
       THEN /\ IF me.kind \in {"close", "close_all"} THEN Done(t) ELSE Go(t, "stopped")
            /\ UNCHANGED shell
       ELSE LET p == Head(me.close) IN
            /\ Go(t, IF Alive(p) THEN "grace" ELSE "release")
            /\ shell' = [shell EXCEPT ![p].closed = TRUE]
    /\ UNCHANGED <<host, runtime, sessions, open, command, guest, past>>

\* kill() waits for three seconds.
Grace(t) ==
    /\ At(t, "grace")
    /\ Go(t, IF Alive(Head(thread[t].close)) THEN "down" ELSE "release")
    /\ UNCHANGED <<host, runtime, sessions, shell, open, command, guest, past>>

\* SIGKILL, or the frame for it; then the status, unless it has one by now.
Killed(p) ==
    IF Wsl THEN [shell[p] EXCEPT !.killed = open[shell[p].own] = p]
    ELSE IF shell[p].lives THEN Dies(p) ELSE shell[p]
\* Mutant: the status is overwritten.
KillAlways(p) == [Killed(p) EXCEPT !.status = "stopped"]
Kill(p) == [Killed(p) EXCEPT !.status = IF @ = "running" THEN "stopped" ELSE @]

Down(t) ==
    LET p == Head(thread[t].close) IN
    /\ At(t, "down") /\ Go(t, "release")
    /\ shell' = [shell EXCEPT ![p] = Kill(p)]
    /\ UNCHANGED <<host, runtime, sessions, open, command, guest, past>>

\* Mutant: the number is closed and kept.
ReleaseKeeps(t) ==
    /\ At(t, "release")
    /\ open' = Closed(Head(thread[t].close))
    /\ thread' = [thread EXCEPT ![t].pc = "shut", ![t].close = Tail(@)]
    /\ UNCHANGED <<host, runtime, sessions, shell, command, guest, past>>
Release(t) ==
    LET p == Head(thread[t].close) IN
    /\ At(t, "release")
    /\ open' = Closed(p)
    /\ shell' = [shell EXCEPT ![p].fd = None]
    /\ thread' = [thread EXCEPT ![t].pc = "shut", ![t].close = Tail(@)]
    /\ UNCHANGED <<host, runtime, sessions, command, guest, past>>

-------------------------------------------------------------------------------
(* The lifecycle.                                                           *)

\* stop() has closed what it found.
Stopped(t) ==
    LET state == IF runtime.state = "failed" THEN "failed" ELSE "stopped"
        kind == thread[t].kind
    IN /\ At(t, "stopped")
       /\ Persist(state)
       /\ CASE kind = "stop" -> Done(t)
            [] kind = "restart" -> Go(t, "begin")
            [] kind = "reset" -> Go(t, "remake")
            [] kind = "destroy" -> Go(t, "erase")
       /\ UNCHANGED <<host, sessions, shell, open, command, guest, past>>

\* start(): the probe, then create() - which may record a failure of its own.
Begin(t) ==
    /\ At(t, "begin")
    /\ \/ ~Available /\ Persist("failed") /\ Done(t)
       \/ Available /\ Create(runtime.state, runtime.disk) /\ Go(t, "run")
    /\ UNCHANGED <<host, sessions, shell, open, command, guest, past>>

Run(t) ==
    /\ At(t, "run") /\ Done(t)
    /\ Persist("running")
    /\ past' = [past EXCEPT !.started = TRUE]
    /\ UNCHANGED <<host, sessions, shell, open, command, guest>>

\* create(), with or without the directory it finds; reset() ends here as well.
Remake(t) ==
    /\ At(t, "remake") /\ Done(t)
    /\ \E disk \in {runtime.disk} \cup (IF thread[t].kind = "create" THEN {None} ELSE {}) :
         Create(runtime.state, disk)
    /\ UNCHANGED <<host, sessions, shell, open, command, guest, past>>

Erase(t) ==
    /\ At(t, "erase") /\ Done(t)
    /\ runtime' = [state |-> "created", disk |-> None]
    /\ guest' = [guest EXCEPT !.has = @ \ {"package"}]
    /\ UNCHANGED <<host, sessions, shell, open, command, past>>

\* The process ends, its terminals with it, and a new one finds the directory.
Restart ==
    /\ past.restarts < MaxRestarts
    /\ past' = [past EXCEPT !.restarts = @ + 1, !.started = FALSE, !.strayed = FALSE]
    /\ sessions' = [k \in Sessions |-> None]
    /\ shell' = [p \in Shells |-> NoShell]
    /\ open' = [h \in Handles |-> None]
    /\ thread' = [t \in Threads |-> Idle]
    /\ command' = [c \in Commands |-> NoCommand]
    /\ guest' = [guest EXCEPT !.caps = None]
    /\ Create(Restored(runtime.disk), runtime.disk)
    /\ UNCHANGED host

-------------------------------------------------------------------------------
(* package_install() with pip: plan_install(), install() and verify().      *)

\* detect(): what a probe in the guest finds; one that fails has found nothing.
Detected == {guest.has \cap {"apt", "pip"}, {}}

\* capabilities(): what was found is kept for a minute.
Detect(t) ==
    /\ At(t, "detect")
    /\ \/ ~Available /\ Done(t) /\ UNCHANGED guest
       \/ /\ Available
          /\ \E caps \in Detected \cup (IF guest.caps = None THEN {} ELSE {guest.caps}) :
               /\ guest' = [guest EXCEPT !.caps = caps,
                                         !.told = IF caps = {} THEN "failed" ELSE None]
               /\ IF caps = {} THEN Done(t)
                  ELSE Go(t, IF "pip" \in caps THEN "install" ELSE "bootstrap")
    /\ UNCHANGED <<host, runtime, sessions, shell, open, command, past>>

Refused(t) == guest' = [guest EXCEPT !.told = "failed"] /\ Done(t)

Bootstrap(t) ==
    /\ At(t, "bootstrap")
    /\ \/ guest' = [guest EXCEPT !.has = @ \cup {"pip"}] /\ Go(t, "install")
       \/ Refused(t)
    /\ UNCHANGED <<host, runtime, sessions, shell, open, command, past>>

\* A command that ends with 0 need not have installed what was asked for.
Install(t) ==
    /\ At(t, "install")
    /\ \/ /\ \E got \in IF "pip" \in guest.has THEN {{}, {"package"}} ELSE {} :
               guest' = [guest EXCEPT !.has = @ \cup got]
          /\ Go(t, "verify")
       \/ Refused(t)
    /\ UNCHANGED <<host, runtime, sessions, shell, open, command, past>>

\* verify(): the verifier's exit code; it may also run into its timeout.
Verified == "package" \in guest.has
Verify(t) ==
    /\ At(t, "verify")
    /\ \/ Verified /\ guest' = [guest EXCEPT !.told = "installed"] /\ Done(t)
       \/ Refused(t)
    /\ UNCHANGED <<host, runtime, sessions, shell, open, command, past>>

-------------------------------------------------------------------------------
Step(t) ==
    \/ Look(t) \/ Spawn(t) \/ Register(t) \/ Type(t) \/ Send(t) \/ Poll(t) \/ Judge(t)
    \/ Pop(t) \/ PopAll(t) \/ Shut(t) \/ Grace(t) \/ Down(t) \/ Release(t)
    \/ Stopped(t) \/ Begin(t) \/ Run(t) \/ Remake(t) \/ Erase(t)
    \/ Detect(t) \/ Bootstrap(t) \/ Install(t) \/ Verify(t)

Guest(p) == ShellRuns(p) \/ ShellFinishes(p) \/ ShellSwallows(p) \/ ShellExits(p)

Next ==
    \/ \E t \in Threads : Accept(t) \/ Step(t)
    \/ \E p \in Shells : Read(p) \/ Reap(p) \/ Bridge(p) \/ Guest(p)
    \/ Restart

Spec == Init /\ [][Next]_vars

-------------------------------------------------------------------------------
(* Properties.                                                              *)

\* manager.py:467-489: what is answered of a command is what became of it,
\* with two threads typing into one shell and reading one stream - as long as
\* every reader has read from its own terminal.
AnswersAreTrue ==
    ~past.strayed =>
      \A c \in Commands :
        /\ command[c].answer = "completed" => command[c].truth = "zero"
        /\ command[c].answer = "failed" => command[c].truth = "bad"

\* A runtime is "running" only when this process has started it.
RunningWasStarted == runtime.state = "running" => past.started

\* The reader, the reaper and kill() race for the status of a terminal: it is
\* decided once.
StatusIsFinal ==
    [][\A p \in Made : shell[p].status # "running" =>
         shell'[p].status = shell[p].status \/ shell'[p] = NoShell]_vars

\* The number a terminal keeps is open and its own: closing it never closes
\* another terminal, although the number of a closed one goes to the next.
DescriptorsAreOwned ==
    \A p \in Shells : shell[p].fd # None => open[shell[p].fd] = p

\* manager.py:12 "When the ids match they resolve to the *same* `PtyProcess`":
\* two live terminals of one session.
OneShellPerSession ==
    \A p, q \in Made : Alive(p) /\ Alive(q) /\ shell[p].key = shell[q].key
                         /\ ~shell[p].closed /\ ~shell[q].closed => p = q

\* pty.py:11 "Output is read off the master fd by a dedicated thread": what a
\* terminal shows is its own.  Without that AnswersAreTrue is lost too.
ReadsOnlyItsOwn == ~past.strayed
===============================================================================
