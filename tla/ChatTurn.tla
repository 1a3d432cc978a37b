------------------------------- MODULE ChatTurn -------------------------------
(***************************************************************************)
(* One chat turn after another (astra/ai/chat_pipeline.py): the Gateway    *)
(* understands the request, a provider does the work, alone or through the *)
(* agent tool loop (agent_tool_loop.py, tools/registry.py), the Gateway    *)
(* verifies it and has it corrected (gateway_task_completion.py), and the  *)
(* answer is returned.  An allowed or denied host command continues a turn *)
(* that was over.  The askers talk in one conversation: they share its     *)
(* execution history.  Words are drafts: 0 is the first answer, n the n-th *)
(* correction.                                                             *)
(***************************************************************************)
EXTENDS Naturals

CONSTANTS
    Askers,     \* threads that carry out the requests of one conversation
    Targets,    \* provider models
    MaxFixes,   \* MAX_CORRECTION_ATTEMPTS
    MaxSteps,   \* max_tool_steps of a loop
    MaxTries,   \* runs of one tool call: Tool.retries + 1
    None

ASSUME ChatAssumption ==
    /\ MaxFixes \in Nat /\ MaxSteps \in Nat \ {0} /\ MaxTries \in Nat \ {0}
    /\ None \notin Targets \cup 0..MaxFixes

VARIABLES
    wired,      \* a tool registry is there; the Gateway is the brain of the loop
    turn,       \* what every asker's request is doing
    log,        \* the activity log of each asker's last request: the operations
                \* without a terminal event, and whether a root has one
    history     \* the execution history of the conversation has entries

vars == <<wired, turn, log, history>>

\* must: tool execution is required; acted: this turn has added to the history;
\* port: how a correction goes back; from: who gave the last draft; draft: its
\* number; blank: nothing is in it; judged: the one the Gateway called complete;
\* said: the one replied; ends: its terminal events.
Idle == [pc |-> "idle", kind |-> "chat", gw |-> FALSE, must |-> FALSE, acted |-> FALSE, port |-> "none",
         from |-> None, steps |-> 0, runs |-> 0, fixes |-> 0, draft |-> 0,
         blank |-> FALSE, judged |-> None, said |-> None, status |-> "none", ends |-> 0]

Quiet == [open |-> {}, over |-> FALSE]
Roots == {"chat", "resume"}
Ops == {"chat", "resume", "loop", "tool"}
Labels == {"idle", "brief", "go", "model", "tool", "run", "route", "image", "check", "judge",
           "fix", "settle", "reply"}
Statuses == {"none", "COMPLETE", "INCOMPLETE", "UNCERTAIN", "FAILED", "skipped", "error"}

TypeOK ==
    /\ wired \in [tools : BOOLEAN, brain : BOOLEAN]
    /\ turn \in [Askers -> [pc : Labels, kind : {"chat", "resume"}, gw : BOOLEAN,
         must : BOOLEAN, acted : BOOLEAN, port : {"none", "chat", "gateway", "loop"},
         from : Targets \cup {None}, steps : 0..MaxSteps,
         runs : 0..MaxTries, fixes : 0..MaxFixes, draft : 0..MaxFixes, blank : BOOLEAN,
         judged : (0..MaxFixes) \cup {None}, said : (0..MaxFixes) \cup {None},
         status : Statuses, ends : 0..2]]
    /\ log \in [Askers -> [open : SUBSET Ops, over : BOOLEAN]]
    /\ history \in BOOLEAN

Init ==
    /\ wired \in [tools : BOOLEAN, brain : BOOLEAN]
    /\ turn = [a \in Askers |-> Idle]
    /\ log = [a \in Askers |-> Quiet]
    /\ history = FALSE

At(a, where) == turn[a].pc = where
Put(a, new) == turn' = [turn EXCEPT ![a] = new]
Quietly == UNCHANGED <<wired, log, history>>

\* emit() of an event with an op: the first one begins the operation, one marked
\* terminal ends it.
Begins(a, op) == log' = [log EXCEPT ![a].open = @ \cup {op}]
EndAll(a, ops) == log' = [log EXCEPT ![a] = [open |-> @.open \ ops,
                                             over |-> @.over \/ ops \cap Roots # {}]]
Ends(a, op) == EndAll(a, {op})

-------------------------------------------------------------------------------
(* run() up to the provider's work.                                         *)

\* The root operation of the turn; _gateway_usable() is read once for it.
Ask(a) ==
    /\ At(a, "idle")
    /\ \E gw \in BOOLEAN :
         Put(a, [Idle EXCEPT !.pc = IF gw THEN "brief" ELSE "go", !.gw = gw])
    /\ log' = [log EXCEPT ![a] = [Quiet EXCEPT !.open = {"chat"}]]
    /\ UNCHANGED <<wired, history>>

\* _understand(): a brief, or the raw message when the call fails or its reply
\* cannot be read.  Required execution needs a capability that is there.
Understand(a) ==
    /\ At(a, "brief")
    /\ \E must \in {FALSE, wired.tools} : Put(a, [turn[a] EXCEPT !.pc = "go", !.must = must])
    /\ Quietly

\* An image goes to the image router; with tools the work is a tool loop; else
\* it is a single call.
Dispatch(a) ==
    /\ At(a, "go")
    /\ \/ turn[a].kind = "chat" /\ Put(a, [turn[a] EXCEPT !.pc = "image"]) /\ UNCHANGED log
       \/ wired.tools /\ Put(a, [turn[a] EXCEPT !.pc = "model"]) /\ Begins(a, "loop")
       \/ ~wired.tools /\ Put(a, [turn[a] EXCEPT !.pc = "route"]) /\ UNCHANGED log
    /\ UNCHANGED <<wired, history>>

\* The operation of the turn ends, with its status.
Finish(a, now) ==
    /\ Put(a, [now EXCEPT !.pc = "reply", !.ends = @ + 1, !.gw = FALSE, !.blank = FALSE])
    /\ Ends(a, now.kind)

\* Anything that raises while the prompts are made: run() reports it and raises.
Breaks(a) ==
    /\ At(a, "go") /\ turn[a].kind = "chat"
    /\ Finish(a, [turn[a] EXCEPT !.status = "error"])
    /\ UNCHANGED <<wired, history>>

-------------------------------------------------------------------------------
(* The provider's work: a first draft, or none.                             *)

\* Where a correction of this draft will go.
PortFor(t) ==
    IF t.must /\ wired.tools THEN {"loop"}
    ELSE IF wired.tools /\ wired.brain THEN {"chat", "gateway"} ELSE {"chat"}

\* Text comes from a target: the first draft, or a correction that re-enters the
\* loop.  What follows a first draft needs a Gateway; a continuation is not verified.
Drafted(t, who, blank) ==
    LET next == IF t.gw THEN "check" ELSE "settle"
    IN {[t EXCEPT !.pc = next, !.from = who, !.draft = t.fixes, !.blank = blank,
                  !.port = p, !.steps = 0,
                  !.status = IF next = "settle" THEN "skipped" ELSE "none"] :
        p \in IF t.port = "none" THEN PortFor(t) ELSE {t.port}}

\* Mutant: a correction that fails takes the answer with it.
NoDraftLoses(t) ==
    [t EXCEPT !.pc = "settle", !.status = "FAILED", !.from = None, !.steps = 0]
\* No draft: the turn fails.  A correction that fails ends the supervision.
NoDraft(t) ==
    [t EXCEPT !.pc = "settle", !.status = "FAILED", !.steps = 0]

\* route_request(), or its second call for a plain chat.
Route(a) ==
    /\ At(a, "route")
    /\ \/ \E v \in Targets : \E new \in Drafted(turn[a], v, FALSE) : Put(a, new)
       \/ Put(a, NoDraft(turn[a]))
    /\ Quietly

\* _route_image(): never a text answer.  The image is not verified.
RouteImage(a) ==
    /\ At(a, "image")
    /\ \/ \E v \in Targets :
            Put(a, [turn[a] EXCEPT !.pc = "settle", !.from = v, !.status = "skipped"])
       \/ Put(a, NoDraft(turn[a]))
    /\ Quietly

-------------------------------------------------------------------------------
(* AgentToolLoop.run().                                                     *)

\* The model answers: with the final text, which may be blank.
LoopAnswers(a) ==
    /\ At(a, "model")
    /\ \E v \in Targets, blank \in BOOLEAN :
         \E new \in Drafted(turn[a], v, blank) : Put(a, new)
    /\ Ends(a, "loop")
    /\ UNCHANGED <<wired, history>>

\* Mutant: the steps are not counted.
LoopCallsToolForever(a) ==
    /\ At(a, "model")
    /\ Put(a, [turn[a] EXCEPT !.pc = "tool"])
    /\ Quietly
\* ... or with a tool call; the last step leaves its text as the answer.
LoopCallsTool(a) ==
    /\ At(a, "model") /\ turn[a].steps < MaxSteps
    /\ Put(a, [turn[a] EXCEPT !.pc = "tool", !.steps = @ + 1])
    /\ Quietly

\* The model fails; or the loop does, and its row is left for the turn to close.
LoopFails(a) ==
    /\ At(a, "model")
    /\ Put(a, NoDraft(turn[a]))
    /\ Ends(a, "loop") \/ UNCHANGED log
    /\ UNCHANGED <<wired, history>>

\* A result, good or bad, is recorded and fed back.
Result(a) ==
    /\ IF turn[a].steps = MaxSteps
       THEN \E v \in Targets :
              \E new \in Drafted([turn[a] EXCEPT !.runs = 0, !.acted = TRUE], v, FALSE) :
                Put(a, new)
       ELSE Put(a, [turn[a] EXCEPT !.pc = "model", !.runs = 0, !.acted = TRUE])
    /\ history' = TRUE
    /\ UNCHANGED wired

\* An unknown tool, one the agent may not run, a refusal of the policy, arguments
\* that do not fit: nothing runs.
ToolRefused(a) ==
    /\ At(a, "tool")
    /\ Result(a)
    /\ EndAll(a, IF turn[a].steps = MaxSteps THEN {"loop"} ELSE {})

ToolStarts(a) ==
    /\ At(a, "tool")
    /\ Put(a, [turn[a] EXCEPT !.pc = "run", !.runs = 1])
    /\ Begins(a, "tool")
    /\ UNCHANGED <<wired, history>>

\* The call returns, or has raised in its last try; join() of a thread that goes
\* on is a failure like another.
ToolEnds(a) ==
    /\ At(a, "run")
    /\ Result(a)
    /\ EndAll(a, {"tool"} \cup IF turn[a].steps = MaxSteps THEN {"loop"} ELSE {})
ToolAgain(a) ==
    /\ At(a, "run") /\ turn[a].runs < MaxTries
    /\ Put(a, [turn[a] EXCEPT !.runs = @ + 1])
    /\ Quietly

-------------------------------------------------------------------------------
(* supervise(): verify, correct, verify again.                              *)

\* verify_task_completion() before it asks anybody: the shape and the evidence.
\* The evidence is read again each time.
Evident(a) == turn[a].must => history
Check(a) ==
    /\ At(a, "check")
    /\ Put(a, IF ~turn[a].blank /\ Evident(a) THEN [turn[a] EXCEPT !.pc = "judge"]
              ELSE [turn[a] EXCEPT !.pc = "fix", !.status = "INCOMPLETE"])
    /\ Quietly

\* The semantic verifier.  A call that fails, or a verdict nobody can read, is a
\* failed verification: the answer goes out unverified.
Judge(a) ==
    /\ At(a, "judge")
    /\ \/ Put(a, [turn[a] EXCEPT !.pc = "settle", !.status = "COMPLETE", !.judged = turn[a].draft])
       \/ Put(a, [turn[a] EXCEPT !.pc = "fix", !.status = "INCOMPLETE"])
       \/ Put(a, [turn[a] EXCEPT !.pc = "settle", !.status = "FAILED"])
    /\ Quietly

\* Mutant: the correction may be served by whoever is free.
FixAnywhere(a) ==
    /\ At(a, "fix")
    /\ IF turn[a].fixes = MaxFixes THEN Put(a, [turn[a] EXCEPT !.pc = "settle"])
       ELSE \E v \in Targets : \E new \in Drafted([turn[a] EXCEPT !.fixes = @ + 1], v, FALSE) :
              Put(a, new)
    /\ Quietly
\* A correction: to the target of the draft and to no other (_ChatPort), to the
\* Gateway's connections (_GatewayPort), or through the loop (_ToolLoopPort).
Fix(a) ==
    /\ At(a, "fix")
    /\ LET t == [turn[a] EXCEPT !.fixes = @ + 1]
           voices == IF t.port = "chat" THEN {t.from} ELSE Targets
       IN \/ turn[a].fixes = MaxFixes /\ Put(a, [turn[a] EXCEPT !.pc = "settle"])
             /\ UNCHANGED log
          \/ turn[a].fixes < MaxFixes /\ t.port = "loop" /\ Put(a, [t EXCEPT !.pc = "model"])
             /\ Begins(a, "loop")
          \/ /\ turn[a].fixes < MaxFixes /\ t.port # "loop"
             /\ \/ \E v \in voices : \E new \in Drafted(t, v, FALSE) : Put(a, new)
                \/ Put(a, NoDraft(t))
             /\ UNCHANGED log
    /\ UNCHANGED <<wired, history>>

\* supervise_task() itself raises: the turn is over, with its first draft.
VerifyBreaks(a) ==
    /\ At(a, "check")
    /\ Finish(a, [turn[a] EXCEPT !.status = "error", !.said = 0])
    /\ UNCHANGED <<wired, history>>

-------------------------------------------------------------------------------
(* The end of the turn.                                                     *)

\* Mutant: the reply is made of the first answer.
TextFirst(t) == IF t.from = None THEN None ELSE 0
\* The text: the final one, the last one that came, the first.
Text(t) == IF t.from = None THEN None ELSE IF t.blank THEN 0 ELSE t.draft

Settle(a) ==
    /\ At(a, "settle")
    /\ Finish(a, [turn[a] EXCEPT !.said = Text(turn[a])])
    /\ UNCHANGED <<wired, history>>

\* The reply is handed to the web thread.  What the turn did stays in
\* the history of the conversation.
Reply(a) ==
    /\ At(a, "reply")
    /\ Put(a, Idle)
    /\ Quietly

\* resume_host_fallback(): under the request id of the turn it continues, with
\* an operation of its own.  Without tools the outcome is summed up.
Resume(a) ==
    /\ At(a, "idle") /\ log[a].over
    /\ Put(a, [Idle EXCEPT !.kind = "resume",
                           !.pc = IF wired.tools THEN "go" ELSE "settle"])
    /\ Begins(a, "resume")
    /\ UNCHANGED <<wired, history>>

\* The continuation raises: reported as failed, and then as finished.
ResumeBreaks(a) ==
    /\ At(a, "go") /\ turn[a].kind = "resume"
    /\ Put(a, [turn[a] EXCEPT !.pc = "reply", !.ends = 2, !.status = "error"])
    /\ Ends(a, "resume")
    /\ UNCHANGED <<wired, history>>

-------------------------------------------------------------------------------
(* The execution history is bounded; the process may stop.                  *)

\* The scope is evicted: the newest scopes of other conversations stay.
Forget ==
    /\ history /\ history' = FALSE
    /\ UNCHANGED <<wired, turn, log>>

\* Mutant: an operation stands for itself.
CoveredByItself(a, op) == log[a].over \/ log[a].open \cap Roots # {}
\* reconcile_stale_operations(): an operation that was begun and never ended gets
\* a terminal event, unless another one of the same request stands for it: one
\* that has ended, or a stale one with the request id on its own row.
Covered(a, op) == log[a].over \/ (log[a].open \cap Roots) \ {op} # {}
Boot ==
    /\ turn' = [a \in Askers |-> Idle]
    /\ log' = [a \in Askers |->
                 LET closed == {op \in log[a].open : ~Covered(a, op)}
                 IN [open |-> log[a].open \ closed,
                     over |-> log[a].over \/ closed \cap Roots # {}]]
    /\ history' = FALSE
    /\ UNCHANGED wired

-------------------------------------------------------------------------------
Proceed(a) ==
    \/ Understand(a) \/ Dispatch(a) \/ Breaks(a) \/ Route(a) \/ RouteImage(a)
    \/ LoopAnswers(a) \/ LoopCallsTool(a) \/ LoopFails(a)
    \/ ToolRefused(a) \/ ToolStarts(a) \/ ToolEnds(a) \/ ToolAgain(a)
    \/ Check(a) \/ Judge(a) \/ Fix(a) \/ VerifyBreaks(a)
    \/ Settle(a) \/ Reply(a) \/ ResumeBreaks(a)

Next ==
    \/ \E a \in Askers : Ask(a) \/ Resume(a) \/ Proceed(a)
    \/ Forget
    \/ Boot

Spec == Init /\ [][Next]_vars
\* Every call to a model or a tool has a timeout.
FairSpec == Spec /\ \A a \in Askers : WF_vars(Proceed(a))

-------------------------------------------------------------------------------
(* Properties.                                                              *)

\* chat_pipeline.py: a turn has one root operation; whatever path it takes
\* there is one terminal event, and a plain answer and all its corrections come
\* from one target ("Sends a correction back to the SAME provider/model").
Plain(t) == t.port = "chat" /\ t.kind = "chat"
Turns == INSTANCE OneAnswer WITH
    Askers <- Askers, Voices <- Targets,
    phase <- [a \in Askers |->
        IF At(a, "idle") \/ turn[a].kind = "resume" THEN "none"
        ELSE IF turn[a].ends = 0 THEN "open" ELSE IF turn[a].ends = 1 THEN "ended" ELSE "again"],
    voice <- [a \in Askers |-> IF Plain(turn[a]) THEN {turn[a].from} ELSE {}]
ImplementsOneAnswer == Turns!Spec

\* Every request is answered, however the models behave: the steps of a loop, the
\* tries of a tool and the corrections are all bounded.
TurnsReturn == \A a \in Askers : []<>At(a, "idle")

\* "never claims completion that the last verification didn't actually confirm":
\* a turn reported COMPLETE says the very draft that the Gateway called complete.
CompleteIsVerified ==
    \A a \in Askers : At(a, "reply") /\ turn[a].status = "COMPLETE" =>
        turn[a].said = turn[a].judged

\* An answer that was got is given: no failure of a correction, of the Gateway or
\* of the verification loses it.
GoodAnswerIsKept ==
    \A a \in Askers :
        At(a, "reply") /\ turn[a].kind = "chat" /\ (turn[a].from # None \/ turn[a].fixes > 0) =>
            turn[a].said # None

\* Nothing of a chat turn that is over, by its end or by a crash, is shown as
\* running for ever: its rows have ended or its root has.
NothingRunsForever ==
    \A a \in Askers : At(a, "idle") => log[a].open = {} \/ log[a].over

\* events.py:224 "any op-correlated operation that has a start event but no
\* terminal event in the recent history ... gets one synthetic
\* operation.interrupted terminal": a continuation is such an operation.
ResumedRowsEnd ==
    \A a \in Askers : At(a, "idle") => "resume" \notin log[a].open

\* chat_pipeline.py:684 "exactly the tool actions the agent actually performed
\* this turn": a turn that had to run a tool and is COMPLETE has run one.
EvidenceIsOfThisTurn ==
    \A a \in Askers : turn[a].must /\ turn[a].status = "COMPLETE" => turn[a].acted
===============================================================================
