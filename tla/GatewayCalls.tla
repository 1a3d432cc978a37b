----------------------------- MODULE GatewayCalls -----------------------------
(***************************************************************************)
(* The Gateway's own connections (astra/ai/gateway.py, gateway_routing.py):*)
(* a request thread asks for text, whole or as a stream, from a ranked list*)
(* of targets or from the connections that serve a named model; a          *)
(* connection picks a key from its pool and retries; the routing state and *)
(* its two tables outlive the process.  The score that orders the targets  *)
(* and the preference of the last successful one decide among choices that *)
(* are all open here.                                                      *)
(***************************************************************************)
EXTENDS Naturals, FiniteSets

CONSTANTS
    Conns, Keys, Models,
    Threads,        \* request threads
    Testers,        \* threads of the test buttons
    PoolOf,         \* the connection whose pool a key is in
    Serves,         \* <<connection, model>> of every configured chat model
    Bedrock,        \* the connections that do not retry (AstraGatewayBedrock)
    MaxRetries,     \* GW_MAX_RETRIES
    None

ASSUME GatewayAssumption == MaxRetries \in Nat /\ Threads \cap Testers = {}

Everyone == Threads \cup Testers

VARIABLES
    healthy,        \* Credential.healthy
    cooling,        \* keys in cooldown
    cold,           \* targets in cooldown: _health and gateway_model_health
    call            \* what every thread is doing

pool == <<healthy, cooling>>
vars == <<pool, cold, call>>

\* left: targets still to try; heard: the targets whose text the caller has;
\* ended: its terminal events.
Fresh == [pc |-> "idle", kind |-> "routed", stream |-> FALSE, left |-> {}, cur |-> None, key |-> None,
          tries |-> 0, heard |-> {}, ended |-> 0]

TypeOK ==
    /\ healthy \subseteq Keys /\ cooling \subseteq Keys
    /\ cold \subseteq Serves
    /\ call \in [Everyone ->
         [pc : {"idle", "next", "pick", "call", "reading", "fault", "served", "report",
                "return"},
          kind : {"routed", "named", "test"}, stream : BOOLEAN,
          left : SUBSET Serves, cur : Serves \cup {None},
          key : Keys \cup {None}, tries : 0..MaxRetries, heard : SUBSET Serves, ended : 0..1]]

Init ==
    /\ healthy = Keys /\ cooling = {} /\ cold = {}
    /\ call = [t \in Everyone |-> Fresh]

At(t, where) == call[t].pc = where
Put(t, new) == call' = [call EXCEPT ![t] = new]
KeysOf(c) == {k \in Keys : PoolOf[k] = c}
Fit(c) == (KeysOf(c) \cap healthy) \ cooling
Usable(c) == Fit(c) # {}

-------------------------------------------------------------------------------
(* AstraAIGateway.chat() and stream().                                      *)

\* eligible_targets(): usable connection, not in cooldown; what the category
\* and the context ask for leave some of them.
Eligible == {x \in Serves : Usable(x[1])} \ cold

\* _select_order() and the request event.
Ask(t) ==
    /\ At(t, "idle")
    /\ \E S \in SUBSET Eligible : \E s \in BOOLEAN :
         Put(t, [Fresh EXCEPT !.pc = "next", !.left = S, !.stream = s])
    /\ UNCHANGED <<pool, cold>>

\* _try_connections(), or its copy in stream(): the connections that serve the
\* model, whatever their health.
AskNamed(t, m) ==
    /\ At(t, "idle")
    /\ \E s \in BOOLEAN :
         Put(t, [Fresh EXCEPT !.pc = "next", !.kind = "named", !.stream = s,
                              !.left = {x \in Serves : x[2] = m}])
    /\ UNCHANGED <<pool, cold>>

\* record_success() and record_failure() of the routing state: a named call leaves
\* it alone.
Note(t, ok) ==
    cold' = IF call[t].kind = "named" THEN cold
            ELSE IF ok THEN cold \ {call[t].cur} ELSE cold \cup {call[t].cur}

\* The next target, or the end of the list: the terminal error is emitted and
\* chat() raises.
NextTarget(t) ==
    /\ At(t, "next")
    /\ LET c == call[t] IN
         \/ \E x \in c.left : Put(t, [c EXCEPT !.pc = "pick", !.left = @ \ {x}, !.cur = x])
         \/ c.left = {} /\ Put(t, [c EXCEPT !.pc = "return", !.ended = @ + 1, !.cur = None])
    /\ UNCHANGED <<pool, cold>>

\* The result: the routing state, then the terminal success event.
Served(t) ==
    /\ At(t, "served") /\ call[t].kind # "test"
    /\ Note(t, TRUE)
    /\ Put(t, [call[t] EXCEPT !.pc = "report"])
    /\ UNCHANGED pool
Report(t) ==
    /\ At(t, "report")
    /\ Put(t, [call[t] EXCEPT !.pc = "return", !.heard = @ \cup {call[t].cur},
                              !.ended = @ + 1])
    /\ UNCHANGED <<pool, cold>>

\* The loop of a named stream tries every connection, that of a routed one ends
\* with the first chunk.
GoesOn(t) == call[t].kind = "named" \/ call[t].heard = {}

\* Mutant: the routed stream goes on to the next target after an interruption.
FaultGoesOn(t) ==
    /\ At(t, "fault") /\ call[t].kind # "test"
    /\ Note(t, FALSE)
    /\ Put(t, [call[t] EXCEPT !.pc = "next"])
    /\ UNCHANGED pool
\* A target failed: record_failure() and an error event that is not terminal.  A
\* routed stream that was interrupted ends here; a named one goes on.
Fault(t) ==
    /\ At(t, "fault") /\ call[t].kind # "test"
    /\ Note(t, FALSE)
    /\ IF GoesOn(t) THEN Put(t, [call[t] EXCEPT !.pc = "next"])
       ELSE Put(t, [call[t] EXCEPT !.pc = "return", !.ended = @ + 1])
    /\ UNCHANGED pool

Return(t) ==
    /\ At(t, "return")
    /\ Put(t, Fresh)
    /\ UNCHANGED <<pool, cold>>

-------------------------------------------------------------------------------
(* One target: _run(), _post(), _classify_http(), and stream() of a         *)
(* connection.                                                              *)

\* pick() of a test is pinned.  Without a key the attempt is over: with the error
\* of the attempt before it, the rejection that is kept, or a generic one.
Pick(t) ==
    /\ At(t, "pick")
    /\ LET c == call[t]
           keys == IF c.kind = "test" THEN {c.key} ELSE Fit(c.cur[1])
       IN \/ \E k \in keys : Put(t, [c EXCEPT !.pc = "call", !.key = k])
          \/ keys = {} /\ Put(t, [c EXCEPT !.pc = "fault", !.tries = 0])
    /\ UNCHANGED <<pool, cold>>

MayRetry(t) == call[t].cur[1] \notin Bedrock /\ call[t].tries < MaxRetries

\* Mutant: the attempts are not counted.
AgainUncounted(t) == Put(t, [call[t] EXCEPT !.pc = "pick",
                                   !.key = IF call[t].kind = "test" THEN @ ELSE None])
Again(t) == Put(t, [call[t] EXCEPT !.pc = "pick", !.tries = @ + 1,
                                   !.key = IF call[t].kind = "test" THEN @ ELSE None])
Over(t, where) == Put(t, [call[t] EXCEPT !.pc = where, !.key = None, !.tries = 0])
Cool(k) == cooling' = cooling \cup ({k} \cap healthy)

\* 401 and 403.  What brings a rejected key back ends its cooldown too.
Rejected(t) ==
    /\ At(t, "call")
    /\ healthy' = healthy \ {call[t].key} /\ cooling' = cooling \ {call[t].key}
    /\ Over(t, "fault")
    /\ UNCHANGED cold

\* 400, 404, 409, 422 and a reply that is no JSON: nothing is held against the
\* key, but for Bedrock, which blocks it for every status.
Refused(t) ==
    /\ At(t, "call")
    /\ \/ cooling' = cooling
       \/ call[t].cur[1] \in Bedrock /\ Cool(call[t].key)
    /\ Over(t, "fault")
    /\ UNCHANGED <<healthy, cold>>

\* 408, 429, 5xx and the network: the key is blocked for a time and another one is
\* tried.  Some of the 5xx, and a socket that fails while a stream is read, are
\* not retried.
Blocked(t) ==
    /\ At(t, "call")
    /\ Cool(call[t].key)
    /\ \/ MayRetry(t) /\ Again(t)
       \/ Over(t, "fault")
    /\ UNCHANGED <<healthy, cold>>

\* Mutant: every success proves the key.
AnsweredRevives(t) ==
    /\ At(t, "call")
    /\ IF call[t].stream
       THEN UNCHANGED pool /\ Put(t, [call[t] EXCEPT !.pc = "reading"])
       ELSE /\ cooling' = cooling \ {call[t].key}
            /\ healthy' = healthy \cup {call[t].key}
            /\ Over(t, "served")
    /\ UNCHANGED cold
\* The whole answer.  A stream is open: its key is reported at the end.
Answered(t) ==
    /\ At(t, "call")
    /\ IF call[t].stream
       THEN UNCHANGED pool /\ Put(t, [call[t] EXCEPT !.pc = "reading"])
       ELSE /\ cooling' = cooling \ {call[t].key}
            /\ healthy' = healthy \cup (IF call[t].kind = "test" THEN {call[t].key} ELSE {})
            /\ Over(t, "served")
    /\ UNCHANGED cold

\* A chunk is yielded; the stream ends; a frame of another shape, or the socket
\* of Bedrock, breaks it without a report to the pool.
Chunk(t) ==
    /\ At(t, "reading") /\ call[t].cur \notin call[t].heard
    /\ Put(t, [call[t] EXCEPT !.heard = @ \cup {call[t].cur}])
    /\ UNCHANGED <<pool, cold>>
StreamEnds(t) ==
    /\ At(t, "reading")
    /\ cooling' = cooling \ {call[t].key}
    /\ Over(t, "served")
    /\ UNCHANGED <<healthy, cold>>
StreamBreaks(t) ==
    /\ At(t, "reading")
    /\ Over(t, "fault")
    /\ UNCHANGED <<pool, cold>>

-------------------------------------------------------------------------------
(* test_connection_model(): one model with one key, no other target.        *)

BeginTest(t, x, k) ==
    /\ At(t, "idle") /\ PoolOf[k] = x[1]
    /\ Put(t, [Fresh EXCEPT !.pc = "pick", !.kind = "test", !.cur = x, !.key = k])
    /\ UNCHANGED <<pool, cold>>

EndTest(t) ==
    /\ call[t].kind = "test" /\ (At(t, "served") \/ At(t, "fault"))
    /\ Note(t, At(t, "served"))
    /\ Put(t, Fresh)
    /\ UNCHANGED pool

\* The result of a probe that somebody else made (SharedHealth).
ReuseTest(t, x) ==
    /\ At(t, "idle")
    /\ cold' \in {cold \cup {x}, cold \ {x}}
    /\ UNCHANGED <<pool, call>>

-------------------------------------------------------------------------------
(* A new process, and time.                                                 *)

\* GatewayRoutingState loads the health rows again; the pools start afresh.
Restart ==
    /\ healthy' = Keys /\ cooling' = {}
    /\ call' = [t \in Everyone |-> Fresh]
    /\ UNCHANGED cold

KeyCools(k) ==
    /\ k \in cooling /\ cooling' = cooling \ {k}
    /\ UNCHANGED <<healthy, cold, call>>
TargetCools(x) ==
    /\ x \in cold /\ cold' = cold \ {x}
    /\ UNCHANGED <<pool, call>>

-------------------------------------------------------------------------------
Proceed(t) ==
    \/ NextTarget(t) \/ Pick(t) \/ Fault(t) \/ Served(t) \/ Report(t) \/ Return(t)
    \/ Rejected(t) \/ Refused(t) \/ Blocked(t) \/ Answered(t) \/ EndTest(t)
    \/ Chunk(t) \/ StreamEnds(t) \/ StreamBreaks(t)

Next ==
    \/ \E t \in Threads : Ask(t) \/ \E m \in Models : AskNamed(t, m)
    \/ \E t \in Testers : \E x \in Serves : ReuseTest(t, x) \/ \E k \in Keys : BeginTest(t, x, k)
    \/ \E t \in Everyone : Proceed(t)
    \/ Restart
    \/ \E k \in Keys : KeyCools(k) \/ \E x \in Serves : TargetCools(x)

Spec == Init /\ [][Next]_vars
\* A thread goes on: every request to a service has a timeout.
FairSpec == Spec /\ \A t \in Everyone : WF_vars(Proceed(t))

-------------------------------------------------------------------------------
(* Properties. *)

\* gateway.py:2033 "once ANY chunk has reached the caller for this call, we must
\* never silently start a second, independent stream": a routed call is answered
\* by one target, has one terminal event, and nothing after it.
Calls == INSTANCE OneAnswer WITH
    Askers <- Threads, Voices <- Serves,
    phase <- [t \in Threads |->
        IF call[t].pc = "idle" THEN "none" ELSE IF call[t].ended = 0 THEN "open" ELSE "ended"],
    voice <- [t \in Threads |->
        IF call[t].kind = "named" THEN {} ELSE call[t].heard]
ImplementsOneAnswer == Calls!Spec

\* The bounded retry of a connection and the bounded list of targets: every call
\* comes back, whatever the services answer and however often keys return.
CallsReturn == \A t \in Everyone : []<>At(t, "idle")

\* Only the success of a test of this very key, or a new process, makes a
\* rejected key usable again; a late success of another request does not.
RejectedStaysOut ==
    [][\A k \in Keys : k \in healthy' \ healthy =>
         \/ \E t \in Everyone : call[t].kind = "test" /\ call[t].key = k /\ At(t, "call")
         \/ \A t \in Everyone : call'[t] = Fresh]_vars
===============================================================================
