-------------------------- MODULE GatewayCalls_proof --------------------------
(***************************************************************************)
(* What the runs of GatewayCalls, SharedHealth and ProviderRouting show on *)
(* small instances, for any connections, keys, models, threads and bounds: *)
(* a rejected key stays out, a call implements OneAnswer, probes do not    *)
(* overlap, and a route marks its own keys and tries every candidate.      *)
(***************************************************************************)
EXTENDS GatewayTests, ProviderRouting, TLAPS

\* gateway.py _report() and the pools: no step but the answer to a test, or a new
\* process, adds to the healthy keys.
LEMMA ProceedKeepsRejected ==
    ASSUME NEW t \in Everyone, Proceed(t), NEW k \in Keys, k \in healthy' \ healthy
    PROVE  call[t].kind = "test" /\ call[t].key = k /\ At(t, "call")
<1>1. CASE NextTarget(t) \/ Pick(t) \/ Fault(t) \/ Served(t) \/ Report(t) \/ Return(t) \/ EndTest(t)
            \/ Chunk(t) \/ StreamEnds(t) \/ StreamBreaks(t) \/ Refused(t) \/ Blocked(t)
    BY <1>1 DEF NextTarget, Pick, Fault, Served, Report, Return, EndTest, Chunk, StreamEnds,
                StreamBreaks, Refused, Blocked, pool
<1>2. CASE Rejected(t)
    BY <1>2 DEF Rejected
<1>3. CASE Answered(t)
    BY <1>3 DEF Answered, pool
<1> QED BY <1>1, <1>2, <1>3 DEF Proceed

\* A key that a service has rejected is picked again only after a successful test
\* of that very key, or in a new process.
THEOREM KeysStayRejected == Spec => RejectedStaysOut
<1> DEFINE Proved(k) ==
        \/ \E t \in Everyone : call[t].kind = "test" /\ call[t].key = k /\ At(t, "call")
        \/ \A t \in Everyone : call'[t] = Fresh
<1>1. ASSUME [Next]_vars, NEW k \in Keys, k \in healthy' \ healthy
      PROVE  Proved(k)
    <2>1. CASE \E t \in Everyone : Proceed(t)
        BY <1>1, <2>1, ProceedKeepsRejected
    <2>2. CASE Restart
        BY <2>2 DEF Restart
    <2>3. CASE \E t \in Threads : Ask(t) \/ \E m \in Models : AskNamed(t, m)
        BY <1>1, <2>3 DEF Ask, AskNamed, pool
    <2>4. CASE \E t \in Testers : \E x \in Serves : ReuseTest(t, x) \/ \E k1 \in Keys : BeginTest(t, x, k1)
        BY <1>1, <2>4 DEF ReuseTest, BeginTest, pool
    <2>5. CASE \/ \E k1 \in Keys : KeyCools(k1)
               \/ \E x \in Serves : TargetCools(x)
        BY <1>1, <2>5 DEF KeyCools, TargetCools, pool
    <2>6. CASE UNCHANGED vars
        BY <1>1, <2>6 DEF vars, pool
    <2> QED BY <1>1, <2>1, <2>2, <2>3, <2>4, <2>5, <2>6 DEF Next
<1>2. ASSUME [Next]_vars
      PROVE  [\A k \in Keys : k \in healthy' \ healthy => Proved(k)]_vars
    BY <1>1, <1>2
<1> QED BY <1>2, PTL DEF Spec, RejectedStaysOut

-------------------------------------------------------------------------------
(* The record of a call, and what holds of it at every place of the code.    *)

Records ==
    [pc : {"idle", "next", "pick", "call", "reading", "fault", "served", "report", "return"},
     kind : {"routed", "named", "test"}, stream : BOOLEAN,
     left : SUBSET Serves, cur : Serves \cup {None},
     key : Keys \cup {None}, tries : 0..MaxRetries, heard : SUBSET Serves, ended : 0..1]

WithTarget == {"pick", "call", "reading", "fault", "served", "report"}

\* A call has a target while it works at one and a key while it uses one; its
\* only terminal event is the last thing it does; and a routed call is heard
\* from the target it is working at or from nobody.
Sound(c) ==
    /\ c \in Records
    /\ c.pc = "idle" => c = Fresh
    /\ c.pc \in WithTarget => c.cur \in Serves
    /\ c.pc = "call" \/ (c.kind = "test" /\ c.pc = "pick") => c.key \in Keys
    /\ c.kind = "test" => c.pc \in {"pick", "call", "reading", "fault", "served"}
    /\ IF c.pc = "return" THEN c.ended = 1 ELSE c.ended = 0
    /\ c.kind = "routed" =>
         /\ c.pc \in {"next", "pick", "call"} => c.heard = {}
         /\ c.pc \in {"reading", "fault", "served", "report"} => c.heard \subseteq {c.cur}

GatewayInv ==
    /\ TypeOK
    /\ \A t \in Everyone : Sound(call[t])
    /\ \A t \in Threads : call[t].kind # "test"

\* The phase and the voice of a call, as ImplementsOneAnswer maps them.
PhaseOf(c) == IF c.pc = "idle" THEN "none" ELSE IF c.ended = 0 THEN "open" ELSE "ended"
VoiceOf(c) == IF c.kind = "named" THEN {} ELSE c.heard

\* What OneAnswer lets a step make of one operation.
Told(c, new) ==
    \/ PhaseOf(new) = PhaseOf(c) /\ VoiceOf(new) = VoiceOf(c)
    \/ PhaseOf(c) = "none" /\ PhaseOf(new) = "open" /\ VoiceOf(new) = VoiceOf(c)
    \/ /\ PhaseOf(c) = "open" /\ PhaseOf(new) \in {"open", "ended"}
       /\ \E v \in Serves : VoiceOf(c) = {} /\ VoiceOf(new) = {v}
    \/ PhaseOf(c) = "open" /\ PhaseOf(new) = "ended" /\ VoiceOf(new) = VoiceOf(c)
    \/ PhaseOf(c) = "ended" /\ PhaseOf(new) = "none" /\ VoiceOf(new) = {}

\* What a step of thread t makes of its call, and of what the connections know.
Becomes(t, new) ==
    /\ Put(t, new) /\ Sound(new)
    /\ t \in Threads => new.kind # "test" /\ Told(call[t], new)
StepOK(t) ==
    /\ healthy' \subseteq Keys /\ cooling' \subseteq Keys /\ cold' \subseteq Serves
    /\ \E new \in Records : Becomes(t, new)

LEMMA StepKeepsInv ==
    ASSUME GatewayInv, NEW t \in Everyone, StepOK(t)
    PROVE  GatewayInv'
<1>1. PICK new \in Records : /\ Put(t, new) /\ Sound(new)
                             /\ t \in Threads => new.kind # "test"
    BY DEF StepOK, Becomes
<1>2. call \in [Everyone -> Records]
    BY DEF GatewayInv, TypeOK, Records
<1>3. call' \in [Everyone -> Records]
    BY <1>1, <1>2 DEF Put
<1>4. TypeOK'
    BY <1>3 DEF StepOK, TypeOK, Records
<1>5. \A u \in Everyone : call'[u] = IF u = t THEN new ELSE call[u]
    BY <1>1, <1>2 DEF Put
<1>6. \A u \in Everyone : Sound(call[u])'
    <2> SUFFICES ASSUME NEW u \in Everyone PROVE Sound(call'[u])
        OBVIOUS
    <2> QED BY <1>1, <1>5 DEF GatewayInv
<1>7. \A u \in Threads : call'[u].kind # "test"
    BY <1>1, <1>5 DEF GatewayInv, Everyone
<1> QED BY <1>4, <1>6, <1>7 DEF GatewayInv

LEMMA FreshIsSound == Sound(Fresh) /\ Fresh \in Records
BY GatewayAssumption DEF Sound, Records, Fresh, WithTarget

\* A step that changes one call to `new`.
LEMMA OneCall ==
    ASSUME NEW t, NEW new, Becomes(t, new),
           healthy' \subseteq Keys, cooling' \subseteq Keys, cold' \subseteq Serves
    PROVE  StepOK(t)
BY DEF StepOK, Becomes, Sound

\* The numbers that steps write.
LEMMA Numbers == 0 \in 0..MaxRetries /\ 0 \in 0..1 /\ 1 \in 0..1 /\ 0 + 1 = 1
BY GatewayAssumption

\* What is known of a call before each step of it.
LEMMA CallFacts ==
    ASSUME GatewayInv, NEW t \in Everyone
    PROVE  /\ Sound(call[t]) /\ call[t] \in Records
           /\ healthy \subseteq Keys /\ cooling \subseteq Keys /\ cold \subseteq Serves
           /\ t \in Threads => call[t].kind # "test"
BY DEF GatewayInv, TypeOK, Sound

\* The next target of the list, or its end.
LEMMA StepNextTarget ==
    ASSUME GatewayInv, NEW t \in Everyone, NextTarget(t)
    PROVE  StepOK(t)
<1> DEFINE c == call[t]
<1>0. /\ Sound(c) /\ c \in Records /\ (t \in Threads => c.kind # "test")
      /\ healthy' \subseteq Keys /\ cooling' \subseteq Keys /\ cold' \subseteq Serves
      /\ c.pc = "next"
    BY CallFacts DEF NextTarget, At, pool
<1>1. c.ended = 0 /\ c.kind # "test" /\ (c.kind = "routed" => c.heard = {})
      /\ c.left \subseteq Serves /\ c.heard \subseteq Serves
    BY <1>0 DEF Sound, Records, WithTarget
<1> HIDE DEF c
<1>2. ASSUME NEW x \in c.left, Put(t, [c EXCEPT !.pc = "pick", !.left = @ \ {x}, !.cur = x])
      PROVE  StepOK(t)
    <2> DEFINE new == [c EXCEPT !.pc = "pick", !.left = @ \ {x}, !.cur = x]
    <2>1. x \in Serves /\ c.left \ {x} \in SUBSET Serves
        BY <1>0, <1>1, <1>2, Numbers
    <2>2. new \in Records
        BY <1>0, <2>1, Zenon DEF Records
    <2>3. /\ new.pc = "pick" /\ new.kind = c.kind /\ new.cur = x
          /\ new.key = c.key /\ new.heard = c.heard /\ new.ended = c.ended
        BY <1>0, <2>1, Zenon DEF Records
    <2> HIDE DEF new
    <2>4. Sound(new)
        BY <1>0, <1>1, <1>2, <2>1, <2>2, <2>3 DEF Sound, WithTarget
    <2>5. c.kind # "test" => Told(c, new)
        BY <1>0, <1>1, <1>2, <2>1, <2>3 DEF Told, PhaseOf, VoiceOf
    <2> QED BY <1>0, <1>2, <2>3, <2>4, <2>5, OneCall DEF Becomes, c, new
<1>3. ASSUME Put(t, [c EXCEPT !.pc = "return", !.ended = @ + 1, !.cur = None])
      PROVE  StepOK(t)
    <2> DEFINE new == [c EXCEPT !.pc = "return", !.ended = @ + 1, !.cur = None]
    <2>1. c.ended + 1 \in 0..1 /\ c.ended + 1 = 1
        BY <1>0, <1>1, <1>3, Numbers
    <2>2. new \in Records
        BY <1>0, <2>1, Zenon DEF Records
    <2>3. /\ new.pc = "return" /\ new.kind = c.kind /\ new.cur = None
          /\ new.key = c.key /\ new.heard = c.heard /\ new.ended = 1
        BY <1>0, <2>1, Zenon DEF Records
    <2> HIDE DEF new
    <2>4. Sound(new)
        BY <1>0, <1>1, <1>3, <2>1, <2>2, <2>3 DEF Sound, WithTarget
    <2>5. c.kind # "test" => Told(c, new)
        BY <1>0, <1>1, <1>3, <2>1, <2>3 DEF Told, PhaseOf, VoiceOf
    <2> QED BY <1>0, <1>3, <2>3, <2>4, <2>5, OneCall DEF Becomes, c, new
<1> QED BY <1>0, <1>1, <1>2, <1>3 DEF NextTarget, c

\* A key of the pool, or none.
LEMMA StepPick ==
    ASSUME GatewayInv, NEW t \in Everyone, Pick(t)
    PROVE  StepOK(t)
<1> DEFINE c == call[t]
<1>0. /\ Sound(c) /\ c \in Records /\ (t \in Threads => c.kind # "test")
      /\ healthy' \subseteq Keys /\ cooling' \subseteq Keys /\ cold' \subseteq Serves
      /\ c.pc = "pick"
    BY CallFacts DEF Pick, At, pool
<1>1. /\ c.ended = 0 /\ (c.kind = "routed" => c.heard = {}) /\ c.cur \in Serves
      /\ c.heard \subseteq Serves /\ (c.kind = "test" => c.key \in Keys)
    BY <1>0 DEF Sound, Records, WithTarget
<1> HIDE DEF c
<1>2. ASSUME NEW k \in Keys, Put(t, [c EXCEPT !.pc = "call", !.key = k])
      PROVE  StepOK(t)
    <2> DEFINE new == [c EXCEPT !.pc = "call", !.key = k]
    <2>1. k \in Keys
        BY <1>0, <1>1, <1>2, Numbers
    <2>2. new \in Records
        BY <1>0, <2>1, Zenon DEF Records
    <2>3. /\ new.pc = "call" /\ new.kind = c.kind /\ new.cur = c.cur
          /\ new.key = k /\ new.heard = c.heard /\ new.ended = c.ended
        BY <1>0, <2>1, Zenon DEF Records
    <2> HIDE DEF new
    <2>4. Sound(new)
        BY <1>0, <1>1, <1>2, <2>1, <2>2, <2>3 DEF Sound, WithTarget
    <2>5. c.kind # "test" => Told(c, new)
        BY <1>0, <1>1, <1>2, <2>1, <2>3 DEF Told, PhaseOf, VoiceOf
    <2> QED BY <1>0, <1>2, <2>3, <2>4, <2>5, OneCall DEF Becomes, c, new
<1>3. ASSUME Put(t, [c EXCEPT !.pc = "fault", !.tries = 0])
      PROVE  StepOK(t)
    <2> DEFINE new == [c EXCEPT !.pc = "fault", !.tries = 0]
    <2>1. 0 \in 0..MaxRetries
        BY <1>0, <1>1, <1>3, Numbers
    <2>2. new \in Records
        BY <1>0, <2>1, Zenon DEF Records
    <2>3. /\ new.pc = "fault" /\ new.kind = c.kind /\ new.cur = c.cur
          /\ new.key = c.key /\ new.heard = c.heard /\ new.ended = c.ended
        BY <1>0, <2>1, Zenon DEF Records
    <2> HIDE DEF new
    <2>4. Sound(new)
        BY <1>0, <1>1, <1>3, <2>1, <2>2, <2>3 DEF Sound, WithTarget
    <2>5. c.kind # "test" => Told(c, new)
        BY <1>0, <1>1, <1>3, <2>1, <2>3 DEF Told, PhaseOf, VoiceOf
    <2> QED BY <1>0, <1>3, <2>3, <2>4, <2>5, OneCall DEF Becomes, c, new
<1> QED BY <1>0, <1>1, <1>2, <1>3 DEF Pick, Fit, KeysOf, c

\* The result and its terminal event.
LEMMA StepReport ==
    ASSUME GatewayInv, NEW t \in Everyone, Report(t)
    PROVE  StepOK(t)
<1> DEFINE c == call[t]
<1>0. /\ Sound(c) /\ c \in Records /\ (t \in Threads => c.kind # "test")
      /\ healthy' \subseteq Keys /\ cooling' \subseteq Keys /\ cold' \subseteq Serves
      /\ c.pc = "report"
    BY CallFacts DEF Report, At, pool
<1>1. /\ c.ended = 0 /\ (c.kind = "routed" => c.heard \subseteq {c.cur}) /\ c.cur \in Serves
      /\ c.heard \subseteq Serves /\ c.kind \in {"routed", "named"}
    BY <1>0 DEF Sound, Records, WithTarget
<1> HIDE DEF c
<1>2. ASSUME Put(t, [c EXCEPT !.pc = "return", !.heard = @ \cup {c.cur}, !.ended = @ + 1])
      PROVE  StepOK(t)
    <2> DEFINE new == [c EXCEPT !.pc = "return", !.heard = @ \cup {c.cur}, !.ended = @ + 1]
    <2>1. c.ended + 1 \in 0..1 /\ c.ended + 1 = 1 /\ c.heard \cup {c.cur} \in SUBSET Serves
        BY <1>0, <1>1, <1>2, Numbers
    <2>a. c.kind = "routed" => \/ c.heard = {} /\ c.heard \cup {c.cur} = {c.cur}
                               \/ c.heard \cup {c.cur} = c.heard
        BY <1>0, <1>1
    <2>2. new \in Records
        BY <1>0, <2>1, Zenon DEF Records
    <2>3. /\ new.pc = "return" /\ new.kind = c.kind /\ new.cur = c.cur
          /\ new.key = c.key /\ new.heard = c.heard \cup {c.cur} /\ new.ended = 1
        BY <1>0, <2>1, Zenon DEF Records
    <2> HIDE DEF new
    <2>4. Sound(new)
        BY <1>0, <1>1, <1>2, <2>1, <2>2, <2>3 DEF Sound, WithTarget
    <2>5. c.kind # "test" => Told(c, new)
        BY <1>0, <1>1, <1>2, <2>1, <2>3, <2>a DEF Told, PhaseOf, VoiceOf
    <2> QED BY <1>0, <1>2, <2>3, <2>4, <2>5, OneCall DEF Becomes, c, new
<1> QED BY <1>0, <1>1, <1>2 DEF Report, c

\* A success of the routing state.
LEMMA StepServed ==
    ASSUME GatewayInv, NEW t \in Everyone, Served(t)
    PROVE  StepOK(t)
<1> DEFINE c == call[t]
<1>0. /\ Sound(c) /\ c \in Records /\ (t \in Threads => c.kind # "test")
      /\ healthy' \subseteq Keys /\ cooling' \subseteq Keys /\ cold' \subseteq Serves
      /\ c.pc = "served" /\ c.kind # "test"
    BY CallFacts DEF Served, At, pool, Note
<1>1. /\ c.ended = 0 /\ (c.kind = "routed" => c.heard \subseteq {c.cur}) /\ c.cur \in Serves
      /\ c.heard \subseteq Serves
    BY <1>0 DEF Sound, Records, WithTarget
<1> HIDE DEF c
<1>2. ASSUME Put(t, [c EXCEPT !.pc = "report"])
      PROVE  StepOK(t)
    <2> DEFINE new == [c EXCEPT !.pc = "report"]
    <2>1. c.cur \in Serves
        BY <1>0, <1>1, <1>2, Numbers
    <2>2. new \in Records
        BY <1>0, <2>1, Zenon DEF Records
    <2>3. /\ new.pc = "report" /\ new.kind = c.kind /\ new.cur = c.cur
          /\ new.key = c.key /\ new.heard = c.heard /\ new.ended = c.ended
        BY <1>0, <2>1, Zenon DEF Records
    <2> HIDE DEF new
    <2>4. Sound(new)
        BY <1>0, <1>1, <1>2, <2>1, <2>2, <2>3 DEF Sound, WithTarget
    <2>5. c.kind # "test" => Told(c, new)
        BY <1>0, <1>1, <1>2, <2>1, <2>3 DEF Told, PhaseOf, VoiceOf
    <2> QED BY <1>0, <1>2, <2>3, <2>4, <2>5, OneCall DEF Becomes, c, new
<1> QED BY <1>0, <1>1, <1>2 DEF Served, c

\* A key the service rejects.
LEMMA StepRejected ==
    ASSUME GatewayInv, NEW t \in Everyone, Rejected(t)
    PROVE  StepOK(t)
<1> DEFINE c == call[t]
<1>0. /\ Sound(c) /\ c \in Records /\ (t \in Threads => c.kind # "test")
      /\ healthy' \subseteq Keys /\ cooling' \subseteq Keys /\ cold' \subseteq Serves
      /\ c.pc = "call"
    BY CallFacts DEF Rejected, At, Over, Put
<1>1. /\ c.ended = 0 /\ c.cur \in Serves /\ c.heard \subseteq Serves /\ c.kind \in {"routed", "named", "test"}
      /\ (c.kind = "routed" => c.heard = {})
    BY <1>0 DEF Sound, Records, WithTarget
<1> HIDE DEF c
<1>2. ASSUME Put(t, [c EXCEPT !.pc = "fault", !.key = None, !.tries = 0])
      PROVE  StepOK(t)
    <2> DEFINE new == [c EXCEPT !.pc = "fault", !.key = None, !.tries = 0]
    <2>1. 0 \in 0..MaxRetries
        BY <1>0, <1>1, <1>2, Numbers
    <2>2. new \in Records
        BY <1>0, <2>1, Zenon DEF Records
    <2>3. /\ new.pc = "fault" /\ new.kind = c.kind /\ new.cur = c.cur
          /\ new.key = None /\ new.heard = c.heard /\ new.ended = c.ended
        BY <1>0, <2>1, Zenon DEF Records
    <2> HIDE DEF new
    <2>4. Sound(new)
        BY <1>0, <1>1, <1>2, <2>1, <2>2, <2>3 DEF Sound, WithTarget
    <2>5. c.kind # "test" => Told(c, new)
        BY <1>0, <1>1, <1>2, <2>1, <2>3 DEF Told, PhaseOf, VoiceOf
    <2> QED BY <1>0, <1>2, <2>3, <2>4, <2>5, OneCall DEF Becomes, c, new
<1> QED BY <1>0, <1>1, <1>2 DEF Rejected, Over, c

\* An error of the request.
LEMMA StepRefused ==
    ASSUME GatewayInv, NEW t \in Everyone, Refused(t)
    PROVE  StepOK(t)
<1> DEFINE c == call[t]
<1>0. /\ Sound(c) /\ c \in Records /\ (t \in Threads => c.kind # "test")
      /\ healthy' \subseteq Keys /\ cooling' \subseteq Keys /\ cold' \subseteq Serves
      /\ c.pc = "call"
    BY CallFacts DEF Refused, At, Over, Put, Cool
<1>1. /\ c.ended = 0 /\ c.cur \in Serves /\ c.heard \subseteq Serves /\ c.kind \in {"routed", "named", "test"}
      /\ (c.kind = "routed" => c.heard = {})
    BY <1>0 DEF Sound, Records, WithTarget
<1> HIDE DEF c
<1>2. ASSUME Put(t, [c EXCEPT !.pc = "fault", !.key = None, !.tries = 0])
      PROVE  StepOK(t)
    <2> DEFINE new == [c EXCEPT !.pc = "fault", !.key = None, !.tries = 0]
    <2>1. 0 \in 0..MaxRetries
        BY <1>0, <1>1, <1>2, Numbers
    <2>2. new \in Records
        BY <1>0, <2>1, Zenon DEF Records
    <2>3. /\ new.pc = "fault" /\ new.kind = c.kind /\ new.cur = c.cur
          /\ new.key = None /\ new.heard = c.heard /\ new.ended = c.ended
        BY <1>0, <2>1, Zenon DEF Records
    <2> HIDE DEF new
    <2>4. Sound(new)
        BY <1>0, <1>1, <1>2, <2>1, <2>2, <2>3 DEF Sound, WithTarget
    <2>5. c.kind # "test" => Told(c, new)
        BY <1>0, <1>1, <1>2, <2>1, <2>3 DEF Told, PhaseOf, VoiceOf
    <2> QED BY <1>0, <1>2, <2>3, <2>4, <2>5, OneCall DEF Becomes, c, new
<1> QED BY <1>0, <1>1, <1>2 DEF Refused, Over, c

\* A key the service blocks, and the retry.
LEMMA StepBlocked ==
    ASSUME GatewayInv, NEW t \in Everyone, Blocked(t)
    PROVE  StepOK(t)
<1> DEFINE c == call[t]
<1>0. /\ Sound(c) /\ c \in Records /\ (t \in Threads => c.kind # "test")
      /\ healthy' \subseteq Keys /\ cooling' \subseteq Keys /\ cold' \subseteq Serves
      /\ c.pc = "call" /\ c.key \in Keys
    BY CallFacts DEF Blocked, At, Over, Again, Put, Cool, Sound
<1>1. /\ c.ended = 0 /\ c.cur \in Serves /\ c.heard \subseteq Serves /\ c.kind \in {"routed", "named", "test"}
      /\ (c.kind = "routed" => c.heard = {}) /\ c.tries \in 0..MaxRetries
    BY <1>0 DEF Sound, Records, WithTarget
<1> HIDE DEF c
<1>2. ASSUME c.tries < MaxRetries, Put(t, [c EXCEPT !.pc = "pick", !.tries = @ + 1, !.key = IF c.kind = "test" THEN @ ELSE None])
      PROVE  StepOK(t)
    <2> DEFINE new == [c EXCEPT !.pc = "pick", !.tries = @ + 1, !.key = IF c.kind = "test" THEN @ ELSE None]
    <2>1. c.tries + 1 \in 0..MaxRetries
        BY <1>0, <1>1, <1>2, GatewayAssumption
    <2>2. new \in Records
        BY <1>0, <2>1, Zenon DEF Records
    <2>3. /\ new.pc = "pick" /\ new.kind = c.kind /\ new.cur = c.cur
          /\ new.key = (IF c.kind = "test" THEN c.key ELSE None) /\ new.heard = c.heard /\ new.ended = c.ended
        BY <1>0, <2>1, Zenon DEF Records
    <2> HIDE DEF new
    <2>4. Sound(new)
        BY <1>0, <1>1, <1>2, <2>1, <2>2, <2>3 DEF Sound, WithTarget
    <2>5. c.kind # "test" => Told(c, new)
        BY <1>0, <1>1, <1>2, <2>1, <2>3 DEF Told, PhaseOf, VoiceOf
    <2> QED BY <1>0, <1>2, <2>3, <2>4, <2>5, OneCall DEF Becomes, c, new
<1>3. ASSUME Put(t, [c EXCEPT !.pc = "fault", !.key = None, !.tries = 0])
      PROVE  StepOK(t)
    <2> DEFINE new == [c EXCEPT !.pc = "fault", !.key = None, !.tries = 0]
    <2>1. 0 \in 0..MaxRetries
        BY <1>0, <1>1, <1>3, Numbers
    <2>2. new \in Records
        BY <1>0, <2>1, Zenon DEF Records
    <2>3. /\ new.pc = "fault" /\ new.kind = c.kind /\ new.cur = c.cur
          /\ new.key = None /\ new.heard = c.heard /\ new.ended = c.ended
        BY <1>0, <2>1, Zenon DEF Records
    <2> HIDE DEF new
    <2>4. Sound(new)
        BY <1>0, <1>1, <1>3, <2>1, <2>2, <2>3 DEF Sound, WithTarget
    <2>5. c.kind # "test" => Told(c, new)
        BY <1>0, <1>1, <1>3, <2>1, <2>3 DEF Told, PhaseOf, VoiceOf
    <2> QED BY <1>0, <1>3, <2>3, <2>4, <2>5, OneCall DEF Becomes, c, new
<1> QED BY <1>0, <1>1, <1>2, <1>3 DEF Blocked, Over, Again, MayRetry, c

\* An answer, or the beginning of a stream.
LEMMA StepAnswered ==
    ASSUME GatewayInv, NEW t \in Everyone, Answered(t)
    PROVE  StepOK(t)
<1> DEFINE c == call[t]
<1>0. /\ Sound(c) /\ c \in Records /\ (t \in Threads => c.kind # "test")
      /\ healthy' \subseteq Keys /\ cooling' \subseteq Keys /\ cold' \subseteq Serves
      /\ c.pc = "call" /\ c.key \in Keys
    BY CallFacts DEF Answered, At, Over, Put, Sound, pool
<1>1. /\ c.ended = 0 /\ c.cur \in Serves /\ c.heard \subseteq Serves /\ c.kind \in {"routed", "named", "test"}
      /\ (c.kind = "routed" => c.heard = {})
    BY <1>0 DEF Sound, Records, WithTarget
<1> HIDE DEF c
<1>2. ASSUME Put(t, [c EXCEPT !.pc = "reading"])
      PROVE  StepOK(t)
    <2> DEFINE new == [c EXCEPT !.pc = "reading"]
    <2>1. c.cur \in Serves
        BY <1>0, <1>1, <1>2, Numbers
    <2>2. new \in Records
        BY <1>0, <2>1, Zenon DEF Records
    <2>3. /\ new.pc = "reading" /\ new.kind = c.kind /\ new.cur = c.cur
          /\ new.key = c.key /\ new.heard = c.heard /\ new.ended = c.ended
        BY <1>0, <2>1, Zenon DEF Records
    <2> HIDE DEF new
    <2>4. Sound(new)
        BY <1>0, <1>1, <1>2, <2>1, <2>2, <2>3 DEF Sound, WithTarget
    <2>5. c.kind # "test" => Told(c, new)
        BY <1>0, <1>1, <1>2, <2>1, <2>3 DEF Told, PhaseOf, VoiceOf
    <2> QED BY <1>0, <1>2, <2>3, <2>4, <2>5, OneCall DEF Becomes, c, new
<1>3. ASSUME Put(t, [c EXCEPT !.pc = "served", !.key = None, !.tries = 0])
      PROVE  StepOK(t)
    <2> DEFINE new == [c EXCEPT !.pc = "served", !.key = None, !.tries = 0]
    <2>1. 0 \in 0..MaxRetries
        BY <1>0, <1>1, <1>3, Numbers
    <2>2. new \in Records
        BY <1>0, <2>1, Zenon DEF Records
    <2>3. /\ new.pc = "served" /\ new.kind = c.kind /\ new.cur = c.cur
          /\ new.key = None /\ new.heard = c.heard /\ new.ended = c.ended
        BY <1>0, <2>1, Zenon DEF Records
    <2> HIDE DEF new
    <2>4. Sound(new)
        BY <1>0, <1>1, <1>3, <2>1, <2>2, <2>3 DEF Sound, WithTarget
    <2>5. c.kind # "test" => Told(c, new)
        BY <1>0, <1>1, <1>3, <2>1, <2>3 DEF Told, PhaseOf, VoiceOf
    <2> QED BY <1>0, <1>3, <2>3, <2>4, <2>5, OneCall DEF Becomes, c, new
<1> QED BY <1>0, <1>1, <1>2, <1>3 DEF Answered, Over, c

\* A chunk of a stream.
LEMMA StepChunk ==
    ASSUME GatewayInv, NEW t \in Everyone, Chunk(t)
    PROVE  StepOK(t)
<1> DEFINE c == call[t]
<1>0. /\ Sound(c) /\ c \in Records /\ (t \in Threads => c.kind # "test")
      /\ healthy' \subseteq Keys /\ cooling' \subseteq Keys /\ cold' \subseteq Serves
      /\ c.pc = "reading" /\ c.cur \notin c.heard
    BY CallFacts DEF Chunk, At, pool
<1>1. /\ c.ended = 0 /\ c.cur \in Serves /\ c.heard \subseteq Serves /\ c.kind \in {"routed", "named", "test"}
      /\ (c.kind = "routed" => c.heard \subseteq {c.cur})
    BY <1>0 DEF Sound, Records, WithTarget
<1> HIDE DEF c
<1>2. ASSUME Put(t, [c EXCEPT !.heard = @ \cup {c.cur}])
      PROVE  StepOK(t)
    <2> DEFINE new == [c EXCEPT !.heard = @ \cup {c.cur}]
    <2>1. c.heard \cup {c.cur} \in SUBSET Serves
        BY <1>0, <1>1, <1>2, Numbers
    <2>a. c.kind = "routed" => c.heard = {} /\ c.heard \cup {c.cur} = {c.cur}
        BY <1>0, <1>1
    <2>2. new \in Records
        BY <1>0, <2>1, Zenon DEF Records
    <2>3. /\ new.pc = c.pc /\ new.kind = c.kind /\ new.cur = c.cur
          /\ new.key = c.key /\ new.heard = c.heard \cup {c.cur} /\ new.ended = c.ended
        BY <1>0, <2>1, Zenon DEF Records
    <2> HIDE DEF new
    <2>4. Sound(new)
        BY <1>0, <1>1, <1>2, <2>1, <2>2, <2>3 DEF Sound, WithTarget
    <2>5. c.kind # "test" => Told(c, new)
        BY <1>0, <1>1, <1>2, <2>1, <2>3, <2>a DEF Told, PhaseOf, VoiceOf
    <2> QED BY <1>0, <1>2, <2>3, <2>4, <2>5, OneCall DEF Becomes, c, new
<1> QED BY <1>0, <1>1, <1>2 DEF Chunk, c

\* The end of a stream.
LEMMA StepStreamEnds ==
    ASSUME GatewayInv, NEW t \in Everyone, StreamEnds(t)
    PROVE  StepOK(t)
<1> DEFINE c == call[t]
<1>0. /\ Sound(c) /\ c \in Records /\ (t \in Threads => c.kind # "test")
      /\ healthy' \subseteq Keys /\ cooling' \subseteq Keys /\ cold' \subseteq Serves
      /\ c.pc = "reading"
    BY CallFacts DEF StreamEnds, At, Over, Put
<1>1. /\ c.ended = 0 /\ c.cur \in Serves /\ c.heard \subseteq Serves /\ c.kind \in {"routed", "named", "test"}
      /\ (c.kind = "routed" => c.heard \subseteq {c.cur})
    BY <1>0 DEF Sound, Records, WithTarget
<1> HIDE DEF c
<1>2. ASSUME Put(t, [c EXCEPT !.pc = "served", !.key = None, !.tries = 0])
      PROVE  StepOK(t)
    <2> DEFINE new == [c EXCEPT !.pc = "served", !.key = None, !.tries = 0]
    <2>1. 0 \in 0..MaxRetries
        BY <1>0, <1>1, <1>2, Numbers
    <2>2. new \in Records
        BY <1>0, <2>1, Zenon DEF Records
    <2>3. /\ new.pc = "served" /\ new.kind = c.kind /\ new.cur = c.cur
          /\ new.key = None /\ new.heard = c.heard /\ new.ended = c.ended
        BY <1>0, <2>1, Zenon DEF Records
    <2> HIDE DEF new
    <2>4. Sound(new)
        BY <1>0, <1>1, <1>2, <2>1, <2>2, <2>3 DEF Sound, WithTarget
    <2>5. c.kind # "test" => Told(c, new)
        BY <1>0, <1>1, <1>2, <2>1, <2>3 DEF Told, PhaseOf, VoiceOf
    <2> QED BY <1>0, <1>2, <2>3, <2>4, <2>5, OneCall DEF Becomes, c, new
<1> QED BY <1>0, <1>1, <1>2 DEF StreamEnds, Over, c

\* A stream that breaks.
LEMMA StepStreamBreaks ==
    ASSUME GatewayInv, NEW t \in Everyone, StreamBreaks(t)
    PROVE  StepOK(t)
<1> DEFINE c == call[t]
<1>0. /\ Sound(c) /\ c \in Records /\ (t \in Threads => c.kind # "test")
      /\ healthy' \subseteq Keys /\ cooling' \subseteq Keys /\ cold' \subseteq Serves
      /\ c.pc = "reading"
    BY CallFacts DEF StreamBreaks, At, Over, Put, pool
<1>1. /\ c.ended = 0 /\ c.cur \in Serves /\ c.heard \subseteq Serves /\ c.kind \in {"routed", "named", "test"}
      /\ (c.kind = "routed" => c.heard \subseteq {c.cur})
    BY <1>0 DEF Sound, Records, WithTarget
<1> HIDE DEF c
<1>2. ASSUME Put(t, [c EXCEPT !.pc = "fault", !.key = None, !.tries = 0])
      PROVE  StepOK(t)
    <2> DEFINE new == [c EXCEPT !.pc = "fault", !.key = None, !.tries = 0]
    <2>1. 0 \in 0..MaxRetries
        BY <1>0, <1>1, <1>2, Numbers
    <2>2. new \in Records
        BY <1>0, <2>1, Zenon DEF Records
    <2>3. /\ new.pc = "fault" /\ new.kind = c.kind /\ new.cur = c.cur
          /\ new.key = None /\ new.heard = c.heard /\ new.ended = c.ended
        BY <1>0, <2>1, Zenon DEF Records
    <2> HIDE DEF new
    <2>4. Sound(new)
        BY <1>0, <1>1, <1>2, <2>1, <2>2, <2>3 DEF Sound, WithTarget
    <2>5. c.kind # "test" => Told(c, new)
        BY <1>0, <1>1, <1>2, <2>1, <2>3 DEF Told, PhaseOf, VoiceOf
    <2> QED BY <1>0, <1>2, <2>3, <2>4, <2>5, OneCall DEF Becomes, c, new
<1> QED BY <1>0, <1>1, <1>2 DEF StreamBreaks, Over, c

\* A target that failed: on to the next one, unless the routed caller has heard it.
LEMMA StepFault ==
    ASSUME GatewayInv, NEW t \in Everyone, Fault(t)
    PROVE  StepOK(t)
<1> DEFINE c == call[t]
<1>0. /\ Sound(c) /\ c \in Records /\ (t \in Threads => c.kind # "test")
      /\ healthy' \subseteq Keys /\ cooling' \subseteq Keys /\ cold' \subseteq Serves
      /\ c.pc = "fault" /\ c.kind # "test"
    BY CallFacts DEF Fault, At, Note, Put, Sound, WithTarget, pool
<1>1. /\ c.ended = 0 /\ c.cur \in Serves /\ c.heard \subseteq Serves /\ c.kind \in {"routed", "named", "test"}
      /\ (c.kind = "routed" => c.heard \subseteq {c.cur})
    BY <1>0 DEF Sound, Records, WithTarget
<1> HIDE DEF c
<1>2. ASSUME c.kind = "named" \/ c.heard = {}, Put(t, [c EXCEPT !.pc = "next"])
      PROVE  StepOK(t)
    <2> DEFINE new == [c EXCEPT !.pc = "next"]
    <2>1. c.heard \subseteq Serves
        BY <1>0, <1>1, <1>2, Numbers
    <2>2. new \in Records
        BY <1>0, <2>1, Zenon DEF Records
    <2>3. /\ new.pc = "next" /\ new.kind = c.kind /\ new.cur = c.cur
          /\ new.key = c.key /\ new.heard = c.heard /\ new.ended = c.ended
        BY <1>0, <2>1, Zenon DEF Records
    <2> HIDE DEF new
    <2>4. Sound(new)
        BY <1>0, <1>1, <1>2, <2>1, <2>2, <2>3 DEF Sound, WithTarget
    <2>5. c.kind # "test" => Told(c, new)
        BY <1>0, <1>1, <1>2, <2>1, <2>3 DEF Told, PhaseOf, VoiceOf
    <2> QED BY <1>0, <1>2, <2>3, <2>4, <2>5, OneCall DEF Becomes, c, new
<1>3. ASSUME Put(t, [c EXCEPT !.pc = "return", !.ended = @ + 1])
      PROVE  StepOK(t)
    <2> DEFINE new == [c EXCEPT !.pc = "return", !.ended = @ + 1]
    <2>1. c.ended + 1 \in 0..1 /\ c.ended + 1 = 1
        BY <1>0, <1>1, <1>3, Numbers
    <2>2. new \in Records
        BY <1>0, <2>1, Zenon DEF Records
    <2>3. /\ new.pc = "return" /\ new.kind = c.kind /\ new.cur = c.cur
          /\ new.key = c.key /\ new.heard = c.heard /\ new.ended = 1
        BY <1>0, <2>1, Zenon DEF Records
    <2> HIDE DEF new
    <2>4. Sound(new)
        BY <1>0, <1>1, <1>3, <2>1, <2>2, <2>3 DEF Sound, WithTarget
    <2>5. c.kind # "test" => Told(c, new)
        BY <1>0, <1>1, <1>3, <2>1, <2>3 DEF Told, PhaseOf, VoiceOf
    <2> QED BY <1>0, <1>3, <2>3, <2>4, <2>5, OneCall DEF Becomes, c, new
<1> QED BY <1>0, <1>1, <1>2, <1>3 DEF Fault, GoesOn, c

\* The end of a test, which is no operation of a request thread.
LEMMA StepEndTest ==
    ASSUME GatewayInv, NEW t \in Everyone, EndTest(t)
    PROVE  StepOK(t)
<1>1. Sound(call[t]) /\ call[t] \in Records /\ (t \in Threads => call[t].kind # "test")
      /\ healthy' \subseteq Keys /\ cooling' \subseteq Keys /\ call[t].kind = "test" /\ Put(t, Fresh)
    BY CallFacts DEF EndTest, pool
<1>2. cold' \subseteq Serves
    BY <1>1, CallFacts DEF EndTest, Note, At, Sound, WithTarget
<1> QED BY <1>1, <1>2, FreshIsSound, OneCall DEF Becomes

\* A thread that goes on.
LEMMA StepProceed ==
    ASSUME GatewayInv, NEW t \in Everyone, Proceed(t)
    PROVE  StepOK(t)
<1>1. CASE NextTarget(t) \/ Pick(t) \/ Fault(t) \/ Served(t) \/ Report(t) \/ EndTest(t)
    BY <1>1, StepNextTarget, StepPick, StepFault, StepServed, StepReport, StepEndTest
<1>2. CASE Rejected(t) \/ Refused(t) \/ Blocked(t) \/ Answered(t)
    BY <1>2, StepRejected, StepRefused, StepBlocked, StepAnswered
<1>3. CASE Chunk(t) \/ StreamEnds(t) \/ StreamBreaks(t)
    BY <1>3, StepChunk, StepStreamEnds, StepStreamBreaks
<1>4. CASE Return(t)
    <2>1. Put(t, Fresh) /\ call[t].pc = "return"
          /\ healthy' \subseteq Keys /\ cooling' \subseteq Keys /\ cold' \subseteq Serves
        BY <1>4, CallFacts DEF Return, At, pool
    <2>2. Told(call[t], Fresh) /\ Fresh.kind # "test"
        BY <2>1, CallFacts DEF Told, PhaseOf, VoiceOf, Fresh, Sound
    <2> QED BY <2>1, <2>2, FreshIsSound, OneCall DEF Becomes
<1> QED BY <1>1, <1>2, <1>3, <1>4 DEF Proceed

\* The request begins: from the idle record to the first look at the list.
LEMMA StepAsk ==
    ASSUME GatewayInv, NEW t \in Threads,
           Ask(t) \/ \E m \in Models : AskNamed(t, m)
    PROVE  StepOK(t)
<1>1. call[t] = Fresh /\ t \in Everyone
      /\ healthy' \subseteq Keys /\ cooling' \subseteq Keys /\ cold' \subseteq Serves
    BY CallFacts DEF Ask, AskNamed, At, Sound, Everyone, pool
<1>a. Fresh \in Records
    BY FreshIsSound
<1>b. Fresh.pc = "idle" /\ Fresh.heard = {} /\ Fresh.kind = "routed" /\ Fresh.ended = 0
    BY DEF Fresh
<1>2. ASSUME NEW new \in Records, Put(t, new), new.pc = "next", new.kind \in {"routed", "named"},
             new.heard = {}, new.ended = 0
      PROVE  StepOK(t)
    <2>1. Sound(new)
        BY <1>2 DEF Sound, WithTarget
    <2>2. Told(Fresh, new)
        BY <1>b, <1>2 DEF Told, PhaseOf, VoiceOf
    <2> QED BY <1>1, <1>2, <2>1, <2>2, OneCall DEF Becomes
<1>3. CASE Ask(t)
    <2>1. PICK S \in SUBSET Eligible, s \in BOOLEAN :
              Put(t, [Fresh EXCEPT !.pc = "next", !.left = S, !.stream = s])
        BY <1>3 DEF Ask
    <2> DEFINE new == [Fresh EXCEPT !.pc = "next", !.left = S, !.stream = s]
    <2>2. S \in SUBSET Serves
        BY DEF Eligible
    <2>3. new \in Records
        BY <1>a, <2>2, Zenon DEF Records
    <2>4. new.pc = "next" /\ new.kind = Fresh.kind /\ new.heard = Fresh.heard /\ new.ended = Fresh.ended
        BY <1>a, Zenon DEF Records
    <2> HIDE DEF new
    <2> QED BY <1>2, <1>b, <2>1, <2>3, <2>4 DEF new
<1>4. ASSUME NEW m \in Models, AskNamed(t, m) PROVE StepOK(t)
    <2> DEFINE S == {x \in Serves : x[2] = m}
    <2>1. PICK s \in BOOLEAN :
              Put(t, [Fresh EXCEPT !.pc = "next", !.kind = "named", !.stream = s, !.left = S])
        BY <1>4 DEF AskNamed
    <2>2. S \in SUBSET Serves
        OBVIOUS
    <2> HIDE DEF S
    <2> DEFINE new == [Fresh EXCEPT !.pc = "next", !.kind = "named", !.stream = s, !.left = S]
    <2>3. new \in Records
        BY <1>a, <2>2, Zenon DEF Records
    <2>4. new.pc = "next" /\ new.kind = "named" /\ new.heard = Fresh.heard /\ new.ended = Fresh.ended
        BY <1>a, Zenon DEF Records
    <2> HIDE DEF new
    <2> QED BY <1>2, <1>b, <2>1, <2>3, <2>4 DEF new
<1> QED BY <1>3, <1>4

\* A test begins, with its own key.
LEMMA StepBeginTest ==
    ASSUME GatewayInv, NEW t \in Testers, NEW x \in Serves, NEW k \in Keys, BeginTest(t, x, k)
    PROVE  StepOK(t)
<1> DEFINE new == [Fresh EXCEPT !.pc = "pick", !.kind = "test", !.cur = x, !.key = k]
<1>1. Put(t, new) /\ t \in Everyone /\ t \notin Threads
      /\ healthy' \subseteq Keys /\ cooling' \subseteq Keys /\ cold' \subseteq Serves
    BY CallFacts, GatewayAssumption DEF BeginTest, Everyone, pool
<1>2. new \in Records
    BY FreshIsSound, Zenon DEF Records
<1>3. new.pc = "pick" /\ new.kind = "test" /\ new.cur = x /\ new.key = k /\ new.ended = 0
    BY DEF Fresh
<1> HIDE DEF new
<1>4. Sound(new)
    BY <1>2, <1>3 DEF Sound, WithTarget
<1> QED BY <1>1, <1>4, OneCall DEF Becomes

-------------------------------------------------------------------------------
(* The invariant. *)

\* The two ways of a step: a thread's own, or one that leaves the calls alone or
\* ends them all.
Outside ==
    /\ healthy' \subseteq Keys /\ cooling' \subseteq Keys /\ cold' \subseteq Serves
    /\ UNCHANGED call \/ call' = [t \in Everyone |-> Fresh]

LEMMA EveryStep ==
    ASSUME GatewayInv, [Next]_vars
    PROVE  Outside \/ \E t \in Everyone : StepOK(t)
<1>1. CASE \E t \in Everyone : Proceed(t)
    BY <1>1, StepProceed
<1>2. CASE \E t \in Threads : Ask(t) \/ \E m \in Models : AskNamed(t, m)
    BY <1>2, StepAsk DEF Everyone
<1>3. ASSUME NEW t \in Testers, NEW x \in Serves,
             ReuseTest(t, x) \/ \E k \in Keys : BeginTest(t, x, k)
      PROVE  Outside \/ \E u \in Everyone : StepOK(u)
    <2>1. CASE ReuseTest(t, x)
        BY <2>1 DEF ReuseTest, Outside, GatewayInv, TypeOK, pool
    <2>2. CASE \E k \in Keys : BeginTest(t, x, k)
        BY <2>2, StepBeginTest DEF Everyone
    <2> QED BY <1>3, <2>1, <2>2
<1>4. CASE Restart
    BY <1>4 DEF Restart, Outside, GatewayInv, TypeOK
<1>5. CASE \/ \E k \in Keys : KeyCools(k)
           \/ \E x \in Serves : TargetCools(x)
    BY <1>5 DEF KeyCools, TargetCools, Outside, GatewayInv, TypeOK, pool
<1>6. CASE UNCHANGED vars
    BY <1>6 DEF Outside, GatewayInv, TypeOK, vars, pool
<1> QED BY <1>1, <1>2, <1>3, <1>4, <1>5, <1>6 DEF Next

LEMMA OutsideKeepsInv ==
    ASSUME GatewayInv, Outside
    PROVE  GatewayInv'
<1>1. CASE UNCHANGED call
    BY <1>1 DEF Outside, GatewayInv, TypeOK
<1>2. CASE call' = [t \in Everyone |-> Fresh]
    <2>1. call' \in [Everyone -> Records]
        BY <1>2, FreshIsSound
    <2>2. TypeOK'
        BY <2>1 DEF Outside, TypeOK, Records
    <2>3. \A t \in Everyone : call'[t] = Fresh
        BY <1>2
    <2>4. \A t \in Everyone : Sound(call[t])'
        <3> SUFFICES ASSUME NEW t \in Everyone PROVE Sound(call'[t])
            OBVIOUS
        <3> QED BY <2>3, FreshIsSound
    <2>5. \A t \in Threads : call'[t].kind # "test"
        BY <2>3 DEF Everyone, Fresh
    <2> QED BY <2>2, <2>4, <2>5 DEF GatewayInv
<1> QED BY <1>1, <1>2 DEF Outside

LEMMA InitInv == ASSUME Init PROVE GatewayInv
<1>1. call = [t \in Everyone |-> Fresh] /\ healthy = Keys /\ cooling = {} /\ cold = {}
    BY DEF Init
<1>2. call \in [Everyone -> Records] /\ \A t \in Everyone : call[t] = Fresh
    BY <1>1, FreshIsSound
<1>3. TypeOK
    BY <1>1, <1>2 DEF TypeOK, Records
<1>4. \A t \in Threads : call[t].kind # "test"
    BY <1>2 DEF Everyone, Fresh
<1> QED BY <1>2, <1>3, <1>4, FreshIsSound DEF GatewayInv

\* The calls keep their types, and every call is sound at every step.
THEOREM CallsAreSound == Spec => []GatewayInv
<1>1. Init => GatewayInv
    BY InitInv
<1>2. GatewayInv /\ [Next]_vars => GatewayInv'
    BY EveryStep, OutsideKeepsInv, StepKeepsInv
<1> QED BY <1>1, <1>2, PTL DEF Spec

-------------------------------------------------------------------------------
(* The refinement. *)

Phase == [t \in Threads |-> IF call[t].pc = "idle" THEN "none"
                            ELSE IF call[t].ended = 0 THEN "open" ELSE "ended"]
Voice == [t \in Threads |-> IF call[t].kind = "named" THEN {} ELSE call[t].heard]

\* What a thread makes of its call is a step of OneAnswer or none.
LEMMA ThreadImplements ==
    ASSUME GatewayInv, NEW t \in Everyone, StepOK(t)
    PROVE  [Calls!Next]_(Calls!vars)
<1>1. PICK new \in Records : Becomes(t, new)
    BY DEF StepOK
<1>2. call \in [Everyone -> Records]
    BY DEF GatewayInv, TypeOK, Records
<1>3. \A u \in Threads : call'[u] = IF u = t THEN new ELSE call[u]
    BY <1>1, <1>2 DEF Becomes, Put, Everyone
<1>4. CASE t \notin Threads
    <2>1. \A u \in Threads : call'[u] = call[u]
        BY <1>3, <1>4
    <2>2. Phase' = Phase /\ Voice' = Voice
        BY <2>1 DEF Phase, Voice
    <2> QED BY <2>2 DEF Calls!vars, Phase, Voice
<1>5. CASE t \in Threads
    <2>1. /\ Phase' = [Phase EXCEPT ![t] = PhaseOf(new)] /\ Phase[t] = PhaseOf(call[t])
          /\ Voice' = [Voice EXCEPT ![t] = VoiceOf(new)] /\ Voice[t] = VoiceOf(call[t])
        BY <1>3, <1>5 DEF Phase, Voice, PhaseOf, VoiceOf
    <2>2. Told(call[t], new)
        BY <1>1, <1>5 DEF Becomes
    <2>3. [Phase EXCEPT ![t] = Phase[t]] = Phase /\ [Voice EXCEPT ![t] = Voice[t]] = Voice
        BY DEF Phase, Voice
    <2>4. CASE PhaseOf(new) = PhaseOf(call[t]) /\ VoiceOf(new) = VoiceOf(call[t])
        <3>1. Phase' = Phase /\ Voice' = Voice
            BY <2>1, <2>3, <2>4
        <3> QED BY <3>1 DEF Calls!vars, Phase, Voice
    <2>5. CASE /\ PhaseOf(call[t]) = "none" /\ PhaseOf(new) = "open"
               /\ VoiceOf(new) = VoiceOf(call[t])
        <3>1. Phase[t] = "none" /\ Phase' = [Phase EXCEPT ![t] = "open"] /\ Voice' = Voice
            BY <2>1, <2>3, <2>5
        <3>2. Calls!Begin(t)
            BY <3>1 DEF Calls!Begin, Phase, Voice
        <3> QED BY <1>5, <3>2 DEF Calls!Next
    <2>6. CASE /\ PhaseOf(call[t]) = "open" /\ PhaseOf(new) \in {"open", "ended"}
               /\ \E v \in Serves : VoiceOf(call[t]) = {} /\ VoiceOf(new) = {v}
        <3>1. PICK v \in Serves : VoiceOf(call[t]) = {} /\ VoiceOf(new) = {v}
            BY <2>6
        <3>2. /\ Phase[t] = "open" /\ Voice[t] = {} /\ Voice[t] \subseteq {v}
              /\ Voice' = [Voice EXCEPT ![t] = {v}]
            BY <2>1, <2>6, <3>1
        <3>3. CASE PhaseOf(new) = "open"
            <4>1. Phase' = Phase
                BY <2>1, <2>3, <2>6, <3>3
            <4>2. Calls!Speak(t, v)
                BY <3>2, <4>1 DEF Calls!Speak, Phase, Voice
            <4> QED BY <1>5, <4>2 DEF Calls!Next
        <3>4. CASE PhaseOf(new) = "ended"
            <4>1. Phase' = [Phase EXCEPT ![t] = "ended"]
                BY <2>1, <3>4
            <4>2. Calls!End(t)
                BY <3>2, <4>1 DEF Calls!End, Phase, Voice
            <4> QED BY <1>5, <4>2 DEF Calls!Next
        <3> QED BY <2>6, <3>3, <3>4
    <2>7. CASE /\ PhaseOf(call[t]) = "open" /\ PhaseOf(new) = "ended"
               /\ VoiceOf(new) = VoiceOf(call[t])
        <3>1. Phase[t] = "open" /\ Phase' = [Phase EXCEPT ![t] = "ended"] /\ Voice' = Voice
            BY <2>1, <2>3, <2>7
        <3>2. Calls!End(t)
            BY <3>1 DEF Calls!End, Phase, Voice
        <3> QED BY <1>5, <3>2 DEF Calls!Next
    <2>8. CASE PhaseOf(call[t]) = "ended" /\ PhaseOf(new) = "none" /\ VoiceOf(new) = {}
        <3>1. /\ Phase[t] = "ended" /\ Phase' = [Phase EXCEPT ![t] = "none"]
              /\ Voice' = [Voice EXCEPT ![t] = {}]
            BY <2>1, <2>8
        <3>2. Calls!Return(t)
            BY <3>1 DEF Calls!Return, Phase, Voice
        <3> QED BY <1>5, <3>2 DEF Calls!Next
    <2> QED BY <2>2, <2>4, <2>5, <2>6, <2>7, <2>8 DEF Told
<1> QED BY <1>4, <1>5

\* A new process is the crash of every operation; what leaves the calls alone is
\* no step of theirs.
LEMMA OutsideImplements ==
    ASSUME Outside
    PROVE  [Calls!Next]_(Calls!vars)
<1>1. CASE UNCHANGED call
    BY <1>1 DEF Calls!vars
<1>2. CASE call' = [t \in Everyone |-> Fresh]
    <2>1. \A t \in Threads : call'[t] = Fresh
        BY <1>2 DEF Everyone
    <2>2. Phase' = [t \in Threads |-> "none"] /\ Voice' = [t \in Threads |-> {}]
        BY <2>1 DEF Phase, Voice, Fresh
    <2>3. Calls!Crash
        BY <2>2 DEF Calls!Crash, Phase, Voice
    <2> QED BY <2>3 DEF Calls!Next
<1> QED BY <1>1, <1>2 DEF Outside

\* gateway.py:2033: a routed call is answered by one target at most, has one terminal
\* event, and nothing follows it.
THEOREM GatewayImplements == Spec => ImplementsOneAnswer
<1>1. Init => Calls!Init
    <2> SUFFICES ASSUME Init PROVE Calls!Init
        OBVIOUS
    <2>1. \A t \in Threads : call[t] = Fresh
        BY DEF Init, Everyone
    <2>2. Phase = [t \in Threads |-> "none"] /\ Voice = [t \in Threads |-> {}]
        BY <2>1 DEF Phase, Voice, Fresh
    <2> QED BY <2>2 DEF Calls!Init, Phase, Voice
<1>2. GatewayInv /\ [Next]_vars => [Calls!Next]_(Calls!vars)
    BY EveryStep, ThreadImplements, OutsideImplements
<1>3. Spec => []GatewayInv
    BY CallsAreSound
<1> QED BY <1>1, <1>2, <1>3, PTL DEF Spec, ImplementsOneAnswer, Calls!Spec

-------------------------------------------------------------------------------
(* The coordinator that the tests of the Gateway and of the Provider go       *)
(* through: its types, and that probes do not overlap.                        *)

\* Each action of the module keeps the types.
LEMMA HealthTypeStep == Health!TypeOK /\ [Health!Next]_(Health!vars) => (Health!TypeOK)'
<1> SUFFICES ASSUME Health!TypeOK, [Health!Next]_(Health!vars) PROVE (Health!TypeOK)'
  OBVIOUS
<1>0. Health!NoProbe \notin 1..begun
  BY DEF Health!NoProbe
<1> USE <1>0 DEF Health!TypeOK, Health!Known, Health!Labels
<1>1. \A c \in Callers : Health!Invalidate(c) => (Health!TypeOK)'
  BY DEF Health!Invalidate, Health!Dropped, Health!Move
<1>2. \A c \in Callers : Health!Call(c) => (Health!TypeOK)'
  BY DEF Health!Call, Health!Move, Health!rows
<1>a. Health!Loaded \in Health!Known \cup {Health!NoProbe}
  BY DEF Health!Loaded
<1>3. ASSUME NEW c \in Callers, Health!EnterReuse(c) PROVE (Health!TypeOK)'
  <2>1. Health!Loaded \in Health!Known
    BY <1>3 DEF Health!EnterReuse, Health!Fresh
  <2>2. /\ cache' = Health!Loaded /\ answer' = [answer EXCEPT ![c] = Health!Loaded]
        /\ pc' = [pc EXCEPT ![c] = "reused"]
        /\ UNCHANGED <<stored, leftover, inflight, joined, begun, window, resets>>
    BY <1>3 DEF Health!EnterReuse, Health!Move, Health!Return
  <2> QED
    BY <2>1, <2>2
<1>4. ASSUME NEW c \in Callers, Health!Claim(c) PROVE (Health!TypeOK)'
  <2>1. /\ begun' = begun + 1 /\ inflight' = begun + 1 /\ cache' = Health!Loaded
        /\ joined' = [joined EXCEPT ![c] = begun + 1] /\ pc' = [pc EXCEPT ![c] = "probe"]
        /\ UNCHANGED <<stored, leftover, answer, window, resets>>
    BY <1>4 DEF Health!Claim, Health!Move
  <2>2. Health!Known \subseteq 1..(begun + 1) /\ begun + 1 \in 1..(begun + 1)
    OBVIOUS
  <2> QED
    BY <1>a, <2>1, <2>2
<1>5. \A c \in Callers : Health!Join(c) => (Health!TypeOK)'
  BY DEF Health!Join, Health!Move, Health!Fresh, Health!Loaded
<1>6. ASSUME NEW c \in Callers, Health!Probed(c) PROVE (Health!TypeOK)'
  <2>1. joined[c] \in Health!Known
    BY <1>6 DEF Health!Probed
  <2>2. /\ cache' = joined[c] /\ stored' \in {stored, joined[c]} /\ leftover' = joined[c]
        /\ window' = window \cup {joined[c]} /\ inflight' = Health!NoProbe
        /\ answer' = [answer EXCEPT ![c] = joined[c]] /\ pc' = [pc EXCEPT ![c] = "owned"]
        /\ UNCHANGED <<joined, begun, resets>>
    BY <1>6 DEF Health!Probed, Health!Save, Health!Move, Health!Return
  <2> QED
    BY <2>1, <2>2
<1>7. ASSUME NEW c \in Callers, Health!Raised(c) PROVE (Health!TypeOK)'
  <2>1. joined[c] \in Health!Known
    BY <1>7 DEF Health!Raised
  <2>2. /\ cache' = joined[c] /\ stored' \in {stored, joined[c]} /\ leftover' = joined[c]
        /\ window' = window \cup {joined[c]} /\ inflight' = Health!NoProbe
        /\ pc' = [pc EXCEPT ![c] = "raised"]
        /\ UNCHANGED <<joined, answer, begun, resets>>
    BY <1>7 DEF Health!Raised, Health!Save, Health!Move
  <2> QED
    BY <2>1, <2>2
<1>8. \A c \in Callers : Health!Take(c) => (Health!TypeOK)'
  <2> SUFFICES ASSUME NEW c \in Callers, Health!Take(c) PROVE (Health!TypeOK)'
    OBVIOUS
  <2>1. /\ cache' \in Health!Known \cup {Health!NoProbe} /\ leftover' = Health!NoProbe
        /\ UNCHANGED <<stored, inflight, joined, begun, window, resets>>
    BY <1>a DEF Health!Take
  <2>2. \/ pc' = [pc EXCEPT ![c] = "enter"] /\ answer' = answer
        \/ /\ pc' = [pc EXCEPT ![c] = "reused"]
           /\ \E p \in Health!Known : answer' = [answer EXCEPT ![c] = p]
    BY <1>a DEF Health!Take, Health!Move, Health!Return
  <2> QED
    BY <2>1, <2>2
<1>9. Health!Expire => (Health!TypeOK)'
  BY DEF Health!Expire, Health!rows, Health!callers
<1>10. ASSUME Health!Restart PROVE (Health!TypeOK)'
  <2>1. /\ pc' \in [Callers -> Health!Labels]
        /\ \A c \in Callers : pc'[c] \notin {"probe", "wait"}
        /\ \A c \in Callers : pc'[c] \in {"reused", "owned"} => pc[c] = pc'[c]
    BY <1>10 DEF Health!Restart
  <2>2. /\ cache' = Health!NoProbe /\ leftover' = Health!NoProbe /\ inflight' = Health!NoProbe
        /\ window' = window \cap {stored} /\ resets' = resets + 1
        /\ UNCHANGED <<stored, joined, answer, begun>>
    BY <1>10 DEF Health!Restart
  <2>3. \A c \in Callers : pc'[c] \in {"reused", "owned"} => answer'[c] \in (Health!Known)'
    BY <2>1, <2>2
  <2>4. (Health!Known)' = Health!Known
    BY <2>2
  <2> HIDE DEF Health!Known
  <2>5. window' \subseteq Health!Known /\ resets' \in Nat
    BY <2>2
  <2> QED
    BY <2>1, <2>2, <2>3, <2>4, <2>5
<1>11. UNCHANGED Health!vars => (Health!TypeOK)'
  BY DEF Health!vars, Health!rows, Health!callers
<1> QED
  BY <1>1, <1>2, <1>3, <1>4, <1>5, <1>6, <1>7, <1>8, <1>9, <1>10, <1>11
  DEF Health!Next, Health!Proceed, Health!Woken, Health!TimeOut

\* Every variable keeps its type, whatever the number of callers.
THEOREM SharedHealthTypes == Health!Spec => []Health!TypeOK
<1>1. Health!Init => Health!TypeOK
  BY DEF Health!Init, Health!TypeOK, Health!Known, Health!Labels, Health!NoProbe
<1> QED
  BY <1>1, HealthTypeStep, PTL DEF Health!Spec

LEMMA ProbeStep == Health!TypeOK /\ Health!ProbeInv /\ [Health!Next]_(Health!vars) => (Health!ProbeInv)'
<1> SUFFICES ASSUME Health!TypeOK, Health!ProbeInv, [Health!Next]_(Health!vars) PROVE (Health!ProbeInv)'
  OBVIOUS
<1>0. /\ Health!NoProbe \notin Health!Known /\ begun \in Nat /\ window \subseteq Health!Known
      /\ cache \in Health!Known \cup {Health!NoProbe} /\ stored \in Health!Known \cup {Health!NoProbe}
      /\ \A c \in Callers : pc[c] = "probe" => joined[c] \in Health!Known
      /\ pc \in [Callers -> Health!Labels] /\ joined \in [Callers -> Health!Known \cup {Health!NoProbe}]
  BY DEF Health!TypeOK, Health!Known, Health!NoProbe
<1> USE <1>0 DEF Health!ProbeInv
<1>1. \A c \in Callers : Health!Invalidate(c) => (Health!ProbeInv)'
  BY DEF Health!Invalidate, Health!Dropped, Health!Move, Health!Loaded
<1>2. \A c \in Callers : Health!Call(c) => (Health!ProbeInv)'
  BY DEF Health!Call, Health!Move, Health!rows, Health!Loaded
<1>3. \A c \in Callers : Health!EnterReuse(c) => (Health!ProbeInv)'
  BY DEF Health!EnterReuse, Health!Move, Health!Return, Health!Fresh, Health!Loaded
<1>4. \A c \in Callers : Health!Claim(c) => (Health!ProbeInv)'
  BY DEF Health!Claim, Health!Move, Health!Fresh, Health!Loaded
<1>5. \A c \in Callers : Health!Join(c) => (Health!ProbeInv)'
  BY DEF Health!Join, Health!Move, Health!Fresh, Health!Loaded
\* The owner's result: nothing else was young while its probe was in flight.
<1>6. \A c \in Callers : (Health!Probed(c) \/ Health!Raised(c)) => (Health!ProbeInv)'
  BY DEF Health!Probed, Health!Raised, Health!Save, Health!Move, Health!Loaded
<1>7. \A c \in Callers : Health!Take(c) => (Health!ProbeInv)'
  BY DEF Health!Take, Health!Move, Health!Return, Health!Fresh, Health!Loaded
<1>8. Health!Expire => (Health!ProbeInv)'
  BY DEF Health!Expire, Health!rows, Health!callers, Health!Loaded
<1>9. Health!Restart => (Health!ProbeInv)'
  BY DEF Health!Restart, Health!Loaded
<1>10. UNCHANGED Health!vars => (Health!ProbeInv)'
  BY DEF Health!vars, Health!rows, Health!callers, Health!Loaded
<1> QED
  BY <1>1, <1>2, <1>3, <1>4, <1>5, <1>6, <1>7, <1>8, <1>9, <1>10
  DEF Health!Next, Health!Proceed, Health!Woken, Health!TimeOut

\* The strengthening of OneProbe is an invariant.
THEOREM ProbesAreRegistered == Health!Spec => []Health!ProbeInv
<1>1. Health!Init => Health!ProbeInv
  BY DEF Health!Init, Health!ProbeInv, Health!Loaded
<1> QED
  BY <1>1, ProbeStep, SharedHealthTypes, PTL DEF Health!Spec

\* shared_health.py:283-284: at most one probe at a time and per window, for
\* any number of callers, resets and restarts of the coordinator.
THEOREM ProbesDoNotOverlap == Health!Spec => []OneProbe
<1>1. Health!ProbeInv => OneProbe
  BY DEF Health!ProbeInv, Health!OneProbe, OneProbe
<1> QED
  BY <1>1, ProbesAreRegistered, PTL
-------------------------------------------------------------------------------
(* Routes: the types, and what a route may do to keys.                       *)

Labels == {"idle", "select", "pick", "call", "record", "judge", "failed", "share"}

\* What the types say of one caller.
Caller(t) ==
    /\ stage[t] \in Labels
    /\ ranked[t] \in SUBSET Targets /\ tried[t] \in SUBSET Targets
    /\ current[t] \in Targets \cup {None}
    /\ open[t] \in BOOLEAN
    /\ pin[t] \in Keys \cup {None} /\ last[t] \in Keys \cup {None}
    /\ used[t] \in Keys \cup {None}
    /\ outcome[t] \in Answers \cup {"none", "nokey"}
    /\ tries[t] \in 0..MaxRetries /\ fixes[t] \in 0..MaxCorrections
    /\ tried[t] \subseteq ranked[t] /\ current[t] \in ranked[t] \cup {None}
    /\ stage[t] = "idle" => tried[t] = {} /\ current[t] = None
    /\ stage[t] \in {"pick", "call", "record", "judge", "failed"} => current[t] # None
    /\ stage[t] \in {"call", "record"} => last[t] = used[t]
    /\ stage[t] = "call" => used[t] # None
Tables ==
    /\ healthy \subseteq Keys /\ cooling \subseteq Keys
    /\ bad \subseteq Keys \X Targets /\ cold \subseteq Targets
\* Every variable of a caller is a function on the callers.
Mapping(f) == f = [t \in Everyone |-> f[t]]
Maps ==
    /\ Mapping(stage) /\ Mapping(ranked) /\ Mapping(tried) /\ Mapping(current)
    /\ Mapping(open) /\ Mapping(pin) /\ Mapping(last) /\ Mapping(used)
    /\ Mapping(outcome) /\ Mapping(tries) /\ Mapping(fixes)

LEMMA TypeByCaller == RoutingTypeOK <=> Tables /\ Maps /\ \A t \in Everyone : Caller(t)
<1>1. RoutingTypeOK => Tables /\ Maps /\ \A t \in Everyone : Caller(t)
  BY DEF RoutingTypeOK, Tables, Maps, Mapping, Caller, Labels
<1>2. Tables /\ Maps /\ (\A t \in Everyone : Caller(t)) => RoutingTypeOK
  BY DEF RoutingTypeOK, Tables, Maps, Mapping, Caller, Labels
<1> QED
  BY <1>1, <1>2

\* A step of one caller leaves the others as they are.
Others(t) ==
    \A u \in Everyone \ {t} :
      /\ stage'[u] = stage[u] /\ ranked'[u] = ranked[u] /\ tried'[u] = tried[u]
      /\ current'[u] = current[u] /\ open'[u] = open[u] /\ pin'[u] = pin[u]
      /\ last'[u] = last[u] /\ used'[u] = used[u] /\ outcome'[u] = outcome[u]
      /\ tries'[u] = tries[u] /\ fixes'[u] = fixes[u]
LEMMA OneCaller ==
  ASSUME RoutingTypeOK, NEW t \in Everyone, Tables', Maps', Others(t), Caller(t)'
  PROVE  RoutingTypeOK'
<1>1. \A u \in Everyone : Caller(u)
  BY TypeByCaller
<1>2. ASSUME NEW u \in Everyone PROVE Caller(u)'
  <2>1. CASE u = t
    BY <2>1
  <2>2. CASE u # t
    BY <1>1, <2>2 DEF Others, Caller
  <2> QED
    BY <2>1, <2>2
<1>3. Tables' /\ Maps' /\ (\A u \in Everyone : Caller(u)') => RoutingTypeOK'
  BY DEF RoutingTypeOK, Tables, Maps, Mapping, Caller, Labels
<1> QED
  BY <1>2, <1>3

\* What the end of a route leaves of its caller.
LEMMA IdleTypes ==
  ASSUME RoutingTypeOK, NEW t \in Everyone, Idle(t)
  PROVE  Maps' /\ Others(t) /\ Caller(t)'
<1>1. Maps /\ Caller(t)
  BY TypeByCaller
<1>2. Maps'
  BY <1>1 DEF Idle, Set, Maps, Mapping
<1>3. Others(t)
  BY <1>1 DEF Idle, Set, Maps, Mapping, Others
<1>4. Caller(t)'
  BY <1>1, RoutingAssumption DEF Idle, Set, Maps, Mapping, Caller, Labels
<1> QED
  BY <1>2, <1>3, <1>4

LEMMA FinishTypes ==
  ASSUME RoutingTypeOK, NEW t \in Everyone, NEW ok \in BOOLEAN, stage[t] # "idle", Finish(t, ok)
  PROVE  Maps' /\ Others(t) /\ Caller(t)'
<1>1. CASE pin[t] = None
  BY <1>1, IdleTypes DEF Finish
<1>2. CASE pin[t] # None
  <2>1. Maps /\ Caller(t)
    BY TypeByCaller
  <2>2. Maps'
    BY <1>2, <2>1 DEF Finish, Set, Maps, Mapping
  <2>3. Others(t)
    BY <1>2, <2>1 DEF Finish, Set, Maps, Mapping, Others
  <2>4. Caller(t)'
    BY <1>2, <2>1, RoutingAssumption DEF Finish, Set, Maps, Mapping, Caller, Labels, Answers
  <2> QED
    BY <2>2, <2>3, <2>4
<1> QED
  BY <1>1, <1>2

LEMMA SelectTypes == \A t \in Everyone : RoutingTypeOK /\ Select(t) => RoutingTypeOK'
<1> SUFFICES ASSUME NEW t \in Everyone, RoutingTypeOK, Select(t) PROVE RoutingTypeOK'
  OBVIOUS
<1>1. Maps /\ Caller(t) /\ Tables
  BY TypeByCaller
<1>2. Tables'
  BY <1>1 DEF Select, shared, Tables
<1>3. CASE Finish(t, FALSE)
  <2>1. stage[t] # "idle"
    BY DEF Select
  <2> QED
    BY <1>2, <1>3, <2>1, FinishTypes, OneCaller
<1>4. ASSUME NEW m \in ranked[t] \ tried[t],
             current' = Set(current, t, m), tried' = Set(tried, t, tried[t] \cup {m}),
             stage' = Set(stage, t, "pick"), UNCHANGED <<ranked, open, pin, attempt>>
      PROVE  RoutingTypeOK'
  <2>1. Maps'
    BY <1>1, <1>4 DEF attempt, Set, Maps, Mapping
  <2>2. Others(t)
    BY <1>1, <1>4 DEF attempt, Set, Maps, Mapping, Others
  <2>3. Caller(t)'
    BY <1>1, <1>4, RoutingAssumption DEF attempt, Set, Maps, Mapping, Caller, Labels
  <2> QED
    BY <1>2, <2>1, <2>2, <2>3, OneCaller
<1> QED
  BY <1>3, <1>4 DEF Select

LEMMA BeginTypes == \A t \in Everyone : RoutingTypeOK /\ Begin(t) => RoutingTypeOK'
<1> SUFFICES ASSUME NEW t \in Everyone, RoutingTypeOK, Begin(t) PROVE RoutingTypeOK'
  OBVIOUS
<1>1. Maps /\ Caller(t) /\ Tables
  BY TypeByCaller
<1>2. Tables'
  BY <1>1 DEF Begin, Tables
<1>3. Maps'
  BY <1>1 DEF Begin, Set, Maps, Mapping, Candidates, TargetsOf, attempt
<1>4. Others(t)
  BY <1>1 DEF Begin, Set, Maps, Mapping, Candidates, TargetsOf, attempt, Others
<1>5. Caller(t)'
  BY <1>1, RoutingAssumption DEF Begin, Set, Maps, Mapping, Candidates, TargetsOf, attempt, Caller, Labels, Answers
<1> QED
  BY <1>2, <1>3, <1>4, <1>5, OneCaller

LEMMA BeginTestTypes == \A t \in Everyone, k \in Keys, m \in Targets : RoutingTypeOK /\ BeginKeyTest(t, k, m) => RoutingTypeOK'
<1> SUFFICES ASSUME NEW t \in Everyone, NEW k \in Keys, NEW m \in Targets, RoutingTypeOK, BeginKeyTest(t, k, m) PROVE RoutingTypeOK'
  OBVIOUS
<1>1. Maps /\ Caller(t) /\ Tables
  BY TypeByCaller
<1>2. Tables'
  BY <1>1 DEF BeginKeyTest, Tables
<1>3. Maps'
  BY <1>1 DEF BeginKeyTest, Set, Maps, Mapping
<1>4. Others(t)
  BY <1>1 DEF BeginKeyTest, Set, Maps, Mapping, Others
<1>5. Caller(t)'
  BY <1>1, RoutingAssumption DEF BeginKeyTest, Set, Maps, Mapping, Caller, Labels, Answers
<1> QED
  BY <1>2, <1>3, <1>4, <1>5, OneCaller

LEMMA RaiseTypes == \A t \in Everyone : RoutingTypeOK /\ GatewayRaises(t) => RoutingTypeOK'
<1> SUFFICES ASSUME NEW t \in Everyone, RoutingTypeOK, GatewayRaises(t) PROVE RoutingTypeOK'
  OBVIOUS
<1>1. Maps /\ Caller(t) /\ Tables
  BY TypeByCaller
<1>2. Tables'
  BY <1>1 DEF GatewayRaises, shared, Tables
<1>3. Maps'
  BY <1>1 DEF GatewayRaises, Set, Maps, Mapping, attempt
<1>4. Others(t)
  BY <1>1 DEF GatewayRaises, Set, Maps, Mapping, attempt, Others
<1>5. Caller(t)'
  BY <1>1, RoutingAssumption DEF GatewayRaises, Set, Maps, Mapping, attempt, Caller, Labels, Answers
<1> QED
  BY <1>2, <1>3, <1>4, <1>5, OneCaller

LEMMA PickTypes == \A t \in Everyone : RoutingTypeOK /\ PickKey(t) => RoutingTypeOK'
<1> SUFFICES ASSUME NEW t \in Everyone, RoutingTypeOK, PickKey(t) PROVE RoutingTypeOK'
  OBVIOUS
<1>1. Maps /\ Caller(t) /\ Tables
  BY TypeByCaller
<1>2. Tables'
  BY <1>1 DEF PickKey, shared, Tables
<1>3. Maps'
  BY <1>1 DEF PickKey, Set, Maps, Mapping, Choices, KeysOfProvider, route
<1>4. Others(t)
  BY <1>1 DEF PickKey, Set, Maps, Mapping, Choices, KeysOfProvider, route, Others
<1>5. Choices(t) \subseteq Keys
  BY <1>1 DEF Choices, KeysOfProvider, Caller
<1>6. Caller(t)'
  <2> DEFINE Kept == UNCHANGED <<ranked, tried, current, open, pin, tries, fixes>>
  <2>1. stage[t] = "pick" /\ Kept
    BY DEF PickKey, route
  <2>2. ASSUME NEW k \in Keys, last' = Set(last, t, k), used' = Set(used, t, k),
               stage' = Set(stage, t, "call"), UNCHANGED outcome
        PROVE  Caller(t)'
    BY <1>1, <2>1, <2>2, RoutingAssumption DEF Set, Maps, Mapping, Caller, Labels
  <2>3. ASSUME last' = Set(last, t, None), used' = Set(used, t, None),
               outcome' = Set(outcome, t, "nokey"), stage' = Set(stage, t, "record")
        PROVE  Caller(t)'
    BY <1>1, <2>1, <2>3 DEF Set, Maps, Mapping, Caller, Labels
  <2> QED
    BY <1>5, <2>2, <2>3 DEF PickKey
<1> QED
  BY <1>2, <1>3, <1>4, <1>6, OneCaller

LEMMA AnswerTypes == \A t \in Everyone, a \in Answers : RoutingTypeOK /\ Answer(t, a) => RoutingTypeOK'
<1> SUFFICES ASSUME NEW t \in Everyone, NEW a \in Answers, RoutingTypeOK, Answer(t, a) PROVE RoutingTypeOK'
  OBVIOUS
<1>1. Maps /\ Caller(t) /\ Tables
  BY TypeByCaller
<1>2. Tables'
  BY <1>1 DEF Answer, Cooled, Caller, Tables
<1>3. Maps'
  BY <1>1 DEF Answer, Set, Maps, Mapping, route
<1>4. Others(t)
  BY <1>1 DEF Answer, Set, Maps, Mapping, route, Others
<1>5. Caller(t)'
  BY <1>1, RoutingAssumption DEF Answer, Set, Maps, Mapping, route, Caller, Labels, Answers
<1> QED
  BY <1>2, <1>3, <1>4, <1>5, OneCaller

LEMMA RecordTypes == \A t \in Everyone : RoutingTypeOK /\ Record(t) => RoutingTypeOK'
<1> SUFFICES ASSUME NEW t \in Everyone, RoutingTypeOK, Record(t) PROVE RoutingTypeOK'
  OBVIOUS
<1>1. Maps /\ Caller(t) /\ Tables
  BY TypeByCaller
<1>2. Tables'
  BY <1>1 DEF Record, Marked, Caller, Tables
<1>3. Maps'
  BY <1>1 DEF Record, Set, Maps, Mapping, RetriesLeft, route
<1>4. Others(t)
  BY <1>1 DEF Record, Set, Maps, Mapping, RetriesLeft, route, Others
<1>5. Caller(t)'
  BY <1>1, RoutingAssumption DEF Record, Set, Maps, Mapping, RetriesLeft, route, Caller, Labels, Answers
<1> QED
  BY <1>2, <1>3, <1>4, <1>5, OneCaller

LEMMA FailedTypes == \A t \in Everyone : RoutingTypeOK /\ Failed(t) => RoutingTypeOK'
<1> SUFFICES ASSUME NEW t \in Everyone, RoutingTypeOK, Failed(t) PROVE RoutingTypeOK'
  OBVIOUS
<1>1. Maps /\ Caller(t) /\ Tables
  BY TypeByCaller
<1>2. Tables'
  BY <1>1 DEF Failed, Reported, Caller, Tables
<1>3. Maps'
  BY <1>1 DEF Failed, Set, Maps, Mapping
<1>4. Others(t)
  BY <1>1 DEF Failed, Set, Maps, Mapping, Others
<1>5. Caller(t)'
  BY <1>1, RoutingAssumption DEF Failed, Set, Maps, Mapping, Caller, Labels, Answers
<1> QED
  BY <1>2, <1>3, <1>4, <1>5, OneCaller

LEMMA JudgeTypes == \A t \in Everyone : RoutingTypeOK /\ Judge(t) => RoutingTypeOK'
<1> SUFFICES ASSUME NEW t \in Everyone, RoutingTypeOK, Judge(t) PROVE RoutingTypeOK'
  OBVIOUS
<1>1. Maps /\ Caller(t) /\ Tables
  BY TypeByCaller
<1>2. Tables'
  BY <1>1 DEF Judge, Reported, Caller, Tables
<1>3. CASE Finish(t, TRUE)
  <2>1. stage[t] # "idle"
    BY DEF Judge
  <2> QED
    BY <1>2, <1>3, <2>1, FinishTypes, OneCaller
<1>4. CASE /\ \/ /\ fixes[t] < MaxCorrections
                 /\ fixes' = Set(fixes, t, fixes[t] + 1) /\ stage' = Set(stage, t, "pick")
              \/ stage' = Set(stage, t, "failed") /\ UNCHANGED fixes
           /\ UNCHANGED <<route, last, used, outcome, tries>>
  <2>1. Maps'
    BY <1>1, <1>4 DEF route, Set, Maps, Mapping
  <2>2. Others(t)
    BY <1>1, <1>4 DEF route, Set, Maps, Mapping, Others
  <2>3. stage[t] = "judge"
    BY DEF Judge
  <2>4. Caller(t)'
    BY <1>1, <1>4, <2>3, RoutingAssumption DEF route, Set, Maps, Mapping, Caller, Labels
  <2> QED
    BY <1>2, <2>1, <2>2, <2>4, OneCaller
<1> QED
  BY <1>3, <1>4 DEF Judge

LEMMA ShareTypes == \A t \in Everyone : RoutingTypeOK /\ Share(t) => RoutingTypeOK'
<1> SUFFICES ASSUME NEW t \in Everyone, RoutingTypeOK, Share(t) PROVE RoutingTypeOK'
  OBVIOUS
<1>1. Maps /\ Caller(t) /\ Tables
  BY TypeByCaller
<1>2. Tables'
  BY <1>1 DEF Share, Caller, Tables
<1> QED
  BY <1>2, IdleTypes, OneCaller DEF Share

\* Time, and a test that somebody else's probe answers, change tables only.
LEMMA TableTypes == RoutingTypeOK /\ Tables' /\ UNCHANGED <<stage, route, attempt>> => RoutingTypeOK'
  BY DEF RoutingTypeOK, Tables, route, attempt

LEMMA TypeStep == RoutingTypeOK /\ [RoutingNext]_routing => RoutingTypeOK'
<1> SUFFICES ASSUME RoutingTypeOK, [RoutingNext]_routing PROVE RoutingTypeOK'
  OBVIOUS
<1>1. Tables
  BY TypeByCaller
<1>2. \A t \in Everyone : Continue(t) => RoutingTypeOK'
  BY SelectTypes, PickTypes, RecordTypes, JudgeTypes, FailedTypes, ShareTypes, AnswerTypes
  DEF Continue
<1>3. \A t \in Everyone : Begin(t) \/ GatewayRaises(t) => RoutingTypeOK'
  BY BeginTypes, RaiseTypes
<1>4. ASSUME NEW t \in Everyone, NEW k \in Keys, NEW m \in Targets PROVE BeginKeyTest(t, k, m) \/ Reuse(t, k, m) => RoutingTypeOK'
  <2>1. Reuse(t, k, m) => Tables' /\ UNCHANGED <<stage, route, attempt>>
    BY <1>1 DEF Reuse, Tables, route, attempt
  <2> QED
    BY <2>1, TableTypes, BeginTestTypes
<1>5. ASSUME NEW k \in Keys PROVE KeyIsBack(k) => RoutingTypeOK'
  BY <1>1, TableTypes DEF KeyIsBack, Tables
<1>6. ASSUME NEW k \in Keys, NEW m \in Targets PROVE Forget(k, m) => RoutingTypeOK'
  BY <1>1, TableTypes DEF Forget, Tables
<1>7. ASSUME NEW m \in Targets PROVE TargetIsBack(m) => RoutingTypeOK'
  BY <1>1, TableTypes DEF TargetIsBack, Tables
<1>8. UNCHANGED routing => RoutingTypeOK'
  BY <1>1, TableTypes DEF routing, shared, Tables
<1> QED
  BY <1>2, <1>3, <1>4, <1>5, <1>6, <1>7, <1>8 DEF RoutingNext, Everyone

\* Every variable keeps its type, and what an attempt records is what it called
\* with, for any number of threads, keys, models, retries and corrections.
THEOREM RoutingTypes == RoutingSpec => []RoutingTypeOK
<1>1. RoutingInit => RoutingTypeOK
  BY RoutingAssumption DEF RoutingInit, RoutingTypeOK, Answers
<1> QED
  BY <1>1, TypeStep, PTL DEF RoutingSpec

-------------------------------------------------------------------------------
(* Keys. *)

\* The only step that brings a key back is the answer of a call with it.
LEMMA OnlyAnswers ==
  ASSUME [RoutingNext]_routing, healthy' # healthy
  PROVE  \E t \in Everyone : \E a \in Answers : Answer(t, a)
<1>1. \A t \in Everyone : Begin(t) => healthy' = healthy
  BY DEF Begin
<1>2. \A t \in Everyone : \A k \in Keys : \A m \in Targets :
        BeginKeyTest(t, k, m) \/ Reuse(t, k, m) => healthy' = healthy
  BY DEF BeginKeyTest, Reuse
<1>3. \A t \in Everyone :
        Select(t) \/ GatewayRaises(t) \/ PickKey(t) \/ Record(t) \/ Judge(t) \/ Failed(t) \/ Share(t)
        => healthy' = healthy
  BY DEF Select, GatewayRaises, PickKey, Record, Judge, Failed, Share, shared
<1>4. /\ \A k \in Keys : KeyIsBack(k) => healthy' = healthy
      /\ \A k \in Keys : \A m \in Targets : Forget(k, m) => healthy' = healthy
      /\ \A m \in Targets : TargetIsBack(m) => healthy' = healthy
  BY DEF KeyIsBack, Forget, TargetIsBack
<1>5. UNCHANGED routing => healthy' = healthy
  BY DEF routing, shared
<1> QED
  BY <1>1, <1>2, <1>3, <1>4, <1>5 DEF RoutingNext, Continue, Everyone

\* credentials.py:77: whatever threads do, only the success of a test pinned to
\* a rejected key brings it back.
THEOREM RejectedKeysStayOut == RoutingSpec => RevokedStaysOut
<1> DEFINE Revived == \A k \in Keys : k \in healthy' \ healthy =>
             \E t \in Everyone : pin[t] = k /\ used[t] = k /\ outcome'[t] = "ok"
<1>1. RoutingTypeOK /\ [RoutingNext]_routing => Revived
  <2> SUFFICES ASSUME RoutingTypeOK, [RoutingNext]_routing, NEW k \in Keys, k \in healthy' \ healthy
               PROVE  \E t \in Everyone : pin[t] = k /\ used[t] = k /\ outcome'[t] = "ok"
    OBVIOUS
  <2>1. PICK t \in Everyone, a \in Answers : Answer(t, a)
    BY OnlyAnswers
  <2>2. a = "ok" /\ pin[t] = used[t] /\ used[t] = k
    BY <2>1 DEF Answer
  <2>3. outcome'[t] = "ok"
    BY <2>1, <2>2 DEF Answer, Set, RoutingTypeOK
  <2> QED
    BY <2>2, <2>3
<1>2. RoutingTypeOK /\ [RoutingNext]_routing => [Revived]_routing
  BY <1>1
<1> QED
  BY <1>2, RoutingTypes, PTL DEF RoutingSpec, RevokedStaysOut

-------------------------------------------------------------------------------
(* Rows and failures. *)

\* A step that moves a caller on is its own.
LEMMA OwnStep ==
  ASSUME RoutingTypeOK, [RoutingNext]_routing, NEW t \in Everyone, stage[t] # "idle", stage'[t] # stage[t]
  PROVE  Continue(t)
<1> USE DEF Set
<1>0. stage = [u \in Everyone |-> stage[u]]
  BY DEF RoutingTypeOK
<1>1. ASSUME NEW u \in Everyone, u # t PROVE Continue(u) => stage'[t] = stage[t]
  <2>1. Select(u) \/ Judge(u) \/ Share(u) => stage'[t] = stage[t]
    BY <1>0, <1>1 DEF Select, Judge, Share, Finish, Idle, route
  <2>2. PickKey(u) \/ Record(u) \/ Failed(u) => stage'[t] = stage[t]
    BY <1>0, <1>1 DEF PickKey, Record, Failed
  <2>3. \A a \in Answers : Answer(u, a) => stage'[t] = stage[t]
    BY <1>0, <1>1 DEF Answer
  <2> QED
    BY <2>1, <2>2, <2>3 DEF Continue
<1>2. \A u \in Everyone : Begin(u) \/ GatewayRaises(u) => stage'[t] = stage[t]
  BY <1>0 DEF Begin, GatewayRaises
<1>3. \A u \in Everyone : \A k \in Keys : \A m \in Targets :
        BeginKeyTest(u, k, m) \/ Reuse(u, k, m) => stage'[t] = stage[t]
  BY <1>0 DEF BeginKeyTest, Reuse
<1>4. /\ \A k \in Keys : KeyIsBack(k) => stage' = stage
      /\ \A k \in Keys : \A m \in Targets : Forget(k, m) => stage' = stage
      /\ \A m \in Targets : TargetIsBack(m) => stage' = stage
      /\ UNCHANGED routing => stage' = stage
  BY DEF KeyIsBack, Forget, TargetIsBack, routing
<1> QED
  BY <1>1, <1>2, <1>3, <1>4 DEF RoutingNext, Everyone

\* router.py:1180: the only row an attempt writes is that of the key it called
\* with, for any number of threads that share the pool.
THEOREM AttemptsWriteTheirRow == RoutingSpec => RowsNameTheirKey
<1> DEFINE Named == \A t \in Everyone : stage[t] = "record" /\ stage'[t] # "record" =>
             \A k \in Keys : \A m \in Targets :
               (<<k, m>> \in bad) # (<<k, m>> \in bad') => used[t] = k /\ current[t] = m
<1>1. RoutingTypeOK /\ [RoutingNext]_routing => Named
  <2> SUFFICES ASSUME RoutingTypeOK, [RoutingNext]_routing, NEW t \in Everyone, NEW k \in Keys, NEW m \in Targets,
                      stage[t] = "record", stage'[t] # "record",
                      (<<k, m>> \in bad) # (<<k, m>> \in bad')
               PROVE  used[t] = k /\ current[t] = m
    OBVIOUS
  <2>1. Record(t)
    BY OwnStep DEF Continue, Select, PickKey, Judge, Failed, Share, Answer
  <2>2. <<k, m>> = <<last[t], current[t]>>
    BY <2>1 DEF Record, Marked
  <2>3. last[t] = used[t]
    BY DEF RoutingTypeOK
  <2> QED
    BY <2>2, <2>3
<1>2. RoutingTypeOK /\ [RoutingNext]_routing => [Named]_routing
  BY <1>1
<1> QED
  BY <1>2, RoutingTypes, PTL DEF RoutingSpec, RowsNameTheirKey

\* router.py:755-760: no route fails while a candidate is left that it did not
\* try and that the Gateway, as long as it answers, has not cooled down.
THEOREM FailuresAreExhausted == RoutingSpec => FailsWhenExhausted
<1> DEFINE Exhausted == \A t \in Everyone : stage[t] = "select" /\ stage'[t] \in {"idle", "share"} =>
             \A m \in ranked[t] \ tried[t] : open[t] /\ m \in cold
<1>1. RoutingTypeOK /\ [RoutingNext]_routing => Exhausted
  <2> SUFFICES ASSUME RoutingTypeOK, [RoutingNext]_routing, NEW t \in Everyone, NEW m \in ranked[t] \ tried[t],
                      stage[t] = "select", stage'[t] \in {"idle", "share"}
               PROVE  open[t] /\ m \in cold
    OBVIOUS
  <2>1. Select(t)
    BY OwnStep DEF Continue, PickKey, Record, Judge, Failed, Share, Answer
  <2>2. stage' # Set(stage, t, "pick") /\ open[t] \in BOOLEAN
    BY DEF Set, RoutingTypeOK
  <2>3. (IF open[t] THEN (ranked[t] \ tried[t]) \ cold ELSE ranked[t] \ tried[t]) = {}
    BY <2>1, <2>2 DEF Select
  <2> QED
    BY <2>2, <2>3
<1>2. RoutingTypeOK /\ [RoutingNext]_routing => [Exhausted]_routing
  BY <1>1
<1> QED
  BY <1>2, RoutingTypes, PTL DEF RoutingSpec, FailsWhenExhausted
===============================================================================
