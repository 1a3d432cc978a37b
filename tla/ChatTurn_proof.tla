---------------------------- MODULE ChatTurn_proof ----------------------------
(***************************************************************************)
(* What the runs of ChatTurn show on a small instance, for any numbers of  *)
(* askers, targets, steps, tries and corrections: what is reported         *)
(* COMPLETE was judged complete, an answer that was got is given, nothing  *)
(* of a turn that is over is shown as running for ever, and a turn         *)
(* implements OneAnswer; and what is read of it, piece by piece, is handed *)
(* out once and in order.  Then the conversations the turns are asked in:  *)
(* who is seen typing, and where replies stay.                             *)
(***************************************************************************)
EXTENDS TurnsAndStreams, Conversations, TLAPS, WellFoundedInduction, SequenceTheorems

Ports == {"none", "chat", "gateway", "loop"}
Records ==
    [pc : Labels, kind : {"chat", "resume"}, gw : BOOLEAN,
     must : BOOLEAN, acted : BOOLEAN, port : Ports,
     from : Targets \cup {None}, steps : 0..MaxSteps,
     runs : 0..MaxTries, fixes : 0..MaxFixes, draft : 0..MaxFixes, blank : BOOLEAN,
     judged : (0..MaxFixes) \cup {None}, said : (0..MaxFixes) \cup {None},
     status : Statuses, ends : 0..2]

\* What holds of a turn at every place of the pipeline: before the provider's work
\* nothing is known, a correction has a draft to correct, a verdict is about the
\* draft that is there and not blank, and only the end has a terminal event.
Sound(t) ==
    /\ t \in Records
    /\ t.pc = "idle" => t = Idle
    /\ t.pc \in {"brief", "go", "image"} => t.from = None /\ t.fixes = 0
    /\ t.pc \in {"brief", "go", "image", "route"} => t.port = "none"
    /\ t.pc \in {"model", "tool", "run"} => t.port \in {"none", "loop"}
    /\ t.pc \in {"check", "judge", "fix"} \/ t.fixes > 0 \/ t.port # "none" => t.from \in Targets
    /\ t.pc = "judge" => ~t.blank
    /\ t.pc # "reply" => t.ends = 0
    /\ t.pc = "reply" /\ t.kind = "chat" => t.ends = 1
    /\ t.status = "COMPLETE" => t.pc \in {"settle", "reply"}
    /\ t.pc = "settle" /\ t.status = "COMPLETE" =>
         t.from \in Targets /\ ~t.blank /\ t.judged = t.draft
    /\ t.pc = "reply" /\ t.status = "COMPLETE" => t.said = t.judged
    /\ t.pc = "reply" /\ t.kind = "chat" /\ (t.from # None \/ t.fixes > 0) => t.said # None

ChatInv ==
    /\ TypeOK
    /\ \A a \in Askers : Sound(turn[a])

\* The phase and the voice of a turn, as ImplementsOneAnswer maps them.
PhaseOf(t) == IF t.pc = "idle" \/ t.kind = "resume" THEN "none"
              ELSE IF t.ends = 0 THEN "open" ELSE IF t.ends = 1 THEN "ended" ELSE "again"
VoiceOf(t) == IF Plain(t) THEN {t.from} ELSE {}

\* What OneAnswer lets a step make of one operation.
Told(t, new) ==
    \/ PhaseOf(new) = PhaseOf(t) /\ VoiceOf(new) = VoiceOf(t)
    \/ PhaseOf(t) = "none" /\ PhaseOf(new) = "open" /\ VoiceOf(new) = VoiceOf(t)
    \/ /\ PhaseOf(t) = "open" /\ PhaseOf(new) = "open" /\ VoiceOf(t) = {}
       /\ \E v \in Targets : VoiceOf(new) = {v}
    \/ PhaseOf(t) = "open" /\ PhaseOf(new) = "ended" /\ VoiceOf(new) = VoiceOf(t)
    \/ PhaseOf(t) = "ended" /\ PhaseOf(new) = "none" /\ VoiceOf(new) = {}

\* What a step makes of the turn of asker a, and of the rest.
StepOK(a) ==
    /\ wired' = wired /\ history' \in BOOLEAN
    /\ log' \in [Askers -> [open : SUBSET Ops, over : BOOLEAN]]
    /\ \E new \in Records : Put(a, new) /\ Sound(new) /\ Told(turn[a], new)

LEMMA StepKeepsInv ==
    ASSUME ChatInv, NEW a \in Askers, StepOK(a)
    PROVE  ChatInv'
<1>1. PICK new \in Records : Put(a, new) /\ Sound(new)
    BY DEF StepOK
<1>2. turn \in [Askers -> Records]
    BY DEF ChatInv, TypeOK, Records, Ports
<1>3. turn' \in [Askers -> Records]
    BY <1>1, <1>2 DEF Put
<1>4. TypeOK'
    BY <1>3 DEF StepOK, ChatInv, TypeOK, Records, Ports
<1>5. \A b \in Askers : turn'[b] = IF b = a THEN new ELSE turn[b]
    BY <1>1, <1>2 DEF Put
<1>6. \A b \in Askers : Sound(turn[b])'
    <2> SUFFICES ASSUME NEW b \in Askers PROVE Sound(turn'[b])
        OBVIOUS
    <2> QED BY <1>1, <1>5 DEF ChatInv
<1> QED BY <1>4, <1>6 DEF ChatInv

LEMMA Numbers ==
    /\ 0 \in 0..MaxSteps /\ 0 \in 0..MaxTries /\ 1 \in 0..MaxTries /\ 0 \in 0..MaxFixes
    /\ 0 \in 0..2 /\ 1 \in 0..2 /\ 2 \in 0..2 /\ None \notin 0..MaxFixes
BY ChatAssumption

LEMMA IdleIsSound == Sound(Idle) /\ Idle \in Records
<1>1. Idle \in Records
    BY Numbers, Zenon DEF Records, Idle, Labels, Statuses, Ports
<1>2. /\ Idle.pc = "idle" /\ Idle.from = None /\ Idle.fixes = 0 /\ Idle.port = "none"
      /\ Idle.ends = 0 /\ Idle.status = "none"
    BY DEF Idle
<1> QED BY <1>1, <1>2 DEF Sound

LEMMA OneTurn ==
    ASSUME NEW a, NEW new, Put(a, new), Sound(new), Told(turn[a], new), wired' = wired,
           history' \in BOOLEAN, log' \in [Askers -> [open : SUBSET Ops, over : BOOLEAN]]
    PROVE  StepOK(a)
BY DEF StepOK, Sound

LEMMA TurnFacts ==
    ASSUME ChatInv, NEW a \in Askers
    PROVE  /\ Sound(turn[a]) /\ turn[a] \in Records /\ history \in BOOLEAN
           /\ log \in [Askers -> [open : SUBSET Ops, over : BOOLEAN]]
BY DEF ChatInv, TypeOK, Sound

\* Events keep the log in its shape.
LEMMA LogFacts ==
    ASSUME ChatInv, NEW a \in Askers, NEW ops, NEW op \in Ops,
           log' = log \/ EndAll(a, ops) \/ Ends(a, op) \/ Begins(a, op)
    PROVE  log' \in [Askers -> [open : SUBSET Ops, over : BOOLEAN]]
<1>1. log \in [Askers -> [open : SUBSET Ops, over : BOOLEAN]]
    BY TurnFacts
<1>2. log[a].open \in SUBSET Ops /\ log[a].over \in BOOLEAN
    BY <1>1
<1>3. CASE EndAll(a, ops)
    <2>1. [open |-> log[a].open \ ops, over |-> log[a].over \/ ops \cap Roots # {}]
            \in [open : SUBSET Ops, over : BOOLEAN]
        BY <1>2
    <2> QED BY <1>1, <1>3, <2>1, Zenon DEF EndAll
<1>4. CASE Ends(a, op)
    <2>1. [open |-> log[a].open \ {op}, over |-> log[a].over \/ {op} \cap Roots # {}]
            \in [open : SUBSET Ops, over : BOOLEAN]
        BY <1>2
    <2> QED BY <1>1, <1>4, <2>1, Zenon DEF EndAll, Ends
<1>5. CASE Begins(a, op)
    <2>1. [log[a] EXCEPT !.open = @ \cup {op}] \in [open : SUBSET Ops, over : BOOLEAN]
        <3>1. log[a] \in [open : SUBSET Ops, over : BOOLEAN] /\ log[a].open \cup {op} \in SUBSET Ops
            BY <1>1, <1>2
        <3> QED BY <3>1, Zenon
    <2> QED BY <1>1, <1>5, <2>1, Zenon DEF Begins
<1> QED BY <1>1, <1>3, <1>4, <1>5

\* A step that keeps the source and the kind of the turn, and does not end it.
LEMMA Kept ==
    ASSUME NEW t, NEW new, new.kind = t.kind, new.port = t.port, new.from = t.from,
           new.ends = t.ends, t.pc # "idle", new.pc # "idle"
    PROVE  Told(t, new)
BY DEF Told, PhaseOf, VoiceOf, Plain

LEMMA DraftRecord ==
    ASSUME NEW t \in Records, NEW next \in Labels, NEW v \in Targets, NEW blank \in BOOLEAN,
           NEW p \in Ports, NEW status \in Statuses, NEW d \in 0..MaxFixes, NEW z \in 0..MaxSteps
    PROVE  [t EXCEPT !.pc = next, !.from = v, !.draft = d, !.blank = blank,
                     !.port = p, !.steps = z, !.status = status] \in Records
BY Zenon DEF Records

\* A draft arrives from v.
LEMMA DraftStep ==
    ASSUME ChatInv, NEW a \in Askers, NEW t \in Records, NEW v \in Targets, NEW blank \in BOOLEAN,
           NEW new \in Drafted(t, v, blank), Put(a, new),
           t.kind = turn[a].kind, t.port = turn[a].port, t.ends = 0,
           turn[a].pc \notin {"idle", "reply"}, turn[a].port = "chat" => v = turn[a].from,
           wired' = wired, history' \in BOOLEAN,
           log' \in [Askers -> [open : SUBSET Ops, over : BOOLEAN]]
    PROVE  StepOK(a)
<1> DEFINE c == turn[a]
<1>0. Sound(c) /\ c \in Records
    BY TurnFacts
<1> DEFINE next == IF t.gw THEN "check" ELSE "settle"
           status == IF next = "settle" THEN "skipped" ELSE "none"
<1>1. PICK p \in (IF t.port = "none" THEN PortFor(t) ELSE {t.port}) :
        new = [t EXCEPT !.pc = next, !.from = v, !.draft = t.fixes, !.blank = blank,
                        !.port = p, !.steps = 0, !.status = status]
    BY DEF Drafted
<1>2. p \in Ports /\ (t.port # "none" => p = t.port)
      /\ next \in Labels /\ status \in Statuses /\ status # "COMPLETE" /\ t.fixes \in 0..MaxFixes
      /\ next \in {"check", "settle"}
    BY DEF PortFor, Records, Labels, Statuses, Ports
<1> HIDE DEF next, status
<1>a. [t EXCEPT !.pc = next, !.from = v, !.draft = t.fixes, !.blank = blank,
                !.port = p, !.steps = 0, !.status = status] \in Records
    <2>1. p \in Ports /\ next \in Labels /\ status \in Statuses /\ t.fixes \in 0..MaxFixes
          /\ 0 \in 0..MaxSteps
        BY <1>2, Numbers
    <2> HIDE <1>1, <1>2
    <2>2. \A d \in 0..MaxFixes, z \in 0..MaxSteps :
            [t EXCEPT !.pc = next, !.from = v, !.draft = d, !.blank = blank,
                      !.port = p, !.steps = z, !.status = status] \in Records
        <3>1. SUFFICES ASSUME NEW d \in 0..MaxFixes, NEW z \in 0..MaxSteps
                       PROVE  [t EXCEPT !.pc = next, !.from = v, !.draft = d, !.blank = blank,
                                        !.port = p, !.steps = z, !.status = status] \in Records
            OBVIOUS
        <3> QED BY <2>1, DraftRecord, ZenonT(60)
    <2> QED BY <2>1, <2>2, ZenonT(60)
<1>3. new \in Records
    BY <1>1, <1>a
<1>4. /\ new.pc = next /\ new.from = v /\ new.port = p /\ new.status = status
      /\ new.kind = t.kind /\ new.ends = t.ends
    BY <1>1, Zenon DEF Records
<1>5. Sound(new)
    <2>1. new.pc \notin {"idle", "brief", "go", "image", "route", "model", "tool", "run", "judge", "reply"}
        BY <1>2, <1>4
    <2>2. new.from \in Targets /\ new.status # "COMPLETE" /\ new.ends = 0
        BY <1>2, <1>4
    <2> QED BY <1>3, <2>1, <2>2 DEF Sound
<1>6. Told(c, new)
    <2>1. c.ends = 0 /\ c.pc # "idle" /\ new.pc # "idle" /\ new.ends = 0 /\ c.kind \in {"chat", "resume"}
          /\ new.kind = c.kind
        BY <1>0, <1>2, <1>4 DEF Sound, Records
    <2>2. CASE c.kind = "resume"
        BY <2>1, <2>2 DEF Told, PhaseOf, VoiceOf, Plain
    <2>3. CASE c.kind = "chat" /\ c.port = "chat"
        BY <1>2, <1>4, <2>1, <2>3 DEF Told, PhaseOf, VoiceOf, Plain
    <2>4. CASE c.kind = "chat" /\ c.port # "chat"
        BY <1>4, <2>1, <2>4 DEF Told, PhaseOf, VoiceOf, Plain
    <2> QED BY <2>1, <2>2, <2>3, <2>4
<1> QED BY <1>5, <1>6, OneTurn

\* No draft arrives.
LEMMA NoDraftStep ==
    ASSUME ChatInv, NEW a \in Askers, NEW t \in Records, Put(a, NoDraft(t)),
           t.kind = turn[a].kind, t.port = turn[a].port, t.from = turn[a].from, t.ends = 0,
           t.fixes > 0 => t.from \in Targets,
           turn[a].pc \notin {"idle", "reply"},
           wired' = wired, history' \in BOOLEAN,
           log' \in [Askers -> [open : SUBSET Ops, over : BOOLEAN]]
    PROVE  StepOK(a)
<1> DEFINE c == turn[a]
           new == NoDraft(t)
<1>0. Sound(c) /\ c \in Records
    BY TurnFacts
<1>1. "settle" \in Labels /\ "FAILED" \in Statuses
    BY DEF Labels, Statuses
<1>2. new \in Records
    BY <1>1, Numbers, ZenonT(120) DEF Records, NoDraft
<1>3. /\ new.pc = "settle" /\ new.from = t.from /\ new.port = t.port /\ new.status = "FAILED"
      /\ new.kind = t.kind /\ new.ends = t.ends /\ new.fixes = t.fixes
    BY Zenon DEF Records, NoDraft
<1> HIDE DEF new
<1>4. Sound(new)
    BY <1>0, <1>2, <1>3 DEF Sound
<1>5. Told(c, new)
    <2>1. c.ends = 0
        BY <1>0 DEF Sound
    <2> QED BY <1>3, <2>1, Kept
<1> QED BY <1>4, <1>5, OneTurn DEF new

\* The brief.
LEMMA StepUnderstand ==
    ASSUME ChatInv, NEW a \in Askers, Understand(a)
    PROVE  StepOK(a)
<1> DEFINE c == turn[a]
<1>0. /\ Sound(c) /\ c \in Records /\ wired' = wired /\ history' \in BOOLEAN
      /\ c.pc = "brief" /\ wired \in [tools : BOOLEAN, brain : BOOLEAN]
    BY TurnFacts DEF Understand, ChatInv, TypeOK, At, Quietly
<1>l. log' \in [Askers -> [open : SUBSET Ops, over : BOOLEAN]]
    BY LogFacts DEF Understand, ChatInv, TypeOK, Quietly, Ops
<1>1. c.ends = 0 /\ c.from = None /\ c.fixes = 0 /\ c.port = "none" /\ c.status # "COMPLETE"
    BY <1>0 DEF Sound, Records
<1> HIDE DEF c
<1>2. ASSUME NEW must \in BOOLEAN, Put(a, [c EXCEPT !.pc = "go", !.must = must])
      PROVE  StepOK(a)
    <2> DEFINE new == [c EXCEPT !.pc = "go", !.must = must]
    <2>1. "go" \in Labels
        BY <1>0, <1>1, <1>2, Numbers, ChatAssumption DEF Labels, Statuses
    <2>2. new \in Records
        BY <1>0, <2>1, Numbers, Zenon DEF Records
    <2>3. /\ new.pc = "go" /\ new.kind = c.kind /\ new.port = c.port /\ new.from = c.from
          /\ new.fixes = c.fixes /\ new.blank = c.blank /\ new.ends = c.ends /\ new.status = c.status
          /\ new.judged = c.judged /\ new.said = c.said /\ new.draft = c.draft
        BY <1>0, Zenon DEF Records
    <2> HIDE DEF new
    <2>4. Sound(new)
        BY <1>0, <1>1, <1>2, <2>1, <2>2, <2>3 DEF Sound
    <2>5. Told(c, new)
        BY <1>0, <1>1, <2>3, Kept
    <2> QED BY <1>0, <1>l, <1>2, <2>4, <2>5, OneTurn DEF c, new
<1> QED BY <1>0, <1>1, <1>2 DEF Understand, c

\* The way the work goes.
LEMMA StepDispatch ==
    ASSUME ChatInv, NEW a \in Askers, Dispatch(a)
    PROVE  StepOK(a)
<1> DEFINE c == turn[a]
<1>0. /\ Sound(c) /\ c \in Records /\ wired' = wired /\ history' \in BOOLEAN
      /\ c.pc = "go"
    BY TurnFacts DEF Dispatch, At, Quietly
<1>l. log' \in [Askers -> [open : SUBSET Ops, over : BOOLEAN]]
    BY LogFacts DEF Dispatch, Quietly, Ops
<1>1. c.ends = 0 /\ c.from = None /\ c.fixes = 0 /\ c.port = "none" /\ c.status # "COMPLETE"
    BY <1>0 DEF Sound, Records
<1> HIDE DEF c
<1>2. ASSUME Put(a, [c EXCEPT !.pc = "image"])
      PROVE  StepOK(a)
    <2> DEFINE new == [c EXCEPT !.pc = "image"]
    <2>1. "image" \in Labels
        BY <1>0, <1>1, <1>2, Numbers, ChatAssumption DEF Labels, Statuses
    <2>2. new \in Records
        BY <1>0, <2>1, Numbers, Zenon DEF Records
    <2>3. /\ new.pc = "image" /\ new.kind = c.kind /\ new.port = c.port /\ new.from = c.from
          /\ new.fixes = c.fixes /\ new.blank = c.blank /\ new.ends = c.ends /\ new.status = c.status
          /\ new.judged = c.judged /\ new.said = c.said /\ new.draft = c.draft
        BY <1>0, Zenon DEF Records
    <2> HIDE DEF new
    <2>4. Sound(new)
        BY <1>0, <1>1, <1>2, <2>1, <2>2, <2>3 DEF Sound
    <2>5. Told(c, new)
        BY <1>0, <1>1, <2>3, Kept
    <2> QED BY <1>0, <1>l, <1>2, <2>4, <2>5, OneTurn DEF c, new
<1>3. ASSUME Put(a, [c EXCEPT !.pc = "model"])
      PROVE  StepOK(a)
    <2> DEFINE new == [c EXCEPT !.pc = "model"]
    <2>1. "model" \in Labels
        BY <1>0, <1>1, <1>3, Numbers, ChatAssumption DEF Labels, Statuses
    <2>2. new \in Records
        BY <1>0, <2>1, Numbers, Zenon DEF Records
    <2>3. /\ new.pc = "model" /\ new.kind = c.kind /\ new.port = c.port /\ new.from = c.from
          /\ new.fixes = c.fixes /\ new.blank = c.blank /\ new.ends = c.ends /\ new.status = c.status
          /\ new.judged = c.judged /\ new.said = c.said /\ new.draft = c.draft
        BY <1>0, Zenon DEF Records
    <2> HIDE DEF new
    <2>4. Sound(new)
        BY <1>0, <1>1, <1>3, <2>1, <2>2, <2>3 DEF Sound
    <2>5. Told(c, new)
        BY <1>0, <1>1, <2>3, Kept
    <2> QED BY <1>0, <1>l, <1>3, <2>4, <2>5, OneTurn DEF c, new
<1>4. ASSUME Put(a, [c EXCEPT !.pc = "route"])
      PROVE  StepOK(a)
    <2> DEFINE new == [c EXCEPT !.pc = "route"]
    <2>1. "route" \in Labels
        BY <1>0, <1>1, <1>4, Numbers, ChatAssumption DEF Labels, Statuses
    <2>2. new \in Records
        BY <1>0, <2>1, Numbers, Zenon DEF Records
    <2>3. /\ new.pc = "route" /\ new.kind = c.kind /\ new.port = c.port /\ new.from = c.from
          /\ new.fixes = c.fixes /\ new.blank = c.blank /\ new.ends = c.ends /\ new.status = c.status
          /\ new.judged = c.judged /\ new.said = c.said /\ new.draft = c.draft
        BY <1>0, Zenon DEF Records
    <2> HIDE DEF new
    <2>4. Sound(new)
        BY <1>0, <1>1, <1>4, <2>1, <2>2, <2>3 DEF Sound
    <2>5. Told(c, new)
        BY <1>0, <1>1, <2>3, Kept
    <2> QED BY <1>0, <1>l, <1>4, <2>4, <2>5, OneTurn DEF c, new
<1> QED BY <1>0, <1>1, <1>2, <1>3, <1>4 DEF Dispatch, c

LEMMA FinishRecord ==
    ASSUME NEW t \in Records, NEW place \in Labels, NEW e \in 0..2, NEW f \in BOOLEAN
    PROVE  [t EXCEPT !.pc = place, !.ends = e, !.gw = f, !.blank = f] \in Records
BY Zenon DEF Records

\* The turn is over.
LEMMA FinishStep ==
    ASSUME ChatInv, NEW a \in Askers, NEW now \in Records, Finish(a, now),
           now.kind = turn[a].kind, now.port = turn[a].port, now.from = turn[a].from,
           now.fixes = turn[a].fixes, now.ends = 0, turn[a].pc \notin {"idle", "reply"},
           now.status = "COMPLETE" => now.said = now.judged,
           now.kind = "chat" /\ (now.from # None \/ now.fixes > 0) => now.said # None,
           wired' = wired, history' \in BOOLEAN
    PROVE  StepOK(a)
<1> DEFINE c == turn[a]
           new == [now EXCEPT !.pc = "reply", !.ends = @ + 1, !.gw = FALSE, !.blank = FALSE]
<1>0. Sound(c) /\ c \in Records /\ Put(a, new)
    BY TurnFacts DEF Finish
<1>1. now.ends + 1 \in 0..2 /\ now.ends + 1 = 1 /\ "reply" \in Labels /\ now.kind \in Ops
    BY DEF Labels, Records, Ops
<1>2. log' \in [Askers -> [open : SUBSET Ops, over : BOOLEAN]]
    BY <1>1, LogFacts DEF Finish
<1>3. new \in Records
    <2>1. now.ends + 1 \in 0..2 /\ "reply" \in Labels
        BY <1>1
    <2>2. FALSE \in BOOLEAN
        OBVIOUS
    <2> QED BY <2>1, <2>2, FinishRecord, Zenon
<1>4. /\ new.pc = "reply" /\ new.kind = now.kind /\ new.port = now.port /\ new.from = now.from
      /\ new.fixes = now.fixes /\ new.ends = now.ends + 1 /\ new.status = now.status
      /\ new.judged = now.judged /\ new.said = now.said
    BY Zenon DEF Records
<1> HIDE DEF new
<1>5. Sound(new)
    BY <1>0, <1>1, <1>3, <1>4 DEF Sound
<1>6. Told(c, new)
    <2>1. c.ends = 0 /\ new.ends = 1 /\ c.pc # "idle" /\ new.pc # "idle" /\ c.kind = new.kind
          /\ c.port = new.port /\ c.from = new.from
        BY <1>0, <1>1, <1>4 DEF Sound
    <2> QED BY <2>1 DEF Told, PhaseOf, VoiceOf, Plain
<1> QED BY <1>0, <1>2, <1>5, <1>6, OneTurn

\* The prompts raise: nothing was drafted yet.
LEMMA StepBreaks ==
    ASSUME ChatInv, NEW a \in Askers, Breaks(a)
    PROVE  StepOK(a)
<1> DEFINE c == turn[a]
           now == [c EXCEPT !.status = "error"]
<1>0. /\ Sound(c) /\ c \in Records /\ wired' = wired /\ history' \in BOOLEAN
      /\ c.pc = "go" /\ Finish(a, now)
    BY TurnFacts DEF Breaks, At
<1>1. "error" \in Statuses
    BY DEF Statuses
<1>2. now \in Records
    BY <1>0, <1>1, Zenon DEF Records
<1>3. now.kind = c.kind /\ now.port = c.port /\ now.from = c.from /\ now.fixes = c.fixes
      /\ now.ends = c.ends /\ now.status = "error"
    BY <1>0, Zenon DEF Records
<1>4. c.from = None /\ c.fixes = 0 /\ c.ends = 0
    BY <1>0 DEF Sound
<1> HIDE DEF now
<1> QED BY <1>0, <1>2, <1>3, <1>4, FinishStep

\* The verification raises: the first draft is said.
LEMMA StepVerifyBreaks ==
    ASSUME ChatInv, NEW a \in Askers, VerifyBreaks(a)
    PROVE  StepOK(a)
<1> DEFINE c == turn[a]
           now == [c EXCEPT !.status = "error", !.said = 0]
<1>0. /\ Sound(c) /\ c \in Records /\ wired' = wired /\ history' \in BOOLEAN
      /\ c.pc = "check" /\ Finish(a, now)
    BY TurnFacts DEF VerifyBreaks, At
<1>1. "error" \in Statuses /\ 0 \in (0..MaxFixes) \cup {None} /\ 0 # None
    BY Numbers DEF Statuses
<1>2. now \in Records
    BY <1>0, <1>1, Zenon DEF Records
<1>3. now.kind = c.kind /\ now.port = c.port /\ now.from = c.from /\ now.fixes = c.fixes
      /\ now.ends = c.ends /\ now.status = "error" /\ now.said = 0
    BY <1>0, Zenon DEF Records
<1>4. c.ends = 0
    BY <1>0 DEF Sound
<1> HIDE DEF now
<1> QED BY <1>0, <1>1, <1>2, <1>3, <1>4, FinishStep

\* The end of the turn: what is said is the draft that was judged.
LEMMA StepSettle ==
    ASSUME ChatInv, NEW a \in Askers, Settle(a)
    PROVE  StepOK(a)
<1> DEFINE c == turn[a]
           now == [c EXCEPT !.said = Text(c)]
<1>0. /\ Sound(c) /\ c \in Records /\ wired' = wired /\ history' \in BOOLEAN
      /\ c.pc = "settle" /\ Finish(a, now)
    BY TurnFacts DEF Settle, At
<1>a. c.draft \in 0..MaxFixes /\ 0 \in 0..MaxFixes /\ c.fixes \in 0..MaxFixes
    BY <1>0, Numbers DEF Records
<1>1. Text(c) \in (0..MaxFixes) \cup {None} /\ (c.from # None => Text(c) # None)
    BY <1>a, Numbers DEF Text
<1>2. now \in Records
    BY <1>0, <1>1, Zenon DEF Records
<1>3. now.kind = c.kind /\ now.port = c.port /\ now.from = c.from /\ now.fixes = c.fixes
      /\ now.ends = c.ends /\ now.status = c.status /\ now.said = Text(c) /\ now.judged = c.judged
    BY <1>0, Zenon DEF Records
<1>4. c.ends = 0 /\ (c.fixes > 0 => c.from \in Targets)
    BY <1>0 DEF Sound
<1>5. c.status = "COMPLETE" => Text(c) = c.judged
    BY <1>0, ChatAssumption DEF Sound, Text
<1> HIDE DEF now
<1> QED BY <1>0, <1>1, <1>2, <1>3, <1>4, <1>5, ChatAssumption, FinishStep

\* The continuation raises, and is reported twice.
LEMMA StepResumeBreaks ==
    ASSUME ChatInv, NEW a \in Askers, ResumeBreaks(a)
    PROVE  StepOK(a)
<1> DEFINE c == turn[a]
           new == [c EXCEPT !.pc = "reply", !.ends = 2, !.status = "error"]
<1>0. /\ Sound(c) /\ c \in Records /\ wired' = wired /\ history' \in BOOLEAN
      /\ c.pc = "go" /\ c.kind = "resume" /\ Put(a, new) /\ Ends(a, "resume")
    BY TurnFacts DEF ResumeBreaks, At
<1>1. log' \in [Askers -> [open : SUBSET Ops, over : BOOLEAN]]
    BY <1>0, LogFacts DEF Ops
<1>2. "error" \in Statuses /\ "reply" \in Labels /\ 2 \in 0..2
    BY DEF Statuses, Labels
<1>3. new \in Records
    BY <1>0, <1>2, Zenon DEF Records
<1>4. new.pc = "reply" /\ new.kind = c.kind /\ new.status = "error" /\ new.fixes = c.fixes
      /\ new.port = c.port
    BY <1>0, Zenon DEF Records
<1>5. c.fixes = 0 /\ c.port = "none"
    BY <1>0 DEF Sound
<1> HIDE DEF new
<1>6. Sound(new) /\ Told(c, new)
    BY <1>0, <1>3, <1>4, <1>5 DEF Sound, Told, PhaseOf, VoiceOf, Plain
<1> QED BY <1>0, <1>1, <1>6, OneTurn DEF new

\* A tool call of the loop.
LEMMA StepLoopCallsTool ==
    ASSUME ChatInv, NEW a \in Askers, LoopCallsTool(a)
    PROVE  StepOK(a)
<1> DEFINE c == turn[a]
<1>0. /\ Sound(c) /\ c \in Records /\ wired' = wired /\ history' \in BOOLEAN
      /\ c.pc = "model" /\ c.steps < MaxSteps
    BY TurnFacts DEF LoopCallsTool, At, Quietly
<1>l. log' \in [Askers -> [open : SUBSET Ops, over : BOOLEAN]]
    BY LogFacts DEF LoopCallsTool, Quietly, Ops
<1>1. /\ c.ends = 0 /\ c.status # "COMPLETE" /\ (c.fixes > 0 \/ c.port # "none" => c.from \in Targets)
      /\ c.kind \in {"chat", "resume"} /\ c.port \in {"none", "loop"} /\ c.steps \in 0..MaxSteps
    BY <1>0 DEF Sound, Records
<1> HIDE DEF c
<1>2. ASSUME Put(a, [c EXCEPT !.pc = "tool", !.steps = @ + 1])
      PROVE  StepOK(a)
    <2> DEFINE new == [c EXCEPT !.pc = "tool", !.steps = @ + 1]
    <2>1. "tool" \in Labels /\ c.steps + 1 \in 0..MaxSteps
        BY <1>0, <1>1, <1>2, Numbers, ChatAssumption DEF Labels, Statuses
    <2>2. new \in Records
        BY <1>0, <2>1, Numbers, Zenon DEF Records
    <2>3. /\ new.pc = "tool" /\ new.kind = c.kind /\ new.port = c.port /\ new.from = c.from
          /\ new.fixes = c.fixes /\ new.blank = c.blank /\ new.ends = c.ends /\ new.status = c.status
          /\ new.judged = c.judged /\ new.said = c.said /\ new.draft = c.draft
        BY <1>0, Zenon DEF Records
    <2> HIDE DEF new
    <2>4. Sound(new)
        BY <1>0, <1>1, <1>2, <2>1, <2>2, <2>3 DEF Sound
    <2>5. Told(c, new)
        BY <1>0, <1>1, <2>3, Kept
    <2> QED BY <1>0, <1>l, <1>2, <2>4, <2>5, OneTurn DEF c, new
<1> QED BY <1>0, <1>1, <1>2 DEF LoopCallsTool, c

\* The tool runs.
LEMMA StepToolStarts ==
    ASSUME ChatInv, NEW a \in Askers, ToolStarts(a)
    PROVE  StepOK(a)
<1> DEFINE c == turn[a]
<1>0. /\ Sound(c) /\ c \in Records /\ wired' = wired /\ history' \in BOOLEAN
      /\ c.pc = "tool"
    BY TurnFacts DEF ToolStarts, At, Quietly
<1>l. log' \in [Askers -> [open : SUBSET Ops, over : BOOLEAN]]
    BY LogFacts DEF ToolStarts, Quietly, Ops
<1>1. /\ c.ends = 0 /\ c.status # "COMPLETE" /\ (c.fixes > 0 \/ c.port # "none" => c.from \in Targets)
      /\ c.kind \in {"chat", "resume"} /\ c.port \in {"none", "loop"}
    BY <1>0 DEF Sound, Records
<1> HIDE DEF c
<1>2. ASSUME Put(a, [c EXCEPT !.pc = "run", !.runs = 1])
      PROVE  StepOK(a)
    <2> DEFINE new == [c EXCEPT !.pc = "run", !.runs = 1]
    <2>1. "run" \in Labels
        BY <1>0, <1>1, <1>2, Numbers, ChatAssumption DEF Labels, Statuses
    <2>2. new \in Records
        BY <1>0, <2>1, Numbers, Zenon DEF Records
    <2>3. /\ new.pc = "run" /\ new.kind = c.kind /\ new.port = c.port /\ new.from = c.from
          /\ new.fixes = c.fixes /\ new.blank = c.blank /\ new.ends = c.ends /\ new.status = c.status
          /\ new.judged = c.judged /\ new.said = c.said /\ new.draft = c.draft
        BY <1>0, Zenon DEF Records
    <2> HIDE DEF new
    <2>4. Sound(new)
        BY <1>0, <1>1, <1>2, <2>1, <2>2, <2>3 DEF Sound
    <2>5. Told(c, new)
        BY <1>0, <1>1, <2>3, Kept
    <2> QED BY <1>0, <1>l, <1>2, <2>4, <2>5, OneTurn DEF c, new
<1> QED BY <1>0, <1>1, <1>2 DEF ToolStarts, c

\* The tool is tried again.
LEMMA StepToolAgain ==
    ASSUME ChatInv, NEW a \in Askers, ToolAgain(a)
    PROVE  StepOK(a)
<1> DEFINE c == turn[a]
<1>0. /\ Sound(c) /\ c \in Records /\ wired' = wired /\ history' \in BOOLEAN
      /\ c.pc = "run" /\ c.runs < MaxTries
    BY TurnFacts DEF ToolAgain, At, Quietly
<1>l. log' \in [Askers -> [open : SUBSET Ops, over : BOOLEAN]]
    BY LogFacts DEF ToolAgain, Quietly, Ops
<1>1. /\ c.ends = 0 /\ c.status # "COMPLETE" /\ (c.fixes > 0 \/ c.port # "none" => c.from \in Targets)
      /\ c.kind \in {"chat", "resume"} /\ c.port \in {"none", "loop"} /\ c.runs \in 0..MaxTries
    BY <1>0 DEF Sound, Records
<1> HIDE DEF c
<1>2. ASSUME Put(a, [c EXCEPT !.runs = @ + 1])
      PROVE  StepOK(a)
    <2> DEFINE new == [c EXCEPT !.runs = @ + 1]
    <2>1. c.runs + 1 \in 0..MaxTries
        BY <1>0, <1>1, <1>2, Numbers, ChatAssumption DEF Labels, Statuses
    <2>2. new \in Records
        BY <1>0, <2>1, Numbers, Zenon DEF Records
    <2>3. /\ new.pc = c.pc /\ new.kind = c.kind /\ new.port = c.port /\ new.from = c.from
          /\ new.fixes = c.fixes /\ new.blank = c.blank /\ new.ends = c.ends /\ new.status = c.status
          /\ new.judged = c.judged /\ new.said = c.said /\ new.draft = c.draft
        BY <1>0, Zenon DEF Records
    <2> HIDE DEF new
    <2>4. Sound(new)
        BY <1>0, <1>1, <1>2, <2>1, <2>2, <2>3 DEF Sound
    <2>5. Told(c, new)
        BY <1>0, <1>1, <2>3, Kept
    <2> QED BY <1>0, <1>l, <1>2, <2>4, <2>5, OneTurn DEF c, new
<1> QED BY <1>0, <1>1, <1>2 DEF ToolAgain, c

\* The verification before anybody is asked.
LEMMA StepCheck ==
    ASSUME ChatInv, NEW a \in Askers, Check(a)
    PROVE  StepOK(a)
<1> DEFINE c == turn[a]
<1>0. /\ Sound(c) /\ c \in Records /\ wired' = wired /\ history' \in BOOLEAN
      /\ c.pc = "check"
    BY TurnFacts DEF Check, At, Quietly
<1>l. log' \in [Askers -> [open : SUBSET Ops, over : BOOLEAN]]
    BY LogFacts DEF Check, Quietly, Ops
<1>1. /\ c.ends = 0 /\ c.status # "COMPLETE" /\ (c.fixes > 0 \/ c.port # "none" => c.from \in Targets)
      /\ c.kind \in {"chat", "resume"} /\ c.from \in Targets
    BY <1>0 DEF Sound, Records
<1> HIDE DEF c
<1>2. ASSUME ~c.blank, Put(a, [c EXCEPT !.pc = "judge"])
      PROVE  StepOK(a)
    <2> DEFINE new == [c EXCEPT !.pc = "judge"]
    <2>1. "judge" \in Labels
        BY <1>0, <1>1, <1>2, Numbers, ChatAssumption DEF Labels, Statuses
    <2>2. new \in Records
        BY <1>0, <2>1, Numbers, Zenon DEF Records
    <2>3. /\ new.pc = "judge" /\ new.kind = c.kind /\ new.port = c.port /\ new.from = c.from
          /\ new.fixes = c.fixes /\ new.blank = c.blank /\ new.ends = c.ends /\ new.status = c.status
          /\ new.judged = c.judged /\ new.said = c.said /\ new.draft = c.draft
        BY <1>0, Zenon DEF Records
    <2> HIDE DEF new
    <2>4. Sound(new)
        BY <1>0, <1>1, <1>2, <2>1, <2>2, <2>3 DEF Sound
    <2>5. Told(c, new)
        BY <1>0, <1>1, <2>3, Kept
    <2> QED BY <1>0, <1>l, <1>2, <2>4, <2>5, OneTurn DEF c, new
<1>3. ASSUME Put(a, [c EXCEPT !.pc = "fix", !.status = "INCOMPLETE"])
      PROVE  StepOK(a)
    <2> DEFINE new == [c EXCEPT !.pc = "fix", !.status = "INCOMPLETE"]
    <2>1. "fix" \in Labels /\ "INCOMPLETE" \in Statuses
        BY <1>0, <1>1, <1>3, Numbers, ChatAssumption DEF Labels, Statuses
    <2>2. new \in Records
        BY <1>0, <2>1, Numbers, Zenon DEF Records
    <2>3. /\ new.pc = "fix" /\ new.kind = c.kind /\ new.port = c.port /\ new.from = c.from
          /\ new.fixes = c.fixes /\ new.blank = c.blank /\ new.ends = c.ends /\ new.status = "INCOMPLETE"
          /\ new.judged = c.judged /\ new.said = c.said /\ new.draft = c.draft
        BY <1>0, Zenon DEF Records
    <2> HIDE DEF new
    <2>4. Sound(new)
        BY <1>0, <1>1, <1>3, <2>1, <2>2, <2>3 DEF Sound
    <2>5. Told(c, new)
        BY <1>0, <1>1, <2>3, Kept
    <2> QED BY <1>0, <1>l, <1>3, <2>4, <2>5, OneTurn DEF c, new
<1> QED BY <1>0, <1>1, <1>2, <1>3 DEF Check, c

\* The verdict.
LEMMA StepJudge ==
    ASSUME ChatInv, NEW a \in Askers, Judge(a)
    PROVE  StepOK(a)
<1> DEFINE c == turn[a]
<1>0. /\ Sound(c) /\ c \in Records /\ wired' = wired /\ history' \in BOOLEAN
      /\ c.pc = "judge"
    BY TurnFacts DEF Judge, At, Quietly
<1>l. log' \in [Askers -> [open : SUBSET Ops, over : BOOLEAN]]
    BY LogFacts DEF Judge, Quietly, Ops
<1>1. /\ c.ends = 0 /\ c.status # "COMPLETE" /\ (c.fixes > 0 \/ c.port # "none" => c.from \in Targets)
      /\ c.kind \in {"chat", "resume"} /\ c.from \in Targets /\ ~c.blank /\ c.draft \in (0..MaxFixes) \cup {None}
    BY <1>0 DEF Sound, Records
<1> HIDE DEF c
<1>2. ASSUME Put(a, [c EXCEPT !.pc = "settle", !.status = "COMPLETE", !.judged = c.draft])
      PROVE  StepOK(a)
    <2> DEFINE new == [c EXCEPT !.pc = "settle", !.status = "COMPLETE", !.judged = c.draft]
    <2>1. "settle" \in Labels /\ "COMPLETE" \in Statuses
        BY <1>0, <1>1, <1>2, Numbers, ChatAssumption DEF Labels, Statuses
    <2>2. new \in Records
        BY <1>0, <2>1, Numbers, Zenon DEF Records
    <2>3. /\ new.pc = "settle" /\ new.kind = c.kind /\ new.port = c.port /\ new.from = c.from
          /\ new.fixes = c.fixes /\ new.blank = c.blank /\ new.ends = c.ends /\ new.status = "COMPLETE"
          /\ new.judged = c.draft /\ new.said = c.said /\ new.draft = c.draft
        BY <1>0, Zenon DEF Records
    <2> HIDE DEF new
    <2>4. Sound(new)
        BY <1>0, <1>1, <1>2, <2>1, <2>2, <2>3 DEF Sound
    <2>5. Told(c, new)
        BY <1>0, <1>1, <2>3, Kept
    <2> QED BY <1>0, <1>l, <1>2, <2>4, <2>5, OneTurn DEF c, new
<1>3. ASSUME Put(a, [c EXCEPT !.pc = "fix", !.status = "INCOMPLETE"])
      PROVE  StepOK(a)
    <2> DEFINE new == [c EXCEPT !.pc = "fix", !.status = "INCOMPLETE"]
    <2>1. "fix" \in Labels /\ "INCOMPLETE" \in Statuses
        BY <1>0, <1>1, <1>3, Numbers, ChatAssumption DEF Labels, Statuses
    <2>2. new \in Records
        BY <1>0, <2>1, Numbers, Zenon DEF Records
    <2>3. /\ new.pc = "fix" /\ new.kind = c.kind /\ new.port = c.port /\ new.from = c.from
          /\ new.fixes = c.fixes /\ new.blank = c.blank /\ new.ends = c.ends /\ new.status = "INCOMPLETE"
          /\ new.judged = c.judged /\ new.said = c.said /\ new.draft = c.draft
        BY <1>0, Zenon DEF Records
    <2> HIDE DEF new
    <2>4. Sound(new)
        BY <1>0, <1>1, <1>3, <2>1, <2>2, <2>3 DEF Sound
    <2>5. Told(c, new)
        BY <1>0, <1>1, <2>3, Kept
    <2> QED BY <1>0, <1>l, <1>3, <2>4, <2>5, OneTurn DEF c, new
<1>4. ASSUME Put(a, [c EXCEPT !.pc = "settle", !.status = "FAILED"])
      PROVE  StepOK(a)
    <2> DEFINE new == [c EXCEPT !.pc = "settle", !.status = "FAILED"]
    <2>1. "settle" \in Labels /\ "FAILED" \in Statuses
        BY <1>0, <1>1, <1>4, Numbers, ChatAssumption DEF Labels, Statuses
    <2>2. new \in Records
        BY <1>0, <2>1, Numbers, Zenon DEF Records
    <2>3. /\ new.pc = "settle" /\ new.kind = c.kind /\ new.port = c.port /\ new.from = c.from
          /\ new.fixes = c.fixes /\ new.blank = c.blank /\ new.ends = c.ends /\ new.status = "FAILED"
          /\ new.judged = c.judged /\ new.said = c.said /\ new.draft = c.draft
        BY <1>0, Zenon DEF Records
    <2> HIDE DEF new
    <2>4. Sound(new)
        BY <1>0, <1>1, <1>4, <2>1, <2>2, <2>3 DEF Sound
    <2>5. Told(c, new)
        BY <1>0, <1>1, <2>3, Kept
    <2> QED BY <1>0, <1>l, <1>4, <2>4, <2>5, OneTurn DEF c, new
<1> QED BY <1>0, <1>1, <1>2, <1>3, <1>4 DEF Judge, c

\* The single call, with a draft or without.
LEMMA StepRoute ==
    ASSUME ChatInv, NEW a \in Askers, Route(a)
    PROVE  StepOK(a)
<1> DEFINE c == turn[a]
<1>0. /\ Sound(c) /\ c \in Records /\ wired' = wired /\ history' \in BOOLEAN /\ c.pc = "route"
      /\ log' \in [Askers -> [open : SUBSET Ops, over : BOOLEAN]]
    BY TurnFacts DEF Route, At, Quietly
<1>1. c.ends = 0 /\ c.port = "none" /\ (c.fixes > 0 => c.from \in Targets)
    BY <1>0 DEF Sound
<1>2. ASSUME NEW v \in Targets, NEW new \in Drafted(c, v, FALSE), Put(a, new) PROVE StepOK(a)
    BY <1>0, <1>1, <1>2, DraftStep
<1>3. ASSUME Put(a, NoDraft(c)) PROVE StepOK(a)
    BY <1>0, <1>1, <1>3, NoDraftStep
<1> QED BY <1>2, <1>3 DEF Route

\* The answer of the model in the loop.
LEMMA StepLoopAnswers ==
    ASSUME ChatInv, NEW a \in Askers, LoopAnswers(a)
    PROVE  StepOK(a)
<1> DEFINE c == turn[a]
<1>0. /\ Sound(c) /\ c \in Records /\ wired' = wired /\ history' \in BOOLEAN /\ c.pc = "model"
    BY TurnFacts DEF LoopAnswers, At
<1>l. log' \in [Askers -> [open : SUBSET Ops, over : BOOLEAN]]
    BY LogFacts DEF LoopAnswers, Ops
<1>1. c.ends = 0 /\ c.port # "chat"
    BY <1>0 DEF Sound
<1>2. PICK v \in Targets, blank \in BOOLEAN : \E new \in Drafted(c, v, blank) : Put(a, new)
    BY DEF LoopAnswers
<1> QED BY <1>0, <1>l, <1>1, <1>2, DraftStep

LEMMA StepLoopFails ==
    ASSUME ChatInv, NEW a \in Askers, LoopFails(a)
    PROVE  StepOK(a)
<1> DEFINE c == turn[a]
<1>0. /\ Sound(c) /\ c \in Records /\ wired' = wired /\ history' \in BOOLEAN /\ c.pc = "model"
      /\ Put(a, NoDraft(c))
    BY TurnFacts DEF LoopFails, At
<1>l. log' \in [Askers -> [open : SUBSET Ops, over : BOOLEAN]]
    BY LogFacts DEF LoopFails, Ops
<1>1. c.ends = 0 /\ (c.fixes > 0 => c.from \in Targets)
    BY <1>0 DEF Sound
<1> QED BY <1>0, <1>l, <1>1, NoDraftStep

LEMMA ResultRecord ==
    ASSUME NEW t \in Records, NEW runs \in 0..MaxTries, NEW acted \in BOOLEAN
    PROVE  /\ [t EXCEPT !.runs = runs, !.acted = acted] \in Records
           /\ LET r == [t EXCEPT !.runs = runs, !.acted = acted]
              IN r.kind = t.kind /\ r.port = t.port /\ r.ends = t.ends
BY Zenon DEF Records

\* The result of a tool call goes back to the model, or ends the loop.
LEMMA StepResult ==
    ASSUME ChatInv, NEW a \in Askers, Result(a), turn[a].pc \in {"tool", "run"},
           log' \in [Askers -> [open : SUBSET Ops, over : BOOLEAN]]
    PROVE  StepOK(a)
<1> DEFINE c == turn[a]
<1>0. Sound(c) /\ c \in Records /\ wired' = wired /\ history' \in BOOLEAN
    BY TurnFacts DEF Result
<1>1. c.ends = 0 /\ c.port \in {"none", "loop"} /\ c.status # "COMPLETE"
      /\ (c.fixes > 0 \/ c.port # "none" => c.from \in Targets)
    BY <1>0 DEF Sound
<1>2. CASE c.steps = MaxSteps
    <2> DEFINE t == [c EXCEPT !.runs = 0, !.acted = TRUE]
    <2>1. PICK v \in Targets : \E new \in Drafted(t, v, FALSE) : Put(a, new)
        BY <1>2 DEF Result
    <2>2. t \in Records /\ t.kind = c.kind /\ t.port = c.port /\ t.ends = c.ends
        <3>1. TRUE \in BOOLEAN /\ 0 \in 0..MaxTries
            BY Numbers
        <3> QED BY <1>0, <3>1, ResultRecord, Zenon
    <2> HIDE DEF t
    <2> QED BY <1>0, <1>1, <2>1, <2>2, DraftStep
<1>3. CASE c.steps # MaxSteps
    <2> DEFINE new == [c EXCEPT !.pc = "model", !.runs = 0, !.acted = TRUE]
    <2>1. Put(a, new)
        BY <1>3 DEF Result
    <2>2. /\ new \in Records /\ new.pc = "model" /\ new.kind = c.kind /\ new.port = c.port
          /\ new.from = c.from /\ new.ends = c.ends /\ new.fixes = c.fixes /\ new.status = c.status
        <3>1. TRUE \in BOOLEAN /\ 0 \in 0..MaxTries /\ "model" \in Labels
            BY Numbers DEF Labels
        <3>2. c \in Records
            BY <1>0
        <3>3. new \in Records
            BY <3>1, <3>2, Zenon DEF Records
        <3>4. /\ new.pc = "model" /\ new.kind = c.kind /\ new.port = c.port
              /\ new.from = c.from /\ new.ends = c.ends /\ new.fixes = c.fixes /\ new.status = c.status
            BY <3>2, Zenon DEF Records
        <3> QED BY <3>3, <3>4
    <2> HIDE DEF new
    <2>3. Sound(new)
        BY <1>1, <2>2 DEF Sound
    <2>4. Told(c, new)
        BY <2>2, Kept
    <2> QED BY <1>0, <2>1, <2>3, <2>4, OneTurn
<1> QED BY <1>2, <1>3

LEMMA FixRecord ==
    ASSUME NEW t \in Records, NEW n \in 0..MaxFixes
    PROVE  /\ [t EXCEPT !.fixes = n] \in Records
           /\ LET r == [t EXCEPT !.fixes = n]
              IN /\ r.pc = t.pc /\ r.kind = t.kind /\ r.port = t.port /\ r.from = t.from
                 /\ r.ends = t.ends /\ r.fixes = n /\ r.status = t.status
BY Zenon DEF Records

LEMMA PlaceRecord ==
    ASSUME NEW t \in Records, NEW place \in Labels
    PROVE  /\ [t EXCEPT !.pc = place] \in Records
           /\ LET r == [t EXCEPT !.pc = place]
              IN /\ r.pc = place /\ r.kind = t.kind /\ r.port = t.port /\ r.from = t.from
                 /\ r.ends = t.ends /\ r.fixes = t.fixes /\ r.status = t.status
BY Zenon DEF Records

\* A correction, on the way the port names, or the end of the supervision.
LEMMA StepFix ==
    ASSUME ChatInv, NEW a \in Askers, Fix(a)
    PROVE  StepOK(a)
<1> DEFINE c == turn[a]
           t == [c EXCEPT !.fixes = @ + 1]
<1>0. Sound(c) /\ c \in Records /\ wired' = wired /\ history' \in BOOLEAN /\ c.pc = "fix"
    BY TurnFacts DEF Fix, At
<1>l. log' \in [Askers -> [open : SUBSET Ops, over : BOOLEAN]]
    BY LogFacts DEF Fix, Ops
<1>1. c.ends = 0 /\ c.from \in Targets /\ c.status # "COMPLETE" /\ c.fixes \in 0..MaxFixes
    BY <1>0 DEF Sound, Records
<1>2. CASE Put(a, [c EXCEPT !.pc = "settle"])
    <2> DEFINE new == [c EXCEPT !.pc = "settle"]
    <2>a. "settle" \in Labels
        BY DEF Labels
    <2>1. /\ new \in Records /\ new.pc = "settle" /\ new.kind = c.kind /\ new.port = c.port
          /\ new.from = c.from /\ new.ends = c.ends /\ new.fixes = c.fixes /\ new.status = c.status
        BY <1>0, <2>a, PlaceRecord, Zenon
    <2> HIDE DEF new
    <2>2. Sound(new)
        BY <1>1, <2>1 DEF Sound
    <2>3. Told(c, new)
        BY <1>0, <2>1, Kept
    <2> QED BY <1>0, <1>l, <1>2, <2>2, <2>3, OneTurn DEF new
<1>3. CASE c.fixes < MaxFixes
    <2>1. c.fixes + 1 \in 0..MaxFixes
        BY <1>1, <1>3, ChatAssumption
    <2>2. /\ t \in Records /\ t.pc = c.pc /\ t.kind = c.kind /\ t.port = c.port /\ t.from = c.from
          /\ t.ends = c.ends /\ t.fixes = c.fixes + 1 /\ t.status = c.status
        BY <1>0, <2>1, FixRecord, Zenon
    <2> HIDE DEF t
    <2>3. ASSUME t.port = "loop", Put(a, [t EXCEPT !.pc = "model"]) PROVE StepOK(a)
        <3> DEFINE new == [t EXCEPT !.pc = "model"]
        <3>a. "model" \in Labels
            BY DEF Labels
        <3>1. /\ new \in Records /\ new.pc = "model" /\ new.kind = t.kind /\ new.port = t.port
              /\ new.from = t.from /\ new.ends = t.ends /\ new.fixes = t.fixes /\ new.status = t.status
            BY <2>2, <3>a, PlaceRecord, Zenon
        <3> HIDE DEF new
        <3>2. Sound(new)
            BY <1>1, <2>2, <2>3, <3>1 DEF Sound
        <3>3. Told(c, new)
            BY <1>0, <2>2, <3>1, Kept
        <3> QED BY <1>0, <1>l, <2>3, <3>2, <3>3, OneTurn DEF new
    <2>4. ASSUME NEW v \in IF t.port = "chat" THEN {t.from} ELSE Targets,
                 NEW new \in Drafted(t, v, FALSE), Put(a, new)
          PROVE  StepOK(a)
        <3>1. v \in Targets /\ (c.port = "chat" => v = c.from)
            BY <1>1, <2>2
        <3> QED BY <1>0, <1>l, <1>1, <2>2, <2>4, <3>1, DraftStep
    <2>5. ASSUME Put(a, NoDraft(t)) PROVE StepOK(a)
        BY <1>0, <1>l, <1>1, <2>2, <2>5, NoDraftStep
    <2>6. \/ t.port = "loop" /\ Put(a, [t EXCEPT !.pc = "model"])
          \/ \E v \in (IF t.port = "chat" THEN {t.from} ELSE Targets) :
               \E new \in Drafted(t, v, FALSE) : Put(a, new)
          \/ Put(a, NoDraft(t))
        <3>1. c.fixes # MaxFixes
            BY <1>1, <1>3, ChatAssumption
        <3> QED BY <3>1, Zenon DEF Fix, t
    <2> QED BY <2>3, <2>4, <2>5, <2>6
<1> QED BY <1>2, <1>3 DEF Fix

\* The image router.
LEMMA StepRouteImage ==
    ASSUME ChatInv, NEW a \in Askers, RouteImage(a)
    PROVE  StepOK(a)
<1> DEFINE c == turn[a]
<1>0. /\ Sound(c) /\ c \in Records /\ wired' = wired /\ history' \in BOOLEAN
      /\ c.pc = "image"
    BY TurnFacts DEF RouteImage, At, Quietly
<1>l. log' \in [Askers -> [open : SUBSET Ops, over : BOOLEAN]]
    BY LogFacts DEF RouteImage, Quietly, Ops
<1>1. c.ends = 0 /\ c.fixes = 0 /\ c.port = "none" /\ c.status # "COMPLETE" /\ c.kind \in {"chat", "resume"}
    BY <1>0 DEF Sound, Records
<1> HIDE DEF c
<1>2. ASSUME NEW v \in Targets, Put(a, [c EXCEPT !.pc = "settle", !.from = v, !.status = "skipped"])
      PROVE  StepOK(a)
    <2> DEFINE new == [c EXCEPT !.pc = "settle", !.from = v, !.status = "skipped"]
    <2>1. "settle" \in Labels /\ "skipped" \in Statuses
        BY <1>0, <1>1, <1>2, Numbers, ChatAssumption DEF Labels, Statuses
    <2>2. new \in Records
        BY <1>0, <2>1, Numbers, Zenon DEF Records
    <2>3. /\ new.pc = "settle" /\ new.kind = c.kind /\ new.port = c.port /\ new.from = v
          /\ new.fixes = c.fixes /\ new.blank = c.blank /\ new.ends = c.ends /\ new.status = "skipped"
          /\ new.judged = c.judged /\ new.said = c.said /\ new.draft = c.draft
        BY <1>0, Zenon DEF Records
    <2> HIDE DEF new
    <2>4. Sound(new)
        BY <1>0, <1>1, <1>2, <2>1, <2>2, <2>3 DEF Sound
    <2>5. Told(c, new)
        BY <1>0, <1>1, <1>2, <2>1, <2>3 DEF Told, PhaseOf, VoiceOf, Plain
    <2> QED BY <1>0, <1>l, <1>2, <2>4, <2>5, OneTurn DEF c, new
<1>x. ASSUME Put(a, NoDraft(c)) PROVE StepOK(a)
    BY <1>0, <1>l, <1>1, <1>x, NoDraftStep DEF c
<1> QED BY <1>0, <1>1, <1>2, <1>x DEF RouteImage, c

LEMMA IdleFacts ==
    /\ Idle.pc = "idle" /\ Idle.kind = "chat" /\ Idle.port = "none" /\ Idle.from = None
    /\ Idle.fixes = 0 /\ Idle.ends = 0 /\ Idle.status = "none"
BY DEF Idle

\* A turn begins.
LEMMA StepAsk ==
    ASSUME ChatInv, NEW a \in Askers, Ask(a)
    PROVE  StepOK(a)
<1>0. /\ turn[a] = Idle /\ wired' = wired /\ history' \in BOOLEAN
    BY TurnFacts DEF Ask, At, Sound
<1>1. log' \in [Askers -> [open : SUBSET Ops, over : BOOLEAN]]
    <2>1. Quiet \in [open : SUBSET Ops, over : BOOLEAN] /\ {"chat"} \in SUBSET Ops
        BY DEF Quiet, Ops
    <2>2. [Quiet EXCEPT !.open = {"chat"}] \in [open : SUBSET Ops, over : BOOLEAN]
        BY <2>1, Zenon
    <2> QED BY <2>2, TurnFacts DEF Ask
<1>2. PICK gw \in BOOLEAN : Put(a, [Idle EXCEPT !.pc = IF gw THEN "brief" ELSE "go", !.gw = gw])
    BY DEF Ask
<1> DEFINE place == IF gw THEN "brief" ELSE "go"
           new == [Idle EXCEPT !.pc = place, !.gw = gw]
<1>3. place \in Labels /\ place \in {"brief", "go"} /\ Idle \in Records
    BY IdleIsSound DEF Labels
<1>4. Put(a, new)
    BY <1>2
<1> HIDE DEF place
<1>5. new \in Records
    BY <1>3, Zenon DEF Records
<1>6. /\ new.pc = place /\ new.kind = Idle.kind /\ new.port = Idle.port /\ new.from = Idle.from
      /\ new.fixes = Idle.fixes /\ new.ends = Idle.ends /\ new.status = Idle.status
    BY <1>3, Zenon DEF Records
<1> HIDE DEF new
<1>7. Sound(new)
    BY <1>3, <1>5, <1>6, IdleFacts DEF Sound
<1>8. Told(turn[a], new)
    BY <1>0, <1>3, <1>6, IdleFacts DEF Told, PhaseOf, VoiceOf, Plain
<1> QED BY <1>0, <1>1, <1>4, <1>7, <1>8, OneTurn

\* A turn that was over goes on.
LEMMA StepResume ==
    ASSUME ChatInv, NEW a \in Askers, Resume(a)
    PROVE  StepOK(a)
<1>0. /\ turn[a] = Idle /\ wired' = wired /\ history' \in BOOLEAN
    BY TurnFacts DEF Resume, At, Sound
<1>1. log' \in [Askers -> [open : SUBSET Ops, over : BOOLEAN]]
    BY LogFacts DEF Resume, Ops
<1> DEFINE place == IF wired.tools THEN "go" ELSE "settle"
           new == [Idle EXCEPT !.kind = "resume", !.pc = place]
<1>3. place \in Labels /\ place \in {"settle", "go"} /\ Idle \in Records
    BY IdleIsSound DEF Labels
<1>4. Put(a, new)
    BY DEF Resume
<1> HIDE DEF place
<1>5. new \in Records
    BY <1>3, Zenon DEF Records
<1>6. /\ new.pc = place /\ new.kind = "resume" /\ new.port = Idle.port /\ new.from = Idle.from
      /\ new.fixes = Idle.fixes /\ new.ends = Idle.ends /\ new.status = Idle.status
    BY <1>3, Zenon DEF Records
<1> HIDE DEF new
<1>7. Sound(new)
    BY <1>3, <1>5, <1>6, IdleFacts DEF Sound
<1>8. Told(turn[a], new)
    BY <1>0, <1>3, <1>6, IdleFacts DEF Told, PhaseOf, VoiceOf, Plain
<1> QED BY <1>0, <1>1, <1>4, <1>7, <1>8, OneTurn

\* The reply is handed over.
LEMMA StepReply ==
    ASSUME ChatInv, NEW a \in Askers, Reply(a)
    PROVE  StepOK(a)
<1> DEFINE c == turn[a]
<1>0. /\ Sound(c) /\ c \in Records /\ wired' = wired /\ history' \in BOOLEAN /\ c.pc = "reply"
      /\ log' \in [Askers -> [open : SUBSET Ops, over : BOOLEAN]] /\ Put(a, Idle)
    BY TurnFacts DEF Reply, At, Quietly
<1>1. (c.kind = "chat" => c.ends = 1) /\ c.kind \in {"chat", "resume"}
    BY <1>0 DEF Sound, Records
<1>2. Told(c, Idle)
    BY <1>0, <1>1, IdleFacts DEF Told, PhaseOf, VoiceOf, Plain
<1> QED BY <1>0, <1>2, IdleIsSound, OneTurn

-------------------------------------------------------------------------------
(* The invariant.                                                            *)

LEMMA StepProceed ==
    ASSUME ChatInv, NEW a \in Askers, Ask(a) \/ Resume(a) \/ Proceed(a)
    PROVE  StepOK(a)
<1>1. CASE Ask(a) \/ Resume(a) \/ Understand(a) \/ Dispatch(a) \/ Breaks(a) \/ Route(a) \/ RouteImage(a)
    BY <1>1, StepAsk, StepResume, StepUnderstand, StepDispatch, StepBreaks, StepRoute, StepRouteImage
<1>2. CASE LoopAnswers(a) \/ LoopCallsTool(a) \/ LoopFails(a) \/ ToolStarts(a) \/ ToolAgain(a)
    BY <1>2, StepLoopAnswers, StepLoopCallsTool, StepLoopFails, StepToolStarts, StepToolAgain
<1>3. CASE ToolRefused(a) \/ ToolEnds(a)
    <2>1. log' \in [Askers -> [open : SUBSET Ops, over : BOOLEAN]]
        BY <1>3, LogFacts DEF ToolRefused, ToolEnds, Ops
    <2>2. Result(a) /\ turn[a].pc \in {"tool", "run"}
        BY <1>3 DEF ToolRefused, ToolEnds, At
    <2> QED BY <2>1, <2>2, StepResult
<1>4. CASE Check(a) \/ Judge(a) \/ Fix(a) \/ VerifyBreaks(a)
    BY <1>4, StepCheck, StepJudge, StepFix, StepVerifyBreaks
<1>5. CASE Settle(a) \/ Reply(a) \/ ResumeBreaks(a)
    BY <1>5, StepSettle, StepReply, StepResumeBreaks
<1> QED BY <1>1, <1>2, <1>3, <1>4, <1>5 DEF Proceed

\* What is no step of a turn leaves the turns alone, or ends them all.
Outside == UNCHANGED turn \/ turn' = [a \in Askers |-> Idle]

LEMMA EveryStep ==
    ASSUME ChatInv, [Next]_vars
    PROVE  Outside \/ \E a \in Askers : StepOK(a)
BY StepProceed DEF Next, Forget, Boot, Outside, vars

LEMMA OutsideKeepsInv ==
    ASSUME ChatInv, Forget \/ Boot \/ UNCHANGED vars
    PROVE  ChatInv'
<1>0. turn \in [Askers -> Records]
    BY DEF ChatInv, TypeOK, Records, Ports
<1>1. turn' \in [Askers -> Records] /\ \A a \in Askers : Sound(turn'[a])
    BY <1>0, IdleIsSound DEF Forget, Boot, vars, ChatInv
<1>2. log' \in [Askers -> [open : SUBSET Ops, over : BOOLEAN]]
    <2>1. CASE Boot
        <3>1. \A a \in Askers : log[a].open \subseteq Ops /\ log[a].over \in BOOLEAN
            BY DEF ChatInv, TypeOK
        <3> QED BY <2>1, <3>1 DEF Boot
    <2>2. CASE Forget \/ UNCHANGED vars
        BY <2>2 DEF Forget, vars, ChatInv, TypeOK
    <2> QED BY <2>1, <2>2
<1>3. wired' \in [tools : BOOLEAN, brain : BOOLEAN] /\ history' \in BOOLEAN
    BY DEF Forget, Boot, vars, ChatInv, TypeOK
<1>4. TypeOK'
    BY <1>1, <1>2, <1>3 DEF TypeOK, Records, Ports
<1> QED BY <1>1, <1>4 DEF ChatInv

LEMMA InitInv == ASSUME Init PROVE ChatInv
<1>1. turn = [a \in Askers |-> Idle] /\ log = [a \in Askers |-> Quiet] /\ history = FALSE
      /\ wired \in [tools : BOOLEAN, brain : BOOLEAN]
    BY DEF Init
<1>2. Quiet \in [open : SUBSET Ops, over : BOOLEAN]
    BY DEF Quiet
<1>3. turn \in [Askers -> Records] /\ \A a \in Askers : turn[a] = Idle
    BY <1>1, IdleIsSound
<1>4. TypeOK
    BY <1>1, <1>2, <1>3 DEF TypeOK, Records, Ports
<1> QED BY <1>3, <1>4, IdleIsSound DEF ChatInv

\* What is known of a turn at each place of the pipeline holds at every step.
THEOREM TurnsAreSound ==
    Spec => []ChatInv
<1>1. Init => ChatInv
    BY InitInv
<1>2. ChatInv /\ [Next]_vars => ChatInv'
    <2> SUFFICES ASSUME ChatInv, [Next]_vars PROVE ChatInv'
        OBVIOUS
    <2>1. CASE \E a \in Askers : Ask(a) \/ Resume(a) \/ Proceed(a)
        BY <2>1, StepProceed, StepKeepsInv
    <2>2. CASE Forget \/ Boot \/ UNCHANGED vars
        BY <2>2, OutsideKeepsInv
    <2> QED BY <2>1, <2>2 DEF Next
<1> QED BY <1>1, <1>2, PTL DEF Spec

\* "never claims completion that the last verification didn't actually confirm".
THEOREM CompleteWasJudged ==
    Spec => []CompleteIsVerified
<1>1. ChatInv => CompleteIsVerified
    BY DEF ChatInv, Sound, CompleteIsVerified, At
<1> QED BY <1>1, TurnsAreSound, PTL

\* No failure of a correction, of the Gateway or of the verification loses the
\* answer that a provider gave.
THEOREM AnswersAreGiven ==
    Spec => []GoodAnswerIsKept
<1>1. ChatInv => GoodAnswerIsKept
    BY DEF ChatInv, Sound, GoodAnswerIsKept, At
<1> QED BY <1>1, TurnsAreSound, PTL

-------------------------------------------------------------------------------
(* The refinement.                                                           *)

Phase == [a \in Askers |->
    IF At(a, "idle") \/ turn[a].kind = "resume" THEN "none"
    ELSE IF turn[a].ends = 0 THEN "open" ELSE IF turn[a].ends = 1 THEN "ended" ELSE "again"]
Voice == [a \in Askers |-> IF Plain(turn[a]) THEN {turn[a].from} ELSE {}]

\* What an asker's step makes of its turn is a step of OneAnswer or none.
LEMMA TurnImplements ==
    ASSUME ChatInv, NEW t \in Askers, StepOK(t)
    PROVE  [Turns!Next]_(Turns!vars)
<1>1. PICK new \in Records : Put(t, new) /\ Told(turn[t], new)
    BY DEF StepOK
<1>2. turn \in [Askers -> Records]
    BY DEF ChatInv, TypeOK, Records, Ports
<1>3. \A u \in Askers : turn'[u] = IF u = t THEN new ELSE turn[u]
    BY <1>1, <1>2 DEF Put
<1>4. /\ Phase' = [Phase EXCEPT ![t] = PhaseOf(new)] /\ Phase[t] = PhaseOf(turn[t])
      /\ Voice' = [Voice EXCEPT ![t] = VoiceOf(new)] /\ Voice[t] = VoiceOf(turn[t])
    BY <1>3 DEF Phase, Voice, PhaseOf, VoiceOf, At
<1>5. Told(turn[t], new)
    BY <1>1
<1>6. [Phase EXCEPT ![t] = Phase[t]] = Phase /\ [Voice EXCEPT ![t] = Voice[t]] = Voice
    BY DEF Phase, Voice
<1>7. CASE PhaseOf(new) = PhaseOf(turn[t]) /\ VoiceOf(new) = VoiceOf(turn[t])
    <2>1. Phase' = Phase /\ Voice' = Voice
        BY <1>4, <1>6, <1>7
    <2> QED BY <2>1 DEF Turns!vars, Phase, Voice
<1>8. CASE /\ PhaseOf(turn[t]) = "none" /\ PhaseOf(new) = "open"
           /\ VoiceOf(new) = VoiceOf(turn[t])
    <2>1. Phase[t] = "none" /\ Phase' = [Phase EXCEPT ![t] = "open"] /\ Voice' = Voice
        BY <1>4, <1>6, <1>8
    <2>2. Turns!Begin(t)
        BY <2>1 DEF Turns!Begin, Phase, Voice
    <2> QED BY <2>2 DEF Turns!Next
<1>9. CASE /\ PhaseOf(turn[t]) = "open" /\ PhaseOf(new) \in {"open", "ended"}
           /\ \E v \in Targets : VoiceOf(turn[t]) = {} /\ VoiceOf(new) = {v}
    <2>1. PICK v \in Targets : VoiceOf(turn[t]) = {} /\ VoiceOf(new) = {v}
        BY <1>9
    <2>2. /\ Phase[t] = "open" /\ Voice[t] = {} /\ Voice[t] \subseteq {v}
          /\ Voice' = [Voice EXCEPT ![t] = {v}]
        BY <1>4, <1>9, <2>1
    <2>3. CASE PhaseOf(new) = "open"
        <3>1. Phase' = Phase
            BY <1>4, <1>6, <1>9, <2>3
        <3>2. Turns!Speak(t, v)
            BY <2>2, <3>1 DEF Turns!Speak, Phase, Voice
        <3> QED BY <3>2 DEF Turns!Next
    <2>4. CASE PhaseOf(new) = "ended"
        <3>1. Phase' = [Phase EXCEPT ![t] = "ended"]
            BY <1>4, <2>4
        <3>2. Turns!End(t)
            BY <2>2, <3>1 DEF Turns!End, Phase, Voice
        <3> QED BY <3>2 DEF Turns!Next
    <2> QED BY <1>9, <2>3, <2>4
<1>10. CASE /\ PhaseOf(turn[t]) = "open" /\ PhaseOf(new) = "ended"
           /\ VoiceOf(new) = VoiceOf(turn[t])
    <2>1. Phase[t] = "open" /\ Phase' = [Phase EXCEPT ![t] = "ended"] /\ Voice' = Voice
        BY <1>4, <1>6, <1>10
    <2>2. Turns!End(t)
        BY <2>1 DEF Turns!End, Phase, Voice
    <2> QED BY <2>2 DEF Turns!Next
<1>11. CASE PhaseOf(turn[t]) = "ended" /\ PhaseOf(new) = "none" /\ VoiceOf(new) = {}
    <2>1. /\ Phase[t] = "ended" /\ Phase' = [Phase EXCEPT ![t] = "none"]
          /\ Voice' = [Voice EXCEPT ![t] = {}]
        BY <1>4, <1>11
    <2>2. Turns!Return(t)
        BY <2>1 DEF Turns!Return, Phase, Voice
    <2> QED BY <2>2 DEF Turns!Next
<1> QED BY <1>5, <1>7, <1>8, <1>9, <1>10, <1>11 DEF Told

\* A new process is the crash of every turn; what leaves the turns alone is no
\* step of theirs.
LEMMA OutsideImplements ==
    ASSUME Outside
    PROVE  [Turns!Next]_(Turns!vars)
<1>1. CASE UNCHANGED turn
    BY <1>1 DEF Turns!vars, At, Plain
<1>2. CASE turn' = [t \in Askers |-> Idle]
    <2>1. \A t \in Askers : turn'[t] = Idle
        BY <1>2
    <2>2. Phase' = [t \in Askers |-> "none"] /\ Voice' = [t \in Askers |-> {}]
        BY <2>1, IdleFacts DEF Phase, Voice, At, Plain
    <2>3. Turns!Crash
        BY <2>2 DEF Turns!Crash, Phase, Voice
    <2> QED BY <2>3 DEF Turns!Next
<1> QED BY <1>1, <1>2 DEF Outside

\* A turn begins, is answered by one target with all its corrections when it is a
\* plain answer, and has one terminal event, after which nothing of it follows.
THEOREM TurnsImplement == Spec => ImplementsOneAnswer
<1>1. Init => Turns!Init
    <2> SUFFICES ASSUME Init PROVE Turns!Init
        OBVIOUS
    <2>1. \A t \in Askers : turn[t] = Idle
        BY DEF Init
    <2>2. Phase = [t \in Askers |-> "none"] /\ Voice = [t \in Askers |-> {}]
        BY <2>1, IdleFacts DEF Phase, Voice, At, Plain
    <2> QED BY <2>2 DEF Turns!Init, Phase, Voice
<1>2. ChatInv /\ [Next]_vars => [Turns!Next]_(Turns!vars)
    BY EveryStep, TurnImplements, OutsideImplements
<1>3. Spec => []ChatInv
    BY TurnsAreSound
<1> QED BY <1>1, <1>2, <1>3, PTL DEF Spec, ImplementsOneAnswer, Turns!Spec
-------------------------------------------------------------------------------
(* The activity log.                                                         *)

\* As long as no root of the request has ended, there is nothing of a continuation,
\* and the root is open until the turn is over.
LogSound(t, l) ==
    \/ l.over
    \/ /\ "resume" \notin l.open /\ t.kind = "chat" /\ t.ends = 0
       /\ IF t.pc = "idle" THEN l.open = {} ELSE "chat" \in l.open

LogInv == ChatInv /\ \A a \in Askers : LogSound(turn[a], log[a])

\* A step inside the turn: it may begin or end operations, but no root.
Inside(a) ==
    /\ turn[a].pc # "idle" /\ turn'[a].pc \notin {"idle", "reply"}
    /\ \/ log' = log
       \/ \E op \in {"loop", "tool"} : Begins(a, op)
       \/ \E ops \in SUBSET {"loop", "tool"} : EndAll(a, ops)

LEMMA LogAfter ==
    ASSUME ChatInv, NEW a \in Askers
    PROVE  /\ \A op : Begins(a, op) =>
                /\ log'[a].open = log[a].open \cup {op} /\ log'[a].over = log[a].over
                /\ \A b \in Askers : b # a => log'[b] = log[b]
           /\ \A ops : EndAll(a, ops) =>
                /\ log'[a].open = log[a].open \ ops
                /\ log'[a].over = (log[a].over \/ ops \cap Roots # {})
                /\ \A b \in Askers : b # a => log'[b] = log[b]
<1>1. log \in [Askers -> [open : SUBSET Ops, over : BOOLEAN]]
    BY TurnFacts
<1>2. ASSUME NEW op, Begins(a, op)
      PROVE  /\ log'[a].open = log[a].open \cup {op} /\ log'[a].over = log[a].over
             /\ \A b \in Askers : b # a => log'[b] = log[b]
    <2>1. log' = [log EXCEPT ![a] = [log[a] EXCEPT !.open = log[a].open \cup {op}]]
        BY <1>2, Zenon DEF Begins
    <2>2. /\ log'[a] = [log[a] EXCEPT !.open = log[a].open \cup {op}]
          /\ \A b \in Askers : b # a => log'[b] = log[b]
        BY <1>1, <2>1, Zenon
    <2>3. log[a] \in [open : SUBSET Ops, over : BOOLEAN]
        BY <1>1
    <2> QED BY <2>2, <2>3, Zenon
<1>3. ASSUME NEW ops, EndAll(a, ops)
      PROVE  /\ log'[a].open = log[a].open \ ops
             /\ log'[a].over = (log[a].over \/ ops \cap Roots # {})
             /\ \A b \in Askers : b # a => log'[b] = log[b]
    <2>1. log' = [log EXCEPT ![a] = [open |-> log[a].open \ ops,
                                     over |-> log[a].over \/ ops \cap Roots # {}]]
        BY <1>3, Zenon DEF EndAll
    <2> QED BY <1>1, <2>1, Zenon
<1> QED BY <1>2, <1>3

\* Of a turn with no ended root only the asker's own end ends the root.
LEMMA InsideKeepsLog ==
    ASSUME LogInv, NEW a \in Askers, StepOK(a), Inside(a)
    PROVE  LogInv'
<1>1. ChatInv /\ ChatInv'
    BY StepKeepsInv DEF LogInv
<1>2. PICK new \in Records : Put(a, new) /\ Sound(new) /\ Told(turn[a], new)
    BY DEF StepOK
<1>3. turn \in [Askers -> Records]
    BY <1>1 DEF ChatInv, TypeOK, Records, Ports
<1>4. turn'[a] = new /\ \A b \in Askers : b # a => turn'[b] = turn[b]
    BY <1>2, <1>3 DEF Put
<1>5. \A b \in Askers : b # a => log'[b] = log[b]
    BY <1>1, LogAfter DEF Inside
<1>6. LogSound(new, log'[a])
    <2>1. log[a].over => log'[a].over
        BY <1>1, LogAfter DEF Inside
    <2>2. ASSUME ~log[a].over PROVE LogSound(new, log'[a])
        <3>1. /\ "resume" \notin log[a].open /\ turn[a].kind = "chat" /\ turn[a].ends = 0
              /\ "chat" \in log[a].open
            BY <2>2 DEF LogInv, LogSound, Inside
        <3>2. "resume" \notin log'[a].open /\ "chat" \in log'[a].open
            BY <1>1, <3>1, LogAfter DEF Inside
        <3>3. new.ends = 0 /\ new.pc # "idle"
            BY <1>2, <1>4 DEF Inside, Sound
        <3>4. new.kind = "chat"
            <4>1. new.kind \in {"chat", "resume"}
                BY DEF Records
            <4>2. PhaseOf(turn[a]) = "open"
                BY <3>1 DEF PhaseOf, Inside
            <4>3. PhaseOf(new) # "none"
                BY <1>2, <4>2 DEF Told
            <4> QED BY <4>1, <4>3 DEF PhaseOf
        <3> QED BY <3>2, <3>3, <3>4 DEF LogSound
    <2> QED BY <2>1, <2>2 DEF LogSound
<1>7. ASSUME NEW b \in Askers PROVE LogSound(turn'[b], log'[b])
    BY <1>4, <1>5, <1>6 DEF LogInv
<1> QED BY <1>1, <1>7 DEF LogInv


\* The places a step inside the turn goes to.
LEMMA PutPlace ==
    ASSUME ChatInv, NEW a \in Askers, NEW new, Put(a, new)
    PROVE  turn'[a] = new /\ \A b \in Askers : b # a => turn'[b] = turn[b]
<1>1. turn \in [Askers -> Records]
    BY DEF ChatInv, TypeOK, Records, Ports
<1> QED BY <1>1 DEF Put

LEMMA DraftPlace ==
    ASSUME NEW t \in Records, NEW v, NEW blank, NEW new \in Drafted(t, v, blank)
    PROVE  new.pc \in {"check", "settle"}
<1> DEFINE next == IF t.gw THEN "check" ELSE "settle"
<1>1. PICK p : new = [t EXCEPT !.pc = next, !.from = v, !.draft = t.fixes, !.blank = blank,
                               !.port = p, !.steps = 0,
                               !.status = IF next = "settle" THEN "skipped" ELSE "none"]
    BY DEF Drafted
<1>2. next \in {"check", "settle"}
    OBVIOUS
<1> HIDE DEF next
<1>3. new.pc = next
    BY <1>1, Zenon DEF Records
<1> QED BY <1>2, <1>3

LEMMA NoDraftPlace ==
    ASSUME NEW t \in Records
    PROVE  NoDraft(t).pc = "settle"
BY Zenon DEF Records, NoDraft

LEMMA ResultPlace ==
    ASSUME ChatInv, NEW a \in Askers, Result(a)
    PROVE  turn'[a].pc \in {"check", "settle", "model"}
<1> DEFINE c == turn[a]
           t == [c EXCEPT !.runs = 0, !.acted = TRUE]
<1>1. c \in Records
    BY TurnFacts
<1>2. CASE c.steps = MaxSteps
    <2>1. PICK v \in Targets : \E new \in Drafted(t, v, FALSE) : Put(a, new)
        BY <1>2 DEF Result
    <2>2. t \in Records
        <3>1. TRUE \in BOOLEAN /\ 0 \in 0..MaxTries
            BY Numbers
        <3> QED BY <1>1, <3>1, ResultRecord, Zenon
    <2> HIDE DEF t
    <2>3. PICK new \in Drafted(t, v, FALSE) : Put(a, new)
        BY <2>1
    <2>4. new.pc \in {"check", "settle"}
        BY <2>2, DraftPlace, Zenon
    <2> QED BY <2>3, <2>4, PutPlace
<1>3. CASE c.steps # MaxSteps
    <2>1. Put(a, [c EXCEPT !.pc = "model", !.runs = 0, !.acted = TRUE])
        BY <1>3 DEF Result
    <2>2. [c EXCEPT !.pc = "model", !.runs = 0, !.acted = TRUE].pc = "model"
        BY <1>1, Zenon DEF Records
    <2> QED BY <2>1, <2>2, PutPlace
<1> QED BY <1>2, <1>3

LEMMA FixPlace ==
    ASSUME ChatInv, NEW a \in Askers, Fix(a)
    PROVE  turn'[a].pc \in {"check", "settle", "model"}
<1> DEFINE c == turn[a]
           t == [c EXCEPT !.fixes = @ + 1]
<1>1. c \in Records /\ c.fixes \in 0..MaxFixes
    BY TurnFacts DEF Records
<1>2. CASE Put(a, [c EXCEPT !.pc = "settle"])
    <2>1. [c EXCEPT !.pc = "settle"].pc = "settle"
        BY <1>1, Zenon DEF Records
    <2> QED BY <1>2, <2>1, PutPlace
<1>3. CASE c.fixes < MaxFixes
    <2>1. c.fixes + 1 \in 0..MaxFixes
        BY <1>1, <1>3, ChatAssumption
    <2>2. t \in Records
        BY <1>1, <2>1, FixRecord, Zenon
    <2> HIDE DEF t
    <2>3. \/ Put(a, [t EXCEPT !.pc = "model"])
          \/ \E v : \E new \in Drafted(t, v, FALSE) : Put(a, new)
          \/ Put(a, NoDraft(t))
        <3>1. c.fixes # MaxFixes
            BY <1>1, <1>3, ChatAssumption
        <3> QED BY <3>1, Zenon DEF Fix, t
    <2>4. [t EXCEPT !.pc = "model"].pc = "model"
        BY <2>2, Zenon DEF Records
    <2>5. CASE Put(a, [t EXCEPT !.pc = "model"])
        BY <2>4, <2>5, PutPlace
    <2>6. ASSUME NEW v, NEW new \in Drafted(t, v, FALSE), Put(a, new)
          PROVE  turn'[a].pc \in {"check", "settle", "model"}
        <3>1. new.pc \in {"check", "settle"}
            BY <2>2, DraftPlace, Zenon
        <3> QED BY <2>6, <3>1, PutPlace
    <2>7. CASE Put(a, NoDraft(t))
        BY <2>2, <2>7, NoDraftPlace, PutPlace
    <2> QED BY <2>3, <2>5, <2>6, <2>7
<1> QED BY <1>2, <1>3 DEF Fix

\* The root ends with Breaks, VerifyBreaks, Settle and ResumeBreaks only.
LEMMA StepsInside ==
    ASSUME ChatInv, NEW a \in Askers, Proceed(a),
           ~(Breaks(a) \/ VerifyBreaks(a) \/ Settle(a) \/ Reply(a) \/ ResumeBreaks(a))
    PROVE  Inside(a)
<1> DEFINE c == turn[a]
<1>1. c \in Records
    BY TurnFacts
<1>2. CASE Understand(a)
    <2>1. PICK must : Put(a, [c EXCEPT !.pc = "go", !.must = must])
        BY <1>2 DEF Understand
    <2>2. [c EXCEPT !.pc = "go", !.must = must].pc = "go"
        BY <1>1, Zenon DEF Records
    <2> QED BY <1>2, <2>1, <2>2, PutPlace DEF Understand, Inside, At, Quietly
<1>3. CASE Dispatch(a)
    <2>1. /\ [c EXCEPT !.pc = "image"].pc = "image" /\ [c EXCEPT !.pc = "model"].pc = "model"
          /\ [c EXCEPT !.pc = "route"].pc = "route"
        BY <1>1, Zenon DEF Records
    <2>2. turn'[a].pc \in {"image", "model", "route"}
        BY <1>3, <2>1, PutPlace DEF Dispatch
    <2>3. log' = log \/ Begins(a, "loop")
        BY <1>3 DEF Dispatch
    <2> QED BY <1>3, <2>2, <2>3 DEF Dispatch, Inside, At
<1>4. CASE Route(a)
    <2>1. turn'[a].pc \in {"check", "settle"}
        <3>1. ASSUME NEW v, NEW new \in Drafted(c, v, FALSE), Put(a, new)
              PROVE  turn'[a].pc \in {"check", "settle"}
            <4>1. new.pc \in {"check", "settle"}
                BY <1>1, <3>1, DraftPlace
            <4> QED BY <3>1, <4>1, PutPlace
        <3>2. ASSUME Put(a, NoDraft(c)) PROVE turn'[a].pc = "settle"
            BY <1>1, <3>2, NoDraftPlace, PutPlace
        <3> QED BY <1>4, <3>1, <3>2 DEF Route
    <2> QED BY <1>4, <2>1 DEF Route, Inside, At, Quietly
<1>5. CASE RouteImage(a)
    <2>1. \A v : [c EXCEPT !.pc = "settle", !.from = v, !.status = "skipped"].pc = "settle"
        BY <1>1, Zenon DEF Records
    <2>2. turn'[a].pc = "settle"
        BY <1>1, <1>5, <2>1, NoDraftPlace, PutPlace DEF RouteImage
    <2> QED BY <1>5, <2>2 DEF RouteImage, Inside, At, Quietly
<1>6. CASE LoopAnswers(a) \/ LoopFails(a)
    <2>1. turn'[a].pc \in {"check", "settle"}
        BY <1>1, <1>6, DraftPlace, NoDraftPlace, PutPlace DEF LoopAnswers, LoopFails
    <2>2. log' = log \/ EndAll(a, {"loop"})
        BY <1>6 DEF LoopAnswers, LoopFails, Ends
    <2>3. c.pc = "model"
        BY <1>6 DEF LoopAnswers, LoopFails, At
    <2> QED BY <2>1, <2>2, <2>3 DEF Inside
<1>7. CASE LoopCallsTool(a)
    <2>1. [c EXCEPT !.pc = "tool", !.steps = @ + 1].pc = "tool"
        BY <1>1, Zenon DEF Records
    <2> QED BY <1>7, <2>1, PutPlace DEF LoopCallsTool, Inside, At, Quietly
<1>8. CASE ToolRefused(a) \/ ToolEnds(a)
    <2>1. turn'[a].pc \in {"check", "settle", "model"}
        BY <1>8, ResultPlace DEF ToolRefused, ToolEnds
    <2>2. \E ops \in SUBSET {"loop", "tool"} : EndAll(a, ops)
        <3>1. /\ (IF c.steps = MaxSteps THEN {"loop"} ELSE {}) \in SUBSET {"loop", "tool"}
              /\ ({"tool"} \cup IF c.steps = MaxSteps THEN {"loop"} ELSE {}) \in SUBSET {"loop", "tool"}
            OBVIOUS
        <3> QED BY <1>8, <3>1, Zenon DEF ToolRefused, ToolEnds
    <2>3. c.pc \in {"tool", "run"}
        BY <1>8 DEF ToolRefused, ToolEnds, At
    <2> QED BY <2>1, <2>2, <2>3 DEF Inside
<1>9. CASE ToolStarts(a)
    <2>1. [c EXCEPT !.pc = "run", !.runs = 1].pc = "run"
        BY <1>1, Zenon DEF Records
    <2> QED BY <1>9, <2>1, PutPlace DEF ToolStarts, Inside, At
<1>10. CASE ToolAgain(a)
    <2>1. [c EXCEPT !.runs = @ + 1].pc = c.pc
        BY <1>1, Zenon DEF Records
    <2> QED BY <1>10, <2>1, PutPlace DEF ToolAgain, Inside, At, Quietly
<1>11. CASE Check(a)
    <2>1. /\ [c EXCEPT !.pc = "judge"].pc = "judge"
          /\ [c EXCEPT !.pc = "fix", !.status = "INCOMPLETE"].pc = "fix"
        BY <1>1, Zenon DEF Records
    <2>2. turn'[a].pc \in {"judge", "fix"}
        BY <1>11, <2>1, PutPlace DEF Check
    <2> QED BY <1>11, <2>2 DEF Check, Inside, At, Quietly
<1>12. CASE Judge(a)
    <2>1. /\ \A d : [c EXCEPT !.pc = "settle", !.status = "COMPLETE", !.judged = d].pc = "settle"
          /\ [c EXCEPT !.pc = "fix", !.status = "INCOMPLETE"].pc = "fix"
          /\ [c EXCEPT !.pc = "settle", !.status = "FAILED"].pc = "settle"
        BY <1>1, Zenon DEF Records
    <2>2. PICK new : Put(a, new) /\ new.pc \in {"settle", "fix"}
        BY <1>12, <2>1, Zenon DEF Judge
    <2>3. turn'[a].pc \in {"settle", "fix"}
        BY <2>2, PutPlace
    <2> QED BY <1>12, <2>3 DEF Judge, Inside, At, Quietly
<1>13. CASE Fix(a)
    <2>1. turn'[a].pc \in {"check", "settle", "model"}
        BY <1>13, FixPlace
    <2>2. log' = log \/ Begins(a, "loop")
        BY <1>13 DEF Fix
    <2> QED BY <1>13, <2>1, <2>2 DEF Fix, Inside, At
<1> QED BY <1>2, <1>3, <1>4, <1>5, <1>6, <1>7, <1>8, <1>9, <1>10, <1>11, <1>12, <1>13 DEF Proceed

\* A turn begins, ends or goes on: the log of its request with it.
LEMMA EdgeKeepsLog ==
    ASSUME LogInv, NEW a \in Askers, StepOK(a),
           \/ Ask(a) \/ Resume(a) \/ Reply(a)
           \/ Breaks(a) \/ VerifyBreaks(a) \/ Settle(a) \/ ResumeBreaks(a)
    PROVE  LogInv'
<1> DEFINE c == turn[a]
<1>1. ChatInv /\ ChatInv'
    BY StepKeepsInv DEF LogInv
<1>2. PICK new \in Records : Put(a, new)
    BY DEF StepOK
<1>3. turn'[a] = new /\ \A b \in Askers : b # a => turn'[b] = turn[b]
    BY <1>1, <1>2, PutPlace
<1>4. Sound(c) /\ LogSound(c, log[a]) /\ c.kind \in Roots
      /\ log \in [Askers -> [open : SUBSET Ops, over : BOOLEAN]]
    BY <1>1, TurnFacts DEF LogInv, Records, Roots
<1>5. CASE Ask(a)
    <2>1. PICK gw \in BOOLEAN : Put(a, [Idle EXCEPT !.pc = IF gw THEN "brief" ELSE "go", !.gw = gw])
        BY <1>5 DEF Ask
    <2> DEFINE place == IF gw THEN "brief" ELSE "go"
               made == [Idle EXCEPT !.pc = place, !.gw = gw]
    <2>2. place \in {"brief", "go"} /\ turn'[a] = made
        BY <1>1, <2>1, PutPlace
    <2> HIDE DEF place
    <2>3. made.pc = place /\ made.kind = "chat" /\ made.ends = 0
        BY Zenon DEF Idle
    <2> HIDE DEF made
    <2>4. /\ log'[a] = [Quiet EXCEPT !.open = {"chat"}]
          /\ \A b \in Askers : b # a => log'[b] = log[b]
        BY <1>4, <1>5, Zenon DEF Ask
    <2>5. log'[a].open = {"chat"}
        BY <2>4, Zenon DEF Quiet
    <2>6. LogSound(turn'[a], log'[a])
        BY <2>2, <2>3, <2>5 DEF LogSound
    <2>7. ASSUME NEW b \in Askers PROVE LogSound(turn'[b], log'[b])
        BY <1>3, <2>4, <2>6 DEF LogInv
    <2> QED BY <1>1, <2>7 DEF LogInv
<1>6. CASE ~Ask(a)
    <2>1. log'[a].over /\ \A b \in Askers : b # a => log'[b] = log[b]
        <3>1. CASE Resume(a)
            BY <1>1, <3>1, LogAfter DEF Resume
        <3>2. CASE Reply(a)
            <4>1. log' = log /\ c.pc = "reply"
                BY <3>2 DEF Reply, Quietly, At
            <4>2. c.kind = "chat" => c.ends = 1
                BY <1>4, <4>1 DEF Sound
            <4>3. log[a].over
                BY <1>4, <4>2 DEF LogSound
            <4> QED BY <4>1, <4>3
        <3>3. CASE Breaks(a) \/ VerifyBreaks(a) \/ Settle(a) \/ ResumeBreaks(a)
            <4>1. EndAll(a, {c.kind})
                <5>1. CASE ResumeBreaks(a)
                    BY <5>1 DEF ResumeBreaks, Ends
                <5>2. CASE Breaks(a)
                    <6>1. [c EXCEPT !.status = "error"].kind = c.kind
                        BY <1>1, TurnFacts, Zenon DEF Records
                    <6> QED BY <5>2, <6>1 DEF Breaks, Finish, Ends
                <5>3. CASE VerifyBreaks(a)
                    <6>1. [c EXCEPT !.status = "error", !.said = 0].kind = c.kind
                        BY <1>1, TurnFacts, Zenon DEF Records
                    <6> QED BY <5>3, <6>1 DEF VerifyBreaks, Finish, Ends
                <5>4. CASE Settle(a)
                    <6>1. [c EXCEPT !.said = Text(c)].kind = c.kind
                        BY <1>1, TurnFacts, Zenon DEF Records
                    <6> QED BY <5>4, <6>1 DEF Settle, Finish, Ends
                <5> QED BY <3>3, <5>1, <5>2, <5>3, <5>4
            <4>2. {c.kind} \cap Roots # {}
                BY <1>4
            <4> QED BY <1>1, <4>1, <4>2, LogAfter
        <3> QED BY <1>6, <3>1, <3>2, <3>3
    <2>2. ASSUME NEW b \in Askers PROVE LogSound(turn'[b], log'[b])
        BY <1>3, <2>1 DEF LogInv, LogSound
    <2> QED BY <1>1, <2>2 DEF LogInv
<1> QED BY <1>5, <1>6

\* A crash leaves the rows of every turn ended, or its root: the root that is open
\* has nobody to stand for it.
LEMMA BootKeepsLog ==
    ASSUME LogInv, Boot
    PROVE  LogInv'
<1>1. ChatInv /\ ChatInv'
    BY OutsideKeepsInv DEF LogInv
<1>2. log \in [Askers -> [open : SUBSET Ops, over : BOOLEAN]]
    BY <1>1 DEF ChatInv, TypeOK
<1>3. ASSUME NEW b \in Askers PROVE LogSound(turn'[b], log'[b])
    <2> DEFINE closed == {op \in log[b].open : ~Covered(b, op)}
    <2>1. turn'[b] = Idle /\ log'[b].open = log[b].open \ closed
          /\ log'[b].over = (log[b].over \/ closed \cap Roots # {})
        BY DEF Boot
    <2>2. CASE log[b].over
        BY <2>1, <2>2 DEF LogSound
    <2>3. CASE ~log[b].over /\ log[b].open = {}
        BY <2>1, <2>3, IdleFacts DEF LogSound
    <2>4. CASE ~log[b].over /\ log[b].open # {}
        <3>1. "chat" \in log[b].open /\ "resume" \notin log[b].open
            BY <2>4 DEF LogInv, LogSound
        <3>2. (log[b].open \cap Roots) \ {"chat"} = {}
            BY <3>1 DEF Roots
        <3>3. "chat" \in closed
            BY <2>4, <3>1, <3>2 DEF Covered
        <3>4. closed \cap Roots # {}
            BY <3>3 DEF Roots
        <3> QED BY <2>1, <3>4 DEF LogSound
    <2> QED BY <2>2, <2>3, <2>4
<1> QED BY <1>1, <1>3 DEF LogInv

LEMMA LogStep ==
    ASSUME LogInv, [Next]_vars
    PROVE  LogInv'
<1>1. ASSUME NEW a \in Askers, Ask(a) \/ Resume(a) \/ Proceed(a) PROVE LogInv'
    <2>1. ChatInv /\ StepOK(a)
        BY <1>1, StepProceed DEF LogInv
    <2> QED BY <1>1, <2>1, StepsInside, InsideKeepsLog, EdgeKeepsLog
<1>2. CASE Forget \/ UNCHANGED vars
    <2>1. ChatInv' /\ turn' = turn /\ log' = log
        BY <1>2, OutsideKeepsInv DEF LogInv, Forget, vars
    <2> QED BY <2>1 DEF LogInv
<1>3. CASE Boot
    BY <1>3, BootKeepsLog
<1> QED BY <1>1, <1>2, <1>3 DEF Next

\* Nothing of a turn that is over, by its end or by a crash in the middle of it, is
\* shown as running for ever.
THEOREM RowsEnd ==
    Spec => []NothingRunsForever
<1>1. Init => LogInv
    <2> SUFFICES ASSUME Init PROVE LogInv
        OBVIOUS
    <2>1. \A a \in Askers : turn[a] = Idle /\ log[a] = Quiet
        BY DEF Init
    <2> QED BY <2>1, InitInv, IdleFacts DEF LogInv, LogSound, Quiet
<1>2. LogInv /\ [Next]_vars => LogInv'
    BY LogStep
<1>3. LogInv => NothingRunsForever
    BY DEF LogInv, LogSound, NothingRunsForever, At
<1> QED BY <1>1, <1>2, <1>3, PTL DEF Spec

-------------------------------------------------------------------------------
(* Streams: the reader, whoever he is, of what is written.                  *)

ClientType ==
    [pc : {"idle", "loaded", "off", "on", "polled", "done", "error", "exit"},
     page : 1..MaxPage, at : 0..MaxItems, got : Seq(Streams!Items), base : 0..MaxItems,
     asked : 0..MaxItems, last : 0..MaxItems, blind : 0..MaxItems, shown : 0..MaxItems,
     told : 0..MaxItems, short : BOOLEAN]

Rising(s) == \A k \in 1..(Len(s) - 1) : s[k] < s[k + 1]

\* Client c has been handed, in order, everything up to item hi.
Seen(c, from, hi) ==
    /\ Rising(c.got)
    /\ \A i \in Streams!ToSet(c.got) : i <= hi
    /\ \A i \in Streams!Items : c.base < i /\ i <= hi => i \in Streams!ToSet(c.got) \/ i <= from \/ i <= c.blind

\* Pages of a blob follow each other from the first item on, to the end of it.
Paged(c, k) ==
    /\ k.from = 0 /\ c.base = 0 /\ c.at <= k.to /\ c.got = Streams!Run(0, c.at)
    /\ c.pc = "done" /\ ~c.short => c.at = c.told

Screened(c, k) ==
    /\ c.pc \in {"off", "on", "polled", "exit"} /\ c.base = 0 /\ c.asked = 0
    /\ c.at <= k.to /\ Seen(c, k.from, c.at)

\* Where a feed that reconnects begins; 0 when it has nothing to name.
Cursor(c) == IF c.last # 0 THEN c.last ELSE c.asked
Fed(c, k) ==
    /\ c.pc \in {"idle", "loaded", "off", "on"}
    /\ c.pc = "idle" => c.got = << >> /\ c.base = 0 /\ c.last = 0 /\ c.asked = 0
    /\ Cursor(c) <= k.to /\ Seen(c, k.from, Cursor(c))
    /\ c.pc = "on" => /\ c.at <= k.to
                      /\ Cursor(c) # 0 => c.at = Cursor(c)
                      /\ Cursor(c) = 0 => c.at <= c.blind

\* While the store holds, a page, a connection or a feed begins where what was
\* handed out before ends, and what was left out before that point is what
\* retention dropped, or what was there before a feed began.
ReaderInv ==
    /\ channel \in Streams!Channels /\ ends \subseteq Streams!Items
    /\ kept \in [from : 0..MaxItems, to : 0..MaxItems] /\ kept.from <= kept.to
    /\ store \in {"store", "memory", "gone"} /\ source \in {"running", "ended"}
    /\ hand \in 0..MaxLine /\ breaks \in 0..MaxBreaks /\ client \in ClientType
    /\ kept.to + hand <= MaxItems /\ (hand > 0 => channel = "screen")
    /\ store = "store" /\ channel \in Streams!Blobs => Paged(client, kept)
    /\ channel = "screen" => Screened(client, kept)
    /\ channel = "feed" => Fed(client, kept)

-------------------------------------------------------------------------------
(* Runs of items.                                                           *)

LEMMA RunIs ==
    ASSUME NEW lo \in Nat, NEW hi \in Nat
    PROVE  /\ Streams!Run(lo, hi) \in Seq(Nat)
           /\ Len(Streams!Run(lo, hi)) = IF hi > lo THEN hi - lo ELSE 0
           /\ \A k \in 1..Len(Streams!Run(lo, hi)) : Streams!Run(lo, hi)[k] = lo + k
<1> DEFINE n == IF hi > lo THEN hi - lo ELSE 0
<1>1. n \in Nat
  OBVIOUS
<1>2. Streams!Run(lo, hi) = [k \in 1..n |-> lo + k]
  BY DEF Streams!Run
<1> HIDE DEF n
<1>3. Streams!Run(lo, hi) \in Seq(Nat) /\ Len(Streams!Run(lo, hi)) = n
  BY <1>1, <1>2
<1>4. QED
  BY <1>1, <1>2, <1>3 DEF n

LEMMA RunTyped ==
    ASSUME NEW lo \in Nat, NEW hi \in Nat, hi <= MaxItems
    PROVE  Streams!Run(lo, hi) \in Seq(Streams!Items)
<1> DEFINE r == Streams!Run(lo, hi)
<1>1. r \in Seq(Nat) /\ Len(r) = (IF hi > lo THEN hi - lo ELSE 0) /\ \A k \in 1..Len(r) : r[k] = lo + k
  BY RunIs, Zenon
<1> HIDE DEF r
<1>2. \A k \in 1..Len(r) : r[k] \in Streams!Items
  BY <1>1, StreamsAssumption DEF Streams!Items
<1>3. r \in Seq(Streams!Items)
  BY <1>1, <1>2
<1>4. QED
  BY <1>3 DEF r

LEMMA RunHas ==
    ASSUME NEW lo \in Nat, NEW hi \in Nat
    PROVE  Streams!ToSet(Streams!Run(lo, hi)) = {i \in Nat : lo < i /\ i <= hi}
<1> DEFINE r == Streams!Run(lo, hi)
<1>1. r \in Seq(Nat) /\ Len(r) = (IF hi > lo THEN hi - lo ELSE 0) /\ \A k \in 1..Len(r) : r[k] = lo + k
  BY RunIs
<1> HIDE DEF r
<1>2. DOMAIN r = 1..Len(r)
  BY <1>1
<1>3. ASSUME NEW i \in Streams!ToSet(r) PROVE i \in Nat /\ lo < i /\ i <= hi
  <2>1. PICK k \in 1..Len(r) : i = r[k]
    BY <1>2 DEF Streams!ToSet
  <2>2. QED
    BY <2>1, <1>1
<1>4. ASSUME NEW i \in Nat, lo < i, i <= hi PROVE i \in Streams!ToSet(r)
  <2>1. i - lo \in 1..Len(r) /\ r[i - lo] = i
    BY <1>1, <1>4
  <2>2. QED
    BY <2>1, <1>2 DEF Streams!ToSet
<1>5. QED
  BY <1>3, <1>4 DEF r

LEMMA RunOn ==
    ASSUME NEW a \in Nat, NEW b \in Nat, a <= b
    PROVE  Streams!Run(0, a) \o Streams!Run(a, b) = Streams!Run(0, b)
<1> DEFINE s == Streams!Run(0, a)  t == Streams!Run(a, b)  u == Streams!Run(0, b)
<1>0. 0 \in Nat
  OBVIOUS
<1>1a. /\ s \in Seq(Nat) /\ Len(s) = (IF a > 0 THEN a - 0 ELSE 0) /\ \A k \in 1..Len(s) : s[k] = 0 + k
  BY <1>0, RunIs, Zenon
<1>2a. /\ t \in Seq(Nat) /\ Len(t) = (IF b > a THEN b - a ELSE 0) /\ \A k \in 1..Len(t) : t[k] = a + k
  BY RunIs, Zenon
<1>3a. /\ u \in Seq(Nat) /\ Len(u) = (IF b > 0 THEN b - 0 ELSE 0) /\ \A k \in 1..Len(u) : u[k] = 0 + k
  BY <1>0, RunIs, Zenon
<1> HIDE DEF s, t, u
<1>1. Len(s) = a /\ s \in Seq(Nat) /\ \A k \in 1..Len(s) : s[k] = k
  BY <1>1a
<1>2. /\ t \in Seq(Nat) /\ Len(t) = b - a /\ \A k \in 1..Len(t) : t[k] = a + k
  BY <1>2a
<1>3. /\ u \in Seq(Nat) /\ Len(u) = b /\ \A k \in 1..Len(u) : u[k] = k
  BY <1>3a
<1> HIDE DEF s, t, u
<1>4. s \o t \in Seq(Nat) /\ Len(s \o t) = b
  BY <1>1, <1>2, ConcatProperties
<1>5. \A k \in 1..b : (s \o t)[k] = k
  <2> TAKE k \in 1..b
  <2>1. (s \o t)[k] = IF k <= Len(s) THEN s[k] ELSE t[k - Len(s)]
    BY <1>1, <1>2
  <2>2. QED
    BY <2>1, <1>1, <1>2
<1>6. QED
  <2>1. Len(s \o t) = Len(u) /\ \A k \in 1..Len(s \o t) : (s \o t)[k] = u[k]
    BY <1>3, <1>4, <1>5
  <2>2. s \o t = u
    BY <2>1, <1>3, <1>4, SeqEqual
  <2>3. QED
    BY <2>2 DEF s, t, u

LEMMA RunPart ==
    ASSUME NEW lo \in Nat, NEW hi \in Nat, NEW n \in Nat, n <= Len(Streams!Run(lo, hi))
    PROVE  SubSeq(Streams!Run(lo, hi), 1, n) = Streams!Run(lo, lo + n)
<1>1. PICK m \in Nat : m = lo + n
  OBVIOUS
<1> DEFINE s == Streams!Run(lo, hi)  t == Streams!Run(lo, m)
<1>2. s \in Seq(Nat) /\ \A k \in 1..Len(s) : s[k] = lo + k
  BY RunIs, Zenon
<1>3. /\ t \in Seq(Nat) /\ Len(t) = (IF m > lo THEN m - lo ELSE 0)
      /\ \A k \in 1..Len(t) : t[k] = lo + k
  BY RunIs, Zenon
<1>4. n <= Len(s)
  OBVIOUS
<1> HIDE DEF s, t
<1>5. Len(t) = n
  BY <1>1, <1>3
<1>6. SubSeq(s, 1, n) = [k \in 1..n |-> s[k]]
  BY <1>2, <1>4
<1>7. SubSeq(s, 1, n) \in Seq(Nat) /\ Len(SubSeq(s, 1, n)) = n
  BY <1>2, <1>4, <1>6
<1>8. \A k \in 1..n : SubSeq(s, 1, n)[k] = t[k]
  <2>1. \A k \in 1..n : k \in 1..Len(s) /\ k \in 1..Len(t)
    BY <1>2, <1>4, <1>5
  <2>2. \A k \in 1..n : SubSeq(s, 1, n)[k] = s[k]
    BY <1>6
  <2>3. QED
    BY <2>1, <2>2, <1>2, <1>3
<1>9. SubSeq(s, 1, n) = t
  BY <1>3, <1>5, <1>7, <1>8, SeqEqual
<1>10. QED
  BY <1>1, <1>9 DEF s, t

\* What is handed out after all that was handed out before.
LEMMA Further ==
    ASSUME NEW s \in Seq(Streams!Items), Rising(s), NEW lo \in Nat, NEW hi \in Nat,
           hi <= MaxItems, \A i \in Streams!ToSet(s) : i <= lo
    PROVE  /\ s \o Streams!Run(lo, hi) \in Seq(Streams!Items)
           /\ Rising(s \o Streams!Run(lo, hi))
           /\ Streams!ToSet(s \o Streams!Run(lo, hi)) = Streams!ToSet(s) \cup Streams!ToSet(Streams!Run(lo, hi))
<1> DEFINE t == Streams!Run(lo, hi)  u == s \o t
<1>1. /\ t \in Seq(Streams!Items) /\ \A k \in 1..Len(t) : t[k] = lo + k
  BY RunIs, RunTyped
<1> HIDE DEF t
<1>2. /\ u \in Seq(Streams!Items) /\ Len(u) = Len(s) + Len(t)
      /\ \A k \in 1..Len(u) : u[k] = IF k <= Len(s) THEN s[k] ELSE t[k - Len(s)]
  BY <1>1, ConcatProperties
<1> HIDE DEF u
<1>3. /\ Len(s) \in Nat /\ Len(t) \in Nat /\ DOMAIN s = 1..Len(s) /\ DOMAIN t = 1..Len(t)
      /\ DOMAIN u = 1..Len(u)
  BY <1>1, <1>2
<1>4. \A k \in 1..Len(s) : s[k] \in Nat /\ s[k] <= lo
  <2>1. \A k \in 1..Len(s) : s[k] \in Streams!ToSet(s) /\ s[k] \in Streams!Items
    BY <1>3 DEF Streams!ToSet
  <2>2. QED
    BY <2>1 DEF Streams!Items
<1>5. Rising(u)
  <2> SUFFICES ASSUME NEW k \in 1..(Len(u) - 1) PROVE u[k] < u[k + 1]
    BY DEF Rising
  <2>1. CASE k < Len(s)
    BY <2>1, <1>2, <1>3 DEF Rising
  <2>2. CASE k = Len(s)
    <3>1. u[k] = s[k] /\ u[k + 1] = t[1] /\ 1 \in 1..Len(t)
      BY <2>2, <1>2, <1>3
    <3>2. t[1] = lo + 1 /\ s[k] \in Nat /\ s[k] <= lo
      BY <2>2, <3>1, <1>1, <1>3, <1>4
    <3>3. QED
      BY <3>1, <3>2
  <2>3. CASE k > Len(s)
    <3>1. u[k] = t[k - Len(s)] /\ u[k + 1] = t[k + 1 - Len(s)]
      BY <2>3, <1>2, <1>3
    <3>2. k - Len(s) \in 1..Len(t) /\ k + 1 - Len(s) \in 1..Len(t)
      BY <2>3, <1>2, <1>3
    <3>3. t[k - Len(s)] = lo + (k - Len(s)) /\ t[k + 1 - Len(s)] = lo + (k + 1 - Len(s))
      BY <3>2, <1>1
    <3>4. QED
      BY <3>1, <3>3, <1>3
  <2>4. k \in Nat /\ Len(s) \in Nat
    BY <1>3, <1>2
  <2>5. QED
    BY <2>1, <2>2, <2>3, <2>4
<1>6. Streams!ToSet(u) = Streams!ToSet(s) \cup Streams!ToSet(t)
  <2>1. ASSUME NEW x \in Streams!ToSet(u) PROVE x \in Streams!ToSet(s) \cup Streams!ToSet(t)
    <3>1. PICK k \in 1..Len(u) : x = u[k]
      BY <1>3 DEF Streams!ToSet
    <3>2. CASE k <= Len(s)
      <4>1. k \in DOMAIN s /\ x = s[k]
        BY <3>1, <3>2, <1>2, <1>3
      <4>2. QED
        BY <4>1 DEF Streams!ToSet
    <3>3. CASE k > Len(s)
      <4>1. k - Len(s) \in DOMAIN t /\ x = t[k - Len(s)]
        BY <3>1, <3>3, <1>2, <1>3
      <4>2. QED
        BY <4>1 DEF Streams!ToSet
    <3>4. QED
      BY <3>2, <3>3, <1>3
  <2>2. ASSUME NEW x \in Streams!ToSet(s) PROVE x \in Streams!ToSet(u)
    <3>1. PICK k \in 1..Len(s) : x = s[k]
      BY <1>3 DEF Streams!ToSet
    <3>2. k \in DOMAIN u /\ u[k] = x
      BY <3>1, <1>2, <1>3
    <3>3. QED
      BY <3>2 DEF Streams!ToSet
  <2>3. ASSUME NEW x \in Streams!ToSet(t) PROVE x \in Streams!ToSet(u)
    <3>1. PICK k \in 1..Len(t) : x = t[k]
      BY <1>3 DEF Streams!ToSet
    <3>2. k + Len(s) \in DOMAIN u /\ u[k + Len(s)] = x
      BY <3>1, <1>2, <1>3
    <3>3. QED
      BY <3>2 DEF Streams!ToSet
  <2>4. QED
    BY <2>1, <2>2, <2>3
<1>7. QED
  BY <1>2, <1>5, <1>6 DEF u, t

LEMMA LeastIs ==
    ASSUME NEW S \in SUBSET Nat, S # {}
    PROVE  Streams!Min(S) \in S /\ \A x \in S : Streams!Min(S) <= x
<1> DEFINE R == OpToRel(<, Nat)
<1>1. IsWellFoundedOn(R, Nat)
  BY NatLessThanWellFounded
<1>2. R = {pair \in Nat \X Nat : pair[1] < pair[2]}
  BY DEF OpToRel
<1> HIDE DEF R
<1>3. PICK m \in S : \A j \in S : ~(<<j, m>> \in R)
  BY <1>1, WFMin
<1>4. \A j \in S : ~(j < m)
  BY <1>2, <1>3
<1>5. \A j \in S : m <= j
  BY <1>4
<1>6. QED
  BY <1>5 DEF Streams!Min

LEMMA GreatestIs ==
    ASSUME NEW S \in SUBSET Nat, S # {}, NEW b \in Nat, \A x \in S : x <= b
    PROVE  Streams!Max(S) \in S /\ \A x \in S : x <= Streams!Max(S)
<1> DEFINE T == {b - x : x \in S}
<1>1. \A x \in S : x \in Nat /\ x <= b /\ b - x \in Nat
  OBVIOUS
<1>2. T \in SUBSET Nat /\ T # {}
  BY <1>1
<1>3. \A x \in S : b - x \in T
  OBVIOUS
<1>4. Streams!Min(T) \in T /\ \A t \in T : Streams!Min(T) <= t
  <2> HIDE DEF T
  <2>1. QED
    BY <1>2, LeastIs
<1>5. PICK m \in S : Streams!Min(T) = b - m
  BY <1>4
<1>6. \A y \in S : b - m <= b - y
  <2> HIDE DEF T
  <2>1. QED
    BY <1>3, <1>4, <1>5
<1>7. \A y \in S : m >= y
  BY <1>1, <1>6
<1>8. QED
  BY <1>7 DEF Streams!Max

LEMMA SeenLater ==
    ASSUME NEW c, NEW from \in Nat, NEW later \in Nat, from <= later, NEW hi, Seen(c, from, hi)
    PROVE  Seen(c, later, hi)
<1>1. \A i \in Streams!Items : i <= from => i <= later
  BY StreamsAssumption DEF Streams!Items
<1>2. QED
  BY <1>1 DEF Seen

-------------------------------------------------------------------------------
(* Pages.                                                                   *)

\* A page that may be handed out next.
Handed(page) ==
    /\ page.items \in Seq(Streams!Items) /\ page.next \in 0..MaxItems /\ page.done \in BOOLEAN
    /\ store = "store" => page.next <= kept.to /\ client.got \o page.items = Streams!Run(0, page.next)

\* A page that says it is the last one reaches the end.
Complete(page) == store = "store" /\ page.done => page.next = kept.to

\* `page` is what BlobStore.read answers.
SliceOf(page, offset, length, from, to) == page = Streams!Slice(offset, length, from, to)

LEMMA SliceIs ==
    ASSUME NEW offset \in Nat, NEW length \in Nat, NEW from \in Nat, NEW to \in Nat, from <= to,
           NEW page, SliceOf(page, offset, length, from, to)
    PROVE  /\ page.next \in Nat /\ page.done = (page.next >= to - from) /\ offset <= page.next
           /\ page.items = Streams!Run(from + offset, from + page.next)
           /\ page.next = offset \/ from + page.next <= to
<1> DEFINE next == IF offset >= to - from THEN offset ELSE Streams!Least(offset + length, to - from)
<1>1. next \in Nat /\ offset <= next /\ (next = offset \/ from + next <= to)
  BY DEF Streams!Least
<1>2. page = [items |-> Streams!Run(from + offset, from + next), next |-> next, done |-> next >= to - from]
  BY DEF Streams!Slice, SliceOf
<1> HIDE DEF next
<1>3. page.next = next /\ page.items = Streams!Run(from + offset, from + next) /\ page.done = (next >= to - from)
  BY <1>2
<1>4. QED
  BY <1>1, <1>3

LEMMA StreamNumbers ==
    ASSUME ReaderInv
    PROVE  /\ kept.from \in Nat /\ kept.to \in Nat /\ kept.to <= MaxItems /\ kept.from <= kept.to
           /\ client.at \in Nat /\ client.at <= MaxItems /\ client.page \in Nat /\ client.got \in Seq(Streams!Items)
           /\ client.base \in Nat /\ client.asked \in Nat /\ client.last \in Nat /\ client.blind \in Nat
           /\ client.base <= MaxItems /\ client.asked <= MaxItems /\ client.last <= MaxItems
           /\ client.blind <= MaxItems /\ client.shown \in 0..MaxItems
           /\ hand \in Nat /\ hand <= MaxLine /\ MaxItems \in Nat
<1>1. /\ kept.from \in 0..MaxItems /\ kept.to \in 0..MaxItems /\ kept.from <= kept.to /\ hand \in 0..MaxLine
  BY Zenon DEF ReaderInv
<1>2. /\ client.at \in 0..MaxItems /\ client.page \in 1..MaxPage /\ client.got \in Seq(Streams!Items)
      /\ client.base \in 0..MaxItems /\ client.asked \in 0..MaxItems /\ client.last \in 0..MaxItems
      /\ client.blind \in 0..MaxItems /\ client.shown \in 0..MaxItems
  BY Zenon DEF ReaderInv, ClientType
<1>3. QED
  BY <1>1, <1>2, StreamsAssumption

LEMMA PageIsHanded ==
    ASSUME ReaderInv, channel \in Streams!Blobs,
           NEW from \in Nat, NEW to \in Nat, from <= to, to <= kept.to,
           NEW page, page.next \in Nat, page.done \in BOOLEAN, client.at <= page.next,
           page.items = Streams!Run(from + client.at, from + page.next),
           page.next = client.at \/ from + page.next <= to,
           store = "store" => from = 0
    PROVE  Handed(page)
<1>1. /\ client.at \in Nat /\ client.at <= MaxItems /\ kept.to \in Nat /\ kept.to <= MaxItems
      /\ MaxItems \in Nat
  BY StreamNumbers
<1> DEFINE items == page.items
<1>a. PICK lo \in Nat : lo = from + client.at
  BY <1>1
<1>b. PICK hi \in Nat : hi = from + page.next
  BY <1>1
<1>c. items = Streams!Run(lo, hi) /\ lo <= hi
  BY <1>1, <1>a, <1>b
<1> HIDE DEF items
<1>2. items \in Seq(Streams!Items)
  <2>1. CASE hi <= MaxItems
    BY <2>1, <1>c, RunTyped, Zenon
  <2>2. CASE hi = lo
    <3>1. items \in Seq(Nat) /\ Len(items) = IF hi > lo THEN hi - lo ELSE 0
      BY <1>c, RunIs, Zenon
    <3>2. Len(items) = 0
      BY <2>2, <3>1
    <3>3. QED
      BY <3>1, <3>2
  <2>3. QED
    BY <2>1, <2>2, <1>1, <1>a, <1>b
<1>3. page.next \in 0..MaxItems
  BY <1>1
<1>4. ASSUME store = "store" PROVE page.next <= kept.to /\ client.got \o items = Streams!Run(0, page.next)
  <2>1. client.got = Streams!Run(0, client.at) /\ client.at <= kept.to
    BY <1>4, Zenon DEF ReaderInv, Paged
  <2>2. lo = client.at /\ hi = page.next
    BY <1>1, <1>4, <1>a, <1>b
  <2>3. Streams!Run(0, lo) \o Streams!Run(lo, hi) = Streams!Run(0, hi)
    BY <1>c, RunOn, Zenon
  <2>4. page.next <= kept.to
    BY <1>1, <1>4, <2>1
  <2>5. QED
    BY <1>c, <2>1, <2>2, <2>3, <2>4
<1>5. QED
  BY <1>2, <1>3, <1>4 DEF Handed, items

LEMMA BlobIs ==
    ASSUME ReaderInv
    PROVE  /\ Streams!Blob.next \in Nat /\ client.at <= Streams!Blob.next
           /\ Streams!Blob.done = (Streams!Blob.next >= kept.to - kept.from)
           /\ Streams!Blob.items = Streams!Run(kept.from + client.at, kept.from + Streams!Blob.next)
           /\ Streams!Blob.next = client.at \/ kept.from + Streams!Blob.next <= kept.to
<1>1. PICK lo \in Nat, hi \in Nat, at \in Nat, size \in Nat :
             lo = kept.from /\ hi = kept.to /\ at = client.at /\ size = client.page /\ lo <= hi
  BY StreamNumbers
<1> DEFINE p == Streams!Blob
<1>2. SliceOf(p, at, size, lo, hi)
  BY <1>1 DEF Streams!Blob, SliceOf
<1> HIDE DEF p
<1>2a. lo <= hi
  BY <1>1
<1>3. /\ p.next \in Nat /\ p.done = (p.next >= hi - lo) /\ at <= p.next
      /\ p.items = Streams!Run(lo + at, lo + p.next)
      /\ p.next = at \/ lo + p.next <= hi
  BY <1>2, <1>2a, SliceIs
<1>4. QED
  BY <1>1, <1>3 DEF p

LEMMA BlobIsHanded ==
    ASSUME ReaderInv, channel \in Streams!Blobs
    PROVE  Handed(Streams!Blob) /\ Complete(Streams!Blob)
<1>1. /\ client.at \in Nat /\ client.page \in Nat /\ kept.from \in Nat /\ kept.to \in Nat /\ kept.from <= kept.to
  BY StreamNumbers
<1>2. store = "store" => kept.from = 0
  BY Zenon DEF ReaderInv, Paged
<1> DEFINE page == Streams!Blob
<1> HIDE DEF page
<1>4. /\ page.next \in Nat /\ page.done = (page.next >= kept.to - kept.from) /\ client.at <= page.next
      /\ page.items = Streams!Run(kept.from + client.at, kept.from + page.next)
      /\ page.next = client.at \/ kept.from + page.next <= kept.to
  BY BlobIs DEF page
<1>5. Handed(page)
  <2>1. page.done \in BOOLEAN
    BY <1>4
  <2>2. kept.to <= kept.to
    BY <1>1
  <2>3. QED
    BY <1>1, <1>2, <1>4, <2>1, <2>2, PageIsHanded, Zenon
<1>6. Complete(page)
  <2> SUFFICES ASSUME store = "store", page.done PROVE page.next = kept.to
    BY DEF Complete
  <2>1. page.next >= kept.to - kept.from /\ kept.from = 0 /\ page.next <= kept.to
    BY <1>2, <1>4, <1>5 DEF Handed
  <2>2. QED
    BY <1>1, <1>4, <2>1
<1>7. QED
  BY <1>5, <1>6 DEF page

LEMMA CaptureIsHanded ==
    ASSUME ReaderInv, channel \in Streams!Blobs
    PROVE  Handed(Streams!Slice(client.at, client.page, 0, Streams!Captured))
<1>1. /\ client.at \in Nat /\ client.page \in Nat /\ kept.to \in Nat
  BY StreamNumbers
<1>2. Streams!Captured \in Nat /\ Streams!Captured <= kept.to
  BY <1>1, StreamsAssumption DEF Streams!Captured, Streams!Preview, Streams!Least
<1>3. PICK from \in Nat : from = 0
  OBVIOUS
<1> DEFINE page == Streams!Slice(client.at, client.page, from, Streams!Captured)
<1>4. SliceOf(page, client.at, client.page, from, Streams!Captured) /\ from <= Streams!Captured
  BY <1>2, <1>3 DEF SliceOf
<1> HIDE DEF page
<1>5. /\ page.next \in Nat /\ page.done = (page.next >= Streams!Captured - from) /\ client.at <= page.next
      /\ page.items = Streams!Run(from + client.at, from + page.next)
      /\ page.next = client.at \/ from + page.next <= Streams!Captured
  BY <1>1, <1>2, <1>4, SliceIs, Zenon
<1>6. /\ page.next \in Nat /\ page.done \in BOOLEAN /\ client.at <= page.next
      /\ page.items = Streams!Run(from + client.at, from + page.next)
      /\ page.next = client.at \/ from + page.next <= Streams!Captured
  BY <1>5
<1>7. Handed(page)
  BY <1>1, <1>2, <1>3, <1>4, <1>6, PageIsHanded, Zenon
<1>8. QED
  BY <1>3, <1>7 DEF page

\* A page of lines ends with one of its lines.
LEMMA LinesAreHanded ==
    ASSUME ReaderInv, channel \in Streams!Blobs
    PROVE  Handed(Streams!Lines) /\ Complete(Streams!Lines)
<1>1. /\ client.at \in Nat /\ client.page \in Nat /\ kept.from \in Nat /\ kept.to \in Nat /\ kept.from <= kept.to
  BY StreamNumbers
<1>2. store = "store" => kept.from = 0
  BY Zenon DEF ReaderInv, Paged
<1>3. ends \in SUBSET Nat
  <2>1. ends \subseteq Streams!Items
    BY Zenon DEF ReaderInv
  <2>2. QED
    BY <2>1, StreamsAssumption DEF Streams!Items
<1> DEFINE page == Streams!Blob
           whole == {i \in ends : i \in Streams!ToSet(page.items)}
<1>5. Handed(page) /\ Complete(page)
  BY BlobIsHanded
<1>6. Streams!Lines = IF whole = {} THEN page
              ELSE [items |-> Streams!Run(kept.from + client.at, Streams!Max(whole)),
                    next |-> Streams!Max(whole) - kept.from, done |-> Streams!Max(whole) = kept.to]
  BY DEF Streams!Lines
<1> HIDE DEF page
<1>7. CASE whole = {}
  BY <1>5, <1>6, <1>7
<1>8. CASE whole # {}
  <2>1. /\ page.next \in Nat /\ client.at <= page.next
        /\ page.items = Streams!Run(kept.from + client.at, kept.from + page.next)
        /\ page.next = client.at \/ kept.from + page.next <= kept.to
    BY BlobIs DEF page
  <2>2. Streams!ToSet(page.items) = {i \in Nat : kept.from + client.at < i /\ i <= kept.from + page.next}
    BY <1>1, <2>1, RunHas
  <2>3. whole \in SUBSET Nat /\ \A i \in whole : i <= kept.from + page.next
    BY <1>3, <2>2
  <2>4. Streams!Max(whole) \in whole
    <3> HIDE DEF whole
    <3>1. kept.from + page.next \in Nat
      BY <1>1, <2>1
    <3>2. QED
      BY <1>8, <2>3, <3>1, GreatestIs
  <2>5. /\ Streams!Max(whole) \in Nat /\ kept.from + client.at < Streams!Max(whole)
        /\ Streams!Max(whole) <= kept.from + page.next
    BY <2>2, <2>4
  <2> DEFINE m == Streams!Max(whole)
             lines == [items |-> Streams!Run(kept.from + client.at, m), next |-> m - kept.from, done |-> m = kept.to]
  <2>6. Streams!Lines = lines
    BY <1>6, <1>8
  <2>7. m \in Nat /\ kept.from + client.at < m /\ m <= kept.to
    BY <1>1, <2>1, <2>5
  <2> HIDE DEF m
  <2>8. lines.next = m - kept.from /\ lines.items = Streams!Run(kept.from + client.at, m) /\ lines.done = (m = kept.to)
    BY Zenon
  <2> HIDE DEF lines
  <2>9. /\ lines.next \in Nat /\ lines.done \in BOOLEAN /\ client.at <= lines.next
        /\ kept.from + lines.next = m
    BY <1>1, <2>7, <2>8
  <2>10. Handed(lines)
    <3>1. /\ lines.items = Streams!Run(kept.from + client.at, kept.from + lines.next)
          /\ lines.next = client.at \/ kept.from + lines.next <= kept.to
      BY <2>7, <2>8, <2>9
    <3>2. kept.to <= kept.to
      BY <1>1
    <3>3. QED
      BY <1>1, <1>2, <2>9, <3>1, <3>2, PageIsHanded, Zenon
  <2>11. Complete(lines)
    <3>1. store = "store" /\ m = kept.to => m - kept.from = kept.to
      BY <1>1, <1>2
    <3>2. QED
      BY <2>8, <3>1, Zenon DEF Complete
  <2>12. QED
    BY <2>6, <2>10, <2>11
<1>9. QED
  BY <1>7, <1>8

-------------------------------------------------------------------------------
(* Steps of the reader.                                                     *)

\* What is left to show when only the reader moves.
LEMMA ReaderMoves ==
    ASSUME ReaderInv, UNCHANGED <<channel, kept, ends, store, source, hand>>,
           breaks' \in 0..MaxBreaks, client' \in ClientType,
           store = "store" /\ channel \in Streams!Blobs => Paged(client', kept),
           channel = "screen" => Screened(client', kept),
           channel = "feed" => Fed(client', kept)
    PROVE  ReaderInv'
BY DEF ReaderInv, Paged, Screened, Fed, Seen, Streams!Run

LEMMA Apart == channel \in Streams!Blobs => channel # "screen" /\ channel # "feed"
BY DEF Streams!Blobs

LEMMA TakesKeeps ==
    ASSUME ReaderInv, channel \in Streams!Blobs, NEW page, Handed(page), NEW short \in BOOLEAN,
           short \/ Complete(page), Streams!Takes(page, short), Streams!OnlyReads
    PROVE  ReaderInv'
<1> DEFINE c == client'
<1>1. c = [client EXCEPT !.got = client.got \o page.items, !.at = page.next,
                         !.pc = IF page.done THEN "done" ELSE "on",
                         !.told = kept.to, !.short = short]
  BY DEF Streams!Takes
<1>2. /\ page.items \in Seq(Streams!Items) /\ page.next \in 0..MaxItems
      /\ (IF page.done THEN "done" ELSE "on") \in {"done", "on"}
  BY DEF Handed
<1>3. client \in ClientType /\ kept.to \in 0..MaxItems
  BY Zenon DEF ReaderInv
<1>4. client.got \o page.items \in Seq(Streams!Items)
  BY <1>2, StreamNumbers, ConcatProperties
<1> HIDE DEF c
<1>5. c \in ClientType
  BY <1>1, <1>2, <1>3, <1>4 DEF ClientType
<1>6. /\ c.got = client.got \o page.items /\ c.at = page.next /\ c.base = client.base
      /\ c.told = kept.to /\ c.short = short /\ (c.pc = "done" => page.done)
  BY <1>1, <1>3 DEF ClientType
<1>7. store = "store" => Paged(c, kept)
  <2> SUFFICES ASSUME store = "store" PROVE Paged(c, kept)
    OBVIOUS
  <2>1. Paged(client, kept)
    BY Zenon DEF ReaderInv
  <2>2. c.pc = "done" /\ ~c.short => c.at = c.told
    BY <1>6 DEF Complete
  <2>3. QED
    BY <1>6, <2>1, <2>2, Zenon DEF Handed, Paged
<1>8. breaks' \in 0..MaxBreaks /\ UNCHANGED <<channel, kept, ends, store, source, hand>>
  BY DEF Streams!OnlyReads, ReaderInv
<1>9. QED
  BY <1>5, <1>7, <1>8, Apart, ReaderMoves DEF c

LEMMA FailsKeeps ==
    ASSUME ReaderInv, channel \in Streams!Blobs, Streams!Fails, Streams!OnlyReads
    PROVE  ReaderInv'
<1> DEFINE c == client'
<1>1. c = [client EXCEPT !.pc = "error"]
  BY DEF Streams!Fails
<1>2. client \in ClientType
  BY Zenon DEF ReaderInv
<1> HIDE DEF c
<1>3. c \in ClientType /\ c.got = client.got /\ c.at = client.at /\ c.base = client.base /\ c.pc # "done"
  BY <1>1, <1>2 DEF ClientType
<1>4. store = "store" => Paged(c, kept)
  BY <1>3, Zenon DEF Paged, ReaderInv
<1>5. breaks' \in 0..MaxBreaks /\ UNCHANGED <<channel, kept, ends, store, source, hand>>
  BY DEF Streams!OnlyReads, ReaderInv
<1>6. QED
  BY <1>3, <1>4, <1>5, Apart, ReaderMoves DEF c

LEMMA ReadKeeps ==
    ASSUME ReaderInv, Streams!Read
    PROVE  ReaderInv'
<1>1. CASE Streams!ReadOutput
  <2>1. channel \in Streams!Blobs /\ Streams!OnlyReads
    BY <1>1 DEF Streams!ReadOutput, Streams!Reading, Streams!Blobs
  <2>2. CASE Streams!Takes(Streams!Blob, FALSE)
    BY <2>1, <2>2, BlobIsHanded, TakesKeeps
  <2>5. CASE Streams!Takes(Streams!Slice(client.at, client.page, 0, Streams!Captured), TRUE)
    BY <2>1, <2>5, CaptureIsHanded, TakesKeeps
  <2>3. CASE Streams!Fails
    BY <2>1, <2>3, FailsKeeps
  <2>4. QED
    BY <1>1, <2>2, <2>3, <2>5 DEF Streams!ReadOutput
<1>2. CASE Streams!ReadContent
  <2>1. channel \in Streams!Blobs /\ Streams!OnlyReads
    BY <1>2 DEF Streams!ReadContent, Streams!Reading, Streams!Blobs
  <2>2. QED
    BY <1>2, <2>1, BlobIsHanded, TakesKeeps, FailsKeeps DEF Streams!ReadContent
<1>3. CASE Streams!ReadLog \/ Streams!ReadHistory
  <2>1. channel \in Streams!Blobs /\ Streams!OnlyReads
    BY <1>3 DEF Streams!ReadLog, Streams!ReadHistory, Streams!Reading, Streams!Blobs
  <2>2. QED
    BY <1>3, <2>1, LinesAreHanded, TakesKeeps, FailsKeeps DEF Streams!ReadLog, Streams!ReadHistory
<1>4. QED
  BY <1>1, <1>2, <1>3 DEF Streams!Read

-------------------------------------------------------------------------------
(* Steps of the writers.                                                    *)

\* What is left to show when the reader stands still.
LEMMA WriterMoves ==
    ASSUME ReaderInv, UNCHANGED <<channel, client, breaks>>,
           ends' \subseteq Streams!Items, kept' \in [from : 0..MaxItems, to : 0..MaxItems],
           kept'.from <= kept'.to, kept.from <= kept'.from, kept.to <= kept'.to,
           store' \in {"store", "memory", "gone"}, source' \in {"running", "ended"},
           hand' \in 0..MaxLine, kept'.to + hand' <= MaxItems, hand' > 0 => channel = "screen",
           store' = "store" /\ channel \in Streams!Blobs => store = "store" /\ kept'.from = kept.from
    PROVE  ReaderInv'
<1> DEFINE k == kept'
<1>1. kept.from \in Nat /\ kept.to \in Nat /\ client.at \in Nat /\ client.asked \in Nat /\ client.last \in Nat
  BY StreamNumbers
<1>2. k.from \in Nat /\ k.to \in Nat /\ kept.from <= k.from /\ kept.to <= k.to
  BY StreamsAssumption
<1> HIDE DEF k
<1>3. store' = "store" /\ channel \in Streams!Blobs => Paged(client, k)
  <2> SUFFICES ASSUME store' = "store", channel \in Streams!Blobs PROVE Paged(client, k)
    OBVIOUS
  <2>1. k.from = kept.from /\ Paged(client, kept)
    BY Zenon DEF ReaderInv, k
  <2>2. k.from = 0 /\ client.base = 0 /\ client.got = Streams!Run(0, client.at) /\ client.at <= kept.to
    BY <2>1, Zenon DEF Paged
  <2>3. client.at <= k.to
    BY <2>2, <1>1, <1>2
  <2>4. QED
    BY <2>1, <2>2, <2>3, Zenon DEF Paged
<1>4. channel = "screen" => Screened(client, k)
  <2> SUFFICES ASSUME channel = "screen" PROVE Screened(client, k)
    OBVIOUS
  <2>1. Screened(client, kept)
    BY Zenon DEF ReaderInv
  <2>2. Seen(client, kept.from, client.at) /\ client.at <= kept.to
    BY <2>1, Zenon DEF Screened
  <2>3. Seen(client, k.from, client.at)
    BY <1>1, <1>2, <2>2, SeenLater
  <2>4. client.at <= k.to
    BY <2>2, <1>1, <1>2
  <2>5. QED
    BY <2>1, <2>3, <2>4, Zenon DEF Screened
<1>5. channel = "feed" => Fed(client, k)
  <2> SUFFICES ASSUME channel = "feed" PROVE Fed(client, k)
    OBVIOUS
  <2>1. Fed(client, kept)
    BY Zenon DEF ReaderInv
  <2>2. Seen(client, kept.from, Cursor(client)) /\ Cursor(client) <= kept.to
    BY <2>1, Zenon DEF Fed
  <2>3. Seen(client, k.from, Cursor(client))
    BY <1>1, <1>2, <2>2, SeenLater
  <2>4. Cursor(client) \in Nat
    BY <1>1 DEF Cursor
  <2>5. Cursor(client) <= k.to
    BY <2>2, <2>4, <1>1, <1>2
  <2>6. client.at <= kept.to => client.at <= k.to
    BY <1>1, <1>2
  <2>7. QED
    BY <2>1, <2>3, <2>5, <2>6, Zenon DEF Fed
<1>6. channel \in Streams!Channels /\ breaks \in 0..MaxBreaks /\ client \in ClientType
  BY Zenon DEF ReaderInv
<1>7. /\ channel' = channel /\ client' = client /\ breaks' = breaks
  OBVIOUS
<1>8. ReaderInv' = (/\ channel' \in Streams!Channels /\ ends' \subseteq Streams!Items
                    /\ kept' \in [from : 0..MaxItems, to : 0..MaxItems] /\ kept'.from <= kept'.to
                    /\ store' \in {"store", "memory", "gone"} /\ source' \in {"running", "ended"}
                    /\ hand' \in 0..MaxLine /\ breaks' \in 0..MaxBreaks /\ client' \in ClientType
                    /\ kept'.to + hand' <= MaxItems /\ (hand' > 0 => channel' = "screen")
                    /\ (store' = "store" /\ channel' \in Streams!Blobs => Paged(client', kept'))
                    /\ (channel' = "screen" => Screened(client', kept'))
                    /\ (channel' = "feed" => Fed(client', kept')))
  BY DEF ReaderInv, Paged, Screened, Fed, Seen, Streams!Run, Cursor
<1>9. QED
  BY <1>3, <1>4, <1>5, <1>6, <1>7, <1>8 DEF k

LEMMA AppendedKeeps ==
    ASSUME ReaderInv, channel \in Streams!Blobs, NEW n \in 1..MaxLine, Streams!Appended(n), ends' \subseteq Streams!Items
    PROVE  ReaderInv'
<1>1. /\ kept.from \in Nat /\ kept.to \in Nat /\ kept.from <= kept.to /\ kept.to <= MaxItems
      /\ MaxItems \in Nat /\ n \in Nat
  BY StreamNumbers, StreamsAssumption
<1>2. hand = 0 /\ hand' = 0 /\ hand' \in 0..MaxLine
  BY Apart, StreamNumbers, StreamsAssumption DEF ReaderInv, Streams!Appended
<1>3. kept \in [from : 0..MaxItems, to : 0..MaxItems]
  BY Zenon DEF ReaderInv
<1>4. kept.to + n \in Nat /\ kept.to + n <= MaxItems /\ kept.to + n \in 0..MaxItems /\ kept.to \in 0..MaxItems
  BY <1>1 DEF Streams!Appended
<1>5. UNCHANGED <<channel, client, breaks>> /\ source' \in {"running", "ended"}
  BY DEF Streams!Appended, ReaderInv
<1> DEFINE k == kept'  m == kept.to + n
<1>6. /\ k \in [from : 0..MaxItems, to : 0..MaxItems] /\ k.to = m
      /\ k.from = kept.from \/ k.from = kept.to
      /\ store' \in {"store", "memory", "gone"}
      /\ store' = "store" => store = "store" /\ k.from = kept.from
  <2>1. CASE store = "store" /\ k = [kept EXCEPT !.to = m] /\ UNCHANGED store
    <3> HIDE DEF k, m
    <3>1. k \in [from : 0..MaxItems, to : 0..MaxItems] /\ k.to = m /\ k.from = kept.from
      BY <2>1, <1>3, <1>4 DEF m
    <3>2. QED
      BY <2>1, <3>1
  <2>2. CASE store \in {"store", "gone"} /\ store' = "memory" /\ k = [from |-> kept.to, to |-> m]
    <3> HIDE DEF k, m
    <3>1. k \in [from : 0..MaxItems, to : 0..MaxItems] /\ k.to = m /\ k.from = kept.to
      BY <2>2, <1>3, <1>4 DEF m
    <3>2. QED
      BY <2>2, <3>1
  <2>3. CASE store = "memory" /\ k = [kept EXCEPT !.to = m] /\ UNCHANGED store
    <3> HIDE DEF k, m
    <3>1. k \in [from : 0..MaxItems, to : 0..MaxItems] /\ k.to = m /\ k.from = kept.from
      BY <2>3, <1>3, <1>4 DEF m
    <3>2. QED
      BY <2>3, <3>1
  <2>4. QED
    BY <2>1, <2>2, <2>3 DEF Streams!Appended
<1>7. k.from <= k.to /\ kept.from <= k.from /\ kept.to <= k.to /\ k.to + hand' <= MaxItems
  <2> HIDE DEF k
  <2>1. QED
    BY <1>1, <1>2, <1>4, <1>6
<1>8. ~(hand' > 0)
  BY <1>2
<1>9. QED
  BY <1>2, <1>5, <1>6, <1>7, <1>8, WriterMoves DEF k

LEMMA WriteKeeps ==
    ASSUME ReaderInv, NEW n \in 1..MaxLine, Streams!Write(n)
    PROVE  ReaderInv'
<1>1. ends \subseteq Streams!Items
  BY Zenon DEF ReaderInv
<1>2. CASE Streams!WriteOutput(n)
  BY <1>1, <1>2, AppendedKeeps DEF Streams!WriteOutput, Streams!Blobs
<1>3. CASE Streams!PutContent(n)
  BY <1>1, <1>3, AppendedKeeps DEF Streams!PutContent, Streams!Blobs
<1>4. CASE Streams!Record(n) \/ Streams!Remember(n)
  <2>1. channel \in Streams!Blobs /\ Streams!Appended(n) /\ ends' = ends \cup {kept.to + n}
    BY <1>4 DEF Streams!Record, Streams!Remember, Streams!Entry, Streams!Blobs
  <2>2. kept.to + n \in Streams!Items
    <3>1. kept.to \in Nat /\ MaxItems \in Nat
      BY StreamNumbers
    <3>2. kept.to + n <= MaxItems
      BY <2>1 DEF Streams!Appended
    <3>3. QED
      BY <3>1, <3>2, StreamsAssumption DEF Streams!Items
  <2>3. QED
    BY <1>1, <2>1, <2>2, AppendedKeeps
<1>5. CASE Streams!ReadTerminal(n)
  <2>1. /\ channel = "screen" /\ hand' = n /\ kept.to + n <= MaxItems
        /\ UNCHANGED <<channel, kept, ends, store, source, client, breaks>>
    BY <1>5 DEF Streams!ReadTerminal
  <2>2. n \in 0..MaxLine
    BY StreamsAssumption
  <2>3. /\ kept \in [from : 0..MaxItems, to : 0..MaxItems] /\ kept.from <= kept.to
        /\ store \in {"store", "memory", "gone"} /\ source \in {"running", "ended"}
    BY Zenon DEF ReaderInv
  <2>4. kept.from <= kept.from /\ kept.to <= kept.to
    BY StreamNumbers
  <2>5. QED
    BY <1>1, <2>1, <2>2, <2>3, <2>4, WriterMoves
<1>6. QED
  BY <1>2, <1>3, <1>4, <1>5 DEF Streams!Write

LEMMA EvictKeeps ==
    ASSUME ReaderInv, Streams!Evict
    PROVE  ReaderInv'
<1> DEFINE k == kept'
<1>1. /\ k = [kept EXCEPT !.from = kept.to] /\ store' = "gone" /\ channel \in Streams!Blobs
      /\ UNCHANGED <<channel, ends, source, hand, client, breaks>>
  BY DEF Streams!Evict
<1>2. /\ kept \in [from : 0..MaxItems, to : 0..MaxItems] /\ kept.from <= kept.to
      /\ source \in {"running", "ended"} /\ ends \subseteq Streams!Items /\ hand \in 0..MaxLine
      /\ kept.to + hand <= MaxItems /\ (hand > 0 => channel = "screen")
  BY Zenon DEF ReaderInv
<1> HIDE DEF k
<1>3. k \in [from : 0..MaxItems, to : 0..MaxItems] /\ k.from = kept.to /\ k.to = kept.to
  BY <1>1, <1>2
<1>4. k.from <= k.to /\ kept.from <= k.from /\ kept.to <= k.to
  BY <1>2, <1>3, StreamNumbers
<1>5. k.to + hand' <= MaxItems
  BY <1>1, <1>2, <1>3
<1>6. QED
  BY <1>1, <1>2, <1>3, <1>4, <1>5, WriterMoves DEF k

LEMMA AbsorbKeeps ==
    ASSUME ReaderInv, Streams!Absorb
    PROVE  ReaderInv'
<1> DEFINE to == kept.to + hand
           chunks == {b \in ends \cup {0, kept.to} : b >= kept.from /\ (to - b <= Hot \/ b = kept.to)}
           k == kept'
<1>1. /\ hand > 0 /\ hand' = 0 /\ k = [from |-> Streams!Min(chunks), to |-> to] /\ ends' = ends \cup {to}
      /\ UNCHANGED <<channel, store, source, client, breaks>>
  BY DEF Streams!Absorb
<1>2. /\ ends \subseteq Streams!Items /\ kept.to + hand <= MaxItems /\ channel = "screen"
      /\ store \in {"store", "memory", "gone"} /\ source \in {"running", "ended"}
  BY <1>1, Zenon DEF ReaderInv
<1>3. /\ kept.from \in Nat /\ kept.to \in Nat /\ kept.from <= kept.to /\ hand \in Nat /\ MaxItems \in Nat
  BY StreamNumbers
<1>4. to \in Nat /\ to \in Streams!Items /\ to \in 0..MaxItems /\ kept.to <= to
  BY <1>1, <1>2, <1>3 DEF Streams!Items
<1>5. chunks \in SUBSET Nat /\ kept.to \in chunks
  <2>1. \A b \in ends \cup {0, kept.to} : b \in Nat
    BY <1>2, <1>3 DEF Streams!Items
  <2>2. kept.to >= kept.from
    BY <1>3
  <2>3. QED
    BY <2>1, <2>2
<1>6. Streams!Min(chunks) \in chunks /\ \A x \in chunks : Streams!Min(chunks) <= x
  <2> HIDE DEF chunks
  <2>1. QED
    BY <1>5, LeastIs
<1>7. PICK m \in Nat : m = Streams!Min(chunks) /\ kept.from <= m /\ m <= kept.to
  <2>1. Streams!Min(chunks) \in Nat /\ Streams!Min(chunks) >= kept.from /\ Streams!Min(chunks) <= kept.to
    BY <1>5, <1>6
  <2>2. QED
    BY <2>1, <1>3
<1>8. m \in 0..MaxItems /\ m <= to
  BY <1>3, <1>4, <1>7
<1> HIDE DEF chunks, to, k
<1>9. k \in [from : 0..MaxItems, to : 0..MaxItems] /\ k.from = m /\ k.to = to
  BY <1>1, <1>4, <1>7, <1>8
<1>10. /\ k.from <= k.to /\ kept.from <= k.from /\ kept.to <= k.to /\ k.to + hand' <= MaxItems
       /\ hand' \in 0..MaxLine /\ ends' \subseteq Streams!Items
  BY <1>1, <1>2, <1>4, <1>7, <1>8, <1>9, StreamsAssumption
<1>11. channel \notin Streams!Blobs
  BY <1>2 DEF Streams!Blobs
<1>12. QED
  BY <1>1, <1>2, <1>9, <1>10, <1>11, WriterMoves DEF k

LEMMA EndsKeeps ==
    ASSUME ReaderInv, Streams!Ends \/ Streams!CloseSession
    PROVE  ReaderInv'
<1>1. source' = "ended" /\ UNCHANGED <<channel, kept, ends, store, hand, client, breaks>>
  BY DEF Streams!Ends, Streams!CloseSession
<1>2. /\ kept \in [from : 0..MaxItems, to : 0..MaxItems] /\ kept.from <= kept.to
      /\ ends \subseteq Streams!Items /\ hand \in 0..MaxLine /\ store \in {"store", "memory", "gone"}
      /\ kept.to + hand <= MaxItems /\ (hand > 0 => channel = "screen")
  BY Zenon DEF ReaderInv
<1>3. kept.from <= kept.from /\ kept.to <= kept.to
  BY StreamNumbers
<1>4. QED
  BY <1>1, <1>2, <1>3, WriterMoves

LEMMA FeedKeeps ==
    ASSUME ReaderInv, Streams!Emit \/ Streams!Clear
    PROVE  ReaderInv'
<1> DEFINE k == kept'
<1>1. /\ UNCHANGED <<channel, ends, store, source, hand, client, breaks>> /\ channel = "feed"
  BY DEF Streams!Emit, Streams!Clear
<1>2. /\ kept \in [from : 0..MaxItems, to : 0..MaxItems] /\ kept.from <= kept.to
      /\ ends \subseteq Streams!Items /\ hand \in 0..MaxLine /\ store \in {"store", "memory", "gone"}
      /\ source \in {"running", "ended"} /\ (hand > 0 => channel = "screen")
  BY Zenon DEF ReaderInv
<1>3. /\ kept.from \in Nat /\ kept.to \in Nat /\ kept.from <= kept.to /\ hand \in Nat /\ MaxItems \in Nat
      /\ kept.to <= MaxItems
  BY StreamNumbers
<1>4. hand = 0
  BY <1>1, <1>2, <1>3
<1>5. PICK from \in Nat, to \in Nat :
        /\ k.from = from /\ k.to = to /\ k \in [from : 0..MaxItems, to : 0..MaxItems]
        /\ from <= to /\ kept.from <= from /\ kept.to <= to /\ to <= MaxItems
  <2>1. CASE Streams!Emit
    <3> DEFINE from == IF kept.to + 1 > Limit THEN Streams!Most(kept.from, kept.to + 1 - Limit) ELSE kept.from
               to == kept.to + 1
    <3>1. k = [from |-> from, to |-> to] /\ kept.to < MaxItems
      BY <2>1 DEF Streams!Emit
    <3>2. /\ from \in Nat /\ to \in Nat /\ from <= to /\ kept.from <= from /\ kept.to <= to /\ to <= MaxItems
          /\ from \in 0..MaxItems /\ to \in 0..MaxItems
      BY <1>3, <3>1, StreamsAssumption DEF Streams!Most
    <3> HIDE DEF k, from, to
    <3>3. k.from = from /\ k.to = to /\ k \in [from : 0..MaxItems, to : 0..MaxItems]
      BY <3>1, <3>2
    <3>4. QED
      BY <3>2, <3>3
  <2>2. CASE Streams!Clear
    <3>1. k = [kept EXCEPT !.from = kept.to]
      BY <2>2 DEF Streams!Clear
    <3> HIDE DEF k
    <3>2. k.from = kept.to /\ k.to = kept.to /\ k \in [from : 0..MaxItems, to : 0..MaxItems]
      BY <1>2, <3>1
    <3>3. QED
      BY <1>3, <3>2
  <2>3. QED
    BY <2>1, <2>2
<1>6. channel \notin Streams!Blobs
  BY <1>1 DEF Streams!Blobs
<1>7. /\ k.from <= k.to /\ kept.from <= k.from /\ kept.to <= k.to /\ k.to + hand' <= MaxItems
  BY <1>1, <1>4, <1>5
<1>8. QED
  BY <1>1, <1>2, <1>5, <1>6, <1>7, WriterMoves DEF k

-------------------------------------------------------------------------------
(* Steps of a follower.                                                     *)

\* What lies between hi and lo cannot be had any more, or came before the feed.
Lost(c, from, hi, lo) ==
    \A i \in Streams!Items : hi < i /\ i <= lo => i <= from \/ i <= c.blind
\* d is c after it was handed what lies between lo and new.
GoesOn(c, d, lo, new) ==
    d.got = c.got \o Streams!Run(lo, new) /\ d.base = c.base /\ d.blind = c.blind

\* Being handed the next run of items.
LEMMA CatchUp ==
    ASSUME NEW c \in ClientType, NEW d \in ClientType, NEW from \in Nat,
           NEW hi \in Nat, NEW lo \in Nat, NEW new \in Nat,
           Seen(c, from, hi), hi <= lo, lo <= new, new <= MaxItems,
           GoesOn(c, d, lo, new), Lost(c, from, hi, lo)
    PROVE  Seen(d, from, new)
<1>1. c.got \in Seq(Streams!Items)
  BY Zenon DEF ClientType
<1> DEFINE s == c.got
<1>2. Rising(s) /\ \A i \in Streams!ToSet(s) : i <= hi
  BY DEF Seen
<1>3. Streams!ToSet(s) \subseteq Nat
  BY <1>1, StreamsAssumption DEF Streams!ToSet, Streams!Items
<1> HIDE DEF s
<1>4. \A i \in Streams!ToSet(s) : i <= lo
  BY <1>2, <1>3
<1>5. s \in Seq(Streams!Items)
  BY <1>1 DEF s
<1>6. /\ Rising(s \o Streams!Run(lo, new))
      /\ Streams!ToSet(s \o Streams!Run(lo, new)) = Streams!ToSet(s) \cup Streams!ToSet(Streams!Run(lo, new))
  BY <1>2, <1>4, <1>5, Further
<1>7. Streams!ToSet(Streams!Run(lo, new)) = {i \in Nat : lo < i /\ i <= new}
  BY RunHas, Zenon
<1>8. Rising(d.got) /\ Streams!ToSet(d.got) = Streams!ToSet(s) \cup {i \in Nat : lo < i /\ i <= new}
  BY <1>6, <1>7 DEF s, GoesOn
<1>9. \A i \in Streams!ToSet(d.got) : i <= new
  BY <1>3, <1>4, <1>8
<1>10. ASSUME NEW i \in Streams!Items, d.base < i, i <= new
       PROVE  i \in Streams!ToSet(d.got) \/ i <= from \/ i <= d.blind
  <2>1. i \in Nat
    BY StreamsAssumption DEF Streams!Items
  <2>2. CASE i <= hi
    <3>1. i \in Streams!ToSet(s) \/ i <= from \/ i <= c.blind
      BY <1>10, <2>2 DEF Seen, s, GoesOn
    <3>2. QED
      BY <3>1, <1>8 DEF GoesOn
  <2>3. CASE hi < i /\ i <= lo
    BY <2>3 DEF Lost, GoesOn
  <2>4. CASE lo < i
    BY <2>1, <2>4, <1>8, <1>10
  <2>5. QED
    BY <2>1, <2>2, <2>3, <2>4
<1>11. QED
  BY <1>8, <1>9, <1>10 DEF Seen

LEMMA FollowerNumbers ==
    ASSUME ReaderInv
    PROVE  /\ client \in ClientType /\ breaks \in 0..MaxBreaks
           /\ channel = "screen" => Screened(client, kept)
           /\ channel = "feed" => Fed(client, kept)
BY Zenon DEF ReaderInv

LEMMA SentKeeps ==
    ASSUME ReaderInv, Streams!OnlyReads, channel = "screen",
           NEW pc \in {"polled", "exit"}, client' = [Streams!Sent EXCEPT !.pc = pc]
    PROVE  ReaderInv'
<1> DEFINE lo == Streams!Most(client.at, kept.from)  d == client'  items == Streams!Run(lo, kept.to)
<1>1. /\ client.at \in Nat /\ kept.from \in Nat /\ kept.to \in Nat /\ kept.from <= kept.to
      /\ kept.to <= MaxItems /\ client.got \in Seq(Streams!Items)
  BY StreamNumbers
<1>2. client \in ClientType /\ Screened(client, kept)
  BY FollowerNumbers
<1>3. Seen(client, kept.from, client.at) /\ client.at <= kept.to /\ client.base = 0 /\ client.asked = 0
  BY <1>2, Zenon DEF Screened
<1>4. lo \in Nat /\ client.at <= lo /\ lo <= kept.to /\ (lo = client.at \/ lo = kept.from)
  BY <1>1, <1>3 DEF Streams!Most
<1>5. d = [client EXCEPT !.got = client.got \o items, !.at = kept.to, !.pc = pc]
  BY DEF Streams!Sent, Streams!Since
<1> HIDE DEF lo
<1>6. items \in Seq(Streams!Items)
  BY <1>1, <1>4, RunTyped
<1>7. client.got \o items \in Seq(Streams!Items) /\ kept.to \in 0..MaxItems
  BY <1>1, <1>6, ConcatProperties
<1> HIDE DEF d, items
<1>8. /\ d \in ClientType /\ d.got = client.got \o items /\ d.base = client.base /\ d.blind = client.blind
      /\ d.at = kept.to /\ d.asked = client.asked /\ d.pc = pc
  BY <1>2, <1>5, <1>7 DEF ClientType
<1>9. \A i \in Streams!Items : client.at < i /\ i <= lo => i <= kept.from \/ i <= client.blind
  BY <1>1, <1>4, StreamsAssumption DEF Streams!Items
<1>10. Seen(d, kept.from, kept.to)
  <2>1. PICK from \in Nat, to \in Nat, at \in Nat : from = kept.from /\ to = kept.to /\ at = client.at
    BY <1>1
  <2>2. Seen(client, from, at)
    BY <2>1, <1>3
  <2>3. at <= lo /\ lo <= to /\ to <= MaxItems /\ GoesOn(client, d, lo, to)
    BY <2>1, <1>1, <1>4, <1>8 DEF items, GoesOn
  <2>4. Lost(client, from, at, lo)
    BY <2>1, <1>9 DEF Lost
  <2>5. Seen(d, from, to)
    <3>1. lo \in Nat /\ client \in ClientType /\ d \in ClientType
      BY <1>2, <1>4, <1>8
    <3>2. QED
      BY <3>1, <2>2, <2>3, <2>4, CatchUp
  <2>6. QED
    BY <2>1, <2>5
<1>11. Screened(d, kept)
  <2>1. d.pc \in {"off", "on", "polled", "exit"} /\ kept.to <= kept.to
    BY <1>1, <1>8
  <2>2. QED
    BY <1>3, <1>8, <1>10, <2>1, Zenon DEF Screened
<1>12. breaks' \in 0..MaxBreaks /\ UNCHANGED <<channel, kept, ends, store, source, hand>>
  BY FollowerNumbers DEF Streams!OnlyReads
<1>13. channel \notin Streams!Blobs /\ channel # "feed"
  BY DEF Streams!Blobs
<1>14. QED
  BY <1>8, <1>11, <1>12, <1>13, ReaderMoves DEF d

\* A screen's connection that only changes its place.
LEMMA ScreenKeeps ==
    ASSUME ReaderInv, Streams!OpenScreen \/ Streams!Poll \/ Streams!Settle
    PROVE  ReaderInv'
<1>1. Streams!OnlyReads /\ channel = "screen"
  BY DEF Streams!OpenScreen, Streams!Poll, Streams!Settle, Streams!Reading
<1>2. client \in ClientType /\ Screened(client, kept) /\ breaks' \in 0..MaxBreaks
      /\ UNCHANGED <<channel, kept, ends, store, source, hand>>
  BY <1>1, FollowerNumbers DEF Streams!OnlyReads
<1>3. channel \notin Streams!Blobs /\ channel # "feed"
  BY <1>1 DEF Streams!Blobs
<1> DEFINE d == client'
<1>4. CASE Streams!OpenScreen
  <2> DEFINE shown == IF client.got = << >> THEN client.shown ELSE Streams!Most(client.shown, Streams!Last(client.got))
  <2>1. d = [client EXCEPT !.pc = "on", !.at = client.asked, !.got = << >>, !.shown = shown]
    BY <1>4 DEF Streams!OpenScreen
  <2>2. client.got \in Seq(Streams!Items) /\ client.shown \in 0..MaxItems /\ MaxItems \in Nat
    BY StreamNumbers
  <2>3. shown \in 0..MaxItems
    <3>1. CASE client.got = << >>
      BY <2>2, <3>1
    <3>2. CASE client.got # << >>
      <4>1. Streams!Last(client.got) \in Streams!Items
        BY <2>2, <3>2 DEF Streams!Last
      <4>2. QED
        BY <2>2, <3>2, <4>1 DEF Streams!Items, Streams!Most
    <3>3. QED
      BY <3>1, <3>2
  <2>4. client.asked = 0 /\ client.base = 0 /\ 0 \in 0..MaxItems /\ << >> \in Seq(Streams!Items)
    BY <1>2, <2>2, EmptySeq DEF Screened
  <2> HIDE DEF d, shown
  <2>5. /\ d \in ClientType /\ d.got = << >> /\ d.base = 0 /\ d.at = 0 /\ d.asked = 0 /\ d.pc = "on"
    BY <1>2, <2>1, <2>3, <2>4 DEF ClientType
  <2>6. Seen(d, kept.from, d.at)
    <3>1. Rising(<< >>) /\ Streams!ToSet(<< >>) = {}
      BY DEF Rising, Streams!ToSet
    <3>2. \A i \in Streams!Items : ~(i <= 0)
      BY <2>2 DEF Streams!Items
    <3>3. QED
      BY <2>5, <3>1, <3>2 DEF Seen
  <2>7. d.at <= kept.to
    BY <2>5, StreamNumbers
  <2>8. Screened(d, kept)
    BY <2>5, <2>6, <2>7 DEF Screened
  <2>9. QED
    BY <1>2, <1>3, <2>5, <2>8, ReaderMoves DEF d
<1>5. CASE Streams!Poll
  BY <1>1, <1>5, SentKeeps DEF Streams!Poll
<1>6. CASE Streams!Settle
  <2>1. CASE source = "running"
    <3>1. d = [client EXCEPT !.pc = "on"]
      BY <1>6, <2>1 DEF Streams!Settle
    <3> HIDE DEF d
    <3>2. /\ d \in ClientType /\ d.got = client.got /\ d.base = client.base /\ d.blind = client.blind
          /\ d.at = client.at /\ d.asked = client.asked /\ d.pc = "on"
      BY <1>2, <3>1 DEF ClientType
    <3>3. Screened(d, kept)
      BY <1>2, <3>2 DEF Screened, Seen
    <3>4. QED
      BY <1>2, <1>3, <3>2, <3>3, ReaderMoves DEF d
  <2>2. CASE source # "running"
    BY <1>1, <1>6, <2>2, SentKeeps DEF Streams!Settle
  <2>3. QED
    BY <2>1, <2>2
<1>7. QED
  BY <1>4, <1>5, <1>6

\* What is left to show when the reader of a feed moves.
LEMMA FeedMoves ==
    ASSUME ReaderInv, channel = "feed", UNCHANGED <<channel, kept, ends, store, source, hand>>,
           breaks' \in 0..MaxBreaks, client' \in ClientType, Fed(client', kept)
    PROVE  ReaderInv'
<1>1. channel \notin Streams!Blobs /\ channel # "screen"
  BY DEF Streams!Blobs
<1>2. QED
  BY <1>1, ReaderMoves

LEMMA LoadKeeps ==
    ASSUME ReaderInv, Streams!LoadHistory
    PROVE  ReaderInv'
<1> DEFINE base == IF kept.to > Recent THEN Streams!Most(kept.from, kept.to - Recent) ELSE kept.from
           askedNow == IF kept.to > base THEN kept.to ELSE 0
           d == client'
<1>1. channel = "feed" /\ client.pc = "idle" /\ Streams!OnlyReads
  BY DEF Streams!LoadHistory
<1>2. client \in ClientType /\ Fed(client, kept) /\ breaks' \in 0..MaxBreaks
      /\ UNCHANGED <<channel, kept, ends, store, source, hand>>
  BY <1>1, FollowerNumbers DEF Streams!OnlyReads
<1>3. /\ kept.from \in Nat /\ kept.to \in Nat /\ kept.from <= kept.to /\ kept.to <= MaxItems
      /\ MaxItems \in Nat
  BY StreamNumbers
<1>4. d = [client EXCEPT !.pc = "loaded", !.base = base, !.got = Streams!Run(base, kept.to), !.asked = askedNow]
  BY DEF Streams!LoadHistory
<1>5. base \in Nat /\ base <= kept.to /\ base \in 0..MaxItems /\ askedNow \in 0..MaxItems /\ askedNow \in Nat
  BY <1>3, StreamsAssumption DEF Streams!Most
<1>6. askedNow = IF kept.to > base THEN kept.to ELSE 0
  OBVIOUS
<1> HIDE DEF base, askedNow, d
<1>7. Streams!Run(base, kept.to) \in Seq(Streams!Items)
  BY <1>3, <1>5, RunTyped
<1>8. /\ d \in ClientType /\ d.pc = "loaded" /\ d.base = base /\ d.got = Streams!Run(base, kept.to)
      /\ d.asked = askedNow /\ d.last = client.last
  BY <1>2, <1>4, <1>5, <1>7 DEF ClientType
<1>9. client.last = 0
  BY <1>1, <1>2 DEF Fed
<1>10. Cursor(d) = askedNow
  BY <1>8, <1>9 DEF Cursor
<1>11. Streams!ToSet(d.got) = {i \in Nat : base < i /\ i <= kept.to}
  <2>1. Streams!ToSet(Streams!Run(base, kept.to)) = {i \in Nat : base < i /\ i <= kept.to}
    BY <1>3, <1>5, RunHas, Zenon
  <2>2. QED
    BY <1>8, <2>1
<1>12. Rising(d.got)
  <2> DEFINE r == Streams!Run(base, kept.to)
  <2>1. r \in Seq(Nat) /\ \A k \in 1..Len(r) : r[k] = base + k
    BY <1>3, <1>5, RunIs, Zenon
  <2> HIDE DEF r
  <2>2. \A k \in 1..(Len(r) - 1) : k \in 1..Len(r) /\ k + 1 \in 1..Len(r)
    BY <2>1
  <2>3. \A k \in 1..(Len(r) - 1) : r[k] < r[k + 1]
    BY <1>5, <2>1, <2>2
  <2>4. QED
    BY <1>8, <2>3 DEF Rising, r
<1>13. Seen(d, kept.from, askedNow)
  <2>1. \A i \in Streams!ToSet(d.got) : i <= askedNow
    BY <1>3, <1>5, <1>6, <1>11
  <2>2. \A i \in Streams!Items : d.base < i /\ i <= askedNow => i \in Streams!ToSet(d.got)
    BY <1>3, <1>5, <1>6, <1>8, <1>11, StreamsAssumption DEF Streams!Items
  <2>3. QED
    BY <1>12, <2>1, <2>2 DEF Seen
<1>14. askedNow <= kept.to
  BY <1>3, <1>6
<1>15. Fed(d, kept)
  BY <1>8, <1>10, <1>13, <1>14 DEF Fed
<1>16. QED
  BY <1>1, <1>2, <1>8, <1>15, FeedMoves DEF d

LEMMA CursorIs ==
    ASSUME ReaderInv
    PROVE  Cursor(client) \in Nat /\ Cursor(client) <= MaxItems
BY StreamNumbers DEF Cursor

LEMMA OpenFeedKeeps ==
    ASSUME ReaderInv, Streams!OpenFeed
    PROVE  ReaderInv'
<1> DEFINE d == client'  at == Streams!StartId
           blind == IF client.last = 0 /\ client.asked = 0 THEN Streams!Most(client.blind, at) ELSE client.blind
<1>1. channel = "feed" /\ Streams!OnlyReads
  BY DEF Streams!OpenFeed
<1>2. client \in ClientType /\ Fed(client, kept) /\ breaks' \in 0..MaxBreaks
      /\ UNCHANGED <<channel, kept, ends, store, source, hand>>
  BY <1>1, FollowerNumbers DEF Streams!OnlyReads
<1>3. /\ kept.from \in Nat /\ kept.to \in Nat /\ kept.from <= kept.to /\ kept.to <= MaxItems
      /\ client.asked \in Nat /\ client.last \in Nat /\ client.blind \in Nat /\ client.blind <= MaxItems
      /\ client.asked <= MaxItems /\ client.last <= MaxItems /\ MaxItems \in Nat
  BY StreamNumbers
<1>4. d = [client EXCEPT !.pc = "on", !.at = at, !.blind = blind]
  BY DEF Streams!OpenFeed
<1>5. Cursor(client) <= kept.to /\ Seen(client, kept.from, Cursor(client))
  BY <1>2, Zenon DEF Fed
<1>6. /\ at \in 0..MaxItems /\ at <= kept.to
      /\ Cursor(client) # 0 => at = Cursor(client)
  BY <1>3, <1>5 DEF Streams!StartId, Streams!LastId, Cursor
<1>7. /\ blind \in 0..MaxItems /\ client.blind <= blind
      /\ Cursor(client) = 0 => at <= blind
  BY <1>3, <1>6 DEF Cursor, Streams!Most
<1> HIDE DEF at, blind, d
<1>8. /\ d \in ClientType /\ d.pc = "on" /\ d.at = at /\ d.blind = blind /\ d.got = client.got
      /\ d.base = client.base /\ d.last = client.last /\ d.asked = client.asked
  BY <1>2, <1>4, <1>6, <1>7 DEF ClientType
<1>9. Cursor(d) = Cursor(client)
  BY <1>8 DEF Cursor
<1>10. \A i \in Streams!Items : i <= client.blind => i <= d.blind
  BY <1>3, <1>7, <1>8, StreamsAssumption DEF Streams!Items
<1>11. Seen(d, kept.from, Cursor(d))
  BY <1>5, <1>8, <1>9, <1>10 DEF Seen
<1>12. Fed(d, kept)
  BY <1>5, <1>6, <1>7, <1>8, <1>9, <1>11 DEF Fed
<1>13. QED
  BY <1>1, <1>2, <1>8, <1>12, FeedMoves DEF d

\* The first n of the next events are received, and the connection goes on or is lost.
LEMMA ReceivedKeeps ==
    ASSUME ReaderInv, channel = "feed", client.pc = "on",
           UNCHANGED <<channel, kept, ends, store, source, hand>>, breaks' \in 0..MaxBreaks,
           NEW n \in 1..Len(Streams!Events), NEW pc \in {"on", "off"},
           client' = [Streams!Received(n) EXCEPT !.pc = pc]
    PROVE  ReaderInv'
<1> DEFINE lo == Streams!Most(client.at, kept.from)
           hi == Streams!Least(lo + Batch, kept.to)
           items == SubSeq(Streams!Events, 1, n)
           d == client'
<1>1. /\ client.at \in Nat /\ kept.from \in Nat /\ kept.to \in Nat /\ kept.from <= kept.to
      /\ kept.to <= MaxItems /\ client.got \in Seq(Streams!Items) /\ MaxItems \in Nat
  BY StreamNumbers
<1>2. client \in ClientType /\ Fed(client, kept)
  BY FollowerNumbers
<1>3. /\ Cursor(client) <= kept.to /\ Seen(client, kept.from, Cursor(client)) /\ client.at <= kept.to
      /\ (Cursor(client) # 0 => client.at = Cursor(client)) /\ (Cursor(client) = 0 => client.at <= client.blind)
  BY <1>2, Zenon DEF Fed
<1>4. lo \in Nat /\ client.at <= lo /\ lo <= kept.to /\ (lo = client.at \/ lo = kept.from)
  BY <1>1, <1>3 DEF Streams!Most
<1>5. hi \in Nat /\ hi <= kept.to
  BY <1>1, <1>4, StreamsAssumption DEF Streams!Least
<1>6. Streams!Events = Streams!Run(lo, hi)
  BY DEF Streams!Events
<1> HIDE DEF lo, hi
<1>7. Len(Streams!Events) = IF hi > lo THEN hi - lo ELSE 0
  BY <1>4, <1>5, <1>6, RunIs, Zenon
<1>8. n \in Nat /\ n > 0 /\ lo + n <= hi /\ n <= Len(Streams!Events)
  BY <1>4, <1>5, <1>7
<1>9. PICK new \in Nat : new = lo + n
  BY <1>4, <1>8
<1>10. lo < new /\ new <= kept.to /\ new <= MaxItems /\ new \in 0..MaxItems /\ new # 0
  BY <1>1, <1>4, <1>5, <1>8, <1>9
<1>11. items = Streams!Run(lo, new)
  BY <1>4, <1>5, <1>6, <1>8, <1>9, RunPart
<1>12. Streams!Last(items) = new
  <2> DEFINE r == Streams!Run(lo, new)
  <2>1. /\ r \in Seq(Nat) /\ Len(r) = (IF new > lo THEN new - lo ELSE 0)
        /\ \A k \in 1..Len(r) : r[k] = lo + k
    BY <1>4, RunIs, Zenon
  <2> HIDE DEF r
  <2>2. Len(r) = n /\ n \in 1..Len(r)
    BY <1>4, <1>8, <1>9, <1>10, <2>1
  <2>3. r[Len(r)] = new
    BY <1>9, <2>1, <2>2
  <2>4. QED
    BY <1>11, <2>3 DEF Streams!Last, r
<1>13. items \in Seq(Streams!Items)
  BY <1>4, <1>10, <1>11, RunTyped
<1>14. d = [client EXCEPT !.got = client.got \o items, !.at = Streams!Last(items), !.last = Streams!Last(items), !.pc = pc]
  BY DEF Streams!Received
<1> HIDE DEF items, d
<1>15. client.got \o items \in Seq(Streams!Items)
  BY <1>1, <1>13, ConcatProperties
<1>16. /\ d \in ClientType /\ d.got = client.got \o items /\ d.at = new /\ d.last = new /\ d.pc = pc
       /\ d.base = client.base /\ d.blind = client.blind
  BY <1>2, <1>10, <1>12, <1>14, <1>15 DEF ClientType
<1>17. Cursor(d) = new
  BY <1>10, <1>16 DEF Cursor
<1>18. Cursor(client) \in Nat
  BY CursorIs
<1>19. Cursor(client) <= lo
  BY <1>1, <1>3, <1>4, <1>18
<1>20. \A i \in Streams!Items : Cursor(client) < i /\ i <= lo => i <= kept.from \/ i <= client.blind
  <2>1. client.blind \in Nat
    BY StreamNumbers
  <2>2. \A i \in Streams!Items : i \in Nat
    BY StreamsAssumption DEF Streams!Items
  <2>3. CASE Cursor(client) # 0
    <3>1. client.at = Cursor(client)
      BY <1>3, <2>3
    <3>2. lo = Cursor(client) \/ lo = kept.from
      BY <1>4, <3>1
    <3>3. QED
      BY <1>1, <1>4, <1>18, <2>2, <3>2
  <2>4. CASE Cursor(client) = 0
    <3>1. client.at <= client.blind
      BY <1>3, <2>4
    <3>2. QED
      BY <1>1, <1>4, <2>1, <2>2, <3>1
  <2>5. QED
    BY <2>3, <2>4
<1>21. Seen(d, kept.from, new)
  <2>1. PICK from \in Nat, cursor \in Nat : from = kept.from /\ cursor = Cursor(client)
    BY <1>1, <1>18
  <2>2. Seen(client, from, cursor) /\ cursor <= lo /\ lo <= new /\ new <= MaxItems
    BY <2>1, <1>3, <1>4, <1>10, <1>19
  <2>3. Lost(client, from, cursor, lo)
    BY <2>1, <1>20 DEF Lost
  <2>4. GoesOn(client, d, lo, new)
    BY <1>11, <1>16 DEF GoesOn
  <2>5. Seen(d, from, new)
    <3>1. lo \in Nat /\ client \in ClientType /\ d \in ClientType
      BY <1>2, <1>4, <1>16
    <3>2. QED
      BY <3>1, <2>2, <2>3, <2>4, CatchUp
  <2>6. QED
    BY <2>1, <2>5
<1>22. Fed(d, kept)
  BY <1>10, <1>16, <1>17, <1>21 DEF Fed
<1>23. QED
  BY <1>16, <1>22, FeedMoves DEF d

LEMMA EventsAre ==
    ASSUME ReaderInv
    PROVE  Streams!Events \in Seq(Nat)
<1> DEFINE lo == Streams!Most(client.at, kept.from)
           hi == Streams!Least(lo + Batch, kept.to)
<1>1. client.at \in Nat /\ kept.from \in Nat /\ kept.to \in Nat /\ Batch \in Nat
  BY StreamNumbers, StreamsAssumption
<1>2. lo \in Nat
  BY <1>1 DEF Streams!Most
<1>3. hi \in Nat
  <2> HIDE DEF lo
  <2>1. QED
    BY <1>1, <1>2 DEF Streams!Least
<1>4. Streams!Events = Streams!Run(lo, hi)
  BY DEF Streams!Events
<1> HIDE DEF lo, hi
<1>5. QED
  BY <1>2, <1>3, <1>4, RunIs

LEMMA DeliverKeeps ==
    ASSUME ReaderInv, Streams!Deliver
    PROVE  ReaderInv'
<1>1. channel = "feed" /\ client.pc = "on" /\ Streams!Events # << >> /\ Streams!OnlyReads /\ client' = Streams!Received(Len(Streams!Events))
  BY DEF Streams!Deliver, Streams!Reading
<1>2. client \in ClientType /\ breaks' \in 0..MaxBreaks
      /\ UNCHANGED <<channel, kept, ends, store, source, hand>>
  BY <1>1, FollowerNumbers DEF Streams!OnlyReads
<1> DEFINE n == Len(Streams!Events)
<1>3. n \in 1..Len(Streams!Events)
  BY <1>1, EventsAre
<1>4. client' = [Streams!Received(n) EXCEPT !.pc = "on"]
  <2> DEFINE r == Streams!Received(n)
  <2>1. r.pc = "on" /\ r = [r EXCEPT !.pc = r.pc]
    BY <1>1, <1>2 DEF ClientType, Streams!Received
  <2>2. QED
    BY <1>1, <2>1
<1>5. QED
  BY <1>1, <1>2, <1>3, <1>4, ReceivedKeeps

LEMMA BreakKeeps ==
    ASSUME ReaderInv, Streams!Break
    PROVE  ReaderInv'
<1>1. /\ channel \in {"screen", "feed"} /\ client.pc \in {"on", "polled"} /\ breaks < MaxBreaks
      /\ breaks' = breaks + 1 /\ UNCHANGED <<channel, kept, ends, store, source, hand>>
  BY DEF Streams!Break
<1>2. client \in ClientType /\ breaks \in 0..MaxBreaks
  BY FollowerNumbers
<1>3. breaks' \in 0..MaxBreaks
  BY <1>1, <1>2, StreamsAssumption
<1> DEFINE d == client'
<1>4. CASE d = [client EXCEPT !.pc = "off"]
  <2> HIDE DEF d
  <2>1. /\ d \in ClientType /\ d.got = client.got /\ d.base = client.base /\ d.blind = client.blind
        /\ d.at = client.at /\ d.asked = client.asked /\ d.last = client.last /\ d.pc = "off"
    BY <1>2, <1>4 DEF ClientType
  <2>2. CASE channel = "screen"
    <3>1. Screened(d, kept)
      BY <2>1, <2>2, FollowerNumbers DEF Screened, Seen
    <3>2. channel \notin Streams!Blobs /\ channel # "feed"
      BY <2>2 DEF Streams!Blobs
    <3>3. QED
      BY <1>1, <1>3, <2>1, <3>1, <3>2, ReaderMoves DEF d
  <2>3. CASE channel = "feed"
    <3>1. Cursor(d) = Cursor(client)
      BY <2>1 DEF Cursor
    <3>2. Fed(d, kept)
      BY <2>1, <2>3, <3>1, FollowerNumbers DEF Fed, Seen
    <3>3. QED
      BY <1>1, <1>3, <2>1, <2>3, <3>2, FeedMoves DEF d
  <2>4. QED
    BY <1>1, <2>2, <2>3
<1>5. CASE channel = "feed" /\ \E n \in 1..(Len(Streams!Events) - 1) : d = [Streams!Received(n) EXCEPT !.pc = "off"]
  <2>1. PICK n \in 1..(Len(Streams!Events) - 1) : d = [Streams!Received(n) EXCEPT !.pc = "off"]
    BY <1>5
  <2>2. n \in 1..Len(Streams!Events)
    BY EventsAre
  <2>3. client.pc = "on"
    BY <1>1, <1>5, FollowerNumbers DEF Fed
  <2>4. QED
    BY <1>1, <1>3, <1>5, <2>1, <2>2, <2>3, ReceivedKeeps
<1>6. QED
  BY <1>4, <1>5 DEF Streams!Break

-------------------------------------------------------------------------------
(* What a reader may rely on.                                               *)

LEMMA StreamInit == Streams!Init => ReaderInv
<1> SUFFICES ASSUME Streams!Init PROVE ReaderInv
  OBVIOUS
<1> DEFINE pc == IF channel = "feed" THEN "idle" ELSE IF channel = "screen" THEN "off" ELSE "on"
<1>1. PICK page \in 1..MaxPage : client =
         [pc |-> pc, page |-> IF channel \in Streams!Blobs THEN page ELSE 1, at |-> 0, got |-> << >>,
          base |-> 0, asked |-> 0, last |-> 0, blind |-> 0, shown |-> 0,
          told |-> 0, short |-> FALSE]
  BY DEF Streams!Init
<1>2. /\ channel \in Streams!Channels /\ kept = [from |-> 0, to |-> 0] /\ ends = {} /\ store = "store"
      /\ source = "running" /\ hand = 0 /\ breaks = 0
  BY DEF Streams!Init
<1>3. 0 \in 0..MaxItems /\ 0 \in 0..MaxLine /\ 0 \in 0..MaxBreaks /\ 1 \in 1..MaxPage /\ << >> \in Seq(Streams!Items)
  BY StreamsAssumption, EmptySeq
<1>4. (IF channel \in Streams!Blobs THEN page ELSE 1) \in 1..MaxPage
  BY <1>3
<1>5. pc \in {"idle", "off", "on"} /\ (channel = "screen" => pc = "off") /\ (channel = "feed" => pc = "idle")
  OBVIOUS
<1> HIDE DEF pc
<1>6. /\ client \in ClientType /\ client.pc = pc /\ client.at = 0 /\ client.got = << >> /\ client.base = 0
      /\ client.asked = 0 /\ client.last = 0 /\ client.blind = 0
  BY <1>1, <1>3, <1>4, <1>5 DEF ClientType
<1>7. kept \in [from : 0..MaxItems, to : 0..MaxItems] /\ kept.from = 0 /\ kept.to = 0
  BY <1>2, <1>3
<1>8. Streams!Run(0, 0) = << >>
  <2>1. Streams!Run(0, 0) \in Seq(Nat) /\ Len(Streams!Run(0, 0)) = 0
    <3>1. 0 \in Nat
      OBVIOUS
    <3>2. Streams!Run(0, 0) \in Seq(Nat) /\ Len(Streams!Run(0, 0)) = IF 0 > 0 THEN 0 - 0 ELSE 0
      BY <3>1, RunIs, Zenon
    <3>3. QED
      BY <3>2
  <2>2. QED
    BY <2>1, EmptySeq
<1>9. Seen(client, kept.from, 0)
  <2>1. Rising(<< >>) /\ Streams!ToSet(<< >>) = {}
    BY DEF Rising, Streams!ToSet
  <2>2. \A i \in Streams!Items : ~(i <= 0)
    BY StreamsAssumption DEF Streams!Items
  <2>3. QED
    BY <1>6, <2>1, <2>2 DEF Seen
<1>10. Paged(client, kept)
  BY <1>5, <1>6, <1>7, <1>8 DEF Paged
<1>11. channel = "screen" => Screened(client, kept)
  BY <1>5, <1>6, <1>7, <1>9 DEF Screened
<1>12. Cursor(client) = 0
  BY <1>6 DEF Cursor
<1>13. channel = "feed" => Fed(client, kept)
  BY <1>5, <1>6, <1>7, <1>9, <1>12 DEF Fed
<1>14. kept.from <= kept.to /\ kept.to + hand <= MaxItems /\ ~(hand > 0)
  BY <1>2, <1>7, StreamsAssumption
<1>15. QED
  BY <1>2, <1>3, <1>6, <1>7, <1>10, <1>11, <1>13, <1>14 DEF ReaderInv

LEMMA StreamStep == ReaderInv /\ [Streams!Next]_(Streams!vars) => ReaderInv'
<1> SUFFICES ASSUME ReaderInv, [Streams!Next]_(Streams!vars) PROVE ReaderInv'
  OBVIOUS
<1>1. CASE \E n \in 1..MaxLine : Streams!Write(n)
  BY <1>1, WriteKeeps
<1>2. CASE Streams!Evict \/ Streams!Absorb \/ Streams!Ends \/ Streams!CloseSession \/ Streams!Emit \/ Streams!Clear \/ Streams!Break
  BY <1>2, EvictKeeps, AbsorbKeeps, EndsKeeps, FeedKeeps, BreakKeeps
<1>3. CASE Streams!Read
  BY <1>3, ReadKeeps
<1>4. CASE Streams!Follow
  BY <1>4, ScreenKeeps, LoadKeeps, OpenFeedKeeps, DeliverKeeps DEF Streams!Follow
<1>5. CASE UNCHANGED Streams!vars
  BY <1>5 DEF Streams!vars, ReaderInv, Paged, Screened, Fed, Seen, Streams!Run, Cursor
<1>6. QED
  BY <1>1, <1>2, <1>3, <1>4, <1>5 DEF Streams!Next

LEMMA StreamDelivers == ReaderInv => Streams!Delivers
<1> SUFFICES ASSUME ReaderInv PROVE Streams!Delivers
  OBVIOUS
<1>1. channel \in Streams!Channels
  BY Zenon DEF ReaderInv
<1>2. client.got \in Seq(Streams!Items) /\ client.at \in Nat /\ kept.from \in Nat /\ MaxItems \in Nat
  BY StreamNumbers
<1> DEFINE got == client.got
<1>3. CASE Streams!Sound /\ channel \in Streams!Blobs
  <2>1. /\ client.base = 0 /\ got = Streams!Run(0, client.at)
        /\ (client.pc = "done" /\ ~client.short => client.at = client.told)
    BY <1>3, Zenon DEF ReaderInv, Paged, Streams!Sound
  <2>2. 0 \in Nat
    OBVIOUS
  <2>3. /\ Streams!Run(0, client.at) \in Seq(Nat)
        /\ Len(Streams!Run(0, client.at)) = (IF client.at > 0 THEN client.at - 0 ELSE 0)
        /\ \A k \in 1..Len(Streams!Run(0, client.at)) : Streams!Run(0, client.at)[k] = 0 + k
    BY <1>2, <2>2, RunIs, Zenon
  <2>4. got = Streams!Run(0, client.at)
    BY <2>1
  <2> HIDE DEF got
  <2>5. Len(got) = client.at /\ \A k \in 1..Len(got) : got[k] = k
    BY <1>2, <2>3, <2>4
  <2>6. \A k \in 1..(Len(got) - 1) : got[k] < got[k + 1]
    <3>1. \A k \in 1..(Len(got) - 1) : k \in 1..Len(got) /\ k + 1 \in 1..Len(got)
      BY <1>2, <2>5
    <3>2. QED
      BY <3>1, <2>5
  <2>7. ASSUME NEW i \in Streams!Items, got # << >>, i < Streams!Last(got)
        PROVE  i \in Streams!ToSet(got)
    <3>1. got \in Seq(Nat)
      BY <2>3, <2>4
    <3>2. Len(got) # 0
      BY <2>7, <3>1
    <3>3. Streams!Last(got) = client.at
      BY <1>2, <2>5, <3>2 DEF Streams!Last
    <3>4. i \in 1..Len(got)
      BY <1>2, <2>5, <2>7, <3>3 DEF Streams!Items
    <3>5. i \in DOMAIN got /\ got[i] = i
      BY <2>5, <3>1, <3>4
    <3>6. QED
      BY <3>5 DEF Streams!ToSet
  <2>8. QED
    BY <2>1, <2>6, <2>7 DEF Streams!Delivers, Streams!InOrderOnce, Streams!NothingIsSkipped, Streams!DoneIsAll, Streams!Got, got
<1>4. CASE Streams!Sound /\ channel \notin Streams!Blobs
  <2>1. channel = "screen" \/ channel = "feed"
    BY <1>1, <1>4 DEF Streams!Channels
  <2>2. client.pc # "done"
    BY <2>1, FollowerNumbers DEF Screened, Fed
  <2>3. PICK hi \in Nat : Seen(client, kept.from, hi)
    BY <2>1, <1>2, FollowerNumbers, CursorIs DEF Screened, Fed
  <2>4. ASSUME NEW i \in Streams!Items, got # << >>, client.base < i, i < Streams!Last(got)
        PROVE  i \in Streams!ToSet(got) \/ i <= kept.from \/ i <= client.blind
    <3>1. Len(got) \in 1..Len(got) /\ DOMAIN got = 1..Len(got)
      BY <1>2, <2>4
    <3>2. Streams!Last(got) \in Streams!ToSet(got) /\ Streams!Last(got) \in Streams!Items
      BY <1>2, <3>1 DEF Streams!Last, Streams!ToSet
    <3>3. Streams!Last(got) <= hi
      BY <2>3, <3>2 DEF Seen
    <3>4. i <= hi
      BY <1>2, <2>4, <3>2, <3>3 DEF Streams!Items
    <3>5. QED
      BY <2>3, <2>4, <3>4 DEF Seen
  <2>5. QED
    BY <2>2, <2>3, <2>4 DEF Streams!Delivers, Streams!InOrderOnce, Streams!NothingIsSkipped, Streams!DoneIsAll, Streams!Got, Seen, Rising
<1>5. QED
  BY <1>3, <1>4 DEF Streams!Delivers, Streams!InOrderOnce, Streams!NothingIsSkipped, Streams!DoneIsAll

\* Offsets, ids and numbers of what was written stay within what was written
\* (blobs.py, terminal buffers, the event table and the browser's cursors).
THEOREM StreamTypes == Streams!Spec => []Streams!TypeOK
<1>1. ReaderInv => Streams!TypeOK
  BY DEF ReaderInv, Streams!TypeOK, ClientType
<1>2. QED
  BY <1>1, StreamInit, StreamStep, PTL DEF Streams!Spec

\* While the store does not fail, whoever pages through a text or follows a
\* screen or the feed is handed once and in order all that retention has not
\* dropped (BlobStore.read, text_since, _sse_start_id), and whoever is told that a
\* blob is over has all of it, for any sizes of buffers, pages and batches and any
\* lost connections.
THEOREM StreamsDeliver == Streams!Spec => []Delivers
<1>1. ReaderInv => Delivers
  BY StreamDelivers DEF Delivers
<1>2. QED
  BY <1>1, StreamInit, StreamStep, PTL DEF Streams!Spec

-------------------------------------------------------------------------------
(* The conversations, in which the turns are asked and answered.             *)

\* The records of a thread with these contents, and any record of a thread.
Contents(pc, chat, text, of) == [pc : {pc}, chat : {chat}, text : {text}, of : {of}]
IsWork(r) == r \in Contents(r.pc, r.chat, r.text, r.of)

\* The chat of a question, or of a turn or a message that answers it.  (Question 0
\* stands for an id that is no approval.)
Pinned(r, questions) == r.of[2] = r.chat /\ (r.of[1] # 0 => r.of \in questions)

\* What a thread at some place knows: from its question on a turn has the question
\* and the chat it was asked in; its token says that very chat.
WorkOK(r, token, questions) ==
    /\ IsWork(r)
    /\ r.pc \in {"begin", "work", "end"} => Pinned(r, questions)
    /\ token # Nothing => r.pc \in {"work", "end"} /\ token = r.chat

\* A message stands where its question was asked; a question answers to itself.
Placed(m, questions) == Pinned(m, questions) /\ (m.role = "user" => m.of = <<m.id, m.chat>>)

TurnInv ==
    /\ thread = [t \in Threads |-> thread[t]] /\ running = [t \in Threads |-> running[t]]
    /\ \A t \in Threads : WorkOK(thread[t], running[t], asked)
    /\ \A m \in messages : Placed(m, asked)

\* What a step makes of one thread.
ThreadStepOK(t) ==
    /\ asked \subseteq asked'
    /\ \A m \in messages' : Placed(m, asked')
    /\ \E new, token :
         /\ thread' = [thread EXCEPT ![t] = new] /\ running' = [running EXCEPT ![t] = token]
         /\ WorkOK(new, token, asked')

LEMMA ThreadKeepsInv ==
    ASSUME TurnInv, NEW t \in Threads, ThreadStepOK(t)
    PROVE  TurnInv'
<1>1. PICK new, token :
         /\ thread' = [thread EXCEPT ![t] = new] /\ running' = [running EXCEPT ![t] = token]
         /\ WorkOK(new, token, asked')
    BY DEF ThreadStepOK
<1>2. \A u \in Threads : /\ thread'[u] = IF u = t THEN new ELSE thread[u]
                         /\ running'[u] = IF u = t THEN token ELSE running[u]
    BY <1>1 DEF TurnInv
<1>3. \A u \in Threads : WorkOK(thread'[u], running'[u], asked')
    <2> SUFFICES ASSUME NEW u \in Threads, u # t PROVE WorkOK(thread[u], running[u], asked')
        BY <1>1, <1>2
    <2>1. WorkOK(thread[u], running[u], asked) /\ asked \subseteq asked'
        BY DEF TurnInv, ThreadStepOK
    <2> QED BY <2>1 DEF WorkOK, Pinned
<1>4. thread' = [u \in Threads |-> thread'[u]] /\ running' = [u \in Threads |-> running'[u]]
    BY <1>1 DEF TurnInv
<1> QED BY <1>3, <1>4 DEF TurnInv, ThreadStepOK

LEMMA HoldsFacts ==
    ASSUME NEW pc, NEW chat, NEW text, NEW of, NEW r \in Contents(pc, chat, text, of)
    PROVE  IsWork(r) /\ r.pc = pc /\ r.chat = chat /\ r.text = text /\ r.of = of
<1>1. r.pc = pc /\ r.chat = chat /\ r.text = text /\ r.of = of
    BY Zenon DEF Contents
<1> QED BY <1>1 DEF IsWork

LEMMA IdleThreadFacts == IsWork(IdleThread) /\ IdleThread.pc = "idle"
BY DEF IsWork, Contents, IdleThread

\* Updates of the record of a thread.
LEMMA PcFacts ==
    ASSUME NEW r, IsWork(r), NEW pc, NEW new,
           new = [r EXCEPT !.pc = pc]
    PROVE  IsWork(new) /\ new.pc = pc /\ new.chat = r.chat /\ new.of = r.of
<1>1. new \in Contents(pc, r.chat, r.text, r.of)
    BY Zenon DEF IsWork, Contents
<1> QED BY <1>1, HoldsFacts

\* A step of one thread that asks nothing and writes no message.
LEMMA OneThread ==
    ASSUME TurnInv, NEW t \in Threads, NEW new, NEW token,
           thread' = [thread EXCEPT ![t] = new],
           running' = [running EXCEPT ![t] = token] \/ (running' = running /\ token = running[t]),
           WorkOK(new, token, asked), asked' = asked, messages' \subseteq messages
    PROVE  ThreadStepOK(t)
<1>1. running' = [running EXCEPT ![t] = token]
    BY DEF TurnInv
<1> QED BY <1>1 DEF ThreadStepOK, TurnInv

LEMMA ThreadFacts ==
    ASSUME TurnInv, NEW t \in Threads
    PROVE  /\ WorkOK(thread[t], running[t], asked) /\ IsWork(thread[t])
           /\ thread[t].pc \notin {"work", "end"} => running[t] = Nothing
BY DEF TurnInv, WorkOK

\* A thread goes where it holds no turn.
LEMMA NoTurn ==
    ASSUME TurnInv, NEW t \in Threads, NEW new, Go(t, new), IsWork(new),
           new.pc \notin {"begin", "work", "end"}, running' = running,
           thread[t].pc \notin {"work", "end"}, asked' = asked, messages' \subseteq messages
    PROVE  ThreadStepOK(t)
<1>1. WorkOK(new, running[t], asked)
    BY ThreadFacts DEF WorkOK
<1> QED BY <1>1, OneThread DEF Go

\* The routes of the conversations, and a question before it is asked.
LEMMA StepManage ==
    ASSUME TurnInv, NEW t \in Threads,
           AskIn(t) \/ CheckDuplicate(t) \/ New(t) \/ Switch(t) \/ Delete(t) \/ Wipe(t) \/ Manage(t)
    PROVE  ThreadStepOK(t)
<1>1. asked' = asked /\ running' = running /\ messages' \subseteq messages
    BY DEF AskIn, CheckDuplicate, New, Switch, Delete, Wipe, Manage, Set, Prune, Succeed, Refill
<1>2. thread[t].pc \notin {"work", "end"}
    BY DEF AskIn, CheckDuplicate, New, Switch, Delete, Wipe, Manage, Set, Prune, Succeed, Refill, Stands
<1>3. \A new : /\ Go(t, new) /\ IsWork(new)
               /\ new.pc \in {"idle", "check", "save", "made", "set", "next", "wiped", "prune"}
               => ThreadStepOK(t)
    <2> SUFFICES ASSUME NEW new, Go(t, new), IsWork(new), new.pc \notin {"begin", "work", "end"}
                 PROVE  ThreadStepOK(t)
        OBVIOUS
    <2> QED BY <1>1, <1>2, NoTurn
<1>4. ASSUME Go(t, IdleThread) PROVE ThreadStepOK(t)
    BY <1>3, <1>4, IdleThreadFacts, Zenon
<1>5. ASSUME NEW pc, NEW chat, Go(t, [IdleThread EXCEPT !.pc = pc, !.chat = chat]),
             pc \in {"made", "set", "next"}
      PROVE  ThreadStepOK(t)
    <2>9. PICK new : new = [IdleThread EXCEPT !.pc = pc, !.chat = chat]
        OBVIOUS
    <2>1. IsWork(new) /\ new.pc = pc
        <3>1. new \in Contents(pc, chat, IdleThread.text, IdleThread.of)
            BY <2>9, IdleThreadFacts, Zenon DEF IsWork, Contents
        <3> QED BY <3>1, HoldsFacts
    <2>2. Go(t, new)
        BY <2>9, <1>5, Zenon
    <2> QED BY <1>3, <1>5, <2>1, <2>2
<1>6. CASE AskIn(t)
    <2>1. PICK text \in Texts : Go(t, [IdleThread EXCEPT !.pc = "check", !.chat = current, !.text = text])
        BY <1>6, Zenon DEF AskIn
    <2>9. PICK new : new = [IdleThread EXCEPT !.pc = "check", !.chat = current, !.text = text]
        OBVIOUS
    <2>2. IsWork(new) /\ new.pc = "check"
        <3>1. new \in Contents("check", current, text, IdleThread.of)
            BY <2>9, IdleThreadFacts, Zenon DEF IsWork, Contents
        <3> QED BY <3>1, HoldsFacts
    <2>3. Go(t, new)
        BY <2>9, <2>1, Zenon
    <2> QED BY <1>3, <2>2, <2>3
<1>7. CASE CheckDuplicate(t)
    <2>9. PICK new : new = [thread[t] EXCEPT !.pc = "save"]
        OBVIOUS
    <2>1. IsWork(new) /\ new.pc = "save"
        BY <2>9, ThreadFacts, PcFacts
    <2>2. Go(t, IdleThread) \/ Go(t, new)
        BY <1>7, <2>9, Zenon DEF CheckDuplicate
    <2> QED BY <1>3, <1>4, <2>1, <2>2
<1>8. ASSUME Make(t) PROVE ThreadStepOK(t)
    <2>1. Go(t, [IdleThread EXCEPT !.pc = "made", !.chat = NewId(chats)])
        BY <1>8, Zenon DEF Make
    <2> QED BY <1>5, <2>1, Zenon
<1>9. CASE New(t)
    BY <1>8, <1>9 DEF New
<1>10. CASE Switch(t)
    <2>1. PICK c : Go(t, [IdleThread EXCEPT !.pc = "set", !.chat = c])
        BY <1>10, Zenon DEF Switch
    <2> QED BY <1>5, <2>1, Zenon
<1>11. CASE Delete(t)
    <2>1. PICK c : Go(t, [IdleThread EXCEPT !.pc = "next", !.chat = c])
        BY <1>11, Zenon DEF Delete
    <2> QED BY <1>5, <2>1, Zenon
<1>12. CASE Wipe(t) \/ Set(t) \/ Prune(t) \/ Refill(t)
    <2>1. ASSUME NEW pc \in {"wiped", "prune"}, Go(t, [IdleThread EXCEPT !.pc = pc])
          PROVE  ThreadStepOK(t)
        <3>9. PICK new : new = [IdleThread EXCEPT !.pc = pc]
            OBVIOUS
        <3>1. IsWork(new) /\ new.pc = pc
            BY <3>9, IdleThreadFacts, PcFacts
        <3>2. Go(t, new)
            BY <3>9, <2>1, Zenon
        <3> QED BY <1>3, <3>1, <3>2
    <2>2. Go(t, IdleThread) \/ Go(t, [IdleThread EXCEPT !.pc = "wiped"]) \/ Go(t, [IdleThread EXCEPT !.pc = "prune"])
        BY <1>12, Zenon DEF Wipe, Set, Prune, Refill
    <2> QED BY <1>4, <2>1, <2>2, Zenon
<1>13. CASE Succeed(t)
    <2>1. \/ Go(t, IdleThread) \/ Make(t)
          \/ \E c : Go(t, [IdleThread EXCEPT !.pc = "set", !.chat = c])
        BY <1>13, Zenon DEF Succeed
    <2>2. ASSUME NEW c, Go(t, [IdleThread EXCEPT !.pc = "set", !.chat = c]) PROVE ThreadStepOK(t)
        BY <1>5, <2>2, Zenon
    <2> QED BY <1>4, <1>8, <2>1, <2>2, Zenon
<1> QED BY <1>6, <1>7, <1>9, <1>10, <1>11, <1>12, <1>13 DEF Manage

\* The question is written, or found.
LEMMA StepSave ==
    ASSUME TurnInv, NEW t \in Threads, Save(t)
    PROVE  ThreadStepOK(t)
<1> DEFINE me == thread[t]
<1>1. IsWork(me) /\ running[t] = Nothing /\ running' = running
    BY ThreadFacts DEF Save, Stands
<1>3. CASE \E m \in Same(me.chat, me.text) : /\ Go(t, [me EXCEPT !.pc = "begin", !.of = <<m.id, me.chat>>])
                                            /\ UNCHANGED <<messages, asked>>
    <2>1. PICK m \in Same(me.chat, me.text) : /\ Go(t, [me EXCEPT !.pc = "begin", !.of = <<m.id, me.chat>>])
                                              /\ UNCHANGED <<messages, asked>>
        BY <1>3
    <2>2. m \in messages /\ m.chat = me.chat /\ m.role = "user"
        BY DEF Same, Of
    <2>3. m.of = <<m.id, me.chat>> /\ (m.of[1] # 0 => m.of \in asked)
        BY <2>2 DEF TurnInv, Placed, Pinned
    <2>9. PICK new : new = [me EXCEPT !.pc = "begin", !.of = <<m.id, me.chat>>]
        OBVIOUS
    <2>4. IsWork(new) /\ new.pc = "begin" /\ new.chat = me.chat /\ new.of = <<m.id, me.chat>>
        <3>1. new \in Contents("begin", me.chat, me.text, <<m.id, me.chat>>)
            BY <1>1, <2>9, Zenon DEF IsWork, Contents
        <3> QED BY <3>1, HoldsFacts
    <2> HIDE DEF me
    <2>5. WorkOK(new, Nothing, asked)
        BY <2>3, <2>4 DEF WorkOK, Pinned
    <2> QED BY <1>1, <2>1, <2>5, <2>9, OneThread DEF Go, me
<1>4. CASE /\ Go(t, [me EXCEPT !.pc = "begin", !.of = <<ids.message, me.chat>>])
           /\ Insert("user", me.chat, me.text, <<ids.message, me.chat>>)
           /\ asked' = asked \cup {<<ids.message, me.chat>>}
    <2>9. PICK new : new = [me EXCEPT !.pc = "begin", !.of = <<ids.message, me.chat>>]
        OBVIOUS
    <2> DEFINE row == [id |-> ids.message, chat |-> me.chat, role |-> "user", text |-> me.text,
                       of |-> <<ids.message, me.chat>>]
    <2>1. IsWork(new) /\ new.pc = "begin" /\ new.chat = me.chat /\ new.of = <<ids.message, me.chat>>
        <3>1. new \in Contents("begin", me.chat, me.text, <<ids.message, me.chat>>)
            BY <1>1, <2>9, Zenon DEF IsWork, Contents
        <3> QED BY <3>1, HoldsFacts
    <2>2. messages' \subseteq messages \cup {row}
        BY <1>4 DEF Insert
    <2>3. Placed(row, asked') /\ \A m \in messages : Placed(m, asked')
        BY <1>4 DEF Placed, Pinned, TurnInv
    <2> HIDE DEF me, row
    <2>4. WorkOK(new, Nothing, asked')
        BY <1>4, <2>1 DEF WorkOK, Pinned
    <2>5. running' = [running EXCEPT ![t] = Nothing]
        BY <1>1 DEF TurnInv
    <2> QED BY <1>4, <2>2, <2>3, <2>4, <2>5, <2>9 DEF ThreadStepOK, Go
<1> QED BY <1>3, <1>4 DEF Save

\* The turn is begun, taken up again, fails, ends, or is presumed dead.
LEMMA StepTurn ==
    ASSUME TurnInv, NEW t \in Threads,
           Begin(t) \/ ResumeIn(t) \/ ResumeOpen(t) \/ Fails(t) \/ End(t) \/ Age(t)
    PROVE  ThreadStepOK(t)
<1> DEFINE me == thread[t]
<1>0. IsWork(me) /\ WorkOK(me, running[t], asked) /\ asked' = asked /\ messages' \subseteq messages
    BY ThreadFacts DEF Begin, ResumeIn, ResumeOpen, Fails, End, Age
<1>1. CASE Begin(t)
    <2>9. PICK new : new = [me EXCEPT !.pc = "work"]
        OBVIOUS
    <2>1. IsWork(new) /\ new.pc = "work" /\ new.chat = me.chat /\ new.of = me.of
        BY <2>9, <1>0, PcFacts
    <2>2. /\ thread' = [thread EXCEPT ![t] = new] /\ running' = [running EXCEPT ![t] = me.chat]
          /\ me.pc = "begin"
        BY <1>1, <2>9 DEF Begin, Go, Stands
    <2> HIDE DEF me
    <2>3. WorkOK(new, me.chat, asked)
        BY <1>0, <2>1, <2>2 DEF WorkOK, Pinned
    <2> QED BY <1>0, <2>2, <2>3, OneThread
<1>2. CASE ResumeIn(t)
    <2>1. PICK qc \in asked :
              /\ thread' = [thread EXCEPT ![t] = [IdleThread EXCEPT !.pc = "work", !.chat = qc[2], !.of = qc]]
              /\ running' = [running EXCEPT ![t] = qc[2]]
        BY <1>2 DEF ResumeIn, Go
    <2>9. PICK new : new = [IdleThread EXCEPT !.pc = "work", !.chat = qc[2], !.of = qc]
        OBVIOUS
    <2>2. IsWork(new) /\ new.pc = "work" /\ new.chat = qc[2] /\ new.of = qc
        <3>1. new \in Contents("work", qc[2], IdleThread.text, qc)
            BY <2>9, IdleThreadFacts, Zenon DEF IsWork, Contents
        <3> QED BY <3>1, HoldsFacts
    <2>3. WorkOK(new, qc[2], asked)
        BY <2>2 DEF WorkOK, Pinned
    <2> QED BY <1>0, <2>1, <2>3, <2>9, OneThread
<1>3. CASE Fails(t)
    <2>9. PICK new : new = [me EXCEPT !.pc = "end"]
        OBVIOUS
    <2>1. IsWork(new) /\ new.pc = "end" /\ new.chat = me.chat /\ new.of = me.of
        BY <2>9, <1>0, PcFacts
    <2>2. thread' = [thread EXCEPT ![t] = new] /\ running' = running /\ me.pc = "work"
        BY <1>3, <2>9 DEF Fails, Go, Stands
    <2>3. WorkOK(new, running[t], asked)
        BY <1>0, <2>1, <2>2 DEF WorkOK, Pinned
    <2> QED BY <1>0, <2>2, <2>3, OneThread
<1>4. CASE End(t)
    <2>1. WorkOK(IdleThread, Nothing, asked)
        BY IdleThreadFacts DEF WorkOK
    <2> QED BY <1>0, <1>4, <2>1, OneThread DEF End, Go
<1>5. CASE Age(t)
    <2>1. WorkOK(me, Nothing, asked) /\ thread' = [thread EXCEPT ![t] = me]
        BY <1>0, <1>5 DEF WorkOK, Age, TurnInv
    <2> QED BY <1>0, <1>5, <2>1, OneThread DEF Age
<1>6. CASE ResumeOpen(t)
    <2>1. thread[t].pc = "idle" /\ running' = running /\ running[t] = Nothing
        BY <1>6, ThreadFacts DEF ResumeOpen, Stands
    <2>2. PICK new : new = [IdleThread EXCEPT !.pc = "begin", !.chat = current, !.of = <<0, current>>]
        OBVIOUS
    <2>3. thread' = [thread EXCEPT ![t] = new]
        BY <1>6, <2>2, Zenon DEF ResumeOpen, Go
    <2>4. IsWork(new) /\ new.pc = "begin" /\ new.chat = current /\ new.of = <<0, current>>
        <3>1. new \in Contents("begin", current, IdleThread.text, <<0, current>>)
            BY <2>2, IdleThreadFacts, Zenon DEF IsWork, Contents
        <3> QED BY <3>1, HoldsFacts
    <2>5. WorkOK(new, Nothing, asked)
        BY <2>4 DEF WorkOK, Pinned
    <2> QED BY <1>0, <2>1, <2>3, <2>5, OneThread
<1> QED BY <1>1, <1>2, <1>3, <1>4, <1>5, <1>6

\* The reply is written to the chat of the turn.
LEMMA StepAnswer ==
    ASSUME TurnInv, NEW t \in Threads, Answer(t)
    PROVE  ThreadStepOK(t)
<1> DEFINE me == thread[t]
           row == [id |-> ids.message, chat |-> me.chat, role |-> "ai", text |-> Nothing, of |-> me.of]
<1>9. PICK new : new = [me EXCEPT !.pc = "end"]
    OBVIOUS
<1>0. IsWork(me) /\ WorkOK(me, running[t], asked) /\ me.pc = "work" /\ asked' = asked
      /\ thread' = [thread EXCEPT ![t] = new] /\ running' = running
    BY <1>9, ThreadFacts DEF Answer, Go, Stands
<1>1. IsWork(new) /\ new.pc = "end" /\ new.chat = me.chat /\ new.of = me.of
    BY <1>0, <1>9, PcFacts
<1>2. messages' \subseteq messages \cup {row}
    BY DEF Answer, Insert
<1> HIDE DEF me
<1>3. Pinned(me, asked)
    BY <1>0 DEF WorkOK
<1>4. Placed(row, asked)
    BY <1>3 DEF Placed, Pinned
<1> HIDE DEF row
<1>5. WorkOK(new, running[t], asked)
    BY <1>0, <1>1 DEF WorkOK, Pinned
<1>6. running' = [running EXCEPT ![t] = running[t]]
    BY <1>0 DEF TurnInv
<1> QED BY <1>0, <1>2, <1>4, <1>5, <1>6 DEF ThreadStepOK, TurnInv

\* The threads begin idle, and a restart leaves them so.
LEMMA AllIdle ==
    ASSUME thread' = [t \in Threads |-> IdleThread], running' = [t \in Threads |-> Nothing],
           TurnInv, asked' = asked, messages' = messages
    PROVE  TurnInv'
<1>1. \A t \in Threads : WorkOK(thread'[t], running'[t], asked')
    BY IdleThreadFacts DEF WorkOK
<1> QED BY <1>1 DEF TurnInv

\* A turn keeps its question and the chat it was asked in (or, when the id it was
\* resumed by is no approval's, the chat that was open then); a message is in the
\* chat of its turn; and a token names the chat of the turn that holds it.
THEOREM TurnsArePinned == ChatsSpec => []TurnInv
<1>1. FirstBoot => TurnInv
    <2> SUFFICES ASSUME FirstBoot PROVE TurnInv
        OBVIOUS
    <2>1. \A t \in Threads : WorkOK(thread[t], running[t], asked)
        BY IdleThreadFacts DEF FirstBoot, WorkOK
    <2> QED BY <2>1 DEF FirstBoot, TurnInv
<1>2. TurnInv /\ [ChatsNext]_chatsVars => TurnInv'
    <2> SUFFICES ASSUME TurnInv, [ChatsNext]_chatsVars PROVE TurnInv'
        OBVIOUS
    <2>1. ASSUME NEW t \in Threads,
                 Begin(t) \/ ResumeIn(t) \/ ResumeOpen(t) \/ Fails(t) \/ End(t) \/ Age(t)
          PROVE  TurnInv'
        BY <2>1, StepTurn, ThreadKeepsInv
    <2>2. ASSUME NEW t \in Threads, Save(t) \/ Answer(t) PROVE TurnInv'
        BY <2>2, StepSave, StepAnswer, ThreadKeepsInv
    <2>3. ASSUME NEW t \in Threads,
                 AskIn(t) \/ CheckDuplicate(t) \/ New(t) \/ Switch(t) \/ Delete(t) \/ Wipe(t) \/ Manage(t)
          PROVE  TurnInv'
        BY <2>3, StepManage, ThreadKeepsInv
    <2>4. CASE Restart
        BY <2>4, AllIdle DEF Restart
    <2>5. CASE UNCHANGED chatsVars
        BY <2>5 DEF chatsVars, TurnInv
    <2> QED BY <2>1, <2>2, <2>3, <2>4, <2>5 DEF ChatsNext, Turn
<1> QED BY <1>1, <1>2, PTL DEF ChatsSpec

\* A chat is shown as pending only for a turn of its own that is being worked on.
THEOREM TypingHolds == ChatsSpec => []TypingIsTrue
<1>1. TurnInv => TypingIsTrue
    BY DEF TurnInv, WorkOK, TypingIsTrue, Stands
<1> QED BY <1>1, TurnsArePinned, PTL

-------------------------------------------------------------------------------
(* Ids are new.  The reply of a turn whose chat was deleted carries the id of *)
(* its question; it can be seen only in the chat the question was asked in,   *)
(* and that chat is not given out again: every id that is in use, in the      *)
(* list, as the current chat, in the hand of a thread or of a question, was   *)
(* given out before, and a chat is asked nothing before it is made.           *)

\* The chats that were given out, and what was asked in them.
Given(i) == 1 .. i.chat - 1
IdsOK(i) ==
    /\ i \in [message : Nat, chat : 2..LastChat + 1, since : [Ids -> Nat]]
    /\ \A c \in Given(i) : c # 1 => i.since[c] <= i.message
Later(q, i) == q[1] \in Nat /\ q[2] \in Given(i) /\ (q[2] # 1 => q[1] >= i.since[q[2]])
Picks(r, i) == r.pc \in {"check", "save", "made", "set"} => r.chat \in Given(i)

IdsInv ==
    /\ IdsOK(ids) /\ chats \in Seq(Given(ids)) /\ current \in Given(ids)
    /\ \A t \in Threads : Picks(thread[t], ids)
    /\ \A q \in asked : Later(q, ids)

\* What a step makes of the ids: a message, a chat, or chat 1 anew.
Message == ids' = [ids EXCEPT !.message = @ + 1]
Fresh == ids.chat <= LastChat
         /\ ids' = [ids EXCEPT !.chat = @ + 1, !.since[ids.chat] = ids.message]
Again == ids' = [ids EXCEPT !.since[1] = ids.message]

LEMMA IdsFacts ==
    ASSUME IdsOK(ids)
    PROVE  /\ ids.message \in Nat /\ ids.chat \in 2..LastChat + 1 /\ ids.since \in [Ids -> Nat]
           /\ LastChat \in Nat \ {0} /\ Given(ids) \subseteq Ids /\ 1 \in Given(ids)
<1>1. ids \in [message : Nat, chat : 2..LastChat + 1, since : [Ids -> Nat]]
    BY DEF IdsOK
<1>2. ids.message \in Nat /\ ids.chat \in 2..LastChat + 1 /\ ids.since \in [Ids -> Nat]
    BY <1>1, Zenon
<1> QED BY <1>2, ConversationsAssumption DEF Given, Ids

\* The ids stay sound, no chat is taken back, and no question is overtaken.
LEMMA IdsMove ==
    ASSUME IdsOK(ids), ids' = ids \/ Message \/ Fresh \/ Again
    PROVE  /\ IdsOK(ids') /\ Given(ids) \subseteq Given(ids')
           /\ \A q : Later(q, ids) => Later(q, ids')
           /\ Fresh => ids.chat \in Given(ids')
<1> DEFINE m == ids'.message
           n == ids'.chat
           s == ids'.since
           R == [message : Nat, chat : 2..LastChat + 1, since : [Ids -> Nat]]
<1>0. /\ ids.message \in Nat /\ ids.chat \in 2..LastChat + 1 /\ ids.since \in [Ids -> Nat]
      /\ LastChat \in Nat \ {0} /\ Given(ids) \subseteq Ids /\ 1 \in Given(ids) /\ ids \in R
    BY IdsFacts DEF IdsOK
<1>1. \/ /\ ids' \in R /\ n = ids.chat /\ s = ids.since /\ m \in {ids.message, ids.message + 1}
      \/ /\ Fresh /\ ids' \in R /\ n = ids.chat + 1 /\ m = ids.message
         /\ s = [ids.since EXCEPT ![ids.chat] = ids.message]
      \/ /\ ids' \in R /\ n = ids.chat /\ m = ids.message
         /\ s = [ids.since EXCEPT ![1] = ids.message]
    <2>1. CASE ids' = ids
        BY <1>0, <2>1
    <2>2. CASE Message
        <3> DEFINE k == ids.message + 1
        <3>1. k \in Nat
            BY <1>0
        <3>2. ids' = [ids EXCEPT !.message = k]
            BY <2>2 DEF Message
        <3> HIDE DEF k
        <3>3. ids' \in R /\ m = k /\ n = ids.chat /\ s = ids.since
            BY <1>0, <3>1, <3>2, Zenon
        <3> QED BY <3>3 DEF k
    <2>3. CASE Fresh
        <3> DEFINE k == ids.chat + 1
                   f == [ids.since EXCEPT ![ids.chat] = ids.message]
        <3>1. k \in 2..LastChat + 1 /\ f \in [Ids -> Nat]
            BY <1>0, <2>3 DEF Fresh, Ids
        <3>2. ids' = [ids EXCEPT !.chat = k, !.since = f]
            BY <2>3 DEF Fresh
        <3> HIDE DEF k, f
        <3>3. ids' \in R /\ m = ids.message /\ n = k /\ s = f
            BY <1>0, <3>1, <3>2, Zenon
        <3> QED BY <2>3, <3>3 DEF k, f
    <2>4. CASE Again
        <3> DEFINE f == [ids.since EXCEPT ![1] = ids.message]
        <3>1. f \in [Ids -> Nat]
            BY <1>0
        <3>2. ids' = [ids EXCEPT !.since = f]
            BY <2>4 DEF Again
        <3> HIDE DEF f
        <3>3. ids' \in R /\ m = ids.message /\ n = ids.chat /\ s = f
            BY <1>0, <3>1, <3>2, Zenon
        <3> QED BY <3>3 DEF f
    <2> QED BY <2>1, <2>2, <2>3, <2>4
<1>2. ids' \in R /\ (Fresh => n = ids.chat + 1)
    BY <1>1 DEF Fresh
<1>3. m \in Nat /\ n \in 2..LastChat + 1 /\ s \in [Ids -> Nat]
    BY <1>2, Zenon
<1>4. Given(ids) = 1 .. ids.chat - 1 /\ Given(ids') = 1 .. n - 1
    BY DEF Given
<1>5. \A c \in Given(ids) : c # 1 => ids.since[c] <= ids.message
    BY DEF IdsOK
<1> DEFINE old == ids.message
           top == ids.chat
           since == ids.since
<1>6. old \in Nat /\ top \in 2..LastChat + 1 /\ since \in [Ids -> Nat] /\ LastChat \in Nat \ {0}
    BY <1>0
<1>7. \/ n = top /\ s = since /\ m \in {old, old + 1}
      \/ top <= LastChat /\ n = top + 1 /\ m = old /\ s = [since EXCEPT ![top] = old]
      \/ n = top /\ m = old /\ s = [since EXCEPT ![1] = old]
    BY <1>1 DEF Fresh
<1>8. \A c \in 1 .. top - 1 : c # 1 => since[c] <= old
    BY <1>4, <1>5
<1> HIDE DEF m, n, s, R, old, top, since
<1>9. \A c \in 1 .. top - 1 : c \in 1 .. n - 1 /\ (c # 1 => s[c] = since[c])
    BY <1>3, <1>6, <1>7 DEF Ids
<1>10. \A c \in 1 .. n - 1 : c # 1 => s[c] <= m
    BY <1>3, <1>6, <1>7, <1>8 DEF Ids
<1>11. IdsOK(ids')
    BY <1>2, <1>4, <1>10 DEF IdsOK, R, s, m
<1>12. \A q : Later(q, ids) => Later(q, ids')
    BY <1>4, <1>9 DEF Later, s, since, top
<1>13. Given(ids) \subseteq Given(ids') /\ (Fresh => ids.chat \in Given(ids'))
    BY <1>2, <1>3, <1>4, <1>6, <1>9 DEF top
<1> QED BY <1>11, <1>12, <1>13

\* A nonempty set of numbers has a smallest one, and Min is it.
LEMMA Smallest ==
    ASSUME NEW S \in SUBSET Nat, S # {}
    PROVE  Min(S) \in S
<1> DEFINE R == OpToRel(<, Nat)
<1>1. IsWellFoundedOn(R, Nat)
    BY NatLessThanWellFounded
<1>2. R = {pair \in Nat \X Nat : pair[1] < pair[2]}
    BY DEF OpToRel
<1> HIDE DEF R
<1>3. PICK m \in S : \A j \in S : ~(<<j, m>> \in R)
    BY <1>1, WFMin
<1>4. \A j \in S : ~(j < m)
    BY <1>2, <1>3
<1>5. \A j \in S : m <= j
    BY <1>4
<1> QED BY <1>5 DEF Min

\* What is taken out of a list leaves a list of the same.
LEMMA Shorter ==
    ASSUME NEW S, NEW list \in Seq(S), NEW e
    PROVE  RemoveFirst(list, e) \in Seq(S)
<1> DEFINE I == {i \in 1..Len(list) : list[i] = e}
           k == Min(I)
<1>1. CASE I = {}
    BY <1>1 DEF RemoveFirst
<1>2. CASE I # {}
    <2>1. k \in I
        <3>1. I \in SUBSET Nat
            OBVIOUS
        <3> HIDE DEF I
        <3> QED BY <1>2, <3>1, Smallest
    <2>2. RemoveFirst(list, e) = RemoveAt(list, SelectInSeq(list, LAMBDA v : v = e))
        BY <1>2 DEF RemoveFirst
    <2>9. SelectInSeq(list, LAMBDA v : v = e) = k
        BY <1>2 DEF SelectInSeq
    <2>10. RemoveFirst(list, e) = SubSeq(list, 1, k - 1) \o SubSeq(list, k + 1, Len(list))
        BY <2>2, <2>9 DEF RemoveAt
    <2>3. k \in 1..Len(list) /\ Len(list) \in Nat /\ \A i \in 1..Len(list) : list[i] \in S
        BY <2>1
    <2> HIDE DEF k
    <2>4. SubSeq(list, 1, k - 1) \in Seq(S)
        <3>1. \A i \in 1 .. k - 1 : list[i] \in S
            BY <2>3
        <3> QED BY <2>3, <3>1, SubSeqProperties
    <2>5. SubSeq(list, k + 1, Len(list)) \in Seq(S)
        <3>1. \A i \in k + 1 .. Len(list) : list[i] \in S
            BY <2>3
        <3> QED BY <2>3, <3>1, SubSeqProperties
    <2> QED BY <2>10, <2>4, <2>5, ConcatProperties
<1> QED BY <1>1, <1>2

\* A chat that is touched, deleted or pruned leaves chats that were given out.
LEMMA ListKept ==
    ASSUME IdsInv, NEW t \in Threads
    PROVE  /\ \A c : Touch(c) => chats' \in Seq(Given(ids))
           /\ \A c : RemoveFirst(chats, c) \in Seq(Given(ids))
           /\ Prune(t) => chats' \in Seq(Given(ids))
<1> DEFINE S == Given(ids)
<1>1. chats \in Seq(S) /\ current \in S
    BY DEF IdsInv
<1> HIDE DEF S
<1>2. ASSUME NEW c PROVE RemoveFirst(chats, c) \in Seq(S)
    BY <1>1, Shorter
<1>3. ASSUME NEW c, Touch(c) PROVE chats' \in Seq(S)
    <2>1. CASE Contains(chats, c)
        <3>1. c \in S
            BY <1>1, <2>1 DEF Contains
        <3> QED BY <1>2, <1>3, <2>1, <3>1, AppendProperties DEF Touch
    <2>2. CASE ~Contains(chats, c)
        BY <1>1, <1>3, <2>2 DEF Touch
    <2> QED BY <2>1, <2>2
<1>4. ASSUME Prune(t) PROVE chats' \in Seq(S)
    <2>1. CASE Excess <= 0
        BY <1>1, <1>4, <2>1 DEF Prune
    <2>2. CASE ~(Excess <= 0)
        <3> DEFINE n == Excess
        <3>1. n \in Int /\ n > 0 /\ Len(chats) \in Nat /\ \A i \in 1..Len(chats) : chats[i] \in S
            BY <1>1, <2>2, ConversationsAssumption DEF Excess
        <3>2. \/ chats' = <<current>> \o SubSeq(chats, n + 2, Len(chats))
              \/ chats' = SubSeq(chats, n + 1, Len(chats))
            BY <1>4, <2>2 DEF Prune
        <3> HIDE DEF n
        <3>3. ASSUME NEW k \in Int, k > 0 PROVE SubSeq(chats, k, Len(chats)) \in Seq(S)
            <4>1. \A i \in k .. Len(chats) : chats[i] \in S
                BY <3>1, <3>3
            <4> QED BY <3>1, <4>1, SubSeqProperties
        <3>4. SubSeq(chats, n + 2, Len(chats)) \in Seq(S) /\ SubSeq(chats, n + 1, Len(chats)) \in Seq(S)
            BY <3>1, <3>3
        <3>5. <<current>> \in Seq(S)
            BY <1>1
        <3> QED BY <3>2, <3>4, <3>5, ConcatProperties
    <2> QED BY <2>1, <2>2
<1> QED BY <1>2, <1>3, <1>4 DEF S

\* Records that a thread is given.
LEMMA ChatFacts ==
    ASSUME NEW pc, NEW chat, NEW new, new = [IdleThread EXCEPT !.pc = pc, !.chat = chat]
    PROVE  new.pc = pc /\ new.chat = chat
<1>1. new \in Contents(pc, chat, IdleThread.text, IdleThread.of)
    BY IdleThreadFacts, Zenon DEF IsWork, Contents
<1> QED BY <1>1, HoldsFacts

LEMMA QuestionFacts ==
    ASSUME NEW r, NEW pc, NEW of, NEW new, IsWork(r), new = [r EXCEPT !.pc = pc, !.of = of]
    PROVE  new.pc = pc
<1>1. new \in Contents(pc, r.chat, r.text, of)
    BY Zenon DEF IsWork, Contents
<1> QED BY <1>1, HoldsFacts

\* What a step makes of the ids, the list, and what its thread has picked.
PickOK(t) ==
    /\ ids' = ids \/ Message \/ Fresh \/ Again
    /\ chats' \in Seq(Given(ids')) /\ current' \in Given(ids')
    /\ asked' = asked \/ \E c \in Given(ids) : asked' = asked \cup {<<ids.message, c>>}
    /\ \E new : thread' = [thread EXCEPT ![t] = new] /\ Picks(new, ids')

LEMMA PickKeepsIds ==
    ASSUME TurnInv, IdsInv, NEW t \in Threads, PickOK(t)
    PROVE  IdsInv'
<1>1. /\ IdsOK(ids') /\ Given(ids) \subseteq Given(ids')
      /\ \A q : Later(q, ids) => Later(q, ids')
    BY IdsMove DEF IdsInv, PickOK
<1>2. ids.message \in Nat /\ \A c \in Given(ids) : c # 1 => ids.since[c] <= ids.message
    BY IdsFacts DEF IdsInv, IdsOK
<1>3. \A q \in asked' : Later(q, ids')
    <2>1. \A c \in Given(ids) : Later(<<ids.message, c>>, ids)
        <3> TAKE c \in Given(ids)
        <3>1. c \in Int
            BY IdsFacts DEF IdsInv, Given
        <3>2. c # 1 => ids.since[c] \in Nat
            BY IdsFacts DEF IdsInv
        <3> QED BY <1>2, <3>1, <3>2 DEF Later
    <2>2. \A q \in asked : Later(q, ids)
        BY DEF IdsInv
    <2> QED BY <1>1, <2>1, <2>2 DEF PickOK
<1>4. \A u \in Threads : Picks(thread'[u], ids')
    <2>1. PICK new : thread' = [thread EXCEPT ![t] = new] /\ Picks(new, ids')
        BY DEF PickOK
    <2>2. \A u \in Threads : thread'[u] = IF u = t THEN new ELSE thread[u]
        BY <2>1 DEF TurnInv
    <2>3. \A u \in Threads : Picks(thread[u], ids')
        BY <1>1 DEF IdsInv, Picks
    <2> QED BY <2>1, <2>2, <2>3
<1> QED BY <1>1, <1>3, <1>4 DEF IdsInv, PickOK

\* A step that leaves the ids and the current chat, and gives a record.
LEMMA PickSame ==
    ASSUME IdsInv, NEW t \in Threads, NEW new, Go(t, new), Picks(new, ids),
           UNCHANGED <<ids, asked, current>>, chats' \in Seq(Given(ids))
    PROVE  PickOK(t)
BY DEF PickOK, Go, IdsInv

\* The turns.
LEMMA PickTurn ==
    ASSUME TurnInv, IdsInv, NEW t \in Threads,
           AskIn(t) \/ ResumeIn(t) \/ ResumeOpen(t) \/ Turn(t) \/ Age(t)
    PROVE  PickOK(t)
<1> DEFINE me == thread[t]
<1>1. IsWork(me) /\ Picks(me, ids) /\ chats \in Seq(Given(ids)) /\ current \in Given(ids)
    BY ThreadFacts DEF IdsInv
<1>2. Picks(IdleThread, ids)
    BY IdleThreadFacts DEF Picks
<1>3. CASE AskIn(t)
    <2>1. PICK text \in Texts : Go(t, [IdleThread EXCEPT !.pc = "check", !.chat = current, !.text = text])
        BY <1>3, Zenon DEF AskIn
    <2>2. PICK new : new = [IdleThread EXCEPT !.pc = "check", !.chat = current, !.text = text]
        OBVIOUS
    <2>3. Go(t, new)
        BY <2>1, <2>2, Zenon
    <2>4. new.pc = "check" /\ new.chat = current
        <3>1. new \in Contents("check", current, text, IdleThread.of)
            BY <2>2, IdleThreadFacts, Zenon DEF IsWork, Contents
        <3> QED BY <3>1, HoldsFacts
    <2> QED BY <1>1, <1>3, <2>3, <2>4, PickSame DEF AskIn, Picks
<1>4. CASE CheckDuplicate(t)
    <2>1. PICK new : new = [me EXCEPT !.pc = "save"]
        OBVIOUS
    <2>2. new.pc = "save" /\ new.chat = me.chat /\ me.pc = "check"
        BY <1>1, <1>4, <2>1, PcFacts DEF CheckDuplicate, Stands
    <2>3. Go(t, IdleThread) \/ Go(t, new)
        BY <1>4, <2>1, Zenon DEF CheckDuplicate
    <2> HIDE DEF me
    <2>4. Picks(new, ids)
        BY <1>1, <2>2 DEF Picks
    <2> QED BY <1>1, <1>2, <1>4, <2>3, <2>4, PickSame DEF CheckDuplicate
<1>5. CASE Save(t)
    <2>1. me.pc = "save" /\ me.chat \in Given(ids) /\ current' = current
        BY <1>1, <1>5 DEF Save, Stands, Picks
    <2>2. ASSUME NEW of, Go(t, [me EXCEPT !.pc = "begin", !.of = of])
          PROVE  \E new : thread' = [thread EXCEPT ![t] = new] /\ Picks(new, ids')
        <3>1. PICK new : new = [me EXCEPT !.pc = "begin", !.of = of]
            OBVIOUS
        <3>2. new.pc = "begin"
            BY <1>1, <3>1, QuestionFacts
        <3>3. Go(t, new)
            BY <2>2, <3>1, Zenon
        <3> QED BY <3>2, <3>3 DEF Go, Picks
    <2>3. CASE UNCHANGED <<chats, ids, asked>> /\ \E of : Go(t, [me EXCEPT !.pc = "begin", !.of = of])
        BY <1>1, <2>1, <2>2, <2>3 DEF PickOK
    <2>4. CASE /\ Message /\ Go(t, [me EXCEPT !.pc = "begin", !.of = <<ids.message, me.chat>>])
               /\ Touch(me.chat) /\ asked' = asked \cup {<<ids.message, me.chat>>}
        <3>1. Given(ids') = Given(ids) \/ Given(ids) \subseteq Given(ids')
            BY <2>4, IdsMove DEF IdsInv
        <3>2. chats' \in Seq(Given(ids)) /\ chats' \in Seq(Given(ids')) /\ current' \in Given(ids')
            BY <1>1, <2>1, <2>4, <3>1, ListKept
        <3> QED BY <2>1, <2>2, <2>4, <3>2 DEF PickOK
    <2> QED BY <1>5, <2>3, <2>4 DEF Save, Message
<1>6. CASE Begin(t) \/ Fails(t)
    <2>1. PICK pc \in {"work", "end"} : Go(t, [me EXCEPT !.pc = pc])
        BY <1>6 DEF Begin, Fails
    <2>2. PICK new : new = [me EXCEPT !.pc = pc]
        OBVIOUS
    <2>3. new.pc = pc /\ Go(t, new)
        BY <1>1, <2>1, <2>2, PcFacts
    <2> QED BY <1>1, <1>6, <2>3, PickSame DEF Begin, Fails, Picks
<1>7. CASE ResumeIn(t)
    <2>1. PICK qc \in asked : Go(t, [IdleThread EXCEPT !.pc = "work", !.chat = qc[2], !.of = qc])
        BY <1>7 DEF ResumeIn
    <2>2. PICK new : new = [IdleThread EXCEPT !.pc = "work", !.chat = qc[2], !.of = qc]
        OBVIOUS
    <2>3. new.pc = "work" /\ Go(t, new)
        <3>1. new \in Contents("work", qc[2], IdleThread.text, qc)
            BY <2>2, IdleThreadFacts, Zenon DEF IsWork, Contents
        <3> QED BY <2>1, <2>2, <3>1, HoldsFacts
    <2> QED BY <1>1, <1>7, <2>3, PickSame DEF ResumeIn, Picks
<1>8. CASE Answer(t)
    <2>1. PICK new : new = [me EXCEPT !.pc = "end"]
        OBVIOUS
    <2>2. new.pc = "end" /\ Go(t, new)
        BY <1>1, <1>8, <2>1, PcFacts DEF Answer
    <2>3. Message /\ Touch(me.chat) /\ UNCHANGED <<current, asked>>
        BY <1>8 DEF Answer, Message
    <2>4. Given(ids) \subseteq Given(ids')
        BY <2>3, IdsMove DEF IdsInv
    <2>5. chats' \in Seq(Given(ids)) /\ chats' \in Seq(Given(ids')) /\ current' \in Given(ids')
        BY <1>1, <2>3, <2>4, ListKept
    <2> QED BY <2>2, <2>3, <2>5 DEF PickOK, Go, Picks
<1>9. CASE End(t)
    BY <1>1, <1>2, <1>9, PickSame DEF End
<1>10. CASE Age(t)
    <2>1. thread' = [thread EXCEPT ![t] = me]
        BY <1>10 DEF Age, TurnInv
    <2> QED BY <1>1, <1>10, <2>1 DEF Age, PickOK
<1>11. CASE ResumeOpen(t)
    <2>1. PICK new : new = [IdleThread EXCEPT !.pc = "begin", !.chat = current, !.of = <<0, current>>]
        OBVIOUS
    <2>2. new.pc = "begin"
        <3>1. new \in Contents("begin", current, IdleThread.text, <<0, current>>)
            BY <2>1, IdleThreadFacts, Zenon DEF IsWork, Contents
        <3> QED BY <3>1, HoldsFacts
    <2>3. Go(t, new)
        BY <1>11, <2>1, Zenon DEF ResumeOpen
    <2> QED BY <1>1, <1>11, <2>2, <2>3, PickSame DEF ResumeOpen, Picks
<1> QED BY <1>3, <1>4, <1>5, <1>6, <1>7, <1>8, <1>9, <1>10, <1>11 DEF Turn

\* Where a list of the given chats goes on after a chat was made.
LEMMA MakePicks ==
    ASSUME TurnInv, IdsInv, NEW t \in Threads, Make(t), current' = current, asked' = asked
    PROVE  PickOK(t)
<1>1. Fresh /\ NewId(chats) = ids.chat /\ chats' = Append(chats, ids.chat)
      /\ Go(t, [IdleThread EXCEPT !.pc = "made", !.chat = ids.chat])
    BY DEF Make, Fresh, NewId
<1>2. /\ Given(ids) \subseteq Given(ids') /\ ids.chat \in Given(ids')
      /\ chats \in Seq(Given(ids)) /\ current \in Given(ids)
    BY <1>1, IdsMove DEF IdsInv
<1>3. chats' \in Seq(Given(ids')) /\ current' \in Given(ids')
    <2>1. chats \in Seq(Given(ids'))
        BY <1>2
    <2> QED BY <1>1, <1>2, <2>1, AppendProperties
<1>4. PICK new : new = [IdleThread EXCEPT !.pc = "made", !.chat = ids.chat]
    OBVIOUS
<1>5. new.pc = "made" /\ new.chat = ids.chat
    <2>1. new \in Contents("made", ids.chat, IdleThread.text, IdleThread.of)
        BY <1>4, IdleThreadFacts, Zenon DEF IsWork, Contents
    <2> QED BY <2>1, HoldsFacts
<1>7. thread' = [thread EXCEPT ![t] = new]
    BY <1>1, <1>4, Zenon DEF Go
<1>6. Picks(new, ids')
    BY <1>2, <1>5 DEF Picks
<1> QED BY <1>1, <1>3, <1>6, <1>7 DEF PickOK

\* The routes of the conversations.
LEMMA PickManage ==
    ASSUME TurnInv, IdsInv, NEW t \in Threads,
           New(t) \/ Switch(t) \/ Delete(t) \/ Wipe(t) \/ Manage(t)
    PROVE  PickOK(t)
<1>1. Picks(thread[t], ids) /\ chats \in Seq(Given(ids)) /\ current \in Given(ids)
    BY DEF IdsInv
<1>2. Picks(IdleThread, ids)
    BY IdleThreadFacts DEF Picks
<1>3. ASSUME NEW pc, NEW c \in Given(ids), Go(t, [IdleThread EXCEPT !.pc = pc, !.chat = c])
      PROVE  \E new : Go(t, new) /\ Picks(new, ids)
    <2>1. PICK new : new = [IdleThread EXCEPT !.pc = pc, !.chat = c]
        OBVIOUS
    <2>2. new.chat = c
        <3>1. new \in Contents(pc, c, IdleThread.text, IdleThread.of)
            BY <2>1, IdleThreadFacts, Zenon DEF IsWork, Contents
        <3> QED BY <3>1, HoldsFacts
    <2>3. Go(t, new)
        BY <1>3, <2>1, Zenon
    <2> QED BY <2>2, <2>3 DEF Picks
<1>4. ASSUME NEW pc \in {"prune", "wiped"}, Go(t, [IdleThread EXCEPT !.pc = pc])
      PROVE  \E new : Go(t, new) /\ Picks(new, ids)
    <2>1. PICK new : new = [IdleThread EXCEPT !.pc = pc]
        OBVIOUS
    <2>2. new.pc = pc
        BY <2>1, IdleThreadFacts, PcFacts
    <2>3. Go(t, new)
        BY <1>4, <2>1, Zenon
    <2> QED BY <2>2, <2>3 DEF Picks
<1>5. \A c \in ToSet(chats) : c \in Given(ids)
    BY <1>1 DEF ToSet
<1>6. CASE New(t)
    BY <1>6, MakePicks DEF New
<1>7. CASE Switch(t)
    <2>1. PICK c \in ToSet(chats) : Go(t, [IdleThread EXCEPT !.pc = "set", !.chat = c])
        BY <1>7 DEF Switch
    <2>2. \E new : Go(t, new) /\ Picks(new, ids)
        BY <1>3, <1>5, <2>1
    <2> QED BY <1>1, <1>7, <2>2, PickSame DEF Switch
<1>8. CASE Delete(t)
    <2>1. PICK c \in ToSet(chats) : /\ chats' = RemoveFirst(chats, c)
                                    /\ Go(t, [IdleThread EXCEPT !.pc = "next", !.chat = c])
        BY <1>8 DEF Delete
    <2>2. \E new : Go(t, new) /\ Picks(new, ids)
        BY <1>3, <1>5, <2>1
    <2>3. chats' \in Seq(Given(ids))
        BY <2>1, ListKept
    <2> QED BY <1>8, <2>2, <2>3, PickSame DEF Delete
<1>9. CASE Wipe(t)
    <2>1. \E new : Go(t, new) /\ Picks(new, ids)
        BY <1>4, <1>9 DEF Wipe
    <2> QED BY <1>9, <2>1, PickSame DEF Wipe
<1>10. CASE Set(t)
    <2>1. thread[t].chat \in Given(ids) /\ current' = thread[t].chat /\ UNCHANGED <<chats, ids, asked>>
        BY <1>1, <1>10 DEF Set, Stands, Picks
    <2>2. \E new : Go(t, new) /\ Picks(new, ids)
        BY <1>2, <1>4, <1>10 DEF Set
    <2> QED BY <1>1, <2>1, <2>2 DEF PickOK, Go
<1>11. CASE Prune(t)
    <2>1. chats' \in Seq(Given(ids))
        BY <1>11, ListKept
    <2> QED BY <1>2, <1>11, <2>1, PickSame DEF Prune
<1>12. CASE Succeed(t)
    <2>1. CASE Make(t)
        BY <1>12, <2>1, MakePicks DEF Succeed
    <2>2. CASE UNCHANGED <<chats, ids>> /\ Go(t, IdleThread)
        BY <1>1, <1>2, <1>12, <2>2, PickSame DEF Succeed
    <2>3. CASE /\ UNCHANGED <<chats, ids>>
               /\ \E c \in Given(ids) : Go(t, [IdleThread EXCEPT !.pc = "set", !.chat = c])
        <3>1. \E new : Go(t, new) /\ Picks(new, ids)
            BY <1>3, <2>3
        <3> QED BY <1>1, <1>12, <2>3, <3>1, PickSame DEF Succeed
    <2>4. chats # <<>> => Last(chats) \in Given(ids)
        BY <1>1 DEF Last
    <2> QED BY <1>1, <1>12, <2>1, <2>2, <2>3, <2>4 DEF Succeed
<1>13. CASE Refill(t)
    <2>1. CASE UNCHANGED <<chats, current, ids>>
        BY <1>1, <1>2, <1>13, <2>1, PickSame DEF Refill
    <2>2. CASE chats' = Append(chats, 1) /\ current' = 1 /\ Again
        <3>1. 1 \in Given(ids) /\ 1 \in Given(ids')
            BY <2>2, IdsFacts, IdsMove DEF IdsInv
        <3>2. chats' \in Seq(Given(ids)) /\ chats' \in Seq(Given(ids'))
            <4>1. chats \in Seq(Given(ids'))
                BY <1>1, <2>2, IdsMove DEF IdsInv
            <4> QED BY <1>1, <2>2, <3>1, <4>1, AppendProperties
        <3>3. Picks(IdleThread, ids')
            BY IdleThreadFacts DEF Picks
        <3> QED BY <1>13, <2>2, <3>1, <3>2, <3>3 DEF Refill, PickOK, Go
    <2> QED BY <1>13, <2>1, <2>2 DEF Refill, Again
<1> QED BY <1>6, <1>7, <1>8, <1>9, <1>10, <1>11, <1>12, <1>13 DEF Manage

\* A restart makes chat 1 again when it is gone.
LEMMA RestartKeepsIds ==
    ASSUME IdsInv, Restart
    PROVE  IdsInv'
<1>1. ids' = ids \/ Again
    BY DEF Restart, Again
<1>2. /\ IdsOK(ids') /\ Given(ids) \subseteq Given(ids')
      /\ \A q : Later(q, ids) => Later(q, ids')
    BY <1>1, IdsMove DEF IdsInv
<1>3. 1 \in Given(ids') /\ chats \in Seq(Given(ids')) /\ current' \in Given(ids')
    <2>1. 1 \in Given(ids) /\ chats \in Seq(Given(ids)) /\ current \in Given(ids)
        BY IdsFacts DEF IdsInv
    <2>2. current' = current
        BY DEF Restart
    <2> QED BY <1>2, <2>1, <2>2
<1>4. chats' \in Seq(Given(ids'))
    BY <1>3, AppendProperties DEF Restart
<1>5. \A t \in Threads : Picks(thread'[t], ids')
    BY IdleThreadFacts DEF Restart, Picks
<1> QED BY <1>2, <1>3, <1>4, <1>5 DEF IdsInv, Restart

LEMMA IdsInvariant == ChatsSpec => []IdsInv
<1>1. FirstBoot => IdsInv
    <2> SUFFICES ASSUME FirstBoot PROVE IdsInv
        OBVIOUS
    <2> DEFINE f == [c \in Ids |-> 1]
    <2>1. f \in [Ids -> Nat] /\ LastChat \in Nat \ {0} /\ ids = [message |-> 1, chat |-> 2, since |-> f]
        BY ConversationsAssumption DEF FirstBoot
    <2> HIDE DEF f
    <2>2. ids.chat = 2 /\ ids.message = 1
        BY <2>1
    <2>3. Given(ids) = {1} /\ 2 \in 2..LastChat + 1
        BY <2>1, <2>2 DEF Given
    <2>4. ids \in [message : Nat, chat : 2..LastChat + 1, since : [Ids -> Nat]]
        BY <2>1, <2>3
    <2>5. IdsOK(ids)
        BY <2>3, <2>4 DEF IdsOK
    <2>6. \A t \in Threads : Picks(thread[t], ids)
        BY IdleThreadFacts DEF FirstBoot, Picks
    <2>7. chats \in Seq(Given(ids)) /\ current \in Given(ids) /\ asked = {}
        BY <2>3 DEF FirstBoot
    <2> QED BY <2>5, <2>6, <2>7 DEF IdsInv
<1>2. TurnInv /\ IdsInv /\ [ChatsNext]_chatsVars => IdsInv'
    <2> SUFFICES ASSUME TurnInv, IdsInv, [ChatsNext]_chatsVars PROVE IdsInv'
        OBVIOUS
    <2>1. ASSUME NEW t \in Threads, AskIn(t) \/ ResumeIn(t) \/ ResumeOpen(t) \/ Turn(t) \/ Age(t)
          PROVE  IdsInv'
        BY <2>1, PickTurn, PickKeepsIds
    <2>2. ASSUME NEW t \in Threads, New(t) \/ Switch(t) \/ Delete(t) \/ Wipe(t) \/ Manage(t)
          PROVE  IdsInv'
        BY <2>2, PickManage, PickKeepsIds
    <2>3. CASE Restart
        BY <2>3, RestartKeepsIds
    <2>4. CASE UNCHANGED chatsVars
        BY <2>4 DEF chatsVars, IdsInv
    <2> QED BY <2>1, <2>2, <2>3, <2>4 DEF ChatsNext
<1> QED BY <1>1, <1>2, TurnsArePinned, PTL DEF ChatsSpec

\* Whatever is opened, deleted, pruned, cleared or restarted while a turn works, its
\* reply stays where it was asked for, and no later chat shows it; the reply to an
\* id that is no approval's stays in the chat that was open when the id came in.
THEOREM RepliesStay == ChatsSpec => []RepliesStayPut
<1>1. TurnInv /\ IdsInv => RepliesStayPut
    <2> SUFFICES ASSUME TurnInv, IdsInv PROVE RepliesStayInTheirChat /\ StrayRepliesStayHidden
        BY DEF RepliesStayPut
    <2>1. \A m \in messages : m.of[2] = m.chat /\ (m.of[1] # 0 => m.of \in asked)
        BY DEF TurnInv, Placed, Pinned
    <2>2. \A q \in asked : q[2] # 1 => q[1] >= ids.since[q[2]]
        BY DEF IdsInv, Later
    <2>3. \A m \in messages : m.of[1] # 0 /\ m.chat # 1 => m.of[1] >= ids.since[m.chat]
        BY <2>1, <2>2
    <2> QED BY <2>1, <2>3 DEF RepliesStayInTheirChat, StrayRepliesStayHidden, Answers
<1> QED BY <1>1, TurnsArePinned, IdsInvariant, PTL
===============================================================================
