-------------------------- MODULE HostApproval_proof --------------------------
(***************************************************************************)
(* Proofs about HostApproval: its types, the claim that makes an execution *)
(* exclusive, exactly-once execution, that it implements ApprovalProtocol, *)
(* that pruning keeps every open request, and that the list, the table and *)
(* the transcript agree.                                                   *)
(***************************************************************************)
EXTENDS HostApproval, TLAPS, WellFoundedInduction, SequenceTheorems

(***************************************************************************)
(* Types of the part the claim depends on.                                 *)
(***************************************************************************)

LEMMA AnswersInit == Init => AnswersOK
BY ApprovalAssumption
   DEF Init, ProtocolInit, AnswersOK, Statuses, Labels, Holding, Executing, Terminal

\* A thread that moves and may take up a request keeps the types.
LEMMA MoveTyped ==
    ASSUME AnswersOK, NEW t \in Threads, NEW l \in Labels, Move(t, l),
           UNCHANGED cur \/ \E r \in Reqs : cur' = [cur EXCEPT ![t] = r],
           l \in Holding => cur'[t] \in Reqs,
           status' \in [Reqs -> Statuses], ran' \in [Reqs -> Nat]
    PROVE  AnswersOK'
<1>1. pc' \in [Threads -> Labels]
  BY DEF AnswersOK, Move
<1>2. cur' \in [Threads -> Reqs \cup {None}]
  BY DEF AnswersOK
<1>3. ASSUME NEW u \in Threads, pc'[u] \in Holding PROVE cur'[u] \in Reqs
  <2>1. CASE u = t
    BY <2>1, <1>3 DEF Move, AnswersOK
  <2>2. CASE u # t
    BY <2>2, <1>3 DEF Move, AnswersOK
  <2> QED
    BY <2>1, <2>2
<1> QED
  BY <1>1, <1>2, <1>3 DEF AnswersOK

LEMMA BecomeTyped ==
    ASSUME AnswersOK, NEW r, NEW s \in Statuses, Become(r, s)
    PROVE  status' \in [Reqs -> Statuses]
BY DEF AnswersOK, Become

LEMMA ExpireTyped ==
    ASSUME AnswersOK, ExpireAll
    PROVE  status' \in [Reqs -> Statuses]
BY DEF AnswersOK, ExpireAll, Statuses, Terminal, Refused

LEMMA TurnStepTyped ==
    ASSUME AnswersOK, RecordsOK, NEW t \in Turns, TurnStep(t)
    PROVE  AnswersOK'
<1> t \in Threads
  BY DEF Threads
<1>t. status \in [Reqs -> Statuses] /\ ran \in [Reqs -> Nat]
  BY DEF AnswersOK
<1>1. CASE TurnStart(t)
  BY <1>1, <1>t, MoveTyped DEF TurnStart, Labels, Holding, Executing
<1>2. CASE TurnEnd(t)
  <2>1. ran' \in [Reqs -> Nat] /\ status' \in [Reqs -> Statuses]
    BY <1>2, <1>t, ExpireTyped DEF TurnEnd
  <2>2. CASE Move(t, "done") /\ UNCHANGED cur
    BY <2>1, <2>2, MoveTyped DEF Labels, Holding, Executing
  <2>3. ASSUME NEW r \in Candidates(t), Move(t, "attach"), cur' = [cur EXCEPT ![t] = r]
        PROVE  AnswersOK'
    <3>1. r \in Reqs /\ cur'[t] \in Reqs
      BY <2>3 DEF Candidates, RecordsOK, AnswersOK
    <3> QED
      BY <2>1, <2>3, <3>1, MoveTyped DEF Labels
  <2> QED
    BY <1>2, <2>2, <2>3 DEF TurnEnd
<1>3. CASE Attach(t)
  BY <1>3, <1>t, MoveTyped DEF Attach, Labels, Holding, AnswersOK
<1> QED
  BY <1>1, <1>2, <1>3 DEF TurnStep

LEMMA WorkingTyped ==
    ASSUME AnswersOK, NEW d \in Deciders, Working(d)
    PROVE  AnswersOK'
<1> d \in Threads
  BY DEF Threads
<1>t. status \in [Reqs -> Statuses] /\ ran \in [Reqs -> Nat]
  BY DEF AnswersOK
<1>1. CASE NoExecutor(d)
  <2>1. status' \in [Reqs -> Statuses] /\ cur[d] \in Reqs
    BY <1>1, BecomeTyped DEF NoExecutor, AnswersOK, Statuses, Terminal, Finished, Holding, Executing
  <2> QED
    BY <1>1, <1>t, <2>1, MoveTyped DEF NoExecutor, Labels
<1>2. CASE Execute(d)
  <2>1. cur[d] \in Reqs /\ ran' \in [Reqs -> Nat]
    BY <1>2, <1>t DEF Execute, AnswersOK, Holding, Executing
  <2> QED
    BY <1>2, <1>t, <2>1, MoveTyped DEF Execute, Labels
<1>3. CASE Executed(d)
  <2>1. cur[d] \in Reqs
    BY <1>3 DEF Executed, AnswersOK, Holding, Executing
  <2>2. PICK s \in Finished : Become(cur[d], s)
    BY <1>3 DEF Executed
  <2>3. status' \in [Reqs -> Statuses]
    BY <2>2, BecomeTyped DEF Statuses, Terminal
  <2> QED
    BY <1>3, <1>t, <2>1, <2>3, MoveTyped DEF Executed, Labels
<1>4. CASE Resume(d)
  BY <1>4, <1>t, MoveTyped DEF Resume, Labels, Holding, AnswersOK
<1>5. CASE Resumed(d)
  BY <1>5, <1>t, MoveTyped DEF Resumed, Reply, Labels, Holding, AnswersOK
<1> QED
  BY <1>1, <1>2, <1>3, <1>4, <1>5 DEF Working

LEMMA AnswerTyped ==
    ASSUME AnswersOK, NEW d \in Deciders, NEW r \in Reqs, Answer(d, r)
    PROVE  AnswersOK'
<1> d \in Threads
  BY DEF Threads
<1>1. ran' \in [Reqs -> Nat] /\ cur' = [cur EXCEPT ![d] = r] /\ cur'[d] \in Reqs
  BY DEF Answer, DecideAgain, DecideLate, Deny, Claim, AnswersOK
<1>2. status' \in [Reqs -> Statuses]
  <2>1. status \in [Reqs -> Statuses]
    BY DEF AnswersOK
  <2>2. {"expired", "denied", "approved"} \subseteq Statuses
    BY DEF Statuses, Terminal, Refused
  <2> QED
    BY <2>1, <2>2, BecomeTyped DEF Answer, DecideAgain, DecideLate, Deny, Claim
<1>3. PICK l \in {"persist", "resuming", "execute"} : Move(d, l)
  BY DEF Answer, DecideAgain, DecideLate, Deny, Claim, Reply
<1> QED
  BY <1>1, <1>2, <1>3, MoveTyped DEF Labels

LEMMA ThreadTyped ==
    ASSUME AnswersOK, NEW t \in Threads,
           Persist(t) \/ Bind(t) \/ \E r \in Reqs : Request(t, r)
    PROVE  AnswersOK'
<1>t. status \in [Reqs -> Statuses] /\ ran \in [Reqs -> Nat]
  BY DEF AnswersOK
<1>1. CASE Persist(t)
  BY <1>1, <1>t, MoveTyped DEF Persist, Labels, Holding, AnswersOK
<1>2. CASE Bind(t)
  BY <1>2, <1>t, MoveTyped DEF Bind, Labels, Holding, Executing
<1>3. ASSUME NEW r \in Reqs, Request(t, r) PROVE AnswersOK'
  <2>1. status' \in [Reqs -> Statuses]
    BY <1>3, BecomeTyped DEF Request, Ask, Statuses
  <2> QED
    BY <1>3, <2>1 DEF Request, Ask, threads, AnswersOK
<1> QED
  BY <1>1, <1>2, <1>3

LEMMA OthersTyped ==
    ASSUME AnswersOK, Poll \/ (\E r \in Reqs : Cancel(r) \/ Elapse(r)) \/ UNCHANGED vars
    PROVE  AnswersOK'
<1>1. CASE Poll
  BY <1>1, ExpireTyped DEF Poll, threads, AnswersOK
<1>2. ASSUME NEW r \in Reqs, Cancel(r) PROVE AnswersOK'
  <2>1. status' \in [Reqs -> Statuses]
    BY <1>2, BecomeTyped DEF Cancel, Statuses, Terminal, Refused
  <2> QED
    BY <1>2, <2>1 DEF Cancel, threads, AnswersOK
<1>3. ASSUME NEW r \in Reqs, Elapse(r) PROVE AnswersOK'
  BY <1>3 DEF Elapse, threads, AnswersOK
<1>4. CASE UNCHANGED vars
  BY <1>4 DEF vars, threads, AnswersOK
<1> QED
  BY <1>1, <1>2, <1>3, <1>4

LEMMA AnswersStep ==
    ASSUME AnswersOK, RecordsOK, [Next]_vars
    PROVE  AnswersOK'
BY TurnStepTyped, WorkingTyped, AnswerTyped, ThreadTyped, OthersTyped DEF Next

(***************************************************************************)
(* Types of the records.                                                   *)
(***************************************************************************)

\* Pruning keeps a sequence of requests: it drops a prefix, and what it
\* rotates is the open request that stopped it.
LEMMA PrunedTyped ==
    ASSUME RecordsOK
    PROVE  Pruned \in Seq(Reqs)
<1> DEFINE excess == Len(order) - MaxRecords
           opens == {i \in DOMAIN order : Open(order[i])}
           stops == {i \in opens : i <= excess /\ \A j \in opens : i <= j}
           rest == SubSeq(order, Dropped.count + 1, Len(order))
<1>1. order \in Seq(Reqs) /\ Len(order) \in Nat /\ MaxRecords \in Nat
  BY ApprovalAssumption DEF RecordsOK
<1>2. excess \in Int /\ excess <= Len(order)
  BY <1>1
<1>3. DOMAIN order = 1..Len(order)
  BY <1>1
<1> HIDE DEF excess
<1>4. Dropped = [count |-> IF stops # {} THEN (CHOOSE i \in stops : TRUE) - 1
                          ELSE IF excess > 0 THEN excess ELSE 0,
                 rotate |-> stops # {}]
  BY DEF Dropped, excess
<1>5. /\ Dropped.count \in Nat /\ Dropped.count <= Len(order)
      /\ Dropped.rotate => Dropped.count < Len(order)
  <2>1. CASE stops # {}
    <3> DEFINE first == CHOOSE i \in stops : TRUE
    <3>1. first \in stops
      BY <2>1
    <3>2. first \in 1..Len(order)
      BY <3>1, <1>3
    <3>3. Dropped.count = first - 1
      BY <2>1, <1>4
    <3> HIDE DEF first
    <3> QED
      BY <3>2, <3>3, <1>1
  <2>2. CASE stops = {} /\ excess > 0
    <3>1. Dropped.count = excess /\ ~Dropped.rotate
      BY <2>2, <1>4
    <3> QED
      BY <2>2, <3>1, <1>1, <1>2
  <2>3. CASE stops = {} /\ ~(excess > 0)
    <3>1. Dropped.count = 0 /\ ~Dropped.rotate
      BY <2>3, <1>4
    <3> QED
      BY <3>1, <1>1
  <2> QED
    BY <2>1, <2>2, <2>3
<1>6. rest \in Seq(Reqs) /\ (Dropped.rotate => rest # << >>)
  <2>1. rest \in Seq(Reqs)
    BY <1>1, <1>5
  <2>2. Dropped.rotate => Len(rest) > 0
    BY <1>1, <1>5
  <2> HIDE DEF rest
  <2>3. rest = << >> => Len(rest) = 0
    OBVIOUS
  <2> QED
    BY <2>1, <2>2, <2>3
<1>7. Dropped.rotate => Tail(rest) \in Seq(Reqs) /\ Head(rest) \in Reqs
  BY <1>6
<1> HIDE DEF rest
<1>8. Pruned = IF Dropped.rotate THEN Append(Tail(rest), Head(rest)) ELSE rest
  BY DEF Pruned, rest
<1> QED
  BY <1>6, <1>7, <1>8

LEMMA RequestRecords ==
    ASSUME RecordsOK, NEW t \in Threads, NEW r \in Reqs, Request(t, r)
    PROVE  RecordsOK'
<1>1. Pruned \in Seq(Reqs)
  BY PrunedTyped
<1>2. order' \in Seq(Reqs) /\ ToSet(Pruned) \subseteq Reqs
  BY <1>1 DEF Request, ToSet
<1>3. kept' \subseteq Reqs
  BY <1>2 DEF Request
<1>4. owner' \in [Reqs -> Turns \cup {None}] /\ operation' \in [Reqs -> Turns \cup {None}]
  BY DEF Request, RecordsOK
<1> QED
  BY <1>2, <1>3, <1>4 DEF Request, threads, RecordsOK

LEMMA DeciderRecords ==
    ASSUME RecordsOK, AnswersOK, NEW d \in Deciders,
           Working(d) \/ \E r \in Reqs : Answer(d, r)
    PROVE  RecordsOK'
<1> d \in Threads
  BY DEF Threads
<1>1. UNCHANGED <<kept, order, late, owner, operation>>
  BY DEF Working, Answer, NoExecutor, Execute, Executed, Resume, Resumed,
         DecideAgain, DecideLate, Deny, Claim, records
<1>2. lock' \in Deciders \cup {None}
  BY DEF Working, Answer, NoExecutor, Execute, Executed, Resume, Resumed,
         DecideAgain, DecideLate, Deny, Claim, RecordsOK
<1>3. UNCHANGED turn \/ \E r \in Reqs : turn' = [turn EXCEPT ![d] = Continued(r)]
  <2>1. CASE Resume(d)
    BY <2>1 DEF Resume, AnswersOK, Holding
  <2>2. CASE ~Resume(d)
    BY <2>2 DEF Working, Answer, NoExecutor, Execute, Executed, Resumed,
                DecideAgain, DecideLate, Deny, Claim
  <2> QED
    BY <2>1, <2>2
<1>4. turn' \in [Threads -> Turns \cup {None}]
  BY <1>3 DEF Continued, RecordsOK
<1> QED
  BY <1>1, <1>2, <1>4 DEF RecordsOK

LEMMA RecordsStep ==
    ASSUME RecordsOK, AnswersOK, [Next]_vars
    PROVE  RecordsOK'
<1>1. ASSUME NEW t \in Turns, TurnStep(t) PROVE RecordsOK'
  <2>1. UNCHANGED <<kept, order, late, owner, lock, turn>>
    BY <1>1 DEF TurnStep, TurnStart, TurnEnd, Attach, records
  <2>2. UNCHANGED operation \/ \E r : operation' = [operation EXCEPT ![r] = t]
    BY <1>1 DEF TurnStep, TurnStart, TurnEnd, Attach, records
  <2> QED
    BY <2>1, <2>2 DEF RecordsOK
<1>2. ASSUME NEW t \in Threads, Persist(t) \/ Bind(t) PROVE RecordsOK'
  BY <1>2 DEF Persist, Bind, records, RecordsOK
<1>3. ASSUME NEW r \in Reqs, Cancel(r) \/ Elapse(r) PROVE RecordsOK'
  BY <1>3 DEF Cancel, Elapse, records, threads, RecordsOK
<1>4. CASE Poll \/ UNCHANGED vars
  BY <1>4 DEF Poll, vars, records, threads, RecordsOK
<1> QED
  BY <1>1, <1>2, <1>3, <1>4, RequestRecords, DeciderRecords DEF Next

(***************************************************************************)
(* Types of the transcript.                                                *)
(***************************************************************************)

LEMMA MessageTyped ==
    ASSUME NEW s \in Statuses, NEW i \in DOMAIN chat, chat \in Seq(Messages)
    PROVE  [chat[i] EXCEPT !.text = s] \in Messages
<1>1. chat[i] \in Messages
  OBVIOUS
<1> QED
  BY <1>1 DEF Messages

LEMMA WriteBackTyped ==
    ASSUME TranscriptOK, NEW r \in Reqs, NEW s \in Statuses, WriteBack(r, s)
    PROVE  chat' \in Seq(Messages) /\ Len(chat') = Len(chat)
<1>1. chat \in Seq(Messages) /\ message[r] \in 0..Len(chat) /\ DOMAIN chat = 1..Len(chat)
  BY DEF TranscriptOK
<1>2. CASE message[r] = 0
  BY <1>1, <1>2 DEF WriteBack
<1>3. CASE message[r] # 0
  <2>1. message[r] \in DOMAIN chat
    BY <1>1, <1>3
  <2>2. [chat[message[r]] EXCEPT !.text = s] \in Messages
    BY <1>1, <2>1, MessageTyped
  <2>3. chat' = [chat EXCEPT ![message[r]] = [chat[message[r]] EXCEPT !.text = s]]
    BY <1>3 DEF WriteBack, Shows
  <2> QED
    BY <1>1, <2>1, <2>2, <2>3
<1> QED
  BY <1>2, <1>3

LEMMA ExpiredTranscript ==
    ASSUME TranscriptOK, ExpireAll
    PROVE  chat' \in Seq(Messages) /\ Len(chat') = Len(chat)
<1>1. chat \in Seq(Messages) /\ DOMAIN chat = 1..Len(chat) /\ Len(chat) \in Nat
  BY DEF TranscriptOK
<1>2. "expired" \in Statuses
  BY DEF Statuses, Terminal, Refused
<1>3. \A i \in DOMAIN chat : chat'[i] \in Messages
  <2> TAKE i \in DOMAIN chat
  <2>1. chat[i] \in Messages /\ [chat[i] EXCEPT !.text = "expired"] \in Messages
    BY <1>1, <1>2, MessageTyped
  <2> QED
    BY <2>1 DEF ExpireAll
<1>4. chat' = [i \in 1..Len(chat) |-> chat'[i]]
  BY <1>1 DEF ExpireAll
<1>5. [i \in 1..Len(chat) |-> chat'[i]] \in Seq(Messages)
  BY <1>1, <1>3
<1> QED
  BY <1>1, <1>4, <1>5

\* A step that leaves the transcript as long as it is, and moves a thread to
\* "persist" only with a snapshot to write.
LEMMA SameLength ==
    ASSUME TranscriptOK, AnswersOK, chat' \in Seq(Messages), Len(chat') = Len(chat),
           UNCHANGED <<message, mid>>,
           \/ UNCHANGED shown /\ \A t \in Threads : pc'[t] = "persist" => pc[t] = "persist"
           \/ \E t \in Threads : \E x \in Statuses :
                shown' = [shown EXCEPT ![t] = x] /\ Move(t, "persist")
    PROVE  TranscriptOK'
<1>1. CASE UNCHANGED shown /\ \A t \in Threads : pc'[t] = "persist" => pc[t] = "persist"
  BY <1>1 DEF TranscriptOK
<1>2. ASSUME NEW t \in Threads, NEW x \in Statuses,
             shown' = [shown EXCEPT ![t] = x], Move(t, "persist")
      PROVE  TranscriptOK'
  <2>1. shown' \in [Threads -> Statuses \cup {None}]
    BY <1>2 DEF TranscriptOK
  <2>2. \A u \in Threads : pc'[u] = "persist" => shown'[u] \in Statuses
    BY <1>2 DEF TranscriptOK, AnswersOK, Move
  <2> QED
    BY <2>1, <2>2 DEF TranscriptOK
<1> QED
  BY <1>1, <1>2

LEMMA TurnTranscript ==
    ASSUME TranscriptOK, AnswersOK, NEW t \in Turns, TurnStep(t)
    PROVE  TranscriptOK'
<1> t \in Threads
  BY DEF Threads
<1>t. chat \in Seq(Messages)
  BY DEF TranscriptOK
<1>1. CASE TurnStart(t)
  <2>1. \A u \in Threads : pc'[u] = "persist" => pc[u] = "persist"
    BY <1>1 DEF TurnStart, Move, AnswersOK
  <2> QED
    BY <1>1, <1>t, <2>1, SameLength DEF TurnStart, records
<1>2. CASE TurnEnd(t)
  <2>1. \A u \in Threads : pc'[u] = "persist" => pc[u] = "persist"
    BY <1>2 DEF TurnEnd, Move, AnswersOK
  <2>2. chat' \in Seq(Messages) /\ Len(chat') = Len(chat)
    BY <1>2, ExpiredTranscript DEF TurnEnd
  <2> QED
    BY <1>2, <2>1, <2>2, SameLength DEF TurnEnd, records
<1>3. CASE Attach(t)
  <2>1. (IF Overdue(cur[t]) THEN "expired" ELSE status[cur[t]]) \in Statuses
    BY <1>3 DEF Attach, AnswersOK, Holding, Statuses, Terminal, Refused
  <2>2. UNCHANGED <<chat, message, mid>> /\ Move(t, "persist")
    BY <1>3 DEF Attach
  <2>3. shown' = [shown EXCEPT ![t] = IF Overdue(cur[t]) THEN "expired" ELSE status[cur[t]]]
    BY <1>3 DEF Attach
  <2> QED
    BY <1>t, <2>1, <2>2, <2>3, SameLength
<1> QED
  BY <1>1, <1>2, <1>3 DEF TurnStep

LEMMA AnswerTranscript ==
    ASSUME TranscriptOK, AnswersOK, NEW d \in Deciders, NEW r \in Reqs, Answer(d, r)
    PROVE  TranscriptOK'
<1> d \in Threads
  BY DEF Threads
<1>t. chat \in Seq(Messages) /\ status[r] \in Statuses /\ {"expired", "denied"} \subseteq Statuses
  BY DEF TranscriptOK, AnswersOK, Statuses, Terminal, Refused
<1>1. CASE DecideAgain(d, r)
  <2>1. UNCHANGED <<chat, message, mid>> /\ Reply(d, status[r])
    BY <1>1 DEF DecideAgain, records
  <2> QED
    BY <1>t, <2>1, SameLength DEF Reply
<1>2. CASE DecideLate(d, r)
  <2>1. chat' \in Seq(Messages) /\ Len(chat') = Len(chat)
    BY <1>2, <1>t, WriteBackTyped DEF DecideLate
  <2>2. UNCHANGED <<message, mid>> /\ Reply(d, "expired")
    BY <1>2 DEF DecideLate, records
  <2> QED
    BY <1>t, <2>1, <2>2, SameLength DEF Reply
<1>3. CASE Deny(d, r)
  <2>1. chat' \in Seq(Messages) /\ Len(chat') = Len(chat)
    BY <1>3, <1>t, WriteBackTyped DEF Deny
  <2>2. \A u \in Threads : pc'[u] = "persist" => pc[u] = "persist"
    BY <1>3 DEF Deny, Move, AnswersOK
  <2> QED
    BY <1>3, <2>1, <2>2, SameLength DEF Deny, records
<1>4. CASE Claim(d, r)
  <2>1. \A u \in Threads : pc'[u] = "persist" => pc[u] = "persist"
    BY <1>4 DEF Claim, Move, AnswersOK
  <2> QED
    BY <1>4, <1>t, <2>1, SameLength DEF Claim, records
<1> QED
  BY <1>1, <1>2, <1>3, <1>4 DEF Answer

LEMMA WorkingTranscript ==
    ASSUME TranscriptOK, AnswersOK, NEW d \in Deciders, Working(d)
    PROVE  TranscriptOK'
<1> d \in Threads
  BY DEF Threads
<1>t. chat \in Seq(Messages)
  BY DEF TranscriptOK
<1>1. CASE Resumed(d)
  <2>1. UNCHANGED <<chat, message, mid>> /\ Reply(d, status[cur[d]]) /\ status[cur[d]] \in Statuses
    BY <1>1 DEF Resumed, records, AnswersOK, Holding
  <2> QED
    BY <1>t, <2>1, SameLength DEF Reply
<1>2. CASE NoExecutor(d) \/ Executed(d)
  <2>1. cur[d] \in Reqs
    BY <1>2 DEF NoExecutor, Executed, AnswersOK, Holding, Executing
  <2>2. PICK x \in Finished : WriteBack(cur[d], x)
    BY <1>2 DEF NoExecutor, Executed, Finished
  <2>3. chat' \in Seq(Messages) /\ Len(chat') = Len(chat)
    BY <2>1, <2>2, WriteBackTyped DEF Statuses, Terminal
  <2>4. \A u \in Threads : pc'[u] = "persist" => pc[u] = "persist"
    BY <1>2 DEF NoExecutor, Executed, Move, AnswersOK
  <2> QED
    BY <1>2, <2>3, <2>4, SameLength DEF NoExecutor, Executed, records
<1>3. CASE Execute(d) \/ Resume(d)
  <2>1. \A u \in Threads : pc'[u] = "persist" => pc[u] = "persist"
    BY <1>3 DEF Execute, Resume, Move, AnswersOK
  <2> QED
    BY <1>3, <1>t, <2>1, SameLength DEF Execute, Resume, records
<1> QED
  BY <1>1, <1>2, <1>3 DEF Working

LEMMA ThreadTranscript ==
    ASSUME TranscriptOK, AnswersOK, NEW t \in Threads,
           Persist(t) \/ Bind(t) \/ \E r \in Reqs : Request(t, r)
    PROVE  TranscriptOK'
<1>t. chat \in Seq(Messages) /\ Len(chat) \in Nat
  BY DEF TranscriptOK
<1>1. CASE Persist(t)
  <2>1. [req |-> cur[t], card |-> t \in Turns, text |-> shown[t]] \in Messages
    BY <1>1 DEF Persist, Messages, AnswersOK, TranscriptOK, Holding
  <2>2. chat' \in Seq(Messages) /\ Len(chat') = Len(chat) + 1
    BY <1>1, <1>t, <2>1 DEF Persist
  <2>3. message' \in [Reqs -> 0..Len(chat')] /\ mid' \in [Threads -> 0..Len(chat')]
    <3>1. 0..Len(chat) \subseteq 0..Len(chat') /\ Len(chat) + 1 \in 0..Len(chat')
      BY <1>t, <2>2
    <3>2. UNCHANGED message /\ mid' = [mid EXCEPT ![t] = Len(chat) + 1]
      BY <1>1 DEF Persist, records
    <3> QED
      BY <3>1, <3>2 DEF TranscriptOK
  <2>4. \A u \in Threads : pc'[u] = "persist" => pc[u] = "persist"
    BY <1>1 DEF Persist, Move, AnswersOK
  <2> QED
    BY <1>1, <2>2, <2>3, <2>4 DEF Persist, TranscriptOK
<1>2. CASE Bind(t)
  <2>1. message' \in [Reqs -> 0..Len(chat)]
    BY <1>2 DEF Bind, TranscriptOK
  <2>2. \A u \in Threads : pc'[u] = "persist" => pc[u] = "persist"
    BY <1>2 DEF Bind, Move, AnswersOK
  <2> QED
    BY <1>2, <2>1, <2>2 DEF Bind, TranscriptOK
<1>3. ASSUME NEW r \in Reqs, Request(t, r) PROVE TranscriptOK'
  BY <1>3 DEF Request, threads, TranscriptOK
<1> QED
  BY <1>1, <1>2, <1>3

LEMMA OthersTranscript ==
    ASSUME TranscriptOK, AnswersOK,
           Poll \/ (\E r \in Reqs : Cancel(r) \/ Elapse(r)) \/ UNCHANGED vars
    PROVE  TranscriptOK'
<1>1. CASE Poll
  <2>1. chat' \in Seq(Messages) /\ Len(chat') = Len(chat)
    BY <1>1, ExpiredTranscript DEF Poll
  <2> QED
    BY <1>1, <2>1, SameLength DEF Poll, records, threads
<1>2. ASSUME NEW r \in Reqs, Cancel(r) PROVE TranscriptOK'
  <2>1. chat' \in Seq(Messages) /\ Len(chat') = Len(chat)
    BY <1>2, WriteBackTyped DEF Cancel, Statuses, Terminal, Refused
  <2> QED
    BY <1>2, <2>1, SameLength DEF Cancel, records, threads
<1>3. ASSUME NEW r \in Reqs, Elapse(r) PROVE TranscriptOK'
  BY <1>3 DEF Elapse, threads, TranscriptOK
<1>4. CASE UNCHANGED vars
  BY <1>4 DEF vars, records, threads, TranscriptOK
<1> QED
  BY <1>1, <1>2, <1>3, <1>4

LEMMA TypeInit == Init => TypeOK
<1> HAVE Init
<1>1. RecordsOK
  BY DEF Init, RecordsOK
<1>2. TranscriptOK
  BY ApprovalAssumption DEF Init, TranscriptOK
<1> QED
  BY <1>1, <1>2, AnswersInit DEF TypeOK

LEMMA TypeStep == TypeOK /\ [Next]_vars => TypeOK'
<1> SUFFICES ASSUME TypeOK, [Next]_vars PROVE TypeOK'
  OBVIOUS
<1>t. AnswersOK /\ RecordsOK /\ TranscriptOK
  BY DEF TypeOK
<1>1. TranscriptOK'
  BY <1>t, TurnTranscript, AnswerTranscript, WorkingTranscript, ThreadTranscript,
     OthersTranscript DEF Next
<1> QED
  BY <1>t, <1>1, AnswersStep, RecordsStep DEF TypeOK

\* Every variable keeps its type; in particular a bound message is one of the
\* transcript, so a write-back never misses.
THEOREM ApprovalTypes == Spec => []TypeOK
BY TypeInit, TypeStep, PTL DEF Spec

(***************************************************************************)
(* Exactly-once execution.                                                 *)
(***************************************************************************)

LEMMA ClaimInit == Init => ClaimInv
BY DEF Init, ProtocolInit, ClaimInv, Claimed, Executing, ExactlyOnce, Finished, Threads

\* A step by which no thread starts to execute, nothing is run and no request
\* enters or leaves an answered state.
Refusing ==
    \A r \in Reqs :
      \/ status'[r] = status[r]
      \/ status[r] \in {"absent", "pending"} /\ status'[r] \notin {"approved"} \cup Finished
LEMMA QuietStep ==
    ASSUME ClaimInv, UNCHANGED ran, Refusing,
           \A d \in Deciders : pc'[d] \in Executing => pc'[d] = pc[d] /\ cur'[d] = cur[d]
    PROVE  ClaimInv'
<1>1. \A d \in Deciders : \A r \in Reqs : Claimed(d, r)' => Claimed(d, r) /\ pc'[d] = pc[d]
  BY DEF Claimed
<1>2. \A d \in Deciders : \A r \in Reqs : Claimed(d, r) => status'[r] = "approved"
  BY DEF ClaimInv, Refusing
<1>3. \A r \in Reqs : status'[r] \notin {"approved"} \cup Finished => ran'[r] = 0
  BY DEF ClaimInv, Refusing, Finished
<1> QED
  BY <1>1, <1>2, <1>3 DEF ClaimInv, ExactlyOnce

LEMMA ExpireRefuses ==
    ASSUME ExpireAll
    PROVE  Refusing
BY DEF ExpireAll, Refusing, Overdue, Finished

LEMMA TurnClaims ==
    ASSUME AnswersOK, ClaimInv, NEW t \in Turns, TurnStep(t)
    PROVE  ClaimInv'
<1>1. UNCHANGED ran /\ Refusing
  BY ExpireRefuses DEF TurnStep, TurnStart, TurnEnd, Attach, Refusing
<1>2. \A d \in Deciders : pc'[d] \in Executing => pc'[d] = pc[d] /\ cur'[d] = cur[d]
  <2>1. \A d \in Deciders : d # t /\ d \in Threads
    BY ApprovalAssumption DEF Threads
  <2>2. \E l : Move(t, l)
    BY DEF TurnStep, TurnStart, TurnEnd, Attach
  <2>3. UNCHANGED cur \/ \E r : cur' = [cur EXCEPT ![t] = r]
    BY DEF TurnStep, TurnStart, TurnEnd, Attach
  <2> QED
    BY <2>1, <2>2, <2>3 DEF Move, AnswersOK
<1> QED
  BY <1>1, <1>2, QuietStep

LEMMA ThreadClaims ==
    ASSUME AnswersOK, ClaimInv, NEW t \in Threads,
           Persist(t) \/ Bind(t) \/ \E r \in Reqs : Request(t, r)
    PROVE  ClaimInv'
<1>1. UNCHANGED <<ran, cur>>
  BY DEF Persist, Bind, Request, Ask, threads
<1>2. Refusing
  <2>1. CASE Persist(t) \/ Bind(t)
    BY <2>1 DEF Persist, Bind, Refusing
  <2>2. ASSUME NEW r \in Reqs, Request(t, r) PROVE Refusing
    BY <2>2 DEF Request, Ask, Become, Refusing, AnswersOK, Finished
  <2> QED
    BY <2>1, <2>2
<1>3. \A d \in Deciders : pc'[d] \in Executing => pc'[d] = pc[d]
  BY DEF Persist, Bind, Request, threads, Move, AnswersOK, Threads, Executing
<1> QED
  BY <1>1, <1>2, <1>3, QuietStep

LEMMA OthersClaim ==
    ASSUME AnswersOK, ClaimInv,
           Poll \/ (\E r \in Reqs : Cancel(r) \/ Elapse(r)) \/ UNCHANGED vars
    PROVE  ClaimInv'
<1>1. UNCHANGED <<ran, pc, cur>>
  BY DEF Poll, Cancel, Elapse, vars, threads
<1>2. Refusing
  <2>1. CASE Poll
    BY <2>1, ExpireRefuses DEF Poll
  <2>2. ASSUME NEW r \in Reqs, Cancel(r) PROVE Refusing
    BY <2>2 DEF Cancel, Become, Refusing, AnswersOK, Finished
  <2>3. CASE (\E r \in Reqs : Elapse(r)) \/ UNCHANGED vars
    BY <2>3 DEF Elapse, vars, Refusing
  <2> QED
    BY <2>1, <2>2, <2>3
<1> QED
  BY <1>1, <1>2, QuietStep

LEMMA AnswerClaims ==
    ASSUME AnswersOK, ClaimInv, NEW d \in Deciders, NEW r \in Reqs, Answer(d, r)
    PROVE  ClaimInv'
<1> d \in Threads /\ Deciders \subseteq Threads
  BY DEF Threads
<1>t. status \in [Reqs -> Statuses] /\ pc \in [Threads -> Labels]
      /\ cur \in [Threads -> Reqs \cup {None}]
  BY DEF AnswersOK
<1>1. CASE DecideAgain(d, r) \/ DecideLate(d, r) \/ Deny(d, r)
  <2>1. UNCHANGED ran
    BY <1>1 DEF DecideAgain, DecideLate, Deny
  <2>2. Refusing
    BY <1>1, <1>t DEF DecideAgain, DecideLate, Deny, Become, Refusing, Overdue, Open, Finished
  <2>3. \A e \in Deciders : pc'[e] \in Executing => pc'[e] = pc[e] /\ cur'[e] = cur[e]
    <3>1. Move(d, "persist") \/ Move(d, "resuming")
      BY <1>1 DEF DecideAgain, DecideLate, Deny, Reply
    <3>2. cur' = [cur EXCEPT ![d] = r]
      BY <1>1 DEF DecideAgain, DecideLate, Deny
    <3> QED
      BY <1>t, <3>1, <3>2 DEF Move, Executing
  <2> QED
    BY <2>1, <2>2, <2>3, QuietStep
<1>2. CASE Claim(d, r)
  <2>1. /\ status[r] = "pending" /\ status' = [status EXCEPT ![r] = "approved"]
        /\ UNCHANGED ran
        /\ pc' = [pc EXCEPT ![d] = "execute"] /\ cur' = [cur EXCEPT ![d] = r]
    BY <1>2 DEF Claim, Open, Become, Move
  <2>2. ran[r] = 0 /\ \A e \in Deciders : ~Claimed(e, r)
    BY <2>1 DEF ClaimInv, Finished
  <2>3. \A e \in Deciders : \A q \in Reqs :
          Claimed(e, q)' => \/ e = d /\ q = r /\ pc'[e] = "execute"
                            \/ e # d /\ q # r /\ Claimed(e, q) /\ pc'[e] = pc[e]
    <3> TAKE e \in Deciders
    <3> TAKE q \in Reqs
    <3>1. CASE e = d
      <4>1. pc'[e] = "execute" /\ cur'[e] = r
        BY <3>1, <1>t, <2>1
      <4> QED
        BY <3>1, <4>1 DEF Claimed
    <3>2. CASE e # d
      <4>1. pc'[e] = pc[e] /\ cur'[e] = cur[e]
        BY <3>2, <1>t, <2>1
      <4> QED
        BY <3>2, <4>1, <2>2 DEF Claimed
    <3> QED
      BY <3>1, <3>2
  <2>4. \A q \in Reqs : q # r => status'[q] = status[q]
    BY <1>t, <2>1
  <2>5. status'[r] = "approved"
    BY <1>t, <2>1
  <2>6. \A e \in Deciders : \A q \in Reqs :
          Claimed(e, q)' => /\ status'[q] = "approved"
                            /\ ran'[q] = IF pc'[e] = "execute" THEN 0 ELSE 1
    BY <2>1, <2>2, <2>3, <2>4, <2>5 DEF ClaimInv
  <2>7. \A e, f \in Deciders : \A q \in Reqs : Claimed(e, q)' /\ Claimed(f, q)' => e = f
    BY <2>3 DEF ClaimInv
  <2>8. \A q \in Reqs : status'[q] \notin {"approved"} \cup Finished => ran'[q] = 0
    BY <2>1, <2>4, <2>5 DEF ClaimInv
  <2> QED
    BY <2>1, <2>6, <2>7, <2>8 DEF ClaimInv, ExactlyOnce
<1> QED
  BY <1>1, <1>2 DEF Answer

LEMMA WorkingClaims ==
    ASSUME AnswersOK, ClaimInv, NEW d \in Deciders, Working(d)
    PROVE  ClaimInv'
<1> d \in Threads /\ Deciders \subseteq Threads
  BY DEF Threads
<1>t. status \in [Reqs -> Statuses] /\ pc \in [Threads -> Labels] /\ ran \in [Reqs -> Nat]
  BY DEF AnswersOK
<1>1. CASE Resume(d) \/ Resumed(d)
  <2>1. UNCHANGED <<ran, cur, status>>
    BY <1>1 DEF Resume, Resumed
  <2>2. \A e \in Deciders : pc'[e] \in Executing => pc'[e] = pc[e]
    BY <1>1, <1>t DEF Resume, Resumed, Reply, Move, Executing
  <2> QED
    BY <2>1, <2>2, QuietStep DEF Refusing
<1>2. CASE Execute(d)
  <2>0. cur[d] \in Reqs
    BY <1>2 DEF Execute, AnswersOK, Holding, Executing
  <2>1. /\ pc[d] = "execute" /\ UNCHANGED <<status, cur>>
        /\ ran' = [ran EXCEPT ![cur[d]] = ran[cur[d]] + 1]
        /\ pc' = [pc EXCEPT ![d] = "running"]
    BY <1>2 DEF Execute, Move
  <2>2. Claimed(d, cur[d])
    BY <2>1 DEF Claimed, Executing
  <2>3. ran[cur[d]] = 0 /\ status[cur[d]] = "approved"
    BY <2>0, <2>1, <2>2 DEF ClaimInv
  <2>4. ran'[cur[d]] = 1 /\ \A q \in Reqs : q # cur[d] => ran'[q] = ran[q]
    BY <1>t, <2>0, <2>1, <2>3
  <2>5. \A e \in Deciders : \A q \in Reqs :
          Claimed(e, q)' => /\ Claimed(e, q)
                            /\ \/ e = d /\ q = cur[d] /\ pc'[e] = "running"
                               \/ q # cur[d] /\ pc'[e] = pc[e]
    <3> TAKE e \in Deciders
    <3> TAKE q \in Reqs
    <3>1. CASE e = d
      BY <3>1, <1>t, <2>1 DEF Claimed, Executing
    <3>2. CASE e # d
      <4>1. pc'[e] = pc[e] /\ cur'[e] = cur[e]
        BY <3>2, <1>t, <2>1
      <4>2. ~Claimed(e, cur[d])
        BY <3>2, <2>0, <2>2 DEF ClaimInv
      <4> QED
        BY <3>2, <4>1, <4>2 DEF Claimed
    <3> QED
      BY <3>1, <3>2
  <2>6. \A e \in Deciders : \A q \in Reqs :
          Claimed(e, q)' => /\ status'[q] = "approved"
                            /\ ran'[q] = IF pc'[e] = "execute" THEN 0 ELSE 1
    BY <2>0, <2>1, <2>4, <2>5 DEF ClaimInv
  <2>7. \A e, f \in Deciders : \A q \in Reqs : Claimed(e, q)' /\ Claimed(f, q)' => e = f
    BY <2>5 DEF ClaimInv
  <2>8. \A q \in Reqs : /\ status'[q] \notin {"approved"} \cup Finished => ran'[q] = 0
                       /\ ran'[q] <= 1
    BY <2>1, <2>3, <2>4 DEF ClaimInv, ExactlyOnce
  <2> QED
    BY <2>6, <2>7, <2>8 DEF ClaimInv, ExactlyOnce
<1>3. CASE NoExecutor(d) \/ Executed(d)
  <2>0. cur[d] \in Reqs /\ pc[d] \in Executing
    BY <1>3 DEF NoExecutor, Executed, AnswersOK, Holding, Executing
  <2>1. PICK s \in Finished : status' = [status EXCEPT ![cur[d]] = s]
    BY <1>3 DEF NoExecutor, Executed, Become, Finished
  <2>2. UNCHANGED <<ran, cur>> /\ pc' = [pc EXCEPT ![d] = "resume"]
    BY <1>3 DEF NoExecutor, Executed, Move
  <2>3. Claimed(d, cur[d])
    BY <2>0 DEF Claimed
  <2>4. \A e \in Deciders : \A q \in Reqs :
          Claimed(e, q)' => Claimed(e, q) /\ q # cur[d] /\ pc'[e] = pc[e]
    <3> TAKE e \in Deciders
    <3> TAKE q \in Reqs
    <3>1. CASE e = d
      BY <3>1, <1>t, <2>2 DEF Claimed, Executing
    <3>2. CASE e # d
      <4>1. pc'[e] = pc[e] /\ cur'[e] = cur[e]
        BY <3>2, <1>t, <2>2
      <4>2. ~Claimed(e, cur[d])
        BY <3>2, <2>0, <2>3 DEF ClaimInv
      <4> QED
        BY <3>2, <4>1, <4>2 DEF Claimed
    <3> QED
      BY <3>1, <3>2
  <2>5. \A q \in Reqs : q # cur[d] => status'[q] = status[q]
    BY <1>t, <2>1
  <2>6. status'[cur[d]] \in Finished
    BY <1>t, <2>0, <2>1
  <2>7. \A e \in Deciders : \A q \in Reqs :
          Claimed(e, q)' => /\ status'[q] = "approved"
                            /\ ran'[q] = IF pc'[e] = "execute" THEN 0 ELSE 1
    BY <2>2, <2>4, <2>5 DEF ClaimInv
  <2>8. \A e, f \in Deciders : \A q \in Reqs : Claimed(e, q)' /\ Claimed(f, q)' => e = f
    BY <2>4 DEF ClaimInv
  <2>9. \A q \in Reqs : status'[q] \notin {"approved"} \cup Finished => ran'[q] = 0
    BY <2>2, <2>5, <2>6 DEF ClaimInv
  <2> QED
    BY <2>2, <2>7, <2>8, <2>9 DEF ClaimInv, ExactlyOnce
<1> QED
  BY <1>1, <1>2, <1>3 DEF Working

LEMMA ClaimStep == TypeOK /\ ClaimInv /\ [Next]_vars => ClaimInv'
<1> SUFFICES ASSUME TypeOK, ClaimInv, [Next]_vars PROVE ClaimInv'
  OBVIOUS
<1>1. AnswersOK
  BY DEF TypeOK
<1> QED
  BY <1>1, TurnClaims, WorkingClaims, AnswerClaims, ThreadClaims, OthersClaim DEF Next

\* The claim made under the lock is exclusive: one executing thread per allowed
\* request, and it starts the command for the first time.
THEOREM ClaimIsExclusive == Spec => []ClaimInv
<1>1. Init => TypeOK /\ ClaimInv
  BY TypeInit, ClaimInit
<1>2. TypeOK /\ ClaimInv /\ [Next]_vars => TypeOK' /\ ClaimInv'
  BY TypeStep, ClaimStep
<1> QED
  BY <1>1, <1>2, PTL DEF Spec

\* However many threads answer a request, its command starts at most once.
THEOREM RunsAtMostOnce == Spec => []ExactlyOnce
<1>1. ClaimInv => ExactlyOnce
  BY DEF ClaimInv
<1> QED
  BY <1>1, ClaimIsExclusive, PTL

\* What ran was allowed; a denied, expired or cancelled request never ran.
THEOREM RunsOnlyAllowed == Spec => []OnlyAllowedRun
<1>1. ClaimInv => OnlyAllowedRun
  BY DEF ClaimInv, OnlyAllowedRun
<1> QED
  BY <1>1, ClaimIsExclusive, PTL

(***************************************************************************)
(* The manager implements ApprovalProtocol.                                *)
(***************************************************************************)

LEMMA RefuseOne ==
    ASSUME AnswersOK, NEW r \in Reqs, status[r] = "pending", UNCHANGED ran,
           NEW s \in Refused, Become(r, s)
    PROVE  ProtocolNext
<1>1. status' = [q \in Reqs |-> IF q \in {r} THEN s ELSE status[q]]
  BY DEF AnswersOK, Become
<1>2. Refuse({r})
  BY <1>1 DEF Refuse
<1> QED
  BY <1>2 DEF ProtocolNext

LEMMA RefuseOverdue ==
    ASSUME ExpireAll, UNCHANGED ran
    PROVE  ProtocolNext
<1> DEFINE R == {r \in Reqs : Overdue(r)}
<1>1. status' = [q \in Reqs |-> IF q \in R THEN "expired" ELSE status[q]]
  BY DEF ExpireAll
<1>2. \A r \in R : status[r] = "pending"
  BY DEF Overdue
<1>3. Refuse(R)
  BY <1>1, <1>2 DEF Refuse, Refused
<1> QED
  BY <1>3 DEF ProtocolNext

LEMMA AnswerProtocol ==
    ASSUME AnswersOK, NEW d \in Deciders, NEW r \in Reqs, Answer(d, r)
    PROVE  ProtocolNext \/ UNCHANGED <<status, ran>>
<1>1. CASE DecideAgain(d, r)
  BY <1>1 DEF DecideAgain
<1>2. CASE DecideLate(d, r)
  BY <1>2, RefuseOne DEF DecideLate, Overdue, Refused
<1>3. CASE Deny(d, r)
  BY <1>3, RefuseOne DEF Deny, Open, Refused
<1>4. CASE Claim(d, r)
  BY <1>4 DEF Claim, Open, Allow, ProtocolNext
<1> QED
  BY <1>1, <1>2, <1>3, <1>4 DEF Answer

LEMMA WorkingProtocol ==
    ASSUME AnswersOK, ClaimInv, NEW d \in Deciders, Working(d)
    PROVE  ProtocolNext \/ UNCHANGED <<status, ran>>
<1> d \in Threads
  BY DEF Threads
<1>1. CASE Resume(d) \/ Resumed(d)
  BY <1>1 DEF Resume, Resumed
<1>2. ASSUME pc[d] \in Executing
      PROVE  /\ cur[d] \in Reqs /\ status[cur[d]] = "approved"
             /\ ran[cur[d]] = IF pc[d] = "execute" THEN 0 ELSE 1
  <2>1. cur[d] \in Reqs /\ Claimed(d, cur[d])
    BY <1>2 DEF AnswersOK, Holding, Claimed
  <2> QED
    BY <2>1 DEF ClaimInv
<1>3. CASE Execute(d)
  <2>1. ran[cur[d]] = 0 /\ cur[d] \in Reqs /\ status[cur[d]] = "approved"
    BY <1>2, <1>3 DEF Execute, Executing
  <2>2. Start(cur[d])
    BY <1>3, <2>1 DEF Execute, Start
  <2> QED
    BY <2>1, <2>2 DEF ProtocolNext
<1>4. CASE Executed(d)
  <2>1. ran[cur[d]] = 1 /\ cur[d] \in Reqs /\ status[cur[d]] = "approved"
    BY <1>2, <1>4 DEF Executed, Executing
  <2> QED
    BY <1>4, <2>1 DEF Executed, Finish, ProtocolNext
<1>5. CASE NoExecutor(d)
  <2>1. ran[cur[d]] = 0 /\ cur[d] \in Reqs /\ status[cur[d]] = "approved"
    BY <1>2, <1>5 DEF NoExecutor, Executing
  <2> QED
    BY <1>5, <2>1 DEF NoExecutor, GiveUp, ProtocolNext
<1> QED
  BY <1>1, <1>3, <1>4, <1>5 DEF Working

LEMMA ProtocolStep ==
    ASSUME AnswersOK, ClaimInv, [Next]_vars
    PROVE  [ProtocolNext]_<<status, ran>>
<1>1. ASSUME NEW t \in Turns, TurnStep(t) PROVE ProtocolNext \/ UNCHANGED <<status, ran>>
  BY <1>1, RefuseOverdue DEF TurnStep, TurnStart, TurnEnd, Attach
<1>2. ASSUME NEW t \in Threads, Persist(t) \/ Bind(t) PROVE UNCHANGED <<status, ran>>
  BY <1>2 DEF Persist, Bind
<1>3. ASSUME NEW t \in Threads, NEW r \in Reqs, Request(t, r) PROVE ProtocolNext
  BY <1>3 DEF Request, ProtocolNext
<1>4. ASSUME NEW r \in Reqs, Cancel(r) PROVE ProtocolNext
  BY <1>4, RefuseOne DEF Cancel, Refused
<1>5. ASSUME NEW r \in Reqs, Elapse(r) PROVE UNCHANGED <<status, ran>>
  BY <1>5 DEF Elapse
<1>6. CASE Poll
  BY <1>6, RefuseOverdue DEF Poll
<1>7. CASE UNCHANGED vars
  BY <1>7 DEF vars
<1> QED
  BY <1>1, <1>2, <1>3, <1>4, <1>5, <1>6, <1>7, AnswerProtocol, WorkingProtocol DEF Next

\* Every behaviour of the manager and its actors is one of the abstract
\* protocol: one answer, at most one start and only after it, a final outcome.
THEOREM Implementation == Spec => ImplementsProtocol
<1>1. Init => ProtocolInit
  BY DEF Init
<1>2. TypeOK /\ ClaimInv /\ [Next]_vars => [ProtocolNext]_<<status, ran>>
  BY ProtocolStep DEF TypeOK
<1>3. Spec => [](TypeOK /\ ClaimInv)
  BY ApprovalTypes, ClaimIsExclusive, PTL
<1> QED
  BY <1>1, <1>2, <1>3, PTL DEF Spec, ImplementsProtocol, Protocol

\* Every set of naturals with a member has a smallest one.
LEMMA Smallest ==
    ASSUME NEW S \in SUBSET Nat, S # {}
    PROVE  \E m \in S : \A j \in S : m <= j
<1> DEFINE R == OpToRel(<, Nat)
<1>1. IsWellFoundedOn(R, Nat)
  BY NatLessThanWellFounded
<1>2. R = {pair \in Nat \X Nat : pair[1] < pair[2]}
  BY DEF OpToRel
<1> HIDE DEF R
<1>3. PICK m \in S : \A j \in S : ~(<<j, m>> \in R)
  BY <1>1, WFMin
<1>4. \A j \in S : ~(j < m)
  BY <1>2, <1>3
<1> QED
  BY <1>4

(***************************************************************************)
(* The index of the requests: what pruning keeps.                          *)
(***************************************************************************)

\* The end of a sequence that lists each member once.
LEMMA RestOf ==
    ASSUME NEW S, NEW s \in Seq(S), IsInjective(s), NEW n \in 0..Len(s)
    PROVE  LET rest == SubSeq(s, n + 1, Len(s))
           IN /\ rest \in Seq(S) /\ Len(rest) = Len(s) - n
              /\ ToSet(rest) = {s[i] : i \in n + 1 .. Len(s)}
              /\ IsInjective(rest)
<1> DEFINE rest == SubSeq(s, n + 1, Len(s))
<1>1. Len(s) \in Nat /\ n \in Nat /\ n <= Len(s) /\ DOMAIN s = 1..Len(s)
  OBVIOUS
<1>2. rest \in Seq(S) /\ Len(rest) = Len(s) - n
  <2>1. n + 1 \in Int /\ Len(s) \in Int /\ \A i \in n + 1 .. Len(s) : s[i] \in S
    BY <1>1
  <2>2. /\ rest \in Seq(S)
        /\ Len(rest) = IF n + 1 <= Len(s) THEN Len(s) - (n + 1) + 1 ELSE 0
    BY <2>1, SubSeqProperties, Zenon
  <2> HIDE DEF rest
  <2>3. CASE n + 1 <= Len(s)
    BY <1>1, <2>2, <2>3
  <2>4. CASE ~(n + 1 <= Len(s))
    <3>1. n = Len(s) /\ Len(s) - n = 0
      <4> DEFINE l == Len(s)
      <4>1. l \in Nat /\ n \in Nat /\ n <= l /\ ~(n + 1 <= l)
        BY <1>1, <2>4
      <4> HIDE DEF l
      <4>2. n = l /\ l - n = 0
        BY <4>1
      <4> QED
        BY <4>2 DEF l
    <3>2. Len(rest) = 0
      BY <2>2, <2>4, Zenon
    <3> QED
      BY <2>2, <3>1, <3>2
  <2> QED
    BY <2>3, <2>4
<1>3. DOMAIN rest = 1..(Len(s) - n)
  BY <1>2
<1>4. \A i \in 1..(Len(s) - n) : rest[i] = s[n + i]
  BY <1>1
<1> HIDE DEF rest
<1>5. ToSet(rest) = {s[i] : i \in n + 1 .. Len(s)}
  <2>1. ToSet(rest) \subseteq {s[i] : i \in n + 1 .. Len(s)}
    <3> SUFFICES ASSUME NEW i \in 1..(Len(s) - n)
                 PROVE  rest[i] \in {s[j] : j \in n + 1 .. Len(s)}
      BY <1>3 DEF ToSet
    <3>1. n + i \in n + 1 .. Len(s)
      BY <1>1
    <3> QED
      BY <1>4, <3>1
  <2>2. {s[i] : i \in n + 1 .. Len(s)} \subseteq ToSet(rest)
    <3> SUFFICES ASSUME NEW j \in n + 1 .. Len(s) PROVE s[j] \in ToSet(rest)
      OBVIOUS
    <3>1. j - n \in 1..(Len(s) - n) /\ n + (j - n) = j
      BY <1>1
    <3>2. rest[j - n] = s[j]
      BY <1>4, <3>1
    <3> QED
      BY <1>3, <3>1, <3>2 DEF ToSet
  <2> QED
    BY <2>1, <2>2
<1>6. IsInjective(rest)
  <2> SUFFICES ASSUME NEW a \in 1..(Len(s) - n), NEW b \in 1..(Len(s) - n), rest[a] = rest[b]
               PROVE  a = b
    BY <1>3 DEF IsInjective
  <2>1. n + a \in DOMAIN s /\ n + b \in DOMAIN s /\ s[n + a] = s[n + b]
    BY <1>1, <1>4
  <2>2. n + a = n + b
    BY <2>1 DEF IsInjective
  <2> QED
    BY <1>1, <2>2
<1> QED
  BY <1>2, <1>5, <1>6 DEF rest

\* One more at the end.
LEMMA Appended ==
    ASSUME NEW S, NEW s \in Seq(S), NEW e \in S
    PROVE  /\ ToSet(Append(s, e)) = ToSet(s) \cup {e}
           /\ IsInjective(s) /\ e \notin ToSet(s) => IsInjective(Append(s, e))
<1> DEFINE q == Append(s, e)
<1>1. Len(s) \in Nat /\ DOMAIN s = 1..Len(s) /\ DOMAIN q = 1..(Len(s) + 1)
  OBVIOUS
<1>2. q[Len(s) + 1] = e /\ \A i \in 1..Len(s) : q[i] = s[i]
  BY <1>1
<1>3. \A i \in 1..(Len(s) + 1) : i = Len(s) + 1 \/ i \in 1..Len(s)
  BY <1>1
<1>4. Len(s) + 1 \in 1..(Len(s) + 1) /\ 1..Len(s) \subseteq 1..(Len(s) + 1)
  BY <1>1
<1> HIDE DEF q
<1>5. ToSet(q) = ToSet(s) \cup {e}
  BY <1>1, <1>2, <1>3, <1>4 DEF ToSet
<1>6. ASSUME IsInjective(s), e \notin ToSet(s) PROVE IsInjective(q)
  <2> SUFFICES ASSUME NEW a \in DOMAIN q, NEW b \in DOMAIN q, q[a] = q[b] PROVE a = b
    BY DEF IsInjective
  <2>1. \A i \in 1..Len(s) : s[i] \in ToSet(s)
    BY <1>1 DEF ToSet
  <2> QED
    BY <1>1, <1>2, <1>3, <1>6, <2>1 DEF IsInjective
<1> QED
  BY <1>5, <1>6 DEF q

\* The first goes to the end.
LEMMA Rotated ==
    ASSUME NEW S, NEW s \in Seq(S), s # << >>, IsInjective(s)
    PROVE  LET q == Append(Tail(s), Head(s))
           IN q \in Seq(S) /\ ToSet(q) = ToSet(s) /\ IsInjective(q)
<1>1. Len(s) \in Nat \ {0} /\ DOMAIN s = 1..Len(s) /\ Tail(s) \in Seq(S) /\ Head(s) = s[1]
      /\ 1 \in DOMAIN s /\ Head(s) \in S
  OBVIOUS
<1>2. Len(Tail(s)) = Len(s) - 1 /\ DOMAIN Tail(s) = 1..(Len(s) - 1)
      /\ \A i \in 1..(Len(s) - 1) : Tail(s)[i] = s[i + 1]
  BY <1>1
<1>3. \A i \in 1..(Len(s) - 1) : i + 1 \in DOMAIN s /\ i + 1 # 1
  BY <1>1
<1>4. IsInjective(Tail(s))
  <2> SUFFICES ASSUME NEW a \in 1..(Len(s) - 1), NEW b \in 1..(Len(s) - 1),
                      Tail(s)[a] = Tail(s)[b]
               PROVE  a = b
    BY <1>2 DEF IsInjective
  <2>1. a + 1 = b + 1
    BY <1>2, <1>3 DEF IsInjective
  <2> QED
    BY <2>1
<1>5. Head(s) \notin ToSet(Tail(s))
  BY <1>1, <1>2, <1>3 DEF ToSet, IsInjective
<1>6. ToSet(Tail(s)) \cup {Head(s)} = ToSet(s)
  <2>1. ToSet(Tail(s)) \cup {Head(s)} \subseteq ToSet(s)
    BY <1>1, <1>2, <1>3 DEF ToSet
  <2>2. ASSUME NEW j \in 1..Len(s) PROVE s[j] \in ToSet(Tail(s)) \cup {Head(s)}
    <3>1. j = 1 \/ (j - 1 \in 1..(Len(s) - 1) /\ (j - 1) + 1 = j)
      BY <1>1
    <3> QED
      BY <1>1, <1>2, <3>1 DEF ToSet
  <2> QED
    BY <1>1, <2>1, <2>2 DEF ToSet
<1> DEFINE q == Append(Tail(s), Head(s))
<1>7. q \in Seq(S)
  BY <1>1
<1>8. /\ ToSet(q) = ToSet(Tail(s)) \cup {Head(s)}
      /\ IsInjective(Tail(s)) /\ Head(s) \notin ToSet(Tail(s)) => IsInjective(q)
  BY <1>1, Appended, Zenon
<1> QED
  BY <1>4, <1>5, <1>6, <1>7, <1>8

\* Pruning drops the oldest, and no request that is open.
LEMMA PrunedKeeps ==
    ASSUME RecordsOK, IsInjective(order)
    PROVE  \E n \in 0..Len(order) :
             /\ ToSet(Pruned) = {order[i] : i \in n + 1 .. Len(order)}
             /\ IsInjective(Pruned)
             /\ \A i \in DOMAIN order : Open(order[i]) => i > n
<1> DEFINE excess == Len(order) - MaxRecords
           opens == {i \in DOMAIN order : Open(order[i])}
           stops == {i \in opens : i <= excess /\ \A j \in opens : i <= j}
           rest == SubSeq(order, Dropped.count + 1, Len(order))
<1>1. order \in Seq(Reqs) /\ Len(order) \in Nat /\ MaxRecords \in Nat
  BY ApprovalAssumption DEF RecordsOK
<1>2. excess \in Int /\ excess <= Len(order) /\ DOMAIN order = 1..Len(order)
  BY <1>1
<1> HIDE DEF excess
<1>3. Dropped = [count |-> IF stops # {} THEN (CHOOSE i \in stops : TRUE) - 1
                          ELSE IF excess > 0 THEN excess ELSE 0,
                 rotate |-> stops # {}]
  BY DEF Dropped, excess
<1>4. /\ Dropped.count \in 0..Len(order)
      /\ Dropped.rotate => Dropped.count < Len(order)
      /\ \A i \in opens : i > Dropped.count
  <2>1. CASE stops # {}
    <3> DEFINE first == CHOOSE i \in stops : TRUE
    <3>1. first \in stops
      BY <2>1
    <3>2. first \in 1..Len(order) /\ \A j \in opens : first <= j
      BY <3>1, <1>2
    <3>3. Dropped.count = first - 1
      BY <2>1, <1>3
    <3> HIDE DEF first
    <3>4. \A j \in opens : j \in 1..Len(order)
      BY <1>2
    <3> QED
      BY <3>2, <3>3, <3>4, <1>1
  <2>2. CASE stops = {}
    <3>1. Dropped.count = (IF excess > 0 THEN excess ELSE 0) /\ ~Dropped.rotate
      BY <2>2, <1>3
    <3>2. ASSUME NEW i \in opens PROVE i > excess
      <4>1. opens \subseteq Nat /\ opens # {}
        BY <1>2
      <4>2. PICK m \in opens : \A j \in opens : m <= j
        BY <4>1, Smallest
      <4>3. ~(m <= excess)
        BY <2>2, <4>2
      <4> QED
        BY <4>1, <4>2, <4>3, <1>2
    <3> QED
      BY <3>1, <3>2, <1>1, <1>2
  <2> QED
    BY <2>1, <2>2
<1>5. /\ rest \in Seq(Reqs) /\ Len(rest) = Len(order) - Dropped.count /\ IsInjective(rest)
      /\ ToSet(rest) = {order[i] : i \in Dropped.count + 1 .. Len(order)}
  BY <1>1, <1>4, RestOf
<1>6. Dropped.rotate => rest # << >>
  <2>1. Dropped.rotate => Len(rest) > 0
    BY <1>1, <1>4, <1>5
  <2> HIDE DEF rest
  <2>2. rest = << >> => Len(rest) = 0
    OBVIOUS
  <2> QED
    BY <2>1, <2>2
<1> HIDE DEF rest
<1>7. Pruned = IF Dropped.rotate THEN Append(Tail(rest), Head(rest)) ELSE rest
  BY DEF Pruned, rest
<1>8. ToSet(Pruned) = ToSet(rest) /\ IsInjective(Pruned)
  BY <1>5, <1>6, <1>7, Rotated
<1> QED
  BY <1>4, <1>5, <1>8


\* What a step may make of the status of one request, and of the clock.
StatusMove(q) ==
    \/ status'[q] = status[q]
    \/ status[q] = "absent" /\ status'[q] = "pending"
    \/ status[q] = "pending" /\ status'[q] \in {"expired", "cancelled"}
    \/ status[q] = "pending" /\ q \notin late /\ status'[q] \in {"denied", "approved"}
    \/ status[q] = "approved" /\ status'[q] \in Finished

LEMMA OneMoves ==
    ASSUME AnswersOK, NEW r \in Reqs, NEW s, Become(r, s),
           \/ status[r] = "absent" /\ s = "pending"
           \/ status[r] = "pending" /\ s \in {"expired", "cancelled"}
           \/ status[r] = "pending" /\ r \notin late /\ s \in {"denied", "approved"}
           \/ status[r] = "approved" /\ s \in Finished
    PROVE  status'[r] = s /\ \A q \in Reqs : StatusMove(q)
<1>1. \A q \in Reqs : status'[q] = IF q = r THEN s ELSE status[q]
  BY DEF Become, AnswersOK
<1> QED
  BY <1>1 DEF StatusMove

LEMMA ExpireMoves ==
    ASSUME ExpireAll
    PROVE  \A q \in Reqs : StatusMove(q) /\ (Overdue(q) => status'[q] = "expired")
BY DEF ExpireAll, Overdue, StatusMove

\* An executor answers for a request that is approved.
LEMMA ExecutorMoves ==
    ASSUME AnswersOK, ClaimInv, NEW d \in Deciders, NoExecutor(d) \/ Executed(d)
    PROVE  /\ cur[d] \in Reqs
           /\ \E s \in Finished : Become(cur[d], s) /\ WriteBack(cur[d], s)
           /\ status[cur[d]] = "approved"
<1>1. pc[d] \in Executing /\ d \in Threads
  BY DEF NoExecutor, Executed, Executing, Threads
<1>2. cur[d] \in Reqs
  BY <1>1 DEF AnswersOK, Holding
<1>3. status[cur[d]] = "approved"
  BY <1>1, <1>2 DEF ClaimInv, Claimed
<1> QED
  BY <1>2, <1>3 DEF NoExecutor, Executed, Finished

LEMMA StatusMoves ==
    ASSUME AnswersOK, ClaimInv, [Next]_vars
    PROVE  late \subseteq late' /\ \A q \in Reqs : StatusMove(q)
<1>1. ASSUME UNCHANGED status PROVE \A q \in Reqs : StatusMove(q)
  BY <1>1 DEF StatusMove
<1>2. ASSUME NEW t \in Turns, TurnStep(t) PROVE \A q \in Reqs : StatusMove(q)
  BY <1>2, ExpireMoves DEF TurnStep, TurnStart, TurnEnd, Attach, StatusMove
<1>3. ASSUME NEW d \in Deciders, Working(d) PROVE \A q \in Reqs : StatusMove(q)
  <2>1. CASE NoExecutor(d) \/ Executed(d)
    BY <2>1, ExecutorMoves, OneMoves
  <2>2. CASE Execute(d) \/ Resume(d) \/ Resumed(d)
    BY <2>2 DEF Execute, Resume, Resumed, StatusMove
  <2> QED
    BY <1>3, <2>1, <2>2 DEF Working
<1>4. ASSUME NEW d \in Deciders, NEW r \in Reqs, Answer(d, r) PROVE \A q \in Reqs : StatusMove(q)
  <2>1. CASE DecideAgain(d, r)
    BY <2>1 DEF DecideAgain, StatusMove
  <2>2. CASE DecideLate(d, r)
    BY <2>2, OneMoves DEF DecideLate, Overdue
  <2>3. CASE Deny(d, r)
    BY <2>3, OneMoves DEF Deny, Open
  <2>4. CASE Claim(d, r)
    BY <2>4, OneMoves DEF Claim, Open
  <2> QED
    BY <1>4, <2>1, <2>2, <2>3, <2>4 DEF Answer
<1>5. ASSUME NEW t \in Threads, NEW r \in Reqs, Request(t, r) PROVE \A q \in Reqs : StatusMove(q)
  BY <1>5, OneMoves DEF Request, Ask
<1>6. ASSUME NEW r \in Reqs, Cancel(r) PROVE \A q \in Reqs : StatusMove(q)
  BY <1>6, OneMoves DEF Cancel
<1>7. ASSUME Poll PROVE \A q \in Reqs : StatusMove(q)
  BY <1>7, ExpireMoves DEF Poll
<1>8. \/ UNCHANGED status
      \/ \E t \in Turns : TurnStep(t)
      \/ \E d \in Deciders : Working(d) \/ \E r \in Reqs : Answer(d, r)
      \/ \E t \in Threads, r \in Reqs : Request(t, r)
      \/ \E r \in Reqs : Cancel(r)
      \/ Poll
  BY DEF Next, vars, Persist, Bind, Elapse
<1>9. \A q \in Reqs : StatusMove(q)
  BY <1>1, <1>2, <1>3, <1>4, <1>5, <1>6, <1>7, <1>8
<1>10. late \subseteq late'
  <2>1. CASE \E r \in Reqs : Elapse(r)
    BY <2>1 DEF Elapse
  <2>2. ASSUME NEW d \in Deciders, Working(d) \/ \E r \in Reqs : Answer(d, r) PROVE late' = late
    BY <2>2 DEF Working, Answer, NoExecutor, Execute, Executed, Resume, Resumed,
                DecideAgain, DecideLate, Deny, Claim, records
  <2>3. ASSUME NEW t \in Turns, TurnStep(t) PROVE late' = late
    BY <2>3 DEF TurnStep, TurnStart, TurnEnd, Attach, records
  <2>4. ASSUME NEW t \in Threads, Persist(t) \/ Bind(t) \/ \E r \in Reqs : Request(t, r)
        PROVE  late' = late
    BY <2>4 DEF Persist, Bind, Request, records
  <2>5. ASSUME Poll \/ (\E r \in Reqs : Cancel(r)) \/ UNCHANGED vars PROVE late' = late
    BY <2>5 DEF Poll, Cancel, vars, records
  <2> QED
    BY <2>1, <2>2, <2>3, <2>4, <2>5 DEF Next
<1> QED
  BY <1>9, <1>10

\* The list and the table; a kept request has been made.
IndexInv == IndexAgrees /\ \A r \in kept : status[r] # "absent"

LEMMA IndexStep ==
    ASSUME TypeOK, ClaimInv, IndexInv, [Next]_vars
    PROVE  IndexInv' /\ \A r \in Reqs : Open(r) => r \in kept'
<1>t. AnswersOK /\ RecordsOK /\ order \in Seq(Reqs) /\ kept \subseteq Reqs /\ kept' \subseteq Reqs
  <2>1. RecordsOK'
    BY RecordsStep DEF TypeOK
  <2> QED
    BY <2>1 DEF TypeOK, RecordsOK
<1>s. \A q \in Reqs : StatusMove(q)
  BY <1>t, StatusMoves
<1>1. ASSUME NEW t \in Threads, NEW r \in Reqs, Request(t, r)
      PROVE  IndexInv' /\ \A q \in Reqs : Open(q) => q \in kept'
  <2>1. PICK n \in 0..Len(order) :
             /\ ToSet(Pruned) = {order[i] : i \in n + 1 .. Len(order)}
             /\ IsInjective(Pruned)
             /\ \A i \in DOMAIN order : Open(order[i]) => i > n
    BY <1>t, PrunedKeeps DEF IndexInv, IndexAgrees
  <2>2. Pruned \in Seq(Reqs) /\ DOMAIN order = 1..Len(order) /\ Len(order) \in Nat
    BY <1>t, PrunedTyped
  <2>3. ToSet(Pruned) \subseteq kept
    <3>1. \A i \in n + 1 .. Len(order) : i \in DOMAIN order
      BY <2>2
    <3> QED
      BY <2>1, <3>1 DEF IndexInv, IndexAgrees, ToSet
  <2>4. r \notin kept /\ order' = Append(Pruned, r) /\ kept' = ToSet(Pruned) \cup {r}
    BY <1>1 DEF Request, Ask, IndexInv
  <2>5. IndexAgrees'
    BY <2>1, <2>2, <2>3, <2>4, Appended DEF IndexAgrees
  <2>6. \A q \in kept' : status'[q] # "absent"
    <3>1. \A q \in kept : status[q] # "absent"
      BY DEF IndexInv
    <3>2. status'[r] = "pending"
      BY <1>t, <1>1 DEF Request, Ask, Become, AnswersOK
    <3>3. \A q \in kept : status'[q] # "absent"
      BY <1>s, <1>t, <3>1 DEF StatusMove, Finished
    <3> QED
      BY <2>3, <2>4, <3>2, <3>3
  <2>7. ASSUME NEW q \in Reqs, Open(q) PROVE q \in kept'
    <3>1. PICK i \in DOMAIN order : order[i] = q
      BY <2>7 DEF Open, IndexInv, IndexAgrees, ToSet
    <3>2. i \in n + 1 .. Len(order)
      BY <2>1, <2>2, <2>7, <3>1
    <3> QED
      BY <2>1, <2>4, <3>1, <3>2
  <2> QED
    BY <2>5, <2>6, <2>7 DEF IndexInv
<1>2. ASSUME UNCHANGED <<kept, order>>
      PROVE  IndexInv' /\ \A q \in Reqs : Open(q) => q \in kept'
  <2>1. \A q \in kept : status'[q] # "absent"
    BY <1>s, <1>t DEF StatusMove, Finished, IndexInv
  <2> QED
    BY <1>2, <2>1 DEF IndexInv, IndexAgrees, Open
<1>3. UNCHANGED <<kept, order>> \/ \E t \in Threads, r \in Reqs : Request(t, r)
  <2>1. ASSUME NEW d \in Deciders, Working(d) \/ \E r \in Reqs : Answer(d, r)
        PROVE  UNCHANGED <<kept, order>>
    BY <2>1 DEF Working, Answer, NoExecutor, Execute, Executed, Resume, Resumed,
                DecideAgain, DecideLate, Deny, Claim, records
  <2>2. ASSUME NEW t \in Turns, TurnStep(t) PROVE UNCHANGED <<kept, order>>
    BY <2>2 DEF TurnStep, TurnStart, TurnEnd, Attach, records
  <2>3. ASSUME NEW t \in Threads, Persist(t) \/ Bind(t) PROVE UNCHANGED <<kept, order>>
    BY <2>3 DEF Persist, Bind, records
  <2>4. ASSUME Poll \/ (\E r \in Reqs : Cancel(r) \/ Elapse(r)) \/ UNCHANGED vars
        PROVE  UNCHANGED <<kept, order>>
    BY <2>4 DEF Poll, Cancel, Elapse, vars, records
  <2> QED
    BY <2>1, <2>2, <2>3, <2>4 DEF Next
<1> QED
  BY <1>1, <1>2, <1>3

LEMMA IndexInit == Init => IndexInv
<1> SUFFICES ASSUME Init PROVE IndexInv
  OBVIOUS
<1>1. order = << >> /\ kept = {} /\ DOMAIN order = {}
  BY DEF Init
<1> QED
  BY <1>1 DEF IndexInv, IndexAgrees, ToSet, IsInjective

\* approval.py:320 "never drop an unresolved request silently": pruning passes over
\* the open ones, so none disappears however many requests there are.
THEOREM OpenStays == Spec => OpenIsKept
<1>1. Init => TypeOK /\ ClaimInv /\ IndexInv
  BY TypeInit, ClaimInit, IndexInit
<1>2. TypeOK /\ ClaimInv /\ IndexInv /\ [Next]_vars => (TypeOK /\ ClaimInv /\ IndexInv)'
  BY TypeStep, ClaimStep, IndexStep
<1>3. TypeOK /\ ClaimInv /\ IndexInv /\ [Next]_vars => [\A r \in Reqs : Open(r) => r \in kept']_vars
  BY IndexStep
<1> QED
  BY <1>1, <1>2, <1>3, PTL DEF Spec, OpenIsKept


(***************************************************************************)
(* The transcript: what a card says of its request.                        *)
(***************************************************************************)

\* A text about request r is true of these statuses, with these requests late.
Says(text, r, st, lt) ==
    text \in Terminal =>
        text = st[r] \/ (text = "expired" /\ r \in lt /\ st[r] \in {"pending", "cancelled"})

\* What is in the transcript, what a thread is about to persist, and the message a
\* request is bound to, or will be.
CardsInv ==
    /\ \A i \in DOMAIN chat : Says(chat[i].text, chat[i].req, status, late)
    /\ \A t \in Threads : pc[t] = "persist" => Says(shown[t], cur[t], status, late)
    /\ \A t \in Threads : pc[t] = "bind" =>
         mid[t] \in DOMAIN chat /\ chat[mid[t]].req = cur[t]
    /\ \A r \in Reqs : message[r] # 0 =>
         message[r] \in DOMAIN chat /\ chat[message[r]].req = r

\* What is true stays true: an answer is final, and a request that is late is never
\* allowed or denied.
LEMMA SaysStays ==
    ASSUME NEW r \in Reqs, NEW text, StatusMove(r), late \subseteq late',
           Says(text, r, status, late)
    PROVE  Says(text, r, status', late')
BY DEF Says, StatusMove, Terminal, Refused, Finished

\* A step changes a message only to the new status of its request, and appends only
\* what a thread has to persist.
ChatMove ==
    /\ DOMAIN chat \subseteq DOMAIN chat'
    /\ \A i \in DOMAIN chat :
         /\ chat'[i].req = chat[i].req
         /\ chat'[i].text = chat[i].text \/ chat'[i].text = status'[chat[i].req]
    /\ \A i \in DOMAIN chat' :
         \/ i \in DOMAIN chat
         \/ \E t \in Threads : /\ pc[t] = "persist"
                               /\ chat'[i].req = cur[t] /\ chat'[i].text = shown[t]

\* A thread takes up a text that is true, and a message of its own request.
ThreadMove(t) ==
    /\ pc'[t] = "persist" =>
         \/ pc[t] = "persist" /\ shown'[t] = shown[t] /\ cur'[t] = cur[t]
         \/ Says(shown'[t], cur'[t], status', late')
    /\ pc'[t] = "bind" =>
         \/ pc[t] = "bind" /\ mid'[t] = mid[t] /\ cur'[t] = cur[t]
         \/ mid'[t] \in DOMAIN chat' /\ chat'[mid'[t]].req = cur'[t]

BoundMove ==
    \A r \in Reqs :
      \/ message'[r] = message[r]
      \/ \E t \in Threads : pc[t] = "bind" /\ cur[t] = r /\ message'[r] = mid[t]

CardsMove == ChatMove /\ (\A t \in Threads : ThreadMove(t)) /\ BoundMove

LEMMA TranscriptFacts ==
    ASSUME TypeOK
    PROVE  /\ AnswersOK /\ TranscriptOK /\ chat \in Seq(Messages)
           /\ \A i \in DOMAIN chat : chat[i] \in Messages /\ chat[i].req \in Reqs
           /\ DOMAIN chat = 1..Len(chat) /\ Len(chat) \in Nat
<1>1. AnswersOK /\ TranscriptOK /\ chat \in Seq(Messages)
  BY DEF TypeOK, TranscriptOK
<1>2. DOMAIN chat = 1..Len(chat) /\ Len(chat) \in Nat /\ \A i \in DOMAIN chat : chat[i] \in Messages
  BY <1>1
<1>3. \A m \in Messages : m.req \in Reqs
  BY DEF Messages
<1> QED
  BY <1>1, <1>2, <1>3

LEMMA CardsKept ==
    ASSUME TypeOK, CardsInv, CardsMove, late \subseteq late', \A q \in Reqs : StatusMove(q)
    PROVE  CardsInv'
<1>t. AnswersOK /\ \A i \in DOMAIN chat : chat[i].req \in Reqs
  BY TranscriptFacts
<1>h. \A t \in Threads : pc[t] \in {"persist", "bind"} => cur[t] \in Reqs
  BY <1>t DEF AnswersOK, Holding
<1>1. ASSUME NEW i \in DOMAIN chat' PROVE Says(chat'[i].text, chat'[i].req, status', late')
  <2>1. CASE i \in DOMAIN chat
    <3>1. chat'[i].req = chat[i].req /\ chat[i].req \in Reqs
      BY <1>t, <2>1 DEF CardsMove, ChatMove
    <3>2. Says(chat[i].text, chat[i].req, status', late')
      BY <1>t, <2>1, SaysStays DEF CardsInv
    <3>3. chat'[i].text = chat[i].text \/ chat'[i].text = status'[chat[i].req]
      BY <2>1 DEF CardsMove, ChatMove
    <3> QED
      BY <3>1, <3>2, <3>3 DEF Says
  <2>2. CASE i \notin DOMAIN chat
    <3>1. PICK t \in Threads : /\ pc[t] = "persist"
                               /\ chat'[i].req = cur[t] /\ chat'[i].text = shown[t]
      BY <2>2 DEF CardsMove, ChatMove
    <3>2. Says(shown[t], cur[t], status', late')
      BY <1>h, <3>1, SaysStays DEF CardsInv
    <3> QED
      BY <3>1, <3>2
  <2> QED
    BY <2>1, <2>2
<1>2. ASSUME NEW t \in Threads, pc'[t] = "persist"
      PROVE  Says(shown'[t], cur'[t], status', late')
  <2>1. CASE pc[t] = "persist" /\ shown'[t] = shown[t] /\ cur'[t] = cur[t]
    <3>1. Says(shown[t], cur[t], status', late')
      BY <1>h, <2>1, SaysStays DEF CardsInv
    <3> QED
      BY <2>1, <3>1
  <2> QED
    BY <1>2, <2>1 DEF CardsMove, ThreadMove
<1>3. ASSUME NEW t \in Threads, pc'[t] = "bind"
      PROVE  mid'[t] \in DOMAIN chat' /\ chat'[mid'[t]].req = cur'[t]
  <2>1. CASE pc[t] = "bind" /\ mid'[t] = mid[t] /\ cur'[t] = cur[t]
    BY <2>1 DEF CardsInv, CardsMove, ChatMove
  <2> QED
    BY <1>3, <2>1 DEF CardsMove, ThreadMove
<1>4. ASSUME NEW r \in Reqs, message'[r] # 0
      PROVE  message'[r] \in DOMAIN chat' /\ chat'[message'[r]].req = r
  <2>1. CASE message'[r] = message[r]
    BY <1>4, <2>1 DEF CardsInv, CardsMove, ChatMove
  <2>2. ASSUME NEW t \in Threads, pc[t] = "bind", cur[t] = r, message'[r] = mid[t]
        PROVE  message'[r] \in DOMAIN chat' /\ chat'[message'[r]].req = r
    BY <2>2 DEF CardsInv, CardsMove, ChatMove
  <2> QED
    BY <2>1, <2>2 DEF CardsMove, BoundMove
<1> QED
  BY <1>1, <1>2, <1>3, <1>4 DEF CardsInv

\* The message bound to a request is one about it, and shows its new status.
LEMMA WriteBackMoves ==
    ASSUME TypeOK, CardsInv, NEW r \in Reqs, NEW s, WriteBack(r, s), status'[r] = s
    PROVE  ChatMove
<1>t. chat \in Seq(Messages) /\ \A i \in DOMAIN chat : chat[i] \in Messages /\ chat[i].req \in Reqs
  BY TranscriptFacts
<1>1. CASE message[r] = 0
  BY <1>1 DEF WriteBack, ChatMove
<1>2. CASE message[r] # 0
  <2>1. message[r] \in DOMAIN chat /\ chat[message[r]].req = r
    BY <1>2 DEF CardsInv
  <2> DEFINE b == message[r]
             card == [chat[b] EXCEPT !.text = s]
  <2>2. chat' = [chat EXCEPT ![b] = card]
    BY <1>2 DEF WriteBack, Shows
  <2>3. card.req = chat[b].req /\ card.text = s
    <3>1. chat[b] \in Messages
      BY <1>t, <2>1
    <3> QED
      BY <3>1, Zenon DEF Messages
  <2> HIDE DEF card, b
  <2>4. DOMAIN chat' = DOMAIN chat /\ \A i \in DOMAIN chat : chat'[i] = IF i = b THEN card ELSE chat[i]
    BY <2>2, Zenon
  <2> QED
    BY <2>1, <2>3, <2>4 DEF ChatMove, b
<1> QED
  BY <1>1, <1>2

LEMMA ExpireMovesCards ==
    ASSUME TypeOK, CardsInv, ExpireAll
    PROVE  ChatMove
<1>t. \A i \in DOMAIN chat : chat[i] \in Messages
  BY TranscriptFacts
<1>1. DOMAIN chat' = DOMAIN chat
  BY DEF ExpireAll
<1>2. ASSUME NEW i \in DOMAIN chat
      PROVE  /\ chat'[i].req = chat[i].req
             /\ chat'[i].text = chat[i].text \/ chat'[i].text = status'[chat[i].req]
  <2>1. CASE \E r \in Reqs : Overdue(r) /\ message[r] = i
    <3>1. PICK r \in Reqs : Overdue(r) /\ message[r] = i
      BY <2>1
    <3>2. chat'[i] = [chat[i] EXCEPT !.text = "expired"]
      BY <2>1 DEF ExpireAll
    <3>3. chat'[i].req = chat[i].req /\ chat'[i].text = "expired"
      BY <1>t, <3>2, Zenon DEF Messages
    <3>4. i # 0
      BY TranscriptFacts
    <3>5. chat[i].req = r
      BY <3>1, <3>4 DEF CardsInv
    <3>6. status'[r] = "expired"
      BY <3>1, ExpireMoves
    <3> QED
      BY <3>3, <3>5, <3>6
  <2>2. CASE ~(\E r \in Reqs : Overdue(r) /\ message[r] = i)
    BY <2>2 DEF ExpireAll
  <2> QED
    BY <2>1, <2>2
<1> QED
  BY <1>1, <1>2 DEF ChatMove

\* A step of one thread that ends at none of the two labels, or with a true text.
LEMMA OneThread ==
    ASSUME TypeOK, NEW t \in Threads, NEW l, Move(t, l),
           UNCHANGED cur \/ \E x : cur' = [cur EXCEPT ![t] = x],
           UNCHANGED shown \/ \E x : shown' = [shown EXCEPT ![t] = x],
           UNCHANGED mid,
           \/ l \notin {"persist", "bind"}
           \/ l = "persist" /\ Says(shown'[t], cur'[t], status', late')
    PROVE  \A u \in Threads : ThreadMove(u)
<1>t. /\ pc \in [Threads -> Labels] /\ cur \in [Threads -> Reqs \cup {None}]
      /\ shown \in [Threads -> Statuses \cup {None}]
  BY DEF TypeOK, AnswersOK, TranscriptOK
<1>1. pc'[t] = l /\ \A u \in Threads : u # t => pc'[u] = pc[u]
  BY <1>t DEF Move
<1>2. \A u \in Threads : u # t => cur'[u] = cur[u]
  BY <1>t
<1>3. \A u \in Threads : u # t => shown'[u] = shown[u]
  BY <1>t
<1>4. ThreadMove(t)
  BY <1>1 DEF ThreadMove
<1>5. ASSUME NEW u \in Threads, u # t PROVE ThreadMove(u)
  BY <1>1, <1>2, <1>3, <1>5 DEF ThreadMove
<1> QED
  BY <1>4, <1>5

\* Nothing happens to the transcript, the threads or the bindings.
LEMMA SameChat == ASSUME UNCHANGED chat PROVE ChatMove
BY DEF ChatMove
LEMMA SameBound == ASSUME UNCHANGED message PROVE BoundMove
BY DEF BoundMove
LEMMA SameThreads == ASSUME UNCHANGED threads PROVE \A t \in Threads : ThreadMove(t)
BY DEF ThreadMove, threads


LEMMA TurnCards ==
    ASSUME TypeOK, CardsInv, NEW t \in Turns, TurnStep(t)
    PROVE  CardsMove
<1> t \in Threads
  BY DEF Threads
<1>1. CASE TurnStart(t)
  <2>1. ChatMove /\ BoundMove
    BY <1>1, SameChat, SameBound DEF TurnStart, records
  <2>2. \A u \in Threads : ThreadMove(u)
    <3>1. Move(t, "run") /\ UNCHANGED <<cur, shown, mid>>
      BY <1>1 DEF TurnStart
    <3> QED
      BY <3>1, OneThread
  <2> QED
    BY <2>1, <2>2 DEF CardsMove
<1>2. CASE TurnEnd(t)
  <2>1. ChatMove /\ BoundMove
    BY <1>2, ExpireMovesCards, SameBound DEF TurnEnd, records
  <2>2. \A u \in Threads : ThreadMove(u)
    <3>1. /\ Move(t, "done") \/ Move(t, "attach")
          /\ UNCHANGED <<shown, mid>>
          /\ UNCHANGED cur \/ \E x : cur' = [cur EXCEPT ![t] = x]
      BY <1>2 DEF TurnEnd
    <3> QED
      BY <3>1, OneThread
  <2> QED
    BY <2>1, <2>2 DEF CardsMove
<1>3. CASE Attach(t)
  <2>1. ChatMove /\ BoundMove
    BY <1>3, SameChat, SameBound DEF Attach
  <2>2. \A u \in Threads : ThreadMove(u)
    <3> DEFINE r == cur[t]
               x == IF Overdue(r) THEN "expired" ELSE status[r]
    <3>1. Move(t, "persist") /\ UNCHANGED <<cur, mid, status, late>> /\ shown' = [shown EXCEPT ![t] = x]
      BY <1>3 DEF Attach
    <3>2. Says(x, r, status', late')
      BY <3>1 DEF Says, Overdue, Terminal, Refused, Finished
    <3>3. shown'[t] = x /\ cur'[t] = r
      BY <3>1 DEF TypeOK, TranscriptOK
    <3> HIDE DEF x
    <3> QED
      BY <3>1, <3>2, <3>3, OneThread
  <2> QED
    BY <2>1, <2>2 DEF CardsMove
<1> QED
  BY <1>1, <1>2, <1>3 DEF TurnStep

LEMMA PersistCards ==
    ASSUME TypeOK, CardsInv, NEW t \in Threads, Persist(t)
    PROVE  CardsMove
<1> DEFINE new == [req |-> cur[t], card |-> t \in Turns, text |-> shown[t]]
           l == Len(chat)
<1>t. chat \in Seq(Messages) /\ DOMAIN chat = 1..l /\ l \in Nat
  BY TranscriptFacts
<1>1. /\ pc[t] = "persist" /\ chat' = Append(chat, new) /\ Move(t, "bind")
      /\ mid' = [mid EXCEPT ![t] = l + 1] /\ UNCHANGED <<cur, shown, message>>
  BY DEF Persist, records
<1>2. new.req = cur[t] /\ new.text = shown[t]
  OBVIOUS
<1> HIDE DEF new
<1>3. /\ DOMAIN chat' = 1..(l + 1) /\ chat'[l + 1] = new
      /\ \A i \in DOMAIN chat : chat'[i] = chat[i]
  BY <1>t, <1>1
<1>4. \A i \in 1..(l + 1) : i \in 1..l \/ i = l + 1
  BY <1>t
<1>5. 1..l \subseteq 1..(l + 1) /\ l + 1 \in 1..(l + 1)
  BY <1>t
<1> HIDE DEF l
<1>6. ChatMove
  BY <1>t, <1>1, <1>2, <1>3, <1>4, <1>5 DEF ChatMove
<1>7. ASSUME NEW u \in Threads PROVE ThreadMove(u)
  <2>t. pc \in [Threads -> Labels] /\ DOMAIN mid = Threads
    BY DEF TypeOK, AnswersOK, TranscriptOK
  <2>1. CASE u = t
    <3>1. pc'[t] = "bind" /\ mid'[t] = l + 1
      BY <1>1, <2>t DEF Move
    <3> QED
      BY <1>1, <1>2, <1>3, <1>5, <2>1, <3>1 DEF ThreadMove
  <2>2. CASE u # t
    <3>1. pc'[u] = pc[u] /\ mid'[u] = mid[u] /\ cur'[u] = cur[u] /\ shown'[u] = shown[u]
      BY <1>1, <2>t, <2>2 DEF Move
    <3> QED
      BY <3>1 DEF ThreadMove
  <2> QED
    BY <2>1, <2>2
<1> QED
  BY <1>1, <1>6, <1>7, SameBound DEF CardsMove

LEMMA BindCards ==
    ASSUME TypeOK, CardsInv, NEW t \in Threads, Bind(t)
    PROVE  CardsMove
<1>1. /\ pc[t] = "bind" /\ Move(t, "done") /\ UNCHANGED <<chat, cur, shown, mid>>
      /\ message' = IF cur[t] \in kept THEN [message EXCEPT ![cur[t]] = mid[t]] ELSE message
  BY DEF Bind
<1>2. BoundMove
  <2>1. DOMAIN message = Reqs
    BY DEF TypeOK, TranscriptOK
  <2>2. \A r \in Reqs : message'[r] = message[r] \/ (cur[t] = r /\ message'[r] = mid[t])
    BY <1>1, <2>1
  <2> QED
    BY <1>1, <2>2 DEF BoundMove
<1>3. \A u \in Threads : ThreadMove(u)
  BY <1>1, OneThread
<1> QED
  BY <1>1, <1>2, <1>3, SameChat DEF CardsMove

\* A reply is made of the status of its request.
LEMMA ReplyMoves ==
    ASSUME TypeOK, NEW d \in Threads, NEW r \in Reqs, NEW s,
           Reply(d, s), status'[r] = s, UNCHANGED mid,
           (UNCHANGED cur /\ cur[d] = r) \/ cur' = [cur EXCEPT ![d] = r]
    PROVE  \A u \in Threads : ThreadMove(u)
<1>1. Move(d, "persist") /\ shown' = [shown EXCEPT ![d] = s]
  BY DEF Reply
<1>2. shown'[d] = s /\ cur'[d] = r
  BY <1>1 DEF TypeOK, AnswersOK, TranscriptOK
<1>3. Says(shown'[d], cur'[d], status', late')
  BY <1>2 DEF Says
<1> QED
  BY <1>1, <1>3, OneThread

LEMMA AnswerCards ==
    ASSUME TypeOK, CardsInv, NEW d \in Deciders, NEW r \in Reqs, Answer(d, r)
    PROVE  CardsMove
<1> d \in Threads
  BY DEF Threads
<1>t. AnswersOK
  BY DEF TypeOK
<1>0. BoundMove
  BY SameBound DEF Answer, DecideAgain, DecideLate, Deny, Claim, records
<1>1. CASE DecideAgain(d, r)
  <2>1. Reply(d, status[r]) /\ status' = status /\ UNCHANGED mid /\ cur' = [cur EXCEPT ![d] = r]
        /\ UNCHANGED chat
    BY <1>1 DEF DecideAgain
  <2>2. status'[r] = status[r]
    BY <2>1
  <2>3. \A u \in Threads : ThreadMove(u)
    BY <2>1, <2>2, ReplyMoves
  <2> QED
    BY <1>0, <2>1, <2>3, SameChat DEF CardsMove
<1>2. CASE DecideLate(d, r)
  <2>1. Reply(d, "expired") /\ WriteBack(r, "expired") /\ UNCHANGED mid /\ cur' = [cur EXCEPT ![d] = r]
    BY <1>2 DEF DecideLate
  <2>2. status'[r] = "expired"
    BY <1>t, <1>2, OneMoves DEF DecideLate, Overdue
  <2>3. \A u \in Threads : ThreadMove(u)
    BY <2>1, <2>2, ReplyMoves
  <2> QED
    BY <1>0, <2>1, <2>2, <2>3, WriteBackMoves DEF CardsMove
<1>3. CASE Deny(d, r)
  <2>1. Move(d, "resuming") /\ WriteBack(r, "denied") /\ UNCHANGED <<shown, mid>>
        /\ cur' = [cur EXCEPT ![d] = r]
    BY <1>3 DEF Deny
  <2>2. status'[r] = "denied"
    BY <1>t, <1>3, OneMoves DEF Deny, Open
  <2>3. \A u \in Threads : ThreadMove(u)
    BY <2>1, OneThread
  <2> QED
    BY <1>0, <2>1, <2>2, <2>3, WriteBackMoves DEF CardsMove
<1>4. CASE Claim(d, r)
  <2>1. Move(d, "execute") /\ UNCHANGED <<chat, shown, mid>> /\ cur' = [cur EXCEPT ![d] = r]
    BY <1>4 DEF Claim
  <2>3. \A u \in Threads : ThreadMove(u)
    BY <2>1, OneThread
  <2> QED
    BY <1>0, <2>1, <2>3, SameChat DEF CardsMove
<1> QED
  BY <1>1, <1>2, <1>3, <1>4 DEF Answer

LEMMA WorkingCards ==
    ASSUME TypeOK, ClaimInv, CardsInv, NEW d \in Deciders, Working(d)
    PROVE  CardsMove
<1> d \in Threads
  BY DEF Threads
<1>t. AnswersOK
  BY DEF TypeOK
<1>0. BoundMove
  BY SameBound DEF Working, NoExecutor, Execute, Executed, Resume, Resumed, records
<1>1. CASE NoExecutor(d) \/ Executed(d)
  <2>1. cur[d] \in Reqs
    BY <1>1, <1>t, ExecutorMoves
  <2>2. PICK s \in Finished : Become(cur[d], s) /\ WriteBack(cur[d], s)
    BY <1>1, <1>t, ExecutorMoves
  <2>3. status'[cur[d]] = s
    BY <1>t, <2>1, <2>2 DEF Become, AnswersOK
  <2>4. ChatMove
    BY <2>1, <2>2, <2>3, WriteBackMoves
  <2>5. Move(d, "resume") /\ UNCHANGED <<cur, shown, mid>>
    BY <1>1 DEF NoExecutor, Executed
  <2>6. \A u \in Threads : ThreadMove(u)
    BY <2>5, OneThread
  <2> QED
    BY <1>0, <2>4, <2>6 DEF CardsMove
<1>2. CASE Execute(d) \/ Resume(d)
  <2>1. Move(d, "running") \/ Move(d, "resuming")
    BY <1>2 DEF Execute, Resume
  <2>2. UNCHANGED <<chat, cur, shown, mid>>
    BY <1>2 DEF Execute, Resume
  <2>3. \A u \in Threads : ThreadMove(u)
    BY <2>1, <2>2, OneThread
  <2> QED
    BY <1>0, <2>2, <2>3, SameChat DEF CardsMove
<1>3. CASE Resumed(d)
  <2>1. Reply(d, status[cur[d]]) /\ UNCHANGED <<status, chat, cur, mid>> /\ cur[d] \in Reqs
    BY <1>3, <1>t DEF Resumed, AnswersOK, Holding
  <2>2. status'[cur[d]] = status[cur[d]]
    BY <2>1
  <2>3. \A u \in Threads : ThreadMove(u)
    BY <2>1, <2>2, ReplyMoves
  <2> QED
    BY <1>0, <2>1, <2>3, SameChat DEF CardsMove
<1> QED
  BY <1>1, <1>2, <1>3 DEF Working

LEMMA OthersCards ==
    ASSUME TypeOK, CardsInv,
           \/ Poll \/ (\E r \in Reqs : Cancel(r) \/ Elapse(r)) \/ UNCHANGED vars
           \/ \E t \in Threads, r \in Reqs : Request(t, r)
    PROVE  CardsMove
<1>t. AnswersOK
  BY DEF TypeOK
<1>1. BoundMove /\ \A t \in Threads : ThreadMove(t)
  <2>1. UNCHANGED message /\ UNCHANGED threads
    BY DEF Poll, Cancel, Elapse, Request, vars, records
  <2> QED
    BY <2>1, SameBound, SameThreads
<1>2. ASSUME Poll PROVE ChatMove
  BY <1>2, ExpireMovesCards DEF Poll
<1>3. ASSUME NEW r \in Reqs, Cancel(r) PROVE ChatMove
  <2>1. status'[r] = "cancelled" /\ WriteBack(r, "cancelled")
    BY <1>t, <1>3, OneMoves DEF Cancel
  <2> QED
    BY <2>1, WriteBackMoves
<1>4. ASSUME UNCHANGED chat PROVE ChatMove
  BY <1>4, SameChat
<1>5. UNCHANGED chat \/ Poll \/ \E r \in Reqs : Cancel(r)
  BY DEF Elapse, Request, vars
<1> QED
  BY <1>1, <1>2, <1>3, <1>4, <1>5 DEF CardsMove

LEMMA CardsStep ==
    ASSUME TypeOK, ClaimInv, CardsInv, [Next]_vars
    PROVE  CardsInv'
<1>1. CardsMove
  BY TurnCards, PersistCards, BindCards, AnswerCards, WorkingCards, OthersCards DEF Next
<1>2. late \subseteq late' /\ \A q \in Reqs : StatusMove(q)
  BY StatusMoves DEF TypeOK
<1> QED
  BY <1>1, <1>2, CardsKept

LEMMA CardsInit == Init => CardsInv
<1> SUFFICES ASSUME Init PROVE CardsInv
  OBVIOUS
<1>1. DOMAIN chat = {} /\ (\A t \in Threads : pc[t] = "idle") /\ \A r \in Reqs : message[r] = 0
  BY DEF Init
<1> QED
  BY <1>1 DEF CardsInv

\* The list and the table name the same requests, each once, and no message of the
\* transcript shows a resolution that its request does not have.
THEOREM RecordsHold == Spec => []RecordsAgree
<1> DEFINE I == TypeOK /\ ClaimInv /\ IndexInv /\ CardsInv
<1>1. Init => I
  BY TypeInit, ClaimInit, IndexInit, CardsInit
<1>2. I /\ [Next]_vars => I'
  BY TypeStep, ClaimStep, IndexStep, CardsStep
<1>3. I => RecordsAgree
  BY DEF IndexInv, CardsInv, Says, RecordsAgree, CardsAreTrue, ReadsExpired
<1> HIDE DEF I
<1> QED
  BY <1>1, <1>2, <1>3, PTL DEF Spec

===============================================================================
