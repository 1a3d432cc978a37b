---------------------- MODULE Web3Transactions_proof ----------------------
(***************************************************************************)
(* Proofs about Web3Transactions, for any number of transactions, threads, *)
(* raws and restarts.                                                      *)
(***************************************************************************)
EXTENDS Web3Transactions, TLAPS

USE DEF Procs

\* The policy's verdict is one of three, whatever the request.
LEMMA VerdictType ==
    ASSUME NEW m, NEW req, NEW spent
    PROVE  Evaluate(m, req, spent) \in Verdicts
  BY DEF Evaluate, Verdicts

\* Writing one column of a row leaves a row.
LEMMA RowUpdate ==
    ASSUME NEW r \in Rows
    PROVE  /\ \A s \in Statuses : [r EXCEPT !.status = s] \in Rows
           /\ \A a \in {"", "policy"} : [r EXCEPT !.authorizedBy = a] \in Rows
           /\ \A w \in Raws \cup {None} : [r EXCEPT !.sealed = w] \in Rows
           /\ \A w \in Raws \cup {None} : [r EXCEPT !.hash = w] \in Rows
           /\ r.sealed \in Raws \cup {None} /\ r.hash \in Raws \cup {None}
           /\ r.status \in Statuses
  BY DEF Rows

\* A prepared row is a row.
LEMMA NewRowType ==
    ASSUME NEW s \in Statuses, NEW a \in BOOLEAN PROVE NewRow(s, a) \in Rows
  BY DEF Rows, NewRow

\* What the plumbing shared by the actions does to the threads' variables.
LEMMA Plumbing ==
    ASSUME ThreadsOK, NEW p \in Procs
    PROVE  /\ Return(p) => ThreadsOK'
           /\ pc[p] # "idle" /\ ReleaseToSign(p) => ThreadsOK'
           /\ \A l \in Labels :
                /\ pc[p] # "idle"
                /\ l \notin {"insert", "outcome"} /\ (l \in HoldingRaw => local[p] \in Raws)
                /\ lock' \in Procs \cup {None}
                /\ Move(p, l) /\ UNCHANGED <<cur, local>>
                => ThreadsOK'
<1> USE DEF ThreadsOK, Move, HoldingRaw
<1>1. ASSUME Return(p) PROVE ThreadsOK'
  BY <1>1 DEF Return, Leave, Labels
<1>2. ASSUME pc[p] # "idle", ReleaseToSign(p) PROVE ThreadsOK'
  BY <1>2 DEF ReleaseToSign, Labels
<1>3. ASSUME NEW l \in Labels, pc[p] # "idle", l \notin {"insert", "outcome"},
             l \in HoldingRaw => local[p] \in Raws,
             lock' \in Procs \cup {None}, Move(p, l), UNCHANGED <<cur, local>>
      PROVE  ThreadsOK'
  BY <1>3
<1> QED
  BY <1>1, <1>2, <1>3

\* Writing a status, or a row, leaves the table well typed.
LEMMA RowsTyped ==
    ASSUME RowsOK
    PROVE  /\ \A x, s : s \in Statuses /\ SetStatus(x, s) => RowsOK'
           /\ \A x, r : r \in Rows /\ row' = [row EXCEPT ![x] = r] => RowsOK'
<1>1. ASSUME NEW x, NEW s \in Statuses, SetStatus(x, s) PROVE RowsOK'
  BY <1>1, RowUpdate DEF RowsOK, SetStatus
<1>2. ASSUME NEW x, NEW r \in Rows, row' = [row EXCEPT ![x] = r] PROVE RowsOK'
  BY <1>2 DEF RowsOK
<1> QED
  BY <1>1, <1>2

\* A thread inside or before the block keeps the variables typed.
LEMMA SignStepTyped ==
    ASSUME TypeOK, NEW p \in Procs, SignStep(p)
    PROVE  TypeOK'
<1> USE DEF TypeOK
<1>l. lock \in Procs \cup {None} /\ row \in [Txs -> Rows] /\ (pc[p] # "idle" => cur[p] \in Txs)
  BY DEF ThreadsOK, RowsOK
<1>0. UNCHANGED control => ControlOK'
  BY DEF control, ControlOK
<1>1. UNCHANGED external => ChainOK'
  BY DEF external, ChainOK
<1>2. UNCHANGED row => RowsOK'
  BY DEF RowsOK
<1>3. CASE SignRefused(p)
  BY <1>0, <1>1, <1>2, <1>3, Plumbing DEF SignRefused
<1>4. CASE SignEnter(p)
  BY <1>0, <1>1, <1>2, <1>4, Plumbing DEF SignEnter, Acquire, Labels, HoldingRaw
<1>5. CASE Check(p)
  <2>1. ControlOK' /\ ChainOK' /\ pc[p] = "check"
    BY <1>0, <1>1, <1>5 DEF Check
  <2>2. CASE Move(p, "mark") /\ UNCHANGED <<row, lock, cur, local>>
    BY <1>2, <2>1, <2>2, <1>l, Plumbing DEF Labels, HoldingRaw
  <2>3. CASE /\ row' = [row EXCEPT ![cur[p]].status = "CONFIRMED",
                                  ![cur[p]].hash = row[cur[p]].sealed]
             /\ Return(p)
    <3>1. RowsOK'
      BY <2>3, RowUpdate DEF RowsOK, Statuses
    <3> QED
      BY <2>1, <2>3, <3>1, Plumbing
  <2> QED
    BY <1>5, <2>2, <2>3 DEF Check
<1>6. CASE Mark(p)
  BY <1>0, <1>1, <1>6, <1>l, Plumbing, RowsTyped DEF Mark, Labels, Statuses, HoldingRaw
<1>7. CASE Derive(p)
  <2>1. RowsOK' /\ ControlOK' /\ ChainOK' /\ pc[p] = "derive"
    BY <1>0, <1>1, <1>2, <1>7 DEF Derive
  <2>2. CASE Return(p)
    BY <2>1, <2>2, Plumbing
  <2>3. ASSUME NEW r \in Raws, local' = [local EXCEPT ![p] = r], Move(p, "seal"),
               UNCHANGED <<lock, cur>>
        PROVE  ThreadsOK'
    BY <2>1, <2>3 DEF ThreadsOK, Move, Labels, HoldingRaw
  <2> QED
    BY <1>7, <2>1, <2>2, <2>3 DEF Derive
<1>8. CASE Seal(p)
  <2>1. local[p] \in Raws /\ pc[p] = "seal"
    BY <1>8 DEF Seal, ThreadsOK, HoldingRaw
  <2>2. RowsOK'
    BY <1>8, <1>l, <2>1, RowUpdate DEF Seal, RowsOK
  <2> QED
    BY <1>0, <1>1, <1>8, <1>l, <2>1, <2>2, Plumbing DEF Seal, Labels
<1>9. CASE MarkSigned(p)
  <2>1. local[p] \in Raws /\ pc[p] = "signed"
    BY <1>9 DEF MarkSigned, ThreadsOK, HoldingRaw
  <2> QED
    BY <1>0, <1>1, <1>9, <1>l, <2>1, Plumbing, RowsTyped DEF MarkSigned, Labels, Statuses
<1>10. CASE Send(p)
  <2>1. local[p] \in Raws /\ pc[p] = "send"
    BY <1>10 DEF Send, ThreadsOK, HoldingRaw
  <2>2. ControlOK' /\ RowsOK' /\ mined' = mined
    BY <1>0, <1>2, <1>10 DEF Send
  <2>3. ChainOK'
    <3>1. CASE sent' = [sent EXCEPT ![cur[p]] = @ \cup {local[p]}]
      BY <2>1, <2>2, <3>1 DEF ChainOK
    <3> QED
      BY <1>10, <2>2, <3>1 DEF Send, ChainOK
  <2>4. ThreadsOK'
    <3>1. CASE Return(p)
      BY <3>1, Plumbing
    <3>2. CASE Move(p, "record") /\ UNCHANGED <<lock, cur, local>>
      BY <2>1, <3>2, <1>l, Plumbing DEF Labels
    <3> QED
      BY <1>10, <3>1, <3>2 DEF Send
  <2> QED
    BY <2>2, <2>3, <2>4
<1>11. CASE RecordBroadcast(p)
  <2>1. local[p] \in Raws /\ pc[p] = "record"
    BY <1>11 DEF RecordBroadcast, ThreadsOK, HoldingRaw
  <2>2. RowsOK'
    BY <1>11, <1>l, <2>1, RowUpdate DEF RecordBroadcast, RowsOK, Statuses
  <2> QED
    BY <1>0, <1>1, <1>11, <2>2, Plumbing DEF RecordBroadcast
<1> QED
  BY <1>3, <1>4, <1>5, <1>6, <1>7, <1>8, <1>9, <1>10, <1>11 DEF SignStep

\* A poll keeps the variables typed: it holds the hash it read, then the outcome.
LEMMA PollStepTyped ==
    ASSUME TypeOK, NEW t \in Threads, PollStep(t)
    PROVE  TypeOK'
<1> USE DEF TypeOK
<1>l. /\ lock \in Procs \cup {None} /\ row \in [Txs -> Rows]
      /\ mined \in [Txs -> [Raws -> Outcomes]]
      /\ pc[t] # "idle" => cur[t] \in Txs
  BY DEF ThreadsOK, RowsOK, ChainOK
<1>0. UNCHANGED control => ControlOK'
  BY DEF control, ControlOK
<1>1. UNCHANGED external => ChainOK'
  BY DEF external, ChainOK
<1>2. lock' = lock /\ Leave(t) => ThreadsOK'
  BY DEF ThreadsOK, Leave, Move, Labels, HoldingRaw
<1>3. ASSUME NEW x \in Txs, Poll(t, x) PROVE TypeOK'
  <2>1. row[x].hash \in Raws
    BY <1>3, <1>l, RowUpdate DEF Poll
  <2>2. ThreadsOK'
    BY <1>3, <2>1 DEF Poll, ThreadsOK, Move, Labels, HoldingRaw
  <2> QED
    BY <1>0, <1>1, <1>3, <2>2 DEF Poll, RowsOK
<1>4. CASE Ask(t)
  <2>1. cur[t] \in Txs /\ local[t] \in Raws /\ lock' = lock
    BY <1>4, <1>l DEF Ask, ThreadsOK, HoldingRaw
  <2>2. CASE Move(t, "outcome") /\ local' = [local EXCEPT ![t] = mined[cur[t]][local[t]]]
             /\ UNCHANGED cur
    <3>1. mined[cur[t]][local[t]] \in Outcomes
      BY <1>l, <2>1
    <3> QED
      BY <2>1, <2>2, <3>1, <1>4 DEF Ask, ThreadsOK, Move, Labels, HoldingRaw,
                                    RowsOK, control, ControlOK, external, ChainOK
  <2>3. CASE Leave(t)
    BY <1>0, <1>1, <1>2, <1>4, <2>1, <2>3 DEF Ask, RowsOK
  <2> QED
    BY <1>4, <2>2, <2>3 DEF Ask
<1>5. CASE WriteOutcome(t)
  <2>1. RowsOK'
    BY <1>5, RowsTyped DEF WriteOutcome, Statuses
  <2> QED
    BY <1>0, <1>1, <1>2, <1>5, <2>1 DEF WriteOutcome
<1> QED
  BY <1>3, <1>4, <1>5 DEF PollStep

\* Every step of every thread, crash, recovery and the chain keeps them typed.
LEMMA TypeInductive ==
    ASSUME TypeOK, [Next]_vars
    PROVE  TypeOK'
<1> USE DEF TypeOK
<1>l. lock \in Procs \cup {None} /\ row \in [Txs -> Rows] /\ stopped \in BOOLEAN
      /\ \A q \in Procs : pc[q] # "idle" => cur[q] \in Txs
  BY DEF ThreadsOK, RowsOK, ControlOK
<1>0. UNCHANGED control => ControlOK'
  BY DEF control, ControlOK
<1>1. UNCHANGED external => ChainOK'
  BY DEF external, ChainOK
<1>2. UNCHANGED <<lock, pc, cur, local>> => ThreadsOK'
  BY DEF ThreadsOK
<1>3. ASSUME NEW t \in Threads, NEW x \in Txs, Create(t, x) PROVE TypeOK'
  <2>1. ControlOK' /\ ChainOK' /\ RowsOK'
    BY <1>0, <1>1, <1>3 DEF Create, RowsOK
  <2>2. PICK v \in Verdicts : local' = [local EXCEPT ![t] = v]
    BY <1>3, VerdictType DEF Create
  <2>3. Enter(t, x, "insert")
    BY <1>3 DEF Create
  <2>4. ThreadsOK'
    BY <2>2, <2>3 DEF ThreadsOK, Enter, Acquire, Move, Labels, HoldingRaw
  <2> QED
    BY <2>1, <2>4
<1>4. ASSUME NEW t \in Threads, NEW x \in Txs, Authorize(t, x) \/ Reject(t, x) PROVE TypeOK'
  <2>1. ControlOK' /\ ChainOK' /\ RowsOK' /\ UNCHANGED local
    BY <1>0, <1>1, <1>4 DEF Authorize, Reject, RowsOK
  <2>2. PICK l \in {"authorize", "reject"} : Enter(t, x, l)
    BY <1>4 DEF Authorize, Reject
  <2>3. ThreadsOK'
    BY <2>1, <2>2 DEF ThreadsOK, Enter, Acquire, Move, Labels, HoldingRaw
  <2> QED
    BY <2>1, <2>3
<1>submit. ASSUME NEW t \in Threads, NEW x \in Txs, Submit(t, x) PROVE TypeOK'
  <2>1. ControlOK' /\ ChainOK' /\ RowsOK'
    BY <1>0, <1>1, <1>submit DEF Submit, RowsOK
  <2>2. ThreadsOK'
    BY <1>2, <1>submit DEF Submit, ThreadsOK, Move, Labels, HoldingRaw
  <2> QED
    BY <2>1, <2>2
<1>5. ASSUME NEW t \in Threads, Insert(t) PROVE TypeOK'
  <2>1. ControlOK' /\ ChainOK' /\ pc[t] = "insert"
    BY <1>0, <1>1, <1>5 DEF Insert
  <2>2. RowsOK'
    BY <1>5, RowsTyped, NewRowType DEF Insert, Statuses
  <2>3. ThreadsOK'
    BY <1>5, <2>1, Plumbing DEF Insert
  <2> QED
    BY <2>1, <2>2, <2>3
<1>6. ASSUME NEW t \in Threads, WriteAuthorized(t) PROVE TypeOK'
  <2>1. RowsOK'
    BY <1>6, <1>l, RowUpdate DEF WriteAuthorized, RowsOK, Statuses
  <2> QED
    BY <1>0, <1>1, <1>6, <2>1, Plumbing DEF WriteAuthorized
<1>7. ASSUME NEW t \in Threads, WriteRejected(t) PROVE TypeOK'
  BY <1>0, <1>1, <1>7, Plumbing, RowsTyped DEF WriteRejected, Statuses
<1>8. ASSUME NEW t \in Threads, PollStep(t) PROVE TypeOK'
  BY <1>8, PollStepTyped
<1>9. ASSUME NEW x \in Txs, RecoverNext(x) PROVE TypeOK'
  <2>1. RowsOK' /\ ChainOK' /\ ControlOK'
    BY <1>1, <1>9 DEF RecoverNext, RowsOK, ControlOK
  <2>2. ThreadsOK'
    <3>1. CASE UNCHANGED <<pc, cur>>
      BY <1>2, <1>9, <3>1 DEF RecoverNext
    <3>2. CASE Move(Boot, "sign") /\ cur' = [cur EXCEPT ![Boot] = x]
      BY <1>9, <3>2 DEF RecoverNext, ThreadsOK, Move, Labels, HoldingRaw
    <3> QED
      BY <1>9, <3>1, <3>2 DEF RecoverNext
  <2> QED
    BY <2>1, <2>2
<1>10. ASSUME NEW x \in Txs, NEW r \in Raws, Mine(x, r) PROVE TypeOK'
  <2>1. ChainOK'
    BY <1>10 DEF Mine, ChainOK, Outcomes
  <2> QED
    BY <1>10, <1>2, <2>1 DEF Mine, memory, RowsOK, ControlOK
<1>11. CASE BootDone
  BY <1>11, <1>1, <1>2 DEF BootDone, RowsOK, ControlOK
<1>12. CASE EmergencyResume
  BY <1>12, <1>1, <1>2 DEF EmergencyResume, RowsOK, ControlOK
<1>13. CASE SetMode
  BY <1>13, <1>1, <1>2 DEF SetMode, memory, RowsOK, ControlOK
<1>14. CASE EmergencyStop
  <2>1. RowsOK'
    <3>1. ASSUME NEW x \in Txs
          PROVE  row'[x] \in Rows
      <4>1. row[x] \in Rows /\ [row[x] EXCEPT !.status = "CANCELLED"] \in Rows
        BY RowUpdate DEF RowsOK, Statuses
      <4>2. row'[x] = row[x] \/ row'[x] = [row[x] EXCEPT !.status = "CANCELLED"]
        BY <1>14 DEF EmergencyStop
      <4> QED
        BY <4>1, <4>2
    <3>2. row' = [x \in Txs |-> row'[x]]
      BY <1>14 DEF EmergencyStop
    <3> QED
      BY <3>1, <3>2 DEF RowsOK
  <2> QED
    BY <1>14, <1>1, <1>2, <2>1 DEF EmergencyStop, ControlOK
<1>15. CASE Crash
  <2>1. ThreadsOK'
    BY <1>15 DEF Crash, ThreadsOK, Labels, HoldingRaw
  <2>2. ControlOK'
    <3>1. MaxCrashes \in Nat
      BY Web3Assumption
    <3>2. todo' \subseteq Txs
      BY <1>15 DEF Crash
    <3>3. crashes' \in 0..MaxCrashes
      BY <1>15, <3>1 DEF Crash, ControlOK
    <3>4. stopped' \in BOOLEAN /\ mode' \in Modes /\ phase' \in {"boot", "serve"}
      BY <1>15 DEF Crash
    <3> QED
      BY <3>2, <3>3, <3>4 DEF ControlOK
  <2> QED
    BY <1>15, <1>1, <2>1, <2>2 DEF Crash, RowsOK
<1>16. CASE UNCHANGED vars
  BY <1>16, <1>1, <1>2 DEF vars, memory, RowsOK, ControlOK, external
<1> QED
  BY <1>3, <1>4, <1>5, <1>6, <1>7, <1>8, <1>9, <1>10, <1>11, <1>12, <1>13, <1>14,
     <1>15, <1>16, <1>submit, SignStepTyped DEF Next, ThreadStep

\* The variables keep their types in every reachable state.
THEOREM TypeCorrect == Spec => []TypeOK
<1>1. Init => TypeOK
  <2> HAVE Init
  <2>0. MaxCrashes \in Nat
    BY Web3Assumption
  <2>1. RowsOK /\ ControlOK
    <3>1. NewRow("ABSENT", FALSE) \in Rows
      BY NewRowType DEF Statuses
    <3>2. crashes \in 0..MaxCrashes
      BY <2>0 DEF Init
    <3>3. stopped \in BOOLEAN /\ mode \in Modes /\ phase \in {"boot", "serve"} /\ todo \subseteq Txs
      BY DEF Init
    <3> QED
      BY <3>1, <3>2, <3>3 DEF Init, RowsOK, ControlOK
  <2>2. ThreadsOK
    BY DEF Init, ThreadsOK, Labels, HoldingRaw
  <2>3. ChainOK
    BY DEF Init, ChainOK, Outcomes
  <2> QED
    BY <2>1, <2>2, <2>3 DEF TypeOK
<1>2. TypeOK /\ [Next]_vars => TypeOK'
  BY TypeInductive
<1> QED
  BY <1>1, <1>2, PTL DEF Spec
-------------------------------------------------------------------------------
(* Never-sign-twice: SigningInv is inductive. *)

\* While a thread is in the block, or the lock is free, no other thread is in.
LEMMA Exclusive ==
    ASSUME TypeOK, LockOwner, NEW p \in Procs, pc[p] \in InBlock \/ lock = None
    PROVE  \A q \in Procs : q # p => pc[q] \notin InBlock
  BY Web3Assumption DEF LockOwner, TypeOK, ThreadsOK, Procs

\* A step that leaves the block keeps SigningInv if the rows and the chain
\* keep their part of it.
LEMMA ReturnSafe ==
    ASSUME TypeOK, SigningInv, NEW p \in Procs, pc[p] \in InBlock \/ lock = None,
           NEW l \in {"idle", "sign"}, Move(p, l), PastSignable', SentIsSealed'
    PROVE  SigningInv'
<1>1. \A q \in Procs : pc'[q] \notin InBlock
  BY Exclusive DEF SigningInv, Move, InBlock, Labels, TypeOK, ThreadsOK
<1>2. LockOwner'
  BY <1>1 DEF LockOwner, InBlock, Labels
<1>3. HoldsSealed' /\ UnsentInBlock' /\ SendingMarked'
  BY <1>1 DEF HoldsSealed, UnsentInBlock, SendingMarked, InBlock, Labels
<1> QED
  BY <1>2, <1>3 DEF SigningInv

\* A step inside the block keeps SigningInv if it keeps the acting thread's part.
LEMMA StaySafe ==
    ASSUME TypeOK, SigningInv, NEW p \in Procs, pc[p] \in InBlock \/ lock = None,
           NEW l \in InBlock, Move(p, l), lock' = p,
           PastSignable', SentIsSealed',
           l \in {"signed", "send", "record"} => row'[cur'[p]].sealed = local'[p],
           l # "record" => sent'[cur'[p]] = {},
           l \in {"send", "record"} => row'[cur'[p]].status \notin Unsigned
    PROVE  SigningInv'
<1>1. pc'[p] = l /\ \A q \in Procs : q # p => pc'[q] \notin InBlock
  BY Exclusive DEF SigningInv, Move, TypeOK, ThreadsOK
<1>2. LockOwner'
  BY <1>1 DEF LockOwner, InBlock, Labels
<1>3. HoldsSealed'
  BY <1>1 DEF HoldsSealed, InBlock, Labels
<1>4. UnsentInBlock'
  BY <1>1 DEF UnsentInBlock, InBlock, Labels
<1>5. SendingMarked'
  BY <1>1 DEF SendingMarked, InBlock, Labels
<1> QED
  BY <1>2, <1>3, <1>4, <1>5 DEF SigningInv

\* sign_and_broadcast keeps SigningInv at each of its steps.
LEMMA SignStepSafe ==
    ASSUME TypeOK, SigningInv, NEW p \in Procs, SignStep(p)
    PROVE  SigningInv'
<1>t. /\ pc \in [Procs -> Labels] /\ row \in [Txs -> Rows] /\ sent \in [Txs -> SUBSET Raws]
      /\ pc[p] # "idle" => cur[p] \in Txs
  BY DEF TypeOK, ThreadsOK, RowsOK, ChainOK
<1>i. /\ LockOwner /\ PastSignable /\ SentIsSealed
      /\ pc[p] \in InBlock => lock = p
      /\ pc[p] \in InBlock \ {"record"} => sent[cur[p]] = {}
      /\ pc[p] \in {"signed", "send", "record"} => row[cur[p]].sealed = local[p]
      /\ pc[p] \in {"send", "record"} => row[cur[p]].status \notin Unsigned
  BY DEF SigningInv, LockOwner, HoldsSealed, UnsentInBlock, SendingMarked
<1>u. UNCHANGED <<row, sent>> => PastSignable' /\ SentIsSealed'
  BY <1>i DEF PastSignable, SentIsSealed
<1>s. ASSUME NEW x \in Txs, sent[x] = {}, UNCHANGED sent,
             \A y \in Txs : y # x => row'[y] = row[y]
      PROVE  PastSignable' /\ SentIsSealed'
  BY <1>i, <1>s DEF PastSignable, SentIsSealed
<1>1. CASE SignRefused(p)
  <2>1. Move(p, "idle") /\ UNCHANGED <<row, sent>> /\ lock = None
    BY <1>1 DEF SignRefused, Return, Leave, external
  <2> QED
    BY <1>u, <2>1, ReturnSafe
<1>2. CASE SignEnter(p)
  <2>1. PICK l \in {"check", "mark"} : Move(p, l)
    BY <1>2 DEF SignEnter
  <2>2. lock = None /\ lock' = p /\ UNCHANGED <<cur, row, sent>> /\ pc[p] = "sign"
    BY <1>2 DEF SignEnter, Acquire, external
  <2>3. sent[cur[p]] = {}
    BY <1>2, <1>i, <1>t, <2>2 DEF SignEnter, MaySign, Signable, PastSignable, Unsigned
  <2> QED
    BY <1>u, <2>1, <2>2, <2>3, StaySafe DEF InBlock, Labels, Unsigned
<1>3. CASE Check(p)
  <2>1. pc[p] = "check" /\ UNCHANGED sent
    BY <1>3 DEF Check, external
  <2>2. cur[p] \in Txs /\ sent[cur[p]] = {} /\ lock = p /\ pc[p] \in InBlock
    BY <1>t, <1>i, <2>1 DEF InBlock, Labels
  <2>3. CASE Move(p, "mark") /\ UNCHANGED <<row, lock, cur, local>>
    BY <1>u, <2>1, <2>2, <2>3, StaySafe DEF InBlock, Labels, Unsigned
  <2>4. CASE /\ row' = [row EXCEPT ![cur[p]].status = "CONFIRMED",
                                  ![cur[p]].hash = row[cur[p]].sealed]
             /\ Return(p)
    <3>1. PastSignable' /\ SentIsSealed'
      BY <1>s, <1>t, <2>1, <2>2, <2>4
    <3> QED
      BY <2>2, <2>4, <3>1, ReturnSafe DEF Return, Leave
  <2> QED
    BY <1>3, <2>3, <2>4 DEF Check
<1>4. CASE Mark(p)
  <2>1. pc[p] = "mark" /\ Move(p, "derive") /\ UNCHANGED <<lock, cur, sent>>
    BY <1>4 DEF Mark, external
  <2>2. cur[p] \in Txs /\ sent[cur[p]] = {} /\ lock = p /\ pc[p] \in InBlock
    BY <1>t, <1>i, <2>1 DEF InBlock, Labels
  <2>3. PastSignable' /\ SentIsSealed'
    BY <1>4, <1>s, <1>t, <2>1, <2>2 DEF Mark, SetStatus
  <2> QED
    BY <2>1, <2>2, <2>3, StaySafe DEF InBlock, Labels, Unsigned
<1>5. CASE Derive(p)
  <2>1. pc[p] = "derive" /\ UNCHANGED <<row, sent>>
    BY <1>5 DEF Derive, external
  <2>2. sent[cur[p]] = {} /\ lock = p /\ pc[p] \in InBlock
    BY <1>t, <1>i, <2>1 DEF InBlock, Labels
  <2>3. CASE Return(p)
    BY <1>u, <2>1, <2>2, <2>3, ReturnSafe DEF Return, Leave
  <2>4. CASE Move(p, "seal") /\ UNCHANGED <<lock, cur>>
    BY <1>u, <2>1, <2>2, <2>4, StaySafe DEF InBlock, Labels, Unsigned
  <2> QED
    BY <1>5, <2>3, <2>4 DEF Derive
<1>6. CASE Seal(p)
  <2>1. pc[p] = "seal" /\ Move(p, "signed") /\ UNCHANGED <<lock, cur, local, sent>>
    BY <1>6 DEF Seal, external
  <2>2. cur[p] \in Txs /\ sent[cur[p]] = {} /\ lock = p /\ pc[p] \in InBlock
    BY <1>t, <1>i, <2>1 DEF InBlock, Labels
  <2>3. PastSignable' /\ SentIsSealed'
    BY <1>6, <1>s, <1>t, <2>1, <2>2 DEF Seal
  <2>4. row'[cur[p]].sealed = local'[p]
    BY <1>6, <1>t, <2>1, <2>2 DEF Seal, Rows
  <2> QED
    BY <2>1, <2>2, <2>3, <2>4, StaySafe DEF InBlock, Labels, Unsigned
<1>7. CASE MarkSigned(p)
  <2>1. pc[p] = "signed" /\ Move(p, "send") /\ UNCHANGED <<lock, cur, local, sent>>
    BY <1>7 DEF MarkSigned, external
  <2>2. cur[p] \in Txs /\ sent[cur[p]] = {} /\ lock = p /\ pc[p] \in InBlock
    BY <1>t, <1>i, <2>1 DEF InBlock, Labels
  <2>3. PastSignable' /\ SentIsSealed'
    BY <1>7, <1>s, <1>t, <2>1, <2>2 DEF MarkSigned, SetStatus
  <2>4. row'[cur[p]].sealed = local'[p] /\ row'[cur[p]].status = "SIGNED"
    BY <1>7, <1>t, <1>i, <2>1, <2>2 DEF MarkSigned, SetStatus, Rows
  <2> QED
    BY <2>1, <2>2, <2>3, <2>4, StaySafe DEF InBlock, Labels, Unsigned
<1>8. CASE Send(p)
  <2>1. pc[p] = "send" /\ UNCHANGED row
    BY <1>8 DEF Send
  <2>2. cur[p] \in Txs /\ sent[cur[p]] = {} /\ lock = p /\ pc[p] \in InBlock
    BY <1>t, <1>i, <2>1 DEF InBlock, Labels
  <2>3. PastSignable' /\ SentIsSealed'
    <3>1. CASE sent' = [sent EXCEPT ![cur[p]] = @ \cup {local[p]}]
      BY <1>t, <1>i, <2>1, <2>2, <3>1 DEF PastSignable, SentIsSealed
    <3> QED
      BY <1>8, <1>u, <2>1, <3>1 DEF Send
  <2>4. CASE Return(p)
    BY <2>2, <2>3, <2>4, ReturnSafe DEF Return, Leave
  <2>5. CASE Move(p, "record") /\ UNCHANGED <<lock, cur, local>>
    BY <1>i, <2>1, <2>2, <2>3, <2>5, StaySafe DEF InBlock, Labels, Unsigned
  <2> QED
    BY <1>8, <2>4, <2>5 DEF Send
<1>9. CASE RecordBroadcast(p)
  <2>1. pc[p] = "record" /\ Return(p) /\ UNCHANGED sent
    BY <1>9 DEF RecordBroadcast, external
  <2>2. cur[p] \in Txs /\ pc[p] \in InBlock
    BY <1>t, <2>1 DEF InBlock, Labels
  <2>3. /\ row'[cur[p]].status = "BROADCAST" /\ row'[cur[p]].sealed = row[cur[p]].sealed
        /\ \A y \in Txs : y # cur[p] => row'[y] = row[y]
    BY <1>9, <1>t, <2>2 DEF RecordBroadcast, Rows
  <2>4. PastSignable' /\ SentIsSealed'
    BY <1>i, <2>1, <2>2, <2>3 DEF PastSignable, SentIsSealed, Unsigned
  <2> QED
    BY <2>1, <2>2, <2>4, ReturnSafe DEF Return, Leave
<1> QED
  BY <1>1, <1>2, <1>3, <1>4, <1>5, <1>6, <1>7, <1>8, <1>9 DEF SignStep

\* Every step of the system keeps SigningInv.
LEMMA SigningInductive ==
    ASSUME TypeOK, SigningInv, [Next]_vars
    PROVE  SigningInv'
<1>t. /\ pc \in [Procs -> Labels] /\ row \in [Txs -> Rows] /\ sent \in [Txs -> SUBSET Raws]
      /\ cur \in [Procs -> Txs \cup {None}]
      /\ \A q \in Procs : pc[q] # "idle" => cur[q] \in Txs
  BY DEF TypeOK, ThreadsOK, RowsOK, ChainOK
<1>i. /\ LockOwner /\ HoldsSealed /\ UnsentInBlock
      /\ PastSignable /\ SendingMarked /\ SentIsSealed
  BY DEF SigningInv
<1>u. UNCHANGED <<row, sent>> => PastSignable' /\ SentIsSealed'
  BY <1>i DEF PastSignable, SentIsSealed
<1>s. ASSUME NEW x \in Txs, sent[x] = {}, UNCHANGED sent,
             \A y \in Txs : y # x => row'[y] = row[y]
      PROVE  PastSignable' /\ SentIsSealed'
  BY <1>i, <1>s DEF PastSignable, SentIsSealed
<1>q. UNCHANGED <<row, sent, lock, pc, cur, local>> => SigningInv'
  BY <1>i, <1>u DEF SigningInv, LockOwner, HoldsSealed, UnsentInBlock, SendingMarked
<1>1. ASSUME NEW t \in Threads, NEW x \in Txs, Create(t, x) \/ Authorize(t, x) \/ Reject(t, x)
      PROVE  SigningInv'
  <2>1. PICK l \in {"insert", "authorize", "reject"} : Enter(t, x, l)
    BY <1>1 DEF Create, Authorize, Reject
  <2>2. UNCHANGED <<row, sent>> /\ row[x].status \in Unsigned
    BY <1>1 DEF Create, Authorize, Reject, external, Unsigned
  <2>3. lock = None /\ lock' = t /\ Move(t, l) /\ cur'[t] = x
    BY <1>t, <2>1 DEF Enter, Acquire
  <2>4. sent'[cur'[t]] = {}
    BY <1>i, <2>2, <2>3 DEF PastSignable
  <2>5. l \in InBlock
    BY DEF InBlock, Labels
  <2> QED
    BY <1>u, <2>2, <2>3, <2>4, <2>5, StaySafe
<1>2. ASSUME NEW t \in Threads, Insert(t) \/ WriteAuthorized(t) \/ WriteRejected(t)
      PROVE  SigningInv'
  <2>1. PICK l \in {"idle", "sign"} : Move(t, l)
    BY <1>2 DEF Insert, WriteAuthorized, WriteRejected, Return, Leave, ReleaseToSign
  <2>2. pc[t] \in {"insert", "authorize", "reject"} /\ UNCHANGED sent
    BY <1>2 DEF Insert, WriteAuthorized, WriteRejected, external
  <2>3. pc[t] \in InBlock /\ cur[t] \in Txs /\ sent[cur[t]] = {}
    BY <1>t, <1>i, <2>2 DEF InBlock, Labels, UnsentInBlock
  <2>4. \A y \in Txs : y # cur[t] => row'[y] = row[y]
    BY <1>2, <1>t, <2>3 DEF Insert, WriteAuthorized, WriteRejected, SetStatus
  <2> QED
    BY <1>s, <2>1, <2>2, <2>3, <2>4, ReturnSafe
<1>3. ASSUME NEW x \in Txs, RecoverNext(x) PROVE SigningInv'
  <2>1. UNCHANGED <<row, sent, lock, local>>
    BY <1>3 DEF RecoverNext, external
  <2>2. CASE UNCHANGED <<pc, cur>>
    BY <1>q, <2>1, <2>2
  <2>3. CASE Move(Boot, "sign") /\ cur' = [cur EXCEPT ![Boot] = x]
    <3>1. \A q \in Procs : pc'[q] \in InBlock => pc'[q] = pc[q] /\ cur'[q] = cur[q]
      BY <1>t, <2>3 DEF Move, InBlock
    <3> QED
      BY <1>i, <1>u, <2>1, <3>1
         DEF SigningInv, LockOwner, HoldsSealed, UnsentInBlock, SendingMarked, InBlock, Labels
  <2> QED
    BY <1>3, <2>2, <2>3 DEF RecoverNext
<1>submit. ASSUME NEW t \in Threads, NEW x \in Txs, Submit(t, x) PROVE SigningInv'
  <2>1. UNCHANGED <<row, sent, lock, local>>
    BY <1>submit DEF Submit, external
  <2>2. \A q \in Procs : pc'[q] \in InBlock => pc'[q] = pc[q] /\ cur'[q] = cur[q]
    BY <1>t, <1>submit DEF Submit, Move, InBlock
  <2> QED
    BY <1>i, <1>u, <2>1, <2>2
       DEF SigningInv, LockOwner, HoldsSealed, UnsentInBlock, SendingMarked, InBlock, Labels
<1>4. ASSUME \A x \in Txs : /\ row'[x].sealed = row[x].sealed
                            /\ row'[x].status = row[x].status \/ row'[x].status \notin Unsigned,
             UNCHANGED <<sent, lock, pc, cur, local>>
      PROVE  SigningInv'
  <2>1. PastSignable' /\ SentIsSealed' /\ LockOwner' /\ UnsentInBlock'
    BY <1>i, <1>4 DEF PastSignable, SentIsSealed, LockOwner, UnsentInBlock
  <2>2. HoldsSealed' /\ SendingMarked'
    BY <1>i, <1>t, <1>4 DEF HoldsSealed, SendingMarked
  <2> QED
    BY <2>1, <2>2 DEF SigningInv
<1>5. ASSUME NEW t \in Threads, PollStep(t) PROVE SigningInv'
  <2>1. /\ UNCHANGED <<sent, lock>>
        /\ \A q \in Procs : q # t => UNCHANGED <<pc[q], cur[q], local[q]>>
    BY <1>5, <1>t DEF PollStep, Poll, Ask, WriteOutcome, Leave, Move, external,
                      TypeOK, ThreadsOK
  <2>2. pc'[t] \in {"poll", "outcome", "idle"}
    BY <1>5, <1>t DEF PollStep, Poll, Ask, WriteOutcome, Leave, Move
  <2>3. \A y \in Txs : /\ row'[y].sealed = row[y].sealed
                       /\ row'[y].status = row[y].status \/ row'[y].status \notin Unsigned
    <3>1. CASE row' = row
      BY <3>1
    <3>2. ASSUME NEW s \in {"CONFIRMED", "FAILED"}, row' = [row EXCEPT ![cur[t]].status = s]
          PROVE  \A y \in Txs : /\ row'[y].sealed = row[y].sealed
                                /\ row'[y].status = row[y].status \/ row'[y].status \notin Unsigned
      BY <1>t, <3>2 DEF Rows, Unsigned
    <3> QED
      BY <1>5, <3>1, <3>2 DEF PollStep, Poll, Ask, WriteOutcome, SetStatus
  <2>4. PastSignable' /\ SentIsSealed'
    BY <1>i, <2>1, <2>3 DEF PastSignable, SentIsSealed
  <2>5. \A q \in Procs : pc'[q] \in InBlock => q # t /\ UNCHANGED <<pc[q], cur[q], local[q]>>
    BY <2>1, <2>2 DEF InBlock
  <2>6. LockOwner' /\ UnsentInBlock'
    BY <1>i, <2>1, <2>5 DEF LockOwner, UnsentInBlock
  <2>7. HoldsSealed' /\ SendingMarked'
    BY <1>i, <1>t, <2>3, <2>5 DEF HoldsSealed, SendingMarked, InBlock, Labels
  <2> QED
    BY <2>4, <2>6, <2>7 DEF SigningInv
<1>6. CASE EmergencyStop
  <2>1. UNCHANGED <<sent, lock, pc, cur, local>>
    BY <1>6 DEF EmergencyStop, external
  <2>2. \A y \in Txs : /\ row'[y].sealed = row[y].sealed
                       /\ row'[y].status = row[y].status \/ row'[y].status \notin Unsigned
    <3>1. ASSUME NEW y \in Txs
          PROVE  row'[y] = row[y] \/ row'[y] = [row[y] EXCEPT !.status = "CANCELLED"]
      BY <1>6 DEF EmergencyStop
    <3>2. ASSUME NEW y \in Txs
          PROVE  /\ [row[y] EXCEPT !.status = "CANCELLED"].sealed = row[y].sealed
                 /\ [row[y] EXCEPT !.status = "CANCELLED"].status = "CANCELLED"
      <4>1. row[y] \in Rows
        BY <1>t
      <4> QED
        BY <4>1, Zenon DEF Rows
    <3> QED
      BY <3>1, <3>2 DEF Unsigned
  <2> QED
    BY <1>4, <2>1, <2>2
<1>7. CASE Crash
  <2>1. UNCHANGED <<row, sent>> /\ \A q \in Procs : pc'[q] = "idle"
    BY <1>7 DEF Crash, external
  <2> QED
    BY <1>u, <2>1 DEF SigningInv, LockOwner, HoldsSealed, UnsentInBlock, SendingMarked, InBlock
<1>8. CASE BootDone \/ EmergencyResume \/ SetMode \/ UNCHANGED vars
           \/ \E x \in Txs : \E r \in Raws : Mine(x, r)
  BY <1>q, <1>8 DEF BootDone, EmergencyResume, SetMode, Mine, vars, memory, external
<1> QED
  BY <1>1, <1>2, <1>3, <1>5, <1>6, <1>7, <1>8, <1>submit, SignStepSafe DEF Next, ThreadStep

\* The lock discipline of the signing block holds in every reachable state.
THEOREM SigningInvariant == Spec => []SigningInv
<1>1. Init => SigningInv
  BY DEF Init, SigningInv, LockOwner, HoldsSealed, UnsentInBlock, PastSignable,
         SendingMarked, SentIsSealed, InBlock
<1>2. TypeOK /\ SigningInv /\ [Next]_vars => SigningInv'
  BY SigningInductive
<1> QED
  BY <1>1, <1>2, TypeCorrect, PTL DEF Spec

\* Never-sign-twice: the network sees at most one raw of a transaction.
THEOREM NeverSentTwice == Spec => []NeverSendTwice
<1>1. SigningInv => NeverSendTwice
  BY DEF SigningInv, SentIsSealed, NeverSendTwice
<1> QED
  BY <1>1, SigningInvariant, PTL
\* What the recovery check relies on: a sent raw is the sealed one.
THEOREM SentStaysSealed == Spec => []SentIsSealed
  BY SigningInvariant, PTL DEF SigningInv

-------------------------------------------------------------------------------
(* The approval gate: ApprovalInv is inductive, given the lock discipline. *)

\* The two approval columns are written by Insert and WriteAuthorized only.
SameApproval(x) ==
    row'[x].approval = row[x].approval /\ row'[x].authorizedBy = row[x].authorizedBy

\* Writing other columns of a row leaves its approval columns alone.
LEMMA OtherColumns ==
    ASSUME NEW x \in Txs, row[x] \in Rows, NEW s, NEW w,
           \/ row'[x] = row[x]
           \/ row'[x] = [row[x] EXCEPT !.status = s]
           \/ row'[x] = [row[x] EXCEPT !.sealed = w]
           \/ row'[x] = [row[x] EXCEPT !.status = s, !.hash = w]
    PROVE  SameApproval(x)
<1>1. row'[x].authorizedBy = row[x].authorizedBy
  BY DEF Rows
<1>2. row'[x].approval = row[x].approval
  BY DEF Rows
<1> QED
  BY <1>1, <1>2 DEF SameApproval

\* A step that leaves the approval columns alone keeps ApprovalInv if whoever
\* starts signing, and whatever becomes AUTHORIZED or sent, is approved.
LEMMA ApprovalFrame ==
    ASSUME ApprovalInv,
           \A x \in Txs : SameApproval(x),
           \A q \in Procs : pc'[q] \in Signing => cur'[q] \in Txs /\ Approved(cur'[q]),
           \A x \in Txs : row'[x].status = "AUTHORIZED" \/ sent'[x] # {} => Approved(x)
    PROVE  ApprovalInv'
  BY DEF ApprovalInv, Approved, SameApproval

\* A thread that is signing an approved row keeps ApprovalInv.
LEMMA SigningApproved ==
    ASSUME TypeOK, ApprovalInv, NEW p \in Procs, pc[p] \in Signing,
           \A x \in Txs : SameApproval(x),
           \A x \in Txs : x # cur[p] => row'[x] = row[x] /\ sent'[x] = sent[x],
           \A q \in Procs : q # p => pc'[q] = pc[q] /\ cur'[q] = cur[q],
           pc'[p] = "idle" \/ cur'[p] = cur[p]
    PROVE  ApprovalInv'
<1>1. cur[p] \in Txs /\ \A q \in Procs : pc[q] \in Signing => cur[q] \in Txs
  BY DEF TypeOK, ThreadsOK, Signing, InBlock
<1>2. Approved(cur[p]) /\ "idle" \notin Signing
  BY DEF ApprovalInv, Signing, InBlock
<1>3. \A q \in Procs : pc'[q] \in Signing => cur'[q] \in Txs /\ Approved(cur'[q])
  BY <1>1, <1>2 DEF ApprovalInv
<1>4. \A x \in Txs : row'[x].status = "AUTHORIZED" \/ sent'[x] # {} => Approved(x)
  BY <1>2 DEF ApprovalInv
<1> QED
  BY <1>3, <1>4, ApprovalFrame

\* sign_and_broadcast keeps ApprovalInv: its guards admit approved rows only.
LEMMA SignStepApproved ==
    ASSUME TypeOK, ApprovalInv, NEW p \in Procs, SignStep(p)
    PROVE  ApprovalInv'
<1>t. /\ pc \in [Procs -> Labels] /\ row \in [Txs -> Rows] /\ sent \in [Txs -> SUBSET Raws]
      /\ cur \in [Procs -> Txs \cup {None}]
      /\ \A q \in Procs : pc[q] # "idle" => cur[q] \in Txs
  BY DEF TypeOK, ThreadsOK, RowsOK, ChainOK
<1>1. CASE SignRefused(p)
  <2>1. UNCHANGED <<row, sent>> /\ \A q \in Procs : pc'[q] \in Signing => pc'[q] = pc[q] /\ cur'[q] = cur[q]
    BY <1>1, <1>t DEF SignRefused, Return, Leave, Move, Signing, InBlock, external
  <2> QED
    BY <1>t, <2>1, ApprovalFrame DEF ApprovalInv, SameApproval, Signing, InBlock
<1>2. CASE SignEnter(p)
  <2>1. UNCHANGED <<cur, row, sent>> /\ pc[p] = "sign" /\ cur[p] \in Txs
    BY <1>2, <1>t DEF SignEnter, external
  <2>2. \A q \in Procs : q # p => pc'[q] = pc[q]
    BY <1>2, <1>t DEF SignEnter, Move
  <2>3. Approved(cur[p])
    BY <1>2, <2>1 DEF SignEnter, MaySign, Signable, AwaitsApproval, Approved, ApprovalInv
  <2>4. \A q \in Procs : pc'[q] \in Signing => cur'[q] \in Txs /\ Approved(cur'[q])
    BY <1>t, <2>1, <2>2, <2>3 DEF ApprovalInv, Signing, InBlock
  <2> QED
    BY <2>1, <2>4, ApprovalFrame DEF ApprovalInv, SameApproval
<1>3. ASSUME Check(p) \/ Mark(p) \/ Derive(p) \/ Seal(p) \/ MarkSigned(p) \/ Send(p)
             \/ RecordBroadcast(p)
      PROVE  ApprovalInv'
  <2>1. pc[p] \in Signing /\ cur[p] \in Txs
    BY <1>3, <1>t DEF Check, Mark, Derive, Seal, MarkSigned, Send, RecordBroadcast,
                      Signing, InBlock, Labels
  <2>2. \A x \in Txs : x # cur[p] => row'[x] = row[x]
    BY <1>3, <1>t, <2>1 DEF Check, Mark, Derive, Seal, MarkSigned, Send, RecordBroadcast, SetStatus
  <2>3. \A x \in Txs : x # cur[p] => sent'[x] = sent[x]
    BY <1>3, <1>t, <2>1 DEF Check, Mark, Derive, Seal, MarkSigned, Send, RecordBroadcast, external
  <2>4. /\ \A q \in Procs : q # p => pc'[q] = pc[q] /\ cur'[q] = cur[q]
        /\ pc'[p] = "idle" \/ cur'[p] = cur[p]
    BY <1>3, <1>t DEF Check, Mark, Derive, Seal, MarkSigned, Send, RecordBroadcast, Return, Leave, Move
  <2>5. SameApproval(cur[p])
    <3>1. row[cur[p]] \in Rows
      BY <1>t, <2>1
    <3>2. \/ row' = row
          \/ \E s : row' = [row EXCEPT ![cur[p]].status = s]
          \/ \E s, h : row' = [row EXCEPT ![cur[p]].status = s, ![cur[p]].hash = h]
          \/ \E w : row' = [row EXCEPT ![cur[p]].sealed = w]
      BY <1>3 DEF Check, Mark, Derive, Seal, MarkSigned, Send, RecordBroadcast, SetStatus
    <3>3. CASE row' = row
      BY <3>3 DEF SameApproval
    <3>4. ASSUME NEW s, row' = [row EXCEPT ![cur[p]].status = s] PROVE SameApproval(cur[p])
      BY <1>t, <2>1, <3>1, <3>4, OtherColumns
    <3>5. ASSUME NEW s, NEW h, row' = [row EXCEPT ![cur[p]].status = s, ![cur[p]].hash = h]
          PROVE  SameApproval(cur[p])
      BY <1>t, <2>1, <3>1, <3>5, OtherColumns
    <3>6. ASSUME NEW w, row' = [row EXCEPT ![cur[p]].sealed = w] PROVE SameApproval(cur[p])
      BY <1>t, <2>1, <3>1, <3>6, OtherColumns
    <3> QED
      BY <3>2, <3>3, <3>4, <3>5, <3>6
  <2> QED
    BY <2>1, <2>2, <2>3, <2>4, <2>5, SigningApproved DEF SameApproval
<1> QED
  BY <1>1, <1>2, <1>3 DEF SignStep

\* Every step of the system keeps ApprovalInv.
LEMMA ApprovalInductive ==
    ASSUME TypeOK, SigningInv, ApprovalInv, [Next]_vars
    PROVE  ApprovalInv'
<1>t. /\ pc \in [Procs -> Labels] /\ row \in [Txs -> Rows] /\ sent \in [Txs -> SUBSET Raws]
      /\ cur \in [Procs -> Txs \cup {None}]
      /\ \A q \in Procs : pc[q] # "idle" => cur[q] \in Txs
  BY DEF TypeOK, ThreadsOK, RowsOK, ChainOK
<1>i. LockOwner /\ UnsentInBlock
  BY DEF SigningInv
<1>q. ASSUME UNCHANGED sent, \A x \in Txs : SameApproval(x),
             \A x \in Txs : row'[x].status = "AUTHORIZED" => row[x].status = "AUTHORIZED",
             \A q \in Procs : pc'[q] \in Signing => pc[q] \in Signing /\ cur'[q] = cur[q]
      PROVE  ApprovalInv'
  BY <1>q, <1>t, ApprovalFrame DEF ApprovalInv, Signing, InBlock
<1>1. ASSUME NEW t \in Threads, NEW x \in Txs, Create(t, x) \/ Authorize(t, x) \/ Reject(t, x)
      PROVE  ApprovalInv'
  <2>1. PICK l \in {"insert", "authorize", "reject"} : Enter(t, x, l)
    BY <1>1 DEF Create, Authorize, Reject
  <2>2. UNCHANGED <<row, sent>>
    BY <1>1 DEF Create, Authorize, Reject, external
  <2>3. \A q \in Procs : pc'[q] \in Signing => pc[q] \in Signing /\ cur'[q] = cur[q]
    BY <1>t, <2>1 DEF Enter, Move, Signing, InBlock
  <2> QED
    BY <1>q, <2>2, <2>3 DEF SameApproval
<1>2. ASSUME NEW t \in Threads, Insert(t) \/ WriteAuthorized(t) \/ WriteRejected(t)
      PROVE  ApprovalInv'
  <2>1. pc[t] \in {"insert", "authorize", "reject"} /\ UNCHANGED sent
    BY <1>2 DEF Insert, WriteAuthorized, WriteRejected, external
  <2>2. pc[t] \in InBlock /\ cur[t] \in Txs /\ sent[cur[t]] = {}
    BY <1>t, <1>i, <2>1 DEF InBlock, Labels, UnsentInBlock
  <2>3. \A y \in Txs : y # cur[t] => row'[y] = row[y]
    BY <1>2, <1>t, <2>2 DEF Insert, WriteAuthorized, WriteRejected, SetStatus
  <2>4. \A q \in Procs : q # t => pc[q] \notin InBlock
    BY <1>i, <2>2, Exclusive
  <2>5. \A q \in Procs : pc'[q] \notin Signing
    BY <1>2, <1>t, <2>4 DEF Insert, WriteAuthorized, WriteRejected, Return, Leave, ReleaseToSign,
                            Move, Signing, InBlock
  <2>6. row'[cur[t]].status = "AUTHORIZED" => row'[cur[t]].authorizedBy = "policy"
    <3>1. CASE Insert(t)
      BY <1>t, <2>2, <3>1 DEF Insert, NewRow
    <3>2. CASE WriteAuthorized(t)
      BY <1>t, <2>2, <3>2 DEF WriteAuthorized, Rows
    <3>3. CASE WriteRejected(t)
      BY <1>t, <2>2, <3>3 DEF WriteRejected, SetStatus, Rows
    <3> QED
      BY <1>2, <3>1, <3>2, <3>3
  <2> QED
    BY <2>1, <2>2, <2>3, <2>5, <2>6 DEF ApprovalInv, Approved
<1>3. ASSUME NEW x \in Txs, RecoverNext(x) PROVE ApprovalInv'
  <2>1. UNCHANGED <<row, sent>>
    BY <1>3 DEF RecoverNext, external
  <2>2. \A q \in Procs : pc'[q] \in Signing => pc[q] \in Signing /\ cur'[q] = cur[q]
    BY <1>3, <1>t DEF RecoverNext, Move, Signing, InBlock
  <2> QED
    BY <1>q, <2>1, <2>2 DEF SameApproval
<1>s. ASSUME NEW t \in Threads, NEW x \in Txs, Submit(t, x) PROVE ApprovalInv'
  <2>1. UNCHANGED <<row, sent>>
    BY <1>s DEF Submit, external
  <2>2. \A q \in Procs : pc'[q] \in Signing => pc[q] \in Signing /\ cur'[q] = cur[q]
    BY <1>s, <1>t DEF Submit, Move, Signing, InBlock
  <2> QED
    BY <1>q, <2>1, <2>2 DEF SameApproval
<1>4. ASSUME NEW t \in Threads, PollStep(t) PROVE ApprovalInv'
  <2>1. UNCHANGED sent
    BY <1>4 DEF PollStep, Poll, Ask, WriteOutcome, external
  <2>2. \A q \in Procs : pc'[q] \in Signing => pc[q] \in Signing /\ cur'[q] = cur[q]
    BY <1>4, <1>t DEF PollStep, Poll, Ask, WriteOutcome, Leave, Move, Signing, InBlock
  <2>3. \A y \in Txs : /\ SameApproval(y)
                       /\ row'[y].status = "AUTHORIZED" => row[y].status = "AUTHORIZED"
    <3>1. CASE row' = row
      BY <3>1 DEF SameApproval
    <3>2. ASSUME NEW s \in {"CONFIRMED", "FAILED"}, row' = [row EXCEPT ![cur[t]].status = s]
          PROVE  \A y \in Txs : /\ SameApproval(y)
                                /\ row'[y].status = "AUTHORIZED" => row[y].status = "AUTHORIZED"
      BY <1>t, <3>2 DEF Rows, SameApproval
    <3> QED
      BY <1>4, <3>1, <3>2 DEF PollStep, Poll, Ask, WriteOutcome, SetStatus
  <2> QED
    BY <1>q, <2>1, <2>2, <2>3
<1>5. CASE EmergencyStop
  <2>1. UNCHANGED <<sent, pc, cur>>
    BY <1>5 DEF EmergencyStop, external
  <2>2. \A y \in Txs : /\ SameApproval(y)
                       /\ row'[y].status = "AUTHORIZED" => row[y].status = "AUTHORIZED"
    <3>1. ASSUME NEW y \in Txs
          PROVE  row'[y] = row[y] \/ row'[y] = [row[y] EXCEPT !.status = "CANCELLED"]
      BY <1>5 DEF EmergencyStop
    <3>2. ASSUME NEW y \in Txs PROVE SameApproval(y)
      BY <1>t, <3>1, OtherColumns
    <3>3. ASSUME NEW y \in Txs, row'[y].status = "AUTHORIZED" PROVE row[y].status = "AUTHORIZED"
      BY <1>t, <3>1, <3>3 DEF Rows
    <3> QED
      BY <3>2, <3>3
  <2> QED
    BY <1>q, <2>1, <2>2
<1>6. CASE Crash
  <2>1. UNCHANGED <<row, sent>> /\ \A q \in Procs : pc'[q] \notin Signing
    BY <1>6 DEF Crash, external, Signing, InBlock
  <2> QED
    BY <1>q, <2>1 DEF SameApproval
<1>7. CASE BootDone \/ EmergencyResume \/ SetMode \/ UNCHANGED vars
           \/ \E x \in Txs : \E r \in Raws : Mine(x, r)
  <2>1. UNCHANGED <<row, sent, pc, cur>>
    BY <1>7 DEF BootDone, EmergencyResume, SetMode, Mine, vars, memory, external
  <2> QED
    BY <1>q, <2>1 DEF SameApproval
<1> QED
  BY <1>1, <1>2, <1>3, <1>4, <1>5, <1>6, <1>7, <1>s, SignStepApproved DEF Next, ThreadStep

\* A row parked for the operator is sent only once the operator authorized it,
\* whatever the mode is switched to and however often the server restarts.
THEOREM ApprovalGateHolds == Spec => []ApprovalGate
<1>1. Init => ApprovalInv
  <2> SUFFICES ASSUME Init PROVE ApprovalInv
    OBVIOUS
  <2>1. \A x \in Txs : row[x].status = "ABSENT" /\ sent[x] = {}
    BY DEF Init, NewRow
  <2>2. \A p \in Procs : pc[p] = "idle"
    BY DEF Init
  <2> QED
    BY <2>1, <2>2 DEF ApprovalInv, Signing, InBlock
<1>2. TypeOK /\ SigningInv /\ ApprovalInv /\ [Next]_vars => ApprovalInv'
  BY ApprovalInductive
<1>3. ApprovalInv => ApprovalGate
  BY DEF ApprovalInv, ApprovalGate, Approved
<1> QED
  BY <1>1, <1>2, <1>3, TypeCorrect, SigningInvariant, PTL DEF Spec

-------------------------------------------------------------------------------
(* What a row says of the chain.  A thread inside the block works on a row   *)
(* that has no hash and no final status yet: it entered on an unsigned row,  *)
(* nothing of that row is sent until its own send.  A row with a hash is     *)
(* past every step of the block, so what a lock-free poll read of it is      *)
(* still there when the poll writes.                                         *)

Final == {"REJECTED", "CONFIRMED", "FAILED"}
MinedWasSent == \A x \in Txs : \A r \in Raws : mined[x][r] # "pending" => r \in sent[x]
HashWasSent == \A x \in Txs : row[x].hash # None => sent[x] # {}
RecordAfterSend == \A p \in Procs : pc[p] = "record" => sent[cur[p]] # {}
Fresh(x) == row[x].hash = None /\ row[x].status \notin Final
FreshInBlock == \A p \in Procs : pc[p] \in InBlock => Fresh(cur[p])
CheckHasRaw == \A p \in Procs : pc[p] = "check" => row[cur[p]].sealed # None
OutcomeHasHash == \A x \in Txs : row[x].status \in {"CONFIRMED", "FAILED"} => row[x].hash \in Raws
OutcomeInv ==
    /\ MinedWasSent /\ HashWasSent /\ RecordAfterSend /\ FreshInBlock
    /\ CheckHasRaw /\ OutcomeHasHash /\ OutcomeIsOnChain

\* The hash a poll read is the row's hash ever after, and the outcome it was
\* told is the one the chain has for that hash.
Polling == {"poll", "outcome"}
HashedIsOut ==
    \A x \in Txs : row[x].hash # None => row[x].status \in {"BROADCAST", "CONFIRMED", "FAILED"}
PolledHash == \A p \in Procs : pc[p] = "poll" => local[p] \in Raws /\ row[cur[p]].hash = local[p]
ToldOutcome ==
    \A p \in Procs : pc[p] = "outcome" =>
        /\ row[cur[p]].hash \in Raws
        /\ local[p] # "pending" /\ local[p] = mined[cur[p]][row[cur[p]].hash]
PollInv == HashedIsOut /\ PolledHash /\ ToldOutcome

\* Whoever is not a poll leaves a row with a hash alone, and gives a hash only
\* together with BROADCAST.
HashesKept ==
    \A x \in Txs :
      IF row[x].hash # None
      THEN row'[x].hash = row[x].hash /\ row'[x].status = row[x].status
      ELSE row'[x].hash = None \/ row'[x].status = "BROADCAST"

LEMMA PollsKept ==
    ASSUME TypeOK, PollInv, HashesKept,
           \A x \in Txs : \A r \in Raws : mined[x][r] # "pending" => mined'[x][r] = mined[x][r],
           \A q \in Procs : pc'[q] \in Polling =>
              pc'[q] = pc[q] /\ cur'[q] = cur[q] /\ local'[q] = local[q]
    PROVE  PollInv'
<1>0. None \notin Raws /\ \A q \in Procs : pc[q] \in Polling => cur[q] \in Txs
  BY Web3Assumption DEF TypeOK, ThreadsOK, Polling
<1>1. HashedIsOut'
  BY DEF PollInv, HashedIsOut, HashesKept
<1>2. PolledHash'
  BY <1>0 DEF PollInv, PolledHash, HashesKept, Polling
<1>3. ToldOutcome'
  <2> SUFFICES ASSUME NEW q \in Procs, pc'[q] = "outcome"
               PROVE  /\ row'[cur'[q]].hash \in Raws /\ local'[q] # "pending"
                      /\ local'[q] = mined'[cur'[q]][row'[cur'[q]].hash]
    BY DEF ToldOutcome
  <2>1. pc[q] = "outcome" /\ cur'[q] = cur[q] /\ local'[q] = local[q] /\ cur[q] \in Txs
    BY <1>0 DEF Polling
  <2>2. row[cur[q]].hash \in Raws /\ local[q] # "pending"
        /\ local[q] = mined[cur[q]][row[cur[q]].hash]
    BY <2>1 DEF PollInv, ToldOutcome
  <2>3. row'[cur[q]].hash = row[cur[q]].hash
    BY <1>0, <2>1, <2>2 DEF HashesKept
  <2> QED
    BY <2>1, <2>2, <2>3
<1> QED
  BY <1>1, <1>2, <1>3 DEF PollInv

\* The step of FinalStatusesStay.
FinalKept == \A x \in Txs : row[x].status \in Final => row'[x].status = row[x].status

\* The part of OutcomeInv about one row survives a step that leaves the status
\* and the hash, writes a status that is no outcome, or writes the outcome.
RowSound(x) ==
    \/ row'[x].status = row[x].status /\ row'[x].hash = row[x].hash
    \/ /\ row'[x].status \notin {"CONFIRMED", "FAILED"}
       /\ row'[x].hash = None \/ row'[x].hash = row[x].hash \/ sent'[x] # {}
    \/ /\ row'[x].hash = row[x].hash /\ row'[x].hash \in Raws
       /\ \/ row'[x].status = "CONFIRMED" /\ mined[x][row[x].hash] = "ok"
          \/ row'[x].status = "FAILED" /\ mined[x][row[x].hash] = "reverted"

LEMMA RowsStaySound ==
    ASSUME OutcomeInv, UNCHANGED mined,
           \A x \in Txs : sent[x] \subseteq sent'[x], \A x \in Txs : RowSound(x)
    PROVE  MinedWasSent' /\ HashWasSent' /\ OutcomeHasHash' /\ OutcomeIsOnChain'
<1>1. MinedWasSent'
  BY DEF OutcomeInv, MinedWasSent
<1>2. HashWasSent'
  BY DEF OutcomeInv, HashWasSent, RowSound
<1>3. OutcomeHasHash'
  BY DEF OutcomeInv, OutcomeHasHash, RowSound
<1>4. OutcomeIsOnChain'
  BY DEF OutcomeInv, OutcomeIsOnChain, RowSound
<1> QED
  BY <1>1, <1>2, <1>3, <1>4

\* A step that writes no row, and sends and mines nothing, keeps OutcomeInv if
\* whoever enters the block enters it on a fresh row.
LEMMA IdleRows ==
    ASSUME OutcomeInv, UNCHANGED <<row, sent, mined>>,
           \A q \in Procs : pc'[q] \in InBlock =>
              \/ pc'[q] = pc[q] /\ cur'[q] = cur[q]
              \/ /\ pc'[q] # "record" /\ Fresh(cur'[q])
                 /\ pc'[q] = "check" => row[cur'[q]].sealed # None
    PROVE  OutcomeInv' /\ FinalKept /\ HashesKept
<1>1. /\ MinedWasSent' /\ HashWasSent' /\ OutcomeHasHash' /\ OutcomeIsOnChain'
      /\ FinalKept /\ HashesKept
  BY DEF HashesKept, OutcomeInv, MinedWasSent, HashWasSent, OutcomeHasHash, OutcomeIsOnChain, FinalKept
<1>2. RecordAfterSend'
  BY DEF OutcomeInv, RecordAfterSend, InBlock, Labels
<1>3. FreshInBlock'
  BY DEF OutcomeInv, FreshInBlock, Fresh
<1>4. CheckHasRaw'
  BY DEF OutcomeInv, CheckHasRaw, InBlock, Labels
<1> QED
  BY <1>1, <1>2, <1>3, <1>4 DEF OutcomeInv

\* An unsigned row is fresh: it was never sent, so it has no hash.
LEMMA UnsignedIsFresh ==
    ASSUME SigningInv, OutcomeInv, NEW x \in Txs, row[x].status \in Unsigned
    PROVE  Fresh(x)
  BY DEF SigningInv, OutcomeInv, PastSignable, HashWasSent, Fresh, Final, Unsigned

\* The owner of the block writes its own row only, keeps it fresh while it
\* stays, and leaves with a status that is no outcome.
LEMMA OwnerKeepsOutcome ==
    ASSUME TypeOK, SigningInv, OutcomeInv, NEW p \in Procs, pc[p] \in InBlock,
           UNCHANGED mined, \A x \in Txs : sent[x] \subseteq sent'[x],
           \A x \in Txs : x # cur[p] => row'[x] = row[x],
           \A q \in Procs : q # p => pc'[q] = pc[q],
           pc'[p] # "check", pc'[p] = "record" => sent'[cur[p]] # {},
           pc'[p] \in InBlock => cur'[p] = cur[p] /\ Fresh(cur[p])',
           row'[cur[p]].status \notin {"CONFIRMED", "FAILED"},
           \/ row'[cur[p]].hash = None
           \/ row'[cur[p]].status = "BROADCAST" /\ sent'[cur[p]] # {}
    PROVE  OutcomeInv' /\ FinalKept /\ HashesKept
<1>1. cur[p] \in Txs
  BY DEF TypeOK, ThreadsOK, InBlock
<1>2. \A q \in Procs : q # p => pc[q] \notin InBlock
  BY Exclusive DEF SigningInv
<1>3. \A x \in Txs : RowSound(x)
  BY <1>1 DEF RowSound
<1>4. MinedWasSent' /\ HashWasSent' /\ OutcomeHasHash' /\ OutcomeIsOnChain'
  BY <1>3, RowsStaySound
<1>5. RecordAfterSend'
  BY <1>2 DEF RecordAfterSend, InBlock, Labels
<1>6. FreshInBlock'
  BY <1>2 DEF FreshInBlock, Fresh
<1>7. FinalKept /\ HashesKept
  BY <1>1 DEF OutcomeInv, FreshInBlock, Fresh, FinalKept, HashesKept
<1>8. CheckHasRaw'
  BY <1>2 DEF CheckHasRaw, InBlock, Labels
<1> QED
  BY <1>4, <1>5, <1>6, <1>7, <1>8 DEF OutcomeInv


\* Writing columns of one row: what the status and the hash are after it.
LEMMA WrittenRow ==
    ASSUME RowsOK, NEW x \in Txs
    PROVE  /\ \A s : row' = [row EXCEPT ![x].status = s]
                  => row'[x].status = s /\ row'[x].hash = row[x].hash
           /\ \A s, a : row' = [row EXCEPT ![x].status = s, ![x].authorizedBy = a]
                  => row'[x].status = s /\ row'[x].hash = row[x].hash
           /\ \A w : row' = [row EXCEPT ![x].sealed = w]
                  => row'[x].status = row[x].status /\ row'[x].hash = row[x].hash
           /\ \A s, w : row' = [row EXCEPT ![x].status = s, ![x].hash = w]
                  => row'[x].status = s /\ row'[x].hash = w
<1>1. row[x] \in Rows /\ row \in [Txs -> Rows]
  BY DEF RowsOK
<1>2. ASSUME NEW s, row' = [row EXCEPT ![x].status = s]
      PROVE  row'[x].status = s /\ row'[x].hash = row[x].hash
  <2>1. row'[x] = [row[x] EXCEPT !.status = s]
    BY <1>1, <1>2
  <2> QED
    BY <1>1, <2>1, Zenon DEF Rows
<1>3. ASSUME NEW s, NEW a, row' = [row EXCEPT ![x].status = s, ![x].authorizedBy = a]
      PROVE  row'[x].status = s /\ row'[x].hash = row[x].hash
  <2>1. row'[x] = [row[x] EXCEPT !.status = s, !.authorizedBy = a]
    BY <1>1, <1>3
  <2> QED
    BY <1>1, <2>1, Zenon DEF Rows
<1>4. ASSUME NEW w, row' = [row EXCEPT ![x].sealed = w]
      PROVE  row'[x].status = row[x].status /\ row'[x].hash = row[x].hash
  <2>1. row'[x] = [row[x] EXCEPT !.sealed = w]
    BY <1>1, <1>4
  <2> QED
    BY <1>1, <2>1, Zenon DEF Rows
<1>5. ASSUME NEW s, NEW w, row' = [row EXCEPT ![x].status = s, ![x].hash = w]
      PROVE  row'[x].status = s /\ row'[x].hash = w
  <2>1. row'[x] = [row[x] EXCEPT !.status = s, !.hash = w]
    BY <1>1, <1>5
  <2> QED
    BY <1>1, <2>1, Zenon DEF Rows
<1> QED
  BY <1>2, <1>3, <1>4, <1>5, Zenon

\* create's insert, authorize's and reject's write keep OutcomeInv.
LEMMA WritesKeepOutcome ==
    ASSUME TypeOK, SigningInv, OutcomeInv, NEW t \in Threads,
           Insert(t) \/ WriteAuthorized(t) \/ WriteRejected(t)
    PROVE  OutcomeInv' /\ FinalKept /\ HashesKept
<1>t. /\ pc \in [Procs -> Labels] /\ row \in [Txs -> Rows] /\ sent \in [Txs -> SUBSET Raws]
      /\ \A q \in Procs : pc[q] # "idle" => cur[q] \in Txs
      /\ RowsOK
  BY DEF TypeOK, ThreadsOK, RowsOK, ChainOK
<1>1. pc[t] \in InBlock /\ cur[t] \in Txs /\ UNCHANGED <<sent, mined>>
  BY <1>t DEF Insert, WriteAuthorized, WriteRejected, external, InBlock, Labels
<1>2. Fresh(cur[t])
  BY <1>1 DEF OutcomeInv, FreshInBlock
<1>3. pc'[t] \in {"idle", "sign"} /\ \A q \in Procs : q # t => pc'[q] = pc[q]
  BY <1>t DEF Insert, WriteAuthorized, WriteRejected, Return, Leave, ReleaseToSign, Move
<1>4. \A y \in Txs : y # cur[t] => row'[y] = row[y]
  BY <1>t, <1>1 DEF Insert, WriteAuthorized, WriteRejected, SetStatus
<1>5. row'[cur[t]].status \notin {"CONFIRMED", "FAILED"} /\ row'[cur[t]].hash = None
  <2>1. CASE Insert(t)
    BY <1>t, <1>1, <2>1 DEF Insert, NewRow
  <2>2. CASE WriteAuthorized(t)
    <3>1. row' = [row EXCEPT ![cur[t]].status = "AUTHORIZED", ![cur[t]].authorizedBy = "policy"]
      BY <2>2 DEF WriteAuthorized
    <3>2. row'[cur[t]].status = "AUTHORIZED"
          /\ row'[cur[t]].hash = row[cur[t]].hash
      BY <1>t, <1>1, <3>1, WrittenRow, Zenon
    <3> QED
      BY <1>2, <3>2 DEF Fresh
  <2>3. CASE WriteRejected(t)
    <3>1. row' = [row EXCEPT ![cur[t]].status = "REJECTED"]
      BY <2>3 DEF WriteRejected, SetStatus
    <3>2. row'[cur[t]].status = "REJECTED"
          /\ row'[cur[t]].hash = row[cur[t]].hash
      BY <1>t, <1>1, <3>1, WrittenRow, Zenon
    <3> QED
      BY <1>2, <3>2 DEF Fresh
  <2> QED
    BY <2>1, <2>2, <2>3
<1> QED
  BY <1>1, <1>3, <1>4, <1>5, OwnerKeepsOutcome DEF InBlock

\* sign_and_broadcast keeps OutcomeInv.
LEMMA SignStepKeepsOutcome ==
    ASSUME TypeOK, SigningInv, OutcomeInv, NEW p \in Procs, SignStep(p)
    PROVE  OutcomeInv' /\ FinalKept /\ HashesKept
<1>t. /\ pc \in [Procs -> Labels] /\ row \in [Txs -> Rows] /\ sent \in [Txs -> SUBSET Raws]
      /\ cur \in [Procs -> Txs \cup {None}] /\ RowsOK
      /\ \A q \in Procs : pc[q] # "idle" => cur[q] \in Txs
      /\ \A q \in Procs : pc[q] \in HoldingRaw => local[q] \in Raws
  BY DEF TypeOK, ThreadsOK, RowsOK, ChainOK
<1>1. CASE SignRefused(p)
  <2>1. UNCHANGED <<row, sent, mined>>
    BY <1>1 DEF SignRefused, external
  <2>2. \A q \in Procs : pc'[q] \in InBlock => pc'[q] = pc[q] /\ cur'[q] = cur[q]
    BY <1>1, <1>t DEF SignRefused, Return, Leave, Move, InBlock
  <2> QED
    BY <2>1, <2>2, IdleRows
<1>2. CASE SignEnter(p)
  <2>1. UNCHANGED <<row, sent, mined, cur>> /\ pc[p] = "sign" /\ cur[p] \in Txs
    BY <1>2, <1>t DEF SignEnter, external
  <2>2. row[cur[p]].status \in Unsigned
    BY <1>2 DEF SignEnter, MaySign, Signable, Unsigned
  <2>3. Fresh(cur'[p])
    BY <2>1, <2>2, UnsignedIsFresh
  <2>4. /\ pc'[p] # "record" /\ (pc'[p] = "check" => row[cur[p]].sealed # None)
        /\ \A q \in Procs : q # p => pc'[q] = pc[q]
    BY <1>2, <1>t DEF SignEnter, Move
  <2> QED
    BY <2>1, <2>3, <2>4, IdleRows
<1>3. ASSUME Check(p) \/ Mark(p) \/ Derive(p) \/ Seal(p) \/ MarkSigned(p) \/ Send(p)
             \/ RecordBroadcast(p)
      PROVE  OutcomeInv' /\ FinalKept /\ HashesKept
  <2>1. pc[p] \in InBlock /\ cur[p] \in Txs /\ UNCHANGED mined
    BY <1>3, <1>t DEF Check, Mark, Derive, Seal, MarkSigned, Send, RecordBroadcast,
                      InBlock, Labels, external
  <2>2. Fresh(cur[p])
    BY <2>1 DEF OutcomeInv, FreshInBlock
  <2>3. \A x \in Txs : x # cur[p] => row'[x] = row[x]
    BY <1>3, <1>t, <2>1 DEF Check, Mark, Derive, Seal, MarkSigned, Send, RecordBroadcast, SetStatus
  <2>4. \A x \in Txs : sent[x] \subseteq sent'[x]
    BY <1>3, <1>t, <2>1 DEF Check, Mark, Derive, Seal, MarkSigned, Send, RecordBroadcast, external
  <2>5. /\ \A q \in Procs : q # p => pc'[q] = pc[q]
        /\ pc'[p] = "idle" \/ cur'[p] = cur[p]
    BY <1>3, <1>t DEF Check, Mark, Derive, Seal, MarkSigned, Send, RecordBroadcast, Return, Leave, Move
  <2>6. pc'[p] # "check" /\ (pc'[p] = "record" => sent'[cur[p]] # {})
    <3>1. CASE Send(p)
      <4>1. pc' = [pc EXCEPT ![p] = "record"] \/ pc' = [pc EXCEPT ![p] = "idle"]
        BY <3>1 DEF Send, Return, Leave, Move
      <4>2. pc'[p] = "record" => sent' = [sent EXCEPT ![cur[p]] = @ \cup {local[p]}]
        BY <1>t, <3>1 DEF Send, Return, Leave, Move
      <4> QED
        BY <1>t, <2>1, <4>1, <4>2
    <3>2. CASE ~Send(p)
      <4>1. \E l \in {"mark", "derive", "seal", "signed", "send", "idle"} : pc' = [pc EXCEPT ![p] = l]
        BY <1>3, <3>2 DEF Check, Mark, Derive, Seal, MarkSigned, RecordBroadcast, Return, Leave, Move
      <4> QED
        BY <1>t, <4>1
    <3> QED
      BY <3>1, <3>2
  <2>7. \/ pc'[p] = "idle" /\ pc[p] = "record"
        \/ row'[cur[p]].hash = None /\ row'[cur[p]].status \notin Final
    <3>1. CASE Check(p)
      <4>1. sent[cur[p]] = {}
        BY <2>1, <3>1 DEF Check, SigningInv, UnsentInBlock, InBlock
      <4>2. row[cur[p]].sealed \in Raws
        BY <1>t, <2>1, <3>1, RowUpdate DEF Check, OutcomeInv, CheckHasRaw
      <4>3. mined[cur[p]][row[cur[p]].sealed] = "pending"
        BY <2>1, <4>1, <4>2 DEF OutcomeInv, MinedWasSent
      <4> QED
        BY <2>2, <3>1, <4>3 DEF Check, Fresh
    <3>2. CASE Mark(p)
      <4>1. row' = [row EXCEPT ![cur[p]].status = "AUTHORIZED"]
        BY <3>2 DEF Mark, SetStatus
      <4>2. row'[cur[p]].status = "AUTHORIZED"
            /\ row'[cur[p]].hash = row[cur[p]].hash
        BY <1>t, <2>1, <4>1, WrittenRow, Zenon
      <4> QED
        BY <2>2, <4>2 DEF Fresh, Final
    <3>3. CASE Derive(p) \/ Send(p)
      BY <2>2, <3>3 DEF Derive, Send, Fresh
    <3>4. CASE Seal(p)
      <4>1. row' = [row EXCEPT ![cur[p]].sealed = local[p]]
        BY <3>4 DEF Seal
      <4>2. row'[cur[p]].status = row[cur[p]].status /\ row'[cur[p]].hash = row[cur[p]].hash
        BY <1>t, <2>1, <4>1, WrittenRow, Zenon
      <4> QED
        BY <2>2, <4>2 DEF Fresh
    <3>5. CASE MarkSigned(p)
      <4>1. row' = [row EXCEPT ![cur[p]].status = "SIGNED"]
        BY <3>5 DEF MarkSigned, SetStatus
      <4>2. row'[cur[p]].status = "SIGNED"
            /\ row'[cur[p]].hash = row[cur[p]].hash
        BY <1>t, <2>1, <4>1, WrittenRow, Zenon
      <4> QED
        BY <2>2, <4>2 DEF Fresh, Final
    <3>6. CASE RecordBroadcast(p)
      <4>1. pc[p] = "record" /\ Return(p)
        BY <3>6 DEF RecordBroadcast
      <4>2. pc'[p] = "idle"
        BY <1>t, <4>1 DEF Return, Leave, Move
      <4> QED
        BY <4>1, <4>2
    <3> QED
      BY <1>3, <3>1, <3>2, <3>3, <3>4, <3>5, <3>6
  <2>8. pc[p] = "record" => row'[cur[p]].status = "BROADCAST" /\ sent'[cur[p]] # {}
    <3>1. ASSUME pc[p] = "record" PROVE RecordBroadcast(p)
      BY <1>3, <3>1 DEF Check, Mark, Derive, Seal, MarkSigned, Send
    <3>2. ASSUME pc[p] = "record" PROVE sent'[cur[p]] # {}
      BY <3>1, <3>2 DEF OutcomeInv, RecordAfterSend, RecordBroadcast, external
    <3>3. ASSUME pc[p] = "record" PROVE row'[cur[p]].status = "BROADCAST"
      <4>1. row' = [row EXCEPT ![cur[p]].status = "BROADCAST", ![cur[p]].hash = local[p]]
        BY <3>1, <3>3 DEF RecordBroadcast
      <4> QED
        BY <1>t, <2>1, <4>1, WrittenRow, Zenon
    <3> QED
      BY <3>2, <3>3
  <2>9. pc'[p] \in InBlock => cur'[p] = cur[p] /\ Fresh(cur[p])'
    BY <2>5, <2>7 DEF Fresh, InBlock
  <2>10. row'[cur[p]].status \notin {"CONFIRMED", "FAILED"}
    BY <2>7, <2>8 DEF Final
  <2>11. \/ row'[cur[p]].hash = None
         \/ row'[cur[p]].status = "BROADCAST" /\ sent'[cur[p]] # {}
    BY <2>7, <2>8
  <2> QED
    BY <2>1, <2>3, <2>4, <2>5, <2>6, <2>9, <2>10, <2>11, OwnerKeepsOutcome
<1> QED
  BY <1>1, <1>2, <1>3 DEF SignStep


\* Every step but a poll's keeps OutcomeInv, final statuses and hashes.
LEMMA StepKeepsOutcome ==
    ASSUME TypeOK, SigningInv, OutcomeInv, PollInv, [Next]_vars,
           \A t \in Threads : ~PollStep(t)
    PROVE  OutcomeInv' /\ FinalKept /\ HashesKept
<1>t. /\ pc \in [Procs -> Labels] /\ row \in [Txs -> Rows] /\ sent \in [Txs -> SUBSET Raws]
      /\ mined \in [Txs -> [Raws -> Outcomes]]
      /\ cur \in [Procs -> Txs \cup {None}] /\ RowsOK
      /\ \A q \in Procs : pc[q] # "idle" => cur[q] \in Txs
  BY DEF TypeOK, ThreadsOK, RowsOK, ChainOK
<1>1. ASSUME NEW t \in Threads, NEW x \in Txs, Create(t, x) \/ Authorize(t, x) \/ Reject(t, x)
      PROVE  OutcomeInv' /\ FinalKept /\ HashesKept
  <2>1. PICK l \in {"insert", "authorize", "reject"} : Enter(t, x, l)
    BY <1>1 DEF Create, Authorize, Reject
  <2>2. UNCHANGED <<row, sent, mined>> /\ row[x].status \in Unsigned
    BY <1>1 DEF Create, Authorize, Reject, external, Unsigned
  <2>3. Fresh(x)
    BY <2>2, UnsignedIsFresh
  <2>4. /\ pc'[t] = l /\ cur'[t] = x
        /\ \A q \in Procs : q # t => pc'[q] = pc[q] /\ cur'[q] = cur[q]
    BY <1>t, <2>1 DEF Enter, Move
  <2> QED
    BY <2>2, <2>3, <2>4, IdleRows
<1>2. ASSUME NEW t \in Threads, NEW x \in Txs, Submit(t, x) PROVE OutcomeInv' /\ FinalKept /\ HashesKept
  <2>1. UNCHANGED <<row, sent, mined>>
    BY <1>2 DEF Submit, external
  <2>2. \A q \in Procs : pc'[q] \in InBlock => pc'[q] = pc[q] /\ cur'[q] = cur[q]
    BY <1>t, <1>2 DEF Submit, Move, InBlock
  <2> QED
    BY <2>1, <2>2, IdleRows
<1>3. ASSUME NEW x \in Txs, RecoverNext(x) PROVE OutcomeInv' /\ FinalKept /\ HashesKept
  <2>1. UNCHANGED <<row, sent, mined>>
    BY <1>3 DEF RecoverNext, external
  <2>2. \A q \in Procs : pc'[q] \in InBlock => pc'[q] = pc[q] /\ cur'[q] = cur[q]
    BY <1>t, <1>3 DEF RecoverNext, Move, InBlock
  <2> QED
    BY <2>1, <2>2, IdleRows
<1>5. CASE EmergencyStop
  <2>1. UNCHANGED <<sent, mined, pc, cur>>
    BY <1>5 DEF EmergencyStop, external
  <2>2. ASSUME NEW y \in Txs
        PROVE  /\ row'[y].hash = row[y].hash /\ row'[y].sealed = row[y].sealed
               /\ \/ row'[y].status = row[y].status
                  \/ /\ row'[y].status = "CANCELLED"
                     /\ row[y].status \notin Final \cup {"BROADCAST"}
    <3>1. CASE row[y].status \in {"PREPARED", "AUTHORIZED", "SIGNED"}
      <4>1. row'[y] = [row[y] EXCEPT !.status = "CANCELLED"] /\ row[y] \in Rows
        BY <1>t, <1>5, <3>1 DEF EmergencyStop
      <4>2. /\ row'[y].hash = row[y].hash /\ row'[y].sealed = row[y].sealed
            /\ row'[y].status = "CANCELLED"
        BY <4>1, Zenon DEF Rows
      <4> QED
        BY <3>1, <4>2 DEF Final
    <3>2. CASE row[y].status \notin {"PREPARED", "AUTHORIZED", "SIGNED"}
      BY <1>5, <3>2 DEF EmergencyStop
    <3> QED
      BY <3>1, <3>2
  <2>3. MinedWasSent' /\ HashWasSent' /\ OutcomeHasHash' /\ OutcomeIsOnChain'
    BY <2>1, <2>2, RowsStaySound DEF RowSound
  <2>4. RecordAfterSend' /\ FreshInBlock' /\ CheckHasRaw'
    BY <1>t, <2>1, <2>2
       DEF OutcomeInv, RecordAfterSend, FreshInBlock, Fresh, Final, CheckHasRaw, InBlock, Labels
  <2>5. FinalKept /\ HashesKept
    BY <2>2 DEF FinalKept, Final, HashesKept, PollInv, HashedIsOut
  <2> QED
    BY <2>3, <2>4, <2>5 DEF OutcomeInv
<1>6. CASE Crash
  <2>1. UNCHANGED <<row, sent, mined>> /\ \A q \in Procs : pc'[q] = "idle"
    BY <1>6 DEF Crash, external
  <2> QED
    BY <2>1, IdleRows DEF InBlock
<1>7. CASE BootDone \/ EmergencyResume \/ SetMode \/ UNCHANGED vars
  <2>1. UNCHANGED <<row, sent, mined, pc, cur>>
    BY <1>7 DEF BootDone, EmergencyResume, SetMode, vars, memory, external
  <2> QED
    BY <2>1, IdleRows
<1>8. ASSUME NEW x \in Txs, NEW r \in Raws, Mine(x, r) PROVE OutcomeInv' /\ FinalKept /\ HashesKept
  <2>1. UNCHANGED <<row, sent, pc, cur>> /\ r \in sent[x] /\ mined[x][r] = "pending"
    BY <1>8 DEF Mine, memory
  <2>2. \A y \in Txs : \A w \in Raws : mined'[y][w] = mined[y][w] \/ (y = x /\ w = r)
    <3>1. PICK o \in {"ok", "reverted"} : mined' = [mined EXCEPT ![x][r] = o]
      BY <1>8 DEF Mine
    <3>2. mined'[x] = [mined[x] EXCEPT ![r] = o] /\ \A y \in Txs : y # x => mined'[y] = mined[y]
      BY <1>t, <3>1
    <3>3. ASSUME NEW w \in Raws, w # r PROVE mined'[x][w] = mined[x][w]
      <4>1. mined[x] \in [Raws -> Outcomes]
        BY <1>t
      <4> QED
        BY <3>2, <3>3, <4>1, Zenon
    <3> QED
      BY <3>2, <3>3, Zenon
  <2>3. MinedWasSent'
    BY <2>1, <2>2 DEF OutcomeInv, MinedWasSent
  <2>5. HashWasSent' /\ OutcomeHasHash' /\ RecordAfterSend' /\ CheckHasRaw' /\ FinalKept /\ HashesKept
    BY <2>1 DEF OutcomeInv, HashWasSent, OutcomeHasHash, RecordAfterSend, CheckHasRaw,
                FinalKept, HashesKept
  <2>6. FreshInBlock'
    BY <2>1 DEF OutcomeInv, FreshInBlock, Fresh
  <2>4. OutcomeIsOnChain'
    BY <2>1, <2>2 DEF OutcomeInv, OutcomeHasHash, OutcomeIsOnChain
  <2> QED
    BY <2>3, <2>4, <2>5, <2>6 DEF OutcomeInv
<1> QED
  BY <1>1, <1>2, <1>3, <1>5, <1>6, <1>7, <1>8, SignStepKeepsOutcome, WritesKeepOutcome
     DEF Next, ThreadStep

\* A poll keeps both invariants and every final status: what it writes is the
\* outcome of the hash the row still has.
LEMMA PollStepKeeps ==
    ASSUME TypeOK, SigningInv, OutcomeInv, PollInv, NEW t \in Threads, PollStep(t)
    PROVE  OutcomeInv' /\ FinalKept /\ PollInv'
<1>t. /\ pc \in [Procs -> Labels] /\ row \in [Txs -> Rows] /\ RowsOK
      /\ cur \in [Procs -> Txs \cup {None}]
      /\ local \in [Procs -> Raws \cup Verdicts \cup Outcomes \cup {None}]
      /\ \A q \in Procs : pc[q] # "idle" => cur[q] \in Txs
      /\ mined \in [Txs -> [Raws -> Outcomes]]
  BY DEF TypeOK, ThreadsOK, RowsOK, ChainOK
<1>p. HashedIsOut /\ PolledHash /\ ToldOutcome
  BY DEF PollInv
<1>o. \A q \in Procs : q # t => UNCHANGED <<pc[q], cur[q], local[q]>>
  BY <1>t DEF PollStep, Poll, Ask, WriteOutcome, Leave, Move
<1>u. UNCHANGED <<sent, mined>>
  BY DEF PollStep, Poll, Ask, WriteOutcome, external
<1>b. \A q \in Procs : pc'[q] \in InBlock => pc'[q] = pc[q] /\ cur'[q] = cur[q]
  BY <1>t DEF PollStep, Poll, Ask, WriteOutcome, Leave, Move, InBlock
<1>r. ASSUME row' = row,
             pc'[t] = "poll" => local'[t] \in Raws /\ row[cur'[t]].hash = local'[t],
             pc'[t] = "outcome" => /\ row[cur'[t]].hash \in Raws /\ local'[t] # "pending"
                                   /\ local'[t] = mined[cur'[t]][row[cur'[t]].hash]
      PROVE  OutcomeInv' /\ FinalKept /\ PollInv'
  <2>1. OutcomeInv' /\ FinalKept
    BY <1>b, <1>u, <1>r, IdleRows
  <2>2. HashedIsOut'
    BY <1>p, <1>r DEF HashedIsOut
  <2>3. PolledHash'
    BY <1>p, <1>o, <1>r DEF PolledHash
  <2>4. ToldOutcome'
    BY <1>p, <1>o, <1>r, <1>u DEF ToldOutcome
  <2> QED
    BY <2>1, <2>2, <2>3, <2>4 DEF PollInv
<1>1. ASSUME NEW x \in Txs, Poll(t, x) PROVE OutcomeInv' /\ FinalKept /\ PollInv'
  <2>1. row[x].hash \in Raws
    BY <1>1, <1>t, RowUpdate DEF Poll
  <2>2. pc'[t] = "poll" /\ cur'[t] = x /\ local'[t] = row[x].hash /\ row' = row
    BY <1>1, <1>t DEF Poll, Move
  <2> QED
    BY <1>r, <2>1, <2>2
<1>2. CASE Ask(t)
  <2>1. local[t] \in Raws /\ row[cur[t]].hash = local[t] /\ row' = row
    BY <1>2, <1>p DEF Ask, PolledHash
  <2>2. CASE Leave(t)
    <3>1. pc'[t] = "idle"
      BY <1>t, <2>2 DEF Leave, Move
    <3> QED
      BY <1>r, <2>1, <3>1
  <2>3. CASE /\ mined[cur[t]][local[t]] # "pending" /\ Move(t, "outcome") /\ UNCHANGED cur
             /\ local' = [local EXCEPT ![t] = mined[cur[t]][local[t]]]
    <3>1. pc'[t] = "outcome" /\ cur'[t] = cur[t] /\ local'[t] = mined[cur[t]][local[t]]
      BY <1>t, <2>3 DEF Move
    <3> QED
      BY <1>r, <2>1, <2>3, <3>1
  <2> QED
    BY <1>2, <2>2, <2>3 DEF Ask
<1>3. CASE WriteOutcome(t)
  <2> DEFINE x == cur[t]
  <2> DEFINE s == IF local[t] = "ok" THEN "CONFIRMED" ELSE "FAILED"
  <2>1. x \in Txs /\ pc[t] = "outcome" /\ pc'[t] = "idle" /\ local[t] \in Outcomes
    BY <1>3, <1>t DEF WriteOutcome, Leave, Move, TypeOK, ThreadsOK
  <2>2. row[x].hash \in Raws /\ local[t] # "pending" /\ local[t] = mined[x][row[x].hash]
    BY <1>p, <2>1 DEF ToldOutcome
  <2>3. row' = [row EXCEPT ![x].status = s]
    BY <1>3 DEF WriteOutcome, SetStatus
  <2>6. mined[x][row[x].hash] = IF s = "CONFIRMED" THEN "ok" ELSE "reverted"
    BY <2>1, <2>2 DEF Outcomes
  <2>7. row[x].hash # None /\ row[x].status \in {"BROADCAST", "CONFIRMED", "FAILED"}
    BY <1>p, <2>1, <2>2, Web3Assumption DEF HashedIsOut
  <2>s. s \in {"CONFIRMED", "FAILED"}
    OBVIOUS
  <2> HIDE DEF x, s
  <2>4. row'[x].status = s /\ row'[x].hash = row[x].hash
    BY <1>t, <2>1, <2>3, WrittenRow, Zenon
  <2>5. /\ \A y \in Txs : y # x => row'[y] = row[y]
        /\ row'[x].sealed = row[x].sealed
    BY <1>t, <2>1, <2>3 DEF Rows
  <2>8. \A y \in Txs : RowSound(y)
    BY <2>2, <2>4, <2>5, <2>6, <2>s DEF RowSound
  <2>9. MinedWasSent' /\ HashWasSent' /\ OutcomeHasHash' /\ OutcomeIsOnChain'
    BY <1>u, <2>8, RowsStaySound
  <2>10. \A q \in Procs : pc'[q] \in InBlock => cur[q] \in Txs \ {x}
    BY <1>b, <1>t, <2>7 DEF OutcomeInv, FreshInBlock, Fresh, InBlock
  <2>11. RecordAfterSend' /\ FreshInBlock' /\ CheckHasRaw'
    BY <1>b, <1>u, <2>5, <2>10
       DEF OutcomeInv, RecordAfterSend, FreshInBlock, Fresh, CheckHasRaw, InBlock, Labels
  <2>12. FinalKept
    <3>1. row[x].status \in Final => row[x].status = s
      BY <2>1, <2>6, <2>7, <2>s DEF OutcomeInv, OutcomeIsOnChain, Final
    <3> QED
      BY <2>4, <2>5, <3>1 DEF FinalKept
  <2>13. HashedIsOut'
    BY <1>p, <2>4, <2>5, <2>s DEF HashedIsOut
  <2>14. \A y \in Txs : row'[y].hash = row[y].hash
    BY <2>4, <2>5
  <2>15. \A q \in Procs : pc'[q] \in Polling =>
            q # t /\ UNCHANGED <<pc[q], cur[q], local[q]>> /\ cur[q] \in Txs
    BY <1>o, <1>t, <2>1 DEF Polling
  <2>16. PolledHash' /\ ToldOutcome'
    BY <1>p, <1>u, <2>14, <2>15 DEF PolledHash, ToldOutcome, Polling
  <2> QED
    BY <2>9, <2>11, <2>12, <2>13, <2>16 DEF OutcomeInv, PollInv
<1> QED
  BY <1>1, <1>2, <1>3 DEF PollStep

\* No step but a poll's own moves a poll, or changes what the chain has said.
LEMMA OthersLeavePolls ==
    ASSUME TypeOK, [Next]_vars, \A t \in Threads : ~PollStep(t)
    PROVE  /\ \A x \in Txs : \A r \in Raws : mined[x][r] # "pending" => mined'[x][r] = mined[x][r]
           /\ \A q \in Procs : pc'[q] \in Polling =>
                pc'[q] = pc[q] /\ cur'[q] = cur[q] /\ local'[q] = local[q]
<1>t. /\ pc \in [Procs -> Labels] /\ cur \in [Procs -> Txs \cup {None}]
      /\ local \in [Procs -> Raws \cup Verdicts \cup Outcomes \cup {None}]
      /\ mined \in [Txs -> [Raws -> Outcomes]]
  BY DEF TypeOK, ThreadsOK, ChainOK
<1> USE DEF Polling
<1>1. CASE \E t \in Threads : \E x \in Txs : Create(t, x) \/ Authorize(t, x) \/ Reject(t, x)
                                               \/ Submit(t, x)
  <2>1. UNCHANGED mined
    BY <1>1 DEF Create, Authorize, Reject, Submit, external
  <2> QED
    BY <1>1, <1>t, <2>1 DEF Create, Authorize, Reject, Submit, Enter, Move
<1>2. CASE \E t \in Threads : Insert(t) \/ WriteAuthorized(t) \/ WriteRejected(t)
  <2>1. UNCHANGED mined
    BY <1>2 DEF Insert, WriteAuthorized, WriteRejected, external
  <2> QED
    BY <1>2, <1>t, <2>1 DEF Insert, WriteAuthorized, WriteRejected, Return, Leave, ReleaseToSign, Move
<1>3. ASSUME NEW p \in Procs, SignStep(p)
      PROVE  UNCHANGED mined /\ \A q \in Procs : pc'[q] \in Polling =>
                pc'[q] = pc[q] /\ cur'[q] = cur[q] /\ local'[q] = local[q]
  <2>1. UNCHANGED mined
    BY <1>3 DEF SignStep, SignRefused, SignEnter, Check, Mark, Derive, Seal, MarkSigned, Send,
                RecordBroadcast, external
  <2>2. \A q \in Procs : q # p => pc'[q] = pc[q] /\ cur'[q] = cur[q] /\ local'[q] = local[q]
    BY <1>3, <1>t DEF SignStep, SignRefused, SignEnter, Check, Mark, Derive, Seal, MarkSigned, Send,
                      RecordBroadcast, Return, Leave, Move
  <2>3. \E l \in Labels \ Polling : pc' = [pc EXCEPT ![p] = l]
    BY <1>3 DEF SignStep, SignRefused, SignEnter, Check, Mark, Derive, Seal, MarkSigned, Send,
                RecordBroadcast, Return, Leave, Move, Labels
  <2> QED
    BY <1>t, <2>1, <2>2, <2>3
<1>4. CASE \E x \in Txs : RecoverNext(x)
  BY <1>4, <1>t DEF RecoverNext, Move, external
<1>5. CASE EmergencyStop \/ BootDone \/ EmergencyResume \/ SetMode \/ UNCHANGED vars
  BY <1>5 DEF EmergencyStop, BootDone, EmergencyResume, SetMode, vars, memory, external
<1>6. CASE Crash
  BY <1>6 DEF Crash, external
<1>7. CASE \E x \in Txs : \E r \in Raws : Mine(x, r)
  BY <1>7, <1>t DEF Mine, memory
<1> QED
  BY <1>1, <1>2, <1>3, <1>4, <1>5, <1>6, <1>7 DEF Next, ThreadStep

\* Every step of the system keeps OutcomeInv and PollInv, and leaves final
\* statuses alone.
LEMMA OutcomeInductive ==
    ASSUME TypeOK, SigningInv, OutcomeInv, PollInv, [Next]_vars
    PROVE  OutcomeInv' /\ FinalKept /\ PollInv'
<1>1. CASE \E t \in Threads : PollStep(t)
  BY <1>1, PollStepKeeps
<1>2. CASE \A t \in Threads : ~PollStep(t)
  BY <1>2, StepKeepsOutcome, OthersLeavePolls, PollsKept
<1> QED
  BY <1>1, <1>2

LEMMA OutcomeInvariant == Spec => [](OutcomeInv /\ PollInv)
<1>1. Init => OutcomeInv /\ PollInv
  <2> SUFFICES ASSUME Init PROVE OutcomeInv /\ PollInv
    OBVIOUS
  <2>1. /\ \A x \in Txs : row[x].status = "ABSENT" /\ row[x].hash = None
        /\ \A x \in Txs : \A r \in Raws : mined[x][r] = "pending"
        /\ \A p \in Procs : pc[p] = "idle"
    BY DEF Init, NewRow
  <2> QED
    BY <2>1 DEF OutcomeInv, MinedWasSent, HashWasSent, RecordAfterSend, FreshInBlock,
                CheckHasRaw, OutcomeHasHash, OutcomeIsOnChain, InBlock,
                PollInv, HashedIsOut, PolledHash, ToldOutcome
<1>2. TypeOK /\ SigningInv /\ OutcomeInv /\ PollInv /\ [Next]_vars => OutcomeInv' /\ PollInv'
  BY OutcomeInductive
<1> QED
  BY <1>1, <1>2, TypeCorrect, SigningInvariant, PTL DEF Spec

\* Whatever poll, recovery, stop and signers do, a row says CONFIRMED or FAILED
\* only of the outcome its own raw has on chain.
THEOREM OutcomesAreTrue == Spec => []OutcomeIsOnChain
<1>1. OutcomeInv => OutcomeIsOnChain
  BY DEF OutcomeInv
<1> QED
  BY <1>1, OutcomeInvariant, PTL

\* No signer and no poll that read the row earlier, no stop and no recovery pass
\* takes a row out of REJECTED, CONFIRMED or FAILED.
THEOREM FinalStays == Spec => FinalStatusesStay
<1>1. TypeOK /\ SigningInv /\ OutcomeInv /\ PollInv /\ [Next]_vars
        => [\A x \in Txs : row[x].status \in {"REJECTED", "CONFIRMED", "FAILED"}
                             => row'[x].status = row[x].status]_vars
  BY OutcomeInductive DEF FinalKept, Final
<1> QED
  BY <1>1, OutcomeInvariant, TypeCorrect, SigningInvariant, PTL DEF Spec, FinalStatusesStay

===========================================================================
