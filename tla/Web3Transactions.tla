--------------------------- MODULE Web3Transactions ---------------------------
(***************************************************************************)
(* TransactionManager (astra/web3/transactions.py): the SQLite row of each *)
(* transaction, the signing lock, the request threads that prepare,        *)
(* authorize, reject, sign and broadcast, the lock-free emergency stop and *)
(* confirmation poll, a crash at any point and the recovery pass that runs *)
(* at the next start.  Every store.exec commits on its own, so every       *)
(* update of a row is a step of its own.                                   *)
(*                                                                         *)
(* A signed raw transaction is identified by the nonce/fee choice it was   *)
(* built with: signing one row twice with different choices gives two      *)
(* distinct raws, with the same choice the same bytes (RFC 6979).          *)
(***************************************************************************)
EXTENDS Web3Policy, FiniteSets

CONSTANTS
    Txs,        \* transaction slots: a tx_id with the request it will carry
    Request,    \* the TxRequest of each slot
    Threads,    \* request threads of the server
    Boot,       \* the thread that runs bootstrap.build
    Raws,       \* the nonce/fee choices a raw can be signed with
    None,       \* "no value": empty column, free lock
    MaxCrashes  \* bound on the number of restarts explored

ASSUME Web3Assumption ==
    /\ Boot \notin Threads
    /\ None \notin Raws \cup Txs \cup Threads \cup {Boot}
    /\ Request \in [Txs -> [from : Wallets, to : Addresses \cup {None},
                            value : Nat, gas : Nat, hasData : BOOLEAN, chain : Nat]]
    /\ MaxCrashes \in Nat

VARIABLES
    row,        \* the web3_transactions table
    mode,       \* TransactionPolicyEngine.cfg.mode
    stopped,    \* the emergency-stop latch, in memory only
    lock,       \* holder of TransactionManager._lock
    pc,         \* where each thread is
    cur,        \* the transaction each thread works on
    local,      \* the thread's local result: the verdict, a raw it signed, or
                \* the hash a poll read and the outcome it was told
    phase,      \* "boot" while bootstrap runs recover(), then "serve"
    todo,       \* rows recover() fetched and has not handled yet
    sent,       \* raws handed to an RPC endpoint, per transaction
    mined,      \* outcome on chain of each (transaction, raw)
    crashes     \* restarts so far

memory == <<stopped, lock, pc, cur, local, phase, todo>>
vars == <<row, mode, memory, sent, mined, crashes>>

Procs == Threads \cup {Boot}
Statuses == {"ABSENT", "PREPARED", "AUTHORIZED", "SIGNED", "BROADCAST",
             "CONFIRMED", "FAILED", "REJECTED", "CANCELLED"}
InFlight == {"SIGNED", "BROADCAST", "AUTHORIZED"}
Rows == [status : Statuses, approval : BOOLEAN, authorizedBy : {"", "policy"},
         sealed : Raws \cup {None}, hash : Raws \cup {None}]
NewRow(status, approval) ==
    [status |-> status, approval |-> approval, authorizedBy |-> "",
     sealed |-> None, hash |-> None]
Labels == {"idle", "insert", "authorize", "reject", "sign", "check", "mark",
           "derive", "seal", "signed", "send", "record", "poll", "outcome"}
HoldingRaw == {"seal", "signed", "send", "record", "poll"}
Outcomes == {"pending", "ok", "reverted"}

RowsOK == row \in [Txs -> Rows]
ThreadsOK ==
    /\ lock \in Procs \cup {None}
    /\ pc \in [Procs -> Labels]
    /\ cur \in [Procs -> Txs \cup {None}]
    /\ local \in [Procs -> Raws \cup Verdicts \cup Outcomes \cup {None}]
    /\ \A p \in Procs : pc[p] # "idle" => cur[p] \in Txs
    /\ \A p \in Procs : pc[p] = "insert" => local[p] \in Verdicts
    /\ \A p \in Procs : pc[p] \in HoldingRaw => local[p] \in Raws
    /\ \A p \in Procs : pc[p] = "outcome" => local[p] \in Outcomes
ControlOK ==
    /\ mode \in Modes
    /\ stopped \in BOOLEAN
    /\ phase \in {"boot", "serve"}
    /\ todo \subseteq Txs
    /\ crashes \in 0..MaxCrashes
ChainOK ==
    /\ sent \in [Txs -> SUBSET Raws]
    /\ mined \in [Txs -> [Raws -> Outcomes]]
TypeOK == RowsOK /\ ThreadsOK /\ ControlOK /\ ChainOK

Init ==
    /\ row = [x \in Txs |-> NewRow("ABSENT", FALSE)]
    /\ mode \in Modes
    /\ stopped = FALSE
    /\ lock = None
    /\ pc = [p \in Procs |-> "idle"]
    /\ cur = [p \in Procs |-> None]
    /\ local = [p \in Procs |-> None]
    /\ phase = "boot"
    /\ todo = {}
    /\ sent = [x \in Txs |-> {}]
    /\ mined = [x \in Txs |-> [r \in Raws |-> "pending"]]
    /\ crashes = 0

-------------------------------------------------------------------------------
(* Thread plumbing. *)

Move(p, label) == pc' = [pc EXCEPT ![p] = label]
Acquire(p) == lock = None /\ lock' = p
Enter(p, x, label) ==
    /\ Acquire(p)
    /\ Move(p, label)
    /\ cur' = [cur EXCEPT ![p] = x]
Leave(p) ==
    /\ Move(p, "idle")
    /\ cur' = [cur EXCEPT ![p] = None]
    /\ local' = [local EXCEPT ![p] = None]
\* Leave the `with self._lock` block and return (or raise) to the caller.
Return(p) == lock' = None /\ Leave(p)
\* Leave the block with the same transaction still to sign.
ReleaseToSign(p) ==
    /\ lock' = None
    /\ Move(p, "sign")
    /\ local' = [local EXCEPT ![p] = None]
    /\ UNCHANGED cur

SetStatus(x, s) == row' = [row EXCEPT ![x].status = s]

external == <<sent, mined>>
control == <<mode, stopped, phase, todo, crashes>>

ValueOf(txs) ==
    LET Total[S \in SUBSET txs] ==
          IF S = {} THEN 0
          ELSE LET x == CHOOSE x \in S : TRUE IN Request[x].value + Total[S \ {x}]
    IN Total[txs]

\* All rows are of one day.
SpentToday ==
    IF MaxDailyValue = 0 THEN 0
    ELSE ValueOf({x \in Txs : row[x].status = "CONFIRMED"})

-------------------------------------------------------------------------------
(* create(): the policy verdict, then the insert. *)

Create(t, x) ==
    /\ phase = "serve" /\ pc[t] = "idle" /\ ~stopped
    /\ row[x].status = "ABSENT"
    /\ \A u \in Procs : cur[u] # x
    /\ LET verdict == Evaluate(mode, Request[x], SpentToday)
       IN /\ verdict # "block"
          /\ local' = [local EXCEPT ![t] = verdict]
    /\ Enter(t, x, "insert")
    /\ UNCHANGED <<row, control, external>>

\* The tool goes on to sign when the policy did not ask for approval.
Insert(t) ==
    /\ pc[t] = "insert"
    /\ row' = [row EXCEPT ![cur[t]] = NewRow("PREPARED", local[t] = "ask")]
    /\ IF local[t] = "ask" THEN Return(t) ELSE ReleaseToSign(t)
    /\ UNCHANGED <<control, external>>

-------------------------------------------------------------------------------
(* The operator's approve and reject endpoint. *)

Authorize(t, x) ==
    /\ phase = "serve" /\ pc[t] = "idle" /\ ~stopped
    /\ row[x].status = "PREPARED"
    /\ Enter(t, x, "authorize")
    /\ UNCHANGED <<row, local, control, external>>

WriteAuthorized(t) ==
    /\ pc[t] = "authorize"
    /\ row' = [row EXCEPT ![cur[t]].status = "AUTHORIZED",
                          ![cur[t]].authorizedBy = "policy"]
    /\ ReleaseToSign(t)
    /\ UNCHANGED <<control, external>>

Reject(t, x) ==
    /\ phase = "serve" /\ pc[t] = "idle"
    /\ row[x].status = "PREPARED"
    /\ Enter(t, x, "reject")
    /\ UNCHANGED <<row, local, control, external>>

WriteRejected(t) ==
    /\ pc[t] = "reject"
    /\ SetStatus(cur[t], "REJECTED")
    /\ Return(t)
    /\ UNCHANGED <<control, external>>

-------------------------------------------------------------------------------
(* sign_and_broadcast(). *)

AlreadySubmitted(r) == r.hash # None /\ r.status \in {"BROADCAST", "CONFIRMED"}
\* Mutant: an interrupted row is picked up again.
SignableAgain(r) == r.status \in {"AUTHORIZED", "PREPARED", "SIGNED"}
Signable(r) == r.status \in {"AUTHORIZED", "PREPARED"}
\* Mutant: the mode of now, not the verdict of PREPARE time.
AwaitsApprovalLive(r) == r.status = "PREPARED" /\ mode # "AUTO"
AwaitsApproval(r) == r.status = "PREPARED" /\ r.approval
MaySign(r) == ~AlreadySubmitted(r) /\ Signable(r) /\ ~AwaitsApproval(r)

\* A caller of its own: the method is public, and takes any tx_id.
Submit(t, x) ==
    /\ phase = "serve" /\ pc[t] = "idle"
    /\ row[x].status # "ABSENT"
    /\ Move(t, "sign") /\ cur' = [cur EXCEPT ![t] = x]
    /\ UNCHANGED <<row, lock, local, control, external>>

\* An early return or a raise: nothing is written.
SignRefused(p) ==
    /\ pc[p] = "sign" /\ lock = None
    /\ stopped \/ ~MaySign(row[cur[p]])
    /\ Return(p)
    /\ UNCHANGED <<row, control, external>>

\* Mutant: the row was read before the lock was taken.
SignEnterStale(p) ==
    /\ pc[p] = "sign" /\ ~stopped
    /\ Acquire(p)
    /\ Move(p, IF row[cur[p]].sealed # None THEN "check" ELSE "mark")
    /\ UNCHANGED <<row, cur, local, control, external>>
SignEnter(p) ==
    /\ pc[p] = "sign" /\ ~stopped
    /\ MaySign(row[cur[p]])
    /\ Acquire(p)
    /\ Move(p, IF row[cur[p]].sealed # None THEN "check" ELSE "mark")
    /\ UNCHANGED <<row, cur, local, control, external>>

\* A sealed raw exists: ask up to three endpoints for its receipt before
\* anything else.  No receipt, or no endpoint that answers: go on to sign.  The
\* receipt and the write behind it are one step: a row that may be signed has no
\* raw on the network (PastSignable), so that branch is never taken.
Check(p) ==
    /\ pc[p] = "check"
    /\ \E answered \in BOOLEAN :
         IF answered /\ mined[cur[p]][row[cur[p]].sealed] # "pending"
         THEN /\ row' = [row EXCEPT ![cur[p]].status = "CONFIRMED",
                                   ![cur[p]].hash = row[cur[p]].sealed]
              /\ Return(p)
         ELSE Move(p, "mark") /\ UNCHANGED <<row, lock, cur, local>>
    /\ UNCHANGED <<control, external>>

Mark(p) ==
    /\ pc[p] = "mark"
    /\ SetStatus(cur[p], "AUTHORIZED")
    /\ Move(p, "derive")
    /\ UNCHANGED <<lock, cur, local, control, external>>

\* Mutant: the lock is taken without `with`, and a raise keeps it.
DeriveKeepsLock(p) ==
    /\ pc[p] = "derive"
    /\ \/ \E r \in Raws : local' = [local EXCEPT ![p] = r]
          /\ Move(p, "seal")
          /\ UNCHANGED <<lock, cur>>
       \/ Move(p, "idle") /\ UNCHANGED <<lock, cur, local>>
    /\ UNCHANGED <<row, control, external>>
\* _sign_rec: nonce and fee come from RPC calls, which may all fail.
Derive(p) ==
    /\ pc[p] = "derive"
    /\ \/ \E r \in Raws : local' = [local EXCEPT ![p] = r]
          /\ Move(p, "seal")
          /\ UNCHANGED <<lock, cur>>
       \/ Return(p)
    /\ UNCHANGED <<row, control, external>>

Seal(p) ==
    /\ pc[p] = "seal"
    /\ row' = [row EXCEPT ![cur[p]].sealed = local[p]]
    /\ Move(p, "signed")
    /\ UNCHANGED <<lock, cur, local, control, external>>

MarkSigned(p) ==
    /\ pc[p] = "signed"
    /\ SetStatus(cur[p], "SIGNED")
    /\ Move(p, "send")
    /\ UNCHANGED <<lock, cur, local, control, external>>

\* The raw reaches the network and the call succeeds, or reaches it and the
\* call fails all the same, or never leaves the process.
Send(p) ==
    /\ pc[p] = "send"
    /\ \/ /\ sent' = [sent EXCEPT ![cur[p]] = @ \cup {local[p]}]
          /\ \/ Move(p, "record") /\ UNCHANGED <<lock, cur, local>>
             \/ Return(p)
       \/ Return(p) /\ UNCHANGED sent
    /\ UNCHANGED <<row, control, mined>>

RecordBroadcast(p) ==
    /\ pc[p] = "record"
    /\ row' = [row EXCEPT ![cur[p]].status = "BROADCAST",
                          ![cur[p]].hash = local[p]]
    /\ Return(p)
    /\ UNCHANGED <<control, external>>

SignStep(p) ==
    \/ SignRefused(p) \/ SignEnter(p)
    \/ Check(p) \/ Mark(p) \/ Derive(p) \/ Seal(p)
    \/ MarkSigned(p) \/ Send(p) \/ RecordBroadcast(p)

-------------------------------------------------------------------------------
(* Lock-free entry points. *)

\* confirm() reads the row once.  A row with a final status or without a hash
\* is answered at once.
Poll(t, x) ==
    /\ phase = "serve" /\ pc[t] = "idle"
    /\ row[x].status \notin {"ABSENT", "CONFIRMED", "FAILED", "REJECTED"}
    /\ row[x].hash # None
    /\ Move(t, "poll")
    /\ cur' = [cur EXCEPT ![t] = x]
    /\ local' = [local EXCEPT ![t] = row[x].hash]
    /\ UNCHANGED <<row, lock, control, external>>

\* It asks for the receipt of the hash it read until there is one (a call that
\* raises is no receipt), or until the caller's timeout.
Ask(t) ==
    /\ pc[t] = "poll"
    /\ LET outcome == mined[cur[t]][local[t]]
       IN \/ /\ outcome # "pending"
             /\ Move(t, "outcome")
             /\ local' = [local EXCEPT ![t] = outcome]
             /\ UNCHANGED cur
          \/ Leave(t)
    /\ UNCHANGED <<row, lock, control, external>>

\* Mutant: any receipt counts as success.
WriteAnyOutcome(t) ==
    /\ pc[t] = "outcome"
    /\ SetStatus(cur[t], "CONFIRMED")
    /\ Leave(t)
    /\ UNCHANGED <<lock, control, external>>
\* The outcome is written by the row's id, whatever the row says by now.
WriteOutcome(t) ==
    /\ pc[t] = "outcome"
    /\ SetStatus(cur[t], IF local[t] = "ok" THEN "CONFIRMED" ELSE "FAILED")
    /\ Leave(t)
    /\ UNCHANGED <<lock, control, external>>

PollStep(t) == (\E x \in Txs : Poll(t, x)) \/ Ask(t) \/ WriteOutcome(t)

\* emergency_stop() takes no lock: it interleaves with every step above.
EmergencyStop ==
    /\ phase = "serve"
    /\ stopped' = TRUE
    /\ row' = [x \in Txs |->
                 IF row[x].status \in {"PREPARED", "AUTHORIZED", "SIGNED"}
                 THEN [row[x] EXCEPT !.status = "CANCELLED"] ELSE row[x]]
    /\ UNCHANGED <<mode, lock, pc, cur, local, phase, todo, external, crashes>>

EmergencyResume ==
    /\ phase = "serve" /\ stopped
    /\ stopped' = FALSE
    /\ UNCHANGED <<row, mode, lock, pc, cur, local, phase, todo, external, crashes>>

SetMode ==
    /\ phase = "serve"
    /\ mode' \in Modes \ {mode}
    /\ UNCHANGED <<row, memory, external, crashes>>

-------------------------------------------------------------------------------
(* Crash, restart and recover(). *)

Crash ==
    /\ crashes < MaxCrashes
    /\ crashes' = crashes + 1
    /\ stopped' = FALSE
    /\ lock' = None
    /\ pc' = [p \in Procs |-> "idle"]
    /\ cur' = [p \in Procs |-> None]
    /\ local' = [p \in Procs |-> None]
    /\ phase' = "boot"
    /\ todo' = {x \in Txs : row[x].status \in InFlight}
    /\ mode' \in Modes
    /\ UNCHANGED <<row, external>>

\* Mutant: a row stays on the list until it is resolved.
RecoverRetry(x) ==
    /\ phase = "boot" /\ pc[Boot] = "idle" /\ x \in todo
    /\ todo' = IF row[x].status \in InFlight THEN todo ELSE todo \ {x}
    /\ IF row[x].status \in {"CONFIRMED", "FAILED"}
       THEN UNCHANGED <<pc, cur>>
       ELSE Move(Boot, "sign") /\ cur' = [cur EXCEPT ![Boot] = x]
    /\ UNCHANGED <<row, mode, stopped, lock, local, phase, external, crashes>>
\* recover() -> sign_and_broadcast_checked(): an exception of one row is
\* written to its error column and the next row is taken.
RecoverNext(x) ==
    /\ phase = "boot" /\ pc[Boot] = "idle" /\ x \in todo
    /\ todo' = todo \ {x}
    /\ IF row[x].status \in {"CONFIRMED", "FAILED"}
       THEN UNCHANGED <<pc, cur>>
       ELSE Move(Boot, "sign") /\ cur' = [cur EXCEPT ![Boot] = x]
    /\ UNCHANGED <<row, mode, stopped, lock, local, phase, external, crashes>>

BootDone ==
    /\ phase = "boot" /\ pc[Boot] = "idle" /\ todo = {}
    /\ phase' = "serve"
    /\ UNCHANGED <<row, mode, stopped, lock, pc, cur, local, todo, external, crashes>>

(* The chain: a raw that reached the network is mined, successfully or not. *)
Mine(x, r) ==
    /\ r \in sent[x] /\ mined[x][r] = "pending"
    /\ \E o \in {"ok", "reverted"} : mined' = [mined EXCEPT ![x][r] = o]
    /\ UNCHANGED <<row, mode, memory, sent, crashes>>

-------------------------------------------------------------------------------
ThreadStep(t) ==
    \/ Insert(t) \/ WriteAuthorized(t) \/ WriteRejected(t) \/ SignStep(t)

Next ==
    \/ \E t \in Threads : \E x \in Txs : Create(t, x) \/ Authorize(t, x) \/ Reject(t, x)
    \/ \E t \in Threads : \E x \in Txs : Submit(t, x)
    \/ \E t \in Threads : ThreadStep(t) \/ PollStep(t)
    \/ SignStep(Boot)
    \/ \E x \in Txs : RecoverNext(x)
    \/ \E x \in Txs : \E r \in Raws : Mine(x, r)
    \/ BootDone \/ Crash \/ EmergencyStop \/ EmergencyResume \/ SetMode

Spec == Init /\ [][Next]_vars

\* Threads that are running are scheduled; nobody is obliged to call the API,
\* to crash, or to mine, and a poll without a timeout may go on for ever, so
\* confirm() is under no fairness.  A signer that finds the lock free again and again
\* gets it: a mutex is not fair, but no thread loses every race for it.
Fairness ==
    /\ \A p \in Procs :
         /\ WF_vars(IF p = Boot THEN SignStep(p) ELSE ThreadStep(p))
         /\ SF_vars(SignRefused(p) \/ SignEnter(p))
    /\ WF_vars(BootDone) /\ WF_vars(\E x \in Txs : RecoverNext(x))
FairSpec == Spec /\ Fairness

-------------------------------------------------------------------------------
(* Properties. *)

\* What the recovery check relies on: a raw that reached the network is the
\* one the row keeps sealed, also after a crash right behind the send.
SentIsSealed == \A x \in Txs : sent[x] \subseteq {row[x].sealed}

\* Why it holds.  A thread inside the `with self._lock` block owns the lock;
\* until its send, the row it works on is unsent; from the seal on, the row
\* seals the raw it holds; a sent row is past every status that could sign.
InBlock == Labels \ {"idle", "sign", "poll", "outcome"}
LockOwner == \A p \in Procs : pc[p] \in InBlock => lock = p
HoldsSealed ==
    \A p \in Procs : pc[p] \in {"signed", "send", "record"} => row[cur[p]].sealed = local[p]
UnsentInBlock == \A p \in Procs : pc[p] \in InBlock \ {"record"} => sent[cur[p]] = {}
Unsigned == {"ABSENT", "PREPARED", "AUTHORIZED"}
PastSignable == \A x \in Txs : sent[x] # {} => row[x].status \notin Unsigned
SendingMarked == \A p \in Procs : pc[p] \in {"send", "record"} => row[cur[p]].status \notin Unsigned
SigningInv ==
    /\ LockOwner /\ HoldsSealed /\ UnsentInBlock /\ PastSignable
    /\ SendingMarked /\ SentIsSealed

\* Never-sign-twice (module docstring): however threads, crashes, recovery and
\* the emergency stop interleave, the network sees at most one raw of a row.
NeverSendTwice == \A x \in Txs : \A r, s \in sent[x] : r = s

\* A row that was parked for the operator goes out only after the operator's
\* authorize(), whatever the mode was switched to in between.
ApprovalGate ==
    \A x \in Txs : sent[x] # {} /\ row[x].approval => row[x].authorizedBy = "policy"

\* Why it holds: whoever is past the guards of sign_and_broadcast, and every
\* row left AUTHORIZED or sent, has the operator's authorization if it needs one.
Signing == InBlock \ {"insert", "authorize", "reject"}
Approved(x) == row[x].approval => row[x].authorizedBy = "policy"
ApprovalInv ==
    /\ \A p \in Procs : pc[p] \in Signing => Approved(cur[p])
    /\ \A x \in Txs : row[x].status = "AUTHORIZED" \/ sent[x] # {} => Approved(x)

\* A row says CONFIRMED or FAILED only of its own raw's outcome on chain.
OutcomeIsOnChain ==
    \A x \in Txs :
      /\ row[x].status = "CONFIRMED" => mined[x][row[x].hash] = "ok"
      /\ row[x].status = "FAILED" => mined[x][row[x].hash] = "reverted"

\* REJECTED, CONFIRMED and FAILED are final: no signer and no poll that read
\* the row earlier and no recovery pass overwrites them.
FinalStatusesStay ==
    [][\A x \in Txs : row[x].status \in {"REJECTED", "CONFIRMED", "FAILED"}
                        => row'[x].status = row[x].status]_vars

\* Start-up never hangs on a row that cannot be resolved.
BootCompletes == phase = "boot" ~> phase = "serve"

\* A signer that waits is answered.
SignersReturn == \A p \in Procs : pc[p] = "sign" ~> pc[p] = "idle"

\* transactions.py:391: whatever an RPC call raises, under the lock or in
\* recover(), the process starts and every caller of sign_and_broadcast is
\* answered.  confirm() without a timeout may poll for ever.
NobodyIsStuck == BootCompletes /\ SignersReturn

\* transactions.py:251-252 "resolve any in-flight SIGNED/BROADCAST tx the only
\* safe way: query the chain": recovery leaves such a row only from the query.
RecoveryQueriesChain ==
    [][\A x \in Txs :
         /\ phase = "boot" /\ cur[Boot] = x /\ cur'[Boot] = None
         /\ row[x].status \in {"SIGNED", "BROADCAST"}
         /\ crashes' = crashes
         => pc[Boot] = "check"]_vars
===============================================================================
