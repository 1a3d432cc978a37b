----------------------------- MODULE HostApproval -----------------------------
(***************************************************************************)
(* ApprovalManager (astra/terminal/approval.py) with the actors around it: *)
(* chat turns of one conversation, which ask for a host command and end by *)
(* attaching a card to a pending request (ai/chat_pipeline.py, web.py),    *)
(* and the HTTP threads that answer it.  Every method body under           *)
(* self._lock is one step; deny keeps the lock while it resumes.           *)
(***************************************************************************)
EXTENDS ApprovalProtocol, Sequences, SequencesExt

CONSTANTS
    Turns,      \* chat turns: each is one request id
    Deciders,   \* HTTP threads, one answer each
    None,
    Wired,      \* requests that find an executor set when they are allowed
    MaxRecords  \* ApprovalManager._max_records: one more is kept

ASSUME ApprovalAssumption ==
    /\ Turns \cap Deciders = {} /\ None \notin Reqs \cup Turns \cup Deciders
    /\ Wired \subseteq Reqs /\ MaxRecords \in Nat

VARIABLES
    kept,       \* keys of _records
    order,      \* _order, oldest first
    late,       \* requests whose expires_at has passed
    owner,      \* request_id of a request: the turn it was made for
    operation,  \* the turn whose context will be continued
    message,    \* index of the chat message bound to a request, 0 = none
    chat,       \* persisted messages that carry an approval
    lock,       \* a decider that resumes a denied request under the lock
    pc, cur,    \* where each thread is, and the request it handles
    turn,       \* the turn whose request id a thread works under
    shown,      \* the to_dict() snapshot a thread is about to persist
    mid         \* the message id add_reply returned to a thread

records == <<kept, order, late, owner, operation, message>>
threads == <<lock, pc, cur, turn, shown, mid>>
vars == <<status, ran, records, chat, threads>>

Threads == Turns \cup Deciders
Statuses == {"absent", "pending", "approved"} \cup Terminal
Labels == {"idle", "run", "attach", "execute", "running", "resume", "resuming",
           "persist", "bind", "done"}
Messages == [req : Reqs, card : BOOLEAN, text : Statuses]
Executing == {"execute", "running"}
Holding == Executing \cup {"attach", "resume", "resuming", "persist", "bind"}

AnswersOK ==
    /\ status \in [Reqs -> Statuses]
    /\ ran \in [Reqs -> Nat]
    /\ pc \in [Threads -> Labels]
    /\ cur \in [Threads -> Reqs \cup {None}]
    /\ \A t \in Threads : pc[t] \in Holding => cur[t] \in Reqs
RecordsOK ==
    /\ kept \subseteq Reqs /\ late \subseteq Reqs
    /\ order \in Seq(Reqs)
    /\ owner \in [Reqs -> Turns \cup {None}]
    /\ operation \in [Reqs -> Turns \cup {None}]
    /\ lock \in Deciders \cup {None}
    /\ turn \in [Threads -> Turns \cup {None}]
TranscriptOK ==
    /\ chat \in Seq(Messages)
    /\ message \in [Reqs -> 0..Len(chat)]
    /\ shown \in [Threads -> Statuses \cup {None}]
    /\ \A t \in Threads : pc[t] = "persist" => shown[t] \in Statuses
    /\ mid \in [Threads -> 0..Len(chat)]
TypeOK == AnswersOK /\ RecordsOK /\ TranscriptOK

Init ==
    /\ ProtocolInit
    /\ kept = {} /\ late = {} /\ order = << >>
    /\ owner = [r \in Reqs |-> None]
    /\ operation = [r \in Reqs |-> None]
    /\ message = [r \in Reqs |-> 0]
    /\ chat = << >>
    /\ lock = None
    /\ pc = [t \in Threads |-> "idle"]
    /\ cur = [t \in Threads |-> None]
    /\ turn = [t \in Threads |-> IF t \in Turns THEN t ELSE None]
    /\ shown = [t \in Threads |-> None]
    /\ mid = [t \in Threads |-> 0]

-------------------------------------------------------------------------------
Move(t, label) == pc' = [pc EXCEPT ![t] = label]
Unlocked(t) == lock \in {None, t}

\* .expired and .pending are computed from the clock and the status.
Overdue(r) == r \in kept /\ status[r] = "pending" /\ r \in late
Open(r) == r \in kept /\ status[r] = "pending" /\ r \notin late

\* update_message_meta(): the state of the request, in one message.
Shows(i, s) == [chat EXCEPT ![i].text = s]

\* _write_back: the bound message shows the final state.
WriteBack(r, s) == chat' = IF message[r] = 0 THEN chat ELSE Shows(message[r], s)

\* _expire_all_locked.
ExpireAll ==
    /\ status' = [r \in Reqs |-> IF Overdue(r) THEN "expired" ELSE status[r]]
    /\ chat' = [i \in DOMAIN chat |->
                  IF \E r \in Reqs : Overdue(r) /\ message[r] = i
                  THEN [chat[i] EXCEPT !.text = "expired"] ELSE chat[i]]

\* _prune_locked: drop from the front while there are too many; an open
\* request at the front is put at the back and ends the pass.
Dropped ==
    LET excess == Len(order) - MaxRecords
        opens == {i \in DOMAIN order : Open(order[i])}
        stops == {i \in opens : i <= excess /\ \A j \in opens : i <= j}
    IN [count |-> IF stops # {} THEN (CHOOSE i \in stops : TRUE) - 1
                  ELSE IF excess > 0 THEN excess ELSE 0,
        rotate |-> stops # {}]
\* Mutant: an open request at the front is dropped like any other.
PrunedAnyway ==
    IF Len(order) > MaxRecords
    THEN SubSeq(order, Len(order) - MaxRecords + 1, Len(order)) ELSE order
Pruned ==
    LET rest == SubSeq(order, Dropped.count + 1, Len(order))
    IN IF Dropped.rotate THEN Append(Tail(rest), Head(rest)) ELSE rest

-------------------------------------------------------------------------------
(* request(): from a tool call of a turn, or of a continuation. *)

\* host_terminal_request, in the tool loop of a turn or of a continuation; where
\* the fallback is not wired, or policy forbids it, no request is made.
Asks(t) == pc[t] \in {"run", "resuming"} /\ Unlocked(t)

\* Mutant: pruning forgets to drop the record with its place in the order.
RequestLeaks(t, r) ==
    /\ Asks(t) /\ Ask(r)
    /\ order' = Append(Pruned, r)
    /\ kept' = kept \cup {r}
    /\ owner' = [owner EXCEPT ![r] = turn[t]]
    /\ UNCHANGED <<late, operation, message, chat, threads>>

Request(t, r) ==
    /\ Asks(t) /\ Ask(r)
    /\ order' = Append(Pruned, r)
    /\ kept' = ToSet(Pruned) \cup {r}
    /\ owner' = [owner EXCEPT ![r] = turn[t]]
    /\ operation' = [q \in Reqs |-> IF q \in kept' THEN operation[q] ELSE None]
    /\ UNCHANGED <<late, message, chat, threads>>

-------------------------------------------------------------------------------
(* A chat turn: run, then _attach_approval, add_reply, attach_message. *)

TurnStart(t) ==
    /\ pc[t] = "idle"
    /\ Move(t, "run")
    /\ UNCHANGED <<status, ran, records, chat, lock, cur, turn, shown, mid>>

\* _pending_approval: the newest open request of this turn, else the newest
\* open request of the conversation.
Candidates(t) ==
    LET open == {r \in kept : status'[r] = "pending"}
        mine == {r \in open : owner[r] = t}
    IN IF mine # {} THEN mine ELSE open
Position(r) == CHOOSE i \in DOMAIN order : order[i] = r
TurnEnd(t) ==
    /\ pc[t] = "run" /\ lock = None
    /\ ExpireAll
    /\ IF Candidates(t) = {}
       THEN Move(t, "done") /\ UNCHANGED cur
       ELSE /\ Move(t, "attach")
            /\ \E r \in Candidates(t) :
                 /\ \A q \in Candidates(t) : Position(q) <= Position(r)
                 /\ cur' = [cur EXCEPT ![t] = r]
    /\ UNCHANGED <<ran, records, lock, turn, shown, mid>>

\* attach_operation, then the to_dict() of the card.
Attach(t) ==
    /\ pc[t] = "attach" /\ lock = None
    /\ operation' = IF cur[t] \in kept THEN [operation EXCEPT ![cur[t]] = t] ELSE operation
    /\ shown' = [shown EXCEPT ![t] = IF Overdue(cur[t]) THEN "expired" ELSE status[cur[t]]]
    /\ Move(t, "persist")
    /\ UNCHANGED <<status, ran, kept, order, late, owner, message, chat, lock, cur, turn, mid>>

\* chat_log.add_reply; a turn's message is the card, a decider's is a reply.
Persist(t) ==
    /\ pc[t] = "persist"
    /\ chat' = Append(chat, [req |-> cur[t], card |-> t \in Turns, text |-> shown[t]])
    /\ mid' = [mid EXCEPT ![t] = Len(chat) + 1]
    /\ Move(t, "bind")
    /\ UNCHANGED <<status, ran, records, lock, cur, turn, shown>>

\* attach_message with the id add_reply returned: the thread's own message.
Bind(t) ==
    /\ pc[t] = "bind" /\ lock = None
    /\ message' = IF cur[t] \in kept THEN [message EXCEPT ![cur[t]] = mid[t]] ELSE message
    /\ Move(t, "done")
    /\ UNCHANGED <<status, ran, kept, order, late, owner, operation, chat, lock, cur, turn, shown, mid>>
-------------------------------------------------------------------------------
(* decide(), from Agent.resume in an HTTP thread. *)

Reply(d, s) ==
    /\ shown' = [shown EXCEPT ![d] = s]
    /\ Move(d, "persist")

\* Already resolved: the request as it is, and nothing runs.
DecideAgain(d, r) ==
    /\ pc[d] = "idle" /\ lock = None
    /\ r \in kept /\ status[r] # "pending"
    /\ cur' = [cur EXCEPT ![d] = r]
    /\ Reply(d, status[r])
    /\ UNCHANGED <<status, ran, records, chat, lock, turn, mid>>

DecideLate(d, r) ==
    /\ pc[d] = "idle" /\ lock = None
    /\ Overdue(r)
    /\ Become(r, "expired") /\ WriteBack(r, "expired")
    /\ cur' = [cur EXCEPT ![d] = r]
    /\ Reply(d, "expired")
    /\ UNCHANGED <<ran, records, lock, turn, mid>>

\* The turn a continuation works for: the attached operation's request id,
\* or the one of the request itself.
Continued(r) == IF operation[r] # None THEN operation[r] ELSE owner[r]

\* Deny resumes the operation before the lock is given back.
Deny(d, r) ==
    /\ pc[d] = "idle" /\ lock = None
    /\ Open(r)
    /\ Become(r, "denied") /\ WriteBack(r, "denied")
    /\ lock' = d
    /\ cur' = [cur EXCEPT ![d] = r]
    /\ turn' = [turn EXCEPT ![d] = Continued(r)]
    /\ Move(d, "resuming")
    /\ UNCHANGED <<ran, records, shown, mid>>

\* Mutant: the status is set when the command is done, not at the claim.
ClaimUnmarked(d, r) ==
    /\ pc[d] = "idle" /\ lock = None
    /\ Open(r)
    /\ cur' = [cur EXCEPT ![d] = r]
    /\ Move(d, "execute")
    /\ UNCHANGED <<status, ran, records, chat, lock, turn, shown, mid>>

\* The claim; the command runs after the lock is released.
Claim(d, r) ==
    /\ pc[d] = "idle" /\ lock = None
    /\ Open(r)
    /\ Become(r, "approved")
    /\ cur' = [cur EXCEPT ![d] = r]
    /\ Move(d, "execute")
    /\ UNCHANGED <<ran, records, chat, lock, turn, shown, mid>>

NoExecutor(d) ==
    /\ pc[d] = "execute" /\ cur[d] \notin Wired
    /\ Become(cur[d], "failed") /\ WriteBack(cur[d], "failed")
    /\ Move(d, "resume")
    /\ UNCHANGED <<ran, records, lock, cur, turn, shown, mid>>

Execute(d) ==
    /\ pc[d] = "execute" /\ cur[d] \in Wired
    /\ ran' = [ran EXCEPT ![cur[d]] = @ + 1]
    /\ Move(d, "running")
    /\ UNCHANGED <<status, records, chat, lock, cur, turn, shown, mid>>

\* Mutant: the card is written back as a success whatever came out.
ExecutedWell(d) ==
    /\ pc[d] = "running"
    /\ \E s \in Finished : Become(cur[d], s) /\ WriteBack(cur[d], "completed")
    /\ Move(d, "resume")
    /\ UNCHANGED <<ran, records, lock, cur, turn, shown, mid>>

\* Mutant: an exception of the executor escapes and the request stays approved.
ExecutedOrRaised(d) ==
    /\ pc[d] = "running"
    /\ \/ Become(cur[d], "completed") /\ WriteBack(cur[d], "completed") /\ Move(d, "resume")
       \/ UNCHANGED <<status, chat>> /\ Move(d, "done")
    /\ UNCHANGED <<ran, records, lock, cur, turn, shown, mid>>

\* The executor returned a result, good or bad, or raised.
Executed(d) ==
    /\ pc[d] = "running"
    /\ \E s \in Finished : Become(cur[d], s) /\ WriteBack(cur[d], s)
    /\ Move(d, "resume")
    /\ UNCHANGED <<ran, records, lock, cur, turn, shown, mid>>

\* _resume reads the operation under the lock, then continues without it.
Resume(d) ==
    /\ pc[d] = "resume" /\ lock = None
    /\ turn' = [turn EXCEPT ![d] = Continued(cur[d])]
    /\ Move(d, "resuming")
    /\ UNCHANGED <<status, ran, records, chat, lock, cur, shown, mid>>

\* Mutant: the lock of a denial is not released.
ResumedHoldingLock(d) ==
    /\ pc[d] = "resuming"
    /\ Reply(d, status[cur[d]])
    /\ UNCHANGED <<status, ran, records, chat, lock, cur, turn, mid>>

Resumed(d) ==
    /\ pc[d] = "resuming"
    /\ lock' = IF lock = d THEN None ELSE lock
    /\ Reply(d, status[cur[d]])
    /\ UNCHANGED <<status, ran, records, chat, cur, turn, mid>>

-------------------------------------------------------------------------------
(* Other callers, and the clock. *)

\* Mutant: the status check is dropped and an allowed request is cancelled.
CancelAny(r) ==
    /\ lock = None
    /\ r \in kept /\ status[r] \in {"pending", "approved"}
    /\ Become(r, "cancelled") /\ WriteBack(r, "cancelled")
    /\ UNCHANGED <<ran, records, threads>>

Cancel(r) ==
    /\ lock = None
    /\ r \in kept /\ status[r] = "pending"
    /\ Become(r, "cancelled") /\ WriteBack(r, "cancelled")
    /\ UNCHANGED <<ran, records, threads>>

\* get(), pending(), all(): every reader expires what is overdue.
Poll ==
    /\ lock = None
    /\ \E r \in Reqs : Overdue(r)
    /\ ExpireAll
    /\ UNCHANGED <<ran, records, threads>>

Elapse(r) ==
    /\ status[r] = "pending" /\ r \notin late
    /\ late' = late \cup {r}
    /\ UNCHANGED <<status, ran, kept, order, owner, operation, message, chat, threads>>

-------------------------------------------------------------------------------
TurnStep(t) == TurnStart(t) \/ TurnEnd(t) \/ Attach(t)
Working(d) == NoExecutor(d) \/ Execute(d) \/ Executed(d) \/ Resume(d) \/ Resumed(d)
Answer(d, r) == DecideAgain(d, r) \/ DecideLate(d, r) \/ Deny(d, r) \/ Claim(d, r)

Next ==
    \/ \E t \in Turns : TurnStep(t)
    \/ \E d \in Deciders : Working(d) \/ \E r \in Reqs : Answer(d, r)
    \/ \E t \in Threads : Persist(t) \/ Bind(t) \/ \E r \in Reqs : Request(t, r)
    \/ \E r \in Reqs : Cancel(r) \/ Elapse(r)
    \/ Poll

Spec == Init /\ [][Next]_vars

\* A thread that handles a request goes on (the executor and the provider
\* return); nobody is obliged to answer.
Fairness == \A d \in Deciders : WF_vars(Working(d)) /\ SF_vars(Resume(d))
FairSpec == Spec /\ Fairness

-------------------------------------------------------------------------------
(* Properties. *)

\* approval.py:23-26: a double click, a retry or an answer that races the
\* expiry starts the command at most once.
ExactlyOnce == \A r \in Reqs : ran[r] <= 1

\* Only an allowed request runs: a denied, expired or cancelled one never did.
OnlyAllowedRun ==
    \A r \in Reqs : ran[r] > 0 => status[r] \in {"approved"} \cup Finished

\* Why both hold: the thread that executes is the one whose claim made the
\* request approved, it is alone, and it has not started the command before.
Claimed(d, r) == pc[d] \in Executing /\ cur[d] = r
ClaimInv ==
    /\ \A d \in Deciders : \A r \in Reqs :
         Claimed(d, r) => /\ status[r] = "approved"
                          /\ ran[r] = IF pc[d] = "execute" THEN 0 ELSE 1
    /\ \A d, e \in Deciders : \A r \in Reqs : Claimed(d, r) /\ Claimed(e, r) => d = e
    /\ \A r \in Reqs : status[r] \notin {"approved"} \cup Finished => ran[r] = 0
    /\ ExactlyOnce

\* The manager implements the protocol of one answer per request.
ImplementsProtocol == Protocol

\* approval.py:320 "never drop an unresolved request silently".
OpenIsKept ==
    [][\A r \in Reqs : Open(r) => r \in kept']_vars

\* _order and _records list the same requests, each once.
IndexAgrees == ToSet(order) = kept /\ IsInjective(order)

\* A message of the transcript never shows a resolution the request does not
\* have (an overdue request reads as expired before anybody marked it).
ReadsExpired(r) == r \in late /\ status[r] \in {"pending", "cancelled"}
CardsAreTrue ==
    \A i \in DOMAIN chat :
      LET r == chat[i].req
      IN chat[i].text \in Terminal =>
           \/ chat[i].text = status[r]
           \/ chat[i].text = "expired" /\ ReadsExpired(r)

\* The list, the table and the transcript say the same of every request.
RecordsAgree == IndexAgrees /\ CardsAreTrue

\* An allowed request is finished, whatever its executor does.
AllowedFinishes == \A r \in Reqs : status[r] = "approved" ~> status[r] \in Finished

\* The lock that deny holds while it resumes is given back.
DenyReleases == []<>(lock = None)

\* approval.py:360: no answer holds up the others, and none is left half done.
ApprovalsMove == AllowedFinishes /\ DenyReleases
===============================================================================
