--------------------------- MODULE ApprovalProtocol ---------------------------
(***************************************************************************)
(* What astra/terminal/approval.py promises of one scoped approval, seen   *)
(* from outside: a request is answered once, an allowed command is started *)
(* at most once and only after the answer, and a resolution is final.      *)
(***************************************************************************)
EXTENDS Naturals

CONSTANT Reqs
VARIABLES status, ran

Refused == {"denied", "expired", "cancelled"}
Finished == {"completed", "failed"}
Terminal == Refused \cup Finished

ProtocolInit ==
    /\ status = [r \in Reqs |-> "absent"]
    /\ ran = [r \in Reqs |-> 0]

Become(r, s) == status' = [status EXCEPT ![r] = s]

Ask(r) == status[r] = "absent" /\ Become(r, "pending") /\ UNCHANGED ran
Allow(r) == status[r] = "pending" /\ Become(r, "approved") /\ UNCHANGED ran
Start(r) ==
    /\ status[r] = "approved" /\ ran[r] = 0
    /\ ran' = [ran EXCEPT ![r] = 1]
    /\ UNCHANGED status
Finish(r) ==
    /\ status[r] = "approved" /\ ran[r] = 1
    /\ \E s \in Finished : Become(r, s)
    /\ UNCHANGED ran
\* Nothing to run it with: the answer was yes and the command never starts.
GiveUp(r) ==
    /\ status[r] = "approved" /\ ran[r] = 0
    /\ Become(r, "failed") /\ UNCHANGED ran
\* One reader of the clock may expire several requests at a time.
Refuse(R) ==
    /\ \A r \in R : status[r] = "pending"
    /\ \E s \in Refused : status' = [r \in Reqs |-> IF r \in R THEN s ELSE status[r]]
    /\ UNCHANGED ran

ProtocolNext ==
    \/ \E r \in Reqs : Ask(r) \/ Allow(r) \/ Start(r) \/ Finish(r) \/ GiveUp(r)
    \/ \E R \in SUBSET Reqs : Refuse(R)

Protocol == ProtocolInit /\ [][ProtocolNext]_<<status, ran>>
===============================================================================
