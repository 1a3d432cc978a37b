------------------------------ MODULE Web3Policy ------------------------------
(***************************************************************************)
(* The deterministic gate of astra/web3/policy.py: the verdict that every  *)
(* send receives once, when it is prepared.  An empty allowlist is open    *)
(* and a limit of 0 is no limit, as in PolicyConfig.                       *)
(***************************************************************************)
EXTENDS Naturals

CONSTANTS
    Addresses,          \* well-formed 20-byte addresses
    Wallets,            \* names of the wallets a request may send from
    AllowedWallets,     \* senders, {} = any
    AllowedRecipients,  \* recipients, {} = any
    AllowedContracts,   \* targets of calls that carry data, {} = any
    AllowedChains,      \* chain ids (the default set when none is configured)
    MaxTxValue,         \* per-transaction limit, 0 = none
    MaxDailyValue,      \* daily limit, 0 = none
    MaxGas              \* gas limit, 0 = none

ASSUME PolicyLimits == MaxTxValue \in Nat /\ MaxDailyValue \in Nat /\ MaxGas \in Nat

Modes == {"CONFIRM", "AUTO"}
Verdicts == {"block", "ask", "allow"}

Listed(list, a) == list = {} \/ a \in list
WithinLimit(limit, v) == limit = 0 \/ v <= limit

Permitted(req, spentToday) ==
    /\ Listed(AllowedWallets, req.from)
    /\ Listed(AllowedRecipients, req.to)
    /\ req.to \in Addresses
    /\ req.value >= 0
    /\ WithinLimit(MaxTxValue, req.value)
    /\ WithinLimit(MaxDailyValue, spentToday + req.value)
    /\ WithinLimit(MaxGas, req.gas)
    /\ req.hasData => Listed(AllowedContracts, req.to)
    /\ req.chain \in AllowedChains

Evaluate(mode, req, spentToday) ==
    IF ~Permitted(req, spentToday) THEN "block"
    ELSE IF mode = "AUTO" THEN "allow"
    ELSE "ask"
===============================================================================
