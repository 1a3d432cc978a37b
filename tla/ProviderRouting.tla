--------------------------- MODULE ProviderRouting ----------------------------
(***************************************************************************)
(* How one request finds a model that answers (astra/ai/router.py with     *)
(* credentials.py, adapters/base.py and the Gateway's recovery and         *)
(* supervision): candidates, the choice of a target, the choice of a key,  *)
(* retries, corrections, failover; and the manual test of one model with   *)
(* one key.  The score, the preference of the last successful target and   *)
(* the order of keys decide among choices that are all open here.          *)
(* Keys, their health and the threads are those of GatewayCalls, of which  *)
(* nobody asks anything meanwhile: `call` rests.                           *)
(***************************************************************************)
EXTENDS GatewayCalls

CONSTANTS
    Providers, Targets,
    Owner,              \* the provider of a target or a key
    MaxCorrections

ASSUME RoutingAssumption ==
    /\ None \notin Providers \cup Targets \cup Keys
    /\ Threads \cap Testers = {}
    /\ Owner \in [Targets \cup Keys -> Providers]
    /\ MaxRetries \in Nat /\ MaxCorrections \in Nat

VARIABLES
    bad,        \* _key_model: <<key, target>> that failed lately
    stage,      \* where a thread is
    ranked, tried, current,
    open,       \* gateway_ok
    pin,        \* the key a test is pinned to
    last,       \* last_key() of the thread
    used,       \* (history) the key of the call that was made
    outcome,    \* what the call gave
    tries, fixes

shared == <<healthy, cooling, bad, cold>>
route == <<ranked, tried, current, open, pin>>
attempt == <<last, used, outcome, tries, fixes>>
routing == <<shared, stage, route, attempt, call>>

Answers == {"ok", "rejected", "blocked", "refused", "raised"}
RoutingTypeOK ==
    /\ healthy \subseteq Keys /\ cooling \subseteq Keys
    /\ bad \subseteq Keys \X Targets
    /\ cold \subseteq Targets
    /\ stage \in [Everyone -> {"idle", "select", "pick", "call", "record", "judge",
                             "failed", "share"}]
    /\ ranked \in [Everyone -> SUBSET Targets]
    /\ tried \in [Everyone -> SUBSET Targets]
    /\ current \in [Everyone -> Targets \cup {None}]
    /\ open \in [Everyone -> BOOLEAN]
    /\ pin \in [Everyone -> Keys \cup {None}]
    /\ last \in [Everyone -> Keys \cup {None}]
    /\ used \in [Everyone -> Keys \cup {None}]
    /\ outcome \in [Everyone -> Answers \cup {"none", "nokey"}]
    /\ tries \in [Everyone -> 0..MaxRetries]
    /\ fixes \in [Everyone -> 0..MaxCorrections]
    /\ \A t \in Everyone :
         /\ tried[t] \subseteq ranked[t] /\ current[t] \in ranked[t] \cup {None}
         /\ stage[t] = "idle" => tried[t] = {} /\ current[t] = None
         /\ stage[t] \in {"pick", "call", "record", "judge", "failed"} => current[t] # None
         /\ stage[t] \in {"call", "record"} => last[t] = used[t]
         /\ stage[t] = "call" => used[t] # None

RoutingInit ==
    /\ healthy = Keys /\ cooling = {} /\ bad = {} /\ cold = {}
    /\ call = [t \in Everyone |-> Fresh]
    /\ stage = [t \in Everyone |-> "idle"]
    /\ ranked = [t \in Everyone |-> {}] /\ tried = [t \in Everyone |-> {}]
    /\ current = [t \in Everyone |-> None]
    /\ open = [t \in Everyone |-> TRUE]
    /\ pin = [t \in Everyone |-> None] /\ last = [t \in Everyone |-> None]
    /\ used = [t \in Everyone |-> None]
    /\ outcome = [t \in Everyone |-> "none"]
    /\ tries = [t \in Everyone |-> 0] /\ fixes = [t \in Everyone |-> 0]

Set(f, t, v) == [f EXCEPT ![t] = v]
KeysOfProvider(p) == {k \in Keys : Owner[k] = p}
TargetsOf(p) == {m \in Targets : Owner[m] = p}
UsableProvider(p) == (KeysOfProvider(p) \cap healthy) \ cooling # {}

\* What a thread keeps of a route that is over.
Idle(t) ==
    /\ stage' = Set(stage, t, "idle")
    /\ ranked' = Set(ranked, t, {}) /\ tried' = Set(tried, t, {})
    /\ current' = Set(current, t, None)
    /\ open' = Set(open, t, TRUE) /\ pin' = Set(pin, t, None)
    /\ last' = Set(last, t, None) /\ used' = Set(used, t, None)
    /\ outcome' = Set(outcome, t, "none")
    /\ tries' = Set(tries, t, 0) /\ fixes' = Set(fixes, t, 0)

-------------------------------------------------------------------------------
(* route_request().                                                         *)

\* _candidates(): every model of every usable provider.
Candidates == UNION {TargetsOf(p) : p \in {q \in Providers : UsableProvider(q)}}

\* The hard requirements of the request leave some of them; without any it fails.
Begin(t) ==
    /\ stage[t] = "idle"
    /\ \E S \in SUBSET Candidates :
         /\ S # {}
         /\ ranked' = Set(ranked, t, S)
    /\ stage' = Set(stage, t, "select")
    /\ UNCHANGED <<healthy, cooling, bad, cold, tried, current, open, pin, attempt>>

\* test_provider_model(): the key is picked for the shared identity, and the
\* route is pinned to it and to the one model.
BeginKeyTest(t, k, m) ==
    /\ stage[t] = "idle" /\ Owner[k] = Owner[m]
    /\ pin' = Set(pin, t, k) /\ last' = Set(last, t, k)
    /\ ranked' = Set(ranked, t, {m})
    /\ stage' = Set(stage, t, "select")
    /\ UNCHANGED <<healthy, cooling, bad, cold, tried, current, open, used, outcome,
                   tries, fixes>>

\* The same test answered by a probe of somebody else (SharedHealth): the
\* result goes to the row of the key that was picked.
Reuse(t, k, m) ==
    /\ stage[t] = "idle" /\ Owner[k] = Owner[m]
    /\ bad' \in {bad \cup {<<k, m>>}, bad \ {<<k, m>>}}
    /\ UNCHANGED <<healthy, cooling, cold, stage, route, attempt>>

\* The route is over: to its caller, or to the rest of the test.
Finish(t, ok) ==
    IF pin[t] = None
    THEN Idle(t)
    ELSE /\ stage' = Set(stage, t, "share")
         /\ outcome' = Set(outcome, t, IF ok THEN "ok" ELSE "refused")
         /\ open' = Set(open, t, TRUE)
         /\ current' = Set(current, t, None) /\ fixes' = Set(fixes, t, 0)
         /\ UNCHANGED <<ranked, tried, pin, last, used, tries>>

\* Mutant: when the Gateway raises, the route ends.
SelectOrGiveUp(t) ==
    /\ stage[t] = "select"
    /\ LET Left == ranked[t] \ tried[t]
           eligible == IF open[t] THEN Left \ cold ELSE {}
       IN \/ /\ eligible # {}
             /\ \E m \in eligible :
                  current' = Set(current, t, m) /\ tried' = Set(tried, t, tried[t] \cup {m})
             /\ stage' = Set(stage, t, "pick")
             /\ UNCHANGED <<ranked, open, pin, attempt>>
          \/ eligible = {} /\ Finish(t, FALSE)
    /\ UNCHANGED shared
\* select_execution_target(), or the plain order once the Gateway raised.
Select(t) ==
    /\ stage[t] = "select"
    /\ LET Left == ranked[t] \ tried[t]
           eligible == IF open[t] THEN Left \ cold ELSE Left
       IN \/ /\ eligible # {}
             /\ \E m \in eligible :
                  current' = Set(current, t, m) /\ tried' = Set(tried, t, tried[t] \cup {m})
             /\ stage' = Set(stage, t, "pick")
             /\ UNCHANGED <<ranked, open, pin, attempt>>
          \/ eligible = {} /\ Finish(t, FALSE)
    /\ UNCHANGED shared

\* The Gateway raises, before the failure was reported or at the selection: from
\* now on the candidates are drained without it.
GatewayRaises(t) ==
    /\ stage[t] \in {"select", "failed"} /\ open[t]
    /\ open' = Set(open, t, FALSE)
    /\ UNCHANGED <<shared, stage, ranked, tried, current, pin, attempt>>

-------------------------------------------------------------------------------
(* _attempt() and the adapter's chat().                                     *)

\* pick(): the pinned key, or a healthy one, if possible one that did not fail
\* for this model.
Choices(t) ==
    LET fit == (KeysOfProvider(Owner[current[t]]) \cap healthy) \ cooling
        good == {k \in fit : <<k, current[t]>> \notin bad}
    IN IF pin[t] # None THEN {pin[t]} ELSE IF good # {} THEN good ELSE fit

\* Mutant: last_key() is the pool's, not the thread's.
PickShared(t) ==
    /\ stage[t] = "pick"
    /\ \/ \E k \in Choices(t) :
            /\ last' = [u \in Everyone |-> k] /\ used' = Set(used, t, k)
            /\ stage' = Set(stage, t, "call")
            /\ UNCHANGED outcome
       \/ /\ Choices(t) = {}
          /\ last' = Set(last, t, None) /\ used' = Set(used, t, None)
          /\ outcome' = Set(outcome, t, "nokey")
          /\ stage' = Set(stage, t, "record")
    /\ UNCHANGED <<shared, route, tries, fixes>>
PickKey(t) ==
    /\ stage[t] = "pick"
    /\ \/ \E k \in Choices(t) :
            /\ last' = Set(last, t, k) /\ used' = Set(used, t, k)
            /\ stage' = Set(stage, t, "call")
            /\ UNCHANGED outcome
       \/ /\ Choices(t) = {}
          /\ last' = Set(last, t, None) /\ used' = Set(used, t, None)
          /\ outcome' = Set(outcome, t, "nokey")
          /\ stage' = Set(stage, t, "record")
    /\ UNCHANGED <<shared, route, tries, fixes>>

\* The cooldown of a rejected key does not matter: what brings it back ends both.
Cooled(a, k, cooled) ==
    CASE a \in {"ok", "rejected"} -> cooled \ {k}
      [] a = "blocked" -> cooled \cup ({k} \cap healthy)
      [] OTHER -> cooled

\* Mutant: every success proves the key.
AnswerRevives(t, a) ==
    /\ stage[t] = "call"
    /\ outcome' = Set(outcome, t, a)
    /\ cooling' = Cooled(a, used[t], cooling)
    /\ healthy' = CASE a = "rejected" -> healthy \ {used[t]}
                    [] a = "ok" -> healthy \cup {used[t]}
                    [] OTHER -> healthy
    /\ stage' = Set(stage, t, "record")
    /\ UNCHANGED <<bad, cold, route, last, used, tries, fixes>>
\* The answer and its report to the pool.  401 and 403 reject the key; a rate
\* limit, a server or network error blocks it for a time; 400, 404, 409 and 422
\* are about the request and a timeout or a reply that is no JSON reports nothing
\* ("refused"); nor does an error that is no ProviderError ("raised").
Answer(t, a) ==
    /\ stage[t] = "call"
    /\ outcome' = Set(outcome, t, a)
    /\ cooling' = Cooled(a, used[t], cooling)
    /\ healthy' = CASE a = "rejected" -> healthy \ {used[t]}
                    [] a = "ok" /\ pin[t] = used[t] -> healthy \cup {used[t]}
                    [] OTHER -> healthy
    /\ stage' = Set(stage, t, "record")
    /\ UNCHANGED <<bad, cold, route, last, used, tries, fixes>>

RetriesLeft(t) == pin[t] = None /\ tries[t] < MaxRetries

\* _record_key_model(): the row of the key the thread has called with.
Marked(t) ==
    bad' = CASE last[t] = None \/ outcome[t] = "raised" -> bad
             [] outcome[t] = "ok" -> bad \ {<<last[t], current[t]>>}
             [] OTHER -> bad \cup {<<last[t], current[t]>>}

\* The row, and what comes next: the result, a retry or the end of
\* the attempt.  A rejection or the lack of a key may be marked as not retryable,
\* by this call or, in the error object that is kept, by another one.
Record(t) ==
    /\ stage[t] = "record"
    /\ Marked(t)
    /\ \/ /\ outcome[t] = "ok"
          /\ stage' = Set(stage, t, "judge")
          /\ tries' = Set(tries, t, 0)
       \/ /\ outcome[t] # "ok" /\ RetriesLeft(t)
          /\ stage' = Set(stage, t, "pick")
          /\ tries' = Set(tries, t, tries[t] + 1)
       \/ /\ outcome[t] # "ok" /\ (~RetriesLeft(t) \/ outcome[t] \in {"rejected", "nokey"})
          /\ stage' = Set(stage, t, "failed")
          /\ tries' = Set(tries, t, 0)
    /\ last' = Set(last, t, pin[t]) /\ used' = Set(used, t, None)
    /\ outcome' = Set(outcome, t, "none")
    /\ UNCHANGED <<healthy, cooling, cold, route, fixes>>

-------------------------------------------------------------------------------
(* What the Gateway makes of it.                                            *)

\* _report_gateway_recovery(): nothing, once the Gateway has raised.
Reported(t, ok) ==
    cold' = IF ~open[t] THEN cold
            ELSE IF ok THEN cold \ {current[t]} ELSE cold \cup {current[t]}

\* Success is reported, then the text is judged: accepted, sent back to the same
\* target, or refused.  Nobody judges the text of a test, nor any once the Gateway
\* has raised.
Judge(t) ==
    /\ stage[t] = "judge"
    /\ IF fixes[t] = 0 THEN Reported(t, TRUE) ELSE UNCHANGED cold
    /\ \/ Finish(t, TRUE)
       \/ /\ open[t] /\ pin[t] = None
          /\ \/ /\ fixes[t] < MaxCorrections
                /\ fixes' = Set(fixes, t, fixes[t] + 1)
                /\ stage' = Set(stage, t, "pick")
             \/ stage' = Set(stage, t, "failed") /\ UNCHANGED fixes
          /\ UNCHANGED <<route, last, used, outcome, tries>>
    /\ UNCHANGED <<healthy, cooling, bad>>

\* recover_execution_target() reports first; then the next one is selected.
Failed(t) ==
    /\ stage[t] = "failed"
    /\ Reported(t, FALSE)
    /\ stage' = Set(stage, t, "select")
    /\ current' = Set(current, t, None) /\ fixes' = Set(fixes, t, 0)
    /\ UNCHANGED <<healthy, cooling, bad, ranked, tried, open, pin, last, used, outcome, tries>>

\* The rest of a test: its result, for the row of the thread's last key.
Share(t) ==
    /\ stage[t] = "share"
    /\ bad' = IF last[t] = None THEN bad
              ELSE IF outcome[t] = "ok" THEN bad \ ({last[t]} \X ranked[t])
              ELSE bad \cup ({last[t]} \X ranked[t])
    /\ Idle(t)
    /\ UNCHANGED <<healthy, cooling, cold>>

-------------------------------------------------------------------------------
(* Time.                                                                    *)

KeyIsBack(k) ==
    /\ k \in cooling /\ cooling' = cooling \ {k}
    /\ UNCHANGED <<healthy, bad, cold, stage, route, attempt>>
TargetIsBack(m) ==
    /\ m \in cold /\ cold' = cold \ {m}
    /\ UNCHANGED <<healthy, cooling, bad, stage, route, attempt>>
\* KEY_MODEL_TTL_S
Forget(k, m) ==
    /\ <<k, m>> \in bad /\ bad' = bad \ {<<k, m>>}
    /\ UNCHANGED <<healthy, cooling, cold, stage, route, attempt>>

-------------------------------------------------------------------------------
Continue(t) ==
    \/ Select(t) \/ PickKey(t) \/ Record(t) \/ Judge(t) \/ Failed(t) \/ Share(t)
    \/ \E a \in Answers : Answer(t, a)

RoutingNext ==
    /\ \/ \E t \in Threads : Begin(t)
       \/ \E t \in Testers : \E k \in Keys : \E m \in Targets : BeginKeyTest(t, k, m) \/ Reuse(t, k, m)
       \/ \E t \in Everyone : GatewayRaises(t) \/ Continue(t)
       \/ \E k \in Keys : KeyIsBack(k) \/ \E m \in Targets : Forget(k, m)
       \/ \E m \in Targets : TargetIsBack(m)
    /\ UNCHANGED call

RoutingSpec == RoutingInit /\ [][RoutingNext]_routing

-------------------------------------------------------------------------------
(* Properties. *)

\* credentials.py:77 "an invalid/revoked key is useless until re-validated by
\* the user": no late success of another request brings it back, only the
\* success of a test of this key.
RevokedStaysOut ==
    [][\A k \in Keys : k \in healthy' \ healthy =>
         \E t \in Everyone : pin[t] = k /\ used[t] = k /\ outcome'[t] = "ok"]_routing

\* router.py:1180 "which key served (or failed) this model": the row an attempt
\* writes is that of the key it called with, whatever other threads pick.
RowsNameTheirKey ==
    [][\A t \in Everyone : stage[t] = "record" /\ stage'[t] # "record" =>
         \A k \in Keys : \A m \in Targets :
           (<<k, m>> \in bad) # (<<k, m>> \in bad') => used[t] = k /\ current[t] = m]_routing

\* A route fails only when each of its candidates failed in it or is cooling
\* down at the Gateway; with the Gateway broken, when each failed.
FailsWhenExhausted ==
    [][\A t \in Everyone : stage[t] = "select" /\ stage'[t] \in {"idle", "share"} =>
         \A m \in ranked[t] \ tried[t] : open[t] /\ m \in cold]_routing
===============================================================================
