----------------------------- MODULE SharedHealth -----------------------------
(***************************************************************************)
(* SharedHealthCoordinator (astra/ai/shared_health.py): the Provider and   *)
(* the Gateway test one upstream model through it, and share the probe of  *)
(* whoever comes first.  Every block under self._lock is one step; a probe *)
(* is known by its number.  Identities do not interact but for             *)
(* invalidate(), so the module is about one of them.                       *)
(***************************************************************************)
EXTENDS Naturals

CONSTANTS
    Callers,    \* test calls, each made once
    MaxResets   \* bound on invalidations, restarts and expiries

\* Probes are numbered from 1.
NoProbe == 0

VARIABLES
    cache,      \* the row in memory: the probe it came from
    stored,     \* the shared_health_result row
    leftover,   \* _inflight_result
    inflight,   \* the probe whose event is registered
    pc,         \* where each caller is
    joined,     \* the probe a caller owns or waits for
    answer,     \* the probe a caller was answered with
    begun,      \* probes begun so far
    window,     \* results younger than the TTL that nobody dropped
    resets

rows == <<cache, stored, leftover>>
callers == <<pc, joined, answer>>
vars == <<rows, inflight, callers, begun, window, resets>>

Labels == {"idle", "enter", "probe", "wait", "reused", "owned", "raised", "gone"}
Known == 1..begun
TypeOK ==
    /\ begun \in Nat /\ resets \in Nat
    /\ {cache, stored, leftover, inflight} \subseteq Known \cup {NoProbe}
    /\ pc \in [Callers -> Labels]
    /\ joined \in [Callers -> Known \cup {NoProbe}]
    /\ answer \in [Callers -> Known \cup {NoProbe}]
    /\ \A c \in Callers : pc[c] \in {"probe", "wait"} => joined[c] \in Known
    /\ \A c \in Callers : pc[c] \in {"reused", "owned"} => answer[c] \in Known
    /\ window \subseteq Known

Init ==
    /\ cache = NoProbe /\ stored = NoProbe /\ leftover = NoProbe /\ inflight = NoProbe
    /\ pc = [c \in Callers |-> "idle"]
    /\ joined = [c \in Callers |-> NoProbe]
    /\ answer = [c \in Callers |-> NoProbe]
    /\ begun = 0
    /\ window = {}
    /\ resets = 0

-------------------------------------------------------------------------------
(* Freshness and the row. *)

\* A result is fresh while it is young.  One that was dropped is in no row any
\* more, so its age does not matter.
Fresh(p) == p \in window

\* _load_locked: memory first, then the table, which memory then repeats.
Loaded == IF cache # NoProbe THEN cache ELSE stored

Move(c, label) == pc' = [pc EXCEPT ![c] = label]
Return(c, p) == answer' = [answer EXCEPT ![c] = p]

-------------------------------------------------------------------------------
(* run(). *)

\* invalidate(): the row goes, and the result for the waiters of an identity
\* that memory knows.
Dropped ==
    /\ cache' = NoProbe
    /\ leftover' = IF cache # NoProbe THEN NoProbe ELSE leftover
    /\ stored' = NoProbe
    /\ window' = {}

\* A caller that starts a new run first drops what is known: reset_health,
\* reset_all_health, reset_connection_health.
Invalidate(c) ==
    /\ pc[c] = "idle" /\ resets < MaxResets
    /\ resets' = resets + 1
    /\ Dropped
    /\ Move(c, "enter")
    /\ UNCHANGED <<inflight, joined, answer, begun>>

Call(c) ==
    /\ pc[c] = "idle"
    /\ Move(c, "enter")
    /\ UNCHANGED <<rows, inflight, joined, answer, begun, window, resets>>

EnterReuse(c) ==
    /\ pc[c] = "enter" /\ Fresh(Loaded)
    /\ cache' = Loaded
    /\ Return(c, Loaded)
    /\ Move(c, "reused")
    /\ UNCHANGED <<stored, leftover, inflight, joined, begun, window, resets>>

\* Mutant: whoever finds no fresh result probes.
ClaimAlways(c) ==
    /\ pc[c] = "enter" /\ ~Fresh(Loaded)
    /\ cache' = Loaded
    /\ begun' = begun + 1
    /\ inflight' = begun'
    /\ joined' = [joined EXCEPT ![c] = begun']
    /\ Move(c, "probe")
    /\ UNCHANGED <<stored, leftover, answer, window, resets>>
Claim(c) ==
    /\ pc[c] = "enter" /\ ~Fresh(Loaded) /\ inflight = NoProbe
    /\ cache' = Loaded
    /\ begun' = begun + 1
    /\ inflight' = begun'
    /\ joined' = [joined EXCEPT ![c] = begun']
    /\ Move(c, "probe")
    /\ UNCHANGED <<stored, leftover, answer, window, resets>>

Join(c) ==
    /\ pc[c] = "enter" /\ ~Fresh(Loaded) /\ inflight # NoProbe
    /\ cache' = Loaded
    /\ joined' = [joined EXCEPT ![c] = inflight]
    /\ Move(c, "wait")
    /\ UNCHANGED <<stored, leftover, inflight, answer, begun, window, resets>>

\* _save_locked, the result for the waiters, and the event.  The upsert may
\* fail, and is ignored.
Save(c) ==
    /\ cache' = joined[c]
    /\ stored' \in {stored, joined[c]}
    /\ leftover' = joined[c]
    /\ window' = window \cup {joined[c]}

\* Mutant: a raise is left to the caller.
RaisedUnsaved(c) ==
    /\ pc[c] = "probe"
    /\ inflight' = inflight
    /\ Move(c, "raised")
    /\ UNCHANGED <<rows, window, joined, answer, begun, resets>>
\* The probe returned, or it raised and a failure was saved.
Probed(c) ==
    /\ pc[c] = "probe"
    /\ Save(c)
    /\ inflight' = NoProbe
    /\ Return(c, joined[c])
    /\ Move(c, "owned")
    /\ UNCHANGED <<joined, begun, resets>>
Raised(c) ==
    /\ pc[c] = "probe"
    /\ Save(c)
    /\ inflight' = NoProbe
    /\ Move(c, "raised")
    /\ UNCHANGED <<joined, answer, begun, resets>>

\* A waiter takes the result, the first one by removing it, the others from
\* the row; with neither it starts over.
Take(c) ==
    /\ cache' = IF leftover = NoProbe THEN Loaded ELSE cache
    /\ leftover' = NoProbe
    /\ LET p == IF leftover # NoProbe THEN leftover ELSE IF Fresh(Loaded) THEN Loaded ELSE NoProbe
       IN IF p # NoProbe THEN Return(c, p) /\ Move(c, "reused")
          ELSE Move(c, "enter") /\ UNCHANGED answer
    /\ UNCHANGED <<stored, inflight, joined, begun, window, resets>>
Woken(c) == pc[c] = "wait" /\ inflight # joined[c] /\ Take(c)
\* wait(timeout=max(ttl, 30)): the probe may take longer.
TimeOut(c) == pc[c] = "wait" /\ inflight = joined[c] /\ Take(c)

-------------------------------------------------------------------------------
Expire ==
    /\ window # {} /\ resets < MaxResets
    /\ resets' = resets + 1
    /\ \E p \in window : window' = window \ {p}
    /\ UNCHANGED <<rows, inflight, callers, begun>>

\* Memory is lost; a result counts on as far as its row was written.
Restart ==
    /\ resets < MaxResets
    /\ resets' = resets + 1
    /\ cache' = NoProbe /\ leftover' = NoProbe /\ inflight' = NoProbe
    /\ pc' = [c \in Callers |-> IF pc[c] \in {"enter", "probe", "wait"} THEN "gone" ELSE pc[c]]
    /\ window' = window \cap {stored}
    /\ UNCHANGED <<stored, joined, answer, begun>>

Proceed(c) ==
    EnterReuse(c) \/ Claim(c) \/ Join(c) \/ Probed(c) \/ Raised(c) \/ Woken(c)

Next ==
    \/ \E c \in Callers : Invalidate(c) \/ Call(c) \/ Proceed(c) \/ TimeOut(c)
    \/ Expire \/ Restart

Spec == Init /\ [][Next]_vars
\* Probes return or raise, and threads that can go on do.
FairSpec == Spec /\ \A c \in Callers : WF_vars(Proceed(c))

-------------------------------------------------------------------------------
(* Properties. *)

\* shared_health.py:283-284 "probe_fn runs at most once per freshness window":
\* one probe is in flight at a time, and no two results are young at once.
OneProbe ==
    /\ \A c, d \in Callers : pc[c] = "probe" /\ pc[d] = "probe" => c = d
    /\ \A p, q \in window : p = q

\* Why it holds: the probe in flight is registered, it is the last one begun,
\* and what is young is the row in memory (or in the table, after a restart),
\* so nobody claims a probe beside it.
ProbeInv ==
    /\ \A c \in Callers : pc[c] = "probe" => joined[c] = inflight /\ inflight = begun
    /\ \A c, d \in Callers : pc[c] = "probe" /\ pc[d] = "probe" => c = d
    /\ inflight # NoProbe => window = {}
    /\ window \subseteq {Loaded}

\* Every caller comes back, also when the owner's probe raises.
Returned == {"reused", "owned", "raised", "gone"}
CallersReturn == \A c \in Callers : []<>(pc[c] \in Returned \cup {"idle"})
===============================================================================
