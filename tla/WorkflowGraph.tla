---------------------------- MODULE WorkflowGraph ----------------------------
(***************************************************************************)
(* The two algorithms of astra/workflows/engine.py about the dependencies  *)
(* of a workflow's steps: check_cycles decides what may be stored, _topo   *)
(* the order in which a run executes it.                                   *)
(***************************************************************************)
EXTENDS Integers, SequencesExt

-------------------------------------------------------------------------------
(* check_cycles: depth-first, a step met again on its own path is a cycle.   *)

Clean == [ok |-> TRUE, grey |-> {}, black |-> {}]
Colours(steps) == [ok : BOOLEAN, grey : SUBSET ToSet(steps), black : SUBSET ToSet(steps)]

\* Steps that are wanted are visited one after the other.
VisitEach(steps, visit, wanted, seen) ==
    LET After[k \in 0..Len(steps)] ==
          IF k = 0 THEN seen
          ELSE IF steps[k] \in wanted THEN visit[steps[k]][After[k - 1]] ELSE After[k - 1]
    IN After[Len(steps)]
\* visit(): what is known before and after the visit of a step.
Visit(steps, deps, visit) ==
    [s \in ToSet(steps) |-> [seen \in Colours(steps) |->
       IF ~seen.ok \/ s \in seen.black THEN seen
       ELSE IF s \in seen.grey THEN [seen EXCEPT !.ok = FALSE]
       ELSE LET below == VisitEach(steps, visit, deps[s], [seen EXCEPT !.grey = @ \cup {s}])
            IN [below EXCEPT !.grey = @ \ {s}, !.black = @ \cup {s}]]]
\* A path has no more steps than there are before it meets one of its own.
NoDeeper(steps) ==
    [s \in ToSet(steps) |-> [seen \in Colours(steps) |-> [seen EXCEPT !.ok = FALSE]]]
Visits(steps, deps) ==
    LET Deep[n \in 0..Len(steps)] ==
          IF n = 0 THEN NoDeeper(steps) ELSE Visit(steps, deps, Deep[n - 1])
    IN Deep[Len(steps)]

\* Mutant: a cycle is looked for among the direct dependencies only.
CheckPairs(steps, deps) == \A s \in ToSet(steps) : \A d \in deps[s] : s \notin deps[d]
CheckCycles(steps, deps) ==
    VisitEach(steps, Visits(steps, deps), ToSet(steps), Clean).ok

-------------------------------------------------------------------------------
(* _topo.                                                                    *)

\* A step whose dependencies are all in front of it goes to the end of the order.
Placed(steps, deps, s) ==
    [ordered \in Seq(ToSet(steps)) |->
       IF s \notin ToSet(ordered) /\ deps[s] \cap ToSet(steps) \subseteq ToSet(ordered)
       THEN Append(ordered, s) ELSE ordered]
\* One pass over the steps in list order; what it places counts at once.
Pass(steps, deps, ordered) ==
    LET After[i \in 0..Len(steps)] ==
          IF i = 0 THEN ordered ELSE Placed(steps, deps, steps[i])[After[i - 1]]
    IN After[Len(steps)]

\* Mutant: the steps in list order.
InListOrder(steps, deps) == steps
\* Passes repeat while one adds a step: at most one pass per step.
Topo(steps, deps) ==
    LET Order[n \in 0..Len(steps)] ==
          IF n = 0 THEN << >> ELSE Pass(steps, deps, Order[n - 1])
    IN Order[Len(steps)]

-------------------------------------------------------------------------------
\* Some steps each of which waits for one of them.
Cyclic(steps, deps) ==
    \E knot \in (SUBSET ToSet(steps)) \ {{}} : \A s \in knot : deps[s] \cap knot # {}
\* What a run needs of the order: each step once, behind its dependencies.
DependenciesFirst(ordered, deps) ==
    \A i \in DOMAIN ordered : deps[ordered[i]] \subseteq {ordered[j] : j \in 1..(i - 1)}
Complete(ordered, steps) ==
    Len(ordered) = Len(steps) /\ ToSet(ordered) = ToSet(steps)
===============================================================================
