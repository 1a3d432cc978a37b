--------------------------- MODULE Workflows_proof ---------------------------
(***************************************************************************)
(* Proofs about the workflow modules, for any workflow, any number of      *)
(* definitions, runs and schedules, and any plans: check_cycles stores     *)
(* what _topo can order and nothing else, what a run's row says is what    *)
(* its steps did, and a schedule fires once for what is due.               *)
(***************************************************************************)
EXTENDS WorkflowDefinitions, WorkflowRuns, Scheduler, TLAPS, WellFoundedInduction, SequenceTheorems,
        FiniteSetTheorems

\* Every set of numbers has a smallest one.
LEMMA Smallest ==
    ASSUME NEW S \in SUBSET Nat, S # {}
    PROVE  \E m \in S : \A j \in S : m <= j
<1> DEFINE R == OpToRel(<, Nat)
<1>1. IsWellFoundedOn(R, Nat)
    BY NatLessThanWellFounded
<1>2. R = {pair \in Nat \X Nat : pair[1] < pair[2]}
    BY DEF OpToRel
<1> HIDE DEF R
<1>3. PICK m \in S : \A j \in S : ~(<<j, m>> \in R)
    BY <1>1, WFMin
<1>4. \A j \in S : ~(j < m)
    BY <1>2, <1>3
<1>5. \A j \in S : m <= j
    BY <1>4
<1> QED BY <1>5

\* What is computed in rounds exists: g says what a round makes of the one before.
Rule(N, S, a, g) == N \in Nat /\ a \in S /\ g \in [1..N -> [S -> S]]
Computed(N, S, a, g, f) ==
    f \in [0..N -> S] /\ f[0] = a /\ \A k \in 1..N : f[k] = g[k][f[k - 1]]
LEMMA Rounds ==
    ASSUME NEW N, NEW S, NEW a, NEW g, Rule(N, S, a, g)
    PROVE  \E f : Computed(N, S, a, g, f)
<1> DEFINE Made(k, x) == g[k][x]
<1>a. N \in Nat /\ a \in S /\ \A k \in 1..N : \A x \in S : Made(k, x) \in S
    BY DEF Rule
<1> DEFINE Good(f, m) == f[0] = a /\ \A k \in 1..m : f[k] = Made(k, f[k - 1])
           Above == {m \in 0..N : ~ \E f \in [0..m -> S] : Good(f, m)}
<1>0. SUFFICES Above = {}
    <2>1. N \in 0..N
        BY <1>a
    <2> QED BY <2>1 DEF Computed
<1> HIDE DEF Made
<1>1. SUFFICES ASSUME Above # {} PROVE FALSE
    OBVIOUS
<1>2. PICK m \in Above : \A j \in Above : m <= j
    <2>1. Above \in SUBSET Nat
        OBVIOUS
    <2> HIDE DEF Above
    <2> QED BY <1>1, <2>1, Smallest
<1>n. m \in Nat /\ m \in 0..N
    BY <1>2, <1>a
<1>3. m # 0
    <2>1. [k \in 0..0 |-> a] \in [0..0 -> S] /\ Good([k \in 0..0 |-> a], 0)
        BY <1>a
    <2>2. 0 \notin Above
        BY <2>1
    <2> QED BY <1>2, <2>2
<1>4. \E f \in [0..(m - 1) -> S] : Good(f, m - 1)
    <2>1. m - 1 \in 0..N /\ ~(m <= m - 1)
        BY <1>a, <1>n, <1>3
    <2>2. m - 1 \notin Above
        <3> HIDE DEF Above
        <3> QED BY <1>2, <2>1
    <2> HIDE DEF Good
    <2> QED BY <2>1, <2>2
<1>5. PICK f \in [0..(m - 1) -> S] : Good(f, m - 1)
    BY <1>4
<1>6. m \in 1..N /\ m - 1 \in 0..(m - 1)
    BY <1>a, <1>n, <1>3
<1>7. Made(m, f[m - 1]) \in S
    <2>1. f[m - 1] \in S
        BY <1>6
    <2> QED BY <1>a, <1>6, <2>1
<1> DEFINE h == [k \in 0..m |-> IF k = m THEN Made(m, f[m - 1]) ELSE f[k]]
<1>8. h \in [0..m -> S]
    <2>1. ASSUME NEW k \in 0..m, k # m PROVE f[k] \in S
        <3>1. k \in 0..(m - 1)
            BY <1>n, <2>1
        <3> QED BY <3>1
    <2> QED BY <1>7, <2>1
<1>9. Good(h, m)
    <2>1. h[0] = a
        BY <1>n, <1>3, <1>5
    <2>2. ASSUME NEW k \in 1..m PROVE h[k] = Made(k, h[k - 1])
        <3>1. CASE k = m
            <4>1. m \in 0..m /\ m - 1 \in 0..m /\ m - 1 # m
                BY <1>n, <1>6
            <4>2. h[m] = Made(m, f[m - 1]) /\ h[m - 1] = f[m - 1]
                BY <4>1
            <4> HIDE DEF h
            <4> QED BY <3>1, <4>2
        <3>2. CASE k # m
            <4>1. k \in 1..(m - 1) /\ k - 1 \in 0..m /\ k - 1 # m /\ k \in 0..m
                BY <3>2, <1>n, <1>6
            <4>2. h[k] = f[k] /\ h[k - 1] = f[k - 1]
                BY <3>2, <4>1
            <4>3. f[k] = Made(k, f[k - 1])
                BY <1>5, <4>1
            <4> HIDE DEF h
            <4> QED BY <4>2, <4>3
        <3> QED BY <3>1, <3>2
    <2> HIDE DEF h
    <2> QED BY <2>1, <2>2
<1>b. m \notin Above
    <2> HIDE DEF Good, h
    <2> QED BY <1>8, <1>9
<1> QED BY <1>2, <1>b

\* Induction over rounds, with the set of those for which something holds.
LEMMA UpTo ==
    ASSUME NEW N \in Nat, NEW T, 0 \in T, \A k \in 1..N : k - 1 \in T => k \in T
    PROVE  \A k \in 0..N : k \in T
<1> DEFINE Above == {k \in 0..N : k \notin T}
<1>1. SUFFICES ASSUME Above # {} PROVE FALSE
    OBVIOUS
<1>2. PICK m \in Above : \A j \in Above : m <= j
    <2>1. Above \in SUBSET Nat
        OBVIOUS
    <2> HIDE DEF Above
    <2> QED BY <1>1, <2>1, Smallest
<1>3. m \in 1..N /\ m - 1 \in 0..N
    BY <1>2
<1>4. m - 1 \in T
    BY <1>2, <1>3
<1> QED BY <1>2, <1>3, <1>4

-------------------------------------------------------------------------------
(* The order of the steps.                                                   *)

LEMMA PlacedTypes ==
    ASSUME NEW X, NEW steps \in Seq(X), NEW deps, NEW o \in Seq(ToSet(steps)), NEW s \in ToSet(steps)
    PROVE  Placed(steps, deps, s)[o] \in Seq(ToSet(steps))
BY DEF Placed

\* A pass in its single looks at a step.
Looks(steps, deps, o, f) ==
    /\ f \in [0..Len(steps) -> Seq(ToSet(steps))]
    /\ f[0] = o /\ Pass(steps, deps, o) = f[Len(steps)]
    /\ \A k \in 1..Len(steps) : f[k] = Placed(steps, deps, steps[k])[f[k - 1]]
LEMMA PassRounds ==
    ASSUME NEW X, NEW steps \in Seq(X), NEW deps, NEW o \in Seq(ToSet(steps))
    PROVE  \E f : Looks(steps, deps, o, f)
<1> DEFINE N == Len(steps)
           S == Seq(ToSet(steps))
           g == [k \in 1..N |-> [x \in S |-> Placed(steps, deps, steps[k])[x]]]
           Is(f) == f = [i \in 0..N |-> IF i = 0 THEN o ELSE Placed(steps, deps, steps[i])[f[i - 1]]]
           c == CHOOSE f : Is(f)
<1>1. N \in Nat /\ \A k \in 1..N : steps[k] \in ToSet(steps)
    BY DEF ToSet
<1>2. g \in [1..N -> [S -> S]]
    <2>1. ASSUME NEW k \in 1..N, NEW x \in S PROVE Placed(steps, deps, steps[k])[x] \in S
        BY <1>1, PlacedTypes
    <2> QED BY <2>1
<1>3. PICK f : f \in [0..N -> S] /\ f[0] = o /\ \A k \in 1..N : f[k] = g[k][f[k - 1]]
    <2>1. Rule(N, S, o, g)
        BY <1>1, <1>2 DEF Rule
    <2>2. \E f : Computed(N, S, o, g, f)
        <3> HIDE DEF N, S, g
        <3> QED BY <2>1, Rounds
    <2> HIDE DEF N, S, g
    <2> QED BY <2>2 DEF Computed
<1>4. \A k \in 1..N : f[k] = Placed(steps, deps, steps[k])[f[k - 1]]
    <2>1. ASSUME NEW k \in 1..N PROVE f[k - 1] \in S
        BY <1>1, <1>3
    <2> QED BY <1>3, <2>1
<1>5. Is(f)
    BY <1>1, <1>3, <1>4
<1>6. Is(c)
    BY <1>5
<1>7. Pass(steps, deps, o) = c[N]
    BY DEF Pass
<1> HIDE DEF c
<1>8. c[N] = f[N]
    <2> DEFINE T == {j \in 0..N : c[j] = f[j]}
    <2>1. 0 \in T
        BY <1>1, <1>5, <1>6
    <2>2. ASSUME NEW k \in 1..N, k - 1 \in T PROVE k \in T
        BY <1>1, <1>5, <1>6, <2>2
    <2>3. \A k \in 0..N : k \in T
        <3> HIDE DEF T, N
        <3> QED BY <1>1, <2>1, <2>2, UpTo
    <2> QED BY <1>1, <2>3
<1>9. Pass(steps, deps, o) = f[N]
    BY <1>1, <1>7, <1>8
<1> QED BY <1>3, <1>4, <1>9 DEF Looks

\* A step goes behind what it depends on.
LEMMA PlacedKeeps ==
    ASSUME NEW X, NEW steps \in Seq(X), NEW deps \in [ToSet(steps) -> SUBSET ToSet(steps)],
           NEW o \in Seq(ToSet(steps)), NEW s \in ToSet(steps), DependenciesFirst(o, deps)
    PROVE  DependenciesFirst(Placed(steps, deps, s)[o], deps)
<1>1. CASE Placed(steps, deps, s)[o] = o
    BY <1>1
<1>2. CASE Placed(steps, deps, s)[o] = Append(o, s) /\ deps[s] \cap ToSet(steps) \subseteq ToSet(o)
    <2> DEFINE p == Append(o, s)
    <2>1. Len(o) \in Nat /\ Len(p) = Len(o) + 1 /\ DOMAIN p = 1..(Len(o) + 1) /\ DOMAIN o = 1..Len(o)
        OBVIOUS
    <2>2. p[Len(o) + 1] = s /\ \A j \in 1..Len(o) : p[j] = o[j]
        OBVIOUS
    <2>3. deps[s] \subseteq ToSet(o)
        BY <1>2
    <2>4. ToSet(o) = {o[j] : j \in 1..Len(o)}
        BY <2>1 DEF ToSet
    <2> HIDE DEF p
    <2>5. ASSUME NEW i \in 1..(Len(o) + 1), NEW d \in deps[p[i]]
          PROVE  \E j \in 1..(i - 1) : d = p[j]
        <3>1. CASE i = Len(o) + 1
            <4>1. PICK j \in 1..Len(o) : d = o[j]
                BY <3>1, <2>2, <2>3, <2>4, <2>5
            <4> QED BY <3>1, <4>1, <2>1, <2>2
        <3>2. CASE i # Len(o) + 1
            <4>1. i \in 1..Len(o) /\ p[i] = o[i]
                BY <3>2, <2>1, <2>2
            <4>2. PICK j \in 1..(i - 1) : d = o[j]
                BY <4>1, <2>1, <2>5 DEF DependenciesFirst
            <4>3. j \in 1..Len(o)
                BY <2>1, <4>1
            <4> QED BY <4>2, <4>3, <2>2
        <3> QED BY <3>1, <3>2
    <2>6. DependenciesFirst(p, deps)
        BY <2>1, <2>5 DEF DependenciesFirst
    <2> QED BY <1>2, <2>6 DEF p
<1> QED BY <1>1, <1>2 DEF Placed

LEMMA PassKeeps ==
    ASSUME NEW X, NEW steps \in Seq(X), NEW deps \in [ToSet(steps) -> SUBSET ToSet(steps)],
           NEW o \in Seq(ToSet(steps))
    PROVE  /\ Pass(steps, deps, o) \in Seq(ToSet(steps))
           /\ DependenciesFirst(o, deps) => DependenciesFirst(Pass(steps, deps, o), deps)
<1> DEFINE N == Len(steps)
           S == Seq(ToSet(steps))
<1>p. PICK f : Looks(steps, deps, o, f)
    BY PassRounds
<1>1. /\ f \in [0..N -> S]
      /\ f[0] = o /\ Pass(steps, deps, o) = f[N]
      /\ \A k \in 1..N : f[k] = Placed(steps, deps, steps[k])[f[k - 1]]
    BY <1>p DEF Looks
<1>2. N \in Nat /\ \A k \in 1..N : steps[k] \in ToSet(steps)
    BY DEF ToSet
<1>3. N \in 0..N
    BY <1>2
<1>4. ASSUME DependenciesFirst(o, deps) PROVE DependenciesFirst(f[N], deps)
    <2> DEFINE T == {k \in 0..N : DependenciesFirst(f[k], deps)}
    <2>1. 0 \in T
        BY <1>1, <1>2, <1>4
    <2>2. ASSUME NEW k \in 1..N, k - 1 \in T PROVE k \in T
        <3>n. k - 1 \in 0..N /\ k \in 0..N
            BY <1>2
        <3>t. f[k - 1] \in S
            BY <1>1, <3>n
        <3>1. DependenciesFirst(f[k - 1], deps)
            BY <2>2
        <3>2. DependenciesFirst(Placed(steps, deps, steps[k])[f[k - 1]], deps)
            BY <1>2, <3>t, <3>1, PlacedKeeps
        <3> QED BY <1>1, <3>n, <3>2
    <2>3. \A k \in 0..N : k \in T
        <3> HIDE DEF T, N
        <3> QED BY <1>2, <2>1, <2>2, UpTo
    <2> QED BY <1>3, <2>3
<1> QED BY <1>1, <1>3, <1>4

\* The whole order in its passes.
Passes(steps, deps, f) ==
    /\ f \in [0..Len(steps) -> Seq(ToSet(steps))]
    /\ f[0] = << >> /\ Topo(steps, deps) = f[Len(steps)]
    /\ \A k \in 1..Len(steps) : f[k] = Pass(steps, deps, f[k - 1])
LEMMA TopoRounds ==
    ASSUME NEW X, NEW steps \in Seq(X), NEW deps \in [ToSet(steps) -> SUBSET ToSet(steps)]
    PROVE  \E f : Passes(steps, deps, f)
<1> DEFINE N == Len(steps)
           S == Seq(ToSet(steps))
           g == [k \in 1..N |-> [x \in S |-> Pass(steps, deps, x)]]
           Is(f) == f = [n \in 0..N |-> IF n = 0 THEN << >> ELSE Pass(steps, deps, f[n - 1])]
           c == CHOOSE f : Is(f)
<1>1. N \in Nat /\ << >> \in S
    OBVIOUS
<1>2. g \in [1..N -> [S -> S]]
    <2>1. ASSUME NEW x \in S PROVE Pass(steps, deps, x) \in S
        BY PassKeeps
    <2> QED BY <2>1
<1>3. PICK f : f \in [0..N -> S] /\ f[0] = << >> /\ \A k \in 1..N : f[k] = g[k][f[k - 1]]
    <2>1. Rule(N, S, << >>, g)
        BY <1>1, <1>2 DEF Rule
    <2>2. \E f : Computed(N, S, << >>, g, f)
        <3> HIDE DEF N, S, g
        <3> QED BY <2>1, Rounds
    <2> HIDE DEF N, S, g
    <2> QED BY <2>2 DEF Computed
<1>4. \A k \in 1..N : f[k] = Pass(steps, deps, f[k - 1])
    <2>1. ASSUME NEW k \in 1..N PROVE f[k] = Pass(steps, deps, f[k - 1])
        <3>1. k - 1 \in 0..N
            BY <1>1
        <3>2. f[k - 1] \in S
            BY <1>3, <3>1
        <3>3. g[k] = [x \in S |-> Pass(steps, deps, x)]
            OBVIOUS
        <3> QED BY <1>3, <3>2, <3>3
    <2> QED BY <2>1
<1>5. Is(f)
    BY <1>1, <1>3, <1>4
<1>6. Is(c)
    BY <1>5
<1>7. Topo(steps, deps) = c[N]
    BY DEF Topo
<1> HIDE DEF c
<1>8. c[N] = f[N]
    <2> DEFINE T == {j \in 0..N : c[j] = f[j]}
    <2>1. 0 \in T
        BY <1>1, <1>5, <1>6
    <2>2. ASSUME NEW k \in 1..N, k - 1 \in T PROVE k \in T
        BY <1>1, <1>5, <1>6, <2>2
    <2>3. \A k \in 0..N : k \in T
        <3> HIDE DEF T, N
        <3> QED BY <1>1, <2>1, <2>2, UpTo
    <2> QED BY <1>1, <2>3
<1>9. Topo(steps, deps) = f[N]
    BY <1>1, <1>7, <1>8
<1> QED BY <1>3, <1>4, <1>9 DEF Passes

\* engine.py _topo: what it places stands behind everything it depends on.
THEOREM TopoInOrder ==
    ASSUME NEW X, NEW steps \in Seq(X), NEW deps \in [ToSet(steps) -> SUBSET ToSet(steps)]
    PROVE  /\ Topo(steps, deps) \in Seq(ToSet(steps))
           /\ DependenciesFirst(Topo(steps, deps), deps)
<1> DEFINE N == Len(steps)
           S == Seq(ToSet(steps))
<1>p. PICK f : Passes(steps, deps, f)
    BY TopoRounds
<1>1. /\ f \in [0..N -> S]
      /\ f[0] = << >> /\ Topo(steps, deps) = f[N]
      /\ \A k \in 1..N : f[k] = Pass(steps, deps, f[k - 1])
    BY <1>p DEF Passes
<1>2. N \in Nat /\ N \in 0..N
    OBVIOUS
<1> DEFINE T == {k \in 0..N : DependenciesFirst(f[k], deps)}
<1>3. 0 \in T
    BY <1>1, <1>2 DEF DependenciesFirst
<1>4. ASSUME NEW k \in 1..N, k - 1 \in T PROVE k \in T
    <2>n. k - 1 \in 0..N /\ k \in 0..N
        BY <1>2
    <2>t. f[k - 1] \in S
        BY <1>1, <2>n
    <2>1. DependenciesFirst(f[k - 1], deps)
        BY <1>4
    <2>2. DependenciesFirst(Pass(steps, deps, f[k - 1]), deps)
        BY <2>t, <2>1, PassKeeps
    <2> QED BY <1>1, <2>n, <2>2
<1>5. \A k \in 0..N : k \in T
    <2> HIDE DEF T, N
    <2> QED BY <1>2, <1>3, <1>4, UpTo
<1> QED BY <1>1, <1>2, <1>5

-------------------------------------------------------------------------------
(* check_cycles.                                                             *)

\* Steps visited one after the other.
VisitSet(steps) == [ToSet(steps) -> [Colours(steps) -> Colours(steps)]]
Visited(steps, visit, wanted, known, f) ==
    /\ f \in [0..Len(steps) -> Colours(steps)]
    /\ f[0] = known /\ VisitEach(steps, visit, wanted, known) = f[Len(steps)]
    /\ \A k \in 1..Len(steps) :
         f[k] = IF steps[k] \in wanted THEN visit[steps[k]][f[k - 1]] ELSE f[k - 1]
LEMMA VisitedRounds ==
    ASSUME NEW X, NEW steps \in Seq(X), NEW visit \in VisitSet(steps), NEW wanted,
           NEW known \in Colours(steps)
    PROVE  \E f : Visited(steps, visit, wanted, known, f)
<1> DEFINE N == Len(steps)
           S == Colours(steps)
           g == [k \in 1..N |-> [x \in S |-> IF steps[k] \in wanted THEN visit[steps[k]][x] ELSE x]]
           Is(f) == f = [k \in 0..N |-> IF k = 0 THEN known
                                        ELSE IF steps[k] \in wanted THEN visit[steps[k]][f[k - 1]]
                                        ELSE f[k - 1]]
           c == CHOOSE f : Is(f)
<1>1. N \in Nat /\ \A k \in 1..N : steps[k] \in ToSet(steps)
    BY DEF ToSet
<1>2. g \in [1..N -> [S -> S]]
    <2>1. ASSUME NEW k \in 1..N, NEW x \in S PROVE visit[steps[k]][x] \in S
        <3>1. visit[steps[k]] \in [S -> S]
            BY <1>1 DEF VisitSet
        <3> QED BY <3>1
    <2> QED BY <2>1
<1>3. PICK f : f \in [0..N -> S] /\ f[0] = known /\ \A k \in 1..N : f[k] = g[k][f[k - 1]]
    <2>1. Rule(N, S, known, g)
        BY <1>1, <1>2 DEF Rule
    <2>2. \E f : Computed(N, S, known, g, f)
        <3> HIDE DEF N, S, g
        <3> QED BY <2>1, Rounds
    <2> HIDE DEF N, S, g
    <2> QED BY <2>2 DEF Computed
<1>4. \A k \in 1..N : f[k] = IF steps[k] \in wanted THEN visit[steps[k]][f[k - 1]] ELSE f[k - 1]
    <2>1. ASSUME NEW k \in 1..N
          PROVE  f[k] = IF steps[k] \in wanted THEN visit[steps[k]][f[k - 1]] ELSE f[k - 1]
        <3>1. f[k - 1] \in S
            BY <1>1, <1>3
        <3>2. g[k] = [x \in S |-> IF steps[k] \in wanted THEN visit[steps[k]][x] ELSE x]
            OBVIOUS
        <3> HIDE DEF S, g
        <3> QED BY <1>3, <3>1, <3>2
    <2> QED BY <2>1
<1>5. Is(f)
    BY <1>1, <1>3, <1>4
<1>6. Is(c)
    BY <1>5
<1>7. VisitEach(steps, visit, wanted, known) = c[N]
    BY DEF VisitEach
<1> HIDE DEF c
<1>8. c[N] = f[N]
    <2> DEFINE T == {j \in 0..N : c[j] = f[j]}
    <2>1. 0 \in T
        BY <1>1, <1>5, <1>6
    <2>2. ASSUME NEW k \in 1..N, k - 1 \in T PROVE k \in T
        <3>1. k \in 0..N /\ k # 0 /\ c[k - 1] = f[k - 1]
            BY <1>1, <2>2
        <3>2. f[k] = IF steps[k] \in wanted THEN visit[steps[k]][f[k - 1]] ELSE f[k - 1]
            BY <1>4
        <3>3. c[k] = IF steps[k] \in wanted THEN visit[steps[k]][c[k - 1]] ELSE c[k - 1]
            BY <1>6, <3>1
        <3>4. c[k] = f[k]
            BY <3>1, <3>2, <3>3
        <3> QED BY <3>1, <3>4
    <2>3. \A k \in 0..N : k \in T
        <3> HIDE DEF T, N
        <3> QED BY <1>1, <2>1, <2>2, UpTo
    <2> QED BY <1>1, <2>3
<1>9. VisitEach(steps, visit, wanted, known) = f[N]
    BY <1>1, <1>7, <1>8
<1> QED BY <1>3, <1>4, <1>9 DEF Visited

LEMMA VisitEachTypes ==
    ASSUME NEW X, NEW steps \in Seq(X), NEW visit \in VisitSet(steps), NEW wanted,
           NEW known \in Colours(steps)
    PROVE  VisitEach(steps, visit, wanted, known) \in Colours(steps)
<1>1. PICK f : Visited(steps, visit, wanted, known, f)
    BY VisitedRounds
<1>2. Len(steps) \in 0..Len(steps)
    OBVIOUS
<1> QED BY <1>1, <1>2 DEF Visited

\* The three things a visit may find.
Greyer(known, s) == [known EXCEPT !.grey = @ \cup {s}]
Blacker(below, s) == [below EXCEPT !.grey = @ \ {s}, !.black = @ \cup {s}]
LEMMA VisitCases ==
    ASSUME NEW X, NEW steps \in Seq(X), NEW deps, NEW visit \in VisitSet(steps),
           NEW s \in ToSet(steps), NEW known \in Colours(steps), NEW r,
           r = Visit(steps, deps, visit)[s][known]
    PROVE  /\ ~known.ok \/ s \in known.black => r = known
           /\ known.ok /\ s \notin known.black /\ s \in known.grey => ~r.ok
           /\ known.ok /\ s \notin known.black /\ s \notin known.grey =>
                r = Blacker(VisitEach(steps, visit, deps[s], Greyer(known, s)), s)
<1>1. Visit(steps, deps, visit)[s][known]
        = IF ~known.ok \/ s \in known.black THEN known
          ELSE IF s \in known.grey THEN [known EXCEPT !.ok = FALSE]
          ELSE Blacker(VisitEach(steps, visit, deps[s], Greyer(known, s)), s)
    BY DEF Visit, Blacker, Greyer
<1>2. [known EXCEPT !.ok = FALSE].ok = FALSE
    BY DEF Colours
<1> QED BY <1>1, <1>2

LEMMA ColourTypes ==
    ASSUME NEW steps, NEW s \in ToSet(steps), NEW known \in Colours(steps)
    PROVE  /\ Greyer(known, s) \in Colours(steps) /\ Blacker(known, s) \in Colours(steps)
           /\ Greyer(known, s).ok = known.ok /\ Blacker(known, s).ok = known.ok
           /\ Greyer(known, s).grey = known.grey \cup {s} /\ Greyer(known, s).black = known.black
           /\ Blacker(known, s).grey = known.grey \ {s} /\ Blacker(known, s).black = known.black \cup {s}
BY DEF Colours, Greyer, Blacker

LEMMA VisitTypes ==
    ASSUME NEW X, NEW steps \in Seq(X), NEW deps, NEW visit \in VisitSet(steps)
    PROVE  Visit(steps, deps, visit) \in VisitSet(steps)
<1> DEFINE C == Colours(steps)
           v(s, known) == IF ~known.ok \/ s \in known.black THEN known
                         ELSE IF s \in known.grey THEN [known EXCEPT !.ok = FALSE]
                         ELSE Blacker(VisitEach(steps, visit, deps[s], Greyer(known, s)), s)
<1>1. ASSUME NEW s \in ToSet(steps), NEW known \in C
      PROVE  v(s, known) \in C
    <2>1. VisitEach(steps, visit, deps[s], Greyer(known, s)) \in Colours(steps)
        BY <1>1, ColourTypes, VisitEachTypes
    <2>2. Blacker(VisitEach(steps, visit, deps[s], Greyer(known, s)), s) \in C
        BY <1>1, <2>1, ColourTypes
    <2>3. [known EXCEPT !.ok = FALSE] \in C
        BY <1>1 DEF Colours
    <2> QED BY <1>1, <2>2, <2>3
<1>2. Visit(steps, deps, visit) = [s \in ToSet(steps) |-> [known \in C |-> v(s, known)]]
    BY DEF Visit, Blacker, Greyer
<1> HIDE DEF v
<1> QED BY <1>1, <1>2 DEF VisitSet

\* The visits on paths of more and more steps.
Deepens(steps, deps, f) ==
    /\ f \in [0..Len(steps) -> VisitSet(steps)]
    /\ f[0] = NoDeeper(steps) /\ Visits(steps, deps) = f[Len(steps)]
    /\ \A n \in 1..Len(steps) : f[n] = Visit(steps, deps, f[n - 1])
LEMMA DeepRounds ==
    ASSUME NEW X, NEW steps \in Seq(X), NEW deps
    PROVE  \E f : Deepens(steps, deps, f)
<1> DEFINE N == Len(steps)
           S == VisitSet(steps)
           a == NoDeeper(steps)
           g == [k \in 1..N |-> [x \in S |-> Visit(steps, deps, x)]]
           Is(f) == f = [n \in 0..N |-> IF n = 0 THEN a ELSE Visit(steps, deps, f[n - 1])]
           c == CHOOSE f : Is(f)
<1>1. N \in Nat /\ a \in S
    <2>1. ASSUME NEW known \in Colours(steps) PROVE [known EXCEPT !.ok = FALSE] \in Colours(steps)
        BY DEF Colours
    <2>2. a \in S
        BY <2>1 DEF VisitSet, NoDeeper
    <2> QED BY <2>2
<1>2. g \in [1..N -> [S -> S]]
    <2>1. ASSUME NEW x \in S PROVE Visit(steps, deps, x) \in S
        BY VisitTypes
    <2> HIDE DEF S
    <2> QED BY <2>1
<1>3. PICK f : f \in [0..N -> S] /\ f[0] = a /\ \A k \in 1..N : f[k] = g[k][f[k - 1]]
    <2>1. Rule(N, S, a, g)
        <3> HIDE DEF N, S, g, a
        <3> QED BY <1>1, <1>2 DEF Rule
    <2>2. \E f : Computed(N, S, a, g, f)
        <3> HIDE DEF N, S, g, a
        <3> QED BY <2>1, Rounds
    <2> HIDE DEF N, S, g, a
    <2> QED BY <2>2 DEF Computed
<1>4. \A k \in 1..N : f[k] = Visit(steps, deps, f[k - 1])
    <2>1. ASSUME NEW k \in 1..N PROVE f[k] = Visit(steps, deps, f[k - 1])
        <3>1. k - 1 \in 0..N
            BY <1>1
        <3>2. f[k - 1] \in S
            BY <1>3, <3>1
        <3>3. g[k] = [x \in S |-> Visit(steps, deps, x)]
            OBVIOUS
        <3> HIDE DEF S, g
        <3> QED BY <1>3, <3>2, <3>3
    <2> QED BY <2>1
<1>5. Is(f)
    <2> HIDE DEF a
    <2> QED BY <1>1, <1>3, <1>4
<1>6. Is(c)
    <2> HIDE DEF a
    <2> QED BY <1>5
<1>7. Visits(steps, deps) = c[N]
    BY DEF Visits
<1> HIDE DEF c, a
<1>8. c[N] = f[N]
    <2> DEFINE T == {j \in 0..N : c[j] = f[j]}
    <2>1. 0 \in T
        BY <1>1, <1>5, <1>6
    <2>2. ASSUME NEW k \in 1..N, k - 1 \in T PROVE k \in T
        BY <1>1, <1>5, <1>6, <2>2
    <2>3. \A k \in 0..N : k \in T
        <3> HIDE DEF T, N
        <3> QED BY <1>1, <2>1, <2>2, UpTo
    <2> QED BY <1>1, <2>3
<1>9. Visits(steps, deps) = f[N]
    BY <1>1, <1>7, <1>8
<1> QED BY <1>3, <1>4, <1>9 DEF Deepens, a

\* Black steps wait for black ones only, no knot is among them, and none is grey.
Sane(deps, c) ==
    c.ok => /\ c.grey \cap c.black = {}
            /\ \A b \in c.black : deps[b] \subseteq c.black
            /\ \A knot \in SUBSET c.black : knot # {} => \E s \in knot : deps[s] \cap knot = {}
Blackens(deps, known, r) ==
    r.ok => known.ok /\ Sane(deps, r) /\ r.grey = known.grey /\ known.black \subseteq r.black
SoundFor(deps, s, known, r) ==
    Sane(deps, known) => Blackens(deps, known, r) /\ (r.ok => s \in r.black)
SoundVisit(steps, deps, visit) ==
    \A s \in ToSet(steps) : \A known \in Colours(steps) : SoundFor(deps, s, known, visit[s][known])

LEMMA SoundEach ==
    ASSUME NEW X, NEW steps \in Seq(X), NEW deps, NEW visit \in VisitSet(steps),
           SoundVisit(steps, deps, visit), NEW wanted,
           NEW known \in Colours(steps), Sane(deps, known),
           NEW r, r = VisitEach(steps, visit, wanted, known)
    PROVE  Blackens(deps, known, r) /\ (r.ok => \A s \in ToSet(steps) : s \in wanted => s \in r.black)
<1> DEFINE N == Len(steps)
<1>1. PICK f : Visited(steps, visit, wanted, known, f)
    BY VisitedRounds
<1>2. /\ f \in [0..N -> Colours(steps)] /\ f[0] = known /\ r = f[N]
      /\ \A k \in 1..N : f[k] = IF steps[k] \in wanted THEN visit[steps[k]][f[k - 1]] ELSE f[k - 1]
    BY <1>1 DEF Visited
<1>3. N \in Nat /\ N \in 0..N /\ ToSet(steps) = {steps[i] : i \in 1..N}
    BY DEF ToSet
<1> DEFINE Black(k) == \A i \in 1..k : steps[i] \in wanted => steps[i] \in f[k].black
           T == {k \in 0..N : Blackens(deps, known, f[k]) /\ (f[k].ok => Black(k))}
<1>4. 0 \in T
    BY <1>2, <1>3 DEF Blackens
<1>5. ASSUME NEW k \in 1..N, k - 1 \in T PROVE k \in T
    <2>1. k - 1 \in 0..N /\ k \in 0..N /\ steps[k] \in ToSet(steps)
        BY <1>3
    <2>2. PICK p \in Colours(steps) : p = f[k - 1]
        BY <1>2, <2>1
    <2>3. PICK q \in Colours(steps) : q = f[k]
        BY <1>2, <2>1
    <2>4. Blackens(deps, known, p) /\ (p.ok => \A i \in 1..(k - 1) : steps[i] \in wanted => steps[i] \in p.black)
        BY <1>5, <2>2
    <2>5. Sane(deps, p)
        BY <2>4 DEF Blackens, Sane
    <2>6. Blackens(deps, p, q) /\ (q.ok /\ steps[k] \in wanted => steps[k] \in q.black)
        <3>1. CASE steps[k] \in wanted
            <4>1. q = visit[steps[k]][p]
                BY <1>2, <2>2, <2>3, <3>1
            <4>2. SoundFor(deps, steps[k], p, q)
                BY <2>1, <4>1 DEF SoundVisit
            <4> QED BY <2>5, <4>2 DEF SoundFor
        <3>2. CASE steps[k] \notin wanted
            <4>1. q = p
                BY <1>2, <2>2, <2>3, <3>2
            <4> QED BY <2>5, <3>2, <4>1 DEF Blackens
        <3> QED BY <3>1, <3>2
    <2>7. Blackens(deps, known, q)
        BY <2>4, <2>6 DEF Blackens
    <2>8. ASSUME q.ok, NEW i \in 1..k, steps[i] \in wanted PROVE steps[i] \in q.black
        <3>1. p.ok /\ p.black \subseteq q.black
            BY <2>6, <2>8 DEF Blackens
        <3>2. i = k \/ i \in 1..(k - 1)
            BY <1>3
        <3> QED BY <2>4, <2>6, <2>8, <3>1, <3>2
    <2> QED BY <2>1, <2>3, <2>7, <2>8
<1>6. N \in T
    <2> HIDE DEF T, N
    <2>1. \A k \in 0..N : k \in T
        BY <1>3, <1>4, <1>5, UpTo
    <2> QED BY <1>3, <2>1
<1> QED BY <1>2, <1>3, <1>6

LEMMA SoundDeeper ==
    ASSUME NEW X, NEW steps \in Seq(X), NEW deps \in [ToSet(steps) -> SUBSET ToSet(steps)],
           NEW visit \in VisitSet(steps), SoundVisit(steps, deps, visit)
    PROVE  SoundVisit(steps, deps, Visit(steps, deps, visit))
<1>1. SUFFICES ASSUME NEW s \in ToSet(steps), NEW known \in Colours(steps), Sane(deps, known),
                      NEW r, r = Visit(steps, deps, visit)[s][known]
               PROVE  Blackens(deps, known, r) /\ (r.ok => s \in r.black)
    BY DEF SoundVisit, SoundFor
<1>2. CASE ~known.ok \/ s \in known.black
    <2>1. r = known
        BY <1>1, <1>2, VisitCases
    <2> QED BY <1>1, <1>2, <2>1 DEF Blackens
<1>3. CASE known.ok /\ s \notin known.black /\ s \in known.grey
    <2>1. ~r.ok
        BY <1>1, <1>3, VisitCases
    <2> QED BY <2>1 DEF Blackens
<1>4. CASE known.ok /\ s \notin known.black /\ s \notin known.grey
    <2>1. PICK g : g = Greyer(known, s)
        OBVIOUS
    <2>2. g \in Colours(steps) /\ g.ok = known.ok /\ g.grey = known.grey \cup {s} /\ g.black = known.black
        BY <2>1, ColourTypes
    <2>3. PICK b : b = VisitEach(steps, visit, deps[s], g)
        OBVIOUS
    <2>4. b \in Colours(steps)
        BY <2>2, <2>3, VisitEachTypes
    <2>5. r = Blacker(b, s)
        BY <1>1, <1>4, <2>1, <2>3, VisitCases
    <2>6. r.ok = b.ok /\ r.grey = b.grey \ {s} /\ r.black = b.black \cup {s}
        BY <2>4, <2>5, ColourTypes
    <2>7. Sane(deps, g)
        BY <1>1, <1>4, <2>2 DEF Sane
    <2>8. Blackens(deps, g, b) /\ (b.ok => \A d \in ToSet(steps) : d \in deps[s] => d \in b.black)
        BY <2>2, <2>3, <2>7, SoundEach
    <2>9. SUFFICES ASSUME b.ok
                   PROVE  Sane(deps, r) /\ r.grey = known.grey /\ known.black \subseteq r.black
        BY <1>4, <2>6 DEF Blackens
    <2>10. b.grey = known.grey \cup {s} /\ known.black \subseteq b.black /\ Sane(deps, b)
        BY <2>2, <2>8, <2>9 DEF Blackens
    <2>11. /\ b.grey \cap b.black = {} /\ \A x \in b.black : deps[x] \subseteq b.black
           /\ \A knot \in SUBSET b.black : knot # {} => \E x \in knot : deps[x] \cap knot = {}
        BY <2>9, <2>10 DEF Sane
    <2>12. s \notin b.black /\ deps[s] \subseteq b.black
        BY <2>8, <2>9, <2>10, <2>11
    <2>13. r.grey \cap r.black = {} /\ \A x \in r.black : deps[x] \subseteq r.black
        BY <2>6, <2>11, <2>12
    <2>14. ASSUME NEW knot \in SUBSET r.black, knot # {}
           PROVE  \E x \in knot : deps[x] \cap knot = {}
        <3>1. CASE knot \cap b.black = {}
            <4>1. knot = {s}
                BY <2>6, <2>14, <3>1
            <4> QED BY <2>12, <4>1
        <3>2. CASE knot \cap b.black # {}
            <4>1. PICK x \in knot \cap b.black : deps[x] \cap (knot \cap b.black) = {}
                BY <2>11, <3>2
            <4>2. deps[x] \subseteq b.black
                BY <2>11, <4>1
            <4> QED BY <4>1, <4>2
        <3> QED BY <3>1, <3>2
    <2> QED BY <1>4, <2>6, <2>10, <2>13, <2>14 DEF Sane
<1> QED BY <1>2, <1>3, <1>4

\* What check_cycles lets in has no knot.
LEMMA AcceptedHasNoCycle ==
    ASSUME NEW X, NEW steps \in Seq(X), NEW deps \in [ToSet(steps) -> SUBSET ToSet(steps)],
           CheckCycles(steps, deps)
    PROVE  ~Cyclic(steps, deps)
<1> DEFINE N == Len(steps)
<1>1. PICK f : Deepens(steps, deps, f)
    BY DeepRounds
<1>2. /\ f \in [0..N -> VisitSet(steps)] /\ f[0] = NoDeeper(steps) /\ Visits(steps, deps) = f[N]
      /\ \A n \in 1..N : f[n] = Visit(steps, deps, f[n - 1])
    BY <1>1 DEF Deepens
<1>3. N \in Nat /\ N \in 0..N
    OBVIOUS
<1> DEFINE T == {n \in 0..N : SoundVisit(steps, deps, f[n])}
<1>4. 0 \in T
    <2>1. ASSUME NEW s \in ToSet(steps), NEW known \in Colours(steps)
          PROVE  SoundFor(deps, s, known, NoDeeper(steps)[s][known])
        <3>1. ~NoDeeper(steps)[s][known].ok
            BY DEF NoDeeper, Colours
        <3> QED BY <3>1 DEF SoundFor, Blackens
    <2> QED BY <1>2, <1>3, <2>1 DEF SoundVisit
<1>5. ASSUME NEW n \in 1..N, n - 1 \in T PROVE n \in T
    <2>1. n - 1 \in 0..N /\ n \in 0..N
        BY <1>3
    <2>2. f[n - 1] \in VisitSet(steps) /\ SoundVisit(steps, deps, f[n - 1])
        BY <1>2, <1>5, <2>1
    <2>3. SoundVisit(steps, deps, Visit(steps, deps, f[n - 1]))
        BY <2>2, SoundDeeper
    <2> QED BY <1>2, <2>1, <2>3
<1>6. SoundVisit(steps, deps, Visits(steps, deps)) /\ Visits(steps, deps) \in VisitSet(steps)
    <2>1. \A k \in 0..N : k \in T
        <3> HIDE DEF T, N
        <3> QED BY <1>3, <1>4, <1>5, UpTo
    <2> QED BY <1>2, <1>3, <2>1
<1>7. PICK r : r = VisitEach(steps, Visits(steps, deps), ToSet(steps), Clean)
    OBVIOUS
<1>8. Clean \in Colours(steps) /\ Sane(deps, Clean)
    BY DEF Clean, Colours, Sane
<1>9. Blackens(deps, Clean, r) /\ (r.ok => \A s \in ToSet(steps) : s \in ToSet(steps) => s \in r.black)
    BY <1>6, <1>7, <1>8, SoundEach
<1>10. r.ok
    BY <1>7 DEF CheckCycles
<1>11. ToSet(steps) \subseteq r.black /\ Sane(deps, r)
    BY <1>9, <1>10 DEF Blackens
<1>12. ASSUME NEW knot \in (SUBSET ToSet(steps)) \ {{}} PROVE \E s \in knot : deps[s] \cap knot = {}
    BY <1>10, <1>11 DEF Sane
<1> QED BY <1>12 DEF Cyclic

\* A visit meets no step of its own path when steps wait for lower ones only.
Lower(deps, rank, n, s, known) == known.ok /\ rank[s] <= n /\ \A g \in known.grey : rank[s] < rank[g]
GoesVisit(steps, deps, rank, n, visit) ==
    \A s \in ToSet(steps) : \A known \in Colours(steps) :
      Lower(deps, rank, n, s, known) => visit[s][known].ok /\ visit[s][known].grey = known.grey

LEMMA GoesEach ==
    ASSUME NEW X, NEW steps \in Seq(X), NEW deps, NEW visit \in VisitSet(steps), NEW rank, NEW n,
           GoesVisit(steps, deps, rank, n, visit), NEW wanted,
           NEW known \in Colours(steps), known.ok,
           \A s \in ToSet(steps) : s \in wanted => Lower(deps, rank, n, s, known),
           NEW r, r = VisitEach(steps, visit, wanted, known)
    PROVE  r.ok /\ r.grey = known.grey
<1> DEFINE N == Len(steps)
<1>1. PICK f : Visited(steps, visit, wanted, known, f)
    BY VisitedRounds
<1>2. /\ f \in [0..N -> Colours(steps)] /\ f[0] = known /\ r = f[N]
      /\ \A k \in 1..N : f[k] = IF steps[k] \in wanted THEN visit[steps[k]][f[k - 1]] ELSE f[k - 1]
    BY <1>1 DEF Visited
<1>3. N \in Nat /\ N \in 0..N
    OBVIOUS
<1> DEFINE T == {k \in 0..N : f[k].ok /\ f[k].grey = known.grey}
<1>4. 0 \in T
    BY <1>2, <1>3
<1>5. ASSUME NEW k \in 1..N, k - 1 \in T PROVE k \in T
    <2>1. k - 1 \in 0..N /\ k \in 0..N /\ steps[k] \in ToSet(steps)
        BY <1>3 DEF ToSet
    <2>2. PICK p \in Colours(steps) : p = f[k - 1]
        BY <1>2, <2>1
    <2>3. p.ok /\ p.grey = known.grey
        BY <1>5, <2>2
    <2>4. CASE steps[k] \in wanted
        <3>1. Lower(deps, rank, n, steps[k], p)
            BY <2>1, <2>3, <2>4 DEF Lower
        <3>2. f[k] = visit[steps[k]][p]
            BY <1>2, <2>2, <2>4
        <3>3. visit[steps[k]][p].ok /\ visit[steps[k]][p].grey = p.grey
            BY <2>1, <3>1 DEF GoesVisit
        <3> QED BY <2>1, <2>3, <3>2, <3>3
    <2>5. CASE steps[k] \notin wanted
        BY <1>2, <2>1, <2>2, <2>3, <2>5
    <2> QED BY <2>4, <2>5
<1>6. N \in T
    <2> HIDE DEF T, N
    <2>1. \A k \in 0..N : k \in T
        BY <1>3, <1>4, <1>5, UpTo
    <2> QED BY <1>3, <2>1
<1> QED BY <1>2, <1>6

Ranks(steps, deps, rank) ==
    /\ rank \in [ToSet(steps) -> 1..Len(steps)]
    /\ \A s \in ToSet(steps) : \A d \in deps[s] : rank[d] < rank[s]
LEMMA GoesDeeper ==
    ASSUME NEW X, NEW steps \in Seq(X), NEW deps \in [ToSet(steps) -> SUBSET ToSet(steps)],
           NEW rank, Ranks(steps, deps, rank), NEW n \in 1..Len(steps),
           NEW visit \in VisitSet(steps), GoesVisit(steps, deps, rank, n - 1, visit)
    PROVE  GoesVisit(steps, deps, rank, n, Visit(steps, deps, visit))
<1>1. SUFFICES ASSUME NEW s \in ToSet(steps), NEW known \in Colours(steps), Lower(deps, rank, n, s, known),
                      NEW r, r = Visit(steps, deps, visit)[s][known]
               PROVE  r.ok /\ r.grey = known.grey
    BY DEF GoesVisit
<1>r. /\ \A x \in ToSet(steps) : rank[x] \in Nat
      /\ \A d \in deps[s] : d \in ToSet(steps) /\ rank[d] < rank[s]
      /\ n \in Nat /\ Len(steps) \in Nat /\ known.grey \subseteq ToSet(steps)
    BY DEF Ranks, Colours
<1>2. known.ok /\ rank[s] <= n /\ \A g \in known.grey : rank[s] < rank[g]
    BY <1>1 DEF Lower
<1>3. s \notin known.grey
    BY <1>2, <1>r
<1>4. CASE s \in known.black
    <2>1. r = known
        BY <1>1, <1>4, VisitCases
    <2> QED BY <1>2, <2>1
<1>5. CASE s \notin known.black
    <2>1. PICK g : g = Greyer(known, s)
        OBVIOUS
    <2>2. g \in Colours(steps) /\ g.ok = known.ok /\ g.grey = known.grey \cup {s}
        BY <2>1, ColourTypes
    <2>3. PICK b : b = VisitEach(steps, visit, deps[s], g)
        OBVIOUS
    <2>4. b \in Colours(steps)
        BY <2>2, <2>3, VisitEachTypes
    <2>5. r = Blacker(b, s)
        BY <1>1, <1>2, <1>3, <1>5, <2>1, <2>3, VisitCases
    <2>6. r.ok = b.ok /\ r.grey = b.grey \ {s}
        BY <2>4, <2>5, ColourTypes
    <2>7. ASSUME NEW d \in ToSet(steps), d \in deps[s] PROVE Lower(deps, rank, n - 1, d, g)
        <3>1. rank[d] \in Nat /\ rank[s] \in Nat /\ rank[d] < rank[s]
            BY <1>r, <2>7
        <3>2. rank[d] <= n - 1
            BY <1>2, <1>r, <3>1
        <3>3. ASSUME NEW x \in known.grey PROVE rank[d] < rank[x]
            BY <1>2, <1>r, <3>1
        <3> QED BY <1>2, <2>2, <3>1, <3>2, <3>3 DEF Lower
    <2>8. b.ok /\ b.grey = g.grey
        <3>1. PICK m : m = n - 1
            OBVIOUS
        <3>2. GoesVisit(steps, deps, rank, m, visit)
            BY <3>1
        <3>3. \A d \in ToSet(steps) : d \in deps[s] => Lower(deps, rank, m, d, g)
            BY <2>7, <3>1
        <3>4. PICK wanted : wanted = deps[s]
            OBVIOUS
        <3>5. \A d \in ToSet(steps) : d \in wanted => Lower(deps, rank, m, d, g)
            BY <3>3, <3>4
        <3>6. g.ok /\ b = VisitEach(steps, visit, wanted, g)
            BY <1>2, <2>2, <2>3, <3>4
        <3> QED BY <2>2, <3>2, <3>5, <3>6, GoesEach
    <2> QED BY <1>3, <2>2, <2>6, <2>8
<1> QED BY <1>4, <1>5

\* check_cycles lets in what can be ranked.
LEMMA RankedIsAccepted ==
    ASSUME NEW X, NEW steps \in Seq(X), NEW deps \in [ToSet(steps) -> SUBSET ToSet(steps)],
           NEW rank, Ranks(steps, deps, rank)
    PROVE  CheckCycles(steps, deps)
<1> DEFINE N == Len(steps)
<1>1. PICK f : Deepens(steps, deps, f)
    BY DeepRounds
<1>2. /\ f \in [0..N -> VisitSet(steps)] /\ f[0] = NoDeeper(steps) /\ Visits(steps, deps) = f[N]
      /\ \A n \in 1..N : f[n] = Visit(steps, deps, f[n - 1])
    BY <1>1 DEF Deepens
<1>3. N \in Nat /\ N \in 0..N
    OBVIOUS
<1> DEFINE T == {n \in 0..N : GoesVisit(steps, deps, rank, n, f[n])}
<1>4. 0 \in T
    <2>1. \A s \in ToSet(steps) : ~(rank[s] <= 0)
        BY DEF Ranks
    <2> QED BY <1>3, <2>1 DEF GoesVisit, Lower
<1>5. ASSUME NEW n \in 1..N, n - 1 \in T PROVE n \in T
    <2>1. n - 1 \in 0..N /\ n \in 0..N
        BY <1>3
    <2>2. f[n - 1] \in VisitSet(steps) /\ GoesVisit(steps, deps, rank, n - 1, f[n - 1])
        BY <1>2, <1>5, <2>1
    <2>3. GoesVisit(steps, deps, rank, n, Visit(steps, deps, f[n - 1]))
        BY <2>2, GoesDeeper
    <2> QED BY <1>2, <2>1, <2>3
<1>6. GoesVisit(steps, deps, rank, N, Visits(steps, deps)) /\ Visits(steps, deps) \in VisitSet(steps)
    <2>1. \A k \in 0..N : k \in T
        <3> HIDE DEF T, N
        <3> QED BY <1>3, <1>4, <1>5, UpTo
    <2> QED BY <1>2, <1>3, <2>1
<1>7. Clean \in Colours(steps) /\ Clean.ok /\ Clean.grey = {}
    BY DEF Clean, Colours
<1>8. \A s \in ToSet(steps) : Lower(deps, rank, N, s, Clean)
    BY <1>7 DEF Lower, Ranks
<1>9. PICK r : r = VisitEach(steps, Visits(steps, deps), ToSet(steps), Clean)
    OBVIOUS
<1>10. r.ok
    BY <1>6, <1>7, <1>8, <1>9, GoesEach
<1> QED BY <1>9, <1>10 DEF CheckCycles

-------------------------------------------------------------------------------
(* _topo places every step unless some wait for each other.                  *)

\* What looking at one step does to an order.
Grows(o, p, s) == p = o \/ (s \notin ToSet(o) /\ p = Append(o, s))
LEMMA PlacedGrows ==
    ASSUME NEW X, NEW steps \in Seq(X), NEW deps \in [ToSet(steps) -> SUBSET ToSet(steps)],
           NEW o \in Seq(ToSet(steps)), NEW s \in ToSet(steps), NEW p, p = Placed(steps, deps, s)[o]
    PROVE  Grows(o, p, s) /\ (deps[s] \subseteq ToSet(o) => s \in ToSet(o) \/ p = Append(o, s))
<1>1. p = IF s \notin ToSet(o) /\ deps[s] \cap ToSet(steps) \subseteq ToSet(o)
          THEN Append(o, s) ELSE o
    BY DEF Placed
<1> QED BY <1>1 DEF Grows

LEMMA GrowsFacts ==
    ASSUME NEW S, NEW o \in Seq(S), NEW s \in S, NEW p, Grows(o, p, s)
    PROVE  /\ p \in Seq(S) /\ ToSet(o) \subseteq ToSet(p)
           /\ p = o \/ (Len(p) = Len(o) + 1 /\ s \in ToSet(p))
           /\ IsInjective(o) => IsInjective(p)
<1>1. CASE p = o
    BY <1>1
<1>2. CASE p = Append(o, s) /\ s \notin ToSet(o)
    <2>1. /\ p \in Seq(S) /\ Len(o) \in Nat /\ Len(p) = Len(o) + 1
          /\ DOMAIN p = 1..(Len(o) + 1) /\ DOMAIN o = 1..Len(o)
          /\ p[Len(o) + 1] = s /\ \A j \in 1..Len(o) : p[j] = o[j]
        BY <1>2
    <2>2. ToSet(o) \subseteq ToSet(p) /\ s \in ToSet(p)
        BY <2>1 DEF ToSet
    <2>3. \A j \in 1..Len(o) : o[j] # s
        BY <1>2, <2>1 DEF ToSet
    <2>4. ASSUME IsInjective(o), NEW i \in 1..(Len(o) + 1), NEW j \in 1..(Len(o) + 1), p[i] = p[j]
          PROVE  i = j
        <3>1. CASE i \in 1..Len(o) /\ j \in 1..Len(o)
            BY <2>1, <2>4, <3>1 DEF IsInjective
        <3>2. CASE i = Len(o) + 1
            BY <2>1, <2>3, <2>4, <3>2
        <3>3. CASE j = Len(o) + 1
            BY <2>1, <2>3, <2>4, <3>3
        <3> QED BY <2>1, <3>1, <3>2, <3>3
    <2>5. IsInjective(o) => IsInjective(p)
        BY <2>1, <2>4 DEF IsInjective
    <2> QED BY <2>1, <2>2, <2>5
<1> QED BY <1>1, <1>2 DEF Grows

LEMMA GrowsInto ==
    ASSUME NEW S, NEW o \in Seq(S), NEW s \in S, NEW p, Grows(o, p, s)
    PROVE  ToSet(o) \subseteq ToSet(p)
BY GrowsFacts

LEMMA PassGrows ==
    ASSUME NEW X, NEW steps \in Seq(X), NEW deps \in [ToSet(steps) -> SUBSET ToSet(steps)],
           ~Cyclic(steps, deps), NEW o \in Seq(ToSet(steps)), IsInjective(o),
           NEW p, p = Pass(steps, deps, o)
    PROVE  /\ IsInjective(p) /\ p \in Seq(ToSet(steps)) /\ Len(o) <= Len(p)
           /\ ToSet(o) \subseteq ToSet(p)
           /\ ToSet(o) # ToSet(steps) => Len(p) > Len(o)
<1> DEFINE N == Len(steps)
           S == Seq(ToSet(steps))
<1>p. PICK f : Looks(steps, deps, o, f)
    BY PassRounds
<1>1. /\ f \in [0..N -> S] /\ f[0] = o /\ p = f[N]
      /\ \A k \in 1..N : f[k] = Placed(steps, deps, steps[k])[f[k - 1]]
    BY <1>p DEF Looks
<1>2. N \in Nat /\ N \in 0..N /\ ToSet(steps) = {steps[k] : k \in 1..N}
    BY DEF ToSet
<1> DEFINE Kept(k) == /\ IsInjective(f[k]) /\ ToSet(o) \subseteq ToSet(f[k])
                      /\ f[k] = o \/ Len(f[k]) > Len(o)
           T == {k \in 0..N : Kept(k)}
<1>3. 0 \in T
    BY <1>1, <1>2
<1>4. ASSUME NEW k \in 1..N
      PROVE  /\ f[k - 1] \in S /\ f[k] \in S /\ steps[k] \in ToSet(steps)
             /\ Grows(f[k - 1], f[k], steps[k])
             /\ deps[steps[k]] \subseteq ToSet(f[k - 1]) =>
                  steps[k] \in ToSet(f[k - 1]) \/ f[k] = Append(f[k - 1], steps[k])
    <2>1. k - 1 \in 0..N /\ k \in 0..N /\ steps[k] \in ToSet(steps)
        BY <1>2
    <2>2. f[k - 1] \in S /\ f[k] \in S
        BY <1>1, <2>1
    <2>3. PICK s \in ToSet(steps) : s = steps[k]
        BY <2>1
    <2>4. f[k] = Placed(steps, deps, s)[f[k - 1]]
        BY <1>1, <2>3
    <2>5. /\ Grows(f[k - 1], f[k], s)
          /\ deps[s] \subseteq ToSet(f[k - 1]) => s \in ToSet(f[k - 1]) \/ f[k] = Append(f[k - 1], s)
        <3>1. PICK a \in S : a = f[k - 1]
            BY <2>2
        <3>2. PICK b \in S : b = f[k]
            BY <2>2
        <3>3. b = Placed(steps, deps, s)[a]
            BY <2>4, <3>1, <3>2
        <3>4. Grows(a, b, s) /\ (deps[s] \subseteq ToSet(a) => s \in ToSet(a) \/ b = Append(a, s))
            BY <3>3, PlacedGrows
        <3> QED BY <3>1, <3>2, <3>4
    <2> QED BY <2>1, <2>2, <2>3, <2>5
<1>5. ASSUME NEW k \in 1..N, k - 1 \in T PROVE k \in T
    <2>1. PICK a \in S : a = f[k - 1]
        BY <1>4
    <2>2. PICK b \in S : b = f[k]
        BY <1>4
    <2>3. PICK s \in ToSet(steps) : s = steps[k]
        BY <1>4
    <2>4. IsInjective(a) /\ ToSet(o) \subseteq ToSet(a) /\ (a = o \/ Len(a) > Len(o))
        BY <1>5, <2>1
    <2>5. Grows(a, b, s)
        BY <1>4, <2>1, <2>2, <2>3
    <2>6. ToSet(a) \subseteq ToSet(b) /\ IsInjective(b) /\ (b = a \/ Len(b) = Len(a) + 1)
        BY <2>4, <2>5, GrowsFacts
    <2>7. Len(a) \in Nat /\ Len(b) \in Nat /\ Len(o) \in Nat
        BY <2>1, <2>2
    <2>8. b = o \/ Len(b) > Len(o)
        BY <2>4, <2>6, <2>7
    <2> QED BY <1>2, <2>2, <2>4, <2>6, <2>8
<1>6. \A k \in 0..N : k \in T
    <2> HIDE DEF T, N
    <2> QED BY <1>2, <1>3, <1>5, UpTo
<1>7. ASSUME ToSet(o) # ToSet(steps) PROVE p # o
    <2> DEFINE rest == ToSet(steps) \ ToSet(o)
    <2>1. rest # {}
        BY <1>7 DEF ToSet
    <2>2. PICK s \in rest : deps[s] \cap rest = {}
        BY <2>1 DEF Cyclic
    <2>3. deps[s] \subseteq ToSet(o)
        BY <2>2
    <2>4. PICK k \in 1..N : s = steps[k]
        BY <1>2
    <2>5. k - 1 \in T /\ k \in 0..N
        BY <1>2, <1>6
    <2>6. deps[steps[k]] \subseteq ToSet(f[k - 1])
        BY <2>3, <2>4, <2>5
    <2>7. steps[k] \in ToSet(f[k])
        <3>1. CASE steps[k] \in ToSet(f[k - 1])
            <4>1. ToSet(f[k - 1]) \subseteq ToSet(f[k])
                BY <1>4, GrowsInto
            <4> QED BY <3>1, <4>1
        <3>2. CASE f[k] = Append(f[k - 1], steps[k])
            <4>1. PICK a \in S : a = f[k - 1]
                BY <1>4
            <4>2. PICK s2 \in ToSet(steps) : s2 = steps[k]
                BY <1>4
            <4>3. s2 \in ToSet(Append(a, s2))
                <5>1. Append(a, s2) \in Seq(ToSet(steps)) /\ Append(a, s2)[Len(a) + 1] = s2
                      /\ Len(a) + 1 \in DOMAIN Append(a, s2)
                    OBVIOUS
                <5> QED BY <5>1 DEF ToSet
            <4> QED BY <3>2, <4>1, <4>2, <4>3
        <3> QED BY <1>4, <2>6, <3>1, <3>2
    <2> DEFINE Later == {j \in 0..N : j < k \/ steps[k] \in ToSet(f[j])}
    <2>8. 0 \in Later
        BY <1>2
    <2>9. ASSUME NEW j \in 1..N, j - 1 \in Later PROVE j \in Later
        <3>1. CASE j < k
            BY <1>2, <3>1
        <3>2. CASE j = k
            BY <1>2, <2>7, <3>2
        <3>3. CASE j > k
            <4>1. steps[k] \in ToSet(f[j - 1])
                BY <1>2, <2>9, <3>3
            <4>2. ToSet(f[j - 1]) \subseteq ToSet(f[j])
                BY <1>4, GrowsInto
            <4> QED BY <1>2, <4>1, <4>2
        <3> QED BY <3>1, <3>2, <3>3
    <2>10. N \in Later
        <3> HIDE DEF Later, N
        <3>1. \A j \in 0..N : j \in Later
            BY <1>2, <2>8, <2>9, UpTo
        <3> QED BY <1>2, <3>1
    <2>11. s \in ToSet(p)
        BY <1>1, <1>2, <2>4, <2>10
    <2> QED BY <2>2, <2>11
<1>8. N \in T
    BY <1>2, <1>6
<1>9. p \in S /\ IsInjective(p) /\ ToSet(o) \subseteq ToSet(p) /\ (p = o \/ Len(p) > Len(o))
    BY <1>1, <1>2, <1>8
<1>10. Len(o) \in Nat /\ Len(p) \in Nat
    BY <1>9
<1> HIDE DEF S, T
<1> QED BY <1>7, <1>9, <1>10 DEF S

\* An order without repetitions has as many places as it has steps.
LEMMA LengthOfDistinct ==
    ASSUME NEW X, NEW steps \in Seq(X), IsInjective(steps), NEW o \in Seq(ToSet(steps)), IsInjective(o)
    PROVE  Len(o) <= Len(steps) /\ (Len(o) = Len(steps) <=> ToSet(o) = ToSet(steps))
<1> DEFINE T == ToSet(steps)
           N == Len(steps)
           M == Len(o)
<1>1. /\ N \in Nat /\ DOMAIN steps = 1..N /\ M \in Nat /\ DOMAIN o = 1..M
      /\ T = {steps[i] : i \in 1..N} /\ ToSet(o) = {o[i] : i \in 1..M}
      /\ \A i \in 1..M : o[i] \in T
    BY DEF ToSet
<1>2. IsFiniteSet(1..N) /\ Cardinality(1..N) = N /\ IsFiniteSet(1..M) /\ Cardinality(1..M) = M
    <2>1. ASSUME NEW n \in Nat PROVE IsFiniteSet(1..n) /\ Cardinality(1..n) = n
        <3>1. PICK one \in Int : one = 1
            OBVIOUS
        <3>2. n \in Int /\ IsFiniteSet(one..n)
              /\ Cardinality(one..n) = IF one > n THEN 0 ELSE n - one + 1
            BY FS_Interval
        <3> QED BY <3>1, <3>2
    <2> QED BY <1>1, <2>1
<1>3. steps \in Surjection(1..N, T) /\ steps \in Injection(1..N, T)
    <2>1. steps \in [1..N -> T]
        BY <1>1
    <2> QED BY <1>1, <2>1 DEF Surjection, Injection, IsInjective
<1>4. IsFiniteSet(T) /\ Cardinality(T) = N
    <2> HIDE DEF T
    <2> QED BY <1>2, <1>3, FS_Surjection
<1>5. o \in Injection(1..M, T)
    <2>1. o \in [1..M -> T]
        BY <1>1
    <2> QED BY <1>1, <2>1 DEF Injection, IsInjective
<1>6. M <= N /\ (M = N <=> o \in Surjection(1..M, T))
    <2> HIDE DEF T
    <2> QED BY <1>2, <1>4, <1>5, FS_Injection
<1>7. o \in Surjection(1..M, T) <=> ToSet(o) = T
    <2>1. o \in [1..M -> T] /\ ToSet(o) \subseteq T
        BY <1>1, <1>5 DEF Injection
    <2>2. o \in Surjection(1..M, T) <=> \A t \in T : \E i \in 1..M : o[i] = t
        BY <2>1 DEF Surjection
    <2>3. T \subseteq ToSet(o) <=> \A t \in T : \E i \in 1..M : o[i] = t
        <3> HIDE DEF T
        <3> QED BY <1>1
    <2> QED BY <2>1, <2>2, <2>3
<1> QED BY <1>6, <1>7

LEMMA TopoCompletes ==
    ASSUME NEW X, NEW steps \in Seq(X), IsInjective(steps),
           NEW deps \in [ToSet(steps) -> SUBSET ToSet(steps)], ~Cyclic(steps, deps)
    PROVE  Complete(Topo(steps, deps), steps)
<1> DEFINE N == Len(steps)
           S == Seq(ToSet(steps))
<1>p. PICK f : Passes(steps, deps, f)
    BY TopoRounds
<1>1. /\ f \in [0..N -> S]
      /\ f[0] = << >> /\ Topo(steps, deps) = f[N]
      /\ \A k \in 1..N : f[k] = Pass(steps, deps, f[k - 1])
    BY <1>p DEF Passes
<1>2. N \in Nat /\ N \in 0..N
    OBVIOUS
<1> DEFINE Kept(k) == IsInjective(f[k]) /\ (Len(f[k]) >= k \/ ToSet(f[k]) = ToSet(steps))
           T == {k \in 0..N : Kept(k)}
<1>3. 0 \in T
    BY <1>1, <1>2 DEF IsInjective
<1>4. ASSUME NEW k \in 1..N, k - 1 \in T PROVE k \in T
    <2>1. k - 1 \in 0..N /\ k \in 0..N
        BY <1>2
    <2>2. PICK a \in S : a = f[k - 1]
        BY <1>1, <2>1
    <2>3. PICK b \in S : b = f[k]
        BY <1>1, <2>1
    <2>4. IsInjective(a) /\ (Len(a) >= k - 1 \/ ToSet(a) = ToSet(steps)) /\ b = Pass(steps, deps, a)
        BY <1>1, <1>4, <2>2, <2>3
    <2>5. IsInjective(b) /\ ToSet(a) \subseteq ToSet(b) /\ (ToSet(a) # ToSet(steps) => Len(b) > Len(a))
        BY <2>4, PassGrows
    <2>6. ToSet(b) \subseteq ToSet(steps) /\ Len(a) \in Nat /\ Len(b) \in Nat
        BY DEF ToSet
    <2>7. Len(b) >= k \/ ToSet(b) = ToSet(steps)
        <3>1. CASE ToSet(a) = ToSet(steps)
            BY <2>5, <2>6, <3>1
        <3>2. CASE ToSet(a) # ToSet(steps)
            BY <1>2, <2>4, <2>5, <2>6, <3>2
        <3> QED BY <3>1, <3>2
    <2> QED BY <2>1, <2>3, <2>5, <2>7
<1>5. N \in T
    <2> HIDE DEF T, N
    <2>1. \A k \in 0..N : k \in T
        BY <1>2, <1>3, <1>4, UpTo
    <2> QED BY <1>2, <2>1
<1>6. PICK o \in S : o = Topo(steps, deps)
    BY <1>1, <1>2
<1>7. IsInjective(o) /\ (Len(o) >= N \/ ToSet(o) = ToSet(steps))
    BY <1>1, <1>5, <1>6
<1>8. Len(o) <= N /\ (Len(o) = N <=> ToSet(o) = ToSet(steps)) /\ Len(o) \in Nat
    BY <1>7, LengthOfDistinct
<1> QED BY <1>2, <1>6, <1>7, <1>8 DEF Complete

\* An order that has every step behind what it waits for ranks the steps.
LEMMA OrderRanks ==
    ASSUME NEW X, NEW steps \in Seq(X), NEW deps \in [ToSet(steps) -> SUBSET ToSet(steps)],
           NEW o \in Seq(ToSet(steps)), Complete(o, steps), DependenciesFirst(o, deps)
    PROVE  \E rank : Ranks(steps, deps, rank)
<1> DEFINE N == Len(steps)
           places(s) == {i \in 1..N : o[i] = s}
           first(s) == CHOOSE i \in places(s) : \A j \in places(s) : i <= j
           rank == [s \in ToSet(steps) |-> first(s)]
<1>1. N \in Nat /\ Len(o) = N /\ DOMAIN o = 1..N /\ ToSet(steps) = {o[i] : i \in 1..N}
    <2>1. N \in Nat /\ Len(o) = N /\ DOMAIN o = 1..N
        BY DEF Complete
    <2>2. ToSet(steps) = ToSet(o)
        BY DEF Complete
    <2>3. ToSet(o) = {o[i] : i \in 1..N}
        BY <2>1 DEF ToSet
    <2> QED BY <2>1, <2>2, <2>3
<1>2. ASSUME NEW s \in ToSet(steps)
      PROVE  first(s) \in 1..N /\ o[first(s)] = s /\ \A j \in 1..N : o[j] = s => first(s) <= j
    <2>1. places(s) \in SUBSET Nat /\ places(s) # {}
        <3>1. PICK i \in 1..N : o[i] = s
            BY <1>1
        <3>2. i \in places(s)
            BY <3>1
        <3> QED BY <3>2
    <2>2. \E i \in places(s) : \A j \in places(s) : i <= j
        <3> HIDE DEF places
        <3> QED BY <2>1, Smallest
    <2>3. first(s) \in places(s) /\ \A j \in places(s) : first(s) <= j
        <3> HIDE DEF places
        <3> QED BY <2>2
    <2> HIDE DEF first
    <2> QED BY <2>3
<1> HIDE DEF first
<1>3. ASSUME NEW s \in ToSet(steps), NEW d \in deps[s] PROVE rank[d] < rank[s]
    <2>1. d \in ToSet(steps)
        BY <1>3
    <2>2. PICK i \in 1..N : i = first(s) /\ o[i] = s
        BY <1>2
    <2>3. PICK j \in 1..(i - 1) : d = o[j]
        <3>1. i \in DOMAIN o
            BY <1>1
        <3>2. deps[o[i]] \subseteq {o[k] : k \in 1..(i - 1)}
            BY <3>1 DEF DependenciesFirst
        <3> QED BY <2>2, <3>2
    <2>4. j \in 1..N /\ first(d) <= j /\ first(d) \in 1..N
        BY <1>1, <1>2, <2>1, <2>3
    <2>5. first(d) < i
        BY <1>1, <2>3, <2>4
    <2> QED BY <2>1, <2>2, <2>5
<1>4. rank \in [ToSet(steps) -> 1..N]
    BY <1>2
<1> HIDE DEF rank
<1> QED BY <1>3, <1>4 DEF Ranks

\* engine.py:214-238 and 619-634: what the depth-first search of check_cycles
\* accepts is what the passes of _topo put in order completely, and that are the
\* graphs in which no steps wait for each other, of any size.
THEOREM CheckAgreesWithOrder ==
    ASSUME NEW X, NEW steps \in Seq(X), IsInjective(steps),
           NEW deps \in [ToSet(steps) -> SUBSET ToSet(steps)]
    PROVE  /\ CheckCycles(steps, deps) <=> Complete(Topo(steps, deps), steps)
           /\ CheckCycles(steps, deps) <=> ~Cyclic(steps, deps)
<1>1. CheckCycles(steps, deps) => ~Cyclic(steps, deps)
    BY AcceptedHasNoCycle
<1>2. ~Cyclic(steps, deps) => Complete(Topo(steps, deps), steps)
    BY TopoCompletes
<1>3. ASSUME Complete(Topo(steps, deps), steps) PROVE CheckCycles(steps, deps)
    <2>1. PICK o : o = Topo(steps, deps)
        OBVIOUS
    <2>2. o \in Seq(ToSet(steps)) /\ DependenciesFirst(o, deps) /\ Complete(o, steps)
        BY <1>3, <2>1, TopoInOrder
    <2>3. PICK rank : Ranks(steps, deps, rank)
        BY <2>2, OrderRanks
    <2> QED BY <2>3, RankedIsAccepted
<1> QED BY <1>1, <1>2, <1>3

-------------------------------------------------------------------------------
(* What is stored, and what was refused.                                     *)

Judged(c) ==
    /\ client[c] \in {"probe", "write"} => Normalize(wants[c])
    /\ client[c] = "refused" => ~Normalize(wants[c])
DefinitionsInv ==
    /\ DefinitionsTypeOK
    /\ \A i \in InTable : CheckCycles(Listed, defs[i].deps)
    /\ \A c \in Clients : Judged(c)

LEMMA DefinitionsInit ==
    ASSUME DefinitionsAssumption, NoDefinitions
    PROVE  DefinitionsInv
<1>1. DefinitionsTypeOK
    BY DEF DefinitionsAssumption, NoDefinitions, DefinitionsTypeOK, Names, NoSteps
<1>2. InTable = {}
    BY DEF InTable, NoDefinitions
<1> QED BY <1>1, <1>2 DEF DefinitionsInv, Judged, NoDefinitions

\* A client whose call ends is idle, and nothing else changes.
LEMMA DoneKeeps ==
    ASSUME DefinitionsAssumption, DefinitionsInv, NEW c \in Clients, Done(c)
    PROVE  /\ client' \in [Clients -> {"idle", "probe", "write", "refused", "taken", "failed"}]
           /\ target' \in [Clients -> DefinitionIds \cup {NoRow}]
           /\ name' \in [Clients -> Names]
           /\ wants' \in [Clients -> [ListedSteps -> SUBSET (ListedSteps \cup {Unknown})]]
           /\ \A d \in Clients : Judged(d)'
<1>1. DefinitionsTypeOK /\ \A d \in Clients : Judged(d)
    BY DEF DefinitionsInv
<1>2. /\ client' \in [Clients -> {"idle", "probe", "write", "refused", "taken", "failed"}]
      /\ target' \in [Clients -> DefinitionIds \cup {NoRow}]
    BY <1>1 DEF Done, DefinitionsTypeOK
<1>3. name' \in [Clients -> Names]
    BY <1>1 DEF Done, DefinitionsTypeOK, DefinitionsAssumption, Names
<1>4. wants' \in [Clients -> [ListedSteps -> SUBSET (ListedSteps \cup {Unknown})]]
    BY <1>1 DEF Done, DefinitionsTypeOK, NoSteps
<1>5. ASSUME NEW d \in Clients PROVE Judged(d)'
    <2>1. CASE d = c
        <3>1. client'[c] = "idle"
            BY <1>1 DEF Done, DefinitionsTypeOK
        <3> QED BY <2>1, <3>1 DEF Judged
    <2>2. CASE d # c
        <3>1. client'[d] = client[d] /\ wants'[d] = wants[d]
            BY <1>1, <2>2 DEF Done, DefinitionsTypeOK
        <3> QED BY <1>1, <3>1 DEF Judged
    <2> QED BY <2>1, <2>2
<1> QED BY <1>2, <1>3, <1>4, <1>5

LEMMA SubmitKeeps ==
    ASSUME DefinitionsAssumption, DefinitionsInv, NEW c \in Clients, NEW graph \in Submitted[c],
           NEW n \in {1, 2} \cap Names, NEW t \in DefinitionIds \cup {NoRow}, Submit(c, graph, n, t)
    PROVE  DefinitionsInv'
<1>1. /\ DefinitionsTypeOK /\ \A d \in Clients : Judged(d)
      /\ graph \in [ListedSteps -> SUBSET (ListedSteps \cup {Unknown})]
    BY DEF DefinitionsInv, DefinitionsAssumption
<1>2. DefinitionsTypeOK'
    BY <1>1 DEF Submit, DefinitionsTypeOK
<1>3. ASSUME NEW d \in Clients PROVE Judged(d)'
    <2>1. CASE d = c
        <3>1. wants'[c] = graph /\ client'[c] = IF Normalize(graph) THEN "probe" ELSE "refused"
            BY <1>1 DEF Submit, DefinitionsTypeOK
        <3> QED BY <2>1, <3>1 DEF Judged
    <2>2. CASE d # c
        <3>1. client'[d] = client[d] /\ wants'[d] = wants[d]
            BY <1>1, <2>2 DEF Submit, DefinitionsTypeOK
        <3> QED BY <1>1, <3>1 DEF Judged
    <2> QED BY <2>1, <2>2
<1>4. \A i \in InTable' : CheckCycles(Listed, defs'[i].deps)
    BY DEF DefinitionsInv, InTable, Submit
<1> QED BY <1>2, <1>3, <1>4 DEF DefinitionsInv

LEMMA ProbeKeeps ==
    ASSUME DefinitionsAssumption, DefinitionsInv, NEW c \in Clients, Probe(c)
    PROVE  DefinitionsInv'
<1>1. DefinitionsTypeOK /\ \A d \in Clients : Judged(d)
    BY DEF DefinitionsInv
<1>2. /\ wants' = wants /\ target' = target /\ defs' = defs
      /\ \/ name' = name /\ \E o \in {"write", "taken"} : client' = [client EXCEPT ![c] = o]
         \/ name' = [name EXCEPT ![c] = @ + 1] /\ name[c] < MaxSuffix /\ client' = client
    BY DEF Probe, Answer
<1>3. DefinitionsTypeOK'
    <2>1. client' \in [Clients -> {"idle", "probe", "write", "refused", "taken", "failed"}]
        BY <1>1, <1>2 DEF DefinitionsTypeOK
    <2>2. name' \in [Clients -> Names]
        BY <1>1, <1>2 DEF DefinitionsTypeOK, DefinitionsAssumption, Names
    <2> QED BY <1>1, <1>2, <2>1, <2>2 DEF DefinitionsTypeOK
<1>4. ASSUME NEW d \in Clients PROVE Judged(d)'
    <2>1. CASE client' = client
        BY <1>1, <1>2, <2>1 DEF Judged
    <2>2. CASE \E o \in {"write", "taken"} : client' = [client EXCEPT ![c] = o]
        <3>1. client'[c] \in {"write", "taken"} /\ (d # c => client'[d] = client[d])
            BY <1>1, <2>2 DEF DefinitionsTypeOK
        <3>2. Normalize(wants[c])
            BY <1>1 DEF Judged, Probe
        <3> QED BY <1>1, <1>2, <3>1, <3>2 DEF Judged
    <2> QED BY <1>2, <2>1, <2>2
<1>5. \A i \in InTable' : CheckCycles(Listed, defs'[i].deps)
    BY <1>2 DEF DefinitionsInv, InTable
<1> QED BY <1>3, <1>4, <1>5 DEF DefinitionsInv

LEMMA WriteKeeps ==
    ASSUME DefinitionsAssumption, DefinitionsInv, NEW c \in Clients, Write(c)
    PROVE  DefinitionsInv'
<1>1. DefinitionsTypeOK /\ \A d \in Clients : Judged(d)
    BY DEF DefinitionsInv
<1>2. CASE Answer(c, "failed") /\ UNCHANGED defs
    <2>1. DefinitionsTypeOK'
        BY <1>1, <1>2 DEF Answer, DefinitionsTypeOK
    <2>2. ASSUME NEW d \in Clients PROVE Judged(d)'
        <3>1. client'[c] = "failed" /\ (d # c => client'[d] = client[d]) /\ wants' = wants
            BY <1>1, <1>2 DEF Answer, DefinitionsTypeOK
        <3> QED BY <1>1, <3>1 DEF Judged
    <2>3. \A i \in InTable' : CheckCycles(Listed, defs'[i].deps)
        BY <1>2 DEF DefinitionsInv, InTable
    <2> QED BY <2>1, <2>2, <2>3 DEF DefinitionsInv
<1>3. CASE Done(c) /\ UNCHANGED defs
    <2>1. \A i \in InTable' : CheckCycles(Listed, defs'[i].deps)
        BY <1>3 DEF DefinitionsInv, InTable
    <2>2. DefinitionsTypeOK'
        BY <1>1, <1>3, DoneKeeps DEF DefinitionsTypeOK
    <2> QED BY <1>3, <2>1, <2>2, DoneKeeps DEF DefinitionsInv
<1>4. CASE /\ Done(c)
           /\ \E i \in DefinitionIds :
                defs' = [defs EXCEPT ![i] = [name |-> name[c], deps |-> wants[c]]]
    <2>1. PICK i \in DefinitionIds : defs' = [defs EXCEPT ![i] = [name |-> name[c], deps |-> wants[c]]]
        BY <1>4
    <2>2. PICK x : x = [name |-> name[c], deps |-> wants[c]]
        OBVIOUS
    <2>3. Normalize(wants[c])
        BY <1>1 DEF Judged, Write
    <2>4. x \in Definition /\ CheckCycles(Listed, x.deps)
        <3>1. name[c] \in Names /\ wants[c] \in [ListedSteps -> SUBSET (ListedSteps \cup {Unknown})]
            BY <1>1 DEF DefinitionsTypeOK
        <3>2. \A s \in ListedSteps : wants[c][s] \subseteq ListedSteps
            BY <2>3 DEF Normalize
        <3>3. wants[c] \in [ListedSteps -> SUBSET ListedSteps]
            BY <3>1, <3>2
        <3>4. x.deps = wants[c] /\ x \in Definition
            BY <2>2, <3>1, <3>3 DEF Definition
        <3> QED BY <2>3, <3>4 DEF Normalize
    <2>5. defs' \in [DefinitionIds -> {NoRow} \cup Definition] /\ defs'[i] = x
          /\ \A j \in DefinitionIds \ {i} : defs'[j] = defs[j]
        BY <1>1, <2>1, <2>2, <2>4 DEF DefinitionsTypeOK
    <2>6. ASSUME NEW j \in InTable' PROVE CheckCycles(Listed, defs'[j].deps)
        <3>1. CASE j = i
            BY <2>4, <2>5, <3>1
        <3>2. CASE j # i
            <4>1. j \in InTable /\ defs'[j] = defs[j]
                BY <2>5, <2>6, <3>2 DEF InTable
            <4> QED BY <4>1 DEF DefinitionsInv
        <3> QED BY <3>1, <3>2
    <2>7. DefinitionsTypeOK'
        BY <1>4, <2>5, DoneKeeps DEF DefinitionsTypeOK
    <2> QED BY <1>4, <2>6, <2>7, DoneKeeps DEF DefinitionsInv
<1>5. target[c] \in DefinitionIds \cup {NoRow}
    BY <1>1 DEF DefinitionsTypeOK
<1> QED BY <1>2, <1>3, <1>4, <1>5 DEF Write, InTable

LEMMA DefinitionsKeep ==
    ASSUME DefinitionsAssumption, DefinitionsInv, [DefinitionsNext]_definitionVars
    PROVE  DefinitionsInv'
<1>1. ASSUME NEW c \in Clients, NEW graph \in Submitted[c], NEW n \in {1, 2} \cap Names,
             NEW t \in DefinitionIds \cup {NoRow}, Submit(c, graph, n, t)
      PROVE  DefinitionsInv'
    BY <1>1, SubmitKeeps
<1>2. ASSUME NEW c \in Clients, Probe(c) PROVE DefinitionsInv'
    BY <1>2, ProbeKeeps
<1>3. ASSUME NEW c \in Clients, Write(c) PROVE DefinitionsInv'
    BY <1>3, WriteKeeps
<1>4. ASSUME NEW c \in Clients, Return(c) PROVE DefinitionsInv'
    <2>1. Done(c) /\ defs' = defs
        BY <1>4 DEF Return
    <2>2. \A i \in InTable' : CheckCycles(Listed, defs'[i].deps)
        BY <2>1 DEF DefinitionsInv, InTable
    <2>3. DefinitionsTypeOK'
        BY <2>1, DoneKeeps DEF DefinitionsInv, DefinitionsTypeOK
    <2> QED BY <2>1, <2>2, <2>3, DoneKeeps DEF DefinitionsInv
<1>5. ASSUME NEW i \in DefinitionIds, DeleteDefinition(i) PROVE DefinitionsInv'
    <2>1. DefinitionsTypeOK' /\ \A c \in Clients : Judged(c)'
        BY <1>5 DEF DefinitionsInv, DefinitionsTypeOK, DeleteDefinition, Judged
    <2>2. \A j \in InTable' : j \in InTable /\ defs'[j] = defs[j]
        BY <1>5 DEF DefinitionsInv, DefinitionsTypeOK, DeleteDefinition, InTable
    <2> QED BY <2>1, <2>2 DEF DefinitionsInv
<1>6. CASE UNCHANGED definitionVars
    BY <1>6 DEF definitionVars, DefinitionsInv, DefinitionsTypeOK, InTable, Judged
<1> QED BY <1>1, <1>2, <1>3, <1>4, <1>5, <1>6 DEF DefinitionsNext

LEMMA DefinitionsInvImplies ==
    ASSUME DefinitionsAssumption, DefinitionsInv
    PROVE  AcceptsExactly
<1>1. Listed \in Seq(ListedSteps) /\ IsInjective(Listed) /\ ListedSteps = ToSet(Listed)
    BY DEF DefinitionsAssumption, ListedSteps
<1>2. ASSUME NEW i \in InTable
      PROVE  /\ Complete(Topo(Listed, defs[i].deps), Listed)
             /\ DependenciesFirst(Topo(Listed, defs[i].deps), defs[i].deps)
    <2>1. PICK graph : graph = defs[i].deps
        OBVIOUS
    <2>2. defs[i] \in Definition
        BY DEF DefinitionsInv, DefinitionsTypeOK, InTable
    <2>3. graph \in [ToSet(Listed) -> SUBSET ToSet(Listed)]
        BY <1>1, <2>1, <2>2 DEF Definition
    <2>4. CheckCycles(Listed, graph)
        BY <2>1 DEF DefinitionsInv
    <2>5. Complete(Topo(Listed, graph), Listed)
        BY <1>1, <2>3, <2>4, CheckAgreesWithOrder
    <2>6. DependenciesFirst(Topo(Listed, graph), graph)
        BY <1>1, <2>3, TopoInOrder
    <2> QED BY <2>1, <2>5, <2>6
<1>3. ASSUME NEW c \in Clients, client[c] = "refused", \A s \in ListedSteps : Unknown \notin wants[c][s]
      PROVE  Cyclic(Listed, [s \in ListedSteps |-> wants[c][s] \ {Unknown}])
    <2>1. PICK graph : graph = wants[c]
        OBVIOUS
    <2>2. graph \in [ListedSteps -> SUBSET (ListedSteps \cup {Unknown})] /\ ~Normalize(graph)
        BY <1>3, <2>1 DEF DefinitionsInv, DefinitionsTypeOK, Judged
    <2>3. graph \in [ListedSteps -> SUBSET ListedSteps]
        BY <1>3, <2>1, <2>2
    <2>4. [s \in ListedSteps |-> graph[s] \ {Unknown}] = graph
        <3>1. ASSUME NEW s \in ListedSteps PROVE graph[s] \ {Unknown} = graph[s]
            BY <1>3, <2>1
        <3> QED BY <2>3, <3>1
    <2>5. Cyclic(Listed, graph)
        <3>1. CASE \E s \in ListedSteps : s \in graph[s]
            <4>1. PICK s \in ListedSteps : s \in graph[s]
                BY <3>1
            <4>2. {s} \in (SUBSET ToSet(Listed)) \ {{}} /\ graph[s] \cap {s} # {}
                BY <1>1, <4>1
            <4> QED BY <4>2 DEF Cyclic
        <3>2. CASE ~CheckCycles(Listed, graph)
            <4>1. graph \in [ToSet(Listed) -> SUBSET ToSet(Listed)]
                BY <1>1, <2>3
            <4> QED BY <1>1, <3>2, <4>1, CheckAgreesWithOrder
        <3> QED BY <2>2, <2>3, <3>1, <3>2 DEF Normalize
    <2> QED BY <2>1, <2>4, <2>5
<1> QED BY <1>2, <1>3 DEF AcceptsExactly, StoredRuns, RefusedIsBad

\* The table of definitions and the clients that change it keep their types.
THEOREM DefinitionsTypeCorrect == DefinitionsSpec => []DefinitionsTypeOK
<1>1. NoDefinitions => DefinitionsInv
    BY DefinitionsAssumption, DefinitionsInit
<1>2. DefinitionsInv /\ [DefinitionsNext]_definitionVars => DefinitionsInv'
    BY DefinitionsAssumption, DefinitionsKeep
<1>3. DefinitionsInv => DefinitionsTypeOK
    BY DEF DefinitionsInv
<1> QED BY <1>1, <1>2, <1>3, PTL DEF DefinitionsSpec

\* engine.py:214 and 526-533: what define() and update_definition() store, a run
\* orders completely, and they refuse nothing else, whoever else is at work.
THEOREM DefinitionsAcceptExactly == DefinitionsSpec => []AcceptsExactly
<1>1. NoDefinitions => DefinitionsInv
    BY DefinitionsAssumption, DefinitionsInit
<1>2. DefinitionsInv /\ [DefinitionsNext]_definitionVars => DefinitionsInv'
    BY DefinitionsAssumption, DefinitionsKeep
<1>3. DefinitionsInv => AcceptsExactly
    BY DefinitionsAssumption, DefinitionsInvImplies
<1> QED BY <1>1, <1>2, <1>3, PTL DEF DefinitionsSpec
-------------------------------------------------------------------------------
(* What a run's thread knows.                                                *)

\* Everything a step waits for has a result or stands in front of it.
TodoInOrder(r) ==
    \A i \in 1..Len(todo[r]) : \A d \in Depends[todo[r][i]] :
      results[r][d] # "none" \/ \E k \in 1..(i - 1) : todo[r][k] = d
\* A row that is there has each step looked at or still to be looked at.
Covered(r) ==
    pc[r] \in {"check", "mark", "next", "step", "call", "final", "write"} =>
      status[r] = "absent" \/ \A s \in Steps : results[r][s] # "none" \/ s \in ToSet(todo[r])
\* The thread leaves steps out only when the run was paused or cancelled.
LeftOut(r) ==
    /\ pc[r] \in {"step", "call"} => todo[r] # << >>
    /\ pc[r] = "final" /\ todo[r] # << >> => status[r] \in {"paused", "cancelled", "absent"}
    /\ pc[r] = "write" /\ todo[r] # << >> => live[r] \in {"paused", "cancelled"} \/ status[r] = "absent"
\* After a call made for a cancelled run the thread comes to its end.
LastCall(r) ==
    extra[r] # 0 =>
      /\ extra[r] = 1 /\ pc[r] # "idle"
      /\ status[r] # "absent" =>
           /\ status[r] = "cancelled" /\ pc[r] \in {"call", "next", "final", "write", "done"}
           /\ pc[r] = "write" => live[r] = "cancelled"
\* What the row says is what was saved with it.
RowIsHonest(r) ==
    /\ status[r] = "completed" => \A s \in Steps : saved[r][s] \in {"ok", "skipped"}
    /\ status[r] = "failed" => Failing(saved[r])

RunInv(r) == TodoInOrder(r) /\ Covered(r) /\ LeftOut(r) /\ LastCall(r) /\ RowIsHonest(r)
RunsInv ==
    /\ TypeOK
    /\ ~defined => \A r \in Runs : status[r] = "absent"
    /\ \A r \in Runs : RunInv(r)

LEMMA OrderedTypes ==
    ASSUME RunsAssumption
    PROVE  /\ Ordered \in Seq(Steps) /\ DependenciesFirst(Ordered, Depends)
           /\ ToSet(Ordered) = Steps
<1>1. Depends \in [ToSet(StepList) -> SUBSET ToSet(StepList)] /\ StepList \in Seq(Steps)
    BY DEF RunsAssumption, Steps
<1>2. /\ Topo(StepList, Depends) \in Seq(ToSet(StepList))
      /\ DependenciesFirst(Topo(StepList, Depends), Depends)
    BY <1>1, TopoInOrder
<1>3. ToSet(Ordered) = ToSet(StepList)
    <2>1. IsInjective(StepList) /\ CheckCycles(StepList, Depends)
        BY DEF RunsAssumption
    <2>2. Complete(Topo(StepList, Depends), StepList)
        BY <1>1, <2>1, CheckAgreesWithOrder
    <2> QED BY <2>2 DEF Complete, Ordered
<1> QED BY <1>2, <1>3 DEF Ordered, Steps

LEMMA RunsTypes ==
    ASSUME RunsInv, [Next]_vars, RunsAssumption
    PROVE  TypeOK'
<1> USE DEF TypeOK, RunStatuses, Ended, Outcomes
<1>0. TypeOK /\ \A r \in Runs : LeftOut(r)
    BY DEF RunsInv, RunInv
<1> HIDE DEF RunsInv
<1>1. ASSUME NEW r \in Runs, Create(r) PROVE TypeOK'
    BY <1>0, <1>1 DEF Create, Move, local, trace
<1>2. ASSUME NEW r \in Runs, Load(r) PROVE TypeOK'
    BY <1>0, <1>2, OrderedTypes DEF Load, Move, trace, NoResults
<1>3. ASSUME NEW r \in Runs, CheckQueued(r) PROVE TypeOK'
    BY <1>0, <1>3 DEF CheckQueued, Move, local, trace
<1>4. ASSUME NEW r \in Runs, MarkRunning(r) PROVE TypeOK'
    BY <1>0, <1>4 DEF MarkRunning, Move, SetStatus, local, trace
<1>5. ASSUME NEW r \in Runs, NextStep(r) PROVE TypeOK'
    <2>1. todo[r] \in Seq(Steps)
        BY <1>0, <1>5
    <2>2. CASE UNCHANGED <<todo, results>>
        BY <1>0, <1>5, <2>2 DEF NextStep, Move, trace
    <2>3. CASE /\ todo[r] # << >> /\ UNCHANGED pc
               /\ results' = [results EXCEPT ![r][Head(todo[r])] = "skipped"]
               /\ todo' = [todo EXCEPT ![r] = Tail(@)]
        <3>1. Head(todo[r]) \in Steps /\ Tail(todo[r]) \in Seq(Steps)
            BY <2>1, <2>3
        <3> QED BY <1>0, <1>5, <2>3, <3>1 DEF NextStep, trace
    <2> QED BY <1>0, <1>5, <2>2, <2>3 DEF NextStep
<1>6. ASSUME NEW r \in Runs, StartStep(r) PROVE TypeOK'
    <2>1. todo[r] \in Seq(Steps) /\ todo[r] # << >>
        BY <1>0, <1>6 DEF StartStep, LeftOut
    <2>2. Head(todo[r]) \in Steps /\ Append(started[r], Head(todo[r])) \in Seq(Steps)
        BY <1>0, <2>1
    <2> QED BY <1>0, <1>6, <2>2 DEF StartStep, Move, local
<1>7. ASSUME NEW r \in Runs, EndStep(r) PROVE TypeOK'
    <2>1. todo[r] \in Seq(Steps) /\ todo[r] # << >>
        BY <1>0, <1>7 DEF EndStep, LeftOut
    <2>2. Head(todo[r]) \in Steps /\ Tail(todo[r]) \in Seq(Steps)
        BY <2>1
    <2> QED BY <1>0, <1>7, <2>2 DEF EndStep, Move, trace
<1>8. ASSUME NEW r \in Runs, ReadFinal(r) PROVE TypeOK'
    BY <1>0, <1>8 DEF ReadFinal, Move, trace
<1>9. ASSUME NEW r \in Runs, WriteFinal(r) PROVE TypeOK'
    <2>1. Verdict(r) \in RunStatuses /\ (Announced(r) => Verdict(r) \in Ended)
        BY DEF Verdict, Announced
    <2> HIDE DEF Verdict
    <2> QED BY <1>0, <1>9, <2>1 DEF WriteFinal, SetStatus, Move, local
<1>10. ASSUME NEW r \in Runs, CancelRead(r) PROVE TypeOK'
    BY <1>0, <1>10 DEF CancelRead, local, trace
<1>11. ASSUME NEW r \in Runs, CancelWrite(r) PROVE TypeOK'
    BY <1>0, <1>11 DEF CancelWrite, SetStatus, local, trace
<1>12. ASSUME NEW r \in Runs, Pause(r) PROVE TypeOK'
    BY <1>0, <1>12 DEF Pause, SetStatus, local, trace
<1>13. ASSUME NEW r \in Runs, Resume(r) PROVE TypeOK'
    BY <1>0, <1>13 DEF Resume, Move, local, trace
<1>14. CASE Delete
    BY <1>0, <1>14 DEF Delete, local, trace
<1>15. CASE UNCHANGED vars
    BY <1>0, <1>15 DEF vars, local, trace
<1> QED BY <1>0, <1>1, <1>2, <1>3, <1>4, <1>5, <1>6, <1>7, <1>8, <1>9, <1>10, <1>11, <1>12, <1>13,
           <1>14, <1>15 DEF Next, RunStep

\* A step that leaves a run alone.
SameRun(q) ==
    /\ status'[q] = status[q] /\ saved'[q] = saved[q] /\ pc'[q] = pc[q] /\ todo'[q] = todo[q]
    /\ results'[q] = results[q] /\ live'[q] = live[q] /\ extra'[q] = extra[q]
LEMMA SameRunInv ==
    ASSUME NEW q, RunInv(q), SameRun(q)
    PROVE  RunInv(q)'
<1>1. TodoInOrder(q)'
    BY DEF RunInv, SameRun, TodoInOrder
<1>2. Covered(q)'
    BY DEF RunInv, SameRun, Covered
<1>3. LeftOut(q)'
    BY DEF RunInv, SameRun, LeftOut
<1>4. LastCall(q)'
    BY DEF RunInv, SameRun, LastCall
<1>5. RowIsHonest(q)'
    BY DEF RunInv, SameRun, RowIsHonest, Failing
<1> QED BY <1>1, <1>2, <1>3, <1>4, <1>5 DEF RunInv

\* A run whose definition is gone.
LEMMA RowGone ==
    ASSUME NEW q \in Runs, RunInv(q), status'[q] = "absent", UNCHANGED <<saved, pc, local, trace>>
    PROVE  RunInv(q)'
<1> USE DEF local, trace
<1>1. TodoInOrder(q)'
    BY DEF RunInv, TodoInOrder
<1>2. Covered(q)'
    BY DEF RunInv, Covered
<1>3. LeftOut(q)'
    BY DEF RunInv, LeftOut
<1>4. LastCall(q)'
    BY DEF RunInv, LastCall
<1>5. RowIsHonest(q)'
    BY DEF RunInv, RowIsHonest
<1> QED BY <1>1, <1>2, <1>3, <1>4, <1>5 DEF RunInv

\* The steps of a run leave the others alone.
LEMMA OtherRuns ==
    ASSUME TypeOK, NEW r \in Runs, NEW q \in Runs, q # r,
           \/ RunStep(r) \/ Create(r) \/ CancelRead(r) \/ CancelWrite(r) \/ Pause(r) \/ Resume(r)
    PROVE  SameRun(q)
<1> USE DEF TypeOK, SameRun, local, trace
<1>1. CASE Create(r)
    BY <1>1 DEF Create, Move
<1>2. CASE Load(r)
    BY <1>2 DEF Load, Move
<1>3. CASE CheckQueued(r)
    BY <1>3 DEF CheckQueued, Move
<1>4. CASE MarkRunning(r)
    BY <1>4 DEF MarkRunning, Move, SetStatus
<1>5. CASE NextStep(r)
    <2>1. CASE UNCHANGED <<todo, results>>
        BY <1>5, <2>1 DEF NextStep, Move
    <2>2. CASE /\ UNCHANGED pc
               /\ results' = [results EXCEPT ![r][Head(todo[r])] = "skipped"]
               /\ todo' = [todo EXCEPT ![r] = Tail(@)]
        BY <1>5, <2>2 DEF NextStep
    <2> QED BY <1>5, <2>1, <2>2 DEF NextStep
<1>6. CASE StartStep(r)
    BY <1>6 DEF StartStep, Move
<1>7. CASE EndStep(r)
    BY <1>7 DEF EndStep, Move
<1>8. CASE ReadFinal(r)
    BY <1>8 DEF ReadFinal, Move
<1>9. CASE WriteFinal(r)
    BY <1>9 DEF WriteFinal, Move, SetStatus
<1>10. CASE CancelRead(r)
    BY <1>10 DEF CancelRead
<1>11. CASE CancelWrite(r)
    BY <1>11 DEF CancelWrite, SetStatus
<1>12. CASE Pause(r)
    BY <1>12 DEF Pause, SetStatus
<1>13. CASE Resume(r)
    BY <1>13 DEF Resume, Move
<1> QED BY <1>1, <1>2, <1>3, <1>4, <1>5, <1>6, <1>7, <1>8, <1>9, <1>10, <1>11, <1>12, <1>13
        DEF RunStep

-------------------------------------------------------------------------------
(* One action of a run.                                                      *)

\* The head of what is to be done is looked at: o is what becomes of it.
LEMMA LookedAt ==
    ASSUME RunsAssumption, TypeOK, NEW r \in Runs, TodoInOrder(r), todo[r] # << >>,
           NEW o \in Outcomes \ {"none"},
           results' = [results EXCEPT ![r][Head(todo[r])] = o],
           todo' = [todo EXCEPT ![r] = Tail(@)]
    PROVE  /\ TodoInOrder(r)'
           /\ \A s \in Steps : results[r][s] # "none" \/ s \in ToSet(todo[r])
                => results'[r][s] # "none" \/ s \in ToSet(todo'[r])
<1> DEFINE t == todo[r]
           h == Head(todo[r])
           f == results[r]
<1>1. t \in Seq(Steps) /\ t # << >> /\ h = t[1] /\ h \in Steps /\ f \in [Steps -> Outcomes]
    BY DEF TypeOK
<1>2. /\ Len(t) \in Nat \ {0} /\ Len(Tail(t)) = Len(t) - 1
      /\ \A i \in 1..Len(Tail(t)) : Tail(t)[i] = t[i + 1]
    BY <1>1
<1>3. todo'[r] = Tail(t) /\ results'[r] = [f EXCEPT ![h] = o]
    BY DEF TypeOK
<1>4. \A i \in 1..Len(t) : t[i] \in Steps
    BY <1>1
<1>5. \A s \in Steps : results'[r][s] # "none" <=> f[s] # "none" \/ s = h
    BY <1>1, <1>3
<1>6. ASSUME NEW i \in 1..Len(todo'[r]), NEW d \in Depends[todo'[r][i]]
      PROVE  results'[r][d] # "none" \/ \E k \in 1..(i - 1) : todo'[r][k] = d
    <2>a. i \in 1..Len(Tail(t))
        BY <1>3
    <2>b. Tail(t)[i] = t[i + 1] /\ i \in 1..(Len(t) - 1)
        BY <1>2, <2>a
    <2>c. i + 1 \in 1..Len(t)
        BY <1>2, <2>b
    <2>1. i + 1 \in 1..Len(t) /\ todo'[r][i] = t[i + 1]
        BY <1>3, <2>b, <2>c
    <2>2. d \in Steps /\ d \in Depends[t[i + 1]]
        BY <1>4, <2>1 DEF RunsAssumption
    <2>3. CASE f[d] # "none"
        BY <1>5, <2>2, <2>3
    <2>4. CASE \E k \in 1..i : t[k] = d
        <3>1. PICK k \in 1..i : t[k] = d
            BY <2>4
        <3>2. CASE k = 1
            BY <1>1, <1>5, <2>2, <3>1, <3>2
        <3>3. CASE k # 1
            <4>1. k - 1 \in 1..(i - 1) /\ k - 1 \in 1..Len(Tail(t)) /\ (k - 1) + 1 = k
                BY <1>2, <2>1, <3>3
            <4>2. todo'[r][k - 1] = d
                BY <1>2, <1>3, <3>1, <4>1
            <4> QED BY <4>1, <4>2
        <3> QED BY <3>2, <3>3
    <2>5. f[d] # "none" \/ \E k \in 1..((i + 1) - 1) : t[k] = d
        BY <2>1, <2>2 DEF TodoInOrder
    <2> QED BY <2>3, <2>4, <2>5
<1>7. TodoInOrder(r)'
    BY <1>6, Zenon DEF TodoInOrder
<1>8. ASSUME NEW s \in Steps, s \in ToSet(t)
      PROVE  results'[r][s] # "none" \/ s \in ToSet(todo'[r])
    <2>1. PICK i \in 1..Len(t) : s = t[i]
        <3>1. DOMAIN t = 1..Len(t)
            BY <1>1
        <3> HIDE DEF t
        <3> QED BY <1>8, <3>1 DEF ToSet
    <2>2. CASE i = 1
        BY <1>1, <1>5, <2>1, <2>2
    <2>3. CASE i # 1
        <3>1. i - 1 \in 1..Len(Tail(t)) /\ (i - 1) + 1 = i
            BY <1>2, <2>3
        <3>2. Tail(t)[i - 1] = s /\ i - 1 \in DOMAIN Tail(t)
            BY <1>1, <1>2, <2>1, <3>1
        <3> QED BY <1>3, <3>2 DEF ToSet
    <2> QED BY <2>2, <2>3
<1> QED BY <1>5, <1>7, <1>8

\* What does not touch the steps leaves their order.
LEMMA SameTodo ==
    ASSUME NEW r, TodoInOrder(r), todo'[r] = todo[r], results'[r] = results[r]
    PROVE  TodoInOrder(r)'
BY DEF TodoInOrder

LEMMA CreateRun ==
    ASSUME TypeOK, NEW r \in Runs, RunInv(r), Create(r)
    PROVE  RunInv(r)'
<1>1. /\ pc[r] = "idle" /\ pc'[r] = "load" /\ status'[r] = "created"
      /\ UNCHANGED <<saved, todo, results, live, extra>>
    BY DEF TypeOK, Create, Move, local, trace
<1>2. TodoInOrder(r)'
    BY <1>1, SameTodo DEF RunInv
<1> QED BY <1>1, <1>2 DEF RunInv, Covered, LeftOut, LastCall, RowIsHonest

LEMMA LoadRun ==
    ASSUME RunsAssumption, TypeOK, NEW r \in Runs, RunInv(r), Load(r), ~defined => status[r] = "absent"
    PROVE  RunInv(r)'
<1>1. /\ pc[r] = "load" /\ pc'[r] = "check" /\ UNCHANGED <<status, saved, live, extra>>
      /\ todo'[r] = (IF defined THEN Ordered ELSE << >>) /\ results'[r] = NoResults
    BY DEF TypeOK, Load, Move, trace
<1>2. TodoInOrder(r)'
    <2>1. CASE defined
        <3>1. todo'[r] = Ordered /\ DOMAIN Ordered = 1..Len(Ordered)
            BY <1>1, <2>1, OrderedTypes
        <3>2. DependenciesFirst(Ordered, Depends)
            BY OrderedTypes
        <3> QED BY <3>1, <3>2 DEF TodoInOrder, DependenciesFirst
    <2>2. CASE ~defined
        BY <1>1, <2>2 DEF TodoInOrder
    <2> QED BY <2>1, <2>2
<1>3. Covered(r)'
    BY <1>1, OrderedTypes DEF Covered
<1>4. LeftOut(r)' /\ LastCall(r)' /\ RowIsHonest(r)'
    BY <1>1 DEF RunInv, LeftOut, LastCall, RowIsHonest
<1> QED BY <1>2, <1>3, <1>4 DEF RunInv

LEMMA CheckRun ==
    ASSUME TypeOK, NEW r \in Runs, RunInv(r), CheckQueued(r)
    PROVE  RunInv(r)'
<1>1. /\ pc[r] = "check" /\ pc'[r] = (IF status[r] = "cancelled" THEN "done" ELSE "mark")
      /\ UNCHANGED <<status, saved, todo, results, live, extra>>
    BY DEF TypeOK, CheckQueued, Move, local, trace
<1>2. TodoInOrder(r)'
    BY <1>1, SameTodo DEF RunInv
<1>3. Covered(r)' /\ LeftOut(r)'
    BY <1>1 DEF RunInv, Covered, LeftOut
<1>4. LastCall(r)' /\ RowIsHonest(r)'
    BY <1>1 DEF RunInv, LastCall, RowIsHonest
<1> QED BY <1>2, <1>3, <1>4 DEF RunInv

LEMMA MarkRun ==
    ASSUME TypeOK, NEW r \in Runs, RunInv(r), MarkRunning(r)
    PROVE  RunInv(r)'
<1>1. /\ pc[r] = "mark" /\ pc'[r] = "next"
      /\ status'[r] = (IF status[r] = "absent" THEN "absent" ELSE "running")
      /\ UNCHANGED <<saved, todo, results, live, extra>>
    BY DEF TypeOK, MarkRunning, Move, SetStatus, local, trace
<1>2. TodoInOrder(r)'
    BY <1>1, SameTodo DEF RunInv
<1>3. Covered(r)' /\ LeftOut(r)'
    BY <1>1 DEF RunInv, Covered, LeftOut
<1>4. LastCall(r)' /\ RowIsHonest(r)'
    BY <1>1 DEF RunInv, LastCall, RowIsHonest
<1> QED BY <1>2, <1>3, <1>4 DEF RunInv

LEMMA NextStepOfRun ==
    ASSUME RunsAssumption, TypeOK, NEW r \in Runs, RunInv(r), NextStep(r)
    PROVE  RunInv(r)'
<1>1. pc[r] = "next" /\ UNCHANGED <<status, saved, live, extra>>
    BY DEF NextStep, trace
<1>2. CASE /\ UNCHANGED <<todo, results>>
           /\ \/ pc'[r] = "final" /\ (todo[r] = << >> \/ status[r] \in {"paused", "cancelled"})
              \/ pc'[r] = "step" /\ todo[r] # << >> /\ status[r] # "cancelled"
    <2>1. TodoInOrder(r)'
        BY <1>2, SameTodo DEF RunInv
    <2>2. Covered(r)'
        BY <1>1, <1>2 DEF RunInv, Covered
    <2>3. LeftOut(r)'
        BY <1>1, <1>2 DEF RunInv, LeftOut
    <2>4. LastCall(r)' /\ RowIsHonest(r)'
        BY <1>1, <1>2 DEF RunInv, LastCall, RowIsHonest
    <2> QED BY <2>1, <2>2, <2>3, <2>4 DEF RunInv
<1>3. CASE /\ todo[r] # << >> /\ UNCHANGED pc
           /\ results' = [results EXCEPT ![r][Head(todo[r])] = "skipped"]
           /\ todo' = [todo EXCEPT ![r] = Tail(@)]
    <2>1. /\ TodoInOrder(r)'
          /\ \A s \in Steps : results[r][s] # "none" \/ s \in ToSet(todo[r])
               => results'[r][s] # "none" \/ s \in ToSet(todo'[r])
        <3>1. "skipped" \in Outcomes \ {"none"} /\ TodoInOrder(r)
            BY DEF Outcomes, RunInv
        <3> QED BY <1>3, <3>1, LookedAt
    <2>2. Covered(r)'
        BY <1>1, <1>3, <2>1 DEF RunInv, Covered
    <2>3. LeftOut(r)' /\ LastCall(r)' /\ RowIsHonest(r)'
        BY <1>1, <1>3 DEF RunInv, LeftOut, LastCall, RowIsHonest
    <2> QED BY <2>1, <2>2, <2>3 DEF RunInv
<1> QED BY <1>2, <1>3 DEF NextStep, Move, Interrupted, TypeOK

LEMMA StartStepOfRun ==
    ASSUME TypeOK, NEW r \in Runs, RunInv(r), StartStep(r)
    PROVE  RunInv(r)'
<1>1. /\ pc[r] = "step" /\ pc'[r] = "call"
      /\ extra'[r] = (IF status[r] = "cancelled" THEN extra[r] + 1 ELSE extra[r])
      /\ UNCHANGED <<status, saved, todo, results, live>>
    BY DEF TypeOK, StartStep, Move, local
<1>2. TodoInOrder(r)'
    BY <1>1, SameTodo DEF RunInv
<1>3. Covered(r)' /\ LeftOut(r)'
    BY <1>1 DEF RunInv, Covered, LeftOut
<1>4. LastCall(r)'
    BY <1>1 DEF RunInv, LastCall, TypeOK
<1>5. RowIsHonest(r)'
    BY <1>1 DEF RunInv, RowIsHonest
<1> QED BY <1>2, <1>3, <1>4, <1>5 DEF RunInv

LEMMA EndStepOfRun ==
    ASSUME RunsAssumption, TypeOK, NEW r \in Runs, RunInv(r), EndStep(r)
    PROVE  RunInv(r)'
<1>1. /\ pc[r] = "call" /\ pc'[r] = "next" /\ todo[r] # << >>
      /\ UNCHANGED <<status, saved, live, extra>>
    BY DEF TypeOK, EndStep, Move, trace, RunInv, LeftOut
<1>2. PICK o \in {"ok", "failed", "blocked"} :
         /\ results' = [results EXCEPT ![r][Head(todo[r])] = o]
         /\ todo' = [todo EXCEPT ![r] = Tail(@)]
    BY DEF EndStep
<1>3. /\ TodoInOrder(r)'
      /\ \A s \in Steps : results[r][s] # "none" \/ s \in ToSet(todo[r])
           => results'[r][s] # "none" \/ s \in ToSet(todo'[r])
    <2>1. o \in Outcomes \ {"none"} /\ TodoInOrder(r)
        BY DEF Outcomes, RunInv
    <2> QED BY <1>1, <1>2, <2>1, LookedAt
<1>4. Covered(r)'
    BY <1>1, <1>3 DEF RunInv, Covered
<1>5. LeftOut(r)' /\ LastCall(r)' /\ RowIsHonest(r)'
    BY <1>1 DEF RunInv, LeftOut, LastCall, RowIsHonest
<1> QED BY <1>3, <1>4, <1>5 DEF RunInv

LEMMA ReadFinalOfRun ==
    ASSUME TypeOK, NEW r \in Runs, RunInv(r), ReadFinal(r)
    PROVE  RunInv(r)'
<1>1. /\ pc[r] = "final" /\ pc'[r] = "write" /\ live'[r] = status[r]
      /\ UNCHANGED <<status, saved, todo, results, extra>>
    BY DEF TypeOK, ReadFinal, Move, trace
<1>2. TodoInOrder(r)'
    BY <1>1, SameTodo DEF RunInv
<1>3. Covered(r)' /\ LeftOut(r)'
    BY <1>1 DEF RunInv, Covered, LeftOut
<1>4. LastCall(r)' /\ RowIsHonest(r)'
    BY <1>1 DEF RunInv, LastCall, RowIsHonest
<1> QED BY <1>2, <1>3, <1>4 DEF RunInv

LEMMA WriteFinalOfRun ==
    ASSUME TypeOK, NEW r \in Runs, RunInv(r), WriteFinal(r)
    PROVE  RunInv(r)'
<1>1. /\ pc[r] = "write" /\ pc'[r] = "done"
      /\ status'[r] = (IF status[r] = "absent" THEN "absent" ELSE Verdict(r))
      /\ status[r] # "absent" => saved'[r] = results[r]
      /\ UNCHANGED <<todo, results, live, extra>>
    BY DEF TypeOK, WriteFinal, Move, SetStatus, local
<1>2. TodoInOrder(r)'
    BY <1>1, SameTodo DEF RunInv
<1>3. Covered(r)' /\ LeftOut(r)'
    BY <1>1 DEF Covered, LeftOut
<1>4. LastCall(r)'
    BY <1>1 DEF RunInv, LastCall, Verdict
<1>5. RowIsHonest(r)'
    <2>1. CASE status[r] = "absent"
        BY <1>1, <2>1 DEF RowIsHonest
    <2>2. CASE status[r] # "absent" /\ live[r] \in {"paused", "cancelled"}
        BY <1>1, <2>2 DEF RowIsHonest, Verdict
    <2>3. CASE status[r] # "absent" /\ live[r] \notin {"paused", "cancelled"}
        <3>1. \A s \in Steps : results[r][s] # "none"
            BY <1>1, <2>3 DEF RunInv, Covered, LeftOut, ToSet
        <3>2. \A s \in Steps : results[r][s] \in Outcomes
            BY DEF TypeOK
        <3>3. CASE Failing(results[r])
            BY <1>1, <2>3, <3>3 DEF RowIsHonest, Verdict, Failing
        <3>4. CASE ~Failing(results[r])
            <4>1. \A s \in Steps : results[r][s] \in {"ok", "skipped"}
                BY <3>1, <3>2, <3>4 DEF Failing, Outcomes
            <4>2. status'[r] = "completed"
                BY <1>1, <2>3, <3>4 DEF Verdict, Failing
            <4> QED BY <1>1, <2>3, <4>1, <4>2 DEF RowIsHonest
        <3> QED BY <3>3, <3>4
    <2> QED BY <2>1, <2>2, <2>3
<1> QED BY <1>2, <1>3, <1>4, <1>5 DEF RunInv

\* Other threads write a row, or take a run up again.
LEMMA OthersOfRun ==
    ASSUME TypeOK, NEW r \in Runs, RunInv(r),
           CancelRead(r) \/ CancelWrite(r) \/ Pause(r) \/ Resume(r)
    PROVE  RunInv(r)'
<1>1. CASE CancelRead(r)
    <2>1. SameRun(r)
        BY <1>1 DEF CancelRead, SameRun, local, trace
    <2> QED BY <2>1, SameRunInv
<1>2. CASE CancelWrite(r)
    <2>1. /\ status'[r] = (IF status[r] = "absent" THEN "absent" ELSE "cancelled")
          /\ UNCHANGED <<saved, pc, todo, results, live, extra>>
        BY <1>2 DEF TypeOK, CancelWrite, SetStatus, local, trace
    <2>2. TodoInOrder(r)'
        BY <2>1, SameTodo DEF RunInv
    <2>3. Covered(r)' /\ LeftOut(r)'
        BY <2>1 DEF RunInv, Covered, LeftOut
    <2>4. LastCall(r)' /\ RowIsHonest(r)'
        BY <2>1 DEF RunInv, LastCall, RowIsHonest
    <2> QED BY <2>2, <2>3, <2>4 DEF RunInv
<1>3. CASE Pause(r)
    <2>1. /\ status[r] = "running" /\ status'[r] = "paused"
          /\ UNCHANGED <<saved, pc, todo, results, live, extra>>
        BY <1>3 DEF TypeOK, Pause, SetStatus, local, trace
    <2>2. TodoInOrder(r)'
        BY <2>1, SameTodo DEF RunInv
    <2>3. Covered(r)' /\ LeftOut(r)'
        BY <2>1 DEF RunInv, Covered, LeftOut
    <2>4. LastCall(r)' /\ RowIsHonest(r)'
        BY <2>1 DEF RunInv, LastCall, RowIsHonest
    <2> QED BY <2>2, <2>3, <2>4 DEF RunInv
<1>4. CASE Resume(r)
    <2>1. /\ pc[r] = "done" /\ pc'[r] = "load" /\ status[r] = "paused"
          /\ UNCHANGED <<status, saved, todo, results, live, extra>>
        BY <1>4 DEF TypeOK, Resume, Move, local, trace
    <2>2. TodoInOrder(r)'
        BY <2>1, SameTodo DEF RunInv
    <2>3. Covered(r)' /\ LeftOut(r)'
        BY <2>1 DEF Covered, LeftOut
    <2>4. LastCall(r)' /\ RowIsHonest(r)'
        BY <2>1 DEF RunInv, LastCall, RowIsHonest
    <2> QED BY <2>2, <2>3, <2>4 DEF RunInv
<1> QED BY <1>1, <1>2, <1>3, <1>4

-------------------------------------------------------------------------------
LEMMA RunsInit ==
    ASSUME RunsAssumption, Init
    PROVE  RunsInv
<1>1. TypeOK
    BY DEF Init, TypeOK, RunStatuses, Outcomes, NoResults
<1>2. ASSUME NEW r \in Runs PROVE RunInv(r)
    BY DEF Init, RunInv, TodoInOrder, Covered, LeftOut, LastCall, RowIsHonest
<1> QED BY <1>1, <1>2 DEF RunsInv, Init

LEMMA RunsKeep ==
    ASSUME RunsAssumption, RunsInv, [Next]_vars
    PROVE  RunsInv'
<1>1. TypeOK'
    BY RunsTypes
<1>2. TypeOK /\ \A r \in Runs : RunInv(r)
    BY DEF RunsInv
<1>3. ~defined => \A r \in Runs : status[r] = "absent"
    BY DEF RunsInv
<1>4. ASSUME NEW r \in Runs,
             RunStep(r) \/ Create(r) \/ CancelRead(r) \/ CancelWrite(r) \/ Pause(r) \/ Resume(r)
      PROVE  (\A q \in Runs : RunInv(q)') /\ (~defined => \A q \in Runs : status[q] = "absent")'
    <2>1. RunInv(r)'
        BY <1>2, <1>3, <1>4, CreateRun, LoadRun, CheckRun, MarkRun, NextStepOfRun, StartStepOfRun,
           EndStepOfRun, ReadFinalOfRun, WriteFinalOfRun, OthersOfRun DEF RunStep
    <2>2. ASSUME NEW q \in Runs PROVE RunInv(q)'
        <3>1. CASE q # r
            BY <1>2, <1>4, <3>1, OtherRuns, SameRunInv
        <3> QED BY <2>1, <3>1
    <2>3. (~defined => \A q \in Runs : status[q] = "absent")'
        <3>1. CASE Create(r)
            BY <3>1 DEF Create
        <3>2. CASE ~Create(r)
            <4>1. defined' = defined
                BY <1>4, <3>2 DEF RunStep, Load, CheckQueued, MarkRunning, NextStep, StartStep,
                   EndStep, ReadFinal, WriteFinal, CancelRead, CancelWrite, Pause, Resume
            <4>2. status' = status \/ \E s : SetStatus(r, s)
                BY <1>4, <3>2 DEF RunStep, Load, CheckQueued, MarkRunning, NextStep, StartStep,
                   EndStep, ReadFinal, WriteFinal, CancelRead, CancelWrite, Pause, Resume
            <4> QED BY <1>2, <1>3, <4>1, <4>2 DEF SetStatus, TypeOK
        <3> QED BY <3>1, <3>2
    <2> QED BY <2>2, <2>3
<1>5. CASE Delete
    <2>1. \A q \in Runs : status'[q] = "absent" /\ UNCHANGED <<saved, pc, local, trace>>
        BY <1>5 DEF Delete
    <2>2. \A q \in Runs : RunInv(q)'
        BY <1>2, <2>1, RowGone
    <2> QED BY <1>1, <2>1, <2>2 DEF RunsInv
<1>6. CASE UNCHANGED vars
    <2>1. \A q \in Runs : SameRun(q)
        BY <1>6 DEF vars, local, trace, SameRun
    <2>2. \A q \in Runs : RunInv(q)'
        BY <1>2, <2>1, SameRunInv
    <2> QED BY <1>1, <1>3, <1>6, <2>2 DEF RunsInv, vars
<1> QED BY <1>1, <1>4, <1>5, <1>6 DEF Next, RunsInv

LEMMA RunsInvImplies ==
    ASSUME RunsInv
    PROVE  RunsAreHonest
<1>0. TypeOK /\ \A r \in Runs : RunInv(r)
    BY DEF RunsInv
<1>1. DependenciesDone
    <2>1. SUFFICES ASSUME NEW r \in Runs, pc[r] = "call", NEW d \in Depends[Head(todo[r])]
                   PROVE  results[r][d] # "none"
        BY DEF DependenciesDone
    <2>2. todo[r] \in Seq(Steps) /\ todo[r] # << >>
        BY <1>0, <2>1 DEF TypeOK, RunInv, LeftOut
    <2>3. 1 \in 1..Len(todo[r]) /\ Head(todo[r]) = todo[r][1]
        BY <2>2
    <2>4. results[r][d] # "none" \/ \E k \in 1..(1 - 1) : todo[r][k] = d
        BY <1>0, <2>1, <2>3 DEF RunInv, TodoInOrder
    <2> QED BY <2>4
<1>2. HonestOutcome
    BY <1>0 DEF HonestOutcome, RunInv, RowIsHonest
<1>3. CancelStopsSteps
    <2>1. ASSUME NEW r \in Runs PROVE extra[r] = 0 \/ extra[r] = 1
        BY <1>0 DEF RunInv, LastCall
    <2> QED BY <2>1 DEF CancelStopsSteps
<1> QED BY <1>1, <1>2, <1>3 DEF RunsAreHonest

\* Type correctness of the runs, for every workflow.
THEOREM RunsTypeCorrect == Spec => []TypeOK
<1>1. Init => RunsInv
    BY RunsAssumption, RunsInit
<1>2. RunsInv /\ [Next]_vars => RunsInv'
    BY RunsAssumption, RunsKeep
<1>3. RunsInv => TypeOK
    BY DEF RunsInv
<1> QED BY <1>1, <1>2, <1>3, PTL DEF Spec

\* engine.py:454-584: whatever other threads do, a tool is called only behind
\* the steps it depends on, at most once for a run that was cancelled, and a row
\* says of a run what its steps did.
THEOREM RunsAlwaysHonest == Spec => []RunsAreHonest
<1>1. Init => RunsInv
    BY RunsAssumption, RunsInit
<1>2. RunsInv /\ [Next]_vars => RunsInv'
    BY RunsAssumption, RunsKeep
<1>3. RunsInv => RunsAreHonest
    BY RunsInvImplies
<1> QED BY <1>1, <1>2, <1>3, PTL DEF Spec

-------------------------------------------------------------------------------
(* What makes a schedule fire once.                                          *)

\* One caller has a loop, since start() hands out one.
OneLoop ==
    /\ ~looping => \A c \in Callers : loop[c] = "none"
    /\ \A c, d \in Callers : loop[c] # "none" /\ loop[d] # "none" => c = d

\* The queue holds rows of different ids, in the plans they were read with.
\* A timed one was due, for an occurrence no thread was started for.
InQueue(e) ==
    /\ e.id \in used
    /\ e.targets = {} <=> e.row.plan.kind # "deadline"
    /\ e.id \in Rows => The(e.id).plan = e.row.plan
    /\ e.targets = {} =>
         /\ e.row.next \in 1..clock
         /\ \A n \in Timed(e.id) : runs[e.id][n].next < e.row.next
Queued(c) ==
    /\ \A n \in DOMAIN queue[c] : InQueue(queue[c][n])
    /\ \A m, n \in DOMAIN queue[c] : queue[c][m].id = queue[c][n].id => m = n
    /\ loop[c] \in {"fire", "update", "launch"} <=> queue[c] # << >>

\* Of the row that is being fired: the clock was read behind what was due, its
\* targets are recorded, and its next time is behind the one that fires.
Firing(c) ==
    /\ loop[c] \in {"update", "launch"} =>
         IF Head(queue[c]).targets = {} THEN Head(queue[c]).row.next <= at[c]
                                        ELSE seen = Head(queue[c]).targets
    /\ loop[c] = "launch" /\ Head(queue[c]).targets = {} /\ Head(queue[c]).id \in Rows =>
         LET next == The(Head(queue[c]).id).next
         IN next = Never \/ Head(queue[c]).row.next < next

\* A row waits for an occurrence behind those it fired for.
Waits(i) ==
    i \in Rows /\ The(i).plan.kind # "deadline" /\ The(i).next # Never =>
      /\ The(i).next > The(i).last
      /\ \A n \in Timed(i) : runs[i][n].next < The(i).next
Distinct(i) ==
    \A m, n \in Timed(i) : runs[i][m].next = runs[i][n].next => m = n

\* Without a restart, while i is the only row that fires for deadlines, the
\* record is the set it fired for last, but while some set is being fired for;
\* what is queued is another set.
Alone(i) == crashes = 0 /\ \A j \in Ids \ {i} : Timed(j) = DOMAIN runs[j]
LastSet(i) == IF runs[i] = << >> THEN {} ELSE runs[i][Len(runs[i])].targets
Recorded(i) ==
    Alone(i) /\ LastSet(i) # {} =>
      \/ seen = LastSet(i)
      \/ \E c \in Callers : loop[c] \in {"update", "launch"} /\ Head(queue[c]).targets # {}
Changed(i) ==
    Alone(i) =>
      /\ \A c \in Callers : \A n \in DOMAIN queue[c] :
           queue[c][n].id = i /\ queue[c][n].targets # {} => queue[c][n].targets # LastSet(i)
      /\ \A n \in DOMAIN runs[i] \ (Timed(i) \cup {1}) :
           runs[i][n].targets # runs[i][n - 1].targets

Unused(i) == i \notin used => runs[i] = << >>

RowInv(i) == Unused(i) /\ Waits(i) /\ Distinct(i) /\ Recorded(i) /\ Changed(i)
SchedulerInv ==
    /\ SchedulesTypeOK /\ OneLoop
    /\ \A c \in Callers : Queued(c) /\ Firing(c)
    /\ \A i \in Ids : RowInv(i)

-------------------------------------------------------------------------------
LEMMA NextRunAhead ==
    ASSUME SchedulerAssumption, NEW i \in Ids, NEW p \in Plans[i], NEW now \in Nat
    PROVE  /\ NextRun(p, now) \in Nat
           /\ p.kind # "deadline" /\ NextRun(p, now) # Never => NextRun(p, now) > now
<1>1. /\ p.kind \in Kinds /\ (p.value = Bad \/ p.value \in Nat)
      /\ Period["daily"] \in Nat \ {0} /\ Period["weekly"] \in Nat \ {0}
    BY DEF SchedulerAssumption, Allowed
<1>2. ASSUME NEW n \in Nat \ {0}, p.value \in Nat
      PROVE  NextAt(now, p.value, n) \in Nat /\ NextAt(now, p.value, n) > now
    <2> DEFINE m == (p.value - (now + 1)) % n
    <2>1. m \in 0..(n - 1)
        BY <1>2
    <2>2. NextAt(now, p.value, n) = now + 1 + m
        BY DEF NextAt
    <2> HIDE DEF m
    <2> QED BY <2>1, <2>2
<1>3. CASE p.value = Bad
    BY <1>3 DEF NextRun, Never
<1>4. CASE p.value # Bad /\ p.kind = "oneshot"
    BY <1>1, <1>4 DEF NextRun, Never
<1>5. CASE p.value # Bad /\ p.kind = "interval"
    BY <1>1, <1>5 DEF NextRun
<1>6. CASE p.value # Bad /\ p.kind \in {"daily", "weekly"}
    <2>1. NextRun(p, now) = NextAt(now, p.value, Period[p.kind])
        BY <1>6 DEF NextRun
    <2> QED BY <1>1, <1>2, <1>6, <2>1
<1>7. CASE p.value # Bad /\ p.kind = "deadline"
    BY <1>1, <1>7 DEF NextRun
<1> QED BY <1>1, <1>3, <1>4, <1>5, <1>6, <1>7 DEF Kinds

LEMMA TheOnly ==
    ASSUME NEW x
    PROVE  (CHOOSE r \in {x} : TRUE) = x
OBVIOUS

\* What an edit of row i makes of the table.
LEMMA TheAfter ==
    ASSUME SchedulesTypeOK, NEW i \in Ids, NEW x, table' = [table EXCEPT ![i] = {x}]
    PROVE  /\ The(i)' = x /\ table'[i] = {x} /\ Rows' = Rows \cup {i}
           /\ \A j \in Ids \ {i} : The(j)' = The(j) /\ table'[j] = table[j]
<1>1. table'[i] = {x} /\ \A j \in Ids \ {i} : table'[j] = table[j]
    BY DEF SchedulesTypeOK
<1>2. The(i)' = x
    BY <1>1, TheOnly DEF The
<1>3. Rows' = Rows \cup {i}
    BY <1>1 DEF Rows
<1> QED BY <1>1, <1>2, <1>3 DEF The

LEMMA TheGone ==
    ASSUME SchedulesTypeOK, NEW i \in Ids, table' = [table EXCEPT ![i] = {}]
    PROVE  /\ Rows' = Rows \ {i}
           /\ \A j \in Ids \ {i} : The(j)' = The(j) /\ table'[j] = table[j]
<1>1. table'[i] = {} /\ \A j \in Ids \ {i} : table'[j] = table[j]
    BY DEF SchedulesTypeOK
<1> QED BY <1>1 DEF Rows, The

LEMMA TheSame ==
    ASSUME table' = table
    PROVE  Rows' = Rows /\ \A j : The(j)' = The(j)
BY DEF Rows, The

\* A row with a new content.
LEMMA TableTypes ==
    ASSUME SchedulesTypeOK, NEW i \in used', NEW x \in Stored, x.plan \in Plans[i],
           table' = [table EXCEPT ![i] = {x}], used \subseteq used', used' \subseteq Ids
    PROVE  /\ (table \in [Ids -> SUBSET Stored])' /\ Rows' \subseteq used'
           /\ \A j \in Rows' : table'[j] = {The(j)'} /\ The(j)'.plan \in Plans[j]
<1>1. /\ The(i)' = x /\ table'[i] = {x} /\ Rows' = Rows \cup {i}
      /\ \A j \in Ids \ {i} : The(j)' = The(j) /\ table'[j] = table[j]
    BY TheAfter
<1>2. table' \in [Ids -> SUBSET Stored]
    BY DEF SchedulesTypeOK
<1>3. Rows' \subseteq used'
    BY <1>1 DEF SchedulesTypeOK
<1> QED BY <1>1, <1>2, <1>3 DEF SchedulesTypeOK

\* update_run and set_enabled write fields of a row that is there.
LEMMA RowTypes ==
    ASSUME SchedulesTypeOK, NEW i \in Rows
    PROVE  i \in Ids /\ i \in used /\ The(i) \in Stored /\ The(i).plan \in Plans[i] /\ table[i] = {The(i)}
<1>1. i \in Ids /\ i \in used /\ table[i] = {The(i)} /\ The(i).plan \in Plans[i]
    BY DEF SchedulesTypeOK, Rows
<1>2. table[i] \subseteq Stored
    BY <1>1 DEF SchedulesTypeOK
<1> QED BY <1>1, <1>2

\* The types of all but the table.
OtherTypes ==
    /\ seen \subseteq Deadlines /\ tracked \subseteq Deadlines
    /\ clock \in 1..MaxTime /\ looping \in BOOLEAN /\ stopping \in BOOLEAN
    /\ loop \in [Callers -> {"none", "tick", "fire", "update", "launch", "wait", "ended"}]
    /\ queue \in [Callers -> Seq(Found)]
    /\ at \in [Callers -> 1..MaxTime]
    /\ runs \in [Ids -> Seq([next : Nat, targets : SUBSET Deadlines])]
    /\ crashes \in 0..MaxCrashes
TableTypesOK ==
    /\ table \in [Ids -> SUBSET Stored]
    /\ \A i \in Rows : table[i] = {The(i)} /\ The(i).plan \in Plans[i]
    /\ used \subseteq Ids /\ Rows \subseteq used

LEMMA TypesInParts == SchedulesTypeOK => TableTypesOK /\ OtherTypes
BY DEF SchedulesTypeOK, TableTypesOK, OtherTypes
LEMMA TypesAfter == TableTypesOK' /\ OtherTypes' => SchedulesTypeOK'
BY DEF SchedulesTypeOK, TableTypesOK, OtherTypes

LEMMA TableTypesSame ==
    ASSUME TableTypesOK, UNCHANGED <<table, used>>
    PROVE  TableTypesOK'
BY TheSame DEF TableTypesOK

LEMMA AddTypes ==
    ASSUME SchedulerAssumption, SchedulesTypeOK, NEW i \in Ids, NEW p \in Plans[i], Add(i, p)
    PROVE  SchedulesTypeOK'
<1> DEFINE x == Row(p, NextRun(p, clock))
<1>1. clock \in Nat
    BY DEF SchedulesTypeOK, SchedulerAssumption
<1>2. x \in Stored /\ x.plan \in Plans[i]
    <2>1. NextRun(p, clock) \in Nat
        BY <1>1, NextRunAhead
    <2> QED BY <2>1 DEF Row, Stored, Never
<1>3. table' = [table EXCEPT ![i] = {x}] /\ used' = used \cup {i}
    BY DEF Add, Set
<1> HIDE DEF x
<1>4. TableTypesOK'
    <2>1. i \in used' /\ used \subseteq used' /\ used' \subseteq Ids
        BY <1>3 DEF SchedulesTypeOK
    <2> QED BY <1>2, <1>3, <2>1, TableTypes DEF TableTypesOK
<1>5. OtherTypes'
    BY DEF Add, loops, SchedulesTypeOK, OtherTypes
<1> QED BY <1>4, <1>5, TypesAfter

LEMMA SetEnabledTypes ==
    ASSUME SchedulesTypeOK, NEW i \in Ids, SetEnabled(i)
    PROVE  SchedulesTypeOK'
<1> DEFINE x == [The(i) EXCEPT !.enabled = ~@]
<1>1. i \in Rows
    BY DEF SetEnabled
<1>2. i \in used /\ The(i) \in Stored /\ The(i).plan \in Plans[i]
    BY <1>1, RowTypes
<1>3. x \in Stored /\ x.plan \in Plans[i]
    BY <1>2 DEF Stored
<1>4. table' = [table EXCEPT ![i] = {x}] /\ used' = used
    BY DEF SetEnabled, Set
<1> HIDE DEF x
<1>5. TableTypesOK'
    <2>1. used' \subseteq Ids
        BY <1>4 DEF SchedulesTypeOK
    <2> QED BY <1>2, <1>3, <1>4, <2>1, TableTypes DEF TableTypesOK
<1>6. OtherTypes'
    BY DEF SetEnabled, loops, SchedulesTypeOK, OtherTypes
<1> QED BY <1>5, <1>6, TypesAfter

LEMMA DeleteTypes ==
    ASSUME SchedulesTypeOK, NEW i \in Ids, DeleteSchedule(i)
    PROVE  SchedulesTypeOK'
<1>1. table' = [table EXCEPT ![i] = {}] /\ used' = used
    BY DEF DeleteSchedule
<1>2. TableTypesOK'
    BY <1>1, TheGone DEF TableTypesOK, SchedulesTypeOK
<1>3. OtherTypes'
    BY DEF DeleteSchedule, loops, SchedulesTypeOK, OtherTypes
<1> QED BY <1>2, <1>3, TypesAfter

\* What due() reads is a queue of rows with different ids.
LEMMA AsReadTypes ==
    ASSUME SchedulerAssumption, SchedulesTypeOK,
           NEW ids \in [1..Cardinality(Due) -> Due], InOrder(ids)
    PROVE  /\ Cardinality(Due) \in Nat
           /\ AsRead(ids) \in Seq(Found) /\ DOMAIN AsRead(ids) = 1..Cardinality(Due)
           /\ Due # {} => AsRead(ids) # << >>
           /\ \A n \in 1..Cardinality(Due) :
                /\ ids[n] \in Due /\ ids[n] \in Rows
                /\ AsRead(ids)[n].id = ids[n] /\ AsRead(ids)[n].row = The(ids[n])
                /\ AsRead(ids)[n].targets = IF The(ids[n]).plan.kind = "deadline" THEN Targets(ids[n]) ELSE {}
           /\ \A m, n \in 1..Cardinality(Due) : ids[m] = ids[n] => m = n
<1> DEFINE k == Cardinality(Due)
<1>1. Due \subseteq Ids /\ IsFiniteSet(Due)
    <2>1. Due \subseteq Ids
        BY DEF Due, Rows
    <2> QED BY <2>1, FS_Subset DEF SchedulerAssumption
<1>2. k \in Nat /\ (Due # {} => k # 0)
    BY <1>1, FS_CardinalityType, FS_EmptySet
<1> HIDE DEF k
<1>3. \A n \in 1..k : ids[n] \in Due /\ ids[n] \in Rows /\ ids[n] \in Nat
    BY <1>1 DEF Due, SchedulerAssumption, k
<1>4. ASSUME NEW m \in 1..k, NEW n \in 1..k, ids[m] = ids[n] PROVE m = n
    <2>1. \A a, b \in 1..k : a < b => ids[a] < ids[b]
        BY DEF InOrder, k
    <2>2. ~(m < n) /\ ~(n < m)
        BY <1>3, <1>4, <2>1
    <2> QED BY <1>2, <2>2
<1>5. AsRead(ids) = [n \in 1..k |-> [id |-> ids[n], row |-> The(ids[n]),
          targets |-> IF The(ids[n]).plan.kind = "deadline" THEN Targets(ids[n]) ELSE {}]]
    BY DEF AsRead, k
<1>6. ASSUME NEW n \in 1..k PROVE AsRead(ids)[n] \in Found
    <2>1. ids[n] \in Ids /\ The(ids[n]) \in Stored
        BY <1>1, <1>3, RowTypes
    <2>2. Targets(ids[n]) \subseteq Deadlines
        BY DEF Targets, SchedulesTypeOK
    <2> QED BY <1>5, <2>1, <2>2 DEF Found
<1>7. AsRead(ids) \in Seq(Found) /\ DOMAIN AsRead(ids) = 1..k
    <2>1. AsRead(ids) \in [1..k -> Found]
        BY <1>5, <1>6
    <2> HIDE DEF AsRead
    <2> QED BY <1>2, <2>1
<1>8. Due # {} => AsRead(ids) # << >>
    BY <1>2, <1>7
<1>9. ASSUME NEW n \in 1..k
      PROVE  /\ AsRead(ids)[n].id = ids[n] /\ AsRead(ids)[n].row = The(ids[n])
             /\ AsRead(ids)[n].targets = IF The(ids[n]).plan.kind = "deadline" THEN Targets(ids[n]) ELSE {}
    BY <1>5
<1> HIDE DEF AsRead
<1> QED BY <1>2, <1>3, <1>4, <1>7, <1>8, <1>9 DEF k

LEMMA TickTypes ==
    ASSUME SchedulerAssumption, SchedulesTypeOK, NEW c \in Callers, Tick(c)
    PROVE  SchedulesTypeOK'
<1>1. TableTypesOK'
    BY TypesInParts, TableTypesSame DEF Tick
<1>2. OtherTypes'
    <2>1. CASE MoveLoop(c, "wait") /\ UNCHANGED queue
        BY <2>1 DEF Tick, MoveLoop, SchedulesTypeOK, OtherTypes
    <2>2. CASE /\ MoveLoop(c, "fire")
               /\ \E ids \in [1..Cardinality(Due) -> Due] :
                    InOrder(ids) /\ queue' = [queue EXCEPT ![c] = AsRead(ids)]
        <3>1. PICK ids \in [1..Cardinality(Due) -> Due] :
                 InOrder(ids) /\ queue' = [queue EXCEPT ![c] = AsRead(ids)]
            BY <2>2
        <3>2. AsRead(ids) \in Seq(Found)
            BY <3>1, AsReadTypes
        <3>3. queue' \in [Callers -> Seq(Found)]
            BY <3>1, <3>2 DEF SchedulesTypeOK
        <3> QED BY <2>2, <3>3 DEF Tick, MoveLoop, SchedulesTypeOK, OtherTypes
    <2> QED BY <2>1, <2>2 DEF Tick
<1> QED BY <1>1, <1>2, TypesAfter

LEMMA FireTypes ==
    ASSUME SchedulesTypeOK, NEW c \in Callers, Fire(c), queue[c] # << >>
    PROVE  SchedulesTypeOK'
<1>1. TableTypesOK'
    BY TypesInParts, TableTypesSame DEF Fire
<1>2. Head(queue[c]) \in Found
    BY DEF SchedulesTypeOK
<1>3. Head(queue[c]).targets \subseteq Deadlines
    BY <1>2 DEF Found
<1>4. OtherTypes'
    BY <1>3 DEF Fire, MoveLoop, SchedulesTypeOK, OtherTypes
<1> QED BY <1>1, <1>4, TypesAfter

\* The write of a fired row.
Fired(c, r) == [r EXCEPT !.last = at[c], !.next = NextRun(Head(queue[c]).row.plan, at[c])]

\* It changes the row if it is there.
LEMMA UpdateTable ==
    ASSUME SchedulesTypeOK, NEW c \in Callers, Update(c), NEW i \in Ids, i = Head(queue[c]).id
    PROVE  /\ i \in Rows => table' = [table EXCEPT ![i] = {Fired(c, The(i))}]
           /\ i \notin Rows => table' = table
<1>1. table' = [table EXCEPT ![i] = {Fired(c, r) : r \in table[i]}]
    BY DEF Update, Fired
<1>2. CASE i \in Rows
    <2>1. table[i] = {The(i)}
        BY <1>2, RowTypes
    <2>2. {Fired(c, r) : r \in table[i]} = {Fired(c, The(i))}
        BY <2>1
    <2> QED BY <1>1, <1>2, <2>2
<1>3. CASE i \notin Rows
    <2>1. {Fired(c, r) : r \in table[i]} = table[i]
        BY <1>3 DEF Rows
    <2> QED BY <1>1, <1>3, <2>1 DEF SchedulesTypeOK
<1> QED BY <1>2, <1>3

LEMMA UpdateTypes ==
    ASSUME SchedulerAssumption, SchedulesTypeOK, NEW c \in Callers, Update(c), queue[c] # << >>,
           InQueue(Head(queue[c]))
    PROVE  SchedulesTypeOK'
<1>1. PICK i : i = Head(queue[c]).id
    OBVIOUS
<1>2. Head(queue[c]) \in Found
    BY DEF SchedulesTypeOK
<1>3. i \in Ids
    BY <1>1, <1>2 DEF Found
<1>4. used' = used /\ used \subseteq Ids
    BY DEF Update, SchedulesTypeOK
<1>5. TableTypesOK'
    <2>1. CASE i \in Rows
        <3>1. /\ i \in used /\ The(i) \in Stored /\ The(i).plan \in Plans[i]
            BY <2>1, RowTypes
        <3>2. Head(queue[c]).row.plan = The(i).plan
            BY <1>1, <2>1 DEF InQueue
        <3>3. at[c] \in Nat
            BY DEF SchedulesTypeOK, SchedulerAssumption
        <3>4. NextRun(Head(queue[c]).row.plan, at[c]) \in Nat
            BY <1>3, <3>1, <3>2, <3>3, NextRunAhead
        <3>5. Fired(c, The(i)) \in Stored /\ Fired(c, The(i)).plan \in Plans[i]
            BY <3>1, <3>3, <3>4 DEF Fired, Stored
        <3>6. table' = [table EXCEPT ![i] = {Fired(c, The(i))}]
            BY <1>1, <1>3, <2>1, UpdateTable
        <3>7. \A x : x = Fired(c, The(i)) => TableTypesOK'
            BY <1>3, <1>4, <3>1, <3>5, <3>6, TableTypes DEF TableTypesOK
        <3> QED BY <3>7
    <2>2. CASE i \notin Rows
        BY <1>1, <1>3, <1>4, <2>2, UpdateTable, TableTypesSame, TypesInParts
    <2> QED BY <2>1, <2>2
<1>6. OtherTypes'
    BY DEF Update, MoveLoop, SchedulesTypeOK, OtherTypes
<1> QED BY <1>5, <1>6, TypesAfter

LEMMA LaunchTypes ==
    ASSUME SchedulesTypeOK, NEW c \in Callers, Launch(c), queue[c] # << >>
    PROVE  SchedulesTypeOK'
<1>1. TableTypesOK'
    BY TypesInParts, TableTypesSame DEF Launch
<1>2. Head(queue[c]) \in Found /\ Tail(queue[c]) \in Seq(Found)
    BY DEF SchedulesTypeOK
<1>3. PICK f \in Found : f = Head(queue[c])
    BY <1>2
<1>4. f.id \in Ids /\ [next |-> f.row.next, targets |-> f.targets] \in [next : Nat, targets : SUBSET Deadlines]
    BY DEF Found, Stored
<1>5. runs' = [runs EXCEPT ![f.id] = Append(@, [next |-> f.row.next, targets |-> f.targets])]
    BY <1>3 DEF Launch
<1>6. runs' \in [Ids -> Seq([next : Nat, targets : SUBSET Deadlines])]
    <2> DEFINE x == [next |-> f.row.next, targets |-> f.targets]
               R == [next : Nat, targets : SUBSET Deadlines]
    <2>1. x \in R /\ runs \in [Ids -> Seq(R)] /\ runs' = [runs EXCEPT ![f.id] = Append(@, x)]
        BY <1>4, <1>5 DEF SchedulesTypeOK
    <2> HIDE DEF x, R
    <2>2. Append(runs[f.id], x) \in Seq(R)
        BY <1>4, <2>1
    <2>3. runs' \in [Ids -> Seq(R)]
        BY <1>4, <2>1, <2>2
    <2> QED BY <2>3 DEF R
<1>7. queue' \in [Callers -> Seq(Found)]
    BY <1>2 DEF Launch, SchedulesTypeOK
<1>8. OtherTypes'
    BY <1>6, <1>7 DEF Launch, MoveLoop, SchedulesTypeOK, OtherTypes
<1> QED BY <1>1, <1>8, TypesAfter

LEMMA QuietTypes ==
    ASSUME SchedulerAssumption, SchedulesTypeOK,
           \/ \E c \in Callers : StartLoop(c) \/ Wake(c)
           \/ Advance \/ Track \/ Stop \/ Crash \/ UNCHANGED schedulerVars
    PROVE  SchedulesTypeOK'
<1>1. UNCHANGED <<table, used>>
    BY DEF StartLoop, Wake, Advance, Track, Stop, Crash, schedulerVars, loops
<1>2. TableTypesOK'
    BY <1>1, TypesInParts, TableTypesSame
<1>3. OtherTypes'
    <2> USE DEF SchedulesTypeOK, OtherTypes, MoveLoop, loops
    <2>1. ASSUME NEW c \in Callers, StartLoop(c) PROVE OtherTypes'
        BY <2>1 DEF StartLoop
    <2>2. ASSUME NEW c \in Callers, Wake(c) PROVE OtherTypes'
        BY <2>2 DEF Wake
    <2>3. CASE Advance
        <3>1. clock' \in 1..MaxTime
            BY <2>3 DEF Advance, SchedulerAssumption
        <3> QED BY <2>3, <3>1 DEF Advance
    <2>4. CASE Track
        BY <2>4 DEF Track
    <2>5. CASE Stop
        BY <2>5 DEF Stop
    <2>6. CASE Crash
        <3>1. crashes' \in 0..MaxCrashes
            BY <2>6 DEF Crash, SchedulerAssumption
        <3>2. /\ loop' \in [Callers -> {"none", "tick", "fire", "update", "launch", "wait", "ended"}]
              /\ queue' \in [Callers -> Seq(Found)]
            BY <2>6 DEF Crash
        <3> QED BY <2>6, <3>1, <3>2 DEF Crash
    <2>7. CASE UNCHANGED schedulerVars
        BY <2>7 DEF schedulerVars
    <2> QED BY <2>1, <2>2, <2>3, <2>4, <2>5, <2>6, <2>7
<1> QED BY <1>2, <1>3, TypesAfter

LEMMA SchedulesTypes ==
    ASSUME SchedulerAssumption, SchedulesTypeOK, \A c \in Callers : Queued(c), [SchedulerNext]_schedulerVars
    PROVE  SchedulesTypeOK'
<1>1. ASSUME NEW c \in Callers, loop[c] \in {"fire", "update", "launch"}
      PROVE  queue[c] # << >> /\ InQueue(Head(queue[c]))
    <2>1. queue[c] # << >> /\ \A n \in DOMAIN queue[c] : InQueue(queue[c][n])
        BY <1>1 DEF Queued
    <2>2. queue[c] \in Seq(Found)
        BY DEF SchedulesTypeOK
    <2>3. 1 \in DOMAIN queue[c] /\ Head(queue[c]) = queue[c][1]
        BY <2>1, <2>2
    <2> QED BY <2>1, <2>3
<1>2. ASSUME NEW c \in Callers, LoopStep(c) PROVE SchedulesTypeOK'
    <2>1. CASE Fire(c)
        BY <1>1, <2>1, FireTypes DEF Fire
    <2>2. CASE Update(c)
        BY <1>1, <2>2, UpdateTypes DEF Update
    <2>3. CASE Launch(c)
        BY <1>1, <2>3, LaunchTypes DEF Launch
    <2> QED BY <1>2, <2>1, <2>2, <2>3, TickTypes, QuietTypes DEF LoopStep
<1> QED BY <1>2, AddTypes, SetEnabledTypes, DeleteTypes, QuietTypes DEF SchedulerNext

-------------------------------------------------------------------------------
(* Requests edit rows.                                                       *)

\* A row an edit leaves: one of before with its plan and times, or a new one.
Edited(i) ==
    i \in Rows' =>
      \/ /\ i \in Rows /\ The(i)'.plan = The(i).plan
         /\ The(i)'.next = The(i).next /\ The(i)'.last = The(i).last
      \/ /\ i \notin used /\ The(i)'.last = Never
         /\ The(i)'.plan.kind # "deadline" /\ The(i)'.next # Never => The(i)'.next > Never

\* What holds of the rows' histories alone.
LEMMA SameHistory ==
    ASSUME UNCHANGED runs
    PROVE  \A i : Timed(i)' = Timed(i) /\ LastSet(i)' = LastSet(i)
BY DEF Timed, LastSet

LEMMA SameAlone ==
    ASSUME UNCHANGED <<runs, crashes>>
    PROVE  \A i : Alone(i)' = Alone(i)
BY DEF Alone, Timed

LEMMA HeadIn ==
    ASSUME SchedulesTypeOK, NEW c \in Callers, Queued(c), queue[c] # << >>
    PROVE  /\ Head(queue[c]) \in Found /\ InQueue(Head(queue[c]))
           /\ 1 \in DOMAIN queue[c] /\ Head(queue[c]) = queue[c][1]
<1>1. queue[c] \in Seq(Found)
    BY DEF SchedulesTypeOK
<1>2. 1 \in DOMAIN queue[c] /\ Head(queue[c]) = queue[c][1] /\ Head(queue[c]) \in Found
    BY <1>1
<1> QED BY <1>2 DEF Queued

LEMMA EditKeeps ==
    ASSUME SchedulerInv, \A i \in Ids : Edited(i), used \subseteq used',
           UNCHANGED <<seen, clock, looping, loop, queue, at, runs, crashes>>
    PROVE  /\ OneLoop' /\ \A c \in Callers : Queued(c)' /\ Firing(c)'
           /\ \A i \in Ids : RowInv(i)'
<1>0. /\ SchedulesTypeOK /\ OneLoop /\ \A c \in Callers : Queued(c) /\ Firing(c)
      /\ \A i \in Ids : RowInv(i)
    BY DEF SchedulerInv
<1>1. OneLoop'
    BY <1>0 DEF OneLoop
<1>2. ASSUME NEW e, InQueue(e) PROVE InQueue(e)'
    <2>1. e.id \in Ids
        BY <1>0, <1>2 DEF InQueue, SchedulesTypeOK
    <2>2. e.id \in Rows' => The(e.id)'.plan = e.row.plan
        BY <1>2, <2>1 DEF InQueue, Edited
    <2>3. Timed(e.id)' = Timed(e.id)
        BY SameHistory
    <2> QED BY <1>2, <2>2, <2>3 DEF InQueue
<1>3. ASSUME NEW c \in Callers PROVE Queued(c)'
    <2>1. Queued(c) /\ queue' = queue /\ loop' = loop
        BY <1>0
    <2> QED BY <1>2, <2>1 DEF Queued
<1>4. ASSUME NEW c \in Callers PROVE Firing(c)'
    <2>1. Firing(c) /\ Queued(c)
        BY <1>0
    <2>2. SUFFICES ASSUME loop[c] = "launch", Head(queue[c]).targets = {}, Head(queue[c]).id \in Rows'
                   PROVE  The(Head(queue[c]).id)'.next = Never
                            \/ Head(queue[c]).row.next < The(Head(queue[c]).id)'.next
        BY <2>1 DEF Firing
    <2>3. PICK h : h = Head(queue[c])
        OBVIOUS
    <2>4. InQueue(h)
        BY <1>0, <2>1, <2>2, <2>3, HeadIn DEF Queued
    <2>5. h.id \in Ids /\ h.id \in used
        BY <1>0, <2>4 DEF InQueue, SchedulesTypeOK
    <2>6. h.id \in Rows /\ The(h.id)'.next = The(h.id).next
        BY <2>2, <2>3, <2>5 DEF Edited
    <2> QED BY <2>1, <2>2, <2>3, <2>6 DEF Firing
<1>5. ASSUME NEW i \in Ids PROVE RowInv(i)'
    <2>0. Unused(i) /\ Waits(i) /\ Distinct(i) /\ Recorded(i) /\ Changed(i)
        BY <1>0 DEF RowInv
    <2>1. Unused(i)'
        BY <2>0 DEF Unused
    <2>2. Waits(i)'
        <3>1. SUFFICES ASSUME i \in Rows', The(i)'.plan.kind # "deadline", The(i)'.next # Never
                       PROVE  /\ The(i)'.next > The(i)'.last
                              /\ \A n \in Timed(i)' : runs'[i][n].next < The(i)'.next
            BY DEF Waits
        <3>2. CASE i \in Rows /\ The(i)'.plan = The(i).plan
                   /\ The(i)'.next = The(i).next /\ The(i)'.last = The(i).last
            BY <2>0, <3>1, <3>2, SameHistory DEF Waits
        <3>3. CASE i \notin used /\ The(i)'.last = Never /\ The(i)'.next > Never
            <4>1. Timed(i)' = {}
                BY <2>0, <3>3 DEF Unused, Timed
            <4> QED BY <3>3, <4>1
        <3> QED BY <3>1, <3>2, <3>3 DEF Edited
    <2>3. Distinct(i)'
        BY <2>0, SameHistory DEF Distinct
    <2>4. Recorded(i)'
        BY <2>0, SameHistory, SameAlone DEF Recorded
    <2>5. Changed(i)'
        BY <2>0, SameHistory, SameAlone DEF Changed
    <2> QED BY <2>1, <2>2, <2>3, <2>4, <2>5 DEF RowInv
<1> QED BY <1>1, <1>3, <1>4, <1>5

LEMMA AddEdits ==
    ASSUME SchedulerAssumption, SchedulesTypeOK, NEW i \in Ids, NEW p \in Plans[i], Add(i, p)
    PROVE  \A j \in Ids : Edited(j)
<1> DEFINE x == Row(p, NextRun(p, clock))
<1>1. clock \in Nat /\ clock > 0
    BY DEF SchedulesTypeOK, SchedulerAssumption
<1>2. /\ x.last = Never /\ x.plan = p /\ x.next = NextRun(p, clock)
      /\ i \notin used /\ table' = [table EXCEPT ![i] = {x}]
    BY DEF Add, Set, Row
<1>3. x.plan.kind # "deadline" /\ x.next # Never => x.next > Never
    <2>1. p.kind # "deadline" /\ NextRun(p, clock) # Never => NextRun(p, clock) > clock
        BY <1>1, NextRunAhead
    <2>2. NextRun(p, clock) \in Nat
        BY <1>1, NextRunAhead
    <2> QED BY <1>1, <1>2, <2>1, <2>2 DEF Never
<1> HIDE DEF x
<1>4. PICK y : y = x
    OBVIOUS
<1>5. /\ The(i)' = y /\ Rows' = Rows \cup {i} /\ \A j \in Ids \ {i} : The(j)' = The(j)
    BY <1>2, <1>4, TheAfter
<1> QED BY <1>2, <1>3, <1>4, <1>5 DEF Edited

LEMMA SetEnabledEdits ==
    ASSUME SchedulesTypeOK, NEW i \in Ids, SetEnabled(i)
    PROVE  \A j \in Ids : Edited(j)
<1>1. i \in Rows /\ The(i) \in Stored
    BY RowTypes DEF SetEnabled
<1>2. PICK y : y = [The(i) EXCEPT !.enabled = ~@]
    OBVIOUS
<1>3. y.plan = The(i).plan /\ y.next = The(i).next /\ y.last = The(i).last
    BY <1>1, <1>2 DEF Stored
<1>4. table' = [table EXCEPT ![i] = {y}]
    BY <1>2 DEF SetEnabled, Set
<1>5. /\ The(i)' = y /\ Rows' = Rows \cup {i} /\ \A j \in Ids \ {i} : The(j)' = The(j)
    BY <1>4, TheAfter
<1> QED BY <1>1, <1>3, <1>5 DEF Edited

LEMMA DeleteEdits ==
    ASSUME SchedulesTypeOK, NEW i \in Ids, DeleteSchedule(i)
    PROVE  \A j \in Ids : Edited(j)
<1>1. Rows' = Rows \ {i} /\ \A j \in Ids \ {i} : The(j)' = The(j)
    BY TheGone DEF DeleteSchedule
<1> QED BY <1>1 DEF Edited

-------------------------------------------------------------------------------
(* What fires nothing.                                                       *)

Busy == {"fire", "update", "launch"}
LEMMA QuietKeeps ==
    ASSUME SchedulerInv, clock \in Nat, clock' \in Nat, clock <= clock',
           UNCHANGED <<table, used, seen, queue, at, runs, crashes>>, OneLoop',
           \A c \in Callers : loop[c] \in Busy \/ loop'[c] \in Busy => loop'[c] = loop[c]
    PROVE  /\ \A c \in Callers : Queued(c)' /\ Firing(c)'
           /\ \A i \in Ids : RowInv(i)'
<1>0. /\ SchedulesTypeOK /\ OneLoop /\ \A c \in Callers : Queued(c) /\ Firing(c)
      /\ \A i \in Ids : RowInv(i)
    BY DEF SchedulerInv
<1>t. Rows' = Rows /\ \A j : The(j)' = The(j)
    BY TheSame
<1>2. ASSUME NEW e, InQueue(e) PROVE InQueue(e)'
    <2>1. e.targets = {} => e.row.next \in 1..clock'
        BY <1>2 DEF InQueue
    <2>3. Timed(e.id)' = Timed(e.id)
        BY SameHistory
    <2> QED BY <1>t, <1>2, <2>1, <2>3 DEF InQueue
<1>3. ASSUME NEW c \in Callers PROVE Queued(c)'
    <2>1. Queued(c) /\ queue' = queue /\ (loop[c] \in Busy <=> loop'[c] \in Busy)
        BY <1>0
    <2> QED BY <1>2, <2>1 DEF Queued, Busy
<1>4. ASSUME NEW c \in Callers PROVE Firing(c)'
    <2>1. Firing(c) /\ (loop'[c] \in Busy => loop'[c] = loop[c])
        BY <1>0
    <2> QED BY <1>t, <2>1 DEF Firing, Busy
<1>5. ASSUME NEW i \in Ids PROVE RowInv(i)'
    <2>0. Unused(i) /\ Waits(i) /\ Distinct(i) /\ Recorded(i) /\ Changed(i)
        BY <1>0 DEF RowInv
    <2>1. Unused(i)'
        BY <2>0 DEF Unused
    <2>2. Waits(i)'
        BY <2>0, <1>t, SameHistory DEF Waits
    <2>3. Distinct(i)'
        BY <2>0, SameHistory DEF Distinct
    <2>4. Recorded(i)'
        BY <2>0, SameHistory, SameAlone DEF Recorded, Busy
    <2>5. Changed(i)'
        BY <2>0, SameHistory, SameAlone DEF Changed
    <2> QED BY <2>1, <2>2, <2>3, <2>4, <2>5 DEF RowInv
<1> QED BY <1>3, <1>4, <1>5

LEMMA CrashKeeps ==
    ASSUME SchedulerInv, Crash, SchedulesTypeOK'
    PROVE  /\ OneLoop' /\ \A c \in Callers : Queued(c)' /\ Firing(c)'
           /\ \A i \in Ids : RowInv(i)'
<1>0. /\ SchedulesTypeOK /\ \A i \in Ids : RowInv(i)
    BY DEF SchedulerInv
<1>1. \A c \in Callers : loop'[c] = "none" /\ queue'[c] = << >>
    BY DEF Crash
<1>2. OneLoop'
    BY <1>1 DEF OneLoop
<1>3. \A c \in Callers : Queued(c)' /\ Firing(c)'
    BY <1>1 DEF Queued, Firing
<1>4. crashes' # 0 /\ UNCHANGED <<table, used, runs>>
    BY <1>0 DEF Crash, SchedulesTypeOK
<1>5. ASSUME NEW i \in Ids PROVE RowInv(i)'
    <2>0. Unused(i) /\ Waits(i) /\ Distinct(i)
        BY <1>0 DEF RowInv
    <2>1. Unused(i)'
        BY <1>4, <2>0 DEF Unused
    <2>2. Waits(i)'
        BY <1>4, <2>0, TheSame, SameHistory DEF Waits
    <2>3. Distinct(i)'
        BY <1>4, <2>0, SameHistory DEF Distinct
    <2>4. ~Alone(i)'
        BY <1>4 DEF Alone
    <2>5. Recorded(i)' /\ Changed(i)'
        BY <2>4 DEF Recorded, Changed
    <2> QED BY <2>1, <2>2, <2>3, <2>5 DEF RowInv
<1> QED BY <1>2, <1>3, <1>5

-------------------------------------------------------------------------------
(* The loop fires.                                                           *)

\* Nobody but the caller with the loop has a queue.
LEMMA OthersIdle ==
    ASSUME SchedulerInv, NEW c \in Callers, loop[c] # "none", NEW d \in Callers, d # c
    PROVE  loop[d] = "none" /\ queue[d] = << >>
<1>1. OneLoop /\ Queued(d)
    BY DEF SchedulerInv
<1>2. loop[d] = "none"
    BY <1>1 DEF OneLoop
<1> QED BY <1>1, <1>2 DEF Queued

LEMMA OneLoopMoves ==
    ASSUME SchedulesTypeOK, OneLoop, NEW c \in Callers, loop[c] # "none", NEW label,
           MoveLoop(c, label), looping' = looping
    PROVE  /\ OneLoop' /\ loop'[c] = label
           /\ \A d \in Callers \ {c} : loop'[d] = loop[d]
<1>1. loop'[c] = label /\ \A d \in Callers \ {c} : loop'[d] = loop[d]
    BY DEF MoveLoop, SchedulesTypeOK
<1>2. looping
    BY DEF OneLoop
<1>3. \A d \in Callers \ {c} : loop[d] = "none"
    BY DEF OneLoop
<1>4. OneLoop'
    BY <1>1, <1>2, <1>3 DEF OneLoop
<1> QED BY <1>1, <1>4

LEMMA TickKeeps ==
    ASSUME SchedulerAssumption, SchedulerInv, NEW c \in Callers, loop[c] = "tick",
           MoveLoop(c, "fire"), Due # {}, NEW ids \in [1..Cardinality(Due) -> Due], InOrder(ids),
           queue' = [queue EXCEPT ![c] = AsRead(ids)],
           UNCHANGED <<table, used, seen, tracked, clock, looping, stopping, at, runs, crashes>>
    PROVE  /\ OneLoop' /\ \A d \in Callers : Queued(d)' /\ Firing(d)'
           /\ \A i \in Ids : RowInv(i)'
<1>0. /\ SchedulesTypeOK /\ OneLoop /\ \A d \in Callers : Queued(d) /\ Firing(d)
      /\ \A i \in Ids : RowInv(i)
    BY DEF SchedulerInv
<1> DEFINE N == Cardinality(Due)
<1> HIDE DEF N
<1>t. Rows' = Rows /\ \A j : The(j)' = The(j)
    BY TheSame
<1>1. OneLoop' /\ loop'[c] = "fire" /\ \A d \in Callers \ {c} : loop'[d] = loop[d]
    BY <1>0, OneLoopMoves
<1>o. \A d \in Callers \ {c} : loop[d] = "none" /\ queue[d] = << >>
    BY OthersIdle
<1>2. queue'[c] = AsRead(ids) /\ \A d \in Callers \ {c} : queue'[d] = << >>
    BY <1>0, <1>o DEF SchedulesTypeOK
<1>3. /\ N \in Nat /\ AsRead(ids) # << >> /\ DOMAIN AsRead(ids) = 1..N
      /\ \A n \in 1..N :
           /\ ids[n] \in Due /\ ids[n] \in Rows
           /\ AsRead(ids)[n].id = ids[n] /\ AsRead(ids)[n].row = The(ids[n])
           /\ AsRead(ids)[n].targets = IF The(ids[n]).plan.kind = "deadline" THEN Targets(ids[n]) ELSE {}
      /\ \A m, n \in 1..N : ids[m] = ids[n] => m = n
    BY <1>0, AsReadTypes DEF N
<1>p. PICK q : q = AsRead(ids)
    OBVIOUS
<1>q. queue'[c] = q /\ DOMAIN q = 1..N /\ q # << >>
    BY <1>2, <1>3, <1>p
<1>4. ASSUME NEW n \in 1..N
      PROVE  /\ q[n].id \in Rows /\ q[n].row = The(q[n].id)
             /\ \/ /\ q[n].targets = {} /\ q[n].row.plan.kind # "deadline"
                   /\ q[n].row.next # Never /\ q[n].row.next <= clock
                \/ /\ q[n].targets # {} /\ q[n].row.plan.kind = "deadline" /\ q[n].targets # seen
    <2>1. PICK j : j = ids[n]
        OBVIOUS
    <2>2. j \in Due /\ j \in Rows /\ q[n].id = j /\ q[n].row = The(j)
          /\ q[n].targets = IF The(j).plan.kind = "deadline" THEN Targets(j) ELSE {}
        BY <1>3, <1>p, <2>1
    <2>3. IF The(j).plan.kind = "deadline" THEN Untouched(j) ELSE Reached(j)
        BY <2>2 DEF Due, IsDue
    <2> QED BY <2>2, <2>3 DEF Untouched, Reached
<1>5. ASSUME NEW n \in 1..N PROVE InQueue(q[n])'
    <2>1. PICK e : e = q[n]
        OBVIOUS
    <2>2. /\ e.id \in Rows /\ e.row = The(e.id)
          /\ \/ e.targets = {} /\ e.row.plan.kind # "deadline" /\ e.row.next # Never /\ e.row.next <= clock
             \/ e.targets # {} /\ e.row.plan.kind = "deadline"
        BY <1>4, <2>1
    <2>3. e.id \in Ids /\ e.id \in used /\ e.row \in Stored
        BY <1>0, <2>2, RowTypes
    <2>4. e.targets = {} => e.row.next \in 1..clock
        BY <1>0, <2>2, <2>3 DEF Stored, Never, SchedulesTypeOK
    <2>5. e.targets = {} => \A k \in Timed(e.id) : runs[e.id][k].next < e.row.next
        BY <1>0, <2>2, <2>3 DEF RowInv, Waits
    <2>6. InQueue(e)'
        BY <1>t, <2>2, <2>3, <2>4, <2>5, SameHistory DEF InQueue
    <2> QED BY <2>1, <2>6
<1>6. ASSUME NEW d \in Callers PROVE Queued(d)'
    <2>1. CASE d = c
        <3>1. \A m, n \in 1..N : q[m].id = q[n].id => m = n
            BY <1>3, <1>p
        <3>2. \A n \in DOMAIN queue'[c] : InQueue(queue[c][n])'
            <4>1. ASSUME NEW n \in DOMAIN q PROVE InQueue(q[n])'
                BY <1>q, <1>5
            <4> QED BY <1>q, <4>1
        <3>3. \A m, n \in DOMAIN queue'[c] : queue'[c][m].id = queue'[c][n].id => m = n
            <4>1. \A m, n \in DOMAIN q : q[m].id = q[n].id => m = n
                BY <1>q, <3>1
            <4> QED BY <1>q, <4>1, ZenonT(20)
        <3>4. loop'[c] \in {"fire", "update", "launch"} /\ queue'[c] # << >>
            BY <1>1, <1>q
        <3>5. Queued(c)'
            BY <3>2, <3>3, <3>4 DEF Queued
        <3> QED BY <2>1, <3>5
    <2>2. CASE d # c
        BY <1>1, <1>o, <1>2, <2>2 DEF Queued
    <2> QED BY <2>1, <2>2
<1>7. ASSUME NEW d \in Callers PROVE Firing(d)'
    BY <1>1, <1>o DEF Firing
<1>8. ASSUME NEW i \in Ids PROVE RowInv(i)'
    <2>0. Unused(i) /\ Waits(i) /\ Distinct(i) /\ Recorded(i) /\ Changed(i)
        BY <1>0 DEF RowInv
    <2>1. Unused(i)' /\ Waits(i)' /\ Distinct(i)'
        BY <1>t, <2>0, SameHistory DEF Unused, Waits, Distinct
    <2>2. Alone(i) /\ LastSet(i) # {} => seen = LastSet(i)
        BY <1>o, <2>0 DEF Recorded
    <2>3. Recorded(i)'
        BY <2>2, SameHistory, SameAlone DEF Recorded
    <2>4. ASSUME Alone(i), NEW d \in Callers, NEW n \in DOMAIN queue'[d],
                 queue'[d][n].id = i, queue'[d][n].targets # {}
          PROVE  queue'[d][n].targets # LastSet(i)
        <3>1. d = c
            <4>1. DOMAIN << >> = {}
                OBVIOUS
            <4> QED BY <1>2, <2>4, <4>1
        <3>n. n \in 1..N
            BY <1>q, <2>4, <3>1
        <3>2. q[n].targets # {} /\ q[n].targets # seen
            BY <1>q, <1>4, <2>4, <3>1, <3>n
        <3> QED BY <1>q, <2>2, <2>4, <3>1, <3>2
    <2>5. Changed(i)'
        BY <2>0, <2>4, SameHistory, SameAlone DEF Changed
    <2> QED BY <2>1, <2>3, <2>5 DEF RowInv
<1> QED BY <1>1, <1>6, <1>7, <1>8

LEMMA FireKeeps ==
    ASSUME SchedulerInv, NEW c \in Callers, Fire(c)
    PROVE  /\ OneLoop' /\ \A d \in Callers : Queued(d)' /\ Firing(d)'
           /\ \A i \in Ids : RowInv(i)'
<1>0. /\ SchedulesTypeOK /\ OneLoop /\ \A d \in Callers : Queued(d) /\ Firing(d)
      /\ \A i \in Ids : RowInv(i)
    BY DEF SchedulerInv
<1>f. /\ loop[c] = "fire" /\ MoveLoop(c, "update") /\ at' = [at EXCEPT ![c] = clock]
      /\ seen' = (IF Head(queue[c]).targets = {} THEN seen ELSE Head(queue[c]).targets)
      /\ UNCHANGED <<table, used, clock, looping, queue, runs, crashes>>
    BY DEF Fire
<1>t. Rows' = Rows /\ \A j : The(j)' = The(j)
    BY <1>f, TheSame
<1>1. OneLoop' /\ loop'[c] = "update" /\ \A d \in Callers \ {c} : loop'[d] = loop[d]
    BY <1>0, <1>f, OneLoopMoves
<1>o. \A d \in Callers \ {c} : loop[d] = "none" /\ queue[d] = << >>
    BY <1>f, OthersIdle
<1>2. ASSUME NEW e, InQueue(e) PROVE InQueue(e)'
    <2>1. Timed(e.id)' = Timed(e.id)
        BY <1>f, SameHistory
    <2> QED BY <1>f, <1>t, <1>2, <2>1 DEF InQueue
<1>3. ASSUME NEW d \in Callers PROVE Queued(d)'
    <2>1. Queued(d) /\ queue' = queue
        BY <1>0, <1>f
    <2>2. loop[d] \in Busy <=> loop'[d] \in Busy
        BY <1>f, <1>1 DEF Busy
    <2> QED BY <1>2, <2>1, <2>2 DEF Queued, Busy
<1>4. ASSUME NEW d \in Callers PROVE Firing(d)'
    <2>1. CASE d # c
        BY <1>1, <1>o, <2>1 DEF Firing
    <2>2. CASE d = c
        <3>1. queue[c] # << >> /\ InQueue(Head(queue[c]))
            BY <1>0, <1>f, HeadIn DEF Queued
        <3>2. Head(queue[c]).targets = {} => Head(queue[c]).row.next <= clock
            BY <3>1, <1>0 DEF InQueue, SchedulesTypeOK
        <3>3. at'[c] = clock
            BY <1>0, <1>f DEF SchedulesTypeOK
        <3> QED BY <1>1, <1>f, <2>2, <3>2, <3>3 DEF Firing
    <2> QED BY <2>1, <2>2
<1>5. ASSUME NEW i \in Ids PROVE RowInv(i)'
    <2>0. Unused(i) /\ Waits(i) /\ Distinct(i) /\ Recorded(i) /\ Changed(i)
        BY <1>0 DEF RowInv
    <2>1. Unused(i)' /\ Waits(i)' /\ Distinct(i)'
        BY <1>f, <1>t, <2>0, SameHistory DEF Unused, Waits, Distinct
    <2>2. Alone(i) /\ LastSet(i) # {} => seen = LastSet(i)
        BY <1>f, <1>o, <2>0 DEF Recorded
    <2>3. Recorded(i)'
        <3>1. CASE Head(queue[c]).targets = {}
            BY <1>f, <2>2, <3>1, SameHistory, SameAlone DEF Recorded
        <3>2. CASE Head(queue[c]).targets # {}
            BY <1>f, <1>1, <3>2 DEF Recorded
        <3> QED BY <3>1, <3>2
    <2>4. Changed(i)'
        BY <1>f, <2>0, SameHistory, SameAlone DEF Changed
    <2> QED BY <2>1, <2>3, <2>4 DEF RowInv
<1> QED BY <1>1, <1>3, <1>4, <1>5

\* The fired row waits for a later occurrence; it is not another schedule.
LEMMA UpdateRow ==
    ASSUME SchedulerAssumption, SchedulerInv, NEW c \in Callers, Update(c), NEW h, h = Head(queue[c])
    PROVE  /\ h.id \in Ids /\ h.id \in used /\ InQueue(h) /\ queue[c] # << >> /\ Rows' = Rows
           /\ \A j \in Ids \ {h.id} : The(j)' = The(j)
           /\ h.id \in Rows =>
                /\ The(h.id)'.plan = The(h.id).plan
                /\ h.targets = {} /\ The(h.id)'.next # Never =>
                     The(h.id)'.next > at[c] /\ The(h.id)'.next > The(h.id)'.last
<1>0. /\ SchedulesTypeOK /\ Queued(c) /\ loop[c] = "update"
    BY DEF SchedulerInv, Update
<1>1. queue[c] # << >> /\ InQueue(h) /\ h \in Found
    BY <1>0, HeadIn DEF Queued
<1>2. h.id \in Ids /\ h.id \in used
    BY <1>1 DEF Found, InQueue
<1>3. CASE h.id \notin Rows
    BY <1>0, <1>1, <1>2, <1>3, UpdateTable, TheSame
<1>4. CASE h.id \in Rows
    <2>1. PICK i : i = h.id
        OBVIOUS
    <2>2. i \in Ids /\ i \in Rows /\ The(i) \in Stored /\ The(i).plan \in Plans[i]
        BY <1>0, <1>4, <2>1, RowTypes
    <2>3. PICK x : x = Fired(c, The(i))
        OBVIOUS
    <2>4. table' = [table EXCEPT ![i] = {x}]
        BY <1>0, <2>1, <2>2, <2>3, UpdateTable
    <2>5. The(i)' = x /\ Rows' = Rows \cup {i} /\ \A j \in Ids \ {i} : The(j)' = The(j)
        BY <1>0, <2>2, <2>4, TheAfter
    <2>6. x.plan = The(i).plan /\ x.last = at[c] /\ x.next = NextRun(h.row.plan, at[c])
        BY <2>2, <2>3 DEF Fired, Stored
    <2>7. at[c] \in Nat /\ h.row.plan \in Plans[i]
        <3>1. at[c] \in Nat
            BY <1>0 DEF SchedulesTypeOK, SchedulerAssumption
        <3>2. The(i).plan = h.row.plan
            BY <1>1, <2>1, <2>2 DEF InQueue
        <3> QED BY <2>2, <3>1, <3>2
    <2>8. h.row.plan.kind # "deadline" /\ x.next # Never => x.next > at[c]
        <3>1. PICK p \in Plans[i] : p = h.row.plan
            BY <2>7
        <3>2. PICK now \in Nat : now = at[c]
            BY <2>7
        <3>3. p.kind # "deadline" /\ NextRun(p, now) # Never => NextRun(p, now) > now
            BY <2>2, NextRunAhead
        <3> QED BY <2>6, <3>1, <3>2, <3>3
    <2>9. h.targets = {} => h.row.plan.kind # "deadline"
        BY <1>1 DEF InQueue
    <2>10. h.targets = {} /\ x.next # Never => x.next > at[c] /\ x.next > x.last
        BY <2>6, <2>8, <2>9
    <2> QED BY <1>1, <1>2, <2>1, <2>2, <2>5, <2>6, <2>10
<1> QED BY <1>3, <1>4

LEMMA UpdateKeeps ==
    ASSUME SchedulerAssumption, SchedulerInv, NEW c \in Callers, Update(c)
    PROVE  /\ OneLoop' /\ \A d \in Callers : Queued(d)' /\ Firing(d)'
           /\ \A i \in Ids : RowInv(i)'
<1>0. /\ SchedulesTypeOK /\ OneLoop /\ \A d \in Callers : Queued(d) /\ Firing(d)
      /\ \A i \in Ids : RowInv(i)
    BY DEF SchedulerInv
<1>u. /\ loop[c] = "update" /\ MoveLoop(c, "launch")
      /\ UNCHANGED <<used, seen, clock, looping, queue, at, runs, crashes>>
    BY DEF Update
<1>1. OneLoop' /\ loop'[c] = "launch" /\ \A d \in Callers \ {c} : loop'[d] = loop[d]
    BY <1>0, <1>u, OneLoopMoves
<1>o. \A d \in Callers \ {c} : loop[d] = "none" /\ queue[d] = << >>
    BY <1>u, OthersIdle
<1>h. PICK h : h = Head(queue[c])
    OBVIOUS
<1>r. /\ h.id \in Ids /\ h.id \in used /\ InQueue(h) /\ Rows' = Rows
      /\ \A j \in Ids \ {h.id} : The(j)' = The(j)
      /\ h.id \in Rows =>
           /\ The(h.id)'.plan = The(h.id).plan
           /\ h.targets = {} /\ The(h.id)'.next # Never =>
                The(h.id)'.next > at[c] /\ The(h.id)'.next > The(h.id)'.last
    BY <1>h, UpdateRow
<1>p. \A j \in Rows : The(j)'.plan = The(j).plan
    BY <1>r DEF Rows
<1>2. ASSUME NEW e, InQueue(e) PROVE InQueue(e)'
    <2>1. Timed(e.id)' = Timed(e.id)
        BY <1>u, SameHistory
    <2>2. e.id \in Rows' => The(e.id)'.plan = e.row.plan
        BY <1>p, <1>r, <1>2 DEF InQueue
    <2> QED BY <1>u, <1>2, <2>1, <2>2 DEF InQueue
<1>3. ASSUME NEW d \in Callers PROVE Queued(d)'
    <2>1. Queued(d) /\ queue' = queue
        BY <1>0, <1>u
    <2>2. loop[d] \in Busy <=> loop'[d] \in Busy
        BY <1>u, <1>1 DEF Busy
    <2> QED BY <1>2, <2>1, <2>2 DEF Queued, Busy
<1>a. h.targets = {} => h.row.next <= at[c]
    BY <1>0, <1>h, <1>u DEF Firing
<1>n. /\ at[c] \in Nat /\ h.row.next \in Nat
      /\ \A j \in Ids : \A n \in DOMAIN runs[j] : runs[j][n].next \in Nat
      /\ \A j \in Rows' : The(j)'.next \in Nat
    <2>1. SchedulesTypeOK'
        BY <1>0, <1>h, UpdateRow, UpdateTypes
    <2>2. \A j \in Rows' : The(j)' \in Stored
        BY <2>1 DEF SchedulesTypeOK, Rows, The
    <2>3. h \in Found
        BY <1>0, <1>h, UpdateRow, HeadIn
    <2>4. at[c] \in Nat
        BY <1>0 DEF SchedulesTypeOK, SchedulerAssumption
    <2>5. h.row.next \in Nat /\ \A j \in Rows' : The(j)'.next \in Nat
        BY <2>2, <2>3 DEF Found, Stored
    <2>6. ASSUME NEW j \in Ids, NEW n \in DOMAIN runs[j] PROVE runs[j][n].next \in Nat
        <3> DEFINE R == [next : Nat, targets : SUBSET Deadlines]
        <3>1. runs[j] \in Seq(R)
            BY <1>0 DEF SchedulesTypeOK
        <3> HIDE DEF R
        <3>2. runs[j][n] \in R
            BY <3>1, <2>6
        <3> QED BY <3>2 DEF R
    <2> QED BY <2>4, <2>5, <2>6
<1>4. ASSUME NEW d \in Callers PROVE Firing(d)'
    <2>1. CASE d # c
        BY <1>1, <1>o, <2>1 DEF Firing
    <2>2. CASE d = c
        <3>1. h.targets # {} => seen = h.targets
            BY <1>0, <1>h, <1>u DEF Firing
        <3>2. h.targets = {} /\ h.id \in Rows' =>
                The(h.id)'.next = Never \/ h.row.next < The(h.id)'.next
            <4>1. SUFFICES ASSUME h.targets = {}, h.id \in Rows', The(h.id)'.next # Never
                           PROVE  h.row.next < The(h.id)'.next
                OBVIOUS
            <4>2. The(h.id)'.next > at[c] /\ h.row.next <= at[c] /\ The(h.id)'.next \in Nat
                BY <1>a, <1>n, <1>r, <4>1
            <4>3. PICK z : z = The(h.id)'.next
                OBVIOUS
            <4>4. z > at[c] /\ h.row.next <= at[c] /\ z \in Nat
                BY <4>2, <4>3
            <4>5. h.row.next < z
                BY <1>n, <4>4
            <4> QED BY <4>3, <4>5
        <3> QED BY <1>a, <1>h, <1>u, <1>1, <2>2, <3>1, <3>2 DEF Firing
    <2> QED BY <2>1, <2>2
<1>5. ASSUME NEW i \in Ids PROVE RowInv(i)'
    <2>0. Unused(i) /\ Waits(i) /\ Distinct(i) /\ Recorded(i) /\ Changed(i)
        BY <1>0 DEF RowInv
    <2>1. Unused(i)' /\ Distinct(i)'
        BY <1>u, <2>0, SameHistory DEF Unused, Distinct
    <2>2. Waits(i)'
        <3>1. CASE i # h.id
            <4>1. The(i)' = The(i) /\ Rows' = Rows /\ runs' = runs
                BY <1>r, <1>u, <3>1
            <4> QED BY <1>u, <4>1, <2>0, SameHistory DEF Waits
        <3>2. CASE i = h.id
            <4>1. SUFFICES ASSUME i \in Rows', The(i)'.plan.kind # "deadline", The(i)'.next # Never
                           PROVE  /\ The(i)'.next > The(i)'.last
                                  /\ \A n \in Timed(i)' : runs'[i][n].next < The(i)'.next
                BY DEF Waits
            <4>2. h.targets = {}
                BY <1>p, <1>r, <3>2, <4>1 DEF InQueue
            <4>3. The(i)'.next > at[c] /\ The(i)'.next > The(i)'.last /\ The(i)'.next \in Nat
                BY <1>n, <1>r, <3>2, <4>1, <4>2
            <4>4. ASSUME NEW n \in Timed(i) PROVE runs[i][n].next < The(i)'.next
                <5>1. runs[i][n].next < h.row.next /\ h.row.next <= at[c]
                    BY <1>a, <1>r, <3>2, <4>2, <4>4 DEF InQueue
                <5>2. runs[i][n].next \in Nat
                    BY <1>n, <4>4 DEF Timed
                <5>3. PICK z \in Nat : z = The(i)'.next
                    BY <4>3
                <5>4. PICK y \in Nat : y = runs[i][n].next
                    BY <5>2
                <5>5. y < z
                    BY <1>n, <4>3, <5>1, <5>3, <5>4
                <5> QED BY <5>3, <5>4, <5>5
            <4> QED BY <1>u, <4>3, <4>4, SameHistory
        <3> QED BY <3>1, <3>2
    <2>3. Recorded(i)'
        <3>1. ASSUME Alone(i), LastSet(i) # {}
              PROVE  seen = LastSet(i) \/ h.targets # {}
            <4>1. CASE \E d \in Callers : loop[d] \in {"update", "launch"} /\ Head(queue[d]).targets # {}
                BY <1>h, <1>o, <4>1
            <4> QED BY <2>0, <3>1, <4>1 DEF Recorded
        <3> QED BY <1>h, <1>u, <1>1, <3>1, SameHistory, SameAlone DEF Recorded
    <2>4. Changed(i)'
        BY <1>u, <2>0, SameHistory, SameAlone DEF Changed
    <2> QED BY <2>1, <2>2, <2>3, <2>4 DEF RowInv
<1> QED BY <1>1, <1>3, <1>4, <1>5

-------------------------------------------------------------------------------
(* A workflow thread is started.                                             *)

LEMMA LaunchKeeps ==
    ASSUME SchedulerInv, NEW c \in Callers, Launch(c)
    PROVE  /\ OneLoop' /\ \A d \in Callers : Queued(d)' /\ Firing(d)'
           /\ \A i \in Ids : RowInv(i)'
<1>0. /\ SchedulesTypeOK /\ OneLoop /\ \A d \in Callers : Queued(d) /\ Firing(d)
      /\ \A i \in Ids : RowInv(i)
    BY DEF SchedulerInv
<1>l. /\ loop[c] = "launch" /\ UNCHANGED <<table, used, seen, clock, looping, at, crashes>>
      /\ MoveLoop(c, IF Len(queue[c]) = 1 THEN "wait" ELSE "fire")
      /\ queue' = [queue EXCEPT ![c] = Tail(@)]
    BY DEF Launch
<1>t. Rows' = Rows /\ \A j : The(j)' = The(j)
    BY <1>l, TheSame
<1>1. /\ OneLoop' /\ loop'[c] = (IF Len(queue[c]) = 1 THEN "wait" ELSE "fire")
      /\ \A d \in Callers \ {c} : loop'[d] = loop[d]
    BY <1>0, <1>l, OneLoopMoves
<1>o. \A d \in Callers \ {c} : loop[d] = "none" /\ queue[d] = << >>
    BY <1>l, OthersIdle
<1>q. queue[c] # << >> /\ queue[c] \in Seq(Found)
    BY <1>0, <1>l DEF Queued, SchedulesTypeOK
<1>h. PICK h : h = Head(queue[c])
    OBVIOUS
<1>i. PICK i : i = h.id
    OBVIOUS
<1>2. h \in Found /\ InQueue(h) /\ i \in Ids /\ i \in used
    <2>1. h \in Found /\ InQueue(h)
        BY <1>0, <1>h, <1>q, HeadIn
    <2> QED BY <1>i, <2>1 DEF Found, InQueue
<1> DEFINE R == [next : Nat, targets : SUBSET Deadlines]
           L == Len(runs[i])
<1>x. PICK x : x = [next |-> h.row.next, targets |-> h.targets]
    OBVIOUS
<1>3. x.next = h.row.next /\ x.targets = h.targets /\ x \in R
    BY <1>2, <1>x DEF Found, Stored
<1>4. /\ runs \in [Ids -> Seq(R)] /\ runs' = [runs EXCEPT ![i] = Append(@, x)]
    BY <1>0, <1>h, <1>i, <1>x DEF Launch, SchedulesTypeOK
<1> HIDE DEF R
<1>5. /\ L \in Nat /\ DOMAIN runs[i] = 1..L /\ DOMAIN runs'[i] = 1..(L + 1) /\ Len(runs'[i]) = L + 1
      /\ runs'[i][L + 1] = x /\ \A n \in 1..L : runs'[i][n] = runs[i][n]
      /\ \A n \in 1..L : runs[i][n] \in R
      /\ \A j \in Ids \ {i} : runs'[j] = runs[j]
    BY <1>2, <1>3, <1>4
<1> HIDE DEF L
<1>6. /\ \A n \in 1..L : n \in Timed(i)' <=> n \in Timed(i)
      /\ L + 1 \in Timed(i)' <=> h.targets = {}
      /\ Timed(i) \subseteq 1..L /\ Timed(i)' \subseteq 1..(L + 1)
      /\ \A j \in Ids \ {i} : Timed(j)' = Timed(j) /\ LastSet(j)' = LastSet(j)
    BY <1>3, <1>5 DEF Timed, LastSet
<1>7. LastSet(i)' = h.targets
    <2>1. runs'[i] # << >>
        BY <1>5
    <2> QED BY <1>3, <1>5, <2>1 DEF LastSet
<1>8. ASSUME NEW j \in Ids, Alone(j)'
      PROVE  Alone(j) /\ (j # i => h.targets = {})
    <2>1. \A k \in Ids \ {j} : Timed(k)' = DOMAIN runs'[k]
        BY <1>8 DEF Alone
    <2>2. ASSUME NEW k \in Ids \ {j} PROVE Timed(k) = DOMAIN runs[k]
        <3>1. CASE k = i
            <4>1. Timed(i)' = 1..(L + 1)
                BY <1>5, <2>1, <3>1
            <4>2. \A n \in 1..L : n \in 1..(L + 1)
                BY <1>5
            <4>3. 1..L \subseteq Timed(i)
                BY <1>6, <4>1, <4>2
            <4> QED BY <1>5, <1>6, <3>1, <4>3
        <3>2. CASE k # i
            BY <1>5, <1>6, <2>1, <3>2
        <3> QED BY <3>1, <3>2
    <2>3. j # i => h.targets = {}
        BY <1>2, <1>5, <1>6, <2>1
    <2> QED BY <1>8, <1>l, <2>2, <2>3 DEF Alone
<1>9. ASSUME NEW e, InQueue(e), e.id # i PROVE InQueue(e)'
    <2>1. e.id \in Ids
        BY <1>0, <1>9 DEF InQueue, SchedulesTypeOK
    <2>2. Timed(e.id)' = Timed(e.id) /\ runs'[e.id] = runs[e.id]
        BY <1>5, <1>6, <1>9, <2>1
    <2> QED BY <1>l, <1>t, <1>9, <2>2 DEF InQueue
<1>10. /\ queue'[c] = Tail(queue[c]) /\ DOMAIN queue'[c] = 1..(Len(queue[c]) - 1)
       /\ \A n \in DOMAIN queue'[c] : n + 1 \in DOMAIN queue[c] /\ queue'[c][n] = queue[c][n + 1]
       /\ \A d \in Callers \ {c} : queue'[d] = queue[d]
    BY <1>0, <1>l, <1>q DEF SchedulesTypeOK
<1>11. \A n \in DOMAIN queue'[c] : InQueue(queue[c][n + 1]) /\ queue[c][n + 1].id # i
    <2>1. ASSUME NEW n \in DOMAIN queue'[c] PROVE InQueue(queue[c][n + 1]) /\ queue[c][n + 1].id # i
        <3>1. n + 1 \in DOMAIN queue[c] /\ 1 \in DOMAIN queue[c] /\ n + 1 # 1 /\ queue[c][1] = h
            BY <1>10, <1>h, <1>q
        <3>2. /\ \A m \in DOMAIN queue[c] : InQueue(queue[c][m])
              /\ \A m, k \in DOMAIN queue[c] : queue[c][m].id = queue[c][k].id => m = k
            BY <1>0 DEF Queued
        <3> QED BY <1>i, <3>1, <3>2
    <2> QED BY <2>1
<1>12. ASSUME NEW d \in Callers PROVE Queued(d)'
    <2>1. CASE d # c
        BY <1>1, <1>o, <1>10, <2>1 DEF Queued
    <2>2. CASE d = c
        <3>1. ASSUME NEW n \in DOMAIN queue'[c] PROVE InQueue(queue[c][n])'
            <4>1. PICK e : e = queue'[c][n]
                OBVIOUS
            <4>2. InQueue(e) /\ e.id # i
                BY <1>10, <1>11, <4>1
            <4>3. InQueue(e)'
                BY <1>9, <4>2
            <4> QED BY <4>1, <4>3
        <3>2. ASSUME NEW m \in DOMAIN queue'[c], NEW n \in DOMAIN queue'[c],
                     queue'[c][m].id = queue'[c][n].id
              PROVE  m = n
            <4>1. m + 1 \in DOMAIN queue[c] /\ n + 1 \in DOMAIN queue[c]
                  /\ queue[c][m + 1].id = queue[c][n + 1].id
                BY <1>10, <3>2
            <4>2. m + 1 = n + 1
                BY <1>0, <4>1 DEF Queued
            <4> QED BY <1>10, <4>2
        <3>3. loop'[c] \in {"fire", "update", "launch"} <=> queue'[c] # << >>
            <4>1. Len(queue[c]) = 1 <=> queue'[c] = << >>
                <5>1. Tail(queue[c]) \in Seq(Found) /\ Len(Tail(queue[c])) = Len(queue[c]) - 1
                      /\ Len(queue[c]) \in Nat
                    BY <1>q
                <5>2. PICK t \in Seq(Found) : t = Tail(queue[c])
                    BY <5>1
                <5>3. t = << >> <=> Len(t) = 0
                    BY <5>2, EmptySeq
                <5> QED BY <1>10, <5>1, <5>2, <5>3
            <4> QED BY <1>1, <4>1
        <3>4. Queued(c)'
            BY <3>1, <3>2, <3>3 DEF Queued
        <3> QED BY <2>2, <3>4
    <2> QED BY <2>1, <2>2
<1>13. ASSUME NEW d \in Callers PROVE Firing(d)'
    BY <1>1, <1>o DEF Firing
<1>f. /\ h.targets # {} => seen = h.targets
      /\ h.targets = {} /\ i \in Rows => The(i).next = Never \/ h.row.next < The(i).next
    BY <1>0, <1>h, <1>i, <1>l DEF Firing
<1>14. ASSUME NEW j \in Ids PROVE RowInv(j)'
    <2>0. Unused(j) /\ Waits(j) /\ Distinct(j) /\ Recorded(j) /\ Changed(j)
        BY <1>0 DEF RowInv
    <2>1. Unused(j)'
        BY <1>2, <1>5, <1>l, <2>0 DEF Unused
    <2>2. Waits(j)'
        <3>1. CASE j # i
            BY <1>5, <1>6, <1>t, <2>0, <3>1 DEF Waits
        <3>2. CASE j = i
            <4>1. SUFFICES ASSUME i \in Rows, The(i).plan.kind # "deadline", The(i).next # Never,
                                  NEW n \in Timed(i)'
                           PROVE  The(i).next > The(i).last /\ runs'[i][n].next < The(i).next
                BY <1>t, <3>2, <2>0 DEF Waits
            <4>2. h.targets = {}
                BY <1>2, <1>i, <4>1 DEF InQueue
            <4>3. CASE n = L + 1
                BY <1>3, <1>5, <1>f, <2>0, <3>2, <4>1, <4>2, <4>3 DEF Waits
            <4>4. CASE n # L + 1
                <5>1. n \in 1..L /\ n \in Timed(i)
                    BY <1>5, <1>6, <4>1, <4>4
                <5> QED BY <1>5, <2>0, <3>2, <4>1, <5>1 DEF Waits
            <4> QED BY <4>3, <4>4
        <3> QED BY <3>1, <3>2
    <2>3. Distinct(j)'
        <3>1. CASE j # i
            BY <1>5, <1>6, <2>0, <3>1 DEF Distinct
        <3>2. CASE j = i
            <4>1. SUFFICES ASSUME NEW m \in Timed(i)', NEW n \in Timed(i)',
                                  runs'[i][m].next = runs'[i][n].next
                           PROVE  m = n
                BY <3>2 DEF Distinct
            <4>2. ASSUME NEW a \in Timed(i), h.targets = {} PROVE runs'[i][a].next # runs'[i][L + 1].next
                <5>1. runs[i][a].next < h.row.next
                    BY <1>2, <1>i, <4>2 DEF InQueue
                <5>2. a \in 1..L /\ runs'[i][a] = runs[i][a] /\ runs[i][a] \in R
                    BY <1>5, <1>6, <4>2
                <5>3. runs[i][a].next \in Nat /\ h.row.next \in Nat
                    BY <1>3, <5>2 DEF R
                <5> QED BY <1>3, <1>5, <5>1, <5>2, <5>3
            <4>3. \A n1 \in Timed(i)' : (n1 = L + 1 /\ h.targets = {}) \/ (n1 \in Timed(i) /\ n1 \in 1..L)
                <5>1. ASSUME NEW n1 \in Timed(i)'
                      PROVE  (n1 = L + 1 /\ h.targets = {}) \/ (n1 \in Timed(i) /\ n1 \in 1..L)
                    BY <1>5, <1>6, <5>1
                <5> QED BY <5>1
            <4>4. CASE m \in Timed(i) /\ m \in 1..L /\ n \in Timed(i) /\ n \in 1..L
                BY <1>5, <2>0, <3>2, <4>1, <4>4 DEF Distinct
            <4> QED BY <4>1, <4>2, <4>3, <4>4
        <3> QED BY <3>1, <3>2
    <2>4. Recorded(j)'
        <3>1. CASE j = i
            BY <1>7, <1>f, <1>l, <3>1 DEF Recorded
        <3>2. CASE j # i
            <4>1. SUFFICES ASSUME Alone(j)', LastSet(j)' # {}
                           PROVE  seen' = LastSet(j)'
                BY DEF Recorded
            <4>2. Alone(j) /\ h.targets = {} /\ LastSet(j) # {} /\ LastSet(j)' = LastSet(j)
                BY <1>6, <1>8, <3>2, <4>1
            <4>3. ~ \E d \in Callers : loop[d] \in {"update", "launch"} /\ Head(queue[d]).targets # {}
                BY <1>h, <1>o, <4>2
            <4> QED BY <1>l, <2>0, <4>2, <4>3 DEF Recorded
        <3> QED BY <3>1, <3>2
    <2>5. Changed(j)'
        <3>1. SUFFICES ASSUME Alone(j)', Alone(j)
                       PROVE  /\ \A d \in Callers : \A n \in DOMAIN queue'[d] :
                                   queue'[d][n].id = j /\ queue'[d][n].targets # {}
                                     => queue'[d][n].targets # LastSet(j)'
                              /\ \A n \in DOMAIN runs'[j] \ (Timed(j)' \cup {1}) :
                                   runs'[j][n].targets # runs'[j][n - 1].targets
            BY <1>8 DEF Changed
        <3>2. ASSUME NEW d \in Callers, NEW n \in DOMAIN queue'[d],
                     queue'[d][n].id = j, queue'[d][n].targets # {}
              PROVE  queue'[d][n].targets # LastSet(j)'
            <4>1. CASE d # c
                BY <1>o, <1>10, <3>2, <4>1
            <4>2. CASE d = c
                <5>1. /\ n + 1 \in DOMAIN queue[c] /\ queue[c][n + 1].id = j
                      /\ queue'[d][n] = queue[c][n + 1] /\ queue[c][n + 1].targets # {} /\ j # i
                    BY <1>10, <1>11, <3>2, <4>2
                <5> QED BY <1>6, <2>0, <3>1, <5>1 DEF Changed
            <4> QED BY <4>1, <4>2
        <3>3. CASE j # i
            BY <1>5, <1>6, <2>0, <3>1, <3>2, <3>3 DEF Changed
        <3>4. CASE j = i
            <4>1. ASSUME NEW n \in DOMAIN runs'[i] \ (Timed(i)' \cup {1})
                  PROVE  runs'[i][n].targets # runs'[i][n - 1].targets
                <5>1. CASE n = L + 1
                    <6>1. h.targets # {} /\ L \in 1..L
                        BY <1>5, <1>6, <4>1, <5>1
                    <6>2. runs[i] # << >> /\ LastSet(i) = runs[i][L].targets
                        BY <1>5, <6>1 DEF LastSet, L
                    <6>3. h.targets # LastSet(i)
                        BY <1>0, <1>h, <1>i, <1>q, <2>0, <3>1, <3>4, <6>1, HeadIn DEF Changed
                    <6>4. n - 1 = L /\ runs'[i][n].targets = h.targets /\ runs'[i][L] = runs[i][L]
                        BY <1>3, <1>5, <5>1, <6>1
                    <6> QED BY <6>2, <6>3, <6>4
                <5>2. CASE n # L + 1
                    <6>1. n \in 1..L /\ n - 1 \in 1..L /\ n \notin Timed(i) /\ n # 1
                        BY <1>5, <1>6, <4>1, <5>2
                    <6>2. runs[i][n].targets # runs[i][n - 1].targets
                        BY <1>5, <2>0, <3>1, <3>4, <6>1 DEF Changed
                    <6> QED BY <1>5, <6>1, <6>2
                <5> QED BY <5>1, <5>2
            <4> QED BY <3>2, <3>4, <4>1
        <3> QED BY <3>3, <3>4
    <2> QED BY <2>1, <2>2, <2>3, <2>4, <2>5 DEF RowInv
<1> QED BY <1>1, <1>12, <1>13, <1>14

-------------------------------------------------------------------------------
LEMMA SchedulerInit ==
    ASSUME SchedulerAssumption, NoSchedules
    PROVE  SchedulerInv
<1>1. SchedulesTypeOK
    <2>1. Rows = {} /\ table \in [Ids -> SUBSET Stored] /\ used = {}
        BY DEF NoSchedules, Rows
    <2>2. /\ seen \subseteq Deadlines /\ tracked \subseteq Deadlines
          /\ looping \in BOOLEAN /\ stopping \in BOOLEAN
        BY DEF NoSchedules
    <2>3. /\ clock \in 1..MaxTime /\ crashes \in 0..MaxCrashes /\ at \in [Callers -> 1..MaxTime]
        BY DEF NoSchedules, SchedulerAssumption
    <2>4. /\ loop \in [Callers -> {"none", "tick", "fire", "update", "launch", "wait", "ended"}]
          /\ queue \in [Callers -> Seq(Found)]
          /\ runs \in [Ids -> Seq([next : Nat, targets : SUBSET Deadlines])]
        BY DEF NoSchedules
    <2> QED BY <2>1, <2>2, <2>3, <2>4 DEF SchedulesTypeOK
<1>2. OneLoop
    BY DEF NoSchedules, OneLoop
<1>3. ASSUME NEW c \in Callers PROVE Queued(c) /\ Firing(c)
    BY DEF NoSchedules, Queued, Firing
<1>4. ASSUME NEW i \in Ids PROVE RowInv(i)
    <2>1. runs[i] = << >> /\ Timed(i) = {} /\ LastSet(i) = {} /\ i \notin Rows /\ DOMAIN runs[i] = {}
        BY DEF NoSchedules, Timed, LastSet, Rows
    <2>2. Unused(i) /\ Waits(i) /\ Distinct(i) /\ Recorded(i)
        BY <2>1 DEF Unused, Waits, Distinct, Recorded
    <2>3. Changed(i)
        BY <2>1 DEF Changed, NoSchedules
    <2> QED BY <2>2, <2>3 DEF RowInv
<1> QED BY <1>1, <1>2, <1>3, <1>4 DEF SchedulerInv

LEMMA SchedulerKeeps ==
    ASSUME SchedulerAssumption, SchedulerInv, [SchedulerNext]_schedulerVars
    PROVE  SchedulerInv'
<1>0. /\ SchedulesTypeOK /\ OneLoop /\ \A d \in Callers : Queued(d) /\ Firing(d)
    BY DEF SchedulerInv
<1>1. SchedulesTypeOK'
    BY <1>0, SchedulesTypes
<1>c. clock \in Nat /\ clock' \in Nat
    BY <1>0, <1>1 DEF SchedulesTypeOK, SchedulerAssumption
<1> DEFINE Kept == /\ OneLoop' /\ \A c \in Callers : Queued(c)' /\ Firing(c)'
                   /\ \A i \in Ids : RowInv(i)'
<1>2. SUFFICES Kept
    BY <1>1 DEF SchedulerInv
<1>3. ASSUME NEW i \in Ids, NEW p \in Plans[i], Add(i, p) PROVE Kept
    <2>1. /\ used \subseteq used'
          /\ UNCHANGED <<seen, clock, looping, loop, queue, at, runs, crashes>>
        BY <1>3 DEF Add, loops
    <2> QED BY <1>0, <1>3, <2>1, AddEdits, EditKeeps
<1>4. ASSUME NEW i \in Ids, SetEnabled(i) PROVE Kept
    <2>1. /\ used \subseteq used'
          /\ UNCHANGED <<seen, clock, looping, loop, queue, at, runs, crashes>>
        BY <1>4 DEF SetEnabled, loops
    <2> QED BY <1>0, <1>4, <2>1, SetEnabledEdits, EditKeeps
<1>5. ASSUME NEW i \in Ids, DeleteSchedule(i) PROVE Kept
    <2>1. /\ used \subseteq used'
          /\ UNCHANGED <<seen, clock, looping, loop, queue, at, runs, crashes>>
        BY <1>5 DEF DeleteSchedule, loops
    <2> QED BY <1>0, <1>5, <2>1, DeleteEdits, EditKeeps
<1>6. ASSUME NEW c \in Callers, StartLoop(c) PROVE Kept
    <2>1. /\ UNCHANGED <<table, used, seen, clock, queue, at, runs, crashes>> /\ looping'
          /\ ~looping /\ loop'[c] = "wait" /\ loop[c] = "none"
          /\ \A d \in Callers \ {c} : loop'[d] = loop[d]
        BY <1>0, <1>6 DEF StartLoop, MoveLoop, SchedulesTypeOK
    <2>2. \A d \in Callers : loop[d] = "none"
        BY <1>0, <2>1 DEF OneLoop
    <2>3. OneLoop'
        BY <2>1, <2>2 DEF OneLoop
    <2>4. \A d \in Callers : loop[d] \in Busy \/ loop'[d] \in Busy => loop'[d] = loop[d]
        BY <2>1, <2>2 DEF Busy
    <2> QED BY <1>c, <2>1, <2>3, <2>4, QuietKeeps
<1>7. ASSUME NEW c \in Callers, Wake(c) PROVE Kept
    <2>1. /\ UNCHANGED <<table, used, seen, clock, looping, queue, at, runs, crashes>>
          /\ loop[c] = "wait" /\ MoveLoop(c, IF stopping THEN "ended" ELSE "tick")
        BY <1>7 DEF Wake
    <2>2. OneLoop' /\ loop'[c] = (IF stopping THEN "ended" ELSE "tick")
          /\ \A d \in Callers \ {c} : loop'[d] = loop[d]
        BY <1>0, <2>1, OneLoopMoves
    <2>3. \A d \in Callers : loop[d] \in Busy \/ loop'[d] \in Busy => loop'[d] = loop[d]
        BY <2>1, <2>2 DEF Busy
    <2> QED BY <1>c, <2>1, <2>2, <2>3, QuietKeeps
<1>8. ASSUME NEW c \in Callers, Tick(c) PROVE Kept
    <2>1. /\ UNCHANGED <<table, used, seen, tracked, clock, looping, stopping, at, runs, crashes>>
          /\ loop[c] = "tick"
        BY <1>8 DEF Tick
    <2>2. CASE MoveLoop(c, "wait") /\ UNCHANGED queue
        <3>1. OneLoop' /\ loop'[c] = "wait" /\ \A d \in Callers \ {c} : loop'[d] = loop[d]
            BY <1>0, <2>1, <2>2, OneLoopMoves
        <3>2. \A d \in Callers : loop[d] \in Busy \/ loop'[d] \in Busy => loop'[d] = loop[d]
            BY <2>1, <3>1 DEF Busy
        <3> QED BY <1>c, <2>1, <2>2, <3>1, <3>2, QuietKeeps
    <2>3. CASE /\ Due # {} /\ MoveLoop(c, "fire")
               /\ \E ids \in [1..Cardinality(Due) -> Due] :
                    InOrder(ids) /\ queue' = [queue EXCEPT ![c] = AsRead(ids)]
        BY <2>1, <2>3, TickKeeps
    <2> QED BY <1>8, <2>2, <2>3 DEF Tick
<1>9. ASSUME Advance \/ Track \/ Stop \/ UNCHANGED schedulerVars PROVE Kept
    <2>1. /\ UNCHANGED <<table, used, seen, looping, loop, queue, at, runs, crashes>>
          /\ clock <= clock'
        BY <1>c, <1>9 DEF Advance, Track, Stop, schedulerVars, loops
    <2>2. OneLoop'
        BY <1>0, <2>1 DEF OneLoop
    <2> QED BY <1>c, <2>1, <2>2, QuietKeeps
<1> QED BY <1>1, <1>3, <1>4, <1>5, <1>6, <1>7, <1>8, <1>9, FireKeeps, UpdateKeeps, LaunchKeeps, CrashKeeps
        DEF SchedulerNext, LoopStep

LEMMA SchedulerInvImplies ==
    ASSUME SchedulerInv
    PROVE  FiresOnce
<1>1. \A i \in Ids : Waits(i) /\ Distinct(i) /\ Changed(i)
    BY DEF SchedulerInv, RowInv
<1>2. OncePerOccurrence
    BY <1>1 DEF Distinct, OncePerOccurrence
<1>3. RefiresOnChange
    BY <1>1 DEF Changed, Alone, RefiresOnChange
<1>4. NextIsAhead
    BY <1>1 DEF Waits, NextIsAhead, Rows
<1> QED BY <1>2, <1>3, <1>4 DEF FiresOnce

\* Type correctness of the schedules.
THEOREM SchedulesTypeCorrect == SchedulerSpec => []SchedulesTypeOK
<1>1. NoSchedules => SchedulerInv
    BY SchedulerAssumption, SchedulerInit
<1>2. SchedulerInv /\ [SchedulerNext]_schedulerVars => SchedulerInv'
    BY SchedulerAssumption, SchedulerKeeps
<1>3. SchedulerInv => SchedulesTypeOK
    BY DEF SchedulerInv
<1> QED BY <1>1, <1>2, <1>3, PTL DEF SchedulerSpec

\* scheduler.py:200-257: however many callers start the loop, whatever requests
\* edit and wherever the process ends, a workflow thread starts at most once for
\* an occurrence of a schedule, and for deadlines only when their set changed.
THEOREM SchedulesFireOnce == SchedulerSpec => []FiresOnce
<1>1. NoSchedules => SchedulerInv
    BY SchedulerAssumption, SchedulerInit
<1>2. SchedulerInv /\ [SchedulerNext]_schedulerVars => SchedulerInv'
    BY SchedulerAssumption, SchedulerKeeps
<1>3. SchedulerInv => FiresOnce
    BY SchedulerInvImplies
<1> QED BY <1>1, <1>2, <1>3, PTL DEF SchedulerSpec
===============================================================================
