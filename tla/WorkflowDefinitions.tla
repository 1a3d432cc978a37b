------------------------- MODULE WorkflowDefinitions -------------------------
(***************************************************************************)
(* The workflow_definitions table (astra/workflows/engine.py): concurrent  *)
(* define(), update_definition() and delete_definition() calls.  The check *)
(* of a name and the write that takes it are separate store calls.         *)
(***************************************************************************)
EXTENDS WorkflowGraph, FiniteSets

CONSTANTS
    DefinitionIds,  \* row ids still to be given out
    Clients,        \* request threads
    Listed,         \* step ids of a submitted definition, in list order
    Unknown,        \* a dependency that names no step
    Submitted,      \* dependencies of each step, in the definitions a client submits
    MaxSuffix,      \* bound on the number a duplicate name gets
    NoRow

ListedSteps == ToSet(Listed)
\* "Untitled Workflow" is 1, "Untitled Workflow 2" is 2, and so on.
Names == 1..MaxSuffix
Definition == [name : Names, deps : [ListedSteps -> SUBSET ListedSteps]]

\* normalize_steps refuses two steps of one id before it looks at dependencies.
ASSUME DefinitionsAssumption ==
    /\ Listed \in Seq(ListedSteps) /\ IsInjective(Listed)
    /\ Unknown \notin ListedSteps
    /\ Submitted \in [Clients -> SUBSET [ListedSteps -> SUBSET (ListedSteps \cup {Unknown})]]
    /\ MaxSuffix \in Nat \ {0}
    /\ NoRow \notin DefinitionIds \cup Definition

VARIABLES
    defs,   \* the table: name and dependencies per id, NoRow where no row is
    client, \* where each client is
    target, \* the row a client updates, NoRow when it defines a new one
    name,   \* the name a client tries
    wants   \* the dependencies of the steps it submitted

definitionVars == <<defs, client, target, name, wants>>
NoSteps == [s \in ListedSteps |-> {}]

DefinitionsTypeOK ==
    /\ defs \in [DefinitionIds -> {NoRow} \cup Definition]
    /\ client \in [Clients -> {"idle", "probe", "write", "refused", "taken", "failed"}]
    /\ target \in [Clients -> DefinitionIds \cup {NoRow}]
    /\ name \in [Clients -> Names]
    /\ wants \in [Clients -> [ListedSteps -> SUBSET (ListedSteps \cup {Unknown})]]

NoDefinitions ==
    /\ defs = [i \in DefinitionIds |-> NoRow]
    /\ client = [c \in Clients |-> "idle"]
    /\ target = [c \in Clients |-> NoRow]
    /\ name = [c \in Clients |-> 1]
    /\ wants = [c \in Clients |-> NoSteps]

InTable == {i \in DefinitionIds : defs[i] # NoRow}
Taken(n, except) == \E i \in InTable \ {except} : defs[i].name = n

-------------------------------------------------------------------------------
\* normalize_steps.
\* Mutant: a step with two or more dependents is taken for a cycle.
NormalizeTrees(graph) ==
    /\ \A s \in ListedSteps : s \notin graph[s] /\ graph[s] \subseteq ListedSteps
    /\ CheckCycles(Listed, graph)
    /\ \A s, t \in ListedSteps : graph[s] \cap graph[t] # {} => s = t
Normalize(graph) ==
    /\ \A s \in ListedSteps : s \notin graph[s] /\ graph[s] \subseteq ListedSteps
    /\ CheckCycles(Listed, graph)

-------------------------------------------------------------------------------
Answer(c, outcome) ==
    client' = [client EXCEPT ![c] = outcome] /\ UNCHANGED <<target, name, wants>>
Done(c) ==
    /\ client' = [client EXCEPT ![c] = "idle"]
    /\ target' = [target EXCEPT ![c] = NoRow]
    /\ name' = [name EXCEPT ![c] = 1]
    /\ wants' = [wants EXCEPT ![c] = NoSteps]

\* define() or update_definition() with new steps and a name.
Submit(c, graph, n, t) ==
    /\ client[c] = "idle"
    /\ t \in InTable \cup {NoRow}
    /\ wants' = [wants EXCEPT ![c] = graph]
    /\ target' = [target EXCEPT ![c] = t]
    /\ name' = [name EXCEPT ![c] = n]
    /\ client' = [client EXCEPT ![c] = IF Normalize(graph) THEN "probe" ELSE "refused"]
    /\ UNCHANGED defs

\* define() tries the next number; a rename onto a taken name is refused.
Probe(c) ==
    /\ client[c] = "probe"
    /\ IF ~Taken(name[c], target[c])
       THEN Answer(c, "write")
       ELSE IF target[c] # NoRow
       THEN Answer(c, "taken")
       ELSE /\ name[c] < MaxSuffix
            /\ name' = [name EXCEPT ![c] = @ + 1]
            /\ UNCHANGED <<client, target, wants>>
    /\ UNCHANGED defs

\* The insert, or the update of a row; the column is UNIQUE, so a name that
\* was taken since the probe raises IntegrityError.
Write(c) ==
    /\ client[c] = "write"
    /\ IF target[c] # NoRow /\ target[c] \notin InTable
       THEN Done(c) /\ UNCHANGED defs
       ELSE IF Taken(name[c], target[c])
       THEN Answer(c, "failed") /\ UNCHANGED defs
       ELSE /\ \E i \in IF target[c] # NoRow THEN {target[c]} ELSE DefinitionIds \ InTable :
                 defs' = [defs EXCEPT ![i] = [name |-> name[c], deps |-> wants[c]]]
            /\ Done(c)

Return(c) ==
    /\ client[c] \in {"refused", "taken", "failed"}
    /\ Done(c)
    /\ UNCHANGED defs

DeleteDefinition(i) ==
    /\ i \in InTable
    /\ defs' = [defs EXCEPT ![i] = NoRow]
    /\ UNCHANGED <<client, target, name, wants>>

DefinitionsNext ==
    \/ \E c \in Clients : \E graph \in Submitted[c] : \E n \in {1, 2} \cap Names :
         \E t \in DefinitionIds \cup {NoRow} : Submit(c, graph, n, t)
    \/ \E c \in Clients : Probe(c) \/ Write(c) \/ Return(c)
    \/ \E i \in DefinitionIds : DeleteDefinition(i)

DefinitionsSpec == NoDefinitions /\ [][DefinitionsNext]_definitionVars

-------------------------------------------------------------------------------
(* Properties. *)

\* engine.py:526-533: what check_cycles let in, _topo can order completely;
\* two different algorithms have to agree or a run raises half-way.
StoredRuns ==
    \A i \in InTable :
      LET ordered == Topo(Listed, defs[i].deps)
      IN Complete(ordered, Listed) /\ DependenciesFirst(ordered, defs[i].deps)

\* And it refuses nothing else: a refused definition names an unknown step or
\* has a cycle.
RefusedIsBad ==
    \A c \in Clients :
      client[c] = "refused" =>
        \/ \E s \in ListedSteps : Unknown \in wants[c][s]
        \/ Cyclic(Listed, [s \in ListedSteps |-> wants[c][s] \ {Unknown}])

\* So the check of a definition and the order of a run agree on every graph.
AcceptsExactly == StoredRuns /\ RefusedIsBad
===============================================================================
