---------------------------- MODULE EvasiveGraph ----------------------------
(***************************************************************************)
(* The behaviour graph of a red-teamed audit and its trace                 *)
(* (analysis/evasiveGraph.mjs, evasiveTrace.mjs): objects, artifacts,      *)
(* scanner facts, dependencies and the reviewers' candidates become nodes, *)
(* and every path from an activation or a trigger must end.                *)
(*                                                                         *)
(* A graph is determined by what it is built from, so a plan is that.  The *)
(* limits on records and branches are left out; the limit on depth is not. *)
(***************************************************************************)
EXTENDS RedTeam

CONSTANTS
    DependsOn,      \* dependency graph -> its pairs of dependent packages
    MaxDepth        \* EVASIVE_TRACE_LIMITS.depth, in nodes of a path

ASSUME DepthAssumption == MaxDepth \in Nat \ {0}

\* Candidates are named by the object, or the category, that was reviewed.
Candidates == Objects \cup Categories

ASSUME CandidatesAssumption == Objects \cap Categories = {}

GraphPlans == [findings: SUBSET Candidates, artifacts: SUBSET Artifacts,
               supply: Graphs \cup {None}]

\* Mutant: the candidates of the red team do not enter the graph.
BuildEvasiveGraph_SemanticOnly(snap, semantic, redTeam, supply) ==
    [findings |-> semantic.ledger, artifacts |-> snap.artifacts, supply |-> supply]

BuildEvasiveGraph(snap, semantic, redTeam, supply) ==
    [findings  |-> semantic.ledger \cup redTeam.ledger,
     artifacts |-> snap.artifacts,
     supply    |-> supply]

-----------------------------------------------------------------------------
(* buildEvasiveGraph, record kind by record kind.                          *)

TargetNode(f) == [of |-> "dynamic-target", id |-> f, at |-> Fact[f].object]
PackageNode(p) == [of |-> "package", id |-> p, at |-> None]
FindingNode(x, part) == [of |-> part, id |-> x, at |-> None]

\* The model's facts are those of every scanner, viewed by a reviewer or not.
FactsOf(scans) == UNION {FactsIn(scans[o]) : o \in Objects}

NodeObjects == {o \in Objects : Source[o].kind # "tree"}

UnsupportedObjects ==
    {o \in NodeObjects : ~Source[o].inventoried \/ Source[o].kind \in {"opaque", "reparse-point"}}

\* What was decoded from an object leads away from it, and so does what it contains.
ArtifactEdges(artifacts) ==
    {Edge(IF p[1] \in Graphs THEN "generates" ELSE "decodes", ObjectNode(p[2]), ArtifactNode(p[1], p[2])) :
        p \in {q \in artifacts \X NodeObjects : q[1] \in ArtifactsOf(artifacts, q[2])}}

ParentEdges ==
    {Edge("packages", ObjectNode(Source[o].parent), ObjectNode(o)) :
        o \in {x \in NodeObjects : Source[x].parent \in NodeObjects}}

\* edgeKindForFacts, as far as one kind of edge could contradict another.
SequenceKind(f) ==
    CASE Fact[f].kind = "import"              -> "imports"
      [] Fact[f].kind = "dynamic-import"      -> "loads"
      [] Fact[f].kind = "source"              -> "reads"
      [] Fact[f].kind = "generated-code-hook" -> "generates"
      [] Fact[f].kind \in {"persistence", "sink"} -> "writes"
      [] Fact[f].kind \in {"environment-gate", "platform-gate", "time-gate"} -> "selects"
      [] OTHER                                -> "calls"

SequenceEdges(facts) ==
    {Edge(SequenceKind(p[2]), FactNode(p[1]), FactNode(p[2])) : p \in Consecutive(facts)}

Imports(facts) == {f \in facts : Fact[f].kind \in {"import", "dynamic-import"}}

\* The other objects an import's target names; a dynamic one names none for sure.
ImportTargets(f) ==
    IF Fact[f].dynamic THEN {} ELSE (Fact[f].targets \cap NodeObjects) \ {Fact[f].object}

UnresolvedImports(facts) == {f \in Imports(facts) : ImportTargets(f) = {}}

\* An import enters an object where it is activated or reads, or else the object itself.
EntryNodes(o, facts) ==
    LET entries == {f \in facts : /\ Fact[f].object = o
                                  /\ Fact[f].kind \in {"activation", "generated-code-hook", "source"}}
    IN IF entries = {} THEN {ObjectNode(o)} ELSE {FactNode(f) : f \in entries}

ImportEdges(facts) ==
    LET kind(f) == IF Fact[f].kind = "import" THEN "imports" ELSE "loads"
    IN UNION {{Edge(kind(f), FactNode(f), n) : n \in UNION {EntryNodes(o, facts) : o \in ImportTargets(f)}} :
                f \in Imports(facts)}
       \cup {Edge(kind(f), FactNode(f), TargetNode(f)) : f \in UnresolvedImports(facts)}

SupplyEdges(supply) ==
    IF supply = None THEN {}
    ELSE {Edge("depends-on", PackageNode(p[1]), PackageNode(p[2])) : p \in DependsOn[supply]}

\* The discovery edges some category was shown, under their behaviour names.
RedEdges(red, plan, scans) ==
    LET discovered == DiscoveryEdges(red.artifacts, ViewedFacts(plan, scans))
        shown == UNION {CategoryEdges(c, red, discovered) : c \in Categories}
    IN {[e EXCEPT !.kind = IF @ = "derived-from" THEN "generates" ELSE "calls"] :
          e \in {x \in shown : x.to.of = "object" => x.to.id \in NodeObjects}}

CandidateEdges(findings) ==
    UNION {{Edge("calls", FindingNode(x, "trigger"), FindingNode(x, "capability")),
            Edge("calls", FindingNode(x, "capability"), FindingNode(x, "transform")),
            Edge("writes", FindingNode(x, "transform"), FindingNode(x, "effect"))} : x \in findings}

ProposedEdges(plan, semantic, scans, red) ==
    LET facts == FactsOf(scans)
    IN ArtifactEdges(plan.artifacts) \cup ParentEdges \cup SequenceEdges(facts)
       \cup ImportEdges(facts) \cup SupplyEdges(plan.supply) \cup RedEdges(red, semantic, scans)
       \cup CandidateEdges(plan.findings)

\* mergeEvasiveGraphRecords: two edges of one kind in opposite directions
\* contradict each other, and neither is followed.
Contradicted(edges) ==
    {e \in edges : e.from # e.to /\ Edge(e.kind, e.to, e.from) \in edges}

UnresolvedFacts(facts) ==
    {f \in facts : Fact[f].kind = "unresolved-dynamic-target" \/ Fact[f].dynamic}

\* What blocks a graph wherever in it it is found.
GraphBlocked(plan, scans, edges) ==
    \/ UnresolvedFacts(FactsOf(scans)) # {} \/ UnresolvedImports(FactsOf(scans)) # {}
    \/ UnsupportedObjects # {} \/ \E o \in Objects : Source[o].kind = "gitlink"
    \/ (plan.artifacts \cup {plan.supply}) \cap Blocking # {}
    \/ Contradicted(edges) # {}

-----------------------------------------------------------------------------
(* traceEvasiveGraph                                                       *)

Roots(plan, scans) ==
    {FactNode(f) : f \in {x \in FactsOf(scans) : Fact[x].kind \in {"activation", "generated-code-hook"}}}
    \cup {FindingNode(x, "trigger") : x \in plan.findings}

\* The nodes a path of k edges from a root may end in.
PathEnds(roots, edges) ==
    LET ends[k \in 0..MaxDepth] ==
          IF k = 0 THEN roots
          ELSE LET before == ends[k - 1]
               IN {e.to : e \in {x \in edges : x.from \in before}}
    IN ends

\* A path that is too long, or returns to a node of its own, is not traced to its
\* end: such paths are those that could go on for as many edges as a path may
\* have nodes.
TraceOf(plan, semantic, scans, red) ==
    LET edges == ProposedEdges(plan, semantic, scans, red)
        roots == Roots(plan, scans)
    IN IF /\ ~GraphBlocked(plan, scans, edges)
          /\ roots # {}
          /\ PathEnds(roots, edges \ Contradicted(edges))[MaxDepth] = {}
       THEN "complete" ELSE "blocked"

=============================================================================
