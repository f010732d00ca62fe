--------------------------- MODULE BehaviorGraph ---------------------------
(***************************************************************************)
(* The behaviour graph of a council audit: what one finding contributes to *)
(* it (findingLedgerWrapper.mjs), how the plugins' graph and the council's *)
(* are merged against the index (analysis/graphMerge.mjs), and the chains  *)
(* from an activation to an effect that are traced in the merged graph     *)
(* (analysis/traceGraph.mjs).  Operators on values only.                   *)
(*                                                                         *)
(* Evidence is files with the content they were read in: a node or an edge *)
(* may cite several, and one that cites none stands for a citation of what *)
(* its finding cites (bindingForNode).  Bounds on the evidence of one node *)
(* or chain are not modelled.                                              *)
(***************************************************************************)
EXTENDS SourceIndex, Sequences, FiniteSetsExt

CONSTANTS
    Findings,       \* behaviours a reviewer may report
    FileOf,         \* the file a finding is about: the path of its source identity
    Fragment,       \* the graph a reviewer draws of a finding
    Seed,           \* the graph the plugins draw of a file with a content
    MaxGraphNodes,  \* GRAPH_MERGE_LIMITS.nodes
    MaxGraphEdges,  \* GRAPH_MERGE_LIMITS.edges
    MaxDepth,       \* TRACE_LIMITS.depth: nodes on a chain
    MaxChains,      \* TRACE_LIMITS.chains
    MaxBranches,    \* TRACE_LIMITS.branches
    MaxCycles       \* TRACE_LIMITS.cycles

StartKinds == {"activation", "trigger"}
EffectKinds == {"sink", "persistence", "propagation"}
\* EFFECT_NODE_KINDS of a submission: wider than what a trace takes for an effect.
TargetKinds == EffectKinds \cup {"sensitive-source", "transform"}
FlowKinds == {"transform", "capability", "sensitive-source"}
OriginKinds == {"dependency", "provenance"}
NodeKinds == StartKinds \cup EffectKinds \cup FlowKinds \cup OriginKinds

\* EDGE_TRANSITIONS: the kinds of node an edge of each kind may join. The flow edges
\* have a direction that two reviewers must agree on.
Transition ==
    LET Origins == StartKinds \cup OriginKinds
        Acting == {"transform", "capability"}
        Done == Acting \cup EffectKinds
    IN  [activates     |-> Origins \X (Acting \cup {"trigger"}),
         triggers      |-> StartKinds \X (Done \cup {"trigger", "sensitive-source"}),
         transforms    |-> FlowKinds \X Done,
         reads_from    |-> (StartKinds \cup Acting) \X (OriginKinds \cup {"sensitive-source"}),
         writes_to     |-> Acting \X EffectKinds,
         invokes       |-> (StartKinds \cup Acting \cup {"dependency"}) \X (Done \cup {"dependency"}),
         flows_to      |-> (StartKinds \cup FlowKinds \cup {"dependency"}) \X (FlowKinds \cup EffectKinds),
         persists_as   |-> Acting \X {"persistence"},
         propagates_to |-> FlowKinds \X {"propagation"},
         provenance_of |-> {"provenance"} \X NodeKinds,
         depends_on    |-> NodeKinds \X (OriginKinds \cup {"capability"}),
         guards        |-> (StartKinds \cup {"capability"}) \X NodeKinds,
         enables       |-> (Origins \cup Acting) \X Done]
EdgeKinds == DOMAIN Transition
FlowEdges == EdgeKinds \ {"provenance_of", "depends_on", "guards"}

\* A drawn node has an identifier of the reviewer's choice, which its edges use; "does"
\* is the behaviour, and with the kind and the evidence the meaning of the node. Nodes,
\* edges and the finding itself cite files of their own.
Citing(graph) == {graph} \cup graph.nodes \cup graph.edges
Drawn(graph) ==
    /\ IsFiniteSet(graph.nodes) /\ IsFiniteSet(graph.edges)
    /\ \A x \in Citing(graph) : x.cites \subseteq Paths
    /\ \A n \in graph.nodes : n.kind \in NodeKinds
    /\ \A e \in graph.edges : e.kind \in EdgeKinds /\ e.id \in Nat
                              /\ {e.from, e.to} \subseteq {n.id : n \in graph.nodes}

\* canonicalizeCandidate: an activation, a capability and an effect, joined by two edges
\* at least, every identifier once. The effect may be one that no chain ends at.
CandidateGraph(graph) ==
    /\ Drawn(graph)
    /\ Cardinality({n.id : n \in graph.nodes}) = Cardinality(graph.nodes)
    /\ Cardinality({e.id : e \in graph.edges}) = Cardinality(graph.edges)
    /\ Cardinality(graph.edges) >= 2
    /\ \E n \in graph.nodes : n.kind \in StartKinds
    /\ \E n \in graph.nodes : n.kind = "capability"
    /\ \E n \in graph.nodes : n.kind \in TargetKinds

ASSUME GraphAssumption ==
    /\ IsFiniteSet(Findings)
    /\ FileOf \in [Findings -> Paths]
    /\ \A f \in Findings : CandidateGraph(Fragment[f]) /\ FileOf[f] \in Fragment[f].cites
    /\ \A p \in Paths, c \in Contents :
            Drawn(Seed[<<p, c>>]) /\ \A x \in Citing(Seed[<<p, c>>]) : x.cites \subseteq {p}
    /\ {MaxGraphNodes, MaxGraphEdges, MaxDepth, MaxChains, MaxBranches, MaxCycles} \subseteq Nat \ {0}

CitedBy(f) == UNION {x.cites : x \in Citing(Fragment[f])}

\* What a reviewer may submit: a finding, with the content that each of the files it
\* cites was read in.
Candidates == UNION {{f} \X [CitedBy(f) -> Contents] : f \in Findings}

\* computeFindingId: a hash of the behaviour and of the source identity, which has the
\* content of its file. The same behaviour reported on other bytes is another finding.
FindingId(c) == <<c[1], c[2][FileOf[c[1]]]>>

\* A graph as it is recorded, seen in the given contents: all that is drawn with the
\* evidence it cites. Identifiers given to what is seen in other bytes are other
\* identifiers.
Evidence(x, seen) == [p \in x.cites |-> seen[p]]
Name(x, seen) == <<x.id, Evidence(x, seen)>>
NodeOf(id, nodes) == CHOOSE n \in nodes : n.id = id
Recording(graph, seen) ==
    LET end(id) == Name(NodeOf(id, graph.nodes), seen)
    IN  [nodes |-> {[id |-> Name(n, seen), kind |-> n.kind, does |-> n.does,
                     at |-> Evidence(n, seen)] : n \in graph.nodes},
         edges |-> {[id |-> Name(e, seen), kind |-> e.kind, at |-> Evidence(e, seen),
                     from |-> end(e.from), to |-> end(e.to)] : e \in graph.edges},
         findings |-> {Evidence(graph, seen)}]

Combined(documents) ==
    [nodes |-> UNION {d.nodes : d \in documents}, edges |-> UNION {d.edges : d \in documents},
     findings |-> UNION {d.findings : d \in documents}]

\* The council's graph of a set of candidates, and the plugins' of an index.
CouncilGraph(S) == Combined({Recording(Fragment[c[1]], c[2]) : c \in S})
SeedGraph(ix) ==
    LET read == {p \in Known(ix) : ix.file[p].content \in Contents}
        seen == [p \in read |-> ix.file[p].content]
    IN  Combined({Recording(Seed[<<p, seen[p]>>], seen) : p \in read})

IdConflict(x, S) == \E y \in S : y.id = x.id /\ y # x

\* BehaviorGraph.addNode, addEdge throw on an identifier that is taken.
Consistent(document) ==
    /\ \A n \in document.nodes : ~IdConflict(n, document.nodes)
    /\ \A e \in document.edges : ~IdConflict(e, document.edges)

-----------------------------------------------------------------------------
(* mergeBehaviorGraphs *)

\* The first max of a set, in an order of their hashes.
Bounded(S, max) == IF Cardinality(S) <= max THEN S ELSE CHOOSE T \in kSubset(max, S) : TRUE

\* validateSourceIdentityAgainstCatalog, validateEvidenceAgainstCatalog
Current(at, ix) ==
    \A p \in DOMAIN at : Indexed(ix, p, at[p]) /\ ix.file[p].status = "indexed-text"

\* Two records of one node that differ are rejected both, and so is one whose evidence
\* is no longer what the index holds.
SoundNodes(document, ix) ==
    {n \in document.nodes : ~IdConflict(n, document.nodes) /\ Current(n.at, ix)}

MergedNodes(document, ix) == Bounded(SoundNodes(document, ix), MaxGraphNodes)

\* Nodes that mean the same are one node of the trace, whoever drew them.
Meaning(n) == [kind |-> n.kind, does |-> n.does, at |-> n.at]
Link(e, nodes) == [id |-> e.id[1], kind |-> e.kind,
                   from |-> Meaning(NodeOf(e.from, nodes)), to |-> Meaning(NodeOf(e.to, nodes))]

Joined(e, nodes) == {e.from, e.to} \subseteq {n.id : n \in nodes}
Compatible(link) == <<link.from.kind, link.to.kind>> \in Transition[link.kind]

Reversed(k, l) ==
    /\ k.kind = l.kind /\ k.kind \in FlowEdges
    /\ k.from = l.to /\ k.to = l.from /\ k.from # k.to

\* Edges are taken in the order of their identifiers: those against the direction of the
\* first are dropped, and with each the last one before it along that direction.
Against(links) ==
    {l \in links : \E k \in links : /\ Reversed(k, l) /\ k.id < l.id
                                   /\ \A j \in links : Reversed(k, j) => k.id <= j.id}
Contradicted(links) ==
    LET against == Against(links)
        before(l) == {k \in links \ against : Reversed(k, l) /\ k.id < l.id}
    IN  against \cup
        UNION {{k \in before(l) : \A j \in before(l) : j.id <= k.id} : l \in against}

\* contested: the nodes from which a conflict dropped an edge.
MergeBehaviorGraphs(document, ix) ==
    LET nodes == MergedNodes(document, ix)
        single == {e \in document.edges : ~IdConflict(e, document.edges)}
        joined == {e \in single : Joined(e, nodes)}
        links == {Link(e, nodes) : e \in {x \in joined : Current(x.at, ix)}}
        fitting == {l \in links : Compatible(l)}
        kept == Bounded(fitting, MaxGraphEdges)
    IN  [nodes     |-> {Meaning(n) : n \in nodes},
         edges     |-> {[kind |-> l.kind, from |-> l.from, to |-> l.to] :
                            l \in kept \ Contradicted(kept)},
         contested |-> {l.from : l \in (links \ fitting) \cup Against(kept)},
         complete  |-> /\ nodes = document.nodes
                       /\ joined = document.edges
                       /\ \A e \in document.edges : Current(e.at, ix)
                       /\ \A at \in document.findings : Current(at, ix)
                       /\ kept = links
                       /\ Against(kept) = {}]

-----------------------------------------------------------------------------
(* traceBehaviorGraph *)

\* An activation that something leads to is not a start, unless all are like that.
Starts(graph) ==
    LET all == {n \in graph.nodes : n.kind \in StartKinds}
        roots == {n \in all : \A e \in graph.edges : e.to # n}
    IN  IF roots = {} THEN all ELSE roots

Tip(walk) == walk.nodes[Len(walk.nodes)]
\* Mutant: an edge takes the place of the one listed before it.
Onward_KeepsLast(graph, walk) ==
    LET onward == {e \in graph.edges : e.from = Tip(walk)}
    IN  IF onward = {} THEN {} ELSE {CHOOSE e \in onward : TRUE}

Onward(graph, walk) == {e \in graph.edges : e.from = Tip(walk)}

Visited(walk) == {walk.nodes[i] : i \in DOMAIN walk.nodes}

\* visit goes on from a walk that is not too long and has not met an effect.
TooLong(walk) == Len(walk.nodes) >= MaxDepth
Expands(walk) == ~TooLong(walk) /\ Tip(walk).kind \notin EffectKinds

Along(walk, e) == [nodes |-> Append(walk.nodes, e.to), links |-> Append(walk.links, e.kind)]
Further(graph, walk) == {Along(walk, e) : e \in {x \in Onward(graph, walk) : x.to \notin Visited(walk)}}

\* The walks of every length up to the limit on depth.
Walks(graph) ==
    LET walks[n \in 1..MaxDepth] ==
            IF n = 1 THEN {[nodes |-> <<s>>, links |-> <<>>] : s \in Starts(graph)}
            ELSE UNION {Further(graph, w) : w \in {x \in walks[n - 1] : Expands(x)}}
    IN  UNION {walks[n] : n \in 1..MaxDepth}

\* emit: where a walk ends, and whether an effect ends it. A walk ends at each edge that
\* closes a cycle and goes on along the others.
Closing(graph, walk) == {e \in Onward(graph, walk) : e.to \in Visited(walk)}
ChainsOf(graph, walk) ==
    IF TooLong(walk) THEN {[walk |-> walk, status |-> "unresolved", at |-> None]}
    ELSE IF Tip(walk).kind \in EffectKinds
         THEN {[walk |-> walk, status |-> "complete", at |-> None]}
    ELSE IF Onward(graph, walk) = {}
         THEN {[walk |-> walk, at |-> None,
                status |-> IF Tip(walk) \in graph.contested THEN "contested" ELSE "unresolved"]}
    ELSE {[walk |-> walk, status |-> "unresolved", at |-> e] : e \in Closing(graph, walk)}

TraceBehaviorGraph(graph) ==
    LET walks == Walks(graph)
        open == {w \in walks : Expands(w)}
        chains == UNION {ChainsOf(graph, w) : w \in walks}
        branches == Cardinality({b \in open \X graph.edges : b[2].from = Tip(b[1])})
        cycles == UNION {{<<w.nodes, e>> : e \in Closing(graph, w)} : w \in open}
    IN  [chains   |-> Bounded(chains, MaxChains),
         complete |-> /\ graph.complete
                      /\ Cardinality(chains) <= MaxChains
                      /\ branches <= MaxBranches
                      /\ Cardinality(cycles) <= MaxCycles
                      /\ \A w \in walks : ~TooLong(w)
                      /\ graph.nodes # {} => Starts(graph) # {}]

\* buildValidationPlan: the chains that belong to a candidate meet a node or an edge of
\* it, and a confirmation needs a complete one.
Chained(c, trace) ==
    LET own == {Meaning(n) : n \in CouncilGraph({c}).nodes}
    IN  \E chain \in trace.chains : chain.status = "complete" /\ Visited(chain.walk) \cap own # {}

=============================================================================
