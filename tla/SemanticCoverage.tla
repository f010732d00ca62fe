-------------------------- MODULE SemanticCoverage --------------------------
(***************************************************************************)
(* Which objects of an audit a scanner and independent reviewers must read,*)
(* what a reviewer is shown, and when the audit is semantically covered    *)
(* (analysis/semanticCoverage.mjs).                                        *)
(*                                                                         *)
(* A plan is determined by the objects whose prompt-normalized views were  *)
(* handed in, so a plan is that set of objects.  The scanner subjects of   *)
(* one object, its text and the texts decoded from it, report together.    *)
(***************************************************************************)
EXTENDS Integers, FiniteSets

CONSTANTS
    None,           \* JavaScript's null
    Objects,        \* inventoried source objects
    Manifests,      \* the objects the dependency graphs' manifests match
    Graphs,         \* dependency graphs the dependency tools may build
    Blocking,       \* objects and graphs whose artifacts carry a blocker
    Source,         \* object -> what the inventory and the decoder say of it
    Injected,       \* the objects whose text tries to instruct a reviewer
    Reviewers,      \* reviewer identities
    Facts,          \* facts the scanners may find
    Fact,           \* fact -> its object, kind, place and targets
    Reports         \* object -> the reports its scanners may make

\* The object kinds the inventory gives.
ObjectKinds == {"tree", "source-text", "executable-blob", "binary", "embedded-payload",
                "local-file", "symlink", "gitlink", "reparse-point", "opaque"}

\* The first path rule that holds, by the class it leads to; the rules on paths
\* come in this order, the ones on kinds between them.
PathClasses == {"workflow", "dependency-metadata", "build-config", "generated-input"}
Paths == PathClasses \cup {"archive", "source", "other"}

SourceRecords == [kind: ObjectKinds, path: Paths, executable: BOOLEAN,
                  inventoried: BOOLEAN,             \* status = "inventoried"
                  hashed: BOOLEAN,                  \* contentSha256 # null
                  text: BOOLEAN,                    \* decoding it leaves a text to scan
                  parent: Objects \cup {None}]

FactKinds == {"activation", "import", "dynamic-import", "reflection", "dynamic-evaluation",
              "command-construction", "source", "transform", "sink", "persistence",
              "generated-code-hook", "environment-gate", "platform-gate", "time-gate",
              "unresolved-dynamic-target"}
FactRecords == [object: Objects, kind: FactKinds,
                line: Nat,                          \* its place among its object's facts
                targets: SUBSET Objects,            \* objects its target tokens name
                dynamic: BOOLEAN,                   \* resolution = "dynamic"
                tokens: SUBSET STRING]              \* what other objects' facts may share

ScannerReports == [facts: SUBSET Facts, outcome: {"clean", "blocked", "truncated"}]

ASSUME ObjectsAssumption == IsFiniteSet(Objects) /\ Manifests \cup Injected \subseteq Objects
ASSUME ArtifactsAssumption == Objects \cap Graphs = {} /\ Blocking \subseteq Objects \cup Graphs
ASSUME SourceAssumption == \A o \in Objects : Source[o] \in SourceRecords
\* Two facts of an object have different places.
ASSUME FactsAssumption ==
    /\ \A f \in Facts : Fact[f] \in FactRecords
    /\ \A f, g \in Facts :
         Fact[f].object = Fact[g].object /\ Fact[f].line = Fact[g].line => f = g
ASSUME ReportsAssumption ==
    /\ None \notin ScannerReports
    /\ \A o \in Objects : /\ Reports[o] \subseteq ScannerReports
                          /\ \A r \in Reports[o] : \A f \in r.facts : Fact[f].object = o

Artifacts == Objects \cup Graphs
Slots == 1..2
ReviewAssignments == [object: Objects, slot: Slots, reviewer: Reviewers]
ReviewDecisions == {"no-findings", "candidates", "incomplete"}
ReviewRecords == [assignment: ReviewAssignments, decision: ReviewDecisions]
Statuses == {"comprehensive", "partial"}
SemanticEvaluations == [status: Statuses, covered: SUBSET Objects, ledger: SUBSET Objects]

-----------------------------------------------------------------------------
(* classifyObjectForSemanticCoverage                                       *)

ClassOf(source) ==
    IF source.kind \in {"tree", "symlink", "gitlink", "reparse-point", "opaque"}
    THEN "unsupported"
    ELSE IF source.path \in PathClasses
    THEN source.path
    ELSE IF source.path = "archive" \/ source.kind \in {"binary", "embedded-payload"}
    THEN "binary-archive"
    ELSE IF source.path = "source" \/ source.executable \/ source.kind = "executable-blob"
    THEN "executable-source"
    ELSE "document-data"

Class(o) == ClassOf(Source[o])

ConfigSourceClasses == PathClasses \cup {"executable-source"}
ScannerRequired(o) == Class(o) \in ConfigSourceClasses

\* A prompt assessment that was handed in, of a text that tries to instruct.
PromptAffected(plan, o) == o \in plan.views \cap Injected

ModelReviewRequired(plan, o) ==
    \/ ScannerRequired(o)
    \/ Class(o) = "binary-archive"
    \/ PromptAffected(plan, o)

HighRisk(plan, o) ==
    \/ Class(o) \in {"workflow", "build-config", "generated-input", "binary-archive"}
    \/ Source[o].executable \/ Source[o].kind = "executable-blob"
    \/ PromptAffected(plan, o)

\* Mutant: an injected text is read like any other document.
RequiredReviewers_TrustsDocuments(plan, o) ==
    IF ~ScannerRequired(o) /\ Class(o) # "binary-archive" THEN 0
    ELSE IF HighRisk(plan, o) THEN 2 ELSE 1

RequiredReviewers(plan, o) ==
    IF ~ModelReviewRequired(plan, o) THEN 0 ELSE IF HighRisk(plan, o) THEN 2 ELSE 1

-----------------------------------------------------------------------------
(* createSemanticCoveragePlan                                              *)

SemanticPlans == [views: SUBSET Objects]

\* Executables and configuration must have been assessed for instructions.
PromptMissing(plan, o) == ScannerRequired(o) /\ o \notin plan.views

\* An object's text is a scanner subject, and so is every text decoded from it.
RootUnassignable(o) == ScannerRequired(o) /\ ~Source[o].hashed
Assigned(o) == (ScannerRequired(o) /\ Source[o].hashed) \/ Source[o].text

NoScans == [o \in Objects |-> None]

\* Every scanner subject of the object has reported, without a blocker.
ScannersClean(o, report) ==
    /\ ~RootUnassignable(o)
    /\ Assigned(o) => report # None /\ report.outcome = "clean"

FactsIn(report) == IF report = None THEN {} ELSE report.facts

-----------------------------------------------------------------------------
(* createSemanticView                                                      *)

\* Dependency graphs are derived from the manifests they match.
ArtifactsOf(artifacts, o) ==
    artifacts \cap ({o} \cup (IF o \in Manifests THEN Graphs ELSE {}))

\* What a reviewer is shown has substance, carries no blocker, and names every
\* target it reaches.
ViewComplete(artifacts, report, o) ==
    /\ report # None => report.outcome = "clean"
    /\ ArtifactsOf(artifacts, o) \cap Blocking = {}
    /\ \A f \in FactsIn(report) : Fact[f].kind # "unresolved-dynamic-target"
    /\ \/ FactsIn(report) # {}
       \/ ~ScannerRequired(o) /\ ArtifactsOf(artifacts, o) # {}

-----------------------------------------------------------------------------
(* evaluateSemanticCoverage                                                *)

\* Blocker codes left by an earlier stage: the inventory's and the artifacts'.
HasUpstreamBlockers(snap) ==
    snap.inventory # "complete" \/ snap.artifacts \cap Blocking # {}

ReviewersOf(o, records) ==
    {r.assignment.reviewer : r \in {x \in records : x.assignment.object = o
                                                 /\ x.decision # "incomplete"}}

\* A completed review of an injected text carries its prompt review, so that
\* enough reviewers make the prompt review complete too.
Resolved(plan, report, records, o) ==
    /\ ~PromptMissing(plan, o)
    /\ ScannersClean(o, report)
    /\ Cardinality(ReviewersOf(o, records)) >= RequiredReviewers(plan, o)
    /\ Class(o) = "unsupported" => Source[o].inventoried

\* What is neither required nor known to be unreadable counts as covered unread.
Optional(plan, o) ==
    /\ ~ScannerRequired(o) /\ ~ModelReviewRequired(plan, o)
    /\ Class(o) = "unsupported" => Source[o].inventoried

EvaluateSemanticCoverage(base, plan, scans, records) ==
    LET covered == {o \in Objects : Resolved(plan, scans[o], records, o) \/ Optional(plan, o)}
        truncated == \E o \in Objects : \/ RootUnassignable(o)
                                        \/ scans[o] # None /\ scans[o].outcome = "truncated"
        complete == ~HasUpstreamBlockers(base) /\ covered = Objects /\ ~truncated
    IN [status  |-> IF complete THEN "comprehensive" ELSE "partial",
        covered |-> covered,
        ledger  |-> {r.assignment.object : r \in {x \in records : x.decision = "candidates"}}]

=============================================================================
