------------------------------ MODULE RedTeam ------------------------------
(***************************************************************************)
(* The red team of a scanned audit: what each category's reviewer is given *)
(* and when every category has been reviewed (analysis/redTeam.mjs).       *)
(*                                                                         *)
(* The discovery graph links objects, what was derived from them and the   *)
(* facts found in them; a category is shown the part of it that lies on    *)
(* its objects, and that part enters the behaviour graph later.            *)
(***************************************************************************)
EXTENDS SemanticCoverage

CONSTANTS
    Categories,         \* red-team categories
    Category,           \* category -> how its subjects are chosen
    ObjectRank,         \* the order of the object identities
    MaxCategoryFacts    \* RED_TEAM_LIMITS.factsPerCategory

\* How a category chooses its objects: all of them, those with a prompt view,
\* those of some kinds, or those its facts and artifacts lie on.
CategoryRecords == [rule: {"everything", "prompted", "kinds", "matching"},
                    kinds: SUBSET ObjectKinds, paths: SUBSET Paths,
                    factKinds: SUBSET FactKinds,
                    artifacts: SUBSET {"payload-index", "dependency-graph"}]

ASSUME CategoryAssumption == \A c \in Categories : Category[c] \in CategoryRecords
ASSUME RankAssumption ==
    /\ MaxCategoryFacts \in Nat
    /\ \A o, p \in Objects : ObjectRank[o] \in Nat /\ (ObjectRank[o] = ObjectRank[p] => o = p)

-----------------------------------------------------------------------------
(* discoveryGraph                                                          *)

ObjectNode(o) == [of |-> "object", id |-> o, at |-> o]
ArtifactNode(a, o) == [of |-> "artifact", id |-> a, at |-> o]
FactNode(f) == [of |-> "fact", id |-> f, at |-> Fact[f].object]

Edge(kind, from, to) == [kind |-> kind, from |-> from, to |-> to]

\* Only an object with a reviewer has a semantic view, and only its facts are seen.
ViewedFacts(plan, scans) ==
    UNION {FactsIn(scans[o]) : o \in {x \in Objects : RequiredReviewers(plan, x) > 0}}

\* Pairs of facts of an object with none between them.
Consecutive(facts) ==
    {p \in facts \X facts :
        /\ Fact[p[1]].object = Fact[p[2]].object
        /\ Fact[p[1]].line < Fact[p[2]].line
        /\ ~\E f \in facts : /\ Fact[f].object = Fact[p[1]].object
                             /\ Fact[p[1]].line < Fact[f].line
                             /\ Fact[f].line < Fact[p[2]].line}

\* The first fact of each object that carries a link token stands for it.
Representatives(facts, token) ==
    {f \in facts : /\ token \in Fact[f].tokens
                   /\ \A g \in facts : /\ Fact[g].object = Fact[f].object
                                       /\ token \in Fact[g].tokens
                                       => Fact[f].line <= Fact[g].line}

Linked(facts, token) ==
    LET Rank(f) == ObjectRank[Fact[f].object]
        linked == Representatives(facts, token)
    IN {p \in linked \X linked : /\ Rank(p[1]) < Rank(p[2])
                                 /\ ~\E f \in linked : Rank(p[1]) < Rank(f) /\ Rank(f) < Rank(p[2])}

\* The edges along which behaviour flows; "observed-on" and "reviewed" bind evidence.
DiscoveryEdges(artifacts, facts) ==
    {Edge("derived-from", ArtifactNode(p[1], p[2]), ObjectNode(p[2])) :
        p \in {q \in artifacts \X Objects : q[1] \in ArtifactsOf(artifacts, q[2])}}
    \cup {Edge("precedes", FactNode(p[1]), FactNode(p[2])) : p \in Consecutive(facts)}
    \cup {Edge("cross-object-reference", FactNode(p[1]), FactNode(p[2])) :
            p \in UNION {Linked(facts, t) : t \in UNION {Fact[f].tokens : f \in facts}}}

-----------------------------------------------------------------------------
(* createRedTeamPlan                                                       *)

\* The facts and the objects a category names, before it falls back on others.
SelectedFacts(c, facts) ==
    CASE Category[c].rule = "everything" -> facts
      [] Category[c].rule = "prompted"   -> {}
      [] OTHER                           -> {f \in facts : Fact[f].kind \in Category[c].factKinds}

SelectedByRule(c, plan) ==
    {o \in Objects : CASE Category[c].rule = "everything" -> TRUE
                       [] Category[c].rule = "prompted"   -> o \in plan.views
                       [] Category[c].rule = "kinds"      -> \/ Source[o].kind \in Category[c].kinds
                                                             \/ Source[o].path \in Category[c].paths
                       [] Category[c].rule = "matching"   -> FALSE}

\* The objects with a selected fact or artifact are always among them.
SelectedByContent(c, artifacts, facts) ==
    {Fact[f].object : f \in SelectedFacts(c, facts)}
    \cup {o \in artifacts \cap Objects : "payload-index" \in Category[c].artifacts}
    \cup {o \in Manifests : "dependency-graph" \in Category[c].artifacts /\ artifacts \cap Graphs # {}}

\* categorySubjectSet: a category without objects gets the executables and the
\* configuration, and if there are none every object.
CategorySubjects(c, plan, artifacts, facts) ==
    LET content == SelectedByContent(c, artifacts, facts)
        executables == {o \in Objects : ScannerRequired(o) \/ ModelReviewRequired(plan, o)}
        chosen == SelectedByRule(c, plan)
                    \cup (IF Category[c].rule = "matching" THEN content ELSE {})
        fallback == IF executables # {} THEN executables ELSE Objects
    IN (IF chosen = {} THEN fallback ELSE chosen) \cup content

\* What the initial reviewers found, and what they found nothing in.
InitialHandoff(evaluation, records) ==
    [findings |-> evaluation.ledger,
     quiet    |-> {r.assignment.object : r \in {x \in records : x.decision = "no-findings"}}]

RedTeamPlans == [truncated: BOOLEAN, supply: Graphs \cup {None}, artifacts: SUBSET Artifacts,
                 handoff: [findings: SUBSET Objects, quiet: SUBSET Objects],
                 subjects: [Categories -> SUBSET Objects]]

RedTeamPlan(snap, plan, scans, evaluation, records, supply) ==
    LET facts == ViewedFacts(plan, scans)
    IN [truncated |-> \E c \in Categories :
                        Cardinality(SelectedFacts(c, facts)) > MaxCategoryFacts,
        supply    |-> supply,
        artifacts |-> snap.artifacts,
        handoff   |-> InitialHandoff(evaluation, records),
        subjects  |-> [c \in Categories |-> CategorySubjects(c, plan, snap.artifacts, facts)]]

\* buildCategoryView: the part of the discovery graph between a category's objects.
CategoryEdges(c, red, edges) ==
    {e \in edges : e.from.at \in red.subjects[c] /\ e.to.at \in red.subjects[c]}

-----------------------------------------------------------------------------
(* evaluateRedTeamCoverage                                                 *)

ReviewOutcomes == {"none", "no-candidate", "candidate", "incomplete"}
RedTeamEvaluations == [status: Statuses, completed: SUBSET Categories, ledger: SUBSET Categories]
NoReviews == [c \in Categories |-> "none"]

\* Nine in ten categories and every mandatory one must be complete, and no detail
\* may block: every category is.
EvaluateRedTeamCoverage(base, red, reviews) ==
    LET completed == {c \in Categories : reviews[c] \in {"no-candidate", "candidate"}}
        complete == ~HasUpstreamBlockers(base) /\ ~red.truncated /\ completed = Categories
    IN [status    |-> IF complete THEN "comprehensive" ELSE "partial",
        completed |-> completed,
        ledger    |-> {c \in Categories : reviews[c] = "candidate"}]

=============================================================================
