-------------------------- MODULE AssuranceProofs --------------------------
(* Proofs about Assurance for every set of objects, facts, reviewers,
   categories and graphs, whatever the scanners and the reviewers report: first
   that the container is valid and every stage earned, then what it does with its
   evidence: every step only adds to it, every object was reviewed by different
   reviewers, what is sealed is what they saw, and every candidate is decided. *)
EXTENDS Assurance, FiniteSetTheorems, TLAPS

\* The inductive invariant.
IInv == TypeOK /\ ContainerValid /\ StageEarned

USE DEF Acquired, Inventoried, Decoded, SemanticallyCovered, Scanned, RedTeamed,
        Traced, Validated, Finalized

-----------------------------------------------------------------------------
(* What the evaluations return.                                            *)

\* A semantic evaluation only names objects of the audit.
LEMMA SemanticEvaluationType ==
    ASSUME NEW base, NEW plan, NEW scans, NEW records,
           records \subseteq ReviewRecords
    PROVE  EvaluateSemanticCoverage(base, plan, scans, records) \in SemanticEvaluations
<1> DEFINE E == EvaluateSemanticCoverage(base, plan, scans, records)
<1>1. E.covered \in SUBSET Objects
  BY DEF EvaluateSemanticCoverage
<1>2. E.ledger \in SUBSET Objects
  BY DEF EvaluateSemanticCoverage, ReviewRecords, ReviewAssignments
<1>3. E.status \in Statuses
  BY DEF EvaluateSemanticCoverage, Statuses
<1>4. E = [status |-> E.status, covered |-> E.covered, ledger |-> E.ledger]
  BY DEF EvaluateSemanticCoverage
<1> QED BY <1>1, <1>2, <1>3, <1>4 DEF SemanticEvaluations

\* A red-team evaluation has one of the known statuses and only names categories.
LEMMA RedTeamEvaluationType ==
    ASSUME NEW base, NEW plan, NEW reviews
    PROVE  EvaluateRedTeamCoverage(base, plan, reviews) \in RedTeamEvaluations
  BY DEF EvaluateRedTeamCoverage, RedTeamEvaluations, Statuses

\* The facts that reviewers are shown are facts of the audit's objects.
LEMMA ViewedFactsType ==
    ASSUME NEW plan, NEW scans \in [Objects -> ScannerReports \cup {None}]
    PROVE  ViewedFacts(plan, scans) \subseteq Facts
<1>1. \A o \in Objects : FactsIn(scans[o]) \subseteq Facts
  BY ReportsAssumption DEF FactsIn, ScannerReports
<1> QED BY <1>1 DEF ViewedFacts

\* A category's subjects are objects of the audit.
LEMMA CategorySubjectsType ==
    ASSUME NEW c, NEW plan, NEW artifacts, NEW facts \in SUBSET Facts
    PROVE  CategorySubjects(c, plan, artifacts, facts) \in SUBSET Objects
<1>1. SelectedFacts(c, facts) \subseteq Facts
  BY DEF SelectedFacts
<1>2. \A f \in Facts : Fact[f].object \in Objects
  BY FactsAssumption DEF FactRecords
<1>3. SelectedByContent(c, artifacts, facts) \subseteq Objects
  BY <1>1, <1>2, ObjectsAssumption DEF SelectedByContent
<1>4. SelectedByRule(c, plan) \subseteq Objects
  BY DEF SelectedByRule
<1> QED BY <1>3, <1>4 DEF CategorySubjects

\* What createRedTeamPlan builds from a valid container is a red-team plan.
LEMMA RedTeamPlanType ==
    ASSUME NEW snap \in Snapshots, NEW plan, NEW scans \in [Objects -> ScannerReports \cup {None}],
           NEW evaluation \in SemanticEvaluations, NEW records, records \subseteq ReviewRecords,
           NEW supply \in Graphs \cup {None}
    PROVE  RedTeamPlan(snap, plan, scans, evaluation, records, supply) \in RedTeamPlans
<1> DEFINE facts == ViewedFacts(plan, scans)
           truncated == \E c \in Categories :
                          Cardinality(SelectedFacts(c, facts)) > MaxCategoryFacts
           subjects == [c \in Categories |-> CategorySubjects(c, plan, snap.artifacts, facts)]
           handoff == InitialHandoff(evaluation, records)
<1>1. facts \in SUBSET Facts
  BY ViewedFactsType
<1>2. subjects \in [Categories -> SUBSET Objects]
  <2> HIDE DEF facts
  <2> QED BY <1>1, CategorySubjectsType
<1>3. handoff \in [findings: SUBSET Objects, quiet: SUBSET Objects]
  <2>1. evaluation.ledger \in SUBSET Objects
    BY DEF SemanticEvaluations
  <2>2. \A r \in records : r.assignment.object \in Objects
    BY DEF ReviewRecords, ReviewAssignments
  <2> QED BY <2>1, <2>2 DEF InitialHandoff
<1>4. truncated \in BOOLEAN
  OBVIOUS
<1>5. snap.artifacts \in SUBSET Artifacts
  BY DEF Snapshots
<1>6. RedTeamPlan(snap, plan, scans, evaluation, records, supply) =
        [truncated |-> truncated, supply |-> supply, artifacts |-> snap.artifacts,
         handoff |-> handoff, subjects |-> subjects]
  BY DEF RedTeamPlan
<1> HIDE DEF truncated, subjects, handoff
<1> QED BY <1>2, <1>3, <1>4, <1>5, <1>6 DEF RedTeamPlans

\* What buildEvasiveGraph builds from a valid container is a graph plan.
LEMMA GraphPlanType ==
    ASSUME NEW snap \in Snapshots, NEW semantic \in SemanticEvaluations,
           NEW redTeam \in RedTeamEvaluations, NEW supply \in Graphs \cup {None}
    PROVE  BuildEvasiveGraph(snap, semantic, redTeam, supply) \in GraphPlans
<1>1. /\ snap.artifacts \in SUBSET Artifacts
      /\ semantic.ledger \in SUBSET Objects /\ redTeam.ledger \in SUBSET Categories
  BY DEF Snapshots, SemanticEvaluations, RedTeamEvaluations
<1>2. semantic.ledger \cup redTeam.ledger \in SUBSET Candidates
  BY <1>1 DEF Candidates
<1> QED BY <1>1, <1>2 DEF BuildEvasiveGraph, GraphPlans

\* A validation evaluation has one of the known statuses.
LEMMA ValidationEvaluationType ==
    ASSUME NEW plan, NEW records
    PROVE  EvaluateAssuranceValidation(plan, records) \in {"complete", "incomplete"}
  BY DEF EvaluateAssuranceValidation

\* A trace is complete or blocked.
LEMMA TraceType ==
    ASSUME NEW plan PROVE GraphTraceOf(plan) \in {"complete", "blocked"}
  BY DEF GraphTraceOf, TraceOf

-----------------------------------------------------------------------------

\* createEmptyAssuranceState gives a valid container.
LEMMA InitInvariant == Init => IInv
<1> SUFFICES ASSUME Init PROVE IInv OBVIOUS
<1> USE DEF Init, EmptyCoverage
<1>1. TypeOK
  BY DEF TypeOK, Stages, NoScans, NoReviews, ReviewOutcomes
<1>2. ContainerValid
  <2>1. SnapshotValid BY DEF SnapshotValid
  <2>2. SemanticValid BY DEF SemanticValid
  <2>3. RedTeamValid BY DEF RedTeamValid
  <2>4. GraphValid BY DEF GraphValid
  <2>5. ValidationValid BY DEF ValidationValid
  <2> QED BY <2>1, <2>2, <2>3, <2>4, <2>5 DEF ContainerValid
<1>3. StageEarned
  BY NoneAssumption DEF StageEarned
<1> QED BY <1>1, <1>2, <1>3 DEF IInv
-----------------------------------------------------------------------------
(* Before a plan is made, the state that depends on it is empty.           *)

\* Up to decoding there is no later plan, before it no semantic one either.
LEMMA NothingBeforeDecoding ==
    ASSUME IInv, stage <= Decoded
    PROVE  /\ redTeamPlan = None /\ graphPlan = None /\ graphTrace = None
           /\ validationPlan = None
           /\ stage < Decoded => semanticPlan = None
<1> USE DEF IInv, StageEarned, TypeOK, Stages
<1>1. redTeamPlan = None /\ graphPlan = None /\ validationPlan = None
  OBVIOUS
<1>2. graphTrace = None
  BY <1>1 DEF ContainerValid, GraphValid
<1> QED BY <1>1, <1>2

-----------------------------------------------------------------------------
(* Semantic coverage.                                                      *)

\* storeSemanticEvaluation preserves the invariant, whether or not it advances the stage.
LEMMA StoreSemanticStep ==
    ASSUME IInv, stage = Decoded,
           NEW base \in Snapshots, base.stage = Decoded,
           NEW plan \in SemanticPlans,
           NEW scans \in [Objects -> ScannerReports \cup {None}],
           NEW assignments, assignments \subseteq ReviewAssignments,
           NEW records, records \subseteq ReviewRecords,
           \A a \in assignments : Reported(scans, a.object),
           \A r \in records : /\ r.assignment \in assignments
                              /\ r.decision # "incomplete" =>
                                   Reviewable(base, scans, r.assignment.object),
           plan # None, base # None,
           StoreSemanticEvaluation(base, plan, scans, assignments, records)
    PROVE  IInv'
<1> DEFINE E == EvaluateSemanticCoverage(base, plan, scans, records)
<1>1. E \in SemanticEvaluations
  BY SemanticEvaluationType
<1>2. /\ stage' \in {Decoded, SemanticallyCovered}
      /\ stage' = SemanticallyCovered => E.status = "comprehensive"
      /\ semanticEvaluation' = E
      /\ analysisSnapshot' = [base EXCEPT !.stage = stage', !.covered = E.covered,
                                          !.ledger = E.ledger]
      /\ semanticBase' = base /\ semanticPlan' = plan /\ scannerRecords' = scans
      /\ reviewAssignments' = assignments /\ reviewRecords' = records
      /\ UNCHANGED <<supplyChainGraph, redTeamVars, graphVars, validationVars, reportFlow>>
  BY DEF StoreSemanticEvaluation
<1>3. /\ analysisSnapshot' \in Snapshots
      /\ analysisSnapshot'.stage = stage'
      /\ analysisSnapshot'.ledger = E.ledger
  <2>1. E.covered \in SUBSET Objects /\ E.ledger \in SUBSET Objects
    BY <1>1 DEF SemanticEvaluations
  <2>2. stage' \in Stages
    BY <1>2 DEF Stages
  <2> HIDE DEF E
  <2> QED BY <1>2, <2>1, <2>2 DEF Snapshots
<1>4. redTeamPlan = None /\ graphPlan = None /\ graphTrace = None /\ validationPlan = None
  BY NothingBeforeDecoding
<1>5. TypeOK'
  BY <1>1, <1>2, <1>3 DEF IInv, TypeOK, Stages, redTeamVars, graphVars, validationVars
<1>6. ContainerValid'
  <2>1. SnapshotValid'
    BY <1>3 DEF SnapshotValid
  <2>2. SemanticValid'
    <3>1. (semanticBase = None <=> semanticPlan = None)'
      BY <1>2
    <3>2. semanticBase'.stage = Decoded
      BY <1>2
    <3>3. semanticPlan' # None
      BY <1>2
    <3>4. semanticEvaluation' = EvaluateSemanticCoverage(semanticBase, semanticPlan,
                                                         scannerRecords, reviewRecords)'
      BY <1>2
    <3>5. analysisSnapshot'.stage = SemanticallyCovered => semanticEvaluation'.status = "comprehensive"
      BY <1>2, <1>3
    <3> QED BY <1>2, <1>3, <3>1, <3>2, <3>3, <3>4, <3>5 DEF SemanticValid
  <2>3. RedTeamValid'
    BY <1>2, <1>3, <1>4 DEF IInv, ContainerValid, RedTeamValid, redTeamVars
  <2>4. GraphValid'
    BY <1>2, <1>3, <1>4 DEF IInv, ContainerValid, GraphValid, graphVars
  <2>5. ValidationValid'
    BY <1>2, <1>3, <1>4 DEF IInv, ContainerValid, ValidationValid, validationVars
  <2> QED BY <2>1, <2>2, <2>3, <2>4, <2>5 DEF ContainerValid
<1>7. StageEarned'
  <2>1. analysisSnapshot' # None /\ semanticPlan' # None
    BY <1>2, <1>3, NoneAssumption
  <2>2. redTeamPlan' = None /\ graphPlan' = None /\ graphTrace' = None /\ validationPlan' = None
    BY <1>2, <1>4 DEF redTeamVars, graphVars, validationVars
  <2>3. stage' \in {2, 3} /\ (stage' = 3 => semanticEvaluation'.status = "comprehensive")
    BY <1>2
  <2> QED BY <2>1, <2>2, <2>3, NoneAssumption DEF StageEarned
<1> QED BY <1>5, <1>6, <1>7 DEF IInv

\* Every semantic handler preserves the invariant.
LEMMA SemanticStep ==
    ASSUME IInv, Semantic PROVE IInv'
<1>0. /\ scannerRecords \in [Objects -> ScannerReports \cup {None}]
      /\ reviewAssignments \subseteq ReviewAssignments
      /\ reviewRecords \subseteq ReviewRecords
      /\ analysisSnapshot \in Snapshots \cup {None}
  BY DEF IInv, TypeOK
<1>1. semanticPlan # None /\ stage = Decoded =>
        /\ semanticBase \in Snapshots /\ semanticBase.stage = Decoded /\ semanticBase # None
        /\ semanticPlan \in SemanticPlans
        /\ \A a \in reviewAssignments : Reported(scannerRecords, a.object)
        /\ \A r \in reviewRecords :
             /\ r.assignment \in reviewAssignments
             /\ r.decision # "incomplete" =>
                  Reviewable(semanticBase, scannerRecords, r.assignment.object)
  BY DEF IInv, TypeOK, ContainerValid, SemanticValid
<1>2. CASE \E views \in ViewSets : PrepareSemanticCoverage([views |-> views])
  <2>0. PICK views \in ViewSets : PrepareSemanticCoverage([views |-> views])
    BY <1>2
  <2> DEFINE plan == [views |-> views]
  <2>5. plan \in SemanticPlans
    BY BoundsAssumption DEF SemanticPlans
  <2> HIDE DEF plan
  <2>1. /\ semanticPlan = None /\ analysisSnapshot \in Snapshots /\ stage = Decoded
        /\ analysisSnapshot # None
        /\ StoreSemanticEvaluation(analysisSnapshot, plan, scannerRecords,
                                   reviewAssignments, reviewRecords)
    BY <1>0, <2>0 DEF PrepareSemanticCoverage, plan
  <2>2. analysisSnapshot.stage = Decoded
    BY <2>1 DEF IInv, ContainerValid, SnapshotValid
  <2>3. reviewAssignments = {} /\ reviewRecords = {}
    BY <2>1 DEF IInv, ContainerValid, SemanticValid
  <2>4. plan # None
    BY <2>5, NoneAssumption
  <2> QED BY <1>0, <2>1, <2>2, <2>3, <2>4, <2>5, StoreSemanticStep
<1>3. CASE \E o \in Objects : \E report \in Reports[o] : RecordSemanticScannerCoverage(o, report)
  <2>0. PICK o \in Objects : \E report \in Reports[o] : RecordSemanticScannerCoverage(o, report)
    BY <1>3
  <2>9. PICK report \in Reports[o] : RecordSemanticScannerCoverage(o, report)
    BY <2>0
  <2> DEFINE scans == [scannerRecords EXCEPT ![o] = report]
  <2>1. /\ semanticPlan # None /\ stage = Decoded /\ Assigned(o) /\ scannerRecords[o] = None
        /\ StoreSemanticEvaluation(semanticBase, semanticPlan, scans,
                                   reviewAssignments, reviewRecords)
    BY <2>9 DEF RecordSemanticScannerCoverage
  <2>2. scans \in [Objects -> ScannerReports \cup {None}]
    BY <1>0, ReportsAssumption
  <2>3. \A a \in reviewAssignments : a.object \in Objects /\ a.object # o
    BY <1>0, <1>1, <2>1 DEF ReviewAssignments, Reported
  <2>4. \A x \in Objects : x # o => scans[x] = scannerRecords[x]
    BY <1>0
  <2>5. \A r \in reviewRecords : r.assignment.object \in Objects /\ r.assignment.object # o
    BY <1>1, <2>1, <2>3
  <2> HIDE DEF scans
  <2>6. \A a \in reviewAssignments : Reported(scans, a.object)
    BY <1>1, <2>1, <2>3, <2>4 DEF Reported
  <2>7. \A r \in reviewRecords : /\ r.assignment \in reviewAssignments
                                 /\ r.decision # "incomplete" =>
                                      Reviewable(semanticBase, scans, r.assignment.object)
    BY <1>1, <2>1, <2>4, <2>5 DEF Reviewable
  <2> QED BY <1>0, <1>1, <2>1, <2>2, <2>6, <2>7, StoreSemanticStep
<1>4. CASE \E o \in Objects, slot \in Slots, r \in Reviewers :
             IssueSemanticReviewAssignment(o, slot, r)
  <2> PICK o \in Objects, slot \in Slots, r \in Reviewers :
             IssueSemanticReviewAssignment(o, slot, r)
    BY <1>4
  <2> DEFINE new == [object |-> o, slot |-> slot, reviewer |-> r]
             assignments == reviewAssignments \cup {new}
  <2>1. /\ semanticPlan # None /\ stage = Decoded /\ Reported(scannerRecords, o)
        /\ StoreSemanticEvaluation(semanticBase, semanticPlan, scannerRecords,
                                   assignments, reviewRecords)
    BY DEF IssueSemanticReviewAssignment
  <2>2. assignments \subseteq ReviewAssignments
    BY <1>0 DEF ReviewAssignments
  <2>3. \A a \in assignments : Reported(scannerRecords, a.object)
    BY <1>1, <2>1
  <2>4. \A x \in reviewRecords : /\ x.assignment \in assignments
                                 /\ x.decision # "incomplete" =>
                                      Reviewable(semanticBase, scannerRecords, x.assignment.object)
    BY <1>1, <2>1
  <2> HIDE DEF assignments
  <2> QED BY <1>0, <1>1, <2>1, <2>2, <2>3, <2>4, StoreSemanticStep
<1>5. CASE \E a \in reviewAssignments, d \in ReviewDecisions : RecordSemanticReview(a, d)
  <2> PICK a \in reviewAssignments, d \in ReviewDecisions : RecordSemanticReview(a, d)
    BY <1>5
  <2> DEFINE new == [assignment |-> a, decision |-> d]
             records == reviewRecords \cup {new}
  <2>1. /\ semanticPlan # None /\ stage = Decoded
        /\ d # "incomplete" => Reviewable(semanticBase, scannerRecords, a.object)
        /\ StoreSemanticEvaluation(semanticBase, semanticPlan, scannerRecords,
                                   reviewAssignments, records)
    BY DEF RecordSemanticReview
  <2>2. records \subseteq ReviewRecords
    BY <1>0 DEF ReviewRecords
  <2>3. \A x \in records : /\ x.assignment \in reviewAssignments
                           /\ x.decision # "incomplete" =>
                                Reviewable(semanticBase, scannerRecords, x.assignment.object)
    BY <1>1, <2>1
  <2> HIDE DEF records
  <2> QED BY <1>0, <1>1, <2>1, <2>2, <2>3, StoreSemanticStep
<1> QED BY <1>2, <1>3, <1>4, <1>5 DEF Semantic
-----------------------------------------------------------------------------
(* Acquisition.                                                            *)

\* Without a semantic plan there is no later evidence to clear.
LEMMA EmptyBeforeDecoding ==
    ASSUME IInv, semanticPlan = None
    PROVE  EmptyCoverage
<1>1. SemanticValid /\ RedTeamValid /\ GraphValid /\ ValidationValid
  BY DEF IInv, ContainerValid
<1>2. /\ semanticBase = None /\ scannerRecords = NoScans
      /\ reviewAssignments = {} /\ reviewRecords = {} /\ semanticEvaluation = None
  BY <1>1 DEF SemanticValid
<1>3. redTeamPlan = None
  BY <1>1 DEF RedTeamValid, RedTeamPlanBuildable
<1>4. graphPlan = None
  BY <1>1 DEF GraphValid, GraphBuildable
<1>5. validationPlan = None
  BY <1>1, <1>4 DEF ValidationValid, ValidationPlanBuildable
<1>6. /\ redTeamBase = None /\ redTeamAssignments = {}
      /\ redTeamReviews = NoReviews /\ redTeamEvaluation = None
  BY <1>1, <1>3 DEF RedTeamValid
<1>7. graphBase = None /\ graphTrace = None
  BY <1>1, <1>4 DEF GraphValid
<1>8. validationBase = None /\ validationRecords = {} /\ validationEvaluation = None
  BY <1>1, <1>5 DEF ValidationValid
<1> QED BY <1>2, <1>3, <1>4, <1>5, <1>6, <1>7, <1>8 DEF EmptyCoverage

\* An acquisition result: a stage up to decoded and a snapshot taken at it.
AcquisitionResults ==
    {r \in [stage: Stages, snapshot: Snapshots] : r.stage <= Decoded /\ r.snapshot.stage = r.stage}

\* Persisting an inventory stays within the acquisition stages.
LEMMA PersistInventoryResult ==
    ASSUME NEW current \in [stage: Stages, snapshot: Snapshots \cup {None}],
           current.stage <= Inventoried,
           current.snapshot # None => current.snapshot.stage = current.stage,
           NEW inventory \in {"complete", "incomplete"}, NEW keep \in BOOLEAN
    PROVE  PersistInventory(current, inventory, keep) \in AcquisitionResults
<1> DEFINE advanced == inventory = "complete" /\ current.stage = Acquired
           next == IF advanced THEN Inventoried ELSE current.stage
           previous == IF current.snapshot = None \/ (advanced /\ ~keep)
                       THEN EmptySnapshot(next) ELSE current.snapshot
           snap == [previous EXCEPT !.stage = next, !.inventory = inventory]
<1>1. next \in Stages /\ next <= Decoded
  BY DEF Stages
<1>2. EmptySnapshot(next) \in Snapshots
  BY <1>1 DEF EmptySnapshot, Snapshots
<1>3. previous \in Snapshots
  BY <1>2
<1>4. snap \in Snapshots /\ snap.stage = next
  <2> HIDE DEF previous, next
  <2> QED BY <1>1, <1>3 DEF Snapshots
<1>5. PersistInventory(current, inventory, keep) = [stage |-> next, snapshot |-> snap]
  BY DEF PersistInventory
<1> HIDE DEF snap, next
<1> QED BY <1>1, <1>4, <1>5 DEF AcquisitionResults

\* Decoding an object stays within the acquisition stages.
LEMMA PersistDerivedResult ==
    ASSUME NEW current \in AcquisitionResults, NEW o \in Objects
    PROVE  PersistDerived(current, o) \in AcquisitionResults
<1> DEFINE decoded == [current.snapshot EXCEPT !.artifacts = @ \cup {o}]
           advanced == /\ current.stage = Inventoried
                       /\ ~HasUpstreamBlockers(decoded)
                       /\ Decodable \subseteq decoded.artifacts
           next == IF advanced THEN Decoded ELSE current.stage
           snap == [decoded EXCEPT !.stage = next]
<1>1. next \in Stages /\ next <= Decoded
  BY DEF Stages, AcquisitionResults
<1>2. decoded \in Snapshots
  BY DEF AcquisitionResults, Snapshots, Artifacts
<1>3. snap \in Snapshots /\ snap.stage = next
  <2> HIDE DEF decoded, next
  <2> QED BY <1>1, <1>2 DEF Snapshots
<1>4. PersistDerived(current, o) = [stage |-> next, snapshot |-> snap]
  BY DEF PersistDerived
<1> HIDE DEF snap, next
<1> QED BY <1>1, <1>3, <1>4 DEF AcquisitionResults

\* Storing what an acquisition step computed preserves the invariant.
LEMMA StoreAcquisitionStep ==
    ASSUME IInv, Acquiring, NEW result \in AcquisitionResults,
           result.stage < Inventoried => stage < Inventoried,
           StoreAcquisition(result)
    PROVE  IInv'
<1>1. /\ stage' \in Stages /\ stage' <= Decoded
      /\ analysisSnapshot' \in Snapshots /\ analysisSnapshot'.stage = stage'
      /\ UNCHANGED <<supplyChainGraph, reportFlow>>
  BY DEF StoreAcquisition, AcquisitionResults
<1>2. EmptyCoverage
  BY NothingBeforeDecoding, EmptyBeforeDecoding DEF Acquiring
<1>3. EmptyCoverage'
  BY <1>2 DEF StoreAcquisition, ClearCoverage, EmptyCoverage, coverageVars, semanticVars,
              redTeamVars, graphVars, validationVars
<1>4. TypeOK'
  BY <1>1, <1>3 DEF IInv, TypeOK, EmptyCoverage, NoScans, NoReviews, ReviewOutcomes
<1>5. ContainerValid'
  <2>1. SnapshotValid' BY <1>1 DEF SnapshotValid
  <2>2. SemanticValid' BY <1>3 DEF SemanticValid, EmptyCoverage
  <2>3. RedTeamValid' BY <1>1, <1>3 DEF RedTeamValid, EmptyCoverage
  <2>4. GraphValid' BY <1>1, <1>3 DEF GraphValid, EmptyCoverage
  <2>5. ValidationValid' BY <1>1, <1>3 DEF ValidationValid, EmptyCoverage
  <2> QED BY <2>1, <2>2, <2>3, <2>4, <2>5 DEF ContainerValid
<1>6. StageEarned'
  <2>1. analysisSnapshot' # None
    BY <1>1, NoneAssumption
  <2>2. /\ semanticPlan' = None /\ redTeamPlan' = None /\ graphPlan' = None
        /\ graphTrace' = None /\ validationPlan' = None
    BY <1>3 DEF EmptyCoverage
  <2> QED BY <1>1, <2>1, <2>2, NoneAssumption DEF StageEarned, Stages
<1> QED BY <1>4, <1>5, <1>6 DEF IInv

\* A dependency audit preserves the invariant at every stage it can run in.
LEMMA DependencyAuditStep ==
    ASSUME IInv, NEW g \in Graphs, NEW matched \in BOOLEAN, DependencyAudit(g, matched)
    PROVE  IInv'
<1>1. /\ analysisSnapshot' # analysisSnapshot =>
           /\ analysisSnapshot # None
           /\ analysisSnapshot' = [analysisSnapshot EXCEPT !.artifacts = @ \cup {g}]
      /\ supplyChainGraph' \in {g, supplyChainGraph}
      /\ supplyChainGraph' # supplyChainGraph => semanticPlan = None
      /\ UNCHANGED <<stage, coverageVars, reportFlow>>
  BY DEF DependencyAudit
<1>2. /\ analysisSnapshot' \in Snapshots \cup {None}
      /\ analysisSnapshot' = None <=> analysisSnapshot = None
      /\ analysisSnapshot' # None => /\ analysisSnapshot'.stage = analysisSnapshot.stage
                                     /\ analysisSnapshot'.ledger = analysisSnapshot.ledger
  <2>1. CASE analysisSnapshot' = analysisSnapshot
    BY <2>1 DEF IInv, TypeOK
  <2>2. CASE analysisSnapshot' # analysisSnapshot
    <3>1. analysisSnapshot \in Snapshots
      BY <1>1, <2>2 DEF IInv, TypeOK
    <3>2. /\ analysisSnapshot' \in Snapshots
          /\ analysisSnapshot'.stage = analysisSnapshot.stage
          /\ analysisSnapshot'.ledger = analysisSnapshot.ledger
      BY <1>1, <2>2, <3>1 DEF Snapshots, Artifacts
    <3> QED BY <1>1, <2>2, <3>2, NoneAssumption
  <2> QED BY <2>1, <2>2
<1> USE DEF coverageVars, semanticVars, redTeamVars, graphVars, validationVars
<1>3. TypeOK'
  BY <1>1, <1>2 DEF IInv, TypeOK
<1>4. ContainerValid'
  <2>1. SnapshotValid'
    BY <1>1, <1>2 DEF IInv, ContainerValid, SnapshotValid
  <2>2. SemanticValid'
    BY <1>1, <1>2 DEF IInv, ContainerValid, SemanticValid
  <2>3. RedTeamValid'
    BY <1>1, <1>2 DEF IInv, ContainerValid, RedTeamValid, RedTeamPlanBuildable
  <2>4. GraphValid'
    BY <1>1, <1>2 DEF IInv, ContainerValid, GraphValid, GraphBuildable, GraphTraceOf
  <2>5. ValidationValid'
    <3>1. CASE supplyChainGraph' = supplyChainGraph
      BY <1>1, <1>2, <3>1 DEF IInv, ContainerValid, ValidationValid, ValidationPlanBuildable
    <3>2. CASE supplyChainGraph' # supplyChainGraph
      <4>1. EmptyCoverage
        BY <1>1, <3>2, EmptyBeforeDecoding
      <4> QED BY <1>1, <1>2, <4>1, NoneAssumption
                 DEF IInv, ContainerValid, ValidationValid, EmptyCoverage
    <3> QED BY <3>1, <3>2
  <2> QED BY <2>1, <2>2, <2>3, <2>4, <2>5 DEF ContainerValid
<1>5. StageEarned'
  BY <1>1, <1>2 DEF IInv, StageEarned
<1> QED BY <1>3, <1>4, <1>5 DEF IInv

\* Every acquisition handler preserves the invariant.
LEMMA AcquisitionStep ==
    ASSUME IInv, Acquisition PROVE IInv'
<1> DEFINE current == [stage |-> stage, snapshot |-> analysisSnapshot]
<1>1. /\ current \in [stage: Stages, snapshot: Snapshots \cup {None}]
      /\ current.snapshot # None => current.snapshot.stage = current.stage
      /\ current.stage = stage
  BY DEF IInv, TypeOK, ContainerValid, SnapshotValid
<1>0. Inventories \subseteq {"complete", "incomplete"} /\ Decodable \subseteq Objects
  BY DEF Inventories, Decodable
<1>2. CASE \E inventory \in Inventories, keep \in BOOLEAN : ListSource(inventory, keep)
  <2> PICK inventory \in {"complete", "incomplete"}, keep \in BOOLEAN :
             ListSource(inventory, keep)
    BY <1>0, <1>2
  <2> DEFINE result == PersistInventory(current, inventory, keep)
  <2>1. Acquiring /\ StoreAcquisition(result)
    BY DEF ListSource
  <2>2. result \in AcquisitionResults
    BY <1>1, <2>1, PersistInventoryResult DEF Acquiring
  <2>3. result.stage < Inventoried => stage < Inventoried
    BY <1>1, <2>1 DEF PersistInventory, Acquiring
  <2> HIDE DEF result
  <2> QED BY <2>1, <2>2, <2>3, StoreAcquisitionStep
<1>3. CASE \E o \in Decodable, inventory \in Inventories : IndexFile(o, inventory)
  <2> PICK o \in Objects, inventory \in {"complete", "incomplete"} : IndexFile(o, inventory)
    BY <1>0, <1>3
  <2> DEFINE listed == PersistInventory(current, inventory, TRUE)
             result == PersistDerived(listed, o)
  <2>1. Acquiring /\ StoreAcquisition(result)
    BY DEF IndexFile
  <2>2. listed \in AcquisitionResults
    <3>1. current.stage <= Inventoried
      BY <1>1, <2>1 DEF Acquiring
    <3>2. TRUE \in BOOLEAN
      OBVIOUS
    <3> HIDE DEF current
    <3> QED BY <1>1, <3>1, <3>2, PersistInventoryResult
  <2>3. listed.stage < Inventoried => stage < Inventoried
    BY <1>1, <2>1 DEF PersistInventory, Acquiring
  <2> HIDE DEF listed
  <2>4. result \in AcquisitionResults
    BY <2>2, PersistDerivedResult
  <2>5. result.stage < Inventoried => listed.stage < Inventoried
    BY <2>2 DEF PersistDerived, AcquisitionResults, Stages
  <2> HIDE DEF result
  <2> QED BY <2>1, <2>3, <2>4, <2>5, StoreAcquisitionStep
<1>4. CASE \E g \in Graphs, matched \in BOOLEAN : DependencyAudit(g, matched)
  BY <1>4, DependencyAuditStep
<1> QED BY <1>2, <1>3, <1>4 DEF Acquisition

-----------------------------------------------------------------------------
(* Parts of the container's validity that a step leaves alone.             *)

\* From inventoried on there is a snapshot, and it carries the audit's stage.
LEMMA SnapshotOfStage ==
    ASSUME IInv, stage >= Inventoried
    PROVE  /\ analysisSnapshot \in Snapshots /\ analysisSnapshot # None
           /\ analysisSnapshot.stage = stage
  BY DEF IInv, TypeOK, StageEarned, ContainerValid, SnapshotValid

\* Moving the stage of a snapshot, and nothing else, gives a snapshot.
LEMMA AdvancedSnapshot ==
    ASSUME NEW snap \in Snapshots, NEW next \in Stages
    PROVE  /\ [snap EXCEPT !.stage = next] \in Snapshots
           /\ [snap EXCEPT !.stage = next].stage = next
           /\ [snap EXCEPT !.stage = next].ledger = snap.ledger
  BY DEF Snapshots

\* The semantic part stays valid under a step of the later stages.
LEMMA SemanticKept ==
    ASSUME SemanticValid, UNCHANGED semanticVars, analysisSnapshot # None,
           analysisSnapshot'.ledger = analysisSnapshot.ledger,
           analysisSnapshot'.stage # SemanticallyCovered
    PROVE  SemanticValid'
  BY DEF SemanticValid, semanticVars

\* The red-team part stays valid under a step of the later stages.
LEMMA RedTeamKept ==
    ASSUME RedTeamValid, UNCHANGED <<semanticVars, redTeamVars, supplyChainGraph>>,
           redTeamPlan # None, redTeamEvaluation.status = "comprehensive"
    PROVE  RedTeamValid'
<1> USE DEF semanticVars, redTeamVars
<1>1. RedTeamPlanBuildable(redTeamBase) => RedTeamPlanBuildable(redTeamBase)'
  BY DEF RedTeamPlanBuildable
<1> QED BY <1>1 DEF RedTeamValid

\* The graph part stays valid when its trace is complete or its stage not reached.
LEMMA GraphKept ==
    ASSUME GraphValid, UNCHANGED <<semanticVars, redTeamVars, graphVars, supplyChainGraph>>,
           analysisSnapshot'.stage \in {Traced, Validated, Finalized} => graphTrace = "complete"
    PROVE  GraphValid'
<1> USE DEF semanticVars, redTeamVars, graphVars
<1>1. GraphBuildable(graphBase) => GraphBuildable(graphBase)'
  BY DEF GraphBuildable
<1> QED BY <1>1 DEF GraphValid, GraphTraceOf

\* Without a validation plan the validation part only asks for an early stage.
LEMMA ValidationNotStarted ==
    ASSUME ValidationValid, validationPlan = None, UNCHANGED validationVars,
           analysisSnapshot'.stage \notin {Validated, Finalized}
    PROVE  ValidationValid'
  BY DEF ValidationValid, validationVars

\* Before red teaming ends there is no graph, before tracing ends no validation.
LEMMA NothingAheadOfStage ==
    ASSUME IInv
    PROVE  /\ stage < Scanned => redTeamPlan = None
           /\ stage < RedTeamed => graphPlan = None /\ graphTrace = None
           /\ stage < Traced => graphTrace # "complete" /\ validationPlan = None
<1> USE DEF IInv, StageEarned, TypeOK, Stages
<1>1. /\ stage < Scanned => redTeamPlan = None
      /\ stage < RedTeamed => graphPlan = None
      /\ stage < Traced => graphTrace # "complete" /\ validationPlan = None
  OBVIOUS
<1>2. graphPlan = None => graphTrace = None
  BY DEF ContainerValid, GraphValid
<1> QED BY <1>1, <1>2

-----------------------------------------------------------------------------
(* Red team.                                                               *)

\* Preparing the red team preserves the invariant.
LEMMA PrepareRedTeamStep ==
    ASSUME IInv, PrepareRedTeam
    PROVE  IInv'
<1> DEFINE scanned == [analysisSnapshot EXCEPT !.stage = Scanned]
           plan == RedTeamPlan(scanned, semanticPlan, scannerRecords, semanticEvaluation,
                               reviewRecords, supplyChainGraph)
           E == EvaluateRedTeamCoverage(scanned, plan, NoReviews)
<1>1. /\ stage = SemanticallyCovered /\ RedTeamPlanBuildable(scanned)
      /\ stage' = Scanned /\ analysisSnapshot' = scanned
      /\ redTeamBase' = scanned /\ redTeamPlan' = plan /\ redTeamAssignments' = {}
      /\ redTeamReviews' = NoReviews /\ redTeamEvaluation' = E
      /\ UNCHANGED <<supplyChainGraph, semanticVars, graphVars, validationVars, reportFlow>>
  BY DEF PrepareRedTeam
<1>2. /\ analysisSnapshot \in Snapshots /\ analysisSnapshot # None
      /\ graphPlan = None /\ graphTrace = None /\ validationPlan = None
  BY <1>1, SnapshotOfStage, NothingAheadOfStage
<1>3. /\ scanned \in Snapshots /\ scanned.stage = Scanned
      /\ scanned.ledger = analysisSnapshot.ledger
  <2>1. Scanned \in Stages
    BY DEF Stages
  <2> QED BY <1>2, <2>1, AdvancedSnapshot
<1>6. semanticPlan # None /\ semanticEvaluation.status = "comprehensive"
  BY <1>1 DEF RedTeamPlanBuildable
<1>4. plan \in RedTeamPlans
  <2>1. semanticEvaluation = EvaluateSemanticCoverage(semanticBase, semanticPlan, scannerRecords,
                                                      reviewRecords)
    BY <1>6 DEF IInv, ContainerValid, SemanticValid
  <2>2. /\ scannerRecords \in [Objects -> ScannerReports \cup {None}]
        /\ reviewRecords \subseteq ReviewRecords
        /\ supplyChainGraph \in Graphs \cup {None}
    BY DEF IInv, TypeOK
  <2>3. semanticEvaluation \in SemanticEvaluations
    BY <2>1, <2>2, SemanticEvaluationType
  <2> QED BY <1>3, <2>2, <2>3, RedTeamPlanType
<1>5. E \in RedTeamEvaluations
  BY RedTeamEvaluationType
<1>7. RedTeamPlanBuildable(redTeamBase)'
  BY <1>1 DEF RedTeamPlanBuildable, semanticVars
<1>8. /\ redTeamEvaluation' = EvaluateRedTeamCoverage(redTeamBase, redTeamPlan, redTeamReviews)'
      /\ redTeamPlan' = RedTeamPlan(redTeamBase, semanticPlan, scannerRecords, semanticEvaluation,
                                    reviewRecords, supplyChainGraph)'
  BY <1>1 DEF semanticVars
<1> HIDE DEF scanned, plan, E
<1>9. TypeOK'
  BY <1>1, <1>3, <1>4, <1>5
     DEF IInv, TypeOK, Stages, NoReviews, ReviewOutcomes, semanticVars, graphVars, validationVars
<1>10. ContainerValid'
  <2>1. SnapshotValid'
    BY <1>1, <1>3 DEF SnapshotValid
  <2>2. SemanticValid'
    BY <1>1, <1>2, <1>3, SemanticKept DEF IInv, ContainerValid
  <2>3. RedTeamValid'
    <3>1. redTeamBase' # None /\ redTeamPlan' # None
      BY <1>1, <1>3, <1>4, NoneAssumption
    <3> QED BY <1>1, <1>3, <1>7, <1>8, <3>1 DEF RedTeamValid, NoReviews
  <2>4. GraphValid'
    BY <1>1, <1>2, <1>3 DEF IInv, ContainerValid, GraphValid, graphVars
  <2>5. ValidationValid'
    BY <1>1, <1>2, <1>3, ValidationNotStarted DEF IInv, ContainerValid
  <2> QED BY <2>1, <2>2, <2>3, <2>4, <2>5 DEF ContainerValid
<1>11. StageEarned'
  <2>1. analysisSnapshot' # None /\ redTeamPlan' # None
    BY <1>1, <1>3, <1>4, NoneAssumption
  <2>2. graphPlan' = None /\ graphTrace' = None /\ validationPlan' = None
    BY <1>1, <1>2 DEF graphVars, validationVars
  <2>3. semanticPlan' # None /\ semanticEvaluation'.status = "comprehensive"
    BY <1>1, <1>6 DEF semanticVars
  <2> QED BY <1>1, <2>1, <2>2, <2>3, NoneAssumption DEF StageEarned
<1> QED BY <1>9, <1>10, <1>11 DEF IInv

\* Storing an assignment or a review preserves the invariant.
LEMMA StoreRedTeamStep ==
    ASSUME IInv, redTeamPlan # None, stage = Scanned,
           NEW assignments \in SUBSET Categories,
           NEW reviews \in [Categories -> ReviewOutcomes],
           \A c \in Categories : reviews[c] # "none" => c \in assignments,
           StoreRedTeamEvaluation(assignments, reviews)
    PROVE  IInv'
<1> DEFINE E == EvaluateRedTeamCoverage(redTeamBase, redTeamPlan, reviews)
<1>1. /\ redTeamAssignments' = assignments /\ redTeamReviews' = reviews
      /\ redTeamEvaluation' = E
      /\ UNCHANGED <<stage, analysisSnapshot, supplyChainGraph, semanticVars, redTeamBase,
                     redTeamPlan, graphVars, validationVars, reportFlow>>
  BY DEF StoreRedTeamEvaluation
<1>2. /\ analysisSnapshot \in Snapshots /\ analysisSnapshot # None
      /\ analysisSnapshot.stage = Scanned
      /\ graphPlan = None /\ graphTrace = None /\ validationPlan = None
  BY SnapshotOfStage, NothingAheadOfStage
<1>3. E \in RedTeamEvaluations
  BY RedTeamEvaluationType
<1>4. redTeamEvaluation' = EvaluateRedTeamCoverage(redTeamBase, redTeamPlan, redTeamReviews)'
  BY <1>1
<1> HIDE DEF E
<1>5. TypeOK'
  BY <1>1, <1>3 DEF IInv, TypeOK, semanticVars, graphVars, validationVars
<1>6. ContainerValid'
  <2>1. SnapshotValid'
    BY <1>1 DEF IInv, ContainerValid, SnapshotValid
  <2>2. SemanticValid'
    BY <1>1, <1>2, SemanticKept DEF IInv, ContainerValid
  <2>3. RedTeamValid'
    <3>1. RedTeamPlanBuildable(redTeamBase)'
      BY <1>1 DEF IInv, ContainerValid, RedTeamValid, RedTeamPlanBuildable, semanticVars
    <3>2. /\ (redTeamBase = None <=> redTeamPlan = None)' /\ redTeamPlan' # None
          /\ redTeamPlan' = RedTeamPlan(redTeamBase, semanticPlan, scannerRecords,
                                        semanticEvaluation, reviewRecords, supplyChainGraph)'
      BY <1>1 DEF IInv, ContainerValid, RedTeamValid, semanticVars
    <3> QED BY <1>1, <1>2, <1>4, <3>1, <3>2 DEF RedTeamValid
  <2>4. GraphValid'
    BY <1>1, <1>2 DEF IInv, ContainerValid, GraphValid, graphVars
  <2>5. ValidationValid'
    BY <1>1, <1>2, ValidationNotStarted DEF IInv, ContainerValid
  <2> QED BY <2>1, <2>2, <2>3, <2>4, <2>5 DEF ContainerValid
<1>7. StageEarned'
  BY <1>1 DEF IInv, StageEarned, semanticVars, graphVars, validationVars
<1> QED BY <1>5, <1>6, <1>7 DEF IInv

\* Closing the red team preserves the invariant.
LEMMA FinalizeRedTeamStep ==
    ASSUME IInv, FinalizeRedTeam PROVE IInv'
<1> DEFINE sealed == [redTeamBase EXCEPT !.stage = RedTeamed,
                                         !.redTeam = redTeamEvaluation.completed]
<1>1. /\ redTeamPlan # None /\ stage = Scanned
      /\ redTeamEvaluation.status = "comprehensive"
      /\ stage' = RedTeamed /\ analysisSnapshot' = sealed
      /\ UNCHANGED <<supplyChainGraph, coverageVars, reportFlow>>
  BY DEF FinalizeRedTeam
<1> USE DEF coverageVars
<1>2. /\ analysisSnapshot \in Snapshots /\ analysisSnapshot # None
      /\ graphPlan = None /\ graphTrace = None /\ validationPlan = None
  BY <1>1, SnapshotOfStage, NothingAheadOfStage
<1>3. /\ redTeamBase \in Snapshots /\ RedTeamPlanBuildable(redTeamBase)
      /\ redTeamEvaluation = EvaluateRedTeamCoverage(redTeamBase, redTeamPlan, redTeamReviews)
  BY <1>1 DEF IInv, TypeOK, ContainerValid, RedTeamValid
<1>4. redTeamEvaluation \in RedTeamEvaluations
  BY <1>3, RedTeamEvaluationType
<1>5. /\ sealed \in Snapshots /\ sealed.stage = RedTeamed
      /\ sealed.ledger = redTeamBase.ledger
  <2>1. RedTeamed \in Stages
    BY DEF Stages
  <2>2. redTeamEvaluation.completed \in SUBSET Categories
    BY <1>4 DEF RedTeamEvaluations
  <2> QED BY <1>3, <2>1, <2>2 DEF Snapshots
<1> HIDE DEF sealed
<1>6. sealed.ledger = analysisSnapshot.ledger
  <2>1. redTeamBase.ledger = semanticEvaluation.ledger /\ semanticPlan # None
    BY <1>3 DEF RedTeamPlanBuildable
  <2> QED BY <1>2, <1>5, <2>1 DEF IInv, ContainerValid, SemanticValid
<1>7. TypeOK'
  BY <1>1, <1>5 DEF IInv, TypeOK, Stages, semanticVars, redTeamVars, graphVars, validationVars
<1>8. ContainerValid'
  <2>1. SnapshotValid'
    BY <1>1, <1>5 DEF SnapshotValid
  <2>2. SemanticValid'
    BY <1>1, <1>2, <1>5, <1>6, SemanticKept DEF IInv, ContainerValid
  <2>3. RedTeamValid'
    BY <1>1, RedTeamKept DEF IInv, ContainerValid
  <2>4. GraphValid'
    BY <1>1, <1>5, GraphKept DEF IInv, ContainerValid
  <2>5. ValidationValid'
    BY <1>1, <1>2, <1>5, ValidationNotStarted DEF IInv, ContainerValid
  <2> QED BY <2>1, <2>2, <2>3, <2>4, <2>5 DEF ContainerValid
<1>9. StageEarned'
  <2>1. analysisSnapshot' # None
    BY <1>1, <1>5, NoneAssumption
  <2> QED BY <1>1, <1>2, <2>1, NoneAssumption
             DEF IInv, StageEarned, semanticVars, redTeamVars, graphVars, validationVars
<1> QED BY <1>7, <1>8, <1>9 DEF IInv

\* Every red-team handler preserves the invariant.
LEMMA RedTeamStep ==
    ASSUME IInv, RedTeaming PROVE IInv'
<1>0. /\ redTeamAssignments \in SUBSET Categories
      /\ redTeamReviews \in [Categories -> ReviewOutcomes]
  BY DEF IInv, TypeOK
<1>1. redTeamPlan # None =>
        \A c \in Categories : redTeamReviews[c] # "none" => c \in redTeamAssignments
  BY DEF IInv, ContainerValid, RedTeamValid
<1>2. CASE PrepareRedTeam
  BY <1>2, PrepareRedTeamStep
<1>3. CASE \E c \in Categories : IssueRedTeamAssignment(c)
  <2> PICK c \in Categories : IssueRedTeamAssignment(c)
    BY <1>3
  <2> DEFINE assignments == redTeamAssignments \cup {c}
  <2>1. /\ redTeamPlan # None /\ stage = Scanned
        /\ StoreRedTeamEvaluation(assignments, redTeamReviews)
    BY DEF IssueRedTeamAssignment
  <2>2. assignments \in SUBSET Categories
    BY <1>0
  <2>3. \A x \in Categories : redTeamReviews[x] # "none" => x \in assignments
    BY <1>1, <2>1
  <2> HIDE DEF assignments
  <2> QED BY <1>0, <2>1, <2>2, <2>3, StoreRedTeamStep
<1>4. CASE \E c \in Categories, d \in ReviewOutcomes \ {"none"} : RecordRedTeamReview(c, d)
  <2> PICK c \in Categories, d \in ReviewOutcomes \ {"none"} : RecordRedTeamReview(c, d)
    BY <1>4
  <2> DEFINE reviews == [redTeamReviews EXCEPT ![c] = d]
  <2>1. /\ redTeamPlan # None /\ stage = Scanned /\ c \in redTeamAssignments
        /\ StoreRedTeamEvaluation(redTeamAssignments, reviews)
    BY DEF RecordRedTeamReview
  <2>2. reviews \in [Categories -> ReviewOutcomes]
    BY <1>0
  <2>3. \A x \in Categories : reviews[x] # "none" => x \in redTeamAssignments
    BY <1>0, <1>1, <2>1
  <2> HIDE DEF reviews
  <2> QED BY <1>0, <2>1, <2>2, <2>3, StoreRedTeamStep
<1>5. CASE FinalizeRedTeam
  BY <1>5, FinalizeRedTeamStep
<1> QED BY <1>2, <1>3, <1>4, <1>5 DEF RedTeaming

-----------------------------------------------------------------------------
(* Behaviour graph and trace.                                              *)

\* Preparing the behaviour graph preserves the invariant.
LEMMA PrepareEvasiveGraphStep ==
    ASSUME IInv, PrepareEvasiveGraph
    PROVE  IInv'
<1> DEFINE plan == BuildEvasiveGraph(analysisSnapshot, semanticEvaluation, redTeamEvaluation,
                                     supplyChainGraph)
<1>1. /\ stage = RedTeamed /\ GraphBuildable(analysisSnapshot)
      /\ graphBase' = analysisSnapshot /\ graphPlan' = plan /\ graphTrace' = None
      /\ UNCHANGED <<stage, analysisSnapshot, supplyChainGraph, semanticVars, redTeamVars,
                     validationVars, reportFlow>>
  BY DEF PrepareEvasiveGraph
<1>2. /\ analysisSnapshot \in Snapshots /\ analysisSnapshot # None
      /\ analysisSnapshot.stage = RedTeamed /\ validationPlan = None
  BY <1>1, SnapshotOfStage, NothingAheadOfStage
<1>3. /\ redTeamPlan # None /\ redTeamEvaluation.status = "comprehensive"
      /\ semanticPlan # None
  BY <1>1 DEF GraphBuildable
<1>4. plan \in GraphPlans /\ plan # None
  <2>1. /\ semanticEvaluation = EvaluateSemanticCoverage(semanticBase, semanticPlan,
                                                         scannerRecords, reviewRecords)
        /\ redTeamEvaluation = EvaluateRedTeamCoverage(redTeamBase, redTeamPlan, redTeamReviews)
    BY <1>3 DEF IInv, ContainerValid, SemanticValid, RedTeamValid
  <2>2. reviewRecords \subseteq ReviewRecords /\ supplyChainGraph \in Graphs \cup {None}
    BY DEF IInv, TypeOK
  <2>3. semanticEvaluation \in SemanticEvaluations /\ redTeamEvaluation \in RedTeamEvaluations
    BY <2>1, <2>2, SemanticEvaluationType, RedTeamEvaluationType
  <2> QED BY <1>2, <2>2, <2>3, GraphPlanType, NoneAssumption
<1>5. graphPlan' = BuildEvasiveGraph(graphBase, semanticEvaluation, redTeamEvaluation,
                                     supplyChainGraph)'
  BY <1>1 DEF semanticVars, redTeamVars
<1>6. GraphBuildable(graphBase)'
  BY <1>1 DEF GraphBuildable, semanticVars, redTeamVars
<1> HIDE DEF plan
<1>7. TypeOK'
  BY <1>1, <1>2, <1>4 DEF IInv, TypeOK, semanticVars, redTeamVars, validationVars
<1>8. ContainerValid'
  <2>1. SnapshotValid'
    BY <1>1 DEF IInv, ContainerValid, SnapshotValid
  <2>2. SemanticValid'
    BY <1>1, <1>2, SemanticKept DEF IInv, ContainerValid
  <2>3. RedTeamValid'
    BY <1>1, <1>3, RedTeamKept DEF IInv, ContainerValid
  <2>4. GraphValid'
    BY <1>1, <1>2, <1>4, <1>5, <1>6 DEF GraphValid
  <2>5. ValidationValid'
    BY <1>1, <1>2, ValidationNotStarted DEF IInv, ContainerValid
  <2> QED BY <2>1, <2>2, <2>3, <2>4, <2>5 DEF ContainerValid
<1>9. StageEarned'
  BY <1>1, <1>2, NoneAssumption
     DEF IInv, StageEarned, semanticVars, redTeamVars, validationVars
<1> QED BY <1>7, <1>8, <1>9 DEF IInv

\* Tracing the graph preserves the invariant, complete or blocked.
LEMMA TraceEvasiveGraphStep ==
    ASSUME IInv, TraceEvasiveGraphState PROVE IInv'
<1>1. /\ graphPlan # None /\ stage = RedTeamed
      /\ stage' = IF GraphTraceOf(graphPlan) = "complete" THEN Traced ELSE stage
      /\ analysisSnapshot' = [analysisSnapshot EXCEPT !.stage = stage']
      /\ graphTrace' = GraphTraceOf(graphPlan)
      /\ UNCHANGED <<supplyChainGraph, semanticVars, redTeamVars, graphBase, graphPlan,
                     validationVars, reportFlow>>
  BY DEF TraceEvasiveGraphState
<1>2. /\ analysisSnapshot \in Snapshots /\ analysisSnapshot # None /\ validationPlan = None
  BY <1>1, SnapshotOfStage, NothingAheadOfStage
<1>3. stage' \in {RedTeamed, Traced} /\ (stage' = Traced <=> graphTrace' = "complete")
  BY <1>1
<1>4. /\ analysisSnapshot' \in Snapshots /\ analysisSnapshot' # None
      /\ analysisSnapshot'.stage = stage' /\ analysisSnapshot'.ledger = analysisSnapshot.ledger
  <2>1. stage' \in Stages
    BY <1>3 DEF Stages
  <2> QED BY <1>1, <1>2, <2>1, AdvancedSnapshot, NoneAssumption
<1>5. redTeamPlan # None /\ redTeamEvaluation.status = "comprehensive"
  BY <1>1 DEF IInv, StageEarned
<1>6. TypeOK'
  <2>1. graphTrace' \in {"complete", "blocked"}
    BY <1>1, TraceType
  <2>2. stage' \in Stages
    BY <1>3 DEF Stages
  <2> QED BY <1>1, <1>4, <2>1, <2>2 DEF IInv, TypeOK, semanticVars, redTeamVars, validationVars
<1>7. ContainerValid'
  <2>1. SnapshotValid'
    BY <1>4 DEF SnapshotValid
  <2>2. SemanticValid'
    BY <1>1, <1>2, <1>3, <1>4, SemanticKept DEF IInv, ContainerValid
  <2>3. RedTeamValid'
    BY <1>1, <1>5, RedTeamKept DEF IInv, ContainerValid
  <2>4. GraphValid'
    <3>1. GraphBuildable(graphBase)'
      BY <1>1 DEF IInv, ContainerValid, GraphValid, GraphBuildable, semanticVars, redTeamVars
    <3>2. /\ (graphBase = None <=> graphPlan = None)'
          /\ graphPlan' = BuildEvasiveGraph(graphBase, semanticEvaluation, redTeamEvaluation,
                                            supplyChainGraph)'
          /\ graphTrace' = GraphTraceOf(graphPlan)' /\ graphPlan' # None
      BY <1>1 DEF IInv, ContainerValid, GraphValid, GraphTraceOf, semanticVars, redTeamVars
    <3> QED BY <1>3, <1>4, <3>1, <3>2 DEF GraphValid
  <2>5. ValidationValid'
    BY <1>1, <1>2, <1>3, <1>4, ValidationNotStarted DEF IInv, ContainerValid
  <2> QED BY <2>1, <2>2, <2>3, <2>4, <2>5 DEF ContainerValid
<1>8. StageEarned'
  BY <1>1, <1>2, <1>3, <1>4, NoneAssumption
     DEF IInv, StageEarned, semanticVars, redTeamVars, validationVars
<1> QED BY <1>6, <1>7, <1>8 DEF IInv

\* Both tracing handlers preserve the invariant.
LEMMA TracingStep ==
    ASSUME IInv, Tracing PROVE IInv'
  BY PrepareEvasiveGraphStep, TraceEvasiveGraphStep DEF Tracing

-----------------------------------------------------------------------------
(* Validation and report.                                                  *)

\* The binding of the validation plan stays valid under a step of its handlers.
LEMMA FoundationKept ==
    ASSUME NEW snap, UNCHANGED <<semanticVars, redTeamVars, graphVars>>,
           ValidationPlanBuildable(snap)
    PROVE  ValidationPlanBuildable(snap)'
  BY DEF ValidationPlanBuildable, semanticVars, redTeamVars, graphVars

\* What a step of a traced audit keeps valid besides the validation part.
LEMMA TracedKept ==
    ASSUME IInv, stage >= Traced,
           UNCHANGED <<supplyChainGraph, semanticVars, redTeamVars, graphVars>>,
           stage' \in {Traced, Validated, Finalized},
           analysisSnapshot' = [analysisSnapshot EXCEPT !.stage = stage']
    PROVE  /\ SnapshotValid' /\ SemanticValid' /\ RedTeamValid' /\ GraphValid'
           /\ analysisSnapshot' \in Snapshots /\ analysisSnapshot' # None
           /\ analysisSnapshot'.stage = stage' /\ stage' \in Stages
<1>1. analysisSnapshot \in Snapshots /\ analysisSnapshot # None
  BY SnapshotOfStage DEF IInv, TypeOK, Stages
<1>2. stage' \in Stages
  BY DEF Stages
<1>3. /\ analysisSnapshot' \in Snapshots /\ analysisSnapshot' # None
      /\ analysisSnapshot'.stage = stage' /\ analysisSnapshot'.ledger = analysisSnapshot.ledger
  BY <1>1, <1>2, AdvancedSnapshot, NoneAssumption
<1>4. /\ redTeamPlan # None /\ redTeamEvaluation.status = "comprehensive"
      /\ graphTrace = "complete"
  BY DEF IInv, StageEarned, TypeOK, Stages
<1>5. SnapshotValid'
  BY <1>3 DEF SnapshotValid
<1>6. SemanticValid'
  BY <1>1, <1>3, SemanticKept DEF IInv, ContainerValid
<1>7. RedTeamValid'
  BY <1>4, RedTeamKept DEF IInv, ContainerValid
<1>8. GraphValid'
  BY <1>4, GraphKept DEF IInv, ContainerValid
<1> QED BY <1>2, <1>3, <1>5, <1>6, <1>7, <1>8

\* A step that leaves stage and snapshot alone is such a step too.
LEMMA SameSnapshot ==
    ASSUME IInv, stage >= Inventoried, UNCHANGED <<stage, analysisSnapshot>>
    PROVE  analysisSnapshot' = [analysisSnapshot EXCEPT !.stage = stage']
  BY SnapshotOfStage DEF Snapshots

\* Preparing the validation preserves the invariant.
LEMMA PrepareAssuranceValidationStep ==
    ASSUME IInv, NEW checks \in {"passed", "failed"}, PrepareAssuranceValidation(checks)
    PROVE  IInv'
<1> DEFINE plan == [findings |-> graphPlan.findings,
                    checks |-> IF SupplyChainComplete(analysisSnapshot, supplyChainGraph)
                               THEN checks ELSE "failed",
                    supply |-> supplyChainGraph]
           E == EvaluateAssuranceValidation(plan, {})
<1>1. /\ stage = Traced /\ graphTrace = "complete" /\ ValidationPlanBuildable(analysisSnapshot)
      /\ validationBase' = analysisSnapshot /\ validationPlan' = plan
      /\ validationRecords' = {} /\ validationEvaluation' = E
      /\ UNCHANGED <<stage, analysisSnapshot, supplyChainGraph, semanticVars, redTeamVars,
                     graphVars, reportFlow>>
  BY DEF PrepareAssuranceValidation
<1>2. E \in {"complete", "incomplete"}
  BY ValidationEvaluationType
<1>3. graphPlan \in GraphPlans
  BY <1>1 DEF ValidationPlanBuildable, IInv, TypeOK
<1>4. plan \in ValidationPlans /\ plan # None
  BY <1>3, NoneAssumption DEF IInv, TypeOK, GraphPlans, ValidationPlans
<1>5. /\ analysisSnapshot' = [analysisSnapshot EXCEPT !.stage = stage']
      /\ analysisSnapshot # None /\ analysisSnapshot \in Snapshots
  BY <1>1, SameSnapshot, SnapshotOfStage
<1>6. /\ SnapshotValid' /\ SemanticValid' /\ RedTeamValid' /\ GraphValid'
      /\ analysisSnapshot'.stage = Traced
  <2>1. stage' \in {Traced, Validated, Finalized} /\ stage >= Traced
    BY <1>1
  <2>2. UNCHANGED <<supplyChainGraph, semanticVars, redTeamVars, graphVars>>
    BY <1>1
  <2> QED BY <1>1, <1>5, <2>1, <2>2, TracedKept
<1>7. ValidationPlanBuildable(validationBase)'
  BY <1>1 DEF ValidationPlanBuildable, semanticVars, redTeamVars, graphVars
<1>8. /\ validationPlan'.findings = graphPlan'.findings
      /\ validationPlan'.supply = supplyChainGraph'
  BY <1>1 DEF graphVars
<1>9. validationPlan'.checks = "passed" => SupplyChainComplete(validationBase', supplyChainGraph')
  <2>1. plan.checks = "passed" => SupplyChainComplete(analysisSnapshot, supplyChainGraph)
    OBVIOUS
  <2> QED BY <1>1, <2>1 DEF SupplyChainComplete, SupplyChainRequired
<1>10. validationEvaluation' = EvaluateAssuranceValidation(validationPlan, validationRecords)'
  BY <1>1
<1> HIDE DEF plan, E
<1>11. ValidationValid'
  BY <1>1, <1>4, <1>5, <1>6, <1>7, <1>8, <1>9, <1>10 DEF ValidationValid
<1>12. TypeOK'
  BY <1>1, <1>2, <1>4, <1>5 DEF IInv, TypeOK, semanticVars, redTeamVars, graphVars
<1>13. StageEarned'
  BY <1>1 DEF IInv, StageEarned, semanticVars, redTeamVars, graphVars
<1> QED BY <1>6, <1>11, <1>12, <1>13 DEF IInv, ContainerValid

\* Recording a validator's decision preserves the invariant.
LEMMA RecordAssuranceValidationStep ==
    ASSUME IInv, NEW a \in ValidationAssignments, NEW c \in Conclusions,
           RecordAssuranceValidation(a, c)
    PROVE  IInv'
<1> DEFINE new == [assignment |-> a, conclusion |-> c]
           records == validationRecords \cup {new}
           E == EvaluateAssuranceValidation(validationPlan, records)
<1>1. /\ validationPlan # None /\ stage = Traced
      /\ a \in AssignmentsOf(validationPlan) /\ c \in ConclusionsFor(a.kind)
      /\ validationRecords' = records /\ validationEvaluation' = E
      /\ UNCHANGED <<stage, analysisSnapshot, supplyChainGraph, semanticVars, redTeamVars,
                     graphVars, validationBase, validationPlan, reportFlow>>
  BY DEF RecordAssuranceValidation
<1>2. E \in {"complete", "incomplete"}
  BY ValidationEvaluationType
<1>3. records \subseteq ValidationRecords
  BY DEF IInv, TypeOK, ValidationRecords
<1>4. analysisSnapshot' = [analysisSnapshot EXCEPT !.stage = stage']
  BY <1>1, SameSnapshot
<1>5. /\ SnapshotValid' /\ SemanticValid' /\ RedTeamValid' /\ GraphValid'
      /\ analysisSnapshot'.stage = Traced
  <2>1. stage' \in {Traced, Validated, Finalized} /\ stage >= Traced
    BY <1>1
  <2>2. UNCHANGED <<supplyChainGraph, semanticVars, redTeamVars, graphVars>>
    BY <1>1
  <2> QED BY <1>1, <1>4, <2>1, <2>2, TracedKept
<1>6. \A r \in records : /\ r.assignment \in AssignmentsOf(validationPlan)
                         /\ r.conclusion \in ConclusionsFor(r.assignment.kind)
  BY <1>1 DEF IInv, ContainerValid, ValidationValid
<1>7. /\ (validationBase = None <=> validationPlan = None)'
      /\ ValidationPlanBuildable(validationBase)
      /\ validationPlan'.findings = graphPlan'.findings
      /\ validationPlan'.supply = supplyChainGraph'
      /\ validationPlan'.checks = "passed" =>
           SupplyChainComplete(validationBase', supplyChainGraph')
  BY <1>1 DEF IInv, ContainerValid, ValidationValid, graphVars, SupplyChainComplete,
              SupplyChainRequired
<1>8. ValidationPlanBuildable(validationBase)'
  BY <1>1, <1>7 DEF ValidationPlanBuildable, semanticVars, redTeamVars, graphVars
<1>9. validationEvaluation' = EvaluateAssuranceValidation(validationPlan, validationRecords)'
  BY <1>1
<1> HIDE DEF records, E
<1>10. ValidationValid'
  BY <1>1, <1>5, <1>6, <1>7, <1>8, <1>9 DEF ValidationValid
<1>11. TypeOK'
  BY <1>1, <1>2, <1>3 DEF IInv, TypeOK, semanticVars, redTeamVars, graphVars
<1>12. StageEarned'
  BY <1>1 DEF IInv, StageEarned, semanticVars, redTeamVars, graphVars
<1> QED BY <1>5, <1>10, <1>11, <1>12 DEF IInv, ContainerValid

\* The validation part stays valid when it is only sealed.
LEMMA ValidationSealed ==
    ASSUME ValidationValid, validationPlan # None, validationEvaluation = "complete",
           UNCHANGED <<supplyChainGraph, coverageVars>>
    PROVE  ValidationValid'
<1> USE DEF coverageVars, semanticVars, redTeamVars, graphVars, validationVars
<1>1. ValidationPlanBuildable(validationBase)'
  BY DEF ValidationValid, ValidationPlanBuildable
<1>2. /\ (validationBase = None <=> validationPlan = None)'
      /\ validationPlan'.findings = graphPlan'.findings
      /\ validationPlan'.supply = supplyChainGraph'
      /\ validationPlan'.checks = "passed" =>
           SupplyChainComplete(validationBase', supplyChainGraph')
  BY DEF ValidationValid, SupplyChainComplete, SupplyChainRequired
<1>3. /\ \A r \in validationRecords' : /\ r.assignment \in AssignmentsOf(validationPlan')
                                       /\ r.conclusion \in ConclusionsFor(r.assignment.kind)
      /\ validationEvaluation' = EvaluateAssuranceValidation(validationPlan, validationRecords)'
  BY DEF ValidationValid
<1> QED BY <1>1, <1>2, <1>3 DEF ValidationValid

\* Closing the validation preserves the invariant.
LEMMA FinalizeAssuranceValidationStep ==
    ASSUME IInv, FinalizeAssuranceValidation PROVE IInv'
<1>1. /\ validationPlan # None /\ stage = Traced /\ stage' = Validated
      /\ EvaluateAssuranceValidation(validationPlan, validationRecords) = "complete"
      /\ analysisSnapshot' = [analysisSnapshot EXCEPT !.stage = stage']
      /\ validationEvaluation' = "complete"
      /\ UNCHANGED <<supplyChainGraph, semanticVars, redTeamVars, graphVars, validationBase,
                     validationPlan, validationRecords, reportFlow>>
  BY DEF FinalizeAssuranceValidation
<1>2. validationEvaluation = "complete"
  BY <1>1 DEF IInv, ContainerValid, ValidationValid
<1>3. UNCHANGED coverageVars
  BY <1>1, <1>2 DEF coverageVars, validationVars
<1>4. /\ SnapshotValid' /\ SemanticValid' /\ RedTeamValid' /\ GraphValid'
      /\ analysisSnapshot' \in Snapshots /\ analysisSnapshot' # None /\ stage' \in Stages
  BY <1>1, TracedKept
<1>5. ValidationValid'
  BY <1>1, <1>2, <1>3, ValidationSealed DEF IInv, ContainerValid
<1>6. TypeOK'
  BY <1>1, <1>2, <1>4 DEF IInv, TypeOK, semanticVars, redTeamVars, graphVars
<1>7. StageEarned'
  BY <1>1, <1>4 DEF IInv, StageEarned, semanticVars, redTeamVars, graphVars
<1> QED BY <1>4, <1>5, <1>6, <1>7 DEF IInv, ContainerValid

\* Every validation handler preserves the invariant.
LEMMA ValidationStep ==
    ASSUME IInv, Validation PROVE IInv'
  BY PrepareAssuranceValidationStep, RecordAssuranceValidationStep,
     FinalizeAssuranceValidationStep DEF Validation

\* Reporting preserves the invariant.
LEMMA ReportingStep ==
    ASSUME IInv, Reporting PROVE IInv'
<1>1. CASE FinalizeAssuranceReport
  <2>1. /\ stage = Validated /\ stage' = Finalized /\ reportFlow' = "assurance"
        /\ validationEvaluation = "complete"
        /\ analysisSnapshot' = [analysisSnapshot EXCEPT !.stage = stage']
        /\ UNCHANGED <<supplyChainGraph, coverageVars>>
    BY <1>1 DEF FinalizeAssuranceReport
  <2>2. validationPlan # None
    BY <2>1 DEF IInv, StageEarned
  <2>3. /\ SnapshotValid' /\ SemanticValid' /\ RedTeamValid' /\ GraphValid'
        /\ analysisSnapshot' \in Snapshots /\ analysisSnapshot' # None /\ stage' \in Stages
    BY <2>1, TracedKept DEF coverageVars
  <2>4. ValidationValid'
    BY <2>1, <2>2, ValidationSealed DEF IInv, ContainerValid
  <2>5. TypeOK'
    BY <2>1, <2>3
       DEF IInv, TypeOK, coverageVars, semanticVars, redTeamVars, graphVars, validationVars
  <2>6. StageEarned'
    BY <2>1, <2>3
       DEF IInv, StageEarned, coverageVars, semanticVars, redTeamVars, graphVars, validationVars
  <2> QED BY <2>3, <2>4, <2>5, <2>6 DEF IInv, ContainerValid
<1>2. CASE \E flow \in {"trusted-ledger", "compatibility"} : FinalizeOtherReport(flow)
  <2>1. /\ reportFlow' \in {"trusted-ledger", "compatibility"}
        /\ stage = Acquired /\ analysisSnapshot = None
        /\ UNCHANGED <<stage, analysisSnapshot, supplyChainGraph, coverageVars>>
    BY <1>2 DEF FinalizeOtherReport
  <2> USE DEF coverageVars, semanticVars, redTeamVars, graphVars, validationVars
  <2>2. EmptyCoverage
    BY <2>1, NothingBeforeDecoding, EmptyBeforeDecoding
  <2>3. TypeOK'
    BY <2>1 DEF IInv, TypeOK
  <2>4. ContainerValid'
    BY <2>1, <2>2 DEF ContainerValid, EmptyCoverage, SnapshotValid, SemanticValid, RedTeamValid,
                      GraphValid, ValidationValid
  <2>5. StageEarned'
    BY <2>1 DEF IInv, StageEarned
  <2> QED BY <2>3, <2>4, <2>5 DEF IInv
<1> QED BY <1>1, <1>2 DEF Reporting

-----------------------------------------------------------------------------
(* The theorems.                                                           *)

\* A step that changes nothing preserves the invariant.
LEMMA StutteringStep ==
    ASSUME IInv, UNCHANGED vars PROVE IInv'
<1> USE DEF vars, coverageVars, semanticVars, redTeamVars, graphVars, validationVars
<1>1. TypeOK'
  BY DEF IInv, TypeOK
<1>2. SnapshotValid'
  BY DEF IInv, ContainerValid, SnapshotValid
<1>3. SemanticValid'
  BY DEF IInv, ContainerValid, SemanticValid
<1>4. RedTeamValid'
  BY DEF IInv, ContainerValid, RedTeamValid, RedTeamPlanBuildable
<1>5. GraphValid'
  BY DEF IInv, ContainerValid, GraphValid, GraphBuildable, GraphTraceOf
<1>6. ValidationValid'
  BY DEF IInv, ContainerValid, ValidationValid, ValidationPlanBuildable, SupplyChainComplete,
         SupplyChainRequired
<1>7. StageEarned'
  BY DEF IInv, StageEarned
<1> QED BY <1>1, <1>2, <1>3, <1>4, <1>5, <1>6, <1>7 DEF IInv, ContainerValid

\* Every handler of enforcement.mjs's assurance state preserves the invariant.
LEMMA NextInvariant ==
    ASSUME IInv, [Next]_vars PROVE IInv'
  BY AcquisitionStep, SemanticStep, RedTeamStep, TracingStep, ValidationStep, ReportingStep,
     StutteringStep DEF Next

\* The inductive invariant holds of every reachable container.
THEOREM Invariance == Spec => []IInv
<1>1. Init => IInv
  BY InitInvariant
<1>2. IInv /\ [Next]_vars => IInv'
  BY NextInvariant
<1> QED BY <1>1, <1>2, PTL DEF Spec

\* The container keeps its types, whatever the tools are called with.
THEOREM TypeCorrect == Spec => []TypeOK
<1>1. IInv => TypeOK
  BY DEF IInv
<1> QED BY <1>1, Invariance, PTL

\* No sequence of tool calls poisons an audit: the container that a handler
\* leaves behind passes validateAssuranceStateContainer in the next one.
THEOREM NeverPoisoned == Spec => []ContainerValid
<1>1. IInv => ContainerValid
  BY DEF IInv
<1> QED BY <1>1, Invariance, PTL

\* No stage is reached without the evidence it stands for.
THEOREM EveryStageEarned == Spec => []StageEarned
<1>1. IInv => StageEarned
  BY DEF IInv
<1> QED BY <1>1, Invariance, PTL

-----------------------------------------------------------------------------
(* The evidence: what the invariant of the container does not say of it.   *)

\* Two snapshots carry the same evidence, at whatever stage.
SameEvidence(s, t) ==
    /\ s.inventory = t.inventory /\ s.artifacts = t.artifacts
    /\ s.covered = t.covered /\ s.ledger = t.ledger /\ s.redTeam = t.redTeam

\* Slots are issued up to the number an object needs, each to a reviewer of its own.
SlotsIssued ==
    semanticPlan # None =>
      \A a, b \in reviewAssignments :
        /\ a.slot <= RequiredReviewers(semanticPlan, a.object)
        /\ a.object = b.object /\ a # b => a.slot # b.slot /\ a.reviewer # b.reviewer

\* Everything that is to be decoded was decoded before the reviews began.
EverythingDecoded ==
    /\ stage = Decoded /\ semanticPlan = None => Decodable \subseteq analysisSnapshot.artifacts
    /\ semanticPlan # None => Decodable \subseteq semanticBase.artifacts

\* Once there is a graph, the snapshot's evidence is the one it was built from.
SnapshotOfGraph == graphPlan # None => SameEvidence(analysisSnapshot, graphBase)

\* A validator concludes once.
DecidedOnce == \A r, q \in validationRecords : r.assignment = q.assignment => r = q

Kept == SlotsIssued /\ EverythingDecoded /\ SnapshotOfGraph /\ DecidedOnce

-----------------------------------------------------------------------------
(* The groups of actions.                                                  *)

\* Without a semantic plan nothing but the snapshot's artifacts has to be shown.
LEMMA KeptWhenEmpty ==
    ASSUME EmptyCoverage, stage = Decoded => Decodable \subseteq analysisSnapshot.artifacts
    PROVE  Kept
  BY DEF EmptyCoverage, Kept, SlotsIssued, EverythingDecoded, SnapshotOfGraph, DecidedOnce

\* While the source is acquired there is no evidence to keep.
LEMMA EmptyWhileAcquiring ==
    ASSUME IInv, Acquiring, NEW result, StoreAcquisition(result)
    PROVE  EmptyCoverage /\ EmptyCoverage'
<1>1. EmptyCoverage
  BY NothingBeforeDecoding, EmptyBeforeDecoding DEF Acquiring
<1> QED BY <1>1 DEF StoreAcquisition, ClearCoverage, EmptyCoverage, coverageVars, semanticVars,
                    redTeamVars, graphVars, validationVars

\* The last object that is decoded finds all the others decoded.
LEMMA DecodedWhenAdvanced ==
    ASSUME NEW current \in AcquisitionResults, current.stage < Decoded, NEW o \in Objects,
           PersistDerived(current, o).stage = Decoded
    PROVE  Decodable \subseteq PersistDerived(current, o).snapshot.artifacts
<1> DEFINE decoded == [current.snapshot EXCEPT !.artifacts = @ \cup {o}]
           advanced == /\ current.stage = Inventoried
                       /\ ~HasUpstreamBlockers(decoded)
                       /\ Decodable \subseteq decoded.artifacts
           next == IF advanced THEN Decoded ELSE current.stage
<1>0. PersistDerived(current, o) = [stage |-> next, snapshot |-> [decoded EXCEPT !.stage = next]]
  BY DEF PersistDerived
<1>1. /\ Decodable \subseteq decoded.artifacts
      /\ PersistDerived(current, o).snapshot = [decoded EXCEPT !.stage = Decoded]
  <2>1. current.stage \in Stages
    BY DEF AcquisitionResults
  <2>2. next = Decoded
    BY <1>0
  <2>3. advanced
    BY <2>1, <2>2 DEF Stages
  <2> QED BY <1>0, <2>2, <2>3
<1>2. decoded \in Snapshots
  BY DEF AcquisitionResults, Snapshots, Artifacts
<1>3. [decoded EXCEPT !.stage = Decoded].artifacts = decoded.artifacts
  <2> HIDE DEF decoded
  <2> QED BY <1>2 DEF Snapshots
<1> QED BY <1>1, <1>3

\* Listing, indexing and dependency audits find no evidence they could take back.
LEMMA AcquisitionKeepsEvidence ==
    ASSUME IInv, Kept, Acquisition PROVE Kept' /\ Accumulates
<1> DEFINE current == [stage |-> stage, snapshot |-> analysisSnapshot]
<1>1. /\ current \in [stage: Stages, snapshot: Snapshots \cup {None}]
      /\ current.snapshot # None => current.snapshot.stage = current.stage
      /\ current.stage = stage
  BY DEF IInv, TypeOK, ContainerValid, SnapshotValid
<1>2. Inventories \subseteq {"complete", "incomplete"} /\ Decodable \subseteq Objects
  BY DEF Inventories, Decodable
<1>3. ASSUME NEW result \in AcquisitionResults, Acquiring, StoreAcquisition(result),
             result.stage >= stage,
             result.stage = Decoded => Decodable \subseteq result.snapshot.artifacts
      PROVE  Kept' /\ Accumulates
  <2>1. EmptyCoverage /\ EmptyCoverage'
    BY <1>3, EmptyWhileAcquiring
  <2>2. /\ stage' = result.stage /\ analysisSnapshot' = result.snapshot
        /\ UNCHANGED <<supplyChainGraph, reportFlow>>
    BY <1>3 DEF StoreAcquisition
  <2>3. Kept'
    BY <1>3, <2>1, <2>2, KeptWhenEmpty
       DEF EmptyCoverage, Kept, SlotsIssued, EverythingDecoded, SnapshotOfGraph, DecidedOnce
  <2>4. Accumulates
    BY <1>3, <2>1, <2>2
       DEF EmptyCoverage, Accumulates, Acquiring, semanticVars, redTeamVars, graphVars,
           validationVars, NoScans, NoReviews
  <2> QED BY <2>3, <2>4
<1>4. CASE \E inventory \in Inventories, keep \in BOOLEAN : ListSource(inventory, keep)
  <2> PICK inventory \in {"complete", "incomplete"}, keep \in BOOLEAN :
             ListSource(inventory, keep)
    BY <1>2, <1>4
  <2> DEFINE result == PersistInventory(current, inventory, keep)
  <2>1. Acquiring /\ StoreAcquisition(result)
    BY DEF ListSource
  <2>2. result \in AcquisitionResults
    BY <1>1, <2>1, PersistInventoryResult DEF Acquiring
  <2>3. result.stage >= stage /\ result.stage # Decoded
    BY <1>1, <2>1 DEF PersistInventory, Acquiring
  <2> HIDE DEF result
  <2> QED BY <1>3, <2>1, <2>2, <2>3
<1>5. CASE \E o \in Decodable, inventory \in Inventories : IndexFile(o, inventory)
  <2> PICK o \in Objects, inventory \in {"complete", "incomplete"} : IndexFile(o, inventory)
    BY <1>2, <1>5
  <2> DEFINE listed == PersistInventory(current, inventory, TRUE)
             result == PersistDerived(listed, o)
  <2>1. Acquiring /\ StoreAcquisition(result)
    BY DEF IndexFile
  <2>2. listed \in AcquisitionResults
    <3>1. current.stage <= Inventoried
      BY <1>1, <2>1 DEF Acquiring
    <3>2. TRUE \in BOOLEAN
      OBVIOUS
    <3> HIDE DEF current
    <3> QED BY <1>1, <3>1, <3>2, PersistInventoryResult
  <2>3. listed.stage >= stage /\ listed.stage < Decoded
    BY <1>1, <2>1 DEF PersistInventory, Acquiring
  <2> HIDE DEF listed
  <2>4. result \in AcquisitionResults
    BY <2>2, PersistDerivedResult
  <2>5. result.stage >= listed.stage
    BY <2>2 DEF PersistDerived, AcquisitionResults, Stages
  <2>6. result.stage = Decoded => Decodable \subseteq result.snapshot.artifacts
    BY <2>2, <2>3, DecodedWhenAdvanced
  <2>7. result.stage >= stage
    BY <2>2, <2>3, <2>4, <2>5 DEF AcquisitionResults, Stages, IInv, TypeOK
  <2> HIDE DEF result
  <2> QED BY <1>3, <2>1, <2>4, <2>6, <2>7
<1>6. CASE \E g \in Graphs, matched \in BOOLEAN : DependencyAudit(g, matched)
  <2> PICK g \in Graphs, matched \in BOOLEAN : DependencyAudit(g, matched)
    BY <1>6
  <2>1. /\ analysisSnapshot' # analysisSnapshot =>
             /\ analysisSnapshot # None /\ graphPlan = None
             /\ analysisSnapshot' = [analysisSnapshot EXCEPT !.artifacts = @ \cup {g}]
        /\ semanticPlan # None => UNCHANGED supplyChainGraph
        /\ UNCHANGED <<stage, coverageVars, reportFlow>>
    BY DEF DependencyAudit
  <2> USE DEF coverageVars, semanticVars, redTeamVars, graphVars, validationVars
  <2>2. stage = Decoded /\ semanticPlan = None => Decodable \subseteq analysisSnapshot'.artifacts
    <3>1. analysisSnapshot # None => analysisSnapshot \in Snapshots
      BY DEF IInv, TypeOK
    <3>2. CASE analysisSnapshot' = analysisSnapshot
      BY <3>2 DEF Kept, EverythingDecoded
    <3>3. CASE analysisSnapshot' # analysisSnapshot
      <4>1. analysisSnapshot.artifacts \subseteq analysisSnapshot'.artifacts
        BY <2>1, <3>1, <3>3 DEF Snapshots
      <4> QED BY <4>1 DEF Kept, EverythingDecoded
    <3> QED BY <3>2, <3>3
  <2>3. EverythingDecoded'
    BY <2>1, <2>2 DEF Kept, EverythingDecoded
  <2>4. SlotsIssued' /\ DecidedOnce'
    BY <2>1 DEF Kept, SlotsIssued, DecidedOnce
  <2>5. SnapshotOfGraph'
    BY <2>1 DEF Kept, SnapshotOfGraph, SameEvidence
  <2>6. Accumulates
    BY <2>1 DEF Accumulates, IInv, TypeOK, Stages
  <2> QED BY <2>3, <2>4, <2>5, <2>6 DEF Kept
<1> QED BY <1>4, <1>5, <1>6 DEF Acquisition

\* The semantic handlers add scans, slots of their own reviewers, and reviews.
LEMMA SemanticKeepsEvidence ==
    ASSUME IInv, Kept, Semantic PROVE Kept' /\ Accumulates
<1>0. /\ stage = Decoded
      /\ \E base, plan, scans, assignments, records :
           StoreSemanticEvaluation(base, plan, scans, assignments, records)
  BY DEF Semantic, PrepareSemanticCoverage, RecordSemanticScannerCoverage,
         IssueSemanticReviewAssignment, RecordSemanticReview
<1>1. /\ redTeamPlan = None /\ graphPlan = None /\ validationPlan = None
      /\ validationRecords = {}
  BY <1>0, NothingBeforeDecoding DEF IInv, ContainerValid, ValidationValid
<1>2. /\ stage' \in {Decoded, SemanticallyCovered}
      /\ UNCHANGED <<supplyChainGraph, redTeamVars, graphVars, validationVars, reportFlow>>
  BY <1>0 DEF StoreSemanticEvaluation
<1>3. SnapshotOfGraph' /\ DecidedOnce'
  BY <1>1, <1>2 DEF SnapshotOfGraph, DecidedOnce, graphVars, validationVars
<1>4. ASSUME /\ semanticPlan # None => UNCHANGED <<semanticBase, semanticPlan>>
             /\ \A o \in Objects :
                  scannerRecords[o] # None => scannerRecords'[o] = scannerRecords[o]
             /\ reviewAssignments \subseteq reviewAssignments'
             /\ reviewRecords \subseteq reviewRecords'
      PROVE  Accumulates
  BY <1>0, <1>2, <1>4 DEF Accumulates, redTeamVars, graphVars, validationVars
<1>5. CASE \E views \in ViewSets : PrepareSemanticCoverage([views |-> views])
  <2> PICK views \in ViewSets : PrepareSemanticCoverage([views |-> views])
    BY <1>5
  <2>1. /\ semanticPlan = None /\ semanticBase' = analysisSnapshot
        /\ scannerRecords' = scannerRecords
        /\ reviewAssignments' = reviewAssignments /\ reviewRecords' = reviewRecords
    BY DEF PrepareSemanticCoverage, StoreSemanticEvaluation
  <2>2. reviewAssignments = {}
    BY <2>1 DEF IInv, ContainerValid, SemanticValid
  <2>3. EverythingDecoded'
    BY <1>0, <2>1 DEF Kept, EverythingDecoded, PrepareSemanticCoverage, StoreSemanticEvaluation
  <2>4. SlotsIssued'
    BY <2>1, <2>2 DEF SlotsIssued
  <2> QED BY <1>3, <1>4, <2>1, <2>3, <2>4 DEF Kept
<1>6. ASSUME semanticPlan # None, UNCHANGED <<semanticBase, semanticPlan>>
      PROVE  EverythingDecoded'
  BY <1>6 DEF Kept, EverythingDecoded
<1>7. CASE \E o \in Objects : \E report \in Reports[o] : RecordSemanticScannerCoverage(o, report)
  <2> PICK o \in Objects : \E report \in Reports[o] : RecordSemanticScannerCoverage(o, report)
    BY <1>7
  <2> PICK report \in Reports[o] : RecordSemanticScannerCoverage(o, report)
    OBVIOUS
  <2>1. /\ semanticPlan # None /\ UNCHANGED <<semanticBase, semanticPlan>>
        /\ scannerRecords[o] = None /\ scannerRecords' = [scannerRecords EXCEPT ![o] = report]
        /\ reviewAssignments' = reviewAssignments /\ reviewRecords' = reviewRecords
    BY DEF RecordSemanticScannerCoverage, StoreSemanticEvaluation
  <2>2. SlotsIssued'
    BY <2>1 DEF Kept, SlotsIssued
  <2>3. \A x \in Objects : scannerRecords[x] # None => scannerRecords'[x] = scannerRecords[x]
    BY <2>1 DEF IInv, TypeOK
  <2> QED BY <1>3, <1>4, <1>6, <2>1, <2>2, <2>3 DEF Kept
<1>8. CASE \E o \in Objects, slot \in Slots, r \in Reviewers :
             IssueSemanticReviewAssignment(o, slot, r)
  <2> PICK o \in Objects, slot \in Slots, reviewer \in Reviewers :
             IssueSemanticReviewAssignment(o, slot, reviewer)
    BY <1>8
  <2> DEFINE issued == [object |-> o, slot |-> slot, reviewer |-> reviewer]
  <2>1. /\ semanticPlan # None /\ UNCHANGED <<semanticBase, semanticPlan>>
        /\ scannerRecords' = scannerRecords /\ reviewRecords' = reviewRecords
        /\ reviewAssignments' = reviewAssignments \cup {issued}
        /\ slot <= RequiredReviewers(semanticPlan, o)
        /\ \A a \in reviewAssignments : a.object = o => a.slot # slot /\ a.reviewer # reviewer
    BY DEF IssueSemanticReviewAssignment, StoreSemanticEvaluation
  <2>2. /\ issued.slot <= RequiredReviewers(semanticPlan, issued.object)
        /\ \A a \in reviewAssignments :
             a.object = issued.object => a.slot # issued.slot /\ a.reviewer # issued.reviewer
    BY <2>1
  <2>3. SlotsIssued'
    <3>1. RequiredReviewers(semanticPlan, o)' = RequiredReviewers(semanticPlan, o)
      BY <2>1
    <3> HIDE DEF issued
    <3> QED BY <2>1, <2>2, <3>1 DEF Kept, SlotsIssued
  <2> QED BY <1>3, <1>4, <1>6, <2>1, <2>3 DEF Kept
<1>9. CASE \E a \in reviewAssignments, d \in ReviewDecisions : RecordSemanticReview(a, d)
  <2> PICK a \in reviewAssignments, d \in ReviewDecisions : RecordSemanticReview(a, d)
    BY <1>9
  <2>1. /\ semanticPlan # None /\ UNCHANGED <<semanticBase, semanticPlan>>
        /\ scannerRecords' = scannerRecords /\ reviewAssignments' = reviewAssignments
        /\ reviewRecords \subseteq reviewRecords'
    BY DEF RecordSemanticReview, StoreSemanticEvaluation
  <2>2. SlotsIssued'
    BY <2>1 DEF Kept, SlotsIssued
  <2> QED BY <1>3, <1>4, <1>6, <2>1, <2>2 DEF Kept
<1> QED BY <1>5, <1>7, <1>8, <1>9 DEF Semantic

\* From semantic coverage on the semantic evidence, and what is said of it, is left alone.
LEMMA SemanticLeftAlone ==
    ASSUME Kept, UNCHANGED semanticVars, stage' > Decoded, stage' \in Stages
    PROVE  SlotsIssued' /\ EverythingDecoded'
  BY DEF Kept, SlotsIssued, EverythingDecoded, semanticVars, Stages

\* The red team's handlers add categories and their reviews.
LEMMA RedTeamKeepsEvidence ==
    ASSUME IInv, Kept, RedTeaming PROVE Kept' /\ Accumulates
<1>1. /\ stage \in {SemanticallyCovered, Scanned}
      /\ stage' \in {Scanned, RedTeamed} /\ stage' >= stage
      /\ UNCHANGED <<supplyChainGraph, semanticVars, graphVars, validationVars, reportFlow>>
  <2>1. CASE PrepareRedTeam
    BY <2>1 DEF PrepareRedTeam
  <2>2. CASE \E c \in Categories : IssueRedTeamAssignment(c)
    BY <2>2 DEF IssueRedTeamAssignment, StoreRedTeamEvaluation
  <2>3. CASE \E c \in Categories, d \in ReviewOutcomes \ {"none"} : RecordRedTeamReview(c, d)
    BY <2>3 DEF RecordRedTeamReview, StoreRedTeamEvaluation
  <2>4. CASE FinalizeRedTeam
    BY <2>4 DEF FinalizeRedTeam, coverageVars
  <2> QED BY <2>1, <2>2, <2>3, <2>4 DEF RedTeaming
<1>2. /\ redTeamPlan # None => UNCHANGED <<redTeamBase, redTeamPlan>>
      /\ \A c \in Categories : redTeamReviews[c] # "none" => redTeamReviews'[c] = redTeamReviews[c]
  <2>1. CASE PrepareRedTeam
    BY <2>1 DEF PrepareRedTeam, IInv, ContainerValid, RedTeamValid, NoReviews
  <2>2. CASE \E c \in Categories : IssueRedTeamAssignment(c)
    BY <2>2 DEF IssueRedTeamAssignment, StoreRedTeamEvaluation
  <2>3. CASE \E c \in Categories, d \in ReviewOutcomes \ {"none"} : RecordRedTeamReview(c, d)
    BY <2>3 DEF RecordRedTeamReview, StoreRedTeamEvaluation, IInv, TypeOK
  <2>4. CASE FinalizeRedTeam
    BY <2>4 DEF FinalizeRedTeam, coverageVars, redTeamVars
  <2> QED BY <2>1, <2>2, <2>3, <2>4 DEF RedTeaming
<1>3. graphPlan = None
  BY <1>1, NothingAheadOfStage
<1>4. SlotsIssued' /\ EverythingDecoded'
  BY <1>1, SemanticLeftAlone DEF Stages
<1>5. SnapshotOfGraph' /\ DecidedOnce'
  BY <1>1, <1>3 DEF Kept, SnapshotOfGraph, DecidedOnce, graphVars, validationVars
<1>6. Accumulates
  BY <1>1, <1>2 DEF Accumulates, semanticVars, graphVars, validationVars
<1> QED BY <1>4, <1>5, <1>6 DEF Kept

\* A snapshot that only changes its stage carries the same evidence.
LEMMA StageMoved ==
    ASSUME NEW snap \in Snapshots, NEW next, NEW base, SameEvidence(snap, base)
    PROVE  SameEvidence([snap EXCEPT !.stage = next], base)
  BY DEF Snapshots, SameEvidence

\* A graph is built from the snapshot at hand, and a trace changes only its stage.
LEMMA TracingKeepsEvidence ==
    ASSUME IInv, Kept, Tracing PROVE Kept' /\ Accumulates
<1>1. /\ stage = RedTeamed /\ stage' \in {RedTeamed, Traced}
      /\ UNCHANGED <<supplyChainGraph, semanticVars, redTeamVars, validationVars, reportFlow>>
      /\ graphPlan # None => UNCHANGED <<graphBase, graphPlan>>
  BY DEF Tracing, PrepareEvasiveGraph, TraceEvasiveGraphState
<1>2. SlotsIssued' /\ EverythingDecoded'
  BY <1>1, SemanticLeftAlone DEF Stages
<1>3. DecidedOnce'
  BY <1>1 DEF Kept, DecidedOnce, validationVars
<1>4. SnapshotOfGraph'
  <2>1. CASE PrepareEvasiveGraph
    BY <2>1 DEF PrepareEvasiveGraph, SnapshotOfGraph, SameEvidence
  <2>2. CASE TraceEvasiveGraphState
    <3>1. /\ graphPlan # None /\ UNCHANGED <<graphBase, graphPlan>>
          /\ analysisSnapshot' = [analysisSnapshot EXCEPT !.stage = stage']
      BY <2>2 DEF TraceEvasiveGraphState
    <3>2. analysisSnapshot \in Snapshots
      BY <1>1, SnapshotOfStage
    <3>3. SameEvidence(analysisSnapshot', graphBase)
      BY <3>1, <3>2, StageMoved DEF Kept, SnapshotOfGraph
    <3> QED BY <3>1, <3>3 DEF SnapshotOfGraph
  <2> QED BY <2>1, <2>2 DEF Tracing
<1>5. Accumulates
  BY <1>1 DEF Accumulates, semanticVars, redTeamVars, validationVars
<1> QED BY <1>2, <1>3, <1>4, <1>5 DEF Kept

\* Validators add one conclusion for each assignment.
LEMMA ValidationKeepsEvidence ==
    ASSUME IInv, Kept, Validation PROVE Kept' /\ Accumulates
<1>1. /\ stage = Traced /\ stage' \in {Traced, Validated}
      /\ UNCHANGED <<supplyChainGraph, semanticVars, redTeamVars, graphVars, reportFlow>>
      /\ validationPlan # None => UNCHANGED <<validationBase, validationPlan>>
      /\ analysisSnapshot' \in {analysisSnapshot, [analysisSnapshot EXCEPT !.stage = stage']}
  BY DEF Validation, PrepareAssuranceValidation, RecordAssuranceValidation,
         FinalizeAssuranceValidation
<1>2. SlotsIssued' /\ EverythingDecoded'
  BY <1>1, SemanticLeftAlone DEF Stages
<1>3. SnapshotOfGraph'
  <2>1. analysisSnapshot \in Snapshots
    BY <1>1, SnapshotOfStage
  <2>2. graphPlan # None => SameEvidence(analysisSnapshot', graphBase)
    BY <1>1, <2>1, StageMoved DEF Kept, SnapshotOfGraph
  <2> QED BY <1>1, <2>2 DEF SnapshotOfGraph, graphVars
<1>4. DecidedOnce' /\ validationRecords \subseteq validationRecords'
  <2>1. CASE \E checks \in {"passed", "failed"} : PrepareAssuranceValidation(checks)
    BY <2>1 DEF PrepareAssuranceValidation, DecidedOnce, IInv, ContainerValid, ValidationValid
  <2>2. CASE \E a \in ValidationAssignments, c \in Conclusions : RecordAssuranceValidation(a, c)
    <3> PICK a \in ValidationAssignments, c \in Conclusions : RecordAssuranceValidation(a, c)
      BY <2>2
    <3> DEFINE record == [assignment |-> a, conclusion |-> c]
    <3>1. /\ validationRecords' = validationRecords \cup {record}
          /\ \A r \in validationRecords : r.assignment # record.assignment
      BY DEF RecordAssuranceValidation
    <3> HIDE DEF record
    <3> QED BY <3>1 DEF Kept, DecidedOnce
  <2>3. CASE FinalizeAssuranceValidation
    BY <2>3 DEF FinalizeAssuranceValidation, Kept, DecidedOnce
  <2> QED BY <2>1, <2>2, <2>3 DEF Validation
<1>5. Accumulates
  BY <1>1, <1>4 DEF Accumulates, semanticVars, redTeamVars, graphVars
<1> QED BY <1>2, <1>3, <1>4, <1>5 DEF Kept

\* Reports change the stage at most.
LEMMA ReportingKeepsEvidence ==
    ASSUME IInv, Kept, Reporting PROVE Kept' /\ Accumulates
<1> USE DEF coverageVars, semanticVars, redTeamVars, graphVars, validationVars
<1>1. CASE FinalizeAssuranceReport
  <2>1. /\ stage = Validated /\ stage' = Finalized /\ reportFlow = None
        /\ analysisSnapshot' = [analysisSnapshot EXCEPT !.stage = stage']
        /\ UNCHANGED <<supplyChainGraph, coverageVars>>
    BY <1>1 DEF FinalizeAssuranceReport
  <2>2. SlotsIssued' /\ EverythingDecoded' /\ DecidedOnce'
    BY <2>1, SemanticLeftAlone DEF Stages, Kept, DecidedOnce
  <2>3. SnapshotOfGraph'
    <3>1. analysisSnapshot \in Snapshots
      BY <2>1, SnapshotOfStage
    <3>2. graphPlan # None => SameEvidence(analysisSnapshot', graphBase)
      BY <2>1, <3>1, StageMoved DEF Kept, SnapshotOfGraph
    <3> QED BY <2>1, <3>2 DEF SnapshotOfGraph
  <2>4. Accumulates
    BY <2>1 DEF Accumulates
  <2> QED BY <2>2, <2>3, <2>4 DEF Kept
<1>2. CASE \E flow \in {"trusted-ledger", "compatibility"} : FinalizeOtherReport(flow)
  <2>1. reportFlow = None /\ UNCHANGED <<stage, analysisSnapshot, supplyChainGraph, coverageVars>>
    BY <1>2 DEF FinalizeOtherReport
  <2>2. Accumulates
    BY <2>1 DEF Accumulates, IInv, TypeOK, Stages
  <2> QED BY <2>1, <2>2 
             DEF Kept, SlotsIssued, EverythingDecoded, SnapshotOfGraph, SameEvidence, DecidedOnce
<1> QED BY <1>1, <1>2 DEF Reporting

-----------------------------------------------------------------------------
(* The theorems.                                                           *)

\* Every handler keeps what is said of the evidence, and only adds to it.
LEMMA NextKeepsEvidence ==
    ASSUME IInv, Kept, Next PROVE Kept' /\ Accumulates
  BY AcquisitionKeepsEvidence, SemanticKeepsEvidence, RedTeamKeepsEvidence,
     TracingKeepsEvidence, ValidationKeepsEvidence, ReportingKeepsEvidence DEF Next

\* Slots, decoded objects, the graph's snapshot and decisions stay as Kept says in
\* every reachable container.
THEOREM EvidenceIsKept == Spec => []Kept
<1>1. Init => Kept
  BY KeptWhenEmpty DEF Init
<1>2. IInv /\ Kept /\ [Next]_vars => Kept'
  <2> SUFFICES ASSUME IInv, Kept, [Next]_vars PROVE Kept' OBVIOUS
  <2>1. CASE Next
    BY <2>1, NextKeepsEvidence
  <2>2. CASE UNCHANGED vars
    BY <2>2 DEF vars, coverageVars, semanticVars, redTeamVars, graphVars, validationVars, Kept,
                SlotsIssued, EverythingDecoded, SnapshotOfGraph, SameEvidence, DecidedOnce
  <2> QED BY <2>1, <2>2
<1> QED BY <1>1, <1>2, Invariance, PTL DEF Spec

\* No handler takes back, replaces or adds to evidence that was judged, whatever it
\* is called with, by whom and how often.
THEOREM EvidenceIsFrozen == Spec => EvidenceFrozen
<1>1. IInv /\ Kept /\ [Next]_vars => [Accumulates]_vars
  BY NextKeepsEvidence
<1> QED BY <1>1, Invariance, EvidenceIsKept, PTL DEF Spec, EvidenceFrozen

\* From semantic coverage on nothing blocks and every object is resolved or optional.
LEMMA Comprehensive ==
    ASSUME IInv, stage >= SemanticallyCovered
    PROVE  /\ semanticPlan # None
           /\ semanticEvaluation = EvaluateSemanticCoverage(semanticBase, semanticPlan,
                                                            scannerRecords, reviewRecords)
           /\ ~HasUpstreamBlockers(semanticBase)
           /\ semanticEvaluation.covered = Objects
           /\ semanticEvaluation.ledger =
                {r.assignment.object : r \in {x \in reviewRecords : x.decision = "candidates"}}
           /\ \A o \in Objects : Resolved(semanticPlan, scannerRecords[o], reviewRecords, o)
                                 \/ Optional(semanticPlan, o)
<1>1. /\ semanticPlan # None /\ semanticEvaluation.status = "comprehensive"
      /\ semanticEvaluation = EvaluateSemanticCoverage(semanticBase, semanticPlan,
                                                       scannerRecords, reviewRecords)
  BY DEF IInv, StageEarned, ContainerValid, SemanticValid
<1> QED BY <1>1 DEF EvaluateSemanticCoverage

\* From red-teamed on every category was reviewed.
LEMMA EveryCategory ==
    ASSUME IInv, stage >= RedTeamed
    PROVE  /\ redTeamPlan # None
           /\ ~HasUpstreamBlockers(redTeamBase)
           /\ redTeamEvaluation.completed = Categories
           /\ redTeamEvaluation.ledger = {c \in Categories : redTeamReviews[c] = "candidate"}
<1>1. /\ redTeamPlan # None /\ redTeamEvaluation.status = "comprehensive"
      /\ redTeamEvaluation = EvaluateRedTeamCoverage(redTeamBase, redTeamPlan, redTeamReviews)
  BY DEF IInv, StageEarned, ContainerValid, RedTeamValid, TypeOK, Stages
<1> QED BY <1>1 DEF EvaluateRedTeamCoverage

\* From traced on, the snapshot carries exactly the artifacts that were decoded, shown to
\* the reviewers and judged by them, whatever a dependency audit stored in between
\* (recordAssuranceSnapshot, finalizeRedTeam, prepareEvasiveGraph).
THEOREM SnapshotIsReviewed == Spec => []SealedSnapshotWasReviewed
<1>1. IInv /\ Kept => SealedSnapshotWasReviewed
  <2> SUFFICES ASSUME IInv, Kept, stage >= Traced PROVE SealedSnapshotWasReviewed
    BY DEF SealedSnapshotWasReviewed
  <2>0. stage \in Stages
    BY DEF IInv, TypeOK
  <2>1. graphPlan # None /\ GraphBuildable(graphBase)
    BY <2>0, NoneAssumption DEF IInv, StageEarned, ContainerValid, GraphValid
  <2>2. /\ graphBase.inventory = redTeamBase.inventory
        /\ graphBase.artifacts = redTeamBase.artifacts
        /\ graphBase.covered = redTeamBase.covered /\ graphBase.ledger = redTeamBase.ledger
        /\ graphBase.redTeam = redTeamEvaluation.completed /\ redTeamPlan # None
    BY <2>1 DEF GraphBuildable
  <2>3. /\ redTeamBase.artifacts = semanticBase.artifacts
        /\ redTeamBase.covered = semanticEvaluation.covered
        /\ redTeamBase.ledger = semanticEvaluation.ledger
        /\ ~HasUpstreamBlockers(redTeamBase)
    BY <2>2 DEF IInv, ContainerValid, RedTeamValid, RedTeamPlanBuildable
  <2>4. SameEvidence(analysisSnapshot, graphBase) /\ Decodable \subseteq semanticBase.artifacts
    BY <2>0, <2>1, Comprehensive DEF Kept, SnapshotOfGraph, EverythingDecoded, Stages
  <2>5. analysisSnapshot # None
    BY <2>0, SnapshotOfStage DEF Stages
  <2> QED BY <2>0, <2>2, <2>3, <2>4, <2>5, Comprehensive, EveryCategory
             DEF SealedSnapshotWasReviewed, SameEvidence, HasUpstreamBlockers, Stages
<1> QED BY <1>1, Invariance, EvidenceIsKept, PTL

\* Every candidate of a validated audit, a reviewer's or the red team's, was decided once
\* by each of its two validators, and they agree (evaluateAssuranceValidation).
THEOREM CandidatesAreDecided == Spec => []FindingsDecided
<1>1. IInv /\ Kept => FindingsDecided
  <2> DEFINE ByReviewers == {r.assignment.object :
                               r \in {x \in reviewRecords : x.decision = "candidates"}}
             ByRedTeam == {c \in Categories : redTeamReviews[c] = "candidate"}
             said(f, kind) == {r.conclusion : r \in {x \in validationRecords :
                                  x.assignment = [subject |-> f, kind |-> kind]}}
  <2> SUFFICES ASSUME IInv, Kept, stage >= Validated, NEW f \in ByReviewers \cup ByRedTeam
               PROVE  <<said(f, "confirm"), said(f, "refute")>> \in
                        {<<{"confirmed"}, {"not-refuted"}>>, <<{"not-confirmed"}, {"refuted"}>>}
    BY DEF FindingsDecided
  <2>1. stage \in Stages /\ validationPlan # None /\ validationEvaluation = "complete"
    BY DEF IInv, TypeOK, StageEarned
  <2>2. /\ validationPlan.findings = graphPlan.findings /\ graphPlan # None
        /\ EvaluateAssuranceValidation(validationPlan, validationRecords) = "complete"
    BY <2>1 DEF IInv, ContainerValid, ValidationValid, ValidationPlanBuildable
  <2>3. graphPlan.findings = semanticEvaluation.ledger \cup redTeamEvaluation.ledger
    BY <2>2 DEF IInv, ContainerValid, GraphValid, BuildEvasiveGraph
  <2>4. f \in validationPlan.findings
    BY <2>1, <2>2, <2>3, Comprehensive, EveryCategory DEF Stages
  <2>5. FindingValidated(f, validationRecords) \/ FindingRefuted(f, validationRecords)
    BY <2>2, <2>4 DEF EvaluateAssuranceValidation
  <2>6. ASSUME NEW kind, NEW conclusion, Concluded(f, kind, conclusion, validationRecords)
        PROVE  said(f, kind) = {conclusion}
    <3> DEFINE record == [assignment |-> [subject |-> f, kind |-> kind], conclusion |-> conclusion]
    <3>1. record \in validationRecords
      BY <2>6 DEF Concluded
    <3>2. \A x \in validationRecords : x.assignment = [subject |-> f, kind |-> kind] => x = record
      BY <3>1 DEF Kept, DecidedOnce
    <3> QED BY <3>1, <3>2
  <2> HIDE DEF said
  <2> QED BY <2>5, <2>6 DEF FindingValidated, FindingRefuted
<1> QED BY <1>1, Invariance, EvidenceIsKept, PTL

-----------------------------------------------------------------------------
(* Independence.                                                           *)

\* A set that counts one or more has an element.
LEMMA AtLeastOne ==
    ASSUME NEW S, Cardinality(S) >= 1 PROVE S # {}
  BY FS_EmptySet

\* A set that counts two or more has two different ones, finite or not.
LEMMA AtLeastTwo ==
    ASSUME NEW S, Cardinality(S) >= 2 PROVE \E x, y \in S : x # y
<1> SUFFICES ASSUME \A x, y \in S : x = y PROVE FALSE
  OBVIOUS
<1>1. S # {}
  BY FS_EmptySet
<1>2. PICK x \in S : TRUE
  BY <1>1
<1>3. S = {x}
  BY <1>2
<1>4. Cardinality(S) = 1
  BY <1>3, FS_Singleton, Zenon
<1> QED BY <1>4

\* Who finished a review of an object holds a slot of it.
LEMMA FinishedIsIssued ==
    ASSUME IInv, semanticPlan # None, NEW o, NEW reviewer \in ReviewersOf(o, reviewRecords)
    PROVE  \E r \in reviewRecords :
             /\ r.decision # "incomplete" /\ r.assignment \in reviewAssignments
             /\ r.assignment.object = o /\ r.assignment.reviewer = reviewer
  BY DEF ReviewersOf, IInv, ContainerValid, SemanticValid

\* Every slot that was issued of a covered object was used, and by another reviewer.
LEMMA SlotsAreUsed ==
    ASSUME IInv, Kept, semanticPlan # None, NEW o \in Objects,
           Cardinality(ReviewersOf(o, reviewRecords)) >= RequiredReviewers(semanticPlan, o),
           NEW a \in reviewAssignments, a.object = o
    PROVE  \E r \in reviewRecords : r.decision # "incomplete" /\ r.assignment = a
<1> DEFINE required == RequiredReviewers(semanticPlan, o)
<1>1. /\ a.slot \in Slots /\ a.slot <= required
      /\ \A b \in reviewAssignments : b.object = o => b.slot \in Slots /\ b.slot <= required
  BY DEF Kept, SlotsIssued, IInv, TypeOK, ReviewAssignments
<1>2. required \in {1, 2}
  BY <1>1 DEF RequiredReviewers, Slots
<1>3. \A b, c \in reviewAssignments : b.object = o /\ c.object = o /\ b.slot = c.slot => b = c
  BY DEF Kept, SlotsIssued
<1> HIDE DEF required
<1>4. CASE required = 1
  <2>1. PICK reviewer \in ReviewersOf(o, reviewRecords) : TRUE
    BY <1>4, AtLeastOne DEF required
  <2>2. PICK r \in reviewRecords : /\ r.decision # "incomplete"
                                   /\ r.assignment \in reviewAssignments
                                   /\ r.assignment.object = o
    BY FinishedIsIssued
  <2>3. r.assignment.slot = a.slot
    BY <1>1, <1>4, <2>2 DEF Slots
  <2> QED BY <1>3, <2>2, <2>3
<1>5. CASE required = 2
  <2>1. PICK v, w \in ReviewersOf(o, reviewRecords) : v # w
    BY <1>5, AtLeastTwo DEF required
  <2>2. PICK r \in reviewRecords : /\ r.decision # "incomplete"
                                   /\ r.assignment \in reviewAssignments
                                   /\ r.assignment.object = o /\ r.assignment.reviewer = v
    BY FinishedIsIssued
  <2>3. PICK q \in reviewRecords : /\ q.decision # "incomplete"
                                   /\ q.assignment \in reviewAssignments
                                   /\ q.assignment.object = o /\ q.assignment.reviewer = w
    BY FinishedIsIssued
  <2>4. r.assignment.slot # q.assignment.slot
    BY <1>3, <2>1, <2>2, <2>3
  <2>5. a.slot = r.assignment.slot \/ a.slot = q.assignment.slot
    BY <1>1, <2>2, <2>3, <2>4 DEF Slots
  <2> QED BY <1>3, <2>2, <2>3, <2>5
<1> QED BY <1>2, <1>4, <1>5

\* Semantically covered means that every slot issued was used, by a different reviewer
\* each, that executables were assessed, scanned and read, and that whatever tries to
\* instruct its reader had two (issueSemanticReviewAssignment, evaluateSemanticCoverage).
THEOREM ReviewsAreIndependent == Spec => []ReviewedIndependently
<1>1. IInv /\ Kept => ReviewedIndependently
  <2> SUFFICES ASSUME IInv, Kept, stage >= SemanticallyCovered PROVE ReviewedIndependently
    BY DEF ReviewedIndependently
  <2> SUFFICES ASSUME NEW o \in Objects
      PROVE
        LET issued == {a \in reviewAssignments : a.object = o}
            finished == {r.assignment : r \in {x \in reviewRecords : x.decision # "incomplete"}}
            executable == Class(o) \notin {"document-data", "binary-archive", "unsupported"}
        IN /\ issued \subseteq finished
           /\ \A a, b \in issued : a # b => a.slot # b.slot /\ a.reviewer # b.reviewer
           /\ executable => /\ o \in semanticPlan.views
                            /\ scannerRecords[o] # None /\ scannerRecords[o].outcome = "clean"
                            /\ issued # {}
           /\ o \in semanticPlan.views /\ o \in Injected =>
                \E a, b \in issued : a.reviewer # b.reviewer
           /\ issued # {} /\ scannerRecords[o] # None =>
                \A f \in scannerRecords[o].facts : Fact[f].kind # "unresolved-dynamic-target"
    BY DEF ReviewedIndependently
  <2> DEFINE issued == {a \in reviewAssignments : a.object = o}
             finished == {r.assignment : r \in {x \in reviewRecords : x.decision # "incomplete"}}
             executable == Class(o) \notin {"document-data", "binary-archive", "unsupported"}
             required == RequiredReviewers(semanticPlan, o)
             readers == ReviewersOf(o, reviewRecords)
  <2>1. /\ semanticPlan # None
        /\ Resolved(semanticPlan, scannerRecords[o], reviewRecords, o) \/ Optional(semanticPlan, o)
    BY Comprehensive
  <2>2. \A a \in issued : a.slot \in 1..2 /\ a.slot <= required
    BY <2>1 DEF Kept, SlotsIssued, IInv, TypeOK, ReviewAssignments, Slots
  <2>3. issued # {} \/ required >= 1 => Cardinality(readers) >= required
    <3>1. Optional(semanticPlan, o) => required = 0
      BY DEF Optional, RequiredReviewers
    <3>2. issued # {} => required # 0
      BY <2>2
    <3>3. Resolved(semanticPlan, scannerRecords[o], reviewRecords, o) =>
            Cardinality(readers) >= required
      BY DEF Resolved
    <3> HIDE DEF required, readers, issued
    <3> QED BY <2>1, <3>1, <3>2, <3>3
  <2>4. issued \subseteq finished
    BY <2>1, <2>3, SlotsAreUsed
  <2>5. \A a, b \in issued : a # b => a.slot # b.slot /\ a.reviewer # b.reviewer
    BY <2>1 DEF Kept, SlotsIssued
  <2>6. required >= 1 => issued # {}
    <3> SUFFICES ASSUME required >= 1 PROVE issued # {}
      OBVIOUS
    <3>1. required \in {1, 2}
      BY DEF RequiredReviewers
    <3>2. PICK reviewer \in readers : TRUE
      <4>1. Cardinality(readers) >= required
        BY <2>3
      <4>2. CASE required = 1
        BY <4>1, <4>2, AtLeastOne
      <4>3. CASE required = 2
        BY <4>1, <4>3, AtLeastTwo
      <4> QED BY <3>1, <4>2, <4>3
    <3> QED BY <2>1, FinishedIsIssued
  <2>7. executable => /\ o \in semanticPlan.views
                      /\ scannerRecords[o] # None /\ scannerRecords[o].outcome = "clean"
                      /\ issued # {}
    <3> SUFFICES ASSUME executable PROVE /\ o \in semanticPlan.views
                                         /\ scannerRecords[o] # None
                                         /\ scannerRecords[o].outcome = "clean"
                                         /\ issued # {}
      OBVIOUS
    <3>1. ScannerRequired(o)
      BY DEF Class, ClassOf, ScannerRequired, ConfigSourceClasses
    <3>2. Resolved(semanticPlan, scannerRecords[o], reviewRecords, o)
      BY <2>1, <3>1 DEF Optional
    <3>3. required >= 1
      BY <3>1 DEF RequiredReviewers, ModelReviewRequired
    <3> QED BY <2>6, <3>1, <3>2, <3>3
               DEF Resolved, PromptMissing, ScannersClean, RootUnassignable, Assigned
  <2>8. o \in semanticPlan.views /\ o \in Injected => \E a, b \in issued : a.reviewer # b.reviewer
    <3> SUFFICES ASSUME o \in semanticPlan.views, o \in Injected
                 PROVE  \E a, b \in issued : a.reviewer # b.reviewer
      OBVIOUS
    <3>1. required = 2
      BY DEF RequiredReviewers, ModelReviewRequired, HighRisk, PromptAffected
    <3>2. PICK v, w \in readers : v # w
      BY <2>3, <3>1, AtLeastTwo
    <3>3. /\ \E a \in issued : a.reviewer = v
          /\ \E a \in issued : a.reviewer = w
      BY <2>1, FinishedIsIssued
    <3> QED BY <3>2, <3>3
  <2>9. issued # {} /\ scannerRecords[o] # None =>
          \A f \in scannerRecords[o].facts : Fact[f].kind # "unresolved-dynamic-target"
    <3> SUFFICES ASSUME NEW a \in issued, scannerRecords[o] # None
                 PROVE  \A f \in scannerRecords[o].facts :
                          Fact[f].kind # "unresolved-dynamic-target"
      OBVIOUS
    <3>1. PICK r \in reviewRecords : r.decision # "incomplete" /\ r.assignment = a
      BY <2>4
    <3>2. Reviewable(semanticBase, scannerRecords, o)
      BY <2>1, <3>1 DEF IInv, ContainerValid, SemanticValid
    <3> QED BY <3>2 DEF Reviewable, ViewComplete, FactsIn
  <2> QED BY <2>4, <2>5, <2>7, <2>8, <2>9
<1> QED BY <1>1, Invariance, EvidenceIsKept, PTL

=============================================================================
