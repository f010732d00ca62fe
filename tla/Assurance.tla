----------------------------- MODULE Assurance -----------------------------
(***************************************************************************)
(* The assurance state of one audit (zerotrust-sourcecheck): the container *)
(* audit.assurance that enforcement.mjs keeps in memory and every wrapper  *)
(* reads, extends and revalidates.  An audit climbs nine stages; each      *)
(* stage is earned from evidence that untrusted reviewers hand in through  *)
(* the wrappers, in any order, concurrently and with retries.              *)
(*                                                                         *)
(* Every handler runs synchronously on the JS thread between two awaits,   *)
(* so one handler's access to the container is one action.                 *)
(***************************************************************************)
EXTENDS EvasiveGraph

CONSTANTS
    ViewSets,           \* the sets of objects whose prompt views may be handed in
    Suspects            \* the objects and categories whose reviewers may report a candidate

ASSUME BoundsAssumption == ViewSets \subseteq SUBSET Objects /\ Suspects \subseteq Candidates

\* ASSURANCE_STAGES: a stage is its index, the stage history is the prefix up to it.
Acquired == 0
Inventoried == 1
Decoded == 2
SemanticallyCovered == 3
Scanned == 4
RedTeamed == 5
Traced == 6
Validated == 7
Finalized == 8
Stages == Acquired..Finalized

VARIABLES
    stage,                  \* stageState.current
    analysisSnapshot,
    supplyChainGraph,
    semanticBase,           \* semanticCoverageBaseSnapshot
    semanticPlan,
    scannerRecords,
    reviewAssignments,
    reviewRecords,
    semanticEvaluation,
    redTeamBase,
    redTeamPlan,
    redTeamAssignments,
    redTeamReviews,
    redTeamEvaluation,
    graphBase,
    graphPlan,
    graphTrace,
    validationBase,
    validationPlan,
    validationRecords,
    validationEvaluation,
    reportFlow              \* reportFinalization.flow, recorded once

semanticVars == <<semanticBase, semanticPlan, scannerRecords, reviewAssignments,
                  reviewRecords, semanticEvaluation>>
redTeamVars == <<redTeamBase, redTeamPlan, redTeamAssignments, redTeamReviews, redTeamEvaluation>>
graphVars == <<graphBase, graphPlan, graphTrace>>
validationVars == <<validationBase, validationPlan, validationRecords, validationEvaluation>>
coverageVars == <<semanticVars, redTeamVars, graphVars, validationVars>>
vars == <<stage, analysisSnapshot, supplyChainGraph, coverageVars, reportFlow>>

-----------------------------------------------------------------------------
(* The records the container holds.                                        *)

Snapshots == [stage: Stages, inventory: {"complete", "incomplete"},
              artifacts: SUBSET Artifacts, covered: SUBSET Objects,
              ledger: SUBSET Objects, redTeam: SUBSET Categories]
ValidationPlans == [findings: SUBSET Candidates, checks: {"passed", "failed"},
                    supply: Graphs \cup {None}]
ValidationAssignments == [subject: Candidates \cup {None}, kind: {"no-finding", "confirm", "refute"}]
\* "unresolved" stands for every conclusion that leaves a blocker code behind.
Conclusions == {"supported", "confirmed", "not-confirmed", "refuted", "not-refuted", "unresolved"}
ValidationRecords == [assignment: ValidationAssignments, conclusion: Conclusions]

ASSUME NoneAssumption ==
    /\ None \notin Artifacts \cup Candidates
    /\ None \notin {"complete", "assurance"}
    /\ None \notin Snapshots /\ None \notin SemanticPlans /\ None \notin RedTeamPlans
    /\ None \notin GraphPlans /\ None \notin ValidationPlans

\* A type invariant for the whole container.
TypeOK ==
    /\ stage \in Stages
    /\ analysisSnapshot \in Snapshots \cup {None}
    /\ supplyChainGraph \in Graphs \cup {None}
    /\ semanticBase \in Snapshots \cup {None}
    /\ semanticPlan \in SemanticPlans \cup {None}
    /\ scannerRecords \in [Objects -> ScannerReports \cup {None}]
    /\ reviewAssignments \subseteq ReviewAssignments
    /\ reviewRecords \subseteq ReviewRecords
    /\ semanticEvaluation \in SemanticEvaluations \cup {None}
    /\ redTeamBase \in Snapshots \cup {None}
    /\ redTeamPlan \in RedTeamPlans \cup {None}
    /\ redTeamAssignments \subseteq Categories
    /\ redTeamReviews \in [Categories -> ReviewOutcomes]
    /\ redTeamEvaluation \in RedTeamEvaluations \cup {None}
    /\ graphBase \in Snapshots \cup {None}
    /\ graphPlan \in GraphPlans \cup {None}
    /\ graphTrace \in {"complete", "blocked", None}
    /\ validationBase \in Snapshots \cup {None}
    /\ validationPlan \in ValidationPlans \cup {None}
    /\ validationRecords \subseteq ValidationRecords
    /\ validationEvaluation \in {"complete", "incomplete", None}
    /\ reportFlow \in {"assurance", "trusted-ledger", "compatibility", None}

-----------------------------------------------------------------------------
(* What the analysis modules compute from the container's evidence.        *)

\* createRedTeamPlan refuses a snapshot that is not the completed semantic state.
RedTeamPlanBuildable(snap) ==
    /\ snap.stage = Scanned
    /\ semanticPlan # None /\ semanticEvaluation.status = "comprehensive"
    /\ snap.inventory = semanticBase.inventory
    /\ snap.artifacts = semanticBase.artifacts
    /\ snap.covered = semanticEvaluation.covered
    /\ snap.ledger = semanticEvaluation.ledger
    /\ ~HasUpstreamBlockers(snap)

\* Mutant: the artifact identities of the snapshot are not compared.
GraphBuildable_AnyArtifacts(snap) ==
    /\ snap.stage = RedTeamed
    /\ semanticPlan # None /\ semanticEvaluation.status = "comprehensive"
    /\ redTeamPlan # None /\ redTeamEvaluation.status = "comprehensive"
    /\ redTeamBase.ledger = semanticEvaluation.ledger
    /\ snap.inventory = redTeamBase.inventory
    /\ snap.covered = redTeamBase.covered
    /\ snap.ledger = redTeamBase.ledger
    /\ snap.redTeam = redTeamEvaluation.completed

\* buildEvasiveGraph refuses a snapshot that is not the completed red-team state.
GraphBuildable(snap) ==
    /\ snap.stage = RedTeamed
    /\ semanticPlan # None /\ semanticEvaluation.status = "comprehensive"
    /\ redTeamPlan # None /\ redTeamEvaluation.status = "comprehensive"
    /\ redTeamBase.ledger = semanticEvaluation.ledger
    /\ snap.inventory = redTeamBase.inventory
    /\ snap.artifacts = redTeamBase.artifacts
    /\ snap.covered = redTeamBase.covered
    /\ snap.ledger = redTeamBase.ledger
    /\ snap.redTeam = redTeamEvaluation.completed

\* The trace of the plan that is stored, over the records it was built from.
GraphTraceOf(plan) == TraceOf(plan, semanticPlan, scannerRecords, redTeamPlan)

\* A dependency graph or its artifact, or an object that stands for a module.
SupplyChainRequired(snap, supply) ==
    \/ supply # None
    \/ snap.artifacts \cap Graphs # {}
    \/ \E o \in Objects : Source[o].kind = "gitlink"

SupplyChainComplete(snap, supply) ==
    SupplyChainRequired(snap, supply) => supply # None /\ supply \notin Blocking

\* validateFoundationBinding
ValidationPlanBuildable(snap) ==
    /\ snap.stage = Traced
    /\ graphPlan # None /\ graphTrace = "complete"
    /\ semanticEvaluation.status = "comprehensive"
    /\ redTeamEvaluation.status = "comprehensive"
    /\ snap.inventory = graphBase.inventory
    /\ snap.artifacts = graphBase.artifacts
    /\ snap.covered = graphBase.covered
    /\ snap.ledger = graphBase.ledger
    /\ snap.redTeam = graphBase.redTeam

AssignmentsOf(plan) ==
    IF plan.findings = {}
    THEN {[subject |-> None, kind |-> "no-finding"]}
    ELSE [subject: plan.findings, kind: {"confirm", "refute"}]

ConclusionsFor(kind) ==
    CASE kind = "no-finding" -> {"supported", "unresolved"}
      [] kind = "confirm"    -> {"confirmed", "not-confirmed", "unresolved"}
      [] kind = "refute"     -> {"refuted", "not-refuted", "unresolved"}

Concluded(f, kind, conclusion, records) ==
    [assignment |-> [subject |-> f, kind |-> kind], conclusion |-> conclusion] \in records

\* A finding stands or falls only when both validators agree.
FindingValidated(f, records) ==
    Concluded(f, "confirm", "confirmed", records) /\ Concluded(f, "refute", "not-refuted", records)

FindingRefuted(f, records) ==
    Concluded(f, "confirm", "not-confirmed", records) /\ Concluded(f, "refute", "refuted", records)

EvaluateAssuranceValidation(plan, records) ==
    IF /\ plan.checks = "passed"
       /\ IF plan.findings = {}
          THEN Concluded(None, "no-finding", "supported", records)
          ELSE \A f \in plan.findings : FindingValidated(f, records) \/ FindingRefuted(f, records)
    THEN "complete" ELSE "incomplete"

-----------------------------------------------------------------------------
(* validateAssuranceStateContainer, part by part.  ensureAssuranceState    *)
(* runs it before every handler and throws when it fails: an audit whose   *)
(* container is invalid is poisoned, no handler can ever use it again.     *)

SnapshotValid ==
    analysisSnapshot # None => analysisSnapshot.stage = stage

Reported(scans, o) == Assigned(o) => scans[o] # None

Reviewable(base, scans, o) == ViewComplete(base.artifacts, scans[o], o)

SemanticValid ==
    /\ semanticBase = None <=> semanticPlan = None
    /\ semanticBase # None => semanticBase.stage = Decoded
    /\ semanticPlan = None =>
         /\ scannerRecords = NoScans
         /\ reviewAssignments = {} /\ reviewRecords = {} /\ semanticEvaluation = None
    /\ semanticPlan # None =>
         /\ \A a \in reviewAssignments : Reported(scannerRecords, a.object)
         /\ \A r \in reviewRecords :
              /\ r.assignment \in reviewAssignments
              /\ r.decision # "incomplete" =>
                   Reviewable(semanticBase, scannerRecords, r.assignment.object)
         /\ semanticEvaluation = EvaluateSemanticCoverage(semanticBase, semanticPlan,
                                                          scannerRecords, reviewRecords)
         /\ analysisSnapshot # None =>
              /\ analysisSnapshot.stage = SemanticallyCovered =>
                   semanticEvaluation.status = "comprehensive"
              /\ analysisSnapshot.ledger = semanticEvaluation.ledger

RedTeamValid ==
    /\ redTeamBase = None <=> redTeamPlan = None
    /\ redTeamPlan = None =>
         /\ redTeamAssignments = {} /\ redTeamReviews = NoReviews
         /\ redTeamEvaluation = None
    /\ redTeamPlan # None =>
         /\ RedTeamPlanBuildable(redTeamBase)
         /\ redTeamPlan = RedTeamPlan(redTeamBase, semanticPlan, scannerRecords,
                                      semanticEvaluation, reviewRecords, supplyChainGraph)
         /\ \A c \in Categories : redTeamReviews[c] # "none" => c \in redTeamAssignments
         /\ redTeamEvaluation = EvaluateRedTeamCoverage(redTeamBase, redTeamPlan, redTeamReviews)
    /\ analysisSnapshot # None /\ analysisSnapshot.stage = RedTeamed =>
         redTeamPlan # None /\ redTeamEvaluation.status = "comprehensive"

GraphValid ==
    /\ graphBase = None <=> graphPlan = None
    /\ graphPlan # None =>
         /\ GraphBuildable(graphBase)
         /\ graphPlan = BuildEvasiveGraph(graphBase, semanticEvaluation, redTeamEvaluation,
                                          supplyChainGraph)
    /\ graphTrace # None => graphPlan # None /\ graphTrace = GraphTraceOf(graphPlan)
    /\ analysisSnapshot # None /\ analysisSnapshot.stage \in {Traced, Validated, Finalized} =>
         graphTrace = "complete"

ValidationValid ==
    /\ validationBase = None <=> validationPlan = None
    /\ validationPlan = None => validationRecords = {} /\ validationEvaluation = None
    /\ validationPlan # None =>
         /\ ValidationPlanBuildable(validationBase)
         /\ validationPlan.findings = graphPlan.findings
         /\ validationPlan.supply = supplyChainGraph
         /\ validationPlan.checks = "passed" =>
              SupplyChainComplete(validationBase, supplyChainGraph)
         /\ \A r \in validationRecords : /\ r.assignment \in AssignmentsOf(validationPlan)
                                         /\ r.conclusion \in ConclusionsFor(r.assignment.kind)
         /\ validationEvaluation = EvaluateAssuranceValidation(validationPlan, validationRecords)
    /\ analysisSnapshot # None /\ analysisSnapshot.stage \in {Validated, Finalized} =>
         validationEvaluation = "complete"

\* No sequence of tool calls poisons an audit: each handler stores its result
\* first and validates it afterwards, so a result the validation rejects would
\* lock the audit for good (enforcement.mjs: validateAssuranceStateContainer).
ContainerValid ==
    /\ SnapshotValid
    /\ SemanticValid
    /\ RedTeamValid
    /\ GraphValid
    /\ ValidationValid

-----------------------------------------------------------------------------
(* createEmptyAssuranceState                                               *)

EmptyCoverage ==
    /\ semanticBase = None /\ semanticPlan = None
    /\ scannerRecords = NoScans
    /\ reviewAssignments = {} /\ reviewRecords = {} /\ semanticEvaluation = None
    /\ redTeamBase = None /\ redTeamPlan = None
    /\ redTeamAssignments = {} /\ redTeamReviews = NoReviews
    /\ redTeamEvaluation = None
    /\ graphBase = None /\ graphPlan = None /\ graphTrace = None
    /\ validationBase = None /\ validationPlan = None
    /\ validationRecords = {} /\ validationEvaluation = None

Init ==
    /\ stage = Acquired
    /\ analysisSnapshot = None
    /\ supplyChainGraph = None
    /\ EmptyCoverage
    /\ reportFlow = None

-----------------------------------------------------------------------------
(* Acquisition: the source ingestion and fetch wrappers.                   *)

EmptySnapshot(st) ==
    [stage |-> st, inventory |-> "incomplete", artifacts |-> {},
     covered |-> {}, ledger |-> {}, redTeam |-> {}]

\* persist*ObjectInventory: a complete inventory leaves acquired; the listing of
\* a git tree then rebuilds the snapshot without the previous one (keep = FALSE).
PersistInventory(current, inventory, keep) ==
    LET advanced == inventory = "complete" /\ current.stage = Acquired
        next == IF advanced THEN Inventoried ELSE current.stage
        previous == IF current.snapshot = None \/ (advanced /\ ~keep)
                    THEN EmptySnapshot(next) ELSE current.snapshot
    IN [stage |-> next,
        snapshot |-> [previous EXCEPT !.stage = next, !.inventory = inventory]]

\* The objects whose content must be decoded (derivedSnapshotCanAdvance).
Decodable == {o \in Objects : Source[o].inventoried /\ Source[o].kind # "tree" /\ Source[o].hashed}

\* persist*DerivedAnalysis: decoding the last object leaves inventoried, unless
\* the snapshot carries a blocker.
PersistDerived(current, object) ==
    LET decoded == [current.snapshot EXCEPT !.artifacts = @ \cup {object}]
        advanced == /\ current.stage = Inventoried
                    /\ ~HasUpstreamBlockers(decoded)
                    /\ Decodable \subseteq decoded.artifacts
        next == IF advanced THEN Decoded ELSE current.stage
    IN [stage |-> next, snapshot |-> [decoded EXCEPT !.stage = next]]

\* advanceAssuranceStage clears the coverage state of every later stage.
ClearCoverage ==
    /\ semanticBase' = None /\ semanticPlan' = None
    /\ scannerRecords' = NoScans
    /\ reviewAssignments' = {} /\ reviewRecords' = {} /\ semanticEvaluation' = None
    /\ redTeamBase' = None /\ redTeamPlan' = None
    /\ redTeamAssignments' = {} /\ redTeamReviews' = NoReviews
    /\ redTeamEvaluation' = None
    /\ graphBase' = None /\ graphPlan' = None /\ graphTrace' = None
    /\ validationBase' = None /\ validationPlan' = None
    /\ validationRecords' = {} /\ validationEvaluation' = None

StoreAcquisition(result) ==
    /\ stage' = result.stage
    /\ analysisSnapshot' = result.snapshot
    /\ IF result.stage # stage THEN ClearCoverage ELSE UNCHANGED coverageVars
    /\ UNCHANGED <<supplyChainGraph, reportFlow>>

Acquiring == stage \in {Acquired, Inventoried}

\* safe_list_source and safe_list_tree; a listing may come back partial.
ListSource(inventory, keep) ==
    /\ Acquiring
    /\ StoreAcquisition(PersistInventory([stage |-> stage, snapshot |-> analysisSnapshot],
                                         inventory, keep))

\* safe_index_source_file and safe_fetch_file: inventory, then derived analysis.
IndexFile(object, inventory) ==
    /\ Acquiring
    /\ StoreAcquisition(
         PersistDerived(PersistInventory([stage |-> stage, snapshot |-> analysisSnapshot],
                                         inventory, TRUE), object))

\* Mutant: a recorded graph stays replaceable after semantic preparation.
DependencyAudit_Replaceable(g, matched) ==
    LET applied == matched /\ analysisSnapshot # None
        next == [analysisSnapshot EXCEPT !.artifacts = @ \cup {g}]
        refused == /\ applied /\ next # analysisSnapshot
                   /\ \/ semanticPlan # None /\ stage = Decoded
                      \/ graphPlan # None
    IN /\ ~refused
       /\ analysisSnapshot' = IF applied THEN next ELSE analysisSnapshot
       /\ supplyChainGraph' = g
       /\ UNCHANGED <<stage, coverageVars, reportFlow>>

\* dependencyHandler stores the snapshot with the graph's artifact first and the
\* graph second; each store has refusals of its own.  matched: a manifest of the
\* graph is an inventoried object.
DependencyAudit(g, matched) ==
    LET applied == matched /\ analysisSnapshot # None
        next == [analysisSnapshot EXCEPT !.artifacts = @ \cup {g}]
        refused == /\ applied /\ next # analysisSnapshot
                   /\ \/ semanticPlan # None /\ stage = Decoded
                      \/ graphPlan # None
    IN /\ ~refused
       /\ analysisSnapshot' = IF applied THEN next ELSE analysisSnapshot
       /\ supplyChainGraph' = IF semanticPlan = None THEN g ELSE supplyChainGraph
       /\ UNCHANGED <<stage, coverageVars, reportFlow>>

-----------------------------------------------------------------------------
(* Semantic coverage.                                                      *)

\* storeSemanticEvaluation: re-evaluate, advance when complete, rewrite the snapshot
\* from the base snapshot.
StoreSemanticEvaluation(base, plan, scans, assignments, records) ==
    LET evaluation == EvaluateSemanticCoverage(base, plan, scans, records)
        next == IF evaluation.status = "comprehensive" THEN SemanticallyCovered ELSE stage
    IN /\ stage' = next
       /\ analysisSnapshot' = [base EXCEPT !.stage = next, !.covered = evaluation.covered,
                                           !.ledger = evaluation.ledger]
       /\ semanticBase' = base
       /\ semanticPlan' = plan
       /\ scannerRecords' = scans
       /\ reviewAssignments' = assignments
       /\ reviewRecords' = records
       /\ semanticEvaluation' = evaluation
       /\ UNCHANGED <<supplyChainGraph, redTeamVars, graphVars, validationVars, reportFlow>>

PrepareSemanticCoverage(plan) ==
    /\ semanticPlan = None
    /\ analysisSnapshot # None /\ stage = Decoded
    /\ StoreSemanticEvaluation(analysisSnapshot, plan, scannerRecords,
                               reviewAssignments, reviewRecords)

RecordSemanticScannerCoverage(o, report) ==
    /\ semanticPlan # None /\ stage = Decoded
    /\ Assigned(o) /\ scannerRecords[o] = None
    /\ StoreSemanticEvaluation(semanticBase, semanticPlan, [scannerRecords EXCEPT ![o] = report],
                               reviewAssignments, reviewRecords)

\* A slot is issued once, each reviewer sees an object once, and the object's
\* scanners must have reported.
IssueSemanticReviewAssignment(o, slot, reviewer) ==
    /\ semanticPlan # None /\ stage = Decoded
    /\ slot <= RequiredReviewers(semanticPlan, o)
    /\ Reported(scannerRecords, o)
    /\ \A a \in reviewAssignments : a.object = o => a.slot # slot /\ a.reviewer # reviewer
    /\ StoreSemanticEvaluation(semanticBase, semanticPlan, scannerRecords,
         reviewAssignments \cup {[object |-> o, slot |-> slot, reviewer |-> reviewer]},
         reviewRecords)

\* A review completes only on a complete semantic view; a record is final.
RecordSemanticReview(assignment, decision) ==
    /\ semanticPlan # None /\ stage = Decoded
    /\ assignment \in reviewAssignments
    /\ \A r \in reviewRecords : r.assignment # assignment
    /\ decision # "incomplete" => Reviewable(semanticBase, scannerRecords, assignment.object)
    /\ decision = "candidates" => assignment.object \in Suspects
    /\ StoreSemanticEvaluation(semanticBase, semanticPlan, scannerRecords, reviewAssignments,
         reviewRecords \cup {[assignment |-> assignment, decision |-> decision]})

-----------------------------------------------------------------------------
(* Red team.                                                               *)

\* createRedTeamScannedSnapshot and createRedTeamPlan; the plan binds the
\* dependency graph it was built with.
PrepareRedTeam ==
    LET scanned == [analysisSnapshot EXCEPT !.stage = Scanned]
        plan == RedTeamPlan(scanned, semanticPlan, scannerRecords, semanticEvaluation,
                            reviewRecords, supplyChainGraph)
    IN /\ redTeamPlan = None
       /\ analysisSnapshot # None /\ stage = SemanticallyCovered
       /\ analysisSnapshot.redTeam = {}
       /\ RedTeamPlanBuildable(scanned)
       /\ stage' = Scanned
       /\ analysisSnapshot' = scanned
       /\ redTeamBase' = scanned
       /\ redTeamPlan' = plan
       /\ redTeamAssignments' = {}
       /\ redTeamReviews' = NoReviews
       /\ redTeamEvaluation' = EvaluateRedTeamCoverage(scanned, plan, NoReviews)
       /\ UNCHANGED <<supplyChainGraph, semanticVars, graphVars, validationVars, reportFlow>>

StoreRedTeamEvaluation(assignments, reviews) ==
    /\ redTeamAssignments' = assignments
    /\ redTeamReviews' = reviews
    /\ redTeamEvaluation' = EvaluateRedTeamCoverage(redTeamBase, redTeamPlan, reviews)
    /\ UNCHANGED <<stage, analysisSnapshot, supplyChainGraph, semanticVars, redTeamBase,
                   redTeamPlan, graphVars, validationVars, reportFlow>>

IssueRedTeamAssignment(c) ==
    /\ redTeamPlan # None /\ stage = Scanned
    /\ c \notin redTeamAssignments
    /\ StoreRedTeamEvaluation(redTeamAssignments \cup {c}, redTeamReviews)

\* Mutant: a category's review may be recorded again.
RecordRedTeamReview_Rewrites(c, decision) ==
    /\ redTeamPlan # None /\ stage = Scanned
    /\ c \in redTeamAssignments
    /\ StoreRedTeamEvaluation(redTeamAssignments, [redTeamReviews EXCEPT ![c] = decision])

RecordRedTeamReview(c, decision) ==
    /\ redTeamPlan # None /\ stage = Scanned
    /\ c \in redTeamAssignments /\ redTeamReviews[c] = "none"
    /\ decision = "candidate" => c \in Suspects
    /\ StoreRedTeamEvaluation(redTeamAssignments, [redTeamReviews EXCEPT ![c] = decision])

\* Mutant: the verdict is not consulted.
FinalizeRedTeam_Unjudged ==
    /\ redTeamPlan # None /\ stage = Scanned
    /\ stage' = RedTeamed
    /\ analysisSnapshot' = [redTeamBase EXCEPT !.stage = RedTeamed,
                                               !.redTeam = redTeamEvaluation.completed]
    /\ UNCHANGED <<supplyChainGraph, coverageVars, reportFlow>>

\* The red-teamed snapshot is the plan's base snapshot, not the current one.
FinalizeRedTeam ==
    /\ redTeamPlan # None /\ stage = Scanned
    /\ redTeamEvaluation.status = "comprehensive"
    /\ stage' = RedTeamed
    /\ analysisSnapshot' = [redTeamBase EXCEPT !.stage = RedTeamed,
                                               !.redTeam = redTeamEvaluation.completed]
    /\ UNCHANGED <<supplyChainGraph, coverageVars, reportFlow>>

-----------------------------------------------------------------------------
(* Behaviour graph, trace and validation.                                  *)

PrepareEvasiveGraph ==
    /\ graphPlan = None
    /\ analysisSnapshot # None /\ stage = RedTeamed
    /\ GraphBuildable(analysisSnapshot)
    /\ graphBase' = analysisSnapshot
    /\ graphPlan' = BuildEvasiveGraph(analysisSnapshot, semanticEvaluation, redTeamEvaluation,
                                       supplyChainGraph)
    /\ graphTrace' = None
    /\ UNCHANGED <<stage, analysisSnapshot, supplyChainGraph, semanticVars, redTeamVars,
                   validationVars, reportFlow>>

\* A trace with blockers is stored too, and may be repeated.
TraceEvasiveGraphState ==
    LET next == IF GraphTraceOf(graphPlan) = "complete" THEN Traced ELSE stage
    IN /\ graphPlan # None /\ stage = RedTeamed
       /\ GraphBuildable(graphBase)
       /\ stage' = next
       /\ analysisSnapshot' = [analysisSnapshot EXCEPT !.stage = next]
       /\ graphTrace' = GraphTraceOf(graphPlan)
       /\ UNCHANGED <<supplyChainGraph, semanticVars, redTeamVars, graphBase, graphPlan,
                      validationVars, reportFlow>>

\* checks: the blockers createAssuranceValidationPlan may add besides the supply chain's.
PrepareAssuranceValidation(checks) ==
    LET plan == [findings |-> graphPlan.findings,
                 checks |-> IF SupplyChainComplete(analysisSnapshot, supplyChainGraph)
                            THEN checks ELSE "failed",
                 supply |-> supplyChainGraph]
    IN /\ validationPlan = None
       /\ analysisSnapshot # None /\ stage = Traced /\ graphTrace = "complete"
       /\ ValidationPlanBuildable(analysisSnapshot)
       /\ validationBase' = analysisSnapshot
       /\ validationPlan' = plan
       /\ validationRecords' = {}
       /\ validationEvaluation' = EvaluateAssuranceValidation(plan, {})
       /\ UNCHANGED <<stage, analysisSnapshot, supplyChainGraph, semanticVars, redTeamVars,
                      graphVars, reportFlow>>

RecordAssuranceValidation(assignment, conclusion) ==
    LET records == validationRecords \cup {[assignment |-> assignment, conclusion |-> conclusion]}
    IN /\ validationPlan # None /\ stage = Traced
       /\ assignment \in AssignmentsOf(validationPlan)
       /\ conclusion \in ConclusionsFor(assignment.kind)
       /\ \A r \in validationRecords : r.assignment # assignment
       /\ validationRecords' = records
       /\ validationEvaluation' = EvaluateAssuranceValidation(validationPlan, records)
       /\ UNCHANGED <<stage, analysisSnapshot, supplyChainGraph, semanticVars, redTeamVars,
                      graphVars, validationBase, validationPlan, reportFlow>>

FinalizeAssuranceValidation ==
    /\ validationPlan # None /\ stage = Traced
    /\ EvaluateAssuranceValidation(validationPlan, validationRecords) = "complete"
    /\ stage' = Validated
    /\ analysisSnapshot' = [analysisSnapshot EXCEPT !.stage = Validated]
    /\ validationEvaluation' = "complete"
    /\ UNCHANGED <<supplyChainGraph, semanticVars, redTeamVars, graphVars, validationBase,
                   validationPlan, validationRecords, reportFlow>>

-----------------------------------------------------------------------------
(* finalizeReportHandler: the durable report record, then the stage it seals. *)

\* Mutant: a retried finalization advances the stage again.
FinalizeAssuranceReport_AdvancesTwice ==
    /\ stage >= Validated
    /\ analysisSnapshot # None /\ validationEvaluation = "complete"
    /\ reportFlow' = "assurance"
    /\ stage' = stage + 1
    /\ analysisSnapshot' = [analysisSnapshot EXCEPT !.stage = stage + 1]
    /\ UNCHANGED <<supplyChainGraph, coverageVars>>

FinalizeAssuranceReport ==
    /\ reportFlow = None
    /\ stage = Validated
    /\ analysisSnapshot # None /\ validationEvaluation = "complete"
    /\ reportFlow' = "assurance"
    /\ stage' = Finalized
    /\ analysisSnapshot' = [analysisSnapshot EXCEPT !.stage = Finalized]
    /\ UNCHANGED <<supplyChainGraph, coverageVars>>

\* The other flows are refused once assurance has started.
FinalizeOtherReport(flow) ==
    /\ reportFlow = None
    /\ stage = Acquired /\ analysisSnapshot = None /\ supplyChainGraph = None
    /\ reportFlow' = flow
    /\ UNCHANGED <<stage, analysisSnapshot, supplyChainGraph, coverageVars>>

-----------------------------------------------------------------------------

\* An inventory with an unread object is not complete.
Inventories ==
    IF \A o \in Objects : Source[o].inventoried THEN {"complete", "incomplete"} ELSE {"incomplete"}

Acquisition ==
    \/ \E inventory \in Inventories, keep \in BOOLEAN : ListSource(inventory, keep)
    \/ \E o \in Decodable, inventory \in Inventories : IndexFile(o, inventory)
    \/ \E g \in Graphs, matched \in BOOLEAN : DependencyAudit(g, matched)

Semantic ==
    \/ \E views \in ViewSets : PrepareSemanticCoverage([views |-> views])
    \/ \E o \in Objects : \E report \in Reports[o] : RecordSemanticScannerCoverage(o, report)
    \/ \E o \in Objects, slot \in Slots, r \in Reviewers : IssueSemanticReviewAssignment(o, slot, r)
    \/ \E a \in reviewAssignments, d \in ReviewDecisions : RecordSemanticReview(a, d)

RedTeaming ==
    \/ PrepareRedTeam
    \/ \E c \in Categories : IssueRedTeamAssignment(c)
    \/ \E c \in Categories, d \in ReviewOutcomes \ {"none"} : RecordRedTeamReview(c, d)
    \/ FinalizeRedTeam

Tracing ==
    \/ PrepareEvasiveGraph
    \/ TraceEvasiveGraphState

Validation ==
    \/ \E checks \in {"passed", "failed"} : PrepareAssuranceValidation(checks)
    \/ \E a \in ValidationAssignments, c \in Conclusions : RecordAssuranceValidation(a, c)
    \/ FinalizeAssuranceValidation

Reporting ==
    \/ FinalizeAssuranceReport
    \/ \E flow \in {"trusted-ledger", "compatibility"} : FinalizeOtherReport(flow)

\* Every handler first revalidates the container and throws when it is invalid.
Next ==
    /\ ContainerValid
    /\ Acquisition \/ Semantic \/ RedTeaming \/ Tracing \/ Validation \/ Reporting

Spec == Init /\ [][Next]_vars

-----------------------------------------------------------------------------
(* What makes the pipeline correct.                                        *)

\* A stage is reached only with the plan it needs and a passing verdict on it,
\* and no plan exists ahead of its stage; a transition that outruns its evidence
\* would be caught only by a later handler (advanceAssuranceStage and the
\* handlers that own the later transitions).
StageEarned ==
    /\ semanticPlan # None => stage >= Decoded
    /\ stage >= Inventoried => analysisSnapshot # None
    /\ stage >= SemanticallyCovered =>
         semanticPlan # None /\ semanticEvaluation.status = "comprehensive"
    /\ redTeamPlan # None <=> stage >= Scanned
    /\ stage >= RedTeamed => redTeamEvaluation.status = "comprehensive"
    /\ graphPlan # None => stage >= RedTeamed
    /\ graphTrace = "complete" <=> stage >= Traced
    /\ validationPlan # None => stage >= Traced
    /\ stage >= Validated => validationPlan # None /\ validationEvaluation = "complete"

\* From semantically-covered on, every executable and configuration object was
\* assessed for instructions and scanned clean, and each reviewer slot of every
\* object is held by a different reviewer who completed the review of a view that
\* named all its targets: none is pending, incomplete, or counted twice, and a
\* document that tries to instruct its reader has two readers
\* (classifyObjectForSemanticCoverage, evaluateSemanticCoverage,
\* issueSemanticReviewAssignment, recordSemanticReview).
ReviewedIndependently ==
    stage >= SemanticallyCovered =>
      \A o \in Objects :
        LET issued == {a \in reviewAssignments : a.object = o}
            finished == {r.assignment : r \in {x \in reviewRecords : x.decision # "incomplete"}}
            executable == Class(o) \notin {"document-data", "binary-archive", "unsupported"}
        IN /\ issued \subseteq finished
           /\ \A a, b \in issued : a # b => a.slot # b.slot /\ a.reviewer # b.reviewer
           /\ executable => /\ o \in semanticPlan.views
                            /\ scannerRecords[o] # None /\ scannerRecords[o].outcome = "clean"
                            /\ issued # {}
           /\ o \in semanticPlan.views /\ o \in Injected =>
                \E a, b \in issued : a.reviewer # b.reviewer
           /\ issued # {} /\ scannerRecords[o] # None =>
                \A f \in scannerRecords[o].facts : Fact[f].kind # "unresolved-dynamic-target"

\* The snapshot a traced, validated or finalized audit rests on carries exactly
\* the artifacts the reviewers were assigned, all of them decoded and unblocked,
\* whatever the dependency tools stored in between (recordAssuranceSnapshot,
\* createRedTeamPlan, finalizeRedTeam, prepareEvasiveGraph).
SealedSnapshotWasReviewed ==
    stage >= Traced =>
      /\ analysisSnapshot # None
      /\ analysisSnapshot.artifacts = semanticBase.artifacts
      /\ Decodable \subseteq analysisSnapshot.artifacts
      /\ analysisSnapshot.artifacts \cap Blocking = {}
      /\ analysisSnapshot.inventory = "complete"
      /\ analysisSnapshot.covered = Objects
      /\ analysisSnapshot.redTeam = Categories
      /\ analysisSnapshot.ledger =
           {r.assignment.object : r \in {x \in reviewRecords : x.decision = "candidates"}}

\* Every candidate that a completed review reported, of an object or of a red-team
\* category, was decided in a validated audit once by each of its two validators,
\* and the two agree (evaluateSemanticCoverage, evaluateRedTeamCoverage,
\* buildEvasiveGraph, evaluateAssuranceValidation).
FindingsDecided ==
    stage >= Validated =>
      \A f \in {r.assignment.object : r \in {x \in reviewRecords : x.decision = "candidates"}}
               \cup {c \in Categories : redTeamReviews[c] = "candidate"} :
        LET said(kind) == {r.conclusion : r \in {x \in validationRecords :
                             x.assignment = [subject |-> f, kind |-> kind]}}
        IN <<said("confirm"), said("refute")>> \in
             {<<{"confirmed"}, {"not-refuted"}>>, <<{"not-confirmed"}, {"refuted"}>>}

Accumulates ==
    /\ stage' >= stage
    /\ semanticPlan # None => UNCHANGED <<semanticBase, semanticPlan, supplyChainGraph>>
    /\ \A o \in Objects : scannerRecords[o] # None => scannerRecords'[o] = scannerRecords[o]
    /\ reviewAssignments \subseteq reviewAssignments'
    /\ reviewRecords \subseteq reviewRecords'
    /\ stage > Decoded => UNCHANGED semanticVars
    /\ redTeamPlan # None => UNCHANGED <<redTeamBase, redTeamPlan>>
    /\ \A c \in Categories : redTeamReviews[c] # "none" => redTeamReviews'[c] = redTeamReviews[c]
    /\ stage > Scanned => UNCHANGED redTeamVars
    /\ graphPlan # None => UNCHANGED <<graphBase, graphPlan>>
    /\ stage > RedTeamed => UNCHANGED graphVars
    /\ validationPlan # None => UNCHANGED <<validationBase, validationPlan>>
    /\ validationRecords \subseteq validationRecords'
    /\ stage > Traced => UNCHANGED validationVars
    /\ reportFlow # None => UNCHANGED reportFlow

\* Evidence only accumulates: no step takes a stage back, replaces a plan or a
\* record, or adds evidence to a stage that was already judged.
EvidenceFrozen == [][Accumulates]_vars

=============================================================================
