------------------------------ MODULE Council ------------------------------
(***************************************************************************)
(* A council audit of a local or cloned tree (zerotrust-sourcecheck): the  *)
(* source is listed and indexed, reviewers' roles submit candidates about  *)
(* the indexed source, the scan is finalized, the behaviour graph traced,  *)
(* every required candidate is confirmed, refuted and adjudicated by three *)
(* reviewers, a decision is taken, and the report states it.               *)
(*                                                                         *)
(* Every handler runs to its end without waiting, so each is one action.   *)
(* The tree is on disk and may be edited between any two of them, and the  *)
(* index may be listed and read again at every stage.                      *)
(***************************************************************************)
EXTENDS Decision

CONSTANTS
    Roles,          \* the council's manifest
    Mandatory,      \* roles that must succeed
    Category,       \* of a role
    CoverageFloor,  \* how many roles must succeed: nine tenths, rounded up
    Reviewers,      \* identifiers validators and adjudicators go by
    MaxFaults       \* edits of the tree and failed or cut readings, a bound

ASSUME RolesAssumption ==
    /\ Mandatory \subseteq Roles
    /\ DOMAIN Category = Roles
    /\ CoverageFloor \in Nat \ {0}
    /\ MaxFaults \in Nat

VARIABLES
    disk,           \* the content of each path
    faults,         \* history: edits, failed and cut readings so far
    index,          \* analysisIndexState
    plugins,        \* analysisPluginState
    stage,          \* analysisStageState.current
    submissions,    \* by role, the candidates of its batch
    finalization,   \* successfulRoleIds of the finalized scan
    ledger,         \* findingLedger
    trace,          \* analysisTraceState
    required,       \* validationState: candidates with a validation context
    reviews,        \* static decisions, by candidate and decision type
    rulings,        \* adjudications
    decision,       \* decisionSnapshot, stored with the validation's finalization
    report          \* reportFinalization

source == <<disk, faults, index, plugins>>
council == <<submissions, finalization, ledger>>
validation == <<trace, required, reviews, rulings>>
vars == <<source, stage, council, validation, decision, report>>

-----------------------------------------------------------------------------

Stages == {"acquired", "prepared", "scanned", "traced", "validated", "finalized"}
AfterTrace == {"traced", "validated", "finalized"}
AfterScan == {"scanned"} \cup AfterTrace

Types == {"confirm", "refute"}
Opposite(type) == IF type = "confirm" THEN "refute" ELSE "confirm"
Conclusions(type) ==
    {"unresolved"} \cup
    (IF type = "confirm" THEN {"confirmed", "not-confirmed"} ELSE {"refuted", "not-refuted"})
Reviews == [by: Reviewers,
            says: {"unresolved", "confirmed", "not-confirmed", "refuted", "not-refuted"}]

\* chain: the adjudication cites a complete chain. It matters, and is kept, for a
\* validated candidate only.
Rulings == [by: Reviewers, decision: {"validated", "refuted", "unresolved"}, chain: BOOLEAN]
\* chained: the candidates that a complete chain of the trace belongs to.
Traces == [of: SUBSET Candidates, chained: SUBSET Candidates, complete: BOOLEAN]
Coverages == [index: BOOLEAN, plugins: BOOLEAN]
Decisions == [coverage: Coverages, findings: Ledgers, verdict: Verdicts]

ASSUME NoneRecordAssumption ==
    /\ \A S \in SUBSET Candidates : S # None
    /\ \A S \in SUBSET Roles : S # None
    /\ None \notin Reviews /\ None \notin Rulings
    /\ None \notin Traces /\ None \notin Decisions

\* Type invariant.
TypeOK ==
    /\ disk \in [Paths -> Contents]
    /\ faults \in 0..MaxFaults
    /\ index \in Indexes
    /\ plugins \in PluginRuns \cup {None}
    /\ stage \in Stages
    /\ submissions \in [Roles -> {None} \cup SUBSET Candidates]
    /\ finalization \in {None} \cup SUBSET Roles
    /\ ledger \in Ledgers
    /\ trace \in Traces \cup {None}
    /\ required \in {None} \cup SUBSET Candidates
    /\ reviews \in [Candidates \X Types -> Reviews \cup {None}]
    /\ rulings \in [Candidates -> Rulings \cup {None}]
    /\ decision \in Decisions \cup {None}
    /\ report \in Verdicts \cup {None}

Init ==
    /\ disk \in [Paths -> Contents]
    /\ faults = 0
    /\ index = EmptyIndex
    /\ plugins = None
    /\ stage = "acquired"
    /\ submissions = [r \in Roles |-> None]
    /\ finalization = None
    /\ ledger = [c \in Candidates |-> None]
    /\ trace = None
    /\ required = None
    /\ reviews = [k \in Candidates \X Types |-> None]
    /\ rulings = [c \in Candidates |-> None]
    /\ decision = None
    /\ report = None

-----------------------------------------------------------------------------
(* Acquisition: sourceIngestion.mjs. *)

Fault == faults < MaxFaults /\ faults' = faults + 1

Edit(p, c) ==
    /\ Fault
    /\ c # disk[p]
    /\ disk' = [disk EXCEPT ![p] = c]
    /\ UNCHANGED <<index, plugins, stage, council, validation, decision, report>>

\* maybeAdvanceAnalysisPrepared on a new index.
Advance(ix) ==
    /\ index' = ix
    /\ plugins' = RunAnalysisPlugins(ix, plugins)
    /\ stage' = Prepared(stage, ix, plugins')

\* What enumerateSource finds on the disk: all of it, or as much as its caps allow.
Listing(S) == [p \in S |-> Pending(None, Size[disk[p]])]

\* safeListSourceHandler: the tree is enumerated by the first call that does not
\* fail; a later call only tries to advance.
ListSource ==
    /\ IF index.enumerated \/ index.truncated
       THEN Advance(index)
       ELSE \E S \in SUBSET Paths :
                Advance(RecordIndexEnumeration(index, Listing(S), S = Paths, S # Paths))
    /\ UNCHANGED <<disk, faults, council, validation, decision, report>>

\* The reading of a whole file, and that of a file larger than max_bytes, whose
\* bytes are not read.
WholeReading(p) == [size |-> Size[disk[p]], hash |-> disk[p], blob |-> None, whole |-> TRUE]
CutReading(p) == [size |-> index.file[p].size, hash |-> None, blob |-> None, whole |-> FALSE]

\* safeIndexSourceFileHandler: the file cannot be opened or read, or its size is
\* no longer the enumerated one.
IndexFails(p) ==
    /\ Fault
    /\ index.file[p] # None
    /\ index' = RecordIndexReadFailure(index, p)
    /\ UNCHANGED <<disk, plugins, stage, council, validation, decision, report>>

IndexTooLarge(p) ==
    /\ Fault
    /\ index.file[p] # None
    /\ index' = RecordIndexedFile(index, p, CutReading(p))
    /\ UNCHANGED <<disk, plugins, stage, council, validation, decision, report>>

IndexSourceFile(p) ==
    /\ index.file[p] # None
    /\ index.file[p].size = Size[disk[p]]
    /\ Accepted(index.file[p], WholeReading(p))
    /\ Advance(RecordIndexedFile(index, p, WholeReading(p)))
    /\ UNCHANGED <<disk, faults, council, validation, decision, report>>

-----------------------------------------------------------------------------
(* The council: findingLedgerWrapper.mjs. *)

\* Mutant: a batch may follow the finalized scan.
SubmitCandidates_AfterFinalize(r, batch) ==
    /\ stage # "acquired"
    /\ IndexComplete(index)
    /\ \A c \in batch : Cites(c, index)
    /\ submissions[r] = None
    /\ batch \cap Recorded(ledger) = {}
    /\ \A c, d \in batch \cup Recorded(ledger) : FindingId(c) = FindingId(d) => c = d
    /\ Consistent(CouncilGraph(batch \cup Recorded(ledger)))
    /\ submissions' = [submissions EXCEPT ![r] = batch]
    /\ ledger' = [c \in Candidates |->
                    IF c \in batch THEN [state |-> "candidate", severity |-> SeverityOf[c[1]]]
                    ELSE ledger[c]]
    /\ UNCHANGED <<source, stage, finalization, validation, decision, report>>

\* handleSubmit: a role's one batch, about what the index holds. A candidate that
\* another role recorded has another producer, and the whole batch is refused; so is one
\* that gives the identifier of a finding other evidence, or a graph identifier another
\* meaning.
SubmitCandidates(r, batch) ==
    /\ stage # "acquired"
    /\ IndexComplete(index)
    /\ \A c \in batch : Cites(c, index)
    /\ submissions[r] = None
    /\ finalization = None
    /\ batch \cap Recorded(ledger) = {}
    /\ \A c, d \in batch \cup Recorded(ledger) : FindingId(c) = FindingId(d) => c = d
    /\ Consistent(CouncilGraph(batch \cup Recorded(ledger)))
    /\ submissions' = [submissions EXCEPT ![r] = batch]
    /\ ledger' = [c \in Candidates |->
                    IF c \in batch THEN [state |-> "candidate", severity |-> SeverityOf[c[1]]]
                    ELSE ledger[c]]
    /\ UNCHANGED <<source, stage, finalization, validation, decision, report>>

Submitted == {r \in Roles : submissions[r] # None}

\* The council gates of handleFinalize on the roles said to have succeeded.
GatesPass(successful) ==
    /\ Mandatory \subseteq successful
    /\ \A r \in Roles : \E s \in successful : Category[s] = Category[r]
    /\ Cardinality(successful) >= CoverageFloor

FinalizeScan ==
    /\ GatesPass(Submitted)
    /\ IndexComplete(index)
    /\ stage = "prepared"
    /\ finalization' = Submitted
    /\ stage' = "scanned"
    /\ UNCHANGED <<source, submissions, ledger, validation, decision, report>>

-----------------------------------------------------------------------------
(* Tracing and validation: enforcement.mjs. *)

\* The plugins' and the council's graphs, as they were drawn.
AllDrawn == Combined({SeedGraph(plugins.of), CouncilGraph(Recorded(ledger))})

\* The chains in them, merged against the index.
CouncilTrace == TraceBehaviorGraph(MergeBehaviorGraphs(AllDrawn, index))

\* traceAnalysisGraph: the first trace is stored, complete or not, and stands.
TraceAnalysisGraph ==
    /\ stage \in AfterScan
    /\ finalization = Submitted
    /\ IndexComplete(index)
    /\ PluginCoverage(plugins)
    /\ trace = None
    /\ LET traced == CouncilTrace
       IN  /\ trace' = [of |-> Recorded(ledger), complete |-> traced.complete,
                        chained |-> {c \in Recorded(ledger) : Chained(c, traced)}]
           /\ stage' = IF traced.complete /\ stage = "scanned" THEN "traced" ELSE stage
    /\ UNCHANGED <<source, council, required, reviews, rulings, decision, report>>

TraceComplete == IF trace = None THEN FALSE ELSE trace.complete

\* Mutant: a queued candidate gets a state the ledger does not know.
PrepareAnalysisValidation_Queues ==
    /\ stage \in AfterTrace
    /\ TraceComplete
    /\ required = None
    /\ required' = Required(ledger)
    /\ ledger' = [c \in Candidates |-> 
                    IF c \in required' THEN [ledger[c] EXCEPT !.state = "queued"] ELSE ledger[c]]
    /\ UNCHANGED <<source, stage, submissions, finalization, trace, reviews, rulings,
                   decision, report>>

PrepareAnalysisValidation ==
    /\ stage \in AfterTrace
    /\ TraceComplete
    /\ required = None
    /\ required' = Required(ledger)
    /\ ledger' = [c \in Candidates |->
                    IF c \in required' THEN [ledger[c] EXCEPT !.state = "validating"]
                    ELSE ledger[c]]
    /\ UNCHANGED <<source, stage, submissions, finalization, trace, reviews, rulings,
                   decision, report>>

\* The candidates with a validation context, none before validation is prepared.
Queue == IF required = None THEN {} ELSE required

\* submitAnalysisValidationDecision: one review of each type, by two reviewers. A
\* confirmation names the complete chain it rests on.
SubmitReview(c, type, v, says) ==
    /\ stage \in AfterTrace
    /\ c \in Queue
    /\ reviews[<<c, type>>] = None
    /\ reviews[<<c, Opposite(type)>>] # None => reviews[<<c, Opposite(type)>>].by # v
    /\ says \in Conclusions(type)
    /\ says = "confirmed" => c \in trace.chained
    /\ reviews' = [reviews EXCEPT ![<<c, type>>] = [by |-> v, says |-> says]]
    /\ UNCHANGED <<source, stage, council, trace, required, rulings, decision, report>>

\* Mutant: the adjudicator may be one of the two reviewers.
Adjudicate_OwnReview(c, a, ruling, severity, chain) ==
    /\ stage \in AfterTrace
    /\ c \in Queue
    /\ \A type \in Types : reviews[<<c, type>>] # None
    /\ ruling \in {"unresolved",
                   Permitted(reviews[<<c, "confirm">>].says, reviews[<<c, "refute">>].says)}
    /\ severity # ledger[c].severity \/ chain => ruling = "validated"
    /\ ledger[c].state = "validating"
    /\ ledger' = [ledger EXCEPT ![c] = [state |-> ruling, severity |-> severity]]
    /\ rulings' = [rulings EXCEPT ![c] = [by |-> a, decision |-> ruling, chain |-> chain]]
    /\ UNCHANGED <<source, stage, submissions, finalization, trace, required, reviews,
                   decision, report>>

\* adjudicateAnalysisValidation. The severity and chains the adjudicator gives are kept
\* for a validated candidate: those of another one bear on no verdict.
Adjudicate(c, a, ruling, severity, chain) ==
    /\ stage \in AfterTrace
    /\ c \in Queue
    /\ \A type \in Types : reviews[<<c, type>>] # None
    /\ \A type \in Types : reviews[<<c, type>>].by # a
    /\ ruling \in {"unresolved",
                   Permitted(reviews[<<c, "confirm">>].says, reviews[<<c, "refute">>].says)}
    /\ severity # ledger[c].severity \/ chain => ruling = "validated"
    /\ ledger[c].state = "validating"
    /\ ledger' = [ledger EXCEPT ![c] = [state |-> ruling, severity |-> severity]]
    /\ rulings' = [rulings EXCEPT ![c] = [by |-> a, decision |-> ruling, chain |-> chain]]
    /\ UNCHANGED <<source, stage, submissions, finalization, trace, required, reviews,
                   decision, report>>

CoverageNow == [index |-> IndexComplete(index), plugins |-> PluginCoverage(plugins)]
Covered(coverage) == coverage.index /\ coverage.plugins
OnChain == {c \in Candidates : rulings[c] # None /\ rulings[c].chain}
DecisionNow ==
    [coverage |-> CoverageNow, findings |-> ledger,
     verdict |-> RecommendedVerdict(ledger, OnChain, Covered(CoverageNow))]

\* finalizeValidationState: every required candidate is reviewed twice and ruled upon.
ValidationComplete ==
    /\ required # None
    /\ \A c \in Queue : rulings[c] # None

\* Mutant: a later decision replaces the stored one.
FinalizeValidation_Replaces ==
    /\ ValidationComplete
    /\ decision' = DecisionNow
    /\ stage' = IF stage = "traced" /\ RemediationAccepted(ledger) THEN "validated" ELSE stage
    /\ UNCHANGED <<source, council, validation, report>>

\* finalizeAnalysisValidation. The decision is stored before the remediation plan is
\* handed to the ledger, which may refuse it: then the handler fails, the decision
\* stays and the stage does not advance. A decision that differs from the stored
\* one fails the handler too, without any change.
FinalizeValidation ==
    /\ ValidationComplete
    /\ decision \in {None, DecisionNow}
    /\ decision' = DecisionNow
    /\ stage' = IF stage = "traced" /\ RemediationAccepted(ledger) THEN "validated" ELSE stage
    /\ UNCHANGED <<source, council, validation, report>>

-----------------------------------------------------------------------------
(* The report of the trusted-ledger flow: reportWrapper.mjs. *)

\* decisionCoverage: the gates as they are when the report is made.
LiveCoverage ==
    /\ Covered(CoverageNow)
    /\ finalization = Submitted
    /\ TraceComplete
    /\ ValidationComplete

\* buildCouncilArtifacts: trustedVerdict
TrustedVerdict ==
    /\ decision # None => decision.verdict # "incomplete"
    /\ decision # None
    /\ stage = "validated"
    /\ LiveCoverage

\* finalizeReportHandler, the flow of a council audit. A local audit whose assurance
\* inventory could be stored has this flow refused; here the action may then not be taken.
FinalizeReport ==
    /\ report = None
    /\ stage # "finalized"
    /\ Submitted # {}
    /\ report' = IF TrustedVerdict THEN decision.verdict ELSE "incomplete"
    /\ stage' = IF TrustedVerdict THEN "finalized" ELSE stage
    /\ UNCHANGED <<source, council, validation, decision>>

-----------------------------------------------------------------------------

Next ==
    \/ \E p \in Paths, c \in Contents : Edit(p, c)
    \/ ListSource
    \/ \E p \in Paths : IndexFails(p) \/ IndexTooLarge(p) \/ IndexSourceFile(p)
    \/ \E r \in Roles, batch \in SUBSET {c \in Candidates : Cites(c, index)} :
            SubmitCandidates(r, batch)
    \/ FinalizeScan
    \/ TraceAnalysisGraph
    \/ PrepareAnalysisValidation
    \/ \E c \in Queue, type \in Types, v \in Reviewers :
            \E says \in Conclusions(type) : SubmitReview(c, type, v, says)
    \/ \E c \in Queue, a \in Reviewers, ruling \in {"validated", "refuted", "unresolved"},
         severity \in Severities, chain \in BOOLEAN :
            Adjudicate(c, a, ruling, severity, chain)
    \/ FinalizeValidation
    \/ FinalizeReport

Spec == Init /\ [][Next]_vars

-----------------------------------------------------------------------------
(* Properties *)

\* Three reviewers looked at a candidate, and its ruling follows their reviews.
ThreeReviewed(c) ==
    /\ rulings[c] # None
    /\ \A type \in Types : reviews[<<c, type>>] # None
    /\ \A type \in Types : reviews[<<c, type>>].by # rulings[c].by
    /\ reviews[<<c, "confirm">>].by # reviews[<<c, "refute">>].by
    /\ ledger[c].state = rulings[c].decision
    /\ ledger[c].state = "validated" => reviews[<<c, "confirm">>].says = "confirmed"
    /\ ledger[c].state = "refuted" => reviews[<<c, "refute">>].says = "refuted"

\* A verdict is earned: when validation ends with one, no candidate of the frozen
\* scan is left open, whatever was submitted by which role; each was confirmed,
\* refuted and adjudicated by three different reviewers, and the verdict is "no red
\* flags found" exactly when every one was refuted (finalizeAnalysisValidation).
DecisionEarned ==
    decision # None => (decision.verdict # "incomplete" =>
        /\ \A c \in Recorded(ledger) :
                ledger[c].state \in {"validated", "refuted"} /\ ThreeReviewed(c)
        /\ decision.verdict = "clean" <=>
                \A c \in Recorded(ledger) : ledger[c].state = "refuted")

\* Every set of nodes that a graph's edges do not leave holds an effect, if it holds the
\* node: that is, an effect can be reached from the node.
LeadsToEffect(graph, node) ==
    \A S \in SUBSET {n.id : n \in graph.nodes} :
        node.id \in S /\ (\A e \in graph.edges : e.from \in S => e.to \in S)
            => \E n \in graph.nodes : n.id \in S /\ n.kind \in EffectKinds

\* A start of a candidate's graph that no edge comes back to, whoever drew it.
Uncaused(n) == \A e \in AllDrawn.edges : Meaning(NodeOf(e.to, AllDrawn.nodes)) # Meaning(n)

\* What is traced, validated and decided upon is what the council's successful
\* roles submitted before the scan was finalized, all of it: no behaviour that was
\* drawn from its start to an effect is missing from a complete trace, whatever the
\* other roles and the plugins drew besides (a behaviour is missing whose start is
\* itself caused, by what they drew too, when the graph has a start that is not:
\* traceBehaviorGraph, roots).
TraceDescribesLedger ==
    /\ finalization # None =>
        Recorded(ledger) = UNION {submissions[r] : r \in finalization}
    /\ trace # None => trace.of = Recorded(ledger)
    /\ TraceComplete =>
        \A c \in Recorded(ledger) \ trace.chained : \A n \in CouncilGraph({c}).nodes :
            ~(n.kind \in StartKinds /\ Uncaused(n) /\ LeadsToEffect(CouncilGraph({c}), n))
    /\ decision # None => decision.findings = ledger

\* A verdict, when it is decided and when it is reported, is about the bytes in the
\* index: every candidate it rules on cites the content that is indexed then, although
\* files are edited, cut and read again between the submissions of two roles. The check
\* "source content hash changed across reads" (indexState.mjs) does not see to it: a cut
\* reading forgets the hash, and it is the plugins' fingerprint that notices.
VerdictOnIndexedSource ==
    [][\/ decision' # decision /\ decision'.verdict # "incomplete"
       \/ report' # report /\ report' # "incomplete"
       => \A c \in Recorded(ledger) : Cites(c, index)]_vars

\* The decision of an audit never changes, nor what it was taken on; the report
\* states its verdict only at the end of a complete pipeline.
DecisionStands ==
    [][/\ decision # None => decision' = decision /\ ledger' = ledger
       /\ report # None => report' = report
       /\ report' # report /\ report' # "incomplete" =>
            /\ report' = decision.verdict
            /\ stage = "validated" /\ stage' = "finalized"]_vars

\* The audit keeps the promise of AuditVerdict.
Promise == INSTANCE AuditVerdict WITH
    collected <- Recorded(ledger),
    frozen <- finalization # None,
    ruling <- [c \in Candidates |-> IF rulings[c] = None THEN None ELSE rulings[c].decision],
    verdict <- IF decision = None THEN None ELSE decision.verdict,
    published <- report

KeepsPromise == Promise!Spec

\* A stored decision goes with a validated audit. The stage gate asks for decisions on
\* "every required candidate", "with no validation truncation" (enforcement.mjs:3266), and
\* "zero-candidate validation completes and advances traced to validated"
\* (static-validation.test.mjs:627). The code stores the decision, then fails, when a
\* candidate is below the validation floor and none is required.
DecisionAdvances == decision # None => stage \in {"validated", "finalized"}

=============================================================================
