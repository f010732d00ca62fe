--------------------------- MODULE CouncilProofs ---------------------------
(***************************************************************************)
(* The council audit: proofs, for any tree, council and bounds.  Each      *)
(* invariant follows from one inductive invariant, IInv.  What a trace     *)
(* contains is an induction over the walks of a graph, by their lengths:   *)
(* a set of numbers has a least one (Least), and no shortest walk fails.   *)
(***************************************************************************)
EXTENDS Council, FiniteSetTheorems, WellFoundedInduction, TLAPS

-----------------------------------------------------------------------------
(* The index and the plugins.                                              *)

\* An index before any listing.
LEMMA EmptyIndexType == EmptyIndex \in Indexes
  BY DEF EmptyIndex, Indexes, NoFiles, Facts

\* A listing makes pending files; those already known stay.
LEMMA EnumerationType ==
    ASSUME NEW ix \in Indexes, NEW entries, NEW complete \in BOOLEAN, NEW truncated \in BOOLEAN,
           \A p \in Paths : p \in DOMAIN entries => entries[p] \in Files
    PROVE  RecordIndexEnumeration(ix, entries, complete, truncated) \in Indexes
  BY DEF Indexes, RecordIndexEnumeration

\* A file that could not be read keeps its identity.
LEMMA ReadFailureType ==
    ASSUME NEW ix \in Indexes, NEW p \in Paths, ix.file[p] # None
    PROVE  /\ RecordIndexReadFailure(ix, p) \in Indexes
           /\ ~IndexComplete(RecordIndexReadFailure(ix, p))
<1>1. ix.file[p] \in Files
  BY DEF Indexes
<1> DEFINE failed == [ix.file[p] EXCEPT !.status = "read-failed"]
<1>2. failed \in Files /\ failed.status = "read-failed"
  BY <1>1 DEF Files, FileStatuses, CompleteFile
<1> HIDE DEF failed
<1>3. RecordIndexReadFailure(ix, p) = [ix EXCEPT !.file[p] = failed]
  BY DEF RecordIndexReadFailure, failed, Indexes
<1>4. /\ RecordIndexReadFailure(ix, p) \in Indexes
      /\ RecordIndexReadFailure(ix, p).file[p] = failed
  BY <1>2, <1>3 DEF Indexes
<1>5. failed # None
  BY <1>2, NoneAssumption
<1> QED BY <1>2, <1>4, <1>5 DEF IndexComplete, Known, CompleteFile

\* The facts of a reading are about its path and bytes.
LEMMA FactsOfType ==
    ASSUME NEW p \in Paths, NEW r \in Readings
    PROVE  FactsOf(p, r) \subseteq Facts
  BY DEF FactsOf, Text, Facts, Readings

\* Whatever a reading is, the status it gives is one of a file.
LEMMA StatusOfType ==
    ASSUME NEW r PROVE StatusOf(r) \in FileStatuses
  BY DEF StatusOf, FileStatuses, CompleteFile

\* A reading that is recorded leaves an index; one that is cut leaves an incomplete one.
LEMMA IndexedFileType ==
    ASSUME NEW ix \in Indexes, NEW p \in Paths, ix.file[p] # None, NEW r \in Readings
    PROVE  /\ RecordIndexedFile(ix, p, r) \in Indexes
           /\ ~r.whole => ~IndexComplete(RecordIndexedFile(ix, p, r))
<1>1. ix.file[p] \in Files
  BY DEF Indexes
<1> DEFINE new == FactsOf(p, r) \ ix.facts
           capped == new # {} /\ Cardinality(ix.facts) >= MaxFacts
           status == IF capped THEN "index-overflow" ELSE StatusOf(r)
           file == [status |-> status, content |-> r.hash,
                    blob |-> ix.file[p].blob, size |-> r.size]
           changed == [ix EXCEPT
                        !.file[p] = file,
                        !.facts = IF capped THEN @ ELSE @ \cup new,
                        !.overflowed = @ \/ (r.whole /\ r.hash \in Dense),
                        !.full = @ \/ capped]
<1>2. status \in FileStatuses
  BY StatusOfType DEF FileStatuses
<1>3. ~r.whole => status \notin CompleteFile
  BY DEF StatusOf, CompleteFile
<1>4. new \in SUBSET Facts
  BY FactsOfType
<1>5. \/ RecordIndexedFile(ix, p, r) = changed
      \/ /\ RecordIndexedFile(ix, p, r) = ix
         /\ ix.file[p].status = StatusOf(r) /\ ix.file[p].status \in CompleteFile
  BY DEF RecordIndexedFile
<1> HIDE DEF new, status
<1>6. file \in Files /\ file.status = status
  BY <1>1, <1>2 DEF Files, Readings
<1> HIDE DEF file
<1>7. capped \in BOOLEAN /\ r.whole \in BOOLEAN
  BY DEF Readings
<1> HIDE DEF capped
<1>8. changed \in Indexes /\ changed.file[p] = file
  BY <1>4, <1>6, <1>7 DEF Indexes
<1> HIDE DEF changed
<1>9. ~r.whole => ~IndexComplete(changed)
  BY <1>3, <1>6, <1>8, NoneAssumption DEF IndexComplete, Known
<1>10. ~r.whole => StatusOf(r) \notin CompleteFile
  BY DEF StatusOf, CompleteFile
<1> QED BY <1>5, <1>8, <1>9, <1>10

\* The fingerprint of an index.
LEMMA FingerprintType ==
    ASSUME NEW ix \in Indexes PROVE Fingerprint(ix) \in Fingerprints
  BY DEF Fingerprint, Fingerprints, Indexes

\* A run, or none yet.
LEMMA PluginsType ==
    ASSUME NEW ix \in Indexes, NEW run \in PluginRuns \cup {None}
    PROVE  RunAnalysisPlugins(ix, run) \in PluginRuns \cup {None}
<1> DEFINE fresh == [of |-> Fingerprint(ix),
                     complete |-> \A p \in Known(ix) : ix.file[p].content \notin Breaking]
<1>1. fresh \in PluginRuns
  BY FingerprintType DEF PluginRuns
<1>2. run # None => [run EXCEPT !.complete = FALSE] \in PluginRuns
  BY DEF PluginRuns
<1> QED BY <1>1, <1>2 DEF RunAnalysisPlugins

\* A complete index has a plugin run; a run that still covers is about that index.
PluginsSaw(ix, run) ==
    IndexComplete(ix) => run # None /\ (run.complete => run.of = Fingerprint(ix))

\* Whatever run there was before, on a complete index it is about that index or covers
\* nothing.
LEMMA PluginsSeeIndex ==
    ASSUME NEW ix \in Indexes, NEW run \in PluginRuns \cup {None}
    PROVE  PluginsSaw(ix, RunAnalysisPlugins(ix, run))
<1> DEFINE fresh == [of |-> Fingerprint(ix),
                     complete |-> \A p \in Known(ix) : ix.file[p].content \notin Breaking]
<1>1. fresh \in PluginRuns /\ fresh.of = Fingerprint(ix)
  BY FingerprintType DEF PluginRuns
<1>2. CASE IndexComplete(ix) /\ run = None
  BY <1>1, <1>2, NoneAssumption DEF RunAnalysisPlugins, PluginsSaw
<1>3. CASE IndexComplete(ix) /\ run # None /\ run.of = Fingerprint(ix)
  BY <1>3 DEF RunAnalysisPlugins, PluginsSaw
<1>4. CASE IndexComplete(ix) /\ run # None /\ run.of # Fingerprint(ix)
  <2> DEFINE withdrawn == [run EXCEPT !.complete = FALSE]
  <2>1. RunAnalysisPlugins(ix, run) = withdrawn
    BY <1>4 DEF RunAnalysisPlugins
  <2>2. withdrawn \in PluginRuns /\ ~withdrawn.complete
    BY <1>4 DEF PluginRuns
  <2> QED BY <2>1, <2>2, NoneAssumption DEF PluginsSaw
<1> QED BY <1>2, <1>3, <1>4 DEF PluginsSaw

\* What a run is about is settled when it is made.
LEMMA PluginsKeep ==
    ASSUME NEW ix \in Indexes, NEW run \in PluginRuns, NEW after,
           after = RunAnalysisPlugins(ix, run)
    PROVE  after \in PluginRuns /\ after.of = run.of /\ (after.complete => run.complete)
<1>1. run # None
  BY NoneAssumption
<1> QED BY <1>1 DEF RunAnalysisPlugins, PluginRuns

-----------------------------------------------------------------------------
(* Induction.                                                              *)

\* Induction, in the form the provers can use: a set of numbers has a least one.
LEMMA Least ==
    ASSUME NEW T \in SUBSET Nat, T # {}
    PROVE  \E n \in T : \A m \in T : n <= m
<1> DEFINE R == {p \in Nat \X Nat : p[1] < p[2]}
<1>1. R = OpToRel(<, Nat)
  BY Zenon DEF OpToRel
<1> HIDE DEF R
<1>2. IsWellFoundedOn(R, Nat)
  BY <1>1, NatLessThanWellFounded, Zenon
<1>3. PICK n \in T : \A m \in T : <<m, n>> \notin R
  BY <1>2, WFMin
<1>4. ASSUME NEW m \in T PROVE n <= m
  <2>1. /\ n \in Nat /\ m \in Nat
        /\ <<m, n>> \notin R
    BY <1>3, <1>4
  <2>2. <<m, n>> \in R <=> m < n
    BY <2>1 DEF R
  <2> QED BY <2>1, <2>2
<1> QED BY <1>4

-----------------------------------------------------------------------------
(* Type correctness.                                                       *)

\* What a tree on disk lists.
LEMMA ListingType ==
    ASSUME disk \in [Paths -> Contents], NEW S \in SUBSET Paths
    PROVE  \A p \in Paths : p \in DOMAIN Listing(S) => Listing(S)[p] \in Files
  BY ContentsAssumption DEF Listing, Pending, Files, FileStatuses

\* A verdict is one of the five, whatever the ledger.
LEMMA VerdictType ==
    ASSUME NEW entries, NEW chain, NEW covered
    PROVE  RecommendedVerdict(entries, chain, covered) \in Verdicts
  BY DEF RecommendedVerdict, Verdicts

\* A trace is complete or it is not.
LEMMA TraceType ==
    ASSUME NEW graph PROVE TraceBehaviorGraph(graph).complete \in BOOLEAN
  BY DEF TraceBehaviorGraph

\* What is recorded was submitted: candidates.
LEMMA RecordedType ==
    ASSUME NEW S PROVE Recorded(S) \subseteq Candidates
  BY DEF Recorded

\* What maybeAdvanceAnalysisPrepared leaves when the index becomes ix.
LEMMA AdvanceType ==
    ASSUME TypeOK, NEW ix \in Indexes, Advance(ix)
    PROVE  /\ index' \in Indexes
           /\ plugins' \in PluginRuns \cup {None}
           /\ stage' \in Stages
           /\ stage' # stage => stage = "acquired" /\ stage' = "prepared"
<1>1. plugins' \in PluginRuns \cup {None}
  BY PluginsType DEF TypeOK, Advance
<1>2. stage' \in {stage, "prepared"} /\ (stage' # stage => stage = "acquired")
  BY DEF Advance, Prepared
<1> QED BY <1>1, <1>2 DEF Advance, TypeOK, Stages

\* The three ways to index a file leave an index; a read that fails or is cut leaves one
\* that is not complete.
LEMMA IndexingType ==
    ASSUME TypeOK, NEW p \in Paths, index.file[p] # None
    PROVE  /\ RecordIndexReadFailure(index, p) \in Indexes
           /\ RecordIndexedFile(index, p, CutReading(p)) \in Indexes
           /\ RecordIndexedFile(index, p, WholeReading(p)) \in Indexes
           /\ ~IndexComplete(RecordIndexReadFailure(index, p))
           /\ ~IndexComplete(RecordIndexedFile(index, p, CutReading(p)))
<1>1. index \in Indexes /\ disk[p] \in Contents
  BY DEF TypeOK
<1>2. index.file[p] \in Files
  BY <1>1 DEF Indexes
<1>3. CutReading(p) \in Readings /\ ~CutReading(p).whole
  BY <1>2 DEF CutReading, Readings, Files
<1>4. WholeReading(p) \in Readings
  BY <1>1, ContentsAssumption DEF WholeReading, Readings
<1> QED BY <1>1, <1>3, <1>4, ReadFailureType, IndexedFileType

\* Before the audit.
LEMMA InitType == Init => TypeOK
<1> SUFFICES ASSUME Init PROVE TypeOK
  OBVIOUS
<1>1. 0 \in 0..MaxFaults
  BY RolesAssumption
<1>2. index \in Indexes
  BY EmptyIndexType DEF Init
<1>3. ledger \in Ledgers
  BY DEF Init, Ledgers
<1> QED BY <1>1, <1>2, <1>3 DEF Init, TypeOK, Stages

\* The types after each handler, one lemma a handler.
LEMMA EditTypes ==
    ASSUME TypeOK, NEW p \in Paths, NEW c \in Contents, Edit(p, c)
    PROVE  TypeOK'
<1>1. disk' \in [Paths -> Contents] /\ faults' \in 0..MaxFaults
  BY RolesAssumption DEF Edit, Fault, TypeOK
<1> QED BY <1>1 DEF Edit, TypeOK, council, validation

\* recordIndexEnumeration.
LEMMA ListTypes ==
    ASSUME TypeOK, ListSource PROVE TypeOK'
<1>1. PICK ix \in Indexes : Advance(ix)
  <2>1. CASE index.enumerated \/ index.truncated
    BY <2>1 DEF ListSource, TypeOK
  <2>2. CASE ~(index.enumerated \/ index.truncated)
    <3>1. PICK S \in SUBSET Paths :
             Advance(RecordIndexEnumeration(index, Listing(S), S = Paths, S # Paths))
      BY <2>2 DEF ListSource
    <3>2. RecordIndexEnumeration(index, Listing(S), S = Paths, S # Paths) \in Indexes
      BY EnumerationType, ListingType DEF TypeOK
    <3> QED BY <3>1, <3>2
  <2> QED BY <2>1, <2>2
<1> QED BY <1>1, AdvanceType DEF ListSource, TypeOK, council, validation

\* indexSourceFile, in its three outcomes.
LEMMA IndexTypes ==
    ASSUME TypeOK, NEW p \in Paths, IndexFails(p) \/ IndexTooLarge(p) \/ IndexSourceFile(p)
    PROVE  TypeOK'
<1>1. CASE IndexFails(p)
  <2>1. faults' \in 0..MaxFaults
    BY <1>1, RolesAssumption DEF IndexFails, Fault, TypeOK
  <2>2. index' \in Indexes
    BY <1>1, IndexingType DEF IndexFails
  <2> QED BY <1>1, <2>1, <2>2 DEF IndexFails, TypeOK, council, validation
<1>2. CASE IndexTooLarge(p)
  <2>1. faults' \in 0..MaxFaults
    BY <1>2, RolesAssumption DEF IndexTooLarge, Fault, TypeOK
  <2>2. index' \in Indexes
    BY <1>2, IndexingType DEF IndexTooLarge
  <2> QED BY <1>2, <2>1, <2>2 DEF IndexTooLarge, TypeOK, council, validation
<1>3. CASE IndexSourceFile(p)
  <2>1. RecordIndexedFile(index, p, WholeReading(p)) \in Indexes
    BY <1>3, IndexingType DEF IndexSourceFile
  <2> QED BY <1>3, <2>1, AdvanceType DEF IndexSourceFile, TypeOK, council, validation
<1> QED BY <1>1, <1>2, <1>3

\* An entry as submitCandidates makes it.
LEMMA CandidateType ==
    ASSUME NEW c \in Candidates
    PROVE  [state |-> "candidate", severity |-> SeverityOf[c[1]]] \in Entries
  BY FindingsAssumption DEF Candidates, Entries, States

\* An entry keeps its severity when its state changes.
LEMMA QueueType ==
    ASSUME NEW entry \in Entries
    PROVE  [entry EXCEPT !.state = "validating"] \in Entries
  BY DEF Entries, States

\* submitCandidates.
LEMMA SubmitTypes ==
    ASSUME TypeOK, NEW r \in Roles, NEW batch \in SUBSET Candidates, SubmitCandidates(r, batch)
    PROVE  TypeOK'
<1>1. submissions' \in [Roles -> {None} \cup SUBSET Candidates]
  BY DEF SubmitCandidates, TypeOK
<1>2. ledger' \in Ledgers
  BY CandidateType DEF SubmitCandidates, TypeOK, Ledgers
<1> QED BY <1>1, <1>2 DEF SubmitCandidates, TypeOK, source, validation

\* finalizeScan.
LEMMA ScanTypes ==
    ASSUME TypeOK, FinalizeScan PROVE TypeOK'
  BY DEF FinalizeScan, TypeOK, Stages, Submitted, source, validation

\* traceAnalysisGraph.
LEMMA TraceTypes ==
    ASSUME TypeOK, TraceAnalysisGraph PROVE TypeOK'
<1>1. trace' \in Traces
  BY TraceType, RecordedType DEF TraceAnalysisGraph, CouncilTrace, Traces
<1>2. stage' \in Stages
  BY DEF TraceAnalysisGraph, TypeOK, Stages
<1> QED BY <1>1, <1>2 DEF TraceAnalysisGraph, TypeOK, source, council

\* prepareAnalysisValidation.
LEMMA PrepareTypes ==
    ASSUME TypeOK, PrepareAnalysisValidation PROVE TypeOK'
<1>1. required' \in SUBSET Candidates
  BY RecordedType DEF PrepareAnalysisValidation, Required
<1>2. ledger' \in Ledgers
  <2>1. ASSUME NEW c \in Candidates, c \in required' PROVE ledger[c] \in Entries
    BY <2>1 DEF PrepareAnalysisValidation, Required, Recorded, TypeOK, Ledgers
  <2> QED BY <2>1, QueueType DEF PrepareAnalysisValidation, TypeOK, Ledgers
<1> QED BY <1>1, <1>2 DEF PrepareAnalysisValidation, TypeOK, source

\* submitReview.
LEMMA ReviewTypes ==
    ASSUME TypeOK, NEW c \in Queue, NEW type \in Types, NEW v \in Reviewers,
           NEW says \in Conclusions(type), SubmitReview(c, type, v, says)
    PROVE  TypeOK'
<1>1. [by |-> v, says |-> says] \in Reviews
  BY DEF Reviews, Conclusions
<1>2. reviews' \in [Candidates \X Types -> Reviews \cup {None}]
  BY <1>1 DEF SubmitReview, TypeOK
<1> QED BY <1>2 DEF SubmitReview, TypeOK, source, council

\* adjudicate.
LEMMA AdjudicateTypes ==
    ASSUME TypeOK, NEW c \in Queue, NEW a \in Reviewers,
           NEW ruling \in {"validated", "refuted", "unresolved"}, NEW severity \in Severities,
           NEW chain \in BOOLEAN, Adjudicate(c, a, ruling, severity, chain)
    PROVE  TypeOK'
<1>1. [by |-> a, decision |-> ruling, chain |-> chain] \in Rulings
  BY DEF Rulings
<1>2. [state |-> ruling, severity |-> severity] \in Entries
  BY DEF Entries, States
<1>3. rulings' \in [Candidates -> Rulings \cup {None}]
  BY <1>1 DEF Adjudicate, TypeOK
<1>4. ledger' \in Ledgers
  BY <1>2 DEF Adjudicate, TypeOK, Ledgers
<1> QED BY <1>3, <1>4 DEF Adjudicate, TypeOK, source

\* finalizeValidation.
LEMMA DecisionTypes ==
    ASSUME TypeOK, FinalizeValidation PROVE TypeOK'
<1>1. CoverageNow \in Coverages
  BY DEF CoverageNow, Coverages, IndexComplete, PluginCoverage, TypeOK, Indexes, PluginRuns
<1>2. DecisionNow \in Decisions
  BY <1>1, VerdictType DEF DecisionNow, Decisions, TypeOK
<1>3. stage' \in Stages
  BY DEF FinalizeValidation, TypeOK, Stages
<1> QED BY <1>2, <1>3 DEF FinalizeValidation, TypeOK, source, council, validation

\* finalizeReport.
LEMMA ReportTypes ==
    ASSUME TypeOK, FinalizeReport PROVE TypeOK'
<1>1. TrustedVerdict => decision.verdict \in Verdicts
  BY DEF TrustedVerdict, TypeOK, Decisions
<1>2. report' \in Verdicts
  BY <1>1 DEF FinalizeReport, Verdicts
<1>3. stage' \in Stages
  BY DEF FinalizeReport, TypeOK, Stages
<1> QED BY <1>2, <1>3 DEF FinalizeReport, TypeOK, source, council, validation

\* What Next allows, one handler at a time.
LEMMA Steps ==
    ASSUME Next
    PROVE  \/ \E p \in Paths, c \in Contents : Edit(p, c)
           \/ ListSource
           \/ \E p \in Paths : IndexFails(p) \/ IndexTooLarge(p) \/ IndexSourceFile(p)
           \/ \E r \in Roles, batch \in SUBSET Candidates : SubmitCandidates(r, batch)
           \/ FinalizeScan
           \/ TraceAnalysisGraph
           \/ PrepareAnalysisValidation
           \/ \E c \in Queue, type \in Types, v \in Reviewers :
                 \E says \in Conclusions(type) : SubmitReview(c, type, v, says)
           \/ \E c \in Queue, a \in Reviewers, ruling \in {"validated", "refuted", "unresolved"},
                severity \in Severities, chain \in BOOLEAN :
                 Adjudicate(c, a, ruling, severity, chain)
           \/ FinalizeValidation
           \/ FinalizeReport
  BY DEF Next

\* Every step keeps the types.
LEMMA NextTypes ==
    ASSUME TypeOK, [Next]_vars PROVE TypeOK'
<1>1. CASE UNCHANGED vars
  BY <1>1 DEF vars, source, council, validation, TypeOK
<1> QED BY <1>1, Steps, EditTypes, ListTypes, IndexTypes, SubmitTypes, ScanTypes, TraceTypes,
           PrepareTypes, ReviewTypes, AdjudicateTypes, DecisionTypes, ReportTypes

-----------------------------------------------------------------------------
(* The inductive invariant.                                                *)

\* How far the audit is, by what is stored.
StageFollows ==
    /\ stage \in AfterScan <=> finalization # None
    /\ trace # None => finalization # None
    /\ required # None => TraceComplete /\ stage \in AfterTrace
    /\ decision # None => ValidationComplete

\* The ledger holds what the roles submitted, and is closed by the finalized scan.
ScanIsFrozen ==
    /\ Recorded(ledger) = UNION {submissions[r] : r \in Submitted}
    /\ finalization # None => finalization = Submitted
    /\ trace # None => trace.of = Recorded(ledger)

\* A candidate without a ruling is open, one with a ruling was reviewed before it.
Unruled(c) ==
    c \in Recorded(ledger) =>
        ledger[c].state = IF c \in Queue THEN "validating" ELSE "candidate"
Ruled(c) ==
    /\ c \in Queue
    /\ ThreeReviewed(c)
    /\ rulings[c].chain => rulings[c].decision = "validated"

\* Reviews are of queued candidates, say what their type may, and are of two reviewers.
Reviewed(c) ==
    /\ \A type \in Types : reviews[<<c, type>>] # None =>
         c \in Queue /\ reviews[<<c, type>>].says \in Conclusions(type)
    /\ (\A type \in Types : reviews[<<c, type>>] # None) =>
         reviews[<<c, "confirm">>].by # reviews[<<c, "refute">>].by

CandidatesOK ==
    \A c \in Candidates :
        /\ c \in Queue => c \in Recorded(ledger)
        /\ IF rulings[c] = None THEN Unruled(c) ELSE Ruled(c)
        /\ Reviewed(c)

\* The decision is about the ledger and the rulings as they are.
DecisionFollows ==
    decision # None =>
        /\ decision.findings = ledger
        /\ decision.verdict = RecommendedVerdict(ledger, OnChain, Covered(decision.coverage))

\* The plugins saw what the candidates cite.
PluginsSawCandidates ==
    \A c \in Recorded(ledger) :
        /\ plugins # None
        /\ plugins.complete => Cites(c, plugins.of)

IInv ==
    /\ TypeOK /\ StageFollows /\ ScanIsFrozen /\ CandidatesOK /\ DecisionFollows
    /\ PluginsSaw(index, plugins) /\ PluginsSawCandidates

\* The inductive invariant holds before the audit.
LEMMA InitInv == Init => IInv
<1> SUFFICES ASSUME Init PROVE IInv
  OBVIOUS
<1>1. TypeOK
  BY InitType
<1>2. Recorded(ledger) = {} /\ Queue = {} /\ Submitted = {}
  BY DEF Init, Recorded, Queue, Submitted
<1>3. StageFollows
  BY DEF Init, StageFollows, AfterScan, AfterTrace
<1>4. ScanIsFrozen
  <2>1. \A c : c \in Recorded(ledger) <=> \E r \in Submitted : c \in submissions[r]
    BY <1>2
  <2>2. finalization = None /\ trace = None
    BY DEF Init
  <2>3. Recorded(ledger) = UNION {submissions[r] : r \in Submitted}
    BY <2>1
  <2> QED BY <2>2, <2>3 DEF ScanIsFrozen
<1>5. CandidatesOK
  BY <1>2 DEF Init, CandidatesOK, Unruled, Reviewed, Types
<1>6. PluginsSaw(index, plugins)
  BY DEF Init, PluginsSaw, IndexComplete, EmptyIndex
<1> QED BY <1>1, <1>2, <1>3, <1>4, <1>5, <1>6 DEF IInv, Init, DecisionFollows, PluginsSawCandidates

\* What the audit has, apart from the source, does not change, and neither does its
\* stage, or it becomes "prepared".
LEMMA OnlySource ==
    ASSUME IInv, TypeOK', UNCHANGED <<council, validation, decision>>,
           stage' # stage => stage = "acquired" /\ stage' = "prepared"
    PROVE  StageFollows' /\ ScanIsFrozen' /\ CandidatesOK' /\ DecisionFollows'
<1> USE DEF IInv, council, validation
<1>1. Queue' = Queue /\ TraceComplete' = TraceComplete /\ OnChain' = OnChain
      /\ Submitted' = Submitted
  BY DEF Queue, TraceComplete, OnChain, Submitted
<1>2. StageFollows'
  BY <1>1 DEF StageFollows, AfterScan, AfterTrace, ValidationComplete
<1>3. ScanIsFrozen'
  BY <1>1 DEF ScanIsFrozen
<1>4. CandidatesOK'
  BY <1>1 DEF CandidatesOK, Unruled, Ruled, Reviewed, ThreeReviewed
<1>5. DecisionFollows'
  BY <1>1 DEF DecisionFollows
<1> QED BY <1>2, <1>3, <1>4, <1>5

\* The plugins' run is made, stands or is withdrawn.
LEMMA CandidatesStaySeen ==
    ASSUME IInv, TypeOK', UNCHANGED ledger,
           plugins # None => plugins' # None /\ plugins'.of = plugins.of
                             /\ (plugins'.complete => plugins.complete)
    PROVE  PluginsSawCandidates'
  BY DEF IInv, PluginsSawCandidates

\* The index, the plugins and the stage, after a call that indexes.
LEMMA AdvanceInv ==
    ASSUME IInv, TypeOK', NEW ix \in Indexes, Advance(ix),
           UNCHANGED <<council, validation, decision>>
    PROVE  IInv'
<1>1. index' = ix /\ plugins' = RunAnalysisPlugins(ix, plugins)
  BY DEF Advance
<1>2. plugins \in PluginRuns \cup {None}
  BY DEF IInv, TypeOK
<1>3. PluginsSaw(index', plugins')
  BY <1>1, <1>2, PluginsSeeIndex
<1>4. plugins # None => plugins' # None /\ plugins'.of = plugins.of
                        /\ (plugins'.complete => plugins.complete)
  BY <1>1, <1>2, PluginsKeep, NoneAssumption
<1>5. PluginsSawCandidates'
  BY <1>4, CandidatesStaySeen DEF council
<1>6. stage' # stage => stage = "acquired" /\ stage' = "prepared"
  BY AdvanceType DEF IInv
<1>7. StageFollows' /\ ScanIsFrozen' /\ CandidatesOK' /\ DecisionFollows'
  BY <1>6, OnlySource
<1> QED BY <1>3, <1>5, <1>7 DEF IInv

\* The inductive invariant after each handler.  An edit of the tree touches no ledger.
LEMMA EditInv ==
    ASSUME IInv, TypeOK', NEW p \in Paths, NEW c \in Contents, Edit(p, c)
    PROVE  IInv'
<1>1. PluginsSaw(index', plugins') /\ PluginsSawCandidates'
  BY CandidatesStaySeen DEF IInv, Edit, council
<1>2. StageFollows' /\ ScanIsFrozen' /\ CandidatesOK' /\ DecisionFollows'
  BY OnlySource DEF Edit
<1> QED BY <1>1, <1>2 DEF IInv

\* A listing goes through the index alone.
LEMMA ListInv ==
    ASSUME IInv, TypeOK', ListSource PROVE IInv'
<1>1. PICK ix \in Indexes : Advance(ix)
  <2>1. CASE index.enumerated \/ index.truncated
    BY <2>1 DEF ListSource, IInv, TypeOK
  <2>2. CASE ~(index.enumerated \/ index.truncated)
    BY <2>2, EnumerationType, ListingType DEF ListSource, IInv, TypeOK
  <2> QED BY <2>1, <2>2
<1> QED BY <1>1, AdvanceInv DEF ListSource

\* So does a file that is indexed, or fails to be.
LEMMA IndexInv ==
    ASSUME IInv, TypeOK', NEW p \in Paths, IndexFails(p) \/ IndexTooLarge(p) \/ IndexSourceFile(p)
    PROVE  IInv'
<1>1. CASE IndexFails(p) \/ IndexTooLarge(p)
  <2>1. ~IndexComplete(index')
    BY <1>1, IndexingType DEF IInv, IndexFails, IndexTooLarge
  <2>2. PluginsSaw(index', plugins')
    BY <2>1 DEF PluginsSaw
  <2>3. PluginsSawCandidates'
    BY <1>1, CandidatesStaySeen DEF IndexFails, IndexTooLarge, council
  <2>4. StageFollows' /\ ScanIsFrozen' /\ CandidatesOK' /\ DecisionFollows'
    BY <1>1, OnlySource DEF IndexFails, IndexTooLarge
  <2> QED BY <2>2, <2>3, <2>4 DEF IInv
<1>2. CASE IndexSourceFile(p)
  <2>1. RecordIndexedFile(index, p, WholeReading(p)) \in Indexes
    BY <1>2, IndexingType DEF IInv, IndexSourceFile
  <2> QED BY <1>2, <2>1, AdvanceInv DEF IndexSourceFile
<1> QED BY <1>1, <1>2

\* A submission adds candidates that are not ruled, of the stage that admits them.
LEMMA SubmitInv ==
    ASSUME IInv, TypeOK', NEW r \in Roles, NEW batch \in SUBSET Candidates,
           SubmitCandidates(r, batch)
    PROVE  IInv'
<1> USE DEF IInv
<1>1. /\ finalization = None /\ trace = None /\ required = None /\ decision = None
      /\ UNCHANGED <<source, stage, finalization, validation, decision>>
  BY DEF SubmitCandidates, StageFollows, TraceComplete, ValidationComplete
<1>2. Recorded(ledger)' = Recorded(ledger) \cup batch
  <2>1. ASSUME NEW c \in batch PROVE ledger'[c] # None
    BY <2>1, CandidateType, NoneEntryAssumption DEF SubmitCandidates
  <2>2. ASSUME NEW c \in Candidates, c \notin batch PROVE ledger'[c] = ledger[c]
    BY <2>2 DEF SubmitCandidates
  <2> QED BY <2>1, <2>2 DEF Recorded
<1>3. ScanIsFrozen'
  <2>1. batch # None /\ submissions \in [Roles -> {None} \cup SUBSET Candidates]
    BY NoneRecordAssumption DEF TypeOK
  <2>2. Submitted' = Submitted \cup {r} /\ r \notin Submitted
    BY <2>1 DEF SubmitCandidates, Submitted
  <2>3. \A q \in Submitted : submissions'[q] = submissions[q]
    BY <2>1, <2>2 DEF SubmitCandidates, Submitted
  <2>4. submissions'[r] = batch
    BY <2>1 DEF SubmitCandidates
  <2>5. ASSUME NEW c
        PROVE  (\E q \in Submitted' : c \in submissions'[q])
                 <=> (\E q \in Submitted : c \in submissions[q]) \/ c \in batch
    BY <2>2, <2>3, <2>4
  <2>6. \A c : c \in Recorded(ledger) <=> \E q \in Submitted : c \in submissions[q]
    BY DEF ScanIsFrozen
  <2>7. \A c : c \in Recorded(ledger)' <=> \E q \in Submitted' : c \in submissions'[q]
    BY <1>2, <2>5, <2>6
  <2>8. finalization' = None /\ trace' = None
    BY <1>1 DEF validation
  <2> QED BY <2>7, <2>8 DEF ScanIsFrozen
<1>4. CandidatesOK'
  <2>1. \A c \in Candidates : rulings[c] = None
    BY <1>1 DEF CandidatesOK, Ruled, Queue
  <2>2. \A c \in Candidates, type \in Types : reviews[<<c, type>>] = None
    BY <1>1 DEF CandidatesOK, Reviewed, Queue
  <2>3. ASSUME NEW c \in Recorded(ledger)' PROVE ledger'[c].state = "candidate"
    <3>1. CASE c \in batch
      BY <3>1 DEF SubmitCandidates
    <3>2. CASE c \notin batch
      BY <1>1, <1>2, <2>1, <2>3, <3>2 DEF SubmitCandidates, CandidatesOK, Unruled, Queue, Recorded
    <3> QED BY <3>1, <3>2
  <2> QED BY <1>1, <2>1, <2>2, <2>3 DEF CandidatesOK, Unruled, Reviewed, Queue, validation, Types
<1>5. PluginsSawCandidates'
  <2>1. PluginsSaw(index, plugins) /\ IndexComplete(index)
    BY DEF SubmitCandidates
  <2>2. ASSUME NEW c \in batch
        PROVE  /\ plugins # None
               /\ plugins.complete => Cites(c, plugins.of)
    BY <2>1 DEF SubmitCandidates, PluginsSaw, Cites, Indexed, Fingerprint
  <2> QED BY <1>1, <1>2, <2>2 DEF PluginsSawCandidates, source
<1>6. PluginsSaw(index', plugins')
  BY <1>1 DEF source
<1>7. StageFollows'
  BY <1>1 DEF StageFollows, validation
<1> QED BY <1>1, <1>3, <1>4, <1>5, <1>6, <1>7 DEF DecisionFollows

\* Nothing changes of the source, and the candidates recorded stay so.
LEMMA SourceStaysSeen ==
    ASSUME IInv, UNCHANGED source, Recorded(ledger)' = Recorded(ledger)
    PROVE  PluginsSaw(index', plugins') /\ PluginsSawCandidates'
  BY DEF IInv, PluginsSawCandidates, source

\* The end of the scan freezes what was submitted.
LEMMA ScanInv ==
    ASSUME IInv, TypeOK', FinalizeScan PROVE IInv'
<1>1. /\ UNCHANGED <<source, submissions, ledger, trace, required, reviews, rulings, decision>>
      /\ finalization' = Submitted /\ stage = "prepared" /\ stage' = "scanned"
  BY DEF FinalizeScan, validation
<1>2. finalization = None /\ trace = None /\ required = None /\ decision = None
  BY <1>1 DEF IInv, StageFollows, TraceComplete, ValidationComplete, AfterScan, AfterTrace
<1>3. Submitted # None /\ Submitted' = Submitted
  BY <1>1, NoneRecordAssumption DEF Submitted
<1>4. PluginsSaw(index', plugins') /\ PluginsSawCandidates'
  BY <1>1, SourceStaysSeen
<1>5. StageFollows'
  BY <1>1, <1>2, <1>3 DEF StageFollows, AfterScan
<1>6. ScanIsFrozen'
  BY <1>1, <1>2, <1>3 DEF IInv, ScanIsFrozen
<1>7. CandidatesOK'
  BY <1>1 DEF IInv, CandidatesOK, Unruled, Ruled, Reviewed, Queue, ThreeReviewed
<1> QED BY <1>1, <1>2, <1>4, <1>5, <1>6, <1>7 DEF IInv, DecisionFollows

\* A trace is drawn after the scan, and at most once.
LEMMA TraceInv ==
    ASSUME IInv, TypeOK', TraceAnalysisGraph PROVE IInv'
<1>1. /\ UNCHANGED <<source, submissions, finalization, ledger, required, reviews, rulings,
                     decision>>
      /\ trace = None /\ trace'.of = Recorded(ledger)
      /\ stage \in AfterScan /\ stage' \in {stage, "traced"}
  BY DEF TraceAnalysisGraph, council
<1>2. required = None /\ decision = None /\ finalization # None
  BY <1>1 DEF IInv, StageFollows, TraceComplete, ValidationComplete
<1>3. PluginsSaw(index', plugins') /\ PluginsSawCandidates'
  BY <1>1, SourceStaysSeen
<1>4. StageFollows'
  BY <1>1, <1>2 DEF StageFollows, AfterScan, AfterTrace
<1>5. ScanIsFrozen'
  BY <1>1, <1>2 DEF IInv, ScanIsFrozen, Submitted
<1>6. CandidatesOK'
  BY <1>1 DEF IInv, CandidatesOK, Unruled, Ruled, Reviewed, Queue, ThreeReviewed
<1> QED BY <1>1, <1>2, <1>3, <1>4, <1>5, <1>6 DEF IInv, DecisionFollows


\* The plan puts the candidates it requires in the queue, and no other.
LEMMA PrepareInv ==
    ASSUME IInv, TypeOK', PrepareAnalysisValidation PROVE IInv'
<1>1. /\ UNCHANGED <<source, stage, submissions, finalization, trace, reviews, rulings, decision>>
      /\ required = None /\ required' = Required(ledger)
      /\ stage \in AfterTrace /\ TraceComplete
  BY DEF PrepareAnalysisValidation
<1>2. Queue = {} /\ decision = None
  BY <1>1 DEF Queue, IInv, StageFollows, ValidationComplete
<1>3. required' # None /\ Queue' = Required(ledger) /\ Required(ledger) \subseteq Recorded(ledger)
  <2>1. Required(ledger) \in SUBSET Candidates
    BY RecordedType DEF Required
  <2> QED BY <1>1, <2>1, NoneRecordAssumption DEF Required, Queue
<1>4. ASSUME NEW c \in Candidates
      PROVE  /\ c \in Required(ledger) =>
                    ledger'[c] # None /\ ledger'[c].state = "validating"
             /\ c \notin Required(ledger) => ledger'[c] = ledger[c]
  <2>1. c \in Required(ledger) => ledger[c] \in Entries
    BY DEF IInv, Required, Recorded, TypeOK, Ledgers
  <2>2. ASSUME ledger[c] \in Entries
        PROVE  /\ [ledger[c] EXCEPT !.state = "validating"] # None
               /\ [ledger[c] EXCEPT !.state = "validating"].state = "validating"
    BY <2>2, QueueType, NoneEntryAssumption DEF Entries
  <2> QED BY <1>1, <2>1, <2>2 DEF PrepareAnalysisValidation
<1>5. Recorded(ledger)' = Recorded(ledger)
  BY <1>4 DEF Recorded, Required
<1>6. PluginsSaw(index', plugins') /\ PluginsSawCandidates'
  BY <1>1, <1>5, SourceStaysSeen
<1>7. StageFollows'
  BY <1>1, <1>2 DEF IInv, StageFollows, TraceComplete
<1>8. ScanIsFrozen'
  BY <1>1, <1>5 DEF IInv, ScanIsFrozen, Submitted
<1>9. CandidatesOK'
  <2> SUFFICES ASSUME NEW c \in Candidates
               PROVE  /\ c \in Queue' => c \in Recorded(ledger)'
                      /\ rulings'[c] = None /\ Unruled(c)'
                      /\ \A type \in Types : reviews'[<<c, type>>] = None
    BY DEF CandidatesOK, Reviewed, Types
  <2>1. rulings[c] = None /\ \A type \in Types : reviews[<<c, type>>] = None
    BY <1>2 DEF IInv, CandidatesOK, Reviewed, Ruled
  <2>2. c \in Recorded(ledger) => ledger[c].state = "candidate"
    BY <1>2, <2>1 DEF IInv, CandidatesOK, Unruled
  <2>3. Unruled(c)'
    BY <1>3, <1>4, <1>5, <2>2 DEF Unruled
  <2> QED BY <1>1, <1>3, <1>5, <2>1, <2>3
<1> QED BY <1>1, <1>2, <1>6, <1>7, <1>8, <1>9 DEF IInv, DecisionFollows

\* The queue holds candidates of the ledger, once there is a plan and a trace.
LEMMA QueueIsRecorded ==
    ASSUME IInv, NEW c \in Queue
    PROVE  c \in Candidates /\ c \in Recorded(ledger) /\ required # None /\ trace # None
<1>1. c \in Candidates /\ required # None
  BY DEF Queue, IInv, TypeOK
<1> QED BY <1>1 DEF IInv, CandidatesOK, StageFollows, TraceComplete

\* A review changes the slot of its candidate and nothing that was ruled.
LEMMA ReviewInv ==
    ASSUME IInv, TypeOK', NEW c \in Queue, NEW type \in Types, NEW v \in Reviewers,
           NEW says \in Conclusions(type), SubmitReview(c, type, v, says)
    PROVE  IInv'
<1>1. /\ UNCHANGED <<source, stage, council, trace, required, rulings, decision>>
      /\ reviews[<<c, type>>] = None
      /\ reviews' = [reviews EXCEPT ![<<c, type>>] = [by |-> v, says |-> says]]
      /\ reviews[<<c, Opposite(type)>>] # None => reviews[<<c, Opposite(type)>>].by # v
  BY DEF SubmitReview
<1>2. /\ Queue' = Queue /\ Recorded(ledger)' = Recorded(ledger) /\ OnChain' = OnChain
      /\ Submitted' = Submitted /\ TraceComplete' = TraceComplete
  BY <1>1 DEF Queue, OnChain, Submitted, TraceComplete, council
<1>3. PluginsSaw(index', plugins') /\ PluginsSawCandidates'
  BY <1>1, <1>2, SourceStaysSeen
<1>4. StageFollows'
  BY <1>1, <1>2 DEF IInv, StageFollows, ValidationComplete, council
<1>5. ScanIsFrozen'
  BY <1>1, <1>2 DEF IInv, ScanIsFrozen, council
<1>6. c \in Candidates
  BY QueueIsRecorded
<1>7. ASSUME NEW d \in Candidates, NEW t \in Types, <<d, t>> # <<c, type>>
      PROVE  reviews'[<<d, t>>] = reviews[<<d, t>>]
  BY <1>1, <1>7 DEF IInv, TypeOK
<1>8. reviews'[<<c, type>>] = [by |-> v, says |-> says]
  BY <1>1, <1>6 DEF IInv, TypeOK
<1>9. rulings[c] = None
  BY <1>1, <1>6 DEF IInv, CandidatesOK, Ruled, ThreeReviewed
<1>10. ASSUME NEW d \in Candidates, d # c
       PROVE  /\ d \in Queue' => d \in Recorded(ledger)'
              /\ IF rulings'[d] = None THEN Unruled(d)' ELSE Ruled(d)'
              /\ Reviewed(d)'
  <2>1. \A t \in Types : reviews'[<<d, t>>] = reviews[<<d, t>>]
    BY <1>7, <1>10
  <2>2. "confirm" \in Types /\ "refute" \in Types
    BY DEF Types
  <2>3. reviews'[<<d, "confirm">>] = reviews[<<d, "confirm">>]
        /\ reviews'[<<d, "refute">>] = reviews[<<d, "refute">>]
    BY <2>1, <2>2
  <2>4. ledger' = ledger /\ rulings' = rulings
    BY <1>1 DEF council
  <2> QED BY <1>2, <2>1, <2>3, <2>4
          DEF IInv, CandidatesOK, Unruled, Ruled, Reviewed, ThreeReviewed
<1>11. Unruled(c)'
  BY <1>1, <1>2, <1>6, <1>9 DEF IInv, CandidatesOK, Unruled, council
<1>12. Reviewed(c)'
  <2>1. Opposite(type) \in Types /\ Opposite(type) # type
        /\ Types = {type, Opposite(type)} /\ {"confirm", "refute"} = {type, Opposite(type)}
    BY DEF Types, Opposite
  <2>2. reviews'[<<c, Opposite(type)>>] = reviews[<<c, Opposite(type)>>]
    BY <1>6, <1>7, <2>1
  <2>3. reviews'[<<c, Opposite(type)>>] # None =>
          reviews'[<<c, Opposite(type)>>].says \in Conclusions(Opposite(type))
    BY <1>6, <2>1, <2>2 DEF IInv, CandidatesOK, Reviewed
  <2>4. \A t \in Types : reviews'[<<c, t>>] # None =>
           c \in Queue' /\ reviews'[<<c, t>>].says \in Conclusions(t)
    BY <1>2, <1>8, <2>1, <2>3
  <2>5. reviews'[<<c, Opposite(type)>>] # None =>
          reviews'[<<c, Opposite(type)>>].by # reviews'[<<c, type>>].by
    BY <1>1, <1>8, <2>2
  <2>6. (\A t \in Types : reviews'[<<c, t>>] # None) =>
          reviews'[<<c, "confirm">>].by # reviews'[<<c, "refute">>].by
    BY <2>1, <2>5 DEF Types
  <2> QED BY <2>4, <2>6 DEF Reviewed
<1>13. CandidatesOK'
  BY <1>1, <1>2, <1>6, <1>9, <1>10, <1>11, <1>12, QueueIsRecorded DEF CandidatesOK
<1>14. DecisionFollows'
  BY <1>1, <1>2 DEF IInv, DecisionFollows, council
<1> QED BY <1>3, <1>4, <1>5, <1>13, <1>14 DEF IInv

\* What two opposite reviews permit is what one of them says.
LEMMA PermittedFollows ==
    ASSUME NEW confirm, NEW refute
    PROVE  /\ Permitted(confirm, refute) = "validated" => confirm = "confirmed"
           /\ Permitted(confirm, refute) = "refuted" => refute = "refuted"
  BY DEF Permitted

\* A candidate is ruled upon once, before the decision.
LEMMA AdjudicateOnce ==
    ASSUME IInv, NEW c \in Queue, ledger[c].state = "validating"
    PROVE  rulings[c] = None /\ decision = None /\ c \in Candidates
<1>1. c \in Candidates
  BY QueueIsRecorded
<1>2. rulings[c] = None
  <2>1. rulings[c] # None => rulings[c].decision \in {"validated", "refuted", "unresolved"}
    BY <1>1 DEF IInv, TypeOK, Rulings
  <2> QED BY <1>1, <2>1 DEF IInv, CandidatesOK, Ruled, ThreeReviewed
<1> QED BY <1>1, <1>2 DEF IInv, StageFollows, ValidationComplete

\* A ruling is the first of its candidate, of another agent than its reviewers.
LEMMA AdjudicateInv ==
    ASSUME IInv, TypeOK', NEW c \in Queue, NEW a \in Reviewers,
           NEW ruling \in {"validated", "refuted", "unresolved"}, NEW severity \in Severities,
           NEW chain \in BOOLEAN, Adjudicate(c, a, ruling, severity, chain)
    PROVE  IInv'
<1>1. /\ UNCHANGED <<source, stage, submissions, finalization, trace, required, reviews, decision>>
      /\ ledger[c].state = "validating"
      /\ ledger' = [ledger EXCEPT ![c] = [state |-> ruling, severity |-> severity]]
      /\ rulings' = [rulings EXCEPT ![c] = [by |-> a, decision |-> ruling, chain |-> chain]]
      /\ chain => ruling = "validated"
      /\ \A type \in Types : reviews[<<c, type>>] # None /\ reviews[<<c, type>>].by # a
  BY DEF Adjudicate
<1>2. rulings[c] = None /\ decision = None /\ c \in Candidates
  BY <1>1, AdjudicateOnce
<1>3. /\ ledger \in Ledgers /\ rulings \in [Candidates -> Rulings \cup {None}]
  BY DEF IInv, TypeOK
<1>4. /\ ledger'[c] = [state |-> ruling, severity |-> severity]
      /\ rulings'[c] = [by |-> a, decision |-> ruling, chain |-> chain]
      /\ \A d \in Candidates : d # c => ledger'[d] = ledger[d] /\ rulings'[d] = rulings[d]
  BY <1>1, <1>2, <1>3 DEF Ledgers
<1>5. ledger'[c] # None /\ rulings'[c] # None
  <2>1. ledger'[c] \in Entries /\ rulings'[c] \in Rulings
    BY <1>4 DEF Entries, States, Rulings
  <2> QED BY <2>1, NoneEntryAssumption, NoneRecordAssumption
<1>6. Recorded(ledger)' = Recorded(ledger) /\ Queue' = Queue /\ Submitted' = Submitted
      /\ TraceComplete' = TraceComplete
  <2>1. c \in Recorded(ledger)
    BY QueueIsRecorded
  <2> QED BY <1>1, <1>4, <1>5, <2>1 DEF Recorded, Queue, Submitted, TraceComplete
<1>7. PluginsSaw(index', plugins') /\ PluginsSawCandidates'
  BY <1>1, <1>6, SourceStaysSeen
<1>8. StageFollows'
  BY <1>1, <1>2, <1>6 DEF IInv, StageFollows
<1>9. ScanIsFrozen'
  BY <1>1, <1>6 DEF IInv, ScanIsFrozen
<1>10. ThreeReviewed(c)'
  <2>1. /\ ruling = "validated" => reviews[<<c, "confirm">>].says = "confirmed"
        /\ ruling = "refuted" => reviews[<<c, "refute">>].says = "refuted"
    BY PermittedFollows DEF Adjudicate
  <2>2. reviews[<<c, "confirm">>].by # reviews[<<c, "refute">>].by
    BY <1>1, <1>2 DEF IInv, CandidatesOK, Reviewed
  <2> QED BY <1>1, <1>4, <1>5, <2>1, <2>2 DEF ThreeReviewed
<1>11. ASSUME NEW d \in Candidates
       PROVE  /\ d \in Queue' => d \in Recorded(ledger)'
              /\ IF rulings'[d] = None THEN Unruled(d)' ELSE Ruled(d)'
              /\ Reviewed(d)'
  <2>1. CASE d = c
    <3>1. Ruled(c)'
      BY <1>1, <1>4, <1>6, <1>10 DEF Ruled
    <3>2. Reviewed(c)'
      BY <1>1, <1>2, <1>6 DEF IInv, CandidatesOK, Reviewed
    <3> QED BY <1>5, <1>6, <2>1, <3>1, <3>2, QueueIsRecorded
  <2>2. CASE d # c
    BY <1>1, <1>4, <1>6, <2>2 DEF IInv, CandidatesOK, Unruled, Ruled, Reviewed, ThreeReviewed
  <2> QED BY <2>1, <2>2
<1>12. CandidatesOK'
  BY <1>11 DEF CandidatesOK
<1>13. DecisionFollows'
  BY <1>1, <1>2 DEF DecisionFollows
<1> QED BY <1>7, <1>8, <1>9, <1>12, <1>13 DEF IInv

\* The decision is made of the ledger as it is.
LEMMA DecisionInv ==
    ASSUME IInv, TypeOK', FinalizeValidation PROVE IInv'
<1>1. /\ UNCHANGED <<source, council, validation>> /\ ValidationComplete
      /\ decision' = DecisionNow /\ stage' \in {stage, "validated"}
  BY DEF FinalizeValidation
<1>2. stage \in AfterTrace
  BY <1>1 DEF IInv, StageFollows, ValidationComplete
<1>3. /\ Queue' = Queue /\ Recorded(ledger)' = Recorded(ledger) /\ OnChain' = OnChain
      /\ Submitted' = Submitted /\ TraceComplete' = TraceComplete
      /\ ValidationComplete' = ValidationComplete
  BY <1>1 DEF Queue, OnChain, Submitted, TraceComplete, ValidationComplete, council, validation
<1>4. PluginsSaw(index', plugins') /\ PluginsSawCandidates'
  BY <1>1, <1>3, SourceStaysSeen
<1>5. StageFollows'
  BY <1>1, <1>2, <1>3 DEF IInv, StageFollows, AfterScan, AfterTrace, council, validation
<1>6. ScanIsFrozen'
  BY <1>1, <1>3 DEF IInv, ScanIsFrozen, council, validation
<1>7. CandidatesOK'
  BY <1>1, <1>3
     DEF IInv, CandidatesOK, Unruled, Ruled, Reviewed, ThreeReviewed, council, validation
<1>8. DecisionFollows'
  <2>1. ledger' = ledger
    BY <1>1 DEF council
  <2> QED BY <1>1, <1>3, <2>1 DEF DecisionFollows, DecisionNow
<1> QED BY <1>4, <1>5, <1>6, <1>7, <1>8 DEF IInv

\* A report changes no ledger.
LEMMA ReportInv ==
    ASSUME IInv, TypeOK', FinalizeReport PROVE IInv'
<1>1. /\ UNCHANGED <<source, council, validation, decision>>
      /\ stage' # stage => stage = "validated" /\ stage' = "finalized"
  <2>1. TrustedVerdict => stage = "validated"
    BY DEF TrustedVerdict
  <2> QED BY <2>1 DEF FinalizeReport
<1>2. /\ Queue' = Queue /\ Recorded(ledger)' = Recorded(ledger) /\ OnChain' = OnChain
      /\ Submitted' = Submitted /\ TraceComplete' = TraceComplete
      /\ ValidationComplete' = ValidationComplete
  BY <1>1 DEF Queue, OnChain, Submitted, TraceComplete, ValidationComplete, council, validation
<1>3. PluginsSaw(index', plugins') /\ PluginsSawCandidates'
  BY <1>1, <1>2, SourceStaysSeen
<1>4. StageFollows'
  BY <1>1, <1>2 DEF IInv, StageFollows, AfterScan, AfterTrace, council, validation
<1>5. ScanIsFrozen'
  BY <1>1, <1>2 DEF IInv, ScanIsFrozen, council, validation
<1>6. CandidatesOK'
  BY <1>1, <1>2
     DEF IInv, CandidatesOK, Unruled, Ruled, Reviewed, ThreeReviewed, council, validation
<1>7. DecisionFollows'
  BY <1>1, <1>2 DEF IInv, DecisionFollows, council
<1> QED BY <1>3, <1>4, <1>5, <1>6, <1>7 DEF IInv

\* Every step keeps the inductive invariant.
LEMMA NextInv ==
    ASSUME IInv, [Next]_vars PROVE IInv'
<1>1. TypeOK'
  BY NextTypes DEF IInv
<1>2. CASE UNCHANGED vars
  <2>1. UNCHANGED <<source, council, validation, decision, stage>>
    BY <1>2 DEF vars
  <2>2. StageFollows' /\ ScanIsFrozen' /\ CandidatesOK' /\ DecisionFollows'
    BY <1>1, <2>1, OnlySource
  <2> QED BY <1>1, <2>1, <2>2, SourceStaysSeen DEF IInv, council
<1> QED BY <1>1, <1>2, Steps, EditInv, ListInv, IndexInv, SubmitInv, ScanInv, TraceInv, PrepareInv,
           ReviewInv, AdjudicateInv, DecisionInv, ReportInv

\* The inductive invariant holds in every audit: the ledgers of a stage are there once it
\* is passed and frozen from then on.
THEOREM Invariance == Spec => []IInv
  BY InitInv, NextInv, PTL DEF Spec

-----------------------------------------------------------------------------
(* What a verdict says of the ledger.                                      *)

\* Every recorded candidate is in a group, of its own class.
LEMMA ClassOfGroup ==
    ASSUME NEW entries, NEW c \in Recorded(entries)
    PROVE  /\ GroupOf(entries, c) \in Groups(entries)
           /\ c \in GroupOf(entries, c)
           /\ GroupOf(entries, c) \subseteq Recorded(entries)
           /\ ClassOf(entries, GroupOf(entries, c)) = StateClass(entries[c])
<1> DEFINE g == GroupOf(entries, c)
           d == CHOOSE x \in g : TRUE
<1>1. c \in g
  BY DEF GroupOf
<1>2. d \in g
  BY <1>1
<1>3. StateClass(entries[d]) = StateClass(entries[c])
  BY <1>2 DEF GroupOf
<1> QED BY <1>1, <1>3 DEF ClassOf, Groups, GroupOf

\* The classes a verdict tells apart.
LEMMA StateClasses ==
    ASSUME NEW entry
    PROVE  /\ StateClass(entry) = "validated" => entry.state = "validated"
           /\ StateClass(entry) = "refuted" <=> entry.state = "refuted"
           /\ entry.state = "validated" => StateClass(entry) = "validated"
  BY DEF StateClass

\* A verdict other than "incomplete" settles every candidate; it is "clean" when all
\* are refuted, and a severity when one of them stands.
LEMMA VerdictSettles ==
    ASSUME NEW entries, NEW chain, NEW covered,
           RecommendedVerdict(entries, chain, covered) # "incomplete"
    PROVE  /\ covered
           /\ \A c \in Recorded(entries) : entries[c].state \in {"validated", "refuted"}
           /\ RecommendedVerdict(entries, chain, covered) = "clean"
                <=> \A c \in Recorded(entries) : entries[c].state = "refuted"
           /\ RecommendedVerdict(entries, chain, covered) # "clean"
                => \E c \in Recorded(entries) : entries[c].state = "validated"
<1>1. covered
  BY DEF RecommendedVerdict
<1>2. \A g \in Active(entries) : ClassOf(entries, g) = "validated"
  BY <1>1 DEF RecommendedVerdict, Trusted
<1>3. ASSUME NEW c \in Recorded(entries)
      PROVE  /\ entries[c].state \in {"validated", "refuted"}
             /\ entries[c].state # "refuted" => GroupOf(entries, c) \in Active(entries)
  <2>1. /\ GroupOf(entries, c) \in Groups(entries)
        /\ ClassOf(entries, GroupOf(entries, c)) = StateClass(entries[c])
    BY ClassOfGroup
  <2>2. StateClass(entries[c]) # "refuted" => GroupOf(entries, c) \in Active(entries)
    BY <2>1 DEF Active
  <2>3. StateClass(entries[c]) \in {"validated", "refuted"}
    BY <1>2, <2>1, <2>2
  <2> QED BY <2>2, <2>3, StateClasses
<1>4. ASSUME NEW g \in Active(entries)
      PROVE  \E c \in Recorded(entries) : entries[c].state = "validated"
  <2>1. PICK c \in Recorded(entries) : g = GroupOf(entries, c)
    BY DEF Active, Groups
  <2>2. StateClass(entries[c]) = "validated"
    BY <1>2, <2>1, ClassOfGroup
  <2> QED BY <2>2, StateClasses
<1>5. RecommendedVerdict(entries, chain, covered) = "clean" <=> Active(entries) = {}
  BY <1>1 DEF RecommendedVerdict
<1>6. Active(entries) = {} => \A c \in Recorded(entries) : entries[c].state = "refuted"
  BY <1>3
<1>7. Active(entries) # {} => \E c \in Recorded(entries) : entries[c].state = "validated"
  BY <1>4
<1>8. (\E c \in Recorded(entries) : entries[c].state = "validated")
        => ~\A c \in Recorded(entries) : entries[c].state = "refuted"
  OBVIOUS
<1> QED BY <1>1, <1>3, <1>5, <1>6, <1>7, <1>8

\* A settled candidate was ruled upon, by reviewers as it should be.
LEMMA SettledIsReviewed ==
    ASSUME IInv, NEW c \in Recorded(ledger), ledger[c].state \in {"validated", "refuted"}
    PROVE  rulings[c] # None /\ ThreeReviewed(c)
<1>1. c \in Candidates
  BY DEF Recorded
<1> QED BY <1>1 DEF IInv, CandidatesOK, Unruled, Ruled

-----------------------------------------------------------------------------
(* Theorems.                                                               *)

\* Every variable keeps its type.
THEOREM TypeCorrect == Spec => []TypeOK
<1>1. IInv => TypeOK
  BY DEF IInv
<1> QED BY <1>1, Invariance, PTL

\* A verdict is earned: every candidate was settled by three different reviewers, and
\* the verdict is "clean" exactly when all are refuted.
THEOREM DecisionIsEarned == Spec => []DecisionEarned
<1>1. IInv => DecisionEarned
  <2> SUFFICES ASSUME IInv, decision # None, decision.verdict # "incomplete"
               PROVE  /\ \A c \in Recorded(ledger) :
                            ledger[c].state \in {"validated", "refuted"} /\ ThreeReviewed(c)
                      /\ decision.verdict = "clean" <=>
                            \A c \in Recorded(ledger) : ledger[c].state = "refuted"
    BY DEF DecisionEarned
  <2>1. decision.verdict = RecommendedVerdict(ledger, OnChain, Covered(decision.coverage))
    BY DEF IInv, DecisionFollows
  <2> QED BY <2>1, VerdictSettles, SettledIsReviewed
<1> QED BY <1>1, Invariance, PTL

\* Candidates cite what the index holds, when it is complete and the plugins cover it.
LEMMA CoveredCites ==
    ASSUME IInv, Covered(CoverageNow), NEW c \in Recorded(ledger)
    PROVE  Cites(c, index)
<1>1. IndexComplete(index) /\ plugins # None /\ plugins.complete
  BY DEF Covered, CoverageNow, PluginCoverage
<1>2. plugins.of = Fingerprint(index)
  BY <1>1 DEF IInv, PluginsSaw
<1> QED BY <1>1, <1>2 DEF IInv, PluginsSawCandidates, Cites, Indexed, Fingerprint

\* A verdict, when it is decided and when it is reported, is about the bytes in the
\* index, whatever was edited, cut or read again since the candidates were submitted.
THEOREM VerdictIsIndexed == Spec => VerdictOnIndexedSource
<1> DEFINE Step == \/ decision' # decision /\ decision'.verdict # "incomplete"
                   \/ report' # report /\ report' # "incomplete"
                   => \A c \in Recorded(ledger) : Cites(c, index)
<1>1. ASSUME IInv, Next PROVE Step
  <2>1. CASE FinalizeValidation
    <3>1. report' = report /\ decision' = DecisionNow
      BY <2>1 DEF FinalizeValidation
    <3>2. DecisionNow.verdict # "incomplete" => Covered(CoverageNow)
      BY VerdictSettles DEF DecisionNow
    <3> QED BY <1>1, <3>1, <3>2, CoveredCites
  <2>2. CASE FinalizeReport
    <3>1. decision' = decision /\ (report' # "incomplete" => TrustedVerdict)
      BY <2>2 DEF FinalizeReport
    <3>2. TrustedVerdict => Covered(CoverageNow)
      BY DEF TrustedVerdict, LiveCoverage
    <3> QED BY <1>1, <3>1, <3>2, CoveredCites
  <2>3. CASE UNCHANGED <<decision, report>>
    BY <2>3
  <2>4. ASSUME NEW p \in Paths, NEW c \in Contents, Edit(p, c)
        PROVE  UNCHANGED <<decision, report>>
    BY <2>4 DEF Edit
  <2>5. CASE ListSource
    BY <2>5 DEF ListSource
  <2>6. ASSUME NEW p \in Paths, IndexFails(p) \/ IndexTooLarge(p) \/ IndexSourceFile(p)
        PROVE  UNCHANGED <<decision, report>>
    BY <2>6 DEF IndexFails, IndexTooLarge, IndexSourceFile
  <2>7. ASSUME NEW r \in Roles, NEW batch, SubmitCandidates(r, batch)
        PROVE  UNCHANGED <<decision, report>>
    BY <2>7 DEF SubmitCandidates
  <2>8. CASE FinalizeScan \/ TraceAnalysisGraph \/ PrepareAnalysisValidation
    BY <2>8 DEF FinalizeScan, TraceAnalysisGraph, PrepareAnalysisValidation
  <2>9. ASSUME NEW c, NEW type, NEW v, NEW says, SubmitReview(c, type, v, says)
        PROVE  UNCHANGED <<decision, report>>
    BY <2>9 DEF SubmitReview
  <2>10. ASSUME NEW c, NEW a, NEW ruling, NEW severity, NEW chain,
                Adjudicate(c, a, ruling, severity, chain)
         PROVE  UNCHANGED <<decision, report>>
    BY <2>10 DEF Adjudicate
  <2>11. Step \/ UNCHANGED <<decision, report>>
    <3> HIDE DEF Step
    <3> QED BY <1>1, <2>1, <2>2, <2>4, <2>5, <2>6, <2>7, <2>8, <2>9, <2>10, Zenon DEF Next
  <2> QED BY <2>3, <2>11
<1>2. ASSUME UNCHANGED vars PROVE Step
  BY <1>2 DEF vars
<1>3. IInv /\ [Next]_vars => [Step]_vars
  BY <1>1, <1>2
<1> QED BY <1>3, Invariance, PTL DEF Spec, VerdictOnIndexedSource

\* The decision never changes, nor the ledger it was taken on; the report states its
\* verdict only at the end of a complete pipeline.
THEOREM DecisionStandsFirm == Spec => DecisionStands
<1> DEFINE Step == /\ decision # None => decision' = decision /\ ledger' = ledger
                   /\ report # None => report' = report
                   /\ report' # report /\ report' # "incomplete" =>
                        /\ report' = decision.verdict
                        /\ stage = "validated" /\ stage' = "finalized"
<1>1. ASSUME IInv, Next PROVE Step
  <2>1. decision # None => finalization # None /\ required # None
    BY <1>1 DEF IInv, StageFollows, ValidationComplete, TraceComplete
  <2>2. ASSUME NEW r \in Roles, NEW batch \in SUBSET Candidates, SubmitCandidates(r, batch)
        PROVE  Step
    BY <2>1, <2>2 DEF SubmitCandidates
  <2>3. CASE PrepareAnalysisValidation
    BY <2>1, <2>3 DEF PrepareAnalysisValidation
  <2>4. ASSUME NEW c \in Queue, NEW a, NEW ruling, NEW severity, NEW chain,
               Adjudicate(c, a, ruling, severity, chain)
        PROVE  Step
    <3>1. decision = None
      BY <1>1, <2>4, AdjudicateOnce DEF Adjudicate
    <3> QED BY <2>4, <3>1 DEF Adjudicate
  <2>5. CASE FinalizeValidation
    BY <2>5 DEF FinalizeValidation, council
  <2>6. CASE FinalizeReport
    <3>1. report = None /\ decision' = decision /\ ledger' = ledger
      BY <2>6 DEF FinalizeReport, council
    <3>2. TrustedVerdict => stage = "validated"
      BY DEF TrustedVerdict
    <3>3. report' # "incomplete" => report' = decision.verdict /\ stage = "validated"
                                    /\ stage' = "finalized"
      BY <2>6, <3>2 DEF FinalizeReport
    <3> QED BY <3>1, <3>3
  <2>7. ASSUME \/ \E p \in Paths, c \in Contents : Edit(p, c)
               \/ ListSource
               \/ \E p \in Paths : IndexFails(p) \/ IndexTooLarge(p) \/ IndexSourceFile(p)
        PROVE  Step
    BY <2>7 DEF Edit, ListSource, IndexFails, IndexTooLarge, IndexSourceFile, council
  <2>8. ASSUME \/ FinalizeScan
               \/ TraceAnalysisGraph
               \/ \E c \in Queue, type \in Types, v \in Reviewers :
                    \E says \in Conclusions(type) : SubmitReview(c, type, v, says)
        PROVE  Step
    BY <2>8 DEF FinalizeScan, TraceAnalysisGraph, SubmitReview, council
  <2> HIDE DEF Step
  <2> QED BY <1>1, <2>2, <2>3, <2>4, <2>5, <2>6, <2>7, <2>8, Zenon DEF Next
<1>2. ASSUME UNCHANGED vars PROVE Step
  BY <1>2 DEF vars, council
<1>3. IInv /\ [Next]_vars => [Step]_vars
  BY <1>1, <1>2
<1> QED BY <1>3, Invariance, PTL DEF Spec, DecisionStands

-----------------------------------------------------------------------------
(* The audit implements AuditVerdict.                                      *)

RulingOf == [c \in Candidates |-> IF rulings[c] = None THEN None ELSE rulings[c].decision]
VerdictOf == IF decision = None THEN None ELSE decision.verdict

\* A step that leaves the ledger and the decision alone is a stutter of the promise.
LEMMA NothingPromised ==
    ASSUME UNCHANGED <<ledger, finalization, rulings, decision, report>>
    PROVE  UNCHANGED Promise!vars
  BY DEF Promise!vars, Recorded

\* Rulings of the ledger support the verdict that is decided.
LEMMA VerdictIsSupported ==
    ASSUME IInv PROVE Promise!Supports(DecisionNow.verdict)
<1> DEFINE verdict == RecommendedVerdict(ledger, OnChain, Covered(CoverageNow))
<1>1. verdict \in Verdicts /\ DecisionNow.verdict = verdict
  BY VerdictType DEF DecisionNow
<1>2. CASE verdict = "incomplete"
  BY <1>1, <1>2 DEF Promise!Supports
<1>3. CASE verdict # "incomplete"
  <2>1. ASSUME NEW c \in Recorded(ledger)
        PROVE  c \in Candidates /\ RulingOf[c] = ledger[c].state
               /\ ledger[c].state \in {"validated", "refuted"}
    <3>1. c \in Candidates
      BY DEF Recorded
    <3>2. ledger[c].state \in {"validated", "refuted"}
      BY <1>3, VerdictSettles
    <3>3. rulings[c] # None /\ ThreeReviewed(c)
      BY <3>2, SettledIsReviewed
    <3> QED BY <3>1, <3>2, <3>3 DEF RulingOf, ThreeReviewed
  <2>2. verdict = "clean" => \A c \in Recorded(ledger) : RulingOf[c] = "refuted"
    BY <1>3, <2>1, VerdictSettles
  <2>3. verdict # "clean" => \E c \in Recorded(ledger) : RulingOf[c] = "validated"
    BY <1>3, <2>1, VerdictSettles
  <2>4. verdict \in {"clean", "minor", "severe"}
    BY <1>1, <1>3 DEF Verdicts
  <2> HIDE DEF verdict
  <2> QED BY <1>1, <2>1, <2>2, <2>3, <2>4 DEF Promise!Supports, RulingOf
<1> QED BY <1>2, <1>3

\* No promise is made before the audit.
LEMMA PromiseInit == Init => Promise!Init
<1> SUFFICES ASSUME Init PROVE Promise!Init
  OBVIOUS
<1>1. Recorded(ledger) = {} /\ finalization = None /\ decision = None /\ report = None
  BY DEF Init, Recorded
<1>2. RulingOf = [c \in Candidates |-> None]
  BY DEF Init, RulingOf
<1> QED BY <1>1, <1>2 DEF Promise!Init, RulingOf

\* Each handler is a step of the promise or a stutter: submitCandidates.
LEMMA PromiseSubmit ==
    ASSUME IInv, NEW r \in Roles, NEW batch \in SUBSET Candidates, SubmitCandidates(r, batch)
    PROVE  Promise!Collect
<1>1. UNCHANGED <<finalization, rulings, decision, report>> /\ finalization = None
  BY DEF SubmitCandidates, validation
<1>2. Recorded(ledger)' = Recorded(ledger) \cup batch
  <2>1. ASSUME NEW c \in batch PROVE ledger'[c] # None
    BY <2>1, CandidateType, NoneEntryAssumption DEF SubmitCandidates
  <2>2. ASSUME NEW c \in Candidates, c \notin batch PROVE ledger'[c] = ledger[c]
    BY <2>2 DEF SubmitCandidates
  <2> QED BY <2>1, <2>2 DEF Recorded
<1> QED BY <1>1, <1>2 DEF Promise!Collect

\* finalizeScan.
LEMMA PromiseScan ==
    ASSUME IInv, FinalizeScan PROVE Promise!Freeze
<1>1. UNCHANGED <<ledger, rulings, decision, report>> /\ finalization = None
  BY DEF FinalizeScan, validation, IInv, StageFollows, AfterScan, AfterTrace
<1>2. finalization' # None
  BY NoneRecordAssumption DEF FinalizeScan, Submitted
<1> QED BY <1>1, <1>2 DEF Promise!Freeze, Recorded

\* prepareAnalysisValidation.
LEMMA PromisePrepare ==
    ASSUME IInv, IInv', PrepareAnalysisValidation PROVE UNCHANGED Promise!vars
<1>1. UNCHANGED <<finalization, rulings, decision, report>>
  BY DEF PrepareAnalysisValidation
<1>2. UNCHANGED <<submissions>>
  BY DEF PrepareAnalysisValidation
<1>3. Recorded(ledger)' = Recorded(ledger)
  BY <1>2 DEF IInv, ScanIsFrozen, Submitted
<1> QED BY <1>1, <1>3 DEF Promise!vars

\* adjudicate.
LEMMA PromiseRule ==
    ASSUME IInv, IInv', NEW c \in Queue, NEW a \in Reviewers,
           NEW ruling \in {"validated", "refuted", "unresolved"}, NEW severity \in Severities,
           NEW chain \in BOOLEAN, Adjudicate(c, a, ruling, severity, chain)
    PROVE  Promise!Rule(c)
<1>1. UNCHANGED <<finalization, submissions, decision, report>>
  BY DEF Adjudicate
<1>2. rulings[c] = None /\ decision = None /\ c \in Candidates /\ c \in Recorded(ledger)
  BY AdjudicateOnce, QueueIsRecorded DEF Adjudicate
<1>3. finalization # None
  BY QueueIsRecorded DEF IInv, StageFollows
<1>4. Recorded(ledger)' = Recorded(ledger)
  BY <1>1 DEF IInv, ScanIsFrozen, Submitted
<1>5. RulingOf' = [RulingOf EXCEPT ![c] = ruling]
  <2> DEFINE made == [by |-> a, decision |-> ruling, chain |-> chain]
  <2>1. rulings' = [rulings EXCEPT ![c] = made] /\ made.decision = ruling
    BY DEF Adjudicate
  <2>2. made # None
    BY NoneRecordAssumption DEF Rulings
  <2> HIDE DEF made
  <2>3. rulings \in [Candidates -> Rulings \cup {None}]
    BY DEF IInv, TypeOK
  <2> QED BY <1>2, <2>1, <2>2, <2>3 DEF RulingOf
<1>6. RulingOf[c] = None /\ ruling \in Promise!Rulings
  BY <1>2 DEF RulingOf, Promise!Rulings
<1> QED BY <1>1, <1>2, <1>3, <1>4, <1>5, <1>6 DEF Promise!Rule, RulingOf

\* finalizeValidation.
LEMMA PromiseDecide ==
    ASSUME IInv, FinalizeValidation PROVE Promise!Decide \/ UNCHANGED Promise!vars
<1>1. /\ UNCHANGED <<ledger, finalization, rulings, report>>
      /\ decision \in {None, DecisionNow} /\ decision' = DecisionNow
  BY DEF FinalizeValidation, council, validation
<1>2. CASE decision = DecisionNow
  BY <1>1, <1>2, NothingPromised
<1>3. CASE decision = None
  <2>1. finalization # None
    BY DEF FinalizeValidation, ValidationComplete, IInv, StageFollows, TraceComplete
  <2>2. DecisionNow # None /\ DecisionNow.verdict \in Promise!Verdicts
    <3>1. CoverageNow \in Coverages
      BY DEF CoverageNow, Coverages, IndexComplete, PluginCoverage, IInv, TypeOK, Indexes,
           PluginRuns
    <3>2. DecisionNow \in Decisions
      BY <3>1, VerdictType DEF DecisionNow, Decisions, IInv, TypeOK
    <3> QED BY <3>2, NoneRecordAssumption DEF Decisions, Verdicts, Promise!Verdicts
  <2>3. VerdictOf = None /\ VerdictOf' = DecisionNow.verdict
    BY <1>1, <1>3, <2>2 DEF VerdictOf
  <2>4. Promise!Supports(DecisionNow.verdict)
    BY VerdictIsSupported
  <2> QED BY <1>1, <2>1, <2>2, <2>3, <2>4 DEF Promise!Decide, VerdictOf, Recorded
<1> QED BY <1>1, <1>2, <1>3

\* finalizeReport.
LEMMA PromisePublish ==
    ASSUME IInv, FinalizeReport PROVE Promise!Publish
<1>1. UNCHANGED <<ledger, finalization, rulings, decision>> /\ report = None
  BY DEF FinalizeReport, council, validation
<1>2. TrustedVerdict => decision # None /\ decision.verdict # None
  BY NoneEntryAssumption DEF TrustedVerdict, IInv, TypeOK, Decisions
<1>3. report' \in {"incomplete"} \cup ({VerdictOf} \ {None})
  BY <1>2 DEF FinalizeReport, VerdictOf
<1> QED BY <1>1, <1>3 DEF Promise!Publish, VerdictOf, Recorded

\* A council audit collects, freezes, rules, decides and publishes as AuditVerdict
\* promises, whatever happens to the source meanwhile.
THEOREM Implements == Spec => KeepsPromise
<1>1. Init => Promise!Init
  BY PromiseInit
<1>2. ASSUME IInv, IInv', [Next]_vars PROVE [Promise!Next]_Promise!vars
  <2>1. CASE UNCHANGED <<ledger, finalization, rulings, decision, report>>
    BY <2>1, NothingPromised
  <2>2. ASSUME NEW r \in Roles, NEW batch \in SUBSET Candidates, SubmitCandidates(r, batch)
        PROVE  Promise!Next
    BY <1>2, <2>2, PromiseSubmit DEF Promise!Next
  <2>3. CASE FinalizeScan
    BY <1>2, <2>3, PromiseScan DEF Promise!Next
  <2>4. CASE PrepareAnalysisValidation
    BY <1>2, <2>4, PromisePrepare
  <2>5. ASSUME NEW c \in Queue, NEW a \in Reviewers,
               NEW ruling \in {"validated", "refuted", "unresolved"}, NEW severity \in Severities,
               NEW chain \in BOOLEAN, Adjudicate(c, a, ruling, severity, chain)
        PROVE  Promise!Next
    BY <1>2, <2>5, PromiseRule, QueueIsRecorded DEF Promise!Next
  <2>6. CASE FinalizeValidation
    BY <1>2, <2>6, PromiseDecide DEF Promise!Next
  <2>7. CASE FinalizeReport
    BY <1>2, <2>7, PromisePublish DEF Promise!Next
  <2>8. \/ UNCHANGED <<ledger, finalization, rulings, decision, report>>
        \/ \E r \in Roles, batch \in SUBSET Candidates : SubmitCandidates(r, batch)
        \/ FinalizeScan \/ PrepareAnalysisValidation
        \/ \E c \in Queue, a \in Reviewers, ruling \in {"validated", "refuted", "unresolved"},
             severity \in Severities, chain \in BOOLEAN :
              Adjudicate(c, a, ruling, severity, chain)
        \/ FinalizeValidation \/ FinalizeReport
    <3>1. CASE UNCHANGED vars
      BY <3>1 DEF vars, council, validation
    <3>2. CASE (\E p \in Paths, c \in Contents : Edit(p, c)) \/ ListSource
      BY <3>2 DEF Edit, ListSource, council, validation
    <3>3. CASE \E p \in Paths : IndexFails(p) \/ IndexTooLarge(p) \/ IndexSourceFile(p)
      BY <3>3 DEF IndexFails, IndexTooLarge, IndexSourceFile, council, validation
    <3>4. CASE TraceAnalysisGraph
      BY <3>4 DEF TraceAnalysisGraph, council, validation
    <3>5. CASE \E c \in Queue, type \in Types, v \in Reviewers :
                 \E says \in Conclusions(type) : SubmitReview(c, type, v, says)
      BY <3>5 DEF SubmitReview, council, validation
    <3> QED BY <1>2, <3>1, <3>2, <3>3, <3>4, <3>5 DEF Next
  <2> QED BY <2>1, <2>2, <2>3, <2>4, <2>5, <2>6, <2>7, <2>8
<1> QED BY <1>1, <1>2, Invariance, PTL DEF Spec, KeepsPromise, Promise!Spec

-----------------------------------------------------------------------------
(* The walks of a graph.                                                   *)

\* The walks of each length, as Walks defines them.
First(graph) == {[nodes |-> <<s>>, links |-> <<>>] : s \in Starts(graph)}
Longer(graph, W) == UNION {Further(graph, w) : w \in {x \in W : Expands(x)}}
AreWalks(graph, walks, N) ==
    walks = [n \in 1..N |-> IF n = 1 THEN First(graph) ELSE Longer(graph, walks[n - 1])]

\* There is such a function, whatever the bound.
LEMMA WalksExist ==
    ASSUME NEW graph, NEW N \in Nat \ {0}
    PROVE  \E walks : AreWalks(graph, walks, N)
<1> DEFINE T == {n \in Nat \ {0} : ~\E walks : AreWalks(graph, walks, n)}
<1> SUFFICES ASSUME T # {} PROVE FALSE
  OBVIOUS
<1>1. PICK n \in T : \A m \in T : n <= m
  BY Least
<1>2. n \in Nat \ {0} /\ ~\E walks : AreWalks(graph, walks, n)
  OBVIOUS
<1>3. CASE n = 1
  <2> DEFINE only == [k \in 1..1 |-> First(graph)]
  <2>1. only = [k \in 1..1 |-> IF k = 1 THEN First(graph) ELSE Longer(graph, only[k - 1])]
    OBVIOUS
  <2>2. AreWalks(graph, only, n)
    BY <1>3, <2>1 DEF AreWalks
  <2> QED BY <1>2, <2>2
<1>4. CASE n # 1
  <2>1. n - 1 \in Nat \ {0} /\ n - 1 \notin T
    BY <1>1, <1>2, <1>4
  <2>2. PICK before : AreWalks(graph, before, n - 1)
    BY <2>1
  <2> DEFINE walks == [k \in 1..n |-> IF k = n THEN Longer(graph, before[n - 1]) ELSE before[k]]
  <2>3. ASSUME NEW k \in 1..n
        PROVE  walks[k] = IF k = 1 THEN First(graph) ELSE Longer(graph, walks[k - 1])
    <3>1. CASE k = n
      BY <1>2, <1>4, <2>1, <3>1
    <3>2. CASE k # n
      <4>1. k \in 1..(n - 1) /\ walks[k] = before[k]
        BY <1>2, <3>2
      <4>2. before[k] = IF k = 1 THEN First(graph) ELSE Longer(graph, before[k - 1])
        BY <2>2, <4>1 DEF AreWalks
      <4>3. k # 1 => walks[k - 1] = before[k - 1]
        BY <1>2, <4>1
      <4> QED BY <4>1, <4>2, <4>3
    <3> QED BY <3>1, <3>2
  <2>4. walks = [k \in 1..n |-> IF k = 1 THEN First(graph) ELSE Longer(graph, walks[k - 1])]
    BY <2>3
  <2>5. AreWalks(graph, walks, n)
    BY <2>4 DEF AreWalks
  <2> QED BY <1>2, <2>5
<1> QED BY <1>3, <1>4

\* A walk has at least one node.
LEMMA DepthType == MaxDepth \in Nat \ {0}
  BY GraphAssumption

\* The function whose values Walks unites.
LEMMA WalksUnfold ==
    ASSUME NEW graph
    PROVE  \E walks : /\ AreWalks(graph, walks, MaxDepth)
                      /\ Walks(graph) = UNION {walks[n] : n \in 1..MaxDepth}
<1> DEFINE chosen == CHOOSE walks :
              walks = [n \in 1..MaxDepth |-> IF n = 1
                          THEN {[nodes |-> <<s>>, links |-> <<>>] : s \in Starts(graph)}
                          ELSE UNION {Further(graph, w) : w \in {x \in walks[n - 1] : Expands(x)}}]
<1>1. \E walks : AreWalks(graph, walks, MaxDepth)
  BY WalksExist, DepthType
<1>2. \E walks :
         walks = [n \in 1..MaxDepth |-> IF n = 1
                     THEN {[nodes |-> <<s>>, links |-> <<>>] : s \in Starts(graph)}
                     ELSE UNION {Further(graph, w) : w \in {x \in walks[n - 1] : Expands(x)}}]
  BY <1>1, Zenon DEF AreWalks, First, Longer
<1>3. AreWalks(graph, chosen, MaxDepth)
  BY <1>2, Zenon DEF AreWalks, First, Longer
<1>4. Walks(graph) = UNION {chosen[n] : n \in 1..MaxDepth}
  BY Zenon DEF Walks
<1> QED BY <1>3, <1>4

Places(graph) == graph.nodes \cup {e.to : e \in graph.edges}

\* Walks of length n have n nodes.
LEMMA WalkShape ==
    ASSUME NEW graph, NEW walks, AreWalks(graph, walks, MaxDepth),
           NEW n \in 1..MaxDepth, NEW w \in walks[n]
    PROVE  w.nodes \in Seq(Places(graph)) /\ Len(w.nodes) = n
<1> DEFINE Shaped(k) ==
              \A v \in walks[k] : v.nodes \in Seq(Places(graph)) /\ Len(v.nodes) = k
           T == {k \in 1..MaxDepth : ~Shaped(k)}
<1> SUFFICES ASSUME T # {} PROVE FALSE
  OBVIOUS
<1>0. T \in SUBSET Nat
  BY DepthType
<1>1. PICK k \in T : \A m \in T : k <= m
  BY <1>0, Least
<1>2. k \in 1..MaxDepth /\ ~Shaped(k)
  OBVIOUS
<1>3. CASE k = 1
  <2>1. walks[1] = First(graph)
    BY <1>2, <1>3 DEF AreWalks
  <2>2. ASSUME NEW v \in walks[1] PROVE v.nodes \in Seq(Places(graph)) /\ Len(v.nodes) = 1
    <3>1. PICK s \in Starts(graph) : v = [nodes |-> <<s>>, links |-> <<>>]
      BY <2>1, <2>2 DEF First
    <3>2. s \in Places(graph)
      BY DEF Starts, Places
    <3> QED BY <3>1, <3>2
  <2> QED BY <1>2, <1>3, <2>2
<1>4. CASE k # 1
  <2>1. k - 1 \in 1..MaxDepth /\ k - 1 \notin T
    BY <1>1, <1>2, <1>4, DepthType
  <2>2. Shaped(k - 1)
    BY <2>1
  <2>3. walks[k] = Longer(graph, walks[k - 1])
    BY <1>2, <1>4 DEF AreWalks
  <2>4. ASSUME NEW v \in walks[k] PROVE v.nodes \in Seq(Places(graph)) /\ Len(v.nodes) = k
    <3>1. PICK u \in walks[k - 1], e \in graph.edges : v = Along(u, e)
      BY <2>3, <2>4 DEF Longer, Further, Onward
    <3>2. u.nodes \in Seq(Places(graph)) /\ Len(u.nodes) = k - 1
      BY <2>2, <3>1
    <3>3. v.nodes = Append(u.nodes, e.to) /\ e.to \in Places(graph)
      BY <3>1 DEF Along, Places
    <3> QED BY <1>2, <3>2, <3>3, DepthType
  <2> QED BY <1>2, <2>4
<1> QED BY <1>3, <1>4

\* The nodes a walk visits before its tip are tips of shorter walks, from the same start.
LEMMA WalkPrefix ==
    ASSUME NEW graph, NEW walks, AreWalks(graph, walks, MaxDepth),
           NEW n \in 1..MaxDepth, NEW w \in walks[n], NEW i \in 1..n
    PROVE  \E v \in walks[i] : Tip(v) = w.nodes[i] /\ v.nodes[1] = w.nodes[1]
<1> DEFINE Ok(k) == \A x \in walks[k], j \in 1..k :
              \E v \in walks[j] : Tip(v) = x.nodes[j] /\ v.nodes[1] = x.nodes[1]
           T == {k \in 1..MaxDepth : ~Ok(k)}
<1> SUFFICES ASSUME T # {} PROVE FALSE
  OBVIOUS
<1>0. T \in SUBSET Nat
  BY DepthType
<1>1. PICK k \in T : \A m \in T : k <= m
  BY <1>0, Least
<1>2. k \in 1..MaxDepth /\ ~Ok(k)
  OBVIOUS
<1>3. PICK x \in walks[k], j \in 1..k :
          ~\E v \in walks[j] : Tip(v) = x.nodes[j] /\ v.nodes[1] = x.nodes[1]
  BY <1>2
<1>4. Len(x.nodes) = k /\ x.nodes \in Seq(Places(graph))
  BY <1>2, <1>3, WalkShape
<1>5. j # k
  BY <1>3, <1>4 DEF Tip
<1>6. k # 1 /\ k - 1 \in 1..MaxDepth /\ k - 1 \notin T /\ j \in 1..(k - 1)
  BY <1>1, <1>2, <1>3, <1>5, DepthType
<1>7. walks[k] = Longer(graph, walks[k - 1])
  BY <1>2, <1>6 DEF AreWalks
<1>8. PICK u \in walks[k - 1], e \in graph.edges : x = Along(u, e)
  BY <1>3, <1>7 DEF Longer, Further, Onward
<1>9. u.nodes \in Seq(Places(graph)) /\ Len(u.nodes) = k - 1
  BY <1>6, <1>8, WalkShape
<1>10. x.nodes = Append(u.nodes, e.to) /\ e.to \in Places(graph)
  BY <1>8 DEF Along, Places
<1>11. x.nodes[j] = u.nodes[j] /\ x.nodes[1] = u.nodes[1]
  BY <1>6, <1>9, <1>10
<1>12. Ok(k - 1)
  BY <1>6
<1>13. \E v \in walks[j] : Tip(v) = u.nodes[j] /\ v.nodes[1] = u.nodes[1]
  BY <1>6, <1>8, <1>12
<1> QED BY <1>3, <1>11, <1>13

\* A walk begins at every start.
LEMMA WalkStarts ==
    ASSUME NEW graph, NEW s \in Starts(graph)
    PROVE  \E w \in Walks(graph) : Tip(w) = s /\ w.nodes[1] = s
<1>1. PICK walks : /\ AreWalks(graph, walks, MaxDepth)
                   /\ Walks(graph) = UNION {walks[n] : n \in 1..MaxDepth}
  BY WalksUnfold
<1> DEFINE w == [nodes |-> <<s>>, links |-> <<>>]
<1>2. 1 \in 1..MaxDepth
  BY DepthType
<1>3. w \in walks[1]
  BY <1>1, <1>2 DEF AreWalks, First
<1>4. Tip(w) = s /\ w.nodes[1] = s
  BY DEF Tip
<1> QED BY <1>1, <1>2, <1>3, <1>4

\* When no walk is too long, whatever an edge leads to from the tip of a walk is the tip
\* of a walk too, from the same start.
LEMMA WalkGoesOn ==
    ASSUME NEW graph, \A w \in Walks(graph) : ~TooLong(w),
           NEW v \in Walks(graph), Tip(v).kind \notin EffectKinds,
           NEW e \in graph.edges, e.from = Tip(v)
    PROVE  \E w \in Walks(graph) : Tip(w) = e.to /\ w.nodes[1] = v.nodes[1]
<1>1. PICK walks : /\ AreWalks(graph, walks, MaxDepth)
                   /\ Walks(graph) = UNION {walks[n] : n \in 1..MaxDepth}
  BY WalksUnfold
<1>2. PICK n \in 1..MaxDepth : v \in walks[n]
  BY <1>1
<1>3. v.nodes \in Seq(Places(graph)) /\ Len(v.nodes) = n /\ ~TooLong(v) /\ Expands(v)
  BY <1>1, <1>2, WalkShape DEF Expands
<1>4. n + 1 \in 1..MaxDepth /\ n # n + 1 /\ n + 1 # 1
  BY <1>3, DepthType DEF TooLong
<1>5. CASE e.to \in Visited(v)
  <2>1. PICK i \in 1..n : v.nodes[i] = e.to
    BY <1>3, <1>5 DEF Visited
  <2>2. \E w \in walks[i] : Tip(w) = v.nodes[i] /\ w.nodes[1] = v.nodes[1]
    BY <1>1, <1>2, WalkPrefix
  <2>3. i \in 1..MaxDepth
    BY <1>2, DepthType
  <2> QED BY <1>1, <2>1, <2>2, <2>3
<1>6. CASE e.to \notin Visited(v)
  <2>1. Along(v, e) \in Longer(graph, walks[n])
    BY <1>2, <1>3, <1>6 DEF Longer, Further, Onward
  <2>2. walks[n + 1] = Longer(graph, walks[n])
    BY <1>1, <1>4 DEF AreWalks
  <2>3. Along(v, e).nodes = Append(v.nodes, e.to) /\ e.to \in Places(graph)
    BY DEF Along, Places
  <2>4. Tip(Along(v, e)) = e.to /\ Along(v, e).nodes[1] = v.nodes[1]
    BY <1>3, <2>3 DEF Tip
  <2> QED BY <1>1, <1>4, <2>1, <2>2, <2>4
<1> QED BY <1>5, <1>6

\* A walk visits its start.
LEMMA WalkVisitsStart ==
    ASSUME NEW graph, NEW w \in Walks(graph) PROVE w.nodes[1] \in Visited(w)
<1>1. PICK walks : /\ AreWalks(graph, walks, MaxDepth)
                   /\ Walks(graph) = UNION {walks[n] : n \in 1..MaxDepth}
  BY WalksUnfold
<1>2. PICK n \in 1..MaxDepth : w \in walks[n]
  BY <1>1
<1>3. w.nodes \in Seq(Places(graph)) /\ Len(w.nodes) = n
  BY <1>1, <1>2, WalkShape
<1> QED BY <1>3, DepthType DEF Visited

-----------------------------------------------------------------------------
(* Finite graphs.                                                          *)

\* The values of a function on a finite set.
LEMMA FiniteRange ==
    ASSUME NEW S, IsFiniteSet(S), NEW f, f = [x \in S |-> f[x]]
    PROVE  IsFiniteSet({f[x] : x \in S})
<1> DEFINE T == {f[x] : x \in S}
<1>1. f \in Surjection(S, T)
  BY DEF Surjection
<1> QED BY <1>1, FS_Surjection

\* A bounded set is a part of the set.
LEMMA BoundedWithin ==
    ASSUME NEW S, IsFiniteSet(S), NEW max \in Nat
    PROVE  Bounded(S, max) \subseteq S
<1>1. CASE Cardinality(S) <= max
  BY <1>1 DEF Bounded
<1>2. CASE ~(Cardinality(S) <= max)
  <2> DEFINE n == Cardinality(S)
  <2>1. n \in Nat /\ max < n
    BY <1>2, FS_CardinalityType
  <2>2. PICK f : f \in Bijection(1..n, S)
    BY FS_CardinalityType DEF ExistsBijection
  <2> HIDE DEF n
  <2> DEFINE g == [i \in 1..max |-> f[i]]
             T == {g[i] : i \in 1..max}
  <2>3. 1..max \subseteq 1..n
    BY <2>1
  <2>4. T \in SUBSET S
    BY <2>2, <2>3 DEF Bijection, Injection, Surjection
  <2>5. g \in Bijection(1..max, T)
    <3>1. \A i, j \in 1..n : f[i] = f[j] => i = j
      BY <2>2 DEF Bijection, Injection, IsInjective
    <3>2. \A i, j \in 1..max : g[i] = g[j] => i = j
      BY <2>3, <3>1
    <3>3. g \in Injection(1..max, T)
      BY <3>2 DEF Injection, IsInjective
    <3>4. g \in Surjection(1..max, T)
      BY DEF Surjection
    <3> QED BY <3>3, <3>4 DEF Bijection
  <2> HIDE DEF T, g
  <2>6. Cardinality(T) = max
    BY <2>5, FS_CountingElements DEF ExistsBijection
  <2>7. T \in kSubset(max, S)
    BY <2>4, <2>6 DEF kSubset
  <2>8. Bounded(S, max) = CHOOSE U \in kSubset(max, S) : TRUE
    BY <1>2 DEF Bounded
  <2>9. Bounded(S, max) \in kSubset(max, S)
    BY <2>7, <2>8
  <2> QED BY <2>9 DEF kSubset
<1> QED BY <1>1, <1>2

\* A recorded graph has as many nodes as the drawn one, and finite documents combine to
\* one.
LEMMA RecordingFinite ==
    ASSUME NEW graph, Drawn(graph), NEW seen PROVE IsFiniteSet(Recording(graph, seen).nodes)
<1> DEFINE f == [n \in graph.nodes |->
                    [id |-> Name(n, seen), kind |-> n.kind, does |-> n.does,
                     at |-> Evidence(n, seen)]]
<1>1. IsFiniteSet(graph.nodes)
  BY DEF Drawn
<1>2. f = [n \in graph.nodes |-> f[n]]
  OBVIOUS
<1>3. Recording(graph, seen).nodes = {f[n] : n \in graph.nodes}
  BY DEF Recording
<1> HIDE DEF f
<1> QED BY <1>1, <1>2, <1>3, FiniteRange

\* Finite documents combine to a finite one.
LEMMA CombinedFinite ==
    ASSUME NEW documents, IsFiniteSet(documents), \A d \in documents : IsFiniteSet(d.nodes)
    PROVE  IsFiniteSet(Combined(documents).nodes)
<1> DEFINE f == [d \in documents |-> d.nodes]
           parts == {f[d] : d \in documents}
<1>1. f = [d \in documents |-> f[d]]
  OBVIOUS
<1>2. \A part \in parts : IsFiniteSet(part)
  OBVIOUS
<1>3. Combined(documents).nodes = UNION parts
  BY DEF Combined
<1> HIDE DEF f
<1>4. IsFiniteSet(parts)
  BY <1>1, FiniteRange
<1> HIDE DEF parts
<1> QED BY <1>2, <1>3, <1>4, FS_UNION

\* Functions between finite sets are finitely many.
LEMMA FunctionsFinite ==
    ASSUME NEW S, IsFiniteSet(S), NEW T, IsFiniteSet(T)
    PROVE  IsFiniteSet([S -> T])
<1> DEFINE graph == [f \in [S -> T] |-> {<<x, f[x]>> : x \in S}]
<1>1. IsFiniteSet(SUBSET (S \X T))
  BY FS_Product, FS_SUBSET
<1>2. graph \in [[S -> T] -> SUBSET (S \X T)]
  OBVIOUS
<1>3. ASSUME NEW f \in [S -> T], NEW g \in [S -> T], graph[f] = graph[g] PROVE f = g
  <2>1. ASSUME NEW x \in S PROVE f[x] = g[x]
    <3>1. <<x, f[x]>> \in graph[g]
      BY <1>3
    <3> QED BY <3>1
  <2> QED BY <2>1
<1>4. graph \in Injection([S -> T], SUBSET (S \X T))
  BY <1>2, <1>3 DEF Injection, IsInjective
<1> QED BY <1>1, <1>4, FS_Injection

\* The graph a finding comes with is a finite one of the council, and what it cites are
\* paths.
LEMMA FindingDrawn ==
    ASSUME NEW c \in Candidates
    PROVE  /\ c[1] \in Findings /\ Drawn(Fragment[c[1]])
           /\ CandidateGraph(Fragment[c[1]])
<1>1. PICK f \in Findings : c \in {f} \X [CitedBy(f) -> Contents]
  BY DEF Candidates
<1>2. c[1] \in Findings
  BY <1>1
<1>3. CandidateGraph(Fragment[c[1]])
  BY <1>2, GraphAssumption
<1> QED BY <1>2, <1>3 DEF CandidateGraph

\* Candidates are finitely many, as findings and contents are.
LEMMA CandidatesFinite == IsFiniteSet(Candidates)
<1> DEFINE readings == [f \in Findings |-> {f} \X [CitedBy(f) -> Contents]]
           parts == {readings[f] : f \in Findings}
<1>1. ASSUME NEW f \in Findings PROVE IsFiniteSet(readings[f])
  <2>1. CitedBy(f) \in SUBSET Paths
    <3>1. Drawn(Fragment[f])
      BY GraphAssumption DEF CandidateGraph
    <3>2. \A x \in Citing(Fragment[f]) : x.cites \subseteq Paths
      BY <3>1 DEF Drawn
    <3> QED BY <3>2 DEF CitedBy
  <2>2. IsFiniteSet([CitedBy(f) -> Contents])
    BY <2>1, ContentsAssumption, FS_Subset, FunctionsFinite
  <2>3. IsFiniteSet({f})
    BY FS_Singleton
  <2> QED BY <2>2, <2>3, FS_Product
<1>2. readings = [f \in Findings |-> readings[f]]
  OBVIOUS
<1>3. Candidates = UNION parts
  BY DEF Candidates
<1>4. \A part \in parts : IsFiniteSet(part)
  BY <1>1
<1> HIDE DEF readings
<1>5. IsFiniteSet(parts)
  BY <1>2, GraphAssumption, FiniteRange
<1> HIDE DEF parts
<1> QED BY <1>3, <1>4, <1>5, FS_UNION

\* So the graphs of all candidates together are finite,
LEMMA CouncilFinite ==
    ASSUME NEW S \in SUBSET Candidates
    PROVE  IsFiniteSet(CouncilGraph(S).nodes)
<1> DEFINE f == [c \in S |-> Recording(Fragment[c[1]], c[2])]
           documents == {f[c] : c \in S}
<1>1. IsFiniteSet(S)
  BY CandidatesFinite, FS_Subset
<1>2. f = [c \in S |-> f[c]]
  OBVIOUS
<1>3. \A d \in documents : IsFiniteSet(d.nodes)
  BY FindingDrawn, RecordingFinite
<1>4. CouncilGraph(S) = Combined(documents)
  BY DEF CouncilGraph
<1> HIDE DEF f
<1>5. IsFiniteSet(documents)
  BY <1>1, <1>2, FiniteRange
<1> HIDE DEF documents
<1> QED BY <1>3, <1>4, <1>5, CombinedFinite

\* and those of the plugins.
LEMMA SeedFinite ==
    ASSUME NEW ix PROVE IsFiniteSet(SeedGraph(ix).nodes)
<1> DEFINE S == {p \in Known(ix) : ix.file[p].content \in Contents}
           seen == [p \in S |-> ix.file[p].content]
           f == [p \in S |-> Recording(Seed[<<p, seen[p]>>], seen)]
           documents == {f[p] : p \in S}
<1>1. S \in SUBSET Paths
  BY DEF Known
<1>2. IsFiniteSet(S)
  BY <1>1, ContentsAssumption, FS_Subset
<1>3. f = [p \in S |-> f[p]]
  OBVIOUS
<1>4. \A d \in documents : IsFiniteSet(d.nodes)
  <2>1. ASSUME NEW p \in S PROVE Drawn(Seed[<<p, seen[p]>>])
    <3>1. p \in Paths /\ seen[p] \in Contents
      BY <1>1
    <3> HIDE DEF S, seen
    <3> QED BY <3>1, GraphAssumption
  <2>2. ASSUME NEW p \in S PROVE IsFiniteSet(f[p].nodes)
    BY <2>1, <2>2, RecordingFinite
  <2> HIDE DEF f
  <2> QED BY <2>2
<1>5. SeedGraph(ix) = Combined(documents)
  BY DEF SeedGraph
<1> HIDE DEF f
<1>6. IsFiniteSet(documents)
  BY <1>2, <1>3, FiniteRange
<1> HIDE DEF documents
<1> QED BY <1>4, <1>5, <1>6, CombinedFinite

\* All that is drawn: the plugins' and the council's.
LEMMA AllDrawnParts ==
    ASSUME TRUE
    PROVE  /\ AllDrawn.nodes =
                SeedGraph(plugins.of).nodes \cup CouncilGraph(Recorded(ledger)).nodes
           /\ AllDrawn.edges =
                SeedGraph(plugins.of).edges \cup CouncilGraph(Recorded(ledger)).edges
  BY DEF AllDrawn, Combined

\* It is finite, so a walk bounded by its size misses nothing.
LEMMA AllDrawnFinite == IsFiniteSet(AllDrawn.nodes)
<1>1. IsFiniteSet(SeedGraph(plugins.of).nodes)
  BY SeedFinite
<1>2. IsFiniteSet(CouncilGraph(Recorded(ledger)).nodes)
  BY CouncilFinite, RecordedType
<1> QED BY <1>1, <1>2, AllDrawnParts, FS_Union

-----------------------------------------------------------------------------
(* Merging and tracing.                                                    *)

\* What is drawn of one candidate is in the whole, and its edges join its nodes.
LEMMA CandidatePart ==
    ASSUME NEW c \in Recorded(ledger)
    PROVE  /\ CouncilGraph({c}).nodes \subseteq AllDrawn.nodes
           /\ CouncilGraph({c}).edges \subseteq AllDrawn.edges
           /\ \A e \in CouncilGraph({c}).edges :
                /\ \E m \in CouncilGraph({c}).nodes : m.id = e.from
                /\ \E m \in CouncilGraph({c}).nodes : m.id = e.to
<1> DEFINE drawn == Fragment[c[1]]
           part == Recording(drawn, c[2])
<1>1. /\ CouncilGraph({c}).nodes = part.nodes
      /\ CouncilGraph({c}).edges = part.edges
  BY DEF CouncilGraph, Combined
<1>2. /\ part.nodes \subseteq CouncilGraph(Recorded(ledger)).nodes
      /\ part.edges \subseteq CouncilGraph(Recorded(ledger)).edges
  BY DEF CouncilGraph, Combined
<1>3. ASSUME NEW e \in part.edges
      PROVE  (\E m \in part.nodes : m.id = e.from) /\ (\E m \in part.nodes : m.id = e.to)
  <2>1. PICK e0 \in drawn.edges : /\ e.from = Name(NodeOf(e0.from, drawn.nodes), c[2])
                                  /\ e.to = Name(NodeOf(e0.to, drawn.nodes), c[2])
    BY <1>3 DEF Recording
  <2>2. {e0.from, e0.to} \subseteq {m.id : m \in drawn.nodes}
    BY <2>1, RecordedType, FindingDrawn DEF Drawn
  <2>3. NodeOf(e0.from, drawn.nodes) \in drawn.nodes /\ NodeOf(e0.to, drawn.nodes) \in drawn.nodes
    BY <2>2 DEF NodeOf
  <2>4. ASSUME NEW m0 \in drawn.nodes
        PROVE  \E m \in part.nodes : m.id = Name(m0, c[2])
    <3> DEFINE m == [id |-> Name(m0, c[2]), kind |-> m0.kind, does |-> m0.does,
                     at |-> Evidence(m0, c[2])]
    <3>1. m \in part.nodes
      BY DEF Recording
    <3> QED BY <3>1
  <2> HIDE DEF part, drawn
  <2> QED BY <2>1, <2>3, <2>4
<1> QED BY <1>1, <1>2, <1>3, AllDrawnParts

\* A complete merge has every node and edge that was drawn, and each identifier once.
LEMMA MergeComplete ==
    ASSUME NEW document, IsFiniteSet(document.nodes), NEW ix,
           MergeBehaviorGraphs(document, ix).complete
    PROVE  LET merged == MergeBehaviorGraphs(document, ix)
           IN  /\ \A m, n \in document.nodes : m.id = n.id => m = n
               /\ merged.nodes = {Meaning(n) : n \in document.nodes}
               /\ merged.edges = {[kind |-> e.kind,
                                   from |-> Meaning(NodeOf(e.from, document.nodes)),
                                   to |-> Meaning(NodeOf(e.to, document.nodes))] :
                                      e \in document.edges}
<1> DEFINE nodes == MergedNodes(document, ix)
           single == {e \in document.edges : ~IdConflict(e, document.edges)}
           joined == {e \in single : Joined(e, nodes)}
           links == {Link(e, nodes) : e \in {x \in joined : Current(x.at, ix)}}
           fitting == {l \in links : Compatible(l)}
           kept == Bounded(fitting, MaxGraphEdges)
           merged == MergeBehaviorGraphs(document, ix)
<1>1. /\ nodes = document.nodes
      /\ joined = document.edges
      /\ \A e \in document.edges : Current(e.at, ix)
      /\ kept = links
      /\ Against(kept) = {}
  BY DEF MergeBehaviorGraphs
<1>2. /\ merged.nodes = {Meaning(n) : n \in nodes}
      /\ merged.edges = {[kind |-> l.kind, from |-> l.from, to |-> l.to] :
                            l \in kept \ Contradicted(kept)}
  BY DEF MergeBehaviorGraphs
<1>3. \A m, n \in document.nodes : m.id = n.id => m = n
  <2>1. SoundNodes(document, ix) \subseteq document.nodes
    BY DEF SoundNodes
  <2>2. IsFiniteSet(SoundNodes(document, ix)) /\ MaxGraphNodes \in Nat
    BY <2>1, FS_Subset, GraphAssumption
  <2>3. document.nodes \subseteq SoundNodes(document, ix)
    BY <1>1, <2>2, BoundedWithin DEF MergedNodes
  <2> QED BY <2>3 DEF SoundNodes, IdConflict
<1>4. Contradicted(kept) = {}
  BY <1>1 DEF Contradicted
<1>5. links = {Link(e, document.nodes) : e \in document.edges}
  BY <1>1
<1> HIDE DEF nodes, joined, kept, links
<1>6. merged.edges = {[kind |-> l.kind, from |-> l.from, to |-> l.to] : l \in links}
  BY <1>1, <1>2, <1>4
<1>7. merged.edges = {[kind |-> e.kind, from |-> Meaning(NodeOf(e.from, document.nodes)),
                       to |-> Meaning(NodeOf(e.to, document.nodes))] : e \in document.edges}
  <2> DEFINE Shape(l) == [kind |-> l.kind, from |-> l.from, to |-> l.to]
             Drawing(e) == [kind |-> e.kind, from |-> Meaning(NodeOf(e.from, document.nodes)),
                            to |-> Meaning(NodeOf(e.to, document.nodes))]
  <2>1. \A e : Shape(Link(e, document.nodes)) = Drawing(e)
    BY DEF Link
  <2>2. merged.edges = {Shape(l) : l \in links}
    BY <1>6
  <2> HIDE DEF Shape, Drawing
  <2>3. merged.edges = {Drawing(e) : e \in document.edges}
    BY <1>5, <2>1, <2>2
  <2> QED BY <2>3 DEF Drawing
<1> QED BY <1>1, <1>2, <1>3, <1>7

\* A complete trace has the chain of every walk to an effect, and no walk is cut.
LEMMA TraceHasChains ==
    ASSUME NEW graph, TraceBehaviorGraph(graph).complete
    PROVE  /\ graph.complete
           /\ \A w \in Walks(graph) : ~TooLong(w)
           /\ \A w \in Walks(graph) : Tip(w).kind \in EffectKinds =>
                [walk |-> w, status |-> "complete", at |-> None]
                    \in TraceBehaviorGraph(graph).chains
<1> DEFINE chains == UNION {ChainsOf(graph, w) : w \in Walks(graph)}
<1>1. /\ graph.complete
      /\ Cardinality(chains) <= MaxChains
      /\ \A w \in Walks(graph) : ~TooLong(w)
  BY DEF TraceBehaviorGraph
<1>2. TraceBehaviorGraph(graph).chains = Bounded(chains, MaxChains)
  BY DEF TraceBehaviorGraph
<1>3. TraceBehaviorGraph(graph).chains = chains
  BY <1>1, <1>2 DEF Bounded
<1>4. ASSUME NEW w \in Walks(graph), Tip(w).kind \in EffectKinds
      PROVE  [walk |-> w, status |-> "complete", at |-> None] \in chains
  <2>1. ChainsOf(graph, w) = {[walk |-> w, status |-> "complete", at |-> None]}
    BY <1>1, <1>4 DEF ChainsOf
  <2> QED BY <2>1
<1> QED BY <1>1, <1>3, <1>4

\* A behaviour drawn from an uncaused start to an effect has a chain in a complete trace.
LEMMA BehaviorIsChained ==
    ASSUME CouncilTrace.complete, NEW c \in Recorded(ledger), NEW n \in CouncilGraph({c}).nodes,
           n.kind \in StartKinds, Uncaused(n), LeadsToEffect(CouncilGraph({c}), n)
    PROVE  Chained(c, CouncilTrace)
<1> DEFINE graph == MergeBehaviorGraphs(AllDrawn, index)
           own == CouncilGraph({c})
<1>1. CouncilTrace = TraceBehaviorGraph(graph)
  BY DEF CouncilTrace
<1>2. /\ graph.complete
      /\ \A w \in Walks(graph) : ~TooLong(w)
      /\ \A w \in Walks(graph) : Tip(w).kind \in EffectKinds =>
           [walk |-> w, status |-> "complete", at |-> None] \in CouncilTrace.chains
  BY <1>1, TraceHasChains
<1>3. /\ \A m, k \in AllDrawn.nodes : m.id = k.id => m = k
      /\ graph.nodes = {Meaning(m) : m \in AllDrawn.nodes}
      /\ graph.edges = {[kind |-> e.kind, from |-> Meaning(NodeOf(e.from, AllDrawn.nodes)),
                         to |-> Meaning(NodeOf(e.to, AllDrawn.nodes))] : e \in AllDrawn.edges}
  BY <1>2, AllDrawnFinite, MergeComplete
<1> HIDE DEF graph
<1>4. ASSUME NEW m \in own.nodes PROVE NodeOf(m.id, AllDrawn.nodes) = m
  BY <1>3, CandidatePart DEF NodeOf
<1>5. Meaning(n) \in Starts(graph)
  <2> DEFINE starts == {m \in graph.nodes : m.kind \in StartKinds}
             roots == {m \in starts : \A e \in graph.edges : e.to # m}
  <2>1. Meaning(n) \in starts
    BY <1>3, CandidatePart DEF Meaning
  <2>2. ASSUME NEW e \in graph.edges PROVE e.to # Meaning(n)
    BY <1>3 DEF Uncaused
  <2>3. Meaning(n) \in roots
    BY <2>1, <2>2
  <2> QED BY <2>3 DEF Starts
<1> DEFINE Reached(m) == \E w \in Walks(graph) : Tip(w) = Meaning(m) /\ w.nodes[1] = Meaning(n)
<1>6. Reached(n)
  BY <1>5, WalkStarts
<1>7. ASSUME NEW m \in own.nodes, Reached(m), m.kind \in EffectKinds
      PROVE  Chained(c, CouncilTrace)
  <2>1. PICK w \in Walks(graph) : Tip(w) = Meaning(m) /\ w.nodes[1] = Meaning(n)
    BY <1>7
  <2> DEFINE chain == [walk |-> w, status |-> "complete", at |-> None]
  <2>2. chain \in CouncilTrace.chains
    BY <1>2, <1>7, <2>1 DEF Meaning
  <2>3. Meaning(n) \in Visited(w)
    BY <2>1, WalkVisitsStart
  <2>4. Visited(chain.walk) \cap {Meaning(k) : k \in own.nodes} # {}
    BY <2>3
  <2> QED BY <2>2, <2>4 DEF Chained
<1>8. ASSUME NEW e \in own.edges, NEW m \in own.nodes, m.id = e.from, Reached(m),
             m.kind \notin EffectKinds, NEW k \in own.nodes, k.id = e.to
      PROVE  Reached(k)
  <2> DEFINE link == [kind |-> e.kind, from |-> Meaning(m), to |-> Meaning(k)]
  <2>1. link \in graph.edges
    <3>1. e \in AllDrawn.edges
      BY CandidatePart
    <3>2. NodeOf(e.from, AllDrawn.nodes) = m /\ NodeOf(e.to, AllDrawn.nodes) = k
      BY <1>4, <1>8
    <3>3. link = [kind |-> e.kind, from |-> Meaning(NodeOf(e.from, AllDrawn.nodes)),
                  to |-> Meaning(NodeOf(e.to, AllDrawn.nodes))]
      BY <3>2
    <3> QED BY <1>3, <3>1, <3>3
  <2>2. PICK v \in Walks(graph) : Tip(v) = Meaning(m) /\ v.nodes[1] = Meaning(n)
    BY <1>8
  <2>3. Tip(v).kind \notin EffectKinds /\ link.from = Tip(v)
    BY <1>8, <2>2 DEF Meaning
  <2>4. \E w \in Walks(graph) : Tip(w) = link.to /\ w.nodes[1] = v.nodes[1]
    BY <1>2, <2>1, <2>3, WalkGoesOn
  <2> QED BY <2>2, <2>4
<1>9. SUFFICES ASSUME \A m \in own.nodes : Reached(m) => m.kind \notin EffectKinds
               PROVE  FALSE
  BY <1>7
<1> DEFINE S == {m.id : m \in {x \in own.nodes : Reached(x)}}
<1>10. S \in SUBSET {m.id : m \in own.nodes} /\ n.id \in S
  BY <1>6
<1>11. ASSUME NEW e \in own.edges, e.from \in S PROVE e.to \in S
  <2>1. PICK m \in own.nodes : m.id = e.from /\ Reached(m)
    BY <1>11
  <2>2. PICK k \in own.nodes : k.id = e.to
    BY CandidatePart
  <2> HIDE DEF Reached
  <2>3. Reached(k)
    BY <1>8, <1>9, <2>1, <2>2
  <2> QED BY <2>2, <2>3
<1>12. PICK m \in own.nodes : m.id \in S /\ m.kind \in EffectKinds
  BY <1>10, <1>11 DEF LeadsToEffect
<1>13. PICK k \in own.nodes : k.id = m.id /\ Reached(k)
  BY <1>12
<1>14. k = m
  BY <1>3, <1>12, <1>13, CandidatePart
<1> QED BY <1>9, <1>12, <1>13, <1>14

\* A complete trace has a chain of every behaviour that is drawn from an uncaused start
\* to an effect.
TraceIsWhole ==
    TraceComplete =>
        \A c \in Recorded(ledger) : \A n \in CouncilGraph({c}).nodes :
            n.kind \in StartKinds /\ Uncaused(n) /\ LeadsToEffect(CouncilGraph({c}), n)
                => c \in trace.chained

\* Only tracing makes a trace, and makes it once.
LEMMA TraceStays ==
    ASSUME [Next]_vars, ~TraceAnalysisGraph PROVE trace' = trace
<1>1. CASE UNCHANGED vars
  BY <1>1 DEF vars, validation
<1>2. CASE (\E p \in Paths, c \in Contents : Edit(p, c)) \/ ListSource
  BY <1>2 DEF Edit, ListSource, validation
<1>3. CASE \E p \in Paths : IndexFails(p) \/ IndexTooLarge(p) \/ IndexSourceFile(p)
  BY <1>3 DEF IndexFails, IndexTooLarge, IndexSourceFile, validation
<1>4. CASE (\E r \in Roles, batch \in SUBSET {c \in Candidates : Cites(c, index)} :
              SubmitCandidates(r, batch)) \/ FinalizeScan
  BY <1>4 DEF SubmitCandidates, FinalizeScan, validation
<1>5. CASE PrepareAnalysisValidation \/ FinalizeValidation \/ FinalizeReport
  BY <1>5 DEF PrepareAnalysisValidation, FinalizeValidation, FinalizeReport, validation
<1>6. CASE \E c \in Queue, type \in Types, v \in Reviewers :
             \E says \in Conclusions(type) : SubmitReview(c, type, v, says)
  BY <1>6 DEF SubmitReview, validation
<1>7. CASE \E c \in Queue, a \in Reviewers, severity \in Severities, chain \in BOOLEAN,
             ruling \in {"validated", "refuted", "unresolved"} :
             Adjudicate(c, a, ruling, severity, chain)
  BY <1>7 DEF Adjudicate, validation
<1> QED BY <1>1, <1>2, <1>3, <1>4, <1>5, <1>6, <1>7 DEF Next

\* A trace that describes the ledger goes on describing it.
LEMMA TraceKept ==
    ASSUME IInv, IInv', TraceIsWhole, [Next]_vars, trace # None PROVE TraceIsWhole'
<1>1. trace' = trace /\ submissions' = submissions
  <2>1. finalization # None
    BY DEF IInv, StageFollows
  <2>2. trace' = trace
    BY TraceStays DEF TraceAnalysisGraph
  <2>3. submissions' = submissions
    <3>1. CASE UNCHANGED vars
      BY <3>1 DEF vars, council
    <3>2. CASE (\E p \in Paths, c \in Contents : Edit(p, c)) \/ ListSource
      BY <3>2 DEF Edit, ListSource, council
    <3>3. CASE \E p \in Paths : IndexFails(p) \/ IndexTooLarge(p) \/ IndexSourceFile(p)
      BY <3>3 DEF IndexFails, IndexTooLarge, IndexSourceFile, council
    <3>4. CASE FinalizeScan \/ TraceAnalysisGraph \/ PrepareAnalysisValidation
      BY <3>4 DEF FinalizeScan, TraceAnalysisGraph, PrepareAnalysisValidation, council
    <3>5. CASE FinalizeValidation \/ FinalizeReport
      BY <3>5 DEF FinalizeValidation, FinalizeReport, council
    <3>6. CASE \E c \in Queue, type \in Types, v \in Reviewers :
                 \E says \in Conclusions(type) : SubmitReview(c, type, v, says)
      BY <3>6 DEF SubmitReview, council
    <3>7. CASE \E c \in Queue, a \in Reviewers, severity \in Severities, chain \in BOOLEAN,
                 ruling \in {"validated", "refuted", "unresolved"} :
                 Adjudicate(c, a, ruling, severity, chain)
      BY <3>7 DEF Adjudicate, council
    <3>8. ~\E r \in Roles, batch \in SUBSET {c \in Candidates : Cites(c, index)} :
               SubmitCandidates(r, batch)
      BY <2>1 DEF SubmitCandidates
    <3> QED BY <3>1, <3>2, <3>3, <3>4, <3>5, <3>6, <3>7, <3>8 DEF Next
  <2> QED BY <2>2, <2>3
<1>2. Recorded(ledger)' = Recorded(ledger)
  BY <1>1 DEF IInv, ScanIsFrozen, Submitted
<1>3. plugins # None => plugins'.of = plugins.of
  <2> SUFFICES ASSUME plugins # None PROVE plugins'.of = plugins.of
    OBVIOUS
  <2>1. plugins \in PluginRuns /\ index \in Indexes
    BY DEF IInv, TypeOK
  <2>2. ASSUME NEW ix \in Indexes, Advance(ix) PROVE plugins'.of = plugins.of
    BY <2>1, <2>2, PluginsKeep DEF Advance
  <2>3. CASE ListSource
    <3>1. CASE index.enumerated \/ index.truncated
      BY <2>1, <2>2, <2>3, <3>1 DEF ListSource
    <3>2. CASE ~(index.enumerated \/ index.truncated)
      <4>1. PICK S \in SUBSET Paths :
               Advance(RecordIndexEnumeration(index, Listing(S), S = Paths, S # Paths))
        BY <2>3, <3>2 DEF ListSource
      <4>2. RecordIndexEnumeration(index, Listing(S), S = Paths, S # Paths) \in Indexes
        BY <2>1, EnumerationType, ListingType DEF IInv, TypeOK
      <4> QED BY <2>2, <4>1, <4>2
    <3> QED BY <3>1, <3>2
  <2>4. ASSUME NEW p \in Paths, IndexSourceFile(p) PROVE plugins'.of = plugins.of
    <3>1. RecordIndexedFile(index, p, WholeReading(p)) \in Indexes
      BY <2>4, IndexingType DEF IInv, IndexSourceFile
    <3> QED BY <2>2, <2>4, <3>1 DEF IndexSourceFile
  <2>5. ListSource \/ (\E p \in Paths : IndexSourceFile(p)) \/ UNCHANGED plugins
    <3>1. CASE UNCHANGED vars
      BY <3>1 DEF vars, source
    <3>2. CASE \E p \in Paths, c \in Contents : Edit(p, c)
      BY <3>2 DEF Edit
    <3>3. CASE \E p \in Paths : IndexFails(p) \/ IndexTooLarge(p) \/ IndexSourceFile(p)
      BY <3>3 DEF IndexFails, IndexTooLarge
    <3>4. CASE (\E r \in Roles, batch \in SUBSET {c \in Candidates : Cites(c, index)} :
                  SubmitCandidates(r, batch)) \/ FinalizeScan \/ TraceAnalysisGraph
      BY <3>4 DEF SubmitCandidates, FinalizeScan, TraceAnalysisGraph, source
    <3>5. CASE PrepareAnalysisValidation \/ FinalizeValidation \/ FinalizeReport
      BY <3>5 DEF PrepareAnalysisValidation, FinalizeValidation, FinalizeReport, source
    <3>6. CASE \E c \in Queue, type \in Types, v \in Reviewers :
                 \E says \in Conclusions(type) : SubmitReview(c, type, v, says)
      BY <3>6 DEF SubmitReview, source
    <3>7. CASE \E c \in Queue, a \in Reviewers, severity \in Severities, chain \in BOOLEAN,
                 ruling \in {"validated", "refuted", "unresolved"} :
                 Adjudicate(c, a, ruling, severity, chain)
      BY <3>7 DEF Adjudicate, source
    <3> QED BY <3>1, <3>2, <3>3, <3>4, <3>5, <3>6, <3>7 DEF Next
  <2> QED BY <2>3, <2>4, <2>5
<1>4. ASSUME NEW c \in Recorded(ledger), NEW n, Uncaused(n)' PROVE Uncaused(n)
  <2>1. plugins'.of = plugins.of
    BY <1>3 DEF IInv, PluginsSawCandidates
  <2>2. AllDrawn' = AllDrawn
    BY <1>2, <2>1 DEF AllDrawn
  <2> QED BY <1>4, <2>2 DEF Uncaused
<1> QED BY <1>1, <1>2, <1>4 DEF TraceIsWhole, TraceComplete

\* A trace describes the ledger when it is made.
LEMMA TraceMade ==
    ASSUME IInv, IInv', [Next]_vars, trace = None PROVE TraceIsWhole'
<1>1. CASE TraceAnalysisGraph
  <2>1. /\ UNCHANGED <<ledger, plugins>>
        /\ trace'.complete = CouncilTrace.complete
        /\ trace'.chained = {c \in Recorded(ledger) : Chained(c, CouncilTrace)}
    BY <1>1 DEF TraceAnalysisGraph, council, source
  <2>2. AllDrawn' = AllDrawn
    BY <2>1 DEF AllDrawn
  <2>3. TraceComplete' => CouncilTrace.complete
    BY <2>1 DEF TraceComplete
  <2>4. ASSUME CouncilTrace.complete, NEW c \in Recorded(ledger),
               NEW n \in CouncilGraph({c}).nodes, n.kind \in StartKinds, Uncaused(n)',
               LeadsToEffect(CouncilGraph({c}), n)
        PROVE  c \in trace'.chained
    <3>1. Uncaused(n)
      BY <2>2, <2>4 DEF Uncaused
    <3> QED BY <2>1, <2>4, <3>1, BehaviorIsChained
  <2> QED BY <2>1, <2>3, <2>4 DEF TraceIsWhole
<1>2. CASE ~TraceAnalysisGraph
  <2>1. trace' = None
    BY <1>2, TraceStays
  <2> QED BY <2>1 DEF TraceIsWhole, TraceComplete
<1> QED BY <1>1, <1>2

\* What is traced, validated and decided upon is what was submitted before the scan was
\* finalized, and a complete trace misses no behaviour that the council has drawn.
THEOREM TraceDescribes == Spec => []TraceDescribesLedger
<1>1. Init => TraceIsWhole
  BY DEF Init, TraceIsWhole, TraceComplete
<1>2. IInv /\ IInv' /\ TraceIsWhole /\ [Next]_vars => TraceIsWhole'
  BY TraceKept, TraceMade
<1>3. Spec => []TraceIsWhole
  BY <1>1, <1>2, Invariance, PTL DEF Spec
<1>4. IInv /\ TraceIsWhole => TraceDescribesLedger
  <2> SUFFICES ASSUME IInv, TraceIsWhole PROVE TraceDescribesLedger
    OBVIOUS
  <2>1. /\ finalization # None =>
             Recorded(ledger) = UNION {submissions[r] : r \in finalization}
        /\ trace # None => trace.of = Recorded(ledger)
    BY DEF IInv, ScanIsFrozen
  <2>2. decision # None => decision.findings = ledger
    BY DEF IInv, DecisionFollows
  <2> QED BY <2>1, <2>2 DEF TraceDescribesLedger, TraceIsWhole
<1> QED BY <1>3, <1>4, Invariance, PTL

=============================================================================
