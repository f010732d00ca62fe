---------------------------- MODULE Acquisition ----------------------------
(***************************************************************************)
(* API-direct acquisition of one audit: zerotrust_safe_list_tree lists the *)
(* pinned commit's tree piece by piece, zerotrust_safe_fetch_file fetches  *)
(* its blobs one by one, and four ledgers follow them, each with its own   *)
(* notion of being complete: the enumeration of subtrees, the coverage of  *)
(* mandatory fetches, the analysis index with its plugin run (SourceIndex) *)
(* and the object inventory of the assurance pipeline with what was        *)
(* decoded from it.  Every handler is synchronous, so a step is a call.    *)
(*                                                                         *)
(* The commit is fixed: a tree or a blob is named by its hash, and what    *)
(* the API returns under another one is refused, so a listing or a fetch   *)
(* returns that object, part of it, or fails.                              *)
(***************************************************************************)
EXTENDS Decoding

CONSTANTS
    Trees,          \* paths of the directories, the root among them
    Root,
    Repositories,   \* the commits an audit may be about
    MaxFailures,    \* MAX_TRACKED_FAILURE_EVENTS
    MaxDetours      \* bound: calls that do not continue the acquisition

Nodes == Paths \cup Trees

\* above: the directories a node is in, each within the next.  big: trees whose
\* recursive listing is truncated; huge: whose own entries are.  The caps of the
\* code, on tracked entries and subtrees, are the repository's: it has more nodes
\* than fit, or not.
ASSUME RepositoryAssumption ==
    /\ IsFiniteSet(Trees) /\ Root \in Trees /\ Paths \cap Trees = {} /\ None \notin Nodes
    /\ MaxFailures \in Nat /\ MaxDetours \in Nat
    /\ \A r \in Repositories :
         /\ r.above \in [Nodes -> SUBSET Trees] /\ r.above[Root] = {}
         /\ \A n \in Nodes \ {Root} : Root \in r.above[n] /\ n \notin r.above[n]
         /\ \A n \in Nodes : \A t \in r.above[n] : r.above[t] \subseteq r.above[n]
         /\ \A n \in Nodes : \A t, u \in r.above[n] : t = u \/ t \in r.above[u] \/ u \in r.above[t]
         /\ r.blob \in [Paths -> Contents] /\ r.executable \subseteq Paths
         /\ r.big \subseteq Trees /\ r.huge \subseteq r.big
         /\ r.maxEntries \in Nat /\ r.maxSubtrees \in Nat

VARIABLES
    repo,       \* the repository at the pinned commit
    tree,       \* treeEnumerationState
    coverage,   \* acquisitionCoverageState
    index,      \* analysisIndexState
    plugins,    \* the plugin run
    stage,      \* of the baseline analysis
    assurance,  \* of the assurance container: stage and snapshot
    detours

vars == <<repo, tree, coverage, index, plugins, stage, assurance, detours>>

Enumerations == [discovered: SUBSET Trees, unresolved: SUBSET Trees, completed: SUBSET Trees,
                 entries: SUBSET Nodes, blockers: SUBSET Trees,
                 stateTrackingTruncated: BOOLEAN, discoveryTruncated: BOOLEAN]

\* OUTCOME_RANK, worst first.
OutcomeRank == [not_fetched |-> 0, failure |-> 1, metadata_only |-> 2, oversized |-> 3,
                truncated_text |-> 4, binary |-> 5, full_text |-> 6]
Outcomes == DOMAIN OutcomeRank
Scopes == {"mandatory", "council_sample"}

Coverages == [enumerated: SUBSET Paths, best: [Paths -> Outcomes], mandatory: [Paths -> Outcomes],
              enumerationFailures: 0..MaxFailures, enumerationFailuresTruncated: BOOLEAN,
              fetchFailures: 0..MaxFailures, fetchFailuresTruncated: BOOLEAN]

\* objects: the blobs whose fetched bytes have the hash of the tree; clear: no
\* object is missing; sound: decoding reported no blocker.
Snapshots == [objects: SUBSET Paths, clear: BOOLEAN, decoded: SUBSET Paths, sound: BOOLEAN]
Assurances == [stage: {"acquired", "inventoried", "decoded"}, snapshot: Snapshots \cup {None}]

ASSUME NoneSnapshotAssumption == None \notin Snapshots

TypeOK ==
    /\ repo \in Repositories
    /\ tree \in {None} \cup Enumerations
    /\ coverage \in Coverages
    /\ index \in Indexes
    /\ plugins \in {None} \cup PluginRuns
    /\ stage \in {"acquired", "prepared"}
    /\ assurance \in Assurances
    /\ detours \in 0..MaxDetours

Init ==
    /\ repo \in Repositories
    /\ tree = None
    /\ coverage = [enumerated |-> {}, best |-> [p \in Paths |-> "not_fetched"],
                   mandatory |-> [p \in Paths |-> "not_fetched"],
                   enumerationFailures |-> 0, enumerationFailuresTruncated |-> FALSE,
                   fetchFailures |-> 0, fetchFailuresTruncated |-> FALSE]
    /\ index = EmptyIndex
    /\ plugins = None
    /\ stage = "acquired"
    /\ assurance = [stage |-> "acquired", snapshot |-> None]
    /\ detours = 0

-----------------------------------------------------------------------------
(* What the API lists of a tree.                                           *)

Inside(t) == {n \in Nodes : t \in repo.above[n]}
Children(t) == {n \in Nodes : repo.above[n] = repo.above[t] \cup {t}}

\* The recursive listing when it is whole, else the direct one, whole or cut.
Listings(t) ==
    IF t \notin repo.big THEN {[nodes |-> Inside(t), kind |-> "recursive"]}
    ELSE IF t \notin repo.huge THEN {[nodes |-> Children(t), kind |-> "direct"]}
    ELSE {[nodes |-> part, kind |-> "cut"] : part \in SUBSET Children(t)}

\* The first of the new items, in the order of a listing, that a cap leaves room for.
Fitting(old, new, max) ==
    LET added == new \ old
        room == max - Cardinality(old)
    IN  IF Cardinality(added) <= room THEN {added}
        ELSE {kept \in SUBSET added : Cardinality(kept) = room}

-----------------------------------------------------------------------------
(* treeEnumerationState                                                    *)

NewEnumeration ==
    [discovered |-> {Root}, unresolved |-> {Root}, completed |-> {}, entries |-> {},
     blockers |-> {}, stateTrackingTruncated |-> FALSE, discoveryTruncated |-> FALSE]

Enumeration == IF tree = None THEN NewEnumeration ELSE tree

\* The root is not listed again once it was split.
AlreadyComplete(st, t) ==
    \/ t \in st.completed
    \/ t = Root /\ Root \notin st.unresolved

MarkSubtreeComplete(st, t) ==
    [st EXCEPT !.completed = @ \cup {t},
               !.unresolved = @ \ (Inside(t) \cup {t}),
               !.blockers = @ \ (Inside(t) \cup {t})]

\* Mutant: child trees that are complete become unresolved again.
SplitUnresolvedSubtree_Completed(st, t, childTrees) ==
    [st EXCEPT !.unresolved = (@ \ {t}) \cup childTrees]

\* Child trees that are not complete are unresolved, again if they were split before.
SplitUnresolvedSubtree(st, t, childTrees) ==
    [st EXCEPT !.unresolved = (@ \ {t}) \cup (childTrees \ st.completed)]

\* Mutant: a listing that was cut blocks nothing when it shows a child tree.
AddCoverageBlocker_Leaf(st, t, listing, childTrees) ==
    IF childTrees = {} THEN [st EXCEPT !.blockers = @ \cup {t}] ELSE st

AddCoverageBlocker(st, t, listing, childTrees) ==
    IF listing.kind = "cut" \/ childTrees = {} THEN [st EXCEPT !.blockers = @ \cup {t}] ELSE st

\* Discovery, completion or split, and the entries, as one listing leaves them.
Merge(st, t, listing, trees, entries) ==
    LET found == listing.nodes \cap Trees
        discovered == [st EXCEPT
            !.discovered = @ \cup trees,
            !.discoveryTruncated = @ \/ ~(found \subseteq st.discovered \cup trees)]
        childTrees == found \cap discovered.discovered
        resolved == IF listing.kind = "recursive" THEN MarkSubtreeComplete(discovered, t)
                    ELSE AddCoverageBlocker(SplitUnresolvedSubtree(discovered, t, childTrees),
                                            t, listing, childTrees)
    IN  [resolved EXCEPT
            !.entries = @ \cup entries,
            !.stateTrackingTruncated = @ \/ ~(listing.nodes \subseteq st.entries \cup entries)]

EnumerationComplete(st) ==
    /\ st # None
    /\ st.unresolved = {} /\ st.blockers = {}
    /\ ~st.stateTrackingTruncated /\ ~st.discoveryTruncated

-----------------------------------------------------------------------------
(* acquisitionCoverageState                                                *)

ChooseBetter(current, candidate) ==
    IF OutcomeRank[candidate] > OutcomeRank[current] THEN candidate ELSE current

RecordFetchAttempt(cov, p, scope, outcome) ==
    [cov EXCEPT !.best[p] = ChooseBetter(@, outcome),
                !.mandatory[p] = IF scope = "mandatory" THEN ChooseBetter(@, outcome) ELSE @]

\* Mutant: failures are counted past the cap.
RecordFetchFailure_Unbounded(cov, p, scope) ==
    RecordFetchAttempt([cov EXCEPT !.fetchFailures = @ + 1], p, scope, "failure")

RecordFetchFailure(cov, p, scope) ==
    RecordFetchAttempt([cov EXCEPT !.fetchFailures = Capped(@ + 1, MaxFailures),
                                   !.fetchFailuresTruncated = @ \/ cov.fetchFailures = MaxFailures],
                       p, scope, "failure")

RecordEnumerationFailure(cov) ==
    [cov EXCEPT !.enumerationFailures = Capped(@ + 1, MaxFailures),
                !.enumerationFailuresTruncated = @ \/ cov.enumerationFailures = MaxFailures]

\* mandatoryCompletionKind: text returned and scanned whole, or binary with its preview.
Classified == {"full_text", "binary"}

\* buildCoverageSnapshot: requiredAcquisitionComplete
RequiredAcquisitionComplete ==
    /\ EnumerationComplete(tree)
    /\ ~coverage.enumerationFailuresTruncated /\ ~coverage.fetchFailuresTruncated
    /\ \A p \in coverage.enumerated : coverage.mandatory[p] \in Classified

-----------------------------------------------------------------------------
(* The assurance container: object inventory and decoding.                 *)

\* The bytes were fetched, whatever was returned of them, and their git hash
\* recomputed; what is too large by the size in the tree is not fetched at all.
Verified(cov, p) ==
    cov.best[p] \in {"metadata_only", "truncated_text", "binary", "full_text"}

InventoryOf(st, cov, decoded, sound) ==
    LET blobs == st.entries \cap Paths
        objects == {p \in blobs : Verified(cov, p)}
    IN  [objects |-> objects, clear |-> EnumerationComplete(st) /\ objects = blobs,
         decoded |-> decoded, sound |-> sound]

\* A rebuilt inventory in which the object of a decoded artifact has changed is
\* not valid, and the old snapshot stays.  At the step to inventoried the one
\* built by a fetch keeps what was decoded before, the one built by a listing
\* does not.
PersistInventory(st, cov, keeps) ==
    LET old == assurance.snapshot
        decoded == IF old = None THEN {} ELSE old.decoded
        sound == old = None \/ old.sound
        built == InventoryOf(st, cov, decoded, sound)
    IN  IF assurance.stage = "decoded" \/ ~(decoded \subseteq built.objects) THEN assurance
        ELSE IF ~built.clear \/ assurance.stage = "inventoried"
        THEN [assurance EXCEPT !.snapshot = built]
        ELSE [stage |-> "inventoried",
              snapshot |-> IF keeps THEN built ELSE InventoryOf(st, cov, {}, TRUE)]

\* Mutant: an artifact decoded last completes the decoding.
DerivedSnapshotCanAdvance_LastOnly(a, p) == a.stage = "inventoried" /\ p \in a.snapshot.decoded

DerivedSnapshotCanAdvance(a, p) ==
    /\ a.stage = "inventoried"
    /\ a.snapshot.clear /\ a.snapshot.sound
    /\ a.snapshot.objects \subseteq a.snapshot.decoded

\* An object of mode 755 is taken for a binary, a script as well.
DerivedFrom(p) == Decoded[repo.blob[p]][(p \in repo.executable)]

\* persistGitDerivedAnalysis, for bytes that were fetched.
PersistDerived(a, p) ==
    IF a.snapshot = None \/ a.stage = "decoded" THEN a
    ELSE IF p \notin a.snapshot.objects THEN a
    ELSE LET b == [a EXCEPT !.snapshot.decoded = @ \cup {p},
                            !.snapshot.sound = @ /\ DerivedFrom(p).clean]
         IN  IF DerivedSnapshotCanAdvance(b, p) THEN [b EXCEPT !.stage = "decoded"] ELSE b

-----------------------------------------------------------------------------
(* The two handlers.                                                       *)

\* maybeAdvanceAnalysisPrepared, on the new index.
Advance(ix) ==
    /\ index' = ix
    /\ plugins' = RunAnalysisPlugins(ix, plugins)
    /\ stage' = Prepared(stage, ix, plugins')

\* Calls the packet does not ask for are bounded.
Detour(continues) ==
    /\ continues \/ detours < MaxDetours
    /\ detours' = IF continues THEN detours ELSE detours + 1

\* Mutant: the index is told that the tree is listed when no subtree is left,
\* whatever was cut.
PersistListing_IgnoresCuts(st, nodes) ==
    LET cov == [coverage EXCEPT !.enumerated = @ \cup (nodes \cap Paths)]
        entries == [p \in st.entries \cap Paths |-> Pending(repo.blob[p], Size[repo.blob[p]])]
    IN  /\ tree' = st
        /\ coverage' = cov
        /\ Advance(RecordIndexEnumeration(index, entries, st.unresolved = {}, FALSE))
        /\ assurance' = PersistInventory(st, cov, FALSE)
        /\ UNCHANGED repo

\* The ledgers a listing writes after the enumeration: coverage, index, inventory.
PersistListing(st, nodes) ==
    LET cov == [coverage EXCEPT !.enumerated = @ \cup (nodes \cap Paths)]
        entries == [p \in st.entries \cap Paths |-> Pending(repo.blob[p], Size[repo.blob[p]])]
    IN  /\ tree' = st
        /\ coverage' = cov
        /\ Advance(RecordIndexEnumeration(index, entries, EnumerationComplete(st),
                                          st.stateTrackingTruncated \/ st.discoveryTruncated))
        /\ assurance' = PersistInventory(st, cov, FALSE)
        /\ UNCHANGED repo

\* safeListTreeHandler.  A call without a subtree asks for the root.
ListTree(t) ==
    LET st == Enumeration
    IN  /\ t \in st.discovered
        /\ Detour(t \in st.unresolved \/ AlreadyComplete(st, t))
        /\ IF AlreadyComplete(st, t) THEN PersistListing(st, {})
           ELSE \E listing \in Listings(t) :
                \E trees \in Fitting(st.discovered, listing.nodes \cap Trees, repo.maxSubtrees) :
                \E entries \in Fitting(st.entries, listing.nodes, repo.maxEntries) :
                    PersistListing(Merge(st, t, listing, trees, entries), listing.nodes)

\* A failed call leaves the enumeration as it was, and counts.
ListTreeFails(t) ==
    /\ t \in Enumeration.discovered /\ ~AlreadyComplete(Enumeration, t)
    /\ coverage' = RecordEnumerationFailure(coverage)
    /\ UNCHANGED <<repo, tree, index, plugins, stage, assurance, detours>>

\* What fetchFile may return of a content, by the caps the call asks for.
OutcomesOf(c) ==
    IF c \in Opaque THEN {"metadata_only", "oversized"}
    ELSE IF c \in Binary THEN {"binary", "oversized"}
    ELSE {"full_text", "truncated_text", "oversized"}

Whole(c) == OutcomesOf(c) \ {"truncated_text", "oversized"}

ReadingOf(c, outcome) ==
    [size |-> Size[c], blob |-> c, whole |-> outcome \in Classified,
     hash |-> IF outcome = "oversized" THEN None ELSE c]

\* safeFetchFileHandler.  The coverage is updated first; a mandatory fetch that
\* the index refuses, of a path the enumeration did not keep or of a text that was
\* cut, ends there.
Fetch(p, scope, outcome) ==
    LET c == repo.blob[p]
        cov == RecordFetchAttempt(coverage, p, scope, outcome)
        reading == ReadingOf(c, outcome)
        refused == scope = "mandatory" /\ ~Accepted(index.file[p], reading)
        inventory == PersistInventory(tree, cov, TRUE)
    IN  /\ tree # None /\ p \in coverage.enumerated
        /\ outcome \in OutcomesOf(c)
        /\ Detour(outcome \in Whole(c))
        /\ coverage' = cov
        /\ IF refused \/ scope # "mandatory" THEN UNCHANGED <<index, plugins, stage>>
           ELSE Advance(RecordIndexedFile(index, p, reading))
        /\ assurance' = IF refused THEN assurance
                        ELSE IF outcome = "oversized" THEN inventory
                        ELSE PersistDerived(inventory, p)
        /\ UNCHANGED <<repo, tree>>

FetchFails(p, scope) ==
    /\ tree # None /\ p \in coverage.enumerated
    /\ coverage' = RecordFetchFailure(coverage, p, scope)
    /\ UNCHANGED <<repo, tree, index, plugins, stage, assurance, detours>>

Next ==
    \/ \E t \in Trees : ListTree(t) \/ ListTreeFails(t)
    \/ \E p \in Paths, scope \in Scopes :
         \/ FetchFails(p, scope)
         \/ \E outcome \in Outcomes : Fetch(p, scope, outcome)

\* "Continue until coverageComplete === true", "fetch every enumerated blob as
\* mandatory": the agent goes on, and a call that goes on failing is repeated.
Continue(t) == t \in Enumeration.unresolved /\ ListTree(t)
FetchWhole(p) == \E outcome \in Outcomes \cap Whole(repo.blob[p]) : Fetch(p, "mandatory", outcome)

Fairness ==
    /\ WF_vars(\E t \in Trees : Continue(t))
    /\ WF_vars(\E p \in Paths : FetchWhole(p))

Spec == Init /\ [][Next]_vars /\ Fairness

-----------------------------------------------------------------------------
(* What makes the acquisition right.                                       *)

\* requiredAcquisitionComplete, which opens the council scan and every trusted
\* verdict, is about the whole tree of the commit, in whatever pieces it was
\* listed and whatever was truncated: every blob of it, not only every one that
\* was enumerated, was fetched for it and classified (buildCoverageSnapshot).
CompleteCoversTree ==
    RequiredAcquisitionComplete =>
        \A p \in Paths : coverage.mandatory[p] = (IF repo.blob[p] \in Binary
                                                  THEN "binary" ELSE "full_text")

\* The analysis is prepared only on an index of the whole tree, although the
\* index follows only some of the calls: every blob is in it as the commit has
\* it, with its facts.
PreparedOnWholeTree ==
    [][stage # stage' => \A p \in Paths : /\ index'.file[p] # None
                                          /\ index'.file[p].content = repo.blob[p]
                                          /\ FactsOf(p, ReadingOf(repo.blob[p], "full_text"))
                                               \subseteq index'.facts]_vars

\* The assurance pipeline goes on to semantic review only with every blob of the
\* commit in its inventory and decoded without a blocker, whichever of the two
\* handlers built the inventory last; and then every payload nested in a blob,
\* through whatever archives and literals, was looked at, unless the blob's
\* literals used up its budget (derivedSnapshotCanAdvance, processPayload).
DecodedWholeTree ==
    assurance.stage = "decoded" =>
        \A p \in Paths : /\ p \in assurance.snapshot.objects \cap assurance.snapshot.decoded
                         /\ DerivedFrom(p).clean
                         /\ ReadWhole(repo.blob[p], DerivedFrom(p)) \/ BudgetSpent(DerivedFrom(p))

Readable ==
    /\ repo.huge = {}
    /\ \A t \in repo.big : Children(t) \cap Trees # {}
    /\ Cardinality(Nodes) <= repo.maxEntries /\ Cardinality(Trees) <= repo.maxSubtrees
    /\ Cardinality(Paths) <= MaxFacts
    /\ \A p \in Paths : /\ repo.blob[p] \notin Opaque \cup Dense \cup Breaking
                       /\ DerivedFrom(p).clean

Acquired ==
    /\ RequiredAcquisitionComplete /\ IndexComplete(index)
    /\ stage = "prepared" /\ assurance.stage = "decoded"

TooManyFailures ==
    coverage.enumerationFailuresTruncated \/ coverage.fetchFailuresTruncated

\* "Continue until ...": of a commit within the caps, whose blobs are all text or
\* binary, an agent that goes on gets all four ledgers complete at once, for good,
\* whatever it listed twice, sampled, got cut or failed to get on the way; unless so
\* many calls failed that the failures were no longer tracked.
AcquisitionEnds == Readable ~> [](Acquired \/ TooManyFailures)

=============================================================================
