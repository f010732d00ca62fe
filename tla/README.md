# TLA+ models of the Copilot CLI extensions

This directory holds a TLA+ development of the extensions in this repository:
modules that describe what the code does, configurations that check them with
TLC on small instances, and proofs, checked by TLAPS, that some of the
properties hold for every instance.  `PROJECT.json` lists the parts of the
system, the runs, the properties with a mutant of the code each of them
catches, the source lines behind every definition, the hazards the properties
are for, and the theorems.

## The system

The repository is a set of extensions of the Copilot CLI.  Every CLI session
starts one process per extension; the process registers tools and hooks with
`joinSession` and keeps its state in JavaScript variables.  The code runs on one
JavaScript thread, so what runs between two `await`s is atomic, and everything
else interleaves: hooks of concurrent tool calls, tool handlers, events.
Different sessions are different processes and share only the disk.

| Part | State it keeps | Operations |
| --- | --- | --- |
| **zerotrust-sourcecheck: audit sessions** (`enforcement.mjs`, `state.mjs`, `lifecycleWrapper.mjs`) | `activeAudits`: at most one audit per session with its TTL, pins (commit, clone path, artifact paths) and analysis states; council outcome, council ledger and cache binding per session | `activateAudit`, `getActiveAudit` (expires), `recordResolved*` (first write wins), `closeAuditHandler` |
| **assurance pipeline** (`enforcement.mjs`, `analysis/*`, the semantic, red-team, graph and validation wrappers) | the container `audit.assurance`: nine-stage `stageState`, the analysis snapshot, the supply-chain graph, and for each phase a plan, the snapshot it is bound to, the records handed in, and their evaluation | inventory and decode, prepare / assign / record / finalize of each phase, finalize the report |
| **baseline analysis and council** (`findingLedgerWrapper`, `traceWrapper`, `validationWrapper`) | analysis index, plugin run, coverage, trusted ledger, validation, decision snapshot | index, scan, submit, trace, confirm / refute / adjudicate, decide, report |
| **acquisition** (`safeListTreeHandler`, `safeFetchHandler`, `coverageAccounting`, `derivedArtifacts` and its readers) | subtree enumeration, blob accounting, index, object inventory with decoded artifacts | list, fetch, decode |
| **report finalization, host gate** (`reportWrapper`, `finalizedReportGate`, `buildWrapper`, `installWrapper`) | report and findings files on disk, the record of them in the audit | finalize (publish pair, read back, record, seal), install and build (gate, then execute) |
| **clone, cleanup, purge, quarantine** (`cloneWrapper`, `cleanupWrapper`, `autoPurge`, `quarantineWrapper`) | directories under the build root, shared by sessions and named by a hash of owner, repository and commit | clone, clean up, purge by age, close |
| **release assets** (`releaseAsset*Wrapper`) | enumeration and coverage in the audit, files in the quarantine | list, download, clean up; awaits the network |
| **dependencies** (`dependencyFetchWrapper`, `supplyChainGraph`) | one graph in the audit | inventory, analyse; awaits the network |
| **metadata cache** (`cacheWrapper`, `cache.mjs`) | one file per entry, shared by sessions | store, load, list, clean up |
| **mcp-autoreload** (`extension.mjs`) | cached server names and their refresh, armed servers, shared reload promises | post-tool-use hook, status event, `mcp_reload_now` |
| **orchestrators** (`triple-*`, `debate`, `duck-council`) | none | one call that validates arguments and returns text |
| **packets, rendering, scanners, path validation, `_shared`** | none | pure functions |

How they interact.  A zerotrust tool activates an audit in its session; the
other tools look that audit up by session and refuse when there is none or it
expired.  Acquisition leaves an index for the council and a snapshot for the assurance
container; reviewers (model instances the agent starts, untrusted) hand evidence in
through the wrappers, in any order and with retries; each pipeline decides when a
stage is earned; the report wrapper publishes a report and seals the last stage; the
host gate admits install and build commands only on such a report.
`mcp-autoreload` shares nothing with the others but the process model: its hook
sees every tool call.

What is hard.  Evidence arrives from several reviewers in any order; every
handler stores its result before a later call validates it; four ledgers follow one
listing, each with its own notion of complete; a dependency audit
may replace the snapshot or the graph between two phases; the tree may be edited
between two readings; an audit may expire between or during calls, and an awaited answer
arrive in the next one; files and memory are updated one after the other; sessions
share directories; hooks run concurrently with a host that changes
server states at any time.  `PROJECT.json` lists these hazards, each at its line.

What makes each part correct:

* assurance pipeline: no sequence of calls leaves a container its own
  validation rejects; no stage without its evidence; reviews are independent;
  the sealed snapshot is the reviewed one; every candidate is decided; evidence is
  never rewritten;
* audit sessions: what a session stores beside its audit belongs to that audit;
  pins are written once; the record of a report is final;
* report and gate: no host command without the audit's own sealed record and
  the pair of files it describes; a failed finalization leaves no half pair;
* clone and cleanup: an audit acts on its own clone only;
* council: a verdict rests on all that was submitted, on three independent
  reviews of each candidate, and on the bytes that are indexed;
* acquisition: what is called complete is the whole tree, and every payload nested in it;
* release assets: a verdict needs the whole release; the quarantine's files are accountable;
* dependencies: a graph without a blocker is whole, verified and of the audit's own tree;
* metadata cache: caps, whole entries, and answers about the active source only;
* mcp-autoreload: concurrent failures share one reload; advice is decided on its
  outcome; every hook returns.

## Modules

| Module | Extends | What it is |
| --- | --- | --- |
| `SourceIndex` | | the analysis index and the plugin run, as operators on values |
| `BehaviorGraph` | `SourceIndex` | the council's graph: merge and trace |
| `Decision` | `BehaviorGraph` | from a ledger to a verdict |
| `Council` | `Decision` | a council audit of a tree that is edited meanwhile |
| `AuditVerdict` | | what a council audit promises; `Council` implements it |
| `Decoding` | `SourceIndex` | archives, literals and what is nested in them |
| `Acquisition` | `Decoding` | listing and fetching a commit through the API |
| `SemanticCoverage` | | who must read which object, and what reviewers are shown |
| `RedTeam` | `SemanticCoverage` | the subjects of each red-team category |
| `EvasiveGraph` | `RedTeam` | the assurance behaviour graph and its trace |
| `Assurance` | `EvasiveGraph` | the assurance container of one audit and every handler that changes it |
| `AuditSession` | | sessions, their audits, and the clones and reports on the disk they share |
| `ReleaseAssets` | | a release's assets and the quarantine |
| `SupplyChain` | | lockfiles, registries, archives and the graph of them |
| `MetadataCache` | | the cache's files under concurrent processes |
| `McpAutoreload` | | the mcp-autoreload extension and the host it talks to |
| `AssuranceProofs`, `AuditSessionProofs`, `CouncilProofs`, `AcquisitionProofs`, `ReleaseAssetsProofs`, `SupplyChainProofs`, `MetadataCacheProofs`, `McpAutoreloadProofs` | the module they are named for | inductive invariants and theorems |
| `MC*` | the module they are named for | small instances for TLC |

The modules without variables (`SourceIndex` to `Decision`, `Decoding`,
`SemanticCoverage` to `EvasiveGraph`) hold what the code computes; the ones that extend
them hold the calls.

### Assurance, with SemanticCoverage, RedTeam and EvasiveGraph

One audit, one variable per field of the container.  A stage is its index in
`ASSURANCE_STAGES`; the stage history the code keeps is the prefix up to it.
Every handler that touches the container is synchronous from
`ensureAssuranceState` to its last assignment, so one handler is one action,
including the re-evaluation and the stage change it ends with.  `Next` has
`ContainerValid` as a conjunct because every handler revalidates the container
and throws when it is invalid.

| Actions | Code |
| --- | --- |
| `ListSource`, `IndexFile` | `persist*ObjectInventory` and `persist*DerivedAnalysis` of the list, fetch and index wrappers |
| `DependencyAudit` | `dependencyHandler`: `recordAssuranceSnapshot`, then `recordAssuranceSupplyChainGraph` |
| `PrepareSemanticCoverage`, `RecordSemanticScannerCoverage`, `IssueSemanticReviewAssignment`, `RecordSemanticReview` | the functions of these names in `enforcement.mjs` with `storeSemanticEvaluation` |
| `PrepareRedTeam`, `IssueRedTeamAssignment`, `RecordRedTeamReview`, `FinalizeRedTeam` | the same for the red team |
| `PrepareEvasiveGraph`, `TraceEvasiveGraphState` | behaviour graph and trace |
| `PrepareAssuranceValidation`, `RecordAssuranceValidation`, `FinalizeAssuranceValidation` | validation |
| `FinalizeAssuranceReport`, `FinalizeOtherReport` | `finalizeReportHandler` up to the stage it seals, and its two other flows |

`ContainerValid` is `validateAssuranceStateContainer`, part by part.  What a handler
computes is in the three modules below it:

* `SemanticCoverage`: the class of an object from its kind and path, whether a scanner and
  how many reviewers must read it (`RequiredReviewers`: two for high risk, which an
  injected document is), the facts and artifacts of the view a reviewer is shown and whether it
  names all its targets (`ViewComplete`), and the evaluation (`EvaluateSemanticCoverage`);
* `RedTeam`: the discovery edges between objects, artifacts and facts, the subjects a
  category's rule selects, the part of the graph it is handed, and when its review counts;
* `EvasiveGraph`: nodes and edges of the behaviour graph from facts, imports, derived
  artifacts, packages and candidates, the pairs of edges that contradict one another and are
  dropped (TRACE_CONFLICT), and the trace: complete when every path from a root ends within
  the depth limit, meets no cycle and no unresolved target.

Abstraction.  Digests, identifiers and timestamps are replaced by what they
identify: two plans "of the same digest" are equal plans, and a plan is the evidence it
is built from.  A candidate is named by the object or category whose reviewer reported it.
An object has one scanner report, which merges the ones of the texts decoded from it, and one
artifact.  The many blocker codes of a plan or trace are one bit that says whether any of
them is left; edge kinds are told apart where two edges can contradict.  What a
reviewer, scanner or validator concludes is not the code's decision and is arbitrary,
but the inputs a wrapper refuses are left out.  The prompt assessment is the set of
views that were handed in and whether a text tries to instruct its reader (`Injected`).  Caps on
branches, paths, bindings and nodes, LFS pointers, evidence records and
the limits of procedural independence that the code reports but does not enforce
(`semanticCoverage.mjs:1409`) are not modelled.

### AuditSession

Sessions are processes; each has at most one audit in memory (`audit[s]`), what it
keeps beside it (`kept[s]`, by store the id of the audit it names) and the handler
it runs (`handler[s]`).  The build root is shared: `clones`, and `findings` and
`report`, the two files of a report pair, each by commit with the audit that wrote it.

A handler is synchronous, so one session runs one at a time, and a call starts
only when the session is idle.  The disk is shared, and git, a package manager or
the disk may take minutes: a handler is one action per operation on the disk, and
between two of them other sessions act and the audit may pass its TTL (`Expires`),
which the code notices only where it compares `expiresAt` again (`Live`).

| Actions | Code |
| --- | --- |
| `ActivateAudit`, `GetActiveAudit`, `CloseAudit` | `runHandler` with `activateAudit`, `getActiveAudit`, `closeAuditHandler` |
| `Keep` | `recordCouncilOutcome`, `mutateCouncilLedgerState`, `recordCacheBinding` |
| `SafeListTree`, `Assure` | `recordResolvedSha` of an acquisition; the stages of `Assurance` as far as reports depend on them |
| `CloneBegins`, `GitClones`, `GitChecksOut`, `BindClone`, `GoesStale` | `safeCloneHandler`: pin check and purge, `git clone`, `git checkout`, the two pins; the age `findStaleClones` looks at |
| `CleanupRemovesClone`, `CleanupRemovesReport` | `cleanupAuditHandler` |
| `FinalizeBegins`, `CheckPair`, `PublishFindings`, `PublishReport`, `ReadBack`, `PublicationFails`, `PublicationSticks` | `finalizeReportHandler` up to `createArtifactPair`, and its rollback |
| `RecordReportFinalization`, `FinalizeStage`, `Seal`, `FinalizeResumes` | the record, `finalizeRecordedAnalysisStage`, `markReportFinalizationStageComplete`, `returnRecordedPair` |
| `HostStarts`, `HostReturns` | `safeInstallHandler` and `safeBuildHandler`, after `GateOpen` (`evaluateFinalizedReportExecutionGate`) |
| `Crash` | the end of a process: memory is lost, the disk stays |

Abstraction.  The hash of a file is the audit that wrote it: bodies contain the
audit's id.  A report is "clean" or "blocked" (an assurance outcome that passes or
fails the gate) or "other" (the baseline and compatibility flows, which the gate
always refuses).  The commit a ref resolves to is any commit at every call.  Temporary
files have random names, so all that matters is whether a session has its own
(`temps`); those of a crashed session are never used again.  A rollback is one
action: the names it unlinks are the session's own, or nobody's, unless
reports are deleted.  A clone grows stale only when no live audit made it: the
purge threshold is 24 hours by default and the longest TTL 3.  `settled` is a
history variable: the audits that recorded their report, or died while they wrote it.  After such
a death FINDINGS.json may be there alone (it is linked first), and every later finalizer
of the commit refuses it; what holds is that the two files are never two audits'.

`RemovalFails`, `DeletesReports` and `Crashes` switch faults on: `rmSync` and
`unlink` that fail or stop half way, cleanups with `also_delete_report`, and processes
that die.  Properties that a fault falsifies for a reason outside the code are
checked with it off; their comments say which.

### Council, with SourceIndex, BehaviorGraph and Decision

A council audit of a local or cloned tree.  Every handler is synchronous, so a call is an
action; the tree is on disk and may be edited between any two calls, and it may be listed
and indexed again at every stage.

| Actions | Code |
| --- | --- |
| `Edit` | the owner of the tree, external |
| `ListSource`, `IndexSourceFile`, `IndexFails`, `IndexTooLarge` | `safe_list_source`, `safe_index_source_file` with `recordIndex*` of `indexState.mjs` and the plugin run |
| `SubmitCandidates`, `FinalizeScan` | `zerotrust_record_council_candidates` with `mergeCouncilCandidates`; the close of the scan |
| `TraceAnalysisGraph` | `mergeBehaviorGraphs`, `traceBehaviorGraph` |
| `PrepareAnalysisValidation`, `SubmitReview`, `Adjudicate`, `FinalizeValidation` | validation with its assignments, reviews, rulings, decision and remediation plan |
| `FinalizeReport` | the verdict `reportWrapper.mjs` states |

`SourceIndex` has the index: enumeration, readings (whole, cut, failed, too large), the
identity of a file across readings, the plugins' run on a complete index and its fingerprint.
`BehaviorGraph` has what a finding draws (`CandidateGraph`: nodes and edges, each citing files of its
own), what a reviewer may submit of it (`Candidates`: the finding with the content that each file it cites was read in), how the plugins' and the
council's graphs are merged (`MergeBehaviorGraphs`: stale nodes, conflicting ids,
equal nodes, contradicting edges, bounds) and which chains lead from a start to an effect
(`TraceBehaviorGraph`).  `Decision` has which findings need validation, how findings merge,
which verdict they recommend and which remediation plan the ledger accepts.

`AuditVerdict` is the abstract specification: candidates are collected, then frozen; each is
ruled on once; one verdict is taken, which the rulings support; one report states it or
none.  It knows no stage, index, review or graph.  `Council!Promise` is its instance under a
refinement mapping and `KeepsPromise` says that a council audit implements it.

Abstraction.  Content, SHA-256 and blob hash are one value.  Severities are "minor" and
"severe" (high or critical).  An adjudicator's severity and chain are kept only for a
validated finding, as the code reads them.  An inventory that refuses the report means that
`FinalizeReport` is not taken; the validation's own finalization is stored with the
decision; the remediation plan is not a variable.  The signature by which findings merge (`GroupOf`) has in the
code the graph neighbourhood of the traced chains too (`dedupe.mjs:111-133`, 274-278); here it is a
constant of the finding, and no property tells one grouping from another.  Evidence bounds and the classes of
`classifyPattern` are not modelled.  `MaxFaults` bounds edits, failed and cut readings.
Only `zerotrust_record_council_candidates` is registered as a tool; the handlers of trace
and validation are exported and tested but registered nowhere, and are modelled as
callable, as the tests call them.

### Acquisition, with Decoding

API-direct acquisition of one commit.  `ListTree` and `ListTreeFails` are calls of
`safe_list_tree`, `Fetch` and `FetchFails` of `safe_fetch_file`; each updates all four
ledgers (`tree`, `coverage`, `index` with `plugins`, `assurance`) in the order of the code.  A
listing returns a directory or part of it: GitHub cuts it, or a cap does, and
`SplitUnresolvedSubtree` adds the directories below to the work list.  A fetch may be
mandatory or a sample, whole, cut, oversized or metadata only.  The index refuses text that is not whole, since it has no line
count (`Accepted`, `indexState.mjs:330-344`): a mandatory fetch of cut text is counted by `coverage`, and then fails, so that
index, inventory and decoded artifacts stay as they were (`safeFetchHandler.mjs:278-283`).

`Decoding` is `buildDerivedArtifacts`: archives entry by entry (`ReadTar`, `ReadZip`,
`ReadCompressedPayload`), texts literal by literal (`DecodeStaticLiterals`), and whatever
comes out decoded in turn, within the budgets of depth, payloads, artifacts and bytes that
the whole object shares.  `Process` is one call of `processPayload`, given what the calls it makes
return; `ProcessPayload`, a recursive function of visits, ties the knot.  A loop is a sequence of steps that
`After` composes.  `Nested` says the same without budgets and order, and `DecodedWholeTree`
compares the two.

Abstraction.  A content is a model value with a table of what a reader finds in it; of
the artifacts only their number, of the blockers only whether there is one.  The binary
parsers say whether the header is sound.  The inventory's `tree_sha` variant of a listing is
the same as its `subtree_path`; coverage's own cap on files never bites before the one on
entries; gitlinks, LFS pointers and malformed links are left out.  `MaxFailures` bounds the
failures that are tracked, `MaxDetours` the calls that get nowhere.

### ReleaseAssets

Two kinds of calls await: a listing and a download (`ListBegins`/`ListEnds`,
`FetchBegins`/`FetchEnds` with their failures).  Between the two the session may close its
audit, let it expire or begin the next one, and the answer is accounted to whatever audit
is active then, if it pins the same release (`CoverageOf`, `Accounts`).  The quarantine is one directory per
commit on the shared disk (`quarantine`), with the authority to clean it up in the audit
(`Authority`).  `Publish` changes a release after it was listed.  `past` is a history
variable.  Counters and the maps of failed, oversized and mismatching assets are dropped;
writing a file is one step; the network answers or fails within the call.

### SupplyChain

`InventoryDependencies` builds a graph from lockfiles alone; `AnalyzeDependencies` starts an
analysis and `AnswerArrives` is one awaited answer, after which the analysis requests the
next package, the shallowest first, or stores its graph (`recordAssuranceSupplyChainGraph`)
unless the audit has changed or its semantic plan is made.  `Roots` and `Resolved` say what each lockfile format
resolves; `AnalyzeArchive` walks through an artifact to `MaxArchiveDepth`.  Requests, bytes
of an answer, bytes in total, packages and depth have their limits.  The abstract
definition in `CompleteIsWhole` has none of it: it says which packages are reachable and which bytes
must have been opened.  Caps per lockfile and the text of facts and hooks are
abstracted; what the graph does to the container is in `Assurance`.

### MetadataCache

`disk` is the sequence of files under the cache directory, in order of age; `session[s]` is the source
that is active in a process and the call it runs.  A handler is synchronous, but other
processes act between its calls of the file system, so those that create, write, rename, open and remove a
file are steps of their own: `Store`, `Evict`,
`HasRoom`, `CreateTemp`, `WriteTemp`, `RenameTemp`; `Read`, `Look`, `Open`, `Discard`,
`LoadReturns`, `ListReturns`; `Cleanup`, `CleanNext`, `Cleaned`.  `StoreFails`, `Crash` and
`Damage` are faults.  Removing a file that is gone fails as POSIX says, one that
is open elsewhere does not.  The caps on bytes follow the path of the modelled caps on files.

A listing is one step of the model (`NamesOf` in `Store`, `Read` and `Cleanup`), although the code
(`cacheWrapper.mjs:157-222`) reads each directory, and stats or unlinks its entries one by one, and throws when
one of them vanishes between the two (168-171), which may be after it has removed some temporary files.  The checks and the
proofs are about the model; that the finer steps change nothing in the properties is an argument only.  A listing that throws leaves
at most fewer temporary files than it found, as any listing does; an entry it missed was written while it
ran, by a store of another session, which the bound of `CapsBounded` allows for; and an entry that was removed
after it was listed is met by `Evict`, `Open` and `CleanNext`.

### McpAutoreload

One action is what runs between two awaits.  `hook[c]` is one running hook: its
`pc` is the await it stands at ("refresh" the shared `list()`, "wait" another
hook's promise, "reload", "poll", "settled" the log call before the promise is
released, "log-retry" and "log-escalate" the log call between the decision on an advice and
its return), or the advice it returned last.  `inflight` is `inflightReloads`,
`reloaded` is `reloadedServers`, `refreshing` and `listed` are the shared
promise of `refreshServerNames`.  `Quiet` says that a resolved hook decides in the
same turn of the event loop: no other action may run while a hook stands at
"decide".  `status` and `statusEvent` are the host's and external: `list()`
answers `Configured`, `reload()` sends every configured server back to
"pending", and servers are added, removed, lost and connected at any time.
`spent` is a history variable that no action reads.

`Prefixes` stands for name matching: a tool's name begins with its server's
name, so a server whose name extends another's also matches it.  The code takes
the longest name that matches.

## Runs

| Run | Instance | What it shows |
| --- | --- | --- |
| `assurance` | four objects (a program, a manifest, a document that tries to instruct, a directory), four facts, two reviewers, two categories, two dependency graphs of which one carries a blocker; 115 200 states | the container's six safety invariants and `EvidenceFrozen` |
| `audit_session` | two symmetric sessions, one commit, three audits, crashes; 477 246 states | `PairNeverMixed`, `RecordedPairSurvives`, `PublishedIsRecorded` |
| `audit_faults` | one session, two commits, three stores, two audits, all faults; 966 759 states | `TypeOK`, `KeptWithAudit`, `OneCommit`, `SealEarned`, `ExecutionEarned` |
| `council` | one file, two roles, two findings that share a step and of which one has no effect of a trace, three symmetric reviewers, one fault; 396 855 states | `DecisionEarned`, `TraceDescribesLedger` and `KeepsPromise`, the refinement of `AuditVerdict` |
| `council_source` | two files, one finding that cites both, three contents, of which one breaks a plugin and of one the plugins draw a step against the finding, and three faults; 190 310 states | `VerdictOnIndexedSource`, `DecisionStands` |
| `council_below_floor` | one finding below the validation floor | finding: the decision is stored and the stage cannot advance |
| `acquisition` | seven commits of two blobs in up to three directories, eleven contents; 26 550 states | `CompleteCoversTree`, `PreparedOnWholeTree`, `DecodedWholeTree`, and under fairness `AcquisitionEnds` |
| `cache` | two sessions, four sources in two namespaces, room for one file; 80 632 states | `CapsBounded`, `EntriesWhole`, `LoadFits`, and under fairness `CallsReturn` |
| `release` | two sessions, two releases of one commit, three assets, two symmetric calls, two audits; 191 976 states | `VerdictOnWholeRelease`, `FilesAccountable` |
| `supply` | two trees, three lockfiles, six packages, eight payloads, two symmetric calls, two audits; 223 777 states | `CompleteIsWhole` |
| `mcp` | two servers, one name a prefix of the other's, two concurrent hooks, two polls, any host behaviour; 684 064 states | `SharedReload`, `AdviceAwaitsOutcome` |
| `mcp_recovery` | one server, two hooks, two polls, manual reloads; 58 464 states | `HooksReturn` under fairness |

Each module's `TypeOK` is checked by one of its runs.

Why the bounds are enough.  *Assurance:* two reviewers are the most an object ever
needs, and objects with none, one and two required reviewers occur.  The manifest makes the
supply-chain rules apply, the second graph is blocked and has a cycle, so both verdicts occur and
a graph can be replaced by a worse one.  Four facts with a cap of three per category, and a
depth of four, are met from both sides.  The two categories differ in their rule; candidates are
reported by an object's reviewer and by a category's, so the graph joins both.

*Audit sessions* interact only through the files of one commit, so one
commit is enough where two sessions race; two commits are needed where a ref
moves between two calls of one session, and there one session is enough, because
no other session writes its memory.  Three audits are the two that race and one
after them, which meets what they left; with all faults on, a crashed audit and
its successor are two already.

*Council:* candidates are ruled on independently of one another and merge in pairs;
two of them, two roles of which one is mandatory, and three
reviewers, which one candidate needs, give every mix.  Two files are
related by the completeness of the index and by a finding that cites both; three contents are one that
is as long as the other and one that breaks a plugin.  Two faults are the edit and the cut reading
that hide a change of the source from the index, and the third is met after them.  A finding
without an effect of a trace is on a chain by the step that it shares with the other; nodes, edges,
depth and cycles of the two together are exactly what the limits admit.

*Acquisition:* a directory in a directory is the deepest split; the commits differ in what of
them is cut, over a cap, or read by no decoder, and each decoding limit is met exactly
and exceeded by one content.  *Cache:* room for one file makes every store evict, in its namespace or
across.  *Release:* two calls in flight are a download and a listing, or two downloads of one asset;
one asset over the cap of one; two releases of one commit share the quarantine.  *Supply:* the
first lockfile is verified exactly at its limits, both together exceed them; an archive sits in an
archive at the depth limit and below it.  *mcp-autoreload:* one hook
owns a reload and one waits for it, and a third would be another waiter; a
second server is needed for the global reload and for prefixes; two polls are a
verification that goes on and one that gives up.

`MaxAudits`, `MaxFaults`, `MaxDetours`, `MaxFailures`, `MaxChanges` and the sets of calls in flight are
the only bounds the code does not have; each is in the guard of the action it
limits.

Symmetry is used in safety runs only: reviewers, sessions and calls are
interchangeable there.  Deadlock is checked in the council's, acquisition's and the cache's
runs; in the others a finalized audit, a hook that returned and sessions whose
last audit is closed may stop.

Fairness.  `McpAutoreload`: a decision the thread has begun is finished
(weak fairness on `Deciding`, which nothing else can disable or overtake);
`list()` and `reload()` answer or fail, and timers fire (strong fairness on the
shared refresh and on the steps of each hook: the host's answer is queued on
the event loop, and other callbacks that run first delay it without cancelling
it).  Nothing is assumed of the host's servers: they may never connect.
`MetadataCache`: a handler that was called runs to its end (weak fairness on each session's
step).  `Acquisition`: the agent goes on listing what is unresolved and fetching each blob whole (weak
fairness on `Continue` and `FetchWhole`), which the tools' answers tell it: "Continue until
coverageComplete".  The other modules have no fairness: nothing obliges an agent to
continue an audit, and no property says that it does.

## What the runs found

`council_below_floor`: `finalizeAnalysisValidation` finalizes the validation and stores the
decision, then gives the ledger a remediation plan with guidance for every finding whose
state class is unresolved.  A candidate below the validation floor is one,
but is still "candidate" in the ledger, which refuses guidance for it.  The handler throws after it
changed the state, and again on every retry: the audit has a decision and stays traced.
The stage gate asks only for decisions on "every required candidate ... with no validation
truncation" (`enforcement.mjs:3266`), and here none is required and nothing is truncated.
The test "zero-candidate validation completes and advances traced to validated"
(`static-validation.test.mjs:627`) asserts success and the stage for an empty set of required
candidates, but with an empty ledger, and so misses the finding below the floor.

Modelling met more places where an audit ends in a state from which it cannot go on, or where the
code is laxer or stricter than one may expect.  All of them are in the
models; no run is devoted to them.

* *A dependency graph blocks the trace.*  The behaviour graph of an audit has an edge
  "generates" from a manifest to the artifact of the dependency graph
  (`evasiveGraph.mjs:876`), while the red team's handoff has that artifact derived from the
  manifest, which is an edge "generates" the other way.  The two contradict one another, both are
  dropped and the trace carries TRACE_CONFLICT.  An audit whose dependency graph matched a
  manifest and whose red team was given that manifest therefore never completes its trace,
  although dependency analysis is a step of the lifecycle
  (`packet/assurance.mjs:44`, `extension.mjs:1066`).
* *Other dead ends.*  A snapshot replaced by a dependency audit after semantic preparation
  (`enforcement.mjs:1545`): later phases compare the artifacts and refuse.  A reviewer whose only review
  of an object is incomplete.  A configuration object without facts, or one with an
  unresolved dynamic target: its review cannot complete.  An audit with neither an activation nor a
  candidate, or with an import of an external library: its trace is blocked.
  Imports that lead back, directly or through a derived artifact, are a TRACE_CYCLE.
  Executable text files and packages that depend on one another are blocked.  A mandatory
  council role whose batch conflicts, and a trace repeated after its validation was prepared.  All fail closed.
* *Dependencies.*  The kinds "dependency-metadata" and "release-asset", by which
  `SupplyChainRequired` recognises a repository with dependencies, are never given to an object by
  `objectInventory.mjs`: an audit of a repository with lockfiles is finalized without dependency
  analysis.  A graph made from the inventory alone may be complete without a fetch; `requires` of
  npm lockfiles of version 1 and pip's locks are not resolved; the last analysis to end
  replaces the graph.
* *Documents.*  A document that tries to instruct its reader but has no prompt view is not reviewed.
* *Council graph.*  A trigger that sets itself off is no start when another start exists, and its
  behaviours are on no chain of a complete trace.  Of several parallel edges that one edge the other way
  contradicts, only the last is dropped.
* *Index.*  A cut reading forgets the hash of a file (`indexState.mjs:373`), so that a change between
  it and the next reading is not noticed there; the plugins' fingerprint does.
* *Decoding.*  Literals past the budget, more than 256 quoted literals of a text, and literals and byte
  arrays over the limit of length are not decoded and leave no blocker; exactly `MaxCandidates` outputs are
  reported as exceeded.
* *Release assets.*  An asset's `digest` is stored and never compared.  Two parallel
  fetches of one asset lose the recorded success until the quarantine is cleaned.  A cleanup by another session of
  the same commit leaves records of files that are gone.
* *Cache.*  A load may unlink, as corrupt, the file that another session wrote meanwhile; the file
  that is evicted may have been refreshed since it was listed.
* *Sessions.*  A clone's path stays recorded after a cleanup, and a second cleanup may remove the
  clone another session made there since.  The purge excludes the commit that is about to be cloned, so that the
  partial clone of a crashed audit stays in the way.  A report of an earlier audit of the commit
  is in the way of the next one's.
* *mcp-autoreload.*  A lookup that misses may join a refresh that was answered before the server was
  added.  `mcp_reload_now` may disarm a server on an answer that is older than its failure.  A hook awaits
  a log line between its decision and its return (`extension.mjs:231`, 263, 271): in between, another hook may
  reload the server anew, and "retry" or "give up" is then returned while that reload runs.

## What is proved

TLAPS checks every step of the proof modules; the theorems hold for all values of the
constants that satisfy the assumptions they cite, and need no others.

`AssuranceProofs`, for any objects, facts, reviewers, categories and graphs:

* `TypeCorrect`: `Spec => []TypeOK`;
* `NeverPoisoned`: `Spec => []ContainerValid`, no sequence of calls leaves a container
  that its own validation rejects;
* `EveryStageEarned`: `Spec => []StageEarned`.

The three are inductive only together, so the invariant is
`IInv == TypeOK /\ ContainerValid /\ StageEarned`.  `ContainerValid` alone says nothing
about plans ahead of their stage, and a snapshot rebuilt by a later acquisition would
break it; `StageEarned` says there is no plan before its stage.  `StageEarned` alone
does not know that the stored evaluation is the one of the stored records;
`ContainerValid` says so.  The proof has one lemma per group of actions, each split
by the parts of `ContainerValid`.

On top of it, in the same module:

* `EvidenceIsFrozen`: `Spec => EvidenceFrozen`, an action property;
* `SnapshotIsReviewed`: `Spec => []SealedSnapshotWasReviewed`;
* `CandidatesAreDecided`: `Spec => []FindingsDecided`;
* `ReviewsAreIndependent`: `Spec => []ReviewedIndependently`.

These need to know how the evidence came about, which the container's own validation does not
check.  So the invariant adds `Kept` to `IInv`: slots of an object are handed out to different
reviewers and never beyond the number required; what must be decoded was decoded before the reviews
began; once there is a graph the snapshot's evidence is the graph's; a validator concludes once.
That an evaluation which passes has as many reviewers as it needs is a matter of counting: an
object needs at most two, so two facts about the cardinality of sets with one and with two
elements are enough, and no induction.

`AuditSessionProofs`, from `MaxAuditsAssumption` and `NoneAssumption`, for any number of
sessions, commits and stores and with every fault on or off:

* `TypeCorrect`: `Spec => []TypeOK`;
* `StoresFollowTheAudit`: `Spec => []KeptWithAudit`;
* `AuditOfOneCommit`: `Spec => []OneCommit`;
* `SealIsEarned`: `Spec => []SealEarned`;
* `ExecutionIsEarned`: `Spec => ExecutionEarned`, an action property.

All of them speak of one session at a time, and no session writes another's memory.
The invariant is `IInv == TypeOK /\ SessionsOK`, where `SessionOK(a, h, k)` relates the
audit, the handler and the stores of one session as values, independent of the disk.
It is stronger than the properties in what it says of handlers that are under way: a
session at "stage" or "seal" has a record of its flow, one that publishes has none yet,
and one that removes files or clones disturbs neither.  That is what `SealEarned` needs, since the
seal is two steps after the record, and what `ExecutionEarned` needs: an open gate
gives a sealed record, the invariant a finalized stage.  The lemmas say of each kind of change to the
three values that it keeps `SessionOK`; the proof has one step per action.

The second half of the module is about the disk.  `Faultless` says that what is to be removed is removed and that
no cleanup deletes reports (`~RemovalFails /\ ~DeletesReports`); sessions still fail at any step,
expire and crash:

* `PairsAreNotMixed`: `Spec => [](Faultless => PairNeverMixed)`;
* `RecordedPairsSurvive`: `Spec => [](Faultless => RecordedPairSurvives)`;
* `PublishedIsAlwaysRecorded`: `Spec => [](Faultless => PublishedIsRecorded)`.

The invariant ties the disk to every session at once: the files an audit has on disk are exactly
the names its handler or its record linked (`FilesAreLinked`), a report is never there without the
findings it was linked after, and no two audits, nor an audit and a file left behind, have the same
id.  Then a name that is free was linked by nobody, and a roll-back, which removes the files of its
own id, removes nothing another session counts on.  `MCAuditFaults` has the faults the assumption
excludes.

`CouncilProofs`, from the assumptions of `SourceIndex`, `BehaviorGraph`, `Decision` and `Council`, for
any paths, contents, roles, reviewers, findings with whatever graph a submission may carry, and any limits on
depth, nodes, edges, chains and branches:

* `TypeCorrect`: `Spec => []TypeOK`;
* `DecisionIsEarned`: `Spec => []DecisionEarned`;
* `TraceDescribes`: `Spec => []TraceDescribesLedger`;
* `VerdictIsIndexed`: `Spec => VerdictOnIndexedSource`, an action property;
* `DecisionStandsFirm`: `Spec => DecisionStands`, an action property;
* `Implements`: `Spec => KeepsPromise`, every step of the council is one of `AuditVerdict` under
  the mapping, or a stutter.

The invariant says how far the audit is by what is stored (`StageFollows`), that the finalized scan
froze what the roles submitted (`ScanIsFrozen`), where each candidate stands between submission
and ruling and that its reviews are of different reviewers (`CandidatesOK`), that the decision is
the verdict of the ledger as it still is (`DecisionFollows`), and what binds a verdict to bytes: a
complete index has a plugin run, and a run that still covers is about that index
(`PluginsSaw`); it has the contents that the candidates cite (`PluginsSawCandidates`).  The index
alone would not do, since a cut reading makes it forget a file; the run does not forget.

For `TraceDescribes` the bounded walks themselves are reasoned about.  A complete trace merged all
that was drawn and cut no walk, so whatever an edge leads to from the end of a walk is the end of a
walk too (`WalkGoesOn`); the ends of the walks from a start are a set that the edges do not leave,
and so it holds an effect (`BehaviorIsChained`).  An effect is what the trace takes for one: a sink, persistence or
propagation (`traceGraph.mjs:15`).  A submission may also carry a graph whose only effect is a
sensitive source or a transform (`findingLedgerWrapper.mjs:76-82`).  Such a behaviour is on no complete
chain, the theorem says nothing about it, and no reviewer can confirm it: its candidate ends refuted or unresolved.

`AcquisitionProofs`, from the assumptions of `SourceIndex`, `Decoding` and `Acquisition`, for any
repository, in particular any tree of directories, any contents nested in any way, and any caps:

* `TypeCorrect`: `Spec => []TypeOK`;
* `CoverageIsWhole`: `Spec => []CompleteCoversTree`;
* `IndexIsWhole`: `Spec => PreparedOnWholeTree`, an action property, with the calls that the index refuses;
* `DecodedIsWhole`: `Spec => []DecodedWholeTree`.

The properties speak of complete ledgers, the invariant of ledgers that are not: whatever is missing is
marked.  A node that is not among the entries is below a directory that is unresolved or
blocked, unless the state was shortened (`EnumerationHonest`); a listed blob is to be fetched, and classified
as what it is (`CoverageHonest`); a file the index counts was read whole, with its facts (`IndexHonest`); a
snapshot without a missing object has every blob (`AssuranceHonest`).  The step is that of a cut
listing: the directories below it go to the work list, and each path that the cut lost has the
one nearest to the listed directory above it.  That needs what is true of paths and was not assumed before:
the directories above a node are nested.

`DecodedIsWhole` adds what a clean walk through the payloads of one blob has reached.  First, the recursion of
`processPayload` has a solution: a visit asks only for visits one deeper, and beyond `MaxNestedDepth` for
none, so a table of visits that is made from itself, over and over, is right one depth higher each time
(`TableExists`).  Then every visit is good (`PayloadGood`, from the deepest up): it adds only visits at its depth
and below, its content is among them unless there is a blocker, and if what lies at its depth and below was
*settled* before, it is so again.  Settled means that each part of a content visited there is visited one
deeper, or is a compressed stream whose payload is, unless the walk has a blocker or has spent a budget
(`Thorough`).  That a visit returns at once from a content already visited at its depth is sound because of
the condition: while the parts of a content are walked through, its own depth is not settled but the
depths below it are, and no visit below comes back to it.  That the loops of the handlers preserve this is one
lemma on `After` (`Loop`), used for archives and texts and, one level down, for the readers and the decoder
(`ArchiveExtracted`, `LiteralsDecoded`).  In the end depth 0 is settled, so what was visited is closed under
parts and covers all of `Nested` (`NestedCovered`).

`SupplyChainProofs`, from the assumptions of `SupplyChain`, for any lockfiles, payloads nested in any way,
limits, audits, and number of analyses in flight:

* `TypeCorrect`: `Spec => []TypeOK`;
* `CompleteGraphIsWhole`: `Spec => []CompleteIsWhole`.

The invariant says of each analysis that as long as it has no blocker, every package that has to
be served is still to do, at hand, or analyzed, and what was analyzed was opened to the bottom
(`Whole`, of which `Waiting` and `Settled` are the forms while a request is out and between two); that an
analysis which carries the active audit's id is of its lockfiles (`Owned`), which is why a graph
that arrives after the audit was replaced does no harm; and of a stored graph the same (`GraphHonest`).
That nothing below the cap means nothing was missed is an induction over the levels of the archive
against the closure `Reachable` takes of it (`WalkedToBottom`).

`ReleaseAssetsProofs`, from `AssetsAssumption`, `NoneAssumption` and `NoneRecordAssumption`, for any
sessions, releases, assets and calls in flight:

* `TypeCorrect`: `Spec => []TypeOK`;
* `VerdictIsOnWholeRelease`: `Spec => []VerdictOnWholeRelease`;
* `FilesAreAccountable`: `Spec => []FilesAccountable`.

The invariant says what a coverage record is worth whenever it was computed: an unabridged listing
is one the release had at some time, and whatever it counts as held was written whole
(`AuditsSound`); so it does not matter that the answer is stored in an audit other than the one that
asked, as long as that one has the same release.  Assets are finitely many, which is what makes
equal numbers of assets mean equal sets.

`MetadataCacheProofs`, from `CacheAssumption`, for any number of sessions, any sources, namespaces and
trees, and any caps:

* `TypeCorrect`: `Spec => []TypeOK`, in particular there is one entry of a source;
* `EntriesAreWhole`: `Spec => []EntriesWhole`;
* `LoadsFit`: `Spec => []LoadFits`;
* `CapsAreBounded`: `Spec => []CapsBounded`.

The invariant has two parts.  `FilesOK` says of each session and the files what holds between two calls
of the file system: before a store creates its temporary file it has none, afterwards at most that one, with
its own payload and, when it is about to be renamed, whole (`TempOK`), whatever other sessions delete of it; a
session that is about to open a name and was not disturbed will find that entry; and what a load has
taken so far fits the active source and the budget (`Fitted`, an induction over the entries).

`Accounted` is the counting behind `CapsBounded`, for all sources and for each namespace.  A store makes room
by its own listing, and may write long after it.  Of all the stores that wrote take the one that listed
last, its owner.  What is there now is what the owner knew and wrote, which its cap allowed, and what others wrote after
the owner had listed; each of them did so once, because a second store of theirs would have listed
later.  To be inductive it also accounts for the stores that are under way: those that listed after the
owner did know all but what was written since, and whoever wrote since listed earlier; the others will be
counted when they write.

`McpAutoreloadProofs`, from `PollsAssumption`:

* `TypeCorrect`: `Spec => []TypeOK`, in particular polling never goes below its budget;
* `ReloadsAreShared`: `Spec => []SharedReload`, for any number of concurrent hooks;
* `AdviceIsNotEarly`: `Spec => AdviceAwaitsOutcome`, an action property: an advice is decided on when no reload
  of the server runs, "retry" on a reload that succeeded.

`SharedReload` needs to know that a hook which reloads or waits has a server, so the
invariant is `IInv == TypeOK /\ HooksBound /\ SharedReload`.

Recursion.  No module declares a RECURSIVE operator; walks and levels are recursive functions
of a number.  The library's induction theorems take an operator as a parameter, which the provers
cannot instantiate, but its theorem that a well-founded relation has minimal elements
takes a set.  From it follows `Least`: a set of numbers that is not empty has a least one.
By it, the functions the modules define by recursion exist (`IteratesExist`) and can be unfolded,
and an argument by induction is one about the least counterexample.

Assumptions.  The proofs brought out what the modules relied on silently, and it is now assumed where
the constants are declared: contents, paths, findings, directories and payloads are finitely many; the directories above a node
are nested; `None` is none of the records it stands in for.  TLC evaluates each of them on its
instance.  `Answered` of `SupplyChain` got parentheses, since the two parsers disagree on how
`UNION` and `\cup` bind.  `MetadataCache` and `Decoding` select from a sequence by `Kept`, a recursive
function, since the provers cannot expand `SelectSeq`; `Decoding` goes through its loops by `After` and not by a
fold, for the same reason, and `Decoded` is a function of one argument at a time.

Only model-checked: `HooksReturn`, `AcquisitionEnds` and `CallsReturn`, for good, since liveness under
fairness and `ENABLED` are out of the prover's reach.  Every invariant and every action property that a
run checks and that holds is a theorem.

## Plan

Done: `Assurance` with what it computes, `McpAutoreload`, `AuditSession`, the council with its source,
graph and decision and the promise it implements, acquisition, release assets, dependencies and the
metadata cache, all with their proofs; decoding.

Left:

1. Sessions of local audits, which name a report by a timestamp and own no clone.
2. A promise that `Assurance` implements, as `AuditVerdict` is for `Council`.

## Not modelled

* Scanners and plugins as far as they match patterns: their verdict is an input.  The prompt
  assessment (`promptResilience.mjs`) is the set of views and one bit for each text.
* Instruction packets and report rendering: text.
* Schema validation and validation of single arguments and paths: inputs a handler refuses are left
  out, with no change of state.
* The orchestrators and `_shared`: stateless.
* `inspectToolCall` and `preToolUseHook`: they parse shell commands and are registered nowhere.
* Of sessions and their disk: local audits, the read-only sweep, purge thresholds below a TTL.
* Resolution of refs, gitlinks and LFS pointers; what each module's "Abstraction" names.
