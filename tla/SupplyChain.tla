---------------------------- MODULE SupplyChain -----------------------------
(***************************************************************************)
(* The dependencies of an audited tree: the packages its lockfiles pin and *)
(* require, the artifacts the registries serve for them, and the archives  *)
(* inside those, down to a depth; one graph of it all is bound to the      *)
(* audit until the semantic plan is made.                                  *)
(*                                                                         *)
(* An analysis fetches the packages one by one, the shallowest first, and  *)
(* waits for each answer while the session does other things: it may start *)
(* a second analysis, make the plan, close the audit, begin the next one.  *)
(***************************************************************************)
EXTENDS Integers, FiniteSets

CONSTANTS
    None,
    Sources,        \* audited trees
    Manifests,
    SourceOf,       \* the tree of each lockfile
    Packages,
    FormatOf,       \* and its format, a member of Formats
    ManifestOf,     \* the lockfile that pins each package
    Kind,           \* "direct", "metadata", "local" or "unpinned"
    Requires,       \* what a package requires: packages, or names no entry resolves
    Direct,         \* packages the lockfile lists as the project's own requirements
    Payloads,       \* archives and files
    ContentOf,      \* the payload whose hash the lockfile declares
    Archives,
    Contains,       \* the payloads inside an archive
    Unreadable,     \* archives the readers refuse or read in part
    Size,
    MetadataSize,   \* of a registry's answer about a package
    Calls,          \* analyses in flight at a time, a bound
    MaxPackages, MaxDepth, MaxRequests, MaxResponseBytes, MaxTotalBytes,
    MaxArchiveDepth, MaxArchiveEntries, MaxScannedText,     \* SUPPLY_CHAIN_LIMITS
    MaxAudits       \* audits activated in all, a bound

Ids == 1..MaxAudits

\* Where a package comes from: a registry's or another allowed address, one found in the
\* registry's metadata, a path of the tree, or nothing that could be verified: a mutable
\* reference, a missing hash, a foreign registry.
Kinds == {"direct", "metadata", "local", "unpinned"}

\* In the formats that resolve, every name a package requires has to be pinned; in the
\* others nothing is asked of what a package requires.
Resolving == {"npm", "cargo", "poetry", "nuget"}
Formats == Resolving \cup {"npm-nested", "requirements", "pipfile", "packages-config"}

ASSUME LimitsAssumption ==
    {MaxPackages, MaxDepth, MaxRequests, MaxResponseBytes, MaxTotalBytes, MaxArchiveDepth,
     MaxArchiveEntries, MaxScannedText, MaxAudits, MetadataSize} \subseteq Nat
ASSUME LockfilesAssumption ==
    /\ SourceOf \in [Manifests -> Sources] /\ FormatOf \in [Manifests -> Formats]
    /\ ManifestOf \in [Packages -> Manifests]
    /\ Kind \in [Packages -> Kinds] /\ Direct \subseteq Packages
    /\ \A p \in Packages : \A q \in Requires[p] \cap Packages : ManifestOf[q] = ManifestOf[p]
ASSUME PayloadsAssumption ==
    /\ IsFiniteSet(Payloads) /\ ContentOf \in [Packages -> Payloads] /\ Unreadable \subseteq Archives
    /\ Archives \subseteq Payloads /\ Contains \in [Archives -> SUBSET Payloads]
    /\ Size \in [Payloads -> Nat]
ASSUME NoneAssumption == None \notin Packages /\ None \notin Ids

VARIABLES
    audit,      \* the session's active audit and its assurance.supplyChainGraph
    call,       \* analyses waiting for a registry
    nextId

vars == <<audit, call, nextId>>

-----------------------------------------------------------------------------

Codes == {"transitive-unresolved", "missing-integrity", "recursion-cap", "fetch-failed",
          "hash-mismatch", "artifact-analysis-blocked"}
Graphs == [fetched: BOOLEAN, manifests: SUBSET Manifests, blockers: SUBSET Codes,
           analyzed: SUBSET Packages, walked: SUBSET Payloads, requests: Nat, bytes: Nat]
Audits == [id: Ids, source: Sources, prepared: BOOLEAN, graph: Graphs \cup {None}]
Analyses == [id: Ids, manifests: SUBSET Manifests, todo: SUBSET Packages,
             at: Packages \cup {None}, phase: {"metadata", "artifact"},
             requests: Nat, bytes: Nat, entries: Nat, scanned: Nat,
             blockers: SUBSET Codes, analyzed: SUBSET Packages, walked: SUBSET Payloads]

\* Type invariant. Every analysis in flight waits for the answer to one request.
TypeOK ==
    /\ audit \in Audits \cup {None}
    /\ call \in [Calls -> Analyses \cup {None}]
    /\ \A c \in Calls : call[c] # None => call[c].at # None
    /\ nextId \in 1..(MaxAudits + 1)

Init == audit = None /\ call = [c \in Calls |-> None] /\ nextId = 1

-----------------------------------------------------------------------------
(* The inventory of the lockfiles.                                         *)

PackagesOf == [ms \in SUBSET Manifests |-> {p \in Packages : ManifestOf[p] \in ms}]

\* An edge of the graph.
Resolved(p) ==
    IF FormatOf[ManifestOf[p]] \in Resolving \cup {"npm-nested"} THEN Requires[p] \cap Packages ELSE {}

NpmRoots(m) == PackagesOf[{m}] \cap Direct

CargoRoots(m) == {p \in PackagesOf[{m}] : Kind[p] = "local" /\ Requires[p] # {}}

PoetryRoots(m) == {p \in PackagesOf[{m}] : \A q \in PackagesOf[{m}] : p \notin Resolved(q)}

NugetRoots(m) == PackagesOf[{m}] \cap Direct

\* Where no package is a root, all are.
Roots(m) ==
    LET roots == CASE FormatOf[m] \in {"npm", "npm-nested"} -> NpmRoots(m)
                   [] FormatOf[m] = "cargo" -> CargoRoots(m)
                   [] FormatOf[m] = "poetry" -> PoetryRoots(m)
                   [] FormatOf[m] = "nuget" -> NugetRoots(m)
                   [] OTHER -> PackagesOf[{m}]
    IN  IF roots = {} THEN PackagesOf[{m}] ELSE roots

\* packages.config declares no hashes.
Verifiable(p) == Kind[p] # "unpinned" /\ FormatOf[ManifestOf[p]] # "packages-config"

Unresolved(p) == FormatOf[ManifestOf[p]] \in Resolving /\ ~(Requires[p] \subseteq Packages)

InventoryBlockers ==
    [ms \in SUBSET Manifests |->
        (IF \A p \in PackagesOf[ms] : Verifiable(p) THEN {} ELSE {"missing-integrity"})
        \cup (IF \E p \in PackagesOf[ms] : Unresolved(p) THEN {"transitive-unresolved"} ELSE {})]

\* The packages of the lockfiles within each distance of a root.
Within ==
    [ms \in SUBSET Manifests |->
        LET within[n \in 0..Cardinality(Packages)] ==
                IF n = 0 THEN UNION {Roots(m) : m \in ms}
                ELSE LET nearer == within[n - 1]
                     IN  nearer \cup UNION {Resolved(p) : p \in nearer}
        IN  [n \in 0..Cardinality(Packages) |-> within[n]]]

\* What no root reaches counts as a root.
Depths ==
    [ms \in SUBSET Manifests |-> [p \in PackagesOf[ms] |->
        IF p \in Within[ms][Cardinality(Packages)]
        THEN CHOOSE n \in 0..Cardinality(Packages) :
                p \in Within[ms][n] /\ (n > 0 => p \notin Within[ms][n - 1])
        ELSE 0]]

DepthOf(ms, p) == Depths[ms][p]

\* The packages an analysis looks at: a shallowest set of them of the size of the cap.
Slices ==
    [ms \in SUBSET Manifests |->
        {chosen \in SUBSET PackagesOf[ms] :
            /\ Cardinality(chosen) <= MaxPackages
            /\ Cardinality(chosen) < MaxPackages => chosen = PackagesOf[ms]
            /\ \A p \in chosen, q \in PackagesOf[ms] \ chosen : DepthOf(ms, p) <= DepthOf(ms, q)}]

-----------------------------------------------------------------------------
(* Archives within archives.                                               *)

Inside(payloads) == UNION {Contains[x] : x \in payloads \cap Archives}

\* Archives found at each level, one level past the cap.
Levels ==
    [content \in Payloads |->
        LET level[d \in 0..(MaxArchiveDepth + 1)] ==
                IF d = 0 THEN {content} \cap Archives ELSE Inside(level[d - 1]) \cap Archives
        IN  [d \in 0..(MaxArchiveDepth + 1) |-> level[d]]]

Walked == [content \in Payloads |-> UNION {Levels[content][d] : d \in 0..MaxArchiveDepth}]

EntriesIn ==
    [content \in Payloads |->
        Cardinality({e \in (0..MaxArchiveDepth) \X Archives \X Payloads :
                        e[2] \in Levels[content][e[1]] /\ e[3] \in Contains[e[2]]})]

TextIn == [content \in Payloads |-> Cardinality(Inside(Walked[content]) \ Archives)]

\* Once a budget of the analysis is spent, everything after it is blocked as well.
AnalyzeArchive(a, content) ==
    LET entries == a.entries + EntriesIn[content]
        scanned == a.scanned + TextIn[content]
    IN  [a EXCEPT !.bytes = @ + Size[content], !.entries = entries, !.scanned = scanned,
                  !.analyzed = @ \cup {a.at}, !.walked = @ \cup Walked[content],
                  !.blockers = @
            \cup (IF Levels[content][MaxArchiveDepth + 1] # {}
                     \/ entries > MaxArchiveEntries \/ scanned > MaxScannedText
                  THEN {"recursion-cap"} ELSE {})
            \cup (IF Walked[content] \cap Unreadable # {} THEN {"artifact-analysis-blocked"} ELSE {})]

-----------------------------------------------------------------------------
(* An analysis in flight.                                                  *)

Blocked(a, codes) == [a EXCEPT !.blockers = @ \cup codes]

RequestAllowed(a) == a.requests < MaxRequests

Requested(a, p, phase) ==
    [a EXCEPT !.at = p, !.phase = phase, !.requests = @ + 1, !.todo = @ \ {p}]

Shallowest(a) ==
    {p \in a.todo : \A q \in a.todo : DepthOf(a.manifests, p) <= DepthOf(a.manifests, q)}

\* The next request of the analysis, if it makes one: without budget every package left
\* fails at once.
Advanced(a) ==
    IF a.todo = {} THEN {[a EXCEPT !.at = None]}
    ELSE IF ~RequestAllowed(a)
    THEN {[Blocked(a, {"recursion-cap", "fetch-failed"}) EXCEPT !.at = None, !.todo = {}]}
    ELSE {Requested(a, p, IF Kind[p] = "metadata" THEN "metadata" ELSE "artifact") :
            p \in Shallowest(a)}

\* Of the packages chosen, those too deep are blocked; local ones and those that cannot
\* be verified are passed over.
Started(id, ms, chosen) ==
    LET deep == {p \in chosen : DepthOf(ms, p) > MaxDepth}
    IN  [id |-> id, manifests |-> ms, at |-> None, phase |-> "artifact",
         todo |-> {p \in chosen \ deep : Verifiable(p) /\ Kind[p] # "local"},
         requests |-> 0, bytes |-> 0, entries |-> 0, scanned |-> 0,
         blockers |-> InventoryBlockers[ms]
            \cup IF deep # {} \/ chosen # PackagesOf[ms] THEN {"recursion-cap"} ELSE {},
         analyzed |-> {}, walked |-> {}]

Fits(a, size) == size <= MaxResponseBytes /\ a.bytes + size <= MaxTotalBytes

Paid(a, size) == [a EXCEPT !.bytes = @ + size]

\* Mutant: what is served is analyzed whatever its hash.
Received_Unverified(a, payload) ==
    IF ~Fits(a, Size[payload]) THEN Blocked(a, {"fetch-failed"})
    ELSE AnalyzeArchive(a, payload)

\* The artifact of the package at hand has arrived.
Received(a, payload) ==
    IF ~Fits(a, Size[payload]) THEN Blocked(a, {"fetch-failed"})
    ELSE IF payload = ContentOf[a.at] THEN AnalyzeArchive(a, payload)
    ELSE Blocked(Paid(a, Size[payload]), {"hash-mismatch"})

\* What the analysis may be once the answer it waits for is dealt with, if the package at
\* hand needs no further request: the request failed, a check of the metadata did, or an
\* artifact was received.
Outcomes(a) ==
    {Blocked(a, {"fetch-failed"})}
    \cup IF a.phase = "artifact" THEN {Received(a, x) : x \in Payloads}
         ELSE IF Fits(a, MetadataSize) /\ ~RequestAllowed(a)
         THEN {Blocked(Paid(a, MetadataSize), {"recursion-cap", "fetch-failed"})} ELSE {}

\* Metadata that names an artifact the lockfile declares the hash of leads to it.
Answered(a) ==
    (UNION {Advanced(b) : b \in Outcomes(a)})
    \cup IF a.phase = "metadata" /\ Fits(a, MetadataSize) /\ RequestAllowed(a)
         THEN {Requested(Paid(a, MetadataSize), a.at, "artifact")} ELSE {}

-----------------------------------------------------------------------------
(* The audit and its graph.                                                *)

GraphOf(a, fetched) ==
    [fetched |-> fetched, manifests |-> a.manifests, blockers |-> a.blockers,
     analyzed |-> a.analyzed, walked |-> a.walked, requests |-> a.requests, bytes |-> a.bytes]

\* Another audit's graph is refused, and any once the semantic plan is made; otherwise
\* the last to end replaces the one before.
RecordSupplyChainGraph(a, fetched) ==
    audit' = IF audit # None /\ audit.id = a.id /\ ~audit.prepared
             THEN [audit EXCEPT !.graph = GraphOf(a, fetched)] ELSE audit

ActivateAudit(source) ==
    /\ nextId <= MaxAudits
    /\ audit' = [id |-> nextId, source |-> source, prepared |-> FALSE, graph |-> None]
    /\ nextId' = nextId + 1
    /\ UNCHANGED call

\* Closed or expired.
DeactivateAudit ==
    /\ audit # None
    /\ audit' = None
    /\ UNCHANGED <<call, nextId>>

PrepareSemanticPlan ==
    /\ audit # None
    /\ audit' = [audit EXCEPT !.prepared = TRUE]
    /\ UNCHANGED <<call, nextId>>

\* Lockfiles whose exact bytes the audit has indexed.
Bound(ms) == audit # None /\ ms # {} /\ \A m \in ms : SourceOf[m] = audit.source

InventoryDependencies(ms) ==
    /\ Bound(ms)
    /\ RecordSupplyChainGraph([Started(audit.id, ms, {}) EXCEPT !.blockers = InventoryBlockers[ms]], FALSE)
    /\ UNCHANGED <<call, nextId>>

\* Mutant: the analysis that has nothing left to ask for keeps waiting.
Continues_Waits(c, a) == call' = [call EXCEPT ![c] = a] /\ UNCHANGED audit

\* The analysis waits in c, or has ended.
Continues(c, a) ==
    IF a.at = None
    THEN call' = [call EXCEPT ![c] = None] /\ RecordSupplyChainGraph(a, TRUE)
    ELSE call' = [call EXCEPT ![c] = a] /\ UNCHANGED audit

AnalyzeDependencies(c, ms) ==
    /\ call[c] = None /\ Bound(ms)
    /\ \E started \in {Started(audit.id, ms, chosen) : chosen \in Slices[ms]} :
        \E a \in Advanced(started) : Continues(c, a)
    /\ UNCHANGED nextId

AnswerArrives(c) ==
    /\ call[c] # None
    /\ \E a \in Answered(call[c]) : Continues(c, a)
    /\ UNCHANGED nextId

Next ==
    \/ \E source \in Sources : ActivateAudit(source)
    \/ DeactivateAudit
    \/ PrepareSemanticPlan
    \/ \E ms \in SUBSET Manifests :
        \/ InventoryDependencies(ms)
        \/ \E c \in Calls : AnalyzeDependencies(c, ms)
    \/ \E c \in Calls : AnswerArrives(c)

Spec == Init /\ [][Next]_vars

-----------------------------------------------------------------------------
(* Properties.                                                             *)

Reachable ==
    [content \in Payloads |->
        LET within[n \in 0..Cardinality(Payloads)] ==
                IF n = 0 THEN {content} ELSE LET outer == within[n - 1] IN outer \cup Inside(outer)
        IN  within[Cardinality(Payloads)]]

\* A graph the audit holds without a blocker is of the audit's own lockfiles and every
\* requirement is resolved, where the format resolves any; when the artifacts were
\* fetched, every package but the local ones was served with a hash the lockfile declares
\* and every archive in it was opened, however deep: "Any incomplete required stage yields
\* incomplete assurance" (extension.mjs:245).
CompleteIsWhole ==
    audit # None /\ audit.graph # None /\ audit.graph.blockers = {} =>
        \A p \in PackagesOf[audit.graph.manifests] :
            /\ SourceOf[ManifestOf[p]] = audit.source
            /\ FormatOf[ManifestOf[p]] \in Resolving =>
                    Requires[p] \subseteq PackagesOf[audit.graph.manifests]
            /\ audit.graph.fetched /\ Kind[p] # "local" =>
                /\ p \in audit.graph.analyzed
                /\ Reachable[ContentOf[p]] \cap Archives \subseteq audit.graph.walked \ Unreadable

=============================================================================
