--------------------------- MODULE ReleaseAssets ----------------------------
(***************************************************************************)
(* The assets of a release under verify_release: listed once, downloaded   *)
(* into the quarantine one by one, hashed, and counted in the coverage that *)
(* decides whether the report may carry a verdict.                         *)
(*                                                                         *)
(* Listing and download are awaited: until the answer is there the session *)
(* runs other calls, its audit may be closed, expire, or give way to the   *)
(* next one, and the answer is accounted to whatever audit is active then. *)
(* The quarantine of a commit is one directory of the build root, shared   *)
(* by all sessions and by all releases of the commit.                      *)
(***************************************************************************)
EXTENDS Integers, FiniteSets

CONSTANTS
    None,
    Sessions,
    Releases,
    SourceOf,       \* the commit of each release
    Assets,
    ReleaseOf,      \* the release an asset belongs to
    Oversized,      \* assets that declare more than the cap of a download
    Calls,          \* calls in flight at a time, a bound
    MaxAssets,      \* MAX_RELEASE_ASSETS
    MaxAudits,      \* audits activated in all, a bound
    MaxChanges      \* changes of a release's assets by its publisher, a bound

Commits == {SourceOf[r] : r \in Releases}
Ids == 1..MaxAudits

ASSUME BoundsAssumption == {MaxAssets, MaxAudits, MaxChanges} \subseteq Nat
ASSUME AssetsAssumption ==
    IsFiniteSet(Assets) /\ ReleaseOf \in [Assets -> Releases] /\ Oversized \subseteq Assets
ASSUME NoneAssumption == None \notin Releases /\ None \notin Assets /\ None \notin Ids

VARIABLES
    audit,      \* activeAudits
    call,       \* handlers waiting for GitHub
    quarantine, \* the quarantine directory of a commit, None when there is none
    published,  \* the assets of a release on GitHub
    past,       \* history: every set of assets a release had
    nextId,
    left        \* history: commits whose quarantine an audit was left to, or a write after it

vars == <<audit, call, quarantine, published, past, nextId, left>>

-----------------------------------------------------------------------------

\* A file holds the bytes its asset declares, or fewer.
Contents == {"whole", "short"}
Coverages == [recorded: BOOLEAN, truncated: BOOLEAN, assets: SUBSET Assets,
              held: [Assets -> Contents \cup {None}]]
Audits == [id: Ids, release: Releases \cup {None}, coverage: Coverages \cup {None}]
CallStates == [session: Sessions, release: Releases, asset: Assets \cup {None}]
Directories == [Assets -> Contents \cup {None}]

ASSUME NoneRecordAssumption == None \notin Audits

\* Type invariant.
TypeOK ==
    /\ audit \in [Sessions -> Audits \cup {None}]
    /\ call \in [Calls -> CallStates \cup {None}]
    /\ quarantine \in [Commits -> Directories \cup {None}]
    /\ published \in [Releases -> SUBSET Assets]
    /\ past \in [Releases -> SUBSET SUBSET Assets]
    /\ nextId \in 1..(MaxAudits + 1)
    /\ left \subseteq Commits

AssetsOf(r) == {a \in Assets : ReleaseOf[a] = r}

Init ==
    /\ audit = [s \in Sessions |-> None]
    /\ call = [c \in Calls |-> None]
    /\ quarantine = [c \in Commits |-> None]
    /\ published \in {p \in [Releases -> SUBSET Assets] :
                        \A r \in Releases : p[r] \subseteq AssetsOf(r)}
    /\ past = [r \in Releases |-> {published[r]}]
    /\ nextId = 1
    /\ left = {}

-----------------------------------------------------------------------------
(* The coverage of an audit.                                               *)

NewCoverage ==
    [recorded |-> FALSE, truncated |-> FALSE, assets |-> {},
     held |-> [a \in Assets |-> None]]

CoverageOf(s) == IF audit[s].coverage = None THEN NewCoverage ELSE audit[s].coverage

\* The session's audit, if it is of the release a call was made for.
Accounts(s, r) == audit[s] # None /\ audit[s].release = r

\* Mutant: whatever audit is active is accounted to.
MutateReleaseAssetCoverageState_Any(s, r, coverage) ==
    audit' = IF audit[s] # None THEN [audit EXCEPT ![s].coverage = coverage] ELSE audit

\* coverage is computed from the state of the audit that is active now.
MutateReleaseAssetCoverageState(s, r, coverage) ==
    audit' = IF Accounts(s, r) THEN [audit EXCEPT ![s].coverage = coverage] ELSE audit

\* A failure of any kind deletes the success recorded before it.
RecordFetchFailure(coverage, a) ==
    [coverage EXCEPT !.held[a] = None]

RecordFetchSuccess(coverage, a, content) ==
    [coverage EXCEPT !.held[a] = content]

\* The first listing is bound to the audit; a different one later is refused.
RecordEnumeration(coverage, assets, truncated) ==
    IF coverage.recorded THEN coverage
    ELSE [coverage EXCEPT !.recorded = TRUE, !.truncated = truncated, !.assets = assets]

\* What a report with a verdict needs.
AcquisitionComplete(coverage) ==
    /\ coverage # None
    /\ coverage.recorded /\ ~coverage.truncated
    /\ \A a \in coverage.assets : coverage.held[a] # None

-----------------------------------------------------------------------------
(* Audits of a session.                                                    *)

\* The commit whose quarantine the session's audit has authority over.
Authority(s) ==
    IF audit[s] = None \/ audit[s].release = None THEN {} ELSE {SourceOf[audit[s].release]}

LeftBy(s) == {c \in Authority(s) : quarantine[c] # None}

ActivateAudit(s) ==
    /\ nextId <= MaxAudits
    /\ audit' = [audit EXCEPT ![s] = [id |-> nextId, release |-> None, coverage |-> None]]
    /\ nextId' = nextId + 1
    /\ left' = left \cup LeftBy(s)
    /\ UNCHANGED <<call, quarantine, published, past>>

\* safe_list_tree resolves the release and binds it to the audit; the first stays.
RecordReleaseIdentity(s, r) ==
    /\ audit[s] # None /\ audit[s].release = None
    /\ audit' = [audit EXCEPT ![s].release = r]
    /\ UNCHANGED <<call, quarantine, published, past, nextId, left>>

Expire(s) ==
    /\ audit[s] # None
    /\ audit' = [audit EXCEPT ![s] = None]
    /\ left' = left \cup LeftBy(s)
    /\ UNCHANGED <<call, quarantine, published, past, nextId>>

\* Refused while the quarantine exists, unless it is abandoned.
CloseAudit(s, abandoning) ==
    /\ audit[s] # None
    /\ abandoning \/ LeftBy(s) = {}
    /\ audit' = [audit EXCEPT ![s] = None]
    /\ left' = left \cup LeftBy(s)
    /\ UNCHANGED <<call, quarantine, published, past, nextId>>

\* A removal that fails may have removed some of the files.
CleanupQuarantine(s) ==
    \E c \in Authority(s) :
        /\ quarantine[c] # None
        /\ \/ /\ quarantine' = [quarantine EXCEPT ![c] = None]
              /\ left' = left \ {c}
           \/ \E gone \in SUBSET Assets :
                /\ quarantine' = [quarantine EXCEPT ![c] =
                     [a \in Assets |-> IF a \in gone THEN None ELSE @[a]]]
                /\ UNCHANGED left
    /\ UNCHANGED <<audit, call, published, past, nextId>>

-----------------------------------------------------------------------------
(* Listing.                                                                *)

Waits(c, s, r, a) == call' = [call EXCEPT ![c] = [session |-> s, release |-> r, asset |-> a]]
Returns(c) == call' = [call EXCEPT ![c] = None]

Publish(r) ==
    /\ \E assets \in SUBSET AssetsOf(r) :
         /\ assets # published[r]
         /\ Cardinality(past[r] \cup {assets}) <= MaxChanges + 1
         /\ published' = [published EXCEPT ![r] = assets]
         /\ past' = [past EXCEPT ![r] = @ \cup {assets}]
    /\ UNCHANGED <<audit, call, quarantine, nextId, left>>

ListBegins(s, c) ==
    /\ call[c] = None
    /\ audit[s] # None /\ audit[s].release # None
    /\ Waits(c, s, audit[s].release, None)
    /\ UNCHANGED <<audit, quarantine, published, past, nextId, left>>

\* GitHub fails, or answers another identity or a malformed list: only that is recorded.
ListFails(c) ==
    /\ call[c] # None /\ call[c].asset = None
    /\ LET s == call[c].session
       IN  MutateReleaseAssetCoverageState(s, call[c].release, CoverageOf(s))
    /\ Returns(c)
    /\ UNCHANGED <<quarantine, published, past, nextId, left>>

ListEnds(c) ==
    /\ call[c] # None /\ call[c].asset = None
    /\ LET s == call[c].session
           r == call[c].release
           truncated == Cardinality(published[r]) > MaxAssets
       IN  \E assets \in SUBSET published[r] :
            /\ Cardinality(assets) = IF truncated THEN MaxAssets ELSE Cardinality(published[r])
            /\ MutateReleaseAssetCoverageState(
                 s, r, RecordEnumeration(CoverageOf(s), assets, truncated))
    /\ Returns(c)
    /\ UNCHANGED <<quarantine, published, past, nextId, left>>

-----------------------------------------------------------------------------
(* Fetching.                                                               *)

FileOf(r, a) ==
    IF quarantine[SourceOf[r]] = None THEN None ELSE quarantine[SourceOf[r]][a]

\* The quarantine directory with the file of a.
With(r, a, content) ==
    LET directory == IF quarantine[SourceOf[r]] = None THEN [x \in Assets |-> None]
                     ELSE quarantine[SourceOf[r]]
    IN  [quarantine EXCEPT ![SourceOf[r]] = [directory EXCEPT ![a] = content]]

Enumerated(s, a) ==
    audit[s] # None /\ audit[s].coverage # None /\ a \in audit[s].coverage.assets

FetchFailure(s, r, a) ==
    MutateReleaseAssetCoverageState(s, r, RecordFetchFailure(CoverageOf(s), a))

\* What is held is not fetched again, but its file must still be there.
FetchFindsChange(s, a) ==
    /\ Enumerated(s, a) /\ audit[s].coverage.held[a] # None
    /\ FileOf(audit[s].release, a) # audit[s].coverage.held[a]
    /\ FetchFailure(s, audit[s].release, a)
    /\ UNCHANGED <<call, quarantine, published, past, nextId, left>>

\* The size an asset declares is over the cap, or over the smaller one the caller gave.
FetchRefusesSize(s, a) ==
    /\ Enumerated(s, a) /\ audit[s].coverage.held[a] = None
    /\ FetchFailure(s, audit[s].release, a)
    /\ UNCHANGED <<call, quarantine, published, past, nextId, left>>

FetchBegins(s, c, a) ==
    /\ call[c] = None
    /\ Enumerated(s, a) /\ audit[s].coverage.held[a] = None
    /\ a \notin Oversized
    /\ Waits(c, s, audit[s].release, a)
    /\ UNCHANGED <<audit, quarantine, published, past, nextId, left>>

Fetching(c) == call[c] # None /\ call[c].asset # None

\* No answer, or not as many bytes as the listing declared.
DownloadFails(c) ==
    /\ Fetching(c)
    /\ FetchFailure(call[c].session, call[c].release, call[c].asset)
    /\ Returns(c)
    /\ UNCHANGED <<quarantine, published, past, nextId, left>>

\* A file nobody recorded, or that another fetch of the asset recorded meanwhile,
\* is in the way.
FetchFindsFile(c) ==
    /\ Fetching(c)
    /\ FileOf(call[c].release, call[c].asset) # None
    /\ FetchFailure(call[c].session, call[c].release, call[c].asset)
    /\ Returns(c)
    /\ UNCHANGED <<quarantine, published, past, nextId, left>>

\* The write fails before the directory is made, before the file is, or half way.
WriteFails(c) ==
    /\ Fetching(c)
    /\ LET r == call[c].release
           a == call[c].asset
       IN  /\ FileOf(r, a) = None
           /\ quarantine' \in {quarantine, With(r, a, None), With(r, a, "short")}
           /\ FetchFailure(call[c].session, r, a)
           /\ left' = IF Accounts(call[c].session, r) THEN left ELSE left \cup {SourceOf[r]}
    /\ Returns(c)
    /\ UNCHANGED <<published, past, nextId>>

\* Mutant: the size of what came is not compared.
Downloaded_AnySize == {"whole", "short", "longer"}

Downloaded == {"whole"}

\* Mutant: a file no audit accounts for stays.
FetchEnds_KeepsFile(c) ==
    /\ Fetching(c)
    /\ LET s == call[c].session
           r == call[c].release
           a == call[c].asset
       IN  /\ FileOf(r, a) = None
           /\ \E content \in Downloaded :
                /\ quarantine' = With(r, a, content)
                /\ MutateReleaseAssetCoverageState(s, r,
                     IF Enumerated(s, a) THEN RecordFetchSuccess(CoverageOf(s), a, content)
                     ELSE CoverageOf(s))
    /\ Returns(c)
    /\ UNCHANGED <<published, past, nextId, left>>

\* The file is removed again when no audit of the release is active; when the audit
\* that is has not listed the asset, recording it fails and the file stays.
FetchEnds(c) ==
    /\ Fetching(c)
    /\ LET s == call[c].session
           r == call[c].release
           a == call[c].asset
       IN  /\ FileOf(r, a) = None
           /\ \E content \in Downloaded :
                /\ quarantine' = With(r, a, IF Accounts(s, r) THEN content ELSE None)
                /\ MutateReleaseAssetCoverageState(s, r,
                     IF Enumerated(s, a) THEN RecordFetchSuccess(CoverageOf(s), a, content)
                     ELSE CoverageOf(s))
    /\ Returns(c)
    /\ UNCHANGED <<published, past, nextId, left>>

-----------------------------------------------------------------------------

Next ==
    \/ \E s \in Sessions :
        \/ ActivateAudit(s)
        \/ \E r \in Releases : RecordReleaseIdentity(s, r)
        \/ Expire(s)
        \/ \E abandoning \in BOOLEAN : CloseAudit(s, abandoning)
        \/ CleanupQuarantine(s)
        \/ \E c \in Calls :
            \/ ListBegins(s, c)
            \/ \E a \in Assets : FetchBegins(s, c, a)
        \/ \E a \in Assets : FetchFindsChange(s, a) \/ FetchRefusesSize(s, a)
    \/ \E r \in Releases : Publish(r)
    \/ \E c \in Calls :
        \/ ListFails(c)
        \/ ListEnds(c)
        \/ DownloadFails(c)
        \/ FetchFindsFile(c)
        \/ WriteFails(c)
        \/ FetchEnds(c)

Spec == Init /\ [][Next]_vars

-----------------------------------------------------------------------------
(* Properties.                                                             *)

\* A report that may carry a verdict rests on one whole listing of the audit's own
\* release, and on every asset of it downloaded in full, whichever calls, audits and
\* sessions came between: "List the already-bound release through
\* zerotrust_safe_list_release_assets and successfully fetch/hash every enumerated
\* asset" (reportWrapper.mjs:709).
VerdictOnWholeRelease ==
    \A s \in Sessions : audit[s] # None /\ AcquisitionComplete(audit[s].coverage) =>
        /\ audit[s].release # None /\ audit[s].coverage.assets \in past[audit[s].release]
        /\ \A a \in audit[s].coverage.assets : audit[s].coverage.held[a] = "whole"

\* A file in the quarantine is under the authority of an audit that can clean it up,
\* or was left there by one that was abandoned, replaced or expired, or by a failed
\* write after the audit's end: "preserving cleanup authority" (extension.mjs:1692).
FilesAccountable ==
    \A r \in Releases, a \in Assets : FileOf(r, a) # None =>
        \/ \E s \in Sessions : SourceOf[r] \in Authority(s)
        \/ SourceOf[r] \in left

=============================================================================
