------------------------ MODULE ReleaseAssetsProofs ------------------------
(***************************************************************************)
(* Proofs about ReleaseAssets for any sessions, releases, assets and calls *)
(* in flight.                                                              *)
(***************************************************************************)
EXTENDS ReleaseAssets, FiniteSetTheorems, TLAPS

\* A coverage of a release: an unabridged listing is one the release had, and what
\* is held is whole.
Sound(coverage, r) ==
    /\ coverage.recorded /\ ~coverage.truncated => coverage.assets \in past[r]
    /\ \A a \in Assets : coverage.held[a] \in {"whole", None}

\* Every audit has a sound coverage, if it has any.
AuditsSound ==
    \A s \in Sessions : audit[s] # None /\ audit[s].coverage # None =>
        audit[s].release # None /\ Sound(audit[s].coverage, audit[s].release)

\* History has what is published now.
HistoryCurrent == \A r \in Releases : published[r] \in past[r]

\* The inductive invariant.
IInv == TypeOK /\ AuditsSound /\ HistoryCurrent /\ FilesAccountable

-----------------------------------------------------------------------------
(* What an answer does to the session's audit.                             *)

\* The state a call computes its coverage from.
LEMMA CoverageType ==
    ASSUME IInv, NEW s \in Sessions, NEW r \in Releases, Accounts(s, r)
    PROVE  CoverageOf(s) \in Coverages /\ Sound(CoverageOf(s), r)
<1>1. audit[s] \in Audits /\ audit[s].release = r
  BY DEF IInv, TypeOK, Accounts
<1>2. CASE audit[s].coverage = None
  <2>1. CoverageOf(s) = NewCoverage
    BY <1>2 DEF CoverageOf
  <2> QED BY <2>1 DEF NewCoverage, Coverages, Sound
<1>3. CASE audit[s].coverage # None
  <2>1. audit[s].coverage \in Coverages
    BY <1>1, <1>3 DEF Audits
  <2>2. Sound(audit[s].coverage, r)
    BY <1>1, <1>3 DEF IInv, AuditsSound, Accounts
  <2> QED BY <1>3, <2>1, <2>2 DEF CoverageOf
<1> QED BY <1>2, <1>3

\* A sound coverage may be stored; no audit changes its release by it.
LEMMA Accounted ==
    ASSUME IInv, NEW s \in Sessions, NEW r \in Releases, NEW coverage,
           Accounts(s, r) => coverage \in Coverages /\ Sound(coverage, r),
           MutateReleaseAssetCoverageState(s, r, coverage), UNCHANGED past
    PROVE  /\ audit' \in [Sessions -> Audits \cup {None}]
           /\ AuditsSound'
           /\ \A t \in Sessions : Authority(t)' = Authority(t)
<1>1. audit \in [Sessions -> Audits \cup {None}]
  BY DEF IInv, TypeOK
<1>2. CASE ~Accounts(s, r)
  BY <1>1, <1>2 DEF MutateReleaseAssetCoverageState, IInv, AuditsSound, Sound, Authority
<1>3. CASE Accounts(s, r)
  <2>1. audit[s] \in Audits /\ audit[s].release = r /\ r # None /\ audit[s] # None
    BY <1>1, <1>3, NoneAssumption DEF Accounts
  <2>2. audit' = [audit EXCEPT ![s] = [audit[s] EXCEPT !.coverage = coverage]]
    BY <1>3 DEF MutateReleaseAssetCoverageState
  <2>3. [audit[s] EXCEPT !.coverage = coverage] \in Audits
    BY <1>3, <2>1 DEF Audits
  <2>4. audit' \in [Sessions -> Audits \cup {None}]
    BY <1>1, <2>2, <2>3
  <2>5. \A t \in Sessions : t # s => audit'[t] = audit[t]
    BY <1>1, <2>2
  <2>6. audit'[s].release = r /\ audit'[s].coverage = coverage
    BY <1>1, <2>1, <2>2 DEF Audits
  <2>7. AuditsSound'
    BY <1>3, <2>1, <2>5, <2>6 DEF IInv, AuditsSound, Sound
  <2>8. audit'[s] # None
    BY <1>1, <2>2, <2>3, NoneRecordAssumption
  <2> QED BY <2>1, <2>4, <2>5, <2>6, <2>7, <2>8 DEF Authority
<1> QED BY <1>2, <1>3

\* A step that leaves the quarantine to the same authorities, and adds no file.
LEMMA SameFiles ==
    ASSUME IInv, UNCHANGED <<quarantine, left>>,
           \A s \in Sessions : Authority(s)' = Authority(s)
    PROVE  FilesAccountable'
  BY DEF IInv, FilesAccountable, FileOf

\* What an answer does that writes no file.
LEMMA AnswerKeeps ==
    ASSUME IInv, NEW s \in Sessions, NEW r \in Releases, NEW coverage,
           Accounts(s, r) => coverage \in Coverages /\ Sound(coverage, r),
           MutateReleaseAssetCoverageState(s, r, coverage),
           call' \in [Calls -> CallStates \cup {None}],
           UNCHANGED <<quarantine, published, past, nextId, left>>
    PROVE  IInv'
<1>1. audit' \in [Sessions -> Audits \cup {None}] /\ AuditsSound' /\ FilesAccountable'
  BY Accounted, SameFiles
<1> QED BY <1>1 DEF IInv, TypeOK, HistoryCurrent

\* A failure leaves a sound coverage.
LEMMA FailureSound ==
    ASSUME NEW coverage \in Coverages, NEW r, Sound(coverage, r), NEW a \in Assets
    PROVE  /\ RecordFetchFailure(coverage, a) \in Coverages
           /\ Sound(RecordFetchFailure(coverage, a), r)
  BY DEF RecordFetchFailure, Coverages, Sound, Contents

\* So does a whole file.
LEMMA SuccessSound ==
    ASSUME NEW coverage \in Coverages, NEW r, Sound(coverage, r), NEW a \in Assets
    PROVE  /\ RecordFetchSuccess(coverage, a, "whole") \in Coverages
           /\ Sound(RecordFetchSuccess(coverage, a, "whole"), r)
  BY DEF RecordFetchSuccess, Coverages, Sound, Contents

\* A call that ends.
LEMMA ReturnsType ==
    ASSUME IInv, NEW c \in Calls, Returns(c)
    PROVE  call' \in [Calls -> CallStates \cup {None}]
  BY DEF IInv, TypeOK, Returns

\* What a call in flight was made for.
LEMMA CallType ==
    ASSUME IInv, NEW c \in Calls, call[c] # None
    PROVE  /\ call[c].session \in Sessions /\ call[c].release \in Releases
           /\ call[c].asset # None => call[c].asset \in Assets
  BY DEF IInv, TypeOK, CallStates

-----------------------------------------------------------------------------
(* One lemma per action.                                                   *)

\* The invariant holds at the start.
LEMMA InitStep == Init => IInv
<1> SUFFICES ASSUME Init PROVE IInv
  OBVIOUS
<1>1. published \in [Releases -> SUBSET Assets]
  BY DEF Init, AssetsOf
<1>2. nextId \in 1..(MaxAudits + 1)
  BY BoundsAssumption DEF Init
<1>3. TypeOK
  BY <1>1, <1>2 DEF Init, TypeOK
<1>4. \A r \in Releases, a \in Assets : FileOf(r, a) = None
  BY DEF Init, FileOf, Commits
<1>5. FilesAccountable
  BY <1>4 DEF FilesAccountable
<1> QED BY <1>3, <1>5 DEF Init, IInv, AuditsSound, HistoryCurrent

\* An audit that begins or ends leaves its files to history.
LEMMA AuditReplaced ==
    ASSUME IInv, NEW s \in Sessions, NEW next,
           next = None \/ (next \in Audits /\ next.release = None /\ next.coverage = None),
           audit' = [audit EXCEPT ![s] = next], left' = left \cup LeftBy(s),
           nextId' \in 1..(MaxAudits + 1), UNCHANGED <<call, quarantine, published, past>>
    PROVE  IInv'
<1>1. audit \in [Sessions -> Audits \cup {None}]
  BY DEF IInv, TypeOK
<1>2. audit'[s] = next /\ \A t \in Sessions : t # s => audit'[t] = audit[t]
  BY <1>1
<1>3. AuditsSound'
  BY <1>2 DEF IInv, AuditsSound, Sound
<1>4. LeftBy(s) \subseteq Commits
  BY <1>1 DEF LeftBy, Authority, Audits, Commits
<1>5. TypeOK'
  BY <1>1, <1>4 DEF IInv, TypeOK
<1>6. FilesAccountable'
  <2> SUFFICES ASSUME NEW r \in Releases, NEW a \in Assets, FileOf(r, a)' # None
               PROVE  \/ \E t \in Sessions : SourceOf[r] \in Authority(t)'
                      \/ SourceOf[r] \in left'
    BY DEF FilesAccountable
  <2>1. FileOf(r, a) # None /\ quarantine[SourceOf[r]] # None
    BY DEF FileOf
  <2>2. CASE SourceOf[r] \in left
    BY <2>2
  <2>3. CASE SourceOf[r] \in Authority(s)
    BY <2>1, <2>3 DEF LeftBy
  <2>4. ASSUME NEW t \in Sessions, t # s, SourceOf[r] \in Authority(t)
        PROVE  SourceOf[r] \in Authority(t)'
    BY <1>2, <2>4 DEF Authority
  <2> QED BY <2>1, <2>2, <2>3, <2>4 DEF IInv, FilesAccountable
<1> QED BY <1>3, <1>5, <1>6 DEF IInv, HistoryCurrent

\* activateAudit, which discards the audit before.
LEMMA ActivateStep ==
    ASSUME IInv, NEW s \in Sessions, ActivateAudit(s) PROVE IInv'
<1> DEFINE next == [id |-> nextId, release |-> None, coverage |-> None]
<1>1. nextId \in Ids /\ nextId + 1 \in 1..(MaxAudits + 1)
  BY BoundsAssumption DEF IInv, TypeOK, ActivateAudit, Ids
<1>2. next \in Audits /\ next.release = None /\ next.coverage = None
  BY <1>1 DEF Audits
<1> HIDE DEF next
<1>3. audit' = [audit EXCEPT ![s] = next]
  BY DEF ActivateAudit, next
<1> QED BY <1>1, <1>2, <1>3, AuditReplaced DEF ActivateAudit

\* closeAudit and the TTL.
LEMMA EndStep ==
    ASSUME IInv, NEW s \in Sessions,
           Expire(s) \/ \E abandoning \in BOOLEAN : CloseAudit(s, abandoning)
    PROVE  IInv'
<1>1. /\ audit' = [audit EXCEPT ![s] = None] /\ left' = left \cup LeftBy(s)
      /\ UNCHANGED <<call, quarantine, published, past, nextId>>
  BY DEF Expire, CloseAudit
<1>2. nextId' \in 1..(MaxAudits + 1)
  BY <1>1 DEF IInv, TypeOK
<1> QED BY <1>1, <1>2, AuditReplaced

\* The release an audit is bound to is set once.
LEMMA IdentityStep ==
    ASSUME IInv, NEW s \in Sessions, NEW r \in Releases, RecordReleaseIdentity(s, r) PROVE IInv'
<1>1. /\ audit \in [Sessions -> Audits \cup {None}] /\ audit[s] \in Audits
      /\ audit[s].release = None /\ r # None
  BY NoneAssumption DEF IInv, TypeOK, RecordReleaseIdentity
<1> DEFINE next == [audit[s] EXCEPT !.release = r]
<1>2. /\ audit' = [audit EXCEPT ![s] = next]
      /\ UNCHANGED <<call, quarantine, published, past, nextId, left>>
  BY DEF RecordReleaseIdentity
<1>3. next \in Audits /\ next.coverage = audit[s].coverage
  BY <1>1 DEF Audits
<1> HIDE DEF next
<1>4. audit' \in [Sessions -> Audits \cup {None}] /\ audit'[s] = next
      /\ \A t \in Sessions : t # s => audit'[t] = audit[t]
  BY <1>1, <1>2, <1>3
<1>5. audit[s].coverage = None
  BY <1>1, NoneRecordAssumption DEF IInv, AuditsSound
<1>6. AuditsSound'
  BY <1>2, <1>3, <1>4, <1>5 DEF IInv, AuditsSound, Sound
<1>7. \A t \in Sessions : Authority(t) \subseteq Authority(t)'
  BY <1>1, <1>4 DEF Authority
<1>8. FilesAccountable'
  BY <1>2, <1>7 DEF IInv, FilesAccountable, FileOf
<1> QED BY <1>2, <1>4, <1>6, <1>8 DEF IInv, TypeOK, HistoryCurrent

\* Cleanup only removes files.
LEMMA CleanupStep ==
    ASSUME IInv, NEW s \in Sessions, CleanupQuarantine(s) PROVE IInv'
<1>1. PICK c \in Authority(s) :
        /\ quarantine[c] # None
        /\ \/ quarantine' = [quarantine EXCEPT ![c] = None] /\ left' = left \ {c}
           \/ \E gone \in SUBSET Assets :
                /\ quarantine' = [quarantine EXCEPT ![c] =
                     [a \in Assets |-> IF a \in gone THEN None ELSE @[a]]]
                /\ UNCHANGED left
  BY DEF CleanupQuarantine
<1>2. UNCHANGED <<audit, call, published, past, nextId>>
  BY DEF CleanupQuarantine
<1>3. /\ quarantine \in [Commits -> Directories \cup {None}] /\ c \in Commits
      /\ quarantine[c] \in Directories /\ left \subseteq Commits
  BY <1>1 DEF IInv, TypeOK, Authority, Audits, Commits
<1> DEFINE Fewer == \A r \in Releases, a \in Assets : FileOf(r, a)' # None =>
             FileOf(r, a) # None /\ (SourceOf[r] \in left => SourceOf[r] \in left')
<1>4. quarantine' \in [Commits -> Directories \cup {None}] /\ left' \subseteq Commits /\ Fewer
  <2>1. CASE quarantine' = [quarantine EXCEPT ![c] = None] /\ left' = left \ {c}
    BY <1>3, <2>1 DEF FileOf, Commits
  <2>2. ASSUME NEW gone \in SUBSET Assets, UNCHANGED left,
               quarantine' = [quarantine EXCEPT ![c] =
                 [a \in Assets |-> IF a \in gone THEN None ELSE @[a]]]
        PROVE  /\ quarantine' \in [Commits -> Directories \cup {None}]
               /\ left' \subseteq Commits /\ Fewer
    <3> DEFINE kept == [a \in Assets |-> IF a \in gone THEN None ELSE quarantine[c][a]]
    <3>1. kept \in Directories
      BY <1>3 DEF Directories
    <3>2. quarantine' = [quarantine EXCEPT ![c] = kept]
      BY <2>2
    <3>3. \A a \in Assets : kept[a] # None => quarantine[c][a] # None
      OBVIOUS
    <3> HIDE DEF kept
    <3>4. \A r \in Releases, a \in Assets : FileOf(r, a)' # None => FileOf(r, a) # None
      BY <1>1, <1>3, <3>2, <3>3 DEF FileOf, Commits
    <3> QED BY <1>3, <2>2, <3>1, <3>2, <3>4
  <2> QED BY <1>1, <2>1, <2>2
<1>5. FilesAccountable'
  BY <1>2, <1>4 DEF IInv, FilesAccountable, Authority
<1> QED BY <1>2, <1>4, <1>5 DEF IInv, TypeOK, AuditsSound, Sound, HistoryCurrent

\* The maintainer publishes; the past of a release only grows.
LEMMA PublishStep ==
    ASSUME IInv, NEW r \in Releases, Publish(r) PROVE IInv'
<1>1. PICK assets \in SUBSET AssetsOf(r) :
        /\ published' = [published EXCEPT ![r] = assets]
        /\ past' = [past EXCEPT ![r] = @ \cup {assets}]
  BY DEF Publish
<1>2. assets \subseteq Assets /\ UNCHANGED <<audit, call, quarantine, nextId, left>>
  BY DEF Publish, AssetsOf
<1>3. TypeOK' /\ HistoryCurrent' /\ \A q \in Releases : past[q] \subseteq past'[q]
  BY <1>1, <1>2 DEF IInv, TypeOK, HistoryCurrent
<1>4. \A s \in Sessions : audit[s] # None => audit[s].release \in Releases \cup {None}
  BY DEF IInv, TypeOK, Audits
<1>5. AuditsSound'
  BY <1>2, <1>3, <1>4 DEF IInv, AuditsSound, Sound
<1>6. FilesAccountable'
  BY <1>2 DEF IInv, FilesAccountable, FileOf, Authority
<1> QED BY <1>3, <1>5, <1>6 DEF IInv

\* A call is made for the audit that is active then.
LEMMA WaitStep ==
    ASSUME IInv, NEW s \in Sessions, NEW c \in Calls,
           ListBegins(s, c) \/ \E a \in Assets : FetchBegins(s, c, a)
    PROVE  IInv'
<1>1. PICK a \in Assets \cup {None} :
        Waits(c, s, audit[s].release, a) /\ audit[s] # None /\ audit[s].release # None
  BY DEF ListBegins, FetchBegins, Enumerated, IInv, AuditsSound
<1>2. UNCHANGED <<audit, quarantine, published, past, nextId, left>>
  BY DEF ListBegins, FetchBegins
<1>3. audit[s].release \in Releases
  BY <1>1 DEF IInv, TypeOK, Audits
<1>4. call' \in [Calls -> CallStates \cup {None}]
  BY <1>1, <1>3 DEF IInv, TypeOK, Waits, CallStates
<1>5. FilesAccountable'
  BY <1>2, SameFiles DEF Authority
<1> QED BY <1>2, <1>4, <1>5 DEF IInv, TypeOK, AuditsSound, Sound, HistoryCurrent

\* A listing that fails says nothing.
LEMMA ListFailsStep ==
    ASSUME IInv, NEW c \in Calls, ListFails(c) PROVE IInv'
<1> DEFINE s == call[c].session
           r == call[c].release
<1>1. /\ MutateReleaseAssetCoverageState(s, r, CoverageOf(s)) /\ call[c] # None
      /\ Returns(c) /\ UNCHANGED <<quarantine, published, past, nextId, left>>
  BY DEF ListFails
<1>2. s \in Sessions /\ r \in Releases
  BY <1>1, CallType
<1>3. call' \in [Calls -> CallStates \cup {None}]
  BY <1>1, ReturnsType
<1> HIDE DEF s, r
<1> QED BY <1>1, <1>2, <1>3, CoverageType, AnswerKeeps

\* An unabridged listing is what is published at that time.
LEMMA ListEndsStep ==
    ASSUME IInv, NEW c \in Calls, ListEnds(c) PROVE IInv'
<1> DEFINE s == call[c].session
           r == call[c].release
           truncated == Cardinality(published[r]) > MaxAssets
<1>1. PICK assets \in SUBSET published[r] :
        /\ Cardinality(assets) = IF truncated THEN MaxAssets ELSE Cardinality(published[r])
        /\ MutateReleaseAssetCoverageState(
             s, r, RecordEnumeration(CoverageOf(s), assets, truncated))
  BY DEF ListEnds
<1>2. /\ call[c] # None /\ Returns(c) /\ UNCHANGED <<quarantine, published, past, nextId, left>>
  BY DEF ListEnds
<1>3. s \in Sessions /\ r \in Releases /\ call' \in [Calls -> CallStates \cup {None}]
  BY <1>2, CallType, ReturnsType
<1>4. published[r] \subseteq Assets /\ published[r] \in past[r]
  BY <1>3 DEF IInv, TypeOK, HistoryCurrent
<1>5. ~truncated => assets \in past[r]
  <2>1. IsFiniteSet(published[r])
    BY <1>4, FS_Subset, AssetsAssumption
  <2> QED BY <1>1, <1>4, <2>1, FS_Subset
<1>6. truncated \in BOOLEAN
  OBVIOUS
<1> HIDE DEF s, r, truncated
<1> DEFINE coverage == RecordEnumeration(CoverageOf(s), assets, truncated)
<1>7. Accounts(s, r) => coverage \in Coverages /\ Sound(coverage, r)
  <2> SUFFICES ASSUME Accounts(s, r) PROVE coverage \in Coverages /\ Sound(coverage, r)
    OBVIOUS
  <2>1. CoverageOf(s) \in Coverages /\ Sound(CoverageOf(s), r)
    BY <1>3, CoverageType
  <2> QED BY <1>4, <1>5, <1>6, <2>1 DEF RecordEnumeration, Coverages, Sound
<1> HIDE DEF coverage
<1>8. MutateReleaseAssetCoverageState(s, r, coverage)
  BY <1>1 DEF coverage
<1> QED BY <1>2, <1>3, <1>7, <1>8, AnswerKeeps

\* Failures that write no file.
LEMMA FailureKeeps ==
    ASSUME IInv, NEW s \in Sessions, NEW r \in Releases, NEW a \in Assets,
           FetchFailure(s, r, a), call' \in [Calls -> CallStates \cup {None}],
           UNCHANGED <<quarantine, published, past, nextId, left>>
    PROVE  IInv'
<1>1. Accounts(s, r) => /\ RecordFetchFailure(CoverageOf(s), a) \in Coverages
                        /\ Sound(RecordFetchFailure(CoverageOf(s), a), r)
  BY CoverageType, FailureSound
<1> QED BY <1>1, AnswerKeeps DEF FetchFailure

\* A fetch refused before it downloads.
LEMMA FetchRefusedStep ==
    ASSUME IInv, NEW s \in Sessions, NEW a \in Assets,
           FetchFindsChange(s, a) \/ FetchRefusesSize(s, a)
    PROVE  IInv'
<1>1. /\ FetchFailure(s, audit[s].release, a)
      /\ UNCHANGED <<call, quarantine, published, past, nextId, left>>
      /\ audit[s] # None /\ audit[s].coverage # None
  BY DEF FetchFindsChange, FetchRefusesSize, Enumerated
<1>2. audit[s].release \in Releases /\ call' \in [Calls -> CallStates \cup {None}]
  BY <1>1 DEF IInv, TypeOK, Audits, AuditsSound
<1> QED BY <1>1, <1>2, FailureKeeps

\* A download that fails.
LEMMA DownloadFailsStep ==
    ASSUME IInv, NEW c \in Calls, DownloadFails(c) \/ FetchFindsFile(c) PROVE IInv'
<1>1. /\ FetchFailure(call[c].session, call[c].release, call[c].asset)
      /\ Returns(c) /\ UNCHANGED <<quarantine, published, past, nextId, left>>
      /\ call[c] # None /\ call[c].asset # None
  BY DEF DownloadFails, FetchFindsFile, Fetching
<1>2. /\ call[c].session \in Sessions /\ call[c].release \in Releases /\ call[c].asset \in Assets
      /\ call' \in [Calls -> CallStates \cup {None}]
  BY <1>1, CallType, ReturnsType
<1> QED BY <1>1, <1>2, FailureKeeps

\* A file written for one call of the release r.
LEMMA WithKeeps ==
    ASSUME IInv, NEW s \in Sessions, NEW r \in Releases, NEW a \in Assets, NEW content,
           quarantine' = With(r, a, content), content \in Contents \cup {None},
           \A t \in Sessions : Authority(t)' = Authority(t), left \subseteq left',
           content # None => Accounts(s, r) \/ SourceOf[r] \in left'
    PROVE  quarantine' \in [Commits -> Directories \cup {None}] /\ FilesAccountable'
<1> DEFINE directory == IF quarantine[SourceOf[r]] = None THEN [x \in Assets |-> None]
                        ELSE quarantine[SourceOf[r]]
           next == [directory EXCEPT ![a] = content]
<1>1. quarantine \in [Commits -> Directories \cup {None}] /\ SourceOf[r] \in Commits
  BY DEF IInv, TypeOK, Commits
<1>2. directory \in Directories
  BY <1>1 DEF Directories
<1>3. \A x \in Assets : directory[x] # None => FileOf(r, x) # None
  BY DEF FileOf
<1>4. quarantine' = [quarantine EXCEPT ![SourceOf[r]] = next]
  BY DEF With
<1> HIDE DEF directory
<1>5. next \in Directories /\ \A x \in Assets : x # a => next[x] = directory[x]
  BY <1>2 DEF Directories
<1>6. next[a] = content
  BY <1>2 DEF Directories
<1> HIDE DEF next
<1>7. quarantine' \in [Commits -> Directories \cup {None}]
  BY <1>1, <1>4, <1>5
<1>8. Accounts(s, r) => SourceOf[r] \in Authority(s)
  BY NoneAssumption DEF Accounts, Authority
<1>9. FilesAccountable'
  <2> SUFFICES ASSUME NEW q \in Releases, NEW x \in Assets, FileOf(q, x)' # None
               PROVE  \/ \E t \in Sessions : SourceOf[q] \in Authority(t)'
                      \/ SourceOf[q] \in left'
    BY DEF FilesAccountable
  <2>1. SourceOf[q] \in Commits
    BY DEF Commits
  <2>2. CASE SourceOf[q] # SourceOf[r]
    <3>1. FileOf(q, x) # None
      BY <1>1, <1>4, <2>1, <2>2 DEF FileOf
    <3> QED BY <3>1 DEF IInv, FilesAccountable
  <2>3. CASE SourceOf[q] = SourceOf[r] /\ x = a
    <3>1. content # None
      BY <1>1, <1>4, <1>6, <2>3 DEF FileOf
    <3> QED BY <1>8, <2>3, <3>1
  <2>4. CASE SourceOf[q] = SourceOf[r] /\ x # a
    <3>1. FileOf(r, x) # None
      BY <1>1, <1>3, <1>4, <1>5, <2>4 DEF FileOf
    <3> QED BY <2>4, <3>1 DEF IInv, FilesAccountable
  <2> QED BY <2>2, <2>3, <2>4
<1> QED BY <1>7, <1>9

\* A file that could not be written in full is left, and known as failed.
LEMMA WriteFailsStep ==
    ASSUME IInv, NEW c \in Calls, WriteFails(c) PROVE IInv'
<1> DEFINE s == call[c].session
           r == call[c].release
           a == call[c].asset
<1>1. /\ quarantine' \in {quarantine, With(r, a, None), With(r, a, "short")}
      /\ FetchFailure(s, r, a) /\ call[c] # None /\ a # None
      /\ left' = IF Accounts(s, r) THEN left ELSE left \cup {SourceOf[r]}
      /\ Returns(c) /\ UNCHANGED <<published, past, nextId>>
  BY DEF WriteFails, Fetching
<1>2. /\ s \in Sessions /\ r \in Releases /\ a \in Assets
      /\ call' \in [Calls -> CallStates \cup {None}]
  BY <1>1, CallType, ReturnsType
<1> HIDE DEF s, r, a
<1>3. Accounts(s, r) => /\ RecordFetchFailure(CoverageOf(s), a) \in Coverages
                        /\ Sound(RecordFetchFailure(CoverageOf(s), a), r)
  BY <1>2, CoverageType, FailureSound
<1>4. /\ audit' \in [Sessions -> Audits \cup {None}] /\ AuditsSound'
      /\ \A t \in Sessions : Authority(t)' = Authority(t)
  BY <1>1, <1>2, <1>3, Accounted DEF FetchFailure
<1>5. left \subseteq left' /\ left' \subseteq Commits /\ (Accounts(s, r) \/ SourceOf[r] \in left')
  BY <1>1, <1>2 DEF IInv, TypeOK, Commits
<1>6. quarantine' \in [Commits -> Directories \cup {None}] /\ FilesAccountable'
  <2>1. CASE quarantine' = quarantine
    BY <1>4, <1>5, <2>1 DEF IInv, TypeOK, FilesAccountable, FileOf
  <2>2. CASE quarantine' = With(r, a, None)
    BY <1>2, <1>4, <1>5, <2>2, WithKeeps
  <2>3. CASE quarantine' = With(r, a, "short")
    BY <1>2, <1>4, <1>5, <2>3, WithKeeps DEF Contents
  <2> QED BY <1>1, <2>1, <2>2, <2>3
<1> QED BY <1>1, <1>2, <1>4, <1>5, <1>6 DEF IInv, TypeOK, HistoryCurrent

\* A whole file is accounted to the audit that is active by then, or removed again.
LEMMA FetchEndsStep ==
    ASSUME IInv, NEW c \in Calls, FetchEnds(c) PROVE IInv'
<1> DEFINE s == call[c].session
           r == call[c].release
           a == call[c].asset
           coverage == IF Enumerated(s, a) THEN RecordFetchSuccess(CoverageOf(s), a, "whole")
                       ELSE CoverageOf(s)
           content == IF Accounts(s, r) THEN "whole" ELSE None
<1>1. /\ quarantine' = With(r, a, content)
      /\ MutateReleaseAssetCoverageState(s, r, coverage) /\ call[c] # None /\ a # None
      /\ Returns(c) /\ UNCHANGED <<published, past, nextId, left>>
  BY DEF FetchEnds, Fetching, Downloaded
<1>2. /\ s \in Sessions /\ r \in Releases /\ a \in Assets
      /\ call' \in [Calls -> CallStates \cup {None}]
  BY <1>1, CallType, ReturnsType
<1> HIDE DEF s, r, a
<1>3. Accounts(s, r) => coverage \in Coverages /\ Sound(coverage, r)
  BY <1>2, CoverageType, SuccessSound
<1>4. content \in Contents \cup {None} /\ (content # None => Accounts(s, r))
  BY DEF Contents
<1> HIDE DEF coverage, content
<1>5. /\ audit' \in [Sessions -> Audits \cup {None}] /\ AuditsSound'
      /\ \A t \in Sessions : Authority(t)' = Authority(t)
  BY <1>1, <1>2, <1>3, Accounted
<1>6. quarantine' \in [Commits -> Directories \cup {None}] /\ FilesAccountable'
  BY <1>1, <1>2, <1>4, <1>5, WithKeeps
<1> QED BY <1>1, <1>2, <1>5, <1>6 DEF IInv, TypeOK, HistoryCurrent

-----------------------------------------------------------------------------
(* Theorems.                                                               *)

\* Every step keeps the invariant.
LEMMA Inductive == IInv /\ [Next]_vars => IInv'
<1> SUFFICES ASSUME IInv, [Next]_vars PROVE IInv'
  OBVIOUS
<1>1. CASE UNCHANGED vars
  BY <1>1 DEF vars, IInv, TypeOK, AuditsSound, Sound, HistoryCurrent, FilesAccountable, FileOf,
              Authority
<1>2. ASSUME NEW s \in Sessions,
             \/ ActivateAudit(s) \/ Expire(s) \/ CleanupQuarantine(s)
             \/ \E r \in Releases : RecordReleaseIdentity(s, r)
             \/ \E abandoning \in BOOLEAN : CloseAudit(s, abandoning)
      PROVE  IInv'
  BY <1>2, ActivateStep, EndStep, CleanupStep, IdentityStep
<1>3. ASSUME NEW s \in Sessions, NEW c \in Calls,
             ListBegins(s, c) \/ \E a \in Assets : FetchBegins(s, c, a)
      PROVE  IInv'
  BY <1>3, WaitStep
<1>4. ASSUME NEW s \in Sessions, NEW a \in Assets, FetchFindsChange(s, a) \/ FetchRefusesSize(s, a)
      PROVE  IInv'
  BY <1>4, FetchRefusedStep
<1>5. ASSUME NEW r \in Releases, Publish(r) PROVE IInv'
  BY <1>5, PublishStep
<1>6. ASSUME NEW c \in Calls,
             \/ ListFails(c) \/ ListEnds(c) \/ DownloadFails(c) \/ FetchFindsFile(c)
             \/ WriteFails(c) \/ FetchEnds(c)
      PROVE  IInv'
  BY <1>6, ListFailsStep, ListEndsStep, DownloadFailsStep, WriteFailsStep, FetchEndsStep
<1> QED BY <1>1, <1>2, <1>3, <1>4, <1>5, <1>6 DEF Next

\* IInv holds in every reachable state.
LEMMA Invariant == Spec => []IInv
<1>1. Init => IInv
  BY InitStep
<1>2. IInv /\ [Next]_vars => IInv'
  BY Inductive
<1> QED BY <1>1, <1>2, PTL DEF Spec

\* The state keeps its types, whatever is in flight when an audit ends.
THEOREM TypeCorrect == Spec => []TypeOK
<1>1. IInv => TypeOK
  BY DEF IInv
<1> QED BY <1>1, Invariant, PTL

\* An audit that may state a verdict has a whole listing of its own release and every
\* asset of it in full, although answers arrive after audits were closed, expired and
\* replaced (mutateReleaseAssetCoverageState, releaseAssetFetchWrapper).
THEOREM VerdictIsOnWholeRelease == Spec => []VerdictOnWholeRelease
<1>1. IInv => VerdictOnWholeRelease
  <2> SUFFICES ASSUME IInv, NEW s \in Sessions, audit[s] # None,
                      AcquisitionComplete(audit[s].coverage)
               PROVE  /\ audit[s].release # None
                      /\ audit[s].coverage.assets \in past[audit[s].release]
                      /\ \A a \in audit[s].coverage.assets : audit[s].coverage.held[a] = "whole"
    BY DEF VerdictOnWholeRelease
  <2>1. audit[s].coverage # None /\ audit[s].coverage.recorded /\ ~audit[s].coverage.truncated
    BY DEF AcquisitionComplete
  <2>2. audit[s].coverage.assets \subseteq Assets
    BY <2>1 DEF IInv, TypeOK, Audits, Coverages
  <2>3. audit[s].release # None /\ Sound(audit[s].coverage, audit[s].release)
    BY <2>1 DEF IInv, AuditsSound
  <2>4. \A a \in audit[s].coverage.assets : audit[s].coverage.held[a] # None
    BY DEF AcquisitionComplete
  <2> QED BY <2>1, <2>2, <2>3, <2>4 DEF Sound
<1> QED BY <1>1, Invariant, PTL

\* No file of the quarantine is without an audit that may clean it up, unless an audit
\* or a failed write left it there.
THEOREM FilesAreAccountable == Spec => []FilesAccountable
<1>1. IInv => FilesAccountable
  BY DEF IInv
<1> QED BY <1>1, Invariant, PTL

=============================================================================
