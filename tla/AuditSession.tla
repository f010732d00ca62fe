---------------------------- MODULE AuditSession ----------------------------
(***************************************************************************)
(* Audits, their sessions and the disk they share (zerotrust-sourcecheck). *)
(* A session is a process of its own with at most one active audit in      *)
(* memory; clones and reports are directories of the build root, named by  *)
(* a hash of owner, repository and commit, so audits of one commit share   *)
(* them, in one session after another or in two sessions at once.          *)
(*                                                                         *)
(* A session runs one handler at a time to its end; between two disk       *)
(* operations of a handler other sessions act and time passes, so that the *)
(* audit may outlive its TTL in the middle of it.                          *)
(***************************************************************************)
EXTENDS Integers

CONSTANTS
    None,
    Sessions,
    Commits,        \* commits a repository's ref resolves to over time
    Stores,         \* what a session keeps beside its audit
    MaxAudits,      \* audits activated in all, a bound
    DeletesReports, \* TRUE when cleanup may be asked to delete the report
    RemovalFails,   \* TRUE when a removal may fail or stop half way
    Crashes         \* TRUE when a session may crash and start anew

Ids == 1..MaxAudits

ASSUME MaxAuditsAssumption == MaxAudits \in Nat
ASSUME StoresAssumption == Stores \subseteq {"outcome", "ledger", "cache"}
ASSUME FlagsAssumption == {DeletesReports, RemovalFails, Crashes} \subseteq BOOLEAN

VARIABLES
    audit,      \* activeAudits
    expired,    \* sessions whose audit is past its TTL
    kept,       \* recordedOutcomes, councilLedgers, cacheBindings: the audit they name
    handler,    \* the handler a session runs, and how far it got
    nextId,
    clones,     \* clone directories
    findings,   \* FINDINGS.json of a commit, the audit that wrote it
    report,     \* REPORT.md of a commit, the audit that wrote it
    temps,      \* sessions whose temporary artifacts are on disk
    settled     \* history: audits whose report was recorded, or whose session crashed
                \* while it wrote the report

memory == <<audit, expired, kept>>
pair == <<findings, report>>
disk == <<clones, pair, temps>>
vars == <<memory, handler, nextId, disk, settled>>

-----------------------------------------------------------------------------

Modes == {"source", "build"}
\* "clean" and "blocked" are reports of the assurance flow that admit and refuse
\* host execution; "other" is a compatibility or baseline report.
Flows == {"clean", "blocked", "other"}
Records == [commit: Commits, flow: Flows, sealed: BOOLEAN]
Audits == [id: Ids, mode: Modes, commit: Commits \cup {None}, clonePath: Commits \cup {None},
           stage: {"acquired", "started", "validated", "finalized"},
           record: Records \cup {None}]

ASSUME NoneAssumption ==
    None \notin Commits /\ None \notin Ids /\ None \notin Records /\ None \notin Audits

Publishing == {"check", "publish findings", "publish report", "read back", "record"}
Cloning == {"clone", "checkout", "bind"}
Steps == Publishing \cup Cloning \cup {"idle", "stage", "seal", "remove report", "host"}
Handlers == [step: Steps, commit: Commits \cup {None}, flow: Flows \cup {None}]
Idling == [step |-> "idle", commit |-> None, flow |-> None]

Clones == [state: {"absent", "partial", "complete"}, by: Ids \cup {None}, stale: BOOLEAN]
NoClone == [state |-> "absent", by |-> None, stale |-> FALSE]
NothingKept == [store \in Stores |-> None]

\* Type invariant.
TypeOK ==
    /\ audit \in [Sessions -> Audits \cup {None}]
    /\ expired \subseteq Sessions
    /\ kept \in [Sessions -> [Stores -> Ids \cup {None}]]
    /\ handler \in [Sessions -> Handlers]
    /\ nextId \in 1..(MaxAudits + 1)
    /\ clones \in [Commits -> Clones]
    /\ findings \in [Commits -> Ids \cup {None}]
    /\ report \in [Commits -> Ids \cup {None}]
    /\ temps \subseteq Sessions
    /\ settled \subseteq Ids

Init ==
    /\ audit = [s \in Sessions |-> None] /\ expired = {}
    /\ kept = [s \in Sessions |-> NothingKept]
    /\ handler = [s \in Sessions |-> Idling]
    /\ nextId = 1
    /\ clones = [c \in Commits |-> NoClone]
    /\ findings = [c \in Commits |-> None] /\ report = [c \in Commits |-> None]
    /\ temps = {} /\ settled = {}

-----------------------------------------------------------------------------

Idle(s) == handler[s].step = "idle"
At(s, step) == handler[s].step = step
Live(s) == audit[s] # None /\ s \notin expired
Ready(s) == Idle(s) /\ Live(s)

Return(s) == handler' = [handler EXCEPT ![s] = Idling]
Proceed(s, step) == handler' = [handler EXCEPT ![s].step = step]

Forget(s) ==
    /\ audit' = [audit EXCEPT ![s] = None]
    /\ kept' = [kept EXCEPT ![s] = NothingKept]
    /\ expired' = expired \ {s}

Exists(c) == clones[c].state # "absent"

\* What a recursive removal leaves of a directory.
Remains(clone) ==
    {NoClone} \cup IF RemovalFails THEN {clone, [clone EXCEPT !.state = "partial"]} ELSE {}

\* What is left of a file that was asked to go.
Left(owner) == {None} \cup IF RemovalFails THEN {owner} ELSE {}

-----------------------------------------------------------------------------
(* Activation, expiry and closure.                                         *)

Fresh(mode) ==
    [id |-> nextId, mode |-> mode, commit |-> None, clonePath |-> None,
     stage |-> "acquired", record |-> None]

\* Mutant: what the session kept for the previous audit stays.
ActivateAudit_KeepsStores(s, mode) ==
    /\ Idle(s) /\ nextId <= MaxAudits
    /\ audit' = [audit EXCEPT ![s] = Fresh(mode)]
    /\ expired' = expired \ {s}
    /\ nextId' = nextId + 1
    /\ UNCHANGED <<kept, handler, disk, settled>>

\* An audit that is still active is replaced.
ActivateAudit(s, mode) ==
    /\ Idle(s) /\ nextId <= MaxAudits
    /\ audit' = [audit EXCEPT ![s] = Fresh(mode)]
    /\ kept' = [kept EXCEPT ![s] = NothingKept]
    /\ expired' = expired \ {s}
    /\ nextId' = nextId + 1
    /\ UNCHANGED <<handler, disk, settled>>

Expires(s) ==
    /\ Live(s)
    /\ expired' = expired \cup {s}
    /\ UNCHANGED <<audit, kept, handler, nextId, disk, settled>>

\* The next lookup of the audit drops it, whichever tool looks it up.
GetActiveAudit(s) ==
    /\ Idle(s) /\ audit[s] # None /\ s \in expired
    /\ Forget(s)
    /\ UNCHANGED <<handler, nextId, disk, settled>>

HasClone(s) ==
    /\ audit[s].mode = "build" /\ audit[s].clonePath # None
    /\ Exists(audit[s].clonePath)

CloseAudit(s, abandon) ==
    /\ Ready(s)
    /\ HasClone(s) => abandon
    /\ Forget(s)
    /\ UNCHANGED <<handler, nextId, disk, settled>>

Crash(s) ==
    /\ Crashes
    /\ Forget(s) /\ Return(s)
    /\ temps' = temps \ {s}
    /\ settled' = IF handler[s].step \in Publishing THEN settled \cup {audit[s].id} ELSE settled
    /\ UNCHANGED <<nextId, clones, pair>>

\* Mutant: the store names the commit, not the audit.
Keep_NamesCommit(s, store) ==
    /\ Ready(s) /\ kept[s][store] = None
    /\ store = "outcome" => audit[s].commit # None
    /\ kept' = [kept EXCEPT ![s][store] = audit[s].commit]
    /\ UNCHANGED <<audit, expired, handler, nextId, disk, settled>>

\* record_council_outcome, submit_candidates, the cache tools; first write wins.
Keep(s, store) ==
    /\ Ready(s) /\ kept[s][store] = None
    /\ store = "outcome" => audit[s].commit # None
    /\ kept' = [kept EXCEPT ![s][store] = audit[s].id]
    /\ UNCHANGED <<audit, expired, handler, nextId, disk, settled>>

-----------------------------------------------------------------------------
(* Pinning the commit; the assurance stages as far as reports depend on    *)
(* them (module Assurance).                                                *)

\* recordResolvedSha: the first commit is pinned, while assurance is empty.
Pinnable(s, c) ==
    \/ audit[s].commit = c
    \/ audit[s].commit = None /\ audit[s].stage = "acquired"

SafeListTree(s, c) ==
    /\ Ready(s) /\ audit[s].mode = "source"
    /\ Pinnable(s, c)
    /\ audit' = [audit EXCEPT ![s].commit = c]
    /\ UNCHANGED <<expired, kept, handler, nextId, disk, settled>>

Assure(s, from, to) ==
    /\ Ready(s) /\ audit[s].commit # None
    /\ audit[s].stage = from
    /\ audit' = [audit EXCEPT ![s].stage = to]
    /\ UNCHANGED <<expired, kept, handler, nextId, disk, settled>>

-----------------------------------------------------------------------------
(* safe_clone.                                                             *)

\* More than a day old: every audit that was live when it was made is over.
GoesStale(c) ==
    /\ Exists(c) /\ ~clones[c].stale
    /\ \A s \in Sessions : Live(s) => audit[s].id # clones[c].by
    /\ \A s \in Sessions : handler[s].commit # c
    /\ clones' = [clones EXCEPT ![c].stale = TRUE]
    /\ UNCHANGED <<memory, handler, nextId, pair, temps, settled>>

\* The commit its ref resolves to must be the pinned one; stale clones of other
\* commits are purged before the target is looked at.
CloneBegins(s, c) ==
    /\ Ready(s) /\ audit[s].mode = "build" /\ audit[s].commit \in {None, c}
    /\ clones' \in [Commits -> Clones]
    /\ \A d \in Commits : IF d # c /\ clones[d].stale
                          THEN clones'[d] \in Remains(clones[d])
                          ELSE clones'[d] = clones[d]
    /\ handler' = IF Exists(c) THEN handler
                  ELSE [handler EXCEPT ![s] = [step |-> "clone", commit |-> c, flow |-> None]]
    /\ UNCHANGED <<memory, nextId, pair, temps, settled>>

GitClones(s) ==
    LET c == handler[s].commit
    IN /\ At(s, "clone")
       /\ IF Exists(c) THEN Return(s) /\ UNCHANGED clones
          ELSE \/ /\ clones' = [clones EXCEPT ![c] = [state |-> "partial", by |-> audit[s].id,
                                                      stale |-> FALSE]]
                  /\ Proceed(s, "checkout")
               \/ Return(s) /\ UNCHANGED clones
       /\ UNCHANGED <<memory, nextId, pair, temps, settled>>

\* A checkout that fails leaves the directory behind.
GitChecksOut(s) ==
    LET c == handler[s].commit
    IN /\ At(s, "checkout")
       /\ \/ /\ Exists(c)
             /\ clones' = [clones EXCEPT ![c].state = "complete"]
             /\ Proceed(s, "bind")
          \/ Return(s) /\ UNCHANGED clones
       /\ UNCHANGED <<memory, nextId, pair, temps, settled>>

\* Mutant: the pinned commit is not compared and not written.
BindClone_PathOnly(s) ==
    LET c == handler[s].commit
    IN /\ At(s, "bind")
       /\ audit' = IF Live(s) THEN [audit EXCEPT ![s].clonePath = c] ELSE audit
       /\ Return(s)
       /\ UNCHANGED <<expired, kept, nextId, disk, settled>>

\* recordResolvedSha and recordResolvedClonePath refuse when the TTL ran out
\* meanwhile; the clone stays, bound to no audit.
BindClone(s) ==
    LET c == handler[s].commit
    IN /\ At(s, "bind")
       /\ audit' = IF Live(s) /\ Pinnable(s, c) /\ audit[s].clonePath \in {None, c}
                   THEN [audit EXCEPT ![s].commit = c, ![s].clonePath = c]
                   ELSE audit
       /\ Return(s)
       /\ UNCHANGED <<expired, kept, nextId, disk, settled>>

-----------------------------------------------------------------------------
(* cleanup_audit.                                                          *)

\* The recorded path is removed, and stays recorded.
CleanupRemovesClone(s, alsoReport) ==
    LET c == audit[s].clonePath
    IN /\ Ready(s) /\ audit[s].mode = "build" /\ c # None
       /\ alsoReport => DeletesReports
       /\ \E left \in Remains(clones[c]) :
            clones' = [clones EXCEPT ![c] = IF Exists(c) THEN left ELSE clones[c]]
       /\ handler' = IF alsoReport
                     THEN [handler EXCEPT ![s] = [step |-> "remove report", commit |-> c,
                                                  flow |-> None]]
                     ELSE handler
       /\ UNCHANGED <<memory, nextId, pair, temps, settled>>

\* The directory goes with everything in it.
CleanupRemovesReport(s) ==
    LET c == handler[s].commit
    IN /\ At(s, "remove report")
       /\ \E f \in Left(findings[c]), r \in Left(report[c]) :
            findings' = [findings EXCEPT ![c] = f] /\ report' = [report EXCEPT ![c] = r]
       /\ temps' = {t \in temps : handler[t].commit # c}
       /\ Return(s)
       /\ UNCHANGED <<memory, nextId, clones, settled>>

-----------------------------------------------------------------------------
(* finalize_report.                                                        *)

\* The first call renders the report; a file that is already there is refused.
FinalizeBegins(s, flow) ==
    LET c == audit[s].commit
    IN /\ Ready(s) /\ c # None /\ audit[s].record = None
       /\ audit[s].stage \in {"acquired", "validated"}
       /\ flow = "other" <=> audit[s].stage = "acquired"
       /\ findings[c] = None /\ report[c] = None
       /\ temps' = temps \cup {s}
       /\ handler' = [handler EXCEPT ![s] = [step |-> "check", commit |-> c, flow |-> flow]]
       /\ UNCHANGED <<memory, nextId, clones, pair, settled>>

\* createArtifactPair looks at both names once more.
CheckPair(s) ==
    LET c == handler[s].commit
    IN /\ At(s, "check")
       /\ findings[c] = None /\ report[c] = None
       /\ Proceed(s, "publish findings")
       /\ UNCHANGED <<memory, nextId, disk, settled>>

\* Mutant: publication overwrites what is there.
PublishFindings_Overwrites(s) ==
    LET c == handler[s].commit
    IN /\ At(s, "publish findings") /\ s \in temps
       /\ findings' = [findings EXCEPT ![c] = audit[s].id]
       /\ Proceed(s, "publish report")
       /\ UNCHANGED <<memory, nextId, clones, report, temps, settled>>

\* A hard link: it fails when the name is taken or the temporary file is gone.
PublishFindings(s) ==
    LET c == handler[s].commit
    IN /\ At(s, "publish findings") /\ s \in temps
       /\ findings[c] = None
       /\ findings' = [findings EXCEPT ![c] = audit[s].id]
       /\ Proceed(s, "publish report")
       /\ UNCHANGED <<memory, nextId, clones, report, temps, settled>>

PublishReport(s) ==
    LET c == handler[s].commit
    IN /\ At(s, "publish report") /\ s \in temps
       /\ report[c] = None
       /\ report' = [report EXCEPT ![c] = audit[s].id]
       /\ Proceed(s, "read back")
       /\ UNCHANGED <<memory, nextId, clones, findings, temps, settled>>

ReadBack(s) ==
    LET c == handler[s].commit
    IN /\ At(s, "read back")
       /\ findings[c] = audit[s].id /\ report[c] = audit[s].id
       /\ temps' = temps \ {s}
       /\ Proceed(s, "record")
       /\ UNCHANGED <<memory, nextId, clones, pair, settled>>

\* rollbackCanonicalPair unlinks the names, whoever's file they name by now.
RollBack(c, alsoFindings, alsoReport) ==
    /\ \E f \in Left(findings[c]) :
         findings' = IF alsoFindings THEN [findings EXCEPT ![c] = f] ELSE findings
    /\ \E r \in Left(report[c]) :
         report' = IF alsoReport THEN [report EXCEPT ![c] = r] ELSE report

\* Mutant: both names are unlinked, published or not.
PublicationFails_UnlinksBoth(s) ==
    /\ handler[s].step \in {"check", "publish findings", "publish report", "read back"}
    /\ RollBack(handler[s].commit, TRUE, TRUE)
    /\ temps' = temps \ {s}
    /\ Return(s)
    /\ UNCHANGED <<memory, nextId, clones, settled>>

\* What was published so far is rolled back.
PublicationFails(s) ==
    /\ handler[s].step \in {"check", "publish findings", "publish report", "read back"}
    /\ RollBack(handler[s].commit, handler[s].step \in {"publish report", "read back"},
                                At(s, "read back"))
    /\ temps' = temps \ {s}
    /\ Return(s)
    /\ UNCHANGED <<memory, nextId, clones, settled>>

\* The name was linked, but neither the temporary file nor the name can be
\* unlinked (defaultPublishExclusive): it is not among those published.
PublicationSticks(s) ==
    LET c == handler[s].commit
    IN /\ RemovalFails /\ s \in temps
       /\ \/ /\ At(s, "publish findings") /\ findings[c] = None
             /\ findings' = [findings EXCEPT ![c] = audit[s].id]
             /\ UNCHANGED report
          \/ /\ At(s, "publish report") /\ report[c] = None
             /\ report' = [report EXCEPT ![c] = audit[s].id]
             /\ \E f \in Left(findings[c]) : findings' = [findings EXCEPT ![c] = f]
       /\ temps' = temps \ {s}
       /\ Return(s)
       /\ UNCHANGED <<memory, nextId, clones, settled>>

\* Mutant: a pair that could not be recorded is left on disk.
RecordReportFinalization_NoRollback(s) ==
    LET h == handler[s]
    IN /\ At(s, "record")
       /\ IF Live(s)
          THEN /\ audit' = [audit EXCEPT ![s].record =
                              [commit |-> h.commit, flow |-> h.flow, sealed |-> FALSE]]
               /\ settled' = settled \cup {audit[s].id}
               /\ Proceed(s, IF h.flow = "other" THEN "seal" ELSE "stage")
          ELSE Return(s) /\ UNCHANGED <<audit, settled>>
       /\ UNCHANGED <<expired, kept, nextId, disk>>

\* Mutant: the record is sealed before its stage is finalized.
RecordReportFinalization_Sealed(s) ==
    LET h == handler[s]
    IN /\ At(s, "record")
       /\ IF Live(s)
          THEN /\ audit' = [audit EXCEPT ![s].record =
                              [commit |-> h.commit, flow |-> h.flow, sealed |-> TRUE]]
               /\ settled' = settled \cup {audit[s].id}
               /\ Proceed(s, IF h.flow = "other" THEN "seal" ELSE "stage")
               /\ UNCHANGED pair
          ELSE /\ RollBack(h.commit, TRUE, TRUE)
               /\ Return(s)
               /\ UNCHANGED <<audit, settled>>
       /\ UNCHANGED <<expired, kept, nextId, clones, temps>>

RecordReportFinalization(s) ==
    LET h == handler[s]
    IN /\ At(s, "record")
       /\ IF Live(s)
          THEN /\ audit' = [audit EXCEPT ![s].record =
                              [commit |-> h.commit, flow |-> h.flow, sealed |-> FALSE]]
               /\ settled' = settled \cup {audit[s].id}
               /\ Proceed(s, IF h.flow = "other" THEN "seal" ELSE "stage")
               /\ UNCHANGED pair
          ELSE /\ RollBack(h.commit, TRUE, TRUE)
               /\ Return(s)
               /\ UNCHANGED <<audit, settled>>
       /\ UNCHANGED <<expired, kept, nextId, clones, temps>>

\* returnRecordedPair: a later call verifies the files, then resumes.
FinalizeResumes(s) ==
    LET record == audit[s].record
    IN /\ Ready(s) /\ record # None
       /\ findings[record.commit] = audit[s].id /\ report[record.commit] = audit[s].id
       /\ handler' = [handler EXCEPT ![s] =
                        [step |-> IF record.flow = "other" THEN "seal" ELSE "stage",
                         commit |-> record.commit, flow |-> record.flow]]
       /\ UNCHANGED <<memory, nextId, disk, settled>>

\* finalizeAssuranceReportState looks the audit up again; it throws when the
\* audit is gone, and the record stays unsealed.
FinalizeStage(s) ==
    /\ At(s, "stage")
    /\ IF Live(s)
       THEN /\ audit' = [audit EXCEPT ![s].stage = "finalized"]
            /\ Proceed(s, "seal")
            /\ UNCHANGED <<expired, kept>>
       ELSE Forget(s) /\ Return(s)
    /\ UNCHANGED <<nextId, disk, settled>>

\* markReportFinalizationStageComplete
Seal(s) ==
    /\ At(s, "seal")
    /\ audit' = IF Live(s) THEN [audit EXCEPT ![s].record.sealed = TRUE] ELSE audit
    /\ Return(s)
    /\ UNCHANGED <<expired, kept, nextId, disk, settled>>

-----------------------------------------------------------------------------
(* safe_install and safe_build.                                            *)

\* Mutant: the files on disk are not read.
GateOpen_TrustsRecord(s) ==
    LET record == audit[s].record
    IN /\ record # None
       /\ record.commit = audit[s].commit
       /\ record.sealed /\ record.flow = "clean"

\* evaluateFinalizedReportExecutionGate
GateOpen(s) ==
    LET record == audit[s].record
    IN /\ record # None
       /\ record.commit = audit[s].commit
       /\ findings[record.commit] = audit[s].id /\ report[record.commit] = audit[s].id
       /\ record.sealed /\ record.flow = "clean"

HostStarts(s) ==
    LET c == audit[s].clonePath
    IN /\ Ready(s) /\ audit[s].mode = "build" /\ c # None
       /\ GateOpen(s)
       /\ Exists(c)
       /\ handler' = [handler EXCEPT ![s] = [step |-> "host", commit |-> c, flow |-> None]]
       /\ UNCHANGED <<memory, nextId, disk, settled>>

HostReturns(s) ==
    /\ At(s, "host")
    /\ Return(s)
    /\ UNCHANGED <<memory, nextId, disk, settled>>

-----------------------------------------------------------------------------

Lifecycle(s) ==
    \/ \E mode \in Modes : ActivateAudit(s, mode)
    \/ Expires(s) \/ GetActiveAudit(s)
    \/ \E abandon \in BOOLEAN : CloseAudit(s, abandon)
    \/ Crash(s)
    \/ \E store \in Stores : Keep(s, store)

Auditing(s) ==
    \/ \E c \in Commits : SafeListTree(s, c)
    \/ Assure(s, "acquired", "started") \/ Assure(s, "started", "validated")

SafeClone(s) ==
    \/ \E c \in Commits : CloneBegins(s, c)
    \/ GitClones(s) \/ GitChecksOut(s) \/ BindClone(s)

CleanupAudit(s) ==
    \/ \E alsoReport \in BOOLEAN : CleanupRemovesClone(s, alsoReport)
    \/ CleanupRemovesReport(s)

FinalizeReport(s) ==
    \/ \E flow \in Flows : FinalizeBegins(s, flow)
    \/ CheckPair(s) \/ PublishFindings(s) \/ PublishReport(s) \/ ReadBack(s)
    \/ PublicationFails(s) \/ PublicationSticks(s)
    \/ RecordReportFinalization(s) \/ FinalizeResumes(s) \/ FinalizeStage(s) \/ Seal(s)

Host(s) == HostStarts(s) \/ HostReturns(s)

Next ==
    \/ \E s \in Sessions : \/ Lifecycle(s) \/ Auditing(s) \/ SafeClone(s)
                           \/ CleanupAudit(s) \/ FinalizeReport(s) \/ Host(s)
    \/ \E c \in Commits : GoesStale(c)

Spec == Init /\ [][Next]_vars

-----------------------------------------------------------------------------
(* What makes sessions, reports and host execution correct.                *)

\* What a session keeps beside its audit belongs to that audit: nothing
\* survives into the next one, by whichever way the audit ended
\* (activateAudit, getActiveAudit, closeAuditHandler, state.mjs).
KeptWithAudit ==
    \A s \in Sessions, store \in Stores :
      kept[s][store] # None => audit[s] # None /\ audit[s].id = kept[s][store]

\* An audit is about one commit: the pin, the clone it may build, the report it
\* published and the handler at work agree, even when the ref moves between
\* calls (recordResolvedSha, recordResolvedClonePath, recordReportFinalization).
OneCommit ==
    \A s \in Sessions : audit[s] # None =>
      /\ audit[s].clonePath \in {None, audit[s].commit}
      /\ audit[s].record # None => audit[s].record.commit = audit[s].commit
      /\ audit[s].stage # "acquired" => audit[s].commit # None
      /\ handler[s].step \in Publishing \cup {"stage", "seal", "host"} =>
           handler[s].commit = audit[s].commit

\* Report and findings on disk are never those of two different audits, however
\* their finalizers, failures and crashes interleave, as long as files that are
\* to go do go and no cleanup deletes reports (createArtifactPair).
PairNeverMixed ==
    \A c \in Commits : findings[c] # None /\ report[c] # None => findings[c] = report[c]

\* A pair that was recorded stays on disk: no other finalizer of the same
\* commit overwrites it or rolls it back (unless a cleanup deletes reports).
RecordedPairSurvives ==
    \A s \in Sessions :
      audit[s] # None /\ audit[s].record # None =>
        LET c == audit[s].record.commit
        IN findings[c] = audit[s].id /\ report[c] = audit[s].id

\* No file is left by an audit that did not record its report, even when its
\* TTL ran out while it wrote them, unless its session crashed half way (and
\* files that are to go do go).
PublishedIsRecorded ==
    \A c \in Commits : \A id \in {findings[c], report[c]} \ {None} :
      \/ id \in settled
      \/ \E s \in Sessions : audit[s] # None /\ audit[s].id = id
                             /\ handler[s].step \in Publishing

\* A record of the assurance flow is sealed only after its stage was finalized,
\* and the stage is finalized only for such a record, whatever expires between
\* the two (finalizeReportHandler, markReportFinalizationStageComplete).
SealEarned ==
    \A s \in Sessions : audit[s] # None =>
      LET record == audit[s].record
      IN /\ record # None /\ record.sealed /\ record.flow # "other" =>
              audit[s].stage = "finalized"
         /\ audit[s].stage = "finalized" => record # None /\ record.flow # "other"

EarnedStart(s) ==
    /\ Live(s) /\ audit[s].mode = "build"
    /\ audit[s].stage = "finalized" /\ audit[s].record.flow = "clean"
    /\ handler'[s].commit = audit[s].commit
    /\ findings[audit[s].commit] = audit[s].id
    /\ report[audit[s].commit] = audit[s].id

\* Host execution starts only for a build audit that has not expired, whose
\* own report is on disk as it was recorded, says that nothing was found, and
\* closed the assurance pipeline on the commit that is built.
ExecutionEarned ==
    [][\A s \in Sessions : ~At(s, "host") /\ At(s, "host")' => EarnedStart(s)]_vars

=============================================================================
