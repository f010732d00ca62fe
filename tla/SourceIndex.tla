---------------------------- MODULE SourceIndex ----------------------------
(***************************************************************************)
(* The analysis index of an audit (analysis/indexState.mjs) and the plugin *)
(* run it feeds (analysis/plugins/runner.mjs), as operators on values: an  *)
(* index records which files were enumerated, how far each was read, and   *)
(* the facts extracted; the plugins run once, on a complete index.         *)
(*                                                                         *)
(* Contents stand for the bytes of a file and for their SHA-256 and git    *)
(* blob hash at once; a fact is a path with the content it was found in.   *)
(* Texts of more than ten million lines, which the index refuses, are not  *)
(* among them.                                                             *)
(***************************************************************************)
EXTENDS Integers, FiniteSets

CONSTANTS
    None,
    Paths,
    Contents,
    Binary,     \* contents classified binary: no facts
    Opaque,     \* contents that are neither text nor binary: no facts
    Dense,      \* text contents with more facts than one file may have
    Breaking,   \* contents a detected plugin fails or truncates its output on
    Size,       \* of a content, in bytes
    MaxFacts    \* ANALYSIS_INDEX_LIMITS.factsPerAudit

ASSUME ContentsAssumption ==
    /\ IsFiniteSet(Paths) /\ IsFiniteSet(Contents)
    /\ Binary \subseteq Contents /\ Opaque \subseteq Contents \ Binary
    /\ Dense \subseteq Contents \ (Binary \cup Opaque)
    /\ Breaking \subseteq Contents
    /\ Size \in [Contents -> Nat]
    /\ MaxFacts \in Nat

CompleteFile == {"indexed-text", "classified-binary"}
FileStatuses == CompleteFile \cup {"pending", "read-failed", "incomplete", "index-overflow"}

\* blob is the identity the tree listing gives; a local tree gives none.
Files == [status: FileStatuses, content: Contents \cup {None},
          blob: Contents \cup {None}, size: Nat]
Facts == Paths \X Contents
Indexes == [enumerated: BOOLEAN, truncated: BOOLEAN, file: [Paths -> Files \cup {None}],
            facts: SUBSET Facts, overflowed: BOOLEAN, full: BOOLEAN]

\* What a reader hands to recordIndexedFile: the bytes it saw, the content hash
\* when it had all of them, and whether the text was complete.
Readings == [size: Nat, hash: Contents \cup {None}, blob: Contents \cup {None}, whole: BOOLEAN]

\* Fingerprint of an index: files with status and identities, and the facts.
Fingerprints == [file: [Paths -> Files \cup {None}], facts: SUBSET Facts]
PluginRuns == [of: Fingerprints, complete: BOOLEAN]

ASSUME NoneAssumption ==
    None \notin Contents /\ None \notin Files /\ None \notin PluginRuns

-----------------------------------------------------------------------------

NoFiles == [p \in Paths |-> None]
EmptyIndex == [enumerated |-> FALSE, truncated |-> FALSE, file |-> NoFiles,
               facts |-> {}, overflowed |-> FALSE, full |-> FALSE]

Pending(blob, size) == [status |-> "pending", content |-> None, blob |-> blob, size |-> size]

\* A listing: entries is a function from the paths it lists to their files, as
\* Pending makes them. Paths already known keep what was recorded of them.
RecordIndexEnumeration(ix, entries, complete, truncated) ==
    [ix EXCEPT !.enumerated = complete,
               !.truncated = @ \/ truncated,
               !.file = [p \in Paths |->
                            IF @[p] = None /\ p \in DOMAIN entries THEN entries[p] ELSE @[p]]]

RecordIndexReadFailure(ix, p) ==
    [ix EXCEPT !.file[p] = IF @ = None THEN None ELSE [@ EXCEPT !.status = "read-failed"]]

\* Bytes that were not read have no hash and no class.
Text(r) == r.hash \notin Binary \cup Opaque \cup {None}
FactsOf(p, r) == IF r.whole /\ Text(r) THEN {<<p, r.hash>>} ELSE {}

StatusOf(r) ==
    IF ~r.whole \/ r.hash \in Opaque \cup {None} THEN "incomplete"
    ELSE IF r.hash \in Binary THEN "classified-binary"
    ELSE IF r.hash \in Dense THEN "index-overflow"
    ELSE "indexed-text"

\* The identity checks of recordIndexedFile. Two hashes of one file must agree,
\* but a reading without a hash agrees with everything, and it forgets the hash.
SameIdentity(f, r) ==
    /\ f # None
    /\ r.blob = f.blob
    /\ f.blob = None => r.size = f.size
    /\ f.content # None /\ r.hash # None => f.content = r.hash

\* What recordIndexedFile takes: a text has a line count, which its reader knows
\* of a whole text only. Anything else throws and changes no file.
Accepted(f, r) == SameIdentity(f, r) /\ (Text(r) => r.whole)

\* recordIndexedFile, of a reading it accepts.
RecordIndexedFile(ix, p, r) ==
    LET f == ix.file[p]
        new == FactsOf(p, r) \ ix.facts
        capped == new # {} /\ Cardinality(ix.facts) >= MaxFacts
        unchanged == /\ f.status = StatusOf(r) /\ f.status \in CompleteFile
                     /\ f.content = r.hash
    IN  IF unchanged THEN ix
        ELSE [ix EXCEPT
                !.file[p] = [status |-> IF capped THEN "index-overflow" ELSE StatusOf(r),
                             content |-> r.hash, blob |-> f.blob, size |-> r.size],
                !.facts = IF capped THEN @ ELSE @ \cup new,
                !.overflowed = @ \/ (r.whole /\ r.hash \in Dense),
                !.full = @ \/ capped]

Known(ix) == {p \in Paths : ix.file[p] # None}

\* buildAnalysisIndexSnapshot: complete. The blockers recorded on the way do not count.
IndexComplete(ix) ==
    /\ ix.enumerated /\ ~ix.truncated /\ ~ix.overflowed /\ ~ix.full
    /\ \A p \in Known(ix) : ix.file[p].status \in CompleteFile

Fingerprint(ix) == [file |-> ix.file, facts |-> ix.facts]

\* Mutant: the plugins run again on an index with another fingerprint.
RunAnalysisPlugins_Reruns(ix, run) ==
    IF ~IndexComplete(ix) THEN run
    ELSE [of |-> Fingerprint(ix),
          complete |-> \A p \in Known(ix) : ix.file[p].content \notin Breaking]

\* runAnalysisPlugins: one run per audit; a later index with another fingerprint
\* does not run them again, it withdraws their coverage for good.
RunAnalysisPlugins(ix, run) ==
    IF ~IndexComplete(ix) THEN run
    ELSE IF run = None
         THEN [of |-> Fingerprint(ix),
               complete |-> \A p \in Known(ix) : ix.file[p].content \notin Breaking]
    ELSE IF run.of = Fingerprint(ix) THEN run
    ELSE [run EXCEPT !.complete = FALSE]

PluginCoverage(run) == run # None /\ run.complete

\* maybeAdvanceAnalysisPrepared
Prepared(stage, ix, run) ==
    IF stage = "acquired" /\ IndexComplete(ix) /\ PluginCoverage(run) THEN "prepared" ELSE stage

\* A file as the index vouches for it to whoever cites it as evidence.
Indexed(ix, p, c) == ix.file[p] # None /\ ix.file[p].content = c

=============================================================================
