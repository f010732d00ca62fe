------------------------------ MODULE Decoding ------------------------------
(***************************************************************************)
(* What buildDerivedArtifacts makes of the bytes of one object, as an      *)
(* operator on contents: archives are read entry by entry, texts literal   *)
(* by literal, and whatever comes out is decoded in turn, to a depth and   *)
(* within budgets that the whole object shares.  Of the artifacts it       *)
(* records only their number is kept, and of the blockers whether there    *)
(* is one: an object is clean when nothing was reported as unread.         *)
(***************************************************************************)
EXTENDS SourceIndex, SequencesExt

CONSTANTS
    Payload,                \* of a content: what a reader finds in it
    MaxNestedDepth, MaxArtifacts, MaxPayloads, MaxTotalDecodedBytes,  \* DERIVED_ARTIFACT_LIMITS
    MaxEntries, MaxExpandedBytes, MaxEntryBytes, MaxRatio,            \* ARCHIVE_READER_LIMITS
    MaxSourceBytes, MaxCandidates, MaxLiteralChars, MaxArrayItems     \* DEOBFUSCATION_LIMITS

Capped(n, max) == IF n < max THEN n ELSE max

\* As detectArchiveFormat sees the bytes and the name; compressed is a stream of
\* one payload, gzip to brotli.
ArchiveFormats == {"tar", "tar.gz", "zip", "compressed"}

\* legible: header, method, checksum and local copy agree and nothing is encrypted.
ArchiveEntries == [kind: {"file", "directory", "link"}, content: Contents,
                   stored: Nat, safe: BOOLEAN, legible: BOOLEAN]

\* Encoded literals and byte arrays; a plain one decodes to nothing.
Literals == [quoted: BOOLEAN, length: Nat, content: Contents \cup {None}]

\* sound: the container, or the header of the binary, is what its format demands;
\* binary: of a format with a metadata parser; dense: of high entropy.
ASSUME PayloadAssumption ==
    /\ DOMAIN Payload = Contents /\ None \notin ArchiveFormats
    /\ \A c \in Contents :
         /\ Payload[c].format \in ArchiveFormats \cup {None}
         /\ {Payload[c].sound, Payload[c].binary} \subseteq BOOLEAN
         /\ {Payload[c].text, Payload[c].dense} \subseteq BOOLEAN
         /\ Payload[c].entries \in Seq(ArchiveEntries)
         /\ Payload[c].literals \in Seq(Literals)
         /\ Payload[c].format = "compressed" => Len(Payload[c].entries) = 1
         /\ Payload[c].dense => Payload[c].format = None
    /\ {MaxNestedDepth, MaxArtifacts, MaxPayloads, MaxTotalDecodedBytes, MaxEntries,
        MaxExpandedBytes, MaxEntryBytes, MaxRatio, MaxSourceBytes, MaxCandidates,
        MaxLiteralChars, MaxArrayItems} \subseteq Nat

-----------------------------------------------------------------------------
(* Loops.                                                                  *)

\* What the steps of a loop make of z, one after the other.
After(z, steps) ==
    LET f[n \in 0..Len(steps)] == IF n = 0 THEN z ELSE steps[n][f[n - 1]]
    IN  f[Len(steps)]

\* What of a sequence is in a set, in its order.
Kept(seq, S) ==
    After(<<>>, [i \in DOMAIN seq |->
                   [t \in Seq(ToSet(seq)) |-> IF seq[i] \in S THEN Append(t, seq[i]) ELSE t]])

-----------------------------------------------------------------------------
(* The archive readers.  What they give is a sequence of entries, the      *)
(* blocked ones without bytes, and whether anything was blocked.           *)

Unreadable == [entries |-> <<>>, clean |-> FALSE]

\* One limit for the archive readers and for a stream in a literal.
ExpandedLimit == Capped(MaxExpandedBytes, MaxTotalDecodedBytes)
WithinRatio(content, stored) == Size[content] <= MaxRatio * stored
Fits(e, expanded) == Size[e.content] <= MaxEntryBytes /\ expanded + Size[e.content] <= ExpandedLimit

Extracts == [kind: {"file", "directory", "link"}, content: Contents \cup {None}]
Reads == [entries: Seq(Extracts), clean: BOOLEAN, expanded: Nat]

Accepts(format, e, expanded) ==
    /\ Fits(e, expanded)
    /\ format = "zip" => e.kind # "directory" /\ e.legible /\ WithinRatio(e.content, e.stored)
    /\ format = "tar" => e.kind = "file"

\* One entry of a container that has expanded so far.
ReadEntry(read, format, e) ==
    LET accepted == Accepts(format, e, read.expanded)
        extract == [kind |-> e.kind, content |-> IF accepted THEN e.content ELSE None]
    IN  [read EXCEPT !.entries = Append(@, extract),
                     !.clean = @ /\ (accepted \/ (e.kind = "directory" /\ e.legible)),
                     !.expanded = IF accepted THEN @ + Size[e.content] ELSE @]

ReadEntries(format, entries, clean) ==
    After([entries |-> <<>>, clean |-> clean, expanded |-> 0],
          [i \in DOMAIN entries |-> [read \in Reads |-> ReadEntry(read, format, entries[i])]])

\* A tar is read up to the first entry that cannot be trusted or is one too many.
ReadTar(p) ==
    LET trusted(n) == \A i \in 1..n : p.entries[i].safe /\ p.entries[i].legible
        n == CHOOSE k \in 0..Capped(Len(p.entries), MaxEntries) :
                /\ trusted(k)
                /\ k < Capped(Len(p.entries), MaxEntries) => ~trusted(k + 1)
    IN  ReadEntries("tar", SubSeq(p.entries, 1, n), p.sound /\ n = Len(p.entries))

\* A zip is read through its directory; an unsafe name is passed over.
ReadZip(p) ==
    IF ~p.sound \/ Len(p.entries) > MaxEntries THEN Unreadable
    ELSE ReadEntries("zip", Kept(p.entries, {e \in ToSet(p.entries) : e.safe}),
                     \A i \in DOMAIN p.entries : p.entries[i].safe)

ReadCompressedPayload(p) ==
    LET e == p.entries[1]
    IN  IF p.sound /\ Size[e.content] <= ExpandedLimit /\ WithinRatio(e.content, e.stored)
        THEN [entries |-> <<[kind |-> "file", content |-> e.content]>>, clean |-> TRUE]
        ELSE Unreadable

\* A tar.gz whose stream or whose tar is not sound is not read at all.
ReadArchive(c) ==
    LET payload == Payload[c]
    IN  CASE payload.format = "zip" -> ReadZip(payload)
          [] payload.format = "compressed" -> ReadCompressedPayload(payload)
          [] payload.format = "tar.gz" -> IF payload.sound THEN ReadTar(payload) ELSE Unreadable
          [] payload.format = "tar" -> ReadTar(payload)

-----------------------------------------------------------------------------
(* The static decoder of texts.                                            *)

\* The quoted literals that are looked at: of bounded length, the first of them.
\* What is written as a sum or a list of literals counts as one of them.
QuotedLiterals(p) ==
    LET short == {l \in ToSet(p.literals) : l.quoted /\ l.length <= MaxLiteralChars}
        closed == Kept(p.literals, short)
    IN  SubSeq(closed, 1, Capped(Len(closed), MaxCandidates))

ByteArrays(p) ==
    Kept(p.literals, {l \in ToSet(p.literals) : ~l.quoted /\ l.length <= MaxArrayItems})

Scanned(p) == QuotedLiterals(p) \o ByteArrays(p)

\* expandCompressed and entropyBlockers: what a literal decodes to.
EmitLiteralCandidate(l) ==
    LET c == l.content
        read == ReadCompressedPayload(Payload[c])
    IN  IF Payload[c].format = "compressed" /\ read.clean
        THEN [content |-> read.entries[1].content,
              clean |-> ~Payload[read.entries[1].content].dense]
        ELSE [content |-> c, clean |-> Payload[c].format # "compressed" /\ ~Payload[c].dense]

DecodeStaticLiterals(c) ==
    LET scanned == Scanned(Payload[c])
        encoded == Kept(scanned, {l \in ToSet(scanned) : l.content # None})
        n == Capped(Len(encoded), MaxCandidates)
        outputs == [i \in 1..n |-> EmitLiteralCandidate(encoded[i])]
    IN  IF Size[c] > MaxSourceBytes THEN [outputs |-> <<>>, clean |-> FALSE]
        ELSE [outputs |-> outputs,
              clean |-> n < MaxCandidates /\ \A i \in 1..n : outputs[i].clean]

-----------------------------------------------------------------------------
(* The walk through the payloads of an object.                             *)

\* going: the loop at hand has not met its break.
Walks == [items: Nat, payloads: Nat, bytes: Nat, visited: SUBSET (Contents \X Nat),
          clean: BOOLEAN, going: BOOLEAN]

AddItem(st, clean) ==
    IF st.items >= MaxArtifacts THEN [st EXCEPT !.clean = FALSE]
    ELSE [st EXCEPT !.items = @ + 1, !.clean = @ /\ clean]

\* The bytes of a nested payload are counted before they are looked at.
Spend(st, c) ==
    LET spent == [st EXCEPT !.payloads = @ + 1, !.bytes = @ + Size[c]]
    IN  IF spent.bytes > MaxTotalDecodedBytes THEN [spent EXCEPT !.clean = FALSE, !.going = FALSE]
        ELSE spent

\* One entry of an archive, one output of the decoder: the walk after it, and the
\* payload to go into.
ProcessEntry(st, e) ==
    IF ~st.going \/ e.kind = "directory" THEN [walk |-> st, into |-> None]
    ELSE IF st.payloads >= MaxPayloads
    THEN [walk |-> [st EXCEPT !.clean = FALSE, !.going = FALSE], into |-> None]
    ELSE [walk |-> AddItem(st, e.content # None), into |-> e.content]

ProcessOutput(st, o) ==
    IF ~st.going \/ st.items >= MaxArtifacts
    THEN [walk |-> [st EXCEPT !.going = FALSE], into |-> None]
    ELSE [walk |-> AddItem(st, o.clean),
          into |-> IF o.clean /\ st.payloads < MaxPayloads THEN o.content ELSE None]

TooDeep(st) == AddItem([st EXCEPT !.clean = FALSE], FALSE)

AddBinaryMetadata(st, c) == AddItem(st, Payload[c].binary /\ Payload[c].sound)

Visits == [walk: Walks, content: Contents, depth: Nat, forced: BOOLEAN]

\* The walk after a step of a loop, through the payload it goes into.  In this and the
\* following, processed[v] is the walk after the visit v.
Enter(processed, step, depth) ==
    LET spent == Spend(step.walk, step.into)
        visit == [walk |-> spent, content |-> step.into, depth |-> depth + 1, forced |-> FALSE]
    IN  IF step.into = None THEN step.walk
        ELSE IF ~spent.going THEN spent
        ELSE [processed[visit] EXCEPT !.going = TRUE]

ProcessArchive(processed, st, c, archive, depth) ==
    LET listed == AddItem(st, archive.clean)
    IN  After(IF Payload[c].format = "zip" THEN AddItem(listed, archive.clean) ELSE listed,
              [i \in DOMAIN archive.entries |-> [walk \in Walks |->
                  Enter(processed, ProcessEntry(walk, archive.entries[i]), depth)]])

\* decoded: what decodeStaticLiterals makes of the text.
ProcessDecoders(processed, st, decoded, depth) ==
    After([st EXCEPT !.clean = @ /\ decoded.clean],
          [i \in DOMAIN decoded.outputs |-> [walk \in Walks |->
              Enter(processed, ProcessOutput(walk, decoded.outputs[i]), depth)]])

\* forced: the root is an object that should be a binary.
Process(processed, v) ==
    LET c == v.content
        seen == [v.walk EXCEPT !.visited = @ \cup {<<c, v.depth>>}, !.going = TRUE]
        rooted == IF v.depth = 0 THEN AddItem(seen, TRUE) ELSE seen
        named == IF Payload[c].binary \/ v.forced THEN AddBinaryMetadata(rooted, c) ELSE rooted
    IN  IF v.depth > MaxNestedDepth THEN TooDeep(v.walk)
        ELSE IF <<c, v.depth>> \in v.walk.visited THEN v.walk
        ELSE IF Payload[c].format # None
        THEN ProcessArchive(processed, rooted, c, ReadArchive(c), v.depth)
        ELSE IF Payload[c].text
        THEN ProcessDecoders(processed, named, DecodeStaticLiterals(c), v.depth)
        ELSE named

ProcessPayload[v \in Visits] == Process(ProcessPayload, v)

BuildDerivedArtifacts(c, executable) ==
    ProcessPayload[[walk |-> [items |-> 0, payloads |-> 0, bytes |-> Size[c], visited |-> {},
                              clean |-> TRUE, going |-> TRUE],
                    content |-> c, depth |-> 0, forced |-> executable \/ c \in Binary \cup Opaque]]

\* A table: what becomes of a content, as an executable object or as another one.
Decoded == [c \in Contents |-> [executable \in BOOLEAN |-> BuildDerivedArtifacts(c, executable)]]

-----------------------------------------------------------------------------
(* What should come of it, said without budgets and order.                 *)

\* The payloads a content holds directly: an archive its files, a text its encoded
\* literals, as far as it is scanned for them.
Parts(c) ==
    LET payload == Payload[c]
        scanned == Scanned(payload)
    IN  IF payload.format # None
        THEN {payload.entries[i].content :
                i \in {j \in DOMAIN payload.entries : payload.entries[j].kind # "directory"}}
        ELSE IF payload.text THEN {scanned[i].content : i \in DOMAIN scanned} \ {None}
        ELSE {}

\* A payload with everything nested in it, to any depth.
Nested(c) ==
    LET below[n \in 0..Cardinality(Contents)] ==
            IF n = 0 THEN {c} ELSE LET b == below[n - 1] IN b \cup UNION {Parts(d) : d \in b}
    IN  below[Cardinality(Contents)]

\* A compressed stream in a literal is replaced by its payload before it is looked at.
ReadWhole(c, walk) ==
    \A d \in Nested(c) : \/ Payload[d].format = "compressed"
                         \/ \E n \in 0..MaxNestedDepth : <<d, n>> \in walk.visited

\* The budgets that end the decoding of literals without a blocker.
BudgetSpent(walk) == walk.payloads >= MaxPayloads \/ walk.items >= MaxArtifacts

=============================================================================
