---------------------------- MODULE MCAcquisition ----------------------------
(* A tree with a directory in a directory and a file in each of the two, and
   commits that differ in what of it fits a listing, a cap or a decoder. *)
EXTENDS Acquisition, TLC

CONSTANTS p, q, root, dirA, dirB,
    text, code, leaf, bin, odd, wide, tarball, packed, stream, chatty, crowded

MCPaths == {p, q}
MCTrees == {root, dirA, dirB}
MCContents == {text, code, leaf, bin, odd, wide, tarball, packed, stream, chatty, crowded}

Shape == root :> {} @@ dirA :> {root} @@ dirB :> {root, dirA} @@ q :> {root} @@ p :> {root, dirA, dirB}

Repository(first, second, big, huge, entries, subtrees, executable) ==
    [above |-> Shape, blob |-> p :> first @@ q :> second, big |-> big, huge |-> huge,
     maxEntries |-> entries, maxSubtrees |-> subtrees, executable |-> executable]

Entry(kind, content) ==
    [kind |-> kind, content |-> content, stored |-> 1, safe |-> TRUE, legible |-> TRUE]
Literal(content) == [quoted |-> TRUE, length |-> 1, content |-> content]
ByteArray(content) == [quoted |-> FALSE, length |-> 1, content |-> content]

Holding(format, entries) ==
    [format |-> format, sound |-> TRUE, binary |-> FALSE, text |-> FALSE, dense |-> FALSE,
     entries |-> entries, literals |-> <<>>]
TextOf(literals) ==
    [format |-> None, sound |-> TRUE, binary |-> FALSE, text |-> TRUE, dense |-> FALSE,
     entries |-> <<>>, literals |-> literals]

\* A definition of its own, which TLC evaluates only once.
Tables ==
    [size |-> [c \in MCContents |-> IF c = crowded THEN 3 ELSE 1],
     payload |->
        code :> TextOf(<<>>)
        @@ leaf :> TextOf(<<>>)
        @@ text :> TextOf(<<Literal(None), Literal(code)>>)
        @@ bin :> Holding("zip", <<Entry("directory", code), Entry("file", code), Entry("file", tarball)>>)
        @@ odd :> [TextOf(<<>>) EXCEPT !.text = FALSE, !.dense = TRUE]
        @@ wide :> Holding("tar.gz", <<Entry("file", bin)>>)          \* leaf is too deep in it
        @@ tarball :> Holding("tar", <<Entry("file", code), Entry("file", packed)>>)
        @@ packed :> TextOf(<<Literal(stream)>>)
        @@ stream :> Holding("compressed", <<Entry("file", leaf)>>)
        @@ chatty :> TextOf(<<Literal(text), Literal(text), Literal(packed), Literal(packed),
                            Literal(text), ByteArray(tarball)>>)        \* spends the budget
        @@ crowded :> Holding("tar", <<Entry("file", text), Entry("file", tarball)>>),
     repositories |->
        { Repository(chatty, bin, {root, dirA}, {}, 5, 3, {}),    \* listed in three pieces
          Repository(text, odd, {root}, {}, 5, 3, {}),
          Repository(packed, wide, {root}, {}, 5, 3, {}),
          Repository(text, text, {root}, {}, 5, 3, {q}),          \* an executable script
          Repository(text, text, {root}, {root}, 5, 3, {}),       \* the root itself is cut
          Repository(crowded, bin, {root, dirA}, {}, 3, 3, {}),   \* more entries than tracked
          Repository(text, tarball, {root, dirA}, {}, 5, 2, {}) }] \* more subtrees than tracked

MCSize == Tables.size
MCPayload == Tables.payload
MCRepositories == Tables.repositories

=============================================================================
