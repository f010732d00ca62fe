---------------------------- MODULE MCAssurance ----------------------------
(* A small audit for TLC: a program that one reviewer must read, a manifest
   whose script the program may load, a document that tries to instruct its
   reader, a directory, and two dependency graphs, one of which carries a
   blocker.  Besides the script the scanners may find a field in the manifest,
   which is more than a category may be shown. *)
EXTENDS Assurance, TLC

CONSTANTS main, manifest, notes, dir, alice, bob, chains, prompts, deep, truncatedGraph,
          hook, load, script, field, one, other

MCReviewers == {alice, bob}

Text(path) == [kind |-> "source-text", path |-> path, executable |-> FALSE, inventoried |-> TRUE,
               hashed |-> TRUE, text |-> FALSE, parent |-> None]
Found(object, kind, line, targets, tokens) ==
    [object |-> object, kind |-> kind, line |-> line, targets |-> targets, dynamic |-> FALSE,
     tokens |-> tokens]
Report(facts, outcome) == [facts |-> facts, outcome |-> outcome]

\* A definition of its own, which TLC evaluates only once.
Tables ==
    [source |-> main :> Text("source") @@ manifest :> Text("dependency-metadata")
                @@ notes :> Text("other")
                @@ dir :> [Text("other") EXCEPT !.kind = "tree", !.hashed = FALSE],
     fact |-> hook :> Found(main, "generated-code-hook", 1, {}, {"build"})
              @@ load :> Found(main, "import", 2, {manifest}, {})
              @@ script :> Found(manifest, "activation", 1, {}, {"build"})
              @@ field :> Found(manifest, "sink", 2, {}, {}),
     reports |-> main :> {Report({hook, load}, "clean"), Report({hook}, "truncated")}
                 @@ manifest :> {Report({script}, "clean"), Report({script, field}, "clean")}
                 @@ notes :> {} @@ dir :> {},
     category |-> chains :> [rule |-> "everything", kinds |-> {}, paths |-> {}, factKinds |-> {},
                             artifacts |-> {}]
                  @@ prompts :> [rule |-> "prompted", kinds |-> {}, paths |-> {},
                                 factKinds |-> {}, artifacts |-> {}],
     rank |-> main :> 1 @@ manifest :> 2 @@ notes :> 3 @@ dir :> 4,
     dependsOn |-> deep :> {<<one, other>>} @@ truncatedGraph :> {<<one, other>>, <<other, one>>}]

MCSource == Tables.source
MCFact == Tables.fact
MCReports == Tables.reports
MCCategory == Tables.category
MCObjectRank == Tables.rank
MCDependsOn == Tables.dependsOn

Symmetry == Permutations(MCReviewers)

=============================================================================
