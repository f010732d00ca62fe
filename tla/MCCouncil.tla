----------------------------- MODULE MCCouncil -----------------------------
(* One file or two, one finding or two, two roles and three reviewers.        *)
(* Contents a and b have one size, d is longer and breaks a plugin. The        *)
(* steady behaviour runs from an activation to a sink, in the last file when   *)
(* there are two; the reading one shares a step with it, repeats the step, and *)
(* ends where a secret is read, which is no effect of a trace. Of content b    *)
(* the plugins draw a step of the steady behaviour in the other direction.     *)
EXTENDS Council, TLC

CONSTANTS p1, p2, a, b, d, steady, reading, r1, r2, v1, v2, v3

MCPaths == {p1}
MCTwoPaths == {p1, p2}
MCOneContent == {a}
MCContents == {a, b, d}
MCNone == {}
MCBreaking == {d}
MCFindings == {steady, reading}
MCOneFinding == {steady}
MCRoles == {r1, r2}
MCMandatory == {r1}
MCReviewers == {v1, v2, v3}

Node(name, type, behaviour, files) ==
    [id |-> name, kind |-> type, does |-> behaviour, cites |-> files]
Edge(number, type, source_, target, files) ==
    [id |-> number, kind |-> type, from |-> source_, to |-> target, cites |-> files]

Here == {p1}
There == IF p2 \in Paths THEN {p2} ELSE {p1}

\* A definition of its own, which TLC evaluates only once.
Tables ==
    [size |-> [c \in Contents |-> IF c = d THEN 2 ELSE 1],
     fileOf |-> [f \in Findings |-> p1],
     fragment |->
        [f \in Findings |->
            IF f = steady
            THEN [cites |-> Here,
                  nodes |-> {Node("hook", "activation", "install", Here),
                             Node("decode", "capability", "decode", Here),
                             Node("send", "capability", "send", Here),
                             Node("host", "sink", "upload", There)},
                  edges |-> {Edge(1, "invokes", "hook", "decode", Here),
                             Edge(2, "invokes", "decode", "send", Here),
                             Edge(3, "writes_to", "send", "host", Here \cup There)}]
            ELSE [cites |-> Here,
                  nodes |-> {Node("load", "trigger", "load", There),
                             Node("decoded", "capability", "decode", Here),
                             Node("key", "sensitive-source", "read", Here)},
                  edges |-> {Edge(7, "invokes", "load", "decoded", Here \cup There),
                             Edge(8, "invokes", "decoded", "decoded", Here),
                             Edge(9, "reads_from", "decoded", "key", Here)}]],
     seed |->
        [s \in Paths \X Contents |->
            CASE s = <<p1, a>> ->
                 [cites |-> {},
                  nodes |-> {Node("p-hook", "activation", "install", Here),
                             Node("p-run", "capability", "run", Here)},
                  edges |-> {Edge(10, "invokes", "p-hook", "p-run", Here)}]
              [] s = <<p1, b>> ->
                 [cites |-> {},
                  nodes |-> {Node("p-send", "capability", "send", Here),
                             Node("p-decode", "capability", "decode", Here)},
                  edges |-> {Edge(11, "invokes", "p-send", "p-decode", Here)}]
              [] OTHER -> [cites |-> {}, nodes |-> {}, edges |-> {}]],
     minor |-> [f \in Findings |-> "minor"],
     signatureOf |-> [f \in Findings |-> "same"],
     category |-> [r \in MCRoles |-> "any"]]

MCSize == Tables.size
MCFileOf == Tables.fileOf
MCFragment == Tables.fragment
MCSeed == Tables.seed
MCMinor == Tables.minor
MCSignatureOf == Tables.signatureOf
MCCategory == Tables.category

ReviewerSymmetry == Permutations(MCReviewers)

=============================================================================
