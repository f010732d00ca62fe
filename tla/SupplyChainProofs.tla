------------------------- MODULE SupplyChainProofs --------------------------
(***************************************************************************)
(* Supply-chain analysis: proofs, for any lockfiles, packages and nested   *)
(* archives, any limits and any number of analyses in flight.              *)
(***************************************************************************)
EXTENDS SupplyChain, FiniteSetTheorems, WellFoundedInduction, TLAPS

-----------------------------------------------------------------------------
(* Recursion over numbers.                                                 *)

\* Induction, in the form the provers can use: a set of numbers has a least one.
LEMMA Least ==
    ASSUME NEW T \in SUBSET Nat, T # {}
    PROVE  \E n \in T : \A m \in T : n <= m
<1> DEFINE R == {p \in Nat \X Nat : p[1] < p[2]}
<1>1. R = OpToRel(<, Nat)
  BY Zenon DEF OpToRel
<1> HIDE DEF R
<1>2. IsWellFoundedOn(R, Nat)
  BY <1>1, NatLessThanWellFounded, Zenon
<1>3. PICK n \in T : \A m \in T : <<m, n>> \notin R
  BY <1>2, WFMin
<1>4. ASSUME NEW m \in T PROVE n <= m
  <2>1. /\ n \in Nat /\ m \in Nat
        /\ <<m, n>> \notin R
    BY <1>3, <1>4
  <2>2. <<m, n>> \in R <=> m < n
    BY <2>1 DEF R
  <2> QED BY <2>1, <2>2
<1> QED BY <1>4

\* What a function G makes of z, step by step.
Iterates(f, N, S, z, G) ==
    /\ f \in [0..N -> S]
    /\ f[0] = z
    /\ \A n \in 1..N : f[n] = G[f[n - 1]]

\* There are such steps, as many as one likes.
LEMMA IteratesExist ==
    ASSUME NEW S, NEW z \in S, NEW G \in [S -> S], NEW N \in Nat
    PROVE  \E f : Iterates(f, N, S, z, G)
<1> DEFINE T == {n \in Nat : ~\E f : Iterates(f, n, S, z, G)}
<1> SUFFICES ASSUME T # {} PROVE FALSE
  OBVIOUS
<1>1. PICK n \in T : \A m \in T : n <= m
  BY Least
<1>2. n \in Nat /\ ~\E f : Iterates(f, n, S, z, G)
  OBVIOUS
<1>3. CASE n = 0
  <2> DEFINE only == [k \in 0..0 |-> z]
  <2>1. only \in [0..0 -> S] /\ only[0] = z /\ 1..0 = {}
    OBVIOUS
  <2>2. Iterates(only, n, S, z, G)
    BY <1>3, <2>1 DEF Iterates
  <2> QED BY <1>2, <2>2
<1>4. CASE n # 0
  <2>1. n - 1 \in Nat /\ n - 1 \notin T
    BY <1>1, <1>2, <1>4
  <2>2. PICK before : Iterates(before, n - 1, S, z, G)
    BY <2>1
  <2>3. /\ before \in [0..(n - 1) -> S] /\ before[0] = z
        /\ \A k \in 1..(n - 1) : before[k] = G[before[k - 1]]
    BY <2>2 DEF Iterates
  <2>4. before[n - 1] \in S /\ G[before[n - 1]] \in S
    BY <1>2, <1>4, <2>1, <2>3
  <2> DEFINE after == [k \in 0..n |-> IF k = n THEN G[before[n - 1]] ELSE before[k]]
  <2>5. \A k \in 0..n : after[k] \in S
    BY <1>2, <2>3, <2>4
  <2>6. after \in [0..n -> S] /\ after[0] = z
    BY <1>2, <1>4, <2>3, <2>5
  <2>7. ASSUME NEW k \in 1..n PROVE after[k] = G[after[k - 1]]
    <3>1. k - 1 \in 0..n /\ k \in 0..n /\ after[k - 1] = before[k - 1]
      BY <1>2
    <3>2. CASE k = n
      BY <3>1, <3>2
    <3>3. CASE k # n
      BY <1>2, <2>3, <3>1, <3>3
    <3> QED BY <3>2, <3>3
  <2> HIDE DEF after
  <2>8. Iterates(after, n, S, z, G)
    BY <2>6, <2>7 DEF Iterates
  <2> QED BY <1>2, <2>8
<1> QED BY <1>3, <1>4

-----------------------------------------------------------------------------
(* Archives within archives.                                               *)

\* Inside gives payloads.
LEMMA InsideType ==
    ASSUME NEW S PROVE Inside(S) \in SUBSET Payloads
  BY PayloadsAssumption DEF Inside

\* The levels of an archive: itself, and at each level what the one above contains.
IsLevels(level, content) ==
    /\ \A d \in 0..(MaxArchiveDepth + 1) : level[d] \in SUBSET Archives
    /\ level[0] = {content} \cap Archives
    /\ \A d \in 1..(MaxArchiveDepth + 1) : level[d] = Inside(level[d - 1]) \cap Archives

\* The levels of a payload are that.
LEMMA LevelsUnfold ==
    ASSUME NEW content \in Payloads
    PROVE  IsLevels(Levels[content], content)
<1> DEFINE N == MaxArchiveDepth + 1
           S == SUBSET Archives
           G == [T \in S |-> Inside(T) \cap Archives]
           chosen == CHOOSE level : level =
                [d \in 0..N |->
                    IF d = 0 THEN {content} \cap Archives ELSE Inside(level[d - 1]) \cap Archives]
<1>1. N \in Nat
  BY LimitsAssumption
<1>2. G \in [S -> S] /\ {content} \cap Archives \in S
  OBVIOUS
<1>3. PICK f : Iterates(f, N, S, {content} \cap Archives, G)
  BY <1>1, <1>2, IteratesExist
<1>4. f \in [0..N -> S] /\ f[0] = {content} \cap Archives
  BY <1>3 DEF Iterates
<1>5. ASSUME NEW d \in 0..N
      PROVE  f[d] = IF d = 0 THEN {content} \cap Archives
                    ELSE Inside(f[d - 1]) \cap Archives
  <2>1. CASE d = 0
    BY <1>4, <2>1
  <2>2. CASE d # 0
    <3>1. d \in 1..N /\ d - 1 \in 0..N
      BY <1>1, <2>2
    <3>2. f[d] = G[f[d - 1]] /\ f[d - 1] \in S
      BY <1>3, <1>4, <3>1 DEF Iterates
    <3> QED BY <2>2, <3>2
  <2> QED BY <2>1, <2>2
<1> HIDE DEF N
<1>6. f = [d \in 0..N |->
             IF d = 0 THEN {content} \cap Archives ELSE Inside(f[d - 1]) \cap Archives]
  <2>1. f = [d \in 0..N |-> f[d]]
    BY <1>4
  <2> QED BY <1>5, <2>1
<1>7. chosen = [d \in 0..N |->
        IF d = 0 THEN {content} \cap Archives ELSE Inside(chosen[d - 1]) \cap Archives]
  BY <1>6, Zenon
<1>8. Levels[content] = [d \in 0..N |-> chosen[d]]
  BY Zenon DEF Levels, N
<1> HIDE DEF chosen
<1>9. \A d \in 0..N : Levels[content][d] = chosen[d]
  BY <1>8
<1>10. 0 \in 0..N /\ \A d \in 1..N : d \in 0..N /\ d - 1 \in 0..N /\ d # 0
  BY <1>1
<1>11. \A d \in 0..N : chosen[d] =
        IF d = 0 THEN {content} \cap Archives ELSE Inside(chosen[d - 1]) \cap Archives
  BY <1>7
<1>12. /\ \A d \in 0..N : Levels[content][d] \in SUBSET Archives
       /\ Levels[content][0] = {content} \cap Archives
       /\ \A d \in 1..N : Levels[content][d] = Inside(Levels[content][d - 1]) \cap Archives
  BY <1>9, <1>10, <1>11
<1> QED BY <1>12 DEF IsLevels, N

\* What is inside a payload, after so many openings.
IsOpened(within, N, content) ==
    /\ Reachable[content] = within[N]
    /\ within[0] = {content}
    /\ \A n \in 1..N : within[n] = within[n - 1] \cup Inside(within[n - 1])

\* What reaches every payload in an archive, level by level.
LEMMA ReachableUnfold ==
    ASSUME NEW content \in Payloads
    PROVE  \E within : \E N \in Nat : IsOpened(within, N, content)
<1> DEFINE N == Cardinality(Payloads)
           S == SUBSET Payloads
           G == [T \in S |-> T \cup Inside(T)]
           chosen == CHOOSE within : within =
                [n \in 0..N |->
                    IF n = 0 THEN {content}
                    ELSE LET outer == within[n - 1] IN outer \cup Inside(outer)]
<1>1. N \in Nat
  BY PayloadsAssumption, FS_CardinalityType
<1>2. G \in [S -> S] /\ {content} \in S
  BY InsideType
<1>3. PICK f : Iterates(f, N, S, {content}, G)
  BY <1>1, <1>2, IteratesExist
<1>4. f \in [0..N -> S] /\ f[0] = {content}
  BY <1>3 DEF Iterates
<1> HIDE DEF N
<1>5. ASSUME NEW n \in 0..N
      PROVE  f[n] = IF n = 0 THEN {content} ELSE f[n - 1] \cup Inside(f[n - 1])
  <2>1. CASE n = 0
    BY <1>4, <2>1
  <2>2. CASE n # 0
    <3>1. n \in 1..N /\ n - 1 \in 0..N
      BY <1>1, <2>2
    <3>2. f[n] = G[f[n - 1]] /\ f[n - 1] \in S
      BY <1>3, <1>4, <3>1 DEF Iterates
    <3> QED BY <2>2, <3>2
  <2> QED BY <2>1, <2>2
<1>6. f = [n \in 0..N |->
             IF n = 0 THEN {content} ELSE LET outer == f[n - 1] IN outer \cup Inside(outer)]
  <2>1. f = [n \in 0..N |-> f[n]]
    BY <1>4
  <2> QED BY <1>5, <2>1
<1>7. chosen = [n \in 0..N |->
        IF n = 0 THEN {content}
        ELSE LET outer == chosen[n - 1] IN outer \cup Inside(outer)]
  BY <1>6, Zenon
<1>8. Reachable[content] = chosen[N]
  BY Zenon DEF Reachable, N
<1> HIDE DEF chosen
<1>9. 0 \in 0..N /\ \A n \in 1..N : n \in 0..N /\ n # 0
  BY <1>1
<1>10. /\ chosen[0] = {content}
       /\ \A n \in 1..N : chosen[n] = chosen[n - 1] \cup Inside(chosen[n - 1])
  BY <1>7, <1>9
<1>11. IsOpened(chosen, N, content)
  BY <1>8, <1>10 DEF IsOpened
<1> QED BY <1>1, <1>11, Zenon

\* The archives of all levels down to the cap.
LEMMA WalkedLevels ==
    ASSUME NEW content \in Payloads
    PROVE  /\ Walked[content] \in SUBSET Archives
           /\ \A x : x \in Walked[content]
                    <=> \E d \in 0..MaxArchiveDepth : x \in Levels[content][d]
<1>1. Walked[content] = UNION {Levels[content][d] : d \in 0..MaxArchiveDepth}
  BY DEF Walked
<1>2. \A x : x \in Walked[content] <=> \E d \in 0..MaxArchiveDepth : x \in Levels[content][d]
  BY <1>1
<1>3. \A d \in 0..MaxArchiveDepth : Levels[content][d] \in SUBSET Archives
  <2>1. \A d \in 0..MaxArchiveDepth : d \in 0..(MaxArchiveDepth + 1)
    BY LimitsAssumption
  <2> QED BY <2>1, LevelsUnfold DEF IsLevels
<1> QED BY <1>2, <1>3

\* An archive with nothing below the cap was walked to the bottom.
LEMMA WalkedToBottom ==
    ASSUME NEW content \in Payloads, Levels[content][MaxArchiveDepth + 1] = {}
    PROVE  Reachable[content] \cap Archives \subseteq Walked[content]
<1>1. PICK within : \E N \in Nat : IsOpened(within, N, content)
  BY ReachableUnfold
<1>2. PICK N \in Nat :
        /\ Reachable[content] = within[N]
        /\ within[0] = {content}
        /\ \A n \in 1..N : within[n] = within[n - 1] \cup Inside(within[n - 1])
  BY <1>1 DEF IsOpened
<1> DEFINE T == {n \in 0..N : ~(within[n] \cap Archives \subseteq Walked[content])}
<1>3. ASSUME T # {} PROVE FALSE
  <2>1. T \in SUBSET Nat
    BY <1>2
  <2>2. PICK n \in T : \A m \in T : n <= m
    BY <1>3, <2>1, Least
  <2>3. n \in 0..N /\ ~(within[n] \cap Archives \subseteq Walked[content])
    OBVIOUS
  <2>4. PICK x \in within[n] \cap Archives : x \notin Walked[content]
    BY <2>3
  <2>5. IsLevels(Levels[content], content) /\ MaxArchiveDepth \in Nat
    BY LevelsUnfold, LimitsAssumption
  <2>6. CASE n = 0
    <3>1. x \in Levels[content][0] /\ 0 \in 0..MaxArchiveDepth
      BY <1>2, <2>4, <2>5, <2>6 DEF IsLevels
    <3> QED BY <2>4, <3>1, WalkedLevels
  <2>7. CASE n # 0
    <3>1. n \in 1..N /\ n - 1 \in 0..N /\ n - 1 \notin T
      BY <2>2, <2>3, <2>7
    <3>2. within[n - 1] \cap Archives \subseteq Walked[content]
      BY <3>1
    <3>3. x \in Inside(within[n - 1])
      BY <1>2, <2>4, <3>1, <3>2
    <3>4. PICK y \in within[n - 1] \cap Archives : x \in Contains[y]
      BY <3>3 DEF Inside
    <3>5. PICK d \in 0..MaxArchiveDepth : y \in Levels[content][d]
      BY <3>2, <3>4, WalkedLevels
    <3>6. x \in Inside(Levels[content][d])
      BY <3>4, <3>5 DEF Inside
    <3>7. d + 1 \in 1..(MaxArchiveDepth + 1) /\ d = (d + 1) - 1
      BY <2>5
    <3>8. Levels[content][d + 1] = Inside(Levels[content][d]) \cap Archives
      BY <2>5, <3>7 DEF IsLevels
    <3>9. x \in Levels[content][d + 1]
      BY <2>4, <3>6, <3>8
    <3>10. d + 1 # MaxArchiveDepth + 1
      BY <3>9
    <3>11. d + 1 \in 0..MaxArchiveDepth
      BY <2>5, <3>10
    <3> QED BY <2>4, <3>9, <3>11, WalkedLevels
  <2> QED BY <2>6, <2>7
<1>4. N \in 0..N
  BY <1>2
<1> QED BY <1>2, <1>3, <1>4

-----------------------------------------------------------------------------
(* Types.                                                                  *)

\* The values of a function on a finite set.
LEMMA FiniteRange ==
    ASSUME NEW S, IsFiniteSet(S), NEW f, f = [x \in S |-> f[x]]
    PROVE  IsFiniteSet({f[x] : x \in S})
<1> DEFINE T == {f[x] : x \in S}
<1>1. f \in Surjection(S, T)
  BY DEF Surjection
<1> QED BY <1>1, FS_Surjection

\* The entries and the texts of an archive can be counted.
LEMMA Countable ==
    ASSUME NEW content \in Payloads
    PROVE  EntriesIn[content] \in Nat /\ TextIn[content] \in Nat
<1>1. IsFiniteSet(Archives) /\ IsFiniteSet(Payloads) /\ IsFiniteSet(0..MaxArchiveDepth)
  <2>1. Archives \subseteq Payloads /\ IsFiniteSet(Payloads) /\ 0 \in Int /\ MaxArchiveDepth \in Int
    BY PayloadsAssumption, LimitsAssumption
  <2>2. IsFiniteSet(Archives)
    BY <2>1, FS_Subset, Zenon
  <2>3. IsFiniteSet(0..MaxArchiveDepth)
    BY <2>1, FS_Interval, Zenon
  <2> QED BY <2>1, <2>2, <2>3
<1> DEFINE pairs == ((0..MaxArchiveDepth) \X Archives) \X Payloads
           f == [x \in pairs |-> <<x[1][1], x[1][2], x[2]>>]
           triples == {f[x] : x \in pairs}
           entries == {e \in (0..MaxArchiveDepth) \X Archives \X Payloads :
                          e[2] \in Levels[content][e[1]] /\ e[3] \in Contains[e[2]]}
<1>2. IsFiniteSet(triples)
  <2>1. IsFiniteSet(pairs)
    BY <1>1, FS_Product
  <2>2. f = [x \in pairs |-> f[x]]
    OBVIOUS
  <2> HIDE DEF pairs, f
  <2> QED BY <2>1, <2>2, FiniteRange
<1>3. entries \in SUBSET triples
  <2> SUFFICES ASSUME NEW e \in entries PROVE e \in triples
    OBVIOUS
  <2>1. e = <<e[1], e[2], e[3]>> /\ e[1] \in 0..MaxArchiveDepth /\ e[2] \in Archives
        /\ e[3] \in Payloads
    OBVIOUS
  <2> DEFINE x == <<<<e[1], e[2]>>, e[3]>>
  <2>2. x \in pairs /\ x[1][1] = e[1] /\ x[1][2] = e[2] /\ x[2] = e[3]
    BY <2>1
  <2>3. f[x] = e
    BY <2>1, <2>2
  <2> QED BY <2>2, <2>3
<1>4. EntriesIn[content] = Cardinality(entries)
  BY Zenon DEF EntriesIn
<1> HIDE DEF entries, triples
<1>5. EntriesIn[content] \in Nat
  BY <1>2, <1>3, <1>4, FS_Subset, FS_CardinalityType
<1>6. IsFiniteSet(Inside(Walked[content]) \ Archives)
  BY <1>1, InsideType, FS_Subset
<1>7. TextIn[content] = Cardinality(Inside(Walked[content]) \ Archives)
  BY DEF TextIn
<1> QED BY <1>5, <1>6, <1>7, FS_CardinalityType

\* The inventory of some lockfiles.
LEMMA InventoryType ==
    ASSUME NEW ms \in SUBSET Manifests
    PROVE  /\ PackagesOf[ms] = {p \in Packages : ManifestOf[p] \in ms}
           /\ PackagesOf[ms] \in SUBSET Packages
           /\ InventoryBlockers[ms] \in SUBSET Codes
           /\ InventoryBlockers[ms] = {} =>
                \A p \in PackagesOf[ms] : Verifiable(p) /\ ~Unresolved(p)
<1>1. PackagesOf[ms] = {p \in Packages : ManifestOf[p] \in ms}
  BY DEF PackagesOf
<1>2. InventoryBlockers[ms] =
        (IF \A p \in PackagesOf[ms] : Verifiable(p) THEN {} ELSE {"missing-integrity"})
        \cup (IF \E p \in PackagesOf[ms] : Unresolved(p) THEN {"transitive-unresolved"} ELSE {})
  BY DEF InventoryBlockers
<1>3. /\ InventoryBlockers[ms] \in SUBSET Codes
      /\ InventoryBlockers[ms] = {} =>
            \A p \in PackagesOf[ms] : Verifiable(p) /\ ~Unresolved(p)
  BY <1>2 DEF Codes
<1> QED BY <1>1, <1>3

-----------------------------------------------------------------------------
(* The inductive invariant.                                                *)

\* The packages of an analysis that have to be served.
Remote(ms) == {p \in PackagesOf[ms] : Kind[p] # "local"}

\* An analysis without a blocker: nothing of the inventory is wrong, no package is
\* forgotten, and each that was analyzed was opened to the bottom.
Whole(manifests, blockers, pending, analyzed, walked) ==
    blockers = {} =>
        /\ InventoryBlockers[manifests] = {}
        /\ Remote(manifests) \subseteq pending \cup analyzed
        /\ \A p \in analyzed : /\ Levels[ContentOf[p]][MaxArchiveDepth + 1] = {}
                               /\ Walked[ContentOf[p]] \subseteq walked
        /\ walked \cap Unreadable = {}

\* Between two answers, and while one is waited for.
Settled(a) == Whole(a.manifests, a.blockers, a.todo, a.analyzed, a.walked)
Waiting(a) == Whole(a.manifests, a.blockers, a.todo \cup {a.at}, a.analyzed, a.walked)

\* An analysis that has ended has nothing left to do.
Ongoing(a) ==
    IF a.at = None THEN Whole(a.manifests, a.blockers, {}, a.analyzed, a.walked) ELSE Waiting(a)

\* Analyses are of the lockfiles of the audit whose id they carry, and of no later one.
OwnedBy(a, active, next) ==
    /\ a.id < next
    /\ active # None /\ active.id = a.id => \A m \in a.manifests : SourceOf[m] = active.source

Owned(a) == OwnedBy(a, audit, nextId)

GraphHonest(source, graph) ==
    /\ \A m \in graph.manifests : SourceOf[m] = source
    /\ graph.blockers = {} => InventoryBlockers[graph.manifests] = {}
    /\ graph.fetched => Whole(graph.manifests, graph.blockers, {}, graph.analyzed, graph.walked)

IInv ==
    /\ TypeOK
    /\ audit # None => audit.id < nextId
    /\ audit # None /\ audit.graph # None => GraphHonest(audit.source, audit.graph)
    /\ \A c \in Calls : call[c] # None => Waiting(call[c]) /\ Owned(call[c])

-----------------------------------------------------------------------------
(* What the handlers make of an analysis.                                  *)

Same(a, b) == b.id = a.id /\ b.manifests = a.manifests

\* An analysis with a blocker owes nothing any more.
LEMMA BlockedOutcome ==
    ASSUME NEW a \in Analyses, NEW size \in Nat, NEW codes \in SUBSET Codes, codes # {},
           NEW b \in {Blocked(a, codes), Blocked(Paid(a, size), codes)}
    PROVE  b \in Analyses /\ Same(a, b) /\ Settled(b)
<1>1. /\ b.id = a.id /\ b.manifests = a.manifests
      /\ b.blockers = a.blockers \cup codes
      /\ b \in Analyses
  <2>1. CASE b = Blocked(a, codes)
    BY <2>1 DEF Blocked, Analyses
  <2>2. CASE b = Blocked(Paid(a, size), codes)
    <3> DEFINE paid == Paid(a, size)
    <3>1. /\ paid \in Analyses /\ paid.id = a.id /\ paid.manifests = a.manifests
          /\ paid.blockers = a.blockers
      BY DEF Paid, Analyses
    <3> HIDE DEF paid
    <3>2. b = Blocked(paid, codes)
      BY <2>2 DEF paid
    <3> QED BY <3>1, <3>2 DEF Blocked, Analyses
  <2> QED BY <2>1, <2>2
<1>2. b.blockers # {}
  BY <1>1
<1> QED BY <1>1, <1>2 DEF Same, Settled, Whole

\* An artifact that was opened to the bottom, and read, is one package less to serve.
LEMMA AnalyzedOutcome ==
    ASSUME NEW a \in Analyses, a.at \in Packages, Waiting(a),
           NEW b, b = AnalyzeArchive(a, ContentOf[a.at])
    PROVE  b \in Analyses /\ Same(a, b) /\ Settled(b)
<1> DEFINE content == ContentOf[a.at]
           entries == a.entries + EntriesIn[content]
           scanned == a.scanned + TextIn[content]
           below == Levels[content][MaxArchiveDepth + 1]
           capped == IF below # {} \/ entries > MaxArchiveEntries \/ scanned > MaxScannedText
                     THEN {"recursion-cap"} ELSE {}
           refused == IF Walked[content] \cap Unreadable # {}
                      THEN {"artifact-analysis-blocked"} ELSE {}
<1>1. content \in Payloads /\ Size[content] \in Nat
  BY PayloadsAssumption
<1>2. EntriesIn[content] \in Nat /\ TextIn[content] \in Nat
  BY <1>1, Countable
<1>3. Walked[content] \in SUBSET Payloads
  BY <1>1, WalkedLevels, PayloadsAssumption
<1>4. capped \in SUBSET Codes /\ refused \in SUBSET Codes
  BY DEF Codes
<1>5. entries \in Nat /\ scanned \in Nat
  BY <1>2 DEF Analyses
<1>6. b = [a EXCEPT !.bytes = @ + Size[content], !.entries = entries, !.scanned = scanned,
                    !.analyzed = @ \cup {a.at}, !.walked = @ \cup Walked[content],
                    !.blockers = @ \cup capped \cup refused]
  BY Zenon DEF AnalyzeArchive
<1>7. (capped = {} => below = {}) /\ (refused = {} => Walked[content] \cap Unreadable = {})
  OBVIOUS
<1> HIDE DEF content, entries, scanned, below, capped, refused
<1> DEFINE bytes == a.bytes + Size[content]
           analyzed == a.analyzed \cup {a.at}
           walked == a.walked \cup Walked[content]
           blockers == a.blockers \cup capped \cup refused
<1>8. /\ bytes \in Nat /\ analyzed \in SUBSET Packages
       /\ walked \in SUBSET Payloads /\ blockers \in SUBSET Codes
  BY <1>1, <1>3, <1>4 DEF Analyses
<1>9. b = [a EXCEPT !.bytes = bytes, !.entries = entries, !.scanned = scanned,
                     !.analyzed = analyzed, !.walked = walked, !.blockers = blockers]
  BY <1>6
<1>10. /\ b \in Analyses
      /\ b.id = a.id /\ b.manifests = a.manifests /\ b.todo = a.todo
      /\ b.analyzed = a.analyzed \cup {a.at} /\ b.walked = a.walked \cup Walked[content]
      /\ b.blockers = a.blockers \cup capped \cup refused
  <2> HIDE DEF bytes, analyzed, walked, blockers
  <2>1. b \in Analyses
    <3>1. /\ a.id \in Ids /\ a.manifests \in SUBSET Manifests /\ a.todo \in SUBSET Packages
          /\ a.at \in Packages \cup {None} /\ a.phase \in {"metadata", "artifact"}
          /\ a.requests \in Nat
      BY DEF Analyses
    <3>2. b = [id |-> a.id, manifests |-> a.manifests, todo |-> a.todo, at |-> a.at,
               phase |-> a.phase, requests |-> a.requests, bytes |-> bytes,
               entries |-> entries, scanned |-> scanned, blockers |-> blockers,
               analyzed |-> analyzed, walked |-> walked]
      BY <1>9 DEF Analyses
    <3> QED BY <1>5, <1>8, <3>1, <3>2 DEF Analyses
  <2>2. /\ b.id = a.id /\ b.manifests = a.manifests /\ b.todo = a.todo
        /\ b.analyzed = analyzed /\ b.walked = walked /\ b.blockers = blockers
    BY <1>9 DEF Analyses
  <2> QED BY <2>1, <2>2 DEF analyzed, walked, blockers
<1>11. ASSUME b.blockers = {}
      PROVE  /\ InventoryBlockers[b.manifests] = {}
             /\ Remote(b.manifests) \subseteq b.todo \cup b.analyzed
             /\ \A p \in b.analyzed : /\ Levels[ContentOf[p]][MaxArchiveDepth + 1] = {}
                                      /\ Walked[ContentOf[p]] \subseteq b.walked
             /\ b.walked \cap Unreadable = {}
  <2>1. a.blockers = {} /\ capped = {} /\ refused = {}
    BY <1>10, <1>11
  <2>2. /\ InventoryBlockers[a.manifests] = {}
        /\ Remote(a.manifests) \subseteq a.todo \cup {a.at} \cup a.analyzed
        /\ \A p \in a.analyzed : /\ Levels[ContentOf[p]][MaxArchiveDepth + 1] = {}
                                 /\ Walked[ContentOf[p]] \subseteq a.walked
        /\ a.walked \cap Unreadable = {}
    BY <2>1 DEF Waiting, Whole
  <2>3. below = {} /\ Walked[content] \cap Unreadable = {}
    BY <1>7, <2>1
  <2>4. /\ InventoryBlockers[b.manifests] = {}
        /\ Remote(b.manifests) \subseteq b.todo \cup b.analyzed
    BY <1>10, <2>2
  <2>5. ASSUME NEW p \in b.analyzed
        PROVE  /\ Levels[ContentOf[p]][MaxArchiveDepth + 1] = {}
               /\ Walked[ContentOf[p]] \subseteq b.walked
    <3>1. CASE p \in a.analyzed
      BY <1>10, <2>2, <3>1
    <3>2. CASE p = a.at
      BY <1>10, <2>3, <3>2 DEF content, below
    <3> QED BY <1>10, <3>1, <3>2
  <2>6. b.walked \cap Unreadable = {}
    BY <1>10, <2>2, <2>3
  <2> QED BY <2>4, <2>5, <2>6
<1> QED BY <1>10, <1>11 DEF Same, Settled, Whole

\* Whatever comes of a request, the package at hand is served or the analysis blocked.
LEMMA OutcomesHonest ==
    ASSUME NEW a \in Analyses, a.at \in Packages, Waiting(a), NEW b \in Outcomes(a)
    PROVE  b \in Analyses /\ Same(a, b) /\ Settled(b)
<1>1. {"fetch-failed"} \in SUBSET Codes /\ {"hash-mismatch"} \in SUBSET Codes
      /\ {"recursion-cap", "fetch-failed"} \in SUBSET Codes
  BY DEF Codes
<1>2. {"fetch-failed"} # {} /\ {"hash-mismatch"} # {} /\ {"recursion-cap", "fetch-failed"} # {}
  OBVIOUS
<1>3. MetadataSize \in Nat
  BY LimitsAssumption
<1>4. CASE b = Blocked(a, {"fetch-failed"})
  BY <1>1, <1>2, <1>3, <1>4, BlockedOutcome
<1>5. ASSUME NEW x \in Payloads, b = Received(a, x)
      PROVE  b \in Analyses /\ Same(a, b) /\ Settled(b)
  <2>1. Size[x] \in Nat
    BY PayloadsAssumption
  <2>2. CASE b = Blocked(a, {"fetch-failed"})
    BY <1>4, <2>2
  <2>3. CASE b = AnalyzeArchive(a, ContentOf[a.at])
    BY <2>3, AnalyzedOutcome
  <2>4. CASE b = Blocked(Paid(a, Size[x]), {"hash-mismatch"})
    BY <1>1, <1>2, <2>1, <2>4, BlockedOutcome
  <2> QED BY <1>5, <2>2, <2>3, <2>4, Zenon DEF Received
<1>6. CASE b = Blocked(Paid(a, MetadataSize), {"recursion-cap", "fetch-failed"})
  BY <1>1, <1>2, <1>3, <1>6, BlockedOutcome
<1>7. \/ b = Blocked(a, {"fetch-failed"})
      \/ b \in {Received(a, x) : x \in Payloads}
      \/ b = Blocked(Paid(a, MetadataSize), {"recursion-cap", "fetch-failed"})
  <2>1. CASE a.phase = "artifact"
    BY <2>1, Zenon DEF Outcomes
  <2>2. CASE a.phase # "artifact"
    BY <2>2, Zenon DEF Outcomes
  <2> QED BY <2>1, <2>2
<1> QED BY <1>4, <1>5, <1>6, <1>7, Zenon

\* A request for a package that was still to do, or was being waited for, keeps it.
LEMMA RequestedWaits ==
    ASSUME NEW a \in Analyses, NEW p \in Packages, NEW phase \in {"metadata", "artifact"},
           Whole(a.manifests, a.blockers, a.todo \cup {p}, a.analyzed, a.walked),
           NEW b, b = Requested(a, p, phase)
    PROVE  b \in Analyses /\ Same(a, b) /\ b.at # None /\ Waiting(b)
<1>1. /\ b \in Analyses
      /\ b.id = a.id /\ b.manifests = a.manifests /\ b.blockers = a.blockers
      /\ b.analyzed = a.analyzed /\ b.walked = a.walked
      /\ b.at = p /\ b.todo = a.todo \ {p}
  <2>1. a.requests + 1 \in Nat /\ a.todo \ {p} \in SUBSET Packages
        /\ p \in Packages \cup {None}
    BY DEF Analyses
  <2> DEFINE requests == a.requests + 1
             todo == a.todo \ {p}
  <2>2. b = [a EXCEPT !.at = p, !.phase = phase, !.requests = requests, !.todo = todo]
    BY DEF Requested
  <2> HIDE DEF requests, todo
  <2>3. requests \in Nat /\ todo \in SUBSET Packages /\ todo = a.todo \ {p}
    BY <2>1 DEF requests, todo
  <2>4. b \in Analyses
    BY <2>1, <2>2, <2>3 DEF Analyses
  <2>5. /\ b.id = a.id /\ b.manifests = a.manifests /\ b.blockers = a.blockers
        /\ b.analyzed = a.analyzed /\ b.walked = a.walked
        /\ b.at = p /\ b.todo = todo
    BY <2>2 DEF Analyses
  <2> QED BY <2>3, <2>4, <2>5
<1>2. b.todo \cup {b.at} = a.todo \cup {p}
  BY <1>1
<1>3. b.at # None
  BY <1>1, NoneAssumption
<1>4. Waiting(b)
  BY <1>1, <1>2 DEF Waiting
<1> QED BY <1>1, <1>3, <1>4 DEF Same

\* An analysis goes on to a package left to do, or ends with none left or with a blocker.
LEMMA AdvancedHonest ==
    ASSUME NEW a \in Analyses, Settled(a), NEW b \in Advanced(a)
    PROVE  b \in Analyses /\ Same(a, b) /\ Ongoing(b)
<1>1. CASE a.todo = {}
  <2>1. b = [a EXCEPT !.at = None]
    BY <1>1 DEF Advanced
  <2>2. /\ b \in Analyses /\ b.at = None
        /\ b.id = a.id /\ b.manifests = a.manifests /\ b.blockers = a.blockers
        /\ b.analyzed = a.analyzed /\ b.walked = a.walked
    BY <2>1 DEF Analyses
  <2> QED BY <1>1, <2>2 DEF Settled, Ongoing, Same
<1>2. CASE a.todo # {} /\ ~RequestAllowed(a)
  <2> DEFINE over == Blocked(a, {"recursion-cap", "fetch-failed"})
  <2>1. /\ over \in Analyses /\ over.id = a.id /\ over.manifests = a.manifests
        /\ over.blockers = a.blockers \cup {"recursion-cap", "fetch-failed"}
    BY DEF Blocked, Analyses, Codes
  <2>2. b = [over EXCEPT !.at = None, !.todo = {}]
    BY <1>2 DEF Advanced
  <2> HIDE DEF over
  <2>3. /\ b \in Analyses /\ b.at = None
        /\ b.id = a.id /\ b.manifests = a.manifests /\ b.blockers # {}
    BY <2>1, <2>2 DEF Analyses
  <2> QED BY <2>3 DEF Ongoing, Same, Whole
<1>3. CASE a.todo # {} /\ RequestAllowed(a)
  <2>1. PICK p \in Shallowest(a) :
            b = Requested(a, p, IF Kind[p] = "metadata" THEN "metadata" ELSE "artifact")
    BY <1>3, Zenon DEF Advanced
  <2>2. p \in a.todo /\ p \in Packages
    BY DEF Shallowest, Analyses
  <2>3. a.todo = a.todo \cup {p}
    BY <2>2
  <2>4. Whole(a.manifests, a.blockers, a.todo \cup {p}, a.analyzed, a.walked)
    BY <2>3, Zenon DEF Settled
  <2>5. (IF Kind[p] = "metadata" THEN "metadata" ELSE "artifact") \in {"metadata", "artifact"}
    OBVIOUS
  <2>6. b \in Analyses /\ Same(a, b) /\ b.at # None /\ Waiting(b)
    BY <2>1, <2>2, <2>4, <2>5, RequestedWaits
  <2> QED BY <2>6 DEF Ongoing
<1> QED BY <1>1, <1>2, <1>3

\* An answer leaves the analysis waiting for the next one, or ended.
LEMMA AnsweredHonest ==
    ASSUME NEW a \in Analyses, a.at # None, Waiting(a), NEW next \in Answered(a)
    PROVE  next \in Analyses /\ Same(a, next) /\ Ongoing(next)
<1>1. a.at \in Packages
  BY DEF Analyses
<1>2. ASSUME NEW s \in Outcomes(a), next \in Advanced(s)
      PROVE  next \in Analyses /\ Same(a, next) /\ Ongoing(next)
  <2>1. s \in Analyses /\ Same(a, s) /\ Settled(s)
    BY <1>1, OutcomesHonest
  <2>2. next \in Analyses /\ Same(s, next) /\ Ongoing(next)
    BY <1>2, <2>1, AdvancedHonest
  <2> QED BY <2>1, <2>2 DEF Same
<1>3. CASE next = Requested(Paid(a, MetadataSize), a.at, "artifact")
  <2> DEFINE paid == Paid(a, MetadataSize)
  <2>1. /\ paid \in Analyses /\ paid.id = a.id /\ paid.manifests = a.manifests
        /\ paid.blockers = a.blockers /\ paid.todo = a.todo
        /\ paid.analyzed = a.analyzed /\ paid.walked = a.walked
    BY LimitsAssumption DEF Paid, Analyses
  <2>2. next = Requested(paid, a.at, "artifact")
    BY <1>3
  <2> HIDE DEF paid
  <2>3. Whole(paid.manifests, paid.blockers, paid.todo \cup {a.at}, paid.analyzed, paid.walked)
    BY <2>1 DEF Waiting
  <2>4. next \in Analyses /\ Same(paid, next) /\ next.at # None /\ Waiting(next)
    BY <1>1, <2>1, <2>2, <2>3, RequestedWaits
  <2> QED BY <2>1, <2>4 DEF Same, Ongoing
<1>4. (\E s \in Outcomes(a) : next \in Advanced(s))
      \/ next = Requested(Paid(a, MetadataSize), a.at, "artifact")
  <2> DEFINE onward == IF a.phase = "metadata" /\ Fits(a, MetadataSize) /\ RequestAllowed(a)
                       THEN {Requested(Paid(a, MetadataSize), a.at, "artifact")} ELSE {}
             onto == UNION {Advanced(s) : s \in Outcomes(a)}
  <2>1. Answered(a) = onto \cup onward
    BY Zenon DEF Answered
  <2> HIDE DEF onward, onto
  <2>2. next \in onto \/ next \in onward
    BY <2>1
  <2>3. next \in onward => next = Requested(Paid(a, MetadataSize), a.at, "artifact")
    BY DEF onward
  <2>4. next \in onto => \E s \in Outcomes(a) : next \in Advanced(s)
    BY Zenon DEF onto
  <2> QED BY <2>2, <2>3, <2>4
<1> QED BY <1>2, <1>3, <1>4

-----------------------------------------------------------------------------
(* What the handlers make of the audit's graph.                            *)

\* What is recorded of an analysis.
LEMMA GraphOfType ==
    ASSUME NEW a \in Analyses, NEW fetched \in BOOLEAN, NEW g, g = GraphOf(a, fetched)
    PROVE  /\ g \in Graphs
           /\ g.fetched = fetched /\ g.manifests = a.manifests /\ g.blockers = a.blockers
           /\ g.analyzed = a.analyzed /\ g.walked = a.walked
  BY DEF GraphOf, Graphs, Analyses

\* An honest graph keeps the audit honest, whether it is taken or refused.
LEMMA RecordKeeps ==
    ASSUME IInv, NEW a \in Analyses, NEW fetched \in BOOLEAN,
           audit # None /\ audit.id = a.id => GraphHonest(audit.source, GraphOf(a, fetched)),
           RecordSupplyChainGraph(a, fetched)
    PROVE  /\ audit' \in Audits \cup {None}
           /\ audit' # None => audit # None /\ audit'.id = audit.id /\ audit'.source = audit.source
           /\ audit' # None /\ audit'.graph # None => GraphHonest(audit'.source, audit'.graph)
<1>1. CASE audit # None /\ audit.id = a.id /\ ~audit.prepared
  <2> DEFINE g == GraphOf(a, fetched)
  <2>1. g \in Graphs
    BY GraphOfType
  <2>2. audit' = [audit EXCEPT !.graph = g]
    BY <1>1, Zenon DEF RecordSupplyChainGraph
  <2>3. GraphHonest(audit.source, g)
    BY <1>1
  <2> HIDE DEF g
  <2>4. audit \in Audits
    BY <1>1 DEF IInv, TypeOK
  <2>5. /\ audit' \in Audits
        /\ audit'.id = audit.id /\ audit'.source = audit.source /\ audit'.graph = g
    BY <2>1, <2>2, <2>4 DEF Audits
  <2> QED BY <1>1, <2>3, <2>5
<1>2. CASE ~(audit # None /\ audit.id = a.id /\ ~audit.prepared)
  <2>1. audit' = audit
    BY <1>2, Zenon DEF RecordSupplyChainGraph
  <2> QED BY <2>1 DEF IInv, TypeOK
<1> QED BY <1>1, <1>2

\* An analysis that goes on, or ends and is recorded.
LEMMA ContinuesKeeps ==
    ASSUME IInv, NEW c \in Calls, NEW a \in Analyses, Ongoing(a), Owned(a),
           Continues(c, a), nextId' = nextId
    PROVE  IInv'
<1>1. CASE a.at = None
  <2>1. call' = [call EXCEPT ![c] = None] /\ RecordSupplyChainGraph(a, TRUE)
    BY <1>1, Zenon DEF Continues
  <2> DEFINE g == GraphOf(a, TRUE)
  <2>2. /\ g.fetched = TRUE /\ g.manifests = a.manifests /\ g.blockers = a.blockers
        /\ g.analyzed = a.analyzed /\ g.walked = a.walked
    BY GraphOfType
  <2> HIDE DEF g
  <2>3. Whole(g.manifests, g.blockers, {}, g.analyzed, g.walked)
    BY <1>1, <2>2 DEF Ongoing
  <2>4. g.blockers = {} => InventoryBlockers[g.manifests] = {}
    BY <2>3 DEF Whole
  <2>5. audit # None /\ audit.id = a.id => GraphHonest(audit.source, g)
    BY <2>2, <2>3, <2>4 DEF OwnedBy, Owned, GraphHonest
  <2>6. /\ audit' \in Audits \cup {None}
        /\ audit' # None => audit # None /\ audit'.id = audit.id /\ audit'.source = audit.source
        /\ audit' # None /\ audit'.graph # None => GraphHonest(audit'.source, audit'.graph)
    BY <2>1, <2>5, RecordKeeps DEF g
  <2>7. /\ call' \in [Calls -> Analyses \cup {None}]
        /\ \A d \in Calls : call'[d] # None => call[d] # None /\ call'[d] = call[d]
    BY <2>1 DEF IInv, TypeOK
  <2>8. TypeOK'
    BY <2>6, <2>7 DEF IInv, TypeOK
  <2>9. (audit # None => audit.id < nextId)'
    BY <2>6 DEF IInv
  <2>10. \A d \in Calls : call'[d] # None => Waiting(call'[d]) /\ OwnedBy(call'[d], audit', nextId')
    <3> SUFFICES ASSUME NEW d \in Calls, call'[d] # None
                 PROVE  Waiting(call'[d]) /\ OwnedBy(call'[d], audit', nextId')
      OBVIOUS
    <3>1. call[d] # None /\ call'[d] = call[d] /\ Waiting(call[d]) /\ Owned(call[d])
      BY <2>7 DEF IInv
    <3> QED BY <2>6, <3>1 DEF OwnedBy, Owned
  <2> QED BY <2>6, <2>8, <2>9, <2>10 DEF IInv, Waiting, GraphHonest, OwnedBy, Owned
<1>2. CASE a.at # None
  <2>1. call' = [call EXCEPT ![c] = a] /\ audit' = audit
    BY <1>2, Zenon DEF Continues
  <2>2. /\ call' \in [Calls -> Analyses \cup {None}]
        /\ \A d \in Calls : call'[d] = IF d = c THEN a ELSE call[d]
    BY <2>1 DEF IInv, TypeOK
  <2>3. TypeOK'
    BY <1>2, <2>1, <2>2 DEF IInv, TypeOK
  <2>4. Waiting(a)
    BY <1>2 DEF Ongoing
  <2>5. \A d \in Calls : call'[d] # None => Waiting(call'[d]) /\ OwnedBy(call'[d], audit', nextId')
    <3> SUFFICES ASSUME NEW d \in Calls, call'[d] # None
                 PROVE  Waiting(call'[d]) /\ OwnedBy(call'[d], audit', nextId')
      OBVIOUS
    <3>1. Waiting(call'[d]) /\ Owned(call'[d])
      BY <2>2, <2>4 DEF IInv
    <3> QED BY <2>1, <3>1 DEF OwnedBy, Owned
  <2> QED BY <2>1, <2>3, <2>5 DEF IInv, Waiting, GraphHonest, OwnedBy, Owned
<1> QED BY <1>1, <1>2

\* An analysis begins with every package that has to be served, or with a blocker.
LEMMA StartedHonest ==
    ASSUME NEW id \in Ids, NEW ms \in SUBSET Manifests, NEW chosen \in SUBSET PackagesOf[ms],
           NEW a, a = Started(id, ms, chosen)
    PROVE  a \in Analyses /\ a.id = id /\ a.manifests = ms /\ Settled(a)
<1> DEFINE deep == {p \in chosen : DepthOf(ms, p) > MaxDepth}
           todo == {p \in chosen \ deep : Verifiable(p) /\ Kind[p] # "local"}
           capped == IF deep # {} \/ chosen # PackagesOf[ms] THEN {"recursion-cap"} ELSE {}
           blockers == InventoryBlockers[ms] \cup capped
<1>1. PackagesOf[ms] \in SUBSET Packages /\ InventoryBlockers[ms] \in SUBSET Codes
  BY InventoryType
<1>2. todo \in SUBSET Packages
  BY <1>1
<1>3. blockers \in SUBSET Codes
  BY <1>1 DEF Codes
<1>4. a = [id |-> id, manifests |-> ms, at |-> None, phase |-> "artifact", todo |-> todo,
           requests |-> 0, bytes |-> 0, entries |-> 0, scanned |-> 0,
           blockers |-> blockers, analyzed |-> {}, walked |-> {}]
  BY DEF Started
<1>5. ASSUME blockers = {}
      PROVE  InventoryBlockers[ms] = {} /\ Remote(ms) \subseteq todo
  <2>1. InventoryBlockers[ms] = {} /\ deep = {} /\ chosen = PackagesOf[ms]
    BY <1>5
  <2>2. \A p \in PackagesOf[ms] : Verifiable(p)
    BY <2>1, InventoryType
  <2>3. ASSUME NEW p \in Remote(ms) PROVE p \in todo
    <3>1. p \in PackagesOf[ms] /\ Kind[p] # "local"
      BY DEF Remote
    <3> QED BY <2>1, <2>2, <3>1
  <2> QED BY <2>1, <2>3
<1> HIDE DEF todo, blockers
<1>6. /\ a \in Analyses /\ a.id = id /\ a.manifests = ms /\ a.todo = todo
      /\ a.blockers = blockers /\ a.analyzed = {} /\ a.walked = {}
  BY <1>2, <1>3, <1>4 DEF Analyses
<1>7. Settled(a)
  BY <1>5, <1>6 DEF Settled, Whole
<1> QED BY <1>6, <1>7

-----------------------------------------------------------------------------
(* Each action keeps the invariant.                                        *)

\* The new audit's id is above that of every analysis in flight.
LEMMA ActivateAuditKeeps ==
    ASSUME IInv, NEW source \in Sources, ActivateAudit(source) PROVE IInv'
<1>1. /\ nextId \in Ids
      /\ nextId' = nextId + 1 /\ nextId' \in 1..(MaxAudits + 1)
      /\ MaxAudits \in Nat
  BY LimitsAssumption DEF IInv, TypeOK, ActivateAudit, Ids
<1>2. /\ audit' = [id |-> nextId, source |-> source, prepared |-> FALSE, graph |-> None]
      /\ call' = call
  BY DEF ActivateAudit
<1>3. audit' \in Audits /\ audit'.id = nextId /\ audit'.graph = None
  BY <1>1, <1>2 DEF Audits
<1>4. TypeOK'
  BY <1>1, <1>2, <1>3 DEF IInv, TypeOK
<1>5. ASSUME NEW c \in Calls, call[c] # None
      PROVE  Waiting(call[c]) /\ Owned(call[c])'
  <2>1. call[c] \in Analyses /\ Waiting(call[c]) /\ Owned(call[c])
    BY <1>5 DEF IInv, TypeOK
  <2>2. call[c].id < nextId /\ call[c].id \in Ids
    BY <2>1 DEF OwnedBy, Owned, Analyses
  <2>3. call[c].id # nextId /\ call[c].id < nextId + 1
    BY <1>1, <2>2 DEF Ids
  <2> QED BY <1>1, <1>2, <1>3, <2>1, <2>3 DEF OwnedBy, Owned
<1>6. nextId < nextId + 1
  BY <1>1 DEF Ids
<1> QED BY <1>1, <1>2, <1>3, <1>4, <1>5, <1>6 DEF IInv, Waiting, OwnedBy, Owned, GraphHonest

\* Without an audit, nothing is claimed of a graph.
LEMMA DeactivateAuditKeeps ==
    ASSUME IInv, DeactivateAudit PROVE IInv'
<1>1. audit' = None /\ call' = call /\ nextId' = nextId
  BY DEF DeactivateAudit
<1>2. TypeOK'
  BY <1>1 DEF IInv, TypeOK
<1>3. ASSUME NEW c \in Calls, call[c] # None
      PROVE  Waiting(call[c]) /\ Owned(call[c])'
  BY <1>1, <1>3 DEF IInv, OwnedBy, Owned
<1> QED BY <1>1, <1>2, <1>3 DEF IInv, Waiting, OwnedBy, Owned, GraphHonest

\* The semantic plan leaves the graph alone.
LEMMA PrepareSemanticPlanKeeps ==
    ASSUME IInv, PrepareSemanticPlan PROVE IInv'
<1>1. /\ audit # None /\ audit' = [audit EXCEPT !.prepared = TRUE]
      /\ call' = call /\ nextId' = nextId
  BY DEF PrepareSemanticPlan
<1>2. audit \in Audits
  BY <1>1 DEF IInv, TypeOK
<1>3. /\ audit' \in Audits
      /\ audit'.id = audit.id /\ audit'.source = audit.source /\ audit'.graph = audit.graph
  BY <1>1, <1>2 DEF Audits
<1>4. TypeOK'
  BY <1>1, <1>3 DEF IInv, TypeOK
<1>5. ASSUME NEW c \in Calls, call[c] # None
      PROVE  Waiting(call[c]) /\ Owned(call[c])'
  BY <1>1, <1>3, <1>5 DEF IInv, OwnedBy, Owned
<1> QED BY <1>1, <1>3, <1>4, <1>5 DEF IInv, Waiting, OwnedBy, Owned, GraphHonest

\* An inventory is of the audit's own lockfiles and claims no artifact.
LEMMA InventoryDependenciesKeeps ==
    ASSUME IInv, NEW ms \in SUBSET Manifests, InventoryDependencies(ms) PROVE IInv'
<1>1. /\ audit # None /\ \A m \in ms : SourceOf[m] = audit.source
      /\ call' = call /\ nextId' = nextId
  BY DEF InventoryDependencies, Bound
<1>2. audit \in Audits /\ audit.id \in Ids
  BY <1>1 DEF IInv, TypeOK, Audits
<1> DEFINE started == Started(audit.id, ms, {})
           a == [started EXCEPT !.blockers = InventoryBlockers[ms]]
           g == GraphOf(a, FALSE)
<1>3. started \in Analyses /\ started.id = audit.id /\ started.manifests = ms
  <2>1. PICK none \in SUBSET PackagesOf[ms] : none = {}
    OBVIOUS
  <2>2. started = Started(audit.id, ms, none)
    BY <2>1
  <2> HIDE DEF started
  <2> QED BY <1>2, <2>2, StartedHonest
<1>4. InventoryBlockers[ms] \in SUBSET Codes
  BY InventoryType
<1>5. RecordSupplyChainGraph(a, FALSE)
  BY DEF InventoryDependencies
<1> HIDE DEF started
<1>6. /\ a \in Analyses /\ a.id = audit.id /\ a.manifests = ms
      /\ a.blockers = InventoryBlockers[ms]
  BY <1>3, <1>4 DEF Analyses
<1> HIDE DEF a
<1>7. g.fetched = FALSE /\ g.manifests = ms /\ g.blockers = InventoryBlockers[ms]
  <2>1. FALSE \in BOOLEAN /\ g = GraphOf(a, FALSE)
    OBVIOUS
  <2> HIDE DEF g
  <2> QED BY <1>6, <2>1, GraphOfType
<1> HIDE DEF g
<1>8. GraphHonest(audit.source, g)
  BY <1>1, <1>7 DEF GraphHonest
<1>9. /\ audit' \in Audits \cup {None}
      /\ audit' # None => audit # None /\ audit'.id = audit.id /\ audit'.source = audit.source
      /\ audit' # None /\ audit'.graph # None => GraphHonest(audit'.source, audit'.graph)
  BY <1>5, <1>6, <1>8, RecordKeeps DEF g
<1>10. TypeOK'
  BY <1>1, <1>9 DEF IInv, TypeOK
<1>11. ASSUME NEW c \in Calls, call[c] # None
       PROVE  Waiting(call[c]) /\ Owned(call[c])'
  BY <1>1, <1>9, <1>11 DEF IInv, OwnedBy, Owned
<1> QED BY <1>1, <1>9, <1>10, <1>11 DEF IInv, Waiting, OwnedBy, Owned, GraphHonest

\* An analysis that starts is of the audit's own lockfiles and forgets no package.
LEMMA AnalyzeDependenciesKeeps ==
    ASSUME IInv, NEW c \in Calls, NEW ms \in SUBSET Manifests, AnalyzeDependencies(c, ms)
    PROVE  IInv'
<1>1. /\ audit # None /\ \A m \in ms : SourceOf[m] = audit.source
      /\ nextId' = nextId
  BY DEF AnalyzeDependencies, Bound
<1>2. PICK chosen \in Slices[ms] :
        \E a \in Advanced(Started(audit.id, ms, chosen)) : Continues(c, a)
  BY Zenon DEF AnalyzeDependencies
<1>3. chosen \in SUBSET PackagesOf[ms]
  BY DEF Slices
<1>4. PICK a \in Advanced(Started(audit.id, ms, chosen)) : Continues(c, a)
  BY <1>2
<1>5. audit.id \in Ids /\ audit.id < nextId
  BY <1>1 DEF IInv, TypeOK, Audits
<1> DEFINE started == Started(audit.id, ms, chosen)
<1>6. /\ started \in Analyses /\ started.id = audit.id /\ started.manifests = ms
      /\ Settled(started)
  BY <1>3, <1>5, StartedHonest
<1>7. a \in Analyses /\ Same(started, a) /\ Ongoing(a)
  BY <1>4, <1>6, AdvancedHonest
<1> HIDE DEF started
<1>8. Owned(a)
  BY <1>1, <1>5, <1>6, <1>7 DEF OwnedBy, Owned, Same
<1> QED BY <1>1, <1>4, <1>7, <1>8, ContinuesKeeps

\* Whatever the answer, the analysis it reaches stays honest.
LEMMA AnswerArrivesKeeps ==
    ASSUME IInv, NEW c \in Calls, AnswerArrives(c) PROVE IInv'
<1>1. call[c] # None /\ nextId' = nextId
  BY DEF AnswerArrives
<1>2. PICK a \in Answered(call[c]) : Continues(c, a)
  BY DEF AnswerArrives
<1>3. call[c] \in Analyses /\ call[c].at # None /\ Waiting(call[c]) /\ Owned(call[c])
  BY <1>1 DEF IInv, TypeOK
<1>4. a \in Analyses /\ Same(call[c], a) /\ Ongoing(a)
  BY <1>3, AnsweredHonest
<1>5. Owned(a)
  BY <1>3, <1>4 DEF OwnedBy, Owned, Same
<1> QED BY <1>1, <1>2, <1>4, <1>5, ContinuesKeeps

\* The invariant holds of every state the session reaches.
THEOREM Invariance == Spec => []IInv
<1>1. Init => IInv
  <2> SUFFICES ASSUME Init PROVE IInv
    OBVIOUS
  <2>1. audit = None /\ call = [c \in Calls |-> None] /\ nextId = 1
    BY DEF Init
  <2>2. \A c \in Calls : call[c] = None
    BY <2>1
  <2> QED BY <2>1, <2>2, LimitsAssumption DEF IInv, TypeOK
<1>2. IInv /\ [Next]_vars => IInv'
  <2> SUFFICES ASSUME IInv, [Next]_vars PROVE IInv'
    OBVIOUS
  <2>1. ASSUME NEW source \in Sources, ActivateAudit(source) PROVE IInv'
    BY <2>1, ActivateAuditKeeps
  <2>2. CASE DeactivateAudit
    BY <2>2, DeactivateAuditKeeps
  <2>3. CASE PrepareSemanticPlan
    BY <2>3, PrepareSemanticPlanKeeps
  <2>4. ASSUME NEW ms \in SUBSET Manifests, InventoryDependencies(ms) PROVE IInv'
    BY <2>4, InventoryDependenciesKeeps
  <2>5. ASSUME NEW ms \in SUBSET Manifests, NEW c \in Calls, AnalyzeDependencies(c, ms)
        PROVE  IInv'
    BY <2>5, AnalyzeDependenciesKeeps
  <2>6. ASSUME NEW c \in Calls, AnswerArrives(c) PROVE IInv'
    BY <2>6, AnswerArrivesKeeps
  <2>7. CASE UNCHANGED vars
    BY <2>7 DEF vars, IInv, TypeOK, Waiting, OwnedBy, Owned, GraphHonest
  <2> QED BY <2>1, <2>2, <2>3, <2>4, <2>5, <2>6, <2>7, Zenon DEF Next
<1> QED BY <1>1, <1>2, PTL DEF Spec

\* The audit, its graph and the analyses in flight are always well formed, and every
\* analysis in flight waits for an answer.
THEOREM TypeCorrect == Spec => []TypeOK
<1>1. IInv => TypeOK
  BY DEF IInv
<1> QED BY <1>1, Invariance, PTL

\* A graph without a blocker is of the audit's own lockfiles, every requirement resolved;
\* when the artifacts were fetched, every package but the local ones was served with a
\* hash the lockfile declares and every archive in it opened, however deep.
THEOREM CompleteGraphIsWhole == Spec => []CompleteIsWhole
<1>1. IInv => CompleteIsWhole
  <2> SUFFICES ASSUME IInv, audit # None, audit.graph # None, audit.graph.blockers = {},
                      NEW p \in PackagesOf[audit.graph.manifests]
               PROVE  /\ SourceOf[ManifestOf[p]] = audit.source
                      /\ FormatOf[ManifestOf[p]] \in Resolving =>
                            Requires[p] \subseteq PackagesOf[audit.graph.manifests]
                      /\ audit.graph.fetched /\ Kind[p] # "local" =>
                        /\ p \in audit.graph.analyzed
                        /\ Reachable[ContentOf[p]] \cap Archives
                            \subseteq audit.graph.walked \ Unreadable
    BY Zenon DEF CompleteIsWhole
  <2> DEFINE g == audit.graph
  <2>1. g \in Graphs /\ GraphHonest(audit.source, g)
    BY DEF IInv, TypeOK, Audits
  <2> HIDE DEF g
  <2>2. g.manifests \in SUBSET Manifests /\ g.blockers = {}
    BY <2>1 DEF Graphs, g
  <2>3. /\ \A m \in g.manifests : SourceOf[m] = audit.source
        /\ InventoryBlockers[g.manifests] = {}
        /\ g.fetched => Whole(g.manifests, g.blockers, {}, g.analyzed, g.walked)
    BY <2>1, <2>2 DEF GraphHonest
  <2>4. /\ PackagesOf[g.manifests] = {q \in Packages : ManifestOf[q] \in g.manifests}
        /\ \A q \in PackagesOf[g.manifests] : ~Unresolved(q)
    BY <2>2, <2>3, InventoryType
  <2>5. p \in Packages /\ ManifestOf[p] \in g.manifests /\ p \in PackagesOf[g.manifests]
        /\ ~Unresolved(p)
    BY <2>4 DEF g
  <2>6. ASSUME FormatOf[ManifestOf[p]] \in Resolving
        PROVE  Requires[p] \subseteq PackagesOf[g.manifests]
    <3>1. Requires[p] \subseteq Packages
      BY <2>5, <2>6 DEF Unresolved
    <3>2. \A q \in Requires[p] \cap Packages : ManifestOf[q] = ManifestOf[p]
      BY <2>5, LockfilesAssumption
    <3> QED BY <2>4, <2>5, <3>1, <3>2
  <2>7. ASSUME g.fetched, Kind[p] # "local"
        PROVE  /\ p \in g.analyzed
               /\ Reachable[ContentOf[p]] \cap Archives \subseteq g.walked \ Unreadable
    <3>1. /\ Remote(g.manifests) \subseteq g.analyzed
          /\ \A q \in g.analyzed : /\ Levels[ContentOf[q]][MaxArchiveDepth + 1] = {}
                                   /\ Walked[ContentOf[q]] \subseteq g.walked
          /\ g.walked \cap Unreadable = {}
      BY <2>2, <2>3, <2>7 DEF Whole
    <3>2. p \in g.analyzed
      BY <2>5, <2>7, <3>1 DEF Remote
    <3>3. ContentOf[p] \in Payloads
      BY <2>5, PayloadsAssumption
    <3>4. Reachable[ContentOf[p]] \cap Archives \subseteq Walked[ContentOf[p]]
      BY <3>1, <3>2, <3>3, WalkedToBottom
    <3> QED BY <3>1, <3>2, <3>4
  <2> QED BY <2>3, <2>5, <2>6, <2>7 DEF g
<1> QED BY <1>1, Invariance, PTL

=============================================================================
