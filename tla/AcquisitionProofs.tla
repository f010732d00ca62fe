------------------------- MODULE AcquisitionProofs --------------------------
(***************************************************************************)
(* API-direct acquisition: proofs, for any commit, any listings and        *)
(* fetches of it and any caps.  One invariant of each ledger (what of the  *)
(* tree is listed or still marked as missing, what the index holds of it,  *)
(* what is decoded) gives what it means that the ledger is complete.       *)
(* That decoding is whole is a fact of Decoding's recursion: what a walk   *)
(* through the payloads has reached, or which budget or blocker stopped it.*)
(***************************************************************************)
EXTENDS Acquisition, FiniteSetTheorems, WellFoundedInduction, TLAPS

-----------------------------------------------------------------------------
(* The index and the plugins.                                              *)

\* An index before any listing.
LEMMA EmptyIndexType == EmptyIndex \in Indexes
  BY DEF EmptyIndex, Indexes, NoFiles, Facts

\* A listing makes pending files; those already known stay.
LEMMA EnumerationType ==
    ASSUME NEW ix \in Indexes, NEW entries, NEW complete \in BOOLEAN, NEW truncated \in BOOLEAN,
           \A p \in Paths : p \in DOMAIN entries => entries[p] \in Files
    PROVE  RecordIndexEnumeration(ix, entries, complete, truncated) \in Indexes
  BY DEF Indexes, RecordIndexEnumeration

\* The facts of a reading are about its path and bytes.
LEMMA FactsOfType ==
    ASSUME NEW p \in Paths, NEW r \in Readings
    PROVE  FactsOf(p, r) \subseteq Facts
  BY DEF FactsOf, Text, Facts, Readings

\* Whatever a reading is, the status it gives is one of a file.
LEMMA StatusOfType ==
    ASSUME NEW r PROVE StatusOf(r) \in FileStatuses
  BY DEF StatusOf, FileStatuses, CompleteFile

\* A reading that is recorded leaves an index; one that is cut leaves an incomplete one.
LEMMA IndexedFileType ==
    ASSUME NEW ix \in Indexes, NEW p \in Paths, ix.file[p] # None, NEW r \in Readings
    PROVE  /\ RecordIndexedFile(ix, p, r) \in Indexes
           /\ ~r.whole => ~IndexComplete(RecordIndexedFile(ix, p, r))
<1>1. ix.file[p] \in Files
  BY DEF Indexes
<1> DEFINE new == FactsOf(p, r) \ ix.facts
           capped == new # {} /\ Cardinality(ix.facts) >= MaxFacts
           status == IF capped THEN "index-overflow" ELSE StatusOf(r)
           file == [status |-> status, content |-> r.hash,
                    blob |-> ix.file[p].blob, size |-> r.size]
           changed == [ix EXCEPT
                        !.file[p] = file,
                        !.facts = IF capped THEN @ ELSE @ \cup new,
                        !.overflowed = @ \/ (r.whole /\ r.hash \in Dense),
                        !.full = @ \/ capped]
<1>2. status \in FileStatuses
  BY StatusOfType DEF FileStatuses
<1>3. ~r.whole => status \notin CompleteFile
  BY DEF StatusOf, CompleteFile
<1>4. new \in SUBSET Facts
  BY FactsOfType
<1>5. \/ RecordIndexedFile(ix, p, r) = changed
      \/ /\ RecordIndexedFile(ix, p, r) = ix
         /\ ix.file[p].status = StatusOf(r) /\ ix.file[p].status \in CompleteFile
  BY DEF RecordIndexedFile
<1> HIDE DEF new, status
<1>6. file \in Files /\ file.status = status
  BY <1>1, <1>2 DEF Files, Readings
<1> HIDE DEF file
<1>7. capped \in BOOLEAN /\ r.whole \in BOOLEAN
  BY DEF Readings
<1> HIDE DEF capped
<1>8. changed \in Indexes /\ changed.file[p] = file
  BY <1>4, <1>6, <1>7 DEF Indexes
<1> HIDE DEF changed
<1>9. ~r.whole => ~IndexComplete(changed)
  BY <1>3, <1>6, <1>8, NoneAssumption DEF IndexComplete, Known
<1>10. ~r.whole => StatusOf(r) \notin CompleteFile
  BY DEF StatusOf, CompleteFile
<1> QED BY <1>5, <1>8, <1>9, <1>10

\* What recording changes: one file, whose identity stays, and the facts found in it
\* are added when it counts.
RecordedIn(ix, p, r, after) ==
    /\ after.enumerated = ix.enumerated /\ ix.facts \subseteq after.facts
    /\ \A x \in Paths \ {p} : after.file[x] = ix.file[x]
    /\ after.file[p] # None /\ after.file[p].blob = ix.file[p].blob
    /\ after.file[p].status \in CompleteFile =>
         /\ r.whole /\ r.hash # None /\ after.file[p].content = r.hash
         /\ FactsOf(p, r) \subseteq after.facts

\* What RecordIndexedFile leaves, part by part: the index as it was, or with that file recorded.
LEMMA IndexedFileParts ==
    ASSUME NEW ix \in Indexes, NEW p \in Paths, ix.file[p] # None, NEW r \in Readings,
           NEW after, after = RecordIndexedFile(ix, p, r)
    PROVE  after = ix \/ RecordedIn(ix, p, r, after)
<1>1. ix.file[p] \in Files
  BY DEF Indexes
<1> DEFINE new == FactsOf(p, r) \ ix.facts
           capped == new # {} /\ Cardinality(ix.facts) >= MaxFacts
           status == IF capped THEN "index-overflow" ELSE StatusOf(r)
           file == [status |-> status, content |-> r.hash,
                    blob |-> ix.file[p].blob, size |-> r.size]
           changed == [ix EXCEPT
                        !.file[p] = file,
                        !.facts = IF capped THEN @ ELSE @ \cup new,
                        !.overflowed = @ \/ (r.whole /\ r.hash \in Dense),
                        !.full = @ \/ capped]
<1>2. after = ix \/ after = changed
  BY DEF RecordIndexedFile
<1>3. status \in CompleteFile => r.whole /\ r.hash # None /\ ~capped
  BY DEF StatusOf, CompleteFile
<1>4. status \in FileStatuses
  BY StatusOfType DEF FileStatuses
<1>5. FactsOf(p, r) \subseteq ix.facts \cup new
  OBVIOUS
<1> HIDE DEF new, status
<1>6. file \in Files /\ file.status = status /\ file.content = r.hash
      /\ file.blob = ix.file[p].blob
  BY <1>1, <1>4 DEF Files, Readings
<1> HIDE DEF file, capped
<1>7. /\ changed.enumerated = ix.enumerated
      /\ changed.facts = (IF capped THEN ix.facts ELSE ix.facts \cup new)
      /\ \A x \in Paths : changed.file[x] = IF x = p THEN file ELSE ix.file[x]
  BY DEF Indexes
<1> HIDE DEF changed
<1>8. file # None
  BY <1>6, NoneAssumption
<1>9. RecordedIn(ix, p, r, changed)
  BY <1>3, <1>5, <1>6, <1>7, <1>8 DEF RecordedIn
<1> QED BY <1>2, <1>9

\* The fingerprint of an index.
LEMMA FingerprintType ==
    ASSUME NEW ix \in Indexes PROVE Fingerprint(ix) \in Fingerprints
  BY DEF Fingerprint, Fingerprints, Indexes

\* A run, or none yet.
LEMMA PluginsType ==
    ASSUME NEW ix \in Indexes, NEW run \in PluginRuns \cup {None}
    PROVE  RunAnalysisPlugins(ix, run) \in PluginRuns \cup {None}
<1> DEFINE fresh == [of |-> Fingerprint(ix),
                     complete |-> \A p \in Known(ix) : ix.file[p].content \notin Breaking]
<1>1. fresh \in PluginRuns
  BY FingerprintType DEF PluginRuns
<1>2. run # None => [run EXCEPT !.complete = FALSE] \in PluginRuns
  BY DEF PluginRuns
<1> QED BY <1>1, <1>2 DEF RunAnalysisPlugins

-----------------------------------------------------------------------------
(* Induction.                                                              *)

\* Induction, in the form the provers can use: a set of numbers has a least one.
LEMMA Least ==
    ASSUME NEW T \in SUBSET Nat, T # {}
    PROVE  \E n \in T : \A m \in T : n <= m
<1> DEFINE R == {p \in Nat \X Nat : p[1] < p[2]}
<1>1. R = OpToRel(<, Nat)
  BY Zenon DEF OpToRel
<1> HIDE DEF R
<1>2. IsWellFoundedOn(R, Nat)
  BY <1>1, NatLessThanWellFounded, Zenon
<1>3. PICK n \in T : \A m \in T : <<m, n>> \notin R
  BY <1>2, WFMin
<1>4. ASSUME NEW m \in T PROVE n <= m
  <2>1. /\ n \in Nat /\ m \in Nat
        /\ <<m, n>> \notin R
    BY <1>3, <1>4
  <2>2. <<m, n>> \in R <=> m < n
    BY <2>1 DEF R
  <2> QED BY <2>1, <2>2
<1> QED BY <1>4

\* Induction up to a number.
LEMMA UpTo ==
    ASSUME NEW N \in Nat, NEW P,
           0 \in P, \A n \in 1..N : n - 1 \in P => n \in P
    PROVE  \A n \in 0..N : n \in P
<1> DEFINE T == {n \in 0..N : n \notin P}
<1> SUFFICES ASSUME T # {} PROVE FALSE
  OBVIOUS
<1>1. T \in SUBSET Nat
  OBVIOUS
<1>2. PICK n \in T : \A m \in T : n <= m
  BY <1>1, Least
<1>3. n \in 1..N /\ n \notin P
  BY <1>2
<1>4. n - 1 \in 0..N /\ n - 1 \notin T
  BY <1>2, <1>3
<1> QED BY <1>3, <1>4

-----------------------------------------------------------------------------
(* Loops.                                                                  *)

\* A function on the first numbers is a sequence.
LEMMA IsSequence ==
    ASSUME NEW N \in Nat, NEW S, NEW seq \in [1..N -> S]
    PROVE  seq \in Seq(S) /\ Len(seq) = N
  OBVIOUS

\* What the functions G[1], ..., G[N] make of z, one after the other.
Iterates(f, N, S, z, G) ==
    /\ f \in [0..N -> S]
    /\ f[0] = z
    /\ \A n \in 1..N : f[n] = G[n][f[n - 1]]

\* There are such steps, as many as one likes.
LEMMA IteratesExist ==
    ASSUME NEW N \in Nat, NEW S, NEW z \in S, NEW G \in [1..N -> [S -> S]]
    PROVE  \E f : Iterates(f, N, S, z, G)
<1> DEFINE P == {n \in 0..N : \E f : Iterates(f, n, S, z, G)}
<1>1. 0 \in P
  <2> DEFINE only == [k \in 0..0 |-> z]
  <2>1. only \in [0..0 -> S] /\ only[0] = z /\ 1..0 = {}
    OBVIOUS
  <2>2. Iterates(only, 0, S, z, G)
    BY <2>1 DEF Iterates
  <2> QED BY <2>2
<1>2. ASSUME NEW n \in 1..N, n - 1 \in P PROVE n \in P
  <2>1. PICK before : Iterates(before, n - 1, S, z, G)
    BY <1>2
  <2>2. /\ before \in [0..(n - 1) -> S] /\ before[0] = z
        /\ \A k \in 1..(n - 1) : before[k] = G[k][before[k - 1]]
    BY <2>1 DEF Iterates
  <2>3. before[n - 1] \in S /\ G[n] \in [S -> S]
    BY <2>2
  <2>4. G[n][before[n - 1]] \in S
    BY <2>3
  <2> DEFINE after == [k \in 0..n |-> IF k = n THEN G[n][before[n - 1]] ELSE before[k]]
  <2>5. \A k \in 0..n : after[k] \in S
    BY <2>2, <2>4
  <2>6. after \in [0..n -> S] /\ after[0] = z
    BY <2>2, <2>5
  <2>7. ASSUME NEW k \in 1..n PROVE after[k] = G[k][after[k - 1]]
    <3>1. k - 1 \in 0..n /\ k \in 0..n /\ after[k - 1] = before[k - 1]
      OBVIOUS
    <3>2. CASE k = n
      BY <3>1, <3>2
    <3>3. CASE k # n
      BY <2>2, <3>1, <3>3
    <3> QED BY <3>2, <3>3
  <2> HIDE DEF after
  <2>8. Iterates(after, n, S, z, G)
    BY <2>6, <2>7 DEF Iterates
  <2> QED BY <2>8
<1>3. N \in P
  <2> HIDE DEF P
  <2>1. \A n \in 0..N : n \in P
    BY <1>1, <1>2, UpTo
  <2> QED BY <2>1
<1> QED BY <1>3

\* After is the last of them, and whatever each of the functions hands on from one
\* step to the next holds at the end.
LEMMA Loop ==
    ASSUME NEW N \in Nat, NEW S, NEW z \in S, NEW G \in [1..N -> [S -> S]],
           NEW P, z \in P[0],
           \A n \in 1..N : \A w \in S : w \in P[n - 1] => G[n][w] \in P[n]
    PROVE  After(z, G) \in S /\ After(z, G) \in P[N]
<1>1. Len(G) = N
  OBVIOUS
<1>2. PICK f : Iterates(f, N, S, z, G)
  BY IteratesExist
<1>3. /\ f \in [0..N -> S] /\ f[0] = z
      /\ \A n \in 1..N : f[n] = G[n][f[n - 1]]
  BY <1>2 DEF Iterates
<1> DEFINE chosen == CHOOSE F : F = [n \in 0..Len(G) |-> IF n = 0 THEN z ELSE G[n][F[n - 1]]]
<1>4. f = [n \in 0..Len(G) |-> IF n = 0 THEN z ELSE G[n][f[n - 1]]]
  <2>1. ASSUME NEW n \in 0..N PROVE f[n] = IF n = 0 THEN z ELSE G[n][f[n - 1]]
    BY <1>3
  <2>2. f = [n \in 0..N |-> f[n]]
    BY <1>3
  <2> QED BY <1>1, <2>1, <2>2
<1>5. chosen = [n \in 0..Len(G) |-> IF n = 0 THEN z ELSE G[n][chosen[n - 1]]]
  BY <1>4, Zenon
<1>6. After(z, G) = chosen[Len(G)]
  BY Zenon DEF After
<1> HIDE DEF chosen
<1>7. chosen[0] = z /\ \A n \in 1..N : chosen[n] = G[n][chosen[n - 1]]
  <2>1. 0 \in 0..N /\ \A n \in 1..N : n \in 0..N /\ n # 0
    OBVIOUS
  <2>2. chosen[0] = z
    BY <1>1, <1>5, <2>1
  <2>3. ASSUME NEW n \in 1..N PROVE chosen[n] = G[n][chosen[n - 1]]
    <3>1. n \in 0..N /\ n # 0
      BY <2>1
    <3> QED BY <1>1, <1>5, <3>1
  <2> QED BY <2>2, <2>3
<1> DEFINE Q == {n \in 0..N : chosen[n] \in S /\ chosen[n] \in P[n]}
<1>8. 0 \in Q
  BY <1>7
<1>9. ASSUME NEW n \in 1..N, n - 1 \in Q PROVE n \in Q
  <2>1. chosen[n - 1] \in S /\ chosen[n - 1] \in P[n - 1] /\ G[n] \in [S -> S]
    BY <1>9
  <2>2. G[n][chosen[n - 1]] \in S /\ G[n][chosen[n - 1]] \in P[n]
    BY <2>1
  <2> QED BY <1>7, <2>2
<1>10. N \in Q
  <2> HIDE DEF Q
  <2>1. \A n \in 0..N : n \in Q
    BY <1>8, <1>9, UpTo
  <2> QED BY <2>1
<1> QED BY <1>1, <1>6, <1>10

\* Kept has the elements it should.
LEMMA KeptElements ==
    ASSUME NEW T, NEW seq \in Seq(T), NEW S
    PROVE  Kept(seq, S) \in Seq(T) /\ ToSet(Kept(seq, S)) = ToSet(seq) \cap S
<1> DEFINE N == Len(seq)
           U == ToSet(seq)
           G == [n \in 1..N |-> [t \in Seq(U) |-> IF seq[n] \in S THEN Append(t, seq[n]) ELSE t]]
           P == [n \in 0..N |-> {t \in Seq(U) : ToSet(t) = {seq[i] : i \in 1..n} \cap S}]
<1>1. N \in Nat /\ DOMAIN seq = 1..N /\ U \subseteq T
  BY DEF ToSet
<1>2. \A n \in 1..N : seq[n] \in U
  BY <1>1 DEF ToSet
<1>3. U = {seq[i] : i \in 1..N}
  BY <1>1 DEF ToSet
<1>4. Kept(seq, S) = After(<<>>, G)
  BY <1>1 DEF Kept
<1> HIDE DEF N, U
<1>5. <<>> \in Seq(U)
  OBVIOUS
<1>6. G \in [1..N -> [Seq(U) -> Seq(U)]]
  BY <1>2
<1>7. <<>> \in P[0]
  <2>1. 0 \in 0..N /\ 1..0 = {}
    BY <1>1
  <2>2. ToSet(<<>>) = {}
    BY DEF ToSet
  <2> QED BY <1>5, <2>1, <2>2
<1>8. ASSUME NEW n \in 1..N, NEW t \in Seq(U), t \in P[n - 1]
      PROVE  G[n][t] \in P[n]
  <2>1. /\ n \in 0..N /\ n - 1 \in 0..N /\ seq[n] \in U
        /\ {seq[i] : i \in 1..n} = {seq[i] : i \in 1..(n - 1)} \cup {seq[n]}
    BY <1>1, <1>2
  <2>2. ToSet(t) = {seq[i] : i \in 1..(n - 1)} \cap S
    BY <1>8, <2>1
  <2>3. ToSet(Append(t, seq[n])) = ToSet(t) \cup {seq[n]} /\ Append(t, seq[n]) \in Seq(U)
    <3> DEFINE k == Append(t, seq[n])
    <3>1. /\ DOMAIN k = DOMAIN t \cup {Len(t) + 1} /\ k[Len(t) + 1] = seq[n] /\ k \in Seq(U)
          /\ \A i \in DOMAIN t : k[i] = t[i]
      BY <2>1
    <3> HIDE DEF k
    <3>2. ToSet(k) = ToSet(t) \cup {seq[n]}
      BY <3>1 DEF ToSet
    <3> QED BY <3>1, <3>2 DEF k
  <2>4. G[n][t] = IF seq[n] \in S THEN Append(t, seq[n]) ELSE t
    OBVIOUS
  <2>5. P[n] = {s \in Seq(U) : ToSet(s) = {seq[i] : i \in 1..n} \cap S}
    BY <2>1
  <2>6. CASE seq[n] \in S
    BY <2>1, <2>2, <2>3, <2>4, <2>5, <2>6
  <2>7. CASE seq[n] \notin S
    BY <2>1, <2>2, <2>4, <2>5, <2>7
  <2> QED BY <2>6, <2>7
<1>9. P[N] = {t \in Seq(U) : ToSet(t) = {seq[i] : i \in 1..N} \cap S}
  BY <1>1
<1> HIDE DEF G, P
<1>10. After(<<>>, G) \in Seq(U) /\ After(<<>>, G) \in P[N]
  BY <1>1, <1>5, <1>6, <1>7, <1>8, Loop
<1>11. ASSUME NEW t \in Seq(U) PROVE t \in Seq(T)
  <2>1. Len(t) \in Nat /\ t \in [1..Len(t) -> U]
    OBVIOUS
  <2>2. t \in [1..Len(t) -> T]
    BY <1>1, <2>1
  <2> QED BY <2>1, <2>2
<1>12. ToSet(After(<<>>, G)) = U \cap S
  <2> HIDE DEF N
  <2>1. After(<<>>, G) \in {t \in Seq(U) : ToSet(t) = {seq[i] : i \in 1..N} \cap S}
    BY <1>9, <1>10
  <2> QED BY <1>3, <2>1
<1> QED BY <1>4, <1>10, <1>11, <1>12 DEF U

-----------------------------------------------------------------------------
(* The repository.                                                         *)

\* What the code calls a repository is one of the assumed ones.
LEMMA RepositoryFacts ==
    ASSUME repo \in Repositories
    PROVE  /\ repo.above \in [Nodes -> SUBSET Trees] /\ repo.above[Root] = {}
           /\ \A n \in Nodes \ {Root} : Root \in repo.above[n]
           /\ \A n \in Nodes : n \notin repo.above[n]
           /\ \A n \in Nodes : \A t \in repo.above[n] : repo.above[t] \subseteq repo.above[n]
           /\ \A n \in Nodes : \A t, u \in repo.above[n] :
                t = u \/ t \in repo.above[u] \/ u \in repo.above[t]
           /\ repo.blob \in [Paths -> Contents]
           /\ repo.maxEntries \in Nat /\ repo.maxSubtrees \in Nat
<1>1. \A n \in Nodes : n \notin repo.above[n]
  <2>1. \A n \in Nodes \ {Root} : n \notin repo.above[n]
    BY RepositoryAssumption
  <2>2. Root \notin repo.above[Root]
    BY RepositoryAssumption
  <2> QED BY <2>1, <2>2
<1> QED BY <1>1, RepositoryAssumption

-----------------------------------------------------------------------------
(* Types.                                                                  *)

\* What a listing shows are nodes, and what is kept of it is part of it.
LEMMA ListingsType ==
    ASSUME repo \in Repositories, NEW t \in Trees, NEW listing \in Listings(t)
    PROVE  /\ listing.nodes \in SUBSET Nodes
           /\ listing.kind \in {"recursive", "direct", "cut"}
  BY DEF Listings, Inside, Children

\* What is kept of a listing is part of it.
LEMMA FittingType ==
    ASSUME NEW old, NEW new, NEW max, NEW kept \in Fitting(old, new, max)
    PROVE  kept \subseteq new
  BY DEF Fitting

\* No tree is listed yet.
LEMMA EnumerationIsOne ==
    ASSUME tree \in {None} \cup Enumerations
    PROVE  Enumeration \in Enumerations
<1>1. NewEnumeration \in Enumerations
  BY RepositoryAssumption DEF NewEnumeration, Enumerations
<1> QED BY <1>1 DEF Enumeration

\* Nodes are paths and trees, and never both.
LEMMA NodesApart == Paths \subseteq Nodes /\ Trees \subseteq Nodes /\ Root \in Trees
  BY RepositoryAssumption DEF Nodes

\* What a listing leaves of the enumeration.
LEMMA MergeType ==
    ASSUME repo \in Repositories, NEW st \in Enumerations, NEW t \in Trees,
           NEW listing \in Listings(t),
           NEW trees \in SUBSET (listing.nodes \cap Trees), NEW entries \in SUBSET listing.nodes
    PROVE  /\ Merge(st, t, listing, trees, entries) \in Enumerations
           /\ Merge(st, t, listing, trees, entries).entries = st.entries \cup entries
<1> DEFINE found == listing.nodes \cap Trees
           discovered == [st EXCEPT
              !.discovered = @ \cup trees,
              !.discoveryTruncated = @ \/ ~(found \subseteq st.discovered \cup trees)]
           childTrees == found \cap discovered.discovered
           resolved == IF listing.kind = "recursive" THEN MarkSubtreeComplete(discovered, t)
                       ELSE AddCoverageBlocker(SplitUnresolvedSubtree(discovered, t, childTrees),
                                               t, listing, childTrees)
<1>1. discovered \in Enumerations /\ discovered.entries = st.entries
  BY DEF Enumerations
<1> HIDE DEF discovered
<1>2. MarkSubtreeComplete(discovered, t) \in Enumerations
      /\ MarkSubtreeComplete(discovered, t).entries = discovered.entries
  BY <1>1 DEF MarkSubtreeComplete, Enumerations
<1>3. childTrees \in SUBSET Trees
  OBVIOUS
<1> HIDE DEF childTrees
<1> DEFINE split == SplitUnresolvedSubtree(discovered, t, childTrees)
<1>4. split \in Enumerations /\ split.entries = discovered.entries
  BY <1>1, <1>3 DEF SplitUnresolvedSubtree, Enumerations
<1> HIDE DEF split
<1>5. /\ AddCoverageBlocker(split, t, listing, childTrees) \in Enumerations
      /\ AddCoverageBlocker(split, t, listing, childTrees).entries = split.entries
  BY <1>4 DEF AddCoverageBlocker, Enumerations
<1>6. resolved \in Enumerations /\ resolved.entries = st.entries
  BY <1>1, <1>2, <1>4, <1>5 DEF split
<1>7. Merge(st, t, listing, trees, entries) =
        [resolved EXCEPT
            !.entries = @ \cup entries,
            !.stateTrackingTruncated = @ \/ ~(listing.nodes \subseteq st.entries \cup entries)]
  BY DEF Merge, discovered, childTrees
<1> HIDE DEF resolved
<1>8. listing.nodes \in SUBSET Nodes
  BY ListingsType
<1> QED BY <1>6, <1>7, <1>8 DEF Enumerations

\* A fetch changes the outcomes of its path alone.
LEMMA AttemptType ==
    ASSUME NEW cov \in Coverages, NEW p \in Paths, NEW scope, NEW outcome \in Outcomes
    PROVE  /\ RecordFetchAttempt(cov, p, scope, outcome) \in Coverages
           /\ RecordFetchAttempt(cov, p, scope, outcome).enumerated = cov.enumerated
           /\ \A x \in Paths :
                RecordFetchAttempt(cov, p, scope, outcome).mandatory[x] =
                    IF x = p /\ scope = "mandatory" THEN ChooseBetter(cov.mandatory[x], outcome)
                    ELSE cov.mandatory[x]
<1> DEFINE best == [cov.best EXCEPT ![p] = ChooseBetter(@, outcome)]
           mandatory == [cov.mandatory EXCEPT
                            ![p] = IF scope = "mandatory" THEN ChooseBetter(@, outcome) ELSE @]
<1>1. \A x \in Outcomes : ChooseBetter(x, outcome) \in Outcomes
  BY DEF ChooseBetter
<1>2. best \in [Paths -> Outcomes] /\ mandatory \in [Paths -> Outcomes]
  BY <1>1 DEF Coverages
<1>3. \A x \in Paths : mandatory[x] =
        IF x = p /\ scope = "mandatory" THEN ChooseBetter(cov.mandatory[x], outcome)
        ELSE cov.mandatory[x]
  BY DEF Coverages
<1>4. RecordFetchAttempt(cov, p, scope, outcome) =
        [cov EXCEPT !.best = best, !.mandatory = mandatory]
  BY DEF RecordFetchAttempt, Coverages
<1> HIDE DEF best, mandatory
<1> QED BY <1>2, <1>3, <1>4 DEF Coverages

\* Failures are counted to the cap.
LEMMA CappedType ==
    ASSUME NEW n \in 0..MaxFailures
    PROVE  Capped(n + 1, MaxFailures) \in 0..MaxFailures
  BY RepositoryAssumption DEF Capped

\* A listing that fails.
LEMMA EnumerationFailureType ==
    ASSUME NEW cov \in Coverages
    PROVE  /\ RecordEnumerationFailure(cov) \in Coverages
           /\ RecordEnumerationFailure(cov).enumerated = cov.enumerated
           /\ RecordEnumerationFailure(cov).mandatory = cov.mandatory
  BY CappedType DEF RecordEnumerationFailure, Coverages

\* A fetch that fails classifies nothing.
LEMMA FailureTypes ==
    ASSUME NEW cov \in Coverages, NEW p \in Paths, NEW scope
    PROVE  /\ RecordFetchFailure(cov, p, scope) \in Coverages
           /\ RecordFetchFailure(cov, p, scope).enumerated = cov.enumerated
           /\ \A x \in Paths : RecordFetchFailure(cov, p, scope).mandatory[x] \in Classified =>
                RecordFetchFailure(cov, p, scope).mandatory[x] = cov.mandatory[x]
<1> DEFINE counted == [cov EXCEPT !.fetchFailures = Capped(@ + 1, MaxFailures),
                                  !.fetchFailuresTruncated = @ \/ cov.fetchFailures = MaxFailures]
<1>1. /\ counted \in Coverages
      /\ counted.enumerated = cov.enumerated /\ counted.mandatory = cov.mandatory
  BY CappedType DEF Coverages
<1>2. RecordFetchFailure(cov, p, scope) = RecordFetchAttempt(counted, p, scope, "failure")
  BY DEF RecordFetchFailure
<1> HIDE DEF counted
<1>3. "failure" \in Outcomes
  BY DEF Outcomes, OutcomeRank
<1>4. \A x \in Outcomes : ChooseBetter(x, "failure") \in Classified =>
                            ChooseBetter(x, "failure") = x
  BY DEF ChooseBetter, Classified
<1>5. \A x \in Paths : counted.mandatory[x] \in Outcomes
  BY <1>1 DEF Coverages
<1> QED BY <1>1, <1>2, <1>3, <1>4, <1>5, AttemptType

\* An inventory of what is enumerated, with what was decoded.
LEMMA InventoryType ==
    ASSUME NEW st \in Enumerations, NEW cov, NEW decoded \in SUBSET Paths, NEW sound \in BOOLEAN
    PROVE  InventoryOf(st, cov, decoded, sound) \in Snapshots
<1> DEFINE objects == {p \in st.entries \cap Paths : Verified(cov, p)}
<1>1. objects \in SUBSET Paths
  OBVIOUS
<1>2. (EnumerationComplete(st) /\ objects = st.entries \cap Paths) \in BOOLEAN
  BY DEF EnumerationComplete
<1> QED BY <1>1, <1>2 DEF InventoryOf, Snapshots

\* A rebuilt inventory, or the old one when the new one is not valid.
LEMMA PersistInventoryType ==
    ASSUME assurance \in Assurances, NEW st \in Enumerations, NEW cov, NEW keeps \in BOOLEAN
    PROVE  PersistInventory(st, cov, keeps) \in Assurances
<1> DEFINE old == assurance.snapshot
           decoded == IF old = None THEN {} ELSE old.decoded
           sound == old = None \/ old.sound
           built == InventoryOf(st, cov, decoded, sound)
           fresh == InventoryOf(st, cov, {}, TRUE)
<1>1. old \in Snapshots \cup {None} /\ assurance.stage \in {"acquired", "inventoried", "decoded"}
  BY DEF Assurances
<1>2. decoded \in SUBSET Paths /\ sound \in BOOLEAN
  BY <1>1 DEF Snapshots
<1>3. built \in Snapshots /\ fresh \in Snapshots
  BY <1>2, InventoryType
<1>4. PersistInventory(st, cov, keeps) =
        IF assurance.stage = "decoded" \/ ~(decoded \subseteq built.objects) THEN assurance
        ELSE IF ~built.clear \/ assurance.stage = "inventoried"
        THEN [assurance EXCEPT !.snapshot = built]
        ELSE [stage |-> "inventoried", snapshot |-> IF keeps THEN built ELSE fresh]
  BY DEF PersistInventory
<1> HIDE DEF built, fresh, decoded
<1> QED BY <1>3, <1>4 DEF Assurances

\* What persistGitDerivedAnalysis leaves: the object is decoded, and it may have been
\* the last.
LEMMA DerivedCases ==
    ASSUME NEW a \in Assurances, NEW p \in Paths
    PROVE  LET b == [a EXCEPT !.snapshot.decoded = @ \cup {p},
                              !.snapshot.sound = @ /\ DerivedFrom(p).clean]
           IN  \/ PersistDerived(a, p) = a
               \/ /\ a.snapshot \in Snapshots /\ a.stage # "decoded" /\ p \in a.snapshot.objects
                  /\ \/ PersistDerived(a, p) = b
                     \/ /\ DerivedSnapshotCanAdvance(b, p)
                        /\ PersistDerived(a, p) = [b EXCEPT !.stage = "decoded"]
  BY DEF PersistDerived, Assurances

\* A decoded object leaves a container.
LEMMA PersistDerivedType ==
    ASSUME NEW a \in Assurances, NEW p \in Paths
    PROVE  PersistDerived(a, p) \in Assurances
<1> DEFINE b == [a EXCEPT !.snapshot.decoded = @ \cup {p},
                          !.snapshot.sound = @ /\ DerivedFrom(p).clean]
<1>1. a.snapshot \in Snapshots => b \in Assurances
  <2> SUFFICES ASSUME a.snapshot \in Snapshots PROVE b \in Assurances
    OBVIOUS
  <2>1. (a.snapshot.sound /\ DerivedFrom(p).clean) \in BOOLEAN
    OBVIOUS
  <2> DEFINE s == [a.snapshot EXCEPT !.decoded = @ \cup {p},
                                     !.sound = @ /\ DerivedFrom(p).clean]
  <2>2. s \in Snapshots
    BY <2>1 DEF Snapshots
  <2>3. b = [a EXCEPT !.snapshot = s]
    BY DEF Assurances, Snapshots
  <2> HIDE DEF s
  <2> QED BY <2>2, <2>3 DEF Assurances
<1> HIDE DEF b
<1>2. a.snapshot \in Snapshots => [b EXCEPT !.stage = "decoded"] \in Assurances
  BY <1>1 DEF Assurances
<1> QED BY <1>1, <1>2, DerivedCases DEF b

\* What maybeAdvanceAnalysisPrepared leaves when the index becomes ix.
LEMMA AdvanceType ==
    ASSUME TypeOK, NEW ix \in Indexes, Advance(ix)
    PROVE  /\ index' = ix
           /\ plugins' \in {None} \cup PluginRuns
           /\ stage' \in {"acquired", "prepared"}
           /\ stage' # stage => IndexComplete(ix)
<1>1. plugins' \in PluginRuns \cup {None}
  BY PluginsType DEF TypeOK, Advance
<1>2. stage' \in {stage, "prepared"} /\ (stage' # stage => IndexComplete(ix))
  BY DEF Advance, Prepared
<1> QED BY <1>1, <1>2 DEF Advance, TypeOK

\* The index as a listing leaves it.
Listed(st) ==
    RecordIndexEnumeration(index,
        [p \in st.entries \cap Paths |-> Pending(repo.blob[p], Size[repo.blob[p]])],
        EnumerationComplete(st), st.stateTrackingTruncated \/ st.discoveryTruncated)

\* Such an index is an index.
LEMMA ListedType ==
    ASSUME TypeOK, NEW st \in Enumerations
    PROVE  Listed(st) \in Indexes
<1> DEFINE entries == [p \in st.entries \cap Paths |->
                         Pending(repo.blob[p], Size[repo.blob[p]])]
<1>1. \A p \in Paths : p \in DOMAIN entries => entries[p] \in Files
  BY ContentsAssumption, RepositoryFacts DEF TypeOK, Pending, Files, FileStatuses
<1>2. EnumerationComplete(st) \in BOOLEAN
  BY DEF EnumerationComplete
<1>3. (st.stateTrackingTruncated \/ st.discoveryTruncated) \in BOOLEAN
  OBVIOUS
<1>4. index \in Indexes
  BY DEF TypeOK
<1> HIDE DEF entries
<1>5. RecordIndexEnumeration(index, entries, EnumerationComplete(st),
                             st.stateTrackingTruncated \/ st.discoveryTruncated) \in Indexes
  BY <1>1, <1>2, <1>3, <1>4, EnumerationType
<1> QED BY <1>5 DEF Listed, entries

\* The two kinds of listing: a tree that is complete is not asked for again.
LEMMA ListTreeCases ==
    ASSUME TypeOK, NEW t \in Trees, ListTree(t)
    PROVE  \E st \in Enumerations, nodes \in SUBSET Nodes :
             /\ PersistListing(st, nodes)
             /\ st.entries \subseteq Enumeration.entries \cup nodes
             /\ \/ st = Enumeration
                \/ \E listing \in Listings(t) :
                   \E trees \in SUBSET (listing.nodes \cap Trees) :
                   \E entries \in SUBSET listing.nodes :
                      st = Merge(Enumeration, t, listing, trees, entries)
<1>1. Enumeration \in Enumerations /\ repo \in Repositories
  BY EnumerationIsOne DEF TypeOK
<1>2. CASE PersistListing(Enumeration, {})
  BY <1>1, <1>2
<1>3. CASE \E listing \in Listings(t) :
           \E trees \in Fitting(Enumeration.discovered, listing.nodes \cap Trees,
                                repo.maxSubtrees) :
           \E entries \in Fitting(Enumeration.entries, listing.nodes, repo.maxEntries) :
              PersistListing(Merge(Enumeration, t, listing, trees, entries), listing.nodes)
  <2>1. PICK listing \in Listings(t) :
        \E trees \in Fitting(Enumeration.discovered, listing.nodes \cap Trees,
                             repo.maxSubtrees) :
        \E entries \in Fitting(Enumeration.entries, listing.nodes, repo.maxEntries) :
           PersistListing(Merge(Enumeration, t, listing, trees, entries), listing.nodes)
    BY <1>3
  <2>2. PICK trees \in Fitting(Enumeration.discovered, listing.nodes \cap Trees,
                               repo.maxSubtrees),
             entries \in Fitting(Enumeration.entries, listing.nodes, repo.maxEntries) :
           PersistListing(Merge(Enumeration, t, listing, trees, entries), listing.nodes)
    BY <2>1
  <2>3. trees \in SUBSET (listing.nodes \cap Trees) /\ entries \in SUBSET listing.nodes
    BY FittingType
  <2>4. listing.nodes \in SUBSET Nodes
    BY <1>1, ListingsType
  <2> DEFINE st == Merge(Enumeration, t, listing, trees, entries)
  <2>5. st \in Enumerations /\ st.entries = Enumeration.entries \cup entries
    BY <1>1, <2>3, MergeType
  <2>6. PersistListing(st, listing.nodes)
    BY <2>2
  <2>7. st = Merge(Enumeration, t, listing, trees, entries)
    OBVIOUS
  <2> HIDE DEF st
  <2>8. st.entries \subseteq Enumeration.entries \cup listing.nodes
    BY <2>3, <2>5
  <2> QED BY <2>3, <2>4, <2>5, <2>6, <2>7, <2>8
<1> QED BY <1>2, <1>3 DEF ListTree

\* The types after each handler.  A detour is one of those that are left.
LEMMA DetourType ==
    ASSUME TypeOK, NEW continues, Detour(continues)
    PROVE  detours' \in 0..MaxDetours
  BY RepositoryAssumption DEF TypeOK, Detour

\* safeListTreeHandler, on what its listing leaves of the enumeration.
LEMMA PersistListingTypes ==
    ASSUME TypeOK, NEW st \in Enumerations, NEW nodes \in SUBSET Nodes, PersistListing(st, nodes),
           detours' \in 0..MaxDetours
    PROVE  TypeOK'
<1>1. Listed(st) \in Indexes
  BY ListedType
<1>2. Advance(Listed(st))
  BY DEF PersistListing, Listed
<1>3. /\ index' \in Indexes
      /\ plugins' \in {None} \cup PluginRuns
      /\ stage' \in {"acquired", "prepared"}
  BY <1>1, <1>2, AdvanceType
<1> DEFINE cov == [coverage EXCEPT !.enumerated = @ \cup (nodes \cap Paths)]
<1>4. cov \in Coverages
  BY DEF TypeOK, Coverages
<1>5. /\ tree' = st /\ coverage' = cov /\ repo' = repo
      /\ assurance' = PersistInventory(st, cov, FALSE)
  BY DEF PersistListing
<1> HIDE DEF cov
<1>6. assurance' \in Assurances
  BY <1>5, PersistInventoryType DEF TypeOK
<1> QED BY <1>3, <1>4, <1>5, <1>6 DEF TypeOK

\* Whatever was listed.
LEMMA ListTreeTypes ==
    ASSUME TypeOK, NEW t \in Trees, ListTree(t) PROVE TypeOK'
<1>1. detours' \in 0..MaxDetours
  BY DetourType DEF ListTree
<1> QED BY <1>1, ListTreeCases, PersistListingTypes

\* What a fetch returns, and what the index is told of it.
LEMMA OutcomesType ==
    ASSUME NEW c \in Contents, NEW outcome \in OutcomesOf(c)
    PROVE  /\ outcome \in Outcomes
           /\ ReadingOf(c, outcome) \in Readings
           /\ ReadingOf(c, outcome).whole => ReadingOf(c, outcome).hash = c
<1>1. outcome \in Outcomes
  BY DEF OutcomesOf, Outcomes, OutcomeRank
<1>2. (outcome \in Classified) \in BOOLEAN
  BY DEF Classified
<1>3. outcome \in Classified => outcome # "oversized"
  BY DEF Classified
<1> QED BY <1>1, <1>2, <1>3, ContentsAssumption DEF ReadingOf, Readings

\* safeFetchFileHandler: what it writes, by whether the index took the file.
LEMMA FetchCases ==
    ASSUME TypeOK, NEW p \in Paths, NEW scope \in Scopes, NEW outcome \in Outcomes,
           Fetch(p, scope, outcome)
    PROVE  LET cov == RecordFetchAttempt(coverage, p, scope, outcome)
               reading == ReadingOf(repo.blob[p], outcome)
               inventory == PersistInventory(tree, cov, TRUE)
           IN  /\ tree \in Enumerations /\ tree' = tree /\ repo' = repo
               /\ outcome \in OutcomesOf(repo.blob[p])
               /\ coverage' = cov /\ cov \in Coverages
               /\ \/ index' = index /\ plugins' = plugins /\ stage' = stage
                  \/ /\ index.file[p] # None /\ Accepted(index.file[p], reading)
                     /\ Advance(RecordIndexedFile(index, p, reading))
               /\ inventory \in Assurances
               /\ assurance' \in {assurance, inventory, PersistDerived(inventory, p)}
               /\ detours' \in 0..MaxDetours
<1> DEFINE cov == RecordFetchAttempt(coverage, p, scope, outcome)
<1>1. tree \in Enumerations /\ tree' = tree /\ repo' = repo
  BY DEF Fetch, TypeOK
<1>2. cov \in Coverages
  BY AttemptType DEF TypeOK
<1>3. PersistInventory(tree, cov, TRUE) \in Assurances
  BY <1>1, PersistInventoryType DEF TypeOK
<1>4. detours' \in 0..MaxDetours
  BY DetourType DEF Fetch
<1> QED BY <1>1, <1>2, <1>3, <1>4 DEF Fetch, Accepted, SameIdentity

\* And whatever was fetched of it.
LEMMA FetchTypes ==
    ASSUME TypeOK, NEW p \in Paths, NEW scope \in Scopes, NEW outcome \in Outcomes,
           Fetch(p, scope, outcome)
    PROVE  TypeOK'
<1> DEFINE cov == RecordFetchAttempt(coverage, p, scope, outcome)
           reading == ReadingOf(repo.blob[p], outcome)
           inventory == PersistInventory(tree, cov, TRUE)
<1>1. /\ tree \in Enumerations /\ tree' = tree /\ repo' = repo
      /\ outcome \in OutcomesOf(repo.blob[p])
      /\ coverage' = cov /\ cov \in Coverages
      /\ \/ index' = index /\ plugins' = plugins /\ stage' = stage
         \/ /\ index.file[p] # None
            /\ Advance(RecordIndexedFile(index, p, reading))
      /\ inventory \in Assurances
      /\ assurance' \in {assurance, inventory, PersistDerived(inventory, p)}
      /\ detours' \in 0..MaxDetours
  BY FetchCases
<1>2. reading \in Readings
  BY <1>1, RepositoryFacts, OutcomesType DEF TypeOK
<1> HIDE DEF reading, cov, inventory
<1>3. index.file[p] # None => RecordIndexedFile(index, p, reading) \in Indexes
  BY <1>2, IndexedFileType DEF TypeOK
<1>4. /\ index' \in Indexes
      /\ plugins' \in {None} \cup PluginRuns
      /\ stage' \in {"acquired", "prepared"}
  BY <1>1, <1>3, AdvanceType DEF TypeOK
<1>5. assurance' \in Assurances
  BY <1>1, PersistDerivedType DEF TypeOK
<1> QED BY <1>1, <1>4, <1>5 DEF TypeOK

\* Before the acquisition.
LEMMA InitType == Init => TypeOK
<1> SUFFICES ASSUME Init PROVE TypeOK
  OBVIOUS
<1>1. 0 \in 0..MaxFailures /\ 0 \in 0..MaxDetours
  BY RepositoryAssumption
<1>2. "not_fetched" \in Outcomes
  BY DEF Outcomes, OutcomeRank
<1>3. coverage \in Coverages
  BY <1>1, <1>2 DEF Init, Coverages
<1>4. assurance \in Assurances
  BY DEF Init, Assurances
<1> QED BY <1>1, <1>3, <1>4, EmptyIndexType DEF Init, TypeOK

\* The steps, by the handler that takes them.
LEMMA Steps ==
    ASSUME Next
    PROVE  \/ \E t \in Trees : ListTree(t) \/ ListTreeFails(t)
           \/ \E p \in Paths, scope \in Scopes : FetchFails(p, scope)
           \/ \E p \in Paths, scope \in Scopes, outcome \in Outcomes : Fetch(p, scope, outcome)
  BY DEF Next

\* Every step keeps the types.
LEMMA NextTypes ==
    ASSUME TypeOK, [Next]_vars PROVE TypeOK'
<1>1. CASE UNCHANGED vars
  BY <1>1 DEF vars, TypeOK
<1>2. ASSUME NEW t \in Trees, ListTreeFails(t) PROVE TypeOK'
  BY <1>2, EnumerationFailureType DEF ListTreeFails, TypeOK
<1>3. ASSUME NEW p \in Paths, NEW scope \in Scopes, FetchFails(p, scope) PROVE TypeOK'
  BY <1>3, FailureTypes DEF FetchFails, TypeOK
<1> QED BY <1>1, <1>2, <1>3, Steps, ListTreeTypes, FetchTypes

\* The type invariant of the acquisition, for any commit: every ledger is of the nodes of
\* the pinned tree and no failure is counted past the cap.
THEOREM TypeCorrect == Spec => []TypeOK
<1>1. TypeOK /\ [Next]_vars => TypeOK'
  BY NextTypes
<1> QED BY <1>1, InitType, PTL DEF Spec

-----------------------------------------------------------------------------
(* The inductive invariant.                                                *)

Shortened(st) == st.stateTrackingTruncated \/ st.discoveryTruncated

\* A node that is not among the entries is in a directory that is marked as not
\* resolved or as blocked, and what a listing completed is among them.
EnumerationHonest(st) ==
    Shortened(st) \/
      /\ \A n \in Nodes \ {Root} :
           n \in st.entries \/ repo.above[n] \cap (st.unresolved \cup st.blockers) # {}
      /\ \A t \in st.completed : Inside(t) \subseteq st.entries

\* Every blob that is listed is to be fetched, and one that is classified is so by
\* what it is.
CoverageHonest ==
    /\ tree # None => tree.entries \cap Paths \subseteq coverage.enumerated
    /\ \A p \in Paths : coverage.mandatory[p] \in Classified =>
         coverage.mandatory[p] = (IF repo.blob[p] \in Binary THEN "binary" ELSE "full_text")

\* A file of the index is the blob of the tree, one that counts was read whole with its
\* facts, and an index that claims the whole tree has every file.
FileHonest(ix, p) ==
    LET c == repo.blob[p]
    IN  ix.file[p] # None =>
          /\ ix.file[p].blob = c
          /\ ix.file[p].status \in CompleteFile =>
               ix.file[p].content = c /\ FactsOf(p, ReadingOf(c, "full_text")) \subseteq ix.facts
IndexHonest(ix) ==
    /\ ix.enumerated => \A p \in Paths : ix.file[p] # None
    /\ \A p \in Paths : FileHonest(ix, p)

\* An inventory without a missing object has every blob, what is decoded is in it, and
\* was decoded without a blocker when it says so; decoded at last is all of it.
SnapshotHonest(snapshot) ==
    /\ snapshot.clear => snapshot.objects = Paths
    /\ snapshot.decoded \subseteq snapshot.objects
    /\ snapshot.sound => \A p \in snapshot.decoded : DerivedFrom(p).clean
AssuranceHonest(a) ==
    /\ a.snapshot # None => SnapshotHonest(a.snapshot)
    /\ a.stage # "acquired" => a.snapshot # None
    /\ a.stage = "decoded" => /\ a.snapshot.clear /\ a.snapshot.sound
                              /\ a.snapshot.objects \subseteq a.snapshot.decoded

IInv ==
    /\ TypeOK
    /\ tree # None => EnumerationHonest(tree)
    /\ CoverageHonest
    /\ IndexHonest(index)
    /\ AssuranceHonest(assurance)

-----------------------------------------------------------------------------
(* The enumeration.                                                        *)

\* A node below t is a child of t or below one.
LEMMA Nesting ==
    ASSUME repo \in Repositories, NEW t \in Trees, NEW n \in Inside(t)
    PROVE  \E c \in Children(t) : c = n \/ c \in repo.above[n]
<1> DEFINE above == repo.above
           S == {x \in Nodes : (x = n \/ x \in above[n]) /\ t \in above[x]}
           sizes == {Cardinality(above[x]) : x \in S}
<1>1. /\ above \in [Nodes -> SUBSET Trees]
      /\ \A x \in Nodes : x \notin above[x]
      /\ \A x \in Nodes : \A u \in above[x] : above[u] \subseteq above[x]
      /\ \A x \in Nodes : \A v, u \in above[x] : v = u \/ v \in above[u] \/ u \in above[v]
      /\ Trees \subseteq Nodes
  BY RepositoryFacts, NodesApart
<1>2. n \in S /\ n \in Nodes
  BY DEF Inside
<1>3. \A x \in Nodes : IsFiniteSet(above[x]) /\ Cardinality(above[x]) \in Nat
  BY <1>1, RepositoryAssumption, FS_Subset, FS_CardinalityType
<1>4. sizes \in SUBSET Nat /\ sizes # {}
  BY <1>2, <1>3
<1>5. PICK k \in sizes : \A m \in sizes : k <= m
  BY <1>4, Least
<1>6. PICK c \in S : k = Cardinality(above[c])
  BY <1>5
<1>7. c \in Nodes /\ t \in above[c] /\ (c = n \/ c \in above[n]) /\ above[c] \subseteq above[n]
  BY <1>1, <1>2, <1>6
<1>8. ASSUME NEW u \in above[c], t \in above[u] PROVE FALSE
  <2>1. u \in Nodes /\ u \in S
    BY <1>1, <1>7, <1>8
  <2>2. above[u] \subseteq above[c] /\ u \notin above[u]
    BY <1>1, <1>7, <2>1
  <2>3. IsFiniteSet(above[c])
    BY <1>3, <1>7
  <2>4. above[u] \in SUBSET above[c] /\ above[u] # above[c]
    BY <2>2
  <2>5. /\ Cardinality(above[u]) <= Cardinality(above[c])
        /\ Cardinality(above[u]) # Cardinality(above[c])
    BY <2>3, <2>4, FS_Subset, Zenon
  <2>6. Cardinality(above[c]) <= Cardinality(above[u])
    BY <1>5, <1>6, <2>1
  <2> QED BY <1>3, <1>7, <2>1, <2>5, <2>6
<1>9. above[c] = above[t] \cup {t}
  <2>1. \A u \in above[c] : u = t \/ u \in above[t]
    BY <1>1, <1>7, <1>8
  <2>2. above[t] \subseteq above[c]
    BY <1>1, <1>7
  <2> QED BY <1>7, <2>1, <2>2
<1> QED BY <1>7, <1>9 DEF Children

\* The marks of an enumeration st, now new, after a listing, whole or not.
Marks(st, t, listing, trees, entries, new) ==
    LET known == st.discovered \cup trees
        childTrees == listing.nodes \cap Trees \cap known
    IN  /\ new.entries = st.entries \cup entries
        /\ ~Shortened(new) => /\ ~Shortened(st)
                              /\ listing.nodes \subseteq new.entries
                              /\ listing.nodes \cap Trees \subseteq known
        /\ listing.kind = "recursive" =>
             /\ new.completed = st.completed \cup {t}
             /\ new.unresolved = st.unresolved \ (Inside(t) \cup {t})
             /\ new.blockers = st.blockers \ (Inside(t) \cup {t})
        /\ listing.kind # "recursive" =>
             /\ new.completed = st.completed
             /\ new.unresolved = (st.unresolved \ {t}) \cup (childTrees \ st.completed)
             /\ st.blockers \subseteq new.blockers
             /\ listing.kind = "cut" \/ childTrees = {} => t \in new.blockers

\* Those marks are what the merge makes.
LEMMA MergeParts ==
    ASSUME repo \in Repositories, NEW st \in Enumerations, NEW t \in Trees,
           NEW listing \in Listings(t),
           NEW trees \in SUBSET (listing.nodes \cap Trees), NEW entries \in SUBSET listing.nodes
    PROVE  Marks(st, t, listing, trees, entries, Merge(st, t, listing, trees, entries))
<1> DEFINE found == listing.nodes \cap Trees
           discovered == [st EXCEPT
              !.discovered = @ \cup trees,
              !.discoveryTruncated = @ \/ ~(found \subseteq st.discovered \cup trees)]
           childTrees == found \cap discovered.discovered
           marked == MarkSubtreeComplete(discovered, t)
           split == SplitUnresolvedSubtree(discovered, t, childTrees)
           blocked == AddCoverageBlocker(split, t, listing, childTrees)
           resolved == IF listing.kind = "recursive" THEN marked ELSE blocked
<1>1. /\ discovered \in Enumerations
      /\ discovered.discovered = st.discovered \cup trees
      /\ discovered.entries = st.entries /\ discovered.completed = st.completed
      /\ discovered.unresolved = st.unresolved /\ discovered.blockers = st.blockers
      /\ discovered.stateTrackingTruncated = st.stateTrackingTruncated
      /\ discovered.discoveryTruncated =
            (st.discoveryTruncated \/ ~(found \subseteq st.discovered \cup trees))
  BY DEF Enumerations
<1>2. childTrees \in SUBSET Trees
  OBVIOUS
<1> HIDE DEF discovered, childTrees
<1>3. /\ marked \in Enumerations /\ marked.entries = discovered.entries
      /\ marked.stateTrackingTruncated = discovered.stateTrackingTruncated
      /\ marked.discoveryTruncated = discovered.discoveryTruncated
      /\ marked.completed = discovered.completed \cup {t}
      /\ marked.unresolved = discovered.unresolved \ (Inside(t) \cup {t})
      /\ marked.blockers = discovered.blockers \ (Inside(t) \cup {t})
  BY <1>1 DEF MarkSubtreeComplete, Enumerations
<1>4. /\ split \in Enumerations /\ split.entries = discovered.entries
      /\ split.stateTrackingTruncated = discovered.stateTrackingTruncated
      /\ split.discoveryTruncated = discovered.discoveryTruncated
      /\ split.completed = discovered.completed /\ split.blockers = discovered.blockers
      /\ split.unresolved = (discovered.unresolved \ {t}) \cup (childTrees \ discovered.completed)
  BY <1>1, <1>2 DEF SplitUnresolvedSubtree, Enumerations
<1> HIDE DEF marked, split
<1>5. /\ blocked \in Enumerations /\ blocked.entries = split.entries
      /\ blocked.stateTrackingTruncated = split.stateTrackingTruncated
      /\ blocked.discoveryTruncated = split.discoveryTruncated
      /\ blocked.completed = split.completed /\ blocked.unresolved = split.unresolved
      /\ split.blockers \subseteq blocked.blockers
      /\ listing.kind = "cut" \/ childTrees = {} => t \in blocked.blockers
  BY <1>4 DEF AddCoverageBlocker, Enumerations
<1> HIDE DEF blocked
<1>6. /\ resolved \in Enumerations /\ resolved.entries = st.entries
      /\ resolved.stateTrackingTruncated = st.stateTrackingTruncated
      /\ resolved.discoveryTruncated =
            (st.discoveryTruncated \/ ~(found \subseteq st.discovered \cup trees))
  BY <1>1, <1>3, <1>4, <1>5
<1> DEFINE new == Merge(st, t, listing, trees, entries)
<1>7. new = [resolved EXCEPT
                !.entries = @ \cup entries,
                !.stateTrackingTruncated =
                    @ \/ ~(listing.nodes \subseteq st.entries \cup entries)]
  BY DEF Merge, discovered, childTrees, marked, split, blocked
<1>8. childTrees = listing.nodes \cap Trees \cap (st.discovered \cup trees)
  BY <1>1 DEF childTrees
<1> HIDE DEF resolved, new
<1>9. /\ new.entries = st.entries \cup entries
      /\ new.stateTrackingTruncated =
            (st.stateTrackingTruncated \/ ~(listing.nodes \subseteq st.entries \cup entries))
      /\ new.discoveryTruncated = resolved.discoveryTruncated
      /\ new.completed = resolved.completed /\ new.unresolved = resolved.unresolved
      /\ new.blockers = resolved.blockers
  BY <1>6, <1>7 DEF Enumerations
<1>10. ~Shortened(new) => /\ ~Shortened(st)
                          /\ listing.nodes \subseteq new.entries
                          /\ found \subseteq st.discovered \cup trees
  BY <1>6, <1>9 DEF Shortened
<1> HIDE DEF found
<1>11. resolved = IF listing.kind = "recursive" THEN marked ELSE blocked
  BY DEF resolved
<1>12. Marks(st, t, listing, trees, entries, new)
  BY <1>1, <1>3, <1>4, <1>5, <1>8, <1>9, <1>10, <1>11 DEF found, Marks
<1> QED BY <1>12 DEF new

\* A listing leaves no node out that is not still marked as missing.
LEMMA MergeHonest ==
    ASSUME repo \in Repositories, NEW st \in Enumerations, NEW t \in Trees,
           NEW listing \in Listings(t),
           NEW trees \in SUBSET (listing.nodes \cap Trees), NEW entries \in SUBSET listing.nodes,
           EnumerationHonest(st)
    PROVE  EnumerationHonest(Merge(st, t, listing, trees, entries))
<1> DEFINE new == Merge(st, t, listing, trees, entries)
           known == st.discovered \cup trees
           childTrees == listing.nodes \cap Trees \cap known
           Accounted(s, n) ==
              n \in s.entries \/ repo.above[n] \cap (s.unresolved \cup s.blockers) # {}
<1>0. Marks(st, t, listing, trees, entries, new)
  BY MergeParts
<1> HIDE DEF new
<1>1. /\ new.entries = st.entries \cup entries
      /\ ~Shortened(new) => /\ ~Shortened(st)
                            /\ listing.nodes \subseteq new.entries
                            /\ listing.nodes \cap Trees \subseteq known
      /\ listing.kind = "recursive" =>
           /\ new.completed = st.completed \cup {t}
           /\ new.unresolved = st.unresolved \ (Inside(t) \cup {t})
           /\ new.blockers = st.blockers \ (Inside(t) \cup {t})
      /\ listing.kind # "recursive" =>
           /\ new.completed = st.completed
           /\ new.unresolved = (st.unresolved \ {t}) \cup (childTrees \ st.completed)
           /\ st.blockers \subseteq new.blockers
           /\ listing.kind = "cut" \/ childTrees = {} => t \in new.blockers
  BY <1>0 DEF Marks
<1> SUFFICES ASSUME ~Shortened(new)
             PROVE  /\ \A n \in Nodes \ {Root} : Accounted(new, n)
                    /\ \A c \in new.completed : Inside(c) \subseteq new.entries
  BY DEF EnumerationHonest, new
<1>2. /\ \A n \in Nodes \ {Root} : Accounted(st, n)
      /\ \A c \in st.completed : Inside(c) \subseteq st.entries
  BY <1>1 DEF EnumerationHonest
<1>3. /\ repo.above \in [Nodes -> SUBSET Trees]
      /\ \A n \in Nodes : \A u \in repo.above[n] : repo.above[u] \subseteq repo.above[n]
      /\ Trees \subseteq Nodes
  BY RepositoryFacts, NodesApart
<1>4. CASE listing.kind = "recursive"
  <2>1. listing.nodes = Inside(t)
    BY <1>4 DEF Listings
  <2>2. ASSUME NEW n \in Nodes \ {Root} PROVE Accounted(new, n)
    <3>1. CASE n \in Inside(t)
      BY <1>1, <2>1, <3>1
    <3>2. CASE n \in st.entries
      BY <1>1, <3>2
    <3>3. CASE n \notin Inside(t) /\ n \notin st.entries
      <4>1. PICK u \in repo.above[n] : u \in st.unresolved \cup st.blockers
        BY <1>2, <2>2, <3>3
      <4>2. u \in Nodes /\ repo.above[u] \subseteq repo.above[n]
        BY <1>3, <2>2, <4>1
      <4>3. u \notin Inside(t) /\ u # t
        BY <3>3, <4>1, <4>2 DEF Inside
      <4> QED BY <1>1, <1>4, <4>1, <4>3
    <3> QED BY <3>1, <3>2, <3>3
  <2> QED BY <1>1, <1>2, <1>4, <2>1, <2>2
<1>5. CASE listing.kind # "recursive"
  <2>1. listing.kind = "cut" \/ listing.nodes = Children(t)
    BY <1>5 DEF Listings
  <2>2. ASSUME NEW n \in Nodes \ {Root} PROVE Accounted(new, n)
    <3>1. CASE n \in st.entries
      BY <1>1, <3>1
    <3>2. CASE \E u \in repo.above[n] \ {t} : u \in st.unresolved \cup st.blockers
      BY <1>1, <1>5, <3>2
    <3>3. CASE t \in repo.above[n] /\ (listing.kind = "cut" \/ childTrees = {})
      BY <1>1, <1>5, <3>3
    <3>4. CASE t \in repo.above[n] /\ listing.nodes = Children(t)
      <4>1. n \in Inside(t)
        BY <2>2, <3>4 DEF Inside
      <4>2. PICK c \in Children(t) : c = n \/ c \in repo.above[n]
        BY <4>1, Nesting
      <4>3. c \in new.entries
        BY <1>1, <3>4, <4>2
      <4>4. CASE c = n
        BY <4>3, <4>4
      <4>5. CASE c \in repo.above[n]
        <5>1. c \in Trees /\ c \in childTrees
          BY <1>1, <1>3, <2>2, <3>4, <4>2, <4>5
        <5>2. CASE c \in st.completed
          <6>1. n \in Inside(c)
            BY <2>2, <4>5 DEF Inside
          <6> QED BY <1>1, <1>2, <5>2, <6>1
        <5>3. CASE c \notin st.completed
          BY <1>1, <1>5, <4>5, <5>1, <5>3
        <5> QED BY <5>2, <5>3
      <4> QED BY <4>2, <4>4, <4>5
    <3>5. CASE n \notin st.entries /\ t \notin repo.above[n]
      BY <1>2, <2>2, <3>2, <3>5
    <3> QED BY <1>2, <2>1, <2>2, <3>1, <3>2, <3>3, <3>4, <3>5
  <2> QED BY <1>1, <1>2, <1>5, <2>2
<1> QED BY <1>4, <1>5

\* An enumeration that is complete has every blob.
LEMMA CompleteHasAll ==
    ASSUME repo \in Repositories, NEW st, EnumerationHonest(st), EnumerationComplete(st)
    PROVE  Paths \subseteq st.entries
<1>1. \A n \in Nodes \ {Root} : n \in st.entries
  BY DEF EnumerationHonest, EnumerationComplete, Shortened
<1>2. Paths \subseteq Nodes \ {Root}
  BY RepositoryAssumption DEF Nodes
<1> QED BY <1>1, <1>2

\* So it was before the first listing: the root is marked.
LEMMA NewEnumerationHonest ==
    ASSUME repo \in Repositories PROVE EnumerationHonest(NewEnumeration)
<1>1. \A n \in Nodes \ {Root} : Root \in repo.above[n]
  BY RepositoryFacts
<1> QED BY <1>1 DEF EnumerationHonest, NewEnumeration

-----------------------------------------------------------------------------
(* The index.                                                              *)

\* A listing adds files that are pending, and all of them when it is complete.
LEMMA ListedHonest ==
    ASSUME TypeOK, NEW st \in Enumerations, EnumerationHonest(st), IndexHonest(index)
    PROVE  IndexHonest(Listed(st))
<1> DEFINE file(p) == Pending(repo.blob[p], Size[repo.blob[p]])
           listed == st.entries \cap Paths
           ix == Listed(st)
<1>1. /\ index \in Indexes /\ repo \in Repositories
      /\ repo.blob \in [Paths -> Contents]
  BY RepositoryFacts DEF TypeOK
<1>2. \A p \in Paths : file(p) \in Files /\ file(p).status = "pending"
                       /\ file(p).blob = repo.blob[p]
  BY <1>1, ContentsAssumption DEF Pending, Files, FileStatuses
<1>3. \A p \in Paths : file(p) # None
  BY <1>2, NoneAssumption
<1>4. /\ ix.enumerated = EnumerationComplete(st)
      /\ ix.facts = index.facts
      /\ \A p \in Paths : ix.file[p] =
            IF index.file[p] = None /\ p \in listed THEN file(p) ELSE index.file[p]
  BY <1>1 DEF Listed, RecordIndexEnumeration, Indexes
<1> HIDE DEF ix, file
<1>5. ASSUME ix.enumerated, NEW p \in Paths PROVE ix.file[p] # None
  <2>1. p \in listed
    BY <1>1, <1>4, <1>5, CompleteHasAll
  <2> QED BY <1>3, <1>4, <2>1
<1>6. ASSUME NEW p \in Paths PROVE FileHonest(ix, p)
  <2>1. CASE index.file[p] = None /\ p \in listed
    BY <1>2, <1>4, <2>1 DEF FileHonest, CompleteFile
  <2>2. CASE ~(index.file[p] = None /\ p \in listed)
    <3>1. FileHonest(index, p)
      BY DEF IndexHonest
    <3> QED BY <1>4, <2>2, <3>1 DEF FileHonest
  <2> QED BY <2>1, <2>2
<1>7. IndexHonest(ix)
  BY <1>5, <1>6 DEF IndexHonest
<1> QED BY <1>7 DEF ix

\* A file is recorded as the reading has it: it counts when it was read whole.
LEMMA IndexedHonest ==
    ASSUME TypeOK, IndexHonest(index), NEW p \in Paths, index.file[p] # None,
           NEW outcome \in OutcomesOf(repo.blob[p])
    PROVE  IndexHonest(RecordIndexedFile(index, p, ReadingOf(repo.blob[p], outcome)))
<1> DEFINE c == repo.blob[p]
           r == ReadingOf(c, outcome)
           ix == RecordIndexedFile(index, p, r)
<1>1. /\ index \in Indexes /\ repo \in Repositories /\ c \in Contents
      /\ index.file[p].blob = c
  <2>1. FileHonest(index, p)
    BY DEF IndexHonest
  <2> QED BY <2>1, RepositoryFacts DEF TypeOK, FileHonest
<1>2. r \in Readings /\ (r.whole => r.hash = c)
  BY <1>1, OutcomesType
<1>3. r.whole => FactsOf(p, ReadingOf(c, "full_text")) = FactsOf(p, r)
  <2>1. ReadingOf(c, "full_text").whole /\ ReadingOf(c, "full_text").hash = c
    BY DEF ReadingOf, Classified
  <2> QED BY <1>2, <2>1 DEF FactsOf, Text
<1> HIDE DEF r
<1>4. ix = index \/ RecordedIn(index, p, r, ix)
  BY <1>1, <1>2, IndexedFileParts
<1> HIDE DEF ix
<1>5. ASSUME RecordedIn(index, p, r, ix) PROVE IndexHonest(ix)
  <2>1. ASSUME NEW x \in Paths PROVE FileHonest(ix, x)
    <3>1. FileHonest(index, x)
      BY DEF IndexHonest
    <3>2. CASE x # p
      BY <1>5, <3>1, <3>2 DEF FileHonest, RecordedIn
    <3>3. CASE x = p
      BY <1>1, <1>2, <1>3, <1>5, <3>3 DEF FileHonest, RecordedIn
    <3> QED BY <3>2, <3>3
  <2>2. ix.enumerated => \A x \in Paths : ix.file[x] # None
    BY <1>5 DEF RecordedIn, IndexHonest
  <2> QED BY <2>1, <2>2 DEF IndexHonest
<1> QED BY <1>4, <1>5 DEF ix, r

-----------------------------------------------------------------------------
(* The inventory.                                                          *)

\* What was built from an enumeration, with what was decoded before.
LEMMA InventoryHonest ==
    ASSUME TypeOK, NEW st \in Enumerations, EnumerationHonest(st), NEW cov,
           NEW decoded \in SUBSET Paths, NEW sound \in BOOLEAN,
           decoded \subseteq InventoryOf(st, cov, decoded, sound).objects,
           sound => \A p \in decoded : DerivedFrom(p).clean
    PROVE  SnapshotHonest(InventoryOf(st, cov, decoded, sound))
<1> DEFINE objects == {p \in st.entries \cap Paths : Verified(cov, p)}
           built == InventoryOf(st, cov, decoded, sound)
<1>1. /\ built.objects = objects /\ built.decoded = decoded /\ built.sound = sound
      /\ built.clear <=> EnumerationComplete(st) /\ objects = st.entries \cap Paths
  BY DEF InventoryOf
<1>2. EnumerationComplete(st) => Paths \subseteq st.entries
  BY CompleteHasAll DEF TypeOK
<1> HIDE DEF built
<1>3. built.clear => built.objects = Paths
  BY <1>1, <1>2
<1>4. SnapshotHonest(built)
  BY <1>1, <1>3 DEF SnapshotHonest, built
<1> QED BY <1>4 DEF built

\* Either handler, with what it keeps of the old one.
LEMMA PersistInventoryHonest ==
    ASSUME TypeOK, AssuranceHonest(assurance), NEW st \in Enumerations, EnumerationHonest(st),
           NEW cov, NEW keeps \in BOOLEAN
    PROVE  AssuranceHonest(PersistInventory(st, cov, keeps))
<1> DEFINE old == assurance.snapshot
           decoded == IF old = None THEN {} ELSE old.decoded
           sound == old = None \/ old.sound
           built == InventoryOf(st, cov, decoded, sound)
           fresh == InventoryOf(st, cov, {}, TRUE)
           inventoried == [stage |-> "inventoried", snapshot |-> IF keeps THEN built ELSE fresh]
           rebuilt == [assurance EXCEPT !.snapshot = built]
           after == PersistInventory(st, cov, keeps)
<1>1. old \in Snapshots \cup {None} /\ assurance \in Assurances
  BY DEF Assurances, TypeOK
<1>2. decoded \in SUBSET Paths /\ sound \in BOOLEAN
  BY <1>1 DEF Snapshots
<1>3. sound => \A p \in decoded : DerivedFrom(p).clean
  BY DEF AssuranceHonest, SnapshotHonest
<1>4. built \in Snapshots /\ fresh \in Snapshots
  BY <1>2, InventoryType
<1>5. SnapshotHonest(fresh)
  <2>1. {} \in SUBSET Paths /\ TRUE \in BOOLEAN
    OBVIOUS
  <2> QED BY <2>1, InventoryHonest
<1>6. after = assurance
      \/ /\ decoded \subseteq built.objects /\ assurance.stage # "decoded"
         /\ after = rebuilt \/ after = inventoried
  BY DEF PersistInventory
<1> HIDE DEF decoded, sound
<1>7. decoded \subseteq built.objects => SnapshotHonest(built)
  BY <1>2, <1>3, InventoryHonest
<1>8. built # None /\ fresh # None
  BY <1>4, NoneSnapshotAssumption
<1> HIDE DEF built, fresh, after
<1>9. decoded \subseteq built.objects /\ assurance.stage # "decoded" =>
        AssuranceHonest(rebuilt) /\ AssuranceHonest(inventoried)
  <2> SUFFICES ASSUME decoded \subseteq built.objects, assurance.stage # "decoded"
               PROVE  AssuranceHonest(rebuilt) /\ AssuranceHonest(inventoried)
    OBVIOUS
  <2>1. /\ rebuilt.snapshot = built /\ rebuilt.stage = assurance.stage
        /\ inventoried.snapshot = (IF keeps THEN built ELSE fresh)
        /\ inventoried.stage = "inventoried"
    BY <1>1 DEF Assurances
  <2> HIDE DEF rebuilt, inventoried
  <2> QED BY <1>5, <1>7, <1>8, <2>1 DEF AssuranceHonest
<1> QED BY <1>6, <1>9 DEF after

\* What is decoded was in the inventory, and the last of it completes it.
LEMMA PersistDerivedHonest ==
    ASSUME NEW a \in Assurances, AssuranceHonest(a), NEW p \in Paths
    PROVE  AssuranceHonest(PersistDerived(a, p))
<1> DEFINE b == [a EXCEPT !.snapshot.decoded = @ \cup {p},
                          !.snapshot.sound = @ /\ DerivedFrom(p).clean]
<1> SUFFICES ASSUME a.snapshot \in Snapshots, a.stage # "decoded", p \in a.snapshot.objects
             PROVE  /\ AssuranceHonest(b)
                    /\ DerivedSnapshotCanAdvance(b, p) =>
                         AssuranceHonest([b EXCEPT !.stage = "decoded"])
  BY DerivedCases
<1> DEFINE s == [a.snapshot EXCEPT !.decoded = @ \cup {p},
                                   !.sound = @ /\ DerivedFrom(p).clean]
<1>1. /\ s \in [objects : {a.snapshot.objects}, clear : {a.snapshot.clear},
                decoded : {a.snapshot.decoded \cup {p}},
                sound : {a.snapshot.sound /\ DerivedFrom(p).clean}]
  BY DEF Snapshots
<1>2. /\ s.objects = a.snapshot.objects /\ s.clear = a.snapshot.clear
      /\ s.decoded = a.snapshot.decoded \cup {p}
      /\ s.sound = (a.snapshot.sound /\ DerivedFrom(p).clean)
  BY <1>1
<1>3. b.snapshot = s /\ b.stage = a.stage
  BY DEF Assurances, Snapshots
<1>4. DOMAIN b = {"stage", "snapshot"}
  BY DEF Assurances
<1>5. a.snapshot # None
  BY NoneSnapshotAssumption
<1>6. SnapshotHonest(a.snapshot)
  BY <1>5 DEF AssuranceHonest
<1> HIDE DEF s
<1>7. SnapshotHonest(s)
  BY <1>2, <1>6 DEF SnapshotHonest
<1>8. s # None
  BY <1>1, NoneSnapshotAssumption DEF s, Snapshots
<1>9. AssuranceHonest(b)
  BY <1>3, <1>7, <1>8 DEF AssuranceHonest
<1> DEFINE d == [b EXCEPT !.stage = "decoded"]
<1>10. d.snapshot = s /\ d.stage = "decoded"
  BY <1>3, <1>4
<1>11. DerivedSnapshotCanAdvance(b, p) => AssuranceHonest(d)
  BY <1>3, <1>7, <1>8, <1>10 DEF AssuranceHonest, DerivedSnapshotCanAdvance
<1> QED BY <1>9, <1>11

-----------------------------------------------------------------------------
(* The inductive invariant holds.                                          *)

\* Before the acquisition.
LEMMA InitInv == Init => IInv
<1> SUFFICES ASSUME Init PROVE IInv
  OBVIOUS
<1>1. TypeOK /\ tree = None
  BY InitType DEF Init
<1>2. CoverageHonest
  BY DEF Init, CoverageHonest, Classified
<1>3. IndexHonest(index)
  BY DEF Init, IndexHonest, FileHonest, EmptyIndex, NoFiles
<1>4. AssuranceHonest(assurance)
  BY DEF Init, AssuranceHonest
<1> QED BY <1>1, <1>2, <1>3, <1>4 DEF IInv

\* The enumeration, whether it was there before a listing or not.
LEMMA EnumerationIsHonest == IInv => EnumerationHonest(Enumeration)
  BY NewEnumerationHonest DEF IInv, TypeOK, Enumeration

\* safeListTreeHandler.
LEMMA ListTreeInv ==
    ASSUME IInv, TypeOK', NEW t \in Trees, ListTree(t) PROVE IInv'
<1>1. TypeOK
  BY DEF IInv
<1>2. PICK st \in Enumerations, nodes \in SUBSET Nodes :
        /\ PersistListing(st, nodes)
        /\ st.entries \subseteq Enumeration.entries \cup nodes
        /\ \/ st = Enumeration
           \/ \E listing \in Listings(t) :
              \E trees \in SUBSET (listing.nodes \cap Trees) :
              \E entries \in SUBSET listing.nodes :
                 st = Merge(Enumeration, t, listing, trees, entries)
  BY <1>1, ListTreeCases
<1>3. EnumerationHonest(st)
  <2>1. Enumeration \in Enumerations /\ repo \in Repositories
    BY <1>1, EnumerationIsOne DEF TypeOK
  <2> QED BY <1>2, <2>1, EnumerationIsHonest, MergeHonest
<1>4. /\ tree' = st /\ repo' = repo
      /\ coverage' = [coverage EXCEPT !.enumerated = @ \cup (nodes \cap Paths)]
      /\ index' = Listed(st)
      /\ assurance' = PersistInventory(st, coverage', FALSE)
  BY <1>2 DEF PersistListing, Listed, Advance
<1>5. EnumerationHonest(tree)'
  BY <1>3, <1>4 DEF EnumerationHonest, Inside
<1>6. CoverageHonest'
  <2>1. Enumeration.entries \cap Paths \subseteq coverage.enumerated
    BY DEF IInv, CoverageHonest, Enumeration, NewEnumeration
  <2>2. /\ coverage'.enumerated = coverage.enumerated \cup (nodes \cap Paths)
        /\ coverage'.mandatory = coverage.mandatory
    BY <1>1, <1>4 DEF TypeOK, Coverages
  <2> QED BY <1>2, <1>4, <2>1, <2>2 DEF IInv, CoverageHonest
<1>7. IndexHonest(index)'
  <2>1. IndexHonest(Listed(st))
    BY <1>1, <1>3, ListedHonest DEF IInv
  <2> QED BY <1>4, <2>1 DEF IndexHonest, FileHonest
<1>8. AssuranceHonest(assurance)'
  <2>1. AssuranceHonest(PersistInventory(st, coverage', FALSE))
    BY <1>1, <1>3, PersistInventoryHonest DEF IInv
  <2> QED BY <1>4, <2>1 DEF AssuranceHonest, SnapshotHonest, DerivedFrom
<1> QED BY <1>5, <1>6, <1>7, <1>8 DEF IInv

\* A fetch classifies a blob as what it is.
LEMMA AttemptHonest ==
    ASSUME TypeOK, CoverageHonest, NEW p \in Paths, NEW scope,
           NEW outcome \in OutcomesOf(repo.blob[p]), NEW x \in Paths,
           RecordFetchAttempt(coverage, p, scope, outcome).mandatory[x] \in Classified
    PROVE  RecordFetchAttempt(coverage, p, scope, outcome).mandatory[x] =
             (IF repo.blob[x] \in Binary THEN "binary" ELSE "full_text")
<1>1. repo.blob[p] \in Contents /\ coverage \in Coverages
  BY RepositoryFacts DEF TypeOK
<1>2. outcome \in Outcomes
  BY <1>1, OutcomesType
<1>3. outcome \in Classified =>
        outcome = (IF repo.blob[p] \in Binary THEN "binary" ELSE "full_text")
  BY PayloadAssumption DEF OutcomesOf, Classified
<1>4. RecordFetchAttempt(coverage, p, scope, outcome).mandatory[x] \in
        {coverage.mandatory[x]} \cup (IF x = p THEN {outcome} ELSE {})
  BY <1>1, <1>2, AttemptType DEF ChooseBetter
<1> QED BY <1>3, <1>4 DEF CoverageHonest

\* safeFetchFileHandler.
LEMMA FetchInv ==
    ASSUME IInv, TypeOK', NEW p \in Paths, NEW scope \in Scopes, NEW outcome \in Outcomes,
           Fetch(p, scope, outcome)
    PROVE  IInv'
<1> DEFINE cov == RecordFetchAttempt(coverage, p, scope, outcome)
           reading == ReadingOf(repo.blob[p], outcome)
           inventory == PersistInventory(tree, cov, TRUE)
<1>1. TypeOK
  BY DEF IInv
<1>2. /\ tree \in Enumerations /\ tree' = tree /\ repo' = repo
      /\ outcome \in OutcomesOf(repo.blob[p])
      /\ coverage' = cov
      /\ \/ index' = index
         \/ /\ index.file[p] # None
            /\ index' = RecordIndexedFile(index, p, reading)
      /\ inventory \in Assurances
      /\ assurance' \in {assurance, inventory, PersistDerived(inventory, p)}
  BY <1>1, FetchCases DEF Advance
<1>3. tree # None
  BY DEF Fetch
<1>4. EnumerationHonest(tree)'
  BY <1>2, <1>3 DEF IInv, EnumerationHonest, Inside
<1>5. CoverageHonest'
  <2>1. cov.enumerated = coverage.enumerated
    BY <1>1, AttemptType DEF TypeOK
  <2>2. \A x \in Paths : cov.mandatory[x] \in Classified =>
          cov.mandatory[x] = (IF repo.blob[x] \in Binary THEN "binary" ELSE "full_text")
    BY <1>1, <1>2, AttemptHonest DEF IInv
  <2> HIDE DEF cov
  <2> QED BY <1>2, <2>1, <2>2 DEF IInv, CoverageHonest
<1>6. IndexHonest(index)'
  <2>1. index.file[p] # None => IndexHonest(RecordIndexedFile(index, p, reading))
    BY <1>1, <1>2, IndexedHonest DEF IInv
  <2> HIDE DEF reading
  <2>2. IndexHonest(index')
    BY <1>2, <2>1 DEF IInv
  <2> QED BY <1>2, <2>2 DEF IndexHonest, FileHonest
<1>7. AssuranceHonest(assurance)'
  <2>1. AssuranceHonest(inventory)
    BY <1>1, <1>2, <1>3, PersistInventoryHonest DEF IInv
  <2> HIDE DEF inventory
  <2>2. AssuranceHonest(PersistDerived(inventory, p))
    BY <1>2, <2>1, PersistDerivedHonest
  <2>3. AssuranceHonest(assurance')
    BY <1>2, <2>1, <2>2 DEF IInv
  <2> QED BY <1>2, <2>3 DEF AssuranceHonest, SnapshotHonest, DerivedFrom
<1> QED BY <1>4, <1>5, <1>6, <1>7 DEF IInv

\* A step that touches neither the enumeration nor the index nor the container, and
\* classifies nothing.
LEMMA FailureInv ==
    ASSUME IInv, TypeOK', UNCHANGED <<repo, tree, index, assurance>>,
           coverage'.enumerated = coverage.enumerated,
           \A x \in Paths : coverage'.mandatory[x] \in Classified =>
                              coverage'.mandatory[x] = coverage.mandatory[x]
    PROVE  IInv'
<1>1. tree # None => EnumerationHonest(tree)'
  BY DEF IInv, EnumerationHonest, Inside
<1>2. CoverageHonest'
  BY DEF IInv, CoverageHonest
<1>3. IndexHonest(index)'
  BY DEF IInv, IndexHonest, FileHonest
<1>4. AssuranceHonest(assurance)'
  BY DEF IInv, AssuranceHonest, SnapshotHonest, DerivedFrom
<1> QED BY <1>1, <1>2, <1>3, <1>4 DEF IInv

\* Every step keeps the inductive invariant.
LEMMA NextInv ==
    ASSUME IInv, [Next]_vars PROVE IInv'
<1>1. TypeOK /\ TypeOK'
  BY NextTypes DEF IInv
<1>2. CASE UNCHANGED vars
  BY <1>1, <1>2, FailureInv DEF vars
<1>3. ASSUME NEW t \in Trees, ListTreeFails(t) PROVE IInv'
  <2>1. /\ coverage' = RecordEnumerationFailure(coverage) /\ coverage \in Coverages
        /\ UNCHANGED <<repo, tree, index, assurance>>
    BY <1>1, <1>3 DEF ListTreeFails, TypeOK
  <2> QED BY <1>1, <2>1, EnumerationFailureType, FailureInv
<1>4. ASSUME NEW p \in Paths, NEW scope \in Scopes, FetchFails(p, scope) PROVE IInv'
  <2>1. /\ coverage' = RecordFetchFailure(coverage, p, scope) /\ coverage \in Coverages
        /\ UNCHANGED <<repo, tree, index, assurance>>
    BY <1>1, <1>4 DEF FetchFails, TypeOK
  <2> QED BY <1>1, <2>1, FailureTypes, FailureInv
<1> QED BY <1>1, <1>2, <1>3, <1>4, Steps, ListTreeInv, FetchInv

\* Every ledger is honest about the commit, at any time and whether it is complete or
\* not: what is missing from it is marked.
THEOREM Invariance == Spec => []IInv
<1>1. IInv /\ [Next]_vars => IInv'
  BY NextInv
<1> QED BY <1>1, InitInv, PTL DEF Spec

-----------------------------------------------------------------------------
(* What it means that a ledger is complete.                                *)

\* requiredAcquisitionComplete is about the whole tree of the commit: every blob of it
\* was fetched for it and classified as what it is, in whatever pieces the tree was
\* listed, whatever was truncated, cut, repeated or failed on the way.
THEOREM CoverageIsWhole == Spec => []CompleteCoversTree
<1>1. IInv => CompleteCoversTree
  <2> SUFFICES ASSUME IInv, RequiredAcquisitionComplete, NEW p \in Paths
               PROVE  coverage.mandatory[p] = (IF repo.blob[p] \in Binary
                                               THEN "binary" ELSE "full_text")
    BY DEF CompleteCoversTree
  <2>1. tree # None /\ EnumerationComplete(tree)
    BY DEF RequiredAcquisitionComplete, EnumerationComplete
  <2>2. p \in tree.entries
    BY <2>1, CompleteHasAll DEF IInv, TypeOK
  <2>3. coverage.mandatory[p] \in Classified
    BY <2>1, <2>2 DEF IInv, CoverageHonest, RequiredAcquisitionComplete
  <2> QED BY <2>3 DEF IInv, CoverageHonest
<1> QED BY <1>1, Invariance, PTL

\* The analysis is prepared only on an index that has every blob of the commit as the
\* commit has it, with its facts, although the index follows only some of the calls.
THEOREM IndexIsWhole == Spec => PreparedOnWholeTree
<1>1. ASSUME IInv, IInv', [Next]_vars, stage # stage', NEW p \in Paths
      PROVE  /\ index'.file[p] # None
             /\ index'.file[p].content = repo.blob[p]
             /\ FactsOf(p, ReadingOf(repo.blob[p], "full_text")) \subseteq index'.facts
  <2>1. IndexComplete(index') /\ repo' = repo
    <3>1. TypeOK /\ Next
      BY <1>1 DEF IInv, vars
    <3>2. ASSUME NEW ix, Advance(ix) PROVE IndexComplete(index')
      BY <1>1, <3>2 DEF Advance, Prepared
    <3>3. ASSUME NEW t \in Trees, ListTree(t) PROVE IndexComplete(index') /\ repo' = repo
      BY <3>1, <3>2, <3>3, ListTreeCases DEF PersistListing
    <3>4. ASSUME NEW p0 \in Paths, NEW scope \in Scopes, NEW outcome \in Outcomes,
                 Fetch(p0, scope, outcome)
          PROVE  IndexComplete(index') /\ repo' = repo
      BY <1>1, <3>1, <3>2, <3>4, FetchCases
    <3> QED BY <1>1, <3>1, <3>3, <3>4, Steps DEF ListTreeFails, FetchFails
  <2>2. IndexHonest(index')
    BY <1>1, <2>1 DEF IInv, IndexHonest, FileHonest
  <2>3. index'.file[p] # None
    BY <2>1, <2>2 DEF IndexHonest, IndexComplete
  <2>4. index'.file[p].status \in CompleteFile
    BY <2>1, <2>3 DEF IndexComplete, Known
  <2> QED BY <2>2, <2>3, <2>4 DEF IndexHonest, FileHonest
<1>2. IInv /\ IInv' /\ [Next]_vars =>
        [stage # stage' => \A p \in Paths :
            /\ index'.file[p] # None
            /\ index'.file[p].content = repo.blob[p]
            /\ FactsOf(p, ReadingOf(repo.blob[p], "full_text")) \subseteq index'.facts]_vars
  BY <1>1
<1> QED BY <1>2, Invariance, PTL DEF Spec, PreparedOnWholeTree

-----------------------------------------------------------------------------
(* The archive readers and the decoder of texts.                           *)

\* What a reader makes of a list of entries: every entry has its extract, and when
\* nothing was blocked those of the files and links have their contents.
Extracted(list, entries, clean) ==
    /\ list \in Seq(Extracts) /\ Len(list) = Len(entries)
    /\ \A i \in 1..Len(entries) :
          /\ list[i].kind = entries[i].kind
          /\ clean /\ list[i].kind # "directory" => list[i].content = entries[i].content

\* One entry more.
LEMMA EntryExtracted ==
    ASSUME NEW read \in Reads, NEW format, NEW e \in ArchiveEntries
    PROVE  LET new == ReadEntry(read, format, e)
               extract == [kind |-> e.kind,
                           content |-> IF Accepts(format, e, read.expanded) THEN e.content
                                       ELSE None]
           IN  /\ new \in Reads /\ new.entries = Append(read.entries, extract)
               /\ new.clean => read.clean
               /\ new.clean /\ e.kind # "directory" => extract.content = e.content
               /\ extract \in Extracts
<1> DEFINE accepted == Accepts(format, e, read.expanded)
           extract == [kind |-> e.kind, content |-> IF accepted THEN e.content ELSE None]
           new == ReadEntry(read, format, e)
           clean == read.clean /\ (accepted \/ (e.kind = "directory" /\ e.legible))
           expanded == IF accepted THEN read.expanded + Size[e.content] ELSE read.expanded
<1>1. /\ e.content \in Contents /\ Size[e.content] \in Nat
      /\ e.kind \in {"file", "directory", "link"}
      /\ read.entries \in Seq(Extracts) /\ read.clean \in BOOLEAN /\ read.expanded \in Nat
  BY ContentsAssumption DEF ArchiveEntries, Reads
<1>2. extract \in Extracts
  BY <1>1 DEF Extracts
<1>3. clean \in BOOLEAN /\ expanded \in Nat
  BY <1>1
<1>4. new = [entries |-> Append(read.entries, extract), clean |-> clean, expanded |-> expanded]
  <2>1. new = [read EXCEPT !.entries = Append(@, extract), !.clean = clean, !.expanded = expanded]
    BY DEF ReadEntry
  <2>2. DOMAIN read = {"entries", "clean", "expanded"}
    BY DEF Reads
  <2> HIDE DEF new, extract, clean, expanded
  <2> QED BY <2>1, <2>2
<1>5. clean => read.clean /\ (e.kind # "directory" => extract.content = e.content)
  OBVIOUS
<1> HIDE DEF extract, clean, expanded, new
<1>6. Append(read.entries, extract) \in Seq(Extracts)
  BY <1>1, <1>2
<1>7. new \in Reads /\ new.entries = Append(read.entries, extract) /\ new.clean = clean
  BY <1>3, <1>4, <1>6 DEF Reads
<1> QED BY <1>2, <1>5, <1>7 DEF extract, accepted, new

\* The loop of a reader gives one extract for each entry, and all of them when it is clean.
LEMMA EntriesExtracted ==
    ASSUME NEW format, NEW entries \in Seq(ArchiveEntries), NEW clean \in BOOLEAN
    PROVE  LET read == ReadEntries(format, entries, clean)
           IN  /\ read.clean \in BOOLEAN /\ (read.clean => clean)
               /\ Extracted(read.entries, entries, read.clean)
<1> DEFINE N == Len(entries)
           z == [entries |-> <<>>, clean |-> clean, expanded |-> 0]
           G == [n \in 1..N |-> [read \in Reads |-> ReadEntry(read, format, entries[n])]]
           So(n, read) == /\ Len(read.entries) = n /\ (read.clean => clean)
                          /\ \A i \in 1..n :
                                /\ read.entries[i].kind = entries[i].kind
                                /\ read.clean /\ read.entries[i].kind # "directory" =>
                                      read.entries[i].content = entries[i].content
           P == [n \in 0..N |-> {read \in Reads : So(n, read)}]
<1>1. N \in Nat /\ DOMAIN entries = 1..N /\ \A n \in 1..N : entries[n] \in ArchiveEntries
  OBVIOUS
<1>2. ReadEntries(format, entries, clean) = After(z, G)
  BY <1>1 DEF ReadEntries
<1>3. z \in Reads
  BY DEF Reads
<1> HIDE DEF N
<1>4. G \in [1..N -> [Reads -> Reads]]
  BY <1>1, EntryExtracted
<1>5. z \in P[0]
  <2>1. So(0, z) /\ 0 \in 0..N
    BY <1>1
  <2> QED BY <1>3, <2>1
<1>6. ASSUME NEW n \in 1..N, NEW read \in Reads, read \in P[n - 1]
      PROVE  G[n][read] \in P[n]
  <2> DEFINE e == entries[n]
             new == ReadEntry(read, format, e)
             extract == [kind |-> e.kind,
                         content |-> IF Accepts(format, e, read.expanded) THEN e.content ELSE None]
  <2>1. /\ n \in 0..N /\ n - 1 \in 0..N /\ e \in ArchiveEntries /\ G[n][read] = new
        /\ n - 1 + 1 = n
    BY <1>1
  <2>2. So(n - 1, read)
    BY <1>6, <2>1
  <2>3. /\ new \in Reads /\ new.entries = Append(read.entries, extract)
        /\ new.clean => read.clean
        /\ new.clean /\ e.kind # "directory" => extract.content = e.content
        /\ extract \in Extracts
    BY <2>1, EntryExtracted
  <2>4. extract.kind = e.kind
    OBVIOUS
  <2>5. read.entries \in Seq(Extracts)
    BY DEF Reads
  <2> HIDE DEF extract, new
  <2>6. /\ Len(new.entries) = n /\ new.entries[n] = extract
        /\ \A i \in 1..(n - 1) : new.entries[i] = read.entries[i]
    BY <2>1, <2>2, <2>3, <2>5
  <2>7. ASSUME NEW i \in 1..n
        PROVE  /\ new.entries[i].kind = entries[i].kind
               /\ new.clean /\ new.entries[i].kind # "directory" =>
                     new.entries[i].content = entries[i].content
    <3>1. CASE i = n
      BY <2>3, <2>4, <2>6, <3>1
    <3>2. CASE i # n
      <4>1. i \in 1..(n - 1)
        BY <2>1, <3>2
      <4> QED BY <2>2, <2>3, <2>6, <4>1
    <3> QED BY <3>1, <3>2
  <2>8. So(n, new)
    BY <2>2, <2>3, <2>6, <2>7
  <2> HIDE DEF So, G
  <2> QED BY <2>1, <2>3, <2>8
<1>7. P[N] = {read \in Reads : So(N, read)}
  BY <1>1
<1> HIDE DEF G, P, z
<1>8. After(z, G) \in Reads /\ After(z, G) \in P[N]
  BY <1>1, <1>3, <1>4, <1>5, <1>6, Loop
<1>9. So(N, After(z, G))
  BY <1>7, <1>8
<1>10. After(z, G).clean \in BOOLEAN /\ After(z, G).entries \in Seq(Extracts)
  BY <1>8 DEF Reads
<1>11. Extracted(After(z, G).entries, entries, After(z, G).clean)
  BY <1>9, <1>10 DEF Extracted, N
<1> QED BY <1>2, <1>9, <1>10, <1>11

\* The entries of a payload and its literals are what is assumed of it.
LEMMA PayloadFacts ==
    ASSUME NEW c \in Contents
    PROVE  /\ Payload[c].entries \in Seq(ArchiveEntries) /\ Payload[c].literals \in Seq(Literals)
           /\ Payload[c].format # None => Payload[c].format \in ArchiveFormats
           /\ Payload[c].format = "compressed" => Len(Payload[c].entries) = 1
           /\ Payload[c].sound \in BOOLEAN /\ Payload[c].binary \in BOOLEAN
           /\ Payload[c].text \in BOOLEAN /\ Payload[c].dense \in BOOLEAN
  BY PayloadAssumption

\* The entries of a tar that can be trusted: all of them, or those up to some place.
LEMMA TarPrefix ==
    ASSUME NEW entries \in Seq(ArchiveEntries), NEW max \in Nat
    PROVE  LET trusted(n) == \A i \in 1..n : entries[i].safe /\ entries[i].legible
               k == Capped(Len(entries), max)
           IN  \E n \in 0..k : trusted(n) /\ (n < k => ~trusted(n + 1))
<1> DEFINE trusted(n) == \A i \in 1..n : entries[i].safe /\ entries[i].legible
           k == Capped(Len(entries), max)
           P == {n \in 0..k : trusted(n)}
<1> SUFFICES ASSUME ~\E n \in 0..k : trusted(n) /\ (n < k => ~trusted(n + 1))
             PROVE  FALSE
  OBVIOUS
<1>1. k \in Nat
  BY DEF Capped
<1> HIDE DEF k
<1>2. 0 \in P
  BY <1>1
<1>3. ASSUME NEW n \in 1..k, n - 1 \in P PROVE n \in P
  <2>1. n - 1 \in 0..k /\ trusted(n - 1) /\ n - 1 < k /\ n - 1 + 1 = n /\ n \in 0..k
    BY <1>1, <1>3
  <2> HIDE DEF trusted
  <2>2. trusted(n - 1 + 1)
    BY <2>1
  <2> QED BY <2>1, <2>2
<1> HIDE DEF P
<1>4. k \in P
  <2>1. \A n \in 0..k : n \in P
    BY <1>1, <1>2, <1>3, UpTo
  <2> QED BY <1>1, <2>1
<1>5. k \in 0..k /\ trusted(k) /\ ~(k < k)
  BY <1>1, <1>4 DEF P
<1> QED BY <1>5

\* A tar that reads clean has given every entry it holds.
LEMMA TarExtracted ==
    ASSUME NEW c \in Contents
    PROVE  LET read == ReadTar(Payload[c])
           IN  /\ read.entries \in Seq(Extracts) /\ read.clean \in BOOLEAN
               /\ read.clean => Extracted(read.entries, Payload[c].entries, TRUE)
<1> DEFINE p == Payload[c]
           entries == p.entries
           k == Capped(Len(entries), MaxEntries)
           trusted(n) == \A i \in 1..n : entries[i].safe /\ entries[i].legible
           n == CHOOSE m \in 0..k : trusted(m) /\ (m < k => ~trusted(m + 1))
           taken == SubSeq(entries, 1, n)
           clean == p.sound /\ n = Len(entries)
           read == ReadEntries("tar", taken, clean)
<1>1. entries \in Seq(ArchiveEntries) /\ MaxEntries \in Nat
  BY PayloadFacts, PayloadAssumption
<1>2. ReadTar(p) = read
  BY Zenon DEF ReadTar
<1>3. k \in Nat /\ k <= Len(entries)
  BY <1>1 DEF Capped
<1>4. n \in 0..k
  <2>1. \E m \in 0..k : trusted(m) /\ (m < k => ~trusted(m + 1))
    BY <1>1, TarPrefix
  <2> HIDE DEF trusted, k
  <2> QED BY <2>1
<1> HIDE DEF n, k
<1>5. taken \in Seq(ArchiveEntries) /\ clean \in BOOLEAN
  BY <1>1, <1>3, <1>4, PayloadFacts
<1>6. clean => taken = entries
  BY <1>1
<1> HIDE DEF taken, clean, entries
<1>7. read.clean \in BOOLEAN /\ (read.clean => clean) /\ Extracted(read.entries, taken, read.clean)
  BY <1>5, EntriesExtracted
<1>8. read.entries \in Seq(Extracts)
  BY <1>7 DEF Extracted
<1> HIDE DEF read
<1>9. read.clean => Extracted(read.entries, entries, TRUE)
  <2> SUFFICES ASSUME read.clean PROVE Extracted(read.entries, entries, TRUE)
    OBVIOUS
  <2>1. read.clean = TRUE /\ taken = entries
    BY <1>6, <1>7
  <2> QED BY <1>7, <2>1
<1> QED BY <1>2, <1>7, <1>8, <1>9 DEF entries

\* What a reader leaves of an archive, whatever its format: without a blocker, the
\* contents of all its files.
LEMMA ArchiveExtracted ==
    ASSUME NEW c \in Contents, Payload[c].format # None
    PROVE  LET archive == ReadArchive(c)
               entries == Payload[c].entries
           IN  /\ archive.entries \in Seq(Extracts) /\ archive.clean \in BOOLEAN
               /\ archive.clean =>
                     \A i \in DOMAIN entries : entries[i].kind # "directory" =>
                        \E j \in DOMAIN archive.entries :
                            /\ archive.entries[j].kind # "directory"
                            /\ archive.entries[j].content = entries[i].content
<1> DEFINE p == Payload[c]
           entries == p.entries
           archive == ReadArchive(c)
           All(list) == \A i \in DOMAIN entries : entries[i].kind # "directory" =>
                           \E j \in DOMAIN list : /\ list[j].kind # "directory"
                                                /\ list[j].content = entries[i].content
           Goal(read) == /\ read.entries \in Seq(Extracts) /\ read.clean \in BOOLEAN
                         /\ read.clean => All(read.entries)
<1>1. entries \in Seq(ArchiveEntries) /\ p.format \in {"tar", "tar.gz", "zip", "compressed"}
  BY PayloadFacts DEF ArchiveFormats
<1>2. Goal(Unreadable)
  BY DEF Unreadable
<1>3. Goal(ReadTar(p))
  <2> DEFINE read == ReadTar(p)
  <2>1. /\ read.entries \in Seq(Extracts) /\ read.clean \in BOOLEAN
        /\ read.clean => Extracted(read.entries, entries, TRUE)
    BY TarExtracted
  <2> HIDE DEF read
  <2>2. ASSUME read.clean PROVE All(read.entries)
    <3>1. /\ read.entries \in Seq(Extracts) /\ Len(read.entries) = Len(entries)
          /\ \A i \in 1..Len(entries) :
                /\ read.entries[i].kind = entries[i].kind
                /\ read.entries[i].kind # "directory" =>
                       read.entries[i].content = entries[i].content
      BY <2>1, <2>2 DEF Extracted
    <3>2. DOMAIN read.entries = 1..Len(entries) /\ DOMAIN entries = 1..Len(entries)
      BY <1>1, <3>1
    <3> QED BY <3>1, <3>2
  <2>3. Goal(read)
    BY <2>1, <2>2
  <2> QED BY <2>3 DEF read
<1>4. CASE p.format = "tar"
  <2>1. archive = ReadTar(p)
    BY <1>4 DEF ReadArchive
  <2> HIDE DEF Goal, archive
  <2>2. Goal(archive)
    BY <1>3, <2>1
  <2> QED BY <2>2 DEF Goal, archive
<1>5. CASE p.format = "tar.gz"
  <2>1. archive = IF p.sound THEN ReadTar(p) ELSE Unreadable
    BY <1>5 DEF ReadArchive
  <2> HIDE DEF Goal, archive
  <2>2. Goal(archive)
    BY <1>2, <1>3, <2>1
  <2> QED BY <2>2 DEF Goal, archive
<1>6. CASE p.format = "zip"
  <2> DEFINE safe == {e \in ToSet(entries) : e.safe}
             kept == Kept(entries, safe)
             clean == \A i \in DOMAIN entries : entries[i].safe
             read == ReadEntries("zip", kept, clean)
  <2>1. archive = IF ~p.sound \/ Len(entries) > MaxEntries THEN Unreadable ELSE read
    BY <1>6 DEF ReadArchive, ReadZip
  <2>2. kept \in Seq(ArchiveEntries) /\ ToSet(kept) = ToSet(entries) \cap safe
    BY <1>1, KeptElements
  <2>3. clean => ToSet(kept) = ToSet(entries)
    BY <2>2 DEF ToSet
  <2>4. clean \in BOOLEAN
    OBVIOUS
  <2> HIDE DEF kept, safe, clean
  <2>5. /\ read.clean \in BOOLEAN /\ (read.clean => clean)
        /\ Extracted(read.entries, kept, read.clean)
    BY <2>2, <2>4, EntriesExtracted
  <2> HIDE DEF read
  <2>6. ASSUME read.clean PROVE All(read.entries)
    <3>1. /\ read.entries \in Seq(Extracts) /\ Len(read.entries) = Len(kept)
          /\ \A i \in 1..Len(kept) :
                /\ read.entries[i].kind = kept[i].kind
                /\ read.entries[i].kind # "directory" =>
                       read.entries[i].content = kept[i].content
      BY <2>5, <2>6 DEF Extracted
    <3>2. DOMAIN read.entries = 1..Len(kept) /\ DOMAIN kept = 1..Len(kept)
      BY <2>2, <3>1
    <3>3. ToSet(kept) = ToSet(entries)
      BY <2>3, <2>5, <2>6
    <3>4. ASSUME NEW i \in DOMAIN entries, entries[i].kind # "directory"
          PROVE  \E j \in DOMAIN read.entries : /\ read.entries[j].kind # "directory"
                                               /\ read.entries[j].content = entries[i].content
      <4>1. entries[i] \in ToSet(kept)
        BY <3>3 DEF ToSet
      <4>2. PICK j \in DOMAIN kept : kept[j] = entries[i]
        BY <4>1 DEF ToSet
      <4> QED BY <3>1, <3>2, <3>4, <4>2
    <3> QED BY <3>4
  <2>7. Goal(read)
    BY <2>5, <2>6 DEF Extracted
  <2> HIDE DEF Goal, archive
  <2>8. Goal(archive)
    BY <1>2, <2>1, <2>7
  <2> QED BY <2>8 DEF Goal, archive
<1>7. CASE p.format = "compressed"
  <2> DEFINE list == <<[kind |-> "file", content |-> entries[1].content]>>
  <2>1. archive = Unreadable \/ archive = [entries |-> list, clean |-> TRUE]
    BY <1>7 DEF ReadArchive, ReadCompressedPayload
  <2>2. Len(entries) = 1 /\ DOMAIN entries = {1} /\ entries[1].content \in Contents
    <3>1. Len(entries) = 1
      BY <1>7, PayloadFacts
    <3>2. DOMAIN entries = 1..Len(entries) /\ 1..1 = {1}
      BY <1>1
    <3>3. entries[1] \in ArchiveEntries
      BY <1>1, <3>1
    <3> QED BY <3>1, <3>2, <3>3 DEF ArchiveEntries
  <2>3. list \in Seq(Extracts) /\ All(list)
    BY <2>2 DEF Extracts
  <2> HIDE DEF list, All
  <2>4. Goal([entries |-> list, clean |-> TRUE])
    BY <2>3
  <2> HIDE DEF Goal, archive
  <2>5. Goal(archive)
    BY <1>2, <2>1, <2>4
  <2> QED BY <2>5 DEF Goal, archive, All
<1> QED BY <1>1, <1>4, <1>5, <1>6, <1>7

\* The literals that are scanned are literals of the text.
LEMMA ScannedType ==
    ASSUME NEW c \in Contents
    PROVE  Scanned(Payload[c]) \in Seq(Literals)
<1> DEFINE literals == Payload[c].literals
           short == {l \in ToSet(literals) : l.quoted /\ l.length <= MaxLiteralChars}
           arrays == {l \in ToSet(literals) : ~l.quoted /\ l.length <= MaxArrayItems}
           closed == Kept(literals, short)
           n == Capped(Len(closed), MaxCandidates)
<1>1. literals \in Seq(Literals) /\ MaxCandidates \in Nat
  BY PayloadFacts, PayloadAssumption
<1>2. closed \in Seq(Literals) /\ Kept(literals, arrays) \in Seq(Literals)
  BY <1>1, KeptElements
<1>3. QuotedLiterals(Payload[c]) = SubSeq(closed, 1, n)
  BY Zenon DEF QuotedLiterals
<1>4. ByteArrays(Payload[c]) = Kept(literals, arrays)
  BY Zenon DEF ByteArrays
<1> HIDE DEF closed, arrays
<1>5. n \in Nat /\ n <= Len(closed)
  BY <1>1, <1>2 DEF Capped
<1> HIDE DEF n
<1>6. SubSeq(closed, 1, n) \in Seq(Literals)
  BY <1>2, <1>5
<1> QED BY <1>2, <1>3, <1>4, <1>6 DEF Scanned

Outputs == [content: Contents, clean: BOOLEAN]

\* What a payload needs to be looked at is that it was visited, or that it is a compressed
\* stream and what it holds was: seen are the contents that were visited.
Covered(d, seen) == d \in seen \/ (Payload[d].format = "compressed" /\ Parts(d) \subseteq seen)

\* A literal is decoded to what covers it.
LEMMA LiteralCovered ==
    ASSUME NEW l \in Literals, l.content # None
    PROVE  /\ l.content \in Contents /\ EmitLiteralCandidate(l) \in Outputs
           /\ EmitLiteralCandidate(l).clean =>
                 \A seen : EmitLiteralCandidate(l).content \in seen => Covered(l.content, seen)
<1> DEFINE c == l.content
           p == Payload[c]
           read == ReadCompressedPayload(p)
           inner == p.entries[1].content
           out == EmitLiteralCandidate(l)
<1>1. c \in Contents
  BY DEF Literals
<1> HIDE DEF c
<1>2. CASE p.format = "compressed" /\ read.clean
  <2>1. Len(p.entries) = 1 /\ p.entries \in Seq(ArchiveEntries)
    BY <1>1, <1>2, PayloadFacts
  <2>2. inner \in Contents
    <3>1. p.entries[1] \in ArchiveEntries
      BY <2>1
    <3> QED BY <3>1 DEF ArchiveEntries
  <2>3. read.entries = <<[kind |-> "file", content |-> inner]>>
    BY <1>2 DEF ReadCompressedPayload, Unreadable
  <2>4. out = [content |-> inner, clean |-> ~Payload[inner].dense]
    BY <1>2, <2>3 DEF EmitLiteralCandidate, c
  <2>5. Payload[inner].dense \in BOOLEAN
    BY <2>2, PayloadFacts
  <2>6. Parts(c) \subseteq {inner}
    <3>1. p.format # None
      BY <1>2, PayloadAssumption DEF ArchiveFormats
    <3>2. DOMAIN p.entries = {1}
      <4>1. DOMAIN p.entries = 1..1
        BY <2>1
      <4> QED BY <4>1
    <3> QED BY <3>1, <3>2 DEF Parts
  <2>7. ASSUME NEW seen, out.content \in seen PROVE Covered(c, seen)
    BY <1>2, <2>4, <2>6, <2>7 DEF Covered
  <2>8. out \in Outputs
    BY <2>2, <2>4, <2>5 DEF Outputs
  <2> QED BY <1>1, <2>7, <2>8 DEF c
<1>3. CASE ~(p.format = "compressed" /\ read.clean)
  <2>1. out = [content |-> c, clean |-> p.format # "compressed" /\ ~p.dense]
    BY <1>3 DEF EmitLiteralCandidate, c
  <2>2. ASSUME NEW seen, out.content \in seen PROVE Covered(c, seen)
    BY <2>1, <2>2 DEF Covered
  <2> QED BY <1>1, <2>1, <2>2 DEF Outputs, c
<1> QED BY <1>2, <1>3

\* Without a blocker, every literal that is scanned and encodes something is decoded.
LEMMA LiteralsDecoded ==
    ASSUME NEW c \in Contents
    PROVE  LET decoded == DecodeStaticLiterals(c)
               scanned == Scanned(Payload[c])
           IN  /\ decoded.outputs \in Seq(Outputs) /\ decoded.clean \in BOOLEAN
               /\ decoded.clean =>
                     \A i \in DOMAIN scanned : scanned[i].content # None =>
                        \E j \in DOMAIN decoded.outputs :
                            /\ decoded.outputs[j] = EmitLiteralCandidate(scanned[i])
                            /\ decoded.outputs[j].clean
<1> DEFINE decoded == DecodeStaticLiterals(c)
           scanned == Scanned(Payload[c])
           encoding == {l \in ToSet(scanned) : l.content # None}
           encoded == Kept(scanned, encoding)
           n == Capped(Len(encoded), MaxCandidates)
           outputs == [i \in 1..n |-> EmitLiteralCandidate(encoded[i])]
<1>1. decoded = IF Size[c] > MaxSourceBytes THEN [outputs |-> <<>>, clean |-> FALSE]
                ELSE [outputs |-> outputs,
                      clean |-> n < MaxCandidates /\ \A i \in 1..n : outputs[i].clean]
  BY Zenon DEF DecodeStaticLiterals
<1>2. scanned \in Seq(Literals) /\ MaxCandidates \in Nat
  BY ScannedType, PayloadAssumption
<1> HIDE DEF scanned
<1>3. encoded \in Seq(Literals) /\ ToSet(encoded) = encoding
  BY <1>2, KeptElements
<1> HIDE DEF encoded
<1> DEFINE length == Len(encoded)
<1>4. /\ n \in Nat /\ n <= length /\ (n < MaxCandidates => n = length)
      /\ DOMAIN encoded = 1..length /\ length \in Nat
  BY <1>2, <1>3 DEF Capped
<1> HIDE DEF length
<1> HIDE DEF n
<1>5. \A i \in 1..n : encoded[i] \in Literals /\ encoded[i].content # None
  <2>1. ASSUME NEW i \in 1..n PROVE encoded[i] \in Literals /\ encoded[i] \in ToSet(encoded)
    <3>1. i \in DOMAIN encoded
      BY <1>4
    <3>2. encoded[i] \in Literals
      BY <1>3, <3>1
    <3> QED BY <3>1, <3>2 DEF ToSet
  <2> QED BY <1>3, <2>1
<1>6. \A i \in 1..n : outputs[i] \in Outputs
  BY <1>5, LiteralCovered
<1>7. outputs \in [1..n -> Outputs] /\ DOMAIN outputs = 1..n
  BY <1>6
<1>8. outputs \in Seq(Outputs)
  <2> HIDE DEF outputs
  <2>1. n \in Nat
    BY <1>4
  <2> QED BY <1>7, <2>1, IsSequence
<1>9. ASSUME n < MaxCandidates, \A i \in 1..n : outputs[i].clean,
             NEW i \in DOMAIN scanned, scanned[i].content # None
      PROVE  \E j \in DOMAIN outputs : /\ outputs[j] = EmitLiteralCandidate(scanned[i])
                                       /\ outputs[j].clean
  <2>1. scanned[i] \in encoding
    BY <1>9 DEF ToSet
  <2>2. PICK j \in DOMAIN encoded : encoded[j] = scanned[i]
    BY <1>3, <2>1 DEF ToSet
  <2>3. j \in 1..n
    BY <1>4, <1>9
  <2> QED BY <1>9, <2>2, <2>3
<1> HIDE DEF outputs, decoded, encoding
<1> DEFINE clean == n < MaxCandidates /\ \A i \in 1..n : outputs[i].clean
<1>10. decoded.outputs \in Seq(Outputs) /\ decoded.clean \in BOOLEAN
  <2>1. clean \in BOOLEAN /\ <<>> \in Seq(Outputs)
    OBVIOUS
  <2> HIDE DEF clean
  <2> QED BY <1>1, <1>8, <2>1 DEF clean
<1>11. decoded.clean => /\ decoded.outputs = outputs /\ n < MaxCandidates
                        /\ \A i \in 1..n : outputs[i].clean
  BY <1>1
<1> QED BY <1>9, <1>10, <1>11 DEF decoded, scanned

-----------------------------------------------------------------------------
(* The walk.                                                               *)

\* A walk that goes on without looking at a payload.
Continues(s, w) ==
    /\ s \in Walks /\ s.visited = w.visited
    /\ s.items >= w.items /\ s.payloads >= w.payloads
    /\ s.clean => w.clean

\* A walk nothing has been left out of so far.
Thorough(w) == w.clean /\ ~BudgetSpent(w)

\* A loop is left only for a blocker or a budget.
Awake(w) == w.going \/ ~Thorough(w)

\* A walk that goes on at some depth and below it.
Later(s, w, depth) ==
    /\ s.items >= w.items /\ s.payloads >= w.payloads
    /\ s.clean => w.clean
    /\ w.visited \subseteq s.visited
    /\ \A c \in Contents, n \in Nat :
          <<c, n>> \in s.visited /\ <<c, n>> \notin w.visited => n \in depth..MaxNestedDepth

SeenAt(w, n) == {d \in Contents : <<d, n>> \in w.visited}

\* What was visited at some depth and below it has had all its parts looked at.
Settled(w, depth) ==
    Thorough(w) => \A c \in Contents, n \in Nat :
                    <<c, n>> \in w.visited /\ n >= depth =>
                        \A d \in Parts(c) : Covered(d, SeenAt(w, n + 1))

\* What a loop makes of a walk, at the depth of the payloads it goes into; seen are those
\* it should have gone into.
Goes(s, w, depth, seen) ==
    /\ Later(s, w, depth)
    /\ Awake(w) => Awake(s)
    /\ Settled(w, depth) => Settled(s, depth)
    /\ Awake(w) /\ Thorough(s) => seen \subseteq SeenAt(s, depth)

\* The limits of the walk are numbers.
LEMMA LimitTypes ==
    /\ MaxNestedDepth \in Nat /\ MaxArtifacts \in Nat /\ MaxPayloads \in Nat
    /\ MaxTotalDecodedBytes \in Nat
  BY PayloadAssumption

\* A budget that is spent stays so.
LEMMA ThoroughBefore ==
    ASSUME NEW s \in Walks, NEW w \in Walks, s.items >= w.items, s.payloads >= w.payloads,
           s.clean => w.clean, Thorough(s)
    PROVE  Thorough(w)
  BY LimitTypes DEF Thorough, BudgetSpent, Walks

\* What is covered by some visits is covered by more.
LEMMA CoveredMore ==
    ASSUME NEW d, NEW few, NEW many, few \subseteq many, Covered(d, few)
    PROVE  Covered(d, many)
  BY DEF Covered

\* A walk that goes on without visiting anything stays settled.
LEMMA SettledMore ==
    ASSUME NEW s \in Walks, NEW w \in Walks, NEW depth \in Nat, Continues(s, w), Settled(w, depth)
    PROVE  Settled(s, depth)
<1>1. ASSUME Thorough(s) PROVE Thorough(w) /\ s.visited = w.visited
  BY <1>1, ThoroughBefore DEF Continues
<1> QED BY <1>1 DEF Settled, SeenAt

\* A walk that only counts goes on, with no target reached.
LEMMA ContinuesGoes ==
    ASSUME NEW s \in Walks, NEW w \in Walks, NEW depth \in Nat, Continues(s, w),
           Awake(w) => Awake(s)
    PROVE  Goes(s, w, depth, {})
<1>1. Later(s, w, depth)
  BY DEF Continues, Later
<1> QED BY <1>1, SettledMore DEF Goes

\* Counting, then counting again.
LEMMA ContinuesOn ==
    ASSUME NEW s \in Walks, NEW w \in Walks, NEW u \in Walks, Continues(s, w), Continues(w, u)
    PROVE  Continues(s, u)
  BY DEF Continues, Walks

\* Two stretches of a walk make one that has reached the targets of both.
LEMMA GoesOn ==
    ASSUME NEW s \in Walks, NEW w \in Walks, NEW u \in Walks, NEW depth \in Nat, NEW A, NEW B,
           Goes(s, w, depth, A), Goes(w, u, depth, B)
    PROVE  Goes(s, u, depth, A \cup B)
<1>1. /\ s.items >= w.items /\ s.payloads >= w.payloads /\ (s.clean => w.clean)
      /\ w.visited \subseteq s.visited
  BY DEF Goes, Later
<1>2. /\ w.items >= u.items /\ w.payloads >= u.payloads /\ (w.clean => u.clean)
      /\ u.visited \subseteq w.visited
  BY DEF Goes, Later
<1>3. s.items >= u.items /\ s.payloads >= u.payloads
  BY <1>1, <1>2 DEF Walks
<1>4. Later(s, u, depth)
  <2>1. ASSUME NEW c \in Contents, NEW n \in Nat, <<c, n>> \in s.visited, <<c, n>> \notin u.visited
        PROVE  n \in depth..MaxNestedDepth
    BY <2>1, Zenon DEF Goes, Later
  <2> QED BY <1>1, <1>2, <1>3, <2>1 DEF Later
<1>5. Awake(u) => Awake(s)
  BY DEF Goes
<1>6. Settled(u, depth) => Settled(s, depth)
  BY DEF Goes
<1>7. ASSUME Awake(u), Thorough(s) PROVE A \cup B \subseteq SeenAt(s, depth)
  <2>1. Awake(w) /\ Thorough(w)
    BY <1>1, <1>7, ThoroughBefore DEF Goes
  <2>2. A \subseteq SeenAt(s, depth) /\ B \subseteq SeenAt(w, depth)
    BY <1>7, <2>1 DEF Goes
  <2>3. SeenAt(w, depth) \subseteq SeenAt(s, depth)
    BY <1>1 DEF SeenAt
  <2> QED BY <2>2, <2>3
<1> QED BY <1>4, <1>5, <1>6, <1>7 DEF Goes

\* No step at all is a stretch of a walk.
LEMMA GoesItself ==
    ASSUME NEW w \in Walks, NEW depth \in Nat
    PROVE  Goes(w, w, depth, {})
<1>1. Later(w, w, depth)
  BY DEF Later, Walks
<1> QED BY <1>1 DEF Goes

\* A loop whose steps go into what they should.
LEMMA LoopGoes ==
    ASSUME NEW N \in Nat, NEW depth \in Nat, NEW z \in Walks,
           NEW G \in [1..N -> [Walks -> Walks]], NEW T,
           \A n \in 1..N : \A w \in Walks : Goes(G[n][w], w, depth, T[n]),
           NEW all, \A d \in all : \E n \in 1..N : d \in T[n]
    PROVE  After(z, G) \in Walks /\ Goes(After(z, G), z, depth, all)
<1> DEFINE P == [n \in 0..N |-> {w \in Walks : Goes(w, z, depth, UNION {T[i] : i \in 1..n})}]
<1>1. z \in P[0]
  <2>1. 0 \in 0..N /\ 1..0 = {}
    OBVIOUS
  <2>2. UNION {T[i] : i \in 1..0} = {}
    BY <2>1
  <2>3. Goes(z, z, depth, UNION {T[i] : i \in 1..0})
    <3> DEFINE none == UNION {T[i] : i \in 1..0}
    <3>1. none = {}
      BY <2>2
    <3> HIDE DEF none
    <3>2. Goes(z, z, depth, none)
      BY <3>1, GoesItself
    <3> QED BY <3>2 DEF none
  <2>4. P[0] = {w \in Walks : Goes(w, z, depth, UNION {T[i] : i \in 1..0})}
    BY <2>1
  <2> HIDE DEF P
  <2> QED BY <2>3, <2>4
<1>2. ASSUME NEW n \in 1..N, NEW w \in Walks, w \in P[n - 1]
      PROVE  G[n][w] \in P[n]
  <2>1. /\ n \in 0..N /\ n - 1 \in 0..N /\ G[n][w] \in Walks
        /\ UNION {T[i] : i \in 1..n} = T[n] \cup UNION {T[i] : i \in 1..(n - 1)}
    <3>1. 1..n = (1..(n - 1)) \cup {n} /\ n \in 0..N /\ n - 1 \in 0..N
      OBVIOUS
    <3> QED BY <3>1
  <2>2. Goes(w, z, depth, UNION {T[i] : i \in 1..(n - 1)})
    BY <1>2, <2>1
  <2>3. Goes(G[n][w], z, depth, T[n] \cup UNION {T[i] : i \in 1..(n - 1)})
    BY <2>1, <2>2, GoesOn
  <2>4. P[n] = {s \in Walks : Goes(s, z, depth, UNION {T[i] : i \in 1..n})}
    BY <2>1
  <2> HIDE DEF P
  <2> QED BY <2>1, <2>3, <2>4
<1>3. P[N] = {w \in Walks : Goes(w, z, depth, UNION {T[i] : i \in 1..N})}
  OBVIOUS
<1> HIDE DEF P
<1>4. After(z, G) \in Walks /\ After(z, G) \in P[N]
  BY <1>1, <1>2, Loop
<1>5. Goes(After(z, G), z, depth, UNION {T[i] : i \in 1..N})
  BY <1>3, <1>4
<1>6. all \subseteq UNION {T[i] : i \in 1..N}
  OBVIOUS
<1> QED BY <1>4, <1>5, <1>6 DEF Goes

\* What has the fields of a walk is one.
LEMMA IsWalk ==
    ASSUME NEW u, u = [x \in {"items", "payloads", "bytes", "visited", "clean", "going"} |-> u[x]],
           u.items \in Nat, u.payloads \in Nat, u.bytes \in Nat,
           u.visited \in SUBSET (Contents \X Nat), u.clean \in BOOLEAN, u.going \in BOOLEAN
    PROVE  u \in Walks
<1>1. u = [items |-> u.items, payloads |-> u.payloads, bytes |-> u.bytes,
           visited |-> u.visited, clean |-> u.clean, going |-> u.going]
  OBVIOUS
<1>2. ASSUME NEW i \in Nat, NEW p \in Nat, NEW b \in Nat, NEW v \in SUBSET (Contents \X Nat),
             NEW c \in BOOLEAN, NEW g \in BOOLEAN
      PROVE  [items |-> i, payloads |-> p, bytes |-> b, visited |-> v, clean |-> c, going |-> g]
               \in Walks
  BY Zenon DEF Walks
<1>3. [items |-> u.items, payloads |-> u.payloads, bytes |-> u.bytes,
       visited |-> u.visited, clean |-> u.clean, going |-> u.going] \in Walks
  BY <1>2
<1> QED BY <1>1, <1>3, Zenon

\* The fields of a walk, changed one or two at a time.
IsChanged(u, items, payloads, bytes, visited, clean, going) ==
    /\ u \in Walks
    /\ u.items = items /\ u.payloads = payloads /\ u.bytes = bytes
    /\ u.visited = visited /\ u.clean = clean /\ u.going = going

\* The fields of a walk.
LEMMA WalkTypes ==
    ASSUME NEW w \in Walks
    PROVE  /\ w.items \in Nat /\ w.payloads \in Nat /\ w.bytes \in Nat
           /\ w.visited \in SUBSET (Contents \X Nat) /\ w.clean \in BOOLEAN /\ w.going \in BOOLEAN
           /\ DOMAIN w = {"items", "payloads", "bytes", "visited", "clean", "going"}
  BY DEF Walks

\* A walk with an artifact more.
LEMMA ChangedItemsClean ==
    ASSUME NEW w \in Walks, NEW items \in Nat, NEW clean \in BOOLEAN
    PROVE  IsChanged([w EXCEPT !.items = items, !.clean = clean],
                     items, w.payloads, w.bytes, w.visited, clean, w.going)
<1> DEFINE u == [w EXCEPT !.items = items, !.clean = clean]
<1>1. /\ DOMAIN u = {"items", "payloads", "bytes", "visited", "clean", "going"}
      /\ u = [x \in DOMAIN u |-> u[x]]
  BY WalkTypes
<1>2. u.items = items /\ u.payloads = w.payloads /\ u.bytes = w.bytes
  BY WalkTypes
<1>3. u.visited = w.visited /\ u.clean = clean /\ u.going = w.going
  BY WalkTypes
<1> HIDE DEF u
<1>4. u \in Walks
  BY <1>1, <1>2, <1>3, IsWalk, WalkTypes
<1>5. IsChanged(u, items, w.payloads, w.bytes, w.visited, clean, w.going)
  BY <1>2, <1>3, <1>4 DEF IsChanged
<1> QED BY <1>5 DEF u

\* A walk with a blocker.
LEMMA ChangedClean ==
    ASSUME NEW w \in Walks, NEW clean \in BOOLEAN
    PROVE  IsChanged([w EXCEPT !.clean = clean],
                     w.items, w.payloads, w.bytes, w.visited, clean, w.going)
<1> DEFINE u == [w EXCEPT !.clean = clean]
<1>1. /\ DOMAIN u = {"items", "payloads", "bytes", "visited", "clean", "going"}
      /\ u = [x \in DOMAIN u |-> u[x]]
  BY WalkTypes
<1>2. u.items = w.items /\ u.payloads = w.payloads /\ u.bytes = w.bytes
  BY WalkTypes
<1>3. u.visited = w.visited /\ u.clean = clean /\ u.going = w.going
  BY WalkTypes
<1> HIDE DEF u
<1>4. u \in Walks
  BY <1>1, <1>2, <1>3, IsWalk, WalkTypes
<1>5. IsChanged(u, w.items, w.payloads, w.bytes, w.visited, clean, w.going)
  BY <1>2, <1>3, <1>4 DEF IsChanged
<1> QED BY <1>5 DEF u

\* A walk whose loop stops or starts.
LEMMA ChangedGoing ==
    ASSUME NEW w \in Walks, NEW going \in BOOLEAN
    PROVE  IsChanged([w EXCEPT !.going = going],
                     w.items, w.payloads, w.bytes, w.visited, w.clean, going)
<1> DEFINE u == [w EXCEPT !.going = going]
<1>1. /\ DOMAIN u = {"items", "payloads", "bytes", "visited", "clean", "going"}
      /\ u = [x \in DOMAIN u |-> u[x]]
  BY WalkTypes
<1>2. u.items = w.items /\ u.payloads = w.payloads /\ u.bytes = w.bytes
  BY WalkTypes
<1>3. u.visited = w.visited /\ u.clean = w.clean /\ u.going = going
  BY WalkTypes
<1> HIDE DEF u
<1>4. u \in Walks
  BY <1>1, <1>2, <1>3, IsWalk, WalkTypes
<1>5. IsChanged(u, w.items, w.payloads, w.bytes, w.visited, w.clean, going)
  BY <1>2, <1>3, <1>4 DEF IsChanged
<1> QED BY <1>5 DEF u

\* A walk whose loop met a limit.
LEMMA ChangedCleanGoing ==
    ASSUME NEW w \in Walks, NEW clean \in BOOLEAN, NEW going \in BOOLEAN
    PROVE  IsChanged([w EXCEPT !.clean = clean, !.going = going],
                     w.items, w.payloads, w.bytes, w.visited, clean, going)
<1> DEFINE u == [w EXCEPT !.clean = clean, !.going = going]
<1>1. /\ DOMAIN u = {"items", "payloads", "bytes", "visited", "clean", "going"}
      /\ u = [x \in DOMAIN u |-> u[x]]
  BY WalkTypes
<1>2. u.items = w.items /\ u.payloads = w.payloads /\ u.bytes = w.bytes
  BY WalkTypes
<1>3. u.visited = w.visited /\ u.clean = clean /\ u.going = going
  BY WalkTypes
<1> HIDE DEF u
<1>4. u \in Walks
  BY <1>1, <1>2, <1>3, IsWalk, WalkTypes
<1>5. IsChanged(u, w.items, w.payloads, w.bytes, w.visited, clean, going)
  BY <1>2, <1>3, <1>4 DEF IsChanged
<1> QED BY <1>5 DEF u

\* A walk that enters a payload.
LEMMA ChangedVisitedGoing ==
    ASSUME NEW w \in Walks, NEW visited \in SUBSET (Contents \X Nat), NEW going \in BOOLEAN
    PROVE  IsChanged([w EXCEPT !.visited = visited, !.going = going],
                     w.items, w.payloads, w.bytes, visited, w.clean, going)
<1> DEFINE u == [w EXCEPT !.visited = visited, !.going = going]
<1>1. /\ DOMAIN u = {"items", "payloads", "bytes", "visited", "clean", "going"}
      /\ u = [x \in DOMAIN u |-> u[x]]
  BY WalkTypes
<1>2. u.items = w.items /\ u.payloads = w.payloads /\ u.bytes = w.bytes
  BY WalkTypes
<1>3. u.visited = visited /\ u.clean = w.clean /\ u.going = going
  BY WalkTypes
<1> HIDE DEF u
<1>4. u \in Walks
  BY <1>1, <1>2, <1>3, IsWalk, WalkTypes
<1>5. IsChanged(u, w.items, w.payloads, w.bytes, visited, w.clean, going)
  BY <1>2, <1>3, <1>4 DEF IsChanged
<1> QED BY <1>5 DEF u

\* A walk that pays for a payload.
LEMMA ChangedPayloadsBytes ==
    ASSUME NEW w \in Walks, NEW payloads \in Nat, NEW bytes \in Nat
    PROVE  IsChanged([w EXCEPT !.payloads = payloads, !.bytes = bytes],
                     w.items, payloads, bytes, w.visited, w.clean, w.going)
<1> DEFINE u == [w EXCEPT !.payloads = payloads, !.bytes = bytes]
<1>1. /\ DOMAIN u = {"items", "payloads", "bytes", "visited", "clean", "going"}
      /\ u = [x \in DOMAIN u |-> u[x]]
  BY WalkTypes
<1>2. u.items = w.items /\ u.payloads = payloads /\ u.bytes = bytes
  BY WalkTypes
<1>3. u.visited = w.visited /\ u.clean = w.clean /\ u.going = w.going
  BY WalkTypes
<1> HIDE DEF u
<1>4. u \in Walks
  BY <1>1, <1>2, <1>3, IsWalk, WalkTypes
<1>5. IsChanged(u, w.items, payloads, bytes, w.visited, w.clean, w.going)
  BY <1>2, <1>3, <1>4 DEF IsChanged
<1> QED BY <1>5 DEF u

\* An artifact more, or a blocker.
LEMMA AddItemContinues ==
    ASSUME NEW w \in Walks, NEW clean \in BOOLEAN
    PROVE  /\ Continues(AddItem(w, clean), w)
           /\ AddItem(w, clean).going = w.going
           /\ AddItem(w, clean).clean => clean
           /\ Awake(w) => Awake(AddItem(w, clean))
<1> DEFINE s == AddItem(w, clean)
           no == FALSE
           both == w.clean /\ clean
<1>1. /\ s \in Walks /\ s.visited = w.visited /\ s.payloads = w.payloads /\ s.going = w.going
      /\ s.items >= w.items /\ (s.clean => w.clean /\ clean)
  <2>1. /\ w.items \in Nat /\ w.items + 1 \in Nat /\ no \in BOOLEAN /\ both \in BOOLEAN
        /\ w.payloads \in Nat /\ w.bytes \in Nat /\ w.going \in BOOLEAN
        /\ w.visited \in SUBSET (Contents \X Nat)
    BY DEF Walks
  <2>2. s = [w EXCEPT !.clean = no] \/ s = [w EXCEPT !.items = w.items + 1, !.clean = both]
    BY DEF AddItem
  <2> HIDE DEF no, both, s
  <2>3. CASE s = [w EXCEPT !.clean = no]
    <3>1. IsChanged(s, w.items, w.payloads, w.bytes, w.visited, no, w.going)
      BY <2>1, <2>3, ChangedClean
    <3> QED BY <2>1, <3>1 DEF no, IsChanged
  <2>4. CASE s = [w EXCEPT !.items = w.items + 1, !.clean = both]
    <3>1. IsChanged(s, w.items + 1, w.payloads, w.bytes, w.visited, both, w.going)
      BY <2>1, <2>4, ChangedItemsClean
    <3>2. both => w.clean /\ clean
      BY DEF both
    <3> QED BY <2>1, <3>1, <3>2 DEF IsChanged
  <2> QED BY <2>2, <2>3, <2>4
<1> HIDE DEF s
<1>3. Continues(s, w)
  BY <1>1 DEF Continues, Walks
<1>4. Thorough(s) => Thorough(w)
  BY <1>1, <1>3, ThoroughBefore DEF Continues
<1> QED BY <1>1, <1>3, <1>4 DEF s, Awake

\* The bytes of a payload are counted; those that are too many end the loop.
LEMMA SpendContinues ==
    ASSUME NEW w \in Walks, NEW c \in Contents
    PROVE  Continues(Spend(w, c), w) /\ (Awake(w) => Awake(Spend(w, c)))
<1> DEFINE payloads == w.payloads + 1
           bytes == w.bytes + Size[c]
           spent == [w EXCEPT !.payloads = payloads, !.bytes = bytes]
           no == FALSE
           s == Spend(w, c)
<1>1. payloads \in Nat /\ bytes \in Nat /\ payloads >= w.payloads /\ no \in BOOLEAN
  BY WalkTypes, ContentsAssumption
<1>2. s = spent \/ s = [spent EXCEPT !.clean = no, !.going = no]
  BY DEF Spend
<1> HIDE DEF payloads, bytes, no
<1>3. IsChanged(spent, w.items, payloads, bytes, w.visited, w.clean, w.going)
  BY <1>1, ChangedPayloadsBytes
<1> HIDE DEF spent, s
<1>4. spent \in Walks
  BY <1>3 DEF IsChanged
<1>5. CASE s = spent
  <2>1. Continues(s, w) /\ s.going = w.going
    BY <1>1, <1>3, <1>5, WalkTypes DEF IsChanged, Continues
  <2>2. Thorough(s) => Thorough(w)
    BY <1>4, <1>5, <2>1, ThoroughBefore DEF Continues
  <2> QED BY <2>1, <2>2 DEF Awake, s
<1>6. CASE s = [spent EXCEPT !.clean = no, !.going = no]
  <2>1. IsChanged(s, spent.items, spent.payloads, spent.bytes, spent.visited, no, no)
    BY <1>1, <1>4, <1>6, ChangedCleanGoing
  <2>2. Continues(s, w) /\ ~s.clean
    BY <1>1, <1>3, <2>1, WalkTypes DEF IsChanged, Continues, no
  <2> QED BY <2>2 DEF Awake, Thorough, s
<1> QED BY <1>2, <1>5, <1>6

\* One step of a loop before it enters a payload: T are the contents it should enter.
Moves(step, w, T) ==
    /\ step.walk \in Walks /\ step.into \in Contents \cup {None}
    /\ Continues(step.walk, w) /\ (Awake(w) => Awake(step.walk))
    /\ Awake(w) /\ Thorough(step.walk) => T \subseteq Contents \cap {step.into}

\* The content of an entry of an archive, when it is not a directory.
OfEntry(e) == IF e.kind = "directory" THEN {} ELSE {e.content}

\* An entry of an archive is counted and entered, or the walk is stopped or blocked.
LEMMA EntryMoves ==
    ASSUME NEW w \in Walks, NEW e \in Extracts
    PROVE  Moves(ProcessEntry(w, e), w, OfEntry(e))
<1> DEFINE step == ProcessEntry(w, e)
           no == FALSE
<1>1. Continues(w, w)
  BY WalkTypes DEF Continues
<1>2. e.content \in Contents \cup {None}
  BY DEF Extracts
<1>3. CASE ~w.going \/ e.kind = "directory"
  <2>1. step.walk = w /\ step.into = None
    BY <1>3 DEF ProcessEntry
  <2>2. ASSUME Awake(w), Thorough(w) PROVE OfEntry(e) = {}
    BY <1>3, <2>2 DEF Awake, OfEntry
  <2> HIDE DEF step
  <2>3. Moves(step, w, OfEntry(e))
    BY <1>1, <2>1, <2>2 DEF Moves
  <2> QED BY <2>3 DEF step
<1>4. CASE ~(~w.going \/ e.kind = "directory") /\ w.payloads >= MaxPayloads
  <2>1. step.walk = [w EXCEPT !.clean = no, !.going = no] /\ step.into = None
    BY <1>4 DEF ProcessEntry
  <2>2. no \in BOOLEAN
    OBVIOUS
  <2> HIDE DEF step, no
  <2>3. IsChanged(step.walk, w.items, w.payloads, w.bytes, w.visited, no, no)
    BY <2>1, <2>2, ChangedCleanGoing
  <2>4. /\ step.walk \in Walks /\ Continues(step.walk, w) /\ ~Thorough(step.walk)
        /\ Awake(step.walk)
    BY <2>3, WalkTypes DEF IsChanged, Continues, Thorough, Awake, no
  <2>5. Moves(step, w, OfEntry(e))
    BY <2>1, <2>4 DEF Moves
  <2> QED BY <2>5 DEF step
<1>5. CASE ~(~w.going \/ e.kind = "directory") /\ ~(w.payloads >= MaxPayloads)
  <2> DEFINE read == e.content # None
  <2>1. step.walk = AddItem(w, read) /\ step.into = e.content
    BY <1>5 DEF ProcessEntry
  <2>2. /\ Continues(step.walk, w) /\ (step.walk.clean => read)
        /\ (Awake(w) => Awake(step.walk))
    BY <2>1, AddItemContinues
  <2>3. Thorough(step.walk) => OfEntry(e) \subseteq Contents \cap {e.content}
    BY <1>2, <2>2 DEF Thorough, OfEntry
  <2> HIDE DEF step
  <2>4. Moves(step, w, OfEntry(e))
    BY <1>2, <2>1, <2>2, <2>3 DEF Moves, Continues
  <2> QED BY <2>4 DEF step
<1> QED BY <1>3, <1>4, <1>5

\* An output of the decoder is counted and entered, or the walk is blocked or out of budget.
LEMMA OutputMoves ==
    ASSUME NEW w \in Walks, NEW o \in Outputs
    PROVE  Moves(ProcessOutput(w, o), w, {o.content})
<1> DEFINE step == ProcessOutput(w, o)
           no == FALSE
<1>1. o.content \in Contents /\ o.clean \in BOOLEAN
  BY DEF Outputs
<1>2. CASE ~w.going \/ w.items >= MaxArtifacts
  <2>1. step.walk = [w EXCEPT !.going = no] /\ step.into = None
    BY <1>2 DEF ProcessOutput
  <2>2. no \in BOOLEAN
    OBVIOUS
  <2> HIDE DEF step, no
  <2>3. IsChanged(step.walk, w.items, w.payloads, w.bytes, w.visited, w.clean, no)
    BY <2>1, <2>2, ChangedGoing
  <2>4. step.walk \in Walks /\ Continues(step.walk, w)
    BY <2>3, WalkTypes DEF IsChanged, Continues
  <2>5. Thorough(step.walk) => Thorough(w)
    BY <2>4, ThoroughBefore DEF Continues
  <2>6. w.items >= MaxArtifacts => ~Thorough(w)
    BY DEF Thorough, BudgetSpent
  <2>7. Awake(w) => ~Thorough(step.walk) /\ Awake(step.walk)
    BY <1>2, <2>5, <2>6 DEF Awake
  <2>8. Moves(step, w, {o.content})
    BY <2>1, <2>4, <2>7 DEF Moves
  <2> QED BY <2>8 DEF step
<1>3. CASE ~(~w.going \/ w.items >= MaxArtifacts)
  <2>1. /\ step.walk = AddItem(w, o.clean)
        /\ step.into = IF o.clean /\ w.payloads < MaxPayloads THEN o.content ELSE None
    BY <1>3 DEF ProcessOutput
  <2>2. /\ Continues(step.walk, w) /\ (step.walk.clean => o.clean)
        /\ (Awake(w) => Awake(step.walk))
    BY <1>1, <2>1, AddItemContinues
  <2> HIDE DEF step
  <2>3. step.walk \in Walks
    BY <2>2 DEF Continues
  <2>4. Thorough(step.walk) => Thorough(w)
    BY <2>2, <2>3, ThoroughBefore DEF Continues
  <2>5. Thorough(w) => w.payloads < MaxPayloads
    BY WalkTypes, LimitTypes DEF Thorough, BudgetSpent
  <2>6. Thorough(step.walk) => step.into = o.content
    BY <2>1, <2>2, <2>4, <2>5 DEF Thorough
  <2>7. Moves(step, w, {o.content})
    BY <1>1, <2>1, <2>2, <2>3, <2>6 DEF Moves
  <2> QED BY <2>7 DEF step
<1> QED BY <1>2, <1>3

\* What a visit does: its payload is among the visited, or something is reported, and what
\* lies at its depth and below is as settled as before.
Good(v, w) ==
    /\ Later(w, v.walk, v.depth)
    /\ w.clean => <<v.content, v.depth>> \in w.visited
    /\ Settled(v.walk, v.depth) => Settled(w, v.depth)

\* A visit in turn.
LEMMA VisitType ==
    ASSUME NEW w \in Walks, NEW c \in Contents, NEW depth \in Nat, NEW forced \in BOOLEAN
    PROVE  LET v == [walk |-> w, content |-> c, depth |-> depth, forced |-> forced]
           IN  v \in Visits /\ v.walk = w /\ v.content = c /\ v.depth = depth
  BY DEF Visits

\* Entering a payload leaves a walk.
LEMMA EnterType ==
    ASSUME NEW processed \in [Visits -> Walks], NEW depth \in Nat, NEW step,
           step.walk \in Walks, step.into \in Contents \cup {None}
    PROVE  Enter(processed, step, depth) \in Walks
<1> DEFINE spent == Spend(step.walk, step.into)
           visit == [walk |-> spent, content |-> step.into, depth |-> depth + 1, forced |-> FALSE]
           yes == TRUE
<1>1. CASE step.into = None
  BY <1>1 DEF Enter
<1>2. CASE step.into # None
  <2>1. step.into \in Contents
    BY <1>2
  <2>2. spent \in Walks
    BY <2>1, SpendContinues DEF Continues
  <2>3. \/ Enter(processed, step, depth) = spent
        \/ Enter(processed, step, depth) = [processed[visit] EXCEPT !.going = yes]
    BY <1>2 DEF Enter
  <2>4. yes \in BOOLEAN /\ depth + 1 \in Nat /\ FALSE \in BOOLEAN
    OBVIOUS
  <2> HIDE DEF spent, yes
  <2>5. visit \in Visits
    BY <2>1, <2>2, <2>4, VisitType
  <2> HIDE DEF visit
  <2>6. processed[visit] \in Walks
    BY <2>5
  <2>7. [processed[visit] EXCEPT !.going = yes] \in Walks
    BY <2>4, <2>6, ChangedGoing DEF IsChanged
  <2> QED BY <2>2, <2>3, <2>7
<1> QED BY <1>1, <1>2

\* Entering a payload goes on with the walk, when visits one deeper are good.
LEMMA EnterGoes ==
    ASSUME NEW processed \in [Visits -> Walks], NEW depth \in Nat,
           \A v \in Visits : v.depth = depth + 1 => Good(v, processed[v]),
           NEW w \in Walks, NEW step, NEW T, Moves(step, w, T)
    PROVE  Goes(Enter(processed, step, depth), w, depth + 1, T)
<1> DEFINE spent == Spend(step.walk, step.into)
           visit == [walk |-> spent, content |-> step.into, depth |-> depth + 1, forced |-> FALSE]
           yes == TRUE
           s == Enter(processed, step, depth)
<1>1. /\ step.walk \in Walks /\ step.into \in Contents \cup {None}
      /\ Continues(step.walk, w) /\ (Awake(w) => Awake(step.walk))
      /\ Awake(w) /\ Thorough(step.walk) => T \subseteq Contents \cap {step.into}
  BY DEF Moves
<1>2. depth + 1 \in Nat /\ yes \in BOOLEAN /\ FALSE \in BOOLEAN
  OBVIOUS
<1>3. CASE step.into = None
  <2>1. s = step.walk
    BY <1>3 DEF Enter
  <2> HIDE DEF s
  <2>2. Goes(s, w, depth + 1, {})
    BY <1>1, <1>2, <2>1, ContinuesGoes
  <2>3. Awake(w) /\ Thorough(s) => T = {}
    BY <1>1, <1>3, <2>1, NoneAssumption
  <2>4. Goes(s, w, depth + 1, T)
    BY <2>2, <2>3 DEF Goes
  <2> QED BY <2>4 DEF s
<1>4. CASE step.into # None
  <2>1. step.into \in Contents
    BY <1>1, <1>4
  <2>2. Continues(spent, step.walk) /\ (Awake(step.walk) => Awake(spent))
    BY <1>1, <2>1, SpendContinues
  <2>3. s = IF ~spent.going THEN spent ELSE [processed[visit] EXCEPT !.going = yes]
    BY <1>4 DEF Enter
  <2> HIDE DEF spent, s, yes
  <2>4. spent \in Walks
    BY <2>2 DEF Continues
  <2>5. Continues(spent, w) /\ (Awake(w) => Awake(spent))
    BY <1>1, <2>2, <2>4, ContinuesOn
  <2>6. Goes(spent, w, depth + 1, {})
    BY <1>2, <2>4, <2>5, ContinuesGoes
  <2>7. CASE ~spent.going
    <3>1. Awake(w) => ~Thorough(s)
      BY <2>3, <2>5, <2>7 DEF Awake
    <3>2. Goes(s, w, depth + 1, {})
      BY <2>3, <2>6, <2>7
    <3>3. Goes(s, w, depth + 1, T)
      BY <3>1, <3>2 DEF Goes
    <3> QED BY <3>3 DEF s
  <2>8. CASE spent.going
    <3> DEFINE after == processed[visit]
    <3>1. /\ visit \in Visits /\ visit.walk = spent
          /\ visit.content = step.into /\ visit.depth = depth + 1
      BY <1>2, <2>1, <2>4, VisitType
    <3> HIDE DEF visit
    <3>2. after \in Walks /\ Good(visit, after)
      BY <3>1
    <3> HIDE DEF after
    <3>3. IsChanged(s, after.items, after.payloads, after.bytes, after.visited, after.clean, yes)
      <4>1. s = [after EXCEPT !.going = yes]
        BY <2>3, <2>8 DEF after
      <4> QED BY <1>2, <3>2, <4>1, ChangedGoing
    <3>4. /\ s \in Walks /\ s.items = after.items /\ s.payloads = after.payloads
          /\ s.visited = after.visited /\ s.clean = after.clean /\ s.going
      BY <3>3 DEF IsChanged, yes
    <3>5. /\ Later(after, spent, depth + 1)
          /\ after.clean => <<step.into, depth + 1>> \in after.visited
          /\ Settled(spent, depth + 1) => Settled(after, depth + 1)
      BY <3>1, <3>2 DEF Good
    <3>6. Later(s, spent, depth + 1)
      BY <3>4, <3>5 DEF Later
    <3>7. Settled(spent, depth + 1) => Settled(s, depth + 1)
      BY <3>4, <3>5 DEF Settled, SeenAt, Thorough, BudgetSpent
    <3>8. Thorough(s) => {step.into} \subseteq SeenAt(s, depth + 1)
      BY <2>1, <3>4, <3>5 DEF Thorough, SeenAt
    <3>9. Goes(s, spent, depth + 1, {step.into})
      BY <3>4, <3>6, <3>7, <3>8 DEF Goes, Awake
    <3>10. Goes(s, w, depth + 1, {step.into} \cup {})
      BY <1>2, <2>4, <2>6, <3>4, <3>9, GoesOn
    <3>11. Thorough(s) => Thorough(spent)
      BY <2>4, <3>4, <3>6, ThoroughBefore DEF Later
    <3>12. Thorough(spent) => Thorough(step.walk)
      BY <1>1, <2>2, <2>4, ThoroughBefore DEF Continues
    <3>13. Awake(w) /\ Thorough(s) => T \subseteq {step.into}
      BY <1>1, <3>11, <3>12
    <3>14. Goes(s, w, depth + 1, T)
      BY <3>10, <3>13 DEF Goes
    <3> QED BY <3>14 DEF s
  <2> QED BY <2>7, <2>8
<1> QED BY <1>3, <1>4

\* The two loops of a visit as steps of After.
ArchiveSteps(processed, c, depth) ==
    [i \in DOMAIN ReadArchive(c).entries |-> [w \in Walks |->
        Enter(processed, ProcessEntry(w, ReadArchive(c).entries[i]), depth)]]

OutputSteps(processed, c, depth) ==
    [i \in DOMAIN DecodeStaticLiterals(c).outputs |-> [w \in Walks |->
        Enter(processed, ProcessOutput(w, DecodeStaticLiterals(c).outputs[i]), depth)]]

\* The loop over the entries of an archive is a sequence of steps.
LEMMA ArchiveStepsType ==
    ASSUME NEW processed \in [Visits -> Walks], NEW c \in Contents, Payload[c].format # None,
           NEW depth \in Nat
    PROVE  LET N == Len(ReadArchive(c).entries)
           IN  /\ N \in Nat /\ DOMAIN ReadArchive(c).entries = 1..N
               /\ ArchiveSteps(processed, c, depth) \in [1..N -> [Walks -> Walks]]
<1> DEFINE list == ReadArchive(c).entries
<1>1. list \in Seq(Extracts)
  BY ArchiveExtracted
<1>2. ArchiveSteps(processed, c, depth) =
        [i \in DOMAIN list |-> [w \in Walks |-> Enter(processed, ProcessEntry(w, list[i]), depth)]]
  BY DEF ArchiveSteps
<1> HIDE DEF list
<1>3. Len(list) \in Nat /\ DOMAIN list = 1..Len(list)
  BY <1>1
<1>4. ASSUME NEW i \in 1..Len(list), NEW w \in Walks
      PROVE  Enter(processed, ProcessEntry(w, list[i]), depth) \in Walks
  <2>1. list[i] \in Extracts
    BY <1>1
  <2>2. Moves(ProcessEntry(w, list[i]), w, OfEntry(list[i]))
    BY <2>1, EntryMoves
  <2> QED BY <2>2, EnterType DEF Moves
<1>5. ArchiveSteps(processed, c, depth) \in [1..Len(list) -> [Walks -> Walks]]
  BY <1>2, <1>3, <1>4
<1> QED BY <1>3, <1>5 DEF list

\* The loop over the outputs of the decoder is a sequence of steps.
LEMMA OutputStepsType ==
    ASSUME NEW processed \in [Visits -> Walks], NEW c \in Contents, NEW depth \in Nat
    PROVE  LET N == Len(DecodeStaticLiterals(c).outputs)
           IN  /\ N \in Nat /\ DOMAIN DecodeStaticLiterals(c).outputs = 1..N
               /\ OutputSteps(processed, c, depth) \in [1..N -> [Walks -> Walks]]
<1> DEFINE list == DecodeStaticLiterals(c).outputs
<1>1. list \in Seq(Outputs)
  BY LiteralsDecoded
<1>2. OutputSteps(processed, c, depth) =
        [i \in DOMAIN list |-> [w \in Walks |-> Enter(processed, ProcessOutput(w, list[i]), depth)]]
  BY DEF OutputSteps
<1> HIDE DEF list
<1>3. Len(list) \in Nat /\ DOMAIN list = 1..Len(list)
  BY <1>1
<1>4. ASSUME NEW i \in 1..Len(list), NEW w \in Walks
      PROVE  Enter(processed, ProcessOutput(w, list[i]), depth) \in Walks
  <2>1. list[i] \in Outputs
    BY <1>1
  <2>2. Moves(ProcessOutput(w, list[i]), w, {list[i].content})
    BY <2>1, OutputMoves
  <2> QED BY <2>2, EnterType DEF Moves
<1>5. OutputSteps(processed, c, depth) \in [1..Len(list) -> [Walks -> Walks]]
  BY <1>2, <1>3, <1>4
<1> QED BY <1>3, <1>5 DEF list

\* Where the loop over an archive starts, and that over the literals of a text.
ArchiveStart(w, c) ==
    LET listed == AddItem(w, ReadArchive(c).clean)
    IN  IF Payload[c].format = "zip" THEN AddItem(listed, ReadArchive(c).clean) ELSE listed

\* What precedes the loop over the entries only counts, and remembers what the reader blocked.
LEMMA ArchiveStartContinues ==
    ASSUME NEW w \in Walks, NEW c \in Contents, Payload[c].format # None
    PROVE  /\ Continues(ArchiveStart(w, c), w) /\ (Awake(w) => Awake(ArchiveStart(w, c)))
           /\ ArchiveStart(w, c).clean => ReadArchive(c).clean
<1> DEFINE clean == ReadArchive(c).clean
           listed == AddItem(w, clean)
           twice == AddItem(listed, clean)
           s == ArchiveStart(w, c)
<1>1. clean \in BOOLEAN
  BY ArchiveExtracted
<1>2. s = IF Payload[c].format = "zip" THEN twice ELSE listed
  BY DEF ArchiveStart
<1> HIDE DEF clean
<1>3. Continues(listed, w) /\ (Awake(w) => Awake(listed)) /\ (listed.clean => clean)
  BY <1>1, AddItemContinues
<1> HIDE DEF listed
<1>4. listed \in Walks
  BY <1>3 DEF Continues
<1>5. Continues(twice, listed) /\ (Awake(listed) => Awake(twice)) /\ (twice.clean => clean)
  BY <1>1, <1>4, AddItemContinues
<1> HIDE DEF twice
<1>6. twice \in Walks
  BY <1>5 DEF Continues
<1>7. Continues(twice, w)
  BY <1>3, <1>4, <1>5, <1>6, ContinuesOn
<1> HIDE DEF s
<1>8. Continues(s, w) /\ (Awake(w) => Awake(s)) /\ (s.clean => clean)
  BY <1>2, <1>3, <1>5, <1>7
<1> QED BY <1>8 DEF s, clean

OutputStart(w, c) == [w EXCEPT !.clean = @ /\ DecodeStaticLiterals(c).clean]

\* What precedes the loop over the outputs remembers what the decoder blocked.
LEMMA OutputStartContinues ==
    ASSUME NEW w \in Walks, NEW c \in Contents
    PROVE  /\ Continues(OutputStart(w, c), w) /\ (Awake(w) => Awake(OutputStart(w, c)))
           /\ OutputStart(w, c).clean => DecodeStaticLiterals(c).clean
<1> DEFINE clean == w.clean /\ DecodeStaticLiterals(c).clean
           s == OutputStart(w, c)
<1>1. clean \in BOOLEAN /\ (clean => w.clean /\ DecodeStaticLiterals(c).clean)
  OBVIOUS
<1>2. s = [w EXCEPT !.clean = clean]
  BY DEF OutputStart
<1> HIDE DEF clean, s
<1>3. IsChanged(s, w.items, w.payloads, w.bytes, w.visited, clean, w.going)
  BY <1>1, <1>2, ChangedClean
<1>4. Continues(s, w) /\ s.going = w.going /\ s.clean = clean
  BY <1>1, <1>3, WalkTypes DEF IsChanged, Continues
<1>5. Thorough(s) => Thorough(w)
  BY <1>4, ThoroughBefore DEF Continues
<1> QED BY <1>1, <1>4, <1>5 DEF s, Awake

\* Both handlers are a start and a loop.
LEMMA LoopsAreAfter ==
    ASSUME NEW processed, NEW w, NEW c, NEW depth
    PROVE  /\ ProcessArchive(processed, w, c, ReadArchive(c), depth) =
                After(ArchiveStart(w, c), ArchiveSteps(processed, c, depth))
           /\ ProcessDecoders(processed, w, DecodeStaticLiterals(c), depth) =
                After(OutputStart(w, c), OutputSteps(processed, c, depth))
<1>1. ProcessArchive(processed, w, c, ReadArchive(c), depth) =
        After(ArchiveStart(w, c), ArchiveSteps(processed, c, depth))
  BY Zenon DEF ProcessArchive, ArchiveStart, ArchiveSteps
<1>2. ProcessDecoders(processed, w, DecodeStaticLiterals(c), depth) =
        After(OutputStart(w, c), OutputSteps(processed, c, depth))
  BY Zenon DEF ProcessDecoders, OutputStart, OutputSteps
<1> QED BY <1>1, <1>2

\* What a loop over all that is in c makes of a walk.
Handled(s, w, c, depth) ==
    /\ s \in Walks
    /\ Goes(s, w, depth + 1, {})
    /\ Thorough(s) => \A d \in Parts(c) : Covered(d, SeenAt(s, depth + 1))

\* A loop leaves a walk, and stays at its depth, before anything is known of processed
\* but its type.
LEMMA LoopTypes ==
    ASSUME NEW processed \in [Visits -> Walks], NEW w \in Walks, NEW c \in Contents,
           NEW depth \in Nat
    PROVE  /\ Payload[c].format # None =>
                ProcessArchive(processed, w, c, ReadArchive(c), depth) \in Walks
           /\ ProcessDecoders(processed, w, DecodeStaticLiterals(c), depth) \in Walks
<1> DEFINE any == [n \in Nat |-> Walks]
<1>1. \A n \in Nat : any[n] = Walks
  OBVIOUS
<1> HIDE DEF any
<1>2. ASSUME NEW N \in Nat, NEW z \in Walks, NEW G \in [1..N -> [Walks -> Walks]]
      PROVE  After(z, G) \in Walks
  <2>1. \A n \in 1..N : \A u \in Walks : G[n][u] \in Walks /\ n \in Nat
    OBVIOUS
  <2>2. z \in any[0] /\ \A n \in 1..N : \A u \in Walks : u \in any[n - 1] => G[n][u] \in any[n]
    BY <1>1, <2>1
  <2> QED BY <2>2, Loop
<1>3. ASSUME Payload[c].format # None
      PROVE  ProcessArchive(processed, w, c, ReadArchive(c), depth) \in Walks
  <2> DEFINE N == Len(ReadArchive(c).entries)
             z == ArchiveStart(w, c)
             G == ArchiveSteps(processed, c, depth)
  <2>1. z \in Walks
    BY <1>3, ArchiveStartContinues DEF Continues
  <2>2. N \in Nat /\ G \in [1..N -> [Walks -> Walks]]
    BY <1>3, ArchiveStepsType
  <2>3. ProcessArchive(processed, w, c, ReadArchive(c), depth) = After(z, G)
    BY LoopsAreAfter
  <2> HIDE DEF N, z, G
  <2> QED BY <1>2, <2>1, <2>2, <2>3
<1>4. ProcessDecoders(processed, w, DecodeStaticLiterals(c), depth) \in Walks
  <2> DEFINE N == Len(DecodeStaticLiterals(c).outputs)
             z == OutputStart(w, c)
             G == OutputSteps(processed, c, depth)
  <2>1. z \in Walks
    BY OutputStartContinues DEF Continues
  <2>2. N \in Nat /\ G \in [1..N -> [Walks -> Walks]]
    BY OutputStepsType
  <2>3. ProcessDecoders(processed, w, DecodeStaticLiterals(c), depth) = After(z, G)
    BY LoopsAreAfter
  <2> HIDE DEF N, z, G
  <2> QED BY <1>2, <2>1, <2>2, <2>3
<1> QED BY <1>3, <1>4

\* An archive is handled: everything in it is reached, or there is a blocker.
LEMMA ArchiveHandled ==
    ASSUME NEW processed \in [Visits -> Walks], NEW w \in Walks, NEW c \in Contents,
           Payload[c].format # None, NEW depth \in Nat, Awake(w),
           \A v \in Visits : v.depth = depth + 1 => Good(v, processed[v])
    PROVE  Handled(ProcessArchive(processed, w, c, ReadArchive(c), depth), w, c, depth)
<1> DEFINE list == ReadArchive(c).entries
           N == Len(list)
           z == ArchiveStart(w, c)
           G == ArchiveSteps(processed, c, depth)
           T == [n \in 1..N |-> OfEntry(list[n])]
           s == After(z, G)
<1>1. N \in Nat /\ DOMAIN list = 1..N /\ G \in [1..N -> [Walks -> Walks]] /\ depth + 1 \in Nat
  BY ArchiveStepsType
<1>2. list \in Seq(Extracts)
  BY ArchiveExtracted
<1>3. /\ z \in Walks /\ Continues(z, w) /\ (Awake(w) => Awake(z))
      /\ z.clean => ReadArchive(c).clean
  BY ArchiveStartContinues DEF Continues
<1>4. \A n \in 1..N : \A u \in Walks : G[n][u] = Enter(processed, ProcessEntry(u, list[n]), depth)
  BY <1>1 DEF ArchiveSteps
<1> HIDE DEF N, z, G
<1>5. ASSUME NEW n \in 1..N, NEW u \in Walks PROVE Goes(G[n][u], u, depth + 1, T[n])
  <2>1. list[n] \in Extracts
    BY <1>2 DEF N
  <2>2. Moves(ProcessEntry(u, list[n]), u, T[n])
    BY <2>1, EntryMoves
  <2> HIDE DEF T
  <2>3. Goes(Enter(processed, ProcessEntry(u, list[n]), depth), u, depth + 1, T[n])
    BY <2>2, EnterGoes
  <2> QED BY <1>4, <2>3
<1>6. T = [n \in 1..N |-> OfEntry(list[n])]
  OBVIOUS
<1> HIDE DEF T
<1>7. s \in Walks /\ Goes(s, z, depth + 1, UNION {T[n] : n \in 1..N})
  <2> DEFINE below == depth + 1
             all == UNION {T[n] : n \in 1..N}
  <2>1. \A n \in 1..N : \A u \in Walks : Goes(G[n][u], u, below, T[n])
    BY <1>5
  <2>2. N \in Nat /\ below \in Nat /\ z \in Walks /\ G \in [1..N -> [Walks -> Walks]]
    BY <1>1, <1>3
  <2>3. \A d \in all : \E n \in 1..N : d \in T[n]
    OBVIOUS
  <2> HIDE DEF list, s, below, all
  <2>4. After(z, G) \in Walks /\ Goes(After(z, G), z, below, all)
    BY <2>1, <2>2, <2>3, LoopGoes
  <2> QED BY <2>4 DEF s, below, all
<1> HIDE DEF s
<1>8. Goes(z, w, depth + 1, {})
  BY <1>1, <1>3, ContinuesGoes
<1>9. Goes(s, w, depth + 1, UNION {T[n] : n \in 1..N} \cup {})
  <2> DEFINE below == depth + 1
             all == UNION {T[n] : n \in 1..N}
  <2>1. /\ below \in Nat /\ s \in Walks /\ z \in Walks
        /\ Goes(s, z, below, all) /\ Goes(z, w, below, {})
    BY <1>1, <1>3, <1>7, <1>8
  <2> HIDE DEF below, all
  <2>2. Goes(s, w, below, all \cup {})
    BY <2>1, GoesOn
  <2> QED BY <2>2 DEF below, all
<1>10. Goes(s, w, depth + 1, {})
  BY <1>9 DEF Goes
<1>11. ASSUME Thorough(s), NEW d \in Parts(c) PROVE Covered(d, SeenAt(s, depth + 1))
  <2>1. Thorough(z)
    BY <1>3, <1>7, <1>11, ThoroughBefore DEF Goes, Later
  <2>2. ReadArchive(c).clean
    BY <1>3, <2>1 DEF Thorough
  <2>3. PICK i \in DOMAIN Payload[c].entries : /\ Payload[c].entries[i].kind # "directory"
                                               /\ Payload[c].entries[i].content = d
    BY <1>11 DEF Parts
  <2>4. PICK j \in DOMAIN list : list[j].kind # "directory" /\ list[j].content = d
    BY <2>2, <2>3, ArchiveExtracted
  <2>5. j \in 1..N /\ d \in T[j]
    BY <1>1, <1>6, <2>4 DEF OfEntry
  <2>6. UNION {T[n] : n \in 1..N} \subseteq SeenAt(s, depth + 1)
    BY <1>9, <1>11 DEF Goes
  <2> QED BY <2>5, <2>6 DEF Covered
<1>12. Handled(s, w, c, depth)
  BY <1>7, <1>10, <1>11 DEF Handled
<1> QED BY <1>12, LoopsAreAfter DEF s, z, G

\* A text is handled: everything in its literals is reached, or there is a blocker
\* or a budget is spent.
LEMMA OutputsHandled ==
    ASSUME NEW processed \in [Visits -> Walks], NEW w \in Walks, NEW c \in Contents,
           Payload[c].format = None, Payload[c].text, NEW depth \in Nat, Awake(w),
           \A v \in Visits : v.depth = depth + 1 => Good(v, processed[v])
    PROVE  Handled(ProcessDecoders(processed, w, DecodeStaticLiterals(c), depth), w, c, depth)
<1> DEFINE list == DecodeStaticLiterals(c).outputs
           N == Len(list)
           z == OutputStart(w, c)
           G == OutputSteps(processed, c, depth)
           T == [n \in 1..N |-> {list[n].content}]
           s == After(z, G)
           scanned == Scanned(Payload[c])
<1>1. N \in Nat /\ DOMAIN list = 1..N /\ G \in [1..N -> [Walks -> Walks]] /\ depth + 1 \in Nat
  BY OutputStepsType
<1>2. list \in Seq(Outputs)
  BY LiteralsDecoded
<1>3. /\ z \in Walks /\ Continues(z, w) /\ (Awake(w) => Awake(z))
      /\ (z.clean => DecodeStaticLiterals(c).clean)
  BY OutputStartContinues DEF Continues
<1>4. \A n \in 1..N : \A u \in Walks : G[n][u] = Enter(processed, ProcessOutput(u, list[n]), depth)
  BY <1>1 DEF OutputSteps
<1> HIDE DEF N, z, G
<1>5. ASSUME NEW n \in 1..N, NEW u \in Walks PROVE Goes(G[n][u], u, depth + 1, T[n])
  <2>1. list[n] \in Outputs
    BY <1>2 DEF N
  <2>2. Moves(ProcessOutput(u, list[n]), u, T[n])
    BY <2>1, OutputMoves
  <2> HIDE DEF T
  <2>3. Goes(Enter(processed, ProcessOutput(u, list[n]), depth), u, depth + 1, T[n])
    BY <2>2, EnterGoes
  <2> QED BY <1>4, <2>3
<1>6. T = [n \in 1..N |-> {list[n].content}]
  OBVIOUS
<1> HIDE DEF T
<1>7. s \in Walks /\ Goes(s, z, depth + 1, UNION {T[n] : n \in 1..N})
  <2> DEFINE below == depth + 1
             all == UNION {T[n] : n \in 1..N}
  <2>1. \A n \in 1..N : \A u \in Walks : Goes(G[n][u], u, below, T[n])
    BY <1>5
  <2>2. N \in Nat /\ below \in Nat /\ z \in Walks /\ G \in [1..N -> [Walks -> Walks]]
    BY <1>1, <1>3
  <2>3. \A d \in all : \E n \in 1..N : d \in T[n]
    OBVIOUS
  <2> HIDE DEF list, s, below, all
  <2>4. After(z, G) \in Walks /\ Goes(After(z, G), z, below, all)
    BY <2>1, <2>2, <2>3, LoopGoes
  <2> QED BY <2>4 DEF s, below, all
<1> HIDE DEF s
<1>8. Goes(z, w, depth + 1, {})
  BY <1>1, <1>3, ContinuesGoes
<1>9. Goes(s, w, depth + 1, UNION {T[n] : n \in 1..N} \cup {})
  <2> DEFINE below == depth + 1
             all == UNION {T[n] : n \in 1..N}
  <2>1. /\ below \in Nat /\ s \in Walks /\ z \in Walks
        /\ Goes(s, z, below, all) /\ Goes(z, w, below, {})
    BY <1>1, <1>3, <1>7, <1>8
  <2> HIDE DEF below, all
  <2>2. Goes(s, w, below, all \cup {})
    BY <2>1, GoesOn
  <2> QED BY <2>2 DEF below, all
<1>10. Goes(s, w, depth + 1, {})
  BY <1>9 DEF Goes
<1>11. ASSUME Thorough(s), NEW d \in Parts(c) PROVE Covered(d, SeenAt(s, depth + 1))
  <2>1. Thorough(z)
    BY <1>3, <1>7, <1>11, ThoroughBefore DEF Goes, Later
  <2>2. DecodeStaticLiterals(c).clean
    BY <1>3, <2>1 DEF Thorough
  <2>3. PICK i \in DOMAIN scanned : scanned[i].content = d /\ d # None
    BY <1>11 DEF Parts
  <2>4. PICK j \in DOMAIN list : list[j] = EmitLiteralCandidate(scanned[i]) /\ list[j].clean
    BY <2>2, <2>3, LiteralsDecoded
  <2>5. j \in 1..N /\ list[j].content \in T[j]
    BY <1>1, <1>6, <2>4
  <2>6. UNION {T[n] : n \in 1..N} \subseteq SeenAt(s, depth + 1)
    BY <1>9, <1>11 DEF Goes
  <2>7. list[j].content \in SeenAt(s, depth + 1)
    BY <2>5, <2>6
  <2>8. scanned[i] \in Literals
    BY <2>3, ScannedType
  <2> QED BY <2>3, <2>4, <2>7, <2>8, LiteralCovered
<1>12. Handled(s, w, c, depth)
  BY <1>7, <1>10, <1>11 DEF Handled
<1> QED BY <1>12, LoopsAreAfter DEF s, z, G

\* Where a visit starts: its payload is visited, and an artifact or two are added.
Seen(v) == [v.walk EXCEPT !.visited = @ \cup {<<v.content, v.depth>>}, !.going = TRUE]
Rooted(v) == IF v.depth = 0 THEN AddItem(Seen(v), TRUE) ELSE Seen(v)
Named(v) == IF Payload[v.content].binary \/ v.forced
            THEN AddBinaryMetadata(Rooted(v), v.content) ELSE Rooted(v)

\* The early returns of processPayload, in their order.
LEMMA ProcessCases ==
    ASSUME NEW processed, NEW v
    PROVE  Process(processed, v) =
             IF v.depth > MaxNestedDepth THEN TooDeep(v.walk)
             ELSE IF <<v.content, v.depth>> \in v.walk.visited THEN v.walk
             ELSE IF Payload[v.content].format # None
                  THEN ProcessArchive(processed, Rooted(v), v.content,
                                      ReadArchive(v.content), v.depth)
             ELSE IF Payload[v.content].text
                  THEN ProcessDecoders(processed, Named(v),
                                       DecodeStaticLiterals(v.content), v.depth)
             ELSE Named(v)
  BY Zenon DEF Process, Rooted, Named, Seen

\* The fields of a visit.
LEMMA VisitFields ==
    ASSUME NEW v \in Visits
    PROVE  /\ v.walk \in Walks /\ v.content \in Contents /\ v.depth \in Nat /\ v.forced \in BOOLEAN
           /\ v.depth + 1 \in Nat
  BY DEF Visits

\* What a visit does before it decodes marks the content as seen and only counts.
LEMMA VisitStarts ==
    ASSUME NEW v \in Visits
    PROVE  /\ Seen(v) \in Walks
           /\ Seen(v).items = v.walk.items /\ Seen(v).payloads = v.walk.payloads
           /\ Seen(v).clean = v.walk.clean
           /\ Seen(v).visited = v.walk.visited \cup {<<v.content, v.depth>>}
           /\ Continues(Rooted(v), Seen(v)) /\ Awake(Rooted(v))
           /\ Continues(Named(v), Seen(v)) /\ Awake(Named(v))
<1> DEFINE w == v.walk
           yes == TRUE
           visited == w.visited \cup {<<v.content, v.depth>>}
           metadata == Payload[v.content].binary /\ Payload[v.content].sound
           more == AddItem(Rooted(v), metadata)
<1>1. /\ w \in Walks /\ yes \in BOOLEAN /\ visited \in SUBSET (Contents \X Nat)
      /\ metadata \in BOOLEAN
  BY VisitFields, WalkTypes
<1>2. Seen(v) = [w EXCEPT !.visited = visited, !.going = yes]
  BY DEF Seen
<1>3. Rooted(v) = AddItem(Seen(v), yes) \/ Rooted(v) = Seen(v)
  BY DEF Rooted
<1>4. Named(v) = more \/ Named(v) = Rooted(v)
  BY DEF Named, AddBinaryMetadata
<1> HIDE DEF visited, yes, metadata
<1>5. IsChanged(Seen(v), w.items, w.payloads, w.bytes, visited, w.clean, yes)
  <2> HIDE DEF w
  <2>1. IsChanged([w EXCEPT !.visited = visited, !.going = yes],
                  w.items, w.payloads, w.bytes, visited, w.clean, yes)
    BY <1>1, ChangedVisitedGoing
  <2> QED BY <1>2, <2>1
<1>6. /\ Seen(v) \in Walks /\ Seen(v).items = w.items /\ Seen(v).payloads = w.payloads
      /\ Seen(v).clean = w.clean /\ Seen(v).visited = visited /\ Seen(v).going
  BY <1>5 DEF IsChanged, yes
<1>7. Continues(Seen(v), Seen(v)) /\ Awake(Seen(v))
  BY <1>6, WalkTypes DEF Continues, Awake
<1>8. Continues(AddItem(Seen(v), yes), Seen(v)) /\ Awake(AddItem(Seen(v), yes))
  BY <1>1, <1>6, <1>7, AddItemContinues
<1>9. Continues(Rooted(v), Seen(v)) /\ Awake(Rooted(v))
  BY <1>3, <1>7, <1>8
<1>10. Rooted(v) \in Walks
  BY <1>9 DEF Continues
<1>11. Continues(more, Rooted(v)) /\ Awake(more)
  BY <1>1, <1>9, <1>10, AddItemContinues
<1> HIDE DEF more
<1>12. more \in Walks
  BY <1>11 DEF Continues
<1>13. Continues(more, Seen(v))
  BY <1>6, <1>9, <1>10, <1>11, <1>12, ContinuesOn
<1>14. Continues(Named(v), Seen(v)) /\ Awake(Named(v))
  BY <1>4, <1>9, <1>11, <1>13
<1> QED BY <1>6, <1>9, <1>14 DEF visited

\* A payload that lies too deep is reported.
LEMMA TooDeepReported ==
    ASSUME NEW w \in Walks
    PROVE  Continues(TooDeep(w), w) /\ ~TooDeep(w).clean
<1> DEFINE no == FALSE
           u == [w EXCEPT !.clean = no]
           s == AddItem(u, no)
<1>1. TooDeep(w) = s /\ no \in BOOLEAN
  BY DEF TooDeep
<1> HIDE DEF no
<1>2. IsChanged(u, w.items, w.payloads, w.bytes, w.visited, no, w.going)
  BY <1>1, ChangedClean
<1>3. u \in Walks /\ Continues(u, w)
  BY <1>2, WalkTypes DEF IsChanged, Continues, no
<1> HIDE DEF u
<1>4. Continues(s, u) /\ (s.clean => no)
  BY <1>1, <1>3, AddItemContinues
<1> HIDE DEF s
<1>5. s \in Walks
  BY <1>4 DEF Continues
<1>6. Continues(s, w)
  BY <1>3, <1>4, <1>5, ContinuesOn
<1> QED BY <1>1, <1>4, <1>6 DEF no

\* A visit leaves a walk.
LEMMA ProcessType ==
    ASSUME NEW processed \in [Visits -> Walks], NEW v \in Visits
    PROVE  Process(processed, v) \in Walks
<1>1. v.walk \in Walks /\ v.content \in Contents /\ v.depth \in Nat
  BY VisitFields
<1>2. Rooted(v) \in Walks /\ Named(v) \in Walks
  BY VisitStarts DEF Continues
<1>3. TooDeep(v.walk) \in Walks
  BY <1>1, TooDeepReported DEF Continues
<1>4. Payload[v.content].format # None =>
        ProcessArchive(processed, Rooted(v), v.content, ReadArchive(v.content), v.depth) \in Walks
  BY <1>1, <1>2, LoopTypes
<1>5. ProcessDecoders(processed, Named(v), DecodeStaticLiterals(v.content), v.depth) \in Walks
  BY <1>1, <1>2, LoopTypes
<1> QED BY <1>1, <1>2, <1>3, <1>4, <1>5, ProcessCases

\* A visit whose loop handled what is in its payload.
LEMMA HandledGood ==
    ASSUME NEW v \in Visits, NEW w \in Walks, NEW s, Continues(w, Seen(v)), Awake(w),
           v.depth <= MaxNestedDepth, Handled(s, w, v.content, v.depth)
    PROVE  Good(v, s)
<1> DEFINE u == v.walk
           c == v.content
           depth == v.depth
           start == Seen(v)
<1>1. u \in Walks /\ c \in Contents /\ depth \in Nat /\ depth + 1 \in Nat
  BY VisitFields
<1>2. /\ start \in Walks /\ start.items = u.items /\ start.payloads = u.payloads
      /\ start.clean = u.clean /\ start.visited = u.visited \cup {<<c, depth>>}
  BY VisitStarts
<1>3. /\ w.visited = start.visited /\ w.items >= start.items /\ w.payloads >= start.payloads
      /\ w.clean => start.clean
  BY DEF Continues
<1>4. /\ s \in Walks /\ Later(s, w, depth + 1)
      /\ Settled(w, depth + 1) => Settled(s, depth + 1)
      /\ Thorough(s) => \A d \in Parts(c) : Covered(d, SeenAt(s, depth + 1))
  BY DEF Handled, Goes
<1>5. depth <= MaxNestedDepth
  OBVIOUS
<1> HIDE DEF u, c, depth, start
<1>6. /\ s.items >= u.items /\ s.payloads >= u.payloads /\ (s.clean => u.clean)
      /\ u.visited \subseteq s.visited /\ <<c, depth>> \in s.visited
  BY <1>1, <1>2, <1>3, <1>4, WalkTypes DEF Later
<1>7. \A d \in Contents, n \in Nat : <<d, n>> \in s.visited /\ <<d, n>> \notin u.visited =>
          (d = c /\ n = depth) \/ n \in (depth + 1)..MaxNestedDepth
  <2>1. ASSUME NEW d \in Contents, NEW n \in Nat, <<d, n>> \in s.visited, <<d, n>> \notin u.visited
        PROVE  (d = c /\ n = depth) \/ n \in (depth + 1)..MaxNestedDepth
    <3>1. CASE <<d, n>> \in w.visited
      BY <1>2, <1>3, <2>1, <3>1
    <3>2. CASE <<d, n>> \notin w.visited
      BY <1>4, <2>1, <3>2 DEF Later
    <3> QED BY <3>1, <3>2
  <2> QED BY <2>1
<1>8. Later(s, u, depth)
  <2>1. \A n \in Nat : n = depth \/ n \in (depth + 1)..MaxNestedDepth => n \in depth..MaxNestedDepth
    BY <1>1, <1>5, LimitTypes
  <2> QED BY <1>6, <1>7, <2>1 DEF Later
<1>9. ASSUME Settled(u, depth), Thorough(s),
             NEW d \in Contents, NEW n \in Nat, <<d, n>> \in s.visited, n >= depth,
             NEW e \in Parts(d)
      PROVE  Covered(e, SeenAt(s, n + 1))
  <2>1. Thorough(u)
    BY <1>1, <1>4, <1>6, <1>9, ThoroughBefore
  <2>2. \A f \in Contents, m \in Nat : <<f, m>> \in u.visited /\ m >= depth =>
            \A g \in Parts(f) : Covered(g, SeenAt(u, m + 1))
    BY <1>9, <2>1 DEF Settled
  <2>3. SeenAt(u, n + 1) \subseteq SeenAt(s, n + 1)
    BY <1>6 DEF SeenAt
  <2>4. Settled(w, depth + 1)
    <3>1. ASSUME NEW f \in Contents, NEW m \in Nat, <<f, m>> \in w.visited, m >= depth + 1,
                 NEW g \in Parts(f)
          PROVE  Covered(g, SeenAt(w, m + 1))
      <4>1. <<f, m>> \in u.visited /\ m >= depth
        BY <1>1, <1>2, <1>3, <3>1
      <4>2. Covered(g, SeenAt(u, m + 1))
        BY <2>2, <3>1, <4>1
      <4>3. SeenAt(u, m + 1) \subseteq SeenAt(w, m + 1)
        BY <1>2, <1>3 DEF SeenAt
      <4> QED BY <4>2, <4>3, CoveredMore
    <3> QED BY <3>1 DEF Settled
  <2>5. \A f \in Contents, m \in Nat : <<f, m>> \in s.visited /\ m >= depth + 1 =>
            \A g \in Parts(f) : Covered(g, SeenAt(s, m + 1))
    BY <1>4, <1>9, <2>4 DEF Settled
  <2>6. CASE n >= depth + 1
    BY <1>9, <2>5, <2>6
  <2>7. CASE <<d, n>> \in u.visited
    <3>1. Covered(e, SeenAt(u, n + 1))
      BY <1>9, <2>2, <2>7
    <3> QED BY <2>3, <3>1, CoveredMore
  <2>8. CASE d = c /\ n = depth
    BY <1>4, <1>9, <2>8
  <2> QED BY <1>1, <1>7, <1>9, <2>6, <2>7, <2>8
<1>10. Settled(u, depth) => Settled(s, depth)
  BY <1>9 DEF Settled
<1> QED BY <1>6, <1>8, <1>10 DEF Good, u, c, depth

\* A visit, when the visits below it do what they should.
LEMMA ProcessGood ==
    ASSUME NEW processed \in [Visits -> Walks], NEW v \in Visits,
           \A u \in Visits : u.depth = v.depth + 1 => Good(u, processed[u])
    PROVE  Good(v, Process(processed, v))
<1> DEFINE w == v.walk
           c == v.content
           depth == v.depth
           s == Process(processed, v)
<1>1. w \in Walks /\ c \in Contents /\ depth \in Nat /\ depth + 1 \in Nat
  BY VisitFields
<1>2. /\ Continues(Rooted(v), Seen(v)) /\ Awake(Rooted(v))
      /\ Continues(Named(v), Seen(v)) /\ Awake(Named(v))
  BY VisitStarts
<1>3. Rooted(v) \in Walks /\ Named(v) \in Walks
  BY <1>2 DEF Continues
<1>4. CASE depth > MaxNestedDepth
  <2>1. s = TooDeep(w)
    BY <1>4, ProcessCases
  <2>2. Continues(s, w) /\ ~s.clean
    BY <1>1, <2>1, TooDeepReported
  <2> HIDE DEF s
  <2>3. Good(v, s)
    BY <2>2 DEF Good, Continues, Later, Settled, Thorough
  <2> QED BY <2>3 DEF s
<1>5. CASE ~(depth > MaxNestedDepth) /\ <<c, depth>> \in w.visited
  <2>1. s = w
    BY <1>5, ProcessCases
  <2> HIDE DEF s
  <2>2. Good(v, s)
    BY <1>1, <1>5, <2>1, WalkTypes DEF Good, Later
  <2> QED BY <2>2 DEF s
<1>6. CASE ~(depth > MaxNestedDepth) /\ <<c, depth>> \notin w.visited
  <2>1. depth <= MaxNestedDepth
    BY <1>1, <1>6, LimitTypes
  <2>2. CASE Payload[c].format # None
    <3>1. s = ProcessArchive(processed, Rooted(v), c, ReadArchive(c), depth)
      BY <1>6, <2>2, ProcessCases
    <3>2. Handled(s, Rooted(v), c, depth)
      BY <1>1, <1>2, <1>3, <2>2, <3>1, ArchiveHandled
    <3> QED BY <1>2, <1>3, <2>1, <3>2, HandledGood
  <2>3. CASE Payload[c].format = None /\ Payload[c].text
    <3>1. s = ProcessDecoders(processed, Named(v), DecodeStaticLiterals(c), depth)
      BY <1>6, <2>3, ProcessCases
    <3>2. Handled(s, Named(v), c, depth)
      BY <1>1, <1>2, <1>3, <2>3, <3>1, OutputsHandled
    <3> QED BY <1>2, <1>3, <2>1, <3>2, HandledGood
  <2>4. CASE Payload[c].format = None /\ ~Payload[c].text
    <3>1. s = Named(v)
      BY <1>6, <2>4, ProcessCases
    <3>2. Parts(c) = {}
      BY <2>4 DEF Parts
    <3> HIDE DEF s
    <3>3. Handled(s, Named(v), c, depth)
      BY <1>1, <1>3, <3>1, <3>2, GoesItself DEF Handled
    <3> QED BY <1>2, <1>3, <2>1, <3>3, HandledGood DEF s
  <2> QED BY <2>2, <2>3, <2>4
<1> QED BY <1>4, <1>5, <1>6

-----------------------------------------------------------------------------
(* The recursion: ProcessPayload exists, since a visit only asks for those one deeper. *)

\* Two tables that agree one level deeper make the same of a visit.
LEMMA ProcessSame ==
    ASSUME NEW f, NEW g, NEW v \in Visits,
           \A u \in Visits : u.depth = v.depth + 1 => f[u] = g[u]
    PROVE  Process(f, v) = Process(g, v)
<1> DEFINE c == v.content
           depth == v.depth
<1>1. c \in Contents /\ depth \in Nat /\ depth + 1 \in Nat /\ FALSE \in BOOLEAN
  BY VisitFields
<1>2. ASSUME NEW step, step.walk \in Walks, step.into \in Contents \cup {None}
      PROVE  Enter(f, step, depth) = Enter(g, step, depth)
  <2> DEFINE spent == Spend(step.walk, step.into)
             visit == [walk |-> spent, content |-> step.into, depth |-> depth + 1, forced |-> FALSE]
  <2>1. CASE step.into = None
    BY <2>1 DEF Enter
  <2>2. CASE step.into # None
    <3>1. step.into \in Contents
      BY <1>2, <2>2
    <3>2. spent \in Walks
      BY <1>2, <3>1, SpendContinues DEF Continues
    <3> HIDE DEF spent
    <3>3. visit \in Visits /\ visit.depth = depth + 1
      BY <1>1, <3>1, <3>2, VisitType
    <3>4. f[visit] = g[visit]
      BY <3>3
    <3> QED BY <3>4 DEF Enter, spent
  <2> QED BY <2>1, <2>2
<1>3. ASSUME Payload[c].format # None, NEW w
      PROVE  ProcessArchive(f, w, c, ReadArchive(c), depth) =
             ProcessArchive(g, w, c, ReadArchive(c), depth)
  <2> DEFINE list == ReadArchive(c).entries
  <2>1. list \in Seq(Extracts)
    BY <1>1, <1>3, ArchiveExtracted
  <2>2. ArchiveSteps(f, c, depth) =
          [i \in DOMAIN list |-> [u \in Walks |-> Enter(f, ProcessEntry(u, list[i]), depth)]]
    BY DEF ArchiveSteps
  <2>3. ArchiveSteps(g, c, depth) =
          [i \in DOMAIN list |-> [u \in Walks |-> Enter(g, ProcessEntry(u, list[i]), depth)]]
    BY DEF ArchiveSteps
  <2> HIDE DEF list
  <2>4. ASSUME NEW i \in DOMAIN list, NEW u \in Walks
        PROVE  Enter(f, ProcessEntry(u, list[i]), depth)
                 = Enter(g, ProcessEntry(u, list[i]), depth)
    <3>1. list[i] \in Extracts
      BY <2>1
    <3>2. Moves(ProcessEntry(u, list[i]), u, OfEntry(list[i]))
      BY <3>1, EntryMoves
    <3> QED BY <1>2, <3>2 DEF Moves
  <2>5. ArchiveSteps(f, c, depth) = ArchiveSteps(g, c, depth)
    BY <2>2, <2>3, <2>4
  <2> QED BY <2>5, LoopsAreAfter
<1>4. ASSUME NEW w
      PROVE  ProcessDecoders(f, w, DecodeStaticLiterals(c), depth) =
             ProcessDecoders(g, w, DecodeStaticLiterals(c), depth)
  <2> DEFINE list == DecodeStaticLiterals(c).outputs
  <2>1. list \in Seq(Outputs)
    BY <1>1, LiteralsDecoded
  <2>2. OutputSteps(f, c, depth) =
          [i \in DOMAIN list |-> [u \in Walks |-> Enter(f, ProcessOutput(u, list[i]), depth)]]
    BY DEF OutputSteps
  <2>3. OutputSteps(g, c, depth) =
          [i \in DOMAIN list |-> [u \in Walks |-> Enter(g, ProcessOutput(u, list[i]), depth)]]
    BY DEF OutputSteps
  <2> HIDE DEF list
  <2>4. ASSUME NEW i \in DOMAIN list, NEW u \in Walks
        PROVE  Enter(f, ProcessOutput(u, list[i]), depth)
                 = Enter(g, ProcessOutput(u, list[i]), depth)
    <3>1. list[i] \in Outputs
      BY <2>1
    <3>2. Moves(ProcessOutput(u, list[i]), u, {list[i].content})
      BY <3>1, OutputMoves
    <3> QED BY <1>2, <3>2 DEF Moves
  <2>5. OutputSteps(f, c, depth) = OutputSteps(g, c, depth)
    BY <2>2, <2>3, <2>4
  <2> QED BY <2>5, LoopsAreAfter
<1> QED BY <1>3, <1>4, ProcessCases

\* The tables that know the walk of the visits down from some depth, made from each other,
\* end in one that knows them all.
LEMMA TableExists ==
    \E f \in [Visits -> Walks] : f = [v \in Visits |-> Process(f, v)]
<1> DEFINE Tables == [Visits -> Walks]
           N == MaxNestedDepth + 3
           z == [v \in Visits |-> v.walk]
           next == [t \in Tables |-> [v \in Visits |-> Process(t, v)]]
           G == [n \in 1..N |-> next]
<1>1. N \in Nat /\ N - 1 \in 0..N /\ N \in 1..N
  BY LimitTypes
<1>2. z \in Tables
  BY VisitFields
<1>3. next \in [Tables -> Tables]
  BY ProcessType
<1>4. \A t \in Tables : \A v \in Visits : next[t][v] = Process(t, v)
  OBVIOUS
<1>5. \A t \in Tables : next[t] = [v \in Visits |-> Process(t, v)]
  OBVIOUS
<1> HIDE DEF next, z
<1>6. G \in [1..N -> [Tables -> Tables]] /\ \A n \in 1..N : G[n] = next
  BY <1>3
<1> HIDE DEF Tables, N, G
<1>7. PICK F : Iterates(F, N, Tables, z, G)
  BY <1>1, <1>2, <1>6, IteratesExist
<1>8. /\ \A n \in 0..N : F[n] \in Tables
      /\ \A n \in 1..N : F[n] = next[F[n - 1]]
  BY <1>6, <1>7 DEF Iterates
<1> DEFINE P == {n \in 0..(N - 1) :
                   \A v \in Visits : v.depth + n >= N - 1 => F[n + 1][v] = F[n][v]}
<1>9. N - 1 = MaxNestedDepth + 2
  BY LimitTypes DEF N
<1>10. N - 1 \in P
  <2>1. 1 \in P
    <3>1. ASSUME NEW v \in Visits, v.depth + 1 >= N - 1 PROVE F[2][v] = F[1][v]
      <4>1. v.depth \in Nat /\ v.depth > MaxNestedDepth
        BY <1>9, <3>1, VisitFields, LimitTypes
      <4>2. 0 \in 0..N /\ 1 \in 0..N /\ 1 \in 1..N /\ 2 \in 1..N /\ 2 - 1 = 1 /\ 1 - 1 = 0
        BY <1>1, <1>9, LimitTypes
      <4>3. F[2][v] = Process(F[1], v) /\ F[1][v] = Process(F[0], v)
        BY <1>4, <1>8, <4>2
      <4> QED BY <4>1, <4>3, ProcessCases
    <3>2. 1 \in 0..(N - 1) /\ 1 + 1 = 2
      BY <1>1, <1>9, LimitTypes
    <3> QED BY <3>1, <3>2
  <2>2. ASSUME NEW n \in 2..(N - 1), n - 1 \in P PROVE n \in P
    <3>1. /\ n \in 0..(N - 1) /\ n - 1 \in 0..N /\ n \in 0..N /\ n \in 1..N /\ n + 1 \in 1..N
          /\ n - 1 + 1 = n /\ n + 1 - 1 = n
      BY <1>1
    <3>2. \A v \in Visits : v.depth + (n - 1) >= N - 1 => F[n][v] = F[n - 1][v]
      BY <2>2, <3>1
    <3>3. ASSUME NEW v \in Visits, v.depth + n >= N - 1 PROVE F[n + 1][v] = F[n][v]
      <4>1. F[n + 1][v] = Process(F[n], v) /\ F[n][v] = Process(F[n - 1], v)
        BY <1>4, <1>8, <3>1
      <4>2. ASSUME NEW u \in Visits, u.depth = v.depth + 1 PROVE F[n][u] = F[n - 1][u]
        <5>1. u.depth + (n - 1) >= N - 1
          BY <1>1, <3>3, <4>2, VisitFields
        <5> QED BY <3>2, <5>1
      <4>3. Process(F[n], v) = Process(F[n - 1], v)
        BY <4>2, ProcessSame
      <4> QED BY <4>1, <4>3
    <3> QED BY <3>1, <3>3
  <2> DEFINE Q == {n \in 0..(N - 1) : n = 0 \/ n \in P}
  <2>3. N - 1 \in Nat /\ N - 1 # 0 /\ N - 1 \in 0..(N - 1)
    BY <1>1, <1>9, LimitTypes
  <2>4. 0 \in Q
    BY <2>3
  <2>5. ASSUME NEW n \in 1..(N - 1), n - 1 \in Q PROVE n \in Q
    <3>1. n \in 0..(N - 1)
      BY <2>3
    <3>2. CASE n = 1
      BY <2>1, <3>1, <3>2
    <3>3. CASE n # 1
      <4>1. n \in 2..(N - 1) /\ n - 1 # 0
        BY <2>3, <3>3
      <4> HIDE DEF P
      <4>2. n - 1 \in P
        BY <2>5, <4>1
      <4> QED BY <2>2, <3>1, <4>1, <4>2
    <3> QED BY <3>2, <3>3
  <2> HIDE DEF P
  <2>6. N - 1 \in Q
    <3> HIDE DEF Q
    <3>1. \A n \in 0..(N - 1) : n \in Q
      BY <2>3, <2>4, <2>5, UpTo
    <3> QED BY <2>3, <3>1
  <2> QED BY <2>3, <2>6
<1> DEFINE f == F[N - 1]
<1>11. f \in [Visits -> Walks]
  BY <1>1, <1>8 DEF Tables
<1>12. ASSUME NEW v \in Visits PROVE f[v] = Process(f, v)
  <2>1. N - 1 + 1 = N /\ v.depth + (N - 1) >= N - 1
    BY <1>1, VisitFields
  <2>2. F[N][v] = F[N - 1][v]
    BY <1>10, <2>1
  <2>3. F[N][v] = Process(F[N - 1], v)
    BY <1>1, <1>4, <1>8
  <2> QED BY <2>2, <2>3
<1> HIDE DEF f
<1>13. f = [v \in Visits |-> Process(f, v)]
  <2>1. f = [v \in Visits |-> f[v]]
    BY <1>11
  <2> QED BY <1>12, <2>1
<1> QED BY <1>11, <1>13

\* From the greatest depth a walk reports to the root.
LEMMA Deepest ==
    ASSUME NEW P, \A v \in Visits : v.depth > MaxNestedDepth => v \in P,
           \A v \in Visits : (\A u \in Visits : u.depth = v.depth + 1 => u \in P) => v \in P
    PROVE  \A v \in Visits : v \in P
<1> DEFINE N == MaxNestedDepth + 1
           Q == {n \in 0..N : \A v \in Visits : v.depth + n >= N => v \in P}
<1>1. N \in Nat
  BY LimitTypes
<1>2. 0 \in Q
  <2>1. ASSUME NEW v \in Visits, v.depth + 0 >= N PROVE v.depth > MaxNestedDepth
    BY <2>1, VisitFields, LimitTypes
  <2> QED BY <1>1, <2>1
<1> HIDE DEF N
<1>3. ASSUME NEW n \in 1..N, n - 1 \in Q PROVE n \in Q
  <2>1. n \in 0..N /\ \A v \in Visits : v.depth + (n - 1) >= N => v \in P
    BY <1>1, <1>3
  <2>2. ASSUME NEW v \in Visits, v.depth + n >= N, NEW u \in Visits, u.depth = v.depth + 1
        PROVE  u.depth + (n - 1) >= N
    BY <1>1, <2>2, VisitFields
  <2>3. ASSUME NEW v \in Visits, v.depth + n >= N PROVE v \in P
    BY <2>1, <2>2, <2>3
  <2> QED BY <2>1, <2>3
<1>4. N \in Q
  <2> HIDE DEF Q
  <2>1. \A n \in 0..N : n \in Q
    BY <1>1, <1>2, <1>3, UpTo
  <2> QED BY <1>1, <2>1
<1>5. \A v \in Visits : v.depth + N >= N
  BY <1>1, VisitFields
<1> QED BY <1>4, <1>5

\* The recursion of processPayload has a solution, and ProcessPayload is one.
LEMMA PayloadProcessed ==
    /\ ProcessPayload \in [Visits -> Walks]
    /\ \A v \in Visits : ProcessPayload[v] = Process(ProcessPayload, v)
<1> DEFINE chosen == CHOOSE f : f = [v \in Visits |-> Process(f, v)]
<1>1. PICK f \in [Visits -> Walks] : f = [v \in Visits |-> Process(f, v)]
  BY TableExists
<1>2. chosen = [v \in Visits |-> Process(chosen, v)]
  BY <1>1, Zenon
<1>3. ProcessPayload = chosen
  BY Zenon DEF ProcessPayload
<1> HIDE DEF chosen
<1>4. \A v \in Visits : chosen[v] = Process(chosen, v)
  BY <1>2
<1>5. \A v \in Visits : f[v] = Process(f, v)
  BY <1>1
<1> DEFINE P == {v \in Visits : chosen[v] = f[v]}
<1>6. ASSUME NEW v \in Visits, v.depth > MaxNestedDepth PROVE v \in P
  <2>1. Process(chosen, v) = Process(f, v)
    BY <1>6, ProcessCases
  <2> QED BY <1>4, <1>5, <2>1
<1>7. ASSUME NEW v \in Visits, \A u \in Visits : u.depth = v.depth + 1 => u \in P
      PROVE  v \in P
  <2>1. Process(chosen, v) = Process(f, v)
    BY <1>7, ProcessSame
  <2> QED BY <1>4, <1>5, <2>1
<1>8. \A v \in Visits : v \in P
  <2> HIDE DEF P
  <2> QED BY <1>6, <1>7, Deepest
<1>9. chosen \in [Visits -> Walks]
  <2>1. \A v \in Visits : chosen[v] \in Walks
    BY <1>8
  <2>2. chosen = [v \in Visits |-> chosen[v]]
    BY <1>2
  <2> QED BY <2>1, <2>2
<1> QED BY <1>3, <1>4, <1>9

\* Every visit does what it should.
LEMMA PayloadGood ==
    \A v \in Visits : Good(v, ProcessPayload[v])
<1> DEFINE P == {v \in Visits : Good(v, ProcessPayload[v])}
<1>1. ASSUME NEW v \in Visits, \A u \in Visits : u.depth = v.depth + 1 => u \in P
      PROVE  v \in P
  <2>1. Good(v, Process(ProcessPayload, v))
    BY <1>1, PayloadProcessed, ProcessGood
  <2> QED BY <2>1, PayloadProcessed
<1>2. ASSUME NEW v \in Visits, v.depth > MaxNestedDepth PROVE v \in P
  <2>1. Process(ProcessPayload, v) = TooDeep(v.walk)
    BY <1>2, ProcessCases
  <2>2. Continues(TooDeep(v.walk), v.walk) /\ ~TooDeep(v.walk).clean
    BY VisitFields, TooDeepReported
  <2>3. Good(v, TooDeep(v.walk))
    BY <2>2 DEF Good, Continues, Later, Settled, Thorough
  <2> QED BY <2>1, <2>3, PayloadProcessed
<1>3. \A v \in Visits : v \in P
  <2> HIDE DEF P
  <2> QED BY <1>1, <1>2, Deepest
<1> QED BY <1>3

\* What is nested in a content is covered by the walk through it.
LEMMA NestedCovered ==
    ASSUME NEW c \in Contents, NEW seen \in SUBSET Contents, c \in seen,
           \A d \in seen : \A e \in Parts(d) : Covered(e, seen)
    PROVE  \A d \in Nested(c) : Covered(d, seen)
<1> DEFINE N == Cardinality(Contents)
           S == SUBSET Contents
           More(b) == b \cup UNION {Parts(d) : d \in b}
           G == [i \in 1..N |-> [b \in S |-> More(b)]]
           below == CHOOSE F : F = [n \in 0..N |-> IF n = 0 THEN {c} ELSE More(F[n - 1])]
<1>1. N \in Nat
  BY ContentsAssumption, FS_CardinalityType
<1>2. \A d \in Contents : Parts(d) \subseteq Contents
  <2> SUFFICES ASSUME NEW d \in Contents, NEW e \in Parts(d) PROVE e \in Contents
    OBVIOUS
  <2>1. CASE Payload[d].format # None
    <3>1. PICK i \in DOMAIN Payload[d].entries : e = Payload[d].entries[i].content
      BY <2>1 DEF Parts
    <3>2. Payload[d].entries[i] \in ArchiveEntries
      BY <3>1, PayloadFacts
    <3> QED BY <3>1, <3>2 DEF ArchiveEntries
  <2>2. CASE Payload[d].format = None
    <3> DEFINE scanned == Scanned(Payload[d])
    <3>1. PICK i \in DOMAIN scanned : e = scanned[i].content /\ e # None
      BY <2>2 DEF Parts
    <3>2. scanned[i] \in Literals
      BY <3>1, ScannedType
    <3> QED BY <3>1, <3>2 DEF Literals
  <2> QED BY <2>1, <2>2
<1>3. ASSUME NEW d, Covered(d, seen), NEW e \in Parts(d) PROVE Covered(e, seen)
  BY <1>3 DEF Covered
<1>4. Nested(c) = below[N]
  BY Zenon DEF Nested
<1> HIDE DEF N
<1>5. ASSUME NEW b \in S PROVE More(b) \in S
  BY <1>2
<1>6. {c} \in S /\ G \in [1..N -> [S -> S]]
  BY <1>5
<1>7. PICK f : Iterates(f, N, S, {c}, G)
  BY <1>1, <1>6, IteratesExist
<1>8. /\ f \in [0..N -> S] /\ f[0] = {c}
      /\ \A n \in 1..N : f[n] = G[n][f[n - 1]]
  BY <1>7 DEF Iterates
<1>9. ASSUME NEW n \in 0..N PROVE f[n] = IF n = 0 THEN {c} ELSE More(f[n - 1])
  <2>1. CASE n = 0
    BY <1>8, <2>1
  <2>2. CASE n # 0
    <3>1. n \in 1..N /\ n - 1 \in 0..N
      BY <1>1, <2>2
    <3>2. f[n - 1] \in S /\ f[n] = G[n][f[n - 1]]
      BY <1>8, <3>1
    <3>3. G[n][f[n - 1]] = More(f[n - 1])
      BY <3>1, <3>2
    <3> HIDE DEF G, More
    <3> QED BY <2>2, <3>2, <3>3
  <2> QED BY <2>1, <2>2
<1> HIDE DEF G, More
<1>10. f = [n \in 0..N |-> IF n = 0 THEN {c} ELSE More(f[n - 1])]
  <2>1. f = [n \in 0..N |-> f[n]]
    BY <1>8
  <2> QED BY <1>9, <2>1
<1>11. below = [n \in 0..N |-> IF n = 0 THEN {c} ELSE More(below[n - 1])]
  BY <1>10, Zenon
<1> HIDE DEF below
<1> DEFINE P == {n \in 0..N : below[n] \in S /\ \A d \in below[n] : Covered(d, seen)}
<1>12. 0 \in P
  <2>1. 0 \in 0..N
    BY <1>1
  <2>2. below[0] = {c}
    BY <1>11, <2>1
  <2> QED BY <2>1, <2>2 DEF Covered
<1>13. ASSUME NEW n \in 1..N, n - 1 \in P PROVE n \in P
  <2>1. n \in 0..N /\ n # 0
    BY <1>1
  <2>2. below[n] = More(below[n - 1])
    BY <1>11, <2>1
  <2>3. below[n - 1] \in S /\ \A d \in below[n - 1] : Covered(d, seen)
    BY <1>13
  <2>4. below[n] \in S
    BY <1>5, <2>2, <2>3
  <2>5. \A d \in More(below[n - 1]) : Covered(d, seen)
    BY <1>3, <2>3 DEF More
  <2> QED BY <2>1, <2>2, <2>4, <2>5
<1>14. \A n \in 0..N : n \in P
  <2> HIDE DEF P
  <2> QED BY <1>1, <1>12, <1>13, UpTo
<1>15. N \in 0..N
  BY <1>1
<1> QED BY <1>4, <1>14, <1>15

\* The walk through an object that reports nothing has read all that is nested in the
\* object, or has spent its budget on literals.
LEMMA ObjectWhole ==
    ASSUME NEW c \in Contents, NEW executable \in BOOLEAN,
           BuildDerivedArtifacts(c, executable).clean
    PROVE  \/ ReadWhole(c, BuildDerivedArtifacts(c, executable))
           \/ BudgetSpent(BuildDerivedArtifacts(c, executable))
<1> DEFINE w == [items |-> 0, payloads |-> 0, bytes |-> Size[c], visited |-> {},
                 clean |-> TRUE, going |-> TRUE]
           forced == executable \/ c \in Binary \cup Opaque
           v == [walk |-> w, content |-> c, depth |-> 0, forced |-> forced]
           s == ProcessPayload[v]
           seen == {d \in Contents : \E n \in 0..MaxNestedDepth : <<d, n>> \in s.visited}
<1>1. s = BuildDerivedArtifacts(c, executable)
  BY DEF BuildDerivedArtifacts
<1> SUFFICES ASSUME ~BudgetSpent(s) PROVE ReadWhole(c, s)
  BY <1>1
<1>2. w \in Walks /\ w.visited = {}
  BY ContentsAssumption DEF Walks
<1> HIDE DEF w
<1>3. v \in Visits /\ v.walk = w /\ v.content = c /\ v.depth = 0
  <2>1. forced \in BOOLEAN /\ 0 \in Nat
    OBVIOUS
  <2> HIDE DEF forced
  <2> QED BY <1>2, <2>1, VisitType
<1> HIDE DEF v
<1>4. Good(v, s) /\ s \in Walks
  BY <1>3, PayloadGood, PayloadProcessed
<1>5. s.clean
  BY <1>1
<1> HIDE DEF s
<1>6. \A d \in Contents, n \in Nat : <<d, n>> \in s.visited => n \in 0..MaxNestedDepth
  BY <1>2, <1>3, <1>4 DEF Good, Later
<1>7. <<c, 0>> \in s.visited
  BY <1>3, <1>4, <1>5 DEF Good
<1>8. Settled(s, 0)
  BY <1>2, <1>3, <1>4 DEF Good, Settled
<1>9. \A n \in Nat : SeenAt(s, n) \subseteq seen
  BY <1>6 DEF SeenAt
<1>10. ASSUME NEW d \in seen, NEW e \in Parts(d) PROVE Covered(e, seen)
  <2>1. PICK n \in 0..MaxNestedDepth : <<d, n>> \in s.visited
    OBVIOUS
  <2>2. n \in Nat /\ n >= 0 /\ n + 1 \in Nat /\ d \in Contents
    OBVIOUS
  <2>3. Covered(e, SeenAt(s, n + 1))
    BY <1>5, <1>8, <2>1, <2>2 DEF Settled, Thorough
  <2> QED BY <1>9, <2>2, <2>3, CoveredMore
<1>11. c \in seen
  BY <1>6, <1>7
<1>12. \A d \in Nested(c) : Covered(d, seen)
  BY <1>10, <1>11, NestedCovered
<1> QED BY <1>12 DEF ReadWhole, Covered

-----------------------------------------------------------------------------
(* What is decoded.                                                        *)

\* The assurance pipeline goes on to semantic review only with every blob of the commit in
\* its inventory and decoded without a blocker, whichever handler built the inventory last;
\* and then every payload nested in a blob was looked at, unless the literals of the blob
\* used up its budget (derivedSnapshotCanAdvance, processPayload).
THEOREM DecodedIsWhole == Spec => []DecodedWholeTree
<1>1. ASSUME IInv, assurance.stage = "decoded", NEW p \in Paths
      PROVE  /\ p \in assurance.snapshot.objects \cap assurance.snapshot.decoded
             /\ DerivedFrom(p).clean
             /\ ReadWhole(repo.blob[p], DerivedFrom(p)) \/ BudgetSpent(DerivedFrom(p))
  <2> DEFINE c == repo.blob[p]
             executable == p \in repo.executable
  <2>1. /\ p \in assurance.snapshot.objects \cap assurance.snapshot.decoded
        /\ DerivedFrom(p).clean
    BY <1>1 DEF IInv, AssuranceHonest, SnapshotHonest
  <2>2. c \in Contents /\ executable \in BOOLEAN
    BY <1>1, RepositoryAssumption DEF IInv, TypeOK
  <2>3. DerivedFrom(p) = Decoded[c][executable]
    BY DEF DerivedFrom
  <2> HIDE DEF c, executable
  <2>4. Decoded[c][executable] = BuildDerivedArtifacts(c, executable)
    BY <2>2 DEF Decoded
  <2>5. \/ ReadWhole(c, BuildDerivedArtifacts(c, executable))
        \/ BudgetSpent(BuildDerivedArtifacts(c, executable))
    BY <2>1, <2>2, <2>3, <2>4, ObjectWhole
  <2> QED BY <2>1, <2>3, <2>4, <2>5 DEF c
<1>2. IInv => DecodedWholeTree
  BY <1>1 DEF DecodedWholeTree
<1> QED BY <1>2, Invariance, PTL

=============================================================================
