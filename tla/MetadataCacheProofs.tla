------------------------ MODULE MetadataCacheProofs -------------------------
(***************************************************************************)
(* The safety properties of the metadata cache, for any number of          *)
(* sessions, sources and paths, any limits and any trees.                  *)
(***************************************************************************)
EXTENDS MetadataCache, FiniteSetTheorems, WellFoundedInduction, TLAPS

-----------------------------------------------------------------------------
(* Induction.                                                              *)

\* Induction, in the form the provers can use: a set of numbers has a least one.
LEMMA Least ==
    ASSUME NEW T \in SUBSET Nat, T # {}
    PROVE  \E n \in T : \A m \in T : n <= m
<1> DEFINE R == {p \in Nat \X Nat : p[1] < p[2]}
<1>1. R = OpToRel(<, Nat)
  BY Zenon DEF OpToRel
<1> HIDE DEF R
<1>2. IsWellFoundedOn(R, Nat)
  BY <1>1, NatLessThanWellFounded, Zenon
<1>3. PICK n \in T : \A m \in T : <<m, n>> \notin R
  BY <1>2, WFMin
<1>4. ASSUME NEW m \in T PROVE n <= m
  <2>1. /\ n \in Nat /\ m \in Nat
        /\ <<m, n>> \notin R
    BY <1>3, <1>4
  <2>2. <<m, n>> \in R <=> m < n
    BY <2>1 DEF R
  <2> QED BY <2>1, <2>2
<1> QED BY <1>4

\* What is reached in steps of one holds everywhere up to N.
LEMMA UpTo ==
    ASSUME NEW N \in Nat, NEW P,
           0 \in P, \A n \in 1..N : n - 1 \in P => n \in P
    PROVE  \A n \in 0..N : n \in P
<1> DEFINE T == {n \in 0..N : n \notin P}
<1> SUFFICES ASSUME T # {} PROVE FALSE
  OBVIOUS
<1>1. T \in SUBSET Nat
  OBVIOUS
<1>2. PICK n \in T : \A m \in T : n <= m
  BY <1>1, Least
<1>3. n \in 1..N /\ n \notin P
  BY <1>2
<1>4. n - 1 \in 0..N /\ n - 1 \notin T
  BY <1>2, <1>3
<1> QED BY <1>3, <1>4

\* What the functions G[1], ..., G[N] make of z, one after the other.
Iterates(f, N, S, z, G) ==
    /\ f \in [0..N -> S]
    /\ f[0] = z
    /\ \A n \in 1..N : f[n] = G[n][f[n - 1]]

\* There are such steps, as many as one likes.
LEMMA IteratesExist ==
    ASSUME NEW N \in Nat, NEW S, NEW z \in S, NEW G \in [1..N -> [S -> S]]
    PROVE  \E f : Iterates(f, N, S, z, G)
<1> DEFINE P == {n \in 0..N : \E f : Iterates(f, n, S, z, G)}
<1>1. 0 \in P
  <2> DEFINE only == [k \in 0..0 |-> z]
  <2>1. only \in [0..0 -> S] /\ only[0] = z /\ 1..0 = {}
    OBVIOUS
  <2>2. Iterates(only, 0, S, z, G)
    BY <2>1 DEF Iterates
  <2> QED BY <2>2
<1>2. ASSUME NEW n \in 1..N, n - 1 \in P PROVE n \in P
  <2>1. PICK before : Iterates(before, n - 1, S, z, G)
    BY <1>2
  <2>2. /\ before \in [0..(n - 1) -> S] /\ before[0] = z
        /\ \A k \in 1..(n - 1) : before[k] = G[k][before[k - 1]]
    BY <2>1 DEF Iterates
  <2>3. before[n - 1] \in S /\ G[n] \in [S -> S]
    BY <2>2
  <2>4. G[n][before[n - 1]] \in S
    BY <2>3
  <2> DEFINE after == [k \in 0..n |-> IF k = n THEN G[n][before[n - 1]] ELSE before[k]]
  <2>5. \A k \in 0..n : after[k] \in S
    BY <2>2, <2>4
  <2>6. after \in [0..n -> S] /\ after[0] = z
    BY <2>2, <2>5
  <2>7. ASSUME NEW k \in 1..n PROVE after[k] = G[k][after[k - 1]]
    <3>1. k - 1 \in 0..n /\ k \in 0..n /\ after[k - 1] = before[k - 1]
      OBVIOUS
    <3>2. CASE k = n
      BY <3>1, <3>2
    <3>3. CASE k # n
      BY <2>2, <3>1, <3>3
    <3> QED BY <3>2, <3>3
  <2> HIDE DEF after
  <2>8. Iterates(after, n, S, z, G)
    BY <2>6, <2>7 DEF Iterates
  <2> QED BY <2>8
<1>3. N \in P
  <2> HIDE DEF P
  <2>1. \A n \in 0..N : n \in P
    BY <1>1, <1>2, UpTo
  <2> QED BY <2>1
<1> QED BY <1>3

-----------------------------------------------------------------------------
(* Sequences.                                                              *)

\* The elements that Kept has gathered after n of them.
IsKept(F, seq, S) ==
    /\ Kept(seq, S) = F[Len(seq)]
    /\ F[0] = <<>>
    /\ \A n \in 1..Len(seq) : F[n] = IF seq[n] \in S THEN Append(F[n - 1], seq[n]) ELSE F[n - 1]

\* Kept gathers element by element.
LEMMA KeptUnfold ==
    ASSUME NEW T, NEW seq \in Seq(T), NEW S
    PROVE  \E F : IsKept(F, seq, S)
<1> DEFINE N == Len(seq)
           G == [n \in 1..N |-> [t \in Seq(T) |-> IF seq[n] \in S THEN Append(t, seq[n]) ELSE t]]
           chosen == CHOOSE F : F = [i \in 0..N |->
                        IF i = 0 THEN <<>>
                        ELSE IF seq[i] \in S THEN Append(F[i - 1], seq[i]) ELSE F[i - 1]]
<1>1. N \in Nat /\ \A n \in 1..N : seq[n] \in T
  OBVIOUS
<1>2. G \in [1..N -> [Seq(T) -> Seq(T)]] /\ <<>> \in Seq(T)
  BY <1>1
<1>3. PICK f : Iterates(f, N, Seq(T), <<>>, G)
  BY <1>1, <1>2, IteratesExist
<1>4. f \in [0..N -> Seq(T)] /\ f[0] = <<>>
  BY <1>3 DEF Iterates
<1> HIDE DEF N
<1>5. ASSUME NEW i \in 0..N
      PROVE  f[i] = IF i = 0 THEN <<>>
                    ELSE IF seq[i] \in S THEN Append(f[i - 1], seq[i]) ELSE f[i - 1]
  <2>1. CASE i = 0
    BY <1>4, <2>1
  <2>2. CASE i # 0
    <3>1. i \in 1..N /\ i - 1 \in 0..N
      BY <1>1, <2>2
    <3>2. f[i] = G[i][f[i - 1]] /\ f[i - 1] \in Seq(T)
      BY <1>3, <1>4, <3>1 DEF Iterates
    <3> QED BY <2>2, <3>1, <3>2
  <2> QED BY <2>1, <2>2
<1> HIDE DEF G
<1>6. f = [i \in 0..N |->
             IF i = 0 THEN <<>>
             ELSE IF seq[i] \in S THEN Append(f[i - 1], seq[i]) ELSE f[i - 1]]
  <2>1. f = [i \in 0..N |-> f[i]]
    BY <1>4
  <2> QED BY <1>5, <2>1
<1>7. chosen = [i \in 0..N |->
             IF i = 0 THEN <<>>
             ELSE IF seq[i] \in S THEN Append(chosen[i - 1], seq[i]) ELSE chosen[i - 1]]
  BY <1>6, Zenon
<1>8. Kept(seq, S) = chosen[N]
  BY Zenon DEF Kept, N
<1> HIDE DEF chosen
<1>9. 0 \in 0..N /\ \A n \in 1..N : n \in 0..N /\ n # 0
  BY <1>1
<1>10. chosen[0] = <<>>
  BY <1>7, <1>9
<1>11. ASSUME NEW n \in 1..N
       PROVE  chosen[n] = IF seq[n] \in S THEN Append(chosen[n - 1], seq[n]) ELSE chosen[n - 1]
  <2>1. n \in 0..N /\ n # 0
    BY <1>9
  <2> QED BY <1>7, <2>1
<1>12. IsKept(chosen, seq, S)
  BY <1>8, <1>10, <1>11 DEF IsKept, N
<1> QED BY <1>12

\* k is made of elements of the first n of seq, at growing places g.
IsPart(k, seq, n, g) ==
    /\ g \in [1..Len(k) -> 1..n]
    /\ \A i \in 1..Len(k) : k[i] = seq[g[i]]
    /\ \A i, j \in 1..Len(k) : i < j => g[i] < g[j]

\* One element more.
LEMMA PartGrows ==
    ASSUME NEW T, NEW seq \in Seq(T), NEW k \in Seq(T), NEW n \in 1..Len(seq),
           \E g : IsPart(k, seq, n - 1, g)
    PROVE  /\ \E g : IsPart(k, seq, n, g)
           /\ \E g : IsPart(Append(k, seq[n]), seq, n, g)
<1>1. PICK g : IsPart(k, seq, n - 1, g)
  OBVIOUS
<1>2. /\ g \in [1..Len(k) -> 1..(n - 1)]
      /\ \A i \in 1..Len(k) : k[i] = seq[g[i]]
      /\ \A i, j \in 1..Len(k) : i < j => g[i] < g[j]
  BY <1>1 DEF IsPart
<1>3. Len(k) \in Nat /\ Len(seq) \in Nat /\ seq[n] \in T
  OBVIOUS
<1>4. IsPart(k, seq, n, g)
  BY <1>2, <1>3 DEF IsPart
<1> DEFINE longer == Append(k, seq[n])
           h == [i \in 1..(Len(k) + 1) |-> IF i = Len(k) + 1 THEN n ELSE g[i]]
<1>5. /\ Len(longer) = Len(k) + 1 /\ longer[Len(k) + 1] = seq[n]
      /\ \A i \in 1..Len(k) : longer[i] = k[i]
  BY <1>3
<1>6. \A i \in 1..Len(k) : g[i] \in 1..(n - 1)
  BY <1>2
<1>7. /\ h \in [1..Len(longer) -> 1..n] /\ h[Len(k) + 1] = n
      /\ \A i \in 1..Len(k) : h[i] = g[i]
  BY <1>3, <1>5, <1>6
<1> HIDE DEF longer, h
<1>8. ASSUME NEW i \in 1..Len(longer) PROVE longer[i] = seq[h[i]]
  BY <1>2, <1>3, <1>5, <1>7
<1>9. ASSUME NEW i \in 1..Len(longer), NEW j \in 1..Len(longer), i < j PROVE h[i] < h[j]
  <2>1. i \in 1..Len(k) /\ (j \in 1..Len(k) \/ j = Len(k) + 1)
    BY <1>3, <1>5, <1>9
  <2>2. CASE j \in 1..Len(k)
    BY <1>2, <1>7, <1>9, <2>1, <2>2
  <2>3. CASE j = Len(k) + 1
    BY <1>6, <1>7, <2>1, <2>3
  <2> QED BY <2>1, <2>2, <2>3
<1>10. IsPart(longer, seq, n, h)
  BY <1>7, <1>8, <1>9 DEF IsPart
<1> QED BY <1>4, <1>10 DEF longer

\* What is kept are the elements of S, at growing places.
LEMMA KeptPart ==
    ASSUME NEW T, NEW seq \in Seq(T), NEW S
    PROVE  /\ Kept(seq, S) \in Seq(T)
           /\ \E g : IsPart(Kept(seq, S), seq, Len(seq), g)
           /\ ToSet(Kept(seq, S)) = ToSet(seq) \cap S
<1>1. PICK F : IsKept(F, seq, S)
  BY KeptUnfold
<1>2. /\ Kept(seq, S) = F[Len(seq)]
      /\ F[0] = <<>>
      /\ \A n \in 1..Len(seq) :
            F[n] = IF seq[n] \in S THEN Append(F[n - 1], seq[n]) ELSE F[n - 1]
  BY <1>1 DEF IsKept
<1>3. Len(seq) \in Nat /\ DOMAIN seq = 1..Len(seq)
  OBVIOUS
<1> DEFINE P == {n \in 0..Len(seq) :
                   /\ F[n] \in Seq(T)
                   /\ \E g : IsPart(F[n], seq, n, g)
                   /\ ToSet(F[n]) = {seq[i] : i \in 1..n} \cap S}
<1>4. 0 \in P
  <2>1. 1..0 = {} /\ Len(<<>>) = 0 /\ ToSet(<<>>) = {}
    BY DEF ToSet
  <2>2. IsPart(<<>>, seq, 0, [i \in 1..0 |-> i])
    BY <2>1 DEF IsPart
  <2>3. 0 \in 0..Len(seq) /\ <<>> \in Seq(T) /\ {seq[i] : i \in 1..0} \cap S = {}
    BY <1>3, <2>1
  <2>4. F[0] \in Seq(T) /\ \E g : IsPart(F[0], seq, 0, g)
    BY <1>2, <2>2, <2>3
  <2>5. ToSet(F[0]) = {seq[i] : i \in 1..0} \cap S
    BY <1>2, <2>1, <2>3
  <2> QED BY <2>3, <2>4, <2>5
<1>5. ASSUME NEW n \in 1..Len(seq), n - 1 \in P PROVE n \in P
  <2>1. /\ F[n - 1] \in Seq(T)
        /\ \E g : IsPart(F[n - 1], seq, n - 1, g)
        /\ ToSet(F[n - 1]) = {seq[i] : i \in 1..(n - 1)} \cap S
    BY <1>5
  <2>2. seq[n] \in T /\ {seq[i] : i \in 1..n} = {seq[i] : i \in 1..(n - 1)} \cup {seq[n]}
    BY <1>3
  <2>3. ToSet(Append(F[n - 1], seq[n])) = ToSet(F[n - 1]) \cup {seq[n]}
    <3> DEFINE k == F[n - 1]
    <3>1. k \in Seq(T) /\ seq[n] \in T
      BY <2>1, <2>2
    <3> HIDE DEF k
    <3>2. /\ DOMAIN Append(k, seq[n]) = DOMAIN k \cup {Len(k) + 1}
          /\ Append(k, seq[n])[Len(k) + 1] = seq[n]
          /\ \A i \in DOMAIN k : Append(k, seq[n])[i] = k[i]
      BY <3>1
    <3>3. ToSet(Append(k, seq[n])) = ToSet(k) \cup {seq[n]}
      BY <3>2 DEF ToSet
    <3> QED BY <3>3 DEF k
  <2>4. CASE seq[n] \in S
    <3>1. F[n] = Append(F[n - 1], seq[n])
      BY <1>2, <2>4
    <3>2. \E g : IsPart(F[n], seq, n, g)
      BY <2>1, <3>1, PartGrows
    <3>3. F[n] \in Seq(T)
      BY <2>1, <2>2, <3>1
    <3>4. ToSet(F[n]) = {seq[i] : i \in 1..n} \cap S
      BY <2>1, <2>2, <2>3, <2>4, <3>1
    <3> QED BY <3>2, <3>3, <3>4
  <2>5. CASE seq[n] \notin S
    <3>1. F[n] = F[n - 1]
      BY <1>2, <2>5
    <3>2. \E g : IsPart(F[n], seq, n, g)
      BY <2>1, <3>1, PartGrows
    <3>3. ToSet(F[n]) = {seq[i] : i \in 1..n} \cap S
      BY <2>1, <2>2, <2>5, <3>1
    <3> QED BY <2>1, <3>1, <3>2, <3>3
  <2> QED BY <2>4, <2>5
<1>6. Len(seq) \in P
  <2> HIDE DEF P
  <2>1. \A n \in 0..Len(seq) : n \in P
    BY <1>3, <1>4, <1>5, UpTo
  <2> QED BY <1>3, <2>1
<1>7. ToSet(seq) = {seq[i] : i \in 1..Len(seq)}
  BY <1>3 DEF ToSet
<1> QED BY <1>2, <1>6, <1>7

\* A sequence has no more elements than places.
LEMMA NoMoreThanPlaces ==
    ASSUME NEW T, NEW seq \in Seq(T)
    PROVE  /\ IsFiniteSet(ToSet(seq)) /\ Cardinality(ToSet(seq)) <= Len(seq)
           /\ Cardinality(ToSet(seq)) \in Nat
<1>1. Len(seq) \in Nat /\ DOMAIN seq = 1..Len(seq)
  OBVIOUS
<1>2. IsFiniteSet(1..Len(seq)) /\ Cardinality(1..Len(seq)) = Len(seq)
  BY <1>1, FS_Interval
<1>3. seq \in Surjection(1..Len(seq), ToSet(seq))
  BY <1>1 DEF Surjection, ToSet
<1> QED BY <1>2, <1>3, FS_Surjection, FS_CardinalityType

-----------------------------------------------------------------------------
(* The files.                                                              *)

\* The entries of a directory d.
NamesIn(d) == {NameOf(f) : f \in {g \in ToSet(d) : IsEntry(g)}}

\* There is one entry for a source, and it was written to its end.
DiskOK(d) ==
    /\ d \in Seq(Files)
    /\ \A i, j \in DOMAIN d : IsEntry(d[i]) /\ IsEntry(d[j]) /\ NameOf(d[i]) = NameOf(d[j]) => i = j
    /\ \A i \in DOMAIN d : IsEntry(d[i]) => d[i].state # "partial"

\* A store that has not made its temporary file has none; one that has made it has at most
\* that one, and renames it only with everything in it.
TempOK(d, s, v) ==
    /\ v.pc \in {"evicting", "creating"} => \A i \in DOMAIN d : d[i].owner # s
    /\ v.pc \in {"writing", "renaming"} =>
         /\ \A i, j \in DOMAIN d : d[i].owner = s /\ d[j].owner = s => i = j
         /\ \A i \in DOMAIN d : d[i].owner = s =>
              d[i].payload = v.payload /\ (v.pc = "renaming" => d[i].state = "whole")

\* Of files that are a part of d all that holds of d holds.
LEMMA PartIsFine ==
    ASSUME NEW d, DiskOK(d), NEW e \in Seq(Files), \E g : IsPart(e, d, Len(d), g)
    PROVE  /\ DiskOK(e)
           /\ \A s, v : TempOK(d, s, v) => TempOK(e, s, v)
<1>1. PICK g : IsPart(e, d, Len(d), g)
  OBVIOUS
<1>2. d \in Seq(Files) /\ DOMAIN d = 1..Len(d) /\ DOMAIN e = 1..Len(e) /\ Len(e) \in Nat /\ Len(d) \in Nat
  BY DEF DiskOK
<1>3. /\ \A i \in DOMAIN e : g[i] \in DOMAIN d /\ e[i] = d[g[i]]
      /\ \A i, j \in DOMAIN e : i < j => g[i] < g[j]
  BY <1>1, <1>2 DEF IsPart
<1>4. ASSUME NEW i \in DOMAIN e, NEW j \in DOMAIN e, g[i] = g[j] PROVE i = j
  <2>1. g[i] \in Nat /\ g[j] \in Nat /\ i \in Nat /\ j \in Nat
    BY <1>2, <1>3
  <2>2. ~(i < j) /\ ~(j < i)
    BY <1>3, <1>4, <2>1
  <2> QED BY <2>1, <2>2
<1>5. DiskOK(e)
  <2>1. ASSUME NEW i \in DOMAIN e, NEW j \in DOMAIN e, IsEntry(e[i]), IsEntry(e[j]),
               NameOf(e[i]) = NameOf(e[j])
        PROVE  i = j
    <3>1. g[i] = g[j]
      BY <1>3, <2>1 DEF DiskOK
    <3> QED BY <1>4, <3>1
  <2>2. \A i \in DOMAIN e : IsEntry(e[i]) => e[i].state # "partial"
    BY <1>3 DEF DiskOK
  <2>3. e \in Seq(Files)
    OBVIOUS
  <2> QED BY ONLY <2>1, <2>2, <2>3 DEF DiskOK
<1>6. ASSUME NEW s, NEW v, TempOK(d, s, v) PROVE TempOK(e, s, v)
  BY <1>3, <1>4, <1>6 DEF TempOK
<1> QED BY <1>5, <1>6

\* Files that are kept.
LEMMA KeptIsFine ==
    ASSUME NEW d, DiskOK(d), NEW S
    PROVE  /\ DiskOK(Kept(d, S))
           /\ \A s, v : TempOK(d, s, v) => TempOK(Kept(d, S), s, v)
           /\ ToSet(Kept(d, S)) = ToSet(d) \cap S
<1>1. d \in Seq(Files)
  BY DEF DiskOK
<1>2. /\ Kept(d, S) \in Seq(Files) /\ \E g : IsPart(Kept(d, S), d, Len(d), g)
      /\ ToSet(Kept(d, S)) = ToSet(d) \cap S
  BY <1>1, KeptPart
<1> QED BY <1>2, PartIsFine

\* Entries are named by sources, and one of them is the entry of its name.
LEMMA EntriesOf ==
    ASSUME DiskOK(disk)
    PROVE  /\ Entries = NamesIn(disk) /\ Entries \subseteq Sources
           /\ \A x \in Entries : EntryOf(x) \in Files
<1>1. Entries = NamesIn(disk)
  BY DEF Entries, NamesIn
<1>2. ToSet(disk) \subseteq Files
  BY DEF DiskOK, ToSet
<1>3. Entries \subseteq Sources
  BY <1>2 DEF Entries, NameOf, Files, Payloads
<1>4. ASSUME NEW x \in Entries PROVE EntryOf(x) \in Files
  <2>1. \E f \in ToSet(disk) : IsEntry(f) /\ NameOf(f) = x
    BY DEF Entries
  <2>2. EntryOf(x) \in ToSet(disk)
    BY <2>1, Zenon DEF EntryOf
  <2> QED BY <1>2, <2>2
<1> QED BY <1>1, <1>3, <1>4

\* Temporary files that are deleted are no entries; a name that is unlinked is none any more.
LEMMA KeptEntries ==
    ASSUME DiskOK(disk)
    PROVE  /\ \A sources : NamesIn(WithoutTemporary(sources)) = Entries
           /\ \A s \in Sessions : NamesIn(WithoutOwn(s)) = Entries
           /\ \A x : NamesIn(Unlinked(x)) = Entries \ {x}
<1>1. ASSUME NEW sources PROVE NamesIn(WithoutTemporary(sources)) = Entries
  <2>1. ToSet(WithoutTemporary(sources)) =
            {f \in ToSet(disk) : IsEntry(f) \/ NameOf(f) \notin sources}
    BY KeptIsFine DEF WithoutTemporary
  <2> QED BY <2>1 DEF NamesIn, Entries
<1>2. ASSUME NEW s \in Sessions PROVE NamesIn(WithoutOwn(s)) = Entries
  <2>1. ToSet(WithoutOwn(s)) = {f \in ToSet(disk) : f.owner # s}
    BY KeptIsFine DEF WithoutOwn
  <2>2. None # s
    BY CacheAssumption
  <2> QED BY <2>1, <2>2 DEF NamesIn, Entries, IsEntry
<1>3. ASSUME NEW x PROVE NamesIn(Unlinked(x)) = Entries \ {x}
  <2>1. ToSet(Unlinked(x)) = {f \in ToSet(disk) : ~IsEntry(f) \/ NameOf(f) # x}
    BY KeptIsFine DEF Unlinked
  <2> QED BY <2>1 DEF NamesIn, Entries
<1> QED BY <1>1, <1>2, <1>3

\* The names of entries, in their order.
LEMMA NamesOfType ==
    ASSUME DiskOK(disk), NEW sources
    PROVE  /\ NamesOf(sources) \in Seq(Sources)
           /\ ToSet(NamesOf(sources)) = Entries \cap sources
<1> DEFINE S == {f \in ToSet(disk) : IsEntry(f) /\ NameOf(f) \in sources}
           k == Kept(disk, S)
<1>1. DiskOK(k) /\ ToSet(k) = S
  BY KeptIsFine
<1>2. k \in Seq(Files) /\ DOMAIN k = 1..Len(k) /\ Len(k) \in Nat
  BY <1>1 DEF DiskOK
<1>3. NamesOf(sources) = [i \in DOMAIN k |-> NameOf(k[i])]
  BY DEF NamesOf
<1>4. ToSet(NamesOf(sources)) = {NameOf(f) : f \in ToSet(k)}
  BY <1>3 DEF ToSet
<1>5. ToSet(NamesOf(sources)) = Entries \cap sources
  BY <1>1, <1>4 DEF Entries
<1> HIDE DEF k
<1>6. ASSUME NEW i \in 1..Len(k) PROVE NameOf(k[i]) \in Sources
  <2>1. k[i] \in Files
    BY <1>2
  <2>2. k[i].payload \in Payloads
    BY <2>1 DEF Files
  <2> QED BY <2>2 DEF NameOf, Payloads
<1>7. NamesOf(sources) \in Seq(Sources)
  BY <1>2, <1>3, <1>6
<1> QED BY <1>5, <1>7

\* A temporary file of a session that has none.
WithTemp(d, s, payload, state) ==
    Append(d, [owner |-> s, payload |-> payload, state |-> state])

\* A temporary file that is made or written is its session's, and disturbs no other.
LEMMA TempIsMade ==
    ASSUME NEW d, DiskOK(d), NEW s \in Sessions, NEW payload \in Payloads,
           NEW state \in {"partial", "whole"},
           \A i \in DOMAIN d : d[i].owner # s,
           NEW after, after = WithTemp(d, s, payload, state)
    PROVE  /\ DiskOK(after) /\ NamesIn(after) = NamesIn(d)
           /\ \A r \in Sessions : \A v : r # s /\ TempOK(d, r, v) => TempOK(after, r, v)
           /\ \A v : (/\ v.pc = "writing" \/ (v.pc = "renaming" /\ state = "whole")
                      /\ v.payload = payload) => TempOK(after, s, v)
<1> DEFINE f == [owner |-> s, payload |-> payload, state |-> state]
<1>1. f \in Files /\ ~IsEntry(f) /\ f.owner = s /\ f.payload = payload /\ f.state = state
  BY CacheAssumption DEF Files, IsEntry
<1> HIDE DEF f
<1>2. after = Append(d, f)
  BY DEF f, WithTemp
<1>3. d \in Seq(Files)
  BY DEF DiskOK
<1>4. /\ after \in Seq(Files) /\ DOMAIN after = DOMAIN d \cup {Len(d) + 1}
      /\ after[Len(d) + 1] = f /\ \A i \in DOMAIN d : after[i] = d[i]
  BY <1>1, <1>2, <1>3
<1>5. DiskOK(after)
  BY <1>1, <1>4 DEF DiskOK
<1>6. NamesIn(after) = NamesIn(d)
  <2>1. ToSet(after) = ToSet(d) \cup {f}
    BY <1>4 DEF ToSet
  <2> QED BY <1>1, <2>1 DEF NamesIn
<1>7. ASSUME NEW r \in Sessions, NEW v, r # s, TempOK(d, r, v) PROVE TempOK(after, r, v)
  BY <1>1, <1>4, <1>7 DEF TempOK
<1>8. ASSUME NEW v, v.payload = payload,
             v.pc = "writing" \/ (v.pc = "renaming" /\ state = "whole")
      PROVE  TempOK(after, s, v)
  BY <1>1, <1>4, <1>8 DEF TempOK
<1> QED BY <1>5, <1>6, <1>7, <1>8

\* The temporary file becomes the entry of its source, which has none any more.
LEMMA TempIsRenamed ==
    ASSUME NEW d, DiskOK(d), NEW s \in Sessions, NEW v, v.pc = "renaming", TempOK(d, s, v),
           v.payload.source \notin NamesIn(d),
           NEW after,
           after = [i \in DOMAIN d |-> IF d[i].owner = s THEN [d[i] EXCEPT !.owner = None] ELSE d[i]]
    PROVE  /\ DiskOK(after) /\ NamesIn(after) \subseteq NamesIn(d) \cup {v.payload.source}
           /\ NamesIn(d) \subseteq NamesIn(after)
           /\ \A r \in Sessions : \A w : r # s /\ TempOK(d, r, w) => TempOK(after, r, w)
           /\ \A i \in DOMAIN after : after[i].owner # s
<1>1. d \in Seq(Files) /\ DOMAIN d = 1..Len(d) /\ Len(d) \in Nat
  BY DEF DiskOK
<1>2. \A i \in DOMAIN d : d[i] \in Files
  BY <1>1
<1>3. None # s
  BY CacheAssumption
<1>4. ASSUME NEW i \in DOMAIN d
      PROVE  /\ after[i] \in Files /\ after[i].payload = d[i].payload /\ after[i].state = d[i].state
             /\ d[i].owner = s => after[i].owner = None
             /\ d[i].owner # s => after[i].owner = d[i].owner
  BY <1>2 DEF Files
<1>5. /\ after \in Seq(Files) /\ DOMAIN after = DOMAIN d
  <2>1. after = [i \in 1..Len(d) |-> after[i]] /\ \A i \in 1..Len(d) : after[i] \in Files
    BY <1>1, <1>4
  <2>2. DOMAIN after = DOMAIN d
    OBVIOUS
  <2>3. after \in Seq(Files)
    BY ONLY <1>1, <2>1, SMT
  <2> QED BY <2>2, <2>3
<1>6. ASSUME NEW i \in DOMAIN d, d[i].owner = s
      PROVE  /\ NameOf(d[i]) = v.payload.source /\ d[i].state = "whole"
             /\ \A j \in DOMAIN d : d[j].owner = s => j = i
  BY <1>6 DEF TempOK, NameOf
<1>7. \A i \in DOMAIN d : IsEntry(d[i]) => NameOf(d[i]) \in NamesIn(d)
  BY DEF NamesIn, ToSet
<1>8. \A i \in DOMAIN d : /\ NameOf(after[i]) = NameOf(d[i])
                          /\ IsEntry(after[i]) <=> IsEntry(d[i]) \/ d[i].owner = s
  BY <1>4 DEF NameOf, IsEntry
<1>9. ASSUME NEW i \in DOMAIN after, NEW j \in DOMAIN after,
             IsEntry(after[i]), IsEntry(after[j]), NameOf(after[i]) = NameOf(after[j])
      PROVE  i = j
  <2>1. CASE d[i].owner = s /\ d[j].owner = s
    BY <1>5, <1>6, <2>1
  <2>2. CASE d[i].owner = s /\ IsEntry(d[j])
    BY <1>5, <1>6, <1>7, <1>8, <1>9, <2>2
  <2>3. CASE d[j].owner = s /\ IsEntry(d[i])
    BY <1>5, <1>6, <1>7, <1>8, <1>9, <2>3
  <2>4. CASE IsEntry(d[i]) /\ IsEntry(d[j])
    BY <1>5, <1>8, <1>9, <2>4 DEF DiskOK
  <2> QED BY <1>5, <1>8, <1>9, <2>1, <2>2, <2>3, <2>4
<1>10. ASSUME NEW i \in DOMAIN after, IsEntry(after[i]) PROVE after[i].state # "partial"
  <2>1. CASE d[i].owner = s
    BY <1>4, <1>5, <1>6, <2>1
  <2>2. CASE IsEntry(d[i])
    BY <1>4, <1>5, <2>2 DEF DiskOK
  <2> QED BY <1>5, <1>8, <1>10, <2>1, <2>2
<1>11. DiskOK(after)
  <2>1. after \in Seq(Files)
    BY <1>5
  <2> QED BY ONLY <1>9, <1>10, <2>1 DEF DiskOK
<1>12. NamesIn(after) \subseteq NamesIn(d) \cup {v.payload.source}
  <2>1. ASSUME NEW i \in DOMAIN after, IsEntry(after[i])
        PROVE  NameOf(after[i]) \in NamesIn(d) \cup {v.payload.source}
    BY <1>5, <1>6, <1>7, <1>8, <2>1
  <2> QED BY <2>1 DEF NamesIn, ToSet
<1>13. NamesIn(d) \subseteq NamesIn(after)
  <2>1. ASSUME NEW i \in DOMAIN d, IsEntry(d[i]) PROVE NameOf(d[i]) \in NamesIn(after)
    <3>1. IsEntry(after[i]) /\ NameOf(after[i]) = NameOf(d[i]) /\ after[i] \in ToSet(after)
      BY <1>5, <1>8, <2>1 DEF ToSet
    <3> QED BY <3>1 DEF NamesIn
  <2>2. ASSUME NEW x \in NamesIn(d) PROVE x \in NamesIn(after)
    <3>1. PICK i \in DOMAIN d : IsEntry(d[i]) /\ x = NameOf(d[i])
      BY DEF NamesIn, ToSet
    <3> QED BY <2>1, <3>1
  <2> QED BY <2>2
<1>14. ASSUME NEW r \in Sessions, NEW w, r # s, TempOK(d, r, w) PROVE TempOK(after, r, w)
  <2>1. \A i \in DOMAIN d : after[i].owner = r => d[i].owner = r
    BY <1>4, CacheAssumption
  <2> QED BY <1>4, <1>5, <1>14, <2>1 DEF TempOK
<1>15. ASSUME NEW i \in DOMAIN after PROVE after[i].owner # s
  BY <1>3, <1>4, <1>5
<1> QED BY <1>11, <1>12, <1>13, <1>14, <1>15

\* Damage to an entry.
LEMMA EntryIsDamaged ==
    ASSUME NEW d, DiskOK(d), NEW e \in Files, IsEntry(e),
           NEW after,
           after = [i \in DOMAIN d |-> IF d[i] = e THEN [d[i] EXCEPT !.state = "damaged"] ELSE d[i]]
    PROVE  /\ DiskOK(after) /\ NamesIn(after) = NamesIn(d)
           /\ \A r \in Sessions : \A w : TempOK(d, r, w) => TempOK(after, r, w)
<1>1. d \in Seq(Files) /\ DOMAIN d = 1..Len(d) /\ Len(d) \in Nat
  BY DEF DiskOK
<1>2. \A i \in DOMAIN d : d[i] \in Files
  BY <1>1
<1>3. ASSUME NEW i \in DOMAIN d
      PROVE  /\ after[i] \in Files /\ after[i].payload = d[i].payload /\ after[i].owner = d[i].owner
             /\ after[i].state = d[i].state \/ (IsEntry(d[i]) /\ after[i].state = "damaged")
  BY <1>2 DEF Files
<1>4. after \in Seq(Files) /\ DOMAIN after = DOMAIN d
  <2>1. after = [i \in 1..Len(d) |-> after[i]] /\ \A i \in 1..Len(d) : after[i] \in Files
    BY <1>1, <1>3
  <2> QED BY <1>1, <2>1
<1>5. \A i \in DOMAIN d : NameOf(after[i]) = NameOf(d[i]) /\ (IsEntry(after[i]) <=> IsEntry(d[i]))
  BY <1>3 DEF NameOf, IsEntry
<1>6. DiskOK(after)
  <2>1. ASSUME NEW i \in DOMAIN after, NEW j \in DOMAIN after, IsEntry(after[i]), IsEntry(after[j]),
               NameOf(after[i]) = NameOf(after[j])
        PROVE  i = j
    BY <1>4, <1>5, <2>1 DEF DiskOK
  <2>2. \A i \in DOMAIN after : IsEntry(after[i]) => after[i].state # "partial"
    BY <1>3, <1>4, <1>5 DEF DiskOK
  <2>3. after \in Seq(Files)
    BY <1>4
  <2> QED BY ONLY <2>1, <2>2, <2>3 DEF DiskOK
<1>7. NamesIn(after) = NamesIn(d)
  <2>1. ASSUME NEW x \in NamesIn(d) PROVE x \in NamesIn(after)
    <3>1. PICK i \in DOMAIN d : IsEntry(d[i]) /\ x = NameOf(d[i])
      BY DEF NamesIn, ToSet
    <3>2. after[i] \in ToSet(after) /\ IsEntry(after[i]) /\ x = NameOf(after[i])
      BY <1>4, <1>5, <3>1 DEF ToSet
    <3> QED BY <3>2 DEF NamesIn
  <2>2. ASSUME NEW x \in NamesIn(after) PROVE x \in NamesIn(d)
    <3>1. PICK i \in DOMAIN after : IsEntry(after[i]) /\ x = NameOf(after[i])
      BY DEF NamesIn, ToSet
    <3>2. d[i] \in ToSet(d) /\ IsEntry(d[i]) /\ x = NameOf(d[i])
      BY <1>4, <1>5, <3>1 DEF ToSet
    <3> QED BY <3>2 DEF NamesIn
  <2> QED BY <2>1, <2>2
<1>8. ASSUME NEW r \in Sessions, NEW w, TempOK(d, r, w) PROVE TempOK(after, r, w)
  <2>1. \A i \in DOMAIN d : IsEntry(d[i]) => d[i].owner # r
    BY CacheAssumption DEF IsEntry
  <2> QED BY <1>3, <1>4, <1>8, <2>1 DEF TempOK
<1> QED BY <1>6, <1>7, <1>8

-----------------------------------------------------------------------------
(* What a load takes of the entries it read.                               *)

\* What was taken so far fits the source x, and the budget.
Fitted(x, loaded) ==
    /\ loaded \in Loads /\ IsFiniteSet(loaded.files) /\ IsFiniteSet(loaded.records)
    /\ \A pair \in loaded.files : Tree[pair[2]][pair[1]] = Tree[x][pair[1]]
    /\ \A record \in loaded.records : \A path \in record.files :
         /\ Tree[record.source][path] = Tree[x][path]
         /\ \E z \in Sources : <<path, z>> \in loaded.files
    /\ Cardinality(loaded.files) + Cardinality(loaded.records) <= LoadBudget

\* The files of a payload are paths.
LEMMA FilesArePaths ==
    ASSUME NEW payload \in Payloads
    PROVE  payload.source \in Sources /\ payload.files \subseteq Paths
  BY CacheAssumption DEF Payloads

\* A file that is taken is taken under its payload's source.
LEMMA TakeFilesType ==
    ASSUME NEW sofar \in Loads, NEW payload \in Payloads, NEW x,
           NEW next \in TakeFiles(sofar, payload, x)
    PROVE  next \in Loads
<1> DEFINE fresh == {path \in Matching(payload, x) :
                       \A y \in Sources : <<path, y>> \notin sofar.files}
<1>1. PICK part \in SUBSET fresh :
        next = [sofar EXCEPT !.files = @ \cup {<<path, payload.source>> : path \in part}]
  BY DEF TakeFiles
<1>2. part \subseteq Paths /\ payload.source \in Sources
  BY FilesArePaths DEF Matching
<1>3. {<<path, payload.source>> : path \in part} \subseteq Paths \X Sources
  BY <1>2
<1> QED BY <1>1, <1>3 DEF Loads

\* Taking a record over leaves a load.
LEMMA TakeRecordType ==
    ASSUME NEW sofar \in Loads, NEW payload \in Payloads, NEW x
    PROVE  TakeRecord(sofar, payload, x) \in Loads
  BY DEF TakeRecord, Loads

\* The files taken have the contents of x, and there is room for them.
LEMMA TakeFilesFits ==
    ASSUME NEW x, NEW sofar, Fitted(x, sofar), NEW payload \in Payloads,
           NEW next \in TakeFiles(sofar, payload, x)
    PROVE  Fitted(x, next)
<1> DEFINE fresh == {path \in Matching(payload, x) :
                       \A y \in Sources : <<path, y>> \notin sofar.files}
           room == LoadBudget - Cardinality(sofar.files) - Cardinality(sofar.records)
           fits == IF Cardinality(fresh) < room THEN Cardinality(fresh) ELSE room
<1>1. PICK part \in SUBSET fresh :
        /\ Cardinality(part) = fits
        /\ next = [sofar EXCEPT !.files = @ \cup {<<path, payload.source>> : path \in part}]
  BY DEF TakeFiles
<1>2. /\ sofar \in Loads /\ IsFiniteSet(sofar.files) /\ IsFiniteSet(sofar.records)
      /\ Cardinality(sofar.files) + Cardinality(sofar.records) <= LoadBudget
  BY DEF Fitted
<1>3. Cardinality(sofar.files) \in Nat /\ Cardinality(sofar.records) \in Nat /\ LoadBudget \in Nat
  BY <1>2, FS_CardinalityType, CacheAssumption
<1>4. part \subseteq Paths /\ payload.source \in Sources
  BY FilesArePaths DEF Matching
<1>5. IsFiniteSet(part)
  BY <1>4, FS_Subset, CacheAssumption
<1>6. IsFiniteSet(fresh) /\ Cardinality(fresh) \in Nat
  <2>1. fresh \subseteq Paths
    BY FilesArePaths DEF Matching
  <2> QED BY <2>1, FS_Subset, FS_CardinalityType, CacheAssumption
<1>7. fits <= room /\ Cardinality(part) <= room
  BY <1>1, <1>3, <1>6
<1> DEFINE new == {<<path, payload.source>> : path \in part}
<1>8. IsFiniteSet(new) /\ Cardinality(new) <= Cardinality(part) /\ Cardinality(new) \in Nat
  <2> DEFINE named == [path \in part |-> <<path, payload.source>>]
  <2>1. named \in Surjection(part, new)
    BY DEF Surjection
  <2> QED BY <1>5, <2>1, FS_Surjection, FS_CardinalityType
<1>9. next \in Loads /\ next.records = sofar.records /\ next.files = sofar.files \cup new
  BY <1>1, <1>2, TakeFilesType DEF Loads
<1>10. \A path \in part : Tree[payload.source][path] = Tree[x][path]
  BY DEF Matching
<1> HIDE DEF fresh, room, fits, new
<1>11. /\ IsFiniteSet(next.files)
       /\ Cardinality(next.files) <= Cardinality(sofar.files) + Cardinality(new)
       /\ Cardinality(next.files) \in Nat
  <2>1. IsFiniteSet(sofar.files \cup new)
    BY <1>2, <1>8, FS_Union
  <2>2. Cardinality(sofar.files \cup new) =
            Cardinality(sofar.files) + Cardinality(new) - Cardinality(sofar.files \cap new)
    BY <1>2, <1>8, FS_Union
  <2>3. Cardinality(sofar.files \cap new) \in Nat
    BY <1>2, FS_Intersection, FS_CardinalityType
  <2> QED BY <1>3, <1>8, <1>9, <2>1, <2>2, <2>3, FS_CardinalityType
<1>12. Cardinality(next.files) + Cardinality(next.records) <= LoadBudget
  BY <1>3, <1>7, <1>8, <1>9, <1>11, FS_CardinalityType, <1>5 DEF room
<1>13. ASSUME NEW pair \in next.files PROVE Tree[pair[2]][pair[1]] = Tree[x][pair[1]]
  <2>1. CASE pair \in sofar.files
    BY <2>1 DEF Fitted
  <2>2. CASE pair \in new
    BY <1>10, <2>2 DEF new
  <2> QED BY <1>9, <2>1, <2>2
<1>14. \A record \in next.records : \A path \in record.files :
         /\ Tree[record.source][path] = Tree[x][path]
         /\ \E z \in Sources : <<path, z>> \in next.files
  BY <1>9 DEF Fitted
<1> QED BY <1>2, <1>9, <1>11, <1>12, <1>13, <1>14 DEF Fitted

\* A plugin record is taken only with all its files.
LEMMA TakeRecordFits ==
    ASSUME NEW x, NEW sofar, Fitted(x, sofar), NEW payload \in Payloads
    PROVE  Fitted(x, TakeRecord(sofar, payload, x))
<1>1. CASE TakeRecord(sofar, payload, x) = sofar
  BY <1>1
<1>2. CASE /\ RecordFits(payload, x, sofar.files) /\ Cardinality(sofar.files) < LoadBudget
           /\ TakeRecord(sofar, payload, x) = [sofar EXCEPT !.records = {payload}]
  <2> DEFINE next == [sofar EXCEPT !.records = {payload}]
  <2>1. sofar \in Loads /\ IsFiniteSet(sofar.files)
    BY DEF Fitted
  <2>2. next \in Loads /\ next.files = sofar.files /\ next.records = {payload}
    BY <2>1 DEF Loads
  <2> HIDE DEF next
  <2>3. IsFiniteSet({payload}) /\ Cardinality({payload}) = 1
    BY FS_Singleton
  <2>4. Cardinality(next.files) + Cardinality(next.records) <= LoadBudget
    BY <1>2, <2>1, <2>2, <2>3, FS_CardinalityType, CacheAssumption
  <2>5. ASSUME NEW path \in payload.files
        PROVE  /\ Tree[payload.source][path] = Tree[x][path]
               /\ \E z \in Sources : <<path, z>> \in next.files
    BY <1>2, <2>2 DEF RecordFits, Matching
  <2>6. Fitted(x, next)
    BY <2>1, <2>2, <2>3, <2>4, <2>5 DEF Fitted
  <2> QED BY <1>2, <2>6 DEF next
<1> QED BY <1>1, <1>2 DEF TakeRecord

\* One entry more.
TakeNext(sofars, payload, x) ==
    {TakeRecord(next, payload, x) : next \in UNION {TakeFiles(sofar, payload, x) : sofar \in sofars}}

\* One more record taken over, or dropped by a cap, still fits.
LEMMA TakeNextFits ==
    ASSUME NEW sofars \in SUBSET Loads, NEW payload \in Payloads, NEW x
    PROVE  /\ TakeNext(sofars, payload, x) \in SUBSET Loads
           /\ (\A sofar \in sofars : Fitted(x, sofar)) =>
                \A next \in TakeNext(sofars, payload, x) : Fitted(x, next)
<1> SUFFICES ASSUME NEW next \in TakeNext(sofars, payload, x)
             PROVE  /\ next \in Loads
                    /\ (\A sofar \in sofars : Fitted(x, sofar)) => Fitted(x, next)
  OBVIOUS
<1>1. PICK sofar \in sofars : \E mid \in TakeFiles(sofar, payload, x) : next = TakeRecord(mid, payload, x)
  BY DEF TakeNext
<1>2. PICK mid \in TakeFiles(sofar, payload, x) : next = TakeRecord(mid, payload, x)
  BY <1>1
<1>3. mid \in Loads
  BY TakeFilesType
<1>4. next \in Loads
  BY <1>2, <1>3, TakeRecordType
<1>5. Fitted(x, sofar) => Fitted(x, next)
  BY <1>2, TakeFilesFits, TakeRecordFits
<1> QED BY <1>4, <1>5

\* What was taken after n entries.
IsTaken(F, entries, x) ==
    /\ Taken(entries, x) = F[Len(entries)]
    /\ F[0] = {[files |-> {}, records |-> {}]}
    /\ \A n \in 1..Len(entries) : F[n] = TakeNext(F[n - 1], entries[n], x)

\* Taken is computed record by record.
LEMMA TakenUnfold ==
    ASSUME NEW entries \in Seq(Payloads), NEW x
    PROVE  \E F : IsTaken(F, entries, x)
<1> DEFINE N == Len(entries)
           S == SUBSET Loads
           z == {[files |-> {}, records |-> {}]}
           G == [n \in 1..N |-> [sofars \in S |-> TakeNext(sofars, entries[n], x)]]
           chosen == CHOOSE F : F = [i \in 0..N |->
                        IF i = 0 THEN z ELSE TakeNext(F[i - 1], entries[i], x)]
<1>1. N \in Nat /\ \A n \in 1..N : entries[n] \in Payloads
  OBVIOUS
<1>2. z \in S
  BY DEF Loads
<1>3. G \in [1..N -> [S -> S]]
  BY <1>1, TakeNextFits
<1> HIDE DEF z
<1>4. PICK f : Iterates(f, N, S, z, G)
  BY <1>1, <1>2, <1>3, IteratesExist
<1>5. f \in [0..N -> S] /\ f[0] = z
  BY <1>4 DEF Iterates
<1> HIDE DEF N
<1>6. ASSUME NEW i \in 0..N
      PROVE  f[i] = IF i = 0 THEN z ELSE TakeNext(f[i - 1], entries[i], x)
  <2>1. CASE i = 0
    BY <1>5, <2>1
  <2>2. CASE i # 0
    <3>1. i \in 1..N /\ i - 1 \in 0..N
      BY <1>1, <2>2
    <3>2. f[i] = G[i][f[i - 1]] /\ f[i - 1] \in S
      BY <1>4, <1>5, <3>1 DEF Iterates
    <3> QED BY <2>2, <3>1, <3>2
  <2> QED BY <2>1, <2>2
<1> HIDE DEF G
<1>7. f = [i \in 0..N |-> IF i = 0 THEN z ELSE TakeNext(f[i - 1], entries[i], x)]
  <2>1. f = [i \in 0..N |-> f[i]]
    BY <1>5
  <2> QED BY <1>6, <2>1
<1>8. chosen = [i \in 0..N |-> IF i = 0 THEN z ELSE TakeNext(chosen[i - 1], entries[i], x)]
  BY <1>7, Zenon
<1>9. Taken(entries, x) = chosen[N]
  BY Zenon DEF Taken, TakeNext, N, z
<1> HIDE DEF chosen
<1>10. 0 \in 0..N /\ \A n \in 1..N : n \in 0..N /\ n # 0
  BY <1>1
<1>11. chosen[0] = z
  BY <1>8, <1>10
<1>12. ASSUME NEW n \in 1..N PROVE chosen[n] = TakeNext(chosen[n - 1], entries[n], x)
  <2>1. n \in 0..N /\ n # 0
    BY <1>10
  <2> QED BY <1>8, <2>1
<1>13. IsTaken(chosen, entries, x)
  BY <1>9, <1>11, <1>12 DEF IsTaken, N, z
<1> QED BY <1>13

\* Whatever the entries are, what is taken of them fits.
LEMMA TakenFits ==
    ASSUME NEW entries \in Seq(Payloads), NEW x, NEW loaded \in Taken(entries, x)
    PROVE  Fitted(x, loaded)
<1>1. PICK F : IsTaken(F, entries, x)
  BY TakenUnfold
<1>2. /\ Taken(entries, x) = F[Len(entries)]
      /\ F[0] = {[files |-> {}, records |-> {}]}
      /\ \A n \in 1..Len(entries) : F[n] = TakeNext(F[n - 1], entries[n], x)
  BY <1>1 DEF IsTaken
<1>3. Len(entries) \in Nat /\ \A n \in 1..Len(entries) : entries[n] \in Payloads
  OBVIOUS
<1> DEFINE P == {n \in 0..Len(entries) :
                   F[n] \in SUBSET Loads /\ \A sofar \in F[n] : Fitted(x, sofar)}
<1>4. 0 \in P
  <2> DEFINE none == [files |-> {}, records |-> {}]
  <2>1. none \in Loads /\ none.files = {} /\ none.records = {}
    BY DEF Loads
  <2> HIDE DEF none
  <2>2. Fitted(x, none)
    BY <2>1, FS_EmptySet, CacheAssumption DEF Fitted
  <2>3. F[0] = {none}
    BY <1>2 DEF none
  <2> QED BY <1>3, <2>1, <2>2, <2>3
<1>5. ASSUME NEW n \in 1..Len(entries), n - 1 \in P PROVE n \in P
  BY <1>2, <1>3, <1>5, TakeNextFits
<1>6. Len(entries) \in P
  <2> HIDE DEF P
  <2>1. \A n \in 0..Len(entries) : n \in P
    BY <1>3, <1>4, <1>5, UpTo
  <2> QED BY <1>3, <2>1
<1> QED BY <1>2, <1>6

-----------------------------------------------------------------------------
(* The sessions.                                                           *)

Storing == {"evicting", "creating", "writing", "renaming"}

\* What holds of a session's handler and the files at every point of a call.
SessionOK(d, s, v) ==
    /\ v \in Handlers
    /\ v.pc \in Storing => v.payload \in Payloads
    /\ TempOK(d, s, v)
    /\ v.pc \in {"opening", "discarding"} => v.names # <<>>
    /\ v.pc = "opening" /\ ~v.changed => Head(v.names) \in NamesIn(d)
    /\ v.pc = "returned" => Fitted(v.audit, v.loaded)

\* The inductive invariant of the files.
FilesOK ==
    /\ DiskOK(disk)
    /\ session \in [Sessions -> Handlers]
    /\ \A s \in Sessions : SessionOK(disk, s, session[s])

\* A handler that is neither storing, nor at an entry, nor with a result.
LEMMA AtRest ==
    ASSUME NEW d, NEW s, NEW v \in Handlers, v.pc \in {"idle", "looking", "cleaning"}
    PROVE  SessionOK(d, s, v)
  BY DEF SessionOK, TempOK, Storing

\* A session that waits for a call.
LEMMA IdleType ==
    ASSUME NEW audit \in Sources \cup {None}, NEW bound \in Sources \cup {None}
    PROVE  Idle(audit, bound) \in Handlers /\ Idle(audit, bound).pc = "idle"
  BY DEF Idle, Handlers, Calls, Payloads

\* One session goes on; the others stay as they are, but for those whose entry it took.
LEMMA OthersGoOn ==
    ASSUME FilesOK, NEW s \in Sessions, NEW next, NEW x, Goes(s, next, x),
           DiskOK(disk'), SessionOK(disk', s, next),
           \A r \in Sessions : \A v : r # s /\ TempOK(disk, r, v) => TempOK(disk', r, v),
           Entries \ {x} \subseteq NamesIn(disk')
    PROVE  FilesOK'
<1>1. /\ session \in [Sessions -> Handlers] /\ \A r \in Sessions : SessionOK(disk, r, session[r])
      /\ Entries = NamesIn(disk)
  BY EntriesOf DEF FilesOK
<1>2. ASSUME NEW r \in Sessions PROVE SessionOK(disk', r, session'[r])
  <2>1. CASE r = s
    BY <2>1 DEF Goes
  <2>2. CASE r # s /\ session[r].pc = "opening" /\ Head(session[r].names) = x
    <3>1. session'[r] = [session[r] EXCEPT !.changed = TRUE]
      BY <2>2 DEF Goes
    <3>2. session[r] \in Handlers /\ session[r].names # <<>>
      BY <1>1, <2>2 DEF SessionOK
    <3>3. /\ session'[r] \in Handlers /\ session'[r].pc = "opening" /\ session'[r].changed
          /\ session'[r].names = session[r].names
      BY <2>2, <3>1, <3>2 DEF Handlers
    <3> QED BY <3>2, <3>3 DEF SessionOK, TempOK, Storing
  <2>3. CASE r # s /\ ~(session[r].pc = "opening" /\ Head(session[r].names) = x)
    <3>1. session'[r] = session[r] /\ SessionOK(disk, r, session[r])
      BY <1>1, <2>3 DEF Goes
    <3>2. TempOK(disk', r, session[r])
      BY <2>3, <3>1 DEF SessionOK
    <3>3. session[r].pc = "opening" /\ ~session[r].changed => Head(session[r].names) \in NamesIn(disk')
      BY <1>1, <2>3, <3>1 DEF SessionOK
    <3> QED BY <3>1, <3>2, <3>3 DEF SessionOK
  <2> QED BY <2>1, <2>2, <2>3
<1>3. session' = [r \in Sessions |-> session'[r]]
  BY DEF Goes
<1>4. session' \in [Sessions -> Handlers]
  BY <1>2, <1>3 DEF SessionOK
<1> QED BY <1>2, <1>4 DEF FilesOK

\* The same when the files do not change.
LEMMA SessionGoesOn ==
    ASSUME FilesOK, NEW s \in Sessions, NEW next, Becomes(s, next), UNCHANGED disk,
           SessionOK(disk, s, next)
    PROVE  FilesOK'
<1>1. DiskOK(disk') /\ Entries = NamesIn(disk')
  BY EntriesOf DEF FilesOK
<1>2. SessionOK(disk', s, next) /\ \A r \in Sessions : \A v : TempOK(disk, r, v) => TempOK(disk', r, v)
  OBVIOUS
<1> QED BY <1>1, <1>2, OthersGoOn DEF Becomes

\* The same when only temporary files go.
LEMMA SessionCleans ==
    ASSUME FilesOK, NEW s \in Sessions, NEW next, Becomes(s, next),
           DiskOK(disk'), Entries = NamesIn(disk'),
           \A r \in Sessions : \A v : TempOK(disk, r, v) => TempOK(disk', r, v),
           SessionOK(disk', s, next)
    PROVE  FilesOK'
  BY OthersGoOn DEF Becomes

\* The same when an entry is unlinked.
LEMMA SessionUnlinks ==
    ASSUME FilesOK, NEW s \in Sessions, NEW next, NEW x, Goes(s, next, x),
           disk' = Unlinked(x), SessionOK(disk', s, next)
    PROVE  FilesOK'
<1>1. DiskOK(disk)
  BY DEF FilesOK
<1>2. DiskOK(disk') /\ \A r, v : TempOK(disk, r, v) => TempOK(disk', r, v)
  BY <1>1, KeptIsFine DEF Unlinked
<1>3. NamesIn(disk') = Entries \ {x}
  BY <1>1, KeptEntries
<1> QED BY <1>2, <1>3, OthersGoOn

\* A handler that returns.
LEMMA ReturnIsFine ==
    ASSUME FilesOK, NEW s \in Sessions, NEW d
    PROVE  SessionOK(d, s, Idle(session[s].audit, session[s].bound))
<1>1. session[s] \in Handlers
  BY DEF FilesOK
<1>2. session[s].audit \in Sources \cup {None} /\ session[s].bound \in Sources \cup {None}
  BY <1>1 DEF Handlers
<1> QED BY <1>2, IdleType, AtRest

-----------------------------------------------------------------------------
(* Storing.                                                                *)

\* A store holds its payload and the names it lists; temporary files go.
LEMMA StoreKeeps ==
    ASSUME FilesOK, NEW s \in Sessions, NEW files \in Indexed, Store(s, files)
    PROVE  FilesOK'
<1> DEFINE x == session[s].audit
           next == [In(s, "evicting") EXCEPT !.payload = [source |-> x, files |-> files],
                                             !.names = NamesOf(Sources \ {x})]
<1>1. DiskOK(disk) /\ session[s] \in Handlers
  BY DEF FilesOK
<1>2. disk' = WithoutTemporary(Sources) /\ Becomes(s, next) /\ x \in Sources
  BY <1>1 DEF Store, Binds, Handlers
<1>3. DiskOK(disk') /\ \A r, v : TempOK(disk, r, v) => TempOK(disk', r, v)
  BY <1>1, <1>2, KeptIsFine DEF WithoutTemporary
<1>4. NamesIn(disk') = Entries
  BY <1>1, <1>2, KeptEntries
<1>5. \A i \in DOMAIN disk' : disk'[i].owner # s
  <2>1. ToSet(disk') = {f \in ToSet(disk) : IsEntry(f) \/ NameOf(f) \notin Sources}
    BY <1>1, <1>2, KeptIsFine DEF WithoutTemporary
  <2>2. ASSUME NEW f \in ToSet(disk) PROVE NameOf(f) \in Sources
    <3>1. f \in Files
      BY <1>1 DEF DiskOK, ToSet
    <3> QED BY <3>1 DEF NameOf, Files, Payloads
  <2>3. \A i \in DOMAIN disk' : IsEntry(disk'[i])
    BY <2>1, <2>2 DEF ToSet
  <2> QED BY <2>3, CacheAssumption DEF IsEntry
<1>6. [source |-> x, files |-> files] \in Payloads /\ NamesOf(Sources \ {x}) \in Seq(Sources)
  BY <1>1, <1>2, NamesOfType DEF Payloads
<1>7. next \in Handlers /\ next.pc = "evicting" /\ next.payload \in Payloads
  BY <1>1, <1>2, <1>6 DEF In, Handlers, Calls
<1> HIDE DEF next
<1>8. SessionOK(disk', s, next)
  BY <1>5, <1>7 DEF SessionOK, TempOK, Storing
<1> QED BY <1>2, <1>3, <1>4, <1>8, SessionCleans

\* An eviction removes one entry, or the store fails.
LEMMA EvictKeeps ==
    ASSUME FilesOK, NEW s \in Sessions, Evict(s)
    PROVE  FilesOK'
<1> DEFINE now == session[s]
           victim == Victim(now.payload.source, now.names)
           next == [now EXCEPT !.names = Kept(@, Sources \ {victim})]
<1>1. DiskOK(disk) /\ now \in Handlers /\ now.pc = "evicting" /\ SessionOK(disk, s, now)
  BY DEF FilesOK, Evict
<1>2. CASE victim \in Entries
  <2>1. disk' = Unlinked(victim) /\ Goes(s, next, victim)
    BY <1>2 DEF Evict
  <2>2. now.names \in Seq(Sources)
    BY <1>1 DEF Handlers
  <2>3. Kept(now.names, Sources \ {victim}) \in Seq(Sources)
    BY <2>2, KeptPart
  <2>4. /\ next \in Handlers /\ next.pc = "evicting" /\ next.payload = now.payload
    BY <1>1, <2>3 DEF Handlers
  <2> HIDE DEF next
  <2>5. TempOK(disk', s, now)
    BY <1>1, <2>1, KeptIsFine DEF Unlinked, SessionOK
  <2>6. SessionOK(disk', s, next)
    BY <1>1, <2>4, <2>5 DEF SessionOK, TempOK, Storing
  <2> QED BY <2>1, <2>6, SessionUnlinks
<1>3. CASE victim \notin Entries
  <2>1. Returns(s) /\ UNCHANGED disk
    BY <1>3 DEF Evict
  <2> QED BY <2>1, ReturnIsFine, SessionGoesOn DEF Returns
<1> QED BY <1>2, <1>3

\* With room for it, the payload is to be written.
LEMMA HasRoomKeeps ==
    ASSUME FilesOK, NEW s \in Sessions, HasRoom(s)
    PROVE  FilesOK'
<1> DEFINE next == [session[s] EXCEPT !.pc = "creating", !.names = <<>>]
<1>1. session[s] \in Handlers /\ session[s].pc = "evicting" /\ SessionOK(disk, s, session[s])
  BY DEF FilesOK, HasRoom
<1>2. Becomes(s, next) /\ UNCHANGED disk
  BY DEF HasRoom
<1>3. next \in Handlers /\ next.pc = "creating" /\ next.payload = session[s].payload
  <2>1. <<>> \in Seq(Sources)
    OBVIOUS
  <2> QED BY <1>1, <2>1 DEF Handlers, Calls
<1> HIDE DEF next
<1>4. SessionOK(disk, s, next)
  BY <1>1, <1>3 DEF SessionOK, TempOK, Storing
<1> QED BY <1>2, <1>4, SessionGoesOn

\* The temporary file is made, and no entry changes.
LEMMA CreateTempKeeps ==
    ASSUME FilesOK, NEW s \in Sessions, CreateTemp(s)
    PROVE  FilesOK' /\ NamesIn(disk') = Entries
<1> DEFINE next == [session[s] EXCEPT !.pc = "writing"]
           payload == session[s].payload
<1>1. /\ DiskOK(disk) /\ session[s] \in Handlers /\ session[s].pc = "creating"
      /\ SessionOK(disk, s, session[s]) /\ Entries = NamesIn(disk)
  BY EntriesOf DEF FilesOK, CreateTemp
<1>2. /\ Becomes(s, next) /\ payload \in Payloads /\ \A i \in DOMAIN disk : disk[i].owner # s
      /\ disk' = WithTemp(disk, s, payload, "partial")
  BY <1>1 DEF CreateTemp, SessionOK, TempOK, Storing, WithTemp
<1>3. next \in Handlers /\ next.pc = "writing" /\ next.payload = payload
  BY <1>1 DEF Handlers, Calls
<1> HIDE DEF next, payload
<1>4. /\ DiskOK(disk') /\ NamesIn(disk') = Entries
      /\ \A r \in Sessions : \A v : r # s /\ TempOK(disk, r, v) => TempOK(disk', r, v)
      /\ \A v : v.pc = "writing" /\ v.payload = payload => TempOK(disk', s, v)
  <2>1. "partial" \in {"partial", "whole"}
    OBVIOUS
  <2>2. DiskOK(disk') /\ NamesIn(disk') = NamesIn(disk)
    BY <1>1, <1>2, <2>1, TempIsMade
  <2>3. \A r \in Sessions : \A v : r # s /\ TempOK(disk, r, v) => TempOK(disk', r, v)
    BY <1>1, <1>2, <2>1, TempIsMade
  <2>4. \A v : v.pc = "writing" /\ v.payload = payload => TempOK(disk', s, v)
    BY <1>1, <1>2, <2>1, TempIsMade
  <2> QED BY <1>1, <2>2, <2>3, <2>4
<1>5. SessionOK(disk', s, next)
  BY <1>2, <1>3, <1>4 DEF SessionOK, Storing
<1> QED BY <1>2, <1>4, <1>5, OthersGoOn DEF Becomes

\* The temporary file is written, and no entry changes.
LEMMA WriteTempKeeps ==
    ASSUME FilesOK, NEW s \in Sessions, WriteTemp(s)
    PROVE  FilesOK' /\ NamesIn(disk') = Entries
<1> DEFINE next == [session[s] EXCEPT !.pc = "renaming"]
           payload == session[s].payload
           rest == WithoutOwn(s)
<1>1. /\ DiskOK(disk) /\ session[s] \in Handlers /\ session[s].pc = "writing"
      /\ SessionOK(disk, s, session[s]) /\ Entries = NamesIn(disk)
  BY EntriesOf DEF FilesOK, WriteTemp
<1>2. Becomes(s, next) /\ payload \in Payloads
  BY <1>1 DEF WriteTemp, SessionOK, Storing
<1>3. next \in Handlers /\ next.pc = "renaming" /\ next.payload = payload
  BY <1>1 DEF Handlers, Calls
<1> HIDE DEF next, payload
<1>4. CASE Temporary(s) = {}
  <2>1. disk' = disk /\ \A i \in DOMAIN disk : disk[i].owner # s
    BY <1>4 DEF WriteTemp, Temporary
  <2>2. SessionOK(disk, s, next)
    BY <1>2, <1>3, <2>1 DEF SessionOK, TempOK, Storing
  <2> QED BY <1>1, <1>2, <2>1, <2>2, SessionGoesOn
<1>5. CASE Temporary(s) # {}
  <2>1. disk' = WithTemp(rest, s, payload, "whole")
    BY <1>5 DEF WriteTemp, payload, WithTemp
  <2>2. /\ DiskOK(rest) /\ NamesIn(rest) = Entries
        /\ \A r, v : TempOK(disk, r, v) => TempOK(rest, r, v)
        /\ ToSet(rest) = {f \in ToSet(disk) : f.owner # s}
    BY <1>1, KeptIsFine, KeptEntries DEF WithoutOwn
  <2>3. \A i \in DOMAIN rest : rest[i].owner # s
    BY <2>2 DEF ToSet
  <2> HIDE DEF rest
  <2>4. /\ DiskOK(disk') /\ NamesIn(disk') = Entries
        /\ \A r \in Sessions : \A v : r # s /\ TempOK(disk, r, v) => TempOK(disk', r, v)
        /\ \A v : v.pc = "renaming" /\ v.payload = payload => TempOK(disk', s, v)
    <3>1. "whole" \in {"partial", "whole"}
      OBVIOUS
    <3>2. DiskOK(disk') /\ NamesIn(disk') = NamesIn(rest)
      BY <1>2, <2>1, <2>2, <2>3, <3>1, TempIsMade
    <3>3. \A r \in Sessions : \A v : r # s /\ TempOK(rest, r, v) => TempOK(disk', r, v)
      BY <1>2, <2>1, <2>2, <2>3, <3>1, TempIsMade
    <3>4. \A v : v.pc = "renaming" /\ v.payload = payload => TempOK(disk', s, v)
      BY <1>2, <2>1, <2>2, <2>3, <3>1, TempIsMade
    <3> QED BY <2>2, <3>2, <3>3, <3>4
  <2>5. SessionOK(disk', s, next)
    BY <1>2, <1>3, <2>4 DEF SessionOK, Storing
  <2> QED BY <1>2, <2>4, <2>5, OthersGoOn DEF Becomes
<1> QED BY <1>4, <1>5

\* The temporary file becomes the entry of its source, whole.
LEMMA RenameTempKeeps ==
    ASSUME FilesOK, NEW s \in Sessions, RenameTemp(s)
    PROVE  /\ FilesOK'
           /\ NamesIn(disk') = Entries \/ NamesIn(disk') \subseteq Entries \cup {session[s].payload.source}
<1> DEFINE x == session[s].payload.source
           rest == Unlinked(x)
           next == Idle(session[s].audit, session[s].bound)
<1>1. /\ DiskOK(disk) /\ session[s] \in Handlers /\ session[s].pc = "renaming"
      /\ SessionOK(disk, s, session[s]) /\ Entries = NamesIn(disk)
  BY EntriesOf DEF FilesOK, RenameTemp
<1>2. CASE Temporary(s) = {}
  <2>1. Returns(s) /\ UNCHANGED disk
    BY <1>2 DEF RenameTemp
  <2> QED BY <1>1, <2>1, ReturnIsFine, SessionGoesOn DEF Returns
<1>3. CASE Temporary(s) # {}
  <2>1. /\ disk' = [i \in DOMAIN rest |->
                      IF rest[i].owner = s THEN [rest[i] EXCEPT !.owner = None] ELSE rest[i]]
        /\ Goes(s, next, x)
    BY <1>3 DEF RenameTemp
  <2>2. /\ DiskOK(rest) /\ NamesIn(rest) = Entries \ {x}
        /\ \A r, v : TempOK(disk, r, v) => TempOK(rest, r, v)
    BY <1>1, KeptIsFine, KeptEntries DEF Unlinked
  <2> HIDE DEF rest
  <2>3. TempOK(rest, s, session[s])
    BY <1>1, <2>2 DEF SessionOK
  <2>4. /\ DiskOK(disk') /\ NamesIn(disk') \subseteq NamesIn(rest) \cup {x}
        /\ NamesIn(rest) \subseteq NamesIn(disk')
        /\ \A r \in Sessions : \A w : r # s /\ TempOK(rest, r, w) => TempOK(disk', r, w)
    BY <1>1, <2>1, <2>2, <2>3, TempIsRenamed
  <2>5. SessionOK(disk', s, next)
    BY ReturnIsFine
  <2>6. FilesOK'
    BY <2>1, <2>2, <2>4, <2>5, OthersGoOn
  <2> QED BY <2>2, <2>4, <2>6
<1> QED BY <1>2, <1>3

\* A store that fails removes its temporary file.
LEMMA StoreFailsKeeps ==
    ASSUME FilesOK, NEW s \in Sessions, StoreFails(s)
    PROVE  FilesOK'
<1>1. DiskOK(disk) /\ disk' = WithoutOwn(s) /\ Returns(s)
  BY DEF FilesOK, StoreFails
<1>2. DiskOK(disk') /\ \A r, v : TempOK(disk, r, v) => TempOK(disk', r, v)
  BY <1>1, KeptIsFine DEF WithoutOwn
<1>3. NamesIn(disk') = Entries
  BY <1>1, KeptEntries
<1> QED BY <1>1, <1>2, <1>3, ReturnIsFine, SessionCleans DEF Returns

-----------------------------------------------------------------------------
(* Reading and cleaning.                                                   *)

\* What is left of a sequence after its head, and the sequence from its end.
LEMMA SequenceTypes ==
    ASSUME NEW T, NEW seq \in Seq(T)
    PROVE  /\ Reverse(seq) \in Seq(T)
           /\ seq # <<>> => Tail(seq) \in Seq(T)
           /\ \A e \in T : Append(seq, e) \in Seq(T)
<1>1. Len(seq) \in Nat /\ \A i \in 1..Len(seq) : seq[i] \in T
  OBVIOUS
<1>2. \A i \in 1..Len(seq) : (Len(seq) - i) + 1 \in 1..Len(seq)
  BY <1>1
<1>3. \A i \in 1..Len(seq) : seq[(Len(seq) - i) + 1] \in T
  BY <1>1, <1>2
<1>4. Reverse(seq) \in Seq(T)
  BY <1>1, <1>3 DEF Reverse
<1> QED BY <1>4

\* A load lists the names it will read; their temporary files go.
LEMMA ReadKeeps ==
    ASSUME FilesOK, NEW s \in Sessions, Read(s)
    PROVE  FilesOK'
<1> DEFINE here == Siblings(session[s].audit)
           next == [In(s, "looking") EXCEPT !.names = Reverse(NamesOf(here))]
<1>1. DiskOK(disk) /\ session[s] \in Handlers
  BY DEF FilesOK
<1>2. disk' = WithoutTemporary(here) /\ Becomes(s, next)
  BY DEF Read
<1>3. DiskOK(disk') /\ \A r, v : TempOK(disk, r, v) => TempOK(disk', r, v)
  BY <1>1, <1>2, KeptIsFine DEF WithoutTemporary
<1>4. NamesIn(disk') = Entries
  BY <1>1, <1>2, KeptEntries
<1>5. Reverse(NamesOf(here)) \in Seq(Sources)
  BY <1>1, NamesOfType, SequenceTypes
<1>6. next \in Handlers /\ next.pc = "looking"
  BY <1>1, <1>5 DEF In, Handlers, Calls
<1> HIDE DEF next
<1> QED BY <1>2, <1>3, <1>4, <1>6, AtRest, SessionCleans

\* A load finds an entry, or passes over its name.
LEMMA LookKeeps ==
    ASSUME FilesOK, NEW s \in Sessions, Look(s)
    PROVE  FilesOK'
<1> DEFINE now == session[s]
           opening == [now EXCEPT !.pc = "opening"]
           passing == [now EXCEPT !.names = Tail(@)]
<1>1. /\ now \in Handlers /\ now.pc = "looking" /\ now.names # <<>> /\ Entries = NamesIn(disk)
      /\ UNCHANGED disk
  BY EntriesOf DEF FilesOK, Look
<1>2. CASE Head(now.names) \in Entries
  <2>1. Becomes(s, opening)
    BY <1>2 DEF Look
  <2>2. opening \in Handlers /\ opening.pc = "opening" /\ opening.names = now.names
    BY <1>1 DEF Handlers, Calls
  <2> HIDE DEF opening
  <2>3. SessionOK(disk, s, opening)
    BY <1>1, <1>2, <2>2 DEF SessionOK, TempOK, Storing
  <2> QED BY <1>1, <2>1, <2>3, SessionGoesOn
<1>3. CASE Head(now.names) \notin Entries
  <2>1. Becomes(s, passing)
    BY <1>3 DEF Look
  <2>2. now.names \in Seq(Sources)
    BY <1>1 DEF Handlers
  <2>3. Tail(now.names) \in Seq(Sources)
    BY <1>1, <2>2, SequenceTypes
  <2>4. passing \in Handlers /\ passing.pc = "looking"
    BY <1>1, <2>3 DEF Handlers
  <2> HIDE DEF passing
  <2> QED BY <1>1, <2>1, <2>4, AtRest, SessionGoesOn
<1> QED BY <1>2, <1>3

\* A load takes over an entry only when it is whole.
LEMMA OpenKeeps ==
    ASSUME FilesOK, NEW s \in Sessions, Open(s)
    PROVE  FilesOK'
<1> DEFINE now == session[s]
           x == Head(now.names)
           reading == [now EXCEPT !.pc = "looking", !.names = Tail(@),
                                  !.valid = Append(@, EntryOf(x).payload)]
           corrupt == [now EXCEPT !.pc = "discarding", !.changed = FALSE]
<1>1. /\ DiskOK(disk) /\ now \in Handlers /\ now.pc = "opening" /\ SessionOK(disk, s, now)
      /\ UNCHANGED disk
  BY DEF FilesOK, Open
<1>2. now.names # <<>> /\ now.names \in Seq(Sources) /\ now.valid \in Seq(Payloads)
  BY <1>1 DEF SessionOK, Handlers
<1>3. CASE ~now.changed /\ EntryOf(x).state = "whole"
  <2>1. Becomes(s, reading)
    BY <1>3 DEF Open
  <2>2. x \in Entries
    BY <1>1, <1>3, EntriesOf DEF SessionOK
  <2>3. EntryOf(x).payload \in Payloads
    BY <1>1, <2>2, EntriesOf DEF Files
  <2>4. Tail(now.names) \in Seq(Sources) /\ Append(now.valid, EntryOf(x).payload) \in Seq(Payloads)
    BY <1>2, <2>3, SequenceTypes
  <2>5. reading \in Handlers /\ reading.pc = "looking"
    BY <1>1, <2>4 DEF Handlers, Calls
  <2> HIDE DEF reading
  <2> QED BY <1>1, <2>1, <2>5, AtRest, SessionGoesOn
<1>4. CASE ~(~now.changed /\ EntryOf(x).state = "whole")
  <2>1. Becomes(s, corrupt)
    BY <1>4 DEF Open
  <2>2. corrupt \in Handlers /\ corrupt.pc = "discarding" /\ corrupt.names # <<>>
    BY <1>1, <1>2 DEF Handlers, Calls
  <2> HIDE DEF corrupt
  <2>3. SessionOK(disk, s, corrupt)
    BY <2>2 DEF SessionOK, TempOK, Storing
  <2> QED BY <1>1, <2>1, <2>3, SessionGoesOn
<1> QED BY <1>3, <1>4

\* A load removes the entry it took for corrupt.
LEMMA DiscardKeeps ==
    ASSUME FilesOK, NEW s \in Sessions, Discard(s)
    PROVE  FilesOK'
<1> DEFINE now == session[s]
           next == [now EXCEPT !.pc = "looking", !.names = Tail(@)]
<1>1. /\ now \in Handlers /\ now.pc = "discarding" /\ SessionOK(disk, s, now)
      /\ disk' = Unlinked(Head(now.names)) /\ Goes(s, next, Head(now.names))
  BY DEF FilesOK, Discard
<1>2. now.names # <<>> /\ now.names \in Seq(Sources)
  BY <1>1 DEF SessionOK, Handlers
<1>3. Tail(now.names) \in Seq(Sources)
  BY <1>2, SequenceTypes
<1>4. next \in Handlers /\ next.pc = "looking"
  BY <1>1, <1>3 DEF Handlers, Calls
<1> HIDE DEF next
<1> QED BY <1>1, <1>4, AtRest, SessionUnlinks

\* A load returns a selection of the entries it read.
LEMMA LoadReturnsKeeps ==
    ASSUME FilesOK, NEW s \in Sessions, NEW prior \in BOOLEAN, LoadReturns(s, prior)
    PROVE  FilesOK'
<1> DEFINE now == session[s]
           entries == Kept(now.valid, {e \in ToSet(now.valid) : prior \/ e.source = now.audit})
           first == Kept(entries, {e \in ToSet(entries) : e.source = now.audit})
           others == Kept(entries, {e \in ToSet(entries) : e.source # now.audit})
<1>1. now \in Handlers /\ now.pc = "looking" /\ UNCHANGED disk
  BY DEF FilesOK, LoadReturns
<1>2. now.valid \in Seq(Payloads)
  BY <1>1 DEF Handlers
<1>3. entries \in Seq(Payloads)
  BY <1>2, KeptPart
<1>4. PICK loaded \in Selections(entries, now.audit) :
        Becomes(s, [now EXCEPT !.pc = "returned", !.valid = <<>>, !.loaded = loaded])
  BY DEF LoadReturns
<1> HIDE DEF entries
<1>5. first \in Seq(Payloads) /\ others \in Seq(Payloads)
  BY <1>3, KeptPart
<1>6. loaded \in Taken(first \o others, now.audit)
  BY <1>4 DEF Selections
<1> HIDE DEF first, others
<1>7. first \o others \in Seq(Payloads)
  BY <1>5
<1>8. Fitted(now.audit, loaded)
  BY <1>6, <1>7, TakenFits
<1>9. loaded \in Loads
  BY <1>8 DEF Fitted
<1> DEFINE next == [now EXCEPT !.pc = "returned", !.valid = <<>>, !.loaded = loaded]
<1>10. /\ next \in Handlers /\ next.pc = "returned"
       /\ next.audit = now.audit /\ next.loaded = loaded
  <2>1. <<>> \in Seq(Payloads)
    OBVIOUS
  <2> QED BY <1>1, <1>9, <2>1 DEF Handlers, Calls
<1>11. Becomes(s, next)
  BY <1>4
<1> HIDE DEF next
<1>12. SessionOK(disk, s, next)
  BY <1>8, <1>10 DEF SessionOK, TempOK, Storing
<1> QED BY <1>1, <1>11, <1>12, SessionGoesOn

\* A list, a load or a store that has its answer.
LEMMA ReturnKeeps ==
    ASSUME FilesOK, NEW s \in Sessions, ListReturns(s) \/ Answered(s)
    PROVE  FilesOK'
<1>1. Returns(s) /\ UNCHANGED disk
  BY DEF ListReturns, Answered
<1> QED BY <1>1, ReturnIsFine, SessionGoesOn DEF Returns

\* A cleanup lists what it is to remove.
LEMMA CleanupKeeps ==
    ASSUME FilesOK, NEW s \in Sessions, NEW whole \in BOOLEAN, Cleanup(s, whole)
    PROVE  FilesOK'
<1> DEFINE here == Siblings(session[s].audit)
           next == [In(s, "cleaning") EXCEPT
                        !.names = IF whole THEN NamesOf(here) ELSE <<session[s].audit>>]
<1>1. DiskOK(disk) /\ session[s] \in Handlers
  BY DEF FilesOK
<1>2. /\ disk' = (IF whole THEN WithoutTemporary(here) ELSE disk) /\ Becomes(s, next)
      /\ session[s].audit \in Sources
  BY <1>1 DEF Cleanup, Binds, Handlers
<1>3. DiskOK(disk') /\ \A r, v : TempOK(disk, r, v) => TempOK(disk', r, v)
  BY <1>1, <1>2, KeptIsFine DEF WithoutTemporary
<1>4. NamesIn(disk') = Entries
  BY <1>1, <1>2, KeptEntries, EntriesOf
<1>5. NamesOf(here) \in Seq(Sources) /\ <<session[s].audit>> \in Seq(Sources)
  BY <1>1, <1>2, NamesOfType
<1>6. next \in Handlers /\ next.pc = "cleaning"
  BY <1>1, <1>2, <1>5 DEF In, Handlers, Calls
<1> HIDE DEF next
<1> QED BY <1>2, <1>3, <1>4, <1>6, AtRest, SessionCleans

\* A cleanup removes one file.
LEMMA CleanNextKeeps ==
    ASSUME FilesOK, NEW s \in Sessions, CleanNext(s)
    PROVE  FilesOK'
<1> DEFINE now == session[s]
           next == [now EXCEPT !.names = Tail(@)]
<1>1. /\ now \in Handlers /\ now.pc = "cleaning" /\ now.names # <<>>
      /\ disk' = Unlinked(Head(now.names)) /\ Goes(s, next, Head(now.names))
  BY DEF FilesOK, CleanNext
<1>2. now.names \in Seq(Sources)
  BY <1>1 DEF Handlers
<1>3. Tail(now.names) \in Seq(Sources)
  BY <1>1, <1>2, SequenceTypes
<1>4. next \in Handlers /\ next.pc = "cleaning"
  BY <1>1, <1>3 DEF Handlers
<1> HIDE DEF next
<1> QED BY <1>1, <1>4, AtRest, SessionUnlinks

\* A session that becomes idle, with whatever audit and binding.
LEMMA IdleKeeps ==
    ASSUME FilesOK, NEW s \in Sessions,
           NEW audit \in Sources \cup {None}, NEW bound \in Sources \cup {None},
           Becomes(s, Idle(audit, bound)), UNCHANGED disk
    PROVE  FilesOK'
  BY IdleType, AtRest, SessionGoesOn

\* What the audit does around the cache leaves the files as they are.
LEMMA AuditKeeps ==
    ASSUME FilesOK, NEW s \in Sessions,
           \/ Cleaned(s) \/ Close(s) \/ Crash(s)
           \/ \E x \in Sources : Activate(s, x) \/ Reindex(s, x)
    PROVE  FilesOK'
<1>1. session[s].audit \in Sources \cup {None} /\ session[s].bound \in Sources \cup {None}
  BY DEF FilesOK, Handlers
<1>2. \E audit, bound \in Sources \cup {None} : Becomes(s, Idle(audit, bound)) /\ UNCHANGED disk
  BY <1>1 DEF Cleaned, Close, Crash, Activate, Reindex
<1> QED BY <1>2, IdleKeeps

\* A damaged entry keeps its name.
LEMMA DamageKeeps ==
    ASSUME FilesOK, NEW x \in Sources, Damage(x)
    PROVE  FilesOK' /\ NamesIn(disk') = Entries
<1>1. DiskOK(disk) /\ x \in Entries /\ session' = session
  BY DEF FilesOK, Damage
<1>2. EntryOf(x) \in Files /\ Entries = NamesIn(disk)
  BY <1>1, EntriesOf
<1>3. IsEntry(EntryOf(x))
  <2>1. \E f \in ToSet(disk) : IsEntry(f) /\ NameOf(f) = x
    BY <1>1 DEF Entries
  <2> QED BY <2>1, Zenon DEF EntryOf
<1>4. disk' = [i \in DOMAIN disk |->
                 IF disk[i] = EntryOf(x) THEN [disk[i] EXCEPT !.state = "damaged"] ELSE disk[i]]
  BY DEF Damage
<1>5. /\ DiskOK(disk') /\ NamesIn(disk') = NamesIn(disk)
      /\ \A r \in Sessions : \A w : TempOK(disk, r, w) => TempOK(disk', r, w)
  BY <1>1, <1>2, <1>3, <1>4, EntryIsDamaged
<1>6. ASSUME NEW r \in Sessions PROVE SessionOK(disk', r, session'[r])
  BY <1>1, <1>2, <1>5 DEF FilesOK, SessionOK
<1> QED BY <1>1, <1>2, <1>5, <1>6 DEF FilesOK

-----------------------------------------------------------------------------
(* Counting the entries.  A store knows the entries of its listing that it *)
(* did not evict, and none that was written since.  Of all the stores that *)
(* wrote take the one that listed last: what is there now is what it knew  *)
(* and wrote, at most M entries, and what others wrote since; each of them *)
(* can have done so only once, since a second store would have listed      *)
(* later.                                                                  *)
(*                                                                         *)
(* E are the entries, v the sessions, R is a set of sources, all or those  *)
(* of a namespace, and M its cap.                                          *)

StoresIn(v, R, s) == v[s].pc \in Storing /\ v[s].payload.source \in R

\* base: what the last store to list knew and wrote; owner: its session; extra: who wrote
\* since, and last: what; fresh: the stores that listed after it, with what each of them
\* knows and who wrote since it listed.
Shape(M, base, owner, extra, fresh, known, since, last) ==
    /\ base \subseteq Sources /\ Cardinality(base) <= M
    /\ owner \in Sessions \ extra
    /\ extra \subseteq Sessions /\ fresh \subseteq Sessions
    /\ known \in [Sessions -> SUBSET Sources] /\ since \in [Sessions -> SUBSET Sessions]
    /\ last \in [Sessions -> Sources \cup {None}]

\* A store that listed after the owner did: it knows all there is but what was written
\* since, and it has made room.
Follows(E, v, R, M, p, fresh, known, since, last) ==
    /\ StoresIn(v, R, p) /\ p \notin since[p]
    /\ E \cap R \subseteq known[p] \cup {v[p].payload.source} \cup {last[r] : r \in since[p]}
    /\ \A q \in fresh : q \in since[p] => since[q] \subseteq since[p]
    /\ v[p].pc = "evicting" => known[p] = ToSet(v[p].names) \cap R
    /\ v[p].pc # "evicting" => Cardinality(known[p]) + 1 <= M

\* One that listed before it has not written since.
Precedes(v, R, p, extra, fresh, since) ==
    StoresIn(v, R, p) => p \notin extra /\ \A q \in fresh : p \notin since[q]

Accounts(E, v, R, M, base, owner, extra, fresh, known, since, last) ==
    /\ Shape(M, base, owner, extra, fresh, known, since, last)
    /\ StoresIn(v, R, owner) => owner \in fresh
    /\ E \cap R \subseteq base \cup {last[r] : r \in extra}
    /\ \A p \in fresh : Follows(E, v, R, M, p, fresh, known, since, last)
    /\ \A p \in Sessions \ fresh : Precedes(v, R, p, extra, fresh, since)

Counted(E, v, R, M) ==
    \E base, owner, extra, fresh, known, since, last :
        Accounts(E, v, R, M, base, owner, extra, fresh, known, since, last)

\* The others are where they were.
OthersWait(v, w, s) ==
    \A r \in Sessions : r # s =>
        w[r].pc = v[r].pc /\ w[r].payload = v[r].payload /\ w[r].names = v[r].names

\* A step of one session leaves the others where they are.
LEMMA GoingIsAlone ==
    ASSUME FilesOK, NEW s \in Sessions, NEW next, NEW x, Goes(s, next, x)
    PROVE  OthersWait(session, session', s) /\ session'[s] = next
<1>1. \A r \in Sessions : session[r] \in Handlers
  BY DEF FilesOK
<1> QED BY <1>1 DEF Goes, OthersWait, Handlers

\* A session that goes on with its store, if it does, as a store does that adds nothing.
StoreGoesOn(E, v, w, R, M, s) ==
    StoresIn(w, R, s) =>
        /\ StoresIn(v, R, s) /\ w[s].payload = v[s].payload
        /\ w[s].pc = "evicting" =>
             /\ v[s].pc = "evicting"
             /\ E \cap ToSet(v[s].names) \subseteq ToSet(w[s].names)
             /\ ToSet(w[s].names) \subseteq Sources
        /\ w[s].pc # "evicting" /\ v[s].pc = "evicting" =>
             Cardinality(ToSet(v[s].names) \cap R) + 1 <= M

\* A step that adds no entry the cap counts leaves the count within it.
LEMMA NothingAdded ==
    ASSUME NEW E, NEW F, NEW v, NEW w, NEW R, NEW M \in Nat, NEW s \in Sessions,
           OthersWait(v, w, s), F \cap R \subseteq E, StoreGoesOn(F, v, w, R, M, s),
           Counted(E, v, R, M)
    PROVE  Counted(F, w, R, M)
<1>1. PICK base, owner, extra, fresh, known, since, last :
        Accounts(E, v, R, M, base, owner, extra, fresh, known, since, last)
  BY DEF Counted
<1> DEFINE fresh2 == {p \in fresh : StoresIn(w, R, p)}
           left == ToSet(w[s].names) \cap R
           shrinks == s \in fresh2 /\ w[s].pc = "evicting"
           known2 == [p \in Sessions |-> IF p = s /\ shrinks THEN left ELSE known[p]]
<1>2. /\ Shape(M, base, owner, extra, fresh, known, since, last)
      /\ StoresIn(v, R, owner) => owner \in fresh
      /\ E \cap R \subseteq base \cup {last[r] : r \in extra}
      /\ \A p \in fresh : Follows(E, v, R, M, p, fresh, known, since, last)
      /\ \A p \in Sessions \ fresh : Precedes(v, R, p, extra, fresh, since)
  BY <1>1 DEF Accounts
<1>3. ASSUME NEW p \in Sessions, StoresIn(w, R, p)
      PROVE  StoresIn(v, R, p) /\ w[p].payload = v[p].payload
  BY <1>3 DEF OthersWait, StoresIn, StoreGoesOn
<1>4. F \cap R \subseteq E \cap R
  OBVIOUS
<1>5. fresh2 \subseteq fresh /\ fresh \subseteq Sessions /\ \A p \in fresh2 : StoresIn(w, R, p)
  BY <1>2 DEF Shape
<1>6. shrinks => left \subseteq Sources
  BY <1>5 DEF StoreGoesOn
<1>7. Shape(M, base, owner, extra, fresh2, known2, since, last)
  BY <1>2, <1>5, <1>6 DEF Shape
<1>8. \A p \in Sessions : known2[p] = IF p = s /\ shrinks THEN left ELSE known[p]
  OBVIOUS
<1>9. StoresIn(w, R, owner) => owner \in fresh2
  BY <1>2, <1>3 DEF Shape
<1>10. F \cap R \subseteq base \cup {last[r] : r \in extra}
  BY <1>2, <1>4
<1>11. ASSUME NEW p \in Sessions \ fresh2 PROVE Precedes(w, R, p, extra, fresh2, since)
  BY <1>2, <1>3, <1>5 DEF Precedes
<1> HIDE DEF fresh2, known2
<1>12. ASSUME NEW p \in fresh2 PROVE Follows(F, w, R, M, p, fresh2, known2, since, last)
  <2>1. /\ p \in fresh /\ p \in Sessions /\ StoresIn(w, R, p)
        /\ w[p].payload = v[p].payload
    BY <1>3, <1>5
  <2>2. Follows(E, v, R, M, p, fresh, known, since, last)
    BY <1>2, <2>1
  <2>3. F \cap R \subseteq known[p] \cup {w[p].payload.source} \cup {last[r] : r \in since[p]}
    BY <1>4, <2>1, <2>2 DEF Follows
  <2>4. /\ p \notin since[p]
        /\ \A q \in fresh2 : q \in since[p] => since[q] \subseteq since[p]
    BY <1>5, <2>2 DEF Follows
  <2>5. CASE p # s
    <3>1. known2[p] = known[p]
      BY <1>8, <2>1, <2>5
    <3>2. w[p].pc = v[p].pc /\ w[p].names = v[p].names
      BY <2>1, <2>5 DEF OthersWait
    <3> QED BY <2>1, <2>2, <2>3, <2>4, <3>1, <3>2 DEF Follows
  <2>6. CASE p = s /\ w[s].pc = "evicting"
    <3>1. known2[p] = ToSet(w[s].names) \cap R
      BY <1>8, <2>1, <2>6
    <3>2. v[s].pc = "evicting" /\ F \cap ToSet(v[s].names) \subseteq ToSet(w[s].names)
      BY <2>1, <2>6 DEF StoreGoesOn
    <3>3. known[p] = ToSet(v[s].names) \cap R
      BY <2>2, <2>6, <3>2 DEF Follows
    <3>4. F \cap R \subseteq known2[p] \cup {w[p].payload.source} \cup {last[r] : r \in since[p]}
      BY <2>3, <3>1, <3>2, <3>3
    <3> QED BY <2>1, <2>4, <2>6, <3>1, <3>4 DEF Follows
  <2>7. CASE p = s /\ w[s].pc # "evicting"
    <3>1. known2[p] = known[p]
      BY <1>8, <2>1, <2>7
    <3>2. Cardinality(known2[p]) + 1 <= M
      BY <2>1, <2>2, <2>7, <3>1 DEF Follows, StoreGoesOn
    <3> QED BY <2>1, <2>3, <2>4, <2>7, <3>1, <3>2 DEF Follows
  <2> QED BY <2>5, <2>6, <2>7
<1>13. Accounts(F, w, R, M, base, owner, extra, fresh2, known2, since, last)
  BY <1>7, <1>9, <1>10, <1>11, <1>12 DEF Accounts
<1> QED BY <1>13 DEF Counted

\* A store that lists: nothing has been written since.
LEMMA Lists ==
    ASSUME NEW E, E \subseteq Sources, NEW v, NEW w, NEW R, NEW M \in Nat, NEW s \in Sessions,
           OthersWait(v, w, s), ~StoresIn(v, R, s), StoresIn(w, R, s), w[s].pc = "evicting",
           ToSet(w[s].names) = E \ {w[s].payload.source}, Counted(E, v, R, M)
    PROVE  Counted(E, w, R, M)
<1>1. PICK base, owner, extra, fresh, known, since, last :
        Accounts(E, v, R, M, base, owner, extra, fresh, known, since, last)
  BY DEF Counted
<1>2. /\ Shape(M, base, owner, extra, fresh, known, since, last)
      /\ StoresIn(v, R, owner) => owner \in fresh
      /\ E \cap R \subseteq base \cup {last[r] : r \in extra}
      /\ \A p \in fresh : Follows(E, v, R, M, p, fresh, known, since, last)
      /\ \A p \in Sessions \ fresh : Precedes(v, R, p, extra, fresh, since)
  BY <1>1 DEF Accounts
<1> DEFINE fresh2 == fresh \cup {s}
           listed == ToSet(w[s].names) \cap R
           known2 == [p \in Sessions |-> IF p = s THEN listed ELSE known[p]]
           since2 == [p \in Sessions |-> IF p = s THEN {} ELSE since[p]]
<1>3. s \notin fresh
  BY <1>2 DEF Follows
<1>4. fresh \subseteq Sessions
  BY <1>2 DEF Shape
<1>5. \A p \in Sessions : p # s => (StoresIn(w, R, p) <=> StoresIn(v, R, p))
  BY DEF OthersWait, StoresIn
<1>6. listed \subseteq Sources
  OBVIOUS
<1>7. Shape(M, base, owner, extra, fresh2, known2, since2, last)
  BY <1>2, <1>6 DEF Shape
<1>8. StoresIn(w, R, owner) => owner \in fresh2
  BY <1>2, <1>5 DEF Shape
<1>9. \A p \in Sessions : /\ known2[p] = IF p = s THEN listed ELSE known[p]
                          /\ since2[p] = IF p = s THEN {} ELSE since[p]
  OBVIOUS
<1> HIDE DEF known2, since2
<1>10. ASSUME NEW p \in Sessions \ fresh2 PROVE Precedes(w, R, p, extra, fresh2, since2)
  <2>1. p # s /\ p \notin fresh /\ Precedes(v, R, p, extra, fresh, since)
    BY <1>2
  <2>2. ASSUME StoresIn(w, R, p), NEW q \in fresh2 PROVE p \notin since2[q]
    BY <1>4, <1>5, <1>9, <2>1, <2>2 DEF Precedes
  <2> QED BY <1>5, <2>1, <2>2 DEF Precedes
<1>11. ASSUME NEW p \in fresh2
       PROVE  Follows(E, w, R, M, p, fresh2, known2, since2, last)
  <2>1. CASE p = s
    <3>1. since2[p] = {} /\ known2[p] = ToSet(w[p].names) \cap R
      BY <1>9, <2>1
    <3> QED BY <2>1, <3>1 DEF Follows
  <2>2. CASE p # s
    <3>1. /\ p \in fresh /\ p \in Sessions /\ since2[p] = since[p] /\ known2[p] = known[p]
      BY <1>4, <1>9, <2>2
    <3>2. Follows(E, v, R, M, p, fresh, known, since, last)
      BY <1>2, <3>1
    <3>3. /\ w[p].pc = v[p].pc /\ w[p].payload = v[p].payload /\ w[p].names = v[p].names
      BY <2>2, <3>1 DEF OthersWait
    <3>4. ASSUME NEW q \in fresh2, q \in since2[p] PROVE since2[q] \subseteq since2[p]
      BY <1>4, <1>9, <3>1, <3>2, <3>4 DEF Follows
    <3> QED BY <1>5, <2>2, <3>1, <3>2, <3>3, <3>4 DEF Follows
  <2> QED BY <2>1, <2>2
<1>12. Accounts(E, w, R, M, base, owner, extra, fresh2, known2, since2, last)
  BY <1>2, <1>7, <1>8, <1>10, <1>11 DEF Accounts
<1> QED BY <1>12 DEF Counted

\* A store that writes its entry: when it listed after the owner it is the owner now.
LEMMA Writes ==
    ASSUME NEW E, NEW F, NEW v, NEW w, NEW R, NEW M \in Nat, NEW s \in Sessions,
           OthersWait(v, w, s), StoresIn(v, R, s), v[s].pc # "evicting", ~StoresIn(w, R, s),
           v[s].payload.source \in Sources, F \subseteq E \cup {v[s].payload.source},
           Counted(E, v, R, M)
    PROVE  Counted(F, w, R, M)
<1> DEFINE x == v[s].payload.source
<1>1. PICK base, owner, extra, fresh, known, since, last :
        Accounts(E, v, R, M, base, owner, extra, fresh, known, since, last)
  BY DEF Counted
<1>2. /\ Shape(M, base, owner, extra, fresh, known, since, last)
      /\ StoresIn(v, R, owner) => owner \in fresh
      /\ E \cap R \subseteq base \cup {last[r] : r \in extra}
      /\ \A p \in fresh : Follows(E, v, R, M, p, fresh, known, since, last)
      /\ \A p \in Sessions \ fresh : Precedes(v, R, p, extra, fresh, since)
  BY <1>1 DEF Accounts
<1> DEFINE since2 == [p \in Sessions |-> since[p] \cup {s}]
           last2 == [p \in Sessions |-> IF p = s THEN x ELSE last[p]]
<1>3. /\ \A p \in Sessions : since2[p] = since[p] \cup {s} /\ last2[p] = IF p = s THEN x ELSE last[p]
      /\ since2 \in [Sessions -> SUBSET Sessions] /\ last2 \in [Sessions -> Sources \cup {None}]
  BY <1>2 DEF Shape
<1>4. /\ fresh \subseteq Sessions /\ extra \subseteq Sessions /\ owner \in Sessions \ extra
      /\ since \in [Sessions -> SUBSET Sessions] /\ known \in [Sessions -> SUBSET Sources]
  BY <1>2 DEF Shape
<1>5. \A p \in Sessions : p # s => (StoresIn(w, R, p) <=> StoresIn(v, R, p))
  BY DEF OthersWait, StoresIn
<1> HIDE DEF since2, last2
<1>6. ASSUME NEW T \in SUBSET Sessions, s \notin T
      PROVE  /\ {last[r] : r \in T} \subseteq {last2[r] : r \in T \cup {s}}
             /\ x \in {last2[r] : r \in T \cup {s}}
             /\ {last2[r] : r \in T} = {last[r] : r \in T}
  <2>1. \A r \in T : last2[r] = last[r]
    BY <1>3, <1>6
  <2>2. last2[s] = x
    BY <1>3
  <2> HIDE DEF x
  <2> QED BY <2>1, <2>2
\* What the others that follow know stays what they know.
<1>7. ASSUME NEW fresh2 \in SUBSET fresh, s \notin fresh2, \A p \in fresh2 : s \notin since[p],
             NEW p \in fresh2
      PROVE  Follows(F, w, R, M, p, fresh2, known, since2, last2)
  <2>1. p \in fresh /\ p \in Sessions /\ p # s /\ s \notin since[p] /\ since[p] \subseteq Sessions
    BY <1>4, <1>7
  <2>2. Follows(E, v, R, M, p, fresh, known, since, last)
    BY <1>2, <2>1
  <2>3. since2[p] = since[p] \cup {s}
    BY <1>3, <2>1
  <2>4. /\ w[p].pc = v[p].pc /\ w[p].payload = v[p].payload /\ w[p].names = v[p].names
    BY <2>1 DEF OthersWait
  <2>5. F \cap R \subseteq known[p] \cup {w[p].payload.source} \cup {last2[r] : r \in since2[p]}
    <3>1. E \cap R \subseteq known[p] \cup {v[p].payload.source} \cup {last[r] : r \in since[p]}
      BY <2>2 DEF Follows
    <3>2. {last[r] : r \in since[p]} \subseteq {last2[r] : r \in since2[p]}
      BY <1>6, <2>1, <2>3
    <3>3. x \in {last2[r] : r \in since2[p]}
      BY <1>6, <2>1, <2>3
    <3> QED BY <2>4, <3>1, <3>2, <3>3
  <2>6. ASSUME NEW q \in fresh2, q \in since2[p] PROVE since2[q] \subseteq since2[p]
    <3>1. q \in fresh /\ q \in Sessions /\ q # s
      BY <1>4, <1>7
    <3>2. since[q] \subseteq since[p]
      BY <2>2, <2>3, <2>6, <3>1 DEF Follows
    <3> QED BY <1>3, <2>3, <3>1, <3>2
  <2>7. p \notin since2[p] /\ StoresIn(w, R, p)
    BY <1>5, <2>1, <2>2, <2>3 DEF Follows
  <2> QED BY <2>2, <2>4, <2>5, <2>6, <2>7 DEF Follows
<1>8. CASE s \notin fresh
  <2> DEFINE extra2 == extra \cup {s}
  <2>1. s \notin extra /\ \A q \in fresh : s \notin since[q]
    BY <1>2, <1>8 DEF Precedes
  <2>2. owner # s
    BY <1>2, <1>8
  <2>3. Shape(M, base, owner, extra2, fresh, known, since2, last2)
    BY <1>2, <1>3, <2>2 DEF Shape
  <2>4. F \cap R \subseteq base \cup {last2[r] : r \in extra2}
    <3>1. {last[r] : r \in extra} \subseteq {last2[r] : r \in extra2}
      BY <1>4, <1>6, <2>1
    <3>2. x \in {last2[r] : r \in extra2}
      BY <1>4, <1>6, <2>1
    <3> QED BY <1>2, <3>1, <3>2
  <2>5. ASSUME NEW p \in fresh PROVE Follows(F, w, R, M, p, fresh, known, since2, last2)
    BY <1>7, <1>8, <2>1
  <2>6. ASSUME NEW p \in Sessions \ fresh PROVE Precedes(w, R, p, extra2, fresh, since2)
    <3>1. Precedes(v, R, p, extra, fresh, since)
      BY <1>2
    <3> QED BY <1>3, <1>4, <1>5, <3>1 DEF Precedes
  <2>7. StoresIn(w, R, owner) => owner \in fresh
    BY <1>2, <1>4, <1>5
  <2>8. Accounts(F, w, R, M, base, owner, extra2, fresh, known, since2, last2)
    BY <2>3, <2>4, <2>5, <2>6, <2>7 DEF Accounts
  <2> QED BY <2>8 DEF Counted
<1>9. CASE s \in fresh
  <2> DEFINE base2 == known[s] \cup {x}
             extra2 == since[s]
             fresh2 == {q \in fresh : q # s /\ s \notin since[q]}
  <2>1. /\ Follows(E, v, R, M, s, fresh, known, since, last)
        /\ known[s] \subseteq Sources /\ extra2 \subseteq Sessions /\ s \notin extra2
    BY <1>2, <1>4, <1>9 DEF Follows
  <2>2. Cardinality(base2) <= M
    <3>1. IsFiniteSet(known[s])
      BY <2>1, CacheAssumption, FS_Subset
    <3>2. Cardinality(known[s]) + 1 <= M /\ Cardinality(known[s]) \in Nat
      BY <2>1, <3>1, FS_CardinalityType DEF Follows
    <3>3. \A S, y : IsFiniteSet(S) => Cardinality(S \cup {y}) =
                        IF y \in S THEN Cardinality(S) ELSE Cardinality(S) + 1
      BY FS_AddElement
    <3> QED BY <3>1, <3>2, <3>3
  <2>3. Shape(M, base2, s, extra2, fresh2, known, since2, last2)
    BY <1>3, <1>4, <2>1, <2>2 DEF Shape
  <2>4. F \cap R \subseteq base2 \cup {last2[r] : r \in extra2}
    <3>1. E \cap R \subseteq known[s] \cup {x} \cup {last[r] : r \in since[s]}
      BY <2>1 DEF Follows
    <3>2. {last2[r] : r \in extra2} = {last[r] : r \in extra2}
      BY <1>6, <2>1
    <3> QED BY <3>1, <3>2
  <2>5. ASSUME NEW p \in fresh2 PROVE Follows(F, w, R, M, p, fresh2, known, since2, last2)
    BY <1>7
  <2>6. ASSUME NEW p \in Sessions \ fresh2, StoresIn(w, R, p)
        PROVE  p \notin extra2 /\ \A q \in fresh2 : p \notin since2[q]
    <3>1. p # s /\ StoresIn(v, R, p)
      BY <1>5, <2>6
    <3>2. CASE p \notin fresh
      <4>1. Precedes(v, R, p, extra, fresh, since)
        BY <1>2, <3>2
      <4> QED BY <1>3, <1>4, <1>9, <3>1, <4>1 DEF Precedes
    <3>3. CASE p \in fresh
      <4>1. s \in since[p]
        BY <3>1, <3>3
      <4>2. p \notin since[s]
        BY <2>1, <3>3, <4>1 DEF Follows
      <4>3. ASSUME NEW q \in fresh2 PROVE p \notin since[q]
        <5>1. Follows(E, v, R, M, q, fresh, known, since, last) /\ s \notin since[q]
          BY <1>2
        <5> QED BY <3>3, <4>1, <5>1 DEF Follows
      <4> QED BY <1>3, <1>4, <3>1, <4>2, <4>3
    <3> QED BY <3>2, <3>3
  <2>7. ASSUME NEW p \in Sessions \ fresh2 PROVE Precedes(w, R, p, extra2, fresh2, since2)
    BY <2>6 DEF Precedes
  <2>8. Accounts(F, w, R, M, base2, s, extra2, fresh2, known, since2, last2)
    BY <2>3, <2>4, <2>5, <2>7 DEF Accounts
  <2> QED BY <2>8 DEF Counted
<1> QED BY <1>8, <1>9

\* What is counted is within the cap, but for one entry of every other session.
LEMMA CountedIsBounded ==
    ASSUME NEW E, NEW v, NEW R, NEW M \in Nat, Counted(E, v, R, M)
    PROVE  Cardinality(E \cap R) <= M + (Cardinality(Sessions) - 1)
<1>1. PICK base, owner, extra, fresh, known, since, last :
        Accounts(E, v, R, M, base, owner, extra, fresh, known, since, last)
  BY DEF Counted
<1>2. /\ base \subseteq Sources /\ Cardinality(base) <= M /\ owner \in Sessions
      /\ extra \subseteq Sessions \ {owner} /\ E \cap R \subseteq base \cup {last[r] : r \in extra}
  BY <1>1 DEF Accounts, Shape
<1> DEFINE added == {last[r] : r \in extra}
           image == [r \in extra |-> last[r]]
<1>3. IsFiniteSet(base) /\ Cardinality(base) \in Nat
  BY <1>2, CacheAssumption, FS_Subset, FS_CardinalityType
<1>4. /\ IsFiniteSet(Sessions \ {owner}) /\ Cardinality(Sessions) \in Nat
      /\ Cardinality(Sessions \ {owner}) = Cardinality(Sessions) - 1
  BY <1>2, CacheAssumption, FS_RemoveElement, FS_CardinalityType
<1>5. /\ IsFiniteSet(extra) /\ Cardinality(extra) \in Nat
      /\ Cardinality(extra) <= Cardinality(Sessions) - 1
  BY <1>2, <1>4, FS_Subset, FS_CardinalityType
<1>6. image \in Surjection(extra, added)
  BY DEF Surjection
<1>7. IsFiniteSet(added) /\ Cardinality(added) <= Cardinality(extra) /\ Cardinality(added) \in Nat
  BY <1>5, <1>6, FS_Surjection, FS_CardinalityType
<1>8. /\ IsFiniteSet(base \cup added)
      /\ Cardinality(base \cup added) =
            Cardinality(base) + Cardinality(added) - Cardinality(base \cap added)
  BY <1>3, <1>7, FS_Union
<1>9. Cardinality(base \cap added) \in Nat
  BY <1>3, FS_Intersection, FS_CardinalityType
<1>10. /\ Cardinality(E \cap R) <= Cardinality(base \cup added)
       /\ Cardinality(E \cap R) \in Nat /\ Cardinality(base \cup added) \in Nat
  BY <1>2, <1>8, FS_Subset, FS_CardinalityType
<1> QED BY <1>2, <1>3, <1>4, <1>5, <1>7, <1>8, <1>9, <1>10

\* Nothing is there, and no session stores.
LEMMA NothingIsCounted ==
    ASSUME NEW v, \A s \in Sessions : v[s].pc \notin Storing, NEW R, NEW M \in Nat
    PROVE  Counted({}, v, R, M)
<1>1. PICK owner \in Sessions : TRUE
  BY CacheAssumption
<1> DEFINE known == [p \in Sessions |-> {}]
           since == [p \in Sessions |-> {}]
           last == [p \in Sessions |-> None]
<1>2. Shape(M, {}, owner, {}, {}, known, since, last)
  BY FS_EmptySet DEF Shape
<1>3. ASSUME NEW p \in Sessions PROVE ~StoresIn(v, R, p)
  BY DEF StoresIn
<1>4. Accounts({}, v, R, M, {}, owner, {}, {}, known, since, last)
  BY <1>2, <1>3 DEF Accounts, Precedes
<1> QED BY <1>4 DEF Counted

-----------------------------------------------------------------------------
(* The steps, counted.                                                     *)

\* The sets of sources that have a cap: all of them, and those of a namespace.
Capped(R, M) ==
    \/ R = Sources /\ M = TotalFiles
    \/ \E x \in Sources : R = Siblings(x) /\ M = NamespaceFiles

Accounted == \A R, M : Capped(R, M) => Counted(Entries, session, R, M)

\* Each cap is a number of entries of some sources.
LEMMA CapsAreNumbers ==
    ASSUME NEW R, NEW M, Capped(R, M)
    PROVE  M \in Nat /\ R \subseteq Sources
  BY CacheAssumption DEF Capped, Siblings

\* A store that has room has it for the entry it is about to write.
LEMMA RoomForOne ==
    ASSUME NEW names \in Seq(Sources), NEW x \in Sources, ~Overflow(x, names),
           NEW R, NEW M, Capped(R, M), x \in R
    PROVE  Cardinality(ToSet(names) \cap R) + 1 <= M
<1>1. /\ IsFiniteSet(ToSet(names)) /\ Cardinality(ToSet(names)) <= Len(names)
      /\ Cardinality(ToSet(names)) \in Nat /\ Len(names) \in Nat
  BY NoMoreThanPlaces
<1>2. ToSet(names) \subseteq Sources
  BY DEF ToSet
<1> DEFINE near == {y \in ToSet(names) : InNamespace(x, y)}
<1>3. ~(Cardinality(near) + 1 > NamespaceFiles) /\ ~(Len(names) + 1 > TotalFiles)
  BY Zenon DEF Overflow, NamespaceOverflow
<1>4. TotalFiles \in Nat /\ NamespaceFiles \in Nat
  BY CacheAssumption
<1>5. CASE R = Sources /\ M = TotalFiles
  <2>1. ToSet(names) \cap R = ToSet(names)
    BY <1>2, <1>5
  <2>2. Cardinality(ToSet(names) \cap R) = Cardinality(ToSet(names))
    BY <2>1
  <2>3. M \in Nat /\ ~(Len(names) + 1 > M)
    BY <1>3, <1>4, <1>5
  <2> HIDE DEF near
  <2> QED BY <1>1, <2>2, <2>3
<1>6. CASE \E y \in Sources : R = Siblings(y) /\ M = NamespaceFiles
  <2>1. ToSet(names) \cap R = near
    BY <1>2, <1>6 DEF Siblings, InNamespace
  <2>2. IsFiniteSet(ToSet(names) \cap R)
    BY <1>1, FS_Subset
  <2>3. Cardinality(ToSet(names) \cap R) \in Nat
    BY <2>2, FS_CardinalityType
  <2>4. Cardinality(near) = Cardinality(ToSet(names) \cap R) /\ M = NamespaceFiles
    BY <1>6, <2>1
  <2> HIDE DEF near
  <2> QED BY <1>3, <1>4, <2>3, <2>4
<1> QED BY <1>5, <1>6 DEF Capped

\* A step of one session that adds no entry.
LEMMA StepCounts ==
    ASSUME FilesOK, Accounted, NEW s \in Sessions, NEW next, NEW x, Goes(s, next, x),
           NamesIn(disk') \subseteq Entries,
           \A R, M : Capped(R, M) => StoreGoesOn(Entries', session, session', R, M, s)
    PROVE  Accounted'
<1>1. Entries' \subseteq Entries
  BY DEF Entries, NamesIn
<1>2. ASSUME NEW R, NEW M, Capped(R, M) PROVE Counted(Entries', session', R, M)
  <2>1. Counted(Entries, session, R, M) /\ M \in Nat
    BY <1>2, CapsAreNumbers DEF Accounted
  <2> QED BY <1>1, <1>2, <2>1, GoingIsAlone, NothingAdded
<1> QED BY <1>2 DEF Accounted

\* One that ends in no store.
LEMMA RestCounts ==
    ASSUME FilesOK, Accounted, NEW s \in Sessions, NEW next, NEW x, Goes(s, next, x),
           NamesIn(disk') \subseteq Entries, next.pc \notin Storing
    PROVE  Accounted'
<1>1. session'[s] = next
  BY GoingIsAlone
<1>2. ASSUME NEW R, NEW M PROVE StoreGoesOn(Entries', session, session', R, M, s)
  BY <1>1 DEF StoreGoesOn, StoresIn
<1> QED BY <1>2, StepCounts

\* The step of a session that is outside a store, or leaves it, and writes no entry.
LEMMA OthersCount ==
    ASSUME FilesOK, Accounted, NEW s \in Sessions,
           NEW next, Becomes(s, next), UNCHANGED disk, next.pc \notin Storing
    PROVE  Accounted'
<1>1. NamesIn(disk') \subseteq Entries
  BY EntriesOf DEF FilesOK
<1> QED BY <1>1, RestCounts DEF Becomes

\* A store that starts adds nothing yet.
LEMMA StoreCounts ==
    ASSUME FilesOK, Accounted, NEW s \in Sessions, NEW files \in Indexed, Store(s, files)
    PROVE  Accounted'
<1> DEFINE x == session[s].audit
           next == [In(s, "evicting") EXCEPT !.payload = [source |-> x, files |-> files],
                                             !.names = NamesOf(Sources \ {x})]
<1>1. DiskOK(disk) /\ session[s] \in Handlers
  BY DEF FilesOK
<1>2. disk' = WithoutTemporary(Sources) /\ Becomes(s, next) /\ session[s].pc = "idle"
  BY DEF Store, Binds
<1>3. NamesIn(disk') = Entries /\ Entries \subseteq Sources
  BY <1>1, <1>2, KeptEntries, EntriesOf
<1>4. Entries' = Entries
  BY <1>3 DEF Entries, NamesIn
<1>5. /\ next.pc = "evicting" /\ next.payload.source = x
      /\ next.names = NamesOf(Sources \ {x})
  BY <1>1 DEF In, Handlers
<1>6. ToSet(NamesOf(Sources \ {x})) = Entries \ {x}
  BY <1>1, <1>3, NamesOfType
<1> HIDE DEF next
<1>7. session'[s] = next /\ OthersWait(session, session', s)
  BY <1>2, GoingIsAlone DEF Becomes
<1>8. ASSUME NEW R, NEW M, Capped(R, M) PROVE Counted(Entries', session', R, M)
  <2>1. Counted(Entries, session, R, M) /\ M \in Nat
    BY <1>8, CapsAreNumbers DEF Accounted
  <2>2. ~StoresIn(session, R, s)
    BY <1>2 DEF StoresIn, Storing
  <2>3. CASE x \in R
    <3>1. StoresIn(session', R, s) /\ session'[s].pc = "evicting"
      BY <1>5, <1>7, <2>3 DEF StoresIn, Storing
    <3>2. ToSet(session'[s].names) = Entries \ {session'[s].payload.source}
      BY <1>5, <1>6, <1>7
    <3> QED BY <1>3, <1>4, <1>7, <2>1, <2>2, <3>1, <3>2, Lists
  <2>4. CASE x \notin R
    <3>1. ~StoresIn(session', R, s)
      BY <1>5, <1>7, <2>4 DEF StoresIn
    <3>2. StoreGoesOn(Entries', session, session', R, M, s)
      BY <3>1 DEF StoreGoesOn
    <3> QED BY <1>4, <1>7, <2>1, <3>2, NothingAdded
  <2> QED BY <2>3, <2>4
<1> QED BY <1>8 DEF Accounted

\* An eviction makes room.
LEMMA EvictCounts ==
    ASSUME FilesOK, Accounted, NEW s \in Sessions, Evict(s)
    PROVE  Accounted'
<1> DEFINE now == session[s]
           victim == Victim(now.payload.source, now.names)
           next == [now EXCEPT !.names = Kept(@, Sources \ {victim})]
<1>1. DiskOK(disk) /\ now \in Handlers /\ now.pc = "evicting" /\ Entries \subseteq Sources
  BY EntriesOf DEF FilesOK, Evict
<1>2. now.names \in Seq(Sources)
  BY <1>1 DEF Handlers
<1>3. CASE victim \in Entries
  <2>1. disk' = Unlinked(victim) /\ Goes(s, next, victim)
    BY <1>3 DEF Evict
  <2>2. NamesIn(disk') = Entries \ {victim}
    BY <1>1, <2>1, KeptEntries
  <2>3. Entries' = Entries \ {victim}
    BY <2>2 DEF Entries, NamesIn
  <2>4. /\ next.pc = "evicting" /\ next.payload = now.payload
        /\ next.names = Kept(now.names, Sources \ {victim})
    BY <1>1 DEF Handlers
  <2>5. ToSet(Kept(now.names, Sources \ {victim})) = ToSet(now.names) \cap (Sources \ {victim})
    BY <1>2, KeptPart
  <2>6. session'[s] = next
    BY <2>1, GoingIsAlone
  <2> HIDE DEF next, victim
  <2>7. ASSUME NEW R, NEW M PROVE StoreGoesOn(Entries', session, session', R, M, s)
    BY <1>1, <2>3, <2>4, <2>5, <2>6 DEF StoreGoesOn, StoresIn
  <2> QED BY <2>1, <2>2, <2>7, StepCounts
<1>4. CASE victim \notin Entries
  <2>1. Returns(s) /\ UNCHANGED disk
    BY <1>4 DEF Evict
  <2> QED BY <2>1, OthersCount DEF Returns, Idle, Storing
<1> QED BY <1>3, <1>4

\* A store goes on to write only when its entry fits within the caps.
LEMMA HasRoomCounts ==
    ASSUME FilesOK, Accounted, NEW s \in Sessions, HasRoom(s)
    PROVE  Accounted'
<1> DEFINE now == session[s]
           next == [now EXCEPT !.pc = "creating", !.names = <<>>]
<1>1. /\ DiskOK(disk) /\ now \in Handlers /\ SessionOK(disk, s, now) /\ now.pc = "evicting"
      /\ ~Overflow(now.payload.source, now.names) /\ Becomes(s, next) /\ UNCHANGED disk
  BY DEF FilesOK, HasRoom
<1>2. now.names \in Seq(Sources) /\ now.payload.source \in Sources
  BY <1>1 DEF Handlers, SessionOK, Storing, Payloads
<1>3. next.pc = "creating" /\ next.payload = now.payload
  BY <1>1 DEF Handlers
<1> HIDE DEF next
<1>4. session'[s] = next
  BY <1>1, GoingIsAlone DEF Becomes
<1>5. ASSUME NEW R, NEW M, Capped(R, M)
      PROVE  StoreGoesOn(Entries', session, session', R, M, s)
  <2>1. now.payload.source \in R => Cardinality(ToSet(now.names) \cap R) + 1 <= M
    BY <1>1, <1>2, <1>5, RoomForOne
  <2> QED BY <1>1, <1>3, <1>4, <2>1 DEF StoreGoesOn, StoresIn, Storing
<1>6. NamesIn(disk') \subseteq Entries
  BY <1>1, EntriesOf
<1> QED BY <1>1, <1>5, <1>6, StepCounts DEF Becomes

\* A temporary file is no entry.
LEMMA TempCounts ==
    ASSUME FilesOK, Accounted, NEW s \in Sessions, CreateTemp(s) \/ WriteTemp(s)
    PROVE  Accounted'
<1> DEFINE now == session[s]
<1>1. PICK pc \in {"writing", "renaming"} : Becomes(s, [now EXCEPT !.pc = pc])
  BY DEF CreateTemp, WriteTemp
<1> DEFINE next == [now EXCEPT !.pc = pc]
<1>2. now \in Handlers /\ now.pc \in {"creating", "writing"}
  BY DEF FilesOK, CreateTemp, WriteTemp
<1>3. NamesIn(disk') \subseteq Entries
  BY CreateTempKeeps, WriteTempKeeps
<1>4. next.pc = pc /\ next.payload = now.payload
  BY <1>2 DEF Handlers
<1>5. Becomes(s, next)
  BY <1>1
<1> HIDE DEF next
<1>6. session'[s] = next
  BY <1>5, GoingIsAlone DEF Becomes
<1>7. ASSUME NEW R, NEW M PROVE StoreGoesOn(Entries', session, session', R, M, s)
  BY <1>2, <1>4, <1>6 DEF StoreGoesOn, StoresIn, Storing
<1> QED BY <1>3, <1>5, <1>7, StepCounts DEF Becomes

\* The entry that appears is the one there was room for, but for the other sessions that store.
LEMMA RenameTempCounts ==
    ASSUME FilesOK, Accounted, NEW s \in Sessions, RenameTemp(s)
    PROVE  Accounted'
<1> DEFINE now == session[s]
           x == now.payload.source
           next == Idle(now.audit, now.bound)
<1>1. /\ now \in Handlers /\ SessionOK(disk, s, now) /\ now.pc = "renaming"
      /\ Entries \subseteq Sources
  BY EntriesOf DEF FilesOK, RenameTemp
<1>2. PICK y : Goes(s, next, y)
  BY DEF RenameTemp, Returns, Becomes
<1>3. x \in Sources
  BY <1>1 DEF SessionOK, Storing, Payloads
<1>4. NamesIn(disk') \subseteq Entries \cup {x}
  BY RenameTempKeeps
<1>5. Entries' \subseteq Entries \cup {x}
  BY <1>4 DEF Entries, NamesIn
<1>6. next.pc = "idle"
  BY DEF Idle
<1> HIDE DEF next
<1>7. session'[s] = next /\ OthersWait(session, session', s)
  BY <1>2, GoingIsAlone
<1>8. ASSUME NEW R, NEW M, Capped(R, M) PROVE Counted(Entries', session', R, M)
  <2>1. Counted(Entries, session, R, M) /\ M \in Nat
    BY <1>8, CapsAreNumbers DEF Accounted
  <2>2. ~StoresIn(session', R, s)
    BY <1>6, <1>7 DEF StoresIn, Storing
  <2>3. CASE x \in R
    <3>1. StoresIn(session, R, s) /\ session[s].pc # "evicting"
      BY <1>1, <2>3 DEF StoresIn, Storing
    <3> QED BY <1>3, <1>5, <1>7, <2>1, <2>2, <3>1, Writes
  <2>4. CASE x \notin R
    <3>1. StoreGoesOn(Entries', session, session', R, M, s)
      BY <2>2 DEF StoreGoesOn
    <3>2. Entries' \cap R \subseteq Entries
      BY <1>5, <2>4
    <3> QED BY <1>7, <2>1, <3>1, <3>2, NothingAdded
  <2> QED BY <2>3, <2>4
<1> QED BY <1>8 DEF Accounted

\* A failed store, and the calls that only remove.
LEMMA RemovalsCount ==
    ASSUME FilesOK, Accounted, NEW s \in Sessions,
           \/ StoreFails(s) \/ Read(s) \/ Discard(s) \/ CleanNext(s)
           \/ \E whole \in BOOLEAN : Cleanup(s, whole)
    PROVE  Accounted'
<1> USE DEF Storing
<1>1. DiskOK(disk) /\ session[s] \in Handlers /\ Entries = NamesIn(disk)
  BY EntriesOf DEF FilesOK
<1>2. /\ \A sources : NamesIn(WithoutTemporary(sources)) = Entries
      /\ NamesIn(WithoutOwn(s)) = Entries
      /\ \A x : NamesIn(Unlinked(x)) = Entries \ {x}
  BY <1>1, KeptEntries
<1>3. CASE StoreFails(s)
  <2>1. NamesIn(disk') \subseteq Entries
    BY <1>2, <1>3 DEF StoreFails
  <2>2. Idle(session[s].audit, session[s].bound).pc = "idle"
    BY DEF Idle
  <2> QED BY <1>3, <2>1, <2>2, RestCounts DEF StoreFails, Returns, Becomes
<1>4. CASE Read(s)
  <2> DEFINE next == [In(s, "looking") EXCEPT !.names = Reverse(NamesOf(Siblings(session[s].audit)))]
  <2>1. NamesIn(disk') \subseteq Entries /\ Becomes(s, next)
    BY <1>2, <1>4 DEF Read
  <2>2. next.pc = "looking"
    BY <1>1 DEF In, Handlers
  <2> HIDE DEF next
  <2> QED BY <2>1, <2>2, RestCounts DEF Becomes
<1>5. CASE Discard(s)
  <2> DEFINE x == Head(session[s].names)
             next == [session[s] EXCEPT !.pc = "looking", !.names = Tail(@)]
  <2>1. disk' = Unlinked(x) /\ Goes(s, next, x)
    BY <1>5 DEF Discard
  <2>2. NamesIn(disk') \subseteq Entries
    BY <1>2, <2>1
  <2>3. next.pc = "looking"
    BY <1>1 DEF Handlers
  <2> HIDE DEF next
  <2> QED BY <2>1, <2>2, <2>3, RestCounts
<1>6. CASE CleanNext(s)
  <2> DEFINE x == Head(session[s].names)
             next == [session[s] EXCEPT !.names = Tail(@)]
  <2>1. disk' = Unlinked(x) /\ Goes(s, next, x) /\ session[s].pc = "cleaning"
    BY <1>6 DEF CleanNext
  <2>2. NamesIn(disk') \subseteq Entries
    BY <1>2, <2>1
  <2>3. next.pc = "cleaning"
    BY <1>1, <2>1 DEF Handlers
  <2> HIDE DEF next
  <2> QED BY <2>1, <2>2, <2>3, RestCounts
<1>7. ASSUME NEW whole \in BOOLEAN, Cleanup(s, whole) PROVE Accounted'
  <2> DEFINE next == [In(s, "cleaning") EXCEPT
                         !.names = IF whole THEN NamesOf(Siblings(session[s].audit))
                                   ELSE <<session[s].audit>>]
  <2>1. Becomes(s, next)
    BY <1>7 DEF Cleanup
  <2>2. NamesIn(disk') \subseteq Entries
    BY <1>1, <1>2, <1>7 DEF Cleanup
  <2>3. next.pc = "cleaning"
    BY <1>1 DEF In, Handlers
  <2> HIDE DEF next
  <2> QED BY <2>1, <2>2, <2>3, RestCounts DEF Becomes
<1> QED BY <1>3, <1>4, <1>5, <1>6, <1>7

\* The steps that leave the files alone.
LEMMA ReadingCounts ==
    ASSUME FilesOK, Accounted, NEW s \in Sessions,
           \/ Look(s) \/ Open(s) \/ ListReturns(s) \/ Answered(s) \/ Cleaned(s)
           \/ Close(s) \/ Crash(s)
           \/ \E prior \in BOOLEAN : LoadReturns(s, prior)
           \/ \E x \in Sources : Activate(s, x) \/ Reindex(s, x)
    PROVE  Accounted'
<1>1. session[s] \in Handlers /\ UNCHANGED disk
  BY DEF FilesOK, Look, Open, ListReturns, Answered, Cleaned, Close, Crash, LoadReturns,
         Activate, Reindex
<1>2. \E next : Becomes(s, next) /\ next.pc \notin Storing
  <2> USE DEF Storing
  <2>1. \A audit, bound : Idle(audit, bound).pc = "idle"
    BY DEF Idle
  <2>2. CASE \/ ListReturns(s) \/ Answered(s) \/ Cleaned(s) \/ Close(s) \/ Crash(s)
             \/ \E x \in Sources : Activate(s, x) \/ Reindex(s, x)
    <3>1. \E audit, bound : Becomes(s, Idle(audit, bound))
      BY <2>2 DEF ListReturns, Answered, Cleaned, Close, Crash, Activate, Reindex, Returns
    <3> QED BY <2>1, <3>1
  <2>3. CASE Look(s)
    <3>1. \/ Becomes(s, [session[s] EXCEPT !.pc = "opening"])
          \/ Becomes(s, [session[s] EXCEPT !.names = Tail(@)])
      BY <2>3 DEF Look
    <3>2. /\ [session[s] EXCEPT !.pc = "opening"].pc = "opening"
          /\ [session[s] EXCEPT !.names = Tail(@)].pc = "looking"
      BY <1>1, <2>3 DEF Handlers, Look
    <3> QED BY <3>1, <3>2
  <2>4. CASE Open(s)
    <3> DEFINE read == [session[s] EXCEPT !.pc = "looking", !.names = Tail(@),
                            !.valid = Append(@, EntryOf(Head(session[s].names)).payload)]
               corrupt == [session[s] EXCEPT !.pc = "discarding", !.changed = FALSE]
    <3>1. Becomes(s, read) \/ Becomes(s, corrupt)
      BY <2>4 DEF Open
    <3>2. read.pc = "looking" /\ corrupt.pc = "discarding"
      BY <1>1 DEF Handlers
    <3> HIDE DEF read, corrupt
    <3> QED BY <3>1, <3>2
  <2>5. ASSUME NEW prior \in BOOLEAN, LoadReturns(s, prior)
        PROVE  \E next : Becomes(s, next) /\ next.pc \notin Storing
    <3>1. PICK loaded : Becomes(s, [session[s] EXCEPT !.pc = "returned", !.valid = <<>>,
                                                      !.loaded = loaded])
      BY <2>5 DEF LoadReturns
    <3> DEFINE next == [session[s] EXCEPT !.pc = "returned", !.valid = <<>>, !.loaded = loaded]
    <3>2. Becomes(s, next) /\ next.pc = "returned"
      BY <1>1, <3>1 DEF Handlers
    <3> HIDE DEF next
    <3> QED BY <3>2
  <2> QED BY <2>2, <2>3, <2>4, <2>5
<1> QED BY <1>1, <1>2, OthersCount

-----------------------------------------------------------------------------
(* The inductive invariant, and what it implies.                           *)

IInv == FilesOK /\ Accounted

\* The invariant holds of an empty cache.
LEMMA InitHolds ==
    ASSUME Init
    PROVE  IInv
<1>1. session = [s \in Sessions |-> Idle(None, None)] /\ disk = <<>>
  BY DEF Init
<1>2. ASSUME NEW s \in Sessions PROVE session[s] \in Handlers /\ session[s].pc = "idle"
  BY <1>1, IdleType
<1>3. session \in [Sessions -> Handlers]
  BY <1>1, <1>2
<1>4. \A s \in Sessions : SessionOK(disk, s, session[s])
  BY <1>2, AtRest
<1>5. <<>> \in Seq(Files) /\ DOMAIN <<>> = {}
  OBVIOUS
<1>6. DiskOK(disk)
  BY <1>1, <1>5 DEF DiskOK
<1>7. Entries = {}
  BY <1>1, <1>5 DEF Entries, ToSet
<1>8. ASSUME NEW R, NEW M, Capped(R, M) PROVE Counted({}, session, R, M)
  BY <1>2, <1>8, CapsAreNumbers, NothingIsCounted DEF Storing
<1> QED BY <1>3, <1>4, <1>6, <1>7, <1>8 DEF IInv, FilesOK, Accounted

\* Every step of a session keeps the invariant.
LEMMA SessionStepKeeps ==
    ASSUME IInv, NEW s \in Sessions,
           \/ Call(s) \/ Step(s) \/ StoreFails(s) \/ Close(s) \/ Crash(s)
           \/ \E x \in Sources : Activate(s, x) \/ Reindex(s, x)
    PROVE  IInv'
<1>1. FilesOK /\ Accounted
  BY DEF IInv
<1>2. ASSUME NEW files \in Indexed, Store(s, files) PROVE IInv'
  BY <1>1, <1>2, StoreKeeps, StoreCounts DEF IInv
<1>3. CASE Read(s)
  BY <1>1, <1>3, ReadKeeps, RemovalsCount DEF IInv
<1>4. ASSUME NEW whole \in BOOLEAN, Cleanup(s, whole) PROVE IInv'
  BY <1>1, <1>4, CleanupKeeps, RemovalsCount DEF IInv
<1>5. CASE Evict(s)
  BY <1>1, <1>5, EvictKeeps, EvictCounts DEF IInv
<1>6. CASE HasRoom(s)
  BY <1>1, <1>6, HasRoomKeeps, HasRoomCounts DEF IInv
<1>7. CASE CreateTemp(s)
  BY <1>1, <1>7, CreateTempKeeps, TempCounts DEF IInv
<1>8. CASE WriteTemp(s)
  BY <1>1, <1>8, WriteTempKeeps, TempCounts DEF IInv
<1>9. CASE RenameTemp(s)
  BY <1>1, <1>9, RenameTempKeeps, RenameTempCounts DEF IInv
<1>10. CASE StoreFails(s)
  BY <1>1, <1>10, StoreFailsKeeps, RemovalsCount DEF IInv
<1>11. CASE Look(s)
  BY <1>1, <1>11, LookKeeps, ReadingCounts DEF IInv
<1>12. CASE Open(s)
  BY <1>1, <1>12, OpenKeeps, ReadingCounts DEF IInv
<1>13. CASE Discard(s)
  BY <1>1, <1>13, DiscardKeeps, RemovalsCount DEF IInv
<1>14. CASE ListReturns(s) \/ Answered(s)
  BY <1>1, <1>14, ReturnKeeps, ReadingCounts DEF IInv
<1>15. ASSUME NEW prior \in BOOLEAN, LoadReturns(s, prior) PROVE IInv'
  BY <1>1, <1>15, LoadReturnsKeeps, ReadingCounts DEF IInv
<1>16. CASE CleanNext(s)
  BY <1>1, <1>16, CleanNextKeeps, RemovalsCount DEF IInv
<1>17. CASE \/ Cleaned(s) \/ Close(s) \/ Crash(s)
            \/ \E x \in Sources : Activate(s, x) \/ Reindex(s, x)
  BY <1>1, <1>17, AuditKeeps, ReadingCounts DEF IInv
<1> QED BY <1>2, <1>3, <1>4, <1>5, <1>6, <1>7, <1>8, <1>9, <1>10, <1>11, <1>12, <1>13,
           <1>14, <1>15, <1>16, <1>17 DEF Call, Step

\* Every step keeps the invariant.
LEMMA NextKeeps ==
    ASSUME IInv, [Next]_vars
    PROVE  IInv'
<1>1. ASSUME NEW s \in Sessions,
             \/ Call(s) \/ Step(s) \/ StoreFails(s) \/ Close(s) \/ Crash(s)
             \/ \E x \in Sources : Activate(s, x) \/ Reindex(s, x)
      PROVE  IInv'
  BY <1>1, SessionStepKeeps
<1>2. ASSUME NEW x \in Sources, Damage(x) PROVE IInv'
  <2>1. FilesOK' /\ NamesIn(disk') = Entries
    BY <1>2, DamageKeeps DEF IInv
  <2>2. Entries' = Entries /\ session' = session
    BY <1>2, <2>1 DEF Entries, NamesIn, Damage
  <2> QED BY <2>1, <2>2 DEF IInv, Accounted
<1>3. CASE UNCHANGED vars
  <2>1. FilesOK'
    BY <1>3 DEF IInv, FilesOK, vars
  <2>2. Entries' = Entries /\ session' = session
    BY <1>3 DEF Entries, vars
  <2> QED BY <2>1, <2>2 DEF IInv, Accounted
<1> QED BY <1>1, <1>2, <1>3 DEF Next

\* What the runs check follows from it.
LEMMA InvariantImplies ==
    ASSUME IInv
    PROVE  TypeOK /\ EntriesWhole /\ LoadFits /\ CapsBounded
<1>1. FilesOK /\ Accounted /\ DiskOK(disk) /\ Entries \subseteq Sources
  BY EntriesOf DEF IInv, FilesOK
<1>2. TypeOK
  BY <1>1 DEF FilesOK, DiskOK, TypeOK
<1>3. EntriesWhole
  BY <1>1 DEF DiskOK, EntriesWhole, ToSet
<1>4. LoadFits
  BY <1>1 DEF FilesOK, SessionOK, Fitted, LoadFits
<1>5. CapsBounded
  <2>1. Capped(Sources, TotalFiles) /\ \A x \in Sources : Capped(Siblings(x), NamespaceFiles)
    BY DEF Capped
  <2>2. Cardinality(Entries \cap Sources) <= TotalFiles + (Cardinality(Sessions) - 1)
    BY <1>1, <2>1, CapsAreNumbers, CountedIsBounded DEF Accounted
  <2>3. ASSUME NEW x \in Sources
        PROVE  Cardinality(Entries \cap Siblings(x)) <= NamespaceFiles + (Cardinality(Sessions) - 1)
    BY <1>1, <2>1, CapsAreNumbers, CountedIsBounded DEF Accounted
  <2>4. /\ Entries \cap Sources = Entries
        /\ \A x \in Sources : Entries \cap Siblings(x) = {y \in Entries : InNamespace(x, y)}
    BY <1>1 DEF Siblings
  <2> QED BY <2>2, <2>3, <2>4 DEF CapsBounded
<1> QED BY <1>2, <1>3, <1>4, <1>5

\* The inductive invariant holds throughout.
LEMMA Invariant == Spec => []IInv
<1>1. Init => IInv
  BY InitHolds
<1>2. IInv /\ [Next]_vars => IInv'
  BY NextKeeps
<1> QED BY <1>1, <1>2, PTL DEF Spec

\* The files are whole or temporary files of a session, and one entry has a name, whatever
\* the calls of any number of sessions do to each other in one directory tree.
THEOREM TypeCorrect == Spec => []TypeOK
<1>1. IInv => TypeOK
  BY InvariantImplies
<1> QED BY <1>1, Invariant, PTL

\* "Atomically store": no entry is a file whose write did not end, wherever a session
\* crashed between the creation of its temporary file and the rename, or lost it to
\* another one's listing.
THEOREM EntriesAreWhole == Spec => []EntriesWhole
<1>1. IInv => EntriesWhole
  BY InvariantImplies
<1> QED BY <1>1, Invariant, PTL

\* What a load returns has the contents of the active source, a plugin record comes with
\* all its files, and the answer stays in its budget, from any sequence of entries.
THEOREM LoadsFit == Spec => []LoadFits
<1>1. IInv => LoadFits
  BY InvariantImplies
<1> QED BY <1>1, Invariant, PTL

\* The caps are exceeded by at most one file for each of the other sessions: stores make
\* room from their own listing, and what they do not know of is what others wrote since.
THEOREM CapsAreBounded == Spec => []CapsBounded
<1>1. IInv => CapsBounded
  BY InvariantImplies
<1> QED BY <1>1, Invariant, PTL

=============================================================================
