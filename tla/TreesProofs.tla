---------------------------- MODULE TreesProofs ----------------------------
(***************************************************************************)
(* The two programs whose data are trees.  printDir draws the tree that    *)
(* readDir has read, line by line, although the slices of prefixes share   *)
(* their arrays; and i2s copies what conforms to the type, or leaves every *)
(* field as it was or copied whole.                                        *)
(*                                                                         *)
(* Layout: paths; the directory tree; the nested values.                   *)
(***************************************************************************)
EXTENDS DirTree, I2s, FiniteSetTheorems, FunctionTheorems, SequenceTheorems, TLAPS

-----------------------------------------------------------------------------
(* Paths.                                                                  *)

\* The start of a sequence, and of a path
LEMMA StartOf ==
  ASSUME NEW S, NEW q \in Seq(S), NEW n \in 0 .. Len(q)
  PROVE  /\ SubSeq(q, 1, n) \in Seq(S) /\ Len(SubSeq(q, 1, n)) = n
         /\ \A j \in 1 .. n : SubSeq(q, 1, n)[j] = q[j]
OBVIOUS

LEMMA StartOfPath ==
  ASSUME NEW p \in Seq(Int), NEW k \in 0 .. Len(p)
  PROVE  /\ SubSeq(p, 1, k) \in Seq(Int) /\ Len(SubSeq(p, 1, k)) = k
         /\ \A j \in 1 .. k : SubSeq(p, 1, k)[j] = p[j]
OBVIOUS

\* Two paths start alike if their names do
LEMMA SameStart ==
  ASSUME NEW p \in Seq(Int), NEW q \in Seq(Int), NEW k \in 0 .. Len(p), k <= Len(q)
  PROVE  SubSeq(p, 1, k) = SubSeq(q, 1, k) <=> \A j \in 1 .. k : p[j] = q[j]
<1>1. /\ SubSeq(p, 1, k) \in Seq(Int) /\ Len(SubSeq(p, 1, k)) = k
      /\ \A j \in 1 .. k : SubSeq(p, 1, k)[j] = p[j]
  BY StartOfPath
<1>2. /\ SubSeq(q, 1, k) \in Seq(Int) /\ Len(SubSeq(q, 1, k)) = k
      /\ \A j \in 1 .. k : SubSeq(q, 1, k)[j] = q[j]
  <2>1. k \in 0 .. Len(q)
    OBVIOUS
  <2>. QED  BY <2>1, StartOfPath
<1>3. ASSUME \A j \in 1 .. k : p[j] = q[j] PROVE SubSeq(p, 1, k) = SubSeq(q, 1, k)
  <2>1. \A j \in 1 .. Len(SubSeq(p, 1, k)) : SubSeq(p, 1, k)[j] = SubSeq(q, 1, k)[j]
    BY <1>1, <1>2, <1>3
  <2>. QED  BY <1>1, <1>2, <2>1, SeqEqual
<1>. QED  BY <1>1, <1>2, <1>3

\* The directory of a path
LEMMA Directory ==
  ASSUME NEW p \in Seq(Int), p # << >>
  PROVE  /\ Len(p) \in Nat \ {0} /\ Base(p) \in Int
         /\ In(p) \in Seq(Int) /\ Len(In(p)) = Len(p) - 1
         /\ \A j \in 1 .. Len(p) - 1 : In(p)[j] = p[j]
<1>1. Len(p) \in Nat \ {0} /\ Len(p) - 1 \in 0 .. Len(p)
  OBVIOUS
<1>2. Base(p) \in Int
  BY <1>1 DEF Base
<1>. DEFINE k == Len(p) - 1
<1>3. /\ SubSeq(p, 1, k) \in Seq(Int) /\ Len(SubSeq(p, 1, k)) = k
      /\ \A j \in 1 .. k : SubSeq(p, 1, k)[j] = p[j]
  BY <1>1, StartOfPath
<1>. QED  BY <1>1, <1>2, <1>3 DEF In

\* In one directory, paths differ by their base
LEMMA SameDirectory ==
  ASSUME NEW p \in Seq(Int), p # << >>, NEW q \in Seq(Int), q # << >>, In(p) = In(q)
  PROVE  /\ Len(p) = Len(q) /\ \A j \in 1 .. Len(p) - 1 : p[j] = q[j]
         /\ Base(p) = Base(q) => p = q
<1>1. Len(p) = Len(q) /\ Len(p) \in Nat \ {0}
  BY Directory
<1>2. \A j \in 1 .. Len(p) - 1 : p[j] = q[j]
  <2>1. /\ \A j \in 1 .. Len(p) - 1 : In(p)[j] = p[j]
        /\ \A j \in 1 .. Len(q) - 1 : In(q)[j] = q[j]
    BY Directory
  <2>. QED  BY <1>1, <2>1
<1>3. ASSUME Base(p) = Base(q) PROVE p = q
  <2>1. \A j \in 1 .. Len(p) : p[j] = q[j]
    BY <1>1, <1>2, <1>3 DEF Base
  <2>. QED  BY <1>1, <2>1, SeqEqual
<1>. QED  BY <1>1, <1>2, <1>3

\* What it takes to start a path
LEMMA StartsByNames ==
  ASSUME NEW p \in Seq(Int), NEW q \in Seq(Int)
  PROVE  Starts(p, q) <=> Len(p) <= Len(q) /\ \A j \in 1 .. Len(p) : p[j] = q[j]
<1>1. SubSeq(p, 1, Len(p)) = p /\ Len(p) \in 0 .. Len(p)
  OBVIOUS
<1>. QED  BY <1>1, SameStart DEF Starts

LEMMA StartOfStart ==
  ASSUME NEW p \in Seq(Int), NEW m \in 0 .. Len(p), NEW k \in 0 .. m
  PROVE  SubSeq(SubSeq(p, 1, m), 1, k) = SubSeq(p, 1, k)
<1>. DEFINE q == SubSeq(p, 1, m)
<1>1. q \in Seq(Int) /\ Len(q) = m /\ \A j \in 1 .. m : q[j] = p[j]
  BY StartOfPath
<1>. HIDE DEF q
<1>2. k \in 0 .. Len(q) /\ k <= Len(p) /\ \A j \in 1 .. k : q[j] = p[j]
  BY <1>1
<1>3. SubSeq(q, 1, k) = SubSeq(p, 1, k)
  BY <1>1, <1>2, SameStart
<1>. QED  BY <1>3 DEF q

\* Before, by names
LEMMA BeforeByNames ==
  ASSUME NEW p \in Seq(Int), NEW q \in Seq(Int)
  PROVE  Before(p, q) <=>
           \/ Len(p) < Len(q) /\ \A j \in 1 .. Len(p) : p[j] = q[j]
           \/ \E k \in 1 .. Len(p) : k <= Len(q) /\ p[k] < q[k] /\ \A j \in 1 .. k - 1 : p[j] = q[j]
<1>1. Len(p) < Len(q) => (p = SubSeq(q, 1, Len(p)) <=> \A j \in 1 .. Len(p) : p[j] = q[j])
  BY StartsByNames DEF Starts
<1>2. ASSUME NEW k \in 1 .. Len(p), k <= Len(q)
      PROVE  SubSeq(p, 1, k - 1) = SubSeq(q, 1, k - 1) <=> \A j \in 1 .. k - 1 : p[j] = q[j]
  <2>1. k - 1 \in 0 .. Len(p) /\ k - 1 <= Len(q)
    BY <1>2
  <2>. QED  BY <2>1, SameStart
<1>3. \A k : k \in DOMAIN p \cap DOMAIN q <=> k \in 1 .. Len(p) /\ k <= Len(q)
  OBVIOUS
<1>. QED  BY <1>1, <1>2, <1>3 DEF Before

\* Before is an order
LEMMA BeforeAsymmetric ==
  ASSUME NEW p \in Seq(Int), NEW q \in Seq(Int), Before(p, q)
  PROVE  ~ Before(q, p) /\ p # q
<1>1. CASE Len(p) < Len(q) /\ \A j \in 1 .. Len(p) : p[j] = q[j]
  BY <1>1, BeforeByNames
<1>2. CASE \E k \in 1 .. Len(p) : k <= Len(q) /\ p[k] < q[k] /\ \A j \in 1 .. k - 1 : p[j] = q[j]
  <2>1. PICK k \in 1 .. Len(p) : k <= Len(q) /\ p[k] < q[k] /\ \A j \in 1 .. k - 1 : p[j] = q[j]
    BY <1>2
  <2>2. p[k] \in Int /\ q[k] \in Int /\ p # q
    BY <2>1
  <2>3. ~ (Len(q) < Len(p) /\ \A j \in 1 .. Len(q) : q[j] = p[j])
    BY <2>1, <2>2
  <2>4. ASSUME NEW m \in 1 .. Len(q), m <= Len(p), q[m] < p[m], \A j \in 1 .. m - 1 : q[j] = p[j]
        PROVE  FALSE
    <3>1. p[m] \in Int /\ q[m] \in Int
      BY <2>4
    <3>2. CASE m < k
      <4>1. m \in 1 .. k - 1
        BY <3>2
      <4>. QED  BY <2>1, <2>4, <3>1, <4>1
    <3>3. CASE k < m
      <4>1. k \in 1 .. m - 1
        BY <3>3
      <4>. QED  BY <2>1, <2>4, <2>2, <4>1
    <3>4. CASE k = m
      BY <2>1, <2>4, <3>4, <2>2
    <3>. QED  BY <3>2, <3>3, <3>4
  <2>. QED  BY <2>2, <2>3, <2>4, BeforeByNames
<1>. QED  BY <1>1, <1>2, BeforeByNames

-----------------------------------------------------------------------------
(* sort.Slice.                                                             *)

\* What is sorted by name has every element once
LEMMA ByNameSorts ==
  ASSUME NEW S \in SUBSET (Seq(Int) \ {<< >>}), IsFiniteSet(S),
         \A p, q \in S : In(p) = In(q)
  PROVE  /\ Cardinality(S) \in Nat
         /\ ByName(S) \in [1 .. Cardinality(S) -> S]
         /\ \A j, k \in 1 .. Cardinality(S) : j < k => Base(ByName(S)[j]) < Base(ByName(S)[k])
         /\ \A p \in S : \E k \in 1 .. Cardinality(S) : ByName(S)[k] = p
<1>. DEFINE n == Cardinality(S)
            Smaller(p) == {q \in S : Base(q) < Base(p)}
            rank == [p \in S |-> 1 + Cardinality(Smaller(p))]
            Up(f) == \A j, k \in 1 .. n : j < k => Base(f[j]) < Base(f[k])
<1>1. n \in Nat
  BY FS_CardinalityType
<1>2. \A p \in S : Base(p) \in Int
  BY Directory
<1>3. \A p, q \in S : Base(p) = Base(q) => p = q
  BY SameDirectory
<1>4. ASSUME NEW p \in S
      PROVE  IsFiniteSet(Smaller(p)) /\ Cardinality(Smaller(p)) \in Nat /\ rank[p] \in 1 .. n
  <2>1. Smaller(p) \in SUBSET S /\ Smaller(p) # S
    BY <1>2
  <2>2. IsFiniteSet(Smaller(p)) /\ Cardinality(Smaller(p)) <= n /\ Cardinality(Smaller(p)) # n
    BY <2>1, FS_Subset
  <2>3. Cardinality(Smaller(p)) \in Nat
    BY <2>2, FS_CardinalityType
  <2>4. 1 + Cardinality(Smaller(p)) \in 1 .. n
    BY <1>1, <2>2, <2>3
  <2>5. rank[p] = 1 + Cardinality(Smaller(p))
    OBVIOUS
  <2>. QED  BY <2>2, <2>3, <2>4, <2>5
<1>5. ASSUME NEW p \in S, NEW q \in S, Base(p) < Base(q)
      PROVE  rank[p] < rank[q]
  <2>1. Smaller(p) \cup {p} \in SUBSET Smaller(q) /\ p \notin Smaller(p)
    BY <1>2, <1>5
  <2>2. Cardinality(Smaller(p) \cup {p}) = Cardinality(Smaller(p)) + 1
    BY <1>4, <2>1, FS_AddElement
  <2>3. Cardinality(Smaller(p) \cup {p}) <= Cardinality(Smaller(q))
    BY <1>4, <2>1, FS_Subset
  <2>4. rank[p] = 1 + Cardinality(Smaller(p)) /\ rank[q] = 1 + Cardinality(Smaller(q))
    OBVIOUS
  <2>5. Cardinality(Smaller(p)) \in Nat /\ Cardinality(Smaller(q)) \in Nat
    BY <1>4
  <2>. HIDE DEF Smaller, rank
  <2>. QED  BY <2>2, <2>3, <2>4, <2>5
<1>. HIDE DEF rank
<1>6. rank \in [S -> 1 .. n]
  BY <1>4 DEF rank
<1>7. \A p, q \in S : rank[p] = rank[q] => p = q
  <2>. SUFFICES ASSUME NEW p \in S, NEW q \in S, rank[p] = rank[q] PROVE p = q
    OBVIOUS
  <2>1. ~ (Base(p) < Base(q)) /\ ~ (Base(q) < Base(p))
    BY <1>5, <1>6
  <2>. QED  BY <1>2, <1>3, <2>1
<1>8. rank \in Surjection(S, 1 .. n)
  <2>1. IsFiniteSet(1 .. n) /\ Cardinality(1 .. n) = n
    BY <1>1, FS_Interval
  <2>2. rank \in Injection(S, 1 .. n)
    BY <1>6, <1>7, Fun_IsInj
  <2>. QED  BY <2>1, <2>2, FS_Injection
<1>9. \A k \in 1 .. n : \E p \in S : rank[p] = k
  BY <1>8, Fun_SurjectionProperties
<1>10. \E f \in [1 .. n -> S] : Up(f)
  <2>. DEFINE f == [k \in 1 .. n |-> CHOOSE p \in S : rank[p] = k]
  <2>1. \A k \in 1 .. n : f[k] \in S /\ rank[f[k]] = k
    BY <1>9
  <2>2. f \in [1 .. n -> S]
    BY <2>1
  <2>. HIDE DEF f
  <2>3. ASSUME NEW j \in 1 .. n, NEW k \in 1 .. n, j < k PROVE Base(f[j]) < Base(f[k])
    <3>1. f[j] # f[k] /\ ~ (Base(f[k]) < Base(f[j]))
      BY <2>1, <2>3, <1>5
    <3>. QED  BY <3>1, <2>1, <1>2, <1>3
  <2>. QED  BY <2>2, <2>3
<1>11. ByName(S) \in [1 .. n -> S] /\ Up(ByName(S))
  <2>1. ByName(S) = CHOOSE f \in [1 .. n -> S] : \A j, k \in DOMAIN f : j < k => Base(f[j]) < Base(f[k])
    BY DEF ByName
  <2>2. \A f \in [1 .. n -> S] : DOMAIN f = 1 .. n
    OBVIOUS
  <2>3. \E f \in [1 .. n -> S] : \A j, k \in DOMAIN f : j < k => Base(f[j]) < Base(f[k])
    BY <1>10, <2>2
  <2>. QED  BY <2>1, <2>2, <2>3
<1>. DEFINE by == ByName(S)
<1>. HIDE DEF by
<1>12. by \in Injection(1 .. n, S)
  <2>1. by \in [1 .. n -> S] /\ Up(by)
    BY <1>11 DEF by
  <2>2. \A j, k \in 1 .. n : by[j] = by[k] => j = k
    BY <2>1, <1>2
  <2>. QED  BY <2>1, <2>2, Fun_IsInj
<1>13. by \in Surjection(1 .. n, S)
  <2>1. IsFiniteSet(1 .. n) /\ Cardinality(1 .. n) = n
    BY <1>1, FS_Interval
  <2>. QED  BY <1>12, <2>1, FS_Injection
<1>14. \A p \in S : \E k \in 1 .. n : by[k] = p
  BY <1>13 DEF Surjection
<1>. QED  BY <1>1, <1>11, <1>14 DEF by

-----------------------------------------------------------------------------
(* The tree.                                                               *)

LEMMA DiskFacts ==
  ASSUME disk \in Disks
  PROVE  /\ DOMAIN disk \subseteq Seq(Int) /\ disk \in [DOMAIN disk -> DiskEntry]
         /\ << >> \in DOMAIN disk /\ disk[<< >>].dir
         /\ \A p \in DOMAIN disk : \A k \in 0 .. Len(p) - 1 :
              SubSeq(p, 1, k) \in DOMAIN disk /\ disk[SubSeq(p, 1, k)].dir
         /\ Lines \subseteq DOMAIN disk
         /\ \A p \in Lines : p \in Seq(Int) /\ p # << >>
         /\ IsFiniteSet(DOMAIN disk) /\ IsFiniteSet(Lines)
<1>1. /\ DOMAIN disk \subseteq Seq(Int) /\ disk \in [DOMAIN disk -> DiskEntry]
      /\ << >> \in DOMAIN disk /\ disk[<< >>].dir
      /\ IsFiniteSet(DOMAIN disk)
  BY DirTreeAssumption
<1>2. \A p \in DOMAIN disk : \A k \in 0 .. Len(p) - 1 :
        SubSeq(p, 1, k) \in DOMAIN disk /\ disk[SubSeq(p, 1, k)].dir
  BY DirTreeAssumption
<1>3. Lines \in SUBSET DOMAIN disk
  BY DEF Lines
<1>4. IsFiniteSet(Lines)
  BY <1>1, <1>3, FS_Subset
<1>5. \A p \in Lines : p # << >>
  BY DEF Lines, Shown
<1>. QED  BY <1>1, <1>2, <1>3, <1>4, <1>5

\* The way down to p leads over what is shown
LEMMA ShownOnTheWay ==
  ASSUME disk \in Disks, NEW p \in Lines, NEW m \in 1 .. Len(p)
  PROVE  SubSeq(p, 1, m) \in Lines
<1>. DEFINE q == SubSeq(p, 1, m)
<1>1. p \in Seq(Int) /\ p \in DOMAIN disk /\ Len(p) \in Nat
  BY DiskFacts
<1>2. q \in Seq(Int) /\ Len(q) = m
  BY <1>1, StartOfPath
<1>3. q \in DOMAIN disk /\ (disk[q].dir \/ withFiles)
  <2>1. CASE m = Len(p)
    <3>1. q = p
      BY <1>1, <2>1
    <3>. QED  BY <1>1, <3>1 DEF Lines, Shown
  <2>2. CASE m < Len(p)
    <3>1. m \in 0 .. Len(p) - 1
      BY <1>1, <2>2
    <3>. QED  BY <1>1, <3>1, DiskFacts
  <2>. QED  BY <1>1, <2>1, <2>2
<1>4. ASSUME NEW k \in 0 .. Len(q) - 1 PROVE disk[SubSeq(q, 1, k)].opens
  <2>1. k \in 0 .. m /\ m \in 0 .. Len(p) /\ k \in 0 .. Len(p) - 1
    BY <1>1, <1>2
  <2>2. SubSeq(q, 1, k) = SubSeq(p, 1, k)
    BY <1>1, <2>1, StartOfStart
  <2>. QED  BY <2>1, <2>2 DEF Lines, Shown
<1>5. q # << >>
  BY <1>2
<1>. HIDE DEF q
<1>6. q \in Lines
  BY <1>3, <1>4, <1>5 DEF Lines, Shown
<1>. QED  BY <1>6 DEF q

\* What is below h is in a child of h, and h is then an open directory
LEMMA Child ==
  ASSUME disk \in Disks, NEW h \in Seq(Int), NEW p \in Lines, Starts(h, p), p # h
  PROVE  /\ h \in DOMAIN disk /\ disk[h].dir /\ disk[h].opens
         /\ \E c \in Lines : In(c) = h /\ Starts(c, p)
<1>1. p \in Seq(Int) /\ p \in DOMAIN disk /\ Len(p) \in Nat /\ Len(h) \in Nat
  BY DiskFacts
<1>2. Len(h) < Len(p) /\ h = SubSeq(p, 1, Len(h))
  <2>1. SubSeq(p, 1, Len(p)) = p
    BY <1>1
  <2>. QED  BY <1>1, <2>1 DEF Starts
<1>3. Len(h) \in 0 .. Len(p) - 1
  BY <1>1, <1>2
<1>4. h \in DOMAIN disk /\ disk[h].dir /\ disk[h].opens
  <2>1. h \in DOMAIN disk /\ disk[h].dir
    BY <1>1, <1>2, <1>3, DiskFacts
  <2>2. disk[h].opens
    BY <1>2, <1>3 DEF Lines, Shown
  <2>. QED  BY <2>1, <2>2
<1>. DEFINE m == Len(h) + 1
            c == SubSeq(p, 1, m)
<1>5. m \in 1 .. Len(p) /\ m \in 0 .. Len(p)
  BY <1>1, <1>3
<1>6. c \in Lines
  BY <1>5, ShownOnTheWay
<1>7. c \in Seq(Int) /\ Len(c) = m
  BY <1>1, <1>5, StartOfPath
<1>8. In(c) = h
  <2>1. Len(c) - 1 = Len(h) /\ Len(h) \in 0 .. m
    BY <1>1, <1>7
  <2>2. SubSeq(c, 1, Len(h)) = SubSeq(p, 1, Len(h))
    BY <1>1, <1>5, <2>1, StartOfStart
  <2>. QED  BY <1>2, <2>1, <2>2 DEF In
<1>9. Starts(c, p)
  BY <1>5, <1>7, <1>1 DEF Starts
<1>. QED  BY <1>4, <1>6, <1>8, <1>9

\* readDir returns what is shown of a directory, in order
LEMMA Children ==
  ASSUME disk \in Disks, withFiles \in BOOLEAN, NEW h \in DOMAIN disk,
         disk[h].dir, h = << >> \/ h \in Lines
  PROVE  /\ Siblings(readDir(disk, h, withFiles))
         /\ \A k \in DOMAIN readDir(disk, h, withFiles) : In(readDir(disk, h, withFiles)[k]) = h
         /\ \A p \in Lines : In(p) = h =>
              \E k \in DOMAIN readDir(disk, h, withFiles) : readDir(disk, h, withFiles)[k] = p
<1>. DEFINE nodes == readDir(disk, h, withFiles)
            S == {p \in DOMAIN disk \ {<< >>} : In(p) = h /\ (disk[p].dir \/ withFiles)}
<1>0. h \in Seq(Int) /\ Len(h) \in Nat
  BY DiskFacts
<1>1. CASE ~ disk[h].opens
  <2>1. nodes = << >> /\ DOMAIN nodes = {}
    BY <1>1 DEF readDir
  <2>2. ASSUME NEW p \in Lines, In(p) = h PROVE FALSE
    <3>1. p \in Seq(Int) /\ p # << >> /\ Len(p) \in Nat \ {0}
      BY DiskFacts
    <3>2. Starts(h, p) /\ p # h
      <4>1. Len(h) = Len(p) - 1 /\ h = SubSeq(p, 1, Len(p) - 1)
        BY <2>2, <3>1, Directory DEF In
      <4>. QED  BY <3>1, <4>1 DEF Starts
    <3>. QED  BY <1>0, <1>1, <3>2, Child
  <2>3. Siblings(nodes)
    BY <2>1 DEF Siblings
  <2>. QED  BY <2>1, <2>2, <2>3
<1>2. CASE disk[h].opens
  <2>1. nodes = ByName(S)
    BY <1>2 DEF readDir
  <2>2. S \in SUBSET (Seq(Int) \ {<< >>}) /\ IsFiniteSet(S)
    <3>1. S \in SUBSET DOMAIN disk
      OBVIOUS
    <3>. QED  BY <3>1, DiskFacts, FS_Subset
  <2>3. ASSUME NEW p \in S PROVE p \in Lines
    <3>1. p \in DOMAIN disk /\ p \in Seq(Int) /\ p # << >> /\ Len(p) \in Nat \ {0}
      BY DiskFacts
    <3>2. h = SubSeq(p, 1, Len(p) - 1) /\ Len(h) = Len(p) - 1
      BY <3>1, Directory DEF In
    <3>3. ASSUME NEW k \in 0 .. Len(p) - 1 PROVE disk[SubSeq(p, 1, k)].opens
      <4>1. CASE k = Len(p) - 1
        BY <1>2, <3>2, <4>1
      <4>2. CASE k < Len(p) - 1
        <5>1. k \in 0 .. Len(h) - 1 /\ h \in Lines
          <6>1. Len(h) \in Nat \ {0} /\ k \in 0 .. Len(h) - 1
            BY <3>1, <3>2, <4>2
          <6>2. h # << >>
            BY <6>1
          <6>. QED  BY <6>1, <6>2
        <5>2. SubSeq(h, 1, k) = SubSeq(p, 1, k)
          <6>1. Len(p) - 1 \in 0 .. Len(p) /\ k \in 0 .. Len(p) - 1
            BY <3>1
          <6>. QED  BY <3>1, <3>2, <6>1, StartOfStart
        <5>. QED  BY <5>1, <5>2 DEF Lines, Shown
      <4>. QED  BY <3>1, <4>1, <4>2
    <3>. QED  BY <3>1, <3>3 DEF Lines, Shown
  <2>4. ASSUME NEW p \in Lines, In(p) = h PROVE p \in S
    BY <2>4, DiskFacts DEF Lines, Shown
  <2>. DEFINE n == Cardinality(S)
  <2>5. /\ n \in Nat /\ nodes \in [1 .. n -> S]
        /\ \A j, k \in 1 .. n : j < k => Base(nodes[j]) < Base(nodes[k])
        /\ \A p \in S : \E k \in 1 .. n : nodes[k] = p
    <3>1. \A p, q \in S : In(p) = In(q)
      OBVIOUS
    <3>. HIDE DEF S, nodes
    <3>. QED  BY <2>1, <2>2, <3>1, ByNameSorts
  <2>6. \A p \in S : In(p) = h
    OBVIOUS
  <2>. HIDE DEF S, nodes, n
  <2>7. DOMAIN nodes = 1 .. n /\ nodes \in Seq(Lines)
    <3>1. nodes \in [1 .. n -> Lines]
      BY <2>3, <2>5
    <3>. QED  BY <2>5, <3>1
  <2>8. \A k \in DOMAIN nodes : nodes[k] \in S /\ In(nodes[k]) = h
    BY <2>5, <2>6, <2>7
  <2>9. \A p \in Lines : In(p) = h => \E k \in DOMAIN nodes : nodes[k] = p
    BY <2>4, <2>5, <2>7
  <2>10. Siblings(nodes)
    <3>1. \A j, k \in DOMAIN nodes : /\ In(nodes[j]) = In(nodes[k])
                                     /\ j < k => Base(nodes[j]) < Base(nodes[k])
      BY <2>5, <2>7, <2>8
    <3>2. \A p \in Lines : nodes # << >> /\ In(p) = In(nodes[1]) /\ Base(p) >= Base(nodes[1]) =>
                             \E k \in DOMAIN nodes : nodes[k] = p
      <4>1. nodes # << >> => 1 \in DOMAIN nodes
        <5>1. nodes # << >> => Len(nodes) \in Nat \ {0}
          BY <2>7, EmptySeq
        <5>2. DOMAIN nodes = 1 .. Len(nodes)
          BY <2>7
        <5>. QED  BY <5>1, <5>2
      <4>. QED  BY <2>8, <2>9, <4>1
    <3>. QED  BY <2>7, <3>1, <3>2 DEF Siblings
  <2>. QED  BY <2>8, <2>9, <2>10 DEF nodes
<1>. QED  BY <1>1, <1>2

-----------------------------------------------------------------------------
(* The nodes of a call, and what they lead to.                             *)

LEMMA SiblingFacts ==
  ASSUME disk \in Disks, NEW nodes, Siblings(nodes), nodes # << >>
  PROVE  /\ nodes \in Seq(Lines) /\ Len(nodes) \in Nat \ {0} /\ DOMAIN nodes = 1 .. Len(nodes)
         /\ nodes[1] \in Lines /\ nodes[1] \in Seq(Int) /\ Len(nodes[1]) \in Nat \ {0}
         /\ Base(nodes[1]) \in Int
         /\ \A n \in DOMAIN nodes :
              /\ nodes[n] \in Lines /\ nodes[n] \in Seq(Int) /\ Len(nodes[n]) = Len(nodes[1])
              /\ \A j \in 1 .. Len(nodes[1]) - 1 : nodes[n][j] = nodes[1][j]
              /\ Base(nodes[n]) \in Int /\ Base(nodes[1]) <= Base(nodes[n])
              /\ n # 1 => Base(nodes[1]) < Base(nodes[n])
<1>1. nodes \in Seq(Lines) /\ Len(nodes) \in Nat \ {0} /\ DOMAIN nodes = 1 .. Len(nodes)
  <2>1. nodes \in Seq(Lines)
    BY DEF Siblings
  <2>. QED  BY <2>1, EmptySeq, LenProperties
<1>2. 1 \in DOMAIN nodes
  BY <1>1
<1>3. ASSUME NEW n \in DOMAIN nodes
      PROVE  /\ nodes[n] \in Lines /\ nodes[n] \in Seq(Int) /\ nodes[n] # << >>
             /\ Len(nodes[n]) \in Nat \ {0} /\ Base(nodes[n]) \in Int
  <2>1. nodes[n] \in Lines
    BY <1>1, <1>3, ElementOfSeq
  <2>. QED  BY <2>1, DiskFacts, Directory
<1>4. ASSUME NEW n \in DOMAIN nodes
      PROVE  /\ Len(nodes[n]) = Len(nodes[1])
             /\ \A j \in 1 .. Len(nodes[1]) - 1 : nodes[n][j] = nodes[1][j]
             /\ Base(nodes[1]) <= Base(nodes[n])
             /\ n # 1 => Base(nodes[1]) < Base(nodes[n])
  <2>1. In(nodes[n]) = In(nodes[1])
    BY <1>2 DEF Siblings
  <2>2. Len(nodes[n]) = Len(nodes[1]) /\ \A j \in 1 .. Len(nodes[1]) - 1 : nodes[n][j] = nodes[1][j]
    BY <1>2, <1>3, <2>1, SameDirectory
  <2>3. n # 1 => Base(nodes[1]) < Base(nodes[n])
    <3>1. n # 1 => 1 < n
      BY <1>1
    <3>. QED  BY <1>2, <3>1 DEF Siblings
  <2>. QED  BY <1>2, <1>3, <2>2, <2>3
<1>. QED  BY <1>1, <1>2, <1>3, <1>4

\* The first node comes before all that the nodes lead to
LEMMA HeadFirst ==
  ASSUME disk \in Disks, NEW nodes, Siblings(nodes), nodes # << >>,
         NEW n \in DOMAIN nodes, NEW q \in Lines, Starts(nodes[n], q)
  PROVE  q # nodes[1] \/ n # 1 => Before(nodes[1], q)
<1>. DEFINE h == nodes[1]
            m == nodes[n]
<1>1. h \in Seq(Int) /\ m \in Seq(Int) /\ q \in Seq(Int) /\ Len(h) \in Nat \ {0} /\ Len(m) = Len(h)
  BY SiblingFacts, DiskFacts
<1>2. \A j \in 1 .. Len(h) - 1 : m[j] = h[j]
  BY SiblingFacts
<1>3. Len(m) <= Len(q) /\ \A j \in 1 .. Len(m) : m[j] = q[j]
  BY <1>1, StartsByNames
<1>4. n # 1 => h[Len(h)] < m[Len(h)]
  BY <1>1, SiblingFacts DEF Base
<1>5. n = 1 => m = h
  OBVIOUS
<1>. HIDE DEF h, m
<1>6. CASE n # 1
  <2>1. Len(h) \in 1 .. Len(h) /\ Len(h) <= Len(q) /\ h[Len(h)] < q[Len(h)]
    BY <1>1, <1>3, <1>4, <1>6
  <2>2. \A j \in 1 .. Len(h) - 1 : h[j] = q[j]
    BY <1>1, <1>2, <1>3
  <2>3. Before(h, q)
    BY <1>1, <2>1, <2>2, BeforeByNames
  <2>. QED  BY <2>3 DEF h
<1>7. CASE n = 1 /\ q # h
  <2>1. Len(h) # Len(q)
    BY <1>1, <1>3, <1>5, <1>7, SeqEqual
  <2>2. Len(h) < Len(q) /\ \A j \in 1 .. Len(h) : h[j] = q[j]
    BY <1>1, <1>3, <1>5, <1>7, <2>1
  <2>3. Before(h, q)
    BY <1>1, <2>2, BeforeByNames
  <2>. QED  BY <2>3 DEF h
<1>. QED  BY <1>6, <1>7 DEF h

\* What is inside a directory beside them comes before it, too
LEMMA InsideFirst ==
  ASSUME disk \in Disks, NEW nodes, Siblings(nodes), nodes # << >>,
         NEW h \in Lines, Inside(h, nodes[1]),
         NEW n \in DOMAIN nodes, NEW q \in Lines, Starts(nodes[n], q)
  PROVE  Before(h, q)
<1>. DEFINE a == nodes[1]
            m == nodes[n]
            d == Len(a)
<1>1. /\ h \in Seq(Int) /\ a \in Seq(Int) /\ m \in Seq(Int) /\ q \in Seq(Int)
      /\ d \in Nat \ {0} /\ Len(m) = d /\ a # << >> /\ Len(h) \in Nat
  <2>1. a \in Lines /\ m \in Seq(Int) /\ d \in Nat \ {0} /\ Len(m) = d
    BY SiblingFacts
  <2>2. h \in Seq(Int) /\ a \in Seq(Int) /\ q \in Seq(Int) /\ a # << >>
    BY <2>1, DiskFacts
  <2>. QED  BY <2>1, <2>2
<1>2. /\ \A j \in 1 .. d - 1 : m[j] = a[j]
      /\ a[d] \in Int /\ m[d] \in Int /\ a[d] <= m[d]
  BY <1>1, SiblingFacts DEF Base
<1>3. d <= Len(q) /\ \A j \in 1 .. d : m[j] = q[j]
  BY <1>1, StartsByNames
<1>4. d < Len(h) /\ h[d] < a[d] /\ \A j \in 1 .. d - 1 : h[j] = a[j]
  <2>1. d < Len(h) /\ In(a) = SubSeq(h, 1, d - 1) /\ h[d] < a[d]
    BY DEF Inside, Base
  <2>2. \A j \in 1 .. d - 1 : In(a)[j] = a[j]
    BY <1>1, Directory
  <2>3. \A j \in 1 .. d - 1 : SubSeq(h, 1, d - 1)[j] = h[j]
    <3>1. d - 1 \in 0 .. Len(h)
      BY <1>1, <2>1
    <3>. QED  BY <1>1, <3>1, StartOfPath
  <2>. QED  BY <2>1, <2>2, <2>3
<1>. HIDE DEF a, m, d
<1>5. d \in 1 .. Len(h) /\ h[d] < q[d] /\ \A j \in 1 .. d - 1 : h[j] = q[j]
  <2>1. d \in 1 .. Len(h) /\ h[d] \in Int /\ q[d] = m[d]
    <3>1. d \in Nat \ {0} /\ h \in Seq(Int) /\ d < Len(h)
      BY <1>1, <1>4
    <3>2. d \in 1 .. Len(h) /\ d \in 1 .. d
      BY <3>1
    <3>3. h[d] \in Int
      BY <3>1, <3>2
    <3>4. q[d] = m[d]
      BY <1>3, <3>2
    <3>. QED  BY <3>2, <3>3, <3>4
  <2>2. ASSUME NEW j \in 1 .. d - 1 PROVE h[j] = q[j]
    <3>1. j \in 1 .. d
      BY <1>1
    <3>. QED  BY <1>2, <1>3, <1>4, <3>1
  <2>. QED  BY <1>2, <1>4, <2>1, <2>2
<1>. QED  BY <1>1, <1>3, <1>5, BeforeByNames

\* Inside depends on the directory of the second alone
LEMMA InsideBeside ==
  ASSUME NEW p \in Seq(Int), NEW q \in Seq(Int), NEW a \in Seq(Int), a # << >>,
         p # << >>, q # << >>, Inside(p, a), In(q) = In(p)
  PROVE  Inside(q, a)
<1>1. /\ Len(a) \in Nat \ {0} /\ Len(p) \in Nat \ {0} /\ Len(q) = Len(p)
      /\ \A j \in 1 .. Len(p) - 1 : p[j] = q[j]
  BY Directory, SameDirectory
<1>2. Len(a) < Len(p) /\ In(a) = SubSeq(p, 1, Len(a) - 1) /\ p[Len(a)] < Base(a)
  BY DEF Inside
<1>3. SubSeq(p, 1, Len(a) - 1) = SubSeq(q, 1, Len(a) - 1)
  <2>1. /\ Len(a) - 1 \in 0 .. Len(p) /\ Len(a) - 1 <= Len(q)
        /\ \A j \in 1 .. Len(a) - 1 : p[j] = q[j]
    BY <1>1, <1>2
  <2>. QED  BY <2>1, SameStart
<1>4. q[Len(a)] = p[Len(a)]
  <2>1. Len(a) \in 1 .. Len(p) - 1
    BY <1>1, <1>2
  <2>. QED  BY <1>1, <2>1
<1>. QED  BY <1>1, <1>2, <1>3, <1>4 DEF Inside

\* What is in a directory p is inside of what p is inside of
LEMMA InsideDeeper ==
  ASSUME NEW p \in Seq(Int), NEW c \in Seq(Int), NEW a \in Seq(Int), a # << >>,
         c # << >>, In(c) = p, Inside(p, a)
  PROVE  Inside(c, a)
<1>1. Len(a) \in Nat \ {0} /\ Len(p) \in Nat /\ Len(p) = Len(c) - 1
  <2>1. Len(a) \in Nat \ {0}
    BY Directory
  <2>2. Len(In(c)) = Len(c) - 1
    BY Directory
  <2>. QED  BY <2>1, <2>2
<1>2. Len(a) < Len(p) /\ In(a) = SubSeq(p, 1, Len(a) - 1) /\ p[Len(a)] < Base(a)
  BY DEF Inside
<1>3. \A j \in 1 .. Len(p) : p[j] = c[j]
  BY <1>1, Directory
<1>4. SubSeq(p, 1, Len(a) - 1) = SubSeq(c, 1, Len(a) - 1)
  <2>1. Len(a) - 1 \in 0 .. Len(p) /\ Len(a) - 1 <= Len(c)
    <3>. DEFINE m == Len(a)
                k == Len(p)
                l == Len(c)
    <3>1. m \in Nat \ {0} /\ k \in Nat /\ l \in Nat /\ k = l - 1 /\ m < k
      BY <1>1, <1>2
    <3>. HIDE DEF m, k, l
    <3>2. m - 1 \in 0 .. k /\ m - 1 <= l
      BY <3>1
    <3>. QED  BY <3>2 DEF m, k, l
  <2>2. ASSUME NEW j \in 1 .. Len(a) - 1 PROVE p[j] = c[j]
    <3>1. j \in 1 .. Len(p)
      BY <1>1, <1>2
    <3>. QED  BY <1>3, <3>1
  <2>. QED  BY <2>1, <2>2, SameStart
<1>5. c[Len(a)] = p[Len(a)] /\ Len(a) < Len(c)
  <2>. DEFINE m == Len(a)
              k == Len(p)
              l == Len(c)
  <2>1. m \in Nat \ {0} /\ k \in Nat /\ l \in Nat /\ k = l - 1 /\ m < k
    BY <1>1, <1>2
  <2>2. \A j \in 1 .. k : p[j] = c[j]
    BY <1>3
  <2>. HIDE DEF m, k, l
  <2>3. m \in 1 .. k /\ m < l
    BY <2>1
  <2>4. c[m] = p[m] /\ m < l
    BY <2>2, <2>3
  <2>. QED  BY <2>4 DEF m, k, l
<1>. QED  BY <1>2, <1>4, <1>5 DEF Inside

LEMMA TailOfSiblings ==
  ASSUME disk \in Disks, NEW nodes, Siblings(nodes), nodes # << >>, Len(nodes) # 1
  PROVE  /\ Siblings(Tail(nodes)) /\ Tail(nodes) # << >> /\ DOMAIN Tail(nodes) = 1 .. Len(nodes) - 1
         /\ \A n \in 1 .. Len(nodes) - 1 : Tail(nodes)[n] = nodes[n + 1]
         /\ In(Tail(nodes)[1]) = In(nodes[1]) /\ Base(nodes[1]) < Base(Tail(nodes)[1])
<1>. DEFINE rest == Tail(nodes)
<1>1. nodes \in Seq(Lines) /\ Len(nodes) \in Nat \ {0, 1} /\ DOMAIN nodes = 1 .. Len(nodes)
  BY SiblingFacts
<1>2. /\ rest \in Seq(Lines) /\ Len(rest) = Len(nodes) - 1
      /\ \A n \in 1 .. Len(nodes) - 1 : rest[n] = nodes[n + 1]
  <2>1. /\ rest \in Seq(Lines) /\ Len(rest) = Len(nodes) - 1
        /\ \A n \in 1 .. Len(rest) : rest[n] = nodes[n + 1]
    BY <1>1, HeadTailProperties
  <2>. QED  BY <2>1
<1>. HIDE DEF rest
<1>3. DOMAIN rest = 1 .. Len(nodes) - 1 /\ rest # << >>
  <2>1. DOMAIN rest = 1 .. Len(rest)
    BY <1>2, LenProperties
  <2>. QED  BY <1>1, <1>2, <2>1
<1>4. \A n \in 1 .. Len(nodes) - 1 : n + 1 \in DOMAIN nodes
  BY <1>1
<1>5. 1 \in DOMAIN rest /\ 1 \in DOMAIN nodes /\ rest[1] = nodes[2] /\ 2 \in DOMAIN nodes
  BY <1>1, <1>2, <1>3
<1>6. \A j, k \in DOMAIN rest : /\ In(rest[j]) = In(rest[k])
                                /\ j < k => Base(rest[j]) < Base(rest[k])
  <2>. SUFFICES ASSUME NEW j \in DOMAIN rest, NEW k \in DOMAIN rest
                PROVE  /\ In(rest[j]) = In(rest[k])
                       /\ j < k => Base(rest[j]) < Base(rest[k])
    OBVIOUS
  <2>1. j + 1 \in DOMAIN nodes /\ k + 1 \in DOMAIN nodes /\ (j < k => j + 1 < k + 1)
    BY <1>1, <1>3
  <2>2. rest[j] = nodes[j + 1] /\ rest[k] = nodes[k + 1]
    BY <1>2, <1>3
  <2>. QED  BY <2>1, <2>2 DEF Siblings
<1>7. In(rest[1]) = In(nodes[1]) /\ Base(nodes[1]) < Base(rest[1])
  <2>1. 1 < 2
    OBVIOUS
  <2>. QED  BY <1>5, <2>1 DEF Siblings
<1>8. ASSUME NEW p \in Lines, In(p) = In(rest[1]), Base(p) >= Base(rest[1])
      PROVE  \E k \in DOMAIN rest : rest[k] = p
  <2>1. Base(p) \in Int /\ Base(nodes[1]) \in Int /\ Base(rest[1]) \in Int
    BY <1>5, SiblingFacts, DiskFacts, Directory
  <2>2. In(p) = In(nodes[1]) /\ Base(p) >= Base(nodes[1]) /\ Base(p) # Base(nodes[1])
    BY <1>7, <1>8, <2>1
  <2>3. PICK k \in DOMAIN nodes : nodes[k] = p
    BY <2>2 DEF Siblings
  <2>4. k # 1
    BY <2>2, <2>3
  <2>5. k - 1 \in DOMAIN rest /\ rest[k - 1] = nodes[(k - 1) + 1] /\ (k - 1) + 1 = k
    BY <1>1, <1>2, <1>3, <2>4
  <2>. QED  BY <2>3, <2>5
<1>9. Siblings(rest)
  BY <1>2, <1>6, <1>8 DEF Siblings
<1>. QED  BY <1>2, <1>3, <1>7, <1>9 DEF rest

\* Only the last node of a directory has a corner
LEMMA LastOfSiblings ==
  ASSUME disk \in Disks, NEW nodes, Siblings(nodes), nodes # << >>
  PROVE  LastShown(nodes[1]) <=> Len(nodes) = 1
<1>1. Len(nodes) \in Nat \ {0} /\ DOMAIN nodes = 1 .. Len(nodes) /\ Base(nodes[1]) \in Int
  BY SiblingFacts
<1>2. CASE Len(nodes) = 1
  <2>1. ASSUME NEW q \in DOMAIN disk, Shown(q), In(q) = In(nodes[1]), Base(q) > Base(nodes[1])
        PROVE  FALSE
    <3>1. q \in Lines
      BY <2>1 DEF Lines
    <3>2. Base(q) \in Int
      BY <3>1, DiskFacts, Directory
    <3>3. \E k \in DOMAIN nodes : nodes[k] = q
      BY <1>1, <2>1, <3>1, <3>2 DEF Siblings
    <3>4. q = nodes[1]
      BY <1>1, <1>2, <3>3
    <3>. QED  BY <1>1, <2>1, <3>4
  <2>. QED  BY <1>2, <2>1 DEF LastShown
<1>3. CASE Len(nodes) # 1
  <2>. DEFINE q == nodes[2]
  <2>1. 1 \in DOMAIN nodes /\ 2 \in DOMAIN nodes /\ 1 < 2
    BY <1>1, <1>3
  <2>2. q \in Lines /\ In(q) = In(nodes[1]) /\ Base(nodes[1]) < Base(q) /\ Base(q) \in Int
    <3>1. q \in Lines /\ Base(q) \in Int
      BY <2>1, SiblingFacts
    <3>2. In(q) = In(nodes[1]) /\ Base(nodes[1]) < Base(q)
      BY <2>1 DEF Siblings
    <3>. QED  BY <3>1, <3>2
  <2>3. q \in DOMAIN disk /\ Shown(q) /\ Base(q) > Base(nodes[1])
    BY <1>1, <2>2 DEF Lines
  <2>. QED  BY <1>3, <2>2, <2>3 DEF LastShown
<1>. QED  BY <1>2, <1>3

-----------------------------------------------------------------------------
(* Prefixes.                                                               *)

LEMMA IndentFacts ==
  ASSUME NEW p \in Seq(Int), p # << >>
  PROVE  /\ Indent(p) \in Seq(Marks) /\ Len(Indent(p)) = Len(p) - 1 /\ Len(p) - 1 \in Nat
         /\ \A k \in 1 .. Len(p) - 1 :
              Indent(p)[k] = IF LastShown(SubSeq(p, 1, k)) THEN Tab ELSE Bar
<1>1. Len(p) - 1 \in Nat
  BY Directory
<1>. QED  BY <1>1 DEF Indent, Marks

LEMMA IndentBeside ==
  ASSUME NEW p \in Seq(Int), NEW q \in Seq(Int), p # << >>, q # << >>, In(p) = In(q)
  PROVE  Indent(p) = Indent(q)
<1>1. Len(p) = Len(q) /\ Len(p) \in Nat \ {0} /\ \A j \in 1 .. Len(p) - 1 : p[j] = q[j]
  BY SameDirectory, Directory
<1>2. ASSUME NEW k \in 1 .. Len(p) - 1 PROVE SubSeq(p, 1, k) = SubSeq(q, 1, k)
  <2>1. k \in 0 .. Len(p) /\ k <= Len(q) /\ \A j \in 1 .. k : p[j] = q[j]
    BY <1>1
  <2>. QED  BY <2>1, SameStart
<1>3. \A k \in 1 .. Len(p) - 1 : Indent(p)[k] = Indent(q)[k]
  <2>. SUFFICES ASSUME NEW k \in 1 .. Len(p) - 1 PROVE Indent(p)[k] = Indent(q)[k]
    OBVIOUS
  <2>1. Indent(p)[k] = IF LastShown(SubSeq(p, 1, k)) THEN Tab ELSE Bar
    BY IndentFacts
  <2>2. Indent(q)[k] = IF LastShown(SubSeq(q, 1, k)) THEN Tab ELSE Bar
    <3>1. k \in 1 .. Len(q) - 1
      BY <1>1
    <3>. QED  BY <3>1, IndentFacts
  <2>3. SubSeq(p, 1, k) = SubSeq(q, 1, k)
    BY <1>2
  <2>. DEFINE a == SubSeq(p, 1, k)
              b == SubSeq(q, 1, k)
  <2>4. a = b /\ Indent(p)[k] = (IF LastShown(a) THEN Tab ELSE Bar)
        /\ Indent(q)[k] = (IF LastShown(b) THEN Tab ELSE Bar)
    BY <2>1, <2>2, <2>3
  <2>. HIDE DEF a, b
  <2>. QED  BY <2>4
<1>4. /\ Indent(p) \in Seq(Marks) /\ Len(Indent(p)) = Len(p) - 1
      /\ Indent(q) \in Seq(Marks) /\ Len(Indent(q)) = Len(q) - 1
  BY IndentFacts
<1>. QED  BY <1>1, <1>3, <1>4, SeqEqual

LEMMA IndentDeeper ==
  ASSUME NEW h \in Seq(Int), h # << >>, NEW c \in Seq(Int), c # << >>, In(c) = h
  PROVE  Indent(c) = Append(Indent(h), IF LastShown(h) THEN Tab ELSE Bar)
<1>. DEFINE x == IF LastShown(h) THEN Tab ELSE Bar
            longer == Append(Indent(h), x)
<1>1. Len(h) \in Nat \ {0} /\ Len(c) = Len(h) + 1
  BY Directory
<1>2. /\ Indent(h) \in Seq(Marks) /\ Len(Indent(h)) = Len(h) - 1
      /\ \A k \in 1 .. Len(h) - 1 :
           Indent(h)[k] = IF LastShown(SubSeq(h, 1, k)) THEN Tab ELSE Bar
  BY IndentFacts
<1>3. /\ Indent(c) \in Seq(Marks) /\ Len(Indent(c)) = Len(h)
      /\ \A k \in 1 .. Len(h) :
           Indent(c)[k] = IF LastShown(SubSeq(c, 1, k)) THEN Tab ELSE Bar
  <2>1. Len(c) - 1 = Len(h)
    BY <1>1
  <2>. QED  BY <2>1, IndentFacts
<1>4. x \in Marks
  BY DEF Marks
<1>. HIDE DEF x
<1>5. /\ longer \in Seq(Marks) /\ Len(longer) = Len(h) /\ longer[Len(h)] = x
      /\ \A k \in 1 .. Len(h) - 1 : longer[k] = Indent(h)[k]
  <2>. DEFINE i == Indent(h)
  <2>1. i \in Seq(Marks) /\ Len(i) = Len(h) - 1
    BY <1>2
  <2>. HIDE DEF i
  <2>2. /\ Append(i, x) \in Seq(Marks) /\ Len(Append(i, x)) = Len(h) /\ Append(i, x)[Len(h)] = x
        /\ \A k \in 1 .. Len(h) - 1 : Append(i, x)[k] = i[k]
    BY <1>1, <1>4, <2>1
  <2>. QED  BY <2>2 DEF i
<1>6. SubSeq(c, 1, Len(h)) = h
  BY <1>1 DEF In
<1>7. ASSUME NEW k \in 1 .. Len(h) PROVE SubSeq(c, 1, k) = SubSeq(h, 1, k)
  <2>1. Len(h) \in 0 .. Len(c) /\ k \in 0 .. Len(h)
    BY <1>1
  <2>2. SubSeq(SubSeq(c, 1, Len(h)), 1, k) = SubSeq(c, 1, k)
    BY <2>1, StartOfStart
  <2>. QED  BY <1>6, <2>2
<1>. HIDE DEF longer
<1>8. ASSUME NEW k \in 1 .. Len(h) PROVE Indent(c)[k] = longer[k]
  <2>1. CASE k = Len(h)
    BY <1>3, <1>5, <1>6, <2>1 DEF x
  <2>2. CASE k # Len(h)
    <3>1. k \in 1 .. Len(h) - 1
      BY <1>1, <2>2
    <3>. QED  BY <1>2, <1>3, <1>5, <1>7, <3>1
  <2>. QED  BY <2>1, <2>2
<1>9. Indent(c) = longer
  BY <1>3, <1>5, <1>8, SeqEqual
<1>. QED  BY <1>9 DEF longer, x

\* The start of a sequence that is one longer
LEMMA StartAppended ==
  ASSUME NEW S, NEW q \in Seq(S), NEW r \in Seq(S), NEW n \in Nat, n < Len(q), n <= Len(r),
         \A j \in 1 .. n : q[j] = r[j]
  PROVE  SubSeq(q, 1, n + 1) = Append(SubSeq(r, 1, n), q[n + 1])
<1>. DEFINE s == SubSeq(r, 1, n)
            x == q[n + 1]
<1>1. s \in Seq(S) /\ Len(s) = n /\ x \in S /\ \A j \in 1 .. n : s[j] = r[j]
  OBVIOUS
<1>2. /\ SubSeq(q, 1, n + 1) \in Seq(S) /\ Len(SubSeq(q, 1, n + 1)) = n + 1
      /\ \A j \in 1 .. n + 1 : SubSeq(q, 1, n + 1)[j] = q[j]
  OBVIOUS
<1>3. SubSeq(q, 1, n + 1)[n + 1] = x
  BY <1>2
<1>. HIDE DEF s, x
<1>4. /\ Append(s, x) \in Seq(S) /\ Len(Append(s, x)) = n + 1
      /\ \A j \in 1 .. n : Append(s, x)[j] = s[j]
      /\ Append(s, x)[n + 1] = x
  BY <1>1
<1>5. ASSUME NEW j \in 1 .. n + 1 PROVE SubSeq(q, 1, n + 1)[j] = Append(s, x)[j]
  <2>1. CASE j = n + 1
    BY <1>3, <1>4, <2>1
  <2>2. CASE j # n + 1
    <3>1. j \in 1 .. n
      BY <2>2
    <3>. QED  BY <1>1, <1>2, <1>4, <3>1
  <2>. QED  BY <2>1, <2>2
<1>6. SubSeq(q, 1, n + 1) = Append(s, x)
  BY <1>2, <1>4, <1>5, SeqEqual
<1>. QED  BY <1>6 DEF s, x

\* append: the slice that it returns has one prefix more, and no slice that is not
\* longer than its argument changes
LEMMA AppendToKeeps ==
  ASSUME arrays \in Seq(Seq(Marks)), NEW s \in [array : Nat, len : Nat],
         s.array \in DOMAIN arrays, s.len \in 0 .. Len(arrays[s.array]),
         NEW x \in Marks, NEW spare \in Nat, AppendTo(s, x, spare)
  PROVE  /\ arrays' \in Seq(Seq(Marks))
         /\ Appended(s) \in [array : Nat, len : Nat]
         /\ Appended(s).array \in DOMAIN arrays' /\ Appended(s).len = s.len + 1
         /\ Appended(s).len \in 0 .. Len(arrays'[Appended(s).array])
         /\ SubSeq(arrays'[Appended(s).array], 1, Appended(s).len) = Append(Join(s), x)
         /\ \A t \in [array : Nat, len : Nat] :
              t.array \in DOMAIN arrays /\ t.len \in 0 .. Len(arrays[t.array]) =>
                /\ t.array \in DOMAIN arrays' /\ t.len \in 0 .. Len(arrays'[t.array])
                /\ t.len <= s.len => SubSeq(arrays'[t.array], 1, t.len) = Join(t)
<1>. DEFINE a == s.array
            n == s.len
            old == arrays[a]
<1>1. /\ old \in Seq(Marks) /\ n \in Nat /\ n <= Len(old) /\ Len(old) \in Nat /\ a \in Nat
      /\ DOMAIN arrays = 1 .. Len(arrays) /\ Len(arrays) \in Nat
  BY LenProperties
<1>2. CASE n < Len(old)
  <2>. DEFINE new == [old EXCEPT ![n + 1] = x]
  <2>1. /\ new \in Seq(Marks) /\ Len(new) = Len(old) /\ new[n + 1] = x
        /\ \A j \in 1 .. Len(old) : j # n + 1 => new[j] = old[j]
    BY <1>1, <1>2
  <2>2. arrays' = [arrays EXCEPT ![a] = new]
    BY <1>2 DEF AppendTo
  <2>. HIDE DEF new
  <2>3. /\ arrays' \in Seq(Seq(Marks)) /\ DOMAIN arrays' = DOMAIN arrays /\ arrays'[a] = new
        /\ \A j \in DOMAIN arrays : j # a => arrays'[j] = arrays[j]
    BY <2>1, <2>2
  <2>4. Appended(s) = [array |-> a, len |-> n + 1]
    BY <1>2 DEF Appended
  <2>5. SubSeq(new, 1, n + 1) = Append(SubSeq(old, 1, n), x)
    <3>1. n < Len(new) /\ n <= Len(old) /\ \A j \in 1 .. n : new[j] = old[j]
      <4>. DEFINE l == Len(old)
      <4>1. n \in Nat /\ l \in Nat /\ n < l
        BY <1>1, <1>2
      <4>2. \A j \in 1 .. l : j # n + 1 => new[j] = old[j]
        BY <2>1
      <4>. HIDE DEF l
      <4>3. \A j \in 1 .. n : j \in 1 .. l /\ j # n + 1
        BY <4>1
      <4>4. \A j \in 1 .. n : new[j] = old[j]
        BY <4>2, <4>3
      <4>. QED  BY <1>1, <1>2, <2>1, <4>4
    <3>. QED  BY <1>1, <2>1, <3>1, StartAppended
  <2>6. ASSUME NEW t \in [array : Nat, len : Nat], t.array \in DOMAIN arrays,
               t.len \in 0 .. Len(arrays[t.array])
        PROVE  /\ t.array \in DOMAIN arrays' /\ t.len \in 0 .. Len(arrays'[t.array])
               /\ t.len <= s.len => SubSeq(arrays'[t.array], 1, t.len) = Join(t)
    <3>1. CASE t.array # a
      BY <2>3, <2>6, <3>1 DEF Join
    <3>2. CASE t.array = a
      <4>1. t.len \in 0 .. Len(new) /\ arrays'[t.array] = new /\ t.len \in 0 .. Len(old)
        BY <2>1, <2>3, <2>6, <3>2
      <4>2. ASSUME t.len <= n PROVE SubSeq(new, 1, t.len) = SubSeq(old, 1, t.len)
        <5>1. \A j \in 1 .. t.len : new[j] = old[j]
          BY <1>1, <2>1, <4>1, <4>2
        <5>. QED  BY <1>1, <2>1, <4>1, <5>1
      <4>. QED  BY <2>3, <3>2, <4>1, <4>2 DEF Join
    <3>. QED  BY <3>1, <3>2
  <2>. DEFINE s1 == Appended(s)
  <2>7. /\ s1 \in [array : Nat, len : Nat] /\ s1.array \in DOMAIN arrays' /\ s1.len = n + 1
        /\ s1.len \in 0 .. Len(arrays'[s1.array]) /\ arrays'[s1.array] = new
    BY <1>1, <1>2, <2>1, <2>3, <2>4
  <2>8. SubSeq(arrays'[s1.array], 1, s1.len) = Append(Join(s), x)
    BY <2>5, <2>7 DEF Join
  <2>. HIDE DEF s1
  <2>9. arrays' \in Seq(Seq(Marks))
    BY <2>3
  <2>. QED  BY <2>6, <2>7, <2>8, <2>9 DEF s1
<1>3. CASE ~ (n < Len(old))
  <2>. DEFINE start == SubSeq(old, 1, n)
              one == <<x>>
              free == [k \in 1 .. spare |-> Blank]
              new == start \o one \o free
  <2>1. start \in Seq(Marks) /\ Len(start) = n
    BY <1>1
  <2>2. one \in Seq(Marks) /\ Len(one) = 1 /\ one[1] = x
    OBVIOUS
  <2>3. free \in Seq(Marks) /\ Len(free) = spare
    BY DEF Marks
  <2>4. arrays' = Append(arrays, new)
    BY <1>3 DEF AppendTo
  <2>. HIDE DEF start, one, free
  <2>5. /\ start \o one \in Seq(Marks) /\ Len(start \o one) = n + 1
        /\ \A j \in 1 .. n : (start \o one)[j] = start[j]
        /\ (start \o one)[n + 1] = x
    <3>1. /\ start \o one \in Seq(Marks) /\ Len(start \o one) = n + 1
          /\ \A j \in 1 .. n + 1 : (start \o one)[j] = IF j <= n THEN start[j] ELSE one[j - n]
      <4>1. /\ start \o one \in Seq(Marks) /\ Len(start \o one) = Len(start) + Len(one)
            /\ \A j \in 1 .. Len(start) + Len(one) :
                 (start \o one)[j] = IF j <= Len(start) THEN start[j] ELSE one[j - Len(start)]
        BY <2>1, <2>2, ConcatProperties
      <4>. QED  BY <2>1, <2>2, <4>1
    <3>2. n + 1 \in 1 .. n + 1 /\ ~ (n + 1 <= n) /\ (n + 1) - n = 1
      BY <1>1
    <3>3. \A j \in 1 .. n : j \in 1 .. n + 1 /\ j <= n
      BY <1>1
    <3>4. \A j \in 1 .. n : (start \o one)[j] = start[j]
      BY <3>1, <3>3
    <3>5. (start \o one)[n + 1] = x
      <4>1. (start \o one)[n + 1] = one[(n + 1) - n]
        BY <3>1, <3>2
      <4>. QED  BY <2>2, <3>2, <4>1
    <3>. QED  BY <3>1, <3>4, <3>5
  <2>. DEFINE first == start \o one
  <2>. HIDE DEF first
  <2>6. /\ new \in Seq(Marks) /\ Len(new) = n + 1 + spare
        /\ \A j \in 1 .. n + 1 : new[j] = first[j]
    <3>1. first \in Seq(Marks) /\ Len(first) = n + 1 /\ new = first \o free
      BY <2>5 DEF first
    <3>2. /\ first \o free \in Seq(Marks) /\ Len(first \o free) = n + 1 + spare
          /\ \A j \in 1 .. n + 1 + spare :
               (first \o free)[j] = IF j <= n + 1 THEN first[j] ELSE free[j - (n + 1)]
      <4>1. /\ first \o free \in Seq(Marks) /\ Len(first \o free) = Len(first) + Len(free)
            /\ \A j \in 1 .. Len(first) + Len(free) :
                 (first \o free)[j] = IF j <= Len(first) THEN first[j] ELSE free[j - Len(first)]
        BY <2>3, <3>1, ConcatProperties
      <4>. QED  BY <2>3, <3>1, <4>1
    <3>3. \A j \in 1 .. n + 1 : j \in 1 .. n + 1 + spare /\ j <= n + 1
      BY <1>1
    <3>. QED  BY <3>1, <3>2, <3>3
  <2>. HIDE DEF new
  <2>7. /\ arrays' \in Seq(Seq(Marks)) /\ Len(arrays') = Len(arrays) + 1
        /\ arrays'[Len(arrays) + 1] = new /\ \A j \in DOMAIN arrays : arrays'[j] = arrays[j]
        /\ DOMAIN arrays' = 1 .. Len(arrays) + 1
    BY <2>4, <2>6
  <2>8. Appended(s) = [array |-> Len(arrays) + 1, len |-> n + 1]
    BY <1>3 DEF Appended
  <2>9. SubSeq(new, 1, n + 1) = Append(start, x)
    <3>1. (\A j \in 1 .. n : first[j] = start[j]) /\ first[n + 1] = x
      BY <2>5 DEF first
    <3>2. ASSUME NEW j \in 1 .. n PROVE new[j] = start[j]
      <4>1. j \in 1 .. n + 1
        BY <1>1
      <4>. QED  BY <2>6, <3>1, <4>1
    <3>3. n < Len(new) /\ new[n + 1] = x
      <4>1. n \in Nat /\ spare \in Nat /\ Len(new) = n + 1 + spare
        BY <1>1, <2>6
      <4>2. n < n + 1 + spare /\ n + 1 \in 1 .. n + 1
        BY <4>1
      <4>3. new[n + 1] = first[n + 1]
        BY <2>6, <4>2
      <4>. QED  BY <3>1, <4>1, <4>2, <4>3
    <3>4. SubSeq(start, 1, n) = start
      BY <2>1
    <3>5. /\ new \in Seq(Marks) /\ start \in Seq(Marks) /\ n \in Nat /\ n <= Len(start)
          /\ \A j \in 1 .. n : new[j] = start[j]
      BY <1>1, <2>1, <2>6, <3>2
    <3>6. SubSeq(new, 1, n + 1) = Append(SubSeq(start, 1, n), new[n + 1])
      BY <3>3, <3>5, StartAppended
    <3>. QED  BY <3>3, <3>4, <3>6
  <2>10. ASSUME NEW t \in [array : Nat, len : Nat], t.array \in DOMAIN arrays,
                t.len \in 0 .. Len(arrays[t.array])
         PROVE  /\ t.array \in DOMAIN arrays' /\ t.len \in 0 .. Len(arrays'[t.array])
                /\ t.len <= s.len => SubSeq(arrays'[t.array], 1, t.len) = Join(t)
    <3>1. arrays'[t.array] = arrays[t.array]
      BY <2>7, <2>10
    <3>2. t.array \in DOMAIN arrays'
      <4>. DEFINE l == Len(arrays)
      <4>1. t.array \in 1 .. l /\ l \in Nat
        BY <1>1, <2>10
      <4>. HIDE DEF l
      <4>2. t.array \in 1 .. l + 1
        BY <4>1
      <4>. QED  BY <2>7, <4>2 DEF l
    <3>. QED  BY <2>10, <3>1, <3>2 DEF Join
  <2>11. Join(s) = start
    BY DEF Join, start
  <2>12. Len(new) \in Nat /\ n + 1 \in 0 .. Len(new) /\ Len(arrays) + 1 \in DOMAIN arrays'
    <3>1. n \in Nat /\ spare \in Nat /\ Len(new) = n + 1 + spare
      BY <1>1, <2>6
    <3>2. Len(new) \in Nat /\ n + 1 \in 0 .. Len(new)
      BY <3>1
    <3>. DEFINE l == Len(arrays)
    <3>3. l \in Nat /\ DOMAIN arrays' = 1 .. l + 1
      BY <1>1, <2>7
    <3>. HIDE DEF l
    <3>4. l + 1 \in DOMAIN arrays'
      BY <3>3
    <3>. QED  BY <3>2, <3>4 DEF l
  <2>. DEFINE s1 == Appended(s)
  <2>13. /\ s1 \in [array : Nat, len : Nat] /\ s1.array \in DOMAIN arrays' /\ s1.len = n + 1
         /\ s1.len \in 0 .. Len(arrays'[s1.array]) /\ arrays'[s1.array] = new
    BY <1>1, <2>7, <2>8, <2>12
  <2>14. SubSeq(arrays'[s1.array], 1, s1.len) = Append(Join(s), x)
    BY <2>9, <2>11, <2>13
  <2>. HIDE DEF s1
  <2>15. arrays' \in Seq(Seq(Marks))
    BY <2>7
  <2>. QED  BY <2>10, <2>13, <2>14, <2>15 DEF s1
<1>. QED  BY <1>2, <1>3

-----------------------------------------------------------------------------
(* The calls.                                                              *)

Leads(nodes, p) == \E n \in DOMAIN nodes : Starts(nodes[n], p)

LEMMA LeftByCalls == Left = {p \in Lines : \E i \in DOMAIN calls : Leads(calls[i].nodes, p)}
BY DEF Left, Leads, Starts

\* What the invariant says of the call that runs
LEMMA RunningCall ==
  ASSUME TreeIInv, treePc = "printing", calls # << >>
  PROVE  /\ disk \in Disks /\ withFiles \in BOOLEAN
         /\ tree = [path \in {p \in DOMAIN disk : disk[p].dir} |-> readDir(disk, path, withFiles)]
         /\ calls \in Seq(PrintCall) /\ Len(calls) \in Nat \ {0} /\ DOMAIN calls = 1 .. Len(calls)
         /\ Call = calls[Len(calls)] /\ Len(calls) \in DOMAIN calls
         /\ \A i \in DOMAIN calls : calls[i] \in PrintCall /\ Siblings(calls[i].nodes)
                                      /\ Prefixed(calls[i])
         /\ \A i \in 1 .. Len(calls) - 1 : calls[i].nodes # << >>
<1>1. /\ disk \in Disks /\ withFiles \in BOOLEAN
      /\ tree = [path \in {p \in DOMAIN disk : disk[p].dir} |-> readDir(disk, path, withFiles)]
      /\ calls \in Seq(PrintCall) /\ Nested
      /\ \A i \in DOMAIN calls : Siblings(calls[i].nodes) /\ Prefixed(calls[i])
  BY DEF TreeIInv
<1>2. Len(calls) \in Nat \ {0} /\ DOMAIN calls = 1 .. Len(calls)
  BY <1>1, EmptySeq, LenProperties
<1>3. Len(calls) \in DOMAIN calls
  BY <1>2
<1>4. \A i \in DOMAIN calls : calls[i] \in PrintCall
  BY <1>1, <1>2, ElementOfSeq
<1>5. ASSUME NEW i \in 1 .. Len(calls) - 1 PROVE calls[i].nodes # << >>
  <2>1. i \in DOMAIN calls /\ i < Len(calls)
    BY <1>2
  <2>. QED  BY <1>1, <1>3, <2>1 DEF Nested
<1>. QED  BY <1>1, <1>2, <1>3, <1>4, <1>5 DEF Call

\* The calls that are left when the first node is printed
LEMMA RestIs ==
  ASSUME TreeIInv, treePc = "printing", calls # << >>, Call.nodes # << >>
  PROVE  /\ Rest \in Seq(PrintCall) /\ DOMAIN Rest = 1 .. Len(Rest)
         /\ Len(Rest) = IF Len(Call.nodes) = 1 THEN Len(calls) - 1 ELSE Len(calls)
         /\ \A i \in 1 .. Len(calls) - 1 : Rest[i] = calls[i]
         /\ Len(Call.nodes) # 1 => /\ Rest[Len(calls)].nodes = Tail(Call.nodes)
                                   /\ Rest[Len(calls)].prefixes = Call.prefixes
<1>. DEFINE top == Len(calls)
<1>1. calls \in Seq(PrintCall) /\ top \in Nat \ {0} /\ Call = calls[top] /\ Call \in PrintCall
  BY RunningCall
<1>2. /\ Callers \in Seq(PrintCall) /\ Len(Callers) = top - 1
      /\ \A i \in 1 .. top - 1 : Callers[i] = calls[i]
  <2>1. top - 1 \in 0 .. Len(calls)
    BY <1>1
  <2>. QED  BY <1>1, <2>1, StartOf DEF Callers
<1>3. CASE Len(Call.nodes) = 1
  <2>1. Rest = Callers
    BY <1>3 DEF Rest
  <2>. QED  BY <1>1, <1>2, <1>3, <2>1, LenProperties
<1>4. CASE Len(Call.nodes) # 1
  <2>. DEFINE c == [Call EXCEPT !.nodes = Tail(Call.nodes)]
  <2>1. c \in PrintCall /\ c.nodes = Tail(Call.nodes) /\ c.prefixes = Call.prefixes
    <3>1. Call.nodes \in Seq(Seq(Int))
      BY <1>1 DEF PrintCall
    <3>2. Tail(Call.nodes) \in Seq(Seq(Int))
      BY <3>1, HeadTailProperties
    <3>. QED  BY <1>1, <3>2 DEF PrintCall
  <2>2. Rest = Append(Callers, c)
    BY <1>4 DEF Rest
  <2>. HIDE DEF c
  <2>3. /\ Rest \in Seq(PrintCall) /\ Len(Rest) = top /\ Rest[top] = c
        /\ \A i \in 1 .. top - 1 : Rest[i] = Callers[i]
    BY <1>1, <1>2, <2>1, <2>2
  <2>. QED  BY <1>1, <1>2, <1>4, <2>1, <2>3, LenProperties
<1>. QED  BY <1>3, <1>4

\* They have nodes, which are printed with the same prefixes as before; and what is in
\* the node just printed is inside them
LEMMA RestKeeps ==
  ASSUME TreeIInv, treePc = "printing", calls # << >>, Call.nodes # << >>,
         NEW i \in DOMAIN Rest
  PROVE  /\ i \in DOMAIN calls /\ calls[i].nodes # << >>
         /\ Siblings(Rest[i].nodes) /\ Rest[i].nodes # << >>
         /\ Rest[i].prefixes = calls[i].prefixes
         /\ Rest[i].nodes[1] \in Lines /\ calls[i].nodes[1] \in Lines
         /\ In(Rest[i].nodes[1]) = In(calls[i].nodes[1])
         /\ \A c \in Lines : In(c) = Call.nodes[1] => Inside(c, Rest[i].nodes[1])
<1>. DEFINE top == Len(calls)
            h == Call.nodes[1]
<1>1. /\ disk \in Disks /\ top \in Nat \ {0} /\ DOMAIN calls = 1 .. top /\ Call = calls[top]
      /\ \A j \in DOMAIN calls : Siblings(calls[j].nodes)
      /\ \A j \in 1 .. top - 1 : calls[j].nodes # << >>
  BY RunningCall
<1>2. /\ Len(Rest) = IF Len(Call.nodes) = 1 THEN top - 1 ELSE top
      /\ \A j \in 1 .. top - 1 : Rest[j] = calls[j]
      /\ Len(Call.nodes) # 1 => /\ Rest[top].nodes = Tail(Call.nodes)
                                /\ Rest[top].prefixes = Call.prefixes
      /\ DOMAIN Rest = 1 .. Len(Rest)
  BY RestIs
<1>3. i \in DOMAIN calls /\ (i \in 1 .. top - 1 \/ (i = top /\ Len(Call.nodes) # 1))
  <2>1. CASE Len(Call.nodes) = 1
    <3>1. DOMAIN Rest = 1 .. top - 1
      BY <1>2, <2>1
    <3>2. i \in 1 .. top - 1 /\ top \in Nat \ {0} /\ DOMAIN calls = 1 .. top
      BY <1>1, <3>1
    <3>3. \A n \in Nat : 1 .. n - 1 \subseteq 1 .. n
      OBVIOUS
    <3>. QED  BY <3>2, <3>3
  <2>2. CASE Len(Call.nodes) # 1
    BY <1>1, <1>2, <2>2
  <2>. QED  BY <2>1, <2>2
<1>4. h \in Lines /\ h \in Seq(Int) /\ h # << >> /\ Siblings(Call.nodes)
  <2>1. Siblings(Call.nodes)
    BY <1>1
  <2>2. h \in Lines
    BY <1>1, <2>1, SiblingFacts
  <2>. QED  BY <1>1, <2>1, <2>2, DiskFacts
<1>5. CASE i \in 1 .. top - 1
  <2>1. Rest[i] = calls[i] /\ Siblings(calls[i].nodes) /\ calls[i].nodes # << >>
    BY <1>1, <1>2, <1>3, <1>5
  <2>. DEFINE a == calls[i].nodes[1]
  <2>2. a \in Lines /\ a \in Seq(Int) /\ a # << >>
    <3>1. a \in Lines
      BY <1>1, <2>1, SiblingFacts
    <3>. QED  BY <1>1, <3>1, DiskFacts
  <2>3. Inside(h, a)
    <3>1. i < top /\ top \in DOMAIN calls
      BY <1>1, <1>5
    <3>. QED  BY <1>1, <1>3, <3>1 DEF TreeIInv, Nested
  <2>4. ASSUME NEW c \in Lines, In(c) = h PROVE Inside(c, a)
    <3>1. c \in Seq(Int) /\ c # << >>
      BY <1>1, DiskFacts
    <3>. QED  BY <1>4, <2>2, <2>3, <2>4, <3>1, InsideDeeper
  <2>. QED  BY <1>3, <2>1, <2>2, <2>4
<1>6. CASE i = top /\ Len(Call.nodes) # 1
  <2>. DEFINE rest == Tail(Call.nodes)
              a == rest[1]
  <2>1. Siblings(rest) /\ rest # << >> /\ In(a) = In(h) /\ Base(h) < Base(a)
    BY <1>1, <1>4, <1>6, TailOfSiblings
  <2>2. a \in Lines /\ a \in Seq(Int) /\ a # << >>
    <3>1. a \in Lines
      BY <1>1, <2>1, SiblingFacts
    <3>. QED  BY <1>1, <3>1, DiskFacts
  <2>3. ASSUME NEW c \in Lines, In(c) = h PROVE Inside(c, a)
    <3>1. c \in Seq(Int) /\ c # << >>
      BY <1>1, DiskFacts
    <3>2. /\ Len(c) - 1 = Len(h) /\ Len(h) \in Nat \ {0} /\ Len(c) \in Nat /\ Len(a) = Len(h)
          /\ \A j \in 1 .. Len(h) : c[j] = h[j]
      <4>1. Len(a) = Len(h)
        BY <1>4, <2>1, <2>2, SameDirectory
      <4>2. Len(c) - 1 = Len(h) /\ Len(h) \in Nat \ {0} /\ Len(c) \in Nat \ {0}
        BY <1>4, <2>3, <3>1, Directory
      <4>3. \A j \in 1 .. Len(c) - 1 : In(c)[j] = c[j]
        BY <3>1, Directory
      <4>. QED  BY <2>3, <4>1, <4>2, <4>3
    <3>3. In(a) = SubSeq(h, 1, Len(h) - 1)
      BY <2>1 DEF In
    <3>4. SubSeq(h, 1, Len(h) - 1) = SubSeq(c, 1, Len(h) - 1)
      <4>1. /\ Len(h) - 1 \in 0 .. Len(h) /\ Len(h) - 1 <= Len(c)
            /\ \A j \in 1 .. Len(h) - 1 : h[j] = c[j]
        BY <3>2
      <4>. QED  BY <1>4, <3>1, <4>1, SameStart
    <3>5. c[Len(h)] = Base(h) /\ Len(h) < Len(c)
      BY <3>2 DEF Base
    <3>. QED  BY <2>1, <3>2, <3>3, <3>4, <3>5 DEF Inside
  <2>4. Rest[i].nodes = rest /\ Rest[i].prefixes = calls[i].prefixes /\ calls[i] = Call
    BY <1>1, <1>2, <1>6
  <2>. HIDE DEF rest
  <2>. QED  BY <1>3, <1>4, <2>1, <2>2, <2>3, <2>4
<1>. QED  BY <1>3, <1>5, <1>6

LEMMA RestNested ==
  ASSUME TreeIInv, treePc = "printing", calls # << >>, Call.nodes # << >>,
         NEW j \in DOMAIN Rest, NEW k \in DOMAIN Rest, j < k
  PROVE  Inside(Rest[k].nodes[1], Rest[j].nodes[1])
<1>. DEFINE top == Len(calls)
            a == calls[j].nodes[1]
            p == calls[k].nodes[1]
            q == Rest[k].nodes[1]
<1>1. disk \in Disks /\ top \in Nat \ {0} /\ DOMAIN calls = 1 .. top
  BY RunningCall
<1>2. /\ j \in DOMAIN calls /\ k \in DOMAIN calls
      /\ calls[j].nodes # << >> /\ calls[k].nodes # << >>
      /\ a \in Lines /\ p \in Lines /\ q \in Lines /\ In(q) = In(p)
  BY RestKeeps
<1>3. Rest[j] = calls[j]
  <2>1. j \in 1 .. top - 1
    BY <1>1, <1>2
  <2>. QED  BY <2>1, RestIs
<1>4. Inside(p, a)
  BY <1>2 DEF TreeIInv, Nested
<1>5. /\ a \in Seq(Int) /\ p \in Seq(Int) /\ q \in Seq(Int)
      /\ a # << >> /\ p # << >> /\ q # << >>
  BY <1>1, <1>2, DiskFacts
<1>6. Inside(q, a)
  BY <1>2, <1>4, <1>5, InsideBeside
<1>. QED  BY <1>3, <1>6

\* What is left to be printed begins with the first node, and goes on with the rest
LEMMA LeftFacts ==
  ASSUME TreeIInv, treePc = "printing", calls # << >>, Call.nodes # << >>
  PROVE  /\ Call.nodes[1] \in Left /\ Left \subseteq Lines
         /\ \A p \in Left : p # Call.nodes[1] => Before(Call.nodes[1], p)
         /\ \A p \in Lines : Starts(Call.nodes[1], p) => p \in Left
         /\ \A p \in Lines : (\E i \in DOMAIN Rest : Leads(Rest[i].nodes, p)) =>
              p \in Left /\ p # Call.nodes[1]
         /\ \A p \in Left : Starts(Call.nodes[1], p) \/ \E i \in DOMAIN Rest : Leads(Rest[i].nodes, p)
<1>. DEFINE top == Len(calls)
            nodes == Call.nodes
            h == nodes[1]
<1>1. /\ disk \in Disks /\ top \in Nat \ {0} /\ DOMAIN calls = 1 .. top
      /\ calls[top].nodes = nodes /\ top \in DOMAIN calls
      /\ \A i \in DOMAIN calls : Siblings(calls[i].nodes)
      /\ \A i \in 1 .. top - 1 : calls[i].nodes # << >>
  BY RunningCall
<1>2. /\ nodes # << >> /\ Siblings(nodes) /\ Len(nodes) \in Nat \ {0} /\ DOMAIN nodes = 1 .. Len(nodes)
      /\ h \in Lines /\ h \in Seq(Int)
  <2>1. nodes # << >> /\ Siblings(nodes)
    BY <1>1
  <2>. QED  BY <1>1, <2>1, SiblingFacts
<1>. HIDE DEF nodes
<1>3. /\ DOMAIN Rest = 1 .. Len(Rest) /\ Len(Rest) = IF Len(nodes) = 1 THEN top - 1 ELSE top
      /\ \A i \in 1 .. top - 1 : Rest[i] = calls[i]
      /\ Len(nodes) # 1 => Rest[top].nodes = Tail(nodes)
  BY RestIs DEF nodes
<1>4. Len(nodes) # 1 => /\ DOMAIN Tail(nodes) = 1 .. Len(nodes) - 1
                        /\ \A n \in 1 .. Len(nodes) - 1 : Tail(nodes)[n] = nodes[n + 1]
  BY <1>1, <1>2, TailOfSiblings
<1>5. Left = {p \in Lines : \E i \in DOMAIN calls : Leads(calls[i].nodes, p)}
  BY LeftByCalls
<1>6. ASSUME NEW p \in Lines, NEW n \in DOMAIN nodes, Starts(nodes[n], p), p # h \/ n # 1
      PROVE  Before(h, p)
  BY <1>1, <1>2, <1>6, HeadFirst
<1>7. ASSUME NEW p \in Lines, NEW i \in 1 .. top - 1, Leads(calls[i].nodes, p)
      PROVE  Before(h, p)
  <2>1. i \in DOMAIN calls /\ i < top /\ Siblings(calls[i].nodes) /\ calls[i].nodes # << >>
    BY <1>1
  <2>2. Inside(h, calls[i].nodes[1])
    BY <1>1, <1>2, <2>1 DEF TreeIInv, Nested
  <2>3. PICK n \in DOMAIN calls[i].nodes : Starts(calls[i].nodes[n], p)
    BY <1>7 DEF Leads
  <2>. QED  BY <1>1, <1>2, <2>1, <2>2, <2>3, InsideFirst
<1>8. \A i \in DOMAIN calls : i \in 1 .. top - 1 \/ i = top
  BY <1>1
<1>9. \A p \in Left : p # h => Before(h, p)
  <2>. SUFFICES ASSUME NEW p \in Left, p # h PROVE Before(h, p)
    OBVIOUS
  <2>1. PICK i \in DOMAIN calls : Leads(calls[i].nodes, p)
    BY <1>5
  <2>2. p \in Lines
    BY <1>5
  <2>3. CASE i = top
    BY <1>1, <1>6, <2>1, <2>2, <2>3 DEF Leads
  <2>. QED  BY <1>7, <1>8, <2>1, <2>2, <2>3
<1>10. ASSUME NEW p \in Lines, Starts(h, p) PROVE p \in Left
  <2>1. Leads(calls[top].nodes, p)
    BY <1>1, <1>2, <1>10 DEF Leads
  <2>. QED  BY <1>1, <1>5, <2>1
<1>11. h \in Left
  <2>1. Starts(h, h)
    BY <1>2 DEF Starts
  <2>. QED  BY <1>2, <1>10, <2>1
<1>12. ASSUME NEW p \in Lines, NEW i \in DOMAIN Rest, Leads(Rest[i].nodes, p)
       PROVE  p \in Left /\ p # h
  <2>1. i \in 1 .. top - 1 \/ (i = top /\ Len(nodes) # 1)
    <3>1. CASE Len(nodes) = 1
      <4>1. DOMAIN Rest = 1 .. top - 1
        BY <1>3, <3>1
      <4>. QED  BY <4>1
    <3>2. CASE Len(nodes) # 1
      <4>1. DOMAIN Rest = 1 .. top
        BY <1>3, <3>2
      <4>. QED  BY <1>1, <3>2, <4>1
    <3>. QED  BY <3>1, <3>2
  <2>2. ASSUME p = h PROVE ~ Before(h, p)
    BY <1>2, <2>2, BeforeAsymmetric
  <2>3. CASE i \in 1 .. top - 1
    <3>1. Leads(calls[i].nodes, p) /\ i \in DOMAIN calls
      <4>1. Rest[i] = calls[i]
        BY <1>3, <2>3
      <4>2. i \in 1 .. top
        BY <1>1, <2>3
      <4>. QED  BY <1>1, <1>12, <4>1, <4>2
    <3>2. Before(h, p)
      BY <1>7, <2>3, <3>1
    <3>. QED  BY <1>5, <2>2, <3>1, <3>2
  <2>4. CASE i = top /\ Len(nodes) # 1
    <3>1. PICK m \in DOMAIN Tail(nodes) : Starts(Tail(nodes)[m], p)
      BY <1>3, <1>12, <2>4 DEF Leads
    <3>2. m + 1 \in DOMAIN nodes /\ m + 1 # 1 /\ Starts(nodes[m + 1], p)
      BY <1>2, <1>4, <2>4, <3>1
    <3>3. Before(h, p)
      BY <1>6, <3>2
    <3>4. Leads(calls[top].nodes, p)
      BY <1>1, <3>2 DEF Leads
    <3>. QED  BY <1>1, <1>5, <2>2, <3>3, <3>4
  <2>. QED  BY <2>1, <2>3, <2>4
<1>13. ASSUME NEW p \in Left, ~ Starts(h, p)
       PROVE  \E i \in DOMAIN Rest : Leads(Rest[i].nodes, p)
  <2>1. PICK i \in DOMAIN calls : Leads(calls[i].nodes, p)
    BY <1>5
  <2>2. CASE i \in 1 .. top - 1
    <3>1. i \in DOMAIN Rest
      <4>1. DOMAIN Rest = 1 .. top - 1 \/ DOMAIN Rest = 1 .. top
        BY <1>3
      <4>2. i \in 1 .. top
        BY <1>1, <2>2
      <4>. QED  BY <2>2, <4>1, <4>2
    <3>. QED  BY <1>3, <2>1, <2>2, <3>1
  <2>3. CASE i = top
    <3>1. PICK n \in DOMAIN nodes : Starts(nodes[n], p)
      BY <1>1, <2>1, <2>3 DEF Leads
    <3>2. n # 1
      BY <1>13, <3>1
    <3>3. Len(nodes) # 1
      BY <1>2, <3>2
    <3>4. n - 1 \in DOMAIN Tail(nodes) /\ Tail(nodes)[n - 1] = nodes[n]
      <4>1. n - 1 \in 1 .. Len(nodes) - 1 /\ (n - 1) + 1 = n
        BY <1>2, <3>2
      <4>. QED  BY <1>4, <3>3, <4>1
    <3>5. top \in DOMAIN Rest
      BY <1>1, <1>3, <3>3
    <3>. QED  BY <1>3, <3>1, <3>3, <3>4, <3>5 DEF Leads
  <2>. QED  BY <1>8, <2>2, <2>3
<1>14. Left \subseteq Lines
  BY <1>5
<1>. QED  BY <1>9, <1>10, <1>11, <1>12, <1>13, <1>14 DEF nodes

\* The calls that are left have room for their prefixes, and no more of them than the
\* call that runs
LEMMA RestPrefixed ==
  ASSUME TreeIInv, treePc = "printing", calls # << >>, Call.nodes # << >>,
         NEW i \in DOMAIN Rest
  PROVE  /\ Rest[i].prefixes \in [array : Nat, len : Nat]
         /\ Rest[i].prefixes.array \in DOMAIN arrays
         /\ Rest[i].prefixes.len \in 0 .. Len(arrays[Rest[i].prefixes.array])
         /\ Rest[i].prefixes.len = Len(Rest[i].nodes[1]) - 1
         /\ Join(Rest[i].prefixes) = Indent(Rest[i].nodes[1])
         /\ Rest[i].prefixes.len <= Call.prefixes.len
<1>. DEFINE top == Len(calls)
            a == calls[i].nodes[1]
            b == Rest[i].nodes[1]
            h == Call.nodes[1]
<1>1. /\ disk \in Disks /\ top \in Nat \ {0} /\ DOMAIN calls = 1 .. top /\ top \in DOMAIN calls
      /\ Call = calls[top]
      /\ \A j \in DOMAIN calls : calls[j] \in PrintCall /\ Siblings(calls[j].nodes) /\ Prefixed(calls[j])
  BY RunningCall
<1>2. /\ i \in DOMAIN calls /\ calls[i].nodes # << >> /\ Rest[i].prefixes = calls[i].prefixes
      /\ a \in Lines /\ b \in Lines /\ In(b) = In(a)
  BY RestKeeps
<1>3. a \in Seq(Int) /\ a # << >> /\ b \in Seq(Int) /\ b # << >>
  BY <1>1, <1>2, DiskFacts
<1>4. Len(a) = Len(b) /\ Indent(a) = Indent(b) /\ Len(a) \in Nat
  BY <1>2, <1>3, SameDirectory, IndentBeside, Directory
<1>5. calls[i].prefixes.len = Len(a) - 1 /\ Join(calls[i].prefixes) = Indent(a)
  BY <1>1, <1>2 DEF Prefixed
<1>6. Call.prefixes.len = Len(h) - 1
  BY <1>1 DEF Prefixed
<1>7. Len(a) <= Len(h) /\ Len(h) \in Nat
  <2>1. Siblings(Call.nodes)
    BY <1>1
  <2>2. Len(h) \in Nat
    BY <1>1, <2>1, SiblingFacts
  <2>3. CASE i = top
    BY <1>1, <1>4, <2>2, <2>3
  <2>4. CASE i # top
    <3>1. i < top
      BY <1>1, <1>2, <2>4
    <3>2. Inside(h, a)
      BY <1>1, <1>2, <3>1 DEF TreeIInv, Nested
    <3>. QED  BY <1>4, <2>2, <3>2 DEF Inside
  <2>. QED  BY <2>3, <2>4
<1>8. /\ calls[i].prefixes \in [array : Nat, len : Nat]
      /\ calls[i].prefixes.array \in DOMAIN arrays
      /\ calls[i].prefixes.len \in 0 .. Len(arrays[calls[i].prefixes.array])
  BY <1>1, <1>2 DEF TreeIInv, Slices, PrintCall
<1>9. calls[i].prefixes.len <= Call.prefixes.len
  BY <1>4, <1>5, <1>6, <1>7
<1>. HIDE DEF a, b
<1>10. Rest[i].prefixes.len = Len(b) - 1 /\ Join(Rest[i].prefixes) = Indent(b)
  BY <1>2, <1>4, <1>5
<1>. QED  BY <1>2, <1>8, <1>9, <1>10 DEF b

-----------------------------------------------------------------------------
(* The lines.                                                              *)

\* While the directory stays as it is, so does what is due
LEMMA Frame ==
  ASSUME disk' = disk, withFiles' = withFiles
  PROVE  /\ Lines' = Lines
         /\ \A p : Indent(p)' = Indent(p) /\ LineOf(p)' = LineOf(p) /\ At(p)' = At(p)
         /\ \A nodes : Siblings(nodes)' <=> Siblings(nodes)
<1>1. Lines' = Lines
  BY DEF Lines, Shown
<1>2. \A p : LastShown(p)' <=> LastShown(p)
  BY DEF LastShown, Shown
<1>3. \A p : Indent(p)' = Indent(p)
  BY <1>2 DEF Indent
<1>4. \A p : LineOf(p)' = LineOf(p)
  BY <1>2, <1>3 DEF LineOf
<1>5. \A p : At(p)' = At(p)
  BY <1>1 DEF At
<1>6. \A nodes : Siblings(nodes)' <=> Siblings(nodes)
  BY <1>1 DEF Siblings
<1>. QED  BY <1>1, <1>3, <1>4, <1>5, <1>6

Words == Marks \cup {Branch, Corner} \cup Int

\* The line printed is the one due for the first node
LEMMA LineOfHead ==
  ASSUME TreeIInv, treePc = "printing", calls # << >>, Call.nodes # << >>, PrintNode
  PROVE  out' = Append(out, LineOf(Call.nodes[1])) /\ LineOf(Call.nodes[1]) \in Seq(Words)
<1>. DEFINE h == Call.nodes[1]
            top == Len(calls)
<1>1. disk \in Disks /\ Siblings(Call.nodes) /\ Prefixed(Call)
  BY RunningCall
<1>2. /\ Call.nodes \in Seq(Lines) /\ h \in Seq(Int) /\ h # << >> /\ Head(Call.nodes) = h
      /\ Base(h) \in Int
  <2>1. Call.nodes \in Seq(Lines) /\ h \in Lines /\ h \in Seq(Int) /\ Base(h) \in Int
    BY <1>1, SiblingFacts
  <2>2. h # << >>
    BY <1>1, <2>1, DiskFacts
  <2>. QED  BY <2>1, <2>2
<1>3. Join(Call.prefixes) = Indent(h)
  BY <1>1 DEF Prefixed
<1>4. LastShown(h) <=> Len(Call.nodes) = 1
  BY <1>1, LastOfSiblings
<1>5. out' = Append(out, LineOf(h))
  <2>1. (IF Len(Call.nodes) = 1 THEN Corner ELSE Branch) = (IF LastShown(h) THEN Corner ELSE Branch)
    BY <1>4
  <2>. QED  BY <1>2, <1>3, <2>1 DEF PrintNode, LineOf
<1>6. LineOf(h) \in Seq(Words)
  <2>. DEFINE tail == <<IF LastShown(h) THEN Corner ELSE Branch, Base(h)>>
  <2>1. Indent(h) \in Seq(Words)
    <3>1. Indent(h) \in Seq(Marks) /\ Marks \subseteq Words
      BY <1>2, IndentFacts DEF Words
    <3>. QED  BY <3>1
  <2>2. tail \in Seq(Words)
    <3>1. Corner \in Words /\ Branch \in Words /\ Base(h) \in Words
      BY <1>2 DEF Words
    <3>. QED  BY <3>1
  <2>. HIDE DEF tail
  <2>3. Indent(h) \o tail \in Seq(Words)
    BY <2>1, <2>2, ConcatProperties
  <2>. QED  BY <2>3 DEF LineOf, tail
<1>. QED  BY <1>5, <1>6

\* With it, the lines printed are those due for all but what is left then
LEMMA LineDrawn ==
  ASSUME TreeIInv, treePc = "printing", calls # << >>, Call.nodes # << >>, PrintNode,
         disk' = disk, withFiles' = withFiles, Left' = Left \ {Call.nodes[1]}
  PROVE  out' \in Seq(Seq(Words)) /\ DrawnSoFar'
<1>. DEFINE h == Call.nodes[1]
            drawn == Lines \ Left
<1>1. disk \in Disks /\ out \in Seq(Seq(Words)) /\ DrawnSoFar
  BY RunningCall DEF TreeIInv, Words
<1>2. /\ h \in Left /\ Left \subseteq Lines /\ \A p \in Left : p # h => Before(h, p)
  BY LeftFacts
<1>3. \A p \in Lines : p \in Seq(Int)
  BY <1>1, DiskFacts
<1>4. IsFiniteSet(Lines) /\ IsFiniteSet(drawn) /\ Cardinality(drawn) \in Nat
  BY <1>1, DiskFacts, FS_Subset, FS_CardinalityType
<1>5. out' = Append(out, LineOf(h)) /\ LineOf(h) \in Seq(Words)
  BY LineOfHead
<1>. HIDE DEF h, drawn
<1>6. Len(out) = Cardinality(drawn) /\ \A p \in drawn : out[At(p)] = LineOf(p)
  BY <1>1 DEF DrawnSoFar, drawn
<1>7. \A p \in drawn : p \in Lines /\ \A q \in Left : Before(p, q)
  BY <1>1 DEF DrawnSoFar, drawn
<1>8. /\ out' \in Seq(Seq(Words)) /\ Len(out') = Len(out) + 1 /\ out'[Len(out) + 1] = LineOf(h)
      /\ \A n \in 1 .. Len(out) : out'[n] = out[n]
  BY <1>1, <1>5
<1>9. \A p \in Lines, q \in Lines : Before(p, q) => ~ Before(q, p) /\ p # q
  BY <1>3, BeforeAsymmetric
<1>10. At(h) = Len(out) + 1
  <2>1. \A q \in Lines : Before(q, h) <=> q \in drawn
    BY <1>2, <1>7, <1>9 DEF drawn
  <2>2. {q \in Lines : Before(q, h)} = drawn
    BY <2>1 DEF drawn
  <2>3. At(h) = 1 + Cardinality(drawn)
    BY <2>2 DEF At
  <2>. QED  BY <1>4, <1>6, <2>3
<1>11. ASSUME NEW p \in drawn PROVE At(p) \in 1 .. Len(out)
  <2>. DEFINE first == {q \in Lines : Before(q, p)}
  <2>1. first \subseteq drawn \ {p}
    BY <1>2, <1>7, <1>9 DEF drawn
  <2>2. IsFiniteSet(drawn \ {p}) /\ Cardinality(drawn \ {p}) = Cardinality(drawn) - 1
    BY <1>4, <1>11, FS_RemoveElement
  <2>3. Cardinality(first) <= Cardinality(drawn) - 1 /\ Cardinality(first) \in Nat
    BY <2>1, <2>2, FS_Subset, FS_CardinalityType
  <2>4. At(p) = 1 + Cardinality(first)
    BY DEF At
  <2>. HIDE DEF first
  <2>. QED  BY <1>4, <1>6, <2>3, <2>4
<1>12. (Lines \ Left)' = drawn \cup {h}
  BY <1>2, Frame DEF drawn, h
<1>13. Cardinality(drawn \cup {h}) = Cardinality(drawn) + 1
  <2>1. h \notin drawn
    BY <1>2 DEF drawn
  <2>. QED  BY <1>4, <2>1, FS_AddElement
<1>14. ASSUME NEW p \in drawn \cup {h} PROVE out'[At(p)'] = LineOf(p)'
  <2>1. At(p)' = At(p) /\ LineOf(p)' = LineOf(p)
    BY Frame
  <2>2. out'[At(p)] = LineOf(p)
    <3>1. CASE p = h
      BY <1>8, <1>10, <3>1
    <3>2. CASE p \in drawn
      BY <1>6, <1>8, <1>11, <3>2
    <3>. QED  BY <3>1, <3>2
  <2>. QED  BY <2>1, <2>2
<1>15. ASSUME NEW p \in drawn \cup {h}, NEW q \in Left \ {h} PROVE Before(p, q)
  BY <1>2, <1>7
<1>16. Left' = Left \ {h}
  BY DEF h
<1>17. Len(out') = Cardinality((Lines \ Left)')
  BY <1>6, <1>8, <1>12, <1>13
<1>. QED  BY <1>8, <1>12, <1>14, <1>15, <1>16, <1>17 DEF DrawnSoFar

-----------------------------------------------------------------------------
(* The steps.                                                              *)

LEMMA InvInit == TreeInit => TreeIInv
<1>. SUFFICES ASSUME TreeInit PROVE TreeIInv
  OBVIOUS
<1>1. arrays \in Seq(Seq(Marks)) /\ calls = << >> /\ out = << >> /\ treePc = "idle"
      /\ arrays = << << >> >>
  BY DEF TreeInit
<1>2. Slices
  BY <1>1 DEF Slices
<1>. QED  BY <1>1, <1>2 DEF TreeIInv

\* What readDir returns for the directory that dirTree is called on
ListsAll ==
  disk \in Disks /\ withFiles \in BOOLEAN =>
    /\ readDir(disk, << >>, withFiles) \in Seq(Seq(Int))
    /\ Siblings(readDir(disk, << >>, withFiles))
    /\ \A p \in Lines : Leads(readDir(disk, << >>, withFiles), p)
    /\ readDir(disk, << >>, withFiles) # << >> =>
         /\ Len(readDir(disk, << >>, withFiles)[1]) = 1
         /\ Indent(readDir(disk, << >>, withFiles)[1]) = << >>

LEMMA Listed == ListsAll
<1>. SUFFICES ASSUME disk \in Disks, withFiles \in BOOLEAN PROVE ListsAll
  BY DEF ListsAll
<1>. DEFINE nodes == readDir(disk, << >>, withFiles)
            root == << >>
<1>1. root \in DOMAIN disk /\ disk[root].dir /\ root \in Seq(Int) /\ Len(root) = 0
  BY DiskFacts
<1>2. /\ Siblings(nodes) /\ \A k \in DOMAIN nodes : In(nodes[k]) = root
      /\ \A p \in Lines : In(p) = root => \E k \in DOMAIN nodes : nodes[k] = p
  BY <1>1, Children
<1>. HIDE DEF nodes, root
<1>3. nodes \in Seq(Seq(Int))
  <2>1. nodes \in Seq(Lines) /\ Lines \subseteq Seq(Int)
    BY <1>2, DiskFacts DEF Siblings
  <2>. QED  BY <2>1
<1>4. ASSUME NEW p \in Lines PROVE Leads(nodes, p)
  <2>1. p \in Seq(Int) /\ p # root /\ Len(p) \in Nat
    BY DiskFacts DEF root
  <2>2. Starts(root, p)
    <3>1. Len(root) <= Len(p) /\ \A j \in 1 .. Len(root) : root[j] = p[j]
      BY <1>1, <2>1
    <3>. QED  BY <1>1, <2>1, <3>1, StartsByNames
  <2>3. PICK c \in Lines : In(c) = root /\ Starts(c, p)
    BY <1>1, <2>1, <2>2, Child
  <2>. QED  BY <1>2, <2>3 DEF Leads
<1>5. ASSUME nodes # << >> PROVE Len(nodes[1]) = 1 /\ Indent(nodes[1]) = << >>
  <2>1. 1 \in DOMAIN nodes /\ nodes[1] \in Lines /\ nodes[1] \in Seq(Int)
    BY <1>2, <1>5, SiblingFacts
  <2>2. nodes[1] # << >> /\ In(nodes[1]) = root
    BY <1>2, <2>1, DiskFacts
  <2>3. Len(nodes[1]) = 1
    <3>. DEFINE above == Len(In(nodes[1]))
    <3>1. above = Len(nodes[1]) - 1 /\ Len(nodes[1]) \in Nat
      BY <2>1, <2>2, Directory
    <3>2. above = 0
      BY <1>1, <2>2
    <3>. HIDE DEF above
    <3>. QED  BY <3>1, <3>2
  <2>4. Indent(nodes[1]) \in Seq(Marks) /\ Len(Indent(nodes[1])) = 0
    BY <2>1, <2>2, <2>3, IndentFacts
  <2>. QED  BY <2>3, <2>4, EmptySeq
<1>. QED  BY <1>2, <1>3, <1>4, <1>5 DEF ListsAll, nodes, root

LEMMA ListsNext == ListsAll'
BY Listed, PTL

LEMMA StartKeeps ==
  ASSUME TreeIInv, NEW files \in Disks, NEW wf \in BOOLEAN, dirTree(files, wf)
  PROVE  TreeIInv'
<1>. DEFINE nodes == readDir(disk, << >>, withFiles)
<1>1. /\ treePc = "idle" /\ arrays = << << >> >> /\ out = << >>
      /\ treePc' = "printing" /\ disk' \in Disks /\ withFiles' \in BOOLEAN
      /\ tree' = [path \in {p \in DOMAIN disk : disk[p].dir} |-> readDir(disk, path, withFiles)]'
      /\ err' = (~ disk[<< >>].opens \/ disk[<< >>].fails)'
      /\ calls' = <<[nodes |-> nodes', prefixes |-> [array |-> 1, len |-> 0]]>>
      /\ arrays' = << << >> >> /\ out' = << >>
  BY DEF dirTree, TreeIInv
<1>2. /\ nodes' \in Seq(Seq(Int)) /\ Siblings(nodes)'
      /\ \A p \in Lines' : Leads(nodes', p)
      /\ nodes' # << >> => Len(nodes'[1]) = 1 /\ (Indent(nodes[1]) = << >>)'
  BY <1>1, ListsNext DEF ListsAll
<1>. HIDE DEF nodes
<1>3. /\ calls' \in Seq(PrintCall) /\ DOMAIN calls' = {1} /\ calls'[1].nodes = nodes'
      /\ calls'[1].prefixes.array = 1 /\ calls'[1].prefixes.len = 0
  <2>. DEFINE c == [nodes |-> nodes', prefixes |-> [array |-> 1, len |-> 0]]
  <2>1. c \in PrintCall /\ c.nodes = nodes' /\ c.prefixes.array = 1 /\ c.prefixes.len = 0
    BY <1>2 DEF PrintCall
  <2>2. calls' = <<c>>
    BY <1>1
  <2>. HIDE DEF c
  <2>3. <<c>> \in Seq(PrintCall) /\ DOMAIN <<c>> = {1} /\ <<c>>[1] = c
    BY <2>1
  <2>. QED  BY <2>1, <2>2, <2>3
<1>4. out' \in Seq(Seq(Marks \cup {Branch, Corner} \cup Int))
  BY <1>1
<1>5. Slices'
  <2>1. arrays' \in Seq(Seq(Marks)) /\ DOMAIN arrays' = {1} /\ Len(arrays'[1]) = 0
    BY <1>1
  <2>. QED  BY <1>3, <2>1 DEF Slices
<1>6. Siblings(calls[1].nodes)' /\ Prefixed(calls[1])'
  <2>1. Siblings(calls[1].nodes)'
    BY <1>2, <1>3 DEF Siblings
  <2>2. Join(calls[1].prefixes)' = << >>
    <3>1. SubSeq(arrays'[1], 1, 0) = << >>
      BY <1>1
    <3>. QED  BY <1>3, <3>1 DEF Join
  <2>3. ASSUME calls'[1].nodes # << >>
        PROVE  /\ calls'[1].prefixes.len = Len(calls'[1].nodes[1]) - 1
               /\ Join(calls[1].prefixes)' = Indent(calls[1].nodes[1])'
    <3>1. Len(calls'[1].nodes[1]) = 1
      BY <1>2, <1>3, <2>3
    <3>2. Indent(calls[1].nodes[1])' = << >>
      BY <1>2, <1>3, <2>3
    <3>. QED  BY <1>3, <2>2, <3>1, <3>2
  <2>. QED  BY <2>1, <2>3 DEF Prefixed
<1>7. Nested'
  BY <1>3 DEF Nested
<1>8. DrawnSoFar'
  <2>1. Left' = Lines'
    BY <1>2, <1>3 DEF Left, Leads, Starts
  <2>2. (Lines \ Left)' = {}
    BY <2>1
  <2>. QED  BY <1>1, <2>2, FS_EmptySet DEF DrawnSoFar
<1>9. \A i \in DOMAIN calls' : (Siblings(calls[i].nodes) /\ Prefixed(calls[i]))'
  BY <1>3, <1>6
<1>. QED  BY <1>1, <1>3, <1>4, <1>5, <1>7, <1>8, <1>9 DEF TreeIInv

\* The callers of the call that runs
LEMMA CallersAre ==
  ASSUME TreeIInv, treePc = "printing", calls # << >>
  PROVE  /\ Callers \in Seq(PrintCall) /\ DOMAIN Callers = 1 .. Len(calls) - 1
         /\ \A i \in 1 .. Len(calls) - 1 : i \in DOMAIN calls /\ Callers[i] = calls[i]
<1>1. calls \in Seq(PrintCall) /\ Len(calls) - 1 \in 0 .. Len(calls)
  BY RunningCall
<1>2. /\ Callers \in Seq(PrintCall) /\ Len(Callers) = Len(calls) - 1
      /\ \A i \in 1 .. Len(calls) - 1 : Callers[i] = calls[i]
  BY <1>1, StartOf DEF Callers
<1>. QED  BY <1>1, <1>2, LenProperties

LEMMA NoNodesKeeps ==
  ASSUME TreeIInv, NoNodes
  PROVE  TreeIInv'
<1>. DEFINE top == Len(calls)
<1>1. /\ treePc = "printing" /\ calls # << >> /\ Call.nodes = << >> /\ calls' = Callers
      /\ UNCHANGED <<treePc, disk, withFiles, tree, err, arrays, out>>
  BY DEF NoNodes
<1>2. /\ DOMAIN calls = 1 .. top /\ top \in Nat \ {0} /\ Call = calls[top]
      /\ \A i \in DOMAIN calls : Siblings(calls[i].nodes) /\ Prefixed(calls[i])
  BY <1>1, RunningCall
<1>3. /\ calls' \in Seq(PrintCall) /\ DOMAIN calls' = 1 .. top - 1
      /\ \A i \in 1 .. top - 1 : i \in DOMAIN calls /\ calls'[i] = calls[i]
  BY <1>1, CallersAre
<1>4. Slices'
  BY <1>1, <1>3 DEF TreeIInv, Slices
<1>5. ASSUME NEW i \in DOMAIN calls' PROVE (Siblings(calls[i].nodes) /\ Prefixed(calls[i]))'
  <2>1. Siblings(calls[i].nodes) /\ Prefixed(calls[i]) /\ calls'[i] = calls[i]
    BY <1>2, <1>3
  <2>2. Siblings(calls[i].nodes)'
    BY <1>1, <2>1, Frame DEF Siblings
  <2>3. Prefixed(calls[i])'
    BY <1>1, <2>1, Frame DEF Prefixed, Join
  <2>. QED  BY <2>2, <2>3
<1>6. Nested'
  <2>. SUFFICES ASSUME NEW j \in DOMAIN calls', NEW k \in DOMAIN calls', j < k
                PROVE  /\ calls'[j].nodes # << >>
                       /\ calls'[k].nodes # << >> => Inside(calls'[k].nodes[1], calls'[j].nodes[1])
    BY DEF Nested, Inside
  <2>1. /\ j \in DOMAIN calls /\ k \in DOMAIN calls
        /\ calls'[j] = calls[j] /\ calls'[k] = calls[k]
    BY <1>3
  <2>2. Nested
    BY <1>1 DEF TreeIInv
  <2>. QED  BY <2>1, <2>2 DEF Nested
<1>7. Left' = Left
  <2>1. Lines' = Lines
    BY <1>1, Frame
  <2>2. DOMAIN calls[top].nodes = {}
    BY <1>1, <1>2
  <2>3. \A i \in DOMAIN calls : i \in 1 .. top - 1 \/ i = top
    BY <1>2
  <2>4. ASSUME NEW p
        PROVE  (\E i \in DOMAIN calls : Leads(calls[i].nodes, p))
                 <=> (\E i \in DOMAIN calls' : Leads(calls'[i].nodes, p))
    BY <1>3, <2>2, <2>3 DEF Leads
  <2>. QED  BY <2>1, <2>4 DEF Left, Leads, Starts
<1>8. DrawnSoFar'
  BY <1>1, <1>7, Frame DEF TreeIInv, DrawnSoFar
<1>. QED  BY <1>1, <1>3, <1>4, <1>5, <1>6, <1>8 DEF TreeIInv

LEMMA PrintFileKeeps ==
  ASSUME TreeIInv, PrintFile
  PROVE  TreeIInv'
<1>. DEFINE h == Call.nodes[1]
<1>1. /\ treePc = "printing" /\ calls # << >> /\ Call.nodes # << >> /\ ~ disk[Head(Call.nodes)].dir
      /\ PrintNode /\ calls' = Rest
      /\ UNCHANGED <<treePc, disk, withFiles, tree, err, arrays>>
  BY DEF PrintFile
<1>2. disk \in Disks /\ Siblings(Call.nodes)
  BY <1>1, RunningCall
<1>3. Head(Call.nodes) = h /\ h \in Seq(Int)
  BY <1>1, <1>2, SiblingFacts
<1>. HIDE DEF h
<1>4. calls' \in Seq(PrintCall)
  BY <1>1, RestIs
<1>5. arrays' \in Seq(Seq(Marks))
  BY <1>1 DEF TreeIInv, Slices
<1>6. Slices'
  BY <1>1, <1>5, RestPrefixed DEF Slices
<1>7. ASSUME NEW i \in DOMAIN calls' PROVE (Siblings(calls[i].nodes) /\ Prefixed(calls[i]))'
  <2>1. calls'[i] = Rest[i] /\ i \in DOMAIN Rest
    BY <1>1
  <2>2. Siblings(Rest[i].nodes)
    BY <1>1, <2>1, RestKeeps
  <2>3. Rest[i].prefixes.len = Len(Rest[i].nodes[1]) - 1 /\ Join(Rest[i].prefixes) = Indent(Rest[i].nodes[1])
    BY <1>1, <2>1, RestPrefixed
  <2>4. Siblings(calls[i].nodes)'
    BY <1>1, <2>1, <2>2, Frame DEF Siblings
  <2>5. Prefixed(calls[i])'
    BY <1>1, <2>1, <2>3, Frame DEF Prefixed, Join
  <2>. QED  BY <2>4, <2>5
<1>8. Nested'
  <2>. SUFFICES ASSUME NEW j \in DOMAIN calls', NEW k \in DOMAIN calls', j < k
                PROVE  calls'[j].nodes # << >> /\ Inside(calls'[k].nodes[1], calls'[j].nodes[1])
    BY DEF Nested, Inside
  <2>. QED  BY <1>1, RestKeeps, RestNested
<1>9. Left' = Left \ {h}
  <2>1. Lines' = Lines
    BY <1>1, Frame
  <2>2. Left' = {p \in Lines : \E i \in DOMAIN Rest : Leads(Rest[i].nodes, p)}
    BY <1>1, <2>1 DEF Left, Leads, Starts
  <2>3. \A p \in Lines : Starts(h, p) => p = h
    BY <1>1, <1>2, <1>3, Child
  <2>4. /\ Left \subseteq Lines
        /\ \A p \in Lines : (\E i \in DOMAIN Rest : Leads(Rest[i].nodes, p)) => p \in Left /\ p # h
        /\ \A p \in Left : Starts(h, p) \/ \E i \in DOMAIN Rest : Leads(Rest[i].nodes, p)
    BY <1>1, LeftFacts DEF h
  <2>. QED  BY <2>2, <2>3, <2>4
<1>10. out' \in Seq(Seq(Words)) /\ DrawnSoFar'
  BY <1>1, <1>9, LineDrawn DEF h
<1>. QED  BY <1>1, <1>4, <1>6, <1>7, <1>8, <1>10 DEF TreeIInv, Words

LEMMA PrintDirectoryKeeps ==
  ASSUME TreeIInv, NEW spare \in 0 .. MaxSpare, PrintDirectory(spare)
  PROVE  TreeIInv'
<1>. DEFINE h == Call.nodes[1]
            s == Call.prefixes
            x == IF Len(Call.nodes) = 1 THEN Tab ELSE Bar
            nodes == readDir(disk, h, withFiles)
            c == [nodes |-> nodes, prefixes |-> Appended(s)]
            n == Len(Rest)
<1>1. /\ treePc = "printing" /\ calls # << >> /\ Call.nodes # << >> /\ disk[Head(Call.nodes)].dir
      /\ PrintNode /\ AppendTo(s, x, spare)
      /\ calls' = Append(Rest, [nodes |-> tree[Head(Call.nodes)], prefixes |-> Appended(s)])
      /\ UNCHANGED <<treePc, disk, withFiles, tree, err>>
  BY DEF PrintDirectory
<1>2. /\ disk \in Disks /\ withFiles \in BOOLEAN /\ Siblings(Call.nodes) /\ Prefixed(Call)
      /\ Call \in PrintCall /\ Len(calls) \in DOMAIN calls /\ Call = calls[Len(calls)]
      /\ tree = [path \in {p \in DOMAIN disk : disk[p].dir} |-> readDir(disk, path, withFiles)]
  BY <1>1, RunningCall
<1>3. Head(Call.nodes) = h /\ h \in Lines /\ h \in Seq(Int)
  BY <1>1, <1>2, SiblingFacts
<1>4. h \in DOMAIN disk /\ disk[h].dir /\ h # << >>
  BY <1>1, <1>2, <1>3, DiskFacts
<1>5. tree[h] = nodes
  BY <1>2, <1>4
<1>6. /\ Siblings(nodes) /\ \A k \in DOMAIN nodes : In(nodes[k]) = h
      /\ \A p \in Lines : In(p) = h => \E k \in DOMAIN nodes : nodes[k] = p
  BY <1>2, <1>3, <1>4, Children
<1>7. /\ s \in [array : Nat, len : Nat] /\ s.array \in DOMAIN arrays /\ s.len \in 0 .. Len(arrays[s.array])
      /\ arrays \in Seq(Seq(Marks)) /\ x \in Marks /\ spare \in Nat
  <2>1. s \in [array : Nat, len : Nat]
    BY <1>2 DEF PrintCall
  <2>2. s.array \in DOMAIN arrays /\ s.len \in 0 .. Len(arrays[s.array]) /\ arrays \in Seq(Seq(Marks))
    BY <1>2 DEF TreeIInv, Slices
  <2>3. x \in Marks
    BY DEF Marks
  <2>4. spare \in Nat
    BY DirTreeAssumption
  <2>. QED  BY <2>1, <2>2, <2>3, <2>4
<1>8. s.len = Len(h) - 1 /\ Join(s) = Indent(h)
  BY <1>1, <1>2 DEF Prefixed
<1>9. x = IF LastShown(h) THEN Tab ELSE Bar
  BY <1>1, <1>2, LastOfSiblings
<1>10. calls' = Append(Rest, c)
  BY <1>1, <1>3, <1>5
<1>. HIDE DEF h, s, x, nodes
<1>11. /\ arrays' \in Seq(Seq(Marks))
       /\ Appended(s) \in [array : Nat, len : Nat]
       /\ Appended(s).array \in DOMAIN arrays' /\ Appended(s).len = s.len + 1
       /\ Appended(s).len \in 0 .. Len(arrays'[Appended(s).array])
       /\ SubSeq(arrays'[Appended(s).array], 1, Appended(s).len) = Append(Join(s), x)
       /\ \A t \in [array : Nat, len : Nat] :
            t.array \in DOMAIN arrays /\ t.len \in 0 .. Len(arrays[t.array]) =>
              /\ t.array \in DOMAIN arrays' /\ t.len \in 0 .. Len(arrays'[t.array])
              /\ t.len <= s.len => SubSeq(arrays'[t.array], 1, t.len) = Join(t)
  BY <1>1, <1>7, AppendToKeeps
<1>12. /\ nodes \in Seq(Lines) /\ Lines \subseteq Seq(Int) /\ c \in PrintCall
       /\ c.nodes = nodes /\ c.prefixes = Appended(s)
  <2>1. nodes \in Seq(Lines) /\ Lines \subseteq Seq(Int)
    BY <1>2, <1>6, DiskFacts DEF Siblings
  <2>2. nodes \in Seq(Seq(Int))
    BY <2>1
  <2>. QED  BY <1>11, <2>1, <2>2 DEF PrintCall
<1>. HIDE DEF c
<1>13. /\ calls' \in Seq(PrintCall) /\ DOMAIN Rest = 1 .. n /\ n \in Nat
       /\ DOMAIN calls' = 1 .. n + 1 /\ calls'[n + 1] = c
       /\ \A i \in DOMAIN Rest : calls'[i] = Rest[i]
  <2>1. Rest \in Seq(PrintCall) /\ DOMAIN Rest = 1 .. n /\ n \in Nat
    BY <1>1, RestIs, LenProperties
  <2>2. /\ Append(Rest, c) \in Seq(PrintCall) /\ Len(Append(Rest, c)) = n + 1
        /\ Append(Rest, c)[n + 1] = c
        /\ \A i \in 1 .. n : Append(Rest, c)[i] = Rest[i]
    BY <1>12, <2>1, AppendProperties
  <2>. QED  BY <1>10, <2>1, <2>2, LenProperties
<1>. HIDE DEF n
<1>14. \A i \in DOMAIN calls' : i = n + 1 \/ i \in DOMAIN Rest
  BY <1>13
<1>15. Slices'
  <2>. SUFFICES ASSUME NEW i \in DOMAIN calls'
                PROVE  /\ calls'[i].prefixes.array \in DOMAIN arrays'
                       /\ calls'[i].prefixes.len \in 0 .. Len(arrays'[calls'[i].prefixes.array])
    BY <1>11 DEF Slices
  <2>1. CASE i = n + 1
    BY <1>11, <1>12, <1>13, <2>1
  <2>2. CASE i \in DOMAIN Rest
    <3>1. calls'[i] = Rest[i]
      BY <1>13, <2>2
    <3>2. /\ Rest[i].prefixes \in [array : Nat, len : Nat]
          /\ Rest[i].prefixes.array \in DOMAIN arrays
          /\ Rest[i].prefixes.len \in 0 .. Len(arrays[Rest[i].prefixes.array])
      BY <1>1, <2>2, RestPrefixed
    <3>. QED  BY <1>11, <3>1, <3>2
  <2>. QED  BY <1>14, <2>1, <2>2
<1>16. ASSUME NEW i \in DOMAIN calls' PROVE (Siblings(calls[i].nodes) /\ Prefixed(calls[i]))'
  <2>1. CASE i = n + 1
    <3>1. calls'[i] = c /\ calls'[i].nodes = nodes /\ calls'[i].prefixes = Appended(s)
      BY <1>12, <1>13, <2>1
    <3>2. Siblings(calls[i].nodes)'
      BY <1>1, <1>6, <3>1, Frame DEF Siblings
    <3>3. ASSUME nodes # << >>
          PROVE  Appended(s).len = Len(nodes[1]) - 1 /\ Append(Join(s), x) = Indent(nodes[1])
      <4>1. 1 \in DOMAIN nodes /\ nodes[1] \in Lines /\ nodes[1] \in Seq(Int)
        BY <1>2, <1>6, <3>3, SiblingFacts
      <4>2. In(nodes[1]) = h /\ nodes[1] # << >>
        BY <1>2, <1>6, <4>1, DiskFacts
      <4>3. Indent(nodes[1]) = Append(Indent(h), IF LastShown(h) THEN Tab ELSE Bar)
        BY <1>3, <1>4, <4>1, <4>2, IndentDeeper
      <4>4. Len(h) = Len(nodes[1]) - 1 /\ Len(h) \in Nat /\ Len(nodes[1]) \in Nat
        BY <1>3, <4>1, <4>2, Directory
      <4>5. Appended(s).len = Len(nodes[1]) - 1
        BY <1>8, <1>11, <4>4
      <4>. QED  BY <1>8, <1>9, <4>3, <4>5
    <3>4. Prefixed(calls[i])'
      <4>1. Join(calls[i].prefixes)' = Append(Join(s), x)
        BY <1>11, <3>1 DEF Join
      <4>2. Indent(calls[i].nodes[1])' = Indent(nodes[1])
        BY <1>1, <3>1, Frame
      <4>. QED  BY <3>1, <3>3, <4>1, <4>2 DEF Prefixed
    <3>. QED  BY <3>2, <3>4
  <2>2. CASE i \in DOMAIN Rest
    <3>1. calls'[i] = Rest[i]
      BY <1>13, <2>2
    <3>2. Siblings(Rest[i].nodes)
      BY <1>1, <2>2, RestKeeps
    <3>3. Siblings(calls[i].nodes)'
      BY <1>1, <3>1, <3>2, Frame
    <3>4. /\ Rest[i].prefixes \in [array : Nat, len : Nat]
          /\ Rest[i].prefixes.array \in DOMAIN arrays
          /\ Rest[i].prefixes.len \in 0 .. Len(arrays[Rest[i].prefixes.array])
          /\ Rest[i].prefixes.len = Len(Rest[i].nodes[1]) - 1
          /\ Join(Rest[i].prefixes) = Indent(Rest[i].nodes[1])
          /\ Rest[i].prefixes.len <= s.len
      BY <1>1, <2>2, RestPrefixed DEF s
    <3>5. Join(calls[i].prefixes)' = Join(Rest[i].prefixes)
      <4>1. SubSeq(arrays'[Rest[i].prefixes.array], 1, Rest[i].prefixes.len) = Join(Rest[i].prefixes)
        BY <1>11, <3>4
      <4>. QED  BY <3>1, <4>1 DEF Join
    <3>6. Indent(calls[i].nodes[1])' = Indent(Rest[i].nodes[1])
      BY <1>1, <3>1, Frame
    <3>7. Prefixed(calls[i])'
      BY <3>1, <3>4, <3>5, <3>6 DEF Prefixed
    <3>. QED  BY <3>3, <3>7
  <2>. QED  BY <1>14, <2>1, <2>2
<1>17. Nested'
  <2>. SUFFICES ASSUME NEW j \in DOMAIN calls', NEW k \in DOMAIN calls', j < k
                PROVE  /\ calls'[j].nodes # << >>
                       /\ calls'[k].nodes # << >> => Inside(calls'[k].nodes[1], calls'[j].nodes[1])
    BY DEF Nested, Inside
  <2>1. j \in DOMAIN Rest /\ calls'[j] = Rest[j]
    BY <1>13
  <2>2. /\ Rest[j].nodes # << >>
        /\ \A p \in Lines : In(p) = h => Inside(p, Rest[j].nodes[1])
    BY <1>1, <2>1, RestKeeps DEF h
  <2>3. CASE k = n + 1
    <3>1. calls'[k].nodes = nodes
      BY <1>12, <1>13, <2>3
    <3>2. ASSUME nodes # << >> PROVE nodes[1] \in Lines /\ In(nodes[1]) = h
      <4>1. nodes[1] \in Lines /\ DOMAIN nodes = 1 .. Len(nodes) /\ Len(nodes) \in Nat \ {0}
        BY <1>2, <1>6, <3>2, SiblingFacts
      <4>2. 1 \in DOMAIN nodes
        BY <4>1
      <4>. QED  BY <1>6, <4>1, <4>2
    <3>. QED  BY <2>1, <2>2, <3>1, <3>2
  <2>4. CASE k \in DOMAIN Rest
    <3>1. calls'[k] = Rest[k]
      BY <1>13, <2>4
    <3>2. Inside(Rest[k].nodes[1], Rest[j].nodes[1])
      BY <1>1, <2>1, <2>4, RestNested
    <3>. QED  BY <2>1, <2>2, <3>1, <3>2
  <2>. QED  BY <1>14, <2>3, <2>4
<1>18. Left' = Left \ {h}
  <2>1. Lines' = Lines
    BY <1>1, Frame
  <2>2. Left' = {p \in Lines : \E i \in DOMAIN calls' : Leads(calls'[i].nodes, p)}
    BY <2>1 DEF Left, Leads, Starts
  <2>3. ASSUME NEW p
        PROVE  (\E i \in DOMAIN calls' : Leads(calls'[i].nodes, p))
                 <=> Leads(nodes, p) \/ \E i \in DOMAIN Rest : Leads(Rest[i].nodes, p)
    <3>1. n + 1 \in DOMAIN calls' /\ calls'[n + 1].nodes = nodes
      BY <1>12, <1>13
    <3>2. \A i \in DOMAIN Rest : i \in DOMAIN calls' /\ calls'[i] = Rest[i]
      BY <1>13
    <3>. QED  BY <1>14, <3>1, <3>2
  <2>4. ASSUME NEW p \in Lines PROVE Leads(nodes, p) <=> Starts(h, p) /\ p # h
    <3>1. ASSUME Leads(nodes, p) PROVE Starts(h, p) /\ p # h
      <4>1. PICK k \in DOMAIN nodes : Starts(nodes[k], p)
        BY <3>1 DEF Leads
      <4>2. nodes[k] \in Seq(Int) /\ nodes[k] # << >> /\ In(nodes[k]) = h /\ p \in Seq(Int)
        <5>1. nodes[k] \in Lines
          BY <1>12
        <5>. QED  BY <1>2, <1>6, <5>1, DiskFacts
      <4>3. /\ Len(nodes[k]) \in Nat \ {0} /\ Len(h) = Len(nodes[k]) - 1
            /\ \A j \in 1 .. Len(h) : h[j] = nodes[k][j]
        BY <4>2, Directory
      <4>4. Len(nodes[k]) <= Len(p) /\ \A j \in 1 .. Len(nodes[k]) : nodes[k][j] = p[j]
        BY <4>1, <4>2, StartsByNames
      <4>5. Len(h) < Len(p) /\ Len(p) \in Nat
        BY <4>2, <4>3, <4>4
      <4>6. \A j \in 1 .. Len(h) : h[j] = p[j]
        BY <4>3, <4>4
      <4>7. Starts(h, p)
        <5>1. Len(h) <= Len(p)
          BY <4>3, <4>5
        <5>. QED  BY <1>3, <4>2, <4>6, <5>1, StartsByNames
      <4>. QED  BY <4>3, <4>5, <4>7
    <3>2. ASSUME Starts(h, p), p # h PROVE Leads(nodes, p)
      <4>1. PICK d \in Lines : In(d) = h /\ Starts(d, p)
        BY <1>2, <1>3, <3>2, Child
      <4>. QED  BY <1>6, <4>1 DEF Leads
    <3>. QED  BY <3>1, <3>2
  <2>5. /\ Left \subseteq Lines
        /\ \A p \in Lines : Starts(h, p) => p \in Left
        /\ \A p \in Lines : (\E i \in DOMAIN Rest : Leads(Rest[i].nodes, p)) => p \in Left /\ p # h
        /\ \A p \in Left : Starts(h, p) \/ \E i \in DOMAIN Rest : Leads(Rest[i].nodes, p)
    BY <1>1, LeftFacts DEF h
  <2>. QED  BY <2>2, <2>3, <2>4, <2>5
<1>19. out' \in Seq(Seq(Words)) /\ DrawnSoFar'
  BY <1>1, <1>18, LineDrawn DEF h
<1>. QED  BY <1>1, <1>13, <1>15, <1>16, <1>17, <1>19 DEF TreeIInv, Words

LEMMA PrintedKeeps ==
  ASSUME TreeIInv, treePc' = "done", treePc = "printing", calls = << >>,
         UNCHANGED <<disk, withFiles, tree, err, calls, arrays, out>>
  PROVE  TreeIInv'
<1>1. Lines' = Lines /\ Left' = Left
  BY Frame DEF Left
<1>2. DrawnSoFar'
  BY <1>1, Frame DEF TreeIInv, DrawnSoFar
<1>3. Slices'
  BY DEF TreeIInv, Slices
<1>. QED  BY <1>2, <1>3 DEF TreeIInv, Nested

LEMMA StutterKeeps ==
  ASSUME TreeIInv, UNCHANGED treeVars
  PROVE  TreeIInv'
<1>1. UNCHANGED <<treePc, disk, withFiles, tree, err, calls, arrays, out>>
  BY DEF treeVars
<1>2. Lines' = Lines /\ Left' = Left
  BY <1>1, Frame DEF Left
<1>3. DrawnSoFar <=> DrawnSoFar'
  BY <1>1, <1>2, Frame DEF DrawnSoFar
<1>4. Slices' /\ (Nested' <=> Nested)
  BY <1>1 DEF TreeIInv, Slices, Nested
<1>5. \A i \in DOMAIN calls :
        Siblings(calls[i].nodes) /\ Prefixed(calls[i]) => (Siblings(calls[i].nodes) /\ Prefixed(calls[i]))'
  BY <1>1, Frame DEF Siblings, Prefixed, Join
<1>. QED  BY <1>1, <1>3, <1>4, <1>5 DEF TreeIInv

-----------------------------------------------------------------------------

LEMMA InvDraws == TreeIInv => TreeIsDrawn
<1>. SUFFICES ASSUME TreeIInv, treePc = "done"
              PROVE  /\ Len(out) = Cardinality(Lines) /\ \A p \in Lines : out[At(p)] = LineOf(p)
                     /\ err = (~ disk[<< >>].opens \/ disk[<< >>].fails)
  BY DEF TreeIsDrawn
<1>1. calls = << >> /\ DrawnSoFar /\ err = (~ disk[<< >>].opens \/ disk[<< >>].fails)
  BY DEF TreeIInv
<1>2. Left = {}
  BY <1>1 DEF Left
<1>. QED  BY <1>1, <1>2 DEF DrawnSoFar

\* TreeIsDrawn, for every finite directory, with and without files, and however much
\* append allocates: what is printed is the tree, every entry that is shown on the
\* line that is its place, although the slices of prefixes share their arrays.
THEOREM TreeDrawn == TreeSpec => []TreeIsDrawn
<1>1. TreeIInv /\ [TreeNext]_treeVars => TreeIInv'
  <2>. SUFFICES ASSUME TreeIInv, [TreeNext]_treeVars PROVE TreeIInv'
    OBVIOUS
  <2>1. ASSUME NEW files \in Disks, NEW wf \in BOOLEAN, dirTree(files, wf) PROVE TreeIInv'
    BY <2>1, StartKeeps
  <2>2. CASE PrintFile
    BY <2>2, PrintFileKeeps
  <2>3. ASSUME NEW spare \in 0 .. MaxSpare, PrintDirectory(spare) PROVE TreeIInv'
    BY <2>3, PrintDirectoryKeeps
  <2>4. CASE NoNodes
    BY <2>4, NoNodesKeeps
  <2>5. CASE Printed
    BY <2>5, PrintedKeeps DEF Printed
  <2>6. CASE UNCHANGED treeVars
    BY <2>6, StutterKeeps
  <2>. QED  BY <2>1, <2>2, <2>3, <2>4, <2>5, <2>6 DEF TreeNext
<1>. QED  BY InvInit, <1>1, InvDraws, PTL DEF TreeSpec

-----------------------------------------------------------------------------
(* Nested values: the data.                                                *)

\* One start of a path starts another
LEMMA StartsFurther ==
  ASSUME NEW a \in Seq(Int), NEW b \in Seq(Int), NEW p \in Seq(Int)
  PROVE  /\ Starts(a, b) /\ Starts(b, p) => Starts(a, p)
         /\ Starts(a, p) /\ Starts(b, p) /\ Len(a) = Len(b) => a = b
         /\ Starts(a, a) /\ (Len(b) < Len(a) => ~ Starts(a, b))
<1>1. ASSUME Starts(a, b), Starts(b, p) PROVE Starts(a, p)
  <2>1. Len(a) <= Len(b) /\ \A j \in 1 .. Len(a) : a[j] = b[j]
    BY <1>1, StartsByNames
  <2>2. Len(b) <= Len(p) /\ \A j \in 1 .. Len(b) : b[j] = p[j]
    BY <1>1, StartsByNames
  <2>3. Len(a) \in Nat /\ Len(b) \in Nat /\ Len(p) \in Nat
    OBVIOUS
  <2>4. Len(a) <= Len(p) /\ \A j \in 1 .. Len(a) : a[j] = p[j]
    BY <2>1, <2>2, <2>3
  <2>. QED  BY <2>4, StartsByNames
<1>2. Starts(a, p) /\ Starts(b, p) /\ Len(a) = Len(b) => a = b
  BY DEF Starts
<1>3. Starts(a, a) /\ (Len(b) < Len(a) => ~ Starts(a, b))
  <2>1. Len(a) \in Nat /\ Len(b) \in Nat /\ SubSeq(a, 1, Len(a)) = a
    OBVIOUS
  <2>. QED  BY <2>1 DEF Starts
<1>. QED  BY <1>1, <1>2, <1>3

LEMMA CallFacts ==
  ASSUME call \in Calls
  PROVE  /\ << >> \in DOMAIN call.data /\ \A p \in DOMAIN call.data : p \in Seq(Int)
         /\ \A p \in DOMAIN call.data : \A k \in 0 .. Len(p) - 1 :
              SubSeq(p, 1, k) \in DOMAIN call.data /\ Json(SubSeq(p, 1, k)) \in {"map", "slice"}
         /\ << >> \in DOMAIN call.type /\ \A p \in DOMAIN call.type : p \in Seq(Int)
         /\ \A t \in DOMAIN call.type : call.type[t] = "slice" => Append(t, Elem) \in DOMAIN call.type
         /\ \A p \in DOMAIN call.out : p \in Seq(Int)
         /\ call.out = [p \in DOMAIN call.out |-> call.out[p]]
<1>1. Seq(Nat \ {Elem}) \subseteq Seq(Int) /\ Seq(Nat) \subseteq Seq(Int)
  OBVIOUS
<1>2. /\ << >> \in DOMAIN call.data /\ DOMAIN call.data \subseteq Seq(Nat \ {Elem})
      /\ << >> \in DOMAIN call.type /\ DOMAIN call.type \subseteq Seq(Nat)
      /\ \A t \in DOMAIN call.type : call.type[t] = "slice" => Append(t, Elem) \in DOMAIN call.type
      /\ DOMAIN call.out \subseteq Seq(Nat \ {Elem})
      /\ call.out = [p \in DOMAIN call.out |-> call.out[p]]
  BY I2sAssumption
<1>3. \A p \in DOMAIN call.data : \A k \in 0 .. Len(p) - 1 :
        SubSeq(p, 1, k) \in DOMAIN call.data /\ Json(SubSeq(p, 1, k)) \in {"map", "slice"}
  BY I2sAssumption DEF Json
<1>4. /\ \A p \in DOMAIN call.data : p \in Seq(Int)
      /\ \A p \in DOMAIN call.type : p \in Seq(Int)
      /\ \A p \in DOMAIN call.out : p \in Seq(Int)
  BY <1>1, <1>2
<1>. QED  BY <1>2, <1>3, <1>4

LEMMA PartFacts ==
  ASSUME call \in Calls, NEW p \in DOMAIN call.data, NEW q \in Parts(p)
  PROVE  /\ q \in DOMAIN call.data /\ q \in Seq(Int) /\ q # << >> /\ In(q) = p /\ p \in Seq(Int)
         /\ Len(p) \in Nat /\ Len(q) = Len(p) + 1 /\ Starts(p, q) /\ p # q
         /\ \A j \in 1 .. Len(p) : q[j] = p[j]
<1>1. /\ q \in DOMAIN call.data /\ q \in Seq(Int) /\ q # << >> /\ In(q) = p /\ p \in Seq(Int)
  BY CallFacts DEF Parts
<1>2. /\ Len(q) \in Nat \ {0} /\ Len(p) = Len(q) - 1 /\ \A j \in 1 .. Len(q) - 1 : p[j] = q[j]
  BY <1>1, Directory
<1>3. Len(p) <= Len(q) /\ \A j \in 1 .. Len(p) : p[j] = q[j]
  BY <1>2
<1>4. Starts(p, q)
  BY <1>1, <1>3, StartsByNames
<1>. QED  BY <1>1, <1>2, <1>3, <1>4

\* What is inside p is inside a part of it
LEMMA InsidePart ==
  ASSUME call \in Calls, NEW p \in DOMAIN call.data, NEW d \in DOMAIN call.data,
         Starts(p, d), d # p
  PROVE  Json(p) \in {"map", "slice"} /\ \E q \in Parts(p) : Starts(q, d)
<1>1. p \in Seq(Int) /\ d \in Seq(Int) /\ Len(p) \in Nat /\ Len(d) \in Nat
  BY CallFacts
<1>2. Len(p) < Len(d) /\ p = SubSeq(d, 1, Len(p))
  <2>1. Len(p) <= Len(d) /\ p = SubSeq(d, 1, Len(p)) /\ SubSeq(d, 1, Len(d)) = d
    BY <1>1 DEF Starts
  <2>2. Len(p) # Len(d)
    BY <2>1
  <2>. DEFINE k == Len(p)
              l == Len(d)
  <2>3. k \in Nat /\ l \in Nat /\ k <= l /\ k # l
    BY <1>1, <2>1, <2>2
  <2>. HIDE DEF k, l
  <2>4. k < l
    BY <2>3
  <2>. QED  BY <2>1, <2>4 DEF k, l
<1>3. Json(p) \in {"map", "slice"}
  <2>1. Len(p) \in 0 .. Len(d) - 1
    BY <1>1, <1>2
  <2>. QED  BY <1>2, <2>1, CallFacts
<1>. DEFINE m == Len(p) + 1
            q == SubSeq(d, 1, m)
<1>4. m \in 0 .. Len(d) /\ m - 1 \in 0 .. m /\ m - 1 = Len(p)
  BY <1>1, <1>2
<1>5. q \in Seq(Int) /\ Len(q) = m
  BY <1>1, <1>4, StartOfPath
<1>6. q \in DOMAIN call.data
  <2>1. CASE m = Len(d)
    <3>1. q = d
      BY <1>1, <2>1
    <3>. QED  BY <3>1
  <2>2. CASE m # Len(d)
    <3>1. m \in 0 .. Len(d) - 1
      BY <1>1, <1>4, <2>2
    <3>. QED  BY <3>1, CallFacts
  <2>. QED  BY <2>1, <2>2
<1>7. In(q) = p
  <2>1. SubSeq(SubSeq(d, 1, m), 1, m - 1) = SubSeq(d, 1, m - 1)
    BY <1>1, <1>4, StartOfStart
  <2>. QED  BY <1>2, <1>4, <1>5, <2>1 DEF In
<1>8. Starts(q, d)
  BY <1>4, <1>5 DEF Starts
<1>9. q # << >>
  <2>. HIDE DEF q
  <2>1. Len(q) # 0
    BY <1>1, <1>5
  <2>. QED  BY <1>5, <2>1, EmptySeq
<1>. QED  BY <1>3, <1>6, <1>7, <1>8, <1>9 DEF Parts

\* Parts beside each other hold nothing in common
LEMMA PartsApart ==
  ASSUME call \in Calls, NEW p \in DOMAIN call.data, NEW q \in Parts(p), NEW r \in Parts(p),
         NEW d \in Seq(Int), Starts(q, d), Starts(r, d)
  PROVE  q = r
<1>1. q \in Seq(Int) /\ r \in Seq(Int) /\ Len(q) = Len(r)
  BY PartFacts
<1>. QED  BY <1>1, StartsFurther

\* The type of an element
LEMMA TypeOfElement ==
  ASSUME call \in Calls, NEW p \in DOMAIN call.data, NEW q \in Parts(p), Json(p) = "slice",
         TypePath(p) \in DOMAIN call.type, Kind(p) = "slice"
  PROVE  TypePath(q) \in DOMAIN call.type
<1>. DEFINE t == TypePath(p)
            u == TypePath(q)
            n == Len(p)
<1>1. /\ q \in Seq(Int) /\ p \in Seq(Int) /\ n \in Nat /\ Len(q) = n + 1
      /\ \A j \in 1 .. n : q[j] = p[j]
      /\ In(q) = p /\ DOMAIN q = 1 .. n + 1 /\ DOMAIN p = 1 .. n
  BY PartFacts
<1>2. /\ t = [k \in 1 .. n |-> IF Json(SubSeq(p, 1, k - 1)) = "slice" THEN Elem ELSE p[k]]
      /\ u = [k \in 1 .. n + 1 |-> IF Json(SubSeq(q, 1, k - 1)) = "slice" THEN Elem ELSE q[k]]
  BY <1>1 DEF TypePath
<1>3. \A k \in 1 .. n : SubSeq(q, 1, k - 1) = SubSeq(p, 1, k - 1)
  <2>. SUFFICES ASSUME NEW k \in 1 .. n PROVE SubSeq(q, 1, k - 1) = SubSeq(p, 1, k - 1)
    OBVIOUS
  <2>1. k - 1 \in 0 .. Len(q) /\ k - 1 <= Len(p) /\ \A j \in 1 .. k - 1 : q[j] = p[j]
    BY <1>1
  <2>. QED  BY <1>1, <2>1, SameStart
<1>4. SubSeq(q, 1, n) = p
  BY <1>1 DEF In
<1>. HIDE DEF t, u
<1>5. t \in Seq(Int) /\ u \in Seq(Int) /\ Len(t) = n /\ Len(u) = n + 1
  <2>1. \A k \in 1 .. n : p[k] \in Int
    BY <1>1
  <2>2. \A k \in 1 .. n + 1 : q[k] \in Int
    BY <1>1
  <2>3. t \in [1 .. n -> Int] /\ u \in [1 .. n + 1 -> Int]
    BY <1>2, <2>1, <2>2 DEF Elem
  <2>4. \A m \in Nat : \A f \in [1 .. m -> Int] : f \in Seq(Int) /\ Len(f) = m
    OBVIOUS
  <2>5. n \in Nat /\ n + 1 \in Nat
    BY <1>1
  <2>. HIDE DEF n
  <2>6. t \in Seq(Int) /\ Len(t) = n
    BY <2>3, <2>4, <2>5
  <2>7. u \in Seq(Int) /\ Len(u) = n + 1
    BY <2>3, <2>4, <2>5
  <2>. QED  BY <2>6, <2>7
<1>6. \A k \in 1 .. n : u[k] = t[k]
  <2>. SUFFICES ASSUME NEW k \in 1 .. n PROVE u[k] = t[k]
    OBVIOUS
  <2>1. k \in 1 .. n + 1
    BY <1>1
  <2>2. u[k] = IF Json(SubSeq(q, 1, k - 1)) = "slice" THEN Elem ELSE q[k]
    BY <1>2, <2>1
  <2>3. t[k] = IF Json(SubSeq(p, 1, k - 1)) = "slice" THEN Elem ELSE p[k]
    BY <1>2
  <2>. QED  BY <1>1, <1>3, <2>2, <2>3
<1>7. u[n + 1] = Elem
  <2>1. n + 1 \in 1 .. n + 1 /\ (n + 1) - 1 = n
    BY <1>1
  <2>2. u[n + 1] = IF Json(SubSeq(q, 1, (n + 1) - 1)) = "slice" THEN Elem ELSE q[n + 1]
    BY <1>2, <2>1
  <2>. QED  BY <1>4, <2>1, <2>2
<1>8. u = Append(t, Elem)
  <2>. DEFINE v == Append(t, Elem)
  <2>1. v \in Seq(Int) /\ Len(v) = n + 1 /\ v[n + 1] = Elem /\ \A k \in 1 .. n : v[k] = t[k]
    BY <1>1, <1>5 DEF Elem
  <2>. HIDE DEF v
  <2>2. \A k \in 1 .. n + 1 : k \in 1 .. n \/ k = n + 1
    BY <1>1
  <2>3. \A k \in 1 .. n + 1 : u[k] = v[k]
    BY <1>6, <1>7, <2>1, <2>2
  <2>. QED  BY <1>5, <2>1, <2>3, SeqEqual DEF v
<1>9. Append(t, Elem) \in DOMAIN call.type
  BY CallFacts DEF Kind, t
<1>. QED  BY <1>8, <1>9 DEF u

\* A scalar holds nothing else
LEMMA ScalarAlone ==
  ASSUME call \in Calls, NEW q \in DOMAIN call.data, Json(q) \notin {"map", "slice"}
  PROVE  \A d \in DOMAIN call.data : Starts(q, d) => d = q
BY InsidePart

-----------------------------------------------------------------------------
(* Nested values: what becomes of a part.                                  *)

LEMMA BeginsFacts ==
  ASSUME NEW q, TypePath(q) \in DOMAIN call.type
  PROVE  /\ Begins(q) \in {"fill", "skip", "error", "panic"}
         /\ Begins(q) = "fill" => ConformsAt(q) /\ Json(q) \in {"map", "slice"}
         /\ Begins(q) = "skip" => Json(q) \notin {"map", "slice"}
         /\ Begins(q) \in {"error", "panic"} => ~ ConformsAt(q)
<1>1. CASE Json(q) = "slice"
  BY <1>1 DEF Begins, ConformsAt
<1>2. CASE Json(q) = "map"
  BY <1>2 DEF Begins, ConformsAt
<1>3. CASE Json(q) \notin {"map", "slice"}
  BY <1>3 DEF Begins, ConformsAt
<1>. QED  BY <1>1, <1>2, <1>3

LEMMA BeginsFieldFacts ==
  ASSUME NEW q
  PROVE  /\ BeginsField(q) \in {"fill", "set", "error", "panic"}
         /\ BeginsField(q) = "fill" => ConformsAt(q) /\ Json(q) \in {"map", "slice"}
         /\ BeginsField(q) = "set" => ConformsAt(q) /\ Json(q) \notin {"map", "slice"}
         /\ BeginsField(q) \in {"error", "panic"} => ~ ConformsAt(q)
<1>1. CASE TypePath(q) \notin DOMAIN call.type
  BY <1>1 DEF BeginsField, ConformsAt
<1>2. CASE TypePath(q) \in DOMAIN call.type
  <2>1. CASE Json(q) = "null"
    <3>1. ~ Fits(q)
      BY <2>1 DEF Fits
    <3>. QED  BY <2>1, <3>1 DEF BeginsField, ConformsAt
  <2>2. CASE Json(q) = "map"
    <3>1. BeginsField(q) = Begins(q)
      BY <1>2, <2>2 DEF BeginsField
    <3>2. Begins(q) # "skip"
      BY <2>2 DEF Begins
    <3>. QED  BY <1>2, <2>2, <3>1, <3>2, BeginsFacts
  <2>3. CASE Json(q) = "slice"
    BY <1>2, <2>3 DEF BeginsField, ConformsAt
  <2>4. CASE Json(q) \notin {"map", "slice", "null"}
    BY <1>2, <2>4 DEF BeginsField, ConformsAt
  <2>. QED  BY <2>1, <2>2, <2>3, <2>4
<1>. QED  BY <1>1, <1>2

\* With its copy, the value of a loop is the one it has when it is through with q too
LEMMA PutFilled ==
  ASSUME call \in Calls, NEW p \in DOMAIN call.data, NEW D \in SUBSET Parts(p),
         NEW q \in Parts(p), q \notin D
  PROVE  Put(Filled(p, D), q, Copy(q)) = Filled(p, D \cup {q})
<1>. DEFINE E == D \cup {q}
            K == KeptBy(p, D)
            W == WrittenBy(p, D)
            KE == KeptBy(p, E)
            WE == WrittenBy(p, E)
            N == Written(q)
            old == Filled(p, D)
<1>1. /\ q \in Seq(Int) /\ p \in Seq(Int) /\ Len(p) < Len(q)
      /\ \A r \in D : r \in Parts(p) /\ r # q
  <2>1. q \in Seq(Int) /\ p \in Seq(Int) /\ Len(q) = Len(p) + 1 /\ Len(p) \in Nat
    BY PartFacts
  <2>. QED  BY <2>1
<1>2. \A d \in DOMAIN call.data : d \in Seq(Int)
  BY CallFacts
<1>3. \A d \in K : ~ Starts(q, d) <=> d \in KE
  BY DEF KeptBy
<1>4. KE \subseteq K
  BY DEF KeptBy
<1>5. ASSUME NEW d \in W PROVE ~ Starts(q, d)
  <2>1. d \in DOMAIN call.data
    BY <1>5 DEF WrittenBy
  <2>2. CASE d = p
    BY <1>1, <2>2, StartsFurther
  <2>3. CASE \E r \in D : Starts(r, d)
    <3>1. PICK r \in D : Starts(r, d)
      BY <2>3
    <3>. QED  BY <1>1, <1>2, <2>1, <3>1, PartsApart
  <2>. QED  BY <1>5, <2>2, <2>3 DEF WrittenBy
<1>6. WE = W \cup N
  BY DEF WrittenBy, Written
<1>7. DOMAIN old = K \cup W /\ \A d \in K \cup W : old[d] = IF d \in W THEN Copied(d) ELSE call.out[d]
  BY DEF Filled
<1>8. DOMAIN Copy(q) = N /\ \A d \in N : Copy(q)[d] = Copied(d)
  BY DEF Copy
<1>. HIDE DEF E, K, W, KE, WE, N, old
<1>. DEFINE rest == {d \in DOMAIN old : ~ Starts(q, d)}
            put == [d \in rest \cup DOMAIN Copy(q) |-> IF d \in DOMAIN Copy(q) THEN Copy(q)[d] ELSE old[d]]
            new == [d \in KE \cup WE |-> IF d \in WE THEN Copied(d) ELSE call.out[d]]
<1>9. rest = KE \cup W
  BY <1>3, <1>4, <1>5, <1>7
<1>10. rest \cup DOMAIN Copy(q) = KE \cup WE
  BY <1>6, <1>8, <1>9
<1>11. ASSUME NEW d \in KE \cup WE
       PROVE  (IF d \in DOMAIN Copy(q) THEN Copy(q)[d] ELSE old[d])
                = (IF d \in WE THEN Copied(d) ELSE call.out[d])
  <2>1. CASE d \in N
    BY <1>6, <1>8, <2>1
  <2>2. CASE d \notin N
    <3>1. d \in KE \cup W
      BY <1>6, <1>11, <2>2
    <3>2. d \in K \cup W
      BY <1>4, <3>1
    <3>. QED  BY <1>6, <1>7, <1>8, <2>2, <3>2
  <2>. QED  BY <2>1, <2>2
<1>12. put = new
  BY <1>10, <1>11
<1>13. Put(old, q, Copy(q)) = put
  BY DEF Put
<1>14. Filled(p, E) = new
  BY DEF Filled, KE, WE
<1>. QED  BY <1>12, <1>13, <1>14 DEF old, E

\* A loop that is through with everything has the copy
LEMMA FilledWhole ==
  ASSUME call \in Calls, NEW p \in DOMAIN call.data, Json(p) \in {"map", "slice"}
  PROVE  /\ p # << >> => Filled(p, Parts(p)) = Copy(p)
         /\ p = << >> => Filled(p, Parts(p)) = OutCopied
<1>1. WrittenBy(p, Parts(p)) = Written(p)
  <2>1. ASSUME NEW d \in DOMAIN call.data
        PROVE  Starts(p, d) <=> d = p \/ \E q \in Parts(p) : Starts(q, d)
    <3>1. d \in Seq(Int) /\ p \in Seq(Int)
      BY CallFacts
    <3>2. Starts(p, d) => d = p \/ \E q \in Parts(p) : Starts(q, d)
      BY InsidePart
    <3>3. ASSUME NEW q \in Parts(p), Starts(q, d) PROVE Starts(p, d)
      BY <3>1, <3>3, PartFacts, StartsFurther
    <3>4. Starts(p, p)
      BY <3>1, StartsFurther
    <3>. QED  BY <3>2, <3>3, <3>4
  <2>. QED  BY <2>1 DEF WrittenBy, Written
<1>2. ASSUME p # << >> PROVE Filled(p, Parts(p)) = Copy(p)
  <2>1. KeptBy(p, Parts(p)) = {}
    BY <1>2 DEF KeptBy
  <2>2. KeptBy(p, Parts(p)) \cup WrittenBy(p, Parts(p)) = Written(p)
    BY <1>1, <2>1
  <2>. QED  BY <1>1, <2>2 DEF Filled, Copy
<1>3. ASSUME p = << >> PROVE Filled(p, Parts(p)) = OutCopied
  <2>1. KeptBy(p, Parts(p)) = Untouched
    BY <1>3 DEF KeptBy, Untouched
  <2>. QED  BY <1>1, <1>3, <2>1 DEF Filled, OutCopied
<1>. QED  BY <1>2, <1>3

\* A field of out is the copy or what was there
LEMMA PartOfFilled ==
  ASSUME call \in Calls, Json(<< >>) = "map", NEW D \in SUBSET Parts(<< >>),
         NEW f \in Seq(Int), Len(f) = 1
  PROVE  /\ f \in D => Part(Filled(<< >>, D), f) = Copy(f)
         /\ f \notin D => Part(Filled(<< >>, D), f) = Part(call.out, f)
<1>. DEFINE root == << >>
            K == KeptBy(root, D)
            W == WrittenBy(root, D)
            v == Filled(root, D)
<1>1. /\ root \in DOMAIN call.data /\ \A d \in DOMAIN call.data : d \in Seq(Int)
      /\ \A d \in DOMAIN call.out : d \in Seq(Int)
  BY CallFacts
<1>2. \A q \in D : q \in Seq(Int) /\ Len(q) = 1
  <2>. SUFFICES ASSUME NEW q \in D PROVE q \in Seq(Int) /\ Len(q) = 1
    OBVIOUS
  <2>. DEFINE m == Len(root)
  <2>1. q \in Seq(Int) /\ Len(q) = m + 1
    BY <1>1, PartFacts
  <2>2. m = 0
    OBVIOUS
  <2>. QED  BY <2>1, <2>2
<1>3. W = {d \in DOMAIN call.data : Json(d) # "map" /\ \E q \in D : Starts(q, d)}
  BY DEF WrittenBy
<1>4. K = {d \in DOMAIN call.out : ~ \E q \in D : Starts(q, d)}
  BY DEF KeptBy
<1>5. DOMAIN v = K \cup W /\ \A d \in K \cup W : v[d] = IF d \in W THEN Copied(d) ELSE call.out[d]
  BY DEF Filled
<1>. HIDE DEF root, K, W, v
<1>6. ASSUME NEW q \in D, NEW d \in Seq(Int), Starts(q, d), Starts(f, d) PROVE q = f
  BY <1>2, <1>6, StartsFurther
<1>7. ASSUME f \in D PROVE Part(v, f) = Copy(f)
  <2>1. {d \in DOMAIN v : Starts(f, d)} = Written(f)
    <3>1. \A d \in K : ~ Starts(f, d)
      BY <1>4, <1>7
    <3>2. \A d \in W : Starts(f, d) => d \in Written(f)
      BY <1>3 DEF Written
    <3>3. \A d \in Written(f) : d \in W /\ Starts(f, d)
      BY <1>3, <1>7 DEF Written
    <3>. QED  BY <1>5, <3>1, <3>2, <3>3
  <2>2. \A d \in Written(f) : v[d] = Copied(d)
    BY <1>3, <1>5, <1>7 DEF Written
  <2>. QED  BY <2>1, <2>2 DEF Part, Copy
<1>8. ASSUME f \notin D PROVE Part(v, f) = Part(call.out, f)
  <2>1. \A d \in W : ~ Starts(f, d)
    BY <1>1, <1>3, <1>6, <1>8
  <2>2. \A d \in DOMAIN call.out : Starts(f, d) => d \in K
    BY <1>1, <1>4, <1>6, <1>8
  <2>3. {d \in DOMAIN v : Starts(f, d)} = {d \in DOMAIN call.out : Starts(f, d)}
    BY <1>4, <1>5, <2>1, <2>2
  <2>4. \A d \in {e \in DOMAIN call.out : Starts(f, e)} : v[d] = call.out[d]
    BY <1>5, <2>1, <2>2
  <2>. QED  BY <2>3, <2>4 DEF Part
<1>. QED  BY <1>7, <1>8 DEF v, root

-----------------------------------------------------------------------------
(* Nested values: the loops.                                               *)

LEMMA OwnElements ==
  ASSUME NEW S, NEW s \in Seq(S)
  PROVE  s \in Seq({s[j] : j \in DOMAIN s})
OBVIOUS

\* The first k elements of a sequence, and t
LEMMA CutAppend ==
  ASSUME NEW S, NEW s \in Seq(S), NEW k \in 0 .. Len(s), NEW t
  PROVE  /\ Append(SubSeq(s, 1, k), t) \in Seq(S \cup {t})
         /\ Len(Append(SubSeq(s, 1, k), t)) = k + 1
         /\ DOMAIN Append(SubSeq(s, 1, k), t) = 1 .. k + 1
         /\ \A j \in 1 .. k : Append(SubSeq(s, 1, k), t)[j] = s[j]
         /\ Append(SubSeq(s, 1, k), t)[k + 1] = t
<1>. DEFINE a == SubSeq(s, 1, k)
<1>1. a \in Seq(S \cup {t}) /\ Len(a) = k /\ \A j \in 1 .. k : a[j] = s[j]
  <2>1. a \in Seq(S) /\ Len(a) = k /\ \A j \in 1 .. k : a[j] = s[j]
    BY StartOf
  <2>2. Seq(S) \subseteq Seq(S \cup {t})
    OBVIOUS
  <2>. QED  BY <2>1, <2>2
<1>2. t \in S \cup {t} /\ k \in Nat
  OBVIOUS
<1>. HIDE DEF a
<1>3. /\ Append(a, t) \in Seq(S \cup {t}) /\ Len(Append(a, t)) = k + 1
      /\ \A j \in 1 .. k : Append(a, t)[j] = a[j]
      /\ Append(a, t)[k + 1] = t
  BY <1>1, <1>2, AppendProperties
<1>4. DOMAIN Append(a, t) = 1 .. k + 1
  BY <1>3, LenProperties
<1>. QED  BY <1>1, <1>3, <1>4 DEF a

\* What the invariant says of the loops
LEMMA LoopFacts ==
  ASSUME i2sIInv, result.res = "filling"
  PROVE  /\ call \in Calls /\ call.pointer
         /\ loops \in Seq({loops[j] : j \in DOMAIN loops})
         /\ Len(loops) \in Nat \ {0} /\ DOMAIN loops = 1 .. Len(loops) /\ Len(loops) \in DOMAIN loops
         /\ loops[1].at = << >> /\ Top = loops[Len(loops)]
         /\ \A j \in DOMAIN loops :
              /\ loops[j] = [at |-> loops[j].at, left |-> loops[j].left, out |-> loops[j].out]
              /\ loops[j].at \in DOMAIN call.data /\ loops[j].left \subseteq Parts(loops[j].at)
              /\ Json(loops[j].at) \in {"map", "slice"} /\ ConformsAt(loops[j].at)
         /\ \A j \in 2 .. Len(loops) : loops[j].at \in Parts(loops[j - 1].at) \ loops[j - 1].left
         /\ NoScalarsInSlices =>
              \A j \in DOMAIN loops : /\ loops[j].out = Filled(loops[j].at, Done(j))
                                      /\ \A q \in Done(j) : Conforms(q)
<1>1. call \in Calls /\ call.pointer /\ Stacked /\ CopiedSoFar
  BY DEF i2sIInv
<1>2. /\ loops \in Seq({loops[j] : j \in DOMAIN loops}) /\ loops # << >> /\ loops[1].at = << >>
      /\ \A j \in DOMAIN loops :
           /\ loops[j] = [at |-> loops[j].at, left |-> loops[j].left, out |-> loops[j].out]
           /\ loops[j].at \in DOMAIN call.data /\ loops[j].left \subseteq Parts(loops[j].at)
           /\ Json(loops[j].at) \in {"map", "slice"} /\ ConformsAt(loops[j].at)
           /\ j # 1 => loops[j].at \in Parts(loops[j - 1].at) \ loops[j - 1].left
  BY <1>1 DEF Stacked
<1>3. Len(loops) \in Nat \ {0} /\ DOMAIN loops = 1 .. Len(loops)
  BY <1>2, EmptySeq, LenProperties
<1>4. Len(loops) \in DOMAIN loops
  BY <1>3
<1>5. \A j \in 2 .. Len(loops) : j \in DOMAIN loops /\ j # 1
  BY <1>3
<1>. QED  BY <1>1, <1>2, <1>3, <1>4, <1>5 DEF CopiedSoFar, Top

LEMMA CallFrame ==
  ASSUME call' = call
  PROVE  /\ \A p : /\ Json(p)' = Json(p) /\ Parts(p)' = Parts(p)
                   /\ ConformsAt(p)' <=> ConformsAt(p)
                   /\ Conforms(p)' <=> Conforms(p)
                   /\ Copy(p)' = Copy(p)
                   /\ \A D : Filled(p, D)' = Filled(p, D)
         /\ NoScalarsInSlices' <=> NoScalarsInSlices
         /\ OutCopied' = OutCopied
<1>1. \A p : Json(p)' = Json(p) /\ Parts(p)' = Parts(p)
  BY DEF Json, Parts
<1>2. \A p : TypePath(p)' = TypePath(p)
  BY <1>1 DEF TypePath
<1>3. \A p : Kind(p)' = Kind(p)
  BY <1>2 DEF Kind
<1>4. \A p : (Fits(p)' <=> Fits(p)) /\ Scalar(p)' = Scalar(p)
  BY <1>1, <1>3 DEF Fits, Scalar
<1>5. \A p : ConformsAt(p)' <=> ConformsAt(p)
  BY <1>1, <1>2, <1>3, <1>4 DEF ConformsAt
<1>6. \A p : Conforms(p)' <=> Conforms(p)
  BY <1>5 DEF Conforms
<1>7. \A p : Copied(p)' = Copied(p)
  BY <1>1, <1>4 DEF Copied
<1>8. \A p : Written(p)' = Written(p)
  BY <1>1 DEF Written
<1>9. \A p : Copy(p)' = Copy(p)
  BY <1>7, <1>8 DEF Copy
<1>10. \A p, D : KeptBy(p, D)' = KeptBy(p, D) /\ WrittenBy(p, D)' = WrittenBy(p, D)
  BY <1>1 DEF KeptBy, WrittenBy
<1>11. \A p, D : Filled(p, D)' = Filled(p, D)
  BY <1>7, <1>10 DEF Filled
<1>12. NoScalarsInSlices' <=> NoScalarsInSlices
  BY <1>1 DEF NoScalarsInSlices
<1>13. Untouched' = Untouched
  BY <1>1 DEF Untouched
<1>14. OutCopied' = OutCopied
  BY <1>7, <1>8, <1>13 DEF OutCopied
<1>. QED  BY <1>1, <1>5, <1>6, <1>9, <1>11, <1>12, <1>14

\* The loop k gets through with q, while those inside it have ended
LEMMA Through ==
  ASSUME i2sIInv, result.res = "filling", call' = call,
         NEW k \in 1 .. Len(loops), NEW q \in Parts(loops[k].at),
         NEW L \in SUBSET loops[k].left, NEW o,
         q \notin Done(k), Parts(loops[k].at) \ L = Done(k) \cup {q},
         loops' = Append(SubSeq(loops, 1, k - 1), [at |-> loops[k].at, left |-> L, out |-> o]),
         NoScalarsInSlices => Conforms(q) /\ o = Put(loops[k].out, q, Copy(q))
  PROVE  Stacked' /\ CopiedSoFar'
<1>. DEFINE n == Len(loops)
            at == loops[k].at
            t == [at |-> at, left |-> L, out |-> o]
<1>1. /\ call \in Calls /\ n \in Nat \ {0} /\ DOMAIN loops = 1 .. n /\ loops[1].at = << >>
      /\ loops \in Seq({loops[j] : j \in DOMAIN loops})
      /\ \A j \in DOMAIN loops :
           /\ loops[j] = [at |-> loops[j].at, left |-> loops[j].left, out |-> loops[j].out]
           /\ loops[j].at \in DOMAIN call.data /\ loops[j].left \subseteq Parts(loops[j].at)
           /\ Json(loops[j].at) \in {"map", "slice"} /\ ConformsAt(loops[j].at)
      /\ \A j \in 2 .. n : loops[j].at \in Parts(loops[j - 1].at) \ loops[j - 1].left
  BY LoopFacts
<1>2. k - 1 \in 0 .. n /\ (k - 1) + 1 = k /\ k \in DOMAIN loops
  BY <1>1
<1>3. t.at = at /\ t.left = L /\ t.out = o /\ t = [at |-> t.at, left |-> t.left, out |-> t.out]
  OBVIOUS
<1>4. at \in DOMAIN call.data /\ L \subseteq Parts(at)
  BY <1>1, <1>2
<1>. HIDE DEF t
<1>5. loops' = Append(SubSeq(loops, 1, k - 1), t)
  BY DEF t
<1>6. /\ loops' \in Seq({loops[j] : j \in DOMAIN loops} \cup {t}) /\ Len(loops') = k
      /\ DOMAIN loops' = 1 .. k
      /\ \A j \in 1 .. k - 1 : loops'[j] = loops[j]
      /\ loops'[k] = t
  BY <1>1, <1>2, <1>5, CutAppend
<1>7. loops' \in Seq({loops'[j] : j \in DOMAIN loops'}) /\ loops' # << >>
  <2>. DEFINE new == loops'
              S == {loops[j] : j \in DOMAIN loops} \cup {t}
  <2>1. new \in Seq(S) /\ Len(new) = k
    BY <1>6
  <2>2. k # 0
    BY <1>1
  <2>. HIDE DEF new, S
  <2>3. new \in Seq({new[j] : j \in DOMAIN new})
    BY <2>1, OwnElements
  <2>4. new # << >>
    BY <2>1, <2>2, EmptySeq
  <2>. QED  BY <2>3, <2>4 DEF new
<1>8. \A j \in 1 .. k : /\ loops'[j].at = loops[j].at /\ j \in DOMAIN loops /\ (j \in 1 .. k - 1 \/ j = k)
                        /\ j # 1 => j \in 2 .. n /\ j - 1 \in 1 .. k - 1
  <2>. SUFFICES ASSUME NEW j \in 1 .. k
                PROVE  /\ loops'[j].at = loops[j].at /\ j \in DOMAIN loops /\ (j \in 1 .. k - 1 \/ j = k)
                       /\ j # 1 => j \in 2 .. n /\ j - 1 \in 1 .. k - 1
    OBVIOUS
  <2>1. n \in Nat /\ k \in 1 .. n
    BY <1>1
  <2>. HIDE DEF n
  <2>2. j \in 1 .. n /\ (j \in 1 .. k - 1 \/ j = k)
    BY <2>1
  <2>3. j # 1 => j \in 2 .. n /\ j - 1 \in 1 .. k - 1
    BY <2>1
  <2>4. loops'[j].at = loops[j].at
    BY <1>3, <1>6, <2>2
  <2>. QED  BY <1>1, <2>2, <2>3, <2>4
<1>9. \A j \in 1 .. k : /\ loops'[j] = [at |-> loops'[j].at, left |-> loops'[j].left, out |-> loops'[j].out]
                        /\ loops'[j].left \subseteq Parts(loops'[j].at)
  <2>. SUFFICES ASSUME NEW j \in 1 .. k
                PROVE  /\ loops'[j] = [at |-> loops'[j].at, left |-> loops'[j].left, out |-> loops'[j].out]
                       /\ loops'[j].left \subseteq Parts(loops'[j].at)
    OBVIOUS
  <2>1. CASE j \in 1 .. k - 1
    <3>1. loops'[j] = loops[j] /\ j \in DOMAIN loops
      BY <1>6, <1>8, <2>1
    <3>. QED  BY <1>1, <3>1
  <2>2. CASE j = k
    <3>1. loops'[j] = t
      BY <1>6, <2>2
    <3>. QED  BY <1>3, <1>4, <3>1
  <2>. QED  BY <1>8, <2>1, <2>2
<1>10. \A j \in 1 .. k : j # 1 => loops'[j].at \in Parts(loops'[j - 1].at) \ loops'[j - 1].left
  BY <1>1, <1>6, <1>8
<1>11. Stacked'
  <2>1. \A j \in DOMAIN loops' :
          /\ loops'[j].at \in DOMAIN call.data /\ Json(loops'[j].at) \in {"map", "slice"}
          /\ ConformsAt(loops'[j].at)
    BY <1>1, <1>6, <1>8
  <2>2. \A p : /\ Json(p)' = Json(p) /\ Parts(p)' = Parts(p) /\ (ConformsAt(p)' <=> ConformsAt(p))
    BY CallFrame
  <2>3. loops'[1].at = << >>
    BY <1>1, <1>8
  <2>. QED  BY <1>6, <1>7, <1>9, <1>10, <2>1, <2>2, <2>3 DEF Stacked
<1>12. ASSUME NEW j \in 1 .. k - 1 PROVE Done(j)' = Done(j)
  <2>1. /\ loops'[j] = loops[j] /\ loops'[j + 1].at = loops[j + 1].at /\ j < Len(loops) /\ j < Len(loops')
    BY <1>1, <1>6, <1>8
  <2>. QED  BY <2>1, CallFrame DEF Done
<1>13. Done(k)' = Done(k) \cup {q}
  <2>1. ~ (k < Len(loops'))
    BY <1>1, <1>6
  <2>. QED  BY <1>3, <1>6, <2>1, CallFrame DEF Done
<1>14. ASSUME NoScalarsInSlices, NEW j \in 1 .. k
       PROVE  loops'[j].out = Filled(loops'[j].at, Done(j)') /\ \A r \in Done(j)' : Conforms(r)
  <2>1. CASE j \in 1 .. k - 1
    <3>1. loops[j].out = Filled(loops[j].at, Done(j)) /\ \A r \in Done(j) : Conforms(r)
      <4>1. \A i \in DOMAIN loops : /\ loops[i].out = Filled(loops[i].at, Done(i))
                                    /\ \A r \in Done(i) : Conforms(r)
        BY <1>14, LoopFacts
      <4>2. j \in DOMAIN loops
        BY <1>8
      <4>. QED  BY <4>1, <4>2
    <3>2. loops'[j] = loops[j] /\ Done(j)' = Done(j)
      BY <1>6, <1>12, <2>1
    <3>. QED  BY <3>1, <3>2
  <2>2. CASE j = k
    <3>1. loops[k].out = Filled(at, Done(k)) /\ \A r \in Done(k) : Conforms(r)
      BY <1>2, <1>14, LoopFacts
    <3>2. Put(Filled(at, Done(k)), q, Copy(q)) = Filled(at, Done(k) \cup {q})
      <4>1. Done(k) \in SUBSET Parts(at)
        BY DEF Done
      <4>. QED  BY <1>1, <1>4, <4>1, PutFilled
    <3>3. o = Put(loops[k].out, q, Copy(q)) /\ Conforms(q)
      BY <1>14
    <3>. QED  BY <1>3, <1>6, <1>13, <2>2, <3>1, <3>2, <3>3
  <2>. QED  BY <1>8, <2>1, <2>2
<1>15. CopiedSoFar'
  <2>. SUFFICES ASSUME NoScalarsInSlices', NEW j \in DOMAIN loops'
                PROVE  /\ loops'[j].out = Filled(loops[j].at, Done(j))'
                       /\ \A r \in Done(j)' : Conforms(r)'
    BY DEF CopiedSoFar
  <2>1. loops'[j].out = Filled(loops'[j].at, Done(j)') /\ \A r \in Done(j)' : Conforms(r)
    BY <1>6, <1>14, CallFrame
  <2>. QED  BY <2>1, CallFrame
<1>. QED  BY <1>11, <1>15

\* The value of a loop that has not begun
LEMMA LoopValue ==
  ASSUME call \in Calls, NEW p \in DOMAIN call.data, Json(p) \in {"map", "slice"}
  PROVE  Loop(p).out = Filled(p, {})
<1>. DEFINE root == << >>
            K == KeptBy(p, {})
            W == WrittenBy(p, {})
<1>1. /\ Filled(p, {}) = [d \in K \cup W |-> IF d \in W THEN Copied(d) ELSE call.out[d]]
      /\ Loop(p).out = IF Json(p) = "slice" THEN MakeSlice(p) ELSE IF p = root THEN call.out ELSE Zero
  BY DEF Filled, Loop
<1>2. /\ K = {d \in DOMAIN call.out : p = root /\ Json(p) = "map"}
      /\ W = {d \in DOMAIN call.data : Json(d) = "slice" /\ d = p}
  BY DEF KeptBy, WrittenBy
<1>3. call.out = [d \in DOMAIN call.out |-> call.out[d]]
  BY CallFacts
<1>4. Zero = [d \in {} |-> 0]
  <2>. DEFINE f == [d \in {} |-> 0]
  <2>1. f \in [1 .. 0 -> Int]
    OBVIOUS
  <2>. HIDE DEF f
  <2>2. f \in Seq(Int) /\ Len(f) = 0
    BY <2>1
  <2>3. f = << >>
    BY <2>2, EmptySeq
  <2>. QED  BY <2>3 DEF Zero
<1>. HIDE DEF root, K, W
<1>5. CASE Json(p) = "slice"
  <2>1. K = {} /\ W = {p}
    BY <1>2, <1>5
  <2>2. Copied(p) = Cardinality(Parts(p)) /\ MakeSlice(p) = [q \in {p} |-> Cardinality(Parts(p))]
    BY <1>5 DEF Copied, MakeSlice
  <2>. QED  BY <1>1, <1>5, <2>1, <2>2
<1>6. CASE Json(p) = "map" /\ p = root
  <2>1. K = DOMAIN call.out /\ W = {}
    BY <1>2, <1>6
  <2>. QED  BY <1>1, <1>3, <1>6, <2>1
<1>7. CASE Json(p) = "map" /\ p # root
  <2>1. K = {} /\ W = {}
    BY <1>2, <1>7
  <2>. QED  BY <1>1, <1>4, <1>7, <2>1
<1>. QED  BY <1>5, <1>6, <1>7

-----------------------------------------------------------------------------
(* Nested values: the steps.                                              *)

\* What becomes of the part whose turn it is
LEMMA DoesFacts ==
  ASSUME i2sIInv, result.res = "filling", NEW q \in Top.left
  PROVE  /\ Top.at \in DOMAIN call.data /\ q \in Parts(Top.at) /\ q \in DOMAIN call.data
         /\ Does(q) = "fill" => ConformsAt(q) /\ Json(q) \in {"map", "slice"}
         /\ Does(q) = "set" => ConformsAt(q) /\ Json(q) \notin {"map", "slice"}
         /\ Does(q) = "skip" => Json(Top.at) = "slice" /\ Json(q) \notin {"map", "slice"}
         /\ Does(q) \in {"error", "panic"} => ~ ConformsAt(q)
<1>1. /\ call \in Calls /\ Top.at \in DOMAIN call.data /\ Top.left \subseteq Parts(Top.at)
      /\ Json(Top.at) \in {"map", "slice"} /\ ConformsAt(Top.at)
  BY LoopFacts
<1>2. q \in Parts(Top.at) /\ q \in DOMAIN call.data
  BY <1>1 DEF Parts
<1>3. CASE Json(Top.at) = "map"
  <2>1. Does(q) = BeginsField(q)
    BY <1>3 DEF Does
  <2>. QED  BY <1>1, <1>2, <1>3, <2>1, BeginsFieldFacts
<1>4. CASE Json(Top.at) = "slice"
  <2>1. Does(q) = Begins(q)
    BY <1>4 DEF Does
  <2>2. TypePath(Top.at) \in DOMAIN call.type /\ Kind(Top.at) = "slice"
    BY <1>1, <1>4 DEF ConformsAt
  <2>3. TypePath(q) \in DOMAIN call.type
    BY <1>1, <1>2, <1>4, <2>2, TypeOfElement
  <2>. QED  BY <1>1, <1>2, <1>4, <2>1, <2>3, BeginsFacts
<1>. QED  BY <1>1, <1>3, <1>4

LEMMA Going ==
  ASSUME i2sIInv, result.res = "filling", call' = call, result' = result, Stacked', CopiedSoFar'
  PROVE  i2sIInv'
BY DEF i2sIInv, CopiesOrFails

LEMMA DescendKeeps ==
  ASSUME i2sIInv, result.res = "filling", NEW q \in Top.left, Descend(q)
  PROVE  i2sIInv'
<1>0. PICK n \in Nat \ {0} : n = Len(loops)
  BY LoopFacts
<1>. DEFINE S == {loops[j] : j \in DOMAIN loops}
            t == Without(q)
            u == Loop(q)
            mid == Append(SubSeq(loops, 1, n - 1), t)
<1>1. /\ call' = call /\ result' = result /\ loops' = Append(mid, u)
      /\ ConformsAt(q) /\ Json(q) \in {"map", "slice"}
      /\ q \in Parts(Top.at) /\ q \in DOMAIN call.data
  BY <1>0, DoesFacts DEF Descend, Below
<1>2. /\ call \in Calls /\ n \in Nat \ {0} /\ DOMAIN loops = 1 .. n /\ loops[1].at = << >>
      /\ loops \in Seq(S) /\ Top = loops[n]
      /\ \A j \in DOMAIN loops :
           /\ loops[j] = [at |-> loops[j].at, left |-> loops[j].left, out |-> loops[j].out]
           /\ loops[j].at \in DOMAIN call.data /\ loops[j].left \subseteq Parts(loops[j].at)
           /\ Json(loops[j].at) \in {"map", "slice"} /\ ConformsAt(loops[j].at)
      /\ \A j \in 2 .. n : loops[j].at \in Parts(loops[j - 1].at) \ loops[j - 1].left
  BY <1>0, LoopFacts
<1>3. /\ t.at = loops[n].at /\ t.left = loops[n].left \ {q} /\ t.out = loops[n].out
      /\ t = [at |-> t.at, left |-> t.left, out |-> t.out]
  <2>1. n \in DOMAIN loops
    BY <1>2
  <2>2. loops[n] = [at |-> loops[n].at, left |-> loops[n].left, out |-> loops[n].out]
    BY <1>2, <2>1
  <2>. DEFINE a == loops[n].at
              l == loops[n].left
              o == loops[n].out
  <2>3. Top = [at |-> a, left |-> l, out |-> o]
    BY <1>2, <2>2
  <2>. HIDE DEF a, l, o
  <2>4. Without(q) = [at |-> a, left |-> l \ {q}, out |-> o]
    BY <2>3 DEF Without
  <2>. QED  BY <2>4 DEF a, l, o
<1>4. /\ u.at = q /\ u.left = Parts(q) /\ u.out = Filled(q, {})
      /\ u = [at |-> u.at, left |-> u.left, out |-> u.out]
  <2>1. u.out = Filled(q, {})
    BY <1>1, <1>2, LoopValue
  <2>. QED  BY <2>1 DEF Loop
<1>. HIDE DEF t, u
<1>5. /\ mid \in Seq(S \cup {t}) /\ Len(mid) = n /\ mid[n] = t
      /\ \A j \in 1 .. n - 1 : mid[j] = loops[j]
  <2>. DEFINE k == n - 1
  <2>1. k \in 0 .. Len(loops) /\ k + 1 = n
    BY <1>0, <1>2
  <2>2. loops \in Seq(S) /\ mid = Append(SubSeq(loops, 1, k), t)
    BY <1>2
  <2>. HIDE DEF k, S, mid
  <2>3. /\ mid \in Seq(S \cup {t}) /\ Len(mid) = k + 1 /\ mid[k + 1] = t
        /\ \A j \in 1 .. k : mid[j] = loops[j]
    BY <2>1, <2>2, CutAppend
  <2>. QED  BY <2>1, <2>3 DEF k
<1>. HIDE DEF mid, S
<1>6. /\ loops' \in Seq(S \cup {t} \cup {u}) /\ Len(loops') = n + 1 /\ loops'[n + 1] = u
      /\ \A j \in 1 .. n : loops'[j] = mid[j]
  <2>1. mid \in Seq(S \cup {t} \cup {u}) /\ u \in S \cup {t} \cup {u}
    BY <1>5
  <2>. QED  BY <1>1, <1>5, <2>1, AppendProperties
<1>7. /\ n \in 1 .. n /\ n + 1 \in 2 .. n + 1
      /\ \A j \in 1 .. n + 1 : j \in 1 .. n - 1 \/ j = n \/ j = n + 1
      /\ \A j \in 1 .. n - 1 : j \in 1 .. n /\ j + 1 \in 1 .. n /\ (j # 1 => j \in 2 .. n /\ j - 1 \in 1 .. n - 1)
      /\ n # 1 => n \in 2 .. n /\ n - 1 \in 1 .. n - 1
  OBVIOUS
<1>8. /\ \A j \in 1 .. n - 1 : loops'[j] = loops[j]
      /\ loops'[n] = t /\ loops'[n + 1] = u /\ DOMAIN loops' = 1 .. n + 1
      /\ \A j \in 1 .. n : loops'[j].at = loops[j].at
  <2>1. \A j \in 1 .. n - 1 : loops'[j] = loops[j]
    BY <1>5, <1>6, <1>7
  <2>2. loops'[n] = t
    BY <1>5, <1>6, <1>7
  <2>3. DOMAIN loops' = 1 .. n + 1
    BY <1>6, LenProperties
  <2>4. \A j \in 1 .. n : j \in 1 .. n - 1 \/ j = n
    OBVIOUS
  <2>. QED  BY <1>3, <1>6, <2>1, <2>2, <2>3, <2>4
<1>9. loops' \in Seq({loops'[j] : j \in DOMAIN loops'}) /\ loops' # << >>
  <2>. DEFINE new == loops'
              T == S \cup {t} \cup {u}
  <2>1. new \in Seq(T) /\ Len(new) = n + 1
    BY <1>6
  <2>2. n + 1 # 0
    BY <1>2
  <2>. HIDE DEF new, T
  <2>3. new \in Seq({new[j] : j \in DOMAIN new})
    BY <2>1, OwnElements
  <2>4. new # << >>
    BY <2>1, <2>2, EmptySeq
  <2>. QED  BY <2>3, <2>4 DEF new
<1>10. Stacked'
  <2>1. \A j \in 1 .. n + 1 :
          /\ loops'[j] = [at |-> loops'[j].at, left |-> loops'[j].left, out |-> loops'[j].out]
          /\ loops'[j].at \in DOMAIN call.data /\ loops'[j].left \subseteq Parts(loops'[j].at)
          /\ Json(loops'[j].at) \in {"map", "slice"} /\ ConformsAt(loops'[j].at)
    <3>. SUFFICES ASSUME NEW j \in 1 .. n + 1
                  PROVE  /\ loops'[j] = [at |-> loops'[j].at, left |-> loops'[j].left, out |-> loops'[j].out]
                         /\ loops'[j].at \in DOMAIN call.data /\ loops'[j].left \subseteq Parts(loops'[j].at)
                         /\ Json(loops'[j].at) \in {"map", "slice"} /\ ConformsAt(loops'[j].at)
      OBVIOUS
    <3>1. CASE j \in 1 .. n - 1
      BY <1>2, <1>7, <1>8, <3>1
    <3>2. CASE j = n
      BY <1>2, <1>3, <1>7, <1>8, <3>2
    <3>3. CASE j = n + 1
      BY <1>1, <1>4, <1>8, <3>3
    <3>. QED  BY <1>7, <3>1, <3>2, <3>3
  <2>2. \A j \in 1 .. n + 1 : j # 1 => loops'[j].at \in Parts(loops'[j - 1].at) \ loops'[j - 1].left
    <3>. SUFFICES ASSUME NEW j \in 1 .. n + 1, j # 1
                  PROVE  loops'[j].at \in Parts(loops'[j - 1].at) \ loops'[j - 1].left
      OBVIOUS
    <3>1. CASE j \in 1 .. n - 1
      <4>1. loops'[j] = loops[j] /\ loops'[j - 1] = loops[j - 1] /\ j \in 2 .. n
        BY <1>7, <1>8, <3>1
      <4>. QED  BY <1>2, <4>1
    <3>2. CASE j = n
      <4>1. n \in 2 .. n /\ n - 1 \in 1 .. n - 1
        BY <1>7, <3>2
      <4>2. loops'[n].at = loops[n].at /\ loops'[n - 1] = loops[n - 1]
        BY <1>3, <1>8, <4>1
      <4>. QED  BY <1>2, <3>2, <4>1, <4>2
    <3>3. CASE j = n + 1
      <4>1. j - 1 = n
        BY <1>2, <3>3
      <4>2. loops'[j].at = q /\ loops'[j - 1].at = Top.at /\ loops'[j - 1].left = loops[n].left \ {q}
        BY <1>2, <1>3, <1>4, <1>8, <3>3, <4>1
      <4>. QED  BY <1>1, <4>2
    <3>. QED  BY <1>7, <3>1, <3>2, <3>3
  <2>3. \A p : /\ Json(p)' = Json(p) /\ Parts(p)' = Parts(p) /\ (ConformsAt(p)' <=> ConformsAt(p))
    BY <1>1, CallFrame
  <2>4. loops'[1].at = << >>
    <3>1. 1 \in 1 .. n
      BY <1>2
    <3>. QED  BY <1>2, <1>8, <3>1
  <2>. QED  BY <1>1, <1>8, <1>9, <2>1, <2>2, <2>3, <2>4 DEF Stacked
<1>11. \A p : Parts(p)' = Parts(p)
  BY <1>1, CallFrame
<1>12. ASSUME NEW j \in 1 .. n - 1 PROVE Done(j)' = Done(j)
  <2>1. /\ loops'[j] = loops[j] /\ loops'[j + 1].at = loops[j + 1].at
        /\ j < Len(loops) /\ j < Len(loops')
    <3>1. /\ j < n /\ j < n + 1 /\ j \in 1 .. n - 1 /\ j \in 1 .. n /\ j + 1 \in 1 .. n
      OBVIOUS
    <3>2. loops'[j] = loops[j] /\ loops'[j + 1].at = loops[j + 1].at
      BY <1>8, <3>1
    <3>. QED  BY <1>0, <1>6, <3>1, <3>2
  <2>. QED  BY <1>11, <2>1 DEF Done
<1>13. Done(n)' = Done(n)
  <2>1. ~ (n < Len(loops)) /\ n < Len(loops')
    BY <1>0, <1>6
  <2>2. Done(n) = Parts(loops[n].at) \ loops[n].left
    BY <2>1 DEF Done
  <2>3. Done(n)' = {r \in Parts(t.at) \ t.left : r # u.at}
    BY <1>8, <1>11, <2>1 DEF Done
  <2>4. q \in loops[n].left
    BY <1>2
  <2>. QED  BY <1>3, <1>4, <2>2, <2>3, <2>4
<1>14. Done(n + 1)' = {}
  <2>1. loops'[n + 1] = u /\ u.left = Parts(q) /\ u.at = q
    BY <1>4, <1>8
  <2>. QED  BY <1>11, <2>1 DEF Done
<1>15. ASSUME NoScalarsInSlices, NEW j \in 1 .. n + 1
       PROVE  loops'[j].out = Filled(loops'[j].at, Done(j)') /\ \A r \in Done(j)' : Conforms(r)
  <2>1. \A i \in 1 .. n : loops[i].out = Filled(loops[i].at, Done(i)) /\ \A r \in Done(i) : Conforms(r)
    BY <1>2, <1>15, LoopFacts
  <2>2. CASE j \in 1 .. n - 1
    <3>1. loops'[j] = loops[j] /\ Done(j)' = Done(j) /\ j \in 1 .. n
      BY <1>7, <1>8, <1>12, <2>2
    <3>. QED  BY <2>1, <3>1
  <2>3. CASE j = n
    <3>1. loops'[n].at = loops[n].at /\ loops'[n].out = loops[n].out /\ n \in 1 .. n
      <4>1. n \in 1 .. n
        BY <1>7
      <4>2. loops'[n] = t
        BY <1>8
      <4>. QED  BY <1>3, <4>1, <4>2
    <3>. QED  BY <1>13, <2>1, <2>3, <3>1
  <2>4. CASE j = n + 1
    <3>. DEFINE m == n + 1
    <3>1. loops'[m].at = q /\ loops'[m].out = Filled(q, {}) /\ j = m
      BY <1>4, <1>8, <2>4
    <3>2. Done(m)' = {}
      BY <1>14
    <3>. HIDE DEF m
    <3>. QED  BY <3>1, <3>2
  <2>. QED  BY <1>7, <2>2, <2>3, <2>4
<1>16. CopiedSoFar'
  <2>. SUFFICES ASSUME NoScalarsInSlices', NEW j \in DOMAIN loops'
                PROVE  /\ loops'[j].out = Filled(loops[j].at, Done(j))'
                       /\ \A r \in Done(j)' : Conforms(r)'
    BY DEF CopiedSoFar
  <2>1. loops'[j].out = Filled(loops'[j].at, Done(j)') /\ \A r \in Done(j)' : Conforms(r)
    BY <1>1, <1>8, <1>15, CallFrame
  <2>. QED  BY <1>1, <2>1, CallFrame
<1>. QED  BY <1>1, <1>10, <1>16, Going

\* The copy of a scalar
LEMMA ScalarCopy ==
  ASSUME call \in Calls, NEW q \in DOMAIN call.data, Json(q) \notin {"map", "slice"}
  PROVE  Copy(q) = [p \in {q} |-> Scalar(q)] /\ (Conforms(q) <=> ConformsAt(q))
<1>1. q \in Seq(Int)
  BY CallFacts
<1>2. \A d \in DOMAIN call.data : Starts(q, d) <=> d = q
  BY <1>1, ScalarAlone, StartsFurther
<1>3. Written(q) = {q}
  BY <1>2 DEF Written
<1>4. Copied(q) = Scalar(q)
  BY DEF Copied
<1>. QED  BY <1>2, <1>3, <1>4 DEF Copy, Conforms

LEMMA ConformsWhole ==
  ASSUME call \in Calls, NEW p \in DOMAIN call.data, ConformsAt(p),
         \A q \in Parts(p) : Conforms(q)
  PROVE  Conforms(p)
<1>. SUFFICES ASSUME NEW d \in DOMAIN call.data, Starts(p, d), d # p PROVE ConformsAt(d)
  BY DEF Conforms
<1>1. PICK q \in Parts(p) : Starts(q, d)
  BY InsidePart
<1>. QED  BY <1>1 DEF Conforms

\* The loop whose turn it is
LEMMA TopFacts ==
  ASSUME i2sIInv, result.res = "filling", NEW n, n = Len(loops)
  PROVE  /\ n \in Nat \ {0} /\ n \in 1 .. n /\ Top = loops[n]
         /\ Top = [at |-> Top.at, left |-> Top.left, out |-> Top.out]
         /\ Done(n) = Parts(Top.at) \ Top.left
         /\ Top.at \in DOMAIN call.data /\ Top.left \subseteq Parts(Top.at)
         /\ Json(Top.at) \in {"map", "slice"} /\ ConformsAt(Top.at)
         /\ NoScalarsInSlices => /\ Top.out = Filled(Top.at, Done(n))
                                 /\ \A q \in Done(n) : Conforms(q)
<1>1. /\ n \in Nat \ {0} /\ n \in DOMAIN loops /\ DOMAIN loops = 1 .. n /\ Top = loops[n]
  BY LoopFacts
<1>2. /\ Top = [at |-> Top.at, left |-> Top.left, out |-> Top.out]
      /\ Top.at \in DOMAIN call.data /\ Top.left \subseteq Parts(Top.at)
      /\ Json(Top.at) \in {"map", "slice"} /\ ConformsAt(Top.at)
  BY <1>1, LoopFacts
<1>3. Done(n) = Parts(Top.at) \ Top.left
  <2>1. ~ (n < Len(loops))
    BY <1>1
  <2>. QED  BY <1>1, <2>1 DEF Done
<1>4. ASSUME NoScalarsInSlices
      PROVE  Top.out = Filled(Top.at, Done(n)) /\ \A q \in Done(n) : Conforms(q)
  <2>1. \A i \in DOMAIN loops : /\ loops[i].out = Filled(loops[i].at, Done(i))
                                /\ \A q \in Done(i) : Conforms(q)
    BY <1>4, LoopFacts
  <2>. QED  BY <1>1, <2>1
<1>. QED  BY <1>1, <1>2, <1>3, <1>4

\* Through, for the innermost loop
LEMMA TopThrough ==
  ASSUME i2sIInv, result.res = "filling", call' = call, result' = result,
         NEW q \in Top.left, NEW o,
         loops' = Append(Below, [at |-> Top.at, left |-> Top.left \ {q}, out |-> o]),
         NoScalarsInSlices => Conforms(q) /\ o = Put(Top.out, q, Copy(q))
  PROVE  i2sIInv'
<1>1. PICK n \in Nat \ {0} : n = Len(loops)
  BY LoopFacts
<1>. DEFINE L == Top.left \ {q}
<1>2. /\ n \in 1 .. Len(loops) /\ Top = loops[n] /\ Done(n) = Parts(Top.at) \ Top.left
      /\ Top.left \subseteq Parts(Top.at)
  BY <1>1, TopFacts
<1>3. /\ q \in Parts(loops[n].at) /\ L \in SUBSET loops[n].left /\ q \notin Done(n)
      /\ Parts(loops[n].at) \ L = Done(n) \cup {q}
  BY <1>2
<1>4. loops' = Append(SubSeq(loops, 1, n - 1), [at |-> loops[n].at, left |-> L, out |-> o])
  BY <1>1, <1>2 DEF Below
<1>5. NoScalarsInSlices => Conforms(q) /\ o = Put(loops[n].out, q, Copy(q))
  BY <1>2
<1>. HIDE DEF L
<1>6. Stacked' /\ CopiedSoFar'
  BY <1>2, <1>3, <1>4, <1>5, Through
<1>. QED  BY <1>6, Going

LEMMA SetScalarKeeps ==
  ASSUME i2sIInv, result.res = "filling", NEW q \in Top.left, SetScalar(q)
  PROVE  i2sIInv'
<1>. DEFINE new == [p \in {q} |-> Scalar(q)]
            o == Put(Top.out, q, new)
<1>1. /\ call' = call /\ result' = result /\ Does(q) = "set"
      /\ loops' = Append(Below, [Without(q) EXCEPT !.out = Put(@, q, new)])
  BY DEF SetScalar
<1>2. /\ q \in DOMAIN call.data /\ call \in Calls /\ ConformsAt(q) /\ Json(q) \notin {"map", "slice"}
  BY <1>1, DoesFacts, LoopFacts
<1>3. Conforms(q) /\ Copy(q) = new
  BY <1>2, ScalarCopy
<1>4. [Without(q) EXCEPT !.out = Put(@, q, new)]
        = [at |-> Top.at, left |-> Top.left \ {q}, out |-> o]
  <2>1. Top = [at |-> Top.at, left |-> Top.left, out |-> Top.out]
    BY TopFacts
  <2>. HIDE DEF new
  <2>. DEFINE a == Top.at
              l == Top.left
              v == Top.out
  <2>2. Top = [at |-> a, left |-> l, out |-> v]
    BY <2>1
  <2>. HIDE DEF a, l, v
  <2>3. Without(q) = [at |-> a, left |-> l \ {q}, out |-> v]
    BY <2>2 DEF Without
  <2>4. [Without(q) EXCEPT !.out = Put(@, q, new)]
          = [at |-> a, left |-> l \ {q}, out |-> Put(v, q, new)]
    BY <2>3
  <2>. QED  BY <2>4 DEF a, l, v
<1>5. loops' = Append(Below, [at |-> Top.at, left |-> Top.left \ {q}, out |-> o])
  BY <1>1, <1>4
<1>6. Conforms(q) /\ o = Put(Top.out, q, Copy(q))
  BY <1>3
<1>. HIDE DEF o
<1>. QED  BY <1>1, <1>5, <1>6, TopThrough

LEMMA PassOverKeeps ==
  ASSUME i2sIInv, result.res = "filling", NEW q \in Top.left, PassOver(q)
  PROVE  i2sIInv'
<1>1. /\ call' = call /\ result' = result /\ Does(q) = "skip" /\ loops' = Append(Below, Without(q))
  BY DEF PassOver
<1>2. ~ NoScalarsInSlices
  <2>1. /\ q \in Parts(Top.at) /\ Json(Top.at) = "slice" /\ Json(q) \notin {"map", "slice"}
    BY <1>1, DoesFacts
  <2>. QED  BY <2>1 DEF NoScalarsInSlices, Parts
<1>3. Without(q) = [at |-> Top.at, left |-> Top.left \ {q}, out |-> Top.out]
  <2>. DEFINE a == Top.at
              l == Top.left
              v == Top.out
  <2>1. Top = [at |-> a, left |-> l, out |-> v]
    BY TopFacts
  <2>. HIDE DEF a, l, v
  <2>2. Without(q) = [at |-> a, left |-> l \ {q}, out |-> v]
    BY <2>1 DEF Without
  <2>. QED  BY <2>2 DEF a, l, v
<1>. QED  BY <1>1, <1>2, <1>3, TopThrough

LEMMA AscendKeeps ==
  ASSUME i2sIInv, result.res = "filling", Ascend
  PROVE  i2sIInv'
<1>1. PICK n \in Nat \ {0} : n = Len(loops)
  BY LoopFacts
<1>2. PICK k \in Nat \ {0} : n = k + 1
  <2>1. n > 1
    BY <1>1 DEF Ascend
  <2>2. n - 1 \in Nat \ {0} /\ n = (n - 1) + 1
    BY <2>1
  <2>. QED  BY <2>2
<1>. DEFINE q == Top.at
            o == Put(loops[k].out, q, Top.out)
<1>3. k \in 1 .. Len(loops) /\ n \in 2 .. n /\ n - 1 = k /\ n - 2 = k - 1 /\ k < Len(loops)
  BY <1>1, <1>2
<1>4. /\ call \in Calls /\ k \in DOMAIN loops /\ Top = loops[n] /\ loops[k + 1] = Top
      /\ loops[n].at \in Parts(loops[n - 1].at) \ loops[n - 1].left
  BY <1>1, <1>2, <1>3, LoopFacts
<1>5. /\ loops[k] = [at |-> loops[k].at, left |-> loops[k].left, out |-> loops[k].out]
      /\ loops[k].left \subseteq Parts(loops[k].at) /\ loops[k].at \in DOMAIN call.data
  BY <1>4, LoopFacts
<1>6. /\ call' = call /\ result' = result /\ Top.left = {}
      /\ loops' = Append(SubSeq(loops, 1, k - 1), [loops[k] EXCEPT !.out = Put(@, q, Top.out)])
  BY <1>1, <1>3 DEF Ascend
<1>7. loops' = Append(SubSeq(loops, 1, k - 1), [at |-> loops[k].at, left |-> loops[k].left, out |-> o])
  <2>. DEFINE a == loops[k].at
              l == loops[k].left
              v == loops[k].out
              w == Top.out
  <2>1. loops[k] = [at |-> a, left |-> l, out |-> v]
    BY <1>5
  <2>. HIDE DEF a, l, v, q, w
  <2>2. [loops[k] EXCEPT !.out = Put(@, q, w)] = [at |-> a, left |-> l, out |-> Put(v, q, w)]
    BY <2>1
  <2>. QED  BY <1>6, <2>2 DEF a, l, v, q, w
<1>8. /\ q \in Parts(loops[k].at) /\ loops[k].left \in SUBSET loops[k].left /\ q \notin Done(k)
      /\ Parts(loops[k].at) \ loops[k].left = Done(k) \cup {q}
  <2>1. q \in Parts(loops[k].at) \ loops[k].left
    BY <1>3, <1>4
  <2>2. Done(k) = {r \in Parts(loops[k].at) \ loops[k].left : r # q}
    BY <1>3, <1>4 DEF Done
  <2>. QED  BY <2>1, <2>2
<1>9. ASSUME NoScalarsInSlices PROVE Conforms(q) /\ o = Put(loops[k].out, q, Copy(q))
  <2>1. /\ Top.out = Filled(q, Done(n)) /\ \A r \in Done(n) : Conforms(r)
        /\ Done(n) = Parts(q) \ Top.left
        /\ q \in DOMAIN call.data /\ Json(q) \in {"map", "slice"} /\ ConformsAt(q)
    BY <1>1, <1>9, TopFacts
  <2>2. Done(n) = Parts(q)
    BY <1>6, <2>1
  <2>3. q # << >>
    BY <1>8 DEF Parts
  <2>. HIDE DEF q
  <2>4. Filled(q, Parts(q)) = Copy(q)
    BY <1>4, <2>1, <2>3, FilledWhole
  <2>5. Conforms(q)
    BY <1>4, <2>1, <2>2, ConformsWhole
  <2>. QED  BY <2>1, <2>2, <2>4, <2>5
<1>. HIDE DEF q, o
<1>10. Stacked' /\ CopiedSoFar'
  BY <1>3, <1>6, <1>7, <1>8, <1>9, Through
<1>. QED  BY <1>6, <1>10, Going

LEMMA RootFacts ==
  /\ TypePath(<< >>) = << >>
  /\ \A p \in Seq(Int) : Starts(<< >>, p)
<1>. DEFINE root == << >>
            t == TypePath(root)
<1>1. root \in Seq(Int) /\ Len(root) = 0 /\ DOMAIN root = {}
  OBVIOUS
<1>. HIDE DEF root
<1>2. t = root
  <2>1. t = [k \in DOMAIN root |-> IF Json(SubSeq(root, 1, k - 1)) = "slice" THEN Elem ELSE root[k]]
    BY DEF TypePath
  <2>2. t \in [1 .. 0 -> Int]
    BY <1>1, <2>1
  <2>. HIDE DEF t
  <2>3. t \in Seq(Int) /\ Len(t) = 0
    BY <2>2
  <2>4. t = << >>
    BY <2>3, EmptySeq
  <2>. QED  BY <2>4 DEF root
<1>3. \A p \in Seq(Int) : Starts(root, p)
  <2>. SUFFICES ASSUME NEW p \in Seq(Int) PROVE Starts(root, p)
    OBVIOUS
  <2>1. Len(root) <= Len(p) /\ \A j \in 1 .. Len(root) : root[j] = p[j]
    BY <1>1
  <2>. QED  BY <1>1, <2>1, StartsByNames
<1>. QED  BY <1>2, <1>3 DEF root

\* A call that leaves out alone
LEMMA OutAlone ==
  ASSUME result'.res \in {"error", "panic"}, result'.out = call'.out,
         ~ (call'.pointer /\ Conforms(<< >>)')
  PROVE  CopiesOrFails'
BY DEF CopiesOrFails, CopiedOrKept

LEMMA CallKeeps ==
  ASSUME i2sIInv, NEW c \in Calls, CallI2s(c)
  PROVE  i2sIInv'
<1>1. /\ result.res = "none" /\ call' = c /\ loops' = loops /\ loops = << >>
      /\ result' = [res |-> IF c.pointer THEN "called" ELSE "error", out |-> c.out]
  BY DEF CallI2s, Returns, i2sIInv
<1>2. CASE c.pointer
  <2>1. result'.res = "called"
    BY <1>1, <1>2
  <2>. QED  BY <1>1, <1>2, <2>1 DEF i2sIInv, CopiesOrFails
<1>3. CASE ~ c.pointer
  <2>1. result'.res = "error" /\ result'.out = call'.out /\ ~ call'.pointer
    BY <1>1, <1>3
  <2>2. CopiesOrFails'
    BY <2>1, OutAlone
  <2>. QED  BY <1>1, <2>1, <2>2 DEF i2sIInv
<1>. QED  BY <1>2, <1>3

LEMMA BeginKeeps ==
  ASSUME i2sIInv, Begin
  PROVE  i2sIInv'
<1>. DEFINE root == << >>
            u == Loop(root)
<1>1. /\ result.res = "called" /\ call' = call /\ call \in Calls /\ call.pointer /\ loops = << >>
  BY DEF Begin, i2sIInv
<1>2. root \in DOMAIN call.data /\ root \in Seq(Int) /\ TypePath(root) \in DOMAIN call.type
  BY <1>1, CallFacts, RootFacts
<1>3. /\ Begins(root) \in {"fill", "skip", "error", "panic"}
      /\ Begins(root) = "fill" => ConformsAt(root) /\ Json(root) \in {"map", "slice"}
      /\ Begins(root) = "skip" => Json(root) \notin {"map", "slice"}
      /\ Begins(root) \in {"error", "panic"} => ~ ConformsAt(root)
  BY <1>2, BeginsFacts
<1>4. CASE Begins(root) = "fill"
  <2>1. /\ loops' = <<u>> /\ result' = [res |-> "filling", out |-> call.out]
    BY <1>4 DEF Begin, Returns
  <2>2. /\ u.at = root /\ u.left = Parts(root) /\ u.out = Filled(root, {})
        /\ u = [at |-> u.at, left |-> u.left, out |-> u.out]
    <3>1. u.out = Filled(root, {})
      BY <1>1, <1>2, <1>3, <1>4, LoopValue
    <3>. QED  BY <3>1 DEF Loop
  <2>. HIDE DEF u
  <2>3. loops' \in Seq({u}) /\ Len(loops') = 1 /\ loops'[1] = u
    BY <2>1
  <2>4. DOMAIN loops' = {1}
    BY <2>3, LenProperties
  <2>5. loops' # << >>
    BY <2>3
  <2>6. {loops'[j] : j \in DOMAIN loops'} = {u}
    BY <2>3, <2>4
  <2>7. \A p : Json(p)' = Json(p) /\ Parts(p)' = Parts(p) /\ (ConformsAt(p)' <=> ConformsAt(p))
    BY <1>1, CallFrame
  <2>8. Stacked'
    <3>1. loops' \in Seq({loops'[j] : j \in DOMAIN loops'}) /\ loops'[1].at = root
      BY <2>2, <2>3, <2>6
    <3>2. \A j \in DOMAIN loops' : j = 1
      BY <2>4
    <3>3. /\ root \in DOMAIN call'.data /\ Json(root)' \in {"map", "slice"} /\ ConformsAt(root)'
          /\ Parts(root)' = Parts(root)
      BY <1>1, <1>2, <1>3, <1>4, <2>7
    <3>. HIDE DEF root
    <3>4. \A j \in DOMAIN loops' :
            /\ loops'[j] = [at |-> loops'[j].at, left |-> loops'[j].left, out |-> loops'[j].out]
            /\ loops'[j].at \in DOMAIN call'.data /\ loops'[j].left \subseteq Parts(loops[j].at)'
            /\ Json(loops[j].at)' \in {"map", "slice"} /\ ConformsAt(loops[j].at)'
      BY <2>2, <2>3, <3>2, <3>3
    <3>. QED  BY <2>5, <3>1, <3>2, <3>4 DEF Stacked, root
  <2>9. Done(1)' = {}
    BY <2>2, <2>3, <2>7 DEF Done
  <2>10. CopiedSoFar'
    <3>. SUFFICES ASSUME NEW j \in DOMAIN loops'
                  PROVE  /\ loops'[j].out = Filled(loops[j].at, Done(j))'
                         /\ \A r \in Done(j)' : Conforms(r)'
      BY DEF CopiedSoFar
    <3>1. j = 1
      BY <2>4
    <3>2. Filled(loops[1].at, Done(1))' = Filled(loops'[1].at, Done(1)')
      BY <1>1, CallFrame
    <3>. QED  BY <2>2, <2>3, <2>9, <3>1, <3>2
  <2>. QED  BY <1>1, <2>1, <2>8, <2>10 DEF i2sIInv, CopiesOrFails
<1>5. CASE Begins(root) = "skip"
  <2>1. result'.res = "ok" /\ loops' = loops
    BY <1>5 DEF Begin, Returns
  <2>2. Json(root)' \notin {"map", "slice"}
    BY <1>1, <1>3, <1>5, CallFrame
  <2>. QED  BY <1>1, <2>1, <2>2 DEF i2sIInv, CopiesOrFails
<1>6. CASE Begins(root) \in {"error", "panic"}
  <2>1. result'.res \in {"error", "panic"} /\ result'.out = call'.out /\ loops' = loops
    BY <1>1, <1>6 DEF Begin, Returns
  <2>2. ~ Conforms(root)'
    <3>1. ~ Conforms(root)
      BY <1>2, <1>3, <1>6, RootFacts DEF Conforms
    <3>. QED  BY <1>1, <3>1, CallFrame
  <2>3. CopiesOrFails'
    BY <2>1, <2>2, OutAlone
  <2>. QED  BY <1>1, <2>1, <2>3 DEF i2sIInv
<1>. QED  BY <1>3, <1>4, <1>5, <1>6

\* What the outermost loop has filled
LEMMA OutermostFacts ==
  ASSUME i2sIInv, result.res = "filling"
  PROVE  /\ call \in Calls /\ call.pointer /\ loops[1].at = << >> /\ loops # << >>
         /\ Json(<< >>) \in {"map", "slice"} /\ ConformsAt(<< >>) /\ Done(1) \subseteq Parts(<< >>)
         /\ NoScalarsInSlices => /\ loops[1].out = Filled(<< >>, Done(1))
                                 /\ \A q \in Done(1) : Conforms(q)
<1>1. 1 \in DOMAIN loops /\ loops # << >>
  <2>1. Stacked /\ Len(loops) \in Nat \ {0} /\ DOMAIN loops = 1 .. Len(loops)
    BY LoopFacts DEF i2sIInv
  <2>. QED  BY <2>1 DEF Stacked
<1>2. loops[1].at = << >>
  BY LoopFacts
<1>3. Done(1) \subseteq Parts(loops[1].at)
  BY DEF Done
<1>4. ASSUME NoScalarsInSlices
      PROVE  loops[1].out = Filled(<< >>, Done(1)) /\ \A q \in Done(1) : Conforms(q)
  <2>1. \A i \in DOMAIN loops : /\ loops[i].out = Filled(loops[i].at, Done(i))
                                /\ \A q \in Done(i) : Conforms(q)
    BY <1>4, LoopFacts
  <2>. QED  BY <1>1, <1>2, <2>1
<1>5. Json(loops[1].at) \in {"map", "slice"} /\ ConformsAt(loops[1].at)
  BY <1>1, LoopFacts
<1>. QED  BY <1>1, <1>2, <1>3, <1>4, <1>5, LoopFacts

LEMMA FailKeeps ==
  ASSUME i2sIInv, result.res = "filling", NEW q \in Top.left, Fail(q)
  PROVE  i2sIInv'
<1>1. /\ call' = call /\ loops' = << >> /\ Does(q) \in {"error", "panic"}
      /\ result'.res = Does(q) /\ result'.out = OutSoFar
  BY DEF Fail, Returns
<1>2. ~ Conforms(<< >>)'
  <2>1. q \in DOMAIN call.data /\ ~ ConformsAt(q) /\ q \in Seq(Int)
    BY <1>1, DoesFacts, LoopFacts, CallFacts
  <2>2. ~ Conforms(<< >>)
    BY <2>1, RootFacts DEF Conforms
  <2>. QED  BY <1>1, <2>2, CallFrame
<1>3. \A p : /\ Json(p)' = Json(p) /\ Copy(p)' = Copy(p) /\ (Conforms(p)' <=> Conforms(p))
  BY <1>1, CallFrame
<1>4. CASE Json(<< >>) = "slice"
  <2>1. result'.out = call'.out
    BY <1>1, <1>4 DEF OutSoFar
  <2>2. CopiesOrFails'
    BY <1>1, <1>2, <2>1, OutAlone
  <2>. QED  BY <1>1, <2>2, OutermostFacts DEF i2sIInv
<1>5. CASE Json(<< >>) = "map"
  <2>1. call.type[<< >>] = "struct"
    <3>1. ConformsAt(<< >>)
      BY OutermostFacts
    <3>. QED  BY <1>5, <3>1, RootFacts DEF ConformsAt, Kind
  <2>2. result'.out = loops[1].out
    BY <1>1, <1>5, OutermostFacts DEF OutSoFar
  <2>3. ASSUME NoScalarsInSlices, NEW f \in DOMAIN call.type, Len(f) = 1
        PROVE  CopiedOrKept(f)'
    <3>1. /\ result'.out = Filled(<< >>, Done(1)) /\ \A r \in Done(1) : Conforms(r)
          /\ call \in Calls /\ Done(1) \in SUBSET Parts(<< >>)
      BY <2>2, <2>3, OutermostFacts
    <3>2. f \in Seq(Int)
      BY <3>1, CallFacts
    <3>3. CASE f \in Done(1)
      <4>1. Part(result'.out, f) = Copy(f)'
        BY <1>3, <1>5, <2>3, <3>1, <3>2, <3>3, PartOfFilled
      <4>2. f \in DOMAIN call'.data
        BY <1>1, <3>1, <3>3 DEF Parts
      <4>3. Conforms(f)'
        BY <1>3, <3>1, <3>3
      <4>. QED  BY <4>1, <4>2, <4>3 DEF CopiedOrKept
    <3>4. CASE f \notin Done(1)
      <4>1. Part(result'.out, f) = Part(call'.out, f)
        BY <1>1, <1>5, <2>3, <3>1, <3>2, <3>4, PartOfFilled
      <4>. QED  BY <4>1 DEF CopiedOrKept
    <3>. QED  BY <3>3, <3>4
  <2>4. NoScalarsInSlices' <=> NoScalarsInSlices
    BY <1>1, CallFrame
  <2>5. CopiesOrFails'
    BY <1>1, <1>2, <1>3, <1>5, <2>1, <2>3, <2>4 DEF CopiesOrFails
  <2>. QED  BY <1>1, <2>5, OutermostFacts DEF i2sIInv
<1>. QED  BY <1>4, <1>5, OutermostFacts

LEMMA SucceedKeeps ==
  ASSUME i2sIInv, result.res = "filling", Succeed
  PROVE  i2sIInv'
<1>1. /\ call' = call /\ loops' = << >> /\ result'.res = "ok" /\ result'.out = Top.out
      /\ Len(loops) = 1 /\ Top.left = {} /\ Top = loops[1]
  BY DEF Succeed, Returns, Top
<1>2. /\ call \in Calls /\ call.pointer /\ Json(<< >>) \in {"map", "slice"} /\ ConformsAt(<< >>)
      /\ loops[1].at = << >> /\ << >> \in DOMAIN call.data
  BY OutermostFacts, CallFacts
<1>3. ASSUME NoScalarsInSlices PROVE Top.out = OutCopied /\ Conforms(<< >>)
  <2>1. Done(1) = Parts(<< >>)
    BY <1>1, <1>2, TopFacts
  <2>2. Top.out = Filled(<< >>, Parts(<< >>)) /\ \A q \in Parts(<< >>) : Conforms(q)
    BY <1>1, <1>3, <2>1, OutermostFacts
  <2>. QED  BY <1>2, <2>2, FilledWhole, ConformsWhole
<1>4. /\ NoScalarsInSlices' <=> NoScalarsInSlices
      /\ Conforms(<< >>)' <=> Conforms(<< >>)
      /\ OutCopied' = OutCopied
  BY <1>1, CallFrame
<1>5. CopiesOrFails'
  BY <1>1, <1>2, <1>3, <1>4 DEF CopiesOrFails
<1>. QED  BY <1>1, <1>2, <1>5 DEF i2sIInv

LEMMA i2sInit_IInv == i2sInit => i2sIInv
BY DEF i2sInit, Returns, i2sIInv, CopiesOrFails

LEMMA i2sStep ==
  ASSUME i2sIInv, [i2sNext]_i2sVars
  PROVE  i2sIInv'
<1>1. CASE i2sNext
  <2>1. CASE \E c \in Calls : CallI2s(c)
    BY <2>1, CallKeeps
  <2>2. CASE Begin
    BY <2>2, BeginKeeps
  <2>3. CASE Ascend
    <3>1. result.res = "filling"
      BY <2>3 DEF Ascend
    <3>. QED  BY <2>3, <3>1, AscendKeeps
  <2>4. CASE Succeed
    <3>1. result.res = "filling"
      BY <2>4 DEF Succeed
    <3>. QED  BY <2>4, <3>1, SucceedKeeps
  <2>5. ASSUME result.res = "filling", NEW q \in Top.left,
               Descend(q) \/ SetScalar(q) \/ PassOver(q) \/ Fail(q)
        PROVE  i2sIInv'
    BY <2>5, DescendKeeps, SetScalarKeeps, PassOverKeeps, FailKeeps
  <2>. QED  BY <1>1, <2>1, <2>2, <2>3, <2>4, <2>5 DEF i2sNext
<1>2. CASE UNCHANGED i2sVars
  <2>1. call' = call /\ result' = result /\ loops' = loops
    BY <1>2 DEF i2sVars
  <2>2. CASE result.res = "filling"
    <3>1. Stacked /\ CopiedSoFar
      BY <2>2 DEF i2sIInv
    <3>2. Stacked' /\ CopiedSoFar'
      <4>1. \A p : /\ Json(p)' = Json(p) /\ Parts(p)' = Parts(p) /\ (ConformsAt(p)' <=> ConformsAt(p))
                   /\ (Conforms(p)' <=> Conforms(p)) /\ \A D : Filled(p, D)' = Filled(p, D)
        BY <2>1, CallFrame
      <4>2. \A j : Done(j)' = Done(j)
        BY <2>1, <4>1 DEF Done
      <4>3. Stacked'
        BY <2>1, <3>1, <4>1 DEF Stacked
      <4>4. NoScalarsInSlices' <=> NoScalarsInSlices
        BY <2>1, CallFrame
      <4>5. CopiedSoFar'
        BY <2>1, <3>1, <4>1, <4>2, <4>4 DEF CopiedSoFar
      <4>. QED  BY <4>3, <4>5
    <3>. QED  BY <2>1, <2>2, <3>2, Going
  <2>3. CASE result.res # "filling"
    <3>1. CopiesOrFails'
      <4>1. CopiesOrFails
        BY DEF i2sIInv
      <4>2. \A p : Json(p)' = Json(p) /\ Copy(p)' = Copy(p) /\ (Conforms(p)' <=> Conforms(p))
        BY <2>1, CallFrame
      <4>3. (NoScalarsInSlices' <=> NoScalarsInSlices) /\ OutCopied' = OutCopied
        BY <2>1, CallFrame
      <4>4. \A f : CopiedOrKept(f)' <=> CopiedOrKept(f)
        BY <2>1, <4>2 DEF CopiedOrKept
      <4>. QED  BY <2>1, <4>1, <4>2, <4>3, <4>4 DEF CopiesOrFails
    <3>. QED  BY <2>1, <2>3, <3>1 DEF i2sIInv
  <2>. QED  BY <2>2, <2>3
<1>. QED  BY <1>1, <1>2

\* CopiesOrFails, for every call that Calls may hold, however deep its data: i2s
\* succeeds just for data of the shape of out, with the copy of the data in out, and
\* otherwise leaves every field as it was or the whole copy of its own data
\* (i2s.go:9-117).
THEOREM ValuesCopied == i2sSpec => []CopiesOrFails
<1>1. i2sIInv => CopiesOrFails
  BY DEF i2sIInv
<1>2. i2sIInv /\ [i2sNext]_i2sVars => i2sIInv'
  BY i2sStep
<1>. QED  BY <1>1, <1>2, i2sInit_IInv, PTL DEF i2sSpec
=============================================================================
