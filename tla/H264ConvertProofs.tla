--------------------------- MODULE H264ConvertProofs ---------------------------
(***************************************************************************)
(* Theorems about the converter, for a buffer of any size and any file:    *)
(* the buffer is never overrun, no byte of the file is written twice or    *)
(* out of order, only a sample at the seam between two reads is not a unit *)
(* of the file, and of a file that is read at once the samples are the     *)
(* units a player needs, from the first one on.                            *)
(*                                                                         *)
(* The scans are recursive functions.  Recursion shows that the functions  *)
(* they define exist, and Descent what they return.                        *)
(***************************************************************************)
EXTENDS H264Convert, FiniteSetTheorems, SequenceTheorems, WellFoundedInduction, TLAPS

(***************************************************************************)
(* Induction and recursion.                                                *)
(***************************************************************************)

\* A set of arguments that has each argument whose predecessors it has, has
\* all of them.
LEMMA Descent ==
  ASSUME NEW D, NEW rank \in [D -> Nat], NEW T,
         \A i \in D : (\A j \in D : rank[j] < rank[i] => j \in T) => i \in T
  PROVE  \A i \in D : i \in T
<1> SUFFICES ASSUME NEW d \in D, d \notin T
             PROVE  FALSE
  OBVIOUS
<1> DEFINE R == OpToRel(<, Nat)
           ranks == {rank[i] : i \in D \ T}
<1>1. IsWellFoundedOn(R, Nat)
  BY NatLessThanWellFounded
<1>2. \A x, y \in Nat : y < x => <<y, x>> \in R
  BY DEF OpToRel
<1>3. ranks \subseteq Nat /\ ranks # {}
  OBVIOUS
<1> HIDE DEF R, ranks
<1>4. \E x \in ranks : \A y \in ranks : ~ (<<y, x>> \in R)
  BY <1>1, <1>3, WFMin
<1>5. PICK x \in ranks : \A y \in ranks : ~ (<<y, x>> \in R)
  BY <1>4
<1>6. \A y \in ranks : ~ (y < x)
  BY <1>2, <1>3, <1>5
<1>7. PICK i \in D \ T : x = rank[i]
  BY DEF ranks
<1>8. \A j \in D : rank[j] < rank[i] => j \in T
  BY <1>6, <1>7 DEF ranks
<1> QED
  BY <1>7, <1>8

\* f is defined on D by recursion: a value for the arguments of base, and for
\* each other one h of it and of the value for the argument next to it.
IsRecursive(f, D, base, val, next, h) ==
  f = [i \in D |-> IF i \in base THEN val[i] ELSE h[<<i, f[next[i]]>>]]

Below(D, rank, k) == {i \in D : rank[i] < k}

LEMMA RecursionUnique ==
  ASSUME NEW D, NEW rank \in [D -> Nat], NEW base, NEW val, NEW next, NEW h,
         \A i \in D \ base : next[i] \in D /\ rank[next[i]] < rank[i],
         NEW k \in Nat, NEW f, IsRecursive(f, Below(D, rank, k), base, val, next, h),
         NEW l \in Nat, NEW g, IsRecursive(g, Below(D, rank, l), base, val, next, h)
  PROVE  \A i \in D : rank[i] < k /\ rank[i] < l => f[i] = g[i]
<1> DEFINE T == {i \in D : rank[i] < k /\ rank[i] < l => f[i] = g[i]}
<1>1. ASSUME NEW i \in D, \A j \in D : rank[j] < rank[i] => j \in T
      PROVE  i \in T
  <2> SUFFICES ASSUME rank[i] < k, rank[i] < l
               PROVE  f[i] = g[i]
    OBVIOUS
  <2>1. i \in Below(D, rank, k) /\ i \in Below(D, rank, l)
    BY DEF Below
  <2>2. /\ f[i] = IF i \in base THEN val[i] ELSE h[<<i, f[next[i]]>>]
        /\ g[i] = IF i \in base THEN val[i] ELSE h[<<i, g[next[i]]>>]
    BY <2>1 DEF IsRecursive
  <2>3. i \notin base => f[next[i]] = g[next[i]]
    <3> SUFFICES ASSUME i \notin base
                 PROVE  f[next[i]] = g[next[i]]
      OBVIOUS
    <3>1. next[i] \in D /\ rank[next[i]] < rank[i] /\ rank[next[i]] \in Nat /\ rank[i] \in Nat
      OBVIOUS
    <3> QED
      BY <1>1, <3>1
  <2> QED
    BY <2>2, <2>3
<1> HIDE DEF T
<1>2. \A i \in D : i \in T
  BY <1>1, Descent
<1> QED
  BY <1>2 DEF T

LEMMA RecursionBelow ==
  ASSUME NEW D, NEW rank \in [D -> Nat], NEW base, NEW val, NEW next, NEW h,
         \A i \in D \ base : next[i] \in D /\ rank[next[i]] < rank[i]
  PROVE  \A k \in Nat : \E f : IsRecursive(f, Below(D, rank, k), base, val, next, h)
<1> DEFINE S == {k \in Nat : \E f : IsRecursive(f, Below(D, rank, k), base, val, next, h)}
<1>1. ASSUME NEW k \in Nat, \A l \in Nat : l < k => l \in S
      PROVE  k \in S
  <2>1. CASE k = 0
    <3> DEFINE f == [i \in Below(D, rank, k) |-> 0]
    <3>1. Below(D, rank, k) = {}
      BY <2>1 DEF Below
    <3>2. IsRecursive(f, Below(D, rank, k), base, val, next, h)
      BY <3>1 DEF IsRecursive
    <3> QED
      BY <3>2
  <2>2. CASE k # 0
    <3>1. k - 1 \in Nat /\ k - 1 < k
      BY <2>2
    <3>2. PICK g : IsRecursive(g, Below(D, rank, k - 1), base, val, next, h)
      BY <1>1, <3>1
    <3> DEFINE E == Below(D, rank, k)
               f == [i \in E |-> IF i \in base THEN val[i] ELSE h[<<i, g[next[i]]>>]]
    <3>3. ASSUME NEW i \in E
          PROVE  f[i] = IF i \in base THEN val[i] ELSE h[<<i, f[next[i]]>>]
      <4> SUFFICES ASSUME i \notin base
                   PROVE  f[next[i]] = g[next[i]]
        OBVIOUS
      <4> DEFINE j == next[i]
      <4>1. i \in D /\ rank[i] \in Nat /\ rank[i] < k
        BY DEF Below
      <4>2. j \in D /\ rank[j] < rank[i] /\ rank[j] \in Nat
        BY <4>1
      <4>3. j \in E /\ j \in Below(D, rank, k - 1)
        BY <4>1, <4>2 DEF Below
      <4>4. f[j] = IF j \in base THEN val[j] ELSE h[<<j, g[next[j]]>>]
        BY <4>3
      <4>5. g[j] = IF j \in base THEN val[j] ELSE h[<<j, g[next[j]]>>]
        BY <3>2, <4>3 DEF IsRecursive
      <4> QED
        BY <4>4, <4>5
    <3>4. IsRecursive(f, E, base, val, next, h)
      <4>1. f = [i \in E |-> f[i]]
        OBVIOUS
      <4> HIDE DEF f, E
      <4> QED
        BY <3>3, <4>1 DEF IsRecursive
    <3> QED
      BY <3>4
  <2> QED
    BY <2>1, <2>2
<1> DEFINE id == [k \in Nat |-> k]
<1>2. id \in [Nat -> Nat] /\ \A k \in Nat : id[k] = k
  OBVIOUS
<1> HIDE DEF S, id
<1>3. \A k \in Nat : (\A l \in Nat : id[l] < id[k] => l \in S) => k \in S
  BY <1>1, <1>2
<1>4. \A k \in Nat : k \in S
  BY <1>2, <1>3, Descent
<1> QED
  BY <1>4 DEF S

LEMMA Recursion ==
  ASSUME NEW D, NEW rank \in [D -> Nat], NEW base, NEW val, NEW next, NEW h,
         \A i \in D \ base : next[i] \in D /\ rank[next[i]] < rank[i]
  PROVE  \E f : IsRecursive(f, D, base, val, next, h)
<1> DEFINE part(k) == CHOOSE f : IsRecursive(f, Below(D, rank, k), base, val, next, h)
           f       == [i \in D |-> part(rank[i] + 1)[i]]
<1>1. \A k \in Nat : IsRecursive(part(k), Below(D, rank, k), base, val, next, h)
  BY RecursionBelow
<1>2. ASSUME NEW i \in D
      PROVE  f[i] = IF i \in base THEN val[i] ELSE h[<<i, f[next[i]]>>]
  <2> DEFINE j == next[i]
             p == part(rank[i] + 1)
             q == part(rank[j] + 1)
  <2>1. rank[i] \in Nat /\ rank[i] + 1 \in Nat /\ rank[i] < rank[i] + 1
    OBVIOUS
  <2>2. IsRecursive(p, Below(D, rank, rank[i] + 1), base, val, next, h)
    BY <1>1, <2>1
  <2>3. f[i] = p[i]
    OBVIOUS
  <2>4. p[i] = IF i \in base THEN val[i] ELSE h[<<i, p[j]>>]
    <3>1. i \in Below(D, rank, rank[i] + 1)
      BY <2>1 DEF Below
    <3> HIDE DEF p
    <3> QED
      BY <2>2, <3>1 DEF IsRecursive
  <2>5. i \notin base => f[j] = p[j]
    <3> SUFFICES ASSUME i \notin base
                 PROVE  f[j] = p[j]
      OBVIOUS
    <3>1. j \in D /\ rank[j] < rank[i] /\ rank[j] \in Nat /\ rank[j] + 1 \in Nat
      OBVIOUS
    <3>2. f[j] = q[j]
      BY <3>1
    <3>3. IsRecursive(q, Below(D, rank, rank[j] + 1), base, val, next, h)
      BY <1>1, <3>1
    <3>4. rank[j] < rank[i] + 1 /\ rank[j] < rank[j] + 1
      BY <2>1, <3>1
    <3>5. q[j] = p[j]
      <4> HIDE DEF p, q, j
      <4> QED
        BY <2>1, <2>2, <3>1, <3>3, <3>4, RecursionUnique
    <3> QED
      BY <3>2, <3>5
  <2> HIDE DEF f, p, j
  <2> QED
    BY <2>3, <2>4, <2>5 DEF j
<1>3. f = [i \in D |-> f[i]]
  OBVIOUS
<1> HIDE DEF f
<1>4. IsRecursive(f, D, base, val, next, h)
  BY <1>2, <1>3 DEF IsRecursive
<1> QED
  BY <1>4

\* A recursion that returns the value of its last step.
IsPassed(f, D, base, val, next) ==
  f = [i \in D |-> IF i \in base THEN val[i] ELSE f[next[i]]]

LEMMA Passed ==
  ASSUME NEW D, NEW rank \in [D -> Nat], NEW base, NEW val, NEW next, NEW V,
         \A i \in D \ base : next[i] \in D /\ rank[next[i]] < rank[i],
         \A i \in D \cap base : val[i] \in V
  PROVE  /\ \E f : IsPassed(f, D, base, val, next)
         /\ \A f : IsPassed(f, D, base, val, next) => \A i \in D : f[i] \in V
<1> DEFINE h == [x \in D \X V |-> x[2]]
<1>1. PICK f : IsRecursive(f, D, base, val, next, h)
  <2> HIDE DEF h
  <2> QED
    BY Recursion
<1>2. \A i \in D : f[i] = IF i \in base THEN val[i] ELSE h[<<i, f[next[i]]>>]
  <2> HIDE DEF h
  <2> QED
    BY <1>1 DEF IsRecursive
<1> DEFINE T == {i \in D : f[i] \in V}
<1>3. ASSUME NEW i \in D, \A j \in D : rank[j] < rank[i] => j \in T
      PROVE  i \in T
  <2>1. CASE i \in base
    BY <1>2, <2>1
  <2>2. CASE i \notin base
    <3>1. next[i] \in D /\ f[next[i]] \in V
      BY <1>3, <2>2
    <3>2. f[i] = f[next[i]]
      BY <1>2, <2>2, <3>1
    <3> QED
      BY <3>1, <3>2
  <2> QED
    BY <2>1, <2>2
<1> HIDE DEF T
<1>4. \A i \in D : i \in T
  BY <1>3, Descent
<1>5. ASSUME NEW i \in D
      PROVE  f[i] = IF i \in base THEN val[i] ELSE f[next[i]]
  <2>1. CASE i \notin base
    <3>1. next[i] \in D /\ f[next[i]] \in V
      BY <1>4, <2>1 DEF T
    <3> QED
      BY <1>2, <2>1, <3>1
  <2> QED
    BY <1>2, <2>1
<1>6. f = [i \in D |-> f[i]]
  <2> HIDE DEF h
  <2> QED
    BY <1>1 DEF IsRecursive
<1>7. IsPassed(f, D, base, val, next)
  <2> HIDE DEF h
  <2> QED
    BY <1>5, <1>6 DEF IsPassed
<1>8. ASSUME NEW g, IsPassed(g, D, base, val, next)
      PROVE  \A i \in D : g[i] \in V
  <2> DEFINE U == {i \in D : g[i] \in V}
  <2>1. \A i \in D : g[i] = IF i \in base THEN val[i] ELSE g[next[i]]
    BY <1>8 DEF IsPassed
  <2>2. \A i \in D : (\A j \in D : rank[j] < rank[i] => j \in U) => i \in U
    BY <2>1
  <2> HIDE DEF U
  <2>3. \A i \in D : i \in U
    BY <2>2, Descent
  <2> QED
    BY <2>3 DEF U
<1> QED
  BY <1>7, <1>8

(***************************************************************************)
(* Start codes in a buffer.                                                *)
(***************************************************************************)

Code(m, p) ==
  /\ p \in 1..(Len(m) - 3)
  /\ m[p].byte = 0 /\ m[p + 1].byte = 0 /\ m[p + 2].byte = 0 /\ m[p + 3].byte = 1

LEMMA StartCodeBytes ==
  \A j \in 1..4 : StartCode[j] = IF j = 4 THEN 1 ELSE 0
BY DEF StartCode

LEMMA MatchedFromCode ==
  ASSUME NEW m \in Seq(Bytes), NEW i \in Nat \ {0}
  PROVE  /\ MatchedFrom(m, i) \in 0..4
         /\ MatchedFrom(m, i) = 4 <=> Code(m, i)
<1> DEFINE hit(j) == i + j - 1 <= Len(m) /\ m[i + j - 1].byte = StartCode[j]
           ok(k)  == /\ \A j \in 1..k : hit(j)
                     /\ k < 4 => i + k > Len(m) \/ m[i + k].byte # StartCode[k + 1]
           k == CHOOSE l \in 0..4 : ok(l)
<1>1. Len(m) \in Nat
  BY LenProperties
<1>2. \A l \in 0..3 : (~hit(l + 1)) <=> i + l > Len(m) \/ m[i + l].byte # StartCode[l + 1]
  <2> TAKE l \in 0..3
  <2>1. i + (l + 1) - 1 = i + l
    OBVIOUS
  <2> QED
    BY <1>1, <2>1
<1>3. \E l \in 0..4 : ok(l)
  <2>1. ok(4) \/ ok(3) \/ ok(2) \/ ok(1) \/ ok(0)
    <3>1. /\ ok(0) <=> ~hit(1)
          /\ ok(1) <=> hit(1) /\ ~hit(2)
          /\ ok(2) <=> hit(1) /\ hit(2) /\ ~hit(3)
          /\ ok(3) <=> hit(1) /\ hit(2) /\ hit(3) /\ ~hit(4)
          /\ ok(4) <=> hit(1) /\ hit(2) /\ hit(3) /\ hit(4)
      <4> HIDE DEF hit
      <4>1. \A l \in 0..3 : ok(l) <=> (\A j \in 1..l : hit(j)) /\ ~hit(l + 1)
        BY <1>2 DEF hit
      <4>2. ok(4) <=> \A j \in 1..4 : hit(j)
        OBVIOUS
      <4> HIDE DEF ok
      <4> QED
        BY <4>1, <4>2
    <3> HIDE DEF ok, hit
    <3> QED
      BY <3>1
  <2> HIDE DEF ok
  <2> QED
    BY <2>1
<1>4. k \in 0..4 /\ ok(k)
  <2> HIDE DEF ok
  <2> QED
    BY <1>3
<1>5. MatchedFrom(m, i) = k
  BY DEF MatchedFrom
<1>6. ASSUME k = 4
      PROVE  Code(m, i)
  <2>1. \A j \in 1..4 : hit(j)
    <3> HIDE DEF hit, k
    <3> QED
      BY <1>4, <1>6
  <2>2. hit(1) /\ hit(2) /\ hit(3) /\ hit(4)
    <3> HIDE DEF hit
    <3> QED
      BY <2>1
  <2> QED
    BY <1>1, <2>2, StartCodeBytes DEF Code
<1>7. ASSUME Code(m, i), k # 4
      PROVE  FALSE
  <2> HIDE DEF k
  <2>1. k \in 0..3
    BY <1>4, <1>7
  <2>2. ~(i + k > Len(m))
    BY <1>1, <1>7, <2>1 DEF Code
  <2>3. m[i + k].byte # StartCode[k + 1]
    BY <1>4, <2>1, <2>2
  <2>4. k = 0 \/ k = 1 \/ k = 2 \/ k = 3
    BY <2>1
  <2> QED
    BY <1>7, <2>3, <2>4, StartCodeBytes DEF Code
<1> HIDE DEF k
<1> QED
  BY <1>4, <1>5, <1>6, <1>7

LEMMA MatchedBeforeCode ==
  ASSUME NEW m \in Seq(Bytes), NEW i \in 1..Len(m)
  PROVE  /\ MatchedBefore(m, i) \in 0..4
         /\ MatchedBefore(m, i) = 4 <=> Code(m, i - 3)
<1> DEFINE hit(j) == i - j + 1 >= 1 /\ m[i - j + 1].byte = StartCode[5 - j]
           ok(k)  == /\ \A j \in 1..k : hit(j)
                     /\ k < 4 => i - k < 1 \/ m[i - k].byte # StartCode[4 - k]
           k == CHOOSE l \in 0..4 : ok(l)
<1>1. Len(m) \in Nat
  BY LenProperties
<1>2. \A l \in 0..3 : (~hit(l + 1)) <=> i - l < 1 \/ m[i - l].byte # StartCode[4 - l]
  <2> TAKE l \in 0..3
  <2>1. i - (l + 1) + 1 = i - l /\ 5 - (l + 1) = 4 - l
    OBVIOUS
  <2> QED
    BY <1>1, <2>1
<1>3. \E l \in 0..4 : ok(l)
  <2>1. ok(4) \/ ok(3) \/ ok(2) \/ ok(1) \/ ok(0)
    <3>1. /\ ok(0) <=> ~hit(1)
          /\ ok(1) <=> hit(1) /\ ~hit(2)
          /\ ok(2) <=> hit(1) /\ hit(2) /\ ~hit(3)
          /\ ok(3) <=> hit(1) /\ hit(2) /\ hit(3) /\ ~hit(4)
          /\ ok(4) <=> hit(1) /\ hit(2) /\ hit(3) /\ hit(4)
      <4> HIDE DEF hit
      <4>1. \A l \in 0..3 : ok(l) <=> (\A j \in 1..l : hit(j)) /\ ~hit(l + 1)
        BY <1>2 DEF hit
      <4>2. ok(4) <=> \A j \in 1..4 : hit(j)
        OBVIOUS
      <4> HIDE DEF ok
      <4> QED
        BY <4>1, <4>2
    <3> HIDE DEF ok, hit
    <3> QED
      BY <3>1
  <2> HIDE DEF ok
  <2> QED
    BY <2>1
<1>4. k \in 0..4 /\ ok(k)
  <2> HIDE DEF ok
  <2> QED
    BY <1>3
<1>5. MatchedBefore(m, i) = k
  BY DEF MatchedBefore
<1>6. ASSUME k = 4
      PROVE  Code(m, i - 3)
  <2>1. \A j \in 1..4 : hit(j)
    <3> HIDE DEF hit, k
    <3> QED
      BY <1>4, <1>6
  <2>2. hit(1) /\ hit(2) /\ hit(3) /\ hit(4)
    <3> HIDE DEF hit
    <3> QED
      BY <2>1
  <2> QED
    BY <1>1, <2>2, StartCodeBytes DEF Code
<1>7. ASSUME Code(m, i - 3), k # 4
      PROVE  FALSE
  <2> HIDE DEF k
  <2>1. k \in 0..3
    BY <1>4, <1>7
  <2>2. ~(i - k < 1)
    BY <1>1, <1>7, <2>1 DEF Code
  <2>3. m[i - k].byte # StartCode[4 - k]
    BY <1>4, <2>1, <2>2
  <2>4. k = 0 \/ k = 1 \/ k = 2 \/ k = 3
    BY <2>1
  <2>5. /\ i - 3 + 1 = i - 2 /\ i - 3 + 2 = i - 1 /\ i - 3 + 3 = i - 0
        /\ m[i - 3].byte = 0 /\ m[i - 2].byte = 0 /\ m[i - 1].byte = 0 /\ m[i - 0].byte = 1
    BY <1>7 DEF Code
  <2> QED
    BY <2>3, <2>4, <2>5, StartCodeBytes
<1> HIDE DEF k
<1> QED
  BY <1>4, <1>5, <1>6, <1>7

\* Two start codes have no byte in common.
LEMMA CodesApart ==
  ASSUME NEW m \in Seq(Bytes), NEW p, NEW q, Code(m, p), Code(m, q), p < q
  PROVE  p + 4 <= q
<1>1. Len(m) \in Nat
  BY LenProperties
<1>2. p \in Int /\ q \in Int
  BY <1>1 DEF Code
<1>3. q # p + 1 /\ q # p + 2 /\ q # p + 3
  BY <1>2, SMTT(30) DEF Code
<1> QED
  BY <1>2, <1>3

(***************************************************************************)
(* The scans.                                                              *)
(***************************************************************************)

LEMMA LastCode ==
  ASSUME NEW m \in Seq(Bytes)
  PROVE  LastStartCode(m) \in {0} \cup {i \in 1..Len(m) : Code(m, i - 3)}
<1> DEFINE D    == -4..Len(m)
           V    == {0} \cup {i \in 1..Len(m) : Code(m, i - 3)}
           F(f) == [i \in D |-> IF i < 1 THEN 0
                                ELSE IF MatchedBefore(m, i) = 4 THEN i
                                ELSE f[i - MatchedBefore(m, i) - 2]]
           rank == [i \in D |-> i + 4]
           base == {i \in D : i < 1 \/ MatchedBefore(m, i) = 4}
           val  == [i \in D |-> IF i < 1 THEN 0 ELSE i]
           next == [i \in D |-> i - MatchedBefore(m, i) - 2]
           back == CHOOSE f : f = F(f)
<1>1. Len(m) \in Nat
  BY LenProperties
<1>2. \A i \in D : i >= 1 => /\ MatchedBefore(m, i) \in 0..4
                             /\ MatchedBefore(m, i) = 4 <=> Code(m, i - 3)
  BY <1>1, MatchedBeforeCode
<1>3. rank \in [D -> Nat]
  BY <1>1
<1>4. \A i \in D \ base : next[i] \in D /\ rank[next[i]] < rank[i]
  <2> SUFFICES ASSUME NEW i \in D \ base
               PROVE  next[i] \in D /\ rank[next[i]] < rank[i]
    OBVIOUS
  <2>1. i \in D /\ i >= 1 /\ MatchedBefore(m, i) \in 0..3
    BY <1>1, <1>2
  <2>2. next[i] = i - MatchedBefore(m, i) - 2
    BY <2>1
  <2>3. next[i] \in D /\ next[i] < i
    BY <1>1, <2>1, <2>2
  <2> QED
    BY <1>1, <2>1, <2>3
<1>5. \A i \in base : val[i] \in V
  BY <1>1, <1>2
<1>7. \A i \in D : /\ i < 1 \/ MatchedBefore(m, i) = 4 <=> i \in base
                   /\ next[i] = i - MatchedBefore(m, i) - 2
                   /\ val[i] = IF i < 1 THEN 0 ELSE i
  OBVIOUS
<1>8. /\ \E f : IsPassed(f, D, base, val, next)
      /\ \A f : IsPassed(f, D, base, val, next) => \A i \in D : f[i] \in V
  <2>1. \A i \in D \cap base : val[i] \in V
    BY <1>5
  <2> HIDE DEF D, V, base, val, next, rank
  <2> QED
    BY <1>3, <1>4, <2>1, Passed
<1>9. \A i \in D : back[i] \in V
  <2>1. ASSUME NEW f
        PROVE  IsPassed(f, D, base, val, next) <=> f = F(f)
    <3> HIDE DEF D, base, val, next
    <3> QED
      BY <1>7 DEF IsPassed
  <2>2. back = F(back)
    <3> HIDE DEF F
    <3> QED
      BY <1>8, <2>1
  <2> HIDE DEF F, D, V, base, val, next, back
  <2> QED
    BY <1>8, <2>1, <2>2
<1>10. LastStartCode(m) = back[Len(m)]
  BY DEF LastStartCode
<1>11. Len(m) \in D
  BY <1>1
<1> HIDE DEF D, V, back
<1>12. LastStartCode(m) \in V
  BY <1>9, <1>10, <1>11
<1> QED
  BY <1>12 DEF V

LEMMA FirstCode ==
  ASSUME NEW m \in Seq(Bytes), NEW n \in Nat
  PROVE  /\ FirstUnit(m, n) \in {0} \cup {i + 4 : i \in {p \in 1..n : Code(m, p)}}
         /\ n >= 1 /\ Code(m, 1) => FirstUnit(m, n) = 5
<1> DEFINE D    == 1..(n + 4)
           V    == {0} \cup {i + 4 : i \in {p \in 1..n : Code(m, p)}}
           F(f) == [i \in D |-> IF i > n THEN 0
                                ELSE IF MatchedFrom(m, i) = 4 THEN i + 4
                                ELSE f[i + MatchedFrom(m, i) + 1]]
           rank == [i \in D |-> n + 4 - i]
           base == {i \in D : i > n \/ MatchedFrom(m, i) = 4}
           val  == [i \in D |-> IF i > n THEN 0 ELSE i + 4]
           next == [i \in D |-> i + MatchedFrom(m, i) + 1]
           scan == CHOOSE f : f = F(f)
<1>2. \A i \in D : /\ MatchedFrom(m, i) \in 0..4
                   /\ MatchedFrom(m, i) = 4 <=> Code(m, i)
  BY MatchedFromCode
<1>3. rank \in [D -> Nat]
  OBVIOUS
<1>4. \A i \in D \ base : next[i] \in D /\ rank[next[i]] < rank[i]
  <2> SUFFICES ASSUME NEW i \in D \ base
               PROVE  next[i] \in D /\ rank[next[i]] < rank[i]
    OBVIOUS
  <2>1. i \in D /\ i <= n /\ MatchedFrom(m, i) \in 0..3
    BY <1>2
  <2>2. next[i] = i + MatchedFrom(m, i) + 1
    BY <2>1
  <2>3. next[i] \in D /\ next[i] > i
    BY <2>1, <2>2
  <2> QED
    BY <2>1, <2>3
<1>5. \A i \in base : val[i] \in V
  BY <1>2
<1>7. \A i \in D : /\ i > n \/ MatchedFrom(m, i) = 4 <=> i \in base
                   /\ next[i] = i + MatchedFrom(m, i) + 1
                   /\ val[i] = IF i > n THEN 0 ELSE i + 4
  OBVIOUS
<1>8. /\ \E f : IsPassed(f, D, base, val, next)
      /\ \A f : IsPassed(f, D, base, val, next) => \A i \in D : f[i] \in V
  <2>1. \A i \in D \cap base : val[i] \in V
    BY <1>5
  <2> HIDE DEF D, V, base, val, next, rank
  <2> QED
    BY <1>3, <1>4, <2>1, Passed
<1>9. (\A i \in D : scan[i] \in V) /\ scan = F(scan)
  <2>1. ASSUME NEW f
        PROVE  IsPassed(f, D, base, val, next) <=> f = F(f)
    <3> HIDE DEF D, base, val, next
    <3> QED
      BY <1>7 DEF IsPassed
  <2>2. scan = F(scan)
    <3> HIDE DEF F
    <3> QED
      BY <1>8, <2>1
  <2> HIDE DEF F, D, V, base, val, next, scan
  <2> QED
    BY <1>8, <2>1, <2>2
<1>10. FirstUnit(m, n) = scan[1]
  BY DEF FirstUnit
<1>11. 1 \in D
  OBVIOUS
<1>12. ASSUME n >= 1, Code(m, 1)
       PROVE  scan[1] = 5
  <2>1. MatchedFrom(m, 1) = 4 /\ ~(1 > n)
    BY <1>2, <1>12
  <2> HIDE DEF scan
  <2> QED
    BY <1>9, <1>11, <2>1
<1> HIDE DEF D, V, scan, F
<1>13. FirstUnit(m, n) \in V
  BY <1>9, <1>10, <1>11
<1> QED
  BY <1>10, <1>12, <1>13 DEF V

\* The unit that starts at i ends before the first start code from i on.
LEMMA EndOfUnit ==
  ASSUME NEW m \in Seq(Bytes), NEW n \in 0..Len(m), NEW i \in 1..(n + 1)
  PROVE  LET e == UnitEnd(m, i, n)
         IN /\ e \in (i - 1)..n
            /\ \A p \in i..(n - 3) : Code(m, p) => e < p
            /\ e = n \/ (e + 4 <= n /\ Code(m, e + 1))
<1> DEFINE codes == {p \in i..(n - 3) : MatchedFrom(m, p) = 4}
           least == CHOOSE p \in codes : \A q \in codes : p <= q
<1>1. Len(m) \in Nat /\ n \in Nat /\ i \in Nat \ {0}
  BY LenProperties
<1>2. \A p \in i..(n - 3) : p \in codes <=> Code(m, p)
  BY <1>1, MatchedFromCode
<1>3. CASE codes = {}
  <2>1. UnitEnd(m, i, n) = n
    BY <1>3 DEF UnitEnd
  <2>2. \A p \in i..(n - 3) : ~Code(m, p)
    BY <1>2, <1>3
  <2> QED
    BY <1>1, <2>1, <2>2
<1>4. CASE codes # {}
  <2>1. \E p \in codes : \A q \in codes : p <= q
    <3> DEFINE rank == [p \in codes |-> p]
               T    == {}
    <3>1. rank \in [codes -> Nat] /\ \A p \in codes : rank[p] = p /\ p \in Nat
      BY <1>1
    <3> HIDE DEF codes, rank
    <3>2. ~(\A p \in codes : (\A q \in codes : rank[q] < rank[p] => q \in T) => p \in T)
      <4> HIDE DEF T
      <4> SUFFICES ASSUME \A p \in codes : (\A q \in codes : rank[q] < rank[p] => q \in T) => p \in T
                   PROVE  FALSE
        OBVIOUS
      <4>1. \A p \in codes : p \in T
        BY <3>1, Descent
      <4> QED
        BY <1>4, <4>1 DEF T
    <3>3. PICK p \in codes : \A q \in codes : ~(rank[q] < rank[p])
      BY <3>2
    <3> QED
      BY <3>1, <3>3
  <2>2. least \in codes /\ \A q \in codes : least <= q
    <3> HIDE DEF codes
    <3> QED
      BY <2>1
  <2>3. UnitEnd(m, i, n) = least - 1
    BY <1>4 DEF UnitEnd
  <2> HIDE DEF least
  <2>4. least \in i..(n - 3) /\ Code(m, least)
    BY <1>2, <2>2
  <2>5. \A p \in i..(n - 3) : Code(m, p) => least <= p
    BY <1>2, <2>2
  <2> HIDE DEF codes
  <2>6. (least - 1) + 1 = least
    BY <2>4
  <2> QED
    BY <1>1, <2>3, <2>4, <2>5, <2>6
<1> QED
  BY <1>3, <1>4

Span(n) == [first : 1..(n + 1), last : 0..n]

\* The units of the first n bytes from i on: each goes to the next start code,
\* and the last one to n.
Chain(m, n, i) ==
  {s \in Seq(Span(n)) :
     /\ s # <<>> /\ s[1].first = i /\ s[Len(s)].last = n
     /\ \A k \in 1..Len(s) :
          /\ s[k].first - 1 <= s[k].last
          /\ \A p \in s[k].first..(n - 3) : Code(m, p) => s[k].last < p
     /\ \A k \in 1..(Len(s) - 1) :
          /\ Code(m, s[k].last + 1)
          /\ s[k + 1].first = s[k].last + 5}

LEMMA ChainEnds ==
  ASSUME NEW m \in Seq(Bytes), NEW n \in 0..Len(m), NEW i \in 1..(n + 1), UnitEnd(m, i, n) = n
  PROVE  <<[first |-> i, last |-> n]>> \in Chain(m, n, i)
<1> DEFINE u == [first |-> i, last |-> n]
           s == <<u>>
<1>1. n \in Nat /\ i \in Nat
  BY LenProperties
<1>2. u \in Span(n)
  BY <1>1 DEF Span
<1>3. u.first = i /\ u.last = n
  OBVIOUS
<1> HIDE DEF u
<1>4. s \in Seq(Span(n)) /\ Len(s) = 1 /\ s # <<>> /\ s[1] = u
  BY <1>2
<1>5. i - 1 <= n /\ \A p \in i..(n - 3) : Code(m, p) => n < p
  BY <1>1, EndOfUnit
<1> HIDE DEF s
<1>6. \A k \in 1..Len(s) : s[k] = u
  BY <1>4
<1>7. 1..(Len(s) - 1) = {}
  BY <1>4
<1>8. s[1].first = i /\ s[Len(s)].last = n
  BY <1>3, <1>4
<1>9. \A k \in 1..Len(s) :
        /\ s[k].first - 1 <= s[k].last
        /\ \A p \in s[k].first..(n - 3) : Code(m, p) => s[k].last < p
  BY <1>3, <1>5, <1>6
<1>10. s \in Chain(m, n, i)
  BY <1>4, <1>7, <1>8, <1>9 DEF Chain
<1> QED
  BY <1>10 DEF s, u

LEMMA ChainGrows ==
  ASSUME NEW m \in Seq(Bytes), NEW n \in 0..Len(m), NEW i \in 1..(n + 1),
         UnitEnd(m, i, n) + 4 <= n, NEW s \in Chain(m, n, UnitEnd(m, i, n) + 5)
  PROVE  <<[first |-> i, last |-> UnitEnd(m, i, n)]>> \o s \in Chain(m, n, i)
<1> DEFINE e == UnitEnd(m, i, n)
           u == [first |-> i, last |-> e]
           r == <<u>> \o s
<1>1. n \in Nat /\ i \in Nat
  BY LenProperties
<1>2. e \in (i - 1)..n /\ Code(m, e + 1) /\ \A p \in i..(n - 3) : Code(m, p) => e < p
  <2>1. e # n
    BY <1>1, EndOfUnit
  <2> QED
    BY <2>1, EndOfUnit
<1>3. u \in Span(n) /\ u.first = i /\ u.last = e /\ i - 1 <= e /\ e + 5 \in Int
  BY <1>1, <1>2 DEF Span
<1>4. /\ s \in Seq(Span(n)) /\ s # <<>> /\ s[1].first = e + 5 /\ s[Len(s)].last = n
      /\ \A k \in 1..Len(s) :
           /\ s[k].first - 1 <= s[k].last
           /\ \A p \in s[k].first..(n - 3) : Code(m, p) => s[k].last < p
      /\ \A k \in 1..(Len(s) - 1) :
           /\ Code(m, s[k].last + 1)
           /\ s[k + 1].first = s[k].last + 5
  BY DEF Chain
<1> HIDE DEF u, e
<1>5. <<u>> \in Seq(Span(n)) /\ Len(<<u>>) = 1 /\ <<u>>[1] = u
  BY <1>3
<1>6. /\ r \in Seq(Span(n)) /\ Len(r) = 1 + Len(s) /\ r[1] = u
      /\ \A k \in 2..(Len(s) + 1) : r[k] = s[k - 1]
      /\ Len(s) \in Nat \ {0} /\ r # <<>>
  <2>1. Len(s) \in Nat \ {0}
    BY <1>4, EmptySeq
  <2>2. /\ r \in Seq(Span(n)) /\ Len(r) = 1 + Len(s)
        /\ \A k \in 1..(1 + Len(s)) : r[k] = IF k <= 1 THEN <<u>>[k] ELSE s[k - 1]
    <3> DEFINE q == <<u>>
    <3>1. q \in Seq(Span(n)) /\ Len(q) = 1
      BY <1>5
    <3> HIDE DEF q
    <3>2. ASSUME NEW a \in Seq(Span(n)), NEW b \in Seq(Span(n))
          PROVE  /\ a \o b \in Seq(Span(n)) /\ Len(a \o b) = Len(a) + Len(b)
                 /\ \A k \in 1..(Len(a) + Len(b)) :
                      (a \o b)[k] = IF k <= Len(a) THEN a[k] ELSE b[k - Len(a)]
      BY ConcatProperties
    <3>3. /\ q \o s \in Seq(Span(n)) /\ Len(q \o s) = Len(q) + Len(s)
          /\ \A k \in 1..(Len(q) + Len(s)) :
               (q \o s)[k] = IF k <= Len(q) THEN q[k] ELSE s[k - Len(q)]
      BY <1>4, <3>1, <3>2
    <3> QED
      BY <3>1, <3>3 DEF q
  <2> HIDE DEF r
  <2>3. Len(r) # 0
    BY <2>1, <2>2
  <2>4. r # <<>>
    BY <2>3
  <2> QED
    BY <1>5, <2>1, <2>2, <2>4
<1> HIDE DEF r
<1>7. \A k \in 1..Len(r) : k = 1 \/ (k \in 2..(Len(s) + 1) /\ k - 1 \in 1..Len(s))
  BY <1>6
<1>8. \A k \in 1..Len(r) :
        /\ r[k].first - 1 <= r[k].last
        /\ \A p \in r[k].first..(n - 3) : Code(m, p) => r[k].last < p
  <2> SUFFICES ASSUME NEW k \in 1..Len(r)
               PROVE  /\ r[k].first - 1 <= r[k].last
                      /\ \A p \in r[k].first..(n - 3) : Code(m, p) => r[k].last < p
    OBVIOUS
  <2>1. CASE k = 1
    BY <1>2, <1>3, <1>6, <2>1
  <2>2. CASE k # 1
    <3>1. r[k] = s[k - 1] /\ k - 1 \in 1..Len(s)
      BY <1>6, <1>7, <2>2
    <3> QED
      BY <1>4, <3>1
  <2> QED
    BY <2>1, <2>2
<1>9. \A k \in 1..(Len(r) - 1) : Code(m, r[k].last + 1) /\ r[k + 1].first = r[k].last + 5
  <2> SUFFICES ASSUME NEW k \in 1..(Len(r) - 1)
               PROVE  Code(m, r[k].last + 1) /\ r[k + 1].first = r[k].last + 5
    OBVIOUS
  <2>1. r[k + 1] = s[k] /\ k \in 1..Len(s)
    BY <1>6
  <2>2. CASE k = 1
    BY <1>2, <1>3, <1>4, <1>6, <2>1, <2>2
  <2>3. CASE k # 1
    <3>1. r[k] = s[k - 1] /\ k - 1 \in 1..(Len(s) - 1) /\ (k - 1) + 1 = k
      BY <1>6, <2>3
    <3> QED
      BY <1>4, <2>1, <3>1
  <2> QED
    BY <2>2, <2>3
<1>10. r[1].first = i /\ r[Len(r)].last = n
  <2>1. Len(r) \in 2..(Len(s) + 1) /\ Len(r) - 1 = Len(s)
    BY <1>6
  <2> QED
    BY <1>3, <1>4, <1>6, <2>1
<1> QED
  BY <1>6, <1>8, <1>9, <1>10 DEF Chain, r, u, e

LEMMA UnitsChained ==
  ASSUME NEW m \in Seq(Bytes), NEW n \in 0..Len(m), n # 0 => Code(m, n - 3)
  PROVE  \/ UnitsOf(m, n) = <<>>
         \/ \E i \in 5..(n + 1) : /\ i = FirstUnit(m, n) /\ Code(m, i - 4)
                                  /\ UnitsOf(m, n) \in Chain(m, n, i)
<1> DEFINE D    == 1..(n + 1)
           S    == Seq(Span(n))
           e(i) == UnitEnd(m, i, n)
           u(i) == [first |-> i, last |-> e(i)]
           F(f) == [i \in D |-> <<u(i)>> \o (IF e(i) + 4 <= n THEN f[e(i) + 5] ELSE <<>>)]
           rank == [i \in D |-> n + 1 - i]
           base == {i \in D : ~(e(i) + 4 <= n)}
           val  == [i \in D |-> <<u(i)>>]
           next == [i \in D |-> e(i) + 5]
           h    == [x \in D \X S |-> <<u(x[1])>> \o x[2]]
           V    == [i \in D |-> Chain(m, n, i)]
           from == CHOOSE f : f = F(f)
<1>1. Len(m) \in Nat /\ n \in Nat
  BY LenProperties
<1>2. \A i \in D : e(i) \in (i - 1)..n /\ (e(i) = n \/ e(i) + 4 <= n)
  BY EndOfUnit
<1>3. rank \in [D -> Nat]
  BY <1>1
<1>4. \A i \in D \ base : next[i] \in D /\ rank[next[i]] < rank[i]
  <2> SUFFICES ASSUME NEW i \in D \ base
               PROVE  next[i] \in D /\ rank[next[i]] < rank[i]
    OBVIOUS
  <2>1. i \in D /\ e(i) \in (i - 1)..n /\ e(i) + 4 <= n
    BY <1>2
  <2>2. next[i] = e(i) + 5 /\ rank[i] = n + 1 - i
    BY <2>1
  <2> HIDE DEF e
  <2>3. next[i] \in D /\ next[i] > i
    BY <1>1, <2>1, <2>2
  <2>4. rank[next[i]] = n + 1 - next[i]
    BY <2>3
  <2> HIDE DEF rank, next
  <2> QED
    BY <1>1, <2>1, <2>2, <2>3, <2>4
<1>5. \A i \in D \cap base : val[i] \in V[i]
  <2> SUFFICES ASSUME NEW i \in D \cap base
               PROVE  <<u(i)>> \in Chain(m, n, i)
    OBVIOUS
  <2>1. e(i) = n
    BY <1>2
  <2> QED
    BY <2>1, ChainEnds
<1>6. \A i \in D \ base : \A s \in V[next[i]] : h[<<i, s>>] \in V[i]
  <2> SUFFICES ASSUME NEW i \in D \ base, NEW s \in V[next[i]]
               PROVE  h[<<i, s>>] \in V[i]
    OBVIOUS
  <2>1. next[i] = e(i) + 5 /\ next[i] \in D /\ e(i) + 4 <= n
    BY <1>4
  <2>2. s \in Chain(m, n, e(i) + 5)
    BY <2>1
  <2>3. s \in S
    BY <2>2 DEF Chain
  <2>4. h[<<i, s>>] = <<u(i)>> \o s
    BY <2>3
  <2>5. <<u(i)>> \o s \in Chain(m, n, i)
    BY <2>1, <2>2, ChainGrows
  <2> QED
    BY <2>4, <2>5
<1>7. ASSUME NEW f
      PROVE  F(f) = [i \in D |-> IF i \in base THEN val[i] ELSE <<u(i)>> \o f[next[i]]]
  <2>1. \A i \in D : <<u(i)>> \o <<>> = <<u(i)>>
    <3> TAKE i \in D
    <3>1. u(i) \in Span(n)
      BY <1>1, <1>2 DEF Span
    <3>2. <<u(i)>> \in Seq(Span(n))
      BY <3>1
    <3> HIDE DEF u
    <3> QED
      BY <3>2, ConcatEmptySeq
  <2>2. \A i \in D : /\ (i \in base <=> ~(e(i) + 4 <= n))
                     /\ val[i] = <<u(i)>> /\ next[i] = e(i) + 5
    OBVIOUS
  <2> HIDE DEF D, base, val, next, e, u
  <2> QED
    BY <2>1, <2>2
<1>8. from = F(from)
  <2>1. PICK f : IsRecursive(f, D, base, val, next, h)
    <3> HIDE DEF D, base, val, next, h, rank
    <3> QED
      BY <1>3, <1>4, Recursion
  <2>2. \A i \in D : f[i] = IF i \in base THEN val[i] ELSE h[<<i, f[next[i]]>>]
    <3> HIDE DEF D, base, val, next, h
    <3> QED
      BY <2>1 DEF IsRecursive
  <2>3. \A i \in D : f[i] \in V[i]
    <3> DEFINE T == {i \in D : f[i] \in V[i]}
    <3> HIDE DEF V, D, base, val, next, h, rank
    <3>1. \A i \in D : (\A j \in D : rank[j] < rank[i] => j \in T) => i \in T
      BY <1>4, <1>5, <1>6, <2>2
    <3> HIDE DEF T
    <3>2. \A i \in D : i \in T
      BY <1>3, <3>1, Descent
    <3> QED
      BY <3>2 DEF T
  <2>4. \A i \in D \ base : h[<<i, f[next[i]]>>] = <<u(i)>> \o f[next[i]]
    <3> SUFFICES ASSUME NEW i \in D \ base
                 PROVE  h[<<i, f[next[i]]>>] = <<u(i)>> \o f[next[i]]
      OBVIOUS
    <3>1. next[i] \in D
      BY <1>4
    <3>2. f[next[i]] \in V[next[i]]
      BY <2>3, <3>1
    <3>3. f[next[i]] \in S
      BY <3>1, <3>2 DEF Chain
    <3> QED
      BY <3>3
  <2>5. f = [i \in D |-> f[i]]
    <3> HIDE DEF D, base, val, next, h
    <3> QED
      BY <2>1 DEF IsRecursive
  <2>6. f = F(f)
    <3> HIDE DEF D, base, val, next, h, u, e, F
    <3> QED
      BY <1>7, <2>2, <2>4, <2>5
  <2> HIDE DEF F
  <2> QED
    BY <2>6
<1>9. \A i \in D : from[i] \in V[i]
  <2> DEFINE T == {i \in D : from[i] \in V[i]}
  <2>1. \A i \in D : from[i] = IF i \in base THEN val[i] ELSE <<u(i)>> \o from[next[i]]
    <3> HIDE DEF D, base, val, next, from, u, F
    <3> QED
      BY <1>7, <1>8
  <2>2. \A i \in D \ base : \A s \in V[next[i]] : <<u(i)>> \o s \in V[i]
    <3> SUFFICES ASSUME NEW i \in D \ base, NEW s \in V[next[i]]
                 PROVE  <<u(i)>> \o s \in V[i]
      OBVIOUS
    <3>1. next[i] = e(i) + 5 /\ next[i] \in D /\ e(i) + 4 <= n
      BY <1>4
    <3> QED
      BY <3>1, ChainGrows
  <2> HIDE DEF V, D, base, val, next, rank, from, u
  <2>3. \A i \in D : (\A j \in D : rank[j] < rank[i] => j \in T) => i \in T
    BY <1>4, <1>5, <2>1, <2>2, ZenonT(30)
  <2> HIDE DEF T
  <2>4. \A i \in D : i \in T
    BY <1>3, <2>3, Descent
  <2> QED
    BY <2>4 DEF T
<1>10. UnitsOf(m, n) = IF FirstUnit(m, n) = 0 THEN <<>> ELSE from[FirstUnit(m, n)]
  BY DEF UnitsOf
<1> HIDE DEF from
<1>11. FirstUnit(m, n) # 0 => FirstUnit(m, n) \in 5..(n + 1) /\ Code(m, FirstUnit(m, n) - 4)
  <2> SUFFICES ASSUME FirstUnit(m, n) # 0
               PROVE  FirstUnit(m, n) \in 5..(n + 1) /\ Code(m, FirstUnit(m, n) - 4)
    OBVIOUS
  <2>1. PICK p \in 1..n : Code(m, p) /\ FirstUnit(m, n) = p + 4
    BY <1>1, FirstCode
  <2>2. n - 3 < p => (n - 3) + 4 <= p
    <3>1. Code(m, n - 3)
      BY <1>1
    <3> QED
      BY <2>1, <3>1, CodesApart
  <2>3. p <= n - 3 /\ (p + 4) - 4 = p
    BY <1>1, <2>1, <2>2
  <2> QED
    BY <1>1, <2>1, <2>3
<1>12. CASE FirstUnit(m, n) # 0
  <2>1. FirstUnit(m, n) \in D
    BY <1>1, <1>11, <1>12
  <2>2. UnitsOf(m, n) \in Chain(m, n, FirstUnit(m, n))
    BY <1>9, <1>10, <1>12, <2>1
  <2> QED
    BY <1>11, <1>12, <2>2
<1> QED
  BY <1>10, <1>12

\* The units that WriteH264Data finds in a buffer: they follow each other, each
\* after a start code and without one in it, and each that is not empty before
\* a start code; the last one, which is empty, ends where the scan does.
LEMMA FoundUnits ==
  ASSUME NEW m \in Seq(Bytes)
  PROVE  LET n     == LastStartCode(m)
             units == UnitsOf(m, n)
         IN /\ n \in 0..Len(m) /\ units \in Seq(Span(n))
            /\ units # <<>> => n >= 1 /\ units[Len(units)].last = n
            /\ \A k \in 1..Len(units) :
                 /\ units[k].first >= 5 /\ units[k].first - 1 <= units[k].last
                 /\ Code(m, units[k].first - 4)
                 /\ \A p \in units[k].first..(units[k].last - 3) : ~Code(m, p)
                 /\ units[k].first <= units[k].last => Code(m, units[k].last + 1)
            /\ \A k \in 1..(Len(units) - 1) : units[k].last < units[k + 1].first
<1> DEFINE n     == LastStartCode(m)
           units == UnitsOf(m, n)
<1>1. n \in 0..Len(m) /\ (n # 0 => Code(m, n - 3)) /\ Len(m) \in Nat
  BY LastCode, LenProperties
<1> HIDE DEF n
<1>2. CASE units = <<>>
  <2>1. units \in Seq(Span(n)) /\ Len(units) = 0
    BY <1>2
  <2> HIDE DEF units
  <2> QED
    BY <1>1, <1>2, <2>1 DEF n, units
<1>3. CASE units # <<>>
  <2>1. PICK i \in 5..(n + 1) : Code(m, i - 4) /\ units \in Chain(m, n, i)
    BY <1>1, <1>3, UnitsChained
  <2> HIDE DEF units
  <2>2. /\ units \in Seq(Span(n))
        /\ units # <<>> /\ units[1].first = i /\ units[Len(units)].last = n
        /\ \A k \in 1..Len(units) :
             /\ units[k].first - 1 <= units[k].last
             /\ \A p \in units[k].first..(n - 3) : Code(m, p) => units[k].last < p
        /\ \A k \in 1..(Len(units) - 1) :
             /\ Code(m, units[k].last + 1)
             /\ units[k + 1].first = units[k].last + 5
    BY <2>1 DEF Chain
  <2>3. Len(units) \in Nat /\ n \in Nat /\ n >= 4
    BY <1>1, <2>1, <2>2, LenProperties
  <2>4. \A k \in 1..Len(units) : units[k] \in Span(n) /\ units[k].first \in Nat /\ units[k].last \in 0..n
    <3> TAKE k \in 1..Len(units)
    <3>1. units[k] \in Span(n)
      BY <2>2, ElementOfSeq
    <3> QED
      BY <3>1 DEF Span
  <2>5. ASSUME NEW k \in 1..Len(units)
        PROVE  units[k].first >= 5 /\ Code(m, units[k].first - 4)
    <3>1. CASE k = 1
      BY <2>1, <2>2, <3>1
    <3>2. CASE k # 1
      <4> DEFINE j == k - 1
      <4>1. j \in 1..(Len(units) - 1) /\ j \in 1..Len(units) /\ j + 1 = k
        BY <2>3, <3>2
      <4>2. Code(m, units[j].last + 1) /\ units[k].first = units[j].last + 5 /\ units[j].last \in 0..n
        BY <2>2, <2>4, <4>1
      <4> HIDE DEF j
      <4>3. units[k].first - 4 = units[j].last + 1 /\ units[k].first >= 5
        BY <2>3, <4>2
      <4> QED
        BY <4>2, <4>3
    <3> QED
      BY <3>1, <3>2
  <2>6. ASSUME NEW k \in 1..Len(units)
        PROVE  \A p \in units[k].first..(units[k].last - 3) : ~Code(m, p)
    <3> SUFFICES ASSUME NEW p \in units[k].first..(units[k].last - 3), Code(m, p)
                 PROVE  FALSE
      OBVIOUS
    <3>1. p \in units[k].first..(n - 3) /\ p <= units[k].last
      BY <2>3, <2>4
    <3>2. units[k].last < p
      BY <2>2, <3>1
    <3> QED
      BY <2>4, <3>1, <3>2
  <2>7. ASSUME NEW k \in 1..Len(units), units[k].first <= units[k].last
        PROVE  Code(m, units[k].last + 1)
    <3>1. CASE k = Len(units)
      <4>1. units[k].last = n /\ Code(m, n - 3) /\ Code(m, units[k].first - 4)
        BY <1>1, <2>2, <2>3, <2>5, <3>1
      <4>2. units[k].first - 4 < n - 3
        BY <2>3, <2>4, <2>7, <4>1
      <4>3. (units[k].first - 4) + 4 <= n - 3
        BY <4>1, <4>2, CodesApart
      <4>4. n - 3 \in units[k].first..(n - 3)
        BY <2>3, <2>4, <4>3
      <4>5. n < n - 3
        BY <2>2, <4>1, <4>4
      <4> QED
        BY <2>3, <4>5
    <3>2. CASE k # Len(units)
      <4>1. k \in 1..(Len(units) - 1)
        BY <2>3, <3>2
      <4> QED
        BY <2>2, <4>1
    <3> QED
      BY <3>1, <3>2
  <2>8. ASSUME NEW k \in 1..(Len(units) - 1)
        PROVE  units[k].last < units[k + 1].first
    <3>1. k \in 1..Len(units) /\ units[k + 1].first = units[k].last + 5 /\ units[k].last \in 0..n
      BY <2>2, <2>3, <2>4
    <3> QED
      BY <2>3, <3>1
  <2> QED
    BY <1>1, <2>2, <2>3, <2>5, <2>6, <2>7, <2>8 DEF n, units
<1> QED
  BY <1>2, <1>3
(***************************************************************************)
(* What the buffer and the samples hold.                                   *)
(***************************************************************************)

\* The bytes of m that were read are bytes of the first o of the file.
Faithful(m, o) ==
  \A a \in 1..Len(m) : m[a].at # 0 => m[a].at \in 1..o /\ m[a].byte = file[m[a].at]

\* They are in the order of the file,
Ascending(m) ==
  \A a, b \in 1..Len(m) : a < b /\ m[a].at # 0 /\ m[b].at # 0 => m[a].at < m[b].at

\* each run of them is a part of the file,
Unbroken(m) ==
  \A a, b \in 1..Len(m) :
    a <= b /\ (\A c \in a..b : m[c].at # 0) => m[b].at = m[a].at + (b - a)

\* and each stale byte is between the two bytes of a seam.
Seamed(m, Q) ==
  \A a \in 1..Len(m) : m[a].at = 0 =>
    \E q \in Q : /\ a > 1 => m[a - 1].at = q
                 /\ a < Len(m) => m[a + 1].at = q + 1

Copied(m, o, Q) == Faithful(m, o) /\ Ascending(m) /\ Unbroken(m) /\ Seamed(m, Q)

\* The buffer ends in the stale byte that memcpy has added after the last read.
Joined ==
  buffer # <<>> =>
    /\ offset \in seams /\ buffer[Len(buffer)].at = 0
    /\ Len(buffer) > 1 => buffer[Len(buffer) - 1].at = offset

\* InOrder, of the samples ss.
Ordered(ss) ==
  \A i, j \in 1..Len(ss) : \A a \in 1..Len(ss[i]), b \in 1..Len(ss[j]) :
    i < j \/ (i = j /\ a < b) =>
      ss[i][a].at = 0 \/ ss[j][b].at = 0 \/ ss[i][a].at < ss[j][b].at

\* The samples have been cut from the file before byte k of m,
Behind(ss, m, k) ==
  \A i \in 1..Len(ss) : \A a \in 1..Len(ss[i]), b \in k..Len(m) :
    ss[i][a].at = 0 \/ m[b].at = 0 \/ ss[i][a].at < m[b].at

\* and from its first o bytes.
Within(ss, o) == \A i \in 1..Len(ss) : \A a \in 1..Len(ss[i]) : ss[i][a].at <= o

\* DamageOnlyAtSeams, of one sample and the seams Q.
Undamaged(s, Q) ==
  \/ FromFile(s) = {}
  \/ \E u \in FileUnits : IsUnit(s, u)
  \/ \E q \in Q, p, r \in FromFile(s) : p - 5 <= q /\ q <= r + 4

Cut(ss, o, Q) ==
  Ordered(ss) /\ Within(ss, o) /\ \A i \in 1..Len(ss) : Undamaged(ss[i], Q)

\* The inductive invariant: nothing is known of the buffer once the files are
\* closed.
ConvertInv ==
  /\ TypeOK /\ FitsBuffer
  /\ Cut(samples, offset, seams)
  /\ pc = "open" => /\ Copied(buffer, offset, seams) /\ Joined
                    /\ Behind(samples, buffer, 1)

LEMMA LenOfFunction ==
  ASSUME NEW T, NEW n \in Nat, NEW s \in [1..n -> T]
  PROVE  s \in Seq(T) /\ Len(s) = n
OBVIOUS

LEMMA ByteFields ==
  ASSUME NEW m \in Seq(Bytes), NEW a \in 1..Len(m)
  PROVE  m[a] \in Bytes /\ m[a].at \in Nat /\ m[a].byte \in 0..255
<1>1. m[a] \in Bytes
  BY ElementOfSeq
<1> QED
  BY <1>1 DEF Bytes

\* What a unit of the buffer is.
LEMMA CutOut ==
  ASSUME NEW m \in Seq(Bytes), NEW f \in 1..(Len(m) + 1), NEW l \in 0..Len(m), f - 1 <= l
  PROVE  LET s == SubSeq(m, f, l)
         IN /\ s \in Seq(Bytes) /\ Len(s) = l - f + 1 /\ DOMAIN s = 1..(l - f + 1)
            /\ \A i \in 1..Len(s) : s[i] = m[f + i - 1] /\ f + i - 1 \in f..l
            /\ FromFile(s) = {m[a].at : a \in f..l} \ {0}
<1> DEFINE s == SubSeq(m, f, l)
<1>1. Len(m) \in Nat /\ f \in Int /\ l \in Int
  BY LenProperties
<1>2. \A a \in f..l : m[a] \in Bytes
  BY <1>1, ByteFields
<1>3. /\ s \in Seq(Bytes) /\ Len(s) = IF f <= l THEN l - f + 1 ELSE 0
      /\ \A i \in 1..(l - f + 1) : s[i] = m[f + i - 1]
  BY <1>1, <1>2, SubSeqProperties
<1>4. Len(s) = l - f + 1
  BY <1>1, <1>3
<1> HIDE DEF s
<1>5. DOMAIN s = 1..Len(s)
  BY <1>3, LenProperties
<1>6. \A i \in 1..Len(s) : s[i] = m[f + i - 1] /\ f + i - 1 \in f..l
  BY <1>1, <1>3, <1>4
<1>7. {s[i].at : i \in DOMAIN s} = {m[a].at : a \in f..l}
  <2>1. ASSUME NEW i \in DOMAIN s
        PROVE  s[i].at \in {m[a].at : a \in f..l}
    BY <1>5, <1>6
  <2>2. ASSUME NEW a \in f..l
        PROVE  m[a].at \in {s[i].at : i \in DOMAIN s}
    <3>1. a - f + 1 \in 1..Len(s) /\ f + (a - f + 1) - 1 = a
      BY <1>1, <1>4
    <3> QED
      BY <1>5, <1>6, <3>1
  <2> QED
    BY <2>1, <2>2
<1> QED
  BY <1>3, <1>4, <1>5, <1>6, <1>7 DEF s, FromFile

\* A start code of the buffer that was read is one of the file, and the other
\* way round.
LEMMA SameCode ==
  ASSUME file \in Seq(0..255), NEW m \in Seq(Bytes), NEW o \in 0..Len(file),
         Faithful(m, o), Unbroken(m), NEW p \in 1..(Len(m) - 3),
         \A c \in p..(p + 3) : m[c].at # 0
  PROVE  Code(m, p) <=> IsCode(m[p].at)
<1>1. Len(m) \in Nat /\ Len(file) \in Nat
  BY LenProperties
<1>2. /\ p \in 1..Len(m) /\ p + 1 \in 1..Len(m) /\ p + 2 \in 1..Len(m) /\ p + 3 \in 1..Len(m)
  BY <1>1
<1> DEFINE x == m[p].at
<1>3. m[p].at # 0 /\ m[p + 1].at # 0 /\ m[p + 2].at # 0 /\ m[p + 3].at # 0
  BY <1>1
<1>4. \A d \in 0..3 : m[p + d].at = x + d
  <2> SUFFICES ASSUME NEW d \in 0..3
               PROVE  m[p + d].at = x + d
    OBVIOUS
  <2>1. p + d \in 1..Len(m) /\ p <= p + d /\ (p + d) - p = d
    BY <1>1
  <2>2. \A c \in p..(p + d) : m[c].at # 0
    BY <1>1
  <2> QED
    BY <1>2, <2>1, <2>2 DEF Unbroken
<1>5. m[p + 1].at = x + 1 /\ m[p + 2].at = x + 2 /\ m[p + 3].at = x + 3
  BY <1>4
<1>6. x \in Int /\ x \in 1..o /\ x + 3 \in 1..o
  BY <1>1, <1>2, <1>3, <1>5, SMTT(30) DEF Faithful
<1>7. /\ m[p].byte = file[x] /\ m[p + 1].byte = file[x + 1]
      /\ m[p + 2].byte = file[x + 2] /\ m[p + 3].byte = file[x + 3]
  BY <1>2, <1>3, <1>5 DEF Faithful
<1> DEFINE s == SubSeq(file, x, x + 3)
<1>8. /\ s \in Seq(0..255) /\ Len(s) = 4
      /\ s[1] = file[x] /\ s[2] = file[x + 1] /\ s[3] = file[x + 2] /\ s[4] = file[x + 3]
  <2> HIDE DEF x
  <2>1. \A i \in x..(x + 3) : file[i] \in 0..255
    <3> TAKE i \in x..(x + 3)
    <3>1. i \in 1..Len(file)
      BY <1>1, <1>6
    <3> QED
      BY <3>1, ElementOfSeq
  <2>2. /\ s \in Seq(0..255) /\ Len(s) = IF x <= x + 3 THEN (x + 3) - x + 1 ELSE 0
        /\ \A i \in 1..((x + 3) - x + 1) : s[i] = file[x + i - 1]
    BY <1>6, <2>1, SubSeqProperties
  <2>3. x + 1 - 1 = x /\ x + 2 - 1 = x + 1 /\ x + 3 - 1 = x + 2 /\ x + 4 - 1 = x + 3
        /\ (x + 3) - x + 1 = 4 /\ x <= x + 3
    BY <1>6
  <2> HIDE DEF s
  <2>4. \A i \in 1..4 : s[i] = file[x + i - 1]
    BY <2>2, <2>3
  <2> QED
    BY <2>2, <2>3, <2>4
<1>9. s = StartCode <=> /\ file[x] = 0 /\ file[x + 1] = 0
                        /\ file[x + 2] = 0 /\ file[x + 3] = 1
  <2> HIDE DEF s, x
  <2>1. s = <<s[1], s[2], s[3], s[4]>>
    <3>1. s \in [1..4 -> 0..255]
      BY <1>8, LenProperties, ZenonT(30)
    <3> QED
      BY <3>1
  <2> QED
    BY <1>8, <2>1, SMTT(30) DEF StartCode
<1>10. IsCode(x) <=> s = StartCode
  <2>1. x >= 1 /\ x + 3 <= Len(file)
    BY <1>1, <1>6
  <2> QED
    BY <2>1 DEF IsCode
<1> HIDE DEF x, s
<1>11. Code(m, p) <=> /\ m[p].byte = 0 /\ m[p + 1].byte = 0
                      /\ m[p + 2].byte = 0 /\ m[p + 3].byte = 1
  BY DEF Code
<1> QED
  BY <1>7, <1>9, <1>10, <1>11 DEF x

\* A unit of the buffer without a stale byte in it or in the start codes around
\* it is a unit of the file.
LEMMA CutWhole ==
  ASSUME file \in Seq(0..255), NEW m \in Seq(Bytes), NEW o \in 0..Len(file),
         Faithful(m, o), Unbroken(m),
         NEW f \in 5..Len(m), NEW l \in f..(Len(m) - 4),
         Code(m, f - 4), Code(m, l + 1), \A p \in f..(l - 3) : ~Code(m, p),
         \A c \in (f - 4)..(l + 4) : m[c].at # 0
  PROVE  \E u \in FileUnits : IsUnit(SubSeq(m, f, l), u)
<1> DEFINE s == SubSeq(m, f, l)
           x == m[f].at
           y == m[l].at
           u == <<x, y>>
<1>1. Len(m) \in Nat /\ Len(file) \in Nat /\ f \in Int /\ l \in Int
  BY LenProperties
<1>2. \A c \in (f - 4)..(l + 4) : m[c].at # 0 /\ m[c].at \in 1..o
  BY <1>1 DEF Faithful
<1>3. ASSUME NEW a \in (f - 4)..(l + 4), NEW b \in a..(l + 4)
      PROVE  m[b].at = m[a].at + (b - a)
  <2>1. a \in 1..Len(m) /\ b \in 1..Len(m) /\ a <= b
    BY <1>1
  <2>2. \A c \in a..b : m[c].at # 0
    BY <1>1, <1>2
  <2> QED
    BY <2>1, <2>2 DEF Unbroken
<1>4. x \in 1..Len(file) /\ y \in 1..Len(file) /\ x <= y /\ y = x + (l - f)
  <2>1. x \in 1..o /\ y \in 1..o
    <3>1. f \in (f - 4)..(l + 4) /\ l \in (f - 4)..(l + 4)
      BY <1>1
    <3> QED
      BY <1>2, <3>1
  <2>2. y = x + (l - f)
    BY <1>1, <1>3
  <2> HIDE DEF x, y
  <2> QED
    BY <1>1, <2>1, <2>2, SMTT(30)
<1>5. \A p \in (f - 4)..(l + 1) : Code(m, p) <=> IsCode(m[p].at)
  <2> TAKE p \in (f - 4)..(l + 1)
  <2>1. p \in 1..(Len(m) - 3) /\ \A c \in p..(p + 3) : m[c].at # 0
    BY <1>1, <1>2
  <2> QED
    BY <2>1, SameCode
<1>6. IsCode(x - 4)
  <2>1. f - 4 \in (f - 4)..(l + 4) /\ f \in (f - 4)..(l + 4) /\ f - (f - 4) = 4
        /\ f - 4 \in (f - 4)..(l + 1)
    BY <1>1
  <2>2. x = m[f - 4].at + 4
    BY <1>1, <1>3, <2>1
  <2>3. x - 4 = m[f - 4].at
    <3>1. m[f - 4].at \in 1..o
      BY <1>2, <2>1
    <3> HIDE DEF x
    <3> QED
      BY <1>1, <2>2, <3>1, SMTT(30)
  <2> QED
    BY <1>5, <2>1, <2>3
<1>7. IsCode(y + 1)
  <2>1. l + 1 \in (f - 4)..(l + 1) /\ l \in (f - 4)..(l + 4) /\ (l + 1) - l = 1 /\ l + 1 \in l..(l + 4)
    BY <1>1
  <2>2. m[l + 1].at = y + 1
    BY <1>3, <2>1
  <2> QED
    BY <1>5, <2>1, <2>2
<1>8. \A p \in x..(y - 3) : ~IsCode(p)
  <2> TAKE p \in x..(y - 3)
  <2> DEFINE c == f + (p - x)
  <2>1. c \in f..(l - 3) /\ c \in f..(l + 4) /\ c \in (f - 4)..(l + 1) /\ c - f = p - x /\ p \in Int
    <3> HIDE DEF x, y
    <3> QED
      BY <1>1, <1>4
  <2>2. m[c].at = x + (c - f)
    <3>1. f \in (f - 4)..(l + 4)
      BY <1>1
    <3> HIDE DEF c
    <3> QED
      BY <1>3, <2>1, <3>1
  <2>3. m[c].at = p
    <3> HIDE DEF x, c
    <3> QED
      BY <1>4, <2>1, <2>2
  <2> HIDE DEF c
  <2> QED
    BY <1>5, <2>1, <2>3
<1>9. u \in FileUnits
  <2> HIDE DEF x, y
  <2>1. u \in (1..Len(file)) \X (1..Len(file)) /\ u[1] = x /\ u[2] = y
    BY <1>4
  <2> HIDE DEF u
  <2> QED
    BY <1>4, <1>6, <1>7, <1>8, <2>1 DEF FileUnits
<1>10. IsUnit(s, u)
  <2>1. Len(s) = l - f + 1 /\ \A i \in 1..Len(s) : s[i] = m[f + i - 1]
    BY <1>1, CutOut
  <2>2. \A i \in 1..Len(s) : s[i].at = x + i - 1
    <3> TAKE i \in 1..Len(s)
    <3> HIDE DEF s
    <3>1. f + i - 1 \in f..(l + 4) /\ f \in (f - 4)..(l + 4) /\ (f + i - 1) - f = i - 1
      BY <1>1, <2>1
    <3>2. m[f + i - 1].at = x + (i - 1)
      BY <1>3, <3>1
    <3>3. x + (i - 1) = x + i - 1
      <4> HIDE DEF x
      <4> QED
        BY <1>4
    <3> QED
      BY <2>1, <3>2, <3>3
  <2>3. Len(s) = y - x + 1
    <3>1. Len(s) = l - f + 1
      BY <2>1
    <3> HIDE DEF x, y, s
    <3> QED
      BY <1>1, <1>4, <3>1
  <2> HIDE DEF x, y, s
  <2> QED
    BY <2>2, <2>3 DEF IsUnit, Positions
<1> QED
  BY <1>9, <1>10

\* One with a stale byte there begins or ends near its seam.
LEMMA CutAtSeam ==
  ASSUME NEW m \in Seq(Bytes), NEW Q \in SUBSET (Nat \ {0}), Unbroken(m), Seamed(m, Q),
         NEW f \in 5..Len(m), NEW l \in f..(Len(m) - 4),
         NEW c \in (f - 4)..(l + 4), m[c].at = 0,
         FromFile(SubSeq(m, f, l)) # {}
  PROVE  \E q \in Q, p, r \in FromFile(SubSeq(m, f, l)) : p - 5 <= q /\ q <= r + 4
<1> DEFINE s == SubSeq(m, f, l)
<1>1. Len(m) \in Nat /\ f \in Int /\ l \in Int
  BY LenProperties
<1>2. FromFile(s) = {m[a].at : a \in f..l} \ {0}
  BY <1>1, CutOut, SMTT(30)
<1>10. FromFile(s) # {}
  OBVIOUS
<1> HIDE DEF s
<1>3. \A a \in 1..Len(m) : m[a].at \in Nat
  BY ByteFields
<1>4. \A a \in (f - 4)..(l + 4) : a \in 1..Len(m) /\ (a # 1 => a > 1) /\ (a # Len(m) => a < Len(m))
  BY <1>1
<1>5. SUFFICES \E q \in Q : \E x \in FromFile(s) : x \in (q - 4)..(q + 5)
  <2>1. PICK q \in Q : \E x \in FromFile(s) : x \in (q - 4)..(q + 5)
    BY <1>5
  <2>2. PICK x \in FromFile(s) : x \in (q - 4)..(q + 5)
    BY <2>1
  <2>3. x - 5 <= q /\ q <= x + 4
    BY <2>2
  <2> QED
    BY <2>2, <2>3 DEF s
<1>6. CASE \E a \in f..l : m[a].at = 0
  <2>1. PICK a \in f..l : m[a].at = 0
    BY <1>6
  <2>2. a \in 1..Len(m) /\ a > 1 /\ a < Len(m)
    BY <1>1
  <2>3. PICK q \in Q : m[a - 1].at = q /\ m[a + 1].at = q + 1
    BY <2>1, <2>2 DEF Seamed
  <2>4. PICK b \in f..l : m[b].at # 0
    BY <1>2, <1>10
  <2>5. a # b
    BY <2>1, <2>4
  <2>6. a - 1 \in f..l \/ a + 1 \in f..l
    BY <1>1, <2>5
  <2>7. q \in FromFile(s) \/ q + 1 \in FromFile(s)
    BY <1>2, <2>3, <2>6
  <2>8. q \in Nat /\ q \in (q - 4)..(q + 5) /\ q + 1 \in (q - 4)..(q + 5)
    OBVIOUS
  <2> QED
    BY <2>7, <2>8
<1>7. CASE (\A a \in f..l : m[a].at # 0) /\ \E a \in (f - 4)..(f - 1) : m[a].at = 0
  <2> DEFINE last(a) == m[a].at = 0 /\ \A b \in (a + 1)..(f - 1) : m[b].at # 0
  <2>8. m[f - 4].at = 0 \/ m[f - 3].at = 0 \/ m[f - 2].at = 0 \/ m[f - 1].at = 0
    <3>1. PICK a \in (f - 4)..(f - 1) : m[a].at = 0
      BY <1>7
    <3>2. a = f - 4 \/ a = f - 3 \/ a = f - 2 \/ a = f - 1
      BY <1>1
    <3> QED
      BY <3>1, <3>2
  <2>9. last(f - 4) \/ last(f - 3) \/ last(f - 2) \/ last(f - 1)
    <3>1. \A b \in ((f - 4) + 1)..(f - 1) : b = f - 3 \/ b = f - 2 \/ b = f - 1
      BY <1>1
    <3>2. \A b \in ((f - 3) + 1)..(f - 1) : b = f - 2 \/ b = f - 1
      BY <1>1
    <3>3. \A b \in ((f - 2) + 1)..(f - 1) : b = f - 1
      BY <1>1
    <3>4. ((f - 1) + 1)..(f - 1) = {}
      BY <1>1
    <3> QED
      BY <2>8, <3>1, <3>2, <3>3, <3>4
  <2>1. PICK a \in (f - 4)..(f - 1) : m[a].at = 0 /\ \A b \in (a + 1)..(f - 1) : m[b].at # 0
    <3>1. /\ f - 4 \in (f - 4)..(f - 1) /\ f - 3 \in (f - 4)..(f - 1)
          /\ f - 2 \in (f - 4)..(f - 1) /\ f - 1 \in (f - 4)..(f - 1)
      BY <1>1
    <3>2. \E a \in (f - 4)..(f - 1) : last(a)
      <4> HIDE DEF last
      <4> QED
        BY <2>9, <3>1
    <3> QED
      BY <3>2
  <2>2. a \in 1..Len(m) /\ a < Len(m) /\ a + 1 \in 1..Len(m) /\ f \in 1..Len(m) /\ a + 1 <= f
    BY <1>1
  <2>3. PICK q \in Q : m[a + 1].at = q + 1
    BY <2>1, <2>2 DEF Seamed
  <2>4. \A b \in (a + 1)..f : m[b].at # 0
    BY <1>1, <1>7, <2>1
  <2>5. m[f].at = m[a + 1].at + (f - (a + 1))
    BY <2>2, <2>4 DEF Unbroken
  <2>6. m[f].at \in (q - 4)..(q + 5)
    BY <1>1, <2>3, <2>5
  <2>7. m[f].at \in FromFile(s)
    BY <1>1, <1>2, <1>7, SMTT(30)
  <2> QED
    BY <2>6, <2>7
<1>8. CASE (\A a \in f..l : m[a].at # 0) /\ \E a \in (l + 1)..(l + 4) : m[a].at = 0
  <2>1. PICK a \in (l + 1)..(l + 4) : m[a].at = 0 /\ \A b \in (l + 1)..(a - 1) : m[b].at # 0
    BY <1>1, <1>8, SMTT(30)
  <2>2. a \in 1..Len(m) /\ a > 1 /\ a - 1 \in 1..Len(m) /\ l \in 1..Len(m) /\ l <= a - 1
    BY <1>1
  <2>3. PICK q \in Q : m[a - 1].at = q
    BY <2>1, <2>2 DEF Seamed
  <2>4. \A b \in l..(a - 1) : m[b].at # 0
    BY <1>1, <1>8, <2>1
  <2>5. m[a - 1].at = m[l].at + ((a - 1) - l) /\ m[l].at \in Nat
    BY <1>3, <2>2, <2>4 DEF Unbroken
  <2>6. m[l].at \in (q - 4)..(q + 5)
    BY <1>1, <2>3, <2>5
  <2>7. m[l].at \in FromFile(s)
    BY <1>1, <1>2, <1>8
  <2> QED
    BY <2>6, <2>7
<1>9. c \in f..l \/ c \in (f - 4)..(f - 1) \/ c \in (l + 1)..(l + 4)
  BY <1>1
<1> QED
  BY <1>6, <1>7, <1>8, <1>9

LEMMA CutUndamaged ==
  ASSUME file \in Seq(0..255), NEW m \in Seq(Bytes), NEW o \in 0..Len(file),
         NEW Q \in SUBSET (Nat \ {0}), Copied(m, o, Q),
         NEW f \in 5..(Len(m) + 1), NEW l \in 0..Len(m), f - 1 <= l,
         Code(m, f - 4), f <= l => Code(m, l + 1), \A p \in f..(l - 3) : ~Code(m, p)
  PROVE  Undamaged(SubSeq(m, f, l), Q)
<1>1. Len(m) \in Nat /\ f \in Int /\ l \in Int
  BY LenProperties
<1>2. CASE f > l
  <2>1. f..l = {} /\ f \in 1..(Len(m) + 1)
    BY <1>1, <1>2
  <2>2. FromFile(SubSeq(m, f, l)) = {m[a].at : a \in f..l} \ {0}
    BY <2>1, CutOut
  <2> QED
    BY <2>1, <2>2 DEF Undamaged
<1>3. CASE f <= l
  <2>1. Code(m, l + 1)
    BY <1>3
  <2>2. f \in 5..Len(m) /\ l \in f..(Len(m) - 4)
    <3>1. l + 1 \in 1..(Len(m) - 3)
      BY <2>1 DEF Code
    <3> QED
      BY <1>1, <1>3, <3>1
  <2>3. CASE \A c \in (f - 4)..(l + 4) : m[c].at # 0
    BY <2>1, <2>2, <2>3, CutWhole DEF Copied, Undamaged
  <2>4. CASE \E c \in (f - 4)..(l + 4) : m[c].at = 0
    <3>1. CASE FromFile(SubSeq(m, f, l)) = {}
      BY <3>1 DEF Undamaged
    <3>2. CASE FromFile(SubSeq(m, f, l)) # {}
      BY <2>2, <2>4, <3>2, CutAtSeam DEF Copied, Undamaged
    <3> QED
      BY <3>1, <3>2
  <2> QED
    BY <2>3, <2>4
<1> QED
  BY <1>1, <1>2, <1>3

(***************************************************************************)
(* WriteH264Data.                                                          *)
(***************************************************************************)

LEMMA AppendCut ==
  ASSUME NEW m \in Seq(Bytes), NEW o \in Nat, NEW Q, Faithful(m, o), Ascending(m),
         NEW ss \in Seq(Seq(Bytes)), Cut(ss, o, Q), NEW k \in Nat, Behind(ss, m, k),
         NEW f \in 1..(Len(m) + 1), NEW l \in 0..Len(m), k <= f, f - 1 <= l,
         Undamaged(SubSeq(m, f, l), Q)
  PROVE  LET tt == Append(ss, SubSeq(m, f, l))
         IN tt \in Seq(Seq(Bytes)) /\ Cut(tt, o, Q) /\ Behind(tt, m, l + 1)
<1> DEFINE s  == SubSeq(m, f, l)
           tt == Append(ss, s)
<1>1. Len(m) \in Nat /\ f \in Int /\ l \in Int
  BY LenProperties
<1>2. /\ s \in Seq(Bytes) /\ Len(s) = l - f + 1
      /\ \A a \in 1..Len(s) : s[a] = m[f + a - 1] /\ f + a - 1 \in f..l
  BY <1>1, CutOut
<1>3. \A a \in 1..Len(s) : /\ f + a - 1 \in 1..Len(m) /\ s[a].at = m[f + a - 1].at
                           /\ f + a - 1 \in k..Len(m)
  BY <1>1, <1>2
<1>4. Undamaged(s, Q)
  OBVIOUS
<1> HIDE DEF s
<1>5. /\ tt \in Seq(Seq(Bytes)) /\ Len(tt) = Len(ss) + 1 /\ Len(ss) \in Nat
      /\ \A i \in 1..Len(ss) : tt[i] = ss[i]
      /\ tt[Len(ss) + 1] = s
  <2>1. ASSUME NEW T, NEW q \in Seq(T), NEW e \in T
        PROVE  /\ Append(q, e) \in Seq(T) /\ Len(Append(q, e)) = Len(q) + 1 /\ Len(q) \in Nat
               /\ \A i \in 1..Len(q) : Append(q, e)[i] = q[i]
               /\ Append(q, e)[Len(q) + 1] = e
    BY AppendProperties, LenProperties
  <2> QED
    BY <1>2, <2>1
<1> HIDE DEF tt
<1>6. \A i \in 1..Len(tt) : (i \in 1..Len(ss) /\ tt[i] = ss[i]) \/ (i = Len(ss) + 1 /\ tt[i] = s)
  <2> TAKE i \in 1..Len(tt)
  <2>1. i \in 1..Len(ss) \/ i = Len(ss) + 1
    BY <1>5
  <2> QED
    BY <1>5, <2>1
<1>7. \A a \in 1..Len(m) : m[a].at \in 0..o
  <2> TAKE a \in 1..Len(m)
  <2>1. m[a].at \in Nat
    BY ByteFields
  <2> QED
    BY <2>1 DEF Faithful
<1>8. Within(tt, o)
  <2>1. \A a \in 1..Len(s) : s[a].at <= o
    <3> TAKE a \in 1..Len(s)
    <3>1. s[a].at \in 0..o
      BY <1>3, <1>7
    <3> QED
      BY <3>1
  <2> QED
    BY <1>6, <2>1 DEF Within, Cut
<1>9. \A i \in 1..Len(tt) : Undamaged(tt[i], Q)
  BY <1>4, <1>6 DEF Cut
<1>10. Ordered(tt)
  <2> SUFFICES ASSUME NEW i \in 1..Len(tt), NEW j \in 1..Len(tt),
                      NEW a \in 1..Len(tt[i]), NEW b \in 1..Len(tt[j]),
                      i < j \/ (i = j /\ a < b), tt[i][a].at # 0, tt[j][b].at # 0
               PROVE  tt[i][a].at < tt[j][b].at
    BY DEF Ordered
  <2>1. CASE j \in 1..Len(ss)
    <3>1. i \in 1..Len(ss)
      <4>1. i <= j /\ i \in Nat /\ i >= 1 /\ Len(ss) \in Nat
        <5>1. Len(tt) \in Nat
          BY <1>5
        <5> QED
          BY <1>5, <5>1
      <4> QED
        BY <2>1, <4>1
    <3>2. tt[i] = ss[i] /\ tt[j] = ss[j]
      BY <1>5, <2>1, <3>1
    <3> QED
      BY <2>1, <3>1, <3>2 DEF Ordered, Cut
  <2>2. CASE j = Len(ss) + 1 /\ i \in 1..Len(ss)
    <3>1. tt[i] = ss[i] /\ tt[j] = s
      BY <1>5, <2>2
    <3>2. f + b - 1 \in k..Len(m) /\ tt[j][b].at = m[f + b - 1].at
      BY <1>3, <3>1
    <3> QED
      BY <2>2, <3>1, <3>2 DEF Behind
  <2>3. CASE j = Len(ss) + 1 /\ i = Len(ss) + 1
    <3>1. tt[i] = s /\ tt[j] = s /\ a < b
      BY <1>5, <2>3
    <3>2. /\ a \in 1..Len(s) /\ b \in 1..Len(s) /\ Len(s) \in Int
      <4>1. a \in 1..Len(tt[i]) /\ b \in 1..Len(tt[j])
        OBVIOUS
      <4>2. a \in 1..Len(s) /\ b \in 1..Len(s)
        BY <3>1, <4>1, Zenon
      <4>3. Len(s) \in Nat
        BY <1>2, LenProperties
      <4> QED
        BY <4>2, <4>3
    <3>3. /\ tt[i][a].at = m[f + a - 1].at /\ f + a - 1 \in 1..Len(m)
          /\ tt[j][b].at = m[f + b - 1].at /\ f + b - 1 \in 1..Len(m)
      BY <1>3, <3>1, <3>2
    <3>4. f + a - 1 < f + b - 1
      BY <1>1, <3>1, <3>2, SMTT(30)
    <3> QED
      BY <3>3, <3>4 DEF Ascending
  <2> QED
    BY <1>5, <1>6, <2>1, <2>2, <2>3
<1>11. Behind(tt, m, l + 1)
  <2> SUFFICES ASSUME NEW i \in 1..Len(tt), NEW a \in 1..Len(tt[i]), NEW b \in (l + 1)..Len(m),
                      tt[i][a].at # 0, m[b].at # 0
               PROVE  tt[i][a].at < m[b].at
    BY DEF Behind
  <2>1. CASE i \in 1..Len(ss)
    <3>1. tt[i] = ss[i]
      BY <1>5, <2>1
    <3>2. b \in k..Len(m)
      <4>1. b \in (l + 1)..Len(m) /\ k <= f /\ f - 1 <= l
        OBVIOUS
      <4> QED
        BY <1>1, <4>1
    <3> QED
      BY <2>1, <3>1, <3>2 DEF Behind
  <2>2. CASE i = Len(ss) + 1
    <3>1. tt[i] = s /\ a \in 1..Len(s)
      BY <1>5, <2>2
    <3>2. tt[i][a].at = m[f + a - 1].at /\ f + a - 1 \in 1..Len(m) /\ f + a - 1 \in f..l
      BY <1>2, <1>3, <3>1
    <3>3. f + a - 1 < b /\ b \in 1..Len(m)
      <4>1. b \in (l + 1)..Len(m)
        OBVIOUS
      <4>2. f + a - 1 \in f..l
        BY <3>2
      <4> DEFINE c == f + a - 1
      <4>3. c \in f..l
        BY <4>2
      <4> HIDE DEF c
      <4>4. c < b /\ b \in 1..Len(m)
        BY <1>1, <4>1, <4>3
      <4> QED
        BY <4>4 DEF c
    <3> QED
      BY <3>2, <3>3 DEF Ascending
  <2> QED
    BY <1>6, <2>1, <2>2
<1> QED
  BY <1>5, <1>8, <1>9, <1>10, <1>11 DEF Cut, tt, s

LEMMA BehindLater ==
  ASSUME NEW m \in Seq(Bytes), NEW ss, NEW k \in Int, NEW l \in Int, k <= l, Behind(ss, m, k)
  PROVE  Behind(ss, m, l)
<1>1. Len(m) \in Nat
  BY LenProperties
<1>2. \A b \in l..Len(m) : b \in k..Len(m)
  BY <1>1
<1> QED
  BY <1>2 DEF Behind

\* What WriteH264Data has made of a buffer m when its first k units are handled.
Tracks(m, o, Q, units, k) ==
  {tr \in Track : /\ tr.pps => tr.sps
                  /\ Cut(tr.samples, o, Q)
                  /\ Behind(tr.samples, m, IF k = 0 THEN 1 ELSE units[k].last + 1)}

\* Any unit, whatever its type.
LEMMA HandleCut ==
  ASSUME NEW m \in Seq(Bytes), NEW o \in Nat, NEW Q, Faithful(m, o), Ascending(m),
         NEW f \in 1..(Len(m) + 1), NEW l \in 0..Len(m), f - 1 <= l,
         Undamaged(SubSeq(m, f, l), Q), NEW k \in Nat, k <= f,
         NEW tr \in Track, tr.pps => tr.sps, Cut(tr.samples, o, Q), Behind(tr.samples, m, k),
         NEW t
  PROVE  LET new == Handle(t, SubSeq(m, f, l), tr)
         IN /\ new \in Track /\ (new.pps => new.sps) /\ Cut(new.samples, o, Q)
            /\ Behind(new.samples, m, l + 1)
<1> DEFINE s   == SubSeq(m, f, l)
           new == Handle(t, s, tr)
<1>1. /\ tr.sps \in BOOLEAN /\ tr.pps \in BOOLEAN /\ tr.samples \in Seq(Seq(Bytes))
      /\ tr = [sps |-> tr.sps, pps |-> tr.pps, samples |-> tr.samples]
  BY DEF Track
<1>2. \/ new = [sps |-> TRUE, pps |-> tr.pps, samples |-> tr.samples]
      \/ new = [sps |-> tr.sps, pps |-> TRUE, samples |-> tr.samples] /\ tr.sps
      \/ new = [sps |-> tr.sps, pps |-> tr.pps, samples |-> Append(tr.samples, s)]
      \/ new = tr
  <2> HIDE DEF s
  <2> QED
    BY <1>1 DEF Handle
<1>3. /\ Append(tr.samples, s) \in Seq(Seq(Bytes)) /\ Cut(Append(tr.samples, s), o, Q)
      /\ Behind(Append(tr.samples, s), m, l + 1)
  BY <1>1, AppendCut
<1>4. Behind(tr.samples, m, l + 1)
  BY BehindLater, LenProperties
<1>5. tr.sps \in BOOLEAN /\ (tr.pps => tr.sps) /\ Cut(tr.samples, o, Q)
  BY <1>1
<1> HIDE DEF s, new
<1>6. CASE new = [sps |-> TRUE, pps |-> tr.pps, samples |-> tr.samples]
  <2>1. new \in Track /\ new.sps /\ new.samples = tr.samples
    BY <1>1, <1>6 DEF Track
  <2> QED
    BY <1>4, <1>5, <2>1 DEF new, s
<1>7. CASE new = [sps |-> tr.sps, pps |-> TRUE, samples |-> tr.samples] /\ tr.sps
  <2>1. new \in Track /\ new.sps /\ new.samples = tr.samples
    BY <1>1, <1>7 DEF Track
  <2> QED
    BY <1>4, <1>5, <2>1 DEF new, s
<1>8. CASE new = [sps |-> tr.sps, pps |-> tr.pps, samples |-> Append(tr.samples, s)]
  <2>1. new \in Track /\ (new.pps => new.sps) /\ new.samples = Append(tr.samples, s)
    BY <1>1, <1>3, <1>5, <1>8 DEF Track
  <2> QED
    BY <1>3, <2>1 DEF new, s
<1>9. CASE new = tr
  BY <1>4, <1>5, <1>9 DEF new, s
<1> QED
  BY <1>2, <1>6, <1>7, <1>8, <1>9

\* What the handling of each unit keeps, in V[j] after j units, holds at the end.
LEMMA HandledFrom ==
  ASSUME NEW m, NEW units, NEW stale, NEW k \in Nat, NEW V,
         [sps |-> sps, pps |-> pps, samples |-> samples] \in V[0],
         \A j \in 0..k : V[j] \subseteq Track,
         \A j \in 1..k : \A x \in V[j - 1] :
           Handle(NalType(m, units[j], stale), SubSeq(m, units[j].first, units[j].last), x) \in V[j]
  PROVE  HandleUnits(m, units, stale, k) \in V[k]
<1> DEFINE D     == 0..k
           t(j)  == NalType(m, units[j], stale)
           s(j)  == SubSeq(m, units[j].first, units[j].last)
           tr    == [sps |-> sps, pps |-> pps, samples |-> samples]
           F(f)  == [j \in D |-> IF j = 0 THEN tr ELSE Handle(t(j), s(j), f[j - 1])]
           rank  == [j \in D |-> j]
           base  == {0}
           val   == [j \in base |-> tr]
           next  == [j \in D |-> j - 1]
           h     == [x \in D \X Track |-> Handle(t(x[1]), s(x[1]), x[2])]
           track == CHOOSE f : f = F(f)
<1>4. ASSUME NEW j \in D, j # 0, NEW x \in V[j - 1]
      PROVE  Handle(t(j), s(j), x) \in V[j]
  <2>1. j \in 1..k
    BY <1>4
  <2> QED
    BY <2>1
<1>5. tr \in V[0] /\ \A j \in D : V[j] \subseteq Track
  OBVIOUS
<1> HIDE DEF t, s, tr
<1>6. rank \in [D -> Nat]
  OBVIOUS
<1>7. \A j \in D \ base : next[j] = j - 1 /\ next[j] \in D /\ rank[next[j]] < rank[j] /\ j # 0
  OBVIOUS
<1>8. 0 \in D
  OBVIOUS
<1>9. \A j \in D \ base : \A x \in V[next[j]] :
        Handle(t(j), s(j), x) \in V[j] /\ h[<<j, x>>] = Handle(t(j), s(j), x)
  <2> TAKE j \in D \ base
  <2> TAKE x \in V[next[j]]
  <2>1. x \in V[j - 1] /\ j \in D /\ j # 0
    BY <1>7
  <2>2. x \in Track
    BY <1>5, <1>7
  <2> QED
    BY <1>4, <2>1, <2>2
<1>10. track = F(track)
  <2>1. PICK f : IsRecursive(f, D, base, val, next, h)
    <3>1. \A j \in D \ base : next[j] \in D /\ rank[next[j]] < rank[j]
      BY <1>7
    <3> HIDE DEF D, base, val, next, h, rank
    <3> QED
      BY <1>6, <3>1, Recursion
  <2>2. \A j \in D : f[j] = IF j \in base THEN val[j] ELSE h[<<j, f[next[j]]>>]
    <3> HIDE DEF D, base, val, next, h
    <3> QED
      BY <2>1 DEF IsRecursive
  <2> DEFINE T == {j \in D : f[j] \in V[j]}
  <2>3. ASSUME NEW j \in D, \A i \in D : rank[i] < rank[j] => i \in T
        PROVE  j \in T
    <3>1. CASE j = 0
      <4>1. f[j] = tr
        BY <2>2, <3>1
      <4> QED
        BY <1>5, <1>8, <3>1, <4>1
    <3>2. CASE j # 0
      <4>1. j \in D \ base
        BY <3>2
      <4>2. f[next[j]] \in V[next[j]]
        BY <1>7, <2>3, <4>1
      <4>3. f[j] = h[<<j, f[next[j]]>>]
        <5> HIDE DEF D, base, val, next, h
        <5> QED
          BY <2>2, <4>1
      <4> HIDE DEF D, base, val, next, h
      <4> QED
        BY <1>9, <4>1, <4>2, <4>3
    <3> QED
      BY <3>1, <3>2
  <2>4. \A j \in D : j \in T
    <3> HIDE DEF T, D, rank
    <3> QED
      BY <1>6, <2>3, Descent
  <2>5. \A j \in D \ base : f[j] = Handle(t(j), s(j), f[j - 1])
    <3> TAKE j \in D \ base
    <3>1. f[next[j]] \in V[next[j]] /\ next[j] = j - 1
      BY <1>7, <2>4
    <3>2. f[j] = h[<<j, f[next[j]]>>]
      <4> HIDE DEF D, base, val, next, h
      <4> QED
        BY <2>2
    <3> HIDE DEF D, base, val, next, h
    <3> QED
      BY <1>9, <3>1, <3>2
  <2>6. f[0] = tr
    BY <1>8, <2>2
  <2>7. f = [j \in D |-> f[j]]
    <3> HIDE DEF D, base, val, next, h
    <3> QED
      BY <2>1 DEF IsRecursive
  <2>8. \A j \in D : f[j] = IF j = 0 THEN tr ELSE Handle(t(j), s(j), f[j - 1])
    BY <2>5, <2>6
  <2>9. f = F(f)
    <3> HIDE DEF D
    <3> QED
      BY <2>7, <2>8
  <2> HIDE DEF F
  <2> QED
    BY <2>9
<1>11. \A j \in D : track[j] \in V[j]
  <2> DEFINE T == {j \in D : track[j] \in V[j]}
  <2>1. \A j \in D : track[j] = IF j = 0 THEN tr ELSE Handle(t(j), s(j), track[j - 1])
    <3> HIDE DEF D, track
    <3> QED
      BY <1>10
  <2> HIDE DEF track
  <2>2. ASSUME NEW j \in D, \A i \in D : rank[i] < rank[j] => i \in T
        PROVE  j \in T
    <3>1. CASE j = 0
      BY <1>5, <1>8, <2>1, <3>1
    <3>2. CASE j # 0
      <4>1. j \in D \ base
        BY <3>2
      <4>2. track[next[j]] \in V[next[j]] /\ next[j] = j - 1
        BY <1>7, <2>2, <4>1
      <4>3. track[j] = Handle(t(j), s(j), track[next[j]])
        BY <2>1, <3>2, <4>2
      <4> HIDE DEF D, base, val, next, h
      <4> QED
        BY <1>9, <4>1, <4>2, <4>3
    <3> QED
      BY <3>1, <3>2
  <2> HIDE DEF T, D, rank
  <2>3. \A j \in D : j \in T
    BY <1>6, <2>2, Descent
  <2> QED
    BY <2>3 DEF T
<1>12. HandleUnits(m, units, stale, k) = track[k]
  BY DEF HandleUnits, t, s, tr
<1>13. k \in D
  OBVIOUS
<1> HIDE DEF track
<1> QED
  BY <1>8, <1>11, <1>12, <1>13

LEMMA UnitsHandled ==
  ASSUME file \in Seq(0..255), sps \in BOOLEAN, pps \in BOOLEAN, pps => sps,
         samples \in Seq(Seq(Bytes)),
         NEW m \in Seq(Bytes), NEW o \in 0..Len(file), NEW Q \in SUBSET (Nat \ {0}),
         Copied(m, o, Q), Cut(samples, o, Q), Behind(samples, m, 1), NEW stale,
         NEW units, units = UnitsOf(m, LastStartCode(m)), NEW k \in 0..Len(units)
  PROVE  HandleUnits(m, units, stale, k) \in Tracks(m, o, Q, units, k)
<1> DEFINE n     == LastStartCode(m)
           D     == 0..k
           t(j)  == NalType(m, units[j], stale)
           s(j)  == SubSeq(m, units[j].first, units[j].last)
           tr    == [sps |-> sps, pps |-> pps, samples |-> samples]
           V     == [j \in D |-> Tracks(m, o, Q, units, j)]
<1>1. /\ n \in 0..Len(m) /\ units \in Seq(Span(n))
      /\ \A j \in 1..Len(units) :
           /\ units[j].first >= 5 /\ units[j].first - 1 <= units[j].last
           /\ Code(m, units[j].first - 4)
           /\ \A p \in units[j].first..(units[j].last - 3) : ~Code(m, p)
           /\ units[j].first <= units[j].last => Code(m, units[j].last + 1)
      /\ \A j \in 1..(Len(units) - 1) : units[j].last < units[j + 1].first
  BY FoundUnits
<1> HIDE DEF n
<1>2. Len(m) \in Nat /\ Len(units) \in Nat /\ Len(file) \in Nat /\ n \in Nat /\ k \in Nat
  <2>1. Len(units) \in Nat
    BY <1>1, LenProperties
  <2>2. Len(m) \in Nat /\ Len(file) \in Nat
    BY LenProperties
  <2> QED
    BY <1>1, <2>1, <2>2
<1>3. ASSUME NEW j \in 1..Len(units)
      PROVE  /\ units[j].first \in 5..(Len(m) + 1) /\ units[j].last \in 0..Len(m)
             /\ Undamaged(s(j), Q)
  <2>1. units[j] \in Span(n)
    BY <1>1, ElementOfSeq
  <2>2. units[j].first \in 1..(n + 1) /\ units[j].last \in 0..n
    BY <2>1 DEF Span
  <2> DEFINE f == units[j].first
             l == units[j].last
  <2>3. f >= 5 /\ f - 1 <= l /\ Code(m, f - 4) /\ (f <= l => Code(m, l + 1))
        /\ \A p \in f..(l - 3) : ~Code(m, p)
    BY <1>1
  <2>4. f \in 1..(n + 1) /\ l \in 0..n
    BY <2>2
  <2> HIDE DEF f, l
  <2>5. f \in 5..(Len(m) + 1) /\ l \in 0..Len(m)
    BY <1>1, <1>2, <2>3, <2>4
  <2>6. Undamaged(SubSeq(m, f, l), Q)
    BY <2>3, <2>5, CutUndamaged
  <2> QED
    BY <2>5, <2>6 DEF f, l
<1>4. ASSUME NEW j \in D, j # 0, NEW x \in Tracks(m, o, Q, units, j - 1)
      PROVE  Handle(t(j), s(j), x) \in Tracks(m, o, Q, units, j)
  <2> DEFINE f == units[j].first
             l == units[j].last
             c == IF j - 1 = 0 THEN 1 ELSE units[j - 1].last + 1
  <2>1. j \in 1..Len(units) /\ j - 1 \in 0..Len(units) /\ j \in Nat
    BY <1>2, <1>4
  <2>2. f \in 5..(Len(m) + 1) /\ l \in 0..Len(m) /\ Undamaged(SubSeq(m, f, l), Q) /\ f - 1 <= l
    BY <1>1, <1>3, <2>1
  <2>3. c \in Nat /\ c <= f
    <3>1. CASE j = 1
      <4>1. c = 1
        BY <3>1
      <4> HIDE DEF c, f, l
      <4> QED
        BY <1>2, <2>2, <4>1
    <3>2. CASE j # 1
      <4>1. j - 1 \in 1..Len(units) /\ j - 1 \in 1..(Len(units) - 1) /\ (j - 1) + 1 = j
        BY <1>2, <2>1, <3>2
      <4>2. c = units[j - 1].last + 1 /\ units[j - 1].last \in 0..Len(m) /\ units[j - 1].last < f
        BY <1>1, <1>3, <4>1, SMTT(30)
      <4> DEFINE d == units[j - 1].last
      <4>3. c = d + 1 /\ d \in 0..Len(m) /\ d < f
        BY <4>2
      <4> HIDE DEF c, d, f, l
      <4>4. c \in Nat /\ c <= f
        BY <1>2, <2>2, <4>3
      <4> QED
        BY <4>4
    <3> QED
      BY <3>1, <3>2
  <2>4. x \in Track /\ (x.pps => x.sps) /\ Cut(x.samples, o, Q) /\ Behind(x.samples, m, c)
    BY DEF Tracks
  <2>5. o \in Nat /\ Faithful(m, o) /\ Ascending(m)
    BY <1>2 DEF Copied
  <2>6. f \in 1..(Len(m) + 1)
    BY <1>2, <2>2, SMTT(30)
  <2> DEFINE y == t(j)
             new == Handle(y, SubSeq(m, f, l), x)
  <2>7. /\ new \in Track /\ (new.pps => new.sps) /\ Cut(new.samples, o, Q)
        /\ Behind(new.samples, m, l + 1)
    <3> HIDE DEF f, l, c, y
    <3> QED
      BY <2>2, <2>3, <2>4, <2>5, <2>6, HandleCut
  <2> HIDE DEF new
  <2>8. new \in Tracks(m, o, Q, units, j)
    BY <1>4, <2>7 DEF Tracks
  <2> QED
    BY <2>8 DEF new
<1>5. tr \in Tracks(m, o, Q, units, 0)
  BY DEF Tracks, Track
<1>6. \A j \in D : V[j] = Tracks(m, o, Q, units, j) /\ V[j] \subseteq Track
  BY DEF Tracks
<1>7. 0 \in D /\ k \in D /\ \A j \in 1..k : j \in D /\ j - 1 \in D /\ j # 0
  BY <1>2
<1> HIDE DEF V, D
<1>8. \A j \in 1..k : \A x \in V[j - 1] : Handle(t(j), s(j), x) \in V[j]
  <2> TAKE j \in 1..k
  <2> TAKE x \in V[j - 1]
  <2>1. j \in D /\ j - 1 \in D /\ j # 0
    BY <1>7
  <2>2. V[j - 1] = Tracks(m, o, Q, units, j - 1) /\ V[j] = Tracks(m, o, Q, units, j)
    BY <1>6, <2>1
  <2>3. x \in Tracks(m, o, Q, units, j - 1)
    BY <2>2
  <2> QED
    BY <1>4, <2>1, <2>2, <2>3
<1>9. HandleUnits(m, units, stale, k) \in V[k]
  <2>1. tr \in V[0] /\ \A j \in 0..k : V[j] \subseteq Track
    BY <1>5, <1>6, <1>7 DEF D
  <2> QED
    BY <1>2, <1>8, <2>1, HandledFrom
<1> QED
  BY <1>6, <1>7, <1>9

(***************************************************************************)
(* WriteH264File.                                                          *)
(***************************************************************************)

\* What fread adds to the buffer.
LEMMA ReadOn ==
  ASSUME ConvertAssumption, file \in Seq(0..255), offset \in 0..Len(file), buffer \in Seq(Bytes),
         FitsBuffer, Fresh > 0, NEW Q, Q = seams, Copied(buffer, offset, Q), Joined,
         NEW ss, Within(ss, offset), Behind(ss, buffer, 1), ss \in Seq(Seq(Bytes)),
         NEW m, m = buffer \o ReadBytes
  PROVE  /\ m \in Seq(Bytes) /\ Len(m) \in 1..BufferSize
         /\ offset + Fresh \in 1..Len(file) /\ m[Len(m)].at = offset + Fresh
         /\ Copied(m, offset + Fresh, Q) /\ Behind(ss, m, 1)
<1> DEFINE n == Len(buffer)
           k == Fresh
           o == offset + k
           r == ReadBytes
<1>1. n \in Nat /\ Len(file) \in Nat /\ offset \in Nat /\ BufferSize \in Nat /\ n <= BufferSize
  BY LenProperties DEF FitsBuffer, ConvertAssumption
<1>2. k \in Nat /\ k > 0 /\ o \in 1..Len(file) /\ o \in Nat /\ k <= BufferSize - n
  BY <1>1 DEF Fresh
<1>3. /\ r \in Seq(Bytes) /\ Len(r) = k
      /\ \A i \in 1..k : r[i] = [byte |-> file[offset + i], at |-> offset + i]
  <2>1. \A i \in 1..k : [byte |-> file[offset + i], at |-> offset + i] \in Bytes
    <3> TAKE i \in 1..k
    <3> HIDE DEF k
    <3>1. offset + i \in 1..Len(file) /\ offset + i \in Nat
      BY <1>1, <1>2
    <3>2. file[offset + i] \in 0..255
      BY <3>1, ElementOfSeq
    <3> QED
      BY <3>1, <3>2 DEF Bytes
  <2>2. r = [i \in 1..k |-> [byte |-> file[offset + i], at |-> offset + i]]
    BY DEF ReadBytes
  <2> HIDE DEF r, k
  <2>3. r \in [1..k -> Bytes]
    BY <2>1, <2>2
  <2>4. r \in Seq(Bytes) /\ Len(r) = k
    <3>1. k \in Nat
      BY <1>2 DEF k
    <3> QED
      BY <2>3, <3>1, LenOfFunction
  <2>5. \A i \in 1..k : r[i] = [byte |-> file[offset + i], at |-> offset + i]
    BY <2>2
  <2> QED
    BY <2>4, <2>5
<1>4. /\ m \in Seq(Bytes) /\ Len(m) = n + k
      /\ \A i \in 1..(n + k) : m[i] = IF i <= n THEN buffer[i] ELSE r[i - n]
  <2>1. ASSUME NEW s1 \in Seq(Bytes), NEW s2 \in Seq(Bytes)
        PROVE  /\ s1 \o s2 \in Seq(Bytes) /\ Len(s1 \o s2) = Len(s1) + Len(s2)
               /\ \A i \in 1..(Len(s1) + Len(s2)) :
                    (s1 \o s2)[i] = IF i <= Len(s1) THEN s1[i] ELSE s2[i - Len(s1)]
    BY ConcatProperties
  <2>2. m = buffer \o r
    OBVIOUS
  <2> HIDE DEF r, k
  <2>3. /\ buffer \o r \in Seq(Bytes) /\ Len(buffer \o r) = n + Len(r)
        /\ \A i \in 1..(n + Len(r)) : (buffer \o r)[i] = IF i <= n THEN buffer[i] ELSE r[i - n]
    BY <1>3, <2>1
  <2> QED
    BY <1>3, <2>2, <2>3
<1> HIDE DEF k, r, o
<1>5. \A a \in 1..Len(m) : \/ a \in 1..n /\ m[a] = buffer[a]
                           \/ /\ a \in (n + 1)..Len(m) /\ a - n \in 1..k
                              /\ m[a].at = offset + (a - n)
                              /\ m[a].byte = file[offset + (a - n)]
  <2> TAKE a \in 1..Len(m)
  <2>1. CASE a <= n
    BY <1>1, <1>2, <1>4, <2>1
  <2>2. CASE ~(a <= n)
    <3>1. a \in (n + 1)..Len(m) /\ a - n \in 1..k /\ a \in 1..(n + k)
      BY <1>1, <1>2, <1>4, <2>2
    <3>2. m[a] = r[a - n]
      BY <1>4, <2>2, <3>1
    <3>3. r[a - n] = [byte |-> file[offset + (a - n)], at |-> offset + (a - n)]
      BY <1>3, <3>1
    <3> QED
      BY <3>1, <3>2, <3>3
  <2> QED
    BY <2>1, <2>2
<1>6. o = offset + k
  BY DEF o
<1>7. Len(m) \in Nat /\ Len(m) \in 1..BufferSize /\ Len(m) = n + k
  BY <1>1, <1>2, <1>4
<1>8. m[Len(m)].at = o
  <2>1. Len(m) \in 1..Len(m) /\ ~(Len(m) \in 1..n) /\ Len(m) - n = k
    BY <1>1, <1>2, <1>7
  <2> QED
    BY <1>5, <1>6, <2>1
<1>9. \A a \in 1..n : buffer[a].at \in 0..offset
  <2> TAKE a \in 1..n
  <2>1. buffer[a].at \in Nat
    BY ByteFields
  <2> QED
    BY <1>1, <2>1 DEF Copied, Faithful
<1>10. Faithful(m, o)
  <2> SUFFICES ASSUME NEW a \in 1..Len(m), m[a].at # 0
               PROVE  m[a].at \in 1..o /\ m[a].byte = file[m[a].at]
    BY DEF Faithful
  <2>1. CASE a \in 1..n /\ m[a] = buffer[a]
    <3>1. m[a].at \in 1..offset /\ m[a].byte = file[m[a].at]
      BY <2>1 DEF Copied, Faithful
    <3> QED
      BY <1>1, <1>2, <1>6, <3>1, SMTT(30)
  <2>2. CASE a - n \in 1..k /\ m[a].at = offset + (a - n) /\ m[a].byte = file[offset + (a - n)]
    BY <1>1, <1>2, <1>6, <2>2, SMTT(30)
  <2> QED
    BY <1>5, <2>1, <2>2
<1>11. Ascending(m)
  <2> SUFFICES ASSUME NEW a \in 1..Len(m), NEW b \in 1..Len(m), a < b, m[a].at # 0, m[b].at # 0
               PROVE  m[a].at < m[b].at
    BY DEF Ascending
  <2>1. CASE b \in 1..n
    <3>1. a \in 1..n
      BY <1>1, <2>1
    <3>2. m[a] = buffer[a] /\ m[b] = buffer[b]
      BY <1>1, <1>5, <2>1, <3>1
    <3> QED
      BY <2>1, <3>1, <3>2 DEF Copied, Ascending
  <2>2. CASE a \in 1..n /\ b \notin 1..n
    <3>1. m[a].at \in 0..offset
      <4>1. m[a] = buffer[a]
        BY <1>1, <1>5, <2>2
      <4> QED
        BY <1>9, <2>2, <4>1
    <3>2. m[b].at = offset + (b - n) /\ b - n \in 1..k
      BY <1>5, <2>2
    <3> QED
      BY <1>1, <3>1, <3>2, SMTT(30)
  <2>3. CASE a \notin 1..n /\ b \notin 1..n
    <3>1. m[a].at = offset + (a - n) /\ m[b].at = offset + (b - n)
      BY <1>5, <2>3
    <3> QED
      BY <1>1, <3>1
  <2>4. a \notin 1..n => b \notin 1..n
    BY <1>1
  <2> QED
    BY <2>1, <2>2, <2>3, <2>4
<1>12. Unbroken(m)
  <2> SUFFICES ASSUME NEW a \in 1..Len(m), NEW b \in 1..Len(m), a <= b,
                      \A c \in a..b : m[c].at # 0
               PROVE  m[b].at = m[a].at + (b - a)
    BY DEF Unbroken
  <2>1. CASE b \in 1..n
    <3>1. a \in 1..n
      BY <1>1, <2>1
    <3>2. \A c \in a..b : m[c] = buffer[c]
      <4> TAKE c \in a..b
      <4>1. c \in 1..n /\ c \in 1..Len(m)
        BY <1>1, <1>7, <2>1, <3>1
      <4> QED
        BY <1>1, <1>5, <4>1
    <3>3. m[a] = buffer[a] /\ m[b] = buffer[b] /\ \A c \in a..b : buffer[c].at # 0
      <4>1. a \in a..b /\ b \in a..b
        BY <1>7
      <4> QED
        BY <3>2, <4>1
    <3> QED
      BY <2>1, <3>1, <3>3 DEF Copied, Unbroken
  <2>2. CASE a \in 1..n /\ b \notin 1..n
    <3>1. n \in 1..n /\ n \in a..b /\ n \in 1..Len(m) /\ ~(n \in (n + 1)..Len(m))
      BY <1>1, <2>2
    <3>2. buffer # <<>>
      BY <1>1, <3>1
    <3>3. m[n] = buffer[n]
      BY <1>5, <3>1
    <3>4. m[n].at = 0
      BY <3>2, <3>3 DEF Joined
    <3> QED
      BY <3>1, <3>4
  <2>3. CASE a \notin 1..n /\ b \notin 1..n
    <3>1. m[a].at = offset + (a - n) /\ m[b].at = offset + (b - n)
      BY <1>5, <2>3
    <3> QED
      BY <1>1, <3>1
  <2>4. a \notin 1..n => b \notin 1..n
    BY <1>1
  <2> QED
    BY <2>1, <2>2, <2>3, <2>4
<1>13. Seamed(m, Q)
  <2> SUFFICES ASSUME NEW a \in 1..Len(m), m[a].at = 0
               PROVE  \E q \in Q : /\ a > 1 => m[a - 1].at = q
                                   /\ a < Len(m) => m[a + 1].at = q + 1
    BY DEF Seamed
  <2>1. a \in 1..n /\ m[a] = buffer[a]
    <3>1. ~(a - n \in 1..k /\ m[a].at = offset + (a - n))
      BY <1>1, <1>2
    <3> QED
      BY <1>5, <3>1
  <2>2. a > 1 => m[a - 1] = buffer[a - 1]
    <3> SUFFICES ASSUME a > 1
                 PROVE  m[a - 1] = buffer[a - 1]
      OBVIOUS
    <3>1. a - 1 \in 1..n /\ a - 1 \in 1..Len(m) /\ ~(a - 1 \in (n + 1)..Len(m))
      BY <1>1, <1>7, <2>1
    <3> QED
      BY <1>5, <3>1
  <2>3. CASE a = n
    <3>1. buffer # <<>>
      BY <1>1, <2>1
    <3>2. offset \in Q /\ (a > 1 => m[a - 1].at = offset)
      BY <2>2, <2>3, <3>1 DEF Joined
    <3>3. m[a + 1].at = offset + 1
      <4>1. n + 1 \in 1..Len(m) /\ ~(n + 1 \in 1..n) /\ (n + 1) - n = 1
        BY <1>1, <1>2, <1>7
      <4>2. m[n + 1].at = offset + ((n + 1) - n)
        BY <1>5, <4>1, SMTT(30)
      <4> QED
        BY <2>3, <4>1, <4>2
    <3> QED
      BY <3>2, <3>3
  <2>4. CASE a # n
    <3>1. a < n /\ a + 1 \in 1..n /\ a + 1 \in 1..Len(m) /\ ~(a + 1 \in (n + 1)..Len(m))
      BY <1>1, <1>7, <2>1, <2>4
    <3>2. m[a + 1] = buffer[a + 1]
      BY <1>5, <3>1
    <3>3. PICK q \in Q : (a > 1 => buffer[a - 1].at = q) /\ (a < n => buffer[a + 1].at = q + 1)
      BY <2>1, ZenonT(30) DEF Copied, Seamed
    <3> QED
      BY <2>2, <3>1, <3>2, <3>3
  <2> QED
    BY <2>3, <2>4
<1>14. Behind(ss, m, 1)
  <2> SUFFICES ASSUME NEW i \in 1..Len(ss), NEW a \in 1..Len(ss[i]), NEW b \in 1..Len(m),
                      ss[i][a].at # 0, m[b].at # 0
               PROVE  ss[i][a].at < m[b].at
    BY DEF Behind
  <2>1. CASE b \in 1..n /\ m[b] = buffer[b]
    BY <2>1 DEF Behind
  <2>2. CASE b - n \in 1..k /\ m[b].at = offset + (b - n)
    <3>1. ss[i][a].at <= offset
      BY DEF Within
    <3>2. ss[i] \in Seq(Bytes)
      BY ElementOfSeq
    <3>3. ss[i][a].at \in Nat
      BY <3>2, ByteFields
    <3> DEFINE x == ss[i][a].at
    <3>4. x \in Nat /\ x <= offset /\ m[b].at = offset + (b - n) /\ b - n \in 1..k
      BY <2>2, <3>1, <3>3
    <3> HIDE DEF x
    <3>5. x < m[b].at
      BY <1>1, <3>4
    <3> QED
      BY <3>5 DEF x
  <2> QED
    BY <1>5, <2>1, <2>2
<1> QED
  BY <1>2, <1>4, <1>7, <1>8, <1>10, <1>11, <1>12, <1>13, <1>14 DEF Copied, o, k

\* What memcpy leaves in the buffer when the first w bytes were written.
Moved(m, w, o, Q, ss, r) ==
  /\ r \in Seq(Bytes) /\ r # <<>> /\ Len(r) = Len(m) - w + 1
  /\ Copied(r, o, Q \cup {o}) /\ Behind(ss, r, 1)
  /\ r[Len(r)].at = 0
  /\ Len(r) > 1 => r[Len(r) - 1].at = o

LEMMA MovedUp ==
  ASSUME NEW m \in Seq(Bytes), NEW o \in Nat \ {0}, NEW Q, Copied(m, o, Q),
         NEW w \in 1..Len(m), m[Len(m)].at = o, NEW stale \in 0..255,
         NEW ss, NEW k, k = w + 1, Behind(ss, m, k), NEW r, r = Rest(m, w, stale)
  PROVE  Moved(m, w, o, Q, ss, r)
<1> DEFINE n == Len(m) - w
           s == SubSeq(m, w + 1, Len(m))
           z == [byte |-> stale, at |-> 0]
<1>1. Len(m) \in Nat /\ w \in Nat /\ w >= 1 /\ n \in Nat /\ w + n = Len(m)
  BY LenProperties
<1>2. s \in Seq(Bytes) /\ Len(s) = n /\ \A i \in 1..n : s[i] = m[w + i]
  <2>1. w + 1 \in 1..(Len(m) + 1) /\ Len(m) \in 0..Len(m) /\ (w + 1) - 1 <= Len(m)
    <3>1. w \in 1..Len(m) /\ Len(m) \in Nat
      BY <1>1
    <3> QED
      BY <3>1
  <2>2. /\ s \in Seq(Bytes) /\ Len(s) = Len(m) - (w + 1) + 1
        /\ \A i \in 1..Len(s) : s[i] = m[(w + 1) + i - 1]
    BY <2>1, CutOut
  <2> HIDE DEF s
  <2>3. Len(s) = n
    BY <1>1, <2>2
  <2>4. \A i \in 1..n : (w + 1) + i - 1 = w + i
    BY <1>1
  <2> QED
    BY <2>2, <2>3, <2>4
<1>3. /\ r \in Seq(Bytes) /\ r # <<>> /\ Len(r) = n + 1
      /\ \A i \in 1..n : r[i] = m[w + i]
      /\ r[n + 1] = z
  <2>1. z \in Bytes
    BY DEF Bytes
  <2>2. r = Append(s, z)
    BY DEF Rest
  <2>3. ASSUME NEW q \in Seq(Bytes), NEW e \in Bytes
        PROVE  /\ Append(q, e) \in Seq(Bytes) /\ Append(q, e) # <<>> /\ Len(Append(q, e)) = Len(q) + 1
               /\ \A i \in 1..Len(q) : Append(q, e)[i] = q[i]
               /\ Append(q, e)[Len(q) + 1] = e
    BY AppendProperties
  <2> HIDE DEF s, z, n
  <2>4. /\ r \in Seq(Bytes) /\ r # <<>> /\ Len(r) = Len(s) + 1
        /\ \A i \in 1..Len(s) : r[i] = s[i]
        /\ r[Len(s) + 1] = z
    <3>1. /\ Append(s, z) \in Seq(Bytes) /\ Append(s, z) # <<>>
          /\ Len(Append(s, z)) = Len(s) + 1
          /\ \A i \in 1..Len(s) : Append(s, z)[i] = s[i]
          /\ Append(s, z)[Len(s) + 1] = z
      <4>1. s \in Seq(Bytes)
        BY <1>2
      <4> QED
        BY <2>1, <2>3, <4>1, Zenon
    <3> QED
      BY <2>2, <3>1
  <2>5. Len(s) = n
    BY <1>2
  <2>6. Len(r) = n + 1 /\ r[n + 1] = z /\ \A i \in 1..n : r[i] = s[i]
    BY <2>4, <2>5
  <2>7. \A i \in 1..n : r[i] = m[w + i]
    BY <1>2, <2>6
  <2> QED
    BY <2>4, <2>6, <2>7
<1>4. \A a \in 1..Len(r) : \/ a \in 1..n /\ r[a] = m[w + a] /\ w + a \in 1..Len(m)
                           \/ a = n + 1 /\ r[a].at = 0
  <2> TAKE a \in 1..Len(r)
  <2>1. CASE a = n + 1
    BY <1>3, <2>1
  <2>2. CASE a # n + 1
    <3>1. a \in 1..n
      <4> HIDE DEF n
      <4> QED
        BY <1>1, <1>3, <2>2
    <3>2. w + a \in 1..Len(m)
      BY <1>1, <3>1
    <3> QED
      BY <1>3, <3>1, <3>2
  <2> QED
    BY <2>1, <2>2
<1> HIDE DEF n, s, z
<1>5. \A a \in 1..Len(r) : r[a].at # 0 => a \in 1..n /\ r[a] = m[w + a] /\ w + a \in 1..Len(m)
  BY <1>4
<1>6. Faithful(r, o)
  BY <1>5 DEF Copied, Faithful
<1>7. Ascending(r)
  <2> SUFFICES ASSUME NEW a \in 1..Len(r), NEW b \in 1..Len(r), a < b, r[a].at # 0, r[b].at # 0
               PROVE  r[a].at < r[b].at
    BY DEF Ascending
  <2>1. r[a] = m[w + a] /\ w + a \in 1..Len(m) /\ r[b] = m[w + b] /\ w + b \in 1..Len(m)
    BY <1>5
  <2>2. w + a < w + b
    BY <1>1, <1>3
  <2> QED
    BY <2>1, <2>2 DEF Copied, Ascending
<1>8. Unbroken(r)
  <2> SUFFICES ASSUME NEW a \in 1..Len(r), NEW b \in 1..Len(r), a <= b,
                      \A c \in a..b : r[c].at # 0
               PROVE  r[b].at = r[a].at + (b - a)
    BY DEF Unbroken
  <2>0. a \in Int /\ b \in Int /\ Len(r) \in Int
    BY <1>1, <1>3
  <2>1. a \in a..b /\ b \in a..b
    BY <2>0
  <2>2. r[a] = m[w + a] /\ w + a \in 1..Len(m) /\ r[b] = m[w + b] /\ w + b \in 1..Len(m)
    BY <1>5, <2>1
  <2>3. \A d \in (w + a)..(w + b) : m[d].at # 0
    <3> TAKE d \in (w + a)..(w + b)
    <3> DEFINE c == d - w
    <3>1. c \in a..b /\ c \in 1..Len(r) /\ w + c = d
      BY <1>1, <2>0
    <3> HIDE DEF c
    <3>2. r[c].at # 0 /\ r[c] = m[w + c]
      BY <1>5, <3>1
    <3> QED
      BY <3>1, <3>2
  <2>4. w + a <= w + b /\ (w + b) - (w + a) = b - a
    BY <1>1, <2>0
  <2>5. m[w + b].at = m[w + a].at + ((w + b) - (w + a))
    BY <2>2, <2>3, <2>4 DEF Copied, Unbroken
  <2> QED
    BY <2>2, <2>4, <2>5
<1>9. Seamed(r, Q \cup {o})
  <2> SUFFICES ASSUME NEW a \in 1..Len(r), r[a].at = 0
               PROVE  \E q \in Q \cup {o} : /\ a > 1 => r[a - 1].at = q
                                            /\ a < Len(r) => r[a + 1].at = q + 1
    BY DEF Seamed
  <2>1. CASE a = n + 1
    <3>1. ~(a < Len(r)) /\ (a > 1 => a - 1 \in 1..n /\ w + (a - 1) = Len(m))
      BY <1>1, <1>3, <2>1
    <3>2. a > 1 => r[a - 1].at = o
      BY <1>3, <3>1
    <3> QED
      BY <3>1, <3>2
  <2>2. CASE a # n + 1
    <3>1. a \in 1..n /\ r[a] = m[w + a] /\ w + a \in 1..Len(m)
      BY <1>4, <2>2
    <3>2. w + a # Len(m)
      BY <3>1
    <3>3. w + a < Len(m) /\ w + a > 1 /\ a + 1 \in 1..n /\ (a > 1 => a - 1 \in 1..n)
      BY <1>1, <3>1, <3>2
    <3>4. PICK q \in Q : m[w + a - 1].at = q /\ m[w + a + 1].at = q + 1
      BY <3>1, <3>3 DEF Copied, Seamed
    <3>5. w + (a - 1) = w + a - 1 /\ w + (a + 1) = w + a + 1
      BY <1>1, <3>1
    <3>6. r[a + 1].at = q + 1 /\ (a > 1 => r[a - 1].at = q)
      BY <1>3, <3>3, <3>4, <3>5, SMTT(30)
    <3> QED
      BY <3>6
  <2> QED
    BY <2>1, <2>2
<1>10. Behind(ss, r, 1)
  <2> SUFFICES ASSUME NEW i \in 1..Len(ss), NEW a \in 1..Len(ss[i]), NEW b \in 1..Len(r),
                      ss[i][a].at # 0, r[b].at # 0
               PROVE  ss[i][a].at < r[b].at
    BY DEF Behind
  <2>1. r[b] = m[w + b] /\ b \in 1..n
    BY <1>5
  <2>2. w + b \in (w + 1)..Len(m)
    BY <1>1, <2>1
  <2> QED
    BY <2>1, <2>2 DEF Behind
<1>11. r[Len(r)].at = 0 /\ (Len(r) > 1 => r[Len(r) - 1].at = o)
  <2>1. r[n + 1].at = 0
    BY <1>3 DEF z
  <2>2. Len(r) > 1 => Len(r) - 1 \in 1..n /\ w + (Len(r) - 1) = Len(m)
    BY <1>1, <1>3
  <2> QED
    BY <1>3, <2>1, <2>2
<1>12. Len(r) = Len(m) - w + 1
  BY <1>3 DEF n
<1> QED
  BY <1>3, <1>6, <1>7, <1>8, <1>9, <1>10, <1>11, <1>12 DEF Copied, Moved

\* A file is a sequence of bytes that starts with a start code.
Streams ==
  {x \in Seq(0..255) : Len(x) >= 4 /\ x[1] = 0 /\ x[2] = 0 /\ x[3] = 0 /\ x[4] = 1}

LEMMA StreamsJoined ==
  ASSUME NEW s1 \in Seq(0..255), NEW s2 \in Seq(0..255), s1 \in Streams
  PROVE  s1 \o s2 \in Streams
<1> DEFINE r == s1 \o s2
<1>1. /\ r \in Seq(0..255) /\ Len(r) = Len(s1) + Len(s2)
      /\ \A i \in 1..(Len(s1) + Len(s2)) : r[i] = IF i <= Len(s1) THEN s1[i] ELSE s2[i - Len(s1)]
  BY ConcatProperties
<1>2. Len(s1) \in Nat /\ Len(s2) \in Nat /\ Len(s1) >= 4
  BY LenProperties DEF Streams
<1> HIDE DEF r
<1>3. Len(r) >= 4 /\ r[1] = s1[1] /\ r[2] = s1[2] /\ r[3] = s1[3] /\ r[4] = s1[4]
  BY <1>1, <1>2
<1>4. r \in Streams
  BY <1>1, <1>3 DEF Streams
<1> QED
  BY <1>4 DEF r
LEMMA FilesAreBytes ==
  ASSUME ConvertAssumption
  PROVE  Files \subseteq Streams
<1> SUFFICES ASSUME NEW n \in 1..MaxUnits, NEW us \in [1..n -> Units]
             PROVE  FlattenSeq([i \in 1..n |-> StartCode \o us[i]]) \in Streams
  <2> DEFINE flat(n, us) == FlattenSeq([i \in 1..n |-> StartCode \o us[i]])
  <2>1. Files = UNION {{flat(n, us) : us \in [1..n -> Units]} : n \in 1..MaxUnits}
    BY DEF Files
  <2>2. \A n \in 1..MaxUnits : \A us \in [1..n -> Units] : flat(n, us) \in Streams
    OBVIOUS
  <2> HIDE DEF flat
  <2> QED
    BY <2>1, <2>2
<1> DEFINE B       == Streams
           seqs    == [i \in 1..n |-> StartCode \o us[i]]
           D       == 1..n
           F(f)    == [i \in D |-> IF i = 1 THEN seqs[i] ELSE f[i - 1] \o seqs[i]]
           rank    == [i \in D |-> i]
           base    == {1}
           val     == [i \in base |-> seqs[1]]
           next    == [i \in D |-> i - 1]
           h       == [x \in D \X B |-> x[2] \o seqs[x[1]]]
           flatten == CHOOSE f : f = F(f)
<1>1. n \in Nat /\ n >= 1
  BY DEF ConvertAssumption
<1>2. \A i \in D : seqs[i] \in B
  <2> TAKE i \in D
  <2>1. us[i] \in Seq(0..255)
    BY DEF ConvertAssumption
  <2>2. StartCode \in Seq(0..255)
    BY DEF StartCode
  <2>3. StartCode \in Streams
    BY <2>2 DEF StartCode, Streams
  <2>4. StartCode \o us[i] \in B
    BY <2>1, <2>2, <2>3, StreamsJoined
  <2> QED
    BY <2>4
<1>3. ASSUME NEW s1 \in B, NEW s2 \in B
      PROVE  s1 \o s2 \in B
  BY StreamsJoined DEF Streams
<1>4. Len(seqs) = n
  <2>1. seqs \in [1..n -> B]
    BY <1>2
  <2> HIDE DEF seqs, B
  <2> QED
    BY <1>1, <2>1, LenOfFunction
<1> HIDE DEF seqs, B
<1>5. rank \in [D -> Nat]
  OBVIOUS
<1>6. \A i \in D \ base : next[i] = i - 1 /\ next[i] \in D /\ rank[next[i]] < rank[i] /\ i # 1
  BY <1>1
<1>7. flatten = F(flatten)
  <2>1. PICK f : IsRecursive(f, D, base, val, next, h)
    <3>1. \A i \in D \ base : next[i] \in D /\ rank[next[i]] < rank[i]
      BY <1>6
    <3> HIDE DEF D, base, val, next, h, rank
    <3> QED
      BY <1>5, <3>1, Recursion
  <2>2. \A i \in D : f[i] = IF i \in base THEN val[i] ELSE h[<<i, f[next[i]]>>]
    <3> HIDE DEF D, base, val, next, h
    <3> QED
      BY <2>1 DEF IsRecursive
  <2> DEFINE T == {i \in D : f[i] \in B}
  <2>3. ASSUME NEW i \in D, \A j \in D : rank[j] < rank[i] => j \in T
        PROVE  i \in T
    <3>1. CASE i = 1
      <4>1. f[i] = seqs[1]
        BY <2>2, <3>1
      <4> QED
        BY <1>2, <3>1, <4>1
    <3>2. CASE i # 1
      <4>1. i \in D \ base
        BY <3>2
      <4>2. f[next[i]] \in B /\ seqs[i] \in B
        BY <1>2, <1>6, <2>3, <4>1
      <4>3. f[i] = h[<<i, f[next[i]]>>]
        <5> HIDE DEF D, base, val, next, h
        <5> QED
          BY <2>2, <4>1
      <4>4. f[i] = f[next[i]] \o seqs[i]
        BY <4>2, <4>3
      <4> QED
        BY <1>3, <4>2, <4>4, ZenonT(30)
    <3> QED
      BY <3>1, <3>2
  <2>4. \A i \in D : i \in T
    <3> HIDE DEF T, D, rank
    <3> QED
      BY <1>5, <2>3, Descent, SMTT(30)
  <2>5. \A i \in D \ base : f[i] = f[i - 1] \o seqs[i]
    <3> TAKE i \in D \ base
    <3>1. f[next[i]] \in B /\ next[i] = i - 1
      BY <1>6, <2>4
    <3>2. f[i] = h[<<i, f[next[i]]>>]
      <4> HIDE DEF D, base, val, next, h
      <4> QED
        BY <2>2
    <3> QED
      BY <3>1, <3>2
  <2>6. 1 \in D => f[1] = seqs[1]
    BY <2>2
  <2>7. f = [i \in D |-> f[i]]
    <3> HIDE DEF D, base, val, next, h
    <3> QED
      BY <2>1 DEF IsRecursive
  <2>8. \A i \in D : f[i] = IF i = 1 THEN seqs[i] ELSE f[i - 1] \o seqs[i]
    BY <2>5, <2>6
  <2>9. f = F(f)
    <3> HIDE DEF D
    <3> QED
      BY <2>7, <2>8
  <2> HIDE DEF F
  <2> QED
    BY <2>9
<1>8. \A i \in D : flatten[i] \in B
  <2> DEFINE T == {i \in D : flatten[i] \in B}
  <2>1. \A i \in D : flatten[i] = IF i = 1 THEN seqs[i] ELSE flatten[i - 1] \o seqs[i]
    <3> HIDE DEF D, flatten
    <3> QED
      BY <1>7
  <2> HIDE DEF flatten
  <2>2. ASSUME NEW i \in D, \A j \in D : rank[j] < rank[i] => j \in T
        PROVE  i \in T
    <3>1. CASE i = 1
      BY <1>2, <2>1, <3>1
    <3>2. CASE i # 1
      <4>1. i \in D \ base
        BY <3>2
      <4>2. flatten[i - 1] \in B /\ seqs[i] \in B
        BY <1>2, <1>6, <2>2, <4>1
      <4> QED
        BY <1>3, <2>1, <3>2, <4>2
    <3> QED
      BY <3>1, <3>2
  <2> HIDE DEF T, D, rank
  <2>3. \A i \in D : i \in T
    BY <1>5, <2>2, Descent, SMTT(30)
  <2> QED
    BY <2>3 DEF T
<1>9. FlattenSeq(seqs) = flatten[n]
  BY <1>1, <1>4 DEF FlattenSeq
<1>10. n \in D
  BY <1>1
<1> HIDE DEF flatten
<1> QED
  BY <1>8, <1>9, <1>10 DEF seqs, B

LEMMA InitConvert ==
  ASSUME ConvertAssumption, Init
  PROVE  ConvertInv
<1>1. file \in Seq(0..255) /\ Len(file) \in Nat
  BY FilesAreBytes, LenProperties DEF Init, Streams
<1>2. buffer = <<>> /\ samples = <<>> /\ Len(buffer) = 0 /\ Len(samples) = 0
  BY DEF Init
<1>3. TypeOK
  <2>1. /\ offset = 0 /\ sps = FALSE /\ pps = FALSE /\ seams = {}
        /\ pc = "open" /\ failed = FALSE
    BY DEF Init
  <2>2. offset \in 0..Len(file)
    BY <1>1, <2>1
  <2>3. buffer \in Seq(Bytes) /\ samples \in Seq(Seq(Bytes))
    BY <1>2, EmptySeq
  <2> QED
    BY <1>1, <2>1, <2>2, <2>3 DEF TypeOK
<1>4. FitsBuffer
  BY <1>2 DEF FitsBuffer, ConvertAssumption
<1>5. 1..0 = {}
  OBVIOUS
<1>6. Cut(samples, offset, seams)
  BY <1>2, <1>5 DEF Cut, Ordered, Within
<1>7. Copied(buffer, offset, seams) /\ Joined /\ Behind(samples, buffer, 1)
  BY <1>2, <1>5 DEF Copied, Faithful, Ascending, Unbroken, Seamed, Joined, Behind
<1> QED
  BY <1>3, <1>4, <1>6, <1>7 DEF ConvertInv

LEMMA CutStays ==
  ASSUME Cut(samples, offset, seams), UNCHANGED <<file, offset, samples, seams>>
  PROVE  Cut(samples, offset, seams)'
<1>1. FileUnits' = FileUnits
  BY DEF FileUnits, IsCode
<1>2. \A i \in 1..Len(samples') : Undamaged(samples[i], seams)'
  BY <1>1 DEF Undamaged, Cut
<1>3. Ordered(samples)' /\ Within(samples, offset)'
  BY DEF Cut, Ordered, Within
<1> QED
  BY <1>2, <1>3 DEF Cut

LEMMA StepConvert ==
  ASSUME ConvertAssumption, ConvertInv, [Next]_vars
  PROVE  ConvertInv'
<1> USE DEF ConvertInv
<1>1. /\ file \in Seq(0..255) /\ offset \in 0..Len(file) /\ buffer \in Seq(Bytes)
      /\ sps \in BOOLEAN /\ pps \in BOOLEAN /\ (pps => sps)
      /\ samples \in Seq(Seq(Bytes)) /\ seams \subseteq 1..Len(file)
      /\ pc \in {"open", "done"} /\ failed \in BOOLEAN /\ Len(file) \in Nat
  BY LenProperties DEF TypeOK
<1>2. CASE UNCHANGED vars
  <2>1. UNCHANGED <<file, offset, buffer, sps, pps, samples, seams, pc, failed>>
    BY <1>2 DEF vars
  <2>2. TypeOK' /\ FitsBuffer'
    BY <2>1 DEF TypeOK, FitsBuffer
  <2>3. Cut(samples, offset, seams)'
    BY <2>1, CutStays
  <2>4. pc' = "open" => (Copied(buffer, offset, seams) /\ Joined /\ Behind(samples, buffer, 1))'
    BY <2>1 DEF Copied, Faithful, Ascending, Unbroken, Seamed, Joined, Behind
  <2> QED
    BY <2>2, <2>3, <2>4
<1>3. CASE EndOfFile
  <2>1. /\ pc' = "done"
        /\ UNCHANGED <<file, offset, buffer, sps, pps, samples, seams, failed>>
    BY <1>3 DEF EndOfFile
  <2>2. TypeOK' /\ FitsBuffer'
    BY <2>1 DEF TypeOK, FitsBuffer
  <2>3. Cut(samples, offset, seams)'
    BY <2>1, CutStays
  <2> QED
    BY <2>1, <2>2, <2>3
<1>4. CASE Chunk
  <2> DEFINE o == offset + Fresh
             m == buffer \o ReadBytes
             units == UnitsOf(m, LastStartCode(m))
             w == Written(units)
  <2>1. PICK stale \in Stale :
          /\ pc = "open" /\ Fresh > 0 /\ offset' = o /\ file' = file
          /\ \/ /\ SetTrack(HandleUnits(m, units, stale, Len(units)))
                /\ IF NothingWritten(w)
                   THEN pc' = "done" /\ UNCHANGED <<buffer, seams>>
                   ELSE /\ buffer' = Rest(m, w, stale)
                        /\ seams' = seams \cup {offset'}
                        /\ UNCHANGED pc
                /\ UNCHANGED failed
             \/ \E k \in 0..(Len(units) - 1) :
                  /\ SetTrack([HandleUnits(m, units, stale, k) EXCEPT !.sps = TRUE])
                  /\ pc' = "done" /\ failed' = TRUE
                  /\ UNCHANGED <<buffer, seams>>
    BY <1>4 DEF Chunk
  <2>2. stale \in 0..255
    BY DEF ConvertAssumption
  <2>3. /\ m \in Seq(Bytes) /\ Len(m) \in 1..BufferSize
        /\ o \in 1..Len(file) /\ m[Len(m)].at = o
        /\ Copied(m, o, seams) /\ Behind(samples, m, 1)
    BY <1>1, <2>1, ReadOn DEF Cut
  <2>4. Cut(samples, o, seams)
    <3>1. \A i \in 1..Len(samples) : \A a \in 1..Len(samples[i]) :
            samples[i][a].at \in Nat /\ samples[i][a].at <= offset
      <4> TAKE i \in 1..Len(samples)
      <4> TAKE a \in 1..Len(samples[i])
      <4>1. samples[i] \in Seq(Bytes)
        BY <1>1, ElementOfSeq
      <4> QED
        BY <4>1, ByteFields DEF Cut, Within
    <3>2. \A x \in Nat : x <= offset => x <= o
      <4>1. Fresh \in Int
        <5>1. Len(buffer) \in Nat /\ BufferSize \in Nat
          BY <1>1, LenProperties DEF ConvertAssumption
        <5> QED
          BY <1>1, <5>1 DEF Fresh
      <4> QED
        BY <1>1, <2>1, <4>1
    <3> QED
      BY <3>1, <3>2 DEF Cut, Within
  <2>5. seams \in SUBSET (Nat \ {0}) /\ o \in 0..Len(file) /\ o \in Nat \ {0}
    BY <1>1, <2>3
  <2> HIDE DEF o, m
  <2>6. \A k \in 0..Len(units) : HandleUnits(m, units, stale, k) \in Tracks(m, o, seams, units, k)
    <3> TAKE k \in 0..Len(units)
    <3> DEFINE us == units
    <3>1. us = UnitsOf(m, LastStartCode(m)) /\ k \in 0..Len(us)
      OBVIOUS
    <3> HIDE DEF us
    <3>2. HandleUnits(m, us, stale, k) \in Tracks(m, o, seams, us, k)
      BY <1>1, <2>3, <2>4, <2>5, <3>1, UnitsHandled
    <3> QED
      BY <3>2 DEF us
  <2>7. /\ units \in Seq(Span(LastStartCode(m))) /\ LastStartCode(m) \in 0..Len(m)
        /\ units # <<>> => LastStartCode(m) >= 1 /\ units[Len(units)].last = LastStartCode(m)
    BY <2>3, FoundUnits
  <2>8. Len(units) \in Nat /\ (units # <<>> => Len(units) >= 1) /\ Len(m) \in Nat
    BY <2>3, <2>7, LenProperties, EmptySeq
  <2>9. w = IF units = <<>> THEN 0 ELSE units[Len(units)].last
    BY DEF Written, Last
  <2> HIDE DEF units, w
  <2>10. ASSUME NEW tr \in Track, tr.pps => tr.sps, Cut(tr.samples, o, seams),
                sps' = tr.sps, pps' = tr.pps, samples' = tr.samples
         PROVE  /\ sps' \in BOOLEAN /\ pps' \in BOOLEAN /\ (pps' => sps')
                /\ samples' \in Seq(Seq(Bytes)) /\ Cut(samples', o, seams)
    BY <2>10 DEF Track
  <2>11. FileUnits' = FileUnits
    BY <2>1 DEF FileUnits, IsCode
  <2>12. ASSUME Cut(samples', o, seams), NEW Q, seams \subseteq Q, seams' = Q
         PROVE  Cut(samples, offset, seams)'
    <3>1. \A i \in 1..Len(samples') : Undamaged(samples'[i], seams)
      BY <2>12 DEF Cut
    <3>2. \A i \in 1..Len(samples') : Undamaged(samples[i], seams)'
      BY <2>11, <2>12, <3>1 DEF Undamaged
    <3>3. Ordered(samples)' /\ Within(samples, offset)'
      BY <2>1, <2>12 DEF Cut, Ordered, Within
    <3> QED
      BY <3>2, <3>3 DEF Cut
  <2>13. CASE \E k \in 0..(Len(units) - 1) :
                  /\ SetTrack([HandleUnits(m, units, stale, k) EXCEPT !.sps = TRUE])
                  /\ pc' = "done" /\ failed' = TRUE
                  /\ UNCHANGED <<buffer, seams>>
    <3>1. PICK k \in 0..(Len(units) - 1) :
                  /\ SetTrack([HandleUnits(m, units, stale, k) EXCEPT !.sps = TRUE])
                  /\ pc' = "done" /\ failed' = TRUE
                  /\ UNCHANGED <<buffer, seams>>
      BY <2>13
    <3> DEFINE x  == HandleUnits(m, units, stale, k)
               tr == [x EXCEPT !.sps = TRUE]
    <3>2. k \in 0..Len(units)
      BY <2>8
    <3>3. x \in Track /\ Cut(x.samples, o, seams)
      BY <2>6, <3>2 DEF Tracks
    <3>4. SetTrack(tr)
      BY <3>1
    <3> HIDE DEF x
    <3>5. tr \in Track /\ tr.sps /\ tr.samples = x.samples
      BY <3>3 DEF Track
    <3> HIDE DEF tr
    <3>6. /\ sps' \in BOOLEAN /\ pps' \in BOOLEAN /\ (pps' => sps')
          /\ samples' \in Seq(Seq(Bytes)) /\ Cut(samples', o, seams)
      BY <2>10, <3>3, <3>4, <3>5 DEF SetTrack
    <3>7. TypeOK' /\ FitsBuffer'
      BY <1>1, <2>1, <2>5, <3>1, <3>6 DEF TypeOK, FitsBuffer
    <3>8. Cut(samples, offset, seams)'
      BY <2>12, <3>1, <3>6
    <3> QED
      BY <3>1, <3>7, <3>8
  <2>14. CASE /\ SetTrack(HandleUnits(m, units, stale, Len(units)))
              /\ IF NothingWritten(w)
                 THEN pc' = "done" /\ UNCHANGED <<buffer, seams>>
                 ELSE /\ buffer' = Rest(m, w, stale)
                      /\ seams' = seams \cup {offset'}
                      /\ UNCHANGED pc
              /\ UNCHANGED failed
    <3> DEFINE tr == HandleUnits(m, units, stale, Len(units))
    <3>1. /\ tr \in Track /\ (tr.pps => tr.sps) /\ Cut(tr.samples, o, seams)
          /\ Behind(tr.samples, m, IF Len(units) = 0 THEN 1 ELSE units[Len(units)].last + 1)
      BY <2>6, <2>8 DEF Tracks
    <3>2. sps' = tr.sps /\ pps' = tr.pps /\ samples' = tr.samples
      BY <2>14 DEF SetTrack
    <3> HIDE DEF tr
    <3>3. /\ sps' \in BOOLEAN /\ pps' \in BOOLEAN /\ (pps' => sps')
          /\ samples' \in Seq(Seq(Bytes)) /\ Cut(samples', o, seams)
      BY <2>10, <3>1, <3>2
    <3>4. CASE NothingWritten(w)
      <4>1. pc' = "done" /\ UNCHANGED <<buffer, seams, failed>>
        BY <2>14, <3>4
      <4>2. TypeOK' /\ FitsBuffer'
        BY <1>1, <2>1, <2>5, <3>3, <4>1 DEF TypeOK, FitsBuffer
      <4>3. Cut(samples, offset, seams)'
        BY <2>12, <3>3, <4>1
      <4> QED
        BY <4>1, <4>2, <4>3
    <3>5. CASE ~NothingWritten(w)
      <4>1. buffer' = Rest(m, w, stale) /\ seams' = seams \cup {o} /\ pc' = pc /\ failed' = failed
        BY <2>1, <2>14, <3>5
      <4>2. units # <<>>
        BY <2>9, <3>5 DEF NothingWritten
      <4>3. w = units[Len(units)].last /\ w \in 1..Len(m)
        BY <2>7, <2>8, <2>9, <4>2
      <4>4. Behind(samples', m, w + 1)
        BY <2>8, <3>1, <3>2, <4>2, <4>3
      <4> DEFINE r == Rest(m, w, stale)
                 Q == seams \cup {o}
                 ss == tr.samples
      <4>5. r = Rest(m, w, stale) /\ Behind(ss, m, w + 1) /\ buffer' = r /\ samples' = ss
        BY <3>2, <4>1, <4>4
      <4> HIDE DEF r, ss
      <4>6. /\ r \in Seq(Bytes) /\ r # <<>> /\ Len(r) = Len(m) - w + 1
            /\ Copied(r, o, Q) /\ Behind(ss, r, 1)
            /\ r[Len(r)].at = 0 /\ (Len(r) > 1 => r[Len(r) - 1].at = o)
        <5>1. m \in Seq(Bytes) /\ Copied(m, o, seams) /\ m[Len(m)].at = o
          BY <2>3
        <5>2. o \in Nat \ {0} /\ stale \in 0..255 /\ w \in 1..Len(m)
          BY <2>2, <2>5, <4>3
        <5> DEFINE k == w + 1
        <5>3. k = w + 1 /\ Behind(ss, m, k) /\ r = Rest(m, w, stale)
          BY <4>5
        <5> HIDE DEF k, Q
        <5>4. Moved(m, w, o, seams, ss, r)
          BY <5>1, <5>2, <5>3, MovedUp, Zenon
        <5> QED
          BY <5>4 DEF Moved, Q
      <4>7. Len(r) <= BufferSize
        <5>1. Len(m) \in Nat /\ Len(m) <= BufferSize /\ w \in Nat /\ w >= 1
          BY <2>3, <4>3, LenProperties
        <5>2. Len(r) = Len(m) - w + 1 /\ BufferSize \in Nat
          BY <4>6 DEF ConvertAssumption
        <5> QED
          BY <5>1, <5>2
      <4>8. TypeOK' /\ FitsBuffer'
        BY <1>1, <2>1, <2>3, <2>5, <3>3, <4>1, <4>5, <4>6, <4>7 DEF TypeOK, FitsBuffer
      <4>9. Cut(samples, offset, seams)'
        BY <2>12, <3>3, <4>1, ZenonT(30)
      <4>10. Copied(buffer, offset, seams)'
        BY <2>1, <4>1, <4>5, <4>6 DEF Copied, Faithful, Ascending, Unbroken, Seamed
      <4>11. Joined'
        BY <2>1, <4>1, <4>5, <4>6 DEF Joined
      <4>12. Behind(samples, buffer, 1)'
        BY <4>5, <4>6, SMTT(30) DEF Behind
      <4> QED
        BY <4>8, <4>9, <4>10, <4>11, <4>12
    <3> QED
      BY <3>4, <3>5
  <2> QED
    BY <2>1, <2>13, <2>14
<1> QED
  BY <1>2, <1>3, <1>4 DEF Next

LEMMA ConvertKept == Spec => []ConvertInv
<1>1. Init => ConvertInv
  BY ConvertAssumption, InitConvert
<1>2. ConvertInv /\ [Next]_vars => ConvertInv'
  BY ConvertAssumption, StepConvert
<1> QED
  BY <1>1, <1>2, PTL DEF Spec

\* Every variable has its type, and no picture parameter set is kept without a
\* sequence parameter set (WriteH264Data).
THEOREM TypeCorrect == Spec => []TypeOK
<1>1. ConvertInv => TypeOK
  BY DEF ConvertInv
<1> QED
  BY <1>1, ConvertKept, PTL

\* WriteH264File never moves more to the front of the buffer than fits it,
\* however the units lie across the reads.
THEOREM NeverOverrun == Spec => []FitsBuffer
<1>1. ConvertInv => FitsBuffer
  BY DEF ConvertInv
<1> QED
  BY <1>1, ConvertKept, PTL

\* The samples are in the order of the file and share no byte of it.
THEOREM OrderKept == Spec => []InOrder
<1>1. ConvertInv => InOrder
  <2> SUFFICES ASSUME ConvertInv
               PROVE  InOrder
    OBVIOUS
  <2>1. samples \in Seq(Seq(Bytes)) /\ Ordered(samples)
    BY DEF ConvertInv, TypeOK, Cut
  <2>2. DOMAIN samples = 1..Len(samples)
    BY <2>1, LenProperties
  <2>3. \A i \in DOMAIN samples : DOMAIN samples[i] = 1..Len(samples[i])
    <3> TAKE i \in DOMAIN samples
    <3>1. samples[i] \in Seq(Bytes)
      BY <2>1, <2>2, ElementOfSeq
    <3> QED
      BY <3>1, LenProperties
  <2> QED
    BY <2>1, <2>2, <2>3 DEF InOrder, Ordered
<1> QED
  BY <1>1, ConvertKept, PTL

\* A sample that is not a unit of the file has the byte that memcpy adds to the
\* buffer in it, or in a start code next to it.
THEOREM DamageBounded == Spec => []DamageOnlyAtSeams
<1>1. ConvertInv => DamageOnlyAtSeams
  <2> SUFFICES ASSUME ConvertInv
               PROVE  DamageOnlyAtSeams
    OBVIOUS
  <2>1. samples \in Seq(Seq(Bytes)) /\ \A i \in 1..Len(samples) : Undamaged(samples[i], seams)
    BY DEF ConvertInv, TypeOK, Cut
  <2>2. DOMAIN samples = 1..Len(samples)
    BY <2>1, LenProperties
  <2> QED
    BY <2>1, <2>2 DEF DamageOnlyAtSeams, Undamaged
<1> QED
  BY <1>1, ConvertKept, PTL

(***************************************************************************)
(* A file that fits the buffer is read at once.                            *)
(***************************************************************************)

\* m is the whole file.
Whole(m) ==
  Len(m) = Len(file) /\ \A a \in 1..Len(m) : m[a].at = a /\ m[a].byte = file[a]

LEMMA WholeCode ==
  ASSUME file \in Seq(0..255), NEW m \in Seq(Bytes), Whole(m), NEW p \in Int
  PROVE  Code(m, p) <=> IsCode(p)
<1> DEFINE o == Len(file)
<1>1. o \in Nat /\ Len(m) = o
  BY LenProperties DEF Whole
<1>2. Faithful(m, o) /\ Unbroken(m)
  <2> HIDE DEF o
  <2> QED
    BY <1>1 DEF Whole, Faithful, Unbroken
<1>3. CASE p \in 1..(Len(m) - 3)
  <2>1. \A c \in p..(p + 3) : m[c].at # 0
    BY <1>1, <1>3 DEF Whole
  <2>2. m[p].at = p
    BY <1>1, <1>3 DEF Whole
  <2>3. Code(m, p) <=> IsCode(m[p].at)
    BY <1>1, <1>2, <1>3, <2>1, SameCode
  <2> QED
    BY <2>2, <2>3
<1>4. CASE p \notin 1..(Len(m) - 3)
  BY <1>1, <1>4 DEF Code, IsCode
<1> QED
  BY <1>3, <1>4

\* From one start code to the next there is one unit, or none.
LEMMA UnitOfFile ==
  ASSUME file \in Seq(0..255), NEW m \in Seq(Bytes), Whole(m),
         NEW f \in Nat \ {0}, NEW l \in Nat, f - 1 <= l, IsCode(f - 4), IsCode(l + 1),
         \A p \in f..(l - 3) : ~IsCode(p)
  PROVE  /\ f <= l => <<f, l>> \in FileUnits
         /\ \A u \in FileUnits : u[1] < l + 5 <=> u[1] < f \/ u = <<f, l>>
<1>1. \A p, q \in Int : IsCode(p) /\ IsCode(q) /\ p < q => p + 4 <= q
  <2> TAKE p, q \in Int
  <2>1. (Code(m, p) <=> IsCode(p)) /\ (Code(m, q) <=> IsCode(q))
    BY WholeCode
  <2> QED
    BY <2>1, CodesApart
<1>2. Len(file) \in Nat /\ l + 4 <= Len(file) /\ f - 4 >= 1
  BY LenProperties DEF IsCode
<1>3. f <= l => <<f, l>> \in FileUnits
  <2> SUFFICES ASSUME f <= l
               PROVE  <<f, l>> \in FileUnits
    OBVIOUS
  <2>1. <<f, l>> \in (1..Len(file)) \X (1..Len(file))
    BY <1>2
  <2> QED
    BY <2>1 DEF FileUnits
<1>4. ASSUME NEW u \in FileUnits, u[1] < l + 5, ~(u[1] < f)
      PROVE  u = <<f, l>>
  <2> DEFINE a == u[1]
             b == u[2]
  <2>1. /\ a \in 1..Len(file) /\ b \in 1..Len(file) /\ u = <<a, b>>
        /\ a <= b /\ IsCode(a - 4) /\ (b = Len(file) \/ IsCode(b + 1))
        /\ \A p \in a..(b - 3) : ~IsCode(p)
    BY DEF FileUnits
  <2>2. a < l + 5 /\ a >= f
    BY <1>2, <1>4, <2>1
  <2> HIDE DEF a, b
  <2>3. a = f
    <3> SUFFICES ASSUME a > f
                 PROVE  FALSE
      BY <1>2, <2>1, <2>2
    <3>1. (f - 4) + 4 <= a - 4
      BY <1>1, <1>2, <2>1
    <3>2. (a - 4) + 4 <= l + 1
      BY <1>1, <1>2, <2>1, <2>2
    <3>3. a - 4 \in f..(l - 3)
      BY <1>2, <2>1, <3>1, <3>2
    <3> QED
      BY <2>1, <3>3
  <2>4. ~(b < l)
    <3> SUFFICES ASSUME b < l
                 PROVE  FALSE
      OBVIOUS
    <3>1. IsCode(b + 1)
      BY <1>2, <2>1
    <3>2. (b + 1) + 4 <= l + 1
      BY <1>1, <1>2, <2>1, <3>1
    <3>3. b + 1 \in f..(l - 3)
      BY <1>2, <2>1, <2>3, <3>2
    <3> QED
      BY <3>1, <3>3
  <2>5. ~(b > l)
    <3> SUFFICES ASSUME b > l
                 PROVE  FALSE
      OBVIOUS
    <3>1. ~(l + 1 <= b - 3)
      <4> SUFFICES ASSUME l + 1 <= b - 3
                   PROVE  FALSE
        OBVIOUS
      <4>1. l + 1 \in a..(b - 3)
        BY <1>2, <2>1, <2>3
      <4> QED
        BY <2>1, <4>1
    <3>2. IsCode(b + 1)
      BY <1>2, <2>1, <3>1
    <3>3. (l + 1) + 4 <= b + 1
      BY <1>1, <1>2, <2>1, <3>2
    <3> QED
      BY <1>2, <2>1, <3>1, <3>3
  <2> QED
    BY <1>2, <2>1, <2>3, <2>4, <2>5
<1>5. ASSUME NEW u \in FileUnits, u[1] < f \/ u = <<f, l>>
      PROVE  u[1] < l + 5
  <2>1. u[1] \in 1..Len(file)
    BY DEF FileUnits
  <2>2. u = <<f, l>> => u[1] = f
    OBVIOUS
  <2> QED
    BY <1>2, <1>5, <2>1, <2>2
<1> QED
  BY <1>3, <1>4, <1>5

LEMMA FileUnitsFinite ==
  ASSUME file \in Seq(0..255)
  PROVE  IsFiniteSet(FileUnits)
<1> DEFINE I == 1..Len(file)
<1>1. IsFiniteSet(I)
  BY FS_Interval, LenProperties
<1>2. FileUnits \in SUBSET (I \X I)
  BY DEF FileUnits
<1> HIDE DEF I
<1>3. IsFiniteSet(I \X I)
  BY <1>1, FS_Product
<1> QED
  BY <1>2, <1>3, FS_Subset

\* What WriteH264Data has made of the units before p: the parameter sets it has
\* are there, and its samples are all the units a player needs.
Found(tr, p) ==
  /\ tr.sps <=> \E v \in FileUnits : v[1] < p /\ TypeOf(v) = 7
  /\ tr.pps <=> Configured(p)
  /\ Len(tr.samples) = Cardinality(WantedBefore(p))
  /\ \A i \in 1..Len(tr.samples) : IsWanted(tr.samples[i], i)

LEMMA NothingFound ==
  ASSUME NEW tr, tr.sps = FALSE, tr.pps = FALSE, tr.samples = <<>>
  PROVE  Found(tr, 5)
<1>1. \A v \in FileUnits : v[1] \in Int /\ ~(v[1] < 5)
  BY DEF FileUnits, IsCode
<1>2. WantedBefore(5) = {} /\ ~Configured(5)
  BY <1>1 DEF WantedBefore, Wanted, Configured
<1>3. Len(tr.samples) = 0 /\ Cardinality(WantedBefore(5)) = 0
  BY <1>2, FS_EmptySet
<1> QED
  BY <1>1, <1>2, <1>3 DEF Found

\* One unit more, in each of the cases of WriteH264Data.
LEMMA HandleFound ==
  ASSUME file \in Seq(0..255), NEW m \in Seq(Bytes), Whole(m),
         NEW f \in Nat \ {0}, NEW l \in Nat, f - 1 <= l, IsCode(f - 4), IsCode(l + 1),
         \A p \in f..(l - 3) : ~IsCode(p),
         NEW tr \in Track, Found(tr, f), NEW t, t = m[f].byte % 32
  PROVE  LET new == Handle(t, SubSeq(m, f, l), tr)
         IN new \in Track /\ Found(new, l + 5)
<1> DEFINE s   == SubSeq(m, f, l)
           new == Handle(t, s, tr)
           u   == <<f, l>>
           g   == l + 5
<1>1. /\ Len(m) \in Nat /\ Len(m) = Len(file) /\ f \in 5..Len(m) /\ l \in 0..Len(m)
      /\ f \in 1..(Len(m) + 1) /\ l + 4 <= Len(m)
  BY LenProperties DEF Whole, IsCode
<1>2. /\ f <= l => u \in FileUnits
      /\ \A v \in FileUnits : v[1] < g <=> v[1] < f \/ v = u
  BY UnitOfFile
<1>3. \A v \in FileUnits : v[1] \in Int /\ v[2] \in Int /\ v[1] <= v[2]
  BY DEF FileUnits
<1>4. t = file[f] % 32
  BY <1>1 DEF Whole
<1>5. /\ tr.sps \in BOOLEAN /\ tr.pps \in BOOLEAN /\ tr.samples \in Seq(Seq(Bytes))
      /\ tr = [sps |-> tr.sps, pps |-> tr.pps, samples |-> tr.samples]
      /\ Len(tr.samples) \in Nat
  BY LenProperties DEF Track
<1>6. u[1] = f /\ u[2] = l
  OBVIOUS
<1> HIDE DEF u, g
<1>7. CASE ~(f <= l)
  <2>1. \A v \in FileUnits : v[1] < g <=> v[1] < f
    BY <1>1, <1>2, <1>3, <1>6, <1>7
  <2>2. t = 0
    <3>1. Code(m, l + 1) /\ f = l + 1
      BY <1>1, <1>7, WholeCode
    <3>2. m[f].byte = 0
      BY <3>1 DEF Code
    <3> QED
      BY <3>2
  <2>3. new = tr
    <3> HIDE DEF s
    <3> QED
      BY <2>2 DEF Handle, KeptTypes
  <2>4. WantedBefore(g) = WantedBefore(f)
    BY <2>1 DEF WantedBefore, Wanted
  <2>5. Configured(g) <=> Configured(f)
    BY <2>1 DEF Configured
  <2>6. Found(tr, g)
    BY <2>1, <2>4, <2>5 DEF Found
  <2> HIDE DEF new
  <2> QED
    BY <2>3, <2>6 DEF new, g
<1>8. CASE f <= l
  <2>1. u \in FileUnits /\ TypeOf(u) = t
    BY <1>2, <1>4, <1>6, <1>8 DEF TypeOf
  <2>2. (\E v \in FileUnits : v[1] < g /\ TypeOf(v) = 7) <=> tr.sps \/ t = 7
    BY <1>2, <2>1 DEF Found
  <2>3. Configured(g) <=> tr.pps \/ (t = 8 /\ tr.sps)
    <3>1. ASSUME Configured(g)
          PROVE  tr.pps \/ (t = 8 /\ tr.sps)
      <4>1. PICK v \in FileUnits, w \in FileUnits :
              v[1] < w[1] /\ w[1] < g /\ TypeOf(v) = 7 /\ TypeOf(w) = 8
        BY <3>1 DEF Configured
      <4>2. CASE w[1] < f
        BY <4>1, <4>2 DEF Configured, Found
      <4>3. CASE w = u
        <5>1. v[1] < f
          BY <1>6, <4>1, <4>3
        <5> QED
          BY <2>1, <4>1, <4>3, <5>1 DEF Found
      <4> QED
        BY <1>2, <4>1, <4>2, <4>3
    <3>2. ASSUME tr.pps
          PROVE  Configured(g)
      BY <1>2, <3>2 DEF Found, Configured
    <3>3. ASSUME t = 8, tr.sps
          PROVE  Configured(g)
      <4>1. PICK v \in FileUnits : v[1] < f /\ TypeOf(v) = 7
        BY <3>3 DEF Found
      <4>2. v[1] < u[1] /\ u[1] < g /\ TypeOf(u) = 8
        BY <1>2, <1>6, <2>1, <3>3, <4>1
      <4> QED
        BY <2>1, <4>1, <4>2 DEF Configured
    <3> QED
      BY <3>1, <3>2, <3>3
  <2>4. tr.pps => tr.sps
    BY <1>1, <1>3, SMTT(30) DEF Found, Configured
  <2> DEFINE kept == t \in KeptTypes /\ tr.pps
  <2>5. WantedBefore(g) = IF kept THEN WantedBefore(f) \cup {u} ELSE WantedBefore(f)
    <3>1. u \in Wanted <=> kept
      BY <1>6, <2>1 DEF Wanted, Found
    <3>2. \A v : v \in WantedBefore(g) <=> v \in Wanted /\ (v[1] < f \/ v = u)
      BY <1>2 DEF WantedBefore, Wanted
    <3>3. \A v : v \in WantedBefore(f) <=> v \in Wanted /\ v[1] < f
      BY DEF WantedBefore
    <3> HIDE DEF kept
    <3> QED
      BY <3>1, <3>2, <3>3
  <2>6. IsFiniteSet(WantedBefore(f)) /\ u \notin WantedBefore(f)
    <3>1. WantedBefore(f) \in SUBSET FileUnits
      BY DEF WantedBefore, Wanted
    <3>2. u \notin WantedBefore(f)
      BY <1>1, <1>6 DEF WantedBefore
    <3> QED
      BY <3>1, <3>2, FileUnitsFinite, FS_Subset
  <2>7. Cardinality(WantedBefore(g)) = Len(tr.samples) + (IF kept THEN 1 ELSE 0)
    <3>1. Cardinality(WantedBefore(f) \cup {u}) = Cardinality(WantedBefore(f)) + 1
      BY <2>6, FS_AddElement
    <3> HIDE DEF kept
    <3> QED
      BY <1>5, <2>5, <3>1 DEF Found
  <2>8. ASSUME kept
        PROVE  IsWanted(s, Len(tr.samples) + 1)
    <3>1. u \in Wanted
      BY <1>6, <2>1, <2>8 DEF Wanted, Found
    <3>2. IsUnit(s, u)
      <4>1. /\ Len(s) = l - f + 1
            /\ \A i \in 1..Len(s) : s[i] = m[f + i - 1] /\ f + i - 1 \in f..l
        BY <1>1, CutOut
      <4> HIDE DEF s
      <4>2. \A a \in f..l : m[a].at = a
        <5>1. \A a \in f..l : a \in 1..Len(m)
          BY <1>1
        <5> QED
          BY <5>1 DEF Whole
      <4>3. \A i \in 1..Len(s) : s[i].at = f + i - 1
        BY <4>1, <4>2
      <4> QED
        BY <1>6, <4>1, <4>3 DEF IsUnit, Positions
    <3>3. Cardinality(WantedBefore(u[1])) = (Len(tr.samples) + 1) - 1
      BY <1>5, <1>6 DEF Found
    <3> QED
      BY <3>1, <3>2, <3>3 DEF IsWanted
  <2>9. s \in Seq(Bytes)
    BY <1>1, CutOut
  <2>10. \/ new = [sps |-> TRUE, pps |-> tr.pps, samples |-> tr.samples] /\ t = 7 /\ ~tr.sps
         \/ new = [sps |-> tr.sps, pps |-> TRUE, samples |-> tr.samples] /\ t = 8 /\ tr.sps /\ ~tr.pps
         \/ new = [sps |-> tr.sps, pps |-> tr.pps, samples |-> Append(tr.samples, s)] /\ kept /\ tr.sps
         \/ new = tr /\ ~kept /\ (t = 7 => tr.sps) /\ (t = 8 => ~tr.sps)
    <3> HIDE DEF s
    <3> QED
      BY <1>5, <2>4 DEF Handle, KeptTypes
  <2>11. /\ Append(tr.samples, s) \in Seq(Seq(Bytes))
         /\ Len(Append(tr.samples, s)) = Len(tr.samples) + 1
         /\ \A i \in 1..Len(tr.samples) : Append(tr.samples, s)[i] = tr.samples[i]
         /\ Append(tr.samples, s)[Len(tr.samples) + 1] = s
    <3>1. ASSUME NEW ss \in Seq(Seq(Bytes)), NEW e \in Seq(Bytes)
          PROVE  /\ Append(ss, e) \in Seq(Seq(Bytes)) /\ Len(Append(ss, e)) = Len(ss) + 1
                 /\ \A i \in 1..Len(ss) : Append(ss, e)[i] = ss[i]
                 /\ Append(ss, e)[Len(ss) + 1] = e
      BY AppendProperties
    <3> HIDE DEF s
    <3> QED
      BY <1>5, <2>9, <3>1
  <2> DEFINE more == Append(tr.samples, s)
  <2> HIDE DEF new, s, kept, more
  <2>12. ASSUME NEW x \in Track, x.sps <=> tr.sps \/ t = 7, x.pps <=> tr.pps \/ (t = 8 /\ tr.sps),
                ~kept, x.samples = tr.samples
         PROVE  x \in Track /\ Found(x, g)
    BY <1>5, <2>2, <2>3, <2>7, <2>12 DEF Found
  <2>13. CASE new = [sps |-> TRUE, pps |-> tr.pps, samples |-> tr.samples] /\ t = 7 /\ ~tr.sps
    <3>1. new \in Track /\ new.sps = TRUE /\ new.pps = tr.pps /\ new.samples = tr.samples
      BY <1>5, <2>13 DEF Track
    <3> QED
      BY <2>4, <2>12, <2>13, <3>1 DEF new, g, s, kept
  <2>14. CASE new = [sps |-> tr.sps, pps |-> TRUE, samples |-> tr.samples] /\ t = 8 /\ tr.sps /\ ~tr.pps
    <3>1. new \in Track /\ new.sps = tr.sps /\ new.pps = TRUE /\ new.samples = tr.samples
      BY <1>5, <2>14 DEF Track
    <3> QED
      BY <2>12, <2>14, <3>1 DEF new, g, s, kept
  <2>15. CASE new = [sps |-> tr.sps, pps |-> tr.pps, samples |-> Append(tr.samples, s)] /\ kept /\ tr.sps
    <3>1. new \in Track /\ new.sps = tr.sps /\ new.pps = tr.pps /\ new.samples = more
      BY <1>5, <2>11, <2>15 DEF Track, more
    <3>2. /\ new.sps <=> tr.sps \/ t = 7
          /\ new.pps <=> tr.pps \/ (t = 8 /\ tr.sps)
      BY <2>15, <3>1 DEF kept
    <3>3. \A i \in 1..(Len(tr.samples) + 1) : IsWanted(more[i], i)
      BY <1>5, <2>8, <2>11, <2>15, SMTT(30) DEF Found, more
    <3>4. Len(new.samples) = Cardinality(WantedBefore(g)) /\ Len(more) = Len(tr.samples) + 1
      BY <2>7, <2>11, <2>15, <3>1 DEF more
    <3>5. Found(new, g)
      BY <2>2, <2>3, <3>1, <3>2, <3>3, <3>4 DEF Found
    <3> QED
      BY <3>1, <3>5 DEF new, g, s
  <2>16. CASE new = tr /\ ~kept /\ (t = 7 => tr.sps) /\ (t = 8 => ~tr.sps)
    <3>1. new \in Track /\ (new.sps <=> tr.sps \/ t = 7) /\ (new.pps <=> tr.pps \/ (t = 8 /\ tr.sps))
      BY <1>5, <2>16
    <3> QED
      BY <2>12, <2>16, <3>1 DEF new, g, s
  <2> QED
    BY <2>10, <2>13, <2>14, <2>15, <2>16 DEF new, g, s
<1> QED
  BY <1>7, <1>8

\* SmallFileIsPrefix, of the samples ss.
Prefix(ss) ==
  \A i \in 1..Len(ss) : IsWanted(ss[i], i) \/ (i = Len(ss) /\ ss[i] = <<>>)

\* The unit after the last start code, which is empty.
LEMMA HandleEnd ==
  ASSUME NEW tr \in Track, NEW p, Found(tr, p), NEW t
  PROVE  LET new == Handle(t, <<>>, tr) IN new \in Track /\ Prefix(new.samples)
<1> DEFINE s    == <<>>
           new  == Handle(t, s, tr)
           more == Append(tr.samples, s)
<1>1. /\ tr.sps \in BOOLEAN /\ tr.pps \in BOOLEAN /\ tr.samples \in Seq(Seq(Bytes))
      /\ tr = [sps |-> tr.sps, pps |-> tr.pps, samples |-> tr.samples]
      /\ Len(tr.samples) \in Nat
  BY LenProperties DEF Track
<1>2. s \in Seq(Bytes) /\ s = <<>>
  BY EmptySeq
<1> HIDE DEF s
<1>3. \/ new = [sps |-> TRUE, pps |-> tr.pps, samples |-> tr.samples]
      \/ new = [sps |-> tr.sps, pps |-> TRUE, samples |-> tr.samples]
      \/ new = [sps |-> tr.sps, pps |-> tr.pps, samples |-> more]
      \/ new = tr
  BY <1>1 DEF Handle
<1>4. /\ more \in Seq(Seq(Bytes)) /\ Len(more) = Len(tr.samples) + 1
      /\ \A i \in 1..Len(tr.samples) : more[i] = tr.samples[i]
      /\ more[Len(tr.samples) + 1] = s
  <2>1. ASSUME NEW ss \in Seq(Seq(Bytes)), NEW e \in Seq(Bytes)
        PROVE  /\ Append(ss, e) \in Seq(Seq(Bytes)) /\ Len(Append(ss, e)) = Len(ss) + 1
               /\ \A i \in 1..Len(ss) : Append(ss, e)[i] = ss[i]
               /\ Append(ss, e)[Len(ss) + 1] = e
    BY AppendProperties
  <2> QED
    BY <1>1, <1>2, <2>1
<1> HIDE DEF new, more
<1>5. Prefix(tr.samples)
  BY DEF Found, Prefix
<1>6. Prefix(more)
  <2>1. \A i \in 1..Len(more) : i \in 1..Len(tr.samples) \/ i = Len(more)
    BY <1>1, <1>4
  <2> QED
    BY <1>2, <1>4, <2>1 DEF Found, Prefix
<1>7. new \in Track /\ (new.samples = tr.samples \/ new.samples = more)
  <2>1. CASE new = [sps |-> TRUE, pps |-> tr.pps, samples |-> tr.samples]
    BY <1>1, <2>1 DEF Track
  <2>2. CASE new = [sps |-> tr.sps, pps |-> TRUE, samples |-> tr.samples]
    BY <1>1, <2>2 DEF Track
  <2>3. CASE new = [sps |-> tr.sps, pps |-> tr.pps, samples |-> more]
    BY <1>1, <1>4, <2>3 DEF Track
  <2> QED
    BY <1>3, <2>1, <2>2, <2>3
<1>8. Prefix(new.samples)
  BY <1>5, <1>6, <1>7
<1> QED
  BY <1>7, <1>8 DEF new, s

LEMMA SmallHandled ==
  ASSUME file \in Seq(0..255), IsCode(1), sps = FALSE, pps = FALSE, samples = <<>>,
         NEW m \in Seq(Bytes), Whole(m), NEW stale,
         NEW units, units = UnitsOf(m, LastStartCode(m)), NEW k \in 0..Len(units)
  PROVE  Prefix(HandleUnits(m, units, stale, k).samples)
<1> DEFINE n  == LastStartCode(m)
           tr == [sps |-> sps, pps |-> pps, samples |-> samples]
           V  == [j \in 0..k |-> IF j < Len(units)
                                 THEN {x \in Track : Found(x, units[j + 1].first)}
                                 ELSE {x \in Track : Prefix(x.samples)}]
<1>1. n \in 0..Len(m) /\ (n # 0 => Code(m, n - 3)) /\ Len(m) \in Nat /\ n \in Nat
  BY LastCode, LenProperties
<1> HIDE DEF n
<1>2. units = UnitsOf(m, n)
  BY DEF n
<1>3. tr \in Track /\ tr.sps = FALSE /\ tr.pps = FALSE /\ tr.samples = <<>>
  BY EmptySeq DEF Track
<1> HIDE DEF tr
<1>4. \A p \in Int : Code(m, p) <=> IsCode(p)
  BY WholeCode
<1>5. CASE units = <<>>
  <2>1. Len(units) = 0 /\ k = 0
    BY <1>5
  <2>2. V[0] = {x \in Track : Prefix(x.samples)} /\ 1..k = {} /\ \A j \in 0..k : V[j] \subseteq Track
    BY <2>1
  <2>3. Prefix(tr.samples)
    BY <1>3 DEF Prefix
  <2>4. tr \in V[0]
    BY <1>3, <2>2, <2>3
  <2> HIDE DEF V
  <2>5. HandleUnits(m, units, stale, k) \in V[k]
    BY <2>1, <2>2, <2>4, HandledFrom DEF tr
  <2> QED
    BY <2>1, <2>2, <2>5
<1>6. CASE units # <<>>
  <2>1. units \in Chain(m, n, 5)
    <3>1. PICK i \in 5..(n + 1) : i = FirstUnit(m, n) /\ units \in Chain(m, n, i)
      BY <1>1, <1>2, <1>6, UnitsChained
    <3>2. n >= 1 /\ Code(m, 1)
      BY <1>1, <1>4, <3>1
    <3>3. FirstUnit(m, n) = 5
      BY <1>1, <3>2, FirstCode
    <3> QED
      BY <3>1, <3>3
  <2>2. /\ units \in Seq(Span(n)) /\ units # <<>> /\ units[1].first = 5 /\ units[Len(units)].last = n
        /\ \A j \in 1..Len(units) :
             /\ units[j].first - 1 <= units[j].last
             /\ \A p \in units[j].first..(n - 3) : Code(m, p) => units[j].last < p
        /\ \A j \in 1..(Len(units) - 1) :
             /\ Code(m, units[j].last + 1)
             /\ units[j + 1].first = units[j].last + 5
    BY <2>1 DEF Chain
  <2>3. Len(units) \in Nat /\ Len(units) >= 1
    BY <2>2, LenProperties, EmptySeq
  <2>4. \A j \in 1..Len(units) : units[j].first \in 1..(n + 1) /\ units[j].last \in 0..n
    <3> TAKE j \in 1..Len(units)
    <3>1. units[j] \in Span(n)
      BY <2>2, ElementOfSeq
    <3> QED
      BY <3>1 DEF Span
  <2>5. ASSUME NEW j \in 1..Len(units)
        PROVE  IsCode(units[j].first - 4)
    <3>1. CASE j = 1
      BY <2>2, <3>1
    <3>2. CASE j # 1
      <4>1. j - 1 \in 1..(Len(units) - 1) /\ j - 1 \in 1..Len(units) /\ (j - 1) + 1 = j
        BY <2>3, <3>2
      <4> DEFINE d == units[j - 1].last
      <4>2. Code(m, d + 1) /\ units[j].first = d + 5 /\ d \in 0..n
        BY <2>2, <2>4, <4>1
      <4> HIDE DEF d
      <4>3. units[j].first - 4 = d + 1 /\ d + 1 \in Int
        BY <1>1, <4>2
      <4> QED
        BY <1>4, <4>2, <4>3
    <3> QED
      BY <3>1, <3>2
  <2>6. ASSUME NEW j \in 1..(Len(units) - 1), NEW x \in Track, Found(x, units[j].first)
        PROVE  LET new == Handle(NalType(m, units[j], stale),
                                 SubSeq(m, units[j].first, units[j].last), x)
               IN new \in Track /\ Found(new, units[j + 1].first)
    <3> DEFINE f == units[j].first
               l == units[j].last
               t == NalType(m, units[j], stale)
    <3>1. /\ j \in 1..Len(units) /\ Code(m, l + 1) /\ units[j + 1].first = l + 5
          /\ f \in 1..(n + 1) /\ l \in 0..n /\ f - 1 <= l
          /\ IsCode(f - 4) /\ Found(x, f)
          /\ \A p \in f..(n - 3) : Code(m, p) => l < p
      <4>1. j \in 1..Len(units)
        BY <2>3
      <4>2. f \in 1..(n + 1) /\ l \in 0..n /\ IsCode(f - 4) /\ Found(x, f)
        BY <2>4, <2>5, <2>6, <4>1
      <4>3. Code(m, l + 1) /\ units[j + 1].first = l + 5
        BY <2>2
      <4>4. f - 1 <= l /\ \A p \in f..(n - 3) : Code(m, p) => l < p
        BY <2>2, <4>1
      <4> QED
        BY <4>1, <4>2, <4>3, <4>4
    <3>2. f <= Len(m) => t = m[f].byte % 32
      BY DEF NalType
    <3> HIDE DEF f, l, t
    <3>3. f \in Nat \ {0} /\ l \in Nat /\ IsCode(l + 1) /\ l + 4 <= Len(m) /\ f <= Len(m)
      <4>1. f \in Nat \ {0} /\ l \in Nat /\ l + 1 \in Int
        BY <1>1, <3>1
      <4>2. IsCode(l + 1)
        BY <1>4, <3>1, <4>1
      <4>3. l + 1 <= Len(m) - 3
        BY <1>1, <3>1, <4>1 DEF Code
      <4> QED
        BY <1>1, <3>1, <4>1, <4>2, <4>3
    <3>4. \A p \in f..(l - 3) : ~IsCode(p)
      <4> SUFFICES ASSUME NEW p \in f..(l - 3), IsCode(p)
                   PROVE  FALSE
        OBVIOUS
      <4>1. p \in f..(n - 3) /\ p \in Int /\ ~(l < p)
        <5>1. l <= n /\ f \in Nat /\ l \in Nat /\ n \in Nat
          BY <1>1, <3>1, <3>3
        <5> QED
          BY <5>1
      <4>2. Code(m, p)
        BY <1>4, <4>1
      <4> QED
        BY <3>1, <4>1, <4>2
    <3>5. LET new == Handle(t, SubSeq(m, f, l), x)
          IN new \in Track /\ Found(new, l + 5)
      BY <3>1, <3>2, <3>3, <3>4, HandleFound
    <3> QED
      BY <3>1, <3>5 DEF f, l, t
  <2>7. ASSUME NEW x \in Track, NEW p, Found(x, p), NEW j, j = Len(units)
        PROVE  LET new == Handle(NalType(m, units[j], stale),
                                 SubSeq(m, units[j].first, units[j].last), x)
               IN new \in Track /\ Prefix(new.samples)
    <3> DEFINE f == units[j].first
    <3>1. /\ f \in 1..(n + 1) /\ units[j].last = n /\ IsCode(f - 4) /\ f - 1 <= n
          /\ \A q \in f..(n - 3) : Code(m, q) => n < q
      BY <2>2, <2>3, <2>4, <2>5, <2>7, SMTT(30)
    <3> HIDE DEF f
    <3>2. Code(m, f - 4) /\ f >= 5
      <4>1. f \in Int /\ f - 4 \in Int /\ f - 4 >= 1
        BY <1>1, <3>1 DEF IsCode
      <4>2. Code(m, f - 4)
        BY <1>4, <3>1, <4>1
      <4> QED
        BY <4>1, <4>2
    <3>3. Code(m, n - 3)
      BY <1>1, <3>1, <3>2
    <3>4. ~(f - 4 < n - 3)
      <4> SUFFICES ASSUME f - 4 < n - 3
                   PROVE  FALSE
        OBVIOUS
      <4>1. (f - 4) + 4 <= n - 3
        BY <3>2, <3>3, CodesApart
      <4>2. n - 3 \in f..(n - 3)
        BY <1>1, <3>1, <4>1
      <4>3. n < n - 3
        BY <3>1, <3>3, <4>2
      <4> QED
        BY <1>1, <4>3
    <3>5. f = n + 1
      BY <1>1, <3>1, <3>4
    <3>6. SubSeq(m, f, n) = <<>>
      <4> DEFINE s == SubSeq(m, f, n)
      <4>1. f \in 1..(Len(m) + 1) /\ n \in 0..Len(m) /\ f - 1 <= n
        BY <1>1, <3>1
      <4>2. s \in Seq(Bytes) /\ Len(s) = n - f + 1
        BY <4>1, CutOut
      <4> HIDE DEF s
      <4>3. s = <<>>
        BY <1>1, <3>5, <4>2, EmptySeq
      <4> QED
        BY <4>3 DEF s
    <3> QED
      BY <2>7, <3>1, <3>6, HandleEnd DEF f
  <2>8. tr \in V[0] /\ k \in Nat /\ \A j \in 0..k : V[j] \subseteq Track
    <3>1. V[0] = {x \in Track : Found(x, units[0 + 1].first)}
      BY <2>3
    <3>2. Found(tr, 5)
      BY <1>3, NothingFound
    <3> QED
      BY <1>3, <2>2, <2>3, <3>1, <3>2
  <2>9. \A j \in 1..k : \A x \in V[j - 1] :
          Handle(NalType(m, units[j], stale), SubSeq(m, units[j].first, units[j].last), x) \in V[j]
    <3> TAKE j \in 1..k
    <3> TAKE x \in V[j - 1]
    <3>1. j - 1 \in 0..k /\ j \in 0..k /\ j - 1 < Len(units) /\ (j - 1) + 1 = j
      BY <2>3
    <3>2. x \in Track /\ Found(x, units[j].first)
      BY <3>1
    <3>3. CASE j < Len(units)
      <4>1. j \in 1..(Len(units) - 1) /\ V[j] = {y \in Track : Found(y, units[j + 1].first)}
        BY <2>3, <3>1, <3>3
      <4> HIDE DEF V
      <4> QED
        BY <2>6, <3>2, <4>1
    <3>4. CASE ~(j < Len(units))
      <4>1. j = Len(units) /\ V[j] = {y \in Track : Prefix(y.samples)}
        BY <2>3, <3>1, <3>4
      <4> HIDE DEF V
      <4> QED
        BY <2>7, <3>2, <4>1
    <3> QED
      BY <3>3, <3>4
  <2>10. k \in 0..k /\ \A j \in 0..k : \A x \in V[j] : Prefix(x.samples)
    <3>1. ASSUME NEW x, NEW p, Found(x, p)
          PROVE  Prefix(x.samples)
      BY <3>1 DEF Found, Prefix
    <3> QED
      BY <2>8, <3>1
  <2> HIDE DEF V
  <2>11. HandleUnits(m, units, stale, k) \in V[k]
    BY <2>8, <2>9, HandledFrom DEF tr
  <2> QED
    BY <2>10, <2>11
<1> QED
  BY <1>5, <1>6

\* As long as the loop goes on with a file that fits, all of it has been read
\* at once, or nothing yet.
SmallInv ==
  Len(file) <= BufferSize =>
    /\ IsCode(1)
    /\ \/ offset = 0 /\ buffer = <<>> /\ sps = FALSE /\ pps = FALSE /\ samples = <<>>
       \/ offset = Len(file) /\ Prefix(samples)

LEMMA InitSmall ==
  ASSUME ConvertAssumption, Init
  PROVE  SmallInv
<1>1. file \in Streams
  BY FilesAreBytes DEF Init
<1>2. file \in Seq(0..255) /\ Len(file) \in Nat /\ Len(file) >= 4
  BY <1>1, LenProperties DEF Streams
<1> DEFINE c == SubSeq(file, 1, 4)
<1>3. c = StartCode
  <2>1. /\ c \in [1..4 -> 0..255]
        /\ \A i \in 1..4 : c[i] = file[i]
    <3>1. \A i \in 1..4 : file[i] \in 0..255
      <4> TAKE i \in 1..4
      <4>1. i \in 1..Len(file)
        BY <1>2
      <4> QED
        BY <1>2, <4>1, ElementOfSeq
    <3>2. c \in Seq(0..255) /\ Len(c) = 4 /\ \A i \in 1..4 : c[i] = file[1 + i - 1]
      BY <3>1, SubSeqProperties
    <3> HIDE DEF c
    <3>3. \A i \in 1..4 : c[i] = file[i]
      BY <3>2
    <3>4. c \in [1..4 -> 0..255]
      BY <3>2, LenProperties, ZenonT(30)
    <3> QED
      BY <3>3, <3>4
  <2>2. StartCode \in [1..4 -> 0..255]
    BY DEF StartCode
  <2>3. \A i \in 1..4 : c[i] = StartCode[i]
    <3> TAKE i \in 1..4
    <3>1. i = 1 \/ i = 2 \/ i = 3 \/ i = 4
      OBVIOUS
    <3> HIDE DEF c
    <3> QED
      BY <1>1, <2>1, <3>1, StartCodeBytes DEF Streams
  <2> HIDE DEF c
  <2> QED
    BY <2>1, <2>2, <2>3
<1>4. IsCode(1)
  BY <1>2, <1>3 DEF IsCode
<1> QED
  BY <1>4 DEF SmallInv, Init

LEMMA StepSmall ==
  ASSUME ConvertAssumption, ConvertInv, SmallInv, [Next]_vars
  PROVE  SmallInv'
<1> SUFFICES ASSUME file' = file, Len(file) <= BufferSize
             PROVE  SmallInv'
  BY DEF SmallInv, Next, EndOfFile, Chunk, vars
<1>1. /\ file \in Seq(0..255) /\ offset \in 0..Len(file) /\ buffer \in Seq(Bytes)
      /\ Len(file) \in Nat /\ BufferSize \in Nat /\ Len(buffer) \in Nat
  BY LenProperties DEF ConvertInv, TypeOK, ConvertAssumption
<1>2. IsCode(1) /\ IsCode(1)'
  BY DEF SmallInv, IsCode
<1>3. \A s, i : IsWanted(s, i)' <=> IsWanted(s, i)
  BY DEF IsWanted, Wanted, WantedBefore, Configured, FileUnits, IsCode, TypeOf
<1>4. CASE UNCHANGED <<offset, buffer, sps, pps, samples>>
  BY <1>2, <1>3, <1>4 DEF SmallInv, Prefix
<1>5. CASE Chunk
  <2>1. Fresh > 0 /\ offset' = offset + Fresh
    BY <1>5 DEF Chunk
  <2>2. offset = 0 /\ buffer = <<>> /\ sps = FALSE /\ pps = FALSE /\ samples = <<>>
    <3>1. offset # Len(file)
      BY <1>1, <2>1 DEF Fresh
    <3> QED
      BY <3>1 DEF SmallInv
  <2>3. Fresh = Len(file) /\ offset' = Len(file)
    BY <1>1, <2>1, <2>2 DEF Fresh
  <2> DEFINE m     == buffer \o ReadBytes
             units == UnitsOf(m, LastStartCode(m))
  <2>4. m \in Seq(Bytes) /\ Whole(m)
    <3>1. ReadBytes \in [1..Len(file) -> Bytes]
      <4>1. \A i \in 1..Len(file) : [byte |-> file[0 + i], at |-> 0 + i] \in Bytes
        <5> TAKE i \in 1..Len(file)
        <5>1. file[i] \in 0..255 /\ 0 + i = i /\ i \in Nat
          BY <1>1, ElementOfSeq
        <5> QED
          BY <5>1 DEF Bytes
      <4> QED
        BY <2>2, <2>3, <4>1 DEF ReadBytes
    <3>2. ReadBytes \in Seq(Bytes) /\ Len(ReadBytes) = Len(file)
      BY <1>1, <3>1, LenOfFunction
    <3>3. m = ReadBytes
      BY <2>2, <3>2, ConcatEmptySeq
    <3>4. \A i \in 1..Len(file) : ReadBytes[i].byte = file[i] /\ ReadBytes[i].at = i
      BY <1>1, <2>2, <2>3 DEF ReadBytes
    <3> QED
      BY <3>2, <3>3, <3>4 DEF Whole
  <2>5. PICK stale \in Stale :
          \/ SetTrack(HandleUnits(m, units, stale, Len(units)))
          \/ \E k \in 0..(Len(units) - 1) :
               SetTrack([HandleUnits(m, units, stale, k) EXCEPT !.sps = TRUE])
    BY <1>5 DEF Chunk
  <2> HIDE DEF m
  <2>6. Len(units) \in Nat
    BY <2>4, FoundUnits, LenProperties
  <2>7. \A k \in 0..Len(units) : Prefix(HandleUnits(m, units, stale, k).samples)
    <3> TAKE k \in 0..Len(units)
    <3> DEFINE us == units
    <3>1. us = UnitsOf(m, LastStartCode(m)) /\ k \in 0..Len(us)
      OBVIOUS
    <3> HIDE DEF us
    <3>2. Prefix(HandleUnits(m, us, stale, k).samples)
      BY <1>1, <1>2, <2>2, <2>4, <3>1, SmallHandled
    <3> QED
      BY <3>2 DEF us
  <2> HIDE DEF units
  <2>8. \E k \in 0..Len(units) : samples' = HandleUnits(m, units, stale, k).samples
    <3>1. CASE SetTrack(HandleUnits(m, units, stale, Len(units)))
      BY <2>6, <3>1 DEF SetTrack
    <3>2. CASE \E k \in 0..(Len(units) - 1) :
                 SetTrack([HandleUnits(m, units, stale, k) EXCEPT !.sps = TRUE])
      <4>1. PICK k \in 0..(Len(units) - 1) :
              SetTrack([HandleUnits(m, units, stale, k) EXCEPT !.sps = TRUE])
        BY <3>2
      <4>2. k \in 0..Len(units)
        BY <2>6
      <4> QED
        BY <4>1, <4>2 DEF SetTrack
    <3> QED
      BY <2>5, <3>1, <3>2
  <2>9. Prefix(samples')
    BY <2>7, <2>8
  <2>10. Prefix(samples)'
    BY <1>3, <2>9 DEF Prefix
  <2> QED
    BY <1>2, <2>3, <2>10 DEF SmallInv
<1> QED
  BY <1>4, <1>5 DEF Next, EndOfFile, vars

\* Of a file that fits the buffer, each sample is the whole unit that a player
\* needs next, wherever the backward scan and mp4v2 stop.
THEOREM SmallFileKept == Spec => []SmallFileIsPrefix
<1>1. Init => SmallInv
  BY ConvertAssumption, InitSmall
<1>2. ConvertInv /\ SmallInv /\ [Next]_vars => SmallInv'
  BY ConvertAssumption, StepSmall
<1>3. ConvertInv /\ SmallInv => SmallFileIsPrefix
  <2> SUFFICES ASSUME ConvertInv, SmallInv, Len(file) <= BufferSize
               PROVE  \A i \in DOMAIN samples :
                        IsWanted(samples[i], i) \/ (i = Len(samples) /\ samples[i] = <<>>)
    BY DEF SmallFileIsPrefix
  <2>1. DOMAIN samples = 1..Len(samples)
    BY LenProperties DEF ConvertInv, TypeOK
  <2>2. Prefix(samples)
    <3>1. CASE samples = <<>>
      BY <3>1 DEF Prefix
    <3> QED
      BY <3>1 DEF SmallInv
  <2> QED
    BY <2>1, <2>2 DEF Prefix
<1> QED
  BY <1>1, <1>2, <1>3, ConvertKept, PTL DEF Spec
=============================================================================
