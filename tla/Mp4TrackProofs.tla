---------------------------- MODULE Mp4TrackProofs ----------------------------
(***************************************************************************)
(* What the operators of Mp4Track compute, for tables of any length: the   *)
(* sums, the search of a table of runs from its first row or from a cached *)
(* one, the rows a sample adds, the rows an offset cuts, the search of the *)
(* sync samples and the seek to a time.                                    *)
(*                                                                         *)
(* A recursive function is unfolded once it is known that some function    *)
(* satisfies its equation.  What is computed by it is shown by induction   *)
(* in the form of sets: a set of numbers with 0 and the successor of each  *)
(* of its members has all of Nat.                                          *)
(***************************************************************************)
EXTENDS Mp4Track, SequenceTheorems, WellFoundedInduction, TLAPS

(***************************************************************************)
(* Induction.                                                              *)
(***************************************************************************)

LEMMA NatMin ==
  ASSUME NEW T, T \subseteq Nat, T # {}
  PROVE  \E n \in T : \A m \in T : n <= m
<1>1. IsWellFoundedOn(OpToRel(<, Nat), Nat)
  BY NatLessThanWellFounded
<1> DEFINE R == OpToRel(<, Nat)
<1>2. \A x, y \in Nat : y < x => <<y, x>> \in R
  BY DEF OpToRel
<1>3. \E x \in T : \A y \in T : ~ (<<y, x>> \in R)
  <2> HIDE DEF R
  <2>1. IsWellFoundedOn(R, Nat)
    BY <1>1 DEF R
  <2> QED
    BY <2>1, WFMin
<1> HIDE DEF R
<1>4. PICK x \in T : \A y \in T : ~ (<<y, x>> \in R)
  BY <1>3
<1>5. x \in Nat /\ \A y \in T : y \in Nat
  OBVIOUS
<1>6. \A y \in T : ~ (y < x)
  BY <1>2, <1>4, <1>5
<1>7. \A y \in T : x <= y
  BY <1>5, <1>6
<1> QED
  BY <1>7

LEMMA SetInduction ==
  ASSUME NEW S, 0 \in S, \A n \in Nat : n \in S => n + 1 \in S
  PROVE  \A n \in Nat : n \in S
<1> SUFFICES ASSUME Nat \ S # {}
             PROVE  FALSE
  OBVIOUS
<1>1. PICK n \in Nat \ S : \A m \in Nat \ S : n <= m
  <2> DEFINE T == Nat \ S
  <2>1. T \subseteq Nat /\ T # {}
    OBVIOUS
  <2> HIDE DEF T
  <2>2. \E n \in T : \A m \in T : n <= m
    BY <2>1, NatMin
  <2> QED
    BY <2>2 DEF T
<1>2. n - 1 \in Nat /\ n - 1 \notin Nat \ S
  BY <1>1
<1>3. n - 1 + 1 \in S
  BY <1>2
<1> QED
  BY <1>1, <1>3

\* The smallest member of a set of numbers that are not below a bound.
LEMMA MinOfInts ==
  ASSUME NEW T, NEW l \in Int, \A i \in T : i \in Int /\ l <= i, T # {}
  PROVE  Min(T) \in T /\ \A i \in T : Min(T) <= i
<1> DEFINE U == {i - l : i \in T}
<1>1. U \subseteq Nat /\ U # {}
  OBVIOUS
<1>2. PICK n \in U : \A m \in U : n <= m
  <2> HIDE DEF U
  <2> QED
    BY <1>1, NatMin
<1>3. PICK j \in T : n = j - l
  BY <1>2
<1>4. \A i \in T : j <= i
  <2> TAKE i \in T
  <2>1. n <= i - l
    BY <1>2
  <2> QED
    BY <1>3, <2>1
<1> QED
  BY <1>3, <1>4 DEF Min

LEMMA MinIs ==
  ASSUME NEW T, NEW i \in T, T \subseteq Int, \A j \in T : i <= j
  PROVE  Min(T) = i
<1>1. \A x \in T : (\A j \in T : x <= j) => x = i
  OBVIOUS
<1>2. Min(T) \in T /\ \A j \in T : Min(T) <= j
  BY DEF Min
<1> QED
  BY <1>1, <1>2

(***************************************************************************)
(* Sums.                                                                   *)
(***************************************************************************)

Upto(m, k) == {i \in Int : i < m + k}

\* s is the function of SumOver on the numbers below m + k.
SumsUpto(s, v, m, k) ==
  s = [i \in Upto(m, k) |-> IF i < m THEN 0 ELSE s[i - 1] + v[i]]

LEMMA SumsExist ==
  ASSUME NEW v, NEW m \in Int
  PROVE  \A k \in Nat : \E s : SumsUpto(s, v, m, k)
<1> DEFINE S == {k \in Nat : \E s : SumsUpto(s, v, m, k)}
<1>1. 0 \in S
  <2> DEFINE s == [i \in Upto(m, 0) |-> 0]
  <2>1. SumsUpto(s, v, m, 0)
    BY DEF SumsUpto, Upto
  <2> QED
    BY <2>1
<1>2. ASSUME NEW k \in Nat, k \in S
      PROVE  k + 1 \in S
  <2>1. PICK s : SumsUpto(s, v, m, k)
    BY <1>2
  <2> DEFINE r == [i \in Upto(m, k + 1) |-> IF i < m THEN 0 ELSE s[i - 1] + v[i]]
  <2>2. \A i \in Upto(m, k) : i \in Upto(m, k + 1) /\ r[i] = s[i]
    BY <2>1 DEF SumsUpto, Upto
  <2>3. \A i \in Upto(m, k + 1) : i >= m => i - 1 \in Upto(m, k)
    BY DEF Upto
  <2>4. r = [i \in Upto(m, k + 1) |-> IF i < m THEN 0 ELSE r[i - 1] + v[i]]
    <3>1. \A i \in Upto(m, k + 1) :
            r[i] = IF i < m THEN 0 ELSE r[i - 1] + v[i]
      BY <2>2, <2>3 DEF Upto
    <3> QED
      BY <3>1
  <2>5. SumsUpto(r, v, m, k + 1)
    BY <2>4 DEF SumsUpto
  <2> QED
    BY <2>5
<1> HIDE DEF S
<1>3. \A k \in Nat : k \in S
  BY <1>1, <1>2, SetInduction
<1> QED
  BY <1>3 DEF S

LEMMA SumsUnique ==
  ASSUME NEW v, NEW m \in Int, NEW k \in Nat, NEW l \in Nat, NEW s, NEW r,
         SumsUpto(s, v, m, k), SumsUpto(r, v, m, l)
  PROVE  \A i \in Upto(m, k) \cap Upto(m, l) : s[i] = r[i]
<1> DEFINE S == {j \in Nat : \A i \in Upto(m, k) \cap Upto(m, l) : i < m + j => s[i] = r[i]}
<1>1. 0 \in S
  BY DEF SumsUpto, Upto
<1>2. ASSUME NEW j \in Nat, j \in S
      PROVE  j + 1 \in S
  <2> SUFFICES ASSUME NEW i \in Upto(m, k) \cap Upto(m, l), i < m + j + 1
               PROVE  s[i] = r[i]
    BY DEF S
  <2>1. CASE i < m
    BY <2>1 DEF SumsUpto, Upto
  <2>2. CASE i >= m
    <3>1. i - 1 \in Upto(m, k) \cap Upto(m, l) /\ i - 1 < m + j
      BY <2>2 DEF Upto
    <3>2. s[i - 1] = r[i - 1]
      BY <1>2, <3>1
    <3>3. s[i] = s[i - 1] + v[i] /\ r[i] = r[i - 1] + v[i]
      BY <2>2 DEF SumsUpto, Upto
    <3> QED
      BY <3>2, <3>3
  <2> QED
    BY <2>1, <2>2 DEF Upto
<1> HIDE DEF S
<1>3. \A j \in Nat : j \in S
  BY <1>1, <1>2, SetInduction
<1>4. k \in S
  BY <1>3
<1> QED
  BY <1>4 DEF S, Upto

LEMMA SumExists ==
  ASSUME NEW v, NEW m \in Int
  PROVE  \E s : s = [i \in Int |-> IF i < m THEN 0 ELSE s[i - 1] + v[i]]
<1> DEFINE steps(i) == IF i < m THEN 0 ELSE i - m + 1
           part(k)  == CHOOSE s : SumsUpto(s, v, m, k)
           s        == [i \in Int |-> part(steps(i))[i]]
<1>1. \A i \in Int : steps(i) \in Nat /\ i \in Upto(m, steps(i))
  BY DEF Upto
<1>2. \A k \in Nat : SumsUpto(part(k), v, m, k)
  BY SumsExist
<1>3. ASSUME NEW i \in Int
      PROVE  s[i] = IF i < m THEN 0 ELSE s[i - 1] + v[i]
  <2> DEFINE p == part(steps(i))
             q == part(steps(i - 1))
  <2>1. SumsUpto(p, v, m, steps(i)) /\ SumsUpto(q, v, m, steps(i - 1))
    BY <1>1, <1>2
  <2>2. s[i] = p[i] /\ s[i - 1] = q[i - 1]
    OBVIOUS
  <2>3. p[i] = IF i < m THEN 0 ELSE p[i - 1] + v[i]
    <3>1. i \in Upto(m, steps(i))
      BY <1>1
    <3> HIDE DEF p, steps
    <3> QED
      BY <2>1, <3>1 DEF SumsUpto
  <2>4. i >= m => p[i - 1] = q[i - 1]
    <3>1. steps(i) \in Nat /\ steps(i - 1) \in Nat /\ i - 1 \in Upto(m, steps(i - 1))
      BY <1>1
    <3>2. i >= m => i - 1 \in Upto(m, steps(i))
      BY DEF Upto
    <3> HIDE DEF p, q, steps
    <3> QED
      BY <2>1, <3>1, <3>2, SumsUnique
  <2> HIDE DEF s, p, q
  <2> QED
    BY <2>2, <2>3, <2>4
<1>4. s = [i \in Int |-> IF i < m THEN 0 ELSE s[i - 1] + v[i]]
  <2>1. s = [i \in Int |-> s[i]]
    OBVIOUS
  <2> HIDE DEF s
  <2> QED
    BY <1>3, <2>1
<1> QED
  BY <1>4

LEMMA SumStep ==
  ASSUME NEW v, NEW m \in Int, NEW n \in Int
  PROVE  SumOver(v, m, n) = IF n < m THEN 0 ELSE SumOver(v, m, n - 1) + v[n]
<1> DEFINE F(s) == [i \in Int |-> IF i < m THEN 0 ELSE s[i - 1] + v[i]]
           sum  == CHOOSE s : s = F(s)
<1>1. \E s : s = F(s)
  BY SumExists
<1>2. sum = F(sum)
  <2> HIDE DEF F
  <2> QED
    BY <1>1
<1>3. \A k \in Int : SumOver(v, m, k) = sum[k]
  BY DEF SumOver
<1>4. \A k \in Int : sum[k] = IF k < m THEN 0 ELSE sum[k - 1] + v[k]
  <2> HIDE DEF sum
  <2> QED
    BY <1>2
<1> HIDE DEF sum
<1> QED
  BY <1>3, <1>4

LEMMA SumEmpty ==
  ASSUME NEW v, NEW m \in Int, NEW n \in Int, n < m
  PROVE  SumOver(v, m, n) = 0
BY SumStep

\* The sums up to n, for all n from m - 1 on, by induction on their length.
LEMMA SumInduction ==
  ASSUME NEW S, NEW m \in Int, m - 1 \in S, \A n \in Int : n >= m /\ n - 1 \in S => n \in S
  PROVE  \A n \in Int : n >= m - 1 => n \in S
<1> DEFINE K == {k \in Nat : m - 1 + k \in S}
<1>1. 0 \in K
  OBVIOUS
<1>2. ASSUME NEW k \in Nat, k \in K
      PROVE  k + 1 \in K
  <2> DEFINE n == m - 1 + (k + 1)
  <2>1. n \in Int /\ n >= m /\ n - 1 = m - 1 + k
    OBVIOUS
  <2>2. n \in S
    <3> HIDE DEF n
    <3> QED
      BY <1>2, <2>1
  <2> QED
    BY <2>2
<1> HIDE DEF K
<1>3. \A k \in Nat : k \in K
  BY <1>1, <1>2, SetInduction
<1>4. ASSUME NEW n \in Int, n >= m - 1
      PROVE  n \in S
  <2>1. n - m + 1 \in Nat
    BY <1>4
  <2>2. n - m + 1 \in K
    BY <1>3, <2>1
  <2> QED
    BY <2>2 DEF K
<1> QED
  BY <1>4

LEMMA SumInt ==
  ASSUME NEW v, NEW m \in Int, NEW n \in Int, \A i \in m..n : v[i] \in Int
  PROVE  SumOver(v, m, n) \in Int
<1> DEFINE S == {k \in Int : k <= n => SumOver(v, m, k) \in Int}
<1>1. m - 1 \in S
  BY SumEmpty
<1>2. ASSUME NEW k \in Int, k >= m, k - 1 \in S
      PROVE  k \in S
  BY <1>2, SumStep
<1> HIDE DEF S
<1>3. n >= m - 1 => n \in S
  BY <1>1, <1>2, SumInduction
<1> QED
  BY <1>3, SumEmpty DEF S

LEMMA SumNat ==
  ASSUME NEW v, NEW m \in Int, NEW n \in Int, \A i \in m..n : v[i] \in Nat
  PROVE  SumOver(v, m, n) \in Nat
<1> DEFINE S == {k \in Int : k <= n => SumOver(v, m, k) \in Nat}
<1>1. m - 1 \in S
  BY SumEmpty
<1>2. ASSUME NEW k \in Int, k >= m, k - 1 \in S
      PROVE  k \in S
  BY <1>2, SumStep
<1> HIDE DEF S
<1>3. n >= m - 1 => n \in S
  BY <1>1, <1>2, SumInduction
<1> QED
  BY <1>3, SumEmpty DEF S

LEMMA SumEqual ==
  ASSUME NEW v, NEW w, NEW m \in Int, NEW n \in Int, \A i \in m..n : v[i] = w[i]
  PROVE  SumOver(v, m, n) = SumOver(w, m, n)
<1> DEFINE S == {k \in Int : k <= n => SumOver(v, m, k) = SumOver(w, m, k)}
<1>1. m - 1 \in S
  BY SumEmpty
<1>2. ASSUME NEW k \in Int, k >= m, k - 1 \in S
      PROVE  k \in S
  BY <1>2, SumStep
<1> HIDE DEF S
<1>3. n >= m - 1 => n \in S
  BY <1>1, <1>2, SumInduction
<1> QED
  BY <1>3, SumEmpty DEF S

LEMMA SumSplit ==
  ASSUME NEW v, NEW m \in Int, NEW l \in Int, NEW n \in Int, m - 1 <= l, l <= n,
         \A i \in m..n : v[i] \in Int
  PROVE  SumOver(v, m, n) = SumOver(v, m, l) + SumOver(v, l + 1, n)
<1> DEFINE S == {k \in Int : k <= n => SumOver(v, m, k) = SumOver(v, m, l) + SumOver(v, l + 1, k)}
<1>0. SumOver(v, m, l) \in Int
  BY SumInt
<1>1. l \in S
  BY <1>0, SumEmpty
<1>2. ASSUME NEW k \in Int, k >= l + 1, k - 1 \in S
      PROVE  k \in S
  <2> SUFFICES ASSUME k <= n
               PROVE  SumOver(v, m, k) = SumOver(v, m, l) + SumOver(v, l + 1, k)
    BY DEF S
  <2>1. SumOver(v, m, k - 1) = SumOver(v, m, l) + SumOver(v, l + 1, k - 1)
    BY <1>2 DEF S
  <2>2. SumOver(v, m, k) = SumOver(v, m, k - 1) + v[k]
    BY <1>2, SumStep
  <2>3. SumOver(v, l + 1, k) = SumOver(v, l + 1, k - 1) + v[k]
    BY <1>2, SumStep
  <2>4. SumOver(v, l + 1, k - 1) \in Int /\ v[k] \in Int
    BY <1>2, SumInt
  <2> QED
    BY <1>0, <2>1, <2>2, <2>3, <2>4
<1> HIDE DEF S
<1>3. n \in S
  <2> DEFINE b == l + 1
  <2>1. b \in Int /\ b - 1 = l /\ n >= b - 1
    OBVIOUS
  <2>2. \A k \in Int : k >= b /\ k - 1 \in S => k \in S
    BY <1>2
  <2> HIDE DEF b
  <2> QED
    BY <1>1, <2>1, <2>2, SumInduction
<1> QED
  BY <1>3 DEF S

LEMMA SumConst ==
  ASSUME NEW v, NEW c \in Int, NEW m \in Int, NEW n \in Int, m - 1 <= n,
         \A i \in m..n : v[i] = c
  PROVE  SumOver(v, m, n) = (n - m + 1) * c
<1> DEFINE S == {k \in Int : k <= n => SumOver(v, m, k) = (k - m + 1) * c}
<1>1. m - 1 \in S
  BY SumEmpty
<1>2. ASSUME NEW k \in Int, k >= m, k - 1 \in S
      PROVE  k \in S
  <2>1. (k - m + 1) * c = (k - 1 - m + 1) * c + c
    OBVIOUS
  <2> QED
    BY <1>2, <2>1, SumStep
<1> HIDE DEF S
<1>3. n \in S
  BY <1>1, <1>2, SumInduction
<1> QED
  BY <1>3 DEF S

LEMMA SumRepeat ==
  ASSUME NEW v, NEW c \in Int, NEW m \in Int, NEW k \in Nat, \A i \in m..(m + k - 1) : v[i] = c
  PROVE  SumOver(v, m, m + k - 1) = k * c
<1> DEFINE n == m + k - 1
<1>1. n \in Int /\ m - 1 <= n /\ n - m + 1 = k /\ \A i \in m..n : v[i] = c
  OBVIOUS
<1> HIDE DEF n
<1>2. SumOver(v, m, n) = (n - m + 1) * c
  BY <1>1, SumConst
<1> QED
  BY <1>1, <1>2 DEF n

\* A part of a sum of numbers is not more than the whole.
LEMMA SumPart ==
  ASSUME NEW v, NEW m \in Int, NEW n \in Int, \A i \in m..n : v[i] \in Nat,
         NEW l \in Int, l <= n
  PROVE  SumOver(v, m, l) <= SumOver(v, m, n)
<1>1. CASE l < m
  BY <1>1, SumEmpty, SumNat
<1>2. CASE m <= l
  <2>1. SumOver(v, m, n) = SumOver(v, m, l) + SumOver(v, l + 1, n)
    BY <1>2, SumSplit
  <2>2. SumOver(v, m, l) \in Nat /\ SumOver(v, l + 1, n) \in Nat
    BY <1>2, SumNat
  <2> QED
    BY <2>1, <2>2
<1> QED
  BY <1>1, <1>2

LEMMA SumShift ==
  ASSUME NEW v, NEW w, NEW d \in Int, NEW m \in Int, NEW n \in Int,
         \A i \in m..n : w[i + d] = v[i]
  PROVE  SumOver(w, m + d, n + d) = SumOver(v, m, n)
<1> DEFINE S == {k \in Int : k <= n => SumOver(w, m + d, k + d) = SumOver(v, m, k)}
<1>1. m - 1 \in S
  BY SumEmpty
<1>2. ASSUME NEW k \in Int, k >= m, k - 1 \in S
      PROVE  k \in S
  <2> SUFFICES ASSUME k <= n
               PROVE  SumOver(w, m + d, k + d) = SumOver(v, m, k)
    BY DEF S
  <2>1. SumOver(w, m + d, k - 1 + d) = SumOver(v, m, k - 1)
    BY <1>2 DEF S
  <2>2. SumOver(w, m + d, k + d) = SumOver(w, m + d, k + d - 1) + w[k + d]
    BY <1>2, SumStep
  <2>3. k + d - 1 = k - 1 + d
    OBVIOUS
  <2>4. SumOver(v, m, k) = SumOver(v, m, k - 1) + v[k]
    BY <1>2, SumStep
  <2>5. w[k + d] = v[k]
    BY <1>2
  <2> QED
    BY <2>1, <2>2, <2>3, <2>4, <2>5
<1> HIDE DEF S
<1>3. n >= m - 1 => n \in S
  BY <1>1, <1>2, SumInduction
<1> QED
  BY <1>3, SumEmpty DEF S

(***************************************************************************)
(* Tables of runs.                                                         *)
(***************************************************************************)

Row == [n : Nat \ {0}, v : 0..(Span - 1)]

Total(rows) == SumOver(Counts(rows), 1, Len(rows))

LEMMA RowTypes ==
  ASSUME NEW rows \in Seq(Row)
  PROVE  /\ Len(rows) \in Nat /\ DOMAIN rows = 1..Len(rows)
         /\ \A i \in 1..Len(rows) :
              /\ rows[i] \in Row /\ rows[i].n \in Nat \ {0} /\ rows[i].v \in 0..(Span - 1)
              /\ Counts(rows)[i] = rows[i].n
              /\ Lengths(rows)[i] = (rows[i].n * rows[i].v) % Span
              /\ Lengths(rows)[i] \in Nat
<1>1. Len(rows) \in Nat /\ DOMAIN rows = 1..Len(rows)
  OBVIOUS
<1>2. ASSUME NEW i \in 1..Len(rows)
      PROVE  /\ rows[i] \in Row /\ rows[i].n \in Nat \ {0} /\ rows[i].v \in 0..(Span - 1)
             /\ Counts(rows)[i] = rows[i].n
             /\ Lengths(rows)[i] = (rows[i].n * rows[i].v) % Span
             /\ Lengths(rows)[i] \in Nat
  <2>1. rows[i] \in Row
    BY ElementOfSeq
  <2>2. rows[i].n \in Nat \ {0} /\ rows[i].v \in 0..(Span - 1)
    BY <2>1 DEF Row
  <2>3. Span \in Nat \ {0} /\ rows[i].n * rows[i].v \in Nat
    BY <2>2, Mp4Assumption
  <2>4. (rows[i].n * rows[i].v) % Span \in Nat
    <3> DEFINE x == rows[i].n * rows[i].v
    <3>1. x \in Nat
      BY <2>3
    <3> HIDE DEF x
    <3>2. x % Span \in Nat
      BY <2>3, <3>1
    <3> QED
      BY <3>2 DEF x
  <2> QED
    BY <1>1, <2>1, <2>2, <2>4 DEF Counts, Lengths
<1> QED
  BY <1>1, <1>2

LEMMA SidStep ==
  ASSUME NEW rows \in Seq(Row)
  PROVE  /\ SidAt(rows, 1) = 1 /\ Elapsed(rows, 1) = 0
         /\ SidAt(rows, Len(rows) + 1) = Total(rows) + 1
         /\ \A i \in 1..(Len(rows) + 1) : SidAt(rows, i) \in Nat \ {0} /\ Elapsed(rows, i) \in Nat
         /\ \A i \in 1..Len(rows) :
              /\ SidAt(rows, i + 1) = SidAt(rows, i) + rows[i].n
              /\ Elapsed(rows, i + 1) = Elapsed(rows, i) + Lengths(rows)[i]
<1>1. SidAt(rows, 1) = 1 /\ Elapsed(rows, 1) = 0
  BY SumEmpty DEF SidAt, Elapsed
<1>2. ASSUME NEW i \in 1..(Len(rows) + 1)
      PROVE  SumOver(Counts(rows), 1, i - 1) \in Nat /\ SumOver(Lengths(rows), 1, i - 1) \in Nat
  <2>1. \A k \in 1..(i - 1) : Counts(rows)[k] \in Nat /\ Lengths(rows)[k] \in Nat
    BY RowTypes
  <2>2. i - 1 \in Int
    BY RowTypes
  <2> QED
    BY <2>1, <2>2, SumNat
<1>3. ASSUME NEW i \in 1..Len(rows)
      PROVE  /\ SumOver(Counts(rows), 1, i) = SumOver(Counts(rows), 1, i - 1) + rows[i].n
             /\ SumOver(Lengths(rows), 1, i) = SumOver(Lengths(rows), 1, i - 1) + Lengths(rows)[i]
  <2>1. i \in Int /\ ~(i < 1) /\ Counts(rows)[i] = rows[i].n
    BY RowTypes
  <2> QED
    BY <2>1, SumStep
<1>4. ASSUME NEW i \in 1..Len(rows)
      PROVE  /\ SidAt(rows, i + 1) = SidAt(rows, i) + rows[i].n
             /\ Elapsed(rows, i + 1) = Elapsed(rows, i) + Lengths(rows)[i]
  <2>1. i + 1 - 1 = i /\ i \in 1..(Len(rows) + 1) /\ rows[i].n \in Nat
    BY RowTypes
  <2>2. SumOver(Counts(rows), 1, i - 1) \in Nat
    BY <1>2, <2>1
  <2>3. SidAt(rows, i + 1) = 1 + SumOver(Counts(rows), 1, i)
    BY <2>1 DEF SidAt
  <2>4. Elapsed(rows, i + 1) = SumOver(Lengths(rows), 1, i)
    BY <2>1 DEF Elapsed
  <2>5. SidAt(rows, i + 1) = SidAt(rows, i) + rows[i].n
    <3> DEFINE a == SumOver(Counts(rows), 1, i - 1)
               n == rows[i].n
    <3>1. SidAt(rows, i) = 1 + a
      BY DEF SidAt
    <3>2. SidAt(rows, i + 1) = 1 + (a + n) /\ a \in Nat /\ n \in Nat
      BY <1>3, <2>1, <2>2, <2>3
    <3> HIDE DEF a, n
    <3>3. SidAt(rows, i + 1) = SidAt(rows, i) + n
      BY <3>1, <3>2
    <3> QED
      BY <3>3 DEF n
  <2>6. Elapsed(rows, i + 1) = Elapsed(rows, i) + Lengths(rows)[i]
    BY <1>3, <2>4 DEF Elapsed
  <2> QED
    BY <2>5, <2>6
<1>5. SidAt(rows, Len(rows) + 1) = Total(rows) + 1
  <2>1. Len(rows) + 1 - 1 = Len(rows) /\ Len(rows) + 1 \in 1..(Len(rows) + 1)
    OBVIOUS
  <2> QED
    BY <1>2, <2>1 DEF SidAt, Total
<1> QED
  BY <1>1, <1>2, <1>4, <1>5 DEF SidAt, Elapsed

LEMMA SidMonotone ==
  ASSUME NEW rows \in Seq(Row), NEW i \in 1..Len(rows), NEW j \in 1..(Len(rows) + 1), i < j
  PROVE  SidAt(rows, i) + rows[i].n <= SidAt(rows, j)
<1>0. /\ i \in Int /\ j - 1 \in Int /\ i <= j - 1 /\ i + 1 - 1 = i
      /\ \A k \in 1..(j - 1) : Counts(rows)[k] \in Nat
      /\ \A k \in 1..i : Counts(rows)[k] \in Nat
  <2>1. Len(rows) \in Nat /\ \A k \in 1..Len(rows) : Counts(rows)[k] \in Nat
    BY RowTypes
  <2> QED
    BY <2>1
<1>1. SumOver(Counts(rows), 1, i) <= SumOver(Counts(rows), 1, j - 1)
  BY <1>0, SumPart
<1>2. /\ SidAt(rows, i + 1) = 1 + SumOver(Counts(rows), 1, i)
      /\ SidAt(rows, j) = 1 + SumOver(Counts(rows), 1, j - 1)
  BY <1>0 DEF SidAt
<1>3. SumOver(Counts(rows), 1, i) \in Nat /\ SumOver(Counts(rows), 1, j - 1) \in Nat
  BY <1>0, SumNat
<1> QED
  BY <1>1, <1>2, <1>3, SidStep

\* The rows that end with sample id or later; the first of them has it.
Reaching(rows, id) == {i \in 1..Len(rows) : id <= SidAt(rows, i) + rows[i].n - 1}

RowOf(rows, id) ==
  IF Reaching(rows, id) = {} THEN [index |-> 0, sid |-> 0, elapsed |-> 0]
  ELSE [index   |-> Min(Reaching(rows, id)),
        sid     |-> SidAt(rows, Min(Reaching(rows, id))),
        elapsed |-> Elapsed(rows, Min(Reaching(rows, id)))]

\* A position in a table: a row, the first sample of it and its time.
IsPosition(rows, p) ==
  /\ p.index \in 1..(Len(rows) + 1)
  /\ p.sid = SidAt(rows, p.index) /\ p.elapsed = Elapsed(rows, p.index)

LEMMA ReachingMin ==
  ASSUME NEW rows \in Seq(Row), NEW id \in Int
  PROVE  LET R == Reaching(rows, id)
         IN /\ id > Total(rows) => R = {}
            /\ id <= Total(rows) /\ rows # <<>> => R # {}
            /\ R # {} => Min(R) \in R /\ \A i \in R : Min(R) <= i
            /\ R # {} /\ id >= 1 => SidAt(rows, Min(R)) <= id
<1> DEFINE R == Reaching(rows, id)
<1>1. Total(rows) \in Nat
  BY SumNat, RowTypes, SMTT(30) DEF Total
<1>2. id > Total(rows) => R = {}
  <2> SUFFICES ASSUME id > Total(rows), NEW i \in R
               PROVE  FALSE
    OBVIOUS
  <2>1. SidAt(rows, i) + rows[i].n <= SidAt(rows, Len(rows) + 1)
    BY SidMonotone, RowTypes DEF Reaching
  <2> QED
    BY <1>1, <2>1, SidStep, RowTypes, SMTT(30) DEF Reaching
<1>3. id <= Total(rows) /\ rows # <<>> => R # {}
  <2> SUFFICES ASSUME id <= Total(rows), rows # <<>>
               PROVE  Len(rows) \in R
    OBVIOUS
  <2>1. Len(rows) \in 1..Len(rows)
    BY EmptySeq
  <2>2. Total(rows) + 1 = SidAt(rows, Len(rows)) + rows[Len(rows)].n
    BY <2>1, SidStep
  <2> QED
    BY <1>1, <2>1, <2>2, SidStep, RowTypes, SMTT(30) DEF Reaching
<1>4. R # {} => Min(R) \in R /\ \A i \in R : Min(R) <= i
  <2>1. \A i \in R : i \in Int /\ 1 <= i
    BY DEF Reaching
  <2> HIDE DEF R
  <2> QED
    BY <2>1, MinOfInts
<1>5. R # {} /\ id >= 1 => SidAt(rows, Min(R)) <= id
  <2> SUFFICES ASSUME R # {}, id >= 1
               PROVE  SidAt(rows, Min(R)) <= id
    OBVIOUS
  <2> DEFINE i == Min(R)
  <2>1. i \in 1..Len(rows) /\ \A j \in R : i <= j
    BY <1>4 DEF Reaching
  <2> SUFFICES SidAt(rows, i) <= id
    OBVIOUS
  <2> HIDE DEF i
  <2>2. CASE i = 1
    <3>1. SidAt(rows, 1) = 1
      BY SidStep
    <3> QED
      BY <2>2, <3>1
  <2>3. CASE i > 1
    <3>1. i - 1 \in 1..Len(rows) /\ ~ (i - 1 \in R)
      BY <2>1, <2>3
    <3>2. id > SidAt(rows, i - 1) + rows[i - 1].n - 1
      <4>1. ~ (id <= SidAt(rows, i - 1) + rows[i - 1].n - 1)
        BY <3>1 DEF Reaching
      <4>2. SidAt(rows, i - 1) \in Nat /\ rows[i - 1].n \in Nat
        <5>1. i - 1 \in 1..(Len(rows) + 1)
          BY <3>1, RowTypes
        <5> QED
          BY <3>1, <5>1, SidStep, RowTypes
      <4> QED
        BY <4>1, <4>2
    <3>3. SidAt(rows, i - 1 + 1) = SidAt(rows, i - 1) + rows[i - 1].n
      BY <3>1, SidStep
    <3>4. i - 1 + 1 = i
      BY <2>1
    <3>5. SidAt(rows, i) \in Nat /\ SidAt(rows, i - 1) \in Nat /\ rows[i - 1].n \in Nat
      <4>1. i \in 1..(Len(rows) + 1) /\ i - 1 \in 1..(Len(rows) + 1)
        BY <2>1, <3>1, RowTypes
      <4> QED
        BY <3>1, <4>1, SidStep, RowTypes
    <3> QED
      BY <3>2, <3>3, <3>4, <3>5
  <2> QED
    BY <2>1, <2>2, <2>3
<1> QED
  BY <1>2, <1>3, <1>4, <1>5

\* The search from a position that is not beyond the sample, or from the first
\* row, finds the row that a search of the whole table finds.
LEMMA RowFromIs ==
  ASSUME NEW rows \in Seq(Row), NEW id \in Int, NEW p, IsPosition(rows, p),
         p.index = 1 \/ p.sid <= id
  PROVE  RowFrom(rows, p, id) = RowOf(rows, id)
<1> DEFINE sid(i) == p.sid + SumOver(Counts(rows), p.index, i - 1)
           found  == {i \in p.index..Len(rows) : id <= sid(i) + rows[i].n - 1}
           time(i) == p.elapsed + SumOver(Lengths(rows), p.index, i - 1)
<1>0. /\ Len(rows) \in Nat
      /\ \A k \in 1..Len(rows) : /\ Counts(rows)[k] \in Int /\ Lengths(rows)[k] \in Int
                                 /\ rows[k].n \in Nat /\ SidAt(rows, k) \in Nat
  <2>1. \A k \in 1..Len(rows) : k \in 1..(Len(rows) + 1)
    BY RowTypes
  <2> QED
    BY <2>1, RowTypes, SidStep
<1>1. p.index \in 1..(Len(rows) + 1) /\ p.sid \in Nat /\ p.elapsed \in Nat
  BY SidStep DEF IsPosition
<1>2. ASSUME NEW i \in p.index..Len(rows)
      PROVE  sid(i) = SidAt(rows, i) /\ time(i) = Elapsed(rows, i)
  <2>0. i \in Int /\ p.index - 1 \in Int /\ 1 - 1 <= p.index - 1 /\ p.index - 1 <= i - 1
        /\ p.index - 1 + 1 = p.index /\ i - 1 \in Int /\ p.index \in Int
    BY <1>0, <1>1
  <2>1. /\ \A k \in 1..(i - 1) : Counts(rows)[k] \in Int
        /\ \A k \in 1..(i - 1) : Lengths(rows)[k] \in Int
        /\ \A k \in 1..(p.index - 1) : Counts(rows)[k] \in Int /\ Lengths(rows)[k] \in Int
        /\ \A k \in p.index..(i - 1) : Counts(rows)[k] \in Int /\ Lengths(rows)[k] \in Int
    BY <1>0, <1>1
  <2>2. SumOver(Counts(rows), 1, i - 1) =
          SumOver(Counts(rows), 1, p.index - 1) + SumOver(Counts(rows), p.index, i - 1)
    BY <2>0, <2>1, SumSplit
  <2>3. SumOver(Lengths(rows), 1, i - 1) =
          SumOver(Lengths(rows), 1, p.index - 1) + SumOver(Lengths(rows), p.index, i - 1)
    BY <2>0, <2>1, SumSplit
  <2>4. /\ SumOver(Counts(rows), 1, p.index - 1) \in Int /\ SumOver(Counts(rows), p.index, i - 1) \in Int
        /\ SumOver(Lengths(rows), 1, p.index - 1) \in Int /\ SumOver(Lengths(rows), p.index, i - 1) \in Int
    <3>1. /\ SumOver(Counts(rows), 1, p.index - 1) \in Int
          /\ SumOver(Lengths(rows), 1, p.index - 1) \in Int
      <4> DEFINE l == p.index - 1
      <4>1. l \in Int /\ \A k \in 1..l : Counts(rows)[k] \in Int /\ Lengths(rows)[k] \in Int
        BY <2>0, <2>1
      <4> HIDE DEF l
      <4>2. SumOver(Counts(rows), 1, l) \in Int /\ SumOver(Lengths(rows), 1, l) \in Int
        BY <4>1, SumInt
      <4> QED
        BY <4>2 DEF l
    <3>2. /\ SumOver(Counts(rows), p.index, i - 1) \in Int
          /\ SumOver(Lengths(rows), p.index, i - 1) \in Int
      BY <2>0, <2>1, SumInt
    <3> QED
      BY <3>1, <3>2
  <2> QED
    BY <2>2, <2>3, <2>4 DEF IsPosition, SidAt, Elapsed
<1>3. found = Reaching(rows, id)
  <2>1. ASSUME NEW i \in 1..Len(rows), id <= SidAt(rows, i) + rows[i].n - 1
        PROVE  i >= p.index
    <3> SUFFICES ASSUME i < p.index
                 PROVE  FALSE
      BY <1>1
    <3>1. SidAt(rows, i) + rows[i].n <= p.sid
      BY <1>1, SidMonotone DEF IsPosition
    <3>2. SidAt(rows, i) \in Nat /\ rows[i].n \in Nat
      BY <1>0
    <3> QED
      BY <1>1, <2>1, <3>1, <3>2, SMTT(30)
  <2> QED
    BY <1>0, <1>1, <1>2, <2>1 DEF Reaching
<1>4. RowFrom(rows, p, id) = IF found = {} THEN [index |-> 0, sid |-> 0, elapsed |-> 0]
                             ELSE [index |-> Min(found), sid |-> sid(Min(found)), elapsed |-> time(Min(found))]
  BY DEF RowFrom
<1>5. found # {} => Min(found) \in p.index..Len(rows)
  <2>1. found # {} => Min(found) \in found
    BY <1>3, ReachingMin
  <2> QED
    BY <2>1
<1> HIDE DEF found, sid, time
<1> QED
  BY <1>2, <1>3, <1>4, <1>5 DEF RowOf

\* What a table says of its first rows does not depend on the rows after them.
LEMMA SameStart ==
  ASSUME NEW rows \in Seq(Row), NEW other \in Seq(Row), NEW i \in Int,
         i - 1 <= Len(rows), i - 1 <= Len(other), \A k \in 1..(i - 1) : other[k] = rows[k]
  PROVE  SidAt(other, i) = SidAt(rows, i) /\ Elapsed(other, i) = Elapsed(rows, i)
<1>1. \A k \in 1..(i - 1) : k \in 1..Len(rows) /\ k \in 1..Len(other)
  OBVIOUS
<1>2. \A k \in 1..(i - 1) : Counts(other)[k] = Counts(rows)[k] /\ Lengths(other)[k] = Lengths(rows)[k]
  <2>1. \A k \in 1..Len(rows) :
          Counts(rows)[k] = rows[k].n /\ Lengths(rows)[k] = (rows[k].n * rows[k].v) % Span
    BY RowTypes
  <2>2. \A k \in 1..Len(other) :
          Counts(other)[k] = other[k].n /\ Lengths(other)[k] = (other[k].n * other[k].v) % Span
    BY RowTypes
  <2> QED
    BY <1>1, <2>1, <2>2
<1>3. i - 1 \in Int
  OBVIOUS
<1>4. /\ SumOver(Counts(other), 1, i - 1) = SumOver(Counts(rows), 1, i - 1)
      /\ SumOver(Lengths(other), 1, i - 1) = SumOver(Lengths(rows), 1, i - 1)
  BY <1>2, <1>3, SumEqual
<1> QED
  BY <1>4 DEF SidAt, Elapsed

(***************************************************************************)
(* A table stands for the values of count samples.                         *)
(***************************************************************************)

RunsOf(rows, count, value) ==
  /\ rows \in Seq(Row) /\ count = Total(rows)
  /\ \A i \in 1..Len(rows) : \A id \in SidAt(rows, i)..(SidAt(rows, i) + rows[i].n - 1) :
       value[id] = rows[i].v

LEMMA RunsCount ==
  ASSUME NEW rows, NEW count, NEW value, RunsOf(rows, count, value)
  PROVE  /\ rows \in Seq(Row) /\ count \in Nat
         /\ SidAt(rows, Len(rows) + 1) = count + 1
         /\ \A i \in 1..Len(rows) :
              /\ SidAt(rows, i) \in Nat \ {0} /\ rows[i].n \in Nat \ {0}
              /\ SidAt(rows, i) + rows[i].n - 1 <= count
<1>1. rows \in Seq(Row) /\ count = Total(rows)
  BY DEF RunsOf
<1>2. Len(rows) \in Nat /\ \A i \in 1..Len(rows) : i \in 1..(Len(rows) + 1) /\ rows[i].n \in Nat \ {0}
  BY <1>1, RowTypes
<1>3. \A k \in 1..Len(rows) : Counts(rows)[k] \in Nat
  BY <1>1, RowTypes
<1>4. count \in Nat
  BY <1>1, <1>2, <1>3, SumNat DEF Total
<1>5. SidAt(rows, Len(rows) + 1) = count + 1
  BY <1>1, SidStep
<1>6. ASSUME NEW i \in 1..Len(rows)
      PROVE  SidAt(rows, i) \in Nat \ {0} /\ SidAt(rows, i) + rows[i].n - 1 <= count
  <2>1. SidAt(rows, i) \in Nat \ {0} /\ rows[i].n \in Nat
    BY <1>1, <1>2, SidStep
  <2>2. SidAt(rows, i) + rows[i].n <= SidAt(rows, Len(rows) + 1)
    <3>1. Len(rows) + 1 \in 1..(Len(rows) + 1) /\ i < Len(rows) + 1
      BY <1>2
    <3> QED
      BY <1>1, <3>1, SidMonotone
  <2> QED
    BY <1>4, <1>5, <2>1, <2>2
<1> QED
  BY <1>1, <1>2, <1>4, <1>5, <1>6

LEMMA RunsOther ==
  ASSUME NEW rows, NEW count, NEW value, RunsOf(rows, count, value),
         NEW other, \A id \in 1..count : other[id] = value[id]
  PROVE  RunsOf(rows, count, other)
<1> SUFFICES ASSUME NEW i \in 1..Len(rows),
                    NEW id \in SidAt(rows, i)..(SidAt(rows, i) + rows[i].n - 1)
             PROVE  other[id] = rows[i].v
  BY DEF RunsOf
<1>1. id \in 1..count
  <2>1. /\ count \in Nat /\ SidAt(rows, i) \in Nat \ {0} /\ rows[i].n \in Nat
        /\ SidAt(rows, i) + rows[i].n - 1 <= count
    BY RunsCount
  <2> QED
    BY <2>1
<1> QED
  BY <1>1 DEF RunsOf

LEMMA RunsNone ==
  ASSUME NEW value
  PROVE  RunsOf(<<>>, 0, value)
<1>1. <<>> \in Seq(Row) /\ Len(<<>>) = 0
  BY EmptySeq
<1>2. Total(<<>>) = 0
  BY <1>1, SumEmpty DEF Total
<1> QED
  BY <1>1, <1>2 DEF RunsOf

LEMMA EmptyRuns ==
  ASSUME NEW rows, NEW count, NEW value, RunsOf(rows, count, value)
  PROVE  rows = <<>> <=> count = 0
<1>1. /\ rows \in Seq(Row) /\ count \in Nat /\ Len(rows) \in Nat
      /\ SidAt(rows, Len(rows) + 1) = count + 1
  BY RunsCount
<1>2. rows = <<>> => count = 0
  <2>1. Len(<<>>) + 1 = 1 /\ <<>> \in Seq(Row)
    BY EmptySeq
  <2>2. SidAt(<<>>, 1) = 1
    BY <2>1, SidStep
  <2> QED
    BY <1>1, <2>1, <2>2
<1>3. rows # <<>> => count # 0
  <2> SUFFICES ASSUME rows # <<>>
               PROVE  count # 0
    OBVIOUS
  <2>1. 1 \in 1..Len(rows)
    BY <1>1, EmptySeq
  <2>2. /\ SidAt(rows, 1) \in Nat \ {0} /\ rows[1].n \in Nat \ {0}
        /\ SidAt(rows, 1) + rows[1].n - 1 <= count
    BY <2>1, RunsCount
  <2> QED
    BY <2>2
<1> QED
  BY <1>2, <1>3

\* A row more.
LEMMA RunsAppend ==
  ASSUME NEW rows, NEW count, NEW value, RunsOf(rows, count, value),
         NEW row \in Row, NEW other, \A id \in 1..count : other[id] = value[id],
         \A id \in (count + 1)..(count + row.n) : other[id] = row.v
  PROVE  RunsOf(rows \o <<row>>, count + row.n, other)
<1> DEFINE new == rows \o <<row>>
           l   == Len(rows)
<1>1. /\ rows \in Seq(Row) /\ count \in Nat /\ l \in Nat /\ row.n \in Nat \ {0}
      /\ SidAt(rows, l + 1) = count + 1
  <2>1. row.n \in Nat \ {0}
    BY DEF Row
  <2>2. rows \in Seq(Row) /\ count \in Nat /\ SidAt(rows, Len(rows) + 1) = count + 1
    BY RunsCount
  <2> QED
    BY <2>1, <2>2, LenProperties
<1>2. /\ new \in Seq(Row) /\ Len(new) = l + 1
      /\ \A k \in 1..l : new[k] = rows[k]
      /\ new[l + 1] = row
  <2>1. <<row>> \in Seq(Row)
    OBVIOUS
  <2> QED
    BY <1>1, <2>1, ConcatProperties
<1>3. ASSUME NEW i \in 1..(l + 1)
      PROVE  SidAt(new, i) = SidAt(rows, i)
  <2>1. i \in Int /\ i - 1 <= l /\ i - 1 <= Len(new) /\ \A k \in 1..(i - 1) : new[k] = rows[k]
    BY <1>1, <1>2
  <2> HIDE DEF new
  <2> QED
    BY <1>1, <1>2, <2>1, SameStart
<1>4. RunsOf(rows, count, other)
  BY RunsOther
<1> HIDE DEF new, l
<1>5. SidAt(new, l + 1) = count + 1
  BY <1>1, <1>3
<1>6. Total(new) = count + row.n
  <2>1. l + 1 \in 1..Len(new) /\ Len(new) \in Nat
    BY <1>1, <1>2
  <2>2. SidAt(new, l + 1 + 1) = SidAt(new, l + 1) + row.n
    BY <1>2, <2>1, SidStep
  <2>3. SidAt(new, l + 1 + 1) = Total(new) + 1
    BY <1>2, SidStep
  <2>4. Total(new) \in Nat
    <3>1. \A k \in 1..Len(new) : Counts(new)[k] \in Nat
      BY <1>2, RowTypes
    <3> QED
      BY <2>1, <3>1, SumNat DEF Total
  <2> QED
    BY <1>1, <1>5, <2>2, <2>3, <2>4, SMTT(30)
<1>7. ASSUME NEW i \in 1..Len(new), NEW id \in SidAt(new, i)..(SidAt(new, i) + new[i].n - 1)
      PROVE  other[id] = new[i].v
  <2>1. CASE i \in 1..l
    BY <1>1, <1>2, <1>3, <1>4, <2>1 DEF RunsOf, l
  <2>2. CASE i = l + 1
    <3>1. new[i] = row /\ SidAt(new, i) = count + 1
      BY <1>2, <1>5, <2>2
    <3>2. id \in (count + 1)..(count + 1 + row.n - 1)
      BY <3>1
    <3>3. id \in (count + 1)..(count + row.n)
      BY <1>1, <3>2
    <3> QED
      BY <3>1, <3>3
  <2> QED
    BY <1>1, <1>2, <2>1, <2>2
<1>8. RunsOf(new, count + row.n, other)
  BY <1>2, <1>6, <1>7 DEF RunsOf
<1> QED
  BY <1>8 DEF new

\* Rows of a table put after others.
LEMMA RunsCopied ==
  ASSUME NEW rows, NEW count, NEW value, RunsOf(rows, count, value),
         NEW other, NEW start, NEW j \in 1..(Len(rows) + 1), NEW k \in (j - 1)..Len(rows),
         RunsOf(start, SidAt(rows, j) - 1, other),
         \A id \in SidAt(rows, j)..(SidAt(rows, k + 1) - 1) : other[id] = value[id]
  PROVE  RunsOf(start \o SubSeq(rows, j, k), SidAt(rows, k + 1) - 1, other)
<1> DEFINE upto(i) == start \o SubSeq(rows, j, i)
           S == {i \in Int : i <= k => RunsOf(upto(i), SidAt(rows, i + 1) - 1, other)}
<1>1. /\ rows \in Seq(Row) /\ start \in Seq(Row) /\ Len(rows) \in Nat
      /\ j \in Int /\ k \in Int /\ 1 <= j /\ j - 1 <= k /\ k <= Len(rows)
  <2>1. rows \in Seq(Row) /\ start \in Seq(Row)
    BY RunsCount
  <2> QED
    BY <2>1, LenProperties
<1>2. j - 1 \in S
  <2>1. SubSeq(rows, j, j - 1) = <<>>
    BY <1>1, SubSeqEmpty
  <2>2. upto(j - 1) = start
    BY <1>1, <2>1, ConcatEmptySeq
  <2>3. j - 1 + 1 = j /\ j - 1 \in Int
    BY <1>1
  <2> HIDE DEF upto
  <2>4. RunsOf(upto(j - 1), SidAt(rows, j - 1 + 1) - 1, other)
    BY <2>2, <2>3
  <2> QED
    BY <2>3, <2>4
<1>3. ASSUME NEW i \in Int, i >= j, i - 1 \in S
      PROVE  i \in S
  <2> SUFFICES ASSUME i <= k
               PROVE  RunsOf(upto(i), SidAt(rows, i + 1) - 1, other)
    OBVIOUS
  <2>1. i \in 1..Len(rows) /\ j \in 1..Len(rows) /\ i \in j..Len(rows) /\ i - 1 + 1 = i /\ i - 1 <= k
    BY <1>1, <1>3
  <2>2. RunsOf(upto(i - 1), SidAt(rows, i) - 1, other)
    BY <1>3, <2>1
  <2>3. upto(i) = upto(i - 1) \o <<rows[i]>>
    <3>1. SubSeq(rows, j, i) = SubSeq(rows, j, i - 1) \o <<rows[i]>>
      BY <1>1, <2>1, SubSeqRecursiveSecond
    <3>2. rows[i] \in Row
      BY <1>1, <2>1, ElementOfSeq
    <3>3. SubSeq(rows, j, i - 1) \in Seq(Row) /\ <<rows[i]>> \in Seq(Row)
      <4>1. \A n \in j..(i - 1) : rows[n] \in Row
        BY <1>1, <2>1, ElementOfSeq
      <4> QED
        BY <1>1, <2>1, <3>2, <4>1, SubSeqProperties
    <3>4. start \o (SubSeq(rows, j, i - 1) \o <<rows[i]>>) = (start \o SubSeq(rows, j, i - 1)) \o <<rows[i]>>
      <4> DEFINE s == SubSeq(rows, j, i - 1)
                 u == <<rows[i]>>
      <4> HIDE DEF s, u
      <4>1. start \in Seq(Row) /\ s \in Seq(Row) /\ u \in Seq(Row)
        BY <1>1, <3>3 DEF s, u
      <4>2. start \o (s \o u) = (start \o s) \o u
        BY <4>1, ConcatAssociative, SMTT(30)
      <4> QED
        BY <4>2 DEF s, u
    <3> QED
      BY <3>1, <3>4
  <2>4. /\ SidAt(rows, i) \in Nat \ {0} /\ rows[i].n \in Nat \ {0} /\ rows[i] \in Row
        /\ SidAt(rows, i + 1) = SidAt(rows, i) + rows[i].n
    BY <1>1, <2>1, RunsCount, SidStep, RowTypes
  <2>5. SidAt(rows, i + 1) <= SidAt(rows, k + 1) /\ SidAt(rows, j) <= SidAt(rows, i)
    <3>1. /\ \A n \in j..(i - 1) : Counts(rows)[n] \in Nat
          /\ \A n \in 1..k : Counts(rows)[n] \in Nat
          /\ \A n \in 1..(i - 1) : Counts(rows)[n] \in Nat
      <4>1. \A n \in 1..Len(rows) : Counts(rows)[n] \in Nat
        BY <1>1, RowTypes
      <4> QED
        BY <1>1, <2>1, <4>1
    <3>2. /\ SumOver(Counts(rows), 1, i) <= SumOver(Counts(rows), 1, k)
          /\ SumOver(Counts(rows), 1, i) \in Nat /\ SumOver(Counts(rows), 1, k) \in Nat
      <4>1. \A n \in 1..i : Counts(rows)[n] \in Nat
        BY <1>1, <2>1, <3>1
      <4> QED
        BY <1>1, <2>1, <3>1, <4>1, SumPart, SumNat
    <3>3. /\ SumOver(Counts(rows), 1, j - 1) <= SumOver(Counts(rows), 1, i - 1)
          /\ SumOver(Counts(rows), 1, j - 1) \in Nat /\ SumOver(Counts(rows), 1, i - 1) \in Nat
      <4>1. /\ \A n \in 1..(j - 1) : Counts(rows)[n] \in Nat
            /\ j - 1 \in Int /\ i - 1 \in Int /\ j - 1 <= i - 1
        BY <1>1, <1>3, <3>1
      <4> QED
        BY <3>1, <4>1, SumPart, SumNat
    <3>4. i + 1 - 1 = i /\ k + 1 - 1 = k
      BY <1>1
    <3> QED
      BY <3>2, <3>3, <3>4 DEF SidAt
  <2>6. \A id \in SidAt(rows, i)..(SidAt(rows, i + 1) - 1) : other[id] = rows[i].v
    <3>1. \A id \in SidAt(rows, i)..(SidAt(rows, i) + rows[i].n - 1) : value[id] = rows[i].v
      BY <2>1 DEF RunsOf
    <3>2. SidAt(rows, j) \in Int /\ SidAt(rows, k + 1) \in Int
      <4>1. j \in 1..(Len(rows) + 1) /\ k + 1 \in 1..(Len(rows) + 1)
        BY <1>1
      <4> QED
        BY <1>1, <4>1, SidStep
    <3> TAKE id \in SidAt(rows, i)..(SidAt(rows, i + 1) - 1)
    <3>3. id \in SidAt(rows, i)..(SidAt(rows, i) + rows[i].n - 1)
      BY <2>4
    <3>4. id \in SidAt(rows, j)..(SidAt(rows, k + 1) - 1)
      <4> DEFINE a == SidAt(rows, j)
                 b == SidAt(rows, i)
                 e == SidAt(rows, i + 1)
                 z == SidAt(rows, k + 1)
      <4>1. a \in Int /\ b \in Int /\ e \in Int /\ z \in Int /\ a <= b /\ e <= z /\ id \in b..(e - 1)
        BY <2>4, <2>5, <3>2, SMTT(30)
      <4> HIDE DEF a, b, e, z
      <4>2. id \in a..(z - 1)
        BY <4>1
      <4> QED
        BY <4>2 DEF a, z
    <3> QED
      BY <3>1, <3>3, <3>4
  <2> DEFINE c == SidAt(rows, i) - 1
  <2>7. c + rows[i].n = SidAt(rows, i + 1) - 1 /\ c + 1 = SidAt(rows, i)
    BY <2>4
  <2>8. RunsOf(upto(i - 1) \o <<rows[i]>>, c + rows[i].n, other)
    <3>1. \A id \in (c + 1)..(c + rows[i].n) : other[id] = rows[i].v
      BY <2>6, <2>7
    <3>2. RunsOf(upto(i - 1), c, other)
      BY <2>2
    <3> HIDE DEF c, upto
    <3> QED
      BY <2>4, <3>1, <3>2, RunsAppend
  <2> HIDE DEF upto, c
  <2> QED
    BY <2>3, <2>7, <2>8
<1> HIDE DEF S, upto
<1>4. k \in S
  BY <1>1, <1>2, <1>3, SumInduction
<1> QED
  BY <1>1, <1>4 DEF S, upto

\* A row longer by one.
LEMMA RunsGrow ==
  ASSUME NEW rows, NEW count, NEW value, RunsOf(rows, count, value), rows # <<>>,
         NEW other, \A id \in 1..count : other[id] = value[id],
         other[count + 1] = rows[Len(rows)].v
  PROVE  RunsOf([rows EXCEPT ![Len(rows)].n = @ + 1], count + 1, other)
<1> DEFINE l    == Len(rows)
           row  == [rows[l] EXCEPT !.n = @ + 1]
           most == SubSeq(rows, 1, l - 1)
           sid  == SidAt(rows, l)
<1>1. rows \in Seq(Row) /\ l \in Nat \ {0} /\ l \in 1..l /\ rows[l] \in Row
  <2>1. rows \in Seq(Row)
    BY RunsCount
  <2>2. l \in Nat \ {0}
    BY <2>1, EmptySeq
  <2> QED
    BY <2>1, <2>2, ElementOfSeq
<1>2. row \in Row /\ row.n = rows[l].n + 1 /\ row.v = rows[l].v /\ rows[l].n \in Nat
  <2>1. ASSUME NEW r \in Row
        PROVE  LET longer == [r EXCEPT !.n = @ + 1]
               IN longer \in Row /\ longer.n = r.n + 1 /\ longer.v = r.v /\ r.n \in Nat
    BY DEF Row
  <2> QED
    BY <1>1, <2>1
<1>3. sid \in Nat \ {0} /\ sid + rows[l].n = count + 1 /\ count \in Nat
  <2>1. SidAt(rows, l + 1) = SidAt(rows, l) + rows[l].n
    BY <1>1, SidStep
  <2> QED
    BY <1>1, <2>1, RunsCount
<1>4. RunsOf(most, sid - 1, other)
  <2>1. /\ 1 \in 1..(Len(rows) + 1) /\ l - 1 \in (1 - 1)..Len(rows) /\ l - 1 + 1 = l
        /\ SidAt(rows, 1) - 1 = 0
    <3>1. SidAt(rows, 1) = 1
      BY <1>1, SidStep
    <3> QED
      BY <1>1, <3>1
  <2>2. \A id \in SidAt(rows, 1)..(SidAt(rows, l - 1 + 1) - 1) : other[id] = value[id]
    <3>1. SidAt(rows, 1) = 1
      BY <1>1, SidStep
    <3> QED
      BY <1>2, <1>3, <2>1, <3>1
  <2>3. RunsOf(<<>>, SidAt(rows, 1) - 1, other)
    BY <2>1, RunsNone
  <2>4. RunsOf(<<>> \o SubSeq(rows, 1, l - 1), SidAt(rows, l - 1 + 1) - 1, other)
    <3> DEFINE m == l - 1
    <3> SUFFICES RunsOf(<<>> \o SubSeq(rows, 1, m), SidAt(rows, m + 1) - 1, other)
      OBVIOUS
    <3>1. m \in (1 - 1)..Len(rows) /\ \A id \in SidAt(rows, 1)..(SidAt(rows, m + 1) - 1) : other[id] = value[id]
      BY <2>1, <2>2
    <3> HIDE DEF m, l
    <3> QED
      BY <2>1, <2>3, <3>1, RunsCopied
  <2>5. <<>> \o most = most
    <3>1. most \in Seq(Row)
      <4>1. \A n \in 1..(l - 1) : rows[n] \in Row
        BY <1>1, ElementOfSeq
      <4> QED
        BY <1>1, <4>1, SubSeqProperties
    <3> QED
      BY <3>1, ConcatEmptySeq
  <2> QED
    BY <2>1, <2>4, <2>5
<1>5. \A id \in sid..(sid + rows[l].n) : other[id] = rows[l].v
  <2>1. \A id \in sid..(sid + rows[l].n - 1) : value[id] = rows[l].v
    BY <1>1 DEF RunsOf
  <2> QED
    BY <1>2, <1>3, <2>1
<1>6. RunsOf(most \o <<row>>, count + 1, other)
  <2> DEFINE c == sid - 1
  <2>1. c + row.n = count + 1 /\ \A id \in (c + 1)..(c + row.n) : other[id] = row.v
    BY <1>2, <1>3, <1>5
  <2>2. RunsOf(most, c, other)
    BY <1>4
  <2> HIDE DEF c, most, row
  <2>3. RunsOf(most \o <<row>>, c + row.n, other)
    BY <1>2, <2>1, <2>2, RunsAppend
  <2> QED
    BY <2>1, <2>3
<1>7. most \o <<row>> = [rows EXCEPT ![l].n = @ + 1]
  <2> DEFINE new == [rows EXCEPT ![l] = row]
  <2>1. new = [rows EXCEPT ![l].n = @ + 1]
    OBVIOUS
  <2>2. /\ new \in Seq(Row) /\ Len(new) = l
        /\ \A i \in 1..l : new[i] = IF i = l THEN row ELSE rows[i]
    <3> HIDE DEF row
    <3> QED
      BY <1>1, <1>2, ExceptSeq
  <2>3. /\ most \in Seq(Row) /\ Len(most) = l - 1
        /\ \A i \in 1..(l - 1) : most[i] = rows[i]
    <3>1. \A n \in 1..(l - 1) : rows[n] \in Row
      BY <1>1, ElementOfSeq
    <3>2. /\ most \in Seq(Row) /\ Len(most) = (IF 1 <= l - 1 THEN l - 1 - 1 + 1 ELSE 0)
          /\ \A i \in 1..(l - 1 - 1 + 1) : most[i] = rows[1 + i - 1]
      BY <1>1, <3>1, SubSeqProperties
    <3> HIDE DEF most, l
    <3> QED
      BY <1>1, <3>2
  <2>4. /\ <<row>> \in Seq(Row) /\ Len(<<row>>) = 1 /\ <<row>>[1] = row
    <3> HIDE DEF row
    <3> QED
      BY <1>2
  <2> HIDE DEF new, most, row
  <2>5. /\ most \o <<row>> \in Seq(Row) /\ Len(most \o <<row>>) = l
        /\ \A i \in 1..l : (most \o <<row>>)[i] = IF i = l THEN row ELSE rows[i]
    <3>1. /\ most \o <<row>> \in Seq(Row) /\ Len(most \o <<row>>) = Len(most) + 1
          /\ \A i \in 1..(Len(most) + 1) : (most \o <<row>>)[i] =
               IF i <= Len(most) THEN most[i] ELSE <<row>>[i - Len(most)]
      BY <2>3, <2>4, ConcatProperties
    <3> QED
      BY <1>1, <2>3, <2>4, <3>1
  <2>6. most \o <<row>> = new
    BY <2>2, <2>5, SeqEqual
  <2> QED
    BY <2>1, <2>6
<1> QED
  BY <1>6, <1>7

\* AddToRows: the value of one sample more, in 32 bits.
LEMMA RunsAdd ==
  ASSUME NEW rows, NEW count, NEW value, RunsOf(rows, count, value),
         NEW v \in Nat, NEW other, \A id \in 1..count : other[id] = value[id],
         other[count + 1] = v % Span
  PROVE  RunsOf(AddToRows(rows, v), count + 1, other)
<1>1. rows \in Seq(Row) /\ count \in Nat /\ Span \in Nat \ {0}
  BY RunsCount, Mp4Assumption
<1>2. CASE rows # <<>> /\ v = Last(rows).v
  <2>1. Len(rows) \in 1..Len(rows) /\ Last(rows) = rows[Len(rows)]
    BY <1>1, <1>2, EmptySeq DEF Last
  <2>2. rows[Len(rows)].v \in 0..(Span - 1)
    BY <1>1, <2>1, RowTypes
  <2>3. other[count + 1] = rows[Len(rows)].v
    BY <1>1, <1>2, <2>1, <2>2
  <2>4. RunsOf([rows EXCEPT ![Len(rows)].n = @ + 1], count + 1, other)
    BY <1>2, <2>3, RunsGrow
  <2> QED
    BY <1>2, <2>4 DEF AddToRows
<1>3. CASE ~(rows # <<>> /\ v = Last(rows).v)
  <2> DEFINE row == [n |-> 1, v |-> v % Span]
  <2>1. row \in Row /\ row.n = 1 /\ row.v = v % Span
    BY <1>1 DEF Row
  <2>2. AddToRows(rows, v) = rows \o <<row>>
    <3>1. AddToRows(rows, v) = Append(rows, row)
      BY <1>3 DEF AddToRows
    <3> HIDE DEF row
    <3> QED
      BY <1>1, <2>1, <3>1, AppendIsConcat
  <2> HIDE DEF row
  <2>3. \A id \in (count + 1)..(count + row.n) : other[id] = row.v
    BY <1>1, <2>1
  <2>4. RunsOf(rows \o <<row>>, count + row.n, other)
    BY <2>1, <2>3, RunsAppend
  <2> QED
    BY <2>1, <2>2, <2>4
<1> QED
  BY <1>2, <1>3

\* A row of n samples, if any.
Run(n, v) == IF n > 0 THEN <<[n |-> n, v |-> v]>> ELSE <<>>

LEMMA RunsRun ==
  ASSUME NEW rows, NEW count, NEW value, RunsOf(rows, count, value),
         NEW n \in Nat, NEW v \in 0..(Span - 1),
         \A id \in (count + 1)..(count + n) : value[id] = v
  PROVE  RunsOf(rows \o Run(n, v), count + n, value)
<1>1. rows \in Seq(Row) /\ count \in Nat
  BY RunsCount
<1>2. CASE n = 0
  <2>1. Run(n, v) = <<>> /\ rows \o <<>> = rows /\ count + n = count
    BY <1>1, <1>2, ConcatEmptySeq DEF Run
  <2> QED
    BY <2>1
<1>3. CASE n # 0
  <2> DEFINE row == [n |-> n, v |-> v]
  <2>1. row \in Row /\ row.n = n /\ row.v = v /\ Run(n, v) = <<row>>
    BY <1>3 DEF Row, Run
  <2> HIDE DEF row
  <2>2. RunsOf(rows \o <<row>>, count + row.n, value)
    BY <2>1, RunsAppend
  <2> QED
    BY <2>1, <2>2
<1> QED
  BY <1>2, <1>3

\* Split: the value of one sample changes.
LEMMA RunsSplit ==
  ASSUME NEW rows, NEW count, NEW value, RunsOf(rows, count, value),
         NEW row, row.index \in 1..Len(rows), row.sid = SidAt(rows, row.index),
         NEW id \in row.sid..(row.sid + rows[row.index].n - 1), NEW o \in Nat,
         NEW other, other[id] = o % Span, \A k \in 1..count : k # id => other[k] = value[k]
  PROVE  RunsOf(Split(rows, row, id, o), count, other)
<1> DEFINE i == row.index
           sid == row.sid
           n == rows[i].n
           v == rows[i].v
           l == Len(rows)
           p1 == SubSeq(rows, 1, i - 1)
           p2 == p1 \o Run(id - sid, v)
           p3 == p2 \o Run(1, o % Span)
           p4 == p3 \o Run(sid + n - 1 - id, v)
           p5 == p4 \o SubSeq(rows, i + 1, l)
<1>1. Split(rows, row, id, o) = p5
  BY DEF Split, Run
<1>2. /\ rows \in Seq(Row) /\ l \in Nat /\ i \in 1..l /\ rows[i] \in Row
      /\ n \in Nat \ {0} /\ v \in 0..(Span - 1) /\ o % Span \in 0..(Span - 1)
      /\ sid \in Nat \ {0} /\ sid + n - 1 <= count /\ count \in Nat
  <2>1. rows \in Seq(Row)
    BY RunsCount
  <2>2. l \in Nat /\ rows[i] \in Row /\ n \in Nat \ {0} /\ v \in 0..(Span - 1)
    BY <2>1, RowTypes
  <2>3. sid \in Nat \ {0} /\ sid + n - 1 <= count /\ count \in Nat
    BY RunsCount
  <2>4. o % Span \in 0..(Span - 1)
    BY Mp4Assumption
  <2> QED
    BY <2>1, <2>2, <2>3, <2>4
<1>3. SidAt(rows, i + 1) = sid + n /\ SidAt(rows, 1) = 1 /\ SidAt(rows, l + 1) = count + 1
  BY <1>2, SidStep, RunsCount
<1>4. /\ id \in Nat /\ sid <= id /\ id <= sid + n - 1
      /\ \A k \in sid..(sid + n - 1) : value[k] = v
      /\ i - 1 + 1 = i /\ sid = SidAt(rows, i) /\ l = Len(rows)
  BY <1>2, SMTT(30) DEF RunsOf
<1> HIDE DEF i, sid, n, v, l
<1>5. RunsOf(p1, sid - 1, other)
  <2> DEFINE m == i - 1
  <2>1. /\ 1 \in 1..(Len(rows) + 1) /\ m \in (1 - 1)..Len(rows) /\ SidAt(rows, m + 1) = sid
        /\ SidAt(rows, 1) - 1 = 0
    BY <1>2, <1>3, <1>4, SMTT(30)
  <2>2. \A k \in SidAt(rows, 1)..(SidAt(rows, m + 1) - 1) : other[k] = value[k]
    <3>1. \A k \in 1..(sid - 1) : k \in 1..count /\ k # id
      BY <1>2, <1>4
    <3>2. \A k \in 1..(sid - 1) : other[k] = value[k]
      BY <3>1
    <3> QED
      BY <1>3, <2>1, <3>2
  <2>3. RunsOf(<<>>, SidAt(rows, 1) - 1, other)
    BY <2>1, RunsNone
  <2> HIDE DEF m
  <2>4. RunsOf(<<>> \o SubSeq(rows, 1, m), SidAt(rows, m + 1) - 1, other)
    BY <2>1, <2>2, <2>3, RunsCopied
  <2>5. SubSeq(rows, 1, m) \in Seq(Row)
    <3>1. \A k \in 1..m : rows[k] \in Row
      BY <1>2, <2>1, ElementOfSeq DEF l
    <3> QED
      BY <1>2, <2>1, <3>1, SubSeqProperties DEF l
  <2> QED
    BY <2>1, <2>4, <2>5, ConcatEmptySeq DEF m
<1> HIDE DEF p1
<1>6. RunsOf(p2, id - 1, other)
  <2> DEFINE c == sid - 1
             m == id - sid
  <2>1. m \in Nat /\ c + m = id - 1 /\ \A k \in (c + 1)..(c + m) : other[k] = v
    <3>1. m \in Nat /\ c + m = id - 1 /\ c + 1 = sid
      BY <1>2, <1>4, SMTT(30)
    <3>2. \A k \in sid..(id - 1) : k \in 1..count /\ k # id /\ k \in sid..(sid + n - 1)
      BY <1>2, <1>4
    <3>3. \A k \in sid..(id - 1) : other[k] = v
      BY <1>4, <3>2
    <3> QED
      BY <3>1, <3>3
  <2>2. RunsOf(p1, c, other)
    BY <1>5
  <2> HIDE DEF c, m
  <2>3. RunsOf(p1 \o Run(m, v), c + m, other)
    BY <1>2, <2>1, <2>2, RunsRun
  <2> QED
    BY <2>1, <2>3 DEF m
<1> HIDE DEF p2
<1>7. RunsOf(p3, id, other)
  <2> DEFINE c == id - 1
  <2>1. c + 1 = id /\ \A k \in (c + 1)..(c + 1) : other[k] = o % Span
    BY <1>4
  <2>2. RunsOf(p2, c, other)
    BY <1>6
  <2> HIDE DEF c
  <2>3. RunsOf(p2 \o Run(1, o % Span), c + 1, other)
    BY <1>2, <2>1, <2>2, RunsRun
  <2> QED
    BY <2>1, <2>3
<1> HIDE DEF p3
<1>8. RunsOf(p4, SidAt(rows, i + 1) - 1, other)
  <2> DEFINE m == sid + n - 1 - id
  <2>1. m \in Nat /\ id + m = SidAt(rows, i + 1) - 1 /\ \A k \in (id + 1)..(id + m) : other[k] = v
    <3>1. m \in Nat /\ id + m = sid + n - 1
      BY <1>2, <1>4, SMTT(30)
    <3>2. \A k \in (id + 1)..(sid + n - 1) : k \in 1..count /\ k # id /\ k \in sid..(sid + n - 1)
      BY <1>2, <1>4
    <3>3. \A k \in (id + 1)..(sid + n - 1) : other[k] = v
      BY <1>4, <3>2
    <3> HIDE DEF m
    <3>4. id + m = SidAt(rows, i + 1) - 1
      BY <1>2, <1>3, <1>4, <3>1, SMTT(30)
    <3> QED
      BY <3>1, <3>3, <3>4
  <2> HIDE DEF m
  <2>2. RunsOf(p3 \o Run(m, v), id + m, other)
    BY <1>2, <1>7, <2>1, RunsRun
  <2> QED
    BY <2>1, <2>2 DEF m
<1> HIDE DEF p4
<1>9. RunsOf(p5, count, other)
  <2> DEFINE j == i + 1
  <2>1. j \in 1..(Len(rows) + 1) /\ l \in (j - 1)..Len(rows)
    BY <1>2 DEF l
  <2>2. \A k \in SidAt(rows, j)..(SidAt(rows, l + 1) - 1) : other[k] = value[k]
    BY <1>2, <1>3, <1>4, SMTT(30)
  <2>3. RunsOf(p4, SidAt(rows, j) - 1, other)
    BY <1>8
  <2> HIDE DEF j
  <2>4. RunsOf(p4 \o SubSeq(rows, j, l), SidAt(rows, l + 1) - 1, other)
    BY <2>1, <2>2, <2>3, RunsCopied
  <2>5. SidAt(rows, l + 1) - 1 = count
    BY <1>2, <1>3
  <2> QED
    BY <2>4, <2>5 DEF j
<1> QED
  BY <1>1, <1>9

\* The row that a search finds has the value of the sample.
LEMMA RunsLookup ==
  ASSUME NEW rows, NEW count, NEW value, RunsOf(rows, count, value), NEW id \in 1..count
  PROVE  LET row == RowOf(rows, id)
         IN /\ row.index \in 1..Len(rows) /\ row.index = Min(Reaching(rows, id))
            /\ row.sid = SidAt(rows, row.index) /\ row.elapsed = Elapsed(rows, row.index)
            /\ id \in row.sid..(row.sid + rows[row.index].n - 1)
            /\ rows[row.index].v = value[id]
<1> DEFINE R == Reaching(rows, id)
           i == Min(R)
<1>1. rows \in Seq(Row) /\ count \in Nat /\ count = Total(rows)
  BY RunsCount DEF RunsOf
<1>2. id \in Int /\ id <= Total(rows) /\ id >= 1 /\ rows # <<>>
  BY <1>1, EmptyRuns
<1>3. R # {} /\ i \in R /\ SidAt(rows, i) <= id
  BY <1>1, <1>2, ReachingMin
<1>4. i \in 1..Len(rows) /\ id <= SidAt(rows, i) + rows[i].n - 1
  BY <1>3 DEF Reaching
<1>5. SidAt(rows, i) \in Nat /\ rows[i].n \in Nat
  BY <1>4, RunsCount
<1>6. id \in SidAt(rows, i)..(SidAt(rows, i) + rows[i].n - 1)
  BY <1>2, <1>3, <1>4, <1>5
<1>7. rows[i].v = value[id]
  BY <1>4, <1>6 DEF RunsOf
<1>8. RowOf(rows, id) = [index |-> i, sid |-> SidAt(rows, i), elapsed |-> Elapsed(rows, i)]
  BY <1>3 DEF RowOf
<1> HIDE DEF i, R
<1>9. i = Min(Reaching(rows, id))
  BY DEF i, R
<1> QED
  BY <1>4, <1>6, <1>7, <1>8, <1>9

(***************************************************************************)
(* The cached position of a search.                                        *)
(***************************************************************************)

CacheOK(rows, cache) ==
  /\ cache = [index |-> cache.index, sid |-> cache.sid, elapsed |-> cache.elapsed]
  /\ cache.sid # 0 => /\ cache.index \in 1..Len(rows)
                      /\ cache.sid = SidAt(rows, cache.index)
                      /\ cache.elapsed = Elapsed(rows, cache.index)

LEMMA CachedIsPosition ==
  ASSUME NEW rows \in Seq(Row), NEW cache, CacheOK(rows, cache), NEW id \in Int
  PROVE  LET p == Cached(cache, id)
         IN IsPosition(rows, p) /\ (p.index = 1 \/ p.sid <= id)
<1>1. Len(rows) \in Nat /\ SidAt(rows, 1) = 1 /\ Elapsed(rows, 1) = 0
  BY SidStep, LenProperties
<1>2. CASE cache.sid # 0 /\ id >= cache.sid
  <2>1. Cached(cache, id) = cache
    BY <1>2 DEF Cached
  <2>2. cache.index \in 1..(Len(rows) + 1) /\ cache.sid \in Int
    <3>1. cache.index \in 1..(Len(rows) + 1)
      BY <1>1, <1>2 DEF CacheOK
    <3> QED
      BY <1>2, <3>1, SidStep DEF CacheOK
  <2> QED
    BY <1>2, <2>1, <2>2 DEF CacheOK, IsPosition
<1>3. CASE ~(cache.sid # 0 /\ id >= cache.sid)
  BY <1>1, <1>3 DEF Cached, FirstRow, IsPosition
<1> QED
  BY <1>2, <1>3

\* A search finds the same row with and without its cache.
LEMMA CachedSearch ==
  ASSUME NEW rows \in Seq(Row), NEW cache, CacheOK(rows, cache), NEW id \in Int
  PROVE  /\ RowFrom(rows, Cached(cache, id), id) = RowOf(rows, id)
         /\ RowFrom(rows, FirstRow, id) = RowOf(rows, id)
<1>1. RowFrom(rows, Cached(cache, id), id) = RowOf(rows, id)
  BY CachedIsPosition, RowFromIs
<1>2. IsPosition(rows, FirstRow) /\ FirstRow.index = 1
  <2>1. Len(rows) \in Nat /\ SidAt(rows, 1) = 1 /\ Elapsed(rows, 1) = 0
    BY SidStep, LenProperties
  <2> QED
    BY <2>1 DEF FirstRow, IsPosition
<1>3. RowFrom(rows, FirstRow, id) = RowOf(rows, id)
  BY <1>2, RowFromIs
<1> QED
  BY <1>1, <1>3

\* A search leaves a cache that is right, whether it finds the sample or not.
LEMMA CacheKept ==
  ASSUME NEW rows \in Seq(Row), NEW cache, CacheOK(rows, cache), NEW id \in Int
  PROVE  CacheOK(rows, CacheAfter(rows, cache, id))
<1> DEFINE row == RowOf(rows, id)
           p   == Cached(cache, id)
<1>1. CacheAfter(rows, cache, id) = IF row.index # 0 THEN row ELSE [cache EXCEPT !.index = p.index]
  BY CachedSearch DEF CacheAfter
<1>2. CASE Reaching(rows, id) # {}
  <2> DEFINE i == Min(Reaching(rows, id))
  <2>1. i \in 1..Len(rows)
    BY <1>2, ReachingMin DEF Reaching
  <2>2. row = [index |-> i, sid |-> SidAt(rows, i), elapsed |-> Elapsed(rows, i)]
    BY <1>2 DEF RowOf
  <2> HIDE DEF i, row
  <2>3. i # 0 /\ row.index = i
    BY <2>1, <2>2
  <2> QED
    BY <1>1, <2>1, <2>2, <2>3 DEF CacheOK
<1>3. CASE Reaching(rows, id) = {}
  <2>1. row.index = 0
    BY <1>3 DEF RowOf
  <2> DEFINE new == [cache EXCEPT !.index = p.index]
  <2>2. CacheAfter(rows, cache, id) = new
    BY <1>1, <2>1
  <2>3. new = [index |-> p.index, sid |-> cache.sid, elapsed |-> cache.elapsed]
    BY DEF CacheOK
  <2>4. CASE cache.sid = 0
    <3> HIDE DEF new
    <3> QED
      BY <2>2, <2>3, <2>4 DEF CacheOK
  <2>5. CASE cache.sid # 0
    <3>1. cache.index \in 1..Len(rows) /\ cache.sid = SidAt(rows, cache.index)
      BY <2>5 DEF CacheOK
    <3>2. ~ (id <= SidAt(rows, cache.index) + rows[cache.index].n - 1)
      BY <1>3, <3>1 DEF Reaching
    <3>3. SidAt(rows, cache.index) \in Nat /\ rows[cache.index].n \in Nat
      <4>1. cache.index \in 1..(Len(rows) + 1)
        BY <3>1, LenProperties
      <4> QED
        BY <3>1, <4>1, SidStep, RowTypes
    <3>4. id >= cache.sid
      BY <3>1, <3>2, <3>3
    <3>5. p = cache
      BY <2>5, <3>4 DEF Cached
    <3>6. new = cache
      <4> HIDE DEF p
      <4> QED
        BY <2>3, <3>5 DEF CacheOK
    <3> QED
      BY <2>2, <3>6
  <2> QED
    BY <2>4, <2>5
<1> QED
  BY <1>2, <1>3

\* A cache stays right when the rows before the cached one do.
LEMMA CacheOfOther ==
  ASSUME NEW rows \in Seq(Row), NEW other \in Seq(Row), NEW cache, CacheOK(rows, cache),
         cache.sid # 0 => /\ cache.index <= Len(other)
                          /\ \A k \in 1..(cache.index - 1) : other[k] = rows[k]
  PROVE  CacheOK(other, cache)
<1> SUFFICES ASSUME cache.sid # 0
             PROVE  /\ cache.index \in 1..Len(other)
                    /\ cache.sid = SidAt(other, cache.index)
                    /\ cache.elapsed = Elapsed(other, cache.index)
  BY DEF CacheOK
<1> DEFINE i == cache.index
<1>1. i \in 1..Len(rows) /\ i <= Len(other) /\ Len(rows) \in Nat /\ Len(other) \in Nat
  BY LenProperties DEF CacheOK
<1>2. i \in Int /\ i - 1 <= Len(rows) /\ i - 1 <= Len(other) /\ \A k \in 1..(i - 1) : other[k] = rows[k]
  BY <1>1
<1> HIDE DEF i
<1>3. SidAt(other, i) = SidAt(rows, i) /\ Elapsed(other, i) = Elapsed(rows, i)
  BY <1>2, SameStart
<1> QED
  BY <1>1, <1>3 DEF i, CacheOK

LEMMA AddedRows ==
  ASSUME NEW rows \in Seq(Row), NEW v \in Nat
  PROVE  LET new == AddToRows(rows, v)
         IN /\ new \in Seq(Row) /\ new # <<>> /\ Len(rows) <= Len(new)
            /\ \A k \in 1..(Len(rows) - 1) : new[k] = rows[k]
<1>1. v % Span \in 0..(Span - 1)
  BY Mp4Assumption
<1>2. CASE rows # <<>> /\ v = Last(rows).v
  <2>1. Len(rows) \in 1..Len(rows) /\ rows[Len(rows)] \in Row
    BY <1>2, EmptySeq, ElementOfSeq
  <2> DEFINE row == [rows[Len(rows)] EXCEPT !.n = @ + 1]
  <2>2. row \in Row
    <3>1. \A r \in Row : [r EXCEPT !.n = @ + 1] \in Row
      BY DEF Row
    <3> QED
      BY <2>1, <3>1
  <2>3. AddToRows(rows, v) = [rows EXCEPT ![Len(rows)] = row]
    BY <1>2 DEF AddToRows
  <2> HIDE DEF row
  <2>4. /\ [rows EXCEPT ![Len(rows)] = row] \in Seq(Row)
        /\ Len([rows EXCEPT ![Len(rows)] = row]) = Len(rows)
        /\ \A k \in 1..Len(rows) : [rows EXCEPT ![Len(rows)] = row][k] = IF k = Len(rows) THEN row ELSE rows[k]
    BY <2>1, <2>2, ExceptSeq
  <2> DEFINE r == AddToRows(rows, v)
  <2>5. /\ r \in Seq(Row) /\ Len(r) = Len(rows)
        /\ \A k \in 1..Len(rows) : k # Len(rows) => r[k] = rows[k]
    BY <2>3, <2>4
  <2> HIDE DEF r
  <2>6. Len(rows) \in Nat /\ \A k \in 1..(Len(rows) - 1) : k \in 1..Len(rows) /\ k # Len(rows)
    BY <2>1, LenProperties
  <2>7. r # <<>>
    BY <2>1, <2>5, EmptySeq
  <2> QED
    BY <2>5, <2>6, <2>7 DEF r
<1>3. CASE ~(rows # <<>> /\ v = Last(rows).v)
  <2> DEFINE row == [n |-> 1, v |-> v % Span]
  <2>1. row \in Row
    BY <1>1 DEF Row
  <2>2. AddToRows(rows, v) = Append(rows, row)
    BY <1>3 DEF AddToRows
  <2> HIDE DEF row
  <2>3. /\ Append(rows, row) \in Seq(Row) /\ Append(rows, row) # <<>>
        /\ Len(Append(rows, row)) = Len(rows) + 1 /\ Len(rows) \in Nat
        /\ \A k \in 1..Len(rows) : Append(rows, row)[k] = rows[k]
    BY <2>1, AppendProperties, LenProperties
  <2> QED
    BY <2>2, <2>3
<1> QED
  BY <1>2, <1>3

\* A sample more moves no row that may be cached.
LEMMA CacheAfterAdd ==
  ASSUME NEW rows \in Seq(Row), NEW cache, CacheOK(rows, cache), NEW v \in Nat
  PROVE  CacheOK(AddToRows(rows, v), cache)
<1> DEFINE new == AddToRows(rows, v)
<1>1. /\ new \in Seq(Row) /\ Len(rows) <= Len(new) /\ \A k \in 1..(Len(rows) - 1) : new[k] = rows[k]
      /\ Len(rows) \in Nat /\ Len(new) \in Nat
  BY AddedRows, LenProperties
<1>2. cache.sid # 0 => /\ cache.index <= Len(new)
                       /\ \A k \in 1..(cache.index - 1) : new[k] = rows[k]
  BY <1>1 DEF CacheOK
<1> HIDE DEF new
<1>3. CacheOK(new, cache)
  BY <1>1, <1>2, CacheOfOther
<1> QED
  BY <1>3 DEF new

\* A cut leaves the rows before it, and the row itself begins where it did.
LEMMA SplitRows ==
  ASSUME NEW rows \in Seq(Row), NEW row, row.index \in 1..Len(rows),
         row.sid = SidAt(rows, row.index),
         NEW id \in row.sid..(row.sid + rows[row.index].n - 1), NEW o \in Nat
  PROVE  LET new == Split(rows, row, id, o)
         IN /\ new \in Seq(Row) /\ row.index <= Len(new)
            /\ \A k \in 1..(row.index - 1) : new[k] = rows[k]
<1> DEFINE i == row.index
           p == SubSeq(rows, 1, i - 1)
           a == Run(id - row.sid, rows[i].v)
           b == Run(1, o % Span)
           c == Run(row.sid + rows[i].n - 1 - id, rows[i].v)
           q == SubSeq(rows, i + 1, Len(rows))
<1>1. Split(rows, row, id, o) = p \o a \o b \o c \o q
  BY DEF Split, Run
<1>2. i \in 1..Len(rows) /\ Len(rows) \in Nat /\ rows[i].v \in 0..(Span - 1) /\ o % Span \in 0..(Span - 1)
  BY RowTypes, Mp4Assumption
<1>3. /\ id - row.sid \in Nat /\ row.sid + rows[i].n - 1 - id \in Nat
  <2>1. row.sid \in Nat /\ rows[i].n \in Nat
    <3>1. i \in 1..(Len(rows) + 1)
      BY <1>2
    <3> QED
      BY <1>2, <3>1, SidStep, RowTypes
  <2> QED
    BY <2>1, SMTT(30)
<1>4. /\ p \in Seq(Row) /\ Len(p) = i - 1 /\ \A k \in 1..(i - 1) : p[k] = rows[k]
      /\ q \in Seq(Row)
  <2>1. /\ \A k \in 1..(i - 1) : rows[k] \in Row
        /\ \A k \in (i + 1)..Len(rows) : rows[k] \in Row
    BY <1>2, ElementOfSeq
  <2>2. /\ p \in Seq(Row) /\ Len(p) = (IF 1 <= i - 1 THEN i - 1 - 1 + 1 ELSE 0)
        /\ \A k \in 1..(i - 1 - 1 + 1) : p[k] = rows[1 + k - 1]
    BY <1>2, <2>1, SubSeqProperties
  <2>3. q \in Seq(Row)
    BY <1>2, <2>1, SubSeqProperties
  <2> HIDE DEF p, q, i
  <2> QED
    BY <1>2, <2>2, <2>3
<1>5. ASSUME NEW n \in Nat, NEW v \in 0..(Span - 1)
      PROVE  Run(n, v) \in Seq(Row)
  <2>1. n > 0 => [n |-> n, v |-> v] \in Row
    BY DEF Row
  <2> DEFINE r == [n |-> n, v |-> v]
  <2>2. Run(n, v) = IF n > 0 THEN <<r>> ELSE <<>>
    BY DEF Run
  <2> HIDE DEF r
  <2>3. n > 0 => <<r>> \in Seq(Row)
    BY <2>1 DEF r
  <2> QED
    BY <2>2, <2>3, EmptySeq
<1>6. a \in Seq(Row) /\ b \in Seq(Row) /\ c \in Seq(Row)
  BY <1>2, <1>3, <1>5
<1>7. b = <<[n |-> 1, v |-> o % Span]>>
  BY DEF Run
<1>8. Len(b) = 1
  <2> HIDE DEF b
  <2> QED
    BY <1>7
<1> HIDE DEF i, p, a, b, c, q
<1>10. ASSUME NEW s \in Seq(Row), NEW t \in Seq(Row)
       PROVE  /\ s \o t \in Seq(Row) /\ Len(s \o t) = Len(s) + Len(t)
              /\ Len(s) \in Nat /\ Len(t) \in Nat
              /\ \A k \in 1..Len(s) : (s \o t)[k] = s[k]
  BY ConcatProperties, LenProperties
<1> DEFINE s2 == p \o a
           s3 == s2 \o b
           s4 == s3 \o c
           s5 == s4 \o q
<1>11. /\ s2 \in Seq(Row) /\ Len(s2) = Len(p) + Len(a) /\ Len(p) \in Nat /\ Len(a) \in Nat
       /\ \A k \in 1..Len(p) : s2[k] = p[k]
  BY <1>4, <1>6, <1>10
<1> HIDE DEF s2
<1>12. /\ s3 \in Seq(Row) /\ Len(s3) = Len(s2) + 1 /\ \A k \in 1..Len(s2) : s3[k] = s2[k]
  <2>1. /\ s2 \o b \in Seq(Row) /\ Len(s2 \o b) = Len(s2) + Len(b)
        /\ \A k \in 1..Len(s2) : (s2 \o b)[k] = s2[k]
    BY <1>6, <1>10, <1>11
  <2> QED
    BY <1>8, <2>1
<1> HIDE DEF s3
<1>13. /\ s4 \in Seq(Row) /\ Len(s4) = Len(s3) + Len(c) /\ Len(c) \in Nat
       /\ \A k \in 1..Len(s3) : s4[k] = s3[k]
  BY <1>6, <1>10, <1>12
<1> HIDE DEF s4
<1>14. /\ s5 \in Seq(Row) /\ Len(s5) = Len(s4) + Len(q) /\ Len(q) \in Nat
       /\ \A k \in 1..Len(s4) : s5[k] = s4[k]
  BY <1>4, <1>10, <1>13
<1> HIDE DEF s5
<1>15. i <= Len(s5) /\ \A k \in 1..(i - 1) : s5[k] = rows[k]
  <2>1. Len(p) <= Len(s2) /\ Len(s2) < Len(s3) /\ Len(s3) <= Len(s4) /\ Len(s4) <= Len(s5)
        /\ Len(s2) \in Nat /\ Len(s3) \in Nat /\ Len(s4) \in Nat /\ Len(s5) \in Nat
    BY <1>11, <1>12, <1>13, <1>14, LenProperties, SMTT(30)
  <2>2. i <= Len(s5)
    BY <1>2, <1>4, <1>11, <2>1, SMTT(30)
  <2> SUFFICES ASSUME NEW k \in 1..(i - 1)
               PROVE  s5[k] = rows[k]
    BY <2>2
  <2>3. k \in 1..Len(p) /\ k \in 1..Len(s2) /\ k \in 1..Len(s3) /\ k \in 1..Len(s4)
    BY <1>4, <1>11, <2>1, SMTT(30)
  <2>4. p[k] = rows[k] /\ s2[k] = p[k]
    BY <1>4, <1>11, <2>3
  <2>5. s3[k] = s2[k] /\ s4[k] = s3[k] /\ s5[k] = s4[k]
    BY <1>12, <1>13, <1>14, <2>3
  <2> QED
    BY <2>4, <2>5
<1> QED
  BY <1>1, <1>14, <1>15 DEF i, s5, s4, s3, s2

\* The search that is asked for an offset leaves its row in the cache, and the
\* cut of that row keeps it.
LEMMA CacheAfterSplit ==
  ASSUME NEW rows \in Seq(Row), NEW cache, CacheOK(rows, cache), NEW id \in Nat \ {0},
         NEW o \in Nat, RowOf(rows, id).index # 0
  PROVE  LET row == RowOf(rows, id)
             new == Split(rows, row, id, o)
         IN /\ new \in Seq(Row) /\ new # <<>>
            /\ CacheOK(new, CacheAfter(rows, cache, id))
<1> DEFINE row == RowOf(rows, id)
           R == Reaching(rows, id)
           new == Split(rows, row, id, o)
<1>1. R # {}
  BY DEF RowOf
<1>2. Min(R) \in 1..Len(rows) /\ id <= SidAt(rows, Min(R)) + rows[Min(R)].n - 1 /\ SidAt(rows, Min(R)) <= id
  <2>1. Min(R) \in R /\ SidAt(rows, Min(R)) <= id
    BY <1>1, ReachingMin
  <2> QED
    BY <2>1 DEF Reaching
<1>3. row = [index |-> Min(R), sid |-> SidAt(rows, Min(R)), elapsed |-> Elapsed(rows, Min(R))]
  BY <1>1 DEF RowOf
<1>4. /\ row.index \in 1..Len(rows) /\ row.sid = SidAt(rows, row.index)
      /\ row.elapsed = Elapsed(rows, row.index)
      /\ id \in row.sid..(row.sid + rows[row.index].n - 1)
  <2> DEFINE i == Min(R)
  <2>1. SidAt(rows, i) \in Nat /\ rows[i].n \in Nat /\ Len(rows) \in Nat
    <3>1. i \in 1..(Len(rows) + 1)
      BY <1>2, LenProperties
    <3> QED
      BY <1>2, <3>1, SidStep, RowTypes
  <2> HIDE DEF i, row, R
  <2>2. row = [index |-> i, sid |-> SidAt(rows, i), elapsed |-> Elapsed(rows, i)]
    BY <1>3 DEF i
  <2>3. row.index = i /\ row.sid = SidAt(rows, i) /\ row.elapsed = Elapsed(rows, i)
    BY <2>2
  <2>4. id \in SidAt(rows, i)..(SidAt(rows, i) + rows[i].n - 1) /\ i \in 1..Len(rows)
    BY <1>2, <2>1 DEF i
  <2> QED
    BY <2>3, <2>4
<1>5. CacheAfter(rows, cache, id) = row
  BY CachedSearch DEF CacheAfter
<1>6. /\ new \in Seq(Row) /\ row.index <= Len(new)
      /\ \A k \in 1..(row.index - 1) : new[k] = rows[k]
  <2> HIDE DEF row
  <2> QED
    BY <1>4, SplitRows
<1>7. CacheOK(rows, row)
  <2> HIDE DEF row
  <2>1. row = [index |-> row.index, sid |-> row.sid, elapsed |-> row.elapsed]
    BY <1>3
  <2> QED
    BY <1>4, <2>1 DEF CacheOK
<1>8. CacheOK(new, row)
  <2> HIDE DEF row, new
  <2> QED
    BY <1>6, <1>7, CacheOfOther
<1>9. new # <<>>
  <2>1. row.index >= 1
    BY <1>4
  <2> HIDE DEF row, new
  <2> QED
    BY <1>4, <1>6, <2>1, EmptySeq
<1> HIDE DEF row, new
<1> QED
  BY <1>5, <1>6, <1>8, <1>9 DEF row, new
(***************************************************************************)
(* The times of samples.                                                   *)
(***************************************************************************)

LEMMA Quotient ==
  ASSUME NEW x \in Nat, NEW v \in Nat \ {0}
  PROVE  /\ x \div v \in Nat
         /\ (x \div v) * v <= x
         /\ x < (x \div v) * v + v
OBVIOUS

\* A row begins when all samples before it have been shown, if the whole fits
\* 32 bits.
LEMMA RowTimes ==
  ASSUME NEW rows, NEW count, NEW value, RunsOf(rows, count, value),
         \A id \in 1..count : value[id] \in Nat, SumOver(value, 1, count) < Span
  PROVE  /\ \A i \in 1..(Len(rows) + 1) : Elapsed(rows, i) = SumOver(value, 1, SidAt(rows, i) - 1)
         /\ \A i \in 1..Len(rows) : Lengths(rows)[i] = rows[i].n * rows[i].v
<1>1. /\ rows \in Seq(Row) /\ count \in Nat /\ Len(rows) \in Nat
      /\ SidAt(rows, 1) = 1 /\ Elapsed(rows, 1) = 0
  BY RunsCount, SidStep, LenProperties
<1>2. ASSUME NEW i \in 1..Len(rows)
      PROVE  /\ SumOver(value, 1, SidAt(rows, i + 1) - 1)
                  = SumOver(value, 1, SidAt(rows, i) - 1) + rows[i].n * rows[i].v
             /\ Lengths(rows)[i] = rows[i].n * rows[i].v
  <2> DEFINE sid == SidAt(rows, i)
             n == rows[i].n
             v == rows[i].v
             last == sid + n - 1
  <2>1. /\ sid \in Nat \ {0} /\ n \in Nat \ {0} /\ v \in Nat
        /\ SidAt(rows, i + 1) = sid + n /\ last <= count
        /\ Lengths(rows)[i] = (n * v) % Span
    <3>1. SidAt(rows, i + 1) = SidAt(rows, i) + rows[i].n
      BY <1>1, SidStep
    <3>2. rows[i].v \in 0..(Span - 1) /\ Lengths(rows)[i] = (rows[i].n * rows[i].v) % Span
      BY <1>1, RowTypes
    <3> QED
      BY <3>1, <3>2, RunsCount
  <2>2. \A k \in sid..last : value[k] = v
    BY DEF RunsOf
  <2> HIDE DEF sid, n, v
  <2> DEFINE b == sid - 1
  <2>3. /\ b \in Int /\ last \in Int /\ 1 - 1 <= b /\ b <= last /\ b + 1 = sid
        /\ \A k \in 1..last : value[k] \in Int /\ value[k] \in Nat
        /\ last - sid + 1 = n /\ sid - 1 <= last
    BY <1>1, <2>1
  <2> HIDE DEF b, last
  <2>4. SumOver(value, 1, last) = SumOver(value, 1, b) + SumOver(value, sid, last)
    BY <2>3, SumSplit
  <2>5. SumOver(value, sid, last) = n * v
    <3>1. sid \in Int /\ v \in Int
      BY <2>1
    <3>2. n \in Nat /\ \A k \in sid..(sid + n - 1) : value[k] = v
      BY <2>1, <2>2 DEF last
    <3>3. SumOver(value, sid, sid + n - 1) = n * v
      BY <3>1, <3>2, SumRepeat
    <3> QED
      BY <3>3 DEF last
  <2>6. n * v < Span
    <3>1. SumOver(value, 1, last) <= SumOver(value, 1, count)
      BY <1>1, <2>1, <2>3, SumPart
    <3>2. SumOver(value, 1, b) \in Nat /\ SumOver(value, 1, last) \in Nat /\ SumOver(value, 1, count) \in Nat
      <4>1. \A k \in 1..b : value[k] \in Nat
        BY <2>3
      <4> QED
        BY <1>1, <2>3, <4>1, SumNat
    <3>3. n * v \in Int
      BY <2>1
    <3> DEFINE x == n * v
    <3>4. SumOver(value, 1, last) = SumOver(value, 1, b) + x /\ x \in Int
      BY <2>4, <2>5, <3>3
    <3> HIDE DEF x
    <3>5. x < Span
      BY <3>1, <3>2, <3>4, Mp4Assumption
    <3> QED
      BY <3>5 DEF x
  <2>7. (n * v) % Span = n * v
    <3> DEFINE x == n * v
    <3>1. x \in Nat /\ x < Span
      BY <2>1, <2>6
    <3> HIDE DEF x
    <3>2. x % Span = x
      BY <3>1, Mp4Assumption, SMTT(30)
    <3> QED
      BY <3>2 DEF x
  <2>8. sid - 1 = b /\ SidAt(rows, i + 1) - 1 = last
    BY <2>1, <2>3 DEF b, last
  <2>9. SumOver(value, 1, SidAt(rows, i + 1) - 1) = SumOver(value, 1, sid - 1) + n * v
    BY <2>4, <2>5, <2>8
  <2> QED
    BY <2>1, <2>7, <2>9 DEF sid, n, v
<1> DEFINE S == {i \in Int : i <= Len(rows) => Elapsed(rows, i + 1) = SumOver(value, 1, SidAt(rows, i + 1) - 1)}
<1>3. 0 \in S
  <2>1. SumOver(value, 1, 0) = 0
    BY SumEmpty
  <2> QED
    BY <1>1, <2>1
<1>4. ASSUME NEW i \in Int, i >= 1, i - 1 \in S
      PROVE  i \in S
  <2> SUFFICES ASSUME i <= Len(rows)
               PROVE  Elapsed(rows, i + 1) = SumOver(value, 1, SidAt(rows, i + 1) - 1)
    OBVIOUS
  <2>1. i \in 1..Len(rows) /\ i - 1 + 1 = i /\ i - 1 <= Len(rows)
    BY <1>1, <1>4
  <2>2. Elapsed(rows, i) = SumOver(value, 1, SidAt(rows, i) - 1)
    BY <1>4, <2>1
  <2>3. Elapsed(rows, i + 1) = Elapsed(rows, i) + Lengths(rows)[i]
    BY <1>1, <2>1, SidStep
  <2> QED
    BY <1>2, <2>1, <2>2, <2>3
<1> HIDE DEF S
<1>5. \A i \in Int : i >= 0 => i \in S
  <2>1. 1 - 1 \in S /\ 1 \in Int
    BY <1>3
  <2>2. \A n \in Int : n >= 1 - 1 => n \in S
    BY <1>4, <2>1, SumInduction
  <2> QED
    BY <2>2
<1>6. ASSUME NEW i \in 1..(Len(rows) + 1)
      PROVE  Elapsed(rows, i) = SumOver(value, 1, SidAt(rows, i) - 1)
  <2>1. i - 1 \in Int /\ i - 1 >= 0 /\ i - 1 <= Len(rows) /\ i - 1 + 1 = i
    BY <1>1
  <2>2. i - 1 \in S
    BY <1>5, <2>1
  <2> QED
    BY <2>1, <2>2 DEF S
<1> QED
  BY <1>2, <1>6

\* GetSampleTimes: a sample starts when all before it have been shown.
LEMMA SampleTimes ==
  ASSUME NEW tr, NEW count, NEW value, RunsOf(tr.stts, count, value),
         \A id \in 1..count : value[id] \in Nat, SumOver(value, 1, count) < Span,
         NEW id \in 1..count
  PROVE  GetSampleTimes(tr, id) = [start |-> SumOver(value, 1, id - 1), duration |-> value[id]]
<1> DEFINE rows == tr.stts
           row == RowOf(rows, id)
           i == row.index
           sid == SidAt(rows, i)
           v == rows[i].v
<1>1. /\ rows \in Seq(Row) /\ count \in Nat
      /\ i \in 1..Len(rows) /\ row.sid = sid /\ row.elapsed = Elapsed(rows, i)
      /\ id \in sid..(sid + rows[i].n - 1) /\ v = value[id]
      /\ \A k \in sid..(sid + rows[i].n - 1) : value[k] = v
  <2>1. RunsOf(rows, count, value) /\ rows \in Seq(Row) /\ count \in Nat
    BY RunsCount
  <2>2. /\ i \in 1..Len(rows) /\ row.sid = sid /\ row.elapsed = Elapsed(rows, i)
        /\ id \in sid..(sid + rows[i].n - 1) /\ v = value[id]
    <3> HIDE DEF rows
    <3> QED
      BY <2>1, RunsLookup
  <2>3. \A k \in sid..(sid + rows[i].n - 1) : value[k] = v
    <3> HIDE DEF i, rows
    <3> QED
      BY <2>1, <2>2 DEF RunsOf
  <2> QED
    BY <2>1, <2>2, <2>3
<1>2. RowFrom(rows, FirstRow, id) = row
  <2>1. CacheOK(rows, NoCache) /\ id \in Int
    BY DEF CacheOK, NoCache
  <2> HIDE DEF rows
  <2> QED
    BY <1>1, <2>1, CachedSearch
<1>3. GetSampleTimes(tr, id) = [start |-> row.elapsed + (id - row.sid) * v, duration |-> v]
  BY <1>2 DEF GetSampleTimes, TimesAt
<1>4. Elapsed(rows, i) = SumOver(value, 1, sid - 1) /\ sid \in Nat \ {0} /\ rows[i].n \in Nat
  <2>1. i \in 1..(Len(rows) + 1)
    BY <1>1, LenProperties
  <2>2. RunsOf(rows, count, value)
    OBVIOUS
  <2>3. \A k \in 1..(Len(rows) + 1) : Elapsed(rows, k) = SumOver(value, 1, SidAt(rows, k) - 1)
    <3> HIDE DEF rows
    <3> QED
      BY <2>2, RowTimes
  <2>4. \A k \in 1..Len(rows) : SidAt(rows, k) \in Nat \ {0} /\ rows[k].n \in Nat \ {0}
    <3> HIDE DEF rows
    <3> QED
      BY <2>2, RunsCount
  <2> HIDE DEF i, rows
  <2> QED
    BY <1>1, <2>1, <2>3, <2>4
<1> HIDE DEF rows, row, i, sid, v
<1>5. SumOver(value, 1, id - 1) = SumOver(value, 1, sid - 1) + (id - sid) * v
  <2> DEFINE b == sid - 1
             e == id - 1
  <2>1. /\ b \in Int /\ e \in Int /\ 1 - 1 <= b /\ b <= e /\ b + 1 = sid /\ v \in Int
        /\ \A k \in 1..e : value[k] \in Int
        /\ \A k \in sid..e : value[k] = v
        /\ sid - 1 <= e /\ e - sid + 1 = id - sid
    BY <1>1, <1>4, SMTT(30)
  <2> HIDE DEF b, e
  <2>2. SumOver(value, 1, e) = SumOver(value, 1, b) + SumOver(value, sid, e)
    BY <2>1, SumSplit
  <2>3. SumOver(value, sid, e) = (e - sid + 1) * v
    BY <1>4, <2>1, SumConst
  <2> QED
    BY <2>1, <2>2, <2>3 DEF b, e
<1> QED
  BY <1>1, <1>3, <1>4, <1>5
\* GetSampleIdFromTime: a time before the end of the track gives the sample
\* that is shown then, or one of no duration that starts then.
LEMMA SampleAtTime ==
  ASSUME NEW tr, NEW count, NEW value, RunsOf(tr.stts, count, value),
         \A id \in 1..count : value[id] \in Nat, SumOver(value, 1, count) < Span,
         NEW when \in Nat, when < SumOver(value, 1, count)
  PROVE  LET id == GetSampleIdFromTime(tr, when)
         IN /\ id \in 1..count
            /\ \/ SumOver(value, 1, id - 1) = when
               \/ SumOver(value, 1, id - 1) < when /\ when < SumOver(value, 1, id)
<1> DEFINE rows == tr.stts
           l == Len(rows)
           S == {i \in DOMAIN rows : when - Elapsed(rows, i) <= Lengths(rows)[i]}
           i == Min(S)
           sid == SidAt(rows, i)
           n == rows[i].n
           v == rows[i].v
           e == Elapsed(rows, i)
<1>1. RunsOf(rows, count, value)
  OBVIOUS
<1>2. GetSampleIdFromTime(tr, when) =
        IF S = {} THEN 0 ELSE sid + (IF v = 0 THEN 0 ELSE (when - e) \div v)
  BY DEF GetSampleIdFromTime, SampleInRow
<1> HIDE DEF rows
<1>3. /\ rows \in Seq(Row) /\ count \in Nat /\ l \in Nat
      /\ SidAt(rows, 1) = 1 /\ Elapsed(rows, 1) = 0 /\ SidAt(rows, l + 1) = count + 1
      /\ DOMAIN rows = 1..l
  BY <1>1, RunsCount, SidStep, LenProperties
<1>4. /\ \A k \in 1..(l + 1) : Elapsed(rows, k) = SumOver(value, 1, SidAt(rows, k) - 1)
      /\ \A k \in 1..l : Lengths(rows)[k] = rows[k].n * rows[k].v
  BY <1>1, RowTimes
<1>5. /\ \A k \in 1..(l + 1) : Elapsed(rows, k) \in Nat /\ SidAt(rows, k) \in Nat \ {0}
      /\ \A k \in 1..l : /\ rows[k].n \in Nat \ {0} /\ rows[k].v \in Nat
                         /\ SidAt(rows, k + 1) = SidAt(rows, k) + rows[k].n
                         /\ Elapsed(rows, k + 1) = Elapsed(rows, k) + Lengths(rows)[k]
                         /\ Lengths(rows)[k] \in Nat
                         /\ SidAt(rows, k) + rows[k].n - 1 <= count
  <2>1. \A k \in 1..(l + 1) : Elapsed(rows, k) \in Nat /\ SidAt(rows, k) \in Nat \ {0}
    BY <1>3, SidStep
  <2>2. \A k \in 1..l : /\ SidAt(rows, k + 1) = SidAt(rows, k) + rows[k].n
                        /\ Elapsed(rows, k + 1) = Elapsed(rows, k) + Lengths(rows)[k]
    BY <1>3, SidStep
  <2>3. \A k \in 1..l : Lengths(rows)[k] \in Nat /\ rows[k].n \in Nat \ {0} /\ rows[k].v \in 0..(Span - 1)
    BY <1>3, RowTypes
  <2>4. \A k \in 1..l : SidAt(rows, k) + rows[k].n - 1 <= count
    BY <1>1, RunsCount
  <2> QED
    BY <2>1, <2>2, <2>3, <2>4
<1>6. Elapsed(rows, l + 1) = SumOver(value, 1, count)
  <2>1. l + 1 \in 1..(l + 1) /\ count + 1 - 1 = count
    BY <1>3
  <2> QED
    BY <1>3, <1>4, <2>1, SMTT(30)
<1>7. l >= 1 /\ l \in S
  <2>1. l # 0
    BY <1>3, <1>6
  <2>2. l \in 1..l
    BY <1>3, <2>1
  <2>3. when < Elapsed(rows, l) + Lengths(rows)[l]
    BY <1>5, <1>6, <2>2
  <2>4. Elapsed(rows, l) \in Nat /\ Lengths(rows)[l] \in Nat
    <3>1. l \in 1..(l + 1)
      BY <1>3, <2>2
    <3> QED
      BY <1>5, <2>2, <3>1
  <2> QED
    BY <1>3, <2>2, <2>3, <2>4
<1>8. i \in S /\ \A k \in S : i <= k
  <2>1. \A k \in S : k \in Int /\ 1 <= k
    BY <1>3
  <2> HIDE DEF S
  <2> QED
    BY <1>7, <2>1, MinOfInts
<1> HIDE DEF i
<1>9. i \in 1..l /\ i \in 1..(l + 1) /\ when - e <= Lengths(rows)[i]
  BY <1>3, <1>8
<1>10. e <= when
  <2>1. CASE i = 1
    BY <1>3, <2>1
  <2>2. CASE i > 1
    <3>1. i - 1 \in 1..l /\ i - 1 \in 1..(l + 1) /\ i - 1 \notin S /\ i - 1 + 1 = i
      BY <1>3, <1>8, <1>9, <2>2
    <3>2. ~ (when - Elapsed(rows, i - 1) <= Lengths(rows)[i - 1])
      BY <1>3, <3>1
    <3>3. e = Elapsed(rows, i - 1) + Lengths(rows)[i - 1]
      BY <1>5, <3>1
    <3>4. Elapsed(rows, i - 1) \in Nat /\ Lengths(rows)[i - 1] \in Nat
      BY <1>5, <3>1
    <3> QED
      BY <3>2, <3>3, <3>4
  <2> QED
    BY <1>9, <2>1, <2>2
<1> DEFINE d == when - e
           k == IF v = 0 THEN 0 ELSE d \div v
           id == sid + k
           T(j) == SumOver(value, 1, sid + j - 1)
<1>11. /\ d \in Nat /\ n \in Nat \ {0} /\ v \in Nat /\ sid \in Nat \ {0} /\ e \in Nat
       /\ d <= n * v /\ sid + n - 1 <= count
       /\ \A j \in sid..(sid + n - 1) : value[j] = v
       /\ e = SumOver(value, 1, sid - 1)
  <2>1. n \in Nat \ {0} /\ v \in Nat /\ sid \in Nat \ {0} /\ e \in Nat /\ sid + n - 1 <= count
    BY <1>5, <1>9
  <2>2. \A j \in sid..(sid + n - 1) : value[j] = v
    BY <1>1, <1>9 DEF RunsOf
  <2>3. d <= n * v /\ e = SumOver(value, 1, sid - 1)
    BY <1>4, <1>9
  <2> QED
    BY <1>10, <2>1, <2>2, <2>3
<1>12. GetSampleIdFromTime(tr, when) = id
  BY <1>2, <1>7
<1>13. (l + 1 = i + 1 => e + n * v = SumOver(value, 1, count)) /\ (i < l => sid + n <= count)
  <2>1. e + n * v = Elapsed(rows, i + 1) /\ SidAt(rows, i + 1) = sid + n
    BY <1>4, <1>5, <1>9
  <2>2. i < l => sid + n <= count
    <3> SUFFICES ASSUME i < l
                 PROVE  sid + n <= count
      OBVIOUS
    <3>1. i + 1 \in 1..l /\ i + 1 \in 1..(l + 1)
      BY <1>3, <1>9
    <3>2. SidAt(rows, i + 1) + rows[i + 1].n - 1 <= count /\ rows[i + 1].n \in Nat \ {0} /\ SidAt(rows, i + 1) \in Nat
      BY <1>5, <3>1
    <3> DEFINE a == SidAt(rows, i + 1)
               r == rows[i + 1].n
    <3>3. a + r - 1 <= count /\ r \in Nat \ {0} /\ a \in Nat /\ a = sid + n
      BY <2>1, <3>2
    <3> HIDE DEF a, r
    <3> HIDE DEF sid, n
    <3>4. a <= count
      BY <1>3, <3>3
    <3> QED
      BY <3>3, <3>4
  <2> QED
    BY <1>3, <1>6, <2>1, <2>2
<1> HIDE DEF sid, n, v, e, l
<1>14. ASSUME NEW j \in 0..n
       PROVE  T(j) = e + j * v
  <2> DEFINE b == sid - 1
             z == sid + j - 1
  <2>1. /\ b \in Int /\ z \in Int /\ 1 - 1 <= b /\ b <= z /\ b + 1 = sid /\ v \in Int /\ sid \in Int
        /\ \A q \in 1..z : value[q] \in Int
        /\ \A q \in sid..z : value[q] = v
        /\ sid - 1 <= z /\ j = z - sid + 1 /\ j \in Nat
    BY <1>3, <1>11
  <2> HIDE DEF b, z
  <2>2. SumOver(value, 1, z) = SumOver(value, 1, b) + SumOver(value, sid, z)
    BY <2>1, SumSplit
  <2>3. SumOver(value, sid, z) = j * v
    <3>1. sid \in Int /\ v \in Int /\ j \in Nat /\ \A q \in sid..(sid + j - 1) : value[q] = v
      BY <2>1 DEF z
    <3>2. SumOver(value, sid, sid + j - 1) = j * v
      BY <3>1, SumRepeat
    <3> QED
      BY <3>2 DEF z
  <2>4. SumOver(value, 1, z) = e + j * v
    BY <1>11, <2>1, <2>2, <2>3 DEF b
  <2> QED
    BY <2>4 DEF z
<1>15. CASE v = 0
  <2>1. n * v = 0 /\ k = 0 /\ id = sid
    BY <1>11, <1>15
  <2>2. e = when
    BY <1>11, <2>1
  <2>3. id \in 1..count
    BY <1>3, <1>11, <2>1
  <2> HIDE DEF id, k, d, T
  <2> QED
    BY <1>11, <1>12, <2>1, <2>2, <2>3
<1>16. CASE v # 0
  <2>1. /\ k \in Nat /\ k * v <= d /\ d < k * v + v
    <3>1. k = d \div v
      BY <1>16
    <3> HIDE DEF d, k
    <3> QED
      BY <1>11, <1>16, <3>1, Quotient
  <2> HIDE DEF k, T
  <2>2. k <= n
    <3>1. ASSUME k > n
          PROVE  FALSE
      <4>1. n * v < k * v
        BY <1>11, <1>16, <2>1, <3>1
      <4> HIDE DEF d
      <4> DEFINE a == n * v
                 c == k * v
      <4>2. a \in Int /\ c \in Int /\ a < c /\ c <= d /\ d <= a /\ d \in Int
        BY <1>11, <2>1, <4>1
      <4> HIDE DEF a, c
      <4> QED
        BY <4>2
    <3> QED
      BY <1>11, <2>1, <3>1
  <2>3. T(k) = e + k * v /\ when = e + d
    <3>1. k \in 0..n
      BY <1>11, <2>1, <2>2
    <3> QED
      BY <1>11, <1>14, <3>1
  <2>4. CASE k < n
    <3>1. k + 1 \in 0..n
      BY <1>11, <2>1, <2>4
    <3>2. T(k + 1) = e + (k + 1) * v
      BY <1>14, <3>1
    <3>3. (k + 1) * v = k * v + v
      BY <1>11, <2>1
    <3>4. id \in 1..count
      BY <1>3, <1>11, <2>1, <2>4
    <3>5. /\ sid + k - 1 = id - 1 /\ sid + (k + 1) - 1 = id
      BY <1>11, <2>1
    <3>6. T(k) = SumOver(value, 1, id - 1) /\ T(k + 1) = SumOver(value, 1, id)
      BY <3>5 DEF T
    <3> HIDE DEF id, d
    <3> DEFINE x == k * v
    <3>7. x \in Int /\ SumOver(value, 1, id - 1) = e + x /\ SumOver(value, 1, id) = e + (x + v) /\ x <= d /\ d < x + v
      BY <1>11, <2>1, <2>3, <3>2, <3>3, <3>6
    <3> HIDE DEF x
    <3>8. \/ SumOver(value, 1, id - 1) = when
          \/ SumOver(value, 1, id - 1) < when /\ when < SumOver(value, 1, id)
      BY <1>11, <2>3, <3>7
    <3> QED
      BY <1>12, <3>4, <3>8
  <2>5. CASE k = n
    <3>1. d = n * v
      <4> DEFINE x == n * v
      <4>1. x \in Int /\ d <= x /\ x <= d /\ d \in Int
        BY <1>11, <2>1, <2>5
      <4> HIDE DEF x, d
      <4> QED
        BY <4>1 DEF x
    <3>2. T(k) = when
      BY <2>3, <2>5, <3>1
    <3>3. i < l
      <4>1. i # l
        BY <1>13, <2>3, <3>1
      <4> QED
        BY <1>3, <1>9, <4>1
    <3>4. id \in 1..count
      BY <1>3, <1>11, <1>13, <2>1, <2>5, <3>3
    <3>5. sid + k - 1 = id - 1
      BY <1>11, <2>1
    <3>6. T(k) = SumOver(value, 1, id - 1)
      BY <3>5 DEF T
    <3> HIDE DEF id
    <3> QED
      BY <1>12, <3>2, <3>4, <3>6
  <2> QED
    BY <1>11, <2>1, <2>2, <2>4, <2>5
<1> QED
  BY <1>11, <1>15, <1>16
(***************************************************************************)
(* The table of rendering offsets as it begins.                            *)
(***************************************************************************)

\* UpdateRenderingOffsets: one sample more, with offset o.
LEMMA RunsBegin ==
  ASSUME NEW value, NEW id \in Nat \ {0}, NEW o \in Nat,
         \A k \in 1..(id - 1) : value[k] = 0, value[id] = o % Span
  PROVE  RunsOf(AddToRows(IF id > 1 THEN <<[n |-> id - 1, v |-> 0]>> ELSE <<>>, o), id, value)
<1> DEFINE rows == IF id > 1 THEN <<[n |-> id - 1, v |-> 0]>> ELSE <<>>
           c == id - 1
<1>1. RunsOf(<<>>, 0, value)
  BY RunsNone
<1>2. RunsOf(rows, c, value)
  <2>1. CASE id = 1
    BY <1>1, <2>1
  <2>2. CASE id > 1
    <3> DEFINE row == [n |-> id - 1, v |-> 0]
    <3>1. row \in Row /\ row.n = c /\ row.v = 0
      BY <2>2, Mp4Assumption DEF Row
    <3>2. rows = <<row>>
      BY <2>2
    <3> HIDE DEF row
    <3>3. \A k \in (0 + 1)..(0 + row.n) : value[k] = row.v
      BY <3>1
    <3>4. RunsOf(<<>> \o <<row>>, 0 + row.n, value)
      BY <1>1, <3>1, <3>3, RunsAppend
    <3>5. <<>> \o <<row>> = <<row>> /\ 0 + row.n = c
      BY <3>1
    <3> QED
      BY <3>2, <3>4, <3>5
  <2> QED
    BY <2>1, <2>2
<1>3. c + 1 = id
  OBVIOUS
<1> HIDE DEF rows, c
<1>4. RunsOf(AddToRows(rows, o), c + 1, value)
  BY <1>2, <1>3, RunsAdd
<1> QED
  BY <1>3, <1>4 DEF rows

\* FirstOffset: the samples after the first one with an offset have none.
LEMMA RunsFirst ==
  ASSUME NEW value, NEW rows, NEW id, RunsOf(rows, id, value), NEW count \in Nat, id < count,
         \A k \in (id + 1)..count : value[k] = 0
  PROVE  RunsOf(Append(rows, [n |-> count - id, v |-> 0]), count, value)
<1> DEFINE row == [n |-> count - id, v |-> 0]
<1>1. rows \in Seq(Row) /\ id \in Nat
  BY RunsCount
<1>2. row \in Row /\ row.n = count - id /\ row.v = 0
  BY <1>1, Mp4Assumption DEF Row
<1> HIDE DEF row
<1>3. id + row.n = count
  BY <1>1, <1>2
<1>4. \A k \in (id + 1)..(id + row.n) : value[k] = row.v
  BY <1>2, <1>3
<1>5. RunsOf(rows \o <<row>>, id + row.n, value)
  BY <1>2, <1>4, RunsAppend
<1>6. Append(rows, row) = rows \o <<row>>
  BY <1>1, <1>2, AppendIsConcat
<1> QED
  BY <1>3, <1>5, <1>6 DEF row

(***************************************************************************)
(* The table of sync samples.                                              *)
(***************************************************************************)

Increasing(s) == \A i, j \in 1..Len(s) : i < j => s[i] < s[j]

\* s has the members of S in their order.
Enumerates(s, S) ==
  /\ s \in Seq(Nat \ {0}) /\ Increasing(s)
  /\ S = {s[i] : i \in 1..Len(s)}

\* The binary search of the entries l+1 .. r ends with what they are.
LEMMA SyncSearch ==
  ASSUME NEW tr, tr.hasStss, tr.stss \in Seq(Nat \ {0}), Increasing(tr.stss), NEW id \in Int
  PROVE  IsSyncSample(tr, id) =
           IF \E i \in 1..Len(tr.stss) : tr.stss[i] = id THEN "yes"
           ELSE IF \E i \in 1..Len(tr.stss) : tr.stss[i] < id THEN "no" ELSE "error"
<1> DEFINE s == tr.stss
           len == Len(s)
           ends == {lr \in (0..len) \X (0..len) : lr[1] <= lr[2]}
           mid(l, r) == (l + r - 1) \div 2
           step(f, l, r) == IF r = 0 THEN "error"
                            ELSE IF l = r THEN "no"
                            ELSE IF id = s[mid(l, r) + 1] THEN "yes"
                            ELSE IF id > s[mid(l, r) + 1] THEN f[<<mid(l, r) + 1, r>>]
                            ELSE f[<<l, mid(l, r)>>]
           F(f) == [lr \in ends |-> step(f, lr[1], lr[2])]
           has(l, r) == \E i \in (l + 1)..r : s[i] = id
           answer(l, r) == IF has(l, r) THEN "yes"
                           ELSE IF l = 0 /\ \A i \in 1..r : s[i] > id THEN "error" ELSE "no"
           g == [lr \in ends |-> answer(lr[1], lr[2])]
           search == CHOOSE f : f = F(f)
<1>1. IsSyncSample(tr, id) = search[<<0, len>>]
  BY DEF IsSyncSample
<1>2. len \in Nat /\ \A i \in 1..len : s[i] \in Nat
  BY ElementOfSeq, LenProperties
<1>3. \A i, j \in 1..len : i < j => s[i] < s[j]
  BY DEF Increasing
<1> HIDE DEF s
<1> HIDE DEF len
<1>4. \A l, r \in 0..len : l < r => mid(l, r) \in l..(r - 1)
  BY <1>2
<1>5. \A l, r \in 0..len : l <= r => <<l, r>> \in ends
  OBVIOUS
<1>6. ASSUME NEW l \in 0..len, NEW r \in 0..len, l < r
      PROVE  answer(l, r) = IF id = s[mid(l, r) + 1] THEN "yes"
                            ELSE IF id > s[mid(l, r) + 1] THEN answer(mid(l, r) + 1, r)
                            ELSE answer(l, mid(l, r))
  <2> DEFINE m == mid(l, r)
  <2>1. m \in l..(r - 1) /\ m + 1 \in 1..len /\ m + 1 \in (l + 1)..r
    BY <1>2, <1>4, <1>6
  <2> HIDE DEF m, mid
  <2>2. CASE id = s[m + 1]
    BY <2>1, <2>2 DEF m
  <2>3. CASE id > s[m + 1]
    <3>1. \A i \in 1..(m + 1) : s[i] < id
      <4> TAKE i \in 1..(m + 1)
      <4>1. i \in 1..len /\ (i = m + 1 \/ i < m + 1)
        BY <1>2, <2>1
      <4>2. s[i] = s[m + 1] \/ s[i] < s[m + 1]
        BY <1>3, <2>1, <4>1
      <4>3. s[i] \in Nat /\ s[m + 1] \in Nat
        BY <1>2, <2>1, <4>1
      <4> QED
        BY <2>3, <4>2, <4>3
    <3>2. has(l, r) <=> has(m + 1, r)
      BY <1>2, <2>1, <3>1
    <3>3. m + 1 # 0 /\ ~ (\A i \in 1..r : s[i] > id)
      BY <1>2, <2>1, <3>1
    <3>4. answer(l, r) = answer(m + 1, r)
      <4> HIDE DEF has
      <4> QED
        BY <3>2, <3>3
    <3>5. id # s[m + 1]
      BY <1>2, <2>1, <2>3
    <3> HIDE DEF answer
    <3> QED
      BY <2>3, <3>4, <3>5 DEF m
  <2>4. CASE id < s[m + 1]
    <3>1. \A i \in (m + 1)..len : s[i] > id
      BY <1>2, <1>3, <2>1, <2>4
    <3>2. has(l, r) <=> has(l, m)
      BY <1>2, <2>1, <3>1
    <3>3. (\A i \in 1..r : s[i] > id) <=> (\A i \in 1..m : s[i] > id)
      BY <1>2, <2>1, <3>1
    <3>4. answer(l, r) = answer(l, m)
      <4> HIDE DEF has
      <4> QED
        BY <3>2, <3>3
    <3>5. id # s[m + 1] /\ ~ (id > s[m + 1])
      BY <1>2, <2>1, <2>4
    <3> HIDE DEF answer
    <3> QED
      BY <3>4, <3>5 DEF m
  <2> QED
    BY <1>2, <2>1, <2>2, <2>3, <2>4
<1>7. \A l, r \in 0..len : l = r => answer(l, r) = IF r = 0 THEN "error" ELSE "no"
  BY <1>2
<1>8. \A l, r \in 0..len : l <= r => g[<<l, r>>] = answer(l, r)
  <2> HIDE DEF answer
  <2> QED
    BY <1>5
<1> HIDE DEF answer
<1>9. g = F(g)
  <2>1. ASSUME NEW l \in 0..len, NEW r \in 0..len, l <= r
        PROVE  answer(l, r) = step(g, l, r)
    <3>1. CASE l = r
      BY <1>7, <3>1
    <3>2. CASE l < r
      <4> DEFINE m == mid(l, r)
      <4>1. m \in 0..len /\ m + 1 \in 0..len /\ l <= m /\ m + 1 <= r /\ r # 0 /\ l # r
        BY <1>2, <1>4, <3>2
      <4>2. g[<<m + 1, r>>] = answer(m + 1, r) /\ g[<<l, m>>] = answer(l, m)
        <5> HIDE DEF m, g
        <5> QED
          BY <1>8, <4>1
      <4>3. answer(l, r) = IF id = s[m + 1] THEN "yes"
                           ELSE IF id > s[m + 1] THEN answer(m + 1, r) ELSE answer(l, m)
        BY <1>6, <3>2
      <4> HIDE DEF g, mid
      <4> QED
        BY <4>1, <4>2, <4>3
    <3> QED
      BY <2>1, <3>1, <3>2
  <2>2. \A lr \in ends : lr[1] \in 0..len /\ lr[2] \in 0..len /\ lr[1] <= lr[2]
    OBVIOUS
  <2>3. \A lr \in ends : answer(lr[1], lr[2]) = step(g, lr[1], lr[2])
    <3> HIDE DEF g, ends, step
    <3> QED
      BY <2>1, <2>2
  <2>4. g = [lr \in ends |-> answer(lr[1], lr[2])]
    OBVIOUS
  <2>5. [lr \in ends |-> answer(lr[1], lr[2])] = F(g)
    <3> HIDE DEF g, ends, step
    <3> QED
      BY <2>3
  <2> QED
    BY <2>4, <2>5
<1>10. search = F(search)
  <2>1. \E f : f = F(f)
    BY <1>9
  <2> HIDE DEF F
  <2> QED
    BY <2>1
<1>11. \A l, r \in 0..len : l <= r => search[<<l, r>>] = step(search, l, r)
  <2> DEFINE h == search
  <2>1. h = [lr \in ends |-> step(h, lr[1], lr[2])]
    BY <1>10
  <2> HIDE DEF h, step
  <2> QED
    BY <1>5, <2>1
<1> HIDE DEF search
<1> DEFINE K == {k \in Nat : \A l, r \in 0..len : l <= r /\ r - l <= k => search[<<l, r>>] = answer(l, r)}
<1>12. 0 \in K
  <2> SUFFICES ASSUME NEW l \in 0..len, NEW r \in 0..len, l <= r, r - l <= 0
               PROVE  search[<<l, r>>] = answer(l, r)
    OBVIOUS
  <2>1. l = r
    OBVIOUS
  <2> QED
    BY <1>7, <1>11, <2>1
<1>13. ASSUME NEW k \in Nat, k \in K
       PROVE  k + 1 \in K
  <2> SUFFICES ASSUME NEW l \in 0..len, NEW r \in 0..len, l <= r, r - l <= k + 1
               PROVE  search[<<l, r>>] = answer(l, r)
    OBVIOUS
  <2>1. CASE l = r
    BY <1>7, <1>11, <2>1
  <2>2. CASE l < r
    <3> DEFINE m == mid(l, r)
    <3>1. /\ m \in 0..len /\ m + 1 \in 0..len /\ l <= m /\ m + 1 <= r /\ r # 0 /\ l # r
          /\ m - l <= k /\ r - (m + 1) <= k
      BY <1>2, <1>4, <2>2
    <3>2. search[<<m + 1, r>>] = answer(m + 1, r) /\ search[<<l, m>>] = answer(l, m)
      <4> HIDE DEF m
      <4> QED
        BY <1>13, <3>1
    <3>3. answer(l, r) = IF id = s[m + 1] THEN "yes"
                         ELSE IF id > s[m + 1] THEN answer(m + 1, r) ELSE answer(l, m)
      BY <1>6, <2>2
    <3>4. search[<<l, r>>] = step(search, l, r)
      BY <1>11, <2>2
    <3> HIDE DEF mid
    <3> QED
      BY <3>1, <3>2, <3>3, <3>4
  <2> QED
    BY <2>1, <2>2
<1> HIDE DEF K
<1>14. \A k \in Nat : k \in K
  BY <1>12, <1>13, SetInduction
<1>15. search[<<0, len>>] = answer(0, len)
  <2>1. len \in K
    BY <1>2, <1>14
  <2> QED
    BY <1>2, <2>1 DEF K
<1>16. answer(0, len) =
         IF \E i \in 1..len : s[i] = id THEN "yes"
         ELSE IF \E i \in 1..len : s[i] < id THEN "no" ELSE "error"
  <2>1. (~ \E i \in 1..len : s[i] = id) =>
          ((\A i \in 1..len : s[i] > id) <=> ~ \E i \in 1..len : s[i] < id)
    BY <1>2
  <2>2. has(0, len) <=> \E i \in 1..len : s[i] = id
    BY <1>2
  <2> HIDE DEF has
  <2> QED
    BY <2>1, <2>2 DEF answer
<1> QED
  BY <1>1, <1>15, <1>16 DEF len, s
\* GetNextSyncSample.
LEMMA NextSync ==
  ASSUME NEW tr, tr.hasStss, NEW S, Enumerates(tr.stss, S), NEW id \in Int
  PROVE  GetNextSyncSample(tr, id) =
           IF \E k \in S : k >= id THEN Min({k \in S : k >= id}) ELSE 0
<1> DEFINE s == tr.stss
           later == {i \in DOMAIN s : id <= s[i]}
           after == {k \in S : k >= id}
<1>1. /\ s \in Seq(Nat \ {0}) /\ Len(s) \in Nat /\ DOMAIN s = 1..Len(s)
      /\ \A i \in 1..Len(s) : s[i] \in Nat
      /\ \A i, j \in 1..Len(s) : i < j => s[i] < s[j]
      /\ S = {s[i] : i \in 1..Len(s)}
  <2>1. s \in Seq(Nat \ {0})
    BY DEF Enumerates
  <2>2. \A i \in 1..Len(s) : s[i] \in Nat
    BY <2>1, ElementOfSeq
  <2> QED
    BY <2>1, <2>2, LenProperties DEF Enumerates, Increasing
<1>2. GetNextSyncSample(tr, id) = IF later = {} THEN 0 ELSE s[Min(later)]
  BY DEF GetNextSyncSample
<1> HIDE DEF s
<1>3. later = {} <=> ~ \E k \in S : k >= id
  BY <1>1
<1>4. ASSUME later # {}
      PROVE  Min(after) = s[Min(later)]
  <2> DEFINE i == Min(later)
  <2>1. i \in later /\ \A j \in later : i <= j
    <3>1. \A j \in later : j \in Int /\ 1 <= j
      BY <1>1
    <3> HIDE DEF later
    <3> QED
      BY <1>4, <3>1, MinOfInts
  <2> HIDE DEF i
  <2>2. i \in 1..Len(s) /\ id <= s[i] /\ s[i] \in after
    BY <1>1, <2>1
  <2>3. \A k \in after : s[i] <= k
    <3> TAKE k \in after
    <3>1. PICK j \in 1..Len(s) : k = s[j]
      BY <1>1
    <3>2. j \in later
      BY <1>1, <3>1
    <3>3. i = j \/ i < j
      BY <1>1, <2>1, <2>2, <3>2
    <3>4. s[i] = s[j] \/ s[i] < s[j]
      BY <1>1, <2>2, <3>3
    <3> QED
      BY <1>1, <2>2, <3>1, <3>4
  <2>4. after \subseteq Int
    BY <1>1
  <2> HIDE DEF after
  <2>5. Min(after) = s[i]
    BY <2>2, <2>3, <2>4, MinIs
  <2> QED
    BY <2>5 DEF i
<1> HIDE DEF later
<1> QED
  BY <1>2, <1>3, <1>4

LEMMA EnumeratesAll ==
  ASSUME NEW n \in Nat
  PROVE  Enumerates([i \in 1..n |-> i], 1..n)
<1> DEFINE s == [i \in 1..n |-> i]
<1>1. s \in Seq(Nat \ {0}) /\ Len(s) = n
  OBVIOUS
<1>2. \A i \in 1..n : s[i] = i
  OBVIOUS
<1> HIDE DEF s
<1>3. Enumerates(s, 1..n)
  <2>1. \A i, j \in 1..Len(s) : i < j => s[i] < s[j]
    BY <1>1, <1>2
  <2>2. 1..n = {s[i] : i \in 1..Len(s)}
    BY <1>1, <1>2
  <2> QED
    BY <1>1, <2>1, <2>2 DEF Enumerates, Increasing
<1> QED
  BY <1>3 DEF s

LEMMA EnumeratesMore ==
  ASSUME NEW s, NEW S, Enumerates(s, S), NEW n \in Nat \ {0}, \A k \in S : k < n
  PROVE  Enumerates(Append(s, n), S \cup {n})
<1> DEFINE r == Append(s, n)
           l == Len(s)
<1>1. /\ s \in Seq(Nat \ {0}) /\ l \in Nat
      /\ \A i, j \in 1..l : i < j => s[i] < s[j]
      /\ S = {s[i] : i \in 1..l}
  BY LenProperties DEF Enumerates, Increasing
<1>2. /\ r \in Seq(Nat \ {0}) /\ Len(r) = l + 1 /\ r[l + 1] = n
      /\ \A i \in 1..l : r[i] = s[i]
  BY <1>1, AppendProperties
<1> HIDE DEF r, l
<1>3. \A i, j \in 1..Len(r) : i < j => r[i] < r[j]
  <2> SUFFICES ASSUME NEW i \in 1..(l + 1), NEW j \in 1..(l + 1), i < j
               PROVE  r[i] < r[j]
    BY <1>2
  <2>1. i \in 1..l /\ r[i] = s[i]
    BY <1>1, <1>2
  <2>2. CASE j \in 1..l
    BY <1>1, <1>2, <2>1, <2>2
  <2>3. CASE j = l + 1
    BY <1>1, <1>2, <2>1, <2>3
  <2> QED
    BY <1>1, <2>2, <2>3
<1>4. S \cup {n} = {r[i] : i \in 1..Len(r)}
  <2>1. ASSUME NEW k \in S \cup {n}
        PROVE  \E i \in 1..Len(r) : k = r[i]
    <3>1. CASE k = n
      <4>1. l + 1 \in 1..Len(r)
        BY <1>1, <1>2
      <4> QED
        BY <1>2, <3>1, <4>1
    <3>2. CASE k \in S
      <4>1. PICK i \in 1..l : k = s[i]
        BY <1>1, <3>2
      <4>2. i \in 1..Len(r) /\ r[i] = k
        BY <1>1, <1>2, <4>1
      <4> QED
        BY <4>2
    <3> QED
      BY <3>1, <3>2
  <2>2. ASSUME NEW i \in 1..Len(r)
        PROVE  r[i] \in S \cup {n}
    <3>1. i \in 1..l \/ i = l + 1
      BY <1>1, <1>2
    <3> QED
      BY <1>1, <1>2, <3>1
  <2> QED
    BY <2>1, <2>2
<1> QED
  BY <1>2, <1>3, <1>4 DEF r, Enumerates, Increasing

=============================================================================
