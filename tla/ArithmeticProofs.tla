-------------------------- MODULE ArithmeticProofs ---------------------------
(***************************************************************************)
(* Facts about the operators the models are built from, for every          *)
(* argument: sums and lists over prefixes (Prefix), sums over the entries  *)
(* of a function (Functions!SumFunction), and quotients.  What a recursive *)
(* function computes is shown by the least prefix, or the smallest set,    *)
(* that would be wrong.                                                    *)
(***************************************************************************)
EXTENDS Prefix, Functions, SequenceTheorems, FiniteSetTheorems,
        WellFoundedInduction, TLAPS

(* A set of natural numbers that is not empty has a least member: the form *)
(* of induction all proofs below use.                                      *)
LEMMA LeastNatural ==
  ASSUME NEW T, T \subseteq Nat, T # {}
  PROVE  \E m \in T : \A n \in T : m <= n
<1> DEFINE R == {ss \in Nat \X Nat : ss[1] < ss[2]}
<1>1. IsWellFoundedOn(R, Nat)
  BY NatLessThanWellFounded, Zenon DEF OpToRel
<1>2. PICK m \in T : \A n \in T : ~ (<<n, m>> \in R)
  <2> HIDE DEF R
  <2> QED BY <1>1, WFMin, Zenon
<1>3. ASSUME NEW n \in T PROVE m <= n
  <2>1. m \in Nat /\ n \in Nat
    OBVIOUS
  <2>2. n < m => <<n, m>> \in R
    BY <2>1
  <2> HIDE DEF R
  <2> QED BY <1>2, <2>1, <2>2
<1> QED BY <1>3

(* s lists the sums of the prefixes of f, up to n.                         *)
PrefixSums(s, f, n) ==
  /\ s \in [0 .. n -> Int]
  /\ s[0] = 0
  /\ \A k \in 1 .. n : s[k] = s[k - 1] + f[k]

(* Every integer function on 1 .. N has prefix sums.                       *)
LEMMA PrefixSumsExist ==
  ASSUME NEW N \in Nat, NEW f \in [1 .. N -> Int]
  PROVE  \E s : PrefixSums(s, f, N)
<1> DEFINE Bad == {m \in 0 .. N : ~ \E s : PrefixSums(s, f, m)}
<1>1. SUFFICES ASSUME Bad # {} PROVE FALSE
  <2>1. Bad = {} => N \notin Bad
    OBVIOUS
  <2> QED BY <2>1
<1>a. Bad \subseteq Nat
  OBVIOUS
<1>2. PICK m \in Bad : \A n \in Bad : m <= n
  <2> HIDE DEF Bad
  <2> QED BY <1>1, <1>a, LeastNatural
<1>3. m # 0
  <2> SUFFICES \E s : PrefixSums(s, f, 0)
    BY <1>2
  <2> PrefixSums([k \in 0 .. 0 |-> 0], f, 0)
    BY DEF PrefixSums
  <2> QED OBVIOUS
<1>4. m - 1 \in 0 .. N /\ m - 1 \notin Bad
  BY <1>2, <1>3
<1>5. PICK s : PrefixSums(s, f, m - 1)
  BY <1>4
<1> DEFINE t == [k \in 0 .. m |-> IF k = m THEN s[m - 1] + f[m] ELSE s[k]]
<1>6. PrefixSums(t, f, m)
  <2>1. m \in 1 .. N /\ s \in [0 .. m - 1 -> Int] /\ s[0] = 0
    BY <1>5, <1>3, <1>2 DEF PrefixSums
  <2>2. t \in [0 .. m -> Int] /\ t[0] = 0
    BY <2>1
  <2>3. ASSUME NEW k \in 1 .. m PROVE t[k] = t[k-1] + f[k]
    <3>1. CASE k = m BY <3>1, <2>1
    <3>2. CASE k # m 
      <4> k \in 1 .. m - 1 BY <3>2, <2>1
      <4> QED BY <3>2, <2>1, <1>5 DEF PrefixSums
    <3> QED BY <3>1, <3>2
  <2> QED BY <2>2, <2>3 DEF PrefixSums
<1> QED BY <1>6, <1>2

(* Two lists of prefix sums of one function end in the same sum.           *)
LEMMA PrefixSumsUnique ==
  ASSUME NEW N \in Nat, NEW f \in [1 .. N -> Int],
         NEW s, NEW t, PrefixSums(s, f, N), PrefixSums(t, f, N)
  PROVE  s[N] = t[N]
<1> DEFINE Bad == {m \in 0 .. N : s[m] # t[m]}
<1>1. SUFFICES ASSUME Bad # {} PROVE FALSE
  OBVIOUS
<1>a. Bad \subseteq Nat 
  OBVIOUS
<1>2. PICK m \in Bad : \A n \in Bad : m <= n
  <2> HIDE DEF Bad
  <2> QED BY <1>1, <1>a, LeastNatural
<1>3. m # 0
  BY <1>2 DEF PrefixSums
<1>4. m - 1 \in 0 .. N /\ m - 1 \notin Bad
  BY <1>2, <1>3
<1> QED BY <1>2, <1>3, <1>4 DEF PrefixSums

(* Total is the last prefix sum.                                           *)
LEMMA TotalIsPrefixSum ==
  ASSUME NEW N \in Nat, NEW f \in [1 .. N -> Int]
  PROVE  \E s : PrefixSums(s, f, N) /\ Total(f, N) = s[N]
<1> DEFINE Fits(u) == u = [k \in 0 .. N |-> IF k = 0 THEN 0 ELSE u[k - 1] + f[k]]
           upTo == CHOOSE u : Fits(u)
<1>1. Total(f, N) = upTo[N]
  BY DEF Total
<1>2. PICK s : PrefixSums(s, f, N)
  BY PrefixSumsExist
<1>3. Fits(s)
  <2> DEFINE r == [k \in 0 .. N |-> IF k = 0 THEN 0 ELSE s[k - 1] + f[k]]
  <2> s \in [0 .. N -> Int] /\ DOMAIN r = 0 .. N /\ \A k \in 0 .. N : s[k] = r[k]
    BY <1>2 DEF PrefixSums
  <2> s = r
    OBVIOUS
  <2> QED OBVIOUS
<1>4. Fits(upTo)
  BY <1>3
<1> HIDE DEF upTo
<1>5. \A k \in 0 .. N : upTo[k] = IF k = 0 THEN 0 ELSE upTo[k - 1] + f[k]
  BY <1>4
<1> HIDE DEF Fits
<1>6. DOMAIN upTo = 0 .. N BY <1>4 DEF Fits
<1> DEFINE Bad == {m \in 0 .. N : s[m] # upTo[m]}
<1>7. Bad = {}
  <2>1. SUFFICES ASSUME Bad # {} PROVE FALSE
    OBVIOUS
  <2>a. Bad \subseteq Nat 
    OBVIOUS
  <2>2. PICK m \in Bad : \A n \in Bad : m <= n
    <3> HIDE DEF Bad
    <3> QED BY <2>1, <2>a, LeastNatural
  <2>3. m # 0
    BY <2>2, <1>2, <1>5 DEF PrefixSums
  <2>4. m - 1 \in 0 .. N /\ m - 1 \notin Bad
    BY <2>2, <2>3
  <2> QED BY <2>2, <2>3, <2>4, <1>2, <1>5 DEF PrefixSums
<1> QED BY <1>1, <1>2, <1>7

(* The sum of zeros is zero.                                               *)
LEMMA TotalOfZeros ==
  ASSUME NEW N \in Nat
  PROVE  Total([i \in 1 .. N |-> 0], N) = 0
<1> DEFINE f == [i \in 1 .. N |-> 0]
           t == [i \in 0 .. N |-> 0]
<1>1. f \in [1 .. N -> Int]
  OBVIOUS
<1>2. PICK s : PrefixSums(s, f, N) /\ Total(f, N) = s[N]
  <2> HIDE DEF f
  <2> QED BY <1>1, TotalIsPrefixSum
<1>3. PrefixSums(t, f, N)
  BY DEF PrefixSums
<1>4. s[N] = t[N]
  <2> HIDE DEF f, t
  <2> QED BY <1>1, <1>2, <1>3, PrefixSumsUnique
<1> QED BY <1>2, <1>4

(* Changing one term changes the sum by the difference.                    *)
LEMMA TotalUpdate ==
  ASSUME NEW N \in Nat, NEW f \in [1 .. N -> Int], NEW k \in 1 .. N, NEW v \in Int
  PROVE  Total([f EXCEPT ![k] = v], N) = Total(f, N) - f[k] + v
<1> DEFINE g == [f EXCEPT ![k] = v]
<1>1. g \in [1 .. N -> Int]
  OBVIOUS
<1>2. PICK s : PrefixSums(s, f, N) /\ Total(f, N) = s[N]
  BY TotalIsPrefixSum
<1>3. PICK r : PrefixSums(r, g, N) /\ Total(g, N) = r[N]
  <2> HIDE DEF g
  <2> QED BY <1>1, TotalIsPrefixSum
<1> DEFINE t == [i \in 0 .. N |-> IF i < k THEN s[i] ELSE s[i] - f[k] + v]
<1>4. PrefixSums(t, g, N)
  <2>1. s \in [0 .. N -> Int] /\ s[0] = 0
    BY <1>2 DEF PrefixSums
  <2>2. t \in [0 .. N -> Int] /\ t[0] = 0
    BY <2>1
  <2>3. ASSUME NEW i \in 1 .. N PROVE t[i] = t[i - 1] + g[i]
    <3>1. s[i] = s[i - 1] + f[i] /\ i - 1 \in 0 .. N
      BY <1>2 DEF PrefixSums
    <3>2. CASE i = k BY <3>1, <3>2, <2>1
    <3>3. CASE i < k BY <3>1, <3>3, <2>1
    <3>4. CASE i > k
      <4>1. g[i] = f[i] /\ f[i] \in Int /\ f[k] \in Int /\ s[i] \in Int /\ s[i - 1] \in Int
        BY <3>4, <3>1, <2>1
      <4>2. t[i] = s[i] - f[k] + v /\ t[i - 1] = s[i - 1] - f[k] + v
        BY <3>4, <3>1
      <4> HIDE DEF t, g
      <4> QED BY <4>1, <4>2, <3>1
    <3> QED BY <3>2, <3>3, <3>4
  <2> HIDE DEF t, g
  <2> QED BY <2>2, <2>3 DEF PrefixSums
<1>5. r[N] = t[N]
  <2> HIDE DEF t, g
  <2> QED BY <1>1, <1>3, <1>4, PrefixSumsUnique
<1>6. t[N] = s[N] - f[k] + v
  OBVIOUS
<1> QED BY <1>2, <1>3, <1>5, <1>6

(* The same, for two functions that differ at one place.                   *)
LEMMA TotalChange ==
  ASSUME NEW N \in Nat, NEW f \in [1 .. N -> Int], NEW h \in [1 .. N -> Int],
         NEW k \in 1 .. N, \A i \in (1 .. N) \ {k} : h[i] = f[i]
  PROVE  Total(f, N) \in Int /\ Total(h, N) = Total(f, N) - f[k] + h[k]
<1>1. \A v \in Int : Total([f EXCEPT ![k] = v], N) = Total(f, N) - f[k] + v
  BY TotalUpdate
<1>2. h[k] \in Int /\ h = [f EXCEPT ![k] = h[k]]
  OBVIOUS
<1>3. PICK s : PrefixSums(s, f, N) /\ Total(f, N) = s[N]
  BY TotalIsPrefixSum
<1>4. Total(f, N) \in Int
  BY <1>3 DEF PrefixSums
<1>5. Total(h, N) = Total(f, N) - f[k] + h[k]
  BY <1>1, <1>2
<1> QED BY <1>4, <1>5

(* One more entry adds its value.                                          *)
LEMMA TotalAppend ==
  ASSUME NEW N \in Nat, NEW f \in [1 .. N -> Int], NEW g \in [1 .. N + 1 -> Int],
         \A k \in 1 .. N : g[k] = f[k]
  PROVE  Total(g, N + 1) = Total(f, N) + g[N + 1]
<1>1. PICK s : PrefixSums(s, f, N) /\ Total(f, N) = s[N]
  BY TotalIsPrefixSum
<1>2. PICK r : PrefixSums(r, g, N + 1) /\ Total(g, N + 1) = r[N + 1]
  <2>1. N + 1 \in Nat
    OBVIOUS
  <2> QED BY <2>1, TotalIsPrefixSum
<1> DEFINE t == [i \in 0 .. N |-> r[i]]
<1>3. PrefixSums(t, f, N)
  BY <1>2 DEF PrefixSums
<1>4. s[N] = t[N]
  <2> HIDE DEF t
  <2> QED BY <1>1, <1>3, PrefixSumsUnique
<1>5. r[N + 1] = r[N] + g[N + 1]
  BY <1>2 DEF PrefixSums
<1> QED BY <1>1, <1>2, <1>4, <1>5

(* A sum of natural numbers is not below any of its terms.                 *)
LEMMA TotalCoversEach ==
  ASSUME NEW N \in Nat, NEW f \in [1 .. N -> Nat]
  PROVE  /\ Total(f, N) \in Nat
         /\ \A k \in 1 .. N : f[k] <= Total(f, N)
<1>1. f \in [1 .. N -> Int]
  OBVIOUS
<1>2. PICK s : PrefixSums(s, f, N) /\ Total(f, N) = s[N]
  BY <1>1, TotalIsPrefixSum
<1>3. s \in [0 .. N -> Int]
  BY <1>2 DEF PrefixSums
<1> DEFINE Bad == {m \in 0 .. N : s[m] < 0 \/ \E k \in 1 .. m : s[m] < f[k]}
<1>4. Bad = {}
  <2>1. SUFFICES ASSUME Bad # {} PROVE FALSE
    OBVIOUS
  <2>2. Bad \subseteq Nat
    OBVIOUS
  <2>3. PICK m \in Bad : \A n \in Bad : m <= n
    <3> HIDE DEF Bad
    <3> QED BY <2>1, <2>2, LeastNatural
  <2>4. m # 0
    BY <2>3, <1>2 DEF PrefixSums
  <2>5. m - 1 \in 0 .. N /\ m - 1 \notin Bad /\ m \in 1 .. N
    BY <2>3, <2>4
  <2>6. s[m] = s[m - 1] + f[m] /\ f[m] \in Nat
    BY <2>5, <1>2 DEF PrefixSums
  <2>7. s[m - 1] >= 0 /\ \A k \in 1 .. m - 1 : s[m - 1] >= f[k]
    BY <2>5, <1>3
  <2>8. s[m] >= 0 /\ s[m] >= f[m]
    BY <2>6, <2>7, <2>5, <1>3
  <2>9. ASSUME NEW k \in 1 .. m PROVE s[m] >= f[k]
    <3>1. CASE k = m BY <3>1, <2>8
    <3>2. CASE k # m
      <4>1. k \in 1 .. m - 1 BY <3>2, <2>5
      <4> QED BY <4>1, <2>6, <2>7, <2>5, <1>3
    <3> QED BY <3>1, <3>2
  <2> QED BY <2>3, <2>8, <2>9, <2>5, <1>3
<1>5. N \notin Bad
  BY <1>4
<1> QED BY <1>2, <1>3, <1>5

(* Sums keep what holds of their terms in proportion, up to a rest of e a  *)
(* term.                                                                   *)
LEMMA TotalScaledBy ==
  ASSUME NEW N \in Nat, NEW f \in [1 .. N -> Nat], NEW h \in [1 .. N -> Nat],
         NEW c \in Nat, NEW d \in Nat, NEW e \in Nat,
         \A i \in 1 .. N : f[i] * c <= h[i] * d + e
  PROVE  Total(f, N) * c <= Total(h, N) * d + N * e
<1>0. f \in [1 .. N -> Int] /\ h \in [1 .. N -> Int]
  OBVIOUS
<1>1. PICK s : PrefixSums(s, f, N) /\ Total(f, N) = s[N]
  BY <1>0, TotalIsPrefixSum
<1>2. PICK t : PrefixSums(t, h, N) /\ Total(h, N) = t[N]
  BY <1>0, TotalIsPrefixSum
<1>3. s \in [0 .. N -> Int] /\ t \in [0 .. N -> Int]
  BY <1>1, <1>2 DEF PrefixSums
<1> DEFINE Bad == {m \in 0 .. N : ~ (s[m] * c <= t[m] * d + m * e)}
<1>4. Bad = {}
  <2>1. SUFFICES ASSUME Bad # {} PROVE FALSE
    OBVIOUS
  <2>2. Bad \subseteq Nat
    OBVIOUS
  <2>3. PICK m \in Bad : \A n \in Bad : m <= n
    <3> HIDE DEF Bad
    <3> QED BY <2>1, <2>2, LeastNatural
  <2>4. m # 0
    <3>1. s[0] = 0 /\ t[0] = 0
      BY <1>1, <1>2 DEF PrefixSums
    <3>2. 0 * c = 0 /\ 0 * d = 0 /\ 0 * e = 0
      OBVIOUS
    <3> QED BY <2>3, <3>1, <3>2
  <2>5. m - 1 \in 0 .. N /\ m - 1 \notin Bad /\ m \in 1 .. N
    BY <2>3, <2>4
  <2>6. s[m] = s[m - 1] + f[m] /\ t[m] = t[m - 1] + h[m]
    BY <2>5, <1>1, <1>2 DEF PrefixSums
  <2> DEFINE p == s[m - 1]
             q == t[m - 1]
             x == f[m]
             y == h[m]
             k == m - 1
  <2>7. /\ p \in Int /\ q \in Int /\ x \in Int /\ y \in Int /\ k \in Nat /\ m = k + 1
        /\ p * c <= q * d + k * e /\ x * c <= y * d + e
    BY <2>5, <1>3
  <2>8. ~ (s[m] * c <= t[m] * d + m * e)
    BY <2>3
  <2>9. s[m] = p + x /\ t[m] = q + y
    BY <2>6
  <2> HIDE DEF p, q, x, y, k, Bad
  <2>10. (p + x) * c <= (q + y) * d + (k + 1) * e
    <3>1. /\ (p + x) * c = p * c + x * c /\ (q + y) * d = q * d + y * d
          /\ (k + 1) * e = k * e + e
      BY <2>7
    <3>2. p * c \in Int /\ x * c \in Int /\ q * d \in Int /\ y * d \in Int /\ k * e \in Int
      BY <2>7
    <3> QED BY <3>1, <3>2, <2>7
  <2> QED BY <2>7, <2>8, <2>9, <2>10
<1>5. N \notin Bad
  BY <1>4
<1> QED BY <1>1, <1>2, <1>5

LEMMA TotalScaled ==
  ASSUME NEW N \in Nat, NEW f \in [1 .. N -> Nat], NEW h \in [1 .. N -> Nat],
         NEW c \in Nat, NEW d \in Nat, \A i \in 1 .. N : f[i] * c <= h[i] * d
  PROVE  Total(f, N) * c <= Total(h, N) * d
<1>1. \A i \in 1 .. N : f[i] * c <= h[i] * d + 0
  <2> SUFFICES ASSUME NEW i \in 1 .. N PROVE f[i] * c <= h[i] * d + 0
    OBVIOUS
  <2>1. h[i] * d \in Int /\ f[i] * c <= h[i] * d
    OBVIOUS
  <2> QED BY <2>1
<1>2. Total(f, N) * c <= Total(h, N) * d + N * 0
  BY <1>1, TotalScaledBy
<1>3. Total(h, N) \in Nat
  BY TotalCoversEach
<1>4. Total(h, N) * d \in Int /\ N * 0 = 0
  BY <1>3
<1> QED BY <1>2, <1>4

(* w lists the prefixes of s with x left out, up to n.                     *)
PrefixLists(w, s, x, S, n) ==
  /\ w \in [0 .. n -> Seq(S)]
  /\ w[0] = <<>>
  /\ \A k \in 1 .. n : w[k] = IF s[k] = x THEN w[k - 1] ELSE Append(w[k - 1], s[k])

(* The lists rebuilt from the prefixes of s, without x, exist.             *)
LEMMA PrefixListsExist ==
  ASSUME NEW S, NEW s \in Seq(S), NEW x
  PROVE  \E w : PrefixLists(w, s, x, S, Len(s))
<1> DEFINE N == Len(s)
           Bad == {m \in 0 .. N : ~ \E w : PrefixLists(w, s, x, S, m)}
<1>1. SUFFICES ASSUME Bad # {} PROVE FALSE
  <2>1. N \in Nat
    OBVIOUS
  <2>2. Bad = {} => N \notin Bad
    OBVIOUS
  <2> QED BY <2>1, <2>2
<1>2. Bad \subseteq Nat
  OBVIOUS
<1>3. PICK m \in Bad : \A n \in Bad : m <= n
  <2> HIDE DEF Bad
  <2> QED BY <1>1, <1>2, LeastNatural
<1>4. m # 0
  <2>1. PrefixLists([k \in 0 .. 0 |-> <<>>], s, x, S, 0)
    BY DEF PrefixLists
  <2> QED BY <1>3, <2>1
<1>5. m - 1 \in 0 .. N /\ m - 1 \notin Bad /\ m \in 1 .. N
  BY <1>3, <1>4
<1>6. PICK w : PrefixLists(w, s, x, S, m - 1)
  BY <1>5
<1> DEFINE last == IF s[m] = x THEN w[m - 1] ELSE Append(w[m - 1], s[m])
           t == [k \in 0 .. m |-> IF k = m THEN last ELSE w[k]]
<1>7. PrefixLists(t, s, x, S, m)
  <2>1. w \in [0 .. m - 1 -> Seq(S)] /\ w[0] = <<>>
    BY <1>6 DEF PrefixLists
  <2>2. s[m] \in S
    BY <1>5, ElementOfSeq
  <2>3. last \in Seq(S)
    <3>1. w[m - 1] \in Seq(S)
      BY <2>1, <1>5
    <3> QED BY <3>1, <2>2
  <2>4. t \in [0 .. m -> Seq(S)] /\ t[0] = <<>>
    <3> HIDE DEF last
    <3> QED BY <2>1, <2>3, <1>5
  <2>5. ASSUME NEW k \in 1 .. m
        PROVE  t[k] = IF s[k] = x THEN t[k - 1] ELSE Append(t[k - 1], s[k])
    <3>1. CASE k = m
      BY <3>1, <1>5
    <3>2. CASE k # m
      <4>1. k \in 1 .. m - 1 /\ t[k] = w[k] /\ t[k - 1] = w[k - 1]
        BY <3>2, <1>5
      <4> HIDE DEF t
      <4> QED BY <4>1, <1>6 DEF PrefixLists
    <3> QED BY <3>1, <3>2
  <2> HIDE DEF t
  <2> QED BY <2>4, <2>5 DEF PrefixLists
<1> QED BY <1>7, <1>3

(* Without is the last of them.                                            *)
LEMMA WithoutIsPrefixList ==
  ASSUME NEW S, NEW s \in Seq(S), NEW x
  PROVE  \E w : PrefixLists(w, s, x, S, Len(s)) /\ Without(s, x) = w[Len(s)]
<1> DEFINE N == Len(s)
           Next(u, k) == IF s[k] = x THEN u[k - 1] ELSE Append(u[k - 1], s[k])
           Fits(u) == u = [k \in 0 .. N |-> IF k = 0 THEN <<>> ELSE Next(u, k)]
           upTo == CHOOSE u : Fits(u)
<1>0. N \in Nat
  OBVIOUS
<1>1. Without(s, x) = upTo[N]
  BY Zenon DEF Without
<1>2. PICK w : PrefixLists(w, s, x, S, N)
  BY PrefixListsExist
<1>3. Fits(w)
  <2> DEFINE r == [k \in 0 .. N |-> IF k = 0 THEN <<>> ELSE Next(w, k)]
  <2>1. w \in [0 .. N -> Seq(S)] /\ w[0] = <<>>
    BY <1>2 DEF PrefixLists
  <2>2. ASSUME NEW k \in 0 .. N
        PROVE  w[k] = IF k = 0 THEN <<>> ELSE Next(w, k)
    <3>1. CASE k = 0
      BY <3>1, <2>1
    <3>2. CASE k # 0
      <4>1. k \in 1 .. N
        BY <3>2, <1>0
      <4> QED BY <4>1, <3>2, <1>2 DEF PrefixLists
    <3> QED BY <3>1, <3>2
  <2> HIDE DEF Next
  <2> QED BY <2>1, <2>2
<1>4. Fits(upTo)
  <2> HIDE DEF Fits
  <2> QED BY <1>3
<1> HIDE DEF upTo
<1>5. \A k \in 0 .. N : upTo[k] = IF k = 0 THEN <<>> ELSE Next(upTo, k)
  <2> HIDE DEF Next
  <2> QED BY <1>4
<1> HIDE DEF Fits
<1> DEFINE Bad == {m \in 0 .. N : w[m] # upTo[m]}
<1>6. Bad = {}
  <2>1. SUFFICES ASSUME Bad # {} PROVE FALSE
    OBVIOUS
  <2>2. Bad \subseteq Nat
    OBVIOUS
  <2>3. PICK m \in Bad : \A n \in Bad : m <= n
    <3> HIDE DEF Bad
    <3> QED BY <2>1, <2>2, LeastNatural
  <2>4. m # 0
    BY <2>3, <1>2, <1>5 DEF PrefixLists
  <2>5. m - 1 \in 0 .. N /\ m - 1 \notin Bad /\ m \in 1 .. N
    BY <2>3, <2>4, <1>0
  <2>6. w[m] = Next(w, m) /\ upTo[m] = Next(upTo, m) /\ w[m - 1] = upTo[m - 1]
    BY <2>5, <2>4, <1>2, <1>5 DEF PrefixLists
  <2> QED BY <2>6, <2>3
<1>7. N \notin Bad
  BY <1>6
<1> QED BY <1>0, <1>1, <1>2, <1>7

(* Without keeps exactly the elements other than x, and keeps them         *)
(* distinct if they were.                                                  *)
LEMMA WithoutFacts ==
  ASSUME NEW S, NEW s \in Seq(S), NEW x
  PROVE  /\ Without(s, x) \in Seq(S)
         /\ Range(Without(s, x)) = Range(s) \ {x}
         /\ IsInjective(s) => IsInjective(Without(s, x))
<1> DEFINE N == Len(s)
<1>0. N \in Nat /\ DOMAIN s = 1 .. N
  OBVIOUS
<1>1. PICK w : PrefixLists(w, s, x, S, N) /\ Without(s, x) = w[N]
  BY WithoutIsPrefixList
<1>2. \A k \in 0 .. N : w[k] \in Seq(S)
  BY <1>1 DEF PrefixLists
<1> DEFINE Kept(k) == {s[i] : i \in 1 .. k} \ {x}
           Elements(k) == {w[k][i] : i \in 1 .. Len(w[k])}
           Once(k) == \A i, j \in 1 .. Len(w[k]) : w[k][i] = w[k][j] => i = j
           Good(k) == Elements(k) = Kept(k) /\ (IsInjective(s) => Once(k))
           Bad == {m \in 0 .. N : ~ Good(m)}
<1>3. Bad = {}
  <2>1. SUFFICES ASSUME Bad # {} PROVE FALSE
    OBVIOUS
  <2>2. Bad \subseteq Nat
    OBVIOUS
  <2>3. PICK m \in Bad : \A n \in Bad : m <= n
    <3> HIDE DEF Bad
    <3> QED BY <2>1, <2>2, LeastNatural
  <2>4. m # 0
    <3>1. w[0] = <<>>
      BY <1>1 DEF PrefixLists
    <3>2. Good(0)
      BY <3>1
    <3> HIDE DEF Good
    <3> QED BY <2>3, <3>2
  <2>5. m - 1 \in 0 .. N /\ m \in 1 .. N /\ m - 1 \notin Bad
    <3> HIDE DEF Good
    <3> QED BY <2>3, <2>4, <1>0
  <2>6. Good(m - 1)
    <3> HIDE DEF Good
    <3> QED BY <2>5
  <2>7. w[m] = IF s[m] = x THEN w[m - 1] ELSE Append(w[m - 1], s[m])
    BY <2>5, <1>1 DEF PrefixLists
  <2>8. {s[i] : i \in 1 .. m} = {s[i] : i \in 1 .. m - 1} \cup {s[m]}
    BY <2>5
  <2>9. Good(m)
    <3>1. CASE s[m] = x
      <4>1. w[m] = w[m - 1]
        BY <3>1, <2>7
      <4>2. Kept(m) = Kept(m - 1)
        BY <3>1, <2>8
      <4> HIDE DEF Kept
      <4> QED BY <4>1, <4>2, <2>6
    <3>2. CASE s[m] # x
      <4> DEFINE u == w[m - 1]
                 L == Len(u)
      <4>1. u \in Seq(S) /\ L \in Nat /\ w[m] = Append(u, s[m]) /\ s[m] \in S
        BY <3>2, <2>7, <2>5, <1>2, ElementOfSeq
      <4>2. /\ Len(w[m]) = L + 1
            /\ \A i \in 1 .. L : w[m][i] = u[i]
            /\ w[m][L + 1] = s[m]
        <5> HIDE DEF u
        <5> QED BY <4>1
      <4>3. Elements(m) = Elements(m - 1) \cup {s[m]}
        <5> HIDE DEF u
        <5>1. 1 .. L + 1 = (1 .. L) \cup {L + 1}
          BY <4>1
        <5>2. Elements(m - 1) = {u[i] : i \in 1 .. L}
          BY DEF u
        <5>3. Elements(m) = {w[m][i] : i \in 1 .. L + 1}
          BY <4>2
        <5>4. {w[m][i] : i \in 1 .. L} = {u[i] : i \in 1 .. L}
          BY <4>2
        <5>5. {w[m][i] : i \in 1 .. L + 1} = {w[m][i] : i \in 1 .. L} \cup {w[m][L + 1]}
          <6> HIDE DEF L
          <6> QED BY <5>1
        <5> HIDE DEF Elements, L
        <5> QED BY <5>2, <5>3, <5>4, <5>5, <4>2
      <4>4. Kept(m) = Kept(m - 1) \cup {s[m]}
        BY <3>2, <2>8
      <4>5. ASSUME IsInjective(s) PROVE Once(m)
        <5>1. Once(m - 1)
          BY <4>5, <2>6
        <5>2. s[m] \notin Elements(m - 1)
          <6>1. \A i \in 1 .. m - 1 : s[i] # s[m]
            BY <4>5, <2>5, <1>0 DEF IsInjective
          <6> QED BY <6>1, <2>6
        <5>3. ASSUME NEW i \in 1 .. L + 1, NEW j \in 1 .. L + 1, w[m][i] = w[m][j]
              PROVE  i = j
          <6> HIDE DEF L
          <6>1. CASE i \in 1 .. L /\ j \in 1 .. L
            BY <6>1, <5>1, <5>3, <4>2, <4>1 DEF L
          <6>2. CASE i = L + 1 /\ j \in 1 .. L
            BY <6>2, <5>2, <5>3, <4>2 DEF L
          <6>3. CASE j = L + 1 /\ i \in 1 .. L
            BY <6>3, <5>2, <5>3, <4>2 DEF L
          <6> QED BY <6>1, <6>2, <6>3, <4>1
        <5> QED BY <5>3, <4>2
      <4>6. Elements(m) = Kept(m)
        <5> HIDE DEF Elements, Kept
        <5> QED BY <4>3, <4>4, <2>6
      <4> HIDE DEF Elements, Kept, Once
      <4> QED BY <4>5, <4>6
    <3> QED BY <3>1, <3>2
  <2> HIDE DEF Good
  <2> QED BY <2>9, <2>3
<1>4. Good(N)
  <2>1. N \notin Bad
    BY <1>3
  <2> HIDE DEF Good
  <2> QED BY <2>1, <1>0
<1>5. w[N] \in Seq(S) /\ DOMAIN w[N] = 1 .. Len(w[N])
  BY <1>2, <1>0
<1>6. Range(w[N]) = Elements(N) /\ Range(s) = {s[i] : i \in 1 .. N}
  BY <1>5, <1>0 DEF Range
<1> QED BY <1>1, <1>4, <1>5, <1>6 DEF IsInjective
-----------------------------------------------------------------------------
(* g lists each member of S once between 1 and N; t are the terms of f at  *)
(* what g lists, and 0 where that is not in S.                             *)
Lists(g, N, S) ==
  \A x \in S : \E i \in 1 .. N : g[i] = x /\ \A j \in 1 .. N : g[j] = x => j = i
ListedTerms(t, f, g, N, S) ==
  /\ t \in [1 .. N -> Int]
  /\ \A i \in 1 .. N : t[i] = IF g[i] \in S THEN f[g[i]] ELSE 0

(* Removing one member of a set that g lists removes its term.             *)
LEMMA ListedTermsLess ==
  ASSUME NEW N \in Nat, NEW g, NEW S, Lists(g, N, S), NEW f \in [S -> Int],
         NEW x \in S, NEW q, NEW r,
         ListedTerms(q, f, g, N, S), ListedTerms(r, f, g, N, S \ {x})
  PROVE  Total(r, N) \in Int /\ Total(q, N) = f[x] + Total(r, N)
<1>1. PICK i \in 1 .. N : g[i] = x /\ \A j \in 1 .. N : g[j] = x => j = i
  BY DEF Lists
<1>2. r \in [1 .. N -> Int] /\ q \in [1 .. N -> Int]
  BY DEF ListedTerms
<1>3. r[i] = 0 /\ q[i] = f[x] /\ f[x] \in Int
  BY <1>1 DEF ListedTerms
<1>4. \A j \in (1 .. N) \ {i} : q[j] = r[j]
  BY <1>1 DEF ListedTerms
<1>5. Total(r, N) \in Int /\ Total(q, N) = Total(r, N) - r[i] + q[i]
  BY <1>2, <1>4, TotalChange
<1> QED BY <1>3, <1>5

(* SumFunction over S adds up the terms g lists.                           *)
LEMMA SumIsTotal ==
  ASSUME NEW S, IsFiniteSet(S), NEW f \in [S -> Int],
         NEW N \in Nat, NEW g, Lists(g, N, S), NEW t, ListedTerms(t, f, g, N, S)
  PROVE  SumFunction(f) = Total(t, N)
<1> DEFINE listed(T) == [i \in 1 .. N |-> IF g[i] \in T THEN f[g[i]] ELSE 0]
           part == [T \in SUBSET S |-> Total(listed(T), N)]
           one(T) == CHOOSE x \in T : TRUE
           Fits(u) == u = [T \in SUBSET S |->
                             IF T = {} THEN 0 ELSE f[one(T)] + u[T \ {one(T)}]]
           iter == CHOOSE u : Fits(u)
<1>1. \A T \in SUBSET S : ListedTerms(listed(T), f, g, N, T)
  BY DEF ListedTerms
<1>2. SumFunction(f) = iter[S]
  BY Zenon DEF SumFunction, SumFunctionOnSet, FoldFunctionOnSet, MapThenFoldSet
<1>3. part[{}] = 0
  <2>1. listed({}) = [i \in 1 .. N |-> 0]
    OBVIOUS
  <2> HIDE DEF listed
  <2> QED BY <2>1, TotalOfZeros
<1>4. ASSUME NEW T \in SUBSET S, NEW x \in T
      PROVE  part[T] = f[x] + part[T \ {x}]
  <2> DEFINE r == listed(T \ {x})
             q == listed(T)
             h == [y \in T |-> f[y]]
  <2>1. T \ {x} \in SUBSET S /\ part[T] = Total(q, N) /\ part[T \ {x}] = Total(r, N)
    OBVIOUS
  <2>2. h \in [T -> Int] /\ h[x] = f[x]
    OBVIOUS
  <2>3. ListedTerms(q, h, g, N, T) /\ ListedTerms(r, h, g, N, T \ {x})
    BY DEF ListedTerms
  <2>4. Lists(g, N, T)
    BY DEF Lists
  <2> HIDE DEF r, q, h, part
  <2>5. Total(q, N) = h[x] + Total(r, N)
    BY <2>2, <2>3, <2>4, ListedTermsLess
  <2> QED BY <2>1, <2>2, <2>5
<1>5. \A T \in SUBSET S : T # {} => one(T) \in T /\ T \ {one(T)} \in SUBSET S
  OBVIOUS
<1> HIDE DEF one
<1>6. Fits(part)
  <2> HIDE DEF listed
  <2>1. \A T \in SUBSET S :
          part[T] = IF T = {} THEN 0 ELSE f[one(T)] + part[T \ {one(T)}]
    <3> HIDE DEF part
    <3> QED BY <1>3, <1>4, <1>5
  <2>2. part = [T \in SUBSET S |-> part[T]]
    OBVIOUS
  <2> HIDE DEF part
  <2> QED BY <2>1, <2>2
<1>7. Fits(iter)
  <2> HIDE DEF Fits, part
  <2> QED BY <1>6
<1> HIDE DEF iter
<1>8. \A T \in SUBSET S : iter[T] = IF T = {} THEN 0 ELSE f[one(T)] + iter[T \ {one(T)}]
  BY <1>7
<1> HIDE DEF Fits, part
<1> DEFINE Wrong == {T \in SUBSET S : iter[T] # part[T]}
           Sizes == {Cardinality(T) : T \in Wrong}
<1>9. Wrong = {}
  <2>1. SUFFICES ASSUME Wrong # {} PROVE FALSE
    OBVIOUS
  <2>2. \A T \in SUBSET S : IsFiniteSet(T) /\ Cardinality(T) \in Nat
    BY FS_Subset, FS_CardinalityType
  <2>3. Sizes \subseteq Nat /\ Sizes # {}
    BY <2>1, <2>2
  <2>4. PICK m \in Sizes : \A n \in Sizes : m <= n
    <3> HIDE DEF Sizes
    <3> QED BY <2>3, LeastNatural
  <2>5. PICK T \in Wrong : m = Cardinality(T)
    OBVIOUS
  <2>6. T # {}
    BY <1>3, <1>8
  <2> DEFINE rest == T \ {one(T)}
  <2>7. rest \in SUBSET S /\ one(T) \in T /\ Cardinality(rest) = Cardinality(T) - 1
    BY <1>5, <2>2, <2>6, FS_RemoveElement
  <2>8. rest \notin Wrong
    <3> HIDE DEF Wrong
    <3> SUFFICES ASSUME rest \in Wrong PROVE FALSE
      OBVIOUS
    <3>1. Cardinality(rest) \in Sizes
      OBVIOUS
    <3> HIDE DEF rest, Sizes
    <3> QED BY <2>2, <2>4, <2>5, <2>7, <3>1 DEF Wrong
  <2>9. iter[rest] = part[rest]
    BY <2>7, <2>8
  <2> HIDE DEF rest
  <2> QED BY <1>4, <1>8, <2>5, <2>6, <2>7, <2>9 DEF rest
<1>10. iter[S] = part[S]
  BY <1>9
<1>11. t = listed(S)
  BY DEF ListedTerms
<1> QED BY <1>2, <1>10, <1>11 DEF part

(* A finite set can be listed, each member once.                           *)
LEMMA Listing ==
  ASSUME NEW S, IsFiniteSet(S)
  PROVE  \E N \in Nat : N = Cardinality(S) /\ \E g \in [1 .. N -> S] : Lists(g, N, S)
<1>1. Cardinality(S) \in Nat /\ ExistsBijection(1 .. Cardinality(S), S)
  BY FS_CardinalityType
<1>2. PICK g : g \in Bijection(1 .. Cardinality(S), S)
  BY <1>1 DEF ExistsBijection
<1>3. g \in [1 .. Cardinality(S) -> S]
  BY <1>2 DEF Bijection, Injection, Surjection
<1>4. Lists(g, Cardinality(S), S)
  BY <1>2 DEF Lists, Bijection, Injection, Surjection, IsInjective
<1> QED BY <1>1, <1>3, <1>4

(* The listed terms of a function exist.                                   *)
LEMMA ListedTermsExist ==
  ASSUME NEW S, NEW f \in [S -> Int], NEW N \in Nat, NEW g \in [1 .. N -> S]
  PROVE  \E t : ListedTerms(t, f, g, N, S)
<1> DEFINE t == [i \in 1 .. N |-> IF g[i] \in S THEN f[g[i]] ELSE 0]
<1>1. ListedTerms(t, f, g, N, S)
  BY DEF ListedTerms
<1> QED BY <1>1

(* A function with a finite domain has an integer sum, which changes by    *)
(* the difference when one entry changes.                                  *)
LEMMA SumUpdate ==
  ASSUME NEW S, IsFiniteSet(S), NEW f \in [S -> Int], NEW h \in [S -> Int],
         NEW x \in S, \A y \in S \ {x} : h[y] = f[y]
  PROVE  SumFunction(f) \in Int /\ SumFunction(h) = SumFunction(f) - f[x] + h[x]
<1>1. PICK N \in Nat : \E g \in [1 .. N -> S] : Lists(g, N, S)
  BY Listing
<1>2. PICK g \in [1 .. N -> S] : Lists(g, N, S)
  BY <1>1
<1>3. PICK t : ListedTerms(t, f, g, N, S)
  BY ListedTermsExist
<1>4. PICK u : ListedTerms(u, h, g, N, S)
  BY ListedTermsExist
<1>5. SumFunction(f) = Total(t, N) /\ SumFunction(h) = Total(u, N)
  BY <1>2, <1>3, <1>4, SumIsTotal
<1>6. PICK k \in 1 .. N : g[k] = x /\ \A j \in 1 .. N : g[j] = x => j = k
  BY <1>2 DEF Lists
<1>7. t \in [1 .. N -> Int] /\ u \in [1 .. N -> Int]
  BY <1>3, <1>4 DEF ListedTerms
<1>8. t[k] = f[x] /\ u[k] = h[x] /\ \A i \in (1 .. N) \ {k} : u[i] = t[i]
  BY <1>3, <1>4, <1>6 DEF ListedTerms
<1>9. Total(t, N) \in Int /\ Total(u, N) = Total(t, N) - t[k] + u[k]
  BY <1>7, <1>8, TotalChange
<1> QED BY <1>5, <1>8, <1>9

(* A sum of natural numbers is one, and not below any of its terms.        *)
LEMMA SumCoversEach ==
  ASSUME NEW S, IsFiniteSet(S), NEW f \in [S -> Nat]
  PROVE  SumFunction(f) \in Nat /\ \A x \in S : f[x] <= SumFunction(f)
<1>0. f \in [S -> Int]
  OBVIOUS
<1>1. PICK N \in Nat : \E g \in [1 .. N -> S] : Lists(g, N, S)
  BY Listing
<1>2. PICK g \in [1 .. N -> S] : Lists(g, N, S)
  BY <1>1
<1>3. PICK t : ListedTerms(t, f, g, N, S)
  BY <1>0, ListedTermsExist
<1>4. SumFunction(f) = Total(t, N)
  BY <1>0, <1>2, <1>3, SumIsTotal
<1>5. t \in [1 .. N -> Nat]
  BY <1>3 DEF ListedTerms
<1>6. Total(t, N) \in Nat /\ \A k \in 1 .. N : t[k] <= Total(t, N)
  BY <1>5, TotalCoversEach
<1>7. ASSUME NEW x \in S PROVE f[x] <= SumFunction(f)
  <2>1. PICK k \in 1 .. N : g[k] = x
    BY <1>2 DEF Lists
  <2>2. t[k] = f[x]
    BY <1>3, <2>1 DEF ListedTerms
  <2> QED BY <1>4, <1>6, <2>2
<1> QED BY <1>4, <1>6, <1>7

LEMMA SumScaledBy ==
  ASSUME NEW S, IsFiniteSet(S), NEW f \in [S -> Nat], NEW h \in [S -> Nat],
         NEW c \in Nat, NEW d \in Nat, NEW e \in Nat,
         \A x \in S : f[x] * c <= h[x] * d + e
  PROVE  SumFunction(f) * c <= SumFunction(h) * d + Cardinality(S) * e
<1>0. f \in [S -> Int] /\ h \in [S -> Int]
  OBVIOUS
<1>1. PICK N \in Nat : N = Cardinality(S) /\ \E g \in [1 .. N -> S] : Lists(g, N, S)
  BY Listing
<1>2. PICK g \in [1 .. N -> S] : Lists(g, N, S)
  BY <1>1
<1>3. PICK t : ListedTerms(t, f, g, N, S)
  BY <1>0, ListedTermsExist
<1>4. PICK u : ListedTerms(u, h, g, N, S)
  BY <1>0, ListedTermsExist
<1>5. SumFunction(f) = Total(t, N) /\ SumFunction(h) = Total(u, N)
  BY <1>0, <1>2, <1>3, <1>4, SumIsTotal
<1>6. t \in [1 .. N -> Nat] /\ u \in [1 .. N -> Nat]
  BY <1>3, <1>4 DEF ListedTerms
<1>7. \A i \in 1 .. N : t[i] * c <= u[i] * d + e
  BY <1>3, <1>4 DEF ListedTerms
<1>8. Total(t, N) * c <= Total(u, N) * d + N * e
  BY <1>6, <1>7, TotalScaledBy
<1> QED BY <1>1, <1>5, <1>8

(* A sum is not below that of smaller terms.                               *)
LEMMA SumGrows ==
  ASSUME NEW S, IsFiniteSet(S), NEW f \in [S -> Nat], NEW h \in [S -> Nat],
         \A x \in S : f[x] <= h[x]
  PROVE  SumFunction(f) <= SumFunction(h)
<1>1. SumFunction(f) \in Nat /\ SumFunction(h) \in Nat /\ Cardinality(S) \in Nat
  BY SumCoversEach, FS_CardinalityType
<1>2. \A x \in S : f[x] * 1 <= h[x] * 1 + 0
  OBVIOUS
<1>3. SumFunction(f) * 1 <= SumFunction(h) * 1 + Cardinality(S) * 0
  BY <1>2, SumScaledBy
<1> QED BY <1>1, <1>3

(* The sum over some of the numbers 1 to N is the sum over all of them     *)
(* with zeros for the others.                                              *)
LEMMA SumWithZeros ==
  ASSUME NEW N \in Nat, NEW S, S \subseteq 1 .. N, NEW f \in [S -> Int]
  PROVE  SumFunction(f) = Total([i \in 1 .. N |-> IF i \in S THEN f[i] ELSE 0], N)
<1> DEFINE g == [i \in 1 .. N |-> i]
           t == [i \in 1 .. N |-> IF i \in S THEN f[i] ELSE 0]
<1>1. IsFiniteSet(S)
  <2>1. IsFiniteSet(1 .. N)
    BY FS_Interval
  <2> QED BY <2>1, FS_Subset
<1>2. Lists(g, N, S)
  BY DEF Lists
<1>3. ListedTerms(t, f, g, N, S)
  BY DEF ListedTerms
<1> HIDE DEF g, t
<1>4. SumFunction(f) = Total(t, N)
  BY <1>1, <1>2, <1>3, SumIsTotal
<1> QED BY <1>4 DEF t

(* Adding up along a list that holds each number of S once.                *)
LEMMA SumAlongList ==
  ASSUME NEW N \in Nat, NEW S, S \subseteq 1 .. N, NEW f \in [S -> Int],
         NEW list \in Seq(1 .. N), Range(list) = S, IsInjective(list)
  PROVE  SumFunction(f) = Total([i \in 1 .. Len(list) |-> f[list[i]]], Len(list))
<1> DEFINE n == Len(list)
           t == [i \in 1 .. n |-> f[list[i]]]
<1>1. IsFiniteSet(S)
  <2>1. IsFiniteSet(1 .. N)
    BY FS_Interval
  <2> QED BY <2>1, FS_Subset
<1>2. n \in Nat /\ DOMAIN list = 1 .. n
  OBVIOUS
<1>3. Lists(list, n, S)
  BY <1>2 DEF Lists, Range, IsInjective
<1>4. \A i \in 1 .. n : list[i] \in S
  BY <1>2 DEF Range
<1>5. ListedTerms(t, f, list, n, S)
  BY <1>4 DEF ListedTerms
<1> HIDE DEF n, t
<1>6. SumFunction(f) = Total(t, n)
  BY <1>1, <1>2, <1>3, <1>5, SumIsTotal
<1> QED BY <1>6 DEF t, n
-----------------------------------------------------------------------------

(* Inequalities keep their order under a positive factor, both ways.       *)
LEMMA Scaled ==
  ASSUME NEW a \in Int, NEW b \in Int, NEW c \in Nat
  PROVE  /\ a <= b => a * c <= b * c
         /\ c > 0 /\ a * c <= b * c => a <= b
<1>1. ASSUME c > 0, a * c <= b * c, a > b
      PROVE  FALSE
  <2>1. a >= b + 1
    BY <1>1
  <2>2. a * c >= (b + 1) * c
    BY <2>1
  <2>3. (b + 1) * c = b * c + c
    OBVIOUS
  <2>4. a * c \in Int /\ b * c \in Int
    OBVIOUS
  <2> QED BY <1>1, <2>2, <2>3, <2>4
<1>2. a <= b => a * c <= b * c
  OBVIOUS
<1> QED BY <1>1, <1>2

(* A quotient is the largest number whose product fits.                    *)
LEMMA QuotientBounds ==
  ASSUME NEW n \in Nat, NEW i \in Nat \ {0}
  PROVE  n \div i \in Nat /\ (\A k \in Nat : k * i <= n => k <= n \div i)
<1> DEFINE q == n \div i
<1>1. q \in Nat /\ i * q <= n /\ n < i * q + i
  OBVIOUS
<1> SUFFICES ASSUME NEW k \in Nat, k * i <= n
             PROVE  k <= q
  BY <1>1
<1> HIDE DEF q
<1>2. (q + 1) * i = i * q + i
  BY <1>1
<1>3. ~ (q + 1 <= k)
  <2>1. q + 1 <= k => (q + 1) * i <= k * i
    BY <1>1, Scaled
  <2>2. k * i \in Nat /\ (q + 1) * i \in Nat /\ i * q + i \in Nat
    BY <1>1
  <2> QED BY <2>1, <2>2, <1>1, <1>2
<1> QED BY <1>1, <1>3

(* Quotients grow with the dividend.                                       *)
LEMMA QuotientGrows ==
  ASSUME NEW m \in Nat, NEW n \in Nat, NEW d \in Nat \ {0}, m <= n
  PROVE  m \div d \in Nat /\ m \div d <= n \div d
<1> DEFINE q == m \div d
<1>1. q \in Nat /\ d * q <= m
  OBVIOUS
<1> HIDE DEF q
<1>2. d * q = q * d /\ q * d \in Nat
  BY <1>1
<1>3. q * d <= n
  BY <1>1, <1>2
<1>4. q <= n \div d
  BY <1>1, <1>3, QuotientBounds
<1> QED BY <1>1, <1>4 DEF q
=============================================================================
