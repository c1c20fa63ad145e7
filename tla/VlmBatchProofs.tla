---------------------------- MODULE VlmBatchProofs ----------------------------
(***************************************************************************)
(* Proofs about VlmBatch: the scheduler and the generator agree, and what  *)
(* is stored stays within the budget, for every set of requests.           *)
(***************************************************************************)
EXTENDS VlmBatch, FiniteSetTheorems, SequenceTheorems, NaturalsInduction,
        WellFoundedInduction, TLAPS

-----------------------------------------------------------------------------
(* Numbers and folds. *)

(* A nonempty set of natural numbers has a least member. *)
LEMMA LeastNatural ==
    ASSUME NEW T \in SUBSET Nat, T # {}
    PROVE  \E m \in T : \A n \in T : m <= n
<1> DEFINE R == OpToRel(<, Nat)
<1>1. \A m, n \in T : n < m => <<n, m>> \in R
  BY DEF OpToRel
<1>2. IsWellFoundedOn(R, Nat)
  BY NatLessThanWellFounded
<1> HIDE DEF R
<1>3. PICK m \in T : \A n \in T : ~ (<<n, m>> \in R)
  BY <1>2, WFMin
<1>4. ASSUME NEW n \in T PROVE m <= n
  <2>1. ~ (n < m)
    BY <1>1, <1>3
  <2> QED
    BY <2>1
<1> QED
  BY <1>4

(* Min of such a set is its least member. *)
LEMMA MinOfNaturals ==
    ASSUME NEW T \in SUBSET Nat, T # {}
    PROVE  Min(T) \in T /\ \A n \in T : Min(T) <= n
  BY LeastNatural DEF Min

(* Max of a finite set that has a greatest member. *)
LEMMA MaxIs ==
    ASSUME NEW T \in SUBSET Nat, NEW m \in T, \A n \in T : n <= m
    PROVE  Max(T) = m
<1>1. Max(T) \in T /\ \A n \in T : Max(T) >= n
  BY DEF Max
<1>2. Max(T) >= m /\ Max(T) <= m /\ Max(T) \in Nat /\ m \in Nat
  BY <1>1
<1> HIDE DEF Max
<1> QED
  BY <1>2

(* Max of a nonempty set of indexes is one of them. *)
LEMMA MaxMember ==
    ASSUME NEW N \in Nat, NEW d \in SUBSET (1..N), d # {}
    PROVE  Max(d) \in d
<1> DEFINE U == {u \in Nat : \E i \in d : u = N - i}
<1>1. \A i \in d : N - i \in Nat /\ i \in Nat
  OBVIOUS
<1>2. U \in SUBSET Nat /\ U # {} /\ \A j \in d : N - j \in U
  BY <1>1
<1>3. PICK u \in U : \A v \in U : u <= v
  BY <1>2, LeastNatural
<1>4. PICK i \in d : u = N - i
  BY <1>3
<1> HIDE DEF U
<1>5. ASSUME NEW j \in d PROVE j <= i
  <2>1. N - i <= N - j /\ i \in Nat /\ j \in Nat
    BY <1>1, <1>2, <1>3, <1>4
  <2> QED
    BY <2>1
<1> QED
  BY <1>1, <1>4, <1>5, MaxIs

(* The values of a fold over the first n indexes, and any set of indexes. *)
IsFold(g, N, A, base, step) ==
    /\ g \in [SUBSET (1..N) -> A]
    /\ g[{}] = base
    /\ \A d \in SUBSET (1..N) : d # {} => g[d] = step[Max(d)][g[d \ {Max(d)}]]

(***************************************************************************)
(* The recursion behind FoldLeft is well-founded: there is a function that *)
(* satisfies it, whatever the steps do.                                    *)
(***************************************************************************)
LEMMA FoldExists ==
    ASSUME NEW N \in Nat, NEW A, NEW base \in A,
           NEW step \in [1..N -> [A -> A]]
    PROVE  \E g : IsFold(g, N, A, base, step)
<1> DEFINE Good(n, g) ==
      /\ g[{}] = base
      /\ \A d \in SUBSET (1..n) : d # {} => g[d] = step[Max(d)][g[d \ {Max(d)}]]
           Has(n) == \E g \in [SUBSET (1..n) -> A] : Good(n, g)
           T == {n \in 0..N : ~ Has(n)}
<1>a. Has(N) => \E g : IsFold(g, N, A, base, step)
  BY Zenon DEF IsFold
<1>b. \A n \in 0..N : n \notin T => Has(n)
  BY Zenon
<1>c. T \in SUBSET Nat /\ N \in 0..N
  BY SMT
<1>d. \A n \in T : ~ Has(n) /\ n \in 0..N
  BY Zenon
<1>e. ASSUME NEW n, NEW g \in [SUBSET (1..n) -> A], Good(n, g) PROVE Has(n)
  BY <1>e, Zenon
<1>f. ASSUME NEW n, Has(n) PROVE \E g \in [SUBSET (1..n) -> A] : Good(n, g)
  BY <1>f, Zenon
<1> HIDE DEF T, Has
<1>1. SUFFICES ASSUME T # {} PROVE FALSE
  BY <1>a, <1>b, <1>c, Zenon
<1>2. PICK m \in T : \A n \in T : m <= n
  BY <1>1, <1>c, LeastNatural
<1>3. m # 0
  <2> SUFFICES ASSUME m = 0 PROVE FALSE
    OBVIOUS
  <2> DEFINE g == [d \in SUBSET (1..0) |-> base]
  <2>1. SUBSET (1..0) = {{}}
    OBVIOUS
  <2>2. g \in [SUBSET (1..0) -> A] /\ Good(0, g)
    BY <2>1
  <2>3. Has(0)
    BY <2>2, <1>e
  <2> QED
    BY <2>3, <1>d
<1>4. m \in 1..N /\ m - 1 \in 0..N /\ m - 1 < m /\ m \in Nat /\ m - 1 \in Nat
  <2>1. m \in 0..N
    BY <1>d
  <2> QED
    BY <2>1, <1>3
<1>5. PICK g \in [SUBSET (1..(m-1)) -> A] : Good(m - 1, g)
  <2>1. m - 1 \notin T
    BY <1>2, <1>4
  <2>2. Has(m - 1)
    BY <2>1, <1>4, <1>b
  <2> QED
    BY <2>2, <1>f
<1> DEFINE S == SUBSET (1..(m-1))
           h == [d \in SUBSET (1..m) |-> IF d \in S THEN g[d]
                                         ELSE step[m][g[d \ {m}]]]
<1>6. \A d \in SUBSET (1..m) : d \notin S => m \in d /\ d \ {m} \in S /\ Max(d) = m
  <2> SUFFICES ASSUME NEW d \in SUBSET (1..m), d \notin S
               PROVE  m \in d /\ d \ {m} \in S /\ Max(d) = m
    OBVIOUS
  <2>1. m \in d /\ d \ {m} \in S
    BY <1>4
  <2>2. Max(d) = m
    BY <2>1, <1>4, MaxIs
  <2> QED
    BY <2>1, <2>2
<1>7. h \in [SUBSET (1..m) -> A]
  BY <1>4, <1>6
<1>8. \A d \in S : d \in SUBSET (1..m) /\ h[d] = g[d]
  BY <1>4
<1>9. \A d \in S : d # {} => Max(d) \in d
  BY <1>4, MaxMember
<1>10. Good(m, h)
  <2>1. h[{}] = base
    BY <1>5, <1>8
  <2>2. ASSUME NEW d \in SUBSET (1..m), d # {}
        PROVE h[d] = step[Max(d)][h[d \ {Max(d)}]]
    <3>1. CASE d \in S
      BY <3>1, <2>2, <1>5, <1>8, <1>9
    <3>2. CASE d \notin S
      BY <3>2, <1>6, <1>8
    <3> QED
      BY <3>1, <3>2
  <2> QED
    BY <2>1, <2>2
<1> HIDE DEF h, Good
<1>11. Has(m)
  BY <1>e, <1>7, <1>10
<1> QED
  BY <1>d, <1>11

(* The last index of a sequence and the indexes before it. *)
LEMMA LastIndex ==
    ASSUME NEW n \in Nat \ {0}
    PROVE  Max(1..n) = n /\ (1..n) \ {n} = 1..(n - 1)
<1>1. Max(1..n) = n
  BY MaxIs
<1> QED
  BY <1>1

(***************************************************************************)
(* What holds of the base and is kept by every step of a fold holds of its *)
(* result.                                                                 *)
(***************************************************************************)
LEMMA FoldInduction ==
    ASSUME NEW N \in Nat, NEW A, NEW it, it[{}] \in A,
           \A n \in 1..N : it[1..(n - 1)] \in A => it[1..n] \in A
    PROVE  it[1..N] \in A
<1> DEFINE T == {n \in 0..N : it[1..n] \notin A}
<1>1. SUFFICES ASSUME T # {} PROVE FALSE
  BY N \in 0..N
<1>2. T \in SUBSET Nat
  OBVIOUS
<1>3. PICK m \in T : \A n \in T : m <= n
  BY <1>1, <1>2, LeastNatural
<1>4. m \in 0..N /\ it[1..m] \notin A
  BY <1>3
<1>5. m # 0
  <2>1. 1..0 = {}
    OBVIOUS
  <2> QED
    BY <1>4, <2>1
<1>6. m \in 1..N /\ m - 1 \in 0..N /\ ~ (m <= m - 1)
  BY <1>4, <1>5
<1>7. m - 1 \notin T
  BY <1>3, <1>6
<1>8. it[1..(m - 1)] \in A
  BY <1>6, <1>7
<1> QED
  BY <1>4, <1>6, <1>8

-----------------------------------------------------------------------------
(* Sums. *)

Counted(z) == Len(z) \in Nat /\ DOMAIN z = 1..Len(z) /\ \A k \in 1..Len(z) : z[k] \in Nat

(* The partial sums of Total. *)
Sums(it, z) ==
    /\ it[{}] = 0
    /\ \A n \in 1..Len(z) : it[1..n] = it[1..(n - 1)] + z[n]
    /\ Total(z) = it[1..Len(z)]

LEMMA TotalHasSums ==
    ASSUME NEW z, Counted(z) PROVE \E it : Sums(it, z)
<1> DEFINE N == Len(z)
           Plus(n, size) == n + size
           step == [k \in 1..N |-> [n \in Nat |-> Plus(n, z[k])]]
<1>1. N \in Nat /\ DOMAIN z = 1..N /\ \A k \in 1..N : z[k] \in Nat
  BY DEF Counted
<1>2. Total(z) = FoldLeft(Plus, 0, z)
  BY DEF Total
<1> HIDE DEF N
<1>3. \A n \in Nat, k \in 1..N : Plus(n, z[k]) \in Nat
  BY <1>1
<1>4. step \in [1..N -> [Nat -> Nat]]
  BY <1>3
<1>5. \A k \in 1..N, n \in Nat : step[k][n] = Plus(n, z[k])
  OBVIOUS
<1> HIDE DEF step
<1>6. PICK g : IsFold(g, N, Nat, 0, step)
  BY <1>1, <1>4, FoldExists
<1> HIDE DEF Plus
<1>7. g = [d \in SUBSET (1..N) |-> IF d = {} THEN 0
                                  ELSE Plus(g[d \ {Max(d)}], z[Max(d)])]
  <2>1. ASSUME NEW d \in SUBSET (1..N), d # {}
        PROVE  g[d] = Plus(g[d \ {Max(d)}], z[Max(d)])
    <3>1. Max(d) \in 1..N /\ d \ {Max(d)} \in SUBSET (1..N)
      BY <2>1, <1>1, MaxMember
    <3>2. g[d \ {Max(d)}] \in Nat
      BY <3>1, <1>6 DEF IsFold
    <3> QED
      BY <2>1, <3>1, <3>2, <1>6, <1>5 DEF IsFold
  <2> QED
    BY <2>1, <1>6 DEF IsFold
<1>8. PICK it :
        /\ it = [d \in SUBSET (1..N) |-> IF d = {} THEN 0
                                         ELSE Plus(it[d \ {Max(d)}], z[Max(d)])]
        /\ FoldLeft(Plus, 0, z) = it[1..N]
  BY <1>1, <1>7, Zenon DEF FoldLeft, MapThenFoldSet
<1>9. ASSUME NEW n \in 1..N PROVE it[1..n] = it[1..(n - 1)] + z[n]
  <2>0. n \in Nat \ {0} /\ n \in 1..n
    BY <1>1
  <2>1. Max(1..n) = n /\ (1..n) \ {n} = 1..(n - 1) /\ 1..n # {}
    BY <2>0, LastIndex
  <2>2. 1..n \in SUBSET (1..N)
    BY <1>1
  <2>3. it[1..n] = Plus(it[1..(n - 1)], z[n])
    BY <1>8, <2>1, <2>2
  <2> QED
    BY <2>3 DEF Plus
<1>10. it[{}] = 0
  BY <1>8
<1>11. Total(z) = it[1..N]
  BY <1>2, <1>8
<1>12. Sums(it, z)
  BY <1>9, <1>10, <1>11 DEF Sums, N
<1> QED
  BY <1>12

LEMMA SumsAreNumbers ==
    ASSUME NEW z, Counted(z), NEW it, Sums(it, z), NEW n \in 0..Len(z)
    PROVE  it[1..n] \in Nat
<1>1. \A m \in 1..n : it[1..(m - 1)] \in Nat => it[1..m] \in Nat
  BY DEF Sums, Counted
<1>2. it[{}] \in Nat /\ n \in Nat
  BY DEF Sums, Counted
<1> QED
  BY <1>1, <1>2, FoldInduction, Zenon

LEMMA TotalIsNumber ==
    ASSUME NEW z, Counted(z) PROVE Total(z) \in Nat
<1>1. PICK it : Sums(it, z)
  BY TotalHasSums
<1>2. Len(z) \in 0..Len(z)
  BY DEF Counted
<1>3. it[1..Len(z)] \in Nat
  BY <1>1, <1>2, SumsAreNumbers
<1> QED
  BY <1>1, <1>3 DEF Sums

(* What is left of a sequence without its first members sums up to less. *)
LEMMA TotalOfSuffix ==
    ASSUME NEW y, NEW z, Counted(y), Counted(z), NEW k \in Nat,
           Len(z) = k + Len(y), \A i \in 1..Len(y) : y[i] = z[k + i]
    PROVE  Total(y) <= Total(z)
<1> DEFINE N == Len(y)
<1>1. PICK it : Sums(it, y)
  BY TotalHasSums
<1>2. PICK iz : Sums(iz, z)
  BY TotalHasSums
<1>0. N \in Nat /\ Len(z) = k + N /\ N \in 0..N /\ \A n \in 0..N : k + n \in 0..Len(z)
  BY DEF Counted
<1>3. \A n \in 0..N : it[1..n] \in Nat
  BY <1>1, SumsAreNumbers
<1>4. \A n \in 0..N : iz[1..(k + n)] \in Nat
  BY <1>0, <1>2, SumsAreNumbers
<1> DEFINE T == {n \in 0..N : ~ (it[1..n] <= iz[1..(k + n)])}
<1>5. SUFFICES ASSUME T # {} PROVE FALSE
  <2>1. T = {} => it[1..N] <= iz[1..(k + N)]
    BY <1>0
  <2> QED
    BY <1>0, <1>1, <1>2, <2>1 DEF Sums
<1>6. PICK m \in T : \A n \in T : m <= n
  <2>1. T \in SUBSET Nat
    OBVIOUS
  <2> QED
    BY <1>5, <2>1, LeastNatural
<1>7. m \in 0..N /\ ~ (it[1..m] <= iz[1..(k + m)])
  BY <1>6
<1>8. m # 0
  <2>1. 1..0 = {} /\ k + 0 = k
    OBVIOUS
  <2>2. iz[1..(k + 0)] \in Nat
    BY <1>0, <1>4
  <2>3. it[{}] = 0
    BY <1>1 DEF Sums
  <2> QED
    BY <1>7, <2>1, <2>2, <2>3
<1>9. m \in 1..N /\ m - 1 \in 0..N /\ ~ (m <= m - 1)
  BY <1>0, <1>7, <1>8
<1>10. it[1..(m - 1)] <= iz[1..(k + (m - 1))]
  BY <1>6, <1>9
<1>11. it[1..m] = it[1..(m - 1)] + y[m]
  BY <1>1, <1>9 DEF Sums
<1>12. iz[1..(k + m)] = iz[1..(k + (m - 1))] + y[m]
  <2>1. k + m \in 1..Len(z) /\ (k + m) - 1 = k + (m - 1)
    BY <1>0, <1>9
  <2>2. iz[1..(k + m)] = iz[1..((k + m) - 1)] + z[k + m]
    BY <1>2, <2>1 DEF Sums
  <2> QED
    BY <1>9, <2>1, <2>2
<1>13. y[m] \in Nat /\ it[1..(m - 1)] \in Nat /\ iz[1..(k + (m - 1))] \in Nat
  BY <1>3, <1>4, <1>9 DEF Counted
<1> HIDE DEF T
<1> QED
  BY <1>7, <1>10, <1>11, <1>12, <1>13

LEMMA TotalOfNone ==
    ASSUME NEW z, DOMAIN z = {}, Len(z) = 0 PROVE Total(z) = 0
<1>1. Counted(z)
  BY DEF Counted
<1>2. PICK it : Sums(it, z)
  BY <1>1, TotalHasSums
<1>3. 1..0 = {}
  OBVIOUS
<1> QED
  BY <1>2, <1>3 DEF Sums

-----------------------------------------------------------------------------
(* Queues. *)

(* No member of a sequence is there twice. *)
Once(s) == \A i, j \in 1..Len(s) : s[i] = s[j] => i = j

(* t is what s has at the places f, in the same order, and all of it in S. *)
Picks(t, s, f, S) ==
    /\ f \in [1..Len(t) -> 1..Len(s)]
    /\ \A k \in 1..Len(t) : t[k] = s[f[k]] /\ t[k] \in S
    /\ \A i, j \in 1..Len(t) : i < j => f[i] < f[j]

(* A set of numbers that has 0 and with a number the next has them all. *)
LEMMA UpTo ==
    ASSUME NEW N \in Nat, NEW B, 0 \in B, \A n \in 1..N : n - 1 \in B => n \in B
    PROVE  \A n \in 0..N : n \in B
<1> DEFINE T == {n \in 0..N : n \notin B}
<1>1. SUFFICES ASSUME T # {} PROVE FALSE
  OBVIOUS
<1>2. PICK m \in T : \A n \in T : m <= n
  <2>1. T \in SUBSET Nat
    OBVIOUS
  <2> QED
    BY <1>1, <2>1, LeastNatural
<1>3. m \in 1..N /\ m - 1 \in 0..N /\ ~ (m <= m - 1)
  BY <1>2
<1>4. m - 1 \in B
  BY <1>2, <1>3
<1> QED
  BY <1>2, <1>3, <1>4

(* Only keeps the members in S, each at its place among them. *)
LEMMA OnlyPicks ==
    ASSUME NEW E, NEW s \in Seq(E), NEW S
    PROVE  /\ Only(s, S) \in Seq(E) /\ Len(Only(s, S)) <= Len(s)
           /\ \E f : Picks(Only(s, S), s, f, S)
<1> DEFINE N == Len(s)
           A == Seq(E)
           Keep(t, x) == IF x \in S THEN Append(t, x) ELSE t
           step == [n \in 1..N |-> [t \in A |-> Keep(t, s[n])]]
<1>1. N \in Nat /\ DOMAIN s = 1..N /\ \A n \in 1..N : s[n] \in E
  OBVIOUS
<1>2. Only(s, S) = FoldLeft(Keep, <<>>, s)
  BY DEF Only
<1> HIDE DEF N
<1>3. \A t \in A, n \in 1..N : Keep(t, s[n]) \in A
  BY <1>1
<1>4. step \in [1..N -> [A -> A]] /\ <<>> \in A
  BY <1>3
<1>5. \A n \in 1..N, t \in A : step[n][t] = Keep(t, s[n])
  OBVIOUS
<1> HIDE DEF step
<1>6. PICK g : IsFold(g, N, A, <<>>, step)
  BY <1>1, <1>4, FoldExists
<1> HIDE DEF Keep, A
<1>7. g = [d \in SUBSET (1..N) |-> IF d = {} THEN <<>>
                                  ELSE Keep(g[d \ {Max(d)}], s[Max(d)])]
  <2>1. ASSUME NEW d \in SUBSET (1..N), d # {}
        PROVE  g[d] = Keep(g[d \ {Max(d)}], s[Max(d)])
    <3>1. Max(d) \in 1..N /\ d \ {Max(d)} \in SUBSET (1..N)
      BY <2>1, <1>1, MaxMember
    <3>2. g[d \ {Max(d)}] \in A
      BY <3>1, <1>6 DEF IsFold
    <3> QED
      BY <2>1, <3>1, <3>2, <1>6, <1>5 DEF IsFold
  <2> QED
    BY <2>1, <1>6 DEF IsFold
<1>8. PICK it :
        /\ it = [d \in SUBSET (1..N) |-> IF d = {} THEN <<>>
                                         ELSE Keep(it[d \ {Max(d)}], s[Max(d)])]
        /\ FoldLeft(Keep, <<>>, s) = it[1..N]
  BY <1>1, <1>7, Zenon DEF FoldLeft, MapThenFoldSet
<1> DEFINE Fits(n, f) ==
             /\ it[1..n] \in Seq(E) /\ Len(it[1..n]) <= n
             /\ f \in [1..Len(it[1..n]) -> 1..n]
             /\ \A k \in 1..Len(it[1..n]) : it[1..n][k] = s[f[k]] /\ it[1..n][k] \in S
             /\ \A i, j \in 1..Len(it[1..n]) : i < j => f[i] < f[j]
           B == {n \in 0..N : \E f : Fits(n, f)}
<1>9. 0 \in B
  <2>1. it[1..0] = <<>>
    <3>1. 1..0 = {} /\ {} \in SUBSET (1..N)
      OBVIOUS
    <3> QED
      BY <1>8, <3>1
  <2> DEFINE f == [k \in 1..0 |-> 1]
  <2>2. Fits(0, f)
    BY <2>1
  <2>3. \E h : Fits(0, h)
    BY <2>2
  <2> HIDE DEF Fits
  <2> QED
    BY <1>1, <2>3
<1>10. ASSUME NEW n \in 1..N, n - 1 \in B PROVE n \in B
  <2>0. n \in Nat \ {0} /\ n \in 1..n /\ n \in 0..N
    BY <1>1
  <2>1. Max(1..n) = n /\ (1..n) \ {n} = 1..(n - 1) /\ 1..n # {}
    BY <2>0, LastIndex
  <2>2. 1..n \in SUBSET (1..N)
    BY <1>1
  <2>3. it[1..n] = Keep(it[1..(n - 1)], s[n])
    BY <1>8, <2>1, <2>2
  <2> DEFINE t == it[1..(n - 1)]
             u == it[1..n]
  <2>4. PICK f : Fits(n - 1, f)
    BY <1>10, Zenon
  <2>5. /\ t \in Seq(E) /\ Len(t) <= n - 1 /\ Len(t) \in Nat
        /\ f \in [1..Len(t) -> 1..(n - 1)]
        /\ \A k \in 1..Len(t) : t[k] = s[f[k]] /\ t[k] \in S
        /\ \A i, j \in 1..Len(t) : i < j => f[i] < f[j]
    BY <2>4
  <2>6. u = IF s[n] \in S THEN Append(t, s[n]) ELSE t
    BY <2>3 DEF Keep
  <2>7. SUFFICES \E h : Fits(n, h)
    <3> HIDE DEF Fits
    <3> QED
      BY <2>0
  <2> HIDE DEF t
  <2>8. CASE s[n] \in S
    <3>1. u = Append(t, s[n]) /\ s[n] \in E
      BY <1>1, <2>6, <2>8
    <3>2. /\ u \in Seq(E) /\ Len(u) = Len(t) + 1 /\ u[Len(t) + 1] = s[n]
          /\ \A k \in 1..Len(t) : u[k] = t[k]
      BY <2>5, <3>1
    <3> DEFINE h == [k \in 1..(Len(t) + 1) |-> IF k = Len(t) + 1 THEN n ELSE f[k]]
    <3>a. /\ h \in [1..(Len(t) + 1) -> 1..n] /\ h[Len(t) + 1] = n
          /\ \A k \in 1..Len(t) : h[k] = f[k]
      BY <2>0, <2>5
    <3> HIDE DEF u, h
    <3>3. Len(u) <= n /\ h \in [1..Len(u) -> 1..n]
      BY <2>5, <2>0, <3>2, <3>a
    <3>4. \A k \in 1..Len(u) : u[k] = s[h[k]] /\ u[k] \in S
      BY <2>5, <2>8, <3>2, <3>a
    <3>5. \A i, j \in 1..Len(u) : i < j => h[i] < h[j]
      <4> SUFFICES ASSUME NEW i \in 1..Len(u), NEW j \in 1..Len(u), i < j
                   PROVE  h[i] < h[j]
        OBVIOUS
      <4>0. Len(t) \in Nat /\ i \in 1..(Len(t) + 1) /\ j \in 1..(Len(t) + 1)
        BY <2>5, <3>2
      <4>1. i \in 1..Len(t)
        BY <4>0
      <4>2. h[i] = f[i] /\ f[i] \in 1..(n - 1)
        BY <2>5, <3>a, <4>1
      <4>3. CASE j = Len(t) + 1
        BY <2>0, <3>a, <4>2, <4>3
      <4>4. CASE j # Len(t) + 1
        <5>1. j \in 1..Len(t)
          BY <4>0, <4>4
        <5>2. h[j] = f[j] /\ f[i] < f[j]
          BY <2>5, <3>a, <4>1, <5>1
        <5> QED
          BY <4>2, <5>2
      <4> QED
        BY <4>3, <4>4
    <3> QED
      BY <3>2, <3>3, <3>4, <3>5 DEF u
  <2>9. CASE s[n] \notin S
    <3>1. u = t
      BY <2>6, <2>9
    <3> HIDE DEF u
    <3>2. f \in [1..Len(u) -> 1..n] /\ Len(u) <= n
      BY <2>0, <2>5, <3>1
    <3> QED
      BY <2>5, <3>1, <3>2 DEF u
  <2> QED
    BY <2>8, <2>9
<1>11. N \in B
  <2>1. N \in 0..N
    BY <1>1
  <2> HIDE DEF B
  <2> QED
    BY <1>1, <1>9, <1>10, <2>1, UpTo
<1>12. PICK f : Fits(N, f)
  BY <1>11, Zenon
<1>13. it[1..N] = Only(s, S)
  BY <1>2, <1>8
<1> QED
  BY <1>12, <1>13 DEF N, Picks

(* What Only leaves is some of the members in S, and none of them twice. *)
LEMMA OnlyMembers ==
    ASSUME NEW E, NEW s \in Seq(E), NEW S
    PROVE  /\ ToSet(Only(s, S)) \subseteq ToSet(s) \intersect S
           /\ Once(s) => Once(Only(s, S))
<1> DEFINE t == Only(s, S)
<1>1. t \in Seq(E) /\ \E f : Picks(t, s, f, S)
  BY OnlyPicks
<1>2. PICK f : Picks(t, s, f, S)
  BY <1>1
<1> HIDE DEF t
<1>3. /\ f \in [1..Len(t) -> 1..Len(s)] /\ Len(t) \in Nat
      /\ \A k \in 1..Len(t) : t[k] = s[f[k]] /\ t[k] \in S
      /\ \A i, j \in 1..Len(t) : i < j => f[i] < f[j]
  BY <1>1, <1>2 DEF Picks
<1>4. DOMAIN s = 1..Len(s) /\ DOMAIN t = 1..Len(t)
  BY <1>1
<1>5. ToSet(t) \subseteq ToSet(s) \intersect S
  BY <1>3, <1>4 DEF ToSet
<1>6. ASSUME Once(s), NEW i \in 1..Len(t), NEW j \in 1..Len(t), t[i] = t[j]
      PROVE  i = j
  <2>1. f[i] = f[j] /\ f[i] \in Nat
    BY <1>3, <1>6 DEF Once
  <2>2. ~ (i < j) /\ ~ (j < i) /\ i \in Nat /\ j \in Nat
    BY <1>3, <2>1
  <2> QED
    BY <2>2
<1> QED
  BY <1>5, <1>6 DEF t, Once

(* A sequence cut at the front. *)
LEMMA CutFront ==
    ASSUME NEW S, NEW s \in Seq(S), NEW n \in 0..Len(s)
    PROVE  /\ SubSeq(s, n + 1, Len(s)) \in Seq(S)
           /\ Len(SubSeq(s, n + 1, Len(s))) = Len(s) - n
  OBVIOUS

(* A store without one entry has the entries at the other places. *)
LEMMA RemoveAtEntries ==
    ASSUME NEW E, NEW s \in Seq(E), NEW k \in 1..Len(s)
    PROVE  /\ RemoveAt(s, k) \in Seq(E)
           /\ Len(RemoveAt(s, k)) = Len(s) - 1
           /\ \A i \in 1..(Len(s) - 1) :
                RemoveAt(s, k)[i] = IF i < k THEN s[i] ELSE s[i + 1]
<1> DEFINE a == SubSeq(s, 1, k - 1)
           b == SubSeq(s, k + 1, Len(s))
<1>1. a \in Seq(E) /\ Len(a) = k - 1 /\ \A i \in 1..(k - 1) : a[i] = s[i]
  OBVIOUS
<1>2. b \in Seq(E) /\ Len(b) = Len(s) - k /\ \A i \in 1..(Len(s) - k) : b[i] = s[k + i]
  OBVIOUS
<1>3. RemoveAt(s, k) = a \o b
  BY DEF RemoveAt
<1>0. Len(s) \in Nat /\ k \in Nat /\ k >= 1 /\ k <= Len(s)
  OBVIOUS
<1> HIDE DEF a, b
<1>4. a \o b \in Seq(E) /\ Len(a \o b) = Len(s) - 1
  <2>1. a \o b \in Seq(E) /\ Len(a \o b) = Len(a) + Len(b)
    BY <1>1, <1>2, ConcatProperties
  <2>2. (k - 1) + (Len(s) - k) = Len(s) - 1
    BY <1>0
  <2> QED
    BY <1>1, <1>2, <2>1, <2>2
<1>5. ASSUME NEW i \in 1..(Len(s) - 1)
      PROVE (a \o b)[i] = IF i < k THEN s[i] ELSE s[i + 1]
  <2>1. CASE i < k
    BY <1>0, <1>1, <1>2, <2>1
  <2>2. CASE ~ (i < k)
    <3>1. (a \o b)[i] = b[i - (k - 1)]
      BY <1>0, <1>1, <1>2, <2>2
    <3>2. i - (k - 1) \in 1..(Len(s) - k) /\ k + (i - (k - 1)) = i + 1
      BY <1>0, <2>2
    <3> QED
      BY <1>2, <2>2, <3>1, <3>2
  <2> QED
    BY <2>1, <2>2
<1> QED
  BY <1>3, <1>4, <1>5


(* list.remove on a queue that has the request once. *)
LEMMA RemoveFirstOnce ==
    ASSUME NEW E, NEW s \in Seq(E), Once(s), NEW r
    PROVE  /\ RemoveFirst(s, r) \in Seq(E) /\ Once(RemoveFirst(s, r))
           /\ ToSet(RemoveFirst(s, r)) = ToSet(s) \ {r}
<1> DEFINE T == {i \in 1..Len(s) : s[i] = r}
           u == RemoveFirst(s, r)
<1>1. T \in SUBSET Nat
  OBVIOUS
<1>2. u = IF \E i \in 1..Len(s) : s[i] = r
          THEN RemoveAt(s, IF T # {} THEN Min(T) ELSE 0) ELSE s
  BY DEF RemoveFirst, SelectInSeq
<1>3. T # {} => Min(T) \in T
  BY <1>1, MinOfNaturals
<1>4. CASE T = {}
  <2>1. \A i \in 1..Len(s) : s[i] # r
    BY <1>4
  <2>2. u = s
    BY <1>2, <2>1
  <2>3. DOMAIN s = 1..Len(s)
    OBVIOUS
  <2>4. r \notin ToSet(s)
    BY <2>1, <2>3 DEF ToSet
  <2> QED
    BY <2>2, <2>4
<1>5. CASE T # {}
  <2> DEFINE k == Min(T)
  <2>1. k \in 1..Len(s) /\ s[k] = r
    BY <1>3, <1>5
  <2>2. u = RemoveAt(s, k)
    BY <1>2, <1>3, <1>5
  <2> HIDE DEF u, k, T
  <2>3. /\ u \in Seq(E) /\ Len(u) = Len(s) - 1
        /\ \A i \in 1..(Len(s) - 1) : u[i] = IF i < k THEN s[i] ELSE s[i + 1]
    BY <2>1, <2>2, RemoveAtEntries
  <2> DEFINE at(i) == IF i < k THEN i ELSE i + 1
             back(j) == IF j < k THEN j ELSE j - 1
  <2>4. \A i \in 1..Len(u) : at(i) \in 1..Len(s) /\ at(i) # k /\ u[i] = s[at(i)]
    BY <2>1, <2>3
  <2>5. \A i, j \in 1..Len(u) : at(i) = at(j) => i = j
    BY <2>1, <2>3
  <2>6. \A j \in 1..Len(s) : j # k => back(j) \in 1..Len(u) /\ at(back(j)) = j
    BY <2>1, <2>3
  <2> HIDE DEF at, back
  <2>7. Once(u)
    <3> SUFFICES ASSUME NEW i \in 1..Len(u), NEW j \in 1..Len(u), u[i] = u[j]
                 PROVE  i = j
      BY DEF Once
    <3>1. at(i) = at(j)
      BY <2>4 DEF Once
    <3> QED
      BY <2>5, <3>1
  <2>8. DOMAIN u = 1..Len(u) /\ DOMAIN s = 1..Len(s)
    BY <2>3
  <2>9. ASSUME NEW x PROVE x \in ToSet(u) <=> x \in ToSet(s) \ {r}
    <3>1. ASSUME x \in ToSet(u) PROVE x \in ToSet(s) \ {r}
      <4>1. PICK i \in 1..Len(u) : x = u[i]
        BY <2>8, <3>1 DEF ToSet
      <4>2. x = s[at(i)] /\ at(i) \in 1..Len(s) /\ at(i) # k
        BY <2>4, <4>1
      <4>3. x # r
        BY <2>1, <4>2 DEF Once
      <4> QED
        BY <2>8, <4>2, <4>3 DEF ToSet
    <3>2. ASSUME x \in ToSet(s) \ {r} PROVE x \in ToSet(u)
      <4>1. PICK j \in 1..Len(s) : x = s[j]
        BY <2>8, <3>2 DEF ToSet
      <4>2. j # k
        BY <2>1, <3>2, <4>1
      <4>3. back(j) \in 1..Len(u) /\ u[back(j)] = s[j]
        BY <2>4, <2>6, <4>1, <4>2
      <4> QED
        BY <2>8, <4>1, <4>3 DEF ToSet
    <3> QED
      BY <3>1, <3>2
  <2> QED
    BY <2>3, <2>7, <2>9 DEF u
<1> QED
  BY <1>4, <1>5

(* A queue without repetitions has as many members as places. *)
LEMMA OnceCardinality ==
    ASSUME NEW E, NEW s \in Seq(E), Once(s)
    PROVE  IsFiniteSet(ToSet(s)) /\ Cardinality(ToSet(s)) = Len(s)
<1>1. s \in Bijection(1..Len(s), ToSet(s))
  <2>1. s \in [1..Len(s) -> ToSet(s)]
    BY DEF ToSet
  <2>2. \A y \in ToSet(s) : \E i \in 1..Len(s) : s[i] = y
    BY DEF ToSet
  <2> QED
    BY <2>1, <2>2 DEF Bijection, Injection, Surjection, IsInjective, Once
<1>2. ExistsBijection(1..Len(s), ToSet(s))
  BY <1>1 DEF ExistsBijection
<1>3. IsFiniteSet(1..Len(s)) /\ Cardinality(1..Len(s)) = Len(s)
  <2>1. Len(s) \in Nat
    OBVIOUS
  <2>2. /\ IsFiniteSet(1..Len(s))
        /\ Cardinality(1..Len(s)) = IF 1 > Len(s) THEN 0 ELSE Len(s) - 1 + 1
    BY <2>1, FS_Interval, 1 \in Int, Len(s) \in Int
  <2> QED
    BY <2>1, <2>2
<1> QED
  BY <1>2, <1>3, FS_Bijection

-----------------------------------------------------------------------------
(* The two stores. *)

(* The entries the stores may hold. *)
PromptEntries == {Entry(ApcKey(r), Prompt(r), Prompt(r)) : r \in Requests}
Snapshots == {Snapshot(r) : r \in Requests}

OnePerImage(v) == \A i, j \in 1..Len(v) : v[i].image = v[j].image => i = j

PromptStores == {s \in Seq(PromptEntries) : Within(s)}
VisionStores ==
    {v \in Seq(Snapshots) : Len(v) <= VisionEntries /\ OnePerImage(v)}
Stores == [apc : PromptStores, vision : VisionStores]

PromptSizes(s) == [i \in 1..Len(s) |-> Len(s[i].rows)]
VisionSizes(v) == [i \in 1..Len(v) |-> Len(v[i].prompt)]

LEMMA SizesCounted ==
    /\ \A s \in Seq(PromptEntries) :
         Counted(PromptSizes(s)) /\ Len(PromptSizes(s)) = Len(s)
    /\ \A v \in Seq(Snapshots) :
         Counted(VisionSizes(v)) /\ Len(VisionSizes(v)) = Len(v)
<1>1. \A e \in PromptEntries : Len(e.rows) \in Nat
  BY VlmBatchAssumption DEF PromptEntries, Entry
<1>2. \A e \in Snapshots : Len(e.prompt) \in Nat
  BY VlmBatchAssumption DEF Snapshots, Snapshot
<1>3. ASSUME NEW s \in Seq(PromptEntries)
      PROVE  Counted(PromptSizes(s)) /\ Len(PromptSizes(s)) = Len(s)
  <2>1. Len(s) \in Nat /\ \A i \in 1..Len(s) : s[i] \in PromptEntries
    OBVIOUS
  <2>2. PromptSizes(s) \in [1..Len(s) -> Nat]
    BY <1>1, <2>1 DEF PromptSizes
  <2>3. Len(PromptSizes(s)) = Len(s)
    BY <2>1, <2>2
  <2> QED
    BY <2>1, <2>2, <2>3 DEF Counted
<1>4. ASSUME NEW v \in Seq(Snapshots)
      PROVE  Counted(VisionSizes(v)) /\ Len(VisionSizes(v)) = Len(v)
  <2>1. Len(v) \in Nat /\ \A i \in 1..Len(v) : v[i] \in Snapshots
    OBVIOUS
  <2>2. VisionSizes(v) \in [1..Len(v) -> Nat]
    BY <1>2, <2>1 DEF VisionSizes
  <2>3. Len(VisionSizes(v)) = Len(v)
    BY <2>1, <2>2
  <2> QED
    BY <2>1, <2>2, <2>3 DEF Counted
<1> QED
  BY <1>3, <1>4

LEMMA UsedIsNumber ==
    ASSUME NEW k \in Stores
    PROVE  Bytes(k.apc) \in Nat /\ VisionUsed(k.vision) \in Nat /\ Used(k) \in Nat
<1>1. k.apc \in Seq(PromptEntries) /\ k.vision \in Seq(Snapshots)
  BY DEF Stores, PromptStores, VisionStores
<1>2. Total(PromptSizes(k.apc)) \in Nat /\ Total(VisionSizes(k.vision)) \in Nat
  BY <1>1, SizesCounted, TotalIsNumber
<1>3. Bytes(k.apc) \in Nat /\ VisionUsed(k.vision) \in Nat
  BY <1>2 DEF Bytes, VisionUsed, PromptSizes, VisionSizes
<1> QED
  BY <1>3 DEF Used

LEMMA UsedOfNone == Bytes(<<>>) = 0 /\ VisionUsed(<<>>) = 0
<1> DEFINE y == [i \in 1..Len(<<>>) |-> Len(<<>>[i].rows)]
           z == [i \in 1..Len(<<>>) |-> Len(<<>>[i].prompt)]
<1>1. y = <<>> /\ z = <<>>
  OBVIOUS
<1>2. DOMAIN y = {} /\ Len(y) = 0 /\ DOMAIN z = {} /\ Len(z) = 0
  BY <1>1
<1>3. Bytes(<<>>) = Total(y) /\ VisionUsed(<<>>) = Total(z)
  BY DEF Bytes, VisionUsed
<1> HIDE DEF y, z
<1> QED
  BY <1>2, <1>3, TotalOfNone

LEMMA WithinNone == Within(<<>>)
  BY UsedOfNone, PromptCacheAssumption DEF Within

(* The newest entries of a prompt store are a prompt store. *)
LEMMA PromptSuffix ==
    ASSUME NEW s \in PromptStores, NEW n \in 0..Len(s)
    PROVE  SubSeq(s, n + 1, Len(s)) \in PromptStores
<1> DEFINE u == SubSeq(s, n + 1, Len(s))
<1>1. s \in Seq(PromptEntries) /\ Len(s) \in Nat /\ Within(s)
  BY DEF PromptStores
<1>2. u \in Seq(PromptEntries) /\ Len(u) = Len(s) - n
  BY <1>1, CutFront
<1>3. \A i \in 1..Len(u) : u[i] = s[n + i]
  BY <1>1, <1>2
<1> HIDE DEF u
<1>4. \A i \in 1..Len(u) : PromptSizes(u)[i] = PromptSizes(s)[n + i]
  <2> SUFFICES ASSUME NEW i \in 1..Len(u)
               PROVE  PromptSizes(u)[i] = PromptSizes(s)[n + i]
    OBVIOUS
  <2>1. n + i \in 1..Len(s)
    BY <1>1, <1>2
  <2> QED
    BY <1>3, <2>1 DEF PromptSizes
<1>5. Total(PromptSizes(u)) <= Total(PromptSizes(s))
  <2>1. /\ Counted(PromptSizes(u)) /\ Len(PromptSizes(u)) = Len(u)
        /\ Counted(PromptSizes(s)) /\ Len(PromptSizes(s)) = Len(s)
    BY <1>1, <1>2, SizesCounted
  <2>2. Len(s) = n + Len(u) /\ n \in Nat
    BY <1>1, <1>2
  <2> QED
    BY <1>4, <2>1, <2>2, TotalOfSuffix
<1>6. Bytes(u) <= Bytes(s)
  BY <1>5 DEF Bytes, PromptSizes
<1>7. Bytes(u) \in Nat /\ Bytes(s) \in Nat
  <2>1. Total(PromptSizes(u)) \in Nat /\ Total(PromptSizes(s)) \in Nat
    BY <1>1, <1>2, SizesCounted, TotalIsNumber
  <2> QED
    BY <2>1 DEF Bytes, PromptSizes
<1>8. Within(u)
  BY <1>1, <1>2, <1>6, <1>7, PromptCacheAssumption DEF Within
<1> QED
  BY <1>2, <1>8 DEF PromptStores, u

(* The newest entries of a vision store are a vision store. *)
LEMMA VisionSuffix ==
    ASSUME NEW v \in VisionStores, NEW n \in 0..Len(v)
    PROVE  SubSeq(v, n + 1, Len(v)) \in VisionStores
<1> DEFINE u == SubSeq(v, n + 1, Len(v))
<1>1. /\ v \in Seq(Snapshots) /\ Len(v) \in Nat /\ Len(v) <= VisionEntries
      /\ OnePerImage(v) /\ VisionEntries \in Nat
  BY VlmBatchAssumption DEF VisionStores
<1>2. u \in Seq(Snapshots) /\ Len(u) = Len(v) - n
  BY <1>1, CutFront
<1>3. \A i \in 1..Len(u) : u[i] = v[n + i]
  BY <1>1, <1>2
<1> HIDE DEF u
<1>4. \A i \in 1..Len(u) : n + i \in 1..Len(v)
  BY <1>1, <1>2
<1>5. OnePerImage(u)
  <2> SUFFICES ASSUME NEW i \in 1..Len(u), NEW j \in 1..Len(u),
                      u[i].image = u[j].image
               PROVE  i = j
    BY DEF OnePerImage
  <2>1. n + i = n + j
    BY <1>1, <1>3, <1>4 DEF OnePerImage
  <2> QED
    BY <1>1, <2>1
<1> QED
  BY <1>1, <1>2, <1>5 DEF VisionStores, u

(* n evictions take the oldest entries of both stores, n altogether. *)
LEMMA EvictedSplit ==
    ASSUME NEW k \in Stores, NEW n \in 0..(Len(k.apc) + Len(k.vision))
    PROVE  \E i \in 0..Len(k.apc), j \in 0..Len(k.vision) :
             /\ i + j = n
             /\ Evicted(k, n) = [apc |-> SubSeq(k.apc, i + 1, Len(k.apc)),
                                 vision |-> SubSeq(k.vision, j + 1, Len(k.vision))]
<1> DEFINE a == Len(k.apc)
           v == Len(k.vision)
           m == Min({a, v})
           i == IF n <= 2 * m THEN (n + 1) \div 2
                ELSE IF a > v THEN n - v ELSE a
<1>1. a \in Nat /\ v \in Nat /\ n \in 0..(a + v)
  BY DEF Stores, PromptStores, VisionStores
<1>2. Evicted(k, n) = [apc |-> SubSeq(k.apc, i + 1, a),
                       vision |-> SubSeq(k.vision, n - i + 1, v)]
  BY DEF Evicted
<1> HIDE DEF a, v
<1>3. m = IF a <= v THEN a ELSE v
  <2>1. {a, v} \in SUBSET Nat /\ {a, v} # {} /\ a \in {a, v} /\ v \in {a, v}
    BY <1>1
  <2>2. m \in {a, v} /\ m <= a /\ m <= v
    BY <2>1, MinOfNaturals
  <2> HIDE DEF m
  <2> QED
    BY <1>1, <2>2
<1> HIDE DEF m
<1>4. i \in 0..a /\ n - i \in 0..v
  <2>1. CASE n <= 2 * m
    BY <1>1, <1>3, <2>1
  <2>2. CASE ~ (n <= 2 * m)
    BY <1>1, <1>3, <2>2
  <2> QED
    BY <2>1, <2>2
<1> HIDE DEF i
<1>5. i + (n - i) = n
  BY <1>1, <1>4
<1> QED
  BY <1>2, <1>4, <1>5 DEF a, v

LEMMA EvictedStores ==
    ASSUME NEW k \in Stores, NEW n \in 0..(Len(k.apc) + Len(k.vision))
    PROVE  /\ Evicted(k, n) \in Stores
           /\ n = Len(k.apc) + Len(k.vision) => Used(Evicted(k, n)) = 0
<1>1. /\ k.apc \in PromptStores /\ k.vision \in VisionStores
      /\ Len(k.apc) \in Nat /\ Len(k.vision) \in Nat
  BY DEF Stores, PromptStores, VisionStores
<1>2. PICK i \in 0..Len(k.apc), j \in 0..Len(k.vision) :
             /\ i + j = n
             /\ Evicted(k, n) = [apc |-> SubSeq(k.apc, i + 1, Len(k.apc)),
                                 vision |-> SubSeq(k.vision, j + 1, Len(k.vision))]
  BY EvictedSplit
<1>3. /\ SubSeq(k.apc, i + 1, Len(k.apc)) \in PromptStores
      /\ SubSeq(k.vision, j + 1, Len(k.vision)) \in VisionStores
  BY <1>1, PromptSuffix, VisionSuffix
<1>4. Evicted(k, n) \in Stores
  BY <1>2, <1>3 DEF Stores
<1>5. ASSUME n = Len(k.apc) + Len(k.vision) PROVE Used(Evicted(k, n)) = 0
  <2>1. i = Len(k.apc) /\ j = Len(k.vision)
    <3> DEFINE a == Len(k.apc)
               v == Len(k.vision)
    <3>1. i \in 0..a /\ j \in 0..v /\ i + j = a + v /\ a \in Nat /\ v \in Nat
      BY <1>1, <1>2, <1>5
    <3> HIDE DEF a, v
    <3>2. i = a /\ j = v
      BY <3>1
    <3> QED
      BY <3>2 DEF a, v
  <2>2. k.apc \in Seq(PromptEntries) /\ k.vision \in Seq(Snapshots)
    BY <1>1 DEF PromptStores, VisionStores
  <2>3. /\ SubSeq(k.apc, Len(k.apc) + 1, Len(k.apc)) = <<>>
        /\ SubSeq(k.vision, Len(k.vision) + 1, Len(k.vision)) = <<>>
    BY <2>2
  <2>4. Evicted(k, n).apc = <<>> /\ Evicted(k, n).vision = <<>>
    BY <1>2, <2>1, <2>3
  <2> QED
    BY <2>4, UsedOfNone DEF Used
<1> QED
  BY <1>4, <1>5

Charges == [text : TextBytes, vlm : Nat]

(* What the batches leave of the budget, or nothing. *)
LEMMA TargetIs ==
    ASSUME NEW c \in Charges
    PROVE  /\ Target(c) \in Nat
           /\ Target(c) = 0 \/ Target(c) = Budget - c.text - c.vlm
<1> DEFINE x == Budget - c.text - c.vlm
<1>1. x \in Int
  <2>1. Budget \in Nat /\ c.text \in Nat /\ c.vlm \in Nat
    BY VlmBatchAssumption DEF Charges
  <2> QED
    BY <2>1
<1>2. Target(c) = Max({0, x})
  BY DEF Target
<1> HIDE DEF x
<1>3. Max({0, x}) \in {0, x} /\ Max({0, x}) >= 0
  <2>1. \E y \in {0, x} : \A z \in {0, x} : y >= z
    BY <1>1
  <2> QED
    BY <2>1 DEF Max
<1> QED
  BY <1>1, <1>2, <1>3 DEF x

(***************************************************************************)
(* enforce leaves stores that fit in what the batches leave of the budget, *)
(* or empty ones: with every entry evicted nothing is used any more.       *)
(***************************************************************************)
LEMMA EnforceFits ==
    ASSUME NEW k \in Stores, NEW c \in Charges
    PROVE  /\ Enforce(k, c) \in Stores
           /\ Used(Enforce(k, c)) <= Target(c) \/ Used(Enforce(k, c)) = 0
<1> DEFINE all == Len(k.apc) + Len(k.vision)
           enough == {n \in 0..all : Used(Evicted(k, n)) <= Target(c)}
<1>1. all \in Nat /\ all \in 0..all
  BY DEF Stores, PromptStores, VisionStores
<1>2. Enforce(k, c) = Evicted(k, IF enough = {} THEN all ELSE Min(enough))
  BY DEF Enforce
<1>3. \A n \in 0..all : Evicted(k, n) \in Stores /\ (n = all => Used(Evicted(k, n)) = 0)
  BY EvictedStores
<1>4. enough \subseteq 0..all /\ \A n \in enough : Used(Evicted(k, n)) <= Target(c)
  OBVIOUS
<1> HIDE DEF all, enough
<1>5. enough # {} => Min(enough) \in enough
  <2>1. enough \in SUBSET Nat
    BY <1>1, <1>4
  <2> QED
    BY <2>1, MinOfNaturals
<1>6. CASE enough = {}
  BY <1>1, <1>2, <1>3, <1>6
<1>7. CASE enough # {}
  BY <1>2, <1>3, <1>4, <1>5, <1>7
<1> QED
  BY <1>6, <1>7

(* The store without the entry of a request's prompt and images. *)
Popped(s, r) ==
    RemoveFirstMatch(s, LAMBDA e : e.ns = ApcKey(r) /\ e.tokens = Prompt(r))

LEMMA PoppedEntries ==
    ASSUME NEW s \in Seq(PromptEntries), NEW r
    PROVE  Popped(s, r) \in Seq(PromptEntries)
<1> DEFINE T == {i \in 1..Len(s) : s[i].ns = ApcKey(r) /\ s[i].tokens = Prompt(r)}
<1>1. T \in SUBSET Nat
  OBVIOUS
<1>2. Popped(s, r) = IF \E i \in 1..Len(s) : s[i].ns = ApcKey(r) /\ s[i].tokens = Prompt(r)
          THEN RemoveAt(s, IF T # {} THEN Min(T) ELSE 0) ELSE s
  BY DEF Popped, RemoveFirstMatch, SelectInSeq
<1>3. T # {} => Min(T) \in T
  BY <1>1, MinOfNaturals
<1>4. T \subseteq 1..Len(s)
  OBVIOUS
<1>5. CASE T = {}
  BY <1>2, <1>5
<1>6. CASE T # {}
  <2>1. Popped(s, r) = RemoveAt(s, Min(T)) /\ Min(T) \in 1..Len(s)
    BY <1>2, <1>3, <1>4, <1>6
  <2> QED
    BY <2>1, RemoveAtEntries
<1> QED
  BY <1>5, <1>6

(* remember's eviction ends within the limits, whatever was appended. *)
LEMMA FittedStore ==
    ASSUME NEW s \in Seq(PromptEntries) PROVE Fitted(s) \in PromptStores
<1> DEFINE T == {k \in 0..Len(s) : Within(SubSeq(s, k + 1, Len(s)))}
<1>1. SubSeq(s, Len(s) + 1, Len(s)) = <<>> /\ Len(s) \in 0..Len(s)
  OBVIOUS
<1>2. Len(s) \in T
  BY <1>1, WithinNone
<1>3. T \in SUBSET Nat
  OBVIOUS
<1>4. Min(T) \in T
  BY <1>2, <1>3, MinOfNaturals
<1>5. Fitted(s) = SubSeq(s, Min(T) + 1, Len(s))
  BY DEF Fitted
<1>6. Min(T) \in 0..Len(s) /\ Within(Fitted(s))
  BY <1>4, <1>5
<1> HIDE DEF T
<1>7. Fitted(s) \in Seq(PromptEntries)
  BY <1>5, <1>6, CutFront
<1> QED
  BY <1>6, <1>7 DEF PromptStores

(* Both stores stay within their limits when a prompt is remembered. *)
LEMMA RememberedStores ==
    ASSUME NEW k \in Stores, NEW c \in Charges, NEW r \in Requests
    PROVE  Remembered(k, c, r) \in Stores
<1> DEFINE e == Entry(ApcKey(r), Prompt(r), Prompt(r))
           u == Remember(k.apc, ApcKey(r), Prompt(r), Prompt(r))
<1>1. k.apc \in PromptStores /\ k.apc \in Seq(PromptEntries) /\ k.vision \in VisionStores
  BY DEF Stores, PromptStores
<1>2. e \in PromptEntries
  BY DEF PromptEntries
<1>3. u = k.apc \/ u = Fitted(Append(Popped(k.apc, r), e))
  BY DEF Remember, Popped
<1> HIDE DEF e, u
<1>4. Fitted(Append(Popped(k.apc, r), e)) \in PromptStores
  <2>1. Popped(k.apc, r) \in Seq(PromptEntries)
    BY <1>1, PoppedEntries
  <2>2. Append(Popped(k.apc, r), e) \in Seq(PromptEntries)
    BY <1>2, <2>1
  <2> QED
    BY <2>2, FittedStore
<1>5. u \in PromptStores
  BY <1>1, <1>3, <1>4
<1>6. [k EXCEPT !.apc = u] \in Stores
  BY <1>1, <1>5 DEF Stores
<1> QED
  BY <1>6, EnforceFits DEF Remembered, u

(* A vision store with one more entry, of an image it has not. *)
LEMMA VisionAppend ==
    ASSUME NEW v \in VisionStores, NEW r \in Requests, Len(v) < VisionEntries,
           \A i \in 1..Len(v) : v[i].image # Image(r)
    PROVE  Append(v, Snapshot(r)) \in VisionStores
<1> DEFINE x == Snapshot(r)
           u == Append(v, x)
<1>1. v \in Seq(Snapshots) /\ Len(v) \in Nat /\ OnePerImage(v)
  BY DEF VisionStores
<1>2. x \in Snapshots /\ x.image = Image(r)
  BY DEF Snapshots, Snapshot
<1> HIDE DEF x
<1>3. /\ u \in Seq(Snapshots) /\ Len(u) = Len(v) + 1 /\ u[Len(v) + 1] = x
      /\ \A i \in 1..Len(v) : u[i] = v[i]
  BY <1>1, <1>2
<1> HIDE DEF u
<1>4. ASSUME NEW i \in 1..Len(u), NEW j \in 1..Len(u), u[i].image = u[j].image
      PROVE  i = j
  <2>1. i \in 1..Len(v) \/ i = Len(v) + 1
    BY <1>1, <1>3
  <2>2. j \in 1..Len(v) \/ j = Len(v) + 1
    BY <1>1, <1>3
  <2>3. CASE i \in 1..Len(v) /\ j \in 1..Len(v)
    BY <1>1, <1>3, <1>4, <2>3 DEF OnePerImage
  <2> QED
    BY <1>2, <1>3, <1>4, <2>1, <2>2, <2>3
<1>5. Len(u) <= VisionEntries
  BY <1>1, <1>3, VlmBatchAssumption
<1> QED
  BY <1>3, <1>4, <1>5 DEF VisionStores, OnePerImage, u, x

(* put keeps one entry for an image and makes room before it adds one. *)
LEMMA PutStores ==
    ASSUME NEW v \in VisionStores, NEW r \in Requests
    PROVE  Put(v, r) \in VisionStores
<1> DEFINE S == {e \in ToSet(v) : e.image # Image(r)}
           o == Only(v, S)
           room == IF Len(o) < VisionEntries THEN o ELSE Tail(o)
<1>1. /\ v \in Seq(Snapshots) /\ Len(v) \in Nat /\ OnePerImage(v)
      /\ Len(v) <= VisionEntries /\ VisionEntries \in Nat \ {0}
  BY VlmBatchAssumption DEF VisionStores
<1>2. \A e \in S : e.image # Image(r)
  OBVIOUS
<1>3. Put(v, r) = v \/ Put(v, r) = Append(room, Snapshot(r))
  BY DEF Put
<1> HIDE DEF S
<1>4. o \in Seq(Snapshots) /\ Len(o) <= Len(v) /\ \E f : Picks(o, v, f, S)
  BY <1>1, OnlyPicks
<1> HIDE DEF o
<1>5. PICK f : Picks(o, v, f, S)
  BY <1>4
<1>6. /\ f \in [1..Len(o) -> 1..Len(v)] /\ Len(o) \in Nat
      /\ \A k \in 1..Len(o) : o[k] = v[f[k]] /\ o[k] \in S
      /\ \A i, j \in 1..Len(o) : i < j => f[i] < f[j]
  BY <1>4, <1>5 DEF Picks
<1>7. ASSUME NEW i \in 1..Len(o), NEW j \in 1..Len(o), o[i].image = o[j].image
      PROVE  i = j
  <2>1. f[i] = f[j] /\ f[i] \in Nat
    BY <1>1, <1>6, <1>7 DEF OnePerImage
  <2>2. ~ (i < j) /\ ~ (j < i) /\ i \in Nat /\ j \in Nat
    BY <1>6, <2>1
  <2> QED
    BY <2>2
<1>8. o \in VisionStores
  BY <1>1, <1>4, <1>6, <1>7 DEF VisionStores, OnePerImage
<1>9. /\ room \in VisionStores /\ Len(room) < VisionEntries
      /\ \A i \in 1..Len(room) : room[i].image # Image(r)
  <2>1. CASE Len(o) < VisionEntries
    BY <1>2, <1>6, <1>8, <2>1
  <2>2. CASE ~ (Len(o) < VisionEntries)
    <3>1. Len(o) = VisionEntries /\ Len(o) \in Nat \ {0} /\ 1 \in 0..Len(o)
      BY <1>1, <1>4, <1>6, <2>2
    <3>2. Tail(o) = SubSeq(o, 1 + 1, Len(o))
      BY <1>4, <3>1
    <3>3. Tail(o) \in VisionStores
      BY <1>8, <3>1, <3>2, VisionSuffix
    <3>4. /\ Len(Tail(o)) = Len(o) - 1
          /\ \A i \in 1..(Len(o) - 1) : Tail(o)[i] = o[i + 1]
      BY <1>4, <3>1
    <3>5. \A i \in 1..(Len(o) - 1) : i + 1 \in 1..Len(o)
      BY <3>1
    <3>6. room = Tail(o)
      BY <2>2
    <3> HIDE DEF room
    <3>7. Len(room) < VisionEntries
      BY <3>1, <3>4, <3>6
    <3>8. ASSUME NEW i \in 1..Len(room) PROVE room[i].image # Image(r)
      BY <1>2, <1>6, <3>4, <3>5, <3>6
    <3> QED
      BY <3>3, <3>6, <3>7, <3>8
  <2> QED
    BY <2>1, <2>2
<1> HIDE DEF room
<1>10. Append(room, Snapshot(r)) \in VisionStores
  BY <1>9, VisionAppend
<1> QED
  BY <1>3, <1>10

(* A hit only moves its entry to the end. *)
LEMMA TouchStores ==
    ASSUME NEW v \in VisionStores, NEW k \in 1..Len(v)
    PROVE  Touch(v, k) \in VisionStores
<1> DEFINE o == RemoveAt(v, k)
           u == Append(o, v[k])
<1>1. /\ v \in Seq(Snapshots) /\ Len(v) \in Nat \ {0} /\ OnePerImage(v)
      /\ Len(v) <= VisionEntries /\ v[k] \in Snapshots /\ k \in Nat
  BY DEF VisionStores
<1>2. /\ o \in Seq(Snapshots) /\ Len(o) = Len(v) - 1
      /\ \A i \in 1..(Len(v) - 1) : o[i] = IF i < k THEN v[i] ELSE v[i + 1]
  BY <1>1, RemoveAtEntries
<1>3. Touch(v, k) = u
  BY DEF Touch
<1> HIDE DEF o
<1>4. /\ u \in Seq(Snapshots) /\ Len(u) = Len(v) /\ u[Len(v)] = v[k]
      /\ \A i \in 1..(Len(v) - 1) : u[i] = o[i]
  BY <1>1, <1>2
<1> HIDE DEF u
<1> DEFINE at(i) == IF i = Len(v) THEN k ELSE IF i < k THEN i ELSE i + 1
<1>5. \A i \in 1..Len(v) : at(i) \in 1..Len(v)
  BY <1>1
<1>6. \A i, j \in 1..Len(v) : at(i) = at(j) => i = j
  BY <1>1
<1>7. ASSUME NEW i \in 1..Len(v) PROVE u[i] = v[at(i)]
  <2>1. CASE i = Len(v)
    BY <1>4, <2>1
  <2>2. CASE i # Len(v)
    <3>1. i \in 1..(Len(v) - 1)
      BY <1>1, <2>2
    <3> QED
      BY <1>2, <1>4, <2>2, <3>1
  <2> QED
    BY <2>1, <2>2
<1> HIDE DEF at
<1>8. ASSUME NEW i \in 1..Len(u), NEW j \in 1..Len(u), u[i].image = u[j].image
      PROVE  i = j
  <2>1. v[at(i)].image = v[at(j)].image
    BY <1>4, <1>7, <1>8
  <2>2. at(i) = at(j)
    BY <1>1, <1>4, <1>5, <2>1 DEF OnePerImage
  <2> QED
    BY <1>4, <1>6, <2>2
<1> QED
  BY <1>1, <1>3, <1>4, <1>8 DEF VisionStores, OnePerImage

(* Both stores stay within their limits when a request is prepared. *)
LEMMA PreparedStores ==
    ASSUME NEW k \in Stores, NEW c \in Charges, NEW r \in Requests
    PROVE  Prepared(k, c, r) \in Stores
<1> DEFINE hits == Hits(k.vision, r)
           i == CHOOSE x \in hits : TRUE
<1>1. k.apc \in PromptStores /\ k.vision \in VisionStores
  BY DEF Stores
<1>2. \/ Prepared(k, c, r) = k
      \/ hits # {} /\ Prepared(k, c, r) = [k EXCEPT !.vision = Touch(k.vision, i)]
      \/ Prepared(k, c, r) = Enforce([k EXCEPT !.vision = Put(k.vision, r)], c)
  BY DEF Prepared
<1>3. hits # {} => i \in hits
  OBVIOUS
<1>4. hits \subseteq 1..Len(k.vision)
  BY DEF Hits
<1> HIDE DEF hits, i
<1>5. CASE Prepared(k, c, r) = k
  BY <1>5
<1>6. CASE hits # {} /\ Prepared(k, c, r) = [k EXCEPT !.vision = Touch(k.vision, i)]
  <2>1. Touch(k.vision, i) \in VisionStores
    BY <1>1, <1>3, <1>4, <1>6, TouchStores
  <2> QED
    BY <1>1, <1>6, <2>1 DEF Stores
<1>7. CASE Prepared(k, c, r) = Enforce([k EXCEPT !.vision = Put(k.vision, r)], c)
  <2>1. Put(k.vision, r) \in VisionStores
    BY <1>1, PutStores
  <2>2. [k EXCEPT !.vision = Put(k.vision, r)] \in Stores
    BY <1>1, <2>1 DEF Stores
  <2> QED
    BY <1>7, <2>2, EnforceFits
<1> QED
  BY <1>2, <1>5, <1>6, <1>7

(* A response of the generator. *)
AnyResponse == [uid : Requests, last : BOOLEAN, cache : BOOLEAN]

(* So they do over all responses of a step of the generator. *)
LEMMA StepStores ==
    ASSUME NEW k0 \in Stores, NEW c \in Charges, NEW z \in Seq(AnyResponse)
    PROVE  FoldLeft(LAMBDA k, x : IF x.cache THEN Remembered(k, c, x.uid) ELSE k, k0, z)
             \in Stores
<1> DEFINE N == Len(z)
           One(k, x) == IF x.cache THEN Remembered(k, c, x.uid) ELSE k
           step == [n \in 1..N |-> [k \in Stores |-> One(k, z[n])]]
<1>1. N \in Nat /\ DOMAIN z = 1..N /\ \A n \in 1..N : z[n] \in AnyResponse
  OBVIOUS
<1>2. \A k \in Stores, n \in 1..N : One(k, z[n]) \in Stores
  <2> SUFFICES ASSUME NEW k \in Stores, NEW n \in 1..N PROVE One(k, z[n]) \in Stores
    OBVIOUS
  <2>1. z[n] \in AnyResponse
    BY <1>1
  <2> QED
    BY <2>1, RememberedStores DEF AnyResponse
<1>3. SUFFICES FoldLeft(One, k0, z) \in Stores
  OBVIOUS
<1> HIDE DEF N, One
<1>4. step \in [1..N -> [Stores -> Stores]]
  BY <1>2
<1>5. \A n \in 1..N, k \in Stores : step[n][k] = One(k, z[n])
  OBVIOUS
<1> HIDE DEF step
<1>6. PICK g : IsFold(g, N, Stores, k0, step)
  BY <1>1, <1>4, FoldExists
<1>7. g = [d \in SUBSET (1..N) |-> IF d = {} THEN k0
                                  ELSE One(g[d \ {Max(d)}], z[Max(d)])]
  <2>1. ASSUME NEW d \in SUBSET (1..N), d # {}
        PROVE  g[d] = One(g[d \ {Max(d)}], z[Max(d)])
    <3>1. Max(d) \in 1..N /\ d \ {Max(d)} \in SUBSET (1..N)
      BY <2>1, <1>1, MaxMember
    <3>2. g[d \ {Max(d)}] \in Stores
      BY <3>1, <1>6 DEF IsFold
    <3> QED
      BY <2>1, <3>1, <3>2, <1>6, <1>5 DEF IsFold
  <2> QED
    BY <2>1, <1>6 DEF IsFold
<1>8. PICK it :
        /\ it = [d \in SUBSET (1..N) |-> IF d = {} THEN k0
                                         ELSE One(it[d \ {Max(d)}], z[Max(d)])]
        /\ FoldLeft(One, k0, z) = it[1..N]
  BY <1>1, <1>7, Zenon DEF FoldLeft, MapThenFoldSet
<1>9. it[{}] \in Stores
  BY <1>8
<1>10. ASSUME NEW n \in 1..N, it[1..(n - 1)] \in Stores PROVE it[1..n] \in Stores
  <2>0. n \in Nat \ {0} /\ n \in 1..n
    BY <1>1
  <2>1. Max(1..n) = n /\ (1..n) \ {n} = 1..(n - 1) /\ 1..n # {}
    BY <2>0, LastIndex
  <2>2. 1..n \in SUBSET (1..N)
    BY <1>1
  <2>3. it[1..n] = One(it[1..(n - 1)], z[n])
    BY <1>8, <2>1, <2>2
  <2> QED
    BY <1>2, <1>10, <2>3
<1>11. it[1..N] \in Stores
  BY <1>1, <1>9, <1>10, FoldInduction, Zenon
<1> QED
  BY <1>8, <1>11, Zenon

(* So they do over all requests of a batch. *)
LEMMA BatchStores ==
    ASSUME NEW k0 \in Stores, NEW c \in Charges, NEW z \in Seq(Requests)
    PROVE  FoldLeft(LAMBDA k, x : Prepared(k, c, x), k0, z)
             \in Stores
<1> DEFINE N == Len(z)
           One(k, x) == Prepared(k, c, x)
           step == [n \in 1..N |-> [k \in Stores |-> One(k, z[n])]]
<1>1. N \in Nat /\ DOMAIN z = 1..N /\ \A n \in 1..N : z[n] \in Requests
  OBVIOUS
<1>2. \A k \in Stores, n \in 1..N : One(k, z[n]) \in Stores
  <2> SUFFICES ASSUME NEW k \in Stores, NEW n \in 1..N PROVE One(k, z[n]) \in Stores
    OBVIOUS
  <2>1. z[n] \in Requests
    BY <1>1
  <2> QED
    BY <2>1, PreparedStores
<1>3. SUFFICES FoldLeft(One, k0, z) \in Stores
  OBVIOUS
<1> HIDE DEF N, One
<1>4. step \in [1..N -> [Stores -> Stores]]
  BY <1>2
<1>5. \A n \in 1..N, k \in Stores : step[n][k] = One(k, z[n])
  OBVIOUS
<1> HIDE DEF step
<1>6. PICK g : IsFold(g, N, Stores, k0, step)
  BY <1>1, <1>4, FoldExists
<1>7. g = [d \in SUBSET (1..N) |-> IF d = {} THEN k0
                                  ELSE One(g[d \ {Max(d)}], z[Max(d)])]
  <2>1. ASSUME NEW d \in SUBSET (1..N), d # {}
        PROVE  g[d] = One(g[d \ {Max(d)}], z[Max(d)])
    <3>1. Max(d) \in 1..N /\ d \ {Max(d)} \in SUBSET (1..N)
      BY <2>1, <1>1, MaxMember
    <3>2. g[d \ {Max(d)}] \in Stores
      BY <3>1, <1>6 DEF IsFold
    <3> QED
      BY <2>1, <3>1, <3>2, <1>6, <1>5 DEF IsFold
  <2> QED
    BY <2>1, <1>6 DEF IsFold
<1>8. PICK it :
        /\ it = [d \in SUBSET (1..N) |-> IF d = {} THEN k0
                                         ELSE One(it[d \ {Max(d)}], z[Max(d)])]
        /\ FoldLeft(One, k0, z) = it[1..N]
  BY <1>1, <1>7, Zenon DEF FoldLeft, MapThenFoldSet
<1>9. it[{}] \in Stores
  BY <1>8
<1>10. ASSUME NEW n \in 1..N, it[1..(n - 1)] \in Stores PROVE it[1..n] \in Stores
  <2>0. n \in Nat \ {0} /\ n \in 1..n
    BY <1>1
  <2>1. Max(1..n) = n /\ (1..n) \ {n} = 1..(n - 1) /\ 1..n # {}
    BY <2>0, LastIndex
  <2>2. 1..n \in SUBSET (1..N)
    BY <1>1
  <2>3. it[1..n] = One(it[1..(n - 1)], z[n])
    BY <1>8, <2>1, <2>2
  <2> QED
    BY <1>2, <1>10, <2>3
<1>11. it[1..N] \in Stores
  BY <1>1, <1>9, <1>10, FoldInduction, Zenon
<1> QED
  BY <1>8, <1>11, Zenon

-----------------------------------------------------------------------------
(* The queue and the generator. *)

(* Who waits, who runs, under which key, and who has been answered. *)
QueueInv ==
    /\ up \in BOOLEAN
    /\ pending \in Seq(Requests) /\ Once(pending)
    /\ active \subseteq Requests /\ IsFiniteSet(active)
    /\ Cardinality(active) <= DecodeConcurrency
    /\ holds = active
    /\ genKey \in Keys \union {NoKey}
    /\ \A r \in active : SamplingKey(r) = genKey
    /\ Queued \intersect active = {}
    /\ Open \intersect answered = {}
    /\ marked \subseteq Requests /\ answered \subseteq Requests
    /\ count \in [Requests -> 0..(MaxTokens - 1)]

(* The least of two numbers. *)
LEMMA MinOfTwo ==
    ASSUME NEW m \in Nat, NEW n \in Nat
    PROVE  Min({m, n}) = IF m <= n THEN m ELSE n
<1>1. {m, n} \in SUBSET Nat /\ {m, n} # {} /\ m \in {m, n} /\ n \in {m, n}
  OBVIOUS
<1>2. Min({m, n}) \in {m, n} /\ Min({m, n}) <= m /\ Min({m, n}) <= n
  BY <1>1, MinOfNaturals
<1> QED
  BY <1>2

(* The places of a member in a queue that has it once. *)
Places(s, x) == {j \in 1..Len(s) : s[j] = x}

LEMMA OnePlace ==
    ASSUME NEW E, NEW s \in Seq(E), Once(s), NEW i \in 1..Len(s)
    PROVE  Places(s, s[i]) # {} /\ Min(Places(s, s[i])) = i
<1> DEFINE I == Places(s, s[i])
<1>1. I = {i}
  BY DEF Once, Places
<1>2. I \in SUBSET Nat
  BY <1>1
<1>3. Min(I) \in I
  BY <1>1, <1>2, MinOfNaturals
<1> HIDE DEF I
<1>4. I # {} /\ Min(I) = i
  BY <1>1, <1>3
<1> QED
  BY <1>4 DEF I

(***************************************************************************)
(* A batch has requests of its key from the queue, no more than there is   *)
(* room for, and the loop has taken every one of them from the queue:      *)
(* where the batch is full, the last of it stands behind all others.       *)
(***************************************************************************)
LEMMA BatchTaken ==
    ASSUME pending \in Seq(Requests), Once(pending),
           NEW running, Cardinality(running) \in Nat,
           Cardinality(running) <= DecodeConcurrency, NEW bad
    PROVE  LET b == Batch(running, bad) IN
           /\ b \in Seq(Requests) /\ Once(b)
           /\ ToSet(b) \subseteq Taken(running, bad)
           /\ Taken(running, bad) \subseteq Queued
           /\ Cardinality(running) + Len(b) <= DecodeConcurrency
           /\ \A r \in ToSet(b) : SamplingKey(r) = BatchKey
<1> DEFINE b == Batch(running, bad)
           M == Matching
           S == Sound(bad)
           U == Requests \ (marked \union bad)
           L == Limit(running)
           n == Min({L, Len(S)})
<1>1. /\ M \in Seq(Requests) /\ Once(M) /\ Len(M) \in Nat
      /\ ToSet(M) \subseteq Queued
      /\ \A r \in ToSet(M) : SamplingKey(r) = BatchKey
  <2> DEFINE K == {r \in Requests : SamplingKey(r) = BatchKey}
  <2>1. M = Only(pending, K)
    BY DEF Matching
  <2>2. \A r \in K : SamplingKey(r) = BatchKey
    OBVIOUS
  <2> HIDE DEF K, M
  <2>3. M \in Seq(Requests)
    BY <2>1, OnlyPicks
  <2>4. Once(M) /\ ToSet(M) \subseteq ToSet(pending) \intersect K
    BY <2>1, OnlyMembers
  <2> QED
    BY <2>2, <2>3, <2>4 DEF Queued
<1>2. S = Only(M, U)
  BY DEF Sound
<1>3. CASE ~ Admits(running)
  <2>1. b = <<>> /\ Taken(running, bad) = {}
    BY <1>3 DEF Batch, Taken
  <2>2. ToSet(<<>>) = {} /\ Len(<<>>) = 0 /\ <<>> \in Seq(Requests) /\ Once(<<>>)
    BY DEF ToSet, Once
  <2> QED
    BY <2>1, <2>2, VlmBatchAssumption
<1>4. CASE Admits(running)
  <2> DEFINE room == DecodeConcurrency - Cardinality(running)
  <2>1. room \in Nat \ {0} /\ PromptConcurrency \in Nat \ {0}
    BY <1>4, VlmBatchAssumption DEF Admits
  <2>2. L \in Nat \ {0} /\ L <= room
    <3>1. L = Min({PromptConcurrency, room})
      BY DEF Limit
    <3> HIDE DEF room, L
    <3> QED
      BY <2>1, <3>1, MinOfTwo
  <2>3. b = SubSeq(S, 1, n)
    BY <1>4 DEF Batch
  <2>4. Taken(running, bad) =
          IF Len(b) < L THEN ToSet(M)
          ELSE ToSet(SubSeq(M, 1, IF Places(M, Last(b)) # {}
                                  THEN Min(Places(M, Last(b))) ELSE 0))
    BY <1>4 DEF Taken, SelectInSeq, Places
  <2> HIDE DEF M, L, S
  <2>5. S \in Seq(Requests) /\ Once(S) /\ Len(S) \in Nat /\ \E f : Picks(S, M, f, U)
    BY <1>1, <1>2, OnlyPicks, OnlyMembers
  <2>6. n \in 0..Len(S) /\ n <= L
    BY <2>2, <2>5, MinOfTwo
  <2> HIDE DEF b, n
  <2>7. /\ b \in Seq(Requests) /\ Len(b) = n /\ \A j \in 1..n : b[j] = S[j]
    BY <2>3, <2>5, <2>6
  <2>8. PICK f : Picks(S, M, f, U)
    BY <2>5
  <2>9. /\ f \in [1..Len(S) -> 1..Len(M)]
        /\ \A k \in 1..Len(S) : S[k] = M[f[k]]
        /\ \A i, j \in 1..Len(S) : i < j => f[i] < f[j]
    BY <2>8 DEF Picks
  <2>10. \A j \in 1..n : j \in 1..Len(S) /\ b[j] = M[f[j]] /\ f[j] \in 1..Len(M)
    <3> SUFFICES ASSUME NEW j \in 1..n
                 PROVE  j \in 1..Len(S) /\ b[j] = M[f[j]] /\ f[j] \in 1..Len(M)
      OBVIOUS
    <3>1. j \in 1..Len(S)
      BY <2>5, <2>6
    <3>2. S[j] = M[f[j]] /\ f[j] \in 1..Len(M)
      BY <2>9, <3>1
    <3> QED
      BY <2>7, <3>1, <3>2
  <2>11. Once(b)
    BY <2>5, <2>7, <2>10 DEF Once
  <2>12. DOMAIN b = 1..n /\ DOMAIN M = 1..Len(M)
    BY <1>1, <2>7
  <2>13. ToSet(b) \subseteq ToSet(M)
    BY <2>10, <2>12 DEF ToSet
  <2>14. /\ ToSet(b) \subseteq Taken(running, bad)
         /\ Taken(running, bad) \subseteq ToSet(M)
    <3>1. CASE Len(b) < L
      BY <2>4, <2>13, <3>1
    <3>2. CASE ~ (Len(b) < L)
      <4>1. n = L /\ n \in 1..n
        BY <2>2, <2>6, <2>7, <3>2
      <4> DEFINE p == f[n]
      <4>2. p \in 1..Len(M) /\ Last(b) = M[p]
        BY <2>7, <2>10, <4>1 DEF Last
      <4>3. Places(M, Last(b)) # {} /\ Min(Places(M, Last(b))) = p
        BY <1>1, <4>2, OnePlace
      <4> DEFINE front == SubSeq(M, 1, p)
      <4>4. Taken(running, bad) = ToSet(front)
        BY <2>4, <3>2, <4>3
      <4>5. \A j \in 1..n : f[j] \in 1..p
        <5> SUFFICES ASSUME NEW j \in 1..n PROVE f[j] \in 1..p
          OBVIOUS
        <5>1. j \in 1..Len(S) /\ n \in 1..Len(S) /\ f[j] \in 1..Len(M)
          BY <2>10, <4>1
        <5>2. j < n \/ j = n
          BY <4>1
        <5>3. f[j] < p \/ f[j] = p
          BY <2>9, <5>1, <5>2
        <5> QED
          BY <1>1, <4>2, <5>1, <5>3
      <4> HIDE DEF p
      <4>6. DOMAIN front = 1..p /\ \A i \in 1..p : front[i] = M[i] /\ i \in 1..Len(M)
        BY <1>1, <4>2
      <4> HIDE DEF front
      <4>7. ToSet(b) \subseteq ToSet(front)
        <5> SUFFICES ASSUME NEW x \in ToSet(b) PROVE x \in ToSet(front)
          OBVIOUS
        <5>1. PICK j \in 1..n : x = b[j]
          BY <2>12 DEF ToSet
        <5>2. f[j] \in 1..p /\ x = front[f[j]]
          BY <2>10, <4>5, <4>6, <5>1
        <5> QED
          BY <4>6, <5>2 DEF ToSet
      <4>8. ToSet(front) \subseteq ToSet(M)
        BY <2>12, <4>6 DEF ToSet
      <4> QED
        BY <4>4, <4>7, <4>8
    <3> QED
      BY <3>1, <3>2
  <2>15. Cardinality(running) + Len(b) <= DecodeConcurrency
    <3>1. n <= room /\ n \in Nat
      BY <2>1, <2>2, <2>5, <2>6
    <3> QED
      BY <2>7, <3>1, VlmBatchAssumption
  <2> QED
    BY <1>1, <2>7, <2>11, <2>13, <2>14, <2>15 DEF b
<1> QED
  BY <1>3, <1>4

(* Every response is one to a request that runs. *)
LEMMA ResponsesType ==
    ASSUME active \subseteq Requests, IsFiniteSet(active), NEW z \in Responses
    PROVE  /\ z \in Seq(AnyResponse)
           /\ \A x \in ToSet(z) : x.uid \in active /\ x.last \in BOOLEAN
                                  /\ (count[x.uid] + 1 = MaxTokens => x.last)
<1> DEFINE R == UNION {Response(r) : r \in active \intersect holds}
<1>1. \A x \in R : /\ x \in AnyResponse /\ x.uid \in active
                   /\ (count[x.uid] + 1 = MaxTokens => x.last)
  BY DEF Response, AnyResponse
<1>2. z \in SeqOf(R, Cardinality(active))
  BY DEF Responses
<1> HIDE DEF R
<1>3. PICK m \in 0..Cardinality(active) : z \in [1..m -> R]
  BY <1>2 DEF SeqOf
<1>4. Cardinality(active) \in Nat
  BY FS_CardinalityType
<1>5. m \in Nat
  BY <1>3, <1>4
<1>6. z \in [1..m -> AnyResponse]
  BY <1>1, <1>3
<1>7. z \in Seq(AnyResponse)
  BY <1>5, <1>6
<1>8. \A x \in ToSet(z) : x \in R
  BY <1>3 DEF ToSet
<1> QED
  BY <1>1, <1>7, <1>8 DEF AnyResponse

LEMMA InitQueueInv == Init => QueueInv
<1> SUFFICES ASSUME Init PROVE QueueInv
  OBVIOUS
<1>1. /\ up = TRUE /\ pending = <<>> /\ active = {} /\ genKey = NoKey /\ holds = {}
      /\ count = [r \in Requests |-> 0] /\ marked = {} /\ answered = {}
  BY DEF Init
<1>2. IsFiniteSet({}) /\ Cardinality({}) = 0
  BY FS_EmptySet
<1>3. Queued = {} /\ Once(pending) /\ pending \in Seq(Requests)
  BY <1>1 DEF Queued, ToSet, Once
<1>4. DecodeConcurrency \in Nat \ {0} /\ MaxTokens \in Nat \ {0}
  BY VlmBatchAssumption
<1> QED
  BY <1>1, <1>2, <1>3, <1>4 DEF QueueInv, Open

LEMMA SubmitQueue == ASSUME QueueInv, NEW r \in Requests, Submit(r) PROVE QueueInv'
<1>1. /\ r \notin Queued /\ r \notin active
      /\ pending' = Append(pending, r) /\ answered' = answered \ {r}
      /\ UNCHANGED <<up, active, genKey, holds, count, marked>>
  BY DEF Submit, Open
<1>2. pending \in Seq(Requests) /\ Once(pending) /\ Len(pending) \in Nat
  BY DEF QueueInv
<1>3. \A i \in 1..Len(pending) : pending[i] # r
  BY <1>1, <1>2 DEF Queued, ToSet
<1>4. /\ pending' \in Seq(Requests) /\ Len(pending') = Len(pending) + 1
      /\ \A i \in 1..Len(pending) : pending'[i] = pending[i]
      /\ pending'[Len(pending) + 1] = r /\ DOMAIN pending' = 1..(Len(pending) + 1)
  BY <1>1, <1>2
<1>5. Once(pending')
  <2> SUFFICES ASSUME NEW i \in 1..Len(pending'), NEW j \in 1..Len(pending'),
                      pending'[i] = pending'[j]
               PROVE  i = j
    BY DEF Once
  <2>1. i \in 1..Len(pending) \/ i = Len(pending) + 1
    BY <1>2, <1>4
  <2>2. j \in 1..Len(pending) \/ j = Len(pending) + 1
    BY <1>2, <1>4
  <2>3. CASE i \in 1..Len(pending) /\ j \in 1..Len(pending)
    BY <1>2, <1>4, <2>3 DEF Once
  <2> QED
    BY <1>3, <1>4, <2>1, <2>2, <2>3
<1>6. Queued' = Queued \union {r}
  <2>1. DOMAIN pending = 1..Len(pending)
    BY <1>2
  <2>2. \A x : x \in Queued' <=> x \in Queued \/ x = r
    <3> SUFFICES ASSUME NEW x PROVE x \in Queued' <=> x \in Queued \/ x = r
      OBVIOUS
    <3>1. x \in Queued' <=> \E i \in 1..(Len(pending) + 1) : x = pending'[i]
      BY <1>4 DEF Queued, ToSet
    <3>2. x \in Queued <=> \E i \in 1..Len(pending) : x = pending[i]
      BY <2>1 DEF Queued, ToSet
    <3>3. \A i : i \in 1..(Len(pending) + 1)
                 <=> i \in 1..Len(pending) \/ i = Len(pending) + 1
      BY <1>2
    <3> QED
      BY <1>4, <3>1, <3>2, <3>3
  <2> QED
    BY <2>2
<1> QED
  BY <1>1, <1>4, <1>5, <1>6 DEF QueueInv, Open, Keys

LEMMA MarkQueue == ASSUME QueueInv, NEW r \in Requests, Mark(r) PROVE QueueInv'
  BY DEF QueueInv, Mark, Open, Queued, Keys

LEMMA CancelQueue == ASSUME QueueInv, NEW r \in Requests, Cancel(r) PROVE QueueInv'
<1>1. /\ pending' = RemoveFirst(pending, r)
      /\ active' = active \ {r} /\ holds' = holds \ {r}
      /\ answered' = answered \union {r} /\ marked' = marked \ {r}
      /\ count' = [q \in Requests |-> IF q \in {r} THEN 0 ELSE count[q]]
      /\ UNCHANGED <<up, genKey>>
  BY DEF Cancel, Leave
<1>2. /\ pending' \in Seq(Requests) /\ Once(pending') /\ Queued' = Queued \ {r}
  BY <1>1, RemoveFirstOnce DEF QueueInv, Queued
<1>3. IsFiniteSet(active') /\ Cardinality(active') <= DecodeConcurrency
  <2>1. IsFiniteSet(active) /\ Cardinality(active) <= DecodeConcurrency
    BY DEF QueueInv
  <2>2. IsFiniteSet(active') /\ Cardinality(active') <= Cardinality(active)
    BY <1>1, <2>1, FS_Subset
  <2>3. Cardinality(active) \in Nat /\ Cardinality(active') \in Nat
    BY <2>1, <2>2, FS_CardinalityType
  <2> QED
    BY <2>1, <2>2, <2>3, VlmBatchAssumption
<1>4. count' \in [Requests -> 0..(MaxTokens - 1)]
  BY <1>1, VlmBatchAssumption DEF QueueInv
<1> QED
  BY <1>1, <1>2, <1>3, <1>4 DEF QueueInv, Open, Keys

(***************************************************************************)
(* A tick: who finishes leaves the batch, who is admitted joins it under   *)
(* its key, and whoever the loop took and did not admit is answered.       *)
(***************************************************************************)
LEMMA TickQueue ==
    ASSUME QueueInv, NEW z \in Responses, NEW bad, Tick(z, bad)
    PROVE  QueueInv'
<1> DEFINE gone == {x.uid : x \in {y \in ToSet(z) : y.last}}
           running == active \ gone
           b == Batch(running, bad)
           taken == Taken(running, bad)
           now == running \union ToSet(b)
           left == (gone \union taken) \ now
<1>1. /\ genKey # NoKey \/ pending # <<>>
      /\ pending' = Rest(taken) /\ active' = now
      /\ holds' = (holds \ gone) \union ToSet(b)
      /\ genKey' = IF now = {} THEN NoKey ELSE BatchKey
      /\ answered' = answered \union left /\ marked' = marked \ left
      /\ count' = [r \in Requests |->
                     IF r \in left THEN 0
                     ELSE IF \E x \in ToSet(z) : x.uid = r THEN count[r] + 1
                     ELSE count[r]]
      /\ up' = up
  BY DEF Tick
<1>2. /\ up \in BOOLEAN
      /\ pending \in Seq(Requests) /\ Once(pending)
      /\ active \subseteq Requests /\ IsFiniteSet(active)
      /\ Cardinality(active) <= DecodeConcurrency
      /\ holds = active
      /\ genKey \in Keys \union {NoKey}
      /\ \A r \in active : SamplingKey(r) = genKey
      /\ Queued \intersect active = {}
      /\ Open \intersect answered = {}
      /\ marked \subseteq Requests /\ answered \subseteq Requests
      /\ count \in [Requests -> 0..(MaxTokens - 1)]
  BY DEF QueueInv
<1>3. \A x \in ToSet(z) : x.uid \in active /\ (count[x.uid] + 1 = MaxTokens => x.last)
  BY <1>2, ResponsesType
<1>4. gone \subseteq active
  BY <1>3
<1>5. \A x \in ToSet(z) : x.last => x.uid \in gone
  OBVIOUS
<1> HIDE DEF gone
<1>6. /\ running \subseteq active /\ IsFiniteSet(running)
      /\ Cardinality(running) \in Nat /\ Cardinality(running) <= DecodeConcurrency
  <2>1. running \subseteq active
    OBVIOUS
  <2>2. IsFiniteSet(running) /\ Cardinality(running) <= Cardinality(active)
    BY <1>2, <2>1, FS_Subset
  <2>3. Cardinality(active) \in Nat /\ Cardinality(running) \in Nat
    BY <1>2, <2>2, FS_CardinalityType
  <2> QED
    BY <1>2, <2>1, <2>2, <2>3, VlmBatchAssumption
<1>7. /\ b \in Seq(Requests) /\ Once(b)
      /\ ToSet(b) \subseteq taken /\ taken \subseteq Queued
      /\ Cardinality(running) + Len(b) <= DecodeConcurrency
      /\ \A r \in ToSet(b) : SamplingKey(r) = BatchKey
  BY <1>2, <1>6, BatchTaken
<1> HIDE DEF running, b, taken
<1>8. Queued \subseteq Requests
  BY <1>2 DEF Queued, ToSet
<1>9. now \subseteq Requests /\ left \subseteq Requests /\ left \subseteq Open
  BY <1>2, <1>4, <1>6, <1>7, <1>8 DEF Open
<1>10. IsFiniteSet(now) /\ Cardinality(now) <= DecodeConcurrency
  <2>1. IsFiniteSet(ToSet(b)) /\ Cardinality(ToSet(b)) = Len(b)
    BY <1>7, OnceCardinality
  <2>2. /\ IsFiniteSet(now)
        /\ Cardinality(now) = Cardinality(running) + Cardinality(ToSet(b))
                              - Cardinality(running \intersect ToSet(b))
    BY <1>6, <2>1, FS_Union
  <2>3. Cardinality(running \intersect ToSet(b)) \in Nat
    <3>1. IsFiniteSet(running \intersect ToSet(b))
      BY <1>6, FS_Intersection
    <3> QED
      BY <3>1, FS_CardinalityType
  <2>4. Len(b) \in Nat
    BY <1>7
  <2> HIDE DEF now
  <2>5. Cardinality(now) <= Cardinality(running) + Len(b)
    BY <1>6, <2>1, <2>2, <2>3, <2>4
  <2> QED
    BY <1>6, <1>7, <2>2, <2>3, <2>4, <2>5, <2>1, VlmBatchAssumption
<1>11. \A r \in now : SamplingKey(r) = genKey'
  <2> SUFFICES ASSUME NEW r \in now PROVE SamplingKey(r) = BatchKey
    BY <1>1
  <2>1. CASE r \in ToSet(b)
    BY <1>7, <2>1
  <2>2. CASE r \in running
    <3>1. r \in Requests /\ SamplingKey(r) = genKey
      BY <1>2, <1>6, <2>2
    <3>2. genKey # NoKey
      BY <3>1, VlmBatchAssumption
    <3> QED
      BY <3>1, <3>2 DEF BatchKey
  <2> QED
    BY <2>1, <2>2
<1>12. genKey' \in Keys \union {NoKey}
  <2>1. CASE genKey # NoKey
    BY <1>1, <1>2, <2>1 DEF BatchKey
  <2>2. CASE genKey = NoKey
    <3>1. Head(pending) \in Requests
      BY <1>1, <1>2, <2>2
    <3> QED
      BY <1>1, <2>2, <3>1 DEF BatchKey, Keys
  <2> QED
    BY <2>1, <2>2
<1>13. /\ pending' \in Seq(Requests) /\ Once(pending')
       /\ Queued' \subseteq Queued \ taken
  <2> DEFINE V == Requests \ taken
  <2>1. pending' = Only(pending, V)
    BY <1>1 DEF Rest
  <2>2. V \intersect taken = {}
    OBVIOUS
  <2> HIDE DEF V
  <2>3. Only(pending, V) \in Seq(Requests)
    BY <1>2, OnlyPicks
  <2>4. ToSet(Only(pending, V)) \subseteq ToSet(pending) \intersect V /\ Once(Only(pending, V))
    BY <1>2, OnlyMembers
  <2> QED
    BY <2>1, <2>2, <2>3, <2>4 DEF Queued
<1>14. holds' = now
  BY <1>1, <1>2, <1>7 DEF running
<1>15. Queued' \intersect now = {}
  BY <1>2, <1>6, <1>7, <1>13
<1>16. (Queued' \union now) \intersect (answered \union left) = {}
  <2>1. Queued' \intersect left = {}
    BY <1>2, <1>4, <1>13
  <2>2. now \intersect left = {}
    OBVIOUS
  <2>3. Queued' \subseteq Open /\ now \subseteq Open
    BY <1>6, <1>7, <1>13 DEF Open
  <2> QED
    BY <1>2, <2>1, <2>2, <2>3
<1>17. count' \in [Requests -> 0..(MaxTokens - 1)]
  <2> SUFFICES ASSUME NEW r \in Requests PROVE count'[r] \in 0..(MaxTokens - 1)
    BY <1>1
  <2>1. count[r] \in 0..(MaxTokens - 1) /\ MaxTokens \in Nat \ {0}
    BY <1>2, VlmBatchAssumption
  <2>2. CASE r \in left
    BY <1>1, <2>1, <2>2
  <2>3. CASE r \notin left /\ \E x \in ToSet(z) : x.uid = r
    <3>1. PICK x \in ToSet(z) : x.uid = r
      BY <2>3
    <3>2. count'[r] = count[r] + 1
      BY <1>1, <2>3
    <3>3. ~ x.last
      <4> SUFFICES ASSUME x.last PROVE FALSE
        OBVIOUS
      <4>1. r \in gone
        BY <1>5, <3>1
      <4>2. r \notin running /\ r \notin ToSet(b)
        BY <1>2, <1>4, <1>7, <4>1 DEF running
      <4> QED
        BY <2>3, <4>1, <4>2
    <3>4. count[r] + 1 # MaxTokens
      BY <1>3, <3>1, <3>3
    <3> QED
      BY <2>1, <3>2, <3>4
  <2>4. CASE r \notin left /\ ~ \E x \in ToSet(z) : x.uid = r
    BY <1>1, <2>1, <2>4
  <2> QED
    BY <2>2, <2>3, <2>4
<1> HIDE DEF now, left
<1> QED
  BY <1>1, <1>2, <1>9, <1>10, <1>11, <1>12, <1>13, <1>14, <1>15, <1>16, <1>17
     DEF QueueInv, Open, Keys

LEMMA NextQueueInv == QueueInv /\ [Next]_vars => QueueInv'
<1> SUFFICES ASSUME QueueInv, [Next]_vars PROVE QueueInv'
  OBVIOUS
<1>1. CASE UNCHANGED vars
  BY <1>1 DEF vars, QueueInv, Open, Queued, Keys
<1>2. ASSUME NEW r \in Requests, Submit(r) PROVE QueueInv'
  BY <1>2, SubmitQueue
<1>3. ASSUME NEW r \in Requests, Mark(r) PROVE QueueInv'
  BY <1>3, MarkQueue
<1>4. ASSUME NEW r \in Requests, Cancel(r) PROVE QueueInv'
  BY <1>4, CancelQueue
<1>5. ASSUME NEW z \in Responses, NEW bad \in Bad, Tick(z, bad) PROVE QueueInv'
  BY <1>5, TickQueue
<1>6. ASSUME NEW n \in TextBytes, TextBatch(n) PROVE QueueInv'
  BY <1>6 DEF TextBatch, QueueInv, Open, Queued, Keys
<1>7. CASE GeneratorRaises
  BY <1>7 DEF GeneratorRaises, QueueInv, Open, Queued, Keys
<1>8. CASE Reset
  BY <1>8 DEF Reset, QueueInv, Open, Queued, Keys
<1> QED
  BY <1>1, <1>2, <1>3, <1>4, <1>5, <1>6, <1>7, <1>8 DEF Next

-----------------------------------------------------------------------------
(* The budget. *)

(***************************************************************************)
(* What is charged for the batch is at least what the generator holds, and *)
(* what is stored fits in the budget next to what is charged.              *)
(***************************************************************************)
BudgetInv ==
    /\ kept \in Stores
    /\ charged \in Charges
    /\ GeneratorBytes(holds) <= charged.vlm
    /\ Used(kept) <= Target(charged) \/ Used(kept) = 0

(* Fewer sequences do not need more memory. *)
LEMMA GeneratorBytesGrow ==
    ASSUME NEW T, IsFiniteSet(T), NEW S \in SUBSET T
    PROVE  /\ GeneratorBytes(S) \in Nat /\ GeneratorBytes(T) \in Nat
           /\ GeneratorBytes(S) <= GeneratorBytes(T)
<1> DEFINE m == Cardinality(S)
           n == Cardinality(T)
<1>1. IsFiniteSet(S) /\ m <= n
  BY FS_Subset
<1>2. m \in Nat /\ n \in Nat /\ SequenceBytes \in Nat
  BY <1>1, FS_CardinalityType, VlmBatchAssumption
<1>3. GeneratorBytes(S) = SequenceBytes * m /\ GeneratorBytes(T) = SequenceBytes * n
  BY DEF GeneratorBytes
<1> HIDE DEF m, n
<1>4. PICK d \in Nat : n = m + d
  <2>1. n - m \in Nat /\ n = m + (n - m)
    BY <1>1, <1>2
  <2> QED
    BY <2>1
<1>5. SequenceBytes * n = SequenceBytes * m + SequenceBytes * d
  BY <1>2, <1>4
<1>6. /\ SequenceBytes * m \in Nat /\ SequenceBytes * n \in Nat
      /\ SequenceBytes * d \in Nat
  BY <1>2
<1> QED
  BY <1>3, <1>5, <1>6

LEMMA InitBudgetInv == Init => BudgetInv
<1> SUFFICES ASSUME Init PROVE BudgetInv
  OBVIOUS
<1>1. /\ kept = [apc |-> <<>>, vision |-> <<>>]
      /\ charged = [text |-> 0, vlm |-> 0] /\ holds = {}
  BY DEF Init
<1>2. <<>> \in PromptStores
  BY WithinNone DEF PromptStores
<1>3. <<>> \in VisionStores
  BY VlmBatchAssumption DEF VisionStores, OnePerImage
<1>4. kept \in Stores
  BY <1>1, <1>2, <1>3 DEF Stores
<1>5. Used(kept) = 0
  BY <1>1, UsedOfNone DEF Used
<1>6. charged \in Charges /\ charged.vlm = 0
  BY <1>1, VlmBatchAssumption DEF Charges
<1>7. GeneratorBytes(holds) = 0
  BY <1>1, FS_EmptySet, VlmBatchAssumption DEF GeneratorBytes
<1> QED
  BY <1>4, <1>5, <1>6, <1>7 DEF BudgetInv

(* A tick charges for the sequences it leaves the generator with. *)
LEMMA TickBudget ==
    ASSUME QueueInv, BudgetInv, NEW z \in Responses, NEW bad, Tick(z, bad)
    PROVE  BudgetInv'
<1> DEFINE gone == {x.uid : x \in {y \in ToSet(z) : y.last}}
           running == active \ gone
           stepped == IF active = {} THEN charged
                      ELSE [charged EXCEPT !.vlm = GeneratorBytes(running)]
           b == Batch(running, bad)
           now == running \union ToSet(b)
           moved == IF now = {} \/ b # <<>>
                    THEN [stepped EXCEPT !.vlm = GeneratorBytes(now)] ELSE stepped
           k1 == FoldLeft(LAMBDA k, x : IF x.cache THEN Remembered(k, stepped, x.uid)
                                        ELSE k,
                          Enforce(kept, stepped), z)
           k2 == FoldLeft(LAMBDA k, x : Prepared(k, stepped, x), k1, b)
<1>1. /\ charged' = moved /\ kept' = Enforce(k2, moved)
      /\ holds' = (holds \ gone) \union ToSet(b)
  BY DEF Tick
<1>2. /\ pending \in Seq(Requests) /\ Once(pending)
      /\ active \subseteq Requests /\ IsFiniteSet(active) /\ holds = active
      /\ Cardinality(active) <= DecodeConcurrency
      /\ charged \in Charges /\ kept \in Stores
  BY DEF QueueInv, BudgetInv
<1>3. z \in Seq(AnyResponse)
  BY <1>2, ResponsesType
<1> HIDE DEF gone
<1>4. /\ IsFiniteSet(running) /\ running \subseteq active
      /\ Cardinality(running) \in Nat /\ Cardinality(running) <= DecodeConcurrency
  <2>1. running \subseteq active
    OBVIOUS
  <2>2. IsFiniteSet(running) /\ Cardinality(running) <= Cardinality(active)
    BY <1>2, <2>1, FS_Subset
  <2>3. Cardinality(active) \in Nat /\ Cardinality(running) \in Nat
    BY <1>2, <2>2, FS_CardinalityType
  <2> QED
    BY <1>2, <2>1, <2>2, <2>3, VlmBatchAssumption
<1>5. b \in Seq(Requests) /\ Once(b)
  BY <1>2, <1>4, BatchTaken
<1>6. holds' = now
  BY <1>1, <1>2
<1> HIDE DEF running, b
<1>7. IsFiniteSet(now)
  <2>1. IsFiniteSet(ToSet(b))
    BY <1>5, OnceCardinality
  <2> QED
    BY <1>4, <2>1, FS_Union
<1>8. GeneratorBytes(running) \in Nat /\ GeneratorBytes(now) \in Nat
  BY <1>4, <1>7, GeneratorBytesGrow
<1>9. stepped \in Charges
  BY <1>2, <1>8 DEF Charges
<1>10. moved \in Charges
  BY <1>8, <1>9 DEF Charges
<1>11. moved.vlm = GeneratorBytes(now)
  <2>1. CASE now = {} \/ b # <<>>
    BY <1>9, <2>1 DEF Charges
  <2>2. CASE now # {} /\ b = <<>>
    <3>1. ToSet(b) = {}
      BY <2>2 DEF ToSet
    <3>2. now = running /\ active # {}
      BY <1>4, <2>2, <3>1
    <3>3. moved = [charged EXCEPT !.vlm = GeneratorBytes(running)]
      BY <2>2, <3>2
    <3> QED
      BY <1>2, <3>2, <3>3 DEF Charges
  <2> QED
    BY <2>1, <2>2
<1> HIDE DEF stepped, moved, now
<1>12. Enforce(kept, stepped) \in Stores
  BY <1>2, <1>9, EnforceFits
<1>13. k1 \in Stores
  <2> DEFINE k0 == Enforce(kept, stepped)
  <2> HIDE DEF k0
  <2>1. k0 \in Stores
    BY <1>12 DEF k0
  <2>2. FoldLeft(LAMBDA k, x : IF x.cache THEN Remembered(k, stepped, x.uid)
                               ELSE k, k0, z) \in Stores
    BY <1>3, <1>9, <2>1, StepStores
  <2> QED
    BY <2>2 DEF k0
<1> HIDE DEF k1
<1>14. k2 \in Stores
  BY <1>5, <1>9, <1>13, BatchStores
<1> HIDE DEF k2
<1>15. /\ Enforce(k2, moved) \in Stores
       /\ Used(Enforce(k2, moved)) <= Target(moved) \/ Used(Enforce(k2, moved)) = 0
  BY <1>10, <1>14, EnforceFits
<1>16. GeneratorBytes(holds') <= charged'.vlm
  BY <1>1, <1>6, <1>8, <1>11
<1> QED
  BY <1>1, <1>10, <1>15, <1>16 DEF BudgetInv

LEMMA NextBudgetInv == QueueInv /\ BudgetInv /\ [Next]_vars => BudgetInv'
<1> SUFFICES ASSUME QueueInv, BudgetInv, [Next]_vars PROVE BudgetInv'
  OBVIOUS
<1>1. CASE UNCHANGED vars
  BY <1>1 DEF vars, BudgetInv
<1>2. ASSUME NEW r \in Requests, Submit(r) PROVE BudgetInv'
  BY <1>2 DEF Submit, BudgetInv
<1>3. ASSUME NEW r \in Requests, Mark(r) PROVE BudgetInv'
  BY <1>3 DEF Mark, BudgetInv
<1>4. ASSUME NEW r \in Requests, Cancel(r) PROVE BudgetInv'
  <2>1. /\ holds' = holds \ {r} /\ kept' = kept /\ charged' = charged
    BY <1>4 DEF Cancel
  <2>2. IsFiniteSet(holds) /\ holds' \subseteq holds
    BY <2>1 DEF QueueInv
  <2>3. /\ GeneratorBytes(holds') \in Nat /\ GeneratorBytes(holds) \in Nat
        /\ GeneratorBytes(holds') <= GeneratorBytes(holds)
    BY <2>2, GeneratorBytesGrow
  <2>4. charged.vlm \in Nat /\ GeneratorBytes(holds) <= charged.vlm
    BY DEF BudgetInv, Charges
  <2>5. GeneratorBytes(holds') <= charged'.vlm
    BY <2>1, <2>3, <2>4
  <2> QED
    BY <2>1, <2>5 DEF BudgetInv
<1>5. ASSUME NEW z \in Responses, NEW bad \in Bad, Tick(z, bad) PROVE BudgetInv'
  BY <1>5, TickBudget
<1>6. ASSUME NEW n \in TextBytes, TextBatch(n) PROVE BudgetInv'
  <2>1. /\ charged' = [charged EXCEPT !.text = n]
        /\ kept' = Enforce(kept, charged') /\ holds' = holds
    BY <1>6 DEF TextBatch
  <2>2. charged' \in Charges /\ charged'.vlm = charged.vlm
    BY <2>1 DEF BudgetInv, Charges
  <2>3. /\ kept' \in Stores
        /\ Used(kept') <= Target(charged') \/ Used(kept') = 0
    BY <2>1, <2>2, EnforceFits DEF BudgetInv
  <2> QED
    BY <2>1, <2>2, <2>3 DEF BudgetInv
<1>7. CASE GeneratorRaises
  BY <1>7 DEF GeneratorRaises, BudgetInv
<1>8. CASE Reset
  <2>1. kept' = [kept EXCEPT !.apc = <<>>] /\ charged' = charged /\ holds' = holds
    BY <1>8 DEF Reset
  <2>2. <<>> \in PromptStores
    BY WithinNone DEF PromptStores
  <2>3. /\ kept' \in Stores /\ kept'.apc = <<>> /\ kept'.vision = kept.vision
    BY <2>1, <2>2 DEF BudgetInv, Stores
  <2>4. /\ Bytes(kept.apc) \in Nat /\ VisionUsed(kept.vision) \in Nat
        /\ Target(charged) \in Nat
    BY UsedIsNumber, TargetIs DEF BudgetInv
  <2>5. Used(kept') = VisionUsed(kept.vision)
    BY <2>3, <2>4, UsedOfNone DEF Used
  <2>6. Used(kept) = Bytes(kept.apc) + VisionUsed(kept.vision)
    BY DEF Used
  <2>7. Used(kept) <= Target(charged) \/ Used(kept) = 0
    BY DEF BudgetInv
  <2>8. Used(kept') <= Target(charged) \/ Used(kept') = 0
    BY <2>4, <2>5, <2>6, <2>7
  <2> QED
    BY <2>1, <2>3, <2>8 DEF BudgetInv
<1> QED
  BY <1>1, <1>2, <1>3, <1>4, <1>5, <1>6, <1>7, <1>8 DEF Next

-----------------------------------------------------------------------------
(***************************************************************************)
(* What holds between any two calls of the vision scheduler: the queue and *)
(* the generator agree, and what is stored fits next to what is charged.   *)
(***************************************************************************)
THEOREM VlmBatchInvariant == Spec => [](QueueInv /\ BudgetInv)
<1>1. Init => QueueInv /\ BudgetInv
  BY InitQueueInv, InitBudgetInv
<1>2. QueueInv /\ BudgetInv /\ [Next]_vars => (QueueInv /\ BudgetInv)'
  BY NextQueueInv, NextBudgetInv
<1> QED
  BY <1>1, <1>2, PTL DEF Spec

(***************************************************************************)
(* _active and the generator never disagree about who runs: submissions,   *)
(* cancels, admissions under another key, bad requests and finished        *)
(* sequences leave both with the same requests under one sampling key, at  *)
(* most decode_concurrency, each queued or active once until its answer.   *)
(***************************************************************************)
THEOREM VlmSchedulerAgrees == Spec => []GeneratorAgrees
<1>1. QueueInv /\ BudgetInv => GeneratorAgrees
  <2> SUFFICES ASSUME QueueInv, BudgetInv PROVE GeneratorAgrees
    OBVIOUS
  <2>1. Cardinality(Queued) = Len(pending)
    BY OnceCardinality DEF QueueInv, Queued
  <2>2. /\ kept.apc \in Seq(PromptEntries) /\ kept.vision \in Seq(Snapshots)
        /\ charged.text \in TextBytes /\ charged.vlm \in Nat
    BY DEF BudgetInv, Stores, PromptStores, VisionStores, Charges
  <2>3. \A e \in ToSet(kept.apc) : \E r \in Requests :
          e.ns = ApcKey(r) /\ e.tokens = Prompt(r)
    <3>1. \A e \in ToSet(kept.apc) : e \in PromptEntries
      BY <2>2 DEF ToSet
    <3> QED
      BY <3>1 DEF PromptEntries, Entry
  <2>4. \A e \in ToSet(kept.vision) : \E r \in Requests : e = Snapshot(r)
    <3>1. \A e \in ToSet(kept.vision) : e \in Snapshots
      BY <2>2 DEF ToSet
    <3> QED
      BY <3>1 DEF Snapshots
  <2>5. count \in [Requests -> 0..MaxTokens]
    BY VlmBatchAssumption DEF QueueInv
  <2>6. TypeOK
    BY <2>2, <2>3, <2>4, <2>5 DEF QueueInv, TypeOK
  <2> QED
    BY <2>1, <2>6 DEF QueueInv, GeneratorAgrees
<1> QED
  BY <1>1, VlmBatchInvariant, PTL

(***************************************************************************)
(* CacheBudgetManager keeps its promise at all times: what both stores use *)
(* and what the running batches of the text and the vision scheduler use   *)
(* is together within the budget, or nothing is stored; each store keeps   *)
(* its own limits, and the vision store one entry per image.               *)
(***************************************************************************)
THEOREM StoresStayInBudget == Spec => []BudgetKept
<1>1. QueueInv /\ BudgetInv => BudgetKept
  <2> SUFFICES ASSUME QueueInv, BudgetInv PROVE BudgetKept
    OBVIOUS
  <2>1. kept \in Stores /\ charged \in Charges
    BY DEF BudgetInv
  <2>2. /\ Within(kept.apc) /\ Len(kept.vision) <= VisionEntries
        /\ \A i, j \in 1..Len(kept.vision) :
             kept.vision[i].image = kept.vision[j].image => i = j
    BY <2>1 DEF Stores, PromptStores, VisionStores, OnePerImage
  <2>3. /\ Target(charged) \in Nat
        /\ Target(charged) = 0 \/ Target(charged) = Budget - charged.text - charged.vlm
    BY <2>1, TargetIs
  <2>4. Used(kept) \in Nat
    BY <2>1, UsedIsNumber
  <2>5. /\ charged.text \in Nat /\ charged.vlm \in Nat /\ Budget \in Nat
    BY <2>1, VlmBatchAssumption DEF Charges
  <2>6. GeneratorBytes(holds) \in Nat /\ GeneratorBytes(holds) <= charged.vlm
    BY GeneratorBytesGrow DEF QueueInv, BudgetInv
  <2>7. Used(kept) <= Target(charged) \/ Used(kept) = 0
    BY DEF BudgetInv
  <2>8. \/ Used(kept) + charged.text + GeneratorBytes(holds) <= Budget
        \/ Used(kept) = 0
    BY <2>3, <2>4, <2>5, <2>6, <2>7
  <2> QED
    BY <2>2, <2>8 DEF BudgetKept
<1> QED
  BY <1>1, VlmBatchInvariant, PTL

=============================================================================
