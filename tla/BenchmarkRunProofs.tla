------------------------- MODULE BenchmarkRunProofs --------------------------
(***************************************************************************)
(* Proofs about BenchmarkRun: the load that was asked for is the load the  *)
(* server gets, a command ends as it is recorded and leaves nothing behind.*)
(* For every set of suites, workloads and connections.                     *)
(***************************************************************************)
EXTENDS BenchmarkRun, FiniteSetTheorems, SequenceTheorems, NaturalsInduction,
        WellFoundedInduction, TLAPS

-----------------------------------------------------------------------------
(* Numbers and folds. *)

(* A nonempty set of natural numbers has a least member. *)
LEMMA LeastNatural ==
    ASSUME NEW T \in SUBSET Nat, T # {}
    PROVE  \E m \in T : \A n \in T : m <= n
<1> DEFINE R == OpToRel(<, Nat)
<1>1. \A m, n \in T : n < m => <<n, m>> \in R
  BY DEF OpToRel
<1>2. IsWellFoundedOn(R, Nat)
  BY NatLessThanWellFounded
<1> HIDE DEF R
<1>3. PICK m \in T : \A n \in T : ~ (<<n, m>> \in R)
  BY <1>2, WFMin
<1>4. ASSUME NEW n \in T PROVE m <= n
  <2>1. ~ (n < m)
    BY <1>1, <1>3
  <2> QED
    BY <2>1
<1> QED
  BY <1>4

(* Min of such a set is its least member. *)
LEMMA MinOfNaturals ==
    ASSUME NEW T \in SUBSET Nat, T # {}
    PROVE  Min(T) \in T /\ \A n \in T : Min(T) <= n
  BY LeastNatural DEF Min

(* Max of a finite set that has a greatest member. *)
LEMMA MaxIs ==
    ASSUME NEW T \in SUBSET Nat, NEW m \in T, \A n \in T : n <= m
    PROVE  Max(T) = m
<1>1. Max(T) \in T /\ \A n \in T : Max(T) >= n
  BY DEF Max
<1>2. Max(T) >= m /\ Max(T) <= m /\ Max(T) \in Nat /\ m \in Nat
  BY <1>1
<1> HIDE DEF Max
<1> QED
  BY <1>2

(* Max of a nonempty set of indexes is one of them. *)
LEMMA MaxMember ==
    ASSUME NEW N \in Nat, NEW d \in SUBSET (1..N), d # {}
    PROVE  Max(d) \in d /\ \A j \in d : j <= Max(d)
<1> DEFINE U == {u \in Nat : \E i \in d : u = N - i}
<1>1. \A i \in d : N - i \in Nat /\ i \in Nat
  OBVIOUS
<1>2. U \in SUBSET Nat /\ U # {} /\ \A j \in d : N - j \in U
  BY <1>1
<1>3. PICK u \in U : \A v \in U : u <= v
  BY <1>2, LeastNatural
<1>4. PICK i \in d : u = N - i
  BY <1>3
<1> HIDE DEF U
<1>5. ASSUME NEW j \in d PROVE j <= i
  <2>1. N - i <= N - j /\ i \in Nat /\ j \in Nat
    BY <1>1, <1>2, <1>3, <1>4
  <2> QED
    BY <2>1
<1> QED
  BY <1>1, <1>4, <1>5, MaxIs

(* The values of a fold over the first n indexes, and any set of indexes. *)
IsFold(g, N, A, base, step) ==
    /\ g \in [SUBSET (1..N) -> A]
    /\ g[{}] = base
    /\ \A d \in SUBSET (1..N) : d # {} => g[d] = step[Max(d)][g[d \ {Max(d)}]]

(***************************************************************************)
(* The recursion behind FoldLeft is well-founded: there is a function that *)
(* satisfies it, whatever the steps do.                                    *)
(***************************************************************************)
LEMMA FoldExists ==
    ASSUME NEW N \in Nat, NEW A, NEW base \in A,
           NEW step \in [1..N -> [A -> A]]
    PROVE  \E g : IsFold(g, N, A, base, step)
<1> DEFINE Good(n, g) ==
      /\ g[{}] = base
      /\ \A d \in SUBSET (1..n) : d # {} => g[d] = step[Max(d)][g[d \ {Max(d)}]]
           Has(n) == \E g \in [SUBSET (1..n) -> A] : Good(n, g)
           T == {n \in 0..N : ~ Has(n)}
<1>a. Has(N) => \E g : IsFold(g, N, A, base, step)
  BY Zenon DEF IsFold
<1>b. \A n \in 0..N : n \notin T => Has(n)
  BY Zenon
<1>c. T \in SUBSET Nat /\ N \in 0..N
  BY SMT
<1>d. \A n \in T : ~ Has(n) /\ n \in 0..N
  BY Zenon
<1>e. ASSUME NEW n, NEW g \in [SUBSET (1..n) -> A], Good(n, g) PROVE Has(n)
  BY <1>e, Zenon
<1>f. ASSUME NEW n, Has(n) PROVE \E g \in [SUBSET (1..n) -> A] : Good(n, g)
  BY <1>f, Zenon
<1> HIDE DEF T, Has
<1>1. SUFFICES ASSUME T # {} PROVE FALSE
  BY <1>a, <1>b, <1>c, Zenon
<1>2. PICK m \in T : \A n \in T : m <= n
  BY <1>1, <1>c, LeastNatural
<1>3. m # 0
  <2> SUFFICES ASSUME m = 0 PROVE FALSE
    OBVIOUS
  <2> DEFINE g == [d \in SUBSET (1..0) |-> base]
  <2>1. SUBSET (1..0) = {{}}
    OBVIOUS
  <2>2. g \in [SUBSET (1..0) -> A] /\ Good(0, g)
    BY <2>1
  <2>3. Has(0)
    BY <2>2, <1>e
  <2> QED
    BY <2>3, <1>d
<1>4. m \in 1..N /\ m - 1 \in 0..N /\ m - 1 < m /\ m \in Nat /\ m - 1 \in Nat
  <2>1. m \in 0..N
    BY <1>d
  <2> QED
    BY <2>1, <1>3
<1>5. PICK g \in [SUBSET (1..(m-1)) -> A] : Good(m - 1, g)
  <2>1. m - 1 \notin T
    BY <1>2, <1>4
  <2>2. Has(m - 1)
    BY <2>1, <1>4, <1>b
  <2> QED
    BY <2>2, <1>f
<1> DEFINE S == SUBSET (1..(m-1))
           h == [d \in SUBSET (1..m) |-> IF d \in S THEN g[d]
                                         ELSE step[m][g[d \ {m}]]]
<1>6. \A d \in SUBSET (1..m) : d \notin S => m \in d /\ d \ {m} \in S /\ Max(d) = m
  <2> SUFFICES ASSUME NEW d \in SUBSET (1..m), d \notin S
               PROVE  m \in d /\ d \ {m} \in S /\ Max(d) = m
    OBVIOUS
  <2>1. m \in d /\ d \ {m} \in S
    BY <1>4
  <2>2. Max(d) = m
    BY <2>1, <1>4, MaxIs
  <2> QED
    BY <2>1, <2>2
<1>7. h \in [SUBSET (1..m) -> A]
  BY <1>4, <1>6
<1>8. \A d \in S : d \in SUBSET (1..m) /\ h[d] = g[d]
  BY <1>4
<1>9. \A d \in S : d # {} => Max(d) \in d
  BY <1>4, MaxMember
<1>10. Good(m, h)
  <2>1. h[{}] = base
    BY <1>5, <1>8
  <2>2. ASSUME NEW d \in SUBSET (1..m), d # {}
        PROVE h[d] = step[Max(d)][h[d \ {Max(d)}]]
    <3>1. CASE d \in S
      BY <3>1, <2>2, <1>5, <1>8, <1>9
    <3>2. CASE d \notin S
      BY <3>2, <1>6, <1>8
    <3> QED
      BY <3>1, <3>2
  <2> QED
    BY <2>1, <2>2
<1> HIDE DEF h, Good
<1>11. Has(m)
  BY <1>e, <1>7, <1>10
<1> QED
  BY <1>d, <1>11

(* The last index of a sequence and the indexes before it. *)
LEMMA LastIndex ==
    ASSUME NEW n \in Nat \ {0}
    PROVE  Max(1..n) = n /\ (1..n) \ {n} = 1..(n - 1)
<1>1. Max(1..n) = n
  BY MaxIs
<1> QED
  BY <1>1

(***************************************************************************)
(* What holds of the base and is kept by every step of a fold holds of its *)
(* result.                                                                 *)
(***************************************************************************)
LEMMA FoldInduction ==
    ASSUME NEW N \in Nat, NEW A, NEW it, it[{}] \in A,
           \A n \in 1..N : it[1..(n - 1)] \in A => it[1..n] \in A
    PROVE  it[1..N] \in A
<1> DEFINE T == {n \in 0..N : it[1..n] \notin A}
<1>1. SUFFICES ASSUME T # {} PROVE FALSE
  BY N \in 0..N
<1>2. T \in SUBSET Nat
  OBVIOUS
<1>3. PICK m \in T : \A n \in T : m <= n
  BY <1>1, <1>2, LeastNatural
<1>4. m \in 0..N /\ it[1..m] \notin A
  BY <1>3
<1>5. m # 0
  <2>1. 1..0 = {}
    OBVIOUS
  <2> QED
    BY <1>4, <2>1
<1>6. m \in 1..N /\ m - 1 \in 0..N /\ ~ (m <= m - 1)
  BY <1>4, <1>5
<1>7. m - 1 \notin T
  BY <1>3, <1>6
<1>8. it[1..(m - 1)] \in A
  BY <1>6, <1>7
<1> QED
  BY <1>4, <1>6, <1>8

-----------------------------------------------------------------------------
(* Sequences. *)

LEMMA SeqOfFunction ==
    ASSUME NEW T, NEW n \in Nat, NEW f \in [1..n -> T]
    PROVE  f \in Seq(T) /\ Len(f) = n
<1>1. f \in Seq(T)
  BY SeqDef
<1> QED
  BY <1>1, LenProperties

LEMMA SeqOfSubset ==
    ASSUME NEW T, NEW S \in SUBSET T, NEW s \in Seq(S)
    PROVE  s \in Seq(T)
<1>1. Len(s) \in Nat /\ s \in [1..Len(s) -> S]
  BY LenProperties
<1>2. s \in [1..Len(s) -> T]
  BY <1>1
<1> QED
  BY <1>1, <1>2, SeqDef

LEMMA ToSetIs ==
    ASSUME NEW T, NEW s \in Seq(T)
    PROVE  /\ ToSet(s) \subseteq T
           /\ \A x : x \in ToSet(s) <=> \E i \in 1..Len(s) : s[i] = x
  BY DEF ToSet

LEMMA ConcatMembers ==
    ASSUME NEW T, NEW a \in Seq(T), NEW b \in Seq(T)
    PROVE  /\ a \o b \in Seq(T)
           /\ \A x : x \in ToSet(a \o b) <=> x \in ToSet(a) \/ x \in ToSet(b)
<1> DEFINE s == a \o b
<1>1. /\ s \in Seq(T) /\ Len(a) \in Nat /\ Len(b) \in Nat
      /\ Len(s) = Len(a) + Len(b)
      /\ \A i \in 1..Len(a) : s[i] = a[i]
      /\ \A i \in 1..Len(b) : s[Len(a) + i] = b[i]
  OBVIOUS
<1> HIDE DEF s
<1>2. ASSUME NEW x, x \in ToSet(s) PROVE x \in ToSet(a) \/ x \in ToSet(b)
  <2>1. PICK i \in 1..Len(s) : s[i] = x
    BY <1>1, <1>2, ToSetIs
  <2>2. CASE i <= Len(a)
    <3>1. i \in 1..Len(a)
      BY <1>1, <2>2
    <3> QED
      BY <1>1, <2>1, <3>1, ToSetIs
  <2>3. CASE i > Len(a)
    <3>1. i - Len(a) \in 1..Len(b) /\ i = Len(a) + (i - Len(a))
      BY <1>1, <2>3
    <3>2. b[i - Len(a)] = x
      BY <1>1, <2>1, <3>1
    <3> QED
      BY <3>1, <3>2, ToSetIs
  <2> QED
    BY <1>1, <2>2, <2>3
<1>3. ASSUME NEW x, x \in ToSet(a) PROVE x \in ToSet(s)
  <2>1. PICK i \in 1..Len(a) : a[i] = x
    BY <1>3, ToSetIs
  <2>2. i \in 1..Len(s)
    BY <1>1
  <2> QED
    BY <1>1, <2>1, <2>2, ToSetIs
<1>4. ASSUME NEW x, x \in ToSet(b) PROVE x \in ToSet(s)
  <2>1. PICK i \in 1..Len(b) : b[i] = x
    BY <1>4, ToSetIs
  <2>2. Len(a) + i \in 1..Len(s)
    BY <1>1
  <2> QED
    BY <1>1, <2>1, <2>2, ToSetIs
<1> QED
  BY <1>1, <1>2, <1>3, <1>4 DEF s

(* The prefixes of a sequence of sequences, flattened. *)
IsFlatten(f, n, T, ss) ==
    /\ f \in [1..n -> Seq(T)]
    /\ \A i \in 1..n : f[i] = IF i = 1 THEN ss[i] ELSE f[i - 1] \o ss[i]

LEMMA FlattenExists ==
    ASSUME NEW T, NEW ss \in Seq(Seq(T))
    PROVE  \E f : IsFlatten(f, Len(ss), T, ss)
<1> DEFINE N == Len(ss)
           Has(n) == \E f : IsFlatten(f, n, T, ss)
           B == {n \in 0..N : ~ Has(n)}
<1>0. N \in Nat /\ \A i \in 1..N : ss[i] \in Seq(T)
  OBVIOUS
<1> HIDE DEF N
<1>a. \A n \in 0..N : n \notin B => Has(n)
  OBVIOUS
<1>b. B \in SUBSET Nat /\ N \in 0..N
  BY <1>0
<1>c. \A n \in B : ~ Has(n) /\ n \in 0..N
  OBVIOUS
<1>1. SUFFICES ASSUME B # {} PROVE FALSE
  BY <1>a, <1>b DEF N
<1>2. PICK m \in B : \A n \in B : m <= n
  BY <1>1, <1>b, LeastNatural
<1>3. m # 0
  <2>1. IsFlatten(<<>>, 0, T, ss)
    BY DEF IsFlatten
  <2> QED
    BY <1>c, <2>1
<1> HIDE DEF B
<1>4. m \in 1..N /\ m - 1 \in 0..N /\ ~ (m <= m - 1) /\ m \in Nat
  BY <1>0, <1>2, <1>3, <1>c
<1>5. PICK f : IsFlatten(f, m - 1, T, ss)
  BY <1>2, <1>4, <1>a
<1> DEFINE g == [i \in 1..m |-> IF i < m THEN f[i]
                                ELSE IF i = 1 THEN ss[i] ELSE f[i - 1] \o ss[i]]
<1>6. f \in [1..(m - 1) -> Seq(T)]
      /\ \A i \in 1..(m - 1) : f[i] = IF i = 1 THEN ss[i] ELSE f[i - 1] \o ss[i]
  BY <1>5 DEF IsFlatten
<1>7. ASSUME NEW i \in 1..m PROVE g[i] \in Seq(T)
  <2>1. CASE i < m
    BY <1>4, <1>6, <2>1
  <2>2. CASE i = m
    <3>1. ss[i] \in Seq(T)
      BY <1>0, <1>4, <2>2
    <3>2. i # 1 => f[i - 1] \in Seq(T)
      BY <1>4, <1>6, <2>2
    <3> QED
      BY <2>2, <3>1, <3>2, <1>4
  <2> QED
    BY <1>4, <2>1, <2>2
<1>8. ASSUME NEW i \in 1..m
      PROVE  g[i] = IF i = 1 THEN ss[i] ELSE g[i - 1] \o ss[i]
  <2>1. i # 1 => i - 1 \in 1..m /\ i - 1 < m
    BY <1>4
  <2>2. i # 1 => g[i - 1] = f[i - 1]
    BY <2>1
  <2>3. CASE i < m
    <3>1. i \in 1..(m - 1)
      BY <1>4, <2>3
    <3>2. g[i] = f[i]
      BY <2>3
    <3> HIDE DEF g
    <3> QED
      BY <1>6, <2>2, <3>1, <3>2
  <2>4. CASE ~ (i < m)
    BY <2>2, <2>4
  <2> QED
    BY <2>3, <2>4
<1>9. IsFlatten(g, m, T, ss)
  <2>1. g \in [1..m -> Seq(T)]
    BY <1>7
  <2> HIDE DEF g
  <2> QED
    BY <1>8, <2>1 DEF IsFlatten
<1> HIDE DEF g
<1> QED
  BY <1>2, <1>9, <1>c

(* FlattenSeq yields the members of the sequences it is given. *)
LEMMA FlattenMembers ==
    ASSUME NEW T, NEW ss \in Seq(Seq(T))
    PROVE  /\ FlattenSeq(ss) \in Seq(T)
           /\ \A x : x \in ToSet(FlattenSeq(ss)) <=>
                       \E i \in 1..Len(ss) : x \in ToSet(ss[i])
<1> DEFINE N == Len(ss)
<1>0. N \in Nat /\ \A i \in 1..N : ss[i] \in Seq(T)
  OBVIOUS
<1>1. CASE N = 0
  <2>1. FlattenSeq(ss) = ss /\ ss = <<>>
    BY <1>1 DEF FlattenSeq
  <2>2. ToSet(<<>>) = {} /\ <<>> \in Seq(T)
    BY DEF ToSet
  <2> QED
    BY <1>1, <2>1, <2>2
<1>2. CASE N # 0
  <2> DEFINE F(f) == [i \in 1..N |-> IF i = 1 THEN ss[i] ELSE f[i - 1] \o ss[i]]
  <2>1. PICK f : IsFlatten(f, N, T, ss)
    BY FlattenExists
  <2>2. f = F(f)
    BY <2>1 DEF IsFlatten
  <2>3. PICK fl : fl = F(fl) /\ FlattenSeq(ss) = fl[N]
    BY <1>2, <2>2, Zenon DEF FlattenSeq
  <2>4. \A i \in 1..N : fl[i] = IF i = 1 THEN ss[i] ELSE fl[i - 1] \o ss[i]
    BY <2>3
  <2> HIDE DEF F, N
  <2> DEFINE Good(n) == /\ fl[n] \in Seq(T)
                        /\ \A x : x \in ToSet(fl[n]) <=>
                                    \E i \in 1..n : x \in ToSet(ss[i])
             B == {n \in 1..N : ~ Good(n)}
  <2>5. SUFFICES Good(N)
    BY <2>3 DEF N
  <2>a. N \in 1..N
    BY <1>0, <1>2
  <2>6. SUFFICES ASSUME B # {} PROVE FALSE
    BY <2>a, Zenon
  <2>7. B \in SUBSET Nat
    OBVIOUS
  <2>8. PICK m \in B : \A n \in B : m <= n
    BY <2>6, <2>7, LeastNatural
  <2>9. m \in 1..N /\ ~ Good(m)
    BY <2>8
  <2>10. CASE m = 1
    <3>1. fl[m] = ss[1] /\ ss[1] \in Seq(T)
      BY <1>0, <2>4, <2>9, <2>10
    <3>2. 1..m = {1}
      BY <2>10
    <3> QED
      BY <2>9, <3>1, <3>2
  <2>11. CASE m # 1
    <3>1. m - 1 \in 1..N /\ ~ (m <= m - 1)
      BY <1>0, <2>9, <2>11
    <3>2. Good(m - 1)
      BY <2>8, <3>1
    <3> DEFINE a == fl[m - 1]
               b == ss[m]
    <3>3. fl[m] = a \o b /\ a \in Seq(T) /\ b \in Seq(T)
      BY <1>0, <2>4, <2>9, <2>11, <3>2
    <3>4. \A x : x \in ToSet(a) <=> \E i \in 1..(m - 1) : x \in ToSet(ss[i])
      BY <3>2
    <3> HIDE DEF a, b
    <3>5. a \o b \in Seq(T) /\ \A x : x \in ToSet(a \o b) <=> x \in ToSet(a) \/ x \in ToSet(b)
      BY <3>3, ConcatMembers
    <3>6. 1..m = (1..(m - 1)) \union {m}
      BY <2>9
    <3>7. Good(m)
      BY <3>3, <3>4, <3>5, <3>6 DEF b
    <3> QED
      BY <2>9, <3>7
  <2> QED
    BY <2>10, <2>11
<1> QED
  BY <1>1, <1>2

(* SetToSeq lists every member of a finite set once. *)
LEMMA SetToSeqLists ==
    ASSUME NEW S, IsFiniteSet(S)
    PROVE  /\ SetToSeq(S) \in Seq(S) /\ Len(SetToSeq(S)) = Cardinality(S)
           /\ IsInjective(SetToSeq(S)) /\ ToSet(SetToSeq(S)) = S
<1> DEFINE n == Cardinality(S)
           f == SetToSeq(S)
<1>1. n \in Nat /\ ExistsBijection(1..n, S)
  BY FS_CardinalityType
<1>2. \E g \in [1..n -> S] : IsInjective(g)
  BY <1>1 DEF ExistsBijection, Bijection, Injection, IsInjective
<1>3. f \in [1..n -> S] /\ IsInjective(f)
  BY <1>2 DEF SetToSeq
<1> HIDE DEF f
<1>4. f \in Seq(S) /\ Len(f) = n
  BY <1>1, <1>3, SeqOfFunction
<1>5. f \in Surjection(1..n, S)
  <2>1. f \in Injection(1..n, S)
    BY <1>3 DEF Injection, IsInjective
  <2>2. Cardinality(1..n) = n
    BY <1>1, FS_Interval
  <2> HIDE DEF n
  <2> QED
    BY <2>1, <2>2, FS_Injection DEF n
<1>6. ToSet(f) = S
  BY <1>3, <1>4, <1>5 DEF ToSet, Surjection
<1> QED
  BY <1>3, <1>4, <1>6 DEF f

-----------------------------------------------------------------------------
(* The plan. *)

Orders == [model : Models, runtimes : Seq(Runtimes)]
Covers == [model : Models, workloads : SUBSET Workloads]
Executions == [model : Models, runtime : Runtimes, workloads : Seq(Workloads)]

(* What is left of the orders of a suite. *)
LEMMA SelectedOrders ==
    ASSUME NEW suite \in Suites, NEW focus
    PROVE  LET c == Select(suite, focus) IN
           /\ c.orders \in Seq(Orders)
           /\ \A o : o \in ToSet(c.orders) <=>
                       o \in ToSet(suite.orders) /\ o.model \in c.models
<1> DEFINE orders == suite.orders
           M == suite.models \intersect focus.models
           ss == [i \in 1..Len(orders) |->
                    IF orders[i].model \in M THEN <<orders[i]>> ELSE <<>>]
           c == Select(suite, focus)
<1>1. orders \in Seq(Orders)
  BY SuitesAssumption DEF Orders
<1>2. c.orders = FlattenSeq(ss) /\ c.models = M
  BY DEF Select
<1> HIDE DEF c, M
<1>3. \A i \in 1..Len(orders) : orders[i] \in Orders /\ Len(orders) \in Nat
  BY <1>1
<1> HIDE DEF orders
<1>4. \A i \in 1..Len(orders) : ss[i] \in Seq(Orders)
  BY <1>3
<1>5. Len(orders) \in Nat
  BY <1>1
<1>6. ss \in [1..Len(orders) -> Seq(Orders)]
  BY <1>4
<1>7. ss \in Seq(Seq(Orders)) /\ Len(ss) = Len(orders)
  BY <1>5, <1>6, SeqOfFunction
<1>8. \A i \in 1..Len(orders) : \A x :
        x \in ToSet(ss[i]) <=> x = orders[i] /\ orders[i].model \in M
  <2> SUFFICES ASSUME NEW i \in 1..Len(orders), NEW x
               PROVE  x \in ToSet(ss[i]) <=> x = orders[i] /\ orders[i].model \in M
    OBVIOUS
  <2>1. CASE orders[i].model \in M
    <3>1. ss[i] = <<orders[i]>>
      BY <2>1
    <3>2. ToSet(<<orders[i]>>) = {orders[i]}
      BY DEF ToSet
    <3> QED
      BY <2>1, <3>1, <3>2
  <2>2. CASE orders[i].model \notin M
    <3>1. ss[i] = <<>>
      BY <2>2
    <3>2. ToSet(<<>>) = {}
      BY DEF ToSet
    <3> QED
      BY <2>2, <3>1, <3>2
  <2> QED
    BY <2>1, <2>2
<1> HIDE DEF ss
<1>9. /\ FlattenSeq(ss) \in Seq(Orders)
      /\ \A x : x \in ToSet(FlattenSeq(ss)) <=>
                  \E i \in 1..Len(ss) : x \in ToSet(ss[i])
  BY <1>7, FlattenMembers
<1>10. \A o : o \in ToSet(c.orders) <=> o \in ToSet(orders) /\ o.model \in M
  <2>1. \A o : o \in ToSet(orders) <=> \E i \in 1..Len(orders) : orders[i] = o
    BY <1>1, ToSetIs
  <2>2. \A o : o \in ToSet(c.orders) <=>
                \E i \in 1..Len(orders) : o = orders[i] /\ orders[i].model \in M
    BY <1>2, <1>7, <1>8, <1>9
  <2> QED
    BY <2>1, <2>2
<1> QED
  BY <1>2, <1>9, <1>10 DEF c, orders

(* The start of a model under a runtime configuration. *)
Start(c, model, runtime) ==
    [model |-> model, runtime |-> runtime,
     workloads |-> SetToSeq(WorkloadsFor(c, model, runtime))]

LEMMA StartLists ==
    ASSUME NEW c, c.workloads \subseteq Workloads,
           NEW model \in Models, NEW runtime \in Runtimes
    PROVE  /\ Start(c, model, runtime) \in Executions
           /\ IsInjective(Start(c, model, runtime).workloads)
           /\ ToSet(Start(c, model, runtime).workloads) = WorkloadsFor(c, model, runtime)
<1> DEFINE S == WorkloadsFor(c, model, runtime)
<1>1. S \in SUBSET Workloads
  BY DEF WorkloadsFor
<1>2. IsFiniteSet(S)
  BY <1>1, FS_Subset, SuitesAssumption
<1> HIDE DEF S
<1>3. SetToSeq(S) \in Seq(S) /\ IsInjective(SetToSeq(S)) /\ ToSet(SetToSeq(S)) = S
  BY <1>2, SetToSeqLists
<1>4. SetToSeq(S) \in Seq(Workloads)
  BY <1>1, <1>3, SeqOfSubset
<1> QED
  BY <1>3, <1>4 DEF S, Start, Executions

(* _execution_plan starts each selected order under each of its runtimes. *)
LEMMA PlanStarts ==
    ASSUME NEW c, c.workloads \subseteq Workloads, c.orders \in Seq(Orders)
    PROVE  /\ ExecutionPlan(c) \in Seq(Executions)
           /\ \A x : x \in ToSet(ExecutionPlan(c)) <=>
                \E o \in ToSet(c.orders) : \E r \in ToSet(o.runtimes) :
                   x = Start(c, o.model, r)
<1> DEFINE os == c.orders
           row(i) == [j \in 1..Len(os[i].runtimes) |->
                        Start(c, os[i].model, os[i].runtimes[j])]
           ss == [i \in 1..Len(os) |-> row(i)]
<1>1. ExecutionPlan(c) = FlattenSeq(ss)
  BY DEF ExecutionPlan, Start
<1>2. Len(os) \in Nat /\ \A i \in 1..Len(os) : os[i] \in Orders
  OBVIOUS
<1> HIDE DEF os
<1>3. ASSUME NEW i \in 1..Len(os)
      PROVE  /\ row(i) \in Seq(Executions)
             /\ \A x : x \in ToSet(row(i)) <=>
                         \E r \in ToSet(os[i].runtimes) : x = Start(c, os[i].model, r)
  <2> DEFINE rs == os[i].runtimes
  <2>1. os[i].model \in Models /\ rs \in Seq(Runtimes)
    BY <1>2 DEF Orders
  <2>2. Len(rs) \in Nat /\ \A j \in 1..Len(rs) : rs[j] \in Runtimes
    BY <2>1
  <2> HIDE DEF rs
  <2>3. row(i) = [j \in 1..Len(rs) |-> Start(c, os[i].model, rs[j])]
    BY DEF rs
  <2>4. \A j \in 1..Len(rs) : Start(c, os[i].model, rs[j]) \in Executions
    BY <2>1, <2>2, StartLists
  <2> HIDE DEF row
  <2>5. row(i) \in [1..Len(rs) -> Executions]
    BY <2>3, <2>4
  <2>6. row(i) \in Seq(Executions) /\ Len(row(i)) = Len(rs)
    BY <2>2, <2>5, SeqOfFunction
  <2>7. \A x : x \in ToSet(row(i)) <=> \E j \in 1..Len(rs) : row(i)[j] = x
    BY <2>6, ToSetIs
  <2>8. \A r : r \in ToSet(rs) <=> \E j \in 1..Len(rs) : rs[j] = r
    BY <2>1, ToSetIs
  <2>9. \A j \in 1..Len(rs) : row(i)[j] = Start(c, os[i].model, rs[j])
    BY <2>3
  <2>10. \A x : x \in ToSet(row(i)) <=>
                  \E r \in ToSet(rs) : x = Start(c, os[i].model, r)
    BY <2>7, <2>8, <2>9
  <2> QED
    BY <2>6, <2>10 DEF rs
<1>4. ss \in [1..Len(os) -> Seq(Executions)] /\ \A i \in 1..Len(os) : ss[i] = row(i)
  BY <1>3
<1> HIDE DEF ss, row
<1>5. ss \in Seq(Seq(Executions)) /\ Len(ss) = Len(os)
  BY <1>2, <1>4, SeqOfFunction
<1>6. /\ FlattenSeq(ss) \in Seq(Executions)
      /\ \A x : x \in ToSet(FlattenSeq(ss)) <=>
                  \E i \in 1..Len(ss) : x \in ToSet(ss[i])
  BY <1>5, FlattenMembers
<1>7. \A x : x \in ToSet(ExecutionPlan(c)) <=>
        \E i \in 1..Len(os) : \E r \in ToSet(os[i].runtimes) :
           x = Start(c, os[i].model, r)
  <2>1. \A i \in 1..Len(os) : \A x : x \in ToSet(ss[i]) <=>
          \E r \in ToSet(os[i].runtimes) : x = Start(c, os[i].model, r)
    BY <1>3, <1>4
  <2>2. \A x : x \in ToSet(ExecutionPlan(c)) <=> \E i \in 1..Len(os) : x \in ToSet(ss[i])
    BY <1>1, <1>5, <1>6
  <2> SUFFICES ASSUME NEW x
               PROVE  x \in ToSet(ExecutionPlan(c)) <=>
                        \E i \in 1..Len(os) : \E r \in ToSet(os[i].runtimes) :
                           x = Start(c, os[i].model, r)
    OBVIOUS
  <2> DEFINE in(i) == \E r \in ToSet(os[i].runtimes) : x = Start(c, os[i].model, r)
  <2>3. \A i \in 1..Len(os) : x \in ToSet(ss[i]) <=> in(i)
    BY <2>1
  <2> HIDE DEF in
  <2>4. x \in ToSet(ExecutionPlan(c)) <=> \E i \in 1..Len(os) : in(i)
    BY <2>2, <2>3
  <2> QED
    BY <2>4 DEF in
<1>8. \A o : o \in ToSet(os) <=> \E i \in 1..Len(os) : os[i] = o
  BY ToSetIs DEF os
<1>9. \A x : x \in ToSet(ExecutionPlan(c)) <=>
        \E o \in ToSet(os) : \E r \in ToSet(o.runtimes) : x = Start(c, o.model, r)
  BY <1>7, <1>8
<1> QED
  BY <1>1, <1>6, <1>9 DEF os

(***************************************************************************)
(* The plan of a valid suite under a focus that can be selected measures   *)
(* exactly what is asked for: each workload on each model that is to cover *)
(* it, and nothing else.                                                   *)
(***************************************************************************)
LEMMA PlanCoversAsked ==
    ASSUME NEW suite \in Suites, NEW focus, ValidSuite(suite)
    PROVE  LET c == Select(suite, focus)
               p == ExecutionPlan(c) IN
           /\ p \in Seq(Executions)
           /\ \A x \in ToSet(p) : /\ IsInjective(x.workloads)
                                  /\ \A w \in ToSet(x.workloads) : ValidWorkload(w)
           /\ \A y : y \in Asked(c) <=>
                \E x \in ToSet(p) : \E w \in ToSet(x.workloads) : y = <<x.model, w>>
<1> DEFINE c == Select(suite, focus)
           p == ExecutionPlan(c)
<1>1. /\ suite.workloads \subseteq Workloads /\ suite.models \subseteq Models
      /\ suite.coverage \subseteq Covers /\ suite.orders \in Seq(Orders)
  BY SuitesAssumption DEF Covers, Orders
<1>2. /\ c.models = suite.models \intersect focus.models
      /\ c.workloads = suite.workloads \intersect focus.workloads
  BY DEF Select
<1>3. \A e : e \in c.coverage <=>
        /\ \E b \in suite.coverage :
             e = [b EXCEPT !.workloads = @ \intersect c.workloads]
        /\ e.model \in c.models /\ e.workloads # {}
  BY DEF Select
<1>4. c.orders \in Seq(Orders)
      /\ \A o : o \in ToSet(c.orders) <=> o \in ToSet(suite.orders) /\ o.model \in c.models
  BY SelectedOrders
<1> HIDE DEF c
<1>5. c.workloads \subseteq Workloads
  BY <1>1, <1>2
<1>6. /\ p \in Seq(Executions)
      /\ \A x : x \in ToSet(p) <=>
           \E o \in ToSet(c.orders) : \E r \in ToSet(o.runtimes) :
              x = Start(c, o.model, r)
  BY <1>4, <1>5, PlanStarts
<1> HIDE DEF p
<1>7. \A o \in ToSet(c.orders) :
        o.model \in Models /\ \A r \in ToSet(o.runtimes) : r \in Runtimes
  <2>1. ASSUME NEW o \in ToSet(c.orders)
        PROVE  o.model \in Models /\ \A r \in ToSet(o.runtimes) : r \in Runtimes
    <3>1. o \in Orders
      BY <1>4, ToSetIs
    <3>2. o.runtimes \in Seq(Runtimes) /\ o.model \in Models
      BY <3>1 DEF Orders
    <3> QED
      BY <3>2, ToSetIs
  <2> QED
    BY <2>1
<1>8. \A o \in ToSet(c.orders) : \A r \in ToSet(o.runtimes) :
        /\ IsInjective(Start(c, o.model, r).workloads)
        /\ ToSet(Start(c, o.model, r).workloads) = WorkloadsFor(c, o.model, r)
        /\ Start(c, o.model, r).model = o.model
  BY <1>5, <1>7, StartLists DEF Start
<1>9. ASSUME NEW x \in ToSet(p)
      PROVE  IsInjective(x.workloads) /\ \A w \in ToSet(x.workloads) : ValidWorkload(w)
  <2>a. PICK o \in ToSet(c.orders) :
          \E r \in ToSet(o.runtimes) : x = Start(c, o.model, r)
    BY <1>6
  <2>1. PICK r \in ToSet(o.runtimes) : x = Start(c, o.model, r)
    BY <2>a
  <2>2. IsInjective(x.workloads) /\ ToSet(x.workloads) = WorkloadsFor(c, o.model, r)
    BY <1>8, <2>1
  <2>3. \A w \in WorkloadsFor(c, o.model, r) : w \in suite.workloads
    BY <1>2 DEF WorkloadsFor
  <2>4. \A w \in suite.workloads : ValidWorkload(w)
    BY DEF ValidSuite
  <2> QED
    BY <2>2, <2>3, <2>4
<1>10. ASSUME NEW x \in ToSet(p), NEW w \in ToSet(x.workloads)
       PROVE  <<x.model, w>> \in Asked(c)
  <2>a. PICK o \in ToSet(c.orders) :
          \E r \in ToSet(o.runtimes) : x = Start(c, o.model, r)
    BY <1>6
  <2>1. PICK r \in ToSet(o.runtimes) : x = Start(c, o.model, r)
    BY <2>a
  <2>2. w \in WorkloadsFor(c, o.model, r) /\ x.model = o.model
    BY <1>8, <2>1
  <2>3. PICK e \in c.coverage : e.model = o.model /\ w \in e.workloads
    BY <2>2 DEF WorkloadsFor
  <2> QED
    BY <2>2, <2>3 DEF Asked
<1>11. ASSUME NEW y \in Asked(c)
       PROVE  \E x \in ToSet(p) : \E w \in ToSet(x.workloads) : y = <<x.model, w>>
  <2>1. PICK e \in c.coverage : y \in {e.model} \X e.workloads
    BY DEF Asked
  <2>2. PICK w \in e.workloads : y = <<e.model, w>>
    BY <2>1
  <2>3. PICK b \in suite.coverage : e = [b EXCEPT !.workloads = @ \intersect c.workloads]
    BY <1>3
  <2>4. b \in Covers
    BY <1>1
  <2>5. e.model = b.model /\ w \in b.workloads /\ w \in c.workloads /\ e.model \in c.models
    BY <1>3, <2>3, <2>4 DEF Covers
  <2>6. ModelRuntimes(suite, b.model) \intersect RunsOn(w) # {}
    BY <2>5 DEF ValidSuite, CoverageValid
  <2>a. PICK o \in ToSet(suite.orders) :
          o.model = b.model /\ ToSet(o.runtimes) \intersect RunsOn(w) # {}
    BY <2>6 DEF ModelRuntimes
  <2>7. PICK r \in ToSet(o.runtimes) : o.model = b.model /\ r \in RunsOn(w)
    BY <2>a
  <2>8. o \in ToSet(c.orders)
    BY <1>4, <2>5, <2>7
  <2>9. w \in WorkloadsFor(c, o.model, r)
    BY <2>5, <2>7 DEF WorkloadsFor
  <2> DEFINE x == Start(c, o.model, r)
  <2>10. x \in ToSet(p) /\ w \in ToSet(x.workloads) /\ x.model = o.model
    BY <1>6, <1>8, <2>8, <2>9
  <2> HIDE DEF x
  <2> QED
    BY <2>2, <2>5, <2>7, <2>10
<1> QED
  BY <1>6, <1>9, <1>10, <1>11 DEF c, p

-----------------------------------------------------------------------------
(* The server. *)

(* No server is there and none is to be stopped. *)
Quiet == {"select", "prompts", "plan", "launch", "final", "succeed", "return",
          "d_start", "d_next", "d_append", "d_prepare", "d_launch", "d_close",
          "ended"}

(***************************************************************************)
(* As long as no signal hit between two statements about a server, a       *)
(* running server is in the variable that will stop it.                    *)
(***************************************************************************)
ServerInv ==
    /\ pc \in Measuring \union Diagnosing \union {"select", "finally", "ended"}
    /\ child \in {"none", "running", "gone"} /\ held \in BOOLEAN
    /\ window \subseteq {"server", "directory"}
    /\ pc \in {"launch", "launched"} => Self
    /\ "server" \notin window =>
         /\ pc \in Quiet => child # "running" /\ ~ held
         /\ child = "running" => held \/ pc \in {"launched", "d_launched"}
         /\ pc = "stopped" \/ (pc \in Measuring /\ ~ Self) => child # "running"

LEMMA ServerInit == Init => ServerInv
  BY DEF Init, ServerInv, Quiet, Measuring, Diagnosing

LEMMA ServerStep == ServerInv /\ [Next]_vars => ServerInv'
<1> SUFFICES ASSUME ServerInv, [Next]_vars PROVE ServerInv'
  OBVIOUS
<1> USE DEF ServerInv, Quiet, Measuring, Diagnosing, Self, Goto
<1>1. ASSUME NEW s \in Suites, NEW f \in Focuses, SelectConfiguration(s, f)
      PROVE  ServerInv'
  <2>1. pc = "select" /\ pc' \in {"prompts", "ended"} /\ UNCHANGED <<cmd, child, held, window>>
    BY <1>1 DEF SelectConfiguration, serverVars
  <2> QED
    BY <2>1
<1>2. CASE PromptsDone \/ NextExecution
  BY <1>2 DEF PromptsDone, NextExecution, serverVars
<1>3. CASE Launch \/ Launched
  BY <1>3 DEF Launch, Launched
<1>4. CASE BecomesReady \/ StopServer \/ Stopped
  BY <1>4 DEF BecomesReady, StopServer, Stopped, serverVars
<1>5. CASE WarmedUp \/ BeginTrial \/ TrialStep \/ Finalize \/ Succeed
  <2>1. UNCHANGED <<cmd, child, held, window>>
    BY <1>5 DEF WarmedUp, BeginTrial, TrialStep, Finalize, Succeed, serverVars
  <2>2. \/ pc \in {"warmup", "before", "trial"} /\ pc' \in {"before", "trial"}
        \/ pc \in {"final", "succeed"} /\ pc' \in {"succeed", "return", "d_start"}
    BY <1>5 DEF WarmedUp, BeginTrial, TrialStep, Finalize, Succeed
  <2> QED
    BY <2>1, <2>2
<1>6. CASE FinishTrial
  <2>1. pc = "trial" /\ pc' \in {"stop", "before"} /\ UNCHANGED <<cmd, child, held, window>>
    BY <1>6 DEF FinishTrial, serverVars
  <2> QED
    BY <2>1
<1>7. CASE StartDiagnostics \/ NextTarget \/ AppendAttempt \/ PrepareAttempt
  BY <1>7 DEF StartDiagnostics, NextTarget, AppendAttempt, PrepareAttempt, serverVars
<1>8. ASSUME NEW s, Measure(s) PROVE ServerInv'
  BY <1>8 DEF Measure, serverVars
<1>9. CASE StopAttempt
  BY <1>9 DEF StopAttempt
<1>10. ASSUME NEW complete, CloseAttempt(complete) PROVE ServerInv'
  <2>1. pc = "d_close" /\ pc' = "d_next" /\ UNCHANGED <<cmd, child, held, window>>
    BY <1>10 DEF CloseAttempt, serverVars
  <2> QED
    BY <2>1
<1>11. CASE EndDiagnostics \/ DirectoryExists
  <2>1. pc = "d_next" /\ pc' \in {"finally", "return"}
        /\ UNCHANGED <<cmd, child, held, window>>
    BY <1>11 DEF EndDiagnostics, DirectoryExists, serverVars
  <2> QED
    BY <2>1
<1>12. CASE RunFails
  <2>1. pc' = "finally" /\ UNCHANGED <<cmd, child, held, window>>
        /\ pc \in {"prompts", "launch", "ready", "warmup", "before", "trial", "stop", "final"}
    BY <1>12 DEF RunFails, serverVars
  <2> QED
    BY <2>1
<1>13. CASE Return \/ Finally \/ Repeat \/ Diagnose
  <2>1. CASE Return
    BY <2>1 DEF Return, serverVars
  <2>2. CASE Finally
    BY <2>2 DEF Finally
  <2>3. CASE Repeat
    <3>1. pc = "ended" /\ pc' = "prompts" /\ UNCHANGED <<cmd, child, held, window>>
      BY <2>3 DEF Repeat, serverVars
    <3> QED
      BY <3>1
  <2>4. CASE Diagnose
    <3>1. pc = "ended" /\ pc' = "d_start" /\ UNCHANGED <<child, held, window>>
      BY <2>4 DEF Diagnose, serverVars
    <3> QED
      BY <3>1
  <2> QED
    BY <1>13, <2>1, <2>2, <2>3, <2>4
<1>14. CASE ChildDies
  BY <1>14 DEF ChildDies
<1>15. CASE RunInterrupted
  <2>1. /\ pc' = "finally" /\ UNCHANGED <<cmd, child, held>>
        /\ pc \in Measuring
        /\ window' = window \union (IF pc = "launched" THEN {"server"} ELSE {})
    BY <1>15 DEF RunInterrupted
  <2>2. /\ window \subseteq window' /\ window' \subseteq {"server", "directory"}
        /\ pc = "launched" => "server" \in window'
    BY <2>1
  <2> QED
    BY <2>1, <2>2
<1>16. CASE DiagnosticsInterrupted
  <2>1. /\ pc \in Diagnosing \union {"return"}
        /\ pc' = "finally" /\ held' = FALSE /\ cmd' = cmd
        /\ child' = IF pc \in {"d_launch", "d_launched", "d_measure"} /\ held
                    THEN "gone" ELSE child
    BY <1>16 DEF DiagnosticsInterrupted, InDiagnostics
  <2>2. window' = window \union CASE pc \in {"d_launched", "d_stop"} -> {"server"}
                                 [] pc = "d_append" -> {"directory"}
                                 [] OTHER -> {}
    BY <1>16 DEF DiagnosticsInterrupted
  <2>3. /\ window \subseteq window' /\ window' \subseteq {"server", "directory"}
        /\ pc \in {"d_launched", "d_stop"} => "server" \in window'
    BY <2>2
  <2> QED
    BY <2>1, <2>3
<1>17. CASE InterruptDropped \/ Over \/ UNCHANGED vars
  <2>1. UNCHANGED <<cmd, pc, child, held, window>>
    BY <1>17 DEF InterruptDropped, Over, vars, serverVars
  <2> QED
    BY <2>1
<1> QED
  BY <1>1, <1>2, <1>3, <1>4, <1>5, <1>6, <1>7, <1>8, <1>9, <1>10, <1>11, <1>12,
     <1>13, <1>14, <1>15, <1>16, <1>17 DEF Next, Steps

-----------------------------------------------------------------------------
(* The directories of the diagnostic attempts. *)

Statuses == {"none", "running", "succeeded", "partial", "failed", "interrupted"}
Attempts == [family : STRING, status : Statuses]
Diagnostics == [status : Statuses, request : Statuses, attempts : Seq(Attempts),
                dirs : SUBSET (STRING \X Nat)]
Route == [name : STRING, models : SUBSET Models, workloads : SUBSET Workloads]
InAttempt == {"d_prepare", "d_launch", "d_launched", "d_measure", "d_stop",
              "d_close"}
DiagTypeInv ==
    /\ diag \in Diagnostics /\ todo \in Seq(Route)
    /\ pc \in InAttempt \union {"d_append"} => todo # <<>>
    /\ pc \in InAttempt => diag.attempts # <<>>

(* Every directory has the number of an attempt that was recorded, except  *)
(* the one whose attempt is about to be.                                   *)
DirInv ==
    "directory" \notin window =>
      \A x \in diag.dirs : \/ x[2] <= Cardinality(OfFamily(x[1]))
                           \/ pc = "d_append" /\ x = Directory

(* The attempts of a family in a record. *)
Family(a, f) == {k \in 1..Len(a) : a[k].family = f}

LEMMA FamilyFinite ==
    ASSUME NEW a \in Seq(Attempts), NEW f
    PROVE  IsFiniteSet(Family(a, f)) /\ Cardinality(Family(a, f)) \in Nat
<1>1. Len(a) \in Int /\ 1 \in Int
  OBVIOUS
<1>2. IsFiniteSet(1..Len(a))
  BY <1>1, FS_Interval
<1> QED
  BY <1>2, FS_Subset, FS_CardinalityType, Family(a, f) \in SUBSET (1..Len(a)) DEF Family

LEMMA FamilyAppend ==
    ASSUME NEW a \in Seq(Attempts), NEW e \in Attempts, NEW f
    PROVE  Cardinality(Family(Append(a, e), f)) =
             IF e.family = f THEN Cardinality(Family(a, f)) + 1
             ELSE Cardinality(Family(a, f))
<1> DEFINE b == Append(a, e)
           n == Len(a)
<1>1. n \in Nat /\ Len(b) = n + 1 /\ b[n + 1] = e /\ \A k \in 1..n : b[k] = a[k]
  OBVIOUS
<1>2. 1..(n + 1) = (1..n) \union {n + 1} /\ n + 1 \notin 1..n
  BY <1>1
<1> HIDE DEF b, n
<1>3. Family(b, f) = IF e.family = f THEN Family(a, f) \union {n + 1} ELSE Family(a, f)
  <2>1. Family(a, f) = {k \in 1..n : a[k].family = f}
    BY DEF Family, n
  <2>2. Family(b, f) = {k \in (1..n) \union {n + 1} : b[k].family = f}
    BY <1>1, <1>2 DEF Family
  <2> QED
    BY <1>1, <1>2, <2>1, <2>2
<1>4. n + 1 \notin Family(a, f)
  BY <1>2 DEF Family, n
<1>5. IsFiniteSet(Family(a, f))
  BY FamilyFinite
<1>6. Cardinality(Family(a, f) \union {n + 1}) = Cardinality(Family(a, f)) + 1
  BY <1>4, <1>5, FS_AddElement
<1> QED
  BY <1>3, <1>6 DEF b

(* A change of the last attempt's status. *)
LEMMA LastAttemptKeeps ==
    ASSUME DiagTypeInv, diag.attempts # <<>>, NEW s \in Statuses
    PROVE  /\ LastAttempt(s) \in Diagnostics /\ LastAttempt(s).attempts # <<>>
           /\ LastAttempt(s).dirs = diag.dirs
           /\ LastAttempt(s).request = diag.request
           /\ \A f : Family(LastAttempt(s).attempts, f) = Family(diag.attempts, f)
<1> DEFINE a == diag.attempts
           n == Len(a)
           b == [a EXCEPT ![n].status = s]
<1>1. a \in Seq(Attempts) /\ n \in 1..n /\ n \in Nat
  BY DEF DiagTypeInv, Diagnostics
<1>2. LastAttempt(s) = [diag EXCEPT !.attempts = b]
  BY DEF LastAttempt, DiagTypeInv, Diagnostics
<1>3. \A k \in 1..n : a[k] \in Attempts
  BY <1>1
<1>4. DOMAIN a = 1..n
  BY <1>1
<1> HIDE DEF a, n
<1>5. /\ b \in [1..n -> Attempts]
      /\ \A k \in 1..n : b[k].family = a[k].family
  <2>1. \A k \in 1..n : b[k] = IF k = n THEN [a[k] EXCEPT !.status = s] ELSE a[k]
    BY <1>4
  <2>2. DOMAIN b = 1..n /\ b = [k \in 1..n |-> b[k]]
    BY <1>4
  <2> HIDE DEF b
  <2>3. \A k \in 1..n : b[k] \in Attempts /\ b[k].family = a[k].family
    BY <1>3, <2>1 DEF Attempts
  <2> QED
    BY <2>2, <2>3
<1> HIDE DEF b
<1>6. b \in Seq(Attempts) /\ Len(b) = n
  BY <1>1, <1>5, SeqOfFunction
<1>7. b # <<>>
  BY <1>1, <1>6
<1>8. \A f : Family(b, f) = Family(a, f)
  BY <1>5, <1>6 DEF Family, n
<1>9. diag \in Diagnostics
  BY DEF DiagTypeInv
<1> QED
  BY <1>2, <1>6, <1>7, <1>8, <1>9 DEF Diagnostics, a

LEMMA AllTargetsType == AllTargets \in Seq(Route)
<1> DEFINE n(i) == Cardinality(Targets(Routes[i]))
           row(i) == [j \in 1..Max({1, n(i)}) |-> Routes[i]]
           ss == [i \in 1..Len(Routes) |-> row(i)]
<1>1. Len(Routes) \in Nat
  BY BenchmarkAssumption
<1>2. ASSUME NEW i \in 1..Len(Routes) PROVE row(i) \in Seq(Route)
  <2> DEFINE m == Max({1, n(i)})
             all == Routes[i].models \X Routes[i].workloads
  <2>1. Routes[i] \in Route
    <3>1. Routes \in Seq(Route)
      BY BenchmarkAssumption DEF Route
    <3> QED
      BY <3>1
  <2>2. n(i) \in Nat
    <3>1. /\ Routes[i].models \subseteq Models /\ Routes[i].workloads \subseteq Workloads
          /\ IsFiniteSet(Models) /\ IsFiniteSet(Workloads)
      BY <2>1, SuitesAssumption DEF Route
    <3>2. IsFiniteSet(Routes[i].models) /\ IsFiniteSet(Routes[i].workloads)
      BY <3>1, FS_Subset
    <3>3. IsFiniteSet(all)
      BY <3>2, FS_Product
    <3>4. Targets(Routes[i]) \subseteq all
      BY DEF Targets
    <3> HIDE DEF all
    <3>5. IsFiniteSet(Targets(Routes[i]))
      BY <3>3, <3>4, FS_Subset
    <3> QED
      BY <3>5, FS_CardinalityType
  <2> HIDE DEF n
  <2>3. m \in Nat
    <3>1. CASE n(i) <= 1
      BY <2>2, <3>1, MaxIs
    <3>2. CASE n(i) > 1
      BY <2>2, <3>2, MaxIs
    <3> QED
      BY <2>2, <3>1, <3>2
  <2>4. row(i) = [j \in 1..m |-> Routes[i]]
    BY DEF m
  <2> HIDE DEF m
  <2>5. row(i) \in [1..m -> Route]
    BY <2>1, <2>4
  <2> HIDE DEF row
  <2> QED
    BY <2>3, <2>5, SeqOfFunction
<1> HIDE DEF row
<1>3. ss \in [1..Len(Routes) -> Seq(Route)]
  BY <1>2
<1>4. AllTargets = FlattenSeq(ss)
  BY DEF AllTargets, row, n
<1>5. ss \in Seq(Seq(Route))
  BY <1>1, <1>3, SeqOfFunction
<1> HIDE DEF ss
<1> QED
  BY <1>4, <1>5, FlattenMembers

LEMMA DiagInit == Init => DiagTypeInv /\ DirInv
<1> SUFFICES ASSUME Init PROVE DiagTypeInv /\ DirInv
  OBVIOUS
<1>1. <<>> \in Seq(Attempts) /\ <<>> \in Seq(Route)
  OBVIOUS
<1>2. diag = NoDiagnostics /\ todo = <<>> /\ pc = "select"
  BY DEF Init
<1>3. NoDiagnostics \in Diagnostics
  <2> DEFINE A == Seq(Attempts)
             D == SUBSET (STRING \X Nat)
  <2>1. <<>> \in A /\ {} \in D /\ "none" \in Statuses
    BY <1>1 DEF Statuses
  <2> HIDE DEF A, D
  <2>2. NoDiagnostics \in [status : Statuses, request : Statuses, attempts : A, dirs : D]
    BY <2>1 DEF NoDiagnostics
  <2> QED
    BY <2>2 DEF Diagnostics, A, D
<1> QED
  BY <1>1, <1>2, <1>3 DEF DiagTypeInv, DirInv, NoDiagnostics, InAttempt

(* The attempts stay a record, with the families in it. *)
LEMMA DiagTypeStep ==
    ASSUME ServerInv, DiagTypeInv, [Next]_vars
    PROVE  DiagTypeInv'
<1> DEFINE Places == InAttempt \union {"d_append"}
<1>0. diag \in Diagnostics /\ todo \in Seq(Route) /\ diag.attempts \in Seq(Attempts)
  BY DEF DiagTypeInv, Diagnostics
<1>1. ASSUME UNCHANGED <<diag, todo>>, pc' \in Places => pc' = pc PROVE DiagTypeInv'
  BY <1>1 DEF DiagTypeInv
<1>2. ASSUME UNCHANGED <<diag, todo>>, pc' \in InAttempt, pc \in InAttempt PROVE DiagTypeInv'
  BY <1>2 DEF DiagTypeInv, InAttempt
<1>3. ASSUME NEW s \in Statuses, diag' = LastAttempt(s), todo' = todo, pc \in InAttempt,
             pc' # "d_append"
      PROVE  DiagTypeInv'
  <2>1. diag.attempts # <<>> /\ todo # <<>>
    BY <1>3 DEF DiagTypeInv
  <2>2. diag' \in Diagnostics /\ diag'.attempts # <<>>
    BY <1>3, <2>1, LastAttemptKeeps
  <2> QED
    BY <1>0, <1>3, <2>1, <2>2 DEF DiagTypeInv
<1>4. ASSUME NEW s \in Suites, NEW f \in Focuses, SelectConfiguration(s, f)
      PROVE  DiagTypeInv'
  <2>1. pc' \in {"prompts", "ended"} /\ UNCHANGED <<diag, todo>>
    BY <1>4 DEF SelectConfiguration
  <2> QED
    BY <1>1, <2>1 DEF InAttempt
<1>5. CASE \/ PromptsDone \/ NextExecution \/ BecomesReady \/ StopServer \/ Stopped
           \/ WarmedUp \/ BeginTrial \/ TrialStep \/ Finalize \/ Succeed \/ Return
           \/ Finally \/ Repeat \/ Diagnose \/ ChildDies \/ InterruptDropped \/ Over
           \/ UNCHANGED vars
  <2>1. UNCHANGED <<diag, todo>> /\ (pc' \in Places => pc' = pc)
    BY <1>5 DEF PromptsDone, NextExecution, BecomesReady, StopServer, Stopped, WarmedUp,
       BeginTrial, TrialStep, Finalize, Succeed, Return, Finally, Repeat, Diagnose,
       ChildDies, InterruptDropped, Over, vars, InAttempt, Goto
  <2> QED
    BY <1>1, <2>1
<1>6. CASE FinishTrial
  <2>1. UNCHANGED <<diag, todo>> /\ pc' \in {"stop", "before"}
    BY <1>6 DEF FinishTrial
  <2> QED
    BY <1>1, <2>1 DEF InAttempt
<1>7. CASE RunFails \/ RunInterrupted
  <2>1. UNCHANGED <<diag, todo>> /\ pc' = "finally"
    BY <1>7 DEF RunFails, RunInterrupted
  <2> QED
    BY <1>1, <2>1 DEF InAttempt
<1>8. CASE Launch \/ Launched \/ PrepareAttempt \/ StopAttempt
  <2>1. UNCHANGED <<diag, todo>>
        /\ \/ pc' \notin Places
           \/ pc' \in InAttempt /\ pc \in InAttempt
    BY <1>8 DEF Launch, Launched, PrepareAttempt, StopAttempt, InAttempt, Goto
  <2> QED
    BY <1>1, <1>2, <2>1
<1>9. CASE StartDiagnostics
  <2>1. pc' = "d_next" /\ todo' = AllTargets
        /\ diag' = [diag EXCEPT !.status = "running", !.request = "running"]
    BY <1>9 DEF StartDiagnostics, Goto
  <2>2. diag' \in Diagnostics
    BY <1>0, <2>1 DEF Diagnostics, Statuses
  <2> QED
    BY <2>1, <2>2, AllTargetsType DEF DiagTypeInv, InAttempt
<1>10. CASE NextTarget
  <2>1. pc = "d_next" /\ todo # <<>> /\ Head(todo).name \in STRING
    <3>1. pc = "d_next" /\ todo # <<>>
      BY <1>10 DEF NextTarget
    <3>2. Head(todo) \in Route
      BY <1>0, <3>1
    <3> QED
      BY <3>1, <3>2 DEF Route
  <2>2. CASE Targets(Head(todo)) = {}
    <3>1. /\ diag' = [diag EXCEPT !.attempts = Append(@, Attempt("failed"))]
          /\ todo' = Tail(todo) /\ pc' = pc
      BY <1>10, <2>2 DEF NextTarget
    <3>2. Attempt("failed") \in Attempts
      BY <2>1 DEF Attempt, Attempts, Statuses
    <3>3. Append(diag.attempts, Attempt("failed")) \in Seq(Attempts)
      BY <1>0, <3>2
    <3>4. diag' \in Diagnostics
      BY <1>0, <3>1, <3>3 DEF Diagnostics
    <3> QED
      BY <1>0, <2>1, <3>1, <3>4 DEF DiagTypeInv, InAttempt
  <2>3. CASE Targets(Head(todo)) # {}
    <3>1. /\ diag' = [diag EXCEPT !.dirs = @ \union {Directory}]
          /\ todo' = todo /\ pc' = "d_append"
      BY <1>10, <2>3 DEF NextTarget
    <3>2. Cardinality(Family(diag.attempts, Head(todo).name)) \in Nat
      BY <1>0, FamilyFinite
    <3>3. Directory \in STRING \X Nat
      BY <2>1, <3>2 DEF Directory, OfFamily, Family
    <3>4. diag' \in Diagnostics
      BY <1>0, <3>1, <3>3 DEF Diagnostics
    <3> QED
      BY <1>0, <2>1, <3>1, <3>4 DEF DiagTypeInv, InAttempt
  <2> QED
    BY <2>2, <2>3
<1>11. CASE AppendAttempt
  <2>1. /\ pc = "d_append" /\ pc' = "d_prepare" /\ todo' = todo /\ todo # <<>>
        /\ diag' = [diag EXCEPT !.attempts = Append(@, Attempt("running"))]
    BY <1>11 DEF AppendAttempt, Goto, DiagTypeInv
  <2>a. Head(todo) \in Route
    BY <1>0, <2>1
  <2>2. Attempt("running") \in Attempts
    BY <2>a DEF Attempt, Attempts, Statuses, Route
  <2>3. Append(diag.attempts, Attempt("running")) \in Seq(Attempts)
        /\ Append(diag.attempts, Attempt("running")) # <<>>
    BY <1>0, <2>2
  <2>4. diag' \in Diagnostics /\ diag'.attempts # <<>>
    BY <1>0, <2>1, <2>3 DEF Diagnostics
  <2> QED
    BY <1>0, <2>1, <2>4 DEF DiagTypeInv, InAttempt
<1>12. ASSUME NEW s \in {"running", "failed"}, Measure(s) PROVE DiagTypeInv'
  <2>1. s \in Statuses /\ diag' = LastAttempt(s) /\ todo' = todo /\ pc \in InAttempt
        /\ pc' = "d_stop"
    BY <1>12 DEF Measure, InAttempt, Statuses
  <2> QED
    BY <1>3, <2>1
<1>13. ASSUME NEW complete, CloseAttempt(complete) PROVE DiagTypeInv'
  <2> DEFINE now == Last(diag.attempts).status
             s == IF now # "running" THEN now
                  ELSE IF complete THEN "succeeded" ELSE "failed"
  <2>1. pc = "d_close" /\ pc' = "d_next" /\ diag' = LastAttempt(s) /\ todo' = Tail(todo)
    BY <1>13 DEF CloseAttempt, Goto
  <2>2. diag.attempts # <<>> /\ todo # <<>>
    BY <2>1 DEF DiagTypeInv, InAttempt
  <2>3. Last(diag.attempts) \in Attempts
    BY <1>0, <2>2 DEF Last
  <2>4. s \in Statuses
    BY <2>3 DEF Attempts, Statuses
  <2> HIDE DEF s
  <2>5. diag' \in Diagnostics /\ diag'.attempts # <<>>
    BY <2>1, <2>2, <2>4, LastAttemptKeeps
  <2>6. todo' \in Seq(Route)
    BY <1>0, <2>1, <2>2
  <2> QED
    BY <2>1, <2>5, <2>6 DEF DiagTypeInv, InAttempt
<1>14. CASE EndDiagnostics \/ DirectoryExists
  <2>1. /\ pc' \in {"finally", "return"} /\ todo' = todo
        /\ \/ diag' = diag
           \/ \E s, r \in Statuses : diag' = [diag EXCEPT !.request = r, !.status = s]
    <3>1. CASE EndDiagnostics
      <4> DEFINE all == [k \in 1..Len(diag.attempts) |-> diag.attempts[k].status]
                 mine == {all[k] : k \in (Len(all) - Len(AllTargets) + 1)..Len(all)}
                 ok == mine = {"succeeded"}
                 r == IF ok THEN "succeeded" ELSE "failed"
                 s == IF ToSet(all) = {"succeeded"} THEN "succeeded"
                      ELSE IF "succeeded" \in ToSet(all) THEN "partial" ELSE "failed"
      <4>1. pc' = "return" /\ todo' = todo
            /\ diag' = [diag EXCEPT !.request = r, !.status = s]
        BY <3>1 DEF EndDiagnostics
      <4>2. r \in Statuses /\ s \in Statuses
        BY DEF Statuses
      <4> HIDE DEF r, s
      <4> QED
        BY <4>1, <4>2
    <3>2. CASE DirectoryExists
      <4>1. pc' \in {"finally", "return"} /\ todo' = todo
            /\ \/ diag' = diag
               \/ diag' = [diag EXCEPT !.status = "failed", !.request = "failed"]
        BY <3>2 DEF DirectoryExists
      <4>2. [diag EXCEPT !.status = "failed", !.request = "failed"]
              = [diag EXCEPT !.request = "failed", !.status = "failed"]
            /\ "failed" \in Statuses
        BY <1>0 DEF Diagnostics, Statuses
      <4> QED
        BY <4>1, <4>2
    <3> QED
      BY <1>14, <3>1, <3>2
  <2>2. diag' \in Diagnostics
    BY <1>0, <2>1 DEF Diagnostics
  <2> QED
    BY <1>0, <2>1, <2>2 DEF DiagTypeInv, InAttempt
<1>15. CASE DiagnosticsInterrupted
  <2> DEFINE tried == pc \in {"d_launch", "d_launched", "d_measure"}
             d == IF tried THEN LastAttempt("interrupted") ELSE diag
  <2>1. /\ pc' = "finally" /\ todo' = todo
        /\ diag' = [d EXCEPT !.status = "interrupted",
                             !.request = IF @ = "none" THEN @ ELSE "interrupted"]
    BY <1>15 DEF DiagnosticsInterrupted
  <2>2. d \in Diagnostics
    <3>1. CASE tried
      <4>1. diag.attempts # <<>> /\ "interrupted" \in Statuses
        BY <3>1 DEF DiagTypeInv, InAttempt, Statuses
      <4> QED
        BY <3>1, <4>1, LastAttemptKeeps
    <3>2. CASE ~ tried
      BY <1>0, <3>2
    <3> QED
      BY <3>1, <3>2
  <2> HIDE DEF d
  <2>3. diag' \in Diagnostics
    BY <2>1, <2>2 DEF Diagnostics, Statuses
  <2> QED
    BY <1>0, <2>1, <2>3 DEF DiagTypeInv, InAttempt
<1> QED
  BY <1>4, <1>5, <1>6, <1>7, <1>8, <1>9, <1>10, <1>11, <1>12, <1>13, <1>14, <1>15
     DEF Next, Steps

(* No step takes a number away from a directory, or a directory for an     *)
(* attempt that is not recorded next.                                      *)
LEMMA DirStep ==
    ASSUME ServerInv, DiagTypeInv, DirInv, [Next]_vars
    PROVE  DirInv'
<1> DEFINE n(f) == Cardinality(Family(diag.attempts, f))
<1>0. /\ diag \in Diagnostics /\ diag.attempts \in Seq(Attempts)
      /\ diag.dirs \subseteq STRING \X Nat
  BY DEF DiagTypeInv, Diagnostics
<1>a. \A f : n(f) \in Nat /\ n(f) = Cardinality(OfFamily(f))
  BY <1>0, FamilyFinite DEF Family, OfFamily
<1>b. \A f : Cardinality(OfFamily(f)') = Cardinality(Family(diag'.attempts, f))
  BY DEF Family, OfFamily
<1>c. DirInv' <=> ("directory" \notin window' =>
                   \A x \in diag'.dirs :
                      \/ x[2] <= Cardinality(OfFamily(x[1])')
                      \/ pc' = "d_append" /\ x = Directory')
  BY DEF DirInv
<1>d. ASSUME "directory" \notin window' =>
               \A x \in diag'.dirs : x[2] <= Cardinality(OfFamily(x[1])')
      PROVE  DirInv'
  BY <1>c, <1>d
<1> HIDE DEF n
<1>1. ASSUME window \subseteq window', diag'.dirs = diag.dirs,
             \A f : Cardinality(Family(diag'.attempts, f)) \in Nat
                    /\ n(f) <= Cardinality(Family(diag'.attempts, f)),
             pc # "d_append" \/ "directory" \in window'
      PROVE  DirInv'
  <2> SUFFICES ASSUME "directory" \notin window', NEW x \in diag'.dirs
               PROVE  x[2] <= Cardinality(OfFamily(x[1])')
    BY <1>d
  <2>1. x \in diag.dirs /\ x[2] \in Nat
    BY <1>0, <1>1
  <2>2. x[2] <= n(x[1])
    BY <1>1, <1>a, <2>1 DEF DirInv
  <2>3. /\ n(x[1]) \in Nat /\ Cardinality(OfFamily(x[1])') \in Nat
        /\ n(x[1]) <= Cardinality(OfFamily(x[1])')
    BY <1>1, <1>a, <1>b
  <2> QED
    BY <2>1, <2>2, <2>3
<1>2. ASSUME window \subseteq window', diag'.dirs = diag.dirs,
             diag'.attempts = diag.attempts,
             pc # "d_append" \/ "directory" \in window'
      PROVE  DirInv'
  <2>1. \A f : Cardinality(Family(diag'.attempts, f)) = n(f) /\ n(f) <= n(f)
    BY <1>2, <1>a DEF n
  <2> QED
    BY <1>1, <1>2, <1>a, <2>1
<1>3. ASSUME UNCHANGED <<window, diag, todo, pc>> PROVE DirInv'
  BY <1>3 DEF DirInv, Directory, OfFamily
<1>4. ASSUME NEW s \in Suites, NEW f \in Focuses, SelectConfiguration(s, f)
      PROVE  DirInv'
  <2>1. pc = "select" /\ UNCHANGED <<diag, window>>
    BY <1>4 DEF SelectConfiguration, serverVars
  <2> QED
    BY <1>2, <2>1
<1>5. CASE \/ PromptsDone \/ NextExecution \/ Launch \/ Launched \/ BecomesReady
           \/ StopServer \/ Stopped \/ WarmedUp \/ BeginTrial \/ Finalize \/ Succeed
           \/ Return \/ PrepareAttempt \/ StopAttempt \/ Finally \/ Repeat \/ Diagnose
  <2>1. pc # "d_append" /\ UNCHANGED <<diag, window>>
    BY <1>5 DEF PromptsDone, NextExecution, Launch, Launched, BecomesReady, StopServer,
       Stopped, WarmedUp, BeginTrial, Finalize, Succeed, Return, PrepareAttempt,
       StopAttempt, Finally, Repeat, Diagnose, serverVars, Goto
  <2> QED
    BY <1>2, <2>1
<1>6. CASE FinishTrial \/ TrialStep \/ InterruptDropped
  <2>1. pc # "d_append" /\ UNCHANGED <<diag, window>>
    BY <1>6 DEF FinishTrial, TrialStep, InterruptDropped, serverVars, Looping
  <2> QED
    BY <1>2, <2>1
<1>7. CASE RunFails \/ RunInterrupted
  <2>1. pc # "d_append" /\ diag' = diag /\ window \subseteq window'
    <3>1. CASE RunFails
      <4>1. pc # "d_append" /\ diag' = diag /\ window' = window
        BY <3>1 DEF RunFails, serverVars
      <4> QED
        BY <4>1
    <3>2. CASE RunInterrupted
      <4>1. pc \in Measuring /\ diag' = diag /\ window \subseteq window'
        BY <3>2 DEF RunInterrupted
      <4> QED
        BY <4>1 DEF Measuring
    <3> QED
      BY <1>7, <3>1, <3>2
  <2> QED
    BY <1>2, <2>1
<1>8. CASE ChildDies \/ Over \/ UNCHANGED vars
  BY <1>3, <1>8 DEF ChildDies, Over, vars, serverVars
<1>9. CASE StartDiagnostics
  <2>1. pc = "d_start" /\ window' = window /\ diag'.dirs = diag.dirs
        /\ diag'.attempts = diag.attempts
    BY <1>0, <1>9 DEF StartDiagnostics, serverVars, Goto, Diagnostics
  <2> QED
    BY <1>2, <2>1
<1>10. CASE NextTarget
  <2>0. pc = "d_next" /\ todo # <<>> /\ window' = window /\ Head(todo).name \in STRING
    <3>1. pc = "d_next" /\ todo # <<>> /\ window' = window
      BY <1>10 DEF NextTarget, serverVars
    <3>2. Head(todo) \in Route
      BY <3>1 DEF DiagTypeInv
    <3> QED
      BY <3>1, <3>2 DEF Route
  <2>1. CASE Targets(Head(todo)) = {}
    <3> DEFINE e == Attempt("failed")
    <3>1. diag' = [diag EXCEPT !.attempts = Append(@, e)]
      BY <1>10, <2>1 DEF NextTarget
    <3>2. e \in Attempts
      BY <2>0 DEF Attempt, Attempts, Statuses
    <3> HIDE DEF e
    <3>3. diag'.attempts = Append(diag.attempts, e) /\ diag'.dirs = diag.dirs
      BY <1>0, <3>1 DEF Diagnostics
    <3>4. \A f : Cardinality(Family(diag'.attempts, f)) =
                   IF e.family = f THEN n(f) + 1 ELSE n(f)
      BY <1>0, <3>2, <3>3, FamilyAppend DEF n
    <3>5. \A f : Cardinality(Family(diag'.attempts, f)) \in Nat
                 /\ n(f) <= Cardinality(Family(diag'.attempts, f))
      BY <1>a, <3>4
    <3> QED
      BY <1>1, <2>0, <3>3, <3>5
  <2>2. CASE Targets(Head(todo)) # {}
    <3>1. /\ diag' = [diag EXCEPT !.dirs = @ \union {Directory}]
          /\ todo' = todo /\ pc' = "d_append"
      BY <1>10, <2>2 DEF NextTarget
    <3>2. diag'.attempts = diag.attempts /\ diag'.dirs = diag.dirs \union {Directory}
      BY <1>0, <3>1 DEF Diagnostics
    <3>3. Directory' = Directory /\ \A f : OfFamily(f)' = OfFamily(f)
      BY <3>1, <3>2 DEF Directory, OfFamily
    <3> QED
      BY <2>0, <3>1, <3>2, <3>3 DEF DirInv
  <2> QED
    BY <2>1, <2>2
<1>11. CASE AppendAttempt
  <2> DEFINE e == Attempt("running")
  <2>0. pc = "d_append" /\ todo # <<>> /\ window' = window /\ Head(todo).name \in STRING
    <3>1. pc = "d_append" /\ todo # <<>> /\ window' = window
      BY <1>11 DEF AppendAttempt, serverVars, DiagTypeInv, Goto
    <3>2. Head(todo) \in Route
      BY <3>1 DEF DiagTypeInv
    <3> QED
      BY <3>1, <3>2 DEF Route
  <2>1. diag' = [diag EXCEPT !.attempts = Append(@, e)]
    BY <1>11 DEF AppendAttempt
  <2>2. e \in Attempts /\ e.family = Head(todo).name
    BY <2>0 DEF Attempt, Attempts, Statuses
  <2> HIDE DEF e
  <2>3. diag'.attempts = Append(diag.attempts, e) /\ diag'.dirs = diag.dirs
    BY <1>0, <2>1 DEF Diagnostics
  <2>4. \A f : Cardinality(Family(diag'.attempts, f)) =
                 IF Head(todo).name = f THEN n(f) + 1 ELSE n(f)
    BY <1>0, <2>2, <2>3, FamilyAppend DEF n
  <2> SUFFICES ASSUME "directory" \notin window', NEW x \in diag'.dirs
               PROVE  x[2] <= Cardinality(OfFamily(x[1])')
    BY <1>d
  <2>5. x \in diag.dirs /\ x[2] \in Nat
    BY <1>0, <2>3
  <2>6. CASE x[2] <= n(x[1])
    BY <1>a, <1>b, <2>4, <2>5, <2>6
  <2>7. CASE x = Directory
    <3>1. x[1] = Head(todo).name /\ x[2] = n(x[1]) + 1
      BY <1>a, <2>7 DEF Directory
    <3> QED
      BY <1>a, <1>b, <2>4, <2>5, <3>1
  <2> QED
    BY <1>a, <2>0, <2>5, <2>6, <2>7 DEF DirInv
<1>12. ASSUME NEW s \in Statuses, diag.attempts # <<>>, diag'.dirs = diag.dirs,
              diag'.attempts = LastAttempt(s).attempts, window \subseteq window',
              pc # "d_append"
       PROVE  DirInv'
  <2>1. \A f : Family(diag'.attempts, f) = Family(diag.attempts, f)
    BY <1>12, LastAttemptKeeps
  <2>2. \A f : Cardinality(Family(diag'.attempts, f)) = n(f) /\ n(f) <= n(f)
    BY <1>a, <2>1 DEF n
  <2> QED
    BY <1>1, <1>12, <1>a, <2>2
<1>13. ASSUME NEW s \in {"running", "failed"}, Measure(s) PROVE DirInv'
  <2>1. /\ s \in Statuses /\ diag' = LastAttempt(s) /\ window' = window
        /\ pc \in InAttempt /\ pc # "d_append"
    BY <1>13 DEF Measure, serverVars, Statuses, InAttempt
  <2>2. diag.attempts # <<>>
    BY <2>1 DEF DiagTypeInv
  <2>3. diag'.dirs = diag.dirs
    BY <2>1, <2>2, LastAttemptKeeps
  <2> QED
    BY <1>12, <2>1, <2>2, <2>3
<1>14. ASSUME NEW complete, CloseAttempt(complete) PROVE DirInv'
  <2> DEFINE now == Last(diag.attempts).status
             s == IF now # "running" THEN now
                  ELSE IF complete THEN "succeeded" ELSE "failed"
  <2>1. pc = "d_close" /\ diag' = LastAttempt(s) /\ window' = window
    BY <1>14 DEF CloseAttempt, Goto, serverVars
  <2>2. diag.attempts # <<>>
    BY <2>1 DEF DiagTypeInv, InAttempt
  <2>3. Last(diag.attempts) \in Attempts
    BY <1>0, <2>2 DEF Last
  <2>4. s \in Statuses
    BY <2>3 DEF Attempts, Statuses
  <2> HIDE DEF s
  <2>5. diag'.dirs = diag.dirs
    BY <2>1, <2>2, <2>4, LastAttemptKeeps
  <2> QED
    BY <1>12, <2>1, <2>2, <2>4, <2>5
<1>15. CASE EndDiagnostics \/ DirectoryExists
  <2>1. pc = "d_next" /\ window' = window /\ diag'.dirs = diag.dirs
        /\ diag'.attempts = diag.attempts
    <3>1. CASE EndDiagnostics
      <4>1. pc = "d_next" /\ window' = window
            /\ \E r, s : diag' = [diag EXCEPT !.request = r, !.status = s]
        BY <3>1 DEF EndDiagnostics, serverVars
      <4> QED
        BY <1>0, <4>1 DEF Diagnostics
    <3>2. CASE DirectoryExists
      BY <1>0, <3>2 DEF DirectoryExists, serverVars, Diagnostics
    <3> QED
      BY <1>15, <3>1, <3>2
  <2> QED
    BY <1>2, <2>1
<1>16. CASE DiagnosticsInterrupted
  <2> DEFINE tried == pc \in {"d_launch", "d_launched", "d_measure"}
             d == IF tried THEN LastAttempt("interrupted") ELSE diag
  <2>1. /\ window \subseteq window'
        /\ pc = "d_append" => "directory" \in window'
        /\ diag' = [d EXCEPT !.status = "interrupted",
                             !.request = IF @ = "none" THEN @ ELSE "interrupted"]
    BY <1>16 DEF DiagnosticsInterrupted
  <2>2. window \subseteq window'
    BY <2>1
  <2>3. CASE tried
    <3>1. diag.attempts # <<>> /\ "interrupted" \in Statuses /\ pc # "d_append"
      BY <2>3 DEF DiagTypeInv, InAttempt, Statuses
    <3>2. d \in Diagnostics /\ d.dirs = diag.dirs /\ d = LastAttempt("interrupted")
      BY <2>3, <3>1, LastAttemptKeeps
    <3> HIDE DEF d
    <3>3. diag'.dirs = d.dirs /\ diag'.attempts = d.attempts
      BY <2>1, <3>2 DEF Diagnostics
    <3> QED
      BY <1>12, <2>2, <3>1, <3>2, <3>3
  <2>4. CASE ~ tried
    <3>1. diag'.dirs = diag.dirs /\ diag'.attempts = diag.attempts
      BY <1>0, <2>1, <2>4 DEF Diagnostics
    <3>2. pc # "d_append" \/ "directory" \in window'
      BY <2>1
    <3> QED
      BY <1>2, <2>2, <3>1, <3>2
  <2> QED
    BY <2>3, <2>4
<1> QED
  BY <1>4, <1>5, <1>6, <1>7, <1>8, <1>9, <1>10, <1>11, <1>13, <1>14, <1>15, <1>16
     DEF Next, Steps

(***************************************************************************)
(* Whatever fails and whenever a signal comes, run_benchmark, calibrate    *)
(* and diagnose leave no server running, unless a signal hit between two   *)
(* statements about a server, and an attempt finds its directory free,     *)
(* unless one hit between a directory and its record.                      *)
(***************************************************************************)
THEOREM CommandCleansUp == Spec => []NothingLeftBehind
<1> DEFINE I == ServerInv /\ DiagTypeInv /\ DirInv
<1>1. Init => I
  BY ServerInit, DiagInit
<1>2. I /\ [Next]_vars => I'
  BY ServerStep, DiagTypeStep, DirStep
<1>3. I => NothingLeftBehind
  <2> SUFFICES ASSUME I PROVE NothingLeftBehind
    OBVIOUS
  <2>1. pc = "ended" /\ child = "running" => "server" \in window
    BY DEF ServerInv, Quiet
  <2>2. ASSUME pc = "d_next", Directory \in diag.dirs, "directory" \notin window
        PROVE  FALSE
    <3> DEFINE f == Head(todo).name
    <3>1. Directory[1] = f /\ Directory[2] = Cardinality(OfFamily(f)) + 1
      BY DEF Directory
    <3>2. Directory[2] <= Cardinality(OfFamily(Directory[1]))
      BY <2>2 DEF DirInv
    <3>3. Cardinality(OfFamily(f)) \in Nat
      BY FamilyFinite DEF DiagTypeInv, Diagnostics, Family, OfFamily
    <3> QED
      BY <3>1, <3>2, <3>3
  <2> QED
    BY <2>1, <2>2 DEF NothingLeftBehind
<1> QED
  BY <1>1, <1>2, <1>3, PTL DEF Spec

-----------------------------------------------------------------------------
(* Where the command is in its plan. *)

PlanInv ==
    /\ plan \in Seq(Executions)
    /\ \A k \in 1..Len(plan) :
         /\ IsInjective(plan[k].workloads)
         /\ \A w \in ToSet(plan[k].workloads) : ValidWorkload(w)
    /\ \A y : y \in asked <=>
         \E k \in 1..Len(plan) : \E w \in ToSet(plan[k].workloads) :
            y = <<plan[k].model, w>>

LEMMA PlanInit == Init => PlanInv
  BY DEF Init, PlanInv

LEMMA PlanKept ==
    ASSUME [Next]_vars, pc # "select" PROVE UNCHANGED <<plan, asked>>
<1>1. CASE \/ PromptsDone \/ NextExecution \/ Launch \/ Launched \/ BecomesReady
           \/ StopServer \/ Stopped \/ WarmedUp \/ BeginTrial \/ TrialStep
           \/ FinishTrial \/ Finalize \/ Succeed
  BY <1>1 DEF PromptsDone, NextExecution, Launch, Launched, BecomesReady, StopServer,
     Stopped, WarmedUp, BeginTrial, TrialStep, FinishTrial, Finalize, Succeed
<1>2. CASE \/ StartDiagnostics \/ NextTarget \/ AppendAttempt \/ PrepareAttempt
           \/ (\E s \in {"running", "failed"} : Measure(s))
           \/ StopAttempt \/ (\E complete \in BOOLEAN : CloseAttempt(complete))
           \/ EndDiagnostics \/ DirectoryExists
  BY <1>2 DEF StartDiagnostics, NextTarget, AppendAttempt, PrepareAttempt, Measure,
     StopAttempt, CloseAttempt, EndDiagnostics, DirectoryExists
<1>3. CASE \/ RunFails \/ Return \/ Finally \/ Repeat \/ ChildDies \/ RunInterrupted
           \/ InterruptDropped \/ DiagnosticsInterrupted \/ Diagnose \/ Over
           \/ UNCHANGED vars
  BY <1>3 DEF RunFails, Return, Finally, Repeat, ChildDies, RunInterrupted,
     InterruptDropped, DiagnosticsInterrupted, Diagnose, Over, vars
<1>4. \A s \in Suites, f \in Focuses : ~ SelectConfiguration(s, f)
  BY DEF SelectConfiguration
<1> QED
  BY <1>1, <1>2, <1>3, <1>4 DEF Next, Steps

(* What _select_configuration decides. *)
LEMMA PlanStep ==
    ASSUME PlanInv, [Next]_vars PROVE PlanInv'
<1>1. CASE UNCHANGED <<plan, asked>>
  BY <1>1 DEF PlanInv
<1>2. ASSUME NEW s \in Suites, NEW f \in Focuses, SelectConfiguration(s, f)
      PROVE  PlanInv'
  <2> DEFINE c == Select(s, f)
             p == ExecutionPlan(c)
  <2>1. \/ plan' = <<>> /\ asked' = {}
        \/ ValidSuite(s) /\ plan' = p /\ asked' = Asked(c)
    BY <1>2 DEF SelectConfiguration
  <2>2. CASE plan' = <<>> /\ asked' = {}
    BY <2>2 DEF PlanInv
  <2>3. CASE ValidSuite(s) /\ plan' = p /\ asked' = Asked(c)
    <3>1. /\ p \in Seq(Executions)
          /\ \A x \in ToSet(p) : /\ IsInjective(x.workloads)
                                 /\ \A w \in ToSet(x.workloads) : ValidWorkload(w)
          /\ \A y : y \in Asked(c) <=>
               \E x \in ToSet(p) : \E w \in ToSet(x.workloads) : y = <<x.model, w>>
      BY <2>3, PlanCoversAsked
    <3> HIDE DEF p, c
    <3>2. \A x : x \in ToSet(p) <=> \E k \in 1..Len(p) : p[k] = x
      BY <3>1, ToSetIs
    <3>3. /\ \A k \in 1..Len(p) : /\ IsInjective(p[k].workloads)
                                  /\ \A w \in ToSet(p[k].workloads) : ValidWorkload(w)
          /\ \A y : y \in Asked(c) <=>
               \E k \in 1..Len(p) : \E w \in ToSet(p[k].workloads) : y = <<p[k].model, w>>
      BY <3>1, <3>2
    <3> QED
      BY <2>3, <3>1, <3>3 DEF PlanInv
  <2> QED
    BY <2>1, <2>2, <2>3
<1>3. CASE pc # "select"
  BY <1>1, <1>3, PlanKept
<1>4. CASE pc = "select" /\ ~ (\E s \in Suites, f \in Focuses : SelectConfiguration(s, f))
  <2>1. \/ ChildDies \/ UNCHANGED vars
    BY <1>4 DEF Next, Steps, PromptsDone, NextExecution, Launch, Launched, BecomesReady,
       StopServer, Stopped, WarmedUp, BeginTrial, TrialStep, FinishTrial, Finalize,
       Succeed, StartDiagnostics, NextTarget, AppendAttempt, PrepareAttempt, Measure,
       StopAttempt, CloseAttempt, EndDiagnostics, DirectoryExists, RunFails, Return,
       Finally, Repeat, RunInterrupted, InterruptDropped, DiagnosticsInterrupted,
       Diagnose, Over, Goto, Measuring, Diagnosing, InDiagnostics, Looping
  <2> QED
    BY <1>1, <2>1 DEF ChildDies, vars
<1> QED
  BY <1>2, <1>3, <1>4

(* The places at which an execution is under way. *)
InTrials == {"launch", "launched", "ready", "warmup", "before", "trial"}
Stopping == {"stop", "stopped"}
PosInv ==
    /\ pos \in [run : Nat \ {0}, work : Nat \ {0}, trial : Nat]
    /\ pc \in {"select", "prompts"} => pos.run = 1
    /\ pc \in Measuring \ {"return"} => pos.run <= Len(plan) + 1
    /\ pc \in InTrials => /\ pos.run <= Len(plan)
                          /\ pos.work <= Len(plan[pos.run].workloads)
                          /\ pos.trial < Trials
    /\ pc \in Stopping => /\ pos.run <= Len(plan) /\ pos.trial = 0
                          /\ pos.work = Len(plan[pos.run].workloads) + 1
    /\ pc \in {"final", "succeed"} => pos.run = Len(plan) + 1

LEMMA PosInit == Init => PosInv
  BY DEF Init, PosInv, Measuring, InTrials, Stopping

LEMMA WorkloadsOf ==
    ASSUME PlanInv, NEW k \in 1..Len(plan)
    PROVE  plan[k].workloads \in Seq(Workloads) /\ Len(plan[k].workloads) \in Nat
<1>1. plan[k] \in Executions
  BY DEF PlanInv
<1> QED
  BY <1>1 DEF Executions

LEMMA PosStep ==
    ASSUME ServerInv, PlanInv, PosInv, [Next]_vars PROVE PosInv'
<1> USE DEF Measuring, InTrials, Stopping
<1>0. Len(plan) \in Nat /\ pos.run \in Nat \ {0} /\ pos.work \in Nat \ {0} /\ pos.trial \in Nat
      /\ pos \in [run : Nat \ {0}, work : Nat \ {0}, trial : Nat]
  BY DEF PlanInv, PosInv
<1>1. ASSUME UNCHANGED <<pos, plan>>,
             \/ pc' = pc
             \/ pc' \notin {"select"} \union Measuring
             \/ pc' = "return"
             \/ pc \in InTrials /\ pc' \in InTrials
             \/ pc \in Stopping /\ pc' \in Stopping
             \/ pc = "prompts" /\ pc' = "plan"
             \/ pc = "final" /\ pc' = "succeed"
      PROVE  PosInv'
  BY <1>1 DEF PosInv
<1>2. ASSUME NEW s \in Suites, NEW f \in Focuses, SelectConfiguration(s, f)
      PROVE  PosInv'
  <2>1. pc = "select" /\ pc' \in {"prompts", "ended"} /\ pos' = pos
    BY <1>2 DEF SelectConfiguration
  <2>2. Len(plan') \in Nat
    BY PlanStep DEF PlanInv
  <2> QED
    BY <1>0, <2>1, <2>2 DEF PosInv
<1>3. CASE \/ PromptsDone \/ Launch \/ Launched \/ BecomesReady \/ StopServer
           \/ WarmedUp \/ BeginTrial \/ TrialStep \/ Finalize \/ Succeed
  <2>1. UNCHANGED <<pos, plan>>
    BY <1>3 DEF PromptsDone, Launch, Launched, BecomesReady, StopServer, WarmedUp,
       BeginTrial, TrialStep, Finalize, Succeed
  <2>2. \/ pc' = pc
        \/ pc' \notin {"select"} \union Measuring
        \/ pc' = "return"
        \/ pc \in InTrials /\ pc' \in InTrials
        \/ pc \in Stopping /\ pc' \in Stopping
        \/ pc = "prompts" /\ pc' = "plan"
        \/ pc = "final" /\ pc' = "succeed"
    BY <1>3 DEF PromptsDone, Launch, Launched, BecomesReady, StopServer, WarmedUp,
       BeginTrial, TrialStep, Finalize, Succeed, Goto
  <2> QED
    BY <1>1, <2>1, <2>2
<1>4. CASE \/ StartDiagnostics \/ NextTarget \/ AppendAttempt \/ PrepareAttempt
           \/ (\E s \in {"running", "failed"} : Measure(s))
           \/ StopAttempt \/ (\E complete \in BOOLEAN : CloseAttempt(complete))
           \/ EndDiagnostics \/ DirectoryExists \/ DiagnosticsInterrupted
           \/ Diagnose \/ Return \/ Finally
  <2>1. UNCHANGED <<pos, plan>>
    BY <1>4 DEF StartDiagnostics, NextTarget, AppendAttempt, PrepareAttempt, Measure,
     StopAttempt, CloseAttempt, EndDiagnostics, DirectoryExists, DiagnosticsInterrupted,
     Diagnose, Return, Finally
  <2>2. pc' \notin {"select"} \union Measuring \/ pc' = "return" \/ pc' = pc
    BY <1>4 DEF StartDiagnostics, NextTarget, AppendAttempt, PrepareAttempt, Measure,
     StopAttempt, CloseAttempt, EndDiagnostics, DirectoryExists, DiagnosticsInterrupted,
     Diagnose, Return, Finally, Goto
  <2> QED
    BY <1>1, <2>1, <2>2
<1>5. CASE RunFails \/ RunInterrupted
  <2>1. UNCHANGED <<pos, plan>> /\ pc' = "finally"
    BY <1>5 DEF RunFails, RunInterrupted
  <2> QED
    BY <1>1, <2>1
<1>6. CASE ChildDies \/ InterruptDropped \/ Over \/ UNCHANGED vars
  <2>1. UNCHANGED <<pos, plan, pc>>
    BY <1>6 DEF ChildDies, InterruptDropped, Over, vars
  <2> QED
    BY <1>1, <2>1
<1>7. CASE Repeat
  <2>1. pc' = "prompts" /\ pos' = [run |-> 1, work |-> 1, trial |-> 0] /\ plan' = plan
    BY <1>7 DEF Repeat
  <2> QED
    BY <1>0, <2>1 DEF PosInv
<1>8. CASE Stopped
  <2>1. pc = "stopped" /\ pc' = "plan" /\ pos' = [pos EXCEPT !.run = @ + 1] /\ plan' = plan
    BY <1>8 DEF Stopped, Goto
  <2>2. pos.run <= Len(plan)
    BY <2>1 DEF PosInv
  <2> QED
    BY <1>0, <2>1, <2>2 DEF PosInv
<1>9. CASE NextExecution
  <2>0. pc = "plan" /\ plan' = plan /\ pos.run <= Len(plan) + 1
    BY <1>9 DEF NextExecution, PosInv
  <2>1. CASE pos.run > Len(plan)
    <3>1. pc' = "final" /\ pos' = pos
      BY <1>9, <2>1 DEF NextExecution
    <3> QED
      BY <1>0, <2>0, <2>1, <3>1 DEF PosInv
  <2>2. CASE ~ (pos.run > Len(plan)) /\ Here.workloads = <<>>
    <3>1. pc' = pc /\ pos' = [pos EXCEPT !.run = @ + 1]
      BY <1>9, <2>2 DEF NextExecution
    <3> QED
      BY <1>0, <2>0, <2>2, <3>1 DEF PosInv
  <2>3. CASE ~ (pos.run > Len(plan)) /\ Here.workloads # <<>>
    <3>1. pc' \in {"launch", "ready"} /\ pos' = [pos EXCEPT !.work = 1, !.trial = 0]
      BY <1>9, <2>3 DEF NextExecution
    <3>2. pos.run \in 1..Len(plan)
      BY <1>0, <2>3
    <3>3. 1 <= Len(plan[pos.run].workloads)
      BY <2>3, <3>2, WorkloadsOf DEF Here
    <3>4. 0 < Trials
      BY BenchmarkAssumption
    <3>5. pos' = [run |-> pos.run, work |-> 1, trial |-> 0]
      BY <1>0, <3>1
    <3> QED
      BY <1>0, <2>0, <3>1, <3>2, <3>3, <3>4, <3>5 DEF PosInv
  <2> QED
    BY <2>1, <2>2, <2>3
<1>10. CASE FinishTrial
  <2> DEFINE last == pos.trial + 1 = Trials
             done == last /\ pos.work = Len(Here.workloads)
  <2>0. /\ pc = "trial" /\ plan' = plan /\ pc' = IF done THEN "stop" ELSE "before"
        /\ pos' = IF ~ last THEN [pos EXCEPT !.trial = @ + 1]
                  ELSE [pos EXCEPT !.work = @ + 1, !.trial = 0]
    BY <1>10 DEF FinishTrial
  <2>1. pos.run <= Len(plan) /\ pos.work <= Len(plan[pos.run].workloads)
        /\ pos.trial < Trials /\ Here = plan[pos.run]
    BY <2>0 DEF PosInv, Here
  <2>2. Len(plan[pos.run].workloads) \in Nat /\ Trials \in Nat \ {0}
    BY <1>0, <2>1, WorkloadsOf, BenchmarkAssumption
  <2>3. CASE ~ last
    <3>1. pos'.run = pos.run /\ pos'.work = pos.work /\ pos'.trial = pos.trial + 1
          /\ pos' \in [run : Nat \ {0}, work : Nat \ {0}, trial : Nat] /\ pc' = "before"
      BY <1>0, <2>0, <2>3
    <3>2. pos.trial + 1 < Trials
      BY <1>0, <2>1, <2>2, <2>3
    <3> QED
      BY <1>0, <2>0, <2>1, <3>1, <3>2 DEF PosInv
  <2>4. CASE last
    <3>0. pos' = [pos EXCEPT !.work = @ + 1, !.trial = 0]
      BY <2>0, <2>4, Zenon
    <3>1. pos' = [run |-> pos.run, work |-> pos.work + 1, trial |-> 0]
      BY <1>0, <3>0
    <3>2. 0 < Trials
      BY <2>2
    <3> QED
      BY <1>0, <2>0, <2>1, <2>2, <2>4, <3>1, <3>2 DEF PosInv
  <2> QED
    BY <2>3, <2>4
<1> QED
  BY <1>2, <1>3, <1>4, <1>5, <1>6, <1>7, <1>8, <1>9, <1>10 DEF Next, Steps

-----------------------------------------------------------------------------
(* What is recorded when a command ends. *)

(* What the result says at each place of the command. *)
RecordInv ==
    /\ cmd.profile \in {"none", "all"}
    /\ cmd.kind = "diagnose" => cmd.profile = "all"
    /\ pc = "select" => status = "none"
    /\ pc \in {"select", "prompts"} => trials = <<>>
    /\ pc \in Measuring \ {"return"} => status = "running"
    /\ pc = "return" =>
         /\ status = "succeeded"
         /\ cmd.profile = "all" /\ exit = 0 => diag.request = "succeeded"
    /\ pc \in Diagnosing => status = "succeeded" /\ cmd.profile = "all"
    /\ pc \in {"finally", "ended"} =>
         /\ status # "running"
         /\ exit = 0 => /\ status = "succeeded"
                        /\ cmd.profile = "all" => diag.request = "succeeded"
         /\ exit # 0 /\ cmd.profile = "none" => status # "succeeded"

LEMMA RecordInit == Init => RecordInv
  BY DEF Init, RecordInv, Measuring, Diagnosing

LEMMA RecordStep ==
    ASSUME ServerInv, DiagTypeInv, RecordInv, [Next]_vars PROVE RecordInv'
<1> USE DEF Measuring, Diagnosing
<1>1. ASSUME NEW s \in Suites, NEW f \in Focuses, SelectConfiguration(s, f)
      PROVE  RecordInv'
  <2>1. /\ pc = "select" /\ cmd' = cmd /\ trials' = trials
        /\ \/ pc' = "prompts" /\ status' = "running"
           \/ pc' = "ended" /\ status' = "none" /\ exit' = 50
    BY <1>1 DEF SelectConfiguration
  <2> QED
    BY <2>1 DEF RecordInv
<1>2. CASE \/ PromptsDone \/ NextExecution \/ Launch \/ Launched \/ BecomesReady
           \/ StopServer \/ Stopped \/ WarmedUp \/ BeginTrial \/ Finalize
  <2>1. /\ UNCHANGED <<cmd, status>>
        /\ \/ pc \in Measuring /\ pc' \in Measuring \ {"return", "prompts"} /\ pc # "return"
           \/ pc \in Diagnosing /\ pc' \in Diagnosing
    BY <1>2 DEF PromptsDone, NextExecution, Launch, Launched, BecomesReady, StopServer,
       Stopped, WarmedUp, BeginTrial, Finalize, Goto, resultVars
  <2> QED
    BY <2>1 DEF RecordInv
<1>3. CASE TrialStep \/ FinishTrial
  <2>1. UNCHANGED <<cmd, status>> /\ pc = "trial" /\ pc' \in {"trial", "stop", "before"}
    BY <1>3 DEF TrialStep, FinishTrial, resultVars
  <2> QED
    BY <2>1 DEF RecordInv
<1>4. CASE Succeed
  <2>1. /\ pc = "succeed" /\ status' = "succeeded" /\ cmd' = cmd
        /\ pc' = IF cmd.profile = "none" THEN "return" ELSE "d_start"
    BY <1>4 DEF Succeed
  <2> QED
    BY <2>1 DEF RecordInv
<1>5. CASE \/ StartDiagnostics \/ NextTarget \/ AppendAttempt \/ PrepareAttempt
           \/ (\E s \in {"running", "failed"} : Measure(s))
           \/ StopAttempt \/ (\E complete \in BOOLEAN : CloseAttempt(complete))
  <2>1. UNCHANGED <<cmd, status>> /\ pc \in Diagnosing /\ pc' \in Diagnosing
    BY <1>5 DEF StartDiagnostics, NextTarget, AppendAttempt, PrepareAttempt, Measure,
     StopAttempt, CloseAttempt, Goto, resultVars
  <2> QED
    BY <2>1 DEF RecordInv
<1>6. CASE EndDiagnostics
  <2>1. /\ pc = "d_next" /\ pc' = "return" /\ UNCHANGED <<cmd, status>>
        /\ \/ exit' = 50
           \/ exit' = 0 /\ diag'.request = "succeeded"
    <3>1. diag \in Diagnostics
      BY DEF DiagTypeInv
    <3> QED
      BY <1>6, <3>1 DEF EndDiagnostics, resultVars, Diagnostics
  <2> QED
    BY <2>1 DEF RecordInv
<1>7. CASE DirectoryExists
  <2>1. /\ pc = "d_next" /\ pc' \in {"finally", "return"}
        /\ UNCHANGED <<cmd, status>> /\ exit' \in {1, 50}
    BY <1>7 DEF DirectoryExists, resultVars
  <2> QED
    BY <2>1 DEF RecordInv
<1>8. CASE RunFails \/ RunInterrupted \/ DiagnosticsInterrupted
  <2>1. /\ pc' = "finally" /\ cmd' = cmd
        /\ \/ exit' \in {50, 130} /\ status' \in {"failed", "interrupted"}
           \/ /\ exit' = 130 /\ status' = status
              /\ pc \in Diagnosing \/ (pc = "return" /\ cmd.kind = "diagnose")
    BY <1>8 DEF RunFails, RunInterrupted, DiagnosticsInterrupted, resultVars, InDiagnostics
  <2> QED
    BY <2>1 DEF RecordInv
<1>9. CASE Return
  <2>1. /\ pc = "return" /\ pc' = "finally" /\ UNCHANGED <<cmd, status, diag>>
        /\ exit' = IF cmd.profile = "none" THEN 0 ELSE exit
    BY <1>9 DEF Return, Goto, resultVars
  <2> QED
    BY <2>1 DEF RecordInv
<1>10. CASE Finally
  <2>1. pc = "finally" /\ pc' = "ended" /\ UNCHANGED <<cmd, status, exit, diag>>
    BY <1>10 DEF Finally, Goto, resultVars
  <2> QED
    BY <2>1 DEF RecordInv
<1>11. CASE Repeat
  <2>1. pc' = "prompts" /\ status' = "running" /\ trials' = <<>> /\ cmd' = cmd
    BY <1>11 DEF Repeat
  <2> QED
    BY <2>1 DEF RecordInv
<1>12. CASE Diagnose
  <2>1. /\ pc' = "d_start" /\ status = "succeeded" /\ status' = status
        /\ cmd' = [kind |-> "diagnose", mode |-> "self", profile |-> "all"]
    BY <1>12 DEF Diagnose, resultVars
  <2> QED
    BY <2>1 DEF RecordInv
<1>13. CASE ChildDies \/ InterruptDropped \/ Over \/ UNCHANGED vars
  <2>1. UNCHANGED <<pc, cmd, status, trials, exit, diag>>
    BY <1>13 DEF ChildDies, InterruptDropped, Over, vars, resultVars
  <2> QED
    BY <2>1 DEF RecordInv
<1> QED
  BY <1>1, <1>2, <1>3, <1>4, <1>5, <1>6, <1>7, <1>8, <1>9, <1>10, <1>11, <1>12,
     <1>13 DEF Next, Steps

-----------------------------------------------------------------------------
(* Which trials have been recorded. *)

(* The trials that come before the place where the command is. *)
Passed(r, k, t) ==
    \/ r < pos.run
    \/ /\ r = pos.run /\ pc \in InTrials \union Stopping
       /\ k < pos.work \/ (k = pos.work /\ t < pos.trial)
Site(r, k, t) == [run |-> r, work |-> plan[r].workloads[k], trial |-> t]
Key(x) == [run |-> x.run, work |-> x.work, trial |-> x.trial]

(* Exactly those are in the results, each of them once. *)
OnlyPassed ==
    \A j \in 1..Len(trials) :
       \E r \in 1..Len(plan) : \E k \in 1..Len(plan[r].workloads) :
         \E t \in 0..(Trials - 1) : Passed(r, k, t) /\ Key(trials[j]) = Site(r, k, t)
AllPassed ==
    \A r \in 1..Len(plan) : \A k \in 1..Len(plan[r].workloads) :
       \A t \in 0..(Trials - 1) :
         Passed(r, k, t) => \E j \in 1..Len(trials) : Key(trials[j]) = Site(r, k, t)
Once == \A i, j \in 1..Len(trials) : Key(trials[i]) = Key(trials[j]) => i = j

KeyInv ==
    /\ \E S : trials \in Seq(S)
    /\ pc \in Measuring \ {"return"} => OnlyPassed /\ AllPassed /\ Once

LEMMA KeyInit == Init => KeyInv
<1> SUFFICES ASSUME Init PROVE KeyInv
  OBVIOUS
<1>1. trials = <<>> /\ pc = "select"
  BY DEF Init
<1>2. trials \in Seq({})
  BY <1>1
<1> QED
  BY <1>1, <1>2 DEF KeyInv, Measuring

(* Nothing is recorded, and nothing was to be. *)
LEMMA NoneRecorded ==
    ASSUME trials' = <<>>, pos'.run = 1, pc' \in {"select", "prompts"}
    PROVE  KeyInv'
<1>1. trials' \in Seq({}) /\ Len(trials') = 0
  OBVIOUS
<1>2. OnlyPassed' /\ Once'
  BY <1>1 DEF OnlyPassed, Once
<1>3. \A r, k, t : r \in 1..Len(plan') => ~ Passed(r, k, t)'
  <2>1. ASSUME NEW r \in 1..Len(plan'), NEW k, NEW t PROVE ~ Passed(r, k, t)'
    <3>1. r >= 1 /\ r \in Int
      OBVIOUS
    <3> QED
      BY <3>1 DEF Passed, InTrials, Stopping
  <2> QED
    BY <2>1
<1>4. AllPassed'
  BY <1>3 DEF AllPassed
<1> QED
  BY <1>1, <1>2, <1>4 DEF KeyInv

(* A step that records nothing and leaves no trial behind. *)
LEMMA SamePassed ==
    ASSUME OnlyPassed, AllPassed, Once, UNCHANGED <<trials, plan>>,
           \A r \in 1..Len(plan) : \A k \in 1..Len(plan[r].workloads) :
             \A t \in 0..(Trials - 1) : Passed(r, k, t) <=> Passed(r, k, t)'
    PROVE  OnlyPassed' /\ AllPassed' /\ Once'
<1>1. \A r, k, t : Site(r, k, t)' = Site(r, k, t)
  BY DEF Site
<1>2. \A x : Key(x) = [run |-> x.run, work |-> x.work, trial |-> x.trial]
  BY DEF Key
<1> DEFINE P(r, k, t) == Passed(r, k, t)
           Q(r, k, t) == Passed(r, k, t)'
           V(r, k, t) == Site(r, k, t)
<1>3. OnlyPassed'
  <2>1. \A j \in 1..Len(trials) :
          \E r \in 1..Len(plan) : \E k \in 1..Len(plan[r].workloads) :
            \E t \in 0..(Trials - 1) : Q(r, k, t) /\ Key(trials[j]) = V(r, k, t)
    BY Zenon DEF OnlyPassed
  <2> QED
    BY <1>1, <2>1 DEF OnlyPassed, Key
<1>4. AllPassed'
  <2>1. \A r \in 1..Len(plan) : \A k \in 1..Len(plan[r].workloads) :
          \A t \in 0..(Trials - 1) :
            Q(r, k, t) => \E j \in 1..Len(trials) : Key(trials[j]) = V(r, k, t)
    BY Zenon DEF AllPassed
  <2> QED
    BY <1>1, <2>1 DEF AllPassed, Key
<1>5. Once'
  BY DEF Once, Key
<1> QED
  BY <1>3, <1>4, <1>5

(* The trial at which the command is gets recorded, and it goes on. *)
LEMMA OneMorePassed ==
    ASSUME PlanInv, PosInv, KeyInv, FinishTrial
    PROVE  (OnlyPassed /\ AllPassed /\ Once)'
<1> DEFINE n == Len(trials)
           e == [run |-> pos.run, work |-> Work, trial |-> pos.trial,
                 first |-> NextOrder, count |-> Cardinality(collected),
                 errors |-> Errors # {}]
           last == pos.trial + 1 = Trials
           sites(r, k, t) == /\ r \in 1..Len(plan)
                             /\ k \in 1..Len(plan[r].workloads)
                             /\ t \in 0..(Trials - 1)
<1>1. /\ pc = "trial" /\ plan' = plan /\ trials' = Append(trials, e)
      /\ pc' \in {"stop", "before"}
      /\ pos' = IF ~ last THEN [pos EXCEPT !.trial = @ + 1]
                ELSE [pos EXCEPT !.work = @ + 1, !.trial = 0]
  BY DEF FinishTrial
<1> HIDE DEF e
<1>2. n \in Nat /\ Len(trials') = n + 1 /\ trials'[n + 1] = e
      /\ \A j \in 1..n : trials'[j] = trials[j]
  <2>1. PICK S : trials \in Seq(S)
    BY DEF KeyInv
  <2>2. trials \in Seq(S \union {e}) /\ e \in S \union {e}
    BY <2>1
  <2> QED
    BY <1>1, <2>2
<1>3. /\ pos.run \in 1..Len(plan) /\ pos.work \in 1..Len(plan[pos.run].workloads)
      /\ pos.trial \in 0..(Trials - 1) /\ Trials \in Nat /\ Len(plan) \in Nat
      /\ pos \in [run : Nat \ {0}, work : Nat \ {0}, trial : Nat]
  <2>1. pos.run \in 1..Len(plan) /\ Len(plan) \in Nat
        /\ pos \in [run : Nat \ {0}, work : Nat \ {0}, trial : Nat]
    BY <1>1 DEF PosInv, PlanInv, InTrials
  <2>2. Len(plan[pos.run].workloads) \in Nat /\ Trials \in Nat
    BY <2>1, WorkloadsOf, BenchmarkAssumption
  <2> QED
    BY <1>1, <2>1, <2>2 DEF PosInv, InTrials
<1>4. Key(e) = Site(pos.run, pos.work, pos.trial)
  BY DEF Key, e, Site, Work, Here
<1>5. \A r, k, t : sites(r, k, t) =>
        (Passed(r, k, t)' <=> \/ Passed(r, k, t)
                              \/ r = pos.run /\ k = pos.work /\ t = pos.trial)
  <2> SUFFICES ASSUME NEW r, NEW k, NEW t, sites(r, k, t)
               PROVE  Passed(r, k, t)' <=>
                        \/ Passed(r, k, t)
                        \/ r = pos.run /\ k = pos.work /\ t = pos.trial
    OBVIOUS
  <2>1. r \in Int /\ k \in Int /\ t \in Int /\ 0 <= t /\ t < Trials
    BY <1>3
  <2>2. Passed(r, k, t) <=>
           \/ r < pos.run
           \/ r = pos.run /\ (k < pos.work \/ (k = pos.work /\ t < pos.trial))
    BY <1>1 DEF Passed, InTrials
  <2>3. Passed(r, k, t)' <=>
           \/ r < pos'.run
           \/ r = pos'.run /\ (k < pos'.work \/ (k = pos'.work /\ t < pos'.trial))
    BY <1>1 DEF Passed, InTrials, Stopping
  <2> HIDE DEF last
  <2>4. CASE ~ last
    <3>1. pos'.run = pos.run /\ pos'.work = pos.work /\ pos'.trial = pos.trial + 1
      BY <1>1, <1>3, <2>4
    <3> QED
      BY <1>3, <2>1, <2>2, <2>3, <3>1
  <2>5. CASE last
    <3>0. pos' = [pos EXCEPT !.work = @ + 1, !.trial = 0]
      BY <1>1, <2>5, Zenon
    <3>1. pos' = [run |-> pos.run, work |-> pos.work + 1, trial |-> 0]
      BY <1>3, <3>0
    <3>2. pos.trial + 1 = Trials
      BY <2>5 DEF last
    <3>3. pos'.run = pos.run /\ pos'.work = pos.work + 1 /\ pos'.trial = 0
      BY <3>1
    <3> QED
      BY <1>3, <2>1, <2>2, <2>3, <3>2, <3>3
  <2> QED
    BY <2>4, <2>5
<1>6. \A r, k, t : sites(r, k, t) /\ Site(r, k, t) = Key(e) =>
         r = pos.run /\ k = pos.work /\ t = pos.trial
  <2> SUFFICES ASSUME NEW r, NEW k, NEW t, sites(r, k, t), Site(r, k, t) = Key(e)
               PROVE  r = pos.run /\ k = pos.work /\ t = pos.trial
    OBVIOUS
  <2>1. r = pos.run /\ t = pos.trial
        /\ plan[r].workloads[k] = plan[pos.run].workloads[pos.work]
    BY <1>4 DEF Site
  <2>2. IsInjective(plan[pos.run].workloads)
        /\ plan[pos.run].workloads \in Seq(Workloads)
    BY <1>3, WorkloadsOf DEF PlanInv
  <2>3. k \in DOMAIN plan[pos.run].workloads /\ pos.work \in DOMAIN plan[pos.run].workloads
    BY <1>3, <2>1, <2>2
  <2> QED
    BY <2>1, <2>2, <2>3 DEF IsInjective
<1>7. ~ Passed(pos.run, pos.work, pos.trial)
  BY <1>1, <1>3 DEF Passed
<1>8. OnlyPassed /\ AllPassed /\ Once
  BY <1>1 DEF KeyInv, Measuring
<1>9. \A r, k, t : Site(r, k, t)' = Site(r, k, t)
  BY <1>1 DEF Site
<1> HIDE DEF last
<1>10. \A j \in 1..n : Key(trials[j]) # Key(e)
  <2> SUFFICES ASSUME NEW j \in 1..n, Key(trials[j]) = Key(e) PROVE FALSE
    OBVIOUS
  <2>1. PICK r \in 1..Len(plan) : \E k \in 1..Len(plan[r].workloads) :
          \E t \in 0..(Trials - 1) : Passed(r, k, t) /\ Key(trials[j]) = Site(r, k, t)
    BY <1>8, Zenon DEF OnlyPassed
  <2>2. PICK k \in 1..Len(plan[r].workloads), t \in 0..(Trials - 1) :
           Passed(r, k, t) /\ Key(trials[j]) = Site(r, k, t)
    BY <2>1, Zenon
  <2>3. sites(r, k, t)
    BY <2>1, <2>2
  <2>4. r = pos.run /\ k = pos.work /\ t = pos.trial
    BY <1>6, <2>2, <2>3, Zenon
  <2> QED
    BY <1>7, <2>2, <2>4
<1> DEFINE key(j) == Key(trials[j])
           keyNext(j) == Key(trials'[j])
<1>11. \A j \in 1..(n + 1) : j \in 1..n \/ j = n + 1
  BY <1>2
<1>12. 1..n \subseteq 1..(n + 1) /\ n + 1 \in 1..(n + 1)
  BY <1>2
<1>13. \A j \in 1..n : keyNext(j) = key(j)
  BY <1>2
<1>14. keyNext(n + 1) = Key(e)
  BY <1>2
<1>15. OnlyPassed'
  <2> SUFFICES ASSUME NEW j \in 1..(n + 1)
               PROVE  \E r \in 1..Len(plan) : \E k \in 1..Len(plan[r].workloads) :
                        \E t \in 0..(Trials - 1) :
                          Passed(r, k, t)' /\ keyNext(j) = Site(r, k, t)
    BY <1>1, <1>2, <1>9 DEF OnlyPassed, Key
  <2>1. CASE j \in 1..n
    <3>1. PICK r \in 1..Len(plan) : \E k \in 1..Len(plan[r].workloads) :
            \E t \in 0..(Trials - 1) : Passed(r, k, t) /\ key(j) = Site(r, k, t)
      BY <1>8, <2>1, Zenon DEF OnlyPassed
    <3>2. PICK k \in 1..Len(plan[r].workloads), t \in 0..(Trials - 1) :
             Passed(r, k, t) /\ key(j) = Site(r, k, t)
      BY <3>1, Zenon
    <3>3. Passed(r, k, t)'
      BY <1>5, <3>2
    <3> HIDE DEF key, keyNext
    <3> QED
      BY <1>13, <2>1, <3>2, <3>3
  <2>2. CASE j = n + 1
    <3>1. PICK r, k, t : r = pos.run /\ k = pos.work /\ t = pos.trial
      OBVIOUS
    <3>2. Passed(r, k, t)' /\ sites(r, k, t)
      BY <1>3, <1>5, <3>1
    <3>3. Key(e) = Site(r, k, t)
      BY <1>4, <3>1
    <3> HIDE DEF keyNext
    <3> QED
      BY <1>14, <2>2, <3>2, <3>3
  <2> QED
    BY <1>11, <2>1, <2>2
<1>16. AllPassed'
  <2> SUFFICES ASSUME NEW r, NEW k, NEW t, sites(r, k, t), Passed(r, k, t)'
               PROVE  \E j \in 1..(n + 1) : keyNext(j) = Site(r, k, t)
    BY <1>1, <1>2, <1>9 DEF AllPassed, Key
  <2>1. CASE Passed(r, k, t)
    <3>1. PICK j \in 1..n : key(j) = Site(r, k, t)
      BY <1>8, <2>1, Zenon DEF AllPassed
    <3> HIDE DEF key, keyNext
    <3> QED
      BY <1>12, <1>13, <3>1
  <2>2. CASE ~ Passed(r, k, t)
    <3>1. r = pos.run /\ k = pos.work /\ t = pos.trial
      BY <1>5, <2>2
    <3> HIDE DEF keyNext
    <3> QED
      BY <1>4, <1>12, <1>14, <3>1
  <2> QED
    BY <2>1, <2>2
<1>17. Once'
  <2> SUFFICES ASSUME NEW i \in 1..(n + 1), NEW j \in 1..(n + 1), keyNext(i) = keyNext(j)
               PROVE  i = j
    BY <1>2 DEF Once, Key
  <2>1. \A a, b \in 1..n : key(a) = key(b) => a = b
    BY <1>8, Zenon DEF Once
  <2>2. \A a \in 1..n : key(a) # Key(e)
    BY <1>10, Zenon
  <2> HIDE DEF key, keyNext
  <2> QED
    BY <1>11, <1>13, <1>14, <2>1, <2>2
<1> QED
  BY <1>15, <1>16, <1>17

LEMMA KeyStep ==
    ASSUME ServerInv, PlanInv, PosInv, RecordInv, KeyInv, [Next]_vars
    PROVE  KeyInv'
<1> DEFINE Going == Measuring \ {"return"}
           Executing == InTrials \union Stopping
<1>1. ASSUME trials' = trials, pc' \notin Going PROVE KeyInv'
  BY <1>1 DEF KeyInv
<1>2. ASSUME UNCHANGED <<trials, plan>>, pc \in Going,
             \A r \in 1..Len(plan) : \A k \in 1..Len(plan[r].workloads) :
               \A t \in 0..(Trials - 1) : Passed(r, k, t) <=> Passed(r, k, t)'
      PROVE  KeyInv'
  <2>1. OnlyPassed /\ AllPassed /\ Once
    BY <1>2 DEF KeyInv
  <2>2. OnlyPassed' /\ AllPassed' /\ Once'
    BY <1>2, <2>1, SamePassed
  <2> QED
    BY <1>2, <2>2 DEF KeyInv
<1>3. ASSUME UNCHANGED <<trials, plan, pos>>, pc \in Going,
             pc \in Executing <=> pc' \in Executing
      PROVE  KeyInv'
  <2>1. \A r, k, t : Passed(r, k, t) <=> Passed(r, k, t)'
    BY <1>3 DEF Passed
  <2> QED
    BY <1>2, <1>3, <2>1
<1>4. ASSUME NEW s \in Suites, NEW f \in Focuses, SelectConfiguration(s, f)
      PROVE  KeyInv'
  <2>1. pc = "select" /\ trials' = trials /\ pos' = pos /\ pc' \in {"prompts", "ended"}
    BY <1>4 DEF SelectConfiguration
  <2>2. trials = <<>> /\ pos.run = 1
    BY <2>1 DEF RecordInv, PosInv
  <2> QED
    BY <1>1, <2>1, <2>2, NoneRecorded DEF Measuring
<1>5. CASE \/ PromptsDone \/ Launch \/ Launched \/ BecomesReady \/ StopServer
           \/ WarmedUp \/ BeginTrial \/ TrialStep \/ Finalize \/ Succeed
  <2>1. /\ UNCHANGED <<trials, plan, pos>>
        /\ \/ pc' \notin Going
           \/ pc \in Going /\ (pc \in Executing <=> pc' \in Executing)
    BY <1>5 DEF PromptsDone, Launch, Launched, BecomesReady, StopServer, WarmedUp,
       BeginTrial, TrialStep, Finalize, Succeed, Goto, resultVars, Measuring, InTrials,
       Stopping
  <2> QED
    BY <1>1, <1>3, <2>1
<1>6. CASE FinishTrial
  <2>1. (OnlyPassed /\ AllPassed /\ Once)'
    BY <1>6, OneMorePassed
  <2>2. \E S : trials' \in Seq(S)
    <3> DEFINE e == [run |-> pos.run, work |-> Work, trial |-> pos.trial,
                     first |-> NextOrder, count |-> Cardinality(collected),
                     errors |-> Errors # {}]
    <3>1. trials' = Append(trials, e)
      BY <1>6 DEF FinishTrial
    <3> HIDE DEF e
    <3>2. PICK S : trials \in Seq(S)
      BY DEF KeyInv
    <3>3. trials \in Seq(S \union {e}) /\ e \in S \union {e}
      BY <3>2
    <3>4. trials' \in Seq(S \union {e})
      BY <3>1, <3>3
    <3> QED
      BY <3>4
  <2> QED
    BY <2>1, <2>2 DEF KeyInv
<1>7. CASE NextExecution
  <2>0. pc = "plan" /\ UNCHANGED <<plan, trials>> /\ pc \in Going
        /\ pos \in [run : Nat \ {0}, work : Nat \ {0}, trial : Nat]
    BY <1>7 DEF NextExecution, resultVars, Measuring, PosInv
  <2>1. CASE pos.run > Len(plan)
    <3>1. pos' = pos /\ pc' = "final"
      BY <1>7, <2>1 DEF NextExecution
    <3> QED
      BY <1>3, <2>0, <3>1 DEF InTrials, Stopping
  <2>2. CASE ~ (pos.run > Len(plan)) /\ Here.workloads = <<>>
    <3>1. pos' = [pos EXCEPT !.run = @ + 1] /\ pc' = pc
      BY <1>7, <2>2 DEF NextExecution
    <3>2. pos'.run = pos.run + 1
      BY <2>0, <3>1
    <3>3. ASSUME NEW r \in 1..Len(plan), NEW k \in 1..Len(plan[r].workloads), NEW t
          PROVE  Passed(r, k, t) <=> Passed(r, k, t)'
      <4>1. r # pos.run
        BY <2>2 DEF Here
      <4>2. r \in Int /\ pos.run \in Int
        BY <2>0
      <4> QED
        BY <2>0, <3>1, <3>2, <4>1, <4>2 DEF Passed, InTrials, Stopping
    <3> QED
      BY <1>2, <2>0, <3>3
  <2>3. CASE ~ (pos.run > Len(plan)) /\ Here.workloads # <<>>
    <3>1. pc' \in {"launch", "ready"} /\ pos' = [pos EXCEPT !.work = 1, !.trial = 0]
      BY <1>7, <2>3 DEF NextExecution
    <3>2. pos' = [run |-> pos.run, work |-> 1, trial |-> 0]
      BY <2>0, <3>1
    <3>3. pos'.run = pos.run /\ pos'.work = 1 /\ pos'.trial = 0
      BY <3>2
    <3>4. ASSUME NEW r \in 1..Len(plan), NEW k \in 1..Len(plan[r].workloads),
                 NEW t \in 0..(Trials - 1)
          PROVE  Passed(r, k, t) <=> Passed(r, k, t)'
      <4>1. ~ (k < 1) /\ ~ (t < 0)
        OBVIOUS
      <4> QED
        BY <2>0, <3>1, <3>3, <4>1 DEF Passed, InTrials, Stopping
    <3> QED
      BY <1>2, <2>0, <3>4
  <2> QED
    BY <2>1, <2>2, <2>3
<1>8. CASE Stopped
  <2>1. /\ pc = "stopped" /\ pc' = "plan" /\ UNCHANGED <<plan, trials>>
        /\ pos' = [pos EXCEPT !.run = @ + 1] /\ pc \in Going
    BY <1>8 DEF Stopped, Goto, resultVars, Measuring
  <2>2. /\ pos \in [run : Nat \ {0}, work : Nat \ {0}, trial : Nat]
        /\ pos.work = Len(plan[pos.run].workloads) + 1
        /\ pos.run \in 1..Len(plan)
    BY <2>1 DEF PosInv, Stopping, PlanInv
  <2>3. pos'.run = pos.run + 1
    BY <2>1, <2>2
  <2>4. ASSUME NEW r \in 1..Len(plan), NEW k \in 1..Len(plan[r].workloads), NEW t
        PROVE  Passed(r, k, t) <=> Passed(r, k, t)'
    <3>1. Len(plan[r].workloads) \in Nat
      BY WorkloadsOf
    <3>2. r = pos.run => k < pos.work
      BY <2>2, <3>1
    <3>3. Passed(r, k, t) <=> r < pos.run \/ r = pos.run
      BY <2>1, <3>2 DEF Passed, Stopping
    <3>4. Passed(r, k, t)' <=> r < pos.run + 1
      BY <2>1, <2>3 DEF Passed, InTrials, Stopping
    <3> QED
      BY <2>2, <3>3, <3>4
  <2> QED
    BY <1>2, <2>1, <2>4
<1>9. CASE \/ StartDiagnostics \/ NextTarget \/ AppendAttempt \/ PrepareAttempt
           \/ (\E s \in {"running", "failed"} : Measure(s))
           \/ StopAttempt \/ (\E complete \in BOOLEAN : CloseAttempt(complete))
           \/ EndDiagnostics \/ DirectoryExists \/ DiagnosticsInterrupted
           \/ Diagnose \/ Return \/ Finally \/ RunFails \/ RunInterrupted
  <2>1. trials' = trials
    BY <1>9 DEF StartDiagnostics, NextTarget, AppendAttempt, PrepareAttempt, Measure,
     StopAttempt, CloseAttempt, EndDiagnostics, DirectoryExists, DiagnosticsInterrupted,
     Diagnose, Return, Finally, RunFails, RunInterrupted, resultVars
  <2>2. pc' \notin Going
    BY <1>9 DEF StartDiagnostics, NextTarget, AppendAttempt, PrepareAttempt, Measure,
     StopAttempt, CloseAttempt, EndDiagnostics, DirectoryExists, DiagnosticsInterrupted,
     Diagnose, Return, Finally, RunFails, RunInterrupted, Goto, Measuring
  <2> QED
    BY <1>1, <2>1, <2>2
<1>10. CASE Repeat
  <2>1. pc' = "prompts" /\ pos'.run = 1 /\ trials' = <<>>
    BY <1>10 DEF Repeat
  <2> QED
    BY <2>1, NoneRecorded
<1>11. CASE ChildDies \/ InterruptDropped \/ Over \/ UNCHANGED vars
  <2>1. UNCHANGED <<pc, pos, plan, trials>>
    BY <1>11 DEF ChildDies, InterruptDropped, Over, vars, resultVars
  <2> QED
    BY <1>1, <1>3, <2>1
<1> QED
  BY <1>4, <1>5, <1>6, <1>7, <1>8, <1>9, <1>10, <1>11 DEF Next, Steps

(* The results of a run that succeeded are complete. *)
NoErrors == \A j \in 1..Len(trials) : ~ trials[j].errors
OnlySites ==
    \A j \in 1..Len(trials) :
       \E r \in 1..Len(plan) : \E k \in 1..Len(plan[r].workloads) :
         \E t \in 0..(Trials - 1) : Key(trials[j]) = Site(r, k, t)
AllSites ==
    \A r \in 1..Len(plan) : \A k \in 1..Len(plan[r].workloads) :
       \A t \in 0..(Trials - 1) :
         \E j \in 1..Len(trials) : Key(trials[j]) = Site(r, k, t)
CompleteInv ==
    /\ pc = "succeed" => NoErrors
    /\ status = "succeeded" => NoErrors /\ OnlySites /\ AllSites /\ Once

LEMMA CompleteInit == Init => CompleteInv
  BY DEF Init, CompleteInv

LEMMA CompleteStep ==
    ASSUME ServerInv, PlanInv, PosInv, RecordInv, KeyInv, CompleteInv, [Next]_vars
    PROVE  CompleteInv'
<1>1. ASSUME UNCHANGED <<trials, plan>>, status' = "succeeded" => status = "succeeded",
             pc' = "succeed" => pc = "succeed" \/ NoErrors
      PROVE  CompleteInv'
  <2>1. NoErrors' <=> NoErrors
    BY <1>1 DEF NoErrors
  <2>2. OnlySites => OnlySites'
    BY <1>1 DEF OnlySites, Key, Site
  <2>3. AllSites => AllSites'
    BY <1>1 DEF AllSites, Key, Site
  <2>4. Once => Once'
    BY <1>1 DEF Once, Key
  <2> QED
    BY <1>1, <2>1, <2>2, <2>3, <2>4 DEF CompleteInv
<1>2. ASSUME status' # "succeeded", pc' # "succeed" PROVE CompleteInv'
  BY <1>2 DEF CompleteInv
<1>3. ASSUME NEW s \in Suites, NEW f \in Focuses, SelectConfiguration(s, f)
      PROVE  CompleteInv'
  <2>1. status' \in {"running", "none"} /\ pc' \in {"prompts", "ended"}
    BY <1>3 DEF SelectConfiguration
  <2> QED
    BY <1>2, <2>1
<1>4. CASE \/ PromptsDone \/ NextExecution \/ Launch \/ Launched \/ BecomesReady
           \/ StopServer \/ Stopped \/ WarmedUp \/ BeginTrial \/ TrialStep
  <2>1. UNCHANGED <<trials, plan, status>> /\ pc' # "succeed"
    BY <1>4 DEF PromptsDone, NextExecution, Launch, Launched, BecomesReady, StopServer,
       Stopped, WarmedUp, BeginTrial, TrialStep, Goto, resultVars
  <2> QED
    BY <1>1, <2>1
<1>5. CASE FinishTrial
  <2>1. pc = "trial" /\ status' = status /\ pc' \in {"stop", "before"}
    BY <1>5 DEF FinishTrial
  <2>2. status = "running"
    BY <2>1 DEF RecordInv, Measuring
  <2> QED
    BY <1>2, <2>1, <2>2
<1>6. CASE Finalize
  <2>1. UNCHANGED <<trials, plan, status>> /\ NoErrors
    BY <1>6 DEF Finalize, NoErrors
  <2> QED
    BY <1>1, <2>1
<1>7. CASE Succeed
  <2>1. pc = "succeed" /\ pc' \in {"return", "d_start"} /\ UNCHANGED <<trials, plan>>
    BY <1>7 DEF Succeed
  <2>2. NoErrors /\ OnlyPassed /\ AllPassed /\ Once
    BY <2>1 DEF CompleteInv, KeyInv, Measuring
  <2>3. pos.run = Len(plan) + 1 /\ Len(plan) \in Nat
    BY <2>1 DEF PosInv, PlanInv
  <2>4. \A r \in 1..Len(plan) : r < pos.run
    BY <2>3
  <2>5. NoErrors'
    BY <2>1, <2>2 DEF NoErrors
  <2>6. OnlySites
    <3>1. ASSUME NEW j \in 1..Len(trials)
          PROVE  \E r \in 1..Len(plan) : \E k \in 1..Len(plan[r].workloads) :
                   \E t \in 0..(Trials - 1) : Key(trials[j]) = Site(r, k, t)
      BY <2>2, Zenon DEF OnlyPassed
    <3> QED
      BY <3>1 DEF OnlySites
  <2>7. AllSites
    <3>1. \A r, k, t : r \in 1..Len(plan) => Passed(r, k, t)
      BY <2>4 DEF Passed
    <3> QED
      BY <2>2, <3>1, Zenon DEF AllPassed, AllSites
  <2>8. OnlySites'
    BY <2>1, <2>6 DEF OnlySites, Key, Site
  <2>9. AllSites'
    BY <2>1, <2>7 DEF AllSites, Key, Site
  <2>10. Once'
    BY <2>1, <2>2 DEF Once, Key
  <2> QED
    BY <2>1, <2>5, <2>8, <2>9, <2>10 DEF CompleteInv
<1>8. CASE \/ StartDiagnostics \/ NextTarget \/ AppendAttempt \/ PrepareAttempt
           \/ (\E s \in {"running", "failed"} : Measure(s))
           \/ StopAttempt \/ (\E complete \in BOOLEAN : CloseAttempt(complete))
           \/ EndDiagnostics \/ DirectoryExists \/ DiagnosticsInterrupted
           \/ Diagnose \/ Return \/ Finally
  <2>1. UNCHANGED <<trials, plan, status>>
    BY <1>8 DEF StartDiagnostics, NextTarget, AppendAttempt, PrepareAttempt, Measure,
     StopAttempt, CloseAttempt, EndDiagnostics, DirectoryExists, DiagnosticsInterrupted,
     Diagnose, Return, Finally, resultVars
  <2>2. pc' # "succeed"
    BY <1>8 DEF StartDiagnostics, NextTarget, AppendAttempt, PrepareAttempt, Measure,
     StopAttempt, CloseAttempt, EndDiagnostics, DirectoryExists, DiagnosticsInterrupted,
     Diagnose, Return, Finally, Goto
  <2> QED
    BY <1>1, <2>1, <2>2
<1>9. CASE RunFails \/ RunInterrupted \/ Repeat
  <2>1. status' # "succeeded" /\ pc' # "succeed"
    BY <1>9 DEF RunFails, RunInterrupted, Repeat
  <2> QED
    BY <1>2, <2>1
<1>10. CASE ChildDies \/ InterruptDropped \/ Over \/ UNCHANGED vars
  <2>1. UNCHANGED <<pc, status, plan, trials>>
    BY <1>10 DEF ChildDies, InterruptDropped, Over, vars, resultVars
  <2> QED
    BY <1>1, <2>1
<1> QED
  BY <1>3, <1>4, <1>5, <1>6, <1>7, <1>8, <1>9, <1>10 DEF Next, Steps

LEMMA TrialsAre ==
    \A x : x \in AllTrials <=>
      \E r \in 1..Len(plan) : \E w \in ToSet(plan[r].workloads) :
        \E t \in 0..(Trials - 1) : x = [run |-> r, work |-> w, trial |-> t]
<1> DEFINE of(k) == {[run |-> k, work |-> w, trial |-> t] :
                       w \in ToSet(plan[k].workloads), t \in 0..(Trials - 1)}
<1>1. \A k : \A x : x \in of(k) <=>
        \E w \in ToSet(plan[k].workloads) :
          \E t \in 0..(Trials - 1) : x = [run |-> k, work |-> w, trial |-> t]
  BY SMT
<1>2. AllTrials = UNION {of(k) : k \in 1..Len(plan)}
  BY DEF AllTrials
<1> HIDE DEF of
<1>3. \A x : x \in AllTrials <=> \E k \in 1..Len(plan) : x \in of(k)
  BY <1>2, Zenon
<1> SUFFICES ASSUME NEW x
             PROVE  x \in AllTrials <=>
                      \E r \in 1..Len(plan) : \E w \in ToSet(plan[r].workloads) :
                        \E t \in 0..(Trials - 1) : x = [run |-> r, work |-> w, trial |-> t]
  OBVIOUS
<1> DEFINE B(r) == \E w \in ToSet(plan[r].workloads) :
                     \E t \in 0..(Trials - 1) : x = [run |-> r, work |-> w, trial |-> t]
<1>4. \A k : x \in of(k) <=> B(k)
  BY <1>1
<1> HIDE DEF B
<1>5. x \in AllTrials <=> \E r \in 1..Len(plan) : B(r)
  BY <1>3, <1>4
<1> QED
  BY <1>5 DEF B

(* The trials a run has to make, by where they are in the plan. *)
LEMMA SitesAre ==
    ASSUME PlanInv
    PROVE  \A x : x \in AllTrials <=>
             \E r \in 1..Len(plan) : \E k \in 1..Len(plan[r].workloads) :
               \E t \in 0..(Trials - 1) : x = Site(r, k, t)
<1>1. \A x : x \in AllTrials <=>
        \E r \in 1..Len(plan) : \E w \in ToSet(plan[r].workloads) :
          \E t \in 0..(Trials - 1) : x = [run |-> r, work |-> w, trial |-> t]
  BY TrialsAre
<1>2. \A r \in 1..Len(plan) : \A w :
         w \in ToSet(plan[r].workloads) <=>
           \E k \in 1..Len(plan[r].workloads) : plan[r].workloads[k] = w
  BY WorkloadsOf, ToSetIs
<1>3. ASSUME NEW x, NEW r \in 1..Len(plan), NEW t \in 0..(Trials - 1)
      PROVE  (\E w \in ToSet(plan[r].workloads) : x = [run |-> r, work |-> w, trial |-> t])
             <=> \E k \in 1..Len(plan[r].workloads) : x = Site(r, k, t)
  <2> DEFINE ws == plan[r].workloads
             record(w) == [run |-> r, work |-> w, trial |-> t]
  <2>1. \A w : w \in ToSet(ws) <=> \E k \in 1..Len(ws) : ws[k] = w
    BY <1>2
  <2>2. \A k : Site(r, k, t) = record(ws[k])
    BY DEF Site
  <2> HIDE DEF ws, record
  <2>3. (\E w \in ToSet(ws) : x = record(w)) <=> \E k \in 1..Len(ws) : x = Site(r, k, t)
    BY <2>1, <2>2
  <2> QED
    BY <2>3 DEF ws, record
<1>4. ASSUME NEW x, x \in AllTrials
      PROVE  \E r \in 1..Len(plan) : \E k \in 1..Len(plan[r].workloads) :
               \E t \in 0..(Trials - 1) : x = Site(r, k, t)
  <2>1. PICK r \in 1..Len(plan) : \E w \in ToSet(plan[r].workloads) :
          \E t \in 0..(Trials - 1) : x = [run |-> r, work |-> w, trial |-> t]
    BY <1>1, <1>4, Zenon
  <2>2. PICK t \in 0..(Trials - 1) : \E w \in ToSet(plan[r].workloads) :
          x = [run |-> r, work |-> w, trial |-> t]
    BY <2>1, Zenon
  <2>3. \E k \in 1..Len(plan[r].workloads) : x = Site(r, k, t)
    BY <1>3, <2>2
  <2> QED
    BY <2>3
<1>5. ASSUME NEW x, NEW r \in 1..Len(plan), NEW k \in 1..Len(plan[r].workloads),
             NEW t \in 0..(Trials - 1), x = Site(r, k, t)
      PROVE  x \in AllTrials
  <2>1. PICK w \in ToSet(plan[r].workloads) : x = [run |-> r, work |-> w, trial |-> t]
    BY <1>3, <1>5, Zenon
  <2> QED
    BY <1>1, <2>1, Zenon
<1> QED
  BY <1>4, <1>5, Zenon

(* A complete record has one trial for each of them. *)
LEMMA CompleteMeans ==
    ASSUME PlanInv, KeyInv, CompleteInv, status = "succeeded"
    PROVE  /\ {[run |-> t.run, work |-> t.work, trial |-> t.trial] :
                  t \in ToSet(trials)} = AllTrials
           /\ Len(trials) = Cardinality(AllTrials)
           /\ \A k \in 1..Len(trials) : ~trials[k].errors
           /\ {<<plan[t.run].model, t.work>> : t \in ToSet(trials)} = asked
<1> DEFINE n == Len(trials)
           key(j) == Key(trials[j])
<1>1. NoErrors /\ OnlySites /\ AllSites /\ Once
  BY DEF CompleteInv
<1>2. n \in Nat /\ \A x : x \in ToSet(trials) <=> \E j \in 1..n : trials[j] = x
  <2>1. PICK S : trials \in Seq(S)
    BY DEF KeyInv
  <2> QED
    BY <2>1, ToSetIs
<1>3. \A j \in 1..n : key(j) \in AllTrials
  <2>1. ASSUME NEW j \in 1..n PROVE key(j) \in AllTrials
    <3>1. \E r \in 1..Len(plan) : \E k \in 1..Len(plan[r].workloads) :
            \E t \in 0..(Trials - 1) : key(j) = Site(r, k, t)
      BY <1>1, Zenon DEF OnlySites
    <3> HIDE DEF key
    <3> QED
      BY <3>1, SitesAre, Zenon
  <2> QED
    BY <2>1
<1>4. \A x \in AllTrials : \E j \in 1..n : key(j) = x
  <2> SUFFICES ASSUME NEW x \in AllTrials PROVE \E j \in 1..n : key(j) = x
    OBVIOUS
  <2>1. PICK r \in 1..Len(plan) : \E k \in 1..Len(plan[r].workloads) :
          \E t \in 0..(Trials - 1) : x = Site(r, k, t)
    BY SitesAre, Zenon
  <2>2. PICK k \in 1..Len(plan[r].workloads), t \in 0..(Trials - 1) : x = Site(r, k, t)
    BY <2>1, Zenon
  <2>3. \E j \in 1..n : key(j) = Site(r, k, t)
    BY <1>1, Zenon DEF AllSites
  <2> QED
    BY <2>2, <2>3, Zenon
<1>5. \A i, j \in 1..n : key(i) = key(j) => i = j
  BY <1>1, Zenon DEF Once
<1>6. {[run |-> t.run, work |-> t.work, trial |-> t.trial] : t \in ToSet(trials)} = AllTrials
  <2> DEFINE K == {[run |-> t.run, work |-> t.work, trial |-> t.trial] : t \in ToSet(trials)}
  <2>1. \A x : x \in K <=> \E t \in ToSet(trials) : x = Key(t)
    BY DEF Key
  <2> HIDE DEF K
  <2>2. \A x : x \in K <=> \E j \in 1..n : x = key(j)
    BY <1>2, <2>1
  <2> HIDE DEF key
  <2>3. K = AllTrials
    BY <1>3, <1>4, <2>2
  <2> QED
    BY <2>3 DEF K
<1>7. n = Cardinality(AllTrials)
  <2> DEFINE f == [j \in 1..n |-> key(j)]
  <2>1. f \in Bijection(1..n, AllTrials)
    <3> HIDE DEF key
    <3> QED
      BY <1>3, <1>4, <1>5 DEF Bijection, Injection, Surjection, IsInjective
  <2>2. ExistsBijection(1..n, AllTrials)
    BY <2>1 DEF ExistsBijection
  <2>3. 1 \in Int /\ n \in Int
    BY <1>2
  <2>4. IsFiniteSet(1..n) /\ Cardinality(1..n) = IF 1 > n THEN 0 ELSE n - 1 + 1
    BY <2>3, FS_Interval
  <2>5. Cardinality(1..n) = n
    BY <1>2, <2>4
  <2> QED
    BY <2>2, <2>4, <2>5, FS_Bijection
<1>8. {<<plan[t.run].model, t.work>> : t \in ToSet(trials)} = asked
  <2> DEFINE M == {<<plan[t.run].model, t.work>> : t \in ToSet(trials)}
             pair(x) == <<plan[x.run].model, x.work>>
  <2>1. \A y : y \in M <=> \E j \in 1..n : y = pair(key(j))
    <3>1. \A y : y \in M <=> \E t \in ToSet(trials) : y = pair(Key(t))
      BY DEF Key
    <3> HIDE DEF M, pair
    <3> QED
      BY <1>2, <3>1
  <2> HIDE DEF M
  <2>2. \A y : y \in M <=> \E x \in AllTrials : y = pair(x)
    <3> HIDE DEF key, pair
    <3> QED
      BY <1>3, <1>4, <2>1
  <2>3. Trials \in Nat \ {0}
    BY BenchmarkAssumption
  <2>4. 0 \in 0..(Trials - 1)
    BY <2>3
  <2>5. \A y : y \in M <=>
          \E r \in 1..Len(plan) : \E w \in ToSet(plan[r].workloads) : y = <<plan[r].model, w>>
    <3>1. ASSUME NEW y \in M
          PROVE  \E r \in 1..Len(plan) : \E w \in ToSet(plan[r].workloads) :
                   y = <<plan[r].model, w>>
      <4>1. PICK x \in AllTrials : y = pair(x)
        BY <2>2
      <4>2. PICK r \in 1..Len(plan) : \E w \in ToSet(plan[r].workloads) :
              \E t \in 0..(Trials - 1) : x = [run |-> r, work |-> w, trial |-> t]
        BY DEF AllTrials
      <4> QED
        BY <4>1, <4>2
    <3>2. ASSUME NEW r \in 1..Len(plan), NEW w \in ToSet(plan[r].workloads)
          PROVE  <<plan[r].model, w>> \in M
      <4> DEFINE x == [run |-> r, work |-> w, trial |-> 0]
      <4>0. x = [run |-> r, work |-> w, trial |-> 0]
        OBVIOUS
      <4> HIDE DEF x
      <4>1. x \in AllTrials
        BY <2>4, <4>0, TrialsAre
      <4> USE DEF x
      <4>2. pair(x) = <<plan[r].model, w>>
        OBVIOUS
      <4> QED
        BY <2>2, <4>1, <4>2
    <3> QED
      BY <3>1, <3>2
  <2>6. M = asked
    BY <2>5 DEF PlanInv
  <2> QED
    BY <2>6 DEF M
<1> QED
  BY <1>1, <1>6, <1>7, <1>8 DEF NoErrors

RecordsInv == /\ ServerInv /\ DiagTypeInv /\ PlanInv /\ PosInv
              /\ RecordInv /\ KeyInv /\ CompleteInv

(***************************************************************************)
(* The inductive invariant behind the results file (runner.py, run and     *)
(* _execute_state): what the status says at each place of the command, and *)
(* that exactly the trials before the place where it is are in the file.   *)
(***************************************************************************)
THEOREM RecordsInvariant == Spec => []RecordsInv
<1>1. Init => RecordsInv
  BY ServerInit, DiagInit, PlanInit, PosInit, RecordInit, KeyInit, CompleteInit
     DEF RecordsInv
<1>2. RecordsInv /\ [Next]_vars => RecordsInv'
  BY ServerStep, DiagTypeStep, PlanStep, PosStep, RecordStep, KeyStep, CompleteStep
     DEF RecordsInv
<1> QED
  BY <1>1, <1>2, PTL DEF Spec

(***************************************************************************)
(* Whatever ends a command - a failure, a signal at any statement, a server*)
(* that dies - results.json and the exit status agree, and succeeded means *)
(* that every selected workload was measured on every model that is to     *)
(* cover it, each trial once and without a failed request (_write_results, *)
(* completed_trial, _validate_final_results).                              *)
(***************************************************************************)
THEOREM CommandEndsAsRecorded == Spec => []EndsAsRecorded
<1>1. RecordsInv => EndsAsRecorded
  BY CompleteMeans DEF RecordsInv, RecordInv, EndsAsRecorded
<1> QED
  BY <1>1, RecordsInvariant, PTL

-----------------------------------------------------------------------------
(* The load of a trial. *)

(* The requests whose answer the trial has not taken yet. *)
Open == InFlight \union (Done \ collected)
Sent == {i \in DOMAIN task : task[i] = "sent"}

(***************************************************************************)
(* During a trial: the requests with a task are the first ones, there are  *)
(* never more of them under way than the load mode asks for, and each one  *)
(* that is sent is alone on its connection.                                *)
(***************************************************************************)
TrialInv ==
    /\ load = Work
    /\ task \in [Indexes(load) -> TaskStates]
    /\ conn \in [Indexes(load) -> Nat]
    /\ got = [i \in Indexes(load) |-> i]
    /\ due \in [Connections -> Seq(Nat)]
    /\ \E n \in Nat : \A i \in Indexes(load) : task[i] # "none" <=> i < n
    /\ collected \subseteq Done
    /\ Cardinality(Open) <= AtOnce(load)
    /\ peak = AtOnce(load)
    /\ \A i \in Indexes(load) :
         task[i] = "sent" => conn[i] \in Connections /\ due[conn[i]] = <<i>>
    /\ \A c \in Connections : c \notin Busy => due[c] = <<>>

(* The pool: connections that can be taken again owe no answer. *)
PoolInv ==
    /\ limit \in Nat
    /\ idle \in Seq(Connections) /\ IsInjective(idle)
    /\ \A k \in 1..Len(idle) : due[idle[k]] = <<>>
    /\ pc \in {"before", "trial"} =>
         /\ limit <= Cardinality(Connections)
         /\ \A w \in ToSet(Here.workloads) : Concurrency(w) <= limit

LoadInv ==
    /\ PoolInv
    /\ pc # "trial" => NoTrial
    /\ pc = "trial" => TrialInv

(* What a load mode asks for is what _validate_completed_trial expects. *)
LEMMA AtOnceIs ==
    ASSUME NEW w \in Workloads, ValidWorkload(w)
    PROVE  /\ AtOnce(w) = Concurrency(w) /\ ExpectedPeak(w) = Concurrency(w)
           /\ Concurrency(w) \in Nat /\ Count(w) \in Nat
           /\ 1 <= Concurrency(w) /\ Concurrency(w) <= Count(w)
<1>1. /\ Mode(w) \in {"sequential", "burst", "closed-loop"}
      /\ Count(w) \in Nat /\ Concurrency(w) \in Nat
  BY SuitesAssumption
<1>2. Concurrency(w) <= Count(w) /\ 1 <= Concurrency(w)
  BY <1>1 DEF ValidWorkload
<1>3. Min({Concurrency(w), Count(w)}) = Concurrency(w)
  <2> DEFINE m == Min({Concurrency(w), Count(w)})
  <2>1. m \in {Concurrency(w), Count(w)} /\ m <= Concurrency(w)
    BY <1>1, MinOfNaturals
  <2> HIDE DEF m
  <2>2. m = Concurrency(w)
    BY <1>1, <1>2, <2>1
  <2> QED
    BY <2>2 DEF m
<1>4. AtOnce(w) = Concurrency(w)
  BY <1>1, <1>3 DEF AtOnce, ValidWorkload
<1>5. ExpectedPeak(w) = Concurrency(w)
  BY <1>1 DEF ExpectedPeak, ValidWorkload
<1> QED
  BY <1>1, <1>2, <1>4, <1>5

(* The workload of the trial. *)
LEMMA WorkIs ==
    ASSUME PlanInv, PosInv, pc \in InTrials
    PROVE  /\ Work \in Workloads /\ ValidWorkload(Work) /\ Work \in ToSet(Here.workloads)
           /\ ToSet(Here.workloads) \subseteq Workloads /\ Here.workloads # <<>>
           /\ \A w \in ToSet(Here.workloads) : ValidWorkload(w)
           /\ Indexes(Work) = 0..(Count(Work) - 1)
<1>1. pos.run \in 1..Len(plan)
  BY DEF PosInv, PlanInv
<1>2. pos.work \in 1..Len(plan[pos.run].workloads)
      /\ plan[pos.run].workloads \in Seq(Workloads)
  BY <1>1, WorkloadsOf DEF PosInv
<1>3. Work \in ToSet(Here.workloads) /\ ToSet(Here.workloads) \subseteq Workloads
  BY <1>2, ToSetIs DEF Work, Here
<1>4. Here.workloads # <<>> /\ \A w \in ToSet(Here.workloads) : ValidWorkload(w)
  BY <1>1, <1>2 DEF Here, PlanInv
<1>5. Work # NoLoad
  BY <1>3, SuitesAssumption
<1> QED
  BY <1>3, <1>4, <1>5 DEF Indexes

LEMMA IndexesFinite ==
    ASSUME NEW w \in Workloads
    PROVE  IsFiniteSet(Indexes(w)) /\ Indexes(w) \subseteq Nat
<1>1. 0 \in Int /\ Count(w) - 1 \in Int
  BY SuitesAssumption
<1>2. IsFiniteSet(0..(Count(w) - 1)) /\ IsFiniteSet({})
  BY <1>1, FS_Interval, FS_EmptySet
<1> QED
  BY <1>1, <1>2 DEF Indexes

(* A request that waits for a place in the pool finds one. *)
LEMMA BusyBound ==
    ASSUME TrialInv, load \in Workloads, ValidWorkload(load),
           limit \in Nat, Concurrency(load) <= limit
    PROVE  /\ IsFiniteSet(Busy) /\ Cardinality(Busy) <= limit
           /\ \A i \in DOMAIN task : task[i] = "submitted" => Cardinality(Busy) < limit
<1>1. DOMAIN task = Indexes(load) /\ IsFiniteSet(DOMAIN task)
  BY IndexesFinite DEF TrialInv
<1>2. IsFiniteSet(Open) /\ Sent \subseteq Open
  <2>1. Open \in SUBSET (DOMAIN task)
    BY DEF Open, InFlight, Done
  <2> QED
    BY <1>1, <2>1, FS_Subset DEF Open, InFlight, Sent
<1>3. IsFiniteSet(Sent) /\ Cardinality(Sent) <= Cardinality(Open)
  BY <1>2, FS_Subset
<1>4. IsFiniteSet(Busy) /\ Cardinality(Busy) <= Cardinality(Sent)
  <2> DEFINE f == [i \in Sent |-> conn[i]]
  <2>1. Busy = {conn[i] : i \in Sent}
    BY DEF Busy, Sent
  <2>2. f \in Surjection(Sent, Busy)
    BY <2>1 DEF Surjection
  <2> QED
    BY <1>3, <2>2, FS_Surjection
<1>5. Cardinality(Open) <= Concurrency(load) /\ Concurrency(load) \in Nat
  BY AtOnceIs DEF TrialInv
<1>6. Cardinality(Busy) \in Nat /\ Cardinality(Sent) \in Nat /\ Cardinality(Open) \in Nat
  BY <1>2, <1>3, <1>4, FS_CardinalityType
<1>7. ASSUME NEW i \in DOMAIN task, task[i] = "submitted"
      PROVE  Cardinality(Busy) < limit
  <2>1. i \in Open /\ i \notin Sent
    BY <1>7 DEF Open, InFlight, Sent
  <2>2. Cardinality(Sent \union {i}) = Cardinality(Sent) + 1
    BY <1>3, <2>1, FS_AddElement
  <2>3. Cardinality(Sent \union {i}) <= Cardinality(Open)
    BY <1>2, <2>1, FS_Subset, Sent \union {i} \in SUBSET Open
  <2> QED
    BY <1>4, <1>5, <1>6, <2>2, <2>3
<1> QED
  BY <1>3, <1>4, <1>5, <1>6, <1>7

(* SubmitNext starts the first requests that have no task. *)
LEMMA SubmitNextIs ==
    ASSUME NEW N \in Nat, NEW t, DOMAIN t = 0..(N - 1), NEW k \in Nat,
           NEW m \in Nat, m <= N, \A i \in 0..(N - 1) : t[i] # "none" <=> i < m
    PROVE  SubmitNext(t, k) =
             [i \in 0..(N - 1) |-> IF i \in m..(m + k - 1) THEN "submitted" ELSE t[i]]
<1>1. {i \in 0..(N - 1) : t[i] # "none"} = 0..(m - 1)
  OBVIOUS
<1>2. Cardinality(0..(m - 1)) = m
  <2>1. 0 \in Int /\ m - 1 \in Int
    OBVIOUS
  <2>2. Cardinality(0..(m - 1)) = IF 0 > m - 1 THEN 0 ELSE (m - 1) - 0 + 1
    BY <2>1, FS_Interval
  <2> QED
    BY <2>2
<1>3. Cardinality({i \in DOMAIN t : t[i] # "none"}) = m
  BY <1>1, <1>2
<1> QED
  BY <1>3 DEF SubmitNext

(* The number of requests that have a task. *)
LEMMA FirstWithout ==
    ASSUME NEW N \in Nat, NEW t,
           \E n \in Nat : \A i \in 0..(N - 1) : t[i] # "none" <=> i < n
    PROVE  \E m \in Nat : m <= N /\ \A i \in 0..(N - 1) : t[i] # "none" <=> i < m
<1>1. PICK n \in Nat : \A i \in 0..(N - 1) : t[i] # "none" <=> i < n
  OBVIOUS
<1>2. CASE n <= N
  BY <1>1, <1>2
<1>3. CASE ~ (n <= N)
  <2>1. \A i \in 0..(N - 1) : t[i] # "none" <=> i < N
    BY <1>1, <1>3
  <2> QED
    BY <2>1
<1> QED
  BY <1>2, <1>3

(* _execute_trial begins: as many requests as the load mode asks for. *)
LEMMA TrialBegins ==
    ASSUME PlanInv, PosInv, LoadInv, BeginTrial
    PROVE  TrialInv'
<1>1. /\ pc = "before" /\ NoTrial
      /\ Work \in Workloads /\ ValidWorkload(Work) /\ Indexes(Work) = 0..(Count(Work) - 1)
  BY WorkIs DEF BeginTrial, Goto, LoadInv, InTrials
<1> DEFINE D == Indexes(Work)
           t == [i \in D |-> "none"]
           a == AtOnce(Work)
<1>2. /\ load' = Work /\ task' = SubmitNext(t, a) /\ conn' = [i \in D |-> 0]
      /\ got' = [i \in D |-> i] /\ collected' = {} /\ peak' = a /\ due' = due
      /\ plan' = plan /\ pos' = pos
  BY DEF BeginTrial, StartTrial
<1>3. a \in Nat /\ Count(Work) \in Nat /\ 1 <= a /\ a <= Count(Work)
  BY <1>1, AtOnceIs
<1>4. Work' = Work
  BY <1>2 DEF Work, Here
<1> HIDE DEF a
<1> DEFINE N == Count(Work)
<1>5. PICK m \in Nat : m = 0
  OBVIOUS
<1>6. SubmitNext(t, a) =
        [i \in 0..(N - 1) |-> IF i \in m..(m + a - 1) THEN "submitted" ELSE t[i]]
  <2>1. N \in Nat /\ DOMAIN t = 0..(N - 1) /\ m <= N
        /\ \A i \in 0..(N - 1) : t[i] # "none" <=> i < m
    BY <1>1, <1>3, <1>5
  <2> HIDE DEF t, N
  <2> QED
    BY <1>3, <2>1, SubmitNextIs
<1>7. task' = [i \in D |-> IF i < a THEN "submitted" ELSE "none"]
  <2>1. \A i \in D : i \in m..(m + a - 1) <=> i < a
    BY <1>1, <1>3, <1>5
  <2> QED
    BY <1>1, <1>2, <1>6, <2>1
<1>8. Done' = {} /\ Busy' = {} /\ InFlight' = {i \in D : i < a}
  BY <1>7 DEF Done, Busy, InFlight
<1>9. Open' = 0..(a - 1)
  <2>1. Open' = {i \in D : i < a}
    BY <1>8 DEF Open
  <2> QED
    BY <1>1, <1>3, <2>1
<1>10. Cardinality(Open') = a
  <2>1. 0 \in Int /\ a - 1 \in Int
    BY <1>3
  <2>2. Cardinality(0..(a - 1)) = IF 0 > a - 1 THEN 0 ELSE (a - 1) - 0 + 1
    BY <2>1, FS_Interval
  <2> QED
    BY <1>3, <1>9, <2>2
<1>11. a = AtOnce(load)' /\ Indexes(load)' = D
  BY <1>2 DEF a
<1>12. due \in [Connections -> Seq(Nat)] /\ \A c \in Connections : due[c] = <<>>
  BY <1>1 DEF NoTrial
<1>13. /\ task' \in [D -> TaskStates] /\ \A i \in D : task'[i] # "sent"
       /\ \A i \in D : task'[i] # "none" <=> i < a
  BY <1>7 DEF TaskStates
<1>14. conn' \in [D -> Nat]
  BY <1>2
<1>15. collected' \subseteq Done' /\ peak' = AtOnce(load)' /\ Cardinality(Open)' <= AtOnce(load)'
  BY <1>2, <1>3, <1>8, <1>10, <1>11
<1>16. load' = Work'
  BY <1>2, <1>4
<1> HIDE DEF D, t
<1>17. got' = [i \in Indexes(load)' |-> i]
  BY <1>2, <1>11
<1> QED
  BY <1>2, <1>3, <1>11, <1>12, <1>13, <1>14, <1>15, <1>16, <1>17 DEF TrialInv

(* _acquire gives a connection that nobody uses and that owes nothing. *)
LEMMA NextConnectionIs ==
    ASSUME PoolInv, TrialInv, IsFiniteSet(Busy), Cardinality(Busy) < Cardinality(Connections)
    PROVE  LET c == NextConnection IN
           c \in Connections /\ c \notin Busy /\ due[c] = <<>>
<1>1. CASE idle # <<>>
  <2> DEFINE c == idle[Len(idle)]
  <2>1. NextConnection = c /\ c \in Connections /\ Len(idle) \in 1..Len(idle)
    BY <1>1 DEF NextConnection, Last, PoolInv
  <2>2. due[c] = <<>>
    BY <2>1 DEF PoolInv
  <2>3. c \notin Busy
    <3> SUFFICES ASSUME c \in Busy PROVE FALSE
      OBVIOUS
    <3>1. PICK i \in DOMAIN task : task[i] = "sent" /\ c = conn[i]
      BY DEF Busy
    <3>2. due[c] = <<i>>
      BY <3>1 DEF TrialInv
    <3> QED
      BY <2>2, <3>2
  <2> QED
    BY <2>1, <2>2, <2>3
<1>2. CASE idle = <<>>
  <2> DEFINE S == Connections \ (Busy \union ToSet(idle))
  <2>1. ToSet(idle) = {}
    BY <1>2 DEF ToSet
  <2>2. S \in SUBSET Nat
    BY ConnectionsAssumption
  <2>3. S # {}
    <3> SUFFICES ASSUME S = {} PROVE FALSE
      OBVIOUS
    <3>1. Connections \in SUBSET Busy
      BY <2>1
    <3>2. Cardinality(Connections) <= Cardinality(Busy)
      BY <3>1, FS_Subset
    <3>3. Cardinality(Connections) \in Nat /\ Cardinality(Busy) \in Nat
      BY ConnectionsAssumption, FS_CardinalityType
    <3> QED
      BY <3>2, <3>3
  <2>4. NextConnection \in S
    <3>1. NextConnection = Min(S)
      BY <1>2 DEF NextConnection
    <3> HIDE DEF S
    <3> QED
      BY <2>2, <2>3, <3>1, MinOfNaturals
  <2>5. \A c \in S : c \in Connections /\ c \notin Busy
    OBVIOUS
  <2> HIDE DEF S
  <2> QED
    BY <2>4, <2>5 DEF TrialInv
<1> QED
  BY <1>1, <1>2

(* Which connections are busy after a step of one request. *)
LEMMA BusyAre ==
    \A c : c \in Busy <=> \E j \in DOMAIN task : task[j] = "sent" /\ conn[j] = c
  BY DEF Busy

(* post_json: the request goes out on a connection of its own. *)
LEMMA PostKeeps ==
    ASSUME PoolInv, TrialInv, load \in Workloads, ValidWorkload(load), pc = "trial",
           Concurrency(load) <= limit, NEW i \in DOMAIN task, Post(i),
           UNCHANGED <<plan, pos, pc>>
    PROVE  TrialInv' /\ PoolInv'
<1> DEFINE c == NextConnection
           D == Indexes(load)
<1>0. Concurrency(load) <= limit /\ limit \in Nat /\ limit <= Cardinality(Connections)
  BY DEF PoolInv
<1>1. c \in Connections /\ c \notin Busy /\ due[c] = <<>>
  <2>1. IsFiniteSet(Busy) /\ Cardinality(Busy) < limit
    BY <1>0, BusyBound DEF Post
  <2>2. Cardinality(Busy) \in Nat /\ Cardinality(Connections) \in Nat
    BY <2>1, ConnectionsAssumption, FS_CardinalityType
  <2>3. Cardinality(Busy) < Cardinality(Connections)
    BY <1>0, <2>1, <2>2
  <2> QED
    BY <2>1, <2>3, NextConnectionIs
<1>2. /\ task[i] = "submitted" /\ UNCHANGED <<load, limit, got, collected, peak>>
      /\ conn' = [conn EXCEPT ![i] = c] /\ due' = [due EXCEPT ![c] = Append(@, i)]
      /\ task' = [task EXCEPT ![i] = "sent"]
      /\ idle' = IF idle # <<>> THEN Front(idle) ELSE idle
  BY DEF Post
<1>3. i \in D /\ D \subseteq Nat /\ DOMAIN task = D /\ c \in Nat
  BY <1>1, IndexesFinite, ConnectionsAssumption DEF TrialInv
<1>a. idle # <<>> => c = idle[Len(idle)]
  BY DEF NextConnection, Last
<1> HIDE DEF c
<1>4. /\ task' \in [D -> TaskStates] /\ conn' \in [D -> Nat]
      /\ task'[i] = "sent" /\ conn'[i] = c
      /\ \A j \in D : j # i => task'[j] = task[j] /\ conn'[j] = conn[j]
  BY <1>2, <1>3 DEF TrialInv, TaskStates
<1>5. due'[c] = <<i>> /\ (\A d \in Connections : d # c => due'[d] = due[d])
      /\ due' \in [Connections -> Seq(Nat)]
  <2>1. Append(<<>>, i) = <<i>> /\ <<i>> \in Seq(Nat)
    BY <1>3
  <2> QED
    BY <1>1, <1>2, <2>1 DEF TrialInv
<1>6. Done' = Done /\ InFlight' = InFlight
  <2>1. \A j \in D : task'[j] \in {"succeeded", "failed"} <=> task[j] \in {"succeeded", "failed"}
    BY <1>2, <1>4
  <2>2. \A j \in D : task'[j] \in {"submitted", "sent"} <=> task[j] \in {"submitted", "sent"}
    BY <1>2, <1>4
  <2>3. DOMAIN task' = D
    BY <1>4
  <2> QED
    BY <1>3, <2>1, <2>2, <2>3 DEF Done, InFlight
<1>7. Open' = Open
  BY <1>2, <1>6 DEF Open
<1>8. Work' = Work /\ Here' = Here /\ Indexes(load)' = D /\ AtOnce(load)' = AtOnce(load)
  BY <1>2 DEF Work, Here
<1>9. \A j \in D : task'[j] = "sent" => conn'[j] \in Connections /\ due'[conn'[j]] = <<j>>
  <2> SUFFICES ASSUME NEW j \in D, task'[j] = "sent"
               PROVE  conn'[j] \in Connections /\ due'[conn'[j]] = <<j>>
    OBVIOUS
  <2>1. CASE j = i
    BY <1>1, <1>4, <1>5, <2>1
  <2>2. CASE j # i
    <3>1. task[j] = "sent" /\ conn'[j] = conn[j]
      BY <1>4, <2>2
    <3>2. conn[j] \in Connections /\ due[conn[j]] = <<j>>
      BY <3>1 DEF TrialInv
    <3>3. conn[j] # c
      BY <1>1, <3>2
    <3> QED
      BY <1>5, <3>1, <3>2, <3>3
  <2> QED
    BY <2>1, <2>2
<1>10. \A d : d \in Busy' <=> \E j \in D : task'[j] = "sent" /\ conn'[j] = d
  BY <1>4 DEF Busy
<1>11. \A d \in Connections : d \notin Busy' => due'[d] = <<>>
  <2> SUFFICES ASSUME NEW d \in Connections, d \notin Busy' PROVE due'[d] = <<>>
    OBVIOUS
  <2>1. d # c
    BY <1>3, <1>4, <1>10
  <2>2. d \notin Busy
    <3> SUFFICES ASSUME d \in Busy PROVE FALSE
      OBVIOUS
    <3>1. PICK j \in D : task[j] = "sent" /\ conn[j] = d
      BY <1>3, BusyAre
    <3>2. j # i
      BY <1>2, <3>1
    <3> QED
      BY <1>4, <1>10, <3>1, <3>2
  <2> QED
    BY <1>5, <2>1, <2>2 DEF TrialInv
<1>12. PICK n \in Nat : \A j \in D : task[j] # "none" <=> j < n
  BY DEF TrialInv
<1>13. \A j \in D : task'[j] # "none" <=> j < n
  BY <1>2, <1>3, <1>4, <1>12
<1>14. /\ load' = Work' /\ got' = [j \in Indexes(load)' |-> j]
       /\ collected' \subseteq Done' /\ Cardinality(Open)' <= AtOnce(load)'
       /\ peak' = AtOnce(load)'
  BY <1>2, <1>6, <1>7, <1>8 DEF TrialInv
<1>15. TrialInv'
  <2> HIDE DEF D
  <2> QED
    BY <1>4, <1>5, <1>8, <1>9, <1>11, <1>13, <1>14 DEF TrialInv
<1>16. /\ idle' \in Seq(Connections) /\ IsInjective(idle')
       /\ \A k \in 1..Len(idle') : due'[idle'[k]] = <<>>
  <2>1. idle \in Seq(Connections) /\ IsInjective(idle)
        /\ \A k \in 1..Len(idle) : due[idle[k]] = <<>>
    BY DEF PoolInv
  <2>2. CASE idle = <<>>
    BY <1>2, <2>1, <2>2
  <2>3. CASE idle # <<>>
    <3>1. /\ idle' \in Seq(Connections) /\ Len(idle) \in Nat \ {0}
          /\ Len(idle') = Len(idle) - 1
          /\ \A k \in 1..(Len(idle) - 1) : idle'[k] = idle[k]
      <4>1. idle' = SubSeq(idle, 1, Len(idle) - 1)
        BY <1>2, <2>3 DEF Front
      <4>2. Len(idle) \in Nat \ {0}
        BY <2>1, <2>3
      <4>3. 1 \in Int /\ Len(idle) - 1 \in Int
            /\ \A k \in 1..(Len(idle) - 1) : idle[k] \in Connections
        BY <2>1, <4>2
      <4>4. /\ idle' \in Seq(Connections)
            /\ Len(idle') = IF 1 <= Len(idle) - 1 THEN (Len(idle) - 1) - 1 + 1 ELSE 0
            /\ \A k \in 1..((Len(idle) - 1) - 1 + 1) : idle'[k] = idle[1 + k - 1]
        BY <4>1, <4>3, SubSeqProperties
      <4>5. (Len(idle) - 1) - 1 + 1 = Len(idle) - 1
            /\ \A k \in 1..(Len(idle) - 1) : 1 + k - 1 = k
        BY <4>2
      <4>6. Len(idle') = Len(idle) - 1
        <5>1. CASE 1 <= Len(idle) - 1
          <6>1. Len(idle') = (Len(idle) - 1) - 1 + 1
            BY <4>4, <5>1
          <6> QED
            BY <4>2, <4>5, <6>1
        <5>2. CASE ~ (1 <= Len(idle) - 1)
          <6>1. Len(idle') = 0
            BY <4>4, <5>2
          <6> DEFINE L == Len(idle)
          <6>a. L \in Nat /\ L # 0 /\ ~ (1 <= L - 1)
            BY <4>2, <5>2
          <6> HIDE DEF L
          <6>b. L = 1
            BY <6>a
          <6>2. Len(idle) = 1
            BY <6>b DEF L
          <6> QED
            BY <6>1, <6>2
        <5> QED
          BY <5>1, <5>2
      <4>7. \A k \in 1..(Len(idle) - 1) : idle'[k] = idle[k]
        BY <4>4, <4>5
      <4> QED
        BY <4>2, <4>4, <4>6, <4>7
    <3>2. \A a, b \in 1..Len(idle) : idle[a] = idle[b] => a = b
      BY <2>1 DEF IsInjective
    <3>3. c = idle[Len(idle)]
      BY <1>a, <2>3
    <3>4. \A k \in 1..(Len(idle) - 1) : idle'[k] # c /\ idle'[k] \in Connections
                                        /\ due[idle'[k]] = <<>>
      <4> SUFFICES ASSUME NEW k \in 1..(Len(idle) - 1)
                   PROVE  idle'[k] # c /\ idle'[k] \in Connections /\ due[idle'[k]] = <<>>
        OBVIOUS
      <4>1. k \in 1..Len(idle) /\ Len(idle) \in 1..Len(idle) /\ k # Len(idle)
        BY <3>1
      <4> QED
        BY <2>1, <3>1, <3>2, <3>3, <4>1
    <3>5. IsInjective(idle')
      <4>1. DOMAIN idle' = 1..(Len(idle) - 1) /\ 1..(Len(idle) - 1) \subseteq 1..Len(idle)
        BY <3>1
      <4>2. \A a, b \in DOMAIN idle' : idle'[a] = idle'[b] => a = b
        BY <3>1, <3>2, <4>1
      <4> QED
        BY <4>2 DEF IsInjective
    <3>6. \A k \in 1..Len(idle') : due'[idle'[k]] = <<>>
      BY <1>5, <3>1, <3>4
    <3> QED
      BY <3>1, <3>5, <3>6
  <2> QED
    BY <2>2, <2>3
<1>17. PoolInv'
  BY <1>2, <1>8, <1>16 DEF PoolInv
<1> QED
  BY <1>15, <1>17

(* A request ends: its connection owes nothing any more, and may be taken  *)
(* again.                                                                  *)
LEMMA AnswerKeeps ==
    ASSUME PoolInv, TrialInv, NEW i \in DOMAIN task, task[i] = "sent",
           NEW s \in {"succeeded", "failed"}, task' = [task EXCEPT ![i] = s],
           due' = [due EXCEPT ![conn[i]] = <<>>],
           idle' = idle \/ idle' = Append(idle, conn[i]),
           load \in Workloads,
           UNCHANGED <<load, limit, conn, got, collected, peak, plan, pos, pc>>
    PROVE  TrialInv' /\ PoolInv'
<1> DEFINE c == conn[i]
           D == Indexes(load)
<1>1. i \in D /\ D \subseteq Nat /\ DOMAIN task = D
  BY IndexesFinite DEF TrialInv
<1>2. c \in Connections /\ due[c] = <<i>>
  BY <1>1 DEF TrialInv
<1>3. /\ task' \in [D -> TaskStates] /\ task'[i] = s
      /\ \A j \in D : j # i => task'[j] = task[j]
  BY <1>1 DEF TrialInv, TaskStates
<1> HIDE DEF c
<1>4. due'[c] = <<>> /\ (\A d \in Connections : d # c => due'[d] = due[d])
      /\ due' \in [Connections -> Seq(Nat)]
  <2>1. <<>> \in Seq(Nat)
    OBVIOUS
  <2>2. due' = [due EXCEPT ![c] = <<>>]
    BY DEF c
  <2> QED
    BY <1>2, <2>1, <2>2 DEF TrialInv
<1>5. Done' = Done \union {i} /\ InFlight' \subseteq InFlight /\ i \in InFlight
      /\ i \notin Done
  <2>1. \A j \in D : task'[j] \in {"succeeded", "failed"} <=>
           j = i \/ task[j] \in {"succeeded", "failed"}
    BY <1>3
  <2>2. \A j \in D : task'[j] \in {"submitted", "sent"} => task[j] \in {"submitted", "sent"}
    BY <1>3
  <2>3. DOMAIN task' = D
    BY <1>3
  <2>4. task[i] \in {"submitted", "sent"} /\ task[i] \notin {"succeeded", "failed"}
    OBVIOUS
  <2> QED
    BY <1>1, <2>1, <2>2, <2>3, <2>4 DEF Done, InFlight
<1>6. Open' \subseteq Open
  BY <1>5 DEF Open
<1>7. Cardinality(Open') <= AtOnce(load)
  <2>1. IsFiniteSet(Open)
    <3>1. Open \in SUBSET D
      BY <1>1 DEF Open, InFlight, Done
    <3> QED
      BY <3>1, IndexesFinite, FS_Subset
  <2>2. IsFiniteSet(Open') /\ Cardinality(Open') <= Cardinality(Open)
    BY <1>6, <2>1, FS_Subset
  <2>3. Cardinality(Open) \in Nat /\ Cardinality(Open') \in Nat
    BY <2>1, <2>2, FS_CardinalityType
  <2>4. CASE AtOnce(load) \in Int
    BY <2>2, <2>3, <2>4 DEF TrialInv
  <2>5. AtOnce(load) \in Int
    <3>1. /\ Mode(load) \in {"sequential", "burst", "closed-loop"}
          /\ Count(load) \in Nat /\ Concurrency(load) \in Nat
      BY SuitesAssumption
    <3>2. Min({Concurrency(load), Count(load)}) \in {Concurrency(load), Count(load)}
      BY <3>1, MinOfNaturals
    <3>3. Min({Concurrency(load), Count(load)}) \in Int
      BY <3>1, <3>2
    <3> QED
      BY <3>1, <3>3 DEF AtOnce
  <2> QED
    BY <2>4, <2>5
<1>8. Work' = Work /\ Here' = Here /\ Indexes(load)' = D /\ AtOnce(load)' = AtOnce(load)
  BY DEF Work, Here
<1>9. \A j \in D : task'[j] = "sent" => conn[j] \in Connections /\ due'[conn[j]] = <<j>>
  <2> SUFFICES ASSUME NEW j \in D, task'[j] = "sent"
               PROVE  conn[j] \in Connections /\ due'[conn[j]] = <<j>>
    OBVIOUS
  <2>1. j # i
    BY <1>3
  <2>2. conn[j] \in Connections /\ due[conn[j]] = <<j>>
    BY <1>3, <2>1 DEF TrialInv
  <2>3. conn[j] # c
    BY <1>2, <2>1, <2>2
  <2> QED
    BY <1>4, <2>2, <2>3
<1>10. \A d : d \in Busy' <=> \E j \in D : task'[j] = "sent" /\ conn[j] = d
  BY <1>3 DEF Busy
<1>11. \A d \in Connections : d \notin Busy' => due'[d] = <<>>
  <2> SUFFICES ASSUME NEW d \in Connections, d \notin Busy', d # c PROVE due'[d] = <<>>
    BY <1>4
  <2>1. d \notin Busy
    <3> SUFFICES ASSUME d \in Busy PROVE FALSE
      OBVIOUS
    <3>1. PICK j \in D : task[j] = "sent" /\ conn[j] = d
      BY <1>1, BusyAre
    <3>2. j # i
      BY <3>1 DEF c
    <3> QED
      BY <1>3, <1>10, <3>1, <3>2
  <2> QED
    BY <1>4, <2>1 DEF TrialInv
<1>12. PICK n \in Nat : \A j \in D : task[j] # "none" <=> j < n
  BY DEF TrialInv
<1>13. \A j \in D : task'[j] # "none" <=> j < n
  BY <1>1, <1>3, <1>12
<1>14. /\ load' = Work' /\ got' = [j \in Indexes(load)' |-> j]
       /\ collected' \subseteq Done' /\ Cardinality(Open)' <= AtOnce(load)'
       /\ peak' = AtOnce(load)'
  BY <1>5, <1>7, <1>8 DEF TrialInv
<1>15. conn' \in [D -> Nat] /\ conn' = conn
  BY DEF TrialInv
<1>16. TrialInv'
  <2> HIDE DEF D
  <2> QED
    BY <1>3, <1>4, <1>8, <1>9, <1>11, <1>13, <1>14, <1>15 DEF TrialInv
<1>17. /\ idle' \in Seq(Connections) /\ IsInjective(idle')
       /\ \A k \in 1..Len(idle') : due'[idle'[k]] = <<>>
  <2>1. idle \in Seq(Connections) /\ IsInjective(idle)
        /\ \A k \in 1..Len(idle) : due[idle[k]] = <<>> /\ idle[k] \in Connections
    BY DEF PoolInv
  <2>a. \A k \in 1..Len(idle) : idle[k] # c
    <3> SUFFICES ASSUME NEW k \in 1..Len(idle), idle[k] = c PROVE FALSE
      OBVIOUS
    <3>1. due[c] = <<>>
      BY <2>1
    <3>2. <<i>> # <<>>
      OBVIOUS
    <3> QED
      BY <1>2, <3>1, <3>2, Zenon
  <2>2. \A k \in 1..Len(idle) : due'[idle[k]] = <<>> /\ idle[k] # c
    BY <1>4, <2>1, <2>a
  <2>3. CASE idle' = idle
    BY <2>1, <2>2, <2>3
  <2>4. CASE idle' = Append(idle, c)
    <3>1. /\ Len(idle') = Len(idle) + 1 /\ Len(idle) \in Nat /\ idle' \in Seq(Connections)
          /\ idle'[Len(idle) + 1] = c /\ \A k \in 1..Len(idle) : idle'[k] = idle[k]
      BY <1>2, <2>1, <2>4
    <3>2. \A k \in 1..(Len(idle) + 1) : k \in 1..Len(idle) \/ k = Len(idle) + 1
      BY <3>1
    <3>3. \A a, b \in 1..Len(idle) : idle[a] = idle[b] => a = b
      BY <2>1 DEF IsInjective
    <3>4. IsInjective(idle')
      <4>1. \A a, b \in 1..(Len(idle) + 1) : idle'[a] = idle'[b] => a = b
        BY <2>2, <3>1, <3>2, <3>3
      <4>2. DOMAIN idle' = 1..(Len(idle) + 1)
        BY <3>1
      <4> QED
        BY <4>1, <4>2 DEF IsInjective
    <3> QED
      BY <1>4, <2>2, <3>1, <3>2, <3>4
  <2> QED
    BY <2>3, <2>4 DEF c
<1>18. PoolInv'
  BY <1>8, <1>17 DEF PoolInv
<1> QED
  BY <1>16, <1>18

(***************************************************************************)
(* The trial takes the finished requests and submits as many: there are    *)
(* never more of them under way than at the beginning.                     *)
(***************************************************************************)
LEMMA CollectKeeps ==
    ASSUME PoolInv, TrialInv, load \in Workloads, ValidWorkload(load), pc = "trial",
           Indexes(load) = 0..(Count(load) - 1), Collect, UNCHANGED <<plan, pos, pc>>
    PROVE  TrialInv' /\ PoolInv'
<1> DEFINE D == Indexes(load)
           new == Done \ collected
           k == Cardinality(new)
           fresh == SubmitNext(task, k)
           a == AtOnce(load)
<1>1. /\ task' = fresh /\ collected' = collected \union new
      /\ peak' = Max({peak, Cardinality({i \in DOMAIN fresh :
                                           fresh[i] \in {"submitted", "sent"}})})
      /\ UNCHANGED <<load, limit, conn, idle, due, got>>
  BY DEF Collect
<1>2. /\ D \subseteq Nat /\ IsFiniteSet(D) /\ DOMAIN task = D /\ task \in [D -> TaskStates]
      /\ D = 0..(Count(load) - 1) /\ Count(load) \in Nat
  BY IndexesFinite, SuitesAssumption DEF TrialInv
<1>3. Done \subseteq D /\ InFlight \subseteq D
  BY <1>2 DEF Done, InFlight
<1>4. IsFiniteSet(new) /\ k \in Nat /\ IsFiniteSet(InFlight) /\ Cardinality(InFlight) \in Nat
  <2>1. new \in SUBSET D
    BY <1>3
  <2> HIDE DEF new
  <2> QED
    BY <1>2, <1>3, <2>1, FS_Subset, FS_CardinalityType
<1>5. Cardinality(InFlight) + k <= a
  <2>1. InFlight \cap new = {}
    BY DEF InFlight, Done
  <2>2. Cardinality(InFlight \union new) = Cardinality(InFlight) + k - Cardinality(InFlight \cap new)
    BY <1>4, FS_Union
  <2>3. Cardinality({}) = 0
    BY FS_EmptySet
  <2>4. Cardinality(InFlight \union new) <= a
    BY DEF TrialInv, Open
  <2>5. a \in Nat
    BY AtOnceIs
  <2> HIDE DEF new, k, a
  <2>6. Cardinality(InFlight \cap new) = 0
    BY <2>1, <2>3
  <2>7. Cardinality(InFlight \union new) = Cardinality(InFlight) + k
    BY <1>4, <2>2, <2>6
  <2> QED
    BY <1>4, <2>4, <2>5, <2>7
<1>6. a \in Nat
  BY AtOnceIs
<1> HIDE DEF k, a
<1> DEFINE N == Count(load)
<1>a. N \in Nat /\ DOMAIN task = 0..(N - 1) /\ D = 0..(N - 1)
  BY <1>2
<1> HIDE DEF N
<1>b. PICK m \in Nat : m <= N /\ \A i \in 0..(N - 1) : task[i] # "none" <=> i < m
  <2>1. \E n \in Nat : \A i \in 0..(N - 1) : task[i] # "none" <=> i < n
    BY <1>a DEF TrialInv
  <2> HIDE DEF D, new, fresh
  <2> QED
    BY <1>a, <2>1, FirstWithout
<1>c. SubmitNext(task, k) =
        [i \in 0..(N - 1) |-> IF i \in m..(m + k - 1) THEN "submitted" ELSE task[i]]
  <2>1. k \in Nat
    BY <1>4
  <2> HIDE DEF D, new, fresh
  <2> QED
    BY <1>a, <1>b, <2>1, SubmitNextIs
<1>7. /\ \A i \in D : task[i] # "none" <=> i < m
      /\ fresh = [i \in D |-> IF i \in m..(m + k - 1) THEN "submitted" ELSE task[i]]
  BY <1>a, <1>b, <1>c
<1> DEFINE Started == m..(m + k - 1)
<1>8. \A i \in D : i \in Started => task[i] = "none"
  BY <1>2, <1>4, <1>7
<1>9. IsFiniteSet(Started) /\ Cardinality(Started) = k
  <2>1. m \in Int /\ m + k - 1 \in Int
    BY <1>4
  <2>2. /\ IsFiniteSet(Started)
        /\ Cardinality(Started) = IF m > m + k - 1 THEN 0 ELSE (m + k - 1) - m + 1
    BY <2>1, FS_Interval
  <2> HIDE DEF Started
  <2> QED
    BY <1>4, <2>2
<1> HIDE DEF new, fresh
<1>10. \A i \in D : task'[i] = IF i \in Started THEN "submitted" ELSE task[i]
  BY <1>1, <1>7
<1>11. task' \in [D -> TaskStates]
  BY <1>1, <1>2, <1>7 DEF TaskStates
<1>12. \A i \in D : task'[i] # "none" <=> i < m + k
  BY <1>2, <1>4, <1>7, <1>10
<1> HIDE DEF Started
<1>13. Done' = Done
  <2>1. \A i \in D : task'[i] \in {"succeeded", "failed"} <=> task[i] \in {"succeeded", "failed"}
    BY <1>8, <1>10
  <2>2. DOMAIN task' = D
    BY <1>11
  <2> QED
    BY <1>2, <2>1, <2>2 DEF Done
<1>14. InFlight' \subseteq InFlight \union Started
  <2>1. DOMAIN task' = D
    BY <1>11
  <2> QED
    BY <1>2, <1>10, <2>1 DEF InFlight
<1>15. Busy' = Busy
  <2>1. \A i \in D : task'[i] = "sent" <=> task[i] = "sent"
    BY <1>8, <1>10
  <2>2. DOMAIN task' = D /\ conn' = conn
    BY <1>1, <1>11
  <2> QED
    BY <1>2, <2>1, <2>2 DEF Busy
<1>16. collected' = Done
  BY <1>1 DEF TrialInv, new
<1>17. Open' = InFlight'
  BY <1>13, <1>16 DEF Open
<1>18. Cardinality(InFlight') <= a /\ Cardinality(InFlight') \in Nat
  <2>1. IsFiniteSet(InFlight \union Started)
        /\ Cardinality(InFlight \union Started) =
             Cardinality(InFlight) + Cardinality(Started) - Cardinality(InFlight \cap Started)
    BY <1>4, <1>9, FS_Union
  <2>2. Cardinality(InFlight \cap Started) \in Nat
    BY <1>4, FS_Subset, FS_CardinalityType, InFlight \cap Started \in SUBSET InFlight
  <2>3. IsFiniteSet(InFlight') /\ Cardinality(InFlight') <= Cardinality(InFlight \union Started)
    BY <1>14, <2>1, FS_Subset
  <2>4. Cardinality(InFlight') \in Nat /\ Cardinality(InFlight \union Started) \in Nat
    BY <2>1, <2>3, FS_CardinalityType
  <2>5. Cardinality(InFlight \union Started) <= Cardinality(InFlight) + k
    BY <1>4, <1>9, <2>1, <2>2, <2>4
  <2> QED
    BY <1>4, <1>5, <1>6, <2>3, <2>4, <2>5
<1>19. peak' = a
  <2>1. {i \in DOMAIN fresh : fresh[i] \in {"submitted", "sent"}} = InFlight'
    BY <1>1 DEF InFlight
  <2>2. peak' = Max({a, Cardinality(InFlight')})
    BY <1>1, <2>1 DEF TrialInv, a
  <2>3. {a, Cardinality(InFlight')} \in SUBSET Nat
        /\ \A n \in {a, Cardinality(InFlight')} : n <= a
    BY <1>6, <1>18
  <2> QED
    BY <2>2, <2>3, MaxIs
<1>20. \A i \in D : task'[i] = "sent" => conn[i] \in Connections /\ due[conn[i]] = <<i>>
  <2>1. \A i \in D : task'[i] = "sent" => task[i] = "sent"
    BY <1>10
  <2> QED
    BY <2>1 DEF TrialInv
<1>21. Work' = Work /\ Here' = Here /\ Indexes(load)' = D /\ AtOnce(load)' = a
  BY <1>1 DEF Work, Here, a
<1>22. /\ load' = Work' /\ got' = [i \in Indexes(load)' |-> i]
       /\ collected' \subseteq Done' /\ Cardinality(Open)' <= AtOnce(load)'
       /\ peak' = AtOnce(load)'
  BY <1>1, <1>13, <1>16, <1>17, <1>18, <1>19, <1>21 DEF TrialInv
<1>23. /\ conn' \in [D -> Nat] /\ due' \in [Connections -> Seq(Nat)]
       /\ \A c \in Connections : c \notin Busy' => due'[c] = <<>>
       /\ \A i \in D : task'[i] = "sent" => conn'[i] \in Connections /\ due'[conn'[i]] = <<i>>
  BY <1>1, <1>15, <1>20 DEF TrialInv
<1>24. m + k \in Nat
  BY <1>4
<1>25. TrialInv'
  <2> HIDE DEF D
  <2> QED
    BY <1>11, <1>12, <1>21, <1>22, <1>23, <1>24 DEF TrialInv
<1>26. PoolInv'
  BY <1>1, <1>21 DEF PoolInv
<1> QED
  BY <1>25, <1>26

LEMMA LoadInit == Init => LoadInv
<1> SUFFICES ASSUME Init PROVE LoadInv
  OBVIOUS
<1>1. pc = "select" /\ NoTrial /\ limit = 0 /\ idle = <<>>
  BY DEF Init
<1>2. idle \in Seq(Connections) /\ IsInjective(idle) /\ Len(idle) = 0
  BY <1>1 DEF IsInjective
<1> QED
  BY <1>1, <1>2 DEF LoadInv, PoolInv

(* One pool for all trials of an execution, as large as the largest load.  *)
LEMMA PoolIsLargeEnough ==
    ASSUME PlanInv, PosInv, pc \in InTrials
    PROVE  LET m == Max({Concurrency(w) : w \in ToSet(Here.workloads)}) IN
           /\ m \in Nat /\ m <= Cardinality(Connections)
           /\ \A w \in ToSet(Here.workloads) : Concurrency(w) <= m
<1> DEFINE S == {Concurrency(w) : w \in ToSet(Here.workloads)}
           N == Cardinality(Connections)
<1>1. N \in Nat
  BY ConnectionsAssumption, FS_CardinalityType
<1>2. \A w \in ToSet(Here.workloads) : Concurrency(w) \in 1..N
  <2>1. ASSUME NEW w \in ToSet(Here.workloads) PROVE Concurrency(w) \in 1..N
    <3>1. w \in Workloads /\ ValidWorkload(w)
      BY WorkIs
    <3>2. Concurrency(w) \in Nat /\ 1 <= Concurrency(w) /\ Concurrency(w) <= N
      BY <3>1, AtOnceIs, ConnectionsAssumption
    <3> QED
      BY <1>1, <3>2
  <2> QED
    BY <2>1
<1>3. S \in SUBSET (1..N) /\ S # {}
  BY <1>2, WorkIs
<1>4. \A w \in ToSet(Here.workloads) : Concurrency(w) \in S
  OBVIOUS
<1> HIDE DEF S, N
<1>5. Max(S) \in S /\ \A j \in S : j <= Max(S)
  BY <1>1, <1>3, MaxMember
<1>6. Max(S) \in 1..N
  BY <1>3, <1>5
<1>7. Max(S) \in Nat /\ Max(S) <= N /\ \A w \in ToSet(Here.workloads) : Concurrency(w) <= Max(S)
  BY <1>1, <1>4, <1>5, <1>6
<1> QED
  BY <1>7 DEF S, N

(* post_json and the answers, whichever request they are for. *)
LEMMA TrialStepKeeps ==
    ASSUME PlanInv, PosInv, LoadInv, TrialStep PROVE LoadInv'
<1>1. /\ pc = "trial" /\ UNCHANGED <<plan, pos, pc>>
      /\ TrialInv /\ PoolInv
      /\ load \in Workloads /\ ValidWorkload(load) /\ Indexes(load) = 0..(Count(load) - 1)
      /\ Concurrency(load) <= limit
  <2>1. pc = "trial" /\ UNCHANGED <<plan, pos, pc>>
    BY DEF TrialStep
  <2>2. TrialInv /\ PoolInv /\ load = Work
    BY <2>1 DEF LoadInv, TrialInv
  <2> QED
    BY <2>1, <2>2, WorkIs DEF InTrials, PoolInv
<1>2. SUFFICES TrialInv' /\ PoolInv'
  BY <1>1 DEF LoadInv
<1>3. CASE Collect
  BY <1>1, <1>3, CollectKeeps
<1>4. ASSUME NEW i \in DOMAIN task, Post(i) PROVE TrialInv' /\ PoolInv'
  BY <1>1, <1>4, PostKeeps
<1>5. ASSUME NEW i \in DOMAIN task, Break(i) PROVE TrialInv' /\ PoolInv'
  <2>1. /\ task[i] = "sent" /\ task' = [task EXCEPT ![i] = "failed"]
        /\ due' = [due EXCEPT ![conn[i]] = <<>>] /\ idle' = idle
        /\ UNCHANGED <<load, limit, conn, got, collected, peak>>
    BY <1>5 DEF Break, Close
  <2> QED
    BY <1>1, <2>1, AnswerKeeps
<1>6. ASSUME NEW i \in DOMAIN task, NEW s \in {"succeeded", "failed"}, NEW reusable,
             Respond(i, s, reusable)
      PROVE  TrialInv' /\ PoolInv'
  <2>1. /\ task[i] = "sent" /\ task' = [task EXCEPT ![i] = s]
        /\ got' = [got EXCEPT ![i] = Head(due[conn[i]])]
        /\ IF reusable THEN GiveBack(conn[i]) ELSE Close(conn[i])
        /\ UNCHANGED <<load, limit, conn, collected, peak>>
    BY <1>6 DEF Respond
  <2>2. conn[i] \in Connections /\ due[conn[i]] = <<i>> /\ i \in Indexes(load)
    BY <1>1, <2>1 DEF TrialInv
  <2>3. Head(<<i>>) = i /\ Tail(<<i>>) = <<>>
    OBVIOUS
  <2>4. got' = got
    BY <1>1, <2>1, <2>2, <2>3 DEF TrialInv
  <2>5. due' = [due EXCEPT ![conn[i]] = <<>>]
    BY <2>1, <2>2, <2>3 DEF GiveBack, Close
  <2>6. idle' = idle \/ idle' = Append(idle, conn[i])
    BY <2>1 DEF GiveBack, Close
  <2> QED
    BY <1>1, <2>1, <2>4, <2>5, <2>6, AnswerKeeps
<1> QED
  BY <1>3, <1>4, <1>5, <1>6 DEF TrialStep

LEMMA LoadStep ==
    ASSUME ServerInv, PlanInv, PosInv, LoadInv, [Next]_vars PROVE LoadInv'
<1>1. ASSUME UNCHANGED loadVars, pc # "trial", pc' \notin {"before", "trial"} PROVE LoadInv'
  BY <1>1 DEF LoadInv, PoolInv, NoTrial, loadVars, trialVars
<1>2. ASSUME UNCHANGED <<loadVars, pc, pos, plan>> PROVE LoadInv'
  <2>1. UNCHANGED <<load, limit, idle, task, conn, due, got, collected, peak, pc, Here, Work>>
    BY <1>2 DEF loadVars, trialVars, Here, Work
  <2>2. PoolInv'
    BY <2>1 DEF LoadInv, PoolInv
  <2>3. pc # "trial" => NoTrial'
    BY <2>1 DEF LoadInv, NoTrial
  <2>4. UNCHANGED <<Done, InFlight, Busy, Open>>
    BY <2>1 DEF Done, InFlight, Busy, Open
  <2>5. TrialInv => TrialInv'
    BY <2>1, <2>4 DEF TrialInv
  <2> QED
    BY <2>1, <2>2, <2>3, <2>5 DEF LoadInv
<1>3. ASSUME LeaveTrial, pc' \notin {"before", "trial"} PROVE LoadInv'
  <2>1. NoTrial' /\ idle' = <<>> /\ limit' = 0
    BY <1>3 DEF LeaveTrial, EndTrial, NoTrial
  <2>2. idle' \in Seq(Connections) /\ IsInjective(idle') /\ Len(idle') = 0
    BY <2>1 DEF IsInjective
  <2> QED
    BY <1>3, <2>1, <2>2 DEF LoadInv, PoolInv
<1>4. ASSUME NEW s \in Suites, NEW f \in Focuses, SelectConfiguration(s, f)
      PROVE  LoadInv'
  <2>1. pc = "select" /\ pc' \in {"prompts", "ended"} /\ UNCHANGED loadVars
    BY <1>4 DEF SelectConfiguration
  <2> QED
    BY <1>1, <2>1
<1>5. CASE \/ PromptsDone \/ NextExecution \/ Launch \/ Launched \/ BecomesReady
           \/ StopServer \/ Stopped \/ Finalize \/ Succeed
  <2>1. UNCHANGED loadVars /\ pc # "trial" /\ pc' \notin {"before", "trial"}
    BY <1>5 DEF PromptsDone, NextExecution, Launch, Launched, BecomesReady, StopServer,
       Stopped, Finalize, Succeed, Goto
  <2> QED
    BY <1>1, <2>1
<1>6. CASE \/ StartDiagnostics \/ NextTarget \/ AppendAttempt \/ PrepareAttempt
           \/ (\E s \in {"running", "failed"} : Measure(s))
           \/ StopAttempt \/ (\E complete \in BOOLEAN : CloseAttempt(complete))
           \/ EndDiagnostics \/ DirectoryExists \/ DiagnosticsInterrupted
           \/ Diagnose \/ Return \/ Finally \/ Repeat
  <2>1. UNCHANGED loadVars
    BY <1>6 DEF StartDiagnostics, NextTarget, AppendAttempt, PrepareAttempt, Measure,
     StopAttempt, CloseAttempt, EndDiagnostics, DirectoryExists, DiagnosticsInterrupted,
     Diagnose, Return, Finally, Repeat
  <2>2. pc # "trial" /\ pc' \notin {"before", "trial"}
    BY <1>6 DEF StartDiagnostics, NextTarget, AppendAttempt, PrepareAttempt, Measure,
     StopAttempt, CloseAttempt, EndDiagnostics, DirectoryExists, DiagnosticsInterrupted,
     Diagnose, Return, Finally, Repeat, Goto, Diagnosing, InDiagnostics
  <2> QED
    BY <1>1, <2>1, <2>2
<1>7. CASE RunFails \/ RunInterrupted
  <2>1. LeaveTrial /\ pc' = "finally"
    BY <1>7 DEF RunFails, RunInterrupted
  <2> QED
    BY <1>3, <2>1
<1>8. CASE ChildDies \/ InterruptDropped \/ Over \/ UNCHANGED vars
  <2>1. UNCHANGED <<loadVars, pc, pos, plan>>
    BY <1>8 DEF ChildDies, InterruptDropped, Over, vars
  <2> QED
    BY <1>2, <2>1
<1>9. CASE WarmedUp
  <2>1. /\ pc = "warmup" /\ pc' = "before" /\ UNCHANGED <<load, trialVars, plan, pos>>
        /\ limit' = Max({Concurrency(w) : w \in ToSet(Here.workloads)}) /\ idle' = <<>>
    BY <1>9 DEF WarmedUp, Goto
  <2>2. /\ limit' \in Nat /\ limit' <= Cardinality(Connections)
        /\ \A w \in ToSet(Here.workloads) : Concurrency(w) <= limit'
    BY <2>1, PoolIsLargeEnough DEF InTrials
  <2>3. Here' = Here /\ NoTrial'
    BY <2>1 DEF Here, LoadInv, NoTrial, trialVars
  <2>4. idle' \in Seq(Connections) /\ IsInjective(idle') /\ Len(idle') = 0
    BY <2>1 DEF IsInjective
  <2>5. PoolInv'
    BY <2>2, <2>3, <2>4 DEF PoolInv
  <2> QED
    BY <2>1, <2>3, <2>5 DEF LoadInv
<1>10. CASE BeginTrial
  <2>1. /\ pc = "before" /\ pc' = "trial"
        /\ UNCHANGED <<limit, idle, plan, pos, due>>
    BY <1>10 DEF BeginTrial, Goto, StartTrial
  <2>2. Here' = Here
    BY <2>1 DEF Here
  <2>3. PoolInv'
    BY <2>1, <2>2 DEF LoadInv, PoolInv
  <2> QED
    BY <1>10, <2>1, <2>3, TrialBegins DEF LoadInv
<1>11. CASE TrialStep
  BY <1>11, TrialStepKeeps
<1>12. CASE FinishTrial
  <2> DEFINE last == pos.trial + 1 = Trials
             done == last /\ pos.work = Len(Here.workloads)
  <2>1. /\ pc = "trial" /\ pc' = IF done THEN "stop" ELSE "before"
        /\ NoTrial' /\ plan' = plan
        /\ idle' = (IF done THEN <<>> ELSE idle) /\ limit' = IF done THEN 0 ELSE limit
        /\ pos' = IF ~last THEN [pos EXCEPT !.trial = @ + 1]
                  ELSE [pos EXCEPT !.work = @ + 1, !.trial = 0]
    BY <1>12 DEF FinishTrial, EndTrial, NoTrial
  <2> HIDE DEF last, done
  <2>2. pos'.run = pos.run
    BY <2>1 DEF PosInv
  <2>3. Here' = Here
    BY <2>1, <2>2 DEF Here
  <2>4. due' = [c \in Connections |-> <<>>]
    BY <2>1 DEF NoTrial
  <2>5. CASE done
    <3>1. pc' = "stop" /\ idle' = <<>> /\ limit' = 0
      BY <2>1, <2>5
    <3>2. idle' \in Seq(Connections) /\ IsInjective(idle') /\ Len(idle') = 0
      BY <3>1 DEF IsInjective
    <3> QED
      BY <2>1, <3>1, <3>2 DEF LoadInv, PoolInv
  <2>6. CASE ~ done
    <3>1. pc' = "before" /\ idle' = idle /\ limit' = limit
      BY <2>1, <2>6
    <3>2. PoolInv
      BY DEF LoadInv
    <3>3. \A k \in 1..Len(idle) : due'[idle[k]] = <<>>
      BY <2>4, <3>2 DEF PoolInv
    <3>4. PoolInv'
      BY <2>1, <2>3, <3>1, <3>2, <3>3 DEF PoolInv
    <3> QED
      BY <2>1, <3>1, <3>4 DEF LoadInv
  <2> QED
    BY <2>5, <2>6
<1> QED
  BY <1>4, <1>5, <1>6, <1>7, <1>8, <1>9, <1>10, <1>11, <1>12 DEF Next, Steps

-----------------------------------------------------------------------------
(* The order of the requests. *)

(* The number of requests in a sequence of trials; see NextOrder. *)
Total(s) == FoldLeft(LAMBDA n, t : n + t.count, 0, s)
Counted(s) == /\ Len(s) \in Nat /\ DOMAIN s = 1..Len(s)
              /\ \A k \in 1..Len(s) : s[k].count \in Nat

(* The partial sums of Total. *)
Sums(it, s) ==
    /\ it[{}] = 0
    /\ \A n \in 1..Len(s) : it[1..n] = it[1..(n - 1)] + s[n].count
    /\ Total(s) = it[1..Len(s)]

LEMMA TotalHasSums ==
    ASSUME NEW s, Counted(s) PROVE \E it : Sums(it, s)
<1> DEFINE N == Len(s)
           Plus(n, t) == n + t.count
           step == [k \in 1..N |-> [n \in Nat |-> Plus(n, s[k])]]
<1>1. N \in Nat /\ DOMAIN s = 1..N /\ \A k \in 1..N : s[k].count \in Nat
  BY DEF Counted
<1>2. Total(s) = FoldLeft(Plus, 0, s)
  BY DEF Total
<1> HIDE DEF N
<1>3. \A n \in Nat, k \in 1..N : Plus(n, s[k]) \in Nat
  BY <1>1
<1>4. step \in [1..N -> [Nat -> Nat]]
  BY <1>3
<1>5. \A k \in 1..N, n \in Nat : step[k][n] = Plus(n, s[k])
  OBVIOUS
<1> HIDE DEF step
<1>6. PICK g : IsFold(g, N, Nat, 0, step)
  BY <1>1, <1>4, FoldExists
<1> HIDE DEF Plus
<1>7. g = [d \in SUBSET (1..N) |-> IF d = {} THEN 0
                                  ELSE Plus(g[d \ {Max(d)}], s[Max(d)])]
  <2>1. ASSUME NEW d \in SUBSET (1..N), d # {}
        PROVE  g[d] = Plus(g[d \ {Max(d)}], s[Max(d)])
    <3>1. Max(d) \in 1..N /\ d \ {Max(d)} \in SUBSET (1..N)
      BY <2>1, <1>1, MaxMember
    <3>2. g[d \ {Max(d)}] \in Nat
      BY <3>1, <1>6 DEF IsFold
    <3> QED
      BY <2>1, <3>1, <3>2, <1>6, <1>5 DEF IsFold
  <2> QED
    BY <2>1, <1>6 DEF IsFold
<1>8. PICK it :
        /\ it = [d \in SUBSET (1..N) |-> IF d = {} THEN 0
                                         ELSE Plus(it[d \ {Max(d)}], s[Max(d)])]
        /\ FoldLeft(Plus, 0, s) = it[1..N]
  BY <1>1, <1>7, Zenon DEF FoldLeft, MapThenFoldSet
<1>9. ASSUME NEW n \in 1..N PROVE it[1..n] = it[1..(n - 1)] + s[n].count
  <2>0. n \in Nat \ {0} /\ n \in 1..n
    BY <1>1
  <2>1. Max(1..n) = n /\ (1..n) \ {n} = 1..(n - 1) /\ 1..n # {}
    BY <2>0, LastIndex
  <2>2. 1..n \in SUBSET (1..N)
    BY <1>1
  <2>3. it[1..n] = Plus(it[1..(n - 1)], s[n])
    BY <1>8, <2>1, <2>2
  <2> QED
    BY <2>3 DEF Plus
<1>10. it[{}] = 0
  BY <1>8
<1>11. Total(s) = it[1..N]
  BY <1>2, <1>8
<1>12. Sums(it, s)
  BY <1>9, <1>10, <1>11 DEF Sums, N
<1> QED
  BY <1>12

(* Every trial adds its own requests. *)
LEMMA TotalAppend ==
    ASSUME NEW T, NEW s \in Seq(T), NEW e \in T, Counted(s), e.count \in Nat
    PROVE  Total(s) \in Nat /\ Total(Append(s, e)) = Total(s) + e.count
<1> DEFINE N == Len(s)
           b == Append(s, e)
<1>1. /\ N \in Nat /\ Len(b) = N + 1 /\ DOMAIN b = 1..(N + 1)
      /\ b[N + 1] = e /\ \A k \in 1..N : b[k] = s[k]
  OBVIOUS
<1>2. \A k \in 1..(N + 1) : k \in 1..N \/ k = N + 1
  BY <1>1
<1> HIDE DEF b
<1>3. Counted(b)
  BY <1>1, <1>2 DEF Counted
<1>4. PICK it : Sums(it, s)
  BY TotalHasSums
<1>5. PICK ib : Sums(ib, b)
  BY <1>3, TotalHasSums
<1> DEFINE A == {<<m, m>> : m \in Nat}
           pair == [d \in SUBSET (1..N) |-> <<it[d], ib[d]>>]
<1>6. pair[{}] \in A
  <2>1. pair[{}] = <<0, 0>> /\ 0 \in Nat
    BY <1>4, <1>5 DEF Sums
  <2> QED
    BY <2>1
<1> HIDE DEF N
<1>7. ASSUME NEW n \in 1..N, pair[1..(n - 1)] \in A PROVE pair[1..n] \in A
  <2>1. 1..n \in SUBSET (1..N) /\ 1..(n - 1) \in SUBSET (1..N) /\ n \in 1..(N + 1)
    BY <1>1
  <2>2. PICK m \in Nat : <<it[1..(n - 1)], ib[1..(n - 1)]>> = <<m, m>>
    BY <1>7, <2>1
  <2>3. it[1..n] = it[1..(n - 1)] + s[n].count
    BY <1>4 DEF Sums, N
  <2>4. ib[1..n] = ib[1..(n - 1)] + s[n].count
    BY <1>1, <1>5, <2>1 DEF Sums
  <2>5. it[1..(n - 1)] = m /\ ib[1..(n - 1)] = m
    BY <2>2
  <2>6. s[n].count \in Nat
    BY DEF Counted, N
  <2>7. it[1..n] = m + s[n].count /\ ib[1..n] = m + s[n].count /\ m + s[n].count \in Nat
    BY <2>3, <2>4, <2>5, <2>6
  <2>8. pair[1..n] = <<it[1..n], ib[1..n]>>
    BY <2>1
  <2> HIDE DEF pair
  <2> QED
    BY <2>7, <2>8
<1> HIDE DEF pair, A
<1>8. pair[1..N] \in A
  <2>1. N \in Nat
    BY <1>1
  <2> QED
    BY <2>1, <1>6, <1>7, FoldInduction, Zenon
<1>9. it[1..N] \in Nat /\ it[1..N] = ib[1..N]
  <2>1. pair[1..N] = <<it[1..N], ib[1..N]>>
    BY DEF pair
  <2>2. PICK m \in Nat : <<it[1..N], ib[1..N]>> = <<m, m>>
    BY <1>8, <2>1 DEF A
  <2> QED
    BY <2>2
<1>10. ib[1..(N + 1)] = ib[1..N] + e.count
  <2>1. N + 1 \in 1..Len(b) /\ (N + 1) - 1 = N
    BY <1>1
  <2> QED
    BY <1>1, <1>5, <2>1 DEF Sums
<1>11. Total(s) = it[1..N] /\ Total(b) = ib[1..(N + 1)]
  BY <1>1, <1>4, <1>5 DEF Sums, N
<1> QED
  BY <1>9, <1>10, <1>11 DEF b

LEMMA TotalOfNone == Total(<<>>) = 0
<1>1. Len(<<>>) = 0 /\ DOMAIN <<>> = 1..0 /\ 1..0 = {}
  OBVIOUS
<1>2. Counted(<<>>)
  BY <1>1 DEF Counted
<1>3. PICK it : Sums(it, <<>>)
  BY <1>2, TotalHasSums
<1> QED
  BY <1>1, <1>3 DEF Sums

(* Every request of a run has a number of its own: the trials follow on    *)
(* each other.                                                             *)
OrderInv ==
    /\ Counted(trials)
    /\ \A k \in 2..Len(trials) :
         trials[k].first = trials[k-1].first + trials[k-1].count
    /\ trials # <<>> =>
         Total(trials) = trials[Len(trials)].first + trials[Len(trials)].count

LEMMA NextOrderIs == NextOrder = Total(trials)
  BY DEF NextOrder, Total

LEMMA OrderOfNone == trials = <<>> => OrderInv
<1>1. Len(<<>>) = 0 /\ DOMAIN <<>> = 1..0 /\ 1..0 = {} /\ 2..0 = {}
  OBVIOUS
<1> QED
  BY <1>1 DEF OrderInv, Counted

LEMMA OrderStep ==
    ASSUME ServerInv, PlanInv, PosInv, KeyInv, LoadInv, OrderInv, [Next]_vars
    PROVE  OrderInv'
<1>1. CASE trials' = trials
  BY <1>1 DEF OrderInv, Counted
<1>2. CASE Repeat
  <2>1. trials' = <<>>
    BY <1>2 DEF Repeat
  <2>2. Len(<<>>) = 0 /\ DOMAIN <<>> = 1..0 /\ 1..0 = {} /\ 2..0 = {}
    OBVIOUS
  <2> QED
    BY <2>1, <2>2 DEF OrderInv, Counted
<1>3. CASE FinishTrial
  <2> DEFINE n == Len(trials)
             e == [run |-> pos.run, work |-> Work, trial |-> pos.trial,
                   first |-> NextOrder, count |-> Cardinality(collected),
                   errors |-> Errors # {}]
  <2>1. trials' = Append(trials, e) /\ pc = "trial"
    BY <1>3 DEF FinishTrial
  <2>2. e.count \in Nat
    <3>1. TrialInv /\ load \in Workloads
      BY <2>1, WorkIs DEF LoadInv, InTrials, TrialInv
    <3>2. collected \in SUBSET Indexes(load)
      BY <3>1 DEF TrialInv, Done
    <3> QED
      BY <3>1, <3>2, IndexesFinite, FS_Subset, FS_CardinalityType
  <2>3. e.first = Total(trials)
    BY NextOrderIs
  <2> HIDE DEF e
  <2>4. PICK S : trials \in Seq(S)
    BY DEF KeyInv
  <2>5. trials \in Seq(S \union {e}) /\ e \in S \union {e}
    BY <2>4
  <2>6. /\ n \in Nat /\ Len(trials') = n + 1 /\ DOMAIN trials' = 1..(n + 1)
        /\ trials'[n + 1] = e /\ (\A k \in 1..n : trials'[k] = trials[k])
        /\ trials' # <<>>
    BY <2>1, <2>5
  <2>7. Total(trials) \in Nat /\ Total(trials') = Total(trials) + e.count
    <3>1. Counted(trials)
      BY DEF OrderInv
    <3> QED
      BY <2>1, <2>2, <2>5, <3>1, TotalAppend
  <2>8. \A k \in 1..(n + 1) : k \in 1..n \/ k = n + 1
    BY <2>6
  <2>9. Counted(trials)'
    <3>1. \A k \in 1..(n + 1) : trials'[k].count \in Nat
      BY <2>2, <2>6, <2>8 DEF OrderInv, Counted
    <3> QED
      BY <2>6, <3>1 DEF Counted
  <2>10. Total(trials') = trials'[Len(trials')].first + trials'[Len(trials')].count
    BY <2>3, <2>6, <2>7
  <2>11. ASSUME NEW k \in 2..Len(trials')
         PROVE  trials'[k].first = trials'[k-1].first + trials'[k-1].count
    <3>1. k \in 2..(n + 1) /\ k - 1 \in 1..n
      BY <2>6
    <3>2. CASE k \in 2..n
      <4>1. k \in 1..n
        BY <3>2
      <4> QED
        BY <2>6, <3>1, <3>2, <4>1 DEF OrderInv
    <3>3. CASE k = n + 1
      <4>1. k - 1 = n /\ n \in 1..n
        BY <2>6, <3>1, <3>3
      <4>2. trials # <<>>
        BY <2>4, <4>1
      <4>3. Total(trials) = trials[n].first + trials[n].count
        BY <4>2 DEF OrderInv
      <4> QED
        BY <2>3, <2>6, <3>3, <4>1, <4>3
    <3> QED
      BY <2>6, <3>1, <3>2, <3>3
  <2> QED
    BY <2>9, <2>10, <2>11 DEF OrderInv
<1>4. ASSUME NEW s \in Suites, NEW f \in Focuses, SelectConfiguration(s, f)
      PROVE  trials' = trials
  BY <1>4 DEF SelectConfiguration
<1>5. CASE \/ PromptsDone \/ NextExecution \/ Launch \/ Launched \/ BecomesReady
           \/ StopServer \/ Stopped \/ WarmedUp \/ BeginTrial \/ TrialStep
           \/ Finalize \/ Succeed
  <2>1. trials' = trials
    BY <1>5 DEF PromptsDone, NextExecution, Launch, Launched, BecomesReady, StopServer,
       Stopped, WarmedUp, BeginTrial, TrialStep, Finalize, Succeed, resultVars
  <2> QED
    BY <1>1, <2>1
<1>6. CASE \/ StartDiagnostics \/ NextTarget \/ AppendAttempt \/ PrepareAttempt
           \/ (\E s \in {"running", "failed"} : Measure(s))
           \/ StopAttempt \/ (\E complete \in BOOLEAN : CloseAttempt(complete))
           \/ EndDiagnostics \/ DirectoryExists \/ DiagnosticsInterrupted
           \/ Diagnose \/ Return \/ Finally
  <2>1. trials' = trials
    BY <1>6 DEF StartDiagnostics, NextTarget, AppendAttempt, PrepareAttempt, Measure,
     StopAttempt, CloseAttempt, EndDiagnostics, DirectoryExists, DiagnosticsInterrupted,
     Diagnose, Return, Finally, resultVars
  <2> QED
    BY <1>1, <2>1
<1>7. CASE RunFails \/ RunInterrupted \/ ChildDies \/ InterruptDropped \/ Over
           \/ UNCHANGED vars
  <2>1. trials' = trials
    BY <1>7 DEF RunFails, RunInterrupted, ChildDies, InterruptDropped, Over, vars, resultVars
  <2> QED
    BY <1>1, <2>1
<1> QED
  BY <1>1, <1>2, <1>3, <1>4, <1>5, <1>6, <1>7 DEF Next, Steps

(* The executions that were started, and the alarms. *)
SomeEmpty == \E k \in 1..Len(plan) : plan[k].workloads = <<>>
Served == {"warmup", "before", "trial", "stop", "stopped"}
AppliedInv ==
    /\ pc \in {"select", "prompts"} => applied = <<>>
    /\ pc \in Measuring \ {"prompts", "return"} /\ ~ SomeEmpty =>
         applied = [k \in 1..(IF pc \in Served THEN pos.run ELSE pos.run - 1) |-> k]
AlarmInv ==
    /\ alarms \subseteq {"configuration_order"}
    /\ pc = "select" => alarms = {}
    /\ alarms # {} => SomeEmpty

LEMMA AppliedInit == Init => AppliedInv /\ AlarmInv
  BY DEF Init, AppliedInv, AlarmInv, Measuring

LEMMA AppliedStep ==
    ASSUME ServerInv, PlanInv, PosInv, AppliedInv, [Next]_vars PROVE AppliedInv'
<1> DEFINE Going == Measuring \ {"prompts", "return"}
           upto(m) == [k \in 1..m |-> k]
<1>1. ASSUME pc' \notin Measuring \union {"select"} PROVE AppliedInv'
  BY <1>1 DEF AppliedInv, Measuring
<1>a. ASSUME pc' = "return" PROVE AppliedInv'
  BY <1>a DEF AppliedInv, Measuring
<1>2. ASSUME UNCHANGED <<applied, plan, pos>>, pc \in Going, pc' \in Going,
             pc \in Served <=> pc' \in Served
      PROVE  AppliedInv'
  <2>1. SomeEmpty' <=> SomeEmpty
    BY <1>2 DEF SomeEmpty
  <2>2. pc' \notin {"select", "prompts"}
    BY <1>2 DEF Measuring
  <2> QED
    BY <1>2, <2>1, <2>2 DEF AppliedInv
<1>3. ASSUME pc' = "prompts", applied' = <<>> PROVE AppliedInv'
  BY <1>3 DEF AppliedInv, Measuring
<1>4. ASSUME NEW s \in Suites, NEW f \in Focuses, SelectConfiguration(s, f)
      PROVE  AppliedInv'
  <2>1. pc = "select" /\ applied' = applied /\ pc' \in {"prompts", "ended"}
    BY <1>4 DEF SelectConfiguration
  <2> QED
    BY <1>1, <1>3, <2>1 DEF AppliedInv, Measuring
<1>5. CASE Launch \/ Launched
  <2>1. /\ UNCHANGED <<applied, plan, pos>>
        /\ \/ pc' \notin Measuring \union {"select"}
           \/ pc \in Going \ Served /\ pc' \in Going \ Served
    BY <1>5 DEF Launch, Launched, resultVars, Measuring, Served
  <2> QED
    BY <1>1, <1>2, <2>1
<1>6. CASE StopServer \/ WarmedUp \/ BeginTrial \/ TrialStep
  <2>1. UNCHANGED <<applied, plan, pos>> /\ pc \in Served /\ pc' \in Served
    BY <1>6 DEF StopServer, WarmedUp, BeginTrial, TrialStep, Goto, resultVars, Served
  <2>2. pc \in Going /\ pc' \in Going
    BY <2>1 DEF Served, Measuring
  <2> QED
    BY <1>2, <2>1, <2>2
<1>7. CASE Finalize \/ Succeed
  <2>1. /\ UNCHANGED <<applied, plan, pos>> /\ pc \in Going \ Served
        /\ pc' \in Going \ Served \/ pc' = "return" \/ pc' \notin Measuring \union {"select"}
    BY <1>7 DEF Finalize, Succeed, Goto, resultVars, Served, Measuring
  <2> QED
    BY <1>1, <1>2, <1>a, <2>1
<1>8. CASE PromptsDone
  <2>1. pc = "prompts" /\ pc' = "plan" /\ UNCHANGED <<applied, plan, pos>>
    BY <1>8 DEF PromptsDone, Goto, resultVars
  <2>2. applied = <<>> /\ pos.run = 1
    BY <2>1 DEF AppliedInv, PosInv
  <2>3. upto(pos.run - 1) = <<>>
    BY <2>2
  <2> QED
    BY <2>1, <2>2, <2>3 DEF AppliedInv, Served
<1>9. CASE NextExecution
  <2>0. /\ pc = "plan" /\ UNCHANGED <<applied, plan>> /\ pc \in Going \ Served
        /\ pos \in [run : Nat \ {0}, work : Nat \ {0}, trial : Nat]
    BY <1>9 DEF NextExecution, resultVars, Measuring, Served, PosInv
  <2>1. CASE pos.run > Len(plan)
    <3>1. pos' = pos /\ pc' = "final"
      BY <1>9, <2>1 DEF NextExecution
    <3> QED
      BY <1>2, <2>0, <3>1 DEF Served, Measuring
  <2>2. CASE ~ (pos.run > Len(plan)) /\ Here.workloads = <<>>
    <3>1. pos.run \in 1..Len(plan)
      BY <2>0, <2>2 DEF PlanInv
    <3>2. SomeEmpty'
      BY <2>0, <2>2, <3>1 DEF SomeEmpty, Here
    <3>3. pc' = "plan"
      BY <1>9, <2>0, <2>2 DEF NextExecution
    <3> QED
      BY <3>2, <3>3 DEF AppliedInv
  <2>3. CASE ~ (pos.run > Len(plan)) /\ Here.workloads # <<>>
    <3>1. pc' \in {"launch", "ready"} /\ pos' = [pos EXCEPT !.work = 1, !.trial = 0]
      BY <1>9, <2>3 DEF NextExecution
    <3>2. pos' = [run |-> pos.run, work |-> 1, trial |-> 0]
      BY <2>0, <3>1
    <3>3. pos'.run = pos.run /\ pc' \in Going \ Served
      BY <3>1, <3>2 DEF Served, Measuring
    <3>4. SomeEmpty' <=> SomeEmpty
      BY <2>0 DEF SomeEmpty
    <3>5. pc' \notin {"select", "prompts"}
      BY <3>1
    <3> QED
      BY <2>0, <3>3, <3>4, <3>5 DEF AppliedInv
  <2> QED
    BY <2>1, <2>2, <2>3
<1>10. CASE BecomesReady
  <2>1. /\ pc = "ready" /\ pc' = "warmup" /\ UNCHANGED <<plan, pos>>
        /\ applied' = Append(applied, pos.run)
    BY <1>10 DEF BecomesReady, Goto
  <2>2. SomeEmpty' <=> SomeEmpty
    BY <2>1 DEF SomeEmpty
  <2>3. pos.run \in Nat \ {0}
    BY DEF PosInv
  <2>4. ASSUME ~ SomeEmpty PROVE applied' = upto(pos.run)
    <3>1. applied = upto(pos.run - 1)
      BY <2>1, <2>4 DEF AppliedInv, Measuring, Served
    <3>2. pos.run - 1 \in Nat
      BY <2>3
    <3>3. upto(pos.run - 1) \in [1..(pos.run - 1) -> Nat]
      OBVIOUS
    <3>4. upto(pos.run - 1) \in Seq(Nat) /\ Len(upto(pos.run - 1)) = pos.run - 1
      BY <3>2, <3>3, SeqOfFunction
    <3>5. \A k \in 1..(pos.run - 1) : applied[k] = k
      BY <3>1
    <3> DEFINE b == Append(applied, pos.run)
               r == pos.run
    <3> HIDE DEF upto
    <3>6. /\ b \in Seq(Nat) /\ Len(b) = r /\ b[r] = r
          /\ \A k \in 1..(r - 1) : b[k] = applied[k]
      BY <2>3, <3>1, <3>4
    <3> HIDE DEF b, r
    <3>7. DOMAIN b = 1..r /\ b = [k \in 1..r |-> b[k]]
      BY <3>6
    <3>8. r \in Nat \ {0} /\ \A k \in 1..r : k \in 1..(r - 1) \/ k = r
      BY <2>3 DEF r
    <3>9. \A k \in 1..r : b[k] = k
      BY <3>5, <3>6, <3>8 DEF r
    <3>10. b = [k \in 1..r |-> k]
      BY <3>7, <3>9
    <3> QED
      BY <2>1, <3>10 DEF b, r, upto
  <2> QED
    BY <2>1, <2>2, <2>4 DEF AppliedInv, Served
<1>11. CASE FinishTrial
  <2>1. /\ pc = "trial" /\ pc' \in {"stop", "before"} /\ UNCHANGED <<plan, applied>>
        /\ pos' = IF ~ (pos.trial + 1 = Trials) THEN [pos EXCEPT !.trial = @ + 1]
                  ELSE [pos EXCEPT !.work = @ + 1, !.trial = 0]
    BY <1>11 DEF FinishTrial
  <2>2. pos'.run = pos.run
    BY <2>1 DEF PosInv
  <2>3. SomeEmpty' <=> SomeEmpty
    BY <2>1 DEF SomeEmpty
  <2>4. pc \in Going /\ pc \in Served /\ pc' \in Served /\ pc' \notin {"select", "prompts"}
    BY <2>1 DEF Served, Measuring
  <2> QED
    BY <2>1, <2>2, <2>3, <2>4 DEF AppliedInv
<1>12. CASE Stopped
  <2>1. /\ pc = "stopped" /\ pc' = "plan" /\ UNCHANGED <<plan, applied>>
        /\ pos' = [pos EXCEPT !.run = @ + 1]
    BY <1>12 DEF Stopped, Goto, resultVars
  <2>2. pos'.run = pos.run + 1 /\ pos.run \in Nat
    BY <2>1 DEF PosInv
  <2>3. SomeEmpty' <=> SomeEmpty
    BY <2>1 DEF SomeEmpty
  <2>4. pos'.run - 1 = pos.run
    BY <2>2
  <2> QED
    BY <2>1, <2>3, <2>4 DEF AppliedInv, Served, Measuring
<1>13. CASE \/ StartDiagnostics \/ NextTarget \/ AppendAttempt \/ PrepareAttempt
           \/ (\E s \in {"running", "failed"} : Measure(s))
           \/ StopAttempt \/ (\E complete \in BOOLEAN : CloseAttempt(complete))
           \/ EndDiagnostics \/ DirectoryExists \/ DiagnosticsInterrupted
           \/ Diagnose \/ Return \/ Finally \/ RunFails \/ RunInterrupted
  <2>1. pc' \notin Measuring \union {"select"} \/ pc' = "return"
    BY <1>13 DEF StartDiagnostics, NextTarget, AppendAttempt, PrepareAttempt, Measure,
     StopAttempt, CloseAttempt, EndDiagnostics, DirectoryExists, DiagnosticsInterrupted,
     Diagnose, Return, Finally, RunFails, RunInterrupted, Goto, Measuring
  <2> QED
    BY <1>1, <1>a, <2>1
<1>14. CASE Repeat
  <2>1. pc' = "prompts" /\ applied' = <<>>
    BY <1>14 DEF Repeat
  <2> QED
    BY <1>3, <2>1
<1>15. CASE ChildDies \/ InterruptDropped \/ Over \/ UNCHANGED vars
  <2>1. UNCHANGED <<pc, pos, plan, applied>>
    BY <1>15 DEF ChildDies, InterruptDropped, Over, vars, resultVars
  <2> QED
    BY <2>1 DEF AppliedInv, SomeEmpty
<1> QED
  BY <1>4, <1>5, <1>6, <1>7, <1>8, <1>9, <1>10, <1>11, <1>12, <1>13, <1>14, <1>15
     DEF Next, Steps

(* A finished trial has the requests and the load that were asked for.     *)
LEMMA NoTrialAlarms ==
    ASSUME PlanInv, PosInv, LoadInv, pc = "trial", TrialDone PROVE TrialAlarms = {}
<1>1. TrialInv /\ Work \in Workloads /\ ValidWorkload(Work)
      /\ Indexes(Work) = 0..(Count(Work) - 1)
  BY WorkIs DEF LoadInv, InTrials
<1>2. collected = 0..(Count(Work) - 1) /\ peak = AtOnce(Work)
  BY <1>1 DEF TrialDone, TrialInv
<1>3. Count(Work) \in Nat /\ AtOnce(Work) = ExpectedPeak(Work)
  BY <1>1, AtOnceIs
<1>4. Cardinality(0..(Count(Work) - 1)) = Count(Work)
  <2>1. 0 \in Int /\ Count(Work) - 1 \in Int
    BY <1>3
  <2>2. Cardinality(0..(Count(Work) - 1)) =
          IF 0 > Count(Work) - 1 THEN 0 ELSE (Count(Work) - 1) - 0 + 1
    BY <2>1, FS_Interval
  <2> QED
    BY <1>3, <2>2
<1> QED
  BY <1>2, <1>3, <1>4 DEF TrialAlarms

(* The only alarm at the end is about executions that were passed over. *)
LEMMA FinalAlarmsAre ==
    ASSUME PlanInv, PosInv, OrderInv, AppliedInv, pc = "final"
    PROVE  FinalAlarms \subseteq {"configuration_order"} /\ (FinalAlarms # {} => SomeEmpty)
<1>1. ~ \E k \in 2..Len(trials) : trials[k].first # trials[k-1].first + trials[k-1].count
  BY DEF OrderInv
<1>2. ~ SomeEmpty => applied = [k \in 1..Len(plan) |-> k]
  <2>1. pos.run = Len(plan) + 1 /\ Len(plan) \in Nat
    BY DEF PosInv, PlanInv
  <2>2. pos.run - 1 = Len(plan)
    BY <2>1
  <2> QED
    BY <2>2 DEF AppliedInv, Measuring, Served
<1> QED
  BY <1>1, <1>2 DEF FinalAlarms

LEMMA AlarmStep ==
    ASSUME ServerInv, PlanInv, PosInv, LoadInv, OrderInv, AppliedInv, AlarmInv, [Next]_vars
    PROVE  AlarmInv'
<1>1. ASSUME alarms' = alarms, plan' = plan \/ alarms = {}, pc' = "select" => pc = "select"
      PROVE  AlarmInv'
  <2>1. plan' = plan => (SomeEmpty' <=> SomeEmpty)
    BY DEF SomeEmpty
  <2> QED
    BY <1>1, <2>1 DEF AlarmInv
<1>2. ASSUME NEW s \in Suites, NEW f \in Focuses, SelectConfiguration(s, f)
      PROVE  AlarmInv'
  <2>1. pc = "select" /\ alarms' = alarms /\ pc' \in {"prompts", "ended"}
    BY <1>2 DEF SelectConfiguration
  <2> QED
    BY <1>1, <2>1 DEF AlarmInv
<1>3. CASE \/ PromptsDone \/ NextExecution \/ Launch \/ Launched \/ BecomesReady
           \/ StopServer \/ Stopped \/ WarmedUp \/ BeginTrial \/ TrialStep \/ Succeed
  <2>1. UNCHANGED <<alarms, plan>>
    BY <1>3 DEF PromptsDone, NextExecution, Launch, Launched, BecomesReady, StopServer,
       Stopped, WarmedUp, BeginTrial, TrialStep, Succeed, resultVars
  <2>2. pc' = "select" => pc = "select"
    BY <1>3 DEF PromptsDone, NextExecution, Launch, Launched, BecomesReady, StopServer,
       Stopped, WarmedUp, BeginTrial, TrialStep, Succeed, Goto
  <2> QED
    BY <1>1, <2>1, <2>2
<1>4. CASE FinishTrial
  <2>1. /\ pc = "trial" /\ TrialDone /\ alarms' = alarms \union TrialAlarms /\ plan' = plan
        /\ pc' \in {"stop", "before"}
    BY <1>4 DEF FinishTrial
  <2>2. alarms' = alarms
    BY <2>1, NoTrialAlarms
  <2> QED
    BY <1>1, <2>1, <2>2
<1>5. ASSUME alarms' = alarms \union FinalAlarms, pc = "final", plan' = plan, pc' # "select"
      PROVE  AlarmInv'
  <2>1. SomeEmpty' <=> SomeEmpty
    BY <1>5 DEF SomeEmpty
  <2> QED
    BY <1>5, <2>1, FinalAlarmsAre DEF AlarmInv
<1>6. CASE Finalize
  <2>1. pc = "final" /\ pc' = "succeed" /\ plan' = plan /\ alarms' = alarms \union FinalAlarms
    BY <1>6 DEF Finalize, Goto
  <2> QED
    BY <1>5, <2>1
<1>7. CASE RunFails
  <2>1. /\ pc' = "finally" /\ plan' = plan
        /\ alarms' = IF pc = "final" THEN alarms \union FinalAlarms ELSE alarms
    BY <1>7 DEF RunFails
  <2>2. CASE pc = "final"
    BY <1>5, <2>1, <2>2
  <2>3. CASE pc # "final"
    BY <1>1, <2>1, <2>3
  <2> QED
    BY <2>2, <2>3
<1>8. CASE \/ StartDiagnostics \/ NextTarget \/ AppendAttempt \/ PrepareAttempt
           \/ (\E s \in {"running", "failed"} : Measure(s))
           \/ StopAttempt \/ (\E complete \in BOOLEAN : CloseAttempt(complete))
           \/ EndDiagnostics \/ DirectoryExists \/ DiagnosticsInterrupted
           \/ Diagnose \/ Return \/ Finally \/ RunInterrupted
  <2>1. UNCHANGED <<alarms, plan>>
    BY <1>8 DEF StartDiagnostics, NextTarget, AppendAttempt, PrepareAttempt, Measure,
     StopAttempt, CloseAttempt, EndDiagnostics, DirectoryExists, DiagnosticsInterrupted,
     Diagnose, Return, Finally, RunInterrupted, resultVars
  <2>2. pc' = "select" => pc = "select"
    BY <1>8 DEF StartDiagnostics, NextTarget, AppendAttempt, PrepareAttempt, Measure,
     StopAttempt, CloseAttempt, EndDiagnostics, DirectoryExists, DiagnosticsInterrupted,
     Diagnose, Return, Finally, RunInterrupted, Goto
  <2> QED
    BY <1>1, <2>1, <2>2
<1>9. CASE Repeat
  <2>1. pc' = "prompts" /\ alarms' = {} 
    BY <1>9 DEF Repeat
  <2> QED
    BY <2>1 DEF AlarmInv
<1>10. CASE ChildDies \/ InterruptDropped \/ Over \/ UNCHANGED vars
  <2>1. UNCHANGED <<alarms, plan, pc>>
    BY <1>10 DEF ChildDies, InterruptDropped, Over, vars, resultVars
  <2> QED
    BY <1>1, <2>1
<1> QED
  BY <1>2, <1>3, <1>4, <1>6, <1>7, <1>8, <1>9, <1>10 DEF Next, Steps

-----------------------------------------------------------------------------
(* The types that TypeOK states and no part above does. *)
ExitInv ==
    /\ status \in {"none", "running", "succeeded", "failed", "interrupted"}
    /\ exit \in {-1, 0, 1, 50, 130}

LEMMA ExitStep == ExitInv /\ [Next]_vars => ExitInv'
<1> SUFFICES ASSUME ExitInv, [Next]_vars PROVE ExitInv'
  OBVIOUS
<1>1. status' = status \/ status' \in {"none", "running", "succeeded", "failed", "interrupted"}
  <2>1. ASSUME NEW s \in Suites, NEW f \in Focuses, SelectConfiguration(s, f)
        PROVE  status' \in {"none", "running"}
    BY <2>1 DEF SelectConfiguration
  <2>2. CASE Succeed \/ RunFails \/ RunInterrupted \/ Repeat
    BY <2>2 DEF Succeed, RunFails, RunInterrupted, Repeat
  <2>3. CASE \/ PromptsDone \/ NextExecution \/ Launch \/ Launched \/ BecomesReady
             \/ StopServer \/ Stopped \/ WarmedUp \/ BeginTrial \/ TrialStep
             \/ FinishTrial \/ Finalize
    BY <2>3 DEF PromptsDone, NextExecution, Launch, Launched, BecomesReady, StopServer,
       Stopped, WarmedUp, BeginTrial, TrialStep, FinishTrial, Finalize, resultVars
  <2>4. CASE \/ StartDiagnostics \/ NextTarget \/ AppendAttempt \/ PrepareAttempt
             \/ (\E s \in {"running", "failed"} : Measure(s))
             \/ StopAttempt \/ (\E complete \in BOOLEAN : CloseAttempt(complete))
             \/ EndDiagnostics \/ DirectoryExists \/ DiagnosticsInterrupted
             \/ Diagnose \/ Return \/ Finally
    BY <2>4 DEF StartDiagnostics, NextTarget, AppendAttempt, PrepareAttempt, Measure,
     StopAttempt, CloseAttempt, EndDiagnostics, DirectoryExists, DiagnosticsInterrupted,
     Diagnose, Return, Finally, resultVars
  <2>5. CASE ChildDies \/ InterruptDropped \/ Over \/ UNCHANGED vars
    BY <2>5 DEF ChildDies, InterruptDropped, Over, vars, resultVars
  <2> QED
    BY <2>1, <2>2, <2>3, <2>4, <2>5 DEF Next, Steps
<1>2. exit' = exit \/ exit' \in {-1, 0, 1, 50, 130}
  <2>1. ASSUME NEW s \in Suites, NEW f \in Focuses, SelectConfiguration(s, f)
        PROVE  exit' \in {-1, 50}
    BY <2>1 DEF SelectConfiguration
  <2>2. CASE \/ EndDiagnostics \/ DirectoryExists \/ RunFails \/ RunInterrupted
             \/ DiagnosticsInterrupted \/ Return \/ Repeat \/ Diagnose
    BY <2>2 DEF EndDiagnostics, DirectoryExists, RunFails, RunInterrupted,
       DiagnosticsInterrupted, Return, Repeat, Diagnose
  <2>3. CASE \/ PromptsDone \/ NextExecution \/ Launch \/ Launched \/ BecomesReady
             \/ StopServer \/ Stopped \/ WarmedUp \/ BeginTrial \/ TrialStep
             \/ FinishTrial \/ Finalize \/ Succeed
    BY <2>3 DEF PromptsDone, NextExecution, Launch, Launched, BecomesReady, StopServer,
       Stopped, WarmedUp, BeginTrial, TrialStep, FinishTrial, Finalize, Succeed
  <2>4. CASE \/ StartDiagnostics \/ NextTarget \/ AppendAttempt \/ PrepareAttempt
             \/ (\E s \in {"running", "failed"} : Measure(s))
             \/ StopAttempt \/ (\E complete \in BOOLEAN : CloseAttempt(complete))
             \/ Finally
    BY <2>4 DEF StartDiagnostics, NextTarget, AppendAttempt, PrepareAttempt, Measure,
     StopAttempt, CloseAttempt, Finally
  <2>5. CASE ChildDies \/ InterruptDropped \/ Over \/ UNCHANGED vars
    BY <2>5 DEF ChildDies, InterruptDropped, Over, vars
  <2> QED
    BY <2>1, <2>2, <2>3, <2>4, <2>5 DEF Next, Steps
<1> QED
  BY <1>1, <1>2 DEF ExitInv

MeasurementInv == /\ RecordsInv /\ LoadInv /\ OrderInv /\ AppliedInv /\ AlarmInv
                  /\ ExitInv

(***************************************************************************)
(* The inductive invariant of the whole command: what the results say and, *)
(* during a trial, how many requests are under way, which connection each  *)
(* one has and what the connections owe (loadgen.py, _AsyncHttpPool and    *)
(* _execute_trial).                                                        *)
(***************************************************************************)
THEOREM MeasurementInvariant == Spec => []MeasurementInv
<1>1. Init => MeasurementInv
  <2> SUFFICES ASSUME Init PROVE MeasurementInv
    OBVIOUS
  <2>1. RecordsInv
    BY ServerInit, DiagInit, PlanInit, PosInit, RecordInit, KeyInit, CompleteInit
       DEF RecordsInv
  <2>2. OrderInv
    BY OrderOfNone DEF Init
  <2>3. ExitInv
    BY DEF Init, ExitInv
  <2> QED
    BY <2>1, <2>2, <2>3, LoadInit, AppliedInit DEF MeasurementInv
<1>2. MeasurementInv /\ [Next]_vars => MeasurementInv'
  <2> SUFFICES ASSUME MeasurementInv, [Next]_vars PROVE MeasurementInv'
    OBVIOUS
  <2>1. RecordsInv'
    BY ServerStep, DiagTypeStep, PlanStep, PosStep, RecordStep, KeyStep, CompleteStep
       DEF MeasurementInv, RecordsInv
  <2>2. LoadInv' /\ OrderInv' /\ AppliedInv' /\ AlarmInv' /\ ExitInv'
    BY LoadStep, OrderStep, AppliedStep, AlarmStep, ExitStep DEF MeasurementInv, RecordsInv
  <2> QED
    BY <2>1, <2>2 DEF MeasurementInv
<1> QED
  BY <1>1, <1>2, PTL DEF Spec

LEMMA MeasurementIsSound ==
    ASSUME MeasurementInv PROVE TrialSound
<1>1. ServerInv /\ PlanInv /\ PosInv /\ LoadInv /\ PoolInv /\ AlarmInv /\ ExitInv
  BY DEF MeasurementInv, RecordsInv, LoadInv
<1>2. /\ \A i \in DOMAIN task : task[i] \in TaskStates
      /\ Cardinality(Busy) <= limit
      /\ \A i \in DOMAIN task :
           /\ task[i] = "submitted" => Cardinality(Busy) < limit
           /\ task[i] = "succeeded" => got[i] = i
           /\ task[i] = "sent" => due[conn[i]] = <<i>>
  <2>1. CASE pc = "trial"
    <3>1. TrialInv /\ load \in Workloads /\ ValidWorkload(load) /\ Concurrency(load) <= limit
      <4>1. TrialInv /\ load = Work
        BY <1>1, <2>1 DEF LoadInv, TrialInv
      <4> QED
        BY <1>1, <2>1, <4>1, WorkIs DEF PoolInv, InTrials
    <3>2. /\ IsFiniteSet(Busy) /\ Cardinality(Busy) <= limit
          /\ \A i \in DOMAIN task : task[i] = "submitted" => Cardinality(Busy) < limit
      BY <1>1, <3>1, BusyBound DEF PoolInv
    <3> QED
      BY <3>1, <3>2 DEF TrialInv
  <2>2. CASE pc # "trial"
    <3>1. task = <<>>
      BY <1>1, <2>2 DEF LoadInv, NoTrial
    <3>2. DOMAIN task = {}
      BY <3>1
    <3>3. Busy = {}
      BY <3>2 DEF Busy
    <3>4. Cardinality(Busy) = 0 /\ limit \in Nat
      BY <1>1, <3>3, FS_EmptySet DEF PoolInv
    <3> QED
      BY <3>2, <3>4
  <2> QED
    BY <2>1, <2>2
<1>3. ToSet(idle) \subseteq Connections /\ IsInjective(idle)
      /\ \A k \in 1..Len(idle) : due[idle[k]] = <<>>
  BY <1>1, ToSetIs DEF PoolInv
<1>4. \A k \in 1..Len(idle) : idle[k] \notin Busy
  <2> SUFFICES ASSUME NEW k \in 1..Len(idle), idle[k] \in Busy PROVE FALSE
    OBVIOUS
  <2>1. PICK i \in DOMAIN task : task[i] = "sent" /\ idle[k] = conn[i]
    BY DEF Busy
  <2>2. due[idle[k]] = <<i>> /\ due[idle[k]] = <<>>
    BY <1>2, <1>3, <2>1
  <2>3. <<i>> # <<>>
    OBVIOUS
  <2> QED
    BY <2>2, <2>3, Zenon
<1>5. TypeOK
  BY <1>1, <1>2, <1>3 DEF TypeOK, ServerInv, ExitInv
<1>6. alarms \subseteq {"configuration_order"}
      /\ (alarms # {} => \E k \in 1..Len(plan) : plan[k].workloads = <<>>)
  BY <1>1 DEF AlarmInv, SomeEmpty
<1> QED
  BY <1>2, <1>3, <1>4, <1>5, <1>6 DEF TrialSound

(***************************************************************************)
(* For every set of workloads and every pool: the server gets exactly the  *)
(* load that was asked for, a request never waits for a connection, every  *)
(* answer reaches the request it belongs to, and the tool's own checks of  *)
(* its results raise no alarm except about executions that a focus left    *)
(* empty (loadgen.py, _validate_completed_trial, _validate_final_results). *)
(***************************************************************************)
THEOREM LoadIsAsAsked == Spec => []TrialSound
<1>1. MeasurementInv => TrialSound
  BY MeasurementIsSound
<1> QED
  BY <1>1, MeasurementInvariant, PTL

=============================================================================
