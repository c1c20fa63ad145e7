-------------------------- MODULE TextBatchProofs --------------------------
(***************************************************************************)
(* Proofs about TextBatch: the scheduler and the generator agree, what is  *)
(* streamed is the text, and the store of prompt caches stays sound.       *)
(***************************************************************************)
EXTENDS TextBatch, FiniteSetTheorems, SequenceTheorems, NaturalsInduction,
        WellFoundedInduction, TLAPS

(* A nonempty set of natural numbers has a least member. *)
LEMMA LeastNatural ==
    ASSUME NEW T \in SUBSET Nat, T # {}
    PROVE  \E m \in T : \A n \in T : m <= n
<1> DEFINE R == OpToRel(<, Nat)
<1>1. \A m, n \in T : n < m => <<n, m>> \in R
  BY DEF OpToRel
<1>2. IsWellFoundedOn(R, Nat)
  BY NatLessThanWellFounded
<1> HIDE DEF R
<1>3. PICK m \in T : \A n \in T : ~ (<<n, m>> \in R)
  BY <1>2, WFMin
<1>4. ASSUME NEW n \in T PROVE m <= n
  <2>1. ~ (n < m)
    BY <1>1, <1>3
  <2> QED
    BY <2>1
<1> QED
  BY <1>4

(* Min of such a set is its least member. *)
LEMMA MinOfNaturals ==
    ASSUME NEW T \in SUBSET Nat, T # {}
    PROVE  Min(T) \in T /\ \A n \in T : Min(T) <= n
  BY LeastNatural DEF Min

(* Max of a finite set that has a greatest member. *)
LEMMA MaxIs ==
    ASSUME NEW T \in SUBSET Nat, NEW m \in T, \A n \in T : n <= m
    PROVE  Max(T) = m
<1>1. Max(T) \in T /\ \A n \in T : Max(T) >= n
  BY DEF Max
<1>2. Max(T) >= m /\ Max(T) <= m /\ Max(T) \in Nat /\ m \in Nat
  BY <1>1
<1> HIDE DEF Max
<1> QED
  BY <1>2

(* Max of a nonempty set of indexes is one of them. *)
LEMMA MaxMember ==
    ASSUME NEW N \in Nat, NEW d \in SUBSET (1..N), d # {}
    PROVE  Max(d) \in d
<1> DEFINE U == {u \in Nat : \E i \in d : u = N - i}
<1>1. \A i \in d : N - i \in Nat /\ i \in Nat
  OBVIOUS
<1>2. U \in SUBSET Nat /\ U # {} /\ \A j \in d : N - j \in U
  BY <1>1
<1>3. PICK u \in U : \A v \in U : u <= v
  BY <1>2, LeastNatural
<1>4. PICK i \in d : u = N - i
  BY <1>3
<1> HIDE DEF U
<1>5. ASSUME NEW j \in d PROVE j <= i
  <2>1. N - i <= N - j /\ i \in Nat /\ j \in Nat
    BY <1>1, <1>2, <1>3, <1>4
  <2> QED
    BY <2>1
<1> QED
  BY <1>1, <1>4, <1>5, MaxIs

(* The values of a fold over the first n indexes, and any set of indexes. *)
IsFold(g, N, A, base, step) ==
    /\ g \in [SUBSET (1..N) -> A]
    /\ g[{}] = base
    /\ \A d \in SUBSET (1..N) : d # {} => g[d] = step[Max(d)][g[d \ {Max(d)}]]

(***************************************************************************)
(* The recursion behind FoldLeft is well-founded: there is a function that *)
(* satisfies it, whatever the steps do.                                    *)
(***************************************************************************)
LEMMA FoldExists ==
    ASSUME NEW N \in Nat, NEW A, NEW base \in A,
           NEW step \in [1..N -> [A -> A]]
    PROVE  \E g : IsFold(g, N, A, base, step)
<1> DEFINE Good(n, g) ==
      /\ g[{}] = base
      /\ \A d \in SUBSET (1..n) : d # {} => g[d] = step[Max(d)][g[d \ {Max(d)}]]
           Has(n) == \E g \in [SUBSET (1..n) -> A] : Good(n, g)
           T == {n \in 0..N : ~ Has(n)}
<1>a. Has(N) => \E g : IsFold(g, N, A, base, step)
  BY Zenon DEF IsFold
<1>b. \A n \in 0..N : n \notin T => Has(n)
  BY Zenon
<1>c. T \in SUBSET Nat /\ N \in 0..N
  BY SMT
<1>d. \A n \in T : ~ Has(n) /\ n \in 0..N
  BY Zenon
<1>e. ASSUME NEW n, NEW g \in [SUBSET (1..n) -> A], Good(n, g) PROVE Has(n)
  BY <1>e, Zenon
<1>f. ASSUME NEW n, Has(n) PROVE \E g \in [SUBSET (1..n) -> A] : Good(n, g)
  BY <1>f, Zenon
<1> HIDE DEF T, Has
<1>1. SUFFICES ASSUME T # {} PROVE FALSE
  BY <1>a, <1>b, <1>c, Zenon
<1>2. PICK m \in T : \A n \in T : m <= n
  BY <1>1, <1>c, LeastNatural
<1>3. m # 0
  <2> SUFFICES ASSUME m = 0 PROVE FALSE
    OBVIOUS
  <2> DEFINE g == [d \in SUBSET (1..0) |-> base]
  <2>1. SUBSET (1..0) = {{}}
    OBVIOUS
  <2>2. g \in [SUBSET (1..0) -> A] /\ Good(0, g)
    BY <2>1
  <2>3. Has(0)
    BY <2>2, <1>e
  <2> QED
    BY <2>3, <1>d
<1>4. m \in 1..N /\ m - 1 \in 0..N /\ m - 1 < m /\ m \in Nat /\ m - 1 \in Nat
  <2>1. m \in 0..N
    BY <1>d
  <2> QED
    BY <2>1, <1>3
<1>5. PICK g \in [SUBSET (1..(m-1)) -> A] : Good(m - 1, g)
  <2>1. m - 1 \notin T
    BY <1>2, <1>4
  <2>2. Has(m - 1)
    BY <2>1, <1>4, <1>b
  <2> QED
    BY <2>2, <1>f
<1> DEFINE S == SUBSET (1..(m-1))
           h == [d \in SUBSET (1..m) |-> IF d \in S THEN g[d]
                                         ELSE step[m][g[d \ {m}]]]
<1>6. \A d \in SUBSET (1..m) : d \notin S => m \in d /\ d \ {m} \in S /\ Max(d) = m
  <2> SUFFICES ASSUME NEW d \in SUBSET (1..m), d \notin S
               PROVE  m \in d /\ d \ {m} \in S /\ Max(d) = m
    OBVIOUS
  <2>1. m \in d /\ d \ {m} \in S
    BY <1>4
  <2>2. Max(d) = m
    BY <2>1, <1>4, MaxIs
  <2> QED
    BY <2>1, <2>2
<1>7. h \in [SUBSET (1..m) -> A]
  BY <1>4, <1>6
<1>8. \A d \in S : d \in SUBSET (1..m) /\ h[d] = g[d]
  BY <1>4
<1>9. \A d \in S : d # {} => Max(d) \in d
  BY <1>4, MaxMember
<1>10. Good(m, h)
  <2>1. h[{}] = base
    BY <1>5, <1>8
  <2>2. ASSUME NEW d \in SUBSET (1..m), d # {}
        PROVE h[d] = step[Max(d)][h[d \ {Max(d)}]]
    <3>1. CASE d \in S
      BY <3>1, <2>2, <1>5, <1>8, <1>9
    <3>2. CASE d \notin S
      BY <3>2, <1>6, <1>8
    <3> QED
      BY <3>1, <3>2
  <2> QED
    BY <2>1, <2>2
<1> HIDE DEF h, Good
<1>11. Has(m)
  BY <1>e, <1>7, <1>10
<1> QED
  BY <1>d, <1>11

(* The last index of a sequence and the indexes before it. *)
LEMMA LastIndex ==
    ASSUME NEW n \in Nat \ {0}
    PROVE  Max(1..n) = n /\ (1..n) \ {n} = 1..(n - 1)
<1>1. Max(1..n) = n
  BY MaxIs
<1> QED
  BY <1>1

(***************************************************************************)
(* What holds of the base and is kept by every step of a fold holds of its *)
(* result.                                                                 *)
(***************************************************************************)
LEMMA FoldInduction ==
    ASSUME NEW N \in Nat, NEW A, NEW it, it[{}] \in A,
           \A n \in 1..N : it[1..(n - 1)] \in A => it[1..n] \in A
    PROVE  it[1..N] \in A
<1> DEFINE T == {n \in 0..N : it[1..n] \notin A}
<1>1. SUFFICES ASSUME T # {} PROVE FALSE
  BY N \in 0..N
<1>2. T \in SUBSET Nat
  OBVIOUS
<1>3. PICK m \in T : \A n \in T : m <= n
  BY <1>1, <1>2, LeastNatural
<1>4. m \in 0..N /\ it[1..m] \notin A
  BY <1>3
<1>5. m # 0
  <2>1. 1..0 = {}
    OBVIOUS
  <2> QED
    BY <1>4, <2>1
<1>6. m \in 1..N /\ m - 1 \in 0..N /\ ~ (m <= m - 1)
  BY <1>4, <1>5
<1>7. m - 1 \notin T
  BY <1>3, <1>6
<1>8. it[1..(m - 1)] \in A
  BY <1>6, <1>7
<1> QED
  BY <1>4, <1>6, <1>8

-----------------------------------------------------------------------------
(* The prompt cache. *)

(* What a request may be given from the store for a prompt. *)
Matches(p) ==
    {m \in [kind : {"none", "exact", "shorter", "trimmed"},
            tokens : Seq(Tokens), rows : Seq(Tokens)] :
       /\ Len(m.tokens) <= Len(p) /\ IsPrefix(m.tokens, p)
       /\ AllTokens => Len(m.rows) = Len(m.tokens)}

(* The entries the store may hold. *)
SoundEntries ==
    {e \in Entries({<<>>}, Seq(Tokens), Seq(Tokens)) :
       AllTokens => Len(e.rows) = Len(e.tokens)}

LEMMA NoMatchMatches ==
    ASSUME NEW p \in Seq(Tokens) PROVE NoMatch \in Matches(p)
<1>1. IsPrefix(<<>>, p)
  BY DEF IsPrefix
<1> QED
  BY <1>1 DEF NoMatch, Matches

LEMMA CommonPrefixBounds ==
    ASSUME NEW s \in Seq(Tokens), NEW t \in Seq(Tokens)
    PROVE  /\ CommonPrefix(s, t) \in 0..Len(s)
           /\ SubSeq(s, 1, CommonPrefix(s, t)) = SubSeq(t, 1, CommonPrefix(s, t))
<1> DEFINE M == Min({Len(s), Len(t)})
           C == {n \in 0..M : SubSeq(s, 1, n) = SubSeq(t, 1, n)}
           U == {u \in Nat : \E n \in C : u = M - n}
<1>1. M \in Nat /\ M <= Len(s)
  BY MinOfNaturals, {Len(s), Len(t)} \in SUBSET Nat, {Len(s), Len(t)} # {},
     Len(s) \in {Len(s), Len(t)}
<1> HIDE DEF M
<1>2. 0 \in C
  BY <1>1
<1>3. C \in SUBSET (0..M)
  OBVIOUS
<1>4. CommonPrefix(s, t) = Max(C)
  BY DEF CommonPrefix, M
<1>c. \A k \in C : SubSeq(s, 1, k) = SubSeq(t, 1, k)
  OBVIOUS
<1> HIDE DEF C
<1>5. M - 0 \in U
  BY <1>1, <1>2
<1>6. PICK u \in U : \A v \in U : u <= v
  BY <1>5, LeastNatural
<1>7. PICK n \in C : u = M - n
  BY <1>6
<1>8. ASSUME NEW k \in C PROVE k <= n
  <2>1. k \in Nat /\ n \in Nat /\ M - k \in Nat
    BY <1>1, <1>3
  <2>2. M - n <= M - k
    BY <1>6, <1>7, <2>1
  <2> QED
    BY <1>1, <2>1, <2>2
<1>9. Max(C) = n
  BY <1>1, <1>3, <1>8, MaxIs
<1> QED
  BY <1>1, <1>3, <1>4, <1>9, <1>c

(* A sequence cut at the end. *)
LEMMA CutTail ==
    ASSUME NEW S, NEW s \in Seq(S), NEW n \in Int, n <= Len(s)
    PROVE  /\ SubSeq(s, 1, n) \in Seq(S)
           /\ n >= 0 => Len(SubSeq(s, 1, n)) = n
  OBVIOUS

(* A sequence cut at the front. *)
LEMMA CutFront ==
    ASSUME NEW S, NEW s \in Seq(S), NEW n \in 0..Len(s)
    PROVE  /\ SubSeq(s, n + 1, Len(s)) \in Seq(S)
           /\ Len(SubSeq(s, n + 1, Len(s))) = Len(s) - n
  OBVIOUS

(* What one entry offers for a prompt is a sound match. *)
LEMMA CandidateMatches ==
    ASSUME NEW e \in SoundEntries, NEW p \in Seq(Tokens), p # <<>>
    PROVE  Candidate(e, <<>>, p) \in Matches(p)
<1> DEFINE common == CommonPrefix(e.tokens, p)
           n == Reusable(common, p)
<1>1. /\ e.tokens \in Seq(Tokens) /\ e.rows \in Seq(Tokens)
      /\ AllTokens => Len(e.rows) = Len(e.tokens)
  BY DEF SoundEntries, Entries
<1>2. /\ common \in 0..Len(e.tokens)
      /\ SubSeq(e.tokens, 1, common) = SubSeq(p, 1, common)
  BY <1>1, CommonPrefixBounds
<1>3. Len(p) \in Nat /\ Len(p) > 0 /\ Len(e.tokens) \in Nat /\ Len(e.rows) \in Nat
  BY <1>1
<1> HIDE DEF common
<1>4. n \in Nat /\ n <= common /\ n <= Len(p) - 1
  <2> DEFINE T == {common, Len(p) - 1}
  <2>1. T \in SUBSET Nat /\ T # {} /\ common \in T /\ Len(p) - 1 \in T
    BY <1>2, <1>3
  <2>2. n = Min(T)
    BY DEF Reusable
  <2> HIDE DEF T, n
  <2> QED
    BY <2>1, <2>2, MinOfNaturals
<1> HIDE DEF n
<1> DEFINE a == [kind |-> "exact", tokens |-> p, rows |-> e.rows]
           b == [kind |-> "shorter", tokens |-> e.tokens, rows |-> e.rows]
           c == [kind |-> "trimmed", tokens |-> SubSeq(p, 1, n),
                 rows |-> Trim(e.rows, Len(e.tokens) - n)]
<1>a. IsPrefix(p, p)
  BY <1>3 DEF IsPrefix
<1>5. e.tokens = p => a \in Matches(p)
  BY <1>1, <1>3, <1>a DEF Matches
<1>6. ASSUME Len(e.tokens) < Len(p), common = Len(e.tokens)
      PROVE  b \in Matches(p)
  <2>1. IsPrefix(e.tokens, p)
    BY <1>2, <1>3, <1>6 DEF IsPrefix
  <2> QED
    BY <1>1, <1>3, <1>6, <2>1 DEF Matches
<1>7. c \in Matches(p)
  <2>1. SubSeq(p, 1, n) \in Seq(Tokens) /\ Len(SubSeq(p, 1, n)) = n
    BY <1>3, <1>4, CutTail
  <2> DEFINE k == Len(e.rows) - (Len(e.tokens) - n)
  <2>a. n \in Nat /\ n <= Len(e.tokens)
    BY <1>2, <1>3, <1>4
  <2>2. k \in Int /\ k <= Len(e.rows) /\ (Len(e.rows) = Len(e.tokens) => k = n)
    BY <2>a, <1>3
  <2>3. Trim(e.rows, Len(e.tokens) - n) = SubSeq(e.rows, 1, k)
    BY DEF Trim
  <2> HIDE DEF k
  <2>4. /\ SubSeq(e.rows, 1, k) \in Seq(Tokens)
        /\ AllTokens => Len(SubSeq(e.rows, 1, k)) = n
    BY <1>1, <1>4, <2>2, CutTail
  <2>5. n <= Len(p)
    BY <1>3, <1>4
  <2>6. IsPrefix(SubSeq(p, 1, n), p)
    BY <2>1, <2>5, <2>a DEF IsPrefix
  <2> QED
    BY <2>1, <2>3, <2>4, <2>5, <2>6 DEF Matches
<1>8. NoMatch \in Matches(p)
  BY NoMatchMatches
<1>9. \/ Candidate(e, <<>>, p) = NoMatch
      \/ e.tokens = p /\ Candidate(e, <<>>, p) = a
      \/ /\ Len(e.tokens) < Len(p) /\ common = Len(e.tokens)
         /\ Candidate(e, <<>>, p) = b
      \/ Candidate(e, <<>>, p) = c
  BY DEF Candidate, common, n
<1> HIDE DEF a, b, c
<1> QED
  BY <1>5, <1>6, <1>7, <1>8, <1>9

(* Every lookup gives a sound match. *)
LEMMA LookupMatches ==
    ASSUME NEW s \in Seq(SoundEntries), NEW p \in Seq(Tokens), p # <<>>
    PROVE  Lookup(s, <<>>, p) \in Matches(p)
<1> DEFINE A == Matches(p)
           N == Len(s)
           q == Reverse(s)
           Better(best, e) ==
             LET c == Candidate(e, <<>>, p) IN
             IF c.kind # "none"
                /\ (best.kind = "none" \/ Len(c.tokens) > Len(best.tokens))
             THEN c ELSE best
           step == [n \in 1..N |-> [best \in A |-> Better(best, q[n])]]
<1>1. N \in Nat /\ q \in [1..N -> SoundEntries] /\ DOMAIN q = 1..N
  BY DEF Reverse
<1> HIDE DEF q, N
<1>2. \A best \in A, n \in 1..N : Better(best, q[n]) \in A
  <2> SUFFICES ASSUME NEW best \in A, NEW n \in 1..N PROVE Better(best, q[n]) \in A
    OBVIOUS
  <2>1. Candidate(q[n], <<>>, p) \in A
    BY <1>1, CandidateMatches
  <2> QED
    BY <2>1
<1>3. NoMatch \in A
  BY NoMatchMatches
<1> HIDE DEF A
<1>4. Lookup(s, <<>>, p) = FoldLeft(Better, NoMatch, q)
  BY DEF Lookup, q
<1>5. step \in [1..N -> [A -> A]]
  BY <1>2
<1>s. \A n \in 1..N, best \in A : step[n][best] = Better(best, q[n])
  OBVIOUS
<1> HIDE DEF step
<1>6. PICK g : IsFold(g, N, A, NoMatch, step)
  BY <1>1, <1>3, <1>5, FoldExists
<1> HIDE DEF Better
<1>7. g = [d \in SUBSET (1..N) |-> IF d = {} THEN NoMatch
                                  ELSE Better(g[d \ {Max(d)}], q[Max(d)])]
  <2>1. ASSUME NEW d \in SUBSET (1..N), d # {}
        PROVE  g[d] = Better(g[d \ {Max(d)}], q[Max(d)])
    <3>1. Max(d) \in 1..N /\ d \ {Max(d)} \in SUBSET (1..N)
      BY <2>1, <1>1, MaxMember
    <3>2. g[d \ {Max(d)}] \in A
      BY <3>1, <1>6 DEF IsFold
    <3> QED
      BY <2>1, <3>1, <3>2, <1>6, <1>s DEF IsFold
  <2> QED
    BY <2>1, <1>6 DEF IsFold
<1>8. PICK it :
        /\ it = [d \in SUBSET (1..N) |-> IF d = {} THEN NoMatch
                                         ELSE Better(it[d \ {Max(d)}], q[Max(d)])]
        /\ FoldLeft(Better, NoMatch, q) = it[1..N]
  BY <1>1, <1>7, Zenon DEF FoldLeft, MapThenFoldSet
<1>9. it[{}] \in A
  BY <1>3, <1>8
<1>10. ASSUME NEW n \in 1..N, it[1..(n - 1)] \in A PROVE it[1..n] \in A
  <2>0. n \in Nat \ {0} /\ n \in 1..n
    BY <1>1
  <2>1. Max(1..n) = n /\ (1..n) \ {n} = 1..(n - 1) /\ 1..n # {}
    BY <2>0, LastIndex
  <2>2. 1..n \in SUBSET (1..N)
    BY <1>1
  <2>3. it[1..n] = Better(it[1..(n - 1)], q[n])
    BY <1>8, <2>1, <2>2
  <2> QED
    BY <1>2, <1>10, <2>3
<1>11. it[1..N] \in A
  <2>1. N \in Nat
    BY <1>1
  <2> QED
    BY <2>1, <1>9, <1>10, FoldInduction, Zenon
<1> QED
  BY <1>4, <1>8, <1>11, Zenon DEF A

(* No two entries have the same key. *)
OneEntryPerKey(s) ==
    \A i, j \in 1..Len(s) : s[i].tokens = s[j].tokens => i = j

SoundStores ==
    {s \in Seq(SoundEntries) : Within(s) /\ OneEntryPerKey(s)}

LEMMA TotalOfNone ==
    ASSUME NEW sizes, DOMAIN sizes = {} PROVE Total(sizes) = 0
<1> DEFINE Plus(n, size) == n + size
           B(it) == [d \in SUBSET DOMAIN sizes |-> IF d = {} THEN 0
                       ELSE Plus(it[d \ {Max(d)}], sizes[Max(d)])]
           g == [d \in SUBSET DOMAIN sizes |-> 0]
<1>1. g = B(g)
  OBVIOUS
<1>2. Total(sizes) = FoldLeft(Plus, 0, sizes)
  BY DEF Total
<1> HIDE DEF Plus
<1>3. \E it : it = B(it) /\ FoldLeft(Plus, 0, sizes) = it[DOMAIN sizes]
  BY <1>1, Zenon DEF FoldLeft, MapThenFoldSet
<1>4. PICK it : it = B(it) /\ FoldLeft(Plus, 0, sizes) = it[DOMAIN sizes]
  BY <1>3
<1>5. it[{}] = 0
  BY <1>4
<1> QED
  BY <1>2, <1>4, <1>5

LEMMA BytesOfNone == Bytes(<<>>) = 0
<1>1. DOMAIN [i \in 1..Len(<<>>) |-> Len(<<>>[i].rows)] = {}
  OBVIOUS
<1> QED
  BY <1>1, TotalOfNone DEF Bytes

LEMMA WithinNone == Within(<<>>)
  BY BytesOfNone, PromptCacheAssumption DEF Within

(* remember's eviction ends within the limits, with the newest entries. *)
LEMMA FittedWithin ==
    ASSUME NEW E, NEW s \in Seq(E)
    PROVE  /\ Within(Fitted(s))
           /\ \E n \in 0..Len(s) : Fitted(s) = SubSeq(s, n + 1, Len(s))
<1> DEFINE T == {k \in 0..Len(s) : Within(SubSeq(s, k + 1, Len(s)))}
<1>1. SubSeq(s, Len(s) + 1, Len(s)) = <<>>
  OBVIOUS
<1>2. Len(s) \in T
  <2>1. Len(s) \in 0..Len(s)
    OBVIOUS
  <2> QED
    BY <1>1, <2>1, WithinNone
<1>3. T \in SUBSET Nat
  OBVIOUS
<1>4. Min(T) \in T
  BY <1>2, <1>3, MinOfNaturals
<1>5. Fitted(s) = SubSeq(s, Min(T) + 1, Len(s))
  BY DEF Fitted
<1> QED
  BY <1>4, <1>5

(* A store without one entry has the entries at the other places. *)
LEMMA RemoveAtEntries ==
    ASSUME NEW E, NEW s \in Seq(E), NEW k \in 1..Len(s)
    PROVE  /\ RemoveAt(s, k) \in Seq(E)
           /\ Len(RemoveAt(s, k)) = Len(s) - 1
           /\ \A i \in 1..(Len(s) - 1) :
                RemoveAt(s, k)[i] = IF i < k THEN s[i] ELSE s[i + 1]
<1> DEFINE a == SubSeq(s, 1, k - 1)
           b == SubSeq(s, k + 1, Len(s))
<1>1. a \in Seq(E) /\ Len(a) = k - 1 /\ \A i \in 1..(k - 1) : a[i] = s[i]
  OBVIOUS
<1>2. b \in Seq(E) /\ Len(b) = Len(s) - k /\ \A i \in 1..(Len(s) - k) : b[i] = s[k + i]
  OBVIOUS
<1>3. RemoveAt(s, k) = a \o b
  BY DEF RemoveAt
<1>0. Len(s) \in Nat /\ k \in Nat /\ k >= 1 /\ k <= Len(s)
  OBVIOUS
<1> HIDE DEF a, b
<1>4. a \o b \in Seq(E) /\ Len(a \o b) = Len(s) - 1
  <2>1. a \o b \in Seq(E) /\ Len(a \o b) = Len(a) + Len(b)
    BY <1>1, <1>2, ConcatProperties
  <2>2. (k - 1) + (Len(s) - k) = Len(s) - 1
    BY <1>0
  <2> QED
    BY <1>1, <1>2, <2>1, <2>2
<1>5. ASSUME NEW i \in 1..(Len(s) - 1)
      PROVE (a \o b)[i] = IF i < k THEN s[i] ELSE s[i + 1]
  <2>1. CASE i < k
    BY <1>0, <1>1, <1>2, <2>1
  <2>2. CASE ~ (i < k)
    <3>1. (a \o b)[i] = b[i - (k - 1)]
      BY <1>0, <1>1, <1>2, <2>2
    <3>2. i - (k - 1) \in 1..(Len(s) - k) /\ k + (i - (k - 1)) = i + 1
      BY <1>0, <2>2
    <3> QED
      BY <1>2, <2>2, <3>1, <3>2
  <2> QED
    BY <2>1, <2>2
<1> QED
  BY <1>3, <1>4, <1>5

(* The store without the entry of a key. *)
Popped(s, key) ==
    RemoveFirstMatch(s, LAMBDA e : e.ns = <<>> /\ e.tokens = key)

LEMMA PoppedEntry ==
    ASSUME NEW E, NEW s \in Seq(E), NEW key
    PROVE  LET u == Popped(s, key)
           IN \/ u = s /\ \A i \in 1..Len(s) : ~ (s[i].ns = <<>> /\ s[i].tokens = key)
              \/ \E k \in 1..Len(s) : /\ s[k].ns = <<>> /\ s[k].tokens = key
                                      /\ u = RemoveAt(s, k)
<1> DEFINE T == {i \in 1..Len(s) : s[i].ns = <<>> /\ s[i].tokens = key}
           u == Popped(s, key)
<1>1. T \in SUBSET Nat
  OBVIOUS
<1>2. u = IF \E i \in 1..Len(s) : s[i].ns = <<>> /\ s[i].tokens = key
          THEN RemoveAt(s, IF T # {} THEN Min(T) ELSE 0) ELSE s
  BY DEF Popped, RemoveFirstMatch, SelectInSeq
<1>3. T # {} => Min(T) \in T
  BY <1>1, MinOfNaturals
<1> HIDE DEF u
<1>4. CASE T = {}
  BY <1>2, <1>4 DEF u
<1>5. CASE T # {}
  <2>1. u = RemoveAt(s, Min(T))
    BY <1>2, <1>3, <1>5
  <2> QED
    BY <1>3, <1>5, <2>1 DEF u
<1> QED
  BY <1>4, <1>5

(***************************************************************************)
(* remember keeps the store sound: whatever it is given under a key, the   *)
(* key is there at most once and the limits hold.                          *)
(***************************************************************************)
LEMMA RememberSound ==
    ASSUME NEW s \in SoundStores, NEW key \in Seq(Tokens), NEW rows \in Seq(Tokens),
           AllTokens => rows = <<>> \/ Len(rows) = Len(key)
    PROVE  Remember(s, <<>>, key, rows) \in SoundStores
<1> DEFINE o == Popped(s, key)
           e == Entry(<<>>, key, rows)
           a == Append(o, e)
<1>1. s \in Seq(SoundEntries) /\ OneEntryPerKey(s)
  BY DEF SoundStores
<1>2. CASE rows = <<>> \/ Len(rows) > MaxBytes
  BY <1>2 DEF Remember
<1>3. CASE ~ (rows = <<>> \/ Len(rows) > MaxBytes)
  <2>1. Remember(s, <<>>, key, rows) = Fitted(a)
    BY <1>3 DEF Remember, Popped
  <2>2. e \in SoundEntries /\ e.tokens = key
    BY <1>3 DEF Entry, SoundEntries, Entries
  <2>3. \A i \in 1..Len(s) : s[i].ns = <<>>
    BY <1>1 DEF SoundEntries, Entries
  <2>4. /\ o \in Seq(SoundEntries) /\ OneEntryPerKey(o)
        /\ \A i \in 1..Len(o) : o[i].tokens # key
    <3>1. \/ o = s /\ \A i \in 1..Len(s) : ~ (s[i].ns = <<>> /\ s[i].tokens = key)
          \/ \E k \in 1..Len(s) : /\ s[k].ns = <<>> /\ s[k].tokens = key
                                  /\ o = RemoveAt(s, k)
      BY <1>1, PoppedEntry
    <3> HIDE DEF o
    <3>2. CASE o = s /\ \A i \in 1..Len(s) : ~ (s[i].ns = <<>> /\ s[i].tokens = key)
      BY <1>1, <2>3, <3>2
    <3>3. ASSUME NEW k \in 1..Len(s), s[k].tokens = key, o = RemoveAt(s, k)
          PROVE  /\ o \in Seq(SoundEntries) /\ OneEntryPerKey(o)
                 /\ \A i \in 1..Len(o) : o[i].tokens # key
      <4>1. /\ o \in Seq(SoundEntries) /\ Len(o) = Len(s) - 1
            /\ \A i \in 1..(Len(s) - 1) : o[i] = IF i < k THEN s[i] ELSE s[i + 1]
        BY <1>1, <3>3, RemoveAtEntries
      <4> DEFINE at(i) == IF i < k THEN i ELSE i + 1
      <4>2. \A i \in 1..Len(o) : at(i) \in 1..Len(s) /\ at(i) # k /\ o[i] = s[at(i)]
        BY <4>1
      <4>3. \A i, j \in 1..Len(o) : at(i) = at(j) => i = j
        BY <4>1
      <4> HIDE DEF at
      <4>4. ASSUME NEW i \in 1..Len(o) PROVE o[i].tokens # key
        BY <1>1, <3>3, <4>2 DEF OneEntryPerKey
      <4>5. ASSUME NEW i \in 1..Len(o), NEW j \in 1..Len(o),
                   o[i].tokens = o[j].tokens
            PROVE  i = j
        <5>1. at(i) = at(j)
          BY <1>1, <4>2, <4>5 DEF OneEntryPerKey
        <5> QED
          BY <4>3, <5>1
      <4> QED
        BY <4>1, <4>4, <4>5 DEF OneEntryPerKey
    <3> QED
      BY <3>1, <3>2, <3>3
  <2> HIDE DEF o, e
  <2>5. a \in Seq(SoundEntries) /\ OneEntryPerKey(a)
    BY <2>2, <2>4 DEF OneEntryPerKey
  <2> HIDE DEF a
  <2>6. Within(Fitted(a)) /\ \E n \in 0..Len(a) : Fitted(a) = SubSeq(a, n + 1, Len(a))
    BY <2>5, FittedWithin
  <2>7. PICK n \in 0..Len(a) : Fitted(a) = SubSeq(a, n + 1, Len(a))
    BY <2>6
  <2>8. /\ Fitted(a) \in Seq(SoundEntries) /\ Len(Fitted(a)) = Len(a) - n
        /\ \A i \in 1..(Len(a) - n) : Fitted(a)[i] = a[n + i]
    BY <2>5, <2>7
  <2>9. OneEntryPerKey(Fitted(a))
    <3> DEFINE f == Fitted(a)
    <3> HIDE DEF f
    <3>1. Len(f) = Len(a) - n /\ Len(a) \in Nat /\ n \in Nat /\ n <= Len(a)
      BY <2>5, <2>8 DEF f
    <3>2. ASSUME NEW i \in 1..Len(f), NEW j \in 1..Len(f), f[i].tokens = f[j].tokens
          PROVE  i = j
      <4>1. n + i \in 1..Len(a) /\ n + j \in 1..Len(a)
        BY <3>1
      <4>2. f[i] = a[n + i] /\ f[j] = a[n + j]
        BY <2>8, <3>1 DEF f
      <4>3. n + i = n + j
        BY <2>5, <3>2, <4>1, <4>2 DEF OneEntryPerKey
      <4> QED
        BY <3>1, <4>3
    <3> QED
      BY <3>2 DEF OneEntryPerKey, f
  <2> QED
    BY <2>1, <2>6, <2>8, <2>9 DEF SoundStores
<1> QED
  BY <1>2, <1>3

LEMMA UsableMatches ==
    ASSUME NEW p \in Seq(Tokens), NEW m \in Matches(p)
    PROVE  Usable(m, p) \in Matches(p)
  BY NoMatchMatches DEF Usable

(* The rows of a finished sequence: a row for each of its tokens. *)
LEMMA CacheRowsType ==
    ASSUME NEW p \in Seq(Tokens), NEW m \in Matches(p), NEW sampled \in Seq(Tokens)
    PROVE  /\ CacheRows(m, p, sampled) \in Seq(Tokens)
           /\ AllTokens => Len(CacheRows(m, p, sampled)) = Len(p) + Len(sampled)
<1>1. /\ m.tokens \in Seq(Tokens) /\ m.rows \in Seq(Tokens)
      /\ Len(m.tokens) <= Len(p) /\ (AllTokens => Len(m.rows) = Len(m.tokens))
  BY DEF Matches
<1> DEFINE n == Len(m.tokens)
           rest == SubSeq(p, n + 1, Len(p))
           front == m.rows \o rest
<1>2. n \in 0..Len(p)
  BY <1>1
<1>3. rest \in Seq(Tokens) /\ Len(rest) = Len(p) - n
  BY <1>2, CutFront
<1>4. CacheRows(m, p, sampled) = front \o sampled
  BY DEF CacheRows
<1> HIDE DEF rest
<1>5. front \in Seq(Tokens) /\ Len(front) = Len(m.rows) + Len(rest)
  <2>1. m.rows \in Seq(Tokens) /\ rest \in Seq(Tokens)
    BY <1>1, <1>3
  <2> QED
    BY <2>1
<1> HIDE DEF front
<1>6. front \o sampled \in Seq(Tokens) /\ Len(front \o sampled) = Len(front) + Len(sampled)
  BY <1>5, ConcatProperties
<1>7. Len(p) \in Nat /\ Len(sampled) \in Nat /\ n \in Nat /\ Len(m.rows) \in Nat
  BY <1>1
<1> HIDE DEF n
<1>8. ASSUME AllTokens PROVE Len(front \o sampled) = Len(p) + Len(sampled)
  <2>1. Len(m.rows) = n
    BY <1>1, <1>8 DEF n
  <2>2. n + (Len(p) - n) = Len(p)
    BY <1>7
  <2> QED
    BY <1>3, <1>5, <1>6, <2>1, <2>2
<1> QED
  BY <1>4, <1>6, <1>8

(* _prompt_cache_for_prompt_tokens leaves a row per token of the key. *)
LEMMA ForPromptRows ==
    ASSUME NEW rows \in Seq(Tokens), NEW sequence \in Seq(Tokens),
           NEW key \in Seq(Tokens)
    PROVE  /\ ForPrompt(rows, sequence, key) \in Seq(Tokens)
           /\ Len(rows) = Len(sequence) =>
                \/ ForPrompt(rows, sequence, key) = <<>>
                \/ Len(ForPrompt(rows, sequence, key)) = Len(key)
<1> DEFINE g == Len(sequence) - Len(key)
           k == Len(rows) - g
<1>1. Len(rows) \in Nat /\ Len(sequence) \in Nat /\ Len(key) \in Nat
  OBVIOUS
<1>2. CASE Len(sequence) < Len(key)
  BY <1>2 DEF ForPrompt
<1>3. CASE ~ (Len(sequence) < Len(key)) /\ g = 0
  <2>1. ForPrompt(rows, sequence, key) = rows
    BY <1>3 DEF ForPrompt
  <2> QED
    BY <1>1, <1>3, <2>1
<1>4. CASE ~ (Len(sequence) < Len(key)) /\ g # 0
  <2>1. k \in Int /\ k <= Len(rows) /\ (Len(rows) = Len(sequence) => k = Len(key))
    BY <1>1, <1>4
  <2>2. \/ ForPrompt(rows, sequence, key) = SubSeq(rows, 1, k)
        \/ ForPrompt(rows, sequence, key) = <<>>
    BY <1>4 DEF ForPrompt, Trim
  <2> HIDE DEF k
  <2>3. SubSeq(rows, 1, k) \in Seq(Tokens)
        /\ (k >= 0 => Len(SubSeq(rows, 1, k)) = k)
    BY <2>1, CutTail
  <2>4. Len(rows) = Len(sequence) => Len(SubSeq(rows, 1, k)) = Len(key)
    BY <1>1, <2>1, <2>3
  <2>5. <<>> \in Seq(Tokens)
    OBVIOUS
  <2> QED
    BY <2>2, <2>3, <2>4, <2>5, Zenon
<1> QED
  BY <1>2, <1>3, <1>4

(* The end of _finish keeps the store sound. *)
LEMMA RememberedSound ==
    ASSUME NEW s \in SoundStores, NEW r, prompt[r] \in Seq(Tokens),
           hit[r] \in Matches(prompt[r]), NEW sampled \in Seq(Tokens)
    PROVE  Remembered(s, r, sampled) \in SoundStores
<1> DEFINE p == prompt[r]
           m == Usable(hit[r], p)
           key == m.tokens \o p
           sequence == IF AllTokens THEN p \o sampled ELSE key
           rows == CacheRows(m, p, sampled)
           value == ForPrompt(rows, sequence, key)
<1>1. m \in Matches(p)
  BY UsableMatches
<1>2. Remembered(s, r, sampled) = Remember(s, <<>>, key, value)
  BY DEF Remembered
<1> HIDE DEF m
<1>3. key \in Seq(Tokens)
  BY <1>1 DEF Matches
<1>4. p \o sampled \in Seq(Tokens) /\ Len(p \o sampled) = Len(p) + Len(sampled)
  BY ConcatProperties
<1>5. rows \in Seq(Tokens) /\ (AllTokens => Len(rows) = Len(p) + Len(sampled))
  BY <1>1, CacheRowsType
<1> HIDE DEF key, rows
<1>6. sequence \in Seq(Tokens) /\ (AllTokens => Len(rows) = Len(sequence))
  BY <1>3, <1>4, <1>5
<1> HIDE DEF sequence
<1>7. value \in Seq(Tokens) /\ (AllTokens => value = <<>> \/ Len(value) = Len(key))
  BY <1>3, <1>5, <1>6, ForPromptRows
<1> HIDE DEF value
<1> QED
  BY <1>2, <1>3, <1>7, RememberSound

-----------------------------------------------------------------------------
(* The inductive invariant. *)

Kinds == {"none", "exact", "shorter", "trimmed"}

(* Each request's job: what was found for it is a match of its prompt. *)
JobInv ==
    /\ prompt \in [Requests -> Prompts \union {<<>>}]
    /\ hit \in [Requests -> [kind : Kinds, tokens : Seq(Tokens), rows : Seq(Tokens)]]
    /\ \A r \in Requests : hit[r] \in Matches(prompt[r])

StoreInv == store \in SoundStores

(***************************************************************************)
(* The queue has no request twice, the generator holds what is active, and *)
(* nothing that is queued or active has been answered.                     *)
(***************************************************************************)
Once(s) == \A i, j \in 1..Len(s) : s[i] = s[j] => i = j
QueueInv ==
    /\ {continuous, up, generator} \subseteq BOOLEAN
    /\ pending \in Seq(Requests) /\ Once(pending)
    /\ active \subseteq Requests /\ IsFiniteSet(active)
    /\ holds = active
    /\ Cardinality(active) <= DecodeConcurrency
    /\ Queued \intersect active = {}
    /\ answer \in [Requests -> Answers \union {"none"}]
    /\ \A r \in Open : answer[r] = "none"

(***************************************************************************)
(* The text of a streaming request is that of its tokens, and the client   *)
(* has it behind what was sent before a half character was replaced.       *)
(***************************************************************************)
Halved(s) == s = <<>> \/ Last(s) = "?"
EndsWith(had, text) == \E pre \in Seq(Texts) : had = pre \o text /\ Halved(pre)
HasText(r) ==
    /\ rendered[r] = Decode(out[r])
    /\ EndsWith(sent[r], rendered[r])
    /\ ToSet(out[r]) \intersect HalfTokens = {} => sent[r] = rendered[r]
TextInv ==
    /\ out \in [Requests -> Seq(Tokens \ {Eos})]
    /\ rendered \in [Requests -> Seq(Texts)] /\ sent \in [Requests -> Seq(Texts)]
    /\ \A r \in Streaming : HasText(r)

IInv == JobInv /\ StoreInv /\ QueueInv /\ TextInv

-----------------------------------------------------------------------------
(* The store. *)

LEMMA PromptTokens ==
    ASSUME JobInv, NEW r \in Requests PROVE prompt[r] \in Seq(Tokens)
<1>1. prompt[r] \in Prompts \union {<<>>}
  BY DEF JobInv
<1>2. <<>> \in Seq(Tokens)
  OBVIOUS
<1> QED
  BY <1>1, <1>2, TextBatchAssumption

(* What _step_generator remembers, response by response. *)
LEMMA StepRemembers ==
    ASSUME JobInv, StoreInv, out \in [Requests -> Seq(Tokens \ {Eos})],
           NEW responses \in Seq([uid : Requests, token : Tokens])
    PROVE  FoldLeft(LAMBDA s, x :
                      IF Finishes(x)
                      THEN Remembered(s, x.uid, Append(out[x.uid], x.token))
                      ELSE s,
                    store, responses) \in SoundStores
<1> DEFINE N == Len(responses)
           A == SoundStores
           After(s, x) ==
             IF Finishes(x)
             THEN Remembered(s, x.uid, Append(out[x.uid], x.token))
             ELSE s
           step == [n \in 1..N |-> [s \in A |-> After(s, responses[n])]]
<1>1. N \in Nat /\ DOMAIN responses = 1..N
  OBVIOUS
<1>2. \A s \in A, n \in 1..N : After(s, responses[n]) \in A
  <2> SUFFICES ASSUME NEW s \in A, NEW n \in 1..N PROVE After(s, responses[n]) \in A
    OBVIOUS
  <2> DEFINE x == responses[n]
  <2>0. x \in [uid : Requests, token : Tokens]
    BY <1>1, ElementOfSeq
  <2>1. x.uid \in Requests /\ x.token \in Tokens
    BY <2>0
  <2> HIDE DEF x
  <2>2. prompt[x.uid] \in Seq(Tokens) /\ hit[x.uid] \in Matches(prompt[x.uid])
    BY <2>1, PromptTokens DEF JobInv
  <2>3. Append(out[x.uid], x.token) \in Seq(Tokens)
    BY <2>1
  <2>4. Remembered(s, x.uid, Append(out[x.uid], x.token)) \in A
    BY <2>2, <2>3, RememberedSound
  <2> QED
    BY <2>4 DEF x
<1>3. store \in A
  BY DEF StoreInv
<1>4. step \in [1..N -> [A -> A]]
  BY <1>2
<1>5. \A n \in 1..N, s \in A : step[n][s] = After(s, responses[n])
  OBVIOUS
<1> HIDE DEF A, N, step, After
<1>6. PICK g : IsFold(g, N, A, store, step)
  BY <1>1, <1>3, <1>4, FoldExists
<1>7. g = [d \in SUBSET (1..N) |-> IF d = {} THEN store
                                  ELSE After(g[d \ {Max(d)}], responses[Max(d)])]
  <2>1. ASSUME NEW d \in SUBSET (1..N), d # {}
        PROVE  g[d] = After(g[d \ {Max(d)}], responses[Max(d)])
    <3>1. Max(d) \in 1..N /\ d \ {Max(d)} \in SUBSET (1..N)
      BY <2>1, <1>1, MaxMember
    <3>2. g[d \ {Max(d)}] \in A
      BY <3>1, <1>6 DEF IsFold
    <3> QED
      BY <2>1, <3>1, <3>2, <1>5, <1>6 DEF IsFold
  <2> QED
    BY <2>1, <1>6 DEF IsFold
<1>8. PICK it :
        /\ it = [d \in SUBSET (1..N) |-> IF d = {} THEN store
                                         ELSE After(it[d \ {Max(d)}], responses[Max(d)])]
        /\ FoldLeft(After, store, responses) = it[1..N]
  BY <1>1, <1>7, Zenon DEF FoldLeft, MapThenFoldSet
<1>9. it[{}] \in A
  BY <1>3, <1>8
<1>10. ASSUME NEW n \in 1..N, it[1..(n - 1)] \in A PROVE it[1..n] \in A
  <2>0. n \in Nat \ {0} /\ n \in 1..n
    BY <1>1
  <2>1. Max(1..n) = n /\ (1..n) \ {n} = 1..(n - 1) /\ 1..n # {}
    BY <2>0, LastIndex
  <2>2. 1..n \in SUBSET (1..N)
    BY <1>1
  <2>3. it[1..n] = After(it[1..(n - 1)], responses[n])
    BY <1>8, <2>1, <2>2
  <2> QED
    BY <1>2, <1>10, <2>3
<1>11. it[1..N] \in A
  <2>1. N \in Nat
    BY <1>1
  <2> QED
    BY <2>1, <1>9, <1>10, FoldInduction, Zenon
<1>12. FoldLeft(After, store, responses) \in A
  BY <1>8, <1>11, Zenon
<1> QED
  BY <1>12, Zenon DEF A, After

(* A response of the generator is a token for a request it works for. *)
LEMMA ResponsesType ==
    ASSUME QueueInv, NEW responses \in Responses
    PROVE  /\ responses \in Seq([uid : Requests, token : Tokens])
           /\ \A x \in ToSet(responses) : x.uid \in active /\ x.token \in Tokens
           /\ \A x, y \in ToSet(responses) : x.uid = y.uid => x = y
<1> DEFINE S == [uid : active \intersect holds, token : Tokens]
<1>1. PICK n \in 0..DecodeConcurrency : responses \in [1..n -> S]
  BY DEF Responses, SeqOf
<1>2. n \in Nat
  BY TextBatchAssumption
<1>4. S \subseteq [uid : Requests, token : Tokens]
  BY DEF QueueInv
<1>5. responses \in Seq([uid : Requests, token : Tokens])
  <2> DEFINE R == [uid : Requests, token : Tokens]
  <2> HIDE DEF S, R
  <2>1. responses \in [1..n -> R]
    BY <1>1, <1>4 DEF R
  <2>2. responses \in Seq(R)
    BY <1>2, <2>1, SeqDef
  <2> QED
    BY <2>2 DEF R
<1>3. DOMAIN responses = 1..n /\ Len(responses) = n
  BY <1>1, <1>2, <1>5, LenProperties
<1>6. \A x \in ToSet(responses) : x.uid \in active /\ x.token \in Tokens
  BY <1>1 DEF ToSet, QueueInv
<1>7. \A i, j \in 1..Len(responses) : i # j => responses[i].uid # responses[j].uid
  BY DEF Responses
<1> QED
  BY <1>3, <1>5, <1>6, <1>7 DEF ToSet

LEMMA InitIInv == Init => IInv
<1> SUFFICES ASSUME Init PROVE IInv
  OBVIOUS
<1>1. <<>> \in Seq(Tokens) /\ <<>> \in Seq(Tokens \ {Eos}) /\ <<>> \in Seq(Texts)
      /\ <<>> \in Seq(Requests) /\ <<>> \in Seq(SoundEntries)
  OBVIOUS
<1>2. JobInv
  BY <1>1, NoMatchMatches DEF Init, JobInv, NoMatch, Kinds
<1>3. StoreInv
  BY <1>1, WithinNone DEF Init, StoreInv, SoundStores, OneEntryPerKey
<1>4. QueueInv
  <2>1. IsFiniteSet({}) /\ Cardinality({}) = 0
    BY FS_EmptySet
  <2>2. ToSet(<<>>) = {}
    BY DEF ToSet
  <2>3. {continuous, up, generator} \subseteq BOOLEAN
    BY DEF Init
  <2>4. Cardinality(active) <= DecodeConcurrency
    BY <2>1, TextBatchAssumption DEF Init
  <2>5. Once(pending) /\ Queued = {} /\ Open = {}
    BY <2>2 DEF Init, Once, Queued, Open
  <2>6. answer \in [Requests -> Answers \union {"none"}]
    BY DEF Init
  <2> QED
    BY <1>1, <2>1, <2>3, <2>4, <2>5, <2>6 DEF Init, QueueInv
<1>5. TextInv
  <2>1. <<>> \o <<>> = <<>>
    OBVIOUS
  <2>2. Decode(<<>>) = <<>>
    BY DEF Decode
  <2>3. \A r \in Streaming : HasText(r)
    BY <1>1, <2>1, <2>2, TextBatchAssumption DEF Init, HasText, EndsWith, Halved
  <2> QED
    BY <1>1, <2>3 DEF Init, TextInv
<1> QED
  BY <1>2, <1>3, <1>4, <1>5 DEF IInv

(* The store and the jobs are kept sound by every action. *)
LEMMA StoreStep ==
    ASSUME IInv, [Next]_vars
    PROVE  StoreInv' /\ JobInv'
<1> USE DEF IInv
<1>1. ASSUME NEW r \in Requests, NEW p \in Prompts, Submit(r, p)
      PROVE  StoreInv' /\ JobInv'
  <2>1. p \in Seq(Tokens) /\ p # <<>>
    BY TextBatchAssumption
  <2>2. store' = store
    BY <1>1 DEF Submit
  <2>3. StoreInv'
    BY <2>2 DEF StoreInv
  <2>4. CASE Acceptable(p)
    <3> DEFINE m == Lookup(store, <<>>, p)
    <3>1. m \in Matches(p)
      BY <2>1, LookupMatches DEF StoreInv, SoundStores
    <3>2. m \in [kind : Kinds, tokens : Seq(Tokens), rows : Seq(Tokens)]
      BY <3>1 DEF Matches, Kinds
    <3>3. prompt' = [prompt EXCEPT ![r] = p] /\ hit' = [hit EXCEPT ![r] = m]
      BY <1>1, <2>4 DEF Submit
    <3> HIDE DEF m
    <3>4. \A q \in Requests : hit'[q] \in Matches(prompt'[q])
      BY <3>1, <3>3 DEF JobInv
    <3> QED
      BY <2>3, <3>2, <3>3, <3>4 DEF JobInv
  <2>5. CASE ~ Acceptable(p)
    BY <1>1, <2>3, <2>5 DEF Submit, jobVars, JobInv
  <2> QED
    BY <2>4, <2>5
<1>2. ASSUME NEW r \in Requests, NEW p \in Prompts, NEW s \in Samples,
             CompleteMany(r, p, s)
      PROVE  StoreInv' /\ JobInv'
  <2>1. p \in Seq(Tokens) /\ p # <<>>
    BY TextBatchAssumption
  <2>2. s \in Seq(Tokens) /\ s # <<>>
    BY TextBatchAssumption DEF Samples
  <2> DEFINE stopped == Last(s) = Eos
             m == Usable(Lookup(store, <<>>, p), p)
             generated == IF stopped THEN Front(s) ELSE s
             sequence == p \o (IF AllTokens THEN s ELSE generated)
             rows == CacheRows(m, p, s)
             value == ForPrompt(rows, sequence, p)
  <2>3. store' = Remember(store, <<>>, p, value) /\ UNCHANGED jobVars
    BY <1>2 DEF CompleteMany
  <2>4. m \in Matches(p)
    BY <2>1, LookupMatches, UsableMatches DEF StoreInv, SoundStores
  <2>5. generated \in Seq(Tokens)
    BY <2>2 DEF Front
  <2>6. sequence \in Seq(Tokens) /\ (AllTokens => Len(sequence) = Len(p) + Len(s))
    <3> HIDE DEF generated
    <3> QED
      BY <2>1, <2>2, <2>5
  <2>7. rows \in Seq(Tokens) /\ (AllTokens => Len(rows) = Len(p) + Len(s))
    BY <2>1, <2>2, <2>4, CacheRowsType
  <2> HIDE DEF sequence, rows
  <2>8. value \in Seq(Tokens) /\ (AllTokens => value = <<>> \/ Len(value) = Len(p))
    BY <2>1, <2>6, <2>7, ForPromptRows
  <2> HIDE DEF value
  <2>9. store' \in SoundStores
    BY <2>1, <2>3, <2>8, RememberSound DEF StoreInv
  <2> QED
    BY <2>3, <2>9 DEF StoreInv, JobInv, jobVars
<1>3. ASSUME NEW rs, Forget(rs)
      PROVE  JobInv'
  <2>1. \A r \in Requests : hit'[r] \in Matches(prompt'[r])
    <3> SUFFICES ASSUME NEW r \in Requests PROVE hit'[r] \in Matches(prompt'[r])
      OBVIOUS
    <3>1. CASE r \in rs
      <4>1. hit'[r] = NoMatch /\ prompt'[r] = <<>>
        BY <1>3, <3>1 DEF Forget
      <4>2. <<>> \in Seq(Tokens)
        OBVIOUS
      <4> QED
        BY <4>1, <4>2, NoMatchMatches
    <3>2. CASE r \notin rs
      <4>1. hit'[r] = hit[r] /\ prompt'[r] = prompt[r]
        BY <1>3, <3>2 DEF Forget
      <4> QED
        BY <4>1 DEF JobInv
    <3> QED
      BY <3>1, <3>2
  <2>2. prompt' \in [Requests -> Prompts \union {<<>>}]
    BY <1>3 DEF Forget, JobInv
  <2>3. NoMatch \in [kind : Kinds, tokens : Seq(Tokens), rows : Seq(Tokens)]
    BY DEF NoMatch, Kinds
  <2>4. hit' \in [Requests -> [kind : Kinds, tokens : Seq(Tokens), rows : Seq(Tokens)]]
    BY <1>3, <2>3 DEF Forget, JobInv
  <2> QED
    BY <2>1, <2>2, <2>4 DEF JobInv
<1>4. ASSUME NEW r \in Requests, Cancel(r)
      PROVE  StoreInv' /\ JobInv'
  BY <1>3, <1>4 DEF Cancel, StoreInv
<1>5. ASSUME NEW responses \in Responses, Tick(responses)
      PROVE  StoreInv' /\ JobInv'
  <2>1. PICK gone : Forget(gone)
    BY <1>5 DEF Tick, StepGenerator
  <2>2. responses \in Seq([uid : Requests, token : Tokens])
    BY ResponsesType
  <2>3. store' = FoldLeft(LAMBDA s, x :
                      IF Finishes(x)
                      THEN Remembered(s, x.uid, Append(out[x.uid], x.token))
                      ELSE s,
                    store, responses)
    BY <1>5, Zenon DEF Tick, StepGenerator
  <2>4. store' \in SoundStores
    BY <2>2, <2>3, StepRemembers DEF TextInv
  <2> QED
    BY <1>3, <2>1, <2>4 DEF StoreInv
<1>6. CASE Reset
  <2>1. <<>> \in Seq(SoundEntries)
    OBVIOUS
  <2> QED
    BY <1>6, <2>1, WithinNone DEF Reset, StoreInv, SoundStores, OneEntryPerKey, JobInv, jobVars
<1>7. ASSUME NEW r \in Requests, CompleteFails(r) PROVE StoreInv' /\ JobInv'
  BY <1>7 DEF CompleteFails, StoreInv, JobInv, jobVars
<1>8. CASE GeneratorRaises
  BY <1>8 DEF GeneratorRaises, StoreInv, JobInv, jobVars
<1>9. CASE UNCHANGED vars
  BY <1>9 DEF vars, StoreInv, JobInv
<1> QED
  BY <1>1, <1>2, <1>4, <1>5, <1>6, <1>7, <1>8, <1>9 DEF Next

-----------------------------------------------------------------------------
(* The queue and the generator. *)

(* list.remove on a queue that has the request once. *)
LEMMA RemoveFirstOnce ==
    ASSUME NEW E, NEW s \in Seq(E), Once(s), NEW r
    PROVE  /\ RemoveFirst(s, r) \in Seq(E) /\ Once(RemoveFirst(s, r))
           /\ ToSet(RemoveFirst(s, r)) = ToSet(s) \ {r}
<1> DEFINE T == {i \in 1..Len(s) : s[i] = r}
           u == RemoveFirst(s, r)
<1>1. T \in SUBSET Nat
  OBVIOUS
<1>2. u = IF \E i \in 1..Len(s) : s[i] = r
          THEN RemoveAt(s, IF T # {} THEN Min(T) ELSE 0) ELSE s
  BY DEF RemoveFirst, SelectInSeq
<1>3. T # {} => Min(T) \in T
  BY <1>1, MinOfNaturals
<1>4. CASE T = {}
  <2>1. \A i \in 1..Len(s) : s[i] # r
    BY <1>4
  <2>2. u = s
    BY <1>2, <2>1
  <2>3. DOMAIN s = 1..Len(s)
    OBVIOUS
  <2>4. r \notin ToSet(s)
    BY <2>1, <2>3 DEF ToSet
  <2> QED
    BY <2>2, <2>4
<1>5. CASE T # {}
  <2> DEFINE k == Min(T)
  <2>1. k \in 1..Len(s) /\ s[k] = r
    BY <1>3, <1>5
  <2>2. u = RemoveAt(s, k)
    BY <1>2, <1>3, <1>5
  <2> HIDE DEF u, k, T
  <2>3. /\ u \in Seq(E) /\ Len(u) = Len(s) - 1
        /\ \A i \in 1..(Len(s) - 1) : u[i] = IF i < k THEN s[i] ELSE s[i + 1]
    BY <2>1, <2>2, RemoveAtEntries
  <2> DEFINE at(i) == IF i < k THEN i ELSE i + 1
             back(j) == IF j < k THEN j ELSE j - 1
  <2>4. \A i \in 1..Len(u) : at(i) \in 1..Len(s) /\ at(i) # k /\ u[i] = s[at(i)]
    BY <2>1, <2>3
  <2>5. \A i, j \in 1..Len(u) : at(i) = at(j) => i = j
    BY <2>1, <2>3
  <2>6. \A j \in 1..Len(s) : j # k => back(j) \in 1..Len(u) /\ at(back(j)) = j
    BY <2>1, <2>3
  <2> HIDE DEF at, back
  <2>7. Once(u)
    <3> SUFFICES ASSUME NEW i \in 1..Len(u), NEW j \in 1..Len(u), u[i] = u[j]
                 PROVE  i = j
      BY DEF Once
    <3>1. at(i) = at(j)
      BY <2>4 DEF Once
    <3> QED
      BY <2>5, <3>1
  <2>8. DOMAIN u = 1..Len(u) /\ DOMAIN s = 1..Len(s)
    BY <2>3
  <2>9. ASSUME NEW x PROVE x \in ToSet(u) <=> x \in ToSet(s) \ {r}
    <3>1. ASSUME x \in ToSet(u) PROVE x \in ToSet(s) \ {r}
      <4>1. PICK i \in 1..Len(u) : x = u[i]
        BY <2>8, <3>1 DEF ToSet
      <4>2. x = s[at(i)] /\ at(i) \in 1..Len(s) /\ at(i) # k
        BY <2>4, <4>1
      <4>3. x # r
        BY <2>1, <4>2 DEF Once
      <4> QED
        BY <2>8, <4>2, <4>3 DEF ToSet
    <3>2. ASSUME x \in ToSet(s) \ {r} PROVE x \in ToSet(u)
      <4>1. PICK j \in 1..Len(s) : x = s[j]
        BY <2>8, <3>2 DEF ToSet
      <4>2. j # k
        BY <2>1, <3>2, <4>1
      <4>3. back(j) \in 1..Len(u) /\ u[back(j)] = s[j]
        BY <2>4, <2>6, <4>1, <4>2
      <4> QED
        BY <2>8, <4>1, <4>3 DEF ToSet
    <3> QED
      BY <3>1, <3>2
  <2> QED
    BY <2>3, <2>7, <2>9 DEF u
<1> QED
  BY <1>4, <1>5

(* A queue without repetitions has as many members as places. *)
LEMMA OnceCardinality ==
    ASSUME NEW E, NEW s \in Seq(E), Once(s)
    PROVE  IsFiniteSet(ToSet(s)) /\ Cardinality(ToSet(s)) = Len(s)
<1>1. s \in Bijection(1..Len(s), ToSet(s))
  <2>1. s \in [1..Len(s) -> ToSet(s)]
    BY DEF ToSet
  <2>2. \A y \in ToSet(s) : \E i \in 1..Len(s) : s[i] = y
    BY DEF ToSet
  <2> QED
    BY <2>1, <2>2 DEF Bijection, Injection, Surjection, IsInjective, Once
<1>2. ExistsBijection(1..Len(s), ToSet(s))
  BY <1>1 DEF ExistsBijection
<1>3. IsFiniteSet(1..Len(s)) /\ Cardinality(1..Len(s)) = Len(s)
  <2>1. Len(s) \in Nat
    OBVIOUS
  <2>2. /\ IsFiniteSet(1..Len(s))
        /\ Cardinality(1..Len(s)) = IF 1 > Len(s) THEN 0 ELSE Len(s) - 1 + 1
    BY <2>1, FS_Interval, 1 \in Int, Len(s) \in Int
  <2> QED
    BY <2>1, <2>2
<1> QED
  BY <1>2, <1>3, FS_Bijection

(* The front and the rest of a queue without repetitions. *)
LEMMA OnceSplit ==
    ASSUME NEW E, NEW s \in Seq(E), Once(s), NEW n \in 0..Len(s)
    PROVE  LET a == SubSeq(s, 1, n)
               b == SubSeq(s, n + 1, Len(s))
           IN /\ a \in Seq(E) /\ Once(a) /\ Len(a) = n
              /\ b \in Seq(E) /\ Once(b)
              /\ ToSet(a) \intersect ToSet(b) = {}
              /\ ToSet(a) \subseteq ToSet(s) /\ ToSet(b) \subseteq ToSet(s)
<1> DEFINE a == SubSeq(s, 1, n)
           b == SubSeq(s, n + 1, Len(s))
<1>0. Len(s) \in Nat /\ n \in Nat /\ n <= Len(s) /\ DOMAIN s = 1..Len(s)
  OBVIOUS
<1>1. a \in Seq(E) /\ Len(a) = n /\ DOMAIN a = 1..n /\ \A i \in 1..n : a[i] = s[i]
  OBVIOUS
<1>2. /\ b \in Seq(E) /\ Len(b) = Len(s) - n /\ DOMAIN b = 1..(Len(s) - n)
      /\ \A i \in 1..(Len(s) - n) : b[i] = s[n + i]
  OBVIOUS
<1> HIDE DEF a, b
<1>3. Once(a)
  BY <1>0, <1>1 DEF Once
<1>4. Once(b)
  <2> SUFFICES ASSUME NEW i \in 1..(Len(s) - n), NEW j \in 1..(Len(s) - n), b[i] = b[j]
               PROVE  i = j
    BY <1>2 DEF Once
  <2>1. n + i \in 1..Len(s) /\ n + j \in 1..Len(s)
    BY <1>0
  <2>2. n + i = n + j
    BY <1>2, <2>1 DEF Once
  <2> QED
    BY <1>0, <2>2
<1>5. ToSet(a) \subseteq ToSet(s)
  BY <1>0, <1>1 DEF ToSet
<1>6. ToSet(b) \subseteq ToSet(s)
  <2> SUFFICES ASSUME NEW i \in 1..(Len(s) - n) PROVE b[i] \in ToSet(s)
    BY <1>2 DEF ToSet
  <2>1. n + i \in 1..Len(s)
    BY <1>0
  <2> QED
    BY <1>0, <1>2, <2>1 DEF ToSet
<1>7. ToSet(a) \intersect ToSet(b) = {}
  <2> SUFFICES ASSUME NEW i \in 1..n, NEW j \in 1..(Len(s) - n), a[i] = b[j]
               PROVE  FALSE
    BY <1>1, <1>2 DEF ToSet
  <2>1. i \in 1..Len(s) /\ n + j \in 1..Len(s) /\ i # n + j
    BY <1>0
  <2> QED
    BY <1>1, <1>2, <2>1 DEF Once
<1> QED
  BY <1>1, <1>2, <1>3, <1>4, <1>5, <1>6, <1>7 DEF a, b

(* Admission: the oldest requests that fit move from the queue to _active. *)
LEMMA AdmitStep ==
    ASSUME QueueInv, NEW gone \in SUBSET active, AdmitPending(gone)
    PROVE  /\ generator' \in BOOLEAN
           /\ pending' \in Seq(Requests) /\ Once(pending')
           /\ active' \subseteq Requests /\ IsFiniteSet(active')
           /\ holds' = active'
           /\ Cardinality(active') <= DecodeConcurrency
           /\ Queued' \intersect active' = {}
           /\ Queued' \subseteq Queued /\ active' \subseteq (active \ gone) \union Queued
<1> DEFINE c == Cardinality(active \ gone)
           T == {Len(pending), PromptConcurrency, Room(gone)}
           n == Min(T)
           a == SubSeq(pending, 1, n)
           b == SubSeq(pending, n + 1, Len(pending))
<1>1. /\ pending \in Seq(Requests) /\ Once(pending) /\ active \subseteq Requests
      /\ IsFiniteSet(active) /\ holds = active
      /\ Cardinality(active) <= DecodeConcurrency /\ Queued \intersect active = {}
      /\ generator \in BOOLEAN
  BY DEF QueueInv
<1>2. /\ generator' = (generator \/ pending # <<>>) /\ pending' = b
      /\ active' = (active \ gone) \union ToSet(a)
      /\ holds' = (holds \ gone) \union ToSet(a)
  BY DEF AdmitPending
<1>3. IsFiniteSet(active \ gone) /\ c \in Nat /\ c <= DecodeConcurrency
  <2>1. IsFiniteSet(active \ gone) /\ c <= Cardinality(active)
    BY <1>1, FS_Subset, active \ gone \in SUBSET active
  <2>2. c \in Nat /\ Cardinality(active) \in Nat
    BY <1>1, <2>1, FS_CardinalityType
  <2> QED
    BY <1>1, <2>1, <2>2, TextBatchAssumption
<1>4. n \in 0..Len(pending) /\ n <= DecodeConcurrency - c
  <2>1. Len(pending) \in Nat /\ Room(gone) = DecodeConcurrency - c /\ Room(gone) \in Nat
    BY <1>1, <1>3, TextBatchAssumption DEF Room
  <2>2. T \in SUBSET Nat /\ Len(pending) \in T /\ Room(gone) \in T
    BY <2>1, TextBatchAssumption
  <2>3. n \in T /\ n <= Len(pending) /\ n <= Room(gone)
    BY <2>2, MinOfNaturals
  <2>4. n \in Nat
    BY <2>2, <2>3
  <2> HIDE DEF n
  <2> QED
    BY <2>1, <2>3, <2>4
<1> HIDE DEF n, T
<1>5. /\ a \in Seq(Requests) /\ Once(a) /\ Len(a) = n
      /\ b \in Seq(Requests) /\ Once(b)
      /\ ToSet(a) \intersect ToSet(b) = {}
      /\ ToSet(a) \subseteq Queued /\ ToSet(b) \subseteq Queued
  BY <1>1, <1>4, OnceSplit DEF Queued
<1> HIDE DEF a, b
<1>6. IsFiniteSet(ToSet(a)) /\ Cardinality(ToSet(a)) = n
  BY <1>5, OnceCardinality
<1>7. /\ IsFiniteSet(active')
      /\ Cardinality(active') = c + n - Cardinality((active \ gone) \intersect ToSet(a))
  BY <1>2, <1>3, <1>6, FS_Union
<1>8. Cardinality(active') <= DecodeConcurrency
  <2>1. (active \ gone) \intersect ToSet(a) = {}
    BY <1>1, <1>5
  <2>2. Cardinality({}) = 0
    BY FS_EmptySet
  <2>3. Cardinality(active') = c + n - 0
    BY <1>7, <2>1, <2>2
  <2> QED
    BY <1>3, <1>4, <2>3, TextBatchAssumption
<1>9. Queued \subseteq Requests
  BY <1>1 DEF Queued, ToSet
<1>10. Queued' = ToSet(b)
  BY <1>2 DEF Queued
<1> QED
  BY <1>1, <1>2, <1>5, <1>7, <1>8, <1>9, <1>10

(* Every action keeps scheduler and generator in agreement. *)
LEMMA QueueStep ==
    ASSUME IInv, [Next]_vars
    PROVE  QueueInv'
<1> USE DEF IInv
<1>0. /\ {continuous, up, generator} \subseteq BOOLEAN
      /\ pending \in Seq(Requests) /\ Once(pending)
      /\ active \subseteq Requests /\ IsFiniteSet(active) /\ holds = active
      /\ Cardinality(active) <= DecodeConcurrency /\ Queued \intersect active = {}
      /\ answer \in [Requests -> Answers \union {"none"}]
      /\ \A r \in Open : answer[r] = "none"
  BY DEF QueueInv
<1>1. ASSUME NEW r \in Requests, NEW p \in Prompts, Submit(r, p)
      PROVE  QueueInv'
  <2>1. r \notin Queued /\ r \notin active /\ answer[r] = "none"
    BY <1>1 DEF Submit, Fresh, Open
  <2>2. UNCHANGED <<continuous, up, active, generator, holds>>
    BY <1>1 DEF Submit
  <2>3. CASE Acceptable(p)
    <3>1. pending' = Append(pending, r) /\ answer' = answer
      BY <1>1, <2>3 DEF Submit
    <3>2. pending' \in Seq(Requests) /\ Queued' = Queued \union {r}
      BY <1>0, <3>1 DEF Queued, ToSet
    <3>3. Once(pending')
      <4>1. \A i \in 1..Len(pending) : pending[i] # r
        BY <1>0, <2>1 DEF Queued, ToSet
      <4> QED
        BY <1>0, <3>1, <4>1 DEF Once
    <3>4. Open' = Open \union {r}
      BY <2>2, <3>2 DEF Open
    <3> QED
      BY <1>0, <2>1, <2>2, <3>1, <3>2, <3>3, <3>4 DEF QueueInv
  <2>4. CASE ~ Acceptable(p)
    <3>1. pending' = pending /\ answer' = [answer EXCEPT ![r] = "error"]
      BY <1>1, <2>4 DEF Submit
    <3>2. Open' = Open /\ Queued' = Queued
      BY <2>2, <3>1 DEF Open, Queued
    <3>3. answer' \in [Requests -> Answers \union {"none"}]
      BY <1>0, <3>1 DEF Answers
    <3>4. \A q \in Open' : answer'[q] = "none"
      BY <1>0, <2>1, <3>1, <3>2 DEF Open
    <3> QED
      BY <1>0, <2>2, <3>1, <3>2, <3>3, <3>4 DEF QueueInv
  <2> QED
    BY <2>3, <2>4
<1>2. ASSUME NEW r \in Fresh, NEW v \in Answers, answer' = [answer EXCEPT ![r] = v],
             UNCHANGED <<continuous, up, pending, active, generator, holds>>
      PROVE  QueueInv'
  <2>1. r \notin Open
    BY DEF Fresh
  <2>2. Open' = Open /\ Queued' = Queued
    BY <1>2 DEF Open, Queued
  <2>3. answer' \in [Requests -> Answers \union {"none"}]
    BY <1>0, <1>2
  <2>4. \A q \in Open' : answer'[q] = "none"
    BY <1>0, <1>2, <2>1, <2>2
  <2> QED
    BY <1>0, <1>2, <2>2, <2>3, <2>4 DEF QueueInv
<1>3. ASSUME NEW r \in Requests, NEW p \in Prompts, NEW s \in Samples,
             CompleteMany(r, p, s)
      PROVE  QueueInv'
  <2>1. /\ r \in Fresh
        /\ UNCHANGED <<continuous, up, pending, active, generator, holds>>
        /\ \/ answer' = [answer EXCEPT ![r] = "stop"]
           \/ answer' = [answer EXCEPT ![r] = "length"]
    BY <1>3 DEF CompleteMany
  <2> QED
    BY <1>2, <2>1 DEF Answers
<1>4. ASSUME NEW r \in Requests, CompleteFails(r)
      PROVE  QueueInv'
  <2>1. /\ r \in Fresh /\ answer' = [answer EXCEPT ![r] = "error"]
        /\ UNCHANGED <<continuous, up, pending, active, generator, holds>>
    BY <1>4 DEF CompleteFails
  <2> QED
    BY <1>2, <2>1 DEF Answers
<1>5. ASSUME NEW r \in Requests, Cancel(r)
      PROVE  QueueInv'
  <2>1. /\ pending' = RemoveFirst(pending, r) /\ active' = active \ {r}
        /\ holds' = holds \ {r} /\ answer' = [answer EXCEPT ![r] = "cancelled"]
        /\ UNCHANGED <<continuous, up, generator>>
    BY <1>5 DEF Cancel
  <2>2. /\ pending' \in Seq(Requests) /\ Once(pending') /\ Queued' = Queued \ {r}
    BY <1>0, <2>1, RemoveFirstOnce DEF Queued
  <2>3. /\ IsFiniteSet(active') /\ Cardinality(active') <= Cardinality(active)
        /\ Cardinality(active') \in Nat /\ Cardinality(active) \in Nat
    BY <1>0, <2>1, FS_Subset, FS_CardinalityType, active \ {r} \in SUBSET active
  <2>4. Cardinality(active') <= DecodeConcurrency
    BY <1>0, <2>3, TextBatchAssumption
  <2>5. Open' = Open \ {r}
    BY <2>1, <2>2 DEF Open
  <2>6. answer' \in [Requests -> Answers \union {"none"}]
    BY <1>0, <2>1 DEF Answers
  <2>7. \A q \in Open' : answer'[q] = "none"
    BY <1>0, <2>1, <2>5
  <2> QED
    BY <1>0, <2>1, <2>2, <2>3, <2>4, <2>6, <2>7 DEF QueueInv
<1>6. ASSUME NEW responses \in Responses, Tick(responses)
      PROVE  QueueInv'
  <2> DEFINE all == ToSet(responses)
             gone == {x.uid : x \in {y \in all : Finishes(y)}}
             v(r) == IF (CHOOSE x \in all : x.uid = r).token = Eos THEN "stop" ELSE "length"
  <2>1. AdmitPending(gone) /\ UNCHANGED <<continuous, up>>
    BY <1>6 DEF Tick
  <2>2. answer' = [r \in Requests |-> IF r \notin gone THEN answer[r] ELSE v(r)]
    BY <1>6 DEF Tick, StepGenerator
  <2>3. gone \in SUBSET active
    BY ResponsesType
  <2> HIDE DEF gone
  <2>4. /\ generator' \in BOOLEAN
        /\ pending' \in Seq(Requests) /\ Once(pending')
        /\ active' \subseteq Requests /\ IsFiniteSet(active')
        /\ holds' = active'
        /\ Cardinality(active') <= DecodeConcurrency
        /\ Queued' \intersect active' = {}
        /\ Queued' \subseteq Queued /\ active' \subseteq (active \ gone) \union Queued
    BY <2>1, <2>3, AdmitStep
  <2>5. \A r : v(r) \in Answers
    BY DEF Answers
  <2> HIDE DEF v
  <2>6. answer' \in [Requests -> Answers \union {"none"}]
    BY <1>0, <2>2, <2>5
  <2>7. ASSUME NEW q \in Open' PROVE answer'[q] = "none"
    <3>1. q \in Open /\ q \notin gone
      BY <1>0, <2>3, <2>4 DEF Open
    <3>2. q \in Requests
      BY <2>4 DEF Open, Queued, ToSet
    <3> QED
      BY <1>0, <2>2, <3>1, <3>2
  <2> QED
    BY <1>0, <2>1, <2>4, <2>6, <2>7 DEF QueueInv
<1>7. CASE GeneratorRaises
  <2>1. Open' = Open /\ Queued' = Queued
    BY <1>7 DEF GeneratorRaises, Open, Queued
  <2> QED
    BY <1>0, <1>7, <2>1 DEF GeneratorRaises, QueueInv
<1>8. CASE Reset \/ UNCHANGED vars
  <2>1. Open' = Open /\ Queued' = Queued
        /\ UNCHANGED <<continuous, up, pending, active, generator, holds, answer>>
    BY <1>8 DEF Reset, vars, Open, Queued
  <2> QED
    BY <1>0, <2>1 DEF QueueInv
<1> QED
  BY <1>1, <1>3, <1>4, <1>5, <1>6, <1>7, <1>8 DEF Next

-----------------------------------------------------------------------------
(* The text of a streaming request. *)

LEMMA DecodeType ==
    ASSUME NEW s \in Seq(Tokens \ {Eos})
    PROVE  /\ Decode(s) \in Seq(Texts) /\ Len(Decode(s)) = Len(s)
           /\ ToSet(s) \intersect HalfTokens = {} => Decode(s) = s
<1> DEFINE d == Decode(s)
<1>1. Len(s) \in Nat /\ \A i \in 1..Len(s) : s[i] \in Tokens
  OBVIOUS
<1>2. d = [i \in 1..Len(s) |->
             IF i = Len(s) /\ s[i] \in HalfTokens THEN "?" ELSE s[i]]
  BY DEF Decode
<1>3. d \in [1..Len(s) -> Texts]
  BY <1>1, <1>2 DEF Texts
<1>4. d \in Seq(Texts)
  BY <1>1, <1>3, SeqDef
<1>5. Len(d) = Len(s)
  BY <1>1, <1>3, <1>4, LenProperties
<1>6. ASSUME ToSet(s) \intersect HalfTokens = {} PROVE d = s
  <2>1. \A i \in 1..Len(s) : s[i] \notin HalfTokens
    BY <1>6 DEF ToSet
  <2>2. \A i \in 1..Len(s) : d[i] = s[i]
    BY <1>2, <2>1
  <2> HIDE DEF d
  <2> QED
    BY <1>3, <1>5, <2>2
<1> QED
  BY <1>4, <1>5, <1>6

(* A prefix and the rest make the whole. *)
LEMMA PrefixAndRest ==
    ASSUME NEW T, NEW s \in Seq(T), NEW t \in Seq(T), IsPrefix(s, t)
    PROVE  /\ SubSeq(t, Len(s) + 1, Len(t)) \in Seq(T)
           /\ t = s \o SubSeq(t, Len(s) + 1, Len(t))
<1> DEFINE n == Len(s)
           b == SubSeq(t, n + 1, Len(t))
<1>1. n \in Nat /\ Len(t) \in Nat /\ n <= Len(t)
  BY DEF IsPrefix
<1>2. \A i \in 1..n : s[i] = t[i]
  <2>1. SubSeq(s, 1, n) = SubSeq(t, 1, n)
    BY DEF IsPrefix
  <2> HIDE DEF n
  <2>2. \A i \in 1..n : SubSeq(t, 1, n)[i] = t[i]
    BY <1>1
  <2>3. \A i \in 1..n : SubSeq(s, 1, n)[i] = s[i]
    BY <1>1 DEF n
  <2> QED
    BY <2>1, <2>2, <2>3
<1>3. b \in Seq(T) /\ Len(b) = Len(t) - n /\ \A i \in 1..(Len(t) - n) : b[i] = t[n + i]
  BY <1>1
<1> HIDE DEF b
<1>4. s \o b \in Seq(T) /\ Len(s \o b) = Len(t)
  BY <1>1, <1>3
<1>5. ASSUME NEW i \in 1..Len(t) PROVE (s \o b)[i] = t[i]
  <2>1. CASE i <= n
    BY <1>1, <1>2, <1>3, <2>1
  <2>2. CASE i > n
    <3>1. (s \o b)[i] = b[i - n]
      BY <1>1, <1>3, <2>2
    <3>2. i - n \in 1..(Len(t) - n) /\ n + (i - n) = i
      BY <1>1, <2>2
    <3> HIDE DEF n
    <3> QED
      BY <1>3, <3>1, <3>2
  <2>3. i <= n \/ i > n
    BY <1>1
  <2> QED
    BY <2>1, <2>2, <2>3
<1>6. s \o b = t
  <2> DEFINE u == s \o b
  <2>1. u \in Seq(T) /\ Len(u) = Len(t) /\ \A i \in 1..Len(u) : u[i] = t[i]
    BY <1>4, <1>5
  <2> HIDE DEF u
  <2>2. u = t
    BY <2>1, SeqEqual
  <2> QED
    BY <2>2 DEF u
<1> QED
  BY <1>3, <1>6 DEF b

LEMMA Reversed ==
    ASSUME NEW T, NEW s \in Seq(T)
    PROVE  /\ Reverse(s) \in Seq(T) /\ Len(Reverse(s)) = Len(s)
           /\ \A i \in 1..Len(s) : Reverse(s)[i] = s[(Len(s) - i) + 1]
<1> DEFINE r == Reverse(s)
<1>1. Len(s) \in Nat /\ \A i \in 1..Len(s) : (Len(s) - i) + 1 \in 1..Len(s)
  OBVIOUS
<1>2. r = [i \in 1..Len(s) |-> s[(Len(s) - i) + 1]]
  BY DEF Reverse
<1>3. r \in [1..Len(s) -> T]
  BY <1>1, <1>2
<1>4. r \in Seq(T)
  BY <1>1, <1>3, SeqDef
<1> QED
  BY <1>1, <1>2, <1>3, <1>4, LenProperties

LEMMA SuffixOfConcat ==
    ASSUME NEW T, NEW s \in Seq(T), NEW pre \in Seq(T)
    PROVE  IsSuffix(s, pre \o s)
<1> DEFINE t == pre \o s
           rs == Reverse(s)
           rt == Reverse(t)
<1>1. t \in Seq(T) /\ Len(t) = Len(pre) + Len(s) /\ Len(s) \in Nat /\ Len(pre) \in Nat
      /\ \A i \in 1..Len(s) : t[Len(pre) + i] = s[i]
  OBVIOUS
<1> HIDE DEF t
<1>2. /\ rs \in Seq(T) /\ Len(rs) = Len(s)
      /\ \A i \in 1..Len(s) : rs[i] = s[(Len(s) - i) + 1]
  BY <1>1, Reversed
<1>3. /\ rt \in Seq(T) /\ Len(rt) = Len(t)
      /\ \A i \in 1..Len(t) : rt[i] = t[(Len(t) - i) + 1]
  BY <1>1, Reversed
<1> HIDE DEF rs, rt
<1>4. ASSUME NEW i \in 1..Len(s) PROVE rs[i] = rt[i]
  <2>1. i \in 1..Len(t) /\ (Len(s) - i) + 1 \in 1..Len(s)
        /\ (Len(t) - i) + 1 = Len(pre) + ((Len(s) - i) + 1)
    BY <1>1
  <2> QED
    BY <1>1, <1>2, <1>3, <2>1
<1>5. Len(rs) <= Len(rt)
  BY <1>1, <1>2, <1>3
<1>6. SubSeq(rs, 1, Len(rs)) = SubSeq(rt, 1, Len(rs))
  BY <1>1, <1>2, <1>3, <1>4, <1>5
<1>7. IsPrefix(rs, rt)
  BY <1>5, <1>6 DEF IsPrefix
<1> QED
  BY <1>7 DEF IsSuffix, rs, rt, t

(* A further token changes the text before it only if that ended in half a *)
(* character.                                                              *)
LEMMA DecodeGrows ==
    ASSUME NEW s \in Seq(Tokens \ {Eos}), NEW t \in Tokens \ {Eos}
    PROVE  IsPrefix(Decode(s), Decode(Append(s, t))) \/ Halved(Decode(s))
<1> DEFINE n == Len(s)
           o == Append(s, t)
           d == Decode(s)
           e == Decode(o)
<1>1. n \in Nat /\ o \in Seq(Tokens \ {Eos}) /\ Len(o) = n + 1
      /\ \A i \in 1..n : o[i] = s[i]
  OBVIOUS
<1> HIDE DEF o
<1>2. /\ d \in Seq(Texts) /\ Len(d) = n
      /\ e \in Seq(Texts) /\ Len(e) = n + 1
  BY <1>1, DecodeType
<1>3. \A i \in 1..n : d[i] = IF i = n /\ s[i] \in HalfTokens THEN "?" ELSE s[i]
  BY DEF Decode
<1>4. \A i \in 1..n : e[i] = s[i]
  BY <1>1 DEF Decode
<1> HIDE DEF d, e
<1>5. CASE n # 0 /\ s[n] \in HalfTokens
  <2>1. d[Len(d)] = "?"
    BY <1>1, <1>2, <1>3, <1>5
  <2> QED
    BY <2>1 DEF Halved, Last, d
<1>6. CASE ~ (n # 0 /\ s[n] \in HalfTokens)
  <2>1. \A i \in 1..n : d[i] = e[i]
    BY <1>1, <1>3, <1>4, <1>6
  <2>2. SubSeq(d, 1, n) = SubSeq(e, 1, n) /\ n <= n + 1
    BY <1>1, <1>2, <2>1
  <2>3. IsPrefix(d, e)
    BY <1>2, <2>2 DEF IsPrefix
  <2> QED
    BY <2>3 DEF d, e, o
<1> QED
  BY <1>5, <1>6

LEMMA HalvedConcat ==
    ASSUME NEW s \in Seq(Texts), NEW t \in Seq(Texts), Halved(s), Halved(t)
    PROVE  Halved(s \o t)
<1>1. CASE t = <<>>
  BY <1>1 DEF Halved
<1>2. CASE t # <<>>
  <2>1. Len(t) \in Nat /\ Len(t) > 0 /\ Len(s) \in Nat
        /\ Len(s \o t) = Len(s) + Len(t) /\ (s \o t)[Len(s) + Len(t)] = t[Len(t)]
    BY <1>2
  <2>2. t[Len(t)] = "?"
    BY <1>2 DEF Halved, Last
  <2> QED
    BY <2>1, <2>2 DEF Halved, Last
<1> QED
  BY <1>1, <1>2

(* _emit_delta: the client has the new text behind what it had before. *)
LEMMA DeltaSound ==
    ASSUME NEW old \in Seq(Texts), NEW new \in Seq(Texts), NEW had \in Seq(Texts),
           EndsWith(had, old), IsPrefix(old, new) \/ Halved(old)
    PROVE  /\ had \o Delta(old, new) \in Seq(Texts)
           /\ EndsWith(had \o Delta(old, new), new)
<1>0. PICK pre \in Seq(Texts) : had = pre \o old /\ Halved(pre)
  BY DEF EndsWith
<1>1. CASE IsPrefix(old, new)
  <2> DEFINE rest == SubSeq(new, Len(old) + 1, Len(new))
  <2>1. rest \in Seq(Texts) /\ new = old \o rest
    BY <1>1, PrefixAndRest
  <2>2. Delta(old, new) = rest
    BY <1>1 DEF Delta
  <2> HIDE DEF rest
  <2>3. had \o rest = pre \o new /\ had \o rest \in Seq(Texts)
    BY <1>0, <2>1
  <2>4. EndsWith(had \o rest, new)
    BY <1>0, <2>3, Zenon DEF EndsWith
  <2> QED
    BY <2>2, <2>3, <2>4, Zenon
<1>2. CASE ~ IsPrefix(old, new)
  <2>1. Delta(old, new) = new
    BY <1>2 DEF Delta
  <2>2. had \o new \in Seq(Texts)
    OBVIOUS
  <2>3. Halved(had)
    BY <1>0, <1>2, HalvedConcat
  <2>4. EndsWith(had \o new, new)
    BY <2>3, Zenon DEF EndsWith
  <2> QED
    BY <2>1, <2>2, <2>4, Zenon
<1> QED
  BY <1>1, <1>2

LEMMA AppendPrefix ==
    ASSUME NEW T, NEW s \in Seq(T), NEW x \in T
    PROVE  IsPrefix(s, Append(s, x))
<1>1. Append(s, x) \in Seq(T) /\ Len(Append(s, x)) = Len(s) + 1
      /\ \A i \in 1..Len(s) : Append(s, x)[i] = s[i]
  OBVIOUS
<1>2. SubSeq(s, 1, Len(s)) = SubSeq(Append(s, x), 1, Len(s))
  BY <1>1
<1> QED
  BY <1>1, <1>2 DEF IsPrefix

(* Every action keeps the text of the streaming requests. *)
LEMMA TextStep ==
    ASSUME IInv, [Next]_vars
    PROVE  TextInv'
<1> USE DEF IInv
<1>0. /\ out \in [Requests -> Seq(Tokens \ {Eos})]
      /\ rendered \in [Requests -> Seq(Texts)] /\ sent \in [Requests -> Seq(Texts)]
      /\ \A r \in Streaming : HasText(r)
  BY DEF TextInv
<1>1. ASSUME UNCHANGED textVars PROVE TextInv'
  <2>1. UNCHANGED <<out, rendered, sent>>
    BY <1>1 DEF textVars
  <2> QED
    BY <1>0, <2>1 DEF TextInv, HasText, EndsWith, Texts
<1>2. ASSUME NEW responses \in Responses, Tick(responses)
      PROVE  TextInv'
  <2> DEFINE all == ToSet(responses)
             gone == {x.uid : x \in {y \in all : Finishes(y)}}
             Of(r) == CHOOSE x \in all : x.uid = r
             uids == {x.uid : x \in all}
             texts == {r \in uids : Of(r).token # Eos}
  <2>1. /\ out' = [r \in Requests |-> IF r \in uids THEN Generated(Of(r)) ELSE out[r]]
        /\ rendered' = [r \in Requests |->
                          IF r \in texts \/ r \in gone \ Streaming
                          THEN Decode(out'[r]) ELSE rendered[r]]
        /\ sent' = [r \in Requests |->
                      IF r \in texts \intersect Streaming
                      THEN sent[r] \o Delta(rendered[r], Decode(out'[r]))
                      ELSE sent[r]]
    BY <1>2 DEF Tick, StepGenerator
  <2>2. \A x \in all : x.uid \in active /\ x.token \in Tokens
    BY ResponsesType
  <2>3. \A r \in uids : Of(r) \in all /\ Of(r).uid = r
    OBVIOUS
  <2>4. \A r \in uids : Of(r).token \in Tokens
    BY <2>2, <2>3
  <2>5. texts \subseteq uids /\ \A r \in texts : Of(r).token # Eos
    OBVIOUS
  <2>6. \A r \in uids \ texts : Of(r).token = Eos
    OBVIOUS
  <2> HIDE DEF all, gone, Of, uids, texts
  <2>7. ASSUME NEW r \in Requests
        PROVE  /\ out'[r] \in Seq(Tokens \ {Eos})
               /\ r \notin texts => out'[r] = out[r]
               /\ r \in texts => /\ Of(r).token \in Tokens \ {Eos}
                                 /\ out'[r] = Append(out[r], Of(r).token)
    <3>1. CASE r \notin uids
      BY <1>0, <2>1, <2>5, <3>1
    <3>2. CASE r \in uids /\ r \notin texts
      BY <1>0, <2>1, <2>3, <2>6, <3>2 DEF Generated
    <3>3. CASE r \in texts
      <4>1. out'[r] = Append(out[r], Of(r).token)
        BY <2>1, <2>3, <2>5, <3>3 DEF Generated
      <4> QED
        BY <1>0, <2>4, <2>5, <3>3, <4>1
    <3> QED
      BY <3>1, <3>2, <3>3
  <2>8. ASSUME NEW r \in Requests
        PROVE  rendered'[r] \in Seq(Texts) /\ (r \in texts => rendered'[r] = Decode(out'[r]))
    BY <1>0, <2>1, <2>7, DecodeType
  <2>9. ASSUME NEW r \in Streaming
        PROVE  HasText(r)' /\ sent'[r] \in Seq(Texts)
    <3>0. r \in Requests
      BY TextBatchAssumption
    <3>1. CASE r \notin texts
      <4>1. out'[r] = out[r] /\ rendered'[r] = rendered[r] /\ sent'[r] = sent[r]
        BY <2>1, <2>7, <3>0, <3>1
      <4> QED
        BY <1>0, <3>0, <4>1 DEF HasText, EndsWith, Texts
    <3>2. CASE r \in texts
      <4> DEFINE t == Of(r).token
                 o == Append(out[r], t)
                 new == Decode(o)
      <4>1. /\ t \in Tokens \ {Eos} /\ out[r] \in Seq(Tokens \ {Eos})
            /\ o \in Seq(Tokens \ {Eos})
            /\ out'[r] = o /\ rendered'[r] = new
            /\ sent'[r] = sent[r] \o Delta(rendered[r], new)
        BY <1>0, <2>1, <2>7, <2>8, <3>0, <3>2
      <4>2. new \in Seq(Texts) /\ rendered[r] \in Seq(Texts) /\ sent[r] \in Seq(Texts)
        BY <1>0, <3>0, <4>1, DecodeType
      <4>3. /\ EndsWith(sent[r], rendered[r])
            /\ IsPrefix(rendered[r], new) \/ Halved(rendered[r])
        BY <1>0, <4>1, DecodeGrows DEF HasText
      <4> HIDE DEF t, new
      <4>4. sent'[r] \in Seq(Texts) /\ EndsWith(sent'[r], new)
        <5>1. /\ sent[r] \o Delta(rendered[r], new) \in Seq(Texts)
              /\ EndsWith(sent[r] \o Delta(rendered[r], new), new)
          BY <4>2, <4>3, DeltaSound
        <5> QED
          BY <4>1, <5>1
      <4>5. ASSUME ToSet(o) \intersect HalfTokens = {} PROVE sent'[r] = new
        <5>1. ToSet(out[r]) \intersect HalfTokens = {}
          <6>1. ToSet(out[r]) \subseteq ToSet(o)
            <7>1. \A i \in 1..Len(out[r]) : i \in 1..Len(o) /\ o[i] = out[r][i]
              BY <4>1
            <7>2. DOMAIN out[r] = 1..Len(out[r]) /\ DOMAIN o = 1..Len(o)
              BY <4>1
            <7> HIDE DEF o
            <7> QED
              BY <7>1, <7>2 DEF ToSet
          <6> HIDE DEF o
          <6> QED
            BY <4>5, <6>1
        <5>2. sent[r] = rendered[r] /\ rendered[r] = out[r]
          BY <1>0, <4>1, <5>1, DecodeType DEF HasText
        <5>3. new = o
          BY <4>1, <4>5, DecodeType DEF new
        <5>4. IsPrefix(rendered[r], new)
          BY <4>1, <5>2, <5>3, AppendPrefix
        <5>5. Delta(rendered[r], new) = SubSeq(new, Len(rendered[r]) + 1, Len(new))
          BY <5>4 DEF Delta
        <5> DEFINE rest == SubSeq(new, Len(rendered[r]) + 1, Len(new))
        <5>6. new = rendered[r] \o rest
          BY <4>2, <5>4, PrefixAndRest
        <5> HIDE DEF rest
        <5>7. sent'[r] = sent[r] \o rest
          BY <4>1, <5>5, Zenon DEF rest
        <5> QED
          BY <5>2, <5>6, <5>7, Zenon
      <4> HIDE DEF o
      <4>6. /\ rendered'[r] = Decode(out'[r])
            /\ EndsWith(sent'[r], rendered'[r])
            /\ ToSet(out'[r]) \intersect HalfTokens = {} => sent'[r] = rendered'[r]
        BY <4>1, <4>4, <4>5 DEF new
      <4> QED
        BY <4>4, <4>6 DEF HasText, EndsWith, Texts
    <3> QED
      BY <3>1, <3>2
  <2>10. \A r \in Requests : sent'[r] \in Seq(Texts)
    BY <1>0, <2>1, <2>9
  <2>11. /\ out' \in [Requests -> Seq(Tokens \ {Eos})]
         /\ rendered' \in [Requests -> Seq(Texts)] /\ sent' \in [Requests -> Seq(Texts)]
    BY <2>1, <2>7, <2>8, <2>10
  <2> QED
    BY <2>9, <2>11 DEF TextInv, Texts
<1>3. CASE UNCHANGED vars
  BY <1>1, <1>3 DEF vars, textVars
<1> QED
  BY <1>1, <1>2, <1>3 DEF Next, Submit, CompleteMany, CompleteFails, Cancel,
     GeneratorRaises, Reset

-----------------------------------------------------------------------------
(***************************************************************************)
(* Queue, generator, text and prompt cache of the text worker are kept     *)
(* consistent by submit, cancel, tick, complete_many and the reset.        *)
(***************************************************************************)
THEOREM TextBatchInvariant == Spec => []IInv
<1>1. IInv /\ [Next]_vars => IInv'
  BY StoreStep, QueueStep, TextStep DEF IInv
<1> QED
  BY <1>1, InitIInv, PTL DEF Spec

(***************************************************************************)
(* ContinuousBatchScheduler and the BatchGenerator it fills agree after    *)
(* every submit, tick and cancel: the generator works for exactly the      *)
(* requests in _active, at most decode_concurrency of them, and a request  *)
(* is in _pending or _active, once, until it has been answered.            *)
(***************************************************************************)
THEOREM SchedulerAndGeneratorAgree == Spec => []GeneratorAgrees
<1>1. IInv => GeneratorAgrees
  <2> SUFFICES ASSUME IInv PROVE GeneratorAgrees
    OBVIOUS
  <2> USE DEF IInv
  <2>1. store \in Seq(Entries({<<>>}, Seq(Tokens), Seq(Tokens)))
    <3> DEFINE E == Entries({<<>>}, Seq(Tokens), Seq(Tokens))
    <3>1. SoundEntries \subseteq E /\ store \in Seq(SoundEntries)
      BY DEF StoreInv, SoundStores, SoundEntries
    <3> HIDE DEF E
    <3>2. \A i \in 1..Len(store) : store[i] \in E
      BY <3>1
    <3>3. Len(store) \in Nat /\ store \in [1..Len(store) -> E]
      BY <3>1, <3>2, LenProperties
    <3>4. store \in Seq(E)
      BY <3>3, SeqDef
    <3> QED
      BY <3>4 DEF E
  <2>2. \A r \in Requests : hit[r].tokens \in Seq(Tokens)
    BY DEF JobInv
  <2>3. prompt \in [Requests -> Prompts \union {<<>>}]
    BY DEF JobInv
  <2>4. TypeOK
    BY <2>1, <2>2, <2>3 DEF TypeOK, QueueInv, TextInv
  <2>5. Cardinality(Queued) = Len(pending)
    BY OnceCardinality DEF QueueInv, Queued
  <2> QED
    BY <2>4, <2>5 DEF GeneratorAgrees, QueueInv
<1> QED
  BY <1>1, TextBatchInvariant, PTL

(***************************************************************************)
(* What _emit_delta has sent to a streaming client ends with the text of   *)
(* the tokens generated so far, is exactly that text as long as no token   *)
(* decoded to half a character, and begins it anew only after such a half. *)
(***************************************************************************)
THEOREM StreamCarriesTheText == Spec => []StreamSound
<1>1. IInv => StreamSound
  <2> SUFFICES ASSUME IInv, NEW r \in Streaming
               PROVE  LET before == Len(sent[r]) - Len(rendered[r]) IN
                      /\ IsSuffix(rendered[r], sent[r])
                      /\ before # 0 => sent[r][before] = "?"
                      /\ ToSet(out[r]) \intersect HalfTokens = {} => sent[r] = rendered[r]
    BY DEF StreamSound
  <2>1. r \in Requests
    BY TextBatchAssumption
  <2>2. HasText(r) /\ rendered[r] \in Seq(Texts)
    BY <2>1 DEF IInv, TextInv
  <2>3. PICK pre \in Seq(Texts) : sent[r] = pre \o rendered[r] /\ Halved(pre)
    BY <2>2 DEF HasText, EndsWith
  <2>4. IsSuffix(rendered[r], sent[r])
    BY <2>2, <2>3, SuffixOfConcat
  <2>5. /\ Len(sent[r]) - Len(rendered[r]) = Len(pre) /\ Len(pre) \in Nat
        /\ \A i \in 1..Len(pre) : sent[r][i] = pre[i]
    BY <2>2, <2>3
  <2>6. Len(pre) # 0 => sent[r][Len(pre)] = "?"
    BY <2>3, <2>5 DEF Halved, Last
  <2> QED
    BY <2>2, <2>4, <2>5, <2>6 DEF HasText
<1> QED
  BY <1>1, TextBatchInvariant, PTL

(***************************************************************************)
(* PromptCacheStore.remember keeps the store within max_entries and        *)
(* max_bytes, with one entry per key; and where the generator reports      *)
(* all_tokens, every entry has as many rows as its key has tokens.  What a *)
(* waiting request was given by lookup stays a prefix of its prompt.       *)
(***************************************************************************)
THEOREM PromptStoreSound == Spec => []StoreSound
<1>1. IInv => StoreSound
  <2> SUFFICES ASSUME IInv PROVE StoreSound
    OBVIOUS
  <2>1. store \in Seq(SoundEntries) /\ Within(store) /\ OneEntryPerKey(store)
    BY DEF IInv, StoreInv, SoundStores
  <2>2. \A i \in 1..Len(store) : store[i] \in SoundEntries
    BY <2>1
  <2>3. \A r \in Requests : hit[r] \in Matches(prompt[r])
    BY DEF IInv, JobInv
  <2>4. Open \subseteq Requests
    BY DEF IInv, QueueInv, Open, Queued, ToSet
  <2>5. \A r \in Open : /\ IsPrefix(hit[r].tokens, prompt[r])
                        /\ AllTokens => Len(hit[r].rows) = Len(hit[r].tokens)
    BY <2>3, <2>4 DEF Matches
  <2> QED
    BY <2>1, <2>2, <2>5 DEF StoreSound, SoundEntries, OneEntryPerKey
<1> QED
  BY <1>1, TextBatchInvariant, PTL

=============================================================================
