-------------------------- MODULE WorkerMainProofs --------------------------
(***************************************************************************)
(* Proofs about the worker's two command loops: the answers are sound, a   *)
(* cancel that was dealt with leaves nothing running, and a clean end      *)
(* leaves nothing open.                                                    *)
(***************************************************************************)
EXTENDS WorkerMain, FiniteSetTheorems, FunctionTheorems, SequenceTheorems, TLAPS

(* Every command that is not handled yet, oldest first. *)
Q == lines \o queue \o wire

(* The requests that have been taken up. *)
Held == ToSet(answered) \union open \union ({cur} \intersect Requests)

(***************************************************************************)
(* The unhandled commands q against the history: the requests ord sent,    *)
(* the ones held, the ones bef sent before the reset, the ones lat         *)
(* cancelled after they were sent and the ones set whose cancel was dealt  *)
(* with.  A waiting request is not held and not settled; requests wait in  *)
(* the order they were sent; none is lost; one that the reset has to wait  *)
(* for is held or ahead of it; and a late cancel is behind its request.    *)
(***************************************************************************)
Waits(q, ord, held, set) ==
    \A i \in 1..Len(q), r \in Requests :
        q[i] = Chat(r) => r \in ToSet(ord) /\ r \notin held /\ r \notin set
InOrder(q, ord) ==
    \A i, j \in 1..Len(q), k, l \in 1..Len(ord) :
        i < j /\ q[i] = Chat(ord[k]) /\ q[j] = Chat(ord[l]) => k < l
NoneLost(q, ord, held) ==
    \A r \in ToSet(ord) : r \in held \/ \E i \in 1..Len(q) : q[i] = Chat(r)
ResetWaits(q, held, bef) ==
    \A i \in 1..Len(q), r \in bef :
        q[i] = ResetCommand =>
            r \in held \/ \E j \in 1..Len(q) : j < i /\ q[j] = Chat(r)
CancelsBehind(q, lat) ==
    \A i, j \in 1..Len(q), r \in lat :
        i < j /\ q[i] = CancelOf(r) => q[j] # Chat(r)
Books(q, ord, held, bef, lat, set) ==
    /\ Waits(q, ord, held, set) /\ InOrder(q, ord) /\ NoneLost(q, ord, held)
    /\ ResetWaits(q, held, bef) /\ CancelsBehind(q, lat)

-----------------------------------------------------------------------------
(* The inductive invariant. *)

Typed ==
    /\ TypeOK /\ IsFiniteSet(open)
    /\ order \in Seq(Requests) /\ answered \in Seq(Requests)
    /\ before \subseteq ToSet(order) /\ late \subseteq ToSet(order)
    /\ settled \subseteq late

(* Each loop uses its own state, and a request runs only at "run". *)
Modes ==
    /\ mode = "sequential" => queue = <<>> /\ open = {}
    /\ mode = "continuous" => lines = <<>> /\ cur = None
    /\ phase = "serving" /\ mode = "sequential" =>
           pc \in {"top", "read", "run"} /\ (cur \in Requests <=> pc = "run")
    /\ phase \in DOMAIN NextStatus =>
           open = {} /\ cur = None /\ Q = <<>> /\ order = <<>>
    /\ phase = "clean" => open = {} /\ cur = None

Answers ==
    /\ dirty = {}
    /\ settled \intersect (open \union {cur}) = {}
    /\ IsInjective(order) /\ IsInjective(answered)
    /\ Held \subseteq ToSet(order)
    /\ ToSet(answered) \intersect (open \union {cur}) = {}

(* The sequential loop has answered the first requests sent, and runs the  *)
(* next one.                                                               *)
InTurn ==
    mode = "sequential" =>
        /\ Len(answered) <= Len(order)
        /\ \A k \in 1..Len(answered) : answered[k] = order[k]
        /\ cur \in Requests => /\ Len(answered) < Len(order)
                               /\ cur = order[Len(answered) + 1]

Waiting == phase = "serving" => Books(Q, order, Held, before, late, settled)

IInv == Typed /\ Modes /\ Answers /\ InTurn /\ Waiting

-----------------------------------------------------------------------------
(* Commands. *)

All == Commands \union {Eof}

LEMMA CommandFacts ==
    /\ \A r : Chat(r)[1] = "chat" /\ Chat(r)[2] = r
    /\ \A r : CancelOf(r)[1] = "cancel" /\ CancelOf(r)[2] = r
    /\ ResetCommand[1] = "reset" /\ ResetCommand[2] = None
    /\ Eof[1] = "eof"
    /\ \A r, s : Chat(r) = Chat(s) => r = s
    /\ \A r, s : CancelOf(r) = CancelOf(s) => r = s
    /\ \A r, s : Chat(r) # CancelOf(s)
    /\ \A r : Chat(r) # ResetCommand /\ Chat(r) # Eof
    /\ \A r : CancelOf(r) # ResetCommand /\ CancelOf(r) # Eof
    /\ ResetCommand # Eof
  BY DEF Chat, CancelOf, ResetCommand, Eof

LEMMA CommandCases ==
    ASSUME NEW c \in Commands
    PROVE  \/ c = ResetCommand
           \/ \E r \in Requests : c = Chat(r)
           \/ \E r \in Requests : c = CancelOf(r)
  BY WorkerMainAssumption DEF Commands

(* A command's first field tells which it is. *)
LEMMA CommandKind ==
    ASSUME NEW c \in Commands
    PROVE  /\ c # Eof
           /\ c[1] = "chat" => c = Chat(c[2]) /\ c[2] \in Requests
           /\ c[1] = "cancel" => c = CancelOf(c[2]) /\ c[2] \in Requests
           /\ c[1] = "reset" => c = ResetCommand
           /\ c[1] \in {"chat", "cancel", "reset"}
<1>1. CASE c = ResetCommand
  BY <1>1 DEF ResetCommand, Eof
<1>2. CASE \E r \in Requests : c = Chat(r)
  BY <1>2 DEF Chat, Eof
<1>3. CASE \E r \in Requests : c = CancelOf(r)
  BY <1>3 DEF CancelOf, Eof
<1> QED BY <1>1, <1>2, <1>3, CommandCases

(* What ToSet holds. *)
LEMMA ToSetIs ==
    ASSUME NEW S, NEW s \in Seq(S)
    PROVE  /\ \A x : x \in ToSet(s) <=> \E i \in 1..Len(s) : s[i] = x
           /\ ToSet(s) \subseteq S
           /\ \A i \in 1..Len(s) : s[i] \in ToSet(s)
  BY LenProperties DEF ToSet

LEMMA ToSetAppend ==
    ASSUME NEW S, NEW s \in Seq(S), NEW e \in S
    PROVE  ToSet(Append(s, e)) = ToSet(s) \union {e}
<1> DEFINE t == Append(s, e)
<1>1. /\ t \in Seq(S) /\ Len(t) = Len(s) + 1 /\ t[Len(s) + 1] = e
      /\ \A i \in 1..Len(s) : t[i] = s[i]
  BY AppendProperties
<1>2. Len(s) \in Nat
  BY LenProperties
<1>3. \A x : x \in ToSet(s) <=> \E i \in 1..Len(s) : s[i] = x
  BY ToSetIs
<1>4. \A x : x \in ToSet(t) <=> \E i \in 1..Len(t) : t[i] = x
  BY ToSetIs, <1>1
<1> HIDE DEF t
<1>5. \A x : x \in ToSet(t) <=> x \in ToSet(s) \/ x = e
  BY <1>1, <1>2, <1>3, <1>4
<1>6. ToSet(t) = ToSet(s) \union {e}
  BY <1>5
<1> QED BY <1>6 DEF t

LEMMA InjectiveAppend ==
    ASSUME NEW S, NEW s \in Seq(S), NEW e \in S, IsInjective(s),
           e \notin ToSet(s)
    PROVE  IsInjective(Append(s, e))
<1> DEFINE t == Append(s, e)
<1>1. /\ t \in Seq(S) /\ Len(t) = Len(s) + 1 /\ t[Len(s) + 1] = e
      /\ \A i \in 1..Len(s) : t[i] = s[i]
  BY AppendProperties
<1>2. Len(s) \in Nat /\ DOMAIN s = 1..Len(s)
  BY LenProperties
<1>3. \A i \in 1..Len(s) : s[i] # e
  BY ToSetIs
<1>4. DOMAIN t = 1..Len(t)
  BY LenProperties, <1>1
<1> HIDE DEF t
<1>5. \A a, b \in 1..Len(s) : s[a] = s[b] => a = b
  BY <1>2 DEF IsInjective
<1>6. \A a, b \in 1..Len(t) : t[a] = t[b] => a = b
  BY <1>1, <1>2, <1>3, <1>5
<1>7. IsInjective(t)
  BY <1>4, <1>6 DEF IsInjective
<1> QED BY <1>7 DEF t

(* Without a repetition a sequence has as many elements as it is long. *)
LEMMA InjectiveCounts ==
    ASSUME NEW S, NEW s \in Seq(S), IsInjective(s)
    PROVE  Cardinality(ToSet(s)) = Len(s)
<1>1. Len(s) \in Nat /\ s \in [1..Len(s) -> S] /\ DOMAIN s = 1..Len(s)
  BY LenProperties
<1>2. s \in [1..Len(s) -> ToSet(s)]
  BY <1>1, ToSetIs
<1>3. \A a, b \in 1..Len(s) : s[a] = s[b] => a = b
  BY <1>1 DEF IsInjective
<1>4. \A x \in ToSet(s) : \E i \in 1..Len(s) : s[i] = x
  BY ToSetIs
<1>5. s \in Bijection(1..Len(s), ToSet(s))
  BY <1>2, <1>3, <1>4, Fun_IsBij
<1>6. ExistsBijection(1..Len(s), ToSet(s))
  BY <1>5, Fun_ExistsBij
<1> QED BY <1>1, <1>6, FS_CountingElements

(* SetToSeq lists a finite set, each element once. *)
LEMMA SetToSeqLists ==
    ASSUME NEW S, IsFiniteSet(S)
    PROVE  /\ SetToSeq(S) \in Seq(S)
           /\ IsInjective(SetToSeq(S))
           /\ ToSet(SetToSeq(S)) = S
<1> DEFINE n == Cardinality(S)
<1> DEFINE s == SetToSeq(S)
<1>1. n \in Nat /\ ExistsBijection(1..n, S)
  BY FS_CardinalityType
<1>2. PICK f \in Bijection(1..n, S) : TRUE
  BY <1>1, Fun_ExistsBij
<1>3. f \in [1..n -> S] /\ \A a, b \in 1..n : f[a] = f[b] => a = b
  BY <1>2, Fun_BijectionProperties
<1>4. DOMAIN f = 1..n
  BY <1>3
<1>5. IsInjective(f)
  BY <1>3, <1>4 DEF IsInjective
<1>6. s \in [1..n -> S] /\ IsInjective(s)
  BY <1>3, <1>5 DEF SetToSeq
<1> HIDE DEF s
<1>7. s \in Seq(S)
  BY <1>1, <1>6, SeqDef, Zenon
<1>8. DOMAIN s = 1..n
  BY <1>6
<1>9. \A a, b \in 1..n : s[a] = s[b] => a = b
  BY <1>6, <1>8 DEF IsInjective
<1>10. s \in Injection(1..n, S)
  BY <1>6, <1>9, Fun_IsInj
<1>11. IsFiniteSet(1..n) /\ Cardinality(1..n) = n
  <2>1. ExistsBijection(1..n, 1..n)
    BY Fun_ExistsBijReflexive
  <2> QED BY <1>1, <2>1, FS_NatBijection, FS_CountingElements
<1>12. s \in Surjection(1..n, S)
  BY <1>10, <1>11, FS_Injection
<1>13. \A x \in S : \E i \in 1..n : s[i] = x
  BY <1>12 DEF Surjection
<1>14. \A x \in S : x \in ToSet(s)
  BY <1>8, <1>13 DEF ToSet
<1>15. ToSet(s) \subseteq S
  BY <1>7, ToSetIs
<1>16. ToSet(s) = S
  BY <1>14, <1>15
<1> QED BY <1>6, <1>7, <1>16 DEF s

-----------------------------------------------------------------------------
(* What sending and handling commands does to the books. *)

(* q2 is q without its p-th command. *)
Without(q, q2, p) ==
    /\ Len(q2) = Len(q) - 1
    /\ \A i \in 1..Len(q2) : q2[i] = IF i < p THEN q[i] ELSE q[i + 1]

(* q2 is q with one more command. *)
With(q, q2, c) ==
    /\ Len(q2) = Len(q) + 1
    /\ \A i \in 1..Len(q) : q2[i] = q[i]
    /\ q2[Len(q) + 1] = c

(***************************************************************************)
(* The p-th command is taken: if it is a request the request is held from  *)
(* now on, and nothing else is; only requests that do not wait are settled.*)
(***************************************************************************)
LEMMA BooksDrop ==
    ASSUME NEW q, NEW q2, Len(q) \in Nat, NEW p \in 1..Len(q),
           NEW ord \in Seq(Requests), NEW held, NEW held2, NEW bef,
           NEW lat, NEW set, NEW set2,
           bef \subseteq ToSet(ord), lat \subseteq ToSet(ord),
           Without(q, q2, p),
           Books(q, ord, held, bef, lat, set),
           held \subseteq held2,
           \A r \in Requests : r \in held2 => r \in held \/ q[p] = Chat(r),
           \A r \in Requests : q[p] = Chat(r) => r \in held2,
           \A r \in Requests : r \in set2 =>
               r \in set \/ \A i \in 1..Len(q) : q[i] # Chat(r)
    PROVE  Books(q2, ord, held2, bef, lat, set2)
<1> DEFINE f(i) == IF i < p THEN i ELSE i + 1
<1>1. Len(q2) \in Nat /\ \A i \in 1..Len(q2) : f(i) \in 1..Len(q) \ {p}
                                              /\ q2[i] = q[f(i)]
  BY DEF Without
<1>2. \A i, j \in 1..Len(q2) : i < j => f(i) < f(j)
  BY <1>1
<1>3. \A j \in 1..Len(q) : j # p => \E i \in 1..Len(q2) : f(i) = j
  <2> SUFFICES ASSUME NEW j \in 1..Len(q), j # p
               PROVE  \E i \in 1..Len(q2) : f(i) = j
    OBVIOUS
  <2>0. Len(q2) = Len(q) - 1
    BY DEF Without
  <2>1. CASE j < p
    <3>1. j \in 1..Len(q2) /\ f(j) = j
      BY <2>0, <2>1
    <3> QED BY <3>1
  <2>2. CASE j > p
    <3>1. j - 1 \in 1..Len(q2) /\ f(j - 1) = j
      BY <2>0, <2>2
    <3> QED BY <3>1
  <2> QED BY <2>1, <2>2
<1>4. \A i, j \in 1..Len(q2) : f(i) < f(j) => i < j
  BY <1>1
<1> HIDE DEF f
<1>5. ToSet(ord) \subseteq Requests
      /\ \A x : x \in ToSet(ord) <=> \E i \in 1..Len(ord) : ord[i] = x
  BY ToSetIs
<1>6. Len(ord) \in Nat
  BY LenProperties
<1>7. /\ Waits(q, ord, held, set) /\ InOrder(q, ord)
      /\ NoneLost(q, ord, held)
      /\ ResetWaits(q, held, bef) /\ CancelsBehind(q, lat)
  BY DEF Books
<1>8. \A i, j \in 1..Len(q), r \in Requests :
          q[i] = Chat(r) /\ q[j] = Chat(r) => i = j
  <2> SUFFICES ASSUME NEW i \in 1..Len(q), NEW j \in 1..Len(q), 
                      NEW r \in Requests, q[i] = Chat(r), q[j] = Chat(r),
                      i < j
               PROVE  FALSE
    OBVIOUS
  <2>1. PICK k \in 1..Len(ord) : ord[k] = r
    BY <1>5, <1>7 DEF Waits
  <2>2. k < k
    BY <2>1, <1>7 DEF InOrder
  <2> QED BY <2>2, <1>6
<1>9. Waits(q2, ord, held2, set2)
  <2> SUFFICES ASSUME NEW i \in 1..Len(q2), NEW r \in Requests,
                      q2[i] = Chat(r)
               PROVE  r \in ToSet(ord) /\ r \notin held2 /\ r \notin set2
    BY DEF Waits
  <2>1. f(i) \in 1..Len(q) /\ f(i) # p /\ q[f(i)] = Chat(r)
    BY <1>1
  <2>2. r \in ToSet(ord) /\ r \notin held /\ r \notin set
    BY <2>1, <1>7 DEF Waits
  <2>3. q[p] # Chat(r)
    BY <2>1, <1>8
  <2> QED BY <2>1, <2>2, <2>3
<1>10. InOrder(q2, ord)
  <2> SUFFICES ASSUME NEW i \in 1..Len(q2), NEW j \in 1..Len(q2),
                      NEW k \in 1..Len(ord), NEW l \in 1..Len(ord),
                      i < j, q2[i] = Chat(ord[k]), q2[j] = Chat(ord[l])
               PROVE  k < l
    BY DEF InOrder
  <2>1. /\ f(i) \in 1..Len(q) /\ f(j) \in 1..Len(q) /\ f(i) < f(j)
        /\ q[f(i)] = Chat(ord[k]) /\ q[f(j)] = Chat(ord[l])
    BY <1>1, <1>2
  <2> QED BY <2>1, <1>7 DEF InOrder
<1>11. NoneLost(q2, ord, held2)
  <2> SUFFICES ASSUME NEW r \in ToSet(ord), r \notin held2
               PROVE  \E i \in 1..Len(q2) : q2[i] = Chat(r)
    BY DEF NoneLost
  <2>1. r \notin held /\ r \in Requests /\ q[p] # Chat(r)
    BY <1>5
  <2>2. PICK j \in 1..Len(q) : q[j] = Chat(r)
    BY <2>1, <1>7 DEF NoneLost
  <2>3. PICK i \in 1..Len(q2) : f(i) = j
    BY <2>1, <2>2, <1>3
  <2> QED BY <2>2, <2>3, <1>1
<1>12. ResetWaits(q2, held2, bef)
  <2> SUFFICES ASSUME NEW i \in 1..Len(q2), NEW r \in bef,
                      q2[i] = ResetCommand, r \notin held2
               PROVE  \E j \in 1..Len(q2) : j < i /\ q2[j] = Chat(r)
    BY DEF ResetWaits
  <2>1. r \notin held /\ r \in Requests /\ q[p] # Chat(r)
    BY <1>5
  <2>2. f(i) \in 1..Len(q) /\ q[f(i)] = ResetCommand
    BY <1>1
  <2>3. PICK k \in 1..Len(q) : k < f(i) /\ q[k] = Chat(r)
    BY <2>1, <2>2, <1>7 DEF ResetWaits
  <2>4. PICK j \in 1..Len(q2) : f(j) = k
    BY <2>1, <2>3, <1>3
  <2>5. j < i /\ q2[j] = Chat(r)
    BY <2>3, <2>4, <1>1, <1>4
  <2> QED BY <2>5
<1>13. CancelsBehind(q2, lat)
  BY <1>1, <1>2, <1>7 DEF CancelsBehind
<1> QED BY <1>9, <1>10, <1>11, <1>12, <1>13 DEF Books

(* A new request is sent. *)
LEMMA BooksSendChat ==
    ASSUME NEW q, NEW q2, Len(q) \in Nat, NEW c \in Requests,
           NEW ord \in Seq(Requests), NEW ord2 \in Seq(Requests), NEW held,
           NEW bef, NEW lat, NEW set,
           bef \subseteq ToSet(ord), lat \subseteq ToSet(ord),
           held \subseteq ToSet(ord), set \subseteq ToSet(ord),
           With(q, q2, Chat(c)), With(ord, ord2, c), c \notin ToSet(ord),
           Books(q, ord, held, bef, lat, set)
    PROVE  Books(q2, ord2, held, bef, lat, set)
<1>1. Len(ord) \in Nat
  BY LenProperties
<1>2. /\ \A x : x \in ToSet(ord) <=> \E i \in 1..Len(ord) : ord[i] = x
      /\ \A x : x \in ToSet(ord2) <=> \E i \in 1..Len(ord2) : ord2[i] = x
      /\ ToSet(ord) \subseteq Requests
  BY ToSetIs
<1>3. /\ Waits(q, ord, held, set) /\ InOrder(q, ord)
      /\ NoneLost(q, ord, held)
      /\ ResetWaits(q, held, bef) /\ CancelsBehind(q, lat)
  BY DEF Books
<1>4. /\ Len(q2) = Len(q) + 1 /\ q2[Len(q) + 1] = Chat(c)
      /\ \A i \in 1..Len(q) : q2[i] = q[i]
  BY DEF With
<1>5. /\ Len(ord2) = Len(ord) + 1 /\ ord2[Len(ord) + 1] = c
      /\ \A i \in 1..Len(ord) : ord2[i] = ord[i]
  BY DEF With
<1>6. /\ \A r, s : Chat(r) = Chat(s) => r = s
      /\ \A r : Chat(r) # ResetCommand
      /\ \A r, s : Chat(r) # CancelOf(s)
  BY CommandFacts
<1>7. ToSet(ord2) = ToSet(ord) \union {c}
  <2>1. \A x : x \in ToSet(ord2) <=> x \in ToSet(ord) \/ x = c
    BY <1>1, <1>2, <1>5
  <2> QED BY <2>1
<1>8. \A i \in 1..Len(q) : q[i] # Chat(c)
  BY <1>3 DEF Waits
<1>9. Waits(q2, ord2, held, set)
  <2> SUFFICES ASSUME NEW i \in 1..Len(q2), NEW r \in Requests,
                      q2[i] = Chat(r)
               PROVE  r \in ToSet(ord2) /\ r \notin held /\ r \notin set
    BY DEF Waits
  <2>1. CASE i \in 1..Len(q)
    BY <2>1, <1>3, <1>4, <1>7 DEF Waits
  <2>2. CASE i = Len(q) + 1
    BY <2>2, <1>4, <1>6, <1>7
  <2> QED BY <2>1, <2>2, <1>4
<1>10. InOrder(q2, ord2)
  <2> SUFFICES ASSUME NEW i \in 1..Len(q2), NEW j \in 1..Len(q2),
                      NEW k \in 1..Len(ord2), NEW l \in 1..Len(ord2),
                      i < j, q2[i] = Chat(ord2[k]), q2[j] = Chat(ord2[l])
               PROVE  k < l
    BY DEF InOrder
  <2>1. i \in 1..Len(q) /\ q[i] = Chat(ord2[k])
    BY <1>4
  <2>2. ord2[k] # c /\ k \in 1..Len(ord) /\ ord2[k] = ord[k]
    BY <2>1, <1>1, <1>5, <1>8
  <2>3. CASE j = Len(q) + 1
    <3>1. ord2[l] = c
      BY <2>3, <1>4, <1>6
    <3>2. l \notin 1..Len(ord)
      BY <3>1, <1>2, <1>5
    <3> QED BY <3>2, <2>2, <1>1, <1>5
  <2>4. CASE j \in 1..Len(q)
    <3>1. q[j] = Chat(ord2[l])
      BY <2>4, <1>4
    <3>2. ord2[l] # c /\ l \in 1..Len(ord) /\ ord2[l] = ord[l]
      BY <2>4, <3>1, <1>1, <1>5, <1>8
    <3> QED BY <2>1, <2>2, <2>4, <3>1, <3>2, <1>3 DEF InOrder
  <2> QED BY <2>3, <2>4, <1>4
<1>11. NoneLost(q2, ord2, held)
  <2> SUFFICES ASSUME NEW r \in ToSet(ord2), r \notin held
               PROVE  \E i \in 1..Len(q2) : q2[i] = Chat(r)
    BY DEF NoneLost
  <2>1. CASE r = c
    BY <2>1, <1>4
  <2>2. CASE r \in ToSet(ord)
    <3>1. PICK i \in 1..Len(q) : q[i] = Chat(r)
      BY <2>2, <1>3 DEF NoneLost
    <3> QED BY <3>1, <1>4
  <2> QED BY <2>1, <2>2, <1>7
<1>12. ResetWaits(q2, held, bef)
  BY <1>3, <1>4, <1>6 DEF ResetWaits
<1>13. CancelsBehind(q2, lat)
  <2> SUFFICES ASSUME NEW i \in 1..Len(q2), NEW j \in 1..Len(q2),
                      NEW r \in lat, i < j, q2[i] = CancelOf(r)
               PROVE  q2[j] # Chat(r)
    BY DEF CancelsBehind
  <2>1. i \in 1..Len(q) /\ q[i] = CancelOf(r)
    BY <1>4
  <2>2. CASE j \in 1..Len(q)
    BY <2>1, <2>2, <1>3, <1>4 DEF CancelsBehind
  <2>3. CASE j = Len(q) + 1
    BY <2>3, <1>4, <1>6
  <2> QED BY <2>2, <2>3, <1>4
<1> QED BY <1>9, <1>10, <1>11, <1>12, <1>13 DEF Books

(***************************************************************************)
(* Another command is sent: a cancel, late if the request was sent before, *)
(* the reset, if none is waiting, or the end of the socket.                *)
(***************************************************************************)
LEMMA BooksSendOther ==
    ASSUME NEW q, NEW q2, Len(q) \in Nat, NEW c,
           NEW ord \in Seq(Requests), NEW held,
           NEW bef, NEW bef2, NEW lat, NEW lat2, NEW set,
           With(q, q2, c), \A r : c # Chat(r),
           bef2 \subseteq ToSet(ord), lat2 \subseteq ToSet(ord),
           c # ResetCommand => bef2 = bef,
           c = ResetCommand => \A i \in 1..Len(q) : q[i] # ResetCommand,
           \A r \in lat2 : r \in lat \/ \A i \in 1..Len(q) : q[i] # CancelOf(r),
           Books(q, ord, held, bef, lat, set)
    PROVE  Books(q2, ord, held, bef2, lat2, set)
<1>1. /\ Waits(q, ord, held, set) /\ InOrder(q, ord)
      /\ NoneLost(q, ord, held)
      /\ ResetWaits(q, held, bef) /\ CancelsBehind(q, lat)
  BY DEF Books
<1>2. /\ Len(q2) = Len(q) + 1 /\ q2[Len(q) + 1] = c
      /\ \A i \in 1..Len(q) : q2[i] = q[i]
  BY DEF With
<1>3. \A i \in 1..Len(q2) : \A r : q2[i] = Chat(r) =>
          i \in 1..Len(q) /\ q[i] = Chat(r)
  BY <1>2
<1>4. Waits(q2, ord, held, set)
  BY <1>1, <1>3 DEF Waits
<1>5. InOrder(q2, ord)
  BY <1>1, <1>3 DEF InOrder
<1>6. NoneLost(q2, ord, held)
  BY <1>1, <1>2 DEF NoneLost
<1>7. ResetWaits(q2, held, bef2)
  <2> SUFFICES ASSUME NEW i \in 1..Len(q2), NEW r \in bef2,
                      q2[i] = ResetCommand, r \notin held
               PROVE  \E j \in 1..Len(q2) : j < i /\ q2[j] = Chat(r)
    BY DEF ResetWaits
  <2>1. CASE i \in 1..Len(q)
    <3>1. q[i] = ResetCommand /\ bef2 = bef
      BY <2>1, <1>2
    <3>2. PICK j \in 1..Len(q) : j < i /\ q[j] = Chat(r)
      BY <2>1, <3>1, <1>1 DEF ResetWaits
    <3> QED BY <3>2, <1>2
  <2>2. CASE i = Len(q) + 1
    <3>1. PICK j \in 1..Len(q) : q[j] = Chat(r)
      BY <1>1 DEF NoneLost
    <3> QED BY <3>1, <2>2, <1>2
  <2> QED BY <2>1, <2>2, <1>2
<1>8. CancelsBehind(q2, lat2)
  <2> SUFFICES ASSUME NEW i \in 1..Len(q2), NEW j \in 1..Len(q2),
                      NEW r \in lat2, i < j, q2[i] = CancelOf(r),
                      q2[j] = Chat(r)
               PROVE  FALSE
    BY DEF CancelsBehind
  <2>1. j \in 1..Len(q) /\ q[j] = Chat(r) /\ i \in 1..Len(q)
    BY <1>2, <1>3
  <2>2. q[i] = CancelOf(r)
    BY <2>1, <1>2
  <2> QED BY <2>1, <2>2, <1>1 DEF CancelsBehind
<1> QED BY <1>4, <1>5, <1>6, <1>7, <1>8 DEF Books

-----------------------------------------------------------------------------
(* The three sequences that commands wait in, end to end. *)

LEMMA Joined ==
    ASSUME NEW S, NEW l \in Seq(S), NEW u \in Seq(S), NEW w \in Seq(S)
    PROVE  /\ l \o u \o w \in Seq(S)
           /\ Len(l) \in Nat /\ Len(u) \in Nat /\ Len(w) \in Nat
           /\ Len(l \o u \o w) = Len(l) + Len(u) + Len(w)
           /\ \A i \in 1..Len(l) : (l \o u \o w)[i] = l[i]
           /\ \A i \in 1..Len(u) : (l \o u \o w)[Len(l) + i] = u[i]
           /\ \A i \in 1..Len(w) : (l \o u \o w)[Len(l) + Len(u) + i] = w[i]
<1> DEFINE a == l \o u
<1>1. /\ a \in Seq(S) /\ Len(a) = Len(l) + Len(u)
      /\ \A i \in 1..Len(l) + Len(u) :
             a[i] = IF i <= Len(l) THEN l[i] ELSE u[i - Len(l)]
  BY ConcatProperties
<1>2. Len(l) \in Nat /\ Len(u) \in Nat /\ Len(w) \in Nat
  BY LenProperties
<1> HIDE DEF a
<1> DEFINE b == a \o w
<1>a. a \in Seq(S)
  BY <1>1
<1>3. /\ b \in Seq(S) /\ Len(b) = Len(a) + Len(w)
      /\ \A i \in 1..Len(a) + Len(w) :
             b[i] = IF i <= Len(a) THEN a[i] ELSE w[i - Len(a)]
  BY <1>a, ConcatProperties
<1> HIDE DEF b
<1>4. Len(b) = Len(l) + Len(u) + Len(w)
  BY <1>1, <1>2, <1>3
<1>5. \A i \in 1..Len(l) : b[i] = l[i]
  BY <1>1, <1>2, <1>3
<1>6. \A i \in 1..Len(u) : b[Len(l) + i] = u[i]
  <2> SUFFICES ASSUME NEW i \in 1..Len(u) PROVE b[Len(l) + i] = u[i]
    OBVIOUS
  <2> DEFINE j == Len(l) + i
  <2>1. /\ j \in 1..Len(l) + Len(u) /\ j \in 1..Len(a) + Len(w)
        /\ ~(j <= Len(l)) /\ j <= Len(a) /\ j - Len(l) = i
    BY <1>1, <1>2
  <2> HIDE DEF j
  <2>2. b[j] = a[j]
    BY <2>1, <1>3
  <2>3. a[j] = u[j - Len(l)]
    BY <2>1, <1>1
  <2> QED BY <2>1, <2>2, <2>3 DEF j
<1>7. \A i \in 1..Len(w) : b[Len(l) + Len(u) + i] = w[i]
  <2> SUFFICES ASSUME NEW i \in 1..Len(w) PROVE b[Len(l) + Len(u) + i] = w[i]
    OBVIOUS
  <2> DEFINE j == Len(l) + Len(u) + i
  <2>1. j \in 1..Len(a) + Len(w) /\ ~(j <= Len(a)) /\ j - Len(a) = i
    BY <1>1, <1>2
  <2> HIDE DEF j
  <2>2. b[j] = w[j - Len(a)]
    BY <2>1, <1>3
  <2> QED BY <2>1, <2>2 DEF j
<1> QED BY <1>2, <1>3, <1>4, <1>5, <1>6, <1>7 DEF a, b

LEMMA WithAppend ==
    ASSUME NEW S, NEW s \in Seq(S), NEW c \in S
    PROVE  With(s, Append(s, c), c)
  BY AppendProperties DEF With

(* Sending puts a command behind all others. *)
LEMMA JoinedSend ==
    ASSUME NEW S, NEW l \in Seq(S), NEW u \in Seq(S), NEW w \in Seq(S),
           NEW c \in S
    PROVE  With(l \o u \o w, l \o u \o Append(w, c), c)
<1> DEFINE x == Append(w, c)
<1> DEFINE q == l \o u \o w
<1> DEFINE q2 == l \o u \o x
<1>1. /\ x \in Seq(S) /\ Len(x) = Len(w) + 1 /\ x[Len(w) + 1] = c
      /\ \A i \in 1..Len(w) : x[i] = w[i]
  BY AppendProperties
<1> HIDE DEF x
<1>2. /\ Len(l) \in Nat /\ Len(u) \in Nat /\ Len(w) \in Nat
      /\ Len(q) = Len(l) + Len(u) + Len(w)
      /\ \A i \in 1..Len(l) : q[i] = l[i]
      /\ \A i \in 1..Len(u) : q[Len(l) + i] = u[i]
      /\ \A i \in 1..Len(w) : q[Len(l) + Len(u) + i] = w[i]
  BY Joined
<1>3. /\ Len(q2) = Len(l) + Len(u) + Len(x)
      /\ \A i \in 1..Len(l) : q2[i] = l[i]
      /\ \A i \in 1..Len(u) : q2[Len(l) + i] = u[i]
      /\ \A i \in 1..Len(x) : q2[Len(l) + Len(u) + i] = x[i]
  <2>1. x \in Seq(S)
    BY <1>1
  <2> QED BY <2>1, Joined
<1> HIDE DEF q, q2
<1>4. \A i \in 1..Len(q) : q2[i] = q[i]
  <2> SUFFICES ASSUME NEW i \in 1..Len(q) PROVE q2[i] = q[i]
    OBVIOUS
  <2>1. CASE i <= Len(l)
    BY <2>1, <1>2, <1>3
  <2>2. CASE i > Len(l) /\ i <= Len(l) + Len(u)
    <3> DEFINE k == i - Len(l)
    <3>1. k \in 1..Len(u) /\ Len(l) + k = i
      BY <2>2, <1>2
    <3> HIDE DEF k
    <3>2. q[Len(l) + k] = u[k] /\ q2[Len(l) + k] = u[k]
      BY <3>1, <1>2, <1>3
    <3> QED BY <3>1, <3>2
  <2>3. CASE i > Len(l) + Len(u)
    <3> DEFINE k == i - (Len(l) + Len(u))
    <3>1. k \in 1..Len(w) /\ k \in 1..Len(x) /\ Len(l) + Len(u) + k = i
      BY <2>3, <1>1, <1>2
    <3> HIDE DEF k
    <3>2. q[Len(l) + Len(u) + k] = w[k] /\ q2[Len(l) + Len(u) + k] = x[k]
      BY <3>1, <1>2, <1>3
    <3>3. x[k] = w[k]
      BY <3>1, <1>1
    <3> QED BY <3>1, <3>2, <3>3
  <2> QED BY <2>1, <2>2, <2>3, <1>2
<1>5. Len(q2) = Len(q) + 1 /\ q2[Len(q) + 1] = c
  <2>1. Len(w) + 1 \in 1..Len(x)
    BY <1>1, <1>2
  <2>2. q2[Len(l) + Len(u) + (Len(w) + 1)] = c
    BY <2>1, <1>1, <1>3
  <2> QED BY <2>2, <1>1, <1>2, <1>3
<1>6. With(q, q2, c)
  BY <1>4, <1>5 DEF With
<1> QED BY <1>6 DEF q, q2, x

(* What the worker takes is the first command of the sequence it is in. *)
LEMMA TailWithout ==
    ASSUME NEW S, NEW s \in Seq(S), s # <<>>
    PROVE  /\ Without(s, Tail(s), 1) /\ 1 \in 1..Len(s) /\ s[1] = Head(s)
           /\ Head(s) \in S /\ Tail(s) \in Seq(S)
           /\ Len(s) \in Nat \ {0} /\ Len(Tail(s)) = Len(s) - 1
           /\ \A i \in 1..Len(s) - 1 : Tail(s)[i] = s[i + 1]
<1>1. Len(s) \in Nat \ {0}
  BY EmptySeq
<1>2. Head(s) = s[1]
  OBVIOUS
<1>3. /\ Head(s) \in S /\ Tail(s) \in Seq(S)
      /\ Len(Tail(s)) = Len(s) - 1
      /\ \A i \in 1..Len(Tail(s)) : Tail(s)[i] = s[i + 1]
  BY HeadTailProperties
<1> QED BY <1>1, <1>2, <1>3 DEF Without

LEMMA JoinedTakeFirst ==
    ASSUME NEW S, NEW l \in Seq(S), NEW u \in Seq(S), NEW w \in Seq(S),
           l # <<>>
    PROVE  /\ Without(l \o u \o w, Tail(l) \o u \o w, 1)
           /\ (l \o u \o w)[1] = Head(l) /\ 1 \in 1..Len(l \o u \o w)
<1>0. ASSUME NEW x \in Seq(S) PROVE (x \o u) \o w = x \o (u \o w)
  BY ConcatAssociative
<1>1. l \o u \o w = l \o (u \o w)
  BY <1>0
<1>2. Tail(l) \in Seq(S)
  BY TailWithout
<1>3. Tail(l) \o u \o w = Tail(l) \o (u \o w)
  BY <1>0, <1>2
<1>4. u \o w \in Seq(S)
  BY ConcatProperties
<1> DEFINE v == u \o w
<1> DEFINE t == Tail(l)
<1>5. v \in Seq(S) /\ Len(v) \in Nat
  BY <1>4, LenProperties
<1>6. /\ Len(l) \in Nat \ {0} /\ Len(t) = Len(l) - 1 /\ l[1] = Head(l)
      /\ t \in Seq(S) /\ \A i \in 1..Len(l) - 1 : t[i] = l[i + 1]
  BY TailWithout
<1> HIDE DEF v, t
<1> DEFINE q == l \o v
<1> DEFINE q2 == t \o v
<1>7. /\ Len(q) = Len(l) + Len(v)
      /\ \A i \in 1..Len(l) + Len(v) :
             q[i] = IF i <= Len(l) THEN l[i] ELSE v[i - Len(l)]
  BY <1>5, ConcatProperties
<1>8. /\ Len(q2) = Len(t) + Len(v)
      /\ \A i \in 1..Len(t) + Len(v) :
             q2[i] = IF i <= Len(t) THEN t[i] ELSE v[i - Len(t)]
  BY <1>5, <1>6, ConcatProperties
<1> HIDE DEF q, q2
<1>9. \A i \in 1..Len(q2) : q2[i] = q[i + 1]
  <2> SUFFICES ASSUME NEW i \in 1..Len(q2) PROVE q2[i] = q[i + 1]
    OBVIOUS
  <2>1. CASE i <= Len(t)
    BY <2>1, <1>5, <1>6, <1>7, <1>8
  <2>2. CASE i > Len(t)
    <3>1. q2[i] = v[i - Len(t)]
      BY <2>2, <1>5, <1>6, <1>8
    <3>2. q[i + 1] = v[(i + 1) - Len(l)]
      BY <2>2, <1>5, <1>6, <1>7, <1>8
    <3>3. (i + 1) - Len(l) = i - Len(t)
      BY <1>6
    <3> QED BY <3>1, <3>2, <3>3
  <2> QED BY <2>1, <2>2, <1>6
<1>10. Without(q, q2, 1) /\ q[1] = Head(l) /\ 1 \in 1..Len(q)
  BY <1>5, <1>6, <1>7, <1>8, <1>9 DEF Without
<1> QED BY <1>1, <1>3, <1>10 DEF q, q2, v, t

(* A command of the socket is taken, past the ones that wait elsewhere. *)
LEMMA JoinedTakeLast ==
    ASSUME NEW S, NEW l \in Seq(S), NEW w \in Seq(S), w # <<>>
    PROVE  /\ Without(l \o <<>> \o w, l \o <<>> \o Tail(w), Len(l) + 1)
           /\ (l \o <<>> \o w)[Len(l) + 1] = Head(w)
           /\ Len(l) + 1 \in 1..Len(l \o <<>> \o w)
<1>1. l \o <<>> = l
  BY ConcatEmptySeq
<1> DEFINE t == Tail(w)
<1>2. /\ Len(w) \in Nat \ {0} /\ Len(t) = Len(w) - 1 /\ w[1] = Head(w)
      /\ t \in Seq(S) /\ \A i \in 1..Len(w) - 1 : t[i] = w[i + 1]
  BY TailWithout
<1> HIDE DEF t
<1>3. Len(l) \in Nat
  BY LenProperties
<1> DEFINE q == l \o w
<1> DEFINE q2 == l \o t
<1>4. /\ Len(q) = Len(l) + Len(w)
      /\ \A i \in 1..Len(l) + Len(w) :
             q[i] = IF i <= Len(l) THEN l[i] ELSE w[i - Len(l)]
  BY ConcatProperties
<1>5. /\ Len(q2) = Len(l) + Len(t)
      /\ \A i \in 1..Len(l) + Len(t) :
             q2[i] = IF i <= Len(l) THEN l[i] ELSE t[i - Len(l)]
  BY <1>2, ConcatProperties
<1> HIDE DEF q, q2
<1>6. \A i \in 1..Len(q2) : q2[i] = IF i < Len(l) + 1 THEN q[i] ELSE q[i + 1]
  <2> SUFFICES ASSUME NEW i \in 1..Len(q2)
               PROVE  q2[i] = IF i < Len(l) + 1 THEN q[i] ELSE q[i + 1]
    OBVIOUS
  <2>1. CASE i <= Len(l)
    <3>1. i \in 1..Len(l) + Len(t) /\ i \in 1..Len(l) + Len(w)
          /\ i < Len(l) + 1
      BY <2>1, <1>2, <1>3, <1>5
    <3>2. q2[i] = l[i] /\ q[i] = l[i]
      BY <2>1, <3>1, <1>4, <1>5
    <3> QED BY <3>1, <3>2
  <2>2. CASE i > Len(l)
    <3>1. q2[i] = t[i - Len(l)] /\ i - Len(l) \in 1..Len(w) - 1
      BY <2>2, <1>2, <1>3, <1>5
    <3>2. q[i + 1] = w[(i + 1) - Len(l)]
      BY <2>2, <1>2, <1>3, <1>4, <1>5
    <3>3. (i + 1) - Len(l) = (i - Len(l)) + 1
      BY <1>3
    <3>4. t[i - Len(l)] = w[(i - Len(l)) + 1]
      BY <3>1, <1>2
    <3> QED BY <2>2, <3>1, <3>2, <3>3, <3>4, <1>3
  <2> QED BY <2>1, <2>2, <1>3
<1>7. q[Len(l) + 1] = Head(w) /\ Len(l) + 1 \in 1..Len(q)
  BY <1>2, <1>3, <1>4
<1>8. Without(q, q2, Len(l) + 1)
  BY <1>2, <1>4, <1>5, <1>6, <1>3 DEF Without
<1> QED BY <1>1, <1>7, <1>8 DEF q, q2, t

(* Moving the first command of one sequence to the end of the one before. *)
LEMMA JoinedMove ==
    ASSUME NEW S, NEW u \in Seq(S), NEW w \in Seq(S), w # <<>>
    PROVE  Append(u, Head(w)) \o Tail(w) = u \o w
<1> DEFINE h == Head(w)
<1> DEFINE t == Tail(w)
<1> DEFINE a == Append(u, h)
<1>1. /\ Len(w) \in Nat \ {0} /\ Len(t) = Len(w) - 1 /\ w[1] = h
      /\ h \in S /\ t \in Seq(S) /\ \A i \in 1..Len(w) - 1 : t[i] = w[i + 1]
  BY TailWithout
<1> HIDE DEF h, t
<1>2. /\ a \in Seq(S) /\ Len(a) = Len(u) + 1 /\ a[Len(u) + 1] = h
      /\ \A i \in 1..Len(u) : a[i] = u[i]
  BY <1>1, AppendProperties
<1> HIDE DEF a
<1>3. Len(u) \in Nat
  BY LenProperties
<1> DEFINE q == u \o w
<1> DEFINE q2 == a \o t
<1>4. /\ q \in Seq(S) /\ Len(q) = Len(u) + Len(w)
      /\ \A i \in 1..Len(u) + Len(w) :
             q[i] = IF i <= Len(u) THEN u[i] ELSE w[i - Len(u)]
  BY ConcatProperties
<1>5. /\ q2 \in Seq(S) /\ Len(q2) = Len(a) + Len(t)
      /\ \A i \in 1..Len(a) + Len(t) :
             q2[i] = IF i <= Len(a) THEN a[i] ELSE t[i - Len(a)]
  BY <1>1, <1>2, ConcatProperties
<1> HIDE DEF q, q2
<1>6. \A i \in 1..Len(q) : q[i] = q2[i]
  <2> SUFFICES ASSUME NEW i \in 1..Len(q) PROVE q[i] = q2[i]
    OBVIOUS
  <2>1. CASE i <= Len(u)
    <3>1. /\ i \in 1..Len(u) + Len(w) /\ i \in 1..Len(a) + Len(t)
          /\ i \in 1..Len(u) /\ i <= Len(a)
      BY <2>1, <1>1, <1>2, <1>3, <1>4
    <3>2. q[i] = u[i] /\ q2[i] = a[i]
      BY <2>1, <3>1, <1>4, <1>5
    <3> QED BY <3>1, <3>2, <1>2
  <2>2. CASE i = Len(u) + 1
    <3>1. q[i] = w[1]
      BY <2>2, <1>1, <1>3, <1>4
    <3>2. q2[i] = a[Len(u) + 1]
      <4>1. i \in 1..Len(a) + Len(t) /\ i <= Len(a)
        BY <2>2, <1>1, <1>2, <1>3
      <4> QED BY <2>2, <4>1, <1>5
    <3> QED BY <3>1, <3>2, <1>1, <1>2
  <2>3. CASE i > Len(u) + 1
    <3>0. /\ i \in 1..Len(a) + Len(t) /\ ~(i <= Len(a))
          /\ i - Len(a) \in 1..Len(w) - 1
      BY <2>3, <1>1, <1>2, <1>3, <1>4
    <3>1. q2[i] = t[i - Len(a)] /\ i - Len(a) \in 1..Len(w) - 1
      BY <3>0, <1>5
    <3>2. t[i - Len(a)] = w[(i - Len(a)) + 1]
      BY <3>1, <1>1
    <3>3. (i - Len(a)) + 1 = i - Len(u)
      BY <1>2, <1>3
    <3>4. q[i] = w[i - Len(u)]
      BY <2>3, <1>1, <1>3, <1>4
    <3> QED BY <3>1, <3>2, <3>3, <3>4
  <2> QED BY <2>1, <2>2, <2>3, <1>3
<1>7. Len(q) = Len(q2)
  BY <1>1, <1>2, <1>3, <1>4, <1>5
<1>8. q = q2
  BY <1>4, <1>5, <1>6, <1>7, SeqEqual
<1> QED BY <1>8 DEF q, q2, a, h, t

-----------------------------------------------------------------------------
(* Types. *)

Flags == {stop, closed, seen, loaded, reader, vlmUp, pendingStop, textFirst}
           \subseteq BOOLEAN
Kinds ==
    /\ mode \in {"sequential", "continuous"}
    /\ phase \in DOMAIN NextStatus \union {"serving"} \union Ended
    /\ wire \in Seq(Commands) /\ lines \in Seq(Commands)
    /\ queue \in Seq(Commands \union {Eof})
    /\ pc \in {"start", "top", "read", "run", "get", "empty", "tick"}
    /\ cur \in Requests \union {None}
    /\ stage \in Stages \union {"none", "run"}
    /\ open \subseteq Requests /\ rounds \in 0..TickMax - 1

LEMMA TypeParts == TypeOK <=> Flags /\ Kinds
  BY DEF TypeOK, Flags, Kinds

LEMMA FlagsStep == Flags /\ [Next]_vars => Flags'
<1> SUFFICES ASSUME Flags, [Next]_vars PROVE Flags'
  OBVIOUS
<1> USE DEF Flags, bootVars, seqVars, contVars, sendVars
<1>1. CASE \E c \in Commands : GatewaySends(c)
  BY <1>1 DEF GatewaySends
<1>2. CASE GatewayCloses
  BY <1>2 DEF GatewayCloses
<1>3. CASE Sigterm
  BY <1>3 DEF Sigterm
<1>4. CASE BootStep
  BY <1>4 DEF BootStep
<1>5. CASE BootFails
  BY <1>5 DEF BootFails
<1>6. CASE SequentialTop
  BY <1>6 DEF SequentialTop
<1>7. CASE SequentialEof
  BY <1>7 DEF SequentialEof
<1>8. CASE Prepare
  <2>1. seen' \in BOOLEAN
    BY <1>8 DEF Prepare, Poll, ShouldCancel, Matches
  <2>2. loaded' \in BOOLEAN
    BY <1>8 DEF Prepare
  <2> QED BY <2>1, <2>2, <1>8 DEF Prepare
<1>9. CASE EngineReturns
  BY <1>9 DEF EngineReturns
<1>10. CASE \E line \in Commands : SequentialRead(line)
  <2> PICK line \in Commands : SequentialRead(line)
    BY <1>10
  <2>1. vlmUp' \in BOOLEAN
    BY DEF SequentialRead
  <2>2. seen' \in BOOLEAN
    BY DEF SequentialRead
  <2> QED BY <2>1, <2>2 DEF SequentialRead
<1>11. CASE StreamToken
  <2>1. seen' \in BOOLEAN
    BY <1>11 DEF StreamToken, Poll, ShouldCancel, Matches
  <2> QED BY <2>1, <1>11 DEF StreamToken
<1>12. CASE ReaderReads
  BY <1>12 DEF ReaderReads
<1>13. CASE LoopGet
  BY <1>13 DEF LoopGet
<1>14. CASE LoopFindsNothing
  BY <1>14 DEF LoopFindsNothing
<1>15. CASE LoopLooksAtReader
  BY <1>15 DEF LoopLooksAtReader
<1>16. CASE \E done \in SUBSET open : LoopTick(done)
  <2>1. textFirst' \in BOOLEAN
    BY <1>16 DEF LoopTick
  <2> QED BY <2>1, <1>16 DEF LoopTick
<1>17. CASE LoopRaises
  BY <1>17 DEF LoopRaises
<1>18. CASE UNCHANGED vars
  BY <1>18 DEF vars
<1> QED BY <1>1, <1>2, <1>3, <1>4, <1>5, <1>6, <1>7, <1>8, <1>9, <1>10, <1>11,
           <1>12, <1>13, <1>14, <1>15, <1>16, <1>17, <1>18
        DEF Next, SequentialStep, LoopStep

-----------------------------------------------------------------------------
(* The steps. *)

LEMMA BooksEmpty ==
    ASSUME NEW held, NEW bef, NEW lat, NEW set
    PROVE  Books(<<>>, <<>>, held, bef, lat, set)
<1>1. Len(<<>>) = 0 /\ 1..0 = {} /\ ToSet(<<>>) = {}
  BY DEF ToSet
<1> QED BY <1>1 DEF Books, Waits, InOrder, NoneLost, ResetWaits, CancelsBehind

(* The steps that handle no command and answer nothing. *)
LEMMA Still ==
    ASSUME IInv, Kinds', Flags', Modes',
           UNCHANGED <<mode, lines, queue, wire, open, cur, order, answered,
                       before, dirty, late, settled>>,
           phase' = "serving" => phase = "serving" \/ (Q = <<>> /\ order = <<>>)
    PROVE  IInv'
<1>1. Typed'
  BY TypeParts DEF IInv, Typed, TypeOK, Flags, Kinds
<1>2. Q' = Q /\ Held' = Held
  BY DEF Q, Held
<1>3. Answers'
  BY <1>2 DEF IInv, Answers
<1>4. InTurn'
  BY DEF IInv, InTurn
<1>5. Waiting'
  <2> SUFFICES ASSUME phase' = "serving"
               PROVE  Books(Q, order, Held, before, late, settled)
    BY <1>2 DEF Waiting
  <2>1. CASE phase = "serving"
    BY <2>1 DEF IInv, Waiting
  <2>2. CASE Q = <<>> /\ order = <<>>
    BY <2>2, BooksEmpty
  <2> QED BY <2>1, <2>2
<1> QED BY <1>1, <1>3, <1>4, <1>5 DEF IInv

LEMMA InitIInv == Init => IInv
<1> SUFFICES ASSUME Init PROVE IInv
  OBVIOUS
<1> USE DEF Init
<1>1. Flags
  BY DEF Flags
<1>2. Kinds
  BY WorkerMainAssumption, EmptySeq DEF Kinds, NextStatus
<1>3. ToSet(<<>>) = {} /\ IsInjective(<<>>)
  BY DEF ToSet, IsInjective
<1>4. Typed
  BY <1>1, <1>2, <1>3, TypeParts, FS_EmptySet, EmptySeq DEF Typed
<1>5. Q = <<>>
  BY ConcatEmptySeq, EmptySeq DEF Q
<1>6. Modes
  BY <1>5, WorkerMainAssumption DEF Modes, NextStatus
<1>7. Held = {}
  BY <1>3, WorkerMainAssumption DEF Held
<1>8. Answers
  BY <1>3, <1>7 DEF Answers
<1>9. InTurn
  <2>1. Len(<<>>) = 0 /\ 1..0 = {}
    OBVIOUS
  <2> QED BY <2>1, WorkerMainAssumption DEF InTurn
<1>10. Waiting
  BY <1>5, BooksEmpty DEF Waiting
<1> QED BY <1>4, <1>6, <1>8, <1>9, <1>10 DEF IInv

LEMMA QuietSteps ==
    ASSUME IInv, Flags',
           \/ GatewayCloses \/ Sigterm \/ BootStep \/ BootFails
           \/ SequentialTop \/ SequentialEof \/ LoopFindsNothing
           \/ LoopLooksAtReader \/ LoopRaises \/ UNCHANGED vars
    PROVE  IInv'
<1>0. Kinds /\ Modes
  BY TypeParts DEF IInv, Typed
<1> USE DEF bootVars, seqVars, contVars, sendVars
<1>s. ASSUME Kinds', Modes',
             UNCHANGED <<mode, lines, queue, wire, open, cur, order, answered,
                         before, dirty, late, settled>>,
             phase' = "serving" =>
                 phase = "serving" \/ (Q = <<>> /\ order = <<>>)
      PROVE  IInv'
  BY <1>s, Still
<1>q. ASSUME UNCHANGED <<lines, queue, wire>> PROVE Q' = Q
  BY <1>q DEF Q
<1>1. CASE GatewayCloses
  <2>1. Kinds' /\ Modes'
    BY <1>0, <1>1, <1>q DEF GatewayCloses, Kinds, Modes
  <2> QED BY <2>1, <1>1, <1>s DEF GatewayCloses
<1>2. CASE Sigterm
  <2>1. Kinds' /\ Modes'
    BY <1>0, <1>2, <1>q DEF Sigterm, Kinds, Modes
  <2> QED BY <2>1, <1>2, <1>s DEF Sigterm
<1>3. CASE BootStep
  <2>1. phase \in {"loading_weights", "initializing_runtime", "warming_up"}
        /\ NextStatus[phase] \in {"initializing_runtime", "warming_up",
                                  "serving"}
    BY <1>3 DEF BootStep, NextStatus
  <2>2. /\ phase' \in {"initializing_runtime", "warming_up", "serving",
                       "raised"}
        /\ UNCHANGED <<mode, stage, rounds, lines, queue, wire, open, cur,
                       order, answered, before, dirty, late, settled>>
    BY <2>1, <1>3 DEF BootStep
  <2>3. pc' = IF phase' # "serving" THEN pc
              ELSE IF mode = "sequential" THEN "top" ELSE "get"
    BY <1>3 DEF BootStep
  <2>4. Kinds'
    BY <1>0, <2>2, <2>3 DEF Kinds, NextStatus, Ended
  <2>5. open = {} /\ cur = None /\ Q = <<>> /\ order = <<>>
    BY <1>0, <1>3 DEF Modes, BootStep
  <2>6. Modes'
    BY <1>0, <2>2, <2>3, <2>5, <1>q, WorkerMainAssumption DEF Modes
  <2> QED BY <2>2, <2>4, <2>5, <2>6, <1>s
<1>4. CASE BootFails
  <2>1. phase' \in {"raised", "failed"}
    BY <1>4 DEF BootFails
  <2>2. phase' \notin DOMAIN NextStatus
    BY <2>1 DEF NextStatus
  <2>3. Kinds' /\ Modes'
    BY <1>0, <1>4, <2>1, <2>2 DEF BootFails, Kinds, Modes, Ended
  <2> QED BY <2>1, <2>3, <1>4, <1>s DEF BootFails
<1>5. CASE SequentialTop
  <2>0. phase = "serving" /\ mode = "sequential" /\ pc = "top"
    BY <1>5 DEF SequentialTop, Serving
  <2>1. \/ phase' = "clean" /\ pc' = pc
        \/ phase' = phase /\ pc' = "read"
    BY <1>5 DEF SequentialTop
  <2>2. phase' \notin DOMAIN NextStatus
    BY <2>0, <2>1 DEF NextStatus
  <2>3. Kinds'
    BY <1>0, <1>5, <2>0, <2>1 DEF SequentialTop, Kinds, Ended
  <2>4. cur = None
    BY <1>0, <2>0 DEF Kinds, Modes
  <2>5. Modes'
    BY <1>0, <1>5, <2>0, <2>1, <2>2, <2>4 DEF SequentialTop, Modes
  <2> QED BY <2>0, <2>3, <2>5, <1>5, <1>s DEF SequentialTop
<1>6. CASE SequentialEof
  <2>0. phase = "serving" /\ mode = "sequential" /\ pc = "read"
    BY <1>6 DEF SequentialEof, Serving
  <2>1. phase' = "clean" /\ pc' = pc
    BY <1>6 DEF SequentialEof
  <2>2. phase' \notin DOMAIN NextStatus
    BY <2>1 DEF NextStatus
  <2>3. Kinds'
    BY <1>0, <1>6, <2>1 DEF SequentialEof, Kinds, Ended
  <2>4. cur = None
    BY <1>0, <2>0 DEF Kinds, Modes
  <2>5. Modes'
    BY <1>0, <1>6, <2>0, <2>1, <2>2, <2>4 DEF SequentialEof, Modes
  <2> QED BY <2>0, <2>3, <2>5, <1>6, <1>s DEF SequentialEof
<1>7. CASE LoopFindsNothing
  <2>1. Kinds' /\ Modes'
    BY <1>0, <1>7, <1>q DEF LoopFindsNothing, Serving, Kinds, Modes
  <2> QED BY <2>1, <1>7, <1>s DEF LoopFindsNothing
<1>8. CASE LoopLooksAtReader
  <2>1. Kinds' /\ Modes'
    BY <1>0, <1>8, <1>q DEF LoopLooksAtReader, Serving, Kinds, Modes
  <2> QED BY <2>1, <1>8, <1>s DEF LoopLooksAtReader
<1>9. CASE LoopRaises
  <2>1. phase' = "raised" /\ phase' \notin DOMAIN NextStatus
    BY <1>9 DEF LoopRaises, NextStatus
  <2>2. Kinds' /\ Modes'
    BY <1>0, <1>9, <2>1 DEF LoopRaises, Kinds, Modes, Ended
  <2> QED BY <2>1, <2>2, <1>9, <1>s DEF LoopRaises
<1>10. CASE UNCHANGED vars
  <2>1. Kinds' /\ Modes'
    BY <1>0, <1>10, <1>q DEF vars, Kinds, Modes
  <2> QED BY <2>1, <1>10, <1>s DEF vars
<1> QED BY <1>1, <1>2, <1>3, <1>4, <1>5, <1>6, <1>7, <1>8, <1>9, <1>10

(* The variables of commands are sequences of commands. *)
LEMMA Commanded ==
    ASSUME Typed
    PROVE  /\ lines \in Seq(All) /\ queue \in Seq(All) /\ wire \in Seq(All)
           /\ Q \in Seq(All) /\ Len(Q) \in Nat
           /\ order \in Seq(Requests) /\ answered \in Seq(Requests)
           /\ Len(order) \in Nat /\ Len(answered) \in Nat
<1>1. /\ lines \in Seq(Commands) /\ wire \in Seq(Commands)
      /\ queue \in Seq(All)
      /\ order \in Seq(Requests) /\ answered \in Seq(Requests)
  BY DEF Typed, TypeOK, All
<1>2. lines \in Seq(All) /\ wire \in Seq(All)
  BY <1>1, SeqMonotonic DEF All
<1>3. Q \in Seq(All)
  BY <1>1, <1>2, Joined DEF Q
<1> QED BY <1>1, <1>2, <1>3, LenProperties

LEMMA NothingWaits ==
    ASSUME Typed, NEW c \in All,
           c \notin ToSet(wire) \union ToSet(lines) \union ToSet(queue)
    PROVE  \A i \in 1..Len(Q) : Q[i] # c
<1>1. /\ Len(lines) \in Nat /\ Len(queue) \in Nat /\ Len(wire) \in Nat
      /\ Len(Q) = Len(lines) + Len(queue) + Len(wire)
      /\ \A i \in 1..Len(lines) : Q[i] = lines[i]
      /\ \A i \in 1..Len(queue) : Q[Len(lines) + i] = queue[i]
      /\ \A i \in 1..Len(wire) : Q[Len(lines) + Len(queue) + i] = wire[i]
  BY Commanded, Joined DEF Q
<1>2. /\ \A i \in 1..Len(lines) : lines[i] # c
      /\ \A i \in 1..Len(queue) : queue[i] # c
      /\ \A i \in 1..Len(wire) : wire[i] # c
  BY Commanded, ToSetIs
<1> SUFFICES ASSUME NEW i \in 1..Len(Q) PROVE Q[i] # c
  OBVIOUS
<1>3. CASE i <= Len(lines)
  BY <1>3, <1>1, <1>2
<1>4. CASE i > Len(lines) /\ i <= Len(lines) + Len(queue)
  <2> DEFINE k == i - Len(lines)
  <2>1. k \in 1..Len(queue) /\ Len(lines) + k = i
    BY <1>4, <1>1
  <2> HIDE DEF k
  <2> QED BY <2>1, <1>1, <1>2
<1>5. CASE i > Len(lines) + Len(queue)
  <2> DEFINE k == i - (Len(lines) + Len(queue))
  <2>1. k \in 1..Len(wire) /\ Len(lines) + Len(queue) + k = i
    BY <1>5, <1>1
  <2> HIDE DEF k
  <2> QED BY <2>1, <1>1, <1>2
<1> QED BY <1>3, <1>4, <1>5, <1>1

LEMMA SendsStep ==
    ASSUME IInv, Flags', NEW c \in Commands, GatewaySends(c)
    PROVE  IInv'
<1> DEFINE r == c[2]
<1>1. /\ phase = "serving" /\ phase' = "serving" /\ mode' = mode
      /\ c \notin ToSet(wire) \union ToSet(lines) \union ToSet(queue)
      /\ wire' = Append(wire, c)
      /\ UNCHANGED <<lines, queue, pc, open, cur, stage, rounds, answered,
                     dirty, settled>>
  BY DEF GatewaySends, bootVars, seqVars, contVars
<1>2. /\ c[1] = "chat" => r \notin ToSet(order) /\ order' = Append(order, r)
      /\ c[1] # "chat" => order' = order
      /\ c[1] = "cancel" /\ r \in ToSet(order) => late' = late \union {r}
      /\ ~(c[1] = "cancel" /\ r \in ToSet(order)) => late' = late
      /\ c = ResetCommand => before' = ToSet(order)
      /\ c # ResetCommand => before' = before
  BY DEF GatewaySends
<1>3. /\ c[1] = "chat" => c = Chat(r) /\ r \in Requests
      /\ c[1] = "cancel" => c = CancelOf(r) /\ r \in Requests
      /\ c[1] = "reset" => c = ResetCommand
      /\ c[1] \in {"chat", "cancel", "reset"}
  BY CommandKind
<1>4. Kinds /\ Typed /\ Modes /\ Answers /\ InTurn
      /\ Books(Q, order, Held, before, late, settled)
  BY <1>1, TypeParts DEF IInv, Typed, Waiting
<1>5. /\ lines \in Seq(All) /\ queue \in Seq(All) /\ wire \in Seq(All)
      /\ Q \in Seq(All) /\ Len(Q) \in Nat
      /\ order \in Seq(Requests) /\ answered \in Seq(Requests)
      /\ Len(order) \in Nat /\ Len(answered) \in Nat
  BY <1>4, Commanded
<1>6. Kinds'
  <2>1. wire' \in Seq(Commands)
    BY <1>1, <1>4, AppendProperties DEF Kinds
  <2> QED BY <2>1, <1>1, <1>4 DEF Kinds
<1>7. c \in All
  BY DEF All
<1>8. With(Q, Q', c)
  BY <1>1, <1>5, <1>7, JoinedSend DEF Q
<1>9. \A i \in 1..Len(Q) : Q[i] # c
  BY <1>1, <1>4, <1>7, NothingWaits
<1>10. Held' = Held
  BY <1>1 DEF Held
<1>11. /\ before \subseteq ToSet(order) /\ late \subseteq ToSet(order)
       /\ settled \subseteq late /\ Held \subseteq ToSet(order)
       /\ ToSet(order) \subseteq Requests
  BY <1>4, <1>5, ToSetIs DEF Typed, Answers
<1>12. Modes'
  <2>1. phase' \notin DOMAIN NextStatus
    BY <1>1 DEF NextStatus
  <2> QED BY <2>1, <1>1, <1>4 DEF Modes
<1> HIDE DEF r
<1>13. CASE c[1] = "chat"
  <2>1. /\ order' = Append(order, r) /\ r \notin ToSet(order) /\ c = Chat(r)
        /\ r \in Requests
    BY <1>2, <1>3, <1>13
  <2>2. c # ResetCommand
    BY <2>1, CommandFacts
  <2>3. late' = late /\ before' = before
    BY <1>2, <1>13, <2>2
  <2>4. order' \in Seq(Requests) /\ With(order, order', r)
    BY <2>1, <1>5, AppendProperties, WithAppend
  <2>5. ToSet(order') = ToSet(order) \union {r}
    BY <2>1, <1>5, ToSetAppend
  <2>6. IsInjective(order')
    BY <2>1, <1>4, <1>5, InjectiveAppend DEF Answers
  <2>7. Typed'
    BY <2>3, <2>4, <2>5, <1>1, <1>4, <1>6, TypeParts
    DEF Typed, TypeOK, Flags, Kinds
  <2>8. Answers'
    BY <2>5, <2>6, <1>1, <1>4, <1>10 DEF Answers
  <2>9. InTurn'
    <3>1. Len(order') = Len(order) + 1
          /\ \A i \in 1..Len(order) : order'[i] = order[i]
      BY <2>4 DEF With
    <3> SUFFICES ASSUME mode = "sequential"
                 PROVE  /\ Len(answered) <= Len(order')
                        /\ \A k \in 1..Len(answered) : answered[k] = order'[k]
                        /\ cur \in Requests =>
                               /\ Len(answered) < Len(order')
                               /\ cur = order'[Len(answered) + 1]
      BY <1>1 DEF InTurn
    <3>2. /\ Len(answered) <= Len(order)
          /\ \A k \in 1..Len(answered) : answered[k] = order[k]
          /\ cur \in Requests => /\ Len(answered) < Len(order)
                                 /\ cur = order[Len(answered) + 1]
      BY <1>4 DEF InTurn
    <3>3. /\ Len(answered) <= Len(order')
          /\ \A k \in 1..Len(answered) : k \in 1..Len(order)
          /\ cur \in Requests => /\ Len(answered) < Len(order')
                                 /\ Len(answered) + 1 \in 1..Len(order)
      BY <3>1, <3>2, <1>5
    <3>4. \A k \in 1..Len(answered) : answered[k] = order'[k]
      BY <3>1, <3>2, <3>3
    <3> QED BY <3>1, <3>2, <3>3, <3>4
  <2>10. Books(Q', order', Held, before, late, settled)
    <3>1. settled \subseteq ToSet(order)
      BY <1>11
    <3>2. With(Q, Q', Chat(r))
      BY <1>8, <2>1
    <3> HIDE DEF Q
    <3> QED BY <3>1, <3>2, <2>1, <2>4, <1>4, <1>5, <1>11, BooksSendChat
  <2> QED BY <2>3, <2>7, <2>8, <2>9, <2>10, <1>1, <1>10, <1>12
          DEF IInv, Waiting
<1>14. CASE c[1] # "chat"
  <2>1. order' = order
    BY <1>2, <1>14
  <2>2. \A s : c # Chat(s)
    BY <1>14, CommandFacts
  <2>3. late' \subseteq ToSet(order) /\ before' \subseteq ToSet(order)
        /\ settled \subseteq late'
    BY <1>2, <1>11
  <2>4. Typed'
    BY <2>1, <2>3, <1>1, <1>4, <1>6, TypeParts
    DEF Typed, TypeOK, Flags, Kinds
  <2>5. Answers'
    BY <2>1, <1>1, <1>4, <1>10 DEF Answers
  <2>6. InTurn'
    BY <2>1, <1>1, <1>4 DEF InTurn
  <2>7. \A s \in late' : s \in late \/ \A i \in 1..Len(Q) : Q[i] # CancelOf(s)
    BY <1>2, <1>3, <1>9
  <2>8. /\ c # ResetCommand => before' = before
        /\ c = ResetCommand => \A i \in 1..Len(Q) : Q[i] # ResetCommand
    BY <1>2, <1>9
  <2>9. Books(Q', order, Held, before', late', settled)
    BY <2>2, <2>3, <2>7, <2>8, <1>4, <1>5, <1>8, BooksSendOther
  <2> QED BY <2>1, <2>4, <2>5, <2>6, <2>9, <1>1, <1>10, <1>12
          DEF IInv, Waiting
<1> QED BY <1>13, <1>14

(* An event to a closed socket ends the process, any other is received. *)
LEMMA EmitAnswer ==
    ASSUME NEW k, NEW r \in Requests, NEW next, Emit(<<k, r>>, next)
    PROVE  /\ pc' = next /\ dirty' = dirty
           /\ closed => phase' = "raised" /\ answered' = answered
           /\ ~closed => phase' = phase /\ answered' = Append(answered, r)
<1>1. <<k, r>>[2] = r /\ <<k, r>> # <<"reset_done", None>>
  BY WorkerMainAssumption
<1> QED BY <1>1 DEF Emit

LEMMA EmitOther ==
    ASSUME NEW k, NEW next, Emit(<<k, None>>, next)
    PROVE  /\ pc' = next /\ answered' = answered
           /\ closed => phase' = "raised" /\ dirty' = dirty
           /\ ~closed => phase' = phase
           /\ dirty' = dirty \/ (/\ dirty' = before \ ToSet(answered)
                                 /\ k = "reset_done")
<1>1. <<k, None>>[2] = None /\ None \notin Requests
  BY WorkerMainAssumption
<1>2. <<k, None>> = <<"reset_done", None>> <=> k = "reset_done"
  OBVIOUS
<1> QED BY <1>1, <1>2 DEF Emit

(* What is answered is no longer worked on. *)
LEMMA Answering ==
    ASSUME Typed, Answers, NEW r \in Requests,
           r \in ToSet(order), r \notin ToSet(answered),
           answered' = Append(answered, r), order' = order, dirty' = dirty,
           open' \subseteq open, cur' \in {cur, None},
           r \notin open', r # cur',
           settled' \intersect (open' \union {cur'}) = {}
    PROVE  /\ Answers' /\ answered' \in Seq(Requests)
           /\ ToSet(answered') = ToSet(answered) \union {r}
           /\ Len(answered') = Len(answered) + 1
           /\ answered'[Len(answered) + 1] = r
           /\ \A k \in 1..Len(answered) : answered'[k] = answered[k]
<1>1. answered \in Seq(Requests)
  BY DEF Typed
<1>2. ToSet(answered') = ToSet(answered) \union {r}
  BY <1>1, ToSetAppend
<1>3. IsInjective(answered')
  BY <1>1, InjectiveAppend DEF Answers
<1>4. ToSet(answered) \subseteq Requests
  BY <1>1, ToSetIs
<1>5. Held' \subseteq ToSet(order)
  BY <1>2, <1>4, WorkerMainAssumption DEF Answers, Held
<1>6. ToSet(answered') \intersect (open' \union {cur'}) = {}
  BY <1>2, <1>4, WorkerMainAssumption DEF Answers
<1>7. Answers'
  BY <1>3, <1>5, <1>6 DEF Answers
<1> QED BY <1>1, <1>2, <1>7, AppendProperties

(* The next request of the sequential loop is the next one that was sent. *)
LEMMA NextInTurn ==
    ASSUME IInv, phase = "serving", mode = "sequential", cur = None,
           NEW r \in Requests, 1 \in 1..Len(Q), Q[1] = Chat(r)
    PROVE  Len(answered) < Len(order) /\ r = order[Len(answered) + 1]
<1>1. Typed /\ Modes /\ Answers /\ InTurn
      /\ Books(Q, order, Held, before, late, settled)
  BY DEF IInv, Waiting
<1>2. Waits(Q, order, Held, settled) /\ InOrder(Q, order)
      /\ NoneLost(Q, order, Held)
  BY <1>1 DEF Books
<1>3. Q \in Seq(All) /\ Len(Q) \in Nat /\ order \in Seq(Requests)
      /\ answered \in Seq(Requests)
      /\ Len(order) \in Nat /\ Len(answered) \in Nat
  BY <1>1, Commanded
<1>4. Held = ToSet(answered)
  BY <1>1, WorkerMainAssumption DEF Held, Modes
<1>5. r \in ToSet(order) /\ r \notin ToSet(answered)
  BY <1>2, <1>4 DEF Waits
<1>6. PICK k \in 1..Len(order) : order[k] = r
  BY <1>3, <1>5, ToSetIs
<1>7. /\ Len(answered) <= Len(order)
      /\ \A i \in 1..Len(answered) : answered[i] = order[i]
  BY <1>1 DEF InTurn
<1>8. k > Len(answered)
  <2> SUFFICES ASSUME k \in 1..Len(answered) PROVE FALSE
    BY <1>3, <1>6
  <2>1. answered[k] = r
    BY <1>6, <1>7
  <2>2. r \in ToSet(answered)
    BY <2>1, <1>3, ToSetIs
  <2> QED BY <2>2, <1>5
<1> DEFINE m == Len(answered) + 1
<1>9. m \in 1..Len(order) /\ m <= k
  BY <1>3, <1>6, <1>8
<1>10. order[m] \in ToSet(order)
  BY <1>3, <1>9, ToSetIs
<1>11. order[m] \notin ToSet(answered)
  <2> SUFFICES ASSUME order[m] \in ToSet(answered) PROVE FALSE
    OBVIOUS
  <2>0. \A x : x \in ToSet(answered) => \E i \in 1..Len(answered) :
                                            answered[i] = x
    BY <1>3, ToSetIs
  <2>1. PICK i \in 1..Len(answered) : answered[i] = order[m]
    BY <2>0
  <2>2. order[i] = order[m] /\ i \in 1..Len(order) /\ i < m
    BY <2>1, <1>3, <1>7
  <2>3. DOMAIN order = 1..Len(order)
    BY <1>3, LenProperties
  <2>4. i = m
    BY <2>2, <2>3, <1>1, <1>9 DEF Answers, IsInjective
  <2> QED BY <2>2, <2>4, <1>3
<1>12. PICK j \in 1..Len(Q) : Q[j] = Chat(order[m])
  BY <1>2, <1>4, <1>10, <1>11 DEF NoneLost
<1>13. CASE j = 1
  <2>1. order[m] = r
    BY <1>12, <1>13, CommandFacts
  <2> QED BY <2>1, <1>3, <1>9
<1>14. CASE 1 < j
  <2>1. k < m
    BY <1>2, <1>6, <1>9, <1>12, <1>14 DEF InOrder
  <2> QED BY <2>1, <1>3, <1>9
<1> QED BY <1>3, <1>13, <1>14

(* Taking a line takes the oldest command. *)
LEMMA TakeFirst ==
    ASSUME Typed, queue = <<>>, queue' = queue, NEW line, Take(line)
    PROVE  /\ Without(Q, Q', 1) /\ Q[1] = line /\ 1 \in 1..Len(Q)
           /\ lines' \in Seq(Commands) /\ wire' \in Seq(Commands)
<1>1. /\ lines \in Seq(Commands) /\ wire \in Seq(Commands)
  BY DEF Typed, TypeOK
<1>2. <<>> \in Seq(Commands)
  BY EmptySeq
<1>3. CASE lines # <<>>
  <2>1. line = Head(lines) /\ lines' = Tail(lines) /\ wire' = wire
    BY <1>3 DEF Take
  <2>2. Q = lines \o <<>> \o wire /\ Q' = Tail(lines) \o <<>> \o wire
    BY <2>1 DEF Q
  <2>3. Tail(lines) \in Seq(Commands)
    BY <1>1, <1>3, TailWithout
  <2> QED BY <2>1, <2>2, <2>3, <1>1, <1>2, <1>3, JoinedTakeFirst
<1>4. CASE lines = <<>>
  <2>1. /\ wire # <<>> /\ line = Head(wire)
        /\ wire' = Tail(wire) /\ lines' = lines
    BY <1>4 DEF Take
  <2>2. Q = lines \o <<>> \o wire /\ Q' = lines \o <<>> \o Tail(wire)
    BY <2>1 DEF Q
  <2>3. Tail(wire) \in Seq(Commands)
    BY <1>1, <2>1, TailWithout
  <2>4. Len(lines) + 1 = 1
    BY <1>4
  <2>5. /\ Without(Q, Q', Len(lines) + 1) /\ Q[Len(lines) + 1] = Head(wire)
        /\ Len(lines) + 1 \in 1..Len(Q)
    BY <2>1, <2>2, <1>1, JoinedTakeLast
  <2> QED BY <2>1, <2>3, <2>4, <2>5, <1>1
<1> QED BY <1>3, <1>4

(* A cancel sent after its request finds no such request waiting. *)
LEMMA CancelFinds ==
    ASSUME NEW q, NEW ord, NEW held, NEW bef, NEW lat, NEW set,
           Books(q, ord, held, bef, lat, set), Len(q) \in Nat,
           NEW r \in lat, 1 \in 1..Len(q), q[1] = CancelOf(r)
    PROVE  \A i \in 1..Len(q) : q[i] # Chat(r)
<1> SUFFICES ASSUME NEW i \in 1..Len(q) PROVE q[i] # Chat(r)
  OBVIOUS
<1>1. CancelsBehind(q, lat)
  BY DEF Books
<1>2. CASE i = 1
  BY <1>2, CommandFacts
<1>3. CASE 1 < i
  BY <1>1, <1>3 DEF CancelsBehind
<1> QED BY <1>2, <1>3

(* When the reset is first, all that it has to wait for is held. *)
LEMMA ResetFinds ==
    ASSUME NEW q, NEW ord, NEW held, NEW bef, NEW lat, NEW set,
           Books(q, ord, held, bef, lat, set), Len(q) \in Nat,
           1 \in 1..Len(q), q[1] = ResetCommand
    PROVE  bef \subseteq held
  BY DEF Books, ResetWaits

LEMMA SequentialReadStep ==
    ASSUME IInv, Flags', NEW line \in Commands, SequentialRead(line)
    PROVE  IInv'
<1> DEFINE r == line[2]
<1>1. /\ phase = "serving" /\ mode = "sequential" /\ mode' = mode
      /\ pc = "read" /\ Take(line)
      /\ UNCHANGED <<queue, open, rounds, order, before, late>>
  BY DEF SequentialRead, Serving, bootVars, sendVars
<1>2. Typed /\ Modes /\ Answers /\ InTurn /\ Kinds
      /\ Books(Q, order, Held, before, late, settled)
  BY <1>1, TypeParts DEF IInv, Waiting, Typed
<1>3. queue = <<>> /\ open = {} /\ cur = None
  BY <1>1, <1>2 DEF Modes, Kinds
<1>4. /\ Q \in Seq(All) /\ Len(Q) \in Nat
      /\ order \in Seq(Requests) /\ answered \in Seq(Requests)
      /\ Len(order) \in Nat /\ Len(answered) \in Nat
  BY <1>2, Commanded
<1>5. /\ Without(Q, Q', 1) /\ Q[1] = line /\ 1 \in 1..Len(Q)
      /\ lines' \in Seq(Commands) /\ wire' \in Seq(Commands)
  BY <1>1, <1>2, <1>3, TakeFirst
<1>6. /\ line[1] = "chat" => line = Chat(r) /\ r \in Requests
      /\ line[1] = "cancel" => line = CancelOf(r) /\ r \in Requests
  BY CommandKind
<1>7. /\ before \subseteq ToSet(order) /\ late \subseteq ToSet(order)
      /\ settled \subseteq late /\ Held \subseteq ToSet(order)
      /\ ToSet(order) \subseteq Requests
      /\ ToSet(answered) \subseteq Requests
  BY <1>2, <1>4, ToSetIs DEF Typed, Answers
<1>8. Held = ToSet(answered) /\ None \notin Requests
  BY <1>3, WorkerMainAssumption DEF Held
<1> HIDE DEF r
(* Whatever is left to show once the types and the books are known. *)
<1>t. ASSUME cur' \in Requests \union {None},
             stage' \in Stages \union {"none", "run"},
             phase' \in {"serving", "raised"}, pc' \in {"run", "top"},
             settled' \subseteq late, answered' \in Seq(Requests)
      PROVE  Typed'
  <2>1. Kinds'
    BY <1>t, <1>1, <1>2, <1>5 DEF Kinds, Ended
  <2> QED BY <2>1, <1>t, <1>1, <1>2, TypeParts
          DEF Typed, TypeOK, Flags, Kinds
<1>m. ASSUME phase' \in {"serving", "raised"}, 
             pc' = "run" <=> cur' \in Requests, pc' \in {"run", "top"}
      PROVE  Modes'
  <2>1. phase' \notin DOMAIN NextStatus /\ phase' # "clean"
    BY <1>m DEF NextStatus
  <2> QED BY <2>1, <1>m, <1>1, <1>2 DEF Modes
<1>b. ASSUME Held \subseteq Held',
             \A s \in Requests : s \in Held' => s \in Held \/ Q[1] = Chat(s),
             \A s \in Requests : Q[1] = Chat(s) => s \in Held',
             \A s \in Requests : s \in settled' =>
                 s \in settled \/ \A i \in 1..Len(Q) : Q[i] # Chat(s)
      PROVE  Books(Q', order, Held', before, late, settled')
  BY <1>b, <1>2, <1>4, <1>5, <1>7, BooksDrop
<1>9. CASE /\ line[1] = "chat" /\ cur' = line[2]
           /\ stage' = IF Model(line[2]) = "vlm" THEN "enter" ELSE "run"
           /\ Quiet("run") /\ settled' = settled
  <2>1. /\ r \in Requests /\ cur' = r /\ Q[1] = Chat(r) /\ pc' = "run"
        /\ stage' \in {"enter", "run"}
        /\ UNCHANGED <<phase, answered, dirty, settled>>
    BY <1>5, <1>6, <1>9 DEF Quiet, r
  <2>2. Typed'
    BY <2>1, <1>1, <1>2, <1>7, <1>t DEF Stages, Typed
  <2>3. Modes'
    BY <2>1, <1>1, <1>m
  <2>4. r \in ToSet(order) /\ r \notin Held /\ r \notin settled
    BY <2>1, <1>2, <1>5 DEF Books, Waits
  <2>5. Held' = Held \union {r}
    BY <2>1, <1>1, <1>3, <1>8 DEF Held
  <2>6. Answers'
    BY <2>1, <2>4, <2>5, <1>1, <1>2, <1>3, <1>8 DEF Answers
  <2>7. Len(answered) < Len(order) /\ r = order[Len(answered) + 1]
    BY <2>1, <1>1, <1>3, <1>5, NextInTurn
  <2>8. InTurn'
    BY <2>1, <2>7, <1>1, <1>2 DEF InTurn
  <2>9. \A s : Q[1] = Chat(s) => s = r
    BY <2>1, CommandFacts
  <2>10. Books(Q', order, Held', before, late, settled')
    BY <2>1, <2>5, <2>9, <1>b
  <2> QED BY <2>2, <2>3, <2>6, <2>8, <2>10, <1>1 DEF IInv, Waiting
<1>10. CASE /\ line[1] = "chat" /\ Emit(<<"error", line[2]>>, "top")
            /\ UNCHANGED <<cur, stage, settled>>
  <2>1. /\ r \in Requests /\ Q[1] = Chat(r) /\ cur' = None
        /\ Emit(<<"error", r>>, "top")
    BY <1>3, <1>5, <1>6, <1>10 DEF r
  <2>2. /\ pc' = "top" /\ dirty' = dirty
        /\ closed => phase' = "raised" /\ answered' = answered
        /\ ~closed => phase' = phase /\ answered' = Append(answered, r)
    BY <2>1, EmitAnswer
  <2>3. r \in ToSet(order) /\ r \notin Held /\ r \notin settled
    BY <2>1, <1>2, <1>5 DEF Books, Waits
  <2>4. Modes'
    BY <2>1, <2>2, <1>1, <1>8, <1>m
  <2>5. stage' \in Stages \union {"none", "run"}
    BY <1>10, <1>2 DEF Kinds
  <2>6. CASE closed
    <3>1. Typed'
      BY <2>1, <2>2, <2>5, <2>6, <1>1, <1>4, <1>7, <1>10, <1>t
    <3>2. Held' = Held
      BY <2>1, <2>2, <2>6, <1>1, <1>3 DEF Held
    <3>3. Answers' /\ InTurn'
      BY <2>1, <2>2, <2>6, <3>2, <1>1, <1>2, <1>3, <1>10 DEF Answers, InTurn
    <3> QED BY <2>2, <2>4, <2>6, <3>1, <3>3 DEF IInv, Waiting
  <2>7. CASE ~closed
    <3>1. settled' \intersect (open' \union {cur'}) = {}
          /\ r \notin open' /\ r # cur'
      BY <2>1, <1>1, <1>2, <1>3, <1>8, <1>10 DEF Answers
    <3>2. /\ Answers' /\ answered' \in Seq(Requests)
          /\ ToSet(answered') = ToSet(answered) \union {r}
          /\ Len(answered') = Len(answered) + 1
          /\ answered'[Len(answered) + 1] = r
          /\ \A k \in 1..Len(answered) : answered'[k] = answered[k]
      BY <3>1, <2>1, <2>2, <2>3, <2>7, <1>1, <1>2, <1>3, <1>8, Answering
    <3>3. Typed'
      BY <3>2, <2>1, <2>2, <2>5, <2>7, <1>1, <1>7, <1>10, <1>t
    <3>4. Held' = Held \union {r}
      BY <3>2, <2>1, <1>1, <1>3, <1>8 DEF Held
    <3>5. Len(answered) < Len(order) /\ r = order[Len(answered) + 1]
      BY <2>1, <1>1, <1>3, <1>5, NextInTurn
    <3>6. InTurn'
      BY <3>2, <3>5, <2>1, <1>1, <1>2, <1>4, <1>8 DEF InTurn
    <3>7. \A s : Q[1] = Chat(s) => s = r
      BY <2>1, CommandFacts
    <3>8. Books(Q', order, Held', before, late, settled')
      BY <2>1, <3>4, <3>7, <1>10, <1>b
    <3> QED BY <3>2, <3>3, <3>6, <3>8, <2>4, <1>1 DEF IInv, Waiting
  <2> QED BY <2>6, <2>7
<1>11. CASE /\ line[1] = "cancel" /\ Settle(line[2]) /\ Quiet("top")
            /\ UNCHANGED <<cur, stage>>
  <2>1. /\ Q[1] = CancelOf(r) /\ cur' = None /\ pc' = "top"
        /\ UNCHANGED <<phase, answered, dirty, stage>>
        /\ settled' = settled \union ({r} \intersect late)
    BY <1>3, <1>5, <1>6, <1>11 DEF Settle, Quiet, r
  <2>2. Typed'
    BY <2>1, <1>1, <1>2, <1>4, <1>7, <1>t DEF Kinds
  <2>3. Modes'
    BY <2>1, <1>1, <1>8, <1>m
  <2>4. Held' = Held
    BY <2>1, <1>1, <1>3 DEF Held
  <2>5. Answers'
    BY <2>1, <2>4, <1>1, <1>2, <1>3, <1>7, <1>8 DEF Answers
  <2>6. InTurn'
    BY <2>1, <1>1, <1>2, <1>8 DEF InTurn
  <2>7. r \in late => \A i \in 1..Len(Q) : Q[i] # Chat(r)
    BY <2>1, <1>2, <1>4, <1>5, CancelFinds
  <2>8. \A s : Q[1] # Chat(s)
    BY <2>1, CommandFacts
  <2>9. Books(Q', order, Held', before, late, settled')
    BY <2>1, <2>4, <2>7, <2>8, <1>b
  <2> QED BY <2>2, <2>3, <2>5, <2>6, <2>9, <1>1 DEF IInv, Waiting
<1>12. CASE /\ line = ResetCommand /\ Emit(<<"reset_done", None>>, "top")
            /\ UNCHANGED <<cur, stage, settled>>
  <2>1. /\ pc' = "top" /\ answered' = answered
        /\ closed => phase' = "raised" /\ dirty' = dirty
        /\ ~closed => phase' = phase
        /\ dirty' = dirty \/ dirty' = before \ ToSet(answered)
    BY <1>12, EmitOther
  <2>2. Q[1] = ResetCommand /\ cur' = None
    BY <1>3, <1>5, <1>12
  <2>3. phase' \in {"serving", "raised"}
    BY <2>1, <1>1, <1>2 DEF TypeOK, Typed
  <2>4. before \subseteq ToSet(answered)
    BY <2>2, <1>2, <1>4, <1>5, <1>8, ResetFinds
  <2>5. dirty' = {}
    BY <2>1, <2>4, <1>2 DEF Answers
  <2>6. Typed'
    BY <2>1, <2>2, <2>3, <1>2, <1>4, <1>7, <1>12, <1>t DEF Kinds
  <2>7. Modes'
    BY <2>1, <2>2, <2>3, <1>8, <1>m
  <2>8. Held' = Held
    BY <2>1, <2>2, <1>1, <1>3 DEF Held
  <2>9. Answers'
    BY <2>1, <2>2, <2>5, <2>8, <1>1, <1>2, <1>3, <1>12 DEF Answers
  <2>10. InTurn'
    BY <2>1, <2>2, <1>1, <1>2, <1>8 DEF InTurn
  <2>11. \A s : Q[1] # Chat(s)
    BY <2>2, CommandFacts
  <2>12. Books(Q', order, Held', before, late, settled')
    BY <2>8, <2>11, <1>12, <1>b
  <2> QED BY <2>6, <2>7, <2>9, <2>10, <2>12, <1>1 DEF IInv, Waiting
<1> QED BY <1>9, <1>10, <1>11, <1>12 DEF SequentialRead

(* should_cancel has taken nothing but a cancel of the running request. *)
Polled ==
    \/ Q' = Q /\ settled' = settled
    \/ /\ \E p \in 1..Len(Q) : Without(Q, Q', p) /\ Q[p] = CancelOf(cur)
       /\ settled' = settled \union ({cur} \intersect late)

LEMMA PollTakes ==
    ASSUME Typed, queue = <<>>, queue' = queue, Poll
    PROVE  /\ lines' \in Seq(Commands) /\ wire' \in Seq(Commands)
           /\ Polled
           /\ ~ShouldCancel => Q' = Q /\ settled' = settled
<1>0. lines \in Seq(Commands) /\ wire \in Seq(Commands) /\ seen \in BOOLEAN
  BY DEF Typed, TypeOK
<1>1. CASE seen \/ wire = <<>>
  <2>1. wire' = wire /\ lines' = lines /\ settled' = settled
    BY <1>0, <1>1 DEF Poll, Matches
  <2>2. Q' = Q
    BY <2>1 DEF Q
  <2> QED BY <2>1, <2>2, <1>0 DEF Polled
<1>2. CASE ~seen /\ wire # <<>> /\ Matches
  <2>1. /\ wire' = Tail(wire) /\ lines' = lines /\ Head(wire) = CancelOf(cur)
        /\ settled' = settled \union ({cur} \intersect late) /\ ShouldCancel
    BY <1>0, <1>2 DEF Poll, Matches, Settle, ShouldCancel
  <2>2. Q = lines \o <<>> \o wire /\ Q' = lines \o <<>> \o Tail(wire)
    BY <2>1 DEF Q
  <2>3. Tail(wire) \in Seq(Commands)
    BY <1>0, <1>2, TailWithout
  <2>4. /\ Without(Q, Q', Len(lines) + 1) /\ Q[Len(lines) + 1] = Head(wire)
        /\ Len(lines) + 1 \in 1..Len(Q)
    BY <2>2, <1>0, <1>2, JoinedTakeLast
  <2>5. Polled
    BY <2>1, <2>4 DEF Polled
  <2> QED BY <2>1, <2>3, <2>5, <1>0
<1>3. CASE ~seen /\ wire # <<>> /\ ~Matches
  <2>1. /\ wire' = Tail(wire) /\ lines' = Append(lines, Head(wire))
        /\ settled' = settled
    BY <1>0, <1>3 DEF Poll
  <2>2. Tail(wire) \in Seq(Commands) /\ Head(wire) \in Commands
    BY <1>0, <1>3, TailWithout
  <2>3. lines' \in Seq(Commands) /\ wire' \in Seq(Commands)
    BY <2>1, <2>2, <1>0, AppendProperties
  <2>4. lines' \o <<>> = lines' /\ lines \o <<>> = lines
    BY <2>3, <1>0, ConcatEmptySeq
  <2>5. lines' \o wire' = lines \o wire
    BY <2>1, <1>0, <1>3, JoinedMove
  <2>6. Q' = Q
    BY <2>4, <2>5 DEF Q
  <2> QED BY <2>1, <2>3, <2>6 DEF Polled
<1> QED BY <1>0, <1>1, <1>2, <1>3

(* The running request goes on. *)
LEMMA GoesOn ==
    ASSUME IInv, Flags', phase = "serving", mode = "sequential", pc = "run",
           UNCHANGED <<mode, queue, open, rounds, order, before, late,
                       answered, dirty, cur, pc>>,
           phase' \in {"serving", "raised"},
           stage' \in Stages \union {"none", "run"},
           lines' \in Seq(Commands), wire' \in Seq(Commands),
           Q' = Q, settled' = settled
    PROVE  IInv'
<1>1. Typed /\ Modes /\ Answers /\ InTurn /\ Kinds /\ Waiting
  BY TypeParts DEF IInv, Typed
<1>2. Kinds'
  BY <1>1 DEF Kinds, Ended
<1>3. Typed'
  BY <1>1, <1>2, TypeParts DEF Typed, TypeOK, Flags, Kinds
<1>4. phase' \notin DOMAIN NextStatus /\ phase' # "clean"
  BY DEF NextStatus
<1>5. Modes'
  BY <1>1, <1>4 DEF Modes
<1>6. Held' = Held
  BY DEF Held
<1>7. Answers' /\ InTurn' /\ Waiting'
  BY <1>1, <1>6 DEF Answers, InTurn, Waiting
<1> QED BY <1>3, <1>5, <1>7 DEF IInv

(* The running request is answered. *)
LEMMA IsAnswered ==
    ASSUME IInv, Flags', phase = "serving", mode = "sequential", pc = "run",
           UNCHANGED <<mode, queue, open, rounds, order, before, late>>,
           lines' \in Seq(Commands), wire' \in Seq(Commands),
           Polled, NEW kind, Answer(kind)
    PROVE  IInv'
<1>1. Typed /\ Modes /\ Answers /\ InTurn /\ Kinds
      /\ Books(Q, order, Held, before, late, settled)
  BY TypeParts DEF IInv, Typed, Waiting
<1>2. cur \in Requests /\ open = {} /\ None \notin Requests
  BY <1>1, WorkerMainAssumption DEF Modes
<1>3. cur' = None /\ stage' = "none" /\ Emit(<<kind, cur>>, "top")
  BY DEF Answer
<1>4. /\ pc' = "top" /\ dirty' = dirty
      /\ closed => phase' = "raised" /\ answered' = answered
      /\ ~closed => phase' = phase /\ answered' = Append(answered, cur)
  BY <1>2, <1>3, EmitAnswer
<1>5. /\ Q \in Seq(All) /\ Len(Q) \in Nat
      /\ order \in Seq(Requests) /\ answered \in Seq(Requests)
      /\ Len(order) \in Nat /\ Len(answered) \in Nat
  BY <1>1, Commanded
<1>6. /\ before \subseteq ToSet(order) /\ late \subseteq ToSet(order)
      /\ settled \subseteq late /\ Held \subseteq ToSet(order)
      /\ ToSet(order) \subseteq Requests
      /\ ToSet(answered) \subseteq Requests
  BY <1>1, <1>5, ToSetIs DEF Typed, Answers
<1>7. settled' \subseteq late
  BY <1>6 DEF Polled
<1>8. cur \in Held /\ cur \notin ToSet(answered)
  BY <1>1, <1>2 DEF Held, Answers
<1>9. phase' \in {"serving", "raised"}
  BY <1>4, <1>1 DEF Typed, TypeOK
<1>t. ASSUME answered' \in Seq(Requests) PROVE Typed'
  <2>1. Kinds'
    BY <1>1, <1>3, <1>4, <1>9 DEF Kinds, Ended
  <2> QED BY <2>1, <1>t, <1>1, <1>7, TypeParts
          DEF Typed, TypeOK, Flags, Kinds
<1>10. Modes'
  <2>1. phase' \notin DOMAIN NextStatus /\ phase' # "clean"
    BY <1>9 DEF NextStatus
  <2> QED BY <2>1, <1>1, <1>2, <1>3, <1>4 DEF Modes
<1>11. CASE closed
  <2>1. Typed'
    BY <1>4, <1>5, <1>11, <1>t
  <2>2. Held' \subseteq Held
    BY <1>2, <1>3, <1>4, <1>11 DEF Held
  <2>3. Answers'
    BY <2>2, <1>1, <1>2, <1>3, <1>4, <1>6, <1>7, <1>11 DEF Answers
  <2>4. InTurn'
    BY <1>1, <1>2, <1>3, <1>4, <1>11 DEF InTurn
  <2> QED BY <2>1, <2>3, <2>4, <1>4, <1>10, <1>11 DEF IInv, Waiting
<1>12. CASE ~closed
  <2>1. settled' \intersect (open' \union {cur'}) = {}
        /\ cur \notin open' /\ cur # cur' /\ cur \in ToSet(order)
    BY <1>2, <1>3, <1>6, <1>7, <1>8
  <2>2. /\ Answers' /\ answered' \in Seq(Requests)
        /\ ToSet(answered') = ToSet(answered) \union {cur}
        /\ Len(answered') = Len(answered) + 1
        /\ answered'[Len(answered) + 1] = cur
        /\ \A k \in 1..Len(answered) : answered'[k] = answered[k]
    BY <2>1, <1>1, <1>2, <1>3, <1>4, <1>8, <1>12, Answering
  <2>3. Typed'
    BY <2>2, <1>t
  <2>4. Held' = Held
    BY <2>2, <1>2, <1>3 DEF Held
  <2>5. InTurn'
    <3>1. /\ Len(answered) < Len(order) /\ cur = order[Len(answered) + 1]
          /\ \A k \in 1..Len(answered) : answered[k] = order[k]
      BY <1>1, <1>2 DEF InTurn
    <3>2. \A k \in 1..Len(answered') : answered'[k] = order[k]
      <4> SUFFICES ASSUME NEW k \in 1..Len(answered')
                   PROVE  answered'[k] = order[k]
        OBVIOUS
      <4>1. CASE k = Len(answered) + 1
        BY <4>1, <3>1, <2>2
      <4>2. CASE k # Len(answered) + 1
        <5>1. k \in 1..Len(answered)
          BY <4>2, <2>2, <1>5
        <5> QED BY <5>1, <3>1, <2>2
      <4> QED BY <4>1, <4>2
    <3>3. Len(answered') <= Len(order)
      BY <3>1, <2>2, <1>5
    <3> QED BY <3>2, <3>3, <1>2, <1>3 DEF InTurn
  <2>6. Books(Q', order, Held, before, late, settled')
    <3>1. CASE Q' = Q /\ settled' = settled
      BY <3>1, <1>1
    <3>2. CASE /\ \E p \in 1..Len(Q) : Without(Q, Q', p) /\ Q[p] = CancelOf(cur)
               /\ settled' = settled \union ({cur} \intersect late)
      <4>1. PICK p \in 1..Len(Q) : Without(Q, Q', p) /\ Q[p] = CancelOf(cur)
        BY <3>2
      <4>2. \A s : Q[p] # Chat(s)
        BY <4>1, CommandFacts
      <4>3. \A i \in 1..Len(Q) : Q[i] # Chat(cur)
        BY <1>1, <1>2, <1>8 DEF Books, Waits
      <4>4. \A s \in Requests : s \in settled' =>
                s \in settled \/ \A i \in 1..Len(Q) : Q[i] # Chat(s)
        BY <4>3, <3>2
      <4>5. /\ Books(Q, order, Held, before, late, settled) /\ Len(Q) \in Nat
            /\ order \in Seq(Requests) /\ before \subseteq ToSet(order)
            /\ late \subseteq ToSet(order)
        BY <1>1, <1>5, <1>6
      <4>6. Without(Q, Q', p) /\ \A s \in Requests : Q[p] = Chat(s) => s \in Held
        BY <4>1, <4>2
      <4> QED BY <4>4, <4>5, <4>6, BooksDrop
    <3> QED BY <3>1, <3>2 DEF Polled
  <2> QED BY <2>2, <2>3, <2>4, <2>5, <2>6, <1>4, <1>10 DEF IInv, Waiting
<1> QED BY <1>11, <1>12

(* The steps of the running request. *)
LEMMA RunSteps ==
    ASSUME IInv, Flags', Prepare \/ StreamToken \/ EngineReturns
    PROVE  IInv'
<1>1. Typed /\ Kinds /\ Modes
  BY TypeParts DEF IInv, Typed
<1>2. /\ phase = "serving" /\ mode = "sequential" /\ pc = "run"
      /\ UNCHANGED <<mode, queue, open, rounds, order, before, late>>
  BY DEF Prepare, StreamToken, EngineReturns, Serving, bootVars, contVars,
         sendVars
<1>3. queue = <<>> /\ lines \in Seq(Commands) /\ wire \in Seq(Commands)
  BY <1>1, <1>2 DEF Modes, Kinds
<1>4. \A s \in Stages : NextStage[s] \in Stages \union {"run"}
  BY DEF NextStage, Stages
<1>6. CASE Prepare
  <2>1. Poll
    BY <1>6 DEF Prepare
  <2>2. /\ lines' \in Seq(Commands) /\ wire' \in Seq(Commands) /\ Polled
        /\ ~ShouldCancel => Q' = Q /\ settled' = settled
    BY <2>1, <1>1, <1>2, <1>3, PollTakes
  <2>3. CASE ShouldCancel
    <3>1. Answer("cancelled")
      BY <2>3, <1>6 DEF Prepare
    <3> QED BY <3>1, <2>2, <1>2, IsAnswered
  <2>4. CASE ~ShouldCancel
    <3>1. /\ stage' = NextStage[stage] /\ stage \in Stages
          /\ pc' = "run" /\ UNCHANGED <<phase, answered, dirty, cur>>
      BY <2>4, <1>6 DEF Prepare, Quiet
    <3> QED BY <3>1, <2>2, <2>4, <1>2, <1>4, GoesOn
  <2> QED BY <2>3, <2>4
<1>7. CASE StreamToken
  <2>1. Poll
    BY <1>7 DEF StreamToken
  <2>2. /\ lines' \in Seq(Commands) /\ wire' \in Seq(Commands) /\ Polled
        /\ ~ShouldCancel => Q' = Q /\ settled' = settled
    BY <2>1, <1>1, <1>2, <1>3, PollTakes
  <2>3. CASE ShouldCancel
    <3>1. Answer("cancelled")
      BY <2>3, <1>7 DEF StreamToken
    <3> QED BY <3>1, <2>2, <1>2, IsAnswered
  <2>4. CASE ~ShouldCancel
    <3>1. /\ phase' = IF closed THEN "raised" ELSE phase
          /\ UNCHANGED <<pc, answered, dirty, cur, stage>>
      BY <2>4, <1>7 DEF StreamToken
    <3>2. phase' \in {"serving", "raised"}
      BY <3>1, <1>2
    <3>3. stage' \in Stages \union {"none", "run"}
      BY <3>1, <1>1 DEF Kinds
    <3> QED BY <3>1, <3>2, <3>3, <2>2, <2>4, <1>2, GoesOn
  <2> QED BY <2>3, <2>4
<1>8. CASE EngineReturns
  <2>1. UNCHANGED <<wire, lines, settled>>
    BY <1>8 DEF EngineReturns
  <2>2. Polled
    BY <2>1, <1>2 DEF Polled, Q
  <2>3. PICK kind \in {"finished", "error"} : Answer(kind)
    BY <1>8 DEF EngineReturns
  <2> QED BY <2>1, <2>2, <2>3, <1>2, <1>3, IsAnswered
<1> QED BY <1>6, <1>7, <1>8

(* The continuous loop. *)

LEMMA ReaderStep ==
    ASSUME IInv, Flags', ReaderReads
    PROVE  IInv'
<1>1. /\ phase = "serving" /\ mode = "continuous"
      /\ UNCHANGED <<mode, phase, pc, stage, rounds, lines, open, cur, order,
                     answered, before, dirty, late, settled>>
  BY DEF ReaderReads, Serving, bootVars, sendVars, seqVars
<1>2. Typed /\ Modes /\ Answers /\ InTurn /\ Kinds
      /\ Books(Q, order, Held, before, late, settled)
  BY <1>1, TypeParts DEF IInv, Waiting, Typed
<1>3. /\ lines \in Seq(All) /\ queue \in Seq(All) /\ wire \in Seq(All)
      /\ Q \in Seq(All) /\ Len(Q) \in Nat /\ order \in Seq(Requests)
      /\ wire \in Seq(Commands)
  BY <1>2, Commanded DEF Kinds
<1>4. lines = <<>>
  BY <1>1, <1>2 DEF Modes
<1>5. before \subseteq ToSet(order) /\ late \subseteq ToSet(order)
  BY <1>2 DEF Typed
<1>6. lines \o queue = queue
  BY <1>3, <1>4, ConcatEmptySeq
<1>7. /\ queue' \in Seq(All) /\ wire' \in Seq(Commands)
      /\ Books(Q', order, Held, before, late, settled)
  <2>1. CASE wire # <<>>
    <3>1. queue' = Append(queue, Head(wire)) /\ wire' = Tail(wire)
      BY <2>1 DEF ReaderReads
    <3>2. Head(wire) \in All /\ Tail(wire) \in Seq(Commands)
      BY <2>1, <1>3, TailWithout
    <3>3. queue' \in Seq(All)
      BY <3>1, <3>2, <1>3, AppendProperties
    <3>4. lines \o queue' = queue'
      BY <3>3, <1>4, ConcatEmptySeq
    <3>5. queue' \o wire' = queue \o wire
      BY <3>1, <2>1, <1>3, JoinedMove
    <3>6. Q' = Q
      BY <3>4, <3>5, <1>1, <1>6 DEF Q
    <3> QED BY <3>1, <3>2, <3>3, <3>6, <1>2
  <2>2. CASE wire = <<>>
    <3>1. queue' = queue \o <<Eof, Eof>> /\ wire' = wire
      BY <2>2 DEF ReaderReads
    <3>2. Eof \in All
      BY DEF All
    <3> DEFINE q1 == Append(queue, Eof)
    <3>3. q1 \in Seq(All) /\ Append(q1, Eof) \in Seq(All)
      BY <3>2, <1>3, AppendProperties
    <3>4. queue' = Append(q1, Eof)
      BY <3>1, <3>2, <1>3
    <3>5. With(queue, q1, Eof) /\ With(q1, Append(q1, Eof), Eof)
      BY <3>2, <3>3, <1>3, WithAppend
    <3>6. Q = queue
      BY <2>2, <1>3, <1>6, ConcatEmptySeq DEF Q
    <3>7. Q' = Append(q1, Eof)
      <4>1. lines \o queue' = queue'
        BY <3>3, <3>4, <1>4, ConcatEmptySeq
      <4>2. queue' \o <<>> = queue'
        BY <3>3, <3>4, ConcatEmptySeq
      <4> QED BY <4>1, <4>2, <3>1, <3>4, <2>2, <1>1 DEF Q
    <3>8. Len(q1) \in Nat
      BY <3>3, LenProperties
    <3> HIDE DEF q1
    <3>9. Eof # ResetCommand /\ \A r : Eof # Chat(r)
      BY CommandFacts
    <3>10. Books(q1, order, Held, before, late, settled)
      BY <3>5, <3>6, <3>9, <1>2, <1>3, <1>5, BooksSendOther
    <3>11. Books(Append(q1, Eof), order, Held, before, late, settled)
      BY <3>5, <3>8, <3>9, <3>10, <1>3, <1>5, BooksSendOther
    <3> QED BY <3>1, <3>3, <3>4, <3>7, <3>11, <1>3
  <2> QED BY <2>1, <2>2
<1>8. Kinds'
  BY <1>1, <1>2, <1>3, <1>7 DEF Kinds, All
<1>9. Typed'
  BY <1>1, <1>2, <1>8, TypeParts DEF Typed, TypeOK, Flags, Kinds
<1>10. Modes'
  <2>1. phase' \notin DOMAIN NextStatus
    BY <1>1 DEF NextStatus
  <2> QED BY <2>1, <1>1, <1>2 DEF Modes
<1>11. Held' = Held
  BY <1>1 DEF Held
<1>12. Answers' /\ InTurn'
  BY <1>1, <1>2, <1>11 DEF Answers, InTurn
<1> QED BY <1>1, <1>7, <1>9, <1>10, <1>11, <1>12 DEF IInv, Waiting

LEMMA LoopGetStep ==
    ASSUME IInv, Flags', LoopGet
    PROVE  IInv'
<1> DEFINE c == Head(queue)
<1> DEFINE r == c[2]
<1>1. /\ phase = "serving" /\ mode = "continuous" /\ queue # <<>>
      /\ queue' = Tail(queue)
      /\ UNCHANGED <<mode, wire, stage, rounds, lines, cur, order, before,
                     late>>
  BY DEF LoopGet, Serving, bootVars, sendVars, seqVars
<1>2. Typed /\ Modes /\ Answers /\ InTurn /\ Kinds
      /\ Books(Q, order, Held, before, late, settled)
  BY <1>1, TypeParts DEF IInv, Waiting, Typed
<1>3. lines = <<>> /\ cur = None /\ None \notin Requests
  BY <1>1, <1>2, WorkerMainAssumption DEF Modes
<1>4. /\ queue \in Seq(All) /\ wire \in Seq(All) /\ lines \in Seq(All)
      /\ Q \in Seq(All) /\ Len(Q) \in Nat
      /\ order \in Seq(Requests) /\ answered \in Seq(Requests)
      /\ Len(order) \in Nat /\ Len(answered) \in Nat
  BY <1>2, Commanded
<1>5. c \in All /\ queue' \in Seq(All)
  BY <1>1, <1>4, TailWithout
<1>6. Without(Q, Q', 1) /\ Q[1] = c /\ 1 \in 1..Len(Q)
  <2>1. lines \o queue = queue
    BY <1>3, <1>4, ConcatEmptySeq
  <2>2. lines' \o queue' = queue'
    BY <1>1, <1>3, <1>5, ConcatEmptySeq
  <2>3. <<>> \in Seq(All)
    BY EmptySeq
  <2>4. /\ Without(queue \o <<>> \o wire, Tail(queue) \o <<>> \o wire, 1)
        /\ (queue \o <<>> \o wire)[1] = Head(queue)
        /\ 1 \in 1..Len(queue \o <<>> \o wire)
    BY <2>3, <1>1, <1>4, JoinedTakeFirst
  <2>5. queue \o <<>> = queue /\ Tail(queue) \o <<>> = Tail(queue)
    BY <1>1, <1>4, <1>5, ConcatEmptySeq
  <2>6. Q = queue \o wire /\ Q' = Tail(queue) \o wire
    BY <2>1, <2>2, <1>1 DEF Q
  <2> QED BY <2>4, <2>5, <2>6
<1>7. /\ before \subseteq ToSet(order) /\ late \subseteq ToSet(order)
      /\ settled \subseteq late /\ Held \subseteq ToSet(order)
      /\ ToSet(order) \subseteq Requests
      /\ ToSet(answered) \subseteq Requests
      /\ open \subseteq Requests /\ IsFiniteSet(open)
  BY <1>2, <1>4, ToSetIs DEF Typed, Answers, Kinds
<1>8. Held = ToSet(answered) \union open
  BY <1>3 DEF Held
<1>9. /\ c # Eof => c \in Commands
      /\ c[1] = "chat" => c = Chat(r) /\ r \in Requests
      /\ c[1] = "cancel" => c = CancelOf(r) /\ r \in Requests
  <2>1. c # Eof => c \in Commands
    BY <1>5 DEF All
  <2>2. Eof[1] # "chat" /\ Eof[1] # "cancel"
    BY DEF Eof
  <2> QED BY <2>1, <2>2, CommandKind
<1>10. \/ c = Eof /\ Quiet("tick") /\ UNCHANGED <<open, settled>>
       \/ c = ResetCommand /\ ResetCaches
       \/ c[1] = "cancel" /\ CancelOpen(r)
       \/ c[1] = "chat" /\ SubmitChat(r)
  BY DEF LoopGet
<1> HIDE DEF r, c
<1>t. ASSUME phase' \in {"serving", "raised"}, pc' = "tick",
             open' \subseteq Requests, IsFiniteSet(open'),
             settled' \subseteq late, answered' \in Seq(Requests)
      PROVE  Typed'
  <2>1. Kinds'
    BY <1>t, <1>1, <1>2, <1>5 DEF Kinds, Ended, All
  <2> QED BY <2>1, <1>t, <1>1, <1>2, TypeParts
          DEF Typed, TypeOK, Flags, Kinds
<1>m. ASSUME phase' \in {"serving", "raised"} PROVE Modes' /\ InTurn'
  <2>1. phase' \notin DOMAIN NextStatus /\ phase' # "clean"
    BY <1>m DEF NextStatus
  <2> QED BY <2>1, <1>m, <1>1, <1>2 DEF Modes, InTurn
<1>b. ASSUME Held \subseteq Held',
             \A s \in Requests : s \in Held' => s \in Held \/ Q[1] = Chat(s),
             \A s \in Requests : Q[1] = Chat(s) => s \in Held',
             \A s \in Requests : s \in settled' =>
                 s \in settled \/ \A i \in 1..Len(Q) : Q[i] # Chat(s)
      PROVE  Books(Q', order, Held', before, late, settled')
  BY <1>b, <1>2, <1>4, <1>6, <1>7, BooksDrop
<1>h. Held' = ToSet(answered') \union open'
  BY <1>1, <1>3 DEF Held
<1>11. CASE c = Eof /\ Quiet("tick") /\ UNCHANGED <<open, settled>>
  <2>1. pc' = "tick" /\ UNCHANGED <<phase, answered, dirty, open, settled>>
    BY <1>11 DEF Quiet
  <2>2. Typed'
    BY <2>1, <1>1, <1>4, <1>7, <1>t
  <2>3. Held' = Held
    BY <2>1, <1>8, <1>h
  <2>4. Answers'
    BY <2>1, <2>3, <1>1, <1>2 DEF Answers
  <2>5. \A s : Q[1] # Chat(s)
    BY <1>6, <1>11, CommandFacts
  <2>6. Books(Q', order, Held', before, late, settled')
    BY <2>1, <2>3, <2>5, <1>b
  <2> QED BY <2>1, <2>2, <2>4, <2>6, <1>1, <1>m DEF IInv, Waiting
<1>12. CASE c = ResetCommand /\ ResetCaches
  <2>1. /\ open' = open /\ settled' = settled
        /\ Emit(IF open = {} THEN <<"reset_done", None>> ELSE <<"busy", None>>,
                "tick")
    BY <1>12 DEF ResetCaches
  <2>2. /\ pc' = "tick" /\ answered' = answered
        /\ phase' \in {"serving", "raised"}
        /\ dirty' = dirty \/ (dirty' = before \ ToSet(answered) /\ open = {})
    <3>1. CASE open = {}
      <4>1. Emit(<<"reset_done", None>>, "tick")
        BY <2>1, <3>1
      <4>2. /\ pc' = "tick" /\ answered' = answered
            /\ closed => phase' = "raised"
            /\ ~closed => phase' = phase
            /\ dirty' = dirty \/ dirty' = before \ ToSet(answered)
        BY <4>1, EmitOther
      <4> QED BY <3>1, <4>2, <1>1, <1>2 DEF Typed, TypeOK
    <3>2. CASE open # {}
      <4>1. Emit(<<"busy", None>>, "tick")
        BY <2>1, <3>2
      <4>2. /\ pc' = "tick" /\ answered' = answered
            /\ closed => phase' = "raised"
            /\ ~closed => phase' = phase
            /\ dirty' = dirty
        BY <4>1, EmitOther
      <4> QED BY <3>2, <4>2, <1>1, <1>2 DEF Typed, TypeOK
    <3> QED BY <3>1, <3>2
  <2>3. Q[1] = ResetCommand
    BY <1>6, <1>12
  <2>4. before \subseteq Held
    BY <2>3, <1>2, <1>4, <1>6, ResetFinds
  <2>5. dirty' = {}
    BY <2>2, <2>4, <1>2, <1>8 DEF Answers
  <2>6. Typed'
    BY <2>1, <2>2, <1>4, <1>7, <1>t
  <2>7. Held' = Held
    BY <2>1, <2>2, <1>8, <1>h
  <2>8. Answers'
    BY <2>1, <2>2, <2>5, <2>7, <1>1, <1>2 DEF Answers
  <2>9. \A s : Q[1] # Chat(s)
    BY <2>3, CommandFacts
  <2>10. Books(Q', order, Held', before, late, settled')
    BY <2>1, <2>7, <2>9, <1>b
  <2> QED BY <2>2, <2>6, <2>8, <2>10, <1>1, <1>m DEF IInv, Waiting
<1>13. CASE c[1] = "cancel" /\ CancelOpen(r)
  <2>1. /\ r \in Requests /\ Q[1] = CancelOf(r)
        /\ settled' = settled \union ({r} \intersect late)
    BY <1>6, <1>9, <1>13 DEF CancelOpen, Settle
  <2>2. settled' \subseteq late
    BY <2>1, <1>7
  <2>3. r \in late => \A i \in 1..Len(Q) : Q[i] # Chat(r)
    BY <2>1, <1>2, <1>4, <1>6, CancelFinds
  <2>4. \A s : Q[1] # Chat(s)
    BY <2>1, CommandFacts
  <2>5. CASE r \in open
    <3>1. Emit(<<"cancelled", r>>, "tick") /\ open' = open \ {r}
      BY <2>5, <1>13 DEF CancelOpen
    <3>2. /\ pc' = "tick" /\ dirty' = dirty
          /\ closed => phase' = "raised" /\ answered' = answered
          /\ ~closed => phase' = phase /\ answered' = Append(answered, r)
      BY <2>1, <3>1, EmitAnswer
    <3>3. IsFiniteSet(open') /\ open' \subseteq Requests /\ open' \subseteq open
      BY <3>1, <1>7, FS_RemoveElement
    <3>4. settled' \intersect (open' \union {cur'}) = {}
      BY <2>1, <3>1, <1>1, <1>2, <1>3 DEF Answers
    <3>5. r \in ToSet(order) /\ r \notin ToSet(answered)
      BY <2>5, <1>2, <1>7, <1>8 DEF Answers
    <3>6. CASE closed
      <4>1. Typed'
        BY <2>2, <3>2, <3>3, <3>6, <1>4, <1>t
      <4>2. Held' \subseteq Held
        BY <3>2, <3>3, <3>6, <1>8, <1>h
      <4>3. Answers'
        BY <3>2, <3>3, <3>4, <3>6, <4>2, <1>1, <1>2, <1>7 DEF Answers
      <4> QED BY <3>2, <3>6, <4>1, <4>3, <1>m DEF IInv, Waiting
    <3>7. CASE ~closed
      <4>1. /\ Answers' /\ answered' \in Seq(Requests)
            /\ ToSet(answered') = ToSet(answered) \union {r}
        <5>1. cur' \in {cur, None} /\ r \notin open' /\ r # cur'
          BY <2>1, <3>1, <1>1, <1>3
        <5> QED BY <5>1, <2>1, <3>2, <3>3, <3>4, <3>5, <3>7, <1>1, <1>2,
                   Answering
      <4>2. Typed'
        BY <4>1, <2>2, <3>2, <3>3, <3>7, <1>1, <1>t
      <4>3. Held' = Held
        BY <4>1, <2>5, <3>1, <1>8, <1>h
      <4>4. Books(Q', order, Held', before, late, settled')
        BY <2>1, <2>3, <2>4, <4>3, <1>b
      <4> QED BY <4>1, <4>2, <4>4, <3>2, <3>7, <1>1, <1>m DEF IInv, Waiting
    <3> QED BY <3>6, <3>7
  <2>6. CASE r \notin open
    <3>1. pc' = "tick" /\ UNCHANGED <<phase, answered, dirty, open>>
      BY <2>6, <1>13 DEF CancelOpen, Quiet
    <3>2. Typed'
      BY <2>2, <3>1, <1>1, <1>4, <1>7, <1>t
    <3>3. Held' = Held
      BY <3>1, <1>8, <1>h
    <3>4. Answers'
      BY <2>1, <2>6, <3>1, <3>3, <1>1, <1>2, <1>3 DEF Answers
    <3>5. Books(Q', order, Held', before, late, settled')
      BY <2>1, <2>3, <2>4, <3>3, <1>b
    <3> QED BY <3>1, <3>2, <3>4, <3>5, <1>1, <1>m DEF IInv, Waiting
  <2> QED BY <2>5, <2>6
<1>14. CASE c[1] = "chat" /\ SubmitChat(r)
  <2>1. r \in Requests /\ Q[1] = Chat(r) /\ settled' = settled
    BY <1>6, <1>9, <1>14 DEF SubmitChat
  <2>2. r \in ToSet(order) /\ r \notin Held /\ r \notin settled
    BY <2>1, <1>2, <1>6 DEF Books, Waits
  <2>3. \A s : Q[1] = Chat(s) => s = r
    BY <2>1, CommandFacts
  <2>4. CASE open' = open \union {r} /\ Quiet("tick")
    <3>1. pc' = "tick" /\ UNCHANGED <<phase, answered, dirty>>
      BY <2>4 DEF Quiet
    <3>2. IsFiniteSet(open') /\ open' \subseteq Requests
      BY <2>1, <2>4, <1>7, FS_AddElement
    <3>3. Typed'
      BY <2>1, <3>1, <3>2, <1>1, <1>4, <1>7, <1>t
    <3>4. Held' = Held \union {r}
      BY <2>4, <3>1, <1>8, <1>h
    <3>5. Answers'
      BY <2>1, <2>2, <2>4, <3>1, <3>4, <1>1, <1>2, <1>3, <1>8 DEF Answers
    <3>6. Books(Q', order, Held', before, late, settled')
      BY <2>1, <2>3, <3>4, <1>b
    <3> QED BY <3>1, <3>3, <3>5, <3>6, <1>1, <1>m DEF IInv, Waiting
  <2>5. CASE Emit(<<"error", r>>, "tick") /\ open' = open
    <3>1. /\ pc' = "tick" /\ dirty' = dirty
          /\ closed => phase' = "raised" /\ answered' = answered
          /\ ~closed => phase' = phase /\ answered' = Append(answered, r)
      BY <2>1, <2>5, EmitAnswer
    <3>2. CASE closed
      <4>1. Typed'
        BY <2>1, <2>5, <3>1, <3>2, <1>4, <1>7, <1>t
      <4>2. Held' = Held
        BY <2>5, <3>1, <3>2, <1>8, <1>h
      <4>3. Answers'
        BY <2>1, <2>5, <3>1, <3>2, <4>2, <1>1, <1>2 DEF Answers
      <4> QED BY <3>1, <3>2, <4>1, <4>3, <1>m DEF IInv, Waiting
    <3>3. CASE ~closed
      <4>1. /\ Answers' /\ answered' \in Seq(Requests)
            /\ ToSet(answered') = ToSet(answered) \union {r}
        <5>1. /\ cur' \in {cur, None} /\ r \notin open' /\ r # cur'
              /\ open' \subseteq open /\ r \notin ToSet(answered)
          BY <2>1, <2>2, <2>5, <1>1, <1>3, <1>8
        <5>2. settled' \intersect (open' \union {cur'}) = {}
          BY <2>1, <2>5, <1>1, <1>2 DEF Answers
        <5> QED BY <5>1, <5>2, <2>1, <2>2, <3>1, <3>3, <1>1, <1>2, Answering
      <4>2. Typed'
        BY <2>1, <2>5, <4>1, <3>1, <3>3, <1>1, <1>7, <1>t
      <4>3. Held' = Held \union {r}
        BY <4>1, <2>5, <1>8, <1>h
      <4>4. Books(Q', order, Held', before, late, settled')
        BY <2>1, <2>3, <4>3, <1>b
      <4> QED BY <4>1, <4>2, <4>4, <3>1, <3>3, <1>1, <1>m DEF IInv, Waiting
    <3> QED BY <3>2, <3>3
  <2> QED BY <2>4, <2>5, <1>14 DEF SubmitChat
<1> QED BY <1>10, <1>11, <1>12, <1>13, <1>14

LEMMA InjectiveConcat ==
    ASSUME NEW S, NEW s \in Seq(S), NEW t \in Seq(S),
           IsInjective(s), IsInjective(t), ToSet(s) \intersect ToSet(t) = {}
    PROVE  /\ s \o t \in Seq(S) /\ IsInjective(s \o t)
           /\ ToSet(s \o t) = ToSet(s) \union ToSet(t)
<1> DEFINE q == s \o t
<1>1. /\ q \in Seq(S) /\ Len(q) = Len(s) + Len(t)
      /\ \A i \in 1..Len(s) + Len(t) :
             q[i] = IF i <= Len(s) THEN s[i] ELSE t[i - Len(s)]
  BY ConcatProperties
<1> HIDE DEF q
<1>2. /\ Len(s) \in Nat /\ DOMAIN s = 1..Len(s)
      /\ Len(t) \in Nat /\ DOMAIN t = 1..Len(t)
      /\ Len(q) \in Nat /\ DOMAIN q = 1..Len(q)
  BY <1>1, LenProperties
<1>3. /\ \A x : x \in ToSet(s) <=> \E i \in 1..Len(s) : s[i] = x
      /\ \A x : x \in ToSet(t) <=> \E i \in 1..Len(t) : t[i] = x
  BY ToSetIs
<1>4. \A x : x \in ToSet(q) <=> \E i \in 1..Len(q) : q[i] = x
  <2>1. q \in Seq(S)
    BY <1>1
  <2> QED BY <2>1, ToSetIs
<1>5. \A i \in 1..Len(q) :
          \/ i \in 1..Len(s) /\ q[i] = s[i] /\ q[i] \in ToSet(s)
          \/ /\ ~(i <= Len(s)) /\ i - Len(s) \in 1..Len(t)
             /\ q[i] = t[i - Len(s)] /\ q[i] \in ToSet(t)
  <2> SUFFICES ASSUME NEW i \in 1..Len(q)
               PROVE  \/ i \in 1..Len(s) /\ q[i] = s[i] /\ q[i] \in ToSet(s)
                      \/ /\ ~(i <= Len(s)) /\ i - Len(s) \in 1..Len(t)
                         /\ q[i] = t[i - Len(s)] /\ q[i] \in ToSet(t)
    OBVIOUS
  <2>1. CASE i <= Len(s)
    <3>1. i \in 1..Len(s) /\ q[i] = s[i]
      BY <2>1, <1>1, <1>2
    <3> QED BY <3>1, <1>3
  <2>2. CASE ~(i <= Len(s))
    <3> DEFINE j == i - Len(s)
    <3>1. j \in 1..Len(t)
      BY <2>2, <1>1, <1>2
    <3>2. q[i] = t[j]
      BY <2>2, <1>1
    <3> HIDE DEF j
    <3>3. q[i] \in ToSet(t)
      BY <3>1, <3>2, <1>3
    <3> QED BY <3>1, <3>2, <3>3, <2>2 DEF j
  <2> QED BY <2>1, <2>2
<1>6. \A i \in 1..Len(s) : i \in 1..Len(q) /\ q[i] = s[i]
  BY <1>1, <1>2
<1>7. \A i \in 1..Len(t) : Len(s) + i \in 1..Len(q) /\ q[Len(s) + i] = t[i]
  <2> SUFFICES ASSUME NEW i \in 1..Len(t)
               PROVE  Len(s) + i \in 1..Len(q) /\ q[Len(s) + i] = t[i]
    OBVIOUS
  <2> DEFINE j == Len(s) + i
  <2>1. /\ j \in 1..Len(q) /\ j \in 1..Len(s) + Len(t) /\ ~(j <= Len(s))
        /\ j - Len(s) = i
    BY <1>1, <1>2
  <2> HIDE DEF j
  <2>2. q[j] = t[j - Len(s)]
    BY <2>1, <1>1
  <2> QED BY <2>1, <2>2 DEF j
<1>8. ToSet(q) = ToSet(s) \union ToSet(t)
  <2>1. ToSet(q) \subseteq ToSet(s) \union ToSet(t)
    BY <1>4, <1>5
  <2>2. ToSet(s) \subseteq ToSet(q)
    BY <1>3, <1>4, <1>6
  <2>3. ToSet(t) \subseteq ToSet(q)
    BY <1>3, <1>4, <1>7
  <2> QED BY <2>1, <2>2, <2>3
<1>9. IsInjective(q)
  <2> SUFFICES ASSUME NEW a \in 1..Len(q), NEW b \in 1..Len(q), q[a] = q[b]
               PROVE  a = b
    BY <1>2 DEF IsInjective
  <2>1. CASE a \in 1..Len(s) /\ b \in 1..Len(s)
    BY <2>1, <1>2, <1>6 DEF IsInjective
  <2>2. CASE /\ ~(a <= Len(s)) /\ a - Len(s) \in 1..Len(t)
             /\ q[a] = t[a - Len(s)]
             /\ ~(b <= Len(s)) /\ b - Len(s) \in 1..Len(t)
             /\ q[b] = t[b - Len(s)]
    <3>1. a - Len(s) = b - Len(s)
      BY <2>2, <1>2 DEF IsInjective
    <3> QED BY <3>1, <1>2
  <2> QED BY <2>1, <2>2, <1>5
<1> QED BY <1>1, <1>8, <1>9 DEF q

LEMMA LoopTickStep ==
    ASSUME IInv, Flags', NEW done \in SUBSET open, LoopTick(done)
    PROVE  IInv'
<1>1. /\ phase = "serving" /\ mode = "continuous" /\ open' = open \ done
      /\ UNCHANGED <<mode, wire, dirty, settled, order, before, late, lines,
                     cur, stage, queue>>
  BY DEF LoopTick, Serving, bootVars, sendVars, seqVars
<1>2. Typed /\ Modes /\ Answers /\ InTurn /\ Kinds
      /\ Books(Q, order, Held, before, late, settled)
  BY <1>1, TypeParts DEF IInv, Waiting, Typed
<1>3. cur = None /\ None \notin Requests
  BY <1>1, <1>2, WorkerMainAssumption DEF Modes
<1>4. /\ order \in Seq(Requests) /\ answered \in Seq(Requests)
  BY <1>2, Commanded
<1>5. /\ Held \subseteq ToSet(order)
      /\ ToSet(answered) \subseteq Requests
      /\ open \subseteq Requests /\ IsFiniteSet(open)
      /\ Held = ToSet(answered) \union open
  BY <1>2, <1>3, <1>4, ToSetIs DEF Typed, Answers, Kinds, Held
<1>6. IsFiniteSet(open') /\ open' \subseteq Requests
  BY <1>1, <1>5, FS_Subset
<1>7. rounds' \in 0..TickMax - 1
  <2>1. \/ rounds' = 0
        \/ rounds' = rounds + 1 /\ ~(rounds + 1 >= TickMax)
    BY DEF LoopTick
  <2>2. rounds \in 0..TickMax - 1 /\ TickMax \in Nat \ {0}
    BY <1>2, WorkerMainAssumption DEF Kinds
  <2> QED BY <2>1, <2>2
<1>8. Held' = ToSet(answered') \union open'
  BY <1>1, <1>3 DEF Held
<1>9. Q' = Q
  BY <1>1 DEF Q
<1>t. ASSUME phase' \in {"serving", "raised", "clean"},
             pc' \in {"tick", "get"}, answered' \in Seq(Requests)
      PROVE  Typed'
  <2>1. Kinds'
    BY <1>t, <1>1, <1>2, <1>6, <1>7 DEF Kinds, Ended
  <2> QED BY <2>1, <1>t, <1>1, <1>2, <1>6, TypeParts
          DEF Typed, TypeOK, Flags, Kinds
<1>m. ASSUME phase' \in {"serving", "raised", "clean"},
             phase' = "clean" => open' = {}
      PROVE  Modes' /\ InTurn'
  <2>1. phase' \notin DOMAIN NextStatus
    BY <1>m DEF NextStatus
  <2> QED BY <2>1, <1>m, <1>1, <1>2, <1>3 DEF Modes, InTurn
<1>10. CASE closed /\ done # {}
  <2>1. phase' = "raised" /\ pc' = pc /\ answered' = answered /\ pc = "tick"
    BY <1>10 DEF LoopTick
  <2>2. Typed'
    BY <2>1, <1>4, <1>t
  <2>3. Modes' /\ InTurn'
    BY <2>1, <1>m
  <2>4. Held' \subseteq Held
    BY <2>1, <1>1, <1>5, <1>8
  <2>5. Answers'
    BY <2>1, <2>4, <1>1, <1>2 DEF Answers
  <2> QED BY <2>1, <2>2, <2>3, <2>5 DEF IInv, Waiting
<1>11. CASE ~(closed /\ done # {})
  <2>1. PICK first \in SUBSET done :
            answered' = answered \o SetToSeq(first) \o SetToSeq(done \ first)
    <3>1. {r \in done : Model(r) = "text"} \in SUBSET done
          /\ done \ {r \in done : Model(r) = "text"} \in SUBSET done
      OBVIOUS
    <3> QED BY <3>1, <1>11 DEF LoopTick
  <2>2. /\ phase' = IF pendingStop /\ open' = {} THEN "clean" ELSE phase
        /\ pc' = "get"
    BY <1>11 DEF LoopTick
  <2>3. IsFiniteSet(first) /\ IsFiniteSet(done \ first)
    BY <2>1, <1>5, FS_Subset
  <2> DEFINE a == SetToSeq(first)
  <2> DEFINE b == SetToSeq(done \ first)
  <2>4. /\ a \in Seq(first) /\ IsInjective(a) /\ ToSet(a) = first
        /\ b \in Seq(done \ first) /\ IsInjective(b) /\ ToSet(b) = done \ first
    BY <2>3, SetToSeqLists
  <2>5. a \in Seq(Requests) /\ b \in Seq(Requests)
    BY <2>4, <1>5, SeqMonotonic
  <2> HIDE DEF a, b
  <2>6. /\ answered \o a \in Seq(Requests) /\ IsInjective(answered \o a)
        /\ ToSet(answered \o a) = ToSet(answered) \union first
    <3>1. ToSet(answered) \intersect ToSet(a) = {}
      BY <2>1, <2>4, <1>2 DEF Answers
    <3>2. IsInjective(answered)
      BY <1>2 DEF Answers
    <3> QED BY <3>1, <3>2, <2>4, <2>5, <1>4, InjectiveConcat
  <2> DEFINE v == answered \o a
  <2>7. v \in Seq(Requests) /\ IsInjective(v)
        /\ ToSet(v) = ToSet(answered) \union first
    BY <2>6
  <2> HIDE DEF v
  <2>8. /\ v \o b \in Seq(Requests) /\ IsInjective(v \o b)
        /\ ToSet(v \o b) = ToSet(answered) \union done
    <3>1. ToSet(v) \intersect ToSet(b) = {}
      BY <2>1, <2>4, <2>7, <1>2 DEF Answers
    <3>2. ToSet(v \o b) = ToSet(v) \union ToSet(b)
          /\ v \o b \in Seq(Requests) /\ IsInjective(v \o b)
      BY <3>1, <2>4, <2>5, <2>7, InjectiveConcat
    <3> QED BY <3>2, <2>1, <2>4, <2>7
  <2>9. answered' = v \o b
    BY <2>1 DEF v, a, b
  <2>10. phase' \in {"serving", "clean"} /\ (phase' = "clean" => open' = {})
    BY <2>2, <1>1
  <2>11. Typed'
    BY <2>2, <2>8, <2>9, <2>10, <1>t
  <2>12. Modes' /\ InTurn'
    BY <2>10, <1>m
  <2>13. Held' = Held
    BY <2>8, <2>9, <1>1, <1>5, <1>8
  <2>14. ToSet(answered') \intersect (open' \union {cur'}) = {}
    BY <2>8, <2>9, <1>1, <1>2, <1>3, <1>5 DEF Answers
  <2>15. Answers'
    BY <2>8, <2>9, <2>13, <2>14, <1>1, <1>2 DEF Answers
  <2>16. Waiting'
    BY <2>13, <1>1, <1>2, <1>9 DEF Waiting
  <2> QED BY <2>11, <2>12, <2>15, <2>16 DEF IInv
<1> QED BY <1>10, <1>11

-----------------------------------------------------------------------------
(* Every step keeps the invariant. *)
LEMMA StepIInv == IInv /\ [Next]_vars => IInv'
<1> SUFFICES ASSUME IInv, [Next]_vars PROVE IInv'
  OBVIOUS
<1>0. Flags'
  BY FlagsStep, TypeParts DEF IInv, Typed
<1>1. CASE \E c \in Commands : GatewaySends(c)
  BY <1>0, <1>1, SendsStep
<1>2. CASE \E line \in Commands : SequentialRead(line)
  BY <1>0, <1>2, SequentialReadStep
<1>3. CASE Prepare \/ StreamToken \/ EngineReturns
  BY <1>0, <1>3, RunSteps
<1>4. CASE ReaderReads
  BY <1>0, <1>4, ReaderStep
<1>5. CASE LoopGet
  BY <1>0, <1>5, LoopGetStep
<1>6. CASE \E done \in SUBSET open : LoopTick(done)
  BY <1>0, <1>6, LoopTickStep
<1>7. CASE \/ GatewayCloses \/ Sigterm \/ BootStep \/ BootFails
           \/ SequentialTop \/ SequentialEof \/ LoopFindsNothing
           \/ LoopLooksAtReader \/ LoopRaises \/ UNCHANGED vars
  BY <1>0, <1>7, QuietSteps
<1> QED BY <1>1, <1>2, <1>3, <1>4, <1>5, <1>6, <1>7
        DEF Next, SequentialStep, LoopStep

LEMMA InvariantHolds == Spec => []IInv
  BY InitIInv, StepIInv, PTL DEF Spec

(* The sequential loop's answers are a prefix of what was sent. *)
LEMMA PrefixInTurn ==
    ASSUME Typed, InTurn, mode = "sequential"
    PROVE  IsPrefix(answered, order)
<1>1. /\ order \in Seq(Requests) /\ answered \in Seq(Requests)
      /\ Len(order) \in Nat /\ Len(answered) \in Nat
  BY Commanded
<1>2. /\ Len(answered) <= Len(order)
      /\ \A k \in 1..Len(answered) : answered[k] = order[k]
  BY DEF InTurn
<1> DEFINE n == Len(answered)
<1> DEFINE p == SubSeq(order, 1, n)
<1>3. \A i \in 1..n : order[i] \in Requests
  BY <1>1, <1>2, ElementOfSeq
<1>4. /\ n \in Int /\ 1 \in Int /\ n - 1 + 1 = n
      /\ (IF 1 <= n THEN n - 1 + 1 ELSE 0) = n
  BY <1>1
<1>5. /\ p \in Seq(Requests) /\ Len(p) = IF 1 <= n THEN n - 1 + 1 ELSE 0
      /\ \A i \in 1..n - 1 + 1 : p[i] = order[1 + i - 1]
  BY <1>3, <1>4, SubSeqProperties
<1>6. \A i \in 1..n : 1 + i - 1 = i
  BY <1>1
<1> HIDE DEF p
<1>7. Len(p) = n /\ \A i \in 1..n : answered[i] = p[i]
  BY <1>2, <1>4, <1>5, <1>6
<1>8. answered = p
  BY <1>1, <1>5, <1>7, SeqEqual
<1>9. SubSeq(answered, 1, Len(answered)) = answered
  BY <1>1, SubSeqFull
<1> QED BY <1>2, <1>8, <1>9 DEF IsPrefix, p

(***************************************************************************)
(* The two loops of main: every request is answered at most once and only  *)
(* when it is no longer worked on, the sequential loop answers in the      *)
(* order of arrival although should_cancel reads ahead, and a reset is     *)
(* acknowledged only after every answer to what was sent before it.        *)
(***************************************************************************)
THEOREM AnswersAreSound == Spec => []AnswersSound
<1>1. IInv => AnswersSound
  <2> SUFFICES ASSUME IInv PROVE AnswersSound
    OBVIOUS
  <2>1. Typed /\ Answers /\ InTurn /\ answered \in Seq(Requests)
    BY DEF IInv, Typed
  <2>2. Cardinality(ToSet(answered)) = Len(answered)
    BY <2>1, InjectiveCounts DEF Answers
  <2>3. ToSet(answered) \subseteq ToSet(order) \ (open \union {cur})
    BY <2>1 DEF Answers, Held
  <2>4. mode = "sequential" => IsPrefix(answered, order)
    BY <2>1, PrefixInTurn
  <2> QED BY <2>1, <2>2, <2>3, <2>4
          DEF AnswersSound, AnsweredOnce, ResetAfterAnswers, Typed, Answers
<1> QED BY <1>1, InvariantHolds, PTL

(***************************************************************************)
(* When a cancel sent after its request has been dealt with, by            *)
(* should_cancel, by the sequential loop or by the schedulers' cancel, the *)
(* request is no longer worked on, and never will be.                      *)
(***************************************************************************)
THEOREM CancelsSettle == Spec => []CancelSettles
<1>1. IInv => CancelSettles
  BY DEF IInv, Answers, CancelSettles
<1> QED BY <1>1, InvariantHolds, PTL

(***************************************************************************)
(* A worker that leaves its loop cleanly, on SIGTERM or at the end of the  *)
(* socket, has answered every request that it took up: the safety half of  *)
(* EndsWithGateway.                                                        *)
(***************************************************************************)
THEOREM CleanEnd == Spec => [](phase = "clean" => open = {} /\ cur = None)
<1>1. IInv => (phase = "clean" => open = {} /\ cur = None)
  BY DEF IInv, Modes
<1> QED BY <1>1, InvariantHolds, PTL

=============================================================================
