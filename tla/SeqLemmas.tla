------------------------------- MODULE SeqLemmas ------------------------------
(***************************************************************************)
(* Lemmas about sequences and about functions defined by recursion over    *)
(* numbers, for the proofs about the components.                           *)
(***************************************************************************)
EXTENDS Integers, Sequences, FiniteSets, SequencesExt, TLAPS, SequenceTheorems,
        FiniteSetTheorems, WellFoundedInduction

-----------------------------------------------------------------------------
(* Recursion over the elements of a sequence                               *)

LEMMA LeastExists ==
  ASSUME NEW T \in SUBSET Nat, T # {}
  PROVE  \E m \in T : \A n \in T : m <= n
  <1> DEFINE R == {p \in Nat \X Nat : p[1] < p[2]}
  <1>1. IsWellFoundedOn(R, Nat)
    BY NatLessThanWellFounded, Zenon DEF OpToRel
  <1>2. PICK m \in T : \A n \in T : <<n, m>> \notin R
    <2> HIDE DEF R
    <2> QED BY <1>1, WFMin
  <1>3. ASSUME NEW n \in T PROVE m <= n
    <2>1. <<n, m>> \in Nat \X Nat
      OBVIOUS
    <2>2. ~(n < m)
      BY <1>2, <2>1, SMT
    <2> QED BY <2>2
  <1> QED BY <1>3

LEMMA GreatestExists ==
  ASSUME NEW N \in Nat, NEW T \in SUBSET (0 .. N), T # {}
  PROVE  \E m \in T : \A n \in T : n <= m
  <1> DEFINE U == {N - n : n \in T}
  <1>1. \A n \in T : N - n \in Nat
    OBVIOUS
  <1>5. U \in SUBSET Nat /\ U # {}
    BY <1>1
  <1> HIDE DEF U
  <1>2. PICK k \in U : \A n \in U : k <= n
    BY <1>5, LeastExists
  <1>3. PICK m \in T : k = N - m
    BY DEF U
  <1>4. ASSUME NEW n \in T PROVE n <= m
    <2>1. N - n \in U
      BY DEF U
    <2>2. N - m <= N - n
      BY <1>2, <1>3, <2>1
    <2> QED BY <2>2
  <1> QED BY <1>4

\* Induction up to N, for a set of numbers.
LEMMA UpTo ==
  ASSUME NEW N \in Nat, NEW P, 0 \in P, \A n \in 1 .. N : n - 1 \in P => n \in P
  PROVE  0 .. N \subseteq P
  <1> DEFINE T == (0 .. N) \ P
  <1> SUFFICES ASSUME T # {} PROVE FALSE
    OBVIOUS
  <1>1. T \in SUBSET Nat
    OBVIOUS
  <1> HIDE DEF T
  <1>2. PICK m \in T : \A n \in T : m <= n
    BY <1>1, LeastExists
  <1>3. m \in 1 .. N /\ m - 1 \in 0 .. N /\ ~(m <= m - 1) /\ m \notin P
    BY <1>2 DEF T
  <1> QED BY <1>2, <1>3 DEF T

\* A function defined by its value at 0 and by each value from the one before.
LEMMA Recursion ==
  ASSUME NEW S, NEW a \in S, NEW N \in Nat, NEW g \in [1 .. N -> [S -> S]]
  PROVE  \E f \in [0 .. N -> S] : f[0] = a /\ \A n \in 1 .. N : f[n] = g[n][f[n - 1]]
  <1> DEFINE Up(k) == \E f \in [0 .. k -> S] : f[0] = a /\ \A n \in 1 .. k : f[n] = g[n][f[n - 1]]
             P == {k \in 0 .. N : Up(k)}
  <1>1. 0 \in P
    <2> DEFINE f == [n \in 0 .. 0 |-> a]
    <2>1. f \in [0 .. 0 -> S] /\ f[0] = a
      OBVIOUS
    <2> HIDE DEF f
    <2>2. \A n \in 1 .. 0 : f[n] = g[n][f[n - 1]]
      OBVIOUS
    <2> QED BY <2>1, <2>2
  <1>2. ASSUME NEW k \in 1 .. N, k - 1 \in P PROVE k \in P
    <2>1. PICK f \in [0 .. k - 1 -> S] : f[0] = a /\ \A n \in 1 .. k - 1 : f[n] = g[n][f[n - 1]]
      BY <1>2
    <2> DEFINE h == [n \in 0 .. k |-> IF n = k THEN g[k][f[k - 1]] ELSE f[n]]
    <2>2. f[k - 1] \in S /\ g[k] \in [S -> S]
      BY <2>1
    <2>3. h \in [0 .. k -> S] /\ h[0] = a
      BY <2>1, <2>2
    <2>4. ASSUME NEW n \in 1 .. k PROVE h[n] = g[n][h[n - 1]]
      <3>1. CASE n = k
        <4>1. h[k] = g[k][f[k - 1]] /\ h[k - 1] = f[k - 1]
          OBVIOUS
        <4> QED BY <3>1, <4>1
      <3>2. CASE n # k
        <4>1. n \in 1 .. k - 1 /\ h[n] = f[n] /\ h[n - 1] = f[n - 1]
          BY <3>2
        <4> QED BY <2>1, <4>1
      <3> QED BY <3>1, <3>2
    <2> HIDE DEF h
    <2> QED BY <2>3, <2>4
  <1> HIDE DEF P
  <1>3. \A k \in 1 .. N : k - 1 \in P => k \in P
    BY <1>2
  <1>4. 0 .. N \subseteq P
    BY <1>1, <1>3, UpTo
  <1>5. N \in P
    BY <1>4
  <1> QED BY <1>5 DEF P

\* f builds sequences over S with the steps g.
Builds(f, S, N, g) ==
  f \in [0 .. N -> Seq(S)] /\ f[0] = <<>> /\ \A n \in 1 .. N : f[n] = g[n][f[n - 1]]

LEMMA SeqRecursion ==
  ASSUME NEW S, NEW N \in Nat, NEW g \in [1 .. N -> [Seq(S) -> Seq(S)]]
  PROVE  \E f : Builds(f, S, N, g)
  <1>1. PICK T, e : T = Seq(S) /\ e = <<>>
    OBVIOUS
  <1>2. e \in T /\ g \in [1 .. N -> [T -> T]]
    BY <1>1
  <1>3. \E f \in [0 .. N -> T] : f[0] = e /\ \A n \in 1 .. N : f[n] = g[n][f[n - 1]]
    BY <1>2, Recursion
  <1> QED BY <1>1, <1>3 DEF Builds

-----------------------------------------------------------------------------
(* The elements of a sequence                                              *)

\* No object is in the sequence twice.
Once(q) == \A i, j \in DOMAIN q : q[i] = q[j] => i = j

LEMMA AppendOnce ==
  ASSUME NEW S, NEW q \in Seq(S), NEW x \in S
  PROVE  /\ Append(q, x) \in Seq(S) /\ ToSet(Append(q, x)) = ToSet(q) \cup {x}
         /\ Once(q) /\ ~Contains(q, x) => Once(Append(q, x))
  <1> DEFINE r == Append(q, x)
  <1>1. /\ r \in Seq(S) /\ Len(r) = Len(q) + 1 /\ Len(q) \in Nat /\ r[Len(q) + 1] = x
        /\ \A i \in 1 .. Len(q) : r[i] = q[i]
        /\ DOMAIN q = 1 .. Len(q) /\ DOMAIN r = 1 .. Len(q) + 1
    BY AppendProperties, LenProperties
  <1> HIDE DEF r
  <1>2. \A i \in DOMAIN r : i = Len(q) + 1 \/ i \in DOMAIN q
    BY <1>1
  <1>3. ToSet(r) = ToSet(q) \cup {x}
    BY <1>1, <1>2 DEF ToSet
  <1>4. ~Contains(q, x) => \A i \in DOMAIN q : q[i] # x
    BY <1>1 DEF Contains
  <1>5. Once(q) /\ ~Contains(q, x) => Once(r)
    BY <1>1, <1>2, <1>4 DEF Once
  <1> QED BY <1>1, <1>3, <1>5 DEF r

LEMMA ConcatSet ==
  ASSUME NEW S, NEW p \in Seq(S), NEW q \in Seq(S)
  PROVE  p \o q \in Seq(S) /\ ToSet(p \o q) = ToSet(p) \cup ToSet(q)
  <1> DEFINE r == p \o q
  <1>1. /\ r \in Seq(S) /\ Len(p) \in Nat /\ Len(q) \in Nat /\ Len(r) = Len(p) + Len(q)
        /\ \A i \in 1 .. Len(p) + Len(q) : r[i] = IF i <= Len(p) THEN p[i] ELSE q[i - Len(p)]
        /\ DOMAIN p = 1 .. Len(p) /\ DOMAIN q = 1 .. Len(q) /\ DOMAIN r = 1 .. Len(p) + Len(q)
    BY ConcatProperties, LenProperties
  <1> HIDE DEF r
  <1>2. \A i \in 1 .. Len(p) : i \in DOMAIN r /\ r[i] = p[i]
    BY <1>1
  <1>3. \A i \in 1 .. Len(q) : Len(p) + i \in DOMAIN r /\ r[Len(p) + i] = q[i]
    BY <1>1
  <1>4. \A i \in DOMAIN r : \/ i \in 1 .. Len(p) /\ r[i] = p[i]
                            \/ i - Len(p) \in 1 .. Len(q) /\ r[i] = q[i - Len(p)]
    BY <1>1
  <1>5. \A x \in ToSet(r) : x \in ToSet(p) \cup ToSet(q)
    BY <1>1, <1>4 DEF ToSet
  <1>6. \A x \in ToSet(p) : x \in ToSet(r)
    BY <1>1, <1>2 DEF ToSet
  <1>7. ASSUME NEW x \in ToSet(q) PROVE x \in ToSet(r)
    <2>1. PICK i \in 1 .. Len(q) : x = q[i]
      BY <1>1 DEF ToSet
    <2>2. Len(p) + i \in DOMAIN r /\ r[Len(p) + i] = x
      BY <1>3, <2>1
    <2> QED BY <2>2 DEF ToSet
  <1> QED BY <1>1, <1>5, <1>6, <1>7 DEF r

\* Flattening appends the sequences one after the other.
LEMMA FlattenUnfolds ==
  ASSUME NEW S, NEW seqs \in Seq(Seq(S)), seqs # <<>>
  PROVE  \E f : /\ FlattenSeq(seqs) = f[Len(seqs)]
               /\ \A n \in 1 .. Len(seqs) : f[n] = IF n = 1 THEN seqs[n] ELSE f[n - 1] \o seqs[n]
  <1> DEFINE N == Len(seqs)
             next(q, n) == IF n = 1 THEN seqs[n] ELSE q \o seqs[n]
  <1>1. N \in Nat /\ N # 0 /\ \A n \in 1 .. N : seqs[n] \in Seq(S)
    BY LenProperties, ElementOfSeq, EmptySeq
  <1> HIDE DEF N
  <1>2. \E f : f = [n \in 1 .. N |-> next(f[n - 1], n)]
    <2> DEFINE g == [n \in 1 .. N |-> [q \in Seq(S) |-> next(q, n)]]
    <2>1. g \in [1 .. N -> [Seq(S) -> Seq(S)]]
      BY <1>1, ConcatProperties
    <2>2. PICK f : Builds(f, S, N, g)
      <3> HIDE DEF g
      <3>1. N \in Nat
        BY <1>1
      <3> QED BY <3>1, <2>1, SeqRecursion
    <2>3. \A n \in 1 .. N : f[n] = next(f[n - 1], n)
      <3> TAKE n \in 1 .. N
      <3>1. f[n - 1] \in Seq(S) /\ f[n] = g[n][f[n - 1]]
        <4>1. n - 1 \in 0 .. N
          BY <1>1
        <4> HIDE DEF g
        <4> QED BY <2>2, <4>1 DEF Builds
      <3> QED BY <3>1
    <2> DEFINE h == [n \in 1 .. N |-> f[n]]
    <2>4. ASSUME NEW n \in 1 .. N PROVE h[n] = next(h[n - 1], n)
      <3>1. n # 1 => n - 1 \in 1 .. N
        BY <1>1
      <3>2. h[n] = f[n] /\ (n # 1 => h[n - 1] = f[n - 1])
        BY <3>1
      <3> QED BY <2>3, <3>2
    <2>5. h = [n \in 1 .. N |-> h[n]]
      OBVIOUS
    <2> HIDE DEF h, next
    <2>6. h = [n \in 1 .. N |-> next(h[n - 1], n)]
      BY <2>4, <2>5
    <2> QED BY <2>6
  <1> DEFINE flatten == CHOOSE f : f = [n \in 1 .. N |-> next(f[n - 1], n)]
  <1>3. FlattenSeq(seqs) = flatten[N]
    BY <1>1 DEF FlattenSeq, N
  <1>4. flatten = [n \in 1 .. N |-> next(flatten[n - 1], n)]
    BY <1>2
  <1> HIDE DEF flatten, next
  <1>5. \A n \in 1 .. N : flatten[n] = next(flatten[n - 1], n)
    BY <1>4
  <1> QED BY <1>3, <1>5 DEF N, next

\* The elements of a sequence of sequences.
LEMMA FlattenProperties ==
  ASSUME NEW S, NEW seqs \in Seq(Seq(S))
  PROVE  /\ FlattenSeq(seqs) \in Seq(S)
         /\ ToSet(FlattenSeq(seqs)) = UNION {ToSet(seqs[i]) : i \in DOMAIN seqs}
  <1> DEFINE N == Len(seqs)
             next(q, n) == IF n = 1 THEN seqs[n] ELSE q \o seqs[n]
             Before(n) == UNION {ToSet(seqs[i]) : i \in 1 .. n}
  <1>1. N \in Nat /\ DOMAIN seqs = 1 .. N /\ \A n \in 1 .. N : seqs[n] \in Seq(S)
    BY LenProperties, ElementOfSeq
  <1> HIDE DEF N
  <1>2. CASE N = 0
    <2>1. seqs = <<>>
      BY <1>2, EmptySeq DEF N
    <2>2. FlattenSeq(seqs) = <<>>
      BY <1>2, <2>1 DEF FlattenSeq, N
    <2> QED BY <1>1, <1>2, <2>2 DEF ToSet
  <1>3. CASE N >= 1
    <2>2. PICK flatten : /\ FlattenSeq(seqs) = flatten[N]
                         /\ \A n \in 1 .. N : flatten[n] = next(flatten[n - 1], n)
      <3>1. seqs # <<>>
        BY <1>3 DEF N
      <3> QED BY <3>1, FlattenUnfolds DEF N
    <2> DEFINE Good(q, n) == q \in Seq(S) /\ ToSet(q) = Before(n)
               P == {n \in 0 .. N : n >= 1 => Good(flatten[n], n)}
    <2>3. 0 \in P
      BY <1>1
    <2>4. ASSUME NEW n \in 1 .. N, n - 1 \in P PROVE n \in P
      <3>1. PICK q : q = flatten[n - 1] /\ (n - 1 >= 1 => Good(q, n - 1)) /\ flatten[n] = next(q, n)
        BY <2>2, <2>4
      <3>2. seqs[n] \in Seq(S)
        BY <1>1
      <3>3. \A i \in 1 .. n : i = n \/ i \in 1 .. n - 1
        OBVIOUS
      <3>4. Before(n) = Before(n - 1) \cup ToSet(seqs[n])
        <4> DEFINE T(i) == ToSet(seqs[i])
        <4>1. Before(n) = UNION {T(i) : i \in 1 .. n} /\ Before(n - 1) = UNION {T(i) : i \in 1 .. n - 1}
          OBVIOUS
        <4>2. n \in 1 .. n /\ \A i \in 1 .. n - 1 : i \in 1 .. n
          OBVIOUS
        <4> HIDE DEF T, Before
        <4>3. \A x : (\E i \in 1 .. n : x \in T(i)) <=> (\E i \in 1 .. n - 1 : x \in T(i)) \/ x \in T(n)
          BY <3>3, <4>2
        <4>4. Before(n) = Before(n - 1) \cup T(n)
          BY <4>1, <4>3
        <4> QED BY <4>4 DEF T
      <3>5. n = 1 => Before(n - 1) = {}
        OBVIOUS
      <3> HIDE DEF Before
      <3>6. Good(next(q, n), n)
        <4>1. CASE n = 1
          BY <3>2, <3>4, <3>5, <4>1
        <4>2. CASE n # 1
          <5>1. Good(q, n - 1)
            BY <3>1, <4>2
          <5>2. q \o seqs[n] \in Seq(S) /\ ToSet(q \o seqs[n]) = ToSet(q) \cup ToSet(seqs[n])
            BY <3>2, <5>1, ConcatSet
          <5> QED BY <3>4, <4>2, <5>1, <5>2
        <4> QED BY <4>1, <4>2
      <3> HIDE DEF Good, next
      <3> QED BY <3>1, <3>6
    <2>5. \A n \in 1 .. N : n - 1 \in P => n \in P
      BY <2>4
    <2> HIDE DEF P, Good
    <2>6. 0 .. N \subseteq P
      BY <1>1, <2>3, <2>5, UpTo
    <2>7. Good(flatten[N], N)
      BY <1>1, <1>3, <2>6 DEF P
    <2> QED BY <1>1, <2>2, <2>7 DEF Good
  <1> QED BY <1>1, <1>2, <1>3

LEMMA TailSet ==
  ASSUME NEW S, NEW q \in Seq(S), q # <<>>
  PROVE  /\ Head(q) \in S /\ Tail(q) \in Seq(S)
         /\ ToSet(q) = {Head(q)} \cup ToSet(Tail(q))
         /\ Once(q) => Once(Tail(q)) /\ Head(q) \notin ToSet(Tail(q))
  <1> DEFINE t == Tail(q)
             N == Len(q)
  <1>1. /\ t \in Seq(S) /\ N \in Nat /\ Len(t) = N - 1 /\ Head(q) = q[1] /\ Head(q) \in S
        /\ N >= 1 /\ DOMAIN q = 1 .. N /\ DOMAIN t = 1 .. N - 1
        /\ \A i \in 1 .. N - 1 : t[i] = q[i + 1]
    BY HeadTailProperties, LenProperties, EmptySeq
  <1> HIDE DEF t, N
  <1>2. ASSUME NEW x \in ToSet(q) PROVE x = q[1] \/ x \in ToSet(t)
    <2>1. PICK i \in 1 .. N : x = q[i]
      BY <1>1 DEF ToSet
    <2>2. i # 1 => i - 1 \in 1 .. N - 1 /\ t[i - 1] = x
      BY <1>1, <2>1
    <2> QED BY <1>1, <2>1, <2>2 DEF ToSet
  <1>3. ASSUME NEW x \in ToSet(t) PROVE \E i \in 1 .. N : i # 1 /\ x = q[i]
    <2>1. PICK i \in 1 .. N - 1 : x = t[i]
      BY <1>1 DEF ToSet
    <2>2. i + 1 \in 1 .. N /\ i + 1 # 1 /\ x = q[i + 1]
      BY <1>1, <2>1
    <2> QED BY <2>2
  <1>4. q[1] \in ToSet(q) /\ 1 \in 1 .. N
    BY <1>1 DEF ToSet
  <1>5. ToSet(t) \subseteq ToSet(q)
    BY <1>1, <1>3 DEF ToSet
  <1>6. ASSUME Once(q) PROVE Once(t) /\ q[1] \notin ToSet(t)
    <2>1. q[1] \notin ToSet(t)
      BY <1>1, <1>3, <1>4, <1>6 DEF Once
    <2>2. ASSUME NEW i \in 1 .. N - 1, NEW j \in 1 .. N - 1, t[i] = t[j] PROVE i = j
      <3>1. i + 1 \in 1 .. N /\ j + 1 \in 1 .. N /\ q[i + 1] = q[j + 1]
        BY <1>1, <2>2
      <3>2. i + 1 = j + 1
        BY <1>1, <1>6, <3>1 DEF Once
      <3> QED BY <1>1, <3>2
    <2> QED BY <1>1, <2>1, <2>2 DEF Once
  <1> QED BY <1>1, <1>2, <1>4, <1>5, <1>6 DEF t

LEMMA ConcatOnce ==
  ASSUME NEW S, NEW p \in Seq(S), NEW q \in Seq(S), Once(p), Once(q), ToSet(p) \cap ToSet(q) = {}
  PROVE  Once(p \o q)
  <1> DEFINE r == p \o q
  <1>1. /\ Len(p) \in Nat /\ Len(q) \in Nat
        /\ \A i \in 1 .. Len(p) + Len(q) : r[i] = IF i <= Len(p) THEN p[i] ELSE q[i - Len(p)]
        /\ DOMAIN p = 1 .. Len(p) /\ DOMAIN q = 1 .. Len(q) /\ DOMAIN r = 1 .. Len(p) + Len(q)
    BY ConcatProperties, LenProperties
  <1> HIDE DEF r
  <1>2. \A i \in DOMAIN r : \/ i \in DOMAIN p /\ r[i] = p[i] /\ r[i] \in ToSet(p)
                            \/ /\ i - Len(p) \in DOMAIN q /\ r[i] = q[i - Len(p)]
                               /\ i \in Int /\ r[i] \in ToSet(q)
    BY <1>1 DEF ToSet
  <1>3. ASSUME NEW i \in DOMAIN r, NEW j \in DOMAIN r, r[i] = r[j] PROVE i = j
    <2>1. CASE i \in DOMAIN p /\ r[i] = p[i] /\ r[i] \in ToSet(p)
      <3>1. j \in DOMAIN p /\ r[j] = p[j]
        BY <1>2, <1>3, <2>1
      <3> QED BY <1>3, <2>1, <3>1 DEF Once
    <2>2. CASE i - Len(p) \in DOMAIN q /\ r[i] = q[i - Len(p)] /\ i \in Int /\ r[i] \in ToSet(q)
      <3>1. j - Len(p) \in DOMAIN q /\ r[j] = q[j - Len(p)] /\ j \in Int
        BY <1>2, <1>3, <2>2
      <3>2. i - Len(p) = j - Len(p)
        BY <1>3, <2>2, <3>1 DEF Once
      <3> QED BY <1>1, <2>2, <3>1, <3>2
    <2> QED BY <1>2, <2>1, <2>2
  <1> QED BY <1>3 DEF Once, r
=============================================================================
