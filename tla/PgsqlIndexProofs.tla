--------------------------- MODULE PgsqlIndexProofs ----------------------------
(***************************************************************************)
(* Proofs about PgsqlIndex, for any finite set of members, with any keys,  *)
(* and for transactions of any length.                                     *)
(***************************************************************************)
EXTENDS PgsqlIndex, TLAPS, SequenceTheorems, FiniteSetTheorems

Lemmas == INSTANCE SeqLemmas

-----------------------------------------------------------------------------
(* Lists                                                                   *)

Refs == Member \cup {Nil}
Nodes == [Member -> [own : BOOLEAN, prev : Refs, next : Refs]]

\* The member at position i, and Nil before the first and behind the last.
At(c, i) == IF i \in DOMAIN c THEN c[i] ELSE Nil

Members(c) == {c[i] : i \in DOMAIN c}

\* The list l in nodes consists of the members c, linked in both directions.
Spells(c, nodes, l) ==
  /\ c \in Seq(Member) /\ \A i, j \in DOMAIN c : c[i] = c[j] => i = j
  /\ l.n = Len(c) /\ l.first = At(c, 1) /\ l.last = At(c, Len(c))
  /\ \A i \in DOMAIN c : nodes[c[i]].prev = At(c, i - 1) /\ nodes[c[i]].next = At(c, i + 1)

LEMMA AtProperties ==
  ASSUME NEW c \in Seq(Member), \A i, j \in DOMAIN c : c[i] = c[j] => i = j
  PROVE  /\ Len(c) \in Nat /\ DOMAIN c = 1 .. Len(c)
         /\ \A i \in Int : At(c, i) \in Refs /\ (At(c, i) # Nil <=> i \in 1 .. Len(c))
         /\ \A i, j \in Int : At(c, i) = At(c, j) /\ At(c, i) # Nil => i = j
         /\ \A i \in 1 .. Len(c) : At(c, i) = c[i] /\ c[i] \in Member
  <1>1. Len(c) \in Nat /\ DOMAIN c = 1 .. Len(c) /\ \A i \in 1 .. Len(c) : c[i] \in Member
    BY LenProperties, ElementOfSeq
  <1>2. Nil \notin Member
    BY NilAssumption
  <1> QED BY <1>1, <1>2 DEF At, Refs

\* No more positions than members.
LEMMA ListFits ==
  ASSUME NEW c \in Seq(Member), \A i, j \in DOMAIN c : c[i] = c[j] => i = j
  PROVE  Cardinality(Member) \in Nat /\ Len(c) <= Cardinality(Member)
  <1>1. Len(c) \in Nat /\ DOMAIN c = 1 .. Len(c) /\ c \in [1 .. Len(c) -> Member]
    BY LenProperties, ElementOfSeq, SeqDef
  <1>2. IsFiniteSet(Member) /\ Cardinality(Member) \in Nat
    BY KeyAssumption, FS_CardinalityType
  <1>3. c \in Injection(1 .. Len(c), Member)
    BY <1>1 DEF Injection, IsInjective
  <1>4. IsFiniteSet(1 .. Len(c)) /\ Cardinality(1 .. Len(c)) = Len(c)
    BY <1>1, FS_Interval
  <1>5. Cardinality(1 .. Len(c)) <= Cardinality(Member)
    BY <1>2, <1>3, <1>4, FS_Injection
  <1> QED BY <1>2, <1>4, <1>5

\* The walk along next from the first of the members c meets c, in order.
LEMMA ChainFollows ==
  ASSUME NEW c \in Seq(Member), \A i, j \in DOMAIN c : c[i] = c[j] => i = j,
         NEW nodes, NEW first, first = At(c, 1),
         \A i \in DOMAIN c : nodes[c[i]].next = At(c, i + 1)
  PROVE  Chain(nodes, first) = c /\ Linked(nodes, first) = Members(c)
  <1> DEFINE K == Cardinality(Member)
             next(q) == LET m == IF q = <<>> THEN first ELSE nodes[q[Len(q)]].next
                        IN IF m = Nil THEN q ELSE Append(q, m)
             min(n) == IF n < Len(c) THEN n ELSE Len(c)
             pre(n) == [i \in 1 .. min(n) |-> c[i]]
  <1>1. /\ Len(c) \in Nat /\ DOMAIN c = 1 .. Len(c) /\ K \in Nat /\ Len(c) <= K
        /\ \A i \in Int : At(c, i) # Nil <=> i \in 1 .. Len(c)
        /\ \A i \in 1 .. Len(c) : At(c, i) = c[i] /\ c[i] \in Member
    BY AtProperties, ListFits
  <1>2. /\ first = At(c, 1) /\ c \in Seq(Member)
        /\ \A i \in 1 .. Len(c) : nodes[c[i]].next = At(c, i + 1)
    BY <1>1
  <1> HIDE DEF K
  <1>3. ASSUME NEW n \in 1 .. K PROVE next(pre(n - 1)) = pre(n)
    <2>1. PICK q : q = pre(n - 1)
      OBVIOUS
    <2>2. /\ Len(q) = min(n - 1) /\ DOMAIN q = 1 .. min(n - 1) /\ \A i \in 1 .. min(n - 1) : q[i] = c[i]
          /\ q \in Seq(Member) /\ min(n - 1) \in Nat
      <3>1. min(n - 1) \in Nat /\ \A i \in 1 .. min(n - 1) : c[i] \in Member
        BY <1>1
      <3> HIDE DEF min
      <3>2. q \in Seq(Member)
        BY <2>1, <3>1, IsASeq
      <3> QED BY <2>1, <3>1, <3>2, LenProperties
    <2>3. (IF q = <<>> THEN first ELSE nodes[q[Len(q)]].next) = At(c, min(n - 1) + 1)
      <3>1. CASE q = <<>>
        <4>1. min(n - 1) = 0
          BY <2>2, <3>1
        <4> QED BY <1>2, <3>1, <4>1
      <3>2. CASE q # <<>>
        <4>1. Len(q) # 0 /\ q[Len(q)] = c[min(n - 1)] /\ min(n - 1) \in 1 .. Len(c)
          BY <1>1, <2>2, <3>2, EmptySeq
        <4> QED BY <1>2, <3>2, <4>1
      <3> QED BY <3>1, <3>2
    <2>4. CASE n - 1 >= Len(c)
      <3>1. min(n - 1) = Len(c) /\ min(n) = Len(c) /\ At(c, min(n - 1) + 1) = Nil
        <4>1. Len(c) \in Nat /\ n \in Nat
          BY <1>1
        <4>2. min(n - 1) = Len(c) /\ min(n) = Len(c)
          <5> HIDE DEF pre, next
          <5> QED BY <2>4, <4>1
        <4>3. Len(c) + 1 \in Int /\ Len(c) + 1 \notin 1 .. Len(c)
          BY <4>1
        <4> HIDE DEF min, pre, next
        <4> QED BY <1>1, <4>2, <4>3
      <3>2. next(q) = q
        BY <2>3, <3>1
      <3> QED BY <2>1, <3>1, <3>2
    <2>5. CASE n - 1 < Len(c)
      <3>1. min(n - 1) = n - 1 /\ min(n) = n /\ At(c, min(n - 1) + 1) = c[n] /\ c[n] \in Member
        <4>1. Len(c) \in Nat /\ n \in Nat /\ n \in 1 .. Len(c)
          BY <1>1, <2>5
        <4>2. min(n - 1) = n - 1 /\ min(n) = n
          <5> HIDE DEF pre, next
          <5> QED BY <2>5, <4>1
        <4>3. At(c, n) = c[n] /\ c[n] \in Member
          BY <1>1, <4>1
        <4> HIDE DEF min, pre, next
        <4> QED BY <4>1, <4>2, <4>3
      <3>2. next(q) = Append(q, c[n])
        BY <2>3, <3>1, NilAssumption
      <3>3. Append(q, c[n]) = pre(n)
        <4>1. /\ Append(q, c[n]) \in Seq(Member) /\ Len(Append(q, c[n])) = n
              /\ \A i \in 1 .. n : Append(q, c[n])[i] = c[i]
          BY <2>2, <3>1, AppendProperties
        <4>2. Append(q, c[n]) = [i \in 1 .. n |-> Append(q, c[n])[i]]
          BY <4>1, SeqDef, LenProperties
        <4> QED BY <3>1, <4>1, <4>2
      <3> QED BY <2>1, <3>2, <3>3
    <2> QED BY <1>1, <2>4, <2>5
  <1>4. pre(0) = <<>>
    BY <1>1
  <1> DEFINE met == CHOOSE f : f = [n \in 0 .. K |-> IF n = 0 THEN <<>> ELSE next(f[n - 1])]
  <1>5. Chain(nodes, first) = met[K]
    BY DEF Chain, K
  <1>6. \E f : f = [n \in 0 .. K |-> IF n = 0 THEN <<>> ELSE next(f[n - 1])]
    <2> DEFINE f == [n \in 0 .. K |-> pre(n)]
    <2>1. \A n \in 1 .. K : n - 1 \in 0 .. K
      BY <1>1
    <2> HIDE DEF next, pre
    <2>2. \A n \in 0 .. K : pre(n) = IF n = 0 THEN <<>> ELSE next(f[n - 1])
      BY <1>1, <1>3, <1>4, <2>1
    <2>3. f = [n \in 0 .. K |-> IF n = 0 THEN <<>> ELSE next(f[n - 1])]
      BY <2>2
    <2> QED BY <2>3
  <1>7. met = [n \in 0 .. K |-> IF n = 0 THEN <<>> ELSE next(met[n - 1])]
    BY <1>6
  <1> HIDE DEF met, next, pre, min
  <1> DEFINE P == {n \in 0 .. K : met[n] = pre(n)}
  <1>8. 0 \in P
    BY <1>1, <1>4, <1>7
  <1>9. \A n \in 1 .. K : n - 1 \in P => n \in P
    BY <1>3, <1>7
  <1> HIDE DEF P
  <1>10. K \in P
    <2>1. 0 .. K \subseteq P
      BY <1>1, <1>8, <1>9, Lemmas!UpTo
    <2> QED BY <1>1, <2>1
  <1>11. pre(K) = c
    <2>1. min(K) = Len(c)
      <3>1. K \in Nat /\ Len(c) \in Nat /\ Len(c) <= K
        BY <1>1
      <3> QED BY <3>1 DEF min
    <2>2. c = [i \in 1 .. Len(c) |-> c[i]]
      BY <1>1, <1>2, SeqDef
    <2> QED BY <2>1, <2>2 DEF pre
  <1>12. Chain(nodes, first) = c
    BY <1>5, <1>10, <1>11 DEF P
  <1> QED BY <1>1, <1>12 DEF Linked, Members

\* The walk along next meets the members of the list, in order.
LEMMA ChainSpells ==
  ASSUME NEW c, NEW nodes, NEW l, Spells(c, nodes, l)
  PROVE  Chain(nodes, l.first) = c /\ Linked(nodes, l.first) = Members(c)
  BY ChainFollows DEF Spells

\* A list is the same in nodes that agree on its members.
LEMMA SpellsAgree ==
  ASSUME NEW c, NEW nodes, NEW others, NEW l, Spells(c, nodes, l),
         \A m \in Members(c) : others[m].prev = nodes[m].prev /\ others[m].next = nodes[m].next
  PROVE  Spells(c, others, l)
  BY DEF Spells, Members

\* The sequence c with m at position k.
With(c, k, m) ==
  [i \in 1 .. Len(c) + 1 |-> IF i < k THEN c[i] ELSE IF i = k THEN m ELSE c[i - 1]]

\* The sequence c without position k.
Without(c, k) == [i \in 1 .. Len(c) - 1 |-> IF i < k THEN c[i] ELSE c[i + 1]]

LEMMA WithProperties ==
  ASSUME NEW c \in Seq(Member), \A i, j \in DOMAIN c : c[i] = c[j] => i = j,
         NEW m \in Member, m \notin Members(c), NEW k \in 1 .. Len(c) + 1
  PROVE  /\ With(c, k, m) \in Seq(Member) /\ Len(With(c, k, m)) = Len(c) + 1
         /\ \A i, j \in DOMAIN With(c, k, m) : With(c, k, m)[i] = With(c, k, m)[j] => i = j
         /\ \A i \in Int : At(With(c, k, m), i) =
              IF i < k THEN At(c, i) ELSE IF i = k THEN m ELSE At(c, i - 1)
         /\ Members(With(c, k, m)) = Members(c) \cup {m}
  <1> DEFINE d == With(c, k, m)
             N == Len(c)
  <1>1. N \in Nat /\ DOMAIN c = 1 .. N /\ k \in Int /\ \A i \in 1 .. N : c[i] \in Member
    BY LenProperties, ElementOfSeq
  <1>2. \A i \in 1 .. N + 1 :
          \/ i < k /\ i \in 1 .. N /\ d[i] = c[i]
          \/ i = k /\ d[i] = m
          \/ i > k /\ i - 1 \in 1 .. N /\ d[i] = c[i - 1]
    BY <1>1 DEF With
  <1>3. DOMAIN d = 1 .. N + 1
    BY DEF With
  <1> HIDE DEF N
  <1>4. d \in Seq(Member) /\ Len(d) = N + 1
    <2>1. \A i \in 1 .. N + 1 : d[i] \in Member
      BY <1>1, <1>2
    <2>2. d = [i \in 1 .. N + 1 |-> d[i]]
      BY DEF With, N
    <2> HIDE DEF d
    <2>3. d \in Seq(Member)
      BY <1>1, <2>1, <2>2, IsASeq
    <2> QED BY <1>1, <1>3, <2>3, LenProperties
  <1> HIDE DEF d
  <1>5. \A i \in 1 .. N : c[i] # m
    BY <1>1 DEF Members
  <1>6. ASSUME NEW i \in 1 .. N + 1, NEW j \in 1 .. N + 1, d[i] = d[j] PROVE i = j
    <2>1. /\ \A a, b \in 1 .. N : c[a] = c[b] => a = b
          /\ i \in Int /\ j \in Int /\ k \in Int
      BY <1>1
    <2>2. \/ i < k /\ i \in 1 .. N /\ d[i] = c[i]
          \/ i = k /\ d[i] = m
          \/ i > k /\ i - 1 \in 1 .. N /\ d[i] = c[i - 1]
      BY <1>2, Zenon
    <2>3. \/ j < k /\ j \in 1 .. N /\ d[j] = c[j]
          \/ j = k /\ d[j] = m
          \/ j > k /\ j - 1 \in 1 .. N /\ d[j] = c[j - 1]
      BY <1>2, Zenon
    <2>4. PICK x, y : x = d[i] /\ y = d[j] /\ x = y
      BY <1>6
    <2>5. CASE i < k /\ i \in 1 .. N /\ x = c[i]
      <3>1. j # k
        BY <1>5, <2>3, <2>4, <2>5
      <3>2. j < k => i = j
        BY <2>1, <2>3, <2>4, <2>5
      <3>3. j > k => i = j - 1
        BY <2>1, <2>3, <2>4, <2>5
      <3> QED BY <2>1, <2>5, <3>1, <3>2, <3>3
    <2>6. CASE i = k /\ x = m
      <3>1. ~(j < k) /\ ~(j > k)
        BY <1>5, <2>1, <2>3, <2>4, <2>6
      <3> QED BY <2>1, <2>6, <3>1
    <2>7. CASE i > k /\ i - 1 \in 1 .. N /\ x = c[i - 1]
      <3>1. j # k
        BY <1>5, <2>3, <2>4, <2>7
      <3>2. j < k => i - 1 = j
        BY <2>1, <2>3, <2>4, <2>7
      <3>3. j > k => i - 1 = j - 1
        BY <2>1, <2>3, <2>4, <2>7
      <3> QED BY <2>1, <2>7, <3>1, <3>2, <3>3
    <2> QED BY <2>2, <2>4, <2>5, <2>6, <2>7
  <1>7. ASSUME NEW i \in Int
        PROVE  At(d, i) = IF i < k THEN At(c, i) ELSE IF i = k THEN m ELSE At(c, i - 1)
    <2>1. CASE i \in 1 .. N + 1
      BY <1>1, <1>2, <1>3, <2>1 DEF At
    <2>2. CASE i \notin 1 .. N + 1
      <3>1. k \in 1 .. N + 1
        BY DEF N
      <3> QED BY <1>1, <1>3, <2>2, <3>1 DEF At
    <2> QED BY <2>1, <2>2
  <1>8. Members(d) = Members(c) \cup {m}
    <2>1. \A x \in Members(d) : x \in Members(c) \cup {m}
      BY <1>1, <1>2, <1>3 DEF Members
    <2>2. m \in Members(d)
      <3>1. k \in 1 .. N + 1 /\ d[k] = m
        BY <1>1, <1>2 DEF N
      <3> QED BY <1>3, <3>1 DEF Members
    <2>3. ASSUME NEW i \in 1 .. N PROVE c[i] \in Members(d)
      <3>1. i < k => i \in 1 .. N + 1 /\ d[i] = c[i]
        BY <1>1, <1>2
      <3>2. ~(i < k) => i + 1 \in 1 .. N + 1 /\ d[i + 1] = c[i]
        BY <1>1, <1>2
      <3> QED BY <1>3, <3>1, <3>2 DEF Members
    <2>4. \A x \in Members(c) : x \in Members(d)
      <3> TAKE x \in Members(c)
      <3>1. PICK i \in 1 .. N : x = c[i]
        BY <1>1 DEF Members
      <3> QED BY <2>3, <3>1
    <2> QED BY <2>1, <2>2, <2>4
  <1> QED BY <1>3, <1>4, <1>6, <1>7, <1>8 DEF d, N

LEMMA WithoutProperties ==
  ASSUME NEW c \in Seq(Member), \A i, j \in DOMAIN c : c[i] = c[j] => i = j,
         NEW k \in 1 .. Len(c)
  PROVE  /\ Without(c, k) \in Seq(Member) /\ Len(Without(c, k)) = Len(c) - 1
         /\ \A i, j \in DOMAIN Without(c, k) : Without(c, k)[i] = Without(c, k)[j] => i = j
         /\ \A i \in Int : At(Without(c, k), i) = IF i < k THEN At(c, i) ELSE At(c, i + 1)
         /\ Members(Without(c, k)) = Members(c) \ {c[k]}
  <1> DEFINE d == Without(c, k)
             N == Len(c)
  <1>1. /\ N \in Nat /\ DOMAIN c = 1 .. N /\ k \in 1 .. N /\ N - 1 \in Nat
        /\ \A i \in 1 .. N : c[i] \in Member
    BY LenProperties, ElementOfSeq
  <1>2. \A i \in 1 .. N - 1 :
          \/ i < k /\ i \in 1 .. N /\ d[i] = c[i]
          \/ i >= k /\ i + 1 \in 1 .. N /\ d[i] = c[i + 1]
    BY <1>1 DEF Without
  <1>3. DOMAIN d = 1 .. N - 1
    BY DEF Without
  <1> HIDE DEF N
  <1>4. d \in Seq(Member) /\ Len(d) = N - 1
    <2>1. \A i \in 1 .. N - 1 : d[i] \in Member
      BY <1>1, <1>2
    <2>2. d = [i \in 1 .. N - 1 |-> d[i]]
      BY DEF Without, N
    <2> HIDE DEF d
    <2>3. d \in Seq(Member)
      BY <1>1, <2>1, <2>2, IsASeq
    <2> QED BY <1>1, <1>3, <2>3, LenProperties
  <1> HIDE DEF d
  <1>5. ASSUME NEW i \in 1 .. N - 1, NEW j \in 1 .. N - 1, d[i] = d[j] PROVE i = j
    <2>1. \A a, b \in 1 .. N : c[a] = c[b] => a = b
      BY <1>1
    <2>2. CASE i < k
      <3>1. CASE j < k
        BY <1>1, <1>2, <1>5, <2>1, <2>2, <3>1
      <3>2. CASE j >= k
        <4>1. i = j + 1
          BY <1>1, <1>2, <1>5, <2>1, <2>2, <3>2
        <4> QED BY <1>1, <2>2, <3>2, <4>1
      <3> QED BY <1>1, <3>1, <3>2
    <2>3. CASE i >= k
      <3>1. CASE j < k
        <4>1. i + 1 = j
          BY <1>1, <1>2, <1>5, <2>1, <2>3, <3>1
        <4> QED BY <1>1, <2>3, <3>1, <4>1
      <3>2. CASE j >= k
        <4>1. i + 1 = j + 1
          BY <1>1, <1>2, <1>5, <2>1, <2>3, <3>2
        <4> QED BY <4>1
      <3> QED BY <1>1, <3>1, <3>2
    <2> QED BY <1>1, <2>2, <2>3
  <1>6. ASSUME NEW i \in Int
        PROVE  At(d, i) = IF i < k THEN At(c, i) ELSE At(c, i + 1)
    <2>1. CASE i \in 1 .. N - 1
      BY <1>1, <1>2, <1>3, <2>1 DEF At
    <2>2. CASE i \notin 1 .. N - 1
      BY <1>1, <1>3, <2>2 DEF At
    <2> QED BY <2>1, <2>2
  <1>7. Members(d) = Members(c) \ {c[k]}
    <2>1. ASSUME NEW i \in 1 .. N - 1 PROVE d[i] \in Members(c) /\ d[i] # c[k]
      <3>1. PICK j \in 1 .. N : d[i] = c[j] /\ j # k
        BY <1>1, <1>2
      <3>2. c[j] # c[k]
        BY <1>1, <3>1
      <3> QED BY <1>1, <3>1, <3>2 DEF Members
    <2>2. ASSUME NEW i \in 1 .. N, i # k PROVE c[i] \in Members(d)
      <3>1. i < k => i \in 1 .. N - 1 /\ d[i] = c[i]
        BY <1>1, <1>2
      <3>2. i > k => i - 1 \in 1 .. N - 1 /\ d[i - 1] = c[i]
        BY <1>1, <1>2
      <3> QED BY <1>1, <1>3, <2>2, <3>1, <3>2 DEF Members
    <2>3. \A x \in Members(c) \ {c[k]} : x \in Members(d)
      BY <1>1, <2>2 DEF Members
    <2>4. \A x \in Members(d) : x \in Members(c) \ {c[k]}
      BY <1>3, <2>1 DEF Members
    <2> QED BY <2>3, <2>4
  <1> QED BY <1>3, <1>4, <1>5, <1>6, <1>7 DEF d, N

\* put_before the member at position k, and put_last if there is none.
LEMMA PutSpells ==
  ASSUME NEW c, Spells(c, node, list), node \in Nodes,
         NEW m \in Member, m \notin Members(c), NEW k \in 1 .. Len(c) + 1, Put(m, At(c, k))
  PROVE  Spells(With(c, k, m), node', list')
  <1> DEFINE d == With(c, k, m)
             p == At(c, k - 1)
             nx == At(c, k)
  <1>1. /\ c \in Seq(Member) /\ \A i, j \in DOMAIN c : c[i] = c[j] => i = j
        /\ list.n = Len(c) /\ list.first = At(c, 1) /\ list.last = At(c, Len(c))
        /\ \A i \in DOMAIN c : node[c[i]].prev = At(c, i - 1) /\ node[c[i]].next = At(c, i + 1)
    BY DEF Spells
  <1>2. /\ Len(c) \in Nat /\ DOMAIN c = 1 .. Len(c) /\ k \in Int
        /\ \A i \in Int : At(c, i) \in Refs /\ (At(c, i) # Nil <=> i \in 1 .. Len(c))
        /\ \A i, j \in Int : At(c, i) = At(c, j) /\ At(c, i) # Nil => i = j
        /\ \A i \in 1 .. Len(c) : At(c, i) = c[i] /\ c[i] \in Member
    BY <1>1, AtProperties
  <1>3. /\ d \in Seq(Member) /\ Len(d) = Len(c) + 1 /\ DOMAIN d = 1 .. Len(c) + 1
        /\ \A i, j \in DOMAIN d : d[i] = d[j] => i = j
        /\ \A i \in Int : At(d, i) = IF i < k THEN At(c, i) ELSE IF i = k THEN m ELSE At(c, i - 1)
        /\ \A i \in DOMAIN d : d[i] = At(d, i)
    <2>1. /\ d \in Seq(Member) /\ Len(d) = Len(c) + 1
          /\ \A i, j \in DOMAIN d : d[i] = d[j] => i = j
          /\ \A i \in Int : At(d, i) = IF i < k THEN At(c, i) ELSE IF i = k THEN m ELSE At(c, i - 1)
      BY <1>1, WithProperties
    <2> QED BY <1>2, <2>1, LenProperties DEF At
  <1>4. (IF nx = Nil THEN list.last ELSE node[nx].prev) = p
    <2>1. CASE k = Len(c) + 1
      <3>1. nx = Nil /\ k - 1 = Len(c)
        BY <1>2, <2>1
      <3> QED BY <1>1, <3>1
    <2>2. CASE k # Len(c) + 1
      <3>1. k \in 1 .. Len(c) /\ nx = c[k] /\ nx # Nil
        BY <1>2, <2>2
      <3> QED BY <1>1, <1>2, <3>1
    <2> QED BY <2>1, <2>2
  <1>5. /\ node' = [x \in Member |->
                      CASE x = m -> [own |-> TRUE, prev |-> p, next |-> nx]
                        [] x # m /\ x = p -> [node[x] EXCEPT !.next = m]
                        [] x # m /\ x # p /\ x = nx -> [node[x] EXCEPT !.prev = m]
                        [] OTHER -> node[x]]
        /\ list' = [first |-> IF p = Nil THEN m ELSE list.first,
                    last |-> IF nx = Nil THEN m ELSE list.last,
                    n |-> list.n + 1]
    <2>1. Put(m, nx)
      OBVIOUS
    <2> HIDE DEF p, nx
    <2> QED BY <1>4, <2>1, Zenon DEF Put
  <1>6. \A i \in 1 .. Len(c) : c[i] # m
    BY <1>2 DEF Members
  <1> HIDE DEF d
  <1>7. list'.n = Len(d) /\ list'.first = At(d, 1) /\ list'.last = At(d, Len(d))
    <2>1. list'.n = Len(d)
      BY <1>1, <1>3, <1>5
    <2>2. list'.first = At(d, 1)
      <3>1. list'.first = IF p = Nil THEN m ELSE At(c, 1)
        BY <1>1, <1>5
      <3>2. p = Nil <=> k = 1
        <4>1. k - 1 \in Int /\ (k - 1 \notin 1 .. Len(c) <=> k = 1)
          BY <1>2
        <4> QED BY <1>2, <4>1
      <3>3. At(d, 1) = IF 1 < k THEN At(c, 1) ELSE m
        BY <1>2, <1>3
      <3>4. 1 < k <=> k # 1
        BY <1>2
      <3> HIDE DEF p
      <3> QED BY <3>1, <3>2, <3>3, <3>4
    <2>3. list'.last = At(d, Len(d))
      <3>1. list'.last = IF nx = Nil THEN m ELSE At(c, Len(c))
        BY <1>1, <1>5
      <3>2. nx = Nil <=> k = Len(c) + 1
        BY <1>2
      <3>3. At(d, Len(d)) = IF k = Len(c) + 1 THEN m ELSE At(c, Len(c))
        <4>1. Len(c) + 1 \in Int /\ ~(Len(c) + 1 < k) /\ Len(c) + 1 - 1 = Len(c)
          BY <1>2
        <4>2. Len(d) = Len(c) + 1
          BY <1>3
        <4> QED BY <1>3, <4>1, <4>2
      <3> HIDE DEF nx
      <3> QED BY <3>1, <3>2, <3>3
    <2> QED BY <2>1, <2>2, <2>3
  <1>8. ASSUME NEW i \in 1 .. Len(c)
        PROVE  /\ node'[c[i]].prev = IF i = k THEN m ELSE At(c, i - 1)
               /\ node'[c[i]].next = IF i = k - 1 THEN m ELSE At(c, i + 1)
    <2>1. c[i] \in Member /\ c[i] # m /\ c[i] = At(c, i) /\ At(c, i) # Nil
      BY <1>2, <1>6
    <2>2. (c[i] = p <=> i = k - 1) /\ (c[i] = nx <=> i = k)
      BY <1>2, <2>1
    <2>3. node[c[i]].prev = At(c, i - 1) /\ node[c[i]].next = At(c, i + 1)
      BY <1>1, <1>2
    <2>4. node[c[i]] \in [own : BOOLEAN, prev : Refs, next : Refs]
      BY <2>1 DEF Nodes
    <2> HIDE DEF p, nx
    <2>5. CASE i = k - 1
      <3>1. node'[c[i]] = [node[c[i]] EXCEPT !.next = m]
        BY <1>5, <2>1, <2>2, <2>5
      <3> QED BY <1>2, <2>3, <2>4, <2>5, <3>1
    <2>6. CASE i = k
      <3>1. node'[c[i]] = [node[c[i]] EXCEPT !.prev = m]
        BY <1>2, <1>5, <2>1, <2>2, <2>6
      <3> QED BY <1>2, <2>3, <2>4, <2>6, <3>1
    <2>7. CASE i # k - 1 /\ i # k
      <3>1. node'[c[i]] = node[c[i]]
        BY <1>5, <2>1, <2>2, <2>7
      <3> QED BY <2>3, <2>7, <3>1
    <2> QED BY <2>5, <2>6, <2>7
  <1>9. node'[m].prev = p /\ node'[m].next = nx
    BY <1>5
  <1>10. ASSUME NEW i \in DOMAIN d
         PROVE  node'[d[i]].prev = At(d, i - 1) /\ node'[d[i]].next = At(d, i + 1)
    <2>1. i \in 1 .. Len(c) + 1 /\ d[i] = At(d, i)
      BY <1>3
    <2>2. CASE i < k
      <3>1. d[i] = c[i] /\ i \in 1 .. Len(c)
        BY <1>2, <1>3, <2>1, <2>2
      <3>2. At(d, i - 1) = At(c, i - 1) /\ At(d, i + 1) = IF i = k - 1 THEN m ELSE At(c, i + 1)
        BY <1>2, <1>3, <2>1, <2>2
      <3>3. /\ node'[c[i]].prev = At(c, i - 1)
            /\ node'[c[i]].next = IF i = k - 1 THEN m ELSE At(c, i + 1)
        <4>1. i # k
          BY <1>2, <2>2
        <4> QED BY <1>8, <3>1, <4>1
      <3> QED BY <3>1, <3>2, <3>3
    <2>3. CASE i = k
      <3>1. d[i] = m /\ At(d, i - 1) = At(c, k - 1) /\ At(d, i + 1) = At(c, k)
        BY <1>2, <1>3, <2>1, <2>3
      <3> QED BY <1>9, <3>1
    <2>4. CASE i > k
      <3>1. d[i] = c[i - 1] /\ i - 1 \in 1 .. Len(c)
        BY <1>2, <1>3, <2>1, <2>4
      <3>2. At(d, i - 1) = (IF i - 1 = k THEN m ELSE At(c, i - 2)) /\ At(d, i + 1) = At(c, i)
        BY <1>2, <1>3, <2>1, <2>4
      <3>3. i - 1 # k - 1
        BY <1>2, <2>1, <2>4
      <3> QED BY <1>2, <1>8, <2>1, <3>1, <3>2, <3>3
    <2> QED BY <1>2, <2>1, <2>2, <2>3, <2>4
  <1> QED BY <1>3, <1>7, <1>10 DEF Spells, d

\* set_owner::remove of the member at position k.
LEMMA UnlinkSpells ==
  ASSUME NEW c, Spells(c, node, list), node \in Nodes,
         NEW k \in 1 .. Len(c), Unlink(c[k])
  PROVE  Spells(Without(c, k), node', list')
  <1> DEFINE d == Without(c, k)
             p == At(c, k - 1)
             nx == At(c, k + 1)
             m == c[k]
  <1>1. /\ c \in Seq(Member) /\ \A i, j \in DOMAIN c : c[i] = c[j] => i = j
        /\ list.n = Len(c) /\ list.first = At(c, 1) /\ list.last = At(c, Len(c))
        /\ \A i \in DOMAIN c : node[c[i]].prev = At(c, i - 1) /\ node[c[i]].next = At(c, i + 1)
    BY DEF Spells
  <1>2. /\ Len(c) \in Nat /\ DOMAIN c = 1 .. Len(c) /\ k \in Int
        /\ \A i \in Int : At(c, i) \in Refs /\ (At(c, i) # Nil <=> i \in 1 .. Len(c))
        /\ \A i, j \in Int : At(c, i) = At(c, j) /\ At(c, i) # Nil => i = j
        /\ \A i \in 1 .. Len(c) : At(c, i) = c[i] /\ c[i] \in Member
    BY <1>1, AtProperties
  <1>3. /\ d \in Seq(Member) /\ Len(d) = Len(c) - 1 /\ DOMAIN d = 1 .. Len(c) - 1
        /\ \A i, j \in DOMAIN d : d[i] = d[j] => i = j
        /\ \A i \in Int : At(d, i) = IF i < k THEN At(c, i) ELSE At(c, i + 1)
        /\ \A i \in DOMAIN d : d[i] = At(d, i)
    <2>1. /\ d \in Seq(Member) /\ Len(d) = Len(c) - 1
          /\ \A i, j \in DOMAIN d : d[i] = d[j] => i = j
          /\ \A i \in Int : At(d, i) = IF i < k THEN At(c, i) ELSE At(c, i + 1)
      BY <1>1, WithoutProperties
    <2> QED BY <1>2, <2>1, LenProperties DEF At
  <1>4. node[m].prev = p /\ node[m].next = nx
    BY <1>1, <1>2
  <1>5. /\ node' = [x \in Member |->
                      CASE x = m -> NewNode
                        [] x # m /\ x = p -> [node[x] EXCEPT !.next = nx]
                        [] x # m /\ x # p /\ x = nx -> [node[x] EXCEPT !.prev = p]
                        [] OTHER -> node[x]]
        /\ list' = [first |-> IF p = Nil THEN nx ELSE list.first,
                    last |-> IF nx = Nil THEN p ELSE list.last,
                    n |-> list.n - 1]
    <2>1. Unlink(m)
      OBVIOUS
    <2> HIDE DEF p, nx, m
    <2> QED BY <1>4, <2>1, Zenon DEF Unlink
  <1> HIDE DEF d
  <1>7. list'.n = Len(d) /\ list'.first = At(d, 1) /\ list'.last = At(d, Len(d))
    <2>1. list'.n = Len(d)
      BY <1>1, <1>3, <1>5
    <2>2. list'.first = At(d, 1)
      BY <1>1, <1>2, <1>3, <1>5
    <2>3. list'.last = At(d, Len(d))
      <3>1. list'.last = IF nx = Nil THEN p ELSE At(c, Len(c))
        BY <1>1, <1>5
      <3>2. nx = Nil <=> k = Len(c)
        <4>1. k + 1 \in Int /\ (k + 1 \notin 1 .. Len(c) <=> k = Len(c))
          <5>1. Len(c) \in Nat /\ k \in 1 .. Len(c)
            BY <1>2
          <5> QED BY <5>1
        <4> QED BY <1>2, <4>1
      <3>3. At(d, Len(d)) = IF k = Len(c) THEN At(c, k - 1) ELSE At(c, Len(c))
        <4>1. /\ Len(c) - 1 \in Int /\ (Len(c) - 1 < k <=> k = Len(c)) /\ Len(c) - 1 + 1 = Len(c)
              /\ (k = Len(c) => Len(c) - 1 = k - 1)
          <5>1. Len(c) \in Nat /\ k \in 1 .. Len(c)
            BY <1>2
          <5> QED BY <5>1
        <4>2. Len(d) = Len(c) - 1
          BY <1>3
        <4> QED BY <1>3, <4>1, <4>2
      <3> HIDE DEF nx
      <3> QED BY <3>1, <3>2, <3>3
    <2> QED BY <2>1, <2>2, <2>3
  <1>8. ASSUME NEW i \in 1 .. Len(c), i # k
        PROVE  /\ node'[c[i]].prev = IF i = k + 1 THEN p ELSE At(c, i - 1)
               /\ node'[c[i]].next = IF i = k - 1 THEN nx ELSE At(c, i + 1)
    <2>1. c[i] \in Member /\ c[i] # m /\ c[i] = At(c, i) /\ At(c, i) # Nil
      BY <1>1, <1>2, <1>8
    <2>2. (c[i] = p <=> i = k - 1) /\ (c[i] = nx <=> i = k + 1)
      BY <1>2, <2>1
    <2>3. node[c[i]].prev = At(c, i - 1) /\ node[c[i]].next = At(c, i + 1)
      BY <1>1, <1>2
    <2>4. node[c[i]] \in [own : BOOLEAN, prev : Refs, next : Refs]
      BY <2>1 DEF Nodes
    <2> HIDE DEF p, nx, m
    <2>5. CASE i = k - 1
      <3>1. node'[c[i]] = [node[c[i]] EXCEPT !.next = nx]
        BY <1>5, <2>1, <2>2, <2>5
      <3> QED BY <1>2, <2>3, <2>4, <2>5, <3>1
    <2>6. CASE i = k + 1
      <3>1. node'[c[i]] = [node[c[i]] EXCEPT !.prev = p]
        BY <1>2, <1>5, <2>1, <2>2, <2>6
      <3> QED BY <1>2, <2>3, <2>4, <2>6, <3>1
    <2>7. CASE i # k - 1 /\ i # k + 1
      <3>1. node'[c[i]] = node[c[i]]
        BY <1>5, <2>1, <2>2, <2>7
      <3> QED BY <2>3, <2>7, <3>1
    <2> QED BY <2>5, <2>6, <2>7
  <1>10. ASSUME NEW i \in DOMAIN d
         PROVE  node'[d[i]].prev = At(d, i - 1) /\ node'[d[i]].next = At(d, i + 1)
    <2>1. i \in 1 .. Len(c) - 1 /\ d[i] = At(d, i)
      BY <1>3
    <2>2. CASE i < k
      <3>1. /\ i \in Int /\ i - 1 \in Int /\ i + 1 \in Int /\ i \in 1 .. Len(c) /\ i # k
            /\ i # k + 1 /\ i - 1 < k /\ (i + 1 < k <=> i # k - 1) /\ (i = k - 1 => i + 1 + 1 = k + 1)
        BY <1>2, <2>1, <2>2
      <3>2. d[i] = c[i]
        BY <1>2, <1>3, <2>1, <2>2, <3>1
      <3>3. At(d, i - 1) = At(c, i - 1)
        BY <1>3, <3>1
      <3>4. At(d, i + 1) = IF i = k - 1 THEN At(c, k + 1) ELSE At(c, i + 1)
        <4>1. CASE i = k - 1
          BY <1>3, <3>1, <4>1
        <4>2. CASE i # k - 1
          BY <1>3, <3>1, <4>2
        <4> QED BY <4>1, <4>2
      <3>5. /\ node'[c[i]].prev = At(c, i - 1)
            /\ node'[c[i]].next = IF i = k - 1 THEN At(c, k + 1) ELSE At(c, i + 1)
        BY <1>8, <3>1
      <3> QED BY <3>2, <3>3, <3>4, <3>5
    <2>3. CASE i >= k
      <3>1. /\ i \in Int /\ i - 1 \in Int /\ i + 1 \in 1 .. Len(c) /\ i + 1 # k
            /\ i + 1 # k - 1 /\ ~(i < k) /\ ~(i + 1 < k) /\ (i - 1 < k <=> i = k)
            /\ i - 1 + 1 = i /\ i + 1 - 1 = i /\ (i + 1 = k + 1 <=> i = k)
        BY <1>2, <2>1, <2>3
      <3>2. d[i] = c[i + 1]
        BY <1>2, <1>3, <2>1, <3>1
      <3>3. At(d, i - 1) = IF i = k THEN At(c, k - 1) ELSE At(c, i)
        <4>1. CASE i = k
          BY <1>3, <3>1, <4>1
        <4>2. CASE i # k
          BY <1>3, <3>1, <4>2
        <4> QED BY <4>1, <4>2
      <3>4. At(d, i + 1) = At(c, i + 1 + 1)
        BY <1>3, <3>1
      <3>5. /\ node'[c[i + 1]].prev = IF i = k THEN At(c, k - 1) ELSE At(c, i)
            /\ node'[c[i + 1]].next = At(c, i + 1 + 1)
        BY <1>8, <3>1
      <3> QED BY <3>2, <3>3, <3>4, <3>5
    <2> QED BY <1>2, <2>1, <2>2, <2>3
  <1> QED BY <1>3, <1>7, <1>10 DEF Spells, d

-----------------------------------------------------------------------------
(* The multimap of a transient index                                       *)

LEMMA Inserted ==
  ASSUME NEW s \in Seq(Member), NEW i \in 1 .. Len(s) + 1, NEW m \in Member
  PROVE  Seqs!InsertAt(s, i, m) = With(s, i, m)
  <1> DEFINE t == Seqs!InsertAt(s, i, m)
  <1>1. Len(s) \in Nat /\ i \in Nat /\ i >= 1 /\ i <= Len(s) + 1
    BY LenProperties
  <1> DEFINE p == SubSeq(s, 1, i - 1)
             q == SubSeq(s, i, Len(s))
  <1>a. /\ p \in Seq(Member) /\ Len(p) = i - 1 /\ \A j \in 1 .. i - 1 : p[j] = s[j]
        /\ q \in Seq(Member) /\ Len(q) = Len(s) - i + 1
        /\ \A j \in 1 .. Len(s) - i + 1 : q[j] = s[i + j - 1]
    BY <1>1, SubSeqProperties
  <1>b. t = (p \o <<m>>) \o q
    BY DEF Seqs!InsertAt
  <1> HIDE DEF p, q
  <1>c. /\ p \o <<m>> \in Seq(Member) /\ Len(p \o <<m>>) = i
        /\ \A j \in 1 .. i : (p \o <<m>>)[j] = IF j < i THEN s[j] ELSE m
    BY <1>1, <1>a, ConcatProperties
  <1> HIDE DEF t
  <1>d. PICK u \in Seq(Member) : u = p \o <<m>>
    BY <1>c
  <1>e. /\ Len(u) = i /\ t = u \o q
        /\ \A j \in 1 .. i : u[j] = IF j < i THEN s[j] ELSE m
    BY <1>b, <1>c, <1>d
  <1>f. /\ t \in Seq(Member) /\ Len(t) = Len(u) + Len(q)
        /\ \A j \in 1 .. Len(u) + Len(q) : t[j] = IF j <= Len(u) THEN u[j] ELSE q[j - Len(u)]
    <2>1. q \in Seq(Member) /\ t = u \o q
      BY <1>a, <1>e
    <2> QED BY <2>1, ConcatProperties
  <1>2. t \in Seq(Member) /\ Len(t) = Len(s) + 1
    BY <1>1, <1>a, <1>e, <1>f
  <1>3. ASSUME NEW j \in 1 .. Len(s) + 1
        PROVE  t[j] = IF j < i THEN s[j] ELSE IF j = i THEN m ELSE s[j - 1]
    <2>1. j \in 1 .. Len(u) + Len(q)
      BY <1>1, <1>a, <1>e
    <2>2. CASE j <= i
      <3>1. t[j] = u[j] /\ j \in 1 .. i
        BY <1>1, <1>e, <1>f, <2>1, <2>2
      <3> QED BY <1>1, <1>e, <2>2, <3>1
    <2>3. CASE j > i
      <3>1. j - i \in 1 .. Len(s) - i + 1 /\ i + (j - i) - 1 = j - 1 /\ ~(j <= i) /\ ~(j < i) /\ j # i
        BY <1>1, <2>3
      <3>2. q[j - i] = s[i + (j - i) - 1]
        BY <1>a, <3>1
      <3>3. t[j] = q[j - i]
        BY <1>e, <1>f, <2>1, <3>1
      <3> QED BY <3>1, <3>2, <3>3
    <2> QED BY <1>1, <2>2, <2>3
  <1>4. t = [j \in 1 .. Len(s) + 1 |-> t[j]]
    BY <1>2, SeqDef
  <1>5. t = With(s, i, m)
    BY <1>3, <1>4 DEF With
  <1> QED BY <1>5 DEF t

LEMMA RemovedAt ==
  ASSUME NEW s \in Seq(Member), NEW i \in 1 .. Len(s)
  PROVE  Seqs!RemoveAt(s, i) = Without(s, i)
  <1> DEFINE t == Seqs!RemoveAt(s, i)
  <1>1. Len(s) \in Nat /\ i \in Nat /\ i >= 1 /\ i <= Len(s)
    BY LenProperties
  <1> DEFINE p == SubSeq(s, 1, i - 1)
             q == SubSeq(s, i + 1, Len(s))
  <1>a. /\ p \in Seq(Member) /\ Len(p) = i - 1 /\ \A j \in 1 .. i - 1 : p[j] = s[j]
        /\ q \in Seq(Member) /\ Len(q) = Len(s) - i
        /\ \A j \in 1 .. Len(s) - i : q[j] = s[i + j]
    BY <1>1, SubSeqProperties
  <1>b. t = p \o q
    BY DEF Seqs!RemoveAt
  <1> HIDE DEF p, q, t
  <1>c. /\ t \in Seq(Member) /\ Len(t) = Len(p) + Len(q)
        /\ \A j \in 1 .. Len(p) + Len(q) : t[j] = IF j <= Len(p) THEN p[j] ELSE q[j - Len(p)]
    BY <1>a, <1>b, ConcatProperties
  <1>2. t \in Seq(Member) /\ Len(t) = Len(s) - 1
    BY <1>1, <1>a, <1>c
  <1>3. ASSUME NEW j \in 1 .. Len(s) - 1
        PROVE  t[j] = IF j < i THEN s[j] ELSE s[j + 1]
    <2>1. j \in 1 .. Len(p) + Len(q)
      BY <1>1, <1>a
    <2>2. CASE j < i
      <3>1. j <= Len(p) /\ j \in 1 .. i - 1
        BY <1>1, <1>a, <2>2
      <3> QED BY <1>a, <1>c, <2>1, <2>2, <3>1
    <2>3. CASE j >= i
      <3>1. j - (i - 1) \in 1 .. Len(s) - i /\ i + (j - (i - 1)) = j + 1 /\ ~(j <= i - 1) /\ ~(j < i)
        BY <1>1, <2>3
      <3>2. q[j - (i - 1)] = s[i + (j - (i - 1))]
        BY <1>a, <3>1
      <3>3. t[j] = q[j - (i - 1)]
        BY <1>a, <1>c, <2>1, <3>1
      <3> QED BY <3>1, <3>2, <3>3
    <2> QED BY <1>1, <2>2, <2>3
  <1>4. t = [j \in 1 .. Len(s) - 1 |-> t[j]]
    BY <1>2, SeqDef
  <1>5. t = Without(s, i)
    BY <1>3, <1>4 DEF Without
  <1> QED BY <1>5 DEF t

\* bag holds each of the members S once.
Holds(S) == /\ bag \in Seq(Member) /\ \A i, j \in DOMAIN bag : bag[i] = bag[j] => i = j
            /\ Members(bag) = S

LEMMA MultimapInsertHolds ==
  ASSUME NEW S, Holds(S), NEW m \in Member, m \notin S, MultimapInsert(m)
  PROVE  /\ \E i \in 1 .. Len(bag) + 1 :
              /\ \A j \in DOMAIN bag : j < i <=> KeyOf[bag[j]] <= KeyOf[m]
              /\ bag' = With(bag, i, m)
         /\ Holds(S \cup {m})'
  <1>1. PICK i \in 1 .. Len(bag) + 1 :
          /\ \A j \in DOMAIN bag : j < i <=> KeyOf[bag[j]] <= KeyOf[m]
          /\ bag' = Seqs!InsertAt(bag, i, m)
    BY DEF MultimapInsert
  <1>2. bag \in Seq(Member) /\ \A a, b \in DOMAIN bag : bag[a] = bag[b] => a = b
    BY DEF Holds
  <1>3. bag' = With(bag, i, m)
    BY <1>1, <1>2, Inserted
  <1>4. Members(bag) = S
    BY DEF Holds
  <1>5. /\ With(bag, i, m) \in Seq(Member)
        /\ \A a, b \in DOMAIN With(bag, i, m) : With(bag, i, m)[a] = With(bag, i, m)[b] => a = b
        /\ Members(With(bag, i, m)) = S \cup {m}
    BY <1>2, <1>4, WithProperties
  <1>6. Holds(S \cup {m})'
    BY <1>3, <1>5 DEF Holds, Members
  <1> QED BY <1>1, <1>3, <1>6

LEMMA MultimapEraseHolds ==
  ASSUME NEW S, Holds(S), NEW m \in S, MultimapErase(m)
  PROVE  /\ \E i \in 1 .. Len(bag) : bag' = Without(bag, i)
         /\ Holds(S \ {m})'
  <1>1. /\ bag \in Seq(Member) /\ \A a, b \in DOMAIN bag : bag[a] = bag[b] => a = b
        /\ Members(bag) = S /\ DOMAIN bag = 1 .. Len(bag)
    BY LenProperties DEF Holds
  <1>2. PICK i : i = (CHOOSE a \in {b \in DOMAIN bag : bag[b] = m} : TRUE)
    OBVIOUS
  <1>3. i \in DOMAIN bag /\ bag[i] = m
    BY <1>1, <1>2 DEF Members
  <1>4. bag' = Seqs!RemoveAt(bag, i)
    BY <1>2, <1>3 DEF MultimapErase
  <1>5. bag' = Without(bag, i)
    BY <1>1, <1>3, <1>4, RemovedAt
  <1>6. /\ Without(bag, i) \in Seq(Member)
        /\ \A a, b \in DOMAIN Without(bag, i) : Without(bag, i)[a] = Without(bag, i)[b] => a = b
        /\ Members(Without(bag, i)) = S \ {m}
    BY <1>1, <1>3, WithoutProperties
  <1>7. Holds(S \ {m})'
    BY <1>5, <1>6 DEF Holds, Members
  <1> QED BY <1>1, <1>3, <1>5, <1>7

-----------------------------------------------------------------------------
(* The invariant                                                           *)

\* The list of the client consists of the members c, the committed list of r.
ListInv(c, r) ==
  /\ row \in Nodes /\ node \in Nodes /\ dirty \subseteq Member
  /\ attached \in BOOLEAN
  /\ Spells(c, node, list) /\ Spells(r, row, rowList)
  /\ Found = Members(r) \ (removed \cup lost) /\ Found \subseteq Members(c)
  /\ removed \subseteq Members(r) /\ lost \subseteq Members(r)
  /\ \A m \in Members(c) \ lost : node[m].own
  /\ attached =>
       /\ Members(c) \ dirty \subseteq Members(r) \ removed
       /\ \A m \in Members(r) \ dirty :
            /\ node[m].prev = row[m].prev /\ node[m].next = row[m].next
            /\ m \notin removed \cup lost => node[m].own
  /\ ~attached => r = <<>> /\ Holds(Members(c))

LEMMA MembersType ==
  ASSUME NEW c, NEW r, ListInv(c, r)
  PROVE  /\ Members(c) = Linked(node, list.first) /\ Members(r) = Linked(row, rowList.first)
         /\ Members(c) \subseteq Member /\ Members(r) \subseteq Member
         /\ c \in Seq(Member) /\ r \in Seq(Member)
         /\ DOMAIN c = 1 .. Len(c) /\ Len(c) \in Nat
         /\ \A m \in Members(c) : \E k \in 1 .. Len(c) : m = c[k]
  <1>1. Members(c) = Linked(node, list.first) /\ Members(r) = Linked(row, rowList.first)
    BY ChainSpells DEF ListInv
  <1>2. c \in Seq(Member) /\ r \in Seq(Member)
    BY DEF ListInv, Spells
  <1>3. Members(c) \subseteq Member /\ Members(r) \subseteq Member
    BY <1>1 DEF Linked
  <1> QED BY <1>1, <1>2, <1>3, LenProperties DEF Members

\* findGE finds a member of the client's list, or nothing.
LEMMA FindGEInList ==
  ASSUME NEW c, NEW r, ListInv(c, r), NEW key, NEW nx \in FindGE(key)
  PROVE  \E k \in 1 .. Len(c) + 1 : nx = At(c, k)
  <1>1. c \in Seq(Member) /\ DOMAIN c = 1 .. Len(c) /\ Len(c) \in Nat
    BY MembersType
  <1>2. nx = Nil \/ nx \in Members(c)
    <2>1. CASE attached
      BY <2>1 DEF FindGE, Least, ListInv
    <2>2. CASE ~attached
      <3>1. nx = Nil \/ nx \in Members(bag)
        BY <2>2 DEF FindGE, Members
      <3>2. Members(bag) = Members(c)
        BY <2>2 DEF ListInv, Holds
      <3> QED BY <3>1, <3>2
    <2> QED BY <2>1, <2>2
  <1>3. CASE nx = Nil
    <2>1. Len(c) + 1 \in 1 .. Len(c) + 1 /\ Len(c) + 1 \notin DOMAIN c
      BY <1>1
    <2> QED BY <1>3, <2>1 DEF At
  <1>4. CASE nx \in Members(c)
    <2>1. PICK k \in DOMAIN c : nx = c[k]
      BY <1>4 DEF Members
    <2>2. k \in 1 .. Len(c) + 1 /\ nx = At(c, k)
      BY <1>1, <2>1 DEF At
    <2> QED BY <2>2
  <1> QED BY <1>2, <1>3, <1>4

-----------------------------------------------------------------------------
(* One step of the list                                                    *)

\* What put_before and put_last leave alone.
LEMMA PutKeeps ==
  ASSUME node \in Nodes, dirty \subseteq Member, list.last \in Refs,
         NEW m \in Member, NEW nx \in Refs, Put(m, nx)
  PROVE  /\ node' \in Nodes /\ dirty' \subseteq Member /\ dirty \cup {m} \subseteq dirty'
         /\ node'[m].own /\ \A x \in Member \ {m} : node'[x].own = node[x].own
         /\ \A x \in Member \ dirty' : node'[x] = node[x]
  <1> DEFINE p == IF nx = Nil THEN list.last ELSE node[nx].prev
  <1>1. p \in Refs
    BY DEF Nodes, Refs
  <1>2. /\ node' = [x \in Member |->
                      CASE x = m -> [own |-> TRUE, prev |-> p, next |-> nx]
                        [] x # m /\ x = p -> [node[x] EXCEPT !.next = m]
                        [] x # m /\ x # p /\ x = nx -> [node[x] EXCEPT !.prev = m]
                        [] OTHER -> node[x]]
        /\ dirty' = dirty \cup ({m, p, nx} \ {Nil})
    BY Zenon DEF Put
  <1> HIDE DEF p
  <1>3. node'[m] = [own |-> TRUE, prev |-> p, next |-> nx]
    BY <1>2
  <1>4. ASSUME NEW x \in Member \ {m}
        PROVE  \/ x = p /\ node'[x] = [node[x] EXCEPT !.next = m]
               \/ x = nx /\ node'[x] = [node[x] EXCEPT !.prev = m]
               \/ node'[x] = node[x]
    BY <1>2
  <1>5. ASSUME NEW x \in Member \ {m}
        PROVE  /\ node'[x] \in [own : BOOLEAN, prev : Refs, next : Refs]
               /\ node'[x].own = node[x].own
    <2>1. node[x] \in [own : BOOLEAN, prev : Refs, next : Refs] /\ m \in Refs
      BY DEF Nodes, Refs
    <2> QED BY <1>4, <2>1
  <1>6. node' \in Nodes
    <2>1. node'[m] \in [own : BOOLEAN, prev : Refs, next : Refs]
      BY <1>1, <1>3
    <2>2. \A x \in Member : node'[x] \in [own : BOOLEAN, prev : Refs, next : Refs]
      BY <1>5, <2>1
    <2>3. node' = [x \in Member |-> node'[x]]
      BY <1>2, Zenon
    <2> QED BY <2>2, <2>3 DEF Nodes
  <1>7. ASSUME NEW x \in Member \ dirty' PROVE node'[x] = node[x]
    <2>1. x # Nil
      BY NilAssumption
    <2>2. x # m /\ x # p /\ x # nx
      BY <1>2, <2>1
    <2> QED BY <1>2, <2>2
  <1>8. dirty' \subseteq Member /\ dirty \cup {m} \subseteq dirty'
    BY <1>1, <1>2, NilAssumption DEF Refs
  <1> QED BY <1>3, <1>5, <1>6, <1>7, <1>8

\* What set_owner::remove leaves alone.
LEMMA UnlinkKeeps ==
  ASSUME node \in Nodes, dirty \subseteq Member, NEW m \in Member, Unlink(m)
  PROVE  /\ node' \in Nodes /\ dirty' \subseteq Member /\ dirty \cup {m} \subseteq dirty'
         /\ \A x \in Member \ {m} : node'[x].own = node[x].own
         /\ \A x \in Member \ dirty' : node'[x] = node[x]
  <1> DEFINE p == node[m].prev
             nx == node[m].next
  <1>1. p \in Refs /\ nx \in Refs
    BY DEF Nodes
  <1>2. /\ node' = [x \in Member |->
                      CASE x = m -> NewNode
                        [] x # m /\ x = p -> [node[x] EXCEPT !.next = nx]
                        [] x # m /\ x # p /\ x = nx -> [node[x] EXCEPT !.prev = p]
                        [] OTHER -> node[x]]
        /\ dirty' = dirty \cup ({m, p, nx} \ {Nil})
    BY Zenon DEF Unlink
  <1> HIDE DEF p, nx
  <1>3. node'[m] = NewNode
    BY <1>2
  <1>4. ASSUME NEW x \in Member \ {m}
        PROVE  \/ x = p /\ node'[x] = [node[x] EXCEPT !.next = nx]
               \/ x = nx /\ node'[x] = [node[x] EXCEPT !.prev = p]
               \/ node'[x] = node[x]
    BY <1>2
  <1>5. ASSUME NEW x \in Member \ {m}
        PROVE  /\ node'[x] \in [own : BOOLEAN, prev : Refs, next : Refs]
               /\ node'[x].own = node[x].own
    <2>1. node[x] \in [own : BOOLEAN, prev : Refs, next : Refs]
      BY DEF Nodes
    <2> QED BY <1>1, <1>4, <2>1
  <1>6. node' \in Nodes
    <2>1. node'[m] \in [own : BOOLEAN, prev : Refs, next : Refs]
      BY <1>3 DEF NewNode, Refs
    <2>2. \A x \in Member : node'[x] \in [own : BOOLEAN, prev : Refs, next : Refs]
      BY <1>5, <2>1
    <2>3. node' = [x \in Member |-> node'[x]]
      BY <1>2, Zenon
    <2> QED BY <2>2, <2>3 DEF Nodes
  <1>7. ASSUME NEW x \in Member \ dirty' PROVE node'[x] = node[x]
    <2>1. x # Nil
      BY NilAssumption
    <2>2. x # m /\ x # p /\ x # nx
      BY <1>2, <2>1
    <2> QED BY <1>2, <2>2
  <1>8. dirty' \subseteq Member /\ dirty \cup {m} \subseteq dirty'
    BY <1>1, <1>2, NilAssumption DEF Refs
  <1> QED BY <1>5, <1>6, <1>7, <1>8

LEMMA InsertKeepsLists ==
  ASSUME NEW c, NEW r, ListInv(c, r), NEW m \in Member, m \notin Members(c),
         NEW k \in 1 .. Len(c) + 1, Put(m, At(c, k)), Insert(m),
         NEW d, d = With(c, k, m)
  PROVE  ListInv(d, r)' /\ Members(d) = Members(c) \cup {m} /\ d \in Seq(Member)
  <1>1. /\ Spells(c, node, list) /\ node \in Nodes /\ dirty \subseteq Member /\ row \in Nodes
        /\ Spells(r, row, rowList) /\ attached \in BOOLEAN
    BY DEF ListInv
  <1>2. Spells(d, node', list')
    BY <1>1, PutSpells
  <1>3. c \in Seq(Member) /\ (\A i, j \in DOMAIN c : c[i] = c[j] => i = j) /\ list.last = At(c, Len(c))
    BY <1>1 DEF Spells
  <1>4. Members(d) = Members(c) \cup {m} /\ d \in Seq(Member)
    BY <1>3, WithProperties
  <1>5. At(c, k) \in Refs /\ list.last \in Refs
    <2>1. k \in Int /\ Len(c) \in Int
      BY <1>3, LenProperties
    <2> QED BY <1>3, <2>1, AtProperties
  <1>6. /\ node' \in Nodes /\ dirty' \subseteq Member /\ dirty \cup {m} \subseteq dirty'
        /\ node'[m].own /\ \A x \in Member \ {m} : node'[x].own = node[x].own
        /\ \A x \in Member \ dirty' : node'[x] = node[x]
    BY <1>1, <1>5, PutKeeps
  <1>7. /\ row' = row /\ rowList' = rowList /\ attached' = attached /\ removed' = removed
        /\ lost' = lost /\ Found' = Found
    BY DEF Insert, dbVars, Found
  <1>8. Members(c) \subseteq Member /\ Members(r) \subseteq Member
    BY MembersType
  <1>9. ~attached => Holds(Members(d))'
    <2> SUFFICES ASSUME ~attached PROVE Holds(Members(d))'
      OBVIOUS
    <2>1. MultimapInsert(m) /\ Holds(Members(c))
      BY DEF Insert, ListInv
    <2>2. PICK S, T : S = Members(c) /\ T = S \cup {m}
      OBVIOUS
    <2>3. Holds(T)'
      BY <2>1, <2>2, MultimapInsertHolds
    <2> QED BY <1>4, <2>2, <2>3 DEF Holds, Members
  <1>10. \A x \in Members(d) \ lost : node'[x].own
    BY <1>4, <1>6, <1>8 DEF ListInv
  <1>11. Found \subseteq Members(d)
    BY <1>4 DEF ListInv
  <1>12. attached =>
          /\ Members(d) \ dirty' \subseteq Members(r) \ removed
          /\ \A x \in Members(r) \ dirty' :
               /\ node'[x].prev = row[x].prev /\ node'[x].next = row[x].next
               /\ x \notin removed \cup lost => node'[x].own
    BY <1>4, <1>6, <1>8 DEF ListInv
  <1>13. ListInv(d, r)'
    BY <1>1, <1>2, <1>6, <1>7, <1>9, <1>10, <1>11, <1>12 DEF ListInv, Spells, At, Members
  <1> QED BY <1>4, <1>13

LEMMA RemoveKeepsLists ==
  ASSUME NEW c, NEW r, ListInv(c, r), NEW k \in 1 .. Len(c), Remove(c[k]),
         NEW d, d = Without(c, k)
  PROVE  /\ ListInv(d, r)' /\ Members(d) = Members(c) \ {c[k]} /\ d \in Seq(Member)
         /\ Found' = IF attached THEN Found \ {c[k]} ELSE Found
  <1>1. /\ Spells(c, node, list) /\ node \in Nodes /\ dirty \subseteq Member /\ row \in Nodes
        /\ Spells(r, row, rowList) /\ attached \in BOOLEAN
    BY DEF ListInv
  <1>2. c \in Seq(Member) /\ \A i, j \in DOMAIN c : c[i] = c[j] => i = j
    BY <1>1 DEF Spells
  <1>3. Members(d) = Members(c) \ {c[k]} /\ d \in Seq(Member)
    BY <1>2, WithoutProperties
  <1>4. PICK m : m = c[k]
    OBVIOUS
  <1>5. m \in Members(c) /\ m \in Member /\ Remove(m)
    BY <1>2, <1>4, LenProperties, ElementOfSeq DEF Members
  <1>6. Unlink(m)
    BY <1>5 DEF Remove
  <1>7. Spells(d, node', list')
    BY <1>1, <1>4, <1>6, UnlinkSpells
  <1>8. /\ node' \in Nodes /\ dirty' \subseteq Member /\ dirty \cup {m} \subseteq dirty'
        /\ \A x \in Member \ {m} : node'[x].own = node[x].own
        /\ \A x \in Member \ dirty' : node'[x] = node[x]
    BY <1>1, <1>5, <1>6, UnlinkKeeps
  <1>9. /\ rowList' = rowList /\ attached' = attached /\ lost' = lost
        /\ removed' = IF row[m].own THEN removed \cup {m} ELSE removed
        /\ attached => row' = [x \in Member |-> IF x \in {m} THEN [row[x] EXCEPT !.own = FALSE]
                                                ELSE row[x]]
        /\ ~attached => row' = row /\ MultimapErase(m)
    BY <1>5 DEF Remove, Disown
  <1>10. Members(c) \subseteq Member /\ Members(r) \subseteq Member
    BY MembersType
  <1>11. /\ row' \in Nodes /\ \A x \in Member : row'[x].prev = row[x].prev /\ row'[x].next = row[x].next
         /\ \A x \in Member \ {m} : row'[x].own = row[x].own
         /\ row'[m].own = IF attached THEN FALSE ELSE row[m].own
    <2>1. \A x \in Member : row[x] \in [own : BOOLEAN, prev : Refs, next : Refs]
      BY <1>1 DEF Nodes
    <2>2. CASE attached
      BY <1>5, <1>9, <2>1, <2>2 DEF Nodes
    <2>3. CASE ~attached
      BY <1>1, <1>5, <1>9, <2>3
    <2> QED BY <2>2, <2>3
  <1>12. Spells(r, row', rowList')
    BY <1>1, <1>9, <1>10, <1>11, SpellsAgree
  <1>13. Found' = IF attached THEN Found \ {m} ELSE Found
    <2>1. \A x \in Member : row'[x].own <=> row[x].own /\ (x # m \/ ~attached)
      BY <1>11
    <2> QED BY <2>1 DEF Found
  <1>14. m \in Found <=> row[m].own
    BY <1>5 DEF Found
  <1>15. ~attached => Holds(Members(d))'
    <2> SUFFICES ASSUME ~attached PROVE Holds(Members(d))'
      OBVIOUS
    <2>1. MultimapErase(m) /\ Holds(Members(c))
      BY <1>9 DEF ListInv
    <2>2. PICK S, T : S = Members(c) /\ T = S \ {m}
      OBVIOUS
    <2>3. Holds(T)'
      BY <1>5, <2>1, <2>2, MultimapEraseHolds
    <2> QED BY <1>3, <1>4, <2>2, <2>3 DEF Holds, Members
  <1>16. /\ Found = Members(r) \ (removed \cup lost) /\ Found \subseteq Members(c)
         /\ removed \subseteq Members(r) /\ lost \subseteq Members(r)
         /\ \A x \in Members(c) \ lost : node[x].own
         /\ attached => Members(c) \ dirty \subseteq Members(r) \ removed
         /\ ~attached => Members(r) = {} /\ r = <<>>
    BY DEF ListInv, Members
  <1>17. Found' = Members(r) \ (removed' \cup lost) /\ Found' \subseteq Members(d) /\ removed' \subseteq Members(r)
    <2>1. CASE attached
      BY <1>3, <1>4, <1>9, <1>13, <1>14, <1>16, <2>1
    <2>2. CASE ~attached
      BY <1>9, <1>13, <1>14, <1>16, <2>2
    <2> QED BY <2>1, <2>2
  <1>18. \A x \in Members(d) \ lost : node'[x].own
    BY <1>3, <1>4, <1>8, <1>10, <1>16
  <1>19. attached => Members(d) \ dirty' \subseteq Members(r) \ removed'
    BY <1>3, <1>4, <1>8, <1>9, <1>16
  <1>20. attached => \A x \in Members(r) \ dirty' :
               /\ node'[x].prev = row'[x].prev /\ node'[x].next = row'[x].next
               /\ x \notin removed' \cup lost => node'[x].own
    <2>1. attached => \A x \in Members(r) \ dirty :
               /\ node[x].prev = row[x].prev /\ node[x].next = row[x].next
               /\ x \notin removed \cup lost => node[x].own
      BY DEF ListInv
    <2>2. removed \subseteq removed'
      BY <1>9
    <2> QED BY <1>8, <1>10, <1>11, <2>1, <2>2
  <1>21. ListInv(d, r)'
    BY <1>1, <1>7, <1>8, <1>9, <1>11, <1>12, <1>15, <1>16, <1>17, <1>18, <1>19, <1>20
       DEF ListInv, Spells, At, Members
  <1> QED BY <1>3, <1>4, <1>13, <1>21

LEMMA NothingSpelled ==
  ASSUME NEW nodes PROVE Spells(<<>>, nodes, NewList) /\ Members(<<>>) = {}
  BY EmptySeq DEF Spells, NewList, At, Members

LEMMA ClearKeepsLists ==
  ASSUME NEW c, NEW r, ListInv(c, r), Clear
  PROVE  ListInv(<<>>, r)' /\ Found' = {}
  <1>1. /\ Spells(r, row, rowList) /\ row \in Nodes /\ node \in Nodes /\ attached \in BOOLEAN
        /\ Found = Members(r) \ (removed \cup lost) /\ Found \subseteq Members(c)
        /\ removed \subseteq Members(r) /\ lost \subseteq Members(r)
        /\ ~attached => Members(r) = {}
    BY NothingSpelled DEF ListInv
  <1>2. /\ rowList' = rowList /\ attached' = attached /\ lost' = lost /\ node' = node /\ dirty' = dirty
        /\ removed' = removed \cup Found /\ list' = NewList
        /\ attached => row' = [x \in Member |-> IF x \in Found THEN [row[x] EXCEPT !.own = FALSE]
                                                ELSE row[x]]
        /\ ~attached => row' = row /\ bag' = <<>>
    BY DEF Clear, Disown
  <1>3. Members(r) \subseteq Member
    BY MembersType
  <1>4. /\ row' \in Nodes /\ \A x \in Member : row'[x].prev = row[x].prev /\ row'[x].next = row[x].next
        /\ Found' = {}
    <2>1. \A x \in Member : row[x] \in [own : BOOLEAN, prev : Refs, next : Refs]
      BY <1>1 DEF Nodes
    <2>2. CASE attached
      <3>1. ASSUME NEW x \in Member
            PROVE  /\ row'[x] \in [own : BOOLEAN, prev : Refs, next : Refs] /\ ~row'[x].own
                   /\ row'[x].prev = row[x].prev /\ row'[x].next = row[x].next
        <4>1. x \in Found <=> row[x].own
          BY DEF Found
        <4> QED BY <1>2, <2>1, <2>2, <4>1
      <3> QED BY <1>2, <2>2, <3>1 DEF Nodes, Found
    <2>3. CASE ~attached
      BY <1>1, <1>2, <2>3 DEF Found
    <2> QED BY <2>2, <2>3
  <1>5. Spells(r, row', rowList')
    BY <1>1, <1>2, <1>3, <1>4, SpellsAgree
  <1>6. Spells(<<>>, node', list') /\ Members(<<>>) = {}
    BY <1>2, NothingSpelled
  <1>7. ~attached => Holds({})'
    <2>1. <<>> \in Seq(Member) /\ DOMAIN <<>> = {}
      BY EmptySeq
    <2> QED BY <1>2, <2>1 DEF Holds, Members
  <1>8. ~attached => r = <<>>
    BY DEF ListInv
  <1>9. attached => \A x \in Members(r) \ dirty :
               /\ node[x].prev = row'[x].prev /\ node[x].next = row'[x].next
               /\ x \notin removed' \cup lost => node[x].own
    BY <1>2, <1>3, <1>4 DEF ListInv
  <1>10. dirty \subseteq Member
    BY DEF ListInv
  <1>11. Found' = Members(r) \ (removed' \cup lost) /\ removed' \subseteq Members(r)
    BY <1>1, <1>2, <1>4
  <1>12. ListInv(<<>>, r)'
    BY <1>1, <1>2, <1>4, <1>5, <1>6, <1>7, <1>8, <1>9, <1>10, <1>11
       DEF ListInv, Spells, At, Members, Holds
  <1> QED BY <1>4, <1>12

\* The rows after a commit without strays are the nodes of the client's list.
LEMMA CommitKeepsLists ==
  ASSUME NEW c, NEW r, ListInv(c, r), Commit, stray' = {}
  PROVE  ListInv(c, c)' /\ Found' = Members(c) \ lost' /\ removed' = {} /\ lost' \subseteq Members(c)
  <1>1. /\ Spells(c, node, list) /\ Spells(r, row, rowList) /\ row \in Nodes /\ node \in Nodes
        /\ attached \in BOOLEAN /\ dirty \subseteq Member
        /\ Found = Members(r) \ (removed \cup lost) /\ Found \subseteq Members(c)
        /\ removed \subseteq Members(r) /\ lost \subseteq Members(r)
        /\ \A m \in Members(c) \ lost : node[m].own
        /\ attached => Members(c) \ dirty \subseteq Members(r) \ removed
        /\ attached => \A m \in Members(r) \ dirty :
                         node[m].prev = row[m].prev /\ node[m].next = row[m].next
        /\ ~attached => Members(r) = {}
    BY NothingSpelled DEF ListInv
  <1>2. Members(c) = Linked(node, list.first) /\ Members(c) \subseteq Member
    BY MembersType
  <1> DEFINE written == IF attached THEN dirty ELSE Members(c)
             revived == {m \in lost \cap dirty : node[m].own}
  <1>3. /\ row' = [m \in Member |-> IF m \in written THEN node[m] ELSE row[m]]
        /\ stray' = stray \cup {m \in written : node[m].own /\ m \notin Members(c)}
        /\ rowList' = list /\ node' = node /\ list' = list
        /\ lost' = (lost \ revived) \cap Members(c)
        /\ attached' = TRUE /\ dirty' = {} /\ removed' = {}
    BY <1>2 DEF Commit
  <1>4. \A m \in written : node[m].own => m \in Members(c)
    BY <1>3
  <1>5. written \subseteq Member
    BY <1>1, <1>2
  <1>6. row' \in Nodes
    BY <1>1, <1>3 DEF Nodes
  <1>7. \A m \in Members(c) : row'[m].prev = node[m].prev /\ row'[m].next = node[m].next
    BY <1>1, <1>2, <1>3
  <1>8. Spells(c, row', rowList')
    BY <1>1, <1>3, <1>7, SpellsAgree
  <1>9. ASSUME NEW m \in Member PROVE row'[m].own <=> m \in Members(c) \ lost'
    <2>1. row'[m] = IF m \in written THEN node[m] ELSE row[m]
      BY <1>3
    <2>2. row[m].own <=> m \in Found
      BY DEF Found
    <2>3. CASE attached
      <3>1. CASE m \in dirty
        <4>1. row'[m] = node[m] /\ (node[m].own => m \in Members(c))
          BY <1>4, <2>1, <2>3, <3>1
        <4>2. node[m].own => m \notin lost'
          BY <1>3, <3>1
        <4>3. m \in Members(c) \ lost' => node[m].own
          BY <1>1, <1>3, <3>1
        <4> QED BY <4>1, <4>2, <4>3
      <3>2. CASE m \notin dirty
        <4>1. row'[m] = row[m]
          BY <2>1, <2>3, <3>2
        <4>2. m \in Found => m \in Members(c) \ lost'
          BY <1>1, <1>3
        <4>3. m \in Members(c) \ lost' => m \in Members(r) \ removed /\ m \notin lost
          BY <1>1, <1>3, <2>3, <3>2
        <4> QED BY <1>1, <2>2, <4>1, <4>2, <4>3
      <3> QED BY <3>1, <3>2
    <2>4. CASE ~attached
      <3>1. lost = {} /\ Found = {} /\ lost' = {}
        BY <1>1, <1>3, <2>4
      <3> QED BY <1>1, <2>1, <2>2, <2>4, <3>1
    <2> QED BY <2>3, <2>4
  <1>10. Found' = Members(c) \ lost'
    BY <1>2, <1>9 DEF Found
  <1>11. \A m \in Members(c) \ lost' : node[m].own
    BY <1>1, <1>3
  <1>12. lost' \subseteq Members(c)
    BY <1>3
  <1>13. ListInv(c, c)'
    <2>1. /\ \A m \in Members(c) : node'[m].prev = row'[m].prev /\ node'[m].next = row'[m].next
          /\ \A m \in Members(c) \ lost' : node'[m].own
      BY <1>3, <1>7, <1>11
    <2> QED BY <1>1, <1>3, <1>6, <1>8, <1>10, <1>12, <2>1 DEF ListInv, Spells, At, Members
  <1> QED BY <1>3, <1>10, <1>12, <1>13

\* What is left of an abandoned transaction, when the copies agree with the rows
\* again.
LEMMA AbandonKeepsLists ==
  ASSUME NEW c, NEW r, ListInv(c, r), Abandon, node' \in Nodes,
         \A m \in Members(r) : /\ node'[m].prev = row[m].prev /\ node'[m].next = row[m].next
                               /\ m \notin removed \cup lost => node'[m].own
  PROVE  ListInv(r, r)' /\ Found' = Found
  <1>1. /\ Spells(r, row, rowList) /\ row \in Nodes
        /\ Found = Members(r) \ (removed \cup lost)
        /\ removed \subseteq Members(r) /\ lost \subseteq Members(r)
    BY DEF ListInv
  <1>2. Members(r) = Linked(row, rowList.first)
    BY MembersType
  <1>3. /\ attached /\ attached' = attached /\ row' = row /\ rowList' = rowList /\ list' = rowList
        /\ lost' = (lost \cup removed) \cap Members(r) /\ dirty' = {} /\ removed' = {}
    BY <1>2 DEF Abandon, dbVars
  <1>4. Spells(r, node', list')
    BY <1>1, <1>3, SpellsAgree
  <1>5. Found' = Found
    BY <1>3 DEF Found
  <1>6. Found' = Members(r) \ (removed' \cup lost') /\ lost' \subseteq Members(r)
    BY <1>1, <1>3, <1>5
  <1>7. \A m \in Members(r) \ lost' : node'[m].own
    BY <1>3
  <1>8. ListInv(r, r)'
    BY <1>1, <1>3, <1>4, <1>6, <1>7 DEF ListInv, Spells, At, Members
  <1> QED BY <1>5, <1>8

LEMMA RollbackKeepsLists ==
  ASSUME NEW c, NEW r, ListInv(c, r), Rollback
  PROVE  ListInv(r, r)' /\ Found' = Found
  <1>1. /\ node' = [m \in Member |-> IF m \in dirty THEN row[m] ELSE node[m]] /\ Abandon /\ attached
    BY DEF Rollback, Abandon
  <1>2. /\ row \in Nodes /\ node \in Nodes /\ Found = Members(r) \ (removed \cup lost)
        /\ \A m \in Members(r) \ dirty :
             /\ node[m].prev = row[m].prev /\ node[m].next = row[m].next
             /\ m \notin removed \cup lost => node[m].own
    BY <1>1 DEF ListInv
  <1>3. node' \in Nodes
    BY <1>1, <1>2 DEF Nodes
  <1>4. Members(r) \subseteq Member
    BY MembersType
  <1>5. ASSUME NEW m \in Members(r)
        PROVE  /\ node'[m].prev = row[m].prev /\ node'[m].next = row[m].next
               /\ m \notin removed \cup lost => node'[m].own
    <2>1. m \in Found <=> row[m].own
      BY <1>4 DEF Found
    <2> QED BY <1>1, <1>2, <1>4, <2>1
  <1> QED BY <1>1, <1>3, <1>5, AbandonKeepsLists

LEMMA RestartKeepsLists ==
  ASSUME NEW c, NEW r, ListInv(c, r), Restart
  PROVE  ListInv(r, r)' /\ Found' = Found
  <1>1. node' = row /\ Abandon
    BY DEF Restart
  <1>2. row \in Nodes /\ Found = Members(r) \ (removed \cup lost)
    BY DEF ListInv
  <1>3. Members(r) \subseteq Member
    BY MembersType
  <1>4. \A m \in Members(r) : m \notin removed \cup lost => row[m].own
    BY <1>2 DEF Found
  <1> QED BY <1>1, <1>2, <1>4, AbandonKeepsLists

LEMMA StutterKeepsLists ==
  ASSUME NEW c, NEW r, ListInv(c, r),
         UNCHANGED <<attached, bag, dbVars, memVars, histVars>>
  PROVE  ListInv(c, r)' /\ Found' = Found
  <1>1. /\ attached' = attached /\ bag' = bag /\ row' = row /\ rowList' = rowList /\ node' = node
        /\ list' = list /\ dirty' = dirty /\ removed' = removed /\ lost' = lost
    BY DEF dbVars, memVars, histVars
  <1>2. Found' = Found
    BY <1>1 DEF Found
  <1>3. Spells(c, node', list') /\ Spells(r, row', rowList')
    BY <1>1 DEF ListInv
  <1>4. Holds(Members(c))' <=> Holds(Members(c))
    BY <1>1 DEF Holds, Members
  <1>5. /\ row \in Nodes /\ node \in Nodes /\ dirty \subseteq Member /\ attached \in BOOLEAN
        /\ Found = Members(r) \ (removed \cup lost) /\ Found \subseteq Members(c)
        /\ removed \subseteq Members(r) /\ lost \subseteq Members(r)
        /\ \A m \in Members(c) \ lost : node[m].own
        /\ attached =>
             /\ Members(c) \ dirty \subseteq Members(r) \ removed
             /\ \A m \in Members(r) \ dirty :
                  /\ node[m].prev = row[m].prev /\ node[m].next = row[m].next
                  /\ m \notin removed \cup lost => node[m].own
        /\ ~attached => r = <<>> /\ Holds(Members(c))
    BY DEF ListInv
  <1>6. Members(c)' = Members(c) /\ Members(r)' = Members(r) /\ Nodes' = Nodes
    BY DEF Members, Nodes, Refs
  <1>7. Spells(c, node, list)' /\ Spells(r, row, rowList)'
    BY <1>3 DEF Spells, At
  <1> QED BY <1>1, <1>2, <1>4, <1>5, <1>6, <1>7 DEF ListInv

LEMMA ListsInitially ==
  ASSUME Init PROVE ListInv(<<>>, <<>>)
  <1>1. /\ attached = FALSE /\ bag = <<>> /\ row = [m \in Member |-> NewNode] /\ rowList = NewList
        /\ node = [m \in Member |-> NewNode] /\ list = NewList /\ dirty = {}
        /\ removed = {} /\ lost = {}
    BY DEF Init
  <1>2. /\ Spells(<<>>, node, list) /\ Spells(<<>>, row, rowList) /\ Members(<<>>) = {}
    BY <1>1, NothingSpelled
  <1>3. row \in Nodes /\ node \in Nodes /\ Found = {}
    BY <1>1 DEF Nodes, NewNode, Refs, Found
  <1>4. Holds({})
    BY <1>1, <1>2, EmptySeq DEF Holds
  <1> QED BY <1>1, <1>2, <1>3, <1>4 DEF ListInv

-----------------------------------------------------------------------------
(* The order of the keys                                                   *)

KeysDiffer == \A a, b \in Member : KeyOf[a] = KeyOf[b] => a = b

\* The list of the client consists of the members c, the committed list of r, and
\* what lookups find, and will find after the commit, ascends in both.
OrderInv(c, r) ==
  IF attached
  THEN \/ disordered
       \/ /\ Ascending(r, Found) /\ Ascending(c, Found \cup batch)
          /\ Members(c) \subseteq Found \cup batch \cup lost
  ELSE Ascending(c, Member) /\ Ascending(bag, Member)

LEMMA WithAscending ==
  ASSUME NEW c \in Seq(Member), NEW S, Ascending(c, S), NEW k \in 1 .. Len(c) + 1,
         NEW m \in Member, m \notin Members(c),
         \A i \in 1 .. Len(c) : c[i] \in S => IF i < k THEN KeyOf[c[i]] <= KeyOf[m]
                                              ELSE KeyOf[m] <= KeyOf[c[i]]
  PROVE  Ascending(With(c, k, m), S \cup {m})
  <1> DEFINE d == With(c, k, m)
  <1>1. Len(c) \in Nat /\ DOMAIN c = 1 .. Len(c) /\ \A i \in 1 .. Len(c) : c[i] \in Member
    BY LenProperties, ElementOfSeq
  <1>2. \A i \in 1 .. Len(c) + 1 :
          \/ i < k /\ i \in 1 .. Len(c) /\ d[i] = c[i]
          \/ i = k /\ d[i] = m
          \/ i > k /\ i - 1 \in 1 .. Len(c) /\ d[i] = c[i - 1]
    BY <1>1 DEF With
  <1>3. DOMAIN d = 1 .. Len(c) + 1
    BY DEF With
  <1>4. \A x \in Member : KeyOf[x] \in Nat
    BY KeyAssumption
  <1> HIDE DEF d
  <1>5. /\ \A i, j \in 1 .. Len(c) : i < j /\ c[i] \in S /\ c[j] \in S => KeyOf[c[i]] <= KeyOf[c[j]]
        /\ \A i \in 1 .. Len(c) : c[i] # m
    BY <1>1 DEF Ascending, Members
  <1>6. ASSUME NEW i \in 1 .. Len(c) + 1, NEW j \in 1 .. Len(c) + 1, i < j,
               d[i] \in S \cup {m}, d[j] \in S \cup {m}
        PROVE  KeyOf[d[i]] <= KeyOf[d[j]]
    <2>1. \/ i < k /\ i \in 1 .. Len(c) /\ d[i] = c[i]
          \/ i = k /\ d[i] = m
          \/ i > k /\ i - 1 \in 1 .. Len(c) /\ d[i] = c[i - 1]
      BY <1>2, Zenon
    <2>2. \/ j < k /\ j \in 1 .. Len(c) /\ d[j] = c[j]
          \/ j = k /\ d[j] = m
          \/ j > k /\ j - 1 \in 1 .. Len(c) /\ d[j] = c[j - 1]
      BY <1>2, Zenon
    <2>3. PICK x, y : x = d[i] /\ y = d[j]
      OBVIOUS
    <2>4. KeyOf[m] \in Nat /\ k \in Int /\ i \in Int /\ j \in Int /\ Len(c) \in Nat
      BY <1>1, <1>4
    <2>5. CASE j < k
      <3>1. i \in 1 .. Len(c) /\ x = c[i] /\ j \in 1 .. Len(c) /\ y = c[j]
        BY <1>6, <2>1, <2>2, <2>3, <2>4, <2>5
      <3>2. x \in S /\ y \in S
        BY <1>5, <1>6, <2>3, <3>1
      <3> QED BY <1>5, <1>6, <2>3, <3>1, <3>2
    <2>6. CASE j = k
      <3>1. i < k /\ i \in 1 .. Len(c) /\ x = c[i] /\ y = m
        BY <1>6, <2>1, <2>2, <2>3, <2>4, <2>6
      <3>2. x \in S
        BY <1>5, <1>6, <2>3, <3>1
      <3> QED BY <2>3, <3>1, <3>2
    <2>7. CASE j > k
      <3>1. j - 1 \in 1 .. Len(c) /\ y = c[j - 1] /\ ~(j - 1 < k)
        BY <2>2, <2>3, <2>4, <2>7
      <3>2. y \in S /\ KeyOf[m] <= KeyOf[y] /\ KeyOf[y] \in Nat
        BY <1>1, <1>4, <1>5, <1>6, <2>3, <3>1
      <3>3. CASE i < k
        <4>1. i \in 1 .. Len(c) /\ x = c[i]
          BY <2>1, <2>3, <2>4, <3>3
        <4>2. KeyOf[x] <= KeyOf[m] /\ KeyOf[x] \in Nat
          BY <1>1, <1>4, <1>5, <1>6, <2>3, <3>3, <4>1
        <4> QED BY <2>3, <2>4, <3>2, <4>2
      <3>4. CASE i = k
        BY <2>1, <2>3, <2>4, <3>2, <3>4
      <3>5. CASE i > k
        <4>1. i - 1 \in 1 .. Len(c) /\ x = c[i - 1] /\ i - 1 < j - 1
          BY <1>6, <2>1, <2>3, <2>4, <3>5
        <4>2. x \in S
          BY <1>5, <1>6, <2>3, <4>1
        <4> QED BY <1>5, <2>3, <3>1, <3>2, <4>1, <4>2
      <3> QED BY <2>4, <3>3, <3>4, <3>5
    <2> QED BY <2>4, <2>5, <2>6, <2>7
  <1> QED BY <1>3, <1>6 DEF Ascending, d

LEMMA WithoutAscending ==
  ASSUME NEW c \in Seq(Member), NEW S, Ascending(c, S), NEW k \in 1 .. Len(c), NEW T, T \subseteq S
  PROVE  Ascending(Without(c, k), T)
  <1> DEFINE d == Without(c, k)
  <1>1. Len(c) \in Nat /\ DOMAIN c = 1 .. Len(c) /\ k \in Int
    BY LenProperties
  <1>2. DOMAIN d = 1 .. Len(c) - 1
    BY DEF Without
  <1>3. \A i, j \in 1 .. Len(c) : i < j /\ c[i] \in S /\ c[j] \in S => KeyOf[c[i]] <= KeyOf[c[j]]
    BY <1>1 DEF Ascending
  <1>4. ASSUME NEW i \in 1 .. Len(c) - 1, NEW j \in 1 .. Len(c) - 1, i < j, d[i] \in T, d[j] \in T
        PROVE  KeyOf[d[i]] <= KeyOf[d[j]]
    <2>1. PICK a \in 1 .. Len(c) : d[i] = c[a] /\ a = IF i < k THEN i ELSE i + 1
      BY <1>1 DEF Without
    <2>2. PICK b \in 1 .. Len(c) : d[j] = c[b] /\ b = IF j < k THEN j ELSE j + 1
      BY <1>1 DEF Without
    <2> HIDE DEF d
    <2>3. a < b
      BY <1>1, <1>4, <2>1, <2>2
    <2>4. c[a] \in S /\ c[b] \in S
      BY <1>4, <2>1, <2>2
    <2> QED BY <1>3, <2>1, <2>2, <2>3, <2>4
  <1> QED BY <1>2, <1>4 DEF Ascending, d

\* A new member may stand before nx when nx is the first of S whose key is not
\* smaller; or at the end, when there is none.
Before(S, nx, m) ==
  \/ nx = Nil /\ \A x \in S : KeyOf[x] <= KeyOf[m]
  \/ /\ nx \in S /\ KeyOf[m] <= KeyOf[nx]
     /\ \A x \in S : KeyOf[x] < KeyOf[nx] => KeyOf[x] <= KeyOf[m]

LEMMA BeforeAscends ==
  ASSUME KeysDiffer, NEW c \in Seq(Member), \A i, j \in DOMAIN c : c[i] = c[j] => i = j,
         NEW S, S \subseteq Member, Ascending(c, S),
         NEW k \in 1 .. Len(c) + 1, NEW m \in Member, m \notin Members(c),
         Before(S, At(c, k), m)
  PROVE  Ascending(With(c, k, m), S \cup {m})
  <1>1. Len(c) \in Nat /\ DOMAIN c = 1 .. Len(c) /\ \A i \in 1 .. Len(c) : c[i] \in Member
    BY LenProperties, ElementOfSeq
  <1>2. \A x \in Member : KeyOf[x] \in Nat
    BY KeyAssumption
  <1>3. \A i, j \in 1 .. Len(c) : i < j /\ c[i] \in S /\ c[j] \in S => KeyOf[c[i]] <= KeyOf[c[j]]
    BY <1>1 DEF Ascending
  <1>4. k \in 1 .. Len(c) => At(c, k) = c[k] /\ At(c, k) # Nil
    BY <1>1, NilAssumption DEF At
  <1>5. ASSUME NEW i \in 1 .. Len(c), c[i] \in S
        PROVE  IF i < k THEN KeyOf[c[i]] <= KeyOf[m] ELSE KeyOf[m] <= KeyOf[c[i]]
    <2>1. /\ c[i] \in Member /\ KeyOf[c[i]] \in Nat /\ KeyOf[m] \in Nat
          /\ i \in Int /\ k \in Int
      BY <1>1, <1>2
    <2>2. CASE At(c, k) = Nil
      <3>1. k \notin 1 .. Len(c)
        BY <1>4, <2>2
      <3>2. i < k
        BY <1>1, <2>1, <3>1
      <3>4. KeyOf[c[i]] <= KeyOf[m]
        BY <1>5, <2>2, NilAssumption DEF Before
      <3> QED BY <3>2, <3>4
    <2>3. CASE At(c, k) # Nil
      <3>1. k \in 1 .. Len(c)
        BY <1>1, <2>3 DEF At
      <3>2. c[k] = At(c, k) /\ c[k] \in Member /\ KeyOf[c[k]] \in Nat
        BY <1>1, <1>2, <1>4, <3>1
      <3>3. /\ c[k] \in S /\ KeyOf[m] <= KeyOf[c[k]]
            /\ \A x \in S : KeyOf[x] < KeyOf[c[k]] => KeyOf[x] <= KeyOf[m]
        BY <2>3, <3>2 DEF Before
      <3>4. CASE i < k
        <4>1. KeyOf[c[i]] <= KeyOf[c[k]]
          BY <1>3, <1>5, <3>1, <3>3, <3>4
        <4>2. c[i] # c[k]
          BY <1>1, <2>1, <3>1, <3>4
        <4>3. KeyOf[c[i]] # KeyOf[c[k]]
          BY <2>1, <3>2, <4>2 DEF KeysDiffer
        <4>4. KeyOf[c[i]] < KeyOf[c[k]]
          BY <2>1, <3>2, <4>1, <4>3
        <4> QED BY <1>5, <3>3, <3>4, <4>4
      <3>5. CASE i = k
        BY <2>1, <3>3, <3>5
      <3>6. CASE i > k
        <4>1. KeyOf[c[k]] <= KeyOf[c[i]]
          BY <1>3, <1>5, <3>1, <3>3, <3>6
        <4> QED BY <2>1, <3>2, <3>3, <3>6, <4>1
      <3> QED BY <2>1, <3>4, <3>5, <3>6
    <2> QED BY <2>2, <2>3
  <1> QED BY <1>5, WithAscending

LEMMA TransientFindGE ==
  ASSUME ~attached, bag \in Seq(Member), Ascending(bag, Member),
         NEW m \in Member, NEW nx \in FindGE(KeyOf[m])
  PROVE  Before(Members(bag), nx, m)
  <1> DEFINE after == {i \in DOMAIN bag : KeyOf[bag[i]] >= KeyOf[m]}
             bound == {i \in DOMAIN bag : /\ KeyOf[bag[i]] >= KeyOf[m]
                                          /\ \A j \in 1 .. (i - 1) : KeyOf[bag[j]] < KeyOf[m]}
  <1>1. /\ Len(bag) \in Nat /\ DOMAIN bag = 1 .. Len(bag) /\ \A i \in DOMAIN bag : bag[i] \in Member
    BY LenProperties, ElementOfSeq
  <1>2. \A x \in Member : KeyOf[x] \in Nat
    BY KeyAssumption
  <1>3. nx \in IF bound = {} THEN {Nil} ELSE {bag[i] : i \in bound}
    BY Zenon DEF FindGE
  <1>4. CASE bound = {}
    <2>1. after = {}
      <3> SUFFICES ASSUME after # {} PROVE FALSE
        OBVIOUS
      <3>1. after \subseteq Nat
        BY <1>1
      <3>2. PICK i \in after : \A j \in after : i <= j
        <4> HIDE DEF after
        <4> QED BY <3>1, Lemmas!LeastExists
      <3>3. \A j \in 1 .. (i - 1) : j \in DOMAIN bag /\ j \notin after
        BY <1>1, <3>2
      <3>4. \A j \in 1 .. (i - 1) : KeyOf[bag[j]] < KeyOf[m]
        BY <1>1, <1>2, <3>3
      <3> QED BY <1>4, <3>2, <3>4
    <2>2. \A x \in Members(bag) : KeyOf[x] <= KeyOf[m]
      BY <1>1, <1>2, <2>1 DEF Members
    <2> QED BY <1>3, <1>4, <2>2 DEF Before
  <1>5. CASE bound # {}
    <2>1. PICK i \in bound : nx = bag[i]
      BY <1>3, <1>5
    <2>2. i \in DOMAIN bag /\ KeyOf[m] <= KeyOf[nx] /\ nx \in Members(bag)
      BY <1>1, <1>2, <2>1 DEF Members
    <2>3. ASSUME NEW x \in Members(bag), KeyOf[x] < KeyOf[nx] PROVE KeyOf[x] <= KeyOf[m]
      <3>1. PICK j \in DOMAIN bag : x = bag[j]
        BY DEF Members
      <3>2. KeyOf[x] \in Nat /\ KeyOf[nx] \in Nat /\ KeyOf[m] \in Nat /\ i \in Int /\ j \in Int
        BY <1>1, <1>2, <2>1, <3>1
      <3>3. j # i
        BY <2>1, <2>3, <3>1, <3>2
      <3>4. ~(i < j)
        <4>1. i < j => KeyOf[bag[i]] <= KeyOf[bag[j]]
          BY <1>1, <2>1, <3>1 DEF Ascending
        <4> QED BY <2>1, <2>3, <3>1, <3>2, <4>1
      <3>5. j \in 1 .. (i - 1)
        BY <1>1, <3>1, <3>2, <3>3, <3>4
      <3>6. KeyOf[bag[j]] < KeyOf[m]
        BY <2>1, <3>5
      <3> QED BY <3>1, <3>2, <3>6
    <2> QED BY <2>2, <2>3 DEF Before
  <1> QED BY <1>4, <1>5

LEMMA AttachedFindGE ==
  ASSUME attached, NEW m \in Member, NEW nx \in FindGE(KeyOf[m]),
         Found \subseteq Member, NEW S, S \subseteq Member, \A x \in S : KeyOf[x] <= KeyOf[m]
  PROVE  Before(Found \cup S, nx, m)
  <1>1. \A x \in Member : KeyOf[x] \in Nat
    BY KeyAssumption
  <1> DEFINE rows == {x \in Found : KeyOf[x] >= KeyOf[m]}
  <1>2. nx \in IF rows = {} THEN {Nil} ELSE Least(rows)
    BY Zenon DEF FindGE
  <1>3. CASE rows = {}
    BY <1>1, <1>2, <1>3 DEF Before
  <1>4. CASE rows # {}
    <2>1. nx \in Found /\ KeyOf[m] <= KeyOf[nx] /\ \A x \in rows : KeyOf[nx] <= KeyOf[x]
      BY <1>1, <1>2, <1>4 DEF Least
    <2>2. \A x \in Found : KeyOf[x] < KeyOf[nx] => KeyOf[x] <= KeyOf[m]
      BY <1>1, <2>1
    <2> QED BY <2>1, <2>2 DEF Before
  <1> QED BY <1>3, <1>4

LEMMA InsertKeepsOrder ==
  ASSUME KeysDiffer, NEW c, NEW r, ListInv(c, r), OrderInv(c, r), NEW m \in Member,
         m \notin Members(c), NEW k \in 1 .. Len(c) + 1, At(c, k) \in FindGE(KeyOf[m]), Insert(m),
         NEW d, d = With(c, k, m)
  PROVE  OrderInv(d, r)'
  <1>1. /\ attached' = attached /\ Found' = Found /\ lost' = lost /\ batch' = batch \cup {m}
        /\ disordered' = (disordered \/ (attached /\ \E x \in batch : KeyOf[x] > KeyOf[m]))
        /\ ~attached => MultimapInsert(m)
    BY DEF Insert, dbVars, Found
  <1>2. c \in Seq(Member) /\ \A i, j \in DOMAIN c : c[i] = c[j] => i = j
    BY DEF ListInv, Spells
  <1>3. Found \subseteq Member /\ Members(c) \subseteq Member
    BY MembersType DEF Found
  <1>4. Members(d) = Members(c) \cup {m}
    BY <1>2, WithProperties
  <1>5. \A x \in Member : KeyOf[x] \in Nat
    BY KeyAssumption
  <1>6. CASE attached
    <2> SUFFICES ASSUME ~disordered'
                 PROVE  /\ Ascending(r, Found) /\ Ascending(d, Found \cup batch')
                        /\ Members(d) \subseteq Found \cup batch' \cup lost
      BY <1>1, <1>6 DEF OrderInv, Members, Ascending
    <2>1. /\ Ascending(r, Found) /\ Ascending(c, Found \cup batch)
          /\ Members(c) \subseteq Found \cup batch \cup lost
      BY <1>1, <1>6 DEF OrderInv
    <2>2. PICK S : S = batch \cap Member
      OBVIOUS
    <2>3. \A x \in S : KeyOf[x] <= KeyOf[m]
      <3>1. \A x \in batch : ~(KeyOf[x] > KeyOf[m])
        BY <1>1, <1>6, Zenon
      <3> QED BY <1>5, <2>2, <3>1
    <2>4. Before(Found \cup S, At(c, k), m)
      BY <1>3, <1>6, <2>2, <2>3, AttachedFindGE
    <2>5. Ascending(c, Found \cup S)
      BY <2>1, <2>2 DEF Ascending
    <2>6. Ascending(With(c, k, m), (Found \cup S) \cup {m})
      BY <1>2, <1>3, <2>2, <2>4, <2>5, BeforeAscends
    <2>7. \A i \in DOMAIN d : d[i] \in Member
      BY <1>3, <1>4 DEF Members
    <2>8. Ascending(d, Found \cup batch')
      BY <1>1, <2>2, <2>6, <2>7 DEF Ascending
    <2>9. Members(d) \subseteq Found \cup batch' \cup lost
      BY <1>1, <1>4, <2>1
    <2> QED BY <2>1, <2>8, <2>9
  <1>7. CASE ~attached
    <2>1. Ascending(c, Member) /\ Ascending(bag, Member) /\ Holds(Members(c)) /\ MultimapInsert(m)
      BY <1>1, <1>7 DEF OrderInv, ListInv
    <2>2. bag \in Seq(Member) /\ Members(bag) = Members(c)
      BY <2>1 DEF Holds
    <2>3. Before(Members(c), At(c, k), m)
      BY <1>7, <2>1, <2>2, TransientFindGE
    <2>4. Ascending(c, Members(c))
      BY <1>3, <2>1 DEF Ascending
    <2>5. Ascending(With(c, k, m), Members(c) \cup {m})
      BY <1>2, <1>3, <2>3, <2>4, BeforeAscends
    <2>6. \A i \in DOMAIN d : d[i] \in Members(c) \cup {m}
      BY <1>4 DEF Members
    <2>7. Ascending(d, Member)
      BY <2>5, <2>6 DEF Ascending
    <2>8. PICK i \in 1 .. Len(bag) + 1 :
            /\ \A j \in DOMAIN bag : j < i <=> KeyOf[bag[j]] <= KeyOf[m]
            /\ bag' = With(bag, i, m)
      BY <2>1, <2>2, MultimapInsertHolds
    <2>9. Ascending(With(bag, i, m), Member \cup {m})
      <3>1. DOMAIN bag = 1 .. Len(bag) /\ \A j \in 1 .. Len(bag) : bag[j] \in Member
        BY <2>2, LenProperties, ElementOfSeq
      <3>2. \A j \in 1 .. Len(bag) : IF j < i THEN KeyOf[bag[j]] <= KeyOf[m]
                                     ELSE KeyOf[m] <= KeyOf[bag[j]]
        BY <1>5, <2>8, <3>1
      <3> QED BY <2>1, <2>2, <3>2, WithAscending
    <2>10. Ascending(bag', Member)
      BY <2>8, <2>9 DEF Ascending
    <2> QED BY <1>1, <1>7, <2>7, <2>10 DEF OrderInv, Ascending
  <1> QED BY <1>6, <1>7

LEMMA RemoveKeepsOrder ==
  ASSUME NEW c, NEW r, ListInv(c, r), OrderInv(c, r), NEW k \in 1 .. Len(c), Remove(c[k]),
         NEW d, d = Without(c, k)
  PROVE  OrderInv(d, r)'
  <1>1. /\ attached' = attached /\ lost' = lost /\ batch' = batch \ {c[k]} /\ disordered' = disordered
        /\ ~attached => MultimapErase(c[k])
    BY DEF Remove
  <1>2. c \in Seq(Member) /\ \A i, j \in DOMAIN c : c[i] = c[j] => i = j
    BY DEF ListInv, Spells
  <1>3. Members(d) = Members(c) \ {c[k]} /\ Found' = IF attached THEN Found \ {c[k]} ELSE Found
    BY RemoveKeepsLists
  <1>4. CASE attached
    <2> SUFFICES ASSUME ~disordered
                 PROVE  /\ Ascending(r, Found') /\ Ascending(d, Found' \cup batch')
                        /\ Members(d) \subseteq Found' \cup batch' \cup lost
      BY <1>1, <1>4 DEF OrderInv, Members, Ascending
    <2>1. /\ Ascending(r, Found) /\ Ascending(c, Found \cup batch)
          /\ Members(c) \subseteq Found \cup batch \cup lost
      BY <1>4 DEF OrderInv
    <2>2. Found' \subseteq Found /\ Found' \cup batch' \subseteq Found \cup batch
      BY <1>1, <1>3
    <2>3. Ascending(d, Found' \cup batch')
      BY <1>2, <2>1, <2>2, WithoutAscending
    <2>4. Ascending(r, Found')
      BY <2>1, <2>2 DEF Ascending
    <2>5. Members(d) \subseteq Found' \cup batch' \cup lost
      BY <1>1, <1>3, <1>4, <2>1
    <2> QED BY <2>3, <2>4, <2>5
  <1>5. CASE ~attached
    <2>1. Ascending(c, Member) /\ Ascending(bag, Member) /\ Holds(Members(c)) /\ MultimapErase(c[k])
      BY <1>1, <1>5 DEF OrderInv, ListInv
    <2>2. Ascending(d, Member)
      BY <1>2, <2>1, WithoutAscending
    <2>3. bag \in Seq(Member) /\ c[k] \in Members(c)
      BY <1>2, <2>1, LenProperties DEF Holds, Members
    <2>4. PICK i \in 1 .. Len(bag) : bag' = Without(bag, i)
      BY <2>1, <2>3, MultimapEraseHolds
    <2>5. Ascending(Without(bag, i), Member)
      BY <2>1, <2>3, WithoutAscending
    <2>6. Ascending(bag', Member)
      BY <2>4, <2>5 DEF Ascending
    <2> QED BY <1>1, <1>5, <2>2, <2>6 DEF OrderInv, Ascending
  <1> QED BY <1>4, <1>5

LEMMA NothingAscends == \A S : Ascending(<<>>, S)
  BY EmptySeq DEF Ascending

LEMMA ClearKeepsOrder ==
  ASSUME NEW c, NEW r, ListInv(c, r), OrderInv(c, r), Clear
  PROVE  OrderInv(<<>>, r)'
  <1>1. attached' = attached /\ Found' = {} /\ (~attached => bag' = <<>>)
    BY ClearKeepsLists DEF Clear
  <1>2. Ascending(r, {})
    BY DEF Ascending
  <1>3. \A S : Ascending(<<>>, S)
    BY NothingAscends
  <1>4. Members(<<>>) = {}
    BY NothingSpelled
  <1> QED BY <1>1, <1>2, <1>3, <1>4 DEF OrderInv, Ascending, Members

LEMMA CommitKeepsOrder ==
  ASSUME NEW c, NEW r, ListInv(c, r), OrderInv(c, r), Commit, stray' = {}
  PROVE  OrderInv(c, c)'
  <1>1. Found' = Members(c) \ lost'
    BY CommitKeepsLists
  <1> DEFINE revived == {m \in lost \cap dirty : node[m].own}
  <1>2. Members(c) = Linked(node, list.first) /\ Members(c) \subseteq Member
    BY MembersType
  <1>3. /\ attached' = TRUE /\ batch' = {} /\ disordered' = (disordered \/ revived # {})
        /\ lost' = (lost \ revived) \cap Members(c)
    BY <1>2 DEF Commit
  <1> SUFFICES ASSUME ~disordered' PROVE Ascending(c, Found')
    <2>1. Members(c) \subseteq Found' \cup lost'
      BY <1>1
    <2> QED BY <1>3, <2>1 DEF OrderInv, Ascending, Members
  <1>4. CASE attached
    <2>1. Ascending(c, Found \cup batch) /\ Members(c) \subseteq Found \cup batch \cup lost
      BY <1>3, <1>4 DEF OrderInv
    <2>2. Found' \subseteq Found \cup batch
      BY <1>1, <1>3, <2>1
    <2> QED BY <2>1, <2>2 DEF Ascending
  <1>5. CASE ~attached
    BY <1>1, <1>2, <1>5 DEF OrderInv, Ascending
  <1> QED BY <1>4, <1>5

LEMMA AbandonKeepsOrder ==
  ASSUME NEW c, NEW r, ListInv(c, r), OrderInv(c, r), Abandon
  PROVE  OrderInv(r, r)'
  <1>1. Members(r) = Linked(row, rowList.first)
    BY MembersType
  <1>2. /\ attached /\ attached' = attached /\ Found' = Found /\ batch' = {} /\ disordered' = disordered
        /\ lost' = (lost \cup removed) \cap Members(r)
    BY <1>1 DEF Abandon, dbVars, Found
  <1>3. Found = Members(r) \ (removed \cup lost)
    BY DEF ListInv
  <1>4. Members(r) \subseteq Found' \cup batch' \cup lost'
    BY <1>2, <1>3
  <1>5. disordered \/ Ascending(r, Found)
    BY <1>2 DEF OrderInv
  <1> QED BY <1>2, <1>4, <1>5 DEF OrderInv, Ascending, Members

LEMMA StutterKeepsOrder ==
  ASSUME NEW c, NEW r, OrderInv(c, r), UNCHANGED <<attached, bag, dbVars, memVars, histVars>>
  PROVE  OrderInv(c, r)'
  <1>1. /\ attached' = attached /\ bag' = bag /\ Found' = Found /\ lost' = lost /\ batch' = batch
        /\ disordered' = disordered
    BY DEF dbVars, memVars, histVars, Found
  <1> QED BY <1>1 DEF OrderInv, Ascending, Members

-----------------------------------------------------------------------------
(* Every step                                                              *)

\* The lists of a state without strays, in their order when the keys differ.
Good(c, r) == ListInv(c, r) /\ (KeysDiffer => OrderInv(c, r))

LEMMA InsertStep ==
  ASSUME NEW c, NEW r, Good(c, r), NEW m \in Member, Insert(m)
  PROVE  \E d : Good(d, r)'
  <1>1. Members(c) = Linked(node, list.first)
    BY MembersType DEF Good
  <1>2. PICK nx \in FindGE(KeyOf[m]) : Put(m, nx)
    BY DEF Insert
  <1>3. PICK k \in 1 .. Len(c) + 1 : nx = At(c, k)
    BY FindGEInList DEF Good
  <1>4. m \notin Members(c)
    BY <1>1 DEF Insert
  <1>5. PICK d : d = With(c, k, m)
    OBVIOUS
  <1>6. ListInv(d, r)'
    BY <1>2, <1>3, <1>4, <1>5, InsertKeepsLists DEF Good
  <1>7. KeysDiffer => OrderInv(d, r)'
    BY <1>2, <1>3, <1>4, <1>5, InsertKeepsOrder DEF Good
  <1> QED BY <1>6, <1>7 DEF Good, KeysDiffer

LEMMA RemoveStep ==
  ASSUME NEW c, NEW r, Good(c, r), NEW m \in Member, Remove(m)
  PROVE  (\E d : Good(d, r)') /\ Found' \subseteq Found
  <1>1. Members(c) = Linked(node, list.first) /\ \A x \in Members(c) : \E k \in 1 .. Len(c) : x = c[k]
    BY MembersType DEF Good
  <1>2. PICK k \in 1 .. Len(c) : m = c[k]
    BY <1>1 DEF Remove
  <1>3. PICK d : d = Without(c, k)
    OBVIOUS
  <1>4. ListInv(d, r)' /\ Found' = IF attached THEN Found \ {c[k]} ELSE Found
    BY <1>2, <1>3, RemoveKeepsLists DEF Good
  <1>5. KeysDiffer => OrderInv(d, r)'
    BY <1>2, <1>3, RemoveKeepsOrder DEF Good
  <1> QED BY <1>4, <1>5 DEF Good, KeysDiffer

\* Only a commit lets lookups find more.
LEMMA GoodStep ==
  ASSUME NEW c, NEW r, Good(c, r), [Next]_vars, stray' = {}
  PROVE  /\ \E d, s : Good(d, s)'
         /\ \/ Found' \subseteq Found
            \/ dirty' = {} /\ Found' = Linked(node, list.first) \ lost'
  <1>1. ASSUME NEW m \in Member, Insert(m) PROVE (\E d : Good(d, r)') /\ Found' = Found
    BY <1>1, InsertStep DEF Insert, dbVars, Found
  <1>2. ASSUME NEW m \in Member, Remove(m) PROVE (\E d : Good(d, r)') /\ Found' \subseteq Found
    BY <1>2, RemoveStep
  <1>3. CASE Clear
    <2>1. ListInv(<<>>, r)' /\ Found' = {}
      BY <1>3, ClearKeepsLists DEF Good
    <2>2. KeysDiffer => OrderInv(<<>>, r)'
      BY <1>3, ClearKeepsOrder DEF Good
    <2>3. Good(<<>>, r)'
      BY <2>1, <2>2 DEF Good, KeysDiffer
    <2> QED BY <2>1, <2>3
  <1>4. CASE Commit
    <2>1. ListInv(c, c)' /\ Found' = Members(c) \ lost'
      BY <1>4, CommitKeepsLists DEF Good
    <2>2. KeysDiffer => OrderInv(c, c)'
      BY <1>4, CommitKeepsOrder DEF Good
    <2>3. Good(c, c)'
      BY <2>1, <2>2 DEF Good, KeysDiffer
    <2>4. Members(c) = Linked(node, list.first) /\ dirty' = {}
      BY <1>4, MembersType DEF Good, Commit
    <2> QED BY <2>1, <2>3, <2>4
  <1>5. CASE Rollback \/ Restart
    <2>1. ListInv(r, r)' /\ Found' = Found
      BY <1>5, RollbackKeepsLists, RestartKeepsLists DEF Good
    <2>2. Abandon
      BY <1>5 DEF Rollback, Restart
    <2>3. KeysDiffer => OrderInv(r, r)'
      BY <2>2, AbandonKeepsOrder DEF Good
    <2>4. Good(r, r)'
      BY <2>1, <2>3 DEF Good, KeysDiffer
    <2> QED BY <2>1, <2>4
  <1>6. CASE TransientStep \/ vars' = vars
    <2>1. UNCHANGED <<attached, bag, dbVars, memVars, histVars>>
      BY <1>6 DEF TransientStep, vars, dbVars, memVars, histVars
    <2>2. ListInv(c, r)' /\ Found' = Found
      BY <2>1, StutterKeepsLists DEF Good
    <2>3. KeysDiffer => OrderInv(c, r)'
      BY <2>1, StutterKeepsOrder DEF Good
    <2>4. Good(c, r)'
      BY <2>2, <2>3 DEF Good, KeysDiffer
    <2> QED BY <2>2, <2>4
  <1>7. \/ \E m \in Member : Insert(m) \/ Remove(m)
        \/ Clear \/ Commit \/ Rollback \/ Restart \/ TransientStep \/ vars' = vars
    BY DEF Next
  <1> QED BY <1>1, <1>2, <1>3, <1>4, <1>5, <1>6, <1>7

\* The invariant: until a clear leaves strays behind, the client's list and the
\* committed one are two sequences of members, spelled out by the links in both
\* directions, that account for every row a lookup finds.
IndexInv == stray = {} => \E c, r : Good(c, r)

\* Strays are never forgotten.
LEMMA StrayStep == [Next]_vars => stray \subseteq stray'
  BY DEF Next, Insert, Remove, Clear, Commit, Rollback, Restart, Abandon, TransientStep,
         histVars, vars

\* Every reachable state satisfies the invariant (pgsql_index and set_owner,
\* pgsql_storage.cxx:1640).
THEOREM IndexInvariant == Spec => []IndexInv
  <1>1. Init => IndexInv
    <2> SUFFICES ASSUME Init PROVE Good(<<>>, <<>>)
      BY DEF IndexInv
    <2>1. ListInv(<<>>, <<>>) /\ attached = FALSE /\ bag = <<>>
      BY ListsInitially DEF Init
    <2> QED BY <2>1, NothingAscends DEF Good, OrderInv
  <1>2. IndexInv /\ [Next]_vars => IndexInv'
    <2> SUFFICES ASSUME IndexInv, [Next]_vars, stray' = {} PROVE \E d, s : Good(d, s)'
      BY DEF IndexInv
    <2>1. stray = {}
      BY StrayStep
    <2>2. PICK c, r : Good(c, r)
      BY <2>1 DEF IndexInv
    <2> QED BY <2>2, GoodStep
  <1> QED BY <1>1, <1>2, PTL DEF Spec

\* Both lists stay well linked whatever is inserted, removed, cleared, committed,
\* rolled back or lost with the process (set_owner::put_before, put_last, remove).
THEOREM ListsStayWellLinked == Spec => []ListsAreWellLinked
  <1>1. IndexInv => ListsAreWellLinked
    <2> SUFFICES ASSUME IndexInv, stray = {}
                 PROVE  WellLinked(row, rowList) /\ WellLinked(node, list)
      BY DEF ListsAreWellLinked
    <2>1. PICK c, r : ListInv(c, r)
      BY DEF IndexInv, Good
    <2>2. Spells(c, node, list) /\ Spells(r, row, rowList)
      BY <2>1 DEF ListInv
    <2>3. ASSUME NEW q, NEW nodes, NEW l, Spells(q, nodes, l) PROVE WellLinked(nodes, l)
      <3>1. Chain(nodes, l.first) = q
        BY <2>3, ChainSpells
      <3>2. q \in Seq(Member) /\ DOMAIN q = 1 .. Len(q) /\ Len(q) \in Nat
        BY <2>3, LenProperties DEF Spells
      <3>3. l.n = Len(q) /\ l.last = At(q, Len(q)) /\ \A i \in DOMAIN q : nodes[q[i]].prev = At(q, i - 1)
        BY <2>3 DEF Spells
      <3>4. l.last = IF q = <<>> THEN Nil ELSE q[Len(q)]
        <4>1. q = <<>> <=> Len(q) = 0
          BY <3>2, EmptySeq
        <4> QED BY <3>2, <3>3, <4>1 DEF At
      <3>5. \A i \in DOMAIN q : At(q, i - 1) = IF i = 1 THEN Nil ELSE q[i - 1]
        BY <3>2 DEF At
      <3> QED BY <3>1, <3>3, <3>4, <3>5 DEF WellLinked
    <2> QED BY <2>2, <2>3
  <1> QED BY <1>1, IndexInvariant, PTL

\* Lookups find the committed members, but those whose removal is pending or was
\* rolled back (pgsql_index::find against pgsql_index::remove).
THEOREM TableAlwaysMatchesList == Spec => []TableMatchesList
  <1>1. IndexInv => TableMatchesList
    <2> SUFFICES ASSUME IndexInv, attached, stray = {}
                 PROVE  Found = Linked(row, rowList.first) \ (removed \cup lost)
      BY DEF TableMatchesList
    <2>1. PICK c, r : ListInv(c, r)
      BY DEF IndexInv, Good
    <2> QED BY <2>1, MembersType DEF ListInv
  <1> QED BY <1>1, IndexInvariant, PTL

\* A lookup never sees part of a transaction: only the commit adds to what is
\* found, and then everything (pgsql_storage::commit_transaction).
THEOREM CommitsPublishAll == Spec => CommitPublishesAll
  <1>1. IndexInv /\ [Next]_vars =>
          [Found' \ Found # {} /\ stray' = {} =>
             dirty' = {} /\ Found' = Linked(node, list.first) \ lost']_vars
    <2> SUFFICES ASSUME IndexInv, [Next]_vars, Found' \ Found # {}, stray' = {}
                 PROVE  dirty' = {} /\ Found' = Linked(node, list.first) \ lost'
      OBVIOUS
    <2>1. stray = {}
      BY StrayStep
    <2>2. PICK c, r : Good(c, r)
      BY <2>1 DEF IndexInv
    <2> QED BY <2>2, GoodStep
  <1> QED BY <1>1, IndexInvariant, PTL DEF Spec, CommitPublishesAll

\* With different keys, what lookups find stands in the order of the keys
\* (pgsql_index::insert, findGE).
THEOREM LookupsAscend == ASSUME KeysDiffer PROVE Spec => []FoundInOrder
  <1>1. IndexInv => FoundInOrder
    <2> SUFFICES ASSUME IndexInv, stray = {}
                 PROVE  IF attached
                        THEN disordered \/ Ascending(Chain(row, rowList.first), Found)
                        ELSE /\ Ascending(Chain(node, list.first), Member)
                             /\ {bag[i] : i \in DOMAIN bag} = Linked(node, list.first)
      BY DEF FoundInOrder
    <2>1. PICK c, r : ListInv(c, r) /\ OrderInv(c, r)
      BY KeysDiffer DEF IndexInv, Good
    <2>2. Chain(node, list.first) = c /\ Chain(row, rowList.first) = r /\ Linked(node, list.first) = Members(c)
      BY <2>1, ChainSpells DEF ListInv
    <2>3. ~attached => Members(bag) = Members(c)
      BY <2>1 DEF ListInv, Holds
    <2> QED BY <2>1, <2>2, <2>3 DEF OrderInv, Members
  <1> QED BY <1>1, IndexInvariant, PTL

-----------------------------------------------------------------------------
(* Date ranges                                                             *)

\* Where no operation is pending, the members c are what lookups find, in the
\* strict order of their keys.
Ordered(c) ==
  /\ Spells(c, node, list)
  /\ \A i, j \in 1 .. Len(c) : i < j => KeyOf[c[i]] < KeyOf[c[j]]
  /\ IF attached THEN Found = Members(c)
     ELSE bag \in Seq(Member) /\ Ascending(bag, Member) /\ Members(bag) = Members(c)

\* m is the first member of S whose key is not below t, or Nil.
FirstFrom(S, t, m) ==
  IF m = Nil THEN \A x \in S : KeyOf[x] < t
  ELSE m \in S /\ KeyOf[m] >= t /\ \A x \in S : KeyOf[x] < KeyOf[m] => KeyOf[x] < t

\* The bound in the multimap of a transient index is the first of its members.
LEMMA TransientFirst ==
  ASSUME ~attached, bag \in Seq(Member), Ascending(bag, Member),
         NEW t \in Int, NEW m \in FindGE(t)
  PROVE  FirstFrom(Members(bag), t, m)
  <1> DEFINE after == {i \in DOMAIN bag : KeyOf[bag[i]] >= t}
             bound == {i \in DOMAIN bag : /\ KeyOf[bag[i]] >= t
                                          /\ \A j \in 1 .. (i - 1) : KeyOf[bag[j]] < t}
  <1>1. /\ Len(bag) \in Nat /\ DOMAIN bag = 1 .. Len(bag) /\ \A i \in DOMAIN bag : bag[i] \in Member
    BY LenProperties, ElementOfSeq
  <1>2. \A x \in Member : KeyOf[x] \in Nat /\ x # Nil
    BY KeyAssumption, NilAssumption
  <1>3. m \in IF bound = {} THEN {Nil} ELSE {bag[i] : i \in bound}
    BY Zenon DEF FindGE
  <1>4. CASE bound = {}
    <2>1. after = {}
      <3> SUFFICES ASSUME after # {} PROVE FALSE
        OBVIOUS
      <3>1. after \subseteq Nat
        BY <1>1
      <3>2. PICK i \in after : \A j \in after : i <= j
        <4> HIDE DEF after
        <4> QED BY <3>1, Lemmas!LeastExists
      <3>3. \A j \in 1 .. (i - 1) : j \in DOMAIN bag /\ j \notin after
        BY <1>1, <3>2
      <3>4. \A j \in 1 .. (i - 1) : KeyOf[bag[j]] < t
        BY <1>1, <1>2, <3>3
      <3> QED BY <1>4, <3>2, <3>4
    <2>2. \A x \in Members(bag) : KeyOf[x] < t
      BY <1>1, <1>2, <2>1 DEF Members
    <2> QED BY <1>3, <1>4, <2>2 DEF FirstFrom
  <1>5. CASE bound # {}
    <2>1. PICK i \in bound : m = bag[i]
      BY <1>3, <1>5
    <2>2. i \in DOMAIN bag /\ KeyOf[m] >= t /\ m \in Members(bag) /\ m # Nil
      BY <1>1, <1>2, <2>1 DEF Members
    <2>3. ASSUME NEW x \in Members(bag), KeyOf[x] < KeyOf[m] PROVE KeyOf[x] < t
      <3>1. PICK j \in DOMAIN bag : x = bag[j]
        BY DEF Members
      <3>2. KeyOf[x] \in Nat /\ KeyOf[m] \in Nat /\ i \in Int /\ j \in Int
        BY <1>1, <1>2, <2>1, <3>1
      <3>3. j # i
        BY <2>1, <2>3, <3>1, <3>2
      <3>4. ~(i < j)
        <4>1. i < j => KeyOf[bag[i]] <= KeyOf[bag[j]]
          BY <1>1, <2>1, <3>1 DEF Ascending
        <4> QED BY <2>1, <2>3, <3>1, <3>2, <4>1
      <3>5. j \in 1 .. (i - 1)
        BY <1>1, <3>1, <3>2, <3>3, <3>4
      <3> QED BY <2>1, <3>1, <3>5
    <2> QED BY <2>2, <2>3 DEF FirstFrom
  <1> QED BY <1>4, <1>5

\* index_greater_or_equal finds the first of the rows.
LEMMA AttachedFirst ==
  ASSUME attached, NEW t \in Int, NEW m \in FindGE(t)
  PROVE  FirstFrom(Found, t, m)
  <1>1. \A x \in Found : KeyOf[x] \in Nat /\ x # Nil
    BY KeyAssumption, NilAssumption DEF Found
  <1> DEFINE rows == {x \in Found : KeyOf[x] >= t}
  <1>2. m \in IF rows = {} THEN {Nil} ELSE Least(rows)
    BY Zenon DEF FindGE
  <1>3. CASE rows = {}
    BY <1>1, <1>2, <1>3 DEF FirstFrom
  <1>4. CASE rows # {}
    <2>1. m \in Found /\ KeyOf[m] >= t /\ \A x \in rows : KeyOf[m] <= KeyOf[x]
      BY <1>1, <1>2, <1>4 DEF Least
    <2>2. \A x \in Found : KeyOf[x] < KeyOf[m] => KeyOf[x] < t
      BY <1>1, <2>1
    <2> QED BY <1>1, <2>1, <2>2 DEF FirstFrom
  <1> QED BY <1>3, <1>4

LEMMA OrderedType ==
  ASSUME NEW c, Ordered(c)
  PROVE  /\ c \in Seq(Member) /\ Len(c) \in Nat /\ DOMAIN c = 1 .. Len(c)
         /\ \A i, j \in 1 .. Len(c) : c[i] = c[j] => i = j
         /\ \A i \in 1 .. Len(c) : c[i] \in Member /\ c[i] # Nil /\ KeyOf[c[i]] \in Nat /\ At(c, i) = c[i]
         /\ \A i \in Int : At(c, i) # Nil <=> i \in 1 .. Len(c)
         /\ list.first = At(c, 1) /\ list.last = At(c, Len(c))
         /\ \A i \in 1 .. Len(c) : node[c[i]].prev = At(c, i - 1) /\ node[c[i]].next = At(c, i + 1)
         /\ \A i, j \in 1 .. Len(c) : KeyOf[c[i]] <= KeyOf[c[j]] => i <= j
  <1>1. c \in Seq(Member) /\ \A i, j \in DOMAIN c : c[i] = c[j] => i = j
    BY DEF Ordered, Spells
  <1>2. /\ Len(c) \in Nat /\ DOMAIN c = 1 .. Len(c)
        /\ \A i \in Int : At(c, i) # Nil <=> i \in 1 .. Len(c)
        /\ \A i \in 1 .. Len(c) : At(c, i) = c[i] /\ c[i] \in Member
    BY <1>1, AtProperties
  <1>3. \A m \in Member : KeyOf[m] \in Nat /\ m # Nil
    BY KeyAssumption, NilAssumption
  <1>4. ASSUME NEW i \in 1 .. Len(c), NEW j \in 1 .. Len(c), KeyOf[c[i]] <= KeyOf[c[j]] PROVE i <= j
    <2>1. j < i => KeyOf[c[j]] < KeyOf[c[i]]
      BY DEF Ordered
    <2>2. KeyOf[c[i]] \in Nat /\ KeyOf[c[j]] \in Nat
      BY <1>2, <1>3
    <2> QED BY <1>4, <2>1, <2>2
  <1> QED BY <1>1, <1>2, <1>3, <1>4 DEF Ordered, Spells

\* The keys before position k, and those only, are below t.
SplitsAt(c, t, k) ==
  k \in 1 .. Len(c) + 1 /\ \A i \in 1 .. Len(c) : i < k <=> KeyOf[c[i]] < t

\* findGE leads to the position where t splits the list.
LEMMA FindGESplits ==
  ASSUME NEW c, Ordered(c), NEW t \in Int, NEW m \in FindGE(t)
  PROVE  \E k \in 1 .. Len(c) + 1 : SplitsAt(c, t, k) /\ m = At(c, k)
  <1>1. FirstFrom(Members(c), t, m)
    BY TransientFirst, AttachedFirst DEF Ordered
  <1>2. /\ Len(c) \in Nat /\ DOMAIN c = 1 .. Len(c)
        /\ \A i \in 1 .. Len(c) : c[i] # Nil /\ KeyOf[c[i]] \in Nat /\ At(c, i) = c[i]
        /\ \A i \in Int : At(c, i) # Nil <=> i \in 1 .. Len(c)
        /\ \A i, j \in 1 .. Len(c) : KeyOf[c[i]] <= KeyOf[c[j]] => i <= j
    BY OrderedType
  <1>3. CASE m = Nil
    <2>1. \A i \in 1 .. Len(c) : KeyOf[c[i]] < t
      BY <1>1, <1>2, <1>3 DEF FirstFrom, Members
    <2>2. Len(c) + 1 \in 1 .. Len(c) + 1 /\ At(c, Len(c) + 1) = Nil
      BY <1>2
    <2>3. SplitsAt(c, t, Len(c) + 1)
      BY <1>2, <2>1, <2>2 DEF SplitsAt
    <2> QED BY <1>3, <2>2, <2>3
  <1>4. CASE m # Nil
    <2>1. /\ m \in Members(c) /\ KeyOf[m] >= t
          /\ \A x \in Members(c) : KeyOf[x] < KeyOf[m] => KeyOf[x] < t
      BY <1>1, <1>4 DEF FirstFrom
    <2>2. PICK k \in 1 .. Len(c) : m = c[k]
      BY <1>2, <2>1 DEF Members
    <2>3. ASSUME NEW i \in 1 .. Len(c) PROVE i < k <=> KeyOf[c[i]] < t
      <3>1. c[i] \in Members(c) /\ KeyOf[c[i]] \in Nat /\ KeyOf[c[k]] \in Nat /\ i \in Int /\ k \in Int
        BY <1>2 DEF Members
      <3>2. i < k => KeyOf[c[i]] < KeyOf[c[k]]
        BY <1>2, <3>1
      <3>3. i >= k => KeyOf[c[k]] <= KeyOf[c[i]]
        BY <3>1 DEF Ordered
      <3> QED BY <2>1, <2>2, <3>1, <3>2, <3>3
    <2>4. k \in 1 .. Len(c) + 1 /\ m = At(c, k)
      BY <1>2, <2>2
    <2>5. SplitsAt(c, t, k)
      BY <2>3, <2>4 DEF SplitsAt
    <2> QED BY <2>4, <2>5
  <1> QED BY <1>3, <1>4

\* The members of c from position k on.
Suffix(c, k) == [i \in 1 .. Len(c) - k + 1 |-> c[k + i - 1]]

\* The walk along next from a member meets it and what stands behind it.
LEMMA SuffixChain ==
  ASSUME NEW c, Ordered(c), NEW k \in 1 .. Len(c) + 1
  PROVE  /\ Chain(node, At(c, k)) = Suffix(c, k)
         /\ Linked(node, At(c, k)) = {c[i] : i \in k .. Len(c)}
  <1> DEFINE d == Suffix(c, k)
             L == Len(c) - k + 1
  <1>1. /\ c \in Seq(Member) /\ Len(c) \in Nat /\ DOMAIN c = 1 .. Len(c)
        /\ \A i, j \in 1 .. Len(c) : c[i] = c[j] => i = j
        /\ \A i \in 1 .. Len(c) : c[i] \in Member /\ At(c, i) = c[i]
        /\ \A i \in Int : At(c, i) # Nil <=> i \in 1 .. Len(c)
        /\ \A i \in 1 .. Len(c) : node[c[i]].next = At(c, i + 1)
    BY OrderedType
  <1>2. L \in Nat /\ DOMAIN d = 1 .. L /\ \A i \in 1 .. L : k + i - 1 \in k .. Len(c) /\ d[i] = c[k + i - 1]
    BY <1>1 DEF Suffix
  <1>3. \A i \in 1 .. L : d[i] \in Member
    BY <1>1, <1>2
  <1>4. d \in Seq(Member) /\ Len(d) = L
    <2>1. d = [i \in 1 .. L |-> d[i]]
      BY DEF Suffix
    <2> HIDE DEF d, L
    <2> QED BY <1>2, <1>3, <2>1, IsASeq, LenProperties
  <1> HIDE DEF d
  <1>5. ASSUME NEW i \in DOMAIN d, NEW j \in DOMAIN d, d[i] = d[j] PROVE i = j
    <2>1. i \in 1 .. L /\ j \in 1 .. L /\ c[k + i - 1] = c[k + j - 1]
      BY <1>2, <1>5
    <2>2. k + i - 1 \in 1 .. Len(c) /\ k + j - 1 \in 1 .. Len(c)
      BY <1>1, <2>1
    <2>3. k + i - 1 = k + j - 1
      BY <1>1, <2>1, <2>2
    <2> QED BY <2>1, <2>3
  <1>6. ASSUME NEW i \in Int, i >= 1 PROVE At(d, i) = At(c, k + i - 1)
    <2>1. CASE i \in 1 .. L
      <3>1. k + i - 1 \in 1 .. Len(c)
        BY <1>1, <2>1
      <3> QED BY <1>1, <1>2, <2>1, <3>1 DEF At
    <2>2. CASE i \notin 1 .. L
      <3>1. k + i - 1 \notin 1 .. Len(c) /\ k + i - 1 \in Int
        BY <1>1, <1>6, <2>2
      <3> QED BY <1>1, <1>2, <2>2, <3>1 DEF At
    <2> QED BY <2>1, <2>2
  <1>7. At(c, k) = At(d, 1)
    BY <1>6
  <1>8. ASSUME NEW i \in DOMAIN d PROVE node[d[i]].next = At(d, i + 1)
    <2>1. i \in 1 .. L /\ i \in Int /\ i >= 1 /\ k \in Int
      BY <1>1, <1>2
    <2>2. (k + i - 1) + 1 = k + (i + 1) - 1 /\ i + 1 \in Int /\ i + 1 >= 1
      BY <2>1
    <2>3. k + i - 1 \in 1 .. Len(c)
      BY <1>1, <1>2, <2>1
    <2> QED BY <1>1, <1>2, <1>6, <2>1, <2>2, <2>3
  <1>9. Chain(node, At(c, k)) = d /\ Linked(node, At(c, k)) = Members(d)
    BY <1>4, <1>5, <1>7, <1>8, ChainFollows
  <1>10. Members(d) = {c[i] : i \in k .. Len(c)}
    <2>1. \A i \in k .. Len(c) : i - k + 1 \in 1 .. L /\ d[i - k + 1] = c[i]
      BY <1>1, <1>2
    <2>2. \A x \in Members(d) : \E i \in k .. Len(c) : x = c[i]
      BY <1>2 DEF Members
    <2>3. \A i \in k .. Len(c) : c[i] \in Members(d)
      <3> TAKE i \in k .. Len(c)
      <3>1. i - k + 1 \in DOMAIN d /\ d[i - k + 1] = c[i]
        BY <1>2, <2>1
      <3> QED BY <3>1 DEF Members
    <2> QED BY <2>2, <2>3
  <1> QED BY <1>9, <1>10 DEF d

\* The members behind those whose key is t start where the keys exceed t.
LEMMA SkipsEqual ==
  ASSUME NEW c, Ordered(c), NEW t \in Int, NEW k, SplitsAt(c, t, k)
  PROVE  \E q \in 1 .. Len(c) + 1 : /\ SkipEqual(At(c, k), t) = At(c, q)
                                    /\ \A i \in 1 .. Len(c) : i < q <=> KeyOf[c[i]] <= t
  <1> DEFINE walk == Suffix(c, k)
             L == Len(c) - k + 1
             past == {i \in DOMAIN walk : KeyOf[walk[i]] # t /\ \A j \in 1 .. (i - 1) : KeyOf[walk[j]] = t}
  <1>1. /\ Len(c) \in Nat /\ DOMAIN c = 1 .. Len(c) /\ k \in 1 .. Len(c) + 1
        /\ \A i \in 1 .. Len(c) : KeyOf[c[i]] \in Nat /\ At(c, i) = c[i]
        /\ \A i \in Int : At(c, i) # Nil <=> i \in 1 .. Len(c)
        /\ \A i, j \in 1 .. Len(c) : i < j => KeyOf[c[i]] < KeyOf[c[j]]
        /\ \A i \in 1 .. Len(c) : i < k <=> KeyOf[c[i]] < t
    BY OrderedType DEF Ordered, SplitsAt
  <1>2. L \in Nat /\ DOMAIN walk = 1 .. L /\ \A i \in 1 .. L : k + i - 1 \in k .. Len(c) /\ walk[i] = c[k + i - 1]
    BY <1>1 DEF Suffix
  <1>3. Chain(node, At(c, k)) = walk
    BY <1>1, SuffixChain
  <1> HIDE DEF walk
  <1>4. SkipEqual(At(c, k), t) = IF past = {} THEN Nil ELSE walk[CHOOSE i \in past : TRUE]
    BY <1>3 DEF SkipEqual
  <1>5. \A i \in 1 .. L : KeyOf[walk[i]] \in Nat /\ (i # 1 => KeyOf[walk[i]] > t) /\ KeyOf[walk[i]] >= t
    <2> TAKE i \in 1 .. L
    <2>1. /\ k + i - 1 \in 1 .. Len(c) /\ ~(k + i - 1 < k) /\ walk[i] = c[k + i - 1]
          /\ KeyOf[c[k + i - 1]] \in Nat
      BY <1>1, <1>2
    <2>2. KeyOf[walk[i]] >= t
      BY <1>1, <2>1
    <2>3. ASSUME i # 1 PROVE KeyOf[walk[i]] > t
      <3>1. 1 \in 1 .. L /\ k \in 1 .. Len(c) /\ k < k + i - 1 /\ ~(k < k)
        BY <1>1, <2>1, <2>3
      <3>2. KeyOf[c[k]] < KeyOf[c[k + i - 1]] /\ KeyOf[c[k]] >= t /\ KeyOf[c[k]] \in Nat
        BY <1>1, <2>1, <3>1
      <3> QED BY <2>1, <3>2
    <2> QED BY <2>1, <2>2, <2>3
  <1>6. CASE k \in 1 .. Len(c) /\ KeyOf[c[k]] = t
    <2>1. 1 \in 1 .. L /\ walk[1] = c[k]
      BY <1>1, <1>2, <1>6
    <2>2. past = {i \in 1 .. L : i = 2}
      <3>1. 1 \notin past
        BY <1>6, <2>1
      <3>2. ASSUME NEW i \in past PROVE i \in 1 .. L /\ i = 2
        <4>1. i \in 1 .. L /\ i # 1 /\ \A j \in 1 .. (i - 1) : KeyOf[walk[j]] = t
          BY <1>2, <3>1
        <4>2. i > 2 => 2 \in 1 .. (i - 1) /\ 2 \in 1 .. L /\ KeyOf[walk[2]] > t
          BY <1>2, <1>5, <4>1
        <4> QED BY <1>5, <4>1, <4>2
      <3>3. 2 \in 1 .. L => 2 \in past
        <4> SUFFICES ASSUME 2 \in 1 .. L PROVE 2 \in past
          OBVIOUS
        <4>1. KeyOf[walk[2]] # t
          BY <1>5
        <4>2. \A j \in 1 .. (2 - 1) : KeyOf[walk[j]] = t
          BY <1>6, <2>1
        <4> QED BY <1>2, <4>1, <4>2
      <3> QED BY <3>2, <3>3
    <2> DEFINE q == k + 1
    <2>3. q \in 1 .. Len(c) + 1
      BY <1>1, <1>6
    <2>4. ASSUME NEW i \in 1 .. Len(c) PROVE i < q <=> KeyOf[c[i]] <= t
      <3>1. CASE i < k
        BY <1>1, <3>1
      <3>2. CASE i = k
        BY <1>1, <1>6, <3>2
      <3>3. CASE i > k
        <4>1. KeyOf[c[k]] < KeyOf[c[i]]
          BY <1>1, <1>6, <3>3
        <4> QED BY <1>1, <1>6, <3>3, <4>1
      <3> QED BY <1>1, <3>1, <3>2, <3>3
    <2>5. SkipEqual(At(c, k), t) = At(c, q)
      <3>1. CASE 2 \in 1 .. L
        <4>1. past = {2}
          BY <2>2, <3>1
        <4>2. past # {} /\ (CHOOSE i \in past : TRUE) = 2
          <5> HIDE DEF past
          <5> QED BY <4>1
        <4>3. walk[2] = c[k + 1] /\ k + 1 \in 1 .. Len(c)
          BY <1>1, <1>2, <3>1
        <4> HIDE DEF past
        <4> QED BY <1>1, <1>4, <4>2, <4>3
      <3>2. CASE 2 \notin 1 .. L
        <4>1. past = {}
          BY <2>2, <3>2
        <4>2. k + 1 \notin 1 .. Len(c) /\ k + 1 \in Int
          BY <1>1, <2>1, <3>2
        <4> HIDE DEF past
        <4> QED BY <1>1, <1>4, <4>1, <4>2
      <3> QED BY <3>1, <3>2
    <2> QED BY <2>3, <2>4, <2>5
  <1>7. CASE ~(k \in 1 .. Len(c) /\ KeyOf[c[k]] = t)
    <2>1. ASSUME NEW i \in 1 .. Len(c) PROVE i < k <=> KeyOf[c[i]] <= t
      <3>1. CASE i < k
        BY <1>1, <3>1
      <3>2. CASE i >= k
        <4>1. k \in 1 .. Len(c) /\ KeyOf[c[k]] >= t /\ KeyOf[c[k]] \in Nat
          BY <1>1, <3>2
        <4>2. i # k => KeyOf[c[k]] < KeyOf[c[i]]
          BY <1>1, <3>2, <4>1
        <4> QED BY <1>1, <1>7, <3>2, <4>1, <4>2
      <3> QED BY <1>1, <3>1, <3>2
    <2>2. SkipEqual(At(c, k), t) = At(c, k)
      <3>1. CASE k \in 1 .. Len(c)
        <4>1. 1 \in 1 .. L /\ walk[1] = c[k]
          BY <1>1, <1>2, <3>1
        <4>2. past = {1}
          <5>1. ASSUME NEW i \in past PROVE i = 1
            <6>1. i \in 1 .. L /\ \A j \in 1 .. (i - 1) : KeyOf[walk[j]] = t
              BY <1>2
            <6>2. i # 1 => 1 \in 1 .. (i - 1)
              BY <1>2, <6>1
            <6> QED BY <1>7, <3>1, <4>1, <6>1, <6>2
          <5>2. 1 \in past
            BY <1>2, <1>7, <3>1, <4>1
          <5> QED BY <5>1, <5>2
        <4>3. past # {} /\ (CHOOSE i \in past : TRUE) = 1
          <5> HIDE DEF past
          <5> QED BY <4>2
        <4> HIDE DEF past
        <4> QED BY <1>1, <1>4, <3>1, <4>1, <4>3
      <3>2. CASE k \notin 1 .. Len(c)
        <4>1. 1 .. L = {} /\ k \in Int
          BY <1>1, <3>2
        <4>2. past = {}
          BY <1>2, <4>1
        <4> HIDE DEF past
        <4> QED BY <1>1, <1>4, <3>2, <4>1, <4>2
      <3> QED BY <3>1, <3>2
    <2> QED BY <1>1, <2>1, <2>2
  <1> QED BY <1>6, <1>7

\* The members from one position to another.
LEMMA SegmentSpells ==
  ASSUME NEW c, Ordered(c), NEW i \in 1 .. Len(c) + 1, NEW k \in 1 .. Len(c)
  PROVE  Segment(At(c, i), At(c, k)) = {c[p] : p \in i .. k}
  <1>1. /\ Len(c) \in Nat /\ \A p \in 1 .. Len(c) : At(c, p) = c[p]
        /\ \A p, q \in 1 .. Len(c) : c[p] = c[q] => p = q
    BY OrderedType
  <1>2. \A p \in 1 .. Len(c) + 1 : Linked(node, At(c, p)) = {c[q] : q \in p .. Len(c)}
    BY SuffixChain
  <1>3. ASSUME NEW p \in i .. Len(c) PROVE At(c, k) \in Linked(node, c[p]) <=> p <= k
    <2>1. p \in 1 .. Len(c) /\ p \in 1 .. Len(c) + 1 /\ c[p] = At(c, p) /\ c[k] = At(c, k)
      BY <1>1
    <2>2. Linked(node, c[p]) = {c[q] : q \in p .. Len(c)}
      BY <1>2, <2>1
    <2>3. \A q \in p .. Len(c) : q \in 1 .. Len(c) /\ p <= q
      BY <1>1, <2>1
    <2>4. c[k] \in {c[q] : q \in p .. Len(c)} <=> p <= k
      <3>1. p <= k => k \in p .. Len(c)
        BY <1>1, <2>1
      <3> QED BY <1>1, <2>3, <3>1
    <2> QED BY <2>1, <2>2, <2>4
  <1>4. Segment(At(c, i), At(c, k)) = {x \in {c[q] : q \in i .. Len(c)} : At(c, k) \in Linked(node, x)}
    BY <1>2 DEF Segment
  <1>5. \A p \in i .. k : p \in i .. Len(c) /\ p <= k
    BY <1>1
  <1>6. \A p \in i .. Len(c) : p <= k => p \in i .. k
    BY <1>1
  <1> QED BY <1>3, <1>4, <1>5, <1>6

\* Nothing follows nothing.
LEMMA SegmentOfNothing ==
  ASSUME NEW c, Ordered(c), NEW x
  PROVE  Segment(Nil, x) = {}
  <1>1. Len(c) \in Nat /\ Len(c) + 1 \in 1 .. Len(c) + 1 /\ At(c, Len(c) + 1) = Nil
    BY OrderedType
  <1>2. Linked(node, Nil) = {c[i] : i \in Len(c) + 1 .. Len(c)}
    BY <1>1, SuffixChain
  <1>3. Len(c) + 1 .. Len(c) = {}
    BY <1>1
  <1> QED BY <1>2, <1>3 DEF Segment

\* The end of a range that starts with a member no later than t is the last
\* member with a key up to t; if there is none, it is the start.
LEMMA DateEndSplits ==
  ASSUME NEW c, Ordered(c), NEW t \in Int, NEW start, start # Nil, NEW end \in DateEnd(start, t)
  PROVE  \E q \in 1 .. Len(c) + 1 :
           /\ \A i \in 1 .. Len(c) : i < q <=> KeyOf[c[i]] <= t
           /\ end = IF q = 1 THEN start ELSE At(c, q - 1)
  <1>1. PICK m \in FindGE(t) :
          LET past == SkipEqual(m, t)
              last == IF past = Nil THEN list.last ELSE node[past].prev
          IN end = IF start = Nil THEN Nil ELSE IF last = Nil THEN start ELSE last
    BY DEF DateEnd
  <1>2. PICK k \in 1 .. Len(c) + 1 : SplitsAt(c, t, k) /\ m = At(c, k)
    BY FindGESplits
  <1>3. PICK q \in 1 .. Len(c) + 1 : /\ SkipEqual(m, t) = At(c, q)
                                     /\ \A i \in 1 .. Len(c) : i < q <=> KeyOf[c[i]] <= t
    BY <1>2, SkipsEqual
  <1>4. /\ Len(c) \in Nat /\ \A i \in 1 .. Len(c) : At(c, i) = c[i]
        /\ \A i \in Int : At(c, i) # Nil <=> i \in 1 .. Len(c)
        /\ list.last = At(c, Len(c)) /\ \A i \in 1 .. Len(c) : node[c[i]].prev = At(c, i - 1)
    BY OrderedType
  <1>5. (IF At(c, q) = Nil THEN list.last ELSE node[At(c, q)].prev) = At(c, q - 1)
    <2>1. CASE q = Len(c) + 1
      <3>1. q \in Int /\ q \notin 1 .. Len(c) /\ q - 1 = Len(c)
        BY <1>4, <2>1
      <3> QED BY <1>4, <3>1
    <2>2. CASE q # Len(c) + 1
      <3>1. q \in 1 .. Len(c) /\ q \in Int
        BY <1>4, <2>2
      <3> QED BY <1>4, <3>1
    <2> QED BY <2>1, <2>2
  <1>6. end = IF At(c, q - 1) = Nil THEN start ELSE At(c, q - 1)
    BY <1>1, <1>3, <1>5
  <1>7. At(c, q - 1) = Nil <=> q = 1
    <2>1. q - 1 \in Int /\ (q - 1 \notin 1 .. Len(c) <=> q = 1)
      BY <1>4
    <2> QED BY <1>4, <2>1
  <1> QED BY <1>3, <1>6, <1>7

\* Every range is exact, but for the two that have no answer.
LEMMA RangeExact ==
  ASSUME NEW c, Ordered(c), NEW from \in Nat, NEW to \in Nat, NEW r \in GetDateRange(from, to),
         ~(to # 0 /\ (from > to \/ (from = 0 /\ \A m \in Members(c) : KeyOf[m] > to)))
  PROVE  Segment(r[1], r[2]) = {m \in Members(c) : KeyOf[m] >= from /\ (to # 0 => KeyOf[m] <= to)}
  <1> DEFINE exact == {m \in Members(c) : KeyOf[m] >= from /\ (to # 0 => KeyOf[m] <= to)}
  <1>1. /\ Len(c) \in Nat /\ DOMAIN c = 1 .. Len(c)
        /\ \A i \in 1 .. Len(c) : KeyOf[c[i]] \in Nat /\ At(c, i) = c[i] /\ c[i] # Nil
        /\ \A i \in Int : At(c, i) # Nil <=> i \in 1 .. Len(c)
        /\ list.first = At(c, 1) /\ list.last = At(c, Len(c))
        /\ \A i, j \in 1 .. Len(c) : KeyOf[c[i]] <= KeyOf[c[j]] => i <= j
    BY OrderedType
  <1>2. PICK start \in DateStart(from, to) :
          \E end \in IF to # 0 THEN DateEnd(start, to)
                     ELSE {IF start = Nil THEN Nil ELSE list.last} : r = <<start, end>>
    BY DEF GetDateRange
  <1>3. PICK end \in IF to # 0 THEN DateEnd(start, to)
                     ELSE {IF start = Nil THEN Nil ELSE list.last} : r = <<start, end>>
    BY <1>2
  <1>4. r[1] = start /\ r[2] = end
    BY <1>3
  <1>5. \E k \in 1 .. Len(c) + 1 :
          /\ SplitsAt(c, from, k)
          /\ start = IF from # 0 /\ to # 0 /\ At(c, k) # Nil /\ KeyOf[At(c, k)] > to THEN Nil ELSE At(c, k)
    <2>1. CASE from = 0
      <3>1. 1 \in 1 .. Len(c) + 1 /\ start = At(c, 1)
        BY <1>1, <1>2, <2>1 DEF DateStart
      <3>2. SplitsAt(c, from, 1)
        BY <1>1, <2>1, <3>1 DEF SplitsAt
      <3> QED BY <2>1, <3>1, <3>2
    <2>2. CASE from # 0
      <3>1. PICK m \in FindGE(from) : start = IF m # Nil /\ to # 0 /\ KeyOf[m] > to THEN Nil ELSE m
        BY <1>2, <2>2 DEF DateStart
      <3>2. PICK k \in 1 .. Len(c) + 1 : SplitsAt(c, from, k) /\ m = At(c, k)
        BY FindGESplits
      <3> QED BY <2>2, <3>1, <3>2
    <2> QED BY <2>1, <2>2
  <1>6. PICK k \in 1 .. Len(c) + 1 :
          /\ SplitsAt(c, from, k)
          /\ start = IF from # 0 /\ to # 0 /\ At(c, k) # Nil /\ KeyOf[At(c, k)] > to THEN Nil ELSE At(c, k)
    BY <1>5
  <1>7. \A i \in 1 .. Len(c) : i < k <=> KeyOf[c[i]] < from
    BY <1>6 DEF SplitsAt
  <1>8. CASE start = Nil
    <2>1. exact = {}
      <3> SUFFICES ASSUME NEW i \in 1 .. Len(c), KeyOf[c[i]] >= from, to # 0 => KeyOf[c[i]] <= to
                   PROVE  FALSE
        BY <1>1 DEF Members
      <3>1. k <= i /\ k \in 1 .. Len(c)
        BY <1>1, <1>7
      <3>2. At(c, k) = c[k] /\ c[k] # Nil /\ KeyOf[c[k]] \in Nat /\ KeyOf[c[i]] \in Nat
        BY <1>1, <3>1
      <3>3. to # 0 /\ KeyOf[c[k]] > to
        BY <1>6, <1>8, <3>2
      <3>4. KeyOf[c[i]] <= KeyOf[c[k]]
        BY <3>2, <3>3
      <3>5. i <= k
        BY <1>1, <3>1, <3>4
      <3>6. i = k
        BY <1>1, <3>1, <3>5
      <3> QED BY <3>2, <3>3, <3>6
    <2>2. Segment(start, end) = {}
      BY <1>8, SegmentOfNothing
    <2> QED BY <1>4, <2>1, <2>2
  <1>9. CASE start # Nil
    <2>1. start = At(c, k) /\ k \in 1 .. Len(c)
      BY <1>1, <1>6, <1>9
    <2>2. \E j \in 1 .. Len(c) : /\ end = At(c, j)
                                 /\ \A i \in 1 .. Len(c) : i <= j <=> (to # 0 => KeyOf[c[i]] <= to)
      <3>1. CASE to = 0
        <4>1. end = At(c, Len(c)) /\ Len(c) \in 1 .. Len(c)
          BY <1>1, <1>3, <1>9, <2>1, <3>1
        <4>2. \A i \in 1 .. Len(c) : i <= Len(c)
          OBVIOUS
        <4> QED BY <3>1, <4>1, <4>2
      <3>2. CASE to # 0
        <4>1. PICK q \in 1 .. Len(c) + 1 :
                /\ \A i \in 1 .. Len(c) : i < q <=> KeyOf[c[i]] <= to
                /\ end = IF q = 1 THEN start ELSE At(c, q - 1)
          BY <1>3, <1>9, <3>2, DateEndSplits
        <4>2. q # 1
          <5>1. CASE from = 0
            <6>1. PICK m \in Members(c) : ~(KeyOf[m] > to)
              BY <3>2, <5>1
            <6>2. PICK i \in 1 .. Len(c) : m = c[i]
              BY <1>1 DEF Members
            <6>3. KeyOf[c[i]] <= to
              BY <1>1, <6>1, <6>2
            <6> QED BY <1>1, <4>1, <6>3
          <5>2. CASE from # 0
            <6>1. ~(KeyOf[c[k]] > to)
              BY <1>1, <1>6, <1>9, <2>1, <3>2, <5>2
            <6>2. KeyOf[c[k]] <= to
              BY <1>1, <2>1, <6>1
            <6> QED BY <1>1, <2>1, <4>1, <6>2
          <5> QED BY <5>1, <5>2
        <4>3. q - 1 \in 1 .. Len(c) /\ end = At(c, q - 1)
          BY <1>1, <4>1, <4>2
        <4>4. \A i \in 1 .. Len(c) : i <= q - 1 <=> KeyOf[c[i]] <= to
          BY <1>1, <4>1
        <4> QED BY <3>2, <4>3, <4>4
      <3> QED BY <3>1, <3>2
    <2>3. PICK j \in 1 .. Len(c) : /\ end = At(c, j)
                                   /\ \A i \in 1 .. Len(c) : i <= j <=> (to # 0 => KeyOf[c[i]] <= to)
      BY <2>2
    <2>4. Segment(start, end) = {c[p] : p \in k .. j}
      BY <2>1, <2>3, SegmentSpells
    <2>5. ASSUME NEW i \in 1 .. Len(c)
          PROVE  i \in k .. j <=> KeyOf[c[i]] >= from /\ (to # 0 => KeyOf[c[i]] <= to)
      <3>1. i >= k <=> KeyOf[c[i]] >= from
        BY <1>1, <1>7
      <3> QED BY <2>3, <3>1
    <2>6. \A i \in k .. j : i \in 1 .. Len(c)
      BY <1>1
    <2>7. {c[p] : p \in k .. j} = exact
      BY <1>1, <2>5, <2>6 DEF Members
    <2> QED BY <1>4, <2>4, <2>7
  <1> QED BY <1>8, <1>9

\* Between the transactions of an attached index nothing is pending.
PendingInv == ops \in Nat /\ (attached /\ ops = 0 => dirty = {} /\ batch = {} /\ removed = {})

LEMMA NothingIsPending == Spec => []PendingInv
  <1>1. Init => PendingInv
    BY DEF Init, PendingInv
  <1>2. PendingInv /\ [Next]_vars => PendingInv'
    <2> SUFFICES ASSUME PendingInv, [Next]_vars PROVE PendingInv'
      OBVIOUS
    <2>1. CASE NextOp
      BY <2>1 DEF NextOp, PendingInv
    <2>2. CASE Commit \/ Abandon
      BY <2>2 DEF Commit, Abandon, PendingInv
    <2>3. CASE TransientStep
      BY <2>3 DEF TransientStep, PendingInv, histVars, memVars
    <2>4. CASE UNCHANGED vars
      BY <2>4 DEF vars, PendingInv
    <2> QED BY <2>1, <2>2, <2>3, <2>4 DEF Next, Insert, Remove, Clear, Rollback, Restart
  <1> QED BY <1>1, <1>2, PTL DEF Spec

\* Between transactions the list of an index with different keys is ordered.
LEMMA OrderedBetween ==
  ASSUME KeysDiffer, PendingInv, ops = 0, lost = {}, ~disordered,
         NEW c, NEW r, ListInv(c, r), OrderInv(c, r)
  PROVE  Ordered(c)
  <1>1. /\ c \in Seq(Member) /\ DOMAIN c = 1 .. Len(c) /\ Spells(c, node, list)
        /\ \A i \in 1 .. Len(c) : c[i] \in Member /\ c[i] \in Members(c) /\ KeyOf[c[i]] \in Nat
        /\ \A i, j \in 1 .. Len(c) : c[i] = c[j] => i = j
    BY MembersType, ElementOfSeq, KeyAssumption DEF ListInv, Spells, Members
  <1>2. CASE attached
    <2>1. Found = Members(r) /\ Members(c) \subseteq Members(r) /\ Found \subseteq Members(c)
      BY <1>2 DEF ListInv, PendingInv
    <2>2. Ascending(c, Found)
      BY <1>2 DEF OrderInv, PendingInv
    <2> QED
      <3>1. ASSUME NEW i \in 1 .. Len(c), NEW j \in 1 .. Len(c), i < j PROVE KeyOf[c[i]] < KeyOf[c[j]]
        <4>1. KeyOf[c[i]] <= KeyOf[c[j]]
          BY <1>1, <2>1, <2>2, <3>1 DEF Ascending
        <4>2. c[i] # c[j]
          BY <1>1, <3>1
        <4>3. KeyOf[c[i]] # KeyOf[c[j]]
          BY <1>1, <4>2 DEF KeysDiffer
        <4> QED BY <1>1, <4>1, <4>3
      <3>2. Found = Members(c)
        BY <2>1
      <3> QED BY <1>1, <1>2, <3>1, <3>2, Zenon DEF Ordered
  <1>3. CASE ~attached
    <2>1. Ascending(c, Member) /\ Ascending(bag, Member) /\ bag \in Seq(Member) /\ Members(bag) = Members(c)
      BY <1>3 DEF ListInv, OrderInv, Holds
    <2>2. ASSUME NEW i \in 1 .. Len(c), NEW j \in 1 .. Len(c), i < j PROVE KeyOf[c[i]] < KeyOf[c[j]]
      <3>1. KeyOf[c[i]] <= KeyOf[c[j]]
        BY <1>1, <2>1, <2>2 DEF Ascending
      <3>2. c[i] # c[j]
        BY <1>1, <2>2
      <3>3. KeyOf[c[i]] # KeyOf[c[j]]
        BY <1>1, <3>2 DEF KeysDiffer
      <3> QED BY <1>1, <3>1, <3>3
    <2> QED BY <1>1, <1>3, <2>1, <2>2 DEF Ordered
  <1> QED BY <1>2, <1>3

\* With different keys, the first and the last member that GetDateRange returns
\* enclose the members of the range and no others (TimeBtree.cpp:179).
THEOREM DateRangesAreExact == ASSUME KeysDiffer PROVE Spec => []DateRangeIsExact
  <1>1. IndexInv /\ PendingInv => DateRangeIsExact
    <2> SUFFICES ASSUME IndexInv, PendingInv, ops = 0, stray = {}, lost = {}, ~disordered,
                        NEW from \in 0 .. (MaxKey + 1), NEW to \in 0 .. (MaxKey + 1),
                        NEW r \in GetDateRange(from, to),
                        ~(to # 0 /\ (from > to \/ (from = 0 /\ \A m \in Linked(node, list.first) : KeyOf[m] > to)))
                 PROVE  Segment(r[1], r[2]) =
                          {m \in Linked(node, list.first) : KeyOf[m] >= from /\ (to # 0 => KeyOf[m] <= to)}
      BY DEF DateRangeIsExact
    <2>1. PICK c, s : ListInv(c, s) /\ OrderInv(c, s)
      BY KeysDiffer DEF IndexInv, Good
    <2>2. Ordered(c) /\ Members(c) = Linked(node, list.first)
      BY <2>1, OrderedBetween, MembersType
    <2>3. from \in Nat /\ to \in Nat
      OBVIOUS
    <2> QED BY <2>2, <2>3, RangeExact
  <1> QED BY <1>1, IndexInvariant, NothingIsPending, PTL

-----------------------------------------------------------------------------
(* Reading in pages                                                        *)

\* The elements of q at the positions M, in order.
Taken(q, M) ==
  [n \in 1 .. Cardinality(M) |-> q[CHOOSE i \in M : Cardinality({j \in M : j <= i}) = n]]

\* The elements of S among the first n of q.
Kept(q, S, n) == Taken(q, {i \in 1 .. n : q[i] \in S})

\* One more position behind the others adds its element at the end.
LEMMA TakenNext ==
  ASSUME NEW q \in Seq(Member), NEW n \in Nat, NEW M \in SUBSET (1 .. n),
         n + 1 \in DOMAIN q, Taken(q, M) \in Seq(Member)
  PROVE  Taken(q, M \cup {n + 1}) = Append(Taken(q, M), q[n + 1])
  <1> DEFINE x == n + 1
             P == M \cup {x}
             C == Cardinality(M)
             Nth(k) == CHOOSE i \in M : Cardinality({j \in M : j <= i}) = k
             NthP(k) == CHOOSE i \in P : Cardinality({j \in P : j <= i}) = k
  <1>1. IsFiniteSet(M) /\ C \in Nat /\ IsFiniteSet(P) /\ Cardinality(P) = C + 1
    <2>1. IsFiniteSet(1 .. n)
      BY FS_Interval
    <2>2. IsFiniteSet(M)
      BY <2>1, FS_Subset
    <2>3. x \notin M
      OBVIOUS
    <2> QED BY <2>2, <2>3, FS_CardinalityType, FS_AddElement
  <1>2. {j \in P : j <= x} = P /\ Cardinality({j \in P : j <= x}) = C + 1
    <2>1. \A j \in P : j <= x
      OBVIOUS
    <2> HIDE DEF P, x
    <2> QED BY <1>1, <2>1
  <1>3. ASSUME NEW i \in M
        PROVE  /\ {j \in P : j <= i} = {j \in M : j <= i}
               /\ Cardinality({j \in M : j <= i}) \in Nat /\ Cardinality({j \in M : j <= i}) <= C
    <2>1. {j \in P : j <= i} = {j \in M : j <= i}
      OBVIOUS
    <2>2. {j \in M : j <= i} \in SUBSET M
      OBVIOUS
    <2>3. IsFiniteSet({j \in M : j <= i}) /\ Cardinality({j \in M : j <= i}) <= C
      BY <1>1, <2>2, FS_Subset
    <2> QED BY <2>1, <2>3, FS_CardinalityType
  <1>4. NthP(C + 1) = x
    <2>1. \A i \in P : Cardinality({j \in P : j <= i}) = C + 1 <=> i = x
      <3>1. Cardinality({j \in P : j <= x}) = C + 1
        BY <1>1, <1>2
      <3>2. \A i \in M : Cardinality({j \in P : j <= i}) # C + 1
        BY <1>1, <1>3
      <3>3. x \notin M
        OBVIOUS
      <3> QED BY <3>1, <3>2, <3>3
    <2> DEFINE A(i) == Cardinality({j \in P : j <= i})
    <2>2. NthP(C + 1) = CHOOSE i \in P : A(i) = C + 1
      OBVIOUS
    <2>3. \A i \in P : A(i) = C + 1 <=> i = x
      BY <2>1
    <2>4. x \in P
      OBVIOUS
    <2> HIDE DEF A, NthP, P, x, C
    <2> QED BY <2>2, <2>3, <2>4
  <1>5. ASSUME NEW k \in 1 .. C PROVE NthP(k) = Nth(k)
    <2> DEFINE A(i) == Cardinality({j \in P : j <= i})
               B(i) == Cardinality({j \in M : j <= i})
    <2>1. NthP(k) = (CHOOSE i : i \in P /\ A(i) = k) /\ Nth(k) = (CHOOSE i : i \in M /\ B(i) = k)
      OBVIOUS
    <2>2. \A i : i \in P /\ A(i) = k <=> i \in M /\ B(i) = k
      <3>1. A(x) = C + 1 /\ k # C + 1
        <4>1. A(x) = C + 1
          BY <1>2
        <4> HIDE DEF A, C
        <4> QED BY <1>1, <4>1
      <3>2. \A i \in M : A(i) = B(i)
        BY <1>3
      <3>3. \A i : i \in P <=> i \in M \/ i = x
        OBVIOUS
      <3>4. x \notin M
        OBVIOUS
      <3> HIDE DEF A, B, P, x
      <3> QED BY <3>1, <3>2, <3>3, <3>4
    <2> HIDE DEF A, B, Nth, NthP
    <2>3. (CHOOSE i : i \in P /\ A(i) = k) = (CHOOSE i : i \in M /\ B(i) = k)
      BY <2>2
    <2> QED BY <2>1, <2>3
  <1>6. /\ Len(Taken(q, M)) = C /\ \A k \in 1 .. C : Taken(q, M)[k] = q[Nth(k)]
    <2>1. Taken(q, M) = [k \in 1 .. C |-> q[Nth(k)]]
      BY DEF Taken
    <2> HIDE DEF Nth, C
    <2> QED BY <1>1, <2>1, LenProperties
  <1>7. q[x] \in Member
    BY ElementOfSeq, LenProperties
  <1>8. Taken(q, P) = [k \in 1 .. C + 1 |-> q[NthP(k)]]
    BY <1>1 DEF Taken
  <1> DEFINE a == Append(Taken(q, M), q[x])
  <1> HIDE DEF Nth, NthP, C, P, x
  <1>9. /\ a \in Seq(Member) /\ Len(a) = C + 1 /\ a[C + 1] = q[x]
        /\ \A k \in 1 .. C : a[k] = q[Nth(k)]
    BY <1>1, <1>6, <1>7, AppendProperties
  <1>10. a = [k \in 1 .. C + 1 |-> a[k]]
    BY <1>9, SeqDef, LenProperties
  <1> HIDE DEF a
  <1>11. \A k \in 1 .. C + 1 : a[k] = q[NthP(k)]
    <2> TAKE k \in 1 .. C + 1
    <2>1. k \in 1 .. C \/ k = C + 1
      BY <1>1
    <2> QED BY <1>4, <1>5, <1>9, <2>1
  <1>12. Taken(q, P) = a
    BY <1>8, <1>10, <1>11
  <1> QED BY <1>12 DEF a, P, x

\* Matching goes through the sequence and keeps the elements of S.
LEMMA KeptBuilds ==
  ASSUME NEW q \in Seq(Member), NEW S
  PROVE  /\ Kept(q, S, 0) = <<>>
         /\ \A n \in 1 .. Len(q) : Kept(q, S, n) = IF q[n] \in S THEN Append(Kept(q, S, n - 1), q[n])
                                                   ELSE Kept(q, S, n - 1)
         /\ \A n \in 0 .. Len(q) : Kept(q, S, n) \in Seq(Member)
         /\ Matching(q, S) = Kept(q, S, Len(q))
  <1> DEFINE at(n) == {i \in 1 .. n : q[i] \in S}
             N == Len(q)
             Valid == {n \in 0 .. N : Kept(q, S, n) \in Seq(Member)}
  <1>1. N \in Nat /\ DOMAIN q = 1 .. N /\ \A i \in 1 .. N : q[i] \in Member
    BY LenProperties, ElementOfSeq
  <1> HIDE DEF N
  <1>2. Kept(q, S, 0) = <<>> /\ Kept(q, S, 0) \in Seq(Member)
    <2>1. at(0) = {}
      OBVIOUS
    <2>2. Kept(q, S, 0) = Taken(q, {})
      BY <2>1 DEF Kept
    <2> DEFINE g(k) == q[CHOOSE i \in {} : Cardinality({j \in {} : j <= i}) = k]
    <2>3. Taken(q, {}) = [k \in 1 .. 0 |-> g(k)]
      BY FS_EmptySet DEF Taken
    <2> HIDE DEF g
    <2>4. [k \in 1 .. 0 |-> g(k)] = <<>>
      OBVIOUS
    <2>5. <<>> \in Seq(Member)
      BY EmptySeq
    <2> QED BY <2>2, <2>3, <2>4, <2>5, Zenon
  <1>3. ASSUME NEW n \in 1 .. N, Kept(q, S, n - 1) \in Seq(Member)
        PROVE  /\ Kept(q, S, n) = IF q[n] \in S THEN Append(Kept(q, S, n - 1), q[n])
                                  ELSE Kept(q, S, n - 1)
               /\ Kept(q, S, n) \in Seq(Member)
    <2>1. CASE q[n] \in S
      <3>1. at(n) = at(n - 1) \cup {(n - 1) + 1} /\ (n - 1) + 1 = n
        BY <2>1
      <3>2. n - 1 \in Nat /\ at(n - 1) \in SUBSET (1 .. n - 1) /\ (n - 1) + 1 \in DOMAIN q
        BY <1>1
      <3>3. Taken(q, at(n - 1)) \in Seq(Member)
        BY <1>3 DEF Kept
      <3> HIDE DEF at
      <3>4. Taken(q, at(n - 1) \cup {(n - 1) + 1}) = Append(Taken(q, at(n - 1)), q[(n - 1) + 1])
        BY <3>2, <3>3, TakenNext
      <3>5. Taken(q, at(n)) = Append(Taken(q, at(n - 1)), q[n])
        BY <3>1, <3>4
      <3>6. Kept(q, S, n) = Append(Kept(q, S, n - 1), q[n])
        BY <3>5 DEF Kept, at
      <3>7. q[n] \in Member
        BY <1>1
      <3> QED BY <1>3, <2>1, <3>6, <3>7, AppendProperties
    <2>2. CASE q[n] \notin S
      <3>1. at(n) = at(n - 1)
        BY <2>2
      <3>2. Kept(q, S, n) = Kept(q, S, n - 1)
        BY <3>1 DEF Kept
      <3> QED BY <1>3, <2>2, <3>2
    <2> QED BY <2>1, <2>2
  <1>4. 0 \in Valid
    BY <1>1, <1>2
  <1>5. \A n \in 1 .. N : n - 1 \in Valid => n \in Valid
    BY <1>3
  <1>6. 0 .. N \subseteq Valid
    <2> HIDE DEF Valid
    <2> QED BY <1>1, <1>4, <1>5, Lemmas!UpTo
  <1>7. \A n \in 1 .. N : n - 1 \in 0 .. N
    BY <1>1
  <1>8. Matching(q, S) = Kept(q, S, N)
    <2>1. {i \in DOMAIN q : q[i] \in S} = at(N)
      BY <1>1
    <2>2. Matching(q, S) = Taken(q, {i \in DOMAIN q : q[i] \in S})
      BY Zenon DEF Matching, Taken
    <2> QED BY <2>1, <2>2 DEF Kept
  <1> QED BY <1>2, <1>3, <1>6, <1>7, <1>8 DEF N

\* The first k elements kept are those kept of a prefix that ends with the k-th.
EndsWith(q, S, n, k) ==
  \E j \in 1 .. n : /\ SubSeq(Kept(q, S, n), 1, k) = Kept(q, S, j)
                    /\ Len(Kept(q, S, j)) = k /\ Kept(q, S, j)[k] = q[j]

LEMMA KeptPrefix ==
  ASSUME NEW q \in Seq(Member), NEW S, NEW n \in 0 .. Len(q), NEW k \in 1 .. Len(Kept(q, S, n))
  PROVE  EndsWith(q, S, n, k)
  <1> DEFINE N == Len(q)
             K(i) == Kept(q, S, i)
             Has(i, l) == \E j \in 1 .. i : SubSeq(K(i), 1, l) = K(j) /\ Len(K(j)) = l /\ K(j)[l] = q[j]
             Valid == {i \in 0 .. N : \A l \in 1 .. Len(K(i)) : Has(i, l)}
  <1>1. /\ N \in Nat /\ K(0) = <<>>
        /\ \A i \in 1 .. N : q[i] \in Member /\ K(i) = IF q[i] \in S THEN Append(K(i - 1), q[i]) ELSE K(i - 1)
        /\ \A i \in 0 .. N : K(i) \in Seq(Member) /\ Len(K(i)) \in Nat
    BY KeptBuilds, LenProperties, ElementOfSeq
  <1> HIDE DEF N, K
  <1>2. 0 \in Valid
    <2>1. Len(K(0)) = 0
      BY <1>1, EmptySeq
    <2> QED BY <1>1, <2>1
  <1>3. ASSUME NEW i \in 1 .. N, i - 1 \in Valid PROVE i \in Valid
    <2>1. /\ i \in 0 .. N /\ i - 1 \in 0 .. N /\ K(i - 1) \in Seq(Member) /\ K(i) \in Seq(Member)
          /\ Len(K(i - 1)) \in Nat /\ q[i] \in Member
      BY <1>1
    <2>2. CASE q[i] \notin S
      <3>1. K(i) = K(i - 1)
        BY <1>1, <2>2
      <3>2. \A j \in 1 .. i - 1 : j \in 1 .. i
        OBVIOUS
      <3>3. \A l \in 1 .. Len(K(i - 1)) : Has(i - 1, l)
        BY <1>3
      <3> QED BY <2>1, <3>1, <3>2, <3>3
    <2>3. CASE q[i] \in S
      <3>1. K(i) = Append(K(i - 1), q[i])
        BY <1>1, <2>3
      <3>2. /\ Len(K(i)) = Len(K(i - 1)) + 1 /\ K(i)[Len(K(i - 1)) + 1] = q[i]
            /\ \A l \in 1 .. Len(K(i - 1)) : K(i)[l] = K(i - 1)[l]
        BY <2>1, <3>1, AppendProperties
      <3>3. ASSUME NEW l \in 1 .. Len(K(i)) PROVE Has(i, l)
        <4>1. CASE l = Len(K(i))
          <5>1. SubSeq(K(i), 1, l) = K(i)
            BY <2>1, <4>1, SubSeqFull
          <5>2. i \in 1 .. i /\ K(i)[l] = q[i]
            BY <3>2, <4>1
          <5> QED BY <4>1, <5>1, <5>2
        <4>2. CASE l # Len(K(i))
          <5>1. l \in 1 .. Len(K(i - 1)) /\ l \in Nat /\ l \in Int
            BY <2>1, <3>2, <4>2
          <5>2. PICK j \in 1 .. i - 1 : SubSeq(K(i - 1), 1, l) = K(j) /\ Len(K(j)) = l /\ K(j)[l] = q[j]
            BY <1>3, <5>1
          <5>3. SubSeq(K(i), 1, l) = SubSeq(K(i - 1), 1, l)
            <6>1. \A m \in 1 .. l : /\ m \in 1 .. Len(K(i - 1)) /\ m \in 1 .. Len(K(i))
                                    /\ K(i)[m] = K(i - 1)[m]
              BY <2>1, <3>2, <5>1
            <6>2. \A m \in 1 .. l : K(i)[m] \in Member /\ K(i - 1)[m] \in Member
              BY <2>1, <6>1, ElementOfSeq, LenProperties
            <6>3. /\ SubSeq(K(i), 1, l) \in Seq(Member) /\ SubSeq(K(i - 1), 1, l) \in Seq(Member)
                  /\ Len(SubSeq(K(i), 1, l)) = l /\ Len(SubSeq(K(i - 1), 1, l)) = l
                  /\ \A m \in 1 .. l : /\ SubSeq(K(i), 1, l)[m] = K(i)[m]
                                       /\ SubSeq(K(i - 1), 1, l)[m] = K(i - 1)[m]
              BY <5>1, <6>2, SubSeqProperties
            <6> QED BY <6>1, <6>3, SeqEqual
          <5>4. j \in 1 .. i
            OBVIOUS
          <5> QED BY <5>2, <5>3, <5>4
        <4> QED BY <4>1, <4>2
      <3> QED BY <2>1, <3>3
    <2> QED BY <2>2, <2>3
  <1>4. 0 .. N \subseteq Valid
    <2>1. \A i \in 1 .. N : i - 1 \in Valid => i \in Valid
      BY <1>3
    <2> HIDE DEF Valid
    <2> QED BY <1>1, <1>2, <2>1, Lemmas!UpTo
  <1> QED BY <1>4 DEF K, N, EndsWith

LEMMA SuffixProperties ==
  ASSUME NEW c \in Seq(Member), NEW k \in 1 .. Len(c) + 1
  PROVE  /\ Suffix(c, k) \in Seq(Member) /\ Len(Suffix(c, k)) = Len(c) - k + 1
         /\ \A i \in 1 .. Len(c) - k + 1 : Suffix(c, k)[i] = c[k + i - 1]
  <1> DEFINE L == Len(c) - k + 1
  <1>1. Len(c) \in Nat /\ L \in Nat /\ \A i \in 1 .. L : k + i - 1 \in 1 .. Len(c)
    BY LenProperties
  <1>2. \A i \in 1 .. L : c[k + i - 1] \in Member
    BY <1>1, ElementOfSeq
  <1>3. Suffix(c, k) = [i \in 1 .. L |-> c[k + i - 1]]
    BY DEF Suffix
  <1> HIDE DEF L
  <1>4. Suffix(c, k) \in Seq(Member)
    BY <1>1, <1>2, <1>3, IsASeq
  <1>5. Len(Suffix(c, k)) = L
    BY <1>1, <1>3, <1>4, LenProperties
  <1> QED BY <1>3, <1>4, <1>5 DEF L

\* What is kept of a sequence is what is kept of a prefix and then of the rest.
LEMMA KeptRest ==
  ASSUME NEW q \in Seq(Member), NEW S, NEW k \in 0 .. Len(q)
  PROVE  \A n \in 0 .. Len(q) - k : Kept(q, S, k + n) = Kept(q, S, k) \o Kept(Suffix(q, k + 1), S, n)
  <1> DEFINE N == Len(q) - k
             d == Suffix(q, k + 1)
             K(i) == Kept(q, S, i)
             D(i) == Kept(d, S, i)
             Valid == {i \in 0 .. N : K(k + i) = K(k) \o D(i)}
  <1>1. Len(q) \in Nat /\ N \in Nat /\ k \in Nat /\ k + 1 \in 1 .. Len(q) + 1
    BY LenProperties
  <1>2. /\ d \in Seq(Member) /\ Len(d) = N /\ \A i \in 1 .. N : d[i] = q[k + i]
    <2>1. Len(q) - (k + 1) + 1 = N /\ \A i \in 1 .. N : (k + 1) + i - 1 = k + i
      BY <1>1
    <2>2. /\ d \in Seq(Member) /\ Len(d) = Len(q) - (k + 1) + 1
          /\ \A i \in 1 .. Len(q) - (k + 1) + 1 : d[i] = q[(k + 1) + i - 1]
      BY <1>1, SuffixProperties
    <2> HIDE DEF d, N
    <2> QED BY <2>1, <2>2
  <1>3. /\ \A i \in 1 .. Len(q) : K(i) = IF q[i] \in S THEN Append(K(i - 1), q[i]) ELSE K(i - 1)
        /\ \A i \in 0 .. Len(q) : K(i) \in Seq(Member)
    BY KeptBuilds
  <1> HIDE DEF d, N
  <1>4. /\ D(0) = <<>>
        /\ \A i \in 1 .. N : D(i) = IF d[i] \in S THEN Append(D(i - 1), d[i]) ELSE D(i - 1)
        /\ \A i \in 0 .. N : D(i) \in Seq(Member)
    <2>1. PICK e \in Seq(Member) : e = d /\ Len(e) = N
      BY <1>2
    <2>2. /\ Kept(e, S, 0) = <<>>
          /\ \A i \in 1 .. Len(e) : Kept(e, S, i) = IF e[i] \in S THEN Append(Kept(e, S, i - 1), e[i])
                                                     ELSE Kept(e, S, i - 1)
          /\ \A i \in 0 .. Len(e) : Kept(e, S, i) \in Seq(Member)
      BY KeptBuilds
    <2> QED BY <2>1, <2>2
  <1> HIDE DEF K, D
  <1>5. 0 \in Valid
    <2>1. K(k) \o D(0) = K(k) /\ k + 0 = k
      BY <1>1, <1>3, <1>4, ConcatEmptySeq
    <2> QED BY <1>1, <2>1
  <1>6. ASSUME NEW i \in 1 .. N, i - 1 \in Valid PROVE i \in Valid
    <2>1. /\ k + i \in 1 .. Len(q) /\ (k + i) - 1 = k + (i - 1) /\ i - 1 \in 0 .. N /\ i \in 0 .. N
          /\ K(k) \in Seq(Member) /\ D(i - 1) \in Seq(Member)
      <3>1. k + i \in 1 .. Len(q) /\ (k + i) - 1 = k + (i - 1) /\ i - 1 \in 0 .. N /\ i \in 0 .. N
        BY <1>1 DEF N
      <3> QED BY <1>3, <1>4, <3>1
    <2>2. K(k + i) = IF d[i] \in S THEN Append(K(k + (i - 1)), d[i]) ELSE K(k + (i - 1))
      BY <1>2, <1>3, <2>1
    <2>3. K(k + (i - 1)) = K(k) \o D(i - 1)
      BY <1>6
    <2>4. CASE d[i] \notin S
      <3>1. D(i) = D(i - 1)
        BY <1>4, <2>4
      <3> QED BY <2>1, <2>2, <2>3, <2>4, <3>1
    <2>5. CASE d[i] \in S
      <3>1. d[i] \in Member
        BY <1>2, ElementOfSeq
      <3>2. K(k) \o D(i - 1) \in Seq(Member) /\ <<d[i]>> \in Seq(Member)
        BY <2>1, <3>1, ConcatProperties
      <3>3. Append(K(k) \o D(i - 1), d[i]) = (K(k) \o D(i - 1)) \o <<d[i]>>
        BY <3>1, <3>2, AppendIsConcat
      <3>4. Append(D(i - 1), d[i]) = D(i - 1) \o <<d[i]>>
        BY <2>1, <3>1, AppendIsConcat
      <3>5. (K(k) \o D(i - 1)) \o <<d[i]>> = K(k) \o (D(i - 1) \o <<d[i]>>)
        <4>1. \A u, v, w \in Seq(Member) : (u \o v) \o w = u \o (v \o w)
          BY ConcatAssociative
        <4> QED BY <2>1, <3>2, <4>1
      <3>6. D(i) = Append(D(i - 1), d[i]) /\ K(k + i) = Append(K(k) \o D(i - 1), d[i])
        BY <1>4, <2>2, <2>3, <2>5
      <3> QED BY <2>1, <3>3, <3>4, <3>5, <3>6
    <2> QED BY <2>4, <2>5
  <1>7. 0 .. N \subseteq Valid
    <2>1. \A i \in 1 .. N : i - 1 \in Valid => i \in Valid
      BY <1>6
    <2> HIDE DEF Valid
    <2> QED BY <1>1, <1>5, <2>1, Lemmas!UpTo
  <1> QED BY <1>7 DEF K, D, N, d

LEMMA FlattenUnfolds ==
  ASSUME NEW S, NEW seqs \in Seq(Seq(S)), seqs # <<>>
  PROVE  \E f : /\ Seqs!FlattenSeq(seqs) = f[Len(seqs)]
               /\ \A n \in 1 .. Len(seqs) : f[n] = IF n = 1 THEN seqs[n] ELSE f[n - 1] \o seqs[n]
  <1>1. Seqs!FlattenSeq(seqs) = Lemmas!FlattenSeq(seqs)
    BY Zenon DEF Seqs!FlattenSeq, Lemmas!FlattenSeq
  <1> QED BY <1>1, Lemmas!FlattenUnfolds

\* The sequence of one element, or of none.
LEMMA SetToSeqOfFew ==
  /\ Seqs!SetToSeq({}) = <<>>
  /\ \A x : Seqs!SetToSeq({x}) = <<x>>
  <1>0. \A S : Seqs!Cardinality(S) = Cardinality(S)
    BY Zenon DEF Seqs!Cardinality, Cardinality
  <1>1. Seqs!SetToSeq({}) = <<>>
    <2>1. Seqs!SetToSeq({}) = CHOOSE f \in [1 .. 0 -> {}] : Seqs!IsInjective(f)
      BY <1>0, FS_EmptySet DEF Seqs!SetToSeq
    <2>2. <<>> \in [1 .. 0 -> {}] /\ \A f \in [1 .. 0 -> {}] : f = <<>>
      OBVIOUS
    <2>3. Seqs!IsInjective(<<>>)
      BY DEF Seqs!IsInjective
    <2> QED BY <2>1, <2>2, <2>3
  <1>2. ASSUME NEW x PROVE Seqs!SetToSeq({x}) = <<x>>
    <2>1. Seqs!SetToSeq({x}) = CHOOSE f \in [1 .. 1 -> {x}] : Seqs!IsInjective(f)
      BY <1>0, FS_Singleton DEF Seqs!SetToSeq
    <2>2. <<x>> \in [1 .. 1 -> {x}] /\ \A f \in [1 .. 1 -> {x}] : f = <<x>>
      OBVIOUS
    <2>3. Seqs!IsInjective(<<x>>)
      BY DEF Seqs!IsInjective
    <2> QED BY <2>1, <2>2, <2>3
  <1> QED BY <1>1, <1>2

\* The committed list, to which nothing outside it refers, and a last member that
\* does not cut it short.
Readable(r, last) ==
  /\ row \in Nodes /\ Spells(r, row, rowList)
  /\ \A m \in Member \ Members(r) : row[m].prev \notin Members(r)
  /\ last \in {Nil, At(r, Len(r))}

LEMMA ReadableType ==
  ASSUME NEW r, NEW last, Readable(r, last)
  PROVE  /\ r \in Seq(Member) /\ Len(r) \in Nat /\ DOMAIN r = 1 .. Len(r)
         /\ Cardinality(Member) \in Nat /\ Len(r) <= Cardinality(Member)
         /\ \A i, j \in 1 .. Len(r) : r[i] = r[j] => i = j
         /\ \A i \in 1 .. Len(r) : r[i] \in Member /\ r[i] # Nil /\ At(r, i) = r[i]
         /\ \A i \in Int : At(r, i) # Nil <=> i \in 1 .. Len(r)
         /\ \A i \in 1 .. Len(r) : row[r[i]].prev = At(r, i - 1) /\ row[r[i]].next = At(r, i + 1)
         /\ rowList.first = At(r, 1)
         /\ \A m \in Member : \A i \in 1 .. Len(r) : row[m].prev = r[i] <=> i + 1 \in 1 .. Len(r) /\ m = r[i + 1]
  <1>1. r \in Seq(Member) /\ \A i, j \in DOMAIN r : r[i] = r[j] => i = j
    BY DEF Readable, Spells
  <1>2. /\ Len(r) \in Nat /\ DOMAIN r = 1 .. Len(r)
        /\ \A i \in Int : At(r, i) # Nil <=> i \in 1 .. Len(r)
        /\ \A i \in 1 .. Len(r) : At(r, i) = r[i] /\ r[i] \in Member
    BY <1>1, AtProperties
  <1>3. \A m \in Member : m # Nil
    BY NilAssumption
  <1>4. \A i \in 1 .. Len(r) : row[r[i]].prev = At(r, i - 1) /\ row[r[i]].next = At(r, i + 1)
    BY <1>2 DEF Readable, Spells
  <1>5. ASSUME NEW m \in Member, NEW i \in 1 .. Len(r)
        PROVE  row[m].prev = r[i] <=> i + 1 \in 1 .. Len(r) /\ m = r[i + 1]
    <2>1. ASSUME row[m].prev = r[i] PROVE i + 1 \in 1 .. Len(r) /\ m = r[i + 1]
      <3>1. r[i] \in Members(r)
        BY <1>2 DEF Members
      <3>2. PICK j \in 1 .. Len(r) : m = r[j]
        BY <1>2, <2>1, <3>1 DEF Readable, Members
      <3>3. At(r, j - 1) = r[i] /\ r[i] # Nil
        BY <1>2, <1>3, <1>4, <2>1, <3>2
      <3>4. j - 1 \in Int /\ j - 1 \in 1 .. Len(r)
        BY <1>2, <3>3
      <3>5. r[j - 1] = r[i]
        BY <1>2, <3>3, <3>4
      <3>6. j - 1 = i
        BY <1>1, <1>2, <3>4, <3>5
      <3> QED BY <3>2, <3>6
    <2>2. ASSUME i + 1 \in 1 .. Len(r), m = r[i + 1] PROVE row[m].prev = r[i]
      <3>1. row[m].prev = At(r, (i + 1) - 1) /\ (i + 1) - 1 = i
        BY <1>4, <2>2
      <3> QED BY <1>2, <3>1
    <2> QED BY <2>1, <2>2
  <1>6. Cardinality(Member) \in Nat /\ Len(r) <= Cardinality(Member)
    BY <1>1, ListFits
  <1>7. rowList.first = At(r, 1)
    BY DEF Readable, Spells
  <1> QED BY <1>1, <1>2, <1>3, <1>4, <1>5, <1>6, <1>7

\* The levels of the recursive select are the members from the first on, one by one.
LEMMA ScanReadsList ==
  ASSUME NEW r, NEW last, Readable(r, last), NEW k \in 1 .. Len(r)
  PROVE  Scan(At(r, k), last) = Suffix(r, k)
  <1> DEFINE K == Cardinality(Member)
             N == Len(r)
             step(s) == {m \in Member : row[m].prev \in s \ {last}}
             one(i) == {At(r, k + i - 1)} \ {Nil}
  <1>1. /\ r \in Seq(Member) /\ N \in Nat /\ DOMAIN r = 1 .. N /\ k \in 1 .. N
        /\ K \in Nat /\ N <= K
        /\ \A i, j \in 1 .. N : r[i] = r[j] => i = j
        /\ \A i \in 1 .. N : r[i] \in Member /\ r[i] # Nil /\ At(r, i) = r[i]
        /\ \A i \in Int : At(r, i) # Nil <=> i \in 1 .. N
        /\ \A m \in Member : \A i \in 1 .. N : row[m].prev = r[i] <=> i + 1 \in 1 .. N /\ m = r[i + 1]
    BY ReadableType
  <1>2. last = Nil \/ last = At(r, N)
    BY DEF Readable
  <1> HIDE DEF K, N
  <1>3. ASSUME NEW i \in 2 .. K PROVE step(one(i - 1)) = one(i)
    <2>1. k + (i - 1) - 1 \in Int /\ k + i - 1 \in Int /\ k + i - 1 = (k + (i - 1) - 1) + 1 /\ k + (i - 1) - 1 >= 1
      BY <1>1
    <2> DEFINE p == k + (i - 1) - 1
    <2>2. CASE p \in 1 .. N /\ p # N
      <3>1. p + 1 \in 1 .. N /\ At(r, p) = r[p] /\ At(r, p + 1) = r[p + 1] /\ r[p] # Nil /\ r[p + 1] # Nil
        BY <1>1, <2>2
      <3>2. r[p] # last
        <4>1. N \in 1 .. N /\ At(r, N) = r[N]
          BY <1>1, <2>2
        <4>2. r[p] # r[N]
          BY <1>1, <2>2, <4>1
        <4> QED BY <1>2, <3>1, <4>1, <4>2
      <3>3. one(i - 1) = {r[p]} /\ one(i) = {r[p + 1]}
        BY <2>1, <3>1
      <3>4. \A m \in Member : row[m].prev = r[p] <=> m = r[p + 1]
        BY <1>1, <2>2, <3>1
      <3>5. r[p + 1] \in Member
        BY <1>1, <3>1
      <3> HIDE DEF p, one
      <3> QED BY <3>2, <3>3, <3>4, <3>5
    <2>3. CASE p = N
      <3>1. At(r, p) = r[p] /\ r[p] # Nil /\ p \in 1 .. N /\ p + 1 \notin 1 .. N /\ p + 1 \in Int
        BY <1>1, <2>1, <2>3
      <3>2. At(r, p + 1) = Nil
        BY <1>1, <3>1
      <3>3. one(i - 1) = {r[p]} /\ one(i) = {}
        BY <2>1, <3>1, <3>2
      <3>4. \A m \in Member : row[m].prev # r[p]
        BY <1>1, <3>1
      <3> HIDE DEF p, one
      <3> QED BY <3>3, <3>4
    <2>4. CASE p > N
      <3>1. p \in Int /\ p \notin 1 .. N /\ p + 1 \in Int /\ p + 1 \notin 1 .. N
        BY <1>1, <2>1, <2>4
      <3>2. At(r, p) = Nil /\ At(r, p + 1) = Nil
        BY <1>1, <3>1
      <3>3. one(i - 1) = {} /\ one(i) = {}
        BY <2>1, <3>2
      <3> HIDE DEF p, one
      <3> QED BY <3>3
    <2> QED BY <1>1, <2>1, <2>2, <2>3, <2>4
  <1>4. one(1) = {At(r, k)} \ {Nil}
    <2>1. k + 1 - 1 = k
      BY <1>1
    <2> QED BY <2>1
  <1> DEFINE next(f, i) == IF i = 1 THEN {At(r, k)} \ {Nil} ELSE step(f[i - 1])
             level == CHOOSE f : f = [i \in 1 .. K |-> next(f, i)]
  <1> HIDE DEF step, one
  <1>5. Scan(At(r, k), last) = Seqs!FlattenSeq([i \in 1 .. K |-> Seqs!SetToSeq(level[i])])
    BY DEF Scan, K, step
  <1>6. level = [i \in 1 .. K |-> next(level, i)]
    <2> DEFINE f == [i \in 1 .. K |-> one(i)]
    <2>1. \A i \in 1 .. K : one(i) = next(f, i)
      <3> TAKE i \in 1 .. K
      <3>1. CASE i = 1
        BY <1>4, <3>1
      <3>2. CASE i # 1
        <4>1. i - 1 \in 1 .. K /\ i \in 2 .. K
          BY <1>1, <3>2
        <4> QED BY <1>3, <3>2, <4>1
      <3> QED BY <3>1, <3>2
    <2>2. f = [i \in 1 .. K |-> one(i)]
      OBVIOUS
    <2> HIDE DEF f, next
    <2>3. f = [i \in 1 .. K |-> next(f, i)]
      BY <2>1, <2>2
    <2> QED BY <2>3
  <1> HIDE DEF level
  <1>7. \A i \in 1 .. K : level[i] = one(i)
    <2> DEFINE P == {i \in 0 .. K : i # 0 => level[i] = one(i)}
    <2>1. \A i \in 1 .. K : level[i] = next(level, i)
      BY <1>6
    <2>2. 0 \in P
      BY <1>1
    <2>3. ASSUME NEW i \in 1 .. K, i - 1 \in P PROVE i \in P
      <3>1. i \in 0 .. K /\ level[i] = next(level, i)
        <4>1. i \in 0 .. K
          BY <1>1
        <4>2. level[i] = next(level, i)
          BY <2>1, Zenon
        <4> QED BY <4>1, <4>2
      <3>2. CASE i = 1
        BY <1>4, <3>1, <3>2
      <3>3. CASE i # 1
        <4>1. i \in 2 .. K /\ level[i - 1] = one(i - 1)
          BY <1>1, <2>3, <3>3
        <4> QED BY <1>3, <3>1, <3>3, <4>1
      <3> QED BY <3>2, <3>3
    <2>4. \A i \in 1 .. K : i - 1 \in P => i \in P
      BY <2>3
    <2> HIDE DEF P, next
    <2>5. 0 .. K \subseteq P
      BY <1>1, <2>2, <2>4, Lemmas!UpTo
    <2> QED BY <1>1, <2>5 DEF P
  <1> DEFINE seqs == [i \in 1 .. K |-> Seqs!SetToSeq(level[i])]
  <1>8. \A i \in 1 .. K : seqs[i] = IF k + i - 1 <= N THEN <<r[k + i - 1]>> ELSE <<>>
    <2> TAKE i \in 1 .. K
    <2>1. seqs[i] = Seqs!SetToSeq(one(i)) /\ k + i - 1 \in Int /\ k + i - 1 >= 1
      BY <1>1, <1>7
    <2>2. CASE k + i - 1 <= N
      <3>1. k + i - 1 \in 1 .. N
        BY <1>1, <2>1, <2>2
      <3>2. one(i) = {r[k + i - 1]}
        BY <1>1, <3>1 DEF one
      <3> HIDE DEF seqs
      <3> QED BY <2>1, <2>2, <3>2, SetToSeqOfFew
    <2>3. CASE ~(k + i - 1 <= N)
      <3>1. k + i - 1 \notin 1 .. N
        BY <1>1, <2>1, <2>3
      <3>2. one(i) = {}
        BY <1>1, <2>1, <3>1 DEF one
      <3> HIDE DEF seqs
      <3> QED BY <2>1, <2>3, <3>2, SetToSeqOfFew
    <2> QED BY <2>2, <2>3
  <1> DEFINE d == Suffix(r, k)
             L == N - k + 1
  <1>9. L \in Nat /\ L >= 1 /\ L <= K /\ d \in Seq(Member) /\ Len(d) = L /\ \A i \in 1 .. L : d[i] = r[k + i - 1]
    <2>1. k \in 1 .. Len(r) + 1
      BY <1>1 DEF N
    <2> QED BY <1>1, <2>1, SuffixProperties DEF N
  <1> HIDE DEF d
  <1>10. seqs \in Seq(Seq(Member)) /\ Len(seqs) = K /\ seqs # <<>>
    <2>1. \A i \in 1 .. K : seqs[i] \in Seq(Member)
      <3> TAKE i \in 1 .. K
      <3>1. CASE k + i - 1 <= N
        <4>1. k + i - 1 \in 1 .. N
          BY <1>1, <3>1
        <4>2. r[k + i - 1] \in Member
          BY <1>1, <4>1
        <4>3. seqs[i] = <<r[k + i - 1]>>
          BY <1>8, <3>1
        <4> HIDE DEF seqs
        <4> QED BY <4>2, <4>3
      <3>2. CASE ~(k + i - 1 <= N)
        <4>1. seqs[i] = <<>>
          BY <1>8, <3>2
        <4> HIDE DEF seqs
        <4> QED BY <4>1, EmptySeq
      <3> QED BY <3>1, <3>2
    <2>2. seqs = [i \in 1 .. K |-> seqs[i]]
      OBVIOUS
    <2> HIDE DEF seqs
    <2>3. seqs \in Seq(Seq(Member))
      BY <1>1, <2>1, <2>2, IsASeq
    <2>4. Len(seqs) = K
      BY <1>1, <2>2, <2>3, LenProperties
    <2> QED BY <1>1, <2>3, <2>4, EmptySeq
  <1> HIDE DEF seqs
  <1>11. PICK f : /\ Seqs!FlattenSeq(seqs) = f[K]
                  /\ \A n \in 1 .. K : f[n] = IF n = 1 THEN seqs[n] ELSE f[n - 1] \o seqs[n]
    BY <1>10, FlattenUnfolds
  <1> DEFINE min(i) == IF i < L THEN i ELSE L
             P == {i \in 0 .. K : i # 0 => f[i] = SubSeq(d, 1, min(i))}
  <1>12. 0 \in P
    BY <1>1
  <1>13. ASSUME NEW i \in 1 .. K, i - 1 \in P PROVE i \in P
    <2>1. i \in 0 .. K /\ f[i] = IF i = 1 THEN seqs[i] ELSE f[i - 1] \o seqs[i]
      BY <1>1, <1>11
    <2>2. i <= L => seqs[i] = <<d[i]>> /\ i \in 1 .. L /\ d[i] \in Member
      <3> SUFFICES ASSUME i <= L PROVE seqs[i] = <<d[i]>> /\ i \in 1 .. L /\ d[i] \in Member
        OBVIOUS
      <3>1. i \in 1 .. L /\ k + i - 1 <= N
        BY <1>1
      <3> QED BY <1>8, <1>9, <3>1, ElementOfSeq
    <2>3. CASE i = 1
      <3>1. f[1] = <<d[1]>> /\ min(1) = 1 /\ 1 \in 1 .. L
        BY <1>9, <2>1, <2>2, <2>3
      <3>2. SubSeq(d, 1, 1) = SubSeq(d, 1, 0) \o <<d[1]>> /\ SubSeq(d, 1, 0) = <<>>
        BY <1>9, <3>1, SubSeqRecursiveSecond, SubSeqEmpty
      <3>3. d[1] \in Member
        BY <2>2, <2>3, <3>1, <1>9
      <3>4. <<d[1]>> \in Seq(Member)
        BY <3>3
      <3>5. <<>> \o <<d[1]>> = <<d[1]>>
        BY <3>4, ConcatEmptySeq
      <3> HIDE DEF min
      <3> QED BY <2>1, <2>3, <3>1, <3>2, <3>5
    <2>4. CASE i # 1
      <3>1. f[i] = SubSeq(d, 1, min(i - 1)) \o seqs[i]
        <4>1. i - 1 # 0
          BY <1>1, <2>4
        <4>2. f[i - 1] = SubSeq(d, 1, min(i - 1))
          BY <1>13, <4>1
        <4> HIDE DEF min
        <4> QED BY <2>1, <2>4, <4>2
      <3>2. CASE i <= L
        <4>1. i \in 1 .. L /\ min(i - 1) = i - 1 /\ min(i) = i /\ seqs[i] = <<d[i]>>
          BY <1>9, <2>2, <3>2
        <4>2. SubSeq(d, 1, i) = SubSeq(d, 1, i - 1) \o <<d[i]>>
          <5>1. 1 \in 1 .. Len(d) /\ i \in 1 .. Len(d)
            BY <1>9, <4>1
          <5> QED BY <1>9, <5>1, SubSeqRecursiveSecond
        <4> HIDE DEF min
        <4> QED BY <2>1, <3>1, <4>1, <4>2
      <3>3. CASE i > L
        <4>1. min(i - 1) = L /\ min(i) = L /\ ~(k + i - 1 <= N)
          BY <1>1, <1>9, <3>3
        <4>2. seqs[i] = <<>>
          BY <1>8, <4>1, Zenon
        <4>3. SubSeq(d, 1, L) = d /\ d \o <<>> = d
          BY <1>9, SubSeqFull, ConcatEmptySeq
        <4> HIDE DEF min, L
        <4> QED BY <2>1, <3>1, <4>1, <4>2, <4>3
      <3> QED BY <1>9, <3>2, <3>3
    <2> QED BY <2>3, <2>4
  <1>14. \A i \in 1 .. K : i - 1 \in P => i \in P
    BY <1>13
  <1>15. K \in P
    <2> HIDE DEF P
    <2>1. 0 .. K \subseteq P
      BY <1>1, <1>12, <1>14, Lemmas!UpTo
    <2> QED BY <1>1, <2>1
  <1>16. f[K] = d
    <2>1. min(K) = L /\ K # 0
      <3>1. K \in Nat /\ L \in Nat /\ L >= 1 /\ L <= K
        BY <1>1, <1>9
      <3> HIDE DEF L
      <3> QED BY <3>1
    <2>2. f[K] = SubSeq(d, 1, L)
      BY <1>15, <2>1
    <2> QED BY <1>9, <2>2, SubSeqFull
  <1> QED BY <1>5, <1>11, <1>16 DEF seqs, d

\* What a reader gets who asks for the page that starts with first, if any.
PageFrom(first, last, S, max) ==
  IF first = Nil THEN [page |-> <<>>, next |-> Nil] ELSE Query(first, last, S, max)

\* A page goes on where the one before ended, and says where it ends itself.
GoesOn(r, S, k, p) ==
  \E j \in k .. Len(r) :
    /\ k < Len(r) => k < j
    /\ p.next = At(r, j + 1) /\ p.page \in Seq(Member)
    /\ Kept(r, S, j) = Kept(r, S, k) \o p.page

LEMMA PageReads ==
  ASSUME NEW r, NEW last, Readable(r, last), NEW S, NEW max \in Nat \ {0},
         NEW k \in 0 .. Len(r), k < Len(r)
  PROVE  GoesOn(r, S, k, Query(At(r, k + 1), last, S, max))
  <1> DEFINE N == Len(r)
             d == Suffix(r, k + 1)
             H == Matching(d, S)
             n == IF Len(H) < max THEN Len(H) ELSE max
             page == AtMost(H, max)
             Q == Query(At(r, k + 1), last, S, max)
  <1>1. /\ r \in Seq(Member) /\ N \in Nat /\ DOMAIN r = 1 .. N
        /\ \A i, j \in 1 .. N : r[i] = r[j] => i = j
        /\ \A i \in 1 .. N : r[i] \in Member /\ r[i] # Nil /\ At(r, i) = r[i]
        /\ \A i \in Int : At(r, i) # Nil <=> i \in 1 .. N
        /\ \A i \in 1 .. N : row[r[i]].next = At(r, i + 1)
    BY ReadableType
  <1>2. last = Nil \/ last = At(r, N)
    BY DEF Readable
  <1>3. k \in 0 .. N /\ k + 1 \in 1 .. N /\ k + 1 \in 1 .. Len(r) + 1 /\ N - k \in 0 .. N - k /\ N - k \in Nat
    BY <1>1
  <1>4. /\ d \in Seq(Member) /\ Len(d) = N - k
        /\ \A i \in 1 .. N - k : d[i] = r[k + i]
    <2>1. /\ d \in Seq(Member) /\ Len(d) = Len(r) - (k + 1) + 1
          /\ \A i \in 1 .. Len(r) - (k + 1) + 1 : d[i] = r[(k + 1) + i - 1]
      BY <1>1, <1>3, SuffixProperties
    <2>2. Len(r) - (k + 1) + 1 = N - k /\ \A i \in 1 .. N - k : (k + 1) + i - 1 = k + i
      BY <1>1, <1>3
    <2> HIDE DEF d, N
    <2> QED BY <2>1, <2>2
  <1>5. Scan(At(r, k + 1), last) = d
    BY <1>3, ScanReadsList
  <1> HIDE DEF d
  <1>6. Q = [page |-> page, next |-> LoadQueryResult(page, last)]
    BY <1>5, Zenon DEF Query
  <1>7. H = Kept(d, S, N - k) /\ H \in Seq(Member) /\ Len(H) \in Nat
    <2>1. H = Kept(d, S, Len(d)) /\ Len(d) \in 0 .. Len(d)
      BY <1>3, <1>4, KeptBuilds
    <2>2. H \in Seq(Member)
      BY <1>4, <2>1, KeptBuilds
    <2> HIDE DEF H
    <2> QED BY <1>4, <2>1, <2>2, LenProperties
  <1>8. \A i \in 0 .. N - k : Kept(r, S, k + i) = Kept(r, S, k) \o Kept(d, S, i)
    <2>1. r \in Seq(Member)
      BY <1>1
    <2>2. \A i \in 0 .. Len(r) - k : Kept(r, S, k + i) = Kept(r, S, k) \o Kept(Suffix(r, k + 1), S, i)
      BY <2>1, KeptRest, Zenon
    <2> QED BY <2>2 DEF d, N
  <1>9. page = SubSeq(H, 1, n)
    BY DEF AtMost
  <1> HIDE DEF Q, H, page, N
  <1>10. CASE Len(H) = 0
    <2>1. H = <<>> /\ n = 0
      BY <1>7, <1>10, EmptySeq
    <2>2. page = <<>>
      BY <1>9, <2>1, SubSeqEmpty
    <2>3. Q.next = Nil /\ Q.page = <<>>
      BY <1>6, <2>2 DEF LoadQueryResult
    <2>4. Kept(r, S, N) = Kept(r, S, k) \o <<>>
      <3>1. Kept(r, S, k + (N - k)) = Kept(r, S, k) \o Kept(d, S, N - k)
        BY <1>3, <1>8
      <3>2. Kept(d, S, N - k) = <<>>
        BY <1>7, <2>1
      <3>3. k + (N - k) = N
        BY <1>1, <1>3
      <3> QED BY <3>1, <3>2, <3>3
    <2>5. N \in k + 1 .. N /\ At(r, N + 1) = Nil
      BY <1>1, <1>3
    <2>6. <<>> \in Seq(Member)
      BY EmptySeq
    <2>7. N \in k .. N /\ k < N
      BY <1>1, <1>3
    <2> QED BY <2>3, <2>4, <2>5, <2>6, <2>7 DEF Q, N, GoesOn
  <1>11. CASE Len(H) # 0
    <2>1. n \in 1 .. Len(H) /\ n # 0
      BY <1>7, <1>11
    <2> HIDE DEF n
    <2>2. PICK i \in 1 .. N - k : /\ SubSeq(H, 1, n) = Kept(d, S, i)
                                  /\ Len(Kept(d, S, i)) = n /\ Kept(d, S, i)[n] = d[i]
      <3>1. N - k \in 0 .. Len(d) /\ n \in 1 .. Len(Kept(d, S, N - k))
        <4>1. N - k \in 0 .. Len(d)
          BY <1>3, <1>4
        <4>2. Len(Kept(d, S, N - k)) = Len(H)
          BY <1>7
        <4> QED BY <2>1, <4>1, <4>2
      <3>2. PICK q \in Seq(Member) : q = d
        BY <1>4
      <3>6. PICK h \in 0 .. Len(q) : h = N - k
        BY <3>1, <3>2
      <3>3. n \in 1 .. Len(Kept(q, S, h))
        BY <3>1, <3>2, <3>6
      <3>4. EndsWith(q, S, h, n)
        BY <3>3, KeptPrefix
      <3>5. \E i \in 1 .. N - k : /\ SubSeq(Kept(d, S, N - k), 1, n) = Kept(d, S, i)
                                  /\ Len(Kept(d, S, i)) = n /\ Kept(d, S, i)[n] = d[i]
        BY <3>2, <3>4, <3>6 DEF EndsWith
      <3> QED BY <1>7, <3>5
    <2> DEFINE j == k + i
    <2>3. j \in k + 1 .. N /\ j \in 1 .. N /\ i \in 0 .. N - k
      BY <1>1, <1>3
    <2>4. page = Kept(d, S, i) /\ page \in Seq(Member) /\ page # <<>> /\ page[Len(page)] = r[j]
      <3>1. page = Kept(d, S, i) /\ Len(page) = n /\ page[n] = r[j]
        BY <1>4, <1>9, <2>2
      <3>2. page \in Seq(Member)
        BY <1>4, <2>3, <3>1, KeptBuilds
      <3> QED BY <2>1, <3>1, <3>2, EmptySeq
    <2>5. Kept(r, S, j) = Kept(r, S, k) \o page
      BY <1>8, <2>3, <2>4
    <2>6. Q.page = page /\ Q.next = IF r[j] = last THEN Nil ELSE row[r[j]].next
      BY <1>6, <2>4 DEF LoadQueryResult
    <2>7. Q.next = At(r, j + 1)
      <3>1. CASE r[j] = last
        <4>1. N \in 1 .. N /\ At(r, N) = r[N] /\ N + 1 \in Int /\ N + 1 \notin 1 .. N
          BY <1>1, <1>3
        <4>2. r[j] = r[N]
          BY <1>1, <1>2, <2>3, <3>1, <4>1
        <4>3. j = N
          BY <1>1, <2>3, <4>1, <4>2
        <4>4. At(r, N + 1) = Nil
          BY <1>1, <4>1
        <4> QED BY <2>6, <3>1, <4>3, <4>4
      <3>2. CASE r[j] # last
        BY <1>1, <2>3, <2>6, <3>2
      <3> QED BY <3>1, <3>2
    <2>8. j \in k .. N /\ k < j
      BY <1>3, <2>3
    <2> HIDE DEF j
    <2> QED BY <2>4, <2>5, <2>6, <2>7, <2>8 DEF Q, N, GoesOn
  <1> QED BY <1>10, <1>11

LEMMA PageFromReads ==
  ASSUME NEW r, NEW last, Readable(r, last), NEW S, NEW max \in Nat \ {0}, NEW k \in 0 .. Len(r)
  PROVE  GoesOn(r, S, k, PageFrom(At(r, k + 1), last, S, max))
  <1> DEFINE p == PageFrom(At(r, k + 1), last, S, max)
  <1>1. /\ r \in Seq(Member) /\ Len(r) \in Nat
        /\ \A i \in Int : At(r, i) # Nil <=> i \in 1 .. Len(r)
    BY ReadableType
  <1>2. CASE k = Len(r)
    <2>1. k + 1 \in Int /\ k + 1 \notin 1 .. Len(r)
      BY <1>1, <1>2
    <2>2. At(r, k + 1) = Nil
      BY <1>1, <2>1
    <2>3. p = [page |-> <<>>, next |-> Nil]
      BY <2>2 DEF PageFrom
    <2>4. p.page = <<>> /\ p.next = Nil /\ <<>> \in Seq(Member)
      BY <2>3, EmptySeq
    <2>5. Kept(r, S, k) = Kept(r, S, k) \o <<>>
      BY <1>1, KeptBuilds, ConcatEmptySeq
    <2>6. k \in k .. Len(r) /\ ~(k < Len(r))
      BY <1>1, <1>2
    <2> HIDE DEF p
    <2> QED BY <2>2, <2>4, <2>5, <2>6 DEF p, GoesOn
  <1>3. CASE k # Len(r)
    <2>1. k < Len(r) /\ k + 1 \in Int /\ k + 1 \in 1 .. Len(r)
      BY <1>1, <1>3
    <2>2. p = Query(At(r, k + 1), last, S, max)
      BY <1>1, <2>1 DEF PageFrom
    <2>3. GoesOn(r, S, k, Query(At(r, k + 1), last, S, max))
      BY <2>1, PageReads
    <2> QED BY <2>2, <2>3
  <1> QED BY <1>2, <1>3

\* The pages one after the other, from the first member to the last.
LEMMA PagesRead ==
  ASSUME NEW r, NEW last, Readable(r, last), NEW S, NEW max \in Nat \ {0}
  PROVE  Pages(last, S, max) = Matching(r, S)
  <1> DEFINE N == Len(r)
             K == Cardinality(Member) + 1
             from(x) == PageFrom(x, last, S, max)
             first(f, i) == IF i = 1 THEN rowList.first ELSE f[i - 1].next
             at == CHOOSE f : f = [i \in 1 .. K |-> from(first(f, i))]
             Starts(p) == \E k \in 0 .. N : p.next = At(r, k + 1)
  <1>1. r \in Seq(Member) /\ N \in Nat /\ K \in Nat /\ K >= 1 /\ N < K /\ rowList.first = At(r, 0 + 1)
    BY ReadableType
  <1>2. Pages(last, S, max) = Seqs!FlattenSeq([i \in DOMAIN at |-> at[i].page])
    BY Zenon DEF Pages, PageFrom, K, at, first, from
  <1>3. \A k \in 0 .. N : GoesOn(r, S, k, from(At(r, k + 1)))
    <2> TAKE k \in 0 .. N
    <2> QED BY PageFromReads
  <1> HIDE DEF K, N, from
  <1>4. \A k \in 0 .. N : from(At(r, k + 1)).page \in Seq(Member) /\ Starts(from(At(r, k + 1)))
    <2> TAKE k \in 0 .. N
    <2>1. PICK j \in k .. N : /\ from(At(r, k + 1)).next = At(r, j + 1)
                              /\ from(At(r, k + 1)).page \in Seq(Member)
      BY <1>3 DEF GoesOn, N
    <2>2. j \in 0 .. N
      BY <1>1
    <2> QED BY <2>1, <2>2
  <1>5. at = [i \in 1 .. K |-> from(first(at, i))]
    <2> DEFINE start == [page |-> <<>>, next |-> At(r, 0 + 1)]
               X == {from(At(r, k + 1)) : k \in 0 .. N} \cup {start}
               g == [i \in 1 .. K |-> [x \in X |-> from(x.next)]]
    <2>1. start \in X /\ start.next = At(r, 0 + 1) /\ Starts(start)
      BY <1>1
    <2> HIDE DEF start
    <2>2. \A x \in X : from(x.next) \in X
      <3> TAKE x \in X
      <3>1. Starts(x)
        BY <1>4, <2>1
      <3> QED BY <3>1
    <2> HIDE DEF X
    <2>3. g \in [1 .. K -> [X -> X]]
      BY <2>2
    <2>4. \A i \in 1 .. K : \A x \in X : g[i][x] = from(x.next)
      OBVIOUS
    <2> HIDE DEF g
    <2>5. PICK h \in [0 .. K -> X] : h[0] = start /\ \A i \in 1 .. K : h[i] = g[i][h[i - 1]]
      <3>1. K \in Nat /\ start \in X
        BY <1>1, <2>1
      <3> QED BY <2>3, <3>1, Lemmas!Recursion
    <2> DEFINE f == [i \in 1 .. K |-> h[i]]
    <2>6. \A i \in 1 .. K : h[i] = from(first(f, i))
      <3> TAKE i \in 1 .. K
      <3>1. i - 1 \in 0 .. K /\ h[i] = g[i][h[i - 1]]
        BY <1>1, <2>5
      <3>2. h[i] = from(h[i - 1].next)
        BY <2>4, <2>5, <3>1
      <3>3. CASE i = 1
        BY <1>1, <2>1, <2>5, <3>2, <3>3
      <3>4. CASE i # 1
        <4>1. i - 1 \in 1 .. K
          BY <1>1, <3>4
        <4>2. f[i - 1] = h[i - 1]
          BY <4>1
        <4> QED BY <3>2, <3>4, <4>2
      <3> QED BY <3>3, <3>4
    <2>7. f = [i \in 1 .. K |-> h[i]]
      OBVIOUS
    <2> HIDE DEF f, first
    <2>8. f = [i \in 1 .. K |-> from(first(f, i))]
      BY <2>6, <2>7
    <2> QED BY <2>8
  <1> HIDE DEF at
  <1>6. DOMAIN at = 1 .. K /\ \A i \in 1 .. K : at[i] = from(first(at, i))
    <2>1. DOMAIN at = 1 .. K
      BY <1>5, Zenon
    <2>2. \A i \in 1 .. K : at[i] = from(first(at, i))
      BY <1>5, Zenon
    <2> QED BY <2>1, <2>2
  <1>7. \A i \in 1 .. K : at[i].page \in Seq(Member) /\ Starts(at[i])
    <2> DEFINE P == {i \in 0 .. K : i # 0 => at[i].page \in Seq(Member) /\ Starts(at[i])}
    <2>1. 0 \in P
      BY <1>1
    <2>2. ASSUME NEW i \in 1 .. K, i - 1 \in P PROVE i \in P
      <3>1. PICK k \in 0 .. N : first(at, i) = At(r, k + 1)
        <4>1. CASE i = 1
          <5>1. first(at, i) = At(r, 0 + 1) /\ 0 \in 0 .. N
            BY <1>1, <4>1
          <5> HIDE DEF first
          <5> QED BY <5>1
        <4>2. CASE i # 1
          <5>1. Starts(at[i - 1])
            BY <1>1, <2>2, <4>2
          <5> QED BY <4>2, <5>1
        <4> QED BY <4>1, <4>2
      <3>2. at[i] = from(At(r, k + 1)) /\ i \in 0 .. K
        <4>1. at[i] = from(first(at, i))
          BY <1>6, Zenon
        <4>2. i \in 0 .. K
          BY <1>1
        <4> HIDE DEF first
        <4> QED BY <3>1, <4>1, <4>2
      <3> QED BY <1>4, <3>2
    <2>3. \A i \in 1 .. K : i - 1 \in P => i \in P
      BY <2>2
    <2> HIDE DEF P
    <2>4. 0 .. K \subseteq P
      BY <1>1, <2>1, <2>3, Lemmas!UpTo
    <2>5. \A i \in 1 .. K : i \in 0 .. K /\ i # 0
      BY <1>1
    <2> HIDE DEF Starts
    <2> QED BY <2>4, <2>5 DEF P
  <1> DEFINE seqs == [i \in 1 .. K |-> at[i].page]
  <1>8. /\ seqs \in Seq(Seq(Member)) /\ Len(seqs) = K /\ seqs # <<>>
        /\ \A i \in 1 .. K : seqs[i] = at[i].page
    <2>2. DOMAIN seqs = 1 .. K /\ \A i \in 1 .. K : seqs[i] = at[i].page
      OBVIOUS
    <2>4. seqs = [i \in 1 .. K |-> seqs[i]]
      OBVIOUS
    <2> HIDE DEF seqs
    <2>1. seqs \in Seq(Seq(Member))
      <3>1. \A i \in 1 .. K : seqs[i] \in Seq(Member)
        BY <1>7, <2>2
      <3>2. PICK T : T = Seq(Member)
        OBVIOUS
      <3>3. K \in Nat /\ \A i \in 1 .. K : seqs[i] \in T
        BY <1>1, <3>1, <3>2
      <3>4. seqs \in Seq(T)
        BY <2>4, <3>3, IsASeq
      <3> QED BY <3>2, <3>4
    <2>3. Len(seqs) = K
      BY <1>1, <2>1, <2>2, LenProperties
    <2> QED BY <1>1, <2>1, <2>2, <2>3, EmptySeq
  <1>9. Pages(last, S, max) = Seqs!FlattenSeq(seqs)
    BY <1>2, <1>6
  <1> HIDE DEF seqs
  <1>10. PICK f : /\ Seqs!FlattenSeq(seqs) = f[K]
                  /\ \A n \in 1 .. K : f[n] = IF n = 1 THEN seqs[n] ELSE f[n - 1] \o seqs[n]
    <2>1. \E f : /\ Seqs!FlattenSeq(seqs) = f[Len(seqs)]
                /\ \A n \in 1 .. Len(seqs) : f[n] = IF n = 1 THEN seqs[n] ELSE f[n - 1] \o seqs[n]
      <3>1. seqs \in Seq(Seq(Member)) /\ seqs # <<>>
        BY <1>8
      <3> QED BY <3>1, FlattenUnfolds
    <2> QED BY <1>8, <2>1
  <1> DEFINE Reached(i) == \E k \in 0 .. N : /\ i <= k \/ k = N
                                             /\ at[i].next = At(r, k + 1) /\ f[i] = Kept(r, S, k)
             P == {i \in 0 .. K : i # 0 => Reached(i)}
  <1>11. 0 \in P
    BY <1>1
  <1>12. ASSUME NEW i \in 1 .. K, i - 1 \in P PROVE i \in P
    <2>1. i \in Nat /\ i \in 0 .. K /\ f[i] = IF i = 1 THEN at[i].page ELSE f[i - 1] \o at[i].page
      BY <1>1, <1>8, <1>10
    <2>2. at[i] = from(first(at, i))
      BY <1>6, Zenon
    <2>3. PICK k \in 0 .. N : /\ i <= k + 1 \/ k = N
                              /\ first(at, i) = At(r, k + 1) /\ f[i] = Kept(r, S, k) \o at[i].page
      <3>1. CASE i = 1
        <4>1. Kept(r, S, 0) = <<>> /\ at[i].page \in Seq(Member)
          BY <1>1, <1>7, KeptBuilds
        <4>2. f[i] = Kept(r, S, 0) \o at[i].page
          BY <2>1, <3>1, <4>1, ConcatEmptySeq
        <4>3. first(at, i) = At(r, 0 + 1) /\ 0 \in 0 .. N /\ i <= 0 + 1
          BY <1>1, <3>1
        <4> HIDE DEF first
        <4> QED BY <4>2, <4>3
      <3>2. CASE i # 1
        <4>1. Reached(i - 1)
          BY <1>1, <1>12, <3>2
        <4>2. PICK k \in 0 .. N : /\ i - 1 <= k \/ k = N
                                  /\ at[i - 1].next = At(r, k + 1) /\ f[i - 1] = Kept(r, S, k)
          BY <4>1
        <4>3. first(at, i) = At(r, k + 1) /\ f[i] = Kept(r, S, k) \o at[i].page
          BY <2>1, <3>2, <4>2
        <4>4. i <= k + 1 \/ k = N
          BY <1>1, <4>2
        <4> QED BY <4>3, <4>4
      <3> QED BY <3>1, <3>2
    <2>4. GoesOn(r, S, k, at[i])
      <3> HIDE DEF first
      <3> QED BY <1>3, <2>2, <2>3
    <2>5. PICK j \in k .. N : /\ k < N => k < j
                              /\ at[i].next = At(r, j + 1)
                              /\ Kept(r, S, j) = Kept(r, S, k) \o at[i].page
      BY <2>4 DEF GoesOn, N
    <2>6. j \in 0 .. N /\ (i <= j \/ j = N)
      BY <1>1, <2>1, <2>3, <2>5
    <2>7. f[i] = Kept(r, S, j)
      BY <2>3, <2>5
    <2> QED BY <2>1, <2>5, <2>6, <2>7
  <1>13. \A i \in 1 .. K : i - 1 \in P => i \in P
    BY <1>12
  <1>14. Reached(K)
    <2>1. 0 .. K \subseteq P
      <3> HIDE DEF P
      <3> QED BY <1>1, <1>11, <1>13, Lemmas!UpTo
    <2> QED BY <1>1, <2>1
  <1>15. f[K] = Kept(r, S, N)
    <2>1. PICK k \in 0 .. N : (K <= k \/ k = N) /\ f[K] = Kept(r, S, k)
      BY <1>14
    <2>2. k = N
      BY <1>1, <2>1
    <2> QED BY <2>1, <2>2
  <1>16. Matching(r, S) = Kept(r, S, N)
    BY <1>1, KeptBuilds DEF N
  <1> QED BY <1>9, <1>10, <1>15, <1>16

\* Whatever the size of the pages and the condition, a reader who asks for one page
\* after the other meets every committed member that satisfies the condition once
\* and in order (pgsql_storage::query and load_query_result).
THEOREM PagesMeetEveryMember == Spec => []QueryMeetsEveryMember
  <1>1. IndexInv => QueryMeetsEveryMember
    <2> SUFFICES ASSUME IndexInv PROVE QueryMeetsEveryMember
      OBVIOUS
    <2> DEFINE members == Linked(row, rowList.first)
    <2> SUFFICES ASSUME stray = {}, \A m \in Member \ members : row[m].prev \notin members,
                        NEW match \in SUBSET Member, NEW max \in 1 .. 2,
                        NEW last \in {Nil, rowList.last}
                 PROVE  Pages(last, match, max) = Matching(Chain(row, rowList.first), match)
      BY DEF QueryMeetsEveryMember
    <2>1. PICK c, r : ListInv(c, r)
      BY DEF IndexInv, Good
    <2>2. Chain(row, rowList.first) = r /\ Members(r) = members /\ row \in Nodes /\ Spells(r, row, rowList)
      BY <2>1, ChainSpells DEF ListInv
    <2>3. Readable(r, last)
      BY <2>2 DEF Readable, Spells
    <2>4. max \in Nat \ {0}
      OBVIOUS
    <2> HIDE DEF members
    <2> QED BY <2>2, <2>3, <2>4, PagesRead
  <1> QED BY <1>1, IndexInvariant, PTL
=============================================================================
