---------------------------- MODULE WarehouseProofs ----------------------------
(***************************************************************************)
(* Proofs about Warehouse, for any packages, definitions, custom fields    *)
(* and numbers of receipts and items, over any number of runs, each of     *)
(* which may be cut short.                                                 *)
(***************************************************************************)
EXTENDS Warehouse, SeqLemmas

-----------------------------------------------------------------------------
(* What is written at once                                                 *)

Kinds == {"put", "del", "number", "date"}

\* Records with the fields that now has.
IsNow(a) == a = [global |-> a.global, number |-> a.number, date |-> a.date]

\* The first n writes w lead from now to a.
Led(w, n, a) ==
  /\ IsNow(a)
  /\ \A e : e \in a.number <=> e \in now.number /\ \A i \in 1 .. n : ~(w[i][1] = "number" /\ w[i][2] = e)
  /\ \A e : e \in a.date <=> e \in now.date /\ \A i \in 1 .. n : ~(w[i][1] = "date" /\ w[i][2] = e)
  /\ \A k \in DOMAIN a.global :
       \/ \E i \in 1 .. n : w[i][1] = "put" /\ w[i][2] = k /\ w[i][3] = a.global[k]
       \/ /\ k \in DOMAIN now.global /\ a.global[k] = now.global[k]
          /\ \A i \in 1 .. n : ~(w[i][1] = "del" /\ w[i][2] = k /\ w[i][3] = a.global[k])

LEMMA ApplyLeads ==
  ASSUME NEW w, NEW n \in Nat \ {0}, NEW a, Led(w, n - 1, a), w[n][1] \in Kinds
  PROVE  Led(w, n, Apply(a, w[n]))
  <1> DEFINE b == Apply(a, w[n])
             x == w[n]
  <1>1. /\ \A i \in 1 .. n : i \in 1 .. n - 1 \/ i = n
        /\ 1 .. n - 1 \subseteq 1 .. n /\ n \in 1 .. n
    OBVIOUS
  <1>2. a = [global |-> a.global, number |-> a.number, date |-> a.date]
    BY DEF Led, IsNow
  <1>n. \A e : e \in a.number <=> e \in now.number /\ \A i \in 1 .. n - 1 : ~(w[i][1] = "number" /\ w[i][2] = e)
    BY DEF Led
  <1>d. \A e : e \in a.date <=> e \in now.date /\ \A i \in 1 .. n - 1 : ~(w[i][1] = "date" /\ w[i][2] = e)
    BY DEF Led
  <1>g. \A k \in DOMAIN a.global :
          \/ \E i \in 1 .. n - 1 : w[i][1] = "put" /\ w[i][2] = k /\ w[i][3] = a.global[k]
          \/ /\ k \in DOMAIN now.global /\ a.global[k] = now.global[k]
             /\ \A i \in 1 .. n - 1 : ~(w[i][1] = "del" /\ w[i][2] = k /\ w[i][3] = a.global[k])
    BY DEF Led
  <1> USE DEF x
  <1>3. CASE x[1] = "put"
    <2>1. b = [global |-> Set(a.global, x[2], x[3]), number |-> a.number, date |-> a.date]
      BY <1>2, <1>3 DEF Apply
    <2> HIDE DEF b
    <2>2. \A k \in DOMAIN Set(a.global, x[2], x[3]) :
            \/ k = x[2] /\ Set(a.global, x[2], x[3])[k] = x[3]
            \/ k \in DOMAIN a.global /\ Set(a.global, x[2], x[3])[k] = a.global[k]
      BY DEF Set
    <2>3. PICK g : g = Set(a.global, x[2], x[3])
      OBVIOUS
    <2>4. IsNow(b) /\ b.global = g /\ b.number = a.number /\ b.date = a.date
      BY <2>1, <2>3 DEF IsNow
    <2>5. \A k \in DOMAIN g :
            \/ k = x[2] /\ g[k] = x[3]
            \/ k \in DOMAIN a.global /\ g[k] = a.global[k]
      BY <2>2, <2>3
    <2>10. \A e : e \in b.number <=> e \in now.number /\ \A i \in 1 .. n : ~(w[i][1] = "number" /\ w[i][2] = e)
      BY <1>1, <1>n, <1>3, <2>4
    <2>11. \A e : e \in b.date <=> e \in now.date /\ \A i \in 1 .. n : ~(w[i][1] = "date" /\ w[i][2] = e)
      BY <1>1, <1>d, <1>3, <2>4
    <2>12. ASSUME NEW k \in DOMAIN b.global
           PROVE  \/ \E i \in 1 .. n : w[i][1] = "put" /\ w[i][2] = k /\ w[i][3] = b.global[k]
                  \/ /\ k \in DOMAIN now.global /\ b.global[k] = now.global[k]
                     /\ \A i \in 1 .. n : ~(w[i][1] = "del" /\ w[i][2] = k /\ w[i][3] = b.global[k])
      BY <1>1, <1>g, <1>3, <2>4, <2>5
    <2> QED BY <2>4, <2>10, <2>11, <2>12 DEF Led, b
  <1>4. CASE x[1] = "del"
    <2>1. b = [global |-> [k \in {y \in DOMAIN a.global : ~(y = x[2] /\ a.global[y] = x[3])} |-> a.global[k]],
               number |-> a.number, date |-> a.date]
      BY <1>2, <1>4 DEF Apply
    <2> HIDE DEF b
    <2>2. PICK g : g = [k \in {y \in DOMAIN a.global : ~(y = x[2] /\ a.global[y] = x[3])} |-> a.global[k]]
      OBVIOUS
    <2>3. IsNow(b) /\ b.global = g /\ b.number = a.number /\ b.date = a.date
      BY <2>1, <2>2 DEF IsNow
    <2>4. \A k \in DOMAIN g : k \in DOMAIN a.global /\ g[k] = a.global[k] /\ ~(k = x[2] /\ g[k] = x[3])
      BY <2>2
    <2>10. \A e : e \in b.number <=> e \in now.number /\ \A i \in 1 .. n : ~(w[i][1] = "number" /\ w[i][2] = e)
      BY <1>1, <1>n, <1>4, <2>3
    <2>11. \A e : e \in b.date <=> e \in now.date /\ \A i \in 1 .. n : ~(w[i][1] = "date" /\ w[i][2] = e)
      BY <1>1, <1>d, <1>4, <2>3
    <2>12. ASSUME NEW k \in DOMAIN b.global
           PROVE  \/ \E i \in 1 .. n : w[i][1] = "put" /\ w[i][2] = k /\ w[i][3] = b.global[k]
                  \/ /\ k \in DOMAIN now.global /\ b.global[k] = now.global[k]
                     /\ \A i \in 1 .. n : ~(w[i][1] = "del" /\ w[i][2] = k /\ w[i][3] = b.global[k])
      BY <1>1, <1>g, <1>4, <2>3, <2>4
    <2> QED BY <2>3, <2>10, <2>11, <2>12 DEF Led, b
  <1>5. CASE x[1] = "number"
    <2>1. b = [global |-> a.global, number |-> a.number \ {x[2]}, date |-> a.date]
      BY <1>2, <1>5 DEF Apply
    <2> HIDE DEF b
    <2>2. IsNow(b) /\ b.global = a.global /\ b.number = a.number \ {x[2]} /\ b.date = a.date
      BY <2>1 DEF IsNow
    <2>10. \A e : e \in b.number <=> e \in now.number /\ \A i \in 1 .. n : ~(w[i][1] = "number" /\ w[i][2] = e)
      BY <1>1, <1>n, <1>5, <2>2
    <2>11. \A e : e \in b.date <=> e \in now.date /\ \A i \in 1 .. n : ~(w[i][1] = "date" /\ w[i][2] = e)
      BY <1>1, <1>d, <1>5, <2>2
    <2>12. ASSUME NEW k \in DOMAIN b.global
           PROVE  \/ \E i \in 1 .. n : w[i][1] = "put" /\ w[i][2] = k /\ w[i][3] = b.global[k]
                  \/ /\ k \in DOMAIN now.global /\ b.global[k] = now.global[k]
                     /\ \A i \in 1 .. n : ~(w[i][1] = "del" /\ w[i][2] = k /\ w[i][3] = b.global[k])
      BY <1>1, <1>g, <1>5, <2>2
    <2> QED BY <2>2, <2>10, <2>11, <2>12 DEF Led, b
  <1>6. CASE x[1] = "date"
    <2>1. b = [global |-> a.global, number |-> a.number, date |-> a.date \ {x[2]}]
      BY <1>2, <1>6 DEF Apply
    <2> HIDE DEF b
    <2>2. IsNow(b) /\ b.global = a.global /\ b.number = a.number /\ b.date = a.date \ {x[2]}
      BY <2>1 DEF IsNow
    <2>10. \A e : e \in b.number <=> e \in now.number /\ \A i \in 1 .. n : ~(w[i][1] = "number" /\ w[i][2] = e)
      BY <1>1, <1>n, <1>6, <2>2
    <2>11. \A e : e \in b.date <=> e \in now.date /\ \A i \in 1 .. n : ~(w[i][1] = "date" /\ w[i][2] = e)
      BY <1>1, <1>d, <1>6, <2>2
    <2>12. ASSUME NEW k \in DOMAIN b.global
           PROVE  \/ \E i \in 1 .. n : w[i][1] = "put" /\ w[i][2] = k /\ w[i][3] = b.global[k]
                  \/ /\ k \in DOMAIN now.global /\ b.global[k] = now.global[k]
                     /\ \A i \in 1 .. n : ~(w[i][1] = "del" /\ w[i][2] = k /\ w[i][3] = b.global[k])
      BY <1>1, <1>g, <1>6, <2>2
    <2> QED BY <2>2, <2>10, <2>11, <2>12 DEF Led, b
  <1> QED BY <1>3, <1>4, <1>5, <1>6 DEF Kinds

LEMMA AppliedLeads ==
  ASSUME NEW w, Len(w) \in Nat, \A i \in 1 .. Len(w) : w[i][1] \in Kinds, IsNow(now)
  PROVE  Led(w, Len(w), Applied(w))
  <1> DEFINE N == Len(w)
             Step(f, n) == f = [i \in 0 .. n |-> IF i = 0 THEN now ELSE Apply(f[i - 1], w[i])]
             after == CHOOSE f : Step(f, N)
  <1>1. Applied(w) = after[N]
    BY DEF Applied
  <1> DEFINE P == {n \in 0 .. N : \E f : Step(f, n)}
  <1>2. 0 \in P
    <2>1. Step([i \in 0 .. 0 |-> now], 0)
      OBVIOUS
    <2> HIDE DEF Step
    <2> QED BY <2>1
  <1>3. ASSUME NEW n \in 1 .. N, n - 1 \in P PROVE n \in P
    <2>1. PICK f : Step(f, n - 1)
      BY <1>3
    <2> DEFINE h == [i \in 0 .. n |-> IF i = n THEN Apply(f[n - 1], w[n]) ELSE f[i]]
    <2>2. ASSUME NEW i \in 0 .. n PROVE h[i] = IF i = 0 THEN now ELSE Apply(h[i - 1], w[i])
      <3>1. CASE i = 0
        BY <2>1, <3>1
      <3>2. CASE i = n
        <4>1. h[n] = Apply(f[n - 1], w[n]) /\ h[n - 1] = f[n - 1] /\ n # 0
          OBVIOUS
        <4> QED BY <3>2, <4>1
      <3>3. CASE i \in 1 .. n - 1
        <4>1. i \in 0 .. n - 1 /\ i # 0 /\ h[i] = f[i] /\ h[i - 1] = f[i - 1]
          BY <3>3
        <4>2. f[i] = Apply(f[i - 1], w[i])
          BY <2>1, <4>1
        <4> QED BY <4>1, <4>2
      <3> QED BY <3>1, <3>2, <3>3
    <2>3. Step(h, n)
      <3>1. DOMAIN h = 0 .. n /\ h = [i \in 0 .. n |-> h[i]]
        OBVIOUS
      <3> HIDE DEF h
      <3> QED BY <2>2, <3>1
    <2> HIDE DEF Step, h
    <2> QED BY <2>3
  <1> HIDE DEF P
  <1>4. N \in P
    <2>1. 0 .. N \subseteq P
      BY <1>2, <1>3, UpTo
    <2> QED BY <2>1
  <1>5. Step(after, N)
    <2> HIDE DEF Step
    <2> QED BY <1>4 DEF P
  <1>6. after[0] = now /\ \A n \in 1 .. N : after[n] = Apply(after[n - 1], w[n])
    <2> HIDE DEF after
    <2>1. after = [i \in 0 .. N |-> IF i = 0 THEN now ELSE Apply(after[i - 1], w[i])]
      BY <1>5
    <2>2. N \in Nat /\ 0 \in 0 .. N /\ \A n \in 1 .. N : n \in 0 .. N /\ n # 0
      OBVIOUS
    <2> HIDE DEF N
    <2> QED BY <2>1, <2>2
  <1> HIDE DEF after
  <1> DEFINE Q == {n \in 0 .. N : Led(w, n, after[n])}
  <1>7. 0 \in Q
    BY <1>6 DEF Led
  <1>8. ASSUME NEW n \in 1 .. N, n - 1 \in Q PROVE n \in Q
    <2>1. n \in Nat \ {0} /\ Led(w, n - 1, after[n - 1]) /\ w[n][1] \in Kinds
      BY <1>8
    <2>2. Led(w, n, Apply(after[n - 1], w[n]))
      BY <2>1, ApplyLeads
    <2> QED BY <1>6, <2>2
  <1> HIDE DEF Q
  <1>9. N \in Q
    <2>1. 0 .. N \subseteq Q
      BY <1>7, <1>8, UpTo
    <2> QED BY <2>1
  <1> QED BY <1>1, <1>9 DEF Q

-----------------------------------------------------------------------------
(* Lists and indexes                                                       *)

\* q holds what the first n elements of s hold outside gone, once if s does.
Keeps(q, s, n, gone, S) ==
  /\ q \in Seq(S) /\ ToSet(q) = {s[i] : i \in 1 .. n} \ gone
  /\ (\A i, j \in 1 .. n : s[i] = s[j] => i = j) => Once(q)

LEMMA WithoutKeeps ==
  ASSUME NEW S, NEW s \in Seq(S), NEW gone
  PROVE  /\ Without(s, gone) \in Seq(S) /\ ToSet(Without(s, gone)) = ToSet(s) \ gone
         /\ Once(s) => Once(Without(s, gone))
  <1> DEFINE N == Len(s)
             next(q, x) == IF x \in gone THEN q ELSE Append(q, x)
  <1>1. N \in Nat /\ DOMAIN s = 1 .. N /\ \A n \in 1 .. N : s[n] \in S
    BY LenProperties, ElementOfSeq
  <1> HIDE DEF N
  <1>2. \E f : f = [n \in 0 .. N |-> IF n = 0 THEN <<>> ELSE next(f[n - 1], s[n])]
    <2> DEFINE g == [n \in 1 .. N |-> [q \in Seq(S) |-> next(q, s[n])]]
    <2>1. g \in [1 .. N -> [Seq(S) -> Seq(S)]]
      BY <1>1, AppendProperties
    <2>2. PICK f : Builds(f, S, N, g)
      <3> HIDE DEF g
      <3>1. N \in Nat
        BY <1>1
      <3> QED BY <3>1, <2>1, SeqRecursion
    <2>3. \A n \in 1 .. N : f[n] = next(f[n - 1], s[n])
      <3> TAKE n \in 1 .. N
      <3>1. f[n - 1] \in Seq(S) /\ f[n] = g[n][f[n - 1]]
        <4>1. n - 1 \in 0 .. N
          BY <1>1
        <4> HIDE DEF g
        <4> QED BY <2>2, <4>1 DEF Builds
      <3> QED BY <3>1
    <2> HIDE DEF next
    <2>4. f = [n \in 0 .. N |-> IF n = 0 THEN <<>> ELSE next(f[n - 1], s[n])]
      BY <1>1, <2>2, <2>3 DEF Builds
    <2> QED BY <2>4
  <1> DEFINE kept == CHOOSE f : f = [n \in 0 .. N |-> IF n = 0 THEN <<>> ELSE next(f[n - 1], s[n])]
  <1>3. kept = [n \in 0 .. N |-> IF n = 0 THEN <<>> ELSE next(kept[n - 1], s[n])]
    BY <1>2
  <1>4. Without(s, gone) = kept[N]
    BY DEF Without, N
  <1> HIDE DEF kept
  <1>5. kept[0] = <<>> /\ \A n \in 1 .. N : kept[n] = next(kept[n - 1], s[n])
    <2>1. 0 \in 0 .. N /\ \A n \in 1 .. N : n \in 0 .. N /\ n # 0
      BY <1>1
    <2> HIDE DEF next
    <2> QED BY <1>3, <2>1
  <1> DEFINE P == {n \in 0 .. N : Keeps(kept[n], s, n, gone, S)}
  <1>6. 0 \in P
    <2>1. <<>> \in Seq(S) /\ DOMAIN <<>> = {}
      BY EmptySeq
    <2>2. Keeps(<<>>, s, 0, gone, S)
      BY <2>1 DEF Keeps, ToSet, Once
    <2> QED BY <1>1, <1>5, <2>2
  <1>7. ASSUME NEW n \in 1 .. N, n - 1 \in P PROVE n \in P
    <2>1. PICK q, x : q = kept[n - 1] /\ x = s[n] /\ x \in S
      BY <1>1
    <2>2. Keeps(q, s, n - 1, gone, S) /\ kept[n] = next(q, x)
      BY <1>5, <1>7, <2>1
    <2>3. /\ q \in Seq(S) /\ ToSet(q) = {s[i] : i \in 1 .. n - 1} \ gone
          /\ (\A i, j \in 1 .. n - 1 : s[i] = s[j] => i = j) => Once(q)
      BY <2>2 DEF Keeps
    <2>4. \A y : y \in {s[i] : i \in 1 .. n} <=> y \in {s[i] : i \in 1 .. n - 1} \/ y = x
      <3>1. 1 .. n = (1 .. n - 1) \cup {n}
        OBVIOUS
      <3> QED BY <2>1, <3>1
    <2>5. CASE x \in gone
      <3>1. kept[n] = q /\ ToSet(q) = {s[i] : i \in 1 .. n} \ gone
        BY <2>2, <2>3, <2>4, <2>5
      <3>2. (\A i, j \in 1 .. n : s[i] = s[j] => i = j) => \A i, j \in 1 .. n - 1 : s[i] = s[j] => i = j
        OBVIOUS
      <3> QED BY <2>3, <3>1, <3>2 DEF Keeps
    <2>6. CASE x \notin gone
      <3>1. PICK t : t = Append(q, x)
        OBVIOUS
      <3>2. kept[n] = t
        BY <2>2, <2>6, <3>1
      <3>3. /\ t \in Seq(S) /\ ToSet(t) = ToSet(q) \cup {x}
            /\ Once(q) /\ ~Contains(q, x) => Once(t)
        BY <2>1, <2>3, <3>1, AppendOnce
      <3>4. ToSet(t) = {s[i] : i \in 1 .. n} \ gone
        BY <2>3, <2>4, <2>6, <3>3
      <3>5. ASSUME \A i, j \in 1 .. n : s[i] = s[j] => i = j PROVE Once(t)
        <4>1. Once(q)
          <5>1. \A i, j \in 1 .. n - 1 : s[i] = s[j] => i = j
            BY <3>5
          <5> QED BY <2>3, <5>1
        <4>2. \A i \in 1 .. n - 1 : s[i] # x
          BY <2>1, <3>5
        <4>3. x \notin ToSet(q)
          BY <2>3, <4>2
        <4>4. ~Contains(q, x)
          BY <4>3 DEF Contains, ToSet
        <4> QED BY <3>3, <4>1, <4>4
      <3> QED BY <3>2, <3>3, <3>4, <3>5 DEF Keeps
    <2> QED BY <2>5, <2>6
  <1> HIDE DEF P
  <1>8. N \in P
    <2>1. \A n \in 1 .. N : n - 1 \in P => n \in P
      BY <1>7
    <2>2. 0 .. N \subseteq P
      BY <1>1, <1>6, <2>1, UpTo
    <2> QED BY <1>1, <2>2
  <1>9. Keeps(Without(s, gone), s, N, gone, S)
    BY <1>4, <1>8 DEF P
  <1>10. ToSet(s) = {s[i] : i \in 1 .. N}
    BY <1>1 DEF ToSet
  <1> QED BY <1>1, <1>9, <1>10 DEF Keeps, Once

\* The custom fields of a new receipt are found again.
LEMMA FieldsAreFound ==
  \A f \in ToSet(CustomFields) : GetCustomField(CustomFields, f[1]) = <<TRUE, f[2]>>
  <1>1. /\ CustomFields \in Seq(ToSet(CustomFields))
        /\ \A i, j \in DOMAIN CustomFields : CustomFields[i][1] = CustomFields[j][1] => i = j
    BY WarehouseAssumption
  <1>2. Len(CustomFields) \in Nat /\ DOMAIN CustomFields = 1 .. Len(CustomFields)
    BY <1>1, LenProperties
  <1>3. SUFFICES ASSUME NEW i \in DOMAIN CustomFields
                 PROVE  GetCustomField(CustomFields, CustomFields[i][1]) = <<TRUE, CustomFields[i][2]>>
    BY DEF ToSet
  <1>4. {j \in 1 .. Len(CustomFields) : CustomFields[j][1] = CustomFields[i][1]} = {i}
    BY <1>1, <1>2
  <1>5. Min({i}) = i
    BY <1>2 DEF Min
  <1>6. FindCustomField(CustomFields, CustomFields[i][1]) = i
    BY <1>4, <1>5 DEF FindCustomField, SelectInSeq
  <1>7. i # 0
    BY <1>2
  <1> QED BY <1>6, <1>7 DEF GetCustomField

\* The first n elements of s.
First(s, n) == [i \in 1 .. n |-> s[i]]

\* The fields of a new receipt are the custom fields.
LEMMA FieldsAreSet == SetCustomFields = CustomFields
  <1> DEFINE c == CustomFields
             N == Len(c)
  <1>1. /\ c \in Seq(ToSet(c))
        /\ \A i, j \in DOMAIN c : c[i][1] = c[j][1] => i = j
    BY WarehouseAssumption
  <1>2. N \in Nat /\ DOMAIN c = 1 .. N /\ \A i \in 1 .. N : c[i] \in ToSet(c)
    BY <1>1, LenProperties, ElementOfSeq
  <1> HIDE DEF c, N
  <1>3. ASSUME NEW n \in 1 .. N PROVE SetCustomField(First(c, n - 1), c[n]) = First(c, n)
    <2>1. PICK q : q = First(c, n - 1)
      OBVIOUS
    <2>2. q \in Seq(ToSet(c)) /\ Len(q) = n - 1 /\ \A i \in 1 .. n - 1 : q[i] = c[i]
      <3>1. n - 1 \in Nat /\ \A i \in 1 .. n - 1 : c[i] \in ToSet(c)
        BY <1>2
      <3>2. q = [i \in 1 .. n - 1 |-> c[i]]
        BY <2>1 DEF First
      <3>3. q \in Seq(ToSet(c))
        BY <3>1, <3>2, IsASeq
      <3> QED BY <3>1, <3>2, <3>3, LenProperties
    <2>3. {i \in 1 .. Len(q) : q[i][1] = c[n][1]} = {}
      <3>1. \A i \in 1 .. n - 1 : i \in DOMAIN c /\ n \in DOMAIN c /\ i # n
        BY <1>2
      <3> QED BY <1>1, <2>2, <3>1
    <2>4. FindCustomField(q, c[n][1]) = 0
      BY <2>3 DEF FindCustomField, SelectInSeq
    <2>5. SetCustomField(q, c[n]) = Append(q, c[n])
      BY <2>4 DEF SetCustomField, Put
    <2>6. PICK t : t = Append(q, c[n])
      OBVIOUS
    <2>7. /\ t \in Seq(ToSet(c)) /\ Len(t) = n /\ \A i \in 1 .. n : t[i] = c[i]
      <3>1. /\ c[n] \in ToSet(c) /\ n - 1 + 1 = n
            /\ \A i \in 1 .. n : i \in 1 .. n - 1 \/ i = n
        BY <1>2
      <3>2. /\ t \in Seq(ToSet(c)) /\ Len(t) = Len(q) + 1
            /\ (\A i \in 1 .. Len(q) : t[i] = q[i]) /\ t[Len(q) + 1] = c[n]
        BY <2>2, <2>6, <3>1, AppendProperties
      <3> QED BY <2>2, <3>1, <3>2
    <2>8. t = [i \in 1 .. n |-> t[i]]
      BY <2>7, SeqDef, LenProperties
    <2>9. t = First(c, n)
      BY <2>7, <2>8 DEF First
    <2> QED BY <2>1, <2>5, <2>6, <2>9
  <1> DEFINE set == CHOOSE f : f = [i \in 0 .. N |-> IF i = 0 THEN <<>> ELSE SetCustomField(f[i - 1], c[i])]
  <1>4. SetCustomFields = set[N]
    BY DEF SetCustomFields, N, c
  <1>5. First(c, 0) = <<>>
    BY DEF First
  <1>6. \E f : f = [i \in 0 .. N |-> IF i = 0 THEN <<>> ELSE SetCustomField(f[i - 1], c[i])]
    <2> DEFINE f == [i \in 0 .. N |-> First(c, i)]
    <2>1. \A i \in 0 .. N : i # 0 => i \in 1 .. N /\ i - 1 \in 0 .. N
      BY <1>2
    <2>2. \A i \in 0 .. N : First(c, i) = IF i = 0 THEN <<>> ELSE SetCustomField(f[i - 1], c[i])
      BY <1>3, <1>5, <2>1
    <2>3. f = [i \in 0 .. N |-> IF i = 0 THEN <<>> ELSE SetCustomField(f[i - 1], c[i])]
      BY <2>2
    <2> QED BY <2>3
  <1>7. set = [i \in 0 .. N |-> IF i = 0 THEN <<>> ELSE SetCustomField(set[i - 1], c[i])]
    BY <1>6
  <1> HIDE DEF set
  <1> DEFINE P == {n \in 0 .. N : set[n] = First(c, n)}
  <1>8. 0 \in P
    BY <1>2, <1>5, <1>7
  <1>9. ASSUME NEW n \in 1 .. N, n - 1 \in P PROVE n \in P
    BY <1>3, <1>7, <1>9
  <1> HIDE DEF P
  <1>10. N \in P
    <2>1. \A n \in 1 .. N : n - 1 \in P => n \in P
      BY <1>9
    <2>2. 0 .. N \subseteq P
      BY <1>2, <1>8, <2>1, UpTo
    <2> QED BY <1>2, <2>2
  <1>11. First(c, N) = c
    BY <1>1, <1>2, SeqDef DEF First
  <1> QED BY <1>4, <1>10, <1>11 DEF P, c

\* An index with an entry from the date on finds one.
LEMMA SomeFirst ==
  ASSUME NEW index, NEW date \in Nat, \A e \in index : e[1] \in Nat,
         NEW e \in index, e[1] >= date
  PROVE  FindFirst(index, date) # {}
  <1> DEFINE T == {n \in Nat : \E f \in index : f[1] = n /\ n >= date}
  <1>1. T \in SUBSET Nat /\ T # {}
    OBVIOUS
  <1>2. PICK n \in T : \A k \in T : n <= k
    <2> HIDE DEF T
    <2> QED BY <1>1, LeastExists
  <1>3. PICK f \in index : f[1] = n /\ n >= date
    OBVIOUS
  <1>4. \A h \in index : h[1] >= date => h[1] \in T
    OBVIOUS
  <1>5. f \in FindFirst(index, date)
    BY <1>2, <1>3, <1>4 DEF FindFirst
  <1> QED BY <1>5

\* Removing times removes nothing.
LEMMA TimesStay ==
  ASSUME NEW index, NEW date, NEW n \in Nat, n = 0 \/ FindFirst(index, date) # {}
  PROVE  RemoveTimes(index, date, n) = {<<index, TRUE>>}
  <1> DEFINE all == {<<index, TRUE>>}
             next(A) == UNION {IF FindFirst(a[1], date) = {} THEN {<<a[1], FALSE>>}
                               ELSE {<<IF SameTimeKey(e, date) THEN a[1] \ {e} ELSE a[1], a[2]>> :
                                       e \in FindFirst(a[1], date)} : a \in A}
             after == CHOOSE f : f = [i \in 0 .. n |-> IF i = 0 THEN all ELSE next(f[i - 1])]
  <1>1. RemoveTimes(index, date, n) = after[n]
    BY DEF RemoveTimes
  <1>2. n # 0 => next(all) = all
    <2> SUFFICES ASSUME FindFirst(index, date) # {} PROVE next(all) = all
      OBVIOUS
    <2>1. PICK F : F = FindFirst(index, date)
      OBVIOUS
    <2>2. ASSUME NEW a \in all
          PROVE  {<<IF SameTimeKey(e, date) THEN a[1] \ {e} ELSE a[1], a[2]>> : e \in F} = all
      <3>1. a = <<index, TRUE>>
        OBVIOUS
      <3>2. a[1] = index /\ a[2] = TRUE
        BY <3>1
      <3>3. \A e \in F : <<IF SameTimeKey(e, date) THEN a[1] \ {e} ELSE a[1], a[2]>> = a
        BY <3>1, <3>2 DEF SameTimeKey
      <3>4. F # {} /\ all = {a}
        BY <2>1, <3>1
      <3> HIDE DEF all
      <3> QED BY <3>3, <3>4
    <2>3. \A a \in all : FindFirst(a[1], date) = F /\ F # {}
      BY <2>1
    <2>4. \A a \in all : (IF FindFirst(a[1], date) = {} THEN {<<a[1], FALSE>>}
                          ELSE {<<IF SameTimeKey(e, date) THEN a[1] \ {e} ELSE a[1], a[2]>> :
                                  e \in FindFirst(a[1], date)}) = all
      BY <2>2, <2>3
    <2>5. \A e : e \in next(all) <=> e \in all
      BY <2>4
    <2> QED BY <2>5
  <1> HIDE DEF all, next
  <1>3. \E f : f = [i \in 0 .. n |-> IF i = 0 THEN all ELSE next(f[i - 1])]
    <2> DEFINE f == [i \in 0 .. n |-> all]
    <2>1. \A i \in 0 .. n : all = IF i = 0 THEN all ELSE next(f[i - 1])
      <3> TAKE i \in 0 .. n
      <3>1. i # 0 => i - 1 \in 0 .. n /\ n # 0
        OBVIOUS
      <3> QED BY <1>2, <3>1
    <2>2. f = [i \in 0 .. n |-> IF i = 0 THEN all ELSE next(f[i - 1])]
      BY <2>1
    <2> QED BY <2>2
  <1>4. after = [i \in 0 .. n |-> IF i = 0 THEN all ELSE next(after[i - 1])]
    BY <1>3
  <1> HIDE DEF after
  <1> DEFINE P == {i \in 0 .. n : after[i] = all}
  <1>5. 0 \in P
    BY <1>4
  <1>6. ASSUME NEW i \in 1 .. n, i - 1 \in P PROVE i \in P
    <2>1. i \in 0 .. n /\ i # 0 /\ n # 0 /\ after[i - 1] = all
      BY <1>6
    <2> QED BY <1>2, <1>4, <2>1
  <1> HIDE DEF P
  <1>7. n \in P
    <2>1. \A i \in 1 .. n : i - 1 \in P => i \in P
      BY <1>6
    <2>2. 0 .. n \subseteq P
      BY <1>5, <2>1, UpTo
    <2> QED BY <2>2
  <1> QED BY <1>1, <1>7 DEF P, all

-----------------------------------------------------------------------------
(* What an action writes at once                                           *)

\* The writes W, all of them, lead from now to a.
LedBy(W, a) ==
  /\ IsNow(a)
  /\ \A e : e \in a.number <=> e \in now.number /\ \A x \in W : ~(x[1] = "number" /\ x[2] = e)
  /\ \A e : e \in a.date <=> e \in now.date /\ \A x \in W : ~(x[1] = "date" /\ x[2] = e)
  /\ \A k \in DOMAIN a.global :
       \/ \E x \in W : x[1] = "put" /\ x[2] = k /\ x[3] = a.global[k]
       \/ /\ k \in DOMAIN now.global /\ a.global[k] = now.global[k]
          /\ \A x \in W : ~(x[1] = "del" /\ x[2] = k /\ x[3] = a.global[k])

LEMMA AppliedLeadsBy ==
  ASSUME NEW S, NEW w \in Seq(S), \A x \in ToSet(w) : x[1] \in Kinds, IsNow(now)
  PROVE  LedBy(ToSet(w), Applied(w))
  <1>1. Len(w) \in Nat /\ DOMAIN w = 1 .. Len(w)
    BY LenProperties
  <1>2. ToSet(w) = {w[i] : i \in 1 .. Len(w)}
    BY <1>1 DEF ToSet
  <1>3. \A i \in 1 .. Len(w) : w[i][1] \in Kinds
    BY <1>2
  <1>4. PICK a, n, W : a = Applied(w) /\ n = Len(w) /\ W = ToSet(w)
    OBVIOUS
  <1>5. Led(w, n, a)
    BY <1>1, <1>3, <1>4, AppliedLeads
  <1>6. W = {w[i] : i \in 1 .. n}
    BY <1>2, <1>4
  <1>7. LedBy(W, a)
    BY <1>5, <1>6 DEF Led, LedBy
  <1> QED BY <1>4, <1>7

\* The writes before a stop.
LEMMA PrefixLeads ==
  ASSUME NEW S, NEW w \in Seq(S), NEW n \in 0 .. Len(w), IsNow(now),
         \A x \in ToSet(w) : x[1] \in Kinds
  PROVE  \E W \in SUBSET ToSet(w) :
           /\ LedBy(W, Applied(SubSeq(w, 1, n)))
           /\ (\E i \in 1 .. n : w[i][1] \in {"number", "date"})
                <=> \E x \in W : x[1] \in {"number", "date"}
  <1>1. Len(w) \in Nat /\ DOMAIN w = 1 .. Len(w) /\ \A i \in 1 .. Len(w) : w[i] \in S
    BY LenProperties, ElementOfSeq
  <1>2. PICK p : p = SubSeq(w, 1, n)
    OBVIOUS
  <1>3. n \in Int /\ 1 \in Int /\ n - 1 + 1 = n /\ \A i \in 1 .. n : i \in 1 .. Len(w) /\ 1 + i - 1 = i
    BY <1>1
  <1>4. \A i \in 1 .. n : w[i] \in S
    BY <1>1, <1>3
  <1>5. p \in Seq(S) /\ Len(p) = n /\ \A i \in 1 .. n : p[i] = w[i]
    <2>1. /\ p \in Seq(S) /\ Len(p) = IF 1 <= n THEN n - 1 + 1 ELSE 0
          /\ \A i \in 1 .. n - 1 + 1 : p[i] = w[1 + i - 1]
      BY <1>2, <1>3, <1>4, SubSeqProperties
    <2> QED BY <1>3, <2>1
  <1>6. DOMAIN p = 1 .. n
    BY <1>5, LenProperties
  <1>7. PICK W : W = ToSet(p)
    OBVIOUS
  <1>8. W = {w[i] : i \in 1 .. n}
    BY <1>5, <1>6, <1>7 DEF ToSet
  <1>9. W \in SUBSET ToSet(w)
    BY <1>1, <1>3, <1>8 DEF ToSet
  <1>10. LedBy(W, Applied(p))
    BY <1>5, <1>7, <1>9, AppliedLeadsBy
  <1>11. (\E i \in 1 .. n : w[i][1] \in {"number", "date"})
           <=> \E x \in W : x[1] \in {"number", "date"}
    BY <1>8
  <1> QED BY <1>2, <1>9, <1>10, <1>11

LEMMA OneElement == \A x : x \in ToSet(<<x>>)
  <1> TAKE x
  <1>1. 1 \in DOMAIN <<x>> /\ <<x>>[1] = x
    OBVIOUS
  <1> QED BY <1>1 DEF ToSet

\* A receipt that is saved puts itself and its items in the global index.
LEMMA SaveWritesAre ==
  ASSUME NEW r, NEW new, NEW defs, NEW n \in Nat, DOMAIN defs = 1 .. n
  PROVE  LET w == SaveWrites(r, new, defs) IN
         /\ \E S : w \in Seq(S)
         /\ \A x \in ToSet(w) :
              /\ x[1] = "put"
              /\ \/ x[2] = new.number /\ x[3] = r
                 \/ \E k \in 1 .. n : x[2] = HashCode(defs[k]) /\ x[3] = new.items[k]
  <1> DEFINE P(k) == <<"put", HashCode(defs[k]), new.items[k]>>
             q == <<"put", new.number, r>>
             S == {P(k) : k \in 1 .. n} \cup {q}
             seqs == [k \in DOMAIN defs |-> SaveItemWrites(new.items[k], defs[k])]
  <1>1. \A k \in 1 .. n : SaveItemWrites(new.items[k], defs[k]) = <<P(k)>> /\ P(k) \in S
    BY DEF SaveItemWrites
  <1>2. \A k \in 1 .. n : SaveItemWrites(new.items[k], defs[k]) \in Seq(S)
    <2> TAKE k \in 1 .. n
    <2>1. PICK T, x : T = S /\ x = P(k) /\ x \in T /\ SaveItemWrites(new.items[k], defs[k]) = <<x>>
      BY <1>1
    <2>2. <<x>> \in Seq(T)
      BY <2>1
    <2> QED BY <2>1, <2>2
  <1>3. seqs = [k \in 1 .. n |-> SaveItemWrites(new.items[k], defs[k])]
    OBVIOUS
  <1>4. <<q>> \in Seq(S)
    <2>1. q \in S
      OBVIOUS
    <2> HIDE DEF S, q
    <2> QED BY <2>1
  <1>5. SaveWrites(r, new, defs) = FlattenSeq(seqs) \o <<q>>
    BY DEF SaveWrites
  <1>6. \A x \in S : /\ x[1] = "put"
                     /\ \/ x[2] = new.number /\ x[3] = r
                        \/ \E k \in 1 .. n : x[2] = HashCode(defs[k]) /\ x[3] = new.items[k]
    OBVIOUS
  <1>7. seqs \in Seq(Seq(S))
    <2>1. PICK T : T = Seq(S)
      OBVIOUS
    <2>2. \A k \in 1 .. n : SaveItemWrites(new.items[k], defs[k]) \in T
      BY <1>2, <2>1
    <2> HIDE DEF S
    <2>3. seqs \in Seq(T)
      BY <1>3, <2>2, IsASeq
    <2> QED BY <2>1, <2>3
  <1> HIDE DEF S, P, q, seqs
  <1>8. SaveWrites(r, new, defs) \in Seq(S)
    BY <1>4, <1>5, <1>7, FlattenProperties, ConcatProperties
  <1>9. ToSet(SaveWrites(r, new, defs)) \subseteq S
    <2>1. PICK w : w = SaveWrites(r, new, defs)
      OBVIOUS
    <2>2. w \in Seq(S)
      BY <1>8, <2>1
    <2>3. \A i \in DOMAIN w : w[i] \in S
      BY <2>2, ElementOfSeq, LenProperties
    <2> QED BY <2>1, <2>3 DEF ToSet
  <1> QED BY <1>6, <1>8, <1>9

\* The entries of a receipt in the indexes that change at once.
Entries(r) == {<<"number", <<rec[r].number, r>>>>, <<"date", <<rec[r].date, r>>>>}

\* An edited or deleted receipt drops its entries from the indexes.
LEMMA DropWritesAre ==
  ASSUME NEW r, NEW number, rec[r].indexed = rec[r].number
  PROVE  LET w == DropWrites(r, number) IN
         /\ w \in Seq(Entries(r))
         /\ <<rec[r].number, r>> \in now.number => <<"number", <<rec[r].number, r>>>> \in ToSet(w)
         /\ <<rec[r].date, r>> \in now.date => <<"date", <<rec[r].date, r>>>> \in ToSet(w)
  <1>1. PICK a, b, S : a = <<"number", <<rec[r].number, r>>>> /\ b = <<"date", <<rec[r].date, r>>>> /\ S = Entries(r)
    OBVIOUS
  <1>2. PICK p : p = IF <<rec[r].number, r>> \in now.number THEN <<a>> ELSE <<>>
    OBVIOUS
  <1>3. PICK q : q = IF <<rec[r].date, r>> \in now.date THEN <<b>> ELSE <<>>
    OBVIOUS
  <1>4. DropWrites(r, number) = p \o q
    BY <1>1, <1>2, <1>3 DEF DropWrites, NumberEntry
  <1>5. a \in S /\ b \in S
    BY <1>1 DEF Entries
  <1>6. p \in Seq(S) /\ q \in Seq(S)
    BY <1>2, <1>3, <1>5
  <1>7. /\ <<rec[r].number, r>> \in now.number => a \in ToSet(p)
        /\ <<rec[r].date, r>> \in now.date => b \in ToSet(q)
    BY <1>2, <1>3, OneElement
  <1>8. p \o q \in Seq(S) /\ ToSet(p \o q) = ToSet(p) \cup ToSet(q)
    BY <1>6, ConcatSet
  <1> QED BY <1>1, <1>4, <1>7, <1>8

\* Without its entries, the indexes lead to the receipt no more.
LEMMA DropLeads ==
  ASSUME NEW r, NEW number, rec[r].indexed = rec[r].number, IsNow(now)
  PROVE  LET a == Applied(DropWrites(r, number)) IN
         /\ IsNow(a) /\ a.number = now.number \ {<<rec[r].number, r>>}
         /\ a.date = now.date \ {<<rec[r].date, r>>}
         /\ \A k \in DOMAIN a.global : k \in DOMAIN now.global /\ a.global[k] = now.global[k]
  <1>1. PICK w, W : w = DropWrites(r, number) /\ W = ToSet(w)
    OBVIOUS
  <1>2. PICK E : E = Entries(r)
    OBVIOUS
  <1>3. /\ w \in Seq(E)
        /\ <<rec[r].number, r>> \in now.number => <<"number", <<rec[r].number, r>>>> \in W
        /\ <<rec[r].date, r>> \in now.date => <<"date", <<rec[r].date, r>>>> \in W
    BY <1>1, <1>2, DropWritesAre
  <1>4. W \subseteq E
    <2>1. \A i \in DOMAIN w : w[i] \in E
      BY <1>3, ElementOfSeq, LenProperties
    <2> QED BY <1>1, <2>1 DEF ToSet
  <1>5. \A x \in W : \/ x[1] = "number" /\ x[2] = <<rec[r].number, r>>
                     \/ x[1] = "date" /\ x[2] = <<rec[r].date, r>>
    BY <1>2, <1>4 DEF Entries
  <1>6. PICK a : a = Applied(w)
    OBVIOUS
  <1>7. LedBy(W, a)
    <2>1. \A x \in W : x[1] \in Kinds
      BY <1>5 DEF Kinds
    <2> QED BY <1>1, <1>3, <1>6, <2>1, AppliedLeadsBy
  <1>8. a.number = now.number \ {<<rec[r].number, r>>}
    <2>1. \A e : e \in a.number <=> e \in now.number /\ \A x \in W : ~(x[1] = "number" /\ x[2] = e)
      BY <1>7 DEF LedBy
    <2>2. PICK f : f = <<rec[r].number, r>>
      OBVIOUS
    <2>3. \A x \in W : x[1] = "number" => x[2] = f
      BY <1>5, <2>2
    <2>4. f \in now.number => \E x \in W : x[1] = "number" /\ x[2] = f
      BY <1>3, <2>2
    <2> QED BY <2>1, <2>2, <2>3, <2>4
  <1>9. a.date = now.date \ {<<rec[r].date, r>>}
    <2>1. \A e : e \in a.date <=> e \in now.date /\ \A x \in W : ~(x[1] = "date" /\ x[2] = e)
      BY <1>7 DEF LedBy
    <2>2. PICK f : f = <<rec[r].date, r>>
      OBVIOUS
    <2>3. \A x \in W : x[1] = "date" => x[2] = f
      BY <1>5, <2>2
    <2>4. f \in now.date => \E x \in W : x[1] = "date" /\ x[2] = f
      BY <1>3, <2>2
    <2> QED BY <2>1, <2>2, <2>3, <2>4
  <1>10. \A k \in DOMAIN a.global : k \in DOMAIN now.global /\ a.global[k] = now.global[k]
    BY <1>5, <1>7 DEF LedBy
  <1> QED BY <1>1, <1>6, <1>7, <1>8, <1>9, <1>10 DEF LedBy

\* A deleted receipt takes itself and its items from the global index and drops its
\* entries from the indexes.
LEMMA DeleteWritesAre ==
  ASSUME NEW r, rec[r].indexed = rec[r].number, NEW I, DeletedItems(r) \in Seq(I)
  PROVE  LET w == DeleteWrites(r) IN
         /\ \E S : w \in Seq(S)
         /\ \A x \in ToSet(w) : x[1] = "del" \/ x \in Entries(r)
         /\ \A g \in ToSet(DeletedItems(r)) : <<"del", HashCode(item[g].def), g>> \in ToSet(w)
         /\ <<"del", rec[r].number, r>> \in ToSet(w)
         /\ ToSet(DropWrites(r, rec[r].number)) \subseteq ToSet(w)
  <1>1. PICK gone : gone = DeletedItems(r)
    OBVIOUS
  <1>2. Len(gone) \in Nat /\ DOMAIN gone = 1 .. Len(gone)
    BY <1>1, LenProperties
  <1>3. PICK n : n = Len(gone)
    OBVIOUS
  <1> DEFINE P(g) == <<"del", HashCode(item[g].def), g>>
             q == <<"del", rec[r].number, r>>
             S == {P(gone[k]) : k \in 1 .. n} \cup {q} \cup Entries(r)
             seqs == [k \in DOMAIN gone |-> DeleteItemWrites(gone[k])]
             d == DropWrites(r, rec[r].number)
  <1>4. \A k \in 1 .. n : DeleteItemWrites(gone[k]) = <<P(gone[k])>> /\ P(gone[k]) \in S
    BY DEF DeleteItemWrites
  <1>5. q \in S /\ Entries(r) \subseteq S
    OBVIOUS
  <1>6. DeleteWrites(r) = FlattenSeq(seqs) \o <<q>> \o d
    BY <1>1 DEF DeleteWrites
  <1>7. \A x \in S : x[1] = "del" \/ x \in Entries(r)
    OBVIOUS
  <1>8. seqs = [k \in 1 .. n |-> DeleteItemWrites(gone[k])]
    BY <1>2, <1>3
  <1> HIDE DEF S, q, seqs, d
  <1>9. \A k \in 1 .. n : DeleteItemWrites(gone[k]) \in Seq(S) /\ P(gone[k]) \in ToSet(DeleteItemWrites(gone[k]))
    <2> TAKE k \in 1 .. n
    <2>1. PICK T, x : T = S /\ x = P(gone[k]) /\ x \in T /\ DeleteItemWrites(gone[k]) = <<x>>
      BY <1>4
    <2>2. <<x>> \in Seq(T) /\ x \in ToSet(<<x>>)
      BY <2>1, OneElement
    <2> QED BY <2>1, <2>2
  <1>10. seqs \in Seq(Seq(S)) /\ DOMAIN seqs = 1 .. n /\ \A k \in 1 .. n : seqs[k] = DeleteItemWrites(gone[k])
    <2>1. PICK T : T = Seq(S)
      OBVIOUS
    <2>2. \A k \in 1 .. n : DeleteItemWrites(gone[k]) \in T
      BY <1>9, <2>1
    <2>3. seqs \in Seq(T)
      BY <1>2, <1>3, <1>8, <2>2, IsASeq
    <2> QED BY <1>8, <2>1, <2>3
  <1>11. <<q>> \in Seq(S) /\ q \in ToSet(<<q>>)
    BY <1>5, OneElement
  <1>12. d \in Seq(S)
    <2>1. d \in Seq(Entries(r))
      BY DropWritesAre DEF d
    <2>2. Len(d) \in Nat /\ d = [i \in 1 .. Len(d) |-> d[i]] /\ \A i \in 1 .. Len(d) : d[i] \in Entries(r)
      BY <2>1, LenProperties, ElementOfSeq, SeqDef
    <2>3. \A i \in 1 .. Len(d) : d[i] \in S
      BY <1>5, <2>2
    <2> QED BY <2>2, <2>3, IsASeq
  <1>13. PICK f : f = FlattenSeq(seqs)
    OBVIOUS
  <1>14. f \in Seq(S) /\ ToSet(f) = UNION {ToSet(seqs[k]) : k \in DOMAIN seqs}
    BY <1>10, <1>13, FlattenProperties
  <1>15. f \o <<q>> \in Seq(S) /\ ToSet(f \o <<q>>) = ToSet(f) \cup ToSet(<<q>>)
    <2>1. PICK t : t = <<q>>
      OBVIOUS
    <2>2. t \in Seq(S)
      BY <1>11, <2>1
    <2>3. f \o t \in Seq(S) /\ ToSet(f \o t) = ToSet(f) \cup ToSet(t)
      BY <1>14, <2>2, ConcatSet
    <2> QED BY <2>1, <2>3
  <1>16. PICK w : w = f \o <<q>> \o d
    OBVIOUS
  <1>17. w \in Seq(S) /\ ToSet(w) = ToSet(f) \cup ToSet(<<q>>) \cup ToSet(d)
    <2>1. PICK t : t = f \o <<q>>
      OBVIOUS
    <2>2. t \in Seq(S)
      BY <1>15, <2>1
    <2>3. t \o d \in Seq(S) /\ ToSet(t \o d) = ToSet(t) \cup ToSet(d)
      BY <1>12, <2>2, ConcatSet
    <2> QED BY <1>15, <1>16, <2>1, <2>3
  <1>18. \A k \in 1 .. n : P(gone[k]) \in ToSet(f)
    BY <1>9, <1>10, <1>14
  <1>19. \A g \in ToSet(gone) : P(g) \in ToSet(w)
    BY <1>2, <1>3, <1>17, <1>18 DEF ToSet
  <1>20. \A x \in ToSet(w) : x \in S
    <2>1. \A i \in DOMAIN w : w[i] \in S
      BY <1>17, ElementOfSeq, LenProperties
    <2> QED BY <2>1 DEF ToSet
  <1>21. DeleteWrites(r) = w
    BY <1>6, <1>13, <1>16
  <1>22. q \in ToSet(w) /\ ToSet(d) \subseteq ToSet(w) /\ \E T : w \in Seq(T)
    BY <1>11, <1>17
  <1> QED BY <1>1, <1>7, <1>19, <1>20, <1>21, <1>22 DEF q, d

-----------------------------------------------------------------------------
(* The invariant                                                           *)

Ids == Seq(Nat)
Listed == ToSet(list.receipts)
Stored == ToSet(list.items)

\* What the variables hold.
TypeInv ==
  /\ step \in Nat /\ made \in Nat /\ clock \in Nat /\ cursor \in Nat \ {0}
  /\ list = [packages |-> list.packages, definitions |-> list.definitions,
             items |-> list.items, receipts |-> list.receipts]
  /\ keys = [package |-> keys.package, code |-> keys.code,
             description |-> keys.description, time |-> keys.time]
  /\ IsNow(now)

\* The packages are the first ones of those the program fills in, each in the index.
PackagesInv ==
  /\ list.packages \in Seq(ToSet(Packages)) /\ Len(list.packages) <= Len(Packages)
  /\ \A i \in DOMAIN list.packages : <<Packages[i], Packages[i]>> \in keys.package
  /\ phase = "packages" /\ step # 0 => step = Len(list.packages)
  /\ phase = "aborted" => Len(list.packages) < Len(Packages)

\* So are the definitions; once receipts are made of them there are some.
DefinitionsInv ==
  /\ list.definitions \in Seq(ToSet(Definitions))
  /\ keys.code = {<<d.code, d>> : d \in ToSet(list.definitions)} /\ keys.description = keys.code
  /\ phase = "definitions" /\ step # 0 => step = Len(list.definitions)
  /\ phase \in {"receipts", "edit", "test", "delete"} => list.definitions # <<>>

\* A saved receipt holds what it was made of and only items of its own.
ReceiptsInv ==
  /\ list.receipts \in Seq(Ids) /\ Once(list.receipts) /\ Listed \subseteq DOMAIN rec
  /\ \A r \in DOMAIN rec :
       /\ \E n \in Nat : r = <<n>> /\ n <= made
       /\ rec[r] \in [number : Nat \X Nat, date : Nat, items : Seq(Ids),
                      fields : {CustomFields}, indexed : {rec[r].number}]
       /\ \A x \in ToSet(rec[r].items) : x \in DOMAIN item /\ item[x].receipt = r

\* A saved item belongs to a receipt made before and stays in the time index.
ItemsInv ==
  /\ list.items \in Seq(Ids) /\ Stored \subseteq DOMAIN item
  /\ \A x \in DOMAIN item :
       /\ \E n, k \in Nat : x = <<n, k>> /\ item[x].receipt = <<n>>
       /\ item[x].receipt \in DOMAIN rec /\ <<rec[item[x].receipt].date, x>> \in keys.time
  /\ \A e \in keys.time : e[1] \in Nat

\* No two receipts of the list have the same number, and none that of a later turn.
NumbersInv ==
  /\ \A r, s \in Listed : rec[r].number[1] = rec[s].number[1] => r = s
  /\ phase = "receipts" /\ step # 0 => \A r \in Listed : rec[r].number[1] < step

\* Only the first receipt can be torn; the edit reaches it, and it alone.
TornInv ==
  /\ \A t \in torn : list.receipts # <<>> /\ t = Head(list.receipts)
  /\ phase = "edit" => \/ walk = Nil /\ torn = {}
                       \/ list.receipts # <<>> /\ walk = Head(list.receipts)
  /\ phase \in {"test", "delete"} => torn = {}

\* An object that the global index leads to has been made, and an item is found by
\* the code of its definition only.
GlobalInv ==
  \A key \in DOMAIN now.global :
    LET o == now.global[key] IN
    /\ o \in DOMAIN item => key = HashCode(item[o].def)
    /\ \A n, k \in Nat : o = <<n>> \/ o = <<n, k>> => n <= made

WarehouseInv ==
  /\ TypeInv /\ PackagesInv /\ DefinitionsInv /\ ReceiptsInv /\ ItemsInv /\ NumbersInv
  /\ TornInv /\ GlobalInv
  /\ IndexesFollowList /\ ItemsFollowReceipts /\ TestNeverFails /\ NoDeletedObjectIsFound

\* Steps that only lead from one part of the program to the next.
LEMMA QuietStep ==
  ASSUME WarehouseInv, UNCHANGED <<clock, list, keys, rec, item, now, linked, made, torn>>,
         step' = 0, cursor' \in Nat \ {0}, failed' = {}, phase' # "aborted",
         phase' \in {"receipts", "edit", "test", "delete"} => list.definitions # <<>>,
         phase' = "edit" => \/ walk' = Nil /\ torn = {}
                            \/ list.receipts # <<>> /\ walk' = Head(list.receipts),
         phase' \in {"test", "delete"} => torn = {}
  PROVE  WarehouseInv'
  <1>1. TypeInv'
    BY DEF WarehouseInv, TypeInv, IsNow
  <1>2. PackagesInv' /\ DefinitionsInv'
    BY DEF WarehouseInv, PackagesInv, DefinitionsInv
  <1>3. ReceiptsInv' /\ ItemsInv'
    BY DEF WarehouseInv, ReceiptsInv, ItemsInv, Listed, Stored
  <1>4. NumbersInv'
    BY DEF WarehouseInv, NumbersInv, Listed
  <1>5. TornInv'
    BY DEF WarehouseInv, TornInv
  <1>6. GlobalInv'
    BY DEF WarehouseInv, GlobalInv
  <1>7. IndexesFollowList' /\ ItemsFollowReceipts' /\ TestNeverFails' /\ NoDeletedObjectIsFound'
    <2>1. IndexesFollowList'
      BY DEF WarehouseInv, IndexesFollowList
    <2>2. ItemsFollowReceipts'
      <3>1. ItemsFollowReceipts' <=> ItemsFollowReceipts
        BY DEF ItemsFollowReceipts
      <3> QED BY <3>1 DEF WarehouseInv
    <2>3. NoDeletedObjectIsFound'
      BY DEF WarehouseInv, NoDeletedObjectIsFound
    <2> QED BY <2>1, <2>2, <2>3 DEF TestNeverFails
  <1> QED BY <1>1, <1>2, <1>3, <1>4, <1>5, <1>6, <1>7 DEF WarehouseInv

LEMMA WarehouseInit == Init => WarehouseInv
  <1> SUFFICES ASSUME Init PROVE WarehouseInv
    OBVIOUS
  <1>1. /\ phase = "down" /\ step = 0 /\ cursor = 1 /\ clock = 1 /\ made = 0
        /\ failed = {} /\ torn = {} /\ rec = <<>> /\ item = <<>>
        /\ list = [packages |-> <<>>, definitions |-> <<>>, items |-> <<>>, receipts |-> <<>>]
        /\ keys = [package |-> {}, code |-> {}, description |-> {}, time |-> {}]
        /\ now = [global |-> <<>>, number |-> {}, date |-> {}]
    BY DEF Init
  <1>2. ToSet(<<>>) = {} /\ Len(<<>>) = 0 /\ DOMAIN <<>> = {} /\ Once(<<>>)
    BY DEF ToSet, Once
  <1>3. Len(Packages) \in Nat
    BY WarehouseAssumption, LenProperties
  <1>4. list.packages = <<>> /\ list.definitions = <<>> /\ list.items = <<>> /\ list.receipts = <<>>
    BY <1>1
  <1>5. keys.package = {} /\ keys.code = {} /\ keys.description = {} /\ keys.time = {}
    BY <1>1
  <1>6. now.global = <<>> /\ now.number = {} /\ now.date = {}
    BY <1>1
  <1>7. TypeInv
    BY <1>1, <1>4, <1>5, <1>6 DEF TypeInv, IsNow
  <1>8. PackagesInv /\ DefinitionsInv
    BY <1>1, <1>2, <1>3, <1>4, <1>5 DEF PackagesInv, DefinitionsInv
  <1>9. ReceiptsInv /\ ItemsInv
    BY <1>1, <1>2, <1>4, <1>5 DEF ReceiptsInv, ItemsInv, Listed, Stored
  <1>10. NumbersInv /\ TornInv /\ GlobalInv
    BY <1>1, <1>2, <1>4, <1>6 DEF NumbersInv, TornInv, GlobalInv, Listed
  <1>11. IndexesFollowList /\ ItemsFollowReceipts /\ TestNeverFails /\ NoDeletedObjectIsFound
    BY <1>1, <1>2, <1>4, <1>6
    DEF IndexesFollowList, ItemsFollowReceipts, TestNeverFails, NoDeletedObjectIsFound
  <1> QED BY <1>7, <1>8, <1>9, <1>10, <1>11 DEF WarehouseInv

LEMMA StartKeepsInv == WarehouseInv /\ (EnsureDatabaseRoot \/ Start \/ EndEdit \/ EndRun) => WarehouseInv'
  <1>1. ASSUME WarehouseInv, EnsureDatabaseRoot PROVE WarehouseInv'
    <2>1. /\ UNCHANGED <<clock, list, keys, rec, item, now, linked, made, torn, cursor, failed>>
          /\ phase' = "packages" /\ step' = 0
      BY <1>1, Zenon DEF EnsureDatabaseRoot, Goto, Idle
    <2>2. cursor \in Nat \ {0} /\ failed = {}
      BY <1>1 DEF WarehouseInv, TypeInv, TestNeverFails
    <2> QED BY <1>1, <2>1, <2>2, QuietStep
  <1>2. ASSUME WarehouseInv, Start PROVE WarehouseInv'
    <2>1. /\ UNCHANGED <<clock, list, keys, rec, item, now, linked, made, torn>>
          /\ phase' = "open" /\ step' = 0 /\ cursor' = 1 /\ failed' = {}
      BY <1>2, Zenon DEF Start, Goto, stored
    <2> QED BY <1>2, <2>1, QuietStep
  <1>3. ASSUME WarehouseInv, EndEdit PROVE WarehouseInv'
    <2>1. /\ UNCHANGED <<clock, list, keys, rec, item, now, linked, made, torn, cursor, failed>>
          /\ phase' = "test" /\ step' = 0 /\ phase = "edit" /\ walk = Nil
      BY <1>3, Zenon DEF EndEdit, Goto, Idle, stored
    <2>2. cursor \in Nat \ {0} /\ failed = {}
      BY <1>3 DEF WarehouseInv, TypeInv, TestNeverFails
    <2>3. list.definitions # <<>>
      BY <1>3, <2>1 DEF WarehouseInv, DefinitionsInv
    <2>4. torn = {}
      <3>1. list.receipts # <<>> => Head(list.receipts) \in Ids
        BY <1>3, HeadTailProperties DEF WarehouseInv, ReceiptsInv
      <3>2. list.receipts # <<>> => Head(list.receipts) # Nil
        BY <3>1, CodeAssumption DEF Ids
      <3> QED BY <1>3, <2>1, <3>2 DEF WarehouseInv, TornInv
    <2> QED BY <1>3, <2>1, <2>2, <2>3, <2>4, QuietStep
  <1>4. ASSUME WarehouseInv, EndRun PROVE WarehouseInv'
    <2>1. /\ UNCHANGED <<clock, list, keys, rec, item, now, linked, made, torn, cursor, failed>>
          /\ phase' = "end" /\ step' = 0
      BY <1>4, Zenon DEF EndRun, Goto, Idle, stored
    <2>2. cursor \in Nat \ {0} /\ failed = {}
      BY <1>4 DEF WarehouseInv, TypeInv, TestNeverFails
    <2> QED BY <1>4, <2>1, <2>2, QuietStep
  <1> QED BY <1>1, <1>2, <1>3, <1>4

LEMMA FillsKeepInv ==
  ASSUME WarehouseInv,
         \/ NextFill("packages", "definitions", "packages", Len(Packages))
         \/ NextFill("definitions", "receipts", "definitions", Len(Definitions))
         \/ NextFill("receipts", "edit", "receipts", ReceiptCount)
  PROVE  WarehouseInv'
  <1>1. /\ UNCHANGED <<clock, list, keys, rec, item, now, linked, made, torn, cursor, failed>>
        /\ step' = 0
    BY Zenon DEF NextFill, Goto, Idle, stored
  <1>2. \/ phase' = "definitions"
        \/ /\ phase' = "receipts" /\ phase = "definitions"
           /\ (step = 0 /\ list.definitions # <<>>) \/ step = Len(Definitions)
        \/ /\ phase' = "edit" /\ phase = "receipts"
           /\ walk' = IF list.receipts # <<>> THEN Head(list.receipts) ELSE Nil
    BY DEF NextFill, Goto
  <1>3. cursor \in Nat \ {0} /\ failed = {}
    BY DEF WarehouseInv, TypeInv, TestNeverFails
  <1>4. phase' \in {"receipts", "edit"} => list.definitions # <<>>
    <2>1. Len(Definitions) # 0
      BY WarehouseAssumption, EmptySeq
    <2>2. phase' = "receipts" => list.definitions # <<>>
      BY <1>2, <2>1 DEF WarehouseInv, DefinitionsInv
    <2>3. phase' = "edit" => list.definitions # <<>>
      BY <1>2 DEF WarehouseInv, DefinitionsInv
    <2> QED BY <2>2, <2>3
  <1>5. phase' = "edit" => \/ walk' = Nil /\ torn = {}
                           \/ list.receipts # <<>> /\ walk' = Head(list.receipts)
    BY <1>2 DEF WarehouseInv, TornInv
  <1> QED BY <1>1, <1>2, <1>3, <1>4, <1>5, QuietStep

\* The objects that are saved are identified by numbers, codes are not.
LEMMA CodesAreStrange ==
  ASSUME WarehouseInv, NEW o, o \notin Ids
  PROVE  /\ o \notin DOMAIN rec /\ o \notin DOMAIN item
         /\ \A n, k \in Nat : ~(o = <<n>> \/ o = <<n, k>>)
  <1>1. \A n, k \in Nat : <<n>> \in Ids /\ <<n, k>> \in Ids
    BY DEF Ids
  <1>2. \A r \in DOMAIN rec : \E n \in Nat : r = <<n>>
    BY DEF WarehouseInv, ReceiptsInv
  <1>3. \A x \in DOMAIN item : \E n, k \in Nat : x = <<n, k>>
    BY DEF WarehouseInv, ItemsInv
  <1> QED BY <1>1, <1>2, <1>3

\* Steps that leave receipts and items as they are.
LEMMA ReceiptsStay ==
  ASSUME WarehouseInv, UNCHANGED <<rec, item, linked>>, made' \in Nat, made <= made',
         list'.receipts = list.receipts, list'.items = list.items, keys'.time = keys.time
  PROVE  ReceiptsInv' /\ ItemsInv' /\ ItemsFollowReceipts'
  <1>1. ReceiptsInv'
    <2>1. \A n \in Nat : n <= made => n <= made'
      BY DEF WarehouseInv, TypeInv
    <2> QED BY <2>1 DEF WarehouseInv, ReceiptsInv, Listed
  <1>2. ItemsInv'
    BY DEF WarehouseInv, ItemsInv, Stored
  <1>3. ItemsFollowReceipts'
    <2>1. ItemsFollowReceipts' <=> ItemsFollowReceipts
      BY DEF ItemsFollowReceipts
    <2> QED BY <2>1 DEF WarehouseInv
  <1> QED BY <1>1, <1>2, <1>3

LEMMA IndexesStay ==
  ASSUME IndexesFollowList, UNCHANGED <<rec, torn>>, list'.receipts = list.receipts,
         now'.number = now.number, now'.date = now.date
  PROVE  IndexesFollowList'
  <1>1. PICK L : L = ToSet(list.receipts)
    OBVIOUS
  <1>2. ToSet(list.receipts)' = L
    BY <1>1
  <1> QED BY <1>1, <1>2 DEF IndexesFollowList

\* Steps after which the global index leads to the same objects or to none that is saved.
LEMMA GlobalStays ==
  ASSUME WarehouseInv, UNCHANGED <<rec, item>>, made' \in Nat, made <= made',
         list'.receipts = list.receipts, list'.items = list.items,
         \A key \in DOMAIN now'.global :
           LET o == now'.global[key] IN
           \/ key \in DOMAIN now.global /\ o = now.global[key]
           \/ /\ o \notin DOMAIN rec /\ o \notin DOMAIN item
              /\ \A n, k \in Nat : o = <<n>> \/ o = <<n, k>> => n <= made'
  PROVE  GlobalInv' /\ NoDeletedObjectIsFound'
  <1>1. SUFFICES ASSUME NEW key \in DOMAIN now'.global, NEW o, o = now'.global[key]
                 PROVE  /\ o \in DOMAIN item => key = HashCode(item[o].def)
                        /\ \A n, k \in Nat : o = <<n>> \/ o = <<n, k>> => n <= made'
                        /\ o \in DOMAIN rec => o \in Listed \/ rec[o].number # key
                        /\ o \in DOMAIN item => o \in Stored
    BY DEF GlobalInv, NoDeletedObjectIsFound, Listed, Stored, HashCode
  <1>2. CASE key \in DOMAIN now.global /\ o = now.global[key]
    <2>1. /\ o \in DOMAIN item => key = HashCode(item[o].def)
          /\ \A n, k \in Nat : o = <<n>> \/ o = <<n, k>> => n <= made
      BY <1>2 DEF WarehouseInv, GlobalInv
    <2>2. /\ o \in DOMAIN rec => o \in Listed \/ rec[o].number # key
          /\ o \in DOMAIN item => o \in Stored
      BY <1>2 DEF WarehouseInv, NoDeletedObjectIsFound, Listed, Stored
    <2>3. \A n \in Nat : n <= made => n <= made'
      BY DEF WarehouseInv, TypeInv
    <2> QED BY <2>1, <2>2, <2>3
  <1>3. CASE /\ o \notin DOMAIN rec /\ o \notin DOMAIN item
             /\ \A n, k \in Nat : o = <<n>> \/ o = <<n, k>> => n <= made'
    BY <1>3
  <1> QED BY <1>1, <1>2, <1>3

\* A package or a definition goes into the global index under some key.
LEMMA CodeIsPut ==
  ASSUME WarehouseInv, NEW key, NEW code, code \notin Ids, UNCHANGED <<rec, item, made>>,
         now' = Applied(<<<<"put", key, code>>>>),
         list'.receipts = list.receipts, list'.items = list.items
  PROVE  /\ IsNow(now)' /\ now'.number = now.number /\ now'.date = now.date
         /\ GlobalInv' /\ NoDeletedObjectIsFound'
  <1>1. PICK x, w : x = <<"put", key, code>> /\ w = <<x>>
    OBVIOUS
  <1>2. w \in Seq({x}) /\ ToSet(w) = {x}
    <2>1. \A i \in DOMAIN w : w[i] = x
      BY <1>1
    <2> QED BY <1>1, <2>1, OneElement DEF ToSet
  <1>3. x[1] = "put" /\ x[2] = key /\ x[3] = code
    BY <1>1
  <1>4. LedBy({x}, now')
    <2>1. \A y \in {x} : y[1] \in Kinds
      BY <1>3 DEF Kinds
    <2>2. IsNow(now)
      BY DEF WarehouseInv, TypeInv
    <2>3. now' = Applied(w)
      BY <1>1
    <2>4. \A y \in ToSet(w) : y[1] \in Kinds
      BY <1>2, <2>1
    <2> QED BY <1>2, <2>2, <2>3, <2>4, AppliedLeadsBy
  <1>5. PICK a : a = now'
    OBVIOUS
  <1>6. IsNow(a) /\ a.number = now.number /\ a.date = now.date
    <2>1. /\ \A e : e \in a.number <=> e \in now.number
          /\ \A e : e \in a.date <=> e \in now.date
      BY <1>3, <1>4, <1>5 DEF LedBy
    <2>2. a.number = now.number
      BY <2>1
    <2>3. a.date = now.date
      BY <2>1
    <2> QED BY <1>4, <1>5, <2>2, <2>3 DEF LedBy
  <1>7. \A k \in DOMAIN a.global : \/ k \in DOMAIN now.global /\ a.global[k] = now.global[k]
                                   \/ a.global[k] = code
    BY <1>3, <1>4, <1>5 DEF LedBy
  <1>8. /\ code \notin DOMAIN rec /\ code \notin DOMAIN item
        /\ \A n, k \in Nat : ~(code = <<n>> \/ code = <<n, k>>)
    BY CodesAreStrange
  <1>9. made' \in Nat /\ made <= made'
    BY DEF WarehouseInv, TypeInv
  <1>10. GlobalInv' /\ NoDeletedObjectIsFound'
    <2>1. \A k \in DOMAIN now'.global :
            LET o == now'.global[k] IN
            \/ k \in DOMAIN now.global /\ o = now.global[k]
            \/ /\ o \notin DOMAIN rec /\ o \notin DOMAIN item
               /\ \A n, j \in Nat : o = <<n>> \/ o = <<n, j>> => n <= made'
      BY <1>5, <1>7, <1>8
    <2> QED BY <1>9, <2>1, GlobalStays
  <1> QED BY <1>5, <1>6, <1>10 DEF IsNow

-----------------------------------------------------------------------------
(* Packages and definitions                                                *)

LEMMA InsertPackageKeepsInv == WarehouseInv /\ InsertPackage => WarehouseInv'
  <1> SUFFICES ASSUME WarehouseInv, InsertPackage PROVE WarehouseInv'
    OBVIOUS
  <1>1. PICK code : code = Packages[step + 1]
    OBVIOUS
  <1>2. /\ phase = "packages" /\ step < Len(Packages) /\ (step = 0 => list.packages = <<>>)
        /\ list' = [list EXCEPT !.packages = Append(@, code)]
        /\ keys' = [keys EXCEPT !.package = @ \cup {<<code, code>>}]
        /\ now' = Applied(<<<<"put", code, code>>>>)
        /\ step' = step + 1 /\ UNCHANGED <<phase, cursor, rec, item, failed, clock, linked, made, torn>>
    BY <1>1, Zenon DEF InsertPackage, SavePackage, PackagesInsert, Put, Idle
  <1>3. /\ list'.packages = Append(list.packages, code) /\ list'.definitions = list.definitions
        /\ list'.items = list.items /\ list'.receipts = list.receipts
        /\ keys'.package = keys.package \cup {<<code, code>>} /\ keys'.code = keys.code
        /\ keys'.description = keys.description /\ keys'.time = keys.time
        /\ list' = [packages |-> list'.packages, definitions |-> list'.definitions,
                    items |-> list'.items, receipts |-> list'.receipts]
        /\ keys' = [package |-> keys'.package, code |-> keys'.code,
                    description |-> keys'.description, time |-> keys'.time]
    BY <1>2 DEF WarehouseInv, TypeInv
  <1>4. /\ step \in Nat /\ made \in Nat /\ clock \in Nat /\ cursor \in Nat \ {0}
        /\ list.packages \in Seq(ToSet(Packages)) /\ Len(list.packages) <= Len(Packages)
        /\ step = Len(list.packages) /\ Len(Packages) \in Nat
        /\ \A i \in DOMAIN list.packages : <<Packages[i], Packages[i]>> \in keys.package
    <2>1. step # 0 => step = Len(list.packages)
      BY <1>2 DEF WarehouseInv, PackagesInv
    <2>2. step = 0 => step = Len(list.packages)
      BY <1>2
    <2>3. Len(Packages) \in Nat
      BY WarehouseAssumption, LenProperties
    <2> QED BY <2>1, <2>2, <2>3 DEF WarehouseInv, TypeInv, PackagesInv
  <1>5. step + 1 \in DOMAIN Packages /\ code \in ToSet(Packages)
    <2>1. DOMAIN Packages = 1 .. Len(Packages)
      BY WarehouseAssumption, LenProperties
    <2>2. step + 1 \in DOMAIN Packages
      BY <1>2, <1>4, <2>1
    <2> QED BY <1>1, <2>2 DEF ToSet
  <1>6. code \notin Ids
    BY <1>1, <1>5, CodeAssumption DEF Ids
  <1>7. IsNow(now)' /\ now'.number = now.number /\ now'.date = now.date /\ GlobalInv' /\ NoDeletedObjectIsFound'
    BY <1>2, <1>3, <1>6, CodeIsPut
  <1>8. TypeInv'
    BY <1>2, <1>3, <1>4, <1>7 DEF TypeInv
  <1>9. PackagesInv'
    <2>1. PICK s, S : s = list'.packages /\ S = ToSet(Packages)
      OBVIOUS
    <2>2. /\ s \in Seq(S) /\ Len(s) = step + 1 /\ DOMAIN s = 1 .. step + 1
          /\ DOMAIN list.packages = 1 .. step
      BY <1>3, <1>4, <1>5, <2>1, AppendProperties, LenProperties
    <2>3. \A i \in DOMAIN s : <<Packages[i], Packages[i]>> \in keys'.package
      <3> TAKE i \in DOMAIN s
      <3>1. CASE i = step + 1
        BY <1>1, <1>3, <3>1
      <3>2. CASE i # step + 1
        <4>1. i \in DOMAIN list.packages
          BY <1>4, <2>2, <3>2
        <4> QED BY <1>3, <1>4, <4>1
      <3> QED BY <3>1, <3>2
    <2>4. step + 1 <= Len(Packages)
      BY <1>2, <1>4
    <2> QED BY <1>2, <2>1, <2>2, <2>3, <2>4 DEF PackagesInv
  <1>10. DefinitionsInv'
    BY <1>2, <1>3 DEF WarehouseInv, DefinitionsInv
  <1>11. ReceiptsInv' /\ ItemsInv' /\ ItemsFollowReceipts'
    BY <1>2, <1>3, <1>4, ReceiptsStay
  <1>12. NumbersInv' /\ TornInv'
    BY <1>2, <1>3 DEF WarehouseInv, NumbersInv, TornInv, Listed
  <1>13. IndexesFollowList'
    BY <1>2, <1>3, <1>7, IndexesStay DEF WarehouseInv
  <1>14. TestNeverFails'
    BY <1>2 DEF WarehouseInv, TestNeverFails
  <1> QED BY <1>7, <1>8, <1>9, <1>10, <1>11, <1>12, <1>13, <1>14 DEF WarehouseInv

LEMMA InsertDefinitionKeepsInv == WarehouseInv /\ InsertItemDefinition => WarehouseInv'
  <1> SUFFICES ASSUME WarehouseInv, InsertItemDefinition PROVE WarehouseInv'
    OBVIOUS
  <1>1. PICK def : def = Definitions[step + 1]
    OBVIOUS
  <1>2. /\ phase = "definitions" /\ step < Len(Definitions) /\ (step = 0 => list.definitions = <<>>)
        /\ UNCHANGED <<cursor, rec, item, failed, clock, linked, made, torn>>
        /\ \/ /\ FindByCode(def.package) = {} /\ phase' = "aborted" /\ step' = 0
              /\ UNCHANGED <<list, keys, now>>
           \/ /\ list' = [list EXCEPT !.definitions = Append(@, def)]
              /\ keys' = [keys EXCEPT !.code = @ \cup {<<def.code, def>>},
                                      !.description = @ \cup {<<def.code, def>>}]
              /\ now' = Applied(<<<<"put", def.code, def.code>>>>)
              /\ step' = step + 1 /\ phase' = phase
    BY <1>1, Zenon DEF InsertItemDefinition, SaveDefinition, DefinitionsInsert, Put, Idle, Goto, HashCode
  <1>3. /\ step \in Nat /\ made \in Nat /\ clock \in Nat /\ cursor \in Nat \ {0}
        /\ list.definitions \in Seq(ToSet(Definitions)) /\ step = Len(list.definitions)
        /\ keys.code = {<<d.code, d>> : d \in ToSet(list.definitions)} /\ keys.description = keys.code
    <2>1. step # 0 => step = Len(list.definitions)
      BY <1>2 DEF WarehouseInv, DefinitionsInv
    <2>2. step = 0 => step = Len(list.definitions)
      BY <1>2
    <2> QED BY <2>1, <2>2 DEF WarehouseInv, TypeInv, DefinitionsInv
  <1>4. step + 1 \in DOMAIN Definitions /\ def \in ToSet(Definitions)
    <2>1. Len(Definitions) \in Nat /\ DOMAIN Definitions = 1 .. Len(Definitions)
      BY WarehouseAssumption, LenProperties
    <2>2. step + 1 \in DOMAIN Definitions
      BY <1>2, <1>3, <2>1
    <2> QED BY <1>1, <2>2 DEF ToSet
  <1>5. CASE /\ FindByCode(def.package) = {} /\ phase' = "aborted" /\ step' = 0
             /\ UNCHANGED <<list, keys, now>>
    <2>1. Len(list.packages) < Len(Packages)
      <3> SUFFICES ASSUME ~(Len(list.packages) < Len(Packages)) PROVE FALSE
        OBVIOUS
      <3>1. /\ Len(list.packages) <= Len(Packages) /\ list.packages \in Seq(ToSet(Packages))
            /\ \A i \in DOMAIN list.packages : <<Packages[i], Packages[i]>> \in keys.package
        BY DEF WarehouseInv, PackagesInv
      <3>2. Len(Packages) \in Nat /\ DOMAIN Packages = 1 .. Len(Packages)
        BY WarehouseAssumption, LenProperties
      <3>3. Len(list.packages) \in Nat /\ DOMAIN list.packages = 1 .. Len(list.packages)
        BY <3>1, LenProperties
      <3>4. DOMAIN list.packages = DOMAIN Packages
        BY <3>1, <3>2, <3>3
      <3>5. PICK j \in DOMAIN Packages : Packages[j] = def.package
        BY <1>1, <1>4, WarehouseAssumption
      <3>6. PICK e : e = <<def.package, def.package>>
        OBVIOUS
      <3>7. e \in keys.package /\ e[1] = def.package
        BY <3>1, <3>4, <3>5, <3>6
      <3>8. e[2] \in FindByCode(def.package)
        BY <3>7 DEF FindByCode, FindMember
      <3> QED BY <1>5, <3>8
    <2>2. TypeInv' /\ PackagesInv' /\ DefinitionsInv'
      BY <1>2, <1>5, <2>1 DEF WarehouseInv, TypeInv, PackagesInv, DefinitionsInv, IsNow
    <2>3. ReceiptsInv' /\ ItemsInv' /\ ItemsFollowReceipts'
      BY <1>2, <1>3, <1>5, ReceiptsStay
    <2>4. NumbersInv' /\ TornInv'
      BY <1>2, <1>5 DEF WarehouseInv, NumbersInv, TornInv, Listed
    <2>5. IndexesFollowList' /\ TestNeverFails' /\ GlobalInv'
      BY <1>2, <1>5 DEF WarehouseInv, IndexesFollowList, TestNeverFails, GlobalInv
    <2>6. NoDeletedObjectIsFound'
      BY <1>2, <1>5 DEF WarehouseInv, NoDeletedObjectIsFound
    <2> QED BY <2>2, <2>3, <2>4, <2>5, <2>6 DEF WarehouseInv
  <1>6. CASE /\ list' = [list EXCEPT !.definitions = Append(@, def)]
             /\ keys' = [keys EXCEPT !.code = @ \cup {<<def.code, def>>},
                                     !.description = @ \cup {<<def.code, def>>}]
             /\ now' = Applied(<<<<"put", def.code, def.code>>>>)
             /\ step' = step + 1 /\ phase' = phase
    <2>1. /\ list'.packages = list.packages /\ list'.definitions = Append(list.definitions, def)
          /\ list'.items = list.items /\ list'.receipts = list.receipts
          /\ keys'.package = keys.package /\ keys'.code = keys.code \cup {<<def.code, def>>}
          /\ keys'.description = keys.description \cup {<<def.code, def>>} /\ keys'.time = keys.time
          /\ list' = [packages |-> list'.packages, definitions |-> list'.definitions,
                      items |-> list'.items, receipts |-> list'.receipts]
          /\ keys' = [package |-> keys'.package, code |-> keys'.code,
                      description |-> keys'.description, time |-> keys'.time]
      BY <1>6 DEF WarehouseInv, TypeInv
    <2>2. def.code \notin Ids
      BY <1>1, <1>4, CodeAssumption DEF Ids
    <2>3. IsNow(now)' /\ now'.number = now.number /\ now'.date = now.date /\ GlobalInv' /\ NoDeletedObjectIsFound'
      BY <1>2, <1>6, <2>1, <2>2, CodeIsPut
    <2>4. TypeInv'
      BY <1>2, <1>3, <1>6, <2>1, <2>3 DEF TypeInv
    <2>5. PackagesInv'
      BY <1>2, <1>6, <2>1 DEF WarehouseInv, PackagesInv
    <2>6. DefinitionsInv'
      <3>1. PICK s, S : s = list'.definitions /\ S = ToSet(Definitions)
        OBVIOUS
      <3>2. s \in Seq(S) /\ Len(s) = step + 1 /\ ToSet(s) = ToSet(list.definitions) \cup {def}
        BY <1>3, <1>4, <2>1, <3>1, AppendProperties, LenProperties, AppendOnce
      <3>3. keys'.code = {<<d.code, d>> : d \in ToSet(s)} /\ keys'.description = keys'.code
        BY <1>3, <2>1, <3>2
      <3> QED BY <1>2, <1>6, <3>1, <3>2, <3>3 DEF DefinitionsInv
    <2>7. ReceiptsInv' /\ ItemsInv' /\ ItemsFollowReceipts'
      BY <1>2, <1>3, <2>1, ReceiptsStay
    <2>8. NumbersInv' /\ TornInv'
      BY <1>2, <1>6, <2>1 DEF WarehouseInv, NumbersInv, TornInv, Listed
    <2>9. IndexesFollowList'
      BY <1>2, <2>1, <2>3, IndexesStay DEF WarehouseInv
    <2>10. TestNeverFails'
      BY <1>2 DEF WarehouseInv, TestNeverFails
    <2> QED BY <2>3, <2>4, <2>5, <2>6, <2>7, <2>8, <2>9, <2>10 DEF WarehouseInv
  <1> QED BY <1>2, <1>5, <1>6

-----------------------------------------------------------------------------
(* Receipts are created                                                    *)

\* The definitions of the items of a receipt are members of the list.
LEMMA CursorsAreMembers ==
  ASSUME WarehouseInv, list.definitions # <<>>, NEW n \in Nat
  PROVE  \A k \in 1 .. n + 1 : /\ Cursors(n)[k] \in Nat \ {0}
                               /\ NextDefinition(Cursors(n)[k]) \in 1 .. Len(list.definitions)
  <1> DEFINE N == Len(list.definitions)
             C == Nat \ {0}
             g == [m \in 1 .. n |-> [c \in C |-> NextDefinition(c) + 1]]
             Step(at) == at = [i \in 1 .. (n + 1) |-> IF i = 1 THEN cursor ELSE NextDefinition(at[i - 1]) + 1]
             at == CHOOSE f : Step(f)
  <1>1. N \in Nat \ {0} /\ cursor \in C
    <2>1. list.definitions \in Seq(ToSet(Definitions)) /\ cursor \in Nat \ {0}
      BY DEF WarehouseInv, TypeInv, DefinitionsInv
    <2> QED BY <2>1, LenProperties, EmptySeq
  <1>2. \A c \in C : NextDefinition(c) \in 1 .. N /\ NextDefinition(c) + 1 \in C
    <2> TAKE c \in C
    <2>1. NextDefinition(c) = IF c > N THEN 1 ELSE c
      BY DEF NextDefinition
    <2> HIDE DEF N
    <2> QED BY <1>1, <2>1
  <1>3. PICK f \in [0 .. n -> C] : f[0] = cursor /\ \A m \in 1 .. n : f[m] = g[m][f[m - 1]]
    <2>1. g \in [1 .. n -> [C -> C]]
      BY <1>2
    <2>2. PICK D, G, c : D = C /\ G = g /\ c = cursor
      OBVIOUS
    <2>3. c \in D /\ G \in [1 .. n -> [D -> D]]
      BY <1>1, <2>1, <2>2
    <2>4. \E f \in [0 .. n -> D] : f[0] = c /\ \A m \in 1 .. n : f[m] = G[m][f[m - 1]]
      BY <2>3, Recursion
    <2> HIDE DEF g, C, N
    <2> QED BY <2>2, <2>4
  <1>4. \A m \in 1 .. n : f[m] = NextDefinition(f[m - 1]) + 1
    <2> TAKE m \in 1 .. n
    <2>1. m - 1 \in 0 .. n
      OBVIOUS
    <2>2. f[m - 1] \in C /\ f[m] = g[m][f[m - 1]]
      BY <1>3, <2>1
    <2> QED BY <2>2
  <1> DEFINE h == [i \in 1 .. (n + 1) |-> f[i - 1]]
  <1>5. Step(h)
    <2>1. \A i \in 1 .. (n + 1) : f[i - 1] = IF i = 1 THEN cursor ELSE NextDefinition(h[i - 1]) + 1
      <3> TAKE i \in 1 .. (n + 1)
      <3>1. CASE i = 1
        BY <1>3, <3>1
      <3>2. CASE i # 1
        <4>1. i - 1 \in 1 .. n /\ i - 1 \in 1 .. (n + 1)
          BY <3>2
        <4>2. h[i - 1] = f[i - 1 - 1]
          BY <4>1
        <4> QED BY <1>4, <3>2, <4>1, <4>2
      <3> QED BY <3>1, <3>2
    <2> QED BY <2>1
  <1>6. Step(at)
    <2> HIDE DEF Step, h
    <2> QED BY <1>5
  <1>7. Cursors(n) = at
    BY DEF Cursors
  <1> HIDE DEF at
  <1>8. at[1] = cursor /\ \A m \in 1 .. n : at[m + 1] = NextDefinition(at[m]) + 1
    <2>1. 1 \in 1 .. (n + 1) /\ \A m \in 1 .. n : m + 1 \in 1 .. (n + 1) /\ m + 1 # 1 /\ m + 1 - 1 = m
      OBVIOUS
    <2>2. at = [i \in 1 .. (n + 1) |-> IF i = 1 THEN cursor ELSE NextDefinition(at[i - 1]) + 1]
      BY <1>6
    <2> QED BY <2>1, <2>2
  <1> DEFINE P == {m \in 0 .. n : at[m + 1] \in C}
  <1>9. 0 \in P
    BY <1>1, <1>8
  <1>10. ASSUME NEW m \in 1 .. n, m - 1 \in P PROVE m \in P
    <2>1. m - 1 + 1 = m /\ at[m] \in C
      BY <1>10
    <2>2. at[m + 1] = NextDefinition(at[m]) + 1
      BY <1>8
    <2>3. NextDefinition(at[m]) + 1 \in C
      BY <1>2, <2>1
    <2>4. m \in 0 .. n
      OBVIOUS
    <2> HIDE DEF C
    <2> QED BY <2>2, <2>3, <2>4
  <1>11. 0 .. n \subseteq P
    <2> HIDE DEF P
    <2> QED BY <1>9, <1>10, UpTo
  <1>12. \A k \in 1 .. n + 1 : at[k] \in C
    <2>1. \A k \in 1 .. n + 1 : k - 1 \in 0 .. n /\ k - 1 + 1 = k
      OBVIOUS
    <2> QED BY <1>11, <2>1
  <1> QED BY <1>2, <1>7, <1>12

\* What a receipt r with the items of sequence s is created with.
Created(r, s, new, defs, a) ==
  /\ rec' = Set(rec, r, new)
  /\ item' = [x \in DOMAIN item \cup ToSet(s) |-> IF x \in ToSet(s) THEN NewItem(r, x, defs) ELSE item[x]]
  /\ list' = [list EXCEPT !.receipts = Append(@, r), !.items = @ \o s]
  /\ keys' = [keys EXCEPT !.time = @ \cup {<<new.date, x>> : x \in ToSet(s)}]
  /\ now' = [a EXCEPT !.number = @ \cup {<<new.number, r>>}, !.date = @ \cup {<<new.date, r>>}]

LEMMA NewReceiptIs ==
  ASSUME NEW n \in Nat, NEW date
  PROVE  LET new == NewReceipt(n, date) IN
         /\ new = [number |-> <<step, 0>>, date |-> date, items |-> [k \in 1 .. n |-> <<made + 1, k>>],
                   fields |-> CustomFields, indexed |-> <<step, 0>>]
         /\ new.number = <<step, 0>> /\ new.date = date
         /\ new.items = [k \in 1 .. n |-> <<made + 1, k>>]
  BY FieldsAreSet DEF NewReceipt

LEMMA CreateReceiptDoes ==
  ASSUME WarehouseInv, CreateReceipt
  PROVE  /\ phase = "receipts" /\ phase' = "receipts" /\ step' = step + 1 /\ made' = made + 1
         /\ step = 0 => list.receipts = <<>>
         /\ cursor' \in Nat \ {0} /\ UNCHANGED <<linked, failed, torn>>
         /\ \E n \in Nat, date \in Nat :
              /\ clock' = date
              /\ Created(<<made + 1>>, NewReceipt(n, date).items, NewReceipt(n, date), NewDefs(n),
                         Applied(SaveWrites(<<made + 1>>, NewReceipt(n, date), NewDefs(n))))
  <1>1. /\ phase = "receipts" /\ (step = 0 => list.receipts = <<>>)
        /\ UNCHANGED <<linked, failed, torn>>
        /\ \E n \in 0 .. MaxItems, date \in clock .. MaxClock :
             /\ clock' = date
             /\ made' = made + 1
             /\ \/ \E k \in 1 .. n : NextDefinition(Cursors(n)[k]) > Len(list.definitions)
                \/ /\ Save(<<made + 1>>, NewReceipt(n, date), NewDefs(n))
                   /\ cursor' = Cursors(n)[n + 1]
                   /\ step' = step + 1 /\ phase' = phase
    BY Zenon DEF CreateReceipt
  <1>2. PICK n \in 0 .. MaxItems, date \in clock .. MaxClock :
          /\ clock' = date
          /\ made' = made + 1
          /\ \/ \E k \in 1 .. n : NextDefinition(Cursors(n)[k]) > Len(list.definitions)
             \/ /\ Save(<<made + 1>>, NewReceipt(n, date), NewDefs(n))
                /\ cursor' = Cursors(n)[n + 1]
                /\ step' = step + 1 /\ phase' = phase
    BY <1>1
  <1>3. n \in Nat /\ date \in Nat /\ n + 1 \in 1 .. n + 1 /\ \A k \in 1 .. n : k \in 1 .. n + 1
    BY WarehouseAssumption DEF WarehouseInv, TypeInv
  <1>4. list.definitions # <<>> /\ Len(list.definitions) \in Nat
    BY <1>1, LenProperties DEF WarehouseInv, DefinitionsInv
  <1>5. \A k \in 1 .. n + 1 : /\ Cursors(n)[k] \in Nat \ {0}
                              /\ NextDefinition(Cursors(n)[k]) \in 1 .. Len(list.definitions)
    BY <1>3, <1>4, CursorsAreMembers
  <1>6. ~\E k \in 1 .. n : NextDefinition(Cursors(n)[k]) > Len(list.definitions)
    <2>1. \A j \in 1 .. Len(list.definitions) : ~(j > Len(list.definitions))
      BY <1>4
    <2> QED BY <1>3, <1>5, <2>1
  <1>7. /\ Save(<<made + 1>>, NewReceipt(n, date), NewDefs(n))
        /\ cursor' = Cursors(n)[n + 1]
        /\ step' = step + 1 /\ phase' = phase
    BY <1>2, <1>6
  <1>8. cursor' \in Nat \ {0}
    BY <1>3, <1>5, <1>7
  <1>9. Created(<<made + 1>>, NewReceipt(n, date).items, NewReceipt(n, date), NewDefs(n),
                Applied(SaveWrites(<<made + 1>>, NewReceipt(n, date), NewDefs(n))))
    BY <1>7, Zenon DEF Created, Save, Put, ItemsInsert, Reindex
  <1> QED BY <1>1, <1>2, <1>3, <1>7, <1>8, <1>9

\* A saved receipt is new in the global index, and so are its items.
LEMMA SaveLeads ==
  ASSUME IsNow(now), NEW r, NEW new, NEW defs, NEW n \in Nat, DOMAIN defs = 1 .. n
  PROVE  LET a == Applied(SaveWrites(r, new, defs)) IN
         /\ IsNow(a) /\ a.number = now.number /\ a.date = now.date
         /\ \A key \in DOMAIN a.global :
              \/ key \in DOMAIN now.global /\ a.global[key] = now.global[key]
              \/ key = new.number /\ a.global[key] = r
              \/ \E k \in 1 .. n : key = HashCode(defs[k]) /\ a.global[key] = new.items[k]
  <1>1. PICK w, W, a : w = SaveWrites(r, new, defs) /\ W = ToSet(w) /\ a = Applied(w)
    OBVIOUS
  <1>2. /\ \E S : w \in Seq(S)
        /\ \A x \in W :
             /\ x[1] = "put"
             /\ \/ x[2] = new.number /\ x[3] = r
                \/ \E k \in 1 .. n : x[2] = HashCode(defs[k]) /\ x[3] = new.items[k]
    <2>1. LET v == SaveWrites(r, new, defs) IN
          /\ \E S : v \in Seq(S)
          /\ \A x \in ToSet(v) :
               /\ x[1] = "put"
               /\ \/ x[2] = new.number /\ x[3] = r
                  \/ \E k \in 1 .. n : x[2] = HashCode(defs[k]) /\ x[3] = new.items[k]
      BY SaveWritesAre
    <2> QED BY <1>1, <2>1
  <1>3. LedBy(W, a)
    <2>1. \A x \in W : x[1] \in Kinds
      BY <1>2 DEF Kinds
    <2>2. PICK S : w \in Seq(S)
      BY <1>2
    <2> QED BY <1>1, <2>1, <2>2, AppliedLeadsBy
  <1>4. a.number = now.number
    <2>1. \A e : e \in a.number <=> e \in now.number
      BY <1>2, <1>3 DEF LedBy
    <2> QED BY <2>1
  <1>5. a.date = now.date
    <2>1. \A e : e \in a.date <=> e \in now.date
      BY <1>2, <1>3 DEF LedBy
    <2> QED BY <2>1
  <1>6. \A key \in DOMAIN a.global :
          \/ key \in DOMAIN now.global /\ a.global[key] = now.global[key]
          \/ key = new.number /\ a.global[key] = r
          \/ \E k \in 1 .. n : key = HashCode(defs[k]) /\ a.global[key] = new.items[k]
    <2> TAKE key \in DOMAIN a.global
    <2>1. \/ \E x \in W : x[1] = "put" /\ x[2] = key /\ x[3] = a.global[key]
          \/ key \in DOMAIN now.global /\ a.global[key] = now.global[key]
      BY <1>3 DEF LedBy
    <2>2. ASSUME NEW x \in W, x[2] = key, x[3] = a.global[key]
          PROVE  \/ key = new.number /\ a.global[key] = r
                 \/ \E k \in 1 .. n : key = HashCode(defs[k]) /\ a.global[key] = new.items[k]
      BY <1>2, <2>2
    <2> QED BY <2>1, <2>2
  <1> QED BY <1>1, <1>3, <1>4, <1>5, <1>6 DEF LedBy

\* A new receipt and new items are none that there were.
LEMMA NewIdsAreFresh ==
  ASSUME WarehouseInv
  PROVE  /\ made + 1 \in Nat /\ <<made + 1>> \in Ids /\ <<made + 1>> \notin DOMAIN rec
         /\ \A k \in Nat : <<made + 1, k>> \in Ids /\ <<made + 1, k>> \notin DOMAIN item
         /\ <<made + 1>> \notin DOMAIN item /\ \A k \in Nat : <<made + 1, k>> \notin DOMAIN rec
         /\ \A n \in Nat : n <= made => n # made + 1 /\ n <= made + 1
  <1>1. made \in Nat /\ made + 1 \in Nat /\ ~(made + 1 <= made)
    BY DEF WarehouseInv, TypeInv
  <1>2. \A r \in DOMAIN rec : \E n \in Nat : r = <<n>> /\ n <= made
    BY DEF WarehouseInv, ReceiptsInv
  <1>3. \A x \in DOMAIN item : \E n, k \in Nat : x = <<n, k>> /\ n <= made
    <2> TAKE x \in DOMAIN item
    <2>1. PICK n, k \in Nat : x = <<n, k>> /\ item[x].receipt = <<n>>
      BY DEF WarehouseInv, ItemsInv
    <2>2. <<n>> \in DOMAIN rec
      BY <2>1 DEF WarehouseInv, ItemsInv
    <2>3. n <= made
      BY <1>2, <2>2
    <2> QED BY <2>1, <2>3
  <1>4. PICK m : m = made + 1 /\ m \in Nat /\ ~(m <= made)
    BY <1>1
  <1>5. <<m>> \in Ids /\ \A k \in Nat : <<m, k>> \in Ids
    BY <1>4 DEF Ids
  <1>6. <<m>> \notin DOMAIN rec /\ \A k \in Nat : <<m, k>> \notin DOMAIN item
    BY <1>2, <1>3, <1>4
  <1>7. <<m>> \notin DOMAIN item /\ \A k \in Nat : <<m, k>> \notin DOMAIN rec
    BY <1>2, <1>3, <1>4
  <1> QED BY <1>1, <1>4, <1>5, <1>6, <1>7

LEMMA CreateReceiptKeepsInv == WarehouseInv /\ CreateReceipt => WarehouseInv'
  <1> SUFFICES ASSUME WarehouseInv, CreateReceipt PROVE WarehouseInv'
    OBVIOUS
  <1>1. /\ phase = "receipts" /\ phase' = "receipts" /\ step' = step + 1 /\ made' = made + 1
        /\ (step = 0 => list.receipts = <<>>)
        /\ cursor' \in Nat \ {0} /\ UNCHANGED <<linked, failed, torn>>
    BY CreateReceiptDoes
  <1>2. PICK n \in Nat, date \in Nat :
          /\ clock' = date
          /\ Created(<<made + 1>>, NewReceipt(n, date).items, NewReceipt(n, date), NewDefs(n),
                     Applied(SaveWrites(<<made + 1>>, NewReceipt(n, date), NewDefs(n))))
    BY CreateReceiptDoes
  <1>3. PICK m, r, new, s, defs, a :
          /\ m = made + 1 /\ r = <<m>> /\ new = NewReceipt(n, date) /\ s = new.items
          /\ defs = NewDefs(n) /\ a = Applied(SaveWrites(r, new, defs))
    OBVIOUS
  <1>4. /\ clock' = date
        /\ Created(r, s, new, defs, a)
    BY <1>2, <1>3
  <1>5. /\ new = [number |-> <<step, 0>>, date |-> date, items |-> s,
                  fields |-> CustomFields, indexed |-> <<step, 0>>]
        /\ new.number = <<step, 0>> /\ new.date = date
        /\ s = [k \in 1 .. n |-> <<m, k>>]
    BY <1>3, NewReceiptIs
  <1>6. /\ m \in Nat /\ r \in Ids /\ r \notin DOMAIN rec /\ r \notin DOMAIN item
        /\ \A k \in Nat : <<m, k>> \in Ids /\ <<m, k>> \notin DOMAIN item /\ <<m, k>> \notin DOMAIN rec
        /\ \A i \in Nat : i <= made => i # m /\ i <= m
    BY <1>3, NewIdsAreFresh
  <1>7. s \in Seq(Ids) /\ \A x : x \in ToSet(s) <=> \E k \in 1 .. n : x = <<m, k>>
    <2>1. PICK T : T = Ids
      OBVIOUS
    <2>2. \A k \in 1 .. n : k \in Nat /\ <<m, k>> \in T
      BY <1>6, <2>1
    <2>3. s \in Seq(T)
      BY <1>5, <2>2, IsASeq
    <2>4. DOMAIN s = 1 .. n /\ \A k \in 1 .. n : s[k] = <<m, k>>
      BY <1>5
    <2> QED BY <2>1, <2>3, <2>4 DEF ToSet
  <1>8. PICK I : I = ToSet(s)
    OBVIOUS
  <1>9. \A x \in I : x \in Ids /\ x \notin DOMAIN item /\ x \notin DOMAIN rec /\ x # r
    <2> TAKE x \in I
    <2>1. PICK k \in Nat : x = <<m, k>>
      BY <1>7, <1>8
    <2>2. x # r
      BY <1>3, <2>1
    <2> QED BY <1>6, <2>1, <2>2
  <1>10. /\ DOMAIN rec' = DOMAIN rec \cup {r} /\ rec'[r] = new
         /\ \A q \in DOMAIN rec : rec'[q] = rec[q]
    BY <1>4, <1>6 DEF Created, Set
  <1>11. /\ DOMAIN item' = DOMAIN item \cup I
         /\ \A x \in I : item'[x].receipt = r /\ item'[x].def = defs[x[2]]
         /\ \A x \in DOMAIN item : item'[x] = item[x]
    BY <1>4, <1>8, <1>9 DEF Created, NewItem
  <1>12. /\ list'.packages = list.packages /\ list'.definitions = list.definitions
         /\ list'.items = list.items \o s /\ list'.receipts = Append(list.receipts, r)
         /\ list' = [packages |-> list'.packages, definitions |-> list'.definitions,
                     items |-> list'.items, receipts |-> list'.receipts]
    BY <1>4 DEF Created, WarehouseInv, TypeInv
  <1>13. /\ keys'.package = keys.package /\ keys'.code = keys.code
         /\ keys'.description = keys.description
         /\ keys'.time = keys.time \cup {<<date, x>> : x \in I}
         /\ keys' = [package |-> keys'.package, code |-> keys'.code,
                     description |-> keys'.description, time |-> keys'.time]
    BY <1>4, <1>5, <1>8 DEF Created, WarehouseInv, TypeInv
  <1>14. PICK b : b = now'
    OBVIOUS
  <1>15. /\ IsNow(a) /\ a.number = now.number /\ a.date = now.date
         /\ \A key \in DOMAIN a.global :
              \/ key \in DOMAIN now.global /\ a.global[key] = now.global[key]
              \/ key = new.number /\ a.global[key] = r
              \/ \E k \in 1 .. n : key = HashCode(defs[k]) /\ a.global[key] = <<m, k>>
    <2>1. IsNow(now)
      BY DEF WarehouseInv, TypeInv
    <2>2. DOMAIN defs = 1 .. n
      BY <1>3 DEF NewDefs
    <2>3. LET c == Applied(SaveWrites(r, new, defs)) IN
          /\ IsNow(c) /\ c.number = now.number /\ c.date = now.date
          /\ \A key \in DOMAIN c.global :
               \/ key \in DOMAIN now.global /\ c.global[key] = now.global[key]
               \/ key = new.number /\ c.global[key] = r
               \/ \E k \in 1 .. n : key = HashCode(defs[k]) /\ c.global[key] = new.items[k]
      BY <2>1, <2>2, SaveLeads
    <2>4. \A k \in 1 .. n : new.items[k] = <<m, k>>
      BY <1>3, <1>5
    <2> QED BY <1>3, <2>3, <2>4
  <1>16. /\ IsNow(b) /\ b.global = a.global
         /\ b.number = now.number \cup {<<<<step, 0>>, r>>}
         /\ b.date = now.date \cup {<<date, r>>}
    BY <1>4, <1>5, <1>14, <1>15 DEF Created, IsNow
  <1>17. /\ list.receipts \in Seq(Ids) /\ Once(list.receipts) /\ Listed \subseteq DOMAIN rec
         /\ list.items \in Seq(Ids) /\ Stored \subseteq DOMAIN item
         /\ step \in Nat /\ made \in Nat
    BY DEF WarehouseInv, TypeInv, ReceiptsInv, ItemsInv
  <1>18. list'.receipts \in Seq(Ids) /\ ToSet(list'.receipts) = Listed \cup {r} /\ Once(list'.receipts)
    <2>1. ~Contains(list.receipts, r)
      <3>1. r \notin Listed
        BY <1>6, <1>17
      <3> QED BY <3>1 DEF Listed, Contains, ToSet
    <2>2. PICK T, q : T = Ids /\ q = list.receipts
      OBVIOUS
    <2>3. /\ Append(q, r) \in Seq(T) /\ ToSet(Append(q, r)) = ToSet(q) \cup {r}
          /\ Once(q) /\ ~Contains(q, r) => Once(Append(q, r))
      BY <1>6, <1>17, <2>2, AppendOnce
    <2> QED BY <1>12, <1>17, <2>1, <2>2, <2>3 DEF Listed
  <1>19. list'.items \in Seq(Ids) /\ ToSet(list'.items) = Stored \cup I
    <2>1. PICK T, q : T = Ids /\ q = list.items
      OBVIOUS
    <2>2. q \o s \in Seq(T) /\ ToSet(q \o s) = ToSet(q) \cup ToSet(s)
      BY <1>7, <1>17, <2>1, ConcatSet
    <2> QED BY <1>8, <1>12, <2>1, <2>2 DEF Stored
  <1>20. TypeInv'
    <2>1. step' \in Nat /\ made' \in Nat /\ clock' \in Nat
      BY <1>1, <1>4, <1>17
    <2>2. IsNow(now)'
      BY <1>14, <1>16 DEF IsNow
    <2> QED BY <1>1, <1>12, <1>13, <2>1, <2>2 DEF TypeInv
  <1>21. PackagesInv' /\ DefinitionsInv'
    BY <1>1, <1>12, <1>13 DEF WarehouseInv, PackagesInv, DefinitionsInv
  <1>22. ReceiptsInv'
    <2>1. ASSUME NEW q \in DOMAIN rec'
          PROVE  /\ \E i \in Nat : q = <<i>> /\ i <= made'
                 /\ rec'[q] \in [number : Nat \X Nat, date : Nat, items : Seq(Ids),
                                 fields : {CustomFields}, indexed : {rec'[q].number}]
                 /\ \A x \in ToSet(rec'[q].items) : x \in DOMAIN item' /\ item'[x].receipt = q
      <3>1. CASE q = r
        <4>1. m <= made' /\ m \in Nat
          BY <1>1, <1>3, <1>6
        <4>2. new \in [number : Nat \X Nat, date : Nat, items : Seq(Ids),
                       fields : {CustomFields}, indexed : {new.number}]
          BY <1>5, <1>7, <1>17
        <4>3. \A x \in I : x \in DOMAIN item' /\ item'[x].receipt = r
          BY <1>11
        <4> QED BY <1>3, <1>8, <1>10, <3>1, <4>1, <4>2, <4>3
      <3>2. CASE q \in DOMAIN rec
        <4>1. /\ \E i \in Nat : q = <<i>> /\ i <= made
              /\ rec[q] \in [number : Nat \X Nat, date : Nat, items : Seq(Ids),
                             fields : {CustomFields}, indexed : {rec[q].number}]
              /\ \A x \in ToSet(rec[q].items) : x \in DOMAIN item /\ item[x].receipt = q
          BY <3>2 DEF WarehouseInv, ReceiptsInv
        <4>2. \E i \in Nat : q = <<i>> /\ i <= made'
          BY <1>1, <1>3, <1>6, <4>1
        <4>3. rec'[q] = rec[q]
          BY <1>10, <3>2
        <4>4. \A x \in ToSet(rec[q].items) : x \in DOMAIN item' /\ item'[x].receipt = q
          BY <1>11, <4>1
        <4> QED BY <4>1, <4>2, <4>3, <4>4
      <3> QED BY <1>10, <3>1, <3>2
    <2>2. ToSet(list'.receipts) \subseteq DOMAIN rec'
      BY <1>10, <1>17, <1>18
    <2> QED BY <1>18, <2>1, <2>2 DEF ReceiptsInv, Listed
  <1>23. ItemsInv'
    <2>1. ASSUME NEW x \in DOMAIN item'
          PROVE  /\ \E i, k \in Nat : x = <<i, k>> /\ item'[x].receipt = <<i>>
                 /\ item'[x].receipt \in DOMAIN rec'
                 /\ <<rec'[item'[x].receipt].date, x>> \in keys'.time
      <3>1. CASE x \in I
        <4>1. PICK k \in 1 .. n : x = <<m, k>>
          BY <1>7, <1>8, <3>1
        <4>2. k \in Nat /\ item'[x].receipt = <<m>>
          BY <1>3, <1>11, <3>1
        <4>3. rec'[item'[x].receipt].date = date /\ item'[x].receipt \in DOMAIN rec'
          BY <1>5, <1>10, <1>11, <3>1
        <4>4. <<date, x>> \in keys'.time
          BY <1>13, <3>1
        <4> QED BY <1>6, <4>1, <4>2, <4>3, <4>4
      <3>2. CASE x \in DOMAIN item
        <4>1. /\ \E i, k \in Nat : x = <<i, k>> /\ item[x].receipt = <<i>>
              /\ item[x].receipt \in DOMAIN rec /\ <<rec[item[x].receipt].date, x>> \in keys.time
          BY <3>2 DEF WarehouseInv, ItemsInv
        <4>2. item'[x] = item[x] /\ rec'[item[x].receipt] = rec[item[x].receipt]
          BY <1>10, <1>11, <3>2, <4>1
        <4> QED BY <1>10, <1>13, <4>1, <4>2
      <3> QED BY <1>11, <3>1, <3>2
    <2>2. \A e \in keys'.time : e[1] \in Nat
      <3>1. \A e \in keys.time : e[1] \in Nat
        BY DEF WarehouseInv, ItemsInv
      <3>2. \A x \in I : <<date, x>>[1] \in Nat
        BY <1>2
      <3> QED BY <1>13, <3>1, <3>2
    <2>3. ToSet(list'.items) \subseteq DOMAIN item'
      BY <1>11, <1>17, <1>19
    <2> QED BY <1>19, <2>1, <2>2, <2>3 DEF ItemsInv, Stored
  <1>24. NumbersInv'
    <2>1. rec'[r].number[1] = step
      BY <1>5, <1>10
    <2>2. \A q \in Listed : q # r /\ rec'[q] = rec[q] /\ rec[q].number[1] \in Nat /\ rec[q].number[1] < step
      <3>1. \A q \in Listed : rec[q].number \in Nat \X Nat
        BY <1>17 DEF WarehouseInv, ReceiptsInv
      <3>2. \A q \in Listed : rec[q].number[1] < step
        <4>1. step = 0 => Listed = {}
          BY <1>1 DEF Listed, ToSet
        <4> QED BY <1>1, <4>1 DEF WarehouseInv, NumbersInv
      <3> QED BY <1>6, <1>10, <1>17, <3>1, <3>2
    <2>3. \A q, t \in Listed : rec[q].number[1] = rec[t].number[1] => q = t
      BY DEF WarehouseInv, NumbersInv
    <2>4. \A q \in Listed \cup {r} : rec'[q].number[1] < step'
      BY <1>1, <1>17, <2>1, <2>2
    <2>5. \A q, t \in Listed \cup {r} : rec'[q].number[1] = rec'[t].number[1] => q = t
      BY <1>17, <2>1, <2>2, <2>3
    <2> QED BY <1>18, <2>4, <2>5 DEF NumbersInv, Listed
  <1>25. TornInv'
    <2>1. ASSUME NEW t \in torn PROVE list'.receipts # <<>> /\ t = Head(list'.receipts)
      <3>1. list.receipts # <<>> /\ t = Head(list.receipts)
        BY DEF WarehouseInv, TornInv
      <3>2. PICK q, T : q = list.receipts /\ T = Ids
        OBVIOUS
      <3>3. q \in Seq(T) /\ r \in T /\ q # <<>>
        BY <1>6, <1>17, <3>1, <3>2
      <3>4. Append(q, r) # <<>> /\ Head(Append(q, r)) = Head(q)
        BY <3>3
      <3> QED BY <1>12, <3>1, <3>2, <3>4
    <2> QED BY <1>1, <2>1 DEF TornInv
  <1>26. ASSUME NEW key \in DOMAIN b.global, NEW o, o = b.global[key]
         PROVE  /\ o \in DOMAIN item' => key = HashCode(item'[o].def) /\ o \in Stored \cup I
                /\ \A i, k \in Nat : o = <<i>> \/ o = <<i, k>> => i <= made'
                /\ o \in DOMAIN rec' => o \in Listed \cup {r} \/ rec'[o].number # key
    <2>1. \/ key \in DOMAIN now.global /\ o = now.global[key]
          \/ o = r
          \/ \E k \in 1 .. n : key = HashCode(defs[k]) /\ o = <<m, k>>
      BY <1>15, <1>16, <1>26
    <2>2. CASE key \in DOMAIN now.global /\ o = now.global[key]
      <3>1. \A i, k \in Nat : o = <<i>> \/ o = <<i, k>> => i <= made
        BY <2>2 DEF WarehouseInv, GlobalInv
      <3>2. \A i, k \in Nat : o = <<i>> \/ o = <<i, k>> => i <= made'
        BY <1>1, <1>3, <1>6, <3>1
      <3>3. o # r /\ o \notin I
        <4>1. \A k \in 1 .. n : k \in Nat
          OBVIOUS
        <4>2. o # <<m>> /\ \A k \in Nat : o # <<m, k>>
          BY <1>6, <3>1
        <4> QED BY <1>3, <1>7, <1>8, <4>1, <4>2
      <3>4. o \in DOMAIN item' => key = HashCode(item'[o].def)
        <4>1. o \in DOMAIN item => key = HashCode(item[o].def)
          BY <2>2 DEF WarehouseInv, GlobalInv
        <4> QED BY <1>11, <3>3, <4>1
      <3>5. o \in DOMAIN item' => o \in Stored
        <4>1. o \in DOMAIN item => o \in Stored
          BY <2>2 DEF WarehouseInv, NoDeletedObjectIsFound, Stored
        <4> QED BY <1>11, <3>3, <4>1
      <3>6. o \in DOMAIN rec' => o \in Listed \/ rec'[o].number # key
        <4>1. o \in DOMAIN rec => o \in Listed \/ rec[o].number # key
          BY <2>2 DEF WarehouseInv, NoDeletedObjectIsFound, Listed
        <4> QED BY <1>10, <3>3, <4>1
      <3> QED BY <3>2, <3>4, <3>5, <3>6
    <2>3. CASE o = r
      <3>1. \A i, k \in Nat : o = <<i>> \/ o = <<i, k>> => i <= made'
        <4>1. \A i, k \in Nat : <<m>> = <<i>> \/ <<m>> = <<i, k>> => i = m
          OBVIOUS
        <4>2. made' = m /\ m <= m
          BY <1>1, <1>3, <1>6
        <4> QED BY <1>3, <2>3, <4>1, <4>2
      <3>2. o \notin DOMAIN item'
        BY <1>6, <1>9, <1>11, <2>3
      <3> QED BY <2>3, <3>1, <3>2
    <2>4. CASE \E k \in 1 .. n : key = HashCode(defs[k]) /\ o = <<m, k>>
      <3>1. PICK k \in 1 .. n : key = HashCode(defs[k]) /\ o = <<m, k>>
        BY <2>4
      <3>2. o \in I /\ o[2] = k
        BY <1>7, <1>8, <3>1
      <3>3. key = HashCode(item'[o].def)
        BY <1>11, <3>1, <3>2
      <3>4. o \notin DOMAIN rec'
        BY <1>9, <1>10, <3>2
      <3>5. \A i, j \in Nat : o = <<i>> \/ o = <<i, j>> => i <= made'
        <4>1. \A i, j \in Nat : <<m, k>> = <<i>> \/ <<m, k>> = <<i, j>> => i = m
          OBVIOUS
        <4>2. made' = m /\ m <= m
          BY <1>1, <1>3, <1>6
        <4> QED BY <3>1, <4>1, <4>2
      <3> QED BY <3>2, <3>3, <3>4, <3>5
    <2> QED BY <2>1, <2>2, <2>3, <2>4
  <1>27. GlobalInv' /\ NoDeletedObjectIsFound'
    BY <1>14, <1>18, <1>19, <1>26 DEF GlobalInv, NoDeletedObjectIsFound, HashCode
  <1>28. IndexesFollowList'
    <2>1. /\ now.number \subseteq {<<rec[q].number, q>> : q \in Listed}
          /\ now.date \subseteq {<<rec[q].date, q>> : q \in Listed}
          /\ \A q \in Listed \ torn : <<rec[q].number, q>> \in now.number /\ <<rec[q].date, q>> \in now.date
      BY DEF WarehouseInv, IndexesFollowList, Listed
    <2>2. \A q \in Listed : rec'[q] = rec[q]
      BY <1>10, <1>17
    <2>3. rec'[r].number = <<step, 0>> /\ rec'[r].date = date
      BY <1>5, <1>10
    <2>4. b.number \subseteq {<<rec'[q].number, q>> : q \in Listed \cup {r}}
      BY <1>16, <2>1, <2>2, <2>3
    <2>5. b.date \subseteq {<<rec'[q].date, q>> : q \in Listed \cup {r}}
      BY <1>16, <2>1, <2>2, <2>3
    <2>6. \A q \in (Listed \cup {r}) \ torn : /\ <<rec'[q].number, q>> \in b.number
                                            /\ <<rec'[q].date, q>> \in b.date
      BY <1>16, <2>1, <2>2, <2>3
    <2> QED BY <1>1, <1>14, <1>18, <2>4, <2>5, <2>6 DEF IndexesFollowList
  <1>29. ItemsFollowReceipts'
    <2>1. /\ UNION {ToSet(rec[q].items) : q \in Listed} \subseteq Stored
          /\ linked => UNION {ToSet(rec[q].items) : q \in Listed} = Stored
      BY DEF WarehouseInv, ItemsFollowReceipts, Listed, Stored
    <2>2. UNION {ToSet(rec'[q].items) : q \in Listed \cup {r}}
            = (UNION {ToSet(rec[q].items) : q \in Listed}) \cup I
      <3>1. \A q \in Listed : rec'[q] = rec[q]
        BY <1>10, <1>17
      <3>2. ToSet(rec'[r].items) = I
        BY <1>3, <1>8, <1>10
      <3>3. UNION {ToSet(rec'[q].items) : q \in Listed} = UNION {ToSet(rec[q].items) : q \in Listed}
        BY <3>1
      <3> QED BY <3>2, <3>3
    <2>3. PICK O, Q : /\ O = UNION {ToSet(rec[q].items) : q \in Listed}
                      /\ Q = UNION {ToSet(rec'[q].items) : q \in Listed \cup {r}}
      OBVIOUS
    <2>4. /\ Q \subseteq Stored \cup I
          /\ linked' => Q = Stored \cup I
      BY <1>1, <2>1, <2>2, <2>3
    <2> QED BY <1>18, <1>19, <2>3, <2>4 DEF ItemsFollowReceipts
  <1>30. TestNeverFails'
    BY <1>1 DEF WarehouseInv, TestNeverFails
  <1> QED BY <1>20, <1>21, <1>22, <1>23, <1>24, <1>25, <1>27, <1>28, <1>29, <1>30 DEF WarehouseInv

-----------------------------------------------------------------------------
(* Receipts are edited                                                     *)

\* The loop of the edits ends behind the receipt that moved to the end of the list.
LEMMA NoSuccessor ==
  ASSUME NEW S, NEW q \in Seq(S), NEW x \in S, Once(Append(q, x))
  PROVE  Successor(Append(q, x), x) = Nil
  <1>1. PICK t, n : t = Append(q, x) /\ n = Len(q) + 1
    OBVIOUS
  <1>2. n \in Nat /\ Len(t) = n /\ DOMAIN t = 1 .. n /\ t[n] = x /\ n \in 1 .. n
    BY <1>1, AppendProperties, LenProperties
  <1>3. \A j \in DOMAIN t : t[j] = x => j = n
    BY <1>1, <1>2 DEF Once
  <1>4. (CHOOSE j \in DOMAIN t : t[j] = x) = n
    BY <1>2, <1>3
  <1>5. Successor(t, x) = Nil
    BY <1>2, <1>4 DEF Successor
  <1> QED BY <1>1, <1>5

LEMMA EditReceiptKeepsInv == WarehouseInv /\ EditReceipt => WarehouseInv'
  <1> SUFFICES ASSUME WarehouseInv, EditReceipt PROVE WarehouseInv'
    OBVIOUS
  <1>1. PICK r, number, a, receipts :
          /\ r = walk /\ number = Edited(r) /\ a = Applied(DropWrites(r, number))
          /\ receipts = Append(Without(list.receipts, {r}), r)
    OBVIOUS
  <1>2. /\ phase = "edit" /\ walk # Nil
        /\ rec' = [rec EXCEPT ![r].number = number, ![r].indexed = number]
        /\ now' = [a EXCEPT !.number = @ \cup {<<number, r>>}, !.date = @ \cup {<<rec[r].date, r>>}]
        /\ list' = [list EXCEPT !.receipts = receipts]
        /\ walk' = Successor(receipts, r)
        /\ torn' = torn \ {r}
        /\ UNCHANGED <<phase, step, cursor, root, keys, item, failed, clock, linked, made, starts>>
    BY <1>1, Zenon DEF EditReceipt, Reindex, Put
  <1>3. /\ list.receipts \in Seq(Ids) /\ Once(list.receipts) /\ Listed \subseteq DOMAIN rec
        /\ list.receipts # <<>> /\ r = Head(list.receipts)
        /\ \A t \in torn : t = r
    BY <1>1, <1>2 DEF WarehouseInv, ReceiptsInv, TornInv
  <1>4. r \in Listed /\ r \in DOMAIN rec /\ r \in Ids
    <2>1. PICK T, q : T = Ids /\ q = list.receipts
      OBVIOUS
    <2>2. Head(q) \in T /\ ToSet(q) = {Head(q)} \cup ToSet(Tail(q))
      BY <1>3, <2>1, TailSet
    <2> QED BY <1>3, <2>1, <2>2 DEF Listed
  <1>5. receipts \in Seq(Ids) /\ ToSet(receipts) = Listed /\ Once(receipts)
    <2>1. PICK T, q, u : T = Ids /\ q = list.receipts /\ u = Without(q, {r})
      OBVIOUS
    <2>2. u \in Seq(T) /\ ToSet(u) = ToSet(q) \ {r} /\ Once(u)
      BY <1>3, <2>1, WithoutKeeps
    <2>3. ~Contains(u, r)
      BY <2>2 DEF Contains, ToSet
    <2>4. /\ Append(u, r) \in Seq(T) /\ ToSet(Append(u, r)) = ToSet(u) \cup {r}
          /\ Once(u) /\ ~Contains(u, r) => Once(Append(u, r))
      <3>1. r \in T /\ u \in Seq(T)
        BY <1>4, <2>1, <2>2
      <3> QED BY <3>1, AppendOnce
    <2> QED BY <1>1, <1>4, <2>1, <2>2, <2>3, <2>4 DEF Listed
  <1>6. walk' = Nil
    <2>1. PICK T, q, u : T = Ids /\ q = list.receipts /\ u = Without(q, {r})
      OBVIOUS
    <2>2. u \in Seq(T)
      BY <1>3, <2>1, WithoutKeeps
    <2>3. Successor(Append(u, r), r) = Nil
      BY <1>1, <1>4, <1>5, <2>1, <2>2, NoSuccessor
    <2> QED BY <1>1, <1>2, <2>1, <2>3
  <1>7. rec[r] \in [number : Nat \X Nat, date : Nat, items : Seq(Ids),
                    fields : {CustomFields}, indexed : {rec[r].number}]
    BY <1>4 DEF WarehouseInv, ReceiptsInv
  <1>8. rec[r].indexed = rec[r].number /\ rec[r].number \in Nat \X Nat
    BY <1>7
  <1>9. number \in Nat \X Nat /\ number[1] = rec[r].number[1]
    BY <1>1, <1>8 DEF Edited
  <1>10. /\ DOMAIN rec' = DOMAIN rec
         /\ \A q \in DOMAIN rec : q # r => rec'[q] = rec[q]
         /\ rec'[r] = [[rec[r] EXCEPT !.number = number] EXCEPT !.indexed = number]
    BY <1>2, <1>4
  <1>11. /\ rec'[r] \in [number : Nat \X Nat, date : Nat, items : Seq(Ids),
                         fields : {CustomFields}, indexed : {rec'[r].number}]
         /\ rec'[r].number = number /\ rec'[r].date = rec[r].date /\ rec'[r].items = rec[r].items
    <2>1. PICK p, u : p = rec[r] /\ u = rec'[r]
      OBVIOUS
    <2>2. PICK F, Q : F = {CustomFields} /\ Q = Seq(Ids)
      OBVIOUS
    <2>3. p \in [number : Nat \X Nat, date : Nat, items : Q, fields : F, indexed : {p.number}]
      BY <1>7, <2>1, <2>2
    <2>4. u = [[p EXCEPT !.number = number] EXCEPT !.indexed = number]
      BY <1>10, <2>1
    <2>5. u = [number |-> number, date |-> p.date, items |-> p.items, fields |-> p.fields, indexed |-> number]
      BY <2>3, <2>4
    <2>6. u \in [number : Nat \X Nat, date : Nat, items : Q, fields : F, indexed : {u.number}]
      BY <1>9, <2>3, <2>5
    <2> QED BY <2>1, <2>2, <2>5, <2>6
  <1>12. \A q \in DOMAIN rec : rec'[q].date = rec[q].date /\ rec'[q].items = rec[q].items
    BY <1>10, <1>11
  <1>13. /\ list'.packages = list.packages /\ list'.definitions = list.definitions
         /\ list'.items = list.items /\ list'.receipts = receipts
         /\ list' = [packages |-> list'.packages, definitions |-> list'.definitions,
                     items |-> list'.items, receipts |-> list'.receipts]
    BY <1>2 DEF WarehouseInv, TypeInv
  <1>14. /\ IsNow(a) /\ a.number = now.number \ {<<rec[r].number, r>>}
         /\ a.date = now.date \ {<<rec[r].date, r>>}
         /\ \A k \in DOMAIN a.global : k \in DOMAIN now.global /\ a.global[k] = now.global[k]
    <2>1. IsNow(now)
      BY DEF WarehouseInv, TypeInv
    <2>2. LET c == Applied(DropWrites(r, number)) IN
          /\ IsNow(c) /\ c.number = now.number \ {<<rec[r].number, r>>}
          /\ c.date = now.date \ {<<rec[r].date, r>>}
          /\ \A k \in DOMAIN c.global : k \in DOMAIN now.global /\ c.global[k] = now.global[k]
      BY <1>8, <2>1, DropLeads
    <2> QED BY <1>1, <2>2
  <1>15. PICK b : b = now'
    OBVIOUS
  <1>16. /\ IsNow(b) /\ b.global = a.global
         /\ b.number = (now.number \ {<<rec[r].number, r>>}) \cup {<<number, r>>}
         /\ b.date = (now.date \ {<<rec[r].date, r>>}) \cup {<<rec[r].date, r>>}
    BY <1>2, <1>14, <1>15 DEF IsNow
  <1>17. TypeInv'
    <2>1. IsNow(now)'
      BY <1>15, <1>16 DEF IsNow
    <2> QED BY <1>2, <1>13, <2>1 DEF WarehouseInv, TypeInv
  <1>18. PackagesInv' /\ DefinitionsInv'
    BY <1>2, <1>13 DEF WarehouseInv, PackagesInv, DefinitionsInv
  <1>19. ReceiptsInv'
    <2>1. ASSUME NEW q \in DOMAIN rec'
          PROVE  /\ \E i \in Nat : q = <<i>> /\ i <= made'
                 /\ rec'[q] \in [number : Nat \X Nat, date : Nat, items : Seq(Ids),
                                 fields : {CustomFields}, indexed : {rec'[q].number}]
                 /\ \A x \in ToSet(rec'[q].items) : x \in DOMAIN item' /\ item'[x].receipt = q
      <3>1. /\ \E i \in Nat : q = <<i>> /\ i <= made
            /\ rec[q] \in [number : Nat \X Nat, date : Nat, items : Seq(Ids),
                           fields : {CustomFields}, indexed : {rec[q].number}]
            /\ \A x \in ToSet(rec[q].items) : x \in DOMAIN item /\ item[x].receipt = q
        BY <1>10 DEF WarehouseInv, ReceiptsInv
      <3>2. made' = made /\ item' = item /\ rec'[q].items = rec[q].items
        BY <1>2, <1>10, <1>12
      <3>3. rec'[q] \in [number : Nat \X Nat, date : Nat, items : Seq(Ids),
                         fields : {CustomFields}, indexed : {rec'[q].number}]
        <4>1. CASE q = r
          BY <1>11, <4>1
        <4>2. CASE q # r
          <5>1. rec'[q] = rec[q]
            BY <1>10, <4>2
          <5> QED BY <3>1, <5>1
        <4> QED BY <4>1, <4>2
      <3> QED BY <3>1, <3>2, <3>3
    <2>2. ToSet(list'.receipts) \subseteq DOMAIN rec'
      BY <1>3, <1>5, <1>10, <1>13
    <2> QED BY <1>5, <1>13, <2>1, <2>2 DEF ReceiptsInv, Listed
  <1>20. ItemsInv'
    <2>1. ASSUME NEW x \in DOMAIN item
          PROVE  /\ \E i, k \in Nat : x = <<i, k>> /\ item[x].receipt = <<i>>
                 /\ item[x].receipt \in DOMAIN rec'
                 /\ <<rec'[item[x].receipt].date, x>> \in keys.time
      <3>1. /\ \E i, k \in Nat : x = <<i, k>> /\ item[x].receipt = <<i>>
            /\ item[x].receipt \in DOMAIN rec /\ <<rec[item[x].receipt].date, x>> \in keys.time
        BY DEF WarehouseInv, ItemsInv
      <3>2. rec'[item[x].receipt].date = rec[item[x].receipt].date
        BY <1>12, <3>1
      <3> QED BY <1>10, <3>1, <3>2
    <2>2. item' = item /\ keys' = keys /\ list'.items = list.items
      BY <1>2, <1>13
    <2>3. /\ list.items \in Seq(Ids) /\ ToSet(list.items) \subseteq DOMAIN item
          /\ \A e \in keys.time : e[1] \in Nat
      BY DEF WarehouseInv, ItemsInv, Stored
    <2> QED BY <2>1, <2>2, <2>3 DEF ItemsInv, Stored
  <1>21. NumbersInv'
    <2>1. \A q \in Listed : rec'[q].number[1] = rec[q].number[1]
      BY <1>3, <1>9, <1>10, <1>11
    <2>2. phase' # "receipts"
      BY <1>2
    <2>3. \A q, t \in Listed : rec[q].number[1] = rec[t].number[1] => q = t
      BY DEF WarehouseInv, NumbersInv
    <2> QED BY <1>5, <1>13, <2>1, <2>2, <2>3 DEF NumbersInv, Listed
  <1>22. TornInv'
    <2>1. torn' = {}
      BY <1>2, <1>3
    <2> QED BY <1>2, <1>6, <2>1 DEF TornInv
  <1>23. GlobalInv'
    <2>1. \A k \in DOMAIN b.global : k \in DOMAIN now.global /\ b.global[k] = now.global[k]
      BY <1>14, <1>16
    <2> QED BY <1>2, <1>15, <2>1 DEF WarehouseInv, GlobalInv, HashCode
  <1>24. NoDeletedObjectIsFound'
    <2>1. SUFFICES ASSUME NEW key \in DOMAIN b.global, NEW o, o = b.global[key]
                   PROVE  /\ o \in DOMAIN rec => o \in Listed \/ rec'[o].number # key
                          /\ o \in DOMAIN item => o \in Stored
      BY <1>2, <1>5, <1>10, <1>13, <1>15 DEF NoDeletedObjectIsFound, Stored
    <2>2. key \in DOMAIN now.global /\ o = now.global[key]
      BY <1>14, <1>16, <2>1
    <2>3. /\ o \in DOMAIN rec => o \in Listed \/ rec[o].number # key
          /\ o \in DOMAIN item => o \in Stored
      BY <2>2 DEF WarehouseInv, NoDeletedObjectIsFound, Listed, Stored
    <2>4. o \in DOMAIN rec /\ o \notin Listed => rec'[o] = rec[o]
      BY <1>4, <1>10
    <2> QED BY <2>3, <2>4
  <1>25. IndexesFollowList'
    <2>1. /\ now.number \subseteq {<<rec[q].number, q>> : q \in Listed}
          /\ now.date \subseteq {<<rec[q].date, q>> : q \in Listed}
          /\ \A q \in Listed \ torn : <<rec[q].number, q>> \in now.number /\ <<rec[q].date, q>> \in now.date
      BY DEF WarehouseInv, IndexesFollowList, Listed
    <2>2. /\ \A q \in Listed : q # r => rec'[q] = rec[q] /\ q \notin torn
          /\ rec'[r].number = number /\ rec'[r].date = rec[r].date
      BY <1>3, <1>10, <1>11
    <2>3. \A e \in b.number : e \in {<<rec'[q].number, q>> : q \in Listed}
      <3> TAKE e \in b.number
      <3>1. CASE e = <<number, r>>
        BY <1>4, <2>2, <3>1
      <3>2. CASE e \in now.number /\ e # <<rec[r].number, r>>
        <4>1. PICK q \in Listed : e = <<rec[q].number, q>>
          BY <2>1, <3>2
        <4>2. q # r
          BY <3>2, <4>1
        <4> QED BY <2>2, <4>1, <4>2
      <3> QED BY <1>16, <3>1, <3>2
    <2>4. \A e \in b.date : e \in {<<rec'[q].date, q>> : q \in Listed}
      <3>1. \A q \in Listed : rec'[q].date = rec[q].date
        BY <1>3, <1>12
      <3> QED BY <1>4, <1>16, <2>1, <3>1
    <2>5. \A q \in Listed : <<rec'[q].number, q>> \in b.number /\ <<rec'[q].date, q>> \in b.date
      <3> TAKE q \in Listed
      <3>1. CASE q = r
        BY <1>16, <2>2, <3>1
      <3>2. CASE q # r
        <4>1. <<rec[q].number, q>> \in now.number /\ <<rec[q].date, q>> \in now.date
          BY <2>1, <2>2, <3>2
        <4>2. <<rec[q].number, q>> # <<rec[r].number, r>> /\ <<rec[q].date, q>> # <<rec[r].date, r>>
          BY <3>2
        <4> QED BY <1>16, <2>2, <3>2, <4>1, <4>2
      <3> QED BY <3>1, <3>2
    <2> QED BY <1>5, <1>13, <1>15, <2>3, <2>4, <2>5 DEF IndexesFollowList
  <1>26. ItemsFollowReceipts'
    <2>1. /\ UNION {ToSet(rec[q].items) : q \in Listed} \subseteq Stored
          /\ linked => UNION {ToSet(rec[q].items) : q \in Listed} = Stored
      BY DEF WarehouseInv, ItemsFollowReceipts, Listed, Stored
    <2>2. UNION {ToSet(rec'[q].items) : q \in Listed} = UNION {ToSet(rec[q].items) : q \in Listed}
      BY <1>3, <1>12
    <2>3. PICK O : /\ O = UNION {ToSet(rec[q].items) : q \in Listed}
                   /\ O = UNION {ToSet(rec'[q].items) : q \in Listed}
      BY <2>2
    <2>4. O \subseteq Stored /\ (linked' => O = Stored)
      BY <1>2, <2>1, <2>3
    <2> QED BY <1>5, <1>13, <2>3, <2>4 DEF ItemsFollowReceipts, Stored
  <1>27. TestNeverFails'
    BY <1>2 DEF WarehouseInv, TestNeverFails
  <1> QED BY <1>17, <1>18, <1>19, <1>20, <1>21, <1>22, <1>23, <1>24, <1>25, <1>26, <1>27 DEF WarehouseInv

-----------------------------------------------------------------------------
(* The test                                                                *)

LEMMA DefinitionsAreOk ==
  ASSUME WarehouseInv, NEW d \in ToSet(list.definitions)
  PROVE  DefinitionOk(d)
  <1>1. PICK L : L = ToSet(list.definitions)
    OBVIOUS
  <1>2. keys.code = {<<e.code, e>> : e \in L} /\ keys.description = keys.code
    BY <1>1 DEF WarehouseInv, DefinitionsInv
  <1>3. L \subseteq ToSet(Definitions)
    <2>1. list.definitions \in Seq(ToSet(Definitions))
      BY DEF WarehouseInv, DefinitionsInv
    <2>2. \A i \in DOMAIN list.definitions : list.definitions[i] \in ToSet(Definitions)
      BY <2>1, ElementOfSeq, LenProperties
    <2> QED BY <1>1, <2>2 DEF ToSet
  <1>4. \A e \in L : e.code = d.code => e = d
    <2> TAKE e \in L
    <2>1. PICK i \in DOMAIN Definitions : e = Definitions[i]
      BY <1>3 DEF ToSet
    <2>2. PICK j \in DOMAIN Definitions : d = Definitions[j]
      BY <1>1, <1>3 DEF ToSet
    <2> QED BY <2>1, <2>2, WarehouseAssumption
  <1>5. PICK p : p = <<d.code, d>>
    OBVIOUS
  <1>6. FindMember(keys.code, d.code) = {p}
    BY <1>1, <1>2, <1>4, <1>5 DEF FindMember
  <1>7. {e[2] : e \in {p}} = {d}
    BY <1>5
  <1> QED BY <1>2, <1>6, <1>7 DEF DefinitionOk

LEMMA ReceiptsAreOk ==
  ASSUME WarehouseInv, torn = {}, NEW r \in Listed
  PROVE  ReceiptOk(r)
  <1>1. /\ rec[r] \in [number : Nat \X Nat, date : Nat, items : Seq(Ids),
                       fields : {CustomFields}, indexed : {rec[r].number}]
        /\ \A x \in ToSet(rec[r].items) : item[x].receipt = r
    BY DEF WarehouseInv, ReceiptsInv
  <1>2. ContentsOk(r)
    <2>1. rec[r].fields = CustomFields
      BY <1>1
    <2>2. FieldsOk(r)
      BY <2>1, FieldsAreFound DEF FieldsOk
    <2> QED BY <1>1, <2>2 DEF ContentsOk, ItemOk
  <1>3. PICK p : p = <<rec[r].number, r>>
    OBVIOUS
  <1>4. FindMember(now.number, rec[r].number) = {p}
    <2>1. p \in now.number
      BY <1>3 DEF WarehouseInv, IndexesFollowList, Listed
    <2>2. ASSUME NEW e \in now.number, e[1] = rec[r].number PROVE e = p
      <3>1. PICK q \in Listed : e = <<rec[q].number, q>>
        BY DEF WarehouseInv, IndexesFollowList, Listed
      <3>2. rec[q].number[1] = rec[r].number[1]
        BY <2>2, <3>1
      <3>3. q = r
        BY <3>2 DEF WarehouseInv, NumbersInv
      <3> QED BY <1>3, <3>1, <3>3
    <2>3. p[1] = rec[r].number
      BY <1>3
    <2> QED BY <2>1, <2>2, <2>3 DEF FindMember
  <1>5. {e[2] : e \in {p}} = {r}
    BY <1>3
  <1> QED BY <1>2, <1>4, <1>5 DEF ReceiptOk

LEMMA TestKeepsInv == WarehouseInv /\ TestIntegrity => WarehouseInv'
  <1> SUFFICES ASSUME WarehouseInv, TestIntegrity PROVE WarehouseInv'
    OBVIOUS
  <1>1. /\ UNCHANGED <<clock, list, keys, rec, item, now, linked, made, torn, cursor>>
        /\ phase' = "delete" /\ step' = 0 /\ phase = "test"
        /\ failed' = {r \in ToSet(list.receipts) : ~ReceiptOk(r)}
                       \cup {d \in ToSet(list.definitions) : ~DefinitionOk(d)}
    BY Zenon DEF TestIntegrity, Goto, Idle, stored
  <1>2. torn = {} /\ list.definitions # <<>>
    BY <1>1 DEF WarehouseInv, TornInv, DefinitionsInv
  <1>3. \A r \in ToSet(list.receipts) : ReceiptOk(r)
    BY <1>2, ReceiptsAreOk DEF Listed
  <1>4. \A d \in ToSet(list.definitions) : DefinitionOk(d)
    BY DefinitionsAreOk
  <1>5. failed' = {}
    BY <1>1, <1>3, <1>4
  <1>6. cursor' \in Nat \ {0}
    BY <1>1 DEF WarehouseInv, TypeInv
  <1> QED BY <1>1, <1>2, <1>5, <1>6, QuietStep

-----------------------------------------------------------------------------
(* Receipts are deleted                                                    *)

\* The deletion loop meets items of the receipt only, all of them if members stay linked.
LEMMA DeletedItemsAre ==
  ASSUME NEW r, rec[r].items \in Seq(Ids)
  PROVE  LET gone == DeletedItems(r) IN
         /\ gone \in Seq(Ids) /\ ToSet(gone) \subseteq ToSet(rec[r].items)
         /\ linked => ToSet(gone) = ToSet(rec[r].items)
         /\ Len(gone) \in Nat /\ (Len(gone) # 0 => ToSet(rec[r].items) # {})
  <1>1. PICK T, s, gone : T = Ids /\ s = rec[r].items /\ gone = DeletedItems(r)
    OBVIOUS
  <1>2. s \in Seq(T)
    BY <1>1
  <1>3. \/ linked /\ gone = s
        \/ ~linked /\ s = <<>> /\ gone = <<>>
        \/ ~linked /\ s # <<>> /\ gone = <<Head(s)>>
    BY <1>1 DEF DeletedItems, DeletesFirst
  <1>4. \A t \in Seq(T) : Len(t) \in Nat /\ (Len(t) # 0 => ToSet(t) # {})
    <2> TAKE t \in Seq(T)
    <2>1. Len(t) \in Nat /\ DOMAIN t = 1 .. Len(t)
      BY LenProperties
    <2>2. Len(t) # 0 => 1 \in DOMAIN t
      BY <2>1
    <2> QED BY <2>1, <2>2 DEF ToSet
  <1>5. gone \in Seq(T) /\ ToSet(gone) \subseteq ToSet(s) /\ (linked => ToSet(gone) = ToSet(s))
    <2>1. CASE gone = s
      BY <1>2, <2>1
    <2>2. CASE ~linked /\ s # <<>> /\ gone = <<Head(s)>>
      <3>1. Head(s) \in T /\ Head(s) \in ToSet(s)
        BY <1>2, <2>2, TailSet
      <3>2. gone \in Seq(T) /\ ToSet(gone) = {Head(s)}
        BY <2>2, <3>1 DEF ToSet
      <3> QED BY <2>2, <3>1, <3>2
    <2> QED BY <1>3, <2>1, <2>2
  <1>6. Len(gone) \in Nat /\ (Len(gone) # 0 => ToSet(s) # {})
    BY <1>4, <1>5
  <1> QED BY <1>1, <1>5, <1>6

\* A deleted receipt leaves the indexes, and it and its items the global index.
LEMMA DeleteLeads ==
  ASSUME IsNow(now), NEW r, rec[r].indexed = rec[r].number, DeletedItems(r) \in Seq(Ids)
  PROVE  LET a == Applied(DeleteWrites(r)) IN
         /\ IsNow(a) /\ a.number = now.number \ {<<rec[r].number, r>>}
         /\ a.date = now.date \ {<<rec[r].date, r>>}
         /\ \A key \in DOMAIN a.global :
              /\ key \in DOMAIN now.global /\ a.global[key] = now.global[key]
              /\ ~(key = rec[r].number /\ a.global[key] = r)
              /\ \A g \in ToSet(DeletedItems(r)) : ~(key = HashCode(item[g].def) /\ a.global[key] = g)
  <1>1. PICK w, W, d, E : /\ w = DeleteWrites(r) /\ W = ToSet(w)
                          /\ d = DropWrites(r, rec[r].number) /\ E = Entries(r)
    OBVIOUS
  <1>2. /\ \E S : w \in Seq(S)
        /\ \A x \in W : x[1] = "del" \/ x \in E
        /\ \A g \in ToSet(DeletedItems(r)) : <<"del", HashCode(item[g].def), g>> \in W
        /\ <<"del", rec[r].number, r>> \in W
        /\ ToSet(d) \subseteq W
    <2>1. PICK I, q : I = Ids /\ q = DeletedItems(r)
      OBVIOUS
    <2>2. q \in Seq(I)
      BY <2>1
    <2>3. LET v == DeleteWrites(r) IN
          /\ \E S : v \in Seq(S)
          /\ \A x \in ToSet(v) : x[1] = "del" \/ x \in Entries(r)
          /\ \A g \in ToSet(DeletedItems(r)) : <<"del", HashCode(item[g].def), g>> \in ToSet(v)
          /\ <<"del", rec[r].number, r>> \in ToSet(v)
          /\ ToSet(DropWrites(r, rec[r].number)) \subseteq ToSet(v)
      BY <2>1, <2>2, DeleteWritesAre
    <2> QED BY <1>1, <2>3
  <1>3. /\ <<rec[r].number, r>> \in now.number => <<"number", <<rec[r].number, r>>>> \in W
        /\ <<rec[r].date, r>> \in now.date => <<"date", <<rec[r].date, r>>>> \in W
    BY <1>1, <1>2, DropWritesAre
  <1>4. \A x \in E : \/ x[1] = "number" /\ x[2] = <<rec[r].number, r>>
                     \/ x[1] = "date" /\ x[2] = <<rec[r].date, r>>
    BY <1>1 DEF Entries
  <1>5. \A x \in W : x[1] \in Kinds
    BY <1>2, <1>4 DEF Kinds
  <1>6. PICK a : a = Applied(w)
    OBVIOUS
  <1>7. LedBy(W, a)
    <2>1. PICK S : w \in Seq(S)
      BY <1>2
    <2> QED BY <1>1, <1>5, <1>6, <2>1, AppliedLeadsBy
  <1>8. a.number = now.number \ {<<rec[r].number, r>>}
    <2>1. \A e : e \in a.number <=> e \in now.number /\ \A x \in W : ~(x[1] = "number" /\ x[2] = e)
      BY <1>7 DEF LedBy
    <2>2. PICK f : f = <<rec[r].number, r>>
      OBVIOUS
    <2>3. \A x \in W : x[1] = "number" => x[2] = f
      BY <1>2, <1>4, <2>2
    <2>4. f \in now.number => \E x \in W : x[1] = "number" /\ x[2] = f
      BY <1>3, <2>2
    <2> QED BY <2>1, <2>2, <2>3, <2>4
  <1>9. a.date = now.date \ {<<rec[r].date, r>>}
    <2>1. \A e : e \in a.date <=> e \in now.date /\ \A x \in W : ~(x[1] = "date" /\ x[2] = e)
      BY <1>7 DEF LedBy
    <2>2. PICK f : f = <<rec[r].date, r>>
      OBVIOUS
    <2>3. \A x \in W : x[1] = "date" => x[2] = f
      BY <1>2, <1>4, <2>2
    <2>4. f \in now.date => \E x \in W : x[1] = "date" /\ x[2] = f
      BY <1>3, <2>2
    <2> QED BY <2>1, <2>2, <2>3, <2>4
  <1>10. ASSUME NEW key \in DOMAIN a.global
         PROVE  /\ key \in DOMAIN now.global /\ a.global[key] = now.global[key]
                /\ ~(key = rec[r].number /\ a.global[key] = r)
                /\ \A g \in ToSet(DeletedItems(r)) : ~(key = HashCode(item[g].def) /\ a.global[key] = g)
    <2>1. \A x \in W : x[1] # "put"
      BY <1>2, <1>4
    <2>2. /\ key \in DOMAIN now.global /\ a.global[key] = now.global[key]
          /\ \A x \in W : ~(x[1] = "del" /\ x[2] = key /\ x[3] = a.global[key])
      BY <1>7, <2>1 DEF LedBy
    <2>3. ~(key = rec[r].number /\ a.global[key] = r)
      <3>1. PICK x \in W : x = <<"del", rec[r].number, r>>
        BY <1>2
      <3>2. x[1] = "del" /\ x[2] = rec[r].number /\ x[3] = r
        BY <3>1
      <3> QED BY <2>2, <3>2
    <2>4. ASSUME NEW g \in ToSet(DeletedItems(r))
          PROVE  ~(key = HashCode(item[g].def) /\ a.global[key] = g)
      <3>1. PICK x \in W : x = <<"del", HashCode(item[g].def), g>>
        BY <1>2
      <3>2. x[1] = "del" /\ x[2] = HashCode(item[g].def) /\ x[3] = g
        BY <3>1
      <3> QED BY <2>2, <3>2
    <2> QED BY <2>2, <2>3, <2>4
  <1> QED BY <1>1, <1>6, <1>7, <1>8, <1>9, <1>10 DEF LedBy

LEMMA DeleteReceiptKeepsInv == WarehouseInv /\ DeleteReceipt => WarehouseInv'
  <1> SUFFICES ASSUME WarehouseInv, DeleteReceipt PROVE WarehouseInv'
    OBVIOUS
  <1>1. PICK r, gone, G, a : /\ r = Head(list.receipts) /\ gone = DeletedItems(r)
                             /\ G = ToSet(gone) /\ a = Applied(DeleteWrites(r))
    OBVIOUS
  <1>2. /\ phase = "delete" /\ list.receipts # <<>>
        /\ \E times \in RemoveTimes(keys.time, rec[r].date, Len(gone)) :
             \/ ~times[2]
             \/ /\ list' = [list EXCEPT !.receipts = Tail(@), !.items = Without(@, G)]
                /\ keys' = [keys EXCEPT !.time = times[1]]
                /\ rec' = [rec EXCEPT ![r].items = Without(@, G)]
                /\ now' = a
                /\ torn' = torn \ {r}
                /\ UNCHANGED <<phase, step>>
        /\ UNCHANGED <<walk, cursor, root, item, failed, clock, linked, made, starts>>
    BY <1>1, Zenon DEF DeleteReceipt, ItemsRemove
  <1>3. /\ list.receipts \in Seq(Ids) /\ Once(list.receipts) /\ Listed \subseteq DOMAIN rec
        /\ list.items \in Seq(Ids) /\ Stored \subseteq DOMAIN item /\ torn = {}
    BY <1>2 DEF WarehouseInv, ReceiptsInv, ItemsInv, TornInv
  <1>4. PICK t : t = Tail(list.receipts)
    OBVIOUS
  <1>5. r \in Listed /\ r \in DOMAIN rec /\ t \in Seq(Ids) /\ Once(t) /\ ToSet(t) = Listed \ {r}
    <2>1. PICK T, q : T = Ids /\ q = list.receipts
      OBVIOUS
    <2>2. /\ Tail(q) \in Seq(T) /\ ToSet(q) = {Head(q)} \cup ToSet(Tail(q))
          /\ Once(q) => Once(Tail(q)) /\ Head(q) \notin ToSet(Tail(q))
      BY <1>2, <1>3, <2>1, TailSet
    <2> QED BY <1>1, <1>3, <1>4, <2>1, <2>2 DEF Listed
  <1>6. /\ rec[r] \in [number : Nat \X Nat, date : Nat, items : Seq(Ids),
                       fields : {CustomFields}, indexed : {rec[r].number}]
        /\ \A x \in ToSet(rec[r].items) : x \in DOMAIN item /\ item[x].receipt = r
    BY <1>5 DEF WarehouseInv, ReceiptsInv
  <1>7. rec[r].items \in Seq(Ids) /\ rec[r].indexed = rec[r].number /\ rec[r].date \in Nat
    BY <1>6
  <1>8. /\ gone \in Seq(Ids) /\ G \subseteq ToSet(rec[r].items)
        /\ linked => G = ToSet(rec[r].items)
        /\ Len(gone) \in Nat /\ (Len(gone) # 0 => ToSet(rec[r].items) # {})
    BY <1>1, <1>7, DeletedItemsAre
  <1>9. RemoveTimes(keys.time, rec[r].date, Len(gone)) = {<<keys.time, TRUE>>}
    <2>1. Len(gone) # 0 => FindFirst(keys.time, rec[r].date) # {}
      <3>1. SUFFICES ASSUME Len(gone) # 0 PROVE FindFirst(keys.time, rec[r].date) # {}
        OBVIOUS
      <3>2. PICK x \in ToSet(rec[r].items) : TRUE
        BY <1>8, <3>1
      <3>3. <<rec[r].date, x>> \in keys.time
        BY <1>6, <3>2 DEF WarehouseInv, ItemsInv
      <3>4. PICK e : e = <<rec[r].date, x>>
        OBVIOUS
      <3>5. e \in keys.time /\ e[1] >= rec[r].date
        BY <1>7, <3>3, <3>4
      <3>6. \A f \in keys.time : f[1] \in Nat
        BY DEF WarehouseInv, ItemsInv
      <3>7. PICK index, date : index = keys.time /\ date = rec[r].date
        OBVIOUS
      <3>8. FindFirst(index, date) # {}
        BY <1>7, <3>5, <3>6, <3>7, SomeFirst
      <3> QED BY <3>7, <3>8
    <2>2. PICK n : n = Len(gone) /\ n \in Nat
      BY <1>8
    <2> QED BY <2>1, <2>2, TimesStay
  <1>10. /\ list' = [list EXCEPT !.receipts = t, !.items = Without(@, G)]
         /\ keys' = [keys EXCEPT !.time = keys.time]
         /\ rec' = [rec EXCEPT ![r].items = Without(@, G)]
         /\ now' = a /\ torn' = {}
         /\ UNCHANGED <<phase, step, walk, cursor, root, item, failed, clock, linked, made, starts>>
    <2>1. PICK times \in {<<keys.time, TRUE>>} :
            \/ ~times[2]
            \/ /\ list' = [list EXCEPT !.receipts = Tail(@), !.items = Without(@, G)]
               /\ keys' = [keys EXCEPT !.time = times[1]]
               /\ rec' = [rec EXCEPT ![r].items = Without(@, G)]
               /\ now' = a
               /\ torn' = torn \ {r}
               /\ UNCHANGED <<phase, step>>
      BY <1>2, <1>9
    <2>2. times = <<keys.time, TRUE>>
      OBVIOUS
    <2>3. times[1] = keys.time /\ times[2] = TRUE
      BY <2>2
    <2> QED BY <1>2, <1>3, <1>4, <2>1, <2>3
  <1>11. /\ list'.packages = list.packages /\ list'.definitions = list.definitions
         /\ list'.items = Without(list.items, G) /\ list'.receipts = t
         /\ list' = [packages |-> list'.packages, definitions |-> list'.definitions,
                     items |-> list'.items, receipts |-> list'.receipts]
         /\ keys' = keys
    BY <1>10 DEF WarehouseInv, TypeInv
  <1>12. list'.items \in Seq(Ids) /\ ToSet(list'.items) = Stored \ G
    <2>1. PICK T, q : T = Ids /\ q = list.items
      OBVIOUS
    <2>2. Without(q, G) \in Seq(T) /\ ToSet(Without(q, G)) = ToSet(q) \ G
      BY <1>3, <2>1, WithoutKeeps
    <2> QED BY <1>11, <2>1, <2>2 DEF Stored
  <1>13. PICK s : s = Without(rec[r].items, G)
    OBVIOUS
  <1>14. s \in Seq(Ids) /\ ToSet(s) = ToSet(rec[r].items) \ G
    <2>1. PICK T, q : T = Ids /\ q = rec[r].items
      OBVIOUS
    <2>2. Without(q, G) \in Seq(T) /\ ToSet(Without(q, G)) = ToSet(q) \ G
      BY <1>7, <2>1, WithoutKeeps
    <2> QED BY <1>13, <2>1, <2>2
  <1>15. /\ DOMAIN rec' = DOMAIN rec
         /\ \A q \in DOMAIN rec : q # r => rec'[q] = rec[q]
         /\ rec'[r] = [rec[r] EXCEPT !.items = s]
    BY <1>5, <1>10, <1>13
  <1>16. /\ rec'[r] \in [number : Nat \X Nat, date : Nat, items : Seq(Ids),
                         fields : {CustomFields}, indexed : {rec'[r].number}]
         /\ rec'[r].number = rec[r].number /\ rec'[r].date = rec[r].date /\ rec'[r].items = s
    <2>1. PICK p, u : p = rec[r] /\ u = rec'[r]
      OBVIOUS
    <2>2. PICK F, Q, T : F = {CustomFields} /\ Q = Seq(Ids) /\ T = Nat \X Nat
      OBVIOUS
    <2>3. p \in [number : T, date : Nat, items : Q, fields : F, indexed : {p.number}]
      BY <1>6, <2>1, <2>2
    <2>4. u = [number |-> p.number, date |-> p.date, items |-> s, fields |-> p.fields, indexed |-> p.indexed]
      BY <1>15, <2>1, <2>3
    <2>5. u \in [number : T, date : Nat, items : Q, fields : F, indexed : {u.number}]
      BY <1>14, <2>2, <2>3, <2>4
    <2> QED BY <2>1, <2>2, <2>4, <2>5
  <1>17. \A q \in DOMAIN rec : rec'[q].date = rec[q].date /\ rec'[q].number = rec[q].number
    BY <1>15, <1>16
  <1>18. PICK b : b = now'
    OBVIOUS
  <1>19. /\ IsNow(b) /\ b.number = now.number \ {<<rec[r].number, r>>}
         /\ b.date = now.date \ {<<rec[r].date, r>>}
         /\ \A key \in DOMAIN b.global :
              /\ key \in DOMAIN now.global /\ b.global[key] = now.global[key]
              /\ ~(key = rec[r].number /\ b.global[key] = r)
              /\ \A g \in G : ~(key = HashCode(item[g].def) /\ b.global[key] = g)
    <2>1. IsNow(now)
      BY DEF WarehouseInv, TypeInv
    <2>2. LET c == Applied(DeleteWrites(r)) IN
          /\ IsNow(c) /\ c.number = now.number \ {<<rec[r].number, r>>}
          /\ c.date = now.date \ {<<rec[r].date, r>>}
          /\ \A key \in DOMAIN c.global :
               /\ key \in DOMAIN now.global /\ c.global[key] = now.global[key]
               /\ ~(key = rec[r].number /\ c.global[key] = r)
               /\ \A g \in ToSet(DeletedItems(r)) : ~(key = HashCode(item[g].def) /\ c.global[key] = g)
      BY <1>1, <1>7, <1>8, <2>1, DeleteLeads
    <2> QED BY <1>1, <1>10, <1>18, <2>2
  <1>20. TypeInv'
    <2>1. IsNow(now)'
      BY <1>18, <1>19 DEF IsNow
    <2> QED BY <1>10, <1>11, <2>1 DEF WarehouseInv, TypeInv
  <1>21. PackagesInv' /\ DefinitionsInv'
    BY <1>10, <1>11 DEF WarehouseInv, PackagesInv, DefinitionsInv
  <1>22. ReceiptsInv'
    <2>1. ASSUME NEW q \in DOMAIN rec'
          PROVE  /\ \E i \in Nat : q = <<i>> /\ i <= made'
                 /\ rec'[q] \in [number : Nat \X Nat, date : Nat, items : Seq(Ids),
                                 fields : {CustomFields}, indexed : {rec'[q].number}]
                 /\ \A x \in ToSet(rec'[q].items) : x \in DOMAIN item' /\ item'[x].receipt = q
      <3>1. /\ \E i \in Nat : q = <<i>> /\ i <= made
            /\ rec[q] \in [number : Nat \X Nat, date : Nat, items : Seq(Ids),
                           fields : {CustomFields}, indexed : {rec[q].number}]
            /\ \A x \in ToSet(rec[q].items) : x \in DOMAIN item /\ item[x].receipt = q
        BY <1>15 DEF WarehouseInv, ReceiptsInv
      <3>2. made' = made /\ item' = item
        BY <1>10
      <3>3. CASE q = r
        BY <1>14, <1>16, <3>1, <3>2, <3>3
      <3>4. CASE q # r
        <4>1. rec'[q] = rec[q]
          BY <1>15, <3>4
        <4> QED BY <3>1, <3>2, <4>1
      <3> QED BY <3>3, <3>4
    <2>2. ToSet(list'.receipts) \subseteq DOMAIN rec'
      BY <1>3, <1>5, <1>11, <1>15
    <2> QED BY <1>5, <1>11, <2>1, <2>2 DEF ReceiptsInv, Listed
  <1>23. ItemsInv'
    <2>1. ASSUME NEW x \in DOMAIN item
          PROVE  /\ \E i, k \in Nat : x = <<i, k>> /\ item[x].receipt = <<i>>
                 /\ item[x].receipt \in DOMAIN rec'
                 /\ <<rec'[item[x].receipt].date, x>> \in keys.time
      <3>1. /\ \E i, k \in Nat : x = <<i, k>> /\ item[x].receipt = <<i>>
            /\ item[x].receipt \in DOMAIN rec /\ <<rec[item[x].receipt].date, x>> \in keys.time
        BY DEF WarehouseInv, ItemsInv
      <3>2. rec'[item[x].receipt].date = rec[item[x].receipt].date
        BY <1>17, <3>1
      <3> QED BY <1>15, <3>1, <3>2
    <2>2. item' = item /\ keys' = keys
      BY <1>10, <1>11
    <2>3. ToSet(list'.items) \subseteq DOMAIN item /\ \A e \in keys.time : e[1] \in Nat
      BY <1>3, <1>12 DEF WarehouseInv, ItemsInv
    <2> QED BY <1>12, <2>1, <2>2, <2>3 DEF ItemsInv, Stored
  <1>24. NumbersInv'
    <2>1. \A q \in Listed : rec'[q].number = rec[q].number
      BY <1>3, <1>17
    <2>2. phase' # "receipts"
      BY <1>2, <1>10
    <2>3. \A q, p \in Listed : rec[q].number[1] = rec[p].number[1] => q = p
      BY DEF WarehouseInv, NumbersInv
    <2> QED BY <1>5, <1>11, <2>1, <2>2, <2>3 DEF NumbersInv, Listed
  <1>25. TornInv'
    BY <1>2, <1>10 DEF TornInv
  <1>26. GlobalInv'
    BY <1>10, <1>18, <1>19 DEF WarehouseInv, GlobalInv, HashCode
  <1>27. NoDeletedObjectIsFound'
    <2>1. SUFFICES ASSUME NEW key \in DOMAIN b.global, NEW o, o = b.global[key]
                   PROVE  /\ o \in DOMAIN rec => o \in Listed \ {r} \/ rec'[o].number # key
                          /\ o \in DOMAIN item => o \in Stored \ G
      BY <1>5, <1>10, <1>11, <1>12, <1>15, <1>18 DEF NoDeletedObjectIsFound
    <2>2. /\ key \in DOMAIN now.global /\ o = now.global[key]
          /\ ~(key = rec[r].number /\ o = r)
          /\ \A g \in G : ~(key = HashCode(item[g].def) /\ o = g)
      BY <1>19, <2>1
    <2>3. /\ o \in DOMAIN rec => o \in Listed \/ rec[o].number # key
          /\ o \in DOMAIN item => o \in Stored
      BY <2>2 DEF WarehouseInv, NoDeletedObjectIsFound, Listed, Stored
    <2>4. o \in DOMAIN item => key = HashCode(item[o].def)
      BY <2>2 DEF WarehouseInv, GlobalInv
    <2>5. o \in DOMAIN rec => o \in Listed \ {r} \/ rec'[o].number # key
      BY <1>17, <2>2, <2>3
    <2>6. o \in DOMAIN item => o \in Stored \ G
      BY <2>2, <2>3, <2>4
    <2> QED BY <2>5, <2>6
  <1>28. IndexesFollowList'
    <2>1. /\ now.number \subseteq {<<rec[q].number, q>> : q \in Listed}
          /\ now.date \subseteq {<<rec[q].date, q>> : q \in Listed}
          /\ \A q \in Listed : <<rec[q].number, q>> \in now.number /\ <<rec[q].date, q>> \in now.date
      BY <1>3 DEF WarehouseInv, IndexesFollowList, Listed
    <2>2. \A q \in Listed : rec'[q].number = rec[q].number /\ rec'[q].date = rec[q].date
      BY <1>3, <1>17
    <2>3. \A e \in b.number : e \in {<<rec'[q].number, q>> : q \in Listed \ {r}}
      <3> TAKE e \in b.number
      <3>1. e \in now.number /\ e # <<rec[r].number, r>>
        BY <1>19
      <3>2. PICK q \in Listed : e = <<rec[q].number, q>>
        BY <2>1, <3>1
      <3>3. q # r
        BY <3>1, <3>2
      <3> QED BY <2>2, <3>2, <3>3
    <2>4. \A e \in b.date : e \in {<<rec'[q].date, q>> : q \in Listed \ {r}}
      <3> TAKE e \in b.date
      <3>1. e \in now.date /\ e # <<rec[r].date, r>>
        BY <1>19
      <3>2. PICK q \in Listed : e = <<rec[q].date, q>>
        BY <2>1, <3>1
      <3>3. q # r
        BY <3>1, <3>2
      <3> QED BY <2>2, <3>2, <3>3
    <2>5. \A q \in Listed \ {r} : <<rec'[q].number, q>> \in b.number /\ <<rec'[q].date, q>> \in b.date
      <3> TAKE q \in Listed \ {r}
      <3>1. <<rec[q].number, q>> \in now.number /\ <<rec[q].date, q>> \in now.date
        BY <2>1
      <3>2. <<rec[q].number, q>> # <<rec[r].number, r>> /\ <<rec[q].date, q>> # <<rec[r].date, r>>
        OBVIOUS
      <3> QED BY <1>19, <2>2, <3>1, <3>2
    <2> QED BY <1>5, <1>11, <1>18, <2>3, <2>4, <2>5 DEF IndexesFollowList
  <1>29. ItemsFollowReceipts'
    <2>1. /\ UNION {ToSet(rec[q].items) : q \in Listed} \subseteq Stored
          /\ linked => UNION {ToSet(rec[q].items) : q \in Listed} = Stored
      BY DEF WarehouseInv, ItemsFollowReceipts, Listed, Stored
    <2>2. PICK Own : Own = [q \in Listed |-> ToSet(rec[q].items)]
      OBVIOUS
    <2>3. \A q \in Listed \ {r} : Own[q] \cap G = {} /\ rec'[q] = rec[q]
      <3> TAKE q \in Listed \ {r}
      <3>1. \A x \in Own[q] : item[x].receipt = q
        BY <1>3, <2>2 DEF WarehouseInv, ReceiptsInv
      <3>2. \A x \in G : item[x].receipt = r
        BY <1>6, <1>8
      <3> QED BY <1>3, <1>15, <3>1, <3>2
    <2>4. /\ \A q \in Listed : Own[q] \subseteq Stored
          /\ linked => \A x \in Stored : \E q \in Listed : x \in Own[q]
      BY <2>1, <2>2
    <2>5. linked => G = Own[r]
      BY <1>5, <1>8, <2>2
    <2>6. \A q \in Listed \ {r} : ToSet(rec'[q].items) = Own[q]
      BY <2>2, <2>3
    <2>7. PICK P : P = UNION {Own[q] : q \in Listed \ {r}}
      OBVIOUS
    <2>8. P \subseteq Stored \ G /\ (linked => P = Stored \ G)
      <3>1. P \subseteq Stored \ G
        BY <2>3, <2>4, <2>7
      <3>2. ASSUME linked, NEW x \in Stored \ G PROVE x \in P
        <4>1. PICK q \in Listed : x \in Own[q]
          BY <2>4, <3>2
        <4>2. q # r
          BY <2>5, <3>2, <4>1
        <4> QED BY <2>7, <4>1, <4>2
      <3> QED BY <3>1, <3>2
    <2>9. P = UNION {ToSet(rec'[q].items) : q \in Listed \ {r}}
      BY <2>6, <2>7
    <2> QED BY <1>5, <1>10, <1>11, <1>12, <2>8, <2>9 DEF ItemsFollowReceipts
  <1>30. TestNeverFails'
    BY <1>10 DEF WarehouseInv, TestNeverFails
  <1> QED BY <1>20, <1>21, <1>22, <1>23, <1>24, <1>25, <1>26, <1>27, <1>28, <1>29, <1>30 DEF WarehouseInv

-----------------------------------------------------------------------------
(* The process stops                                                       *)

\* Writes that lead the global index to no saved object and drop entries only of the
\* receipt r, which is then the first of the list.
Harmless(w, r) ==
  /\ \E S : w \in Seq(S)
  /\ \A x \in ToSet(w) :
       \/ /\ x[1] = "put" /\ x[3] \notin DOMAIN rec /\ x[3] \notin DOMAIN item
          /\ \A n, k \in Nat : x[3] = <<n>> \/ x[3] = <<n, k>> => n <= made'
       \/ x[1] = "del"
       \/ x \in Entries(r) /\ list.receipts # <<>> /\ r = Head(list.receipts) /\ r \in DOMAIN rec

LEMMA StopKeepsInv ==
  ASSUME WarehouseInv, NEW w, NEW r, Harmless(w, r), Stop(w, r), made' \in Nat, made <= made'
  PROVE  WarehouseInv'
  <1>1. PICK S : w \in Seq(S)
    BY DEF Harmless
  <1>2. \A x \in ToSet(w) :
          \/ /\ x[1] = "put" /\ x[3] \notin DOMAIN rec /\ x[3] \notin DOMAIN item
             /\ \A n, k \in Nat : x[3] = <<n>> \/ x[3] = <<n, k>> => n <= made'
          \/ x[1] = "del"
          \/ x \in Entries(r) /\ list.receipts # <<>> /\ r = Head(list.receipts) /\ r \in DOMAIN rec
    BY DEF Harmless
  <1>3. \A x \in Entries(r) : \/ x[1] = "number" /\ x[2] = <<rec[r].number, r>>
                              \/ x[1] = "date" /\ x[2] = <<rec[r].date, r>>
    BY DEF Entries
  <1>4. \A x \in ToSet(w) : x[1] \in Kinds
    BY <1>2, <1>3 DEF Kinds
  <1>5. /\ \E n \in 0 .. Len(w) :
             /\ now' = Applied(SubSeq(w, 1, n))
             /\ torn' = IF r \in DOMAIN rec /\ \E i \in 1 .. n : w[i][1] \in {"number", "date"}
                        THEN torn \cup {r} ELSE torn
        /\ phase' = "down" /\ step' = 0 /\ walk' = Nil /\ cursor' = 1 /\ failed' = {}
        /\ UNCHANGED <<clock, root, list, keys, rec, item, linked, starts>>
    BY Zenon DEF Stop, Goto, stored
  <1>6. PICK n \in 0 .. Len(w) :
             /\ now' = Applied(SubSeq(w, 1, n))
             /\ torn' = IF r \in DOMAIN rec /\ \E i \in 1 .. n : w[i][1] \in {"number", "date"}
                        THEN torn \cup {r} ELSE torn
    BY <1>5
  <1>7. PICK b : b = now'
    OBVIOUS
  <1>8. PICK W \in SUBSET ToSet(w) :
          /\ LedBy(W, b)
          /\ (\E i \in 1 .. n : w[i][1] \in {"number", "date"})
               <=> \E x \in W : x[1] \in {"number", "date"}
    <2>1. IsNow(now)
      BY DEF WarehouseInv, TypeInv
    <2>2. \E W \in SUBSET ToSet(w) :
            /\ LedBy(W, Applied(SubSeq(w, 1, n)))
            /\ (\E i \in 1 .. n : w[i][1] \in {"number", "date"})
                 <=> \E x \in W : x[1] \in {"number", "date"}
      BY <1>1, <1>4, <2>1, PrefixLeads
    <2> QED BY <1>6, <1>7, <2>2
  <1>9. \/ /\ \A x \in W : x[1] \notin {"number", "date"}
           /\ torn' = torn
        \/ /\ torn' = torn \cup {r} /\ r \in DOMAIN rec
           /\ list.receipts # <<>> /\ r = Head(list.receipts)
    <2>1. CASE \E x \in W : x[1] \in {"number", "date"}
      <3>1. r \in DOMAIN rec /\ list.receipts # <<>> /\ r = Head(list.receipts)
        BY <1>2, <2>1
      <3> QED BY <1>6, <1>8, <2>1, <3>1
    <2>2. CASE \A x \in W : x[1] \notin {"number", "date"}
      BY <1>6, <1>8, <2>2
    <2> QED BY <2>1, <2>2
  <1>10. TypeInv'
    <2>1. IsNow(now)'
      BY <1>7, <1>8 DEF LedBy, IsNow
    <2>2. cursor' \in Nat \ {0} /\ step' \in Nat
      BY <1>5
    <2> QED BY <1>5, <2>1, <2>2 DEF WarehouseInv, TypeInv
  <1>11. PackagesInv' /\ DefinitionsInv'
    BY <1>5 DEF WarehouseInv, PackagesInv, DefinitionsInv
  <1>12. ReceiptsInv' /\ ItemsInv' /\ ItemsFollowReceipts'
    BY <1>5, ReceiptsStay
  <1>13. NumbersInv'
    BY <1>5 DEF WarehouseInv, NumbersInv, Listed
  <1>14. TornInv'
    <2>1. \A t \in torn : list.receipts # <<>> /\ t = Head(list.receipts)
      BY DEF WarehouseInv, TornInv
    <2>2. \A t \in torn' : list.receipts # <<>> /\ t = Head(list.receipts)
      BY <1>9, <2>1
    <2> QED BY <1>5, <2>2 DEF TornInv
  <1>15. GlobalInv' /\ NoDeletedObjectIsFound'
    <2>1. ASSUME NEW key \in DOMAIN b.global, NEW o, o = b.global[key]
          PROVE  \/ key \in DOMAIN now.global /\ o = now.global[key]
                 \/ /\ o \notin DOMAIN rec /\ o \notin DOMAIN item
                    /\ \A i, k \in Nat : o = <<i>> \/ o = <<i, k>> => i <= made'
      <3>1. CASE key \in DOMAIN now.global /\ o = now.global[key]
        BY <3>1
      <3>2. CASE \E x \in W : x[1] = "put" /\ x[2] = key /\ x[3] = o
        <4>1. PICK x \in W : x[1] = "put" /\ x[3] = o
          BY <3>2
        <4>2. /\ x[3] \notin DOMAIN rec /\ x[3] \notin DOMAIN item
              /\ \A i, k \in Nat : x[3] = <<i>> \/ x[3] = <<i, k>> => i <= made'
          <5>1. x \in ToSet(w) /\ x[1] # "del"
            BY <4>1
          <5>2. x \notin Entries(r)
            BY <1>3, <4>1
          <5> QED BY <1>2, <5>1, <5>2
        <4> QED BY <4>1, <4>2
      <3> QED BY <1>8, <2>1, <3>1, <3>2 DEF LedBy
    <2>2. \A key \in DOMAIN now'.global :
            LET o == now'.global[key] IN
            \/ key \in DOMAIN now.global /\ o = now.global[key]
            \/ /\ o \notin DOMAIN rec /\ o \notin DOMAIN item
               /\ \A i, k \in Nat : o = <<i>> \/ o = <<i, k>> => i <= made'
      BY <1>7, <2>1
    <2> QED BY <1>5, <2>2, GlobalStays
  <1>16. IndexesFollowList'
    <2>1. /\ now.number \subseteq {<<rec[q].number, q>> : q \in Listed}
          /\ now.date \subseteq {<<rec[q].date, q>> : q \in Listed}
          /\ \A q \in Listed \ torn : <<rec[q].number, q>> \in now.number /\ <<rec[q].date, q>> \in now.date
      BY DEF WarehouseInv, IndexesFollowList, Listed
    <2>2. b.number \subseteq now.number /\ b.date \subseteq now.date
      BY <1>8 DEF LedBy
    <2>3. ASSUME NEW q \in Listed \ torn'
          PROVE  <<rec[q].number, q>> \in b.number /\ <<rec[q].date, q>> \in b.date
      <3>1. q \notin torn /\ <<rec[q].number, q>> \in now.number /\ <<rec[q].date, q>> \in now.date
        BY <1>9, <2>1
      <3>2. ASSUME NEW x \in W, x[1] \in {"number", "date"}
            PROVE  x[2] # <<rec[q].number, q>> /\ x[2] # <<rec[q].date, q>>
        <4>1. q # r
          BY <1>9, <3>2
        <4>2. x \in Entries(r)
          BY <1>2, <3>2
        <4>3. x[2] = <<rec[r].number, r>> \/ x[2] = <<rec[r].date, r>>
          BY <1>3, <4>2
        <4> QED BY <4>1, <4>3
      <3>3. PICK e, f : e = <<rec[q].number, q>> /\ f = <<rec[q].date, q>>
        OBVIOUS
      <3>4. \A x \in W : ~(x[1] = "number" /\ x[2] = e) /\ ~(x[1] = "date" /\ x[2] = f)
        BY <3>2, <3>3
      <3>5. e \in b.number /\ f \in b.date
        BY <1>8, <3>1, <3>3, <3>4 DEF LedBy
      <3> QED BY <3>3, <3>5
    <2>4. PICK L : L = Listed /\ L = ToSet(list.receipts)
      BY DEF Listed
    <2>5. ToSet(list.receipts)' = L /\ rec' = rec
      BY <1>5, <2>4
    <2>6. /\ b.number \subseteq {<<rec[q].number, q>> : q \in L}
          /\ b.date \subseteq {<<rec[q].date, q>> : q \in L}
          /\ \A q \in L \ torn' : <<rec[q].number, q>> \in b.number /\ <<rec[q].date, q>> \in b.date
      BY <2>1, <2>2, <2>3, <2>4
    <2> QED BY <1>7, <2>5, <2>6 DEF IndexesFollowList
  <1>17. TestNeverFails'
    BY <1>5 DEF TestNeverFails
  <1> QED BY <1>10, <1>11, <1>12, <1>13, <1>14, <1>15, <1>16, <1>17 DEF WarehouseInv

LEMMA CrashKeepsInv == WarehouseInv /\ Crash => WarehouseInv'
  <1> SUFFICES ASSUME WarehouseInv, Crash PROVE WarehouseInv'
    OBVIOUS
  <1>1. \/ Stop(<<>>, Nil) /\ made' = made
        \/ /\ made' = made + 1
           /\ \E n \in 0 .. MaxItems :
                Stop(SaveWrites(<<made + 1>>, NewReceipt(n, clock), NewDefs(n)), <<made + 1>>)
        \/ phase = "edit" /\ walk # Nil /\ Stop(DropWrites(walk, Edited(walk)), walk) /\ made' = made
        \/ /\ phase = "delete" /\ list.receipts # <<>> /\ made' = made
           /\ Stop(DeleteWrites(Head(list.receipts)), Head(list.receipts))
    BY Zenon DEF Crash
  <1>2. made \in Nat /\ made <= made /\ made + 1 \in Nat /\ made <= made + 1
    BY DEF WarehouseInv, TypeInv
  <1>3. ASSUME list.receipts # <<>>
        PROVE  LET r == Head(list.receipts) IN
               /\ r \in DOMAIN rec /\ rec[r].indexed = rec[r].number /\ rec[r].items \in Seq(Ids)
    <2>1. PICK T, q : T = Ids /\ q = list.receipts
      OBVIOUS
    <2>2. q \in Seq(T) /\ Listed \subseteq DOMAIN rec
      BY <2>1 DEF WarehouseInv, ReceiptsInv
    <2>3. Head(q) \in ToSet(q)
      BY <1>3, <2>1, <2>2, TailSet
    <2>4. PICK r : r = Head(q) /\ r \in DOMAIN rec
      BY <2>1, <2>2, <2>3 DEF Listed
    <2>5. rec[r] \in [number : Nat \X Nat, date : Nat, items : Seq(Ids),
                      fields : {CustomFields}, indexed : {rec[r].number}]
      BY <2>4 DEF WarehouseInv, ReceiptsInv
    <2>6. rec[r].indexed = rec[r].number /\ rec[r].items \in Seq(Ids)
      BY <2>5
    <2> QED BY <2>1, <2>4, <2>6
  <1>4. CASE Stop(<<>>, Nil) /\ made' = made
    <2>1. Harmless(<<>>, Nil)
      <3>1. <<>> \in Seq({}) /\ ToSet(<<>>) = {}
        BY DEF ToSet
      <3> QED BY <3>1 DEF Harmless
    <2> QED BY <1>2, <1>4, <2>1, StopKeepsInv
  <1>5. CASE /\ made' = made + 1
             /\ \E n \in 0 .. MaxItems :
                  Stop(SaveWrites(<<made + 1>>, NewReceipt(n, clock), NewDefs(n)), <<made + 1>>)
    <2>1. PICK n \in 0 .. MaxItems :
            Stop(SaveWrites(<<made + 1>>, NewReceipt(n, clock), NewDefs(n)), <<made + 1>>)
      BY <1>5
    <2>2. n \in Nat
      BY WarehouseAssumption
    <2>3. PICK r, new, defs, w : /\ r = <<made + 1>> /\ new = NewReceipt(n, clock) /\ defs = NewDefs(n)
                                 /\ w = SaveWrites(r, new, defs)
      OBVIOUS
    <2>4. DOMAIN defs = 1 .. n
      BY <2>3 DEF NewDefs
    <2>5. \A k \in 1 .. n : k \in Nat /\ new.items[k] = <<made + 1, k>>
      <3>1. NewReceipt(n, clock).items = [k \in 1 .. n |-> <<made + 1, k>>]
        BY <2>2, NewReceiptIs
      <3> QED BY <2>3, <3>1
    <2>6. /\ \E S : w \in Seq(S)
          /\ \A x \in ToSet(w) :
               /\ x[1] = "put"
               /\ \/ x[2] = new.number /\ x[3] = r
                  \/ \E k \in 1 .. n : x[2] = HashCode(defs[k]) /\ x[3] = new.items[k]
      <3>1. LET v == SaveWrites(r, new, defs) IN
            /\ \E S : v \in Seq(S)
            /\ \A x \in ToSet(v) :
                 /\ x[1] = "put"
                 /\ \/ x[2] = new.number /\ x[3] = r
                    \/ \E k \in 1 .. n : x[2] = HashCode(defs[k]) /\ x[3] = new.items[k]
        BY <2>2, <2>4, SaveWritesAre
      <3> QED BY <2>3, <3>1
    <2>7. PICK m : m = made + 1 /\ m \in Nat /\ made' = m /\ m <= m
      BY <1>2, <1>5
    <2>8. ASSUME NEW x \in ToSet(w)
          PROVE  /\ x[1] = "put" /\ x[3] \notin DOMAIN rec /\ x[3] \notin DOMAIN item
                 /\ \A i, k \in Nat : x[3] = <<i>> \/ x[3] = <<i, k>> => i <= made'
      <3>1. \/ x[3] = <<m>>
            \/ \E k \in Nat : x[3] = <<m, k>>
        BY <2>3, <2>5, <2>6, <2>7
      <3>2. x[3] \notin DOMAIN rec /\ x[3] \notin DOMAIN item
        BY <2>7, <3>1, NewIdsAreFresh
      <3>3. \A i, k \in Nat : x[3] = <<i>> \/ x[3] = <<i, k>> => i = m
        BY <3>1
      <3> QED BY <2>6, <2>7, <3>2, <3>3
    <2>9. Harmless(w, r)
      BY <2>6, <2>8 DEF Harmless
    <2>10. Stop(w, r) /\ made' \in Nat /\ made <= made'
      BY <1>2, <1>5, <2>1, <2>3
    <2> QED BY <2>9, <2>10, StopKeepsInv
  <1>6. CASE phase = "edit" /\ walk # Nil /\ Stop(DropWrites(walk, Edited(walk)), walk) /\ made' = made
    <2>1. PICK r, w : r = walk /\ w = DropWrites(r, Edited(r))
      OBVIOUS
    <2>2. list.receipts # <<>> /\ r = Head(list.receipts)
      BY <1>6, <2>1 DEF WarehouseInv, TornInv
    <2>3. r \in DOMAIN rec /\ rec[r].indexed = rec[r].number
      BY <1>3, <2>2
    <2>4. w \in Seq(Entries(r))
      BY <2>1, <2>3, DropWritesAre
    <2>5. \A x \in ToSet(w) : x \in Entries(r)
      <3>1. \A i \in DOMAIN w : w[i] \in Entries(r)
        BY <2>4, ElementOfSeq, LenProperties
      <3> QED BY <3>1 DEF ToSet
    <2>6. Harmless(w, r)
      BY <2>2, <2>3, <2>4, <2>5 DEF Harmless
    <2>7. Stop(w, r)
      BY <1>6, <2>1
    <2> QED BY <1>2, <1>6, <2>6, <2>7, StopKeepsInv
  <1>7. CASE /\ phase = "delete" /\ list.receipts # <<>> /\ made' = made
             /\ Stop(DeleteWrites(Head(list.receipts)), Head(list.receipts))
    <2>1. PICK r, w : r = Head(list.receipts) /\ w = DeleteWrites(r)
      OBVIOUS
    <2>2. r \in DOMAIN rec /\ rec[r].indexed = rec[r].number /\ rec[r].items \in Seq(Ids)
      BY <1>3, <1>7, <2>1
    <2>3. PICK I, q : I = Ids /\ q = DeletedItems(r) /\ q \in Seq(I)
      BY <2>2, DeletedItemsAre
    <2>4. /\ \E S : w \in Seq(S)
          /\ \A x \in ToSet(w) : x[1] = "del" \/ x \in Entries(r)
      <3>1. LET v == DeleteWrites(r) IN
            /\ \E S : v \in Seq(S)
            /\ \A x \in ToSet(v) : x[1] = "del" \/ x \in Entries(r)
        BY <2>2, <2>3, DeleteWritesAre
      <3> QED BY <2>1, <3>1
    <2>5. Harmless(w, r)
      BY <1>7, <2>1, <2>2, <2>4 DEF Harmless
    <2>6. Stop(w, r)
      BY <1>7, <2>1
    <2> QED BY <1>2, <1>7, <2>5, <2>6, StopKeepsInv
  <1> QED BY <1>1, <1>4, <1>5, <1>6, <1>7

-----------------------------------------------------------------------------
(* The theorems                                                            *)

LEMMA StutterKeepsInv == WarehouseInv /\ UNCHANGED vars => WarehouseInv'
  <1> SUFFICES ASSUME WarehouseInv, UNCHANGED vars PROVE WarehouseInv'
    OBVIOUS
  <1>1. UNCHANGED <<phase, step, walk, cursor, clock, list, keys, rec, item, now, linked, made, failed, torn>>
    BY DEF vars, program, stored
  <1>2. TypeInv' /\ PackagesInv' /\ DefinitionsInv'
    BY <1>1 DEF WarehouseInv, TypeInv, PackagesInv, DefinitionsInv, IsNow
  <1>3. made' \in Nat /\ made <= made'
    BY <1>1 DEF WarehouseInv, TypeInv
  <1>4. ReceiptsInv' /\ ItemsInv' /\ ItemsFollowReceipts'
    BY <1>1, <1>3, ReceiptsStay
  <1>5. NumbersInv' /\ TornInv'
    BY <1>1 DEF WarehouseInv, NumbersInv, TornInv, Listed
  <1>6. GlobalInv' /\ NoDeletedObjectIsFound'
    BY <1>1, <1>3, GlobalStays
  <1>7. IndexesFollowList'
    BY <1>1, IndexesStay DEF WarehouseInv
  <1>8. TestNeverFails'
    BY <1>1 DEF WarehouseInv, TestNeverFails
  <1> QED BY <1>2, <1>4, <1>5, <1>6, <1>7, <1>8 DEF WarehouseInv

\* In every run, whatever runs before were cut short and wherever, the lists, their
\* indexes, the objects and the global index fit together: WarehouseInv holds.
THEOREM WarehouseInvariant == Spec => []WarehouseInv
  <1>1. Init => WarehouseInv
    BY WarehouseInit
  <1>2. WarehouseInv /\ [Next]_vars => WarehouseInv'
    <2> SUFFICES ASSUME WarehouseInv, [Next]_vars PROVE WarehouseInv'
      OBVIOUS
    <2>1. CASE Run
      <3>1. \/ EnsureDatabaseRoot \/ EndEdit \/ EndRun
            \/ InsertPackage \/ InsertItemDefinition \/ CreateReceipt
            \/ EditReceipt \/ TestIntegrity \/ DeleteReceipt
            \/ NextFill("packages", "definitions", "packages", Len(Packages))
            \/ NextFill("definitions", "receipts", "definitions", Len(Definitions))
            \/ NextFill("receipts", "edit", "receipts", ReceiptCount)
        BY <2>1, Zenon DEF Run
      <3> QED BY <3>1, StartKeepsInv, InsertPackageKeepsInv, InsertDefinitionKeepsInv,
                 CreateReceiptKeepsInv, EditReceiptKeepsInv, TestKeepsInv,
                 DeleteReceiptKeepsInv, FillsKeepInv
    <2>2. CASE Crash
      BY <2>2, CrashKeepsInv
    <2>3. CASE Start
      BY <2>3, StartKeepsInv
    <2>4. CASE UNCHANGED vars
      BY <2>4, StutterKeepsInv
    <2> QED BY <2>1, <2>2, <2>3, <2>4 DEF Next
  <1> QED BY <1>1, <1>2, PTL DEF Spec

\* TestIntegrity finds nothing wrong, though an earlier run may have been cut short
\* between a change of an index and the commit: the first turn of the next run's edit
\* mends it.
THEOREM TestsNeverFail == Spec => []TestNeverFails
  <1>1. WarehouseInv => TestNeverFails
    BY DEF WarehouseInv
  <1> QED BY <1>1, WarehouseInvariant, PTL

\* The indexes by number and date, which change before the commit, lead to exactly
\* the receipts of the list, but for one that a cut removal dropped.
THEOREM IndexesAlwaysFollowList == Spec => []IndexesFollowList
  <1>1. WarehouseInv => IndexesFollowList
    BY DEF WarehouseInv
  <1> QED BY <1>1, WarehouseInvariant, PTL

\* DeleteInnerItems and Save keep the item list the items of the listed receipts.
THEOREM ItemsAlwaysFollowReceipts == Spec => []ItemsFollowReceipts
  <1>1. WarehouseInv => ItemsFollowReceipts
    BY DEF WarehouseInv
  <1> QED BY <1>1, WarehouseInvariant, PTL

\* What the global index leads to has not been deleted, except under a receipt's
\* number from before an edit.
THEOREM DeletedObjectsAreNotFound == Spec => []NoDeletedObjectIsFound
  <1>1. WarehouseInv => NoDeletedObjectIsFound
    BY DEF WarehouseInv
  <1> QED BY <1>1, WarehouseInvariant, PTL

\* RemoveFromIndex, which cannot find the entry of an item by its time, takes no
\* entry of a listed item away either.
THEOREM ItemsAreAlwaysTimed == Spec => []StoredItemsAreTimed
  <1>1. WarehouseInv => StoredItemsAreTimed
    BY DEF WarehouseInv, ItemsInv, Stored, StoredItemsAreTimed
  <1> QED BY <1>1, WarehouseInvariant, PTL

\* GetNextItemDefinition always has a definition and RemoveFromIndex an entry to look
\* at; only a definition without its package ends the program.
THEOREM OnlyPartialPackagesAbort == Spec => []AbortsOnlyOnPartialPackages
  <1>1. WarehouseInv => AbortsOnlyOnPartialPackages
    BY DEF WarehouseInv, PackagesInv, AbortsOnlyOnPartialPackages
  <1> QED BY <1>1, WarehouseInvariant, PTL
=============================================================================
