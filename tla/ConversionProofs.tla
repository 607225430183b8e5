--------------------------- MODULE ConversionProofs ---------------------------
(***************************************************************************)
(* Proofs about Convert, for every native database: whatever its objects,  *)
(* references and hash tables, whichever of them can be read.  About       *)
(* WString, for texts of any length over any characters.  And about        *)
(* ObjectRows, for classes of any fields and objects of any content.       *)
(***************************************************************************)
EXTENDS Convert, ObjectRows, WString, SeqLemmas

-----------------------------------------------------------------------------
(* The queue, its items and what they lead to                              *)

\* NewIn gives each new reference once, and nothing else.
LEMMA NewInProperties ==
  ASSUME NEW S, NEW seq \in Seq(S), NEW seen
  PROVE  /\ NewIn(seq, seen) \in Seq(S) /\ Once(NewIn(seq, seen))
         /\ ToSet(NewIn(seq, seen)) = ToSet(seq) \ (seen \cup {0})
  <1> DEFINE N == Len(seq)
             next(q, x) == IF x = 0 \/ x \in seen \/ Contains(q, x) THEN q ELSE Append(q, x)
             Firsts(n) == {seq[i] : i \in 1 .. n} \ (seen \cup {0})
  <1>1. N \in Nat /\ DOMAIN seq = 1 .. N /\ \A n \in 1 .. N : seq[n] \in S
    BY LenProperties, ElementOfSeq
  <1> HIDE DEF N
  <1>2. \E f : f = [n \in 0 .. N |-> IF n = 0 THEN <<>> ELSE next(f[n - 1], seq[n])]
    <2> DEFINE g == [n \in 1 .. N |-> [q \in Seq(S) |-> next(q, seq[n])]]
    <2>1. g \in [1 .. N -> [Seq(S) -> Seq(S)]]
      BY <1>1, AppendProperties
    <2>2. PICK f : Builds(f, S, N, g)
      <3> HIDE DEF g
      <3>1. N \in Nat
        BY <1>1
      <3> QED BY <3>1, <2>1, SeqRecursion
    <2>3. \A n \in 1 .. N : f[n] = next(f[n - 1], seq[n])
      <3> TAKE n \in 1 .. N
      <3>1. f[n - 1] \in Seq(S) /\ f[n] = g[n][f[n - 1]]
        <4>1. n - 1 \in 0 .. N
          BY <1>1
        <4> HIDE DEF g
        <4> QED BY <2>2, <4>1 DEF Builds
      <3> QED BY <3>1
    <2> HIDE DEF next
    <2>4. f = [n \in 0 .. N |-> IF n = 0 THEN <<>> ELSE next(f[n - 1], seq[n])]
      BY <1>1, <2>2, <2>3 DEF Builds
    <2> QED BY <2>4
  <1>3. PICK new : /\ NewIn(seq, seen) = new[N] /\ new[0] = <<>>
                   /\ \A n \in 1 .. N : new[n] = next(new[n - 1], seq[n])
    <2> DEFINE new == CHOOSE f : f = [n \in 0 .. N |-> IF n = 0 THEN <<>> ELSE next(f[n - 1], seq[n])]
    <2>1. NewIn(seq, seen) = new[N]
      BY DEF NewIn, N
    <2>2. new = [n \in 0 .. N |-> IF n = 0 THEN <<>> ELSE next(new[n - 1], seq[n])]
      BY <1>2
    <2> HIDE DEF new, next
    <2>3. new[0] = <<>> /\ \A n \in 1 .. N : new[n] = next(new[n - 1], seq[n])
      BY <1>1, <2>2
    <2> QED BY <2>1, <2>3
  <1> DEFINE Good(q, n) == q \in Seq(S) /\ Once(q) /\ ToSet(q) = Firsts(n)
             P == {n \in 0 .. N : Good(new[n], n)}
  <1>4. 0 \in P
    <2>1. Good(<<>>, 0)
      BY DEF Once, ToSet
    <2> HIDE DEF Good
    <2> QED BY <1>1, <1>3, <2>1
  <1>5. ASSUME NEW n \in 1 .. N, n - 1 \in P PROVE n \in P
    <2>1. PICK q, x : q = new[n - 1] /\ x = seq[n] /\ Good(q, n - 1) /\ x \in S /\ new[n] = next(q, x)
      BY <1>1, <1>3, <1>5
    <2>2. \A i \in 1 .. n : i = n \/ i \in 1 .. n - 1
      OBVIOUS
    <2>3. Firsts(n) = Firsts(n - 1) \cup ({x} \ (seen \cup {0}))
      BY <2>1, <2>2
    <2>4. Contains(q, x) <=> x \in ToSet(q)
      BY <2>1, LenProperties DEF Contains, ToSet
    <2> HIDE DEF Firsts
    <2>5. Good(next(q, x), n)
      <3>1. CASE x = 0 \/ x \in seen \/ Contains(q, x)
        BY <2>1, <2>3, <2>4, <3>1
      <3>2. CASE ~(x = 0 \/ x \in seen \/ Contains(q, x))
        <4>1. /\ Append(q, x) \in Seq(S) /\ ToSet(Append(q, x)) = ToSet(q) \cup {x} /\ Once(Append(q, x))
          BY <2>1, <3>2, AppendOnce
        <4> QED BY <2>1, <2>3, <3>2, <4>1
      <3> QED BY <3>1, <3>2
    <2> HIDE DEF Good, next
    <2> QED BY <2>1, <2>5
  <1> HIDE DEF P, Good
  <1>6. N \in P
    BY <1>1, <1>4, <1>5, UpTo
  <1>7. NewIn(seq, seen) \in Seq(S) /\ Once(NewIn(seq, seen)) /\ ToSet(NewIn(seq, seen)) = Firsts(N)
    BY <1>3, <1>6 DEF P, Good
  <1>8. Firsts(N) = ToSet(seq) \ (seen \cup {0})
    BY <1>1 DEF ToSet
  <1> QED BY <1>7, <1>8

\* The items of a hash table, and the objects in them, are those of its buckets.
LEMMA ItemsProperties ==
  ASSUME Native, NEW o \in Oid
  PROVE  /\ Items(o) \in Seq(Item) /\ \A i \in DOMAIN Items(o) : Items(o)[i] \in Item
         /\ \A b \in DOMAIN chains[o] : \A i \in DOMAIN chains[o][b] :
              \E j \in DOMAIN Items(o) : Items(o)[j] = chains[o][b][i]
         /\ [i \in DOMAIN Items(o) |-> Items(o)[i].obj] \in Seq(Oid)
         /\ kind[o] = "dictionary" =>
              ToSet([i \in DOMAIN Items(o) |-> Items(o)[i].obj]) = Follow(o)
  <1>1. chains[o] \in Seq(Seq(Item))
    BY DEF Native
  <1>2. PICK items : items = Items(o)
    OBVIOUS
  <1>3. items \in Seq(Item) /\ ToSet(items) = UNION {ToSet(chains[o][b]) : b \in DOMAIN chains[o]}
    BY <1>1, <1>2, FlattenProperties DEF Items
  <1>4. /\ Len(items) \in Nat /\ DOMAIN items = 1 .. Len(items)
        /\ \A i \in DOMAIN items : items[i] \in Item
    BY <1>3, LenProperties, ElementOfSeq
  <1>5. ASSUME NEW b \in DOMAIN chains[o], NEW i \in DOMAIN chains[o][b]
        PROVE  \E j \in DOMAIN items : items[j] = chains[o][b][i]
    <2>1. chains[o][b][i] \in ToSet(chains[o][b])
      BY DEF ToSet
    <2>2. chains[o][b][i] \in ToSet(items)
      BY <1>3, <2>1, Zenon
    <2> QED BY <2>2 DEF ToSet
  <1> DEFINE objs == [i \in DOMAIN items |-> items[i].obj]
  <1>6. objs \in Seq(Oid)
    <2>1. \A i \in 1 .. Len(items) : items[i].obj \in Oid
      BY <1>4 DEF Item
    <2> QED BY <1>4, <2>1, IsASeq
  <1>7. ASSUME kind[o] = "dictionary" PROVE ToSet(objs) = Follow(o)
    <2>1. Follow(o) = UNION {{item.obj : item \in ToSet(chain)} : chain \in ToSet(chains[o])}
      BY <1>7 DEF Follow
    <2>2. ToSet(chains[o]) = {chains[o][b] : b \in DOMAIN chains[o]}
      BY DEF ToSet
    <2>3. ToSet(objs) = {item.obj : item \in ToSet(items)}
      BY DEF ToSet
    <2>4. Follow(o) = UNION {{item.obj : item \in ToSet(chains[o][b])} : b \in DOMAIN chains[o]}
      BY <2>1, <2>2
    <2> DEFINE T(b) == ToSet(chains[o][b])
    <2>5. ToSet(items) = UNION {T(b) : b \in DOMAIN chains[o]}
      BY <1>3
    <2>6. Follow(o) = UNION {{item.obj : item \in T(b)} : b \in DOMAIN chains[o]}
      BY <2>4
    <2> HIDE DEF T, objs
    <2>7. \A x \in ToSet(objs) : x \in Follow(o)
      BY <2>3, <2>5, <2>6
    <2>8. \A x \in Follow(o) : x \in ToSet(objs)
      BY <2>3, <2>5, <2>6
    <2> QED BY <2>7, <2>8
  <1> QED BY <1>2, <1>3, <1>4, <1>5, <1>6, <1>7

LEMMA FollowType ==
  ASSUME Native, NEW o \in Oid
  PROVE  Follow(o) \subseteq Oid
  <1>1. CASE kind[o] = "plain"
    <2>1. refs[o] \in Seq(Oid \cup {0})
      BY DEF Native
    <2>2. \A i \in DOMAIN refs[o] : refs[o][i] \in Oid \cup {0}
      BY <2>1, ElementOfSeq, LenProperties
    <2>3. Follow(o) = ToSet(refs[o]) \ {0}
      BY <1>1 DEF Follow
    <2> QED BY <2>2, <2>3 DEF ToSet
  <1>2. CASE kind[o] = "dictionary"
    <2>1. PICK objs : objs \in Seq(Oid) /\ ToSet(objs) = Follow(o)
      BY <1>2, ItemsProperties
    <2>2. \A i \in DOMAIN objs : objs[i] \in Oid
      BY <2>1, ElementOfSeq, LenProperties
    <2> QED BY <2>1, <2>2 DEF ToSet
  <1>3. CASE kind[o] \notin {"plain", "dictionary"}
    BY <1>3 DEF Follow
  <1> QED BY <1>1, <1>2, <1>3

\* Reachable is the least set with the root that is closed under Follow.
LEMMA ReachableLeast ==
  ASSUME NEW S \in SUBSET Oid, Root \in S, \A x \in S : Follow(x) \subseteq S
  PROVE  Reachable \subseteq S
  BY DEF Reachable

LEMMA ReachableClosed ==
  ASSUME Native, NEW o \in Reachable
  PROVE  Follow(o) \subseteq Reachable
  <1>1. o \in Oid /\ Follow(o) \subseteq Oid
    BY FollowType DEF Reachable
  <1>2. ASSUME NEW x \in Follow(o), NEW S \in SUBSET Oid, Root \in S, \A y \in S : Follow(y) \subseteq S
        PROVE  x \in S
    <2>1. o \in S
      BY <1>2 DEF Reachable
    <2> QED BY <1>2, <2>1
  <1> QED BY <1>1, <1>2 DEF Reachable

-----------------------------------------------------------------------------
(* Entries of a hash table                                                 *)

LEMMA LastExists ==
  ASSUME NEW items \in Seq(Item), NEW i \in DOMAIN items
  PROVE  \E j \in DOMAIN items : items[j].name = items[i].name /\ LastOfName(items, j)
  <1> DEFINE N == Len(items)
             T == {d \in 0 .. N : \E j \in 1 .. N : d = N - j /\ items[j].name = items[i].name}
  <1>1. N \in Nat /\ DOMAIN items = 1 .. N /\ i \in 1 .. N
    BY LenProperties
  <1> HIDE DEF N
  <1>2. T \in SUBSET Nat /\ N - i \in T
    BY <1>1
  <1>3. PICK d \in T : \A e \in T : d <= e
    <2> HIDE DEF T
    <2> QED BY <1>2, LeastExists
  <1>4. PICK j \in 1 .. N : d = N - j /\ items[j].name = items[i].name
    OBVIOUS
  <1>5. ASSUME NEW k \in 1 .. N, k > j, items[k].name = items[j].name PROVE FALSE
    <2>1. N - k \in T
      BY <1>1, <1>4, <1>5
    <2>2. d <= N - k
      BY <1>3, <2>1
    <2> QED BY <1>1, <1>4, <1>5, <2>2
  <1> QED BY <1>1, <1>4, <1>5 DEF LastOfName

\* A hash table has an entry of every name of its items, and each entry an object
\* of one of them.
LEMMA HashPutEffect ==
  ASSUME NEW o, NEW items \in Seq(Item), HashPut(o, items)
  PROVE  /\ DOMAIN entries \subseteq DOMAIN entries'
         /\ \A i \in DOMAIN items : <<o, items[i].name>> \in DOMAIN entries'
         /\ \A k \in DOMAIN entries' :
              \/ \E i \in DOMAIN items : entries'[k] = items[i].obj
              \/ k \in DOMAIN entries /\ entries'[k] = entries[k]
  <1> DEFINE last == {i \in DOMAIN items : LastOfName(items, i)}
             value(k) == IF \E i \in last : k = <<o, items[i].name>>
                         THEN items[CHOOSE i \in last : k = <<o, items[i].name>>].obj
                         ELSE entries[k]
  <1>1. entries' = [k \in DOMAIN entries \cup {<<o, items[i].name>> : i \in last} |-> value(k)]
    BY DEF HashPut
  <1>2. ASSUME NEW i \in DOMAIN items PROVE \E j \in last : items[j].name = items[i].name
    BY LastExists
  <1>3. {<<o, items[i].name>> : i \in last} = {<<o, items[i].name>> : i \in DOMAIN items}
    <2>1. \A k : (\E i \in last : k = <<o, items[i].name>>)
                   <=> (\E i \in DOMAIN items : k = <<o, items[i].name>>)
      BY <1>2
    <2> HIDE DEF last
    <2> QED BY <2>1
  <1>4. ASSUME NEW k, \E i \in last : k = <<o, items[i].name>>
        PROVE  \E i \in DOMAIN items : value(k) = items[i].obj
    <2>1. PICK c : c = (CHOOSE i \in last : k = <<o, items[i].name>>)
      OBVIOUS
    <2>2. c \in last
      BY <1>4, <2>1
    <2> QED BY <1>4, <2>1, <2>2
  <1>5. ASSUME NEW k, ~ \E i \in last : k = <<o, items[i].name>>
        PROVE  value(k) = entries[k] /\ k \notin {<<o, items[i].name>> : i \in last}
    BY <1>5
  <1> HIDE DEF last, value
  <1>6. \A k \in DOMAIN entries' : entries'[k] = value(k)
    BY <1>1
  <1>7. DOMAIN entries' = DOMAIN entries \cup {<<o, items[i].name>> : i \in last}
    BY <1>1
  <1>8. ASSUME NEW k \in DOMAIN entries'
        PROVE  \/ \E i \in DOMAIN items : entries'[k] = items[i].obj
               \/ k \in DOMAIN entries /\ entries'[k] = entries[k]
    BY <1>4, <1>5, <1>6, <1>7
  <1>9. \A i \in DOMAIN items : <<o, items[i].name>> \in DOMAIN entries'
    BY <1>3, <1>7
  <1> QED BY <1>7, <1>8, <1>9

-----------------------------------------------------------------------------
(* The invariant                                                           *)

\* The objects the walk is through with.
Handled == bitmap \ ToSet(queue)

Stored(o) == kind[o] \in {"plain", "dictionary"}

\* The walk has marked what it is through with and what is in the queue, and has
\* written what it is through with and nothing else.
WalkInv ==
  /\ queue \in Seq(Oid) /\ Once(queue) /\ ToSet(queue) \subseteq bitmap
  /\ Root \in bitmap /\ bitmap \subseteq Reachable
  /\ maxOpid \in Oid
  /\ DOMAIN rows = {o \in Handled : Stored(o)}
  /\ files = {o \in Handled : kind[o] = "blob" /\ o \notin unread}
  /\ \A o \in Handled :
       /\ o <= maxOpid /\ kind[o] \in classes /\ Follow(o) \subseteq bitmap
       /\ kind[o] # "unknown" /\ (Stored(o) => o \notin unread)
  /\ \A o \in DOMAIN rows : rows[o] = IF kind[o] = "plain" THEN refs[o] ELSE <<>>
  /\ \A k \in DOMAIN entries : entries[k] \in bitmap
  /\ \A o \in DOMAIN rows : kind[o] = "dictionary" =>
       \A i \in DOMAIN Items(o) : <<o, Items(o)[i].name>> \in DOMAIN entries

ConvertInv ==
  /\ Native /\ phase \in {"run", "done", "failed"}
  /\ phase \in {"run", "done"} => WalkInv
  /\ phase = "done" => queue = <<>> /\ nextOid = maxOpid + 1
  /\ FailsOnlyOnBadFiles

-----------------------------------------------------------------------------
(* A step of the walk                                                      *)

\* What becomes of queue and bitmap when object o, which leads to the objects
\* in next, has been handled.
LEMMA Advance ==
  ASSUME queue \in Seq(Oid), Once(queue), ToSet(queue) \subseteq bitmap, queue # <<>>,
         NEW next, NEW new \in Seq(Oid), Once(new), ToSet(new) = next \ bitmap,
         queue' = Tail(queue) \o new, bitmap' = bitmap \cup next
  PROVE  /\ queue' \in Seq(Oid) /\ Once(queue)' /\ (ToSet(queue) \subseteq bitmap)'
         /\ Head(queue) \in bitmap /\ Head(queue) \in Oid /\ Head(queue) \notin Handled
         /\ Handled' = Handled \cup {Head(queue)}
  <1>1. PICK q, h, t : q = queue /\ h = Head(queue) /\ t = Tail(queue)
    OBVIOUS
  <1>2. /\ h \in Oid /\ t \in Seq(Oid) /\ ToSet(q) = {h} \cup ToSet(t)
        /\ Once(t) /\ h \notin ToSet(t)
    BY <1>1, TailSet
  <1>3. /\ t \o new \in Seq(Oid) /\ ToSet(t \o new) = ToSet(t) \cup ToSet(new) /\ Once(t \o new)
    <2>1. ToSet(t) \cap ToSet(new) = {}
      BY <1>1, <1>2
    <2>2. t \o new \in Seq(Oid) /\ ToSet(t \o new) = ToSet(t) \cup ToSet(new)
      BY <1>2, ConcatSet
    <2>3. Once(t \o new)
      BY <1>2, <2>1, ConcatOnce
    <2> QED BY <2>2, <2>3
  <1>4. queue' = t \o new
    BY <1>1
  <1>5. Once(queue)' /\ ToSet(queue)' = ToSet(t) \cup ToSet(new)
    <2>1. Once(queue') /\ ToSet(queue') = ToSet(t) \cup ToSet(new)
      BY <1>3, <1>4, Zenon
    <2> QED BY <2>1
  <1>6. Handled = bitmap \ ToSet(q) /\ Handled' = bitmap' \ (ToSet(t) \cup ToSet(new))
    BY <1>1, <1>5 DEF Handled
  <1> QED BY <1>1, <1>2, <1>3, <1>4, <1>5, <1>6

\* Object o, the first of the queue, has been handled.
Handle(o) ==
  /\ Next1(o) /\ kind[o] # "unknown" /\ (Stored(o) => o \notin unread)
  /\ \E new \in Seq(Oid) : /\ Once(new) /\ ToSet(new) = Follow(o) \ bitmap
                           /\ queue' = Tail(queue) \o new /\ bitmap' = bitmap \cup Follow(o)
  /\ Register(o) /\ Count(o)
  /\ IF Stored(o) THEN Insert(o, IF kind[o] = "plain" THEN refs[o] ELSE <<>>) ELSE UNCHANGED rows
  /\ files' = IF kind[o] = "blob" /\ o \notin unread THEN files \cup {o} ELSE files
  /\ IF kind[o] = "dictionary" THEN HashPut(o, Items(o)) ELSE UNCHANGED entries
  /\ UNCHANGED <<native, nextOid, phase>>

LEMMA HandleKeeps ==
  ASSUME Native, WalkInv, NEW o \in Oid, Handle(o)
  PROVE  WalkInv'
  <1>1. PICK new \in Seq(Oid) : /\ Once(new) /\ ToSet(new) = Follow(o) \ bitmap
                                /\ queue' = Tail(queue) \o new /\ bitmap' = bitmap \cup Follow(o)
    BY Zenon DEF Handle
  <1>2. /\ queue # <<>> /\ o = Head(queue) /\ kind[o] # "unknown" /\ (Stored(o) => o \notin unread)
        /\ maxOpid' = IF o > maxOpid THEN o ELSE maxOpid
        /\ classes' = classes \cup {kind[o]}
        /\ files' = IF kind[o] = "blob" /\ o \notin unread THEN files \cup {o} ELSE files
        /\ kind' = kind /\ refs' = refs /\ chains' = chains /\ unread' = unread
    BY Zenon DEF Handle, Next1, Register, Count, native
  <1>3. /\ queue \in Seq(Oid) /\ Once(queue) /\ ToSet(queue) \subseteq bitmap
        /\ Root \in bitmap /\ bitmap \subseteq Reachable
        /\ maxOpid \in Oid
        /\ DOMAIN rows = {x \in Handled : Stored(x)}
        /\ files = {x \in Handled : kind[x] = "blob" /\ x \notin unread}
    BY DEF WalkInv
  <1>4. /\ queue' \in Seq(Oid) /\ Once(queue)' /\ (ToSet(queue) \subseteq bitmap)'
        /\ o \in bitmap /\ o \notin Handled /\ Handled' = Handled \cup {o}
    BY <1>1, <1>2, <1>3, Advance
  <1>5. /\ \A x : Follow(x)' = Follow(x) /\ (Stored(x)' <=> Stored(x))
        /\ Reachable' = Reachable /\ \A x : Items(x)' = Items(x)
    <2>1. \A x : Follow(x)' = Follow(x) /\ (Stored(x)' <=> Stored(x)) /\ Items(x)' = Items(x)
      BY <1>2 DEF Follow, Stored, Items
    <2> QED BY <2>1 DEF Reachable
  <1>6. (Root \in bitmap)' /\ (bitmap \subseteq Reachable)'
    <2>1. Follow(o) \subseteq Reachable
      BY <1>3, <1>4, ReachableClosed
    <2> QED BY <1>1, <1>3, <1>5, <2>1
  <1>7. /\ maxOpid' \in Oid /\ maxOpid \in Nat /\ maxOpid <= maxOpid' /\ o <= maxOpid'
    BY <1>2, <1>3, OidAssumption
  <1>8. DOMAIN rows' = {x \in Handled' : Stored(x)'}
    <2>1. DOMAIN rows' = IF Stored(o) THEN DOMAIN rows \cup {o} ELSE DOMAIN rows
      BY DEF Handle, Insert
    <2> QED BY <1>3, <1>4, <1>5, <2>1
  <1>9. files' = {x \in Handled' : kind'[x] = "blob" /\ x \notin unread'}
    BY <1>2, <1>3, <1>4
  <1>10. \A x \in Handled' :
           /\ x <= maxOpid' /\ kind'[x] \in classes' /\ Follow(x)' \subseteq bitmap'
           /\ kind'[x] # "unknown" /\ (Stored(x)' => x \notin unread')
    <2>1. ASSUME NEW x \in Handled
          PROVE  /\ x <= maxOpid' /\ kind[x] \in classes' /\ Follow(x) \subseteq bitmap'
                 /\ kind[x] # "unknown" /\ (Stored(x) => x \notin unread)
      <3>1. /\ x <= maxOpid /\ kind[x] \in classes /\ Follow(x) \subseteq bitmap
            /\ kind[x] # "unknown" /\ (Stored(x) => x \notin unread)
        BY Zenon DEF WalkInv
      <3>2. x \in Nat /\ maxOpid' \in Nat
        BY <1>3, <1>7, OidAssumption DEF Handled, Reachable
      <3>3. x <= maxOpid'
        BY <1>7, <3>1, <3>2
      <3> QED BY <1>1, <1>2, <3>1, <3>3
    <2>2. /\ o <= maxOpid' /\ kind[o] \in classes' /\ Follow(o) \subseteq bitmap'
          /\ kind[o] # "unknown" /\ (Stored(o) => o \notin unread)
      BY <1>1, <1>2, <1>7
    <2>3. \A x \in Handled' : x = o \/ x \in Handled
      BY <1>4
    <2> QED BY <1>2, <1>5, <2>1, <2>2, <2>3
  <1>11. \A x \in DOMAIN rows' : rows'[x] = IF kind'[x] = "plain" THEN refs'[x] ELSE <<>>
    <2>1. \A x \in DOMAIN rows : rows[x] = IF kind[x] = "plain" THEN refs[x] ELSE <<>>
      BY DEF WalkInv
    <2>2. CASE Stored(o)
      <3>1. rows' = [x \in DOMAIN rows \cup {o} |->
                       IF x = o THEN IF kind[o] = "plain" THEN refs[o] ELSE <<>> ELSE rows[x]]
        BY <2>2, Zenon DEF Handle, Insert
      <3> QED BY <1>2, <2>1, <3>1
    <2>3. CASE ~Stored(o)
      <3>1. rows' = rows
        BY <2>3 DEF Handle
      <3> QED BY <1>2, <2>1, <3>1
    <2> QED BY <2>2, <2>3
  <1>12. \A k \in DOMAIN entries' : entries'[k] \in bitmap'
    <2>1. \A k \in DOMAIN entries : entries[k] \in bitmap'
      BY <1>1 DEF WalkInv
    <2>2. CASE kind[o] = "dictionary"
      <3>1. PICK items \in Seq(Item) : items = Items(o) /\ HashPut(o, items)
        BY <2>2, ItemsProperties, Zenon DEF Handle
      <3>2. \A i \in DOMAIN items : items[i].obj \in Follow(o)
        <4>1. ToSet([i \in DOMAIN items |-> items[i].obj]) = Follow(o)
          BY <2>2, <3>1, ItemsProperties, Zenon
        <4> QED BY <4>1 DEF ToSet
      <3>3. \A k \in DOMAIN entries' :
              \/ \E i \in DOMAIN items : entries'[k] = items[i].obj
              \/ k \in DOMAIN entries /\ entries'[k] = entries[k]
        BY <3>1, HashPutEffect, Zenon
      <3> QED BY <1>1, <2>1, <3>2, <3>3
    <2>3. CASE kind[o] # "dictionary"
      <3>1. entries' = entries
        BY <2>3 DEF Handle
      <3> QED BY <2>1, <3>1
    <2> QED BY <2>2, <2>3
  <1>13. \A x \in DOMAIN rows' : kind'[x] = "dictionary" =>
           \A i \in DOMAIN Items(x)' : <<x, Items(x)'[i].name>> \in DOMAIN entries'
    <2>1. ASSUME NEW x \in DOMAIN rows, kind[x] = "dictionary", NEW i \in DOMAIN Items(x)
          PROVE  <<x, Items(x)[i].name>> \in DOMAIN entries
      BY <2>1, Zenon DEF WalkInv
    <2>2. \A x \in DOMAIN rows' : x = o \/ x \in DOMAIN rows
      BY <1>3, <1>5, <1>8, <1>4
    <2>3. CASE kind[o] = "dictionary"
      <3>1. PICK items \in Seq(Item) : items = Items(o) /\ HashPut(o, items)
        BY <2>3, ItemsProperties, Zenon DEF Handle
      <3>2. /\ DOMAIN entries \subseteq DOMAIN entries'
            /\ \A i \in DOMAIN items : <<o, items[i].name>> \in DOMAIN entries'
        BY <3>1, HashPutEffect, Zenon
      <3>3. \A i \in DOMAIN Items(o) : <<o, Items(o)[i].name>> \in DOMAIN entries'
        BY <3>1, <3>2
      <3> QED BY <1>2, <1>5, <2>1, <2>2, <3>2, <3>3
    <2>4. CASE kind[o] # "dictionary"
      <3>1. entries' = entries
        BY <2>4 DEF Handle
      <3> QED BY <1>2, <1>5, <2>1, <2>2, <2>4, <3>1
    <2> QED BY <2>3, <2>4
  <1> QED BY <1>4, <1>6, <1>7, <1>8, <1>9, <1>10, <1>11, <1>12, <1>13, Zenon DEF WalkInv

LEMMA WalkUnchanged ==
  ASSUME WalkInv, kind' = kind, refs' = refs, chains' = chains, unread' = unread,
         queue' = queue, bitmap' = bitmap, maxOpid' = maxOpid, classes' = classes,
         rows' = rows, entries' = entries, files' = files
  PROVE  WalkInv'
  <1>1. /\ \A x : Follow(x)' = Follow(x) /\ (Stored(x)' <=> Stored(x)) /\ Items(x)' = Items(x)
        /\ Handled' = Handled
    BY DEF Follow, Stored, Items, Handled, ToSet
  <1>2. Reachable' = Reachable
    BY <1>1 DEF Reachable
  <1> QED BY <1>1, <1>2 DEF WalkInv, Once, ToSet

LEMMA ConvertInitInv ==
  ASSUME Native, ConvertInit
  PROVE  ConvertInv
  <1>1. /\ queue = <<Root>> /\ bitmap = {Root} /\ maxOpid = Root /\ rows = <<>> /\ entries = <<>>
        /\ files = {} /\ phase = "run" /\ Root \in Oid
    BY OidAssumption DEF ConvertInit
  <1>2. queue \in Seq(Oid) /\ Once(queue) /\ ToSet(queue) = {Root}
    BY <1>1 DEF Once, ToSet
  <1>3. Handled = {}
    BY <1>1, <1>2 DEF Handled
  <1>4. Root \in Reachable
    BY <1>1 DEF Reachable
  <1>5. DOMAIN rows = {} /\ DOMAIN entries = {}
    BY <1>1
  <1>6. WalkInv
    <2>1. /\ ToSet(queue) \subseteq bitmap /\ Root \in bitmap /\ bitmap \subseteq Reachable
          /\ maxOpid \in Oid
      BY <1>1, <1>2, <1>4
    <2>2. DOMAIN rows = {o \in Handled : Stored(o)}
      BY <1>3, <1>5
    <2>3. files = {o \in Handled : kind[o] = "blob" /\ o \notin unread}
      BY <1>1, <1>3
    <2> QED BY <1>2, <1>3, <1>5, <2>1, <2>2, <2>3, Zenon DEF WalkInv
  <1> QED BY <1>1, <1>6 DEF ConvertInv, FailsOnlyOnBadFiles

\* Reachable, and with it the reasons to fail, depend on the database alone.
LEMMA SameDatabase ==
  ASSUME UNCHANGED native
  PROVE  Reachable' = Reachable /\ (Native' <=> Native)
  <1>1. kind' = kind /\ refs' = refs /\ chains' = chains /\ unread' = unread
    BY DEF native
  <1>2. \A x : Follow(x)' = Follow(x)
    BY <1>1 DEF Follow
  <1>3. Reachable' = Reachable
    BY <1>2 DEF Reachable
  <1> QED BY <1>1, <1>3 DEF Native

\* The objects in the queue can be reached.
LEMMA HeadIsReachable ==
  ASSUME WalkInv, queue # <<>>
  PROVE  Head(queue) \in Reachable /\ Head(queue) \notin Handled
  <1>1. queue \in Seq(Oid) /\ ToSet(queue) \subseteq bitmap /\ bitmap \subseteq Reachable
    BY DEF WalkInv
  <1>2. Head(queue) \in ToSet(queue)
    BY <1>1, TailSet, Zenon
  <1> QED BY <1>1, <1>2 DEF Handled

\* A walk that is over has handled everything that can be reached.
LEMMA WalkIsComplete ==
  ASSUME Native, WalkInv, queue = <<>>
  PROVE  Handled = bitmap /\ bitmap = Reachable
  <1>1. Handled = bitmap
    BY DEF Handled, ToSet
  <1>2. /\ Root \in bitmap /\ bitmap \subseteq Reachable /\ bitmap \in SUBSET Oid
        /\ \A o \in bitmap : Follow(o) \subseteq bitmap
    BY <1>1 DEF WalkInv, Reachable
  <1>3. Reachable \subseteq bitmap
    BY <1>2, ReachableLeast
  <1> QED BY <1>1, <1>2, <1>3

LEMMA ConvertFailsKeeps ==
  ASSUME ConvertInv, NEW o \in Oid, ConvertFails(o)
  PROVE  ConvertInv'
  <1>1. /\ phase = "run" /\ queue # <<>> /\ o = Head(queue) /\ phase' = "failed"
        /\ UNCHANGED native /\ kind' = kind /\ unread' = unread
        /\ \/ kind[o] = "unknown"
           \/ kind[o] \in {"plain", "dictionary"} /\ (o \in unread \/ o \in DOMAIN rows)
    BY Zenon DEF ConvertFails, Next1, Abort, native
  <1>2. Native /\ WalkInv
    BY <1>1 DEF ConvertInv
  <1>3. o \in Reachable /\ o \notin Handled
    BY <1>1, <1>2, HeadIsReachable
  <1>4. o \notin DOMAIN rows
    BY <1>2, <1>3 DEF WalkInv
  <1>5. Reachable' = Reachable /\ Native'
    BY <1>1, <1>2, SameDatabase
  <1>6. FailsOnlyOnBadFiles'
    BY <1>1, <1>3, <1>4, <1>5 DEF FailsOnlyOnBadFiles
  <1> QED BY <1>1, <1>5, <1>6 DEF ConvertInv

\* After the walk has handled an object, it goes on.
LEMMA WalkGoesOn ==
  ASSUME ConvertInv, NEW o \in Oid, Handle(o)
  PROVE  ConvertInv'
  <1>1. phase = "run" /\ phase' = "run" /\ UNCHANGED native
    BY Zenon DEF Handle, Next1
  <1>2. Native /\ WalkInv
    BY <1>1 DEF ConvertInv
  <1>3. WalkInv'
    BY <1>2, HandleKeeps
  <1>4. Native'
    BY <1>1, <1>2, SameDatabase
  <1> QED BY <1>1, <1>3, <1>4 DEF ConvertInv, FailsOnlyOnBadFiles

LEMMA NothingNew ==
  ASSUME queue \in Seq(Oid), queue # <<>>
  PROVE  /\ <<>> \in Seq(Oid) /\ Once(<<>>) /\ ToSet(<<>>) = {}
         /\ Tail(queue) = Tail(queue) \o <<>>
  <1>1. Tail(queue) \in Seq(Oid)
    BY TailSet
  <1>2. Tail(queue) = Tail(queue) \o <<>>
    BY <1>1, ConcatEmptySeq
  <1> QED BY <1>2 DEF Once, ToSet

\* ConvertBlob and SkipNonRelational handle an object without what it leads to.
LEMMA LeftOutIsHandled ==
  ASSUME ConvertInv, NEW o \in Oid, ConvertBlob(o) \/ SkipNonRelational(o)
  PROVE  Handle(o)
  <1>1. /\ Next1(o) /\ phase = "run" /\ queue # <<>> /\ kind[o] \in {"blob", "nonRelational"}
        /\ Register(o) /\ Count(o) /\ queue' = Tail(queue) /\ bitmap' = bitmap
        /\ UNCHANGED <<native, nextOid, phase>> /\ rows' = rows /\ entries' = entries
    BY Zenon DEF ConvertBlob, SkipNonRelational, Next1
  <1>2. files' = IF kind[o] = "blob" /\ o \notin unread THEN files \cup {o} ELSE files
    BY DEF ConvertBlob, SkipNonRelational
  <1>3. Follow(o) = {} /\ ~Stored(o) /\ kind[o] # "unknown" /\ kind[o] # "dictionary"
    BY <1>1 DEF Follow, Stored
  <1>4. queue \in Seq(Oid)
    BY <1>1 DEF ConvertInv, WalkInv
  <1>5. \E new \in Seq(Oid) : /\ Once(new) /\ ToSet(new) = Follow(o) \ bitmap
                              /\ queue' = Tail(queue) \o new /\ bitmap' = bitmap \cup Follow(o)
    <2>1. /\ <<>> \in Seq(Oid) /\ Once(<<>>) /\ ToSet(<<>>) = {} /\ queue' = Tail(queue) \o <<>>
      BY <1>1, <1>4, NothingNew
    <2>2. {} = Follow(o) \ bitmap /\ bitmap' = bitmap \cup Follow(o)
      BY <1>1, <1>3
    <2> QED BY <2>1, <2>2, Zenon
  <1> QED BY <1>1, <1>2, <1>3, <1>5, Zenon DEF Handle

\* Queue marks and queues what the references lead to.
LEMMA QueueEffect ==
  ASSUME NEW o \in Oid, NEW seq \in Seq(Oid \cup {0}), Queue(o, seq), 0 \notin Oid
  PROVE  \E new \in Seq(Oid) : /\ Once(new) /\ ToSet(new) = (ToSet(seq) \ {0}) \ bitmap
                               /\ queue' = Tail(queue) \o new
                               /\ bitmap' = bitmap \cup (ToSet(seq) \ {0})
  <1>1. PICK new : new = NewIn(seq, bitmap)
    OBVIOUS
  <1>2. new \in Seq(Oid \cup {0}) /\ Once(new) /\ ToSet(new) = ToSet(seq) \ (bitmap \cup {0})
    BY <1>1, NewInProperties
  <1>3. queue' = Tail(queue) \o new /\ bitmap' = bitmap \cup (ToSet(seq) \ {0})
    BY <1>1 DEF Queue
  <1>4. new \in Seq(Oid)
    <2>1. Len(new) \in Nat /\ DOMAIN new = 1 .. Len(new) /\ \A i \in 1 .. Len(new) : new[i] \in Oid \cup {0}
      BY <1>2, LenProperties, ElementOfSeq
    <2>2. \A i \in 1 .. Len(new) : new[i] # 0
      <3>1. \A i \in 1 .. Len(new) : new[i] \in ToSet(new)
        BY <2>1 DEF ToSet
      <3> QED BY <1>2, <3>1
    <2>3. new = [i \in 1 .. Len(new) |-> new[i]]
      BY <1>2, SeqDef
    <2>4. [i \in 1 .. Len(new) |-> new[i]] \in Seq(Oid)
      BY <2>1, <2>2, IsASeq
    <2> QED BY <2>3, <2>4
  <1>5. ToSet(new) = (ToSet(seq) \ {0}) \ bitmap
    BY <1>2
  <1> QED BY <1>2, <1>3, <1>4, <1>5

LEMMA DictionaryIsHandled ==
  ASSUME ConvertInv, NEW o \in Oid, ConvertDictionary(o)
  PROVE  Handle(o)
  <1>1. /\ Next1(o) /\ kind[o] = "dictionary" /\ o \notin unread
        /\ Register(o) /\ Count(o) /\ HashPut(o, Items(o))
        /\ Queue(o, [i \in DOMAIN Items(o) |-> Items(o)[i].obj])
        /\ Insert(o, <<>>)
        /\ UNCHANGED <<native, nextOid, phase>> /\ files' = files
    BY Zenon DEF ConvertDictionary, Readable
  <1>2. PICK objs : objs = [i \in DOMAIN Items(o) |-> Items(o)[i].obj]
    OBVIOUS
  <1>3. objs \in Seq(Oid) /\ ToSet(objs) = Follow(o) /\ Queue(o, objs)
    <2>1. Native
      BY DEF ConvertInv
    <2> QED BY <1>1, <1>2, <2>1, ItemsProperties, Zenon
  <1>4. 0 \notin Oid /\ Follow(o) \subseteq Oid
    BY OidAssumption, FollowType DEF ConvertInv
  <1>5. objs \in Seq(Oid \cup {0}) /\ ToSet(objs) \ {0} = Follow(o)
    BY <1>3, <1>4
  <1>6. \E new \in Seq(Oid) : /\ Once(new) /\ ToSet(new) = (ToSet(objs) \ {0}) \ bitmap
                              /\ queue' = Tail(queue) \o new
                              /\ bitmap' = bitmap \cup (ToSet(objs) \ {0})
    BY <1>3, <1>4, <1>5, QueueEffect
  <1>7. Stored(o) /\ kind[o] # "plain" /\ kind[o] # "blob" /\ kind[o] # "unknown"
    BY <1>1 DEF Stored
  <1> QED BY <1>1, <1>5, <1>6, <1>7, Zenon DEF Handle

LEMMA ObjectIsHandled ==
  ASSUME ConvertInv, NEW o \in Oid, ConvertObject(o)
  PROVE  Handle(o)
  <1>1. /\ Next1(o) /\ kind[o] = "plain" /\ o \notin unread
        /\ Register(o) /\ Count(o) /\ Queue(o, refs[o]) /\ Insert(o, refs[o])
        /\ UNCHANGED <<native, nextOid, phase>> /\ files' = files /\ entries' = entries
    BY Zenon DEF ConvertObject, Readable
  <1>2. refs[o] \in Seq(Oid \cup {0}) /\ 0 \notin Oid
    BY OidAssumption DEF ConvertInv, Native
  <1>3. ToSet(refs[o]) \ {0} = Follow(o)
    BY <1>1 DEF Follow
  <1>4. \E new \in Seq(Oid) : /\ Once(new) /\ ToSet(new) = (ToSet(refs[o]) \ {0}) \ bitmap
                              /\ queue' = Tail(queue) \o new
                              /\ bitmap' = bitmap \cup (ToSet(refs[o]) \ {0})
    BY <1>1, <1>2, QueueEffect
  <1>5. Stored(o) /\ kind[o] # "blob" /\ kind[o] # "unknown" /\ kind[o] # "dictionary"
    BY <1>1 DEF Stored
  <1> QED BY <1>1, <1>3, <1>4, <1>5, Zenon DEF Handle

\* Only a database with nothing but the root stays below the minimum.
LEMMA FinishKeeps ==
  ASSUME ConvertInv, Finish
  PROVE  ConvertInv'
  <1>1. phase = "run" /\ queue = <<>> /\ Native /\ WalkInv
    BY DEF Finish, ConvertInv
  <1>2. Handled = bitmap /\ bitmap = Reachable
    BY <1>1, WalkIsComplete
  <1>3. CASE maxOpid < MinOid
    <2>1. UNCHANGED native /\ phase' = "failed"
      BY <1>3, Zenon DEF Finish, Abort
    <2>2. Reachable' = Reachable /\ Native'
      BY <1>1, <2>1, SameDatabase
    <2>3. \A o \in Reachable : o <= maxOpid
      BY <1>1, <1>2 DEF WalkInv
    <2>4. \A o \in Reachable : o = Root
      BY <1>1, <1>3, <2>3, OidAssumption DEF WalkInv, Reachable
    <2>5. Root \in Reachable
      BY <1>1, <1>2 DEF WalkInv
    <2>6. Reachable' = {Root}
      BY <2>2, <2>4, <2>5
    <2> QED BY <2>1, <2>2, <2>6 DEF ConvertInv, FailsOnlyOnBadFiles
  <1>4. CASE ~(maxOpid < MinOid)
    <2>1. /\ UNCHANGED <<native, walk, classes, rootClass, rows, entries, files>>
          /\ phase' = "done" /\ nextOid' = maxOpid + 1
      BY <1>4, Zenon DEF Finish
    <2>2. /\ kind' = kind /\ refs' = refs /\ chains' = chains /\ unread' = unread
          /\ queue' = queue /\ bitmap' = bitmap /\ maxOpid' = maxOpid /\ classes' = classes
          /\ rows' = rows /\ entries' = entries /\ files' = files
      BY <2>1 DEF native, walk
    <2>3. WalkInv'
      BY <1>1, <2>2, WalkUnchanged
    <2>4. Native'
      BY <1>1, <2>1, SameDatabase
    <2> QED BY <1>1, <2>1, <2>2, <2>3, <2>4 DEF ConvertInv, FailsOnlyOnBadFiles
  <1> QED BY <1>3, <1>4

LEMMA ConvertStutterKeeps ==
  ASSUME ConvertInv, UNCHANGED convertVars
  PROVE  ConvertInv'
  <1>1. /\ kind' = kind /\ refs' = refs /\ chains' = chains /\ unread' = unread
        /\ queue' = queue /\ bitmap' = bitmap /\ maxOpid' = maxOpid /\ classes' = classes
        /\ rows' = rows /\ entries' = entries /\ files' = files /\ nextOid' = nextOid
        /\ phase' = phase /\ UNCHANGED native
    BY DEF convertVars, native, walk, tables
  <1>2. WalkInv => WalkInv'
    BY <1>1, WalkUnchanged
  <1>3. Reachable' = Reachable /\ (Native' <=> Native)
    BY <1>1, SameDatabase
  <1>4. FailsOnlyOnBadFiles' <=> FailsOnlyOnBadFiles
    BY <1>1, <1>3 DEF FailsOnlyOnBadFiles
  <1> QED BY <1>1, <1>2, <1>3, <1>4 DEF ConvertInv

LEMMA ConvertNextKeeps ==
  ASSUME ConvertInv, ConvertNext
  PROVE  ConvertInv'
  <1>1. ASSUME NEW o \in Oid, ConvertFails(o) PROVE ConvertInv'
    BY <1>1, ConvertFailsKeeps
  <1>2. ASSUME NEW o \in Oid, ConvertBlob(o) \/ SkipNonRelational(o) PROVE ConvertInv'
    BY <1>2, LeftOutIsHandled, WalkGoesOn
  <1>3. ASSUME NEW o \in Oid, ConvertDictionary(o) PROVE ConvertInv'
    BY <1>3, DictionaryIsHandled, WalkGoesOn
  <1>4. ASSUME NEW o \in Oid, ConvertObject(o) PROVE ConvertInv'
    BY <1>4, ObjectIsHandled, WalkGoesOn
  <1>5. CASE Finish
    BY <1>5, FinishKeeps
  <1> QED BY <1>1, <1>2, <1>3, <1>4, <1>5, Zenon DEF ConvertNext

\* The invariant of the walk holds of every conversion.
THEOREM ConvertInvariant == ConvertSpec => []ConvertInv
  <1>1. Native /\ ConvertInit => ConvertInv
    BY ConvertInitInv
  <1>2. ConvertInv /\ [ConvertNext]_convertVars => ConvertInv'
    BY ConvertNextKeeps, ConvertStutterKeeps
  <1> QED BY <1>1, <1>2, PTL DEF ConvertSpec

-----------------------------------------------------------------------------
(* The properties                                                          *)

\* What a row or an entry of a finished conversion refers to has been handled.
LEMMA ReferredIsHandled ==
  ASSUME ConvertInv, phase = "done"
  PROVE  /\ WalkInv /\ Native /\ Handled = bitmap /\ bitmap = Reachable
         /\ nextOid = maxOpid + 1
         /\ Referred \subseteq Handled
  <1>1. Native /\ WalkInv /\ queue = <<>> /\ nextOid = maxOpid + 1
    BY DEF ConvertInv
  <1>2. Handled = bitmap /\ bitmap = Reachable
    BY <1>1, WalkIsComplete
  <1>3. ASSUME NEW o \in DOMAIN rows PROVE ToSet(rows[o]) \ {0} \subseteq Handled
    <2>1. /\ o \in Handled /\ Stored(o) /\ Follow(o) \subseteq bitmap
          /\ rows[o] = IF kind[o] = "plain" THEN refs[o] ELSE <<>>
      BY <1>1, <1>3 DEF WalkInv
    <2>2. CASE kind[o] = "plain"
      BY <1>2, <2>1, <2>2 DEF Follow
    <2>3. CASE kind[o] # "plain"
      BY <2>1, <2>3 DEF ToSet
    <2> QED BY <2>2, <2>3
  <1>4. \A k \in DOMAIN entries : entries[k] \in Handled
    BY <1>1, <1>2 DEF WalkInv
  <1>5. Referred \subseteq Handled
    BY <1>3, <1>4 DEF Referred
  <1> QED BY <1>1, <1>2, <1>5

LEMMA PropertiesHold ==
  ASSUME ConvertInv
  PROVE  ReferencesResolve /\ NothingIsLost /\ IdentifiersStayFresh /\ FailsOnlyOnBadFiles
  <1>1. FailsOnlyOnBadFiles
    BY DEF ConvertInv
  <1> SUFFICES ASSUME phase = "done"
               PROVE  ReferencesResolve /\ NothingIsLost /\ IdentifiersStayFresh
    BY <1>1 DEF ReferencesResolve, NothingIsLost, IdentifiersStayFresh
  <1>2. /\ WalkInv /\ Native /\ Handled = bitmap /\ bitmap = Reachable
        /\ nextOid = maxOpid + 1 /\ Referred \subseteq Handled
    BY ReferredIsHandled
  <1>3. /\ DOMAIN rows = {o \in Handled : Stored(o)}
        /\ files = {o \in Handled : kind[o] = "blob" /\ o \notin unread}
        /\ maxOpid \in Oid
        /\ \A o \in Handled : o <= maxOpid /\ kind[o] \in classes /\ kind[o] # "unknown"
        /\ \A o \in DOMAIN rows : kind[o] = "dictionary" =>
             \A i \in DOMAIN Items(o) : <<o, Items(o)[i].name>> \in DOMAIN entries
    BY <1>2 DEF WalkInv
  <1>4. Handled \subseteq Oid
    BY <1>2 DEF Reachable
  <1>5. ReferencesResolve
    <2>1. \A o \in Oid : kind[o] \in Kinds
      BY <1>2 DEF Native
    <2> QED BY <1>2, <1>3, <1>4, <2>1 DEF ReferencesResolve, Kinds, Stored
  <1>6. NothingIsLost
    <2>1. {o \in Reachable : kind[o] \in {"plain", "dictionary"}} = DOMAIN rows
      BY <1>2, <1>3 DEF Stored
    <2>2. ASSUME NEW o \in DOMAIN rows, kind[o] = "dictionary",
                 NEW b \in DOMAIN chains[o], NEW i \in DOMAIN chains[o][b]
          PROVE  <<o, chains[o][b][i].name>> \in DOMAIN entries
      <3>1. o \in Oid
        BY <1>3, <1>4
      <3>2. PICK j \in DOMAIN Items(o) : Items(o)[j] = chains[o][b][i]
        BY <1>2, <3>1, ItemsProperties, Zenon
      <3>3. <<o, Items(o)[j].name>> \in DOMAIN entries
        BY <1>3, <2>2
      <3> QED BY <3>2, <3>3
    <2> QED BY <2>1, <2>2 DEF NothingIsLost
  <1>7. IdentifiersStayFresh
    <2>1. Referred \cup DOMAIN rows \cup files \subseteq Handled
      BY <1>2, <1>3
    <2>2. \A o \in Handled : o \in Nat /\ maxOpid \in Nat /\ o <= maxOpid
      BY <1>3, <1>4, OidAssumption
    <2>3. \A o \in Handled : o < nextOid
      BY <1>2, <2>2
    <2> QED BY <2>1, <2>3 DEF IdentifiersStayFresh
  <1> QED BY <1>5, <1>6, <1>7

\* Every reference and entry of a converted database leads to a row, a file or
\* something the conversion leaves out (convert_goods_database).
THEOREM ReferencesAlwaysResolve == ConvertSpec => []ReferencesResolve
  BY ConvertInvariant, PropertiesHold, PTL

\* All that could be reached in the native database has its row, and every name of
\* a hash table its entry (convert_goods_database, hash_put).
THEOREM NothingIsEverLost == ConvertSpec => []NothingIsLost
  BY ConvertInvariant, PropertiesHold, PTL

\* oid_sequence continues above all identifiers of the converted database (set_oid).
THEOREM NewIdentifiersAreFresh == ConvertSpec => []IdentifiersStayFresh
  BY ConvertInvariant, PropertiesHold, PTL

\* A conversion fails for an object it cannot read, a class it does not know, or a
\* database of nothing but its root, and for no other reason.
THEOREM FailuresHaveReasons == ConvertSpec => []FailsOnlyOnBadFiles
  BY ConvertInvariant, PropertiesHold, PTL

-----------------------------------------------------------------------------
(* Strings and their texts                                                 *)

Code == Nat \ {0}   \* what a text is made of

LEMMA AssignedText ==
  ASSUME NEW s \in Seq(Code)
  PROVE  /\ Assigned(s) \in Seq(Nat) /\ TextOf(Assigned(s)) = s
         /\ Len(s) \in Nat /\ (s = <<>> <=> Len(s) = 0)
         /\ Len(Assigned(s)) = IF s = <<>> THEN 0 ELSE Len(s) + 1
         /\ \A i \in 1 .. Len(s) : Assigned(s)[i] = s[i] /\ s[i] \in Code
         /\ s # <<>> => Assigned(s)[Len(s) + 1] = 0
  <1>1. s \in Seq(Nat) /\ Len(s) \in Nat /\ (s = <<>> <=> Len(s) = 0) /\ \A i \in 1 .. Len(s) : s[i] \in Code
    <2>1. s \in Seq(Nat)
      <3>1. Code \subseteq Nat
        BY DEF Code
      <3> QED BY <3>1, SeqMonotonic
    <2> QED BY <2>1, LenProperties, ElementOfSeq, EmptySeq
  <1>2. CASE s = <<>>
    <2>1. Assigned(s) = <<>>
      BY <1>2 DEF Assigned
    <2> QED BY <1>1, <1>2, <2>1, EmptySeq DEF TextOf
  <1>3. CASE s # <<>>
    <2> DEFINE z == Append(s, 0)
    <2>1. Assigned(s) = z
      BY <1>3 DEF Assigned
    <2>2. /\ z \in Seq(Nat) /\ z # <<>> /\ Len(z) = Len(s) + 1 /\ z[Len(s) + 1] = 0
          /\ \A i \in 1 .. Len(s) : z[i] = s[i]
      BY <1>1, AppendProperties
    <2> HIDE DEF z
    <2>3. TextOf(z) = SubSeq(z, 1, Len(s))
      BY <1>1, <2>2 DEF TextOf, Front
    <2>4. SubSeq(z, 1, Len(s)) = s
      <3>1. \A i \in 1 .. Len(s) : z[i] \in Nat
        BY <1>1, <2>2 DEF Code
      <3>2. /\ SubSeq(z, 1, Len(s)) \in Seq(Nat) /\ Len(SubSeq(z, 1, Len(s))) = Len(s)
            /\ \A i \in 1 .. Len(s) : SubSeq(z, 1, Len(s))[i] = z[i]
        BY <1>1, <1>3, <3>1, SubSeqProperties
      <3> QED BY <1>1, <2>2, <3>2, SeqEqual
    <2> QED BY <1>1, <1>3, <2>1, <2>2, <2>3, <2>4
  <1> QED BY <1>2, <1>3

\* The part of s behind position a, up to position b.
LEMMA PartOf ==
  ASSUME NEW S, NEW s \in Seq(S), NEW a \in 0 .. Len(s), NEW b \in a .. Len(s)
  PROVE  /\ SubSeq(s, a + 1, b) \in Seq(S) /\ Len(SubSeq(s, a + 1, b)) = b - a
         /\ \A i \in 1 .. b - a : SubSeq(s, a + 1, b)[i] = s[a + i]
  <1>1. Len(s) \in Nat /\ \A i \in 1 .. Len(s) : s[i] \in S
    BY LenProperties, ElementOfSeq
  <1>2. a + 1 \in Int /\ b \in Int /\ \A i \in a + 1 .. b : i \in 1 .. Len(s)
    BY <1>1
  <1>3. /\ SubSeq(s, a + 1, b) \in Seq(S)
        /\ Len(SubSeq(s, a + 1, b)) = IF a + 1 <= b THEN b - (a + 1) + 1 ELSE 0
        /\ \A i \in 1 .. b - (a + 1) + 1 : SubSeq(s, a + 1, b)[i] = s[(a + 1) + i - 1]
    BY <1>1, <1>2, SubSeqProperties
  <1>4. (IF a + 1 <= b THEN b - (a + 1) + 1 ELSE 0) = b - a
    BY <1>1
  <1>5. \A i \in 1 .. b - a : i \in 1 .. b - (a + 1) + 1 /\ (a + 1) + i - 1 = a + i
    BY <1>1
  <1>6. \A i \in 1 .. b - a : SubSeq(s, a + 1, b)[i] = s[a + i]
    BY <1>3, <1>5
  <1> QED BY <1>3, <1>4, <1>6

\* The joined string has the joined texts.
LEMMA ConcatText ==
  ASSUME NEW s \in Seq(Code), NEW t \in Seq(Code)
  PROVE  Concat(Assigned(s), Assigned(t)) = Assigned(s \o t)
  <1> DEFINE z == Assigned(s)
             y == Assigned(t)
  <1>1. /\ z \in Seq(Nat) /\ y \in Seq(Nat) /\ TextOf(z) = s /\ TextOf(y) = t
        /\ (z = <<>> <=> s = <<>>) /\ (y = <<>> <=> t = <<>>)
    BY AssignedText, EmptySeq
  <1>2. CASE t = <<>>
    BY <1>1, <1>2, ConcatEmptySeq DEF Concat
  <1>3. CASE s = <<>> /\ t # <<>>
    BY <1>1, <1>3, ConcatEmptySeq DEF Concat
  <1>4. CASE s # <<>> /\ t # <<>>
    <2>1. Front(z) = s /\ y = Append(t, 0)
      BY <1>1, <1>4 DEF TextOf, Assigned
    <2>2. Concat(z, y) = s \o Append(t, 0)
      BY <1>1, <1>4, <2>1 DEF Concat
    <2>3. s \in Seq(Nat) /\ t \in Seq(Nat) /\ <<0>> \in Seq(Nat)
      <3>1. Code \subseteq Nat
        BY DEF Code
      <3>2. s \in Seq(Nat) /\ t \in Seq(Nat)
        BY <3>1, SeqMonotonic
      <3> QED BY <3>2
    <2>4. Append(t, 0) = t \o <<0>> /\ Append(s \o t, 0) = (s \o t) \o <<0>>
      BY <2>3, AppendIsConcat, ConcatProperties
    <2>5. s \o (t \o <<0>>) = (s \o t) \o <<0>>
      BY <2>3, ConcatAssociative
    <2>6. s \o t # <<>>
      BY <1>4, <2>3, ConcatEqualIffEmpty
    <2> QED BY <2>2, <2>4, <2>5, <2>6 DEF Assigned
  <1> QED BY <1>2, <1>3, <1>4

\* A part of a string is the string of that part of the text, or null.
LEMMA SubstringText ==
  ASSUME NEW s \in Seq(Code), NEW from \in Int, NEW till \in Int
  PROVE  Substring(Assigned(s), from, till)
           = IF from >= 0 /\ from < till /\ till <= Len(s)
             THEN Assigned(SubSeq(s, from + 1, till)) ELSE <<>>
  <1> DEFINE z == Assigned(s)
  <1>1. /\ z \in Seq(Nat) /\ Len(s) \in Nat /\ (s = <<>> <=> Len(s) = 0)
        /\ Len(z) = IF s = <<>> THEN 0 ELSE Len(s) + 1
        /\ \A i \in 1 .. Len(s) : z[i] = s[i] /\ s[i] \in Code
    BY AssignedText
  <1> HIDE DEF z
  <1>2. CASE from >= 0 /\ from < till /\ till <= Len(s)
    <2>1. /\ from \in 0 .. Len(s) /\ till \in from .. Len(s) /\ till - from > 0 /\ till >= 0 /\ till < Len(z)
          /\ from \in 0 .. Len(z) /\ till \in from .. Len(z) /\ s # <<>>
      BY <1>1, <1>2
    <2>2. Substring(z, from, till) = Append(SubSeq(z, from + 1, till), 0)
      BY <1>2, <2>1 DEF Substring
    <2>3. /\ SubSeq(s, from + 1, till) \in Seq(Code) /\ Len(SubSeq(s, from + 1, till)) = till - from
          /\ \A i \in 1 .. till - from : SubSeq(s, from + 1, till)[i] = s[from + i]
      BY <2>1, PartOf
    <2>4. /\ SubSeq(z, from + 1, till) \in Seq(Nat) /\ Len(SubSeq(z, from + 1, till)) = till - from
          /\ \A i \in 1 .. till - from : SubSeq(z, from + 1, till)[i] = z[from + i]
      BY <1>1, <2>1, PartOf
    <2>5. SubSeq(s, from + 1, till) \in Seq(Nat)
      <3>1. Code \subseteq Nat
        BY DEF Code
      <3> QED BY <2>3, <3>1, SeqMonotonic
    <2>6. SubSeq(z, from + 1, till) = SubSeq(s, from + 1, till)
      <3>1. \A i \in 1 .. till - from : from + i \in 1 .. Len(s)
        BY <1>1, <2>1
      <3>2. \A i \in 1 .. till - from : SubSeq(z, from + 1, till)[i] = SubSeq(s, from + 1, till)[i]
        BY <1>1, <2>3, <2>4, <3>1
      <3> QED BY <2>3, <2>4, <2>5, <3>2, SeqEqual
    <2>7. SubSeq(s, from + 1, till) # <<>>
      BY <2>1, <2>3, EmptySeq
    <2> QED BY <1>2, <2>2, <2>6, <2>7 DEF Assigned, z
  <1>3. CASE ~(from >= 0 /\ from < till /\ till <= Len(s))
    <2>1. ~(from >= 0 /\ till >= 0 /\ from < till /\ till < Len(z))
      BY <1>1, <1>3
    <2> QED BY <1>3, <2>1 DEF Substring, z
  <1> QED BY <1>2, <1>3

\* trim cuts off all blanks on both ends, and only blanks.
LEMMA TrimText ==
  ASSUME NEW s \in Seq(Code)
  PROVE  \E a, b \in 0 .. Len(s) :
           /\ SubSeq(s, a + 1, Len(s) - b) \in Seq(Code)
           /\ Trim(Assigned(s)) = Assigned(SubSeq(s, a + 1, Len(s) - b))
           /\ \A i \in 1 .. Len(s) : i <= a \/ i > Len(s) - b => s[i] <= Blank
           /\ SubSeq(s, a + 1, Len(s) - b) # <<>> =>
                /\ SubSeq(s, a + 1, Len(s) - b)[1] > Blank
                /\ Last(SubSeq(s, a + 1, Len(s) - b)) > Blank
  <1> DEFINE z == Assigned(s)
             N == Len(s)
             solid == {i \in 0 .. (Len(z) - 1) : At(z, i) > Blank}
  <1>1. /\ z \in Seq(Nat) /\ N \in Nat /\ (s = <<>> <=> N = 0)
        /\ Len(z) = IF s = <<>> THEN 0 ELSE N + 1
        /\ \A i \in 1 .. N : z[i] = s[i] /\ s[i] \in Nat
        /\ s # <<>> => z[N + 1] = 0
    BY AssignedText DEF Code
  <1>2. \A i \in 0 .. N : i \in solid <=> i + 1 \in 1 .. N /\ s[i + 1] > Blank
    <2> TAKE i \in 0 .. N
    <2>1. CASE i # N
      <3>1. i + 1 \in 1 .. N /\ i \in 0 .. (Len(z) - 1)
        BY <1>1, <2>1
      <3>2. z[i + 1] = s[i + 1]
        BY <1>1, <3>1
      <3> HIDE DEF z, N
      <3> QED BY <3>1, <3>2 DEF At
    <2>2. CASE i = N
      <3>1. i + 1 \notin 1 .. N
        BY <1>1, <2>2
      <3>2. s # <<>> => At(z, i) = 0
        BY <1>1, <2>2 DEF At
      <3>3. s = <<>> => i \notin 0 .. (Len(z) - 1)
        BY <1>1, <2>2
      <3> HIDE DEF z, N
      <3> QED BY <3>1, <3>2, <3>3 DEF Blank
    <2> QED BY <2>1, <2>2
  <1>3. solid \subseteq 0 .. N
    BY <1>1
  <1>4. /\ Left(z) = IF solid = {} THEN Len(z) ELSE CHOOSE i \in solid : \A j \in solid : i <= j
        /\ Right(z) = IF solid = {} THEN -1 ELSE CHOOSE i \in solid : \A j \in solid : i >= j
    BY Zenon DEF Left, Right
  <1>5. Trim(z) = Substring(z, Left(z), Right(z) + 1)
    BY DEF Trim
  <1> HIDE DEF solid, N
  <1>6. CASE solid = {}
    <2>1. Left(z) = Len(z) /\ Right(z) = -1 /\ Len(z) \in Nat
      BY <1>1, <1>4, <1>6
    <2>2. Trim(z) = <<>>
      <3>1. ~(Len(z) < 0)
        BY <2>1
      <3>2. -1 + 1 = 0
        OBVIOUS
      <3> HIDE DEF z
      <3> QED BY <1>5, <2>1, <3>1, <3>2 DEF Substring
    <2>3. SubSeq(s, N + 1, N - 0) = <<>> /\ <<>> \in Seq(Code)
      BY <1>1, SubSeqEmpty, EmptySeq
    <2>4. ASSUME NEW i \in 1 .. N PROVE s[i] <= Blank
      <3>1. i - 1 \in 0 .. N /\ (i - 1) + 1 = i
        BY <1>1
      <3>2. ~(s[i] > Blank) /\ s[i] \in Nat
        BY <1>1, <1>2, <1>6, <3>1
      <3> QED BY <3>2 DEF Blank
    <2>5. Assigned(<<>>) = <<>>
      BY DEF Assigned
    <2>6. N \in 0 .. N /\ 0 \in 0 .. N
      BY <1>1
    <2> QED BY <2>2, <2>3, <2>4, <2>5, <2>6 DEF N
  <1>7. CASE solid # {}
    <2> DEFINE l == Left(z)
               r == Right(z)
               b == N - (r + 1)
               cut == SubSeq(s, l + 1, r + 1)
    <2>1. l \in solid /\ \A j \in solid : l <= j
      <3>1. solid \in SUBSET Nat
        BY <1>1, <1>3
      <3>2. \E i \in solid : \A j \in solid : i <= j
        BY <1>7, <3>1, LeastExists
      <3> QED BY <1>4, <1>7, <3>2, Zenon
    <2>2. r \in solid /\ \A j \in solid : r >= j
      <3>1. \E i \in solid : \A j \in solid : j <= i
        BY <1>1, <1>3, <1>7, GreatestExists
      <3>2. \E i \in solid : \A j \in solid : i >= j
        BY <1>1, <1>3, <3>1
      <3> QED BY <1>4, <1>7, <3>2, Zenon
    <2> HIDE DEF l, r
    <2>3. /\ l \in 0 .. N /\ r \in 0 .. N /\ l <= r /\ l + 1 \in 1 .. N /\ r + 1 \in 1 .. N
          /\ s[l + 1] > Blank /\ s[r + 1] > Blank
      BY <1>2, <1>3, <2>1, <2>2
    <2>4. /\ b \in 0 .. N /\ N - b = r + 1 /\ r + 1 \in l .. N
          /\ l >= 0 /\ l < r + 1 /\ r + 1 <= N /\ r + 1 \in Int /\ l \in Int
          /\ (r + 1) - l \in 1 .. (r + 1) - l /\ 1 \in 1 .. (r + 1) - l /\ l + ((r + 1) - l) = r + 1
      BY <1>1, <2>3
    <2>5. Trim(z) = Assigned(cut)
      <3>1. Trim(z) = Substring(z, l, r + 1)
        BY <1>5 DEF l, r
      <3>2. Substring(z, l, r + 1) = IF l >= 0 /\ l < r + 1 /\ r + 1 <= N THEN Assigned(cut) ELSE <<>>
        BY <2>4, SubstringText DEF N
      <3> QED BY <2>4, <3>1, <3>2
    <2>6. /\ cut \in Seq(Code) /\ Len(cut) = (r + 1) - l
          /\ \A i \in 1 .. (r + 1) - l : cut[i] = s[l + i]
      <3>1. l \in 0 .. Len(s) /\ r + 1 \in l .. Len(s)
        BY <2>3, <2>4 DEF N
      <3> QED BY <3>1, PartOf
    <2>7. cut[1] > Blank /\ Last(cut) > Blank
      <3>1. cut[1] = s[l + 1] /\ cut[(r + 1) - l] = s[r + 1]
        BY <2>4, <2>6
      <3> HIDE DEF cut
      <3> QED BY <2>3, <2>6, <3>1 DEF Last
    <2>8. ASSUME NEW i \in 1 .. N, i <= l \/ i > N - b PROVE s[i] <= Blank
      <3>1. i - 1 \in 0 .. N /\ (i - 1) + 1 = i
        BY <1>1
      <3>2. i - 1 \notin solid
        BY <1>1, <2>1, <2>2, <2>3, <2>4, <2>8
      <3>3. ~(s[i] > Blank) /\ s[i] \in Nat
        BY <1>1, <1>2, <3>1, <3>2
      <3> QED BY <3>3 DEF Blank
    <2>9. cut = SubSeq(s, l + 1, N - b)
      BY <2>4
    <2> HIDE DEF cut, b
    <2> QED BY <2>3, <2>4, <2>5, <2>6, <2>7, <2>8, <2>9 DEF N
  <1> QED BY <1>6, <1>7

\* Case changes the characters one by one, and none of them into a terminator.
LEMMA CaseText ==
  ASSUME NEW s \in Seq(Code)
  PROVE  /\ \A c \in Nat : /\ Lower(c) \in Nat /\ Upper(c) \in Nat
                           /\ (Lower(c) = 0 <=> c = 0) /\ (Upper(c) = 0 <=> c = 0)
         /\ \E t \in Seq(Code) : ToLowerCase(Assigned(s)) = Assigned(t)
         /\ \E t \in Seq(Code) : ToUpperCase(Assigned(s)) = Assigned(t)
  <1> DEFINE z == Assigned(s)
             N == Len(s)
  <1>1. \A c \in Nat : /\ Lower(c) \in Nat /\ Upper(c) \in Nat
                       /\ (Lower(c) = 0 <=> c = 0) /\ (Upper(c) = 0 <=> c = 0)
    BY DEF Lower, Upper
  <1>2. /\ z \in Seq(Nat) /\ N \in Nat /\ (s = <<>> <=> N = 0)
        /\ Len(z) = IF s = <<>> THEN 0 ELSE N + 1
        /\ \A i \in 1 .. N : z[i] = s[i] /\ s[i] \in Code
        /\ s # <<>> => z[N + 1] = 0
    BY AssignedText
  <1>3. ASSUME NEW F, NEW f \in [Nat -> Nat], \A c \in Nat : f[c] = 0 <=> c = 0,
               F = [i \in 1 .. Len(z) |-> f[z[i]]]
        PROVE  \E t \in Seq(Code) : F = Assigned(t)
    <2> DEFINE t == [i \in 1 .. N |-> f[s[i]]]
    <2>1. \A i \in 1 .. N : f[s[i]] \in Code
      BY <1>2, <1>3 DEF Code
    <2>2. t \in Seq(Code) /\ DOMAIN t = 1 .. N /\ \A i \in 1 .. N : t[i] = f[s[i]]
      BY <1>2, <2>1, IsASeq
    <2> HIDE DEF t
    <2>3. Len(t) = N
      BY <1>2, <2>2, LenProperties
    <2>4. /\ Assigned(t) \in Seq(Nat) /\ Len(Assigned(t)) = (IF t = <<>> THEN 0 ELSE N + 1)
          /\ (t = <<>> <=> N = 0)
          /\ \A i \in 1 .. N : Assigned(t)[i] = t[i]
          /\ t # <<>> => Assigned(t)[N + 1] = 0
      BY <2>2, <2>3, AssignedText
    <2>5. \A i \in 1 .. Len(z) : z[i] \in Nat /\ Len(z) \in Nat
      BY <1>2, ElementOfSeq, LenProperties
    <2>6. F \in Seq(Nat) /\ DOMAIN F = 1 .. Len(z) /\ \A i \in 1 .. Len(z) : F[i] = f[z[i]]
      <3>1. \A i \in 1 .. Len(z) : f[z[i]] \in Nat
        BY <1>3, <2>5
      <3>2. Len(z) \in Nat
        BY <1>2
      <3> HIDE DEF z
      <3>3. [i \in 1 .. Len(z) |-> f[z[i]]] \in Seq(Nat)
        BY <3>1, <3>2, IsASeq
      <3> QED BY <1>3, <3>3
    <2>7. Len(F) = Len(z)
      <3>1. Len(z) \in Nat
        BY <1>2
      <3> HIDE DEF z
      <3> QED BY <2>6, <3>1, LenProperties
    <2>8. Len(F) = Len(Assigned(t))
      BY <1>2, <2>4, <2>7
    <2>9. ASSUME NEW i \in 1 .. Len(z) PROVE F[i] = Assigned(t)[i]
      <3>1. CASE i \in 1 .. N
        BY <1>2, <2>2, <2>4, <2>6, <3>1
      <3>2. CASE i = N + 1
        <4>1. s # <<>> /\ t # <<>>
          BY <1>2, <2>4, <3>2
        <4> QED BY <1>2, <1>3, <2>4, <2>6, <3>2, <4>1
      <3>3. i \in 1 .. N \/ i = N + 1
        BY <1>2
      <3> QED BY <3>1, <3>2, <3>3
    <2>10. F = Assigned(t)
      <3> HIDE DEF z
      <3> QED BY <2>4, <2>6, <2>7, <2>8, <2>9, SeqEqual
    <2> QED BY <2>2, <2>10
  <1>4. DOMAIN z = 1 .. Len(z) /\ \A i \in 1 .. Len(z) : z[i] \in Nat
    BY <1>2, LenProperties, ElementOfSeq
  <1> HIDE DEF z
  <1>5. \E t \in Seq(Code) : ToLowerCase(z) = Assigned(t)
    <2> DEFINE f == [c \in Nat |-> Lower(c)]
    <2>1. f \in [Nat -> Nat] /\ \A c \in Nat : f[c] = 0 <=> c = 0
      BY <1>1
    <2>2. ToLowerCase(z) = [i \in 1 .. Len(z) |-> f[z[i]]]
      BY <1>4 DEF ToLowerCase
    <2> HIDE DEF f
    <2> QED BY <1>3, <2>1, <2>2
  <1>6. \E t \in Seq(Code) : ToUpperCase(z) = Assigned(t)
    <2> DEFINE f == [c \in Nat |-> Upper(c)]
    <2>1. f \in [Nat -> Nat] /\ \A c \in Nat : f[c] = 0 <=> c = 0
      BY <1>1
    <2>2. ToUpperCase(z) = [i \in 1 .. Len(z) |-> f[z[i]]]
      BY <1>4 DEF ToUpperCase
    <2> HIDE DEF f
    <2> QED BY <1>3, <2>1, <2>2
  <1> QED BY <1>1, <1>5, <1>6 DEF z

-----------------------------------------------------------------------------
(* The invariant of the strings                                            *)

\* Whatever operations made it, a string is the one of its text.
TextInv == \E s, t \in Seq(Code) : str = Assigned(s) /\ arg = Assigned(t)

LEMMA TextsAreTexts == Texts \subseteq Seq(Code)
  <1> SUFFICES ASSUME NEW n \in 0 .. MaxLen, NEW t \in [1 .. n -> Char] PROVE t \in Seq(Code)
    BY DEF Texts, BoundedSeq, SeqOf
  <1>1. n \in Nat /\ Char \subseteq Code
    BY CharAssumption DEF Code
  <1>2. \A i \in 1 .. n : t[i] \in Code
    BY <1>1
  <1>3. t = [i \in 1 .. n |-> t[i]]
    OBVIOUS
  <1> QED BY <1>1, <1>2, <1>3, IsASeq

LEMMA TextInvariant == StringSpec => []TextInv
  <1>1. StringInit => TextInv
    <2>1. Assigned(<<>>) = <<>> /\ <<>> \in Seq(Code)
      BY EmptySeq DEF Assigned
    <2> QED BY <2>1 DEF StringInit, TextInv
  <1>2. TextInv /\ [StringNext]_stringVars => TextInv'
    <2> SUFFICES ASSUME TextInv, [StringNext]_stringVars PROVE TextInv'
      OBVIOUS
    <2>1. PICK s, t \in Seq(Code) : str = Assigned(s) /\ arg = Assigned(t)
      BY DEF TextInv
    <2>2. CASE Assign
      <3>1. \A x \in Built : \E q \in Seq(Code) : x = Assigned(q)
        <4> TAKE x \in Built
        <4>1. CASE \E text \in Texts : x = Assigned(text)
          BY <4>1, TextsAreTexts
        <4>2. CASE x = Concat(str, arg)
          BY <2>1, <4>2, ConcatText, ConcatProperties
        <4>3. CASE x = Trim(str)
          BY <2>1, <4>3, TrimText
        <4>4. CASE x = ToLowerCase(str) \/ x = ToUpperCase(str)
          BY <2>1, <4>4, CaseText
        <4>5. CASE \E from \in 0 .. MaxLen, till \in 0 .. MaxLen : x = Substring(str, from, till)
          <5>1. PICK from \in 0 .. MaxLen, till \in 0 .. MaxLen : x = Substring(str, from, till)
            BY <4>5
          <5>2. from \in Int /\ till \in Int /\ from \in Nat
            OBVIOUS
          <5>3. x = IF from >= 0 /\ from < till /\ till <= Len(s)
                    THEN Assigned(SubSeq(s, from + 1, till)) ELSE <<>>
            BY <2>1, <5>1, <5>2, SubstringText
          <5>4. CASE from >= 0 /\ from < till /\ till <= Len(s)
            <6>1. Len(s) \in Nat
              BY LenProperties
            <6>2. from \in 0 .. Len(s) /\ till \in from .. Len(s)
              BY <5>2, <5>4, <6>1
            <6>3. SubSeq(s, from + 1, till) \in Seq(Code)
              BY <6>2, PartOf
            <6> QED BY <5>3, <5>4, <6>3
          <5>5. CASE ~(from >= 0 /\ from < till /\ till <= Len(s))
            <6>1. Assigned(<<>>) = <<>> /\ <<>> \in Seq(Code)
              BY EmptySeq DEF Assigned
            <6> QED BY <5>3, <5>5, <6>1
          <5> QED BY <5>4, <5>5
        <4> QED BY <4>1, <4>2, <4>3, <4>4, <4>5 DEF Built
      <3> QED BY <2>1, <2>2, <3>1 DEF Assign, TextInv
    <2>3. CASE Copy
      BY <2>1, <2>3 DEF Copy, TextInv
    <2>4. CASE UNCHANGED stringVars
      BY <2>1, <2>4 DEF stringVars, TextInv
    <2> QED BY <2>2, <2>3, <2>4 DEF StringNext
  <1> QED BY <1>1, <1>2, PTL DEF StringSpec

-----------------------------------------------------------------------------
(* Comparing                                                               *)

\* The first k elements are the same.
LEMMA SamePrefix ==
  ASSUME NEW S, NEW s \in Seq(S), NEW t \in Seq(S),
         NEW k \in Nat, k <= Len(s), k <= Len(t)
  PROVE  SubSeq(s, 1, k) = SubSeq(t, 1, k) <=> \A i \in 1 .. k : s[i] = t[i]
  <1>1. Len(s) \in Nat /\ Len(t) \in Nat /\ k \in Int
    BY LenProperties
  <1>2. \A i \in 1 .. k : s[i] \in S /\ t[i] \in S
    <2>1. \A i \in 1 .. k : i \in 1 .. Len(s) /\ i \in 1 .. Len(t)
      BY <1>1
    <2> QED BY <2>1, ElementOfSeq
  <1>3. /\ SubSeq(s, 1, k) \in Seq(S) /\ SubSeq(t, 1, k) \in Seq(S)
        /\ Len(SubSeq(s, 1, k)) = Len(SubSeq(t, 1, k))
        /\ Len(SubSeq(s, 1, k)) = IF 1 <= k THEN k - 1 + 1 ELSE 0
        /\ \A i \in 1 .. k - 1 + 1 : SubSeq(s, 1, k)[i] = s[1 + i - 1] /\ SubSeq(t, 1, k)[i] = t[1 + i - 1]
    BY <1>1, <1>2, SubSeqProperties
  <1>4. /\ Len(SubSeq(s, 1, k)) = k
        /\ \A i \in 1 .. k : SubSeq(s, 1, k)[i] = s[i] /\ SubSeq(t, 1, k)[i] = t[i]
    <2>1. (IF 1 <= k THEN k - 1 + 1 ELSE 0) = k /\ \A i \in 1 .. k : i \in 1 .. k - 1 + 1 /\ 1 + i - 1 = i
      OBVIOUS
    <2> QED BY <1>3, <2>1
  <1>5. (\A i \in 1 .. k : s[i] = t[i]) => SubSeq(s, 1, k) = SubSeq(t, 1, k)
    BY <1>3, <1>4, SeqEqual
  <1>6. SubSeq(s, 1, k) = SubSeq(t, 1, k) => \A i \in 1 .. k : s[i] = t[i]
    BY <1>4
  <1> QED BY <1>5, <1>6

\* The order of texts, by positions.
LEMMA BeforeByPosition ==
  ASSUME NEW s \in Seq(Nat), NEW t \in Seq(Nat)
  PROVE  Before(s, t) <=> \/ Len(s) < Len(t) /\ \A i \in 1 .. Len(s) : s[i] = t[i]
                          \/ \E i \in 1 .. Len(s) : /\ i <= Len(t) /\ s[i] < t[i]
                                                    /\ \A j \in 1 .. (i - 1) : s[j] = t[j]
  <1>1. /\ Len(s) \in Nat /\ Len(t) \in Nat
        /\ DOMAIN s = 1 .. Len(s) /\ DOMAIN t = 1 .. Len(t)
    BY LenProperties
  <1>2. IsStrictPrefix(s, t) <=> Len(s) < Len(t) /\ \A i \in 1 .. Len(s) : s[i] = t[i]
    <2> DEFINE same == SubSeq(s, 1, Len(s)) = SubSeq(t, 1, Len(s))
               equal == \A i \in 1 .. Len(s) : s[i] = t[i]
    <2>1. Len(s) <= Len(t) => (same <=> equal)
      <3> SUFFICES ASSUME Len(s) <= Len(t) PROVE same <=> equal
        OBVIOUS
      <3>1. Len(s) \in Nat /\ Len(s) <= Len(s)
        BY <1>1
      <3> QED BY <3>1, SamePrefix
    <2>2. Len(s) = Len(t) /\ equal => s = t
      BY SeqEqual
    <2>3. Len(s) < Len(t) => s # t
      BY <1>1
    <2>4. IsStrictPrefix(s, t) <=> Len(s) <= Len(t) /\ same /\ s # t
      BY DEF IsStrictPrefix, IsPrefix
    <2>5. ASSUME IsStrictPrefix(s, t) PROVE Len(s) < Len(t) /\ equal
      <3>1. Len(s) <= Len(t) /\ equal /\ s # t
        BY <2>1, <2>4, <2>5
      <3>2. Len(s) # Len(t)
        BY <2>2, <3>1
      <3>3. \A i, j \in Nat : i <= j /\ i # j => i < j
        OBVIOUS
      <3>4. Len(s) < Len(t)
        BY <1>1, <3>1, <3>2, <3>3
      <3> HIDE DEF equal
      <3> QED BY <3>1, <3>4
    <2>6. ASSUME Len(s) < Len(t), equal PROVE IsStrictPrefix(s, t)
      <3>1. Len(s) <= Len(t) /\ s # t
        BY <1>1, <2>3, <2>6
      <3> QED BY <2>1, <2>4, <2>6, <3>1
    <2> QED BY <2>5, <2>6
  <1>3. ASSUME NEW i \in 1 .. Len(s), i <= Len(t)
        PROVE  SubSeq(s, 1, i - 1) = SubSeq(t, 1, i - 1) <=> \A j \in 1 .. (i - 1) : s[j] = t[j]
    <2>1. i - 1 \in Nat /\ i - 1 <= Len(s) /\ i - 1 <= Len(t)
      BY <1>1, <1>3
    <2> QED BY <2>1, SamePrefix
  <1>4. \A i : i \in DOMAIN s \cap DOMAIN t <=> i \in 1 .. Len(s) /\ i <= Len(t)
    BY <1>1
  <1> QED BY <1>2, <1>3, <1>4 DEF Before

\* compareToIgnoreCase orders strings as their texts in capitals.
LEMMA CompareText ==
  ASSUME NEW s \in Seq(Code), NEW t \in Seq(Code)
  PROVE  LET z == Assigned(s)
             y == Assigned(t) IN
         /\ CompareToIgnoreCase(z, y) < 0 <=> Before(UpperText(z), UpperText(y))
         /\ CompareToIgnoreCase(z, y) = 0 <=> UpperText(z) = UpperText(y)
  <1> DEFINE z == Assigned(s)
             y == Assigned(t)
             N == Len(s)
             M == Len(t)
             u(i) == Upper(z[i])
             v(i) == Upper(y[i])
             U == UpperText(z)
             V == UpperText(y)
             n == IF Len(z) < Len(y) THEN Len(z) ELSE Len(y)
             diff == {i \in 1 .. n : u(i) # v(i)}
             C == CompareToIgnoreCase(z, y)
  <1>1. ASSUME NEW q \in Seq(Code)
        PROVE  /\ Len(q) \in Nat
               /\ Len(Assigned(q)) = (IF Len(q) = 0 THEN 0 ELSE Len(q) + 1)
               /\ Len(q) # 0 => Upper(Assigned(q)[Len(q) + 1]) = 0
               /\ UpperText(Assigned(q)) \in Seq(Nat) /\ Len(UpperText(Assigned(q))) = Len(q)
               /\ \A i \in 1 .. Len(q) : /\ UpperText(Assigned(q))[i] = Upper(Assigned(q)[i])
                                         /\ Upper(Assigned(q)[i]) \in Nat /\ Upper(Assigned(q)[i]) > 0
    <2> DEFINE x == Assigned(q)
               K == Len(q)
               T == UpperText(x)
    <2>1. /\ TextOf(x) = q /\ K \in Nat /\ (q = <<>> <=> K = 0)
          /\ Len(x) = IF q = <<>> THEN 0 ELSE K + 1
          /\ \A i \in 1 .. K : x[i] = q[i] /\ q[i] \in Code
          /\ q # <<>> => x[K + 1] = 0
      BY AssignedText
    <2> HIDE DEF x
    <2>2. \A i \in 1 .. K : Upper(x[i]) \in Nat /\ Upper(x[i]) > 0
      <3> TAKE i \in 1 .. K
      <3>1. x[i] \in Nat /\ x[i] # 0
        BY <2>1 DEF Code
      <3>2. \A c \in Nat : c # 0 => Upper(c) \in Nat /\ Upper(c) > 0
        BY DEF Upper
      <3> QED BY <3>1, <3>2
    <2>3. K # 0 => Upper(x[K + 1]) = 0
      <3>1. K # 0 => x[K + 1] = 0
        BY <2>1
      <3>2. Upper(0) = 0
        BY DEF Upper
      <3> QED BY <3>1, <3>2
    <2>4. T = [i \in 1 .. K |-> Upper(x[i])]
      <3>1. DOMAIN q = 1 .. K
        BY LenProperties
      <3> QED BY <2>1, <3>1 DEF UpperText
    <2>5. T \in Seq(Nat) /\ DOMAIN T = 1 .. K /\ \A i \in 1 .. K : T[i] = Upper(x[i])
      <3> HIDE DEF K, T
      <3>1. [i \in 1 .. K |-> Upper(x[i])] \in Seq(Nat)
        BY <2>1, <2>2, IsASeq
      <3> QED BY <2>4, <3>1
    <2>6. Len(T) = K
      BY <2>1, <2>5, LenProperties
    <2> QED BY <2>1, <2>2, <2>3, <2>5, <2>6 DEF x
  <1>2. /\ N \in Nat /\ M \in Nat /\ U \in Seq(Nat) /\ V \in Seq(Nat) /\ Len(U) = N /\ Len(V) = M
        /\ Len(z) = (IF N = 0 THEN 0 ELSE N + 1) /\ Len(y) = (IF M = 0 THEN 0 ELSE M + 1)
        /\ N # 0 => u(N + 1) = 0
        /\ M # 0 => v(M + 1) = 0
    BY <1>1
  <1>3. /\ \A i \in 1 .. N : U[i] = u(i) /\ u(i) \in Nat /\ u(i) > 0
        /\ \A i \in 1 .. M : V[i] = v(i) /\ v(i) \in Nat /\ v(i) > 0
    BY <1>1
  <1>4. C = IF diff = {} THEN Len(z) - Len(y)
            ELSE LET i == CHOOSE j \in diff : \A k \in diff : j <= k IN u(i) - v(i)
    BY Zenon DEF CompareToIgnoreCase
  <1> DEFINE Less == \/ N < M /\ \A i \in 1 .. N : u(i) = v(i)
                     \/ \E i \in 1 .. N : /\ i <= M /\ u(i) < v(i)
                                          /\ \A j \in 1 .. (i - 1) : u(j) = v(j)
             Same == N = M /\ \A i \in 1 .. N : u(i) = v(i)
  <1>5. Before(U, V) <=> Less
    <2> HIDE DEF U, V, u, v, N, M
    <2>1. Before(U, V) <=> \/ N < M /\ \A i \in 1 .. N : U[i] = V[i]
                           \/ \E i \in 1 .. N : /\ i <= M /\ U[i] < V[i]
                                                /\ \A j \in 1 .. (i - 1) : U[j] = V[j]
      BY <1>2, BeforeByPosition
    <2>4. \A i \in 1 .. N : i <= M => U[i] = u(i) /\ V[i] = v(i)
      <3> TAKE i \in 1 .. N
      <3>1. i <= M => i \in 1 .. M
        BY <1>2
      <3> QED BY <1>3, <3>1
    <2>2. N < M => \A i \in 1 .. N : (U[i] = V[i] <=> u(i) = v(i))
      <3>1. N < M => \A i \in 1 .. N : i <= M
        BY <1>2
      <3> QED BY <2>4, <3>1
    <2>3. \A i \in 1 .. N : i <= M => /\ (U[i] < V[i] <=> u(i) < v(i))
                                     /\ \A j \in 1 .. (i - 1) : (U[j] = V[j] <=> u(j) = v(j))
      <3> TAKE i \in 1 .. N
      <3>1. i <= M => \A j \in 1 .. (i - 1) : j \in 1 .. N /\ j <= M
        BY <1>2
      <3> QED BY <2>4, <3>1
    <2> QED BY <2>1, <2>2, <2>3
  <1>6. U = V <=> Same
    <2> HIDE DEF U, V, u, v, N, M
    <2>1. N = M /\ (\A i \in 1 .. N : U[i] = V[i]) => U = V
      BY <1>2, SeqEqual
    <2>2. N = M => \A i \in 1 .. N : (U[i] = V[i] <=> u(i) = v(i))
      BY <1>3
    <2>3. U = V => N = M
      BY <1>2
    <2> QED BY <2>1, <2>2, <2>3
  <1> HIDE DEF C, u, v, U, V, z, y, N, M, diff
  <1>7. n \in Nat
    BY <1>2
  <1>8. CASE diff = {}
    <2>1. C = Len(z) - Len(y)
      BY <1>4, <1>8
    <2>2. \A i \in 1 .. n : u(i) = v(i)
      BY <1>8 DEF diff
    <2>3. CASE N # 0 /\ M # 0
      <3>1. N = M
        <4>1. N < M => n = N + 1 /\ N + 1 \in 1 .. n /\ N + 1 \in 1 .. M
          BY <1>2, <2>3
        <4>2. M < N => n = M + 1 /\ M + 1 \in 1 .. n /\ M + 1 \in 1 .. N
          BY <1>2, <2>3
        <4>3. ~(N < M)
          <5> SUFFICES ASSUME N < M PROVE FALSE
            OBVIOUS
          <5>1. u(N + 1) = v(N + 1) /\ v(N + 1) > 0
            BY <1>3, <2>2, <4>1
          <5> QED BY <1>2, <2>3, <5>1
        <4>4. ~(M < N)
          <5> SUFFICES ASSUME M < N PROVE FALSE
            OBVIOUS
          <5>1. u(M + 1) = v(M + 1) /\ u(M + 1) > 0
            BY <1>3, <2>2, <4>2
          <5> QED BY <1>2, <2>3, <5>1
        <4> QED BY <1>2, <4>3, <4>4
      <3>2. \A i \in 1 .. N : i \in 1 .. n
        BY <1>2, <2>3, <3>1
      <3>3. Same /\ C = 0
        BY <1>2, <2>1, <2>2, <3>1, <3>2
      <3>4. ~Less
        BY <1>2, <1>3, <3>1, <3>3
      <3> QED BY <1>5, <1>6, <3>3, <3>4 DEF C, U, V, z, y
    <2>4. CASE N = 0
      <3>1. Less <=> 0 < M
        BY <1>2, <2>4
      <3>2. Same <=> M = 0
        BY <1>2, <2>4
      <3>3. C = 0 - (IF M = 0 THEN 0 ELSE M + 1)
        BY <1>2, <2>1, <2>4
      <3>4. (C < 0 <=> 0 < M) /\ (C = 0 <=> M = 0)
        <4>1. M \in Nat
          BY <1>2
        <4>2. CASE M = 0
          BY <3>3, <4>2
        <4>3. CASE M # 0
          <5>1. C = 0 - (M + 1)
            BY <3>3, <4>3
          <5> QED BY <4>1, <4>3, <5>1
        <4> QED BY <4>2, <4>3
      <3> QED BY <1>5, <1>6, <3>1, <3>2, <3>4 DEF C, U, V, z, y
    <2>5. CASE N # 0 /\ M = 0
      <3>1. ~Less /\ ~Same
        BY <1>2, <2>5
      <3>2. C = N + 1
        BY <1>2, <2>1, <2>5
      <3>3. ~(C < 0) /\ C # 0
        BY <1>2, <3>2
      <3> QED BY <1>5, <1>6, <3>1, <3>3 DEF C, U, V, z, y
    <2> QED BY <2>3, <2>4, <2>5
  <1>9. CASE diff # {}
    <2> DEFINE first == CHOOSE j \in diff : \A k \in diff : j <= k
    <2>1. first \in diff /\ \A k \in diff : first <= k
      <3>1. diff \in SUBSET Nat
        BY <1>7 DEF diff
      <3>2. \E j \in diff : \A k \in diff : j <= k
        BY <1>9, <3>1, LeastExists
      <3> QED BY <3>2
    <2>2. C = u(first) - v(first)
      BY <1>4, <1>9, Zenon
    <2> HIDE DEF first
    <2>3. first \in 1 .. n /\ u(first) # v(first)
      BY <2>1 DEF diff
    <2>4. N # 0 /\ M # 0 /\ first <= N + 1 /\ first <= M + 1 /\ first \in Nat /\ first >= 1
      BY <1>2, <2>3
    <2>5. \A j \in 1 .. (first - 1) : u(j) = v(j) /\ j <= N /\ j <= M
      <3> TAKE j \in 1 .. (first - 1)
      <3>1. j \in 1 .. n /\ ~(first <= j) /\ j <= N /\ j <= M
        BY <1>2, <2>3, <2>4
      <3> QED BY <2>1, <3>1 DEF diff
    <2>6. CASE first <= N /\ first <= M
      <3>1. /\ first \in 1 .. N /\ first \in 1 .. M
            /\ u(first) \in Nat /\ v(first) \in Nat
        BY <1>3, <2>4, <2>6
      <3>2. ~Same
        BY <2>3, <3>1
      <3>3. ~(N < M /\ \A i \in 1 .. N : u(i) = v(i))
        BY <2>3, <3>1
      <3>4. (\E i \in 1 .. N : i <= M /\ u(i) < v(i) /\ \A j \in 1 .. (i - 1) : u(j) = v(j)) <=> u(first) < v(first)
        <4>1. u(first) < v(first) => first \in 1 .. N /\ first <= M /\ u(first) < v(first)
          BY <2>6, <3>1
        <4>2. ASSUME NEW i \in 1 .. N, i <= M, u(i) < v(i), \A j \in 1 .. (i - 1) : u(j) = v(j)
              PROVE  u(first) < v(first)
          <5>1. i < first => i \in 1 .. (first - 1)
            BY <1>2, <2>4
          <5>2. ~(i < first)
            <6>1. u(i) \in Nat /\ v(i) \in Nat
              BY <1>2, <1>3, <4>2
            <6> QED BY <2>5, <4>2, <5>1, <6>1
          <5>3. first < i => first \in 1 .. (i - 1)
            BY <1>2, <2>4
          <5>4. ~(first < i)
            BY <2>3, <4>2, <5>3
          <5>5. first = i
            BY <1>2, <2>4, <5>2, <5>4
          <5> QED BY <4>2, <5>5
        <4> QED BY <2>5, <4>1, <4>2
      <3>5. (C < 0 <=> u(first) < v(first)) /\ C # 0
        BY <2>2, <2>3, <3>1
      <3> QED BY <1>5, <1>6, <3>2, <3>3, <3>4, <3>5 DEF C, U, V, z, y
    <2>7. CASE first = N + 1 /\ first <= M
      <3>1. u(first) = 0 /\ v(first) \in Nat /\ v(first) > 0 /\ N < M
        <4>1. first \in 1 .. M /\ N < M
          BY <1>2, <2>4, <2>7
        <4> QED BY <1>2, <1>3, <2>4, <2>7, <4>1
      <3>2. \A i \in 1 .. N : u(i) = v(i)
        BY <1>2, <2>5, <2>7
      <3>3. Less /\ ~Same
        BY <1>2, <3>1, <3>2
      <3>4. C < 0 /\ C # 0
        BY <2>2, <3>1
      <3> QED BY <1>5, <1>6, <3>3, <3>4 DEF C, U, V, z, y
    <2>8. CASE first = M + 1 /\ first <= N
      <3>1. v(first) = 0 /\ u(first) \in Nat /\ u(first) > 0 /\ M < N
        <4>1. first \in 1 .. N /\ M < N
          BY <1>2, <2>4, <2>8
        <4> QED BY <1>2, <1>3, <2>4, <2>8, <4>1
      <3>2. \A i \in 1 .. N : i <= M => u(i) = v(i) /\ v(i) \in Nat
        <4> TAKE i \in 1 .. N
        <4> SUFFICES ASSUME i <= M PROVE u(i) = v(i) /\ v(i) \in Nat
          OBVIOUS
        <4>1. i \in 1 .. (first - 1) /\ i \in 1 .. M
          BY <1>2, <2>8
        <4> QED BY <1>3, <2>5, <4>1
      <3>3. ~Less /\ ~Same
        BY <1>2, <3>1, <3>2
      <3>4. ~(C < 0) /\ C # 0
        BY <2>2, <3>1
      <3> QED BY <1>5, <1>6, <3>3, <3>4 DEF C, U, V, z, y
    <2>9. ~(first = N + 1 /\ first = M + 1)
      BY <1>2, <2>3, <2>4
    <2> QED BY <1>2, <2>4, <2>6, <2>7, <2>8, <2>9
  <1> QED BY <1>8, <1>9

-----------------------------------------------------------------------------
(* Searching                                                               *)

\* A place of t in s, by positions of the string.
LEMMA PositionByCharacter ==
  ASSUME NEW s \in Seq(Code), NEW t \in Seq(Code), NEW p \in Nat
  PROVE  Position(s, t, p) <=> p + Len(t) <= Len(s) /\ \A i \in 1 .. Len(t) : s[p + i] = t[i]
  <1> DEFINE M == Len(t)
  <1>1. Len(s) \in Nat /\ M \in Nat /\ p >= 0
    BY LenProperties
  <1>2. CASE p + M <= Len(s)
    <2>1. p \in 0 .. Len(s) /\ p + M \in p .. Len(s) /\ (p + M) - p = M
      BY <1>1, <1>2
    <2>2. /\ SubSeq(s, p + 1, p + M) \in Seq(Code) /\ Len(SubSeq(s, p + 1, p + M)) = (p + M) - p
          /\ \A i \in 1 .. (p + M) - p : SubSeq(s, p + 1, p + M)[i] = s[p + i]
      BY <2>1, PartOf
    <2> HIDE DEF M
    <2>3. SubSeq(s, p + 1, p + M) = t <=> \A i \in 1 .. M : s[p + i] = t[i]
      <3>1. (\A i \in 1 .. M : s[p + i] = t[i]) => SubSeq(s, p + 1, p + M) = t
        BY <2>1, <2>2, SeqEqual DEF M
      <3>2. SubSeq(s, p + 1, p + M) = t => \A i \in 1 .. M : s[p + i] = t[i]
        BY <2>1, <2>2
      <3> QED BY <3>1, <3>2
    <2> QED BY <1>1, <1>2, <2>3 DEF Position, M
  <1>3. CASE ~(p + M <= Len(s))
    BY <1>3 DEF Position
  <1> QED BY <1>2, <1>3

\* A text that agrees up to a terminator with a string agrees before it.
LEMMA SameUpToText ==
  ASSUME NEW x \in Seq(Nat), NEW t \in Seq(Code), Len(x) # 0, x[Len(x)] = 0,
         \A i \in 1 .. (Len(x) - 1) : x[i] # 0,
         NEW y, \A i \in 1 .. Len(t) : y[i] = t[i]
  PROVE  SameUpTo(x, y, Len(t)) <=> Len(t) < Len(x) /\ \A i \in 1 .. Len(t) : x[i] = t[i]
  <1> DEFINE M == Len(t)
             L == Len(x)
  <1>1. M \in Nat /\ L \in Nat /\ L >= 1 /\ \A i \in 1 .. M : t[i] \in Nat /\ t[i] # 0
    BY LenProperties, ElementOfSeq DEF Code
  <1>2. ASSUME SameUpTo(x, y, M) PROVE M < L /\ \A i \in 1 .. M : x[i] = t[i]
    <2>1. \A i \in 1 .. M : (\A j \in 1 .. (i - 1) : x[j] # 0) => x[i] = t[i]
      BY <1>2 DEF SameUpTo
    <2> HIDE DEF M, L
    <2>2. M < L
      <3> SUFFICES ASSUME L <= M PROVE FALSE
        BY <1>1
      <3>1. L \in 1 .. M /\ \A j \in 1 .. (L - 1) : x[j] # 0
        BY <1>1 DEF L
      <3>2. x[L] = t[L]
        BY <2>1, <3>1
      <3> QED BY <1>1, <3>1, <3>2 DEF L
    <2>3. ASSUME NEW i \in 1 .. M PROVE x[i] = t[i]
      <3>1. \A j \in 1 .. (i - 1) : j \in 1 .. (L - 1)
        BY <1>1, <2>2
      <3>2. \A j \in 1 .. (i - 1) : x[j] # 0
        BY <3>1 DEF L
      <3> QED BY <2>1, <3>2
    <2> QED BY <2>2, <2>3
  <1>3. ASSUME M < L, \A i \in 1 .. M : x[i] = t[i] PROVE SameUpTo(x, y, M)
    BY <1>3 DEF SameUpTo
  <1> QED BY <1>2, <1>3

\* The rest of a string from position p on.
LEMMA RestOfString ==
  ASSUME NEW s \in Seq(Code), s # <<>>, NEW p \in 0 .. Len(s)
  PROVE  LET x == SubSeq(Assigned(s), p + 1, Len(Assigned(s))) IN
         /\ x \in Seq(Nat) /\ Len(x) = Len(s) - p + 1 /\ x[Len(x)] = 0
         /\ \A i \in 1 .. Len(s) - p : x[i] = s[p + i] /\ x[i] # 0
  <1> DEFINE z == Assigned(s)
             N == Len(s)
             x == SubSeq(z, p + 1, Len(z))
  <1>1. /\ z \in Seq(Nat) /\ N \in Nat /\ Len(z) = N + 1
        /\ \A i \in 1 .. N : z[i] = s[i] /\ s[i] \in Code
        /\ z[N + 1] = 0
    BY AssignedText
  <1> HIDE DEF z, N
  <1>2. p \in 0 .. N /\ p \in 0 .. Len(z) /\ Len(z) \in p .. Len(z) /\ Len(z) - p = N - p + 1
    <2>1. p \in 0 .. N
      BY DEF N
    <2> QED BY <1>1, <2>1
  <1>3. x \in Seq(Nat) /\ Len(x) = Len(z) - p /\ \A i \in 1 .. Len(z) - p : x[i] = z[p + i]
    BY <1>1, <1>2, PartOf
  <1> HIDE DEF x
  <1>4. Len(x) = N - p + 1 /\ \A i \in 1 .. N - p + 1 : x[i] = z[p + i]
    BY <1>2, <1>3
  <1>5. N - p + 1 \in 1 .. N - p + 1 /\ p + (N - p + 1) = N + 1
    BY <1>1, <1>2
  <1>6. x[Len(x)] = 0
    BY <1>1, <1>4, <1>5
  <1>7. ASSUME NEW i \in 1 .. N - p PROVE x[i] = s[p + i] /\ x[i] # 0
    <2>1. i \in 1 .. N - p + 1 /\ p + i \in 1 .. N
      BY <1>1, <1>2
    <2> QED BY <1>1, <1>4, <2>1 DEF Code
  <1> QED BY <1>3, <1>4, <1>6, <1>7 DEF x, z, N

\* startsWith is true where the other text does not stand.
LEMMA StartsWithText ==
  ASSUME NEW s \in Seq(Code), NEW t \in Seq(Code), NEW p \in Nat
  PROVE  StartsWith(Assigned(s), Assigned(t), p)
           <=> t # <<>> /\ p < Len(Assigned(s)) /\ ~Position(s, t, p)
  <1> DEFINE z == Assigned(s)
             y == Assigned(t)
             x == SubSeq(z, p + 1, Len(z))
  <1>1. /\ (s = <<>> <=> Len(s) = 0) /\ Len(s) \in Nat /\ Len(t) \in Nat
        /\ (y = <<>> <=> t = <<>>)
        /\ Len(z) = (IF s = <<>> THEN 0 ELSE Len(s) + 1) /\ Len(y) = (IF t = <<>> THEN 0 ELSE Len(t) + 1)
        /\ \A i \in 1 .. Len(t) : y[i] = t[i]
    BY AssignedText, EmptySeq
  <1>2. CASE p < Len(z) /\ t # <<>>
    <2>1. s # <<>> /\ p \in 0 .. Len(s) /\ Len(y) - 1 = Len(t) /\ ~(p >= Len(z)) /\ y # <<>>
      BY <1>1, <1>2
    <2>2. /\ x \in Seq(Nat) /\ Len(x) = Len(s) - p + 1 /\ x[Len(x)] = 0
          /\ \A i \in 1 .. Len(s) - p : x[i] = s[p + i] /\ x[i] # 0
      BY <2>1, RestOfString
    <2> HIDE DEF x
    <2>3. SameUpTo(x, y, Len(t)) <=> Len(t) < Len(x) /\ \A i \in 1 .. Len(t) : x[i] = t[i]
      <3>1. Len(x) # 0 /\ Len(x) - 1 = Len(s) - p
        BY <1>1, <2>1, <2>2
      <3>2. \A i \in 1 .. (Len(x) - 1) : x[i] # 0
        BY <2>2, <3>1
      <3>3. \A i \in 1 .. Len(t) : y[i] = t[i]
        BY <1>1
      <3> HIDE DEF y
      <3> QED BY <2>2, <3>1, <3>2, <3>3, SameUpToText
    <2>4. Len(t) < Len(x) <=> p + Len(t) <= Len(s)
      BY <1>1, <2>1, <2>2
    <2>5. p + Len(t) <= Len(s) => \A i \in 1 .. Len(t) : x[i] = s[p + i]
      <3>1. p + Len(t) <= Len(s) => \A i \in 1 .. Len(t) : i \in 1 .. Len(s) - p
        BY <1>1, <2>1
      <3> QED BY <2>2, <3>1
    <2>6. SameUpTo(x, y, Len(t)) <=> Position(s, t, p)
      <3>1. Position(s, t, p) <=> p + Len(t) <= Len(s) /\ \A i \in 1 .. Len(t) : s[p + i] = t[i]
        BY PositionByCharacter
      <3> QED BY <2>3, <2>4, <2>5, <3>1
    <2>7. StartsWith(z, y, p) <=> ~SameUpTo(x, y, Len(t))
      BY <2>1 DEF StartsWith, x
    <2> QED BY <1>2, <2>6, <2>7
  <1>3. CASE ~(p < Len(z) /\ t # <<>>)
    <2>1. p >= Len(z) \/ y = <<>>
      BY <1>1, <1>3
    <2> HIDE DEF z, y
    <2>2. ~StartsWith(z, y, p)
      BY <2>1 DEF StartsWith
    <2> QED BY <1>3, <2>2 DEF z, y
  <1> QED BY <1>2, <1>3

\* endsWith is true where the text does not end with the other, shorter one.
LEMMA EndsWithText ==
  ASSUME NEW s \in Seq(Code), NEW t \in Seq(Code)
  PROVE  EndsWith(Assigned(s), Assigned(t)) <=> t # <<>> /\ Len(t) <= Len(s) /\ ~IsSuffix(t, s)
  <1> DEFINE z == Assigned(s)
             y == Assigned(t)
             N == Len(s)
             M == Len(t)
             p == N - M
             x == SubSeq(z, p + 1, Len(z))
  <1>1. /\ (s = <<>> <=> N = 0) /\ (t = <<>> <=> M = 0) /\ N \in Nat /\ M \in Nat
        /\ (y = <<>> <=> t = <<>>)
        /\ Len(z) = (IF s = <<>> THEN 0 ELSE N + 1) /\ Len(y) = (IF t = <<>> THEN 0 ELSE M + 1)
        /\ \A i \in 1 .. M : y[i] = t[i] /\ t[i] \in Code
        /\ t # <<>> => y[M + 1] = 0
    BY AssignedText, EmptySeq
  <1>2. CASE M <= N /\ t # <<>>
    <2>1. s # <<>> /\ p \in 0 .. N /\ ~(Len(z) < Len(y)) /\ y # <<>> /\ Len(y) = M + 1
          /\ Len(z) - Len(y) + 1 = p + 1 /\ N - p = M
      BY <1>1, <1>2
    <2>2. /\ x \in Seq(Nat) /\ Len(x) = M + 1 /\ x[M + 1] = 0
          /\ \A i \in 1 .. M : x[i] = s[p + i] /\ x[i] # 0
      <3>1. /\ x \in Seq(Nat) /\ Len(x) = N - p + 1 /\ x[Len(x)] = 0
            /\ \A i \in 1 .. N - p : x[i] = s[p + i] /\ x[i] # 0
        BY <2>1, RestOfString
      <3> HIDE DEF x, p
      <3> QED BY <2>1, <3>1
    <2> HIDE DEF x
    <2>3. SameUpTo(x, y, M + 1) <=> \A i \in 1 .. M : x[i] = t[i]
      <3>1. ASSUME SameUpTo(x, y, M + 1), NEW i \in 1 .. M PROVE x[i] = t[i]
        <4>1. i \in 1 .. M + 1 /\ \A j \in 1 .. (i - 1) : j \in 1 .. M
          BY <1>1
        <4>2. \A j \in 1 .. (i - 1) : x[j] # 0
          BY <2>2, <4>1
        <4>3. x[i] = y[i]
          BY <3>1, <4>1, <4>2 DEF SameUpTo
        <4> QED BY <1>1, <4>3
      <3>2. ASSUME \A i \in 1 .. M : x[i] = t[i] PROVE SameUpTo(x, y, M + 1)
        <4>1. \A i \in 1 .. M + 1 : x[i] = y[i]
          <5> TAKE i \in 1 .. M + 1
          <5>1. i \in 1 .. M \/ i = M + 1
            BY <1>1
          <5> QED BY <1>1, <1>2, <2>2, <3>2, <5>1
        <4> QED BY <4>1 DEF SameUpTo
      <3> QED BY <3>1, <3>2
    <2>4. EndsWith(z, y) <=> ~SameUpTo(x, y, M + 1)
      BY <2>1 DEF EndsWith, x
    <2>5. IsSuffix(t, s) <=> \A i \in 1 .. M : s[p + i] = t[i]
      <3> DEFINE u == Reverse(t)
                 v == Reverse(s)
      <3>1. /\ u \in Seq(Code) /\ Len(u) = M /\ \A i \in 1 .. M : u[i] = t[M - i + 1]
            /\ v \in Seq(Code) /\ Len(v) = N /\ \A i \in 1 .. N : v[i] = s[N - i + 1]
        <4>1. ASSUME NEW q \in Seq(Code)
              PROVE  /\ Reverse(q) \in Seq(Code) /\ Len(Reverse(q)) = Len(q)
                     /\ \A i \in 1 .. Len(q) : Reverse(q)[i] = q[Len(q) - i + 1]
          <5> DEFINE K == Len(q)
                     w == [i \in 1 .. K |-> q[(K - i) + 1]]
          <5>1. K \in Nat /\ \A i \in 1 .. K : (K - i) + 1 \in 1 .. K
            BY LenProperties
          <5>2. \A i \in 1 .. K : q[(K - i) + 1] \in Code
            BY <5>1, ElementOfSeq
          <5>3. w \in Seq(Code) /\ DOMAIN w = 1 .. K /\ \A i \in 1 .. K : w[i] = q[(K - i) + 1]
            <6> HIDE DEF K
            <6> QED BY <5>1, <5>2, IsASeq
          <5>4. Reverse(q) = w
            BY Zenon DEF Reverse
          <5> HIDE DEF w, K
          <5>5. Len(w) = K
            BY <5>1, <5>3, LenProperties
          <5> QED BY <5>3, <5>4, <5>5 DEF K
        <4> QED BY <4>1
      <3>2. IsSuffix(t, s) <=> M <= N /\ SubSeq(u, 1, M) = SubSeq(v, 1, M)
        BY <3>1 DEF IsSuffix, IsPrefix
      <3> HIDE DEF u, v
      <3>3. SubSeq(u, 1, M) = SubSeq(v, 1, M) <=> \A i \in 1 .. M : u[i] = v[i]
        <4>1. M \in Nat /\ M <= Len(u) /\ M <= Len(v)
          BY <1>1, <1>2, <3>1
        <4> HIDE DEF M
        <4> QED BY <3>1, <4>1, SamePrefix
      <3>4. ASSUME \A i \in 1 .. M : u[i] = v[i], NEW i \in 1 .. M PROVE s[p + i] = t[i]
        <4>1. /\ M - i + 1 \in 1 .. M /\ M - i + 1 \in 1 .. N
              /\ M - (M - i + 1) + 1 = i /\ N - (M - i + 1) + 1 = p + i
          BY <1>1, <1>2
        <4>2. u[M - i + 1] = t[M - (M - i + 1) + 1] /\ v[M - i + 1] = s[N - (M - i + 1) + 1]
          BY <3>1, <4>1
        <4> QED BY <3>4, <4>1, <4>2
      <3>5. ASSUME \A i \in 1 .. M : s[p + i] = t[i], NEW i \in 1 .. M PROVE u[i] = v[i]
        <4>1. M - i + 1 \in 1 .. M /\ i \in 1 .. N /\ p + (M - i + 1) = N - i + 1
          BY <1>1, <1>2
        <4>2. s[p + (M - i + 1)] = t[M - i + 1]
          BY <3>5, <4>1
        <4> QED BY <3>1, <4>1, <4>2
      <3> QED BY <1>2, <3>2, <3>3, <3>4, <3>5
    <2>6. (\A i \in 1 .. M : x[i] = t[i]) <=> \A i \in 1 .. M : s[p + i] = t[i]
      BY <2>2
    <2> QED BY <1>2, <2>3, <2>4, <2>5, <2>6
  <1>3. CASE ~(M <= N /\ t # <<>>)
    <2>1. Len(z) < Len(y) \/ y = <<>>
      BY <1>1, <1>3
    <2> HIDE DEF z, y
    <2>2. ~EndsWith(z, y)
      BY <2>1 DEF EndsWith
    <2> QED BY <1>3, <2>2 DEF z, y
  <1> QED BY <1>2, <1>3

\* getChars returns as much of the text as fits.
LEMMA GetCharsText ==
  ASSUME NEW s \in Seq(Code), NEW size \in Nat
  PROVE  /\ IsPrefix(GetChars(Assigned(s), size), s)
         /\ Len(GetChars(Assigned(s), size)) = IF size < Len(s) THEN size ELSE Len(s)
  <1> DEFINE z == Assigned(s)
             N == Len(s)
             k == IF size < N THEN size ELSE N
             g == SubSeq(z, 1, k)
  <1>1. /\ z \in Seq(Nat) /\ N \in Nat /\ (s = <<>> <=> N = 0) /\ (z = <<>> <=> s = <<>>)
        /\ Len(z) = (IF s = <<>> THEN 0 ELSE N + 1)
        /\ \A i \in 1 .. N : z[i] = s[i] /\ s[i] \in Code
    BY AssignedText, EmptySeq
  <1>2. s \in Seq(Nat)
    <2>1. Code \subseteq Nat
      BY DEF Code
    <2> QED BY <2>1, SeqMonotonic
  <1>3. CASE s = <<>>
    <2>1. GetChars(z, size) = s /\ N = 0
      BY <1>1, <1>3 DEF GetChars
    <2>2. IsPrefix(s, s)
      <3>1. N <= N
        BY <1>1
      <3> QED BY <3>1 DEF IsPrefix
    <2>3. (IF size < N THEN size ELSE N) = N
      BY <2>1
    <2> QED BY <2>1, <2>2, <2>3
  <1>4. CASE s # <<>>
    <2>1. /\ k \in Nat /\ k <= N /\ 0 \in 0 .. Len(z) /\ k \in 0 .. Len(z) /\ k - 0 = k
          /\ (IF size < Len(z) THEN size ELSE Len(z) - 1) = k
      BY <1>1, <1>4
    <2> HIDE DEF z, k
    <2>2. GetChars(z, size) = g
      BY <1>1, <1>4, <2>1 DEF GetChars
    <2>3. g \in Seq(Nat) /\ Len(g) = k /\ \A i \in 1 .. k : g[i] = z[i]
      <3>1. /\ SubSeq(z, 0 + 1, k) \in Seq(Nat) /\ Len(SubSeq(z, 0 + 1, k)) = k - 0
            /\ \A i \in 1 .. k - 0 : SubSeq(z, 0 + 1, k)[i] = z[0 + i]
        BY <1>1, <2>1, PartOf
      <3>2. 0 + 1 = 1 /\ \A i \in 1 .. k : 0 + i = i
        BY <2>1
      <3> QED BY <2>1, <3>1, <3>2
    <2> HIDE DEF g, N
    <2>4. \A i \in 1 .. k : g[i] = s[i]
      <3>1. \A i \in 1 .. k : i \in 1 .. N
        BY <1>1, <2>1
      <3> QED BY <1>1, <2>3, <3>1
    <2>5. SubSeq(g, 1, k) = SubSeq(s, 1, k)
      <3>1. k \in Nat /\ k <= Len(g) /\ k <= Len(s)
        BY <2>1, <2>3 DEF N
      <3> QED BY <1>2, <2>3, <2>4, <3>1, SamePrefix
    <2>6. IsPrefix(g, s)
      BY <2>1, <2>3, <2>5 DEF IsPrefix, N
    <2> QED BY <2>2, <2>3, <2>6 DEF z, k, N
  <1> QED BY <1>3, <1>4

\* Every place of t in s from one on; indexOf looks at one place more.
Places(s, t, from) == {i \in from .. Len(s) : Position(s, t, i)}

\* The places where the string of t stands in the string of s are those of the texts.
LEMMA PlacesOfText ==
  ASSUME NEW s \in Seq(Code), NEW t \in Seq(Code), s # <<>>, t # <<>>, NEW from \in Nat
  PROVE  LET z == Assigned(s)
             y == Assigned(t)
             size == Len(y) - 1 IN
         {i \in from .. (Len(z) - size) : \A k \in 0 .. (size - 1) : At(z, i + k) = At(y, k)}
           = Places(s, t, from)
  <1> DEFINE z == Assigned(s)
             y == Assigned(t)
             N == Len(s)
             M == Len(t)
  <1>1. /\ N \in Nat /\ M \in Nat /\ M # 0 /\ Len(z) = N + 1 /\ Len(y) - 1 = M
        /\ \A i \in 1 .. N : z[i] = s[i]
        /\ \A i \in 1 .. M : y[i] = t[i] /\ t[i] # 0
        /\ z[N + 1] = 0
    BY AssignedText DEF Code
  <1>2. \A i \in Nat : Position(s, t, i) <=> i + M <= N /\ \A j \in 1 .. M : s[i + j] = t[j]
    BY PositionByCharacter
  <1> HIDE DEF z, y, N, M
  <1>3. ASSUME NEW i \in Nat, i <= N + 1 - M, \A k \in 0 .. (M - 1) : At(z, i + k) = At(y, k)
        PROVE  Position(s, t, i)
    <2>1. \A j \in 1 .. M : z[i + j] = y[j]
      <3> TAKE j \in 1 .. M
      <3>1. j - 1 \in 0 .. (M - 1) /\ (j - 1) + 1 = j /\ (i + (j - 1)) + 1 = i + j
        BY <1>1
      <3>2. At(z, i + (j - 1)) = At(y, j - 1)
        BY <1>3, <3>1
      <3> QED BY <3>1, <3>2 DEF At
    <2>2. i + M <= N
      <3> SUFFICES ASSUME ~(i + M <= N) PROVE FALSE
        OBVIOUS
      <3>1. M \in 1 .. M /\ i + M = N + 1
        BY <1>1, <1>3
      <3>2. z[i + M] = y[M]
        BY <2>1, <3>1
      <3> QED BY <1>1, <3>1, <3>2
    <2>3. \A j \in 1 .. M : s[i + j] = t[j]
      <3> TAKE j \in 1 .. M
      <3>1. i + j \in 1 .. N
        BY <1>1, <2>2
      <3> QED BY <1>1, <2>1, <3>1
    <2> QED BY <1>2, <2>2, <2>3
  <1>4. ASSUME NEW i \in Nat, Position(s, t, i)
        PROVE  i <= N + 1 - M /\ i <= N /\ \A k \in 0 .. (M - 1) : At(z, i + k) = At(y, k)
    <2>1. i + M <= N /\ \A j \in 1 .. M : s[i + j] = t[j]
      BY <1>2, <1>4
    <2>2. ASSUME NEW k \in 0 .. (M - 1) PROVE At(z, i + k) = At(y, k)
      <3>1. k + 1 \in 1 .. M /\ i + (k + 1) = (i + k) + 1 /\ (i + k) + 1 \in 1 .. N
        BY <1>1, <2>1
      <3>2. s[i + (k + 1)] = t[k + 1]
        BY <2>1, <3>1
      <3> QED BY <1>1, <3>1, <3>2 DEF At
    <2> QED BY <1>1, <2>1, <2>2
  <1>5. \A i : i \in from .. (N + 1 - M) => i \in Nat /\ i <= N + 1 - M
    BY <1>1
  <1>6. \A i \in Nat : /\ i \in from .. (N + 1 - M) <=> from <= i /\ i <= N + 1 - M
                       /\ i \in from .. N <=> from <= i /\ i <= N
    BY <1>1
  <1>7. \A i \in from .. N : i \in Nat
    BY <1>1
  <1>8. {i \in from .. (N + 1 - M) : \A k \in 0 .. (M - 1) : At(z, i + k) = At(y, k)}
          = {i \in from .. N : Position(s, t, i)}
    BY <1>3, <1>4, <1>5, <1>6, <1>7
  <1> QED BY <1>1, <1>8 DEF Places, z, y, N, M

\* indexOf of a string finds the first place from the given one on.
LEMMA IndexOfText ==
  ASSUME NEW s \in Seq(Code), NEW t \in Seq(Code), NEW from \in Nat
  PROVE  LET i == IndexOf(Assigned(s), Assigned(t), from) IN
         /\ i \in Int
         /\ s = <<>> \/ t = <<>> \/ Places(s, t, from) = {} => i = -1
         /\ i >= 0 => i >= from /\ Position(s, t, i)
         /\ t # <<>> => \A j \in from .. Len(s) : Position(s, t, j) => i \in 0 .. j
  <1> DEFINE z == Assigned(s)
             y == Assigned(t)
             i == IndexOf(z, y, from)
             hits == Places(s, t, from)
  <1>1. /\ (z = <<>> <=> s = <<>>) /\ (y = <<>> <=> t = <<>>)
        /\ Len(s) \in Nat /\ Len(t) \in Nat /\ (s = <<>> <=> Len(s) = 0) /\ (t = <<>> <=> Len(t) = 0)
    BY AssignedText, EmptySeq
  <1>2. CASE s = <<>> \/ t = <<>>
    <2>1. i = -1
      BY <1>1, <1>2 DEF IndexOf
    <2>2. ASSUME t # <<>>, NEW j \in from .. Len(s), Position(s, t, j) PROVE FALSE
      <3>1. j \in Nat
        BY <1>1
      <3>2. j + Len(t) <= Len(s)
        BY <2>2 DEF Position
      <3> QED BY <1>1, <1>2, <2>2, <3>1, <3>2
    <2>3. -1 \in Int /\ ~(-1 >= 0)
      OBVIOUS
    <2> HIDE DEF i
    <2> QED BY <2>1, <2>2, <2>3 DEF i
  <1>3. CASE s # <<>> /\ t # <<>>
    <2>1. i = IF hits = {} THEN -1 ELSE CHOOSE j \in hits : \A k \in hits : j <= k
      <3> DEFINE raw == {j \in from .. (Len(z) - (Len(y) - 1)) :
                           \A k \in 0 .. ((Len(y) - 1) - 1) : At(z, j + k) = At(y, k)}
      <3>1. raw = hits
        BY <1>3, PlacesOfText
      <3>2. z # <<>> /\ y # <<>>
        BY <1>1, <1>3
      <3>3. i = IF z = <<>> \/ y = <<>> \/ raw = {} THEN -1
                ELSE CHOOSE j \in raw : \A k \in raw : j <= k
        BY Zenon DEF IndexOf
      <3> HIDE DEF hits, z, y, raw, i
      <3> QED BY <3>1, <3>2, <3>3
    <2>2. hits \in SUBSET Nat /\ \A j : j \in hits <=> j \in from .. Len(s) /\ Position(s, t, j)
      BY <1>1 DEF Places
    <2>3. \A j \in from .. Len(s) : j \in Nat /\ j >= from /\ j >= 0
      BY <1>1
    <2> HIDE DEF hits, i
    <2>4. CASE hits = {}
      <3>1. i = -1 /\ -1 \in Int /\ ~(-1 >= 0)
        BY <2>1, <2>4
      <3> QED BY <2>2, <2>4, <3>1 DEF i
    <2>5. CASE hits # {}
      <3>1. \E j \in hits : \A k \in hits : j <= k
        BY <2>2, <2>5, LeastExists
      <3>2. i \in hits /\ \A k \in hits : i <= k
        BY <2>1, <2>5, <3>1, Zenon
      <3>3. i \in Nat /\ i \in Int /\ i >= from /\ Position(s, t, i)
        BY <2>2, <2>3, <3>2
      <3>4. ASSUME NEW j \in from .. Len(s), Position(s, t, j) PROVE i \in 0 .. j
        <4>1. j \in hits /\ j \in Nat
          BY <2>2, <2>3, <3>4
        <4>2. i <= j
          BY <3>2, <4>1
        <4> QED BY <3>3, <4>1, <4>2
      <3> QED BY <1>3, <2>5, <3>3, <3>4 DEF hits, i
    <2> QED BY <2>4, <2>5
  <1> QED BY <1>2, <1>3

\* A place of a single character.
LEMMA PlaceOfCharacter ==
  ASSUME NEW s \in Seq(Code), NEW c \in Code
  PROVE  /\ <<c>> \in Seq(Code) /\ <<c>> # <<>>
         /\ \A i \in Nat : Position(s, <<c>>, i) <=> i + 1 <= Len(s) /\ s[i + 1] = c
  <1> DEFINE t == <<c>>
  <1>1. t \in Seq(Code) /\ Len(t) = 1 /\ t[1] = c /\ t # <<>>
    OBVIOUS
  <1> HIDE DEF t
  <1>2. ASSUME NEW i \in Nat
        PROVE  Position(s, t, i) <=> i + 1 <= Len(s) /\ s[i + 1] = c
    <2>1. Position(s, t, i) <=> i + Len(t) <= Len(s) /\ \A j \in 1 .. Len(t) : s[i + j] = t[j]
      BY <1>1, PositionByCharacter
    <2>2. \A j \in 1 .. 1 : j = 1
      OBVIOUS
    <2> QED BY <1>1, <2>1, <2>2
  <1> QED BY <1>1, <1>2 DEF t

\* indexOf of a character is indexOf of the string of that character.
LEMMA IndexOfCharText ==
  ASSUME NEW s \in Seq(Code), NEW c \in Code, NEW from \in Nat
  PROVE  IndexOfChar(Assigned(s), c, from) = IndexOf(Assigned(s), Assigned(<<c>>), from)
  <1> DEFINE z == Assigned(s)
             t == <<c>>
             y == Assigned(t)
             N == Len(s)
             raw == {i \in from .. (Len(z) - 2) : At(z, i) = c}
             all == {i \in from .. (Len(z) - (Len(y) - 1)) :
                       \A k \in 0 .. ((Len(y) - 1) - 1) : At(z, i + k) = At(y, k)}
             hits == Places(s, t, from)
  <1>1. t \in Seq(Code) /\ t # <<>> /\ \A i \in Nat : Position(s, t, i) <=> i + 1 <= N /\ s[i + 1] = c
    BY PlaceOfCharacter
  <1> HIDE DEF t
  <1>2. /\ N \in Nat /\ (s = <<>> <=> N = 0) /\ (z = <<>> <=> s = <<>>) /\ y # <<>>
        /\ Len(z) = (IF s = <<>> THEN 0 ELSE N + 1)
        /\ \A i \in 1 .. N : z[i] = s[i]
    BY <1>1, AssignedText, EmptySeq
  <1>3. IndexOfChar(z, c, from) = IF raw = {} THEN -1 ELSE CHOOSE i \in raw : \A j \in raw : i <= j
    BY Zenon DEF IndexOfChar
  <1>4. IndexOf(z, y, from) = IF z = <<>> \/ y = <<>> \/ all = {} THEN -1
                              ELSE CHOOSE i \in all : \A j \in all : i <= j
    BY Zenon DEF IndexOf
  <1>5. CASE s = <<>>
    <2>1. raw = {}
      BY <1>2, <1>5
    <2> HIDE DEF raw, all
    <2> QED BY <1>2, <1>3, <1>4, <1>5, <2>1 DEF t
  <1>6. CASE s # <<>>
    <2>1. all = hits
      BY <1>1, <1>6, PlacesOfText
    <2>2. raw = hits
      <3>1. Len(z) - 2 = N - 1
        BY <1>2, <1>6
      <3>2. \A i \in from .. (N - 1) : i \in Nat /\ i \in from .. N /\ i + 1 \in 1 .. N /\ i + 1 <= N
        BY <1>2
      <3>3. \A i \in from .. N : i \in Nat /\ (i + 1 <= N => i \in from .. (N - 1))
        BY <1>2
      <3> HIDE DEF z
      <3>4. \A i \in from .. (N - 1) : At(z, i) = s[i + 1]
        BY <1>2, <3>2 DEF At
      <3> HIDE DEF N
      <3>5. raw = {i \in from .. (N - 1) : At(z, i) = c} /\ hits = {i \in from .. N : Position(s, t, i)}
        BY <3>1 DEF Places, N
      <3> QED BY <1>1, <3>2, <3>3, <3>4, <3>5
    <2> HIDE DEF raw, all, hits, z, y
    <2> QED BY <1>2, <1>3, <1>4, <1>6, <2>1, <2>2 DEF z, y, t
  <1> QED BY <1>5, <1>6

\* lastIndexOf finds the last place, up to the given one, or what lies behind the array.
LEMMA LastIndexOfText ==
  ASSUME NEW s \in Seq(Code), NEW c \in Code, NEW from \in Nat, NEW past \in Nat
  PROVE  LET l == LastIndexOf(Assigned(s), c, from, past) IN
         /\ l # -1 => l <= from /\ (Position(s, <<c>>, l) \/ l = Len(Assigned(s)))
         /\ \A j \in 0 .. from : Position(s, <<c>>, j) => l >= j
  <1> DEFINE z == Assigned(s)
             t == <<c>>
             N == Len(s)
             start == IF from > Len(z) THEN Len(z) ELSE from
             found(j) == (IF j = Len(z) THEN past ELSE At(z, j)) = c
             hits == {j \in 0 .. start : found(j)}
             l == LastIndexOf(z, c, from, past)
  <1>1. \A i \in Nat : Position(s, t, i) <=> i + 1 <= N /\ s[i + 1] = c
    BY PlaceOfCharacter
  <1> HIDE DEF t
  <1>2. /\ N \in Nat /\ (s = <<>> <=> N = 0) /\ (z = <<>> <=> s = <<>>)
        /\ Len(z) = (IF s = <<>> THEN 0 ELSE N + 1)
        /\ \A i \in 1 .. N : z[i] = s[i]
        /\ s # <<>> => z[N + 1] = 0
        /\ c # 0
    BY AssignedText, EmptySeq DEF Code
  <1>3. l = IF z = <<>> THEN -1
            ELSE IF hits = {} THEN (IF start < 0 THEN start ELSE -1)
            ELSE CHOOSE j \in hits : \A k \in hits : j >= k
    BY Zenon DEF LastIndexOf
  <1>4. start \in Nat /\ start <= from /\ start <= Len(z) /\ (start = from \/ start = Len(z)) /\ Len(z) \in Nat
    BY <1>2
  <1> HIDE DEF z, start, l
  <1>5. CASE s = <<>>
    <2>1. l = -1
      BY <1>2, <1>3, <1>5
    <2>2. \A j \in 0 .. from : ~Position(s, t, j)
      <3>1. \A j \in 0 .. from : j \in Nat /\ ~(j + 1 <= 0)
        OBVIOUS
      <3> QED BY <1>1, <1>2, <1>5, <3>1
    <2> QED BY <2>1, <2>2 DEF l, z, t
  <1>6. CASE s # <<>>
    <2>1. Len(z) = N + 1
      BY <1>2, <1>6
    <2>2. ASSUME NEW j \in 0 .. start, found(j) PROVE Position(s, t, j) \/ j = Len(z)
      <3>1. j \in Nat /\ j <= N + 1
        BY <1>4, <2>1
      <3>2. CASE j = N + 1
        BY <2>1, <3>2
      <3>3. CASE j # N + 1
        <4>1. z[j + 1] = c
          BY <2>1, <2>2, <3>3 DEF At
        <4>2. j # N
          BY <1>2, <1>6, <4>1
        <4>3. j + 1 \in 1 .. N /\ j + 1 <= N
          BY <1>2, <3>1, <3>3, <4>2
        <4> QED BY <1>1, <1>2, <3>1, <4>1, <4>3
      <3> QED BY <3>2, <3>3
    <2>3. ASSUME NEW j \in 0 .. from, Position(s, t, j) PROVE j \in 0 .. start /\ found(j)
      <3>1. j \in Nat /\ j + 1 <= N /\ s[j + 1] = c
        BY <1>1, <2>3
      <3>2. j # Len(z) /\ j <= start /\ j + 1 \in 1 .. N
        BY <1>2, <1>4, <2>1, <3>1
      <3> QED BY <1>2, <1>4, <3>1, <3>2 DEF At
    <2>4. hits \subseteq 0 .. start /\ \A j : j \in hits <=> j \in 0 .. start /\ found(j)
      OBVIOUS
    <2> HIDE DEF hits, found
    <2>5. CASE hits = {}
      <3>1. l = -1
        BY <1>2, <1>3, <1>4, <1>6, <2>5
      <3> QED BY <2>3, <2>4, <2>5, <3>1 DEF l, z, t
    <2>6. CASE hits # {}
      <3>1. \E j \in hits : \A k \in hits : j >= k
        <4>1. \E j \in hits : \A k \in hits : k <= j
          BY <1>4, <2>4, <2>6, GreatestExists
        <4> QED BY <1>4, <2>4, <4>1
      <3>2. l \in hits /\ \A k \in hits : l >= k
        BY <1>2, <1>3, <1>6, <2>6, <3>1, Zenon
      <3>3. l \in 0 .. start /\ (Position(s, t, l) \/ l = Len(z))
        BY <2>2, <2>4, <3>2
      <3>4. l <= from
        BY <1>4, <3>3
      <3>5. \A j \in 0 .. from : Position(s, t, j) => l >= j
        BY <2>3, <2>4, <3>2
      <3> QED BY <3>3, <3>4, <3>5 DEF l, z, t
    <2> QED BY <2>5, <2>6
  <1> QED BY <1>5, <1>6

\* Trimming a string trims its text.
LEMMA TrimmedText ==
  ASSUME NEW s \in Seq(Code)
  PROVE  \E a, b \in 0 .. Len(s) :
           LET cut == SubSeq(s, a + 1, Len(s) - b) IN
           /\ TextOf(Trim(Assigned(s))) = cut
           /\ \A i \in 1 .. Len(s) : i <= a \/ i > Len(s) - b => s[i] <= Blank
           /\ cut # <<>> => cut[1] > Blank /\ Last(cut) > Blank
  <1>1. PICK a \in 0 .. Len(s), b \in 0 .. Len(s) :
          /\ SubSeq(s, a + 1, Len(s) - b) \in Seq(Code)
          /\ Trim(Assigned(s)) = Assigned(SubSeq(s, a + 1, Len(s) - b))
          /\ \A i \in 1 .. Len(s) : i <= a \/ i > Len(s) - b => s[i] <= Blank
          /\ SubSeq(s, a + 1, Len(s) - b) # <<>> =>
               /\ SubSeq(s, a + 1, Len(s) - b)[1] > Blank
               /\ Last(SubSeq(s, a + 1, Len(s) - b)) > Blank
    BY TrimText, Zenon
  <1>2. TextOf(Trim(Assigned(s))) = SubSeq(s, a + 1, Len(s) - b)
    BY <1>1, AssignedText
  <1> QED BY <1>1, <1>2, Zenon

\* The two strings of any texts do what the texts mean.
LEMMA StringsOfTexts ==
  ASSUME TextInv
  PROVE  StringsAgreeWithTexts
  <1> DEFINE s == TextOf(str)
             t == TextOf(arg)
  <1>1. /\ s \in Seq(Code) /\ str = Assigned(s)
        /\ t \in Seq(Code) /\ arg = Assigned(t)
    BY AssignedText DEF TextInv
  <1> HIDE DEF s, t
  <1>2. ~Contains(s, 0)
    <2>1. \A i \in 1 .. Len(s) : s[i] # 0
      BY <1>1, AssignedText DEF Code
    <2> QED BY <2>1 DEF Contains
  <1>3. TextOf(Concat(str, arg)) = s \o t
    <2>1. s \o t \in Seq(Code)
      BY <1>1, ConcatProperties
    <2> QED BY <1>1, <2>1, ConcatText, AssignedText
  <1>4. \E a, b \in 0 .. Len(s) :
           LET cut == SubSeq(s, a + 1, Len(s) - b) IN
           /\ TextOf(Trim(str)) = cut
           /\ \A i \in 1 .. Len(s) : i <= a \/ i > Len(s) - b => s[i] <= Blank
           /\ cut # <<>> => cut[1] > Blank /\ Last(cut) > Blank
    BY <1>1, TrimmedText
  <1>5. /\ CompareToIgnoreCase(str, arg) < 0 <=> Before(UpperText(str), UpperText(arg))
        /\ CompareToIgnoreCase(str, arg) = 0 <=> UpperText(str) = UpperText(arg)
    BY <1>1, CompareText, Zenon
  <1>6. EndsWith(str, arg) <=> t # <<>> /\ Len(t) <= Len(s) /\ ~IsSuffix(t, s)
    BY <1>1, EndsWithText
  <1>7. \A size \in 0 .. MaxLen :
          /\ IsPrefix(GetChars(str, size), s)
          /\ Len(GetChars(str, size)) = IF size < Len(s) THEN size ELSE Len(s)
    <2> TAKE size \in 0 .. MaxLen
    <2>1. size \in Nat
      OBVIOUS
    <2> QED BY <1>1, <2>1, GetCharsText
  <1>8. \A from \in 0 .. (MaxLen + 1) : from \in Nat
    OBVIOUS
  <1>9. ASSUME NEW from \in 0 .. (MaxLen + 1)
        PROVE  LET i == IndexOf(str, arg, from) IN
               /\ StartsWith(str, arg, from) <=> t # <<>> /\ from < Len(str) /\ ~Position(s, t, from)
               /\ i >= 0 => i >= from /\ Position(s, t, i)
               /\ t # <<>> => \A j \in from .. Len(s) : Position(s, t, j) => i \in 0 .. j
    <2>1. from \in Nat
      BY <1>8
    <2>2. StartsWith(str, arg, from) <=> t # <<>> /\ from < Len(str) /\ ~Position(s, t, from)
      BY <1>1, <2>1, StartsWithText
    <2>3. LET i == IndexOf(str, arg, from) IN
          /\ i >= 0 => i >= from /\ Position(s, t, i)
          /\ t # <<>> => \A j \in from .. Len(s) : Position(s, t, j) => i \in 0 .. j
      BY <1>1, <2>1, IndexOfText
    <2> QED BY <2>2, <2>3, Zenon
  <1>10. ASSUME NEW c \in Char, NEW from \in 0 .. (MaxLen + 1)
         PROVE  LET i == IndexOfChar(str, c, from)
                    past == {LastIndexOf(str, c, from, b) : b \in Char \cup {0}} IN
                /\ i = IndexOf(str, Assigned(<<c>>), from)
                /\ \A l \in past :
                     /\ l # -1 => l <= from /\ (Position(s, <<c>>, l) \/ l = Len(str))
                     /\ \A j \in 0 .. from : Position(s, <<c>>, j) => l >= j
    <2>1. from \in Nat /\ c \in Code /\ \A b \in Char \cup {0} : b \in Nat
      BY <1>8, CharAssumption DEF Code
    <2>2. IndexOfChar(str, c, from) = IndexOf(str, Assigned(<<c>>), from)
      BY <1>1, <2>1, IndexOfCharText
    <2>3. \A b \in Char \cup {0} :
            LET l == LastIndexOf(str, c, from, b) IN
            /\ l # -1 => l <= from /\ (Position(s, <<c>>, l) \/ l = Len(str))
            /\ \A j \in 0 .. from : Position(s, <<c>>, j) => l >= j
      BY <1>1, <2>1, LastIndexOfText
    <2> QED BY <2>2, <2>3, Zenon
  <1> QED BY <1>1, <1>2, <1>3, <1>4, <1>5, <1>6, <1>7, <1>9, <1>10, Zenon
     DEF StringsAgreeWithTexts, s, t

\* Strings of texts of any length, over any characters and whatever operations built
\* them, join, cut, trim, compare and search as their texts do (wstring_t), with the
\* exceptions the property names.
THEOREM StringsAlwaysAgree == StringSpec => []StringsAgreeWithTexts
  BY TextInvariant, StringsOfTexts, PTL

-----------------------------------------------------------------------------
(* The values of fields                                                    *)

Cell == 0 .. (2 * Half - 1)

\* A number survives the cast to a signed type and back.
LEMMA SignIsKept ==
  ASSUME NEW x \in Cell
  PROVE  Signed(x) \in Int /\ Unsigned(Signed(x)) = x
  <1> DEFINE m == 2 * Half
  <1>1. m \in Nat /\ m > 0 /\ x \in Nat /\ x < m
    BY CellAssumption DEF Cell
  <1>2. x % m = x
    BY <1>1
  <1>3. (x - m) % m = x
    BY <1>1
  <1> QED BY <1>1, <1>2, <1>3, CellAssumption DEF Signed, Unsigned

\* A C string is what stands before the first zero.
LEMMA CStringIs ==
  ASSUME NEW s \in Seq(Nat), NEW c \in Seq(Nat), Len(c) <= Len(s),
         \A i \in 1 .. Len(c) : s[i] = c[i] /\ c[i] # 0,
         Len(c) = Len(s) \/ s[Len(c) + 1] = 0
  PROVE  CString(s) = c
  <1>1. Len(c) \in Nat /\ Len(s) \in Nat /\ DOMAIN s = 1 .. Len(s)
    BY LenProperties
  <1>2. CASE Len(c) = Len(s)
    <2>1. s = c
      BY <1>2, SeqEqual
    <2>2. ~\E i \in DOMAIN s : s[i] = 0
      BY <1>1, <1>2
    <2> QED BY <2>1, <2>2 DEF CString
  <1>3. CASE Len(c) # Len(s)
    <2> DEFINE first(i) == s[i] = 0 /\ \A j \in 1 .. (i - 1) : s[j] # 0
               k == CHOOSE i \in DOMAIN s : first(i)
    <2>1. Len(c) + 1 \in DOMAIN s /\ first(Len(c) + 1)
      <3>1. Len(c) + 1 \in DOMAIN s /\ s[Len(c) + 1] = 0 /\ (Len(c) + 1) - 1 = Len(c)
        BY <1>1, <1>3
      <3> QED BY <3>1
    <2>2. k \in DOMAIN s /\ first(k)
      <3> HIDE DEF first
      <3> QED BY <2>1
    <2>3. k = Len(c) + 1
      BY <1>1, <2>1, <2>2
    <2>4. CString(s) = SubSeq(s, 1, k - 1)
      BY <2>1 DEF CString
    <2> HIDE DEF k
    <2>5. k - 1 = Len(c) /\ 0 \in 0 .. Len(s) /\ Len(c) \in 0 .. Len(s) /\ Len(c) - 0 = Len(c)
      BY <1>1, <2>3
    <2>6. /\ SubSeq(s, 0 + 1, Len(c)) \in Seq(Nat) /\ Len(SubSeq(s, 0 + 1, Len(c))) = Len(c) - 0
          /\ \A i \in 1 .. Len(c) - 0 : SubSeq(s, 0 + 1, Len(c))[i] = s[0 + i]
      BY <2>5, PartOf
    <2>7. SubSeq(s, 1, Len(c)) = c
      <3>1. 0 + 1 = 1 /\ \A i \in 1 .. Len(c) : 0 + i = i
        BY <1>1
      <3> QED BY <2>5, <2>6, <3>1, SeqEqual
    <2> QED BY <2>4, <2>5, <2>7
  <1> QED BY <1>2, <1>3

LEMMA CStringProperties ==
  ASSUME NEW s \in Seq(Nat)
  PROVE  /\ CString(s) \in Seq(Nat) /\ Len(CString(s)) <= Len(s)
         /\ \A i \in 1 .. Len(CString(s)) : CString(s)[i] = s[i] /\ CString(s)[i] # 0
         /\ Len(CString(s)) = Len(s) \/ s[Len(CString(s)) + 1] = 0
         /\ CString(CString(s)) = CString(s)
  <1> DEFINE Z == {i \in 1 .. Len(s) : s[i] = 0}
  <1>1. Len(s) \in Nat /\ \A i \in 1 .. Len(s) : s[i] \in Nat
    BY LenProperties, ElementOfSeq
  <1>2. \E c \in Seq(Nat) : /\ Len(c) <= Len(s)
                            /\ \A i \in 1 .. Len(c) : s[i] = c[i] /\ c[i] # 0
                            /\ Len(c) = Len(s) \/ s[Len(c) + 1] = 0
    <2>1. CASE Z = {}
      <3>1. Len(s) <= Len(s) /\ \A i \in 1 .. Len(s) : s[i] # 0
        BY <1>1, <2>1
      <3> QED BY <3>1
    <2>2. CASE Z # {}
      <3>1. Z \in SUBSET Nat
        BY <1>1
      <3> HIDE DEF Z
      <3>2. PICK k \in Z : \A i \in Z : k <= i
        BY <2>2, <3>1, LeastExists
      <3>3. k \in 1 .. Len(s) /\ s[k] = 0
        BY <3>2 DEF Z
      <3> DEFINE c == SubSeq(s, 0 + 1, k - 1)
      <3>4. 0 \in 0 .. Len(s) /\ k - 1 \in 0 .. Len(s) /\ (k - 1) - 0 = k - 1 /\ k - 1 <= Len(s)
        BY <1>1, <3>3
      <3>5. /\ c \in Seq(Nat) /\ Len(c) = k - 1
            /\ \A i \in 1 .. (k - 1) - 0 : c[i] = s[0 + i]
        BY <3>4, PartOf
      <3> HIDE DEF c
      <3>6. \A i \in 1 .. Len(c) : s[i] = c[i] /\ c[i] # 0
        <4> TAKE i \in 1 .. Len(c)
        <4>1. i \in 1 .. (k - 1) - 0 /\ 0 + i = i /\ i \in 1 .. Len(s) /\ ~(k <= i)
          BY <1>1, <3>3, <3>4, <3>5
        <4>2. i \notin Z
          BY <3>2, <4>1
        <4> QED BY <3>5, <4>1, <4>2 DEF Z
      <3>7. Len(c) + 1 = k
        BY <1>1, <3>3, <3>5
      <3> QED BY <3>3, <3>4, <3>5, <3>6, <3>7
    <2> QED BY <2>1, <2>2
  <1>3. PICK c \in Seq(Nat) : /\ Len(c) <= Len(s)
                              /\ \A i \in 1 .. Len(c) : s[i] = c[i] /\ c[i] # 0
                              /\ Len(c) = Len(s) \/ s[Len(c) + 1] = 0
    BY <1>2
  <1>4. CString(s) = c
    BY <1>3, CStringIs
  <1>5. CString(c) = c
    <2>1. Len(c) \in Nat /\ Len(c) <= Len(c)
      BY LenProperties
    <2> QED BY <1>3, <2>1, CStringIs
  <1> QED BY <1>3, <1>4, <1>5

\* Cut truncates or pads.
LEMMA CutProperties ==
  ASSUME NEW S, 0 \in S, NEW s \in Seq(S), NEW n \in Nat
  PROVE  /\ Cut(s, n) \in Seq(S) /\ Len(Cut(s, n)) = n
         /\ \A i \in 1 .. n : Cut(s, n)[i] = IF i <= Len(s) THEN s[i] ELSE 0
         /\ Len(s) = n => Cut(s, n) = s
  <1>1. Len(s) \in Nat
    BY LenProperties
  <1>2. CASE Len(s) >= n
    <2>1. 0 \in 0 .. Len(s) /\ n \in 0 .. Len(s) /\ n - 0 = n /\ 0 + 1 = 1
      BY <1>1, <1>2
    <2>2. /\ SubSeq(s, 0 + 1, n) \in Seq(S) /\ Len(SubSeq(s, 0 + 1, n)) = n - 0
          /\ \A i \in 1 .. n - 0 : SubSeq(s, 0 + 1, n)[i] = s[0 + i]
      BY <2>1, PartOf
    <2>3. Cut(s, n) = SubSeq(s, 1, n)
      BY <1>2 DEF Cut
    <2>4. \A i \in 1 .. n : 0 + i = i /\ i <= Len(s)
      BY <1>1, <1>2
    <2>5. /\ Cut(s, n) \in Seq(S) /\ Len(Cut(s, n)) = n
          /\ \A i \in 1 .. n : Cut(s, n)[i] = s[i] /\ i <= Len(s)
      BY <2>1, <2>2, <2>3, <2>4
    <2>6. Len(s) = n => Cut(s, n) = s
      BY <2>5, SeqEqual
    <2> QED BY <2>5, <2>6
  <1>3. CASE ~(Len(s) >= n)
    <2> DEFINE k == n - Len(s)
               z == Zeros(k)
    <2>1. k \in Nat /\ Len(s) + k = n
      BY <1>1, <1>3
    <2>2. Cut(s, n) = s \o z
      BY <1>3 DEF Cut
    <2> HIDE DEF k
    <2>3. z = [i \in 1 .. k |-> 0]
      BY DEF Zeros
    <2>4. z \in Seq(S) /\ Len(z) = k /\ \A i \in 1 .. k : z[i] = 0
      <3>1. \A i \in 1 .. k : 0 \in S
        OBVIOUS
      <3>2. [i \in 1 .. k |-> 0] \in Seq(S)
        BY <2>1, <3>1, IsASeq
      <3> HIDE DEF z
      <3>3. z \in Seq(S) /\ DOMAIN z = 1 .. k
        BY <2>3, <3>2
      <3>4. Len(z) = k
        BY <2>1, <3>3, LenProperties
      <3> QED BY <2>3, <3>3, <3>4
    <2> HIDE DEF z
    <2>5. /\ s \o z \in Seq(S) /\ Len(s \o z) = Len(s) + Len(z)
          /\ \A i \in 1 .. Len(s) + Len(z) : (s \o z)[i] = IF i <= Len(s) THEN s[i] ELSE z[i - Len(s)]
      BY <2>4, ConcatProperties
    <2>6. \A i \in 1 .. n : (s \o z)[i] = IF i <= Len(s) THEN s[i] ELSE 0
      <3> TAKE i \in 1 .. n
      <3>1. i \in 1 .. Len(s) + Len(z) /\ (~(i <= Len(s)) => i - Len(s) \in 1 .. k)
        BY <1>1, <2>1, <2>4
      <3> QED BY <2>4, <2>5, <3>1
    <2>7. Len(s) # n
      BY <1>1, <1>3
    <2> QED BY <2>1, <2>2, <2>4, <2>5, <2>6, <2>7
  <1> QED BY <1>2, <1>3

\* pack_string puts the length before the cells.
LEMMA Packing ==
  ASSUME NEW S, NEW c \in Seq(S), S \subseteq Nat
  PROVE  LET w == PackString(c) IN
         w \in Seq(Nat) /\ w # <<>> /\ Len(w) = Len(c) + 1 /\ w[1] = Len(c) /\ Tail(w) = c
  <1> DEFINE w == <<Len(c)>> \o c
  <1>1. Len(c) \in Nat /\ c \in Seq(Nat) /\ <<Len(c)>> \in Seq(Nat) /\ Len(<<Len(c)>>) = 1
    <2>1. Seq(S) \subseteq Seq(Nat)
      BY SeqMonotonic
    <2>2. Len(c) \in Nat
      BY LenProperties
    <2> QED BY <2>1, <2>2
  <1>2. /\ w \in Seq(Nat) /\ Len(w) = 1 + Len(c)
        /\ \A i \in 1 .. 1 + Len(c) : w[i] = IF i <= 1 THEN <<Len(c)>>[i] ELSE c[i - 1]
    BY <1>1, ConcatProperties
  <1> HIDE DEF w
  <1>3. w # <<>> /\ w[1] = Len(c)
    <2>1. 1 \in 1 .. 1 + Len(c)
      BY <1>1
    <2> QED BY <1>1, <1>2, <2>1, EmptySeq
  <1>4. /\ Tail(w) \in Seq(Nat) /\ Len(Tail(w)) = Len(c)
        /\ \A i \in 1 .. Len(c) : Tail(w)[i] = w[i + 1]
    BY <1>1, <1>2, <1>3, HeadTailProperties
  <1>5. \A i \in 1 .. Len(c) : Tail(w)[i] = c[i]
    <2> TAKE i \in 1 .. Len(c)
    <2>1. i + 1 \in 1 .. 1 + Len(c) /\ ~(i + 1 <= 1) /\ (i + 1) - 1 = i
      BY <1>1
    <2> QED BY <1>2, <1>4, <2>1
  <1>6. Tail(w) = c
    BY <1>1, <1>4, <1>5, SeqEqual
  <1> QED BY <1>1, <1>2, <1>3, <1>6 DEF PackString, w

\* A sequence is its first element before its tail.
LEMMA Unpacking ==
  ASSUME NEW v \in Seq(Nat), v # <<>>, v[1] = Len(v) - 1
  PROVE  Tail(v) \in Seq(Nat) /\ Len(Tail(v)) = v[1] /\ PackString(Tail(v)) = v
  <1>1. /\ Len(v) \in Nat /\ Len(v) >= 1 /\ Tail(v) \in Seq(Nat) /\ Len(Tail(v)) = Len(v) - 1
        /\ \A i \in 1 .. Len(v) - 1 : Tail(v)[i] = v[i + 1]
    BY HeadTailProperties, LenProperties, EmptySeq
  <1> DEFINE t == Tail(v)
             w == PackString(t)
  <1>2. t \in Seq(Nat) /\ Len(t) = Len(v) - 1
    BY <1>1
  <1> HIDE DEF t
  <1>3. w \in Seq(Nat) /\ w # <<>> /\ Len(w) = Len(t) + 1 /\ w[1] = Len(t) /\ Tail(w) = t
    BY <1>2, Packing
  <1> HIDE DEF w
  <1>4. \A i \in 1 .. Len(w) - 1 : Tail(w)[i] = w[i + 1]
    BY <1>3, HeadTailProperties
  <1>5. \A i \in 1 .. Len(v) : w[i] = v[i]
    <2> TAKE i \in 1 .. Len(v)
    <2>1. CASE i = 1
      BY <1>2, <1>3, <2>1
    <2>2. CASE i # 1
      <3>1. i - 1 \in 1 .. Len(v) - 1 /\ i - 1 \in 1 .. Len(w) - 1 /\ (i - 1) + 1 = i
        BY <1>1, <1>2, <1>3, <2>2
      <3>2. t[i - 1] = v[i] /\ t[i - 1] = w[i]
        BY <1>1, <1>3, <1>4, <3>1 DEF t
      <3> QED BY <3>2
    <2> QED BY <2>1, <2>2
  <1>6. Len(w) = Len(v)
    BY <1>1, <1>2, <1>3
  <1>7. w = v
    BY <1>3, <1>5, <1>6, SeqEqual
  <1> QED BY <1>1, <1>7 DEF w, t

-----------------------------------------------------------------------------
(* One field, stored and read back                                         *)

Now(f) == [f EXCEPT !.dbs = f.loc]

\* What WellFormed says of one field.
Proper(f, text) ==
  /\ f \in Field /\ Fits(f)
  /\ f.dbs.type \notin Ints => f.dbs.n = 1
  /\ f.loc.type \notin Ints => f.loc.n = 1
  /\ text /\ (f.dbs.n = 0 \/ f.loc.n = 0) =>
       f.dbs = f.loc /\ f.binary /\ f.dbs.type = "int" /\ f.dbs.size = 1

\* Cells s of a field become text that is read back and stored as the same text.
LEMMA TextIsKept ==
  ASSUME NEW s \in Seq(Nat), UnpackString(s) # NoText, Len(s) < NullLen
  PROVE  LET w == PackString(CString(s)) IN
         /\ UnpackString(s) = <<"text", CString(s)>>
         /\ w \in Seq(Nat) /\ w # <<>> /\ w[1] = Len(w) - 1 /\ w[1] < NullLen
         /\ Tail(w) = CString(s) /\ UnpackString(Tail(w)) = UnpackString(s)
  <1> DEFINE c == CString(s)
             w == PackString(c)
  <1>1. c \in Seq(Nat) /\ Len(c) <= Len(s) /\ CString(c) = c /\ Len(c) \in Nat /\ Len(s) \in Nat
    BY CStringProperties, LenProperties
  <1>2. CString(s) # <<>> /\ UnpackString(s) = <<"text", CString(s)>>
    BY DEF UnpackString
  <1>3. UnpackString(c) = <<"text", c>>
    BY <1>1, <1>2 DEF UnpackString
  <1> HIDE DEF c
  <1>4. /\ w \in Seq(Nat) /\ w # <<>> /\ Len(w) = Len(c) + 1 /\ w[1] = Len(c) /\ Tail(w) = c
    BY <1>1, Packing
  <1>5. w[1] = Len(w) - 1 /\ w[1] < NullLen
    BY <1>1, <1>4, CellAssumption
  <1> HIDE DEF w
  <1>6. UnpackString(Tail(w)) = UnpackString(s)
    BY <1>2, <1>3, <1>4 DEF c
  <1> QED BY <1>2, <1>4, <1>5, <1>6, Zenon DEF c, w

\* A field keeps v: its SQL value is read back, and stored again as the same value.
Kept(f, v, text) ==
  LET x == StoredValue(f, v, text)
      w == UnpackedValue(f, x, text) IN
  /\ IsArray(f) => x # Null /\ f.loc.n \in {0, Len(x[2])}
  /\ IsValue(Now(f), w)
  /\ StoredValue(Now(f), w, text) = x

LEMMA NowProperties ==
  ASSUME NEW f \in Field
  PROVE  /\ Now(f) \in Field /\ Now(f).dbs = f.loc /\ Now(f).loc = f.loc
         /\ Now(f).binary = f.binary /\ Now(f).name = f.name
         /\ f.dbs \in Format /\ f.loc \in Format
         /\ f.dbs.n \in Nat /\ f.dbs.size \in Nat /\ f.dbs.type \in Types
         /\ f.loc.n \in Nat /\ f.loc.size \in Nat /\ f.loc.type \in Types
         /\ f.binary \in BOOLEAN
  BY DEF Now, Field, Format

LEMMA SignsAreKept ==
  ASSUME NEW s \in Seq(Cell)
  PROVE  LET t == [i \in DOMAIN s |-> Signed(s[i])] IN
         /\ DOMAIN t = DOMAIN s /\ Len(t) = Len(s) /\ UnpackArray(t) = s
  <1> DEFINE t == [i \in DOMAIN s |-> Signed(s[i])]
             K == Len(s)
  <1>1. K \in Nat /\ DOMAIN s = 1 .. K /\ \A i \in 1 .. K : s[i] \in Cell
    BY LenProperties, ElementOfSeq
  <1> HIDE DEF K
  <1>2. \A i \in 1 .. K : Signed(s[i]) \in Int /\ Unsigned(Signed(s[i])) = s[i]
    BY <1>1, SignIsKept
  <1>3. t = [i \in 1 .. K |-> Signed(s[i])]
    BY <1>1
  <1>4. t \in Seq(Int) /\ DOMAIN t = 1 .. K
    <2>1. [i \in 1 .. K |-> Signed(s[i])] \in Seq(Int)
      <3>1. \A i \in 1 .. K : Signed(s[i]) \in Int
        BY <1>2
      <3> QED BY <1>1, <3>1, IsASeq
    <2> HIDE DEF t
    <2> QED BY <1>3, <2>1
  <1>5. Len(t) = K
    <2> HIDE DEF t
    <2> QED BY <1>1, <1>4, LenProperties
  <1>6. UnpackArray(t) = s
    <2>1. UnpackArray(t) = [i \in DOMAIN t |-> Unsigned(t[i])]
      BY DEF UnpackArray
    <2>2. \A i \in 1 .. K : t[i] = Signed(s[i])
      BY <1>3
    <2> HIDE DEF t
    <2>3. UnpackArray(t) = [i \in 1 .. K |-> s[i]]
      BY <1>2, <1>4, <2>1, <2>2
    <2>4. s = [i \in 1 .. K |-> s[i]]
      BY <1>1
    <2> QED BY <2>3, <2>4
  <1> QED BY <1>1, <1>4, <1>5, <1>6 DEF K

LEMMA ArrayValue ==
  ASSUME NEW f \in Field, IsItems(f.dbs), IsItems(f.loc), f.dbs.size # 1,
         f.loc.type = f.dbs.type, f.loc.size = f.dbs.size, NEW s, NEW text, NEW x
  PROVE  /\ StoredValue(f, s, text) = StoreArray(f, s)
         /\ UnpackedValue(f, x, text) = UnpackArray(x[2])
  <1>1. /\ f.dbs.type \in Ints /\ f.loc.type \in Ints /\ f.dbs.n # 1 /\ f.loc.n # 1
        /\ f.dbs.size # 1 /\ f.loc.size # 1 /\ f.loc.type # "string"
    BY DEF IsItems, Ints
  <1>2. StoredValue(f, s, text) = StoredItems(f, s, text)
    BY <1>1 DEF StoredValue, Ints
  <1>3. StoredItems(f, s, text) = StoreArray(f, s)
    BY <1>1 DEF StoredItems
  <1>4. UnpackedValue(f, x, text) = UnpackArray(x[2])
    BY <1>1 DEF UnpackedValue, Ints
  <1> QED BY <1>2, <1>3, <1>4

\* An array of numbers, cut or padded to the length that the program declares.
LEMMA ArrayIsKept ==
  ASSUME NEW f \in Field, IsItems(f.dbs), IsItems(f.loc), f.dbs.size # 1,
         f.loc.type = f.dbs.type, f.loc.size = f.dbs.size,
         NEW v, IsValue(f, v), NEW text
  PROVE  /\ Kept(f, v, text) /\ StoredValue(f, v, text) # Null
         /\ f.dbs = f.loc => UnpackedValue(f, StoredValue(f, v, text), text) = v
  <1> DEFINE all == IF f.loc.n \in {0, Len(v)} THEN v ELSE Cut(v, f.loc.n)
             a == [i \in DOMAIN all |-> Signed(all[i])]
             x == <<"array", a>>
             c == Now(f)
  <1>1. /\ c \in Field /\ c.dbs = f.loc /\ c.loc = f.loc /\ c.binary = f.binary
        /\ f.loc.n \in Nat /\ f.dbs.n \in Nat
    BY NowProperties
  <1>2. f.dbs.type \in Ints /\ f.loc.type \in Ints /\ f.loc.type # "string"
    BY DEF IsItems, Ints
  <1>3. v \in Seq(Cell) /\ (f.dbs.n # 0 => Len(v) = f.dbs.n)
    BY <1>2 DEF IsValue, Cell, Ints
  <1>4. /\ all \in Seq(Cell) /\ (f.loc.n # 0 => Len(all) = f.loc.n)
        /\ (f.dbs = f.loc => all = v)
    <2>1. 0 \in Cell
      BY CellAssumption DEF Cell
    <2>2. Cut(v, f.loc.n) \in Seq(Cell) /\ Len(Cut(v, f.loc.n)) = f.loc.n
      BY <1>1, <1>3, <2>1, CutProperties
    <2> QED BY <1>1, <1>3, <2>2
  <1>5. StoreArray(f, v) = x
    BY DEF StoreArray
  <1> HIDE DEF all
  <1>6. DOMAIN a = DOMAIN all /\ Len(a) = Len(all) /\ UnpackArray(a) = all
    BY <1>4, SignsAreKept
  <1>7. StoreArray(c, all) = x
    BY <1>1, <1>4 DEF StoreArray
  <1> HIDE DEF a, c
  <1>8. x[2] = a /\ x # Null
    BY DEF Null
  <1>9. StoredValue(f, v, text) = x /\ UnpackedValue(f, x, text) = all
    BY <1>5, <1>6, <1>8, ArrayValue
  <1>10. StoredValue(c, all, text) = x
    BY <1>1, <1>7, ArrayValue
  <1>11. f.loc.n \in {0, Len(x[2])}
    BY <1>4, <1>6, <1>8
  <1>12. IsValue(c, all)
    BY <1>1, <1>2, <1>4 DEF IsValue, Cell, Ints
  <1> HIDE DEF x
  <1> QED BY <1>4, <1>8, <1>9, <1>10, <1>11, <1>12, Zenon DEF Kept, c

LEMMA CellsAreNumbers ==
  ASSUME NEW v \in Seq(Cell)
  PROVE  v \in Seq(Nat)
  <1>1. Cell \subseteq Nat
    BY CellAssumption DEF Cell
  <1> QED BY <1>1, SeqMonotonic

LEMMA CStringCells ==
  ASSUME NEW s \in Seq(Cell)
  PROVE  CString(s) \in Seq(Cell)
  <1> DEFINE c == CString(s)
  <1>1. s \in Seq(Nat) /\ Len(s) \in Nat /\ \A i \in 1 .. Len(s) : s[i] \in Cell
    BY CellsAreNumbers, LenProperties, ElementOfSeq
  <1>2. /\ c \in Seq(Nat) /\ Len(c) <= Len(s)
        /\ \A i \in 1 .. Len(c) : c[i] = s[i]
    BY <1>1, CStringProperties
  <1> HIDE DEF c
  <1>3. Len(c) \in Nat /\ c = [i \in 1 .. Len(c) |-> c[i]]
    BY <1>2, LenProperties
  <1>4. \A i \in 1 .. Len(c) : c[i] \in Cell
    <2> TAKE i \in 1 .. Len(c)
    <2>1. i \in 1 .. Len(s)
      BY <1>1, <1>2, <1>3
    <2> QED BY <1>1, <1>2, <2>1
  <1> DEFINE K == Len(c)
  <1>5. K \in Nat /\ \A i \in 1 .. K : c[i] \in Cell
    BY <1>3, <1>4
  <1> HIDE DEF K
  <1>6. [i \in 1 .. K |-> c[i]] \in Seq(Cell)
    BY <1>5, IsASeq
  <1>7. c \in Seq(Cell)
    BY <1>3, <1>6 DEF K
  <1> QED BY <1>7 DEF c

\* A part of bytes, of the length the program declares.
LEMMA BytesAreKept ==
  ASSUME NEW text \in BOOLEAN, NEW f, Proper(f, text), f.loc = f.dbs,
         f.dbs.type = "uint", f.dbs.n # 1, f.dbs.size = 1, NEW v, IsValue(f, v)
  PROVE  Kept(f, v, text) /\ UnpackedValue(f, StoredValue(f, v, text), text) = v
  <1> DEFINE x == <<"bytes", v>>
             c == Now(f)
  <1>1. /\ f \in Field /\ c.dbs = f.loc /\ c.loc = f.loc /\ c.binary = f.binary
        /\ f.loc.n \in Nat /\ f.loc.n # 1 /\ f.loc.type = "uint" /\ f.loc.size = 1
    BY NowProperties DEF Proper
  <1>2. v \in Seq(Cell) /\ (f.loc.n # 0 => Len(v) = f.loc.n)
    BY DEF IsValue, Cell, Ints
  <1>3. StoredValue(f, v, text) = x /\ StoredValue(c, v, text) = x
    <2> HIDE DEF c
    <2>1. StoredItems(f, v, text) = x /\ StoredItems(c, v, text) = x
      BY <1>1 DEF StoredItems
    <2> HIDE DEF x
    <2> QED BY <1>1, <2>1 DEF StoredValue, Ints
  <1>4. UnpackChars(f, v, text) = v
    <2>1. 0 \in Cell
      BY CellAssumption DEF Cell
    <2>2. f.loc.n # 0 => Cut(v, f.loc.n) = v
      BY <1>1, <1>2, <2>1, CutProperties
    <2>3. f.loc.n = 0 => ~text
      BY <1>1 DEF Proper
    <2> QED BY <2>2, <2>3 DEF UnpackChars
  <1> HIDE DEF c
  <1>5. x[2] = v /\ x # Null
    BY DEF Null
  <1>6. UnpackedValue(f, x, text) = v
    <2> HIDE DEF x
    <2> QED BY <1>1, <1>4, <1>5 DEF UnpackedValue, Ints
  <1>7. IsValue(c, v)
    BY <1>1, <1>2 DEF IsValue, Cell, Ints
  <1>8. ~IsArray(f)
    BY <1>1 DEF IsArray
  <1> HIDE DEF x
  <1> QED BY <1>3, <1>6, <1>7, <1>8, Zenon DEF Kept, c

LEMMA StoredByItems ==
  ASSUME NEW f, f.dbs.type \in Ints, f.dbs.n # 1, NEW s, NEW text
  PROVE  StoredValue(f, s, text) = StoredItems(f, s, text)
  BY DEF StoredValue, Ints

LEMMA UnpackedByChars ==
  ASSUME NEW f, f.loc.type \in Ints, f.loc.n # 1, f.loc.size = 1, NEW x, x # Null, NEW text
  PROVE  UnpackedValue(f, x, text) = UnpackChars(f, x[2], text)
  BY DEF UnpackedValue, Ints

\* The key of a text set_member, which gets back the zero that ends it.
LEMMA KeyIsKept ==
  ASSUME NEW text \in BOOLEAN, text, NEW f \in Field, f.loc = f.dbs, f.binary,
         f.dbs.type = "int", f.dbs.n = 0, f.dbs.size = 1, NEW v, IsValue(f, v)
  PROVE  /\ Kept(f, v, text)
         /\ v # <<>> /\ CString(v) = Front(v) =>
              UnpackedValue(f, StoredValue(f, v, text), text) = v
  <1> DEFINE s == CString(v)
             x == <<"bytes", s>>
             w == Append(s, 0)
             c == Now(f)
  <1>1. /\ c.dbs = f.loc /\ c.loc = f.loc /\ c.binary = f.binary
        /\ f.loc.n = 0 /\ f.loc.type = "int" /\ f.loc.size = 1
    BY NowProperties
  <1>0. f.dbs.n # 1 /\ f.loc.n # 1 /\ c.dbs.n # 1 /\ f.dbs.type \in Ints /\ c.dbs.type \in Ints
    <2> HIDE DEF c
    <2> QED BY <1>1 DEF Ints
  <1>2. v \in Seq(Cell) /\ v \in Seq(Nat)
    <2>1. v \in Seq(Cell)
      BY DEF IsValue, Cell, Ints
    <2> QED BY <2>1, CellsAreNumbers
  <1>3. /\ s \in Seq(Cell) /\ s \in Seq(Nat) /\ Len(s) \in Nat /\ Len(v) \in Nat /\ Len(s) <= Len(v)
        /\ \A i \in 1 .. Len(s) : s[i] = v[i] /\ s[i] # 0
    BY <1>2, CStringProperties, CStringCells, LenProperties
  <1>4. StoredValue(f, v, text) = x
    <2>1. StoreChars(f, v, text) = x
      BY DEF StoreChars
    <2> HIDE DEF x
    <2>2. StoredItems(f, v, text) = StoreChars(f, v, text)
      BY DEF StoredItems
    <2>3. StoredValue(f, v, text) = StoredItems(f, v, text)
      BY <1>0, StoredByItems
    <2> QED BY <2>1, <2>2, <2>3
  <1> HIDE DEF s, c
  <1>5. x[2] = s /\ x # Null
    BY DEF Null
  <1>6. UnpackedValue(f, x, text) = w
    <2>1. UnpackChars(f, s, text) = w
      BY <1>1 DEF UnpackChars
    <2> HIDE DEF x, w
    <2>2. UnpackedValue(f, x, text) = UnpackChars(f, x[2], text)
      BY <1>0, <1>1, <1>5, UnpackedByChars
    <2> QED BY <1>5, <2>1, <2>2
  <1>7. /\ w \in Seq(Cell) /\ w \in Seq(Nat) /\ Len(w) = Len(s) + 1 /\ w[Len(s) + 1] = 0
        /\ \A i \in 1 .. Len(s) : w[i] = s[i]
    <2>1. 0 \in Cell
      BY CellAssumption DEF Cell
    <2> QED BY <1>3, <2>1, AppendProperties
  <1> HIDE DEF w
  <1>8. CString(w) = s
    <2>1. Len(s) <= Len(w)
      BY <1>3, <1>7
    <2> QED BY <1>3, <1>7, <2>1, CStringIs
  <1>9. StoredValue(c, w, text) = x
    <2>1. StoreChars(c, w, text) = x
      BY <1>1, <1>8 DEF StoreChars
    <2> HIDE DEF x
    <2>2. StoredItems(c, w, text) = StoreChars(c, w, text)
      BY <1>1 DEF StoredItems
    <2>3. StoredValue(c, w, text) = StoredItems(c, w, text)
      BY <1>0, StoredByItems
    <2> QED BY <2>1, <2>2, <2>3
  <1>10. IsValue(c, w)
    BY <1>1, <1>7 DEF IsValue, Cell, Ints
  <1>11. ~IsArray(f)
    BY <1>1 DEF IsArray
  <1>12. ASSUME v # <<>>, s = Front(v) PROVE w = v
    <2>1. Front(v) = SubSeq(v, 1, Len(v) - 1)
      BY DEF Front
    <2>2. Len(v) # 0
      BY <1>2, <1>12, EmptySeq
    <2>3. Len(s) = Len(v) - 1
      <3>1. 0 \in 0 .. Len(v) /\ Len(v) - 1 \in 0 .. Len(v) /\ (Len(v) - 1) - 0 = Len(v) - 1 /\ 0 + 1 = 1
        BY <1>3, <2>2
      <3>2. Len(SubSeq(v, 0 + 1, Len(v) - 1)) = (Len(v) - 1) - 0
        BY <1>2, <3>1, PartOf
      <3> QED BY <1>12, <2>1, <3>1, <3>2
    <2>4. v[Len(s) + 1] = 0
      <3>1. Len(CString(v)) = Len(v) \/ v[Len(CString(v)) + 1] = 0
        BY <1>2, CStringProperties
      <3>2. Len(s) # Len(v)
        BY <1>3, <2>3
      <3> QED BY <3>1, <3>2 DEF s
    <2>5. \A i \in 1 .. Len(v) : w[i] = v[i]
      <3> TAKE i \in 1 .. Len(v)
      <3>1. i \in 1 .. Len(s) \/ i = Len(s) + 1
        BY <1>3, <2>3
      <3> QED BY <1>3, <1>7, <2>4, <3>1
    <2>6. Len(w) = Len(v)
      BY <1>3, <1>7, <2>3
    <2> QED BY <1>2, <1>7, <2>5, <2>6, SeqEqual
  <1> HIDE DEF x
  <1>13. Kept(f, v, text)
    BY <1>4, <1>6, <1>9, <1>10, <1>11, Zenon DEF Kept, c
  <1>14. v # <<>> /\ CString(v) = Front(v) => UnpackedValue(f, StoredValue(f, v, text), text) = v
    BY <1>4, <1>6, <1>12 DEF s
  <1> QED BY <1>13, <1>14

\* Text survives in an array of characters that it fits.
LEMMA CutText ==
  ASSUME NEW s \in Seq(Cell), NEW n \in Nat, Len(s) <= n,
         \A i \in 1 .. Len(s) : s[i] # 0
  PROVE  CString(Cut(s, n)) = s
  <1> DEFINE w == Cut(s, n)
  <1>1. 0 \in Cell /\ Len(s) \in Nat /\ s \in Seq(Nat)
    BY CellAssumption, LenProperties, CellsAreNumbers DEF Cell
  <1>2. /\ w \in Seq(Cell) /\ Len(w) = n
        /\ \A i \in 1 .. n : w[i] = IF i <= Len(s) THEN s[i] ELSE 0
    BY <1>1, CutProperties
  <1>3. w \in Seq(Nat)
    BY <1>2, CellsAreNumbers
  <1> HIDE DEF w
  <1>4. \A i \in 1 .. Len(s) : w[i] = s[i] /\ s[i] # 0
    <2> TAKE i \in 1 .. Len(s)
    <2>1. i \in 1 .. n /\ i <= Len(s)
      BY <1>1
    <2> QED BY <1>2, <2>1
  <1>5. Len(s) = Len(w) \/ w[Len(s) + 1] = 0
    <2>1. CASE Len(s) # n
      <3>1. Len(s) + 1 \in 1 .. n /\ ~(Len(s) + 1 <= Len(s))
        BY <1>1, <2>1
      <3> QED BY <1>2, <3>1
    <2> QED BY <1>2, <2>1
  <1>6. CString(w) = s
    <2>1. Len(s) <= Len(w)
      BY <1>2
    <2> QED BY <1>1, <1>3, <1>4, <1>5, <2>1, CStringIs
  <1> QED BY <1>6 DEF w

\* A part of chars which is not the key of a text set_member.
LEMMA CharsAreKept ==
  ASSUME NEW text \in BOOLEAN, NEW f \in Field, f.loc = f.dbs, f.dbs.type = "int", f.dbs.n # 1,
         f.dbs.size = 1, f.dbs.n = 0 => ~text, NEW v, IsValue(f, v)
  PROVE  /\ Kept(f, v, text)
         /\ f.binary \/ CString(v) = v => UnpackedValue(f, StoredValue(f, v, text), text) = v
  <1> DEFINE s == IF f.binary THEN v ELSE CString(v)
             x == IF f.binary THEN <<"bytes", s>> ELSE <<"text", s>>
             w == IF f.loc.n # 0 THEN Cut(s, f.loc.n) ELSE s
             c == Now(f)
  <1>1. /\ c.dbs = f.loc /\ c.loc = f.loc /\ c.binary = f.binary
        /\ f.loc.n \in Nat /\ f.loc.n # 1 /\ f.loc.type = "int" /\ f.loc.size = 1
        /\ f.dbs.n # 1 /\ c.dbs.n # 1 /\ f.dbs.type \in Ints /\ c.dbs.type \in Ints
        /\ f.loc.type \in Ints /\ f.binary \in BOOLEAN
    <2>1. c.dbs = f.loc /\ c.loc = f.loc /\ c.binary = f.binary /\ f.loc.n \in Nat /\ f.binary \in BOOLEAN
      BY NowProperties
    <2> HIDE DEF c
    <2> QED BY <2>1 DEF Ints
  <1>2. v \in Seq(Cell) /\ v \in Seq(Nat) /\ (f.loc.n # 0 => Len(v) = f.loc.n)
    <2>1. v \in Seq(Cell) /\ (f.loc.n # 0 => Len(v) = f.loc.n)
      BY DEF IsValue, Cell, Ints
    <2> QED BY <2>1, CellsAreNumbers
  <1>3. 0 \in Cell
    BY CellAssumption DEF Cell
  <1>4. /\ s \in Seq(Cell) /\ (f.loc.n # 0 => Len(s) <= f.loc.n)
        /\ ~f.binary => CString(s) = s /\ \A i \in 1 .. Len(s) : s[i] # 0
        /\ f.binary => s = v
    <2>1. CASE f.binary
      <3>1. f.loc.n # 0 => Len(v) <= f.loc.n
        BY <1>1, <1>2
      <3> QED BY <1>2, <2>1, <3>1
    <2>2. CASE ~f.binary
      <3> DEFINE t == CString(v)
      <3>1. /\ t \in Seq(Cell) /\ Len(t) <= Len(v) /\ CString(t) = t
            /\ \A i \in 1 .. Len(t) : t[i] # 0
        BY <1>2, CStringProperties, CStringCells
      <3>2. s = t
        BY <2>2
      <3> HIDE DEF s, t
      <3> QED BY <1>2, <2>2, <3>1, <3>2
    <2> QED BY <2>1, <2>2
  <1>5. f.dbs.n = 0 => ~text
    OBVIOUS
  <1>6. StoredValue(f, v, text) = x
    <2>1. StoreChars(f, v, text) = x
      BY <1>1 DEF StoreChars
    <2>2. StoredItems(f, v, text) = StoreChars(f, v, text)
      BY DEF StoredItems
    <2>3. StoredValue(f, v, text) = StoredItems(f, v, text)
      BY <1>1, StoredByItems
    <2> HIDE DEF x
    <2> QED BY <2>1, <2>2, <2>3
  <1>7. f.loc.n = 0 => ~text
    BY <1>5
  <1> HIDE DEF s, c
  <1>8. x[2] = s /\ x # Null
    BY <1>1 DEF Null
  <1>9. UnpackedValue(f, x, text) = w
    <2>1. UnpackChars(f, s, text) = w
      BY <1>7 DEF UnpackChars
    <2> HIDE DEF x, w
    <2>2. UnpackedValue(f, x, text) = UnpackChars(f, x[2], text)
      BY <1>1, <1>8, UnpackedByChars
    <2> QED BY <1>8, <2>1, <2>2
  <1>10. /\ w \in Seq(Cell) /\ (f.loc.n # 0 => Len(w) = f.loc.n)
         /\ f.binary => w = v
         /\ ~f.binary => CString(w) = s
    <2>1. CASE f.loc.n # 0
      <3>1. /\ Cut(s, f.loc.n) \in Seq(Cell) /\ Len(Cut(s, f.loc.n)) = f.loc.n
            /\ Len(s) = f.loc.n => Cut(s, f.loc.n) = s
        BY <1>1, <1>3, <1>4, CutProperties
      <3>2. w = Cut(s, f.loc.n)
        BY <2>1
      <3>3. ~f.binary => CString(Cut(s, f.loc.n)) = s
        BY <1>1, <1>4, <2>1, CutText
      <3>4. f.binary => Len(s) = f.loc.n
        BY <1>2, <1>4, <2>1
      <3> HIDE DEF w
      <3> QED BY <1>4, <3>1, <3>2, <3>3, <3>4
    <2>2. CASE f.loc.n = 0
      <3>1. w = s
        BY <2>2
      <3> HIDE DEF w
      <3> QED BY <1>4, <2>2, <3>1
    <2> QED BY <2>1, <2>2
  <1> HIDE DEF w
  <1>11. StoredValue(c, w, text) = x
    <2>1. StoreChars(c, w, text) = x
      BY <1>1, <1>4, <1>7, <1>10 DEF StoreChars
    <2> HIDE DEF x
    <2>2. StoredItems(c, w, text) = StoreChars(c, w, text)
      BY <1>1 DEF StoredItems
    <2>3. StoredValue(c, w, text) = StoredItems(c, w, text)
      BY <1>1, StoredByItems
    <2> QED BY <2>1, <2>2, <2>3
  <1>12. IsValue(c, w)
    BY <1>1, <1>10 DEF IsValue, Cell, Ints
  <1>13. ~IsArray(f)
    BY <1>1 DEF IsArray
  <1> HIDE DEF x
  <1>14. Kept(f, v, text)
    BY <1>6, <1>9, <1>11, <1>12, <1>13, Zenon DEF Kept, c
  <1>15. ASSUME f.binary \/ CString(v) = v PROVE w = v
    <2>1. CASE f.binary
      BY <1>10, <2>1
    <2>2. CASE ~f.binary
      <3>1. s = v
        BY <1>15, <2>2 DEF s
      <3>2. f.loc.n # 0 => Cut(s, f.loc.n) = s
        BY <1>1, <1>2, <1>3, <3>1, CutProperties
      <3> QED BY <3>1, <3>2 DEF w
    <2> QED BY <2>1, <2>2
  <1> QED BY <1>6, <1>9, <1>14, <1>15, Zenon

LEMMA Single ==
  ASSUME NEW v \in Seq(Nat), Len(v) = 1
  PROVE  <<v[1]>> = v
  <1>1. v[1] \in Nat
    <2>1. 1 \in 1 .. Len(v)
      OBVIOUS
    <2> QED BY <2>1, ElementOfSeq
  <1>2. PICK x \in Nat : x = v[1]
    BY <1>1
  <1>3. <<x>> \in Seq(Nat) /\ Len(<<x>>) = 1 /\ <<x>>[1] = x
    OBVIOUS
  <1>4. \A i \in 1 .. 1 : <<x>>[i] = v[i]
    BY <1>2
  <1>5. <<x>> = v
    BY <1>3, <1>4, SeqEqual
  <1> QED BY <1>2, <1>5

LEMMA StoredScalar ==
  ASSUME NEW f, f.dbs.n = 1, NEW s, NEW text
  PROVE  /\ f.dbs.type = "ref" => StoredValue(f, s, text) = <<"ref", s>>
         /\ f.dbs.type = "string" =>
              StoredValue(f, s, text) = IF s[1] = NullLen THEN Null ELSE UnpackString(Tail(s))
         /\ f.dbs.type = "raw" => StoredValue(f, s, text) = <<"bytes", Tail(s)>>
         /\ f.dbs.type = "real" => StoredValue(f, s, text) = <<"real", s[1]>>
         /\ f.dbs.type \in Ints => StoredValue(f, s, text) = <<"int", Signed(s[1])>>
  BY DEF StoredValue, Ints

LEMMA UnpackedScalar ==
  ASSUME NEW f, NEW x, x # Null, NEW text
  PROVE  /\ f.loc.type = "ref" => UnpackedValue(f, x, text) = x[2]
         /\ f.loc.type = "string" => UnpackedValue(f, x, text) = PackString(x[2])
         /\ f.loc.type = "raw" => UnpackedValue(f, x, text) = PackString(x[2])
         /\ f.loc.type = "real" => UnpackedValue(f, x, text) = <<x[2]>>
         /\ f.loc.type \in Ints /\ f.loc.n = 1 => UnpackedValue(f, x, text) = <<Unsigned(x[2])>>
  BY DEF UnpackedValue, Ints

LEMMA ValueArms ==
  ASSUME NEW f, NEW v
  PROVE  /\ f.dbs.type = "ref" => (IsValue(f, v) <=> v \in Nat)
         /\ f.dbs.type = "string" =>
              (IsValue(f, v) <=> /\ v \in Seq(Nat) /\ v # <<>>
                                 /\ v = <<NullLen>> \/ (v[1] = Len(v) - 1 /\ v[1] < NullLen))
         /\ f.dbs.type = "raw" => (IsValue(f, v) <=> v \in Seq(Nat) /\ v # <<>> /\ v[1] = Len(v) - 1)
         /\ f.dbs.type = "real" => (IsValue(f, v) <=> v \in Seq(Nat) /\ Len(v) = 1)
         /\ f.dbs.type \in Ints =>
              (IsValue(f, v) <=> /\ v \in Seq(Cell)
                                 /\ f.dbs.n # 0 => Len(v) = f.dbs.n
                                 /\ f.loc.type = "string" => Len(v) < NullLen)
  BY DEF IsValue, Ints, Cell

\* A reference, a number or a number of floating point.
LEMMA NumberIsKept ==
  ASSUME NEW f \in Field, f.loc = f.dbs, f.dbs.n = 1,
         f.dbs.type \in Ints \cup {"ref", "real"}, NEW v, IsValue(f, v), NEW text
  PROVE  Kept(f, v, text) /\ UnpackedValue(f, StoredValue(f, v, text), text) = v
  <1> DEFINE c == Now(f)
             x == IF f.dbs.type = "ref" THEN <<"ref", v>>
                  ELSE IF f.dbs.type = "real" THEN <<"real", v[1]>>
                  ELSE <<"int", Signed(v[1])>>
  <1>1. /\ c.dbs = f.loc /\ c.loc = f.loc /\ c.dbs.n = 1 /\ c.dbs.type = f.dbs.type
        /\ c.loc.n = 1 /\ c.loc.type = f.dbs.type
    BY NowProperties
  <1> HIDE DEF c
  <1>2. StoredValue(f, v, text) = x /\ StoredValue(c, v, text) = x
    <2>1. \A y : y # Null => TRUE
      OBVIOUS
    <2>2. x # Null
      BY DEF Null
    <2>3. CASE f.dbs.type = "ref"
      BY <1>1, <2>2, <2>3, StoredScalar
    <2>4. CASE f.dbs.type = "real"
      BY <1>1, <2>2, <2>4, StoredScalar
    <2>5. CASE f.dbs.type \in Ints
      BY <1>1, <2>2, <2>5, StoredScalar DEF Ints
    <2> QED BY <2>3, <2>4, <2>5
  <1>3. x # Null
    BY DEF Null
  <1>4. UnpackedValue(f, x, text) = v /\ IsValue(c, v)
    <2>1. CASE f.dbs.type = "ref"
      <3>1. x[2] = v
        BY <2>1
      <3>2. UnpackedValue(f, x, text) = x[2]
        BY <1>3, <2>1, UnpackedScalar
      <3>3. IsValue(c, v)
        BY <1>1, <2>1, ValueArms
      <3> QED BY <3>1, <3>2, <3>3
    <2>2. CASE f.dbs.type = "real"
      <3>1. x[2] = v[1]
        BY <2>2
      <3>2. UnpackedValue(f, x, text) = <<x[2]>>
        BY <1>3, <2>2, UnpackedScalar
      <3>3. v \in Seq(Nat) /\ Len(v) = 1
        BY <2>2, ValueArms
      <3>4. <<v[1]>> = v
        BY <3>3, Single
      <3>5. IsValue(c, v)
        BY <1>1, <2>2, <3>3, ValueArms
      <3> QED BY <3>1, <3>2, <3>4, <3>5
    <2>3. CASE f.dbs.type \in Ints
      <3>1. x[2] = Signed(v[1])
        BY <2>3 DEF Ints
      <3>2. UnpackedValue(f, x, text) = <<Unsigned(x[2])>>
        BY <1>3, <2>3, UnpackedScalar
      <3>3. v \in Seq(Cell) /\ Len(v) = 1
        <4>1. f.dbs.n # 0
          OBVIOUS
        <4>2. /\ v \in Seq(Cell)
              /\ f.dbs.n # 0 => Len(v) = f.dbs.n
          BY <2>3, ValueArms
        <4> QED BY <4>1, <4>2
      <3>4. v[1] \in Cell /\ v \in Seq(Nat)
        <4>1. 1 \in 1 .. Len(v)
          BY <3>3
        <4> QED BY <3>3, <4>1, ElementOfSeq, CellsAreNumbers
      <3>5. Unsigned(Signed(v[1])) = v[1]
        BY <3>4, SignIsKept
      <3>6. <<v[1]>> = v
        BY <3>3, <3>4, Single
      <3>7. IsValue(c, v)
        BY <1>1, <2>3, <3>3, ValueArms
      <3> QED BY <3>1, <3>2, <3>5, <3>6, <3>7
    <2> QED BY <2>1, <2>2, <2>3
  <1>5. ~IsArray(f)
    BY <1>1 DEF IsArray, IsItems
  <1> HIDE DEF x
  <1> QED BY <1>2, <1>4, <1>5, Zenon DEF Kept, c

\* Text, which a null string or a string of some characters holds, or wide characters
\* of an array that the program declares as a string.
LEMMA StringIsKept ==
  ASSUME NEW f \in Field, f.loc.type = "string", f.loc.n = 1,
         \/ f.loc = f.dbs
         \/ IsItems(f.dbs) /\ f.dbs.type = "uint" /\ f.dbs.size = 2,
         NEW v, IsValue(f, v), NEW text, StoredValue(f, v, text) # NoText
  PROVE  /\ Kept(f, v, text)
         /\ f.loc = f.dbs /\ (v[1] # NullLen => CString(Tail(v)) = Tail(v)) =>
              UnpackedValue(f, StoredValue(f, v, text), text) = v
  <1> DEFINE c == Now(f)
  <1>1. c.dbs = f.loc /\ c.loc = f.loc /\ c.dbs.n = 1 /\ c.dbs.type = "string"
    BY NowProperties
  <1>2. ~IsArray(f)
    BY DEF IsArray, IsItems, Ints
  <1> HIDE DEF c
  <1>3. ASSUME NEW s \in Seq(Nat), Len(s) < NullLen, StoredValue(f, v, text) = UnpackString(s)
        PROVE  Kept(f, v, text) /\ UnpackedValue(f, StoredValue(f, v, text), text) = PackString(CString(s))
    <2> DEFINE x == UnpackString(s)
               w == PackString(CString(s))
    <2>1. /\ x = <<"text", CString(s)>>
          /\ w \in Seq(Nat) /\ w # <<>> /\ w[1] = Len(w) - 1 /\ w[1] < NullLen
          /\ UnpackString(Tail(w)) = x
      <3>1. UnpackString(s) # NoText
        BY <1>3
      <3> QED BY <1>3, <3>1, TextIsKept
    <2>2. x[2] = CString(s) /\ x # Null
      BY <2>1 DEF Null
    <2> HIDE DEF x
    <2>3. UnpackedValue(f, x, text) = PackString(x[2])
      BY <2>2, UnpackedScalar
    <2>4. UnpackedValue(f, x, text) = w
      BY <2>2, <2>3
    <2> HIDE DEF w
    <2>5. IsValue(c, w)
      BY <1>1, <2>1, ValueArms
    <2>6. w[1] # NullLen
      BY <2>1, CellAssumption
    <2>7. StoredValue(c, w, text) = x
      BY <1>1, <2>1, <2>2, <2>6, StoredScalar
    <2>8. StoredValue(f, v, text) = x
      BY <1>3 DEF x
    <2> QED BY <1>2, <2>4, <2>5, <2>7, <2>8, Zenon DEF Kept, c, w
  <1>4. CASE f.loc = f.dbs
    <2>1. v \in Seq(Nat) /\ v # <<>> /\ (v = <<NullLen>> \/ (v[1] = Len(v) - 1 /\ v[1] < NullLen))
      BY <1>4, ValueArms
    <2>2. f.dbs.n = 1 /\ f.dbs.type = "string"
      BY <1>4
    <2>3. CASE v[1] = NullLen
      <3>1. v = <<NullLen>>
        BY <2>1, <2>3, CellAssumption
      <3>2. UnpackedValue(f, Null, text) = <<NullLen>>
        BY DEF UnpackedValue, Ints
      <3>3. StoredValue(f, v, text) = Null
        BY <2>2, <2>3, StoredScalar
      <3>4. StoredValue(c, v, text) = Null
        BY <1>1, <2>3, StoredScalar
      <3>5. IsValue(c, v)
        BY <1>1, <2>1, <3>1, ValueArms
      <3>6. UnpackedValue(f, StoredValue(f, v, text), text) = v
        BY <3>1, <3>2, <3>3
      <3> QED BY <1>2, <3>3, <3>4, <3>5, <3>6, Zenon DEF Kept, c
    <2>4. CASE v[1] # NullLen
      <3>1. v[1] = Len(v) - 1 /\ v[1] < NullLen
        BY <2>1, <2>4
      <3> DEFINE t == Tail(v)
      <3>2. t \in Seq(Nat) /\ Len(t) = v[1] /\ PackString(t) = v
        BY <2>1, <3>1, Unpacking
      <3>3. StoredValue(f, v, text) = UnpackString(t)
        BY <2>2, <2>4, StoredScalar
      <3>4. Kept(f, v, text) /\ UnpackedValue(f, StoredValue(f, v, text), text) = PackString(CString(t))
        <4> HIDE DEF t
        <4>1. Len(t) < NullLen
          BY <3>1, <3>2
        <4> QED BY <1>3, <3>2, <3>3, <4>1
      <3>5. CString(t) = t => UnpackedValue(f, StoredValue(f, v, text), text) = v
        BY <3>2, <3>4, Zenon
      <3> QED BY <2>4, <3>4, <3>5, Zenon
    <2> QED BY <2>3, <2>4
  <1>5. CASE f.loc # f.dbs
    <2>1. IsItems(f.dbs) /\ f.dbs.type = "uint" /\ f.dbs.size = 2 /\ f.dbs.n # 1 /\ f.dbs.type \in Ints
      BY <1>5 DEF IsItems
    <2>2. v \in Seq(Cell) /\ Len(v) < NullLen
      BY <2>1, ValueArms
    <2>3. StoredItems(f, v, text) = UnpackString(v)
      BY <2>1 DEF StoredItems
    <2>4. StoredValue(f, v, text) = UnpackString(v)
      BY <2>1, <2>3, StoredByItems
    <2> QED BY <1>3, <1>5, <2>2, <2>4, CellsAreNumbers
  <1> QED BY <1>4, <1>5

\* Raw binary, or bytes of an array that the program declares as raw binary.
LEMMA RawIsKept ==
  ASSUME NEW text \in BOOLEAN, NEW f \in Field, f.loc.type = "raw", f.loc.n = 1,
         \/ f.loc = f.dbs
         \/ IsItems(f.dbs) /\ f.dbs.type = "int" /\ f.dbs.size = 1 /\ (f.dbs.n = 0 => ~text),
         NEW v, IsValue(f, v)
  PROVE  /\ Kept(f, v, text)
         /\ f.loc = f.dbs => UnpackedValue(f, StoredValue(f, v, text), text) = v
  <1> DEFINE c == Now(f)
  <1>1. c.dbs = f.loc /\ c.loc = f.loc /\ c.dbs.n = 1 /\ c.dbs.type = "raw"
    BY NowProperties
  <1>2. ~IsArray(f)
    BY DEF IsArray, IsItems, Ints
  <1> HIDE DEF c
  <1>3. ASSUME NEW s \in Seq(Nat), StoredValue(f, v, text) = <<"bytes", s>>
        PROVE  Kept(f, v, text) /\ UnpackedValue(f, StoredValue(f, v, text), text) = PackString(s)
    <2> DEFINE x == <<"bytes", s>>
               w == PackString(s)
    <2>1. x[2] = s /\ x # Null
      BY DEF Null
    <2>2. w \in Seq(Nat) /\ w # <<>> /\ Len(w) = Len(s) + 1 /\ w[1] = Len(s) /\ Tail(w) = s
      BY Packing
    <2>3. StoredValue(f, v, text) = x
      BY <1>3
    <2>4. UnpackedValue(f, x, text) = w
      <3> HIDE DEF x
      <3>1. UnpackedValue(f, x, text) = PackString(x[2])
        BY <2>1, UnpackedScalar
      <3> QED BY <2>1, <3>1
    <2>5. StoredValue(c, w, text) = x
      <3> HIDE DEF w
      <3>1. StoredValue(c, w, text) = <<"bytes", Tail(w)>>
        BY <1>1, <2>1, StoredScalar
      <3> QED BY <2>2, <3>1
    <2> HIDE DEF x, w
    <2>6. w[1] = Len(w) - 1
      BY <2>2, LenProperties
    <2>7. IsValue(c, w)
      BY <1>1, <2>2, <2>6, ValueArms
    <2> QED BY <1>2, <2>3, <2>4, <2>5, <2>7, Zenon DEF Kept, c, w
  <1>4. CASE f.loc = f.dbs
    <2>1. v \in Seq(Nat) /\ v # <<>> /\ v[1] = Len(v) - 1
      BY <1>4, ValueArms
    <2>2. Tail(v) \in Seq(Nat) /\ PackString(Tail(v)) = v
      BY <2>1, Unpacking
    <2>3. StoredValue(f, v, text) = <<"bytes", Tail(v)>>
      BY <1>4, StoredScalar
    <2> QED BY <1>3, <2>2, <2>3
  <1>5. CASE f.loc # f.dbs
    <2>1. IsItems(f.dbs) /\ f.dbs.type = "int" /\ f.dbs.size = 1 /\ f.dbs.n # 1 /\ f.dbs.type \in Ints
      BY <1>5 DEF IsItems
    <2>2. v \in Seq(Cell) /\ v \in Seq(Nat)
      <3>1. v \in Seq(Cell)
        BY <2>1, ValueArms
      <3> QED BY <3>1, CellsAreNumbers
    <2>3. f.dbs.n = 0 => ~text
      BY <1>5
    <2>4. StoreChars(f, v, text) = <<"bytes", v>>
      BY <2>3 DEF StoreChars
    <2>5. StoredItems(f, v, text) = <<"bytes", v>>
      BY <2>1, <2>4 DEF StoredItems
    <2>6. StoredValue(f, v, text) = <<"bytes", v>>
      BY <2>1, <2>5, StoredByItems
    <2> QED BY <1>3, <1>5, <2>2, <2>6
  <1> QED BY <1>4, <1>5

\* The kinds of fields that the program reads.
LEMMA FieldKinds ==
  ASSUME NEW text \in BOOLEAN, NEW f, Proper(f, text)
  PROVE  \/ f.loc = f.dbs /\ f.dbs.n = 1 /\ f.dbs.type \in Ints \cup {"ref", "real"}
         \/ /\ f.loc.type = "string" /\ f.loc.n = 1
            /\ f.loc = f.dbs \/ (IsItems(f.dbs) /\ f.dbs.type = "uint" /\ f.dbs.size = 2)
         \/ /\ f.loc.type = "raw" /\ f.loc.n = 1
            /\ \/ f.loc = f.dbs
               \/ IsItems(f.dbs) /\ f.dbs.type = "int" /\ f.dbs.size = 1 /\ (f.dbs.n = 0 => ~text)
         \/ /\ IsItems(f.dbs) /\ IsItems(f.loc) /\ f.dbs.size # 1
            /\ f.loc.type = f.dbs.type /\ f.loc.size = f.dbs.size
         \/ f.loc = f.dbs /\ f.dbs.type = "uint" /\ f.dbs.n # 1 /\ f.dbs.size = 1
         \/ f.loc = f.dbs /\ f.dbs.type = "int" /\ f.dbs.n # 1 /\ f.dbs.size = 1
  <1>1. /\ f \in Field /\ f.dbs.type \in Types /\ f.dbs.n \in Nat
        /\ f.dbs.type \notin Ints => f.dbs.n = 1
    BY NowProperties DEF Proper
  <1>2. CASE f.loc = f.dbs
    <2>1. CASE f.dbs.type \in Ints /\ f.dbs.n # 1
      BY <1>2, <2>1 DEF IsItems, Ints
    <2>2. CASE f.dbs.type \notin Ints \/ f.dbs.n = 1
      BY <1>1, <1>2, <2>2 DEF Types, Ints
    <2> QED BY <2>1, <2>2
  <1>3. CASE f.loc # f.dbs
    <2>1. \/ /\ IsItems(f.dbs) /\ IsItems(f.loc) /\ f.dbs.size # 1
             /\ f.loc.type = f.dbs.type /\ f.loc.size = f.dbs.size
          \/ IsItems(f.dbs) /\ f.dbs.type = "uint" /\ f.dbs.size = 2 /\ f.loc.type = "string" /\ f.loc.n = 1
          \/ IsItems(f.dbs) /\ f.dbs.type = "int" /\ f.dbs.size = 1 /\ f.loc.type = "raw" /\ f.loc.n = 1
      BY <1>3, Zenon DEF Proper, Fits
    <2>2. f.dbs.n = 0 => ~text
      BY <1>3 DEF Proper
    <2> QED BY <2>1, <2>2
  <1> QED BY <1>2, <1>3

LEMMA FieldIsKept ==
  ASSUME NEW text \in BOOLEAN, NEW f, Proper(f, text), NEW v, IsValue(f, v),
         StoredValue(f, v, text) # NoText
  PROVE  Kept(f, v, text)
  <1>1. f \in Field
    BY DEF Proper
  <1>2. CASE f.loc = f.dbs /\ f.dbs.n = 1 /\ f.dbs.type \in Ints \cup {"ref", "real"}
    BY <1>1, <1>2, NumberIsKept
  <1>3. CASE /\ f.loc.type = "string" /\ f.loc.n = 1
             /\ f.loc = f.dbs \/ (IsItems(f.dbs) /\ f.dbs.type = "uint" /\ f.dbs.size = 2)
    BY <1>1, <1>3, StringIsKept
  <1>4. CASE /\ f.loc.type = "raw" /\ f.loc.n = 1
             /\ \/ f.loc = f.dbs
                \/ IsItems(f.dbs) /\ f.dbs.type = "int" /\ f.dbs.size = 1 /\ (f.dbs.n = 0 => ~text)
    BY <1>1, <1>4, RawIsKept
  <1>5. CASE /\ IsItems(f.dbs) /\ IsItems(f.loc) /\ f.dbs.size # 1
             /\ f.loc.type = f.dbs.type /\ f.loc.size = f.dbs.size
    BY <1>1, <1>5, ArrayIsKept
  <1>6. CASE f.loc = f.dbs /\ f.dbs.type = "uint" /\ f.dbs.n # 1 /\ f.dbs.size = 1
    BY <1>6, BytesAreKept
  <1>7. CASE f.loc = f.dbs /\ f.dbs.type = "int" /\ f.dbs.n # 1 /\ f.dbs.size = 1
    <2>1. CASE f.dbs.n = 0 /\ text
      <3>1. f.binary
        BY <2>1 DEF Proper
      <3> QED BY <1>1, <1>7, <2>1, <3>1, KeyIsKept
    <2>2. CASE f.dbs.n = 0 => ~text
      BY <1>1, <1>7, <2>2, CharsAreKept
    <2> QED BY <2>1, <2>2
  <1> QED BY <1>2, <1>3, <1>4, <1>5, <1>6, <1>7, FieldKinds

\* What an object that reads back exactly asks of a field.
KeepsAll(f, v, text) ==
  /\ f.dbs = f.loc
  /\ IF text /\ f.dbs.n = 0 THEN v # <<>> /\ CString(v) = Front(v) ELSE ~EndsEarly(f, v)

LEMMA FieldIsExact ==
  ASSUME NEW text \in BOOLEAN, NEW f, Proper(f, text), NEW v, IsValue(f, v),
         StoredValue(f, v, text) # NoText, KeepsAll(f, v, text)
  PROVE  UnpackedValue(f, StoredValue(f, v, text), text) = v
  <1>1. f \in Field /\ f.loc = f.dbs
    BY DEF Proper, KeepsAll
  <1>2. CASE f.dbs.n = 1 /\ f.dbs.type \in Ints \cup {"ref", "real"}
    BY <1>1, <1>2, NumberIsKept
  <1>3. CASE f.loc.type = "string" /\ f.loc.n = 1
    <2>1. ~EndsEarly(f, v)
      BY <1>1, <1>3 DEF KeepsAll
    <2>2. v[1] # NullLen => CString(Tail(v)) = Tail(v)
      BY <1>1, <1>3, <2>1 DEF EndsEarly
    <2> QED BY <1>1, <1>3, <2>2, StringIsKept
  <1>4. CASE f.loc.type = "raw" /\ f.loc.n = 1
    BY <1>1, <1>4, RawIsKept
  <1>5. CASE IsItems(f.dbs) /\ f.dbs.size # 1
    BY <1>1, <1>5, ArrayIsKept
  <1>6. CASE f.dbs.type = "uint" /\ f.dbs.n # 1 /\ f.dbs.size = 1
    BY <1>1, <1>6, BytesAreKept
  <1>7. CASE f.dbs.type = "int" /\ f.dbs.n # 1 /\ f.dbs.size = 1
    <2>1. CASE f.dbs.n = 0 /\ text
      <3>1. f.binary
        BY <2>1 DEF Proper
      <3>2. v # <<>> /\ CString(v) = Front(v)
        BY <2>1 DEF KeepsAll
      <3> QED BY <1>1, <1>7, <2>1, <3>1, <3>2, KeyIsKept
    <2>2. CASE f.dbs.n = 0 => ~text
      <3>1. ~EndsEarly(f, v)
        BY <2>2 DEF KeepsAll
      <3>2. f.binary \/ CString(v) = v
        BY <1>7, <3>1 DEF EndsEarly
      <3> QED BY <1>1, <1>7, <2>2, <3>2, CharsAreKept
    <2> QED BY <2>1, <2>2
  <1>8. \/ f.loc = f.dbs /\ f.dbs.n = 1 /\ f.dbs.type \in Ints \cup {"ref", "real"}
        \/ f.loc.type = "string" /\ f.loc.n = 1
        \/ f.loc.type = "raw" /\ f.loc.n = 1
        \/ IsItems(f.dbs) /\ f.dbs.size # 1
        \/ f.dbs.type = "uint" /\ f.dbs.n # 1 /\ f.dbs.size = 1
        \/ f.dbs.type = "int" /\ f.dbs.n # 1 /\ f.dbs.size = 1
    BY FieldKinds, Zenon
  <1> QED BY <1>2, <1>3, <1>4, <1>5, <1>6, <1>7, <1>8

\* The column that a row lacks gives a field its null or zero.
LEMMA NullIsValue ==
  ASSUME NEW text \in BOOLEAN, NEW f, Proper(f, text), ~IsArray(f)
  PROVE  IsValue(Now(f), UnpackedValue(f, Null, text))
  <1> DEFINE c == Now(f)
             w == UnpackedValue(f, Null, text)
  <1>1. /\ f \in Field /\ c.dbs = f.loc /\ c.loc = f.loc /\ f.loc.type \in Types /\ f.loc.n \in Nat
        /\ f.loc.type \notin Ints => f.loc.n = 1
    BY NowProperties DEF Proper
  <1>2. 0 \in Cell /\ <<>> \in Seq(Cell)
    BY CellAssumption DEF Cell
  <1> HIDE DEF c
  <1>3. CASE f.loc.type = "ref"
    <2>1. w = 0
      BY <1>3 DEF UnpackedValue, Ints
    <2> HIDE DEF w
    <2> QED BY <1>1, <1>3, <2>1, ValueArms DEF c, w
  <1>4. CASE f.loc.type = "string"
    <2>1. w = <<NullLen>>
      BY <1>4 DEF UnpackedValue, Ints
    <2>2. <<NullLen>> \in Seq(Nat) /\ <<NullLen>> # <<>>
      BY CellAssumption
    <2> HIDE DEF w
    <2>3. IsValue(c, w)
      BY <1>1, <1>4, <2>1, <2>2, ValueArms
    <2> QED BY <2>3 DEF c, w
  <1>5. CASE f.loc.type = "raw"
    <2>1. w = <<0>>
      BY <1>5 DEF UnpackedValue, Ints
    <2>2. <<0>> \in Seq(Nat) /\ <<0>> # <<>> /\ <<0>>[1] = Len(<<0>>) - 1
      OBVIOUS
    <2> HIDE DEF w
    <2>3. IsValue(c, w)
      BY <1>1, <1>5, <2>1, <2>2, ValueArms
    <2> QED BY <2>3 DEF c, w
  <1>6. CASE f.loc.type = "real"
    <2>1. w = <<0>>
      BY <1>6 DEF UnpackedValue, Ints
    <2>2. <<0>> \in Seq(Nat) /\ Len(<<0>>) = 1
      OBVIOUS
    <2> HIDE DEF w
    <2>3. IsValue(c, w)
      BY <1>1, <1>6, <2>1, <2>2, ValueArms
    <2> QED BY <2>3 DEF c, w
  <1>7. CASE f.loc.type \in Ints
    <2>1. w \in Seq(Cell) /\ (f.loc.n # 0 => Len(w) = f.loc.n)
      <3>1. CASE f.loc.n = 1
        <4>1. w = <<0>>
          BY <1>7, <3>1 DEF UnpackedValue, Ints
        <4>2. <<0>> \in Seq(Cell) /\ Len(<<0>>) = 1
          BY <1>2
        <4> QED BY <3>1, <4>1, <4>2
      <3>2. CASE f.loc.n # 1
        <4>1. f.loc.size = 1
          BY <1>7, <3>2 DEF IsArray, IsItems
        <4>2. w = UnpackChars(f, <<>>, text)
          BY <1>7, <3>2, <4>1 DEF UnpackedValue, Ints
        <4>3. CASE f.loc.n = 0
          <5>1. w = Append(<<>>, 0) \/ w = <<>>
            BY <4>2, <4>3 DEF UnpackChars
          <5>2. Append(<<>>, 0) \in Seq(Cell)
            BY <1>2, AppendProperties
          <5> QED BY <1>2, <4>3, <5>1, <5>2
        <4>4. CASE f.loc.n # 0
          <5>1. w = Cut(<<>>, f.loc.n)
            BY <4>2, <4>4 DEF UnpackChars
          <5>2. Cut(<<>>, f.loc.n) \in Seq(Cell) /\ Len(Cut(<<>>, f.loc.n)) = f.loc.n
            BY <1>1, <1>2, CutProperties
          <5> QED BY <5>1, <5>2
        <4> QED BY <4>3, <4>4
      <3> QED BY <3>1, <3>2
    <2>2. f.loc.type # "string"
      BY <1>7 DEF Ints
    <2> HIDE DEF w
    <2>3. IsValue(c, w)
      BY <1>1, <1>7, <2>1, <2>2, ValueArms
    <2> QED BY <2>3 DEF c, w
  <1> QED BY <1>1, <1>3, <1>4, <1>5, <1>6, <1>7 DEF Types, Ints

-----------------------------------------------------------------------------
(* An object in the buffer                                                 *)

\* The objects that Packed can make: numbers for references, cells for the rest.
IsCells(f, v) == IF f.loc.type = "ref" THEN v \in Nat ELSE v \in Seq(Nat)
Cells(ls, vals) == \A i \in 1 .. Len(ls) : IsCells(ls[i], vals[i])

Buffer == [refs : Seq(Nat), bins : Seq(Nat)]

PackOne(f, v, o) ==
  IF f.loc.type = "ref" THEN [refs |-> Append(o.refs, v), bins |-> o.bins]
  ELSE [refs |-> o.refs, bins |-> o.bins \o v]

LEMMA PackedUnfolds ==
  ASSUME NEW ls \in Seq(Field), NEW vals, Cells(ls, vals)
  PROVE  \E p \in [0 .. Len(ls) -> Buffer] :
           /\ Packed(ls, vals) = p[Len(ls)] /\ p[0] = [refs |-> <<>>, bins |-> <<>>]
           /\ \A n \in 1 .. Len(ls) : p[n] = PackOne(ls[n], vals[n], p[n - 1])
  <1> DEFINE N == Len(ls)
             e == [refs |-> <<>>, bins |-> <<>>]
             next(q, n) == PackOne(ls[n], vals[n], q)
             g == [n \in 1 .. N |-> [q \in Buffer |-> next(q, n)]]
  <1>1. N \in Nat /\ e \in Buffer
    BY LenProperties DEF Buffer
  <1> HIDE DEF N
  <1>2. \A n \in 1 .. N, q \in Buffer : next(q, n) \in Buffer
    <2> TAKE n \in 1 .. N, q \in Buffer
    <2>1. q.refs \in Seq(Nat) /\ q.bins \in Seq(Nat)
      BY DEF Buffer
    <2>2. CASE ls[n].loc.type = "ref"
      <3>1. vals[n] \in Nat
        BY <2>2 DEF Cells, IsCells, N
      <3>2. Append(q.refs, vals[n]) \in Seq(Nat)
        BY <2>1, <3>1, AppendProperties
      <3> QED BY <2>1, <2>2, <3>2 DEF PackOne, Buffer
    <2>3. CASE ls[n].loc.type # "ref"
      <3>1. vals[n] \in Seq(Nat)
        BY <2>3 DEF Cells, IsCells, N
      <3>2. q.bins \o vals[n] \in Seq(Nat)
        BY <2>1, <3>1, ConcatProperties
      <3> QED BY <2>1, <2>3, <3>2 DEF PackOne, Buffer
    <2> QED BY <2>2, <2>3
  <1>3. g \in [1 .. N -> [Buffer -> Buffer]]
    <2> HIDE DEF next
    <2> QED BY <1>2
  <1> HIDE DEF e
  <1>4. PICK f \in [0 .. N -> Buffer] : f[0] = e /\ \A n \in 1 .. N : f[n] = g[n][f[n - 1]]
    <2> HIDE DEF g
    <2> QED BY <1>1, <1>3, Recursion
  <1>5. \A n \in 1 .. N : f[n] = next(f[n - 1], n)
    <2> TAKE n \in 1 .. N
    <2>1. n - 1 \in 0 .. N
      BY <1>1
    <2>2. f[n - 1] \in Buffer
      BY <1>4, <2>1
    <2>3. f[n] = g[n][f[n - 1]]
      BY <1>4
    <2> HIDE DEF next
    <2> QED BY <2>2, <2>3
  <1> DEFINE is(h) == h = [n \in 0 .. N |-> IF n = 0 THEN e ELSE next(h[n - 1], n)]
  <1>6. is(f)
    <2> HIDE DEF next
    <2> QED BY <1>1, <1>4, <1>5
  <1> DEFINE p == CHOOSE h : is(h)
  <1>7. Packed(ls, vals) = p[N]
    BY DEF Packed, PackOne, N, e
  <1>8. is(p)
    <2> HIDE DEF is
    <2> QED BY <1>6
  <1> HIDE DEF p
  <1>9. p[0] = e /\ \A n \in 1 .. N : p[n] = next(p[n - 1], n)
    <2> HIDE DEF next
    <2> QED BY <1>1, <1>8
  <1>10. p \in [0 .. N -> Buffer]
    <2> DEFINE T == {n \in 0 .. N : p[n] \in Buffer}
    <2>1. 0 \in T
      BY <1>1, <1>9 DEF e
    <2>2. \A n \in 1 .. N : n - 1 \in T => n \in T
      <3> HIDE DEF next
      <3> QED BY <1>2, <1>9
    <2> HIDE DEF T
    <2>3. 0 .. N \subseteq T
      BY <1>1, <2>1, <2>2, UpTo
    <2>4. \A n \in 0 .. N : p[n] \in Buffer
      BY <2>3 DEF T
    <2>5. DOMAIN p = 0 .. N /\ p = [n \in 0 .. N |-> p[n]]
      <3> HIDE DEF next
      <3>1. p = [n \in 0 .. N |-> IF n = 0 THEN e ELSE next(p[n - 1], n)]
        BY <1>8
      <3> QED BY <3>1
    <2> QED BY <2>4, <2>5
  <1> QED BY <1>7, <1>9, <1>10 DEF N, e

\* Field f of the object o holds v, between r0 and r1 references, b0 and b1 cells.
Lies(f, v, o, r0, r1, b0, b1) ==
  IF f.loc.type = "ref"
  THEN r1 = r0 + 1 /\ b1 = b0 /\ r1 <= Len(o.refs) /\ o.refs[r1] = v
  ELSE /\ r1 = r0 /\ b1 = b0 + Len(v) /\ b1 <= Len(o.bins)
       /\ \A k \in 1 .. Len(v) : o.bins[b0 + k] = v[k]

LEMMA InRange ==
  ASSUME NEW x \in Nat, NEW y \in Nat, NEW K \in Nat, NEW k \in 1 .. K, NEW L \in Nat,
         NEW M \in Nat, y = x + K, y <= L
  PROVE  x + k \in 1 .. L + M /\ x + k <= L
  OBVIOUS

LEMMA PackedLies ==
  ASSUME NEW ls \in Seq(Field), NEW vals, Cells(ls, vals)
  PROVE  \E r \in [0 .. Len(ls) -> Nat], b \in [0 .. Len(ls) -> Nat] :
           LET o == Packed(ls, vals) IN
           /\ o \in Buffer /\ r[0] = 0 /\ b[0] = 0
           /\ r[Len(ls)] = Len(o.refs) /\ b[Len(ls)] = Len(o.bins)
           /\ \A i \in 1 .. Len(ls) : Lies(ls[i], vals[i], o, r[i - 1], r[i], b[i - 1], b[i])
  <1> DEFINE N == Len(ls)
  <1>1. N \in Nat
    BY LenProperties
  <1>2. PICK p \in [0 .. N -> Buffer] :
           /\ Packed(ls, vals) = p[N] /\ p[0] = [refs |-> <<>>, bins |-> <<>>]
           /\ \A n \in 1 .. N : p[n] = PackOne(ls[n], vals[n], p[n - 1])
    BY PackedUnfolds
  <1> DEFINE r == [n \in 0 .. N |-> Len(p[n].refs)]
             b == [n \in 0 .. N |-> Len(p[n].bins)]
  <1>3. \A n \in 0 .. N : p[n].refs \in Seq(Nat) /\ p[n].bins \in Seq(Nat)
    BY <1>2 DEF Buffer
  <1>4. r \in [0 .. N -> Nat] /\ b \in [0 .. N -> Nat]
    <2>1. \A n \in 0 .. N : Len(p[n].refs) \in Nat /\ Len(p[n].bins) \in Nat
      BY <1>3, LenProperties
    <2> QED BY <2>1
  <1>5. \A n \in 0 .. N : r[n] = Len(p[n].refs) /\ b[n] = Len(p[n].bins)
    OBVIOUS
  <1> HIDE DEF r, b
  <1>6. r[0] = 0 /\ b[0] = 0
    <2>1. p[0].refs = <<>> /\ p[0].bins = <<>> /\ 0 \in 0 .. N
      BY <1>1, <1>2
    <2> QED BY <1>5, <2>1
  <1> DEFINE In(i, n) == Lies(ls[i], vals[i], p[n], r[i - 1], r[i], b[i - 1], b[i])
             T == {n \in 0 .. N : \A i \in 1 .. n : In(i, n)}
  <1>7. 0 \in T
    BY <1>1
  <1>8. ASSUME NEW n \in 1 .. N, \A i \in 1 .. n - 1 : In(i, n - 1)
        PROVE  \A i \in 1 .. n : In(i, n)
    <2> DEFINE o == p[n - 1]
               q == p[n]
               v == vals[n]
    <2>1. n - 1 \in 0 .. N /\ n \in 0 .. N
      BY <1>1
    <2>2. o.refs \in Seq(Nat) /\ o.bins \in Seq(Nat) /\ q = PackOne(ls[n], v, o)
      BY <1>2, <1>3, <2>1
    <2>3. /\ r[n - 1] = Len(o.refs) /\ b[n - 1] = Len(o.bins) /\ r[n] = Len(q.refs) /\ b[n] = Len(q.bins)
          /\ r[n - 1] \in Nat /\ b[n - 1] \in Nat
      BY <1>4, <1>5, <2>1
    <2>4. \A i \in 1 .. n : i = n \/ i \in 1 .. n - 1
      BY <2>1
    <2>5. \A i \in 1 .. n - 1 : i \in 0 .. N /\ i - 1 \in 0 .. N
      BY <1>1
    <2>6. \A i \in 1 .. n - 1 : r[i] \in Nat /\ r[i - 1] \in Nat /\ b[i] \in Nat /\ b[i - 1] \in Nat
      BY <1>4, <2>5
    <2>7. \A i \in 1 .. n - 1 : ls[i].loc.type # "ref" => vals[i] \in Seq(Nat) /\ Len(vals[i]) \in Nat
      <3> TAKE i \in 1 .. n - 1
      <3>1. i \in 1 .. N
        BY <1>1
      <3> QED BY <3>1, LenProperties DEF Cells, IsCells, N
    <2> HIDE DEF o, q, v
    <2>8. CASE ls[n].loc.type = "ref"
      <3>1. v \in Nat
        BY <2>8 DEF Cells, IsCells, N, v
      <3>2. q.refs = Append(o.refs, v) /\ q.bins = o.bins
        BY <2>2, <2>8 DEF PackOne
      <3>3. /\ Len(q.refs) = Len(o.refs) + 1 /\ q.refs[Len(o.refs) + 1] = v
            /\ \A k \in 1 .. Len(o.refs) : q.refs[k] = o.refs[k]
        BY <2>2, <3>1, <3>2, AppendProperties
      <3>4. In(n, n)
        <4>1. r[n] = r[n - 1] + 1 /\ b[n] = b[n - 1] /\ r[n] <= Len(q.refs) /\ q.refs[r[n]] = v
          BY <2>3, <3>2, <3>3
        <4> QED BY <2>8, <4>1 DEF Lies, q, v
      <3>5. ASSUME NEW i \in 1 .. n - 1 PROVE In(i, n)
        <4>1. Lies(ls[i], vals[i], o, r[i - 1], r[i], b[i - 1], b[i])
          BY <1>8 DEF o
        <4>2. CASE ls[i].loc.type = "ref"
          <5>1. /\ r[i] = r[i - 1] + 1 /\ b[i] = b[i - 1] /\ r[i] <= Len(o.refs)
                /\ o.refs[r[i]] = vals[i]
            BY <4>1, <4>2 DEF Lies
          <5>2. r[i] \in 1 .. Len(o.refs) /\ r[i] <= Len(q.refs)
            <6>1. r[i] \in Nat /\ r[i - 1] \in Nat /\ Len(o.refs) \in Nat
              BY <2>3, <2>6
            <6>2. r[i] >= 1 /\ Len(q.refs) = Len(o.refs) + 1
              BY <3>3, <5>1, <6>1
            <6> QED BY <5>1, <6>1, <6>2
          <5> QED BY <3>3, <4>2, <5>1, <5>2 DEF Lies, q
        <4>3. CASE ls[i].loc.type # "ref"
          BY <3>2, <4>1, <4>3 DEF Lies, q
        <4> QED BY <4>2, <4>3
      <3> QED BY <2>4, <3>4, <3>5
    <2>9. CASE ls[n].loc.type # "ref"
      <3>1. v \in Seq(Nat) /\ Len(v) \in Nat
        BY <2>9, LenProperties DEF Cells, IsCells, N, v
      <3>2. q.refs = o.refs /\ q.bins = o.bins \o v
        BY <2>2, <2>9 DEF PackOne
      <3>3. /\ Len(q.bins) = Len(o.bins) + Len(v)
            /\ \A k \in 1 .. Len(o.bins) + Len(v) :
                 q.bins[k] = IF k <= Len(o.bins) THEN o.bins[k] ELSE v[k - Len(o.bins)]
        BY <2>2, <3>1, <3>2, ConcatProperties
      <3>4. In(n, n)
        <4>1. r[n] = r[n - 1] /\ b[n] = b[n - 1] + Len(v) /\ b[n] <= Len(q.bins)
          BY <2>3, <3>1, <3>2, <3>3
        <4>2. \A k \in 1 .. Len(v) : q.bins[b[n - 1] + k] = v[k]
          <5> TAKE k \in 1 .. Len(v)
          <5>1. /\ b[n - 1] + k \in 1 .. Len(o.bins) + Len(v) /\ ~(b[n - 1] + k <= Len(o.bins))
                /\ (b[n - 1] + k) - Len(o.bins) = k
            BY <2>3, <3>1
          <5> QED BY <3>3, <5>1
        <4> QED BY <2>9, <4>1, <4>2 DEF Lies, q, v
      <3>5. ASSUME NEW i \in 1 .. n - 1 PROVE In(i, n)
        <4>1. Lies(ls[i], vals[i], o, r[i - 1], r[i], b[i - 1], b[i])
          BY <1>8 DEF o
        <4>2. CASE ls[i].loc.type = "ref"
          BY <3>2, <4>1, <4>2 DEF Lies, q
        <4>3. CASE ls[i].loc.type # "ref"
          <5>1. /\ r[i] = r[i - 1] /\ b[i] = b[i - 1] + Len(vals[i]) /\ b[i] <= Len(o.bins)
                /\ \A k \in 1 .. Len(vals[i]) : o.bins[b[i - 1] + k] = vals[i][k]
            BY <4>1, <4>3 DEF Lies
          <5>2. b[i] <= Len(q.bins)
            BY <2>3, <2>6, <3>1, <3>3, <5>1
          <5>3. \A k \in 1 .. Len(vals[i]) : q.bins[b[i - 1] + k] = vals[i][k]
            <6> TAKE k \in 1 .. Len(vals[i])
            <6> DEFINE K == Len(vals[i])
            <6>0. K \in Nat /\ k \in 1 .. K /\ b[i] = b[i - 1] + K
              BY <2>7, <4>3, <5>1
            <6>2. b[i - 1] \in Nat /\ b[i] \in Nat /\ Len(o.bins) \in Nat /\ b[i] <= Len(o.bins)
              BY <2>3, <2>6, <5>1
            <6> HIDE DEF K
            <6>1. /\ b[i - 1] + k \in 1 .. Len(o.bins) + Len(v) /\ b[i - 1] + k <= Len(o.bins)
              BY <3>1, <6>0, <6>2, InRange
            <6> QED BY <3>3, <5>1, <6>1
          <5> QED BY <4>3, <5>1, <5>2, <5>3 DEF Lies, q
        <4> QED BY <4>2, <4>3
      <3> QED BY <2>4, <3>4, <3>5
    <2> QED BY <2>8, <2>9
  <1> HIDE DEF In
  <1>9. \A n \in 1 .. N : n - 1 \in T => n \in T
    BY <1>1, <1>8
  <1> HIDE DEF T, N
  <1>10. 0 .. N \subseteq T
    BY <1>1, <1>7, <1>9, UpTo
  <1>11. \A i \in 1 .. N : In(i, N)
    <2>1. N \in 0 .. N
      BY <1>1
    <2> QED BY <1>10, <2>1 DEF T
  <1>12. N \in 0 .. N /\ p[N] \in Buffer
    BY <1>1, <1>2
  <1>13. r[N] = Len(p[N].refs) /\ b[N] = Len(p[N].bins)
    BY <1>5, <1>12
  <1> QED BY <1>2, <1>4, <1>6, <1>11, <1>12, <1>13 DEF In, N

-----------------------------------------------------------------------------
(* store_struct                                                            *)

LEMMA ValueIsCells ==
  ASSUME NEW text \in BOOLEAN, NEW f, Proper(f, text), NEW v, IsValue(f, v)
  PROVE  /\ f.loc.type = "ref" <=> f.dbs.type = "ref"
         /\ IF f.loc.type = "ref" THEN v \in Nat ELSE v \in Seq(Nat) /\ Len(v) \in Nat
  <1>1. f.dbs.type \in Types /\ f.loc.type \in Types
    BY NowProperties DEF Proper
  <1>2. f.loc.type = "ref" <=> f.dbs.type = "ref"
    BY FieldKinds DEF IsItems, Ints
  <1>3. CASE f.dbs.type = "ref"
    BY <1>2, <1>3, ValueArms
  <1>4. CASE f.dbs.type # "ref"
    <2>1. v \in Seq(Nat)
      <3>1. CASE f.dbs.type = "string"
        BY <3>1, ValueArms
      <3>2. CASE f.dbs.type = "raw"
        BY <3>2, ValueArms
      <3>3. CASE f.dbs.type = "real"
        BY <3>3, ValueArms
      <3>4. CASE f.dbs.type \in Ints
        <4>1. v \in Seq(Cell)
          BY <3>4, ValueArms
        <4> QED BY <4>1, CellsAreNumbers
      <3> QED BY <1>1, <1>4, <3>1, <3>2, <3>3, <3>4 DEF Types, Ints
    <2> QED BY <1>2, <1>4, <2>1, LenProperties
  <1> QED BY <1>3, <1>4

\* store_struct finds the end of each field.
LEMMA ExtentIs ==
  ASSUME NEW text \in BOOLEAN, NEW f, Proper(f, text), f.dbs.type # "ref",
         NEW v, IsValue(f, v), NEW bins, NEW at, NEW size,
         \A k \in 1 .. Len(v) : bins[at + k] = v[k], f.dbs.n = 0 => size = Len(v)
  PROVE  Extent(f, bins, at, size) = Len(v)
  <1>1. /\ f.dbs.type \in Types /\ f.dbs.n \in Nat
        /\ f.dbs.type \notin Ints => f.dbs.n = 1
    BY NowProperties DEF Proper
  <1>2. v \in Seq(Nat) /\ Len(v) \in Nat
    BY ValueIsCells
  <1>3. v # <<>> => bins[at + 1] = v[1]
    <2>1. v # <<>> => 1 \in 1 .. Len(v)
      BY <1>2, EmptySeq
    <2> QED BY <2>1
  <1>4. CASE f.dbs.type = "string"
    <2>1. /\ v # <<>>
          /\ v = <<NullLen>> \/ (v[1] = Len(v) - 1 /\ v[1] < NullLen)
      BY <1>4, ValueArms
    <2>2. Extent(f, bins, at, size) = IF v[1] = NullLen THEN 1 ELSE 1 + v[1]
      BY <1>3, <1>4, <2>1 DEF Extent
    <2>3. CASE v = <<NullLen>>
      BY <2>2, <2>3
    <2>4. CASE v[1] = Len(v) - 1 /\ v[1] < NullLen
      BY <1>2, <2>2, <2>4, CellAssumption
    <2> QED BY <2>1, <2>3, <2>4
  <1>5. CASE f.dbs.type = "raw"
    <2>1. v # <<>> /\ v[1] = Len(v) - 1
      BY <1>5, ValueArms
    <2>2. Extent(f, bins, at, size) = 1 + v[1]
      BY <1>3, <1>5, <2>1 DEF Extent
    <2> QED BY <1>2, <2>1, <2>2
  <1>6. CASE f.dbs.type = "real"
    <2>1. Len(v) = 1 /\ f.dbs.n = 1
      BY <1>1, <1>6, ValueArms DEF Ints
    <2>2. Extent(f, bins, at, size) = IF f.dbs.n = 0 THEN size ELSE f.dbs.n
      BY <1>6 DEF Extent
    <2> QED BY <2>1, <2>2
  <1>7. CASE f.dbs.type \in Ints
    <2>1. f.dbs.n # 0 => Len(v) = f.dbs.n
      BY <1>7, ValueArms
    <2>2. Extent(f, bins, at, size) = IF f.dbs.n = 0 THEN size ELSE f.dbs.n
      BY <1>7 DEF Extent, Ints
    <2> QED BY <2>1, <2>2
  <1> QED BY <1>1, <1>4, <1>5, <1>6, <1>7 DEF Types, Ints

\* The state of store_struct in object o, after r references and b cells.
Remaining(o, r, b) == (Len(o.refs) - r) + (Len(o.bins) - b)
Pass(params, o, r, b) == [params |-> params, refs |-> r, bins |-> b, size |-> Remaining(o, r, b)]
Taken(stored, params, x) == IF stored THEN Append(params, x) ELSE params

LEMMA Remainder ==
  ASSUME NEW o \in Buffer, NEW f, NEW v,
         NEW r0 \in Nat, NEW r1 \in Nat, NEW b0 \in Nat, NEW b1 \in Nat, Lies(f, v, o, r0, r1, b0, b1),
         IsCells(f, v)
  PROVE  Remaining(o, r1, b1)
           = Remaining(o, r0, b0) - (IF f.loc.type = "ref" THEN 1 ELSE Len(v))
  <1>1. Len(o.refs) \in Nat /\ Len(o.bins) \in Nat
    BY LenProperties DEF Buffer
  <1>2. CASE f.loc.type = "ref"
    <2>1. r1 = r0 + 1 /\ b1 = b0
      BY <1>2 DEF Lies
    <2> QED BY <1>1, <1>2, <2>1 DEF Remaining
  <1>3. CASE f.loc.type # "ref"
    <2>1. r1 = r0 /\ b1 = b0 + Len(v) /\ Len(v) \in Nat
      BY <1>3, LenProperties DEF Lies, IsCells
    <2> QED BY <1>1, <1>3, <2>1 DEF Remaining
  <1> QED BY <1>2, <1>3

\* One field of an object.
LEMMA StoreOne ==
  ASSUME NEW text \in BOOLEAN, NEW f, Proper(f, text), NEW v, IsValue(f, v),
         NEW o \in Buffer, NEW r0 \in Nat, NEW r1 \in Nat, NEW b0 \in Nat, NEW b1 \in Nat,
         Lies(f, v, o, r0, r1, b0, b1), f.dbs.n = 0 => Remaining(o, r0, b0) = Len(v),
         NEW params, NEW stored
  PROVE  StoreField(f, stored, text, o, Pass(params, o, r0, b0))
           = Pass(Taken(stored, params, StoredValue(f, v, text)), o, r1, b1)
  <1> DEFINE size == Remaining(o, r0, b0)
             acc == Pass(params, o, r0, b0)
             isRef == f.dbs.type = "ref"
             e == Extent(f, o.bins, acc.bins, acc.size)
             cells == IF isRef THEN o.refs[acc.refs + 1]
                      ELSE SubSeq(o.bins, acc.bins + 1, acc.bins + e)
             value == StoredValue(f, cells, text)
  <1>1. StoreField(f, stored, text, o, acc)
          = [params |-> IF stored THEN Append(acc.params, value) ELSE acc.params,
             refs |-> IF isRef THEN acc.refs + 1 ELSE acc.refs,
             bins |-> acc.bins + e,
             size |-> acc.size - (IF isRef THEN 1 ELSE e)]
    BY DEF StoreField
  <1>2. /\ f.loc.type = "ref" <=> isRef
        /\ IF f.loc.type = "ref" THEN v \in Nat ELSE v \in Seq(Nat) /\ Len(v) \in Nat
    BY ValueIsCells
  <1>3. acc.params = params /\ acc.refs = r0 /\ acc.bins = b0 /\ acc.size = size
    BY DEF Pass
  <1>4. cells = v /\ e = (IF isRef THEN 0 ELSE Len(v))
    <2>1. CASE isRef
      <3>1. Extent(f, o.bins, acc.bins, acc.size) = 0
        BY <2>1 DEF Extent
      <3>2. r1 = r0 + 1 /\ o.refs[r1] = v
        BY <1>2, <2>1 DEF Lies
      <3>3. cells = o.refs[r0 + 1]
        BY <1>3, <2>1
      <3> QED BY <2>1, <3>1, <3>2, <3>3
    <2>2. CASE ~isRef
      <3>1. /\ b1 = b0 + Len(v) /\ b1 <= Len(o.bins)
            /\ \A k \in 1 .. Len(v) : o.bins[b0 + k] = v[k]
        BY <1>2, <2>2 DEF Lies
      <3>2. e = Len(v)
        <4>1. Extent(f, o.bins, b0, size) = Len(v)
          <5>1. PICK bins, at : bins = o.bins /\ at = b0
            OBVIOUS
          <5>2. f.dbs.type # "ref" /\ (f.dbs.n = 0 => size = Len(v))
            BY <2>2
          <5>3. \A k \in 1 .. Len(v) : bins[at + k] = v[k]
            BY <3>1, <5>1
          <5>4. Extent(f, bins, at, size) = Len(v)
            BY <5>2, <5>3, ExtentIs
          <5> QED BY <5>1, <5>4
        <4> QED BY <1>3, <4>1
      <3>3. o.bins \in Seq(Nat) /\ Len(o.bins) \in Nat
        BY LenProperties DEF Buffer
      <3>4. b0 \in 0 .. Len(o.bins) /\ b1 \in b0 .. Len(o.bins) /\ b1 - b0 = Len(v)
        BY <1>2, <2>2, <3>1, <3>3
      <3> DEFINE part == SubSeq(o.bins, b0 + 1, b1)
      <3>5. /\ part \in Seq(Nat) /\ Len(part) = b1 - b0
            /\ \A k \in 1 .. b1 - b0 : part[k] = o.bins[b0 + k]
        <4>0. PICK bins \in Seq(Nat) : bins = o.bins
          BY <3>3
        <4>1. PICK x \in 0 .. Len(bins) : x = b0
          BY <3>4, <4>0
        <4>2. PICK y \in x .. Len(bins) : y = b1
          BY <3>4, <4>0, <4>1
        <4>3. /\ SubSeq(bins, x + 1, y) \in Seq(Nat) /\ Len(SubSeq(bins, x + 1, y)) = y - x
              /\ \A k \in 1 .. y - x : SubSeq(bins, x + 1, y)[k] = bins[x + k]
          BY PartOf
        <4> QED BY <4>0, <4>1, <4>2, <4>3
      <3>6. cells = part
        <4>1. cells = SubSeq(o.bins, acc.bins + 1, acc.bins + e)
          BY <2>2
        <4> HIDE DEF e
        <4> QED BY <1>3, <3>1, <3>2, <4>1
      <3> HIDE DEF part
      <3>7. part = v
        BY <1>2, <2>2, <3>1, <3>4, <3>5, SeqEqual
      <3> QED BY <2>2, <3>2, <3>6, <3>7
    <2> QED BY <2>1, <2>2
  <1> HIDE DEF cells, e
  <1>5. value = StoredValue(f, v, text)
    BY <1>4
  <1> HIDE DEF value, acc
  <1>6. /\ (IF isRef THEN acc.refs + 1 ELSE acc.refs) = r1
        /\ acc.bins + e = b1
        /\ (IF isRef THEN 1 ELSE e) = (IF f.loc.type = "ref" THEN 1 ELSE Len(v))
    <2>1. CASE isRef
      <3>1. r1 = r0 + 1 /\ b1 = b0
        BY <1>2, <2>1 DEF Lies
      <3> QED BY <1>2, <1>3, <1>4, <2>1, <3>1
    <2>2. CASE ~isRef
      <3>1. r1 = r0 /\ b1 = b0 + Len(v)
        BY <1>2, <2>2 DEF Lies
      <3> QED BY <1>2, <1>3, <1>4, <2>2, <3>1
    <2> QED BY <2>1, <2>2
  <1> HIDE DEF isRef
  <1>7. Remaining(o, r1, b1) = size - (IF f.loc.type = "ref" THEN 1 ELSE Len(v))
    <2>1. IsCells(f, v)
      BY <1>2 DEF IsCells
    <2> QED BY <2>1, Remainder
  <1> HIDE DEF size
  <1>8. StoreField(f, stored, text, o, acc)
          = [params |-> IF stored THEN Append(params, StoredValue(f, v, text)) ELSE params,
             refs |-> r1, bins |-> b1, size |-> Remaining(o, r1, b1)]
    BY <1>1, <1>3, <1>5, <1>6, <1>7
  <1> QED BY <1>8 DEF acc, Pass, Taken

\* q[n] holds x[i] for each i up to n that is in St.
Selects(q, N, St, x) ==
  q[0] = <<>> /\ \A n \in 1 .. N : q[n] = IF n \in St THEN Append(q[n - 1], x[n]) ELSE q[n - 1]

LEMMA SelectExists ==
  ASSUME NEW S, NEW N \in Nat, NEW x \in [1 .. N -> S], NEW St
  PROVE  \E q \in [0 .. N -> Seq(S)] : Selects(q, N, St, x)
  <1> DEFINE next(p, n) == IF n \in St THEN Append(p, x[n]) ELSE p
             g == [n \in 1 .. N |-> [p \in Seq(S) |-> next(p, n)]]
  <1>1. \A n \in 1 .. N, p \in Seq(S) : next(p, n) \in Seq(S)
    <2> TAKE n \in 1 .. N, p \in Seq(S)
    <2>1. Append(p, x[n]) \in Seq(S)
      BY AppendProperties
    <2> QED BY <2>1
  <1>2. g \in [1 .. N -> [Seq(S) -> Seq(S)]]
    <2> HIDE DEF next
    <2> QED BY <1>1
  <1>3. PICK q : Builds(q, S, N, g)
    <2> HIDE DEF g
    <2> QED BY <1>2, SeqRecursion
  <1>4. q \in [0 .. N -> Seq(S)] /\ q[0] = <<>>
    <2> HIDE DEF g
    <2> QED BY <1>3 DEF Builds
  <1>5. \A n \in 1 .. N : q[n] = next(q[n - 1], n)
    <2> TAKE n \in 1 .. N
    <2>1. n - 1 \in 0 .. N
      OBVIOUS
    <2>2. q[n - 1] \in Seq(S)
      BY <1>4, <2>1
    <2>3. q[n] = g[n][q[n - 1]]
      <3> HIDE DEF g
      <3> QED BY <1>3 DEF Builds
    <2> HIDE DEF next
    <2> QED BY <2>2, <2>3
  <1>6. Selects(q, N, St, x)
    BY <1>4, <1>5 DEF Selects
  <1> QED BY <1>4, <1>6

\* What two sequences of the same choice St have in common.
SideBySide(s, t, St, x, y) ==
  /\ Len(s) = Len(t) /\ DOMAIN s = 1 .. Len(s) /\ DOMAIN t = 1 .. Len(t)
  /\ \A j \in 1 .. Len(s) : \E i \in St : s[j] = x[i] /\ t[j] = y[i]
  /\ \A i \in St : \E j \in 1 .. Len(s) : s[j] = x[i] /\ t[j] = y[i]

\* Two sequences of the same choice stay side by side.
LEMMA SelectPairs ==
  ASSUME NEW S, NEW T, NEW N \in Nat, NEW x \in [1 .. N -> S], NEW y \in [1 .. N -> T],
         NEW St \in SUBSET (1 .. N), NEW q \in [0 .. N -> Seq(S)], NEW p \in [0 .. N -> Seq(T)],
         Selects(q, N, St, x), Selects(p, N, St, y)
  PROVE  SideBySide(q[N], p[N], St, x, y)
  <1> DEFINE Same(n) == Len(q[n]) = Len(p[n])
             From(n, j) == \E i \in St : q[n][j] = x[i] /\ p[n][j] = y[i]
             To(n, i) == \E j \in 1 .. Len(q[n]) : q[n][j] = x[i] /\ p[n][j] = y[i]
             Both(n) == /\ Same(n)
                        /\ \A j \in 1 .. Len(q[n]) : From(n, j)
                        /\ \A i \in St : i <= n => To(n, i)
             P == {n \in 0 .. N : Both(n)}
  <1>1. 0 \in P
    <2>1. q[0] = <<>> /\ p[0] = <<>>
      BY DEF Selects
    <2>2. \A i \in St : ~(i <= 0)
      OBVIOUS
    <2>3. Len(q[0]) = 0 /\ Same(0)
      BY <2>1
    <2> QED BY <2>2, <2>3
  <1>2. ASSUME NEW n \in 1 .. N, n - 1 \in P PROVE n \in P
    <2> DEFINE m == n - 1
    <2>1. m \in 0 .. N /\ q[m] \in Seq(S) /\ p[m] \in Seq(T) /\ x[n] \in S /\ y[n] \in T
      OBVIOUS
    <2>2. Both(m)
      BY <1>2
    <2>3. \A i \in St : i <= n => i <= m \/ i = n
      OBVIOUS
    <2> HIDE DEF m
    <2>4. CASE n \notin St
      <3>1. q[n] = q[m] /\ p[n] = p[m]
        BY <2>4 DEF Selects, m
      <3>2. \A i \in St : i <= n => To(m, i)
        BY <2>2, <2>3, <2>4
      <3>3. Both(n)
        BY <2>2, <3>1, <3>2
      <3> QED BY <3>3
    <2>5. CASE n \in St
      <3> DEFINE K == Len(q[m])
      <3>1. q[n] = Append(q[m], x[n]) /\ p[n] = Append(p[m], y[n])
        BY <2>5 DEF Selects, m
      <3>2. K \in Nat /\ Len(p[m]) = K
        BY <2>1, <2>2, LenProperties
      <3>3. /\ Len(q[n]) = K + 1 /\ q[n][K + 1] = x[n] /\ \A j \in 1 .. K : q[n][j] = q[m][j]
        BY <2>1, <3>1, AppendProperties
      <3>4. /\ Len(p[n]) = K + 1 /\ p[n][K + 1] = y[n] /\ \A j \in 1 .. K : p[n][j] = p[m][j]
        <4>1. Len(p[n]) = Len(p[m]) + 1 /\ p[n][Len(p[m]) + 1] = y[n]
              /\ \A j \in 1 .. Len(p[m]) : p[n][j] = p[m][j]
          BY <2>1, <3>1, AppendProperties
        <4> HIDE DEF K
        <4> QED BY <3>2, <4>1
      <3>5. \A j \in 1 .. K + 1 : j = K + 1 \/ j \in 1 .. K
        BY <3>2
      <3>6. K + 1 \in 1 .. K + 1 /\ \A j \in 1 .. K : j \in 1 .. K + 1
        BY <3>2
      <3>7. ASSUME NEW j \in 1 .. Len(q[n]) PROVE From(n, j)
        <4>1. CASE j = K + 1
          BY <2>5, <3>3, <3>4, <4>1
        <4>2. CASE j \in 1 .. K
          <5>1. From(m, j)
            BY <2>2, <4>2
          <5> HIDE DEF K
          <5> QED BY <3>3, <3>4, <4>2, <5>1
        <4>3. j \in 1 .. K + 1
          BY <3>3
        <4> QED BY <3>5, <4>1, <4>2, <4>3
      <3>8. ASSUME NEW i \in St, i <= n PROVE To(n, i)
        <4>1. CASE i = n
          <5>1. K + 1 \in 1 .. Len(q[n])
            BY <3>3, <3>6
          <5> QED BY <3>3, <3>4, <4>1, <5>1
        <4>2. CASE i <= m
          <5>1. PICK j \in 1 .. K : q[m][j] = x[i] /\ p[m][j] = y[i]
            BY <2>2, <4>2
          <5>2. j \in 1 .. Len(q[n])
            BY <3>3, <3>6, <5>1
          <5> HIDE DEF K
          <5>3. q[n][j] = x[i] /\ p[n][j] = y[i]
            BY <3>3, <3>4, <5>1
          <5> QED BY <5>2, <5>3
        <4> QED BY <2>3, <3>8, <4>1, <4>2
      <3>9. Same(n)
        BY <3>3, <3>4
      <3> HIDE DEF From, To, Same
      <3>10. Both(n)
        BY <3>7, <3>8, <3>9
      <3> QED BY <3>10
    <2> QED BY <2>4, <2>5
  <1> HIDE DEF Both
  <1>3. \A n \in 1 .. N : n - 1 \in P => n \in P
    BY <1>2
  <1> HIDE DEF P
  <1>4. 0 .. N \subseteq P
    BY <1>1, <1>3, UpTo
  <1>5. N \in P
    BY <1>4
  <1>6. Both(N) /\ \A i \in St : i <= N
    BY <1>5 DEF P
  <1> DEFINE s == q[N]
             t == p[N]
  <1>7. /\ Len(s) = Len(t)
        /\ \A j \in 1 .. Len(s) : \E i \in St : s[j] = x[i] /\ t[j] = y[i]
        /\ \A i \in St : \E j \in 1 .. Len(s) : s[j] = x[i] /\ t[j] = y[i]
    BY <1>6, Zenon DEF Both
  <1>8. s \in Seq(S) /\ t \in Seq(T)
    <2>1. N \in 0 .. N
      OBVIOUS
    <2> QED BY <2>1
  <1> HIDE DEF s, t
  <1>9. DOMAIN s = 1 .. Len(s) /\ DOMAIN t = 1 .. Len(t)
    BY <1>8, LenProperties
  <1>10. SideBySide(s, t, St, x, y)
    BY <1>7, <1>9, Zenon DEF SideBySide
  <1> QED BY <1>10 DEF s, t

\* The fields that are stored: the first of each name.
StoredSet(ls) == {i \in 1 .. Len(ls) : IsStored(ls, i)}

LEMMA ColumnsAre ==
  ASSUME NEW ls \in Seq(Field)
  PROVE  \E q \in [0 .. Len(ls) -> Seq(Seq(STRING))] :
           /\ Columns(ls) = q[Len(ls)]
           /\ Selects(q, Len(ls), StoredSet(ls), [i \in 1 .. Len(ls) |-> ls[i].name])
  <1> DEFINE N == Len(ls)
             x == [i \in 1 .. N |-> ls[i].name]
             St == StoredSet(ls)
             next(p, n) == IF \A j \in 1 .. (n - 1) : ls[j].name # ls[n].name
                           THEN Append(p, ls[n].name) ELSE p
             is(h) == h = [n \in 0 .. N |-> IF n = 0 THEN <<>> ELSE next(h[n - 1], n)]
  <1>1. N \in Nat
    BY LenProperties
  <1>2. x \in [1 .. N -> Seq(STRING)]
    <2>1. \A i \in 1 .. N : ls[i] \in Field
      BY ElementOfSeq
    <2> QED BY <2>1 DEF Field
  <1>3. \A n \in 1 .. N : n \in St <=> \A j \in 1 .. (n - 1) : ls[j].name # ls[n].name
    BY DEF StoredSet, IsStored
  <1>4. \A n \in 1 .. N : x[n] = ls[n].name
    OBVIOUS
  <1> HIDE DEF N, x
  <1>5. PICK f \in [0 .. N -> Seq(Seq(STRING))] : Selects(f, N, St, x)
    BY <1>1, <1>2, SelectExists
  <1> HIDE DEF St
  <1>6. \A p, n : n \in 1 .. N => next(p, n) = IF n \in St THEN Append(p, x[n]) ELSE p
    BY <1>3, <1>4
  <1> HIDE DEF next
  <1>7. is(f)
    <2>1. f[0] = <<>> /\ \A n \in 1 .. N : f[n] = next(f[n - 1], n)
      BY <1>5, <1>6 DEF Selects
    <2> QED BY <1>1, <2>1
  <1> DEFINE q == CHOOSE h : is(h)
  <1>8. Columns(ls) = q[N]
    BY DEF Columns, next, N
  <1>9. is(q)
    <2> HIDE DEF is
    <2> QED BY <1>7
  <1> HIDE DEF q
  <1>10. q[0] = <<>> /\ \A n \in 1 .. N : q[n] = next(q[n - 1], n)
    BY <1>1, <1>9
  <1>11. q = f
    <2> DEFINE T == {n \in 0 .. N : q[n] = f[n]}
    <2>1. 0 \in T
      BY <1>1, <1>5, <1>10 DEF Selects
    <2>2. \A n \in 1 .. N : n - 1 \in T => n \in T
      <3>1. \A n \in 1 .. N : f[n] = next(f[n - 1], n)
        BY <1>5, <1>6 DEF Selects
      <3> QED BY <1>10, <3>1
    <2> HIDE DEF T
    <2>3. 0 .. N \subseteq T
      BY <1>1, <2>1, <2>2, UpTo
    <2>4. \A n \in 0 .. N : q[n] = f[n]
      BY <2>3 DEF T
    <2>5. DOMAIN q = 0 .. N /\ q = [n \in 0 .. N |-> q[n]]
      BY <1>9
    <2> QED BY <2>4, <2>5
  <1> QED BY <1>5, <1>8, <1>11 DEF N, x, St

\* Fields and the values of an object that holds them.
Sound(ls, text, vals) ==
  /\ ls \in Seq(Field)
  /\ \A i \in 1 .. Len(ls) : /\ Proper(ls[i], text) /\ IsValue(ls[i], vals[i])
                             /\ ls[i].dbs.n = 0 => i = Len(ls)

SqlValues(ls, text, vals) == [i \in 1 .. Len(ls) |-> StoredValue(ls[i], vals[i], text)]

\* q selects the values that are stored, from a set V.
Chosen(ls, text, vals, V, q) ==
  /\ SqlValues(ls, text, vals) \in [1 .. Len(ls) -> V] /\ q \in [0 .. Len(ls) -> Seq(V)]
  /\ Selects(q, Len(ls), StoredSet(ls), SqlValues(ls, text, vals))

\* The fields lie in the object o at the positions r and b.
Placed(ls, vals, o, r, b) ==
  /\ r \in [0 .. Len(ls) -> Nat] /\ b \in [0 .. Len(ls) -> Nat]
  /\ o \in Buffer /\ r[0] = 0 /\ b[0] = 0
  /\ r[Len(ls)] = Len(o.refs) /\ b[Len(ls)] = Len(o.bins)
  /\ \A i \in 1 .. Len(ls) : Lies(ls[i], vals[i], o, r[i - 1], r[i], b[i - 1], b[i])

LEMMA ParamsAre ==
  ASSUME NEW text \in BOOLEAN, NEW ls, NEW vals, Sound(ls, text, vals)
  PROVE  LET s == StoreStruct(ls, text, Packed(ls, vals)) IN
         s.size = 0 /\ \E V, q : Chosen(ls, text, vals, V, q) /\ s.params = q[Len(ls)]
  <1> DEFINE N == Len(ls)
             x == SqlValues(ls, text, vals)
             St == StoredSet(ls)
             o == Packed(ls, vals)
  <1>1. N \in Nat /\ ls \in Seq(Field)
    BY LenProperties DEF Sound
  <1>2. \A n \in 1 .. N : Proper(ls[n], text) /\ IsValue(ls[n], vals[n]) /\ (ls[n].dbs.n = 0 => n = N)
    BY DEF Sound
  <1>3. \A n \in 1 .. N : IF ls[n].loc.type = "ref" THEN vals[n] \in Nat
                          ELSE vals[n] \in Seq(Nat) /\ Len(vals[n]) \in Nat
    BY <1>2, ValueIsCells
  <1>4. Cells(ls, vals)
    BY <1>3 DEF Cells, IsCells
  <1>5. \A n \in 1 .. N : x[n] = StoredValue(ls[n], vals[n], text) /\ (n \in St <=> IsStored(ls, n))
    BY DEF SqlValues, StoredSet
  <1>6. PICK V, q : Chosen(ls, text, vals, V, q)
    <2> DEFINE W == {x[n] : n \in 1 .. N}
    <2>1. x \in [1 .. N -> W]
      BY DEF SqlValues
    <2> HIDE DEF x, N, W
    <2>2. PICK p \in [0 .. N -> Seq(W)] : Selects(p, N, St, x)
      BY <1>1, <2>1, SelectExists
    <2>3. Chosen(ls, text, vals, W, p)
      BY <2>1, <2>2 DEF Chosen, N, x
    <2> QED BY <2>3
  <1>19. q[0] = <<>> /\ \A n \in 1 .. N : q[n] = IF n \in St THEN Append(q[n - 1], x[n]) ELSE q[n - 1]
    BY <1>6 DEF Chosen, Selects
  <1>20. PICK r, b : Placed(ls, vals, o, r, b)
    BY <1>1, <1>4, PackedLies, Zenon DEF Placed
  <1>7. /\ \A n \in 0 .. N : r[n] \in Nat /\ b[n] \in Nat
        /\ o \in Buffer /\ r[0] = 0 /\ b[0] = 0
        /\ r[N] = Len(o.refs) /\ b[N] = Len(o.bins)
        /\ \A i \in 1 .. N : Lies(ls[i], vals[i], o, r[i - 1], r[i], b[i - 1], b[i])
    <2> HIDE DEF o
    <2> QED BY <1>20 DEF Placed
  <1> HIDE DEF x, o, St
  <1>8. Len(o.refs) \in Nat /\ Len(o.bins) \in Nat
    BY <1>7, LenProperties DEF Buffer
  <1> DEFINE F == [n \in 0 .. N |-> Pass(q[n], o, r[n], b[n])]
             init == [params |-> <<>>, refs |-> 0, bins |-> 0, size |-> Len(o.refs) + Len(o.bins)]
             next(acc, n) == StoreField(ls[n], IsStored(ls, n), text, o, acc)
             is(h) == h = [n \in 0 .. N |-> IF n = 0 THEN init ELSE next(h[n - 1], n)]
  <1> HIDE DEF N
  <1>9. F[0] = init
    <2>1. 0 \in 0 .. N /\ q[0] = <<>> /\ r[0] = 0 /\ b[0] = 0
      BY <1>1, <1>7, <1>19
    <2>2. F[0] = Pass(q[0], o, r[0], b[0])
      BY <2>1
    <2>3. Remaining(o, 0, 0) = Len(o.refs) + Len(o.bins)
      BY <1>8 DEF Remaining
    <2> HIDE DEF F
    <2> QED BY <2>1, <2>2, <2>3 DEF Pass
  <1>10. ASSUME NEW n \in 1 .. N PROVE F[n] = next(F[n - 1], n)
    <2> DEFINE f == ls[n]
               v == vals[n]
    <2>1. n - 1 \in 0 .. N /\ n \in 0 .. N
      BY <1>1
    <2>2. /\ Proper(f, text) /\ IsValue(f, v) /\ (f.dbs.n = 0 => n = N)
          /\ Lies(f, v, o, r[n - 1], r[n], b[n - 1], b[n])
      BY <1>2, <1>7
    <2>3. F[n - 1] = Pass(q[n - 1], o, r[n - 1], b[n - 1]) /\ F[n] = Pass(q[n], o, r[n], b[n])
      BY <2>1
    <2>4. q[n] = Taken(IsStored(ls, n), q[n - 1], StoredValue(f, v, text))
      BY <1>5, <1>19 DEF Taken
    <2>5. IsCells(f, v) /\ (f.loc.type = "ref" <=> f.dbs.type = "ref")
      BY <1>4, <2>2, ValueIsCells DEF Cells, N
    <2> HIDE DEF F, f, v
    <2>6. PICK r0 \in Nat, r1 \in Nat : r0 = r[n - 1] /\ r1 = r[n]
      BY <1>7, <2>1
    <2>7. PICK b0 \in Nat, b1 \in Nat : b0 = b[n - 1] /\ b1 = b[n]
      BY <1>7, <2>1
    <2>8. Lies(f, v, o, r0, r1, b0, b1)
      BY <2>2, <2>6, <2>7
    <2>9. ASSUME f.dbs.n = 0 PROVE Remaining(o, r0, b0) = Len(v)
      <3>1. f.loc.type # "ref"
        <4>1. f.dbs.type \notin Ints => f.dbs.n = 1
          BY <2>2 DEF Proper
        <4>2. f.dbs.type \in Ints
          BY <2>9, <4>1
        <4> QED BY <2>5, <4>2 DEF Ints
      <3>2. n = N
        BY <2>2, <2>9
      <3>3. r1 = r0 /\ b1 = b0 + Len(v) /\ Len(v) \in Nat
        BY <2>5, <2>8, <3>1, LenProperties DEF Lies, IsCells
      <3>4. r1 = Len(o.refs) /\ b1 = Len(o.bins)
        BY <1>7, <2>6, <2>7, <3>2
      <3> QED BY <1>8, <3>3, <3>4 DEF Remaining
    <2>10. PICK stored, params : stored = IsStored(ls, n) /\ params = q[n - 1]
      OBVIOUS
    <2>11. StoreField(f, stored, text, o, Pass(params, o, r0, b0))
             = Pass(Taken(stored, params, StoredValue(f, v, text)), o, r1, b1)
      BY <1>7, <2>2, <2>8, <2>9, StoreOne
    <2>12. StoreField(f, IsStored(ls, n), text, o, F[n - 1]) = F[n]
      BY <2>3, <2>4, <2>6, <2>7, <2>10, <2>11
    <2> QED BY <2>12 DEF f
  <1> HIDE DEF next, init
  <1>11. is(F)
    <2>1. F = [n \in 0 .. N |-> F[n]]
      OBVIOUS
    <2> HIDE DEF F
    <2>2. ASSUME NEW n \in 0 .. N PROVE F[n] = IF n = 0 THEN init ELSE next(F[n - 1], n)
      <3>1. n # 0 => n \in 1 .. N
        BY <1>1
      <3> QED BY <1>9, <1>10, <3>1, Zenon
    <2> QED BY <2>1, <2>2, Zenon
  <1> DEFINE p == CHOOSE h : is(h)
  <1>12. StoreStruct(ls, text, o) = p[N]
    BY DEF StoreStruct, next, N, init
  <1>13. is(p)
    <2> HIDE DEF is, F
    <2> QED BY <1>11
  <1> HIDE DEF p
  <1>14. p[0] = init /\ \A n \in 1 .. N : p[n] = next(p[n - 1], n)
    <2>1. \A n \in 0 .. N : p[n] = IF n = 0 THEN init ELSE next(p[n - 1], n)
      BY <1>13, Zenon
    <2>2. 0 \in 0 .. N /\ \A n \in 1 .. N : n \in 0 .. N /\ n # 0
      BY <1>1
    <2> QED BY <2>1, <2>2, Zenon
  <1>15. p[N] = F[N]
    <2> DEFINE T == {n \in 0 .. N : p[n] = F[n]}
    <2> HIDE DEF F
    <2>1. 0 \in T
      BY <1>1, <1>9, <1>14
    <2>2. \A n \in 1 .. N : n - 1 \in T => n \in T
      BY <1>10, <1>14
    <2> HIDE DEF T
    <2>3. 0 .. N \subseteq T
      BY <1>1, <2>1, <2>2, UpTo
    <2>4. N \in T
      BY <1>1, <2>3
    <2> QED BY <2>4 DEF T
  <1>16. F[N] = Pass(q[N], o, r[N], b[N])
    <2>1. N \in 0 .. N
      BY <1>1
    <2> QED BY <2>1
  <1>17. Remaining(o, r[N], b[N]) = 0
    BY <1>7, <1>8 DEF Remaining
  <1> HIDE DEF F
  <1>18. StoreStruct(ls, text, o).size = 0 /\ StoreStruct(ls, text, o).params = q[N]
    BY <1>12, <1>15, <1>16, <1>17 DEF Pass
  <1> QED BY <1>6, <1>18 DEF N, o

\* The SQL value of each column, which is that of the first field of its name.
RowHolds(ls, names, text, vals, params) ==
  /\ Len(params) = Len(names) /\ DOMAIN params = DOMAIN names
  /\ \A j \in DOMAIN names : \E i \in StoredSet(ls) :
       names[j] = ls[i].name /\ params[j] = StoredValue(ls[i], vals[i], text)
  /\ \A i \in StoredSet(ls) : \E j \in DOMAIN names :
       names[j] = ls[i].name /\ params[j] = StoredValue(ls[i], vals[i], text)

\* The columns and the values of a statement.
LEMMA NamesAndValues ==
  ASSUME NEW text \in BOOLEAN, NEW ls, NEW vals, Sound(ls, text, vals),
         NEW cs \in Seq(Field), Len(cs) = Len(ls), \A i \in 1 .. Len(ls) : cs[i].name = ls[i].name
  PROVE  LET s == StoreStruct(ls, text, Packed(ls, vals)) IN
         /\ s.size = 0
         /\ SideBySide(Columns(cs), s.params, StoredSet(ls), [i \in 1 .. Len(ls) |-> ls[i].name],
                       SqlValues(ls, text, vals))
  <1> DEFINE N == Len(ls)
             St == StoredSet(ls)
             x == [i \in 1 .. N |-> ls[i].name]
             y == SqlValues(ls, text, vals)
             s == StoreStruct(ls, text, Packed(ls, vals))
  <1>1. N \in Nat /\ ls \in Seq(Field)
    BY LenProperties DEF Sound
  <1>2. s.size = 0 /\ \E V, q : Chosen(ls, text, vals, V, q) /\ s.params = q[N]
    BY ParamsAre
  <1>3. PICK V, q : Chosen(ls, text, vals, V, q) /\ s.params = q[N]
    BY <1>2
  <1>4. StoredSet(cs) = St /\ [i \in 1 .. Len(cs) |-> cs[i].name] = x
    <2>1. \A i \in 1 .. N : \A j \in 1 .. i - 1 : j \in 1 .. N
      BY <1>1
    <2>2. \A i \in 1 .. N : IsStored(cs, i) <=> IsStored(ls, i)
      BY <2>1 DEF IsStored
    <2> QED BY <2>2 DEF StoredSet
  <1>5. PICK p \in [0 .. N -> Seq(Seq(STRING))] : Columns(cs) = p[N] /\ Selects(p, N, St, x)
    BY <1>4, ColumnsAre
  <1>6. /\ y \in [1 .. N -> V] /\ q \in [0 .. N -> Seq(V)] /\ Selects(q, N, St, y)
    BY <1>3 DEF Chosen
  <1>7. x \in [1 .. N -> Seq(STRING)]
    <2>1. \A i \in 1 .. N : ls[i] \in Field
      BY <1>1, ElementOfSeq
    <2> QED BY <2>1 DEF Field
  <1>8. St \in SUBSET (1 .. N)
    BY DEF StoredSet
  <1> HIDE DEF N, x, y, s, St
  <1>9. N \in Nat
    BY <1>1
  <1>10. SideBySide(p[N], q[N], St, x, y)
    <2>1. Selects(p, N, St, x) /\ Selects(q, N, St, y)
      BY <1>5, <1>6
    <2> HIDE <1>1, <1>2, <1>3, <1>4
    <2> QED BY <1>5, <1>6, <1>7, <1>8, <1>9, <2>1, SelectPairs
  <1>11. Columns(cs) = p[N] /\ s.params = q[N]
    BY <1>3, <1>5
  <1> QED BY <1>2, <1>10, <1>11, Zenon DEF N, x, y, s, St

\* store_struct binds the values in the order of the columns; cs are the fields from
\* which the columns were made, the same but for the layout in the buffer.
LEMMA StatementHolds ==
  ASSUME NEW text \in BOOLEAN, NEW ls, NEW vals, Sound(ls, text, vals),
         NEW cs \in Seq(Field), Len(cs) = Len(ls), \A i \in 1 .. Len(ls) : cs[i].name = ls[i].name
  PROVE  LET s == StoreStruct(ls, text, Packed(ls, vals)) IN
         s.size = 0 /\ RowHolds(ls, Columns(cs), text, vals, s.params)
  <1> DEFINE x == [i \in 1 .. Len(ls) |-> ls[i].name]
             y == SqlValues(ls, text, vals)
             s == StoreStruct(ls, text, Packed(ls, vals))
             names == Columns(cs)
             params == s.params
             St == StoredSet(ls)
  <1>1. s.size = 0 /\ SideBySide(names, params, St, x, y)
    BY NamesAndValues
  <1>2. \A i \in St : i \in 1 .. Len(ls)
    BY DEF StoredSet
  <1>3. \A i \in 1 .. Len(ls) : x[i] = ls[i].name /\ y[i] = StoredValue(ls[i], vals[i], text)
    BY DEF SqlValues
  <1> HIDE DEF x, y, s, names, params, St
  <1>4. Len(params) = Len(names) /\ DOMAIN params = DOMAIN names /\ DOMAIN names = 1 .. Len(names)
    BY <1>1 DEF SideBySide
  <1>5. \A j \in 1 .. Len(names) : \E i \in St : names[j] = x[i] /\ params[j] = y[i]
    BY <1>1, Zenon DEF SideBySide
  <1>6. \A i \in St : \E j \in 1 .. Len(names) : names[j] = x[i] /\ params[j] = y[i]
    BY <1>1, Zenon DEF SideBySide
  <1>7. \A j \in DOMAIN names : \E i \in St :
          names[j] = ls[i].name /\ params[j] = StoredValue(ls[i], vals[i], text)
    BY <1>2, <1>3, <1>4, <1>5, Zenon
  <1>8. \A i \in St : \E j \in DOMAIN names :
          names[j] = ls[i].name /\ params[j] = StoredValue(ls[i], vals[i], text)
    BY <1>2, <1>3, <1>4, <1>6, Zenon
  <1>9. RowHolds(ls, names, text, vals, params)
    BY <1>4, <1>7, <1>8, Zenon DEF RowHolds, St
  <1> QED BY <1>1, <1>9 DEF names, params, s

\* The first field of each name.
LEMMA FirstOfName ==
  ASSUME NEW ls \in Seq(Field), NEW i \in 1 .. Len(ls)
  PROVE  \E k \in StoredSet(ls) : ls[k].name = ls[i].name
  <1> DEFINE T == {k \in 1 .. Len(ls) : ls[k].name = ls[i].name}
  <1>1. Len(ls) \in Nat /\ T \in SUBSET Nat /\ i \in T
    BY LenProperties
  <1> HIDE DEF T
  <1>2. PICK k \in T : \A j \in T : k <= j
    BY <1>1, LeastExists
  <1>3. k \in 1 .. Len(ls) /\ ls[k].name = ls[i].name
    BY <1>2 DEF T
  <1>4. \A j \in 1 .. k - 1 : j \in 1 .. Len(ls) /\ ~(k <= j)
    BY <1>1, <1>3
  <1>5. \A j \in 1 .. k - 1 : j \notin T
    BY <1>2, <1>4
  <1>6. IsStored(ls, k)
    BY <1>3, <1>4, <1>5 DEF IsStored, T
  <1> QED BY <1>3, <1>6 DEF StoredSet

\* No two of them have one name.
LEMMA StoredOnce ==
  ASSUME NEW ls \in Seq(Field), NEW i \in StoredSet(ls), NEW k \in StoredSet(ls), ls[i].name = ls[k].name
  PROVE  i = k
  <1>1. i \in 1 .. Len(ls) /\ k \in 1 .. Len(ls) /\ Len(ls) \in Nat
    BY LenProperties DEF StoredSet
  <1>2. i < k => i \in 1 .. k - 1
    BY <1>1
  <1>3. k < i => k \in 1 .. i - 1
    BY <1>1
  <1>4. ~(i < k) /\ ~(k < i)
    BY <1>2, <1>3 DEF StoredSet, IsStored
  <1> QED BY <1>1, <1>4

\* Each column of r has the value of the first field of its name.
FitsRow(ls, text, vals, r) ==
  /\ r = [name \in {ls[i].name : i \in 1 .. Len(ls)} |-> r[name]]
  /\ \A i \in StoredSet(ls) : r[ls[i].name] = StoredValue(ls[i], vals[i], text)

\* The row of a statement.
LEMMA RowIs ==
  ASSUME NEW text, NEW ls \in Seq(Field), NEW vals, NEW names, NEW params,
         RowHolds(ls, names, text, vals, params)
  PROVE  FitsRow(ls, text, vals, RowOf(names, params))
  <1> DEFINE r == RowOf(names, params)
             D == {names[j] : j \in DOMAIN names}
             C == {ls[i].name : i \in 1 .. Len(ls)}
             pick(name) == CHOOSE j \in DOMAIN names : names[j] = name
  <1>1. r = [name \in D |-> params[pick(name)]]
    BY DEF RowOf
  <1>2. D = C
    <2>1. ASSUME NEW j \in DOMAIN names PROVE names[j] \in C
      <3>1. PICK i \in StoredSet(ls) : names[j] = ls[i].name
        BY DEF RowHolds
      <3> QED BY <3>1 DEF StoredSet
    <2>2. ASSUME NEW i \in 1 .. Len(ls) PROVE ls[i].name \in D
      <3>1. PICK k \in StoredSet(ls) : ls[k].name = ls[i].name
        BY FirstOfName
      <3>2. PICK j \in DOMAIN names : names[j] = ls[k].name
        BY DEF RowHolds
      <3> QED BY <3>1, <3>2
    <2> QED BY <2>1, <2>2
  <1>3. ASSUME NEW i \in StoredSet(ls) PROVE r[ls[i].name] = StoredValue(ls[i], vals[i], text)
    <2> DEFINE j == pick(ls[i].name)
    <2>1. j \in DOMAIN names /\ names[j] = ls[i].name
      BY DEF RowHolds
    <2>2. ls[i].name \in D
      BY <2>1
    <2>3. r[ls[i].name] = params[j]
      <3> HIDE DEF r, D
      <3> QED BY <1>1, <2>2
    <2> HIDE DEF j, r
    <2>4. PICK k \in StoredSet(ls) : names[j] = ls[k].name /\ params[j] = StoredValue(ls[k], vals[k], text)
      BY <2>1 DEF RowHolds
    <2>5. k = i
      BY <2>1, <2>4, StoredOnce
    <2> QED BY <2>3, <2>4, <2>5
  <1>4. r = [name \in C |-> r[name]]
    <2> HIDE DEF r, pick, D, C
    <2>1. r = [name \in C |-> params[pick(name)]]
      BY <1>1, <1>2
    <2> QED BY <2>1
  <1> HIDE DEF r
  <1>5. FitsRow(ls, text, vals, r)
    BY <1>3, <1>4 DEF FitsRow
  <1> QED BY <1>5 DEF r

-----------------------------------------------------------------------------
(* What is read back                                                       *)

\* The fields of a class and the values of one of its objects.
LEMMA FieldsAreSound ==
  ASSUME NEW text \in BOOLEAN, NEW ls, WellFormed(ls, text), NEW vals,
         \A i \in DOMAIN ls : IsValue(ls[i], vals[i])
  PROVE  Sound(ls, text, vals)
  <1>1. ls \in Seq(Field) /\ DOMAIN ls = 1 .. Len(ls)
    BY LenProperties DEF WellFormed
  <1>2. ASSUME NEW i \in 1 .. Len(ls)
        PROVE  Proper(ls[i], text) /\ IsValue(ls[i], vals[i]) /\ (ls[i].dbs.n = 0 => i = Len(ls))
    <2> DEFINE f == ls[i]
    <2>1. f \in Field
      BY <1>1, ElementOfSeq
    <2>2. /\ Fits(f)
          /\ \A l \in {f.dbs, f.loc} :
               /\ l.type \notin Ints => l.n = 1
               /\ l.n = 0 => /\ i = Len(ls)
                             /\ text => /\ f.dbs = f.loc /\ f.binary
                                        /\ l.type = "int" /\ l.size = 1
      BY Zenon DEF WellFormed
    <2> HIDE DEF f
    <2>3. Proper(f, text) /\ (f.dbs.n = 0 => i = Len(ls))
      BY <2>1, <2>2 DEF Proper
    <2> QED BY <1>1, <2>3 DEF f
  <1> QED BY <1>1, <1>2 DEF Sound

\* The fields as the program declares them.
LEMMA CurrentIs ==
  ASSUME NEW ls \in Seq(Field)
  PROVE  /\ Current(ls) \in Seq(Field) /\ Len(Current(ls)) = Len(ls)
         /\ \A i \in 1 .. Len(ls) : Current(ls)[i] = Now(ls[i]) /\ Current(ls)[i].name = ls[i].name
  <1> DEFINE cs == Current(ls)
             N == Len(ls)
  <1>1. N \in Nat /\ DOMAIN ls = 1 .. N
    BY LenProperties
  <1>2. \A i \in 1 .. N : ls[i] \in Field
    BY ElementOfSeq
  <1>3. \A i \in 1 .. N : Now(ls[i]) \in Field /\ Now(ls[i]).name = ls[i].name
    BY <1>2, NowProperties
  <1>4. cs = [i \in 1 .. N |-> Now(ls[i])]
    BY <1>1 DEF Current, Now
  <1> HIDE DEF cs, N
  <1>5. cs \in [1 .. N -> Field]
    BY <1>3, <1>4
  <1>6. cs \in Seq(Field) /\ Len(cs) = N
    BY <1>1, <1>5, IsASeq
  <1>7. \A i \in 1 .. N : cs[i] = Now(ls[i]) /\ cs[i].name = ls[i].name
    BY <1>3, <1>4
  <1> QED BY <1>6, <1>7 DEF cs, N

LEMMA CurrentIsStored ==
  ASSUME NEW ls \in Seq(Field)
  PROVE  StoredSet(Current(ls)) = StoredSet(ls)
  <1> DEFINE cs == Current(ls)
  <1>1. Len(cs) = Len(ls) /\ \A i \in 1 .. Len(ls) : cs[i].name = ls[i].name
    BY CurrentIs
  <1>2. Len(ls) \in Nat
    BY LenProperties
  <1> HIDE DEF cs
  <1>3. \A i \in 1 .. Len(ls) : \A j \in 1 .. i - 1 : j \in 1 .. Len(ls)
    BY <1>2
  <1>4. \A i \in 1 .. Len(ls) : IsStored(cs, i) <=> IsStored(ls, i)
    BY <1>1, <1>3 DEF IsStored
  <1> QED BY <1>1, <1>4 DEF StoredSet, cs

LEMMA CurrentIsSound ==
  ASSUME NEW text \in BOOLEAN, NEW ls, WellFormed(ls, text), NEW vals,
         \A i \in 1 .. Len(ls) : IsValue(Now(ls[i]), vals[i])
  PROVE  Sound(Current(ls), text, vals)
  <1> DEFINE cs == Current(ls)
  <1>1. ls \in Seq(Field)
    BY DEF WellFormed
  <1>2. cs \in Seq(Field) /\ Len(cs) = Len(ls) /\ \A i \in 1 .. Len(ls) : cs[i] = Now(ls[i])
    BY <1>1, CurrentIs
  <1> HIDE DEF cs
  <1>3. ASSUME NEW i \in 1 .. Len(ls)
        PROVE  Proper(cs[i], text) /\ (cs[i].dbs.n = 0 => i = Len(ls))
    <2> DEFINE f == ls[i]
               g == Now(f)
    <2>1. f \in Field
      BY <1>1, ElementOfSeq
    <2>2. /\ Fits(f)
          /\ \A l \in {f.dbs, f.loc} :
               /\ l.type \notin Ints => l.n = 1
               /\ l.n = 0 => /\ i = Len(ls)
                             /\ text => /\ f.dbs = f.loc /\ f.binary
                                        /\ l.type = "int" /\ l.size = 1
      BY Zenon DEF WellFormed
    <2> HIDE DEF f
    <2>3. g \in Field /\ g.dbs = f.loc /\ g.loc = f.loc /\ g.binary = f.binary
      BY <2>1, NowProperties
    <2> HIDE DEF g
    <2>4. Fits(g)
      BY <2>3 DEF Fits
    <2>5. Proper(g, text) /\ (g.dbs.n = 0 => i = Len(ls))
      BY <2>2, <2>3, <2>4 DEF Proper
    <2>6. cs[i] = g
      BY <1>2 DEF f, g
    <2> QED BY <2>5, <2>6
  <1>4. Sound(cs, text, vals)
    BY <1>2, <1>3 DEF Sound
  <1> QED BY <1>4 DEF cs

\* The values of an object are packed by the layout of the program.
LEMMA CurrentIsPacked ==
  ASSUME NEW ls \in Seq(Field), NEW vals, Cells(ls, vals)
  PROVE  Packed(ls, vals) = Packed(Current(ls), vals)
  <1> DEFINE N == Len(ls)
             cs == Current(ls)
             one(n, o) == PackOne(ls[n], vals[n], o)
  <1>1. N \in Nat /\ cs \in Seq(Field) /\ Len(cs) = N /\ \A n \in 1 .. N : cs[n].loc = ls[n].loc
    <2>1. \A n \in 1 .. N : ls[n] \in Field
      BY ElementOfSeq
    <2>2. \A n \in 1 .. N : Now(ls[n]).loc = ls[n].loc
      BY <2>1, NowProperties
    <2> QED BY <2>2, CurrentIs, LenProperties
  <1> HIDE DEF N, cs
  <1>2. Cells(cs, vals)
    BY <1>1 DEF Cells, IsCells, N
  <1>3. \E q \in [0 .. Len(cs) -> Buffer] :
            /\ Packed(cs, vals) = q[Len(cs)] /\ q[0] = [refs |-> <<>>, bins |-> <<>>]
            /\ \A n \in 1 .. Len(cs) : q[n] = PackOne(cs[n], vals[n], q[n - 1])
    <2>1. cs \in Seq(Field)
      BY <1>1
    <2> QED BY <1>2, <2>1, PackedUnfolds
  <1>4. PICK p \in [0 .. N -> Buffer] :
           /\ Packed(ls, vals) = p[N] /\ p[0] = [refs |-> <<>>, bins |-> <<>>]
           /\ \A n \in 1 .. N : p[n] = one(n, p[n - 1])
    BY PackedUnfolds DEF N
  <1>5. PICK q \in [0 .. N -> Buffer] :
           /\ Packed(cs, vals) = q[N] /\ q[0] = [refs |-> <<>>, bins |-> <<>>]
           /\ \A n \in 1 .. N : q[n] = PackOne(cs[n], vals[n], q[n - 1])
    BY <1>1, <1>3, Zenon
  <1>6. \A n \in 1 .. N : q[n] = one(n, q[n - 1])
    BY <1>1, <1>5 DEF PackOne
  <1> DEFINE T == {n \in 0 .. N : p[n] = q[n]}
  <1> HIDE DEF one
  <1>7. 0 \in T
    BY <1>1, <1>4, <1>5
  <1>8. \A n \in 1 .. N : n - 1 \in T => n \in T
    BY <1>4, <1>6
  <1> HIDE DEF T
  <1>9. 0 .. N \subseteq T
    BY <1>1, <1>7, <1>8, UpTo
  <1>10. N \in T
    BY <1>1, <1>9
  <1> QED BY <1>4, <1>5, <1>10 DEF T, cs

\* r is the row of an object with these values; where it lacks a column it has NULL.
IsRow(ls, text, vals, r, lacks) ==
  /\ r = [name \in {ls[i].name : i \in 1 .. Len(ls)} |-> r[name]]
  /\ \A i \in StoredSet(ls) :
       /\ StoredValue(ls[i], vals[i], text) # NoText
       /\ \/ r[ls[i].name] = StoredValue(ls[i], vals[i], text)
          \/ lacks /\ r[ls[i].name] = Null

\* unpack_int_array refuses the row.
Refuses(ls, r) ==
  \E i \in DOMAIN ls :
    IsArray(ls[i]) /\ (r[ls[i].name] = Null \/ ls[i].loc.n \notin {0, Len(r[ls[i].name][2])})

\* The values read from a row.
ReadValues(ls, text, r) == [i \in DOMAIN ls |-> UnpackedValue(ls[i], r[ls[i].name], text)]

\* Only the layout of the program is used to read a value.
LEMMA SameLayout ==
  ASSUME NEW f \in Field, NEW g \in Field, f.loc = g.loc, f.binary = g.binary, f.name = g.name
  PROVE  Now(f) = Now(g) /\ \A x, text : UnpackedValue(f, x, text) = UnpackedValue(g, x, text)
  <1>1. Now(f) = Now(g)
    BY DEF Now, Field
  <1>2. \A x, text : UnpackedValue(f, x, text) = UnpackedValue(g, x, text)
    BY Zenon DEF UnpackedValue, UnpackChars
  <1> QED BY <1>1, <1>2

\* A value that is read is one that the declared field may hold.
LEMMA ValueIsRead ==
  ASSUME NEW text \in BOOLEAN, NEW ls, WellFormed(ls, text), NEW vals, Sound(ls, text, vals),
         NEW r, NEW lacks \in BOOLEAN, IsRow(ls, text, vals, r, lacks), ~Refuses(ls, r),
         NEW i \in 1 .. Len(ls)
  PROVE  IsValue(Now(ls[i]), UnpackedValue(ls[i], r[ls[i].name], text))
  <1> DEFINE f == ls[i]
  <1>1. ls \in Seq(Field) /\ DOMAIN ls = 1 .. Len(ls)
    BY LenProperties DEF Sound
  <1>2. PICK k \in StoredSet(ls) : ls[k].name = f.name
    BY <1>1, FirstOfName
  <1> DEFINE g == ls[k]
             x == r[f.name]
  <1>3. k \in 1 .. Len(ls)
    BY <1>2 DEF StoredSet
  <1>4. f \in Field /\ g \in Field
    BY <1>1, <1>3, ElementOfSeq
  <1>5. f.loc = g.loc /\ f.binary = g.binary
    BY <1>1, <1>2, <1>3, Zenon DEF WellFormed
  <1>6. Proper(f, text) /\ Proper(g, text) /\ IsValue(g, vals[k])
    BY <1>3 DEF Sound
  <1>7. StoredValue(g, vals[k], text) # NoText /\ (x = StoredValue(g, vals[k], text) \/ x = Null)
    BY <1>2 DEF IsRow
  <1>8. IsArray(f) => x # Null
    BY <1>1 DEF Refuses
  <1> HIDE DEF f, g, x
  <1>9. Now(f) = Now(g) /\ UnpackedValue(f, x, text) = UnpackedValue(g, x, text)
    BY <1>2, <1>4, <1>5, SameLayout DEF f, g
  <1>10. CASE x = Null
    <2>1. IsValue(Now(f), UnpackedValue(f, Null, text))
      BY <1>6, <1>8, <1>10, NullIsValue
    <2> QED BY <1>10, <2>1 DEF f, x
  <1>11. CASE x = StoredValue(g, vals[k], text)
    <2>1. Kept(g, vals[k], text)
      BY <1>6, <1>7, FieldIsKept
    <2>2. IsValue(Now(g), UnpackedValue(g, x, text))
      BY <1>11, <2>1 DEF Kept
    <2> QED BY <1>9, <2>2 DEF f, x
  <1> QED BY <1>7, <1>10, <1>11

\* Where the row has a value, the field that was read has the same one.
LEMMA ValueIsStored ==
  ASSUME NEW text \in BOOLEAN, NEW ls, NEW vals, Sound(ls, text, vals),
         NEW r, NEW lacks \in BOOLEAN, IsRow(ls, text, vals, r, lacks),
         NEW i \in StoredSet(ls), r[ls[i].name] # Null
  PROVE  StoredValue(Now(ls[i]), UnpackedValue(ls[i], r[ls[i].name], text), text) = r[ls[i].name]
  <1> DEFINE f == ls[i]
             x == r[f.name]
  <1>1. i \in 1 .. Len(ls)
    BY DEF StoredSet
  <1>2. Proper(f, text) /\ IsValue(f, vals[i])
    BY <1>1 DEF Sound
  <1>3. x = StoredValue(f, vals[i], text) /\ StoredValue(f, vals[i], text) # NoText
    BY DEF IsRow
  <1> HIDE DEF f, x
  <1>4. Kept(f, vals[i], text)
    BY <1>2, <1>3, FieldIsKept
  <1>5. StoredValue(Now(f), UnpackedValue(f, x, text), text) = x
    BY <1>3, <1>4 DEF Kept
  <1> QED BY <1>5 DEF f, x

\* No value of the row r is lost in the row q.
KeepsRow(r, q) == \A name \in DOMAIN r : r[name] # Null => q[name] = r[name]

\* Writing an object that was only read changes no value of its row.
LEMMA RowIsKept ==
  ASSUME NEW text \in BOOLEAN, NEW ls, WellFormed(ls, text), NEW vals, Sound(ls, text, vals),
         NEW r, NEW lacks \in BOOLEAN, IsRow(ls, text, vals, r, lacks), ~Refuses(ls, r)
  PROVE  KeepsRow(r, RowOf(Columns(ls), StoreStruct(Current(ls), text, UnpackStruct(ls, text, r)).params))
  <1> SUFFICES ASSUME NEW name \in DOMAIN r, r[name] # Null
               PROVE  RowOf(Columns(ls), StoreStruct(Current(ls), text, UnpackStruct(ls, text, r)).params)[name]
                        = r[name]
    BY DEF KeepsRow
  <1> DEFINE u == ReadValues(ls, text, r)
             cs == Current(ls)
             o == UnpackStruct(ls, text, r)
             s == StoreStruct(cs, text, o)
             a == RowOf(Columns(ls), s.params)
  <1>1. ls \in Seq(Field) /\ DOMAIN ls = 1 .. Len(ls)
    BY LenProperties DEF Sound
  <1>2. \A i \in 1 .. Len(ls) : u[i] = UnpackedValue(ls[i], r[ls[i].name], text)
    BY <1>1 DEF ReadValues
  <1>3. o = Packed(ls, u)
    BY DEF UnpackStruct, ReadValues
  <1> HIDE DEF u, o
  <1>4. \A i \in 1 .. Len(ls) : IsValue(Now(ls[i]), u[i])
    BY <1>2, ValueIsRead
  <1>5. Sound(cs, text, u)
    BY <1>4, CurrentIsSound
  <1>6. /\ cs \in Seq(Field) /\ Len(cs) = Len(ls)
        /\ \A i \in 1 .. Len(ls) : cs[i] = Now(ls[i]) /\ cs[i].name = ls[i].name
    BY <1>1, CurrentIs
  <1>7. StoredSet(cs) = StoredSet(ls)
    BY <1>1, CurrentIsStored
  <1>8. o = Packed(cs, u)
    <2>1. Cells(cs, u)
      <3>1. ASSUME NEW i \in 1 .. Len(cs) PROVE IsCells(cs[i], u[i])
        <4>1. Proper(cs[i], text) /\ IsValue(cs[i], u[i])
          BY <1>5, <3>1 DEF Sound
        <4> QED BY <4>1, ValueIsCells DEF IsCells
      <3> QED BY <3>1 DEF Cells
    <2>2. Cells(ls, u)
      <3>1. \A i \in 1 .. Len(ls) : ls[i] \in Field
        BY <1>1, ElementOfSeq
      <3>2. \A i \in 1 .. Len(ls) : cs[i].loc = ls[i].loc
        BY <1>6, <3>1, NowProperties
      <3> HIDE DEF cs
      <3> QED BY <1>6, <2>1, <3>2 DEF Cells, IsCells
    <2> QED BY <1>1, <1>3, <2>2, CurrentIsPacked
  <1> HIDE DEF cs
  <1>9. RowHolds(cs, Columns(ls), text, u, s.params)
    <2>1. \A i \in 1 .. Len(cs) : ls[i].name = cs[i].name
      BY <1>6
    <2>2. Len(ls) = Len(cs)
      BY <1>6
    <2> QED BY <1>1, <1>5, <1>8, <2>1, <2>2, StatementHolds
  <1> HIDE DEF s
  <1>10. \A i \in StoredSet(cs) : a[cs[i].name] = StoredValue(cs[i], u[i], text)
    <2> DEFINE names == Columns(ls)
               params == s.params
               b == RowOf(names, params)
    <2>1. cs \in Seq(Field) /\ RowHolds(cs, names, text, u, params)
      BY <1>6, <1>9
    <2> HIDE DEF names, params
    <2>2. FitsRow(cs, text, u, b)
      BY <2>1, RowIs
    <2> QED BY <2>2 DEF names, params, FitsRow
  <1>11. PICK k \in 1 .. Len(ls) : name = ls[k].name
    BY DEF IsRow
  <1>12. PICK i \in StoredSet(ls) : ls[i].name = name
    BY <1>1, <1>11, FirstOfName
  <1> HIDE DEF a
  <1>13. i \in 1 .. Len(ls)
    BY <1>12 DEF StoredSet
  <1>14. a[name] = StoredValue(Now(ls[i]), u[i], text)
    BY <1>6, <1>7, <1>10, <1>12, <1>13
  <1>15. a[name] = StoredValue(Now(ls[i]), UnpackedValue(ls[i], r[ls[i].name], text), text)
    BY <1>2, <1>13, <1>14
  <1>16. r[ls[i].name] # Null
    BY <1>12
  <1>17. StoredValue(Now(ls[i]), UnpackedValue(ls[i], r[ls[i].name], text), text) = r[name]
    BY <1>12, <1>16, ValueIsStored
  <1> QED BY <1>15, <1>17 DEF a, s, cs, o

\* An object of unique names, without a zero in its text.
AllKept(ls, text, vals) ==
  /\ \A i \in DOMAIN ls : \A j \in DOMAIN ls : ls[i].name = ls[j].name => i = j
  /\ \A i \in DOMAIN ls : KeepsAll(ls[i], vals[i], text)
  /\ vals = [i \in DOMAIN ls |-> vals[i]]

\* It is read as it was written.
LEMMA ValuesAreExact ==
  ASSUME NEW text \in BOOLEAN, NEW ls, NEW vals, Sound(ls, text, vals),
         NEW r, IsRow(ls, text, vals, r, FALSE),
         AllKept(ls, text, vals)
  PROVE  UnpackStruct(ls, text, r) = Packed(ls, vals)
  <1>1. ls \in Seq(Field) /\ DOMAIN ls = 1 .. Len(ls) /\ Len(ls) \in Nat
    BY LenProperties DEF Sound
  <1>2. ASSUME NEW i \in DOMAIN ls PROVE UnpackedValue(ls[i], r[ls[i].name], text) = vals[i]
    <2>1. \A j \in 1 .. i - 1 : j \in DOMAIN ls /\ j # i
      BY <1>1
    <2>2. i \in StoredSet(ls)
      BY <1>1, <2>1 DEF StoredSet, IsStored, AllKept
    <2>3. r[ls[i].name] = StoredValue(ls[i], vals[i], text) /\ StoredValue(ls[i], vals[i], text) # NoText
      BY <2>2 DEF IsRow
    <2>4. Proper(ls[i], text) /\ IsValue(ls[i], vals[i]) /\ KeepsAll(ls[i], vals[i], text)
      BY <1>1 DEF Sound, AllKept
    <2>5. UnpackedValue(ls[i], StoredValue(ls[i], vals[i], text), text) = vals[i]
      BY <2>3, <2>4, FieldIsExact
    <2> QED BY <2>3, <2>5
  <1>3. [i \in DOMAIN ls |-> UnpackedValue(ls[i], r[ls[i].name], text)] = vals
    BY <1>2 DEF AllKept
  <1> QED BY <1>3 DEF UnpackStruct

-----------------------------------------------------------------------------
(* The rows of the classes                                                 *)

\* What LayoutAssumption says of a class without a varying number of references.
LEMMA ClassIsSound ==
  ASSUME NEW c \in DOMAIN Layout, ~Layout[c].refs
  PROVE  /\ Layout[c].text \in BOOLEAN /\ WellFormed(Layout[c].leaves, Layout[c].text)
         /\ \A v \in Instances[c] :
              /\ v = [i \in DOMAIN Layout[c].leaves |-> v[i]]
              /\ Sound(Layout[c].leaves, Layout[c].text, v)
  <1> DEFINE ls == Layout[c].leaves
             text == Layout[c].text
  <1>1. /\ text \in BOOLEAN /\ WellFormed(ls, text)
        /\ \A v \in Instances[c] :
             /\ v = [i \in DOMAIN ls |-> v[i]]
             /\ \A i \in DOMAIN ls : IsValue(ls[i], v[i])
    BY LayoutAssumption, Zenon
  <1> HIDE DEF ls, text
  <1>2. ASSUME NEW v \in Instances[c] PROVE Sound(ls, text, v)
    BY <1>1, FieldsAreSound
  <1> QED BY <1>1, <1>2, Zenon DEF ls, text

\* The statement takes the whole object, and its row is that of the object.
LEMMA ClassIsWritten ==
  ASSUME NEW text \in BOOLEAN, NEW ls, NEW vals, Sound(ls, text, vals), NEW s,
         s = StoreStruct(ls, text, Packed(ls, vals))
  PROVE  /\ s.size = 0 /\ Len(s.params) = Len(Columns(ls))
         /\ (\A i \in DOMAIN s.params : s.params[i] # NoText) =>
               IsRow(ls, text, vals, RowOf(Columns(ls), s.params), FALSE)
  <1> DEFINE names == Columns(ls)
             params == s.params
             r == RowOf(names, params)
  <1>1. ls \in Seq(Field)
    BY DEF Sound
  <1>2. s.size = 0 /\ RowHolds(ls, names, text, vals, params)
    BY <1>1, StatementHolds
  <1> HIDE DEF names, params
  <1>3. FitsRow(ls, text, vals, r)
    BY <1>1, <1>2, RowIs
  <1> HIDE DEF r
  <1>4. Len(params) = Len(names) /\ DOMAIN params = DOMAIN names
    BY <1>2 DEF RowHolds
  <1>5. ASSUME \A i \in DOMAIN params : params[i] # NoText
        PROVE  IsRow(ls, text, vals, r, FALSE)
    <2>1. ASSUME NEW i \in StoredSet(ls) PROVE StoredValue(ls[i], vals[i], text) # NoText
      <3>1. PICK j \in DOMAIN names : params[j] = StoredValue(ls[i], vals[i], text)
        BY <1>2 DEF RowHolds
      <3> QED BY <1>4, <1>5, <3>1
    <2> QED BY <1>3, <2>1, Zenon DEF FitsRow, IsRow
  <1> QED BY <1>2, <1>4, <1>5, Zenon DEF r, names, params

\* A column that the row lacks.
LEMMA RowLacks ==
  ASSUME NEW ls, NEW text, NEW vals, NEW r, IsRow(ls, text, vals, r, FALSE), NEW name \in DOMAIN r
  PROVE  IsRow(ls, text, vals, [r EXCEPT ![name] = Null], TRUE)
  <1> DEFINE D == {ls[i].name : i \in 1 .. Len(ls)}
             q == [r EXCEPT ![name] = Null]
  <1>1. r = [n \in D |-> r[n]]
    BY DEF IsRow
  <1>2. \A i \in StoredSet(ls) : ls[i].name \in D
    BY DEF StoredSet
  <1> HIDE DEF D
  <1>3. q = [n \in D |-> q[n]] /\ \A n \in D : q[n] = r[n] \/ q[n] = Null
    BY <1>1
  <1> HIDE DEF q
  <1>4. \A i \in StoredSet(ls) :
          /\ StoredValue(ls[i], vals[i], text) # NoText
          /\ q[ls[i].name] = StoredValue(ls[i], vals[i], text) \/ q[ls[i].name] = Null
    <2>1. \A i \in StoredSet(ls) : /\ StoredValue(ls[i], vals[i], text) # NoText
                                   /\ r[ls[i].name] = StoredValue(ls[i], vals[i], text)
      BY DEF IsRow
    <2> QED BY <1>2, <1>3, <2>1
  <1>5. IsRow(ls, text, vals, q, TRUE)
    BY <1>3, <1>4, Zenon DEF IsRow, D
  <1> QED BY <1>5 DEF q

\* The row of an object of a varying number of references.
ReferenceRow(o) == RowOf(<<<<"length">>, <<"array">>>>, StoreReferences(o).params)

LEMMA ReferencesAreKept ==
  ASSUME NEW s \in Seq(Nat), NEW o, o = [refs |-> s, bins |-> <<Len(s)>>]
  PROVE  /\ UnpackReferences(ReferenceRow(o)) = o
         /\ StoreReferences(o).size = 0 /\ Len(StoreReferences(o).params) = 2
  <1> DEFINE names == <<<<"length">>, <<"array">>>>
             all == SubSeq(s, 1, Len(s))
             params == <<<<"int", Len(s)>>, <<"refs", all>>>>
             r == RowOf(names, params)
             j == CHOOSE i \in DOMAIN names : names[i] = <<"array">>
  <1>1. Len(s) \in Nat /\ all = s
    <2>1. Len(s) \in Nat
      BY LenProperties
    <2>2. all \in Seq(Nat) /\ Len(all) = Len(s) /\ \A i \in 1 .. Len(s) : all[i] = s[i]
      BY <2>1, SubSeqProperties
    <2> HIDE DEF all
    <2> QED BY <2>1, <2>2, SeqEqual
  <1>2. StoreReferences(o).params = params /\ StoreReferences(o).size = 0
    BY DEF StoreReferences
  <1> HIDE DEF all
  <1>3. DOMAIN names = 1 .. 2 /\ names[1] = <<"length">> /\ names[2] = <<"array">>
    OBVIOUS
  <1>4. <<"length">> # <<"array">>
    OBVIOUS
  <1> HIDE DEF names
  <1>5. j \in DOMAIN names /\ names[j] = <<"array">>
    <2>1. 2 \in DOMAIN names
      BY <1>3
    <2> QED BY <1>3, <2>1
  <1>6. j = 2
    BY <1>3, <1>4, <1>5
  <1>7. r[<<"array">>] = params[j]
    <2>1. <<"array">> \in {names[i] : i \in DOMAIN names}
      BY <1>5
    <2> HIDE DEF params
    <2> QED BY <2>1 DEF RowOf
  <1>8. r[<<"array">>] = <<"refs", all>>
    <2> HIDE DEF r, j, names
    <2> QED BY <1>6, <1>7
  <1> HIDE DEF r, params
  <1>9. r[<<"array">>][2] = s
    BY <1>1, <1>8
  <1>10. ReferenceRow(o) = r
    BY <1>2 DEF ReferenceRow, r, names
  <1>11. Len(params) = 2
    BY DEF params
  <1> QED BY <1>2, <1>9, <1>10, <1>11 DEF UnpackReferences

\* The row that was written for the object o of class c.
WrittenRow(c, o, r, lacks) ==
  IF Layout[c].refs THEN r = ReferenceRow(o)
  ELSE \A v \in Instances[c] : o = Packed(Layout[c].leaves, v) =>
         IsRow(Layout[c].leaves, Layout[c].text, v, r, lacks)

\* The inductive invariant: until it is read the row is the one that was written, but
\* for the column it may have come to lack.
RowsInv ==
  /\ cls \in DOMAIN Layout /\ obj \in ObjectsOf(cls)
  /\ pc \in {"read", "evolved"} => WrittenRow(cls, obj, row, pc = "evolved")
  /\ StatementTakesAllValues
  /\ UnchangedObjectWritesSameRow
  /\ ReadsBackExactly

LEMMA RowsInitially ==
  RowsInit => RowsInv
  BY DEF RowsInit, RowsInv, StatementTakesAllValues, UnchangedObjectWritesSameRow, ReadsBackExactly

LEMMA RowIsWritten ==
  ASSUME RowsInv, Write
  PROVE  RowsInv'
  <1> DEFINE ls == Layout[cls].leaves
             text == Layout[cls].text
             s == Store(ls, obj)
             names == ColumnNames(ls)
  <1>1. cls \in DOMAIN Layout /\ obj \in ObjectsOf(cls) /\ left = 0
    BY DEF RowsInv, StatementTakesAllValues
  <1>2. cls' = cls /\ obj' = obj
    BY DEF Write
  <1>3. /\ Len(s.params) = Len(names)
        /\ (\A i \in DOMAIN s.params : s.params[i] # NoText) =>
             s.size = 0 /\ WrittenRow(cls, obj, RowOf(names, s.params), FALSE)
    <2>1. CASE Layout[cls].refs
      <3>1. PICK q \in Instances[cls] : obj = [refs |-> q, bins |-> <<Len(q)>>]
        BY <1>1, <2>1 DEF ObjectsOf
      <3>2. q \in Seq(Nat)
        BY <1>1, <2>1, <3>1, LayoutAssumption
      <3>3. s = StoreReferences(obj) /\ names = <<<<"length">>, <<"array">>>>
        BY <2>1 DEF Store, ColumnNames
      <3>4. s.size = 0 /\ Len(s.params) = 2
        BY <3>1, <3>2, <3>3, ReferencesAreKept
      <3>5. Len(names) = 2
        BY <3>3
      <3>6. RowOf(names, s.params) = ReferenceRow(obj)
        BY <3>3 DEF ReferenceRow
      <3> HIDE DEF s, names
      <3> QED BY <2>1, <3>4, <3>5, <3>6, Zenon DEF WrittenRow
    <2>2. CASE ~Layout[cls].refs
      <3>1. /\ text \in BOOLEAN
            /\ \A v \in Instances[cls] : Sound(ls, text, v)
        BY <1>1, <2>2, ClassIsSound
      <3>2. s = StoreStruct(ls, text, obj) /\ names = Columns(ls)
        BY <2>2 DEF Store, ColumnNames
      <3>3. PICK v \in Instances[cls] : obj = Packed(ls, v)
        BY <1>1, <2>2 DEF ObjectsOf
      <3> HIDE DEF s, names, ls, text
      <3>4. \A w \in Instances[cls] : obj = Packed(ls, w) =>
              /\ s.size = 0 /\ Len(s.params) = Len(names)
              /\ (\A i \in DOMAIN s.params : s.params[i] # NoText) =>
                    IsRow(ls, text, w, RowOf(names, s.params), FALSE)
        BY <3>1, <3>2, ClassIsWritten
      <3>5. s.size = 0 /\ Len(s.params) = Len(names)
        BY <3>3, <3>4
      <3>6. (\A i \in DOMAIN s.params : s.params[i] # NoText) =>
              WrittenRow(cls, obj, RowOf(names, s.params), FALSE)
        BY <2>2, <3>4, Zenon DEF WrittenRow, ls, text
      <3> QED BY <3>5, <3>6
    <2> QED BY <2>1, <2>2
  <1>4. \/ pc' = "aborted" /\ left' = left
        \/ /\ \A i \in DOMAIN s.params : s.params[i] # NoText
           /\ row' = RowOf(names, s.params) /\ left' = s.size /\ pc' = "read"
    <2> HIDE DEF s, names
    <2> QED BY <1>3, Zenon DEF Write, s, names, ls
  <1> HIDE DEF s, names
  <1>5. pc' \in {"aborted", "read"} /\ left' = 0
    BY <1>1, <1>3, <1>4
  <1>6. pc' \in {"read", "evolved"} => WrittenRow(cls, obj, row', FALSE) /\ pc' = "read"
    BY <1>3, <1>4
  <1> QED BY <1>1, <1>2, <1>5, <1>6
          DEF RowsInv, StatementTakesAllValues, UnchangedObjectWritesSameRow, ReadsBackExactly

LEMMA RowIsEvolved ==
  ASSUME RowsInv, Evolve
  PROVE  RowsInv'
  <1>1. /\ cls' = cls /\ obj' = obj /\ left' = left /\ pc = "read" /\ pc' = "evolved"
        /\ ~Layout[cls].refs
    BY DEF Evolve
  <1>2. PICK name \in DOMAIN row : row' = [row EXCEPT ![name] = Null]
    BY DEF Evolve
  <1>3. WrittenRow(cls, obj, row, FALSE)
    BY <1>1 DEF RowsInv
  <1>4. WrittenRow(cls, obj, row', TRUE)
    BY <1>1, <1>2, <1>3, RowLacks DEF WrittenRow
  <1> QED BY <1>1, <1>4
          DEF RowsInv, StatementTakesAllValues, UnchangedObjectWritesSameRow, ReadsBackExactly

LEMMA RowIsRead ==
  ASSUME RowsInv, Read
  PROVE  RowsInv'
  <1> DEFINE ls == Layout[cls].leaves
             text == Layout[cls].text
             o == IF Layout[cls].refs THEN UnpackReferences(row) ELSE UnpackStruct(ls, text, row)
             back == RowOf(ColumnNames(ls), Store(Current(ls), o).params)
  <1>1. /\ cls \in DOMAIN Layout /\ obj \in ObjectsOf(cls) /\ left = 0
        /\ WrittenRow(cls, obj, row, pc = "evolved")
    BY DEF RowsInv, StatementTakesAllValues, Read
  <1>2. cls' = cls /\ obj' = obj /\ row' = row /\ left' = left /\ pc \in {"read", "evolved"}
    BY DEF Read
  <1>3. \/ pc' = "aborted"
        \/ /\ ~(~Layout[cls].refs /\ Refused(ls)) /\ got' = o /\ again' = back
           /\ pc' = IF pc = "read" THEN "done" ELSE "defaulted"
    BY Zenon DEF Read
  <1>4. Refused(ls) <=> Refuses(ls, row)
    BY DEF Refused, Refuses
  <1>5. CASE Layout[cls].refs
    <2>1. PICK q \in Instances[cls] : obj = [refs |-> q, bins |-> <<Len(q)>>]
      BY <1>1, <1>5 DEF ObjectsOf
    <2>2. q \in Seq(Nat)
      BY <1>1, <1>5, <2>1, LayoutAssumption
    <2>3. row = ReferenceRow(obj)
      BY <1>1, <1>5 DEF WrittenRow
    <2>4. o = obj
      BY <1>5, <2>1, <2>2, <2>3, ReferencesAreKept
    <2>5. back = row
      BY <1>5, <2>3, <2>4 DEF ReferenceRow, Store, ColumnNames
    <2> HIDE DEF o, back
    <2> QED BY <1>1, <1>2, <1>3, <1>5, <2>4, <2>5
            DEF RowsInv, StatementTakesAllValues, UnchangedObjectWritesSameRow, ReadsBackExactly
  <1>6. CASE ~Layout[cls].refs
    <2>1. /\ text \in BOOLEAN /\ WellFormed(ls, text)
          /\ \A v \in Instances[cls] : v = [i \in DOMAIN ls |-> v[i]] /\ Sound(ls, text, v)
      BY <1>1, <1>6, ClassIsSound
    <2>2. PICK v \in Instances[cls] : obj = Packed(ls, v)
      BY <1>1, <1>6 DEF ObjectsOf
    <2>3. \A w \in Instances[cls] : obj = Packed(ls, w) => IsRow(ls, text, w, row, pc = "evolved")
      BY <1>1, <1>6, Zenon DEF WrittenRow
    <2>4. o = UnpackStruct(ls, text, row)
      BY <1>6
    <2>5. back = RowOf(Columns(ls), StoreStruct(Current(ls), text, UnpackStruct(ls, text, row)).params)
      BY <1>6 DEF Store, ColumnNames
    <2> HIDE DEF o, back, ls, text
    <2>6. ~Refuses(ls, row) => KeepsRow(row, back)
      <3>1. PICK lacks \in BOOLEAN : lacks = (pc = "evolved")
        OBVIOUS
      <3>2. Sound(ls, text, v) /\ IsRow(ls, text, v, row, lacks)
        BY <2>1, <2>2, <2>3, <3>1
      <3>3. text \in BOOLEAN /\ WellFormed(ls, text)
        BY <2>1
      <3> QED BY <2>5, <3>2, <3>3, RowIsKept
    <2>7. ASSUME pc = "read", Clean(ls, obj) PROVE o = obj
      <3>1. /\ \A i \in DOMAIN ls : \A j \in DOMAIN ls : ls[i].name = ls[j].name => i = j
            /\ \A i \in DOMAIN ls : ls[i].dbs = ls[i].loc
        BY <2>7, Zenon DEF Clean
      <3>2. PICK w \in Instances[cls] :
              /\ obj = Packed(ls, w)
              /\ \A i \in DOMAIN ls :
                   IF text /\ ls[i].dbs.n = 0 THEN w[i] # <<>> /\ CString(w[i]) = Front(w[i])
                   ELSE ~EndsEarly(ls[i], w[i])
        BY <2>7, Zenon DEF Clean, text
      <3>3. \A i \in DOMAIN ls : KeepsAll(ls[i], w[i], text)
        BY <3>1, <3>2, Zenon DEF KeepsAll
      <3>4. IsRow(ls, text, w, row, FALSE)
        BY <2>3, <2>7, <3>2
      <3>5. text \in BOOLEAN /\ Sound(ls, text, w) /\ AllKept(ls, text, w)
        BY <2>1, <3>1, <3>3, Zenon DEF AllKept
      <3>6. UnpackStruct(ls, text, row) = Packed(ls, w)
        BY <3>4, <3>5, ValuesAreExact
      <3> QED BY <2>4, <3>2, <3>6
    <2>8. \/ pc' = "aborted"
          \/ /\ ~Refuses(ls, row) /\ got' = o /\ again' = back
             /\ (pc = "read" /\ pc' = "done") \/ pc' = "defaulted"
      BY <1>2, <1>3, <1>4, <1>6 DEF ls
    <2>9. UnchangedObjectWritesSameRow'
      BY <1>2, <2>6, <2>8 DEF UnchangedObjectWritesSameRow, KeepsRow
    <2>10. ReadsBackExactly'
      <3>1. Clean(ls, obj)' <=> Clean(ls, obj)
        BY <1>2 DEF Clean, ls
      <3>2. pc' = "done" /\ Clean(ls, obj) => got' = obj
        BY <2>7, <2>8
      <3> QED BY <1>2, <1>6, <3>1, <3>2 DEF ReadsBackExactly, ls
    <2>11. pc' \notin {"read", "evolved", "failed"}
      BY <2>8
    <2> QED BY <1>1, <1>2, <2>9, <2>10, <2>11 DEF RowsInv, StatementTakesAllValues
  <1> QED BY <1>5, <1>6

LEMMA RowsInvariant ==
  RowsSpec => []RowsInv
  <1>1. RowsInv /\ [Next]_vars => RowsInv'
    <2> SUFFICES ASSUME RowsInv, [Next]_vars PROVE RowsInv'
      OBVIOUS
    <2>1. CASE Write
      BY <2>1, RowIsWritten
    <2>2. CASE Evolve
      BY <2>2, RowIsEvolved
    <2>3. CASE Read
      BY <2>3, RowIsRead
    <2>4. CASE UNCHANGED vars
      BY <2>4 DEF vars, RowsInv, WrittenRow, StatementTakesAllValues, UnchangedObjectWritesSameRow,
                  ReadsBackExactly, Clean
    <2> QED BY <2>1, <2>2, <2>3, <2>4 DEF Next
  <1> QED BY <1>1, RowsInitially, PTL DEF RowsSpec

\* The statement of a class takes every value of an object of that class: store_struct
\* binds as many values as the statement has columns and leaves nothing of the object.
THEOREM StatementsTakeAllValues ==
  RowsSpec => []StatementTakesAllValues
  <1>1. RowsInv => StatementTakesAllValues
    BY DEF RowsInv
  <1> QED BY <1>1, RowsInvariant, PTL

\* An object that was only read is written back to the same row, whatever layout its
\* row had when it was converted and whatever column was added to its table since.
THEOREM RowsSurviveUnchangedObjects ==
  RowsSpec => []UnchangedObjectWritesSameRow
  <1>1. RowsInv => UnchangedObjectWritesSameRow
    BY DEF RowsInv
  <1> QED BY <1>1, RowsInvariant, PTL

\* An object of the program's own layout, with one field of each name and text that
\* holds no zero, is read from its row as it was written.
THEOREM ObjectsAreReadBack ==
  RowsSpec => []ReadsBackExactly
  <1>1. RowsInv => ReadsBackExactly
    BY DEF RowsInv
  <1> QED BY <1>1, RowsInvariant, PTL
=============================================================================
