------------------------------ MODULE PgsqlIndex ------------------------------
(***************************************************************************)
(* pgsql_index (src/goods-diff/pgsql_storage.cxx): the emulation of a      *)
(* GOODS B-tree by a linked list of set_member objects, whose order is     *)
(* looked up in the table set_member.  The list changes in the cache of    *)
(* the client and reaches the table when the transaction commits; the      *)
(* statements index_del and index_drop change the table at once, and a     *)
(* lookup sees the table only.  One client changes the index; what every   *)
(* other client finds is what the table holds.  The members are read in    *)
(* pages by a recursive select (pgsql_storage::query) and by date, as      *)
(* CTimeBtree::GetDateRange does (src/src/TimeBtree.cpp).                  *)
(*                                                                         *)
(* A node is one set_member: own stands for "owner is this index".  Keys   *)
(* are numbers; a member keeps the key it was created with.                *)
(***************************************************************************)
EXTENDS Integers, Sequences, FiniteSets

Seqs == INSTANCE SequencesExt

CONSTANTS
  Member,    \* the set_member objects
  KeyOf,     \* KeyOf[m]: the key of member m
  Nil,       \* the nil reference
  MaxOps     \* bound: operations of one transaction

ASSUME KeyAssumption == KeyOf \in [Member -> Nat] /\ IsFiniteSet(Member)
ASSUME NilAssumption == Nil \notin Member /\ MaxOps \in Nat

VARIABLES
  attached,  \* the index has a storage; before, it is transient
  bag,       \* mem_index, the multimap of a transient index, in its order
  row,       \* row[m]: the committed row of m
  rowList,   \* the committed first, last and n_members of the index
  node,      \* node[m]: m in the client's cache
  list,      \* the index object in the client's cache
  dirty,     \* the members the transaction has modified
  ops,       \* operations of the transaction so far
  batch,     \* history: members the transaction has inserted
  removed,   \* history: rows the transaction has taken out of the index
  lost,      \* history: members whose removal was rolled back
  stray,     \* history: members written back after a clear
  disordered \* history: a transaction did not insert in ascending order, or wrote
             \* a lost member back to where it was

dbVars == <<row, rowList>>
memVars == <<node, list, dirty>>
histVars == <<batch, removed, lost, stray, disordered>>
vars == <<attached, bag, row, rowList, node, list, dirty, ops, batch, removed,
          lost, stray, disordered>>

NewNode == [own |-> FALSE, prev |-> Nil, next |-> Nil]
NewList == [first |-> Nil, last |-> Nil, n |-> 0]

\* The members a walk along next meets, in order.
Chain(nodes, first) ==
  LET met[n \in 0..Cardinality(Member)] ==
        IF n = 0 THEN <<>>
        ELSE LET c == met[n - 1]
                 m == IF c = <<>> THEN first ELSE nodes[c[Len(c)]].next
             IN IF m = Nil THEN c ELSE Append(c, m)
  IN met[Cardinality(Member)]

Linked(nodes, first) == {m \in Member : \E i \in DOMAIN Chain(nodes, first) :
                                          Chain(nodes, first)[i] = m}

\* What a lookup in the table can return.
Found == {m \in Member : row[m].own}

Least(S) == {m \in S : \A x \in S : KeyOf[m] <= KeyOf[x]}

\* Variant: "order by key" is missing.
FindGEUnordered(k) ==
  LET rows == {m \in Found : KeyOf[m] >= k} IN
  IF rows = {} THEN {Nil} ELSE rows

\* findGE: multimap::lower_bound, or any row of index_greater_or_equal.
FindGE(k) ==
  IF ~attached
  THEN LET bound == {i \in DOMAIN bag : KeyOf[bag[i]] >= k /\ \A j \in 1..(i - 1) : KeyOf[bag[j]] < k}
       IN IF bound = {} THEN {Nil} ELSE {bag[i] : i \in bound}
  ELSE LET rows == {m \in Found : KeyOf[m] >= k}
       IN IF rows = {} THEN {Nil} ELSE Least(rows)

\* The rows of index_equal: members with this key that follow no such member.
FindEqual(k) ==
  {m \in Found : KeyOf[m] = k /\ \A p \in Found : p = row[m].prev => KeyOf[p] # k}

\* multimap::insert, behind the members with the same key.
MultimapInsert(m) ==
  \E i \in 1..(Len(bag) + 1) :
    /\ \A j \in DOMAIN bag : j < i <=> KeyOf[bag[j]] <= KeyOf[m]
    /\ bag' = Seqs!InsertAt(bag, i, m)

\* multimap::erase of the member, found in equal_range.
MultimapErase(m) ==
  LET range == {i \in DOMAIN bag : bag[i] = m} IN
  bag' = IF range = {} THEN bag ELSE Seqs!RemoveAt(bag, CHOOSE i \in range : TRUE)

-----------------------------------------------------------------------------
(* Reading the members in order                                            *)

\* The rows of the recursive select of query, level by level: members whose prev
\* is one of the level before, up to last.  It has no condition on the owner.
Scan(first, last) ==
  LET level[i \in 1..Cardinality(Member)] ==
        IF i = 1 THEN {first} \ {Nil}
        ELSE LET before == level[i - 1] \ {last}
             IN {m \in Member : row[m].prev \in before}
  IN Seqs!FlattenSeq([i \in 1..Cardinality(Member) |-> Seqs!SetToSeq(level[i])])

\* The elements of seq that are in S, in their order.
Matching(seq, S) ==
  LET met == {i \in DOMAIN seq : seq[i] \in S}
      Nth(n) == CHOOSE i \in met : Cardinality({j \in met : j <= i}) = n
  IN [n \in 1..Cardinality(met) |-> seq[Nth(n)]]

AtMost(seq, max) == SubSeq(seq, 1, IF Len(seq) < max THEN Len(seq) ELSE max)

\* load_query_result: where the next page starts.
LoadQueryResult(page, last) ==
  IF page = <<>> \/ page[Len(page)] = last THEN Nil ELSE row[page[Len(page)]].next

\* Variant: the limit applies before the condition.
QueryLimitFirst(first, last, match, max) ==
  LET page == Matching(AtMost(Scan(first, last), max), match)
  IN [page |-> page, next |-> LoadQueryResult(page, last)]

\* query: one page of the members from first to last that satisfy the condition.
Query(first, last, match, max) ==
  LET page == AtMost(Matching(Scan(first, last), match), max)
  IN [page |-> page, next |-> LoadQueryResult(page, last)]

\* What the pages hold that a reader asks for one after the other.
Pages(last, match, max) ==
  LET at[i \in 1..(Cardinality(Member) + 1)] ==
        LET first == IF i = 1 THEN rowList.first ELSE at[i - 1].next
        IN IF first = Nil THEN [page |-> <<>>, next |-> Nil]
           ELSE Query(first, last, match, max)
  IN Seqs!FlattenSeq([i \in DOMAIN at |-> at[i].page])

\* The first member from m on whose key is not t.
SkipEqual(m, t) ==
  LET walk == Chain(node, m)
      past == {i \in DOMAIN walk : KeyOf[walk[i]] # t /\ \A j \in 1..(i - 1) : KeyOf[walk[j]] = t}
  IN IF past = {} THEN Nil ELSE walk[CHOOSE i \in past : TRUE]

\* The members a walk along next meets from m to last, in the client's list.
Segment(m, last) ==
  {x \in Linked(node, m) : last \in Linked(node, x)}

\* Variant: the members equal to the end of the range are not skipped.
DateEndExclusive(start, t) ==
  {LET end == IF m = Nil THEN list.last ELSE node[m].prev
   IN IF start = Nil THEN Nil ELSE IF end = Nil THEN start ELSE end : m \in FindGE(t)}

\* CTimeBtree::GetDateRange, the first and the last member of the range; 0 is no
\* time.
DateStart(from, to) ==
  IF from = 0 THEN {list.first}
  ELSE {IF m # Nil /\ to # 0 /\ KeyOf[m] > to THEN Nil ELSE m : m \in FindGE(from)}

DateEnd(start, t) ==
  {LET past == SkipEqual(m, t)
       end == IF past = Nil THEN list.last ELSE node[past].prev
   IN IF start = Nil THEN Nil ELSE IF end = Nil THEN start ELSE end : m \in FindGE(t)}

GetDateRange(from, to) ==
  IF from # 0 /\ to # 0 /\ from > to THEN {<<list.first, list.last>>}
  ELSE UNION {{<<start, end>> : end \in IF to # 0 THEN DateEnd(start, to)
                                        ELSE {IF start = Nil THEN Nil ELSE list.last}} :
                start \in DateStart(from, to)}

-----------------------------------------------------------------------------
(* set_owner of GOODS, on the cached copies                                *)

\* put_before (nx is a member) and put_last (nx is Nil).
Put(m, nx) ==
  LET p == IF nx = Nil THEN list.last ELSE node[nx].prev IN
  /\ node' = [x \in Member |->
                CASE x = m -> [own |-> TRUE, prev |-> p, next |-> nx]
                  [] x # m /\ x = p -> [node[x] EXCEPT !.next = m]
                  [] x # m /\ x # p /\ x = nx -> [node[x] EXCEPT !.prev = m]
                  [] OTHER -> node[x]]
  /\ list' = [first |-> IF p = Nil THEN m ELSE list.first,
              last |-> IF nx = Nil THEN m ELSE list.last,
              n |-> list.n + 1]
  /\ dirty' = dirty \cup ({m, p, nx} \ {Nil})

\* Variant: the back reference of the following member is left as it was.
UnlinkForwardOnly(m) ==
  LET p == node[m].prev
      nx == node[m].next IN
  /\ node' = [x \in Member |->
                CASE x = m -> NewNode
                  [] x # m /\ x = p -> [node[x] EXCEPT !.next = nx]
                  [] OTHER -> node[x]]
  /\ list' = [first |-> IF p = Nil THEN nx ELSE list.first,
              last |-> IF nx = Nil THEN p ELSE list.last,
              n |-> list.n - 1]
  /\ dirty' = dirty \cup ({m, p, nx} \ {Nil})

\* set_owner::remove.
Unlink(m) ==
  LET p == node[m].prev
      nx == node[m].next IN
  /\ node' = [x \in Member |->
                CASE x = m -> NewNode
                  [] x # m /\ x = p -> [node[x] EXCEPT !.next = nx]
                  [] x # m /\ x # p /\ x = nx -> [node[x] EXCEPT !.prev = p]
                  [] OTHER -> node[x]]
  /\ list' = [first |-> IF p = Nil THEN nx ELSE list.first,
              last |-> IF nx = Nil THEN p ELSE list.last,
              n |-> list.n - 1]
  /\ dirty' = dirty \cup ({m, p, nx} \ {Nil})

-----------------------------------------------------------------------------
(* The operations of the application                                       *)

\* Rows of the table that leave the index at once, index_del and index_drop.
Disown(S) == row' = [m \in Member |-> IF m \in S THEN [row[m] EXCEPT !.own = FALSE]
                                      ELSE row[m]]

\* A list with strays is beyond repair, and the model does not follow it.
NextOp == ops < MaxOps /\ stray = {} /\ ops' = ops + 1

\* Variant: the row is written by the insertion itself.
InsertAtOnce(m) ==
  /\ NextOp
  /\ ~node[m].own /\ m \notin Linked(node, list.first)
  /\ \E nx \in FindGE(KeyOf[m]) : Put(m, nx)
  /\ IF attached THEN bag' = bag ELSE MultimapInsert(m)
  /\ row' = [row EXCEPT ![m] = node'[m]]
  /\ batch' = batch \cup {m}
  /\ disordered' = (disordered \/ (attached /\ \E x \in batch : KeyOf[x] > KeyOf[m]))
  /\ UNCHANGED <<attached, rowList, removed, lost, stray>>

\* insert: before the member findGE returns, or at the end.
Insert(m) ==
  /\ NextOp
  /\ ~node[m].own /\ m \notin Linked(node, list.first)
  /\ \E nx \in FindGE(KeyOf[m]) : Put(m, nx)
  /\ IF attached THEN bag' = bag ELSE MultimapInsert(m)
  /\ batch' = batch \cup {m}
  /\ disordered' = (disordered \/ (attached /\ \E x \in batch : KeyOf[x] > KeyOf[m]))
  /\ UNCHANGED <<attached, dbVars, removed, lost, stray>>

\* remove: the row leaves the index at once, the list when the transaction
\* commits.
Remove(m) ==
  /\ NextOp
  /\ m \in Linked(node, list.first)
  /\ IF attached THEN Disown({m}) /\ bag' = bag
     ELSE MultimapErase(m) /\ row' = row
  /\ Unlink(m)
  /\ batch' = batch \ {m}
  /\ removed' = IF row[m].own THEN removed \cup {m} ELSE removed
  /\ UNCHANGED <<attached, rowList, lost, stray, disordered>>

\* Variant: the statement index_drop is forgotten.
ClearListOnly ==
  /\ NextOp
  /\ bag' = IF attached THEN bag ELSE <<>>
  /\ list' = NewList
  /\ batch' = {}
  /\ removed' = removed \cup Found
  /\ UNCHANGED <<attached, node, row, dirty, rowList, lost, stray, disordered>>

\* clear: the members are not touched, and those the transaction has modified
\* are still written.
Clear ==
  /\ NextOp
  /\ IF attached THEN Disown(Found) /\ bag' = bag ELSE bag' = <<>> /\ row' = row
  /\ list' = NewList
  /\ batch' = {}
  /\ removed' = removed \cup Found
  /\ UNCHANGED <<attached, node, dirty, rowList, lost, stray, disordered>>

\* The commit of a transaction writes the modified members and the index; the
\* commit that makes the index persistent writes everything reachable from it.
Commit ==
  /\ (ops > 0 \/ ~attached)
  /\ LET written == IF attached THEN dirty ELSE Linked(node, list.first) IN
       /\ row' = [m \in Member |-> IF m \in written THEN node[m] ELSE row[m]]
       /\ stray' = stray \cup {m \in written : node[m].own
                                               /\ m \notin Linked(node, list.first)}
  /\ rowList' = list
  /\ LET revived == {m \in lost \cap dirty : node[m].own} IN
       /\ lost' = (lost \ revived) \cap Linked(node, list.first)
       /\ disordered' = (disordered \/ revived # {})
  /\ attached' = TRUE /\ dirty' = {} /\ ops' = 0 /\ batch' = {} /\ removed' = {}
  /\ UNCHANGED <<bag, node, list>>

\* What remains of an abandoned transaction: its removals.
Abandon ==
  /\ attached
  /\ list' = rowList
  /\ lost' = (lost \cup removed) \cap Linked(row, rowList.first)
  /\ dirty' = {} /\ ops' = 0 /\ batch' = {} /\ removed' = {}
  /\ UNCHANGED <<attached, bag, dbVars, stray, disordered>>

\* The modified copies are dropped, and loaded again when needed.
Rollback ==
  /\ ops > 0
  /\ Abandon
  /\ node' = [m \in Member |-> IF m \in dirty THEN row[m] ELSE node[m]]

\* The client process ends and another one opens the database.
Restart == Abandon /\ node' = row

Init ==
  /\ attached = FALSE /\ bag = <<>>
  /\ row = [m \in Member |-> NewNode] /\ rowList = NewList
  /\ node = [m \in Member |-> NewNode] /\ list = NewList
  /\ dirty = {} /\ ops = 0
  /\ batch = {} /\ removed = {} /\ lost = {} /\ stray = {} /\ disordered = FALSE

\* A transient index lives in one process: its operations are not bounded by
\* a transaction, and ops starts again with each.
TransientStep == ~attached /\ ops = MaxOps /\ ops' = 0
                 /\ UNCHANGED <<attached, bag, dbVars, memVars, histVars>>

Next ==
  \/ \E m \in Member : Insert(m) \/ Remove(m)
  \/ Clear \/ Commit \/ Rollback \/ Restart \/ TransientStep

Spec == Init /\ [][Next]_vars

-----------------------------------------------------------------------------
(* Properties                                                              *)

\* prev, last and n_members agree with the walk along next.
WellLinked(nodes, l) ==
  LET c == Chain(nodes, l.first) IN
  /\ l.n = Len(c)
  /\ l.last = (IF c = <<>> THEN Nil ELSE c[Len(c)])
  /\ \A i \in DOMAIN c : nodes[c[i]].prev = (IF i = 1 THEN Nil ELSE c[i - 1])

\* Whatever is rolled back, removed or cleared, both the committed list and
\* the list of the client are well linked, until a clear has left strays
\* behind (pgsql_index::insert, remove, clear).
ListsAreWellLinked ==
  stray = {} => WellLinked(row, rowList) /\ WellLinked(node, list)

\* The table answers lookups with the members of the committed list, except
\* those whose removal is pending or was rolled back: the row left the index
\* at once (index_del), the list did not.
TableMatchesList ==
  attached /\ stray = {} => Found = Linked(row, rowList.first) \ (removed \cup lost)

MaxKey == CHOOSE k \in {KeyOf[m] : m \in Member} : \A m \in Member : KeyOf[m] <= k

\* The members of S stand in c in the order of their keys.
Ascending(c, S) ==
  \A i, j \in DOMAIN c : i < j /\ c[i] \in S /\ c[j] \in S => KeyOf[c[i]] <= KeyOf[c[j]]

\* The members that lookups find stand in the list in the order of their keys,
\* as long as the keys are different, transactions insert in ascending order and no
\* lost member comes back; a transient index with different keys is always in
\* order, and its multimap holds what its list holds.
FoundInOrder ==
  stray = {} =>
    IF attached
    THEN disordered \/ Ascending(Chain(row, rowList.first), Found)
    ELSE /\ Ascending(Chain(node, list.first), Member)
         /\ {bag[i] : i \in DOMAIN bag} = Linked(node, list.first)

\* A lookup never sees part of a transaction's insertions: what it finds grows
\* with a commit only, and then to everything the client's list holds.
CommitPublishesAll ==
  [][Found' \ Found # {} /\ stray' = {} =>
       dirty' = {} /\ Found' = Linked(node, list.first) \ lost']_vars

\* Reading the index in pages, of any size and with any condition, gives every
\* committed member that satisfies the condition once and in order, a pending
\* removal or not; unless a row that a clear left behind still refers to a member.
\* (What the pages read changes with a commit only, hence ops <= 1.)
QueryMeetsEveryMember ==
  LET members == Linked(row, rowList.first) IN
  attached /\ ops <= 1 /\ stray = {}
    /\ (\A m \in Member \ members : row[m].prev \notin members) =>
    \A match \in SUBSET Member, max \in 1..2, last \in {Nil, rowList.last} :
      Pages(last, match, max) = Matching(Chain(row, rowList.first), match)

\* A date range in an ordered index of different dates holds exactly the members
\* between its ends; but for an inverted range, and a range without start that ends
\* before every member.
DateRangeIsExact ==
  LET members == Linked(node, list.first)
      times == 0..(MaxKey + 1) IN
  ops = 0 /\ stray = {} /\ lost = {} /\ ~disordered =>
    \A from, to \in times : \A r \in GetDateRange(from, to) :
      \/ to # 0 /\ (from > to \/ (from = 0 /\ \A m \in members : KeyOf[m] > to))
      \/ Segment(r[1], r[2]) = {m \in members : KeyOf[m] >= from /\ (to # 0 => KeyOf[m] <= to)}

\* The assertion of index_find: index_equal returns one row at most (line 1695).
FindReturnsOneRow == \A k \in {KeyOf[m] : m \in Member} : Cardinality(FindEqual(k)) <= 1

=============================================================================
