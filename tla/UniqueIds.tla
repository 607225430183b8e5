------------------------------ MODULE UniqueIds ------------------------------
(***************************************************************************)
(* What pgsql_storage::allocate promises its callers: every call returns   *)
(* an identifier that no call, of any thread of any client, has returned   *)
(* before.                                                                 *)
(***************************************************************************)
CONSTANTS
  Thread,   \* the callers
  Id,       \* the identifiers there are
  NoId      \* no call has returned yet

VARIABLES
  issued,   \* the identifiers returned so far
  result    \* result[t]: what the last call of t returned

Init ==
  /\ issued = {}
  /\ result = [t \in Thread |-> NoId]

Issue(t) ==
  \E id \in Id \ issued :
    /\ issued' = issued \cup {id}
    /\ result' = [result EXCEPT ![t] = id]

Next == \E t \in Thread : Issue(t)

Spec == Init /\ [][Next]_<<issued, result>>
=============================================================================
