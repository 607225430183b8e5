----------------------------- MODULE MCPgsqlIndex -----------------------------
(* The instances of PgsqlIndex for TLC.                                      *)
EXTENDS PgsqlIndex, TLC

CONSTANTS m1, m2, m3

\* Every member has a key of its own.
DistinctKeys == m1 :> 1 @@ m2 :> 2 @@ m3 :> 3

\* Two of the members share a key.
EqualKeys == m1 :> 1 @@ m2 :> 2 @@ m3 :> 2
=============================================================================
