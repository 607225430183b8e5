--------------------------- MODULE MCOidAllocator ---------------------------
(* Instances of OidAllocator for TLC.                                       *)
EXTENDS OidAllocator, TLC

CONSTANTS c1, c2, t1, t2, t3

\* A client with two threads, and another with one.
ClientOfThread == (t1 :> c1) @@ (t2 :> c1) @@ (t3 :> c2)

\* The threads of the first client are interchangeable.
ThreadSymmetry == Permutations({t1, t2})
=============================================================================
