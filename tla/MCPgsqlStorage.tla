--------------------------- MODULE MCPgsqlStorage ---------------------------
(* Instances of PgsqlStorage for TLC.                                       *)
EXTENDS PgsqlStorage, TLC

CONSTANTS c1, c2, t1, t2, t3, o1, o2

\* Two clients with one thread each.
TwoClients == (t1 :> c1) @@ (t2 :> c2)

\* One client with two threads.
OneClient == (t1 :> c1) @@ (t2 :> c1)

\* A client with two threads, and another with one.
TwoThreads == (t1 :> c1) @@ (t2 :> c1) @@ (t3 :> c2)

\* With two clients of one thread each, exchanging the clients together with
\* their threads changes nothing.
TwoClientsSymmetry == {(c1 :> c2) @@ (c2 :> c1) @@ (t1 :> t2) @@ (t2 :> t1)}
=============================================================================
