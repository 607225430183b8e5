------------------------------ MODULE MCSessions ------------------------------
(* The instance of Sessions for TLC: two threads of one client, one of another. *)
EXTENDS Sessions

CONSTANTS t1, t2, t3, c1, c2

MCThread   == {t1, t2, t3}
MCClientOf == [t \in MCThread |-> IF t = t3 THEN c2 ELSE c1]

\* Enough calls for a thread to inherit a session with what it still holds, for
\* crossing locks, for a failure between two calls, and for an update after listen.
MCMaxCalls == [locks |-> 3, dictionary |-> 3, monitors |-> 2, root |-> 3, notify |-> 4]
MCActors   == [locks |-> {t1, t2}, dictionary |-> {t1, t3}, monitors |-> {t1, t2},
               root |-> {t1, t3}, notify |-> {t1, t3}]
MCMaxFaults == [m \in Menus |-> IF m = "dictionary" THEN 0 ELSE 1]
MCEntry    == [n \in Name |-> CHOOSE o \in Stored : TRUE]
=============================================================================
