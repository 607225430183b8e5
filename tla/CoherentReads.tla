---------------------------- MODULE CoherentReads ----------------------------
(* What the cache coherence of pgsql_storage promises its clients, without  *)
(* the table, the modtimes, the threads and the statements that keep it.    *)
(*                                                                          *)
(* A commit is announced to the other clients.  A client may go on using an *)
(* outdated copy only as long as it is owed the announcement, or when the   *)
(* announcement came out silently, behind a later one; and whatever it      *)
(* drops and loads again, it never gets an older version than it has had.   *)
EXTENDS Integers

CONSTANTS
  Client,   \* the processes that share the objects
  Obj,      \* the objects
  Stored    \* the objects there are before the first client opens

VARIABLES
  version,  \* version[o]: the committed version of o, 0 when there is none
  up,       \* the clients that have the storage open
  copy,     \* copy[c][o]: the version of the copy c has of o, or NoCopy
  seen,     \* seen[c][o]: the newest version of o that c has had since it opened
  owed,     \* owed[c]: objects of whose committed version c will still be told
  silent    \* objects whose committed version some clients may never be told of

cvars == <<version, up, copy, seen, owed, silent>>

NoCopy == 0
Nothing == [o \in Obj |-> NoCopy]

Init ==
  /\ version = [o \in Obj |-> IF o \in Stored THEN 1 ELSE 0]
  /\ up = {}
  /\ copy = [c \in Client |-> Nothing]
  /\ seen = [c \in Client |-> Nothing]
  /\ owed = [c \in Client |-> {}]
  /\ silent = {}

\* A client starts without copies, and is owed nothing; the first one starts
\* from a clean table.
Open(c) ==
  /\ c \notin up
  /\ up' = up \cup {c}
  /\ silent' = IF up = {} THEN {} ELSE silent
  /\ UNCHANGED <<version, copy, seen, owed>>

Exit(c) ==
  /\ c \in up
  /\ up' = up \ {c}
  /\ copy' = [copy EXCEPT ![c] = Nothing]
  /\ seen' = [seen EXCEPT ![c] = Nothing]
  /\ owed' = [owed EXCEPT ![c] = {}]
  /\ UNCHANGED <<version, silent>>

\* Client c commits new versions of os, those of late silently.  The others
\* are owed the rest; c is owed nothing about what it wrote itself.
Commit(c, os, late) ==
  /\ c \in up
  /\ LET new == [o \in Obj |-> IF o \in os THEN version[o] + 1 ELSE version[o]]
         Written(row) == [o \in Obj |-> IF o \in os THEN new[o] ELSE row[o]]
     IN /\ version' = new
        /\ copy' = [copy EXCEPT ![c] = Written(copy[c])]
        /\ seen' = [seen EXCEPT ![c] = Written(seen[c])]
  /\ silent' = (silent \ os) \cup late
  /\ owed' \in [Client -> SUBSET Obj]
  /\ \A d \in Client : owed'[d] \ os = owed[d] \ os
  /\ \A d \in up \ {c} : os \ late \subseteq owed'[d]
  /\ \A d \in Client \ (up \ {c}) : owed'[d] \cap os = {}
  /\ UNCHANGED up

\* Client c is told of os, and drops its copies of them at that moment, except
\* perhaps of the silent ones; it may drop more.
Tell(c, os, gone) ==
  /\ c \in up
  /\ os \subseteq owed[c] /\ os \ silent \subseteq gone
  /\ owed' = [owed EXCEPT ![c] = @ \ os]
  /\ copy' = [copy EXCEPT ![c] = [o \in Obj |-> IF o \in gone THEN NoCopy ELSE copy[c][o]]]
  /\ UNCHANGED <<version, up, seen, silent>>

\* Client c gets version v of o: the committed one, or an older one it is
\* still owed the announcement for, but none older than it has had.
Load(c, o, v) ==
  /\ c \in up
  /\ copy[c][o] = NoCopy
  /\ v # NoCopy /\ v >= seen[c][o] /\ v <= version[o]
  /\ v = version[o] \/ o \in owed[c] \cup silent
  /\ copy' = [copy EXCEPT ![c][o] = v]
  /\ seen' = [seen EXCEPT ![c][o] = v]
  /\ UNCHANGED <<version, up, owed, silent>>

Next ==
  \E c \in Client :
    \/ Open(c) \/ Exit(c)
    \/ \E os \in SUBSET Obj : \E late \in SUBSET os : Commit(c, os, late)
    \/ \E os \in SUBSET owed[c], gone \in SUBSET Obj : Tell(c, os, gone)
    \/ \E o \in Obj : \E v \in 1 .. version[o] : Load(c, o, v)

Spec == Init /\ [][Next]_cvars

=============================================================================
