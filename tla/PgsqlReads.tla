------------------------------ MODULE PgsqlReads ------------------------------
(* PgsqlStorage with a history variable, the newest version of each object  *)
(* that a client has had since it opened the storage, and the proof         *)
(* obligation it is there for: that the protocol of version_history         *)
(* implements CoherentReads.                                                *)
EXTENDS PgsqlStorage

VARIABLE seen   \* seen[c][o]: the newest version of o that c has had a copy of

readVars == <<vars, seen>>

NeverSeen == [c \in Client |-> [o \in Obj |-> NoCopy]]

\* A step records the copies it leaves; a client that is down has none.
Record ==
  seen' = [c \in Client |-> [o \in Obj |->
             IF c \notin up' THEN NoCopy
             ELSE IF cache'[c][o] > seen[c][o] THEN cache'[c][o] ELSE seen[c][o]]]

ReadInit == Init /\ seen = NeverSeen
ReadNext == Next /\ Record
ReadSpec == ReadInit /\ [][ReadNext]_readVars

\* The row that announces the committed version of o.
Announces(r, o) == r.opid = o /\ r.ver = version[o]

\* ExternalBlob objects are outside the protocol: their files announce nothing.
Coherent == Obj \ Blob

OwedTo(c) ==
  {o \in Coherent : c \in up /\ \E r \in history : Announces(r, o) /\ IsDue(c, r)}
Silent == {o \in Coherent : \E r \in late : Announces(r, o)}

Versions == [o \in Coherent |-> version[o]]
Copies   == [c \in Client |-> [o \in Coherent |-> cache[c][o]]]
SeenAll  == [c \in Client |-> [o \in Coherent |-> seen[c][o]]]
Owed     == [c \in Client |-> OwedTo(c)]

Promise == INSTANCE CoherentReads WITH
  Obj <- Coherent, Stored <- Stored \ Blob, version <- Versions,
  copy <- Copies, seen <- SeenAll, owed <- Owed, silent <- Silent

\* The version_history protocol (start_transaction, load and
\* commit_coordinator_transaction, lines 630-667, 1066-1109 and 1564-1621) gives
\* clients coherent reads: an outdated copy is used only while its announcement
\* is outstanding or was lost behind a later one, it is dropped when the client
\* is told, and no client ever sees an object go back to an older version,
\* whichever of its threads loads it and whatever is dropped in between.
ImplementsCoherentReads == Promise!Spec

=============================================================================
