----------------------------- MODULE OidAllocator -----------------------------
(***************************************************************************)
(* Object identifiers (pgsql_storage::allocate): all clients draw them     *)
(* from the PostgreSQL sequence oid_sequence, a buffer full at a time, and *)
(* the threads of a client share the buffer under the mutex cs.            *)
(*                                                                         *)
(* nextval is not transactional: a value drawn is gone, whatever becomes   *)
(* of the statement, the transaction or the process that drew it.          *)
(***************************************************************************)
EXTENDS Integers, Sequences

CONSTANTS
  Client,     \* the processes that open the storage
  Thread,     \* the threads of all clients
  ClientOf,   \* the client a thread belongs to
  BufSize,    \* OPID_BUF_SIZE
  RootOpid,   \* ROOT_OPID, the identifier of the database root
  FirstOid,   \* the value oid_sequence starts from
  MaxOid,     \* the last value of oid_sequence
  NoThread,   \* no thread
  NoOid       \* no identifier

ASSUME ThreadAssumption ==
  /\ ClientOf \in [Thread -> Client]
  /\ NoThread \notin Thread

ASSUME OidAssumption ==
  /\ BufSize \in Nat \ {0}
  /\ RootOpid \in Nat /\ FirstOid \in Nat /\ MaxOid \in Nat
  /\ RootOpid < FirstOid /\ FirstOid <= MaxOid

VARIABLES
  oidSequence, \* last value drawn from oid_sequence
  up,          \* the clients that have the storage open
  opidBuf,     \* opidBuf[c]: pgsql_storage::opid_buf
  opidBufPos,  \* opidBufPos[c]: pgsql_storage::opid_buf_pos
  cs,          \* cs[c]: the thread inside the mutex pgsql_storage::cs
  pc,          \* pc[t]: what t does next in allocate
  rows,        \* rows[t]: rows of "new_oid" the server has produced for t
  slot,        \* slot[t]: the value of opid_buf_pos that t has read
  issued,      \* identifiers allocate has returned
  result       \* result[t]: the one it returned to t last

vars == <<oidSequence, up, opidBuf, opidBufPos, cs, pc, rows, slot, issued,
          result>>

Oid == FirstOid .. MaxOid

\* The entries of opid_buf that are still to be handed out.
LiveSlots(c) == opidBufPos[c] .. BufSize - 1

Init ==
  /\ oidSequence = FirstOid - 1
  /\ up = {}
  /\ opidBuf \in [Client -> [0 .. BufSize - 1 -> {RootOpid}]]
  /\ opidBufPos = [c \in Client |-> BufSize]
  /\ cs = [c \in Client |-> NoThread]
  /\ pc = [t \in Thread |-> "idle"]
  /\ rows = [t \in Thread |-> << >>]
  /\ slot = [t \in Thread |-> 0]
  /\ issued = {}
  /\ result = [t \in Thread |-> NoOid]

\* open empties the buffer of the storage object.
Open(c) ==
  /\ c \notin up
  /\ up' = up \cup {c}
  /\ opidBufPos' = [opidBufPos EXCEPT ![c] = BufSize]
  /\ UNCHANGED <<oidSequence, opidBuf, cs, pc, rows, slot, issued, result>>

\* The process ends, at any point of its threads' calls; a storage object that
\* is opened again still has the bytes of its buffer.
Exit(c) ==
  /\ c \in up
  /\ up' = up \ {c}
  /\ cs' = [cs EXCEPT ![c] = NoThread]
  /\ pc' = [t \in Thread |-> IF ClientOf[t] = c THEN "idle" ELSE pc[t]]
  /\ rows' = [t \in Thread |-> IF ClientOf[t] = c THEN << >> ELSE rows[t]]
  /\ slot' = [t \in Thread |-> IF ClientOf[t] = c THEN 0 ELSE slot[t]]
  /\ UNCHANGED <<oidSequence, opidBuf, opidBufPos, issued, result>>

\* Variants: no mutex; a test that lets one more identifier out.
AllocateUnlocked(t) ==
  /\ pc[t] = "idle" /\ ClientOf[t] \in up
  /\ cs' = [cs EXCEPT ![ClientOf[t]] = t]
  /\ pc' = [pc EXCEPT ![t] = IF opidBufPos[ClientOf[t]] = BufSize THEN "fetch" ELSE "read"]
  /\ UNCHANGED <<oidSequence, up, opidBuf, opidBufPos, rows, slot, issued, result>>
AllocateEarlyRefill(t) ==
  /\ pc[t] = "idle" /\ ClientOf[t] \in up
  /\ cs[ClientOf[t]] = NoThread
  /\ cs' = [cs EXCEPT ![ClientOf[t]] = t]
  /\ pc' = [pc EXCEPT ![t] = IF opidBufPos[ClientOf[t]] + 1 >= BufSize THEN "fetch"
                             ELSE "read"]
  /\ UNCHANGED <<oidSequence, up, opidBuf, opidBufPos, rows, slot, issued, result>>

\* allocate enters the mutex and looks whether the buffer is used up.
Allocate(t) ==
  LET c == ClientOf[t] IN
    /\ pc[t] = "idle" /\ c \in up
    /\ cs[c] = NoThread
    /\ cs' = [cs EXCEPT ![c] = t]
    /\ pc' = [pc EXCEPT ![t] = IF opidBufPos[c] = BufSize THEN "fetch" ELSE "read"]
    /\ UNCHANGED <<oidSequence, up, opidBuf, opidBufPos, rows, slot, issued, result>>

\* Variant: one row too many is asked for.
NextValOneMore(t) ==
  /\ pc[t] = "fetch" /\ Len(rows[t]) <= BufSize
  /\ oidSequence < MaxOid
  /\ oidSequence' = oidSequence + 1
  /\ rows' = [rows EXCEPT ![t] = Append(@, oidSequence + 1)]
  /\ UNCHANGED <<up, opidBuf, opidBufPos, cs, pc, slot, issued, result>>

\* One row of "new_oid": the nextvals of concurrent statements interleave.
NextVal(t) ==
  /\ pc[t] = "fetch" /\ Len(rows[t]) < BufSize
  /\ oidSequence < MaxOid
  /\ oidSequence' = oidSequence + 1
  /\ rows' = [rows EXCEPT ![t] = Append(@, oidSequence + 1)]
  /\ UNCHANGED <<up, opidBuf, opidBufPos, cs, pc, slot, issued, result>>

\* Variant: the mutex stays locked.
NewOidFailsLocked(t) ==
  /\ pc[t] = "fetch"
  /\ rows' = [rows EXCEPT ![t] = << >>]
  /\ pc' = [pc EXCEPT ![t] = "idle"]
  /\ UNCHANGED <<oidSequence, up, opidBuf, opidBufPos, cs, slot, issued, result>>

\* The statement throws (the connection, or the end of the sequence), and the
\* destructor of critical_section leaves the mutex.
NewOidFails(t) ==
  /\ pc[t] = "fetch"
  /\ rows' = [rows EXCEPT ![t] = << >>]
  /\ cs' = [cs EXCEPT ![ClientOf[t]] = NoThread]
  /\ pc' = [pc EXCEPT ![t] = "idle"]
  /\ UNCHANGED <<oidSequence, up, opidBuf, opidBufPos, slot, issued, result>>

\* The result is copied to the buffer.
FillBuffer(t) ==
  /\ pc[t] = "fetch" /\ Len(rows[t]) = BufSize
  /\ opidBuf' = [opidBuf EXCEPT ![ClientOf[t]] =
                   [i \in 0 .. BufSize - 1 |-> rows[t][i + 1]]]
  /\ opidBufPos' = [opidBufPos EXCEPT ![ClientOf[t]] = 0]
  /\ rows' = [rows EXCEPT ![t] = << >>]
  /\ pc' = [pc EXCEPT ![t] = "read"]
  /\ UNCHANGED <<oidSequence, up, cs, slot, issued, result>>

\* opid_buf_pos++ loads the position, and stores it in the next step.
ReadPos(t) ==
  /\ pc[t] = "read"
  /\ slot' = [slot EXCEPT ![t] = opidBufPos[ClientOf[t]]]
  /\ pc' = [pc EXCEPT ![t] = "take"]
  /\ UNCHANGED <<oidSequence, up, opidBuf, opidBufPos, cs, rows, issued, result>>

\* return opid_buf[opid_buf_pos++], and leave the mutex.
Take(t) ==
  LET c == ClientOf[t]
      oid == opidBuf[c][slot[t]]
  IN /\ pc[t] = "take"
     /\ opidBufPos' = [opidBufPos EXCEPT ![c] = slot[t] + 1]
     /\ slot' = [slot EXCEPT ![t] = 0]
     /\ issued' = issued \cup {oid}
     /\ result' = [result EXCEPT ![t] = oid]
     /\ cs' = [cs EXCEPT ![c] = NoThread]
     /\ pc' = [pc EXCEPT ![t] = "idle"]
     /\ UNCHANGED <<oidSequence, up, opidBuf, rows>>

Step(t) == NextVal(t) \/ FillBuffer(t) \/ ReadPos(t) \/ Take(t)

Next ==
  \/ \E t \in Thread : Allocate(t) \/ Step(t) \/ NewOidFails(t)
  \/ \E c \in Client : Open(c) \/ Exit(c)

Spec == Init /\ [][Next]_vars

\* A thread inside the mutex runs on, and its statement returns or fails.
FairSpec == Spec /\ \A t \in Thread : WF_vars(Step(t) \/ NewOidFails(t))

-----------------------------------------------------------------------------
(* Properties                                                              *)

\* Types.
TypeOK ==
  /\ oidSequence \in FirstOid - 1 .. MaxOid
  /\ up \subseteq Client
  /\ opidBuf \in [Client -> [0 .. BufSize - 1 -> Nat]]
  /\ opidBufPos \in [Client -> 0 .. BufSize]
  /\ cs \in [Client -> Thread \cup {NoThread}]
  /\ pc \in [Thread -> {"idle", "fetch", "read", "take"}]
  /\ rows \in [Thread -> Seq(Oid)]
  /\ \A t \in Thread : Len(rows[t]) <= BufSize
  /\ slot \in [Thread -> 0 .. BufSize]
  /\ issued \subseteq Nat
  /\ result \in [Thread -> Nat \cup {NoOid}]

\* allocate never hands an identifier out twice, to any thread of any client,
\* and none that is not above ROOT_OPID.
Ids == INSTANCE UniqueIds WITH Id <- Oid, NoId <- NoOid
ImplementsUniqueIds == Ids!Spec

\* A client draws new identifiers only when it has handed out every one it
\* has drawn before (the test opid_buf_pos == OPID_BUF_SIZE), and reads the
\* buffer only where there is one left.
BufferUsedUp ==
  \A t \in Thread :
    /\ pc[t] = "fetch" => LiveSlots(ClientOf[t]) = {}
    /\ pc[t] \in {"read", "take"} => LiveSlots(ClientOf[t]) # {}

\* The mutex cs is left again, though the statement inside it fails.
MutexIsLeft == \A c \in Client : (cs[c] # NoThread) ~> (cs[c] = NoThread)
=============================================================================
