-------------------------- MODULE PgsqlStorageProofs --------------------------
(* Proofs about PgsqlStorage, and about PgsqlReads, which adds the history  *)
(* variable to it, for every value of their constants.                      *)
EXTENDS PgsqlReads, TLAPS

\* What the calls leave behind: a thread has buffers only in the phase that
\* uses them, and none when its client is down.
ThreadShape(t) ==
  /\ ClientOf[t] \notin up => pc[t] = "idle" /\ t \notin inTxn
  /\ pc[t] # "write" => todo[t] = {} /\ pend[t] = {}
  /\ pc[t] \notin {"synced", "queried"} => sync[t] = 0
  /\ pc[t] # "fetched" => got[t] = NoCopy

ThreadInv == \A t \in Thread : ThreadShape(t)

\* A row waiting to commit belongs to an object its transaction has locked,
\* and announces the version after the committed one.
PendInv ==
  \A t \in Thread : \A r \in pend[t] :
    /\ lock[r.opid] = t /\ r.opid \notin Blob
    /\ r.client = ClientOf[t]
    /\ r.ver = version[r.opid] + 1
    /\ r.modtime > 0

\* Inside one client, no thread writes what another loads or writes.
SiblingInv ==
  \A t \in Thread : \A u \in Siblings(t) :
    target[t] \notin WriteSet(u) /\ WriteSet(t) \cap WriteSet(u) = {}

\* The rows of version_history announce versions the database has reached.
HistoryInv == \A r \in history : r.ver <= version[r.opid] /\ r.modtime > 0

\* Every modtime has been drawn from the sequence, once.
ModtimeInv ==
  /\ \A r \in history : r.modtime <= lastModtime
  /\ \A t \in Thread : \A r \in pend[t] :
       /\ r.modtime <= lastModtime
       /\ \A q \in history : q.modtime # r.modtime
       /\ \A u \in Thread \ {t} : \A q \in pend[u] : q.modtime # r.modtime

\* No client is ahead of version_history.
Reached(m) == m = 0 \/ \E q \in history : q.modtime >= m
SyncInv ==
  /\ \A c \in Client : Reached(lastSync[c]) /\ (c \notin up => lastSync[c] = 0)
  /\ \A t \in Thread : Reached(sync[t])

\* The local vector "deteriorated" holds all that advancing lastSyncTime to
\* the local sync would skip.
DetInv ==
  \A t \in Thread : pc[t] = "queried" =>
    \A r \in history \ late :
      IsDue(ClientOf[t], r) /\ r.modtime <= sync[t] => r.opid \in det[t]

\* Version v of o is not older than version_history allows for client c: it
\* is current, or announced; and whatever is newer is due or late.
CopySound(c, o, v) ==
  /\ v <= version[o]
  /\ v < version[o] => \E r \in history : r.opid = o /\ r.ver = version[o]
  /\ \A r \in history : r.opid = o /\ r.ver > v =>
       r.client # c /\ (IsDue(c, r) \/ r \in late)

CacheSound(c, o) ==
  cache[c][o] # NoCopy => c \in up /\ CopySound(c, o, cache[c][o])

FetchSound(t) ==
  got[t] # NoCopy /\ target[t] \notin Blob =>
    CopySound(ClientOf[t], target[t], got[t])

CacheInv == \A c \in Client, o \in Obj \ Blob : CacheSound(c, o)
FetchInv == \A t \in Thread : FetchSound(t)

IInv == /\ TypeOK /\ ThreadInv /\ PendInv /\ SiblingInv
        /\ HistoryInv /\ ModtimeInv /\ SyncInv /\ DetInv /\ CacheInv /\ FetchInv

-----------------------------------------------------------------------------
(* Facts about single operators                                            *)

\* "lastsync" returns a natural number no row of the table exceeds, and one
\* that some row of the table has unless the table is empty.
LEMMA LastModtimeFacts ==
  ASSUME NEW rows, rows \subseteq Row, NEW m \in LastModtimes(rows)
  PROVE  /\ m \in Nat
         /\ \A r \in rows : r.modtime <= m
         /\ m = 0 \/ \E q \in rows : q.modtime >= m
  BY DEF LastModtimes, IsLastModtime, Row

\* The first step of start_transaction leaves a thread with a value of sync
\* that version_history has reached.
LEMMA StartFacts ==
  ASSUME TypeOK, NEW t \in Thread, StartTransaction(t)
  PROVE  /\ \E m \in Nat : Reached(m) /\ sync' = [sync EXCEPT ![t] = m]
         /\ sync' \in [Thread -> Nat]
         /\ pc' = [pc EXCEPT ![t] = "synced"]
  <1>1. PICK m \in LastModtimes(history) : sync' = [sync EXCEPT ![t] = m]
    BY DEF StartTransaction
  <1>2. m \in Nat /\ Reached(m)
    BY LastModtimeFacts DEF TypeOK, Reached
  <1>3. QED
    BY <1>1, <1>2 DEF StartTransaction, TypeOK

\* Going on to the next object of the buffer shortens the buffer.
LEMMA NextToWriteFacts ==
  ASSUME TypeOK, NEW t \in Thread, pc[t] = "write", pc' = pc, NextToWrite(t)
  PROVE  /\ todo' = [todo EXCEPT ![t] = todo[t] \ {target[t]}]
         /\ todo' \in [Thread -> SUBSET Obj]
         /\ target' \in [Thread -> Obj \cup {NoObj}]
         /\ target'[t] \in todo'[t] \cup {NoObj}
         /\ \A u \in Thread \ {t} : target'[u] = target[u]
         /\ \A u \in Thread : pc'[u] \in {"fetch", "fetchLock", "fetched"} => target'[u] \in Obj
  <1>1. PICK next \in todo[t] \cup {NoObj} : target' = [target EXCEPT ![t] = next]
                                          /\ next \in (todo[t] \ {target[t]}) \cup {NoObj}
    BY DEF NextToWrite
  <1>2. todo' = [todo EXCEPT ![t] = todo[t] \ {target[t]}]
    BY DEF NextToWrite
  <1>3. QED
    BY <1>1, <1>2 DEF TypeOK

-----------------------------------------------------------------------------
(* Type correctness                                                        *)

\* The initial states have the types.
LEMMA TypeInit == Init => TypeOK
  BY ThreadAssumption, ObjAssumption DEF Init, TypeOK, PC, NoCopy

\* Every action keeps the types.
LEMMA TypeStep == TypeOK /\ [Next]_vars => TypeOK'
  <1> SUFFICES ASSUME TypeOK, [Next]_vars PROVE TypeOK'
    OBVIOUS
  <1> USE ThreadAssumption, ObjAssumption DEF dbVars, clientVars, syncVars
  <1>1. ASSUME NEW t \in Thread, QueryDeteriorated(t) PROVE TypeOK'
    BY <1>1 DEF QueryDeteriorated, TypeOK, PC, Row
  <1>2. ASSUME NEW t \in Thread, Invalidate(t) PROVE TypeOK'
    BY <1>2 DEF Invalidate, DropCopies, AdvanceSync, TypeOK, PC, NoCopy
  <1>3. ASSUME NEW t \in Thread, Fetch(t) PROVE TypeOK'
    BY <1>3 DEF Fetch, TypeOK, PC
  <1>4. ASSUME NEW t \in Thread, Install(t) PROVE TypeOK'
    <2>1. target[t] \in Obj /\ ClientOf[t] \in Client
      BY <1>4 DEF Install, TypeOK
    <2>2. cache' \in [Client -> [Obj -> Nat]]
      BY <1>4, <2>1 DEF Install, TypeOK
    <2>3. QED
      BY <1>4, <2>2 DEF Install, TypeOK, PC, NoCopy
  <1>5. ASSUME NEW t \in Thread, WriteRow(t) PROVE TypeOK'
    <2>1. target[t] \in Obj /\ ClientOf[t] \in Client
      BY <1>5 DEF WriteRow, TypeOK
    <2>2. pend' \in [Thread -> SUBSET Row]
      BY <1>5, <2>1 DEF WriteRow, TypeOK, Row
    <2>3. QED
      BY <1>5, <2>1, <2>2, NextToWriteFacts DEF WriteRow, TypeOK
  <1>6. ASSUME NEW t \in Thread, WriteBlob(t) PROVE TypeOK'
    <2>1. target[t] \in Obj /\ ClientOf[t] \in Client
      BY <1>6, ObjAssumption DEF WriteBlob, TypeOK
    <2>2. version' \in [Obj -> Nat]
      BY <1>6, <2>1 DEF WriteBlob, TypeOK
    <2>3. cache' \in [Client -> [Obj -> Nat]]
      <3>1. version[target[t]] + 1 \in Nat
        BY <2>1 DEF TypeOK
      <3>2. QED
        BY <1>6, <2>1, <3>1 DEF WriteBlob, TypeOK
    <2>4. QED
      BY <1>6, <2>2, <2>3, NextToWriteFacts DEF WriteBlob, TypeOK
  <1>7. ASSUME NEW t \in Thread, EndCommit(t) PROVE TypeOK'
    BY <1>7 DEF EndCommit, ReleaseLocks, TypeOK, PC
  <1>8. ASSUME NEW t \in Thread, BeginTransaction(t) PROVE TypeOK'
    BY <1>8, StartFacts DEF BeginTransaction, TypeOK, PC
  <1>9. ASSUME NEW t \in Thread, Rollback(t) PROVE TypeOK'
    BY <1>9 DEF Rollback, ReleaseLocks, TypeOK, PC
  <1>10. ASSUME NEW t \in Thread, NEW o \in Obj, LoadAlone(t, o) PROVE TypeOK'
    BY <1>10, StartFacts DEF LoadAlone, TypeOK, PC
  <1>11. ASSUME NEW t \in Thread, NEW o \in Obj, LoadInTxn(t, o) PROVE TypeOK'
    BY <1>11 DEF LoadInTxn, TypeOK, PC
  <1>12. ASSUME NEW t \in Thread, NEW os \in SUBSET Obj, Commit(t, os) PROVE TypeOK'
    BY <1>12 DEF Commit, TypeOK, PC
  <1>13. ASSUME NEW t \in Thread, FailDeadlocked(t) PROVE TypeOK'
    BY <1>13 DEF FailDeadlocked, ReleaseLocks, TypeOK, PC
  <1>14. ASSUME NEW c \in Client, Open(c) PROVE TypeOK'
    BY <1>14, LastModtimeFacts DEF Open, TypeOK, NoCopy
  <1>15. ASSUME NEW c \in Client, Exit(c) PROVE TypeOK'
    BY <1>15 DEF Exit, TypeOK, PC, NoCopy
  <1>16. ASSUME NEW c \in Client, NEW o \in Obj, ThrowObject(c, o) PROVE TypeOK'
    BY <1>16 DEF ThrowObject, TypeOK, NoCopy
  <1>17. CASE UNCHANGED vars
    BY <1>17 DEF vars, TypeOK
  <1>18. QED
    BY <1>1, <1>2, <1>3, <1>4, <1>5, <1>6, <1>7, <1>8, <1>9, <1>10, <1>11,
       <1>12, <1>13, <1>14, <1>15, <1>16, <1>17 DEF Next, Step, Call

\* The types are kept for ever.
THEOREM TypeCorrect == Spec => []TypeOK
  <1>1. Init => TypeOK
    BY TypeInit
  <1>2. TypeOK /\ [Next]_vars => TypeOK'
    BY TypeStep
  <1>3. QED
    BY <1>1, <1>2, PTL DEF Spec

-----------------------------------------------------------------------------
(* The inductive invariant, conjunct by conjunct                           *)

\* A thread's buffers are empty outside the phase that uses them.
LEMMA ThreadStep == TypeOK /\ ThreadInv /\ [Next]_vars => ThreadInv'
  <1> SUFFICES ASSUME TypeOK, ThreadInv, [Next]_vars, NEW u \in Thread
               PROVE  ThreadShape(u)'
    BY DEF ThreadInv
  <1>0. ThreadShape(u) /\ ClientOf[u] \in Client
    BY ThreadAssumption DEF ThreadInv
  <1> USE ThreadAssumption DEF ThreadShape, TypeOK, dbVars, clientVars, syncVars
  <1>1. ASSUME NEW t \in Thread, QueryDeteriorated(t) PROVE ThreadShape(u)'
    BY <1>0, <1>1 DEF QueryDeteriorated
  <1>2. ASSUME NEW t \in Thread, Invalidate(t) PROVE ThreadShape(u)'
    <2>1. ThreadShape(t)
      BY <1>2 DEF ThreadInv
    <2>2. CASE u = t
      BY <1>2, <2>1, <2>2 DEF Invalidate, DropCopies, AdvanceSync, Siblings
    <2>3. CASE u # t
      BY <1>0, <1>2, <2>3 DEF Invalidate, DropCopies, AdvanceSync, Siblings
    <2>4. QED
      BY <2>2, <2>3
  <1>3. ASSUME NEW t \in Thread, Fetch(t) PROVE ThreadShape(u)'
    BY <1>0, <1>3 DEF Fetch
  <1>4. ASSUME NEW t \in Thread, Install(t) PROVE ThreadShape(u)'
    BY <1>0, <1>4 DEF Install
  <1>5. ASSUME NEW t \in Thread, WriteRow(t) PROVE ThreadShape(u)'
    BY <1>0, <1>5, NextToWriteFacts DEF WriteRow
  <1>6. ASSUME NEW t \in Thread, WriteBlob(t) PROVE ThreadShape(u)'
    BY <1>0, <1>6, NextToWriteFacts DEF WriteBlob
  <1>7. ASSUME NEW t \in Thread, EndCommit(t) PROVE ThreadShape(u)'
    BY <1>0, <1>7 DEF EndCommit
  <1>8. ASSUME NEW t \in Thread, BeginTransaction(t) PROVE ThreadShape(u)'
    BY <1>0, <1>8, StartFacts DEF BeginTransaction, Idle
  <1>9. ASSUME NEW t \in Thread, Rollback(t) PROVE ThreadShape(u)'
    BY <1>0, <1>9 DEF Rollback, Idle
  <1>10. ASSUME NEW t \in Thread, NEW o \in Obj, LoadAlone(t, o) PROVE ThreadShape(u)'
    BY <1>0, <1>10, StartFacts DEF LoadAlone, Idle
  <1>11. ASSUME NEW t \in Thread, NEW o \in Obj, LoadInTxn(t, o) PROVE ThreadShape(u)'
    BY <1>0, <1>11 DEF LoadInTxn, Idle
  <1>12. ASSUME NEW t \in Thread, NEW os \in SUBSET Obj, Commit(t, os) PROVE ThreadShape(u)'
    BY <1>0, <1>12 DEF Commit, Idle
  <1>13. ASSUME NEW t \in Thread, FailDeadlocked(t) PROVE ThreadShape(u)'
    <2>1. pc[t] # "idle" /\ pc[t] # "fetched"
      BY <1>13 DEF FailDeadlocked, Deadlocked, WaitsForLock
    <2>2. pc[t] \notin {"synced", "queried"}
      BY <1>13 DEF FailDeadlocked, Deadlocked, WaitsForLock
    <2>3. QED
      BY <1>0, <1>13, <2>1, <2>2 DEF FailDeadlocked
  <1>14. ASSUME NEW c \in Client, Open(c) PROVE ThreadShape(u)'
    BY <1>0, <1>14 DEF Open
  <1>15. ASSUME NEW c \in Client, Exit(c) PROVE ThreadShape(u)'
    BY <1>0, <1>15 DEF Exit, NoCopy
  <1>16. ASSUME NEW c \in Client, NEW o \in Obj, ThrowObject(c, o) PROVE ThreadShape(u)'
    BY <1>0, <1>16 DEF ThrowObject
  <1>17. CASE UNCHANGED vars
    BY <1>0, <1>17 DEF vars
  <1>18. QED
    BY <1>1, <1>2, <1>3, <1>4, <1>5, <1>6, <1>7, <1>8, <1>9, <1>10, <1>11,
       <1>12, <1>13, <1>14, <1>15, <1>16, <1>17 DEF Next, Step, Call

\* A row about to commit stays tied to the lock its transaction holds.
LEMMA PendStep == TypeOK /\ ThreadInv /\ PendInv /\ [Next]_vars => PendInv'
  <1> SUFFICES ASSUME TypeOK, ThreadInv, PendInv, [Next]_vars,
                      NEW u \in Thread, NEW r \in pend'[u]
               PROVE  /\ lock'[r.opid] = u /\ r.opid \notin Blob
                      /\ r.client = ClientOf[u]
                      /\ r.ver = version'[r.opid] + 1
                      /\ r.modtime > 0
    BY DEF PendInv
  <1> DEFINE Goal == /\ lock'[r.opid] = u /\ r.opid \notin Blob
                     /\ r.client = ClientOf[u]
                     /\ r.ver = version'[r.opid] + 1
                     /\ r.modtime > 0
  <1> USE ThreadAssumption DEF dbVars, clientVars, syncVars
  <1>0. /\ pend \in [Thread -> SUBSET Row] /\ version \in [Obj -> Nat]
        /\ lock \in [Obj -> Thread \cup {NoThread}]
    BY DEF TypeOK
  <1>1. CASE UNCHANGED <<version, lock, pend>>
    BY <1>1 DEF PendInv
  <1>2. ASSUME NEW t \in Thread, Fetch(t) PROVE Goal
    <2>1. r \in pend[u]
      BY <1>2 DEF Fetch
    <2>2. r.opid \in Obj
      BY <1>0, <2>1 DEF Row
    <2>3. CASE lock[r.opid] = lock'[r.opid]
      BY <1>2, <2>1, <2>3 DEF Fetch, PendInv
    <2>4. CASE lock[r.opid] # lock'[r.opid]
      <3>1. pc[t] = "fetchLock" /\ lock' = [lock EXCEPT ![target[t]] = t]
        BY <1>2, <2>4 DEF Fetch
      <3>2. r.opid = target[t] /\ lock[r.opid] \in {NoThread, t}
        BY <1>0, <1>2, <2>2, <2>4, <3>1 DEF Fetch
      <3>3. u = t
        BY <2>1, <3>2 DEF PendInv
      <3>4. QED
        BY <1>2, <2>1, <3>1, <3>3, <2>4, <3>2 DEF PendInv
    <2>5. QED
      BY <2>3, <2>4
  <1>3. ASSUME NEW t \in Thread, WriteRow(t) PROVE Goal
    <2>0. target[t] \in Obj \ Blob
      BY <1>3 DEF WriteRow, TypeOK
    <2>1. CASE r \in pend[u]
      <3>1. r.opid \in Obj /\ lock[r.opid] = u /\ version' = version
        BY <1>0, <1>3, <2>1 DEF Row, PendInv, WriteRow
      <3>2. lock'[r.opid] = u
        BY <1>0, <1>3, <2>0, <3>1 DEF WriteRow
      <3>3. QED
        BY <2>1, <3>1, <3>2 DEF PendInv
    <2>2. CASE r \notin pend[u]
      <3>1. u = t
        BY <1>0, <1>3, <2>2 DEF WriteRow
      <3>2. r = [opid |-> target[t], client |-> ClientOf[t],
                 modtime |-> lastModtime + 1, ver |-> version[target[t]] + 1]
        BY <1>0, <1>3, <2>2, <3>1 DEF WriteRow
      <3>3. lock'[target[t]] = t /\ version' = version
        BY <1>0, <1>3, <2>0 DEF WriteRow
      <3>4. lastModtime \in Nat
        BY DEF TypeOK
      <3>5. QED
        BY <2>0, <3>1, <3>2, <3>3, <3>4
    <2>3. QED
      BY <2>1, <2>2
  <1>4. ASSUME NEW t \in Thread, WriteBlob(t) PROVE Goal
    <2>1. r \in pend[u] /\ lock' = lock
      BY <1>4 DEF WriteBlob
    <2>2. r.opid \in Obj \ Blob
      BY <1>0, <2>1 DEF Row, PendInv
    <2>3. version'[r.opid] = version[r.opid]
      BY <1>0, <1>4, <2>2 DEF WriteBlob
    <2>4. QED
      BY <2>1, <2>3 DEF PendInv
  <1>5. ASSUME NEW t \in Thread, EndCommit(t) PROVE Goal
    <2>1. u # t /\ r \in pend[u]
      BY <1>0, <1>5 DEF EndCommit
    <2>2. r.opid \in Obj /\ lock[r.opid] = u
      BY <1>0, <2>1 DEF Row, PendInv
    <2>3. lock'[r.opid] = u
      BY <1>0, <1>5, <2>1, <2>2 DEF EndCommit, ReleaseLocks
    <2>4. r.opid \notin WriteSet(t)
      <3>1. todo[t] = {}
        BY <1>5 DEF EndCommit
      <3>2. \A q \in pend[t] : lock[q.opid] = t
        BY DEF PendInv
      <3>3. QED
        BY <2>1, <2>2, <3>1, <3>2 DEF WriteSet
    <2>5. version'[r.opid] = version[r.opid]
      BY <1>0, <1>5, <2>2, <2>4 DEF EndCommit
    <2>6. QED
      BY <2>1, <2>3, <2>5 DEF PendInv
  <1>6. ASSUME NEW t \in Thread, Rollback(t) \/ FailDeadlocked(t) PROVE Goal
    <2>1. pend'[t] = {} /\ \A w \in Thread \ {t} : pend'[w] = pend[w]
      BY <1>0, <1>6 DEF Rollback, FailDeadlocked, Idle, ThreadInv, ThreadShape
    <2>2. u # t /\ r \in pend[u]
      BY <2>1
    <2>3. r.opid \in Obj /\ lock[r.opid] = u
      BY <1>0, <2>2 DEF Row, PendInv
    <2>4. lock'[r.opid] = u /\ version' = version
      BY <1>0, <1>6, <2>2, <2>3 DEF Rollback, FailDeadlocked, ReleaseLocks
    <2>5. QED
      BY <2>2, <2>4 DEF PendInv
  <1>7. ASSUME NEW c \in Client, Exit(c) PROVE Goal
    <2>1. ClientOf[u] # c /\ r \in pend[u]
      BY <1>0, <1>7 DEF Exit
    <2>2. r.opid \in Obj /\ lock[r.opid] = u
      BY <1>0, <2>1 DEF Row, PendInv
    <2>3. lock'[r.opid] = u /\ version' = version
      BY <1>0, <1>7, <2>1, <2>2 DEF Exit
    <2>4. QED
      BY <2>1, <2>3 DEF PendInv
  <1>8. QED
    BY <1>1, <1>2, <1>3, <1>4, <1>5, <1>6, <1>7
    DEF Next, Step, Call, vars, QueryDeteriorated, Invalidate, DropCopies,
        AdvanceSync, Install, BeginTransaction, LoadAlone, LoadInTxn, Commit,
        Open, ThrowObject

\* Inside a client, loads and writes keep apart.
LEMMA SiblingStep == TypeOK /\ ThreadInv /\ SiblingInv /\ [Next]_vars => SiblingInv'
  <1> SUFFICES ASSUME TypeOK, ThreadInv, SiblingInv, [Next]_vars,
                      NEW u \in Thread, NEW w \in Siblings(u)
               PROVE  /\ target'[u] \notin WriteSet(w)'
                      /\ WriteSet(u)' \cap WriteSet(w)' = {}
    BY DEF SiblingInv, Siblings
  <1> DEFINE Apart == /\ target'[u] \notin WriteSet(w)'
                      /\ WriteSet(u)' \cap WriteSet(w)' = {}
  <1> USE ThreadAssumption, ObjAssumption DEF dbVars, clientVars, syncVars
  <1>0. /\ w \in Thread /\ w # u /\ ClientOf[w] = ClientOf[u]
        /\ u \in Siblings(w)
        /\ target[u] \notin WriteSet(w) /\ WriteSet(u) \cap WriteSet(w) = {}
        /\ target[w] \notin WriteSet(u)
        /\ pend \in [Thread -> SUBSET Row] /\ todo \in [Thread -> SUBSET Obj]
        /\ target \in [Thread -> Obj \cup {NoObj}]
    BY DEF SiblingInv, Siblings, TypeOK
  <1>1. CASE UNCHANGED <<target, todo, pend>>
    BY <1>0, <1>1 DEF WriteSet
  \* A new target that no sibling writes.
  <1>2. ASSUME NEW t \in Thread, NEW o \in Obj, LoadAlone(t, o) \/ LoadInTxn(t, o)
        PROVE  Apart
    <2>1. /\ \A x \in Siblings(t) : o \notin WriteSet(x)
          /\ target' = [target EXCEPT ![t] = o] /\ UNCHANGED <<todo, pend>>
      BY <1>2 DEF LoadAlone, LoadInTxn, CanLoad
    <2>2. WriteSet(u)' = WriteSet(u) /\ WriteSet(w)' = WriteSet(w)
      BY <2>1 DEF WriteSet
    <2>3. QED
      BY <1>0, <2>1, <2>2
  \* The target is given up.
  <1>3. ASSUME NEW t \in Thread, Install(t) PROVE Apart
    <2>1. target' = [target EXCEPT ![t] = NoObj] /\ UNCHANGED <<todo, pend>>
      BY <1>3 DEF Install
    <2>2. WriteSet(u)' = WriteSet(u) /\ WriteSet(w)' = WriteSet(w)
      BY <2>1 DEF WriteSet
    <2>3. NoObj \notin WriteSet(w)
      BY <1>0 DEF WriteSet, Row
    <2>4. QED
      BY <1>0, <2>1, <2>2, <2>3
  <1>4. ASSUME NEW t \in Thread, NEW os \in SUBSET Obj, Commit(t, os) PROVE Apart
    <2>1. /\ todo' = [todo EXCEPT ![t] = os] /\ pend' = pend
          /\ \A o \in os : \A x \in Siblings(t) : target[x] # o /\ o \notin WriteSet(x)
          /\ \A x \in Thread \ {t} : target'[x] = target[x]
          /\ target'[t] \in os
      BY <1>0, <1>4 DEF Commit, CanModify
    <2>2. pend[t] = {}
      BY <1>4 DEF Commit, Idle, ThreadInv, ThreadShape
    <2>3. WriteSet(t)' = os
      BY <1>0, <2>1, <2>2 DEF WriteSet
    <2>4. \A x \in Thread \ {t} : WriteSet(x)' = WriteSet(x)
      BY <1>0, <2>1 DEF WriteSet
    <2>5. QED
      BY <1>0, <2>1, <2>3, <2>4
  \* Writing moves an object from the buffer to the written ones.
  <1>5. ASSUME NEW t \in Thread, WriteRow(t) \/ WriteBlob(t) PROVE Apart
    <2>1. /\ \A x \in Thread \ {t} : target'[x] = target[x]
          /\ todo' = [todo EXCEPT ![t] = todo[t] \ {target[t]}]
          /\ target'[t] \in todo'[t] \cup {NoObj}
          /\ target[t] \in todo[t]
      BY <1>5, NextToWriteFacts DEF WriteRow, WriteBlob
    <2>2. \A x \in Thread \ {t} : WriteSet(x)' = WriteSet(x)
      BY <1>0, <1>5, <2>1 DEF WriteSet, WriteRow, WriteBlob
    <2>3. {r.opid : r \in pend'[t]} \subseteq {r.opid : r \in pend[t]} \cup {target[t]}
      BY <1>0, <1>5 DEF WriteRow, WriteBlob
    <2>4. WriteSet(t)' \subseteq WriteSet(t)
      BY <1>0, <2>1, <2>3 DEF WriteSet
    <2>5. target'[t] \in WriteSet(t) \cup {NoObj}
      BY <1>0, <2>1 DEF WriteSet
    <2>6. NoObj \notin WriteSet(u) /\ NoObj \notin WriteSet(w)
      BY <1>0 DEF WriteSet, Row
    <2>7. QED
      BY <1>0, <2>1, <2>2, <2>4, <2>5, <2>6
  \* The buffers are emptied.
  <1>6. ASSUME \A x \in Thread : /\ target'[x] \in {target[x], NoObj}
                                 /\ todo'[x] \subseteq todo[x]
                                 /\ pend'[x] \subseteq pend[x]
        PROVE  Apart
    <2>1. WriteSet(u)' \subseteq WriteSet(u) /\ WriteSet(w)' \subseteq WriteSet(w)
      BY <1>0, <1>6 DEF WriteSet
    <2>2. NoObj \notin WriteSet(w)
      BY <1>0 DEF WriteSet, Row
    <2>3. QED
      BY <1>0, <1>6, <2>1, <2>2
  <1>7. ASSUME NEW t \in Thread, EndCommit(t) \/ FailDeadlocked(t) PROVE Apart
    BY <1>0, <1>6, <1>7 DEF EndCommit, FailDeadlocked
  <1>8. ASSUME NEW c \in Client, Exit(c) PROVE Apart
    BY <1>0, <1>6, <1>8 DEF Exit
  <1>9. QED
    BY <1>1, <1>2, <1>3, <1>4, <1>5, <1>7, <1>8
    DEF Next, Step, Call, vars, QueryDeteriorated, Invalidate, DropCopies,
        AdvanceSync, Fetch, BeginTransaction, Rollback, Open, ThrowObject

\* What EndCommit publishes: one version more of each object written, and the
\* rows that announce them.
LEMMA EndCommitFacts ==
  ASSUME TypeOK, PendInv, NEW t \in Thread, EndCommit(t)
  PROVE  /\ \A o \in Obj : version'[o] \in {version[o], version[o] + 1}
         /\ \A o \in Obj : version'[o] # version[o] <=> o \in WriteSet(t)
         /\ \A r \in pend[t] : /\ r \in Row /\ r.opid \in WriteSet(t)
                               /\ r.ver = version'[r.opid] /\ r.modtime > 0
                               /\ r.client = ClientOf[t]
         /\ \A o \in WriteSet(t) : \E r \in pend[t] : r.opid = o
         /\ WriteSet(t) \subseteq Obj \ Blob
         /\ history' = history \cup pend[t]
         /\ late \subseteq late'
         /\ \A r \in pend[t] \ late' : \A q \in history : q.modtime <= r.modtime
  <1>1. /\ pend[t] \subseteq Row /\ version \in [Obj -> Nat]
        /\ history \subseteq Row
    BY DEF TypeOK
  <1>2. WriteSet(t) = {r.opid : r \in pend[t]}
    BY DEF EndCommit, WriteSet
  <1>3. WriteSet(t) \subseteq Obj \ Blob
    BY <1>1, <1>2 DEF PendInv, Row
  <1>4. version' = [o \in Obj |-> IF o \in WriteSet(t) THEN version[o] + 1 ELSE version[o]]
    BY DEF EndCommit
  <1>5. \A r \in pend[t] : /\ r \in Row /\ r.opid \in WriteSet(t)
                           /\ r.ver = version'[r.opid] /\ r.modtime > 0
                           /\ r.client = ClientOf[t]
    <2> SUFFICES ASSUME NEW r \in pend[t]
                 PROVE  /\ r \in Row /\ r.opid \in WriteSet(t)
                        /\ r.ver = version'[r.opid] /\ r.modtime > 0
                        /\ r.client = ClientOf[t]
      OBVIOUS
    <2>1. r \in Row /\ r.opid \in WriteSet(t) /\ r.opid \in Obj
      BY <1>1, <1>2 DEF Row
    <2>2. version'[r.opid] = version[r.opid] + 1
      BY <1>4, <2>1
    <2>3. QED
      BY <2>1, <2>2 DEF PendInv
  <1>6. \A r \in pend[t] \ late' : \A q \in history : q.modtime <= r.modtime
    BY <1>1 DEF EndCommit, Row
  <1>7. QED
    BY <1>1, <1>2, <1>3, <1>4, <1>5, <1>6 DEF EndCommit

\* Every version a row announces has been reached by the database.
LEMMA HistoryStep == TypeOK /\ PendInv /\ HistoryInv /\ [Next]_vars => HistoryInv'
  <1> SUFFICES ASSUME TypeOK, PendInv, HistoryInv, [Next]_vars, NEW r \in history'
               PROVE  r.ver <= version'[r.opid] /\ r.modtime > 0
    BY DEF HistoryInv
  <1> DEFINE Goal == r.ver <= version'[r.opid] /\ r.modtime > 0
  <1> USE DEF dbVars, clientVars, syncVars
  <1>0. history \subseteq Row /\ version \in [Obj -> Nat]
    BY DEF TypeOK
  <1>1. CASE UNCHANGED <<version, history>>
    BY <1>1 DEF HistoryInv
  <1>2. ASSUME NEW t \in Thread, WriteBlob(t) PROVE Goal
    <2>1. r \in history /\ r.opid \in Obj /\ r.ver \in Nat
      BY <1>0, <1>2 DEF WriteBlob, Row
    <2>2. version'[r.opid] >= version[r.opid] /\ version'[r.opid] \in Nat
      BY <1>0, <1>2, <2>1 DEF WriteBlob
    <2>3. QED
      BY <1>0, <2>1, <2>2 DEF HistoryInv
  <1>3. ASSUME NEW t \in Thread, EndCommit(t) PROVE Goal
    <2>1. CASE r \in pend[t]
      BY <1>3, <2>1, EndCommitFacts DEF Row
    <2>2. CASE r \in history
      <3>1. r.opid \in Obj /\ r.ver \in Nat /\ version[r.opid] \in Nat
        BY <1>0, <2>2 DEF Row
      <3>2. version'[r.opid] \in {version[r.opid], version[r.opid] + 1}
        BY <1>3, <3>1, EndCommitFacts
      <3>3. QED
        BY <2>2, <3>1, <3>2 DEF HistoryInv
    <2>3. QED
      BY <1>3, <2>1, <2>2 DEF EndCommit
  <1>4. ASSUME NEW c \in Client, Open(c) PROVE Goal
    BY <1>4 DEF Open, HistoryInv
  <1>5. QED
    BY <1>1, <1>2, <1>3, <1>4
    DEF Next, Step, Call, vars, QueryDeteriorated, Invalidate, DropCopies,
        AdvanceSync, Fetch, Install, WriteRow, BeginTransaction, LoadAlone,
        LoadInTxn, Commit, Rollback, FailDeadlocked, Exit, ThrowObject

\* The sequence gives every row its own modtime.
LEMMA ModtimeStep == TypeOK /\ ModtimeInv /\ [Next]_vars => ModtimeInv'
  <1> SUFFICES ASSUME TypeOK, ModtimeInv, [Next]_vars PROVE ModtimeInv'
    OBVIOUS
  <1> USE DEF dbVars, clientVars, syncVars
  <1>0. /\ history \subseteq Row /\ pend \in [Thread -> SUBSET Row]
        /\ lastModtime \in Nat
    BY DEF TypeOK
  <1>1. ASSUME history' \subseteq history, lastModtime' = lastModtime,
               \A t \in Thread : pend'[t] \subseteq pend[t]
        PROVE  ModtimeInv'
    BY <1>0, <1>1 DEF ModtimeInv
  <1>2. ASSUME NEW t \in Thread, WriteRow(t) PROVE ModtimeInv'
    <2>1. /\ lastModtime' = lastModtime + 1 /\ history' = history
          /\ \A u \in Thread \ {t} : pend'[u] = pend[u]
      BY <1>0, <1>2 DEF WriteRow
    <2>2. PICK new : new.modtime = lastModtime + 1 /\ pend'[t] = pend[t] \cup {new}
      <3>1. [opid |-> target[t], client |-> ClientOf[t], modtime |-> lastModtime + 1,
             ver |-> version[target[t]] + 1].modtime = lastModtime + 1
        OBVIOUS
      <3>2. QED
        BY <1>0, <1>2, <3>1 DEF WriteRow
    <2>3. \A u \in Thread : \A r \in pend[u] : r.modtime \in Nat
      BY <1>0 DEF Row
    <2>4. \A r \in history : r.modtime \in Nat
      BY <1>0 DEF Row
    <2>5. \A u \in Thread : \A r \in pend'[u] : (r = new /\ u = t) \/ r \in pend[u]
      BY <2>1, <2>2
    <2>6. QED
      BY <1>0, <2>1, <2>2, <2>3, <2>4, <2>5 DEF ModtimeInv
  <1>3. ASSUME NEW t \in Thread, EndCommit(t) PROVE ModtimeInv'
    <2>1. /\ lastModtime' = lastModtime /\ history' = history \cup pend[t]
          /\ pend'[t] = {} /\ \A u \in Thread \ {t} : pend'[u] = pend[u]
      BY <1>0, <1>3 DEF EndCommit
    <2>2. QED
      BY <1>0, <2>1 DEF ModtimeInv
  <1>4. ASSUME NEW t \in Thread, FailDeadlocked(t) PROVE ModtimeInv'
    BY <1>0, <1>1, <1>4 DEF FailDeadlocked
  <1>5. ASSUME NEW c \in Client, Open(c) PROVE ModtimeInv'
    BY <1>1, <1>5 DEF Open
  <1>6. ASSUME NEW c \in Client, Exit(c) PROVE ModtimeInv'
    BY <1>0, <1>1, <1>6 DEF Exit
  <1>7. CASE UNCHANGED <<history, lastModtime, pend>>
    BY <1>1, <1>7
  <1>8. QED
    BY <1>2, <1>3, <1>4, <1>5, <1>6, <1>7
    DEF Next, Step, Call, vars, QueryDeteriorated, Invalidate, DropCopies,
        AdvanceSync, Fetch, Install, WriteBlob, BeginTransaction, LoadAlone,
        LoadInTxn, Commit, Rollback, ThrowObject

\* A row that commits in order lies above every value of "lastsync" a client
\* or a thread can hold.
LEMMA InOrderAbove ==
  ASSUME TypeOK, PendInv, ModtimeInv, NEW t \in Thread, EndCommit(t),
         NEW r \in pend[t] \ late', NEW m \in Nat, Reached(m)
  PROVE  r.modtime > m
  <1>1. r \in Row /\ r.modtime > 0 /\ \A q \in history : q.modtime <= r.modtime
    BY EndCommitFacts
  <1>2. \A q \in history : q \in Row /\ q.modtime # r.modtime
    BY DEF TypeOK, ModtimeInv
  <1>3. QED
    BY <1>1, <1>2 DEF Reached, Row

\* Clients and threads stay at or below what version_history holds.
LEMMA SyncStep == TypeOK /\ ThreadInv /\ SyncInv /\ [Next]_vars => SyncInv'
  <1> SUFFICES ASSUME TypeOK, ThreadInv, SyncInv, [Next]_vars PROVE SyncInv'
    OBVIOUS
  <1> USE ThreadAssumption DEF dbVars, clientVars, syncVars
  <1>0. /\ sync \in [Thread -> Nat] /\ lastSync \in [Client -> Nat]
        /\ history \subseteq Row
    BY DEF TypeOK
  <1>1. Reached(0)'
    BY DEF Reached
  <1>2. ASSUME history \subseteq history' PROVE \A m : Reached(m) => Reached(m)'
    BY <1>2 DEF Reached
  <1>3. ASSUME history \subseteq history', up' = up, UNCHANGED <<lastSync, sync>>
        PROVE  SyncInv'
    BY <1>2, <1>3 DEF SyncInv
  <1>4. ASSUME NEW t \in Thread, Invalidate(t) PROVE SyncInv'
    <2>1. ClientOf[t] \in up
      BY <1>4 DEF Invalidate, DropCopies, AdvanceSync, ThreadInv, ThreadShape
    <2>2. /\ UNCHANGED <<history, up>>
          /\ lastSync'[ClientOf[t]] \in {lastSync[ClientOf[t]], sync[t]}
          /\ \A c \in Client \ {ClientOf[t]} : lastSync'[c] = lastSync[c]
          /\ \A u \in Thread : sync'[u] \in {0, sync[u]}
      BY <1>0, <1>4 DEF Invalidate, DropCopies, AdvanceSync
    <2>3. QED
      BY <1>1, <1>2, <2>1, <2>2 DEF SyncInv
  <1>5. ASSUME NEW t \in Thread, StartTransaction(t), UNCHANGED <<dbVars, clientVars>>
        PROVE  SyncInv'
    <2>1. PICK m \in Nat : Reached(m) /\ sync' = [sync EXCEPT ![t] = m]
      BY <1>5, StartFacts
    <2>2. QED
      BY <1>0, <1>2, <1>5, <2>1 DEF SyncInv
  <1>6. ASSUME NEW c \in Client, Open(c) PROVE SyncInv'
    <2>1. \A d \in Client \ {c} : lastSync'[d] = lastSync[d]
      BY <1>0, <1>6 DEF Open
    <2>2. Reached(lastSync[c])'
      <3>1. history' \subseteq Row
        BY <1>0, <1>6 DEF Open
      <3>2. PICK m \in LastModtimes(history') : lastSync' = [lastSync EXCEPT ![c] = m]
        BY <1>6 DEF Open
      <3>3. lastSync'[c] = m
        BY <1>0, <3>2
      <3>4. QED
        BY <3>1, <3>2, <3>3, LastModtimeFacts DEF Reached
    <2>3. CASE up = {}
      <3>1. \A t \in Thread : sync[t] = 0
        BY <2>3 DEF ThreadInv, ThreadShape
      <3>2. \A d \in Client \ {c} : lastSync'[d] = 0
        BY <2>1, <2>3 DEF SyncInv
      <3>3. QED
        BY <1>1, <1>6, <2>2, <3>1, <3>2 DEF Open, SyncInv
    <2>4. CASE up # {}
      <3>1. history' = history
        BY <1>6, <2>4 DEF Open
      <3>2. QED
        BY <1>2, <1>6, <2>1, <2>2, <3>1 DEF Open, SyncInv
    <2>5. QED
      BY <2>3, <2>4
  <1>7. ASSUME NEW c \in Client, Exit(c) PROVE SyncInv'
    <2>1. /\ UNCHANGED history /\ up' = up \ {c}
          /\ lastSync'[c] = 0 /\ \A d \in Client \ {c} : lastSync'[d] = lastSync[d]
          /\ \A u \in Thread : sync'[u] \in {0, sync[u]}
      BY <1>0, <1>7 DEF Exit
    <2>2. QED
      BY <1>1, <1>2, <2>1 DEF SyncInv
  <1>8. ASSUME NEW t \in Thread, EndCommit(t) PROVE SyncInv'
    BY <1>3, <1>8 DEF EndCommit
  <1>9. CASE UNCHANGED <<history, up, lastSync, sync>>
    BY <1>3, <1>9
  <1>10. QED
    BY <1>4, <1>5, <1>6, <1>7, <1>8, <1>9
    DEF Next, Step, Call, vars, QueryDeteriorated, Fetch, Install, WriteRow,
        WriteBlob, BeginTransaction, LoadAlone, LoadInTxn, Commit, Rollback,
        FailDeadlocked, ThrowObject

\* No row that advancing lastSyncTime would skip is missing from the vector.
LEMMA DetStep ==
  TypeOK /\ ThreadInv /\ PendInv /\ ModtimeInv /\ SyncInv /\ DetInv /\ [Next]_vars
    => DetInv'
  <1> SUFFICES ASSUME TypeOK, ThreadInv, PendInv, ModtimeInv, SyncInv, DetInv,
                      [Next]_vars,
                      NEW u \in Thread, pc'[u] = "queried",
                      NEW r \in history' \ late',
                      IsDue(ClientOf[u], r)', r.modtime <= sync'[u]
               PROVE  r.opid \in det'[u]
    BY DEF DetInv
  <1> DEFINE Goal == r.opid \in det'[u]
  <1> USE ThreadAssumption DEF dbVars, clientVars, syncVars
  <1>0. /\ pc \in [Thread -> PC] /\ sync \in [Thread -> Nat]
        /\ lastSync \in [Client -> Nat] /\ history \subseteq Row
        /\ det \in [Thread -> SUBSET Obj] /\ ClientOf[u] \in Client
    BY DEF TypeOK
  <1>1. ASSUME pc[u] = "queried", r \in history \ late, sync'[u] = sync[u],
               det'[u] = det[u], lastSync'[ClientOf[u]] = lastSync[ClientOf[u]]
        PROVE  Goal
    BY <1>1 DEF DetInv, IsDue
  <1>2. ASSUME NEW t \in Thread, QueryDeteriorated(t) PROVE Goal
    <2>1. CASE u = t
      BY <1>0, <1>2, <2>1 DEF QueryDeteriorated, IsDue
    <2>2. CASE u # t
      BY <1>0, <1>1, <1>2, <2>2 DEF QueryDeteriorated
    <2>3. QED
      BY <2>1, <2>2
  <1>3. ASSUME NEW t \in Thread, Invalidate(t) PROVE Goal
    <2>1. u # t /\ pc[u] = "queried" /\ sync'[u] = sync[u] /\ det'[u] = det[u]
      BY <1>0, <1>3 DEF Invalidate, DropCopies, AdvanceSync
    <2>2. lastSync'[ClientOf[u]] >= lastSync[ClientOf[u]]
      BY <1>0, <1>3 DEF Invalidate, DropCopies, AdvanceSync
    <2>3. r \in history \ late /\ r.modtime \in Nat /\ lastSync'[ClientOf[u]] \in Nat
      BY <1>0, <1>3 DEF Invalidate, DropCopies, AdvanceSync, Row
    <2>4. IsDue(ClientOf[u], r)
      BY <1>0, <2>2, <2>3 DEF IsDue
    <2>5. QED
      BY <2>1, <2>3, <2>4 DEF DetInv
  <1>4. ASSUME NEW t \in Thread, EndCommit(t) PROVE Goal
    <2>1. pc[u] = "queried" /\ UNCHANGED <<sync, det, lastSync>>
      BY <1>0, <1>4 DEF EndCommit
    <2>2. CASE r \in history
      BY <1>1, <1>4, <2>1, <2>2, EndCommitFacts
    <2>3. CASE r \in pend[t]
      <3>1. Reached(sync[u]) /\ sync[u] \in Nat
        BY <1>0 DEF SyncInv
      <3>2. r.modtime > sync[u] /\ r \in Row
        BY <1>4, <2>3, <3>1, InOrderAbove, EndCommitFacts
      <3>3. QED
        BY <2>1, <3>1, <3>2 DEF Row
    <2>4. QED
      BY <1>4, <2>2, <2>3, EndCommitFacts
  <1>5. ASSUME NEW t \in Thread,
               Fetch(t) \/ Install(t) \/ WriteRow(t) \/ WriteBlob(t)
                        \/ FailDeadlocked(t)
        PROVE  Goal
    <2>1. /\ UNCHANGED <<history, late, sync, det, lastSync>> /\ pc[u] = "queried"
      BY <1>0, <1>5 DEF Fetch, Install, WriteRow, WriteBlob, FailDeadlocked
    <2>2. QED
      BY <1>1, <2>1
  <1>6. ASSUME NEW t \in Thread, Call(t) PROVE Goal
    <2>1. /\ UNCHANGED <<history, late, det, lastSync>>
          /\ pc[u] = "queried" /\ sync'[u] = sync[u]
      BY <1>0, <1>6 DEF Call, BeginTransaction, StartTransaction, LoadAlone,
                        LoadInTxn, Commit, Rollback
    <2>2. QED
      BY <1>1, <2>1
  <1>7. ASSUME NEW c \in Client, Open(c) PROVE Goal
    <2>1. pc[u] = "queried" /\ UNCHANGED <<sync, det>>
      BY <1>7 DEF Open
    <2>2. ClientOf[u] \in up
      BY <2>1 DEF ThreadInv, ThreadShape
    <2>3. history' = history /\ late' = late \cap history /\ ClientOf[u] # c
      BY <1>7, <2>2 DEF Open
    <2>4. lastSync'[ClientOf[u]] = lastSync[ClientOf[u]]
      BY <1>0, <1>7, <2>3 DEF Open
    <2>5. QED
      BY <1>1, <2>1, <2>3, <2>4
  <1>8. ASSUME NEW c \in Client, Exit(c) PROVE Goal
    <2>1. /\ UNCHANGED <<history, late>> /\ ClientOf[u] # c
          /\ pc[u] = "queried" /\ sync'[u] = sync[u] /\ det'[u] = det[u]
      BY <1>0, <1>8 DEF Exit
    <2>2. lastSync'[ClientOf[u]] = lastSync[ClientOf[u]]
      BY <1>0, <1>8, <2>1 DEF Exit
    <2>3. QED
      BY <1>1, <2>1, <2>2
  <1>9. CASE UNCHANGED <<history, late, pc, sync, det, lastSync>>
    BY <1>1, <1>9
  <1>10. QED
    BY <1>2, <1>3, <1>4, <1>5, <1>6, <1>7, <1>8, <1>9
    DEF Next, Step, vars, ThrowObject

\* A sound copy stays sound while nothing it is judged by changes.
LEMMA SoundKept ==
  ASSUME NEW c, NEW o, NEW v, CopySound(c, o, v),
         version'[o] = version[o], UNCHANGED <<history, late>>,
         lastSync'[c] = lastSync[c]
  PROVE  CopySound(c, o, v)'
  BY DEF CopySound, IsDue

\* What has just been read or written is sound.
LEMMA SoundCurrent ==
  ASSUME HistoryInv', TypeOK', NEW c, NEW o \in Obj
  PROVE  CopySound(c, o, version[o])'
  <1>1. version'[o] \in Nat /\ \A r \in history' : r.ver \in Nat
    BY DEF TypeOK, Row
  <1>2. QED
    BY <1>1 DEF CopySound, HistoryInv

\* A copy that survives an invalidation is still sound: advancing lastSyncTime
\* skips no row that concerns it.
LEMMA SoundInvalidate ==
  ASSUME TypeOK, DetInv, NEW t \in Thread, Invalidate(t),
         NEW c \in Client, NEW o \in Obj, NEW v \in Nat, CopySound(c, o, v),
         c = ClientOf[t] => o \notin det[t]
  PROVE  CopySound(c, o, v)'
  <1> USE ThreadAssumption DEF dbVars
  <1>1. UNCHANGED <<version, history, late>>
    BY DEF Invalidate, DropCopies, AdvanceSync
  <1>2. lastSync \in [Client -> Nat] /\ sync[t] \in Nat /\ pc[t] = "queried"
    BY DEF TypeOK, Invalidate, DropCopies, AdvanceSync
  <1>3. CASE c # ClientOf[t]
    BY <1>1, <1>2, <1>3, SoundKept DEF Invalidate, DropCopies, AdvanceSync
  <1>4. CASE c = ClientOf[t]
    <2>1. lastSync'[c] = IF lastSync[c] < sync[t] THEN sync[t] ELSE lastSync[c]
      BY <1>2, <1>4 DEF Invalidate, DropCopies, AdvanceSync
    <2>2. ASSUME NEW r \in history, r.opid = o, r.ver > v
          PROVE  r.client # c /\ (IsDue(c, r)' \/ r \in late)
      <3>1. r.client # c /\ (IsDue(c, r) \/ r \in late) /\ r.modtime \in Nat
        BY <2>2 DEF CopySound, TypeOK, Row
      <3>2. IsDue(c, r) /\ r \notin late => r.modtime > sync[t]
        BY <1>2, <1>4, <2>2, <3>1 DEF DetInv
      <3>3. QED
        BY <1>2, <2>1, <3>1, <3>2 DEF IsDue
    <2>3. QED
      BY <1>1, <2>2 DEF CopySound
  <1>5. QED
    BY <1>3, <1>4

\* A copy stays sound when another client commits, and when its own client
\* commits other objects.
LEMMA SoundCommit ==
  ASSUME TypeOK, PendInv, ModtimeInv, SyncInv, NEW t \in Thread, EndCommit(t),
         NEW c \in Client, NEW o \in Obj, NEW v \in Nat, CopySound(c, o, v),
         c = ClientOf[t] => o \notin WriteSet(t)
  PROVE  CopySound(c, o, v)'
  <1>1. /\ lastSync' = lastSync /\ lastSync[c] \in Nat /\ Reached(lastSync[c])
        /\ version[o] \in Nat
    BY DEF EndCommit, TypeOK, SyncInv
  <1>2. /\ version'[o] \in {version[o], version[o] + 1}
        /\ history' = history \cup pend[t] /\ late \subseteq late'
    BY EndCommitFacts
  <1>3. v < version'[o] => \E r \in history' : r.opid = o /\ r.ver = version'[o]
    <2>1. CASE o \in WriteSet(t)
      BY <1>2, <2>1, EndCommitFacts
    <2>2. CASE o \notin WriteSet(t)
      BY <1>2, <2>2, EndCommitFacts DEF CopySound
    <2>3. QED
      BY <2>1, <2>2
  <1>4. ASSUME NEW r \in history', r.opid = o, r.ver > v
        PROVE  r.client # c /\ (IsDue(c, r)' \/ r \in late')
    <2>1. CASE r \in history
      BY <1>1, <1>2, <1>4, <2>1 DEF CopySound, IsDue
    <2>2. CASE r \in pend[t]
      <3>1. o \in WriteSet(t) /\ r.client = ClientOf[t]
        BY <1>4, <2>2, EndCommitFacts
      <3>2. r.client # c
        BY <3>1
      <3>3. r \notin late' => r.modtime > lastSync[c]
        BY <1>1, <2>2, InOrderAbove
      <3>4. QED
        BY <1>1, <3>2, <3>3 DEF IsDue
    <2>3. QED
      BY <1>2, <2>1, <2>2
  <1>5. v <= version'[o]
    BY <1>1, <1>2 DEF CopySound
  <1>6. QED
    BY <1>3, <1>4, <1>5 DEF CopySound

\* The copies in the caches stay sound.
LEMMA CacheStep ==
  TypeOK /\ ThreadInv /\ PendInv /\ ModtimeInv /\ SyncInv /\ DetInv /\ CacheInv
    /\ FetchInv /\ TypeOK' /\ HistoryInv' /\ [Next]_vars => CacheInv'
  <1> SUFFICES ASSUME TypeOK, ThreadInv, PendInv, ModtimeInv, SyncInv, DetInv,
                      CacheInv, FetchInv, TypeOK', HistoryInv', [Next]_vars,
                      NEW c \in Client, NEW o \in Obj \ Blob
               PROVE  CacheSound(c, o)'
    BY DEF CacheInv
  <1> SUFFICES ASSUME cache'[c][o] # NoCopy
               PROVE  c \in up' /\ CopySound(c, o, cache[c][o])'
    BY DEF CacheSound
  <1> DEFINE Goal == c \in up' /\ CopySound(c, o, cache[c][o])'
  <1> USE ThreadAssumption, ObjAssumption DEF dbVars, clientVars, syncVars
  <1>0. /\ cache \in [Client -> [Obj -> Nat]] /\ cache[c][o] \in Nat
        /\ lastSync \in [Client -> Nat] /\ version \in [Obj -> Nat] /\ o \in Obj
    BY DEF TypeOK
  <1>1. ASSUME cache'[c][o] = cache[c][o],
               c \in up' \/ up' = up,
               version'[o] = version[o], UNCHANGED <<history, late>>,
               lastSync'[c] = lastSync[c]
        PROVE  Goal
    BY <1>1, SoundKept DEF CacheInv, CacheSound
  <1>2. ASSUME NEW t \in Thread, Invalidate(t) PROVE Goal
    <2>1. /\ up' = up /\ cache'[c][o] = cache[c][o]
          /\ c = ClientOf[t] => o \notin det[t]
      BY <1>0, <1>2 DEF Invalidate, DropCopies, AdvanceSync
    <2>2. c \in up /\ CopySound(c, o, cache[c][o])
      BY <2>1 DEF CacheInv, CacheSound
    <2>3. QED
      BY <1>0, <1>2, <2>1, <2>2, SoundInvalidate
  <1>3. ASSUME NEW t \in Thread, Install(t) PROVE Goal
    <2>1. UNCHANGED <<version, history, late, lastSync, up>>
      BY <1>3 DEF Install
    <2>2. CASE c = ClientOf[t] /\ o = target[t]
      <3>1. cache'[c][o] = got[t]
        BY <1>0, <1>3, <2>2 DEF Install
      <3>2. CopySound(c, o, got[t])
        BY <2>2, <3>1 DEF FetchInv, FetchSound
      <3>3. c \in up
        BY <1>3, <2>2 DEF Install, ThreadInv, ThreadShape
      <3>4. QED
        BY <2>1, <3>1, <3>2, <3>3, SoundKept
    <2>3. CASE ~(c = ClientOf[t] /\ o = target[t])
      <3>1. cache'[c][o] = cache[c][o]
        BY <1>0, <1>3, <2>3 DEF Install
      <3>2. QED
        BY <1>1, <2>1, <3>1
    <2>4. QED
      BY <2>2, <2>3
  <1>4. ASSUME NEW t \in Thread, WriteBlob(t) PROVE Goal
    <2>1. target[t] # o /\ UNCHANGED <<history, late, lastSync, up>>
      BY <1>4 DEF WriteBlob
    <2>2. version'[o] = version[o] /\ cache'[c][o] = cache[c][o]
      BY <1>0, <1>4, <2>1 DEF WriteBlob
    <2>3. QED
      BY <1>1, <2>1, <2>2
  <1>5. ASSUME NEW t \in Thread, EndCommit(t) PROVE Goal
    <2>1. up' = up
      BY <1>5 DEF EndCommit
    <2>2. CASE c = ClientOf[t] /\ o \in WriteSet(t)
      <3>1. cache'[c][o] = version'[o]
        BY <1>0, <1>5, <2>2 DEF EndCommit
      <3>2. ClientOf[t] \in up
        BY <1>5 DEF EndCommit, ThreadInv, ThreadShape
      <3>3. QED
        BY <2>1, <2>2, <3>1, <3>2, SoundCurrent
    <2>3. CASE c = ClientOf[t] => o \notin WriteSet(t)
      <3>1. cache'[c][o] = cache[c][o]
        BY <1>0, <1>5, <2>3 DEF EndCommit
      <3>2. c \in up /\ CopySound(c, o, cache[c][o])
        BY <3>1 DEF CacheInv, CacheSound
      <3>3. QED
        BY <1>0, <1>5, <2>1, <2>3, <3>1, <3>2, SoundCommit
    <2>4. QED
      BY <2>2, <2>3
  <1>6. ASSUME NEW d \in Client, Open(d) PROVE Goal
    <2>1. c # d /\ cache'[c][o] = cache[c][o] /\ lastSync'[c] = lastSync[c]
      BY <1>0, <1>6 DEF Open
    <2>2. c \in up
      BY <2>1 DEF CacheInv, CacheSound
    <2>3. history' = history /\ late' = late \cap history /\ c \in up' /\ version' = version
      BY <1>6, <2>2 DEF Open
    <2>4. late' = late
      BY <2>3 DEF TypeOK
    <2>5. QED
      BY <1>1, <2>1, <2>3, <2>4
  <1>7. ASSUME NEW d \in Client, Exit(d) PROVE Goal
    <2>1. c # d /\ cache'[c][o] = cache[c][o] /\ lastSync'[c] = lastSync[c]
      BY <1>0, <1>7 DEF Exit
    <2>2. c \in up'
      BY <1>7, <2>1 DEF Exit, CacheInv, CacheSound
    <2>3. UNCHANGED <<version, history, late>>
      BY <1>7 DEF Exit
    <2>4. QED
      BY <1>1, <2>1, <2>2, <2>3
  <1>8. ASSUME NEW d \in Client, NEW p \in Obj, ThrowObject(d, p) PROVE Goal
    <2>1. cache'[c][o] = cache[c][o]
      BY <1>0, <1>8 DEF ThrowObject
    <2>2. QED
      BY <1>1, <1>8, <2>1 DEF ThrowObject
  <1>9. CASE UNCHANGED <<version, history, late, up, lastSync, cache>>
    BY <1>1, <1>9
  <1>10. QED
    BY <1>2, <1>3, <1>4, <1>5, <1>6, <1>7, <1>8, <1>9
    DEF Next, Step, Call, vars, QueryDeteriorated, Fetch, WriteRow,
        BeginTransaction, LoadAlone, LoadInTxn, Commit, Rollback, FailDeadlocked

\* The rows fetched but not installed stay sound, or are given up.
LEMMA FetchStep ==
  TypeOK /\ ThreadInv /\ PendInv /\ SiblingInv /\ ModtimeInv /\ SyncInv /\ DetInv
    /\ FetchInv /\ TypeOK' /\ HistoryInv' /\ [Next]_vars => FetchInv'
  <1> SUFFICES ASSUME TypeOK, ThreadInv, PendInv, SiblingInv, ModtimeInv, SyncInv,
                      DetInv, FetchInv, TypeOK', HistoryInv', [Next]_vars,
                      NEW u \in Thread
               PROVE  FetchSound(u)'
    BY DEF FetchInv
  <1> SUFFICES ASSUME got'[u] # NoCopy, target'[u] \notin Blob
               PROVE  CopySound(ClientOf[u], target[u], got[u])'
    BY DEF FetchSound
  <1> DEFINE c == ClientOf[u]
             Goal == CopySound(ClientOf[u], target[u], got[u])'
  <1> USE ThreadAssumption, ObjAssumption DEF dbVars, clientVars, syncVars
  <1>0. /\ got \in [Thread -> Nat] /\ target \in [Thread -> Obj \cup {NoObj}]
        /\ lastSync \in [Client -> Nat] /\ version \in [Obj -> Nat] /\ c \in Client
        /\ got[u] \in Nat /\ pc \in [Thread -> PC]
    BY DEF TypeOK
  <1>1. ASSUME got'[u] = got[u], target'[u] = target[u],
               version'[target[u]] = version[target[u]],
               UNCHANGED <<history, late>>, lastSync'[c] = lastSync[c]
        PROVE  Goal
    BY <1>1, SoundKept DEF FetchInv, FetchSound
  <1>2. got[u] # NoCopy => pc[u] = "fetched" /\ c \in up /\ target[u] \in Obj
    BY DEF ThreadInv, ThreadShape, TypeOK
  <1>3. ASSUME NEW t \in Thread, Fetch(t) PROVE Goal
    <2>1. UNCHANGED <<version, history, late, lastSync, target>>
      BY <1>3 DEF Fetch
    <2>2. CASE u = t
      <3>1. got'[u] = version[target[u]] /\ target[u] \in Obj
        BY <1>0, <1>3, <2>2 DEF Fetch, TypeOK
      <3>2. QED
        BY <2>1, <3>1, SoundCurrent
    <2>3. CASE u # t
      BY <1>0, <1>1, <1>3, <2>1, <2>3 DEF Fetch
    <2>4. QED
      BY <2>2, <2>3
  <1>4. ASSUME NEW t \in Thread, Invalidate(t) PROVE Goal
    <2>1. target' = target /\ got'[u] = got[u] /\ pc[t] = "queried"
      BY <1>0, <1>4 DEF Invalidate, DropCopies, AdvanceSync
    <2>2. pc[u] = "fetched" /\ target[u] \in Obj /\ u # t
      BY <1>2, <2>1
    <2>3. c = ClientOf[t] => target[u] \notin det[t]
      BY <1>0, <1>4, <2>1, <2>2 DEF Invalidate, DropCopies, AdvanceSync, Siblings
    <2>4. QED
      BY <1>0, <1>4, <2>1, <2>2, <2>3, SoundInvalidate DEF FetchInv, FetchSound
  <1>5. ASSUME NEW t \in Thread, Install(t) PROVE Goal
    <2>1. u # t
      BY <1>0, <1>5 DEF Install
    <2>2. QED
      BY <1>0, <1>1, <1>5, <2>1 DEF Install
  <1>6. ASSUME NEW t \in Thread, WriteRow(t) PROVE Goal
    <2>1. got' = got /\ pc[t] = "write" /\ NextToWrite(t) /\ pc' = pc
      BY <1>6 DEF WriteRow
    <2>2. u # t /\ target'[u] = target[u]
      BY <1>2, <2>1, NextToWriteFacts
    <2>3. QED
      BY <1>1, <1>6, <2>1, <2>2 DEF WriteRow
  <1>7. ASSUME NEW t \in Thread, WriteBlob(t) PROVE Goal
    <2>1. got' = got /\ pc[t] = "write" /\ NextToWrite(t) /\ pc' = pc
      BY <1>7 DEF WriteBlob
    <2>2. u # t /\ target'[u] = target[u] /\ target[u] \in Obj
      BY <1>2, <2>1, NextToWriteFacts
    <2>3. version'[target[u]] = version[target[u]]
      BY <1>0, <1>7, <2>2 DEF WriteBlob
    <2>4. QED
      BY <1>1, <1>7, <2>1, <2>2, <2>3 DEF WriteBlob
  <1>8. ASSUME NEW t \in Thread, EndCommit(t) PROVE Goal
    <2>1. got' = got /\ target' = target /\ pc[t] = "write"
      BY <1>8 DEF EndCommit
    <2>2. u # t /\ target[u] \in Obj
      BY <1>2, <2>1
    <2>3. c = ClientOf[t] => target[u] \notin WriteSet(t)
      BY <2>2 DEF SiblingInv, Siblings
    <2>4. QED
      BY <1>0, <1>8, <2>1, <2>2, <2>3, SoundCommit DEF FetchInv, FetchSound
  <1>9. ASSUME NEW t \in Thread, Call(t) PROVE Goal
    <2>1. pc[u] = "fetched" => target'[u] = target[u]
      BY <1>0, <1>9 DEF Call, BeginTransaction, LoadAlone, LoadInTxn, Commit,
                        Rollback, Idle
    <2>2. UNCHANGED <<got, version, history, late, lastSync>>
      BY <1>9 DEF Call, BeginTransaction, LoadAlone, LoadInTxn, Commit, Rollback
    <2>3. QED
      BY <1>1, <1>2, <2>1, <2>2
  <1>10. ASSUME NEW t \in Thread, FailDeadlocked(t) PROVE Goal
    <2>1. pc[t] # "fetched"
      BY <1>10 DEF FailDeadlocked, Deadlocked, WaitsForLock
    <2>2. QED
      BY <1>0, <1>1, <1>2, <1>10, <2>1 DEF FailDeadlocked
  <1>11. ASSUME NEW d \in Client, Open(d) PROVE Goal
    <2>1. got' = got /\ target' = target /\ version' = version
      BY <1>11 DEF Open
    <2>2. c \in up /\ c # d
      BY <1>2, <1>11, <2>1 DEF Open
    <2>3. history' = history /\ late' = late
      BY <1>11, <2>2 DEF Open, TypeOK
    <2>4. lastSync'[c] = lastSync[c]
      BY <1>0, <1>11, <2>2 DEF Open
    <2>5. QED
      BY <1>1, <2>1, <2>3, <2>4
  <1>12. ASSUME NEW d \in Client, Exit(d) PROVE Goal
    <2>1. c # d
      BY <1>0, <1>12 DEF Exit
    <2>2. QED
      BY <1>0, <1>1, <1>12, <2>1 DEF Exit
  <1>13. CASE UNCHANGED <<version, history, late, lastSync, target, got>>
    BY <1>1, <1>13
  <1>14. QED
    BY <1>3, <1>4, <1>5, <1>6, <1>7, <1>8, <1>9, <1>10, <1>11, <1>12, <1>13
    DEF Next, Step, vars, QueryDeteriorated, ThrowObject

-----------------------------------------------------------------------------
(* The theorems                                                            *)

\* The inductive invariant holds when no client has opened the storage yet.
LEMMA IInvInit == Init => IInv
  <1> SUFFICES ASSUME Init PROVE IInv
    OBVIOUS
  <1>1. TypeOK
    BY TypeInit
  <1>2. ThreadInv /\ PendInv /\ DetInv /\ FetchInv
    BY DEF Init, ThreadInv, ThreadShape, PendInv, DetInv, FetchInv, FetchSound
  <1>3. HistoryInv /\ ModtimeInv /\ SyncInv
    BY ThreadAssumption DEF Init, HistoryInv, ModtimeInv, SyncInv, Reached
  <1>4. CacheInv
    BY ObjAssumption DEF Init, CacheInv, CacheSound
  <1>5. SiblingInv
    BY ObjAssumption DEF Init, SiblingInv, WriteSet, Siblings
  <1>6. QED
    BY <1>1, <1>2, <1>3, <1>4, <1>5 DEF IInv

\* Every statement of every thread keeps the inductive invariant.
LEMMA IInvStep == IInv /\ [Next]_vars => IInv'
  BY TypeStep, ThreadStep, PendStep, SiblingStep, HistoryStep, ModtimeStep,
     SyncStep, DetStep, CacheStep, FetchStep DEF IInv

\* The inductive invariant holds in every state: buffers, locks, modtimes,
\* lastSyncTime and copies fit together.
THEOREM InvariantHolds == Spec => []IInv
  BY IInvInit, IInvStep, PTL DEF Spec

\* Cache coherence: whatever the numbers of clients, threads and objects, and
\* however their statements interleave, an outdated copy is due to be dropped
\* unless the row that announces the newer version committed late.
THEOREM CacheCoherent == Spec => []StaleCopyIsDue
  <1>1. IInv => StaleCopyIsDue
    <2> SUFFICES ASSUME IInv, NEW c \in up, NEW o \in Obj \ Blob, Stale(c, o)
                 PROVE  \E r \in history : /\ r.opid = o /\ r.ver = version[o]
                                           /\ IsDue(c, r) \/ r \in late
      BY DEF StaleCopyIsDue
    <2>1. c \in Client /\ CopySound(c, o, cache[c][o])
      BY DEF IInv, TypeOK, CacheInv, CacheSound, Stale
    <2>2. PICK r \in history : r.opid = o /\ r.ver = version[o]
      BY <2>1 DEF CopySound, Stale
    <2>3. r.ver > cache[c][o]
      BY <2>1, <2>2 DEF IInv, TypeOK, Stale
    <2>4. QED
      BY <2>1, <2>2, <2>3 DEF CopySound
  <1>2. QED
    BY <1>1, InvariantHolds, PTL

\* lastSyncTime never goes back while a client has the storage open.
THEOREM SyncMonotone == Spec => SyncNeverRetreats
  <1>1. TypeOK /\ [Next]_vars =>
          [\A c \in up \cap up' : lastSync'[c] >= lastSync[c]]_vars
    <2> SUFFICES ASSUME TypeOK, [Next]_vars, NEW c \in up \cap up'
                 PROVE  lastSync'[c] >= lastSync[c]
      OBVIOUS
    <2> USE ThreadAssumption DEF dbVars, clientVars
    <2>0. c \in Client /\ lastSync \in [Client -> Nat] /\ sync \in [Thread -> Nat]
      BY DEF TypeOK
    <2>1. CASE lastSync' = lastSync
      BY <2>0, <2>1
    <2>2. ASSUME NEW t \in Thread, Invalidate(t) PROVE lastSync'[c] >= lastSync[c]
      BY <2>0, <2>2 DEF Invalidate, DropCopies, AdvanceSync
    <2>3. ASSUME NEW d \in Client, Open(d) PROVE lastSync'[c] >= lastSync[c]
      BY <2>0, <2>3 DEF Open
    <2>4. ASSUME NEW d \in Client, Exit(d) PROVE lastSync'[c] >= lastSync[c]
      BY <2>0, <2>4 DEF Exit
    <2>5. QED
      BY <2>1, <2>2, <2>3, <2>4
      DEF Next, Step, Call, vars, QueryDeteriorated, Fetch, Install, WriteRow,
          WriteBlob, EndCommit, BeginTransaction, LoadAlone, LoadInTxn, Commit,
          Rollback, FailDeadlocked, ThrowObject
  <1>2. QED
    BY <1>1, TypeCorrect, PTL DEF Spec, SyncNeverRetreats

\* What keeps a single modifying thread in order: its waiting rows lie above
\* everything committed.
OneWriterInv ==
  /\ \A t \in Thread : todo[t] # {} \/ pend[t] # {} => t \in Writer
  /\ \A t \in Thread : \A r \in pend[t], q \in history : q.modtime < r.modtime
  /\ late = {}

\* With one modifying thread, every step keeps its rows above the committed ones.
LEMMA OneWriterStep ==
  ASSUME \A t, u \in Writer : t = u
  PROVE  TypeOK /\ ModtimeInv /\ OneWriterInv /\ [Next]_vars => OneWriterInv'
  <1> SUFFICES ASSUME TypeOK, ModtimeInv, OneWriterInv, [Next]_vars
               PROVE  OneWriterInv'
    OBVIOUS
  <1> USE DEF dbVars, clientVars, syncVars
  <1>0. /\ history \subseteq Row /\ pend \in [Thread -> SUBSET Row]
        /\ todo \in [Thread -> SUBSET Obj] /\ lastModtime \in Nat
    BY DEF TypeOK
  <1>1. ASSUME history' \subseteq history, late' \subseteq late,
               \A t \in Thread : todo'[t] \subseteq todo[t] /\ pend'[t] \subseteq pend[t]
        PROVE  OneWriterInv'
    BY <1>0, <1>1 DEF OneWriterInv
  <1>2. ASSUME NEW t \in Thread, WriteRow(t) PROVE OneWriterInv'
    <2>1. /\ UNCHANGED <<history, late>> /\ t \in Writer
          /\ \A u \in Thread : todo'[u] \subseteq todo[u]
          /\ \A u \in Thread \ {t} : pend'[u] = pend[u]
      BY <1>0, <1>2, NextToWriteFacts DEF WriteRow, OneWriterInv
    <2>2. \A r \in pend'[t] \ pend[t] : r.modtime = lastModtime + 1
      BY <1>0, <1>2 DEF WriteRow
    <2>3. \A q \in history : q.modtime \in Nat /\ q.modtime <= lastModtime
      BY <1>0 DEF ModtimeInv, Row
    <2>4. \A r \in pend'[t], q \in history' : q.modtime < r.modtime
      BY <1>0, <2>1, <2>2, <2>3 DEF OneWriterInv
    <2>5. QED
      BY <2>1, <2>4 DEF OneWriterInv
  <1>3. ASSUME NEW t \in Thread, EndCommit(t) PROVE OneWriterInv'
    <2>1. /\ history' = history \cup pend[t] /\ pend'[t] = {} /\ todo' = todo
          /\ \A u \in Thread \ {t} : pend'[u] = pend[u]
      BY <1>0, <1>3 DEF EndCommit
    <2>2. late' = {}
      BY <1>0, <1>3 DEF EndCommit, OneWriterInv, Row
    <2>3. CASE pend[t] = {}
      BY <2>1, <2>2, <2>3 DEF OneWriterInv
    <2>4. CASE pend[t] # {}
      <3>1. \A u \in Thread \ {t} : pend[u] = {}
        BY <2>4 DEF OneWriterInv
      <3>2. QED
        BY <2>1, <2>2, <3>1 DEF OneWriterInv
    <2>5. QED
      BY <2>3, <2>4
  <1>4. ASSUME NEW t \in Thread, NEW os \in SUBSET Obj, Commit(t, os) PROVE OneWriterInv'
    BY <1>0, <1>4 DEF Commit, OneWriterInv
  <1>5. ASSUME NEW t \in Thread, WriteBlob(t) PROVE OneWriterInv'
    BY <1>0, <1>1, <1>5, NextToWriteFacts DEF WriteBlob
  <1>6. ASSUME NEW t \in Thread, FailDeadlocked(t) PROVE OneWriterInv'
    BY <1>0, <1>1, <1>6 DEF FailDeadlocked
  <1>7. ASSUME NEW c \in Client, Open(c) PROVE OneWriterInv'
    BY <1>1, <1>7 DEF Open
  <1>8. ASSUME NEW c \in Client, Exit(c) PROVE OneWriterInv'
    BY <1>0, <1>1, <1>8 DEF Exit
  <1>9. CASE UNCHANGED <<history, late, todo, pend>>
    BY <1>1, <1>9
  <1>10. QED
    BY <1>2, <1>3, <1>4, <1>5, <1>6, <1>7, <1>8, <1>9
    DEF Next, Step, Call, vars, QueryDeteriorated, Invalidate, DropCopies,
        AdvanceSync, Fetch, Install, BeginTransaction, LoadAlone, LoadInTxn,
        Rollback, ThrowObject

\* A single modifying thread never commits out of order, so that with it the
\* exception CacheCoherent makes for late rows is empty.
THEOREM OneWriterCommitsInOrder == Spec => []OneWriterInOrder
  <1>1. CASE \A t, u \in Writer : t = u
    <2>1. Init => OneWriterInv
      BY DEF Init, OneWriterInv
    <2>2. IInv /\ OneWriterInv /\ [Next]_vars => OneWriterInv'
      BY <1>1, OneWriterStep DEF IInv
    <2>3. OneWriterInv => OneWriterInOrder
      BY DEF OneWriterInv, OneWriterInOrder
    <2>4. QED
      BY <2>1, <2>2, <2>3, InvariantHolds, PTL DEF Spec
  <1>2. CASE ~(\A t, u \in Writer : t = u)
    <2>1. OneWriterInOrder
      BY <1>2 DEF OneWriterInOrder
    <2>2. QED
      BY <2>1, PTL
  <1>3. QED
    BY <1>1, <1>2

-----------------------------------------------------------------------------
(* Coherent reads: PgsqlReads implements CoherentReads                     *)

\* A call that loads or begins a transaction: the phases up to the install.
Loading(t) == pc[t] \notin {"idle", "write", "failed"} /\ target[t] # NoObj

\* While a thread loads an object, no sibling is concerned with it and the
\* client has no copy of it; a thread between calls has no target.
LoaderInv ==
  \A t \in Thread :
    /\ pc[t] \in {"idle", "failed"} => target[t] = NoObj
    /\ pc[t] = "write" => target[t] \in todo[t] \cup {NoObj}
    /\ Loading(t) => /\ \A u \in Siblings(t) : target[u] # target[t]
                     /\ cache[ClientOf[t]][target[t]] = NoCopy

\* A copy is the newest version its client has had, and so is, or newer, what
\* a load has fetched.
SeenInv ==
  /\ seen \in [Client -> [Obj -> Nat]]
  /\ \A c \in Client, o \in Coherent :
       /\ c \notin up => seen[c][o] = NoCopy
       /\ seen[c][o] <= version[o]
       /\ cache[c][o] \in {NoCopy, seen[c][o]}
  /\ \A t \in Thread :
       got[t] # NoCopy /\ target[t] \in Coherent => got[t] >= seen[ClientOf[t]][target[t]]

ReadInv == IInv /\ LoaderInv /\ SeenInv

\* Two threads of one client never concern themselves with the same object
\* while one of them loads it.
LEMMA LoaderStep ==
  TypeOK /\ ThreadInv /\ SiblingInv /\ LoaderInv /\ [Next]_vars => LoaderInv'
  <1> SUFFICES ASSUME TypeOK, ThreadInv, SiblingInv, LoaderInv, [Next]_vars,
                      NEW u \in Thread
               PROVE  /\ pc'[u] \in {"idle", "failed"} => target'[u] = NoObj
                      /\ pc'[u] = "write" => target'[u] \in todo'[u] \cup {NoObj}
                      /\ Loading(u)' =>
                           /\ \A w \in Siblings(u) : target'[w] # target'[u]
                           /\ cache'[ClientOf[u]][target'[u]] = NoCopy
    BY DEF LoaderInv, Siblings
  <1> DEFINE Phase == /\ pc'[u] \in {"idle", "failed"} => target'[u] = NoObj
                      /\ pc'[u] = "write" => target'[u] \in todo'[u] \cup {NoObj}
             Apart == Loading(u)' => \A w \in Siblings(u) : target'[w] # target'[u]
             Bare == Loading(u)' => cache'[ClientOf[u]][target'[u]] = NoCopy
             Goal == Phase /\ Apart /\ Bare
  <1> SUFFICES Goal
    BY DEF Siblings
  <1> HIDE DEF Goal
  <1> USE ThreadAssumption, ObjAssumption DEF dbVars, clientVars, syncVars
  <1>0. /\ pc \in [Thread -> PC] /\ target \in [Thread -> Obj \cup {NoObj}]
        /\ todo \in [Thread -> SUBSET Obj] /\ cache \in [Client -> [Obj -> Nat]]
        /\ ClientOf[u] \in Client
        /\ \A w \in Siblings(u) : w \in Thread /\ u \in Siblings(w) /\ w # u
    BY DEF TypeOK, Siblings
  <1>a. /\ pc[u] \in {"idle", "failed"} => target[u] = NoObj
        /\ pc[u] = "write" => target[u] \in todo[u] \cup {NoObj}
        /\ Loading(u) => /\ \A w \in Siblings(u) : target[w] # target[u]
                         /\ cache[ClientOf[u]][target[u]] = NoCopy
    BY DEF LoaderInv
  \* Nothing u depends on changes.
  <1>b. ASSUME pc'[u] = pc[u], target'[u] = target[u], todo'[u] = todo[u],
               \A w \in Siblings(u) : target'[w] \in {target[w], NoObj},
               Loading(u) => cache'[ClientOf[u]][target[u]] = NoCopy
        PROVE  Goal
    BY <1>0, <1>a, <1>b DEF Goal, Loading
  <1>1. ASSUME NEW t \in Thread, QueryDeteriorated(t) PROVE Goal
    BY <1>0, <1>a, <1>1 DEF QueryDeteriorated, Goal, Loading
  <1>2. ASSUME NEW t \in Thread, Invalidate(t) PROVE Goal
    <2>1. /\ target' = target /\ todo' = todo
          /\ cache'[ClientOf[u]][target[u]] \in {NoCopy, cache[ClientOf[u]][target[u]]}
             \/ target[u] \notin Obj
          /\ \A w \in Thread \ {t} : pc'[w] = pc[w]
      BY <1>0, <1>2 DEF Invalidate, DropCopies, AdvanceSync
    <2>2. CASE u # t
      BY <1>0, <1>a, <1>b, <2>1, <2>2 DEF Loading
    <2>3. CASE u = t
      <3>1. pc[t] = "queried"
        BY <1>2 DEF Invalidate
      <3>2. CASE target[t] = NoObj
        BY <1>0, <1>2, <2>1, <2>3, <3>2 DEF Invalidate, Goal, Loading
      <3>3. CASE target[t] # NoObj
        <4>1. pc'[t] \in {"fetch", "fetchLock"} /\ Loading(t)
          BY <1>0, <1>2, <3>1, <3>3 DEF Invalidate, Loading
        <4>2. QED
          BY <1>0, <1>a, <2>1, <2>3, <3>3, <4>1 DEF Goal
      <3>4. QED
        BY <3>2, <3>3
    <2>4. QED
      BY <2>2, <2>3
  <1>3. ASSUME NEW t \in Thread, Fetch(t) PROVE Goal
    BY <1>0, <1>a, <1>3 DEF Fetch, Goal, Loading
  <1>4. ASSUME NEW t \in Thread, Install(t) PROVE Goal
    <2>1. /\ target' = [target EXCEPT ![t] = NoObj] /\ todo' = todo
          /\ pc' = [pc EXCEPT ![t] = "idle"] /\ pc[t] = "fetched"
          /\ cache' = [cache EXCEPT ![ClientOf[t]][target[t]] = got[t]]
          /\ target[t] \in Obj
      BY <1>4 DEF Install, TypeOK
    <2>2. CASE u = t
      BY <1>0, <2>1, <2>2 DEF Goal, Loading
    <2>3. CASE u # t
      <3>1. Loading(u) => target[u] \in Obj /\ (ClientOf[u] = ClientOf[t] => target[u] # target[t])
        BY <1>0, <1>a, <2>3 DEF Siblings, Loading
      <3>2. Loading(u) => cache'[ClientOf[u]][target[u]] = cache[ClientOf[u]][target[u]]
        BY <1>0, <2>1, <3>1
      <3>3. QED
        BY <1>0, <1>a, <1>b, <2>1, <2>3, <3>2
    <2>4. QED
      BY <2>2, <2>3
  <1>5. ASSUME NEW t \in Thread, WriteRow(t) \/ WriteBlob(t) PROVE Goal
    <2>1. /\ pc' = pc /\ pc[t] = "write" /\ target[t] \in todo[t]
          /\ target'[t] \in todo'[t] \cup {NoObj}
          /\ todo' = [todo EXCEPT ![t] = todo[t] \ {target[t]}]
          /\ \A w \in Thread \ {t} : target'[w] = target[w]
      BY <1>5, NextToWriteFacts DEF WriteRow, WriteBlob
    <2>2. CASE u = t
      BY <1>0, <2>1, <2>2 DEF Goal, Loading
    <2>3. CASE u # t
      <3>1. Loading(u) /\ ClientOf[u] = ClientOf[t] => target[u] \notin todo[t]
        BY <2>3 DEF SiblingInv, WriteSet, Siblings
      <3>2. Loading(u) => cache'[ClientOf[u]][target[u]] = cache[ClientOf[u]][target[u]]
        <4>1. CASE cache' = cache
          BY <4>1
        <4>2. CASE cache' # cache
          <5>1. cache' = [cache EXCEPT ![ClientOf[t]][target[t]] = version[target[t]] + 1]
            BY <1>5, <4>2 DEF WriteRow, WriteBlob
          <5>2. Loading(u) => target[u] \in Obj
            BY <1>0 DEF Loading
          <5>3. Loading(u) /\ ClientOf[u] = ClientOf[t] => target[u] # target[t]
            BY <2>1, <3>1
          <5>4. QED
            BY <1>0, <5>1, <5>2, <5>3
        <4>3. QED
          BY <4>1, <4>2
      <3>3. Loading(u) => \A w \in Siblings(u) : target'[w] # target[u]
        BY <1>0, <1>a, <2>1, <3>1 DEF Loading, Siblings
      <3>4. QED
        BY <1>0, <1>a, <2>1, <2>3, <3>2, <3>3 DEF Goal, Loading
    <2>4. QED
      BY <2>2, <2>3
  <1>6. ASSUME NEW t \in Thread, EndCommit(t) PROVE Goal
    <2>1. /\ target' = target /\ todo' = todo /\ pc' = [pc EXCEPT ![t] = "idle"]
          /\ pc[t] = "write" /\ todo[t] = {}
      BY <1>6 DEF EndCommit
    <2>2. CASE u = t
      BY <1>0, <1>a, <2>1, <2>2 DEF Goal, Loading
    <2>3. CASE u # t
      <3>1. Loading(u) => /\ target[u] \in Obj
                          /\ ClientOf[u] = ClientOf[t] => target[u] \notin WriteSet(t)
        BY <1>0, <2>3 DEF SiblingInv, Siblings, Loading
      <3>2. Loading(u) => cache'[ClientOf[u]][target[u]] = cache[ClientOf[u]][target[u]]
        BY <1>0, <1>6, <3>1 DEF EndCommit
      <3>3. QED
        BY <1>0, <1>a, <1>b, <2>1, <2>3, <3>2
    <2>4. QED
      BY <2>2, <2>3
  <1>7. ASSUME NEW t \in Thread, BeginTransaction(t) PROVE Goal
    <2>1. /\ pc' = [pc EXCEPT ![t] = "synced"] /\ pc[t] = "idle"
          /\ UNCHANGED <<target, todo, cache>>
      BY <1>7, StartFacts DEF BeginTransaction, Idle
    <2>2. CASE u = t
      BY <1>0, <1>a, <2>1, <2>2 DEF Goal, Loading
    <2>3. CASE u # t
      BY <1>0, <1>a, <1>b, <2>1, <2>3
    <2>4. QED
      BY <2>2, <2>3
  <1>8. ASSUME NEW t \in Thread, Rollback(t) PROVE Goal
    <2>1. /\ pc' = [pc EXCEPT ![t] = "idle"] /\ pc[t] \in {"idle", "failed"}
          /\ UNCHANGED <<target, todo, cache>>
      BY <1>8 DEF Rollback, Idle
    <2>2. CASE u = t
      BY <1>0, <1>a, <2>1, <2>2 DEF Goal, Loading
    <2>3. CASE u # t
      BY <1>0, <1>a, <1>b, <2>1, <2>3
    <2>4. QED
      BY <2>2, <2>3
  <1>9. ASSUME NEW t \in Thread, NEW o \in Obj, LoadAlone(t, o) \/ LoadInTxn(t, o)
        PROVE  Goal
    <2>1. /\ \E next \in {"synced", "fetch", "fetchLock"} : pc' = [pc EXCEPT ![t] = next]
          /\ pc[t] = "idle" /\ target' = [target EXCEPT ![t] = o]
          /\ UNCHANGED <<todo, cache>> /\ CanLoad(t, o)
      BY <1>9, StartFacts DEF LoadAlone, LoadInTxn, Idle
    <2>2. CASE u = t
      BY <1>0, <2>1, <2>2 DEF Goal, Loading, CanLoad
    <2>3. CASE u # t
      <3>1. Loading(u) => \A w \in Siblings(u) : target'[w] # target[u]
        BY <1>0, <1>a, <2>1, <2>3 DEF CanLoad, Siblings
      <3>2. QED
        BY <1>0, <1>a, <2>1, <2>3, <3>1 DEF Goal, Loading
    <2>4. QED
      BY <2>2, <2>3
  <1>10. ASSUME NEW t \in Thread, NEW os \in SUBSET Obj, Commit(t, os) PROVE Goal
    <2>1. /\ todo' = [todo EXCEPT ![t] = os] /\ pc' = [pc EXCEPT ![t] = "write"]
          /\ \E o \in os : target' = [target EXCEPT ![t] = o]
          /\ \A o \in os : CanModify(t, o)
          /\ cache' = cache
      BY <1>10 DEF Commit
    <2>2. CASE u = t
      BY <1>0, <2>1, <2>2 DEF Goal, Loading
    <2>3. CASE u # t
      <3>1. Loading(u) => \A w \in Siblings(u) : target'[w] # target[u]
        BY <1>0, <1>a, <2>1, <2>3 DEF CanModify, Siblings
      <3>2. QED
        BY <1>0, <1>a, <2>1, <2>3, <3>1 DEF Goal, Loading
    <2>4. QED
      BY <2>2, <2>3
  <1>11. ASSUME NEW t \in Thread, FailDeadlocked(t) PROVE Goal
    <2>1. /\ pc' = [pc EXCEPT ![t] = "failed"] /\ target' = [target EXCEPT ![t] = NoObj]
          /\ todo' = [todo EXCEPT ![t] = {}] /\ cache' = cache
      BY <1>11 DEF FailDeadlocked
    <2>2. CASE u = t
      BY <1>0, <2>1, <2>2 DEF Goal, Loading
    <2>3. CASE u # t
      BY <1>0, <1>a, <1>b, <2>1, <2>3
    <2>4. QED
      BY <2>2, <2>3
  <1>12. ASSUME NEW c \in Client, Open(c) PROVE Goal
    <2>1. UNCHANGED <<pc, target, todo>>
      BY <1>12 DEF Open
    <2>2. Loading(u) => target[u] \in Obj
      BY <1>0 DEF Loading
    <2>3. Loading(u) => cache'[ClientOf[u]][target[u]] \in {NoCopy, cache[ClientOf[u]][target[u]]}
      BY <1>0, <1>12, <2>2 DEF Open
    <2>4. QED
      BY <1>0, <1>a, <1>b, <2>1, <2>3
  <1>13. ASSUME NEW c \in Client, Exit(c) PROVE Goal
    <2>1. /\ pc' = [t \in Thread |-> IF ClientOf[t] = c THEN "idle" ELSE pc[t]]
          /\ target' = [t \in Thread |-> IF ClientOf[t] = c THEN NoObj ELSE target[t]]
          /\ todo' = [t \in Thread |-> IF ClientOf[t] = c THEN {} ELSE todo[t]]
          /\ cache' = [cache EXCEPT ![c] = [o \in Obj |-> NoCopy]]
      BY <1>13 DEF Exit
    <2>2. CASE ClientOf[u] = c
      BY <1>0, <2>1, <2>2 DEF Goal, Loading
    <2>3. CASE ClientOf[u] # c
      BY <1>0, <1>a, <1>b, <2>1, <2>3
    <2>4. QED
      BY <2>2, <2>3
  <1>14. ASSUME NEW c \in Client, NEW o \in Obj, ThrowObject(c, o) PROVE Goal
    <2>1. UNCHANGED <<pc, target, todo>>
      BY <1>14 DEF ThrowObject
    <2>2. Loading(u) => target[u] \in Obj
      BY <1>0 DEF Loading
    <2>3. Loading(u) => cache'[ClientOf[u]][target[u]] \in {NoCopy, cache[ClientOf[u]][target[u]]}
      BY <1>0, <1>14, <2>2 DEF ThrowObject
    <2>4. QED
      BY <1>0, <1>a, <1>b, <2>1, <2>3
  <1>15. CASE UNCHANGED vars
    BY <1>0, <1>a, <1>b, <1>15 DEF vars
  <1>16. QED
    BY <1>1, <1>2, <1>3, <1>4, <1>5, <1>6, <1>7, <1>8, <1>9, <1>10, <1>11,
       <1>12, <1>13, <1>14, <1>15 DEF Next, Step, Call

\* Where no copy is added, the history variable keeps its value.
LEMMA RecordKept ==
  ASSUME TypeOK', SeenInv, Record, NEW c \in Client, NEW o \in Coherent,
         cache'[c][o] \in {NoCopy, cache[c][o]}, c \in up => c \in up'
  PROVE  seen'[c][o] = seen[c][o]
  <1>1. seen[c][o] \in Nat /\ cache[c][o] \in {NoCopy, seen[c][o]} /\ o \in Obj
    BY DEF SeenInv, Coherent
  <1>2. seen'[c][o] = IF c \notin up' THEN NoCopy
                      ELSE IF cache'[c][o] > seen[c][o] THEN cache'[c][o] ELSE seen[c][o]
    BY <1>1 DEF Record
  <1>3. CASE c \in up'
    BY <1>1, <1>2, <1>3 DEF NoCopy
  <1>4. CASE c \notin up'
    BY <1>2, <1>4 DEF SeenInv
  <1>5. QED
    BY <1>3, <1>4

\* Where a copy is installed or written that is not older than what the client
\* has had, the history variable takes its version.
LEMMA RecordRaised ==
  ASSUME TypeOK', SeenInv, Record, NEW c \in Client, NEW o \in Coherent,
         cache'[c][o] >= seen[c][o], c \in up'
  PROVE  seen'[c][o] = cache'[c][o]
  <1>1. seen[c][o] \in Nat /\ cache'[c][o] \in Nat /\ o \in Obj
    BY DEF SeenInv, Coherent, TypeOK
  <1>2. seen'[c][o] = IF cache'[c][o] > seen[c][o] THEN cache'[c][o] ELSE seen[c][o]
    BY <1>1 DEF Record
  <1>3. QED
    BY <1>1, <1>2

\* Which copies a step may add: an install adds the one it has fetched, a
\* commit the objects it has written, and no other step adds any.
LEMMA CopyChange ==
  ASSUME TypeOK, PendInv, [Next]_vars, NEW c \in Client, NEW o \in Coherent
  PROVE  \/ cache'[c][o] \in {NoCopy, cache[c][o]}
         \/ \E t \in Thread : /\ ClientOf[t] = c
                              /\ \/ Install(t) /\ o = target[t] /\ cache'[c][o] = got[t]
                                 \/ EndCommit(t) /\ o \in WriteSet(t)
                                    /\ cache'[c][o] = version[o] + 1
  <1> DEFINE Goal == \/ cache'[c][o] \in {NoCopy, cache[c][o]}
                     \/ \E t \in Thread : /\ ClientOf[t] = c
                              /\ \/ Install(t) /\ o = target[t] /\ cache'[c][o] = got[t]
                                 \/ EndCommit(t) /\ o \in WriteSet(t)
                                    /\ cache'[c][o] = version[o] + 1
  <1> USE ThreadAssumption, ObjAssumption DEF clientVars, Coherent
  <1>0. /\ cache \in [Client -> [Obj -> Nat]] /\ version \in [Obj -> Nat]
        /\ target \in [Thread -> Obj \cup {NoObj}] /\ o \in Obj
    BY DEF TypeOK
  <1>1. CASE cache' = cache
    BY <1>1
  <1>2. ASSUME NEW t \in Thread, Invalidate(t) PROVE Goal
    BY <1>0, <1>2 DEF Invalidate, DropCopies
  <1>3. ASSUME NEW t \in Thread, Install(t) PROVE Goal
    BY <1>0, <1>3 DEF Install, TypeOK
  <1>4. ASSUME NEW t \in Thread, WriteBlob(t) PROVE Goal
    BY <1>0, <1>4 DEF WriteBlob
  <1>5. ASSUME NEW t \in Thread, EndCommit(t) PROVE Goal
    BY <1>0, <1>5 DEF EndCommit
  <1>6. ASSUME NEW d \in Client, Open(d) PROVE Goal
    BY <1>0, <1>6 DEF Open
  <1>7. ASSUME NEW d \in Client, Exit(d) PROVE Goal
    BY <1>0, <1>7 DEF Exit
  <1>8. ASSUME NEW d \in Client, NEW p \in Obj, ThrowObject(d, p) PROVE Goal
    BY <1>0, <1>8 DEF ThrowObject
  <1>9. QED
    BY <1>1, <1>2, <1>3, <1>4, <1>5, <1>6, <1>7, <1>8
    DEF Next, Step, Call, vars, QueryDeteriorated, Fetch, WriteRow,
        BeginTransaction, LoadAlone, LoadInTxn, Commit, Rollback, FailDeadlocked

\* Committed versions never go down.
LEMMA VersionGrows ==
  ASSUME TypeOK, PendInv, [Next]_vars, NEW o \in Obj
  PROVE  version'[o] >= version[o] /\ version[o] \in Nat
  <1> USE ObjAssumption DEF dbVars
  <1>0. version \in [Obj -> Nat]
    BY DEF TypeOK
  <1>1. CASE version' = version
    BY <1>0, <1>1
  <1>2. ASSUME NEW t \in Thread, WriteBlob(t) PROVE version'[o] >= version[o]
    BY <1>0, <1>2 DEF WriteBlob
  <1>3. ASSUME NEW t \in Thread, EndCommit(t) PROVE version'[o] >= version[o]
    BY <1>0, <1>3, EndCommitFacts
  <1>4. QED
    BY <1>0, <1>1, <1>2, <1>3
    DEF Next, Step, Call, vars, QueryDeteriorated, Invalidate, Fetch, Install,
        WriteRow, BeginTransaction, LoadAlone, LoadInTxn, Commit, Rollback,
        FailDeadlocked, Open, Exit, ThrowObject

\* What a load has fetched changes only by a Fetch, or is given up.
LEMMA GotChange ==
  ASSUME TypeOK, ThreadInv, [Next]_vars, NEW t \in Thread, got'[t] # NoCopy
  PROVE  \/ Fetch(t) /\ got'[t] = version[target[t]] /\ target'[t] = target[t]
            /\ target[t] \in Obj
         \/ /\ got'[t] = got[t] /\ target'[t] = target[t] /\ pc[t] = "fetched"
            /\ ClientOf[t] \in up' /\ target[t] \in Obj /\ ~Install(t)
  <1> DEFINE Goal == \/ Fetch(t) /\ got'[t] = version[target[t]] /\ target'[t] = target[t]
                        /\ target[t] \in Obj
                     \/ /\ got'[t] = got[t] /\ target'[t] = target[t] /\ pc[t] = "fetched"
                        /\ ClientOf[t] \in up' /\ target[t] \in Obj /\ ~Install(t)
  <1> USE ThreadAssumption, ObjAssumption DEF clientVars, syncVars
  <1>0. /\ got \in [Thread -> Nat] /\ target \in [Thread -> Obj \cup {NoObj}]
        /\ pc \in [Thread -> PC]
        /\ got[t] # NoCopy => pc[t] = "fetched" /\ ClientOf[t] \in up /\ target[t] \in Obj
    BY DEF TypeOK, ThreadInv, ThreadShape
  <1>1. ASSUME got'[t] = got[t], target'[t] = target[t], up' = up, ~Install(t) PROVE Goal
    BY <1>0, <1>1
  <1>i. ASSUME Install(t) PROVE got'[t] = NoCopy
    BY <1>0, <1>i DEF Install
  <1>2. ASSUME NEW u \in Thread, QueryDeteriorated(u) PROVE Goal
    BY <1>1, <1>i, <1>2 DEF QueryDeteriorated
  <1>3. ASSUME NEW u \in Thread, Invalidate(u) PROVE Goal
    <2>1. got'[t] \in {NoCopy, got[t]} /\ target' = target /\ up' = up
      BY <1>3 DEF Invalidate, DropCopies
    <2>2. QED
      BY <1>1, <1>i, <2>1
  <1>4. ASSUME NEW u \in Thread, Fetch(u) PROVE Goal
    <2>1. got' = [got EXCEPT ![u] = version[target[u]]] /\ target' = target /\ up' = up
      BY <1>4 DEF Fetch
    <2>2. CASE u = t
      BY <1>0, <1>4, <2>1, <2>2 DEF Fetch, TypeOK
    <2>3. CASE u # t
      BY <1>0, <1>1, <1>i, <2>1, <2>3
    <2>4. QED
      BY <2>2, <2>3
  <1>5. ASSUME NEW u \in Thread, Install(u) PROVE Goal
    <2>1. /\ got' = [got EXCEPT ![u] = NoCopy] /\ target' = [target EXCEPT ![u] = NoObj]
          /\ up' = up
      BY <1>5 DEF Install
    <2>2. QED
      BY <1>0, <1>1, <1>i, <2>1
  <1>6. ASSUME NEW u \in Thread, WriteRow(u) \/ WriteBlob(u) PROVE Goal
    <2>1. /\ got' = got /\ up' = up /\ pc[u] = "write"
          /\ \A w \in Thread \ {u} : target'[w] = target[w]
      BY <1>6, NextToWriteFacts DEF WriteRow, WriteBlob
    <2>2. QED
      BY <1>0, <1>1, <1>i, <2>1
  <1>7. ASSUME NEW u \in Thread, EndCommit(u) PROVE Goal
    BY <1>1, <1>i, <1>7 DEF EndCommit
  <1>8. ASSUME NEW u \in Thread, Call(u) PROVE Goal
    <2>1. /\ got' = got /\ up' = up
          /\ pc[t] = "fetched" => target'[t] = target[t]
      BY <1>0, <1>8 DEF Call, BeginTransaction, LoadAlone, LoadInTxn, Commit,
                        Rollback, Idle
    <2>2. QED
      BY <1>0, <1>1, <1>i, <2>1
  <1>9. ASSUME NEW u \in Thread, FailDeadlocked(u) PROVE Goal
    <2>1. pc[u] # "fetched"
      BY <1>9 DEF FailDeadlocked, Deadlocked, WaitsForLock
    <2>2. /\ got' = got /\ up' = up
          /\ pc[t] = "fetched" => target'[t] = target[t]
      BY <1>0, <1>9, <2>1 DEF FailDeadlocked
    <2>3. QED
      BY <1>0, <1>1, <1>i, <2>2
  <1>10. ASSUME NEW c \in Client, Open(c) PROVE Goal
    <2>1. got' = got /\ target' = target /\ up' = up \cup {c}
      BY <1>10 DEF Open
    <2>2. QED
      BY <1>0, <1>i, <2>1
  <1>11. ASSUME NEW c \in Client, Exit(c) PROVE Goal
    <2>1. ClientOf[t] # c /\ got'[t] = got[t]
      BY <1>0, <1>11 DEF Exit
    <2>2. target'[t] = target[t] /\ up' = up \ {c}
      BY <1>0, <1>11, <2>1 DEF Exit
    <2>3. QED
      BY <1>0, <1>i, <2>1, <2>2
  <1>12. ASSUME NEW c \in Client, NEW o \in Obj, ThrowObject(c, o) PROVE Goal
    BY <1>1, <1>i, <1>12 DEF ThrowObject
  <1>13. CASE UNCHANGED vars
    BY <1>1, <1>i, <1>13 DEF vars
  <1>14. QED
    BY <1>2, <1>3, <1>4, <1>5, <1>6, <1>7, <1>8, <1>9, <1>10, <1>11, <1>12, <1>13
    DEF Next, Step

\* A client's copies are the newest versions it has had, after every step.
LEMMA SeenStep ==
  IInv /\ IInv' /\ LoaderInv /\ SeenInv /\ [Next]_vars /\ Record => SeenInv'
  <1> SUFFICES ASSUME IInv, IInv', LoaderInv, SeenInv, [Next]_vars, Record
               PROVE  SeenInv'
    OBVIOUS
  <1> USE ThreadAssumption, ObjAssumption
  <1>0. TypeOK /\ TypeOK' /\ PendInv /\ ThreadInv /\ SiblingInv /\ FetchInv /\ CacheInv'
    BY DEF IInv
  <1>1. seen' \in [Client -> [Obj -> Nat]]
    <2>1. cache' \in [Client -> [Obj -> Nat]] /\ seen \in [Client -> [Obj -> Nat]]
      BY <1>0 DEF SeenInv, TypeOK
    <2>2. QED
      BY <2>1 DEF Record, NoCopy
  \* What an install adds is not older than anything the client has had.
  <1>2. ASSUME NEW t \in Thread, Install(t), target[t] \in Coherent, got[t] # NoCopy
        PROVE  got[t] >= seen[ClientOf[t]][target[t]] /\ got[t] <= version[target[t]]
    BY <1>0, <1>2 DEF SeenInv, FetchInv, FetchSound, CopySound, Coherent
  <1>3. ASSUME NEW c \in Client, NEW o \in Coherent
        PROVE  /\ c \notin up' => seen'[c][o] = NoCopy
               /\ seen'[c][o] <= version'[o]
               /\ cache'[c][o] \in {NoCopy, seen'[c][o]}
    <2>0. /\ seen[c][o] \in Nat /\ seen[c][o] <= version[o] /\ o \in Obj
          /\ cache[c][o] \in {NoCopy, seen[c][o]}
          /\ version'[o] >= version[o] /\ version[o] \in Nat /\ version'[o] \in Nat
      BY <1>0, VersionGrows DEF SeenInv, Coherent, TypeOK
    <2>1. c \notin up' => seen'[c][o] = NoCopy
      BY <2>0 DEF Record
    <2>2. CASE c \notin up'
      <3>1. cache'[c][o] = NoCopy
        BY <1>0, <2>2 DEF CacheInv, CacheSound, Coherent
      <3>2. QED
        BY <2>0, <2>1, <2>2, <3>1 DEF NoCopy
    <2>3. CASE c \in up' /\ cache'[c][o] \in {NoCopy, cache[c][o]}
      <3>1. seen'[c][o] = seen[c][o]
        BY <1>0, <2>3, RecordKept
      <3>2. QED
        BY <2>0, <2>3, <3>1
    <2>4. CASE c \in up' /\ cache'[c][o] \notin {NoCopy, cache[c][o]}
      <3>1. PICK t \in Thread : /\ ClientOf[t] = c
                                /\ \/ Install(t) /\ o = target[t] /\ cache'[c][o] = got[t]
                                   \/ EndCommit(t) /\ o \in WriteSet(t)
                                      /\ cache'[c][o] = version[o] + 1
        BY <1>0, <2>4, CopyChange
      <3>2. cache'[c][o] >= seen[c][o] /\ cache'[c][o] <= version'[o]
        <4>1. CASE Install(t) /\ o = target[t] /\ cache'[c][o] = got[t]
          <5>1. version' = version
            BY <4>1 DEF Install, dbVars
          <5>2. QED
            BY <1>2, <2>4, <3>1, <4>1, <5>1
        <4>2. CASE EndCommit(t) /\ o \in WriteSet(t) /\ cache'[c][o] = version[o] + 1
          <5>1. version'[o] = version[o] + 1
            BY <1>0, <2>0, <4>2, EndCommitFacts
          <5>2. QED
            BY <2>0, <4>2, <5>1
        <4>3. QED
          BY <3>1, <4>1, <4>2
      <3>3. seen'[c][o] = cache'[c][o]
        BY <1>0, <2>4, <3>2, RecordRaised
      <3>4. QED
        BY <2>4, <3>2, <3>3
    <2>5. QED
      BY <2>2, <2>3, <2>4
  <1>4. ASSUME NEW t \in Thread, got'[t] # NoCopy, target'[t] \in Coherent
        PROVE  got'[t] >= seen'[ClientOf[t]][target'[t]]
    <2> DEFINE c == ClientOf[t]
               o == target[t]
    <2>0. c \in Client
      OBVIOUS
    <2>1. CASE Fetch(t) /\ got'[t] = version[o] /\ target'[t] = o
      <3>1. cache' = cache /\ up' = up
        BY <2>1 DEF Fetch, clientVars
      <3>2. seen'[c][o] = seen[c][o]
        BY <1>0, <1>4, <2>0, <2>1, <3>1, RecordKept
      <3>3. seen[c][o] <= version[o]
        BY <1>4, <2>0, <2>1 DEF SeenInv
      <3>4. seen[c][o] \in Nat /\ version[o] \in Nat
        BY <1>0, <1>4, <2>0, <2>1 DEF SeenInv, Coherent, TypeOK
      <3>5. QED
        BY <2>1, <3>2, <3>3, <3>4
    <2>2. CASE /\ got'[t] = got[t] /\ target'[t] = o /\ pc[t] = "fetched"
               /\ c \in up' /\ o \in Obj /\ ~Install(t)
      <3>1. Loading(t)
        BY <2>2 DEF Loading
      <3>2. cache'[c][o] \in {NoCopy, cache[c][o]}
        <4>1. ASSUME NEW u \in Thread, ClientOf[u] = c, Install(u), o = target[u] PROVE FALSE
          BY <2>2, <3>1, <4>1 DEF LoaderInv, Siblings
        <4>2. ASSUME NEW u \in Thread, ClientOf[u] = c, EndCommit(u), o \in WriteSet(u) PROVE FALSE
          <5>1. u # t
            BY <2>2, <4>2 DEF EndCommit
          <5>2. QED
            BY <1>0, <4>2, <5>1 DEF SiblingInv, Siblings
        <4>3. QED
          BY <1>0, <1>4, <2>0, <2>2, <4>1, <4>2, CopyChange
      <3>3. seen'[c][o] = seen[c][o]
        BY <1>0, <1>4, <2>0, <2>2, <3>2, RecordKept
      <3>4. got[t] >= seen[c][o]
        BY <1>4, <2>2 DEF SeenInv
      <3>5. QED
        BY <2>2, <3>3, <3>4
    <2>3. QED
      BY <1>0, <1>4, <2>1, <2>2, GotChange
  <1>5. QED
    BY <1>1, <1>3, <1>4 DEF SeenInv, Coherent

\* Two tables that agree except in one place.
LEMMA ExceptAt ==
  ASSUME NEW S, NEW T, NEW f \in [S -> [T -> Nat]], NEW g \in [S -> [T -> Nat]],
         NEW s \in S, NEW x \in T, NEW v,
         \A d \in S, p \in T : g[d][p] = IF d = s /\ p = x THEN v ELSE f[d][p]
  PROVE  g = [f EXCEPT ![s][x] = v]
  <1>1. \A d \in S \ {s} : g[d] = f[d]
    <2> SUFFICES ASSUME NEW d \in S \ {s} PROVE g[d] = f[d]
      OBVIOUS
    <2>1. g[d] \in [T -> Nat] /\ f[d] \in [T -> Nat] /\ \A p \in T : g[d][p] = f[d][p]
      OBVIOUS
    <2>2. QED
      BY <2>1
  <1>2. g[s] = [f[s] EXCEPT ![x] = v]
    <2>1. g[s] \in [T -> Nat] /\ f[s] \in [T -> Nat]
      OBVIOUS
    <2>2. \A p \in T : g[s][p] = IF p = x THEN v ELSE f[s][p]
      OBVIOUS
    <2>3. QED
      BY <2>1, <2>2
  <1>3. QED
    BY <1>1, <1>2

\* A step that touches no coherent object, no row and no client is invisible.
LEMMA InvisibleStep ==
  ASSUME ReadInv, TypeOK', Record, UNCHANGED <<history, late, up, lastSync>>,
         \A o \in Coherent : version'[o] = version[o],
         \A c \in Client, o \in Coherent : cache'[c][o] = cache[c][o]
  PROVE  UNCHANGED Promise!cvars
  <1>1. \A c \in Client, o \in Coherent : seen'[c][o] = seen[c][o]
    BY RecordKept DEF ReadInv
  <1>2. Versions' = Versions /\ Copies' = Copies /\ SeenAll' = SeenAll
    BY <1>1 DEF Versions, Copies, SeenAll
  <1>3. \A c \in Client : OwedTo(c)' = OwedTo(c)
    BY DEF OwedTo, Announces, IsDue
  <1>4. Owed' = Owed /\ Silent' = Silent
    BY <1>3 DEF Owed, Silent, Announces
  <1>5. QED
    BY <1>2, <1>4 DEF Promise!cvars

\* Invalidating the copies in "deteriorated" and advancing lastSyncTime is what
\* tells a client: every row it consumes by that drops its copy, or was late.
LEMMA InvalidateTells ==
  ASSUME ReadInv, TypeOK', Record, NEW t \in Thread, Invalidate(t)
  PROVE  \E os \in SUBSET Owed[ClientOf[t]], gone \in SUBSET Coherent :
           Promise!Tell(ClientOf[t], os, gone)
  <1> DEFINE c == ClientOf[t]
             os == OwedTo(c) \ OwedTo(c)'
             gone == det[t] \cap Coherent
  <1> USE ThreadAssumption DEF dbVars
  <1>0. /\ c \in Client /\ c \in up /\ pc[t] = "queried"
        /\ lastSync \in [Client -> Nat] /\ sync[t] \in Nat
        /\ cache \in [Client -> [Obj -> Nat]] /\ history \subseteq Row
    BY DEF ReadInv, IInv, TypeOK, ThreadInv, ThreadShape, Invalidate
  <1>1. UNCHANGED <<version, history, late, up>>
    BY DEF Invalidate
  <1>2. /\ lastSync'[c] = IF lastSync[c] < sync[t] THEN sync[t] ELSE lastSync[c]
        /\ \A d \in Client \ {c} : lastSync'[d] = lastSync[d]
    BY <1>0 DEF Invalidate, DropCopies, AdvanceSync
  <1>3. \A d \in Client, o \in Coherent :
          cache'[d][o] = IF d = c /\ o \in det[t] THEN NoCopy ELSE cache[d][o]
    BY <1>0 DEF Invalidate, DropCopies, AdvanceSync, Coherent
  <1>4. Copies' = [Copies EXCEPT ![c] =
                     [o \in Coherent |-> IF o \in gone THEN NoCopy ELSE Copies[c][o]]]
    <2>1. \A d \in Client, o \in Coherent : Copies[d][o] = cache[d][o]
      BY DEF Copies
    <2>2. [o \in Coherent |-> cache'[c][o]] =
            [o \in Coherent |-> IF o \in gone THEN NoCopy ELSE Copies[c][o]]
      BY <1>0, <1>3, <2>1
    <2>3. \A d \in Client \ {c} : [o \in Coherent |-> cache'[d][o]] = Copies[d]
      BY <1>3 DEF Copies
    <2>4. QED
      BY <1>0, <2>2, <2>3 DEF Copies
  <1>5. \A d \in Client, o \in Coherent : seen'[d][o] = seen[d][o]
    BY <1>1, <1>3, RecordKept DEF ReadInv
  <1>6. Versions' = Versions /\ SeenAll' = SeenAll /\ Silent' = Silent
    BY <1>1, <1>5 DEF Versions, SeenAll, Silent, Announces
  <1>7. OwedTo(c)' \subseteq OwedTo(c)
    BY <1>0, <1>1, <1>2 DEF OwedTo, Announces, IsDue, Row
  <1>8. \A d \in Client \ {c} : OwedTo(d)' = OwedTo(d)
    BY <1>1, <1>2 DEF OwedTo, Announces, IsDue
  <1>9. Owed' = [Owed EXCEPT ![c] = Owed[c] \ os]
    BY <1>0, <1>7, <1>8 DEF Owed
  <1>10. os \ Silent \subseteq gone
    <2> SUFFICES ASSUME NEW o \in os, o \notin Silent PROVE o \in det[t] /\ o \in Coherent
      OBVIOUS
    <2>1. o \in Coherent
      BY DEF OwedTo
    <2>2. PICK r \in history : Announces(r, o) /\ IsDue(c, r)
      BY DEF OwedTo
    <2>3. r \notin late
      BY <2>1, <2>2 DEF Silent
    <2>4. ~IsDue(c, r)'
      BY <1>0, <1>1, <2>1, <2>2 DEF OwedTo, Announces
    <2>5. r.modtime <= sync[t]
      BY <1>0, <1>2, <2>2, <2>4 DEF IsDue, Row
    <2>6. r.opid \in det[t]
      BY <1>0, <2>2, <2>3, <2>5 DEF ReadInv, IInv, DetInv
    <2>7. QED
      BY <2>1, <2>2, <2>6 DEF Announces
  <1>11. os \in SUBSET Owed[c] /\ gone \in SUBSET Coherent
    BY <1>0 DEF Owed
  <1>12. Promise!Tell(c, os, gone)
    BY <1>0, <1>1, <1>4, <1>6, <1>9, <1>10, <1>11 DEF Promise!Tell, Promise!NoCopy, NoCopy
  <1>13. QED
    BY <1>11, <1>12

\* Installing a fetched row is a load, or nothing when the row was given up.
LEMMA InstallLoads ==
  ASSUME ReadInv, TypeOK', Record, NEW t \in Thread, Install(t)
  PROVE  \/ UNCHANGED Promise!cvars
         \/ \E o \in Coherent : \E v \in 1 .. Versions[o] : Promise!Load(ClientOf[t], o, v)
  <1> DEFINE c == ClientOf[t]
             o == target[t]
             v == got[t]
  <1> USE ThreadAssumption, ObjAssumption DEF dbVars
  <1>0. /\ c \in Client /\ c \in up /\ o \in Obj /\ v \in Nat /\ pc[t] = "fetched"
        /\ cache \in [Client -> [Obj -> Nat]] /\ version \in [Obj -> Nat]
    BY DEF ReadInv, IInv, TypeOK, ThreadInv, ThreadShape, Install
  <1>1. UNCHANGED <<version, history, late, up, lastSync>>
    BY DEF Install
  <1>2. cache' = [cache EXCEPT ![c][o] = v]
    BY DEF Install
  <1>3. cache[c][o] = NoCopy
    BY <1>0 DEF ReadInv, LoaderInv, Loading
  <1>4. CASE v = NoCopy \/ o \in Blob
    <2>1. \A d \in Client, p \in Coherent : cache'[d][p] = cache[d][p]
      BY <1>0, <1>2, <1>3, <1>4 DEF Coherent
    <2>2. QED
      BY <1>1, <2>1, InvisibleStep
  <1>5. CASE v # NoCopy /\ o \notin Blob
    <2>0. o \in Coherent
      BY <1>0, <1>5 DEF Coherent
    <2>1. v >= seen[c][o] /\ CopySound(c, o, v) /\ v <= version[o]
      BY <1>0, <1>5, <2>0 DEF ReadInv, SeenInv, IInv, FetchInv, FetchSound, CopySound
    <2>2. v = version[o] \/ o \in OwedTo(c) \cup Silent
      <3> SUFFICES ASSUME v # version[o] PROVE o \in OwedTo(c) \cup Silent
        OBVIOUS
      <3>0. version[o] \in Nat /\ v \in Nat /\ v <= version[o]
        BY <1>0, <2>1
      <3>1. v < version[o]
        <4> HIDE DEF v, o
        <4>1. QED
          BY <3>0
      <3>2. PICK r \in history : r.opid = o /\ r.ver = version[o]
        BY <2>1, <3>1 DEF CopySound
      <3>3. IsDue(c, r) \/ r \in late
        BY <2>1, <3>1, <3>2 DEF CopySound
      <3>4. QED
        BY <1>0, <2>0, <3>2, <3>3 DEF OwedTo, Silent, Announces
    <2>3. \A d \in Client, p \in Coherent :
            cache'[d][p] = IF d = c /\ p = o THEN v ELSE cache[d][p]
      BY <1>0, <1>2 DEF Coherent
    <2>4. \A d \in Client, p \in Coherent :
            seen'[d][p] = IF d = c /\ p = o THEN v ELSE seen[d][p]
      BY <1>0, <1>1, <2>0, <2>1, <2>3, RecordKept, RecordRaised DEF ReadInv
    <2>5. /\ Copies' = [Copies EXCEPT ![c][o] = v]
          /\ SeenAll' = [SeenAll EXCEPT ![c][o] = v]
      <3>1. /\ Copies \in [Client -> [Coherent -> Nat]] /\ Copies' \in [Client -> [Coherent -> Nat]]
            /\ SeenAll \in [Client -> [Coherent -> Nat]] /\ SeenAll' \in [Client -> [Coherent -> Nat]]
        BY <1>0, <2>3, <2>4 DEF Copies, SeenAll, ReadInv, SeenInv, Coherent
      <3>2. \A d \in Client, p \in Coherent :
              /\ Copies'[d][p] = IF d = c /\ p = o THEN v ELSE Copies[d][p]
              /\ SeenAll'[d][p] = IF d = c /\ p = o THEN v ELSE SeenAll[d][p]
        BY <2>3, <2>4 DEF Copies, SeenAll
      <3> HIDE DEF c, o, v
      <3>3. QED
        BY <1>0, <2>0, <3>1, <3>2, ExceptAt
    <2>6. Versions' = Versions /\ Silent' = Silent /\ Owed' = Owed
      BY <1>1 DEF Versions, Silent, Owed, OwedTo, Announces, IsDue
    <2>7. /\ Copies[c][o] = NoCopy /\ SeenAll[c][o] = seen[c][o]
          /\ Versions[o] = version[o] /\ Owed[c] = OwedTo(c)
      BY <1>0, <1>3, <2>0 DEF Copies, SeenAll, Versions, Owed
    <2>8. Promise!Load(c, o, v)
      BY <1>0, <1>1, <1>5, <2>1, <2>2, <2>5, <2>6, <2>7 DEF Promise!Load, Promise!NoCopy, NoCopy
    <2>9. v \in 1 .. Versions[o]
      BY <1>0, <1>5, <2>1, <2>7 DEF NoCopy
    <2>10. QED
      BY <2>0, <2>8, <2>9
  <1>6. QED
    BY <1>4, <1>5

\* Ending a commit publishes the written objects: their rows are due to every
\* other client, or late.
LEMMA EndCommitCommits ==
  ASSUME ReadInv, TypeOK', Record, NEW t \in Thread, EndCommit(t)
  PROVE  \E os \in SUBSET Coherent : \E lost \in SUBSET os :
           Promise!Commit(ClientOf[t], os, lost)
  <1> DEFINE c == ClientOf[t]
             os == WriteSet(t)
             lost == {o \in os : \E r \in late' : r.opid = o /\ r \in pend[t]}
  <1> USE ThreadAssumption, ObjAssumption
  <1>0. /\ c \in Client /\ c \in up /\ os \subseteq Coherent /\ lost \subseteq os
        /\ cache \in [Client -> [Obj -> Nat]] /\ version \in [Obj -> Nat]
        /\ lastSync \in [Client -> Nat] /\ history \subseteq Row /\ late \subseteq history
        /\ pend[t] \subseteq Row
        /\ Coherent \subseteq Obj
    BY EndCommitFacts DEF ReadInv, IInv, TypeOK, ThreadInv, ThreadShape, EndCommit, Coherent
  <1>1. /\ UNCHANGED <<up, lastSync>> /\ history' = history \cup pend[t]
        /\ late' \subseteq late \cup pend[t] /\ late \subseteq late'
        /\ \A o \in Obj : version'[o] = IF o \in os THEN version[o] + 1 ELSE version[o]
        /\ \A d \in Client, o \in Coherent :
             cache'[d][o] = IF d = c /\ o \in os THEN version[o] + 1 ELSE cache[d][o]
    BY <1>0 DEF EndCommit
  <1>2. /\ \A r \in pend[t] : /\ r.opid \in os /\ r.ver = version'[r.opid]
                              /\ r.client = c /\ r.modtime > 0
        /\ \A o \in os : \E r \in pend[t] : r.opid = o
    BY EndCommitFacts DEF ReadInv, IInv
  <1>3. \A r \in history : r.ver \in Nat /\ r.opid \in Obj /\ r.ver <= version[r.opid]
    BY <1>0 DEF ReadInv, IInv, HistoryInv, Row
  \* The rows that announce the new state of o.
  <1>4. ASSUME NEW o \in os, NEW r \in history', Announces(r, o)'
        PROVE  r \in pend[t] /\ r.opid = o
    BY <1>0, <1>1, <1>3, <1>4 DEF Announces
  <1>5. ASSUME NEW o \in Coherent \ os, NEW r
        PROVE  (r \in history' /\ Announces(r, o)') <=> (r \in history /\ Announces(r, o))
    BY <1>0, <1>1, <1>2, <1>5 DEF Announces
  <1>6. Silent' = (Silent \ os) \cup lost
    <2>1. ASSUME NEW o \in Coherent \ os PROVE o \in Silent' <=> o \in Silent
      BY <1>0, <1>1, <1>2, <2>1 DEF Silent, Announces
    <2>2. ASSUME NEW o \in os PROVE o \in Silent' <=> o \in lost
      <3>1. late' \subseteq history'
        BY <1>0, <1>1
      <3>2. ASSUME NEW r \in late', Announces(r, o)' PROVE o \in lost
        BY <1>4, <3>1, <3>2
      <3>3. ASSUME NEW r \in late', r.opid = o, r \in pend[t] PROVE Announces(r, o)'
        BY <1>2, <3>3 DEF Announces
      <3>4. QED
        BY <1>0, <3>2, <3>3 DEF Silent
    <2>3. Silent \subseteq Coherent /\ Silent' \subseteq Coherent
      BY DEF Silent
    <2>4. QED
      BY <1>0, <2>1, <2>2, <2>3
  <1>7. \A d \in Client : OwedTo(d)' \ os = OwedTo(d) \ os
    <2> SUFFICES ASSUME NEW d \in Client, NEW o \in Coherent \ os
                 PROVE  o \in OwedTo(d)' <=> o \in OwedTo(d)
      BY DEF OwedTo
    <2>1. \A r : IsDue(d, r)' <=> IsDue(d, r)
      BY <1>1 DEF IsDue
    <2>2. QED
      BY <1>1, <1>5, <2>1 DEF OwedTo
  <1>8. \A d \in up \ {c} : os \ lost \subseteq OwedTo(d)'
    <2> SUFFICES ASSUME NEW d \in up \ {c}, NEW o \in os, o \notin lost
                 PROVE  o \in OwedTo(d)'
      OBVIOUS
    <2>1. PICK r \in pend[t] : r.opid = o
      BY <1>2
    <2>2. d \in Client /\ lastSync[d] \in Nat /\ Reached(lastSync[d])
      BY <1>0 DEF ReadInv, IInv, SyncInv, TypeOK
    <2>3. r \notin late'
      BY <2>1
    <2>4. r.modtime > lastSync[d]
      BY <2>2, <2>3, InOrderAbove DEF ReadInv, IInv
    <2>5. Announces(r, o)' /\ IsDue(d, r)'
      BY <1>1, <1>2, <2>1, <2>4 DEF Announces, IsDue
    <2>6. QED
      BY <1>0, <1>1, <2>1, <2>5 DEF OwedTo
  <1>9. \A d \in Client \ (up \ {c}) : OwedTo(d)' \cap os = {}
    <2> SUFFICES ASSUME NEW d \in Client, d \notin up \/ d = c, NEW o \in os
                 PROVE  o \notin OwedTo(d)'
      OBVIOUS
    <2>1. CASE d \notin up
      BY <1>1, <2>1 DEF OwedTo
    <2>2. CASE d = c
      BY <1>2, <1>4, <2>2 DEF OwedTo, IsDue
    <2>3. QED
      BY <2>1, <2>2
  <1>10. /\ Owed' \in [Client -> SUBSET Coherent]
         /\ \A d \in Client : Owed'[d] = OwedTo(d)' /\ Owed[d] = OwedTo(d)
    BY DEF Owed, OwedTo
  <1>11. \A d \in Client, o \in Coherent :
           seen'[d][o] = IF d = c /\ o \in os THEN version[o] + 1 ELSE seen[d][o]
    <2> SUFFICES ASSUME NEW d \in Client, NEW o \in Coherent
                 PROVE  seen'[d][o] = IF d = c /\ o \in os THEN version[o] + 1 ELSE seen[d][o]
      OBVIOUS
    <2>1. CASE d = c /\ o \in os
      <3>1. cache'[d][o] = version[o] + 1 /\ seen[d][o] <= version[o]
        BY <1>1, <2>1 DEF ReadInv, SeenInv
      <3>2. cache'[d][o] >= seen[d][o]
        BY <1>0, <3>1 DEF ReadInv, SeenInv
      <3>3. QED
        BY <1>0, <1>1, <2>1, <3>1, <3>2, RecordRaised DEF ReadInv
    <2>2. CASE ~(d = c /\ o \in os)
      BY <1>1, <2>2, RecordKept DEF ReadInv
    <2>3. QED
      BY <2>1, <2>2
  <1> DEFINE new == [o \in Coherent |-> IF o \in os THEN Versions[o] + 1 ELSE Versions[o]]
             Written(row) == [o \in Coherent |-> IF o \in os THEN new[o] ELSE row[o]]
  <1>12. /\ Versions' = new
         /\ Copies' = [Copies EXCEPT ![c] = Written(Copies[c])]
         /\ SeenAll' = [SeenAll EXCEPT ![c] = Written(SeenAll[c])]
    <2>1. \A o \in Coherent : Versions[o] = version[o]
      BY DEF Versions
    <2>2. Versions' = new
      BY <1>0, <1>1, <2>1 DEF Versions
    <2>3. \A o \in os : new[o] = version[o] + 1
      BY <1>0, <2>1
    <2>4. Copies' = [Copies EXCEPT ![c] = Written(Copies[c])]
      <3> HIDE DEF new
      <3>1. \A d \in Client : [o \in Coherent |-> cache'[d][o]] =
              IF d = c THEN Written(Copies[d]) ELSE Copies[d]
        BY <1>1, <2>3 DEF Copies
      <3>2. QED
        BY <1>0, <3>1 DEF Copies
    <2>5. SeenAll' = [SeenAll EXCEPT ![c] = Written(SeenAll[c])]
      <3> HIDE DEF new
      <3>1. \A d \in Client : [o \in Coherent |-> seen'[d][o]] =
              IF d = c THEN Written(SeenAll[d]) ELSE SeenAll[d]
        BY <1>11, <2>3 DEF SeenAll
      <3>2. QED
        BY <1>0, <3>1 DEF SeenAll
    <2>6. QED
      BY <2>2, <2>4, <2>5
  <1>13. Promise!Commit(c, os, lost)
    <2> HIDE DEF os, lost
    <2>1. /\ \A d \in Client : Owed'[d] \ os = Owed[d] \ os
          /\ \A d \in up \ {c} : os \ lost \subseteq Owed'[d]
          /\ \A d \in Client \ (up \ {c}) : Owed'[d] \cap os = {}
      <3>1. up \subseteq Client
        BY DEF ReadInv, IInv, TypeOK
      <3>2. QED
        BY <1>7, <1>8, <1>9, <1>10, <3>1
    <2>2. QED
      BY <1>0, <1>1, <1>6, <1>10, <1>12, <2>1 DEF Promise!Commit
  <1>14. QED
    BY <1>0, <1>13

\* Opening the storage starts a client without copies, owed nothing.
LEMMA OpenOpens ==
  ASSUME ReadInv, TypeOK', Record, NEW c \in Client, Open(c)
  PROVE  Promise!Open(c)
  <1>0. /\ lastSync \in [Client -> Nat] /\ history \subseteq Row /\ late \subseteq history
        /\ c \notin up /\ up' = up \cup {c} /\ version' = version /\ up \subseteq Client
        /\ cache \in [Client -> [Obj -> Nat]]
    BY DEF ReadInv, IInv, TypeOK, Open
  <1>1. /\ history' = IF up = {} THEN {} ELSE history
        /\ late' = late \cap history'
        /\ \A d \in Client \ {c} : lastSync'[d] = lastSync[d]
        /\ lastSync'[c] \in LastModtimes(history')
    BY <1>0 DEF Open
  <1>2. \A r \in history' : r.modtime <= lastSync'[c] /\ r.modtime \in Nat
    BY <1>0, <1>1, LastModtimeFacts DEF Row
  <1>3. \A d \in Client, o \in Coherent : cache'[d][o] = cache[d][o]
    BY <1>0 DEF Open, Coherent, ReadInv, IInv, CacheInv, CacheSound
  <1>4. \A d \in Client, o \in Coherent : seen'[d][o] = seen[d][o]
    BY <1>0, <1>3, RecordKept DEF ReadInv
  <1>5. Versions' = Versions /\ Copies' = Copies /\ SeenAll' = SeenAll
    BY <1>0, <1>3, <1>4 DEF Versions, Copies, SeenAll
  <1>6. lastSync'[c] \in Nat
    BY DEF TypeOK
  <1>7. OwedTo(c)' = {} /\ OwedTo(c) = {}
    BY <1>0, <1>2, <1>6 DEF OwedTo, IsDue
  <1>8. \A d \in Client \ {c} : OwedTo(d)' = OwedTo(d)
    BY <1>0, <1>1 DEF OwedTo, Announces, IsDue
  <1>9. Owed' = Owed
    BY <1>7, <1>8 DEF Owed
  <1>10. Silent' = IF up = {} THEN {} ELSE Silent
    BY <1>0, <1>1 DEF Silent, Announces
  <1>11. QED
    BY <1>0, <1>5, <1>9, <1>10 DEF Promise!Open

\* A process that ends takes its copies along.
LEMMA ExitExits ==
  ASSUME ReadInv, TypeOK', Record, NEW c \in Client, Exit(c)
  PROVE  Promise!Exit(c)
  <1>0. /\ c \in up /\ up' = up \ {c} /\ UNCHANGED <<version, history, late>>
        /\ up \subseteq Client
        /\ lastSync \in [Client -> Nat] /\ cache \in [Client -> [Obj -> Nat]]
    BY DEF ReadInv, IInv, TypeOK, Exit, dbVars
  <1>1. /\ \A d \in Client \ {c} : lastSync'[d] = lastSync[d]
        /\ \A d \in Client, o \in Coherent :
             cache'[d][o] = IF d = c THEN NoCopy ELSE cache[d][o]
    BY <1>0 DEF Exit, Coherent
  <1>2. \A d \in Client, o \in Coherent :
          seen'[d][o] = IF d = c THEN NoCopy ELSE seen[d][o]
    <2>1. \A d \in Client \ {c}, o \in Coherent : seen'[d][o] = seen[d][o]
      BY <1>0, <1>1, RecordKept DEF ReadInv
    <2>2. \A o \in Coherent : seen'[c][o] = NoCopy
      BY <1>0 DEF Record, Coherent
    <2>3. QED
      BY <2>1, <2>2
  <1>3. /\ Copies' = [Copies EXCEPT ![c] = [o \in Coherent |-> NoCopy]]
        /\ SeenAll' = [SeenAll EXCEPT ![c] = [o \in Coherent |-> NoCopy]]
    BY <1>0, <1>1, <1>2 DEF Copies, SeenAll
  <1>4. OwedTo(c)' = {} /\ \A d \in Client \ {c} : OwedTo(d)' = OwedTo(d)
    BY <1>0, <1>1 DEF OwedTo, Announces, IsDue
  <1>5. Owed' = [Owed EXCEPT ![c] = {}]
    BY <1>0, <1>4 DEF Owed
  <1>6. Versions' = Versions /\ Silent' = Silent
    BY <1>0 DEF Versions, Silent, Announces
  <1>7. QED
    BY <1>0, <1>3, <1>5, <1>6 DEF Promise!Exit, Promise!Nothing, Promise!NoCopy, NoCopy

\* Throwing an object away drops a copy without news.
LEMMA ThrowTells ==
  ASSUME ReadInv, TypeOK', Record, NEW c \in Client, NEW o \in Obj, ThrowObject(c, o)
  PROVE  \/ UNCHANGED Promise!cvars
         \/ \E os \in SUBSET Owed[c], gone \in SUBSET Coherent : Promise!Tell(c, os, gone)
  <1>0. /\ UNCHANGED <<version, history, late, up, lastSync>>
        /\ cache \in [Client -> [Obj -> Nat]] /\ cache[c][o] # NoCopy
        /\ cache' = [cache EXCEPT ![c][o] = NoCopy]
    BY DEF ReadInv, IInv, TypeOK, ThrowObject, dbVars
  <1>1. CASE o \in Blob
    <2>1. \A d \in Client, p \in Coherent : cache'[d][p] = cache[d][p]
      BY <1>0, <1>1 DEF Coherent
    <2>2. QED
      BY <1>0, <2>1, InvisibleStep
  <1>2. CASE o \notin Blob
    <2>0. o \in Coherent
      BY <1>2 DEF Coherent
    <2>1. c \in up
      BY <1>0, <1>2 DEF ReadInv, IInv, CacheInv, CacheSound
    <2>2. \A d \in Client, p \in Coherent :
            cache'[d][p] = IF d = c /\ p = o THEN NoCopy ELSE cache[d][p]
      BY <1>0 DEF Coherent
    <2>3. \A d \in Client, p \in Coherent : seen'[d][p] = seen[d][p]
      BY <1>0, <2>2, RecordKept DEF ReadInv
    <2>4. /\ Versions' = Versions /\ SeenAll' = SeenAll /\ Silent' = Silent /\ Owed' = Owed
      BY <1>0, <2>3 DEF Versions, SeenAll, Silent, Owed, OwedTo, Announces, IsDue
    <2>5. Copies' = [Copies EXCEPT ![c] =
                       [p \in Coherent |-> IF p \in {o} THEN NoCopy ELSE Copies[c][p]]]
      BY <2>2 DEF Copies
    <2>6. Owed' = [Owed EXCEPT ![c] = Owed[c] \ {}]
      BY <2>4 DEF Owed
    <2>7. Promise!Tell(c, {}, {o})
      BY <1>0, <2>1, <2>4, <2>5, <2>6 DEF Promise!Tell, Promise!NoCopy, NoCopy
    <2>8. QED
      BY <2>0, <2>7
  <1>3. QED
    BY <1>1, <1>2

\* Every step of the protocol is a step of the promise, or invisible.
LEMMA StepKeepsPromise ==
  ReadInv /\ TypeOK' /\ [ReadNext]_readVars => [Promise!Next]_(Promise!cvars)
  <1> SUFFICES ASSUME ReadInv, TypeOK', [ReadNext]_readVars
               PROVE  Promise!Next \/ UNCHANGED Promise!cvars
    OBVIOUS
  <1> DEFINE Goal == Promise!Next \/ UNCHANGED Promise!cvars
  <1> USE ThreadAssumption, ObjAssumption
  <1>1. CASE UNCHANGED readVars
    BY <1>1 DEF readVars, vars, Promise!cvars, Versions, Copies, SeenAll, Owed, OwedTo,
                Silent, Announces, IsDue
  <1>2. CASE ReadNext
    <2>0. Next /\ Record
      BY <1>2 DEF ReadNext
    <2>1. ASSUME NEW t \in Thread, Invalidate(t) PROVE Goal
      BY <2>0, <2>1, InvalidateTells DEF Promise!Next
    <2>2. ASSUME NEW t \in Thread, Install(t) PROVE Goal
      BY <2>0, <2>2, InstallLoads DEF Promise!Next
    <2>3. ASSUME NEW t \in Thread, EndCommit(t) PROVE Goal
      BY <2>0, <2>3, EndCommitCommits DEF Promise!Next
    <2>4. ASSUME NEW c \in Client, Open(c) PROVE Goal
      BY <2>0, <2>4, OpenOpens DEF Promise!Next
    <2>5. ASSUME NEW c \in Client, Exit(c) PROVE Goal
      BY <2>0, <2>5, ExitExits DEF Promise!Next
    <2>6. ASSUME NEW c \in Client, NEW o \in Obj, ThrowObject(c, o) PROVE Goal
      BY <2>0, <2>6, ThrowTells DEF Promise!Next
    <2>7. ASSUME NEW t \in Thread, WriteBlob(t) PROVE Goal
      <3>1. /\ UNCHANGED <<history, late, up, lastSync>>
            /\ target[t] \notin Coherent
        BY <2>7 DEF WriteBlob, Coherent
      <3>2. /\ \A o \in Coherent : version'[o] = version[o]
            /\ \A c \in Client, o \in Coherent : cache'[c][o] = cache[c][o]
        BY <2>7, <3>1 DEF WriteBlob, ReadInv, IInv, TypeOK, Coherent
      <3>3. QED
        BY <2>0, <3>1, <3>2, InvisibleStep
    <2>8. CASE UNCHANGED <<version, history, late, up, lastSync, cache>>
      BY <2>0, <2>8, InvisibleStep
    <2>9. QED
      BY <2>0, <2>1, <2>2, <2>3, <2>4, <2>5, <2>6, <2>7, <2>8
      DEF Next, Step, Call, dbVars, clientVars, QueryDeteriorated, Fetch, WriteRow,
          BeginTransaction, LoadAlone, LoadInTxn, Commit, Rollback, FailDeadlocked
  <1>3. QED
    BY <1>1, <1>2

\* Nothing has been read before the first client opens.
LEMMA ReadInvInit == ReadInit => ReadInv
  <1> SUFFICES ASSUME ReadInit PROVE ReadInv
    OBVIOUS
  <1>1. IInv
    BY IInvInit DEF ReadInit
  <1>2. LoaderInv
    BY DEF ReadInit, Init, LoaderInv, Loading
  <1>3. SeenInv
    BY ThreadAssumption, ObjAssumption
    DEF ReadInit, Init, NeverSeen, NoCopy, SeenInv, Coherent
  <1>4. QED
    BY <1>1, <1>2, <1>3 DEF ReadInv

\* The protocol with its history variable keeps all three invariants.
LEMMA ReadInvStep == ReadInv /\ [ReadNext]_readVars => ReadInv'
  <1> SUFFICES ASSUME ReadInv, [ReadNext]_readVars PROVE ReadInv'
    OBVIOUS
  <1>1. [Next]_vars
    BY DEF ReadNext, readVars
  <1>2. IInv' /\ LoaderInv'
    BY <1>1, IInvStep, LoaderStep DEF ReadInv, IInv
  <1>3. CASE ReadNext
    BY <1>1, <1>2, <1>3, SeenStep DEF ReadInv, ReadNext
  <1>4. CASE UNCHANGED readVars
    BY <1>2, <1>4 DEF ReadInv, readVars, vars, SeenInv
  <1>5. QED
    BY <1>3, <1>4

\* The protocol of version_history keeps its promise, whatever the numbers of
\* clients, threads and objects: it implements CoherentReads.
THEOREM ReadsAreCoherent == ReadSpec => ImplementsCoherentReads
  <1>1. ReadInit => Promise!Init
    <2> SUFFICES ASSUME ReadInit PROVE Promise!Init
      OBVIOUS
    <2>1. Versions = [o \in Coherent |-> IF o \in Stored \ Blob THEN 1 ELSE 0]
      BY DEF ReadInit, Init, Versions, Coherent
    <2>2. /\ Copies = [c \in Client |-> [o \in Coherent |-> NoCopy]]
          /\ SeenAll = [c \in Client |-> [o \in Coherent |-> NoCopy]]
      BY DEF ReadInit, Init, NeverSeen, Copies, SeenAll, Coherent
    <2>3. Owed = [c \in Client |-> {}] /\ Silent = {} /\ up = {}
      BY DEF ReadInit, Init, Owed, OwedTo, Silent
    <2>4. QED
      BY <2>1, <2>2, <2>3 DEF Promise!Init, Promise!Nothing, Promise!NoCopy, NoCopy
  <1>2. ReadInv => TypeOK
    BY DEF ReadInv, IInv
  <1>3. QED
    BY <1>1, <1>2, ReadInvInit, ReadInvStep, StepKeepsPromise, PTL
    DEF ReadSpec, ImplementsCoherentReads, Promise!Spec

\* A client never sees an object go back: while it has the storage open, the
\* version of every copy it gets is at least that of every copy it had before.
THEOREM ReadsAreMonotone ==
  ReadSpec => [][\A c \in up \cap up', o \in Coherent :
                   cache'[c][o] # NoCopy => cache'[c][o] >= seen[c][o]]_readVars
  <1>1. ReadInv /\ ReadInv' /\ [ReadNext]_readVars =>
          [\A c \in up \cap up', o \in Coherent :
             cache'[c][o] # NoCopy => cache'[c][o] >= seen[c][o]]_readVars
    <2> SUFFICES ASSUME ReadInv, ReadInv', ReadNext, NEW c \in up \cap up',
                        NEW o \in Coherent, cache'[c][o] # NoCopy
                 PROVE  cache'[c][o] >= seen[c][o]
      OBVIOUS
    <2>1. /\ cache'[c][o] = seen'[c][o] /\ c \in Client /\ o \in Obj
          /\ cache'[c][o] \in Nat /\ seen[c][o] \in Nat
      BY DEF ReadInv, SeenInv, IInv, TypeOK, Coherent
    <2>2. seen'[c][o] = IF cache'[c][o] > seen[c][o] THEN cache'[c][o] ELSE seen[c][o]
      BY <2>1 DEF ReadNext, Record
    <2>3. QED
      BY <2>1, <2>2
  <1>2. QED
    BY <1>1, ReadInvInit, ReadInvStep, PTL DEF ReadSpec
=============================================================================
