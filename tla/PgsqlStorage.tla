----------------------------- MODULE PgsqlStorage -----------------------------
(***************************************************************************)
(* The cache-coherence protocol of pgsql_storage (src/goods-diff/          *)
(* pgsql_storage.cxx): clients that keep copies of PostgreSQL rows in      *)
(* memory, and the version_history table through which a client learns, at *)
(* the start of each SQL transaction, which of its copies other clients    *)
(* have replaced.                                                          *)
(*                                                                         *)
(* Every action is one SQL statement, or one critical section under the    *)
(* global lock of the GOODS client, of one thread; statements of different *)
(* threads interleave.  PostgreSQL runs READ COMMITTED: each statement     *)
(* sees what is committed when it starts, an updated row is locked to the  *)
(* end of the transaction, and the modtime a row of version_history gets   *)
(* (a bigserial) is drawn when the row is inserted, not when it commits.   *)
(* The contents of an object are abstracted to the number of its version.  *)
(***************************************************************************)
EXTENDS Integers

CONSTANTS
  Client,       \* the processes that open the storage
  Thread,       \* the threads of all clients, each with a session of its own
  ClientOf,     \* the client a thread belongs to
  Obj,          \* the persistent objects
  Stored,       \* the objects the database holds before the first open
  Blob,         \* the objects of class ExternalBlob, kept in server files
  Writer,       \* the threads whose transactions modify objects
  NoObj,        \* no object
  NoThread,     \* no thread
  MaxModtime    \* bound: no commit begins once this many modtimes are drawn

ASSUME ThreadAssumption ==
  /\ ClientOf \in [Thread -> Client]
  /\ Writer \subseteq Thread
  /\ NoThread \notin Thread

ASSUME ObjAssumption ==
  /\ Blob \subseteq Obj /\ Stored \subseteq Obj
  /\ NoObj \notin Obj

ASSUME BoundAssumption == MaxModtime \in Nat

VARIABLES
  version,    \* version[o]: committed version of the row of o, 0 before the insert
  history,    \* committed rows of version_history
  late,       \* the rows of history that committed below a larger modtime
  lastModtime,\* last value drawn from the sequence of version_history.modtime
  lock,       \* lock[o]: the thread whose transaction holds the row lock of o
  up,         \* the clients that have the storage open
  lastSync,   \* lastSync[c]: pgsql_storage::lastSyncTime
  cache,      \* cache[c][o]: version of the valid copy c has of o, or NoCopy
  pc,         \* pc[t]: the statement thread t executes next
  inTxn,      \* threads whose SQL transaction outlives the current call
  target,     \* target[t]: the object of the load or write in progress
  sync,       \* sync[t]: the local variable of start_transaction
  det,        \* det[t]: the local vector "deteriorated"
  got,        \* got[t]: the version a load has fetched but not installed
  todo,       \* todo[t]: objects of the commit buffer not written yet
  pend        \* pend[t]: rows t has added to version_history, uncommitted

dbVars     == <<version, history, late, lastModtime>>
clientVars == <<up, lastSync, cache>>
syncVars   == <<sync, det>>
vars == <<version, history, late, lastModtime, lock, up, lastSync, cache, pc,
          inTxn, target, sync, det, got, todo, pend>>

NoCopy == 0

\* A row of version_history; ver, the version of the object that the row
\* announces, is not a column.
Row == [opid : Obj, client : Client, modtime : Nat, ver : Nat]

Idle(t)     == pc[t] = "idle" /\ ClientOf[t] \in up
Siblings(t) == {u \in Thread : ClientOf[u] = ClientOf[t]} \ {t}

\* The objects the transaction of t has written and is going to write.
WriteSet(t) == todo[t] \cup {r.opid : r \in pend[t]}

\* "lastsync": select max(modtime) from version_history, 0 for no rows.
IsLastModtime(rows, m) ==
  \/ rows = {} /\ m = 0
  \/ /\ \E r \in rows : r.modtime = m
     /\ \A r \in rows : r.modtime <= m

\* Variant: an empty table yields no number.
LastModtimesOfNull(rows) ==
  IF rows = {} THEN {-1} ELSE {m \in {r.modtime : r \in rows} : IsLastModtime(rows, m)}

LastModtimes(rows) == {m \in {0} \cup {r.modtime : r \in rows} : IsLastModtime(rows, m)}

\* The row locks that remain when the transaction of t ends.
ReleaseLocks(t) == lock' = [o \in Obj |-> IF lock[o] = t THEN NoThread ELSE lock[o]]

Init ==
  /\ version = [o \in Obj |-> IF o \in Stored THEN 1 ELSE 0]
  /\ history = {}
  /\ late = {}
  /\ lastModtime = 0
  /\ lock = [o \in Obj |-> NoThread]
  /\ up = {}
  /\ lastSync = [c \in Client |-> 0]
  /\ cache = [c \in Client |-> [o \in Obj |-> NoCopy]]
  /\ pc = [t \in Thread |-> "idle"]
  /\ inTxn = {}
  /\ target = [t \in Thread |-> NoObj]
  /\ sync = [t \in Thread |-> 0]
  /\ det = [t \in Thread |-> {}]
  /\ got = [t \in Thread |-> NoCopy]
  /\ todo = [t \in Thread |-> {}]
  /\ pend = [t \in Thread |-> {}]

-----------------------------------------------------------------------------
(* open and the end of a client process                                    *)

\* Variant: the sequence restarts with every open.
OpenRestartingSequence(c) ==
  /\ c \notin up
  /\ up' = up \cup {c}
  /\ history' = IF up = {} THEN {} ELSE history
  /\ late' = late \cap history'
  /\ lastModtime' = 0
  /\ \E m \in LastModtimes(history') : lastSync' = [lastSync EXCEPT ![c] = m]
  /\ cache' = [cache EXCEPT ![c] = [o \in Obj |-> NoCopy]]
  /\ UNCHANGED <<version, lock, pc, inTxn, target, sync, det, got, todo, pend>>

\* open: the first client of all empties version_history (numbackends == 1);
\* the client starts from the largest modtime left.
Open(c) ==
  /\ c \notin up
  /\ up' = up \cup {c}
  /\ LET kept == IF up = {} THEN {} ELSE history IN
       /\ history' = kept
       /\ late' = late \cap kept
       /\ \E m \in LastModtimes(kept) : lastSync' = [lastSync EXCEPT ![c] = m]
  /\ cache' = [cache EXCEPT ![c] = [o \in Obj |-> NoCopy]]
  /\ UNCHANGED <<version, lastModtime, lock, pc, inTxn, target, sync, det, got,
                 todo, pend>>

\* The process ends, at any point: the server drops its transactions.
Exit(c) ==
  /\ c \in up
  /\ up' = up \ {c}
  /\ LET mine == {t \in Thread : ClientOf[t] = c} IN
       /\ pc' = [t \in Thread |-> IF t \in mine THEN "idle" ELSE pc[t]]
       /\ inTxn' = inTxn \ mine
       /\ target' = [t \in Thread |-> IF t \in mine THEN NoObj ELSE target[t]]
       /\ sync' = [t \in Thread |-> IF t \in mine THEN 0 ELSE sync[t]]
       /\ det' = [t \in Thread |-> IF t \in mine THEN {} ELSE det[t]]
       /\ got' = [t \in Thread |-> IF t \in mine THEN NoCopy ELSE got[t]]
       /\ todo' = [t \in Thread |-> IF t \in mine THEN {} ELSE todo[t]]
       /\ pend' = [t \in Thread |-> IF t \in mine THEN {} ELSE pend[t]]
       /\ lock' = [o \in Obj |-> IF lock[o] \in mine THEN NoThread ELSE lock[o]]
  /\ cache' = [cache EXCEPT ![c] = [o \in Obj |-> NoCopy]]
  /\ lastSync' = [lastSync EXCEPT ![c] = 0]
  /\ UNCHANGED dbVars

-----------------------------------------------------------------------------
(* start_transaction, in three steps                                       *)

\* A new work, and its first statement: "lastsync".
StartTransaction(t) ==
  /\ \E m \in LastModtimes(history) : sync' = [sync EXCEPT ![t] = m]
  /\ pc' = [pc EXCEPT ![t] = "synced"]

\* Variant: the comparison of clientid is inverted.
QueryOwnRows(t) ==
  /\ pc[t] = "synced"
  /\ det' = [det EXCEPT ![t] =
               {r.opid : r \in {q \in history : /\ q.modtime > lastSync[ClientOf[t]]
                                                /\ q.client = ClientOf[t]}}]
  /\ pc' = [pc EXCEPT ![t] = "queried"]
  /\ UNCHANGED <<dbVars, clientVars, lock, inTxn, target, sync, got, todo, pend>>

\* "deteriorated": rows of other clients above lastSyncTime, which other
\* threads of the client may have advanced since.
QueryDeteriorated(t) ==
  /\ pc[t] = "synced"
  /\ LET c == ClientOf[t] IN
       det' = [det EXCEPT ![t] =
                 {r.opid : r \in {q \in history : /\ q.modtime > lastSync[c]
                                                  /\ q.client # c}}]
  /\ pc' = [pc EXCEPT ![t] = "queried"]
  /\ UNCHANGED <<dbVars, clientVars, lock, inTxn, target, sync, got, todo, pend>>

\* Variant: only valid objects are invalidated.
DropValidCopies(t) ==
  /\ cache' = [cache EXCEPT ![ClientOf[t]] =
                 [o \in Obj |-> IF o \in det[t] THEN NoCopy ELSE @[o]]]
  /\ UNCHANGED got

\* The loop over "deteriorated": a valid object is invalidated; a handle
\* without one is marked INVALIDATED_OBJECT, so that a row another thread has
\* fetched for it is not installed.
DropCopies(t) ==
  /\ cache' = [cache EXCEPT ![ClientOf[t]] =
                 [o \in Obj |-> IF o \in det[t] THEN NoCopy ELSE cache[ClientOf[t]][o]]]
  /\ got' = [u \in Thread |->
               IF u \in Siblings(t) /\ pc[u] = "fetched" /\ target[u] \in det[t]
               THEN NoCopy ELSE got[u]]

\* Variants: the assignment without its guard, and with a fresh "lastsync".
AdvanceAlways(t) == lastSync' = [lastSync EXCEPT ![ClientOf[t]] = sync[t]]
AdvanceToLatest(t) ==
  \E m \in LastModtimes(history) : lastSync' = [lastSync EXCEPT ![ClientOf[t]] = m]

AdvanceSync(t) ==
  LET c == ClientOf[t] IN
    lastSync' = [lastSync EXCEPT ![c] =
                   IF lastSync[c] < sync[t] THEN sync[t] ELSE lastSync[c]]

\* Under the global lock: invalidate the handles, then advance lastSyncTime.
Invalidate(t) ==
  /\ pc[t] = "queried"
  /\ DropCopies(t)
  /\ AdvanceSync(t)
  /\ IF target[t] = NoObj
     THEN /\ pc' = [pc EXCEPT ![t] = "idle"]
          /\ inTxn' = inTxn \cup {t}
     ELSE /\ \E next \in {"fetch", "fetchLock"} : pc' = [pc EXCEPT ![t] = next]
          /\ UNCHANGED inTxn
  /\ sync' = [sync EXCEPT ![t] = 0]
  /\ det' = [det EXCEPT ![t] = {}]
  /\ UNCHANGED <<dbVars, lock, up, target, todo, pend>>

-----------------------------------------------------------------------------
(* load                                                                    *)

\* What GOODS does before it calls load: the object has a row and no valid
\* copy, and no sibling loads it or holds it modified.
CanLoad(t, o) ==
  /\ version[o] > 0
  /\ cache[ClientOf[t]][o] = NoCopy
  /\ \A u \in Siblings(t) : target[u] # o /\ o \notin WriteSet(u)

\* load outside a transaction: autocommit opens one, and synchronises first.
LoadAlone(t, o) ==
  /\ Idle(t) /\ t \notin inTxn
  /\ CanLoad(t, o)
  /\ StartTransaction(t)
  /\ target' = [target EXCEPT ![t] = o]
  /\ UNCHANGED <<dbVars, clientVars, lock, inTxn, det, got, todo, pend>>

\* load in an open transaction goes straight to the select.
LoadInTxn(t, o) ==
  /\ Idle(t) /\ t \in inTxn
  /\ CanLoad(t, o)
  /\ \E next \in {"fetch", "fetchLock"} : pc' = [pc EXCEPT ![t] = next]
  /\ target' = [target EXCEPT ![t] = o]
  /\ UNCHANGED <<dbVars, clientVars, syncVars, lock, inTxn, got, todo, pend>>

\* The select, "for update" when the caller passes lof_update.  A toplevel
\* autocommit then ends its transaction, and with it the lock.
Fetch(t) ==
  /\ \/ pc[t] = "fetch" /\ UNCHANGED lock
     \/ /\ pc[t] = "fetchLock"
        /\ lock[target[t]] \in {NoThread, t}
        /\ lock' = IF t \in inTxn THEN [lock EXCEPT ![target[t]] = t] ELSE lock
  /\ got' = [got EXCEPT ![t] = version[target[t]]]
  /\ pc' = [pc EXCEPT ![t] = "fetched"]
  /\ UNCHANGED <<dbVars, clientVars, syncVars, inTxn, target, todo, pend>>

\* GOODS builds the object from the buffer, unless its handle was invalidated
\* after the fetch.
Install(t) ==
  /\ pc[t] = "fetched"
  /\ cache' = [cache EXCEPT ![ClientOf[t]][target[t]] = got[t]]
  /\ pc' = [pc EXCEPT ![t] = "idle"]
  /\ target' = [target EXCEPT ![t] = NoObj]
  /\ got' = [got EXCEPT ![t] = NoCopy]
  /\ UNCHANGED <<dbVars, syncVars, up, lastSync, lock, inTxn, todo, pend>>

\* throw_object: GOODS drops a copy that no transaction has modified.
ThrowObject(c, o) ==
  /\ cache[c][o] # NoCopy
  /\ \A t \in Thread : ClientOf[t] = c => o \notin WriteSet(t)
  /\ cache' = [cache EXCEPT ![c][o] = NoCopy]
  /\ UNCHANGED <<dbVars, syncVars, up, lastSync, lock, pc, inTxn, target, got,
                 todo, pend>>

-----------------------------------------------------------------------------
(* begin_transaction, commit_coordinator_transaction, rollback_transaction *)

BeginTransaction(t) ==
  /\ Idle(t) /\ t \notin inTxn
  /\ StartTransaction(t)
  /\ UNCHANGED <<dbVars, clientVars, lock, inTxn, target, det, got, todo, pend>>

\* What a transaction of t may hold modified: objects with a valid copy, and
\* objects that only t has created.
CanModify(t, o) ==
  /\ \/ cache[ClientOf[t]][o] # NoCopy
     \/ version[o] = 0 /\ \A u \in Thread \ {t} : o \notin WriteSet(u)
  /\ \A u \in Siblings(t) : target[u] # o /\ o \notin WriteSet(u)
  /\ o \in Blob => version[o] < MaxModtime

\* commit_coordinator_transaction is called with the modified objects os.
Commit(t, os) ==
  /\ Idle(t) /\ t \in inTxn /\ t \in Writer
  /\ lastModtime < MaxModtime
  /\ \A o \in os : CanModify(t, o)
  /\ todo' = [todo EXCEPT ![t] = os]
  /\ \E o \in os : target' = [target EXCEPT ![t] = o]
  /\ pc' = [pc EXCEPT ![t] = "write"]
  /\ UNCHANGED <<dbVars, clientVars, syncVars, lock, inTxn, got, pend>>

\* The next object of the buffer, in whatever order the buffer has them.
NextToWrite(t) ==
  LET left == todo[t] \ {target[t]} IN
    /\ todo' = [todo EXCEPT ![t] = left]
    /\ \E next \in IF left = {} THEN {NoObj} ELSE left :
         target' = [target EXCEPT ![t] = next]

\* insert or update of the row, and mkversion: nothing another transaction
\* could see lies between the two statements.
WriteRow(t) ==
  /\ pc[t] = "write" /\ target[t] \in todo[t] \ Blob
  /\ lock[target[t]] \in {NoThread, t}
  /\ lock' = [lock EXCEPT ![target[t]] = t]
  /\ lastModtime' = lastModtime + 1
  /\ pend' = [pend EXCEPT ![t] = @ \cup
                {[opid |-> target[t], client |-> ClientOf[t],
                  modtime |-> lastModtime + 1, ver |-> version[target[t]] + 1]}]
  /\ NextToWrite(t)
  /\ UNCHANGED <<clientVars, syncVars, version, history, late, pc, inTxn, got>>

\* write_file replaces the file of an ExternalBlob at once, outside the
\* transaction, and adds no row to version_history.
WriteBlob(t) ==
  /\ pc[t] = "write" /\ target[t] \in todo[t] \cap Blob
  /\ version' = [version EXCEPT ![target[t]] = @ + 1]
  /\ cache' = [cache EXCEPT ![ClientOf[t]][target[t]] = version[target[t]] + 1]
  /\ NextToWrite(t)
  /\ UNCHANGED <<syncVars, history, late, lastModtime, up, lastSync, lock, pc,
                 inTxn, got, pend>>

\* commit_transaction: the rows become visible together.
EndCommit(t) ==
  /\ pc[t] = "write" /\ todo[t] = {}
  /\ history' = history \cup pend[t]
  /\ late' = late \cup {r \in pend[t] : \E q \in history : q.modtime > r.modtime}
  /\ LET written == WriteSet(t)
         new == [o \in Obj |-> IF o \in written THEN version[o] + 1 ELSE version[o]]
     IN /\ version' = new
        /\ cache' = [cache EXCEPT ![ClientOf[t]] =
                       [o \in Obj |-> IF o \in written THEN new[o]
                                      ELSE cache[ClientOf[t]][o]]]
  /\ ReleaseLocks(t)
  /\ pend' = [pend EXCEPT ![t] = {}]
  /\ pc' = [pc EXCEPT ![t] = "idle"]
  /\ inTxn' = inTxn \ {t}
  /\ UNCHANGED <<syncVars, lastModtime, up, lastSync, target, got, todo>>

\* Variant: the work is deleted without abort, and the server keeps it open.
RollbackKeepingLocks(t) ==
  /\ t \in inTxn
  /\ Idle(t) \/ pc[t] = "failed"
  /\ pc' = [pc EXCEPT ![t] = "idle"]
  /\ inTxn' = inTxn \ {t}
  /\ UNCHANGED <<dbVars, clientVars, syncVars, lock, target, got, todo, pend>>

\* rollback_transaction, called by the application or after a failure.
Rollback(t) ==
  /\ t \in inTxn
  /\ Idle(t) \/ pc[t] = "failed"
  /\ ReleaseLocks(t)
  /\ pc' = [pc EXCEPT ![t] = "idle"]
  /\ inTxn' = inTxn \ {t}
  /\ UNCHANGED <<dbVars, clientVars, syncVars, target, got, todo, pend>>

-----------------------------------------------------------------------------
(* PostgreSQL: a statement that would wait in a cycle of row locks fails   *)

WaitsForLock(t) ==
  /\ \/ pc[t] = "fetchLock"
     \/ pc[t] = "write" /\ target[t] \in todo[t] \ Blob
  /\ lock[target[t]] \notin {NoThread, t}

Deadlocked(t) ==
  \E ring \in SUBSET Thread :
    /\ t \in ring
    /\ \A u \in ring : WaitsForLock(u) /\ lock[target[u]] \in ring
    /\ \A u \in ring : \E w \in ring : lock[target[w]] = u

\* The statement throws, and the server has undone the transaction; the
\* session keeps its work until rollback_transaction.
FailDeadlocked(t) ==
  /\ Deadlocked(t)
  /\ pc' = [pc EXCEPT ![t] = "failed"]
  /\ target' = [target EXCEPT ![t] = NoObj]
  /\ todo' = [todo EXCEPT ![t] = {}]
  /\ pend' = [pend EXCEPT ![t] = {}]
  /\ ReleaseLocks(t)
  /\ UNCHANGED <<dbVars, clientVars, syncVars, inTxn, got>>

-----------------------------------------------------------------------------
\* The statements a call of the storage consists of, in the order of the code.
Step(t) ==
  \/ QueryDeteriorated(t) \/ Invalidate(t)
  \/ Fetch(t) \/ Install(t)
  \/ WriteRow(t) \/ WriteBlob(t) \/ EndCommit(t)

\* The calls GOODS makes.
Call(t) ==
  \/ BeginTransaction(t) \/ Rollback(t)
  \/ \E o \in Obj : LoadAlone(t, o) \/ LoadInTxn(t, o)
  \/ \E os \in SUBSET Obj : Commit(t, os)

Next ==
  \/ \E t \in Thread : Step(t) \/ Call(t) \/ FailDeadlocked(t)
  \/ \E c \in Client : Open(c) \/ Exit(c) \/ \E o \in Obj : ThrowObject(c, o)

Spec == Init /\ [][Next]_vars

\* A call runs its statements without pausing; PostgreSQL queues the waiters
\* of a row lock and breaks every deadlock; the application ends each
\* transaction it has begun.
Fairness ==
  \A t \in Thread :
    /\ WF_vars(Step(t)) /\ SF_vars(Fetch(t)) /\ SF_vars(WriteRow(t))
    /\ WF_vars(FailDeadlocked(t))
    /\ SF_vars(Rollback(t))

FairSpec == Spec /\ Fairness

-----------------------------------------------------------------------------
(* Properties                                                              *)

PC == {"idle", "synced", "queried", "fetch", "fetchLock", "fetched", "write",
       "failed"}

\* The variables keep their types, the late rows are rows of the table, and a
\* load knows its object.
TypeOK ==
  /\ version \in [Obj -> Nat]
  /\ history \subseteq Row /\ late \subseteq history
  /\ lastModtime \in Nat
  /\ lock \in [Obj -> Thread \cup {NoThread}]
  /\ up \subseteq Client
  /\ lastSync \in [Client -> Nat]
  /\ cache \in [Client -> [Obj -> Nat]]
  /\ pc \in [Thread -> PC]
  /\ inTxn \subseteq Thread
  /\ target \in [Thread -> Obj \cup {NoObj}]
  /\ \A t \in Thread : pc[t] \in {"fetch", "fetchLock", "fetched"} => target[t] \in Obj
  /\ sync \in [Thread -> Nat]
  /\ det \in [Thread -> SUBSET Obj]
  /\ got \in [Thread -> Nat]
  /\ todo \in [Thread -> SUBSET Obj]
  /\ pend \in [Thread -> SUBSET Row]

\* Client c will still drop a copy of o for row r: the next "deteriorated"
\* of any of its threads returns the row.
IsDue(c, r) == r.client # c /\ r.modtime > lastSync[c]

Stale(c, o) == cache[c][o] # NoCopy /\ cache[c][o] < version[o]

\* Cache coherence (start_transaction against commit_coordinator_transaction,
\* lines 630-667 and 1564-1621): an outdated copy is announced by a row of
\* version_history that the client has not consumed yet, unless the row
\* committed after one with a larger modtime.
StaleCopyIsDue ==
  \A c \in up, o \in Obj \ Blob :
    Stale(c, o) => \E r \in history : /\ r.opid = o /\ r.ver = version[o]
                                      /\ IsDue(c, r) \/ r \in late

\* With one modifying thread in the whole system rows commit in the order of
\* their modtimes (mkversion draws them in the transaction that commits them),
\* so that no copy stays outdated for good.
OneWriterInOrder ==
  (\A t, u \in Writer : t = u) => late = {}

\* lastSyncTime never goes back while the storage is open, whatever order the
\* threads that share it reach the assignment of start_transaction in.
SyncNeverRetreats ==
  [][\A c \in up \cap up' : lastSync'[c] >= lastSync[c]]_vars

\* A commit ends, whoever holds the row locks it needs (the loop of
\* commit_coordinator_transaction takes them one by one).
CommitEnds == \A t \in Thread : (pc[t] = "write") ~> (pc[t] # "write")

\* A client whose threads keep starting SQL transactions drops every outdated
\* copy that is not the victim of a late commit.
DueRowIsDelivered ==
  \A c \in Client, o \in Obj \ Blob :
    LET Due == /\ c \in up /\ Stale(c, o)
               /\ ~ \E r \in late : r.opid = o
    IN ([]<>(\E t \in Thread : ClientOf[t] = c /\ pc[t] = "synced")) => (Due ~> ~Due)

=============================================================================
