------------------------------- MODULE Sessions -------------------------------
(***************************************************************************)
(* The sessions of pgsql_storage (src/goods-diff/pgsql_storage.{h,cxx}):   *)
(* the connections of a client, the scopes of autocommit that share one    *)
(* SQL transaction per thread, and the calls made through them: advisory   *)
(* locks, the dictionary, the root, listen and unlisten, and a conversion  *)
(* that gives up.                                                          *)
(*                                                                         *)
(* A call is the list of its steps; what follows in this module is first   *)
(* the calls, each from the function of that name, then the effect of each *)
(* kind of step.  Two mutexes belong to a client: the storage mutex cs and *)
(* the recursive global monitor of GOODS.                                  *)
(***************************************************************************)
EXTENDS Integers, Sequences, FiniteSets, SequencesExt

CONSTANTS
  Thread, Client,
  ClientOf,   \* ClientOf[t]: the client of thread t
  Session,    \* names for connections, as many as threads
  Name,       \* names in the dictionary
  Obj,        \* objects
  Stored,     \* those with a row at first
  Entry,      \* Entry[n]: the object of name n at first
  LockId,     \* advisory locks
  None,       \* no thread, session or object
  MaxCalls,   \* bound: MaxCalls[m]: calls of a behaviour of menu m
  Actors,     \* bound: Actors[m]: the threads that make them
  MaxFaults   \* bound: MaxFaults[m]: statements that fail for reasons outside the model

Menus == {"locks", "dictionary", "monitors", "root", "notify"}

ASSUME SessionAssumption ==
  /\ ClientOf \in [Thread -> Client]
  /\ None \notin Thread \cup Session \cup Obj
  /\ Stored \subseteq Obj /\ Entry \in [Name -> Stored \cup {None}]
  /\ MaxCalls \in [Menus -> Nat] /\ Actors \in [Menus -> SUBSET Thread] /\ MaxFaults \in [Menus -> Nat]

VARIABLES
  thread,    \* thread[t]: [session, code (steps to do), tops (toplevel of the
             \* autocommit scopes), mine (locks it was granted), fresh (objects
             \* made persistent but not written), listening, due (updates it
             \* has to be told)]
  session,   \* session[s]: [txn, pend (uncommitted writes), locks (how often it
             \* holds each lock), observers, inbox (notifications)]
  client,    \* client[c]: [pool, owner and depth of the global monitor, cs,
             \* have (objects in memory), dead]
  db,        \* what is committed: [entry, rows, rootClass, root, triggers,
             \* converted]
  calls, faults,
  menu       \* the kinds of calls of this behaviour (constant)

bounds == <<calls, faults, menu>>
vars == <<thread, session, client, db, bounds>>

Modes   == {"shared", "exclusive"}
NoLocks == [k \in LockId |-> [m \in Modes |-> 0]]

-----------------------------------------------------------------------------
(* Calls                                                                   *)

Scope(steps) == <<<<"start">>>> \o steps \o <<<<"end">>>>

\* lookup_class: cs is held while get_class asks for the descriptor.
LookupClass == <<<<"enter">>>> \o Scope(<<<<"class">>>>) \o <<<<"leave">>>>

\* Variant: the class is looked up before the transaction starts.
LoadLookingUpFirst(o) == LookupClass \o Scope(<<<<"load", o>>>>)

Load(o) == Scope(LookupClass \o <<<<"load", o>>>>)

Allocate(o) == Scope(<<<<"enter">>, <<"alloc", o>>, <<"leave">>>>)

\* pgsql_dictionary::put; make_persistent allocates an identifier for a new object.
Put(t, n, o) ==
  (IF o \in client[ClientOf[t]].have THEN <<>>
   ELSE <<<<"lockGlobal">>>> \o Allocate(o) \o <<<<"unlockGlobal">>>>)
  \o Scope(<<<<"put", n, o>>>>)

Get(n) == Scope(<<<<"get", n>>>>)
Del(n) == Scope(<<<<"del", n>>>>)

\* The constructor of pgsql_dictionary.
NewDictionary ==
  <<<<"lockGlobal">>>> \o Scope(Allocate(None)) \o <<<<"unlockGlobal">>>>

SessionLock(k, mode)   == Scope(<<<<"lock", k, mode>>>>)
SessionTry(k, mode)    == Scope(<<<<"try", k, mode>>>>)
SessionUnlock(k, mode) == Scope(<<<<"unlock", k, mode>>>>)

\* begin_transaction and commit_coordinator_transaction.
Commit(o) ==
  <<<<"begin">>>> \o Scope(LookupClass \o <<<<"write", o>>>>) \o <<<<"commit">>>>

\* The same for the root, which load has found to be abstract.
CommitRoot == <<<<"begin">>>> \o Scope(<<<<"rootClass">>>> \o LookupClass \o <<<<"root">>>>)
              \o <<<<"commit">>>>

\* Variant: a trigger that exists is enough.
ListenOncePerObject(s, o) ==
  IF session[s].observers[o] = "none" /\ o \notin db.triggers
  THEN Scope(<<<<"trigger", o>>, <<"observe", o>>>>) \o <<<<"listening", o>>>>
  ELSE <<<<"listening", o>>>>

\* listen and unlisten; the statement of unlisten names no table.
Listen(s, o) ==
  IF session[s].observers[o] = "none"
  THEN Scope(<<<<"trigger", o>>, <<"observe", o>>>>) \o <<<<"listening", o>>>>
  ELSE <<<<"listening", o>>>>

Unlisten(s, o) ==
  <<<<"quiet", o>>>> \o IF session[s].observers[o] = "none" THEN <<>>
                        ELSE Scope(<<<<"delete", o>>, <<"dropTrigger">>, <<"erase", o>>>>)

\* convert_goods_database that returns before its end.
Convert == <<<<"start">>, <<"convert">>, <<"abandon">>>>

SqlSteps == {"class", "load", "alloc", "put", "get", "del", "lock", "try", "unlock", "write",
             "rootClass", "root", "trigger", "dropTrigger", "convert"}

-----------------------------------------------------------------------------
(* The database                                                            *)

\* The last write of pend that sets the entry of name n sets it to o.
LastSets(pend, n, o) ==
  \E i \in DOMAIN pend :
    /\ pend[i] = <<"put", n, o>> \/ (pend[i] = <<"del", n>> /\ o = None)
    /\ \A j \in DOMAIN pend : j > i /\ pend[j][1] \in {"put", "del"} => pend[j][2] # n

\* The database with the effects of the writes of pend.
Apply(d, pend) ==
  [entry     |-> [n \in Name |-> IF \E o \in Obj \cup {None} : LastSets(pend, n, o)
                                THEN CHOOSE o \in Obj \cup {None} : LastSets(pend, n, o)
                                ELSE d.entry[n]],
   rows      |-> d.rows \cup {o \in Obj : Contains(pend, <<"write", o>>)},
   rootClass |-> d.rootClass + Cardinality({i \in DOMAIN pend : pend[i] = <<"rootClass">>}),
   root      |-> d.root \/ Contains(pend, <<"root">>),
   triggers  |-> d.triggers \cup {o \in Obj : Contains(pend, <<"trigger", o>>)},
   converted |-> d.converted \/ Contains(pend, <<"convert">>)]

Visible(s) == Apply(db, session[s].pend)

\* Writes that wait for each other: of one entry, one row or the root, and a
\* trigger with any write of its table.
Conflict(v, w) ==
  \/ v[1] \in {"put", "del"} /\ w[1] \in {"put", "del"} /\ v[2] = w[2]
  \/ v[1] = "write" /\ w = v
  \/ v[1] = "root" /\ w[1] = "root"
  \/ v[1] = "trigger" /\ w[1] \in {"trigger", "write"}
  \/ w[1] = "trigger" /\ v[1] = "write"

WriteBlockers(s, w) ==
  {r \in Session \ {s} : \E i \in DOMAIN session[r].pend : Conflict(w, session[r].pend[i])}

LockBlockers(s, k, mode) ==
  {r \in Session \ {s} : \/ session[r].locks[k]["exclusive"] > 0
                         \/ mode = "exclusive" /\ session[r].locks[k]["shared"] > 0}

Blockers(s, step) ==
  CASE step[1] \in {"put", "del", "write", "root", "trigger"} -> WriteBlockers(s, step)
    [] step[1] = "lock" -> LockBlockers(s, step[2], step[3])
    [] OTHER -> {}

\* Threads whose statement waits for one of t.
WaitsFor(t, u) ==
  /\ thread[t].code # <<>> /\ thread[t].session # None /\ thread[u].session # None
  /\ thread[u].session \in Blockers(thread[t].session, Head(thread[t].code))

InDeadlock(t) ==
  LET reach[i \in 1..Cardinality(Thread)] ==
        IF i = 1 THEN {u \in Thread : WaitsFor(t, u)}
        ELSE reach[i - 1] \cup {u \in Thread : \E v \in reach[i - 1] : WaitsFor(v, u)}
  IN t \in reach[Cardinality(Thread)]

\* The objects the commit of session s updates.
Updated(s) ==
  {o \in db.rows : \E i \in DOMAIN session[s].pend : session[s].pend[i] = <<"write", o>>}

\* The commit of session s: the writes, and a notification of each update for the
\* sessions that listen (trigger on_update).
CommitPending(s) ==
  /\ db' = Visible(s)
  /\ session' = [r \in Session |->
       [session[r] EXCEPT
          !.txn = IF r = s THEN "none" ELSE @,
          !.pend = IF r = s THEN <<>> ELSE @,
          !.inbox = @ \cup {o \in Updated(s) \cap Visible(s).triggers :
                              session[r].observers[o] = "live"}]]

-----------------------------------------------------------------------------
(* Steps                                                                   *)

First(t, what) == /\ thread[t].code # <<>> /\ Head(thread[t].code)[1] = what
                  /\ ~client[ClientOf[t]].dead
Rest(t) == Tail(thread[t].code)
Arg(t)  == Head(thread[t].code)[2]
Done(t) == thread' = [thread EXCEPT ![t].code = Rest(t)]

\* Variant: the session stays in the pool.
PopShared(pool) == [s |-> Head(pool), pool |-> pool]

Pop(pool) == [s |-> Head(pool), pool |-> Tail(pool)]

Free == {s \in Session : /\ \A t \in Thread : thread[t].session # s
                          /\ \A c \in Client : ~Contains(client[c].pool, s)}

\* new_session: the head of the pool, or a new connection.
NewSession(c) ==
  IF client[c].pool # <<>> THEN Pop(client[c].pool)
  ELSE [s |-> CHOOSE s \in Free : TRUE, pool |-> <<>>]

\* current_session, for a thread without one.
Attach(t) ==
  LET c == ClientOf[t]
      new == NewSession(c) IN
  /\ thread[t].session = None
  /\ thread[t].code # <<>> \/ (menu = "notify" /\ t \in Actors[menu])
  /\ client[c].cs \in {None, t} /\ ~client[c].dead
  /\ client[c].pool # <<>> \/ Free # {}
  /\ thread' = [thread EXCEPT ![t].session = new.s]
  /\ client' = [client EXCEPT ![c].pool = new.pool]
  /\ UNCHANGED <<session, db, bounds>>

\* The end of a thread: release_session.
Detach(t) ==
  LET c == ClientOf[t] IN
  /\ thread[t].session # None /\ thread[t].code = <<>>
  /\ client[c].cs = None /\ ~client[c].dead
  /\ thread' = [thread EXCEPT ![t].session = None, ![t].mine = NoLocks, ![t].fresh = {},
                              ![t].listening = {}, ![t].due = {}]
  /\ client' = [client EXCEPT ![c].pool = <<thread[t].session>> \o @]
  /\ UNCHANGED <<session, db, bounds>>

\* start_transaction: a toplevel scope begins the SQL transaction and takes the
\* global monitor while it invalidates objects.
Start(t) ==
  LET s == thread[t].session
      top == session[s].txn = "none" IN
  /\ First(t, "start") \/ First(t, "begin")
  /\ s # None
  /\ top => client[ClientOf[t]].owner \in {None, t}
  /\ thread' = [thread EXCEPT ![t].code = Rest(t),
                  ![t].tops = IF First(t, "begin") THEN @ ELSE Append(@, top)]
  /\ session' = IF top THEN [session EXCEPT ![s].txn = "open"] ELSE session
  /\ UNCHANGED <<client, db, bounds>>

\* The scope of t that ends is the toplevel one, or its commit is at hand.
Commits(t) == First(t, "commit") \/ (First(t, "end") /\ Last(thread[t].tops))

\* commit_transaction, at the end of a toplevel scope or of a commit.  It throws
\* for a transaction that was aborted.
End(t) ==
  LET s == thread[t].session
      writes == Commits(t) /\ session[s].txn = "open" IN
  /\ First(t, "end") \/ First(t, "commit")
  /\ IF writes THEN CommitPending(s)
     ELSE /\ session' = IF Commits(t) /\ session[s].txn = "failed"
                        THEN [session EXCEPT ![s].txn = "none", ![s].pend = <<>>] ELSE session
          /\ db' = db
  /\ thread' = [u \in Thread |->
       [thread[u] EXCEPT
          !.code = IF u = t THEN Rest(t) ELSE @,
          !.tops = IF u = t /\ First(t, "end") THEN Front(@) ELSE @,
          !.fresh = IF u = t /\ writes THEN @ \ db'.rows ELSE @,
          !.due = IF writes THEN @ \cup (thread[u].listening \cap Updated(s)) ELSE @]]
  /\ UNCHANGED <<client, bounds>>

\* Variant: the scope ends without abort.
AbandonOnly(txn) == [txn |-> txn, keep |-> TRUE]

\* The end of a scope with commitOnExit off.
AbandonedTxn(txn) == [txn |-> "aborted", keep |-> FALSE]

Abandon(t) ==
  LET s == thread[t].session
      after == AbandonedTxn(session[s].txn) IN
  /\ First(t, "abandon")
  /\ session' = [session EXCEPT ![s].txn = after.txn,
                                ![s].pend = IF after.keep THEN @ ELSE <<>>]
  /\ thread' = [thread EXCEPT ![t].code = Rest(t), ![t].tops = Front(@)]
  /\ UNCHANGED <<client, db, bounds>>

\* rollback_transaction.
RollbackTransaction(t) ==
  LET s == thread[t].session IN
  /\ First(t, "rollback")
  /\ session' = IF s = None THEN session
                ELSE [session EXCEPT ![s].txn = "none", ![s].pend = <<>>]
  /\ thread' = [thread EXCEPT ![t].code = Rest(t), ![t].fresh = {}]
  /\ UNCHANGED <<client, db, bounds>>

LockGlobal(t) ==
  LET c == ClientOf[t] IN
  /\ First(t, "lockGlobal") /\ client[c].owner \in {None, t}
  /\ client' = [client EXCEPT ![c].owner = t, ![c].depth = @ + 1]
  /\ Done(t) /\ UNCHANGED <<session, db, bounds>>

UnlockGlobal(t) ==
  LET c == ClientOf[t] IN
  /\ First(t, "unlockGlobal")
  /\ client' = [client EXCEPT ![c].owner = IF client[c].depth = 1 THEN None ELSE t,
                              ![c].depth = @ - 1]
  /\ Done(t) /\ UNCHANGED <<session, db, bounds>>

Enter(t) ==
  LET c == ClientOf[t] IN
  /\ First(t, "enter") /\ client[c].cs = None
  /\ client' = [client EXCEPT ![c].cs = t]
  /\ Done(t) /\ UNCHANGED <<session, db, bounds>>

Leave(t) ==
  /\ First(t, "leave")
  /\ client' = [client EXCEPT ![ClientOf[t]].cs = None]
  /\ Done(t) /\ UNCHANGED <<session, db, bounds>>

\* A statement that can run: its transaction is usable and nothing blocks it.
Runs(t, what) ==
  /\ First(t, what) /\ session[thread[t].session].txn = "open"
  /\ Blockers(thread[t].session, Head(thread[t].code)) = {}

\* Variant: the row is written whatever is there.
RootUpserts(s) == TRUE

\* The row of the root is inserted if get_root was empty, which the primary key
\* refuses once another client has committed one, and updated otherwise.
RootFits(s) == ~db.root \/ Visible(s).rootClass = 1

\* Statements that write: put, del, write, add_root, the root's row, create trigger.
Write(t) ==
  LET s == thread[t].session
      w == Head(thread[t].code)
      known == w[1] = "rootClass" /\ Visible(s).rootClass > 0 IN
  /\ \E what \in {"put", "del", "write", "rootClass", "root", "trigger", "convert"} : Runs(t, what)
  /\ w[1] = "root" => RootFits(s)
  /\ session' = IF known THEN session ELSE [session EXCEPT ![s].pend = Append(@, w)]
  /\ Done(t) /\ UNCHANGED <<client, db, bounds>>

SelectClass(t) ==
  /\ Runs(t, "class")
  /\ Done(t) /\ UNCHANGED <<session, client, db, bounds>>

\* new_oid and the buffer of identifiers.
NewOid(t) ==
  LET o == Arg(t) IN
  /\ Runs(t, "alloc")
  /\ thread' = [thread EXCEPT ![t].code = Rest(t), ![t].fresh = @ \cup ({o} \ {None})]
  /\ client' = [client EXCEPT ![ClientOf[t]].have = @ \cup ({o} \ {None})]
  /\ UNCHANGED <<session, db, bounds>>

\* hash_get; an object that is not in memory is loaded after the scope.
HashGet(t) ==
  LET o == Visible(thread[t].session).entry[Arg(t)] IN
  /\ Runs(t, "get")
  /\ thread' = [thread EXCEPT ![t].code =
       Rest(t) \o IF o = None \/ o \in client[ClientOf[t]].have THEN <<>> ELSE Load(o)]
  /\ UNCHANGED <<session, client, db, bounds>>

NewConnection ==
  [txn |-> "none", pend |-> <<>>, locks |-> NoLocks,
   observers |-> [o \in Obj |-> "none"], inbox |-> {}]

\* _loadobj.  A missing row fails the assertion on the number of rows and ends the
\* process, and with it its connections.
LoadObject(t) ==
  LET o == Arg(t)
      c == ClientOf[t] IN
  /\ Runs(t, "load")
  /\ IF o \in Visible(thread[t].session).rows
     THEN /\ client' = [client EXCEPT ![c].have = @ \cup {o}]
          /\ Done(t) /\ session' = session
     ELSE /\ client' = [client EXCEPT ![c].dead = TRUE]
          /\ thread' = [u \in Thread |->
               IF ClientOf[u] = c THEN [thread[u] EXCEPT !.code = <<>>, !.tops = <<>>]
               ELSE thread[u]]
          /\ session' = [s \in Session |->
               IF \E u \in Thread : ClientOf[u] = c /\ thread[u].session = s
               THEN NewConnection ELSE session[s]]
  /\ UNCHANGED <<db, bounds>>

\* pg_advisory_lock, and pg_try_advisory_lock, which does not wait.
AdvisoryLock(t) ==
  LET s == thread[t].session
      k == Arg(t)
      mode == Head(thread[t].code)[3] IN
  /\ Runs(t, "lock") \/ Runs(t, "try")
  /\ IF LockBlockers(s, k, mode) = {}
     THEN /\ session' = [session EXCEPT ![s].locks[k][mode] = @ + 1]
          /\ thread' = [thread EXCEPT ![t].code = Rest(t), ![t].mine[k][mode] = @ + 1]
     ELSE Done(t) /\ session' = session
  /\ UNCHANGED <<client, db, bounds>>

AdvisoryUnlock(t) ==
  LET s == thread[t].session
      k == Arg(t)
      mode == Head(thread[t].code)[3] IN
  /\ Runs(t, "unlock")
  /\ session' = [session EXCEPT ![s].locks[k][mode] = IF @ = 0 THEN 0 ELSE @ - 1]
  /\ thread' = [thread EXCEPT ![t].code = Rest(t),
                              ![t].mine[k][mode] = IF @ = 0 THEN 0 ELSE @ - 1]
  /\ UNCHANGED <<client, db, bounds>>

\* The observers of listen and unlisten.
Observe(t) ==
  LET s == thread[t].session
      o == Arg(t) IN
  /\ \/ First(t, "observe") /\ session' = [session EXCEPT ![s].observers[o] = "live"]
                            /\ Done(t)
     \/ First(t, "delete") /\ session' = [session EXCEPT ![s].observers[o] = "deleted"]
                           /\ Done(t)
     \/ First(t, "listening") /\ session' = session
          /\ thread' = [thread EXCEPT ![t].code = Rest(t), ![t].listening = @ \cup {o}]
     \/ First(t, "quiet") /\ session' = session
          /\ thread' = [thread EXCEPT ![t].code = Rest(t), ![t].listening = @ \ {o},
                                      ![t].due = @ \ {o}]
  /\ UNCHANGED <<client, db, bounds>>

\* get_notifs, once (process_notifications) or until the event is signalled
\* (wait_notification).
GetNotifs(t) ==
  LET s == thread[t].session
      signalled == {o \in session[s].inbox : session[s].observers[o] = "live"} IN
  /\ First(t, "poll") \/ First(t, "wait")
  /\ session[s].inbox # {} \/ First(t, "poll")
  /\ session' = [session EXCEPT ![s].inbox = {}]
  /\ thread' = [thread EXCEPT ![t].due = @ \ signalled,
       ![t].code = IF First(t, "wait") /\ Arg(t) \notin signalled THEN @ ELSE Rest(t)]
  /\ UNCHANGED <<client, db, bounds>>

\* The transaction after an exception has left the scopes tops: a toplevel scope
\* commits, which rolls back what failed; a conversion aborts.
Unwound(txn, tops, gaveUp) ==
  IF gaveUp THEN "aborted"
  ELSE IF Contains(tops, TRUE) THEN "none"
  ELSE IF txn = "open" THEN "failed" ELSE txn

\* A statement throws: in a transaction that has failed or was aborted, as the
\* victim of a deadlock, because it is wrong, or for a reason outside the model.
\* critical_section leaves cs; nothing leaves the global monitor.
StatementFails(t) ==
  LET s == thread[t].session
      c == ClientOf[t]
      step == Head(thread[t].code)
      wrong == \/ session[s].txn # "open"
               \/ step[1] = "dropTrigger"
               \/ step[1] = "root" /\ ~RootFits(s)
               \/ InDeadlock(t) IN
  /\ \E what \in SqlSteps : First(t, what)
  /\ wrong \/ faults < MaxFaults[menu]
  /\ faults' = IF wrong THEN faults ELSE faults + 1
  /\ session' = [session EXCEPT
       ![s].txn = Unwound(@, thread[t].tops, Contains(thread[t].code, <<"abandon">>)),
       ![s].pend = <<>>]
  /\ client' = [client EXCEPT ![c].cs = IF @ = t THEN None ELSE @]
  /\ thread' = [thread EXCEPT ![t].code = <<>>, ![t].tops = <<>>]
  /\ UNCHANGED <<db, calls, menu>>

-----------------------------------------------------------------------------

\* What thread t may call next, in each menu.
LockCalls ==
  UNION {{SessionLock(k, m), SessionTry(k, m), SessionUnlock(k, m)} : k \in LockId, m \in Modes}

\* An object t can name: in its client's memory and stored or its own new one, or
\* not persistent in any client.
Known(t, o) ==
  LET have(c) == o \in client[c].have IN
  \/ have(ClientOf[t]) /\ o \in db.rows \cup thread[t].fresh
  \/ o \notin db.rows /\ \A d \in Client : ~have(d)

DictionaryCalls(t) ==
  {Put(t, n, o) : n \in Name, o \in {x \in Obj : Known(t, x)}}
    \cup {Get(n) : n \in Name} \cup {Del(n) : n \in Name}
    \cup {Convert, <<<<"rollback">>>>} \cup (IF menu = "monitors" THEN {NewDictionary} ELSE {})
    \cup {Commit(o) : o \in thread[t].fresh}

RootCalls == {CommitRoot, Convert, <<<<"rollback">>>>}

NotifyCalls(t) ==
  LET s == thread[t].session IN
  IF s = None THEN {}
  ELSE {Listen(s, o) : o \in Stored} \cup {Commit(o) : o \in Stored}
         \cup {<<<<"poll">>>>} \cup {<<<<"wait", o>>>> : o \in thread[t].listening}
         \cup {Unlisten(s, o) : o \in {x \in Stored : session[s].observers[x] # "deleted"}}

Calls(t) ==
  CASE menu = "locks"                      -> LockCalls
    [] menu \in {"dictionary", "monitors"} -> DictionaryCalls(t)
    [] menu = "root"                       -> RootCalls
    [] menu = "notify"                     -> NotifyCalls(t)

Call(t) ==
  /\ t \in Actors[menu] /\ thread[t].code = <<>> /\ calls < MaxCalls[menu] /\ ~client[ClientOf[t]].dead
  /\ \E code \in Calls(t) :
       thread' = [thread EXCEPT ![t].code = code]
  /\ calls' = calls + 1
  /\ UNCHANGED <<session, client, db, faults, menu>>

Init ==
  /\ thread = [t \in Thread |->
       [session |-> None, code |-> <<>>, tops |-> <<>>,
        mine |-> NoLocks, fresh |-> {}, listening |-> {},
        due |-> {}]]
  /\ session = [s \in Session |-> NewConnection]
  /\ client = [c \in Client |->
       [pool |-> <<>>, owner |-> None, depth |-> 0, cs |-> None, have |-> {}, dead |-> FALSE]]
  /\ db = [entry |-> Entry, rows |-> Stored, rootClass |-> 0, root |-> FALSE,
           triggers |-> {}, converted |-> FALSE]
  /\ calls = 0 /\ faults = 0
  /\ menu \in Menus

Step(t) ==
  \/ Start(t) \/ End(t) \/ Abandon(t) \/ RollbackTransaction(t)
  \/ LockGlobal(t) \/ UnlockGlobal(t) \/ Enter(t) \/ Leave(t)
  \/ Write(t) \/ SelectClass(t) \/ NewOid(t) \/ HashGet(t) \/ LoadObject(t)
  \/ AdvisoryLock(t) \/ AdvisoryUnlock(t) \/ Observe(t) \/ GetNotifs(t)
  \/ StatementFails(t)

Next == \E t \in Thread : Attach(t) \/ Detach(t) \/ Call(t) \/ Step(t)

Spec == Init /\ [][Next]_vars

\* Threads are scheduled and statements that can run do; no thread has to end or
\* to make another call.
Fairness == \A t \in Thread : WF_vars(Attach(t) \/ Step(t))

FairSpec == Spec /\ Fairness

-----------------------------------------------------------------------------
(* Properties                                                              *)

\* session_lock excludes: while a thread has been granted an exclusive lock and
\* not unlocked it, no other live thread holds the lock in any mode.
LocksExclude ==
  \A t, u \in Thread, k \in LockId, m \in Modes :
    t # u /\ thread[t].mine[k]["exclusive"] > 0 => thread[u].mine[k][m] = 0

\* What session_lock granted to a thread is still held by its session, so
\* session_unlock finds it, whatever fails in between.
LocksAreKept ==
  \A t \in Thread, k \in LockId, m \in Modes :
    thread[t].mine[k][m] > 0 =>
      session[thread[t].session].locks[k][m] >= thread[t].mine[k][m]

\* The global monitor and cs are taken in one order: no thread inside cs waits for
\* the monitor while its holder waits for cs.
NoCircularWait ==
  \A c \in Client : \A t \in Thread :
    client[c].cs = t /\ client[c].owner \notin {None, t} =>
      ~(First(t, "start") /\ session[thread[t].session].txn = "none")

\* A conversion that gave up never reaches the database, whatever the thread, or
\* the one that inherits its session, does afterwards.
FailedConversionLeavesNothing == ~db.converted

\* The table root_class has one row when the root has one and none before, with
\* two clients creating the root at once: load and commit assert it.
OneRootClass == db.rootClass = IF db.root THEN 1 ELSE 0

\* An update committed while a thread listens signals its event at the next
\* get_notifs; but for a thread that listens again after unlisten, whose observer
\* was deleted and never erased.
UpdateIsAnnounced ==
  \A t \in Thread : \A o \in thread[t].due :
    \/ o \in session[thread[t].session].inbox
    \/ session[thread[t].session].observers[o] = "deleted"

\* load answers for an object without a row, it does not end the client.
MissingObjectIsReported == \A c \in Client : ~client[c].dead

\* Every call returns or throws, unless it waits for an advisory lock or a
\* notification, or a failed put has left the global monitor locked.
CallEnds ==
  \A t \in Thread :
    thread[t].code # <<>> ~>
      \/ thread[t].code = <<>> \/ First(t, "lock") \/ First(t, "wait")
      \/ \E u \in Thread : client[ClientOf[t]].owner = u /\ thread[u].code = <<>>
=============================================================================
