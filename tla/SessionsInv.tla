----------------------------- MODULE SessionsInv ------------------------------
(***************************************************************************)
(* The inductive invariant of Sessions.                                    *)
(*                                                                         *)
(* What is left of a call is followed from mark to mark: a mark says where *)
(* a thread is (how many scopes it is in, whether it is inside cs, what    *)
(* its transaction still owes), Fits says which step may be done at a mark *)
(* and what mark follows it, and Path that a list of steps leads from one  *)
(* mark to another.  The invariant has every thread at a mark from which   *)
(* the rest of its call leads to rest, and its session at what the mark    *)
(* owes.                                                                   *)
(***************************************************************************)
EXTENDS Sessions

BareKinds == {"start", "end", "enter", "leave", "class", "lockGlobal", "unlockGlobal", "begin",
              "commit", "rollback", "abandon", "rootClass", "root", "dropTrigger", "convert",
              "poll"}
ObjKinds  == {"load", "write", "trigger", "observe", "delete", "erase", "listening", "quiet",
              "wait"}

\* The steps a call is made of.
Steps == {<<k>> : k \in BareKinds} \cup (ObjKinds \X Obj) \cup ({"alloc"} \X (Obj \cup {None}))
         \cup ({"get", "del"} \X Name) \cup ({"put"} \X Name \X Obj)
         \cup ({"lock", "try", "unlock"} \X LockId \X Modes)

ThreadState  == [session: Session \cup {None}, code: Seq(Steps), tops: Seq(BOOLEAN),
                 mine: [LockId -> [Modes -> Nat]], fresh: SUBSET Obj,
                 listening: SUBSET Obj, due: SUBSET Obj]
SessionState == [txn: {"none", "open", "failed", "aborted"}, pend: Seq(Steps),
                 locks: [LockId -> [Modes -> Nat]],
                 observers: [Obj -> {"none", "live", "deleted"}], inbox: SUBSET Obj]
ClientState  == [pool: Seq(Session), owner: Thread \cup {None}, depth: Int,
                 cs: Thread \cup {None}, have: SUBSET Obj, dead: BOOLEAN]
Database     == [entry: [Name -> Obj \cup {None}], rows: SUBSET Obj, rootClass: Nat,
                 root: BOOLEAN, triggers: SUBSET Obj, converted: BOOLEAN]

TypeOK ==
  /\ thread \in [Thread -> ThreadState] /\ session \in [Session -> SessionState]
  /\ client \in [Client -> ClientState] /\ db \in Database
  /\ calls \in Nat /\ faults \in Nat /\ menu \in Menus

-----------------------------------------------------------------------------
(* Marks and paths                                                         *)

\* Where a thread is in a call: the scopes of autocommit it is in, whether it is
\* inside cs, between begin and commit, between the class and the row of the
\* root, or in a conversion; the objects whose trigger its scope has created,
\* and those its session has no observer for.
Mark ==
  {m \in [depth: Nat, held: BOOLEAN, begun: BOOLEAN, owed: BOOLEAN, lost: BOOLEAN,
          armed: SUBSET Obj, none: SUBSET Obj] :
     m.held \/ m.owed \/ m.lost \/ m.armed # {} => m.depth >= 1}

AtRest(m) ==
  /\ m.depth = 0 /\ ~m.held /\ ~m.begun /\ ~m.owed /\ ~m.lost /\ m.armed = {}

\* The menus whose calls have a step.
Permitted(mn, st) ==
  /\ st[1] \in {"lock", "try", "unlock"} => mn = "locks"
  /\ st[1] \in {"get", "load"} => mn \in {"dictionary", "monitors"}
  /\ st[1] \in {"rootClass", "root"} => mn = "root"
  /\ st[1] \in {"trigger", "observe", "delete", "erase", "dropTrigger", "listening", "quiet",
                "poll", "wait"} => mn = "notify"

\* Where a step may be done.
Allowed(m, st) ==
  LET k == st[1] IN
  /\ k \in SqlSteps => m.depth >= 1 /\ ~m.lost /\ m.armed = {}
  /\ k = "start" => m.armed = {} /\ ~m.lost
  /\ k = "end" => /\ m.depth >= 1 /\ ~m.lost
                  /\ m.held \/ m.owed => m.depth >= 2
                  /\ m.armed # {} => m.depth = 1 /\ ~m.begun
  /\ k = "begin" => m.depth = 0 /\ ~m.begun
  /\ k = "commit" => m.depth = 0 /\ m.begun
  /\ k = "rollback" => AtRest(m)
  /\ k = "abandon" => m.depth = 1 /\ ~m.held /\ ~m.owed /\ m.armed = {} /\ m.lost
  /\ k = "enter" => m.depth >= 1 /\ ~m.held
  /\ k = "leave" => m.held
  /\ k = "rootClass" => ~m.owed
  /\ k = "root" => m.owed
  /\ k = "convert" => m.depth = 1 /\ ~m.held /\ ~m.owed
  /\ k = "trigger" => m.depth = 1 /\ ~m.begun
  /\ k = "observe" => st[2] \in m.armed /\ st[2] \in m.none
  /\ k = "delete" => m.depth >= 1 /\ m.armed = {}
  /\ k = "listening" => st[2] \notin m.none
  /\ k \in {"listening", "quiet", "poll", "wait"} => m.depth = 0

\* The mark that follows a step.
After(m, st) ==
  LET k == st[1] IN
  [depth |-> IF k = "start" THEN m.depth + 1 ELSE IF k = "end" THEN m.depth - 1
             ELSE IF k = "abandon" THEN 0 ELSE m.depth,
   held  |-> k = "enter" \/ (m.held /\ k # "leave"),
   begun |-> k = "begin" \/ (m.begun /\ k # "commit"),
   owed  |-> k = "rootClass" \/ (m.owed /\ k # "root"),
   lost  |-> k = "convert" \/ (m.lost /\ k # "abandon"),
   armed |-> IF k = "trigger" THEN {st[2]} ELSE IF k = "end" THEN {} ELSE m.armed,
   none  |-> IF k \in {"observe", "delete"} THEN m.none \ {st[2]} ELSE m.none]

Fits(mn, m, st, n) == Permitted(mn, st) /\ Allowed(m, st) /\ n = After(m, st)

\* The steps of code lead from mark a to mark b.
Path(mn, code, a, b) ==
  \E mark \in [1 .. Len(code) + 1 -> Mark] :
    /\ mark[1] = a /\ mark[Len(code) + 1] = b
    /\ \A i \in 1 .. Len(code) : Fits(mn, mark[i], code[i], mark[i + 1])

-----------------------------------------------------------------------------
(* The invariant                                                           *)

RootClasses(s) == Cardinality({i \in DOMAIN session[s].pend : session[s].pend[i] = <<"rootClass">>})
HasRoot(s) == Contains(session[s].pend, <<"root">>)

\* What holds of the transaction of session s for a thread at mark m.
TxnAt(s, m, tops) ==
  /\ session[s].txn = "open" => /\ tops # <<>> \/ m.begun
                                /\ tops # <<>> => tops[1] = ~m.begun
  /\ m.begun => /\ session[s].txn # "none"
                /\ tops # <<>> => ~tops[1]
  /\ Contains(session[s].pend, <<"convert">>) => m.lost
  /\ m.owed /\ session[s].txn = "open" => db.rootClass + RootClasses(s) >= 1
  /\ ~m.owed /\ RootClasses(s) > 0 => HasRoot(s)
  /\ m.armed # {} => session[s].txn = "open"
  /\ \A o \in m.armed : Contains(session[s].pend, <<"trigger", o>>)
  /\ \A o \in Obj : session[s].observers[o] = "live" => o \in db.triggers \cup m.armed

\* A live thread is at a mark from which the rest of its call leads to rest.
ThreadAt(t, m) ==
  /\ m.depth = Len(thread[t].tops) /\ m.held = (client[ClientOf[t]].cs = t)
  /\ \E r \in Mark : AtRest(r) /\ Path(menu, thread[t].code, m, r)
  /\ thread[t].session = None => /\ m.depth = 0 /\ ~m.begun
                                 /\ menu = "notify" => thread[t].code = <<>>
  /\ thread[t].session # None =>
       /\ menu = "notify" => m.none = {o \in Obj : session[thread[t].session].observers[o] = "none"}
       /\ TxnAt(thread[t].session, m, thread[t].tops)

CallInv ==
  \A t \in Thread :
    IF client[ClientOf[t]].dead THEN thread[t].code = <<>> /\ thread[t].tops = <<>>
    ELSE \E m \in Mark : ThreadAt(t, m)

\* A session belongs to one thread or to one place in one pool.
OwnInv ==
  /\ \A t, u \in Thread : t # u /\ thread[t].session # None => thread[u].session # thread[t].session
  /\ \A t \in Thread, c \in Client : ~Contains(client[c].pool, thread[t].session)
  /\ \A c, d \in Client : \A i \in DOMAIN client[c].pool, j \in DOMAIN client[d].pool :
       client[c].pool[i] = client[d].pool[j] => c = d /\ i = j
  /\ \A c \in Client : client[c].cs # None => ClientOf[client[c].cs] = c

\* The transaction of a session and the scopes of its thread.
TxnInv ==
  /\ \A s \in Session : session[s].pend # <<>> => session[s].txn = "open"
  /\ \A s \in Session : session[s].txn = "open" =>
       \E t \in Thread : thread[t].session = s /\ ~client[ClientOf[t]].dead
  /\ \A t \in Thread : thread[t].tops # <<>> =>
       thread[t].session # None /\ session[thread[t].session].txn # "none"
  /\ \A t \in Thread : \A i \in 1 .. Len(thread[t].tops) : thread[t].tops[i] => i = 1

\* Sessions exclude each other, and each holds what its thread was granted.
LockInv ==
  /\ \A r, s \in Session, k \in LockId, m \in Modes :
       r # s /\ session[r].locks[k]["exclusive"] > 0 => session[s].locks[k][m] = 0
  /\ \A t \in Thread, k \in LockId, m \in Modes : thread[t].mine[k][m] > 0 =>
       /\ menu = "locks" /\ thread[t].session # None
       /\ session[thread[t].session].locks[k][m] >= thread[t].mine[k][m]

\* At most one session is about to commit a row of the root, and its writes fit.
RootInv ==
  /\ db.rootClass = IF db.root THEN 1 ELSE 0
  /\ \A s \in Session : RootClasses(s) <= 1
  /\ \A s \in Session : HasRoot(s) => RootClasses(s) = IF db.root THEN 0 ELSE 1
  /\ \A r, s \in Session : HasRoot(r) /\ HasRoot(s) => r = s

\* Triggers and writes of objects are not pending in two sessions.
TriggerInv ==
  \A r, s \in Session, o, p \in Obj :
    Contains(session[r].pend, <<"trigger", o>>) /\ Contains(session[s].pend, <<"write", p>>) => r = s

\* A thread that listens has an observer, and one that is live has its trigger.
ListenInv ==
  /\ \A t \in Thread : thread[t].due \subseteq thread[t].listening
  /\ \A t \in Thread : \A o \in thread[t].listening :
       /\ menu = "notify" /\ thread[t].session # None
       /\ session[thread[t].session].observers[o] # "none"
  /\ \A s \in Session, o \in Obj : session[s].observers[o] = "live" =>
       \/ o \in db.triggers
       \/ Contains(session[s].pend, <<"trigger", o>>)
  /\ menu # "notify" => \A s \in Session, o \in Obj : session[s].observers[o] = "none"
  /\ \A c \in Client : client[c].dead => menu \in {"dictionary", "monitors"}

Inv == /\ TypeOK /\ OwnInv /\ CallInv /\ TxnInv /\ LockInv /\ RootInv /\ TriggerInv /\ ListenInv
       /\ FailedConversionLeavesNothing /\ UpdateIsAnnounced
===============================================================================
