---------------------------- MODULE SessionsProofs ----------------------------
(***************************************************************************)
(* Proofs about Sessions, for every value of its constants: each action    *)
(* keeps the invariant, and what holds of every behaviour follows from it. *)
(***************************************************************************)
EXTENDS SessionsSteps

-----------------------------------------------------------------------------
(* What a step leaves true                                                 *)

\* The thread u, its session and its client are as they were.
Untouched(u) ==
  /\ menu' = menu
  /\ thread'[u].session = thread[u].session /\ thread'[u].code = thread[u].code
  /\ thread'[u].tops = thread[u].tops
  /\ thread[u].session # None =>
       LET s == thread[u].session IN
       /\ session'[s].txn = session[s].txn /\ session'[s].pend = session[s].pend
       /\ session'[s].observers = session[s].observers
  /\ client'[ClientOf[u]].dead = client[ClientOf[u]].dead
  /\ (client'[ClientOf[u]].cs = u) = (client[ClientOf[u]].cs = u)
  /\ db.rootClass <= db'.rootClass /\ db.triggers \subseteq db'.triggers

LEMMA RootClassesType ==
  ASSUME TypeOK, NEW s \in Session
  PROVE  RootClasses(s) \in Nat
  <1>1. DOMAIN session[s].pend = 1 .. Len(session[s].pend) /\ Len(session[s].pend) \in Nat
    BY LenProperties DEF TypeOK, SessionState
  <1>2. IsFiniteSet(DOMAIN session[s].pend)
    <2>1. IsFiniteSet(1 .. Len(session[s].pend))
      BY <1>1, FS_Interval
    <2> QED BY <1>1, <2>1
  <1> QED BY <1>2, FS_Subset, FS_CardinalityType DEF RootClasses

\* The transaction of s stays as it is.
LEMMA TxnStays ==
  ASSUME TypeOK, TypeOK', NEW s \in Session, NEW m \in Mark, NEW n \in Mark, NEW tops, TxnAt(s, m, tops),
         session'[s].txn = session[s].txn, session'[s].pend = session[s].pend,
         session'[s].observers = session[s].observers,
         db.rootClass <= db'.rootClass, db.triggers \subseteq db'.triggers,
         n.begun = m.begun, n.lost = m.lost, n.owed = m.owed, n.armed = m.armed
  PROVE  TxnAt(s, n, tops)'
  <1>1. RootClasses(s)' = RootClasses(s) /\ HasRoot(s)' = HasRoot(s)
    BY DEF RootClasses, HasRoot
  <1>2. RootClasses(s) \in Nat /\ db.rootClass \in Nat /\ db'.rootClass \in Nat
    BY RootClassesType DEF TypeOK, Database
  <1> QED BY <1>1, <1>2 DEF TxnAt

\* A thread whose session and client are left alone is where it was.
LEMMA UntouchedStays ==
  ASSUME TypeOK, TypeOK', NEW u \in Thread, Untouched(u), NEW m \in Mark, ThreadAt(u, m)
  PROVE  ThreadAt(u, m)'
  <1> DEFINE s == thread[u].session
  <1>1. /\ thread'[u].session = s /\ thread'[u].code = thread[u].code /\ thread'[u].tops = thread[u].tops
        /\ menu' = menu /\ (client'[ClientOf[u]].cs = u) = (client[ClientOf[u]].cs = u)
    BY DEF Untouched
  <1>2. s \in Session \cup {None}
    BY StateTypes
  <1>3. m.depth = Len(thread'[u].tops) /\ m.held = (client'[ClientOf[u]].cs = u)
    BY <1>1 DEF ThreadAt
  <1>4. \E r \in Mark : AtRest(r) /\ Path(menu', thread'[u].code, m, r)
    BY <1>1 DEF ThreadAt
  <1>5. s = None => /\ m.depth = 0 /\ ~m.begun
                    /\ menu' = "notify" => thread'[u].code = <<>>
    BY <1>1 DEF ThreadAt
  <1>6. s # None => /\ menu' = "notify" => m.none = {o \in Obj : session'[s].observers[o] = "none"}
                    /\ TxnAt(s, m, thread[u].tops)'
    <2> SUFFICES ASSUME s # None
                 PROVE  /\ menu' = "notify" => m.none = {o \in Obj : session'[s].observers[o] = "none"}
                        /\ TxnAt(s, m, thread[u].tops)'
      OBVIOUS
    <2>1. /\ session'[s].txn = session[s].txn /\ session'[s].pend = session[s].pend
          /\ session'[s].observers = session[s].observers
          /\ db.rootClass <= db'.rootClass /\ db.triggers \subseteq db'.triggers
      BY DEF Untouched
    <2>2. /\ menu = "notify" => m.none = {o \in Obj : session[s].observers[o] = "none"}
          /\ TxnAt(s, m, thread[u].tops)
      BY DEF ThreadAt
    <2>3. TxnAt(s, m, thread[u].tops)'
      BY <1>1, <1>2, <2>1, <2>2, TxnStays
    <2> QED BY <1>1, <2>1, <2>2, <2>3
  <1> QED BY <1>1, <1>3, <1>4, <1>5, <1>6 DEF ThreadAt

\* A step of t that leaves the other threads alone leaves each at its mark.
LEMMA CallsStay ==
  ASSUME TypeOK, TypeOK', CallInv, NEW t \in Thread, \A u \in Thread \ {t} : Untouched(u),
         IF client'[ClientOf[t]].dead THEN thread'[t].code = <<>> /\ thread'[t].tops = <<>>
         ELSE \E m \in Mark : ThreadAt(t, m)'
  PROVE  CallInv'
  <1> SUFFICES ASSUME NEW u \in Thread
               PROVE  IF client'[ClientOf[u]].dead THEN thread'[u].code = <<>> /\ thread'[u].tops = <<>>
                      ELSE \E m \in Mark : ThreadAt(u, m)'
    BY DEF CallInv
  <1>1. CASE u = t
    BY <1>1
  <1>2. CASE u # t
    <2>1. Untouched(u)
      BY <1>2
    <2>2. CASE client[ClientOf[u]].dead
      BY <2>1, <2>2 DEF CallInv, Untouched
    <2>3. CASE ~client[ClientOf[u]].dead
      <3>1. PICK m \in Mark : ThreadAt(u, m)
        BY <2>3 DEF CallInv
      <3>2. ThreadAt(u, m)' /\ ~client'[ClientOf[u]].dead
        BY <2>1, <2>3, <3>1, UntouchedStays DEF Untouched
      <3> QED BY <3>2
    <2> QED BY <2>2, <2>3
  <1> QED BY <1>1, <1>2

LEMMA QuietUntouched ==
  ASSUME TypeOK, OwnInv, NEW t \in Thread, Quiet(t)
  PROVE  \A u \in Thread \ {t} : Untouched(u)
  <1> SUFFICES ASSUME NEW u \in Thread \ {t} PROVE Untouched(u)
    OBVIOUS
  <1>1. /\ thread'[u].session = thread[u].session /\ thread'[u].code = thread[u].code
        /\ thread'[u].tops = thread[u].tops /\ menu' = menu /\ db' = db
    BY DEF Quiet, KeepsThreads
  <1>2. thread[u].session # None =>
          /\ thread[u].session \in Session /\ thread[u].session # thread[t].session
    BY StateTypes DEF OwnInv
  <1>3. ClientOf[u] \in Client /\ None \notin Thread
    BY SessionAssumption
  <1>4. /\ client'[ClientOf[u]].dead = client[ClientOf[u]].dead
        /\ (client'[ClientOf[u]].cs = u) = (client[ClientOf[u]].cs = u)
    BY <1>3 DEF Quiet, KeepsClients
  <1>5. db.rootClass \in Nat
    BY DEF TypeOK, Database
  <1> QED BY <1>1, <1>2, <1>4, <1>5 DEF Untouched, Quiet, KeepsSessions

\* What a quiet step keeps whatever it does to the transaction.
LEMMA QuietKeeps ==
  ASSUME Inv, NEW t \in Thread, Quiet(t)
  PROVE  OwnInv' /\ LockInv' /\ FailedConversionLeavesNothing' /\ UpdateIsAnnounced'
  <1> USE DEF Inv
  <1>1. /\ \A u \in Thread : /\ thread'[u].session = thread[u].session /\ thread'[u].mine = thread[u].mine
                             /\ thread'[u].listening = thread[u].listening /\ thread'[u].due = thread[u].due
        /\ \A s \in Session : /\ session'[s].locks = session[s].locks
                              /\ session'[s].observers = session[s].observers
                              /\ session'[s].inbox = session[s].inbox
        /\ \A c \in Client : client'[c].pool = client[c].pool
        /\ db' = db /\ menu' = menu
    BY DEF Quiet, KeepsThreads, KeepsSessions, KeepsClients
  <1>2. OwnInv'
    <2>1. \A c \in Client : client'[c].cs # None => ClientOf[client'[c].cs] = c
      BY DEF OwnInv, Quiet, KeepsClients
    <2> QED BY <1>1, <2>1 DEF OwnInv
  <1>3. \A u \in Thread : thread[u].session \in Session \cup {None}
    BY StateTypes
  <1>4. LockInv'
    BY <1>1, <1>3 DEF LockInv
  <1>5. FailedConversionLeavesNothing'
    BY <1>1 DEF FailedConversionLeavesNothing
  <1>6. UpdateIsAnnounced'
    <2> SUFFICES ASSUME NEW u \in Thread, NEW o \in thread[u].due
                 PROVE  \/ o \in session'[thread[u].session].inbox
                        \/ session'[thread[u].session].observers[o] = "deleted"
      BY <1>1 DEF UpdateIsAnnounced
    <2>1. thread[u].session \in Session
      <3>1. o \in thread[u].listening
        BY DEF ListenInv
      <3> QED BY <1>3, <3>1 DEF ListenInv
    <2> QED BY <1>1, <2>1 DEF UpdateIsAnnounced
  <1> QED BY <1>2, <1>4, <1>5, <1>6

LEMMA QuietTxn ==
  ASSUME Inv, NEW t \in Thread, Quiet(t), ~client[ClientOf[t]].dead,
         thread[t].session # None =>
           (session'[thread[t].session].pend # <<>> => session'[thread[t].session].txn = "open"),
         thread'[t].tops # <<>> => /\ thread[t].session # None
                                   /\ session'[thread[t].session].txn # "none",
         \A i \in 1 .. Len(thread'[t].tops) : thread'[t].tops[i] => i = 1
  PROVE  TxnInv'
  <1> DEFINE q == thread[t].session
  <1>1. /\ \A u \in Thread : thread'[u].session = thread[u].session
        /\ \A u \in Thread \ {t} : thread'[u].tops = thread[u].tops
        /\ \A s \in Session \ {q} : session'[s].txn = session[s].txn /\ session'[s].pend = session[s].pend
    BY DEF Quiet, KeepsThreads, KeepsSessions
  <1>2. \A u \in Thread : /\ thread[u].session \in Session \cup {None}
                          /\ client'[ClientOf[u]].dead = client[ClientOf[u]].dead
    BY StateTypes, SessionAssumption DEF Inv, Quiet, KeepsClients
  <1>3. \A s \in Session : session'[s].pend # <<>> => session'[s].txn = "open"
    <2> TAKE s \in Session
    <2>1. CASE s = q
      <3>1. q # None
        BY <2>1, SessionAssumption
      <3> QED BY <2>1, <3>1
    <2>2. CASE s # q
      BY <1>1, <2>2 DEF Inv, TxnInv
    <2> QED BY <2>1, <2>2
  <1>4. \A s \in Session : session'[s].txn = "open" =>
          \E u \in Thread : thread'[u].session = s /\ ~client'[ClientOf[u]].dead
    <2> TAKE s \in Session
    <2>1. CASE s = q
      BY <1>1, <1>2, <2>1
    <2>2. CASE s # q
      BY <1>1, <1>2, <2>2 DEF Inv, TxnInv
    <2> QED BY <2>1, <2>2
  <1>5. \A u \in Thread : thread'[u].tops # <<>> =>
          thread'[u].session # None /\ session'[thread'[u].session].txn # "none"
    <2> TAKE u \in Thread
    <2>1. CASE u = t
      BY <1>1, <2>1
    <2>2. CASE u # t
      <3> SUFFICES ASSUME thread'[u].tops # <<>>
                   PROVE  thread'[u].session # None /\ session'[thread'[u].session].txn # "none"
        OBVIOUS
      <3>1. thread[u].session # None /\ session[thread[u].session].txn # "none"
        BY <1>1, <2>2 DEF Inv, TxnInv
      <3>2. thread[u].session \in Session \ {q}
        BY <1>2, <2>2, <3>1 DEF Inv, OwnInv
      <3> QED BY <1>1, <3>1, <3>2
    <2> QED BY <2>1, <2>2
  <1>6. \A u \in Thread : \A i \in 1 .. Len(thread'[u].tops) : thread'[u].tops[i] => i = 1
    BY <1>1 DEF Inv, TxnInv
  <1> QED BY <1>3, <1>4, <1>5, <1>6 DEF TxnInv

LEMMA QuietListen ==
  ASSUME Inv, NEW t \in Thread, Quiet(t),
         thread[t].session \in Session => \A o \in Obj :
           /\ session[thread[t].session].observers[o] = "live"
           /\ Contains(session[thread[t].session].pend, <<"trigger", o>>)
           => o \in db.triggers \/ Contains(session'[thread[t].session].pend, <<"trigger", o>>)
  PROVE  ListenInv'
  <1>1. /\ \A u \in Thread : /\ thread'[u].session = thread[u].session
                             /\ thread'[u].listening = thread[u].listening /\ thread'[u].due = thread[u].due
        /\ \A s \in Session : session'[s].observers = session[s].observers
        /\ \A s \in Session \ {thread[t].session} : session'[s].pend = session[s].pend
        /\ \A c \in Client : client'[c].dead = client[c].dead
        /\ db' = db /\ menu' = menu
    BY DEF Quiet, KeepsThreads, KeepsSessions, KeepsClients
  <1>2. \A u \in Thread : thread[u].session \in Session \cup {None}
    BY StateTypes DEF Inv
  <1>3. \A s \in Session, o \in Obj : session'[s].observers[o] = "live" =>
          o \in db'.triggers \/ Contains(session'[s].pend, <<"trigger", o>>)
    <2> TAKE s \in Session, o \in Obj
    <2> SUFFICES ASSUME session[s].observers[o] = "live"
                 PROVE  o \in db.triggers \/ Contains(session'[s].pend, <<"trigger", o>>)
      BY <1>1
    <2>1. o \in db.triggers \/ Contains(session[s].pend, <<"trigger", o>>)
      BY DEF Inv, ListenInv
    <2>2. CASE s = thread[t].session
      BY <2>1, <2>2
    <2>3. CASE s # thread[t].session
      BY <1>1, <2>1, <2>3
    <2> QED BY <2>2, <2>3
  <1>4. \A u \in Thread : thread'[u].due \subseteq thread'[u].listening
    BY <1>1 DEF Inv, ListenInv
  <1>5. \A u \in Thread : \A o \in thread'[u].listening :
          /\ menu' = "notify" /\ thread'[u].session # None
          /\ session'[thread'[u].session].observers[o] # "none"
    BY <1>1, <1>2 DEF Inv, ListenInv
  <1>6. /\ menu' # "notify" => \A s \in Session, o \in Obj : session'[s].observers[o] = "none"
        /\ \A c \in Client : client'[c].dead => menu' \in {"dictionary", "monitors"}
    BY <1>1 DEF Inv, ListenInv
  <1> QED BY <1>3, <1>4, <1>5, <1>6 DEF ListenInv

LEMMA Nothing ==
  ASSUME NEW x
  PROVE  /\ ~Contains(<<>>, x)
         /\ Cardinality({i \in DOMAIN <<>> : <<>>[i] = x}) = 0
  <1>1. ~Contains(<<>>, x)
    BY DEF Contains
  <1>2. {i \in DOMAIN <<>> : <<>>[i] = x} = {}
    OBVIOUS
  <1> QED BY <1>1, <1>2, FS_EmptySet

\* Transactions that lose their writes harm no other.
LEMMA ShrinkKeeps ==
  ASSUME TypeOK, RootInv, TriggerInv, db' = db,
         \A s \in Session : session'[s].pend \in {session[s].pend, <<>>}
  PROVE  RootInv' /\ TriggerInv'
  <1>1. \A s \in Session : /\ RootClasses(s)' \in {RootClasses(s), 0}
                           /\ HasRoot(s)' => HasRoot(s) /\ RootClasses(s)' = RootClasses(s)
    BY Nothing DEF RootClasses, HasRoot
  <1>2. RootInv'
    BY <1>1 DEF RootInv
  <1>3. \A s \in Session, x \in Steps : Contains(session'[s].pend, x) => Contains(session[s].pend, x)
    BY Nothing
  <1>4. \A o \in Obj : <<"trigger", o>> \in Steps /\ <<"write", o>> \in Steps
    <2>1. "trigger" \in ObjKinds /\ "write" \in ObjKinds
      BY DEF ObjKinds
    <2> QED BY <2>1, StepsHave
  <1>5. TriggerInv'
    BY <1>3, <1>4 DEF TriggerInv
  <1> QED BY <1>2, <1>5

\* A thread that has done its first step is at the mark after it.
LEMMA OwnStep ==
  ASSUME TypeOK, NEW t \in Thread, NEW n \in Mark, NEW s, NEW tops,
         menu' = menu, s = thread[t].session, thread'[t].session = s, thread'[t].tops = tops,
         \E r \in Mark : AtRest(r) /\ Path(menu, thread'[t].code, n, r),
         n.depth = Len(tops), n.held = (client'[ClientOf[t]].cs = t),
         s = None => n.depth = 0 /\ ~n.begun /\ menu # "notify",
         s # None => /\ menu = "notify" => n.none = {o \in Obj : session'[s].observers[o] = "none"}
                     /\ TxnAt(s, n, tops)'
  PROVE  ThreadAt(t, n)'
  <1>1. thread'[t].session # None =>
          /\ menu' = "notify" => n.none = {o \in Obj : session'[thread'[t].session].observers[o] = "none"}
          /\ TxnAt(thread[t].session, n, thread[t].tops)'
    BY DEF TxnAt, RootClasses, HasRoot
  <1> QED BY <1>1 DEF ThreadAt

-----------------------------------------------------------------------------
(* Every step keeps the invariant                                          *)

\* Steps after which only cs may be held otherwise.
Structural == {"start", "end", "abandon", "begin", "commit", "rootClass", "root", "convert", "trigger",
               "observe", "delete"}

LEMMA PlainAfter ==
  ASSUME NEW m \in Mark, NEW st, st[1] \notin Structural
  PROVE  LET n == After(m, st) IN
         /\ n.depth = m.depth /\ n.begun = m.begun /\ n.owed = m.owed /\ n.lost = m.lost
         /\ n.armed = m.armed /\ n.none = m.none
         /\ n.held = (st[1] = "enter" \/ (m.held /\ st[1] # "leave"))
  BY MarkFields DEF After, Structural

\* What is known of a thread that does a step at mark m.
LEMMA AtStep ==
  ASSUME Inv, NEW t \in Thread, NEW k, First(t, k), NEW m, StepAt(t, m)
  PROVE  /\ m \in Mark /\ After(m, Head(thread[t].code)) \in Mark /\ Head(thread[t].code)[1] = k
         /\ Head(thread[t].code) \in Steps
         /\ Permitted(menu, Head(thread[t].code)) /\ Allowed(m, Head(thread[t].code))
         /\ m.depth = Len(thread[t].tops) /\ thread[t].tops \in Seq(BOOLEAN)
         /\ m.held = (client[ClientOf[t]].cs = t)
         /\ thread[t].session = None => m.depth = 0 /\ ~m.begun /\ menu # "notify"
         /\ thread[t].session # None =>
              /\ thread[t].session \in Session /\ TxnAt(thread[t].session, m, thread[t].tops)
              /\ menu = "notify" => m.none = {o \in Obj : session[thread[t].session].observers[o] = "none"}
         /\ \E r \in Mark : AtRest(r) /\ Path(menu, Rest(t), After(m, Head(thread[t].code)), r)
         /\ ~client[ClientOf[t]].dead /\ ClientOf[t] \in Client
  <1>1. /\ Head(thread[t].code)[1] = k /\ Head(thread[t].code) \in Steps /\ thread[t].code # <<>>
        /\ ~client[ClientOf[t]].dead /\ ClientOf[t] \in Client
    BY FirstStep DEF Inv
  <1>2. /\ m \in Mark /\ ThreadAt(t, m) /\ After(m, Head(thread[t].code)) \in Mark
        /\ Permitted(menu, Head(thread[t].code)) /\ Allowed(m, Head(thread[t].code))
        /\ \E r \in Mark : AtRest(r) /\ Path(menu, Rest(t), After(m, Head(thread[t].code)), r)
    BY DEF StepAt
  <1>3. thread[t].tops \in Seq(BOOLEAN) /\ thread[t].session \in Session \cup {None}
    BY StateTypes DEF ThreadState, Inv
  <1> QED BY <1>1, <1>2, <1>3 DEF ThreadAt

LEMMA PlainKeeps ==
  ASSUME Inv, TypeOK', NEW t \in Thread, NEW k, First(t, k), k \notin Structural, NEW m, StepAt(t, m),
         Quiet(t), session' = session, thread'[t].tops = thread[t].tops,
         After(m, Head(thread[t].code)).held = (client'[ClientOf[t]].cs = t),
         \E r \in Mark : AtRest(r) /\ Path(menu, thread'[t].code, After(m, Head(thread[t].code)), r)
  PROVE  Inv'
  <1>1. PICK s, tops, n : /\ s = thread[t].session /\ tops = thread[t].tops
                          /\ n = After(m, Head(thread[t].code))
    OBVIOUS
  <1>2. /\ m \in Mark /\ n \in Mark /\ Head(thread[t].code)[1] = k /\ m.depth = Len(tops)
        /\ ~client[ClientOf[t]].dead
        /\ s = None => m.depth = 0 /\ ~m.begun /\ menu # "notify"
        /\ s # None => /\ s \in Session /\ TxnAt(s, m, tops)
                       /\ menu = "notify" => m.none = {o \in Obj : session[s].observers[o] = "none"}
    BY <1>1, AtStep
  <1>3. /\ n.depth = m.depth /\ n.begun = m.begun /\ n.owed = m.owed /\ n.lost = m.lost
        /\ n.armed = m.armed /\ n.none = m.none
    BY <1>1, <1>2, PlainAfter
  <1>4. /\ thread'[t].session = s /\ menu' = menu /\ db' = db
    BY <1>1 DEF Quiet, KeepsThreads
  <1>5. s # None => TxnAt(s, n, tops)'
    <2>1. db.rootClass \in Nat
      BY DEF Inv, TypeOK, Database
    <2> QED BY <1>2, <1>3, <1>4, <2>1, TxnStays DEF Inv
  <1>6. ThreadAt(t, n)'
    <2>1. s # None => /\ menu = "notify" => n.none = {o \in Obj : session'[s].observers[o] = "none"}
                      /\ TxnAt(s, n, tops)'
      BY <1>2, <1>3, <1>5
    <2> QED BY <1>1, <1>2, <1>3, <1>4, <2>1, OwnStep DEF Inv
  <1>7. CallInv'
    <2>1. ~client'[ClientOf[t]].dead
      BY <1>2, SessionAssumption DEF Quiet, KeepsClients
    <2> QED BY <1>2, <1>6, <2>1, QuietUntouched, CallsStay DEF Inv
  <1>8. TxnInv'
    <2>1. /\ s # None => (session'[s].pend # <<>> => session'[s].txn = "open")
          /\ thread'[t].tops # <<>> => s # None /\ session'[s].txn # "none"
          /\ \A i \in 1 .. Len(thread'[t].tops) : thread'[t].tops[i] => i = 1
      BY <1>1, <1>2 DEF Inv, TxnInv
    <2> QED BY <1>1, <1>2, <2>1, QuietTxn
  <1>9. ListenInv'
    BY QuietListen
  <1>10. RootInv' /\ TriggerInv'
    BY <1>4, ShrinkKeeps DEF Inv
  <1> QED BY <1>7, <1>8, <1>9, <1>10, QuietKeeps DEF Inv

LEMMA MonitorsKeep ==
  ASSUME Inv, NEW t \in Thread, LockGlobal(t) \/ UnlockGlobal(t) \/ Enter(t) \/ Leave(t)
  PROVE  Inv'
  <1>1. PICK k \in {"lockGlobal", "unlockGlobal", "enter", "leave"} : First(t, k)
    BY DEF LockGlobal, UnlockGlobal, Enter, Leave
  <1>2. PICK m \in Mark : StepAt(t, m)
    BY <1>1, StepMark DEF Inv
  <1>3. /\ Head(thread[t].code)[1] = k /\ Allowed(m, Head(thread[t].code))
        /\ m.held = (client[ClientOf[t]].cs = t)
        /\ \E r \in Mark : AtRest(r) /\ Path(menu, Rest(t), After(m, Head(thread[t].code)), r)
    BY <1>1, <1>2, AtStep
  <1>4. First(t, "leave") => client[ClientOf[t]].cs = t
    BY <1>3 DEF First, Allowed
  <1>5. /\ TypeOK' /\ Quiet(t) /\ thread'[t].code = Rest(t) /\ thread'[t].tops = thread[t].tops
        /\ session' = session
        /\ client'[ClientOf[t]].cs = IF First(t, "enter") THEN t ELSE IF First(t, "leave") THEN None
                                     ELSE client[ClientOf[t]].cs
    BY <1>4, MonitorsEffect DEF Inv
  <1>6. /\ (First(t, "enter") <=> k = "enter") /\ (First(t, "leave") <=> k = "leave") /\ k \notin Structural
    BY <1>1 DEF First, Structural
  <1>7. After(m, Head(thread[t].code)).held = (k = "enter" \/ (m.held /\ k # "leave"))
    BY <1>2, <1>3, <1>6, PlainAfter
  <1>8. After(m, Head(thread[t].code)).held = (client'[ClientOf[t]].cs = t)
    <2>1. t # None
      BY SessionAssumption
    <2>2. CASE k = "enter"
      BY <1>5, <1>6, <1>7, <2>2
    <2>3. CASE k = "leave"
      BY <1>5, <1>6, <1>7, <2>1, <2>3
    <2>4. CASE k \notin {"enter", "leave"}
      BY <1>3, <1>5, <1>6, <1>7, <2>4
    <2> QED BY <2>2, <2>3, <2>4
  <1> QED BY <1>1, <1>2, <1>3, <1>5, <1>6, <1>8, PlainKeeps

\* Statements that read.
LEMMA ReadsKeep ==
  ASSUME Inv, NEW t \in Thread, SelectClass(t) \/ NewOid(t)
  PROVE  Inv'
  <1>1. PICK k \in {"class", "alloc"} :
          /\ First(t, k) /\ TypeOK' /\ Quiet(t) /\ thread'[t].code = Rest(t)
          /\ thread'[t].tops = thread[t].tops /\ session' = session
          /\ client'[ClientOf[t]].cs = client[ClientOf[t]].cs
    <2>1. CASE SelectClass(t)
      BY <2>1, SelectClassEffect DEF Inv
    <2>2. CASE NewOid(t)
      BY <2>2, NewOidEffect DEF Inv
    <2> QED BY <2>1, <2>2
  <1>2. PICK m \in Mark : StepAt(t, m)
    BY <1>1, StepMark DEF Inv
  <1>3. /\ Head(thread[t].code)[1] = k /\ m.held = (client[ClientOf[t]].cs = t)
        /\ \E r \in Mark : AtRest(r) /\ Path(menu, Rest(t), After(m, Head(thread[t].code)), r)
    BY <1>1, <1>2, AtStep
  <1>4. k \notin Structural /\ After(m, Head(thread[t].code)).held = m.held
    BY <1>2, <1>3, PlainAfter DEF Structural
  <1> QED BY <1>1, <1>2, <1>3, <1>4, PlainKeeps

LEMMA HashGetKeeps ==
  ASSUME Inv, NEW t \in Thread, HashGet(t)
  PROVE  Inv'
  <1>1. /\ TypeOK' /\ Quiet(t) /\ session' = session /\ client' = client /\ First(t, "get")
        /\ thread'[t].tops = thread[t].tops
        /\ \/ thread'[t].code = Rest(t)
           \/ \E o \in Obj : thread'[t].code = Rest(t) \o Load(o)
    BY HashGetEffect DEF Inv
  <1>2. PICK m \in Mark : StepAt(t, m)
    BY <1>1, StepMark DEF Inv
  <1>3. PICK n : n = After(m, Head(thread[t].code))
    OBVIOUS
  <1>4. /\ Head(thread[t].code)[1] = "get" /\ m.held = (client[ClientOf[t]].cs = t) /\ n \in Mark
        /\ Permitted(menu, Head(thread[t].code))
        /\ \E r \in Mark : AtRest(r) /\ Path(menu, Rest(t), n, r)
    BY <1>1, <1>2, <1>3, AtStep
  <1>5. "get" \notin Structural /\ n.held = m.held
    BY <1>2, <1>3, <1>4, PlainAfter DEF Structural
  <1>6. PICK r \in Mark : AtRest(r) /\ Path(menu, Rest(t), n, r)
    BY <1>4
  <1>7. Path(menu, thread'[t].code, n, r)
    <2>1. CASE thread'[t].code = Rest(t)
      BY <1>6, <2>1
    <2>2. ASSUME NEW o \in Obj, thread'[t].code = Rest(t) \o Load(o) PROVE Path(menu, thread'[t].code, n, r)
      <3>1. menu \in {"dictionary", "monitors"}
        BY <1>4 DEF Permitted
      <3>2. Loop(menu, Load(o), r)
        BY <1>6, <3>1, LoopLoad DEF AtRest
      <3>3. Rest(t) \in Seq(Steps)
        BY <1>1, FirstStep DEF Inv
      <3> QED BY <1>4, <1>6, <2>2, <3>2, <3>3, PathConcat DEF Loop
    <2> QED BY <1>1, <2>1, <2>2
  <1> QED BY <1>1, <1>2, <1>3, <1>4, <1>5, <1>6, <1>7, PlainKeeps

LEMMA CallKeeps ==
  ASSUME Inv, NEW t \in Thread, Call(t)
  PROVE  Inv'
  <1>1. ~client[ClientOf[t]].dead /\ thread[t].code = <<>> /\ \E code : code \in Calls(t)
    BY DEF Call
  <1>2. PICK a \in Mark : ThreadAt(t, a)
    BY <1>1 DEF Inv, CallInv
  <1>3. PICK s, tops : s = thread[t].session /\ tops = thread[t].tops
    OBVIOUS
  <1>4. AtRest(a)
    <2>1. PICK r \in Mark : AtRest(r) /\ Path(menu, <<>>, a, r)
      BY <1>1, <1>2 DEF ThreadAt
    <2> QED BY <2>1, PathNil
  <1>5. s = None => menu # "notify"
    BY <1>1, <1>3, Zenon DEF Calls, NotifyCalls
  <1>6. CallsFrom(t, a)
    BY <1>2, <1>3, <1>4, <1>5 DEF CallsFrom, ThreadAt
  <1>7. \A code \in Calls(t) : code \in Seq(Steps) /\ Leads(code, a)
    BY <1>6, CallLeads DEF Inv, Leads
  <1>8. /\ TypeOK' /\ Quiet(t) /\ thread'[t].code \in Calls(t)
        /\ thread'[t].tops = tops /\ session' = session /\ client' = client
    BY <1>3, <1>7, CallEffect DEF Inv
  <1>9. \E r \in Mark : AtRest(r) /\ Path(menu, thread'[t].code, a, r)
    BY <1>7, <1>8 DEF Leads
  <1>10. /\ thread'[t].session = s /\ menu' = menu /\ db' = db
    BY <1>3, <1>8 DEF Quiet, KeepsThreads
  <1>11. s # None => TxnAt(s, a, tops)'
    <2>1. db.rootClass \in Nat /\ (s # None => s \in Session)
      BY <1>3, StateTypes DEF Inv, TypeOK, Database
    <2>2. s # None => TxnAt(s, a, tops)
      BY <1>2, <1>3 DEF ThreadAt
    <2> QED BY <1>8, <1>10, <2>1, <2>2, TxnStays DEF Inv
  <1>12. ThreadAt(t, a)'
    <2>1. /\ a.depth = Len(tops) /\ a.held = (client'[ClientOf[t]].cs = t)
          /\ s = None => a.depth = 0 /\ ~a.begun /\ menu # "notify"
          /\ s # None => /\ menu = "notify" => a.none = {o \in Obj : session'[s].observers[o] = "none"}
                         /\ TxnAt(s, a, tops)'
      BY <1>2, <1>3, <1>5, <1>8, <1>11 DEF ThreadAt
    <2> QED BY <1>3, <1>8, <1>9, <1>10, <2>1, OwnStep DEF Inv
  <1>13. CallInv'
    BY <1>1, <1>8, <1>12, QuietUntouched, CallsStay DEF Inv
  <1>14. TxnInv'
    <2>1. /\ s # None => (session'[s].pend # <<>> => session'[s].txn = "open")
          /\ thread'[t].tops # <<>> => s # None /\ session'[s].txn # "none"
          /\ \A i \in 1 .. Len(thread'[t].tops) : thread'[t].tops[i] => i = 1
      <3>1. s # None => s \in Session
        BY <1>3, StateTypes DEF Inv
      <3> QED BY <1>3, <1>8, <3>1 DEF Inv, TxnInv
    <2> QED BY <1>1, <1>3, <1>8, <2>1, QuietTxn
  <1>15. ListenInv'
    BY <1>8, QuietListen
  <1>16. RootInv' /\ TriggerInv'
    BY <1>8, <1>10, ShrinkKeeps DEF Inv
  <1> QED BY <1>8, <1>13, <1>14, <1>15, <1>16, QuietKeeps DEF Inv

LEMMA StartAfter ==
  ASSUME NEW m \in Mark, NEW st, st[1] \in {"start", "begin"}
  PROVE  LET n == After(m, st) IN
         /\ n.depth = IF st[1] = "start" THEN m.depth + 1 ELSE m.depth
         /\ n.held = m.held /\ n.begun = (st[1] = "begin" \/ m.begun) /\ n.owed = m.owed
         /\ n.lost = m.lost /\ n.armed = m.armed /\ n.none = m.none
  BY MarkFields DEF After

LEMMA StartKeeps ==
  ASSUME Inv, NEW t \in Thread, Start(t)
  PROVE  Inv'
  <1>1. PICK s, tops, x : s = thread[t].session /\ tops = thread'[t].tops /\ x = thread[t].tops
    OBVIOUS
  <1>2. PICK k \in {"start", "begin"} :
          /\ First(t, k) /\ TypeOK' /\ Quiet(t) /\ s \in Session /\ client' = client
          /\ thread'[t].code = Rest(t)
          /\ tops = IF k = "begin" THEN x ELSE Append(x, session[s].txn = "none")
          /\ session'[s].txn = IF session[s].txn = "none" THEN "open" ELSE session[s].txn
          /\ session'[s].pend = session[s].pend
    BY <1>1, StartEffect DEF Inv, First
  <1>3. PICK m \in Mark : StepAt(t, m)
    BY <1>2, StepMark DEF Inv
  <1>4. PICK n : n = After(m, Head(thread[t].code))
    OBVIOUS
  <1>5. /\ n \in Mark /\ Head(thread[t].code)[1] = k /\ Allowed(m, Head(thread[t].code))
        /\ m.depth = Len(x) /\ x \in Seq(BOOLEAN) /\ m.held = (client[ClientOf[t]].cs = t)
        /\ TxnAt(s, m, x)
        /\ menu = "notify" => m.none = {o \in Obj : session[s].observers[o] = "none"}
        /\ \E r \in Mark : AtRest(r) /\ Path(menu, Rest(t), n, r)
        /\ ~client[ClientOf[t]].dead /\ ClientOf[t] \in Client /\ s # None
    BY <1>1, <1>2, <1>3, <1>4, AtStep, SessionAssumption
  <1>6. /\ thread'[t].session = s /\ menu' = menu /\ db' = db
        /\ session'[s].observers = session[s].observers
    BY <1>1, <1>2 DEF Quiet, KeepsThreads, KeepsSessions
  <1>7. /\ n.depth = (IF k = "start" THEN m.depth + 1 ELSE m.depth) /\ n.held = m.held
        /\ n.begun = (k = "begin" \/ m.begun) /\ n.owed = m.owed /\ n.lost = m.lost
        /\ n.armed = m.armed /\ n.none = m.none
        /\ k = "start" => m.armed = {} /\ ~m.lost
        /\ k = "begin" => m.depth = 0 /\ ~m.begun
        /\ m.owed \/ m.armed # {} => m.depth >= 1
        /\ m.depth \in Nat
    <2>1. /\ n.depth = (IF k = "start" THEN m.depth + 1 ELSE m.depth)
          /\ n.armed = m.armed /\ n.none = m.none
          /\ n.held = m.held /\ n.begun = (k = "begin" \/ m.begun) /\ n.owed = m.owed /\ n.lost = m.lost
      <3>1. PICK st : st = Head(thread[t].code)
        OBVIOUS
      <3>2. st[1] = k /\ n = After(m, st)
        BY <1>4, <1>5, <3>1
      <3> QED BY <1>2, <3>2, StartAfter
    <2>3. /\ k = "start" => m.armed = {} /\ ~m.lost
          /\ k = "begin" => m.depth = 0 /\ ~m.begun
      BY <1>2, <1>5 DEF Allowed
    <2> QED BY <2>1, <2>3, MarkFields
  <1>8. /\ Len(tops) = n.depth
        /\ k = "start" => /\ tops = Append(x, session[s].txn = "none")
                          /\ tops # <<>> /\ \A i \in 1 .. Len(x) : tops[i] = x[i]
                          /\ tops[Len(x) + 1] = (session[s].txn = "none")
                          /\ Len(tops) = Len(x) + 1
        /\ k = "begin" => tops = <<>>
        /\ Len(x) \in Nat
    <2>1. CASE k = "begin"
      BY <1>2, <1>5, <1>7, <2>1, EmptySeq
    <2>2. CASE k = "start"
      <3> DEFINE top == session[s].txn = "none"
      <3>1. top \in BOOLEAN /\ tops = Append(x, top)
        BY <1>2, <2>2
      <3> HIDE DEF top
      <3>2. /\ Append(x, top) # <<>> /\ \A i \in 1 .. Len(x) : Append(x, top)[i] = x[i]
            /\ Append(x, top)[Len(x) + 1] = top /\ Len(Append(x, top)) = Len(x) + 1 /\ Len(x) \in Nat
        BY <1>5, <3>1, AppendProperties
      <3> QED BY <1>5, <1>7, <2>2, <3>1, <3>2 DEF top
    <2> QED BY <1>2, <2>1, <2>2
  <1>9. /\ x # <<>> => session[s].txn # "none"
        /\ \A i \in 1 .. Len(x) : x[i] => i = 1
        /\ session[s].pend # <<>> => session[s].txn = "open"
    BY <1>1, <1>2 DEF Inv, TxnInv
  <1>10. TxnAt(s, n, tops)'
    <2>1. /\ session'[s].txn = "open" => tops # <<>> \/ n.begun
          /\ session'[s].txn # "none"
      BY <1>2, <1>7, <1>8
    <2>2. /\ session'[s].txn = "open" => (tops # <<>> => tops[1] = ~n.begun)
          /\ n.begun => (tops # <<>> => ~tops[1])
      <3>1. CASE k = "begin"
        BY <1>8, <3>1
      <3>2. CASE k = "start" /\ x = <<>>
        <4>1. tops[1] = (session[s].txn = "none")
          BY <1>8, <3>2
        <4>2. /\ n.begun = m.begun /\ m.begun => session[s].txn # "none"
              /\ session[s].txn = "open" => m.begun
          BY <1>5, <1>7, <3>2 DEF TxnAt
        <4>3. /\ n.begun \in BOOLEAN /\ m.begun \in BOOLEAN
              /\ n.begun = m.begun
          BY <1>5, <1>7, <3>2, MarkFields
        <4>4. session'[s].txn = "open" => session[s].txn = "none" \/ session[s].txn = "open"
          BY <1>2
        <4> QED BY <1>5, <4>1, <4>3, <4>4, <3>2 DEF TxnAt
      <3>3. CASE k = "start" /\ x # <<>>
        <4>1. tops[1] = x[1] /\ session'[s].txn = session[s].txn
          BY <1>2, <1>5, <1>8, <1>9, <3>3, EmptySeq
        <4> QED BY <1>5, <1>7, <3>3, <4>1 DEF TxnAt
      <3> QED BY <1>2, <3>1, <3>2, <3>3
    <2>3. RootClasses(s)' = RootClasses(s) /\ HasRoot(s)' = HasRoot(s) /\ session'[s].pend = session[s].pend
      BY <1>2 DEF RootClasses, HasRoot
    <2>4. n.owed /\ session'[s].txn = "open" => session[s].txn = "open"
      BY <1>2, <1>5, <1>7, <1>9, EmptySeq
    <2>5. n.armed # {} => session'[s].txn = "open"
      BY <1>2, <1>5, <1>7, <1>8
    <2>6. /\ Contains(session'[s].pend, <<"convert">>) => n.lost
          /\ n.owed /\ session'[s].txn = "open" => db'.rootClass + RootClasses(s)' >= 1
          /\ ~n.owed /\ RootClasses(s)' > 0 => HasRoot(s)'
          /\ \A o \in n.armed : Contains(session'[s].pend, <<"trigger", o>>)
          /\ \A o \in Obj : session'[s].observers[o] = "live" => o \in db'.triggers \cup n.armed
      BY <1>5, <1>6, <1>7, <2>3, <2>4 DEF TxnAt
    <2> QED BY <2>1, <2>2, <2>5, <2>6 DEF TxnAt
  <1>11. ThreadAt(t, n)'
    <2>1. /\ n.depth = Len(tops) /\ n.held = (client'[ClientOf[t]].cs = t)
          /\ s # None => /\ menu = "notify" => n.none = {o \in Obj : session'[s].observers[o] = "none"}
                         /\ TxnAt(s, n, tops)'
      BY <1>2, <1>5, <1>6, <1>7, <1>8, <1>10
    <2>2. \E r \in Mark : AtRest(r) /\ Path(menu, thread'[t].code, n, r)
      BY <1>2, <1>5
    <2> QED BY <1>1, <1>5, <1>6, <2>1, <2>2, OwnStep DEF Inv
  <1>12. CallInv'
    BY <1>2, <1>5, <1>11, QuietUntouched, CallsStay DEF Inv
  <1>13. TxnInv'
    <2>1. /\ session'[s].pend # <<>> => session'[s].txn = "open"
          /\ session'[s].txn # "none"
      BY <1>2, <1>9
    <2>2. \A i \in 1 .. Len(tops) : tops[i] => i = 1
      <3>1. CASE k = "begin"
        BY <1>8, <3>1, EmptySeq
      <3>2. CASE k = "start"
        <4> SUFFICES ASSUME NEW i \in 1 .. Len(tops), tops[i] PROVE i = 1
          OBVIOUS
        <4>1. CASE i <= Len(x)
          BY <1>8, <1>9, <3>2, <4>1
        <4>2. CASE i = Len(x) + 1
          <5>1. session[s].txn = "none"
            BY <1>8, <3>2, <4>2
          <5> QED BY <1>5, <1>9, <4>2, <5>1, EmptySeq
        <4> QED BY <1>8, <3>2, <4>1, <4>2
      <3> QED BY <3>1, <3>2
    <2> QED BY <1>1, <1>2, <1>5, <2>1, <2>2, QuietTxn
  <1>14. ListenInv'
    BY <1>1, <1>2, QuietListen
  <1>15. RootInv' /\ TriggerInv'
    <2>1. \A q \in Session : session'[q].pend \in {session[q].pend, <<>>}
      BY <1>1, <1>2 DEF Quiet, KeepsSessions
    <2> QED BY <1>6, <2>1, ShrinkKeeps DEF Inv
  <1> QED BY <1>2, <1>12, <1>13, <1>14, <1>15, QuietKeeps DEF Inv

\* A mark at rest, with the observers none.
Resting(none) ==
  [depth |-> 0, held |-> FALSE, begun |-> FALSE, owed |-> FALSE, lost |-> FALSE, armed |-> {}, none |-> none]

LEMMA RestingIsMark ==
  ASSUME NEW none \in SUBSET Obj
  PROVE  /\ Resting(none) \in Mark /\ AtRest(Resting(none)) /\ Resting(none).none = none
         /\ \E r \in Mark : AtRest(r) /\ Path(menu, <<>>, Resting(none), r)
  <1>1. Resting(none) \in Mark /\ AtRest(Resting(none)) /\ Resting(none).none = none
    BY DEF Resting, Mark, AtRest
  <1> QED BY <1>1, PathNil

\* A transaction that is not open and has no writes is at any mark that owes nothing.
LEMMA TxnOver ==
  ASSUME TypeOK, NEW s \in Session, NEW m \in Mark, NEW n \in Mark, NEW tops, NEW x,
         TxnAt(s, m, x), m.armed = {}, n.armed = {}, ~n.begun,
         session'[s].txn # "open", session'[s].pend = <<>>,
         session'[s].observers = session[s].observers, db.triggers \subseteq db'.triggers
  PROVE  TxnAt(s, n, tops)'
  <1>1. RootClasses(s)' = 0 /\ \A y : ~Contains(session'[s].pend, y)
    BY Nothing DEF RootClasses
  <1>2. \A o \in Obj : session'[s].observers[o] = "live" => o \in db'.triggers
    BY DEF TxnAt
  <1> QED BY <1>1, <1>2 DEF TxnAt

LEMMA AbandonAfter ==
  ASSUME NEW m \in Mark, NEW st, st[1] = "abandon"
  PROVE  LET n == After(m, st) IN
         /\ n.depth = 0 /\ n.held = m.held /\ n.begun = m.begun /\ n.armed = m.armed /\ n.none = m.none
         /\ n.owed = m.owed /\ ~n.lost
  BY MarkFields DEF After

LEMMA AbandonKeeps ==
  ASSUME Inv, NEW t \in Thread, Abandon(t)
  PROVE  Inv'
  <1>1. PICK s, tops, x : s = thread[t].session /\ tops = thread'[t].tops /\ x = thread[t].tops
    OBVIOUS
  <1>2. /\ First(t, "abandon") /\ TypeOK' /\ Quiet(t) /\ s \in Session /\ client' = client
        /\ thread'[t].code = Rest(t) /\ tops = Front(x)
        /\ session'[s].txn = "aborted" /\ session'[s].pend = <<>>
    BY <1>1, AbandonEffect DEF Inv
  <1>3. PICK m \in Mark : StepAt(t, m)
    BY <1>2, StepMark DEF Inv
  <1>4. PICK n, st : st = Head(thread[t].code) /\ n = After(m, st)
    OBVIOUS
  <1>5. /\ n \in Mark /\ st[1] = "abandon" /\ Allowed(m, st)
        /\ m.depth = Len(x) /\ x \in Seq(BOOLEAN) /\ m.held = (client[ClientOf[t]].cs = t)
        /\ TxnAt(s, m, x)
        /\ menu = "notify" => m.none = {o \in Obj : session[s].observers[o] = "none"}
        /\ \E r \in Mark : AtRest(r) /\ Path(menu, Rest(t), n, r)
        /\ ~client[ClientOf[t]].dead /\ ClientOf[t] \in Client /\ s # None
    BY <1>1, <1>2, <1>3, <1>4, AtStep, SessionAssumption
  <1>6. /\ thread'[t].session = s /\ menu' = menu /\ db' = db
        /\ session'[s].observers = session[s].observers
    BY <1>1, <1>2 DEF Quiet, KeepsThreads, KeepsSessions
  <1>7. m.depth = 1 /\ ~m.held /\ ~m.owed /\ m.armed = {} /\ m.lost
    BY <1>5 DEF Allowed
  <1>8. /\ n.depth = 0 /\ n.held = m.held /\ n.begun = m.begun /\ n.armed = {} /\ n.none = m.none
        /\ ~n.owed /\ ~n.lost
    BY <1>4, <1>5, <1>7, AbandonAfter
  <1>9. tops = <<>>
    <2>1. x \in Seq(BOOLEAN) /\ Len(x) = 1
      BY <1>5, <1>7
    <2>2. x # <<>>
      BY <1>1, <1>2, StepSession DEF Inv, ScopeKinds
    <2>3. Front(x) \in Seq(BOOLEAN) /\ Len(Front(x)) = 0
      BY <2>1, <2>2, FrontProperties
    <2> QED BY <1>2, <2>3, EmptySeq
  <1>10. TxnAt(s, n, tops)'
    <2>1. RootClasses(s)' = 0 /\ \A y : ~Contains(session'[s].pend, y)
      BY <1>2, Nothing DEF RootClasses
    <2>2. \A o \in Obj : session'[s].observers[o] = "live" => o \in db'.triggers
      BY <1>5, <1>6, <1>7 DEF TxnAt
    <2> QED BY <1>2, <1>8, <1>9, <2>1, <2>2 DEF TxnAt
  <1>11. ThreadAt(t, n)'
    <2>1. /\ n.depth = Len(tops) /\ n.held = (client'[ClientOf[t]].cs = t)
          /\ s # None => /\ menu = "notify" => n.none = {o \in Obj : session'[s].observers[o] = "none"}
                         /\ TxnAt(s, n, tops)'
      BY <1>2, <1>5, <1>6, <1>8, <1>9, <1>10
    <2>2. \E r \in Mark : AtRest(r) /\ Path(menu, thread'[t].code, n, r)
      BY <1>2, <1>5
    <2> QED BY <1>1, <1>5, <1>6, <2>1, <2>2, OwnStep DEF Inv
  <1>12. CallInv'
    BY <1>2, <1>5, <1>11, QuietUntouched, CallsStay DEF Inv
  <1>13. TxnInv'
    <2>1. /\ session'[s].pend = <<>> /\ thread'[t].tops = <<>>
          /\ \A i \in 1 .. Len(thread'[t].tops) : thread'[t].tops[i] => i = 1
      BY <1>1, <1>2, <1>9
    <2> QED BY <1>1, <1>2, <1>5, <2>1, QuietTxn
  <1>14. ListenInv'
    <2>1. \A o \in Obj : session[s].observers[o] = "live" => o \in db.triggers
      BY <1>5, <1>7 DEF TxnAt
    <2> QED BY <1>1, <1>2, <2>1, QuietListen
  <1>15. RootInv' /\ TriggerInv'
    <2>1. \A q \in Session : session'[q].pend \in {session[q].pend, <<>>}
      BY <1>1, <1>2 DEF Quiet, KeepsSessions
    <2> QED BY <1>6, <2>1, ShrinkKeeps DEF Inv
  <1> QED BY <1>2, <1>12, <1>13, <1>14, <1>15, QuietKeeps DEF Inv

LEMMA RollbackKeeps ==
  ASSUME Inv, NEW t \in Thread, RollbackTransaction(t)
  PROVE  Inv'
  <1>1. PICK s, tops : s = thread[t].session /\ tops = thread[t].tops
    OBVIOUS
  <1>2. /\ First(t, "rollback") /\ TypeOK' /\ Quiet(t) /\ client' = client
        /\ thread'[t].code = Rest(t) /\ thread'[t].tops = tops
        /\ s = None => session' = session
        /\ s # None => s \in Session /\ session'[s].txn = "none" /\ session'[s].pend = <<>>
    BY <1>1, RollbackEffect DEF Inv
  <1>3. PICK m \in Mark : StepAt(t, m)
    BY <1>2, StepMark DEF Inv
  <1>4. PICK n, st : st = Head(thread[t].code) /\ n = After(m, st)
    OBVIOUS
  <1>5. /\ n \in Mark /\ st[1] = "rollback" /\ Allowed(m, st)
        /\ m.depth = Len(tops) /\ tops \in Seq(BOOLEAN) /\ m.held = (client[ClientOf[t]].cs = t)
        /\ s # None => /\ TxnAt(s, m, tops)
                       /\ menu = "notify" => m.none = {o \in Obj : session[s].observers[o] = "none"}
        /\ s = None => menu # "notify"
        /\ \E r \in Mark : AtRest(r) /\ Path(menu, Rest(t), n, r)
        /\ ~client[ClientOf[t]].dead /\ ClientOf[t] \in Client
    BY <1>1, <1>2, <1>3, <1>4, AtStep
  <1>6. /\ thread'[t].session = s /\ menu' = menu /\ db' = db
        /\ s \in Session => session'[s].observers = session[s].observers
    BY <1>1, <1>2 DEF Quiet, KeepsThreads, KeepsSessions
  <1>7. AtRest(m)
    BY <1>5 DEF Allowed
  <1>8. /\ n.depth = 0 /\ n.held = m.held /\ ~n.begun /\ n.armed = {} /\ n.none = m.none
    BY <1>4, <1>5, <1>7, MarkFields, PlainAfter DEF Structural, AtRest
  <1>9. tops = <<>>
    BY <1>5, <1>7, EmptySeq DEF AtRest
  <1>10. s # None => TxnAt(s, n, tops)'
    <2>1. m.armed = {}
      BY <1>7 DEF AtRest
    <2> QED BY <1>2, <1>5, <1>6, <1>8, <2>1, TxnOver DEF Inv
  <1>11. ThreadAt(t, n)'
    <2>1. /\ n.depth = Len(tops) /\ n.held = (client'[ClientOf[t]].cs = t)
          /\ s = None => n.depth = 0 /\ ~n.begun /\ menu # "notify"
          /\ s # None => /\ menu = "notify" => n.none = {o \in Obj : session'[s].observers[o] = "none"}
                         /\ TxnAt(s, n, tops)'
      BY <1>2, <1>5, <1>6, <1>8, <1>9, <1>10
    <2>2. \E r \in Mark : AtRest(r) /\ Path(menu, thread'[t].code, n, r)
      BY <1>2, <1>5
    <2> QED BY <1>1, <1>2, <1>5, <1>6, <2>1, <2>2, OwnStep DEF Inv
  <1>12. CallInv'
    BY <1>2, <1>5, <1>11, QuietUntouched, CallsStay DEF Inv
  <1>13. TxnInv'
    BY <1>1, <1>2, <1>5, <1>9, QuietTxn
  <1>14. ListenInv'
    <2>1. s # None => \A o \in Obj : session[s].observers[o] = "live" => o \in db.triggers
      BY <1>5, <1>7 DEF TxnAt, AtRest
    <2>2. s \in Session => s # None
      BY SessionAssumption
    <2> QED BY <1>1, <1>2, <2>1, <2>2, QuietListen
  <1>15. RootInv' /\ TriggerInv'
    <2>1. \A q \in Session : session'[q].pend \in {session[q].pend, <<>>}
      BY <1>1, <1>2 DEF Quiet, KeepsSessions
    <2> QED BY <1>6, <2>1, ShrinkKeeps DEF Inv
  <1> QED BY <1>2, <1>12, <1>13, <1>14, <1>15, QuietKeeps DEF Inv

LEMMA FailsKeep ==
  ASSUME Inv, NEW t \in Thread, StatementFails(t)
  PROVE  Inv'
  <1>1. PICK s, tops : s = thread[t].session /\ tops = thread[t].tops
    OBVIOUS
  <1>2. /\ TypeOK' /\ Quiet(t) /\ s \in Session
        /\ thread'[t].code = <<>> /\ thread'[t].tops = <<>>
        /\ session'[s].pend = <<>> /\ session'[s].txn # "open"
        /\ client'[ClientOf[t]].cs # t
    <2>1. t # None
      BY SessionAssumption
    <2>2. session'[s].txn = Unwound(session[s].txn, thread[t].tops, Contains(thread[t].code, <<"abandon">>))
      BY <1>1, FailsEffect DEF Inv
    <2>3. session'[s].txn # "open"
      BY <2>2 DEF Unwound
    <2> QED BY <1>1, <2>1, <2>3, FailsEffect DEF Inv
  <1>3. PICK k \in SqlSteps : First(t, k)
    BY FailsEffect DEF Inv
  <1>4. PICK m \in Mark : StepAt(t, m)
    BY <1>3, StepMark DEF Inv
  <1>5. /\ Head(thread[t].code)[1] = k /\ Allowed(m, Head(thread[t].code)) /\ TxnAt(s, m, tops)
        /\ menu = "notify" => m.none = {o \in Obj : session[s].observers[o] = "none"}
        /\ ~client[ClientOf[t]].dead /\ ClientOf[t] \in Client /\ s # None
    BY <1>1, <1>2, <1>3, <1>4, AtStep, SessionAssumption
  <1>6. m.armed = {} /\ m.none \in SUBSET Obj
    BY <1>3, <1>5, MarkFields DEF Allowed
  <1>7. PICK n \in Mark : /\ AtRest(n) /\ n.none = m.none
                          /\ \E r \in Mark : AtRest(r) /\ Path(menu, <<>>, n, r)
    BY <1>6, RestingIsMark
  <1>8. /\ thread'[t].session = s /\ menu' = menu /\ db' = db
        /\ session'[s].observers = session[s].observers
    BY <1>1, <1>2 DEF Quiet, KeepsThreads, KeepsSessions
  <1>9. TxnAt(s, n, <<>>)'
    BY <1>2, <1>5, <1>6, <1>7, <1>8, TxnOver DEF Inv, AtRest
  <1>10. ThreadAt(t, n)'
    <2>1. /\ n.depth = Len(<<>>) /\ n.held = (client'[ClientOf[t]].cs = t)
          /\ menu = "notify" => n.none = {o \in Obj : session'[s].observers[o] = "none"}
      BY <1>2, <1>5, <1>7, <1>8, MarkFields DEF AtRest
    <2> QED BY <1>1, <1>2, <1>5, <1>7, <1>8, <1>9, <2>1, OwnStep DEF Inv
  <1>11. CallInv'
    BY <1>2, <1>5, <1>10, QuietUntouched, CallsStay, SessionAssumption DEF Inv, Quiet, KeepsClients
  <1>12. TxnInv'
    BY <1>1, <1>2, <1>5, QuietTxn
  <1>13. ListenInv'
    <2>1. \A o \in Obj : session[s].observers[o] = "live" => o \in db.triggers
      BY <1>5, <1>6 DEF TxnAt
    <2> QED BY <1>1, <1>2, <2>1, QuietListen
  <1>14. RootInv' /\ TriggerInv'
    <2>1. \A q \in Session : session'[q].pend \in {session[q].pend, <<>>}
      BY <1>1, <1>2 DEF Quiet, KeepsSessions
    <2> QED BY <1>8, <2>1, ShrinkKeeps DEF Inv
  <1> QED BY <1>2, <1>11, <1>12, <1>13, <1>14, QuietKeeps DEF Inv

LEMMA EndAfter ==
  ASSUME NEW m \in Mark, NEW st, st[1] \in {"end", "commit"}
  PROVE  LET n == After(m, st) IN
         /\ n.depth = IF st[1] = "end" THEN m.depth - 1 ELSE m.depth
         /\ n.armed = IF st[1] = "end" THEN {} ELSE m.armed
         /\ n.begun = (m.begun /\ st[1] # "commit")
         /\ n.held = m.held /\ n.owed = m.owed /\ n.lost = m.lost /\ n.none = m.none
  BY MarkFields DEF After

\* Where a scope, or a commit, ends: step k leads from mark m to mark n, and the
\* scopes are x before and tops after.
EndAt(t, s, k, m, n, x, tops) ==
  /\ First(t, k) /\ (k = "end" <=> First(t, "end")) /\ (k = "commit" <=> First(t, "commit"))
  /\ x = thread[t].tops /\ tops = thread'[t].tops
  /\ m.depth = Len(x) /\ m.held = (client[ClientOf[t]].cs = t) /\ TxnAt(s, m, x)
  /\ menu = "notify" => m.none = {o \in Obj : session[s].observers[o] = "none"}
  /\ \E r \in Mark : AtRest(r) /\ Path(menu, Rest(t), n, r)
  /\ ~m.lost
  /\ k = "end" => /\ m.depth >= 1 /\ (m.held \/ m.owed => m.depth >= 2)
                  /\ m.armed # {} => m.depth = 1 /\ ~m.begun
                  /\ x # <<>> /\ Len(tops) = Len(x) - 1
                  /\ \A i \in 1 .. Len(x) - 1 : tops[i] = x[i]
  /\ k = "commit" => x = <<>> /\ tops = <<>> /\ m.begun /\ m.armed = {} /\ ~m.owed
  /\ n.depth = Len(tops) /\ n.armed = {} /\ n.begun = (m.begun /\ k # "commit")
  /\ n.held = m.held /\ n.owed = m.owed /\ n.lost = m.lost /\ n.none = m.none
  /\ Commits(t) = (k = "commit" \/ x[Len(x)])
  /\ \A i \in 1 .. Len(x) : x[i] => i = 1

LEMMA AtEnd ==
  ASSUME Inv, NEW t \in Thread, End(t), NEW s, s = thread[t].session
  PROVE  \E k \in {"end", "commit"}, m, n \in Mark, x, tops \in Seq(BOOLEAN) : EndAt(t, s, k, m, n, x, tops)
  <1>1. PICK x, tops : x = thread[t].tops /\ tops = thread'[t].tops
    OBVIOUS
  <1>2. PICK k \in {"end", "commit"} : First(t, k)
    BY Zenon DEF End
  <1>3. (k = "end" <=> First(t, "end")) /\ (k = "commit" <=> First(t, "commit"))
    BY <1>2 DEF First
  <1>4. PICK m \in Mark : StepAt(t, m)
    BY <1>2, StepMark DEF Inv
  <1>5. PICK n, st : st = Head(thread[t].code) /\ n = After(m, st)
    OBVIOUS
  <1>6. /\ n \in Mark /\ st[1] = k /\ Allowed(m, st) /\ s # None
        /\ m.depth = Len(x) /\ x \in Seq(BOOLEAN) /\ m.held = (client[ClientOf[t]].cs = t)
        /\ TxnAt(s, m, x)
        /\ menu = "notify" => m.none = {o \in Obj : session[s].observers[o] = "none"}
        /\ \E r \in Mark : AtRest(r) /\ Path(menu, Rest(t), n, r)
    <2>1. s # None
      <3>1. s \in Session
        BY EndEffect, Zenon DEF Inv
      <3> QED BY <3>1, SessionAssumption
    <2> QED BY <1>1, <1>2, <1>4, <1>5, <2>1, AtStep
  <1>7. /\ k = "end" => /\ m.depth >= 1 /\ ~m.lost /\ (m.held \/ m.owed => m.depth >= 2)
                        /\ m.armed # {} => m.depth = 1 /\ ~m.begun
        /\ k = "commit" => m.depth = 0 /\ m.begun
    BY <1>6 DEF Allowed
  <1>8. k = "commit" => m.armed = {} /\ ~m.lost /\ ~m.owed
    BY <1>7, MarkFields
  <1>9. /\ n.depth = IF k = "end" THEN m.depth - 1 ELSE m.depth
        /\ n.armed = IF k = "end" THEN {} ELSE m.armed
        /\ n.begun = (m.begun /\ k # "commit")
        /\ n.held = m.held /\ n.owed = m.owed /\ n.lost = m.lost /\ n.none = m.none
    BY <1>2, <1>5, <1>6, EndAfter
  <1>10. tops = IF k = "end" THEN Front(x) ELSE x
    <2>1. thread'[t].tops = IF First(t, "end") THEN Front(thread[t].tops) ELSE thread[t].tops
      BY EndEffect, Zenon DEF Inv
    <2> QED BY <1>1, <1>3, <2>1
  <1>11. k = "end" => /\ x # <<>> /\ tops = Front(x) /\ tops \in Seq(BOOLEAN) /\ Last(x) = x[Len(x)]
                      /\ Len(tops) = Len(x) - 1 /\ \A i \in 1 .. Len(x) - 1 : tops[i] = x[i]
    <2> SUFFICES ASSUME k = "end"
                 PROVE  /\ x # <<>> /\ Front(x) \in Seq(BOOLEAN) /\ Last(x) = x[Len(x)]
                        /\ Len(Front(x)) = Len(x) - 1 /\ \A i \in 1 .. Len(x) - 1 : Front(x)[i] = x[i]
      BY <1>10
    <2>1. Len(x) >= 1 /\ x \in Seq(BOOLEAN)
      BY <1>6, <1>7
    <2>2. Len(<<>>) = 0
      OBVIOUS
    <2>3. x # <<>>
      BY <2>1, <2>2
    <2> QED BY <2>1, <2>3, FrontProperties
  <1>12. k = "commit" => x = <<>> /\ tops = <<>>
    BY <1>6, <1>7, <1>10, EmptySeq
  <1>13. tops \in Seq(BOOLEAN) /\ n.depth = Len(tops)
    BY <1>2, <1>6, <1>7, <1>9, <1>11, <1>12, EmptySeq
  <1>14. Commits(t) = (k = "commit" \/ x[Len(x)])
    <2>1. CASE k = "commit"
      BY <1>3, <2>1 DEF Commits
    <2>2. CASE k = "end"
      BY <1>1, <1>3, <1>11, <2>2 DEF Commits
    <2> QED BY <1>2, <2>1, <2>2
  <1>15. \A i \in 1 .. Len(x) : x[i] => i = 1
    BY <1>1 DEF Inv, TxnInv
  <1>16. ~m.lost /\ n.armed = {}
    BY <1>2, <1>7, <1>8, <1>9
  <1>17. EndAt(t, s, k, m, n, x, tops)
    BY <1>1, <1>2, <1>3, <1>6, <1>7, <1>8, <1>9, <1>11, <1>12, <1>13, <1>14, <1>15, <1>16 DEF EndAt
  <1> QED BY <1>2, <1>4, <1>6, <1>13, <1>17, Zenon

\* The end of a scope that writes nothing: an inner one, or one whose transaction
\* has failed or was aborted.
LEMMA EndQuiet ==
  ASSUME Inv, NEW t \in Thread, End(t), NEW s, s = thread[t].session,
         ~(Commits(t) /\ session[s].txn = "open")
  PROVE  /\ TypeOK' /\ Quiet(t) /\ s \in Session /\ client' = client /\ thread'[t].code = Rest(t)
         /\ IF Commits(t) /\ session[s].txn = "failed"
            THEN session'[s].txn = "none" /\ session'[s].pend = <<>>
            ELSE session' = session
  <1>1. /\ s \in Session /\ db' = db /\ session' \in [Session -> SessionState]
        /\ session' = IF Commits(t) /\ session[s].txn = "failed"
                      THEN [session EXCEPT ![s] = [session[s] EXCEPT !.txn = "none", !.pend = <<>>]]
                      ELSE session
        /\ thread' \in [Thread -> ThreadState] /\ client' = client /\ bounds' = bounds
    BY EndEffect, Zenon DEF Inv
  <1>2. \A u \in Thread :
          /\ thread'[u].session = thread[u].session /\ thread'[u].mine = thread[u].mine
          /\ thread'[u].listening = thread[u].listening
          /\ thread'[u].code = IF u = t THEN Rest(t) ELSE thread[u].code
          /\ thread'[u].tops = IF u = t /\ First(t, "end") THEN Front(thread[u].tops) ELSE thread[u].tops
          /\ thread'[u].due = thread[u].due
    BY EndEffect, Zenon DEF Inv
  <1>3. KeepsThreads(t) /\ thread'[t].code = Rest(t)
    BY <1>2, Zenon DEF KeepsThreads
  <1>4. KeepsClients(t) /\ client' \in [Client -> ClientState]
    BY <1>1, AllKept DEF Inv
  <1>5. menu' = menu /\ UNCHANGED <<db, bounds>>
    BY <1>1, Zenon DEF bounds
  <1>6. TypeOK'
    BY <1>1, <1>4, <1>5, TypeParts DEF Inv
  <1>7. CASE Commits(t) /\ session[s].txn = "failed"
    <2> DEFINE r == [session[s] EXCEPT !.txn = "none", !.pend = <<>>]
    <2>1. session[s] \in SessionState
      BY <1>1 DEF Inv, TypeOK
    <2>2. /\ r \in SessionState /\ r.txn = "none" /\ r.pend = <<>> /\ r.locks = session[s].locks
          /\ r.observers = session[s].observers /\ r.inbox = session[s].inbox
      <3>1. <<>> \in Seq(Steps)
        OBVIOUS
      <3> QED BY <2>1, <3>1 DEF SessionState
    <2>3. session' = [session EXCEPT ![s] = r]
      BY <1>1, <1>7, Zenon
    <2> HIDE DEF r
    <2>4. KeepsSessions(t) /\ session'[s] = r
      BY <1>1, <2>2, <2>3, SessionKept DEF Inv
    <2> QED BY <1>1, <1>3, <1>4, <1>5, <1>6, <1>7, <2>2, <2>4 DEF Quiet
  <1>8. CASE ~(Commits(t) /\ session[s].txn = "failed")
    <2>1. session' = session
      BY <1>1, <1>8, Zenon
    <2>2. KeepsSessions(t)
      BY <2>1, AllKept DEF Inv
    <2> QED BY <1>1, <1>3, <1>4, <1>5, <1>6, <1>8, <2>1, <2>2 DEF Quiet
  <1> QED BY <1>7, <1>8

LEMMA EndQuietKeeps ==
  ASSUME Inv, NEW t \in Thread, End(t), ~(Commits(t) /\ session[thread[t].session].txn = "open")
  PROVE  Inv'
  <1>1. PICK s : s = thread[t].session
    OBVIOUS
  <1>2. PICK k \in {"end", "commit"}, m, n \in Mark, x, tops \in Seq(BOOLEAN) : EndAt(t, s, k, m, n, x, tops)
    BY <1>1, AtEnd
  <1>3. /\ TypeOK' /\ Quiet(t) /\ s \in Session /\ client' = client /\ thread'[t].code = Rest(t)
        /\ IF Commits(t) /\ session[s].txn = "failed"
           THEN session'[s].txn = "none" /\ session'[s].pend = <<>>
           ELSE session' = session
    BY <1>1, EndQuiet
  <1>4. /\ x = thread[t].tops /\ tops = thread'[t].tops
        /\ m.depth = Len(x) /\ m.held = (client[ClientOf[t]].cs = t) /\ TxnAt(s, m, x)
        /\ menu = "notify" => m.none = {o \in Obj : session[s].observers[o] = "none"}
        /\ \E r \in Mark : AtRest(r) /\ Path(menu, Rest(t), n, r)
        /\ n.depth = Len(tops) /\ n.held = m.held /\ n.none = m.none
    BY <1>2 DEF EndAt
  <1>5. /\ n.armed = {} /\ n.begun = (m.begun /\ k # "commit") /\ n.owed = m.owed /\ n.lost = m.lost
        /\ ~m.lost /\ Commits(t) = (k = "commit" \/ x[Len(x)])
        /\ \A i \in 1 .. Len(x) : x[i] => i = 1
        /\ k = "end" => /\ m.depth >= 1 /\ (m.armed # {} => m.depth = 1 /\ ~m.begun)
                        /\ x # <<>> /\ Len(tops) = Len(x) - 1
                        /\ \A i \in 1 .. Len(x) - 1 : tops[i] = x[i]
        /\ k = "commit" => x = <<>> /\ tops = <<>> /\ m.begun /\ m.armed = {} /\ ~m.owed
    BY <1>2 DEF EndAt
  <1>6. /\ thread'[t].session = s /\ menu' = menu /\ db' = db /\ s # None
        /\ session'[s].observers = session[s].observers
        /\ ~client[ClientOf[t]].dead /\ ClientOf[t] \in Client
    BY <1>1, <1>2, <1>3, FirstStep, SessionAssumption DEF Quiet, KeepsThreads, KeepsSessions, EndAt, Inv
  <1>7. m.armed = {}
    <2> SUFFICES ASSUME m.armed # {} PROVE FALSE
      OBVIOUS
    <2>1. k = "end" /\ m.depth = 1 /\ ~m.begun /\ session[s].txn = "open" /\ x # <<>>
      BY <1>2, <1>4, <1>5 DEF TxnAt
    <2>2. x[1] = TRUE
      BY <1>4, <2>1 DEF TxnAt
    <2>3. Commits(t)
      BY <1>4, <1>5, <2>1, <2>2
    <2> QED BY <1>1, <2>1, <2>3
  <1>8. TxnAt(s, n, tops)'
    <2>1. CASE Commits(t) /\ session[s].txn = "failed"
      <3>1. ~n.begun
        <4>1. CASE k = "commit"
          BY <1>5, <4>1
        <4>2. CASE k = "end"
          <5>1. x[Len(x)] /\ Len(x) \in Nat /\ Len(x) >= 1
            BY <1>4, <1>5, <2>1, <4>2, LenProperties
          <5>2. x[1]
            BY <1>5, <5>1
          <5> QED BY <1>4, <1>5, <4>2, <5>2 DEF TxnAt
        <4> QED BY <1>2, <4>1, <4>2
      <3> QED BY <1>3, <1>4, <1>5, <1>6, <1>7, <2>1, <3>1, TxnOver DEF Inv
    <2>2. CASE ~(Commits(t) /\ session[s].txn = "failed")
      <3>1. session' = session
        BY <1>3, <2>2
      <3>2. CASE session[s].txn = "open"
        <4>1. ~Commits(t)
          BY <1>1, <3>2
        <4>2. k = "end" /\ ~x[Len(x)] /\ x # <<>> /\ Len(x) \in Nat
          BY <1>2, <1>5, <4>1, LenProperties
        <4>3. n.begun = m.begun
          BY <1>5, <4>2, MarkFields
        <4>4. TxnAt(s, n, x)'
          <5>1. db.rootClass \in Nat
            BY DEF Inv, TypeOK, Database
          <5>2. /\ session'[s].txn = session[s].txn /\ session'[s].pend = session[s].pend
                /\ session'[s].observers = session[s].observers
                /\ db.rootClass <= db'.rootClass /\ db.triggers \subseteq db'.triggers
            BY <1>6, <3>1, <5>1
          <5>3. n.lost = m.lost /\ n.owed = m.owed /\ n.armed = m.armed
            BY <1>5, <1>7
          <5>4. TxnAt(s, m, x) /\ TypeOK /\ TypeOK' /\ s \in Session
            BY <1>3, <1>4 DEF Inv
          <5> QED BY <4>3, <5>2, <5>3, <5>4, TxnStays
        <4>5. x[1] = ~m.begun
          BY <1>4, <3>2, <4>2 DEF TxnAt
        <4>6. /\ tops # <<>> \/ m.begun
              /\ tops # <<>> => tops[1] = x[1]
          <5>1. Len(x) >= 1 /\ Len(tops) = Len(x) - 1
            BY <1>4, <1>5, <4>2
          <5>2. CASE Len(x) = 1
            <6>1. tops = <<>>
              BY <5>1, <5>2, EmptySeq
            <6> QED BY <4>2, <4>5, <5>2, <6>1
          <5>3. CASE Len(x) >= 2
            <6>1. tops[1] = x[1]
              BY <1>5, <4>2, <5>3
            <6>2. tops # <<>>
              <7>1. Len(tops) # 0
                BY <5>1, <5>3, LenProperties
              <7> QED BY <7>1, EmptySeq
            <6> QED BY <6>1, <6>2
          <5> QED BY <4>2, <5>1, <5>2, <5>3
        <4> QED BY <4>3, <4>4, <4>5, <4>6 DEF TxnAt
      <3>3. CASE session[s].txn # "open"
        <4>1. session'[s].pend = <<>> /\ session'[s].txn # "open"
          BY <3>1, <3>3, <1>3 DEF Inv, TxnInv
        <4>2. ~n.begun \/ (m.begun /\ k = "end" /\ session'[s].txn # "none" /\ (tops # <<>> => ~tops[1]))
          <5> SUFFICES ASSUME n.begun
                       PROVE  m.begun /\ k = "end" /\ session'[s].txn # "none" /\ (tops # <<>> => ~tops[1])
            OBVIOUS
          <5>1. m.begun /\ k = "end" /\ session'[s].txn # "none" /\ x # <<>> /\ ~x[1]
            BY <1>2, <1>4, <1>5, <3>1 DEF TxnAt
          <5>2. tops # <<>> => tops[1] = x[1]
            <6> SUFFICES ASSUME tops # <<>> PROVE tops[1] = x[1]
              OBVIOUS
            <6>1. Len(tops) # 0 /\ Len(tops) \in Nat
              BY EmptySeq, LenProperties
            <6> QED BY <1>4, <1>5, <5>1, <6>1, LenProperties
          <5> QED BY <5>1, <5>2
        <4>3. RootClasses(s)' = 0 /\ \A y : ~Contains(session'[s].pend, y)
          BY <4>1, Nothing DEF RootClasses
        <4>4. \A o \in Obj : session'[s].observers[o] = "live" => o \in db'.triggers
          BY <1>4, <1>6, <1>7 DEF TxnAt
        <4> QED BY <1>5, <4>1, <4>2, <4>3, <4>4 DEF TxnAt
      <3> QED BY <3>2, <3>3
    <2> QED BY <2>1, <2>2
  <1>9. ThreadAt(t, n)'
    <2>1. /\ n.held = (client'[ClientOf[t]].cs = t)
          /\ menu = "notify" => n.none = {o \in Obj : session'[s].observers[o] = "none"}
      BY <1>3, <1>4, <1>6
    <2>2. \E r \in Mark : AtRest(r) /\ Path(menu, thread'[t].code, n, r)
      BY <1>3, <1>4
    <2> QED BY <1>1, <1>2, <1>4, <1>6, <1>8, <2>1, <2>2, OwnStep DEF Inv
  <1>10. CallInv'
    BY <1>2, <1>3, <1>6, <1>9, QuietUntouched, CallsStay DEF Inv
  <1>11. TxnInv'
    <2>1. session'[s].pend # <<>> => session'[s].txn = "open"
      BY <1>3 DEF Inv, TxnInv
    <2>2. tops # <<>> => session'[s].txn # "none"
      <3> SUFFICES ASSUME tops # <<>> PROVE session'[s].txn # "none"
        OBVIOUS
      <3>1. k = "end" /\ Len(x) \in Nat /\ Len(x) >= 2
        <4>1. Len(tops) # 0 /\ Len(tops) \in Nat
          BY EmptySeq, LenProperties
        <4> QED BY <1>2, <1>5, <4>1, LenProperties
      <3>2. ~x[Len(x)]
        BY <1>5, <3>1
      <3>3. session' = session
        BY <1>2, <1>3, <1>5, <3>1, <3>2
      <3>4. x # <<>>
        BY <1>5, <3>1
      <3> QED BY <1>1, <1>4, <3>3, <3>4 DEF Inv, TxnInv
    <2>3. \A i \in 1 .. Len(tops) : tops[i] => i = 1
      <3>1. CASE k = "commit"
        BY <1>5, <3>1
      <3>2. CASE k = "end"
        BY <1>5, <3>2, LenProperties
      <3> QED BY <1>2, <3>1, <3>2
    <2> QED BY <1>1, <1>3, <1>4, <1>6, <2>1, <2>2, <2>3, QuietTxn
  <1>12. ListenInv'
    <2>1. \A o \in Obj : session[s].observers[o] = "live" => o \in db.triggers
      BY <1>4, <1>7 DEF TxnAt
    <2> QED BY <1>1, <1>3, <2>1, QuietListen
  <1>13. RootInv' /\ TriggerInv'
    <2>1. \A q \in Session : session'[q].pend \in {session[q].pend, <<>>}
      BY <1>1, <1>3 DEF Quiet, KeepsSessions
    <2> QED BY <1>6, <2>1, ShrinkKeeps DEF Inv
  <1> QED BY <1>3, <1>10, <1>11, <1>12, <1>13, QuietKeeps DEF Inv

\* What the writes of s do to the database.
LEMMA AppliedWrites ==
  ASSUME NEW s \in Session
  PROVE  /\ Visible(s).rootClass = db.rootClass + RootClasses(s)
         /\ Visible(s).root = (db.root \/ HasRoot(s))
         /\ Visible(s).triggers = db.triggers \cup {o \in Obj : Contains(session[s].pend, <<"trigger", o>>)}
         /\ Visible(s).converted = (db.converted \/ Contains(session[s].pend, <<"convert">>))
  BY DEF Visible, Apply, RootClasses, HasRoot

LEMMA EndCommitKeeps ==
  ASSUME Inv, NEW t \in Thread, End(t), Commits(t), session[thread[t].session].txn = "open"
  PROVE  Inv'
  <1>1. PICK s : s = thread[t].session
    OBVIOUS
  <1>2. PICK k \in {"end", "commit"}, m, n \in Mark, x, tops \in Seq(BOOLEAN) : EndAt(t, s, k, m, n, x, tops)
    BY <1>1, AtEnd
  <1>3. /\ s \in Session /\ CommitPending(s) /\ thread' \in [Thread -> ThreadState]
        /\ client' = client /\ bounds' = bounds
        /\ \A u \in Thread :
             /\ thread'[u].session = thread[u].session /\ thread'[u].mine = thread[u].mine
             /\ thread'[u].listening = thread[u].listening
             /\ thread'[u].code = IF u = t THEN Rest(t) ELSE thread[u].code
             /\ u # t => thread'[u].tops = thread[u].tops
             /\ thread'[u].due = thread[u].due \cup (thread[u].listening \cap Updated(s))
    BY <1>1, EndEffect, Zenon DEF Inv
  <1>4. /\ db' = Visible(s) /\ db' \in Database /\ session' \in [Session -> SessionState]
        /\ \A r \in Session :
             /\ session'[r].txn = IF r = s THEN "none" ELSE session[r].txn
             /\ session'[r].pend = IF r = s THEN <<>> ELSE session[r].pend
             /\ session'[r].locks = session[r].locks /\ session'[r].observers = session[r].observers
             /\ session'[r].inbox = session[r].inbox \cup
                  {o \in Updated(s) \cap db'.triggers : session[r].observers[o] = "live"}
    BY <1>3, CommitEffect DEF Inv
  <1>5. menu' = menu /\ calls' = calls /\ faults' = faults
    BY <1>3, Zenon DEF bounds
  <1>6. TypeOK'
    BY <1>3, <1>4, <1>5 DEF Inv, TypeOK
  <1>7. /\ db'.rootClass = db.rootClass + RootClasses(s) /\ db'.root = (db.root \/ HasRoot(s))
        /\ db'.triggers = db.triggers \cup {o \in Obj : Contains(session[s].pend, <<"trigger", o>>)}
        /\ db'.converted = (db.converted \/ Contains(session[s].pend, <<"convert">>))
    BY <1>3, <1>4, AppliedWrites
  <1>8. /\ x = thread[t].tops /\ tops = thread'[t].tops
        /\ m.depth = Len(x) /\ m.held = (client[ClientOf[t]].cs = t) /\ TxnAt(s, m, x)
        /\ menu = "notify" => m.none = {o \in Obj : session[s].observers[o] = "none"}
        /\ \E r \in Mark : AtRest(r) /\ Path(menu, Rest(t), n, r)
        /\ n.depth = Len(tops) /\ n.held = m.held /\ n.none = m.none
        /\ n.armed = {} /\ n.owed = m.owed /\ n.lost = m.lost /\ ~m.lost
    BY <1>2 DEF EndAt
  <1>9. ~m.owed /\ ~n.begun /\ tops = <<>>
    <2>1. CASE k = "commit"
      BY <1>2, <2>1 DEF EndAt
    <2>2. CASE k = "end"
      <3>1. /\ x[Len(x)] /\ x # <<>> /\ n.begun = m.begun /\ Len(tops) = Len(x) - 1
            /\ m.owed => m.depth >= 2
            /\ \A i \in 1 .. Len(x) : x[i] => i = 1
        BY <1>2, <2>2, MarkFields DEF EndAt
      <3>2. Len(x) = 1
        <4>1. Len(x) \in Nat /\ Len(x) # 0
          BY <1>2, <3>1, EmptySeq, LenProperties
        <4> QED BY <3>1, <4>1
      <3>3. tops = <<>>
        BY <3>1, <3>2, EmptySeq
      <3>4. ~m.begun
        BY <1>1, <1>8, <3>1, <3>2 DEF TxnAt
      <3> QED BY <1>8, <3>1, <3>2, <3>3, <3>4
    <2> QED BY <1>2, <2>1, <2>2
  <1>10. /\ ~Contains(session[s].pend, <<"convert">>) /\ (RootClasses(s) > 0 => HasRoot(s))
         /\ \A o \in Obj : session[s].observers[o] = "live" => o \in db'.triggers
    BY <1>7, <1>8, <1>9 DEF TxnAt
  <1>11. \A u \in Thread : u # t /\ thread[u].session # None => thread[u].session \in Session \ {s}
    BY <1>1, StateTypes DEF Inv, OwnInv
  <1>12. db.rootClass \in Nat /\ RootClasses(s) \in Nat /\ db.rootClass <= db'.rootClass
         /\ db.triggers \subseteq db'.triggers
    BY <1>3, <1>7, RootClassesType DEF Inv, TypeOK, Database
  <1>13. OwnInv'
    BY <1>3 DEF Inv, OwnInv
  <1>14. \A u \in Thread \ {t} : Untouched(u)
    BY <1>3, <1>4, <1>5, <1>11, <1>12 DEF Untouched
  <1>15. ~client[ClientOf[t]].dead /\ ClientOf[t] \in Client /\ s # None /\ thread'[t].session = s
    BY <1>1, <1>2, <1>3, FirstStep, SessionAssumption DEF EndAt, Inv
  <1>16. TxnAt(s, n, tops)'
    <2>2. /\ session'[s].txn = "none" /\ session'[s].pend = <<>>
          /\ session'[s].observers = session[s].observers
      BY <1>3, <1>4
    <2>1. RootClasses(s)' = 0 /\ \A y : ~Contains(session'[s].pend, y)
      BY <2>2, Nothing DEF RootClasses
    <2> QED BY <1>8, <1>9, <1>10, <2>1, <2>2 DEF TxnAt
  <1>17. ThreadAt(t, n)'
    <2>1. /\ n.held = (client'[ClientOf[t]].cs = t)
          /\ menu = "notify" => n.none = {o \in Obj : session'[s].observers[o] = "none"}
      BY <1>3, <1>4, <1>8
    <2>2. \E r \in Mark : AtRest(r) /\ Path(menu, thread'[t].code, n, r)
      BY <1>3, <1>8
    <2> QED BY <1>1, <1>2, <1>5, <1>8, <1>15, <1>16, <2>1, <2>2, OwnStep DEF Inv
  <1>18. CallInv'
    BY <1>2, <1>3, <1>6, <1>14, <1>15, <1>17, CallsStay DEF Inv
  <1>19. TxnInv'
    <2>1. \A r \in Session : session'[r].pend # <<>> => session'[r].txn = "open"
      BY <1>4 DEF Inv, TxnInv
    <2>2. \A r \in Session : session'[r].txn = "open" =>
            \E u \in Thread : thread'[u].session = r /\ ~client'[ClientOf[u]].dead
      BY <1>3, <1>4 DEF Inv, TxnInv
    <2>3. \A u \in Thread : thread'[u].tops # <<>> =>
            thread'[u].session # None /\ session'[thread'[u].session].txn # "none"
      <3> SUFFICES ASSUME NEW u \in Thread, thread'[u].tops # <<>>
                   PROVE  thread[u].session # None /\ session'[thread[u].session].txn # "none"
        BY <1>3
      <3>1. u # t
        BY <1>8, <1>9
      <3>2. thread[u].session # None /\ session[thread[u].session].txn # "none"
        BY <1>3, <3>1 DEF Inv, TxnInv
      <3> QED BY <1>4, <1>11, <3>1, <3>2
    <2>4. \A u \in Thread : \A i \in 1 .. Len(thread'[u].tops) : thread'[u].tops[i] => i = 1
      <3> TAKE u \in Thread
      <3>1. CASE u = t
        <4>1. thread'[u].tops = <<>>
          BY <1>8, <1>9, <3>1
        <4> QED BY <4>1
      <3>2. CASE u # t
        BY <1>3, <3>2 DEF Inv, TxnInv
      <3> QED BY <3>1, <3>2
    <2> QED BY <2>1, <2>2, <2>3, <2>4 DEF TxnInv
  <1>20. LockInv'
    <2>1. \A u \in Thread : thread[u].session \in Session \cup {None}
      BY StateTypes DEF Inv
    <2> QED BY <1>3, <1>4, <1>5, <2>1 DEF Inv, LockInv
  <1>21. \A r \in Session : /\ RootClasses(r)' = IF r = s THEN 0 ELSE RootClasses(r)
                            /\ HasRoot(r)' = (r # s /\ HasRoot(r))
    <2> TAKE r \in Session
    <2>1. CASE r = s
      <3>1. session'[r].pend = <<>>
        BY <1>4, <2>1
      <3>2. RootClasses(r)' = 0
        BY <3>1, Nothing DEF RootClasses
      <3>3. HasRoot(r)' = FALSE
        BY <3>1, Nothing DEF HasRoot, Contains
      <3> QED BY <2>1, <3>2, <3>3
    <2>2. CASE r # s
      <3>1. session'[r].pend = session[r].pend
        BY <1>4, <2>2
      <3> QED BY <2>2, <3>1 DEF RootClasses, HasRoot, Contains
    <2> QED BY <2>1, <2>2
  <1>22. RootInv'
    <2>1. /\ db.rootClass = (IF db.root THEN 1 ELSE 0) /\ db.root \in BOOLEAN /\ HasRoot(s) \in BOOLEAN
          /\ HasRoot(s) => RootClasses(s) = IF db.root THEN 0 ELSE 1
          /\ \A r \in Session : RootClasses(r) <= 1
          /\ \A r \in Session : HasRoot(r) => RootClasses(r) = IF db.root THEN 0 ELSE 1
          /\ \A q, r \in Session : HasRoot(q) /\ HasRoot(r) => q = r
      BY <1>3 DEF Inv, RootInv, TypeOK, Database, HasRoot, Contains
    <2>2. ~HasRoot(s) => RootClasses(s) = 0
      BY <1>10, <1>12
    <2>3. db'.rootClass = IF db'.root THEN 1 ELSE 0
      BY <1>7, <2>1, <2>2
    <2>4. \A r \in Session : HasRoot(r)' => RootClasses(r)' = IF db'.root THEN 0 ELSE 1
      BY <1>3, <1>7, <1>21, <2>1
    <2>5. \A r \in Session : RootClasses(r)' <= 1
      BY <1>21, <2>1
    <2>6. \A q, r \in Session : HasRoot(q)' /\ HasRoot(r)' => q = r
      BY <1>21, <2>1
    <2> QED BY <2>3, <2>4, <2>5, <2>6 DEF RootInv
  <1>23. TriggerInv'
    <2>1. \A r \in Session : \A y : Contains(session'[r].pend, y) => Contains(session[r].pend, y)
      BY <1>4, Nothing
    <2> QED BY <2>1 DEF Inv, TriggerInv
  <1>24. ListenInv'
    <2>1. \A u \in Thread : thread[u].session \in Session \cup {None}
      BY StateTypes DEF Inv
    <2>2. \A u \in Thread : thread'[u].due \subseteq thread'[u].listening
      BY <1>3 DEF Inv, ListenInv
    <2>3. \A u \in Thread : \A o \in thread'[u].listening :
            /\ menu' = "notify" /\ thread'[u].session # None
            /\ session'[thread'[u].session].observers[o] # "none"
      <3> SUFFICES ASSUME NEW u \in Thread, NEW o \in thread[u].listening
                   PROVE  /\ menu = "notify" /\ thread[u].session # None
                          /\ session'[thread[u].session].observers[o] # "none"
        BY <1>3, <1>5
      <3>1. /\ menu = "notify" /\ thread[u].session # None
            /\ session[thread[u].session].observers[o] # "none"
        BY DEF Inv, ListenInv
      <3> QED BY <1>4, <2>1, <3>1
    <2>4. \A r \in Session, o \in Obj : session'[r].observers[o] = "live" =>
            o \in db'.triggers \/ Contains(session'[r].pend, <<"trigger", o>>)
      <3> TAKE r \in Session, o \in Obj
      <3>1. CASE r = s
        BY <1>4, <1>10, <3>1
      <3>2. CASE r # s
        BY <1>4, <1>12, <3>2 DEF Inv, ListenInv
      <3> QED BY <3>1, <3>2
    <2>5. /\ menu' # "notify" => \A r \in Session, o \in Obj : session'[r].observers[o] = "none"
          /\ \A c \in Client : client'[c].dead => menu' \in {"dictionary", "monitors"}
      BY <1>3, <1>4, <1>5 DEF Inv, ListenInv
    <2> QED BY <2>2, <2>3, <2>4, <2>5 DEF ListenInv
  <1>25. FailedConversionLeavesNothing'
    BY <1>7, <1>10 DEF Inv, FailedConversionLeavesNothing
  <1>26. UpdateIsAnnounced'
    <2> SUFFICES ASSUME NEW u \in Thread, NEW o \in thread'[u].due
                 PROVE  \/ o \in session'[thread'[u].session].inbox
                        \/ session'[thread'[u].session].observers[o] = "deleted"
      BY DEF UpdateIsAnnounced
    <2>1. PICK r : r = thread[u].session /\ thread'[u].session = r
      BY <1>3
    <2>2. o \in thread[u].listening /\ o \in Obj
      BY <1>3, StateTypes DEF Inv, ListenInv, ThreadState
    <2>3. r \in Session /\ session[r].observers[o] \in {"live", "deleted"}
      <3>1. r \in Session /\ session[r].observers[o] # "none"
        BY <2>1, <2>2, StateTypes DEF Inv, ListenInv
      <3>2. session[r].observers[o] \in {"none", "live", "deleted"}
        BY <2>2, <3>1 DEF Inv, TypeOK, SessionState
      <3> QED BY <3>1, <3>2
    <2>4. CASE o \in thread[u].due
      BY <1>4, <2>1, <2>3, <2>4 DEF Inv, UpdateIsAnnounced
    <2>5. CASE o \in Updated(s) /\ session[r].observers[o] = "live"
      <3>1. o \in db.triggers \/ Contains(session[r].pend, <<"trigger", o>>)
        BY <2>2, <2>3, <2>5 DEF Inv, ListenInv
      <3>2. Contains(session[s].pend, <<"write", o>>)
        <4>1. session[s].pend \in Seq(Steps)
          BY <1>3 DEF Inv, TypeOK, SessionState
        <4>2. PICK i \in DOMAIN session[s].pend : session[s].pend[i] = <<"write", o>>
          BY <2>5 DEF Updated
        <4>3. i \in 1 .. Len(session[s].pend)
          BY <4>1, LenProperties
        <4> QED BY <4>2, <4>3 DEF Contains
      <3>3. o \in db'.triggers
        <4>1. CASE o \in db.triggers
          BY <1>12, <4>1
        <4>2. CASE Contains(session[r].pend, <<"trigger", o>>)
          <5>1. r = s
            BY <1>3, <2>2, <2>3, <3>2, <4>2 DEF Inv, TriggerInv
          <5> QED BY <1>7, <2>2, <4>2, <5>1
        <4> QED BY <3>1, <4>1, <4>2
      <3> QED BY <1>4, <2>1, <2>3, <2>5, <3>3
    <2>6. CASE session[r].observers[o] = "deleted"
      BY <1>4, <2>1, <2>3, <2>6
    <2>7. o \in thread[u].due \/ o \in Updated(s)
      BY <1>3
    <2> QED BY <2>3, <2>4, <2>5, <2>6, <2>7
  <1> QED BY <1>6, <1>13, <1>18, <1>19, <1>20, <1>22, <1>23, <1>24, <1>25, <1>26 DEF Inv

\* How often x is in p.
Times(p, x) == Cardinality({i \in DOMAIN p : p[i] = x})

\* A sequence with one more element.
LEMMA OneMore ==
  ASSUME NEW p \in Seq(Steps), NEW w \in Steps, NEW x
  PROVE  /\ Contains(Append(p, w), x) <=> (Contains(p, x) \/ x = w)
         /\ Times(Append(p, w), x) = Times(p, x) + IF x = w THEN 1 ELSE 0
  <1>1. /\ Append(p, w) \in Seq(Steps) /\ Len(Append(p, w)) = Len(p) + 1 /\ Len(p) \in Nat
        /\ \A i \in 1 .. Len(p) : Append(p, w)[i] = p[i]
        /\ Append(p, w)[Len(p) + 1] = w
    BY AppendProperties, LenProperties
  <1>2. Contains(Append(p, w), x) <=> (Contains(p, x) \/ x = w)
    BY <1>1 DEF Contains
  <1> DEFINE A == {i \in DOMAIN p : p[i] = x}
             B == {i \in DOMAIN Append(p, w) : Append(p, w)[i] = x}
  <1>3. DOMAIN p = 1 .. Len(p) /\ DOMAIN Append(p, w) = 1 .. Len(p) + 1
    BY <1>1, LenProperties
  <1>4. IsFiniteSet(A) /\ Len(p) + 1 \notin A
    <2>1. A \subseteq 1 .. Len(p)
      BY <1>3
    <2>2. IsFiniteSet(1 .. Len(p))
      <3>1. Len(p) \in Int /\ 1 \in Int
        BY <1>1
      <3> QED BY <3>1, FS_Interval
    <2> QED BY <1>1, <2>1, <2>2, FS_Subset
  <1>5. B = IF x = w THEN A \cup {Len(p) + 1} ELSE A
    BY <1>1, <1>3
  <1>6. Cardinality(B) = Cardinality(A) + IF x = w THEN 1 ELSE 0
    <2>1. CASE x = w
      BY <1>4, <1>5, <2>1, FS_AddElement
    <2>2. CASE x # w
      <3>1. Cardinality(A) \in Nat
        BY <1>4, FS_CardinalityType
      <3>2. B = A
        BY <1>5, <2>2
      <3> HIDE DEF A, B
      <3> QED BY <2>2, <3>1, <3>2
    <2> QED BY <2>1, <2>2
  <1> QED BY <1>2, <1>6 DEF Times

LEMMA WriteAfter ==
  ASSUME NEW m \in Mark, NEW st, st[1] \in WriteKinds
  PROVE  LET n == After(m, st) IN
         /\ n.depth = m.depth /\ n.held = m.held /\ n.begun = m.begun /\ n.none = m.none
         /\ n.owed = (st[1] = "rootClass" \/ (m.owed /\ st[1] # "root"))
         /\ n.lost = (st[1] = "convert" \/ m.lost)
         /\ n.armed = IF st[1] = "trigger" THEN {st[2]} ELSE m.armed
  BY MarkFields DEF After, WriteKinds

\* No other session has a write that conflicts with one that runs.
LEMMA NoConflict ==
  ASSUME NEW s \in Session, NEW w, WriteBlockers(s, w) = {}, NEW r \in Session \ {s}, NEW x,
         session[r].pend \in Seq(Steps), Contains(session[r].pend, x)
  PROVE  ~Conflict(w, x)
  <1>1. PICK i \in 1 .. Len(session[r].pend) : session[r].pend[i] = x
    BY DEF Contains
  <1>2. i \in DOMAIN session[r].pend
    BY <1>1, LenProperties
  <1> QED BY <1>1, <1>2 DEF WriteBlockers

\* The class of the root is there already, as the transaction of s sees it.
Repeats(s, w) == w[1] = "rootClass" /\ db.rootClass + RootClasses(s) > 0

\* What a write does to the writes of its session.
LEMMA Written ==
  ASSUME Inv, NEW t \in Thread, Write(t), NEW s, s = thread[t].session, NEW w, w = Head(thread[t].code)
  PROVE  /\ s \in Session /\ w \in Steps /\ w[1] \in WriteKinds /\ session[s].pend \in Seq(Steps)
         /\ Blockers(s, w) = {} /\ (w[1] = "root" => RootFits(s))
         /\ \A r \in Session \ {s} : /\ RootClasses(r)' = RootClasses(r) /\ (HasRoot(r)' <=> HasRoot(r))
                                     /\ session'[r].pend = session[r].pend
         /\ RootClasses(s)' = RootClasses(s) + IF w[1] = "rootClass" /\ ~Repeats(s, w) THEN 1 ELSE 0
         /\ HasRoot(s)' <=> HasRoot(s) \/ w[1] = "root"
         /\ \A x : Contains(session'[s].pend, x) <=>
                   Contains(session[s].pend, x) \/ (x = w /\ ~Repeats(s, w))
  <1>1. /\ Quiet(t) /\ s \in Session /\ w \in Steps /\ w[1] \in WriteKinds
        /\ Blockers(s, w) = {} /\ (w[1] = "root" => RootFits(s))
    BY WriteEffect DEF Inv
  <1>2. session'[s].pend = IF w[1] = "rootClass" /\ Visible(s).rootClass > 0 THEN session[s].pend
                           ELSE Append(session[s].pend, w)
    BY WriteEffect DEF Inv
  <1>3. session[s].pend \in Seq(Steps)
    BY <1>1 DEF Inv, TypeOK, SessionState
  <1>4. \A r \in Session \ {s} : /\ RootClasses(r)' = RootClasses(r) /\ (HasRoot(r)' <=> HasRoot(r))
                                 /\ session'[r].pend = session[r].pend
    BY <1>1 DEF Quiet, KeepsSessions, RootClasses, HasRoot
  <1>5. /\ Repeats(s, w) => session'[s].pend = session[s].pend
        /\ ~Repeats(s, w) => session'[s].pend = Append(session[s].pend, w)
    BY <1>1, <1>2, AppliedWrites DEF Repeats
  <1>6. /\ w[1] = "rootClass" <=> w = <<"rootClass">>
        /\ w[1] = "root" <=> w = <<"root">>
    BY <1>1, StepArguments DEF BareKinds
  <1>7. RootClasses(s) \in Nat
    BY <1>1, RootClassesType DEF Inv
  <1>8. CASE Repeats(s, w)
    <2>1. session'[s].pend = session[s].pend /\ w[1] = "rootClass"
      BY <1>5, <1>8 DEF Repeats
    <2>2. /\ RootClasses(s)' = RootClasses(s) /\ (HasRoot(s)' <=> HasRoot(s))
          /\ \A x : Contains(session'[s].pend, x) <=> Contains(session[s].pend, x)
      BY <2>1 DEF RootClasses, HasRoot
    <2>3. RootClasses(s)' = RootClasses(s) + IF w[1] = "rootClass" /\ ~Repeats(s, w) THEN 1 ELSE 0
      BY <1>7, <1>8, <2>2
    <2> QED BY <1>1, <1>3, <1>4, <1>8, <2>1, <2>2, <2>3
  <1>9. CASE ~Repeats(s, w)
    <2> DEFINE p == session[s].pend
    <2>1. session'[s].pend = Append(p, w) /\ p \in Seq(Steps) /\ w \in Steps
      BY <1>1, <1>3, <1>5, <1>9
    <2> HIDE DEF p
    <2>7. \A x : Contains(Append(p, w), x) <=> Contains(p, x) \/ x = w
      BY <2>1, OneMore, Zenon
    <2>8. PICK y : y = <<"rootClass">>
      OBVIOUS
    <2>2. Times(Append(p, w), y) = Times(p, y) + IF y = w THEN 1 ELSE 0
      BY <2>1, OneMore, Zenon
    <2>3. RootClasses(s)' = RootClasses(s) + IF <<"rootClass">> = w THEN 1 ELSE 0
      BY <2>1, <2>2, <2>8, Zenon DEF RootClasses, Times, p
    <2>4. \A x : Contains(session'[s].pend, x) <=> Contains(session[s].pend, x) \/ x = w
      BY <2>1, <2>7, Zenon DEF p
    <2>5. HasRoot(s)' <=> HasRoot(s) \/ w[1] = "root"
      BY <1>6, <2>4 DEF HasRoot
    <2>6. RootClasses(s)' = RootClasses(s) + IF w[1] = "rootClass" /\ ~Repeats(s, w) THEN 1 ELSE 0
      BY <1>6, <1>9, <2>3
    <2> QED BY <1>1, <1>3, <1>4, <1>9, <2>4, <2>5, <2>6
  <1> QED BY <1>8, <1>9

LEMMA WriteKeeps ==
  ASSUME Inv, NEW t \in Thread, Write(t)
  PROVE  Inv'
  <1>1. PICK s, w, tops : s = thread[t].session /\ w = Head(thread[t].code) /\ tops = thread[t].tops
    OBVIOUS
  <1>2. /\ TypeOK' /\ Quiet(t) /\ s \in Session /\ client' = client /\ thread'[t].code = Rest(t)
        /\ thread'[t].tops = tops /\ session'[s].txn = session[s].txn
        /\ session[s].txn = "open" /\ First(t, w[1])
    BY <1>1, WriteEffect DEF Inv
  <1>3. /\ w \in Steps /\ w[1] \in WriteKinds /\ session[s].pend \in Seq(Steps)
        /\ Blockers(s, w) = {} /\ (w[1] = "root" => RootFits(s))
    BY <1>1, Written
  <1>20. \A r \in Session \ {s} : /\ RootClasses(r)' = RootClasses(r) /\ (HasRoot(r)' <=> HasRoot(r))
                                 /\ session'[r].pend = session[r].pend
    BY <1>1, Written, Zenon
  <1>4. /\ RootClasses(s)' = RootClasses(s) + IF w[1] = "rootClass" /\ ~Repeats(s, w) THEN 1 ELSE 0
        /\ HasRoot(s)' <=> HasRoot(s) \/ w[1] = "root"
        /\ \A x : Contains(session'[s].pend, x) <=>
                  Contains(session[s].pend, x) \/ (x = w /\ ~Repeats(s, w))
    BY <1>1, Written
  <1>5. PICK m \in Mark : StepAt(t, m)
    BY <1>2, StepMark DEF Inv
  <1>6. PICK n : n = After(m, w)
    OBVIOUS
  <1>7. /\ n \in Mark /\ Allowed(m, w)
        /\ m.depth = Len(tops) /\ m.held = (client[ClientOf[t]].cs = t) /\ TxnAt(s, m, tops)
        /\ menu = "notify" => m.none = {o \in Obj : session[s].observers[o] = "none"}
        /\ \E r \in Mark : AtRest(r) /\ Path(menu, Rest(t), n, r)
        /\ ~client[ClientOf[t]].dead /\ ClientOf[t] \in Client /\ s # None
    BY <1>1, <1>2, <1>5, <1>6, AtStep, SessionAssumption
  <1>8. /\ n.depth = m.depth /\ n.held = m.held /\ n.begun = m.begun /\ n.none = m.none
        /\ n.owed = (w[1] = "rootClass" \/ (m.owed /\ w[1] # "root"))
        /\ n.lost = (w[1] = "convert" \/ m.lost)
        /\ n.armed = IF w[1] = "trigger" THEN {w[2]} ELSE m.armed
    BY <1>3, <1>5, <1>6, WriteAfter
  <1>9. /\ ~m.lost /\ m.armed = {} /\ (w[1] = "root" => m.owed) /\ (w[1] = "rootClass" => ~m.owed)
        /\ m.owed \in BOOLEAN /\ m.depth >= 1
    <2>1. w[1] \in SqlSteps
      BY <1>3 DEF WriteKinds, SqlSteps
    <2> QED BY <1>5, <1>7, <2>1, MarkFields DEF Allowed
  <1>10. /\ thread'[t].session = s /\ menu' = menu /\ db' = db
         /\ session'[s].observers = session[s].observers
    BY <1>1, <1>2 DEF Quiet, KeepsThreads, KeepsSessions
  <1>11. /\ db.rootClass = (IF db.root THEN 1 ELSE 0) /\ db.root \in BOOLEAN
         /\ RootClasses(s) \in Nat /\ RootClasses(s) <= 1
         /\ HasRoot(s) => RootClasses(s) = IF db.root THEN 0 ELSE 1
    BY <1>2, RootClassesType DEF Inv, RootInv, TypeOK, Database
  <1>12. /\ w[1] = "convert" <=> w = <<"convert">>
         /\ w[1] = "trigger" => w[2] \in Obj /\ w = <<"trigger", w[2]>>
         /\ w[1] \in {"trigger", "write"} => ~Repeats(s, w)
         /\ w[1] # "rootClass" => ~Repeats(s, w)
         /\ Repeats(s, w) <=> w[1] = "rootClass" /\ db.rootClass + RootClasses(s) > 0
    BY <1>3, StepArguments DEF BareKinds, ObjKinds, Repeats
  <1>13. TxnAt(s, n, tops)'
    <2>1. /\ session[s].txn = "open" => /\ tops # <<>> \/ m.begun
                                        /\ tops # <<>> => tops[1] = ~m.begun
          /\ m.begun => (tops # <<>> => ~tops[1])
          /\ ~Contains(session[s].pend, <<"convert">>)
          /\ m.owed => db.rootClass + RootClasses(s) >= 1
          /\ ~m.owed /\ RootClasses(s) > 0 => HasRoot(s)
          /\ \A o \in Obj : session[s].observers[o] = "live" => o \in db.triggers
      BY <1>2, <1>7, <1>9 DEF TxnAt
    <2>2. Contains(session'[s].pend, <<"convert">>) => n.lost
      BY <1>4, <1>8, <1>12, <2>1
    <2>3. n.owed => db'.rootClass + RootClasses(s)' >= 1
      <3>1. CASE w[1] = "rootClass"
        <4>1. CASE Repeats(s, w)
          BY <1>4, <1>10, <1>11, <1>12, <4>1
        <4>2. CASE ~Repeats(s, w)
          BY <1>4, <1>10, <1>11, <3>1, <4>2
        <4> QED BY <4>1, <4>2
      <3>2. CASE w[1] # "rootClass"
        BY <1>4, <1>8, <1>10, <1>11, <2>1, <3>2
      <3> QED BY <3>1, <3>2
    <2>4. ~n.owed /\ RootClasses(s)' > 0 => HasRoot(s)'
      <3>1. CASE w[1] = "root"
        BY <1>4, <3>1
      <3>2. CASE w[1] # "root"
        <4>2. CASE w[1] = "rootClass"
          BY <1>8, <4>2
        <4>3. CASE w[1] # "rootClass"
          <5>1. RootClasses(s)' = RootClasses(s) /\ (HasRoot(s)' <=> HasRoot(s))
            BY <1>4, <1>11, <3>2, <4>3
          <5> QED BY <1>8, <1>9, <2>1, <3>2, <4>3, <5>1
        <4> QED BY <4>2, <4>3
      <3> QED BY <3>1, <3>2
    <2>5. \A o \in n.armed : Contains(session'[s].pend, <<"trigger", o>>)
      BY <1>4, <1>8, <1>9, <1>12
    <2>6. \A o \in Obj : session'[s].observers[o] = "live" => o \in db'.triggers \cup n.armed
      BY <1>10, <2>1
    <2> QED BY <1>2, <1>8, <2>1, <2>2, <2>3, <2>4, <2>5, <2>6 DEF TxnAt
  <1>14. ThreadAt(t, n)'
    <2>1. /\ n.depth = Len(tops) /\ n.held = (client'[ClientOf[t]].cs = t)
          /\ menu = "notify" => n.none = {o \in Obj : session'[s].observers[o] = "none"}
      BY <1>2, <1>7, <1>8, <1>10
    <2>2. \E r \in Mark : AtRest(r) /\ Path(menu, thread'[t].code, n, r)
      BY <1>2, <1>7
    <2> QED BY <1>1, <1>2, <1>7, <1>10, <1>13, <2>1, <2>2, OwnStep DEF Inv
  <1>15. CallInv'
    BY <1>2, <1>7, <1>14, QuietUntouched, CallsStay DEF Inv
  <1>16. TxnInv'
    <2>1. /\ session'[s].txn = "open" /\ (thread'[t].tops # <<>> => session'[s].txn # "none")
          /\ \A i \in 1 .. Len(thread'[t].tops) : thread'[t].tops[i] => i = 1
      BY <1>1, <1>2 DEF Inv, TxnInv
    <2> QED BY <1>1, <1>2, <1>7, <2>1, QuietTxn
  <1>17. ListenInv'
    <2>1. \A o \in Obj : Contains(session[s].pend, <<"trigger", o>>)
                           => Contains(session'[s].pend, <<"trigger", o>>)
      BY <1>4
    <2> QED BY <1>1, <1>2, <2>1, QuietListen
  <1>18. RootInv'
    <2>1. \A r \in Session : RootClasses(r)' <= 1
      <3> TAKE r \in Session
      <3>1. CASE r # s
        BY <1>3, <1>20, <3>1 DEF Inv, RootInv
      <3>2. CASE r = s
        <4>1. CASE w[1] = "rootClass" /\ ~Repeats(s, w)
          BY <1>4, <1>11, <1>12, <3>2, <4>1
        <4>2. CASE ~(w[1] = "rootClass" /\ ~Repeats(s, w))
          BY <1>4, <1>11, <3>2, <4>2
        <4> QED BY <4>1, <4>2
      <3> QED BY <3>1, <3>2
    <2>2. \A r \in Session : HasRoot(r)' => RootClasses(r)' = IF db.root THEN 0 ELSE 1
      <3> TAKE r \in Session
      <3>1. CASE r # s
        BY <1>3, <1>20, <3>1 DEF Inv, RootInv
      <3>2. CASE r = s /\ w[1] = "root"
        <4>1. db.rootClass + RootClasses(s) >= 1
          BY <1>2, <1>7, <1>9, <3>2 DEF TxnAt
        <4>2. ~db.root \/ db.rootClass + RootClasses(s) = 1
          BY <1>2, <1>3, <3>2, AppliedWrites DEF RootFits
        <4>3. RootClasses(s)' = RootClasses(s)
          BY <1>4, <1>11, <3>2
        <4> QED BY <1>11, <3>2, <4>1, <4>2, <4>3
      <3>3. CASE r = s /\ w[1] = "rootClass" /\ ~Repeats(s, w)
        BY <1>4, <1>11, <1>12, <3>3
      <3>4. CASE r = s /\ w[1] # "root" /\ ~(w[1] = "rootClass" /\ ~Repeats(s, w))
        <4>1. RootClasses(s)' = RootClasses(s) /\ (HasRoot(s)' <=> HasRoot(s))
          BY <1>4, <1>11, <3>4
        <4> QED BY <1>11, <3>4, <4>1
      <3> QED BY <3>1, <3>2, <3>3, <3>4
    <2>3. \A q, r \in Session : HasRoot(q)' /\ HasRoot(r)' => q = r
      <3>1. \A r \in Session \ {s} : ~(w[1] = "root" /\ HasRoot(r))
        <4> SUFFICES ASSUME NEW r \in Session \ {s}, w[1] = "root", HasRoot(r) PROVE FALSE
          OBVIOUS
        <4>1. WriteBlockers(s, w) = {}
          BY <1>3 DEF Blockers
        <4>2. session[r].pend \in Seq(Steps) /\ Contains(session[r].pend, <<"root">>)
          BY DEF HasRoot, Inv, TypeOK, SessionState
        <4>3. ~Conflict(w, <<"root">>)
          BY <1>2, <4>1, <4>2, NoConflict
        <4> QED BY <4>3 DEF Conflict
      <3>2. \A r \in Session \ {s} : HasRoot(s)' => ~HasRoot(r)'
        BY <1>2, <1>3, <1>20, <1>4, <3>1 DEF Inv, RootInv
      <3>3. \A q, r \in Session \ {s} : HasRoot(q)' /\ HasRoot(r)' => q = r
        BY <1>3, <1>20 DEF Inv, RootInv
      <3> QED BY <3>2, <3>3
    <2>4. db'.rootClass = IF db'.root THEN 1 ELSE 0
      BY <1>10, <1>11
    <2> QED BY <1>10, <2>1, <2>2, <2>3, <2>4 DEF RootInv
  <1>19. TriggerInv'
    <2>1. /\ w[1] \in {"trigger", "write"} => WriteBlockers(s, w) = {}
          /\ w[1] = "write" => w[2] \in Obj /\ w = <<"write", w[2]>>
      BY <1>3, StepArguments DEF Blockers, ObjKinds
    <2>2. \A r \in Session : session[r].pend \in Seq(Steps)
      BY DEF Inv, TypeOK, SessionState
    <2>3. \A r \in Session \ {s}, o \in Obj :
            /\ w[1] = "trigger" => ~Contains(session[r].pend, <<"write", o>>)
            /\ w[1] = "write" => ~Contains(session[r].pend, <<"trigger", o>>)
      <3> SUFFICES ASSUME NEW r \in Session \ {s}, NEW o \in Obj
                   PROVE  /\ w[1] = "trigger" => ~Contains(session[r].pend, <<"write", o>>)
                          /\ w[1] = "write" => ~Contains(session[r].pend, <<"trigger", o>>)
        OBVIOUS
      <3>1. ASSUME w[1] = "trigger", Contains(session[r].pend, <<"write", o>>) PROVE FALSE
        <4>1. ~Conflict(w, <<"write", o>>)
          BY <1>2, <2>1, <2>2, <3>1, NoConflict
        <4> QED BY <3>1, <4>1 DEF Conflict
      <3>2. ASSUME w[1] = "write", Contains(session[r].pend, <<"trigger", o>>) PROVE FALSE
        <4>1. ~Conflict(w, <<"trigger", o>>)
          BY <1>2, <2>1, <2>2, <3>2, NoConflict
        <4> QED BY <3>2, <4>1 DEF Conflict
      <3> QED BY <3>1, <3>2
    <2>4. \A o \in Obj :
            /\ Contains(session'[s].pend, <<"trigger", o>>) =>
                 Contains(session[s].pend, <<"trigger", o>>) \/ w[1] = "trigger"
            /\ Contains(session'[s].pend, <<"write", o>>) =>
                 Contains(session[s].pend, <<"write", o>>) \/ w[1] = "write"
      BY <1>4
    <2> SUFFICES ASSUME NEW q \in Session, NEW r \in Session, NEW o \in Obj, NEW p \in Obj, q # r,
                        Contains(session'[q].pend, <<"trigger", o>>),
                        Contains(session'[r].pend, <<"write", p>>)
                 PROVE  FALSE
      BY DEF TriggerInv
    <2>5. ~(Contains(session[q].pend, <<"trigger", o>>) /\ Contains(session[r].pend, <<"write", p>>))
      BY DEF Inv, TriggerInv
    <2>6. CASE q = s
      <3>1. Contains(session[r].pend, <<"write", p>>)
        BY <1>3, <1>20, <2>6
      <3> QED BY <2>3, <2>4, <2>5, <2>6, <3>1
    <2>7. CASE r = s
      <3>1. Contains(session[q].pend, <<"trigger", o>>)
        BY <1>3, <1>20, <2>7
      <3> QED BY <2>3, <2>4, <2>5, <2>7, <3>1
    <2>8. CASE q # s /\ r # s
      BY <1>3, <1>20, <2>5, <2>8
    <2> QED BY <2>6, <2>7, <2>8
  <1> QED BY <1>2, <1>15, <1>16, <1>17, <1>18, <1>19, QuietKeeps DEF Inv

\* A step that leaves the transactions, the clients and the other threads alone.
Local(t, s) ==
  /\ client' = client /\ db' = db /\ menu' = menu /\ s = thread[t].session
  /\ thread'[t].session = s /\ thread'[t].tops = thread[t].tops
  /\ \A u \in Thread \ {t} : thread'[u] = thread[u]
  /\ \A q \in Session \ {s} : session'[q] = session[q]
  /\ session'[s].txn = session[s].txn /\ session'[s].pend = session[s].pend

LEMMA LocalKeeps ==
  ASSUME Inv, TypeOK', NEW t \in Thread, NEW s \in Session, Local(t, s)
  PROVE  /\ OwnInv' /\ TxnInv' /\ RootInv' /\ TriggerInv' /\ FailedConversionLeavesNothing'
         /\ \A u \in Thread \ {t} : Untouched(u)
  <1>1. /\ client' = client /\ db' = db /\ menu' = menu /\ s = thread[t].session
        /\ \A u \in Thread : thread'[u].session = thread[u].session /\ thread'[u].tops = thread[u].tops
        /\ \A q \in Session : session'[q].txn = session[q].txn /\ session'[q].pend = session[q].pend
    BY DEF Local
  <1>2. \A u \in Thread \ {t} : /\ thread'[u] = thread[u]
                                /\ thread[u].session # None => thread[u].session \in Session \ {s}
    BY <1>1, StateTypes DEF Local, Inv, OwnInv
  <1>3. OwnInv'
    BY <1>1 DEF Inv, OwnInv
  <1>4. TxnInv'
    <2>1. \A u \in Thread : thread[u].session \in Session \cup {None}
      BY StateTypes DEF Inv
    <2>2. \A r \in Session : session'[r].txn = "open" =>
            \E u \in Thread : thread'[u].session = r /\ ~client'[ClientOf[u]].dead
      BY <1>1 DEF Inv, TxnInv
    <2>3. \A u \in Thread : thread'[u].tops # <<>> =>
            thread'[u].session # None /\ session'[thread'[u].session].txn # "none"
      BY <1>1, <2>1 DEF Inv, TxnInv
    <2>4. /\ \A r \in Session : session'[r].pend # <<>> => session'[r].txn = "open"
          /\ \A u \in Thread : \A i \in 1 .. Len(thread'[u].tops) : thread'[u].tops[i] => i = 1
      BY <1>1 DEF Inv, TxnInv
    <2> QED BY <2>2, <2>3, <2>4 DEF TxnInv
  <1>5. RootInv' /\ TriggerInv'
    BY <1>1, ShrinkKeeps DEF Inv
  <1>6. FailedConversionLeavesNothing'
    BY <1>1 DEF Inv, FailedConversionLeavesNothing
  <1>7. \A u \in Thread \ {t} : Untouched(u)
    <2>1. db.rootClass <= db'.rootClass /\ db.triggers \subseteq db'.triggers
      BY <1>1 DEF Inv, TypeOK, Database
    <2> QED BY <1>1, <1>2, <2>1 DEF Untouched, Local
  <1> QED BY <1>3, <1>4, <1>5, <1>6, <1>7

\* The thread itself, when its mark and its observers stay as they are.
LEMMA LocalStep ==
  ASSUME Inv, TypeOK', NEW t \in Thread, NEW s \in Session, Local(t, s),
         NEW m \in Mark, NEW n \in Mark, ~client[ClientOf[t]].dead,
         m.depth = Len(thread[t].tops), m.held = (client[ClientOf[t]].cs = t),
         TxnAt(s, m, thread[t].tops),
         menu = "notify" => m.none = {o \in Obj : session[s].observers[o] = "none"},
         session'[s].observers = session[s].observers,
         n.depth = m.depth, n.held = m.held, n.begun = m.begun, n.owed = m.owed, n.lost = m.lost,
         n.armed = m.armed, n.none = m.none,
         \E r \in Mark : AtRest(r) /\ Path(menu, thread'[t].code, n, r)
  PROVE  CallInv'
  <1>1. PICK tops : tops = thread[t].tops
    OBVIOUS
  <1>2. /\ client' = client /\ db' = db /\ menu' = menu /\ s = thread[t].session /\ s # None
        /\ thread'[t].session = s /\ thread'[t].tops = tops
        /\ session'[s].txn = session[s].txn /\ session'[s].pend = session[s].pend
    BY <1>1, SessionAssumption DEF Local
  <1>3. TxnAt(s, n, tops)'
    <2>1. db.rootClass <= db'.rootClass /\ db.triggers \subseteq db'.triggers
      BY <1>2 DEF Inv, TypeOK, Database
    <2> QED BY <1>1, <1>2, <2>1, TxnStays DEF Inv
  <1>4. ThreadAt(t, n)'
    <2>1. /\ n.depth = Len(tops) /\ n.held = (client'[ClientOf[t]].cs = t)
          /\ menu = "notify" => n.none = {o \in Obj : session'[s].observers[o] = "none"}
      BY <1>1, <1>2
    <2> QED BY <1>2, <1>3, <2>1, OwnStep DEF Inv
  <1> QED BY <1>2, <1>4, LocalKeeps, CallsStay DEF Inv

\* What listening rests on does not change.
LEMMA SameListening ==
  ASSUME Inv, db' = db, menu' = menu, client' = client,
         \A u \in Thread : /\ thread'[u].session = thread[u].session
                           /\ thread'[u].listening = thread[u].listening /\ thread'[u].due = thread[u].due,
         \A q \in Session : /\ session'[q].observers = session[q].observers
                            /\ session'[q].inbox = session[q].inbox /\ session'[q].pend = session[q].pend
  PROVE  ListenInv' /\ UpdateIsAnnounced'
  <1>1. \A u \in Thread : thread[u].session \in Session \cup {None}
    BY StateTypes DEF Inv
  <1>2. ListenInv'
    BY <1>1 DEF Inv, ListenInv
  <1>3. UpdateIsAnnounced'
    <2> SUFFICES ASSUME NEW u \in Thread, NEW o \in thread[u].due
                 PROVE  \/ o \in session'[thread[u].session].inbox
                        \/ session'[thread[u].session].observers[o] = "deleted"
      BY DEF UpdateIsAnnounced
    <2>1. thread[u].session \in Session
      <3>1. o \in thread[u].listening
        BY DEF Inv, ListenInv
      <3> QED BY <1>1, <3>1 DEF Inv, ListenInv
    <2> QED BY <2>1 DEF Inv, UpdateIsAnnounced
  <1> QED BY <1>2, <1>3

LEMMA LockKeeps ==
  ASSUME Inv, NEW t \in Thread, AdvisoryLock(t)
  PROVE  Inv'
  <1>1. PICK s : s = thread[t].session
    OBVIOUS
  <1>2. /\ TypeOK' /\ Local(t, s) /\ s \in Session /\ thread'[t].code = Rest(t)
        /\ thread'[t].listening = thread[t].listening /\ thread'[t].due = thread[t].due
        /\ session'[s].observers = session[s].observers /\ session'[s].inbox = session[s].inbox
        /\ First(t, "lock") \/ First(t, "try")
    BY <1>1, LockEffect DEF Inv, Local
  <1>3. \/ session' = session /\ Quiet(t)
        \/ \E k \in LockId, mode \in Modes :
             /\ LockBlockers(s, k, mode) = {}
             /\ session'[s].locks = [session[s].locks EXCEPT ![k] =
                  [session[s].locks[k] EXCEPT ![mode] = session[s].locks[k][mode] + 1]]
             /\ thread'[t].mine = [thread[t].mine EXCEPT ![k] =
                  [thread[t].mine[k] EXCEPT ![mode] = thread[t].mine[k][mode] + 1]]
    BY <1>1, LockEffect DEF Inv
  <1>4. PICK j \in {"lock", "try"} : First(t, j)
    BY <1>2
  <1>5. PICK m \in Mark : StepAt(t, m)
    BY <1>4, StepMark DEF Inv
  <1>6. PICK n, st : st = Head(thread[t].code) /\ n = After(m, st)
    OBVIOUS
  <1>7. /\ n \in Mark /\ st[1] = j /\ Permitted(menu, st) /\ s # None
        /\ m.depth = Len(thread[t].tops) /\ m.held = (client[ClientOf[t]].cs = t)
        /\ TxnAt(s, m, thread[t].tops)
        /\ menu = "notify" => m.none = {o \in Obj : session[s].observers[o] = "none"}
        /\ \E r \in Mark : AtRest(r) /\ Path(menu, Rest(t), n, r)
        /\ ~client[ClientOf[t]].dead
    BY <1>1, <1>2, <1>4, <1>5, <1>6, AtStep, SessionAssumption
  <1>8. /\ n.depth = m.depth /\ n.held = m.held /\ n.begun = m.begun /\ n.owed = m.owed
        /\ n.lost = m.lost /\ n.armed = m.armed /\ n.none = m.none
    BY <1>4, <1>5, <1>6, <1>7, PlainAfter, MarkFields DEF Structural
  <1>9. CallInv'
    BY <1>2, <1>5, <1>7, <1>8, LocalStep
  <1>10. menu = "locks" /\ menu' = menu
    BY <1>2, <1>4, <1>7 DEF Permitted, Local
  <1>11. ListenInv' /\ UpdateIsAnnounced'
    BY <1>2, SameListening DEF Local
  <1>12. LockInv'
    <2>1. CASE session' = session /\ Quiet(t)
      BY <2>1, QuietKeeps
    <2>2. ASSUME NEW k \in LockId, NEW mode \in Modes,
                 LockBlockers(s, k, mode) = {},
                 session'[s].locks = [session[s].locks EXCEPT ![k] =
                   [session[s].locks[k] EXCEPT ![mode] = session[s].locks[k][mode] + 1]],
                 thread'[t].mine = [thread[t].mine EXCEPT ![k] =
                   [thread[t].mine[k] EXCEPT ![mode] = thread[t].mine[k][mode] + 1]]
          PROVE  LockInv'
      <3>1. /\ \A q \in Session : session[q].locks \in [LockId -> [Modes -> Nat]]
            /\ \A u \in Thread : /\ thread[u].mine \in [LockId -> [Modes -> Nat]]
                                 /\ thread[u].session \in Session \cup {None}
        BY StateTypes DEF Inv, TypeOK, SessionState, ThreadState
      <3>2. \A l \in LockId, d \in Modes :
              /\ session'[s].locks[l][d] = session[s].locks[l][d] + IF l = k /\ d = mode THEN 1 ELSE 0
              /\ thread'[t].mine[l][d] = thread[t].mine[l][d] + IF l = k /\ d = mode THEN 1 ELSE 0
        BY <1>2, <2>2, <3>1
      <3>3. /\ \A q \in Session \ {s} : session'[q].locks = session[q].locks
            /\ \A u \in Thread \ {t} : thread'[u] = thread[u]
        BY <1>2 DEF Local
      <3>4. \A q \in Session \ {s} : /\ session[q].locks[k]["exclusive"] = 0
                                     /\ mode = "exclusive" => session[q].locks[k]["shared"] = 0
        BY <2>2, <3>1 DEF LockBlockers, Modes
      <3>5. \A r, q \in Session, l \in LockId, d \in Modes :
              r # q /\ session'[r].locks[l]["exclusive"] > 0 => session'[q].locks[l][d] = 0
        <4> SUFFICES ASSUME NEW r \in Session, NEW q \in Session, NEW l \in LockId, NEW d \in Modes,
                            r # q, session'[r].locks[l]["exclusive"] > 0
                     PROVE  session'[q].locks[l][d] = 0
          OBVIOUS
        <4>1. session[r].locks[l]["exclusive"] > 0 => session[q].locks[l][d] = 0
          BY DEF Inv, LockInv
        <4>2. CASE r = s
          <5>1. session'[q].locks[l][d] = session[q].locks[l][d]
            BY <3>3, <4>2
          <5>2. CASE l = k /\ mode = "exclusive"
            BY <3>4, <4>2, <5>1, <5>2 DEF Modes
          <5>3. CASE ~(l = k /\ mode = "exclusive")
            <6>1. session'[s].locks[l]["exclusive"] = session[s].locks[l]["exclusive"]
              BY <3>1, <3>2, <5>3, <1>2 DEF Modes
            <6> QED BY <4>1, <4>2, <5>1, <6>1
          <5> QED BY <5>2, <5>3
        <4>3. CASE r # s /\ q = s
          <5>1. session[r].locks[l]["exclusive"] > 0
            BY <3>3, <4>3
          <5>2. l # k
            BY <3>4, <4>3, <5>1
          <5> QED BY <3>1, <3>2, <4>1, <4>3, <5>1, <5>2
        <4>4. CASE r # s /\ q # s
          BY <3>3, <4>1, <4>4
        <4> QED BY <4>2, <4>3, <4>4
      <3>6. \A u \in Thread, l \in LockId, d \in Modes : thread'[u].mine[l][d] > 0 =>
              /\ menu' = "locks" /\ thread'[u].session # None
              /\ session'[thread'[u].session].locks[l][d] >= thread'[u].mine[l][d]
        <4> SUFFICES ASSUME NEW u \in Thread, NEW l \in LockId, NEW d \in Modes, thread'[u].mine[l][d] > 0
                     PROVE  /\ thread'[u].session # None
                            /\ session'[thread'[u].session].locks[l][d] >= thread'[u].mine[l][d]
          BY <1>10
        <4>1. thread[u].mine[l][d] > 0 => /\ thread[u].session # None
                                          /\ session[thread[u].session].locks[l][d] >= thread[u].mine[l][d]
          BY DEF Inv, LockInv
        <4>2. CASE u = t
          <5>1. thread'[u].session = s /\ thread[u].session = s /\ s # None
            BY <1>2, <1>7, <4>2 DEF Local
          <5>2. session[s].locks[l][d] \in Nat /\ thread[t].mine[l][d] \in Nat
            BY <1>2, <3>1
          <5>3. session[s].locks[l][d] >= thread[t].mine[l][d]
            BY <4>1, <4>2, <5>1, <5>2
          <5> QED BY <3>2, <4>2, <5>1, <5>2, <5>3
        <4>3. CASE u # t
          <5>1. thread'[u] = thread[u]
            BY <3>3, <4>3
          <5>2. thread[u].session # None => thread[u].session \in Session \ {s}
            BY <1>1, <1>7, <3>1, <4>3 DEF Inv, OwnInv
          <5> QED BY <3>3, <4>1, <5>1, <5>2
        <4> QED BY <4>2, <4>3
      <3> QED BY <3>5, <3>6 DEF LockInv
    <2> QED BY <1>3, <2>1, <2>2
  <1> QED BY <1>2, <1>9, <1>11, <1>12, LocalKeeps DEF Inv

LEMMA UnlockKeeps ==
  ASSUME Inv, NEW t \in Thread, AdvisoryUnlock(t)
  PROVE  Inv'
  <1>1. PICK s : s = thread[t].session
    OBVIOUS
  <1>2. /\ TypeOK' /\ Local(t, s) /\ s \in Session /\ thread'[t].code = Rest(t)
        /\ thread'[t].listening = thread[t].listening /\ thread'[t].due = thread[t].due
        /\ session'[s].observers = session[s].observers /\ session'[s].inbox = session[s].inbox
        /\ First(t, "unlock")
    BY <1>1, UnlockEffect DEF Inv, Local
  <1>3. PICK k \in LockId, mode \in Modes : Returned(t, s, k, mode)
    BY <1>1, UnlockEffect DEF Inv
  <1>5. PICK m \in Mark : StepAt(t, m)
    BY <1>2, StepMark DEF Inv
  <1>6. PICK n, st : st = Head(thread[t].code) /\ n = After(m, st)
    OBVIOUS
  <1>7. /\ n \in Mark /\ st[1] = "unlock" /\ s # None
        /\ m.depth = Len(thread[t].tops) /\ m.held = (client[ClientOf[t]].cs = t)
        /\ TxnAt(s, m, thread[t].tops)
        /\ menu = "notify" => m.none = {o \in Obj : session[s].observers[o] = "none"}
        /\ \E r \in Mark : AtRest(r) /\ Path(menu, Rest(t), n, r)
        /\ ~client[ClientOf[t]].dead
    BY <1>1, <1>2, <1>5, <1>6, AtStep, SessionAssumption
  <1>8. /\ n.depth = m.depth /\ n.held = m.held /\ n.begun = m.begun /\ n.owed = m.owed
        /\ n.lost = m.lost /\ n.armed = m.armed /\ n.none = m.none
    BY <1>5, <1>6, <1>7, PlainAfter, MarkFields DEF Structural
  <1>9. CallInv'
    BY <1>2, <1>5, <1>7, <1>8, LocalStep
  <1>11. ListenInv' /\ UpdateIsAnnounced'
    BY <1>2, SameListening DEF Local
  <1>12. LockInv'
    <2>1. /\ \A q \in Session : session[q].locks \in [LockId -> [Modes -> Nat]]
          /\ \A u \in Thread : /\ thread[u].mine \in [LockId -> [Modes -> Nat]]
                               /\ thread[u].session \in Session \cup {None}
      BY StateTypes DEF Inv, TypeOK, SessionState, ThreadState
    <2>2. /\ \A q \in Session \ {s} : session'[q].locks = session[q].locks
          /\ \A u \in Thread \ {t} : thread'[u] = thread[u]
      BY <1>2 DEF Local
    <2>3. \A l \in LockId, d \in Modes :
            /\ session'[s].locks[l][d] =
                 IF l = k /\ d = mode /\ session[s].locks[l][d] # 0 THEN session[s].locks[l][d] - 1
                 ELSE session[s].locks[l][d]
            /\ thread'[t].mine[l][d] =
                 IF l = k /\ d = mode /\ thread[t].mine[l][d] # 0 THEN thread[t].mine[l][d] - 1
                 ELSE thread[t].mine[l][d]
      <3>1. /\ session'[s].locks = [session[s].locks EXCEPT ![k] =
                 [session[s].locks[k] EXCEPT ![mode] =
                   IF session[s].locks[k][mode] = 0 THEN 0 ELSE session[s].locks[k][mode] - 1]]
            /\ thread'[t].mine = [thread[t].mine EXCEPT ![k] =
                 [thread[t].mine[k] EXCEPT ![mode] =
                   IF thread[t].mine[k][mode] = 0 THEN 0 ELSE thread[t].mine[k][mode] - 1]]
        BY <1>3, Zenon DEF Returned
      <3> QED BY <1>2, <2>1, <3>1
    <2>4. \A q \in Session, l \in LockId, d \in Modes :
            /\ session'[q].locks[l][d] <= session[q].locks[l][d]
            /\ session'[q].locks[l][d] \in Nat /\ session[q].locks[l][d] \in Nat
      <3> TAKE q \in Session, l \in LockId, d \in Modes
      <3>1. session[q].locks[l][d] \in Nat
        BY <2>1
      <3>2. CASE q = s
        <4>1. session'[s].locks[l][d] =
                IF l = k /\ d = mode /\ session[s].locks[l][d] # 0 THEN session[s].locks[l][d] - 1
                ELSE session[s].locks[l][d]
          BY <2>3
        <4>2. session[s].locks[l][d] \in Nat
          BY <3>1, <3>2
        <4> QED BY <3>2, <4>1, <4>2
      <3>3. CASE q # s
        BY <2>2, <3>1, <3>3
      <3> QED BY <3>1, <3>2, <3>3
    <2>5. \A r, q \in Session, l \in LockId, d \in Modes :
            r # q /\ session'[r].locks[l]["exclusive"] > 0 => session'[q].locks[l][d] = 0
      <3> SUFFICES ASSUME NEW r \in Session, NEW q \in Session, NEW l \in LockId, NEW d \in Modes,
                          r # q, session'[r].locks[l]["exclusive"] > 0
                   PROVE  session'[q].locks[l][d] = 0
        OBVIOUS
      <3>1. session[r].locks[l]["exclusive"] > 0
        BY <2>4 DEF Modes
      <3>2. session[q].locks[l][d] = 0
        BY <3>1 DEF Inv, LockInv
      <3> QED BY <2>4, <3>2
    <2>6. \A u \in Thread, l \in LockId, d \in Modes : thread'[u].mine[l][d] > 0 =>
            /\ menu' = "locks" /\ thread'[u].session # None
            /\ session'[thread'[u].session].locks[l][d] >= thread'[u].mine[l][d]
      <3> SUFFICES ASSUME NEW u \in Thread, NEW l \in LockId, NEW d \in Modes, thread'[u].mine[l][d] > 0
                   PROVE  /\ menu' = "locks" /\ thread'[u].session # None
                          /\ session'[thread'[u].session].locks[l][d] >= thread'[u].mine[l][d]
        OBVIOUS
      <3>1. thread[u].mine[l][d] > 0 => /\ menu = "locks" /\ thread[u].session # None
                                        /\ session[thread[u].session].locks[l][d] >= thread[u].mine[l][d]
        BY DEF Inv, LockInv
      <3>2. menu' = menu
        BY <1>2 DEF Local
      <3>3. CASE u = t
        <4>1. thread'[u].session = s /\ thread[u].session = s /\ s # None
          BY <1>2, <1>7, <3>3 DEF Local
        <4>2. session[s].locks[l][d] \in Nat /\ thread[t].mine[l][d] \in Nat
          BY <1>2, <2>1
        <4>3. thread[t].mine[l][d] > 0
          BY <2>3, <3>3, <4>2
        <4>4. session[s].locks[l][d] >= thread[t].mine[l][d]
          BY <3>1, <3>3, <4>1, <4>3
        <4>5. session'[s].locks[l][d] >= thread'[t].mine[l][d]
          BY <2>3, <4>2, <4>3, <4>4
        <4> QED BY <3>1, <3>2, <3>3, <4>1, <4>3, <4>5
      <3>4. CASE u # t
        <4>1. thread'[u] = thread[u]
          BY <2>2, <3>4
        <4>2. thread[u].session # None => thread[u].session \in Session \ {s}
          BY <1>1, <1>7, <2>1, <3>4 DEF Inv, OwnInv
        <4> QED BY <2>2, <3>1, <3>2, <4>1, <4>2
      <3> QED BY <3>3, <3>4
    <2> QED BY <2>5, <2>6 DEF LockInv
  <1> QED BY <1>2, <1>9, <1>11, <1>12, LocalKeeps DEF Inv

\* The locks and what was granted stay as they are.
LEMMA SameLocks ==
  ASSUME Inv, menu' = menu,
         \A u \in Thread : thread'[u].session = thread[u].session /\ thread'[u].mine = thread[u].mine,
         \A q \in Session : session'[q].locks = session[q].locks
  PROVE  LockInv'
  <1>1. \A u \in Thread : thread[u].session \in Session \cup {None}
    BY StateTypes DEF Inv
  <1> QED BY <1>1 DEF Inv, LockInv

LEMMA NotifsKeep ==
  ASSUME Inv, NEW t \in Thread, GetNotifs(t)
  PROVE  Inv'
  <1>1. PICK s : s = thread[t].session
    OBVIOUS
  <1>2. /\ TypeOK' /\ Local(t, s) /\ s \in Session
        /\ First(t, "poll") \/ First(t, "wait")
        /\ thread'[t].code = Rest(t) \/ thread'[t].code = thread[t].code
        /\ thread'[t].mine = thread[t].mine /\ thread'[t].listening = thread[t].listening
        /\ thread'[t].due = thread[t].due \ {o \in session[s].inbox : session[s].observers[o] = "live"}
        /\ session'[s].locks = session[s].locks /\ session'[s].observers = session[s].observers
    BY <1>1, NotifsEffect DEF Inv, Local
  <1>4. PICK j \in {"poll", "wait"} : First(t, j)
    BY <1>2
  <1>5. PICK m \in Mark : StepAt(t, m)
    BY <1>4, StepMark DEF Inv
  <1>6. PICK n, st : st = Head(thread[t].code) /\ n = After(m, st)
    OBVIOUS
  <1>7. /\ n \in Mark /\ st[1] = j /\ s # None
        /\ m.depth = Len(thread[t].tops) /\ m.held = (client[ClientOf[t]].cs = t)
        /\ TxnAt(s, m, thread[t].tops)
        /\ menu = "notify" => m.none = {o \in Obj : session[s].observers[o] = "none"}
        /\ \E r \in Mark : AtRest(r) /\ Path(menu, Rest(t), n, r)
        /\ ~client[ClientOf[t]].dead
    BY <1>1, <1>2, <1>4, <1>5, <1>6, AtStep, SessionAssumption
  <1>8. /\ n.depth = m.depth /\ n.held = m.held /\ n.begun = m.begun /\ n.owed = m.owed
        /\ n.lost = m.lost /\ n.armed = m.armed /\ n.none = m.none
    BY <1>4, <1>5, <1>6, <1>7, PlainAfter, MarkFields DEF Structural
  <1>9. CallInv'
    <2>1. CASE thread'[t].code = Rest(t)
      BY <1>2, <1>5, <1>7, <1>8, <2>1, LocalStep
    <2>2. CASE thread'[t].code = thread[t].code
      <3>1. \E r \in Mark : AtRest(r) /\ Path(menu, thread'[t].code, m, r)
        BY <1>5, <2>2 DEF StepAt, ThreadAt
      <3> QED BY <1>2, <1>5, <1>7, <3>1, LocalStep
    <2> QED BY <1>2, <2>1, <2>2
  <1>10. LockInv'
    BY <1>1, <1>2, SameLocks DEF Local
  <1>11. \A u \in Thread : thread[u].session \in Session \cup {None}
    BY StateTypes DEF Inv
  <1>12. /\ \A u \in Thread : /\ thread'[u].session = thread[u].session
                              /\ thread'[u].listening = thread[u].listening
                              /\ thread'[u].due \subseteq thread[u].due
         /\ \A q \in Session : /\ session'[q].observers = session[q].observers
                               /\ session'[q].pend = session[q].pend
         /\ db' = db /\ menu' = menu /\ client' = client
    BY <1>2 DEF Local
  <1>13. ListenInv'
    <2>1. \A u \in Thread : \A o \in thread'[u].listening :
            /\ menu' = "notify" /\ thread'[u].session # None
            /\ session'[thread'[u].session].observers[o] # "none"
      BY <1>11, <1>12 DEF Inv, ListenInv
    <2> QED BY <1>12, <2>1 DEF Inv, ListenInv
  <1>14. UpdateIsAnnounced'
    <2> SUFFICES ASSUME NEW u \in Thread, NEW o \in thread'[u].due
                 PROVE  \/ o \in session'[thread[u].session].inbox
                        \/ session'[thread[u].session].observers[o] = "deleted"
      BY <1>12 DEF UpdateIsAnnounced
    <2>1. o \in thread[u].due /\ o \in thread[u].listening /\ o \in Obj
      BY <1>12, StateTypes DEF Inv, ListenInv, ThreadState
    <2>2. thread[u].session \in Session /\ session[thread[u].session].observers[o] # "none"
      BY <1>11, <2>1 DEF Inv, ListenInv
    <2>3. o \in session[thread[u].session].inbox \/ session[thread[u].session].observers[o] = "deleted"
      BY <2>1 DEF Inv, UpdateIsAnnounced
    <2>4. CASE u = t
      <3>1. session[s].observers[o] \in {"none", "live", "deleted"}
        BY <1>2, <2>1 DEF Inv, TypeOK, SessionState
      <3> QED BY <1>1, <1>2, <2>2, <2>3, <2>4, <3>1
    <2>5. CASE u # t
      <3>1. thread[u].session \in Session \ {s}
        BY <1>1, <1>7, <2>2, <2>5 DEF Inv, OwnInv
      <3>2. session'[thread[u].session] = session[thread[u].session]
        BY <1>2, <3>1 DEF Local
      <3> QED BY <2>3, <3>2
    <2> QED BY <2>4, <2>5
  <1> QED BY <1>2, <1>9, <1>10, <1>13, <1>14, LocalKeeps DEF Inv

LEMMA ObserveAfter ==
  ASSUME NEW m \in Mark, NEW st, st[1] \in {"observe", "delete", "listening", "quiet"}
  PROVE  LET n == After(m, st) IN
         /\ n.depth = m.depth /\ n.held = m.held /\ n.begun = m.begun /\ n.owed = m.owed
         /\ n.lost = m.lost /\ n.armed = m.armed
         /\ n.none = IF st[1] \in {"observe", "delete"} THEN m.none \ {st[2]} ELSE m.none
  BY MarkFields DEF After

LEMMA ObserveKeeps ==
  ASSUME Inv, NEW t \in Thread, Observe(t)
  PROVE  Inv'
  <1>1. PICK s, o, tops : s = thread[t].session /\ o = Arg(t) /\ tops = thread[t].tops
    OBVIOUS
  <1>2. /\ TypeOK' /\ Local(t, s) /\ s \in Session /\ o \in Obj /\ thread'[t].code = Rest(t)
        /\ thread'[t].mine = thread[t].mine
        /\ session'[s].locks = session[s].locks /\ session'[s].inbox = session[s].inbox
    BY <1>1, ObserveEffect DEF Inv, Local
  <1>3. PICK k \in {"observe", "delete", "listening", "quiet"} :
          /\ First(t, k)
          /\ session'[s].observers = IF k = "observe" THEN [session[s].observers EXCEPT ![o] = "live"]
                                     ELSE IF k = "delete" THEN [session[s].observers EXCEPT ![o] = "deleted"]
                                     ELSE session[s].observers
          /\ thread'[t].listening = IF k = "listening" THEN thread[t].listening \cup {o}
                                    ELSE IF k = "quiet" THEN thread[t].listening \ {o}
                                    ELSE thread[t].listening
          /\ thread'[t].due = IF k = "quiet" THEN thread[t].due \ {o} ELSE thread[t].due
    BY <1>1, ObserveEffect DEF Inv
  <1>4. /\ session[s].observers \in [Obj -> {"none", "live", "deleted"}]
        /\ thread[t].listening \in SUBSET Obj /\ thread[t].due \in SUBSET Obj
    BY <1>2, StateTypes DEF Inv, TypeOK, SessionState, ThreadState
  <1>5. PICK m \in Mark : StepAt(t, m)
    BY <1>3, StepMark DEF Inv
  <1>6. PICK n, st : st = Head(thread[t].code) /\ n = After(m, st)
    OBVIOUS
  <1>7. /\ n \in Mark /\ st[1] = k /\ st[2] = o /\ s # None
        /\ Permitted(menu, st) /\ Allowed(m, st)
        /\ m.depth = Len(tops) /\ m.held = (client[ClientOf[t]].cs = t) /\ TxnAt(s, m, tops)
        /\ menu = "notify" => m.none = {p \in Obj : session[s].observers[p] = "none"}
        /\ \E r \in Mark : AtRest(r) /\ Path(menu, Rest(t), n, r)
        /\ ~client[ClientOf[t]].dead
    BY <1>1, <1>2, <1>3, <1>5, <1>6, AtStep, SessionAssumption DEF Arg
  <1>8. /\ n.depth = m.depth /\ n.held = m.held /\ n.begun = m.begun /\ n.owed = m.owed
        /\ n.lost = m.lost /\ n.armed = m.armed
        /\ n.none = IF k \in {"observe", "delete"} THEN m.none \ {o} ELSE m.none
    <2>1. st[1] \in {"observe", "delete", "listening", "quiet"} /\ st[1] = k /\ st[2] = o
      BY <1>3, <1>7
    <2> QED BY <1>5, <1>6, <2>1, ObserveAfter
  <1>9. /\ k = "observe" => o \in m.armed /\ o \in m.none
        /\ k = "listening" => o \notin m.none
    BY <1>7 DEF Allowed
  <1>10. menu = "notify"
    BY <1>3, <1>7 DEF Permitted
  <1>11. /\ client' = client /\ db' = db /\ menu' = menu /\ thread'[t].session = s /\ thread'[t].tops = tops
         /\ session'[s].txn = session[s].txn /\ session'[s].pend = session[s].pend
         /\ \A u \in Thread \ {t} : thread'[u] = thread[u]
         /\ \A q \in Session \ {s} : session'[q] = session[q]
    BY <1>1, <1>2 DEF Local
  <1>12. \A p \in Obj : session'[s].observers[p] = IF p = o /\ k = "observe" THEN "live"
                                                   ELSE IF p = o /\ k = "delete" THEN "deleted"
                                                   ELSE session[s].observers[p]
    BY <1>2, <1>3, <1>4
  <1>13. n.none = {p \in Obj : session'[s].observers[p] = "none"}
    <2>1. m.none = {p \in Obj : session[s].observers[p] = "none"}
      BY <1>7, <1>10
    <2> QED BY <1>2, <1>3, <1>8, <1>9, <1>12, <2>1
  <1>14. TxnAt(s, n, tops)'
    <2>1. RootClasses(s)' = RootClasses(s) /\ HasRoot(s)' = HasRoot(s)
      BY <1>11 DEF RootClasses, HasRoot
    <2>2. \A p \in Obj : session'[s].observers[p] = "live" => p \in db.triggers \cup n.armed
      BY <1>7, <1>8, <1>9, <1>12 DEF TxnAt
    <2> QED BY <1>7, <1>8, <1>11, <2>1, <2>2 DEF TxnAt
  <1>15. ThreadAt(t, n)'
    <2>1. /\ n.depth = Len(tops) /\ n.held = (client'[ClientOf[t]].cs = t)
      BY <1>7, <1>8, <1>11
    <2>2. \E r \in Mark : AtRest(r) /\ Path(menu, thread'[t].code, n, r)
      BY <1>2, <1>7
    <2> QED BY <1>1, <1>7, <1>11, <1>13, <1>14, <2>1, <2>2, OwnStep DEF Inv
  <1>16. CallInv'
    BY <1>2, <1>7, <1>11, <1>15, LocalKeeps, CallsStay DEF Inv
  <1>17. LockInv'
    BY <1>1, <1>2, SameLocks DEF Local
  <1>18. \A u \in Thread \ {t} : thread[u].session # None => thread[u].session \in Session \ {s}
    BY <1>1, <1>7, StateTypes DEF Inv, OwnInv
  <1>19. ListenInv'
    <2>1. \A u \in Thread : thread'[u].due \subseteq thread'[u].listening
      <3> TAKE u \in Thread
      <3>1. thread[u].due \subseteq thread[u].listening
        BY DEF Inv, ListenInv
      <3>2. CASE u = t
        BY <1>3, <3>1, <3>2
      <3>3. CASE u # t
        BY <1>11, <3>1, <3>3
      <3> QED BY <3>2, <3>3
    <2>2. \A u \in Thread : \A p \in thread'[u].listening :
            /\ menu' = "notify" /\ thread'[u].session # None
            /\ session'[thread'[u].session].observers[p] # "none"
      <3> SUFFICES ASSUME NEW u \in Thread, NEW p \in thread'[u].listening
                   PROVE  thread'[u].session # None /\ session'[thread'[u].session].observers[p] # "none"
        BY <1>10, <1>11
      <3>1. CASE u = t
        <4>1. p \in Obj /\ thread'[u].session = s
          BY <1>2, <1>3, <1>4, <1>11, <3>1
        <4>2. session[s].observers[p] # "none" \/ (k = "listening" /\ p = o)
          BY <1>1, <1>3, <3>1 DEF Inv, ListenInv
        <4>3. session[s].observers[p] # "none"
          BY <1>7, <1>9, <1>10, <4>1, <4>2
        <4> QED BY <1>7, <1>12, <4>1, <4>3
      <3>2. CASE u # t
        <4>1. /\ thread'[u] = thread[u] /\ thread[u].session # None
              /\ session[thread[u].session].observers[p] # "none"
          BY <1>11, <3>2 DEF Inv, ListenInv
        <4> QED BY <1>11, <1>18, <3>2, <4>1
      <3> QED BY <3>1, <3>2
    <2>3. \A q \in Session, p \in Obj : session'[q].observers[p] = "live" =>
            p \in db'.triggers \/ Contains(session'[q].pend, <<"trigger", p>>)
      <3> TAKE q \in Session, p \in Obj
      <3>1. session[q].observers[p] = "live" =>
              p \in db.triggers \/ Contains(session[q].pend, <<"trigger", p>>)
        BY DEF Inv, ListenInv
      <3>2. CASE q = s
        <4>1. k = "observe" => Contains(session[s].pend, <<"trigger", o>>)
          BY <1>7, <1>9 DEF TxnAt
        <4> QED BY <1>11, <1>12, <3>1, <3>2, <4>1
      <3>3. CASE q # s
        BY <1>11, <3>1, <3>3
      <3> QED BY <3>2, <3>3
    <2>4. \A c \in Client : client'[c].dead => menu' \in {"dictionary", "monitors"}
      BY <1>11 DEF Inv, ListenInv
    <2> QED BY <1>10, <1>11, <2>1, <2>2, <2>3, <2>4 DEF ListenInv
  <1>20. UpdateIsAnnounced'
    <2> SUFFICES ASSUME NEW u \in Thread, NEW p \in thread'[u].due
                 PROVE  \/ p \in session'[thread'[u].session].inbox
                        \/ session'[thread'[u].session].observers[p] = "deleted"
      BY DEF UpdateIsAnnounced
    <2>1. p \in thread[u].due
      BY <1>3, <1>11
    <2>2. p \in session[thread[u].session].inbox \/ session[thread[u].session].observers[p] = "deleted"
      BY <2>1 DEF Inv, UpdateIsAnnounced
    <2>3. p \in Obj /\ thread[u].session # None
      BY <2>1, StateTypes DEF Inv, ListenInv, ThreadState
    <2>4. CASE u = t
      <3>1. k = "observe" => session[s].observers[o] = "none"
        BY <1>7, <1>9, <1>10
      <3>2. session[s].observers[p] = "deleted" => session'[s].observers[p] = "deleted"
        BY <1>12, <2>3, <3>1
      <3>3. thread'[u].session = s /\ thread[u].session = s
        BY <1>1, <1>11, <2>4
      <3> QED BY <1>2, <2>2, <3>2, <3>3
    <2>5. CASE u # t
      BY <1>11, <1>18, <2>2, <2>3, <2>5
    <2> QED BY <2>4, <2>5
  <1> QED BY <1>2, <1>16, <1>17, <1>19, <1>20, LocalKeeps DEF Inv

LEMMA LoadKeeps ==
  ASSUME Inv, NEW t \in Thread, LoadObject(t)
  PROVE  Inv'
  <1>1. PICK c : c = ClientOf[t]
    OBVIOUS
  <1>2. TypeOK' /\ First(t, "load") /\ c \in Client
    BY <1>1, LoadEffect DEF Inv
  <1>3. PICK m \in Mark : StepAt(t, m)
    BY <1>2, StepMark DEF Inv
  <1>4. /\ Head(thread[t].code)[1] = "load" /\ m.held = (client[c].cs = t)
        /\ Permitted(menu, Head(thread[t].code))
        /\ \E r \in Mark : AtRest(r) /\ Path(menu, Rest(t), After(m, Head(thread[t].code)), r)
    BY <1>1, <1>2, <1>3, AtStep
  <1>5. menu \in {"dictionary", "monitors"}
    BY <1>4 DEF Permitted
  <1>6. CASE /\ Quiet(t) /\ session' = session /\ client'[c].cs = client[c].cs
             /\ thread'[t].code = Rest(t) /\ thread'[t].tops = thread[t].tops
    <2>1. "load" \notin Structural /\ After(m, Head(thread[t].code)).held = m.held
      BY <1>3, <1>4, PlainAfter DEF Structural
    <2> QED BY <1>1, <1>2, <1>3, <1>4, <1>6, <2>1, PlainKeeps
  <1>7. CASE /\ db' = db /\ menu' = menu /\ client'[c].dead
             /\ client'[c].cs = client[c].cs /\ client'[c].pool = client[c].pool
             /\ \A d \in Client \ {c} : client'[d] = client[d]
             /\ \A u \in Thread :
                  /\ thread'[u].session = thread[u].session /\ thread'[u].mine = thread[u].mine
                  /\ thread'[u].listening = thread[u].listening /\ thread'[u].due = thread[u].due
                  /\ thread'[u].code = IF ClientOf[u] = c THEN <<>> ELSE thread[u].code
                  /\ thread'[u].tops = IF ClientOf[u] = c THEN <<>> ELSE thread[u].tops
             /\ \A s \in Session :
                  session'[s] = IF \E u \in Thread : ClientOf[u] = c /\ thread[u].session = s
                                THEN NewConnection ELSE session[s]
    <2>1. \A s \in Session : session'[s] \in {session[s], NewConnection}
      BY <1>7
    <2>2. \A u \in Thread : /\ ClientOf[u] \in Client /\ thread[u].session \in Session \cup {None}
                            /\ thread[u].listening = {} /\ thread[u].due = {}
      <3> TAKE u \in Thread
      <3>1. thread[u].listening = {}
        BY <1>5 DEF Inv, ListenInv
      <3> QED BY <3>1, StateTypes DEF Inv, ListenInv
    <2>3. \A u \in Thread : ClientOf[u] # c /\ thread[u].session # None =>
            session'[thread[u].session] = session[thread[u].session]
      <3> SUFFICES ASSUME NEW u \in Thread, ClientOf[u] # c, thread[u].session # None
                   PROVE  session'[thread[u].session] = session[thread[u].session]
        OBVIOUS
      <3>1. \A v \in Thread : ClientOf[v] = c => thread[v].session # thread[u].session
        BY DEF Inv, OwnInv
      <3> QED BY <1>7, <2>2, <3>1
    <2>4. OwnInv'
      <3>1. \A d \in Client : client'[d].pool = client[d].pool /\ client'[d].cs = client[d].cs
        BY <1>7
      <3>2. \A u \in Thread : thread'[u].session = thread[u].session
        BY <1>7
      <3> QED BY <3>1, <3>2 DEF Inv, OwnInv
    <2>5. CallInv'
      <3> SUFFICES ASSUME NEW u \in Thread
                   PROVE  IF client'[ClientOf[u]].dead THEN thread'[u].code = <<>> /\ thread'[u].tops = <<>>
                          ELSE \E mm \in Mark : ThreadAt(u, mm)'
        BY DEF CallInv
      <3>1. CASE ClientOf[u] = c
        BY <1>7, <3>1
      <3>2. CASE ClientOf[u] # c
        <4>1. client'[ClientOf[u]] = client[ClientOf[u]]
          BY <1>7, <2>2, <3>2
        <4>2. CASE client[ClientOf[u]].dead
          BY <1>7, <3>2, <4>1, <4>2 DEF Inv, CallInv
        <4>3. CASE ~client[ClientOf[u]].dead
          <5>1. PICK mm \in Mark : ThreadAt(u, mm)
            BY <4>3 DEF Inv, CallInv
          <5>2. Untouched(u)
            <6>1. db.rootClass <= db'.rootClass /\ db.triggers \subseteq db'.triggers
              BY <1>7 DEF Inv, TypeOK, Database
            <6>2. /\ thread'[u].session = thread[u].session /\ thread'[u].code = thread[u].code
                  /\ thread'[u].tops = thread[u].tops /\ menu' = menu
              BY <1>7, <3>2
            <6> QED BY <2>3, <3>2, <4>1, <6>1, <6>2 DEF Untouched
          <5>3. ThreadAt(u, mm)'
            BY <1>2, <5>1, <5>2, UntouchedStays DEF Inv
          <5> QED BY <4>1, <4>3, <5>3
        <4> QED BY <4>2, <4>3
      <3> QED BY <3>1, <3>2
    <2>6. NewConnection.txn = "none" /\ NewConnection.pend = <<>> /\ NewConnection.locks = NoLocks
          /\ NewConnection.observers = [o \in Obj |-> "none"]
      BY DEF NewConnection
    <2>7. TxnInv'
      <3>1. \A s \in Session : session'[s].pend # <<>> => session'[s].txn = "open"
        BY <2>1, <2>6 DEF Inv, TxnInv
      <3>2. \A s \in Session : session'[s].txn = "open" =>
              \E u \in Thread : thread'[u].session = s /\ ~client'[ClientOf[u]].dead
        <4> SUFFICES ASSUME NEW s \in Session, session'[s].txn = "open"
                     PROVE  \E u \in Thread : thread'[u].session = s /\ ~client'[ClientOf[u]].dead
          OBVIOUS
        <4>1. /\ session'[s] = session[s]
              /\ ~\E u \in Thread : ClientOf[u] = c /\ thread[u].session = s
          BY <1>7, <2>6
        <4>2. PICK u \in Thread : thread[u].session = s /\ ~client[ClientOf[u]].dead
          BY <4>1 DEF Inv, TxnInv
        <4>3. client'[ClientOf[u]] = client[ClientOf[u]]
          BY <1>7, <2>2, <4>1, <4>2
        <4> QED BY <1>7, <4>2, <4>3
      <3>3. \A u \in Thread : thread'[u].tops # <<>> =>
              thread'[u].session # None /\ session'[thread'[u].session].txn # "none"
        <4> SUFFICES ASSUME NEW u \in Thread, thread'[u].tops # <<>>
                     PROVE  thread[u].session # None /\ session'[thread[u].session].txn # "none"
          BY <1>7
        <4>1. ClientOf[u] # c /\ thread[u].tops # <<>>
          BY <1>7
        <4> QED BY <2>3, <4>1 DEF Inv, TxnInv
      <3>4. \A u \in Thread : \A i \in 1 .. Len(thread'[u].tops) : thread'[u].tops[i] => i = 1
        <4> TAKE u \in Thread
        <4>1. CASE ClientOf[u] = c
          <5>1. thread'[u].tops = <<>>
            BY <1>7, <4>1
          <5> QED BY <5>1
        <4>2. CASE ClientOf[u] # c
          <5>1. thread'[u].tops = thread[u].tops
            BY <1>7, <4>2
          <5> QED BY <5>1 DEF Inv, TxnInv
        <4> QED BY <4>1, <4>2
      <3> QED BY <3>1, <3>2, <3>3, <3>4 DEF TxnInv
    <2>8. LockInv'
      <3>1. \A s \in Session, k \in LockId, d \in Modes :
              session'[s].locks[k][d] \in {0, session[s].locks[k][d]}
        BY <2>1, <2>6 DEF NoLocks
      <3>2. \A r, s \in Session, k \in LockId, d \in Modes :
              r # s /\ session'[r].locks[k]["exclusive"] > 0 => session'[s].locks[k][d] = 0
        <4> SUFFICES ASSUME NEW r \in Session, NEW s \in Session, NEW k \in LockId, NEW d \in Modes,
                            r # s, session'[r].locks[k]["exclusive"] > 0
                     PROVE  session'[s].locks[k][d] = 0
          OBVIOUS
        <4>1. session[r].locks[k]["exclusive"] > 0
          BY <3>1 DEF Modes
        <4>2. session[s].locks[k][d] = 0
          BY <4>1 DEF Inv, LockInv
        <4> QED BY <3>1, <4>2
      <3>3. \A u \in Thread, k \in LockId, d \in Modes : ~(thread'[u].mine[k][d] > 0)
        BY <1>5, <1>7 DEF Inv, LockInv
      <3> QED BY <3>2, <3>3 DEF LockInv
    <2>9. RootInv' /\ TriggerInv'
      <3>1. \A s \in Session : session'[s].pend \in {session[s].pend, <<>>}
        BY <2>1, <2>6
      <3> QED BY <1>7, <3>1, ShrinkKeeps DEF Inv
    <2>10. ListenInv'
      <3>1. \A s \in Session, o \in Obj : session'[s].observers[o] = "none"
        BY <1>5, <2>1, <2>6 DEF Inv, ListenInv
      <3>2. \A u \in Thread : thread'[u].listening = {} /\ thread'[u].due = {}
        BY <1>7, <2>2
      <3> QED BY <1>5, <1>7, <3>1, <3>2 DEF ListenInv
    <2>11. FailedConversionLeavesNothing'
      BY <1>7 DEF Inv, FailedConversionLeavesNothing
    <2>12. UpdateIsAnnounced'
      <3>1. \A u \in Thread : thread'[u].due = {}
        BY <1>7, <2>2
      <3> QED BY <3>1 DEF UpdateIsAnnounced
    <2> QED BY <1>2, <2>4, <2>5, <2>7, <2>8, <2>9, <2>10, <2>11, <2>12 DEF Inv
  <1> QED BY <1>1, <1>6, <1>7, LoadEffect DEF Inv

\* A thread at rest stays at rest without its session, and with another that no
\* thread uses.
LEMMA AttachKeeps ==
  ASSUME Inv, NEW t \in Thread, Attach(t)
  PROVE  Inv'
  <1>1. PICK c, q : c = ClientOf[t] /\ q = thread'[t].session
    OBVIOUS
  <1>2. /\ TypeOK' /\ session' = session /\ db' = db /\ menu' = menu
        /\ thread[t].session = None /\ q \in Session
        /\ \A u \in Thread \ {t} : thread'[u] = thread[u]
        /\ thread'[t].code = thread[t].code /\ thread'[t].tops = thread[t].tops
        /\ thread'[t].mine = thread[t].mine /\ thread'[t].listening = thread[t].listening
        /\ thread'[t].due = thread[t].due
        /\ c \in Client /\ \A d \in Client \ {c} : client'[d] = client[d]
        /\ client'[c].cs = client[c].cs /\ client'[c].dead = client[c].dead /\ ~client[c].dead
    BY <1>1, AttachEffect DEF Inv
  <1>3. \/ client[c].pool # <<>> /\ q = Head(client[c].pool) /\ client'[c].pool = Tail(client[c].pool)
        \/ q \in Free /\ client'[c].pool = <<>>
    BY <1>1, AttachEffect DEF Inv
  <1>4. \A d \in Client : client[d].pool \in Seq(Session)
    BY DEF Inv, TypeOK, ClientState
  <1>5. \A u \in Thread : thread[u].session # q
    <2>1. CASE client[c].pool # <<>> /\ q = Head(client[c].pool)
      <3>1. Contains(client[c].pool, q)
        <4>1. 1 \in 1 .. Len(client[c].pool) /\ client[c].pool[1] = q
          BY <1>2, <1>4, <2>1, HeadTailProperties, EmptySeq, LenProperties
        <4> QED BY <4>1 DEF Contains
      <3> QED BY <1>2, <3>1 DEF Inv, OwnInv
    <2>2. CASE q \in Free
      BY <2>2 DEF Free
    <2> QED BY <1>3, <2>1, <2>2
  <1>6. \A d \in Client : \A i \in DOMAIN client'[d].pool :
          /\ d # c => i \in DOMAIN client[d].pool /\ client'[d].pool[i] = client[d].pool[i]
          /\ d = c => i + 1 \in DOMAIN client[d].pool /\ client'[d].pool[i] = client[d].pool[i + 1]
    <2> TAKE d \in Client
    <2>1. CASE d # c
      BY <1>2, <2>1
    <2>2. CASE d = c /\ client[c].pool # <<>> /\ client'[c].pool = Tail(client[c].pool)
      <3>1. /\ Tail(client[c].pool) \in Seq(Session) /\ Len(Tail(client[c].pool)) = Len(client[c].pool) - 1
            /\ \A i \in 1 .. Len(Tail(client[c].pool)) : Tail(client[c].pool)[i] = client[c].pool[i + 1]
        BY <1>2, <1>4, <2>2, HeadTailProperties
      <3> QED BY <1>2, <1>4, <2>2, <3>1, LenProperties
    <2>3. CASE d = c /\ client'[c].pool = <<>>
      BY <2>3
    <2> QED BY <1>3, <2>1, <2>2, <2>3
  <1>8. \A d \in Client : /\ DOMAIN client[d].pool = 1 .. Len(client[d].pool)
                          /\ DOMAIN client'[d].pool = 1 .. Len(client'[d].pool)
                          /\ Len(client[d].pool) \in Nat /\ Len(client'[d].pool) \in Nat
    <2>1. \A d \in Client : client'[d].pool \in Seq(Session)
      BY <1>2 DEF TypeOK, ClientState
    <2> QED BY <1>4, <2>1, LenProperties
  <1>7. \A d \in Client : \A i \in DOMAIN client'[d].pool : client'[d].pool[i] # q
    <2> SUFFICES ASSUME NEW d \in Client, NEW i \in DOMAIN client'[d].pool, client'[d].pool[i] = q
                 PROVE  FALSE
      OBVIOUS
    <2>1. PICK j \in DOMAIN client[d].pool : client[d].pool[j] = q /\ (d = c => j # 1)
      <3>1. CASE d # c
        BY <1>6, <3>1
      <3>2. CASE d = c
        <4>1. i + 1 \in DOMAIN client[d].pool /\ client[d].pool[i + 1] = q
          BY <1>6, <3>2
        <4>2. i \in Nat /\ i >= 1
          BY <1>8
        <4> QED BY <4>1, <4>2
      <3> QED BY <3>1, <3>2
    <2>2. CASE client[c].pool # <<>> /\ q = Head(client[c].pool)
      <3>1. 1 \in DOMAIN client[c].pool /\ client[c].pool[1] = q
        BY <1>2, <1>4, <2>2, HeadTailProperties, EmptySeq, LenProperties
      <3> QED BY <1>2, <2>1, <3>1 DEF Inv, OwnInv
    <2>3. CASE q \in Free
      <3>1. j \in 1 .. Len(client[d].pool)
        BY <1>4, <2>1, LenProperties
      <3> QED BY <2>1, <2>3, <3>1 DEF Free, Contains
    <2> QED BY <1>3, <2>2, <2>3
  <1>9. OwnInv'
    <2>1. \A u, v \in Thread : u # v /\ thread'[u].session # None => thread'[v].session # thread'[u].session
      BY <1>1, <1>2, <1>5 DEF Inv, OwnInv
    <2>2. \A u \in Thread, d \in Client : ~Contains(client'[d].pool, thread'[u].session)
      <3> SUFFICES ASSUME NEW u \in Thread, NEW d \in Client, NEW i \in DOMAIN client'[d].pool,
                          client'[d].pool[i] = thread'[u].session
                   PROVE  FALSE
        BY <1>8 DEF Contains
      <3>1. CASE u = t
        BY <1>1, <1>7, <3>1
      <3>2. CASE u # t
        <4>1. \E j \in DOMAIN client[d].pool : client[d].pool[j] = client'[d].pool[i]
          BY <1>6
        <4>2. thread'[u].session = thread[u].session
          BY <1>2, <3>2
        <4>3. \E j \in 1 .. Len(client[d].pool) : client[d].pool[j] = thread[u].session
          BY <1>8, <4>1, <4>2
        <4> QED BY <4>3 DEF Inv, OwnInv, Contains
      <3> QED BY <3>1, <3>2
    <2>3. \A d, e \in Client : \A i \in DOMAIN client'[d].pool, j \in DOMAIN client'[e].pool :
            client'[d].pool[i] = client'[e].pool[j] => d = e /\ i = j
      <3> SUFFICES ASSUME NEW d \in Client, NEW e \in Client,
                          NEW i \in DOMAIN client'[d].pool, NEW j \in DOMAIN client'[e].pool,
                          client'[d].pool[i] = client'[e].pool[j]
                   PROVE  d = e /\ i = j
        OBVIOUS
      <3>1. \A x \in DOMAIN client[d].pool, y \in DOMAIN client[e].pool :
              client[d].pool[x] = client[e].pool[y] => d = e /\ x = y
        BY DEF Inv, OwnInv
      <3>2. i \in Nat /\ j \in Nat
        BY <1>8
      <3>3. CASE d = c
        BY <1>6, <3>1, <3>2, <3>3
      <3>4. CASE d # c
        BY <1>6, <3>1, <3>2, <3>4
      <3> QED BY <3>3, <3>4
    <2>4. \A d \in Client : client'[d].cs # None => ClientOf[client'[d].cs] = d
      BY <1>2 DEF Inv, OwnInv
    <2> QED BY <2>1, <2>2, <2>3, <2>4 DEF OwnInv
  <1>10. \A u \in Thread \ {t} : Untouched(u)
    <2>1. db.rootClass <= db'.rootClass /\ db.triggers \subseteq db'.triggers
      BY <1>2 DEF Inv, TypeOK, Database
    <2>2. \A d \in Client : client'[d].dead = client[d].dead /\ client'[d].cs = client[d].cs
      BY <1>2
    <2>3. \A u \in Thread : ClientOf[u] \in Client
      BY SessionAssumption
    <2> QED BY <1>2, <2>1, <2>2, <2>3 DEF Untouched
  <1>11. PICK m \in Mark : ThreadAt(t, m)
    BY <1>1, <1>2 DEF Inv, CallInv
  <1>12. /\ m.depth = 0 /\ ~m.begun /\ m.held = (client[c].cs = t) /\ thread[t].tops = <<>>
         /\ ~m.held /\ ~m.owed /\ ~m.lost /\ m.armed = {}
         /\ \E r \in Mark : AtRest(r) /\ Path(menu, thread[t].code, m, r)
         /\ menu = "notify" => thread[t].code = <<>>
    <2>1. thread[t].tops \in Seq(BOOLEAN)
      BY StateTypes DEF Inv, ThreadState
    <2> QED BY <1>1, <1>2, <1>11, <2>1, EmptySeq, MarkFields DEF ThreadAt
  <1>13. PICK n \in Mark :
           /\ n.depth = 0 /\ ~n.begun /\ n.held = m.held /\ n.armed = {}
           /\ \E r \in Mark : AtRest(r) /\ Path(menu, thread[t].code, n, r)
           /\ menu = "notify" => n.none = {o \in Obj : session[q].observers[o] = "none"}
    <2>1. CASE menu = "notify"
      <3> DEFINE none == {o \in Obj : session[q].observers[o] = "none"}
                 r == Resting(none)
      <3>1. none \in SUBSET Obj
        OBVIOUS
      <3> HIDE DEF none
      <3>2. r \in Mark /\ r.none = none /\ AtRest(r) /\ \E p \in Mark : AtRest(p) /\ Path(menu, <<>>, r, p)
        BY <3>1, RestingIsMark
      <3> HIDE DEF r
      <3>3. /\ r.depth = 0 /\ ~r.begun /\ r.held = m.held /\ r.armed = {}
        BY <1>11, <1>12, <3>2, MarkFields DEF AtRest
      <3> QED BY <1>12, <2>1, <3>2, <3>3 DEF none
    <2>2. CASE menu # "notify"
      BY <1>11, <1>12, <2>2
    <2> QED BY <2>1, <2>2
  <1>14. session[q].txn # "open" /\ session[q].pend = <<>>
    BY <1>2, <1>5 DEF Inv, TxnInv
  <1>15. TxnAt(q, n, <<>>)'
    <2>1. session'[q].txn # "open" /\ session'[q].pend = <<>>
      BY <1>2, <1>14
    <2>2. RootClasses(q)' = 0 /\ \A y : ~Contains(session'[q].pend, y)
      BY <2>1, Nothing DEF RootClasses
    <2>3. \A o \in Obj : session'[q].observers[o] = "live" => o \in db'.triggers
      <3> SUFFICES ASSUME NEW o \in Obj, session[q].observers[o] = "live" PROVE o \in db.triggers
        BY <1>2
      <3>1. o \in db.triggers \/ Contains(session[q].pend, <<"trigger", o>>)
        BY <1>2 DEF Inv, ListenInv
      <3> QED BY <1>14, <3>1, Nothing
    <2> QED BY <1>13, <2>1, <2>2, <2>3 DEF TxnAt
  <1>16. ThreadAt(t, n)'
    <2>1. /\ thread'[t].session = q /\ thread'[t].tops = <<>> /\ thread'[t].code = thread[t].code
          /\ q # None /\ menu' = menu /\ session' = session /\ client'[ClientOf[t]].cs = client[ClientOf[t]].cs
      BY <1>1, <1>2, <1>12, SessionAssumption
    <2>2. n.depth = Len(<<>>) /\ n.held = (client'[ClientOf[t]].cs = t)
      BY <1>1, <1>12, <1>13, <2>1
    <2>3. TxnAt(thread[t].session, n, thread[t].tops)'
      BY <1>15, <2>1 DEF TxnAt, RootClasses, HasRoot
    <2> QED BY <1>13, <2>1, <2>2, <2>3 DEF ThreadAt
  <1>17. CallInv'
    BY <1>1, <1>2, <1>10, <1>16, CallsStay DEF Inv
  <1>18. /\ thread[t].tops = <<>> /\ thread[t].listening = {} /\ thread[t].due = {}
         /\ \A k \in LockId, d \in Modes : ~(thread[t].mine[k][d] > 0)
    BY <1>2, <1>12 DEF Inv, ListenInv, LockInv
  <1>19. TxnInv'
    <2>1. \A r \in Session : session'[r].txn = "open" =>
            \E u \in Thread : thread'[u].session = r /\ ~client'[ClientOf[u]].dead
      <3> SUFFICES ASSUME NEW r \in Session, session[r].txn = "open"
                   PROVE  \E u \in Thread : thread'[u].session = r /\ ~client'[ClientOf[u]].dead
        BY <1>2
      <3>1. PICK u \in Thread : thread[u].session = r /\ ~client[ClientOf[u]].dead
        BY DEF Inv, TxnInv
      <3>2. u # t /\ ClientOf[u] \in Client
        BY <1>2, <3>1, SessionAssumption
      <3> QED BY <1>2, <3>1, <3>2
    <2>2. /\ \A r \in Session : session'[r].pend # <<>> => session'[r].txn = "open"
          /\ \A u \in Thread : thread'[u].tops # <<>> =>
               thread'[u].session # None /\ session'[thread'[u].session].txn # "none"
      BY <1>2, <1>18 DEF Inv, TxnInv
    <2>3. \A u \in Thread : \A i \in 1 .. Len(thread'[u].tops) : thread'[u].tops[i] => i = 1
      <3>1. \A u \in Thread : thread'[u].tops = thread[u].tops
        BY <1>2
      <3> QED BY <3>1 DEF Inv, TxnInv
    <2> QED BY <2>1, <2>2, <2>3 DEF TxnInv
  <1>20. LockInv'
    <2>1. \A u \in Thread : thread'[u].mine = thread[u].mine
      BY <1>2
    <2> QED BY <1>2, <1>18, <2>1 DEF Inv, LockInv
  <1>21. RootInv' /\ TriggerInv'
    BY <1>2, ShrinkKeeps DEF Inv
  <1>22. ListenInv'
    <2>1. \A d \in Client : client'[d].dead = client[d].dead
      BY <1>2
    <2> QED BY <1>2, <1>18, <2>1 DEF Inv, ListenInv
  <1>23. FailedConversionLeavesNothing' /\ UpdateIsAnnounced'
    BY <1>2, <1>18 DEF Inv, FailedConversionLeavesNothing, UpdateIsAnnounced
  <1> QED BY <1>2, <1>9, <1>17, <1>19, <1>20, <1>21, <1>22, <1>23 DEF Inv

\* The session of a thread that ends is at rest, and goes to the head of the pool.
LEMMA DetachKeeps ==
  ASSUME Inv, NEW t \in Thread, Detach(t)
  PROVE  Inv'
  <1>1. PICK c, q : c = ClientOf[t] /\ q = thread[t].session
    OBVIOUS
  <1>2. /\ TypeOK' /\ session' = session /\ db' = db /\ menu' = menu
        /\ q \in Session /\ thread'[t].session = None /\ thread[t].code = <<>>
        /\ \A u \in Thread \ {t} : thread'[u] = thread[u]
        /\ thread'[t].code = thread[t].code /\ thread'[t].tops = thread[t].tops
        /\ thread'[t].mine = NoLocks /\ thread'[t].listening = {} /\ thread'[t].due = {}
        /\ c \in Client /\ \A d \in Client \ {c} : client'[d] = client[d]
        /\ client'[c].cs = client[c].cs /\ client'[c].dead = client[c].dead /\ ~client[c].dead
        /\ client'[c].pool = <<q>> \o client[c].pool
    BY <1>1, DetachEffect DEF Inv
  <1>3. q # None /\ \A d \in Client : client[d].pool \in Seq(Session) /\ client'[d].pool \in Seq(Session)
    BY <1>2, SessionAssumption DEF Inv, TypeOK, ClientState
  <1>4. \A d \in Client : /\ DOMAIN client[d].pool = 1 .. Len(client[d].pool)
                          /\ DOMAIN client'[d].pool = 1 .. Len(client'[d].pool)
                          /\ Len(client[d].pool) \in Nat /\ Len(client'[d].pool) \in Nat
    BY <1>3, LenProperties
  <1>5. \A d \in Client : \A i \in DOMAIN client'[d].pool :
          \/ d = c /\ i = 1 /\ client'[d].pool[i] = q
          \/ d = c /\ i - 1 \in DOMAIN client[d].pool /\ client'[d].pool[i] = client[d].pool[i - 1]
          \/ d # c /\ i \in DOMAIN client[d].pool /\ client'[d].pool[i] = client[d].pool[i]
    <2> TAKE d \in Client
    <2>1. CASE d # c
      BY <1>2, <2>1
    <2>2. CASE d = c
      <3>1. <<q>> \in Seq(Session) /\ Len(<<q>>) = 1 /\ <<q>>[1] = q
        BY <1>2
      <3>2. /\ Len(<<q>> \o client[c].pool) = Len(<<q>>) + Len(client[c].pool)
            /\ \A i \in 1 .. Len(<<q>>) + Len(client[c].pool) :
                 (<<q>> \o client[c].pool)[i] = IF i <= Len(<<q>>) THEN <<q>>[i]
                                                ELSE client[c].pool[i - Len(<<q>>)]
        BY <1>2, <1>3, <3>1, ConcatProperties
      <3>3. PICK p : p = <<q>> \o client[c].pool
        OBVIOUS
      <3>4. client'[c].pool = p /\ Len(client[c].pool) \in Nat /\ DOMAIN client[c].pool = 1 .. Len(client[c].pool)
            /\ DOMAIN p = 1 .. Len(p)
        BY <1>2, <1>4, <3>3
      <3>5. /\ Len(p) = 1 + Len(client[c].pool)
            /\ \A i \in 1 .. 1 + Len(client[c].pool) :
                 p[i] = IF i <= 1 THEN q ELSE client[c].pool[i - 1]
        BY <3>1, <3>2, <3>3, <3>4
      <3>6. \A i \in 1 .. Len(p) : /\ i = 1 => p[i] = q
                                  /\ i # 1 => i - 1 \in DOMAIN client[c].pool /\ p[i] = client[c].pool[i - 1]
        BY <3>4, <3>5
      <3> SUFFICES ASSUME NEW i \in DOMAIN client'[d].pool
                   PROVE  \/ i = 1 /\ client'[d].pool[i] = q
                          \/ i - 1 \in DOMAIN client[d].pool /\ client'[d].pool[i] = client[d].pool[i - 1]
        BY <2>2
      <3>7. i \in 1 .. Len(p) /\ client'[d].pool[i] = p[i]
        BY <2>2, <3>4
      <3>8. CASE i = 1
        <4>1. p[1] = q
          BY <3>4, <3>5
        <4> QED BY <3>7, <3>8, <4>1, Zenon
      <3>9. CASE i # 1
        <4>1. i - 1 \in DOMAIN client[c].pool /\ p[i] = client[c].pool[i - 1]
          BY <3>6, <3>7, <3>9
        <4> QED BY <2>2, <3>7, <4>1
      <3> QED BY <3>8, <3>9
    <2> QED BY <2>1, <2>2
  <1>6. \A d \in Client : \A i \in DOMAIN client[d].pool : client[d].pool[i] # q
    <2> SUFFICES ASSUME NEW d \in Client, NEW i \in DOMAIN client[d].pool, client[d].pool[i] = q
                 PROVE  FALSE
      OBVIOUS
    <2>1. Contains(client[d].pool, q)
      BY <1>4 DEF Contains
    <2> QED BY <1>1, <2>1 DEF Inv, OwnInv
  <1>7. \A u \in Thread \ {t} : thread[u].session # q
    BY <1>1, <1>3 DEF Inv, OwnInv
  <1>8. OwnInv'
    <2>1. \A u, v \in Thread : u # v /\ thread'[u].session # None => thread'[v].session # thread'[u].session
      BY <1>2 DEF Inv, OwnInv
    <2>2. \A u \in Thread, d \in Client : ~Contains(client'[d].pool, thread'[u].session)
      <3> SUFFICES ASSUME NEW u \in Thread, NEW d \in Client, NEW i \in DOMAIN client'[d].pool,
                          client'[d].pool[i] = thread'[u].session
                   PROVE  FALSE
        BY <1>4 DEF Contains
      <3>1. CASE u = t
        <4>1. client'[d].pool[i] \in Session
          BY <1>3, <1>4, ElementOfSeq
        <4> QED BY <1>2, <3>1, <4>1, SessionAssumption
      <3>2. CASE u # t
        <4>1. client'[d].pool[i] # q /\ thread'[u].session = thread[u].session
          BY <1>2, <1>7, <3>2
        <4>2. \E j \in 1 .. Len(client[d].pool) : client[d].pool[j] = thread[u].session
          BY <1>4, <1>5, <4>1
        <4> QED BY <4>2 DEF Inv, OwnInv, Contains
      <3> QED BY <3>1, <3>2
    <2>3. \A d, e \in Client : \A i \in DOMAIN client'[d].pool, j \in DOMAIN client'[e].pool :
            client'[d].pool[i] = client'[e].pool[j] => d = e /\ i = j
      <3> SUFFICES ASSUME NEW d \in Client, NEW e \in Client,
                          NEW i \in DOMAIN client'[d].pool, NEW j \in DOMAIN client'[e].pool,
                          client'[d].pool[i] = client'[e].pool[j]
                   PROVE  d = e /\ i = j
        OBVIOUS
      <3>1. \A x \in DOMAIN client[d].pool, y \in DOMAIN client[e].pool :
              client[d].pool[x] = client[e].pool[y] => d = e /\ x = y
        BY DEF Inv, OwnInv
      <3>2. i \in Nat /\ j \in Nat
        BY <1>4
      <3>3. CASE client'[d].pool[i] = q
        <4>1. d = c /\ i = 1
          BY <1>5, <1>6, <3>3
        <4>2. e = c /\ j = 1
          <5>1. client'[e].pool[j] = q
            BY <3>3
          <5> QED BY <1>5, <1>6, <5>1
        <4> QED BY <4>1, <4>2
      <3>4. CASE client'[d].pool[i] # q
        BY <1>5, <3>1, <3>2, <3>4
      <3> QED BY <3>3, <3>4
    <2>4. \A d \in Client : client'[d].cs # None => ClientOf[client'[d].cs] = d
      BY <1>2 DEF Inv, OwnInv
    <2> QED BY <2>1, <2>2, <2>3, <2>4 DEF OwnInv
  <1>9. \A u \in Thread \ {t} : Untouched(u)
    <2>1. db.rootClass <= db'.rootClass /\ db.triggers \subseteq db'.triggers
      BY <1>2 DEF Inv, TypeOK, Database
    <2>2. \A d \in Client : client'[d].dead = client[d].dead /\ client'[d].cs = client[d].cs
      BY <1>2
    <2>3. \A u \in Thread : ClientOf[u] \in Client
      BY SessionAssumption
    <2> QED BY <1>2, <2>1, <2>2, <2>3 DEF Untouched
  <1>10. PICK m \in Mark : ThreadAt(t, m)
    BY <1>1, <1>2 DEF Inv, CallInv
  <1>11. AtRest(m) /\ \E r \in Mark : AtRest(r) /\ Path(menu, thread[t].code, m, r)
    <2>1. PICK r \in Mark : AtRest(r) /\ Path(menu, <<>>, m, r)
      BY <1>2, <1>10 DEF ThreadAt
    <2> QED BY <1>2, <2>1, PathNil
  <1>12. m.depth = 0 /\ ~m.begun /\ m.held = (client[c].cs = t) /\ thread[t].tops = <<>>
    <2>1. thread[t].tops \in Seq(BOOLEAN)
      BY StateTypes DEF Inv, ThreadState
    <2> QED BY <1>1, <1>10, <1>11, <2>1, EmptySeq DEF ThreadAt, AtRest
  <1>13. session[q].txn # "open"
    <2>1. TxnAt(q, m, thread[t].tops)
      BY <1>1, <1>3, <1>10 DEF ThreadAt
    <2> QED BY <1>12, <2>1 DEF TxnAt
  <1>14. ThreadAt(t, m)'
    <2>1. /\ thread'[t].session = None /\ thread'[t].tops = <<>> /\ thread'[t].code = <<>>
          /\ menu' = menu /\ client'[ClientOf[t]].cs = client[ClientOf[t]].cs
      BY <1>1, <1>2, <1>12
    <2>2. m.depth = Len(<<>>) /\ m.held = (client'[ClientOf[t]].cs = t)
      BY <1>1, <1>12, <2>1
    <2>3. \E r \in Mark : AtRest(r) /\ Path(menu, <<>>, m, r)
      BY <1>2, <1>11
    <2> QED BY <1>12, <2>1, <2>2, <2>3 DEF ThreadAt
  <1>15. CallInv'
    BY <1>1, <1>2, <1>9, <1>14, CallsStay DEF Inv
  <1>16. TxnInv'
    <2>1. \A r \in Session : session'[r].txn = "open" =>
            \E u \in Thread : thread'[u].session = r /\ ~client'[ClientOf[u]].dead
      <3> SUFFICES ASSUME NEW r \in Session, session[r].txn = "open"
                   PROVE  \E u \in Thread : thread'[u].session = r /\ ~client'[ClientOf[u]].dead
        BY <1>2
      <3>1. PICK u \in Thread : thread[u].session = r /\ ~client[ClientOf[u]].dead
        BY DEF Inv, TxnInv
      <3>2. u # t /\ ClientOf[u] \in Client
        BY <1>1, <1>13, <3>1, SessionAssumption
      <3> QED BY <1>2, <3>1, <3>2
    <2>2. /\ \A r \in Session : session'[r].pend # <<>> => session'[r].txn = "open"
          /\ \A u \in Thread : thread'[u].tops # <<>> =>
               thread'[u].session # None /\ session'[thread'[u].session].txn # "none"
      BY <1>2, <1>12 DEF Inv, TxnInv
    <2>3. \A u \in Thread : \A i \in 1 .. Len(thread'[u].tops) : thread'[u].tops[i] => i = 1
      <3>1. \A u \in Thread : thread'[u].tops = thread[u].tops
        BY <1>2
      <3> QED BY <3>1 DEF Inv, TxnInv
    <2> QED BY <2>1, <2>2, <2>3 DEF TxnInv
  <1>17. LockInv'
    <2>1. \A k \in LockId, d \in Modes : ~(thread'[t].mine[k][d] > 0)
      BY <1>2 DEF NoLocks
    <2> QED BY <1>2, <2>1 DEF Inv, LockInv
  <1>18. RootInv' /\ TriggerInv'
    BY <1>2, ShrinkKeeps DEF Inv
  <1>19. ListenInv'
    <2>1. \A d \in Client : client'[d].dead = client[d].dead
      BY <1>2
    <2> QED BY <1>2, <2>1 DEF Inv, ListenInv
  <1>20. FailedConversionLeavesNothing' /\ UpdateIsAnnounced'
    BY <1>2 DEF Inv, FailedConversionLeavesNothing, UpdateIsAnnounced
  <1> QED BY <1>2, <1>8, <1>15, <1>16, <1>17, <1>18, <1>19, <1>20 DEF Inv

\* The invariant holds at first: every thread is at rest, without a session.
LEMMA InitInv == Init => Inv
  <1> SUFFICES ASSUME Init PROVE Inv
    OBVIOUS
  <1>1. /\ \A t \in Thread : /\ thread[t].session = None /\ thread[t].code = <<>> /\ thread[t].tops = <<>>
                             /\ thread[t].mine = NoLocks /\ thread[t].listening = {} /\ thread[t].due = {}
        /\ \A s \in Session : session[s] = NewConnection
        /\ \A c \in Client : client[c].pool = <<>> /\ client[c].cs = None /\ ~client[c].dead
        /\ db.rootClass = 0 /\ ~db.root /\ ~db.converted
    BY DEF Init
  <1>2. TypeOK
    BY TypeInit
  <1>3. \A s \in Session : /\ session[s].txn = "none" /\ session[s].pend = <<>>
                           /\ session[s].locks = NoLocks /\ session[s].inbox = {}
                           /\ \A o \in Obj : session[s].observers[o] = "none"
    BY <1>1 DEF NewConnection
  <1>4. \A k \in LockId, m \in Modes : NoLocks[k][m] = 0
    BY DEF NoLocks
  <1>5. OwnInv
    BY <1>1, Nothing DEF OwnInv
  <1>6. CallInv
    <2> SUFFICES ASSUME NEW t \in Thread PROVE ThreadAt(t, Resting({}))
      BY <1>1, RestingIsMark, SessionAssumption DEF CallInv
    <2>1. PICK m \in Mark : /\ m = Resting({}) /\ AtRest(m)
                            /\ \E r \in Mark : AtRest(r) /\ Path(menu, <<>>, m, r)
      BY RestingIsMark
    <2>2. m.depth = Len(<<>>) /\ m.depth = 0 /\ ~m.held /\ ~m.begun
      BY <2>1 DEF AtRest
    <2>3. client[ClientOf[t]].cs = None /\ None # t
      BY <1>1, SessionAssumption
    <2>4. m \in Mark /\ m.held = (client[ClientOf[t]].cs = t)
      BY <2>1, <2>2, <2>3, RestingIsMark, MarkFields
    <2>5. thread[t].session = None /\ thread[t].code = <<>> /\ thread[t].tops = <<>>
      BY <1>1
    <2>6. \E r \in Mark : AtRest(r) /\ Path(menu, thread[t].code, m, r)
      BY <2>1, <2>5
    <2>7. ThreadAt(t, m)
      BY <2>2, <2>4, <2>5, <2>6 DEF ThreadAt
    <2> QED BY <2>1, <2>7
  <1>7. TxnInv
    BY <1>1, <1>3 DEF TxnInv
  <1>8. LockInv
    BY <1>1, <1>3, <1>4 DEF LockInv
  <1>9. RootInv
    <2>1. \A s \in Session : RootClasses(s) = 0 /\ ~HasRoot(s)
      BY <1>3, Nothing DEF RootClasses, HasRoot
    <2> QED BY <1>1, <2>1 DEF RootInv
  <1>10. TriggerInv
    BY <1>3, Nothing DEF TriggerInv
  <1>11. ListenInv
    BY <1>1, <1>3 DEF ListenInv
  <1>12. FailedConversionLeavesNothing /\ UpdateIsAnnounced
    BY <1>1 DEF FailedConversionLeavesNothing, UpdateIsAnnounced
  <1> QED BY <1>2, <1>5, <1>6, <1>7, <1>8, <1>9, <1>10, <1>11, <1>12 DEF Inv

\* Nothing happens to the invariant when nothing happens.
LEMMA StutterKeeps == Inv /\ UNCHANGED vars => Inv'
  <1> SUFFICES ASSUME Inv, UNCHANGED vars PROVE Inv'
    OBVIOUS
  <1>1. thread' = thread /\ session' = session /\ client' = client /\ db' = db /\ UNCHANGED bounds
    BY DEF vars
  <1>2. TypeOK' /\ menu' = menu
    BY <1>1 DEF Inv, TypeOK, bounds
  <1>3. \A u \in Thread : Untouched(u)
    <2>1. db.rootClass <= db'.rootClass
      BY <1>1 DEF Inv, TypeOK, Database
    <2> QED BY <1>1, <1>2, <2>1 DEF Untouched
  <1>4. CallInv'
    <2> SUFFICES ASSUME NEW t \in Thread
                 PROVE  IF client'[ClientOf[t]].dead THEN thread'[t].code = <<>> /\ thread'[t].tops = <<>>
                        ELSE \E m \in Mark : ThreadAt(t, m)'
      BY DEF CallInv
    <2>1. CASE client[ClientOf[t]].dead
      BY <1>1, <2>1 DEF Inv, CallInv
    <2>2. CASE ~client[ClientOf[t]].dead
      <3>1. PICK m \in Mark : ThreadAt(t, m)
        BY <2>2 DEF Inv, CallInv
      <3> QED BY <1>1, <1>2, <1>3, <2>2, <3>1, UntouchedStays DEF Inv
    <2> QED BY <2>1, <2>2
  <1>5. OwnInv' /\ TxnInv' /\ LockInv'
    BY <1>1, <1>2 DEF Inv, OwnInv, TxnInv, LockInv
  <1>6. RootInv' /\ TriggerInv'
    BY <1>1, ShrinkKeeps DEF Inv
  <1>7. ListenInv' /\ FailedConversionLeavesNothing' /\ UpdateIsAnnounced'
    BY <1>1, <1>2 DEF Inv, ListenInv, FailedConversionLeavesNothing, UpdateIsAnnounced
  <1> QED BY <1>2, <1>4, <1>5, <1>6, <1>7 DEF Inv

LEMMA NextKeeps == Inv /\ Next => Inv'
  <1> SUFFICES ASSUME Inv, NEW t \in Thread, Attach(t) \/ Detach(t) \/ Call(t) \/ Step(t)
               PROVE  Inv'
    BY DEF Next
  <1>1. CASE Attach(t)
    BY <1>1, AttachKeeps
  <1>2. CASE Detach(t)
    BY <1>2, DetachKeeps
  <1>3. CASE Call(t)
    BY <1>3, CallKeeps
  <1>4. CASE Step(t)
    <2>1. CASE Start(t)
      BY <2>1, StartKeeps
    <2>2. CASE End(t)
      BY <2>2, EndQuietKeeps, EndCommitKeeps
    <2>3. CASE Abandon(t)
      BY <2>3, AbandonKeeps
    <2>4. CASE RollbackTransaction(t)
      BY <2>4, RollbackKeeps
    <2>5. CASE LockGlobal(t) \/ UnlockGlobal(t) \/ Enter(t) \/ Leave(t)
      BY <2>5, MonitorsKeep
    <2>6. CASE Write(t)
      BY <2>6, WriteKeeps
    <2>7. CASE SelectClass(t) \/ NewOid(t)
      BY <2>7, ReadsKeep
    <2>8. CASE HashGet(t)
      BY <2>8, HashGetKeeps
    <2>9. CASE LoadObject(t)
      BY <2>9, LoadKeeps
    <2>10. CASE AdvisoryLock(t)
      BY <2>10, LockKeeps
    <2>11. CASE AdvisoryUnlock(t)
      BY <2>11, UnlockKeeps
    <2>12. CASE Observe(t)
      BY <2>12, ObserveKeeps
    <2>13. CASE GetNotifs(t)
      BY <2>13, NotifsKeep
    <2>14. CASE StatementFails(t)
      BY <2>14, FailsKeep
    <2> QED BY <1>4, <2>1, <2>2, <2>3, <2>4, <2>5, <2>6, <2>7, <2>8, <2>9, <2>10, <2>11, <2>12, <2>13, <2>14
            DEF Step
  <1> QED BY <1>1, <1>2, <1>3, <1>4

LEMMA SpecInv == Spec => []Inv
  <1>1. Inv /\ [Next]_vars => Inv'
    BY NextKeeps, StutterKeeps
  <1> QED BY InitInv, <1>1, PTL DEF Spec

-----------------------------------------------------------------------------
(* What holds of every behaviour                                           *)

\* The state of threads, sessions, clients and database has the types the code
\* gives it, for any number of them.
THEOREM TypeCorrect == Spec => []TypeOK
  BY SpecInv, PTL DEF Inv

\* session_lock: while a thread has been granted an exclusive lock and has not
\* unlocked it, no other thread has been granted it in any mode, whatever
\* statements fail, scopes abort and sessions change threads in between.
THEOREM ExclusiveLocksExclude == Spec => []LocksExclude
  <1>1. Inv => LocksExclude
    <2> SUFFICES ASSUME Inv, NEW t \in Thread, NEW u \in Thread, NEW k \in LockId, NEW m \in Modes,
                        t # u, thread[t].mine[k]["exclusive"] > 0
                 PROVE  thread[u].mine[k][m] = 0
      BY DEF LocksExclude
    <2>1. /\ \A v \in Thread : thread[v] \in ThreadState /\ thread[v].session \in Session \cup {None}
          /\ "exclusive" \in Modes
      BY StateTypes DEF Inv, Modes
    <2>2. thread[u].mine[k][m] \in Nat /\ thread[t].mine[k]["exclusive"] \in Nat
      BY <2>1 DEF ThreadState
    <2>3. /\ thread[t].session \in Session
          /\ session[thread[t].session].locks[k]["exclusive"] >= thread[t].mine[k]["exclusive"]
      BY <2>1 DEF Inv, LockInv
    <2>4. CASE thread[u].mine[k][m] > 0
      <3>1. /\ thread[u].session \in Session
            /\ session[thread[u].session].locks[k][m] >= thread[u].mine[k][m]
        BY <2>1, <2>4 DEF Inv, LockInv
      <3>2. thread[u].session # thread[t].session
        BY <2>3, SessionAssumption DEF Inv, OwnInv
      <3>3. /\ session[thread[t].session].locks[k]["exclusive"] \in Nat
            /\ session[thread[u].session].locks[k][m] \in Nat
        BY <2>1, <2>3, <3>1 DEF Inv, TypeOK, SessionState
      <3>4. session[thread[u].session].locks[k][m] = 0
        BY <2>2, <2>3, <3>1, <3>2, <3>3 DEF Inv, LockInv
      <3> QED BY <2>2, <2>4, <3>1, <3>4
    <2> QED BY <2>2, <2>4
  <1> QED BY SpecInv, <1>1, PTL

\* session_lock: a lock a thread was granted is still held by its session until
\* the thread unlocks it or ends.
THEOREM GrantedLocksAreKept == Spec => []LocksAreKept
  <1>1. Inv => LocksAreKept
    BY DEF Inv, LockInv, LocksAreKept
  <1> QED BY SpecInv, <1>1, PTL

\* A thread inside the storage mutex already has a transaction, so it never waits
\* there for the global monitor, whose holder may be waiting for the mutex.
THEOREM MonitorsAreOrdered == Spec => []NoCircularWait
  <1>1. Inv => NoCircularWait
    <2> SUFFICES ASSUME Inv, NEW c \in Client, NEW t \in Thread, client[c].cs = t, First(t, "start"),
                        session[thread[t].session].txn = "none"
                 PROVE  FALSE
      BY DEF NoCircularWait
    <2>1. ClientOf[t] = c /\ ~client[c].dead
      <3>1. None # t
        BY SessionAssumption
      <3>2. ClientOf[t] = c
        BY <3>1 DEF Inv, OwnInv
      <3> QED BY <3>2, Zenon DEF First
    <2>2. PICK m \in Mark : ThreadAt(t, m)
      BY <2>1 DEF Inv, CallInv
    <2>3. m.depth = Len(thread[t].tops) /\ m.held /\ m.depth >= 1
      BY <2>1, <2>2, MarkFields DEF ThreadAt
    <2>4. thread[t].tops # <<>>
      BY <2>3
    <2> QED BY <2>4 DEF Inv, TxnInv
  <1> QED BY SpecInv, <1>1, PTL

\* A conversion that returned before its end never reaches the database, not
\* even through the thread that later inherits its session from the pool.
THEOREM AbandonedConversionIsLost == Spec => []FailedConversionLeavesNothing
  BY SpecInv, PTL DEF Inv

\* However many clients create the root at once, the table root_class has one row
\* when there is a root and none before.
THEOREM RootIsCreatedOnce == Spec => []OneRootClass
  <1>1. Inv => OneRootClass
    BY DEF Inv, RootInv, OneRootClass
  <1> QED BY SpecInv, <1>1, PTL

\* An update committed while a thread listens to the object is in its session's
\* notifications until it takes them, unless it listens again after unlisten.
THEOREM UpdatesReachListeners == Spec => []UpdateIsAnnounced
  BY SpecInv, PTL DEF Inv
===============================================================================
