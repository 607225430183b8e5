-------------------------- MODULE OidAllocatorProofs --------------------------
(* Proofs about OidAllocator, for every value of its constants.             *)
EXTENDS OidAllocator, TLAPS

Inside == {"fetch", "read", "take"}

\* The mutex is held by the thread that is inside allocate, the buffer has an
\* entry left for it or is refilled, and the position it has read is current.
MutexShape(t) ==
  /\ pc[t] \in Inside => cs[ClientOf[t]] = t /\ ClientOf[t] \in up
  /\ pc[t] = "fetch" => opidBufPos[ClientOf[t]] = BufSize
  /\ pc[t] # "fetch" => rows[t] = << >>
  /\ pc[t] \in {"read", "take"} => opidBufPos[ClientOf[t]] < BufSize
  /\ pc[t] = "take" => slot[t] = opidBufPos[ClientOf[t]]

MutexInv == \A t \in Thread : MutexShape(t)

\* What has been drawn from the sequence and not been handed out.
Drawn(oid) == oid \in Oid /\ oid <= oidSequence /\ oid \notin issued

\* The identifiers in a client's buffer have been drawn, and nobody else has
\* them.
BufInv ==
  \A c \in Client : \A i \in LiveSlots(c) :
    /\ Drawn(opidBuf[c][i])
    /\ \A d \in Client : \A j \in LiveSlots(d) :
         opidBuf[d][j] = opidBuf[c][i] => d = c /\ j = i

\* So have those a thread is fetching.
RowInv ==
  \A t \in Thread : \A i \in 1 .. Len(rows[t]) :
    /\ Drawn(rows[t][i])
    /\ \A u \in Thread : \A j \in 1 .. Len(rows[u]) :
         rows[u][j] = rows[t][i] => u = t /\ j = i
    /\ \A c \in Client : \A j \in LiveSlots(c) : opidBuf[c][j] # rows[t][i]

IssuedInv == \A oid \in issued : oid \in Oid /\ oid <= oidSequence

OidInv == TypeOK /\ MutexInv /\ BufInv /\ RowInv /\ IssuedInv

-----------------------------------------------------------------------------
\* The initial states have the types.
LEMMA OidTypeInit == Init => TypeOK
  BY ThreadAssumption, OidAssumption DEF Init, TypeOK

\* Every action keeps the types; Take needs the position it has read.
LEMMA OidTypeStep == TypeOK /\ MutexInv /\ [Next]_vars => TypeOK'
  <1> SUFFICES ASSUME TypeOK, MutexInv, [Next]_vars PROVE TypeOK'
    OBVIOUS
  <1> USE ThreadAssumption, OidAssumption
  <1>1. ASSUME NEW c \in Client, Open(c) PROVE TypeOK'
    BY <1>1 DEF Open, TypeOK
  <1>2. ASSUME NEW c \in Client, Exit(c) PROVE TypeOK'
    BY <1>2 DEF Exit, TypeOK
  <1>3. ASSUME NEW t \in Thread, Allocate(t) PROVE TypeOK'
    BY <1>3 DEF Allocate, TypeOK
  <1>4. ASSUME NEW t \in Thread, NextVal(t) PROVE TypeOK'
    <2>1. oidSequence' \in FirstOid - 1 .. MaxOid /\ oidSequence + 1 \in Oid
      BY <1>4 DEF NextVal, TypeOK, Oid
    <2>2. Append(rows[t], oidSequence + 1) \in Seq(Oid)
      BY <2>1 DEF TypeOK
    <2>3. /\ rows' \in [Thread -> Seq(Oid)]
          /\ \A u \in Thread : Len(rows'[u]) <= BufSize
      BY <1>4, <2>2 DEF NextVal, TypeOK
    <2>4. QED
      BY <1>4, <2>1, <2>3 DEF NextVal, TypeOK
  <1>5. ASSUME NEW t \in Thread, NewOidFails(t) PROVE TypeOK'
    BY <1>5 DEF NewOidFails, TypeOK
  <1>6. ASSUME NEW t \in Thread, FillBuffer(t) PROVE TypeOK'
    <2>1. \A i \in 0 .. BufSize - 1 : rows[t][i + 1] \in Nat
      <3>1. rows[t] \in Seq(Oid) /\ Len(rows[t]) = BufSize
        BY <1>6 DEF FillBuffer, TypeOK
      <3>2. \A i \in 0 .. BufSize - 1 : i + 1 \in 1 .. Len(rows[t])
        BY <3>1
      <3>3. \A i \in 0 .. BufSize - 1 : rows[t][i + 1] \in Oid
        BY <3>1, <3>2
      <3>4. QED
        BY <3>3 DEF Oid
    <2>2. opidBuf' \in [Client -> [0 .. BufSize - 1 -> Nat]]
      BY <1>6, <2>1 DEF FillBuffer, TypeOK
    <2>3. QED
      BY <1>6, <2>2 DEF FillBuffer, TypeOK
  <1>7. ASSUME NEW t \in Thread, ReadPos(t) PROVE TypeOK'
    BY <1>7 DEF ReadPos, TypeOK
  <1>8. ASSUME NEW t \in Thread, Take(t) PROVE TypeOK'
    <2>1. slot[t] \in 0 .. BufSize - 1
      BY <1>8 DEF Take, TypeOK, MutexInv, MutexShape
    <2>2. opidBuf[ClientOf[t]][slot[t]] \in Nat
      BY <2>1 DEF TypeOK
    <2>3. issued' \subseteq Nat /\ result' \in [Thread -> Nat \cup {NoOid}]
      BY <1>8, <2>2 DEF Take, TypeOK
    <2>4. opidBufPos' \in [Client -> 0 .. BufSize] /\ slot' \in [Thread -> 0 .. BufSize]
      BY <1>8, <2>1 DEF Take, TypeOK
    <2>5. QED
      BY <1>8, <2>3, <2>4 DEF Take, TypeOK
  <1>9. CASE UNCHANGED vars
    BY <1>9 DEF vars, TypeOK
  <1>10. QED
    BY <1>1, <1>2, <1>3, <1>4, <1>5, <1>6, <1>7, <1>8, <1>9 DEF Next, Step

\* At most one thread of a client is inside allocate.
LEMMA MutexStep == TypeOK /\ MutexInv /\ [Next]_vars => MutexInv'
  <1> SUFFICES ASSUME TypeOK, MutexInv, [Next]_vars, NEW u \in Thread
               PROVE  MutexShape(u)'
    BY DEF MutexInv
  <1>0. MutexShape(u) /\ ClientOf[u] \in Client
    BY ThreadAssumption DEF MutexInv
  <1>1. ASSUME NEW t \in Thread, u # t, ClientOf[u] = ClientOf[t], pc[t] \in Inside
        PROVE  pc[u] \notin Inside
    BY <1>0, <1>1 DEF MutexInv, MutexShape
  <1> USE ThreadAssumption, OidAssumption DEF MutexShape, Inside, TypeOK
  <1>2. ASSUME NEW c \in Client, Open(c) PROVE MutexShape(u)'
    BY <1>0, <1>2 DEF Open
  <1>3. ASSUME NEW c \in Client, Exit(c) PROVE MutexShape(u)'
    BY <1>0, <1>3 DEF Exit
  <1>4. ASSUME NEW t \in Thread, Allocate(t) PROVE MutexShape(u)'
    BY <1>0, <1>4 DEF Allocate
  <1>5. ASSUME NEW t \in Thread, NextVal(t) PROVE MutexShape(u)'
    BY <1>0, <1>5 DEF NextVal
  <1>6. ASSUME NEW t \in Thread, NewOidFails(t) PROVE MutexShape(u)'
    BY <1>0, <1>1, <1>6 DEF NewOidFails
  <1>7. ASSUME NEW t \in Thread, FillBuffer(t) PROVE MutexShape(u)'
    <2>1. CASE u = t
      BY <1>0, <1>7, <2>1 DEF FillBuffer
    <2>2. CASE u # t /\ ClientOf[u] = ClientOf[t]
      BY <1>0, <1>1, <1>7, <2>2 DEF FillBuffer
    <2>3. CASE ClientOf[u] # ClientOf[t]
      BY <1>0, <1>7, <2>3 DEF FillBuffer
    <2>4. QED
      BY <2>1, <2>2, <2>3
  <1>8. ASSUME NEW t \in Thread, ReadPos(t) PROVE MutexShape(u)'
    BY <1>0, <1>8 DEF ReadPos
  <1>9. ASSUME NEW t \in Thread, Take(t) PROVE MutexShape(u)'
    <2>1. CASE u = t
      BY <1>0, <1>9, <2>1 DEF Take
    <2>2. CASE u # t /\ ClientOf[u] = ClientOf[t]
      BY <1>0, <1>1, <1>9, <2>2 DEF Take
    <2>3. CASE ClientOf[u] # ClientOf[t]
      BY <1>0, <1>9, <2>3 DEF Take
    <2>4. QED
      BY <2>1, <2>2, <2>3
  <1>10. CASE UNCHANGED vars
    BY <1>0, <1>10 DEF vars
  <1>11. QED
    BY <1>2, <1>3, <1>4, <1>5, <1>6, <1>7, <1>8, <1>9, <1>10 DEF Next, Step

\* Buffers and fetched rows keep identifiers nobody else has.
LEMMA OidsStep ==
  TypeOK /\ TypeOK' /\ MutexInv /\ MutexInv' /\ BufInv /\ RowInv /\ IssuedInv /\ [Next]_vars
    => BufInv' /\ RowInv' /\ IssuedInv'
  <1> SUFFICES ASSUME TypeOK, TypeOK', MutexInv, MutexInv', BufInv, RowInv, IssuedInv,
                      [Next]_vars
               PROVE  BufInv' /\ RowInv' /\ IssuedInv'
    OBVIOUS
  <1> USE ThreadAssumption, OidAssumption
  <1>0. /\ oidSequence \in Int /\ opidBufPos \in [Client -> 0 .. BufSize]
        /\ opidBuf \in [Client -> [0 .. BufSize - 1 -> Nat]]
        /\ rows \in [Thread -> Seq(Oid)] /\ slot \in [Thread -> 0 .. BufSize]
    BY DEF TypeOK
  <1>1. ASSUME UNCHANGED <<oidSequence, issued, opidBuf>>,
               \A c \in Client : LiveSlots(c)' \subseteq LiveSlots(c),
               \A t \in Thread : rows'[t] = rows[t] \/ rows'[t] = << >>
        PROVE  BufInv' /\ RowInv' /\ IssuedInv'
    <2>1. BufInv'
      BY <1>1 DEF BufInv, Drawn
    <2>2. RowInv'
      BY <1>1 DEF RowInv, Drawn
    <2>3. QED
      BY <1>1, <2>1, <2>2 DEF IssuedInv
  <1>2. ASSUME NEW c \in Client, Open(c) PROVE BufInv' /\ RowInv' /\ IssuedInv'
    BY <1>0, <1>1, <1>2 DEF Open, LiveSlots
  <1>3. ASSUME NEW c \in Client, Exit(c) PROVE BufInv' /\ RowInv' /\ IssuedInv'
    BY <1>0, <1>1, <1>3 DEF Exit, LiveSlots
  <1>4. ASSUME NEW t \in Thread, NewOidFails(t) PROVE BufInv' /\ RowInv' /\ IssuedInv'
    BY <1>0, <1>1, <1>4 DEF NewOidFails, LiveSlots
  <1>5. CASE UNCHANGED <<oidSequence, opidBuf, opidBufPos, rows, issued>>
    BY <1>1, <1>5 DEF LiveSlots
  <1>6. ASSUME NEW t \in Thread, NextVal(t) PROVE BufInv' /\ RowInv' /\ IssuedInv'
    <2>0. PICK new : new = oidSequence + 1
      OBVIOUS
    <2>1. /\ oidSequence' = new /\ UNCHANGED <<issued, opidBuf, opidBufPos>>
          /\ \A u \in Thread \ {t} : rows'[u] = rows[u]
          /\ rows'[t] = Append(rows[t], new)
      BY <1>0, <1>6, <2>0 DEF NextVal
    <2>2. Len(rows'[t]) = Len(rows[t]) + 1 /\ rows'[t][Len(rows[t]) + 1] = new
          /\ \A i \in 1 .. Len(rows[t]) : rows'[t][i] = rows[t][i]
      BY <1>0, <2>1
    <2>3. new \in Oid /\ \A oid : Drawn(oid) => oid # new /\ Drawn(oid)'
      BY <1>0, <1>6, <2>0, <2>1 DEF NextVal, Drawn, TypeOK, Oid
    <2>4. Drawn(new)'
      BY <1>0, <2>0, <2>1, <2>3 DEF Drawn, IssuedInv, Oid
    <2>5. BufInv'
      BY <2>1, <2>3 DEF BufInv, LiveSlots
    <2>6. \A u \in Thread : \A i \in 1 .. Len(rows'[u]) :
            \/ i \in 1 .. Len(rows[u]) /\ rows'[u][i] = rows[u][i]
            \/ u = t /\ i = Len(rows[t]) + 1 /\ rows'[u][i] = new
      <3>1. Len(rows[t]) \in Nat
        BY <1>0
      <3>2. ASSUME NEW u \in Thread, NEW i \in 1 .. Len(rows'[u])
            PROVE  \/ i \in 1 .. Len(rows[u]) /\ rows'[u][i] = rows[u][i]
                   \/ u = t /\ i = Len(rows[t]) + 1 /\ rows'[u][i] = new
        <4>1. CASE u = t
          BY <2>2, <3>1, <4>1
        <4>2. CASE u # t
          BY <2>1, <4>2
        <4>3. QED
          BY <4>1, <4>2
      <3>3. QED
        BY <3>2
    <2>7. RowInv'
      <3> SUFFICES ASSUME NEW u \in Thread, NEW i \in 1 .. Len(rows'[u])
                   PROVE  /\ Drawn(rows[u][i])'
                          /\ \A w \in Thread : \A j \in 1 .. Len(rows'[w]) :
                               rows'[w][j] = rows'[u][i] => w = u /\ j = i
                          /\ \A c \in Client : \A j \in LiveSlots(c)' :
                               opidBuf'[c][j] # rows'[u][i]
        BY DEF RowInv
      <3>1. Drawn(rows[u][i])'
        <4>1. (Drawn(rows[u][i]) /\ rows'[u][i] = rows[u][i]) \/ rows'[u][i] = new
          BY <2>6 DEF RowInv
        <4>2. QED
          BY <2>3, <2>4, <4>1 DEF Drawn
      <3>2. \A w \in Thread : \A j \in 1 .. Len(rows'[w]) :
               rows'[w][j] = rows'[u][i] => w = u /\ j = i
        BY <2>3, <2>6 DEF RowInv
      <3>3. \A c \in Client : \A j \in LiveSlots(c)' : opidBuf'[c][j] # rows'[u][i]
        BY <2>1, <2>3, <2>6 DEF RowInv, BufInv, LiveSlots
      <3>4. QED
        BY <3>1, <3>2, <3>3
    <2>8. IssuedInv'
      BY <1>0, <2>0, <2>1 DEF IssuedInv, Oid
    <2>9. QED
      BY <2>5, <2>7, <2>8
  <1>7. ASSUME NEW t \in Thread, FillBuffer(t) PROVE BufInv' /\ RowInv' /\ IssuedInv'
    <2> DEFINE c == ClientOf[t]
    <2>1. /\ UNCHANGED <<oidSequence, issued>>
          /\ \A d \in Client \ {c} : opidBuf'[d] = opidBuf[d] /\ LiveSlots(d)' = LiveSlots(d)
          /\ LiveSlots(c)' = 0 .. BufSize - 1
          /\ \A i \in 0 .. BufSize - 1 : /\ opidBuf'[c][i] = rows[t][i + 1]
                                         /\ i + 1 \in 1 .. Len(rows[t])
          /\ \A u \in Thread \ {t} : rows'[u] = rows[u]
          /\ rows'[t] = << >>
      BY <1>0, <1>7 DEF FillBuffer, LiveSlots
    <2>2. \A oid : Drawn(oid) => Drawn(oid)'
      BY <2>1 DEF Drawn
    <2>3. BufInv'
      <3> SUFFICES ASSUME NEW d \in Client, NEW i \in LiveSlots(d)'
                   PROVE  /\ Drawn(opidBuf[d][i])'
                          /\ \A e \in Client : \A j \in LiveSlots(e)' :
                               opidBuf'[e][j] = opidBuf'[d][i] => e = d /\ j = i
        BY DEF BufInv
      <3>1. CASE d = c
        <4>1. Drawn(opidBuf[d][i])'
          BY <2>1, <2>2, <3>1 DEF RowInv, Drawn
        <4>2. ASSUME NEW e \in Client, NEW j \in LiveSlots(e)',
                     opidBuf'[e][j] = opidBuf'[d][i]
              PROVE  e = d /\ j = i
          <5>1. CASE e = c
            <6>1. i \in 0 .. BufSize - 1 /\ j \in 0 .. BufSize - 1
              BY <2>1, <3>1, <5>1
            <6>2. rows[t][j + 1] = rows[t][i + 1]
              BY <2>1, <3>1, <4>2, <5>1, <6>1
            <6>3. j + 1 = i + 1
              BY <2>1, <6>1, <6>2 DEF RowInv
            <6>4. QED
              BY <3>1, <5>1, <6>1, <6>3
          <5>2. CASE e # c
            BY <2>1, <3>1, <4>2, <5>2 DEF RowInv
          <5>3. QED
            BY <5>1, <5>2
        <4>3. QED
          BY <4>1, <4>2
      <3>2. CASE d # c
        <4>1. Drawn(opidBuf[d][i])'
          BY <2>1, <2>2, <3>2 DEF BufInv, Drawn
        <4>2. ASSUME NEW e \in Client, NEW j \in LiveSlots(e)',
                     opidBuf'[e][j] = opidBuf'[d][i]
              PROVE  e = d /\ j = i
          <5>1. CASE e = c
            BY <2>1, <3>2, <4>2, <5>1 DEF RowInv
          <5>2. CASE e # c
            BY <2>1, <3>2, <4>2, <5>2 DEF BufInv
          <5>3. QED
            BY <5>1, <5>2
        <4>3. QED
          BY <4>1, <4>2
      <3>3. QED
        BY <3>1, <3>2
    <2>4. RowInv'
      <3> SUFFICES ASSUME NEW u \in Thread, NEW i \in 1 .. Len(rows'[u])
                   PROVE  /\ Drawn(rows[u][i])'
                          /\ \A w \in Thread : \A j \in 1 .. Len(rows'[w]) :
                               rows'[w][j] = rows'[u][i] => w = u /\ j = i
                          /\ \A d \in Client : \A j \in LiveSlots(d)' :
                               opidBuf'[d][j] # rows'[u][i]
        BY DEF RowInv
      <3>1. u # t /\ rows'[u] = rows[u]
        BY <2>1
      <3>2. Drawn(rows[u][i])'
        BY <2>2, <3>1 DEF RowInv, Drawn
      <3>3. \A w \in Thread : \A j \in 1 .. Len(rows'[w]) :
               rows'[w][j] = rows'[u][i] => w = u /\ j = i
        BY <2>1, <3>1 DEF RowInv
      <3>4. ASSUME NEW d \in Client, NEW j \in LiveSlots(d)'
            PROVE  opidBuf'[d][j] # rows'[u][i]
        <4>1. CASE d = c
          BY <2>1, <3>1, <3>4, <4>1 DEF RowInv
        <4>2. CASE d # c
          BY <2>1, <3>1, <3>4, <4>2 DEF RowInv
        <4>3. QED
          BY <4>1, <4>2
      <3>5. QED
        BY <3>2, <3>3, <3>4
    <2>5. IssuedInv'
      BY <2>1 DEF IssuedInv
    <2>6. QED
      BY <2>3, <2>4, <2>5
  <1>8. ASSUME NEW t \in Thread, Take(t) PROVE BufInv' /\ RowInv' /\ IssuedInv'
    <2> DEFINE c == ClientOf[t]
               oid == opidBuf[c][slot[t]]
    <2>1. slot[t] \in LiveSlots(c) /\ slot[t] = opidBufPos[c]
      BY <1>0, <1>8 DEF Take, MutexInv, MutexShape, LiveSlots
    <2>2. /\ UNCHANGED <<oidSequence, opidBuf, rows>> /\ issued' = issued \cup {oid}
          /\ \A d \in Client \ {c} : LiveSlots(d)' = LiveSlots(d)
          /\ LiveSlots(c)' = LiveSlots(c) \ {slot[t]}
      BY <1>0, <1>8, <2>1 DEF Take, LiveSlots
    <2>3. Drawn(oid)
      BY <2>1 DEF BufInv
    <2>4. \A x : Drawn(x) /\ x # oid => Drawn(x)'
      BY <2>2 DEF Drawn
    <2>5. BufInv'
      BY <2>1, <2>2, <2>4 DEF BufInv, Drawn
    <2>6. RowInv'
      BY <2>1, <2>2, <2>4 DEF RowInv, Drawn
    <2>7. IssuedInv'
      BY <2>2, <2>3 DEF IssuedInv, Drawn
    <2>8. QED
      BY <2>5, <2>6, <2>7
  <1>9. QED
    BY <1>2, <1>3, <1>4, <1>5, <1>6, <1>7, <1>8
    DEF Next, Step, Allocate, ReadPos, vars

\* The invariant holds at the start.
LEMMA OidInvInit == Init => OidInv
  <1> SUFFICES ASSUME Init PROVE OidInv
    OBVIOUS
  <1> USE ThreadAssumption, OidAssumption
  <1>1. TypeOK /\ MutexInv
    BY OidTypeInit DEF Init, MutexInv, MutexShape, Inside
  <1>2. BufInv /\ RowInv /\ IssuedInv
    BY DEF Init, BufInv, RowInv, IssuedInv, LiveSlots
  <1>3. QED
    BY <1>1, <1>2 DEF OidInv

\* Every step keeps the invariant.
LEMMA OidInvStep == OidInv /\ [Next]_vars => OidInv'
  BY OidTypeStep, MutexStep, OidsStep DEF OidInv

\* What drawn identifiers, buffers and the mutex look like in every state.
THEOREM OidInvariantHolds == Spec => []OidInv
  BY OidInvInit, OidInvStep, PTL DEF Spec

\* The variables of the allocator keep their types.
THEOREM OidTypeCorrect == Spec => []TypeOK
  BY OidInvariantHolds, PTL DEF OidInv

\* No identifier is drawn while the client has one left, and none is read from
\* an empty buffer.
THEOREM BufferUsedUpFirst == Spec => []BufferUsedUp
  <1>1. OidInv => BufferUsedUp
    <2> SUFFICES ASSUME OidInv, NEW t \in Thread
                 PROVE  /\ pc[t] = "fetch" => LiveSlots(ClientOf[t]) = {}
                        /\ pc[t] \in {"read", "take"} => LiveSlots(ClientOf[t]) # {}
      BY DEF BufferUsedUp
    <2>1. BufSize \in Nat /\ opidBufPos[ClientOf[t]] \in 0 .. BufSize
      BY OidAssumption, ThreadAssumption DEF OidInv, TypeOK
    <2>2. MutexShape(t)
      BY DEF OidInv, MutexInv
    <2>3. opidBufPos[ClientOf[t]] = BufSize => LiveSlots(ClientOf[t]) = {}
      BY <2>1 DEF LiveSlots
    <2>4. opidBufPos[ClientOf[t]] < BufSize =>
            opidBufPos[ClientOf[t]] \in LiveSlots(ClientOf[t])
      BY <2>1 DEF LiveSlots
    <2>5. QED
      BY <2>2, <2>3, <2>4 DEF MutexShape
  <1>2. QED
    BY <1>1, OidInvariantHolds, PTL

\* allocate implements UniqueIds: whatever the numbers of clients and threads
\* and the size of the buffer, no identifier is handed out twice.
THEOREM NoOidTwice == Spec => ImplementsUniqueIds
  <1>1. Init => Ids!Init
    BY DEF Init, Ids!Init
  <1>2. OidInv /\ [Next]_vars => [Ids!Next]_<<issued, result>>
    <2> SUFFICES ASSUME OidInv, [Next]_vars, ~UNCHANGED <<issued, result>>
                 PROVE  Ids!Next
      OBVIOUS
    <2>1. PICK t \in Thread : Take(t)
      BY DEF Next, Step, Open, Exit, Allocate, NextVal, NewOidFails, FillBuffer,
             ReadPos, vars
    <2>2. /\ ClientOf[t] \in Client /\ slot[t] \in LiveSlots(ClientOf[t])
      <3>1. BufSize \in Nat /\ opidBufPos[ClientOf[t]] \in 0 .. BufSize
        BY OidAssumption, ThreadAssumption DEF OidInv, TypeOK
      <3>2. slot[t] = opidBufPos[ClientOf[t]] /\ opidBufPos[ClientOf[t]] < BufSize
        BY <2>1 DEF OidInv, MutexInv, MutexShape, Take
      <3>3. QED
        BY <3>1, <3>2, ThreadAssumption DEF LiveSlots
    <2>3. opidBuf[ClientOf[t]][slot[t]] \in Oid \ issued
      BY <2>2 DEF OidInv, BufInv, Drawn
    <2>4. Ids!Issue(t)
      BY <2>1, <2>3 DEF Take, Ids!Issue
    <2>5. QED
      BY <2>4 DEF Ids!Next
  <1>3. QED
    BY <1>1, <1>2, OidInvariantHolds, PTL DEF Spec, ImplementsUniqueIds, Ids!Spec
=============================================================================
