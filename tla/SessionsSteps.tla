---------------------------- MODULE SessionsSteps -----------------------------
(***************************************************************************)
(* Lemmas about Sessions: every call, as a list of steps, leads from rest  *)
(* to rest; and what each action changes and what it leaves alone, with    *)
(* the types of what it changes.                                           *)
(***************************************************************************)
EXTENDS SessionsInv, TLAPS, SequenceTheorems, FiniteSetTheorems

-----------------------------------------------------------------------------
(* Steps and paths                                                         *)

\* The steps of each kind, with their arguments.
LEMMA StepsHave ==
  /\ \A k \in BareKinds : <<k>> \in Steps
  /\ \A k \in ObjKinds, o \in Obj : <<k, o>> \in Steps
  /\ \A o \in Obj \cup {None} : <<"alloc", o>> \in Steps
  /\ \A n \in Name : <<"get", n>> \in Steps /\ <<"del", n>> \in Steps
  /\ \A n \in Name, o \in Obj : <<"put", n, o>> \in Steps
  /\ \A k \in LockId, m \in Modes :
       <<"lock", k, m>> \in Steps /\ <<"try", k, m>> \in Steps /\ <<"unlock", k, m>> \in Steps
  BY DEF Steps

LEMMA StepArguments ==
  ASSUME NEW st \in Steps
  PROVE  /\ st[1] \in BareKinds => st = <<st[1]>>
         /\ st[1] \in ObjKinds => st[2] \in Obj /\ st = <<st[1], st[2]>>
         /\ st[1] = "alloc" => st[2] \in Obj \cup {None}
         /\ st[1] \in {"get", "del"} => st[2] \in Name /\ st = <<st[1], st[2]>>
         /\ st[1] = "put" => st[2] \in Name /\ st[3] \in Obj /\ st = <<st[1], st[2], st[3]>>
         /\ st[1] \in {"lock", "try", "unlock"} => st[2] \in LockId /\ st[3] \in Modes
  BY DEF Steps, BareKinds, ObjKinds

LEMMA OneStep ==
  ASSUME NEW S, NEW st \in S
  PROVE  <<st>> \in Seq(S) /\ Len(<<st>>) = 1 /\ <<st>>[1] = st
  OBVIOUS

LEMMA MarkFields ==
  ASSUME NEW m \in Mark
  PROVE  /\ m = [depth |-> m.depth, held |-> m.held, begun |-> m.begun, owed |-> m.owed,
                 lost |-> m.lost, armed |-> m.armed, none |-> m.none]
         /\ m.depth \in Nat /\ m.held \in BOOLEAN /\ m.begun \in BOOLEAN /\ m.owed \in BOOLEAN
         /\ m.lost \in BOOLEAN /\ m.armed \in SUBSET Obj /\ m.none \in SUBSET Obj
         /\ m.held \/ m.owed \/ m.lost \/ m.armed # {} => m.depth >= 1
  BY DEF Mark

LEMMA TupleConcat ==
  ASSUME NEW x \in Steps, NEW y \in Steps, NEW z \in Steps
  PROVE  /\ <<x, y>> \in Seq(Steps) /\ <<x, y, z>> \in Seq(Steps)
         /\ <<x>> \o <<y>> = <<x, y>> /\ <<x>> \o <<y>> \o <<z>> = <<x, y, z>>
         /\ <<x>> \o (<<y>> \o <<z>>) = <<x, y, z>>
  <1>1. <<x>> \in Seq(Steps) /\ <<y>> \in Seq(Steps) /\ <<z>> \in Seq(Steps) /\ <<y, z>> \in Seq(Steps)
        /\ <<x, y>> \in Seq(Steps) /\ <<x, y, z>> \in Seq(Steps)
    OBVIOUS
  <1>2. <<x>> \o <<y>> = <<x, y>>
    <2>1. <<x>> \o <<y>> \in Seq(Steps) /\ Len(<<x>> \o <<y>>) = 2
          /\ (<<x>> \o <<y>>)[1] = x /\ (<<x>> \o <<y>>)[2] = y
      BY <1>1, ConcatProperties
    <2>2. \A i \in 1 .. 2 : (<<x>> \o <<y>>)[i] = <<x, y>>[i]
      BY <2>1
    <2>3. Len(<<x, y>>) = 2
      OBVIOUS
    <2> QED BY <1>1, <2>1, <2>2, <2>3, SeqEqual
  <1>3. <<x, y>> \o <<z>> = <<x, y, z>>
    <2>1. <<x, y>> \o <<z>> \in Seq(Steps) /\ Len(<<x, y>> \o <<z>>) = 3
          /\ (<<x, y>> \o <<z>>)[1] = x /\ (<<x, y>> \o <<z>>)[2] = y /\ (<<x, y>> \o <<z>>)[3] = z
      BY <1>1, ConcatProperties
    <2>2. \A i \in 1 .. 3 : (<<x, y>> \o <<z>>)[i] = <<x, y, z>>[i]
      BY <2>1
    <2>3. Len(<<x, y, z>>) = 3
      OBVIOUS
    <2> QED BY <1>1, <2>1, <2>2, <2>3, SeqEqual
  <1>5. <<x>> \o <<y>> \o <<z>> = <<x, y, z>>
    BY <1>2, <1>3, Zenon
  <1>6. <<x>> \o (<<y>> \o <<z>>) = (<<x>> \o <<y>>) \o <<z>>
    BY <1>1, ConcatAssociative
  <1> QED BY <1>1, <1>2, <1>5, <1>6, Zenon

\* Done at a mark where it is allowed, a step leads to a mark.
LEMMA AfterIsMark ==
  ASSUME NEW m \in Mark, NEW st \in Steps, Allowed(m, st)
  PROVE  After(m, st) \in Mark
  <1>1. /\ m.depth \in Nat /\ m.held \in BOOLEAN /\ m.begun \in BOOLEAN /\ m.owed \in BOOLEAN
        /\ m.lost \in BOOLEAN /\ m.armed \in SUBSET Obj /\ m.none \in SUBSET Obj
        /\ m.held \/ m.owed \/ m.lost \/ m.armed # {} => m.depth >= 1
    BY MarkFields
  <1> DEFINE n == After(m, st)
  <1>2. n.depth \in Nat
    BY <1>1 DEF After, Allowed
  <1>3. n.armed \in SUBSET Obj
    <2>1. st[1] = "trigger" => st[2] \in Obj
      BY StepArguments DEF ObjKinds
    <2> QED BY <1>1, <2>1 DEF After
  <1>4. n.held \/ n.owed \/ n.lost \/ n.armed # {} => n.depth >= 1
    BY <1>1 DEF After, Allowed, SqlSteps
  <1>5. /\ n = [depth |-> n.depth, held |-> n.held, begun |-> n.begun, owed |-> n.owed,
                lost |-> n.lost, armed |-> n.armed, none |-> n.none]
        /\ n.held \in BOOLEAN /\ n.begun \in BOOLEAN /\ n.owed \in BOOLEAN /\ n.lost \in BOOLEAN
        /\ n.none \in SUBSET Obj
    BY <1>1 DEF After
  <1> QED BY <1>2, <1>3, <1>4, <1>5 DEF Mark

LEMMA PathNil ==
  ASSUME NEW mn, NEW a \in Mark
  PROVE  Path(mn, <<>>, a, a) /\ \A b \in Mark : Path(mn, <<>>, a, b) => a = b
  <1>1. Path(mn, <<>>, a, a)
    <2> DEFINE mark == [i \in 1 .. 1 |-> a]
    <2>1. mark \in [1 .. Len(<<>>) + 1 -> Mark] /\ mark[1] = a /\ mark[Len(<<>>) + 1] = a
      OBVIOUS
    <2> HIDE DEF mark
    <2> QED BY <2>1 DEF Path
  <1>2. ASSUME NEW b \in Mark, Path(mn, <<>>, a, b) PROVE a = b
    BY <1>2 DEF Path
  <1> QED BY <1>1, <1>2

LEMMA PathOne ==
  ASSUME NEW mn, NEW a \in Mark, NEW b \in Mark, NEW st \in Steps, Fits(mn, a, st, b)
  PROVE  Path(mn, <<st>>, a, b)
  <1> DEFINE mark == [i \in 1 .. 2 |-> IF i = 1 THEN a ELSE b]
  <1>1. /\ mark \in [1 .. 2 -> Mark] /\ mark[1] = a /\ mark[2] = b
    OBVIOUS
  <1>2. Len(<<st>>) = 1 /\ <<st>>[1] = st
    OBVIOUS
  <1> HIDE DEF mark
  <1>3. \A i \in 1 .. 1 : Fits(mn, mark[i], <<st>>[i], mark[i + 1])
    BY <1>1, <1>2
  <1> QED BY <1>1, <1>2, <1>3 DEF Path

LEMMA PathConcat ==
  ASSUME NEW mn, NEW a \in Mark, NEW b \in Mark, NEW c \in Mark,
         NEW p \in Seq(Steps), NEW q \in Seq(Steps), Path(mn, p, a, b), Path(mn, q, b, c)
  PROVE  Path(mn, p \o q, a, c)
  <1>1. PICK f \in [1 .. Len(p) + 1 -> Mark] :
          /\ f[1] = a /\ f[Len(p) + 1] = b
          /\ \A i \in 1 .. Len(p) : Fits(mn, f[i], p[i], f[i + 1])
    BY DEF Path
  <1>2. PICK g \in [1 .. Len(q) + 1 -> Mark] :
          /\ g[1] = b /\ g[Len(q) + 1] = c
          /\ \A i \in 1 .. Len(q) : Fits(mn, g[i], q[i], g[i + 1])
    BY DEF Path
  <1>3. /\ p \o q \in Seq(Steps) /\ Len(p \o q) = Len(p) + Len(q) /\ Len(p) \in Nat /\ Len(q) \in Nat
        /\ \A i \in 1 .. Len(p) + Len(q) : (p \o q)[i] = IF i <= Len(p) THEN p[i] ELSE q[i - Len(p)]
    BY ConcatProperties, LenProperties
  <1> DEFINE h == [i \in 1 .. Len(p) + Len(q) + 1 |-> IF i <= Len(p) THEN f[i] ELSE g[i - Len(p)]]
  <1>4. /\ h \in [1 .. Len(p) + Len(q) + 1 -> Mark] /\ h[1] = a /\ h[Len(p) + Len(q) + 1] = c
    <2>1. \A i \in 1 .. Len(p) + Len(q) + 1 : h[i] \in Mark
      <3> TAKE i \in 1 .. Len(p) + Len(q) + 1
      <3>1. CASE i <= Len(p)
        <4>1. h[i] = f[i] /\ i \in 1 .. Len(p) + 1 BY <3>1, <1>3
        <4> QED BY <4>1, <1>1
      <3>2. CASE i > Len(p)
        <4>1. i - Len(p) \in 1 .. Len(q) + 1 BY <3>2, <1>3
        <4> QED BY <3>2, <4>1, <1>2, <1>3
      <3> QED BY <3>1, <3>2, <1>3
    <2>2. h[1] = a
      <3>1. CASE Len(p) = 0 BY <3>1, <1>1, <1>2, <1>3
      <3>2. CASE Len(p) >= 1 BY <3>2, <1>1, <1>3
      <3> QED BY <3>1, <3>2, <1>3
    <2> QED BY <2>1, <2>2, <1>2, <1>3
  <1>5. ASSUME NEW i \in 1 .. Len(p) + Len(q) PROVE Fits(mn, h[i], (p \o q)[i], h[i + 1])
    <2>1. CASE i < Len(p)
      BY <2>1, <1>1, <1>3
    <2>2. CASE i = Len(p)
      <3>1. h[i] = f[i] /\ h[i + 1] = g[1] /\ f[i + 1] = g[1]
        BY <2>2, <1>1, <1>2, <1>3
      <3> QED BY <2>2, <3>1, <1>1, <1>3
    <2>3. CASE i > Len(p)
      <3>1. i - Len(p) \in 1 .. Len(q) /\ (i + 1) - Len(p) = (i - Len(p)) + 1
        BY <2>3, <1>3
      <3>2. h[i] = g[i - Len(p)] /\ h[i + 1] = g[(i - Len(p)) + 1]
        BY <2>3, <3>1, <1>3
      <3>3. (p \o q)[i] = q[i - Len(p)]
        BY <2>3, <1>3
      <3>4. Fits(mn, g[i - Len(p)], q[i - Len(p)], g[(i - Len(p)) + 1])
        BY <3>1, <1>2
      <3> QED BY <3>2, <3>3, <3>4
    <2>4. i \in Nat /\ Len(p) \in Nat
      BY <1>3
    <2>5. i < Len(p) \/ i = Len(p) \/ i > Len(p)
      BY <2>4
    <2> QED BY <2>1, <2>2, <2>3, <2>5
  <1> HIDE DEF h
  <1> QED BY <1>3, <1>4, <1>5 DEF Path

LEMMA PathFirst ==
  ASSUME NEW mn, NEW a \in Mark, NEW c \in Mark, NEW p \in Seq(Steps), p # <<>>, Path(mn, p, a, c)
  PROVE  /\ Permitted(mn, Head(p)) /\ Allowed(a, Head(p))
         /\ After(a, Head(p)) \in Mark /\ Path(mn, Tail(p), After(a, Head(p)), c)
  <1>1. PICK f \in [1 .. Len(p) + 1 -> Mark] :
          /\ f[1] = a /\ f[Len(p) + 1] = c
          /\ \A i \in 1 .. Len(p) : Fits(mn, f[i], p[i], f[i + 1])
    BY DEF Path
  <1>2. /\ Len(p) \in Nat \ {0} /\ Len(Tail(p)) = Len(p) - 1 /\ Head(p) = p[1]
        /\ \A i \in 1 .. Len(Tail(p)) : Tail(p)[i] = p[i + 1]
    BY HeadTailProperties, EmptySeq
  <1>3. Fits(mn, a, Head(p), f[2]) /\ f[2] \in Mark
    BY <1>1, <1>2
  <1> DEFINE g == [i \in 1 .. Len(p) |-> f[i + 1]]
  <1>4. /\ g \in [1 .. Len(Tail(p)) + 1 -> Mark] /\ g[1] = f[2] /\ g[Len(Tail(p)) + 1] = c
    BY <1>1, <1>2
  <1>5. \A i \in 1 .. Len(Tail(p)) : Fits(mn, g[i], Tail(p)[i], g[i + 1])
    BY <1>1, <1>2
  <1> HIDE DEF g
  <1>6. Path(mn, Tail(p), f[2], c)
    BY <1>4, <1>5 DEF Path
  <1> QED BY <1>3, <1>6 DEF Fits

LEMMA PathThen ==
  ASSUME NEW mn, NEW a \in Mark, NEW c \in Mark, NEW st \in Steps, NEW q \in Seq(Steps),
         Permitted(mn, st), Allowed(a, st), Path(mn, q, After(a, st), c)
  PROVE  <<st>> \o q \in Seq(Steps) /\ Path(mn, <<st>> \o q, a, c)
  <1>1. After(a, st) \in Mark
    BY AfterIsMark
  <1>2. Path(mn, <<st>>, a, After(a, st))
    BY <1>1, PathOne DEF Fits
  <1>3. <<st>> \in Seq(Steps)
    OBVIOUS
  <1> QED BY <1>1, <1>2, <1>3, PathConcat, ConcatProperties

\* Steps that leave the mark as it is.
Plain(st) == st[1] \notin {"start", "end", "abandon", "enter", "leave", "begin", "commit", "rootClass",
                          "root", "convert", "trigger", "observe", "delete"}

LEMMA PlainStep ==
  ASSUME NEW mn, NEW a \in Mark, NEW st \in Steps, Permitted(mn, st), Allowed(a, st), Plain(st)
  PROVE  After(a, st) = a /\ <<st>> \in Seq(Steps) /\ Path(mn, <<st>>, a, a)
  <1>1. After(a, st) = a
    BY DEF After, Plain, Mark
  <1>2. Path(mn, <<st>>, a, a)
    BY <1>1, PathOne DEF Fits
  <1> QED BY <1>1, <1>2

\* A statement inside a scope.
Statement(st) == st[1] \in {"class", "load", "alloc", "put", "get", "del", "lock", "try", "unlock",
                            "write", "dropTrigger"}

LEMMA StatementPath ==
  ASSUME NEW mn, NEW a \in Mark, NEW st \in Steps, Permitted(mn, st), Statement(st),
         a.depth >= 1, ~a.lost, a.armed = {}
  PROVE  <<st>> \in Seq(Steps) /\ Path(mn, <<st>>, a, a)
  <1>1. Allowed(a, st) /\ Plain(st)
    BY DEF Allowed, Statement, Plain
  <1> QED BY <1>1, PlainStep

\* The mark one scope deeper.
Deeper(a) == [depth |-> a.depth + 1, held |-> a.held, begun |-> a.begun, owed |-> a.owed,
              lost |-> a.lost, armed |-> a.armed, none |-> a.none]

LEMMA DeeperIsMark ==
  ASSUME NEW a \in Mark
  PROVE  /\ Deeper(a) \in Mark /\ Deeper(a).depth >= 1 /\ Deeper(a).held = a.held
         /\ Deeper(a).lost = a.lost /\ Deeper(a).armed = a.armed
  <1>1. /\ Deeper(a).depth \in Nat /\ Deeper(a).depth >= 1 /\ Deeper(a).held = a.held
        /\ Deeper(a).lost = a.lost /\ Deeper(a).armed = a.armed
    BY MarkFields DEF Deeper
  <1> QED BY <1>1, MarkFields DEF Deeper, Mark

\* Steps that lead back to the mark they start at.
Loop(mn, p, a) == p \in Seq(Steps) /\ Path(mn, p, a, a)

LEMMA LoopConcat ==
  ASSUME NEW mn, NEW a \in Mark, NEW p, NEW q, Loop(mn, p, a), Loop(mn, q, a)
  PROVE  Loop(mn, p \o q, a)
  BY PathConcat, ConcatProperties DEF Loop

LEMMA LoopNil ==
  ASSUME NEW mn, NEW a \in Mark
  PROVE  Loop(mn, <<>>, a)
  BY PathNil DEF Loop

\* Steps between two that undo each other.
LEMMA LoopBetween ==
  ASSUME NEW mn, NEW a \in Mark, NEW b \in Mark, NEW x \in Steps, NEW y \in Steps, NEW p,
         Fits(mn, a, x, b), Fits(mn, b, y, a), Loop(mn, p, b)
  PROVE  Loop(mn, <<x>> \o p \o <<y>>, a)
  <1>1. /\ <<x>> \in Seq(Steps) /\ Path(mn, <<x>>, a, b)
        /\ <<y>> \in Seq(Steps) /\ Path(mn, <<y>>, b, a)
    BY PathOne, OneStep
  <1>2. p \in Seq(Steps) /\ Path(mn, p, b, b)
    BY DEF Loop
  <1>3. <<x>> \o p \in Seq(Steps) /\ Path(mn, <<x>> \o p, a, b)
    BY <1>1, <1>2, PathConcat, ConcatProperties
  <1>4. <<x>> \o p \o <<y>> \in Seq(Steps) /\ Path(mn, <<x>> \o p \o <<y>>, a, a)
    BY <1>1, <1>3, PathConcat, ConcatProperties
  <1> QED BY <1>4 DEF Loop

LEMMA LoopScope ==
  ASSUME NEW mn, NEW a \in Mark, NEW p, ~a.lost, a.armed = {}, Loop(mn, p, Deeper(a))
  PROVE  Loop(mn, Scope(p), a)
  <1>1. /\ <<"start">> \in Steps /\ <<"end">> \in Steps
        /\ Permitted(mn, <<"start">>) /\ Permitted(mn, <<"end">>)
    BY StepsHave DEF BareKinds, Permitted
  <1>2. Fits(mn, a, <<"start">>, Deeper(a))
    BY <1>1, MarkFields DEF Fits, Allowed, SqlSteps, After, Deeper
  <1>3. Fits(mn, Deeper(a), <<"end">>, a)
    <2>1. Allowed(Deeper(a), <<"end">>)
      BY MarkFields DEF Allowed, Deeper, SqlSteps
    <2>2. After(Deeper(a), <<"end">>) =
            [depth |-> a.depth + 1 - 1, held |-> a.held, begun |-> a.begun, owed |-> a.owed,
             lost |-> a.lost, armed |-> a.armed, none |-> a.none]
      BY MarkFields DEF After, Deeper
    <2>3. a.depth + 1 - 1 = a.depth
      BY MarkFields
    <2> QED BY <1>1, <2>1, <2>2, <2>3, MarkFields DEF Fits
  <1> QED BY <1>1, <1>2, <1>3, DeeperIsMark, LoopBetween DEF Scope

\* One statement in a scope of its own.
LEMMA LoopStatement ==
  ASSUME NEW mn, NEW a \in Mark, NEW st \in Steps, Permitted(mn, st), Statement(st),
         ~a.lost, a.armed = {}
  PROVE  /\ Loop(mn, Scope(<<st>>), a)
         /\ a.depth >= 1 => Loop(mn, <<st>>, a)
  <1>1. Loop(mn, <<st>>, Deeper(a))
    BY DeeperIsMark, StatementPath DEF Loop
  <1>2. a.depth >= 1 => Loop(mn, <<st>>, a)
    BY StatementPath DEF Loop
  <1> QED BY <1>1, <1>2, LoopScope

\* The mark inside cs.
Inside(a) == [depth |-> a.depth, held |-> TRUE, begun |-> a.begun, owed |-> a.owed,
              lost |-> a.lost, armed |-> a.armed, none |-> a.none]

LEMMA InsideIsMark ==
  ASSUME NEW a \in Mark, a.depth >= 1
  PROVE  Inside(a) \in Mark /\ Inside(a).lost = a.lost /\ Inside(a).armed = a.armed
  BY MarkFields DEF Inside, Mark

\* Steps done inside cs.
LEMMA LoopInside ==
  ASSUME NEW mn, NEW a \in Mark, NEW p, a.depth >= 1, ~a.held, ~a.lost, a.armed = {},
         Loop(mn, p, Inside(a))
  PROVE  Loop(mn, <<<<"enter">>>> \o p \o <<<<"leave">>>>, a)
  <1>1. /\ <<"enter">> \in Steps /\ <<"leave">> \in Steps
        /\ Permitted(mn, <<"enter">>) /\ Permitted(mn, <<"leave">>)
    BY StepsHave DEF BareKinds, Permitted
  <1>2. Fits(mn, a, <<"enter">>, Inside(a))
    BY <1>1, MarkFields DEF Fits, Allowed, After, Inside, SqlSteps
  <1>3. Fits(mn, Inside(a), <<"leave">>, a)
    <2>1. After(Inside(a), <<"leave">>) =
            [depth |-> a.depth, held |-> a.held, begun |-> a.begun, owed |-> a.owed,
             lost |-> a.lost, armed |-> a.armed, none |-> a.none]
      BY MarkFields DEF After, Inside
    <2> QED BY <1>1, <2>1, MarkFields DEF Fits, Allowed, Inside, SqlSteps
  <1> QED BY <1>1, <1>2, <1>3, InsideIsMark, LoopBetween

\* lookup_class is done in a scope and leaves its thread there.
LEMMA LoopLookup ==
  ASSUME NEW mn, NEW a \in Mark, a.depth >= 1, ~a.held, ~a.lost, a.armed = {}
  PROVE  Loop(mn, LookupClass, a)
  <1>1. /\ <<"class">> \in Steps /\ Permitted(mn, <<"class">>) /\ Statement(<<"class">>)
    BY StepsHave DEF BareKinds, Permitted, Statement
  <1>2. Loop(mn, Scope(<<<<"class">>>>), Inside(a))
    BY <1>1, InsideIsMark, LoopStatement
  <1> QED BY <1>2, LoopInside DEF LookupClass

\* Load, at rest or between begin and commit, and allocate.
LEMMA LoopLoad ==
  ASSUME NEW mn \in {"dictionary", "monitors"}, NEW a \in Mark, NEW o \in Obj,
         ~a.held, ~a.lost, a.armed = {}
  PROVE  Loop(mn, Load(o), a)
  <1>1. <<"load", o>> \in Steps /\ Permitted(mn, <<"load", o>>) /\ Statement(<<"load", o>>)
    BY StepsHave DEF ObjKinds, Permitted, Statement
  <1>2. Loop(mn, LookupClass, Deeper(a)) /\ Loop(mn, <<<<"load", o>>>>, Deeper(a))
    BY <1>1, DeeperIsMark, LoopLookup, LoopStatement
  <1>3. Loop(mn, LookupClass \o <<<<"load", o>>>>, Deeper(a))
    BY <1>2, DeeperIsMark, LoopConcat
  <1> QED BY <1>3, LoopScope DEF Load

LEMMA LoopAllocate ==
  ASSUME NEW mn, NEW a \in Mark, NEW o \in Obj \cup {None}, ~a.held, ~a.lost, a.armed = {}
  PROVE  Loop(mn, Allocate(o), a)
  <1>1. <<"alloc", o>> \in Steps /\ Permitted(mn, <<"alloc", o>>) /\ Statement(<<"alloc", o>>)
    BY StepsHave DEF Permitted, Statement
  <1> DEFINE b == Deeper(a)
  <1>2. b \in Mark /\ b.depth >= 1 /\ ~b.held /\ ~b.lost /\ b.armed = {}
    BY DeeperIsMark
  <1> HIDE DEF b
  <1>3. Loop(mn, <<<<"alloc", o>>>>, Inside(b))
    <2>1. Inside(b).depth >= 1
      BY <1>2 DEF Inside
    <2> QED BY <1>1, <1>2, <2>1, InsideIsMark, LoopStatement
  <1>4. Loop(mn, <<<<"enter">>>> \o <<<<"alloc", o>>>> \o <<<<"leave">>>>, b)
    BY <1>2, <1>3, LoopInside
  <1>5. <<<<"enter">>>> \o <<<<"alloc", o>>>> \o <<<<"leave">>>> = <<<<"enter">>, <<"alloc", o>>, <<"leave">>>>
    <2>1. <<"enter">> \in Steps /\ <<"leave">> \in Steps
      BY StepsHave DEF BareKinds
    <2> QED BY <1>1, <2>1, TupleConcat, Zenon
  <1> QED BY <1>4, <1>5, LoopScope DEF Allocate, b

\* lockGlobal and unlockGlobal say nothing about the mark.
LEMMA LoopGlobal ==
  ASSUME NEW mn, NEW a \in Mark, NEW p, Loop(mn, p, a)
  PROVE  Loop(mn, <<<<"lockGlobal">>>> \o p \o <<<<"unlockGlobal">>>>, a)
  <1>1. ASSUME NEW st \in {<<"lockGlobal">>, <<"unlockGlobal">>} PROVE Loop(mn, <<st>>, a)
    <2>1. st \in Steps /\ Permitted(mn, st) /\ Allowed(a, st) /\ Plain(st)
      BY StepsHave DEF BareKinds, Permitted, Allowed, Plain, SqlSteps
    <2> QED BY <2>1, PlainStep DEF Loop
  <1>2. Loop(mn, <<<<"lockGlobal">>>>, a) /\ Loop(mn, <<<<"unlockGlobal">>>>, a)
    BY <1>1
  <1> QED BY <1>2, LoopConcat

\* A transaction of its own around steps that lead back to where they start.
Begun(a) == [depth |-> a.depth, held |-> a.held, begun |-> TRUE, owed |-> a.owed,
             lost |-> a.lost, armed |-> a.armed, none |-> a.none]

LEMMA BegunIsMark ==
  ASSUME NEW a \in Mark
  PROVE  /\ Begun(a) \in Mark /\ Begun(a).depth = a.depth /\ Begun(a).held = a.held
         /\ Begun(a).lost = a.lost /\ Begun(a).armed = a.armed /\ Begun(a).owed = a.owed
  BY MarkFields DEF Begun, Mark

LEMMA LoopCommit ==
  ASSUME NEW mn, NEW a \in Mark, NEW p, AtRest(a), Loop(mn, p, Begun(a))
  PROVE  Loop(mn, <<<<"begin">>>> \o p \o <<<<"commit">>>>, a)
  <1>1. /\ <<"begin">> \in Steps /\ <<"commit">> \in Steps
        /\ Permitted(mn, <<"begin">>) /\ Permitted(mn, <<"commit">>)
    BY StepsHave DEF BareKinds, Permitted
  <1>2. Fits(mn, a, <<"begin">>, Begun(a))
    BY <1>1, MarkFields DEF Fits, Allowed, After, Begun, SqlSteps, AtRest
  <1>3. Fits(mn, Begun(a), <<"commit">>, a)
    <2>1. After(Begun(a), <<"commit">>) =
            [depth |-> a.depth, held |-> a.held, begun |-> a.begun, owed |-> a.owed,
             lost |-> a.lost, armed |-> a.armed, none |-> a.none]
      BY MarkFields DEF After, Begun, AtRest
    <2> QED BY <1>1, <2>1, MarkFields DEF Fits, Allowed, Begun, SqlSteps, AtRest
  <1> QED BY <1>1, <1>2, <1>3, BegunIsMark, LoopBetween

\* Between the class of the root and its row.
Owed(a) == [depth |-> a.depth, held |-> a.held, begun |-> a.begun, owed |-> TRUE,
            lost |-> a.lost, armed |-> a.armed, none |-> a.none]

LEMMA OwedIsMark ==
  ASSUME NEW a \in Mark, a.depth >= 1
  PROVE  /\ Owed(a) \in Mark /\ Owed(a).depth = a.depth /\ Owed(a).held = a.held
         /\ Owed(a).lost = a.lost /\ Owed(a).armed = a.armed
  BY MarkFields DEF Owed, Mark

LEMMA LoopRoot ==
  ASSUME NEW a \in Mark, NEW p, a.depth >= 1, ~a.owed, ~a.lost, a.armed = {},
         Loop("root", p, Owed(a))
  PROVE  Loop("root", <<<<"rootClass">>>> \o p \o <<<<"root">>>>, a)
  <1>1. /\ <<"rootClass">> \in Steps /\ <<"root">> \in Steps
        /\ Permitted("root", <<"rootClass">>) /\ Permitted("root", <<"root">>)
    BY StepsHave DEF BareKinds, Permitted
  <1>2. Fits("root", a, <<"rootClass">>, Owed(a))
    BY <1>1, MarkFields DEF Fits, Allowed, After, Owed, SqlSteps
  <1>3. Fits("root", Owed(a), <<"root">>, a)
    <2>1. After(Owed(a), <<"root">>) =
            [depth |-> a.depth, held |-> a.held, begun |-> a.begun, owed |-> a.owed,
             lost |-> a.lost, armed |-> a.armed, none |-> a.none]
      BY MarkFields DEF After, Owed
    <2> QED BY <1>1, <2>1, MarkFields DEF Fits, Allowed, Owed, SqlSteps
  <1> QED BY <1>1, <1>2, <1>3, OwedIsMark, LoopBetween

-----------------------------------------------------------------------------
(* Every call leads from rest to rest                                      *)

\* Where thread t may call: at rest, and with the observers its session has.
CallsFrom(t, a) ==
  /\ a \in Mark /\ AtRest(a)
  /\ menu = "notify" => a.none = {o \in Obj : session[thread[t].session].observers[o] = "none"}

Leads(code, a) == code \in Seq(Steps) /\ \E r \in Mark : AtRest(r) /\ Path(menu, code, a, r)

LEMMA LoopLeads ==
  ASSUME NEW a \in Mark, NEW p, AtRest(a), Loop(menu, p, a)
  PROVE  Leads(p, a)
  BY DEF Leads, Loop

\* A step at rest, and a step before steps that lead to rest.
LEMMA PlainLoop ==
  ASSUME NEW a \in Mark, NEW st \in Steps, Permitted(menu, st), Allowed(a, st), Plain(st)
  PROVE  Loop(menu, <<st>>, a)
  BY PlainStep DEF Loop

LEMMA LeadsThen ==
  ASSUME NEW a \in Mark, NEW st \in Steps, NEW q, Permitted(menu, st), Allowed(a, st),
         Leads(q, After(a, st))
  PROVE  Leads(<<st>> \o q, a)
  BY PathThen DEF Leads

LEMMA RollbackLeads ==
  ASSUME NEW a \in Mark, AtRest(a)
  PROVE  Leads(<<<<"rollback">>>>, a)
  <1>1. /\ <<"rollback">> \in Steps /\ Permitted(menu, <<"rollback">>) /\ Allowed(a, <<"rollback">>)
        /\ Plain(<<"rollback">>)
    BY StepsHave DEF BareKinds, Permitted, Allowed, SqlSteps, Plain
  <1> QED BY <1>1, PlainLoop, LoopLeads

LEMMA CommitLeads ==
  ASSUME NEW a \in Mark, AtRest(a), NEW o \in Obj
  PROVE  Leads(Commit(o), a)
  <1>1. <<"write", o>> \in Steps /\ Permitted(menu, <<"write", o>>) /\ Statement(<<"write", o>>)
    BY StepsHave DEF ObjKinds, Permitted, Statement
  <1> DEFINE b == Begun(a)
  <1>2. b \in Mark /\ ~b.held /\ ~b.lost /\ b.armed = {}
    BY BegunIsMark DEF AtRest
  <1> HIDE DEF b
  <1>3. Loop(menu, LookupClass, Deeper(b)) /\ Loop(menu, <<<<"write", o>>>>, Deeper(b))
    BY <1>1, <1>2, DeeperIsMark, LoopLookup, LoopStatement
  <1>4. Loop(menu, Scope(LookupClass \o <<<<"write", o>>>>), b)
    BY <1>2, <1>3, DeeperIsMark, LoopConcat, LoopScope
  <1> QED BY <1>4, LoopCommit, LoopLeads DEF Commit, b

LEMMA ConvertLeads ==
  ASSUME NEW a \in Mark, AtRest(a)
  PROVE  Leads(Convert, a)
  <1> DEFINE b == After(a, <<"start">>)
             c == After(b, <<"convert">>)
             d == After(c, <<"abandon">>)
  <1>1. /\ <<"start">> \in Steps /\ <<"convert">> \in Steps /\ <<"abandon">> \in Steps
        /\ Permitted(menu, <<"start">>) /\ Permitted(menu, <<"convert">>) /\ Permitted(menu, <<"abandon">>)
    BY StepsHave DEF BareKinds, Permitted
  <1>2. Allowed(a, <<"start">>) /\ b \in Mark
    <2>1. Allowed(a, <<"start">>)
      BY DEF Allowed, AtRest, SqlSteps
    <2> QED BY <2>1, <1>1, AfterIsMark
  <1>3. b.depth = 1 /\ ~b.held /\ ~b.owed /\ ~b.lost /\ b.armed = {} /\ ~b.begun
    BY MarkFields DEF After, AtRest
  <1> HIDE DEF b
  <1>4. Allowed(b, <<"convert">>) /\ c \in Mark
    <2>1. Allowed(b, <<"convert">>)
      BY <1>3 DEF Allowed, SqlSteps
    <2> QED BY <2>1, <1>1, <1>2, AfterIsMark
  <1>5. c.depth = 1 /\ ~c.held /\ ~c.owed /\ c.lost /\ c.armed = {} /\ ~c.begun
    BY <1>2, <1>3, MarkFields DEF After
  <1> HIDE DEF c
  <1>6. Allowed(c, <<"abandon">>) /\ d \in Mark
    <2>1. Allowed(c, <<"abandon">>)
      BY <1>5 DEF Allowed, SqlSteps
    <2> QED BY <2>1, <1>1, <1>4, AfterIsMark
  <1>7. AtRest(d)
    BY <1>4, <1>5, MarkFields DEF After, AtRest
  <1> HIDE DEF d
  <1>8. Leads(<<<<"abandon">>>>, c)
    <2>1. Path(menu, <<<<"abandon">>>>, c, d)
      BY <1>1, <1>4, <1>6, PathOne DEF Fits, d
    <2>2. <<<<"abandon">>>> \in Seq(Steps)
      BY <1>1
    <2> QED BY <1>6, <1>7, <2>1, <2>2 DEF Leads
  <1>9. Leads(<<<<"convert">>>> \o <<<<"abandon">>>>, b)
    BY <1>1, <1>2, <1>4, <1>8, LeadsThen DEF c
  <1>10. Leads(<<<<"start">>>> \o (<<<<"convert">>>> \o <<<<"abandon">>>>), a)
    BY <1>1, <1>2, <1>9, LeadsThen DEF b
  <1>11. <<<<"start">>>> \o (<<<<"convert">>>> \o <<<<"abandon">>>>) = Convert
    BY <1>1, TupleConcat, Zenon DEF Convert
  <1> QED BY <1>10, <1>11

LEMMA CommitRootLeads ==
  ASSUME NEW a \in Mark, AtRest(a), menu = "root"
  PROVE  Leads(CommitRoot, a)
  <1> DEFINE b == Begun(a)
             c == Deeper(b)
  <1>1. b \in Mark /\ ~b.held /\ ~b.lost /\ b.armed = {} /\ ~b.owed
    BY BegunIsMark DEF AtRest
  <1>2. c \in Mark /\ c.depth >= 1 /\ ~c.held /\ ~c.lost /\ c.armed = {}
    BY <1>1, DeeperIsMark
  <1>3. ~c.owed
    BY <1>1 DEF Deeper
  <1> HIDE DEF b, c
  <1>4. Loop("root", LookupClass, Owed(c))
    BY <1>2, OwedIsMark, LoopLookup
  <1>5. Loop("root", <<<<"rootClass">>>> \o LookupClass \o <<<<"root">>>>, c)
    BY <1>2, <1>3, <1>4, LoopRoot
  <1>6. Loop("root", Scope(<<<<"rootClass">>>> \o LookupClass \o <<<<"root">>>>), b)
    BY <1>1, <1>5, LoopScope DEF c
  <1> QED BY <1>6, LoopCommit, LoopLeads DEF CommitRoot, b

LEMMA PutLeads ==
  ASSUME NEW a \in Mark, AtRest(a), NEW t \in Thread, NEW n \in Name, NEW o \in Obj
  PROVE  Leads(Put(t, n, o), a)
  <1>1. ~a.held /\ ~a.lost /\ a.armed = {}
    BY DEF AtRest
  <1>2. <<"put", n, o>> \in Steps /\ Permitted(menu, <<"put", n, o>>) /\ Statement(<<"put", n, o>>)
    BY StepsHave DEF Permitted, Statement
  <1>3. Loop(menu, Scope(<<<<"put", n, o>>>>), a)
    BY <1>1, <1>2, LoopStatement
  <1>4. Loop(menu, <<<<"lockGlobal">>>> \o Allocate(o) \o <<<<"unlockGlobal">>>>, a)
    BY <1>1, LoopAllocate, LoopGlobal
  <1>5. Loop(menu, <<>>, a)
    BY LoopNil
  <1>6. Loop(menu, Put(t, n, o), a)
    BY <1>3, <1>4, <1>5, LoopConcat DEF Put
  <1> QED BY <1>6, LoopLeads

LEMMA NewDictionaryLeads ==
  ASSUME NEW a \in Mark, AtRest(a)
  PROVE  Leads(NewDictionary, a)
  <1>1. ~a.held /\ ~a.lost /\ a.armed = {}
    BY DEF AtRest
  <1>2. Loop(menu, Allocate(None), Deeper(a))
    BY <1>1, DeeperIsMark, LoopAllocate
  <1> QED BY <1>1, <1>2, LoopScope, LoopGlobal, LoopLeads DEF NewDictionary

LEMMA StatementLeads ==
  ASSUME NEW a \in Mark, AtRest(a), NEW st \in Steps, Permitted(menu, st), Statement(st)
  PROVE  Leads(Scope(<<st>>), a)
  BY LoopStatement, LoopLeads DEF AtRest

LEMMA PathStep ==
  ASSUME NEW mn, NEW a \in Mark, NEW st \in Steps, Permitted(mn, st), Allowed(a, st)
  PROVE  <<st>> \in Seq(Steps) /\ After(a, st) \in Mark /\ Path(mn, <<st>>, a, After(a, st))
  BY AfterIsMark, PathOne, OneStep DEF Fits

LEMMA ListenLeads ==
  ASSUME NEW a \in Mark, AtRest(a), menu = "notify", NEW s \in Session, NEW o \in Obj,
         a.none = {x \in Obj : session[s].observers[x] = "none"}
  PROVE  Leads(Listen(s, o), a)
  <1> DEFINE T == <<"trigger", o>>
             O == <<"observe", o>>
             L == <<"listening", o>>
             b == After(a, <<"start">>)
             c == After(b, T)
             d == After(c, O)
             e == After(d, <<"end">>)
  <1>1. /\ <<"start">> \in Steps /\ <<"end">> \in Steps /\ T \in Steps /\ O \in Steps /\ L \in Steps
        /\ Permitted(menu, <<"start">>) /\ Permitted(menu, <<"end">>)
        /\ Permitted(menu, T) /\ Permitted(menu, O) /\ Permitted(menu, L)
    BY StepsHave DEF BareKinds, ObjKinds, Permitted
  <1>2. CASE session[s].observers[o] = "none"
    <2>1. Allowed(a, <<"start">>) /\ o \in a.none
      BY <1>2 DEF Allowed, AtRest, SqlSteps
    <2>2. b \in Mark /\ Path(menu, <<<<"start">>>>, a, b)
      BY <1>1, <2>1, PathStep
    <2>3. /\ b.depth = 1 /\ ~b.held /\ ~b.begun /\ ~b.owed /\ ~b.lost /\ b.armed = {} /\ o \in b.none
      BY <2>1, MarkFields DEF After, AtRest
    <2> HIDE DEF b
    <2>4. Allowed(b, T)
      BY <2>3 DEF Allowed, SqlSteps
    <2>5. c \in Mark /\ Path(menu, <<T>>, b, c)
      BY <1>1, <2>2, <2>4, PathStep
    <2>6. /\ c.depth = 1 /\ ~c.held /\ ~c.begun /\ ~c.owed /\ ~c.lost /\ c.armed = {o} /\ o \in c.none
      BY <2>2, <2>3, MarkFields DEF After
    <2> HIDE DEF c
    <2>7. Allowed(c, O)
      BY <2>6 DEF Allowed, SqlSteps
    <2>8. d \in Mark /\ Path(menu, <<O>>, c, d)
      BY <1>1, <2>5, <2>7, PathStep
    <2>9. /\ d.depth = 1 /\ ~d.held /\ ~d.begun /\ ~d.owed /\ ~d.lost /\ d.armed = {o} /\ o \notin d.none
      BY <2>5, <2>6, MarkFields DEF After
    <2> HIDE DEF d
    <2>10. Allowed(d, <<"end">>)
      BY <2>9 DEF Allowed, SqlSteps
    <2>11. e \in Mark /\ Path(menu, <<<<"end">>>>, d, e)
      BY <1>1, <2>8, <2>10, PathStep
    <2>12. AtRest(e) /\ o \notin e.none
      BY <2>8, <2>9, MarkFields DEF After, AtRest
    <2> HIDE DEF e
    <2>13. Loop(menu, <<L>>, e)
      <3>1. Allowed(e, L) /\ Plain(L)
        BY <2>12 DEF Allowed, AtRest, Plain, SqlSteps
      <3> QED BY <1>1, <2>11, <3>1, PlainLoop
    <2>14. /\ <<T>> \in Seq(Steps) /\ <<O>> \in Seq(Steps) /\ <<T>> \o <<O>> = <<T, O>>
           /\ <<<<"start">>>> \in Seq(Steps) /\ <<<<"end">>>> \in Seq(Steps)
      BY <1>1, TupleConcat, OneStep
    <2> HIDE DEF T, O, L
    <2>15. <<T, O>> \in Seq(Steps) /\ Path(menu, <<T, O>>, b, d)
      <3>1. <<T>> \o <<O>> \in Seq(Steps) /\ Path(menu, <<T>> \o <<O>>, b, d)
        BY <2>2, <2>5, <2>8, <2>14, PathConcat, ConcatProperties
      <3> QED BY <2>14, <3>1, Zenon
    <2>16. <<<<"start">>>> \o <<T, O>> \in Seq(Steps) /\ Path(menu, <<<<"start">>>> \o <<T, O>>, a, d)
      BY <2>2, <2>8, <2>14, <2>15, PathConcat, ConcatProperties
    <2>17. Scope(<<T, O>>) \in Seq(Steps) /\ Path(menu, Scope(<<T, O>>), a, e)
      BY <2>8, <2>11, <2>14, <2>16, PathConcat, ConcatProperties DEF Scope
    <2>18. Scope(<<T, O>>) \o <<L>> \in Seq(Steps) /\ Path(menu, Scope(<<T, O>>) \o <<L>>, a, e)
      BY <2>11, <2>13, <2>17, PathConcat, ConcatProperties DEF Loop
    <2>19. Listen(s, o) = Scope(<<T, O>>) \o <<L>>
      BY <1>2 DEF Listen, T, O, L
    <2> QED BY <2>11, <2>12, <2>18, <2>19 DEF Leads
  <1>3. CASE session[s].observers[o] # "none"
    <2>1. Allowed(a, L) /\ Plain(L)
      BY <1>3 DEF Allowed, AtRest, Plain, SqlSteps
    <2>2. Listen(s, o) = <<L>>
      BY <1>3 DEF Listen
    <2> QED BY <1>1, <2>1, <2>2, PlainLoop, LoopLeads
  <1> QED BY <1>2, <1>3

LEMMA UnlistenLeads ==
  ASSUME NEW a \in Mark, AtRest(a), menu = "notify", NEW s \in Session, NEW o \in Obj
  PROVE  Leads(Unlisten(s, o), a)
  <1> DEFINE Q == <<"quiet", o>>
             D == <<"delete", o>>
             T == <<"dropTrigger">>
             E == <<"erase", o>>
             b == After(a, <<"start">>)
             c == After(b, D)
             e == After(c, <<"end">>)
  <1>1. /\ <<"start">> \in Steps /\ <<"end">> \in Steps
        /\ Q \in Steps /\ D \in Steps /\ T \in Steps /\ E \in Steps
        /\ Permitted(menu, <<"start">>) /\ Permitted(menu, <<"end">>)
        /\ Permitted(menu, Q) /\ Permitted(menu, D) /\ Permitted(menu, T) /\ Permitted(menu, E)
    BY StepsHave DEF BareKinds, ObjKinds, Permitted
  <1>2. Loop(menu, <<Q>>, a)
    <2>1. Allowed(a, Q) /\ Plain(Q)
      BY DEF Allowed, AtRest, Plain, SqlSteps
    <2> QED BY <1>1, <2>1, PlainLoop
  <1>3. Leads(Scope(<<D, T, E>>), a)
    <2>1. Allowed(a, <<"start">>)
      BY DEF Allowed, AtRest, SqlSteps
    <2>2. b \in Mark /\ Path(menu, <<<<"start">>>>, a, b)
      BY <1>1, <2>1, PathStep
    <2>3. b.depth = 1 /\ ~b.held /\ ~b.begun /\ ~b.owed /\ ~b.lost /\ b.armed = {}
      BY MarkFields DEF After, AtRest
    <2> HIDE DEF b
    <2>4. Allowed(b, D)
      BY <2>3 DEF Allowed, SqlSteps
    <2>5. c \in Mark /\ Path(menu, <<D>>, b, c)
      BY <1>1, <2>2, <2>4, PathStep
    <2>6. c.depth = 1 /\ ~c.held /\ ~c.begun /\ ~c.owed /\ ~c.lost /\ c.armed = {}
      BY <2>2, <2>3, MarkFields DEF After
    <2> HIDE DEF c
    <2>7. Path(menu, <<T>>, c, c) /\ Path(menu, <<E>>, c, c)
      <3>1. Allowed(c, T) /\ Plain(T) /\ Allowed(c, E) /\ Plain(E)
        BY <2>6 DEF Allowed, Plain, SqlSteps
      <3> QED BY <1>1, <2>5, <3>1, PlainStep
    <2>8. Allowed(c, <<"end">>)
      BY <2>6 DEF Allowed, SqlSteps
    <2>9. e \in Mark /\ Path(menu, <<<<"end">>>>, c, e)
      BY <1>1, <2>5, <2>8, PathStep
    <2>10. AtRest(e)
      BY <2>5, <2>6, MarkFields DEF After, AtRest
    <2> HIDE DEF e, D, T, E
    <2>11. /\ <<D>> \in Seq(Steps) /\ <<T>> \in Seq(Steps) /\ <<E>> \in Seq(Steps)
           /\ <<<<"start">>>> \in Seq(Steps) /\ <<<<"end">>>> \in Seq(Steps)
           /\ <<D>> \o <<T>> \o <<E>> = <<D, T, E>>
      BY <1>1, TupleConcat, OneStep
    <2>12. <<D>> \o <<T>> \in Seq(Steps) /\ Path(menu, <<D>> \o <<T>>, b, c)
      BY <2>2, <2>5, <2>7, <2>11, PathConcat, ConcatProperties
    <2>13. <<D>> \o <<T>> \o <<E>> \in Seq(Steps) /\ Path(menu, <<D>> \o <<T>> \o <<E>>, b, c)
      BY <2>2, <2>5, <2>7, <2>11, <2>12, PathConcat, ConcatProperties
    <2>14. <<D, T, E>> \in Seq(Steps) /\ Path(menu, <<D, T, E>>, b, c)
      BY <2>11, <2>13, Zenon
    <2>15. <<<<"start">>>> \o <<D, T, E>> \in Seq(Steps) /\ Path(menu, <<<<"start">>>> \o <<D, T, E>>, a, c)
      BY <2>2, <2>5, <2>11, <2>14, PathConcat, ConcatProperties
    <2>16. Scope(<<D, T, E>>) \in Seq(Steps) /\ Path(menu, Scope(<<D, T, E>>), a, e)
      BY <2>5, <2>9, <2>11, <2>15, PathConcat, ConcatProperties DEF Scope
    <2> QED BY <2>9, <2>10, <2>16 DEF Leads
  <1>4. Leads(<<>>, a)
    BY LoopNil, LoopLeads
  <1>5. ASSUME NEW p, Leads(p, a) PROVE Leads(<<Q>> \o p, a)
    <2>1. PICK r \in Mark : AtRest(r) /\ p \in Seq(Steps) /\ Path(menu, p, a, r)
      BY <1>5 DEF Leads
    <2> QED BY <1>2, <2>1, PathConcat, ConcatProperties DEF Leads, Loop
  <1>6. Unlisten(s, o) = <<Q>> \o (IF session[s].observers[o] = "none" THEN <<>> ELSE Scope(<<D, T, E>>))
    BY DEF Unlisten
  <1> QED BY <1>3, <1>4, <1>5, <1>6

\* Whatever a thread may call leads from rest to rest.
LEMMA CallLeads ==
  ASSUME TypeOK, NEW t \in Thread, NEW a, CallsFrom(t, a), NEW code \in Calls(t)
  PROVE  Leads(code, a)
  <1>1. a \in Mark /\ AtRest(a)
    BY DEF CallsFrom
  <1>2. CASE menu = "locks"
    <2>1. PICK k \in LockId, m \in Modes :
            \/ code = SessionLock(k, m) \/ code = SessionTry(k, m) \/ code = SessionUnlock(k, m)
      <3>1. code \in LockCalls
        BY <1>2, Zenon DEF Calls
      <3> QED BY <3>1 DEF LockCalls
    <2>2. ASSUME NEW st \in {<<"lock", k, m>>, <<"try", k, m>>, <<"unlock", k, m>>}
          PROVE  Leads(Scope(<<st>>), a)
      <3>1. \E what \in {"lock", "try", "unlock"} : st = <<what, k, m>>
        OBVIOUS
      <3>2. st \in Steps
        BY StepsHave
      <3>3. Permitted(menu, st) /\ Statement(st)
        BY <1>2, <3>1 DEF Permitted, Statement
      <3> QED BY <1>1, <3>2, <3>3, StatementLeads
    <2> QED BY <2>1, <2>2 DEF SessionLock, SessionTry, SessionUnlock
  <1>3. CASE menu \in {"dictionary", "monitors"}
    <2>1. \/ \E n \in Name, o \in Obj : code = Put(t, n, o)
          \/ \E n \in Name : code = Get(n) \/ code = Del(n)
          \/ code = Convert \/ code = <<<<"rollback">>>> \/ code = NewDictionary
          \/ \E o \in Obj : code = Commit(o)
      <3>1. code \in DictionaryCalls(t)
        BY <1>3 DEF Calls
      <3>2. thread[t].fresh \subseteq Obj
        BY DEF TypeOK, ThreadState
      <3> QED BY <3>1, <3>2 DEF DictionaryCalls
    <2>2. ASSUME NEW n \in Name, code = Get(n) \/ code = Del(n) PROVE Leads(code, a)
      <3>1. \A kind \in {"get", "del"} :
              <<kind, n>> \in Steps /\ Permitted(menu, <<kind, n>>) /\ Statement(<<kind, n>>)
        BY <1>3, StepsHave DEF Permitted, Statement
      <3>2. \A kind \in {"get", "del"} : Leads(Scope(<<<<kind, n>>>>), a)
        BY <1>1, <3>1, StatementLeads
      <3> QED BY <2>2, <3>2 DEF Get, Del
    <2>3. Leads(<<<<"rollback">>>>, a)
      BY <1>1, RollbackLeads
    <2> QED BY <1>1, <2>1, <2>2, <2>3, PutLeads, ConvertLeads, NewDictionaryLeads, CommitLeads
  <1>4. CASE menu = "root"
    <2>1. code = CommitRoot \/ code = Convert \/ code = <<<<"rollback">>>>
      BY <1>4 DEF Calls, RootCalls
    <2> QED BY <1>1, <1>4, <2>1, CommitRootLeads, ConvertLeads, RollbackLeads
  <1>5. CASE menu = "notify"
    <2>1. /\ thread[t].session \in Session
          /\ \/ \E o \in Obj : \/ code = Listen(thread[t].session, o)
                               \/ code = Unlisten(thread[t].session, o)
                               \/ code = Commit(o) \/ code = <<<<"wait", o>>>>
             \/ code = <<<<"poll">>>>
      <3>1. thread[t].session \in Session \cup {None} /\ thread[t].listening \subseteq Obj /\ Stored \subseteq Obj
        BY SessionAssumption DEF TypeOK, ThreadState
      <3>2. code \in NotifyCalls(t)
        BY <1>5 DEF Calls
      <3>3. /\ thread[t].session # None
            /\ \/ \E o \in Stored : code = Listen(thread[t].session, o) \/ code = Commit(o)
               \/ code = <<<<"poll">>>>
               \/ \E o \in thread[t].listening : code = <<<<"wait", o>>>>
               \/ \E o \in Stored : code = Unlisten(thread[t].session, o)
        BY <3>2 DEF NotifyCalls
      <3> QED BY <3>1, <3>3
    <2>2. a.none = {o \in Obj : session[thread[t].session].observers[o] = "none"}
      BY <1>5 DEF CallsFrom
    <2>3. ASSUME NEW st \in {<<"poll">>} \cup {<<"wait", o>> : o \in Obj} PROVE Leads(<<st>>, a)
      <3>1. st \in Steps /\ Permitted(menu, st) /\ Allowed(a, st) /\ Plain(st)
        BY <1>1, <1>5, StepsHave DEF BareKinds, ObjKinds, Permitted, Allowed, AtRest, Plain, SqlSteps
      <3> QED BY <1>1, <3>1, PlainLoop, LoopLeads
    <2> QED BY <1>1, <1>5, <2>1, <2>2, <2>3, ListenLeads, UnlistenLeads, CommitLeads
  <1> QED BY <1>2, <1>3, <1>4, <1>5 DEF TypeOK, Menus


-----------------------------------------------------------------------------
(* Types                                                                   *)

\* Leaving the innermost scope.
LEMMA FrontProperties ==
  ASSUME NEW S, NEW q \in Seq(S), q # <<>>
  PROVE  /\ Front(q) \in Seq(S) /\ Len(Front(q)) = Len(q) - 1 /\ Len(q) \in Nat \ {0}
         /\ \A i \in 1 .. Len(q) - 1 : Front(q)[i] = q[i]
         /\ Last(q) = q[Len(q)] /\ Last(q) \in S
  <1>1. Len(q) \in Nat \ {0} /\ \A i \in 1 .. Len(q) : q[i] \in S
    BY EmptySeq, ElementOfSeq
  <1>2. /\ Front(q) \in Seq(S) /\ Len(Front(q)) = Len(q) - 1
        /\ \A i \in 1 .. Len(q) - 1 : Front(q)[i] = q[i]
    BY <1>1, SubSeqProperties DEF Front
  <1> QED BY <1>1, <1>2 DEF Last

LEMMA ApplyType ==
  ASSUME NEW d \in Database, NEW pend \in Seq(Steps)
  PROVE  /\ Apply(d, pend) \in Database
         /\ Apply(d, pend).rows = d.rows \cup {o \in Obj : Contains(pend, <<"write", o>>)}
         /\ Apply(d, pend).rootClass
              = d.rootClass + Cardinality({i \in DOMAIN pend : pend[i] = <<"rootClass">>})
         /\ Apply(d, pend).root = (d.root \/ Contains(pend, <<"root">>))
         /\ Apply(d, pend).triggers = d.triggers \cup {o \in Obj : Contains(pend, <<"trigger", o>>)}
         /\ Apply(d, pend).converted = (d.converted \/ Contains(pend, <<"convert">>))
  <1> DEFINE e == [n \in Name |-> IF \E o \in Obj \cup {None} : LastSets(pend, n, o)
                                 THEN CHOOSE o \in Obj \cup {None} : LastSets(pend, n, o)
                                 ELSE d.entry[n]]
             rc == Cardinality({i \in DOMAIN pend : pend[i] = <<"rootClass">>})
  <1>1. e \in [Name -> Obj \cup {None}]
    BY DEF Database
  <1>2. rc \in Nat
    <2>1. DOMAIN pend = 1 .. Len(pend) /\ Len(pend) \in Nat
      BY LenProperties
    <2>2. IsFiniteSet(DOMAIN pend)
      BY <2>1, FS_Interval
    <2> QED BY <2>2, FS_Subset, FS_CardinalityType
  <1> HIDE DEF e, rc
  <1>3. Apply(d, pend) =
          [entry |-> e, rows |-> d.rows \cup {o \in Obj : Contains(pend, <<"write", o>>)},
           rootClass |-> d.rootClass + rc, root |-> d.root \/ Contains(pend, <<"root">>),
           triggers |-> d.triggers \cup {o \in Obj : Contains(pend, <<"trigger", o>>)},
           converted |-> d.converted \/ Contains(pend, <<"convert">>)]
    BY Zenon DEF Apply, e, rc
  <1>4. /\ d.rows \cup {o \in Obj : Contains(pend, <<"write", o>>)} \in SUBSET Obj
        /\ d.triggers \cup {o \in Obj : Contains(pend, <<"trigger", o>>)} \in SUBSET Obj
        /\ d.rootClass + rc \in Nat
        /\ (d.root \/ Contains(pend, <<"root">>)) \in BOOLEAN
        /\ (d.converted \/ Contains(pend, <<"convert">>)) \in BOOLEAN
    BY <1>2 DEF Database
  <1>5. Apply(d, pend) \in Database
    BY <1>1, <1>3, <1>4 DEF Database
  <1> QED BY <1>3, <1>5 DEF rc

LEMMA VisibleType ==
  ASSUME TypeOK, NEW s \in Session
  PROVE  Visible(s) \in Database
  BY ApplyType DEF Visible, TypeOK, SessionState

\* The step at hand.
LEMMA FirstStep ==
  ASSUME TypeOK, NEW t \in Thread, NEW k, First(t, k)
  PROVE  /\ thread[t].code \in Seq(Steps) /\ thread[t].code # <<>>
         /\ Head(thread[t].code) \in Steps /\ Head(thread[t].code)[1] = k
         /\ Rest(t) \in Seq(Steps) /\ Rest(t) = Tail(thread[t].code)
         /\ ClientOf[t] \in Client /\ ~client[ClientOf[t]].dead
  BY HeadTailProperties, SessionAssumption DEF TypeOK, ThreadState, First, Rest

LEMMA TypeInit == Init => TypeOK
  <1> SUFFICES ASSUME Init PROVE TypeOK
    OBVIOUS
  <1>1. NoLocks \in [LockId -> [Modes -> Nat]]
    BY DEF NoLocks
  <1>2. NewConnection \in SessionState
    BY <1>1 DEF NewConnection, SessionState
  <1> QED BY <1>1, <1>2, SessionAssumption DEF Init, TypeOK, ThreadState, ClientState, Database

\* A thread with its session and its client.
LEMMA StateTypes ==
  ASSUME TypeOK, NEW t \in Thread
  PROVE  /\ thread[t] \in ThreadState /\ ClientOf[t] \in Client /\ client[ClientOf[t]] \in ClientState
         /\ thread[t].session \in Session \cup {None}
         /\ thread[t].session # None => session[thread[t].session] \in SessionState
  <1>1. thread[t] \in ThreadState
    BY DEF TypeOK
  <1>2. thread[t].session \in Session \cup {None}
    BY <1>1 DEF ThreadState
  <1> QED BY <1>1, <1>2, SessionAssumption DEF TypeOK

\* What the steps of t leave alone, but for those of locks and notifications, a
\* commit, and the end of the client.
KeepsThreads(t) ==
  \A u \in Thread :
    /\ thread'[u].session = thread[u].session /\ thread'[u].mine = thread[u].mine
    /\ thread'[u].listening = thread[u].listening /\ thread'[u].due = thread[u].due
    /\ u # t => thread'[u].code = thread[u].code /\ thread'[u].tops = thread[u].tops

KeepsSessions(t) ==
  \A s \in Session :
    /\ session'[s].locks = session[s].locks /\ session'[s].observers = session[s].observers
    /\ session'[s].inbox = session[s].inbox
    /\ s # thread[t].session => /\ session'[s].txn = session[s].txn
                                /\ session'[s].pend = session[s].pend

KeepsClients(t) ==
  \A c \in Client :
    /\ client'[c].pool = client[c].pool /\ client'[c].dead = client[c].dead
    /\ client'[c].cs # client[c].cs =>
         c = ClientOf[t] /\ client[c].cs \in {None, t} /\ client'[c].cs \in {None, t}

Quiet(t) == /\ KeepsThreads(t) /\ KeepsSessions(t) /\ KeepsClients(t)
            /\ db' = db /\ menu' = menu

\* One thread, session or client is replaced.
LEMMA Replaced ==
  ASSUME TypeOK
  PROVE  /\ \A t \in Thread, r \in ThreadState :
              /\ [thread EXCEPT ![t] = r] \in [Thread -> ThreadState]
              /\ [thread EXCEPT ![t] = r][t] = r
              /\ \A u \in Thread \ {t} : [thread EXCEPT ![t] = r][u] = thread[u]
         /\ \A s \in Session, r \in SessionState :
              /\ [session EXCEPT ![s] = r] \in [Session -> SessionState]
              /\ [session EXCEPT ![s] = r][s] = r
              /\ \A q \in Session \ {s} : [session EXCEPT ![s] = r][q] = session[q]
         /\ \A c \in Client, r \in ClientState :
              /\ [client EXCEPT ![c] = r] \in [Client -> ClientState]
              /\ [client EXCEPT ![c] = r][c] = r
              /\ \A d \in Client \ {c} : [client EXCEPT ![c] = r][d] = client[d]
  BY DEF TypeOK

LEMMA ThreadKept ==
  ASSUME TypeOK, NEW t \in Thread, NEW r \in ThreadState, thread' = [thread EXCEPT ![t] = r],
         r.session = thread[t].session, r.mine = thread[t].mine,
         r.listening = thread[t].listening, r.due = thread[t].due
  PROVE  thread' \in [Thread -> ThreadState] /\ KeepsThreads(t) /\ thread'[t] = r
  <1>1. /\ thread' \in [Thread -> ThreadState] /\ thread'[t] = r
        /\ \A u \in Thread \ {t} : thread'[u] = thread[u]
    BY Replaced
  <1> QED BY <1>1 DEF KeepsThreads

LEMMA SessionKept ==
  ASSUME TypeOK, NEW t \in Thread, NEW r \in SessionState, thread[t].session \in Session,
         session' = [session EXCEPT ![thread[t].session] = r],
         r.locks = session[thread[t].session].locks,
         r.observers = session[thread[t].session].observers,
         r.inbox = session[thread[t].session].inbox
  PROVE  session' \in [Session -> SessionState] /\ KeepsSessions(t) /\ session'[thread[t].session] = r
  <1>1. /\ session' \in [Session -> SessionState] /\ session'[thread[t].session] = r
        /\ \A q \in Session \ {thread[t].session} : session'[q] = session[q]
    BY Replaced
  <1> QED BY <1>1 DEF KeepsSessions

LEMMA ClientKept ==
  ASSUME TypeOK, NEW t \in Thread, NEW r \in ClientState, NEW c \in Client, c = ClientOf[t],
         client' = [client EXCEPT ![c] = r], r.pool = client[c].pool, r.dead = client[c].dead,
         r.cs # client[c].cs => client[c].cs \in {None, t} /\ r.cs \in {None, t}
  PROVE  client' \in [Client -> ClientState] /\ KeepsClients(t) /\ client'[ClientOf[t]] = r
  <1>1. /\ client' \in [Client -> ClientState] /\ client'[c] = r
        /\ \A d \in Client \ {c} : client'[d] = client[d]
    BY Replaced
  <1> QED BY <1>1 DEF KeepsClients

LEMMA AllKept ==
  ASSUME TypeOK, NEW t \in Thread
  PROVE  /\ thread' = thread => KeepsThreads(t) /\ thread' \in [Thread -> ThreadState]
         /\ session' = session => KeepsSessions(t) /\ session' \in [Session -> SessionState]
         /\ client' = client => KeepsClients(t) /\ client' \in [Client -> ClientState]
         /\ UNCHANGED <<db, bounds>> => db' = db /\ menu' = menu
  BY DEF KeepsThreads, KeepsSessions, KeepsClients, TypeOK, bounds

\* The parts of the state an action leaves alone.
LEMMA TypeParts ==
  ASSUME TypeOK, thread' \in [Thread -> ThreadState], session' \in [Session -> SessionState],
         client' \in [Client -> ClientState], UNCHANGED <<db, bounds>>
  PROVE  TypeOK'
  BY DEF TypeOK, bounds

LEMMA DoneKeeps ==
  ASSUME TypeOK, NEW t \in Thread, Done(t), Rest(t) \in Seq(Steps)
  PROVE  /\ thread' \in [Thread -> ThreadState] /\ KeepsThreads(t)
         /\ thread'[t].code = Rest(t) /\ thread'[t].tops = thread[t].tops
  <1> DEFINE r == [thread[t] EXCEPT !.code = Rest(t)]
  <1>1. /\ r \in ThreadState /\ r.session = thread[t].session /\ r.mine = thread[t].mine
        /\ r.listening = thread[t].listening /\ r.due = thread[t].due /\ r.code = Rest(t)
        /\ r.tops = thread[t].tops
    BY StateTypes DEF ThreadState
  <1>2. thread' = [thread EXCEPT ![t] = r]
    BY DEF Done
  <1> HIDE DEF r
  <1> QED BY <1>1, <1>2, ThreadKept

\* The four steps of the monitors leave the sessions alone.
LEMMA MonitorsEffect ==
  ASSUME TypeOK, NEW t \in Thread, LockGlobal(t) \/ UnlockGlobal(t) \/ Enter(t) \/ Leave(t),
         First(t, "leave") => client[ClientOf[t]].cs = t
  PROVE  /\ TypeOK' /\ Quiet(t) /\ thread'[t].code = Rest(t) /\ thread'[t].tops = thread[t].tops
         /\ session' = session
         /\ client'[ClientOf[t]].cs = IF First(t, "enter") THEN t ELSE IF First(t, "leave") THEN None
                                      ELSE client[ClientOf[t]].cs
         /\ First(t, "lockGlobal") \/ First(t, "unlockGlobal") \/ First(t, "enter") \/ First(t, "leave")
  <1> DEFINE c == ClientOf[t]
  <1>1. c \in Client /\ client[c] \in ClientState
    BY StateTypes
  <1>2. /\ Done(t) /\ UNCHANGED <<session, db, bounds>> /\ Rest(t) \in Seq(Steps)
        /\ First(t, "lockGlobal") \/ First(t, "unlockGlobal") \/ First(t, "enter") \/ First(t, "leave")
    BY FirstStep DEF LockGlobal, UnlockGlobal, Enter, Leave
  <1>3. /\ client' \in [Client -> ClientState] /\ KeepsClients(t)
        /\ client'[c].cs = IF First(t, "enter") THEN t ELSE IF First(t, "leave") THEN None ELSE client[c].cs
    <2>1. CASE LockGlobal(t)
      <3> DEFINE d == client[c].depth + 1
      <3>1. /\ client' = [client EXCEPT ![c] = [client[c] EXCEPT !.owner = t, !.depth = d]]
            /\ First(t, "lockGlobal")
        BY <2>1 DEF LockGlobal
      <3>2. d \in Int
        BY <1>1 DEF ClientState
      <3> DEFINE r == [client[c] EXCEPT !.owner = t, !.depth = d]
      <3> HIDE DEF d
      <3>3. r \in ClientState /\ r.pool = client[c].pool /\ r.dead = client[c].dead /\ r.cs = client[c].cs
        BY <1>1, <3>2 DEF ClientState
      <3>4. ~First(t, "enter") /\ ~First(t, "leave")
        BY <3>1 DEF First
      <3> HIDE DEF r
      <3> QED BY <1>1, <3>1, <3>3, <3>4, ClientKept DEF r
    <2>2. CASE UnlockGlobal(t)
      <3> DEFINE d == client[c].depth - 1
                 w == IF client[c].depth = 1 THEN None ELSE t
      <3>1. /\ client' = [client EXCEPT ![c] = [client[c] EXCEPT !.owner = w, !.depth = d]]
            /\ First(t, "unlockGlobal")
        BY <2>2 DEF UnlockGlobal
      <3>2. d \in Int /\ w \in Thread \cup {None}
        BY <1>1 DEF ClientState
      <3> DEFINE r == [client[c] EXCEPT !.owner = w, !.depth = d]
      <3> HIDE DEF d, w
      <3>3. r \in ClientState /\ r.pool = client[c].pool /\ r.dead = client[c].dead /\ r.cs = client[c].cs
        BY <1>1, <3>2 DEF ClientState
      <3>4. ~First(t, "enter") /\ ~First(t, "leave")
        BY <3>1 DEF First
      <3> HIDE DEF r
      <3> QED BY <1>1, <3>1, <3>3, <3>4, ClientKept DEF r
    <2>3. CASE Enter(t)
      <3> DEFINE r == [client[c] EXCEPT !.cs = t]
      <3>1. client' = [client EXCEPT ![c] = r] /\ First(t, "enter") /\ client[c].cs = None
        BY <2>3 DEF Enter
      <3>2. r \in ClientState /\ r.pool = client[c].pool /\ r.dead = client[c].dead /\ r.cs = t
        BY <1>1 DEF ClientState
      <3> HIDE DEF r
      <3> QED BY <1>1, <3>1, <3>2, ClientKept
    <2>4. CASE Leave(t)
      <3> DEFINE r == [client[c] EXCEPT !.cs = None]
      <3>1. client' = [client EXCEPT ![c] = r] /\ First(t, "leave") /\ ~First(t, "enter")
        BY <2>4 DEF Leave, First
      <3>2. r \in ClientState /\ r.pool = client[c].pool /\ r.dead = client[c].dead /\ r.cs = None
        BY <1>1 DEF ClientState
      <3> HIDE DEF r
      <3> QED BY <1>1, <3>1, <3>2, ClientKept
    <2> QED BY <2>1, <2>2, <2>3, <2>4
  <1>4. /\ thread' \in [Thread -> ThreadState] /\ KeepsThreads(t)
        /\ thread'[t].code = Rest(t) /\ thread'[t].tops = thread[t].tops
    BY <1>2, DoneKeeps
  <1>5. TypeOK' /\ session' = session /\ KeepsSessions(t) /\ db' = db /\ menu' = menu
    BY <1>2, <1>3, <1>4, TypeParts, AllKept
  <1> QED BY <1>2, <1>3, <1>4, <1>5 DEF Quiet

LEMMA AttachEffect ==
  ASSUME TypeOK, NEW t \in Thread, Attach(t), NEW c, c = ClientOf[t]
  PROVE  /\ TypeOK' /\ session' = session /\ db' = db /\ menu' = menu
         /\ thread[t].session = None /\ thread'[t].session \in Session
         /\ \A u \in Thread \ {t} : thread'[u] = thread[u]
         /\ thread'[t].code = thread[t].code /\ thread'[t].tops = thread[t].tops
         /\ thread'[t].mine = thread[t].mine /\ thread'[t].listening = thread[t].listening
         /\ thread'[t].due = thread[t].due
         /\ c \in Client /\ \A d \in Client \ {c} : client'[d] = client[d]
         /\ client'[c].cs = client[c].cs /\ client'[c].dead = client[c].dead /\ ~client[c].dead
         /\ \/ /\ client[c].pool # <<>> /\ thread'[t].session = Head(client[c].pool)
               /\ client'[c].pool = Tail(client[c].pool)
            \/ thread'[t].session \in Free /\ client'[c].pool = <<>>
  <1> DEFINE n == NewSession(c)
  <1>1. c \in Client /\ client[c] \in ClientState /\ client[c].pool \in Seq(Session) /\ thread[t] \in ThreadState
    BY StateTypes DEF ClientState
  <1>2. /\ thread' = [thread EXCEPT ![t] = [thread[t] EXCEPT !.session = n.s]]
        /\ client' = [client EXCEPT ![c] = [client[c] EXCEPT !.pool = n.pool]]
        /\ UNCHANGED <<session, db, bounds>> /\ (client[c].pool # <<>> \/ Free # {})
        /\ thread[t].session = None /\ ~client[c].dead
    BY DEF Attach
  <1>3. /\ n.s \in Session /\ n.pool \in Seq(Session)
        /\ \/ client[c].pool # <<>> /\ n.s = Head(client[c].pool) /\ n.pool = Tail(client[c].pool)
           \/ n.s \in Free /\ n.pool = <<>>
    <2>1. CASE client[c].pool # <<>>
      BY <1>1, <2>1, HeadTailProperties DEF NewSession, Pop
    <2>2. CASE client[c].pool = <<>>
      <3>1. (CHOOSE s \in Free : TRUE) \in Free
        BY <1>2, <2>2
      <3> QED BY <2>2, <3>1 DEF NewSession, Free
    <2> QED BY <2>1, <2>2
  <1> DEFINE r == [thread[t] EXCEPT !.session = n.s]
             q == [client[c] EXCEPT !.pool = n.pool]
  <1> HIDE DEF n
  <1>4. /\ r \in ThreadState /\ r.session = n.s /\ r.code = thread[t].code /\ r.tops = thread[t].tops
        /\ r.mine = thread[t].mine /\ r.listening = thread[t].listening /\ r.due = thread[t].due
        /\ q \in ClientState /\ q.pool = n.pool /\ q.cs = client[c].cs /\ q.dead = client[c].dead
    BY <1>1, <1>3 DEF ThreadState, ClientState
  <1> HIDE DEF r, q
  <1>5. /\ thread' \in [Thread -> ThreadState] /\ thread'[t] = r
        /\ \A u \in Thread \ {t} : thread'[u] = thread[u]
        /\ client' \in [Client -> ClientState] /\ client'[c] = q
        /\ \A d \in Client \ {c} : client'[d] = client[d]
    BY <1>1, <1>2, <1>4, Replaced DEF r, q
  <1>6. TypeOK' /\ db' = db /\ menu' = menu
    BY <1>2, <1>5, TypeParts, AllKept
  <1> QED BY <1>1, <1>2, <1>3, <1>4, <1>5, <1>6

LEMMA DetachEffect ==
  ASSUME TypeOK, NEW t \in Thread, Detach(t), NEW c, c = ClientOf[t]
  PROVE  /\ TypeOK' /\ session' = session /\ db' = db /\ menu' = menu
         /\ thread[t].session \in Session /\ thread'[t].session = None /\ thread[t].code = <<>>
         /\ \A u \in Thread \ {t} : thread'[u] = thread[u]
         /\ thread'[t].code = thread[t].code /\ thread'[t].tops = thread[t].tops
         /\ thread'[t].mine = NoLocks /\ thread'[t].listening = {} /\ thread'[t].due = {}
         /\ c \in Client /\ \A d \in Client \ {c} : client'[d] = client[d]
         /\ client'[c].cs = client[c].cs /\ client'[c].dead = client[c].dead /\ ~client[c].dead
         /\ client'[c].pool = <<thread[t].session>> \o client[c].pool
  <1> DEFINE r == [thread[t] EXCEPT !.session = None, !.mine = NoLocks, !.fresh = {},
                                    !.listening = {}, !.due = {}]
             p == <<thread[t].session>> \o client[c].pool
             q == [client[c] EXCEPT !.pool = p]
  <1>1. /\ c \in Client /\ client[c] \in ClientState /\ client[c].pool \in Seq(Session)
        /\ thread[t] \in ThreadState /\ thread[t].session \in Session
    BY StateTypes DEF ClientState, Detach
  <1>2. /\ thread' = [thread EXCEPT ![t] = r] /\ client' = [client EXCEPT ![c] = q]
        /\ UNCHANGED <<session, db, bounds>> /\ ~client[c].dead /\ thread[t].code = <<>>
    BY DEF Detach
  <1>3. p \in Seq(Session)
    BY <1>1, OneStep, ConcatProperties
  <1>4. NoLocks \in [LockId -> [Modes -> Nat]]
    BY DEF NoLocks
  <1>5. /\ r \in ThreadState /\ r.session = None /\ r.mine = NoLocks /\ r.listening = {} /\ r.due = {}
        /\ r.code = thread[t].code /\ r.tops = thread[t].tops
    BY <1>1, <1>4 DEF ThreadState
  <1> HIDE DEF r, p
  <1>6. q \in ClientState /\ q.pool = p /\ q.cs = client[c].cs /\ q.dead = client[c].dead
    BY <1>1, <1>3 DEF ClientState
  <1> HIDE DEF q
  <1>7. /\ thread' \in [Thread -> ThreadState] /\ thread'[t] = r
        /\ \A u \in Thread \ {t} : thread'[u] = thread[u]
        /\ client' \in [Client -> ClientState] /\ client'[c] = q
        /\ \A d \in Client \ {c} : client'[d] = client[d]
    BY <1>1, <1>2, <1>5, <1>6, Replaced
  <1>8. TypeOK' /\ db' = db /\ menu' = menu /\ session' = session
    BY <1>2, <1>7, TypeParts, AllKept
  <1> QED BY <1>1, <1>2, <1>5, <1>6, <1>7, <1>8 DEF p

LEMMA CallEffect ==
  ASSUME TypeOK, NEW t \in Thread, Call(t), \A code \in Calls(t) : code \in Seq(Steps)
  PROVE  /\ TypeOK' /\ Quiet(t) /\ thread[t].code = <<>> /\ thread'[t].code \in Calls(t)
         /\ thread'[t].tops = thread[t].tops /\ session' = session /\ client' = client
         /\ ~client[ClientOf[t]].dead
  <1>1. PICK code \in Calls(t) : thread' = [thread EXCEPT ![t] = [thread[t] EXCEPT !.code = code]]
    BY DEF Call
  <1> DEFINE r == [thread[t] EXCEPT !.code = code]
  <1>2. /\ r \in ThreadState /\ r.session = thread[t].session /\ r.mine = thread[t].mine
        /\ r.listening = thread[t].listening /\ r.due = thread[t].due /\ r.code = code
        /\ r.tops = thread[t].tops
    BY StateTypes DEF ThreadState
  <1>3. thread' = [thread EXCEPT ![t] = r]
    BY <1>1
  <1> HIDE DEF r
  <1>4. thread' \in [Thread -> ThreadState] /\ KeepsThreads(t) /\ thread'[t] = r
    BY <1>2, <1>3, ThreadKept
  <1>5. /\ UNCHANGED <<session, client, db, faults, menu>> /\ calls' = calls + 1
        /\ ~client[ClientOf[t]].dead /\ thread[t].code = <<>>
    BY Zenon DEF Call
  <1>6. KeepsSessions(t) /\ KeepsClients(t)
    BY <1>5, AllKept
  <1>7. TypeOK'
    BY <1>4, <1>5 DEF TypeOK
  <1> QED BY <1>2, <1>4, <1>5, <1>6, <1>7 DEF Quiet

\* The mark of a step, and the mark and the path that follow it.
StepAt(t, m) ==
  LET st == Head(thread[t].code) IN
  /\ m \in Mark /\ ThreadAt(t, m) /\ Permitted(menu, st) /\ Allowed(m, st) /\ After(m, st) \in Mark
  /\ \E r \in Mark : AtRest(r) /\ Path(menu, Rest(t), After(m, st), r)

LEMMA StepMark ==
  ASSUME TypeOK, CallInv, NEW t \in Thread, NEW k, First(t, k)
  PROVE  \E m \in Mark : StepAt(t, m)
  <1>1. /\ thread[t].code \in Seq(Steps) /\ thread[t].code # <<>> /\ Rest(t) = Tail(thread[t].code)
        /\ ~client[ClientOf[t]].dead
    BY FirstStep
  <1>2. PICK m \in Mark : ThreadAt(t, m)
    BY <1>1 DEF CallInv
  <1>3. PICK r \in Mark : AtRest(r) /\ Path(menu, thread[t].code, m, r)
    BY <1>2 DEF ThreadAt
  <1>4. /\ Permitted(menu, Head(thread[t].code)) /\ Allowed(m, Head(thread[t].code))
        /\ After(m, Head(thread[t].code)) \in Mark
        /\ Path(menu, Rest(t), After(m, Head(thread[t].code)), r)
    BY <1>1, <1>3, PathFirst
  <1> QED BY <1>2, <1>3, <1>4 DEF StepAt

\* Steps that are only done in a scope.
ScopeKinds == SqlSteps \cup {"end", "abandon", "enter", "leave", "observe", "delete"}

\* A thread in a scope has a session; so has one that commits or listens.
LEMMA StepSession ==
  ASSUME TypeOK, CallInv, NEW t \in Thread, NEW k, First(t, k)
  PROVE  /\ k \in ScopeKinds \cup {"commit", "poll", "wait", "listening", "quiet"}
              => thread[t].session \in Session /\ session[thread[t].session] \in SessionState
         /\ k \in ScopeKinds => thread[t].tops # <<>>
  <1>1. PICK m \in Mark : StepAt(t, m)
    BY StepMark
  <1>2. /\ Head(thread[t].code)[1] = k /\ Allowed(m, Head(thread[t].code)) /\ ThreadAt(t, m)
        /\ Permitted(menu, Head(thread[t].code)) /\ thread[t].code # <<>>
    BY <1>1, FirstStep DEF StepAt
  <1>3. /\ m.depth = Len(thread[t].tops) /\ thread[t].tops \in Seq(BOOLEAN)
        /\ thread[t].session \in Session \cup {None}
        /\ thread[t].session # None => session[thread[t].session] \in SessionState
    BY <1>2, StateTypes DEF ThreadAt, ThreadState
  <1>4. k \in ScopeKinds => m.depth >= 1
    BY <1>2, MarkFields DEF Allowed, ScopeKinds
  <1>5. k \in ScopeKinds => thread[t].tops # <<>>
    BY <1>3, <1>4, EmptySeq
  <1>6. k \in ScopeKinds => thread[t].session # None
    BY <1>2, <1>4 DEF ThreadAt
  <1>7. k = "commit" => thread[t].session # None
    BY <1>2 DEF ThreadAt, Allowed
  <1>8. k \in {"poll", "wait", "listening", "quiet"} => thread[t].session # None
    BY <1>2 DEF ThreadAt, Permitted
  <1> QED BY <1>3, <1>5, <1>6, <1>7, <1>8

LEMMA StartEffect ==
  ASSUME TypeOK, NEW t \in Thread, Start(t)
  PROVE  LET s == thread[t].session IN
         /\ TypeOK' /\ Quiet(t) /\ s \in Session /\ client' = client /\ thread'[t].code = Rest(t)
         /\ First(t, "start") \/ First(t, "begin")
         /\ thread'[t].tops = IF First(t, "begin") THEN thread[t].tops
                              ELSE Append(thread[t].tops, session[s].txn = "none")
         /\ session'[s].txn = IF session[s].txn = "none" THEN "open" ELSE session[s].txn
         /\ session'[s].pend = session[s].pend
  <1> DEFINE s == thread[t].session
             top == session[s].txn = "none"
             tops == IF First(t, "begin") THEN thread[t].tops ELSE Append(thread[t].tops, top)
             txn == IF top THEN "open" ELSE session[s].txn
  <1>1. /\ thread[t] \in ThreadState /\ thread[t].tops \in Seq(BOOLEAN) /\ Rest(t) \in Seq(Steps)
        /\ s \in Session /\ session[s] \in SessionState /\ session[s].pend \in Seq(Steps)
        /\ thread[t].fresh \in SUBSET Obj /\ txn \in {"none", "open", "failed", "aborted"}
    BY StateTypes, FirstStep DEF ThreadState, SessionState, Start
  <1>2. /\ thread' = [thread EXCEPT ![t] = [thread[t] EXCEPT !.code = Rest(t), !.tops = tops]]
        /\ session' = IF top THEN [session EXCEPT ![s] = [session[s] EXCEPT !.txn = "open"]] ELSE session
    BY DEF Start
  <1>b. UNCHANGED <<client, db, bounds>> /\ (First(t, "start") \/ First(t, "begin"))
    BY DEF Start
  <1>3. tops \in Seq(BOOLEAN)
    BY <1>1, AppendProperties
  <1> HIDE DEF tops, txn
  <1> DEFINE r == [thread[t] EXCEPT !.code = Rest(t), !.tops = tops]
             q == [session[s] EXCEPT !.txn = "open"]
  <1>4. /\ r \in ThreadState /\ r.session = thread[t].session /\ r.mine = thread[t].mine
        /\ r.listening = thread[t].listening /\ r.due = thread[t].due /\ r.code = Rest(t) /\ r.tops = tops
        /\ q \in SessionState /\ q.txn = "open" /\ q.pend = session[s].pend /\ q.locks = session[s].locks
        /\ q.observers = session[s].observers /\ q.inbox = session[s].inbox
    BY <1>1, <1>3 DEF ThreadState, SessionState
  <1>a. /\ thread' = [thread EXCEPT ![t] = r]
        /\ session' = IF top THEN [session EXCEPT ![s] = q] ELSE session
    BY <1>2
  <1> HIDE DEF r, q
  <1>5. thread' \in [Thread -> ThreadState] /\ KeepsThreads(t) /\ thread'[t] = r
    BY <1>4, <1>a, ThreadKept
  <1>6. /\ session' \in [Session -> SessionState] /\ KeepsSessions(t)
        /\ session'[s].txn = txn /\ session'[s].pend = session[s].pend
    <2>1. CASE top
      BY <1>1, <1>4, <1>a, <2>1, SessionKept DEF txn
    <2>2. CASE ~top
      BY <1>a, <2>2, AllKept DEF txn
    <2> QED BY <2>1, <2>2
  <1>7. TypeOK' /\ KeepsClients(t) /\ db' = db /\ menu' = menu
    BY <1>b, <1>5, <1>6, TypeParts, AllKept
  <1> QED BY <1>1, <1>b, <1>4, <1>5, <1>6, <1>7 DEF Quiet, tops, txn

LEMMA AbandonEffect ==
  ASSUME TypeOK, CallInv, NEW t \in Thread, Abandon(t)
  PROVE  LET s == thread[t].session IN
         /\ TypeOK' /\ Quiet(t) /\ s \in Session /\ client' = client /\ thread'[t].code = Rest(t)
         /\ First(t, "abandon") /\ thread'[t].tops = Front(thread[t].tops)
         /\ session'[s].txn = "aborted" /\ session'[s].pend = <<>>
  <1> DEFINE s == thread[t].session
             tops == Front(thread[t].tops)
  <1>1. /\ thread[t] \in ThreadState /\ thread[t].tops \in Seq(BOOLEAN) /\ Rest(t) \in Seq(Steps)
        /\ s \in Session /\ session[s] \in SessionState /\ thread[t].tops # <<>>
        /\ First(t, "abandon")
    BY StateTypes, FirstStep, StepSession DEF ThreadState, Abandon, ScopeKinds
  <1>2. /\ thread' = [thread EXCEPT ![t] = [thread[t] EXCEPT !.code = Rest(t), !.tops = tops]]
        /\ session' = [session EXCEPT ![s] = [session[s] EXCEPT !.txn = "aborted", !.pend = <<>>]]
        /\ UNCHANGED <<client, db, bounds>>
    BY DEF Abandon, AbandonedTxn
  <1>3. tops \in Seq(BOOLEAN)
    BY <1>1, FrontProperties
  <1> HIDE DEF tops
  <1> DEFINE r == [thread[t] EXCEPT !.code = Rest(t), !.tops = tops]
             q == [session[s] EXCEPT !.txn = "aborted", !.pend = <<>>]
  <1>4. /\ r \in ThreadState /\ r.session = thread[t].session /\ r.mine = thread[t].mine
        /\ r.listening = thread[t].listening /\ r.due = thread[t].due /\ r.code = Rest(t) /\ r.tops = tops
        /\ q \in SessionState /\ q.txn = "aborted" /\ q.pend = <<>> /\ q.locks = session[s].locks
        /\ q.observers = session[s].observers /\ q.inbox = session[s].inbox
    BY <1>1, <1>3, EmptySeq DEF ThreadState, SessionState
  <1>a. thread' = [thread EXCEPT ![t] = r] /\ session' = [session EXCEPT ![s] = q]
    BY <1>2
  <1> HIDE DEF r, q
  <1>6. thread' \in [Thread -> ThreadState] /\ KeepsThreads(t) /\ thread'[t] = r
    BY <1>4, <1>a, ThreadKept
  <1>7. session' \in [Session -> SessionState] /\ KeepsSessions(t) /\ session'[s] = q
    BY <1>1, <1>4, <1>a, SessionKept
  <1>8. TypeOK' /\ KeepsClients(t) /\ db' = db /\ menu' = menu
    BY <1>2, <1>6, <1>7, TypeParts, AllKept
  <1> QED BY <1>1, <1>2, <1>4, <1>6, <1>7, <1>8 DEF Quiet, tops

LEMMA RollbackEffect ==
  ASSUME TypeOK, NEW t \in Thread, RollbackTransaction(t)
  PROVE  LET s == thread[t].session IN
         /\ TypeOK' /\ Quiet(t) /\ client' = client /\ thread'[t].code = Rest(t)
         /\ First(t, "rollback") /\ thread'[t].tops = thread[t].tops
         /\ s = None => session' = session
         /\ s # None => s \in Session /\ session'[s].txn = "none" /\ session'[s].pend = <<>>
  <1> DEFINE s == thread[t].session
  <1>1. /\ thread[t] \in ThreadState /\ thread[t].tops \in Seq(BOOLEAN) /\ Rest(t) \in Seq(Steps)
        /\ s \in Session \cup {None} /\ First(t, "rollback")
    BY StateTypes, FirstStep DEF ThreadState, RollbackTransaction
  <1>2. /\ thread' = [thread EXCEPT ![t] = [thread[t] EXCEPT !.code = Rest(t), !.fresh = {}]]
        /\ session' = IF s = None THEN session
                      ELSE [session EXCEPT ![s] = [session[s] EXCEPT !.txn = "none", !.pend = <<>>]]
        /\ UNCHANGED <<client, db, bounds>>
    BY DEF RollbackTransaction
  <1> DEFINE r == [thread[t] EXCEPT !.code = Rest(t), !.fresh = {}]
             q == [session[s] EXCEPT !.txn = "none", !.pend = <<>>]
  <1>3. /\ r \in ThreadState /\ r.session = thread[t].session /\ r.mine = thread[t].mine
        /\ r.listening = thread[t].listening /\ r.due = thread[t].due /\ r.code = Rest(t)
        /\ r.tops = thread[t].tops
    BY <1>1 DEF ThreadState
  <1>4. s # None => /\ q \in SessionState /\ q.txn = "none" /\ q.pend = <<>> /\ q.locks = session[s].locks
                    /\ q.observers = session[s].observers /\ q.inbox = session[s].inbox
    BY <1>1, EmptySeq, StateTypes DEF SessionState
  <1>a. thread' = [thread EXCEPT ![t] = r] /\ (s # None => session' = [session EXCEPT ![s] = q])
    BY <1>2
  <1> HIDE DEF r, q
  <1>5. thread' \in [Thread -> ThreadState] /\ KeepsThreads(t) /\ thread'[t] = r
    BY <1>3, <1>a, ThreadKept
  <1>6. /\ session' \in [Session -> SessionState] /\ KeepsSessions(t)
        /\ s # None => session'[s] = q
    <2>1. CASE s = None
      BY <1>2, <2>1, AllKept
    <2>2. CASE s # None
      BY <1>1, <1>4, <1>a, <2>2, SessionKept
    <2> QED BY <2>1, <2>2
  <1>7. TypeOK' /\ KeepsClients(t) /\ db' = db /\ menu' = menu
    BY <1>2, <1>5, <1>6, TypeParts, AllKept
  <1> QED BY <1>1, <1>2, <1>3, <1>4, <1>5, <1>6, <1>7 DEF Quiet

\* What a commit of s leaves of the database and of each session.
LEMMA CommitEffect ==
  ASSUME TypeOK, NEW s \in Session, CommitPending(s)
  PROVE  /\ db' = Visible(s) /\ db' \in Database /\ session' \in [Session -> SessionState]
         /\ \A r \in Session :
              /\ session'[r].txn = IF r = s THEN "none" ELSE session[r].txn
              /\ session'[r].pend = IF r = s THEN <<>> ELSE session[r].pend
              /\ session'[r].locks = session[r].locks
              /\ session'[r].observers = session[r].observers
              /\ session'[r].inbox = session[r].inbox \cup
                   {o \in Updated(s) \cap db'.triggers : session[r].observers[o] = "live"}
  <1>1. db' = Visible(s) /\ db' \in Database
    <2>1. db' = Visible(s)
      BY Zenon DEF CommitPending
    <2> QED BY <2>1, VisibleType
  <1>2. ASSUME NEW r \in Session
        PROVE  /\ session'[r] \in SessionState
               /\ session'[r].txn = IF r = s THEN "none" ELSE session[r].txn
               /\ session'[r].pend = IF r = s THEN <<>> ELSE session[r].pend
               /\ session'[r].locks = session[r].locks
               /\ session'[r].observers = session[r].observers
               /\ session'[r].inbox = session[r].inbox \cup
                    {o \in Updated(s) \cap db'.triggers : session[r].observers[o] = "live"}
    <2> DEFINE box == session[r].inbox \cup {o \in Updated(s) \cap Visible(s).triggers :
                                              session[r].observers[o] = "live"}
               x == IF r = s THEN "none" ELSE session[r].txn
               p == IF r = s THEN <<>> ELSE session[r].pend
    <2>1. session'[r] = [session[r] EXCEPT !.txn = x, !.pend = p, !.inbox = box]
      BY Zenon DEF CommitPending
    <2>2. session[r] \in SessionState /\ db.rows \in SUBSET Obj
      BY DEF TypeOK, Database
    <2>3. box \in SUBSET Obj /\ x \in {"none", "open", "failed", "aborted"} /\ p \in Seq(Steps)
      BY <2>2, EmptySeq DEF SessionState, Updated
    <2>4. box = session[r].inbox \cup {o \in Updated(s) \cap db'.triggers : session[r].observers[o] = "live"}
      BY <1>1
    <2> HIDE DEF box, x, p
    <2>5. /\ session'[r] \in SessionState /\ session'[r].txn = x /\ session'[r].pend = p
          /\ session'[r].locks = session[r].locks /\ session'[r].observers = session[r].observers
          /\ session'[r].inbox = box
      BY <2>1, <2>2, <2>3 DEF SessionState
    <2> QED BY <2>4, <2>5 DEF x, p
  <1>3. session' = [r \in Session |-> session'[r]]
    BY Zenon DEF CommitPending
  <1> QED BY <1>1, <1>2, <1>3

\* What the end of a scope leaves.
LEMMA EndEffect ==
  ASSUME TypeOK, CallInv, NEW t \in Thread, End(t)
  PROVE  LET s == thread[t].session
             writes == Commits(t) /\ session[s].txn = "open" IN
         /\ s \in Session
         /\ IF writes THEN CommitPending(s)
            ELSE /\ db' = db
                 /\ session' = IF Commits(t) /\ session[s].txn = "failed"
                               THEN [session EXCEPT ![s] = [session[s] EXCEPT !.txn = "none", !.pend = <<>>]]
                               ELSE session
         /\ db' \in Database /\ session' \in [Session -> SessionState]
         /\ thread' \in [Thread -> ThreadState] /\ UNCHANGED <<client, bounds>>
         /\ \A u \in Thread :
              /\ thread'[u].session = thread[u].session /\ thread'[u].mine = thread[u].mine
              /\ thread'[u].listening = thread[u].listening
              /\ thread'[u].code = IF u = t THEN Rest(t) ELSE thread[u].code
              /\ thread'[u].tops = IF u = t /\ First(t, "end") THEN Front(thread[u].tops)
                                   ELSE thread[u].tops
              /\ thread'[u].due = IF writes THEN thread[u].due \cup (thread[u].listening \cap Updated(s))
                                  ELSE thread[u].due
  <1> DEFINE s == thread[t].session
             writes == Commits(t) /\ session[s].txn = "open"
  <1>a. First(t, "end") \/ First(t, "commit")
    BY Zenon DEF End
  <1>b. /\ writes => CommitPending(s)
        /\ ~writes => /\ session' = IF Commits(t) /\ session[s].txn = "failed"
                                    THEN [session EXCEPT ![s] = [session[s] EXCEPT !.txn = "none", !.pend = <<>>]]
                                    ELSE session
                      /\ db' = db
        /\ UNCHANGED <<client, bounds>>
    BY Zenon DEF End
  <1>c. thread' = [u \in Thread |->
          [thread[u] EXCEPT
             !.code = IF u = t THEN Rest(t) ELSE thread[u].code,
             !.tops = IF u = t /\ First(t, "end") THEN Front(thread[u].tops) ELSE thread[u].tops,
             !.fresh = IF u = t /\ writes THEN thread[u].fresh \ db'.rows ELSE thread[u].fresh,
             !.due = IF writes THEN thread[u].due \cup (thread[u].listening \cap Updated(s))
                     ELSE thread[u].due]]
    BY Zenon DEF End
  <1>1. /\ thread[t] \in ThreadState /\ thread[t].tops \in Seq(BOOLEAN) /\ Rest(t) \in Seq(Steps)
        /\ s \in Session /\ session[s] \in SessionState
        /\ First(t, "end") => thread[t].tops # <<>>
    BY <1>a, StateTypes, FirstStep, StepSession DEF ThreadState, ScopeKinds
  <1> HIDE DEF writes
  <1>2. /\ db' \in Database /\ session' \in [Session -> SessionState]
        /\ ~writes => session' = IF Commits(t) /\ session[s].txn = "failed"
                               THEN [session EXCEPT ![s] = [session[s] EXCEPT !.txn = "none", !.pend = <<>>]]
                               ELSE session
    <2>1. CASE writes
      BY <1>b, <1>1, <2>1, CommitEffect
    <2>2. CASE ~writes
      <3>2. [session[s] EXCEPT !.txn = "none", !.pend = <<>>] \in SessionState
        BY <1>1, EmptySeq DEF SessionState
      <3>3. db \in Database
        BY DEF TypeOK
      <3> QED BY <1>1, <1>b, <2>2, <3>2, <3>3, Replaced
    <2> QED BY <2>1, <2>2
  <1>3. ASSUME NEW u \in Thread
        PROVE  /\ thread'[u] \in ThreadState
               /\ thread'[u].session = thread[u].session /\ thread'[u].mine = thread[u].mine
               /\ thread'[u].listening = thread[u].listening
               /\ thread'[u].code = IF u = t THEN Rest(t) ELSE thread[u].code
               /\ thread'[u].tops = IF u = t /\ First(t, "end") THEN Front(thread[u].tops)
                                    ELSE thread[u].tops
               /\ thread'[u].due = IF writes THEN thread[u].due \cup (thread[u].listening \cap Updated(s))
                                   ELSE thread[u].due
    <2> DEFINE code == IF u = t THEN Rest(t) ELSE thread[u].code
               tops == IF u = t /\ First(t, "end") THEN Front(thread[u].tops) ELSE thread[u].tops
               fresh == IF u = t /\ writes THEN thread[u].fresh \ db'.rows ELSE thread[u].fresh
               due == IF writes THEN thread[u].due \cup (thread[u].listening \cap Updated(s))
                      ELSE thread[u].due
    <2>1. thread'[u] = [thread[u] EXCEPT !.code = code, !.tops = tops, !.fresh = fresh, !.due = due]
      BY <1>c, Zenon
    <2>2. thread[u] \in ThreadState /\ thread[u].code \in Seq(Steps) /\ thread[u].tops \in Seq(BOOLEAN)
          /\ thread[u].fresh \in SUBSET Obj /\ thread[u].due \in SUBSET Obj
          /\ thread[u].listening \in SUBSET Obj
      BY StateTypes DEF ThreadState
    <2>3. tops \in Seq(BOOLEAN)
      BY <1>1, <2>2, FrontProperties
    <2>5. code \in Seq(Steps) /\ fresh \in SUBSET Obj /\ due \in SUBSET Obj
      BY <1>1, <2>2
    <2> HIDE DEF code, tops, fresh, due
    <2>6. /\ thread'[u] \in ThreadState
          /\ thread'[u].session = thread[u].session /\ thread'[u].mine = thread[u].mine
          /\ thread'[u].listening = thread[u].listening
          /\ thread'[u].code = code /\ thread'[u].tops = tops /\ thread'[u].due = due
      BY <2>1, <2>2, <2>3, <2>5 DEF ThreadState
    <2> QED BY <2>6 DEF code, tops, due
  <1>4. thread' = [u \in Thread |-> thread'[u]]
    BY <1>c, Zenon
  <1>5. thread' \in [Thread -> ThreadState]
    BY <1>3, <1>4
  <1> QED BY <1>1, <1>2, <1>3, <1>5, <1>b, Zenon DEF writes

LEMMA SelectClassEffect ==
  ASSUME TypeOK, NEW t \in Thread, SelectClass(t)
  PROVE  /\ TypeOK' /\ Quiet(t) /\ client' = client /\ session' = session
         /\ thread'[t].code = Rest(t) /\ thread'[t].tops = thread[t].tops /\ First(t, "class")
  <1>1. Done(t) /\ UNCHANGED <<session, client, db, bounds>> /\ First(t, "class")
    BY DEF SelectClass, Runs
  <1>2. /\ thread' \in [Thread -> ThreadState] /\ KeepsThreads(t)
        /\ thread'[t].code = Rest(t) /\ thread'[t].tops = thread[t].tops
    BY <1>1, FirstStep, DoneKeeps
  <1>3. /\ TypeOK' /\ KeepsSessions(t) /\ KeepsClients(t) /\ db' = db /\ menu' = menu
    BY <1>1, <1>2, TypeParts, AllKept
  <1> QED BY <1>1, <1>2, <1>3 DEF Quiet

\* The step of write is of one of seven kinds.
WriteKinds == {"put", "del", "write", "rootClass", "root", "trigger", "convert"}

LEMMA WriteEffect ==
  ASSUME TypeOK, CallInv, NEW t \in Thread, Write(t)
  PROVE  LET s == thread[t].session
             w == Head(thread[t].code)
             known == w[1] = "rootClass" /\ Visible(s).rootClass > 0 IN
         /\ TypeOK' /\ Quiet(t) /\ s \in Session /\ client' = client /\ thread'[t].code = Rest(t)
         /\ thread'[t].tops = thread[t].tops /\ session'[s].txn = session[s].txn
         /\ session[s].txn = "open" /\ w \in Steps /\ First(t, w[1]) /\ w[1] \in WriteKinds
         /\ Blockers(s, w) = {} /\ (w[1] = "root" => RootFits(s))
         /\ session'[s].pend = IF known THEN session[s].pend ELSE Append(session[s].pend, w)
  <1> DEFINE s == thread[t].session
             w == Head(thread[t].code)
             known == w[1] = "rootClass" /\ Visible(s).rootClass > 0
             pend == Append(session[s].pend, w)
             q == [session[s] EXCEPT !.pend = pend]
  <1>1. PICK k \in WriteKinds : Runs(t, k)
    BY DEF Write, WriteKinds
  <1>2. /\ First(t, k) /\ session[s].txn = "open" /\ Blockers(s, w) = {}
        /\ (w[1] = "root" => RootFits(s))
    BY <1>1 DEF Runs, Write
  <1>3. w \in Steps /\ w[1] = k /\ First(t, w[1]) /\ Rest(t) \in Seq(Steps)
    BY <1>2, FirstStep
  <1>4. s \in Session /\ session[s] \in SessionState
    BY <1>2, StepSession DEF WriteKinds, ScopeKinds, SqlSteps
  <1>5. pend \in Seq(Steps)
    BY <1>3, <1>4, AppendProperties DEF SessionState
  <1>6. session' = IF known THEN session ELSE [session EXCEPT ![s] = q]
    BY DEF Write
  <1>7. Done(t) /\ UNCHANGED <<client, db, bounds>>
    BY DEF Write
  <1> HIDE DEF pend, known, w
  <1>8. /\ q \in SessionState /\ q.txn = session[s].txn /\ q.pend = pend /\ q.locks = session[s].locks
        /\ q.observers = session[s].observers /\ q.inbox = session[s].inbox
    BY <1>4, <1>5 DEF SessionState
  <1> HIDE DEF q
  <1>9. /\ session' \in [Session -> SessionState] /\ KeepsSessions(t)
        /\ session'[s].txn = session[s].txn /\ session'[s].pend = IF known THEN session[s].pend ELSE pend
    <2>1. CASE known
      BY <1>6, <2>1, AllKept
    <2>2. CASE ~known
      BY <1>4, <1>6, <1>8, <2>2, SessionKept
    <2> QED BY <2>1, <2>2
  <1>10. /\ thread' \in [Thread -> ThreadState] /\ KeepsThreads(t)
         /\ thread'[t].code = Rest(t) /\ thread'[t].tops = thread[t].tops
    BY <1>3, <1>7, DoneKeeps
  <1>11. TypeOK' /\ KeepsClients(t) /\ db' = db /\ menu' = menu
    BY <1>7, <1>9, <1>10, TypeParts, AllKept
  <1> QED BY <1>1, <1>2, <1>3, <1>4, <1>7, <1>9, <1>10, <1>11 DEF Quiet, pend, known, w

LEMMA NewOidEffect ==
  ASSUME TypeOK, NEW t \in Thread, NewOid(t)
  PROVE  /\ TypeOK' /\ Quiet(t) /\ session' = session /\ First(t, "alloc")
         /\ thread'[t].code = Rest(t) /\ thread'[t].tops = thread[t].tops
         /\ client'[ClientOf[t]].cs = client[ClientOf[t]].cs
  <1> DEFINE c == ClientOf[t]
             o == Arg(t)
             fresh == thread[t].fresh \cup ({o} \ {None})
             have == client[c].have \cup ({o} \ {None})
             r == [thread[t] EXCEPT !.code = Rest(t), !.fresh = fresh]
             q == [client[c] EXCEPT !.have = have]
  <1>1. First(t, "alloc")
    BY DEF NewOid, Runs
  <1>2. /\ thread' = [thread EXCEPT ![t] = r] /\ client' = [client EXCEPT ![c] = q]
        /\ UNCHANGED <<session, db, bounds>>
    BY DEF NewOid
  <1>3. /\ thread[t] \in ThreadState /\ c \in Client /\ client[c] \in ClientState /\ Rest(t) \in Seq(Steps)
        /\ o \in Obj \cup {None}
    BY <1>1, StateTypes, FirstStep, StepArguments DEF Arg
  <1>4. fresh \in SUBSET Obj /\ have \in SUBSET Obj
    BY <1>3 DEF ThreadState, ClientState
  <1> HIDE DEF fresh, have
  <1>5. /\ r \in ThreadState /\ r.session = thread[t].session /\ r.mine = thread[t].mine
        /\ r.listening = thread[t].listening /\ r.due = thread[t].due /\ r.code = Rest(t)
        /\ r.tops = thread[t].tops
        /\ q \in ClientState /\ q.pool = client[c].pool /\ q.dead = client[c].dead /\ q.cs = client[c].cs
    BY <1>3, <1>4 DEF ThreadState, ClientState
  <1> HIDE DEF r, q
  <1>6. thread' \in [Thread -> ThreadState] /\ KeepsThreads(t) /\ thread'[t] = r
    BY <1>2, <1>5, ThreadKept
  <1>7. client' \in [Client -> ClientState] /\ KeepsClients(t) /\ client'[ClientOf[t]] = q
    BY <1>2, <1>3, <1>5, ClientKept
  <1>8. TypeOK' /\ KeepsSessions(t) /\ db' = db /\ menu' = menu /\ session' = session
    BY <1>2, <1>6, <1>7, TypeParts, AllKept
  <1> QED BY <1>1, <1>5, <1>6, <1>7, <1>8 DEF Quiet

LEMMA LoadType ==
  ASSUME NEW o \in Obj
  PROVE  Load(o) \in Seq(Steps)
  BY StepsHave, OneStep, ConcatProperties DEF Load, Scope, LookupClass, BareKinds, ObjKinds

LEMMA HashGetEffect ==
  ASSUME TypeOK, CallInv, NEW t \in Thread, HashGet(t)
  PROVE  /\ TypeOK' /\ Quiet(t) /\ session' = session /\ client' = client /\ First(t, "get")
         /\ thread'[t].tops = thread[t].tops
         /\ \/ thread'[t].code = Rest(t)
            \/ \E o \in Obj : thread'[t].code = Rest(t) \o Load(o)
  <1> DEFINE s == thread[t].session
             o == Visible(s).entry[Arg(t)]
             code == Rest(t) \o IF o = None \/ o \in client[ClientOf[t]].have THEN <<>> ELSE Load(o)
             r == [thread[t] EXCEPT !.code = code]
  <1>1. First(t, "get")
    BY DEF HashGet, Runs
  <1>2. thread' = [thread EXCEPT ![t] = r] /\ UNCHANGED <<session, client, db, bounds>>
    BY DEF HashGet
  <1>3. /\ thread[t] \in ThreadState /\ s \in Session /\ Arg(t) \in Name /\ Rest(t) \in Seq(Steps)
    BY <1>1, StateTypes, FirstStep, StepSession, StepArguments DEF Arg, ScopeKinds, SqlSteps
  <1>4. o \in Obj \cup {None}
    BY <1>3, VisibleType DEF Database
  <1>5. /\ code \in Seq(Steps)
        /\ code = Rest(t) \/ \E x \in Obj : code = Rest(t) \o Load(x)
    <2>1. Rest(t) \o <<>> = Rest(t)
      BY <1>3, ConcatEmptySeq
    <2>2. CASE o = None \/ o \in client[ClientOf[t]].have
      BY <1>3, <2>1, <2>2
    <2>3. CASE ~(o = None \/ o \in client[ClientOf[t]].have)
      BY <1>3, <1>4, <2>3, LoadType, ConcatProperties
    <2> QED BY <2>2, <2>3
  <1> HIDE DEF code, o
  <1>a. code \in Seq(Steps)
    BY <1>5
  <1>6. /\ r \in ThreadState /\ r.session = thread[t].session /\ r.mine = thread[t].mine
        /\ r.listening = thread[t].listening /\ r.due = thread[t].due /\ r.code = code
        /\ r.tops = thread[t].tops
    BY <1>3, <1>a DEF ThreadState
  <1> HIDE DEF r
  <1>7. thread' \in [Thread -> ThreadState] /\ KeepsThreads(t) /\ thread'[t] = r
    BY <1>2, <1>6, ThreadKept
  <1>8. TypeOK' /\ KeepsSessions(t) /\ KeepsClients(t) /\ db' = db /\ menu' = menu
    BY <1>2, <1>7, TypeParts, AllKept
  <1> QED BY <1>1, <1>2, <1>5, <1>6, <1>7, <1>8 DEF Quiet

\* An object is loaded, or the row is missing and the client of t ends.
LEMMA LoadEffect ==
  ASSUME TypeOK, CallInv, NEW t \in Thread, LoadObject(t), NEW c, c = ClientOf[t]
  PROVE  /\ TypeOK' /\ First(t, "load") /\ c \in Client
         /\ \/ /\ Quiet(t) /\ session' = session /\ client'[c].cs = client[c].cs
               /\ thread'[t].code = Rest(t) /\ thread'[t].tops = thread[t].tops
            \/ /\ db' = db /\ menu' = menu /\ client'[c].dead
               /\ client'[c].cs = client[c].cs /\ client'[c].pool = client[c].pool
               /\ \A d \in Client \ {c} : client'[d] = client[d]
               /\ \A u \in Thread :
                    /\ thread'[u].session = thread[u].session /\ thread'[u].mine = thread[u].mine
                    /\ thread'[u].listening = thread[u].listening /\ thread'[u].due = thread[u].due
                    /\ thread'[u].code = IF ClientOf[u] = c THEN <<>> ELSE thread[u].code
                    /\ thread'[u].tops = IF ClientOf[u] = c THEN <<>> ELSE thread[u].tops
               /\ \A s \in Session :
                    session'[s] = IF \E u \in Thread : ClientOf[u] = c /\ thread[u].session = s
                                  THEN NewConnection ELSE session[s]
  <1> DEFINE o == Arg(t)
             found == o \in Visible(thread[t].session).rows
  <1>1. First(t, "load")
    BY Zenon DEF LoadObject, Runs
  <1>2. UNCHANGED <<db, bounds>> /\ db' = db /\ menu' = menu
    BY Zenon DEF LoadObject, bounds
  <1>3. /\ thread[t] \in ThreadState /\ c \in Client /\ client[c] \in ClientState /\ o \in Obj
        /\ Rest(t) \in Seq(Steps)
    BY <1>1, StateTypes, FirstStep, StepArguments DEF Arg, ObjKinds
  <1>4. CASE found
    <2> DEFINE have == client[c].have \cup {o}
               q == [client[c] EXCEPT !.have = have]
    <2>1. client' = [client EXCEPT ![c] = q] /\ Done(t) /\ session' = session
      BY <1>4, Zenon DEF LoadObject
    <2>2. have \in SUBSET Obj
      BY <1>3 DEF ClientState
    <2> HIDE DEF have
    <2>3. q \in ClientState /\ q.pool = client[c].pool /\ q.dead = client[c].dead /\ q.cs = client[c].cs
      BY <1>3, <2>2 DEF ClientState
    <2> HIDE DEF q
    <2>4. client' \in [Client -> ClientState] /\ KeepsClients(t) /\ client'[ClientOf[t]] = q
      BY <1>3, <2>1, <2>3, ClientKept
    <2>5. /\ thread' \in [Thread -> ThreadState] /\ KeepsThreads(t)
          /\ thread'[t].code = Rest(t) /\ thread'[t].tops = thread[t].tops
      BY <1>3, <2>1, DoneKeeps
    <2>6. TypeOK' /\ KeepsSessions(t)
      BY <1>2, <2>1, <2>4, <2>5, TypeParts, AllKept
    <2> QED BY <1>1, <1>2, <1>3, <2>1, <2>3, <2>4, <2>5, <2>6 DEF Quiet
  <1>5. CASE ~found
    <2> DEFINE q == [client[c] EXCEPT !.dead = TRUE]
    <2>1. client' = [client EXCEPT ![c] = q]
      BY <1>5, Zenon DEF LoadObject
    <2>2. thread' = [u \in Thread |->
            IF ClientOf[u] = c THEN [thread[u] EXCEPT !.code = <<>>, !.tops = <<>>] ELSE thread[u]]
      BY <1>5, Zenon DEF LoadObject
    <2>3. session' = [s \in Session |->
            IF \E u \in Thread : ClientOf[u] = c /\ thread[u].session = s THEN NewConnection ELSE session[s]]
      BY <1>5, Zenon DEF LoadObject
    <2>4. /\ q \in ClientState /\ q.dead /\ q.cs = client[c].cs /\ q.pool = client[c].pool
      BY <1>3 DEF ClientState
    <2> HIDE DEF q
    <2>5. /\ client' \in [Client -> ClientState] /\ client'[c] = q
          /\ \A d \in Client \ {c} : client'[d] = client[d]
      BY <1>3, <2>1, <2>4, Replaced
    <2>6. ASSUME NEW u \in Thread
          PROVE  /\ thread'[u] \in ThreadState
                 /\ thread'[u].session = thread[u].session /\ thread'[u].mine = thread[u].mine
                 /\ thread'[u].listening = thread[u].listening /\ thread'[u].due = thread[u].due
                 /\ thread'[u].code = IF ClientOf[u] = c THEN <<>> ELSE thread[u].code
                 /\ thread'[u].tops = IF ClientOf[u] = c THEN <<>> ELSE thread[u].tops
      <3>1. thread'[u] = IF ClientOf[u] = c THEN [thread[u] EXCEPT !.code = <<>>, !.tops = <<>>] ELSE thread[u]
        BY <2>2, Zenon
      <3>2. thread[u] \in ThreadState
        BY StateTypes
      <3> QED BY <3>1, <3>2, EmptySeq DEF ThreadState
    <2>7. thread' \in [Thread -> ThreadState]
      <3>1. thread' = [u \in Thread |-> thread'[u]]
        BY <2>2, Zenon
      <3> QED BY <2>6, <3>1
    <2>8. NewConnection \in SessionState
      <3>1. NoLocks \in [LockId -> [Modes -> Nat]]
        BY DEF NoLocks
      <3> QED BY <3>1, EmptySeq DEF NewConnection, SessionState
    <2>9. /\ session' \in [Session -> SessionState]
          /\ \A s \in Session :
               session'[s] = IF \E u \in Thread : ClientOf[u] = c /\ thread[u].session = s
                             THEN NewConnection ELSE session[s]
      <3>1. \A s \in Session :
               session'[s] = IF \E u \in Thread : ClientOf[u] = c /\ thread[u].session = s
                             THEN NewConnection ELSE session[s]
        BY <2>3
      <3>2. session' = [s \in Session |-> session'[s]]
        BY <2>3, Zenon
      <3>3. \A s \in Session : session'[s] \in SessionState
        BY <2>8, <3>1 DEF TypeOK
      <3> QED BY <3>1, <3>2, <3>3
    <2>10. TypeOK'
      BY <1>2, <2>5, <2>7, <2>9, TypeParts
    <2> QED BY <1>1, <1>2, <1>3, <2>4, <2>5, <2>6, <2>9, <2>10
  <1> QED BY <1>4, <1>5

\* An advisory lock is granted, or the session does not get it.
LEMMA LockEffect ==
  ASSUME TypeOK, CallInv, NEW t \in Thread, AdvisoryLock(t), NEW s, s = thread[t].session
  PROVE  /\ TypeOK' /\ client' = client /\ db' = db /\ menu' = menu /\ s \in Session
         /\ First(t, "lock") \/ First(t, "try")
         /\ thread'[t].code = Rest(t) /\ thread'[t].tops = thread[t].tops
         /\ thread'[t].session = s /\ thread'[t].listening = thread[t].listening
         /\ thread'[t].due = thread[t].due
         /\ \A u \in Thread \ {t} : thread'[u] = thread[u]
         /\ \A q \in Session \ {s} : session'[q] = session[q]
         /\ session'[s].txn = session[s].txn /\ session'[s].pend = session[s].pend
         /\ session'[s].observers = session[s].observers /\ session'[s].inbox = session[s].inbox
         /\ \/ session' = session /\ Quiet(t)
            \/ \E k \in LockId, mode \in Modes :
                 /\ LockBlockers(s, k, mode) = {}
                 /\ session'[s].locks = [session[s].locks EXCEPT ![k] =
                      [session[s].locks[k] EXCEPT ![mode] = session[s].locks[k][mode] + 1]]
                 /\ thread'[t].mine = [thread[t].mine EXCEPT ![k] =
                      [thread[t].mine[k] EXCEPT ![mode] = thread[t].mine[k][mode] + 1]]
  <1> DEFINE k == Arg(t)
             mode == Head(thread[t].code)[3]
  <1>1. First(t, "lock") \/ First(t, "try")
    BY Zenon DEF AdvisoryLock, Runs
  <1>2. UNCHANGED <<client, db, bounds>> /\ client' = client /\ db' = db /\ menu' = menu
    BY Zenon DEF AdvisoryLock, bounds
  <1>3. /\ thread[t] \in ThreadState /\ s \in Session /\ session[s] \in SessionState
        /\ k \in LockId /\ mode \in Modes /\ Rest(t) \in Seq(Steps)
    BY <1>1, StateTypes, FirstStep, StepSession, StepArguments DEF Arg, ScopeKinds, SqlSteps
  <1>4. CASE LockBlockers(s, k, mode) = {}
    <2> DEFINE n == session[s].locks[k][mode] + 1
               lk == [session[s].locks[k] EXCEPT ![mode] = n]
               locks == [session[s].locks EXCEPT ![k] = lk]
               i == thread[t].mine[k][mode] + 1
               mk == [thread[t].mine[k] EXCEPT ![mode] = i]
               mine == [thread[t].mine EXCEPT ![k] = mk]
               q == [session[s] EXCEPT !.locks = locks]
               r == [thread[t] EXCEPT !.code = Rest(t), !.mine = mine]
    <2>1. session' = [session EXCEPT ![s] = q]
      BY <1>4, Zenon DEF AdvisoryLock
    <2>2. thread' = [thread EXCEPT ![t] = r]
      <3>1. thread' = [thread EXCEPT ![t].code = Rest(t), ![t].mine[k][mode] = @ + 1]
        BY <1>4, Zenon DEF AdvisoryLock
      <3> HIDE DEF k, mode
      <3> QED BY <3>1
    <2> HIDE DEF k, mode
    <2>3. locks \in [LockId -> [Modes -> Nat]] /\ mine \in [LockId -> [Modes -> Nat]]
      <3>1. /\ session[s].locks \in [LockId -> [Modes -> Nat]]
            /\ thread[t].mine \in [LockId -> [Modes -> Nat]]
        BY <1>3 DEF SessionState, ThreadState
      <3>2. session[s].locks[k][mode] \in Nat /\ thread[t].mine[k][mode] \in Nat
        BY <1>3, <3>1
      <3>5. n \in Nat /\ i \in Nat
        BY <3>2
      <3> HIDE DEF n, i
      <3>3. lk \in [Modes -> Nat] /\ mk \in [Modes -> Nat]
        BY <1>3, <3>1, <3>5
      <3> HIDE DEF lk, mk
      <3> QED BY <1>3, <3>1, <3>3
    <2> HIDE DEF locks, mine
    <2>4. /\ q \in SessionState /\ q.locks = locks /\ q.txn = session[s].txn /\ q.pend = session[s].pend
          /\ q.observers = session[s].observers /\ q.inbox = session[s].inbox
          /\ r \in ThreadState /\ r.code = Rest(t) /\ r.mine = mine /\ r.tops = thread[t].tops
          /\ r.session = s /\ r.listening = thread[t].listening /\ r.due = thread[t].due
      BY <1>3, <2>3 DEF SessionState, ThreadState
    <2> HIDE DEF q, r
    <2>5. /\ session' \in [Session -> SessionState] /\ session'[s] = q
          /\ \A p \in Session \ {s} : session'[p] = session[p]
          /\ thread' \in [Thread -> ThreadState] /\ thread'[t] = r
          /\ \A u \in Thread \ {t} : thread'[u] = thread[u]
      BY <1>3, <2>1, <2>2, <2>4, Replaced
    <2>6. TypeOK'
      BY <1>2, <2>5, TypeParts, AllKept
    <2>7. \E kk \in LockId, mm \in Modes :
            /\ LockBlockers(s, kk, mm) = {}
            /\ session'[s].locks = [session[s].locks EXCEPT ![kk] =
                 [session[s].locks[kk] EXCEPT ![mm] = session[s].locks[kk][mm] + 1]]
            /\ thread'[t].mine = [thread[t].mine EXCEPT ![kk] =
                 [thread[t].mine[kk] EXCEPT ![mm] = thread[t].mine[kk][mm] + 1]]
      <3>1. /\ session'[s].locks = [session[s].locks EXCEPT ![k] =
                 [session[s].locks[k] EXCEPT ![mode] = session[s].locks[k][mode] + 1]]
            /\ thread'[t].mine = [thread[t].mine EXCEPT ![k] =
                 [thread[t].mine[k] EXCEPT ![mode] = thread[t].mine[k][mode] + 1]]
        BY <2>4, <2>5, Zenon DEF locks, mine
      <3> QED BY <1>3, <1>4, <3>1, Zenon
    <2> QED BY <1>1, <1>2, <1>3, <2>4, <2>5, <2>6, <2>7, Zenon
  <1>5. CASE LockBlockers(s, k, mode) # {}
    <2>1. Done(t) /\ session' = session
      BY <1>5, Zenon DEF AdvisoryLock
    <2>2. /\ thread' \in [Thread -> ThreadState] /\ KeepsThreads(t)
          /\ thread'[t].code = Rest(t) /\ thread'[t].tops = thread[t].tops
      BY <1>3, <2>1, DoneKeeps
    <2>3. TypeOK' /\ Quiet(t)
      BY <1>2, <2>1, <2>2, TypeParts, AllKept DEF Quiet
    <2>4. \A u \in Thread \ {t} : thread'[u] = thread[u]
      BY <2>1 DEF Done, TypeOK
    <2>5. /\ thread'[t].session = s /\ thread'[t].listening = thread[t].listening
          /\ thread'[t].due = thread[t].due
      BY <2>2 DEF KeepsThreads
    <2>6. \A q \in Session : session'[q] = session[q]
      BY <2>1
    <2> QED BY <1>1, <1>2, <1>3, <2>1, <2>2, <2>3, <2>4, <2>5, <2>6, Zenon
  <1> QED BY <1>4, <1>5

\* A lock is given back, if it was held.
Returned(t, s, k, mode) ==
  /\ session'[s].locks = [session[s].locks EXCEPT ![k] =
       [session[s].locks[k] EXCEPT ![mode] =
         IF session[s].locks[k][mode] = 0 THEN 0 ELSE session[s].locks[k][mode] - 1]]
  /\ thread'[t].mine = [thread[t].mine EXCEPT ![k] =
       [thread[t].mine[k] EXCEPT ![mode] =
         IF thread[t].mine[k][mode] = 0 THEN 0 ELSE thread[t].mine[k][mode] - 1]]

LEMMA UnlockEffect ==
  ASSUME TypeOK, CallInv, NEW t \in Thread, AdvisoryUnlock(t), NEW s, s = thread[t].session
  PROVE  /\ TypeOK' /\ client' = client /\ db' = db /\ menu' = menu /\ s \in Session
         /\ First(t, "unlock")
         /\ thread'[t].code = Rest(t) /\ thread'[t].tops = thread[t].tops
         /\ thread'[t].session = s /\ thread'[t].listening = thread[t].listening
         /\ thread'[t].due = thread[t].due
         /\ \A u \in Thread \ {t} : thread'[u] = thread[u]
         /\ \A q \in Session \ {s} : session'[q] = session[q]
         /\ session'[s].txn = session[s].txn /\ session'[s].pend = session[s].pend
         /\ session'[s].observers = session[s].observers /\ session'[s].inbox = session[s].inbox
         /\ \E k \in LockId, mode \in Modes : Returned(t, s, k, mode)
  <1> DEFINE k == Arg(t)
             mode == Head(thread[t].code)[3]
  <1>1. First(t, "unlock")
    BY Zenon DEF AdvisoryUnlock, Runs
  <1>2. UNCHANGED <<client, db, bounds>> /\ client' = client /\ db' = db /\ menu' = menu
    BY Zenon DEF AdvisoryUnlock, bounds
  <1>3. /\ thread[t] \in ThreadState /\ s \in Session /\ session[s] \in SessionState
        /\ k \in LockId /\ mode \in Modes /\ Rest(t) \in Seq(Steps)
    BY <1>1, StateTypes, FirstStep, StepSession, StepArguments DEF Arg, ScopeKinds, SqlSteps
  <1> DEFINE n == IF session[s].locks[k][mode] = 0 THEN 0 ELSE session[s].locks[k][mode] - 1
             lk == [session[s].locks[k] EXCEPT ![mode] = n]
             locks == [session[s].locks EXCEPT ![k] = lk]
             i == IF thread[t].mine[k][mode] = 0 THEN 0 ELSE thread[t].mine[k][mode] - 1
             mk == [thread[t].mine[k] EXCEPT ![mode] = i]
             mine == [thread[t].mine EXCEPT ![k] = mk]
             q == [session[s] EXCEPT !.locks = locks]
             r == [thread[t] EXCEPT !.code = Rest(t), !.mine = mine]
  <1>4. session' = [session EXCEPT ![s] = q]
    <2>1. session' = [session EXCEPT ![s].locks[k][mode] = IF @ = 0 THEN 0 ELSE @ - 1]
      BY Zenon DEF AdvisoryUnlock
    <2> HIDE DEF k, mode
    <2> QED BY <2>1
  <1>5. thread' = [thread EXCEPT ![t] = r]
    <2>1. thread' = [thread EXCEPT ![t].code = Rest(t), ![t].mine[k][mode] = IF @ = 0 THEN 0 ELSE @ - 1]
      BY Zenon DEF AdvisoryUnlock
    <2> HIDE DEF k, mode
    <2> QED BY <2>1
  <1> HIDE DEF k, mode
  <1>6. locks \in [LockId -> [Modes -> Nat]] /\ mine \in [LockId -> [Modes -> Nat]]
    <2>1. /\ session[s].locks \in [LockId -> [Modes -> Nat]]
          /\ thread[t].mine \in [LockId -> [Modes -> Nat]]
      BY <1>3 DEF SessionState, ThreadState
    <2>2. session[s].locks[k][mode] \in Nat /\ thread[t].mine[k][mode] \in Nat
      BY <1>3, <2>1
    <2>3. n \in Nat /\ i \in Nat
      BY <2>2
    <2> HIDE DEF n, i
    <2>4. lk \in [Modes -> Nat] /\ mk \in [Modes -> Nat]
      BY <1>3, <2>1, <2>3
    <2> HIDE DEF lk, mk
    <2> QED BY <1>3, <2>1, <2>4
  <1> HIDE DEF locks, mine
  <1>7. /\ q \in SessionState /\ q.locks = locks /\ q.txn = session[s].txn /\ q.pend = session[s].pend
        /\ q.observers = session[s].observers /\ q.inbox = session[s].inbox
        /\ r \in ThreadState /\ r.code = Rest(t) /\ r.mine = mine /\ r.tops = thread[t].tops
        /\ r.session = s /\ r.listening = thread[t].listening /\ r.due = thread[t].due
    BY <1>3, <1>6 DEF SessionState, ThreadState
  <1> HIDE DEF q, r
  <1>8. /\ session' \in [Session -> SessionState] /\ session'[s] = q
        /\ \A p \in Session \ {s} : session'[p] = session[p]
        /\ thread' \in [Thread -> ThreadState] /\ thread'[t] = r
        /\ \A u \in Thread \ {t} : thread'[u] = thread[u]
    BY <1>3, <1>4, <1>5, <1>7, Replaced
  <1>9. TypeOK'
    BY <1>2, <1>8, TypeParts, AllKept
  <1>10. session'[s].locks = locks /\ thread'[t].mine = mine
    BY <1>7, <1>8
  <1>11. Returned(t, s, k, mode)
    BY <1>10, Zenon DEF Returned, locks, lk, n, mine, mk, i
  <1> QED BY <1>1, <1>2, <1>3, <1>7, <1>8, <1>9, <1>11, Zenon

\* What listen and unlisten do to the observers of the session and to what the
\* thread has to be told.
LEMMA ObserveEffect ==
  ASSUME TypeOK, CallInv, NEW t \in Thread, Observe(t), NEW s, s = thread[t].session
  PROVE  /\ TypeOK' /\ client' = client /\ db' = db /\ menu' = menu /\ s \in Session /\ Arg(t) \in Obj
         /\ \E k \in {"observe", "delete", "listening", "quiet"} :
              /\ First(t, k)
              /\ session'[s].observers =
                   IF k = "observe" THEN [session[s].observers EXCEPT ![Arg(t)] = "live"]
                   ELSE IF k = "delete" THEN [session[s].observers EXCEPT ![Arg(t)] = "deleted"]
                   ELSE session[s].observers
              /\ thread'[t].listening = IF k = "listening" THEN thread[t].listening \cup {Arg(t)}
                                        ELSE IF k = "quiet" THEN thread[t].listening \ {Arg(t)}
                                        ELSE thread[t].listening
              /\ thread'[t].due = IF k = "quiet" THEN thread[t].due \ {Arg(t)} ELSE thread[t].due
         /\ thread'[t].code = Rest(t) /\ thread'[t].tops = thread[t].tops
         /\ thread'[t].session = s /\ thread'[t].mine = thread[t].mine
         /\ \A u \in Thread \ {t} : thread'[u] = thread[u]
         /\ \A q \in Session \ {s} : session'[q] = session[q]
         /\ session'[s].txn = session[s].txn /\ session'[s].pend = session[s].pend
         /\ session'[s].locks = session[s].locks /\ session'[s].inbox = session[s].inbox
  <1> DEFINE o == Arg(t)
             Obs(k) == IF k = "observe" THEN [session[s].observers EXCEPT ![o] = "live"]
                       ELSE IF k = "delete" THEN [session[s].observers EXCEPT ![o] = "deleted"]
                       ELSE session[s].observers
             Lis(k) == IF k = "listening" THEN thread[t].listening \cup {o}
                       ELSE IF k = "quiet" THEN thread[t].listening \ {o} ELSE thread[t].listening
             Due(k) == IF k = "quiet" THEN thread[t].due \ {o} ELSE thread[t].due
             q(k) == [session[s] EXCEPT !.observers = Obs(k)]
             r(k) == [thread[t] EXCEPT !.code = Rest(t), !.listening = Lis(k), !.due = Due(k)]
  <1>1. UNCHANGED <<client, db, bounds>> /\ client' = client /\ db' = db /\ menu' = menu
    BY Zenon DEF Observe, bounds
  <1>2. ASSUME NEW k \in {"observe", "delete", "listening", "quiet"}, First(t, k)
        PROVE  /\ thread[t] \in ThreadState /\ s \in Session /\ session[s] \in SessionState
               /\ o \in Obj /\ Rest(t) \in Seq(Steps)
    BY <1>2, StateTypes, FirstStep, StepSession, StepArguments DEF Arg, ScopeKinds, ObjKinds
  <1>3. PICK k \in {"observe", "delete", "listening", "quiet"} :
          /\ First(t, k) /\ session' = [session EXCEPT ![s] = q(k)] /\ thread' = [thread EXCEPT ![t] = r(k)]
    <2>1. CASE First(t, "observe") /\ session' = [session EXCEPT ![s].observers[o] = "live"] /\ Done(t)
      <3>1. session' = [session EXCEPT ![s] = q("observe")]
        <4> HIDE DEF o
        <4> QED BY <2>1
      <3>2. thread' = [thread EXCEPT ![t] = r("observe")]
        <4>1. [thread[t] EXCEPT !.code = Rest(t)] = r("observe")
          BY <1>2, <2>1 DEF ThreadState
        <4>2. thread' = [thread EXCEPT ![t] = [thread[t] EXCEPT !.code = Rest(t)]]
          BY <2>1 DEF Done
        <4> QED BY <4>1, <4>2, Zenon
      <3> QED BY <2>1, <3>1, <3>2, Zenon
    <2>2. CASE First(t, "delete") /\ session' = [session EXCEPT ![s].observers[o] = "deleted"] /\ Done(t)
      <3>1. session' = [session EXCEPT ![s] = q("delete")]
        <4> HIDE DEF o
        <4> QED BY <2>2
      <3>2. thread' = [thread EXCEPT ![t] = r("delete")]
        <4>1. [thread[t] EXCEPT !.code = Rest(t)] = r("delete")
          BY <1>2, <2>2 DEF ThreadState
        <4>2. thread' = [thread EXCEPT ![t] = [thread[t] EXCEPT !.code = Rest(t)]]
          BY <2>2 DEF Done
        <4> QED BY <4>1, <4>2, Zenon
      <3> QED BY <2>2, <3>1, <3>2, Zenon
    <2>3. CASE /\ First(t, "listening") /\ session' = session
               /\ thread' = [thread EXCEPT ![t].code = Rest(t), ![t].listening = @ \cup {o}]
      <3>0. /\ thread[t] \in ThreadState /\ s \in Session /\ session[s] \in SessionState /\ o \in Obj
        BY <1>2, <2>3
      <3> HIDE DEF o
      <3>1. session' = [session EXCEPT ![s] = q("listening")]
        BY <2>3, <3>0 DEF SessionState, TypeOK
      <3>2. thread' = [thread EXCEPT ![t] = r("listening")]
        BY <2>3, <3>0 DEF ThreadState, TypeOK
      <3> QED BY <2>3, <3>1, <3>2, Zenon
    <2>4. CASE /\ First(t, "quiet") /\ session' = session
               /\ thread' = [thread EXCEPT ![t].code = Rest(t), ![t].listening = @ \ {o}, ![t].due = @ \ {o}]
      <3>0. /\ thread[t] \in ThreadState /\ s \in Session /\ session[s] \in SessionState /\ o \in Obj
        BY <1>2, <2>4
      <3> HIDE DEF o
      <3>1. session' = [session EXCEPT ![s] = q("quiet")]
        BY <2>4, <3>0 DEF SessionState, TypeOK
      <3>2. thread' = [thread EXCEPT ![t] = r("quiet")]
        BY <2>4, <3>0 DEF ThreadState, TypeOK
      <3> QED BY <2>4, <3>1, <3>2, Zenon
    <2> QED BY <2>1, <2>2, <2>3, <2>4, Zenon DEF Observe
  <1>4. /\ thread[t] \in ThreadState /\ s \in Session /\ session[s] \in SessionState
        /\ o \in Obj /\ Rest(t) \in Seq(Steps) /\ First(t, k)
    BY <1>2, <1>3
  <1>5. /\ session' = [session EXCEPT ![s] = q(k)] /\ thread' = [thread EXCEPT ![t] = r(k)]
    BY <1>3
  <1> HIDE DEF o
  <1> DEFINE qk == q(k)
             rk == r(k)
             obs == Obs(k)
             lis == Lis(k)
             due == Due(k)
  <1>6. /\ obs \in [Obj -> {"none", "live", "deleted"}] /\ lis \in SUBSET Obj /\ due \in SUBSET Obj
    BY <1>4 DEF SessionState, ThreadState
  <1>7. /\ qk = [session[s] EXCEPT !.observers = obs]
        /\ rk = [thread[t] EXCEPT !.code = Rest(t), !.listening = lis, !.due = due]
    BY Zenon
  <1> HIDE DEF qk, rk, obs, lis, due
  <1>8. /\ qk \in SessionState /\ qk.observers = obs /\ qk.txn = session[s].txn /\ qk.pend = session[s].pend
        /\ qk.locks = session[s].locks /\ qk.inbox = session[s].inbox
        /\ rk \in ThreadState /\ rk.code = Rest(t) /\ rk.mine = thread[t].mine /\ rk.tops = thread[t].tops
        /\ rk.session = s /\ rk.listening = lis /\ rk.due = due
    BY <1>4, <1>6, <1>7 DEF SessionState, ThreadState
  <1>9. /\ session' = [session EXCEPT ![s] = qk] /\ thread' = [thread EXCEPT ![t] = rk]
    BY <1>5, Zenon DEF qk, rk
  <1>10. /\ session' \in [Session -> SessionState] /\ session'[s] = qk
         /\ \A p \in Session \ {s} : session'[p] = session[p]
         /\ thread' \in [Thread -> ThreadState] /\ thread'[t] = rk
         /\ \A u \in Thread \ {t} : thread'[u] = thread[u]
    BY <1>4, <1>8, <1>9, Replaced
  <1>11. TypeOK'
    BY <1>1, <1>10, TypeParts, AllKept
  <1>12. session'[s].observers = Obs(k) /\ thread'[t].listening = Lis(k) /\ thread'[t].due = Due(k)
    BY <1>8, <1>10, Zenon DEF obs, lis, due
  <1> QED BY <1>1, <1>4, <1>8, <1>10, <1>11, <1>12, Zenon DEF o

LEMMA NotifsEffect ==
  ASSUME TypeOK, CallInv, NEW t \in Thread, GetNotifs(t), NEW s, s = thread[t].session
  PROVE  /\ TypeOK' /\ client' = client /\ db' = db /\ menu' = menu /\ s \in Session
         /\ First(t, "poll") \/ First(t, "wait")
         /\ thread'[t].code = Rest(t) \/ thread'[t].code = thread[t].code
         /\ thread'[t].tops = thread[t].tops /\ thread'[t].session = s
         /\ thread'[t].mine = thread[t].mine /\ thread'[t].listening = thread[t].listening
         /\ thread'[t].due = thread[t].due \ {o \in session[s].inbox : session[s].observers[o] = "live"}
         /\ \A u \in Thread \ {t} : thread'[u] = thread[u]
         /\ \A q \in Session \ {s} : session'[q] = session[q]
         /\ session'[s].txn = session[s].txn /\ session'[s].pend = session[s].pend
         /\ session'[s].locks = session[s].locks /\ session'[s].observers = session[s].observers
  <1> DEFINE due == thread[t].due \ {o \in session[s].inbox : session[s].observers[o] = "live"}
             signalled == {o \in session[s].inbox : session[s].observers[o] = "live"}
             code == IF First(t, "wait") /\ Arg(t) \notin signalled THEN thread[t].code ELSE Rest(t)
             q == [session[s] EXCEPT !.inbox = {}]
             r == [thread[t] EXCEPT !.due = due, !.code = code]
  <1>1. First(t, "poll") \/ First(t, "wait")
    BY Zenon DEF GetNotifs
  <1>2. UNCHANGED <<client, db, bounds>> /\ client' = client /\ db' = db /\ menu' = menu
    BY Zenon DEF GetNotifs, bounds
  <1>3. /\ thread[t] \in ThreadState /\ s \in Session /\ session[s] \in SessionState
        /\ Rest(t) \in Seq(Steps) /\ thread[t].code \in Seq(Steps)
    BY <1>1, StateTypes, FirstStep, StepSession
  <1>4. session' = [session EXCEPT ![s] = q]
    BY DEF GetNotifs
  <1>5. thread' = [thread EXCEPT ![t] = r]
    <2>1. thread' = [thread EXCEPT ![t].due = @ \ signalled, ![t].code =
                       IF First(t, "wait") /\ Arg(t) \notin signalled THEN @ ELSE Rest(t)]
      BY Zenon DEF GetNotifs
    <2> HIDE DEF signalled
    <2>2. due = thread[t].due \ signalled
      BY DEF signalled
    <2> HIDE DEF due
    <2> QED BY <2>1, <2>2
  <1>6. /\ due \in SUBSET Obj /\ code \in Seq(Steps)
        /\ code = Rest(t) \/ code = thread[t].code
    BY <1>3 DEF ThreadState
  <1> HIDE DEF due, code
  <1>7. /\ q \in SessionState /\ q.locks = session[s].locks /\ q.txn = session[s].txn
        /\ q.pend = session[s].pend /\ q.observers = session[s].observers
        /\ r \in ThreadState /\ r.code = code /\ r.mine = thread[t].mine /\ r.tops = thread[t].tops
        /\ r.session = s /\ r.listening = thread[t].listening /\ r.due = due
    BY <1>3, <1>6 DEF SessionState, ThreadState
  <1> HIDE DEF q, r
  <1>8. /\ session' \in [Session -> SessionState] /\ session'[s] = q
        /\ \A p \in Session \ {s} : session'[p] = session[p]
        /\ thread' \in [Thread -> ThreadState] /\ thread'[t] = r
        /\ \A u \in Thread \ {t} : thread'[u] = thread[u]
    BY <1>3, <1>4, <1>5, <1>7, Replaced
  <1>9. TypeOK'
    BY <1>2, <1>8, TypeParts, AllKept
  <1> QED BY <1>1, <1>2, <1>3, <1>6, <1>7, <1>8, <1>9 DEF due

LEMMA FailsEffect ==
  ASSUME TypeOK, CallInv, NEW t \in Thread, StatementFails(t)
  PROVE  LET s == thread[t].session IN
         /\ TypeOK' /\ Quiet(t) /\ s \in Session /\ \E k \in SqlSteps : First(t, k)
         /\ thread'[t].code = <<>> /\ thread'[t].tops = <<>>
         /\ session'[s].pend = <<>>
         /\ session'[s].txn = Unwound(session[s].txn, thread[t].tops, Contains(thread[t].code, <<"abandon">>))
         /\ client'[ClientOf[t]].cs = IF client[ClientOf[t]].cs = t THEN None ELSE client[ClientOf[t]].cs
  <1> DEFINE s == thread[t].session
             c == ClientOf[t]
             txn == Unwound(session[s].txn, thread[t].tops, Contains(thread[t].code, <<"abandon">>))
             cs == IF client[c].cs = t THEN None ELSE client[c].cs
             r == [thread[t] EXCEPT !.code = <<>>, !.tops = <<>>]
             q == [session[s] EXCEPT !.txn = txn, !.pend = <<>>]
             d == [client[c] EXCEPT !.cs = cs]
  <1>1. PICK k \in SqlSteps : First(t, k)
    BY Zenon DEF StatementFails
  <1>2. /\ thread[t] \in ThreadState /\ s \in Session /\ session[s] \in SessionState
        /\ c \in Client /\ client[c] \in ClientState
    BY <1>1, StateTypes, StepSession DEF ScopeKinds
  <1>3. session' = [session EXCEPT ![s] = q]
    BY Zenon DEF StatementFails
  <1>4. client' = [client EXCEPT ![c] = d]
    BY Zenon DEF StatementFails
  <1>5. thread' = [thread EXCEPT ![t] = r] /\ db' = db /\ menu' = menu /\ calls' = calls
    BY Zenon DEF StatementFails
  <1>6. faults' \in Nat
    <2>1. faults' = faults \/ faults' = faults + 1
      BY Zenon DEF StatementFails
    <2> QED BY <2>1 DEF TypeOK
  <1>7. txn \in {"none", "open", "failed", "aborted"} /\ cs \in Thread \cup {None}
    BY <1>2 DEF Unwound, SessionState, ClientState
  <1> HIDE DEF txn, cs
  <1>8. /\ r \in ThreadState /\ r.session = thread[t].session /\ r.mine = thread[t].mine
        /\ r.listening = thread[t].listening /\ r.due = thread[t].due /\ r.code = <<>> /\ r.tops = <<>>
        /\ q \in SessionState /\ q.txn = txn /\ q.pend = <<>> /\ q.locks = session[s].locks
        /\ q.observers = session[s].observers /\ q.inbox = session[s].inbox
        /\ d \in ClientState /\ d.pool = client[c].pool /\ d.dead = client[c].dead /\ d.cs = cs
    BY <1>2, <1>7, EmptySeq DEF ThreadState, SessionState, ClientState
  <1>9. d.cs # client[c].cs => client[c].cs \in {None, t} /\ d.cs \in {None, t}
    BY <1>8 DEF cs
  <1> HIDE DEF r, q, d
  <1>10. thread' \in [Thread -> ThreadState] /\ KeepsThreads(t) /\ thread'[t] = r
    BY <1>5, <1>8, ThreadKept
  <1>11. session' \in [Session -> SessionState] /\ KeepsSessions(t) /\ session'[s] = q
    BY <1>2, <1>3, <1>8, SessionKept
  <1>12. client' \in [Client -> ClientState] /\ KeepsClients(t) /\ client'[ClientOf[t]] = d
    BY <1>2, <1>4, <1>8, <1>9, ClientKept
  <1>13. TypeOK'
    BY <1>5, <1>6, <1>10, <1>11, <1>12 DEF TypeOK
  <1> QED BY <1>1, <1>2, <1>5, <1>8, <1>10, <1>11, <1>12, <1>13 DEF Quiet, txn, cs
===============================================================================
