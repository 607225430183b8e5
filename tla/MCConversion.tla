----------------------------- MODULE MCConversion -----------------------------
(***************************************************************************)
(* Convert, ObjectRows and WString for TLC, side by side: a behaviour is   *)
(* the walk over one native database of a few objects, or one object       *)
(* written to its row and read back, or two strings under the operations   *)
(* of their class.  The three share no state.                              *)
(***************************************************************************)
EXTENDS ClassLayouts, Convert, WString, TLC

CONSTANTS n1, n2

-----------------------------------------------------------------------------
(* Classes with every kind of field, and for each class all objects over   *)
(* small sets of values.                                                   *)

L(type, size, n) == [type |-> type, size |-> size, n |-> n]
F(name, layout) == [name |-> name, dbs |-> layout, loc |-> layout, binary |-> FALSE,
                    comps |-> <<>>]
B(name, layout) == [F(name, layout) EXCEPT !.binary = TRUE]
St(name, fields) == [F(name, L("struct", 0, 1)) EXCEPT !.comps = fields]
C(name, from, to) == [F(name, from) EXCEPT !.loc = to]
Class(base, fields) == [base |-> base, attr |-> "none", fields |-> fields,
                        text |-> FALSE, refs |-> FALSE]

ItemFields == <<F("code", L("string", 2, 1)), F("owner", L("ref", 8, 1)),
                F("flags", L("uint", 4, 1))>>
CargoFields == <<St("Item", ItemFields), St("dims", <<F("x", L("real", 8, 1)), F("y", L("real", 4, 1))>>),
                 F("status", L("int", 1, 1))>>

MCClasses ==
  [Item |-> Class("object", ItemFields),
   Cargo |-> Class("Item", CargoFields),
   \* repeats the name of a field of its base class
   Hazard |-> Class("Cargo", <<St("Cargo", CargoFields), F("code", L("string", 2, 1)),
                               F("total", L("int", 8, 1))>>),
   \* the two super roots of the program: one below object, one that adds no field
   Tree |-> [Class("object", <<F("root", L("ref", 8, 1))>>) EXCEPT !.attr = "superRoot"],
   Leaf |-> Class("Tree", <<St("Tree", <<F("root", L("ref", 8, 1))>>),
                            F("n", L("int", 2, 1))>>),
   Index |-> [Class("Item", <<St("Item", ItemFields)>>) EXCEPT !.attr = "superRoot"],
   Other |-> [Class("Item", <<St("Item", ItemFields), F("other", L("int", 4, 1))>>)
                EXCEPT !.attr = "root"],
   set_member |-> [Class("object", <<F("next", L("ref", 8, 1)), F("obj", L("ref", 8, 1)),
                                     B("key", L("int", 1, 0))>>) EXCEPT !.text = TRUE],
   Note |-> Class("object", <<F("fixed", L("int", 1, 2)), F("body", L("raw", 1, 1)),
                              F("text", L("int", 1, 0))>>),
   Bytes |-> Class("object", <<F("ids", L("int", 4, 2)), F("rest", L("uint", 1, 0))>>),
   Old |-> Class("object", <<C("grown", L("int", 4, 2), L("int", 4, 3)),
                             C("shrunk", L("int", 2, 3), L("int", 2, 2)),
                             C("title", L("uint", 2, 2), L("string", 2, 1)),
             C("seal", L("int", 1, 2), L("raw", 1, 1)),
                             F("tail", L("uint", 2, 0))>>),
   References |-> [Class("object", <<>>) EXCEPT !.refs = TRUE]]

\* The packed cells of one field.
Cells(l) ==
  CASE l.type = "string" -> {<<NullLen>>, <<0>>, <<2, 1, 3>>, <<2, 0, 1>>}
    [] l.type = "raw" -> {<<0>>, <<2, 0, 3>>}
    [] l.type = "real" -> {<<1>>}
    [] l.type \in {"int", "uint"} /\ l.n = 1 -> {<<0>>, <<2 * Half - 1>>}
    [] l.type \in {"int", "uint"} /\ l.n = 0 -> {<<>>, <<0>>, <<3>>, <<3, 0>>, <<1, 0, 2>>}
    [] l.type \in {"int", "uint"} /\ l.n > 1 -> {[i \in 1..l.n |-> i], [i \in 1..l.n |-> l.n - i]}

\* What the fields of an object may hold, one after the other.
RECURSIVE Values(_)
Values(ls) ==
  IF ls = <<>> THEN {<<>>}
  ELSE {<<v>> \o vals : v \in IF ls[1].dbs.type = "ref" THEN {0, 7} ELSE Cells(ls[1].dbs),
                        vals \in Values(Tail(ls))}

MCInstances ==
  [name \in DOMAIN Classes |->
     IF Classes[name].refs THEN {<<>>, <<7>>, <<7, 0, 8>>} ELSE Values(ClassLeaves[name])]

\* An object about to be written; the walk stands still.
ObjectsInit ==
  /\ RowsInit
  /\ kind = [o \in Oid |-> "plain"] /\ refs = <<>> /\ chains = <<>> /\ unread = {}
  /\ queue = <<>> /\ bitmap = {} /\ maxOpid = 0 /\ classes = {} /\ rootClass = <<>>
  /\ rows = <<>> /\ entries = <<>> /\ files = {} /\ nextOid = 0 /\ phase = "idle"
  /\ StringInit

-----------------------------------------------------------------------------
(* Every native database of a few objects.                                 *)

MCName == {n1, n2}
Names == Permutations(MCName)
ShortSeq(S, n) == UNION {[1..k -> S] : k \in 0..n}

\* The root has two references, every other object one.
MCRefs == {f \in [Oid -> ShortSeq(Oid \cup {0}, 2)] :
             \A o \in Oid : Len(f[o]) = IF o = Root THEN 2 ELSE 1}

\* A native database about to be walked; no object is written.
WalkInit ==
  /\ kind \in {k \in [Oid -> Kinds] : k[Root] \in {"plain", "dictionary"}}
  /\ refs \in {f \in MCRefs : \A o \in Oid : kind[o] # "plain" => \A i \in DOMAIN f[o] : f[o][i] = 0}
  /\ chains \in {f \in [Oid -> ShortSeq({<<a>> : a \in Item}, 1)] :
                   \A o \in Oid : kind[o] # "dictionary" => f[o] = <<>>}
                \cup {[o \in Oid |-> IF o = d THEN <<<<a, b>>>> ELSE <<>>] :
                       d \in {o \in Oid : kind[o] = "dictionary"}, a \in Item, b \in Item}
  /\ unread \in {{}} \cup {{o} : o \in Oid}
  /\ ConvertInit /\ StringInit
  /\ cls = CHOOSE name \in DOMAIN Classes : TRUE
  /\ obj = <<>> /\ row = <<>> /\ left = 0 /\ got = <<>> /\ again = <<>> /\ pc = "idle"

-----------------------------------------------------------------------------

\* Nothing but the strings.
TextInit ==
  /\ kind = [o \in Oid |-> "plain"] /\ refs = <<>> /\ chains = <<>> /\ unread = {}
  /\ queue = <<>> /\ bitmap = {} /\ maxOpid = 0 /\ classes = {} /\ rootClass = <<>>
  /\ rows = <<>> /\ entries = <<>> /\ files = {} /\ nextOid = 0 /\ phase = "text"
  /\ cls = CHOOSE name \in DOMAIN Classes : TRUE
  /\ obj = <<>> /\ row = <<>> /\ left = 0 /\ got = <<>> /\ again = <<>> /\ pc = "idle"
  /\ StringInit

MCInit == ObjectsInit \/ WalkInit \/ TextInit

MCNext ==
  \/ Write /\ UNCHANGED <<convertVars, stringVars>>
  \/ Evolve /\ UNCHANGED <<convertVars, stringVars>>
  \/ Read /\ UNCHANGED <<convertVars, stringVars>>
  \/ /\ \E o \in Oid : \/ ConvertFails(o) \/ ConvertBlob(o) \/ SkipNonRelational(o)
                       \/ ConvertDictionary(o) \/ ConvertObject(o)
     /\ UNCHANGED <<vars, stringVars>>
  \/ Finish /\ UNCHANGED <<vars, stringVars>>
  \/ Assign /\ phase = "text" /\ UNCHANGED <<vars, convertVars>>
  \/ Copy /\ phase = "text" /\ UNCHANGED <<vars, convertVars>>

Spec == MCInit /\ [][MCNext]_<<vars, convertVars, stringVars>>
=============================================================================
