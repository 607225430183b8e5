----------------------------- MODULE ClassLayouts -----------------------------
(***************************************************************************)
(* The class descriptors from which pgsql_storage                          *)
(* (src/goods-diff/pgsql_storage.cxx) learns what to store: the fields of  *)
(* an object without the structures around them, and the tables and        *)
(* columns that open makes.  A field is [name, dbs, loc, binary, comps],   *)
(* where comps are the fields of a structure; dbs, loc and binary are      *)
(* those of ObjectRows.                                                    *)
(***************************************************************************)
EXTENDS ObjectRows

CONSTANT
  Classes   \* the class descriptors of the program, by name: [base, attr, fields,
            \* text (is_text_set_member), refs (n_varying_references # 0)]

-----------------------------------------------------------------------------
(* Fields                                                                  *)

\* The walk of get_columns, unpack_struct and get_table_columns: the fields
\* that are not structures, with their dotted names.  The first field of a
\* derived class is its base class, which adds nothing to the name.
RECURSIVE Leaves(_, _, _)
Leaves(prefix, fields, depth) ==
  FlattenSeq([i \in DOMAIN fields |->
    LET f == fields[i] IN
    IF f.loc.type = "struct"
    THEN Leaves(IF i = 1 /\ depth > 1 THEN prefix ELSE Append(prefix, f.name),
                f.comps, IF i = 1 /\ depth > 0 THEN depth - 1 ELSE 0)
    ELSE <<[name |-> Append(prefix, f.name), dbs |-> f.dbs, loc |-> f.loc,
            binary |-> f.binary]>>])

Object == "object"   \* object::self_class, the base of all classes

\* get_inheritance_depth.
RECURSIVE Depth(_)
Depth(name) == IF name = Object THEN 0 ELSE 1 + Depth(Classes[name].base)

ClassLeaves == [name \in DOMAIN Classes |-> Leaves(<<>>, Classes[name].fields, Depth(name))]

\* What the conversion of rows needs to know of each class.
ClassLayout ==
  [name \in DOMAIN Classes |->
     [leaves |-> ClassLeaves[name], text |-> Classes[name].text, refs |-> Classes[name].refs]]

\* Variant: a class under a super root shares the table of that root.
RECURSIVE GetRootClassOfAll(_)
GetRootClassOfAll(name) ==
  LET c == Classes[name] IN
  IF c.base = Object \/ c.attr = "root" THEN name ELSE GetRootClassOfAll(c.base)

\* get_root_class: the class whose table holds the objects of class name.
RECURSIVE GetRootClass(_)
GetRootClass(name) ==
  LET c == Classes[name] IN
  IF c.base = Object \/ c.attr = "root" THEN name
  ELSE IF Classes[c.base].attr = "superRoot" THEN name ELSE GetRootClass(c.base)

RECURSIVE Ancestors(_)
Ancestors(name) ==
  IF name = Object THEN {} ELSE {Classes[name].base} \cup Ancestors(Classes[name].base)

\* map_type.
MapType(f) ==
  LET num == CASE f.loc.size \in {1, 2} -> "int2"
               [] f.loc.size = 4 -> "int4"
               [] f.loc.size = 8 -> "int8" IN
  CASE f.loc.n = 1 /\ f.loc.type \in {"int", "uint"} -> num
    [] f.loc.n = 1 /\ f.loc.type = "string" -> "text"
    [] f.loc.n = 1 /\ f.loc.type = "ref" -> "objref"
    [] f.loc.n = 1 /\ f.loc.type = "raw" -> "bytea"
    [] f.loc.n = 1 /\ f.loc.type = "real" -> IF f.loc.size = 4 THEN "float4" ELSE "float8"
    [] f.loc.n # 1 /\ f.loc.type = "uint" /\ f.loc.size = 1 -> "bytea"
    [] f.loc.n # 1 /\ f.loc.type = "uint" /\ f.loc.size = 2 -> "text"
    [] f.loc.n # 1 /\ f.loc.type = "int" /\ f.loc.size = 1 -> "text"
    [] f.loc.n # 1 /\ f.loc.type \in {"int", "uint"} -> "_" \o num
    [] f.loc.n # 1 /\ f.loc.type = "ref" -> "objrefs"

\* get_table_columns at depth -1: what a derived class adds to its base.
AddedLeaves == [name \in DOMAIN Classes |->
  IF Classes[name].fields = <<>> THEN <<>> ELSE Leaves(<<>>, Tail(Classes[name].fields), 0)]

\* The classes whose columns open adds to the table of the class root.
DerivedInTable(root) ==
  IF Classes[root].attr = "superRoot" THEN {}
  ELSE {name \in DOMAIN Classes : /\ Classes[name].attr \notin {"superRoot", "root"}
                                  /\ root \in Ancestors(name)}

\* The types open may give the column: the first class that has it decides,
\* in the order of a hash table for the derived ones.
ColumnTypes(root, column) ==
  LET own == {i \in DOMAIN ClassLeaves[root] : ClassLeaves[root][i].name = column}
      added == {d \in DerivedInTable(root) :
                  \E i \in DOMAIN AddedLeaves[d] : AddedLeaves[d][i].name = column}
  IN IF own # {}
     THEN {MapType(ClassLeaves[root][CHOOSE i \in own : \A j \in own : i <= j])}
     ELSE UNION {{MapType(AddedLeaves[d][i]) :
                    i \in {j \in DOMAIN AddedLeaves[d] : AddedLeaves[d][j].name = column}} :
                   d \in added}

-----------------------------------------------------------------------------
(* Properties                                                              *)

\* Every column of every insert and update exists in the table of the class,
\* with the type of its field, whatever the order in which open meets the
\* classes (unless two derived classes declare it differently).
StatementsFitTables ==
  ~Classes[cls].refs =>
    \A i \in DOMAIN ClassLeaves[cls] :
      IsStored(ClassLeaves[cls], i) =>
        ColumnTypes(GetRootClass(cls), ClassLeaves[cls][i].name)
          = {MapType(ClassLeaves[cls][i])}
=============================================================================
