------------------------------ MODULE ObjectRows ------------------------------
(***************************************************************************)
(* How pgsql_storage (src/goods-diff/pgsql_storage.cxx) writes an object   *)
(* as one row and reads it back.  An object in the buffer of a transaction *)
(* is its references and, packed behind them, the values of its other      *)
(* fields; a row holds one SQL value per column.  store_struct goes from   *)
(* the first to the second, unpack_struct back.                            *)
(*                                                                         *)
(* A field is [name, dbs, loc, binary]: dbs is its layout in the buffer,   *)
(* loc the layout of the running program (the two differ for the objects   *)
(* of a converted database), each [type, size, n] with n = 0 for a varying *)
(* part and n = 1 for a scalar.  Every packed number, character or byte is *)
(* one cell, so sizes count cells; a cell holds 0 .. 2*Half-1.             *)
(***************************************************************************)
EXTENDS Integers, Sequences, SequencesExt

CONSTANTS
  Layout,    \* of each class: [leaves, text (is_text_set_member),
             \* refs (n_varying_references # 0)], leaves being its fields
  Instances, \* of each class: what the fields of its objects may hold
  Half,      \* bound: half the number of values of a cell
  NullLen    \* the length 0xFFFF, which stands for a null string

VARIABLES
  cls,     \* the class of the object
  obj,     \* the object written: [refs, bins]
  row,     \* its row: a function from column names to SQL values
  left,    \* what store_struct has not consumed
  got,     \* the object read back
  again,   \* the row that a commit of the object read back writes
  pc

vars == <<cls, obj, row, left, got, again, pc>>

-----------------------------------------------------------------------------
(* Fields and their values                                                 *)

Types  == {"int", "uint", "real", "ref", "string", "raw"}
Ints   == {"int", "uint"}
Format == [type : Types, size : Nat, n : Nat]
Field  == [name : Seq(STRING), dbs : Format, loc : Format, binary : BOOLEAN]

\* A field of a number of items, or of a varying number of them.
IsItems(l) == l.type \in Ints /\ l.n # 1

\* What the program may have made of a field of an older database: an array of
\* numbers of another length, a string of an array of characters, raw binary of an
\* array of bytes.
Fits(f) ==
  \/ f.loc = f.dbs
  \/ /\ IsItems(f.dbs) /\ IsItems(f.loc) /\ f.dbs.size # 1
     /\ f.loc.type = f.dbs.type /\ f.loc.size = f.dbs.size
  \/ IsItems(f.dbs) /\ f.dbs.type = "uint" /\ f.dbs.size = 2 /\ f.loc.type = "string" /\ f.loc.n = 1
  \/ IsItems(f.dbs) /\ f.dbs.type = "int" /\ f.dbs.size = 1 /\ f.loc.type = "raw" /\ f.loc.n = 1

\* What field f of an object holds, in the layout of the buffer.
IsValue(f, v) ==
  CASE f.dbs.type = "ref" -> v \in Nat
    [] f.dbs.type = "string" ->
         v \in Seq(Nat) /\ v # <<>> /\ (v = <<NullLen>> \/ (v[1] = Len(v) - 1 /\ v[1] < NullLen))
    [] f.dbs.type = "raw" -> v \in Seq(Nat) /\ v # <<>> /\ v[1] = Len(v) - 1
    [] f.dbs.type = "real" -> v \in Seq(Nat) /\ Len(v) = 1
    [] f.dbs.type \in Ints ->
         /\ v \in Seq(0..(2 * Half - 1))
         /\ f.dbs.n # 0 => Len(v) = f.dbs.n
         /\ f.loc.type = "string" => Len(v) < NullLen

\* A varying part is the last field; the one of a text set_member is its key, binary
\* chars; and only fields of one layout have one name.
WellFormed(ls, text) ==
  /\ ls \in Seq(Field)
  /\ \A i \in 1..Len(ls) :
       /\ Fits(ls[i])
       /\ \A l \in {ls[i].dbs, ls[i].loc} :
            /\ l.type \notin Ints => l.n = 1
            /\ l.n = 0 => /\ i = Len(ls)
                          /\ text => /\ ls[i].dbs = ls[i].loc /\ ls[i].binary
                                     /\ l.type = "int" /\ l.size = 1
       /\ \A j \in 1..Len(ls) :
            ls[i].name = ls[j].name => ls[i].loc = ls[j].loc /\ ls[i].binary = ls[j].binary

ASSUME CellAssumption == Half \in Nat \ {0} /\ NullLen \in Nat

ASSUME LayoutAssumption ==
  \A c \in DOMAIN Layout :
    LET ls == Layout[c].leaves IN
    /\ Layout[c].text \in BOOLEAN /\ Layout[c].refs \in BOOLEAN
    /\ IF Layout[c].refs THEN Instances[c] \subseteq Seq(Nat)
       ELSE /\ WellFormed(ls, Layout[c].text)
            /\ \A v \in Instances[c] :
                 /\ v = [i \in DOMAIN ls |-> v[i]]
                 /\ \A i \in DOMAIN ls : IsValue(ls[i], v[i])

\* An object in the buffer: its references, and the other values one by one.
Packed(ls, vals) ==
  LET upTo[i \in 0..Len(ls)] ==
        IF i = 0 THEN [refs |-> <<>>, bins |-> <<>>]
        ELSE IF ls[i].loc.type = "ref"
             THEN [refs |-> Append(upTo[i - 1].refs, vals[i]), bins |-> upTo[i - 1].bins]
             ELSE [refs |-> upTo[i - 1].refs, bins |-> upTo[i - 1].bins \o vals[i]]
  IN upTo[Len(ls)]

-----------------------------------------------------------------------------
(* store_struct                                                            *)

\* Variant: a duplicate field stays in the object's layout.
KeepsOffset(ls, i) == TRUE

\* get_columns: of the fields of one name, only the first is stored.
IsStored(ls, i) == \A j \in 1..(i - 1) : ls[j].name # ls[i].name

\* The columns of the statement _insert, after opid.
Columns(ls) ==
  LET first[i \in 0..Len(ls)] ==
        IF i = 0 THEN <<>>
        ELSE IF \A j \in 1..(i - 1) : ls[j].name # ls[i].name
             THEN Append(first[i - 1], ls[i].name) ELSE first[i - 1]
  IN first[Len(ls)]

Null        == <<"null">>
Signed(v)   == IF v < Half THEN v ELSE v - 2 * Half
Unsigned(v) == v % (2 * Half)

\* Variant: the padding is what the buffer happens to hold.
Rest(n) == [i \in 1..n |-> 1]

Zeros(n) == [i \in 1..n |-> 0]

\* What a C string of these cells holds.
CString(s) ==
  IF \E i \in DOMAIN s : s[i] = 0
  THEN SubSeq(s, 1, (CHOOSE i \in DOMAIN s : s[i] = 0 /\ \A j \in 1..(i - 1) : s[j] # 0) - 1)
  ELSE s

Cut(s, n) == IF Len(s) >= n THEN SubSeq(s, 1, n) ELSE s \o Zeros(n - Len(s))

\* A part of chars: text ends at its first zero, and so does the key of a text
\* set_member (is_zero_terminated).
StoreChars(f, s, text) ==
  LET val == IF f.dbs.n = 0 /\ text THEN CString(s) ELSE s IN
  IF f.binary \/ f.loc.type = "raw" THEN <<"bytes", val>> ELSE <<"text", CString(val)>>

\* store_int_array, after the array is cut or padded to the length the program
\* declares.
StoreArray(f, s) ==
  LET all == IF f.loc.n \in {0, Len(s)} THEN s ELSE Cut(s, f.loc.n)
  IN <<"array", [i \in DOMAIN all |-> Signed(all[i])]>>

\* The number of cells from at on that belong to field f.
Extent(f, bins, at, size) ==
  CASE f.dbs.type = "ref" -> 0
    [] f.dbs.type = "string" -> IF bins[at + 1] = NullLen THEN 1 ELSE 1 + bins[at + 1]
    [] f.dbs.type = "raw" -> 1 + bins[at + 1]
    [] f.dbs.type \in {"int", "uint", "real"} -> IF f.dbs.n = 0 THEN size ELSE f.dbs.n

\* unpack_string: the wide text is made narrow; without any character there is
\* no narrow text, and the assertion ends the process.
NoText == <<"no text">>
UnpackString(s) == IF CString(s) = <<>> THEN NoText ELSE <<"text", CString(s)>>

\* A field of several items, or of a varying number.
StoredItems(f, s, text) ==
  CASE f.dbs.type = "uint" /\ f.dbs.size = 1 -> <<"bytes", s>>
    [] f.dbs.type = "uint" /\ f.dbs.size = 2 /\ f.loc.type = "string" -> UnpackString(s)
    [] f.dbs.type = "int" /\ f.dbs.size = 1 -> StoreChars(f, s, text)
    [] OTHER -> StoreArray(f, s)

\* The SQL value store_struct binds for field f, which holds s.
StoredValue(f, s, text) ==
  CASE f.dbs.n # 1 -> StoredItems(f, s, text)
    [] f.dbs.type = "ref" -> <<"ref", s>>
    [] f.dbs.type = "string" -> IF s[1] = NullLen THEN Null ELSE UnpackString(Tail(s))
    [] f.dbs.type = "raw" -> <<"bytes", Tail(s)>>
    [] f.dbs.type = "real" -> <<"real", s[1]>>
    [] f.dbs.type \in Ints /\ f.dbs.n = 1 -> <<"int", Signed(s[1])>>

\* One field of store_struct: at src_refs and src_bins, size cells and references
\* before the end.
StoreField(f, stored, text, o, acc) ==
  LET isRef == f.dbs.type = "ref"
      e == Extent(f, o.bins, acc.bins, acc.size)
      value == StoredValue(f, IF isRef THEN o.refs[acc.refs + 1]
                              ELSE SubSeq(o.bins, acc.bins + 1, acc.bins + e), text)
  IN [params |-> IF stored THEN Append(acc.params, value) ELSE acc.params,
      refs |-> IF isRef THEN acc.refs + 1 ELSE acc.refs,
      bins |-> acc.bins + e,
      size |-> acc.size - (IF isRef THEN 1 ELSE e)]

\* store_struct: one pass over the fields, the references and the packed values.
StoreStruct(ls, text, o) ==
  LET upTo[i \in 0..Len(ls)] ==
        IF i = 0 THEN [params |-> <<>>, refs |-> 0, bins |-> 0, size |-> Len(o.refs) + Len(o.bins)]
        ELSE StoreField(ls[i], IsStored(ls, i), text, o, upTo[i - 1])
  IN upTo[Len(ls)]

-----------------------------------------------------------------------------
(* unpack_struct                                                           *)

\* pack_string.
PackString(s) == <<Len(s)>> \o s

\* unpack_int_array.
UnpackArray(s) == [i \in DOMAIN s |-> Unsigned(s[i])]

\* Variant: the zero that ends the key of a text set_member is not put back.
UnpackCharsBare(f, s, text) == IF f.loc.n = 0 THEN s ELSE Cut(s, f.loc.n)

UnpackChars(f, s, text) ==
  IF f.loc.n # 0 THEN Cut(s, f.loc.n)
  ELSE IF text /\ (f.binary \/ f.loc.type = "uint") THEN Append(s, 0) ELSE s

\* What field f holds after the SQL value v; col.as(x) is x for NULL.
UnpackedValue(f, v, text) ==
  CASE f.loc.type = "ref" -> IF v = Null THEN 0 ELSE v[2]
    [] f.loc.type = "string" -> IF v = Null THEN <<NullLen>> ELSE PackString(v[2])
    [] f.loc.type = "raw" -> IF v = Null THEN <<0>> ELSE PackString(v[2])
    [] f.loc.type = "real" -> IF v = Null THEN <<0>> ELSE <<v[2]>>
    [] f.loc.type \in Ints /\ f.loc.n = 1 ->
         IF v = Null THEN <<0>> ELSE <<Unsigned(v[2])>>
    [] f.loc.type \in Ints /\ f.loc.n # 1 /\ f.loc.size = 1 ->
         UnpackChars(f, IF v = Null THEN <<>> ELSE v[2], text)
    [] OTHER -> UnpackArray(v[2])

\* unpack_struct: every field is read from the column of its name.
UnpackStruct(ls, text, r) ==
  Packed(ls, [i \in DOMAIN ls |-> UnpackedValue(ls[i], r[ls[i].name], text)])

-----------------------------------------------------------------------------
(* Objects of a varying number of references                               *)

\* store_array_of_references: the number and the array.
StoreReferences(o) ==
  [params |-> <<<<"int", o.bins[1]>>, <<"refs", SubSeq(o.refs, 1, o.bins[1])>>>>,
   refs |-> <<>>, bins |-> <<>>, size |-> 0]

\* unpack_array_of_reference: the number is counted from the array.
UnpackReferences(r) ==
  [refs |-> r[<<"array">>][2], bins |-> <<Len(r[<<"array">>][2])>>]

-----------------------------------------------------------------------------
(* The life of an object: written, read back, written again                *)

\* The layout of the running program in place of that of the buffer.
Current(ls) == [i \in DOMAIN ls |-> [ls[i] EXCEPT !.dbs = ls[i].loc]]

Store(ls, o) ==
  IF Layout[cls].refs THEN StoreReferences(o) ELSE StoreStruct(ls, Layout[cls].text, o)

ColumnNames(ls) == IF Layout[cls].refs THEN <<<<"length">>, <<"array">>>> ELSE Columns(ls)

\* The row that a statement writes: its values by position.
RowOf(names, params) ==
  [name \in {names[i] : i \in DOMAIN names} |->
     params[CHOOSE i \in DOMAIN names : names[i] = name]]

IsArray(f) == IsItems(f.loc) /\ f.loc.size # 1

\* The objects of a class.
ObjectsOf(c) ==
  IF Layout[c].refs THEN {[refs |-> s, bins |-> <<Len(s)>>] : s \in Instances[c]}
  ELSE {Packed(Layout[c].leaves, v) : v \in Instances[c]}

RowsInit ==
  /\ cls \in DOMAIN Layout /\ obj \in ObjectsOf(cls)
  /\ row = <<>> /\ left = 0 /\ got = <<>> /\ again = <<>> /\ pc = "write"

\* commit_coordinator_transaction writes the object; a statement with too few
\* or too many values fails.
Write ==
  /\ pc = "write"
  /\ LET ls == Layout[cls].leaves
         s == Store(ls, obj) IN
       IF \E i \in DOMAIN s.params : s.params[i] = NoText
       THEN pc' = "aborted" /\ UNCHANGED <<row, left>>
       ELSE IF Len(s.params) = Len(ColumnNames(ls))
       THEN row' = RowOf(ColumnNames(ls), s.params) /\ left' = s.size /\ pc' = "read"
       ELSE pc' = "failed" /\ UNCHANGED <<row, left>>
  /\ UNCHANGED <<cls, obj, got, again>>

\* open adds a column that the row was written without (alter table).
Evolve ==
  /\ pc = "read" /\ ~Layout[cls].refs
  /\ \E name \in DOMAIN row : row[name] # Null /\ row' = [row EXCEPT ![name] = Null]
  /\ pc' = "evolved"
  /\ UNCHANGED <<cls, obj, left, got, again>>

\* unpack_int_array refuses a value that is no array, or not of the declared length.
Refused(ls) ==
  \E i \in DOMAIN ls :
    /\ IsArray(ls[i])
    /\ \/ row[ls[i].name] = Null
       \/ ls[i].loc.n \notin {0, Len(row[ls[i].name][2])}

\* unpack_object, and the commit that writes the object unchanged.
Read ==
  /\ pc \in {"read", "evolved"}
  /\ LET ls == Layout[cls].leaves
         o == IF Layout[cls].refs THEN UnpackReferences(row)
              ELSE UnpackStruct(ls, Layout[cls].text, row) IN
       IF ~Layout[cls].refs /\ Refused(ls)
       THEN pc' = "aborted" /\ UNCHANGED <<got, again>>
       ELSE /\ got' = o
            /\ again' = RowOf(ColumnNames(ls), Store(Current(ls), o).params)
            /\ pc' = IF pc = "read" THEN "done" ELSE "defaulted"
  /\ UNCHANGED <<cls, obj, row, left>>

Next == Write \/ Evolve \/ Read

RowsSpec == RowsInit /\ [][Next]_vars

-----------------------------------------------------------------------------
(* Properties                                                              *)

\* store_struct binds one value per column of the prepared statement, and
\* consumes the whole object (the assertion left == 0).
StatementTakesAllValues == pc # "failed" /\ left = 0

\* Writing an object that was only read changes no column, neither of a row of
\* an older layout nor of one that lacked columns (NULL stays or becomes zero).
UnchangedObjectWritesSameRow ==
  pc \in {"done", "defaulted"} =>
    \A name \in DOMAIN row : row[name] # Null => again[name] = row[name]

\* Fields whose cells have a zero where text would end.
EndsEarly(f, s) ==
  \/ f.dbs.type = "string" /\ s[1] # NullLen /\ CString(Tail(s)) # Tail(s)
  \/ f.dbs.type = "int" /\ f.dbs.n # 1 /\ f.dbs.size = 1 /\ ~f.binary /\ CString(s) # s

\* An object whose names are unique, whose layout is the program's, whose text
\* holds no zero and whose key ends with its only zero.
Clean(ls, o) ==
  /\ \A i, j \in DOMAIN ls : ls[i].name = ls[j].name => i = j
  /\ \A i \in DOMAIN ls : ls[i].dbs = ls[i].loc
  /\ \E v \in Instances[cls] :
       /\ o = Packed(ls, v)
       /\ \A i \in DOMAIN ls :
            IF Layout[cls].text /\ ls[i].dbs.n = 0
            THEN v[i] # <<>> /\ CString(v[i]) = Front(v[i])
            ELSE ~EndsEarly(ls[i], v[i])

\* Such an object comes back as it was written.
ReadsBackExactly ==
  pc = "done" /\ (Layout[cls].refs \/ Clean(Layout[cls].leaves, obj)) => got = obj
=============================================================================
