------------------------------- MODULE Warehouse -------------------------------
(***************************************************************************)
(* The sample program (src/src): the lists of packages, item definitions,  *)
(* warehouse items and receipts below the database root, their indexes,    *)
(* the global index, and the run that fills them, edits and tests them and *)
(* deletes the receipts, one transaction per object saved or deleted.      *)
(*                                                                         *)
(* Under PGSQL_ORM two kinds of change do not wait for the transaction: an *)
(* entry of the global index (a pgsql_dictionary) and the removal of an    *)
(* entry of an index (a pgsql_index).  So the process may stop after some  *)
(* of them and before the commit; the next run starts from what is stored. *)
(***************************************************************************)
EXTENDS Integers, Sequences, FiniteSets, SequencesExt

CONSTANTS
  Packages,      \* FillPackages: the codes, in order; a code stands for its object
  Definitions,   \* FillItemDefinitions: [code, package] in order; so does its code
  CustomFields,  \* GetCustomFieldsValue: <<name, value>> in order
  ReceiptCount,  \* FillDatabaseData::WarehouseReceiptCount
  MaxItems,      \* bound: items of a receipt
  MaxClock,      \* bound: time, as time(nullptr) gives it
  MaxStarts,     \* bound: runs of the program
  Nil            \* the nil reference

ASSUME WarehouseAssumption ==
  /\ ReceiptCount \in Nat \ {0} /\ MaxItems \in Nat /\ MaxClock \in Nat /\ MaxStarts \in Nat
  /\ Packages \in Seq(ToSet(Packages)) /\ Definitions \in Seq(ToSet(Definitions)) \ {<<>>}
  /\ \A i \in DOMAIN Definitions : \E j \in DOMAIN Packages : Packages[j] = Definitions[i].package
  /\ \A i, j \in DOMAIN Definitions : Definitions[i].code = Definitions[j].code => i = j
  /\ CustomFields \in Seq(ToSet(CustomFields))
  /\ \A i, j \in DOMAIN CustomFields : CustomFields[i][1] = CustomFields[j][1] => i = j

\* Codes are strings, no receipts or items.
ASSUME CodeAssumption ==
  /\ Nil \notin Seq(Nat)
  /\ \A i \in DOMAIN Packages : Packages[i] \notin Seq(Nat)
  /\ \A i \in DOMAIN Definitions : Definitions[i].code \notin Seq(Nat)

VARIABLES
  phase,    \* what the program does: "down", then the calls of run in order
  step,     \* the index of its loop
  walk,     \* the receipt the loop of EditWarehouseReceipts has reached
  cursor,   \* next_item_def_member: a position, past the end for nil
  clock,
  root,     \* the root has been set up
  list,     \* the set_owner lists: [packages, definitions, items, receipts]
  keys,     \* the indexes that are not at once: [package, code, description, time],
            \* sets of <<key, object>>
  now,      \* what changes at once: [global, number, date], the dictionary and the
            \* indexes of the receipts
  rec,      \* rec[r]: [number, date, items, fields, indexed], saved receipts <<n>>;
            \* a number is <<i, k>> for "i" followed by k times "_1"
  item,     \* item[x]: [def, receipt], saved items <<n, k>>
  linked,   \* set_owner::remove leaves the member's next as it was (external)
  made,     \* history: receipts constructed
  starts,
  failed,   \* history: receipts for which the last TestIntegrity failed
  torn      \* history: receipts whose edit or deletion was cut short

program == <<phase, step, walk, cursor>>
stored  == <<root, list, keys, rec, item>>
vars == <<program, clock, stored, now, linked, made, starts, failed, torn>>

-----------------------------------------------------------------------------
(* What is written at once                                                 *)

\* The function f changed at k, or defined there.
Set(f, k, v) == [x \in DOMAIN f \cup {k} |-> IF x = k THEN v ELSE f[x]]

Apply(a, w) ==
  CASE w[1] = "put" -> [a EXCEPT !.global = Set(@, w[2], w[3])]
    [] w[1] = "del" -> [a EXCEPT !.global =
         [k \in {x \in DOMAIN @ : ~(x = w[2] /\ @[x] = w[3])} |-> @[k]]]
    [] w[1] = "number" -> [a EXCEPT !.number = @ \ {w[2]}]
    [] w[1] = "date" -> [a EXCEPT !.date = @ \ {w[2]}]

Applied(writes) ==
  LET after[i \in 0..Len(writes)] == IF i = 0 THEN now ELSE Apply(after[i - 1], writes[i])
  IN after[Len(writes)]

\* CDbObject::GetHashCode; an item has that of its definition.
HashCode(def) == def.code

-----------------------------------------------------------------------------
(* Lists and indexes                                                       *)

\* Variant: put_first.
PutFirst(seq, x) == <<x>> \o seq

\* set_owner::insert, which push_back relies on to append.
Put(seq, x) == Append(seq, x)

\* What set_owner::remove leaves of a list.
Without(seq, gone) ==
  LET kept[i \in 0..Len(seq)] ==
        IF i = 0 THEN <<>>
        ELSE IF seq[i] \in gone THEN kept[i - 1] ELSE Append(kept[i - 1], seq[i])
  IN kept[Len(seq)]

\* mbr->next of a member of the list.
Successor(seq, x) ==
  LET i == CHOOSE j \in DOMAIN seq : seq[j] = x
  IN IF i = Len(seq) THEN Nil ELSE seq[i + 1]

\* IndexKeyTraits::FindMember of a string: any entry with the key.
FindMember(index, key) == {e \in index : e[1] = key}

\* Variant: the times are compared.
SameTime(e, date) == e[1] = date

\* IndexKeyTraits<CTimeBtree>::FindMember converts the address of the key, not the
\* key, to a number, and compares that with the time.
SameTimeKey(e, date) == FALSE

\* FindFirst: any entry with the least time from date on.
FindFirst(index, date) ==
  {e \in index : /\ e[1] >= date
                 /\ \A f \in index : f[1] >= date => e[1] <= f[1]}

\* RemoveFromIndex of the items of a receipt, one after the other; the second
\* component is FALSE if there was no entry to look at, which ends the program.
RemoveTimes(index, date, n) ==
  LET after[i \in 0..n] ==
        IF i = 0 THEN {<<index, TRUE>>}
        ELSE UNION {IF FindFirst(a[1], date) = {} THEN {<<a[1], FALSE>>}
                    ELSE {<<IF SameTimeKey(e, date) THEN a[1] \ {e} ELSE a[1], a[2]>> :
                            e \in FindFirst(a[1], date)} : a \in after[i - 1]}
  IN after[n]

-----------------------------------------------------------------------------
(* FillDatabase                                                            *)

Goto(p) == phase' = p /\ step' = 0
Idle == UNCHANGED <<clock, linked, made, starts, torn>>

\* GetDatabaseRoot and SetupNewDatabase, one transaction.
EnsureDatabaseRoot ==
  /\ phase = "open"
  /\ root' = TRUE /\ Goto("packages")
  /\ UNCHANGED <<walk, cursor, list, keys, rec, item, now, failed>> /\ Idle

\* A fill that finds its list not empty is skipped; at its end the next begins.
NextFill(from, to, name, n) ==
  /\ phase = from
  /\ (step = 0 /\ list[name] # <<>>) \/ step = n
  /\ Goto(to)
  /\ walk' = IF to = "edit" /\ list.receipts # <<>> THEN Head(list.receipts) ELSE Nil
  /\ UNCHANGED <<cursor, stored, now, failed>> /\ Idle

\* CPackageList::insert and InsertInIndexes.
PackagesInsert(code) ==
  /\ list' = [list EXCEPT !.packages = Put(@, code)]
  /\ keys' = [keys EXCEPT !.package = @ \cup {<<code, code>>}]

\* db::package::Save.
SavePackage(code) == PackagesInsert(code) /\ now' = Applied(<<<<"put", code, code>>>>)

InsertPackage ==
  /\ phase = "packages" /\ step < Len(Packages) /\ (step = 0 => list.packages = <<>>)
  /\ SavePackage(Packages[step + 1])
  /\ step' = step + 1
  /\ UNCHANGED <<phase, walk, cursor, root, rec, item, failed>> /\ Idle

\* CPackageList::FindByCode.
FindByCode(code) == {e[2] : e \in FindMember(keys.package, code)}

\* CItemDefinitionList::insert and InsertInIndexes.
DefinitionsInsert(def) ==
  /\ list' = [list EXCEPT !.definitions = Put(@, def)]
  /\ keys' = [keys EXCEPT !.code = @ \cup {<<def.code, def>>},
                          !.description = @ \cup {<<def.code, def>>}]

\* db::item_def::Save.
SaveDefinition(def) ==
  DefinitionsInsert(def) /\ now' = Applied(<<<<"put", HashCode(def), def.code>>>>)

\* db::item_def::SetPackage asks the package for its dimensions; if there is no
\* package, that ends the program.
InsertItemDefinition ==
  /\ phase = "definitions" /\ step < Len(Definitions) /\ (step = 0 => list.definitions = <<>>)
  /\ LET def == Definitions[step + 1] IN
       IF FindByCode(def.package) = {}
       THEN Goto("aborted") /\ UNCHANGED <<list, keys, now>>
       ELSE SaveDefinition(def) /\ step' = step + 1 /\ phase' = phase
  /\ UNCHANGED <<walk, cursor, root, rec, item, failed>> /\ Idle

\* Variant: the member past the end is not looked at.
NextUnchecked(c) == c

\* GetNextItemDefinition starts over at the end of the list.
NextDefinition(c) == IF c > Len(list.definitions) THEN 1 ELSE c

\* The definitions of the next n items, as positions, and the member after them.
Cursors(n) ==
  LET at[i \in 1..(n + 1)] ==
        IF i = 1 THEN cursor ELSE NextDefinition(at[i - 1]) + 1
  IN at

\* FindCustomField: the position of the field of a name, 0 for none.
FindCustomField(fields, name) == SelectInSeq(fields, LAMBDA g : g[1] = name)

\* SetCustomField: the field of that name, or a new one.
SetCustomField(fields, f) ==
  LET found == FindCustomField(fields, f[1])
  IN IF found = 0 THEN Put(fields, f) ELSE [fields EXCEPT ![found] = f]

\* The fields of a new receipt, set one after the other.
SetCustomFields ==
  LET set[i \in 0..Len(CustomFields)] ==
        IF i = 0 THEN <<>> ELSE SetCustomField(set[i - 1], CustomFields[i])
  IN set[Len(CustomFields)]

\* GetCustomField: <<TRUE, value>>, or <<FALSE>>.
GetCustomField(fields, name) ==
  LET found == FindCustomField(fields, name)
  IN IF found = 0 THEN <<FALSE>> ELSE <<TRUE, fields[found][2]>>

\* CreateWarehouseReceipt with n items.
NewReceipt(n, date) ==
  [number |-> <<step, 0>>, date |-> date,
   items |-> [k \in 1..n |-> <<made + 1, k>>],
   fields |-> SetCustomFields,
   indexed |-> <<step, 0>>]

NewDefs(n) == [k \in 1..n |-> list.definitions[NextDefinition(Cursors(n)[k])]]

\* db::wh_item::Save, what it writes at once.
SaveItemWrites(x, def) == <<<<"put", HashCode(def), x>>>>

\* db::warehouse_receipt::Save of a new receipt, what is written at once.
SaveWrites(r, new, defs) ==
  FlattenSeq([k \in DOMAIN defs |-> SaveItemWrites(new.items[k], defs[k])])
    \o <<<<"put", new.number, r>>>>

\* Variant: the indexes are not told.
ReindexNothing(a, r, number, date) == a

\* CWarehouseReceiptList::InsertInIndexes.
Reindex(a, r, number, date) ==
  [a EXCEPT !.number = @ \cup {<<number, r>>}, !.date = @ \cup {<<date, r>>}]

\* CWarehouseItemList::insert and InsertInIndexes, for the items of one receipt.
ItemsInsert(times, items, date) == times \cup {<<date, x>> : x \in items}

\* db::wh_item::Create takes definition and package; Save sets the receipt.
NewItem(r, x, defs) == [def |-> defs[x[2]], receipt |-> r]

\* The transaction of Save: lists, indexes and references.
Save(r, new, defs) ==
  LET items == ToSet(new.items) IN
  /\ rec' = Set(rec, r, new)
  /\ item' = [x \in DOMAIN item \cup items |-> IF x \in items THEN NewItem(r, x, defs) ELSE item[x]]
  /\ list' = [list EXCEPT !.receipts = Put(@, r), !.items = @ \o new.items]
  /\ keys' = [keys EXCEPT !.time = ItemsInsert(@, items, new.date)]
  /\ now' = Reindex(Applied(SaveWrites(r, new, defs)), r, new.number, new.date)

CreateReceipt ==
  /\ phase = "receipts" /\ step < ReceiptCount /\ (step = 0 => list.receipts = <<>>)
  /\ \E n \in 0..MaxItems, date \in clock..MaxClock :
       /\ clock' = date
       /\ made' = made + 1
       /\ IF \E k \in 1..n : NextDefinition(Cursors(n)[k]) > Len(list.definitions)
          THEN Goto("aborted") /\ UNCHANGED <<cursor, rec, item, list, keys, now>>
          ELSE /\ Save(<<made + 1>>, NewReceipt(n, date), NewDefs(n))
               /\ cursor' = Cursors(n)[n + 1]
               /\ step' = step + 1 /\ phase' = phase
  /\ UNCHANGED <<walk, root, linked, starts, failed, torn>>

-----------------------------------------------------------------------------
(* EditWarehouseReceipts, TestIntegrity, DeleteAll                         *)

\* Variant: the entry is looked up by the number the receipt has now.
EntryOfNumber(r, number) == <<number, r>>

\* RemoveFromIndexes: the entry the receipt keeps in its slot IndexByNumber.
NumberEntry(r, number) == <<rec[r].indexed, r>>

\* remove_from_set_owner: nothing, for an entry that has left the index.
DropWrites(r, number) ==
  LET byNumber == NumberEntry(r, number)
      byDate == <<rec[r].date, r>>
  IN (IF byNumber \in now.number THEN <<<<"number", byNumber>>>> ELSE <<>>)
       \o (IF byDate \in now.date THEN <<<<"date", byDate>>>> ELSE <<>>)

Edited(r) == [rec[r].number EXCEPT ![2] = @ + 1]

\* One turn of the loop: the receipt gets a new number and Save moves it to the
\* end of the list the loop walks along.
EditReceipt ==
  /\ phase = "edit" /\ walk # Nil
  /\ LET r == walk
         number == Edited(r)
         receipts == Put(Without(list.receipts, {r}), r) IN
       /\ number[2] <= MaxStarts + 1
       /\ rec' = [rec EXCEPT ![r].number = number, ![r].indexed = number]
       /\ now' = Reindex(Applied(DropWrites(r, number)), r, number, rec[r].date)
       /\ list' = [list EXCEPT !.receipts = receipts]
       /\ walk' = Successor(receipts, r)
       /\ torn' = torn \ {r}
  /\ UNCHANGED <<phase, step, cursor, root, keys, item, failed, clock, linked, made, starts>>

EndEdit ==
  /\ phase = "edit" /\ walk = Nil /\ Goto("test")
  /\ UNCHANGED <<walk, cursor, stored, now, failed>> /\ Idle

\* TestItemDefinitionsIntegrity.
DefinitionOk(def) ==
  \A index \in {"code", "description"} :
    {e[2] : e \in FindMember(keys[index], def.code)} = {def}

\* TestCustomFields: each value that was set is found.
FieldsOk(r) ==
  \A f \in ToSet(CustomFields) : GetCustomField(rec[r].fields, f[1]) = <<TRUE, f[2]>>

\* TestWarehouseItem; packages and members are as the item was created.
ItemOk(r, x) == item[x].receipt = r

\* TestWarehouseReceiptIntegrity.
ContentsOk(r) == FieldsOk(r) /\ \A x \in ToSet(rec[r].items) : ItemOk(r, x)

\* TestWarehouseReceiptsIntegrity.
ReceiptOk(r) ==
  /\ {e[2] : e \in FindMember(now.number, rec[r].number)} = {r}
  /\ ContentsOk(r)

TestIntegrity ==
  /\ phase = "test" /\ Goto("delete")
  /\ failed' = {r \in ToSet(list.receipts) : ~ReceiptOk(r)}
                 \cup {d \in ToSet(list.definitions) : ~DefinitionOk(d)}
  /\ UNCHANGED <<walk, cursor, stored, now>> /\ Idle

\* Variant: the loop ends at the first member it removes.
DeletesFirst(r) == IF rec[r].items = <<>> THEN <<>> ELSE <<Head(rec[r].items)>>

\* The items the loop of DeleteInnerItems meets while it removes them.
DeletedItems(r) == IF linked THEN rec[r].items ELSE DeletesFirst(r)

\* Variant: the items stay in the global index.
DeleteWritesReceipt(r) == <<<<"del", rec[r].number, r>>>> \o DropWrites(r, rec[r].number)

\* db::wh_item::Delete, what it writes at once.
DeleteItemWrites(x) == <<<<"del", HashCode(item[x].def), x>>>>

\* What db::warehouse_receipt::Delete writes at once.
DeleteWrites(r) ==
  LET gone == DeletedItems(r) IN
  FlattenSeq([k \in DOMAIN gone |-> DeleteItemWrites(gone[k])])
    \o <<<<"del", rec[r].number, r>>>> \o DropWrites(r, rec[r].number)

\* CWarehouseItemList::remove.
ItemsRemove(items, gone) == Without(items, ToSet(gone))

\* DeleteAllWarehouseReceipts: the first receipt, until none is left.
DeleteReceipt ==
  /\ phase = "delete" /\ list.receipts # <<>>
  /\ LET r == Head(list.receipts)
         gone == DeletedItems(r) IN
       \E times \in RemoveTimes(keys.time, rec[r].date, Len(gone)) :
         IF ~times[2]
         THEN Goto("aborted") /\ UNCHANGED <<list, keys, now, rec, torn>>
         ELSE /\ list' = [list EXCEPT !.receipts = Tail(@),
                            !.items = ItemsRemove(@, gone)]
              /\ keys' = [keys EXCEPT !.time = times[1]]
              /\ rec' = [rec EXCEPT ![r].items = ItemsRemove(@, gone)]
              /\ now' = Applied(DeleteWrites(r))
              /\ torn' = torn \ {r}
              /\ UNCHANGED <<phase, step>>
  /\ UNCHANGED <<walk, cursor, root, item, failed, clock, linked, made, starts>>

EndRun ==
  /\ phase = "delete" /\ list.receipts = <<>> /\ Goto("end")
  /\ UNCHANGED <<walk, cursor, stored, now, failed>> /\ Idle

-----------------------------------------------------------------------------
(* The process                                                             *)

\* The process stops, maybe after some of the writes of the transaction it is in.
Stop(writes, r) ==
  /\ \E n \in 0..Len(writes) :
       /\ now' = Applied(SubSeq(writes, 1, n))
       /\ torn' = IF r \in DOMAIN rec /\ \E i \in 1..n : writes[i][1] \in {"number", "date"}
                  THEN torn \cup {r} ELSE torn
  /\ Goto("down") /\ walk' = Nil /\ cursor' = 1 /\ failed' = {}
  /\ UNCHANGED <<clock, stored, linked, starts>>

Crash ==
  /\ phase \notin {"down", "end", "aborted"} /\ starts < MaxStarts
  /\ \/ phase # "receipts" /\ Stop(<<>>, Nil) /\ made' = made
     \/ /\ phase = "receipts" /\ step < ReceiptCount /\ (step = 0 => list.receipts = <<>>)
        /\ made' = made + 1
        /\ \E n \in 0..MaxItems :
             Stop(SaveWrites(<<made + 1>>, NewReceipt(n, clock), NewDefs(n)), <<made + 1>>)
     \/ phase = "edit" /\ walk # Nil /\ Stop(DropWrites(walk, Edited(walk)), walk) /\ made' = made
     \/ /\ phase = "delete" /\ list.receipts # <<>>
        /\ Stop(DeleteWrites(Head(list.receipts)), Head(list.receipts)) /\ made' = made

Start ==
  /\ phase \in {"down", "end", "aborted"} /\ starts < MaxStarts
  /\ starts' = starts + 1 /\ Goto("open")
  /\ walk' = Nil /\ cursor' = 1 /\ failed' = {}
  /\ UNCHANGED <<clock, stored, now, linked, made, torn>>

Init ==
  /\ phase = "down" /\ step = 0 /\ walk = Nil /\ cursor = 1 /\ clock = 1
  /\ root = FALSE
  /\ list = [packages |-> <<>>, definitions |-> <<>>, items |-> <<>>, receipts |-> <<>>]
  /\ keys = [package |-> {}, code |-> {}, description |-> {}, time |-> {}]
  /\ now = [global |-> <<>>, number |-> {}, date |-> {}]
  /\ rec = <<>> /\ item = <<>>
  /\ linked \in BOOLEAN
  /\ made = 0 /\ starts = 0 /\ failed = {} /\ torn = {}

Run ==
  \/ EnsureDatabaseRoot
  \/ InsertPackage \/ NextFill("packages", "definitions", "packages", Len(Packages))
  \/ InsertItemDefinition
  \/ NextFill("definitions", "receipts", "definitions", Len(Definitions))
  \/ CreateReceipt \/ NextFill("receipts", "edit", "receipts", ReceiptCount)
  \/ EditReceipt \/ EndEdit \/ TestIntegrity \/ DeleteReceipt \/ EndRun

Next == Run \/ Crash \/ Start

\* The program runs on by itself; nobody has to start it, and it need not crash.
Spec == Init /\ [][Next]_vars /\ WF_vars(Run)

-----------------------------------------------------------------------------
(* Properties                                                              *)

\* Whatever runs were cut short before, db::db_filler::TestIntegrity finds nothing
\* wrong: the receipt that a cut edit or deletion has dropped from an index is the
\* first of the list, and the edits of the next run, which reach no other receipt,
\* put it back before the test.
TestNeverFails == failed = {}

\* The indexes of the receipt list lead to exactly the receipts of the list, by
\* their present number and date, but for those a cut removal has dropped.
IndexesFollowList ==
  LET listed == ToSet(list.receipts) IN
  /\ now.number \subseteq {<<rec[r].number, r>> : r \in listed}
  /\ now.date \subseteq {<<rec[r].date, r>> : r \in listed}
  /\ \A r \in listed \ torn : <<rec[r].number, r>> \in now.number
                              /\ <<rec[r].date, r>> \in now.date

\* Every item of the item list is in the time index under the date of its receipt,
\* though others with the same date have been deleted.
StoredItemsAreTimed ==
  \A x \in ToSet(list.items) : <<rec[item[x].receipt].date, x>> \in keys.time

\* The item list holds the items of the receipts of the list, and of no other if
\* the deletion loop meets every item.
ItemsFollowReceipts ==
  LET owned == UNION {ToSet(rec[r].items) : r \in ToSet(list.receipts)} IN
  /\ owned \subseteq ToSet(list.items)
  /\ linked => owned = ToSet(list.items)

\* The global index leads to no deleted object, except under the number a receipt
\* had before it was edited, and to objects whose first commit never came.
NoDeletedObjectIsFound ==
  \A key \in DOMAIN now.global :
    LET o == now.global[key] IN
    /\ o \in DOMAIN rec => o \in ToSet(list.receipts) \/ rec[o].number # key
    /\ o \in DOMAIN item => o \in ToSet(list.items)

\* A run ends early only because an earlier one was cut short between two packages.
AbortsOnlyOnPartialPackages ==
  phase = "aborted" => Len(list.packages) < Len(Packages)

\* A run that is not cut short ends: the loop that edits receipts while it moves
\* them in the list it walks along, and the loop that deletes until the list is
\* empty, both end.
RunEnds == phase = "open" ~> phase \in {"end", "aborted", "down"}
=============================================================================
