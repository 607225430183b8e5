-------------------------------- MODULE Convert --------------------------------
(***************************************************************************)
(* convert_goods_database (src/goods-diff/pgsql_storage.cxx): one           *)
(* transaction that walks the objects of a native GOODS database from its  *)
(* root, breadth first, and inserts each as a row under its old            *)
(* identifier.  A hash table becomes entries of dict_entry, a blob a file  *)
(* of external_file, and objects of non-relational classes are left out.   *)
(* The database being read is chosen in Init and never changes.            *)
(***************************************************************************)
EXTENDS Integers, Sequences, FiniteSets, SequencesExt

CONSTANTS
  Oid,       \* the identifiers of the native objects, and Root among them
  Root,      \* ROOT_OPID
  MinOid,    \* the minimum of oid_sequence, which open creates
  Name       \* names of hash items

ASSUME OidAssumption ==
  /\ Oid \subseteq Nat \ {0} /\ Root \in Oid
  /\ \A o \in Oid : Root <= o
  /\ MinOid \in 0 .. Root + 1

VARIABLES
  kind,      \* kind[o]: what the class of o is to the program (constant)
  refs,      \* refs[o]: the references of o, 0 for nil (constant)
  chains,    \* chains[o]: the buckets of hash table o, each a list of items,
             \* the item inserted last in front (constant)
  unread,    \* the objects and blobs the files do not give (constant)
  queue, bitmap, maxOpid,
  classes,   \* kinds whose descriptor is in the table classes
  rootClass, \* the rows of root_class
  rows,      \* rows[o]: the references of the row of o, for the rows inserted
  entries,   \* entries[<<o, name>>]: dict_entry
  files,     \* the blobs given to writeEfile
  nextOid,   \* what oid_sequence gives next
  phase      \* "run", then "done" (committed) or "failed" (aborted)

native == <<kind, refs, chains, unread>>
walk   == <<queue, bitmap, maxOpid>>
tables == <<classes, rootClass, rows, entries, files, nextOid>>
convertVars == <<native, walk, tables, phase>>

Kinds == {"plain", "dictionary", "blob", "nonRelational", "unknown"}

-----------------------------------------------------------------------------

\* The references in seq that the walk meets for the first time.
NewIn(seq, seen) ==
  LET new[n \in 0 .. Len(seq)] ==
        IF n = 0 THEN <<>>
        ELSE IF seq[n] = 0 \/ seq[n] \in seen \/ Contains(new[n - 1], seq[n]) THEN new[n - 1]
        ELSE Append(new[n - 1], seq[n])
  IN new[Len(seq)]

\* Variant: the values of a hash table are queued without a mark.
QueueUnmarked(o, seq) ==
  /\ queue' = Tail(queue) \o NewIn(seq, bitmap)
  /\ bitmap' = IF kind[o] = "dictionary" THEN bitmap ELSE bitmap \cup (ToSet(seq) \ {0})

\* Variant: the values of a hash table are not queued.
QueueReferencesOnly(o, seq) ==
  /\ queue' = Tail(queue) \o (IF kind[o] = "dictionary" THEN <<>> ELSE NewIn(seq, bitmap))
  /\ bitmap' = bitmap \cup (ToSet(seq) \ {0})

\* Queue and mark what object o refers to.
Queue(o, seq) ==
  /\ queue' = Tail(queue) \o NewIn(seq, bitmap)
  /\ bitmap' = bitmap \cup (ToSet(seq) \ {0})

\* Variant: only the first item of each bucket.
HeadItems(o) == [i \in DOMAIN chains[o] |-> Head(chains[o][i])]

\* The items of a hash table in the order the conversion reads them.
Items(o) == FlattenSeq(chains[o])

\* What the first object of a class adds: its descriptor, and for the root its
\* class.
Register(o) ==
  /\ classes' = classes \cup {kind[o]}
  /\ rootClass' = IF o = Root THEN Append(rootClass, kind[o]) ELSE rootClass

\* Variant: objects that are skipped do not count for the sequence.
CountStored(o) ==
  maxOpid' = IF o > maxOpid /\ kind[o] # "nonRelational" THEN o ELSE maxOpid

Count(o) == maxOpid' = IF o > maxOpid THEN o ELSE maxOpid

\* The transaction is aborted: nothing of it remains.
Abort ==
  /\ phase' = "failed"
  /\ classes' = {} /\ rootClass' = <<>> /\ rows' = <<>> /\ entries' = <<>> /\ nextOid' = MinOid
  /\ UNCHANGED <<native, walk, files>>

\* The next object of the queue.
Next1(o) == phase = "run" /\ queue # <<>> /\ o = Head(queue)

\* The class is not one of the program's, or the object cannot be read, or its
\* row exists.
ConvertFails(o) ==
  /\ Next1(o)
  /\ \/ kind[o] = "unknown"
     \/ kind[o] \in {"plain", "dictionary"} /\ (o \in unread \/ o \in DOMAIN rows)
  /\ Abort

\* A blob without its file is left out; so are non-relational objects, and the
\* references of both.
ConvertBlob(o) ==
  /\ Next1(o) /\ kind[o] = "blob"
  /\ Register(o) /\ Count(o)
  /\ files' = IF o \in unread THEN files ELSE files \cup {o}
  /\ queue' = Tail(queue)
  /\ UNCHANGED <<native, bitmap, rows, entries, nextOid, phase>>

SkipNonRelational(o) ==
  /\ Next1(o) /\ kind[o] = "nonRelational"
  /\ Register(o) /\ Count(o)
  /\ queue' = Tail(queue)
  /\ UNCHANGED <<native, bitmap, rows, entries, files, nextOid, phase>>

Readable(o, k) == Next1(o) /\ kind[o] = k /\ o \notin unread /\ o \notin DOMAIN rows

Insert(o, seq) == rows' = [x \in DOMAIN rows \cup {o} |-> IF x = o THEN seq ELSE rows[x]]

\* Item i is the last of its name.
LastOfName(items, i) == \A j \in DOMAIN items : j > i => items[j].name # items[i].name

\* hash_put of every item: a later item of the same name replaces an earlier one.
HashPut(o, items) ==
  LET last == {i \in DOMAIN items : LastOfName(items, i)} IN
  entries' = [k \in DOMAIN entries \cup {<<o, items[i].name>> : i \in last} |->
                IF \E i \in last : k = <<o, items[i].name>>
                THEN items[CHOOSE i \in last : k = <<o, items[i].name>>].obj ELSE entries[k]]

ConvertDictionary(o) ==
  /\ Readable(o, "dictionary")
  /\ Register(o) /\ Count(o)
  /\ HashPut(o, Items(o))
  /\ Queue(o, [i \in DOMAIN Items(o) |-> Items(o)[i].obj])
  /\ Insert(o, <<>>)
  /\ UNCHANGED <<native, files, nextOid, phase>>

ConvertObject(o) ==
  /\ Readable(o, "plain")
  /\ Register(o) /\ Count(o)
  /\ Queue(o, refs[o])
  /\ Insert(o, refs[o])
  /\ UNCHANGED <<native, entries, files, nextOid, phase>>

\* set_oid and set_cid, and the commit of the autocommit object.  setval refuses
\* a value below the minimum of the sequence.
Finish ==
  /\ phase = "run" /\ queue = <<>>
  /\ IF maxOpid < MinOid THEN Abort
     ELSE /\ nextOid' = maxOpid + 1
          /\ phase' = "done"
          /\ UNCHANGED <<native, walk, classes, rootClass, rows, entries, files>>

ConvertNext ==
  \/ \E o \in Oid : \/ ConvertFails(o) \/ ConvertBlob(o) \/ SkipNonRelational(o)
                    \/ ConvertDictionary(o) \/ ConvertObject(o)
  \/ Finish

\* The database to convert, whatever is in it.
Item == [name : Name, obj : Oid]
Native ==
  /\ kind \in [Oid -> Kinds] /\ refs \in [Oid -> Seq(Oid \cup {0})]
  /\ chains \in [Oid -> Seq(Seq(Item))] /\ unread \subseteq Oid

ConvertInit ==
  /\ queue = <<Root>> /\ bitmap = {Root} /\ maxOpid = Root
  /\ classes = {} /\ rootClass = <<>> /\ rows = <<>> /\ entries = <<>> /\ files = {}
  /\ nextOid = MinOid
  /\ phase = "run"

ConvertSpec == Native /\ ConvertInit /\ [][ConvertNext]_convertVars

-----------------------------------------------------------------------------
(* Properties                                                              *)

\* What a committed row or entry refers to.
Referred == UNION ({ToSet(rows[o]) \ {0} : o \in DOMAIN rows}
                     \cup {{entries[k]} : k \in DOMAIN entries})

\* What the native object o leads to, if it is converted.
Follow(o) ==
  CASE kind[o] = "plain"      -> ToSet(refs[o]) \ {0}
    [] kind[o] = "dictionary" -> UNION {{item.obj : item \in ToSet(chain)} : chain \in ToSet(chains[o])}
    [] OTHER                  -> {}

\* The objects a client can reach in the native database, not going through those
\* that are not converted.
Reachable ==
  {o \in Oid : \A S \in SUBSET Oid : Root \in S /\ (\A x \in S : Follow(x) \subseteq S) => o \in S}

\* A committed conversion has a row or file for every object a reference or entry
\* leads to, but for non-relational objects and blobs without a file; and every
\* class that occurs in a reference has its descriptor, which lookup_class needs.
ReferencesResolve ==
  phase = "done" =>
    \A o \in Referred :
      /\ kind[o] \in classes
      /\ o \in DOMAIN rows \cup files \/ kind[o] = "nonRelational" \/ o \in unread

\* Nothing that the native database can reach by name or reference is lost.
NothingIsLost ==
  phase = "done" =>
    /\ {o \in Reachable : kind[o] \in {"plain", "dictionary"}} = DOMAIN rows
    /\ \A o \in DOMAIN rows : kind[o] = "dictionary" =>
         \A b \in DOMAIN chains[o], n \in Name :
           (\E i \in DOMAIN chains[o][b] : chains[o][b][i].name = n)
             => <<o, n>> \in DOMAIN entries

\* An identifier that a row still refers to, converted or skipped, is never given
\* to a new object.
IdentifiersStayFresh ==
  phase = "done" => \A o \in Referred \cup DOMAIN rows \cup files : o < nextOid

\* A conversion is refused only for an object it cannot read or whose class the
\* program lacks, or because there is nothing but the root.
FailsOnlyOnBadFiles ==
  phase = "failed" =>
    \/ \E o \in Reachable : o \in unread \/ kind[o] = "unknown"
    \/ Reachable = {Root}
=============================================================================
