---------------------------- MODULE Catalog_proofs --------------------------
(***************************************************************************)
(* Proofs about the catalog, for any names, columns and bounds on ids and  *)
(* pages, and for callers that create and drop what they like.             *)
(*                                                                         *)
(* CatalogInv is the inductive invariant.  It says where the maps in       *)
(* memory are in the file: every table and index has its metadata in the   *)
(* page that the catalog page names, but for the index whose creation is   *)
(* under way; ids are below the next one; and the id by which an index     *)
(* knows its table is the table's as long as the table is there: it is     *)
(* handed out again by no table that is created while the index remains.   *)
(* That a restart builds the same maps follows, where the tables of all    *)
(* indexes are there, and so a restart keeps the invariant.                *)
(***************************************************************************)
EXTENDS Catalog, TLAPS

\* The index whose creation is under way: its metadata is not yet written.
UnderWay == IF pc.op = "index" THEN {next_index_id_} ELSE {}

TableMeta(id) == [id |-> id, name |-> tables_[id].name, schema |-> tables_[id].schema,
                  first |-> tables_[id].first]
IndexMeta(id) == [id |-> id, name |-> indexes_[id].name, keys |-> indexes_[id].keys,
                  table_id |-> indexes_[id].table_id]

TableMaps ==
  /\ table_names_ \in [DOMAIN table_names_ -> Id]
  /\ DOMAIN table_names_ \subseteq TableName
  /\ IdMap(tables_, TableInfo)
  /\ \A t \in DOMAIN table_names_ :
       table_names_[t] \in DOMAIN tables_ /\ tables_[table_names_[t]].name = t
  /\ \A id \in DOMAIN tables_ :
       /\ tables_[id].name \in DOMAIN table_names_
       /\ table_names_[tables_[id].name] = id

TablesSaved ==
  /\ IdMap(catalog_meta_.tables, Page)
  /\ DOMAIN catalog_meta_.tables = DOMAIN tables_
  /\ \A id \in DOMAIN tables_ :
       /\ id < next_table_id_
       /\ catalog_meta_.tables[id] \in DOMAIN pages
       /\ pages[catalog_meta_.tables[id]] = TableMeta(id)

IndexMaps ==
  /\ index_names_ \in [DOMAIN index_names_ -> Id]
  /\ DOMAIN index_names_ \subseteq TableName \X IndexName
  /\ IdMap(indexes_, IndexInfo)
  /\ \A k \in DOMAIN index_names_ :
       index_names_[k] \in DOMAIN indexes_ /\ indexes_[index_names_[k]].name = k[2]
  /\ \A k, l \in DOMAIN index_names_ : index_names_[k] = index_names_[l] => k = l
  /\ \A id \in DOMAIN indexes_ : \E k \in DOMAIN index_names_ : index_names_[k] = id

\* The id by which an index holds its table was the table's when the index was
\* created, and no other table has it since.
IndexTables ==
  /\ \A id \in DOMAIN indexes_ : indexes_[id].table_id < next_table_id_
  /\ \A k \in DOMAIN index_names_ :
       LET info == indexes_[index_names_[k]]
       IN  info.table_id \in DOMAIN tables_ =>
             /\ tables_[info.table_id].name = k[1]
             /\ info.table = tables_[info.table_id].first

IndexesSaved ==
  /\ IdMap(catalog_meta_.indexes, Page)
  /\ DOMAIN catalog_meta_.indexes = DOMAIN indexes_
  /\ UnderWay \subseteq DOMAIN indexes_
  /\ \A id \in DOMAIN indexes_ : catalog_meta_.indexes[id] = indexes_[id].page
  /\ \A id \in DOMAIN indexes_ \ UnderWay :
       /\ id < next_index_id_
       /\ indexes_[id].page \in DOMAIN pages
       /\ pages[indexes_[id].page] = IndexMeta(id)

\* The roots page has the root of every index.
Trees ==
  /\ IdMap(roots, Page)
  /\ \A id \in DOMAIN indexes_ : indexes_[id].root = GetRootId(id)

File ==
  /\ meta_page = catalog_meta_
  /\ catalog_meta_ = [tables |-> catalog_meta_.tables, indexes |-> catalog_meta_.indexes]
  /\ next_page \in 2 .. MaxPages + 2 /\ DOMAIN pages \subseteq 2 .. next_page - 1
  /\ next_table_id_ \in 0 .. MaxId /\ next_index_id_ \in 0 .. MaxId
  /\ pinned \subseteq Page

\* What the second half of a creation finds.
Control ==
  /\ pc.op \in {"idle", "table", "index"}
  /\ pc.op = "table" =>
       /\ pc.page \in DOMAIN pages /\ next_table_id_ \in Id
       /\ \E t \in TableName \ DOMAIN table_names_, schema \in Columns, first \in Page :
            pages[pc.page] = [id |-> next_table_id_, name |-> t, schema |-> schema,
                              first |-> first]
  /\ pc.op = "index" =>
       /\ pc.page \in Page /\ pc.page < next_page /\ pc.page \notin DOMAIN pages
       /\ indexes_[next_index_id_].page = pc.page

CatalogInv ==
  /\ TableMaps /\ TablesSaved
  /\ IndexMaps /\ IndexTables /\ IndexesSaved /\ Trees
  /\ File /\ Control

-----------------------------------------------------------------------------
(***************************************************************************)
(* What the invariant says.                                                *)
(***************************************************************************)

\* Where a name has one id, a restart finds it.
LEMMA FirstOfOne ==
  ASSUME NEW x \in Int
  PROVE  First({x}) = x
BY DEF First

\* LoadTable for every table in the catalog page.
LEMMA ReloadTables ==
  ASSUME CatalogInv
  PROVE  LoadedTables = tables_ /\ LoadedTableNames = table_names_
<1>1. /\ TableMaps /\ DOMAIN meta_page.tables = DOMAIN tables_
      /\ \A id \in DOMAIN tables_ : pages[meta_page.tables[id]] = TableMeta(id)
  BY DEF CatalogInv, TablesSaved, File
<1>2. tables_ \in [DOMAIN tables_ -> TableInfo] /\ DOMAIN tables_ \subseteq Int
  BY <1>1 DEF TableMaps, IdMap, Id
<1>3. LoadedTables = tables_
  <2> DEFINE m(id) == pages[meta_page.tables[id]]
             loaded(id) == [name |-> m(id).name, schema |-> m(id).schema,
                            first |-> m(id).first]
  <2>1. ASSUME NEW id \in DOMAIN tables_ PROVE tables_[id] = loaded(id)
    <3>1. m(id) = TableMeta(id) /\ tables_[id] \in TableInfo
      BY <1>1, <1>2
    <3> HIDE DEF m
    <3>2. QED
      BY <3>1 DEF TableInfo, TableMeta
  <2>2. LoadedTables = [id \in DOMAIN meta_page.tables |-> loaded(id)]
    BY Zenon DEF LoadedTables
  <2> HIDE DEF loaded
  <2>3. LoadedTables = [id \in DOMAIN tables_ |-> loaded(id)]
    BY <1>1, <2>2
  <2>4. QED
    BY <1>2, <2>1, <2>3
<1>4. LoadedTableNames = table_names_
  <2>1. {tables_[id].name : id \in DOMAIN tables_} = DOMAIN table_names_
    <3>1. \A id \in DOMAIN tables_ : tables_[id].name \in DOMAIN table_names_
      BY <1>1 DEF TableMaps
    <3>2. \A t \in DOMAIN table_names_ : \E id \in DOMAIN tables_ : tables_[id].name = t
      BY <1>1 DEF TableMaps
    <3>3. QED
      BY <3>1, <3>2
  <2>2. ASSUME NEW t \in DOMAIN table_names_
        PROVE  First({id \in DOMAIN tables_ : tables_[id].name = t}) = table_names_[t]
    <3>1. {id \in DOMAIN tables_ : tables_[id].name = t} = {table_names_[t]}
      BY <1>1 DEF TableMaps
    <3>2. table_names_[t] \in Int
      BY <1>1, <1>2 DEF TableMaps
    <3>3. QED
      BY <3>1, <3>2, FirstOfOne
  <2>3. LoadedTableNames = [t \in DOMAIN table_names_ |-> table_names_[t]]
    BY <1>3, <2>1, <2>2 DEF LoadedTableNames
  <2>4. QED
    BY <1>1, <2>3 DEF TableMaps
<1>5. QED
  BY <1>3, <1>4

\* LoadIndex for every index in the catalog page, unless the program stopped
\* between the two writes of CreateIndex: it ends exactly if the tables of all
\* indexes are there, and then with the maps that were in memory.
LEMMA ReloadIndexes ==
  ASSUME CatalogInv, pc.op # "index"
  PROVE  /\ Loadable <=> NoOrphan
         /\ NoOrphan => LoadedIndexes = indexes_ /\ LoadedIndexNames = index_names_
<1>1. /\ IndexMaps /\ IndexTables /\ UnderWay = {}
      /\ DOMAIN meta_page.indexes = DOMAIN indexes_
      /\ DOMAIN meta_page.tables = DOMAIN tables_
      /\ \A id \in DOMAIN indexes_ :
           /\ meta_page.indexes[id] = indexes_[id].page
           /\ indexes_[id].page \in DOMAIN pages
           /\ pages[indexes_[id].page] = IndexMeta(id)
           /\ indexes_[id].root = GetRootId(id)
  BY DEF CatalogInv, IndexesSaved, TablesSaved, Trees, File, UnderWay
<1>2. indexes_ \in [DOMAIN indexes_ -> IndexInfo] /\ DOMAIN indexes_ \subseteq Int
  BY <1>1 DEF IndexMaps, IdMap, Id
<1>3. \A id : /\ IndexMeta(id).id = id /\ IndexMeta(id).name = indexes_[id].name
               /\ IndexMeta(id).keys = indexes_[id].keys
               /\ IndexMeta(id).table_id = indexes_[id].table_id
  BY DEF IndexMeta
<1>4. Loadable <=> NoOrphan
  BY <1>1, <1>3 DEF Loadable, NoOrphan
<1> SUFFICES ASSUME NoOrphan
             PROVE  LoadedIndexes = indexes_ /\ LoadedIndexNames = index_names_
  BY <1>4
<1>5. LoadedIndexes = indexes_
  <2> DEFINE m(id) == pages[meta_page.indexes[id]]
             loaded(id) ==
               [name |-> m(id).name, keys |-> m(id).keys, table_id |-> m(id).table_id,
                table |-> LoadedTables[m(id).table_id].first,
                page |-> meta_page.indexes[id], root |-> GetRootId(m(id).id)]
  <2>1. ASSUME NEW id \in DOMAIN indexes_
        PROVE  indexes_[id] = loaded(id)
    <3>1. indexes_[id] \in IndexInfo
      BY <1>2
    <3>2. PICK k \in DOMAIN index_names_ : index_names_[k] = id
      BY <1>1 DEF IndexMaps
    <3>3. indexes_[id].table = LoadedTables[indexes_[id].table_id].first
      BY <1>1, <3>2, ReloadTables DEF IndexTables, NoOrphan
    <3>4. indexes_[id] =
            [name |-> indexes_[id].name, keys |-> indexes_[id].keys,
             table_id |-> indexes_[id].table_id, table |-> indexes_[id].table,
             page |-> indexes_[id].page, root |-> indexes_[id].root]
      BY <3>1 DEF IndexInfo
    <3>5. m(id) = IndexMeta(id) /\ meta_page.indexes[id] = indexes_[id].page
          /\ indexes_[id].root = GetRootId(id)
      BY <1>1
    <3> HIDE DEF m
    <3>6. QED
      BY <1>3, <3>3, <3>4, <3>5
  <2>2. LoadedIndexes = [id \in DOMAIN meta_page.indexes |-> loaded(id)]
    BY Zenon DEF LoadedIndexes
  <2> HIDE DEF loaded
  <2>3. LoadedIndexes = [id \in DOMAIN indexes_ |-> loaded(id)]
    BY <1>1, <2>2
  <2>4. QED
    BY <1>2, <2>1, <2>3
<1>6. LoadedIndexNames = index_names_
  <2>1. ASSUME NEW k \in DOMAIN index_names_
        PROVE  index_names_[k] \in DOMAIN indexes_ /\ IndexKey(index_names_[k]) = k
    <3> DEFINE info == indexes_[index_names_[k]]
    <3>1. k \in TableName \X IndexName /\ index_names_[k] \in DOMAIN indexes_
          /\ info.name = k[2]
      BY <1>1 DEF IndexMaps
    <3>2. tables_[info.table_id].name = k[1]
      BY <1>1, <3>1 DEF IndexTables, NoOrphan
    <3>3. IndexKey(index_names_[k]) = <<tables_[info.table_id].name, info.name>>
      BY <1>5, ReloadTables DEF IndexKey
    <3> HIDE DEF info
    <3>4. k = <<k[1], k[2]>>
      BY <3>1
    <3>5. QED
      BY <3>1, <3>2, <3>3, <3>4
  <2>2. \A id \in DOMAIN indexes_ :
          IndexKey(id) \in DOMAIN index_names_ /\ index_names_[IndexKey(id)] = id
    BY <1>1, <2>1 DEF IndexMaps
  <2>3. {IndexKey(id) : id \in DOMAIN indexes_} = DOMAIN index_names_
    BY <2>1, <2>2
  <2>4. ASSUME NEW k \in DOMAIN index_names_
        PROVE  First({id \in DOMAIN indexes_ : IndexKey(id) = k}) = index_names_[k]
    <3>1. {id \in DOMAIN indexes_ : IndexKey(id) = k} = {index_names_[k]}
      BY <2>1, <2>2
    <3>2. index_names_[k] \in Int
      BY <1>2, <2>1
    <3>3. QED
      BY <3>1, <3>2, FirstOfOne
  <2>5. LoadedIndexNames = [k \in DOMAIN index_names_ |-> index_names_[k]]
    BY <1>5, <2>3, <2>4 DEF LoadedIndexNames
  <2>6. QED
    BY <1>1, <2>5 DEF IndexMaps
<1>7. QED
  BY <1>5, <1>6

\* The invariant implies what the runs check.
LEMMA CatalogInvImplies == CatalogInv => MapsAgree /\ ReloadAgrees
<1> SUFFICES ASSUME CatalogInv PROVE MapsAgree /\ ReloadAgrees
  OBVIOUS
<1>1. TypeOK
  BY DEF CatalogInv, TableMaps, TablesSaved, IndexMaps, IndexesSaved, Trees, File,
         Control, TypeOK
<1>2. MapsAgree
  BY <1>1 DEF CatalogInv, TableMaps, TablesSaved, IndexMaps, IndexesSaved, MapsAgree
<1>3. ReloadAgrees
  BY ReloadTables, ReloadIndexes DEF ReloadAgrees
<1>4. QED
  BY <1>2, <1>3

-----------------------------------------------------------------------------
(***************************************************************************)
(* What a step leaves alone.                                               *)
(***************************************************************************)

\* No page that is written is ever overwritten.
PagesKept ==
  /\ DOMAIN pages \subseteq DOMAIN pages'
  /\ \A p \in DOMAIN pages : pages'[p] = pages[p]

\* A page that is written keeps all the others.
LEMMA WritePage ==
  ASSUME NEW p, NEW v, p \notin DOMAIN pages, pages' = Emplace(pages, p, v)
  PROVE  PagesKept /\ DOMAIN pages' = DOMAIN pages \union {p} /\ pages'[p] = v
BY DEF Emplace, PagesKept

\* A step that leaves the tables alone.
LEMMA TablesKept ==
  ASSUME TableMaps, TablesSaved, table_names_' = table_names_, tables_' = tables_,
         catalog_meta_'.tables = catalog_meta_.tables, PagesKept,
         \A id \in DOMAIN tables_ : id < next_table_id_'
  PROVE  TableMaps' /\ TablesSaved'
<1>1. TableMaps'
  BY DEF TableMaps, IdMap
<1>2. \A id : TableMeta(id)' = TableMeta(id)
  BY DEF TableMeta
<1>3. \A id \in DOMAIN tables_ :
        /\ catalog_meta_.tables[id] \in DOMAIN pages'
        /\ pages'[catalog_meta_.tables[id]] = TableMeta(id)
  BY DEF TablesSaved, PagesKept
<1>4. TablesSaved'
  BY <1>2, <1>3 DEF TablesSaved, IdMap
<1>5. QED
  BY <1>1, <1>4

\* A step that leaves the maps of indexes alone, and the tables of their ids.
LEMMA IndexMapsKept ==
  ASSUME IndexMaps, IndexTables, index_names_' = index_names_, indexes_' = indexes_,
         \A id \in DOMAIN indexes_ :
           /\ indexes_[id].table_id < next_table_id_'
           /\ indexes_[id].table_id \in DOMAIN tables_' =>
                /\ indexes_[id].table_id \in DOMAIN tables_
                /\ tables_'[indexes_[id].table_id] = tables_[indexes_[id].table_id]
  PROVE  IndexMaps' /\ IndexTables'
<1>1. IndexMaps'
  BY DEF IndexMaps, IdMap
<1>2. \A k \in DOMAIN index_names_ : index_names_[k] \in DOMAIN indexes_
  BY DEF IndexMaps
<1>3. IndexTables'
  BY <1>2 DEF IndexTables
<1>4. QED
  BY <1>1, <1>3

\* A step that leaves the indexes in the file alone.
LEMMA IndexesSavedKept ==
  ASSUME IndexesSaved, indexes_' = indexes_,
         catalog_meta_'.indexes = catalog_meta_.indexes, PagesKept, UnderWay' = UnderWay,
         \A id \in DOMAIN indexes_ \ UnderWay : id < next_index_id_'
  PROVE  IndexesSaved'
<1>1. \A id : IndexMeta(id)' = IndexMeta(id)
  BY DEF IndexMeta
<1>2. \A id \in DOMAIN indexes_ \ UnderWay :
        /\ indexes_[id].page \in DOMAIN pages'
        /\ pages'[indexes_[id].page] = IndexMeta(id)
  BY DEF IndexesSaved, PagesKept
<1>3. QED
  BY <1>1, <1>2 DEF IndexesSaved, IdMap

\* A step that leaves the trees alone.
LEMMA TreesKept ==
  ASSUME Trees, indexes_' = indexes_, roots' = roots
  PROVE  Trees'
<1>1. \A id : GetRootId(id)' = GetRootId(id)
  BY DEF GetRootId
<1>2. QED
  BY <1>1 DEF Trees, IdMap

-----------------------------------------------------------------------------
(***************************************************************************)
(* The steps.                                                              *)
(***************************************************************************)
\* The invariant holds at first.
LEMMA InitCatalogInv == Init => CatalogInv
<1> SUFFICES ASSUME Init PROVE CatalogInv
  OBVIOUS
<1>1. DOMAIN EmptyMap = {} /\ \A S : EmptyMap \in [{} -> S]
  BY DEF EmptyMap
<1>2. /\ table_names_ = EmptyMap /\ tables_ = EmptyMap
      /\ index_names_ = EmptyMap /\ indexes_ = EmptyMap
      /\ catalog_meta_.tables = EmptyMap /\ catalog_meta_.indexes = EmptyMap
      /\ pc.op = "idle" /\ roots = EmptyMap /\ pages = EmptyMap
      /\ UnderWay = {}
  BY DEF Init, Idle, UnderWay
<1>3. TableMaps /\ TablesSaved
  BY <1>1, <1>2 DEF TableMaps, TablesSaved, IdMap
<1>4. IndexMaps /\ IndexTables
  BY <1>1, <1>2 DEF IndexMaps, IndexTables, IdMap
<1>5. IndexesSaved /\ Trees
  BY <1>1, <1>2 DEF IndexesSaved, Trees, IdMap
<1>6. File
  BY <1>1, <1>2, CatalogAssumption DEF File, Init
<1>7. QED
  BY <1>2, <1>3, <1>4, <1>5, <1>6 DEF CatalogInv, Control

\* A step that touches neither the maps nor the file.
LEMMA StutterStep ==
  ASSUME CatalogInv, UNCHANGED vars
  PROVE  CatalogInv'
<1>1. /\ table_names_' = table_names_ /\ tables_' = tables_
      /\ index_names_' = index_names_ /\ indexes_' = indexes_
      /\ catalog_meta_' = catalog_meta_ /\ next_table_id_' = next_table_id_
      /\ next_index_id_' = next_index_id_ /\ pinned' = pinned /\ pc' = pc
      /\ meta_page' = meta_page /\ roots' = roots /\ pages' = pages
      /\ next_page' = next_page
  BY DEF vars, memVars, fileVars
<1>2. PagesKept /\ UnderWay' = UnderWay
  BY <1>1 DEF PagesKept, UnderWay
<1>3. TableMaps' /\ TablesSaved'
  <2>1. TableMaps /\ TablesSaved /\ \A id \in DOMAIN tables_ : id < next_table_id_'
    BY <1>1 DEF CatalogInv, TablesSaved
  <2>2. QED
    BY <1>1, <1>2, <2>1, TablesKept
<1>4. IndexMaps' /\ IndexTables'
  BY <1>1, IndexMapsKept DEF CatalogInv, IndexTables
<1>5. IndexesSaved'
  <2>1. IndexesSaved /\ \A id \in DOMAIN indexes_ \ UnderWay : id < next_index_id_'
    BY <1>1 DEF CatalogInv, IndexesSaved
  <2>2. QED
    BY <1>1, <1>2, <2>1, IndexesSavedKept
<1>6. Trees'
  BY <1>1, <1>2, TreesKept DEF CatalogInv
<1>7. File'
  BY <1>1 DEF CatalogInv, File
<1>8. Control'
  BY <1>1 DEF CatalogInv, Control
<1>9. QED
  BY <1>3, <1>4, <1>5, <1>6, <1>7, <1>8 DEF CatalogInv

\* Opening the database again builds the maps that were there.
LEMMA RestartStep ==
  ASSUME CatalogInv, pc.op # "index", Restart
  PROVE  CatalogInv'
<1>1. /\ table_names_' = table_names_ /\ tables_' = tables_ /\ NoOrphan
      /\ index_names_' = index_names_ /\ indexes_' = indexes_
      /\ catalog_meta_' = catalog_meta_
  BY ReloadTables, ReloadIndexes DEF Restart, CatalogInv, File
<1>2. /\ meta_page' = meta_page /\ roots' = roots /\ pages' = pages
      /\ next_page' = next_page /\ pinned' = {} /\ pc' = Idle
      /\ next_table_id_' \in 0 .. MaxId /\ next_index_id_' \in 0 .. MaxId
      /\ NextAfter(DOMAIN tables_, next_table_id_')
      /\ NextAfter(DOMAIN indexes_, next_index_id_')
  BY ReloadTables, ReloadIndexes DEF Restart, fileVars
<1>3. PagesKept /\ pc'.op = "idle" /\ UnderWay = {} /\ UnderWay' = {}
  BY <1>2 DEF PagesKept, UnderWay, Idle
<1>4. ASSUME NEW S, S \subseteq Int, NEW next, NextAfter(S, next)
      PROVE  \A id \in S : id < next
  <2>1. CASE S = {}
    BY <2>1
  <2>2. CASE S # {}
    <3>1. PICK last \in S : (\A id \in S : id <= last) /\ next = last + 1
      BY <1>4, <2>2 DEF NextAfter
    <3>2. QED
      BY <1>4, <3>1
  <2>3. QED
    BY <2>1, <2>2
<1>5. TableMaps' /\ TablesSaved'
  <2>1. TableMaps /\ TablesSaved /\ DOMAIN tables_ \subseteq Int
    BY DEF CatalogInv, TableMaps, IdMap, Id
  <2>2. \A id \in DOMAIN tables_ : id < next_table_id_'
    BY <1>2, <1>4, <2>1
  <2>3. QED
    BY <1>1, <1>3, <2>1, <2>2, TablesKept
<1>6. IndexMaps' /\ IndexTables'
  <2>1. \A id \in DOMAIN indexes_ : indexes_[id].table_id < next_table_id_'
    BY <1>1, <1>5 DEF NoOrphan, TablesSaved
  <2>2. QED
    BY <1>1, <2>1, IndexMapsKept DEF CatalogInv
<1>7. IndexesSaved'
  <2>1. IndexesSaved /\ DOMAIN indexes_ \subseteq Int
    BY DEF CatalogInv, IndexMaps, IdMap, Id
  <2>2. \A id \in DOMAIN indexes_ : id < next_index_id_'
    BY <1>2, <1>4, <2>1
  <2>3. QED
    BY <1>1, <1>3, <2>1, <2>2, IndexesSavedKept
<1>8. Trees'
  BY <1>1, <1>2, <1>3, TreesKept DEF CatalogInv
<1>9. File'
  BY <1>1, <1>2 DEF CatalogInv, File
<1>10. QED
  BY <1>3, <1>5, <1>6, <1>7, <1>8, <1>9 DEF CatalogInv, Control

\* CreateTable writes a page that no map names yet.
LEMMA CreateTableStep ==
  ASSUME CatalogInv, NEW t \in TableName, NEW schema \in Columns, CreateTable(t, schema)
  PROVE  CatalogInv'
<1> DEFINE rec == [id |-> next_table_id_, name |-> t, schema |-> schema, first |-> next_page]
<1>1. /\ table_names_' = table_names_ /\ tables_' = tables_
      /\ index_names_' = index_names_ /\ indexes_' = indexes_
      /\ catalog_meta_' = catalog_meta_ /\ next_table_id_' = next_table_id_
      /\ next_index_id_' = next_index_id_ /\ pinned' = pinned
      /\ meta_page' = meta_page /\ roots' = roots
  BY DEF CreateTable
<1>2. /\ pc = Idle /\ t \notin DOMAIN table_names_
      /\ next_page + 1 \in Page /\ next_table_id_ \in Id
      /\ pages' = Emplace(pages, next_page + 1, rec)
      /\ next_page' = next_page + 2 /\ pc' = [op |-> "table", page |-> next_page + 1]
  BY DEF CreateTable
<1>3. /\ next_page \in 2 .. MaxPages + 2 /\ next_page \in Page
      /\ DOMAIN pages \subseteq 2 .. next_page - 1
  BY <1>2, CatalogAssumption DEF CatalogInv, File, Page
<1> HIDE DEF rec
<1>4. PagesKept /\ DOMAIN pages' = DOMAIN pages \union {next_page + 1} /\ pages'[next_page + 1] = rec
  <2>1. next_page + 1 \notin DOMAIN pages
    BY <1>3
  <2>2. QED
    BY <1>2, <2>1, WritePage
<1>5. pc'.op = "table" /\ pc'.page = next_page + 1 /\ UnderWay = {} /\ UnderWay' = {}
  BY <1>2 DEF UnderWay, Idle
<1>6. TableMaps' /\ TablesSaved'
  <2>1. TableMaps /\ TablesSaved /\ \A id \in DOMAIN tables_ : id < next_table_id_'
    BY <1>1 DEF CatalogInv, TablesSaved
  <2>2. QED
    BY <1>1, <1>4, <2>1, TablesKept
<1>7. IndexMaps' /\ IndexTables'
  BY <1>1, IndexMapsKept DEF CatalogInv, IndexTables
<1>8. IndexesSaved'
  <2>1. IndexesSaved /\ \A id \in DOMAIN indexes_ \ UnderWay : id < next_index_id_'
    BY <1>1 DEF CatalogInv, IndexesSaved
  <2>2. QED
    BY <1>1, <1>4, <1>5, <2>1, IndexesSavedKept
<1>9. Trees'
  BY <1>1, <1>4, TreesKept DEF CatalogInv
<1>10. File'
  <2>1. next_page' \in 2 .. MaxPages + 2 /\ DOMAIN pages' \subseteq 2 .. next_page' - 1
    BY <1>2, <1>3, <1>4, CatalogAssumption DEF Page
  <2>2. QED
    BY <1>1, <2>1 DEF CatalogInv, File
<1>11. Control'
  <2>1. pages'[pc'.page] = [id |-> next_table_id_', name |-> t, schema |-> schema,
                            first |-> next_page]
    BY <1>1, <1>4, <1>5 DEF rec
  <2>2. pc'.page \in DOMAIN pages' /\ next_table_id_' \in Id /\ t \notin DOMAIN table_names_'
    BY <1>1, <1>2, <1>4, <1>5
  <2>3. QED
    BY <1>3, <1>5, <2>1, <2>2 DEF Control
<1>12. QED
  BY <1>6, <1>7, <1>8, <1>9, <1>10, <1>11 DEF CatalogInv

\* The second half: the id is new, so every emplace takes effect.
LEMMA CreateTableReturnStep ==
  ASSUME CatalogInv, CreateTableReturn
  PROVE  CatalogInv'
<1>1. /\ index_names_' = index_names_ /\ indexes_' = indexes_
      /\ next_index_id_' = next_index_id_ /\ pinned' = pinned /\ roots' = roots
      /\ pages' = pages /\ next_page' = next_page /\ pc.op = "table" /\ pc' = Idle
      /\ next_table_id_' = next_table_id_ + 1 /\ meta_page' = catalog_meta_'
  BY DEF CreateTableReturn
<1>2. PICK t \in TableName \ DOMAIN table_names_, schema \in Columns, first \in Page :
        pages[pc.page] = [id |-> next_table_id_, name |-> t, schema |-> schema,
                          first |-> first]
  BY <1>1 DEF CatalogInv, Control
<1> DEFINE id == next_table_id_
           info == [name |-> t, schema |-> schema, first |-> first]
<1>3. /\ catalog_meta_' = [catalog_meta_ EXCEPT !.tables = Emplace(@, id, pc.page)]
      /\ table_names_' = Emplace(table_names_, t, id)
      /\ tables_' = Emplace(tables_, id, info)
  BY <1>2 DEF CreateTableReturn
<1>4. /\ id \in Id /\ id \notin DOMAIN tables_ /\ id \notin DOMAIN catalog_meta_.tables
      /\ \A x \in DOMAIN tables_ : x < id + 1
      /\ info \in TableInfo /\ pc.page \in DOMAIN pages /\ pc.page \in Page
  <2>1. \A x \in DOMAIN tables_ : x \in Int /\ x < id
    BY DEF CatalogInv, TablesSaved, TableMaps, IdMap, Id
  <2>2. DOMAIN catalog_meta_.tables = DOMAIN tables_ /\ id \in Id /\ pc.page \in DOMAIN pages
    BY <1>1 DEF CatalogInv, TablesSaved, Control
  <2>3. pc.page \in Page
    BY <2>2, CatalogAssumption DEF CatalogInv, File, Page
  <2>4. info \in TableInfo
    BY DEF TableInfo
  <2>5. QED
    BY <2>1, <2>2, <2>3, <2>4 DEF Id
<1> HIDE DEF info
<1>5. /\ DOMAIN tables_' = DOMAIN tables_ \union {id} /\ tables_'[id] = info
      /\ \A x \in DOMAIN tables_ : tables_'[x] = tables_[x]
      /\ tables_' \in [DOMAIN tables_' -> TableInfo]
  <2>1. tables_ \in [DOMAIN tables_ -> TableInfo]
    BY DEF CatalogInv, TableMaps, IdMap
  <2>2. QED
    BY <1>3, <1>4, <2>1 DEF Emplace
<1>6. /\ DOMAIN table_names_' = DOMAIN table_names_ \union {t} /\ table_names_'[t] = id
      /\ \A x \in DOMAIN table_names_ : table_names_'[x] = table_names_[x]
      /\ table_names_' \in [DOMAIN table_names_' -> Id]
  <2>1. table_names_ \in [DOMAIN table_names_ -> Id]
    BY DEF CatalogInv, TableMaps
  <2>2. QED
    BY <1>2, <1>3, <1>4, <2>1 DEF Emplace
<1>7. /\ catalog_meta_'.tables = Emplace(catalog_meta_.tables, id, pc.page)
      /\ catalog_meta_'.indexes = catalog_meta_.indexes
      /\ catalog_meta_' = [tables |-> catalog_meta_'.tables, indexes |-> catalog_meta_'.indexes]
  BY <1>3 DEF CatalogInv, File
<1>8. LET f == catalog_meta_.tables
          g == catalog_meta_'.tables
      IN  /\ DOMAIN g = DOMAIN f \union {id} /\ g[id] = pc.page
          /\ \A x \in DOMAIN f : g[x] = f[x]
          /\ g \in [DOMAIN g -> Page]
  <2>1. catalog_meta_.tables \in [DOMAIN catalog_meta_.tables -> Page]
    BY DEF CatalogInv, TablesSaved, IdMap
  <2>2. QED
    BY <1>4, <1>7, <2>1 DEF Emplace
<1>9. info.name = t /\ info.schema = schema /\ info.first = first
  BY DEF info
<1>10. PagesKept /\ pc'.op = "idle" /\ UnderWay = {} /\ UnderWay' = {}
  BY <1>1 DEF PagesKept, UnderWay, Idle
<1>11. TableMaps'
  <2>1. DOMAIN tables_' \subseteq Id /\ DOMAIN table_names_' \subseteq TableName
    BY <1>4, <1>5, <1>6 DEF CatalogInv, TableMaps, IdMap
  <2>2. \A x \in DOMAIN table_names_' :
          table_names_'[x] \in DOMAIN tables_' /\ tables_'[table_names_'[x]].name = x
    BY <1>5, <1>6, <1>9 DEF CatalogInv, TableMaps
  <2>3. \A x \in DOMAIN tables_' :
          tables_'[x].name \in DOMAIN table_names_' /\ table_names_'[tables_'[x].name] = x
    BY <1>5, <1>6, <1>9 DEF CatalogInv, TableMaps
  <2>4. QED
    BY <1>5, <1>6, <2>1, <2>2, <2>3 DEF TableMaps, IdMap
<1>12. TablesSaved'
  <2>1. DOMAIN catalog_meta_'.tables = DOMAIN tables_' /\ IdMap(catalog_meta_.tables, Page)'
    BY <1>4, <1>5, <1>8 DEF CatalogInv, TablesSaved, IdMap
  <2>2. ASSUME NEW x \in DOMAIN tables_'
        PROVE  /\ x < next_table_id_'
               /\ catalog_meta_'.tables[x] \in DOMAIN pages'
               /\ pages'[catalog_meta_'.tables[x]] = TableMeta(x)'
    <3>1. CASE x \in DOMAIN tables_
      <4>1. catalog_meta_'.tables[x] = catalog_meta_.tables[x] /\ TableMeta(x)' = TableMeta(x)
        BY <1>5, <1>8, <3>1 DEF CatalogInv, TablesSaved, TableMeta
      <4>2. QED
        BY <1>1, <1>4, <3>1, <4>1 DEF CatalogInv, TablesSaved
    <3>2. CASE x = id
      <4>1. TableMeta(x)' = [id |-> id, name |-> t, schema |-> schema, first |-> first]
        BY <1>5, <1>9, <3>2 DEF TableMeta
      <4>2. id < next_table_id_'
        BY <1>1, <1>4 DEF Id
      <4>3. QED
        BY <1>1, <1>2, <1>4, <1>8, <3>2, <4>1, <4>2
    <3>3. QED
      BY <1>5, <3>1, <3>2
  <2>3. QED
    BY <2>1, <2>2 DEF TablesSaved, IdMap
<1>13. IndexMaps' /\ IndexTables'
  <2>1. ASSUME NEW x \in DOMAIN indexes_
        PROVE  indexes_[x].table_id # id /\ indexes_[x].table_id < next_table_id_'
    <3>1. indexes_[x].table_id < id /\ indexes_[x].table_id \in Int /\ id \in Int
      BY <1>4 DEF CatalogInv, IndexTables, IndexMaps, IdMap, IndexInfo, Id
    <3>2. QED
      BY <1>1, <3>1
  <2>2. QED
    BY <1>1, <1>5, <2>1, IndexMapsKept DEF CatalogInv
<1>14. IndexesSaved'
  <2>1. IndexesSaved /\ \A x \in DOMAIN indexes_ \ UnderWay : x < next_index_id_'
    BY <1>1 DEF CatalogInv, IndexesSaved
  <2>2. QED
    BY <1>1, <1>7, <1>10, <2>1, IndexesSavedKept
<1>15. Trees'
  BY <1>1, <1>10, TreesKept DEF CatalogInv
<1>16. File'
  <2>1. next_table_id_' \in 0 .. MaxId
    BY <1>1, <1>4, CatalogAssumption DEF Id
  <2>2. QED
    BY <1>1, <1>7, <2>1 DEF CatalogInv, File
<1>17. QED
  BY <1>10, <1>11, <1>12, <1>13, <1>14, <1>15, <1>16 DEF CatalogInv, Control

\* CreateIndex: the id is new; the root is the one recorded for it, if any.
LEMMA CreateIndexStep ==
  ASSUME CatalogInv, NEW t \in TableName, NEW i \in IndexName, NEW keys \in Columns,
         CreateIndex(t, i, keys)
  PROVE  CatalogInv'
<1> DEFINE id == next_index_id_
           info == [name |-> i, keys |-> keys, table_id |-> table_names_[t],
                    table |-> tables_[table_names_[t]].first, page |-> next_page,
                    root |-> GetRootId(id)]
<1>1. /\ table_names_' = table_names_ /\ tables_' = tables_
      /\ next_table_id_' = next_table_id_ /\ next_index_id_' = next_index_id_
      /\ pinned' = pinned /\ roots' = roots /\ pages' = pages
      /\ next_page' = next_page + 1 /\ meta_page' = catalog_meta_'
  BY DEF CreateIndex
<1>2. /\ pc = Idle /\ pc' = [op |-> "index", page |-> next_page]
      /\ t \in DOMAIN table_names_ /\ keys \subseteq tables_[table_names_[t]].schema
      /\ <<t, i>> \notin DOMAIN index_names_ /\ next_page \in Page /\ id \in Id
      /\ index_names_' = Emplace(index_names_, <<t, i>>, id)
      /\ indexes_' = Emplace(indexes_, id, info)
      /\ catalog_meta_' = [catalog_meta_ EXCEPT !.indexes = Emplace(@, id, next_page)]
  BY DEF CreateIndex
<1>3. /\ UnderWay = {} /\ UnderWay' = {id}
      /\ pc'.op = "index" /\ pc'.page = next_page
  BY <1>1, <1>2 DEF UnderWay, Idle
<1>4. /\ table_names_[t] \in DOMAIN tables_ /\ table_names_[t] \in Id
      /\ tables_[table_names_[t]] \in TableInfo /\ tables_[table_names_[t]].name = t
  BY <1>2 DEF CatalogInv, TableMaps, IdMap
<1>5. GetRootId(id) \in Page \union {INVALID_PAGE_ID}
  BY DEF CatalogInv, Trees, IdMap, GetRootId
<1>6. info \in IndexInfo
  BY <1>2, <1>4, <1>5 DEF IndexInfo, TableInfo
<1>7. /\ info.name = i /\ info.keys = keys /\ info.table_id = table_names_[t]
      /\ info.table = tables_[table_names_[t]].first /\ info.page = next_page
      /\ info.root = GetRootId(id)
  OBVIOUS
<1>8. /\ id \notin DOMAIN indexes_ /\ id \notin DOMAIN catalog_meta_.indexes
      /\ \A x \in DOMAIN indexes_ : x < id
  <2>1. \A x \in DOMAIN indexes_ : x \in Int /\ x < id
    BY <1>3 DEF CatalogInv, IndexesSaved, IndexMaps, IdMap, Id
  <2>2. DOMAIN catalog_meta_.indexes = DOMAIN indexes_
    BY DEF CatalogInv, IndexesSaved
  <2>3. QED
    BY <2>1, <2>2
<1> HIDE DEF info
<1>9. /\ DOMAIN indexes_' = DOMAIN indexes_ \union {id} /\ indexes_'[id] = info
      /\ \A x \in DOMAIN indexes_ : indexes_'[x] = indexes_[x]
      /\ indexes_' \in [DOMAIN indexes_' -> IndexInfo]
  <2>1. indexes_ \in [DOMAIN indexes_ -> IndexInfo]
    BY DEF CatalogInv, IndexMaps, IdMap
  <2>2. QED
    BY <1>2, <1>6, <1>8, <2>1 DEF Emplace
<1> DEFINE key == <<t, i>>
<1>10. key \in TableName \X IndexName /\ key \notin DOMAIN index_names_
       /\ index_names_' = Emplace(index_names_, key, id)
  BY <1>2
<1>11. /\ indexes_'[id].table_id = table_names_[t] /\ indexes_'[id].name = i
       /\ indexes_'[id].table = tables_[table_names_[t]].first
       /\ key[1] = t /\ key[2] = i
  BY <1>4, <1>7, <1>9
<1> HIDE DEF key
<1>12. /\ DOMAIN index_names_' = DOMAIN index_names_ \union {key} /\ index_names_'[key] = id
       /\ \A k \in DOMAIN index_names_ : index_names_'[k] = index_names_[k]
       /\ index_names_' \in [DOMAIN index_names_' -> Id]
  <2>1. index_names_ \in [DOMAIN index_names_ -> Id]
    BY DEF CatalogInv, IndexMaps
  <2>2. QED
    BY <1>2, <1>10, <2>1 DEF Emplace
<1>13. /\ catalog_meta_'.indexes = Emplace(catalog_meta_.indexes, id, next_page)
       /\ catalog_meta_'.tables = catalog_meta_.tables
       /\ catalog_meta_' = [tables |-> catalog_meta_'.tables, indexes |-> catalog_meta_'.indexes]
  BY <1>2 DEF CatalogInv, File
<1>14. LET f == catalog_meta_.indexes
           g == catalog_meta_'.indexes
       IN  /\ DOMAIN g = DOMAIN f \union {id} /\ g[id] = next_page
           /\ \A x \in DOMAIN f : g[x] = f[x]
           /\ g \in [DOMAIN g -> Page]
  <2>1. catalog_meta_.indexes \in [DOMAIN catalog_meta_.indexes -> Page]
    BY DEF CatalogInv, IndexesSaved, IdMap
  <2>2. QED
    BY <1>2, <1>8, <1>13, <2>1 DEF Emplace
<1>15. PagesKept
  BY <1>1 DEF PagesKept
<1>16. TableMaps' /\ TablesSaved'
  <2>1. TableMaps /\ TablesSaved /\ \A x \in DOMAIN tables_ : x < next_table_id_'
    BY <1>1 DEF CatalogInv, TablesSaved
  <2>2. QED
    BY <1>1, <1>13, <1>15, <2>1, TablesKept
<1>17. IndexMaps'
  <2>1. DOMAIN indexes_' \subseteq Id /\ DOMAIN index_names_' \subseteq TableName \X IndexName
    BY <1>2, <1>9, <1>10, <1>12 DEF CatalogInv, IndexMaps, IdMap
  <2>2. \A k \in DOMAIN index_names_' :
          index_names_'[k] \in DOMAIN indexes_' /\ indexes_'[index_names_'[k]].name = k[2]
    BY <1>9, <1>11, <1>12 DEF CatalogInv, IndexMaps
  <2>3. \A k, l \in DOMAIN index_names_' : index_names_'[k] = index_names_'[l] => k = l
    BY <1>8, <1>12 DEF CatalogInv, IndexMaps
  <2>4. \A x \in DOMAIN indexes_' : \E k \in DOMAIN index_names_' : index_names_'[k] = x
    BY <1>9, <1>12 DEF CatalogInv, IndexMaps
  <2>5. QED
    BY <1>9, <1>12, <2>1, <2>2, <2>3, <2>4 DEF IndexMaps, IdMap
<1>18. IndexTables'
  <2>1. table_names_[t] < next_table_id_
    BY <1>4 DEF CatalogInv, TablesSaved
  <2>2. \A x \in DOMAIN indexes_' : indexes_'[x].table_id < next_table_id_'
    BY <1>1, <1>9, <1>11, <2>1 DEF CatalogInv, IndexTables
  <2>3. ASSUME NEW k \in DOMAIN index_names_',
               indexes_'[index_names_'[k]].table_id \in DOMAIN tables_
        PROVE  /\ tables_[indexes_'[index_names_'[k]].table_id].name = k[1]
               /\ indexes_'[index_names_'[k]].table
                    = tables_[indexes_'[index_names_'[k]].table_id].first
    <3>1. CASE k = key
      BY <1>4, <1>11, <1>12, <3>1
    <3>2. CASE k # key
      <4>1. /\ k \in DOMAIN index_names_ /\ index_names_'[k] = index_names_[k]
            /\ index_names_[k] \in DOMAIN indexes_
        BY <1>12, <3>2 DEF CatalogInv, IndexMaps
      <4>2. indexes_'[index_names_'[k]] = indexes_[index_names_[k]]
        BY <1>9, <4>1
      <4>3. QED
        BY <2>3, <4>1, <4>2 DEF CatalogInv, IndexTables
    <3>3. QED
      BY <3>1, <3>2
  <2>4. QED
    BY <1>1, <2>2, <2>3 DEF IndexTables
<1>19. IndexesSaved'
  <2>1. DOMAIN catalog_meta_'.indexes = DOMAIN indexes_' /\ IdMap(catalog_meta_.indexes, Page)'
    BY <1>2, <1>9, <1>14 DEF CatalogInv, IndexesSaved, IndexMaps, IdMap
  <2>2. \A x \in DOMAIN indexes_' : catalog_meta_'.indexes[x] = indexes_'[x].page
    BY <1>7, <1>9, <1>14 DEF CatalogInv, IndexesSaved
  <2>3. ASSUME NEW x \in DOMAIN indexes_' \ UnderWay'
        PROVE  /\ x < next_index_id_'
               /\ indexes_'[x].page \in DOMAIN pages'
               /\ pages'[indexes_'[x].page] = IndexMeta(x)'
    <3>1. x \in DOMAIN indexes_ /\ indexes_'[x] = indexes_[x]
      BY <1>3, <1>9
    <3>2. IndexMeta(x)' = IndexMeta(x)
      BY <3>1 DEF IndexMeta
    <3>3. QED
      BY <1>1, <1>3, <3>1, <3>2 DEF CatalogInv, IndexesSaved
  <2>4. UnderWay' \subseteq DOMAIN indexes_'
    BY <1>3, <1>9
  <2>5. QED
    BY <2>1, <2>2, <2>3, <2>4 DEF IndexesSaved, IdMap
<1>20. Trees'
  <2>1. \A x : GetRootId(x)' = GetRootId(x)
    BY <1>1 DEF GetRootId
  <2>2. \A x \in DOMAIN indexes_' : indexes_'[x].root = GetRootId(x)
    BY <1>7, <1>9 DEF CatalogInv, Trees
  <2>3. QED
    BY <1>1, <2>1, <2>2 DEF CatalogInv, Trees, IdMap
<1>21. next_page \in 2 .. MaxPages + 2 /\ DOMAIN pages \subseteq 2 .. next_page - 1
  BY DEF CatalogInv, File
<1>22. File'
  <2>1. next_page' \in 2 .. MaxPages + 2 /\ DOMAIN pages' \subseteq 2 .. next_page' - 1
    BY <1>1, <1>2, <1>21, CatalogAssumption DEF Page
  <2>2. QED
    BY <1>1, <1>13, <2>1 DEF CatalogInv, File
<1>23. Control'
  <2>1. pc'.page < next_page' /\ pc'.page \notin DOMAIN pages' /\ pc'.page \in Page
    BY <1>1, <1>2, <1>3, <1>21
  <2>2. indexes_'[next_index_id_'].page = pc'.page
    BY <1>1, <1>3, <1>7, <1>9
  <2>3. QED
    BY <1>3, <2>1, <2>2 DEF Control
<1>24. QED
  BY <1>16, <1>17, <1>18, <1>19, <1>20, <1>22, <1>23 DEF CatalogInv

\* The second half writes the metadata of the index that is under way.
LEMMA CreateIndexReturnStep ==
  ASSUME CatalogInv, CreateIndexReturn
  PROVE  CatalogInv'
<1>1. /\ table_names_' = table_names_ /\ tables_' = tables_
      /\ index_names_' = index_names_ /\ indexes_' = indexes_
      /\ catalog_meta_' = catalog_meta_ /\ next_table_id_' = next_table_id_
      /\ next_index_id_' = next_index_id_ + 1 /\ pinned' = pinned
      /\ meta_page' = meta_page /\ roots' = roots /\ next_page' = next_page
      /\ pc.op = "index" /\ pc' = Idle
      /\ pages' = Emplace(pages, pc.page, IndexMeta(next_index_id_))
  BY DEF CreateIndexReturn, IndexMeta
<1>2. /\ UnderWay = {next_index_id_} /\ UnderWay' = {} /\ pc'.op = "idle"
      /\ next_index_id_ \in DOMAIN indexes_ /\ next_index_id_ \in Id
      /\ indexes_[next_index_id_].page = pc.page
      /\ pc.page \notin DOMAIN pages /\ pc.page \in Page /\ pc.page < next_page
  BY <1>1 DEF UnderWay, Idle, CatalogInv, Control, IndexesSaved, IndexMaps, IdMap
<1>3. /\ PagesKept /\ DOMAIN pages' = DOMAIN pages \union {pc.page}
      /\ pages'[pc.page] = IndexMeta(next_index_id_)
  BY <1>1, <1>2, WritePage
<1>4. TableMaps' /\ TablesSaved'
  <2>1. TableMaps /\ TablesSaved /\ \A id \in DOMAIN tables_ : id < next_table_id_'
    BY <1>1 DEF CatalogInv, TablesSaved
  <2>2. QED
    BY <1>1, <1>3, <2>1, TablesKept
<1>5. IndexMaps' /\ IndexTables'
  BY <1>1, IndexMapsKept DEF CatalogInv, IndexTables
<1>6. IndexesSaved'
  <2>1. \A id : IndexMeta(id)' = IndexMeta(id)
    BY <1>1 DEF IndexMeta
  <2>2. ASSUME NEW id \in DOMAIN indexes_
        PROVE  /\ id < next_index_id_'
               /\ indexes_[id].page \in DOMAIN pages'
               /\ pages'[indexes_[id].page] = IndexMeta(id)
    <3>1. CASE id = next_index_id_
      BY <1>1, <1>2, <1>3, <3>1 DEF Id
    <3>2. CASE id # next_index_id_
      <4>1. /\ id < next_index_id_ /\ indexes_[id].page \in DOMAIN pages
            /\ pages[indexes_[id].page] = IndexMeta(id)
        BY <1>2, <3>2 DEF CatalogInv, IndexesSaved
      <4>2. id \in Int /\ next_index_id_ \in Int
        BY <1>2 DEF CatalogInv, IndexMaps, IdMap, Id
      <4>3. QED
        BY <1>1, <1>3, <4>1, <4>2 DEF PagesKept
    <3>3. QED
      BY <3>1, <3>2
  <2>3. QED
    BY <1>1, <1>2, <2>1, <2>2 DEF CatalogInv, IndexesSaved, IdMap
<1>7. Trees'
  BY <1>1, <1>3, TreesKept DEF CatalogInv
<1>8. File'
  <2>1. next_index_id_' \in 0 .. MaxId /\ DOMAIN pages' \subseteq 2 .. next_page' - 1
    BY <1>1, <1>2, <1>3, CatalogAssumption DEF CatalogInv, File, Id, Page
  <2>2. QED
    BY <1>1, <2>1 DEF CatalogInv, File
<1>9. QED
  BY <1>2, <1>4, <1>5, <1>6, <1>7, <1>8 DEF CatalogInv, Control

\* DropTable, of a table that may have indexes: they hold an id that is not
\* handed out again.
LEMMA DropTableStep ==
  ASSUME CatalogInv, NEW t \in TableName, DropTable(t)
  PROVE  CatalogInv'
<1> DEFINE id == table_names_[t]
<1>1. /\ index_names_' = index_names_ /\ indexes_' = indexes_
      /\ next_table_id_' = next_table_id_ /\ next_index_id_' = next_index_id_
      /\ roots' = roots /\ pages' = pages /\ next_page' = next_page /\ pc' = pc
      /\ meta_page' = catalog_meta_' /\ pc = Idle
  BY DEF DropTable
<1>2. /\ t \in DOMAIN table_names_
      /\ tables_' = Erase(tables_, id) /\ table_names_' = Erase(table_names_, t)
      /\ catalog_meta_' = [catalog_meta_ EXCEPT !.tables = Erase(@, id)]
      /\ pinned' = pinned \union {tables_[id].first}
  BY DEF DropTable
<1>3. /\ id \in DOMAIN tables_ /\ tables_[id].name = t /\ tables_[id] \in TableInfo
      /\ \A x \in DOMAIN tables_ \ {id} : tables_[x].name # t
      /\ \A u \in DOMAIN table_names_ \ {t} : table_names_[u] # id
  BY <1>2 DEF CatalogInv, TableMaps, IdMap
<1> HIDE DEF id
<1>4. /\ DOMAIN tables_' = DOMAIN tables_ \ {id}
      /\ \A x \in DOMAIN tables_' : tables_'[x] = tables_[x]
      /\ tables_' \in [DOMAIN tables_' -> TableInfo]
  <2>1. tables_ \in [DOMAIN tables_ -> TableInfo]
    BY DEF CatalogInv, TableMaps, IdMap
  <2>2. QED
    BY <1>2, <2>1 DEF Erase
<1>5. /\ DOMAIN table_names_' = DOMAIN table_names_ \ {t}
      /\ \A u \in DOMAIN table_names_' : table_names_'[u] = table_names_[u]
      /\ table_names_' \in [DOMAIN table_names_' -> Id]
  <2>1. table_names_ \in [DOMAIN table_names_ -> Id]
    BY DEF CatalogInv, TableMaps
  <2>2. QED
    BY <1>2, <2>1 DEF Erase
<1>6. /\ catalog_meta_'.tables = Erase(catalog_meta_.tables, id)
      /\ catalog_meta_'.indexes = catalog_meta_.indexes
      /\ catalog_meta_' = [tables |-> catalog_meta_'.tables, indexes |-> catalog_meta_'.indexes]
  BY <1>2 DEF CatalogInv, File
<1>7. LET f == catalog_meta_.tables
          g == catalog_meta_'.tables
      IN  /\ DOMAIN g = DOMAIN f \ {id}
          /\ \A x \in DOMAIN g : g[x] = f[x]
          /\ g \in [DOMAIN g -> Page]
  <2>1. catalog_meta_.tables \in [DOMAIN catalog_meta_.tables -> Page]
    BY DEF CatalogInv, TablesSaved, IdMap
  <2>2. QED
    BY <1>6, <2>1 DEF Erase
<1>8. PagesKept /\ UnderWay' = UnderWay
  BY <1>1 DEF PagesKept, UnderWay
<1>9. TableMaps'
  <2>1. DOMAIN tables_' \subseteq Id /\ DOMAIN table_names_' \subseteq TableName
    BY <1>4, <1>5 DEF CatalogInv, TableMaps, IdMap
  <2>2. \A u \in DOMAIN table_names_' :
          table_names_'[u] \in DOMAIN tables_' /\ tables_'[table_names_'[u]].name = u
    BY <1>3, <1>4, <1>5 DEF CatalogInv, TableMaps
  <2>3. \A x \in DOMAIN tables_' :
          tables_'[x].name \in DOMAIN table_names_' /\ table_names_'[tables_'[x].name] = x
    BY <1>3, <1>4, <1>5 DEF CatalogInv, TableMaps
  <2>4. QED
    BY <1>4, <1>5, <2>1, <2>2, <2>3 DEF TableMaps, IdMap
<1>10. TablesSaved'
  <2>1. DOMAIN catalog_meta_'.tables = DOMAIN tables_' /\ IdMap(catalog_meta_.tables, Page)'
    BY <1>4, <1>7 DEF CatalogInv, TablesSaved, IdMap
  <2>2. ASSUME NEW x \in DOMAIN tables_'
        PROVE  /\ x < next_table_id_'
               /\ catalog_meta_'.tables[x] \in DOMAIN pages'
               /\ pages'[catalog_meta_'.tables[x]] = TableMeta(x)'
    <3>1. /\ x \in DOMAIN tables_ /\ catalog_meta_'.tables[x] = catalog_meta_.tables[x]
          /\ TableMeta(x)' = TableMeta(x)
      BY <1>4, <1>7, <2>1 DEF TableMeta
    <3>2. QED
      BY <1>1, <3>1 DEF CatalogInv, TablesSaved
  <2>3. QED
    BY <2>1, <2>2 DEF TablesSaved, IdMap
<1>11. IndexMaps' /\ IndexTables'
  <2>1. \A x \in DOMAIN indexes_ : indexes_[x].table_id < next_table_id_'
    BY <1>1 DEF CatalogInv, IndexTables
  <2>2. QED
    BY <1>1, <1>4, <2>1, IndexMapsKept DEF CatalogInv
<1>12. IndexesSaved'
  <2>1. IndexesSaved /\ \A x \in DOMAIN indexes_ \ UnderWay : x < next_index_id_'
    BY <1>1 DEF CatalogInv, IndexesSaved
  <2>2. QED
    BY <1>1, <1>6, <1>8, <2>1, IndexesSavedKept
<1>13. Trees'
  BY <1>1, <1>8, TreesKept DEF CatalogInv
<1>14. File'
  <2>1. pinned' \subseteq Page
    BY <1>2, <1>3 DEF CatalogInv, File, TableInfo
  <2>2. QED
    BY <1>1, <1>6, <2>1 DEF CatalogInv, File
<1>15. pc'.op = "idle"
  BY <1>1 DEF Idle
<1>16. QED
  BY <1>9, <1>10, <1>11, <1>12, <1>13, <1>14, <1>15 DEF CatalogInv, Control

\* DropIndex.
LEMMA DropIndexStep ==
  ASSUME CatalogInv, NEW t \in TableName, NEW i \in IndexName, DropIndex(t, i)
  PROVE  CatalogInv'
<1> DEFINE key == <<t, i>>
           id == index_names_[key]
<1>1. /\ table_names_' = table_names_ /\ tables_' = tables_
      /\ next_table_id_' = next_table_id_ /\ next_index_id_' = next_index_id_
      /\ roots' = roots /\ pages' = pages /\ next_page' = next_page /\ pc' = pc
      /\ pinned' = pinned /\ meta_page' = catalog_meta_' /\ pc = Idle
  BY DEF DropIndex
<1>2. /\ key \in DOMAIN index_names_
      /\ indexes_' = Erase(indexes_, id) /\ index_names_' = Erase(index_names_, key)
      /\ catalog_meta_' = [catalog_meta_ EXCEPT !.indexes = Erase(@, id)]
  BY DEF DropIndex
<1> HIDE DEF key
<1>3. /\ id \in DOMAIN indexes_
      /\ \A k \in DOMAIN index_names_ \ {key} : index_names_[k] # id
  BY <1>2 DEF CatalogInv, IndexMaps
<1> HIDE DEF id
<1>4. /\ DOMAIN indexes_' = DOMAIN indexes_ \ {id}
      /\ \A x \in DOMAIN indexes_' : indexes_'[x] = indexes_[x]
      /\ indexes_' \in [DOMAIN indexes_' -> IndexInfo]
  <2>1. indexes_ \in [DOMAIN indexes_ -> IndexInfo]
    BY DEF CatalogInv, IndexMaps, IdMap
  <2>2. QED
    BY <1>2, <2>1 DEF Erase
<1>5. /\ DOMAIN index_names_' = DOMAIN index_names_ \ {key}
      /\ \A k \in DOMAIN index_names_' : index_names_'[k] = index_names_[k]
      /\ index_names_' \in [DOMAIN index_names_' -> Id]
  <2>1. index_names_ \in [DOMAIN index_names_ -> Id]
    BY DEF CatalogInv, IndexMaps
  <2>2. QED
    BY <1>2, <2>1 DEF Erase
<1>6. /\ catalog_meta_'.indexes = Erase(catalog_meta_.indexes, id)
      /\ catalog_meta_'.tables = catalog_meta_.tables
      /\ catalog_meta_' = [tables |-> catalog_meta_'.tables, indexes |-> catalog_meta_'.indexes]
  BY <1>2 DEF CatalogInv, File
<1>7. LET f == catalog_meta_.indexes
          g == catalog_meta_'.indexes
      IN  /\ DOMAIN g = DOMAIN f \ {id}
          /\ \A x \in DOMAIN g : g[x] = f[x]
          /\ g \in [DOMAIN g -> Page]
  <2>1. catalog_meta_.indexes \in [DOMAIN catalog_meta_.indexes -> Page]
    BY DEF CatalogInv, IndexesSaved, IdMap
  <2>2. QED
    BY <1>6, <2>1 DEF Erase
<1>8. PagesKept /\ UnderWay = {} /\ UnderWay' = {} /\ pc'.op = "idle"
  BY <1>1 DEF PagesKept, UnderWay, Idle
<1>9. TableMaps' /\ TablesSaved'
  <2>1. TableMaps /\ TablesSaved /\ \A x \in DOMAIN tables_ : x < next_table_id_'
    BY <1>1 DEF CatalogInv, TablesSaved
  <2>2. QED
    BY <1>1, <1>6, <1>8, <2>1, TablesKept
<1>10. IndexMaps'
  <2>1. DOMAIN indexes_' \subseteq Id /\ DOMAIN index_names_' \subseteq TableName \X IndexName
    BY <1>4, <1>5 DEF CatalogInv, IndexMaps, IdMap
  <2>2. \A k \in DOMAIN index_names_' :
          index_names_'[k] \in DOMAIN indexes_' /\ indexes_'[index_names_'[k]].name = k[2]
    BY <1>3, <1>4, <1>5 DEF CatalogInv, IndexMaps
  <2>3. \A k, l \in DOMAIN index_names_' : index_names_'[k] = index_names_'[l] => k = l
    BY <1>5 DEF CatalogInv, IndexMaps
  <2>4. ASSUME NEW x \in DOMAIN indexes_'
        PROVE  \E k \in DOMAIN index_names_' : index_names_'[k] = x
    <3>1. PICK k \in DOMAIN index_names_ : index_names_[k] = x
      BY <1>4 DEF CatalogInv, IndexMaps
    <3>2. k # key
      BY <1>4, <3>1 DEF id
    <3>3. QED
      BY <1>5, <3>1, <3>2
  <2>5. QED
    BY <1>4, <1>5, <2>1, <2>2, <2>3, <2>4 DEF IndexMaps, IdMap
<1>11. IndexTables'
  <2>1. \A k \in DOMAIN index_names_' :
          /\ index_names_'[k] = index_names_[k] /\ k \in DOMAIN index_names_
          /\ indexes_'[index_names_[k]] = indexes_[index_names_[k]]
    BY <1>3, <1>4, <1>5 DEF CatalogInv, IndexMaps
  <2>2. QED
    BY <1>1, <1>4, <2>1 DEF CatalogInv, IndexTables
<1>12. IndexesSaved'
  <2>1. DOMAIN catalog_meta_'.indexes = DOMAIN indexes_' /\ IdMap(catalog_meta_.indexes, Page)'
    BY <1>4, <1>7 DEF CatalogInv, IndexesSaved, IdMap
  <2>2. \A x \in DOMAIN indexes_' : catalog_meta_'.indexes[x] = indexes_'[x].page
    BY <1>4, <1>7, <2>1 DEF CatalogInv, IndexesSaved
  <2>3. ASSUME NEW x \in DOMAIN indexes_'
        PROVE  /\ x < next_index_id_'
               /\ indexes_'[x].page \in DOMAIN pages'
               /\ pages'[indexes_'[x].page] = IndexMeta(x)'
    <3>1. x \in DOMAIN indexes_ /\ indexes_'[x] = indexes_[x]
      BY <1>4
    <3>2. IndexMeta(x)' = IndexMeta(x)
      BY <3>1 DEF IndexMeta
    <3>3. QED
      BY <1>1, <1>8, <3>1, <3>2 DEF CatalogInv, IndexesSaved
  <2>4. QED
    BY <1>8, <2>1, <2>2, <2>3 DEF IndexesSaved, IdMap
<1>13. Trees'
  <2>1. \A x : GetRootId(x)' = GetRootId(x)
    BY <1>1 DEF GetRootId
  <2>2. QED
    BY <1>1, <1>4, <2>1 DEF CatalogInv, Trees, IdMap
<1>14. File'
  BY <1>1, <1>6 DEF CatalogInv, File
<1>15. QED
  BY <1>8, <1>9, <1>10, <1>11, <1>12, <1>13, <1>14 DEF CatalogInv, Control

\* The first row of an index: its root goes into a new page and is recorded, as
\* no root was recorded for its id.
LEMMA FillIndexStep ==
  ASSUME CatalogInv, NEW t \in TableName, NEW i \in IndexName, FillIndex(t, i)
  PROVE  CatalogInv'
<1> DEFINE key == <<t, i>>
           id == index_names_[key]
<1>1. /\ table_names_' = table_names_ /\ tables_' = tables_
      /\ index_names_' = index_names_ /\ catalog_meta_' = catalog_meta_
      /\ next_table_id_' = next_table_id_ /\ next_index_id_' = next_index_id_
      /\ pinned' = pinned /\ pc' = pc /\ meta_page' = meta_page /\ pc = Idle
  BY DEF FillIndex
<1>2. /\ key \in DOMAIN index_names_ /\ next_page \in Page
      /\ indexes_[id].root = INVALID_PAGE_ID
      /\ indexes_' = [indexes_ EXCEPT ![id].root = next_page]
      /\ roots' = Emplace(roots, id, next_page)
      /\ pages' = pages /\ next_page' = next_page + 1
  BY DEF FillIndex
<1>3. id \in DOMAIN indexes_ /\ indexes_ \in [DOMAIN indexes_ -> IndexInfo]
      /\ DOMAIN indexes_ \subseteq Id
  BY <1>2 DEF CatalogInv, IndexMaps, IdMap
<1> HIDE DEF id, key
<1>4. /\ next_page \in 2 .. MaxPages + 2 /\ DOMAIN pages \subseteq 2 .. next_page - 1
  BY DEF CatalogInv, File
<1>5. PagesKept
  BY <1>2 DEF PagesKept
<1>6. /\ DOMAIN indexes_' = DOMAIN indexes_
      /\ \A x \in DOMAIN indexes_ \ {id} : indexes_'[x] = indexes_[x]
      /\ indexes_'[id].root = next_page
      /\ \A x \in DOMAIN indexes_ :
           /\ indexes_'[x].name = indexes_[x].name /\ indexes_'[x].keys = indexes_[x].keys
           /\ indexes_'[x].table_id = indexes_[x].table_id
           /\ indexes_'[x].table = indexes_[x].table /\ indexes_'[x].page = indexes_[x].page
      /\ indexes_' \in [DOMAIN indexes_' -> IndexInfo]
  <2>1. indexes_[id] \in IndexInfo /\ [indexes_[id] EXCEPT !.root = next_page] \in IndexInfo
    BY <1>2, <1>3 DEF IndexInfo
  <2>2. QED
    BY <1>2, <1>3, <2>1 DEF IndexInfo
<1>7. id \notin DOMAIN roots /\ roots \in [DOMAIN roots -> Page] /\ DOMAIN roots \subseteq Id
  <2>1. IdMap(roots, Page) /\ GetRootId(id) = INVALID_PAGE_ID
    BY <1>2, <1>3 DEF CatalogInv, Trees
  <2>2. INVALID_PAGE_ID \notin Page
    BY DEF INVALID_PAGE_ID, Page
  <2>3. QED
    BY <2>1, <2>2 DEF GetRootId, IdMap
<1>8. /\ DOMAIN roots' = DOMAIN roots \union {id} /\ roots'[id] = next_page
      /\ \A x \in DOMAIN roots : roots'[x] = roots[x]
      /\ roots' \in [DOMAIN roots' -> Page]
  BY <1>2, <1>7 DEF Emplace
<1>9. UnderWay = {} /\ UnderWay' = {} /\ pc'.op = "idle"
  BY <1>1 DEF UnderWay, Idle
<1>10. TableMaps' /\ TablesSaved'
  <2>1. TableMaps /\ TablesSaved /\ \A x \in DOMAIN tables_ : x < next_table_id_'
    BY <1>1 DEF CatalogInv, TablesSaved
  <2>2. QED
    BY <1>1, <1>5, <2>1, TablesKept
<1>11. IndexMaps'
  BY <1>1, <1>3, <1>6 DEF CatalogInv, IndexMaps, IdMap
<1>12. IndexTables'
  <2>1. \A k \in DOMAIN index_names_ : index_names_[k] \in DOMAIN indexes_
    BY DEF CatalogInv, IndexMaps
  <2>2. QED
    BY <1>1, <1>6, <2>1 DEF CatalogInv, IndexTables
<1>13. IndexesSaved'
  <2>1. \A x \in DOMAIN indexes_ : IndexMeta(x)' = IndexMeta(x)
    BY <1>6 DEF IndexMeta
  <2>2. ASSUME NEW x \in DOMAIN indexes_'
        PROVE  /\ x < next_index_id_' /\ catalog_meta_'.indexes[x] = indexes_'[x].page
               /\ indexes_'[x].page \in DOMAIN pages'
               /\ pages'[indexes_'[x].page] = IndexMeta(x)'
    BY <1>1, <1>5, <1>6, <1>9, <2>1 DEF CatalogInv, IndexesSaved, PagesKept
  <2>3. QED
    BY <1>1, <1>6, <1>9, <2>2 DEF CatalogInv, IndexesSaved, IdMap
<1>14. Trees'
  <2>1. ASSUME NEW x \in DOMAIN indexes_' PROVE indexes_'[x].root = GetRootId(x)'
    <3>1. CASE x = id
      <4>1. GetRootId(x)' = next_page
        BY <1>8, <3>1 DEF GetRootId
      <4>2. QED
        BY <1>6, <3>1, <4>1
    <3>2. CASE x # id
      <4>1. GetRootId(x)' = GetRootId(x)
        BY <1>8, <3>2 DEF GetRootId
      <4>2. x \in DOMAIN indexes_ /\ indexes_'[x] = indexes_[x]
        BY <1>6, <3>2
      <4>3. QED
        BY <4>1, <4>2 DEF CatalogInv, Trees
    <3>3. QED
      BY <3>1, <3>2
  <2>2. DOMAIN roots' \subseteq Id
    BY <1>3, <1>7, <1>8
  <2>3. QED
    BY <1>8, <2>1, <2>2 DEF Trees, IdMap
<1>15. File'
  <2>1. next_page' \in 2 .. MaxPages + 2 /\ DOMAIN pages' \subseteq 2 .. next_page' - 1
    BY <1>2, <1>4, <1>5, CatalogAssumption DEF Page
  <2>2. QED
    BY <1>1, <2>1 DEF CatalogInv, File
<1>16. QED
  BY <1>9, <1>10, <1>11, <1>12, <1>13, <1>14, <1>15 DEF CatalogInv, Control

\* Every step preserves the invariant.
LEMMA NextCatalogInv == CatalogInv /\ [Next]_vars => CatalogInv'
<1> SUFFICES ASSUME CatalogInv, [Next]_vars PROVE CatalogInv'
  OBVIOUS
<1>1. CASE Next
  BY <1>1, CreateTableStep, CreateTableReturnStep, CreateIndexStep, CreateIndexReturnStep,
     DropTableStep, DropIndexStep, FillIndexStep, RestartStep DEF Next
<1>2. CASE UNCHANGED vars
  BY <1>2, StutterStep
<1>3. QED
  BY <1>1, <1>2

\* The inductive invariant holds in every state.
THEOREM CatalogInductive == Spec => []CatalogInv
<1>1. QED
  BY InitCatalogInv, NextCatalogInv, PTL DEF Spec

\* The five maps of CatalogManager agree after any calls and restarts: an id is
\* never handed out while it is in use.
THEOREM MapsAlwaysAgree == Spec => []MapsAgree
<1>1. QED
  BY CatalogInductive, CatalogInvImplies, PTL

\* The constructor of CatalogManager builds the maps that were in memory when
\* the program stopped, unless it stopped between the writes of CreateIndex;
\* with a table dropped under its index it does not get that far.
THEOREM RestartLosesNothing == Spec => []ReloadAgrees
<1>1. QED
  BY CatalogInductive, CatalogInvImplies, PTL

-----------------------------------------------------------------------------
(***************************************************************************)
(* The refinement of the directory.                                        *)
(***************************************************************************)

\* A step that keeps the names, schemas and keys is none of the directory.
LEMMA DirectoryKept ==
  ASSUME table_names_' = table_names_, index_names_' = index_names_,
         \A t \in DOMAIN table_names_ :
           tables_'[table_names_[t]].schema = tables_[table_names_[t]].schema,
         \A k \in DOMAIN index_names_ :
           indexes_'[index_names_[k]].keys = indexes_[index_names_[k]].keys
  PROVE  TablesByName' = TablesByName /\ IndexesByName' = IndexesByName
BY DEF TablesByName, IndexesByName

\* Every step of the catalog is a step of the directory, or none.
LEMMA DirectoryStep ==
  CatalogInv /\ [Next]_vars => [Dir!Next]_<<TablesByName, IndexesByName>>
<1> SUFFICES ASSUME CatalogInv, [Next]_vars
             PROVE  \/ Dir!Next
                    \/ TablesByName' = TablesByName /\ IndexesByName' = IndexesByName
  OBVIOUS
<1>1. ASSUME NEW t \in TableName, NEW schema \in Columns, CreateTable(t, schema)
      PROVE  TablesByName' = TablesByName /\ IndexesByName' = IndexesByName
  BY <1>1, DirectoryKept DEF CreateTable
<1>2. CASE CreateTableReturn
  <2>1. PICK t \in TableName \ DOMAIN table_names_, schema \in Columns, first \in Page :
          pages[pc.page] = [id |-> next_table_id_, name |-> t, schema |-> schema,
                            first |-> first]
    BY <1>2 DEF CatalogInv, Control, CreateTableReturn
  <2> DEFINE id == next_table_id_
             info == [name |-> t, schema |-> schema, first |-> first]
  <2>2. /\ table_names_' = Emplace(table_names_, t, id)
        /\ tables_' = Emplace(tables_, id, info) /\ info.schema = schema
        /\ index_names_' = index_names_ /\ indexes_' = indexes_
    BY <1>2, <2>1 DEF CreateTableReturn
  <2> HIDE DEF info
  <2>3. id \notin DOMAIN tables_
    BY DEF CatalogInv, TablesSaved, TableMaps, IdMap, Id
  <2>4. \A x \in DOMAIN table_names_ : table_names_[x] \in DOMAIN tables_
    BY DEF CatalogInv, TableMaps
  <2>5. /\ DOMAIN table_names_' = DOMAIN table_names_ \union {t}
        /\ tables_'[table_names_'[t]].schema = schema
        /\ \A x \in DOMAIN table_names_ :
             tables_'[table_names_'[x]].schema = tables_[table_names_[x]].schema
    BY <2>1, <2>2, <2>3, <2>4 DEF Emplace
  <2>6. TablesByName' = [x \in DOMAIN TablesByName \union {t} |->
                           IF x = t THEN schema ELSE TablesByName[x]]
    BY <2>1, <2>5 DEF TablesByName
  <2>7. t \notin DOMAIN TablesByName /\ IndexesByName' = IndexesByName
    BY <2>1, <2>2 DEF TablesByName, IndexesByName
  <2>8. Dir!CreateTable(t, schema)
    BY <2>6, <2>7 DEF Dir!CreateTable
  <2>9. schema \in SUBSET Column
    BY DEF Columns
  <2>10. QED
    BY <2>8, <2>9 DEF Dir!Next
<1>3. ASSUME NEW t \in TableName, NEW i \in IndexName, NEW keys \in Columns,
             CreateIndex(t, i, keys)
      PROVE  Dir!Next
  <2> DEFINE id == next_index_id_
             key == <<t, i>>
             info == [name |-> i, keys |-> keys, table_id |-> table_names_[t],
                      table |-> tables_[table_names_[t]].first, page |-> next_page,
                      root |-> GetRootId(id)]
  <2>1. /\ table_names_' = table_names_ /\ tables_' = tables_ /\ pc.op = "idle"
        /\ t \in DOMAIN table_names_ /\ keys \subseteq tables_[table_names_[t]].schema
        /\ key \notin DOMAIN index_names_ /\ info.keys = keys
        /\ index_names_' = Emplace(index_names_, key, id)
        /\ indexes_' = Emplace(indexes_, id, info)
    BY <1>3 DEF CreateIndex, Idle
  <2> HIDE DEF info
  <2>2. id \notin DOMAIN indexes_
    BY <2>1 DEF CatalogInv, IndexesSaved, IndexMaps, IdMap, Id, UnderWay
  <2>3. \A k \in DOMAIN index_names_ : index_names_[k] \in DOMAIN indexes_
    BY DEF CatalogInv, IndexMaps
  <2> HIDE DEF key
  <2>4. /\ DOMAIN index_names_' = DOMAIN index_names_ \union {key}
        /\ indexes_'[index_names_'[key]].keys = keys
        /\ \A k \in DOMAIN index_names_ :
             indexes_'[index_names_'[k]].keys = indexes_[index_names_[k]].keys
    BY <2>1, <2>2, <2>3 DEF Emplace
  <2>5. IndexesByName' = [k \in DOMAIN IndexesByName \union {key} |->
                            IF k = key THEN keys ELSE IndexesByName[k]]
    BY <2>1, <2>4 DEF IndexesByName
  <2>6. /\ t \in DOMAIN TablesByName /\ keys \subseteq TablesByName[t]
        /\ key \notin DOMAIN IndexesByName /\ TablesByName' = TablesByName
    BY <2>1 DEF TablesByName, IndexesByName
  <2>7. Dir!CreateIndex(t, i, keys)
    BY <2>5, <2>6 DEF Dir!CreateIndex, key
  <2>8. keys \in SUBSET Column
    BY DEF Columns
  <2>9. QED
    BY <2>7, <2>8 DEF Dir!Next
<1>4. CASE CreateIndexReturn
  BY <1>4, DirectoryKept DEF CreateIndexReturn
<1>5. ASSUME NEW t \in TableName, NEW i \in IndexName, DropIndex(t, i)
      PROVE  Dir!Next
  <2> DEFINE key == <<t, i>>
  <2>1. /\ table_names_' = table_names_ /\ tables_' = tables_ /\ key \in DOMAIN index_names_
        /\ indexes_' = Erase(indexes_, index_names_[key])
        /\ index_names_' = Erase(index_names_, key)
    BY <1>5 DEF DropIndex
  <2> HIDE DEF key
  <2>2. \A k \in DOMAIN index_names_ \ {key} :
          index_names_[k] \in DOMAIN indexes_ \ {index_names_[key]}
    BY <2>1 DEF CatalogInv, IndexMaps
  <2>3. /\ DOMAIN index_names_' = DOMAIN index_names_ \ {key}
        /\ \A k \in DOMAIN index_names_ \ {key} :
             indexes_'[index_names_'[k]] = indexes_[index_names_[k]]
    BY <2>1, <2>2 DEF Erase
  <2>4. IndexesByName' = [k \in DOMAIN IndexesByName \ {key} |-> IndexesByName[k]]
    BY <2>3 DEF IndexesByName
  <2>5. key \in DOMAIN IndexesByName /\ TablesByName' = TablesByName
    BY <2>1 DEF TablesByName, IndexesByName
  <2>6. Dir!DropIndex(t, i)
    BY <2>4, <2>5 DEF Dir!DropIndex, key
  <2>7. QED
    BY <2>6 DEF Dir!Next
<1>6. ASSUME NEW t \in TableName, NEW i \in IndexName, FillIndex(t, i)
      PROVE  TablesByName' = TablesByName /\ IndexesByName' = IndexesByName
  <2> DEFINE id == index_names_[<<t, i>>]
  <2>1. /\ table_names_' = table_names_ /\ tables_' = tables_
        /\ index_names_' = index_names_ /\ id \in DOMAIN indexes_
        /\ indexes_' = [indexes_ EXCEPT ![id].root = next_page]
        /\ indexes_ \in [DOMAIN indexes_ -> IndexInfo]
    BY <1>6 DEF FillIndex, CatalogInv, IndexMaps, IdMap
  <2> HIDE DEF id
  <2>2. \A x \in DOMAIN indexes_ : indexes_'[x].keys = indexes_[x].keys
    BY <2>1 DEF IndexInfo
  <2>3. \A k \in DOMAIN index_names_ : index_names_[k] \in DOMAIN indexes_
    BY DEF CatalogInv, IndexMaps
  <2>4. QED
    BY <2>1, <2>2, <2>3, DirectoryKept
<1>7. ASSUME pc.op # "index", Restart
      PROVE  TablesByName' = TablesByName /\ IndexesByName' = IndexesByName
  <2>1. /\ table_names_' = table_names_ /\ tables_' = tables_
        /\ index_names_' = index_names_ /\ indexes_' = indexes_
    BY <1>7, ReloadTables, ReloadIndexes DEF Restart
  <2>2. QED
    BY <2>1, DirectoryKept
<1>8. ASSUME NEW t \in TableName, DropTable(t)
      PROVE  Dir!Next
  <2>1. /\ t \in DOMAIN table_names_ /\ index_names_' = index_names_ /\ indexes_' = indexes_
        /\ tables_' = Erase(tables_, table_names_[t])
        /\ table_names_' = Erase(table_names_, t)
    BY <1>8 DEF DropTable
  <2>2. \A x \in DOMAIN table_names_ \ {t} :
          table_names_[x] \in DOMAIN tables_ \ {table_names_[t]}
    BY <2>1 DEF CatalogInv, TableMaps
  <2>3. /\ DOMAIN table_names_' = DOMAIN table_names_ \ {t}
        /\ \A x \in DOMAIN table_names_ \ {t} :
             tables_'[table_names_'[x]] = tables_[table_names_[x]]
    BY <2>1, <2>2 DEF Erase
  <2>4. TablesByName' = [x \in DOMAIN TablesByName \ {t} |-> TablesByName[x]]
    BY <2>3 DEF TablesByName
  <2>6. t \in DOMAIN TablesByName /\ IndexesByName' = IndexesByName
    BY <2>1 DEF TablesByName, IndexesByName
  <2>7. Dir!DropTable(t)
    BY <2>4, <2>6 DEF Dir!DropTable
  <2>8. QED
    BY <2>7 DEF Dir!Next
<1>9. CASE UNCHANGED vars
  BY <1>9, DirectoryKept DEF vars, memVars
<1>10. QED
  BY <1>1, <1>2, <1>3, <1>4, <1>5, <1>6, <1>7, <1>8, <1>9 DEF Next

\* Every call of CatalogManager that returns has created or dropped what it was
\* asked for, in one step, and a restart is none.
THEOREM CatalogImplementsDirectory == Spec => ImplementsDirectory
<1>1. Init => Dir!Init
  <2> SUFFICES ASSUME Init PROVE Dir!Init
    OBVIOUS
  <2>1. DOMAIN table_names_ = {} /\ DOMAIN index_names_ = {}
    BY DEF Init, EmptyMap
  <2>2. TablesByName = [t \in {} |-> {}] /\ IndexesByName = [k \in {} |-> {}]
    BY <2>1 DEF TablesByName, IndexesByName
  <2>3. QED
    BY <2>2 DEF Dir!Init
<1>2. QED
  BY <1>1, CatalogInductive, DirectoryStep, PTL DEF Spec, ImplementsDirectory, Dir!Spec

=============================================================================
