------------------------------ MODULE Catalog ------------------------------
(***************************************************************************)
(* The catalog of one database: its tables and indexes, in the maps of     *)
(* CatalogManager and in the pages from which a restart builds them again. *)
(*                                                                         *)
(* A page that is unpinned as dirty is in the file at once, so the only    *)
(* steps a crash can come between are those that write two pages: the      *)
(* creation of a table and that of an index.  Pages are never handed out   *)
(* twice (DiskManager), so the page of a table or index tells it from any  *)
(* other that had its name or id before.                                   *)
(***************************************************************************)
EXTENDS Integers, Maps

CONSTANTS
  TableName, IndexName, Column,
  MaxId,     \* bound: table and index ids are below it
  MaxPages   \* bound: pages handed out

ASSUME CatalogAssumption == MaxId \in Nat \ {0} /\ MaxPages \in Nat

Id == 0 .. MaxId - 1
Page == 2 .. MaxPages + 1      \* pages 0 and 1: the catalog, the index roots
INVALID_PAGE_ID == -1
Columns == SUBSET Column \ {{}}

VARIABLES
  table_names_,  \* name -> id
  tables_,       \* id -> TableInfo: its name, schema and first page
  index_names_,  \* <<table name, index name>> -> id
  indexes_,      \* id -> IndexInfo: name, keys, table_id_ and first page of the
                 \* TableInfo it points to, its own page, the root of its tree
  catalog_meta_, \* the pages of tables and indexes, by id
  next_table_id_, next_index_id_,
  pinned,        \* pages left pinned
  pc,            \* "idle", or the creation that is under way with its page
  meta_page,     \* file: page 0, written from catalog_meta_
  roots,         \* file: page 1, index id -> root page
  pages,         \* file: what the pages of tables and indexes hold
  next_page

memVars == <<table_names_, tables_, index_names_, indexes_, catalog_meta_,
             next_table_id_, next_index_id_, pinned, pc>>
fileVars == <<meta_page, roots, pages, next_page>>
vars == <<memVars, fileVars>>

Idle == [op |-> "idle", page |-> INVALID_PAGE_ID]

\* The root recorded for an index id, if any.
GetRootId(id) == IF id \in DOMAIN roots THEN roots[id] ELSE INVALID_PAGE_ID

-----------------------------------------------------------------------------
\* A new database: the pages of the catalog and of the index roots are zero.
Init ==
  /\ table_names_ = EmptyMap /\ tables_ = EmptyMap
  /\ index_names_ = EmptyMap /\ indexes_ = EmptyMap
  /\ catalog_meta_ = [tables |-> EmptyMap, indexes |-> EmptyMap]
  /\ next_table_id_ = 0 /\ next_index_id_ = 0
  /\ pinned = {}
  /\ pc = Idle
  /\ meta_page = [tables |-> EmptyMap, indexes |-> EmptyMap]
  /\ roots = EmptyMap
  /\ pages = EmptyMap
  /\ next_page = 2

\* CreateTable: the table's first page and its metadata are written ...
CreateTable(t, schema) ==
  /\ pc = Idle
  /\ t \notin DOMAIN table_names_
  /\ next_page + 1 \in Page /\ next_table_id_ \in Id
  /\ pages' = Emplace(pages, next_page + 1,
                      [id |-> next_table_id_, name |-> t, schema |-> schema,
                       first |-> next_page])
  /\ next_page' = next_page + 2
  /\ pc' = [op |-> "table", page |-> next_page + 1]
  /\ UNCHANGED <<table_names_, tables_, index_names_, indexes_, catalog_meta_,
                 next_table_id_, next_index_id_, pinned, meta_page, roots>>

\* Faulty variant: the catalog page is not written.
CreateTableReturnUnsaved ==
  /\ pc.op = "table"
  /\ LET m == pages[pc.page]
     IN  /\ catalog_meta_' = [catalog_meta_ EXCEPT !.tables = Emplace(@, m.id, pc.page)]
         /\ table_names_' = Emplace(table_names_, m.name, m.id)
         /\ tables_' = Emplace(tables_, m.id,
                         [name |-> m.name, schema |-> m.schema, first |-> m.first])
  /\ next_table_id_' = next_table_id_ + 1
  /\ pc' = Idle
  /\ UNCHANGED <<index_names_, indexes_, next_index_id_, pinned, fileVars>>

\* Faulty variant: the next id stays.
CreateTableReturnSameId ==
  /\ pc.op = "table"
  /\ LET m == pages[pc.page]
     IN  /\ catalog_meta_' = [catalog_meta_ EXCEPT !.tables = Emplace(@, m.id, pc.page)]
         /\ table_names_' = Emplace(table_names_, m.name, m.id)
         /\ tables_' = Emplace(tables_, m.id,
                         [name |-> m.name, schema |-> m.schema, first |-> m.first])
  /\ meta_page' = catalog_meta_'
  /\ pc' = Idle
  /\ UNCHANGED <<index_names_, indexes_, next_table_id_, next_index_id_, pinned,
                 roots, pages, next_page>>

\* ... then the catalog page, and the maps follow.
CreateTableReturn ==
  /\ pc.op = "table"
  /\ LET m == pages[pc.page]
     IN  /\ catalog_meta_' = [catalog_meta_ EXCEPT !.tables = Emplace(@, m.id, pc.page)]
         /\ table_names_' = Emplace(table_names_, m.name, m.id)
         /\ tables_' = Emplace(tables_, m.id,
                         [name |-> m.name, schema |-> m.schema, first |-> m.first])
  /\ meta_page' = catalog_meta_'
  /\ next_table_id_' = next_table_id_ + 1
  /\ pc' = Idle
  /\ UNCHANGED <<index_names_, indexes_, next_index_id_, pinned, roots, pages, next_page>>

\* CreateIndex: the index opens the tree recorded for its id, which a dropped
\* index may have left there, and the catalog page names it ...
CreateIndex(t, i, keys) ==
  /\ pc = Idle
  /\ t \in DOMAIN table_names_
  /\ keys \subseteq tables_[table_names_[t]].schema
  /\ <<t, i>> \notin DOMAIN index_names_
  /\ next_page \in Page /\ next_index_id_ \in Id
  /\ LET table_id == table_names_[t]
         id == next_index_id_
     IN  /\ index_names_' = Emplace(index_names_, <<t, i>>, id)
         /\ indexes_' = Emplace(indexes_, id,
              [name |-> i, keys |-> keys, table_id |-> table_id,
               table |-> tables_[table_id].first, page |-> next_page,
               root |-> GetRootId(id)])
         /\ catalog_meta_' = [catalog_meta_ EXCEPT !.indexes = Emplace(@, id, next_page)]
  /\ meta_page' = catalog_meta_'
  /\ next_page' = next_page + 1
  /\ pc' = [op |-> "index", page |-> next_page]
  /\ UNCHANGED <<table_names_, tables_, next_table_id_, next_index_id_, pinned,
                 roots, pages>>

\* ... before the page with the metadata of the index is written.
CreateIndexReturn ==
  /\ pc.op = "index"
  /\ LET info == indexes_[next_index_id_]
     IN  pages' = Emplace(pages, pc.page,
                    [id |-> next_index_id_, name |-> info.name, keys |-> info.keys,
                     table_id |-> info.table_id])
  /\ next_index_id_' = next_index_id_ + 1
  /\ pc' = Idle
  /\ UNCHANGED <<table_names_, tables_, index_names_, indexes_, catalog_meta_,
                 next_table_id_, pinned, meta_page, roots, next_page>>

\* DropTable: FreeHeap deletes the pages while it holds them, which leaves
\* them pinned.  The indexes of the table stay, with their names and the
\* TableInfo that is freed.
DropTable(t) ==
  /\ pc = Idle
  /\ t \in DOMAIN table_names_
  /\ LET id == table_names_[t]
     IN  /\ tables_' = Erase(tables_, id)
         /\ catalog_meta_' = [catalog_meta_ EXCEPT !.tables = Erase(@, id)]
         /\ pinned' = pinned \union {tables_[id].first}
  /\ table_names_' = Erase(table_names_, t)
  /\ meta_page' = catalog_meta_'
  /\ UNCHANGED <<index_names_, indexes_, next_table_id_, next_index_id_, pc, roots,
                 pages, next_page>>

\* Faulty variant: the index stays in the catalog.
DropIndexNameOnly(t, i) ==
  /\ pc = Idle
  /\ <<t, i>> \in DOMAIN index_names_
  /\ indexes_' = Erase(indexes_, index_names_[<<t, i>>])
  /\ index_names_' = Erase(index_names_, <<t, i>>)
  /\ meta_page' = catalog_meta_
  /\ UNCHANGED <<table_names_, tables_, catalog_meta_, next_table_id_, next_index_id_,
                 pinned, pc, roots, pages, next_page>>

\* DropIndex, for a table that is there or not: the record of the root stays.
DropIndex(t, i) ==
  /\ pc = Idle
  /\ <<t, i>> \in DOMAIN index_names_
  /\ LET id == index_names_[<<t, i>>]
     IN  /\ indexes_' = Erase(indexes_, id)
         /\ catalog_meta_' = [catalog_meta_ EXCEPT !.indexes = Erase(@, id)]
  /\ index_names_' = Erase(index_names_, <<t, i>>)
  /\ meta_page' = catalog_meta_'
  /\ UNCHANGED <<table_names_, tables_, next_table_id_, next_index_id_, pinned, pc,
                 roots, pages, next_page>>

\* The first row of a table is put into an index (StartNewTree): its root is
\* recorded if nothing is recorded for its id.  ExecuteInsert asserts first that
\* no page is pinned.
FillIndex(t, i) ==
  /\ pc = Idle
  /\ pinned = {}
  /\ t \in DOMAIN table_names_
  /\ <<t, i>> \in DOMAIN index_names_
  /\ next_page \in Page
  /\ LET id == index_names_[<<t, i>>]
     IN  /\ indexes_[id].root = INVALID_PAGE_ID
         /\ indexes_' = [indexes_ EXCEPT ![id].root = next_page]
         /\ roots' = Emplace(roots, id, next_page)
  /\ next_page' = next_page + 1
  /\ UNCHANGED <<table_names_, tables_, index_names_, catalog_meta_, next_table_id_,
                 next_index_id_, pinned, pc, meta_page, pages>>

-----------------------------------------------------------------------------
(***************************************************************************)
(* Opening the database again: LoadTable and LoadIndex for every id in the *)
(* catalog page, in the order of ids.                                      *)
(***************************************************************************)
LoadedTables ==
  [id \in DOMAIN meta_page.tables |->
     LET m == pages[meta_page.tables[id]]
     IN  [name |-> m.name, schema |-> m.schema, first |-> m.first]]

First(S) == CHOOSE id \in S : \A other \in S : id <= other

LoadedTableNames ==
  [t \in {LoadedTables[id].name : id \in DOMAIN LoadedTables} |->
     First({id \in DOMAIN LoadedTables : LoadedTables[id].name = t})]

LoadedIndexes ==
  [id \in DOMAIN meta_page.indexes |->
     LET page == meta_page.indexes[id]
         m == pages[page]
     IN  [name |-> m.name, keys |-> m.keys, table_id |-> m.table_id,
          table |-> LoadedTables[m.table_id].first, page |-> page,
          root |-> GetRootId(m.id)]]

IndexKey(id) ==
  <<LoadedTables[LoadedIndexes[id].table_id].name, LoadedIndexes[id].name>>

LoadedIndexNames ==
  [k \in {IndexKey(id) : id \in DOMAIN LoadedIndexes} |->
     First({id \in DOMAIN LoadedIndexes : IndexKey(id) = k})]

\* Every index in the catalog page finds its metadata and its table; LoadIndex
\* would go on with a null TableInfo, and the database cannot be opened.
Loadable ==
  \A id \in DOMAIN meta_page.indexes :
    /\ meta_page.indexes[id] \in DOMAIN pages
    /\ pages[meta_page.indexes[id]].table_id \in DOMAIN meta_page.tables

\* One more than the last id loaded; nothing sets it if nothing is loaded.
NextAfter(S, next) ==
  IF S = {} THEN next \in Id
  ELSE \E last \in S : (\A id \in S : id <= last) /\ next = last + 1

Restart ==
  /\ Loadable
  /\ table_names_' = LoadedTableNames
  /\ tables_' = LoadedTables
  /\ index_names_' = LoadedIndexNames
  /\ indexes_' = LoadedIndexes
  /\ catalog_meta_' = meta_page
  /\ next_table_id_' \in 0 .. MaxId
  /\ NextAfter(DOMAIN LoadedTables, next_table_id_')
  /\ next_index_id_' \in 0 .. MaxId
  /\ NextAfter(DOMAIN LoadedIndexes, next_index_id_')
  /\ pinned' = {}
  /\ pc' = Idle
  /\ UNCHANGED fileVars

-----------------------------------------------------------------------------
\* The program may stop at any time, but not between the two writes of CreateIndex.
Next ==
  \/ \E t \in TableName, schema \in Columns : CreateTable(t, schema)
  \/ CreateTableReturn
  \/ \E t \in TableName, i \in IndexName, keys \in Columns : CreateIndex(t, i, keys)
  \/ CreateIndexReturn
  \/ \E t \in TableName : DropTable(t)
  \/ \E t \in TableName, i \in IndexName : DropIndex(t, i) \/ FillIndex(t, i)
  \/ pc.op # "index" /\ Restart

Spec == Init /\ [][Next]_vars

-----------------------------------------------------------------------------
TableInfo == [name : TableName, schema : Columns, first : Page]
IndexInfo == [name : IndexName, keys : Columns, table_id : Id, table : Page,
              page : Page, root : Page \union {INVALID_PAGE_ID}]
IdMap(f, S) == f \in [DOMAIN f -> S] /\ DOMAIN f \subseteq Id

TypeOK ==
  /\ table_names_ \in [DOMAIN table_names_ -> Id]
  /\ DOMAIN table_names_ \subseteq TableName
  /\ IdMap(tables_, TableInfo)
  /\ index_names_ \in [DOMAIN index_names_ -> Id]
  /\ DOMAIN index_names_ \subseteq TableName \X IndexName
  /\ IdMap(indexes_, IndexInfo)
  /\ \A m \in {catalog_meta_, meta_page} :
       IdMap(m.tables, Page) /\ IdMap(m.indexes, Page)
  /\ next_table_id_ \in 0 .. MaxId /\ next_index_id_ \in 0 .. MaxId
  /\ pinned \subseteq Page
  /\ pc.op \in {"idle", "table", "index"}
  /\ IdMap(roots, Page)
  /\ DOMAIN pages \subseteq 2 .. next_page - 1
  /\ next_page \in 2 .. MaxPages + 2

\* The maps agree: a name and an id lead to each other, and the catalog has
\* exactly the tables and indexes that are in the maps.  An id that is handed
\* out twice, after a restart too, would make emplace keep the old one.
MapsAgree ==
  /\ TypeOK
  /\ \A t \in DOMAIN table_names_ :
       table_names_[t] \in DOMAIN tables_ /\ tables_[table_names_[t]].name = t
  /\ \A id \in DOMAIN tables_ :
       /\ tables_[id].name \in DOMAIN table_names_
       /\ table_names_[tables_[id].name] = id
  /\ \A k \in DOMAIN index_names_ :
       index_names_[k] \in DOMAIN indexes_ /\ indexes_[index_names_[k]].name = k[2]
  /\ \A id \in DOMAIN indexes_ :
       \E k \in DOMAIN index_names_ : index_names_[k] = id
  /\ DOMAIN catalog_meta_.tables = DOMAIN tables_
  /\ DOMAIN catalog_meta_.indexes = DOMAIN indexes_

\* "When a table is dropped, all its indexes must be dropped before": an index that
\* is found under a table's name works on that table; its TableInfo is the table's,
\* and its key columns are columns of the table.
IndexesBelong ==
  \A k \in DOMAIN index_names_ :
    LET info == indexes_[index_names_[k]]
    IN  /\ k[1] \in DOMAIN table_names_
        /\ info.table = tables_[table_names_[k[1]]].first
        /\ info.keys \subseteq tables_[table_names_[k[1]]].schema

\* The tables of all indexes are there.
NoOrphan == \A id \in DOMAIN indexes_ : indexes_[id].table_id \in DOMAIN tables_

\* Whenever the program stops, except between the two writes of CreateIndex,
\* the pages of the file build the maps that are in memory: what is created
\* or dropped is so for good when the call returns.  For indexes that is so
\* exactly as long as no table is dropped under its index, and again once that
\* index is dropped too, whichever ids and recorded roots are used again.
ReloadAgrees ==
  pc.op # "index" =>
    /\ LoadedTables = tables_ /\ LoadedTableNames = table_names_
    /\ Loadable <=> NoOrphan
    /\ NoOrphan => LoadedIndexes = indexes_ /\ LoadedIndexNames = index_names_

\* The catalog as its users see it.
TablesByName == [t \in DOMAIN table_names_ |-> tables_[table_names_[t]].schema]
IndexesByName == [k \in DOMAIN index_names_ |-> indexes_[index_names_[k]].keys]

Dir == INSTANCE Directory WITH tables <- TablesByName, indexes <- IndexesByName

\* The catalog is a directory (Directory): a call that creates or drops takes
\* effect once and for good, also when the program is stopped and the database
\* opened again, and it never changes another table or index.
ImplementsDirectory == Dir!Spec
=============================================================================
