# MiniSQL: verification of the storage engine

MiniSQL (`src/minisql`) is a relational database in C++: a command line reads SQL, an
executor runs it over tables stored in slotted pages and indexes stored as B+ trees, both
kept in pages of one file per database behind an LRU buffer pool. This directory holds TLA+
models of its components, the TLC configurations that check them and TLAPS proofs.

Paths below are relative to `src/minisql/src/` unless they start with `src/`.

## 1. The system

```
  main loop -> parser -> ExecuteEngine            one statement at a time
                            |  one DBStorageEngine per database
             CatalogManager, TableHeap + TableIterator, BPlusTree + IndexRootsPage
                            |  FetchPage / NewPage / UnpinPage / DeletePage
                     BufferPoolManager -- LRUReplacer
                            |  ReadPage / WritePage / AllocatePage / DeAllocatePage
                       DiskManager -- BitmapPage, DiskFileMetaPage -- file
```

The program has one thread. Its components share state through pointers into the frames of
the buffer pool: whoever fetched a page reads and writes the bytes of a frame directly and
promises to unpin the page. That sharing, the restarts between two writes and the long
sequences of legal calls are what is hard here. The only code that is written for threads is
the latch each page carries.

| component | state | operations | what makes it correct |
|---|---|---|---|
| `DiskManager` (`storage/disk_manager.cpp`, `page/bitmap_page.cpp`) | the file; a copy of its meta page in memory | AllocatePage, DeAllocatePage, IsPageFree, ReadPage, WritePage, open, close | a page has one owner; it reads as last written; the meta page, bitmaps and data never overlap; a crash leaves what is in use allocated |
| `LRUReplacer` (`buffer/lru_replacer.cpp`) | list, map, size | Victim, Pin, Unpin | exactly the unpinned frames, in the order of their unpins |
| `BufferPoolManager` (`buffer/buffer_pool_manager.cpp`) | page table, frames, free list, replacer | FetchPage, NewPage, DeletePage, UnpinPage, FlushPage, destructor | no pinned frame is reused, no byte and no frame is lost |
| `ReaderWriterLatch` (`include/common/rwlatch.h`) | flag, count, two condition variables | RLock, RUnlock, WLock, WUnlock | mutual exclusion; nobody sleeps for ever |
| `TableHeap`, `TablePage`, `TableIterator` | chain of slotted pages | insert, mark, roll back, apply delete, update, iterate, FreeHeap | a row reads as written under its id; bytes are accounted for; a scan is complete |
| `BPlusTree`, its pages, `IndexRootsPage` (`index/`, `page/b_plus_tree_*`) | tree of pages; directory of roots | insert, remove, look up, iterate | search order, balance, parent and sibling links; the root survives a restart |
| `CatalogManager` (`catalog/catalog.cpp`) | maps of tables and indexes; catalog pages | create, drop, get, reload | names and ids lead to each other; an index stays with its table and its tree; the file builds again what is in memory |
| `ExecuteEngine` (`executor/execute_engine.cpp`) | open databases, the one in use | one handler per statement | a table and its indexes stay in step, also where a statement stops half way; queries answer the same with and without an index |
| `Row`, `Schema`, `Column`, `Field` (`record/`) | none | serialize, deserialize | a value reads back as written |
| parser (`parser/`) | none | - | generated by flex and bison |
| transactions, locks, log (`include/transaction/`) | none | - | empty classes |

## 2. The modules

| module | models | checked by | proved in |
|---|---|---|---|
| `PageStore` | abstract: pages with owners and bytes | through the two refinements | `DiskManager_proofs`, `BufferPool_proofs` |
| `DiskManager` | the disk manager and its file | `pool_parts` | `DiskManager_proofs` |
| `LRUReplacer`, `LRUHistory` | the replacer; the order of unpins as history | `pool_parts` | `LRUHistory_proofs` |
| `BufferPool` | the pool, an instance of `LRUReplacer`, the disk, the callers and their pointers | `pool_careful`, `pool_old_data` | `BufferPool_proofs` |
| `RWLatch` | the latch and its threads | `pool_parts` | `RWLatch_proofs` |
| `Table` | abstract: rows under ids, marks | through the refinement | `TableHeap_proofs` |
| `TablePage` | operators on one slotted page, byte by byte | with `TableHeap` | `TableHeap_proofs` |
| `TableHeap` | the chain of pages, the iterator | `heap_rows`, `heap_empty_first` | `TableHeap_proofs` |
| `BPlusTree` | the tree of an index, its pages, its record among the index roots | `index_*` | `BPlusTree_proofs` |
| `Directory` | abstract: tables with columns, indexes with key columns | through the refinement | `Catalog_proofs` |
| `Catalog` | the catalog in memory and in the file, several indexes' roots | `catalog_*` | `Catalog_proofs` |
| `Engine` | the statements on the rows of a table and on its indexes | `engine_rows` | `Engine_proofs` |
| `Maps` | `emplace` and `erase` of the standard library, external | with the two above | - |
| `MC*` | what TLC is started on | | |

Operators named "faulty variant" in a comment are never used by a specification. Each one is
a plausible defect; put in the place of the definition it varies it makes TLC report the
property it is paired with in `PROJECT.json`, which shows that the property can fail. The
type invariant of a module (`TypeOK`) is a conjunct of its structural invariant, so that a run
checks both at once; all are part of what is proved. `MCPoolParts` joins the disk manager, the
replacer and the latch, which share no state, in one run: each behaviour is one of a single part.

The modules stack by what they promise and not by `INSTANCE`: the pool has the page store that
the disk implements as its disk, the heap, the tree and the catalog have pages that keep their
bytes, and the engine has rows by id (`Table`) and entries by key. The engine's indexes are those
of a tree that answers lookups rightly and whose `End` may stand on any entry; the findings about the
tree (3 to 5) come on top.

### DiskManager

`file` maps physical page numbers to page images. The code casts the same 4096 bytes to a
meta page, a bitmap or data; an image has one field per view and `kind` records what was
written last. `meta_page` is the copy in memory, `owners` is history. One action per
operation; `AllocatePage` in an existing extent (`AllocatePage`) writes one page and is one
action, the path that opens an extent writes the bitmap and then the meta page and is two
(`AllocateExtent`, `AllocateExtentReturn`), so that `Restart` can fall between them.
`WritePhysicalPage` flushes, so a crash keeps whatever was written. The counters are unsigned
words and wrap (`Count`). The 32 bits of the code are the constant `WordSize`; the extents,
unlimited in the code, are bounded by `MaxExtents`.

### LRUReplacer and BufferPool

`LRUReplacer` has the list, the set of its keys and `in_size_`, and one operator per method,
so the pool uses the very definitions that `pool_parts` checks. In `BufferPool`, `ptr[p]` is
the frame a caller was given for page `p` and `pins[p]` the pins callers hold; `CallerWrite`
writes through that pointer, whatever the frame holds by then. `FetchPage` is `FetchHit`,
`FetchFree`, `FetchVictim` and `FetchUnset`: the last is the path on which `frame_id` is used
without having been set (`buffer_pool_manager.cpp:45`), with any frame as the outcome;
indices outside the array are left out. `NewPageVictim` has the two calls of `Victim` that
the code makes. `Restart` is the destructor followed by a new pool.

Two specifications differ in what callers do, not in what the pool does:

* `Spec`: every call in every state.
* `CarefulSpec`: `NewPage` is called while a frame is free; a page is fetched while it is
  cached or a frame is free or evictable; unpinned pages are deleted; once a page was deleted
  nobody relies on eviction.

What `CarefulSpec` leaves out is no rare case: a full pool has no free frame, and `NewPage` then
evicts. The properties of `pool_careful` are what the pool still promises to callers that create
pages only while a frame is free; for all callers it promises no page store, which is
`pool_old_data`. Lifting the first restriction gives finding 1 and, in the same call, a lost frame;
lifting the last gives the first of the other places in section 5.

In both a caller that wrote a page says so when it gives up its last pin, and pages
may be unpinned once too often.

### RWLatch

A thread holds `mutex_` from one wait to the next, so the code between two waits is one step.
`pc` says on which condition variable a thread sleeps; `notify_one` wakes an arbitrary
sleeper, and a wait may return for no reason (`SpuriousWakeup`).

### TablePage and TableHeap

A page has its slots and its bytes. A byte is a pair of the row it belongs to and its place
in it: `memmove` and the adjustment of the offsets are separate in the model as in the code,
and a row reads back only where all its bytes are in order. Operations return the changed
page. The chain operations pin the pages they look at one after the other and unpin them
again, so here the pages are a function, with room in the pool assumed. `cursor` is the row
an iterator stands on. `due` is history: a row, chosen when the scan begins, that it must
still come to. Row ids used by callers are ids of rows that exist.

### BPlusTree

`tree` holds the root, the pages and the root recorded for the index; `entries` is history:
what the callers have put in. Operations run one at a time and are functions from tree to
tree, one for each function of the code, down to the moves between pages (`MoveAllTo`,
`LeafBorrow`, ...); `InsertEntry`, `RemoveEntry` and `Reopen` are the actions. Pages of a tree
stay in the pool during an operation. `NewPageId` gives every page a new id, above all that were
given out before (`last`), as the disk does (`DiskIdsInSequence`); the ids of this index are counted
without those of others. TLC takes states that differ only in page ids for one (`View`), which is
sound since nothing depends on an id but whether it is of the tree. The key of an internal page's
first pair is kept with the value the code leaves in it, since `Redistribute` reads it.
`LeafPage::Init` does not set the link of a leaf, so the last leaf's link is page 0. Whoever follows
it reads the catalog's page as a leaf (`LinkedPage`, with `ForeignKey` for its bytes); an iterator
is followed while it is in the pages of the tree (`Iterate`), since it would end only at
`INVALID_PAGE_ID`.

`Spec` has insertions, removals and reopenings in any order and leaves out two situations:
reopening an index whose root is not recorded (`Unrecorded`, finding 3) and removing keys that are
absent. `borrowed` is history: an internal page has borrowed from the page behind it, which is where
lookups go wrong (finding 4). `LookupsUntilBorrowed` and `ScanInOrder` are about the time before
that, and `index_lookups` follows a behaviour up to it; `index_borrow` follows it further. `End` and
`ScanToEnd` are the loops of the engine's range queries (finding 5). The loops of the code, down the
tree (`Descend`), up again (`SplitUpwards`, `JoinUpwards`) and along the leaves (`Iterate`), are
recursive functions of the number of steps, which stop changing once the code's loop has ended;
`Steps`, the number of pages, is enough of them, which is part of what is proved. Two more
specifications differ in what callers do: in `GrowSpec` keys are inserted in any order and none is
removed, and the index is opened again at any time; in `AnyReopenSpec` it is opened again also while
its root is not recorded.

### Catalog

The variables with a trailing underscore are the members of `CatalogManager`; `meta_page`,
`roots` and `pages` are the file. `UnpinPage` of a dirty page writes it, so a call that writes
one page is one action; `CreateTable` and `CreateIndex` write two and are two actions each, with
`Restart` in between. `Restart` is the constructor with `init = false`: it builds the maps from
the file (`LoadedTables`, `LoadedIndexes`, ...). The next ids are set by the loops that load,
so they are arbitrary if nothing is loaded (`NextAfter`). `FillIndex` is the first insertion into
an index, the only time a record is added to the index roots; `pinned` holds the pages that
`FreeHeap` leaves pinned, at which the next `INSERT` fails its assertion (`FillIndex` waits for
a restart). `DropTable` and `CreateIndex` have no conditions but the code's: a table may go while it
has indexes, which stay behind (finding 6), and an index may be created under an id whose root record
an earlier index has left, and opens that tree (section 5). `Restart` needs a catalog that can be
loaded (`Loadable`): where an index has lost its table, `LoadIndex` goes on with a null pointer. One
situation is left out of `Spec`: a stop between the two writes of `CreateIndex`, after which the
database cannot be opened.

### Engine

`rows` is the heap, `entries` the indexes, `live` the indexes the table has, `stmt` the
statement under way. Row ids are numbered in the order of pages and slots in which an iterator comes
to them; `FirstPage` are those of the first page, and a search by the heap sees nothing if that page
has no row (`Seen`, finding 2). `INSERT` is one action. `DELETE` and `UPDATE` with a condition search
(`Answers`) and then take the rows found one at a time; without a condition they walk the heap as it
is at each step (`Ahead`), `UPDATE` once for every assignment. A statement that meets a duplicate
stops between rows. A comparison is answered by the first index on exactly that column, any of them
if there are several (`Usable`, `Results`), and by the heap if there is none. `Before` is the order
of an index, byte by byte with the lowest first and as signed chars, with `Base` values per byte and
`Width` bytes. `End` stands on some entry, any one here (`Ends`): which one depends on the shape of
the tree, and in a tree of more than two levels it need not be in the last leaf. `complete` is
history: the indexes that were there while the table was empty. Columns are integers, so rows have
one size, are never null and never move. Searches whose outcome is undefined are left out: a range
query by an empty index, and an "or" whose merge reads past its second operand (`OrDefined`).

## 3. The runs

Bounds are constants of the `.cfg` files.

| run | expect | shows | bounds, and why they are enough |
|---|---|---|---|
| `pool_parts` | pass | The disk, with a restart at any point and any page freed any number of times: kinds of pages stay apart (`LayoutIntact`), pages in use survive (`LiveSurvivesRestart`), totals agree with the extents' counters (`CountersAgree`), bytes change only by a write (`OnlyWritesChangeBytes`), and the whole is a page store. The replacer: list, map and size agree (`ReplacerConsistent`); no unpin is dropped (`NoUnpinDropped`); victims come in the order of unpins (`EvictionOrder`). The latch: `MutualExclusion`, `NoLostWakeup`, `CountsAgree`, and under fairness: an entered writer gets the latch (`WriterDrains`), sleepers wake (`SleepersAreWoken`) | two extents of two pages: first and last page of an extent, first and later extents; words modulo 6 wrap after a few frees; five frames, size five; three threads: a reader, a writer and one more of either kind |
| `pool_careful` | pass | For `CarefulSpec`: frames accounted for (`FramesAccounted`), pointers valid while pinned (`PointersStayValid`), announced writes are on disk (`AnnouncedWritesDurable`), bytes change only by their holder's writes (`OnlyCallersChangeBytes`), and the whole is a page store | two frames for three pages, so every eviction order happens; two pins per page |
| `pool_old_data` | violation | For `Spec`: `NewPage` with an empty free list (finding 1) | four pages |
| `heap_rows` | pass | Bytes accounted for (`SpaceAccounted`), chain intact (`ChainIntact`), scans complete (`ScanComplete`), rows that fit a page never lost (`NoRowLost`), and the heap is a table (`ImplementsTable`) | three pages of at most two rows, rows of one and two bytes and one too large for any page, three rows: reused slots, moves to other pages, empty pages in the middle |
| `heap_empty_first` | violation | a scan after the first page became empty (finding 2) | same |
| `index_lookups` | pass | For `Spec`: pages are filled between their limits (`Occupancy`), form a balanced tree with right parents (`Balanced`); until an internal page has borrowed from the page behind it, every lookup answers with what was put in, also after reopening (`LookupsUntilBorrowed`), and the links lead an iterator to every key in order (`ScanInOrder`) | eleven keys in any order, leaves of four and internal pages of three pairs, the smallest the code can work with: trees of three levels in which leaves and internal pages split, merge and borrow from both sides; with ten keys no internal page borrows. A behaviour is followed up to the first such borrowing from behind |
| `index_root_record` | violation | an emptied index is filled and opened again (finding 3) | three keys |
| `index_borrow` | violation | For `Spec`, the same tree: an internal page borrows from the page behind it, and a key is lost (finding 4) | eleven keys; the trace has insertions and removals mixed. Filling a tree and then only removing does not show it with up to fourteen keys |
| `index_end` | violation | For `GrowSpec`: a loop from `Begin` to `End` (`LoopComplete`, finding 5) | three keys, one leaf |
| `catalog_reload` | pass | For `Spec`: names, ids and catalog agree (`MapsAgree`); a restart builds what is in memory, and can do so exactly while no index has lost its table (`ReloadAgrees`); the catalog is a directory (`ImplementsDirectory`) | two table names and one index name of each table over two columns, two ids, seven pages: two tables with an index each, or one that is dropped, created again under a used id and filled, with restarts anywhere. Names and columns are symmetric |
| `catalog_drop_table` | violation | For `Spec`: a table is dropped that has an index (`IndexesBelong`, finding 6) | one table name and one index name |
| `engine_rows` | pass | Entries lead to rows with that key, at every point (`EntriesSound`); an index on one column that was created in time has every row, so the column is unique (`EntriesComplete`); a comparison yields only matching rows, wherever `End` stands, and "=" by indexes created in time yields them all (`QuerySound`); a `DELETE` that walks the heap and comes to a row leaves none (`DeleteEmpties`) | three rows of two columns in two pages, indexes on each column and on both, values 0, 2 and 4 in bytes of four values, whose byte order is 2, 0, 4 since 2 is negative as a byte and 4 takes a second one. Comparisons in `QuerySound` range over all operators, columns and values; the statements that change rows over four rows, four conditions (none, by an index, "and", "or") and two SET lists, one with two assignments, which meet every path of `UPDATE` |

No run turns deadlock checking off.

### Fairness

`pool_parts` has `RWLatch!LatchFairness`, the only fairness of the project: weak fairness of the steps of a thread that
is awake inside the latch, which is the operating system's scheduling of threads and mutexes,
and of the two unlocks, which says that callers release what they hold. A thread outside need
not ask for the latch, notifications are delivered as `std::condition_variable` promises, and
spurious wake-ups may or may not happen. Weak fairness does not promise that a woken thread
wins the latch, and neither does the code: `SleepersAreWoken` says it wakes, not that it gets
the latch; only a writer that has set `writer_entered_` is sure to (`WriterDrains`).

## 4. What is proved

TLAPS checks the proofs for every value of the constants that meets these assumptions, each an
`ASSUME` of the module that declares the constant:

| module | assumed |
|---|---|
| `DiskManager` | `N` and `MaxExtents` positive, `WordSize` larger than the number of pages, `Zero` among the data |
| `RWLatch` | `Thread` finite and smaller than `MAX_READERS` |
| `LRUHistory` | finitely many frames, no more than `max_size_`, as the pool builds its replacer |
| `BufferPool` | `PoolSize` and `MaxPins` positive, `MaxPages` a number, `Zero` among the data |
| `TablePage`, `TableHeap` | a page is larger than its header and one slot; a word counts twice a page; sizes of rows are positive; `MaxPages` positive |
| `BPlusTree` | keys are positive numbers, the foreign key a number; leaves hold at least four pairs and internal pages three, the least with which the halves of a split page are not too small |
| `Catalog` | `MaxId` positive, `MaxPages` a number |
| `Engine` | row ids and values are numbers, `Base` and `Width` positive; the ids of the first page come before the others; an index has at least one column, a SET list at least one assignment |

Every inductive invariant below was checked by TLC on the bounds of the component's run before it
was proved. There is one lemma for each action and, under it, one step for each part of the
invariant the action can disturb.

**DiskManager.** `DiskInv` is inductive (`DiskInvariant`): the types, `LayoutIntact`,
`LiveSurvivesRestart`, `OneOwner` and `ExtentsAgree`. The last is why it can be inductive: a
page handed out in an extent is safe only if the meta page *of the file* counts that extent,
while the code looks at the one in memory; the two agree except while an extent is being
opened, and then the new extent holds exactly the page that is about to be returned and no
other page of it has an owner. `LiveSurvivesRestart` gives the other half: an unmarked page
has no owner (`UnmarkedHasNoOwner`), so the first clear bit may be handed out. The layout
rests on `Layout`: `MapPageId` and `BitmapPageId` are injective and have disjoint ranges,
from the division lemmas for any `N`. The three `Write*` lemmas say what each kind of write
leaves alone; there is then one lemma per action. From `DiskInv` follow `DiskLayoutIntact`,
`DiskLiveSurvivesRestart`, the action property `DiskOnlyWritesChangeBytes`, with one more
induction `DiskIdsInSequence` (the first clear bit of the first extent with room is the next
id, since pages are ordered by extent and then by offset: `PageOrder`, and no bit is ever cleared in
the file; it is no promise of the disk manager, whose comment says the opposite of freed pages, but
what the pool and the tree get from it), and the refinement `DiskImplementsPageStore`: `content` is what `ReadPage` returns, the two
allocation paths are `Allocate` (the first of the two writes that open an extent stutters),
`DeAllocatePage` is `Free`, `WritePage` is `Write`, and a restart stutters.

`DiskCountersAgree` is about a sum over the extents, `UsedBefore`, a recursive function: that a
step of one counter changes the sum by as much (`SumChange`) is shown by the least extent at
which it would fail. Counters and total are words that wrap, so agreement is modulo `WordSize`,
and the proof never says that a total is at most the number of pages: pages freed twice take it
below zero.

**RWLatch.** `IInv` is inductive (`LatchInvariant`): the types, `CountsAgree`, and the two
properties that follow, `LatchMutualExclusion` and `LatchNoLostWakeup`; `LatchCountsAgree`
states the third part on its own. `CountsAgree` ties the
flag and the counter to the threads: the count is the number of readers and the flag is set
exactly while one writer is inside. Without it neither property is preserved, as a thread
decides by the flag and the counter and not by what others do.

**LRUReplacer and LRUHistory.** `ReplacerInv` joins `ReplacerConsistent` (list, map and size
agree and no frame is listed twice), `NoUnpinDropped` and `EvictionOrder`. It is inductive as it
stands (`ReplacerInductive`); the last two need the first: an unpin is dropped by the size
check of `Unpin` unless the size is the number of frames listed, which is less than `max_size_`
while a frame is missing. The lemmas about the operators come first; the pool uses them again.

**BufferPool**, for `CarefulSpec`. `PoolInv` is inductive (`PoolInductive`). Besides
`FramesAccounted`, `PointersStayValid` and `AnnouncedWritesDurable` it says that the pin count of
a frame is the number of pins its callers hold and only pinned pages have unannounced writes
(`PinsAgree`), that the replacer knows every frame in use that is unpinned (`FramesUsable`), that
the free list names no frame twice and the replacer is consistent. The pool evicts by what the
replacer says and callers keep their pointers by the pins they hold; `PinsAgree` and
`FramesAccounted` together are what keeps these from naming the same frame. A page that is evicted
has no unannounced writes, so writing it if `is_dirty_` is set loses nothing. From this follow
`FramesStayAccounted`, `PointersValid`, `AnnouncedDurable`, the action property `BytesChangedByCallersOnly`, and the refinement
`PoolImplementsPageStore`: the content of a page is its frame if it is cached and the disk
otherwise, so fetching and evicting stutter.

**TablePage and TableHeap.** `HeapInv` is inductive (`HeapInductive`). Every page is in order
(`PageOK`): rows cover the bytes from the free space pointer to the end without overlap (`Tiled`),
the slots lie in front of it (`SlotsFit`), and each row reads back to the last byte (`RowsWhole`).
`SpliceStep` is the central lemma: `ApplyDelete` and `UpdateTuple` both replace one row's bytes by
others of another length, move everything in front of them by the difference and adjust the
offsets of the rows that moved; it shows that the offsets and the bytes move by the same amount.
The free space is an unsigned difference; `Remaining` shows from `SlotsFit` that it never wraps
round, and `SlotsFit` in turn bounds the slots by the bytes the rows take (`RowsCounted`). Pages in use are linked in the order of their ids (`Links`), so the chain
that an operation follows from the first page is all of them (`ChainOf`, by the first page where
it would not be). From this `SpaceStaysAccounted` and `ChainStaysIntact`. For `ScansAreComplete` the
invariant has `Scan`: the row that is still due lies behind the cursor in the order of page and
slot (`Before`), which no insertion, deletion or update disturbs, since they leave other rows
under their ids; a row that is itself deleted or moved is no longer due. `RowsAreNotLost` counts the rows; its hard case is an update that moves a row:
it must get another id, and does, since a page that had no room for the new row in place of the
old one has none after the deletion either (`StillNoRoom`). `HeapImplementsTable` maps a heap to
the rows read back from the bytes and the set of ids marked.

**BPlusTree.** `TreeInv`: the tree is empty, or every page is filled between its limits, is listed by
the parent it names and by no other page, and lies on a level one below its parent's, with the
leaves on level 0 (`Pages`, `Family`, `Sizes`). Levels are what makes "equally deep" inductive: a
split or a merge changes parents and children of a few pages and no level, except that a new root
is one level higher. An operation of the code breaks this between its steps, so the lemmas are
about `Good(t, lev, x)`, a tree in which page `x` alone may be over or under its size. Inserting a
pair makes a leaf `x` at most one too large; `SplitStep` shows that splitting `x` repairs it and
leaves at most its parent one too large (`OnWayUp`, one level higher with every step), `JoinBelow`
and `JoinRoot` the same for a page that lost one pair too many, which is merged with a neighbor or
borrows (`OnWayBack`). The moves between pages, `MoveHalfTo`, `MoveAllTo`, the two kinds of
borrowing, `Coalesce` and `AdjustRoot`, have a lemma each about the pairs and children they leave,
and one about the family (`SplitFamily`, `MergeFamily`, `LendFamily`, ...). That the ways up and down
end is `Height`: every level has a page, so there are fewer levels than pages. Where a property is
carried along such a way, or a recursive function is shown to exist, the proof looks at the least
number of steps at which it would fail. From this `TreeOccupancy` and `TreeBalanced`, for `Spec`.

`GrowLookups` says of `GrowSpec` that every lookup answers with what was put in, for pages of every
size and trees of every height. The invariant `GrowInv` adds to the order of the tree that it is
searchable: there is an assignment `own` of keys to pages (`Search`) such that all keys belong to the
root, those of an internal page are divided among its children just as `Lookup` leads to them
(`Leads`), no key belongs to two leaves, and a leaf has for the keys it owns the rows that callers put
in, in order (`Answers`), and the link of a leaf leads to the leaf that owns the next keys, or to
none if there are no greater ones (`Linked`). `own` is not in the pages; each step shows how to get the next one. When a
page is split, its keys below the separator stay and the others go to the new page
(`SplitAnswers`); the separator is a key of the page and so is a smaller one, which puts it in the
right place among the separators of the parent (`InsertSeparator`, `ParentAnswers`), even though the
key of the first pair of an internal page is no separator and may be anything. `FindLeafOwn` then
says that the way down ends in the leaf that owns the key, `InsertKey` that the pair is put in its
place. The recorded root is part of it (`Searchable`), so opening the index changes nothing.

The same invariant gives `GrowScan`, what an iterator comes to. `FirstLeaf`: the first child of a page
with the least keys has the least keys, so `Begin` starts at the leaf with the least ones. `Position`
is carried along the iterator's way: it has listed, in order and each with its row, just the keys in
the index that lie before all keys of the leaf where it stands (`Passed`); a step adds the keys of
that leaf (`PassLeaf`, `JoinLists`), which own no key twice, so no leaf is met again, and since there
are only so many leaves the link of the last one has led it out of the tree by then (`ScanList`). The
invariant keeps the links (`DividedLinked`): of a leaf that is split, the new leaf comes between it
and the one that was next.

With removals, for `Spec`, `Lookups` is no theorem: finding 4 refutes it, in a tree of three levels
with small pages and in one of four levels with pages of any size.

**Catalog**. `CatalogInv` is inductive (`CatalogInductive`): names and ids lead to each
other (`TableMaps`, `IndexMaps`), an index knows its table by an id that no other table gets while the
index is there (`IndexTables`), the pages hold what the maps say (`TablesSaved`, `IndexesSaved`), the
recorded roots are those the indexes opened (`Trees`). The properties relate the maps to what a
restart would build from the file, and a restart is an action, so the file has to be part of the
invariant; and since creations write two pages, so does what the second half will find
(`Control`): between the two writes of `CreateIndex` the catalog page names a page whose content
is not there yet. Ids in use lie below the next id, so a creation never meets one. From it
`MapsAlwaysAgree`, `RestartLosesNothing` and the refinement `CatalogImplementsDirectory`, in which a
creation takes effect at the step that writes the catalog page and restarts stutter. That indexes
stay with their tables and trees is no theorem (finding 6, section 5).

**Engine.** `EngineInv` joins `EntriesSound`, `EntriesComplete` and `StatementSafe`
(`EngineInductive`). The last is needed because `DELETE` and `UPDATE` go on with rows found
earlier or ahead of an iterator: the row they are at and those left still exist, although earlier
rows were changed in between (`GoesOn`). From it `NoStaleEntry` and `UniqueColumnsStayUnique`, and as
a consequence of the state `SearchesAreSound`, whatever entry `End` stands on. `DeleteWithoutWhere` is
the action property `DeleteEmpties`: the walk begins with the first row of all and each step goes on
to the first of those behind, so that no row is before the one it is at, and when none is behind it
either, the row it deletes is the last.

**Model-checked only.** Liveness (`WriterDrains`, `SleepersAreWoken`), which is outside what the
prover can do. `LookupsUntilBorrowed` and `ScanInOrder` with removals. The counterexamples of section 5
are TLC's.

## 5. Findings

1. `NewPage` reuses a victim's frame without writing its page and without erasing its entry
   (`buffer/buffer_pool_manager.cpp:81`). Run `pool_old_data`.
2. `TableHeap::Begin` looks at the first page only (`storage/table_heap.cpp:119`). Run
   `heap_empty_first`.
3. `StartNewTree` inserts a record for an index that already has one, since the tree was
   emptied before; the refusal is ignored and the index is empty when it is opened again
   (`index/b_plus_tree.cpp:96`). Run `index_root_record`.
4. `Redistribute` of internal pages takes its two keys from leaves: from the one that the last key of
   the page on the left leads to, and from those linked behind it (`index/b_plus_tree.cpp:358`). A page
   that borrows from the one behind it and has one child left has no separator: its only key is that of
   its first pair, into which `Remove` writes (`:224`) and which goes out of date when smaller keys
   come later. The leaf found is then a wrong one, and keys are lost. That takes pages whose minimum
   is two (at most four children, as in the tests), and insertions and removals mixed. Run
   `index_borrow`. With pages of any size the same lines go wrong in a tree of four levels: the leaves
   linked behind the one found are the first ones below the pages concerned only if the children of
   these are leaves. With the sizes (4, 4) of the repository's test, 30 keys inserted in order and the
   first one removed are enough; that tree is too large for a run beside the other.
5. `End` stands on the last pair of the leaf that the last key of the root leads to
   (`index/b_plus_tree.cpp:493,502`), and the engine's range queries stop when they come to it: its row
   is left out, and in a tree of more than two levels those of later leaves. Run `index_end`.
6. `DropTable` leaves the table's indexes in the catalog (`catalog/catalog.cpp:253`), and `DROP TABLE`
   does not drop them either, although `CREATE TABLE` makes them. The next table of that name has them,
   with the old rows in their trees; if the database is opened before, `LoadIndex` dereferences a
   table that is not there. The design report says that the indexes have to go first. Run
   `catalog_drop_table`.

Other places where the models had to follow the code and not its intention, without a run of
their own:

* Pool: `DeletePage` leaves its frame in the replacer (`buffer_pool_manager.cpp:113`), which is
  evicted while its next page is pinned; `NewPage` calls `Victim` twice and loses a frame
  (`:67,77`); `FetchPage` uses an unset frame id (`:45`); `DeletePage` frees the page on disk
  before it looks at the pin count (`:101`).
* Disk: `DeAllocatePage` clears the bit in a copy of the bitmap that it never writes
  (`storage/disk_manager.cpp:86`), so that a freed page stays allocated and its id never comes again,
  while `include/storage/disk_manager.h:51` says "Free this page and reset bit map"; `AllocatePage` in an
  existing extent leaves the counters of the file behind (`:54`).
* Tree: `Remove` moves a leaf's separator before it knows that the key is there, which loses a key when
  an absent one is removed. `LeafPage::Init` does not set the next page id, so the chain of leaves ends
  in page 0 and not in `INVALID_PAGE_ID`, and an iterator behind the last leaf goes on there
  (`index/index_iterator.cpp:38`).
* Catalog: dropping an index leaves its record among the index roots; after a restart its id can
  be handed out again, and the new index opens the old tree (`catalog.cpp:281`). `CreateIndex`
  writes the catalog page before the metadata of the index (`:221`). The next ids are unset when
  nothing is loaded (`:90`). `FreeHeap` leaves the pages it deletes pinned.
* Engine: a range query by an index leaves out the rows that finding 5 is about, so queries do not
  answer the same with and without an index. `CREATE INDEX` does not put the rows of the table into the index
  (`executor/execute_engine.cpp:612`). `UPDATE` asks for duplicates only the indexes whose first
  column is assigned (`:970`), and counts the row itself, so a row cannot be assigned the value
  it has; a duplicate leaves earlier rows updated (`:989`). "or" reads an iterator at its end
  (`:1508`). "is null" and "not null" look at the type of the comparison's own node and always
  fail (`:1339,1347`).

## 6. What is left out

* `ReadPhysicalPage` computes its offset in an `int` (`disk_manager.cpp:117`), so files over
  2 GiB are outside the model; so is the meta page running out of room for extent counters.
* `InsertTuple` when the pool evicts the page it has just unpinned: the heap is modelled over a
  pool with room.
* Of the tree: the end iterator of an empty tree, which fetches an invalid page, and the pins
  an operation takes.
* Of the engine: the list of databases and the one in use (`ExecuteEngine`'s constructor and
  destructor read and write the list, so a crash loses new databases; `DROP DATABASE` leaves
  `current_db_`), character columns, nulls, type errors, execfile and printing. Rows that move to
  another page when a character column grows keep their old id in the indexes (`:1004`); that
  needs the heap and the engine in one model. A stop within the changes of one row is not
  handled by the code and leaves the indexes behind.
* The latch calls in `MarkDelete` and `RollbackDelete`: the program has one thread.
* Record serialisation and the parser: layout and generated code without state. Transactions,
  locks and the log are empty classes. Vendored code (`thirdparty/`, `cmake-build-debug/`) is not
  the program's own.

## 7. Plan

1. `Engine` over `TableHeap`'s row ids, with rows that grow and move.
2. The list of databases.
