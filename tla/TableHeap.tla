----------------------------- MODULE TableHeap -----------------------------
(***************************************************************************)
(* A table: a chain of slotted pages, rows put into the first page of the  *)
(* chain with room, and an iterator over them.                             *)
(*                                                                         *)
(* The pages come from a page store with room for them (PageStore): each   *)
(* operation pins the pages it looks at and unpins them, those it changed  *)
(* as dirty, and new pages get the ids in sequence.  heap is all of it:    *)
(* first_page_id_, the pages and how many there are.                       *)
(***************************************************************************)
EXTENDS TablePage, FiniteSets

CONSTANTS
  MaxPages,  \* bound: pages of the table
  MaxRows    \* bound: rows in the table at a time

ASSUME BoundsAssumption == MaxPages \in Nat \ {0} /\ MaxRows \in Nat

PageId == 0 .. MaxPages - 1
SlotNum == 1 .. (PAGE_SIZE - SIZE_TABLE_PAGE_HEADER) \div (SIZE_TUPLE + 1)
Rid == PageId \X SlotNum
INVALID_ROWID == <<INVALID_PAGE_ID, 0>>

VARIABLES
  heap,
  cursor,  \* the row id an iterator stands on, INVALID_ROWID at the end
  due      \* history: a row the iterator has still to come to, picked when it
           \* begins, or INVALID_ROWID

vars == <<heap, cursor, due>>

\* The k-th page of the chain, from 0, or INVALID_PAGE_ID.
Chain(h) ==
  LET nth[k \in 0 .. MaxPages] ==
        IF k = 0 THEN h.first_page_id_
        ELSE IF nth[k - 1] = INVALID_PAGE_ID THEN INVALID_PAGE_ID
        ELSE h.pages[nth[k - 1]].next
  IN  nth

Linked(h) ==
  LET chain == Chain(h)
  IN  {k \in 0 .. MaxPages : chain[k] # INVALID_PAGE_ID}

Least(S) == CHOOSE k \in S : \A j \in S : k <= j
Greatest(S) == CHOOSE k \in S : \A j \in S : k >= j

PageOf(h, k) == h.pages[Chain(h)[k]]

Exists(h, id) == id[1] \in PageId /\ id[2] \in DOMAIN h.pages[id[1]].slots
SlotOf(h, id) == h.pages[id[1]].slots[id[2]]
Occupied(h) == {id \in Rid : Exists(h, id) /\ SlotOf(h, id).size # 0}
Visible(h) == {id \in Occupied(h) : ~SlotOf(h, id).deleted}

-----------------------------------------------------------------------------
\* The constructor: a table of one empty page.
NewHeap ==
  [first_page_id_ |-> 0, allocated |-> 1,
   pages |-> [p \in PageId |-> NewTablePage(INVALID_PAGE_ID)]]

\* InsertTuple into the first page with room, else into a new page at the end
\* of the chain; the new page stays, empty, if the row does not fit there
\* either.
Fitting(h, r) ==
  LET chain == Chain(h)
  IN  {k \in Linked(h) : HasRoom(h.pages[chain[k]], r)}

\* Faulty variant: the last page is not linked to the new one.
AppendPageUnlinked(h, r) ==
  LET last == Chain(h)[Greatest(Linked(h))]
      page == NewTablePage(last)
  IN  [h EXCEPT
         !.allocated = @ + 1,
         !.pages[h.allocated] = IF HasRoom(page, r) THEN InsertTuple(page, r)
                                ELSE page]

\* Faulty variant: the new page is initialised after the row is put into it.
AppendPageInitLast(h, r) ==
  LET last == Chain(h)[Greatest(Linked(h))]
  IN  [h EXCEPT
         !.allocated = @ + 1,
         !.pages[last].next = h.allocated,
         !.pages[h.allocated] = NewTablePage(last)]

AppendPage(h, r) ==
  LET last == Chain(h)[Greatest(Linked(h))]
      new == h.allocated
      page == NewTablePage(last)
  IN  [h EXCEPT
         !.allocated = @ + 1,
         !.pages[last].next = new,
         !.pages[new] = IF HasRoom(page, r) THEN InsertTuple(page, r) ELSE page]

AfterInsert(h, r) ==
  IF Fitting(h, r) # {}
  THEN [h EXCEPT !.pages[Chain(h)[Least(Fitting(h, r))]] = InsertTuple(@, r)]
  ELSE AppendPage(h, r)

\* The bounds: an insertion has a page left, should it need one.
MayInsert(h, r) ==
  /\ Fitting(h, r) # {} \/ h.allocated < MaxPages
  /\ Cardinality(Occupied(h)) < MaxRows

HeapInsertTuple(r) ==
  /\ MayInsert(heap, r)
  /\ heap' = AfterInsert(heap, r)
  /\ UNCHANGED <<cursor, due>>

NotDue(id) == due' = IF due = id THEN INVALID_ROWID ELSE due

HeapMarkDelete(id) ==
  /\ heap' = [heap EXCEPT !.pages[id[1]] = MarkDelete(@, id[2])]
  /\ NotDue(id)
  /\ UNCHANGED cursor

HeapRollbackDelete(id) ==
  /\ heap' = [heap EXCEPT !.pages[id[1]] = RollbackDelete(@, id[2])]
  /\ UNCHANGED <<cursor, due>>

AfterDelete(h, id) == [h EXCEPT !.pages[id[1]] = ApplyDelete(@, id[2])]

HeapApplyDelete(id) ==
  /\ heap' = AfterDelete(heap, id)
  /\ NotDue(id)
  /\ UNCHANGED cursor

\* UpdateTuple: in place, or else marked, deleted and inserted anew; what the
\* insertion returns is not looked at, so that a row too large for a page is
\* lost.  A row that is not there is refused.
HeapUpdateTuple(id, r) ==
  LET page == heap.pages[id[1]]
      result == UpdateResult(page, id[2], r)
      deleted == AfterDelete(
                   [heap EXCEPT !.pages[id[1]] = MarkDelete(@, id[2])], id)
  IN  \/ /\ result = 1
         /\ heap' = [heap EXCEPT !.pages[id[1]] = UpdateTuple(@, id[2], r)]
         /\ UNCHANGED <<cursor, due>>
      \/ /\ result = 0
         /\ MayInsert(deleted, r)
         /\ heap' = AfterInsert(deleted, r)
         /\ NotDue(id)
         /\ UNCHANGED cursor

\* Begin looks at the first page only.
Begin ==
  LET live == LiveAfter(PageOf(heap, 0), 0)
  IN  /\ cursor' = IF live = {} THEN INVALID_ROWID
                   ELSE <<heap.first_page_id_, Least(live)>>
      /\ \E id \in Visible(heap) \union {INVALID_ROWID} :
           due' = IF id = cursor' THEN INVALID_ROWID ELSE id
      /\ UNCHANGED heap

\* Faulty variant: the search stops at the next page.
AdvanceOnePage ==
  LET k == CHOOSE n \in Linked(heap) : Chain(heap)[n] = cursor[1]
      here == LiveAfter(PageOf(heap, k), cursor[2])
      next == Chain(heap)[k + 1]
  IN  /\ cursor # INVALID_ROWID
      /\ cursor' = IF here # {} THEN <<cursor[1], Least(here)>>
                   ELSE IF next # INVALID_PAGE_ID /\ LiveAfter(heap.pages[next], 0) # {}
                   THEN <<next, Least(LiveAfter(heap.pages[next], 0))>>
                   ELSE INVALID_ROWID
      /\ NotDue(cursor')
      /\ UNCHANGED heap

\* operator++: the next row of the page, else the first row of the next page
\* that has one.
Advance ==
  LET k == CHOOSE n \in Linked(heap) : Chain(heap)[n] = cursor[1]
      here == LiveAfter(PageOf(heap, k), cursor[2])
      later == {n \in Linked(heap) : n > k /\ LiveAfter(PageOf(heap, n), 0) # {}}
  IN  /\ cursor # INVALID_ROWID
      /\ cursor' = IF here # {} THEN <<cursor[1], Least(here)>>
                   ELSE IF later # {}
                   THEN <<Chain(heap)[Least(later)],
                          Least(LiveAfter(PageOf(heap, Least(later)), 0))>>
                   ELSE INVALID_ROWID
      /\ NotDue(cursor')
      /\ UNCHANGED heap

Init ==
  /\ heap = NewHeap
  /\ cursor = INVALID_ROWID
  /\ due = INVALID_ROWID

-----------------------------------------------------------------------------
\* Callers use ids of rows that are in the table.
Changing ==
  \/ \E r \in Row : HeapInsertTuple(r)
  \/ \E id \in Occupied(heap) :
       \/ HeapMarkDelete(id) \/ HeapRollbackDelete(id) \/ HeapApplyDelete(id)
       \/ \E r \in Row : HeapUpdateTuple(id, r)

\* A scan is started while the first page has a row, or no page has one.
Next ==
  \/ Changing
  \/ /\ LiveAfter(PageOf(heap, 0), 0) # {} \/ Visible(heap) = {}
     /\ Begin
  \/ Advance

Spec == Init /\ [][Next]_vars

\* A scan may be started at any time.
ScanAnytimeSpec == Init /\ [][Changing \/ Begin \/ Advance]_vars

-----------------------------------------------------------------------------
TypeOK ==
  /\ heap.first_page_id_ \in PageId
  /\ heap.allocated \in 1 .. MaxPages
  /\ \A p \in PageId :
       /\ heap.pages[p].free \in 0 .. PAGE_SIZE
       /\ DOMAIN heap.pages[p].slots \subseteq SlotNum
       /\ \A i \in DOMAIN heap.pages[p].slots : heap.pages[p].slots[i] \in Slot
  /\ cursor \in Rid \union {INVALID_ROWID}
  /\ due \in Rid \union {INVALID_ROWID}

\* In every page the rows lie between the free space pointer and the end of
\* the page, next to each other, and the slots do not reach the free space
\* pointer: InsertTuple, ApplyDelete and UpdateTuple keep count of every byte.
SpaceAccounted ==
  TypeOK /\ \A n \in PageId :
    LET p == heap.pages[n]
        used == {i \in DOMAIN p.slots : p.slots[i].size # 0}
    IN  /\ p.free >= SIZE_TABLE_PAGE_HEADER + SIZE_TUPLE * Len(p.slots)
        /\ \A x \in p.free .. PAGE_SIZE - 1 :
             \E i \in used :
               /\ x \in p.slots[i].offset .. p.slots[i].offset + p.slots[i].size - 1
               /\ \A j \in used \ {i} :
                    x \notin p.slots[j].offset .. p.slots[j].offset + p.slots[j].size - 1
        /\ \A i \in used : /\ p.slots[i].offset >= p.free
                           /\ p.slots[i].offset + p.slots[i].size <= PAGE_SIZE

\* The pages are one chain, linked both ways, that ends at the newest page.
ChainIntact ==
  /\ {Chain(heap)[k] : k \in Linked(heap)} = 0 .. heap.allocated - 1
  /\ \A k \in Linked(heap) :
       PageOf(heap, k).prev = IF k = 0 THEN INVALID_PAGE_ID ELSE Chain(heap)[k - 1]

\* A scan has come to every row that was there when it began and was not
\* deleted or moved meanwhile, whatever else was inserted, updated or deleted
\* between two of its steps.
ScanComplete == cursor = INVALID_ROWID => due = INVALID_ROWID

FitsPage(r) == HasRoom(NewTablePage(INVALID_PAGE_ID), r)
Rows(h) == Cardinality(Occupied(h))

\* A row that fits into an empty page is never lost: inserting it makes one row
\* more, and an update to it keeps the number of rows, also where the row has to
\* leave its page, is deleted there and finds room nowhere but in a new page.
NoRowLost ==
  [][\A r \in {row \in Row : FitsPage(row)} :
       /\ HeapInsertTuple(r) => Rows(heap') = Rows(heap) + 1
       /\ \A id \in Occupied(heap) :
            HeapUpdateTuple(id, r) => Rows(heap') = Rows(heap)]_vars

\* The table heap is a table: a row reads as it was last written, under the
\* id it was given, whatever happens to the rows around it.
Stored(id) ==
  LET p == heap.pages[id[1]]
      slot == SlotOf(heap, id)
      head == IF slot.offset \in Byte THEN p.bytes[slot.offset] ELSE Junk
  IN  IF head # Junk /\ head[1].size = slot.size /\ Reads(p, id[2], head[1])
      THEN head[1]
      ELSE [size |-> 0, tag |-> 0]

T == INSTANCE Table WITH
       rows <- [id \in Occupied(heap) |-> Stored(id)],
       marked <- Occupied(heap) \ Visible(heap)

ImplementsTable == T!Spec

=============================================================================
