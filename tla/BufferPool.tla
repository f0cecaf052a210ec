---------------------------- MODULE BufferPool -----------------------------
(***************************************************************************)
(* BufferPoolManager, with the disk manager below it and its callers above.*)
(*                                                                         *)
(* The disk is what DiskManager is shown to be: it keeps what is written   *)
(* and gives every new page a new id (DiskManager!IdsInSequence).          *)
(* The callers keep a pointer to the frame they were given and read and    *)
(* write its bytes through that pointer, not through the pool.             *)
(***************************************************************************)
EXTENDS Integers, Sequences

CONSTANTS
  PoolSize,  \* pool_size_: the number of frames
  MaxPages,  \* bound: pages that are ever allocated
  MaxPins,   \* bound: pins on one page, and on one frame, at a time
  Data,      \* what a page can hold
  Zero       \* a page of zero bytes

ASSUME PoolSizeAssumption == PoolSize \in Nat \ {0}
ASSUME MaxPagesAssumption == MaxPages \in Nat
ASSUME MaxPinsAssumption == MaxPins \in Nat \ {0}
ASSUME DataAssumption == Zero \in Data

INVALID_PAGE_ID == -1
NoFrame == -1

Frame == 0 .. PoolSize - 1
Page == 0 .. MaxPages - 1

VARIABLES
  page_table_,  \* the frame of a page, or NoFrame
  pages_,       \* the frames
  free_list_,   \* frames without a page, front first
  replacer_,    \* the LRU replacer
  disk,         \* the bytes of every page in the file
  next_page,    \* the id the next allocation returns
  freed,        \* pages given back to the disk manager
  pins,         \* callers: pins they hold on a page
  ptr,          \* callers: the frame they were given for a page, or NoFrame
  unsaved       \* callers: pages written since they were last announced dirty

poolVars == <<page_table_, pages_, free_list_, replacer_>>
diskVars == <<disk, next_page, freed>>
callerVars == <<pins, ptr, unsaved>>
vars == <<poolVars, diskVars, callerVars>>

LRU == INSTANCE LRUReplacer WITH max_size_ <- PoolSize

Cached(p) == p \in Page /\ page_table_[p] # NoFrame
Live(p) == p < next_page /\ p \notin freed
Back(s) == s[Len(s)]
PopBack(s) == [i \in 1 .. Len(s) - 1 |-> s[i]]

EmptyFrame ==
  [page_id_ |-> INVALID_PAGE_ID, pin_count_ |-> 0, is_dirty_ |-> FALSE,
   data_ |-> Zero]

\* The pool as its constructor leaves it.
EmptyPool ==
  [page_table_ |-> [p \in Page |-> NoFrame],
   pages_ |-> [f \in Frame |-> EmptyFrame],
   free_list_ |-> [i \in 1 .. PoolSize |-> i - 1],
   replacer_ |-> LRU!EmptyReplacer]

-----------------------------------------------------------------------------
Init ==
  /\ page_table_ = EmptyPool.page_table_
  /\ pages_ = EmptyPool.pages_
  /\ free_list_ = EmptyPool.free_list_
  /\ replacer_ = EmptyPool.replacer_
  /\ disk = [p \in Page |-> Zero]
  /\ next_page = 0
  /\ freed = {}
  /\ pins = [p \in Page |-> 0]
  /\ ptr = [p \in Page |-> NoFrame]
  /\ unsaved = {}

\* What a caller does with the pointer it is given.
Receive(p, f) ==
  /\ pins[p] < MaxPins /\ pages_[f].pin_count_ < MaxPins
  /\ pins' = [pins EXCEPT ![p] = @ + 1]
  /\ ptr' = [ptr EXCEPT ![p] = f]
  /\ UNCHANGED unsaved

\* What a caller does with its pointer when it unpins a page.
Release(p, is_dirty) ==
  /\ pins' = [pins EXCEPT ![p] = IF @ > 0 THEN @ - 1 ELSE 0]
  /\ ptr' = [ptr EXCEPT ![p] = IF pins[p] > 1 THEN @ ELSE NoFrame]
  /\ unsaved' = IF is_dirty THEN unsaved \ {p} ELSE unsaved

\* Faulty variant: the replacer keeps a frame that is pinned again.
FetchHitEvictable(p) ==
  /\ Cached(p)
  /\ LET f == page_table_[p]
     IN  /\ pages_' = [pages_ EXCEPT ![f].pin_count_ = @ + 1]
         /\ Receive(p, f)
  /\ UNCHANGED <<page_table_, free_list_, replacer_, diskVars>>

\* FetchPage, the page is in the pool.
FetchHit(p) ==
  /\ Cached(p)
  /\ LET f == page_table_[p]
     IN  /\ replacer_' = LRU!AfterPin(replacer_, f)
         /\ pages_' = [pages_ EXCEPT ![f].pin_count_ = @ + 1]
         /\ Receive(p, f)
  /\ UNCHANGED <<page_table_, free_list_, diskVars>>

\* Faulty variants: the page that was evicted stays in the page table; the
\* new page is not read.
ReplaceStaleEntry(p, f) ==
  LET old == pages_[f].page_id_
      flushes == pages_[f].is_dirty_ /\ Cached(old)
  IN  /\ disk' = IF flushes
                 THEN [disk EXCEPT ![old] = pages_[page_table_[old]].data_]
                 ELSE disk
      /\ page_table_' = [page_table_ EXCEPT ![p] = f]
      /\ pages_' = [pages_ EXCEPT ![f] =
                      [page_id_ |-> p, pin_count_ |-> pages_[f].pin_count_ + 1,
                       is_dirty_ |-> FALSE, data_ |-> disk'[p]]]
      /\ Receive(p, f)
      /\ UNCHANGED <<next_page, freed>>

ReplaceUnread(p, f) ==
  LET old == pages_[f].page_id_
  IN  /\ page_table_' = [q \in Page |-> IF q = p THEN f
                                        ELSE IF q = old THEN NoFrame
                                        ELSE page_table_[q]]
      /\ pages_' = [pages_ EXCEPT ![f] =
                      [page_id_ |-> p, pin_count_ |-> pages_[f].pin_count_ + 1,
                       is_dirty_ |-> FALSE, data_ |-> Zero]]
      /\ Receive(p, f)
      /\ UNCHANGED diskVars

\* Steps 2 to 4 of FetchPage, with frame f chosen for page p: write the page
\* it holds if it is dirty, forget that page, read p.
Replace(p, f) ==
  LET old == pages_[f].page_id_
      flushes == pages_[f].is_dirty_ /\ Cached(old)
  IN  /\ disk' = IF flushes
                 THEN [disk EXCEPT ![old] = pages_[page_table_[old]].data_]
                 ELSE disk
      /\ page_table_' = [q \in Page |-> IF q = p THEN f
                                        ELSE IF q = old THEN NoFrame
                                        ELSE page_table_[q]]
      /\ pages_' = [g \in Frame |->
                      IF g = f
                      THEN [page_id_ |-> p, pin_count_ |-> pages_[f].pin_count_ + 1,
                            is_dirty_ |-> FALSE, data_ |-> disk'[p]]
                      ELSE IF flushes /\ g = page_table_[old]
                      THEN [pages_[g] EXCEPT !.is_dirty_ = FALSE]
                      ELSE pages_[g]]
      /\ Receive(p, f)
      /\ UNCHANGED <<next_page, freed>>

\* FetchPage, the page is not in the pool: a free frame, else a victim ...
FetchFree(p) ==
  /\ ~Cached(p)
  /\ free_list_ # <<>>
  /\ free_list_' = PopBack(free_list_)
  /\ Replace(p, Back(free_list_))
  /\ UNCHANGED replacer_

FetchVictim(p) ==
  /\ ~Cached(p)
  /\ free_list_ = <<>>
  /\ LRU!HasVictim(replacer_)
  /\ replacer_' = LRU!AfterVictim(replacer_)
  /\ Replace(p, LRU!VictimOf(replacer_))
  /\ UNCHANGED free_list_

\* ... else frame_id is used although Victim has not set it.
FetchUnset(p) ==
  /\ ~Cached(p)
  /\ free_list_ = <<>>
  /\ ~LRU!HasVictim(replacer_)
  /\ \E f \in Frame : Replace(p, f)
  /\ UNCHANGED <<free_list_, replacer_>>

\* NewPage with frame f: the page that f held is neither written nor erased
\* from the page table.
Install(p, f) ==
  /\ page_table_' = [page_table_ EXCEPT ![p] = f]
  /\ pages_' = [pages_ EXCEPT ![f] = [page_id_ |-> p, pin_count_ |-> 1,
                                      is_dirty_ |-> TRUE, data_ |-> Zero]]
  /\ next_page' = next_page + 1
  /\ Receive(p, f)
  /\ UNCHANGED <<disk, freed>>

NewPageFree ==
  /\ next_page < MaxPages
  /\ free_list_ # <<>>
  /\ free_list_' = PopBack(free_list_)
  /\ Install(next_page, Back(free_list_))
  /\ UNCHANGED replacer_

\* The condition of the first step has taken a victim already; the second
\* step takes another one, or keeps the first if there is no other.
NewPageVictim ==
  /\ next_page < MaxPages
  /\ free_list_ = <<>>
  /\ LRU!HasVictim(replacer_)
  /\ LET once == LRU!AfterVictim(replacer_)
     IN  /\ replacer_' = LRU!AfterVictim(once)
         /\ Install(next_page, IF LRU!HasVictim(once) THEN LRU!VictimOf(once)
                               ELSE LRU!VictimOf(replacer_))
  /\ UNCHANGED free_list_

\* DeletePage gives the page back to the disk manager before it looks at the
\* pin count; the frame stays in the replacer and keeps its dirty flag.
DeletePage(p) ==
  /\ freed' = freed \union {p}
  /\ IF Cached(p) /\ pages_[page_table_[p]].pin_count_ = 0
     THEN LET f == page_table_[p]
          IN  /\ pages_' = [pages_ EXCEPT ![f].page_id_ = INVALID_PAGE_ID,
                                          ![f].data_ = Zero]
              /\ page_table_' = [page_table_ EXCEPT ![p] = NoFrame]
              /\ free_list_' = Append(free_list_, f)
     ELSE UNCHANGED <<pages_, page_table_, free_list_>>
  /\ UNCHANGED <<replacer_, disk, next_page, callerVars>>

\* Faulty variant: a dirty page is only marked.
UnpinPageLazy(p, is_dirty) ==
  /\ LET f == page_table_[p]
         n == pages_[f].pin_count_
         left == IF n > 0 THEN n - 1 ELSE n
     IN  IF Cached(p)
         THEN /\ pages_' = [pages_ EXCEPT ![f].pin_count_ = left,
                                          ![f].is_dirty_ = @ \/ is_dirty]
              /\ replacer_' = IF left = 0 THEN LRU!AfterUnpin(replacer_, f)
                              ELSE replacer_
         ELSE UNCHANGED <<pages_, replacer_>>
  /\ Release(p, is_dirty)
  /\ UNCHANGED <<page_table_, free_list_, diskVars>>

\* UnpinPage; a dirty page is written at once (FlushPage clears its flag).
\* A page the pool does not know is refused.
UnpinPage(p, is_dirty) ==
  /\ LET f == page_table_[p]
         n == pages_[f].pin_count_
         left == IF n > 0 THEN n - 1 ELSE n
     IN  IF Cached(p) /\ n >= 0
         THEN /\ pages_' = [pages_ EXCEPT ![f].pin_count_ = left,
                                          ![f].is_dirty_ = @ /\ ~is_dirty]
              /\ replacer_' = IF left = 0 THEN LRU!AfterUnpin(replacer_, f)
                              ELSE replacer_
              /\ disk' = IF is_dirty THEN [disk EXCEPT ![p] = pages_[f].data_]
                         ELSE disk
         ELSE UNCHANGED <<pages_, replacer_, disk>>
  /\ Release(p, is_dirty)
  /\ UNCHANGED <<page_table_, free_list_, next_page, freed>>

FlushPage(p) ==
  /\ Cached(p)
  /\ disk' = [disk EXCEPT ![p] = pages_[page_table_[p]].data_]
  /\ pages_' = [pages_ EXCEPT ![page_table_[p]].is_dirty_ = FALSE]
  /\ UNCHANGED <<page_table_, free_list_, replacer_, next_page, freed, callerVars>>

\* The destructor writes every page of the page table; the program starts
\* again with an empty pool and callers that hold nothing.
Restart ==
  /\ disk' = [p \in Page |-> IF Cached(p) THEN pages_[page_table_[p]].data_
                             ELSE disk[p]]
  /\ page_table_' = EmptyPool.page_table_
  /\ pages_' = EmptyPool.pages_
  /\ free_list_' = EmptyPool.free_list_
  /\ replacer_' = EmptyPool.replacer_
  /\ pins' = [p \in Page |-> 0]
  /\ ptr' = [p \in Page |-> NoFrame]
  /\ unsaved' = {}
  /\ UNCHANGED <<next_page, freed>>

\* A caller writes through the pointer it holds.
CallerWrite(p, d) ==
  /\ pins[p] > 0
  /\ pages_' = [pages_ EXCEPT ![ptr[p]].data_ = d]
  /\ unsaved' = unsaved \union {p}
  /\ UNCHANGED <<page_table_, free_list_, replacer_, diskVars, pins, ptr>>

-----------------------------------------------------------------------------
(***************************************************************************)
(* Callers.  All of them announce what they wrote: the call that gives up  *)
(* the last pin of a written page says it is dirty.  A page may be unpinned *)
(* once too often.                                                         *)
(***************************************************************************)
Unpinning(p, is_dirty) ==
  /\ (pins[p] <= 1 /\ p \in unsaved) => is_dirty
  /\ UnpinPage(p, is_dirty)

Always ==
  \/ \E p \in Page : FetchHit(p) \/ FlushPage(p)
  \/ \E p \in Page, is_dirty \in BOOLEAN : Unpinning(p, is_dirty)
  \/ \E p \in Page, d \in Data : CallerWrite(p, d)
  \/ NewPageFree
  \/ Restart

FetchingFree == \E p \in Page : Live(p) /\ FetchFree(p)
FetchingVictim == \E p \in Page : Live(p) /\ FetchVictim(p)
FetchingUnset == \E p \in Page : Live(p) /\ FetchUnset(p)
DeletingUnpinned == \E p \in Page : Live(p) /\ pins[p] = 0 /\ DeletePage(p)
DeletingAny == \E p \in Page : Live(p) /\ DeletePage(p)

\* Everything the interface allows.
Next ==
  \/ Always
  \/ FetchingFree \/ FetchingVictim \/ FetchingUnset
  \/ NewPageVictim
  \/ DeletingAny

Spec == Init /\ [][Next]_vars

\* The callers that the pool serves well: NewPage is called while there is a
\* free frame, the pages pinned together are fewer than the frames, unpinned
\* pages are deleted, and pages share frames until the first one is deleted.
\* What that leaves out is no rare case.  On a full pool NewPageVictim loses the
\* first victim (free_list_ and replacer_ know it no longer, and once all frames
\* are lost "all pinned" is answered with no page pinned), does not write the
\* second one, and leaves the entry of its page in the page table, so that a later
\* fetch of that page hits a frame with another one; FetchUnset takes a frame that
\* nobody chose; a pinned page that is deleted is gone from under its caller.
\* Under Spec, with all of them, the pool is not a page store.
CarefulNext ==
  \/ Always
  \/ FetchingFree
  \/ freed = {} /\ FetchingVictim
  \/ DeletingUnpinned

CarefulSpec == Init /\ [][CarefulNext]_vars

-----------------------------------------------------------------------------
FrameRecord ==
  [page_id_ : Page \union {INVALID_PAGE_ID}, pin_count_ : Nat,
   is_dirty_ : BOOLEAN, data_ : Data]

TypeOK ==
  /\ page_table_ \in [Page -> Frame \union {NoFrame}]
  /\ pages_ \in [Frame -> FrameRecord]
  /\ free_list_ \in Seq(Frame)
  /\ replacer_ \in [lru_list_ : Seq(Frame), map_ : SUBSET Frame, in_size_ : Nat]
  /\ disk \in [Page -> Data]
  /\ next_page \in 0 .. MaxPages
  /\ freed \subseteq Page
  /\ pins \in [Page -> Nat]
  /\ ptr \in [Page -> Frame \union {NoFrame}]
  /\ unsaved \subseteq Page
  /\ \A p \in Page : pins[p] > 0 => ptr[p] # NoFrame

Free(f) == f \in LRU!FramesOf(free_list_)

\* Every frame is either free or holds the page that the page table sends to
\* it; the frames that hold an unpinned page are the ones the replacer knows,
\* as long as DeletePage has left none there.
FramesAccounted ==
  /\ TypeOK
  /\ \A p \in Page : Cached(p) => pages_[page_table_[p]].page_id_ = p
  /\ \A f \in Frame :
       /\ Free(f) <=> pages_[f].page_id_ = INVALID_PAGE_ID
       /\ ~Free(f) => page_table_[pages_[f].page_id_] = f
       /\ freed = {} =>
            (f \in replacer_.map_ <=> (~Free(f) /\ pages_[f].pin_count_ = 0))

\* A caller that holds a pin holds a pointer to the frame that has its page:
\* FetchPage and NewPage give nobody else a frame that is pinned.
PointersStayValid ==
  \A p \in Page : pins[p] > 0 =>
    /\ page_table_[p] = ptr[p]
    /\ pages_[ptr[p]].page_id_ = p

\* The bytes of a page, where they are up to date.
Content(p) == IF Cached(p) THEN pages_[page_table_[p]].data_ ELSE disk[p]

\* What was announced dirty is in the file: a crash loses no page but those
\* that were written since.
AnnouncedWritesDurable ==
  \A p \in Page : (Live(p) /\ p \notin unsaved) => Content(p) = disk[p]

\* The bytes of a page in use change only when a caller that holds it writes
\* them: not when it or another page is evicted, flushed, read or deleted, nor
\* across a restart, nor by a write through a pointer to another page.
OnlyCallersChangeBytes ==
  [][\A p \in Page : (Live(p) /\ p \notin freed' /\ Content(p)' # Content(p)) =>
       \E d \in Data : CallerWrite(p, d)]_vars

\* The pool is a page store: a page is handed out once, and no step of the
\* pool or its callers touches two pages at a time.
PS == INSTANCE PageStore WITH
        owners <- [p \in Page |-> IF Live(p) THEN 1 ELSE 0],
        content <- [p \in Page |-> Content(p)]

ImplementsPageStore == PS!Spec

=============================================================================
