---------------------------- MODULE DiskManager ----------------------------
(***************************************************************************)
(* The disk manager of MiniSQL: one file of physical pages                 *)
(*                                                                         *)
(*   | meta | bitmap 0 | N data pages | bitmap 1 | N data pages | ...      *)
(*                                                                         *)
(* The meta page (DiskFileMetaPage) is also kept in memory, as meta_page.  *)
(* A physical write is flushed at once (WritePhysicalPage), so a restart   *)
(* keeps what was written and loses what is only in meta_page.  The        *)
(* allocation that opens a new extent writes two pages; the process may    *)
(* stop between them, so it is two actions here.                           *)
(***************************************************************************)
EXTENDS Integers, FiniteSets

CONSTANTS
  N,           \* BITMAP_SIZE: the data pages of an extent
  MaxExtents,  \* bound: extents a file may have (the code has no limit)
  WordSize,    \* 2^32 in the code: the counters are uint32_t
  Data,        \* what a data page can hold
  Zero         \* a page of zero bytes

ASSUME NAssumption == N \in Nat \ {0}
ASSUME MaxExtentsAssumption == MaxExtents \in Nat \ {0}
ASSUME WordSizeAssumption == WordSize \in Nat /\ WordSize > N * MaxExtents
ASSUME ZeroAssumption == Zero \in Data

INVALID_PAGE_ID == -1
META_PAGE_ID == 0

Offset == 0 .. N - 1
Extent == 0 .. MaxExtents - 1
Page == 0 .. N * MaxExtents - 1
Word == 0 .. WordSize - 1
Phys == 0 .. MaxExtents * (N + 1)

ExtentOf(p) == p \div N
OffsetOf(p) == p % N

\* Faulty variant: the meta page is not counted in the layout.
MapPageIdNoMeta(p) == ExtentOf(p) * (N + 1) + OffsetOf(p) + 1

\* The physical page that holds a logical page, and the one that holds an
\* extent's bitmap.
MapPageId(p) == ExtentOf(p) * (N + 1) + OffsetOf(p) + 2

\* Faulty variant: the bitmaps are not counted in the layout.
BitmapPageIdPacked(e) == e * N + 1

BitmapPageId(e) == e * (N + 1) + 1

Meta == [num_allocated_pages_ : Word,
         num_extents_ : 0 .. MaxExtents,
         extent_used_page_ : [Extent -> Word]]

\* A physical page is bytes that the code casts to a meta page, a bitmap or
\* data.  The kind records which of them was written last; the bytes past the
\* end of the file read as zeros, whatever they are cast to.
Image == [kind : {"zero", "meta", "bitmap", "data"},
          meta : Meta,
          bits : SUBSET Offset,
          data : Data]

ZeroMeta ==
  [num_allocated_pages_ |-> 0,
   num_extents_ |-> 0,
   extent_used_page_ |-> [e \in Extent |-> 0]]

ZeroImage == [kind |-> "zero", meta |-> ZeroMeta, bits |-> {}, data |-> Zero]
MetaImage(m) == [ZeroImage EXCEPT !.kind = "meta", !.meta = m]
BitmapImage(b) == [ZeroImage EXCEPT !.kind = "bitmap", !.bits = b]
DataImage(d) == [ZeroImage EXCEPT !.kind = "data", !.data = d]

VARIABLES
  file,       \* the database file
  meta_page,  \* the meta page in memory
  opening,    \* the page whose allocation has written the bitmap of a new
              \* extent and not yet the meta page, or INVALID_PAGE_ID
  owners      \* history: how often a page was handed out since it was freed

vars == <<file, meta_page, opening, owners>>

\* The pages somebody owns.
Live == {p \in Page : owners[p] > 0}

Bits(e) == file[BitmapPageId(e)].bits

\* Faulty variant: the extent's counter is forgotten.
CountTotalOnly(m, e, delta) ==
  [m EXCEPT !.num_allocated_pages_ = (@ + delta + WordSize) % WordSize]

\* Counters are unsigned words: an increment and a decrement wrap around.
Count(m, e, delta) ==
  [m EXCEPT
     !.num_allocated_pages_ = (@ + delta + WordSize) % WordSize,
     !.extent_used_page_[e] = (@ + delta + WordSize) % WordSize]

-----------------------------------------------------------------------------
Init ==
  /\ file = [i \in Phys |-> ZeroImage]
  /\ meta_page = ZeroMeta
  /\ opening = INVALID_PAGE_ID
  /\ owners = [p \in Page |-> 0]

\* BitmapPage::AllocatePage: the first clear bit of a bitmap.
FirstFree(bits, o) ==
  /\ o \notin bits
  /\ \A x \in Offset : x < o => x \in bits

\* Faulty variant: the changed copy of the bitmap is not written back.
AllocatePageUnsaved(e, o) ==
  /\ opening = INVALID_PAGE_ID
  /\ e < meta_page.num_extents_
  /\ \A x \in Extent : x < e => Bits(x) = Offset
  /\ FirstFree(Bits(e), o)
  /\ meta_page' = Count(meta_page, e, 1)
  /\ owners' = [owners EXCEPT ![o + e * N] = @ + 1]
  /\ UNCHANGED <<file, opening>>

\* AllocatePage, the loop: the first extent with room gives its first free
\* page.  The bitmap is written; the counters change in memory only.
AllocatePage(e, o) ==
  /\ opening = INVALID_PAGE_ID
  /\ e < meta_page.num_extents_
  /\ \A x \in Extent : x < e => Bits(x) = Offset
  /\ FirstFree(Bits(e), o)
  /\ meta_page' = Count(meta_page, e, 1)
  /\ file' = [file EXCEPT ![BitmapPageId(e)] = BitmapImage(Bits(e) \union {o})]
  /\ owners' = [owners EXCEPT ![o + e * N] = @ + 1]
  /\ UNCHANGED opening

\* AllocatePage after the loop found no room: a new extent, its bitmap first.
AllocateExtent(e) ==
  /\ opening = INVALID_PAGE_ID
  /\ e = meta_page.num_extents_
  /\ \A x \in Extent : x < e => Bits(x) = Offset
  /\ meta_page' = [Count(meta_page, e, 1) EXCEPT !.num_extents_ = e + 1]
  /\ file' = [file EXCEPT ![BitmapPageId(e)] = BitmapImage({0})]
  /\ opening' = e * N
  /\ UNCHANGED owners

\* Faulty variant: the meta page is left to a later write.
AllocateExtentReturnUnsaved ==
  /\ opening # INVALID_PAGE_ID
  /\ owners' = [owners EXCEPT ![opening] = @ + 1]
  /\ opening' = INVALID_PAGE_ID
  /\ UNCHANGED <<file, meta_page>>

\* ... then the meta page, and the call returns.
AllocateExtentReturn ==
  /\ opening # INVALID_PAGE_ID
  /\ file' = [file EXCEPT ![META_PAGE_ID] = MetaImage(meta_page)]
  /\ owners' = [owners EXCEPT ![opening] = @ + 1]
  /\ opening' = INVALID_PAGE_ID
  /\ UNCHANGED meta_page

\* DeAllocatePage clears the bit in a copy of the bitmap that is not written
\* back; the counters go down and the meta page is written.
DeAllocatePage(p) ==
  /\ opening = INVALID_PAGE_ID
  /\ meta_page' = IF /\ ExtentOf(p) < meta_page.num_extents_
                     /\ OffsetOf(p) \in Bits(ExtentOf(p))
                  THEN Count(meta_page, ExtentOf(p), -1)
                  ELSE meta_page
  /\ file' = [file EXCEPT ![META_PAGE_ID] = MetaImage(meta_page')]
  /\ owners' = [owners EXCEPT ![p] = 0]
  /\ UNCHANGED opening

ReadPage(p) == file[MapPageId(p)].data

WritePage(p, d) ==
  /\ opening = INVALID_PAGE_ID
  /\ file' = [file EXCEPT ![MapPageId(p)] = DataImage(d)]
  /\ UNCHANGED <<meta_page, opening, owners>>

IsPageFree(p) ==
  ExtentOf(p) < meta_page.num_extents_ => OffsetOf(p) \notin Bits(ExtentOf(p))

\* The process ends, by Close or by a crash, and the constructor reads the
\* meta page of the file.  Nothing is written on the way.
Restart ==
  /\ meta_page' = file[META_PAGE_ID].meta
  /\ opening' = INVALID_PAGE_ID
  /\ UNCHANGED <<file, owners>>

-----------------------------------------------------------------------------
Allocation ==
  \/ \E e \in Extent, o \in Offset : AllocatePage(e, o)
  \/ \E e \in Extent : AllocateExtent(e)
  \/ AllocateExtentReturn

Writing == \E p \in Live, d \in Data : WritePage(p, d)

Next ==
  \/ Allocation
  \/ \E p \in Page : DeAllocatePage(p)
  \/ Writing
  \/ Restart

Spec == Init /\ [][Next]_vars

-----------------------------------------------------------------------------
TypeOK ==
  /\ file \in [Phys -> Image]
  /\ meta_page \in Meta
  /\ opening \in Page \union {INVALID_PAGE_ID}
  /\ owners \in [Page -> Nat]

\* The three kinds of pages never overwrite each other: MapPageId sends no
\* data page onto the meta page or onto a bitmap, so what AllocatePage and
\* the constructor cast to a bitmap or a meta page was written as one.
LayoutIntact ==
  /\ file[META_PAGE_ID].kind \in {"zero", "meta"}
  /\ \A e \in Extent : file[BitmapPageId(e)].kind \in {"zero", "bitmap"}
  /\ \A p \in Page : file[MapPageId(p)].kind \in {"zero", "data"}

\* A page in use is marked in a bitmap of the file and its extent is counted
\* by the meta page of the file, so that a restart at any moment, also between
\* the two writes that open an extent, leaves it allocated.
LiveSurvivesRestart ==
  \A p \in Live :
    /\ ExtentOf(p) < file[META_PAGE_ID].meta.num_extents_
    /\ OffsetOf(p) \in Bits(ExtentOf(p))

\* No page has two owners.
OneOwner == \A p \in Page : owners[p] <= 1

\* The meta page of the file counts the extents of the one in memory, but for
\* the extent that is being opened, which has one marked page.
ExtentsAgree ==
  LET saved == file[META_PAGE_ID].meta.num_extents_
  IN  IF opening = INVALID_PAGE_ID
      THEN meta_page.num_extents_ = saved
      ELSE /\ saved \in Extent
           /\ opening = saved * N
           /\ meta_page.num_extents_ = saved + 1
           /\ Bits(saved) = {0}

DiskInv ==
  TypeOK /\ LayoutIntact /\ LiveSurvivesRestart /\ OneOwner /\ ExtentsAgree

\* No id is handed out twice: the marked pages of the extents the meta page
\* counts are an initial segment of the ids, also after frees and restarts.
\* That is so because DeAllocatePage does not write the bitmap it has changed,
\* against "Free this page and reset bit map" (disk_manager.h): a page that is
\* freed is lost to the file.  It is no promise of the disk manager, but a fact
\* the modules above rely on where they give every new page a new id.
Marked ==
  {p \in Page : ExtentOf(p) < meta_page.num_extents_ /\ ~IsPageFree(p)}

IdsInSequence == \A p \in Marked : \A q \in Page : q < p => q \in Marked

\* The pages used in the extents before extent e, and in all of them.
UsedBefore(m) ==
  LET used[e \in 0 .. MaxExtents] ==
        IF e = 0 THEN 0 ELSE used[e - 1] + m.extent_used_page_[e - 1]
  IN  used

Total(m) == UsedBefore(m)[MaxExtents] % WordSize

\* The total kept by the meta page is the sum of the extents' counters, in
\* memory and on file, whatever wraps around.
CountersAgree ==
  /\ meta_page.num_allocated_pages_ = Total(meta_page)
  /\ LET m == file[META_PAGE_ID].meta IN m.num_allocated_pages_ = Total(m)

\* ReadPage returns what WritePage last wrote: nothing that is written to the
\* bitmaps, to the meta page or to another page, no free and no restart
\* changes the bytes of a page.
OnlyWritesChangeBytes ==
  [][\A p \in Page : ReadPage(p)' # ReadPage(p) =>
       \E d \in Data : WritePage(p, d)]_vars

\* The disk manager is a page store: across allocations, frees, writes and
\* restarts no page is handed to a second owner, and a step changes the owner
\* or the bytes of one page at most.
PS == INSTANCE PageStore WITH content <- [p \in Page |-> ReadPage(p)]

ImplementsPageStore == PS!Spec

=============================================================================
