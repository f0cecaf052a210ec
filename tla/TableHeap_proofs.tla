-------------------------- MODULE TableHeap_proofs -------------------------
(***************************************************************************)
(* The table heap, for pages, slots and rows of any sizes and any number   *)
(* of pages: the inductive invariant HeapInv says of every page how its    *)
(* rows lie in it (PageOK) and of the pages how they are linked (Links).   *)
(***************************************************************************)
EXTENDS TableHeap, FiniteSetTheorems, WellFoundedInduction, TLAPS

\* The slots with a row, and whether row r is what lies at slot i.
Used(p) == {i \in DOMAIN p.slots : p.slots[i].size # 0}
Holds(p, i, r) == r.size = p.slots[i].size /\ Reads(p, i, r)
End(s) == s.offset + s.size

\* The fields of a page.
IsPage(p) ==
  /\ p = [prev |-> p.prev, next |-> p.next, free |-> p.free, slots |-> p.slots,
          bytes |-> p.bytes]
  /\ p.free \in 0 .. PAGE_SIZE
  /\ p.slots \in Seq(Slot)

\* The rows fill the page from the free space pointer to the end.
Tiled(p) ==
  /\ \A i \in Used(p) : p.free <= p.slots[i].offset /\ End(p.slots[i]) <= PAGE_SIZE
  /\ \A i, j \in Used(p) : \/ i = j
                           \/ End(p.slots[i]) <= p.slots[j].offset
                           \/ End(p.slots[j]) <= p.slots[i].offset
  /\ \A x \in p.free .. PAGE_SIZE - 1 :
       \E i \in Used(p) : p.slots[i].offset <= x /\ x < End(p.slots[i])

\* The slots lie in front of the free space pointer, and there never were more
\* of them than there is room for with a row of a byte each.
SlotsFit(p) ==
  /\ SIZE_TABLE_PAGE_HEADER + SIZE_TUPLE * Len(p.slots) <= p.free
  /\ Len(p.slots) * (SIZE_TUPLE + 1) <= PAGE_SIZE - SIZE_TABLE_PAGE_HEADER

\* Every row is there to the last byte.
RowsWhole(p) == \A i \in Used(p) : \E r \in Row : Holds(p, i, r)

PageOK(p) == IsPage(p) /\ Tiled(p) /\ SlotsFit(p) /\ RowsWhole(p)

\* The pages in use are linked in the order of their ids; the others are empty.
Links(h) ==
  /\ h = [first_page_id_ |-> h.first_page_id_, allocated |-> h.allocated,
          pages |-> h.pages]
  /\ h.first_page_id_ = 0
  /\ h.allocated \in 1 .. MaxPages
  /\ DOMAIN h.pages = PageId /\ h.pages = [n \in PageId |-> h.pages[n]]
  /\ \A n \in 0 .. h.allocated - 1 :
       /\ h.pages[n].next = IF n = h.allocated - 1 THEN INVALID_PAGE_ID ELSE n + 1
       /\ h.pages[n].prev = n - 1
  /\ \A n \in PageId : n >= h.allocated => h.pages[n].slots = <<>>

HeapOK(h) == Links(h) /\ \A n \in PageId : PageOK(h.pages[n])

\* The order in which an iterator comes to the rows.
Before(c, d) == c[1] < d[1] \/ (c[1] = d[1] /\ c[2] < d[2])

\* A row an iterator has still to come to is in the table, behind the row the
\* iterator stands on.
Scan ==
  /\ cursor \in Rid \union {INVALID_ROWID}
  /\ cursor # INVALID_ROWID => cursor[1] < heap.allocated
  /\ due # INVALID_ROWID =>
       /\ cursor # INVALID_ROWID
       /\ due \in Visible(heap)
       /\ Before(cursor, due)

HeapInv == HeapOK(heap) /\ Scan

USE PageSizeAssumption, BoundsAssumption

-----------------------------------------------------------------------------
\* Every set of naturals has a least element, which is what Least chooses.
LEMMA LeastElement ==
  ASSUME NEW S, S \subseteq Nat, S # {}
  PROVE  Least(S) \in S /\ \A y \in S : Least(S) <= y
<1> DEFINE R == {ss \in Nat \X Nat : ss[1] < ss[2]}
<1>1. IsWellFoundedOn(R, Nat)
  BY NatLessThanWellFounded, Zenon DEF OpToRel
<1>2. PICK x \in S : \A y \in S : ~(<<y, x>> \in R)
  <2> HIDE DEF R
  <2>1. QED
    BY <1>1, WFMin, Zenon
<1>3. \A y, z \in Nat : y < z => <<y, z>> \in R
  OBVIOUS
<1> HIDE DEF R
<1>4. ASSUME NEW y \in S PROVE x <= y
  <2>1. x \in Nat /\ y \in Nat
    OBVIOUS
  <2>2. ~(y < x)
    BY <1>2, <1>3, <2>1, Zenon
  <2>3. QED
    BY <2>1, <2>2
<1>5. QED
  BY <1>4, Zenon DEF Least

\* Quotient and remainder.
LEMMA Division ==
  ASSUME NEW n \in Nat \ {0}, NEW p \in Nat
  PROVE  /\ p = n * (p \div n) + (p % n)
         /\ p % n \in 0 .. n - 1
         /\ p \div n \in Nat
OBVIOUS

\* Products of naturals.
LEMMA Times ==
  ASSUME NEW a \in Nat, NEW b \in Nat
  PROVE  a * b \in Nat /\ a * (b + 1) = a * b + a /\ b * (a + 1) = a * b + b
OBVIOUS

\* What a page's slots are.
LEMMA SlotsOfPage ==
  ASSUME NEW p, IsPage(p)
  PROVE  /\ Len(p.slots) \in Nat
         /\ DOMAIN p.slots = 1 .. Len(p.slots)
         /\ p.free \in Nat /\ p.free <= PAGE_SIZE
         /\ \A i \in DOMAIN p.slots : /\ p.slots[i] \in Slot
                                      /\ p.slots[i].offset \in 0 .. PAGE_SIZE
                                      /\ p.slots[i].size \in Nat
                                      /\ p.slots[i].deleted \in BOOLEAN
<1>1. /\ Len(p.slots) \in Nat
      /\ DOMAIN p.slots = 1 .. Len(p.slots)
      /\ p.free \in Nat /\ p.free <= PAGE_SIZE
      /\ \A i \in DOMAIN p.slots : p.slots[i] \in Slot
  BY DEF IsPage
<1>2. \A s \in Slot : s.offset \in 0 .. PAGE_SIZE /\ s.size \in Nat /\ s.deleted \in BOOLEAN
  BY DEF Slot
<1>3. QED
  BY <1>1, <1>2, Zenon

\* A row has a byte at least.
LEMMA RowSize ==
  ASSUME NEW r \in Row
  PROVE  r.size \in Nat /\ r.size > 0
<1>1. r.size \in Size
  BY Zenon DEF Row
<1>2. r.size \in Nat \ {0}
  BY <1>1, SizeAssumption, Zenon
<1>3. \A n \in Nat \ {0} : n \in Nat /\ n > 0
  OBVIOUS
<1>4. QED
  BY <1>2, <1>3, Zenon

\* A function over the first numbers is a sequence.
LEMMA SlotSequence ==
  ASSUME NEW n \in Nat, NEW f \in [1 .. n -> Slot]
  PROVE  f \in Seq(Slot) /\ Len(f) = n
OBVIOUS

\* The free space is computed without wrapping round.
LEMMA Remaining ==
  ASSUME NEW p, IsPage(p), SlotsFit(p)
  PROVE  /\ GetFreeSpaceRemaining(p)
              = p.free - SIZE_TABLE_PAGE_HEADER - SIZE_TUPLE * Len(p.slots)
         /\ GetFreeSpaceRemaining(p) \in Nat
<1> DEFINE x == p.free - SIZE_TABLE_PAGE_HEADER - SIZE_TUPLE * Len(p.slots)
           t == SIZE_TUPLE * Len(p.slots)
<1>1. t \in Nat
  BY SlotsOfPage
<1> HIDE DEF t
<1>2. x \in Nat /\ x < WordSize
  <2>1. p.free \in Nat /\ p.free <= PAGE_SIZE
    BY SlotsOfPage
  <2>2. SIZE_TABLE_PAGE_HEADER + t <= p.free
    BY DEF SlotsFit, t
  <2>3. x = p.free - SIZE_TABLE_PAGE_HEADER - t
    BY DEF t
  <2> HIDE DEF x
  <2>4. QED
    BY <1>1, <2>1, <2>2, <2>3
<1>3. \A y \in Nat : y < WordSize => y % WordSize = y
  OBVIOUS
<1> HIDE DEF x
<1>4. QED
  BY <1>2, <1>3 DEF GetFreeSpaceRemaining, x

\* A new page is a page without rows.
LEMMA NewPageOK ==
  ASSUME NEW prev
  PROVE  /\ PageOK(NewTablePage(prev))
         /\ NewTablePage(prev).slots = <<>>
         /\ NewTablePage(prev).prev = prev
         /\ NewTablePage(prev).next = INVALID_PAGE_ID
         /\ Used(NewTablePage(prev)) = {}
<1> DEFINE p == NewTablePage(prev)
<1>1. /\ p.prev = prev /\ p.next = INVALID_PAGE_ID /\ p.free = PAGE_SIZE
      /\ p.slots = <<>> /\ p.bytes = [x \in Byte |-> Junk]
      /\ p = [prev |-> p.prev, next |-> p.next, free |-> p.free, slots |-> p.slots,
              bytes |-> p.bytes]
  BY DEF NewTablePage
<1> HIDE DEF p
<1>2. Used(p) = {} /\ Len(p.slots) = 0 /\ p.slots \in Seq(Slot)
  BY <1>1 DEF Used
<1>3. IsPage(p)
  BY <1>1, <1>2 DEF IsPage
<1>4. Tiled(p) /\ RowsWhole(p)
  BY <1>1, <1>2 DEF Tiled, RowsWhole
<1>5. SlotsFit(p)
  BY <1>1, <1>2 DEF SlotsFit
<1>6. QED
  BY <1>1, <1>2, <1>3, <1>4, <1>5 DEF PageOK, p

-----------------------------------------------------------------------------
\* The slot of an insertion has no row.
LEMMA InsertSlotFree ==
  ASSUME NEW p, IsPage(p)
  PROVE  /\ InsertSlot(p) \in 1 .. Len(p.slots) + 1
         /\ InsertSlot(p) \notin Used(p)
         /\ InsertSlot(p) \notin DOMAIN p.slots => Used(p) = DOMAIN p.slots
<1> DEFINE empty == {i \in DOMAIN p.slots : p.slots[i].size = 0}
<1>1. Len(p.slots) \in Nat /\ DOMAIN p.slots = 1 .. Len(p.slots)
  BY SlotsOfPage
<1>2. CASE empty = {}
  <2>1. InsertSlot(p) = Len(p.slots) + 1
    BY <1>2 DEF InsertSlot
  <2>2. Used(p) = DOMAIN p.slots
    BY <1>2 DEF Used
  <2>3. QED
    BY <1>1, <2>1, <2>2
<1>3. CASE empty # {}
  <2>1. InsertSlot(p) = Least(empty)
    BY <1>3 DEF InsertSlot, Least
  <2>2. empty \subseteq Nat
    BY <1>1
  <2>3. Least(empty) \in empty
    <3> HIDE DEF empty
    <3>1. QED
      BY <1>3, <2>2, LeastElement
  <2>4. QED
    BY <1>1, <2>1, <2>3 DEF Used
<1>4. QED
  BY <1>2, <1>3

\* Rows that do not overlap are no more than the bytes they lie in.
LEMMA RowsCounted ==
  ASSUME NEW p, IsPage(p), Tiled(p), Used(p) = DOMAIN p.slots
  PROVE  Len(p.slots) <= PAGE_SIZE - p.free
<1> DEFINE n == Len(p.slots)
           S == 1 .. n
           B == p.free .. PAGE_SIZE - 1
           f == [i \in S |-> p.slots[i].offset]
<1>1. n \in Nat /\ DOMAIN p.slots = S /\ p.free \in Nat /\ p.free <= PAGE_SIZE
  BY SlotsOfPage
<1>2. \A i \in S : /\ p.slots[i].offset \in B
                   /\ p.slots[i].size \in Nat \ {0}
  BY <1>1, SlotsOfPage DEF Tiled, Used, End
<1>3. f \in [S -> B]
  BY <1>2
<1>4. \A i, j \in S : i # j => f[i] # f[j]
  <2> SUFFICES ASSUME NEW i \in S, NEW j \in S, i # j PROVE p.slots[i].offset # p.slots[j].offset
    OBVIOUS
  <2>1. i \in Used(p) /\ j \in Used(p)
    BY <1>1
  <2>2. \/ p.slots[i].offset + p.slots[i].size <= p.slots[j].offset
        \/ p.slots[j].offset + p.slots[j].size <= p.slots[i].offset
    BY <2>1, Zenon DEF Tiled, End
  <2>3. /\ p.slots[i].offset \in Int /\ p.slots[i].size \in Nat \ {0}
        /\ p.slots[j].offset \in Int /\ p.slots[j].size \in Nat \ {0}
    BY <1>1, <1>2
  <2>4. QED
    BY <2>2, <2>3, SMTT(30)
<1>5. /\ IsFiniteSet(S) /\ Cardinality(S) = n
      /\ IsFiniteSet(B) /\ Cardinality(B) = PAGE_SIZE - p.free
  <2>1. IsFiniteSet(S) /\ Cardinality(S) = IF 1 > n THEN 0 ELSE n - 1 + 1
    <3>1. 1 \in Int /\ n \in Int
      BY <1>1
    <3>2. QED
      BY <3>1, FS_Interval, Zenon
  <2>2. /\ IsFiniteSet(B)
        /\ Cardinality(B) = IF p.free > PAGE_SIZE - 1 THEN 0
                            ELSE PAGE_SIZE - 1 - p.free + 1
    <3>1. p.free \in Int /\ PAGE_SIZE - 1 \in Int
      BY <1>1
    <3>2. QED
      BY <3>1, FS_Interval, Zenon
  <2> HIDE DEF S, B
  <2>3. QED
    BY <1>1, <2>1, <2>2
<1>6. ~(Cardinality(B) < Cardinality(S))
  <2> HIDE DEF S, B, f
  <2>1. QED
    BY <1>3, <1>4, <1>5, FS_PigeonHole
<1> HIDE DEF S, B
<1>7. QED
  BY <1>1, <1>5, <1>6

\* The rows of a set of slots are the same in page q as in page p.
Keeps(p, q, S) ==
  \A j \in S : /\ q.slots[j].deleted = p.slots[j].deleted
               /\ \A s \in Row : Holds(p, j, s) => Holds(q, j, s)

\* InsertTuple makes one row more, in a slot without a row, and leaves the
\* other rows alone.
LEMMA InsertPage ==
  ASSUME NEW p, PageOK(p), NEW r \in Row, HasRoom(p, r),
         NEW q, q = InsertTuple(p, r), NEW i, i = InsertSlot(p)
  PROVE  /\ PageOK(q)
         /\ q.prev = p.prev /\ q.next = p.next
         /\ i \notin Used(p) /\ Used(q) = Used(p) \union {i}
         /\ Keeps(p, q, Used(p))
         /\ ~q.slots[i].deleted /\ Holds(q, i, r)
<1> DEFINE free == p.free
           size == r.size
           at == free - size
           n == Len(p.slots)
           slot == [offset |-> at, size |-> size, deleted |-> FALSE]
           t == SIZE_TUPLE * n
<1>0. IsPage(p) /\ Tiled(p) /\ SlotsFit(p) /\ RowsWhole(p)
  BY DEF PageOK
<1>1. n \in Nat /\ DOMAIN p.slots = 1 .. n /\ free \in Nat /\ free <= PAGE_SIZE
  BY <1>0, SlotsOfPage
<1>2. /\ i \in 1 .. n + 1 /\ i \notin Used(p)
      /\ i \notin DOMAIN p.slots => Used(p) = DOMAIN p.slots
  BY <1>0, InsertSlotFree
<1>3. size \in Nat /\ size > 0
  BY RowSize
<1>4. t \in Nat /\ SIZE_TUPLE * (n + 1) = t + SIZE_TUPLE
  <2> HIDE DEF n
  <2>1. QED
    BY <1>1, Times
<1>5. /\ at >= SIZE_TABLE_PAGE_HEADER + t + SIZE_TUPLE
      /\ at \in Nat /\ at < free /\ at + size = free
  <2>1. free - SIZE_TABLE_PAGE_HEADER - t >= size + SIZE_TUPLE
    BY <1>0, Remaining DEF HasRoom
  <2> HIDE DEF t, free, size
  <2>2. QED
    BY <1>1, <1>3, <1>4, <2>1
<1>6. /\ q.prev = p.prev /\ q.next = p.next /\ q.free = at
      /\ q.slots = [j \in DOMAIN p.slots \union {i} |-> IF j = i THEN slot ELSE p.slots[j]]
      /\ q.bytes = [x \in Byte |-> IF x \in at .. free - 1
                                   THEN <<r, x - at>> ELSE p.bytes[x]]
      /\ q = [prev |-> q.prev, next |-> q.next, free |-> q.free, slots |-> q.slots,
              bytes |-> q.bytes]
  <2>1. at + r.size - 1 = free - 1
    <3>1. at + size - 1 = free - 1
      <4> HIDE DEF at, size, free
      <4>1. QED
        BY <1>1, <1>3, <1>5
    <3>2. QED
      BY <3>1
  <2>2. QED
    BY <1>0, <2>1 DEF InsertTuple, IsPage
<1> HIDE DEF at, free, size
<1>free. q.free = at
  BY <1>6
<1>bytes. \A x \in Byte : q.bytes[x] = IF x \in at .. free - 1 THEN <<r, x - at>> ELSE p.bytes[x]
  BY <1>6
<1> DEFINE m == IF i = n + 1 THEN n + 1 ELSE n
<1>7. m \in Nat /\ DOMAIN p.slots \union {i} = 1 .. m
  BY <1>1, <1>2
<1>8. slot \in Slot
  BY <1>1, <1>3, <1>5 DEF Slot
<1>9. /\ q.slots \in Seq(Slot) /\ Len(q.slots) = m /\ DOMAIN q.slots = 1 .. m
      /\ q.slots[i] = slot /\ \A j \in Used(p) : j # i /\ j \in 1 .. m /\ q.slots[j] = p.slots[j]
  <2>1. q.slots \in [1 .. m -> Slot]
    <3>1. \A j \in DOMAIN p.slots : p.slots[j] \in Slot
      BY <1>0, SlotsOfPage
    <3>2. QED
      BY <1>6, <1>7, <1>8, <3>1
  <2>2. \A j \in Used(p) : j # i /\ j \in 1 .. m /\ q.slots[j] = p.slots[j]
    BY <1>1, <1>2, <1>6, <1>7 DEF Used
  <2>3. i \in 1 .. m /\ q.slots[i] = slot
    BY <1>6, <1>7
  <2>4. q.slots \in Seq(Slot) /\ Len(q.slots) = m /\ DOMAIN q.slots = 1 .. m
    <3> HIDE DEF m
    <3>1. QED
      BY <1>7, <2>1, SlotSequence
  <2>5. QED
    BY <2>2, <2>3, <2>4
<1>10. /\ q.slots[i].offset = at /\ q.slots[i].size = size /\ ~q.slots[i].deleted
  BY <1>9
<1> HIDE DEF slot
<1>11. Used(q) = Used(p) \union {i}
  <2>1. \A j \in 1 .. m : j # i => j \in DOMAIN p.slots /\ q.slots[j] = p.slots[j]
    BY <1>6, <1>7
  <2>2. i \in 1 .. m
    BY <1>7
  <2> HIDE DEF m
  <2>3. QED
    BY <1>3, <1>9, <1>10, <2>1, <2>2 DEF Used
<1>12. IsPage(q)
  BY <1>1, <1>5, <1>6, <1>9 DEF IsPage
<1>13. \A j \in Used(p) : /\ free <= p.slots[j].offset
                          /\ End(p.slots[j]) <= PAGE_SIZE
                          /\ p.slots[j].offset \in Nat /\ p.slots[j].size \in Nat
  <2>1. \A j \in Used(p) : p.free <= p.slots[j].offset /\ End(p.slots[j]) <= PAGE_SIZE
    BY <1>0 DEF Tiled
  <2>2. \A j \in Used(p) : p.slots[j].offset \in Nat /\ p.slots[j].size \in Nat
    BY <1>0, SlotsOfPage DEF Used
  <2>3. QED
    BY <2>1, <2>2 DEF free
<1> HIDE DEF m, t
<1>14. Tiled(q)
  <2>1. ASSUME NEW j \in Used(q)
        PROVE  q.free <= q.slots[j].offset /\ End(q.slots[j]) <= PAGE_SIZE
    <3>1. CASE j = i
      BY <1>1, <1>3, <1>5, <1>6, <1>10, <3>1 DEF End
    <3>2. CASE j \in Used(p)
      BY <1>1, <1>5, <1>free, <1>9, <1>13, <3>2, SMTT(30)
    <3>3. QED
      BY <1>11, <3>1, <3>2
  <2>2. ASSUME NEW j \in Used(q), NEW k \in Used(q), j # k
        PROVE  \/ End(q.slots[j]) <= q.slots[k].offset
               \/ End(q.slots[k]) <= q.slots[j].offset
    <3>1. CASE j \in Used(p) /\ k \in Used(p)
      <4>1. \/ End(p.slots[j]) <= p.slots[k].offset
            \/ End(p.slots[k]) <= p.slots[j].offset
        BY <1>0, <2>2, <3>1 DEF Tiled
      <4>2. QED
        BY <1>9, <3>1, <4>1
    <3>2. CASE j = i
      <4>1. k \in Used(p)
        BY <1>11, <2>2, <3>2
      <4>2. q.slots[k] = p.slots[k] /\ free <= p.slots[k].offset
        BY <1>9, <1>13, <4>1
      <4>3. End(q.slots[j]) = free
        BY <1>5, <1>10, <3>2 DEF End
      <4>4. QED
        BY <4>2, <4>3
    <3>3. CASE k = i
      <4>1. j \in Used(p)
        BY <1>11, <2>2, <3>3
      <4>2. q.slots[j] = p.slots[j] /\ free <= p.slots[j].offset
        BY <1>9, <1>13, <4>1
      <4>3. End(q.slots[k]) = free
        BY <1>5, <1>10, <3>3 DEF End
      <4>4. QED
        BY <4>2, <4>3
    <3>4. QED
      BY <1>11, <3>1, <3>2, <3>3
  <2>3. ASSUME NEW x \in q.free .. PAGE_SIZE - 1
        PROVE  \E j \in Used(q) : q.slots[j].offset <= x /\ x < End(q.slots[j])
    <3>1. CASE x < free
      <4>1. q.slots[i].offset <= x /\ x < End(q.slots[i])
        BY <1>1, <1>3, <1>5, <1>6, <1>10, <3>1, SMTT(30) DEF End
      <4>2. QED
        BY <1>11, <4>1
    <3>2. CASE x >= free
      <4>1. x \in p.free .. PAGE_SIZE - 1
        BY <1>1, <1>5, <1>6, <3>2 DEF free
      <4>2. PICK j \in Used(p) : p.slots[j].offset <= x /\ x < End(p.slots[j])
        BY <1>0, <4>1 DEF Tiled
      <4>3. QED
        BY <1>9, <1>11, <4>2
    <3>3. QED
      BY <1>1, <1>5, <1>free, <3>1, <3>2
  <2>4. QED
    BY <2>1, <2>2, <2>3 DEF Tiled
<1>15. SlotsFit(q)
  <2>1. CASE i = n + 1
    <3>1. m = n + 1 /\ Used(q) = DOMAIN q.slots
      <4>1. i \notin DOMAIN p.slots
        BY <1>1, <2>1
      <4>2. QED
        BY <1>1, <1>2, <1>7, <1>9, <1>11, <2>1, <4>1 DEF m
    <3>2. m <= PAGE_SIZE - at
      <4>1. Len(q.slots) <= PAGE_SIZE - q.free
        BY <1>12, <1>14, <3>1, RowsCounted
      <4>2. QED
        BY <1>free, <1>9, <4>1
    <3>3. SIZE_TUPLE * m = t + SIZE_TUPLE
      BY <1>4, <3>1
    <3>4. m * (SIZE_TUPLE + 1) = SIZE_TUPLE * m + m
      BY <1>7, Times
    <3>5. QED
      <4>1. /\ SIZE_TABLE_PAGE_HEADER + SIZE_TUPLE * m <= at
            /\ m * (SIZE_TUPLE + 1) <= PAGE_SIZE - SIZE_TABLE_PAGE_HEADER
        BY <1>4, <1>5, <1>7, <3>2, <3>3, <3>4
      <4>2. QED
        BY <1>free, <1>9, <4>1 DEF SlotsFit
  <2>2. CASE i # n + 1
    <3>1. m = n
      BY <2>2 DEF m
    <3>2. Len(p.slots) * (SIZE_TUPLE + 1) <= PAGE_SIZE - SIZE_TABLE_PAGE_HEADER
      BY <1>0 DEF SlotsFit
    <3>3. SIZE_TABLE_PAGE_HEADER + t <= at
      BY <1>4, <1>5
    <3>4. QED
      BY <1>6, <1>9, <3>1, <3>2, <3>3 DEF SlotsFit, t
  <2>3. QED
    BY <2>1, <2>2
<1>16. Holds(q, i, r)
  <2>1. ASSUME NEW k \in 0 .. size - 1
        PROVE  at + k \in Byte /\ q.bytes[at + k] = <<r, k>>
    <3>1. at + k \in Byte /\ at + k \in at .. free - 1 /\ (at + k) - at = k
      BY <1>1, <1>3, <1>5 DEF Byte
    <3>2. QED
      <4>1. q.bytes[at + k] = <<r, (at + k) - at>>
        <5> DEFINE y == at + k
        <5>1. y \in Byte /\ y \in at .. free - 1
          BY <3>1
        <5> HIDE DEF y
        <5>2. q.bytes[y] = <<r, y - at>>
          BY <1>bytes, <5>1
        <5>3. QED
          BY <5>2, Zenon DEF y
      <4>2. QED
        BY <3>1, <4>1, Zenon
  <2>2. QED
    BY <1>10, <2>1 DEF Holds, Reads, size
<1>17. Keeps(p, q, Used(p))
  <2> SUFFICES ASSUME NEW j \in Used(p), NEW s \in Row, Holds(p, j, s) PROVE Holds(q, j, s)
    BY <1>9 DEF Keeps
  <2>1. ASSUME NEW k \in 0 .. s.size - 1
        PROVE  q.slots[j].offset + k \in Byte /\ q.bytes[q.slots[j].offset + k] = <<s, k>>
    <3>1. p.slots[j].offset + k \in Byte /\ p.bytes[p.slots[j].offset + k] = <<s, k>>
      BY DEF Holds, Reads
    <3>2. p.slots[j].offset + k \notin at .. free - 1
      <4>1. free <= p.slots[j].offset /\ p.slots[j].offset \in Nat
        BY <1>13
      <4>2. k \in Nat
        BY RowSize
      <4>3. \A o, y \in Nat : free <= o => o + y \notin at .. free - 1
        BY <1>1, <1>5
      <4>4. QED
        BY <4>1, <4>2, <4>3, Zenon
    <3>3. QED
      BY <1>bytes, <1>9, <3>1, <3>2
  <2>2. QED
    BY <1>9, <2>1 DEF Holds, Reads
<1>18. RowsWhole(q)
  BY <1>0, <1>11, <1>16, <1>17 DEF RowsWhole, Keeps
<1>19. QED
  BY <1>2, <1>6, <1>10, <1>11, <1>12, <1>14, <1>15, <1>16, <1>17, <1>18 DEF PageOK

-----------------------------------------------------------------------------
\* Two rows of a page: one lies in front of the other.
LEMMA Around ==
  ASSUME NEW p, IsPage(p), Tiled(p), NEW i \in Used(p)
  PROVE  /\ p.slots[i].offset \in Nat /\ p.slots[i].size \in Nat /\ p.slots[i].size > 0
         /\ p.free <= p.slots[i].offset
         /\ p.slots[i].offset + p.slots[i].size <= PAGE_SIZE
         /\ \A j \in Used(p) \ {i} :
              \/ p.slots[j].offset + p.slots[j].size <= p.slots[i].offset
              \/ p.slots[i].offset + p.slots[i].size <= p.slots[j].offset
<1>1. i \in DOMAIN p.slots /\ p.slots[i].size # 0
  BY DEF Used
<1>2. p.slots[i].offset \in 0 .. PAGE_SIZE /\ p.slots[i].size \in Nat
  BY <1>1, SlotsOfPage
<1>3. p.slots[i].offset \in Nat /\ p.slots[i].size > 0
  BY <1>1, <1>2
<1>4. QED
  BY <1>2, <1>3, Zenon DEF Tiled, End

\* Page q is page p with the row of slot i replaced by one of another size, or
\* by none.
Spliced(p, q, i, new, size) ==
  LET s == p.slots[i]
      shift == s.size - size
  IN  /\ SIZE_TABLE_PAGE_HEADER + SIZE_TUPLE * Len(p.slots) <= p.free + shift
      /\ Len(q.slots) = Len(p.slots)
      /\ q.free = p.free + shift
      /\ q.bytes = Splice(p, i, new, size)
      /\ \A j \in DOMAIN p.slots \ {i} :
           q.slots[j].size = p.slots[j].size /\ q.slots[j].deleted = p.slots[j].deleted
      /\ \A j \in Used(p) \ {i} :
           q.slots[j].offset = IF p.slots[j].offset < s.offset
                               THEN p.slots[j].offset + shift ELSE p.slots[j].offset
      /\ q.slots[i].size = size
      /\ size # 0 => q.slots[i].offset = s.offset + shift

Written(q, i, new, size) ==
  \A k \in 0 .. size - 1 : /\ q.slots[i].offset + k \in Byte
                           /\ q.bytes[q.slots[i].offset + k] = <<new, k>>

\* Then the rows in front of it have moved with the free space pointer, and all
\* the other rows are kept.
LEMMA SpliceStep ==
  ASSUME NEW p, PageOK(p), NEW i \in Used(p), NEW size \in Nat, NEW new,
         NEW q, IsPage(q), Spliced(p, q, i, new, size)
  PROVE  /\ Tiled(q) /\ SlotsFit(q)
         /\ Keeps(p, q, Used(p) \ {i})
         /\ Written(q, i, new, size)
<1> DEFINE U == Used(p)
           V == Used(q)
           free == p.free
           off(j) == p.slots[j].offset
           sz(j) == p.slots[j].size
           noff(j) == q.slots[j].offset
           nsz(j) == q.slots[j].size
           nfree == q.free
           o == off(i)
           old == sz(i)
           shift == old - size
<1>1. IsPage(p) /\ Tiled(p) /\ SlotsFit(p) /\ RowsWhole(p)
  BY DEF PageOK
<1>2. /\ DOMAIN q.slots = DOMAIN p.slots
      /\ free \in Nat /\ nfree \in Nat /\ nfree <= PAGE_SIZE
      /\ \A j \in DOMAIN q.slots : noff(j) \in Nat /\ nsz(j) \in Nat
  BY <1>1, SlotsOfPage, SMTT(30) DEF Spliced
<1>3. /\ \A j \in U : /\ off(j) \in Nat /\ sz(j) \in Nat /\ sz(j) > 0
                      /\ free <= off(j) /\ off(j) + sz(j) <= PAGE_SIZE
      /\ \A j, k \in U : j # k => off(j) + sz(j) <= off(k) \/ off(k) + sz(k) <= off(j)
  <2>1. \A j \in U : /\ off(j) \in Nat /\ sz(j) \in Nat /\ sz(j) > 0
                     /\ free <= off(j) /\ off(j) + sz(j) <= PAGE_SIZE
    BY <1>1, Around
  <2>2. \A j, k \in U : j # k => off(j) + sz(j) <= off(k) \/ off(k) + sz(k) <= off(j)
    BY <1>1, Zenon DEF Tiled, End
  <2>3. QED
    BY <2>1, <2>2, Zenon
<1>4. \A x \in free .. PAGE_SIZE - 1 : \E j \in U : off(j) <= x /\ x < off(j) + sz(j)
  BY <1>1, Zenon DEF Tiled, End
<1>5. V = IF size = 0 THEN U \ {i} ELSE U
  <2>1. /\ \A j \in DOMAIN p.slots \ {i} : nsz(j) = sz(j)
        /\ nsz(i) = size
    BY DEF Spliced
  <2>2. i \in DOMAIN p.slots
    BY DEF Used
  <2>3. QED
    BY <1>2, <2>1, <2>2 DEF Used
<1>6. \A j \in U \ {i} : /\ nsz(j) = sz(j)
                         /\ noff(j) = IF off(j) < o THEN off(j) + shift ELSE off(j)
  <2>1. U \subseteq DOMAIN p.slots
    BY DEF Used
  <2>2. QED
    BY <2>1, Zenon DEF Spliced
<1>7. /\ nsz(i) = size /\ (size # 0 => noff(i) = o + shift)
      /\ nfree = free + shift /\ shift = old - size
  BY DEF Spliced
<1>8. \A x \in Byte : q.bytes[x] = IF x < free + shift THEN Junk
                                   ELSE IF x < o + shift THEN p.bytes[x - shift]
                                   ELSE IF x < o + old THEN <<new, x - (o + shift)>>
                                   ELSE p.bytes[x]
  <2>1. q.bytes = [x \in Byte |-> IF x < free + shift THEN Junk
                                   ELSE IF x < o + shift THEN p.bytes[x - shift]
                                   ELSE IF x < o + old THEN <<new, x - (o + shift)>>
                                   ELSE p.bytes[x]]
    BY DEF Spliced, Splice
  <2> HIDE DEF free, o, old, shift
  <2>2. QED
    BY <2>1
<1>9. i \in U /\ o \in Nat /\ old \in Nat /\ old > 0 /\ shift \in Int /\ free <= o
      /\ o + old <= PAGE_SIZE
  BY <1>3, <1>7
<1>10. \A j \in U \ {i} : \/ off(j) < o /\ off(j) + sz(j) <= o
                          \/ off(j) >= o /\ o + old <= off(j)
  <2> SUFFICES ASSUME NEW j \in U \ {i}
               PROVE  \/ off(j) < o /\ off(j) + sz(j) <= o
                      \/ off(j) >= o /\ o + old <= off(j)
    OBVIOUS
  <2>1. off(j) \in Nat /\ sz(j) \in Nat /\ sz(j) > 0
    BY <1>3
  <2>2. off(j) + sz(j) <= o \/ o + old <= off(j)
    BY <1>3, <1>9
  <2> HIDE DEF off, sz, o, old
  <2>3. QED
    BY <1>9, <2>1, <2>2
<1> HIDE DEF U, V, free, off, sz, noff, nsz, nfree, o, old, shift
<1>11. Tiled(q)
  <2>1. ASSUME NEW j \in V PROVE nfree <= noff(j) /\ noff(j) + nsz(j) <= PAGE_SIZE
    <3>1. CASE j = i
      BY <1>2, <1>5, <1>7, <1>9, <3>1
    <3>2. CASE j \in U \ {i}
      BY <1>2, <1>3, <1>6, <1>7, <1>9, <1>10, <3>2
    <3>3. QED
      BY <1>5, <3>1, <3>2
  <2>2. ASSUME NEW j \in V, NEW k \in V, j # k
        PROVE  noff(j) + nsz(j) <= noff(k) \/ noff(k) + nsz(k) <= noff(j)
    <3>1. CASE j = i
      <4>1. k \in U \ {i} /\ size # 0
        BY <1>5, <2>2, <3>1
      <4>2. QED
        BY <1>3, <1>6, <1>7, <1>9, <1>10, <3>1, <4>1
    <3>2. CASE k = i
      <4>1. j \in U \ {i} /\ size # 0
        BY <1>5, <2>2, <3>2
      <4>2. QED
        BY <1>3, <1>6, <1>7, <1>9, <1>10, <3>2, <4>1
    <3>3. CASE j # i /\ k # i
      <4>1. j \in U \ {i} /\ k \in U \ {i}
        BY <1>5, <3>3
      <4>2. off(j) + sz(j) <= off(k) \/ off(k) + sz(k) <= off(j)
        BY <1>3, <2>2, <4>1
      <4>3. /\ off(j) \in Nat /\ sz(j) \in Nat /\ sz(j) > 0
            /\ off(k) \in Nat /\ sz(k) \in Nat /\ sz(k) > 0
        BY <1>3, <4>1
      <4>4. /\ nsz(j) = sz(j) /\ nsz(k) = sz(k)
            /\ noff(j) = IF off(j) < o THEN off(j) + shift ELSE off(j)
            /\ noff(k) = IF off(k) < o THEN off(k) + shift ELSE off(k)
        BY <1>6, <4>1
      <4>5. /\ off(j) + sz(j) <= o \/ o + old <= off(j)
            /\ off(k) + sz(k) <= o \/ o + old <= off(k)
        BY <1>10, <4>1
      <4>6. shift <= old
        BY <1>7, <1>9
      <4>7. QED
        BY <1>9, <4>2, <4>3, <4>4, <4>5, <4>6
    <3>4. QED
      BY <3>1, <3>2, <3>3
  <2>3. ASSUME NEW x \in nfree .. PAGE_SIZE - 1
        PROVE  \E j \in V : noff(j) <= x /\ x < noff(j) + nsz(j)
    <3>1. CASE x >= o + old
      <4>1. x \in free .. PAGE_SIZE - 1
        BY <1>2, <1>9, <3>1
      <4>2. PICK j \in U : off(j) <= x /\ x < off(j) + sz(j)
        BY <1>4, <4>1
      <4>3. j # i
        BY <1>9, <3>1, <4>2 DEF o, old
      <4>4. noff(j) = off(j) /\ nsz(j) = sz(j) /\ j \in V
        BY <1>2, <1>3, <1>5, <1>6, <1>9, <1>10, <3>1, <4>2, <4>3
      <4>5. QED
        BY <4>2, <4>4
    <3>2. CASE o + shift <= x /\ x < o + old
      <4>1. size # 0 /\ i \in V
        BY <1>2, <1>5, <1>7, <1>9, <3>2
      <4>2. QED
        BY <1>2, <1>7, <1>9, <3>2, <4>1
    <3>3. CASE x < o + shift
      <4>1. x - shift \in free .. PAGE_SIZE - 1
        BY <1>2, <1>7, <1>9, <3>3
      <4>2. PICK j \in U : off(j) <= x - shift /\ x - shift < off(j) + sz(j)
        BY <1>4, <4>1
      <4>3. off(j) \in Nat /\ off(j) < o /\ x \in Int
        BY <1>2, <1>3, <1>9, <3>3, <4>2
      <4>4. j # i
        BY <4>3 DEF o
      <4>5. noff(j) = off(j) + shift /\ nsz(j) = sz(j) /\ j \in V
        BY <1>5, <1>6, <4>3, <4>4
      <4>6. sz(j) \in Nat
        BY <1>3
      <4>7. QED
        BY <1>9, <4>2, <4>3, <4>5, <4>6
    <3>4. QED
      BY <1>2, <1>9, <3>1, <3>2, <3>3
  <2>4. QED
    BY <2>1, <2>2, <2>3, Zenon DEF Tiled, End, V, noff, nsz, nfree
<1>12. SlotsFit(q)
  BY <1>1 DEF SlotsFit, Spliced
<1>13. ASSUME NEW k \in 0 .. size - 1
       PROVE  noff(i) + k \in Byte /\ q.bytes[noff(i) + k] = <<new, k>>
  <2> DEFINE x == noff(i) + k
  <2>1. size # 0 /\ k \in Nat /\ noff(i) = o + shift /\ noff(i) \in Int
    BY <1>7, <1>9
  <2>2. /\ x \in Byte /\ ~(x < free + shift) /\ ~(x < o + shift) /\ x < o + old
        /\ x - (o + shift) = k
    <3>1. free + shift \in Nat
      BY <1>2, <1>7
    <3>2. QED
      BY <1>2, <1>7, <1>9, <2>1, <3>1 DEF Byte
  <2> HIDE DEF x
  <2>3. q.bytes[x] = <<new, x - (o + shift)>>
    BY <1>8, <2>2
  <2>4. QED
    BY <2>2, <2>3, Zenon DEF x
<1>14. Keeps(p, q, U \ {i})
  <2> SUFFICES ASSUME NEW j \in U \ {i}, NEW s \in Row, Holds(p, j, s) PROVE Holds(q, j, s)
    <3>1. U \subseteq DOMAIN p.slots
      BY DEF Used, U
    <3>2. QED
      BY <3>1, Zenon DEF Keeps, Spliced
  <2>1. s.size = sz(j) /\ s.size \in Nat
    BY RowSize DEF Holds, sz
  <2>2. ASSUME NEW k \in 0 .. s.size - 1
        PROVE  noff(j) + k \in Byte /\ q.bytes[noff(j) + k] = <<s, k>>
    <3> DEFINE x == noff(j) + k
               y == off(j) + k
    <3>1. y \in Byte /\ p.bytes[y] = <<s, k>>
      BY DEF Holds, Reads, off
    <3>2. /\ k \in Nat /\ k < sz(j) /\ sz(j) \in Nat /\ off(j) \in Nat
          /\ free <= off(j) /\ off(j) + sz(j) <= PAGE_SIZE /\ free \in Nat
          /\ free + shift \in Nat
      BY <1>2, <1>3, <1>7, <2>1
    <3>3. CASE off(j) < o /\ off(j) + sz(j) <= o
      <4>1. noff(j) = off(j) + shift
        BY <1>6, <3>3
      <4>2. /\ x \in Byte /\ ~(x < free + shift) /\ x < o + shift
            /\ x - shift = y
        BY <1>7, <1>9, <3>2, <3>3, <4>1 DEF Byte
      <4> HIDE DEF x, y
      <4>3. q.bytes[x] = p.bytes[x - shift]
        BY <1>8, <4>2
      <4>4. QED
        BY <3>1, <4>2, <4>3, Zenon DEF x
    <3>4. CASE off(j) >= o /\ o + old <= off(j)
      <4>1. noff(j) = off(j)
        BY <1>6, <1>9, <3>2, <3>4
      <4>2. /\ x \in Byte /\ ~(x < free + shift) /\ ~(x < o + shift) /\ ~(x < o + old)
            /\ x = y
        BY <1>7, <1>9, <3>2, <3>4, <4>1 DEF Byte
      <4> HIDE DEF x, y
      <4>3. q.bytes[x] = p.bytes[x]
        BY <1>8, <4>2
      <4>4. QED
        BY <3>1, <4>2, <4>3, Zenon DEF x
    <3>5. QED
      BY <1>10, <3>3, <3>4
  <2>3. s.size = q.slots[j].size
    BY <1>6, <2>1 DEF nsz
  <2>4. QED
    BY <2>2, <2>3, Zenon DEF Holds, Reads, noff
<1>15. QED
  BY <1>11, <1>12, <1>13, <1>14, Zenon DEF U, noff, Written

\* The page with the mark of a slot set, or taken away.
Marked(p, i, d) == [p EXCEPT !.slots[i].deleted = d]

\* MarkDelete and RollbackDelete set the mark of a row and nothing else.
LEMMA MarkFields ==
  ASSUME NEW p, PageOK(p), NEW i \in Used(p), NEW d \in BOOLEAN,
         NEW q, q = Marked(p, i, d)
  PROVE  /\ PageOK(q)
         /\ q.prev = p.prev /\ q.next = p.next
         /\ Used(q) = Used(p)
         /\ Keeps(p, q, Used(p) \ {i})
         /\ q.slots[i].deleted = d /\ \A s \in Row : Holds(p, i, s) => Holds(q, i, s)
<1> DEFINE n == Len(p.slots)
<1>1. IsPage(p) /\ Tiled(p) /\ SlotsFit(p) /\ RowsWhole(p)
  BY DEF PageOK
<1>2. n \in Nat /\ DOMAIN p.slots = 1 .. n /\ i \in DOMAIN p.slots /\ p.slots \in [1 .. n -> Slot]
  BY <1>1, SlotsOfPage DEF IsPage, Used
<1>3. /\ q.prev = p.prev /\ q.next = p.next /\ q.free = p.free /\ q.bytes = p.bytes
      /\ q.slots = [p.slots EXCEPT ![i] = [p.slots[i] EXCEPT !.deleted = d]]
      /\ q = [prev |-> q.prev, next |-> q.next, free |-> q.free, slots |-> q.slots,
              bytes |-> q.bytes]
  BY <1>1 DEF IsPage, Marked
<1>4. \A s \in Slot : /\ [s EXCEPT !.deleted = d] \in Slot
                      /\ [s EXCEPT !.deleted = d].offset = s.offset
                      /\ [s EXCEPT !.deleted = d].size = s.size
                      /\ [s EXCEPT !.deleted = d].deleted = d
  BY DEF Slot
<1> DEFINE slot == [p.slots[i] EXCEPT !.deleted = d]
<1>5. slot \in Slot /\ slot.offset = p.slots[i].offset /\ slot.size = p.slots[i].size /\ slot.deleted = d
  BY <1>2, <1>4
<1>6. /\ q.slots \in [1 .. n -> Slot]
      /\ q.slots[i] = slot /\ \A j \in 1 .. n : j # i => q.slots[j] = p.slots[j]
  <2> HIDE DEF slot, n
  <2>1. q.slots = [p.slots EXCEPT ![i] = slot]
    BY <1>3 DEF slot
  <2>2. slot \in Slot
    BY <1>5
  <2>3. QED
    <3>1. i \in 1 .. n
      BY <1>2
    <3>2. p.slots \in [1 .. n -> Slot]
      BY <1>2
    <3>3. QED
      <4> DEFINE f == p.slots
                 g == q.slots
                 D == 1 .. n
      <4>1. f \in [D -> Slot] /\ i \in D /\ g = [f EXCEPT ![i] = slot]
        BY <2>1, <3>1, <3>2, Zenon
      <4> HIDE DEF f, g, D
      <4>2. g \in [D -> Slot] /\ g[i] = slot /\ \A j \in D : j # i => g[j] = f[j]
        BY <2>2, <4>1
      <4>3. QED
        BY <4>2, Zenon DEF f, g, D
<1> HIDE DEF slot
<1>7. q.slots \in Seq(Slot) /\ Len(q.slots) = n /\ DOMAIN q.slots = DOMAIN p.slots
  <2> HIDE DEF n
  <2>1. QED
    BY <1>2, <1>6, SlotSequence
<1>8. /\ \A j \in DOMAIN p.slots : /\ q.slots[j].offset = p.slots[j].offset
                                   /\ q.slots[j].size = p.slots[j].size
      /\ \A j \in DOMAIN p.slots : j # i => q.slots[j].deleted = p.slots[j].deleted
      /\ q.slots[i].deleted = d
  BY <1>2, <1>5, <1>6
<1>9. Used(q) = Used(p) /\ Used(p) \subseteq DOMAIN p.slots
  BY <1>7, <1>8 DEF Used
<1>10. IsPage(q)
  BY <1>1, <1>3, <1>7 DEF IsPage
<1>11. Tiled(q)
  <2>1. \A j \in Used(p) : /\ q.slots[j].offset = p.slots[j].offset
                           /\ End(q.slots[j]) = End(p.slots[j])
    BY <1>8, <1>9, Zenon DEF End
  <2>2. q.free = p.free
    BY <1>3
  <2>3. \A j \in Used(q) : q.free <= q.slots[j].offset /\ End(q.slots[j]) <= PAGE_SIZE
    BY <1>1, <1>9, <2>1, <2>2, Zenon DEF Tiled
  <2>4. \A j, k \in Used(q) : \/ j = k
                              \/ End(q.slots[j]) <= q.slots[k].offset
                              \/ End(q.slots[k]) <= q.slots[j].offset
    BY <1>1, <1>9, <2>1, Zenon DEF Tiled
  <2>5. ASSUME NEW x \in q.free .. PAGE_SIZE - 1
        PROVE  \E j \in Used(q) : q.slots[j].offset <= x /\ x < End(q.slots[j])
    <3>1. PICK j \in Used(p) : p.slots[j].offset <= x /\ x < End(p.slots[j])
      BY <1>1, <2>2, Zenon DEF Tiled
    <3>2. QED
      BY <1>9, <2>1, <3>1, Zenon
  <2>6. QED
    BY <2>3, <2>4, <2>5, Zenon DEF Tiled
<1>12. SlotsFit(q)
  BY <1>1, <1>3, <1>7 DEF SlotsFit
<1>13. \A j \in Used(p), s \in Row : Holds(p, j, s) => Holds(q, j, s)
  <2> SUFFICES ASSUME NEW j \in Used(p), NEW s \in Row, Holds(p, j, s) PROVE Holds(q, j, s)
    OBVIOUS
  <2>1. q.slots[j].offset = p.slots[j].offset /\ q.slots[j].size = p.slots[j].size
    BY <1>8, <1>9, Zenon
  <2>2. q.bytes = p.bytes
    BY <1>3
  <2>3. QED
    BY <2>1, <2>2 DEF Holds, Reads
<1>14. RowsWhole(q)
  BY <1>1, <1>9, <1>13, Zenon DEF RowsWhole
<1>15. QED
  BY <1>3, <1>8, <1>9, <1>10, <1>11, <1>12, <1>13, <1>14, Zenon DEF PageOK, Keeps

\* MarkDelete sets the mark, RollbackDelete takes it away.
LEMMA MarkSet ==
  ASSUME NEW p, PageOK(p), NEW i \in Used(p)
  PROVE  Marked(p, i, TRUE).slots[i].deleted /\ ~Marked(p, i, FALSE).slots[i].deleted
BY MarkFields

\* What a mark leaves alone.
LEMMA MarkPage ==
  ASSUME NEW p, PageOK(p), NEW i \in Used(p), NEW d \in BOOLEAN,
         NEW q, q = Marked(p, i, d)
  PROVE  /\ PageOK(q)
         /\ q.prev = p.prev /\ q.next = p.next
         /\ Used(q) = Used(p)
         /\ Keeps(p, q, Used(p) \ {i})
         /\ \A s \in Row : Holds(p, i, s) => Holds(q, i, s)
BY MarkFields

\* A slot with its offset moved, and a size of its own.
LEMMA MovedSlot ==
  ASSUME NEW s \in Slot, NEW shift \in Int, s.offset + shift \in 0 .. PAGE_SIZE,
         NEW size \in Nat
  PROVE  LET new == [Moved(s, shift) EXCEPT !.size = size]
             moved == Moved(s, shift)
         IN  /\ new \in Slot /\ new.offset = s.offset + shift
             /\ new.size = size /\ new.deleted = s.deleted
             /\ moved \in Slot /\ moved.offset = s.offset + shift
             /\ moved.size = s.size /\ moved.deleted = s.deleted
<1> DEFINE moved == Moved(s, shift)
           new == [moved EXCEPT !.size = size]
<1>1. /\ moved \in Slot /\ moved.offset = s.offset + shift
      /\ moved.size = s.size /\ moved.deleted = s.deleted
  BY DEF Slot, Moved
<1> HIDE DEF moved
<1>2. /\ new \in Slot /\ new.offset = moved.offset
      /\ new.size = size /\ new.deleted = moved.deleted
  BY <1>1 DEF Slot
<1>3. QED
  BY <1>1, <1>2 DEF moved

\* The space of the row of a slot is free.
Freed(p, q, i) == q.free = p.free + p.slots[i].size /\ Len(q.slots) = Len(p.slots)

\* ApplyDelete takes the row of a slot away and keeps the others.
LEMMA DeletePage ==
  ASSUME NEW p, PageOK(p), NEW i \in Used(p), NEW q, q = ApplyDelete(p, i)
  PROVE  /\ PageOK(q)
         /\ q.prev = p.prev /\ q.next = p.next
         /\ Freed(p, q, i)
         /\ Used(q) = Used(p) \ {i}
         /\ Keeps(p, q, Used(p) \ {i})
<1> DEFINE n == Len(p.slots)
           s == p.slots[i]
           Moves(j) == p.slots[j].size # 0 /\ p.slots[j].offset < s.offset
           moved(j) == Moved(p.slots[j], s.size)
<1>1. IsPage(p) /\ Tiled(p) /\ SlotsFit(p) /\ RowsWhole(p)
  BY DEF PageOK
<1>2. /\ n \in Nat /\ DOMAIN p.slots = 1 .. n /\ i \in DOMAIN p.slots
      /\ \A j \in DOMAIN p.slots : p.slots[j] \in Slot
      /\ p.free \in Nat /\ p.free <= PAGE_SIZE
  BY <1>1, SlotsOfPage DEF Used
<1>3. /\ q.prev = p.prev /\ q.next = p.next /\ q.free = p.free + s.size
      /\ q.bytes = Splice(p, i, Junk, 0)
      /\ q.slots = [j \in DOMAIN p.slots |-> IF j = i THEN EmptySlot
                                             ELSE IF Moves(j) THEN moved(j) ELSE p.slots[j]]
      /\ q = [prev |-> q.prev, next |-> q.next, free |-> q.free, slots |-> q.slots,
              bytes |-> q.bytes]
  <2> DEFINE free == p.free + s.size
             bytes == Splice(p, i, Junk, 0)
             slots == [j \in DOMAIN p.slots |-> IF j = i THEN EmptySlot
                                               ELSE IF Moves(j) THEN moved(j) ELSE p.slots[j]]
  <2>1. q = [p EXCEPT !.free = free, !.bytes = bytes, !.slots = slots]
    BY DEF ApplyDelete
  <2> HIDE DEF free, bytes, slots
  <2>2. /\ q.prev = p.prev /\ q.next = p.next /\ q.free = free /\ q.bytes = bytes
        /\ q.slots = slots
        /\ q = [prev |-> q.prev, next |-> q.next, free |-> q.free, slots |-> q.slots,
                bytes |-> q.bytes]
    BY <1>1, <2>1 DEF IsPage
  <2>3. QED
    BY <2>2, Zenon DEF free, bytes, slots
<1>4. /\ s.offset \in Nat /\ s.size \in Nat /\ s.size > 0 /\ p.free <= s.offset
      /\ s.offset + s.size <= PAGE_SIZE
  BY <1>1, Around
<1>5. ASSUME NEW j \in DOMAIN p.slots, Moves(j)
      PROVE  /\ moved(j) \in Slot /\ moved(j).offset = p.slots[j].offset + s.size
             /\ moved(j).size = p.slots[j].size /\ moved(j).deleted = p.slots[j].deleted
  <2>1. p.slots[j].offset \in Nat /\ p.slots[j].offset < s.offset
    BY <1>1, <1>5, SlotsOfPage
  <2>2. p.slots[j].offset + s.size \in 0 .. PAGE_SIZE /\ s.size \in Int
    BY <1>4, <2>1
  <2>3. p.slots[j] \in Slot /\ s.size \in Int /\ s.size \in Nat
    BY <1>2, <1>4
  <2>4. QED
    BY <2>2, <2>3, MovedSlot, ZenonT(60)
<1>6. EmptySlot \in Slot /\ EmptySlot.size = 0
  BY DEF EmptySlot, Slot
<1> HIDE DEF moved, Moves
<1>7. /\ q.slots \in [1 .. n -> Slot]
      /\ q.slots[i] = EmptySlot
      /\ \A j \in DOMAIN p.slots \ {i} : q.slots[j] = IF Moves(j) THEN moved(j) ELSE p.slots[j]
  <2> HIDE DEF n
  <2>1. QED
    BY <1>2, <1>3, <1>5, <1>6
<1>8. q.slots \in Seq(Slot) /\ Len(q.slots) = n /\ DOMAIN q.slots = DOMAIN p.slots
  <2> HIDE DEF n
  <2>1. QED
    BY <1>2, <1>7, SlotSequence
<1>9. IsPage(q)
  <2>1. q.free \in 0 .. PAGE_SIZE
    <3>1. q.free = p.free + s.size
      BY <1>3
    <3>2. QED
      BY <1>2, <1>4, <3>1, SMTT(30)
  <2>2. QED
    BY <1>3, <1>8, <2>1, Zenon DEF IsPage
<1>10. Spliced(p, q, i, Junk, 0)
  <2>1. s.size - 0 = s.size
    BY <1>4
  <2>2. SIZE_TABLE_PAGE_HEADER + SIZE_TUPLE * n <= p.free + s.size
    <3> DEFINE t == SIZE_TABLE_PAGE_HEADER + SIZE_TUPLE * n
    <3>1. t <= p.free /\ t \in Nat
      <4>1. SIZE_TUPLE * n \in Nat
        <5> HIDE DEF n
        <5>1. QED
          BY <1>2, Times
      <4>2. QED
        BY <1>1, <4>1 DEF SlotsFit
    <3> HIDE DEF t
    <3>2. QED
      BY <1>2, <1>4, <3>1 DEF t
  <2>3. \A j \in DOMAIN p.slots \ {i} :
          q.slots[j].size = p.slots[j].size /\ q.slots[j].deleted = p.slots[j].deleted
    BY <1>5, <1>7, Zenon
  <2>4. \A j \in Used(p) \ {i} :
          q.slots[j].offset = IF p.slots[j].offset < s.offset
                              THEN p.slots[j].offset + s.size ELSE p.slots[j].offset
    <3>1. \A j \in Used(p) : /\ j \in DOMAIN p.slots
                             /\ Moves(j) <=> p.slots[j].offset < s.offset
      BY DEF Used, Moves
    <3>2. QED
      BY <1>5, <1>7, <3>1, Zenon
  <2>5. q.slots[i].size = 0
    BY <1>6, <1>7
  <2>6. QED
    BY <1>3, <1>8, <2>1, <2>2, <2>3, <2>4, <2>5, Zenon DEF Spliced
<1>11. /\ Tiled(q) /\ SlotsFit(q) /\ Used(q) = Used(p) \ {i}
       /\ Keeps(p, q, Used(p) \ {i})
  <2> DEFINE none == 0
  <2>1. none \in Nat /\ none = 0 /\ Spliced(p, q, i, Junk, none)
    BY <1>10
  <2> HIDE DEF none
  <2>2. Tiled(q) /\ SlotsFit(q) /\ Keeps(p, q, Used(p) \ {i})
    <3>1. Tiled(q)
      BY <1>9, <2>1, SpliceStep, Zenon
    <3>2. SlotsFit(q)
      BY <1>9, <2>1, SpliceStep, Zenon
    <3>3. Keeps(p, q, Used(p) \ {i})
      BY <1>9, <2>1, SpliceStep, Zenon
    <3>4. QED
      BY <3>1, <3>2, <3>3
  <2>3. Used(q) = Used(p) \ {i}
    <3>1. \A j \in DOMAIN p.slots \ {i} : q.slots[j].size = p.slots[j].size
      BY <1>5, <1>7, Zenon
    <3>2. q.slots[i].size = 0
      BY <1>6, <1>7
    <3>3. QED
      BY <1>8, <3>1, <3>2 DEF Used
  <2>4. QED
    BY <2>2, <2>3
<1>12. RowsWhole(q)
  BY <1>1, <1>11, Zenon DEF RowsWhole, Keeps
<1>13. Freed(p, q, i)
  BY <1>3, <1>8, Zenon DEF Freed
<1>14. QED
  BY <1>3, <1>8, <1>9, <1>11, <1>12, <1>13 DEF PageOK

\* A page has room for row r in place of the row of slot i.
FitsInstead(p, i, r) == GetFreeSpaceRemaining(p) + p.slots[i].size >= r.size

\* UpdateTuple puts the new row where the old one was and keeps the others.
LEMMA UpdatePage ==
  ASSUME NEW p, PageOK(p), NEW i \in Used(p), NEW r \in Row,
         FitsInstead(p, i, r),
         NEW q, q = UpdateTuple(p, i, r)
  PROVE  /\ PageOK(q)
         /\ q.prev = p.prev /\ q.next = p.next
         /\ Used(q) = Used(p)
         /\ Keeps(p, q, Used(p) \ {i})
         /\ q.slots[i].deleted = p.slots[i].deleted /\ Holds(q, i, r)
<1> DEFINE n == Len(p.slots)
           s == p.slots[i]
           rsize == r.size
           shift == s.size - rsize
           size(j) == IF j = i THEN rsize ELSE p.slots[j].size
           Moves(j) == p.slots[j].size > 0 /\ p.slots[j].offset < s.offset + s.size
           moved(j) == [Moved(p.slots[j], shift) EXCEPT !.size = size(j)]
<1>1. IsPage(p) /\ Tiled(p) /\ SlotsFit(p) /\ RowsWhole(p)
  BY DEF PageOK
<1>2. /\ n \in Nat /\ DOMAIN p.slots = 1 .. n /\ i \in DOMAIN p.slots
      /\ \A j \in DOMAIN p.slots : p.slots[j] \in Slot
      /\ p.free \in Nat /\ p.free <= PAGE_SIZE
  BY <1>1, SlotsOfPage DEF Used
<1>3. /\ q.prev = p.prev /\ q.next = p.next /\ q.free = p.free + shift
      /\ q.bytes = Splice(p, i, r, rsize)
      /\ q.slots = [j \in DOMAIN p.slots |-> IF Moves(j) THEN moved(j) ELSE p.slots[j]]
      /\ q = [prev |-> q.prev, next |-> q.next, free |-> q.free, slots |-> q.slots,
              bytes |-> q.bytes]
  <2> DEFINE free == p.free + shift
             bytes == Splice(p, i, r, rsize)
             slots == [j \in DOMAIN p.slots |-> IF Moves(j) THEN moved(j) ELSE p.slots[j]]
  <2>1. q = [p EXCEPT !.free = free, !.bytes = bytes, !.slots = slots]
    BY DEF UpdateTuple
  <2> HIDE DEF free, bytes, slots
  <2>2. /\ q.prev = p.prev /\ q.next = p.next /\ q.free = free /\ q.bytes = bytes
        /\ q.slots = slots
        /\ q = [prev |-> q.prev, next |-> q.next, free |-> q.free, slots |-> q.slots,
                bytes |-> q.bytes]
    BY <1>1, <2>1 DEF IsPage
  <2>3. QED
    BY <2>2, Zenon DEF free, bytes, slots
<1>4. /\ s.offset \in Nat /\ s.size \in Nat /\ s.size > 0 /\ p.free <= s.offset
      /\ s.offset + s.size <= PAGE_SIZE
  BY <1>1, Around
<1>5. rsize \in Nat /\ rsize > 0
  BY RowSize
<1>6. GetFreeSpaceRemaining(p) + s.size >= rsize
  BY Zenon DEF FitsInstead
<1> HIDE DEF s, rsize
<1>7. shift \in Int /\ shift <= s.size /\ s.offset + shift + rsize = s.offset + s.size
  BY <1>4, <1>5
<1>8. SIZE_TABLE_PAGE_HEADER + SIZE_TUPLE * n <= p.free + shift /\ p.free + shift \in Nat
  <2> DEFINE t == SIZE_TUPLE * n
  <2>1. t \in Nat
    <3> HIDE DEF n
    <3>1. QED
      BY <1>2, Times
  <2>2. GetFreeSpaceRemaining(p) = p.free - SIZE_TABLE_PAGE_HEADER - t
    BY <1>1, Remaining
  <2> HIDE DEF t
  <2>3. SIZE_TABLE_PAGE_HEADER + t <= p.free + shift /\ p.free + shift \in Nat
    <3>1. p.free \in Nat
      BY <1>2
    <3>2. p.free - SIZE_TABLE_PAGE_HEADER - t + s.size >= rsize
      BY <1>6, <2>2
    <3>3. QED
      BY <1>4, <1>5, <2>1, <3>1, <3>2
  <2>4. QED
    BY <2>3 DEF t
<1> HIDE DEF shift
<1>9. \A j \in Used(p) \ {i} : /\ j \in DOMAIN p.slots
                               /\ Moves(j) <=> p.slots[j].offset < s.offset
  <2> SUFFICES ASSUME NEW j \in Used(p) \ {i}
               PROVE  j \in DOMAIN p.slots /\ (Moves(j) <=> p.slots[j].offset < s.offset)
    OBVIOUS
  <2>1. /\ p.slots[j].offset \in Nat /\ p.slots[j].size \in Nat /\ p.slots[j].size > 0
        /\ j \in DOMAIN p.slots
    BY <1>1, Around DEF Used
  <2>2. \/ p.slots[j].offset + p.slots[j].size <= s.offset
        \/ s.offset + s.size <= p.slots[j].offset
    BY <1>1, Around, Zenon DEF s
  <2>3. QED
    BY <1>4, <2>1, <2>2
<1>10. ASSUME NEW j \in DOMAIN p.slots, Moves(j)
      PROVE  /\ moved(j) \in Slot /\ moved(j).offset = p.slots[j].offset + shift
             /\ moved(j).size = size(j) /\ moved(j).deleted = p.slots[j].deleted
  <2>1. j \in Used(p) /\ p.slots[j].size \in Nat /\ p.slots[j].offset \in Nat
    <3>1. p.slots[j].size \in Nat /\ p.slots[j].offset \in 0 .. PAGE_SIZE
      BY <1>1, SlotsOfPage
    <3>2. QED
      BY <1>10, <3>1 DEF Used
  <2>2. p.free <= p.slots[j].offset
    BY <1>1, <2>1, Around
  <2>3. p.slots[j].offset + shift \in 0 .. PAGE_SIZE
    <3>1. p.slots[j].offset <= s.offset
      <4>1. CASE j = i
        BY <1>4, <4>1 DEF s
      <4>2. CASE j # i
        <5>1. p.slots[j].offset < s.offset
          BY <1>9, <1>10, <2>1, <4>2
        <5>2. QED
          BY <1>4, <2>1, <5>1
      <4>3. QED
        BY <4>1, <4>2
    <3>2. p.free \in Nat /\ p.free + shift \in Nat
      BY <1>2, <1>8
    <3>3. QED
      BY <1>4, <1>7, <2>1, <2>2, <3>1, <3>2
  <2>4. size(j) \in Nat
    BY <1>5, <2>1
  <2> HIDE DEF size
  <2>5. QED
    <3> DEFINE a == p.slots[j]
    <3>1. a \in Slot /\ shift \in Int /\ a.offset + shift \in 0 .. PAGE_SIZE
      BY <1>2, <1>7, <2>3
    <3> HIDE DEF a
    <3>2. LET new == [Moved(a, shift) EXCEPT !.size = size(j)]
          IN  /\ new \in Slot /\ new.offset = a.offset + shift
              /\ new.size = size(j) /\ new.deleted = a.deleted
      BY <2>4, <3>1, MovedSlot
    <3>3. QED
      BY <3>2, Zenon DEF a
<1>11. Moves(i) /\ i \in DOMAIN p.slots
  <2>1. s.size > 0 /\ s.offset < s.offset + s.size
    BY <1>4
  <2>2. QED
    BY <1>2, <2>1 DEF s
<1>12. ASSUME NEW j \in DOMAIN p.slots \ {i}, ~Moves(j) PROVE size(j) = p.slots[j].size
  OBVIOUS
<1> HIDE DEF moved, Moves
<1>13. /\ q.slots \in [1 .. n -> Slot]
       /\ \A j \in DOMAIN p.slots : q.slots[j] = IF Moves(j) THEN moved(j) ELSE p.slots[j]
  <2> HIDE DEF n
  <2>1. QED
    BY <1>2, <1>3, <1>10
<1>14. q.slots \in Seq(Slot) /\ Len(q.slots) = n /\ DOMAIN q.slots = DOMAIN p.slots
  <2> HIDE DEF n
  <2>1. QED
    BY <1>2, <1>13, SlotSequence
<1>15. IsPage(q)
  <2>1. q.free \in 0 .. PAGE_SIZE
    <3>1. q.free = p.free + shift
      BY <1>3
    <3>2. QED
      BY <1>2, <1>4, <1>7, <1>8, <3>1
  <2>2. QED
    BY <1>3, <1>14, <2>1, Zenon DEF IsPage
<1>16. /\ q.slots[i].size = rsize /\ q.slots[i].offset = s.offset + shift
       /\ q.slots[i].deleted = s.deleted
  <2>1. q.slots[i] = moved(i)
    BY <1>11, <1>13
  <2>2. size(i) = rsize
    OBVIOUS
  <2>3. QED
    BY <1>10, <1>11, <2>1, <2>2, Zenon DEF s
<1>17. \A j \in DOMAIN p.slots \ {i} :
         q.slots[j].size = p.slots[j].size /\ q.slots[j].deleted = p.slots[j].deleted
  <2>1. \A j \in DOMAIN p.slots \ {i} : size(j) = p.slots[j].size
    OBVIOUS
  <2> HIDE DEF size
  <2>2. QED
    BY <1>10, <1>13, <2>1, Zenon
<1>18. Spliced(p, q, i, r, rsize)
  <2>1. \A j \in Used(p) \ {i} :
          q.slots[j].offset = IF p.slots[j].offset < s.offset
                              THEN p.slots[j].offset + shift ELSE p.slots[j].offset
    BY <1>9, <1>10, <1>13, Zenon
  <2>2. q.free = p.free + shift /\ q.bytes = Splice(p, i, r, rsize)
    BY <1>3
  <2>3. QED
    BY <1>8, <1>14, <1>16, <1>17, <2>1, <2>2, Zenon DEF Spliced, s, shift
<1>19. Used(q) = Used(p)
  BY <1>2, <1>4, <1>5, <1>14, <1>16, <1>17, SMTT(30) DEF Used, s
<1>20. /\ Tiled(q) /\ SlotsFit(q) /\ Keeps(p, q, Used(p) \ {i})
  BY <1>5, <1>15, <1>18, SpliceStep, Zenon
<1>21. Written(q, i, r, rsize)
  BY <1>5, <1>15, <1>18, SpliceStep, Zenon
<1>22. Holds(q, i, r)
  BY <1>16, <1>21, Zenon DEF Holds, Reads, Written, rsize
<1>23. RowsWhole(q)
  BY <1>1, <1>19, <1>20, <1>22, Zenon DEF RowsWhole, Keeps
<1>24. QED
  BY <1>3, <1>15, <1>16, <1>19, <1>20, <1>22, <1>23, Zenon DEF PageOK, s

-----------------------------------------------------------------------------
\* The k-th page of the chain is page k.
LEMMA ChainOf ==
  ASSUME NEW h, Links(h)
  PROVE  /\ \A k \in 0 .. MaxPages :
              Chain(h)[k] = IF k < h.allocated THEN k ELSE INVALID_PAGE_ID
         /\ Linked(h) = 0 .. h.allocated - 1
<1> DEFINE Step(f) == [k \in 0 .. MaxPages |->
                         IF k = 0 THEN h.first_page_id_
                         ELSE IF f[k - 1] = INVALID_PAGE_ID THEN INVALID_PAGE_ID
                         ELSE h.pages[f[k - 1]].next]
           a == h.allocated
           ids == [k \in 0 .. MaxPages |-> IF k < a THEN k ELSE INVALID_PAGE_ID]
           nth == CHOOSE f : f = Step(f)
           Bad == {k \in 0 .. MaxPages : nth[k] # ids[k]}
<1>1. /\ h.first_page_id_ = 0 /\ a \in Nat /\ a >= 1 /\ a <= MaxPages
      /\ \A n \in 0 .. a - 1 : h.pages[n].next = IF n = a - 1 THEN INVALID_PAGE_ID ELSE n + 1
  <2>1. h.allocated \in 1 .. MaxPages
    BY Zenon DEF Links
  <2>2. a \in Nat /\ a >= 1 /\ a <= MaxPages
    BY <2>1
  <2>3. QED
    BY <2>2, Zenon DEF Links
<1> HIDE DEF a
<1>2. ASSUME NEW k \in 1 .. MaxPages, NEW f, f[k - 1] = ids[k - 1]
      PROVE  Step(f)[k] = ids[k]
  <2>1. k \in 0 .. MaxPages /\ k - 1 \in 0 .. MaxPages /\ k # 0
    OBVIOUS
  <2>2. /\ ids[k - 1] = IF k - 1 < a THEN k - 1 ELSE INVALID_PAGE_ID
        /\ ids[k] = IF k < a THEN k ELSE INVALID_PAGE_ID
    BY <2>1
  <2>3. Step(f)[k] = IF ids[k - 1] = INVALID_PAGE_ID THEN INVALID_PAGE_ID
                     ELSE h.pages[ids[k - 1]].next
    BY <1>2, <2>1
  <2> HIDE DEF ids, Step
  <2>4. CASE k - 1 < a
    <3>1. k - 1 \in 0 .. a - 1 /\ k - 1 # INVALID_PAGE_ID
      BY <1>1, <2>1, <2>4 DEF INVALID_PAGE_ID
    <3>2. h.pages[k - 1].next = IF k - 1 = a - 1 THEN INVALID_PAGE_ID ELSE k - 1 + 1
      BY <1>1, <3>1
    <3>3. QED
      BY <1>1, <2>1, <2>2, <2>3, <2>4, <3>1, <3>2
  <2>5. CASE ~(k - 1 < a)
    BY <1>1, <2>1, <2>2, <2>3, <2>5
  <2>6. QED
    BY <2>4, <2>5
<1>3. ids = Step(ids)
  <2>1. ASSUME NEW k \in 0 .. MaxPages PROVE Step(ids)[k] = ids[k]
    <3>1. CASE k = 0
      BY <1>1, <3>1
    <3>2. CASE k # 0
      <4>1. k \in 1 .. MaxPages
        BY <3>2
      <4> HIDE DEF ids, Step
      <4>2. QED
        BY <1>2, <4>1
    <3>3. QED
      BY <3>1, <3>2
  <2>2. Step(ids) = [k \in 0 .. MaxPages |-> Step(ids)[k]]
    OBVIOUS
  <2>3. ids = [k \in 0 .. MaxPages |-> ids[k]]
    OBVIOUS
  <2> HIDE DEF ids, Step
  <2>4. QED
    BY <2>1, <2>2, <2>3
<1>4. Chain(h) = nth
  BY DEF Chain
<1>5. nth = Step(nth)
  <2>1. \E f : f = Step(f)
    BY <1>3
  <2> HIDE DEF Step
  <2>2. QED
    BY <2>1
<1>6. Bad = {}
  <2>1. SUFFICES ASSUME Bad # {} PROVE FALSE
    OBVIOUS
  <2> DEFINE k == Least(Bad)
  <2>2. k \in Bad /\ \A j \in Bad : k <= j
    <3>1. Bad \subseteq Nat
      OBVIOUS
    <3> HIDE DEF Bad
    <3>2. QED
      BY <2>1, <3>1, LeastElement
  <2> HIDE DEF k
  <2>3. k \in 0 .. MaxPages /\ nth[k] # ids[k]
    BY <2>2
  <2>4. k # 0
    <3>1. nth[0] = 0
      <4>1. Step(nth)[0] = 0
        BY <1>1
      <4> HIDE DEF nth, Step
      <4>2. QED
        BY <1>5, <4>1
    <3>2. ids[0] = 0
      BY <1>1
    <3>3. QED
      BY <2>3, <3>1, <3>2
  <2>5. k - 1 \in 0 .. MaxPages /\ k \in 1 .. MaxPages
    BY <2>3, <2>4
  <2>6. k - 1 \notin Bad
    <3> HIDE DEF Bad
    <3>1. QED
      BY <2>2, <2>5
  <2>7. nth[k - 1] = ids[k - 1]
    BY <2>5, <2>6
  <2> HIDE DEF nth, ids, Step
  <2>8. Step(nth)[k] = ids[k]
    BY <1>2, <2>5, <2>7
  <2>9. QED
    BY <1>5, <2>3, <2>8
<1>7. \A k \in 0 .. MaxPages : nth[k] = ids[k]
  BY <1>6
<1>8. \A k \in 0 .. MaxPages : nth[k] = IF k < a THEN k ELSE INVALID_PAGE_ID
  <2> HIDE DEF nth
  <2>1. QED
    BY <1>7
<1>9. {k \in 0 .. MaxPages : nth[k] # INVALID_PAGE_ID} = 0 .. a - 1
  <2> HIDE DEF nth, ids, Bad
  <2>1. QED
    BY <1>1, <1>8 DEF INVALID_PAGE_ID
<1> HIDE DEF nth
<1>10. QED
  BY <1>4, <1>8, <1>9 DEF Linked, a

\* The last page of the chain.
LEMMA LastLinked ==
  ASSUME NEW n \in Nat, n >= 1
  PROVE  Greatest(0 .. n - 1) = n - 1
<1>1. n - 1 \in 0 .. n - 1 /\ \A j \in 0 .. n - 1 : n - 1 >= j
  OBVIOUS
<1>2. \A k \in 0 .. n - 1 : (\A j \in 0 .. n - 1 : k >= j) => k = n - 1
  BY <1>1
<1>3. QED
  BY <1>1, <1>2 DEF Greatest

\* The slot numbers of a page are slot numbers.
LEMMA SlotNumbers ==
  ASSUME NEW p, PageOK(p)
  PROVE  DOMAIN p.slots \subseteq SlotNum
<1> DEFINE n == Len(p.slots)
           t == SIZE_TUPLE + 1
           room == PAGE_SIZE - SIZE_TABLE_PAGE_HEADER
           c == room \div t
<1>1. n \in Nat /\ DOMAIN p.slots = 1 .. n
  BY SlotsOfPage DEF PageOK
<1>2. n * t <= room
  BY DEF PageOK, SlotsFit
<1>3. t \in Nat \ {0} /\ room \in Nat
  OBVIOUS
<1> HIDE DEF n, t, room
<1>4. room = t * c + (room % t) /\ room % t \in 0 .. t - 1 /\ c \in Nat
  BY <1>3, Division
<1> HIDE DEF c
<1>5. n <= c
  <2>1. SUFFICES ASSUME n >= c + 1 PROVE FALSE
    BY <1>1, <1>4
  <2>2. n * t >= (c + 1) * t
    BY <1>1, <1>3, <1>4, <2>1
  <2>3. (c + 1) * t = t * c + t
    BY <1>3, <1>4
  <2>4. QED
    BY <1>1, <1>2, <1>3, <1>4, <2>2, <2>3
<1>6. QED
  BY <1>1, <1>4, <1>5 DEF SlotNum, c, room, t

-----------------------------------------------------------------------------
\* The row a slot holds, as Stored reads it.
Read(p, i) ==
  LET slot == p.slots[i]
      head == IF slot.offset \in Byte THEN p.bytes[slot.offset] ELSE Junk
  IN  IF head # Junk /\ head[1].size = slot.size /\ Reads(p, i, head[1])
      THEN head[1]
      ELSE [size |-> 0, tag |-> 0]

RowAt(h, id) == Read(h.pages[id[1]], id[2])

\* The rows of a set of ids are the same in heap g as in heap h.
SameIn(h, g, S) ==
  \A id \in S : RowAt(g, id) = RowAt(h, id) /\ (id \in Visible(g) <=> id \in Visible(h))

\* A slot reads as the row it holds.
LEMMA HeldRow ==
  ASSUME NEW p, IsPage(p), NEW i \in Used(p), NEW r \in Row, Holds(p, i, r)
  PROVE  Read(p, i) = r
<1> DEFINE slot == p.slots[i]
           head == IF slot.offset \in Byte THEN p.bytes[slot.offset] ELSE Junk
<1>1. slot.offset \in Nat
  <2>1. i \in DOMAIN p.slots
    BY DEF Used
  <2>2. slot.offset \in 0 .. PAGE_SIZE
    BY <2>1, SlotsOfPage
  <2>3. QED
    BY <2>2
<1>2. 0 \in 0 .. r.size - 1
  BY RowSize
<1>3. slot.offset + 0 \in Byte /\ p.bytes[slot.offset + 0] = <<r, 0>>
  BY <1>2, Zenon DEF Holds, Reads
<1>4. slot.offset + 0 = slot.offset
  BY <1>1
<1>5. head = <<r, 0>>
  BY <1>3, <1>4, Zenon
<1>6. <<r, 0>> # Junk /\ <<r, 0>>[1] = r
  <2>1. Len(<<r, 0>>) = 2 /\ Len(Junk) = 0 /\ <<r, 0>>[1] = r
    BY DEF Junk
  <2>2. QED
    BY <2>1
<1>7. r.size = slot.size /\ Reads(p, i, r)
  BY DEF Holds
<1>8. head # Junk /\ head[1] = r
  BY <1>5, <1>6, Zenon
<1> HIDE DEF head
<1>9. (IF head # Junk /\ head[1].size = slot.size /\ Reads(p, i, head[1])
       THEN head[1] ELSE [size |-> 0, tag |-> 0]) = r
  BY <1>7, <1>8, Zenon
<1>10. QED
  BY <1>9, Zenon DEF Read, head

\* The rows of the slots that are kept read the same.
LEMMA KeptRows ==
  ASSUME NEW p, PageOK(p), NEW q, PageOK(q), NEW S, S \subseteq Used(p), S \subseteq Used(q),
         Keeps(p, q, S), NEW j \in S
  PROVE  Read(q, j) = Read(p, j) /\ Read(p, j) \in Row
<1>1. PICK r \in Row : Holds(p, j, r)
  BY Zenon DEF PageOK, RowsWhole
<1>2. Holds(q, j, r)
  BY <1>1, Zenon DEF Keeps
<1>3. Read(p, j) = r /\ Read(q, j) = r
  BY <1>1, <1>2, HeldRow DEF PageOK
<1>4. QED
  BY <1>1, <1>3

\* The ids in use and the visible ones, by page and slot.
LEMMA OccupiedOf ==
  ASSUME NEW h
  PROVE  /\ Occupied(h) = {id \in Rid : id[2] \in Used(h.pages[id[1]])}
         /\ Visible(h) = {id \in Occupied(h) : ~h.pages[id[1]].slots[id[2]].deleted}
         /\ \A id \in Rid : id[1] \in PageId /\ id[2] \in SlotNum /\ id = <<id[1], id[2]>>
<1>1. \A id \in Rid : id[1] \in PageId /\ id[2] \in SlotNum /\ id = <<id[1], id[2]>>
  BY DEF Rid
<1>2. \A id \in Rid : (Exists(h, id) /\ SlotOf(h, id).size # 0) <=> id[2] \in Used(h.pages[id[1]])
  BY <1>1 DEF Exists, SlotOf, Used
<1>3. QED
  BY <1>1, <1>2, Zenon DEF Occupied, Visible, SlotOf

\* The same ids are in use in the pages other than page n.
SameElsewhere(h, g, n) ==
  \A id \in Rid : id[1] # n => (id \in Occupied(g) <=> id \in Occupied(h))

\* The ids of the rows outside page n and of those in the slots S of it.
IdsKept(h, n, S) == {id \in Occupied(h) : id[1] # n \/ id[2] \in S}

\* A page of a heap is replaced: what lies in the others is the same.
LEMMA PageChange ==
  ASSUME NEW h, HeapOK(h), NEW g, HeapOK(g), NEW n \in PageId,
         \A m \in PageId \ {n} : /\ g.pages[m].slots = h.pages[m].slots
                                 /\ g.pages[m].bytes = h.pages[m].bytes,
         NEW S, S \subseteq Used(h.pages[n]), S \subseteq Used(g.pages[n]),
         Keeps(h.pages[n], g.pages[n], S)
  PROVE  /\ SameElsewhere(h, g, n)
         /\ SameIn(h, g, IdsKept(h, n, S))
<1>1. ASSUME NEW id \in Rid, id[1] # n
      PROVE  /\ id \in Occupied(g) <=> id \in Occupied(h)
             /\ id \in Visible(g) <=> id \in Visible(h)
             /\ RowAt(g, id) = RowAt(h, id)
  <2>1. id[1] \in PageId \ {n}
    BY <1>1, OccupiedOf, Zenon
  <2>2. g.pages[id[1]].slots = h.pages[id[1]].slots /\ g.pages[id[1]].bytes = h.pages[id[1]].bytes
    BY <2>1, Zenon
  <2>3. Used(g.pages[id[1]]) = Used(h.pages[id[1]])
    BY <2>2, Zenon DEF Used
  <2>4. id \in Occupied(g) <=> id \in Occupied(h)
    <3>1. id \in Occupied(g) <=> id[2] \in Used(g.pages[id[1]])
      BY OccupiedOf
    <3>2. id \in Occupied(h) <=> id[2] \in Used(h.pages[id[1]])
      BY OccupiedOf
    <3>3. QED
      BY <2>3, <3>1, <3>2, Zenon
  <2>5. id \in Visible(g) <=> id \in Visible(h)
    BY <2>2, <2>4, OccupiedOf, Zenon
  <2>6. RowAt(g, id) = RowAt(h, id)
    BY <2>2, Zenon DEF RowAt, Read, Reads
  <2>7. QED
    BY <2>4, <2>5, <2>6, Zenon
<1>2. ASSUME NEW id \in Occupied(h), id[1] = n, id[2] \in S
      PROVE  /\ id \in Visible(g) <=> id \in Visible(h)
             /\ RowAt(g, id) = RowAt(h, id)
  <2>1. PageOK(h.pages[n]) /\ PageOK(g.pages[n])
    BY DEF HeapOK
  <2>2. RowAt(g, id) = RowAt(h, id)
    <3> DEFINE p == h.pages[n]
               q == g.pages[n]
               j == id[2]
    <3>1. /\ PageOK(p) /\ PageOK(q) /\ S \subseteq Used(p) /\ S \subseteq Used(q)
          /\ Keeps(p, q, S) /\ j \in S
      BY <1>2, <2>1
    <3> HIDE DEF p, q, j
    <3>2. Read(q, j) = Read(p, j)
      BY <3>1, KeptRows
    <3>3. QED
      BY <1>2, <3>2, Zenon DEF RowAt, p, q, j
  <2>3. id \in Rid /\ id \in Occupied(g)
    BY <1>2, OccupiedOf, Zenon
  <2>4. g.pages[n].slots[id[2]].deleted = h.pages[n].slots[id[2]].deleted
    BY <1>2, Zenon DEF Keeps
  <2>5. id \in Visible(g) <=> id \in Visible(h)
    BY <1>2, <2>3, <2>4, OccupiedOf, ZenonT(60)
  <2>6. QED
    BY <2>2, <2>5, Zenon
<1>3. Occupied(h) \subseteq Rid
  BY OccupiedOf
<1>4. QED
  BY <1>1, <1>2, <1>3, Zenon DEF SameIn, SameElsewhere, IdsKept

WithPage(h, n, q) == [h EXCEPT !.pages[n] = q]

\* A page of the chain is replaced by one with the same links.
LEMMA ChangeOne ==
  ASSUME NEW h, HeapOK(h), NEW n \in 0 .. h.allocated - 1,
         NEW q, PageOK(q), q.prev = h.pages[n].prev, q.next = h.pages[n].next,
         NEW g, g = WithPage(h, n, q)
  PROVE  /\ HeapOK(g) /\ g.allocated = h.allocated
         /\ n \in PageId /\ g.pages[n] = q /\ \A m \in PageId \ {n} : g.pages[m] = h.pages[m]
<1>1. Links(h)
  BY DEF HeapOK
<1>2. h.allocated \in 1 .. MaxPages
  BY <1>1, Zenon DEF Links
<1>3. n \in PageId
  BY <1>2 DEF PageId
<1>4. /\ g.first_page_id_ = h.first_page_id_ /\ g.allocated = h.allocated
      /\ g.pages = [h.pages EXCEPT ![n] = q]
      /\ g = [first_page_id_ |-> g.first_page_id_, allocated |-> g.allocated,
              pages |-> g.pages]
  <2>1. h = [first_page_id_ |-> h.first_page_id_, allocated |-> h.allocated,
             pages |-> h.pages]
    BY <1>1, Zenon DEF Links
  <2>2. g = [h EXCEPT !.pages = [h.pages EXCEPT ![n] = q]]
    BY DEF WithPage
  <2>3. QED
    BY <2>1, <2>2
<1> DEFINE f == h.pages
           e == g.pages
<1>5. f = [m \in PageId |-> f[m]] /\ DOMAIN f = PageId /\ e = [f EXCEPT ![n] = q]
  BY <1>1, <1>4, Zenon DEF Links
<1> HIDE DEF f, e
<1>6. /\ DOMAIN e = PageId /\ e = [m \in PageId |-> e[m]]
      /\ e[n] = q /\ \A m \in PageId \ {n} : e[m] = f[m]
  BY <1>3, <1>5
<1>7. Links(g)
  <2>1. \A m \in PageId : e[m].prev = f[m].prev /\ e[m].next = f[m].next
    BY <1>6, Zenon DEF f
  <2>2. \A m \in 0 .. g.allocated - 1 : m \in PageId
    BY <1>2, <1>4 DEF PageId
  <2>3. ASSUME NEW m \in 0 .. g.allocated - 1
        PROVE  /\ e[m].next = IF m = g.allocated - 1 THEN INVALID_PAGE_ID ELSE m + 1
               /\ e[m].prev = m - 1
    <3>1. m \in 0 .. h.allocated - 1
      BY <1>4
    <3>2. /\ f[m].next = IF m = h.allocated - 1 THEN INVALID_PAGE_ID ELSE m + 1
          /\ f[m].prev = m - 1
      BY <1>1, <3>1, Zenon DEF Links, f
    <3>3. QED
      BY <1>4, <2>1, <2>2, <3>2, Zenon
  <2>4. ASSUME NEW m \in PageId, m >= g.allocated PROVE e[m].slots = <<>>
    <3>1. m # n
      BY <1>2, <1>4, <2>4 DEF PageId
    <3>2. f[m].slots = <<>>
      BY <1>1, <1>4, <2>4, Zenon DEF Links, f
    <3>3. QED
      BY <1>6, <3>1, <3>2
  <2>5. g.first_page_id_ = 0 /\ g.allocated \in 1 .. MaxPages
    BY <1>1, <1>2, <1>4, Zenon DEF Links
  <2>6. QED
    BY <1>4, <1>6, <2>3, <2>4, <2>5, Zenon DEF Links, e
<1>8. \A m \in PageId : PageOK(e[m])
  BY <1>6, Zenon DEF HeapOK, f
<1>9. QED
  BY <1>3, <1>4, <1>6, <1>7, <1>8, Zenon DEF HeapOK, e, f

\* A row in use is in a page of the chain.
LEMMA OccupiedPage ==
  ASSUME NEW h, HeapOK(h), NEW id \in Occupied(h)
  PROVE  /\ id \in Rid /\ id[1] \in 0 .. h.allocated - 1 /\ id[1] \in PageId
         /\ id[2] \in Used(h.pages[id[1]]) /\ PageOK(h.pages[id[1]])
<1>1. id \in Rid /\ id[2] \in Used(h.pages[id[1]]) /\ id[1] \in PageId
  BY OccupiedOf, Zenon
<1>2. h.pages[id[1]].slots # <<>>
  BY <1>1 DEF Used
<1>3. ~(id[1] >= h.allocated)
  BY <1>1, <1>2, Zenon DEF HeapOK, Links
<1>4. h.allocated \in 1 .. MaxPages
  BY Zenon DEF HeapOK, Links
<1>5. id[1] \in 0 .. h.allocated - 1
  BY <1>1, <1>3, <1>4 DEF PageId
<1>6. QED
  BY <1>1, <1>5, Zenon DEF HeapOK

\* What follows for the rows.
LEMMA PageEffect ==
  ASSUME NEW h, HeapOK(h), NEW n \in 0 .. h.allocated - 1,
         NEW q, PageOK(q), q.prev = h.pages[n].prev, q.next = h.pages[n].next,
         NEW g, g = WithPage(h, n, q),
         NEW S, S \subseteq Used(h.pages[n]), S \subseteq Used(q), Keeps(h.pages[n], q, S)
  PROVE  /\ HeapOK(g) /\ g.allocated = h.allocated /\ n \in PageId /\ g.pages[n] = q
         /\ \A id \in Rid : id[1] = n => (id \in Occupied(g) <=> id[2] \in Used(q))
         /\ SameElsewhere(h, g, n)
         /\ SameIn(h, g, IdsKept(h, n, S))
<1>1. /\ HeapOK(g) /\ g.allocated = h.allocated /\ n \in PageId /\ g.pages[n] = q
      /\ \A m \in PageId \ {n} : g.pages[m] = h.pages[m]
  BY ChangeOne
<1>2. \A id \in Rid : id[1] = n => (id \in Occupied(g) <=> id[2] \in Used(q))
  <2>1. \A id \in Rid : id \in Occupied(g) <=> id[2] \in Used(g.pages[id[1]])
    BY OccupiedOf
  <2>2. QED
    BY <1>1, <2>1, Zenon
<1>3. /\ \A m \in PageId \ {n} : /\ g.pages[m].slots = h.pages[m].slots
                                 /\ g.pages[m].bytes = h.pages[m].bytes
      /\ S \subseteq Used(g.pages[n]) /\ Keeps(h.pages[n], g.pages[n], S)
  BY <1>1, Zenon
<1>4. SameElsewhere(h, g, n)
  BY <1>1, <1>3, PageChange, Zenon
<1>5. SameIn(h, g, IdsKept(h, n, S))
  BY <1>1, <1>3, PageChange, Zenon
<1>6. QED
  BY <1>1, <1>2, <1>4, <1>5, Zenon

-----------------------------------------------------------------------------
\* The mark of a row is set or taken back.
LEMMA MarkHeap ==
  ASSUME NEW h, HeapOK(h), NEW id \in Occupied(h), NEW d \in BOOLEAN,
         NEW g, g = WithPage(h, id[1], Marked(h.pages[id[1]], id[2], d))
  PROVE  /\ HeapOK(g) /\ g.allocated = h.allocated
         /\ Occupied(g) = Occupied(h) /\ SameIn(h, g, Occupied(h) \ {id})
         /\ RowAt(g, id) = RowAt(h, id) /\ (id \in Visible(g) <=> ~d)
<1> DEFINE n == id[1]
           i == id[2]
           p == h.pages[n]
           q == Marked(p, i, d)
           S == Used(p) \ {i}
<1>1. /\ id \in Rid /\ n \in 0 .. h.allocated - 1 /\ n \in PageId /\ i \in Used(p) /\ PageOK(p)
      /\ id = <<n, i>>
  BY OccupiedPage, OccupiedOf, Zenon
<1> HIDE DEF n, i, p, q
<1>2. /\ PageOK(q) /\ q.prev = p.prev /\ q.next = p.next /\ Used(q) = Used(p) /\ Keeps(p, q, S)
      /\ q.slots[i].deleted <=> d
      /\ \A s \in Row : Holds(p, i, s) => Holds(q, i, s)
  <2>1. q = Marked(p, i, d)
    BY DEF q
  <2>2. PageOK(q) /\ q.prev = p.prev /\ q.next = p.next /\ Used(q) = Used(p) /\ Keeps(p, q, S)
    BY <1>1, <2>1, MarkPage, ZenonT(60)
  <2>3. q.slots[i].deleted <=> d
    <3>1. CASE d = TRUE
      BY <1>1, <2>1, <3>1, MarkSet
    <3>2. CASE d = FALSE
      BY <1>1, <2>1, <3>2, MarkSet
    <3>3. QED
      BY <3>1, <3>2
  <2>4. \A s \in Row : Holds(p, i, s) => Holds(q, i, s)
    BY <1>1, <2>1, MarkPage, Zenon
  <2>5. QED
    BY <2>2, <2>3, <2>4, Zenon
<1>3. /\ HeapOK(g) /\ g.allocated = h.allocated /\ g.pages[n] = q
      /\ \A x \in Rid : x[1] = n => (x \in Occupied(g) <=> x[2] \in Used(q))
      /\ SameElsewhere(h, g, n) /\ SameIn(h, g, IdsKept(h, n, S))
  <2>1. g = WithPage(h, n, q)
    BY DEF n, i, p, q
  <2>2. S \subseteq Used(p) /\ S \subseteq Used(q)
    BY <1>2
  <2> HIDE DEF S
  <2>3. QED
    BY <1>1, <1>2, <2>1, <2>2, PageEffect, SMTT(30) DEF p
<1>4. Occupied(g) = Occupied(h)
  <2>1. \A x \in Rid : x[1] = n => (x \in Occupied(h) <=> x[2] \in Used(p))
    BY OccupiedOf DEF p
  <2>2. \A x \in Rid : x \in Occupied(g) <=> x \in Occupied(h)
    BY <1>2, <1>3, <2>1 DEF SameElsewhere
  <2>3. Occupied(g) \subseteq Rid /\ Occupied(h) \subseteq Rid
    BY OccupiedOf
  <2>4. QED
    BY <2>2, <2>3
<1>5. Occupied(h) \ {id} \subseteq IdsKept(h, n, S)
  <2>1. \A x \in Occupied(h) : x = <<x[1], x[2]>> /\ (x[1] = n => x[2] \in Used(p))
    BY OccupiedOf DEF p
  <2>2. QED
    BY <1>1, <2>1, Zenon DEF IdsKept
<1>6. RowAt(g, id) = RowAt(h, id)
  <2>1. PICK s \in Row : Holds(p, i, s)
    BY <1>1, Zenon DEF PageOK, RowsWhole
  <2>2. Read(p, i) = s
    BY <1>1, <2>1, HeldRow DEF PageOK
  <2>3. Read(q, i) = s
    BY <1>1, <1>2, <2>1, HeldRow DEF PageOK
  <2>4. QED
    BY <1>3, <2>2, <2>3, Zenon DEF RowAt, p, n, i
<1>7. id \in Visible(g) <=> ~d
  <2>1. id \in Visible(g) <=> ~g.pages[n].slots[i].deleted
    BY <1>4, OccupiedOf, Zenon DEF n, i
  <2>2. QED
    BY <1>2, <1>3, <2>1, Zenon
<1>8. QED
  BY <1>3, <1>4, <1>5, <1>6, <1>7, Zenon DEF SameIn

\* A row is deleted for good.
LEMMA DeleteHeap ==
  ASSUME NEW h, HeapOK(h), NEW id \in Occupied(h), NEW g, g = AfterDelete(h, id)
  PROVE  /\ HeapOK(g) /\ g.allocated = h.allocated
         /\ Occupied(g) = Occupied(h) \ {id} /\ SameIn(h, g, Occupied(h) \ {id})
         /\ g.pages[id[1]] = ApplyDelete(h.pages[id[1]], id[2])
<1> DEFINE n == id[1]
           i == id[2]
           p == h.pages[n]
           q == ApplyDelete(p, i)
           S == Used(p) \ {i}
<1>1. /\ id \in Rid /\ n \in 0 .. h.allocated - 1 /\ n \in PageId /\ i \in Used(p) /\ PageOK(p)
      /\ id = <<n, i>>
  BY OccupiedPage, OccupiedOf, Zenon
<1>2. g = WithPage(h, n, q)
  BY DEF AfterDelete, WithPage
<1> HIDE DEF n, i, p, q
<1>3. PageOK(q) /\ q.prev = p.prev /\ q.next = p.next /\ Used(q) = S /\ Keeps(p, q, S)
  BY <1>1, DeletePage DEF q
<1>4. /\ HeapOK(g) /\ g.allocated = h.allocated /\ g.pages[n] = q
      /\ \A x \in Rid : x[1] = n => (x \in Occupied(g) <=> x[2] \in Used(q))
      /\ SameElsewhere(h, g, n) /\ SameIn(h, g, IdsKept(h, n, S))
  <2>1. S \subseteq Used(p) /\ S \subseteq Used(q)
    BY <1>3
  <2>2. p = h.pages[n]
    BY DEF p
  <2> HIDE DEF S
  <2>3. HeapOK(g) /\ g.allocated = h.allocated /\ g.pages[n] = q
    BY <1>1, <1>2, <1>3, <2>2, ChangeOne
  <2>4. \A x \in Rid : x[1] = n => (x \in Occupied(g) <=> x[2] \in Used(q))
    BY <2>3, OccupiedOf
  <2>5. SameElsewhere(h, g, n) /\ SameIn(h, g, IdsKept(h, n, S))
    BY <1>1, <1>2, <1>3, <2>1, <2>2, PageEffect, Zenon
  <2>6. QED
    BY <2>3, <2>4, <2>5, Zenon
<1>5. \A x \in Rid : x = <<x[1], x[2]>> /\ (x[1] = n => (x \in Occupied(h) <=> x[2] \in Used(p)))
  BY OccupiedOf DEF p
<1>6. Occupied(g) = Occupied(h) \ {id}
  <2>1. \A x \in Rid : x \in Occupied(g) <=> x \in Occupied(h) /\ x # id
    <3> SUFFICES ASSUME NEW x \in Rid PROVE x \in Occupied(g) <=> x \in Occupied(h) /\ x # id
      OBVIOUS
    <3>1. CASE x[1] # n
      BY <1>4, <3>1, Zenon DEF SameElsewhere, n
    <3>2. CASE x[1] = n
      <4>1. x # id <=> x[2] # i
        BY <1>1, <1>5, <3>2, Zenon DEF i
      <4>2. QED
        BY <1>3, <1>4, <1>5, <3>2, <4>1
    <3>3. QED
      BY <3>1, <3>2
  <2>2. Occupied(g) \subseteq Rid /\ Occupied(h) \subseteq Rid
    BY OccupiedOf
  <2>3. QED
    BY <2>1, <2>2
<1>7. Occupied(h) \ {id} \subseteq IdsKept(h, n, S)
  <2>1. Occupied(h) \subseteq Rid
    BY OccupiedOf
  <2>2. QED
    BY <1>1, <1>5, <2>1, Zenon DEF IdsKept
<1>8. QED
  BY <1>4, <1>6, <1>7, Zenon DEF SameIn, n, i, p, q

\* Heap g is heap h with another row under an id.
Rewritten(h, g, id, r) ==
  /\ HeapOK(g) /\ g.allocated = h.allocated
  /\ Occupied(g) = Occupied(h) /\ SameIn(h, g, Occupied(h) \ {id})
  /\ RowAt(g, id) = r /\ (id \in Visible(g) <=> id \in Visible(h))

\* UpdateTuple leaves the links of a page alone.
LEMMA UpdateLinks ==
  ASSUME NEW p, PageOK(p), NEW i, NEW r, NEW q, q = UpdateTuple(p, i, r)
  PROVE  q.prev = p.prev /\ q.next = p.next
BY DEF UpdateTuple, PageOK, IsPage

\* A row is updated in place.
LEMMA UpdateHeap ==
  ASSUME NEW h, HeapOK(h), NEW id \in Occupied(h), NEW r \in Row,
         FitsInstead(h.pages[id[1]], id[2], r),
         NEW g, g = WithPage(h, id[1], UpdateTuple(h.pages[id[1]], id[2], r))
  PROVE  Rewritten(h, g, id, r)
<1> DEFINE n == id[1]
           i == id[2]
           p == h.pages[n]
           q == UpdateTuple(p, i, r)
           S == Used(p) \ {i}
<1>1. /\ id \in Rid /\ n \in 0 .. h.allocated - 1 /\ n \in PageId /\ i \in Used(p) /\ PageOK(p)
      /\ id = <<n, i>>
  BY OccupiedPage, OccupiedOf, Zenon
<1>2. FitsInstead(p, i, r)
  OBVIOUS
<1>3. g = WithPage(h, n, q)
  OBVIOUS
<1> HIDE DEF n, i, p, q
<1>4. /\ PageOK(q) /\ q.prev = p.prev /\ q.next = p.next /\ Used(q) = Used(p) /\ Keeps(p, q, S)
      /\ q.slots[i].deleted = p.slots[i].deleted /\ Holds(q, i, r)
  <2>1. q = UpdateTuple(p, i, r)
    BY DEF q
  <2>2. PageOK(q) /\ Used(q) = Used(p) /\ Keeps(p, q, S) /\ Holds(q, i, r)
    BY <1>1, <1>2, <2>1, UpdatePage, ZenonT(60)
  <2>3. q.prev = p.prev /\ q.next = p.next
    BY <1>1, <2>1, UpdateLinks
  <2>4. q.slots[i].deleted = p.slots[i].deleted
    BY <1>1, <1>2, <2>1, UpdatePage, ZenonT(60)
  <2>5. QED
    BY <2>2, <2>3, <2>4
<1>5. /\ HeapOK(g) /\ g.allocated = h.allocated /\ g.pages[n] = q
      /\ \A x \in Rid : x[1] = n => (x \in Occupied(g) <=> x[2] \in Used(q))
      /\ SameElsewhere(h, g, n) /\ SameIn(h, g, IdsKept(h, n, S))
  <2>1. S \subseteq Used(p) /\ S \subseteq Used(q)
    BY <1>4
  <2> HIDE DEF S
  <2>2. p = h.pages[n]
    BY DEF p
  <2>3. HeapOK(g) /\ g.allocated = h.allocated /\ g.pages[n] = q
    BY <1>1, <1>3, <1>4, <2>2, ChangeOne
  <2>4. \A x \in Rid : x[1] = n => (x \in Occupied(g) <=> x[2] \in Used(q))
    BY <2>3, OccupiedOf
  <2>5. SameElsewhere(h, g, n) /\ SameIn(h, g, IdsKept(h, n, S))
    BY <1>1, <1>3, <1>4, <2>1, <2>2, PageEffect, Zenon
  <2>6. QED
    BY <2>3, <2>4, <2>5, Zenon
<1>6. Occupied(g) = Occupied(h)
  <2>1. \A x \in Rid : x[1] = n => (x \in Occupied(h) <=> x[2] \in Used(p))
    BY OccupiedOf DEF p
  <2>2. \A x \in Rid : x \in Occupied(g) <=> x \in Occupied(h)
    BY <1>4, <1>5, <2>1 DEF SameElsewhere
  <2>3. Occupied(g) \subseteq Rid /\ Occupied(h) \subseteq Rid
    BY OccupiedOf
  <2>4. QED
    BY <2>2, <2>3
<1>7. Occupied(h) \ {id} \subseteq IdsKept(h, n, S)
  <2>1. \A x \in Occupied(h) : x = <<x[1], x[2]>> /\ (x[1] = n => x[2] \in Used(p))
    BY OccupiedOf DEF p
  <2>2. QED
    BY <1>1, <2>1, Zenon DEF IdsKept
<1>8. RowAt(g, id) = r
  <2>1. Read(q, i) = r
    BY <1>1, <1>4, HeldRow DEF PageOK
  <2>2. QED
    BY <1>5, <2>1, Zenon DEF RowAt, n, i
<1>9. id \in Visible(g) <=> id \in Visible(h)
  <2>1. id \in Visible(g) <=> ~g.pages[n].slots[i].deleted
    BY <1>6, OccupiedOf, Zenon DEF n, i
  <2>2. id \in Visible(h) <=> ~p.slots[i].deleted
    BY OccupiedOf, Zenon DEF n, i, p
  <2>3. QED
    BY <1>4, <1>5, <2>1, <2>2, Zenon
<1>10. SameIn(h, g, Occupied(h) \ {id})
  BY <1>5, <1>7, Zenon DEF SameIn
<1>11. QED
  BY <1>5, <1>6, <1>8, <1>9, <1>10, Zenon DEF Rewritten

-----------------------------------------------------------------------------
\* Heap g is heap h with one row more.
Added(h, g, id, r) ==
  /\ id \in Rid \ Occupied(h)
  /\ Occupied(g) = Occupied(h) \union {id}
  /\ SameIn(h, g, Occupied(h))
  /\ RowAt(g, id) = r
  /\ id \in Visible(g)

\* Heap g has the rows of heap h.
SameRows(h, g) == Occupied(g) = Occupied(h) /\ SameIn(h, g, Occupied(h))

\* A row is put into a page of the chain.
LEMMA InsertInto ==
  ASSUME NEW h, HeapOK(h), NEW n \in 0 .. h.allocated - 1, NEW r \in Row,
         HasRoom(h.pages[n], r), NEW g, g = WithPage(h, n, InsertTuple(h.pages[n], r))
  PROVE  /\ HeapOK(g) /\ g.allocated = h.allocated
         /\ Added(h, g, <<n, InsertSlot(h.pages[n])>>, r)
<1> DEFINE p == h.pages[n]
           i == InsertSlot(p)
           q == InsertTuple(p, r)
           id == <<n, i>>
           S == Used(p)
<1>0. n \in PageId
  <2>1. h.allocated \in 1 .. MaxPages
    BY Zenon DEF HeapOK, Links
  <2>2. QED
    BY <2>1 DEF PageId
<1>1. PageOK(p) /\ HasRoom(p, r) /\ g = WithPage(h, n, q)
  BY <1>0, Zenon DEF HeapOK
<1> HIDE DEF p, i, q
<1>2. /\ PageOK(q) /\ q.prev = p.prev /\ q.next = p.next
      /\ i \notin Used(p) /\ Used(q) = Used(p) \union {i} /\ Keeps(p, q, Used(p))
      /\ ~q.slots[i].deleted /\ Holds(q, i, r)
  BY <1>1, InsertPage DEF q, i
<1>3. /\ HeapOK(g) /\ g.allocated = h.allocated /\ g.pages[n] = q
      /\ \A x \in Rid : x[1] = n => (x \in Occupied(g) <=> x[2] \in Used(q))
      /\ SameElsewhere(h, g, n) /\ SameIn(h, g, IdsKept(h, n, S))
  <2>1. S \subseteq Used(p) /\ S \subseteq Used(q) /\ Keeps(p, q, S) /\ p = h.pages[n]
    BY <1>2 DEF p
  <2> HIDE DEF S
  <2>2. HeapOK(g) /\ g.allocated = h.allocated /\ g.pages[n] = q
    BY <1>1, <1>2, <2>1, ChangeOne
  <2>3. \A x \in Rid : x[1] = n => (x \in Occupied(g) <=> x[2] \in Used(q))
    BY <2>2, OccupiedOf
  <2>4. SameElsewhere(h, g, n) /\ SameIn(h, g, IdsKept(h, n, S))
    BY <1>1, <1>2, <2>1, PageEffect, Zenon
  <2>5. QED
    BY <2>2, <2>3, <2>4, Zenon
<1>4. id \in Rid /\ id[1] = n /\ id[2] = i
  <2>1. i \in DOMAIN q.slots
    BY <1>2 DEF Used
  <2>2. i \in SlotNum
    BY <1>2, <2>1, SlotNumbers
  <2>3. QED
    BY <1>0, <2>2 DEF Rid
<1>5. \A x \in Rid : x = <<x[1], x[2]>> /\ (x[1] = n => (x \in Occupied(h) <=> x[2] \in Used(p)))
  BY OccupiedOf DEF p
<1>6. id \notin Occupied(h)
  BY <1>2, <1>4, <1>5, Zenon
<1>7. Occupied(g) = Occupied(h) \union {id}
  <2>1. ASSUME NEW x \in Rid PROVE x \in Occupied(g) <=> x \in Occupied(h) \/ x = id
    <3>1. CASE x[1] # n
      BY <1>3, <1>4, <3>1, Zenon DEF SameElsewhere
    <3>2. CASE x[1] = n
      <4>1. x = id <=> x[2] = i
        BY <1>4, <1>5, <3>2, Zenon
      <4> HIDE DEF id
      <4>2. QED
        BY <1>2, <1>3, <1>5, <3>2, <4>1
    <3>3. QED
      BY <3>1, <3>2
  <2>2. Occupied(g) \subseteq Rid /\ Occupied(h) \subseteq Rid
    BY OccupiedOf
  <2> HIDE DEF id
  <2>3. QED
    BY <1>4, <2>1, <2>2
<1>8. SameIn(h, g, Occupied(h))
  <2>1. Occupied(h) \subseteq IdsKept(h, n, S)
    <3>1. Occupied(h) \subseteq Rid
      BY OccupiedOf
    <3>2. QED
      BY <1>5, <3>1, Zenon DEF IdsKept
  <2>2. QED
    BY <1>3, <2>1, Zenon DEF SameIn
<1>9. RowAt(g, id) = r
  <2>1. i \in Used(q) /\ IsPage(q)
    BY <1>2 DEF PageOK
  <2>2. Read(q, i) = r
    BY <1>2, <2>1, HeldRow
  <2>3. QED
    BY <1>3, <1>4, <2>2, Zenon DEF RowAt
<1>10. id \in Visible(g)
  <2>1. id \in Occupied(g) /\ ~g.pages[id[1]].slots[id[2]].deleted
    BY <1>2, <1>3, <1>4, <1>7, Zenon
  <2>2. QED
    BY <2>1, OccupiedOf
<1>11. QED
  BY <1>3, <1>4, <1>6, <1>7, <1>8, <1>9, <1>10, Zenon DEF Added, p, i

\* The link of a page is changed.
Relinked(p, k) == [p EXCEPT !.next = k]

\* A page with another successor has the same rows.
LEMMA LinkPage ==
  ASSUME NEW p, PageOK(p), NEW k, NEW q, q = Relinked(p, k)
  PROVE  /\ PageOK(q) /\ q.prev = p.prev /\ q.next = k
         /\ q.slots = p.slots /\ q.bytes = p.bytes
<1>1. p = [prev |-> p.prev, next |-> p.next, free |-> p.free, slots |-> p.slots,
           bytes |-> p.bytes]
  BY Zenon DEF PageOK, IsPage
<1>2. /\ q.prev = p.prev /\ q.next = k /\ q.free = p.free /\ q.slots = p.slots
      /\ q.bytes = p.bytes
      /\ q = [prev |-> q.prev, next |-> q.next, free |-> q.free, slots |-> q.slots,
              bytes |-> q.bytes]
  BY <1>1 DEF Relinked
<1>3. IsPage(q)
  BY <1>2, Zenon DEF PageOK, IsPage
<1>4. Used(q) = Used(p)
  BY <1>2, Zenon DEF Used
<1>5. Tiled(q)
  BY <1>2, <1>4, Zenon DEF PageOK, Tiled
<1>6. SlotsFit(q)
  BY <1>2, Zenon DEF PageOK, SlotsFit
<1>7. RowsWhole(q)
  <2>1. ASSUME NEW i, NEW r, Holds(p, i, r) PROVE Holds(q, i, r)
    BY <1>2, <2>1, Zenon DEF Holds, Reads
  <2>2. QED
    BY <1>4, <2>1, Zenon DEF PageOK, RowsWhole
<1>8. QED
  BY <1>2, <1>3, <1>5, <1>6, <1>7, Zenon DEF PageOK

\* Heap h with a new, empty page at the end of the chain.
Grown(h) ==
  LET last == h.allocated - 1
      new == h.allocated
  IN  [first_page_id_ |-> h.first_page_id_, allocated |-> h.allocated + 1,
       pages |-> [m \in PageId |-> IF m = new THEN NewTablePage(last)
                                   ELSE IF m = last THEN Relinked(h.pages[last], new)
                                   ELSE h.pages[m]]]

\* A new page at the end of the chain.
LEMMA GrownOK ==
  ASSUME NEW h, HeapOK(h), h.allocated < MaxPages, NEW g, g = Grown(h)
  PROVE  /\ HeapOK(g) /\ g.allocated = h.allocated + 1
         /\ g.pages[h.allocated] = NewTablePage(h.allocated - 1)
         /\ SameRows(h, g)
<1> DEFINE new == h.allocated
           last == new - 1
           f == h.pages
           e == g.pages
<1>1. Links(h)
  BY Zenon DEF HeapOK
<1>2. new \in 1 .. MaxPages /\ h.first_page_id_ = 0
  BY <1>1, Zenon DEF Links
<1>3. new \in Nat /\ new \in PageId /\ last \in Nat /\ last \in PageId /\ last # new
  BY <1>2 DEF PageId
<1>4. /\ g.first_page_id_ = 0 /\ g.allocated = new + 1
      /\ e = [m \in PageId |-> IF m = new THEN NewTablePage(last)
                               ELSE IF m = last THEN Relinked(f[last], new) ELSE f[m]]
      /\ g = [first_page_id_ |-> g.first_page_id_, allocated |-> g.allocated,
              pages |-> g.pages]
  BY <1>2, Zenon DEF Grown
<1>5. ASSUME NEW m \in PageId PROVE PageOK(f[m])
  BY Zenon DEF HeapOK
<1>6. ASSUME NEW n \in 0 .. new - 1
      PROVE  /\ f[n].next = IF n = last THEN INVALID_PAGE_ID ELSE n + 1
             /\ f[n].prev = n - 1
  BY <1>1, Zenon DEF Links
<1>7. ASSUME NEW m \in PageId, m >= new PROVE f[m].slots = <<>>
  BY <1>1, <1>7, Zenon DEF Links
<1>8. /\ e[new] = NewTablePage(last) /\ e[last] = Relinked(f[last], new)
      /\ \A m \in PageId \ {new, last} : e[m] = f[m]
      /\ DOMAIN e = PageId /\ e = [m \in PageId |-> e[m]]
  <2> HIDE DEF new, last, f, e
  <2>1. QED
    BY <1>3, <1>4
<1> HIDE DEF new, last, f, e
<1>9. /\ PageOK(e[new]) /\ e[new].slots = <<>> /\ e[new].prev = last
      /\ e[new].next = INVALID_PAGE_ID /\ Used(e[new]) = {}
  BY <1>8, NewPageOK
<1>10. /\ PageOK(e[last]) /\ e[last].prev = f[last].prev /\ e[last].next = new
       /\ e[last].slots = f[last].slots /\ e[last].bytes = f[last].bytes
  BY <1>3, <1>5, <1>8, LinkPage
<1>11. \A m \in PageId : PageOK(e[m])
  BY <1>5, <1>8, <1>9, <1>10, Zenon
<1>12. Links(g)
  <2>1. ASSUME NEW n \in 0 .. g.allocated - 1
        PROVE  /\ e[n].next = IF n = g.allocated - 1 THEN INVALID_PAGE_ID ELSE n + 1
               /\ e[n].prev = n - 1
    <3>0. n \in 0 .. new /\ g.allocated - 1 = new /\ last = new - 1
      BY <1>3, <1>4 DEF last
    <3>1. CASE n = new
      BY <1>9, <3>0, <3>1
    <3>2. CASE n = last
      <4>1. n \in 0 .. new - 1 /\ last + 1 = new /\ n # new
        BY <1>3, <3>0, <3>2
      <4>2. f[n].prev = n - 1
        BY <1>6, <4>1
      <4>3. QED
        BY <1>10, <3>0, <3>2, <4>1, <4>2
    <3>3. CASE n # new /\ n # last
      <4>1. n \in 0 .. new - 1
        BY <1>3, <3>0, <3>3
      <4>2. n \in PageId \ {new, last}
        BY <1>2, <3>3, <4>1 DEF PageId
      <4>3. f[n].next = n + 1 /\ f[n].prev = n - 1
        BY <1>6, <3>3, <4>1
      <4>4. e[n] = f[n]
        BY <1>8, <4>2
      <4>5. QED
        BY <3>0, <3>3, <4>3, <4>4
    <3>4. QED
      BY <3>1, <3>2, <3>3
  <2>2. ASSUME NEW m \in PageId, m >= g.allocated PROVE e[m].slots = <<>>
    <3>1. m \in PageId \ {new, last} /\ m >= new
      BY <1>3, <1>4, <2>2, SMTT(30) DEF PageId, last
    <3>2. QED
      BY <1>7, <1>8, <3>1
  <2>3. g.allocated \in 1 .. MaxPages
    BY <1>2, <1>4 DEF new
  <2>4. QED
    BY <1>4, <1>8, <2>1, <2>2, <2>3, Zenon DEF Links, e
<1>13. HeapOK(g)
  BY <1>11, <1>12, Zenon DEF HeapOK, e
<1>14. Used(f[new]) = {}
  <2>1. f[new].slots = <<>>
    BY <1>3, <1>7
  <2>2. QED
    BY <2>1 DEF Used
<1>15. SameRows(h, g)
  <2>1. \A m \in PageId \ {new} : e[m].slots = f[m].slots /\ e[m].bytes = f[m].bytes
    BY <1>8, <1>10, Zenon
  <2>2. Keeps(f[new], e[new], {})
    BY DEF Keeps
  <2>3. {} \subseteq Used(f[new]) /\ {} \subseteq Used(e[new])
    OBVIOUS
  <2>4. SameElsewhere(h, g, new) /\ SameIn(h, g, IdsKept(h, new, {}))
    <3> DEFINE S == {}
    <3>1. /\ S \subseteq Used(f[new]) /\ S \subseteq Used(e[new]) /\ Keeps(f[new], e[new], S)
          /\ S = {} /\ f = h.pages /\ e = g.pages
      BY <2>2, <2>3 DEF e, f
    <3> HIDE DEF S
    <3>2. SameElsewhere(h, g, new)
      BY <1>3, <1>13, <2>1, <3>1, PageChange, Zenon
    <3>3. SameIn(h, g, IdsKept(h, new, S))
      BY <1>3, <1>13, <2>1, <3>1, PageChange, Zenon
    <3>4. QED
      BY <3>1, <3>2, <3>3, Zenon
  <2>5. /\ \A x \in Rid : x \in Occupied(h) <=> x[2] \in Used(f[x[1]])
        /\ \A x \in Rid : x \in Occupied(g) <=> x[2] \in Used(e[x[1]])
        /\ Occupied(h) \subseteq Rid /\ Occupied(g) \subseteq Rid
    BY OccupiedOf DEF e, f
  <2>6. \A x \in Rid : x[1] = new => x \notin Occupied(h) /\ x \notin Occupied(g)
    BY <1>9, <1>14, <2>5
  <2>7. \A x \in Rid : x \in Occupied(g) <=> x \in Occupied(h)
    BY <2>4, <2>6 DEF SameElsewhere
  <2>8. Occupied(g) = Occupied(h)
    BY <2>5, <2>7
  <2>9. Occupied(h) \subseteq IdsKept(h, new, {})
    BY <2>5, <2>6, Zenon DEF IdsKept
  <2>10. QED
    BY <2>4, <2>8, <2>9, Zenon DEF SameRows, SameIn
<1>16. QED
  BY <1>4, <1>8, <1>13, <1>15, Zenon DEF new, last, e

\* What AppendPage does, in two steps.
LEMMA AppendIs ==
  ASSUME NEW h, HeapOK(h), h.allocated < MaxPages, NEW r,
         NEW page, page = NewTablePage(h.allocated - 1)
  PROVE  /\ HasRoom(page, r) =>
              AppendPage(h, r) = WithPage(Grown(h), h.allocated, InsertTuple(page, r))
         /\ ~HasRoom(page, r) => AppendPage(h, r) = Grown(h)
<1> DEFINE new == h.allocated
           last == new - 1
           f == h.pages
           X == IF HasRoom(page, r) THEN InsertTuple(page, r) ELSE page
           e == [m \in PageId |-> IF m = new THEN page
                                  ELSE IF m = last THEN Relinked(f[last], new) ELSE f[m]]
           ex == [m \in PageId |-> IF m = new THEN X
                                  ELSE IF m = last THEN Relinked(f[last], new) ELSE f[m]]
<1>1. Links(h)
  BY Zenon DEF HeapOK
<1>2. new \in 1 .. MaxPages /\ f = [m \in PageId |-> f[m]] /\ DOMAIN f = PageId
  BY <1>1, Zenon DEF Links
<1>3. new \in Nat /\ new \in PageId /\ last \in Nat /\ last \in PageId /\ last # new
  BY <1>2 DEF PageId
<1>4. Chain(h)[Greatest(Linked(h))] = last
  <2>1. Linked(h) = 0 .. new - 1
    BY <1>1, ChainOf
  <2>2. Greatest(Linked(h)) = last
    BY <1>2, <2>1, LastLinked
  <2>3. last \in 0 .. MaxPages /\ last < new
    BY <1>2
  <2>4. Chain(h)[last] = last
    BY <1>1, <2>3, ChainOf
  <2>5. QED
    BY <2>2, <2>4
<1>5. h = [first_page_id_ |-> h.first_page_id_, allocated |-> new, pages |-> f]
  BY <1>1, Zenon DEF Links
<1>6. AppendPage(h, r) = [h EXCEPT !.allocated = new + 1, !.pages[last].next = new,
                                   !.pages[new] = X]
  BY <1>4 DEF AppendPage
<1> HIDE DEF X
<1>7. AppendPage(h, r) = [first_page_id_ |-> h.first_page_id_, allocated |-> new + 1,
                          pages |-> [f EXCEPT ![last] = [f[last] EXCEPT !.next = new],
                                              ![new] = X]]
  <2> HIDE DEF new, last, f
  <2>1. QED
    BY <1>5, <1>6 DEF f
<1>8. [f EXCEPT ![last] = [f[last] EXCEPT !.next = new], ![new] = X] = ex
  <2> DEFINE w == [f[last] EXCEPT !.next = new]
  <2>1. w = Relinked(f[last], new)
    BY DEF Relinked
  <2> HIDE DEF w, new, last, f
  <2>2. [f EXCEPT ![last] = w, ![new] = X]
          = [m \in PageId |-> IF m = new THEN X ELSE IF m = last THEN w ELSE f[m]]
    BY <1>2, <1>3
  <2>3. QED
    BY <2>1, <2>2 DEF w
<1>9. Grown(h) = [first_page_id_ |-> h.first_page_id_, allocated |-> new + 1, pages |-> e]
  BY DEF Grown
<1>10. CASE HasRoom(page, r)
  <2>1. X = InsertTuple(page, r)
    BY <1>10 DEF X
  <2>2. WithPage(Grown(h), new, X) =
          [first_page_id_ |-> h.first_page_id_, allocated |-> new + 1,
           pages |-> [e EXCEPT ![new] = X]]
    <3> HIDE DEF e, new
    <3>1. QED
      BY <1>9 DEF WithPage
  <2>3. [e EXCEPT ![new] = X] = ex
    <3> HIDE DEF new, last, f
    <3>1. QED
      BY <1>3
  <2> HIDE DEF ex, e, new, last, f
  <2>4. QED
    BY <1>7, <1>8, <1>10, <2>1, <2>2, <2>3 DEF new
<1>11. CASE ~HasRoom(page, r)
  <2>1. ex = e
    BY <1>11 DEF X
  <2> HIDE DEF ex, e, new, last, f
  <2>2. QED
    BY <1>7, <1>8, <1>9, <1>11, <2>1
<1>12. QED
  BY <1>10, <1>11

\* Every new page has the same room.
LEMMA FitsAnyNewPage ==
  ASSUME NEW r, NEW prev
  PROVE  HasRoom(NewTablePage(prev), r) <=> FitsPage(r)
<1>1. /\ NewTablePage(prev).free = NewTablePage(INVALID_PAGE_ID).free
      /\ NewTablePage(prev).slots = NewTablePage(INVALID_PAGE_ID).slots
  BY DEF NewTablePage
<1>2. GetFreeSpaceRemaining(NewTablePage(prev)) = GetFreeSpaceRemaining(NewTablePage(INVALID_PAGE_ID))
  BY <1>1, Zenon DEF GetFreeSpaceRemaining
<1>3. QED
  BY <1>2, Zenon DEF FitsPage, HasRoom

\* InsertTuple makes one row more, or at worst an empty page for a row that is
\* too large for a page.
LEMMA InsertHeap ==
  ASSUME NEW h, HeapOK(h), NEW r \in Row, MayInsert(h, r), NEW g, g = AfterInsert(h, r)
  PROVE  /\ HeapOK(g) /\ g.allocated \in {h.allocated, h.allocated + 1}
         /\ \/ ~FitsPage(r) /\ SameRows(h, g)
            \/ \E id : /\ Added(h, g, id, r)
                       /\ id[1] = h.allocated \/ HasRoom(h.pages[id[1]], r)
<1>1. Links(h)
  BY Zenon DEF HeapOK
<1>2. h.allocated \in 1 .. MaxPages
  BY <1>1, Zenon DEF Links
<1>3. /\ \A k \in 0 .. MaxPages : Chain(h)[k] = IF k < h.allocated THEN k ELSE INVALID_PAGE_ID
      /\ Linked(h) = 0 .. h.allocated - 1
  BY <1>1, ChainOf
<1>4. CASE Fitting(h, r) # {}
  <2> DEFINE k == Least(Fitting(h, r))
  <2>1. Fitting(h, r) \subseteq Linked(h)
    BY DEF Fitting
  <2>2. k \in Fitting(h, r)
    <3>1. Fitting(h, r) \subseteq Nat
      BY <1>2, <1>3, <2>1
    <3>2. QED
      BY <1>4, <3>1, LeastElement
  <2> HIDE DEF k
  <2>3. k \in 0 .. h.allocated - 1
    BY <1>3, <2>1, <2>2
  <2>4. Chain(h)[k] = k
    <3>1. k \in 0 .. MaxPages /\ k < h.allocated
      BY <1>2, <2>3
    <3>2. QED
      BY <1>3, <3>1
  <2>5. HasRoom(h.pages[k], r)
    BY <2>2, <2>4 DEF Fitting
  <2>6. g = WithPage(h, k, InsertTuple(h.pages[k], r))
    BY <1>4, <2>4 DEF AfterInsert, WithPage, k
  <2> DEFINE id == <<k, InsertSlot(h.pages[k])>>
  <2>7. HeapOK(g) /\ g.allocated = h.allocated /\ Added(h, g, id, r)
    BY <2>3, <2>5, <2>6, InsertInto
  <2>8. id[1] = k
    OBVIOUS
  <2> HIDE DEF id
  <2>9. QED
    BY <2>5, <2>7, <2>8
<1>5. CASE Fitting(h, r) = {}
  <2> DEFINE new == h.allocated
             page == NewTablePage(new - 1)
             w == Grown(h)
  <2>1. new < MaxPages
    BY <1>5 DEF MayInsert
  <2>2. g = AppendPage(h, r)
    BY <1>5 DEF AfterInsert
  <2>3. HeapOK(w) /\ w.allocated = new + 1 /\ w.pages[new] = page /\ SameRows(h, w)
    BY <2>1, GrownOK
  <2>4. HasRoom(page, r) <=> FitsPage(r)
    BY FitsAnyNewPage
  <2>5. /\ HasRoom(page, r) => g = WithPage(w, new, InsertTuple(page, r))
        /\ ~HasRoom(page, r) => g = w
    BY <2>1, <2>2, AppendIs
  <2>6. CASE ~HasRoom(page, r)
    BY <2>3, <2>4, <2>5, <2>6
  <2>7. CASE HasRoom(page, r)
    <3> DEFINE id == <<new, InsertSlot(page)>>
    <3>1. new \in 0 .. w.allocated - 1
      BY <1>2, <2>3
    <3> HIDE DEF new, page, w
    <3>2. HasRoom(w.pages[new], r) /\ g = WithPage(w, new, InsertTuple(w.pages[new], r))
      BY <2>3, <2>5, <2>7
    <3>3. HeapOK(g) /\ g.allocated = w.allocated /\ Added(w, g, <<new, InsertSlot(w.pages[new])>>, r)
      BY <2>3, <3>1, <3>2, InsertInto
    <3>4. Added(w, g, id, r)
      BY <2>3, <3>3
    <3>5. id[1] = new
      OBVIOUS
    <3> HIDE DEF id
    <3>6. Added(h, g, id, r)
      BY <2>3, <3>4, Zenon DEF Added, SameRows, SameIn
    <3>7. QED
      BY <2>3, <3>3, <3>5, <3>6 DEF new
  <2>8. QED
    BY <2>6, <2>7
<1>6. QED
  BY <1>4, <1>5

-----------------------------------------------------------------------------
\* What the operations of the heap do to the rows.

\* A page replaced by itself.
LEMMA WithSamePage ==
  ASSUME NEW h, HeapOK(h), NEW n \in PageId
  PROVE  WithPage(h, n, h.pages[n]) = h
<1>1. /\ h = [first_page_id_ |-> h.first_page_id_, allocated |-> h.allocated,
              pages |-> h.pages]
      /\ h.pages = [m \in PageId |-> h.pages[m]]
  BY Zenon DEF HeapOK, Links
<1>2. [h.pages EXCEPT ![n] = h.pages[n]] = h.pages
  BY <1>1
<1>3. QED
  BY <1>1, <1>2 DEF WithPage

\* MarkDelete of a row.
LEMMA MarkStep ==
  ASSUME NEW h, HeapOK(h), NEW id \in Occupied(h),
         NEW g, g = WithPage(h, id[1], MarkDelete(h.pages[id[1]], id[2]))
  PROVE  /\ HeapOK(g) /\ g.allocated = h.allocated
         /\ Occupied(g) = Occupied(h) /\ SameIn(h, g, Occupied(h) \ {id})
         /\ RowAt(g, id) = RowAt(h, id) /\ id \notin Visible(g)
<1> DEFINE n == id[1]
           i == id[2]
           p == h.pages[n]
<1>1. n \in PageId /\ i \in Used(p) /\ (id \in Visible(h) <=> ~p.slots[i].deleted)
  BY OccupiedPage, OccupiedOf, Zenon
<1>2. i \in DOMAIN p.slots /\ p.slots[i].size # 0
  BY <1>1 DEF Used
<1>3. CASE p.slots[i].deleted
  <2>1. MarkDelete(p, i) = p
    BY <1>3, Zenon DEF MarkDelete, IsDeleted
  <2>2. g = h
    BY <1>1, <2>1, WithSamePage, Zenon
  <2>3. SameIn(h, h, Occupied(h) \ {id})
    BY Zenon DEF SameIn
  <2>4. QED
    BY <1>1, <1>3, <2>2, <2>3, Zenon
<1>4. CASE ~p.slots[i].deleted
  <2>1. MarkDelete(p, i) = Marked(p, i, TRUE)
    BY <1>2, <1>4, Zenon DEF MarkDelete, IsDeleted, Marked
  <2>2. g = WithPage(h, n, Marked(p, i, TRUE))
    BY <2>1, Zenon
  <2>3. QED
    BY <2>2, MarkHeap, Zenon
<1>5. QED
  BY <1>3, <1>4

\* RollbackDelete of a row.
LEMMA RollbackStep ==
  ASSUME NEW h, HeapOK(h), NEW id \in Occupied(h),
         NEW g, g = WithPage(h, id[1], RollbackDelete(h.pages[id[1]], id[2]))
  PROVE  /\ HeapOK(g) /\ g.allocated = h.allocated
         /\ Occupied(g) = Occupied(h) /\ SameIn(h, g, Occupied(h) \ {id})
         /\ RowAt(g, id) = RowAt(h, id) /\ id \in Visible(g)
<1> DEFINE n == id[1]
           i == id[2]
           p == h.pages[n]
<1>1. n \in PageId /\ i \in Used(p) /\ (id \in Visible(h) <=> ~p.slots[i].deleted)
  BY OccupiedPage, OccupiedOf, Zenon
<1>2. p.slots[i].size # 0
  BY <1>1 DEF Used
<1>3. CASE ~p.slots[i].deleted
  <2>1. RollbackDelete(p, i) = p
    BY <1>2, <1>3, Zenon DEF RollbackDelete, IsDeleted
  <2>2. g = h
    BY <1>1, <2>1, WithSamePage, Zenon
  <2>3. SameIn(h, h, Occupied(h) \ {id})
    BY Zenon DEF SameIn
  <2>4. QED
    BY <1>1, <1>3, <2>2, <2>3, Zenon
<1>4. CASE p.slots[i].deleted
  <2>1. RollbackDelete(p, i) = Marked(p, i, FALSE)
    BY <1>4, Zenon DEF RollbackDelete, IsDeleted, Marked
  <2>2. g = WithPage(h, n, Marked(p, i, FALSE))
    BY <2>1, Zenon
  <2>3. QED
    BY <2>2, MarkHeap, Zenon
<1>5. QED
  BY <1>3, <1>4

\* The space of a row that is marked and then deleted is free.
LEMMA DeleteMarked ==
  ASSUME NEW p, PageOK(p), NEW i \in Used(p)
  PROVE  /\ PageOK(ApplyDelete(Marked(p, i, TRUE), i))
         /\ Freed(p, ApplyDelete(Marked(p, i, TRUE), i), i)
<1> DEFINE m == Marked(p, i, TRUE)
           v == [p.slots[i] EXCEPT !.deleted = TRUE]
           q == ApplyDelete(m, i)
<1>1. /\ p = [prev |-> p.prev, next |-> p.next, free |-> p.free, slots |-> p.slots,
              bytes |-> p.bytes]
      /\ p.slots \in Seq(Slot)
  BY Zenon DEF PageOK, IsPage
<1>2. m.free = p.free /\ m.slots = [p.slots EXCEPT ![i] = v]
  BY <1>1 DEF Marked
<1>3. i \in DOMAIN p.slots /\ p.slots[i] \in Slot
  BY <1>1 DEF Used
<1>4. v.size = p.slots[i].size
  BY <1>3 DEF Slot
<1>5. v \in Slot
  BY <1>3 DEF Slot
<1>6. PageOK(m) /\ Used(m) = Used(p)
  BY MarkPage
<1> HIDE DEF m, v
<1>7. Len(m.slots) = Len(p.slots) /\ m.slots[i] = v
  BY <1>1, <1>2, <1>3, <1>5
<1>8. PageOK(q) /\ Freed(m, q, i)
  <2>1. i \in Used(m)
    BY <1>6, Zenon
  <2>2. QED
    BY <1>6, <2>1, DeletePage, Zenon
<1> HIDE DEF q
<1>9. PageOK(q) /\ Freed(p, q, i)
  BY <1>2, <1>4, <1>7, <1>8, Zenon DEF Freed
<1>10. QED
  BY <1>9, Zenon DEF q, m

\* A page that cannot take a larger row in place of one of its rows has no room
\* for it either when that row is deleted.
LEMMA StillNoRoom ==
  ASSUME NEW p, PageOK(p), NEW i \in Used(p), NEW r \in Row,
         GetFreeSpaceRemaining(p) + p.slots[i].size < r.size,
         NEW q, q = ApplyDelete(Marked(p, i, TRUE), i)
  PROVE  ~HasRoom(q, r)
<1> DEFINE free == p.free
           size == p.slots[i].size
           t == SIZE_TUPLE * Len(p.slots)
           need == r.size
           H == SIZE_TABLE_PAGE_HEADER
           before == GetFreeSpaceRemaining(p)
           after == GetFreeSpaceRemaining(q)
<1>1. IsPage(p) /\ SlotsFit(p) /\ i \in DOMAIN p.slots
  BY Zenon DEF PageOK, Used
<1>2. PageOK(q) /\ q.free = free + size /\ Len(q.slots) = Len(p.slots)
  BY DeleteMarked, Zenon DEF Freed
<1>3. IsPage(q) /\ SlotsFit(q)
  BY <1>2, Zenon DEF PageOK
<1>4. free \in Nat /\ Len(p.slots) \in Nat /\ size \in Nat
  BY <1>1, SlotsOfPage, Zenon
<1>5. need \in Nat /\ H \in Nat
  BY RowSize, Zenon
<1>6. before = free - H - t
  BY <1>1, Remaining, Zenon
<1>7. after = q.free - H - SIZE_TUPLE * Len(q.slots)
  BY <1>3, Remaining, Zenon
<1>8. after = (free + size) - H - t
  BY <1>2, <1>7, Zenon
<1>9. t \in Nat
  <2>1. SIZE_TUPLE \in Nat
    OBVIOUS
  <2>2. QED
    BY <1>4, <2>1, Times, Zenon
<1>10. before + size < need
  BY Zenon
<1> HIDE DEF free, size, t, need, H, before, after
<1>11. ~(after >= need + SIZE_TUPLE)
  BY <1>4, <1>5, <1>6, <1>8, <1>9, <1>10
<1>12. QED
  BY <1>11, Zenon DEF HasRoom, after, need

\* Heap d is heap h without a row, and g is d with the row back under another
\* id, unless it is too large for a page.
Relocated(h, d, g, id, r) ==
  /\ HeapOK(g) /\ g.allocated \in {h.allocated, h.allocated + 1}
  /\ Occupied(d) = Occupied(h) \ {id} /\ SameIn(h, d, Occupied(d))
  /\ \/ ~FitsPage(r) /\ SameRows(d, g)
     \/ \E new : Added(d, g, new, r) /\ new # id

\* A row that does not fit into its page is deleted there; its page is then
\* still without room for it, so that it gets another id.
LEMMA MoveStep ==
  ASSUME NEW h, HeapOK(h), NEW id \in Occupied(h), NEW r \in Row,
         UpdateResult(h.pages[id[1]], id[2], r) = 0,
         NEW m, m = WithPage(h, id[1], MarkDelete(h.pages[id[1]], id[2])),
         NEW d, d = AfterDelete(m, id),
         MayInsert(d, r), NEW g, g = AfterInsert(d, r)
  PROVE  id \in Visible(h) /\ Relocated(h, d, g, id, r)
<1> DEFINE n == id[1]
           i == id[2]
           p == h.pages[n]
           pm == m.pages[n]
           pd == d.pages[n]
<1>1. /\ n \in PageId /\ n \in 0 .. h.allocated - 1 /\ i \in Used(p) /\ PageOK(p)
      /\ (id \in Visible(h) <=> ~p.slots[i].deleted)
  BY OccupiedPage, OccupiedOf, Zenon
<1>2. i \in DOMAIN p.slots /\ p.slots[i].size # 0 /\ p.slots[i].size \in Nat
  <2>1. i \in DOMAIN p.slots /\ p.slots[i].size # 0
    BY <1>1 DEF Used
  <2>2. QED
    BY <1>1, <2>1, SlotsOfPage DEF PageOK
<1>3. ~IsDeleted(p.slots[i]) /\ GetFreeSpaceRemaining(p) + p.slots[i].size < r.size
  <2>1. UpdateResult(p, i, r) = 0
    OBVIOUS
  <2>2. QED
    BY <2>1 DEF UpdateResult
<1>4. MarkDelete(p, i) = Marked(p, i, TRUE)
  BY <1>2, <1>3, Zenon DEF MarkDelete, Marked
<1>5. m = WithPage(h, n, Marked(p, i, TRUE))
  BY <1>4, Zenon
<1>6. /\ HeapOK(m) /\ m.allocated = h.allocated /\ Occupied(m) = Occupied(h)
      /\ SameIn(h, m, Occupied(h) \ {id})
  BY <1>5, MarkHeap, ZenonT(60)
<1>7. /\ HeapOK(d) /\ d.allocated = m.allocated /\ Occupied(d) = Occupied(m) \ {id}
      /\ SameIn(m, d, Occupied(m) \ {id}) /\ pd = ApplyDelete(pm, i)
  <2>1. id \in Occupied(m) /\ d = AfterDelete(m, id)
    BY <1>6, Zenon
  <2> HIDE DEF pm, pd
  <2>2. /\ HeapOK(d) /\ d.allocated = m.allocated /\ Occupied(d) = Occupied(m) \ {id}
        /\ SameIn(m, d, Occupied(m) \ {id})
        /\ d.pages[id[1]] = ApplyDelete(m.pages[id[1]], id[2])
    BY <1>6, <2>1, DeleteHeap
  <2>3. QED
    BY <2>2 DEF pm, pd
<1>8. SameIn(h, d, Occupied(d))
  BY <1>6, <1>7, Zenon DEF SameIn
<1>9. /\ HeapOK(g) /\ g.allocated \in {d.allocated, d.allocated + 1}
      /\ \/ ~FitsPage(r) /\ SameRows(d, g)
         \/ \E new : /\ Added(d, g, new, r)
                     /\ new[1] = d.allocated \/ HasRoom(d.pages[new[1]], r)
  BY <1>7, InsertHeap, ZenonT(60)
<1>10. pm = Marked(p, i, TRUE)
  <2>1. /\ h = [first_page_id_ |-> h.first_page_id_, allocated |-> h.allocated,
                pages |-> h.pages]
        /\ DOMAIN h.pages = PageId
    BY Zenon DEF HeapOK, Links
  <2> HIDE DEF n, i, p
  <2>2. m.pages = [h.pages EXCEPT ![n] = Marked(p, i, TRUE)]
    BY <1>5, <2>1 DEF WithPage
  <2>3. QED
    BY <1>1, <2>1, <2>2, Zenon
<1>14. ~HasRoom(pd, r)
  <2>1. pd = ApplyDelete(Marked(p, i, TRUE), i)
    BY <1>7, <1>10, Zenon
  <2>2. QED
    BY <1>1, <1>3, <2>1, StillNoRoom, Zenon
<1>15. id[1] # d.allocated
  BY <1>1, <1>6, <1>7
<1>16. id \in Visible(h)
  BY <1>1, <1>3, Zenon DEF IsDeleted
<1>17. CASE ~FitsPage(r) /\ SameRows(d, g)
  BY <1>6, <1>7, <1>8, <1>9, <1>16, <1>17, Zenon DEF Relocated
<1>18. CASE \E new : /\ Added(d, g, new, r)
                     /\ new[1] = d.allocated \/ HasRoom(d.pages[new[1]], r)
  <2>1. PICK new : /\ Added(d, g, new, r)
                   /\ new[1] = d.allocated \/ HasRoom(d.pages[new[1]], r)
    BY <1>18, Zenon
  <2>2. new # id
    BY <1>14, <1>15, <2>1, Zenon
  <2>3. \E nw : Added(d, g, nw, r) /\ nw # id
    BY <2>1, <2>2, Zenon
  <2>4. QED
    BY <1>6, <1>7, <1>8, <1>9, <1>16, <2>3, Zenon DEF Relocated
<1>19. QED
  BY <1>9, <1>17, <1>18, Zenon

\* UpdateTuple of a row that stays in its page.
LEMMA UpdateStep ==
  ASSUME NEW h, HeapOK(h), NEW id \in Occupied(h), NEW r \in Row,
         UpdateResult(h.pages[id[1]], id[2], r) = 1,
         NEW g, g = WithPage(h, id[1], UpdateTuple(h.pages[id[1]], id[2], r))
  PROVE  id \in Visible(h) /\ Rewritten(h, g, id, r)
<1> DEFINE p == h.pages[id[1]]
           i == id[2]
<1>1. PageOK(p) /\ i \in Used(p) /\ (id \in Visible(h) <=> ~p.slots[i].deleted)
  BY OccupiedPage, OccupiedOf, Zenon
<1>2. IsPage(p) /\ SlotsFit(p) /\ i \in DOMAIN p.slots
  BY <1>1, Zenon DEF PageOK, Used
<1>3. UpdateResult(p, i, r) = 1
  OBVIOUS
<1>4. ~IsDeleted(p.slots[i]) /\ ~(GetFreeSpaceRemaining(p) + p.slots[i].size < r.size)
  <2> HIDE DEF p, i
  <2>1. QED
    BY <1>3 DEF UpdateResult
<1>5. GetFreeSpaceRemaining(p) \in Nat
  BY <1>2, Remaining, Zenon
<1>6. p.slots[i].size \in Nat
  BY <1>2, SlotsOfPage, Zenon
<1>7. r.size \in Nat
  BY RowSize, Zenon
<1>8. GetFreeSpaceRemaining(p) + p.slots[i].size >= r.size
  <2> DEFINE a == GetFreeSpaceRemaining(p)
             b == p.slots[i].size
             c == r.size
  <2>1. a \in Nat /\ b \in Nat /\ c \in Nat /\ ~(a + b < c)
    BY <1>4, <1>5, <1>6, <1>7, Zenon
  <2> HIDE DEF a, b, c
  <2>2. a + b >= c
    BY <2>1
  <2>3. QED
    BY <2>2, Zenon DEF a, b, c
<1>9. id \in Visible(h)
  BY <1>1, <1>4, Zenon DEF IsDeleted
<1>10. FitsInstead(h.pages[id[1]], id[2], r)
  BY <1>8, Zenon DEF FitsInstead
<1>11. QED
  BY <1>9, <1>10, UpdateHeap, Zenon

-----------------------------------------------------------------------------
\* The steps of an iterator.

\* The chain of a heap, and its ids.
LEMMA PagesOf ==
  ASSUME NEW h, HeapOK(h)
  PROVE  /\ h.first_page_id_ = 0 /\ h.allocated \in 1 .. MaxPages
         /\ Linked(h) = 0 .. h.allocated - 1
         /\ \A k \in 0 .. h.allocated - 1 :
              /\ k \in PageId /\ k \in Nat /\ Chain(h)[k] = k /\ PageOf(h, k) = h.pages[k]
              /\ PageOK(h.pages[k])
<1>1. Links(h) /\ \A n \in PageId : PageOK(h.pages[n])
  BY Zenon DEF HeapOK
<1>2. h.allocated \in 1 .. MaxPages /\ h.first_page_id_ = 0
  BY <1>1, Zenon DEF Links
<1>3. /\ \A k \in 0 .. MaxPages : Chain(h)[k] = IF k < h.allocated THEN k ELSE INVALID_PAGE_ID
      /\ Linked(h) = 0 .. h.allocated - 1
  BY <1>1, ChainOf
<1>4. \A k \in 0 .. h.allocated - 1 : k \in PageId /\ k \in Nat /\ Chain(h)[k] = k
  BY <1>2, <1>3 DEF PageId
<1>5. QED
  BY <1>1, <1>2, <1>3, <1>4, Zenon DEF PageOf

\* LiveAfter are the slots of the visible rows behind a slot.
LEMMA LiveRows ==
  ASSUME NEW h, HeapOK(h), NEW n \in 0 .. h.allocated - 1, NEW i \in Nat
  PROVE  /\ \A j : j \in LiveAfter(h.pages[n], i) <=> j \in Nat /\ j > i /\ <<n, j>> \in Visible(h)
         /\ LiveAfter(h.pages[n], i) \subseteq Nat
         /\ \A j \in LiveAfter(h.pages[n], i) : <<n, j>> \in Rid
<1> DEFINE p == h.pages[n]
<1>1. n \in PageId /\ PageOK(p)
  BY PagesOf, Zenon
<1>2. DOMAIN p.slots \subseteq SlotNum /\ DOMAIN p.slots \subseteq Nat
  <2>1. DOMAIN p.slots \subseteq SlotNum
    BY <1>1, SlotNumbers, Zenon
  <2>2. DOMAIN p.slots = 1 .. Len(p.slots) /\ Len(p.slots) \in Nat
    BY <1>1, SlotsOfPage, Zenon DEF PageOK
  <2> HIDE DEF p
  <2>3. DOMAIN p.slots \subseteq Nat
    BY <2>2
  <2>4. QED
    BY <2>1, <2>3
<1>3. \A j : <<n, j>> \in Visible(h)
               <=> <<n, j>> \in Rid /\ j \in Used(p) /\ ~p.slots[j].deleted
  <2>1. \A j : <<n, j>>[1] = n /\ <<n, j>>[2] = j
    OBVIOUS
  <2>2. \A id : id \in Visible(h) <=> id \in Rid /\ id[2] \in Used(h.pages[id[1]])
                                    /\ ~h.pages[id[1]].slots[id[2]].deleted
    BY OccupiedOf
  <2>3. QED
    BY <2>1, <2>2, Zenon
<1>4. \A j : <<n, j>> \in Rid <=> j \in SlotNum
  BY <1>1 DEF Rid
<1>5. \A j : j \in LiveAfter(p, i)
               <=> j \in DOMAIN p.slots /\ j > i /\ ~p.slots[j].deleted /\ p.slots[j].size # 0
  BY Zenon DEF LiveAfter, IsDeleted
<1>6. \A j : j \in Used(p) <=> j \in DOMAIN p.slots /\ p.slots[j].size # 0
  BY Zenon DEF Used
<1> HIDE DEF p
<1>7. \A j : j \in LiveAfter(p, i) <=> j \in Nat /\ j > i /\ <<n, j>> \in Visible(h)
  BY <1>2, <1>3, <1>4, <1>5, <1>6, Zenon
<1>8. LiveAfter(p, i) \subseteq Nat
  BY <1>7, Zenon
<1>9. \A j \in LiveAfter(p, i) : <<n, j>> \in Rid
  BY <1>3, <1>7, Zenon
<1>10. QED
  BY <1>7, <1>8, <1>9, Zenon DEF p

\* A row of an earlier page comes first.
LEMMA BeforePage ==
  ASSUME NEW c, NEW d, c[1] < d[1]
  PROVE  Before(c, d)
BY DEF Before

\* The first visible row of a page behind a slot.
LEMMA FirstLive ==
  ASSUME NEW h, HeapOK(h), NEW n \in 0 .. h.allocated - 1, NEW i \in Nat,
         LiveAfter(h.pages[n], i) # {},
         NEW c, c = <<n, Least(LiveAfter(h.pages[n], i))>>
  PROVE  /\ c \in Rid /\ c[1] = n
         /\ \A id \in Visible(h) : id[1] = n /\ id[2] > i => c = id \/ Before(c, id)
<1> DEFINE L == LiveAfter(h.pages[n], i)
           l == Least(L)
<1>1. /\ \A j : j \in L <=> j \in Nat /\ j > i /\ <<n, j>> \in Visible(h)
      /\ L \subseteq Nat
      /\ \A j \in L : <<n, j>> \in Rid
  BY LiveRows, Zenon
<1>2. L # {} /\ c = <<n, l>>
  OBVIOUS
<1> HIDE DEF L
<1>3. l \in L /\ \A y \in L : l <= y
  BY <1>1, <1>2, LeastElement, Zenon
<1> HIDE DEF l
<1>4. l \in Nat /\ c \in Rid /\ c[1] = n /\ c[2] = l
  BY <1>1, <1>2, <1>3
<1>5. ASSUME NEW id \in Visible(h), id[1] = n, id[2] > i
      PROVE  c = id \/ Before(c, id)
  <2>1. id \in Rid /\ id = <<id[1], id[2]>> /\ id[2] \in SlotNum
    BY OccupiedOf, Zenon
  <2>2. id[2] \in Nat
    <3>1. \A x \in SlotNum : x \in Nat
      BY DEF SlotNum
    <3>2. QED
      BY <2>1, <3>1, Zenon
  <2>3. <<n, id[2]>> \in Visible(h)
    BY <1>5, <2>1, Zenon
  <2>4. id[2] \in L
    BY <1>1, <1>5, <2>2, <2>3, Zenon
  <2>5. l <= id[2]
    BY <1>3, <2>4, Zenon
  <2>6. l = id[2] \/ l < id[2]
    BY <1>4, <2>2, <2>5
  <2>7. QED
    BY <1>2, <1>4, <1>5, <2>1, <2>6, Zenon DEF Before
<1>6. QED
  BY <1>4, <1>5, Zenon

\* The end of a scan is no row.
LEMMA NoRow == INVALID_ROWID \notin Rid
BY DEF INVALID_ROWID, INVALID_PAGE_ID, Rid, PageId

\* Begin, in the states a scan may be started in.
LEMMA BeginScan == HeapInv /\ Begin
                   /\ (LiveAfter(PageOf(heap, 0), 0) # {} \/ Visible(heap) = {}) => HeapInv'
<1> SUFFICES ASSUME HeapOK(heap), Begin,
                    LiveAfter(PageOf(heap, 0), 0) # {} \/ Visible(heap) = {}
             PROVE  HeapInv'
  BY DEF HeapInv
<1>1. /\ heap.first_page_id_ = 0 /\ 0 \in 0 .. heap.allocated - 1
      /\ heap.allocated \in Nat /\ 0 < heap.allocated
      /\ PageOf(heap, 0) = heap.pages[0]
  <2>1. heap.first_page_id_ = 0 /\ heap.allocated \in 1 .. MaxPages
    BY PagesOf, Zenon
  <2>2. heap.allocated \in Nat /\ 0 < heap.allocated /\ 0 \in 0 .. heap.allocated - 1
    BY <2>1
  <2>3. QED
    BY <2>1, <2>2, PagesOf, Zenon
<1> DEFINE L == LiveAfter(heap.pages[0], 0)
           c == <<0, Least(L)>>
<1>2. heap' = heap
  BY DEF Begin
<1>3. cursor' = IF L = {} THEN INVALID_ROWID ELSE c
  BY <1>1 DEF Begin
<1>4. PICK id \in Visible(heap) \union {INVALID_ROWID} :
        due' = IF id = cursor' THEN INVALID_ROWID ELSE id
  BY Zenon DEF Begin
<1>5. CASE L = {}
  <2>1. Visible(heap) = {}
    BY <1>1, <1>5, Zenon
  <2>2. cursor' = INVALID_ROWID /\ due' = INVALID_ROWID
    BY <1>3, <1>4, <1>5, <2>1, Zenon
  <2>3. QED
    BY <1>2, <2>2 DEF HeapInv, Scan
<1>6. CASE L # {}
  <2>1. /\ c \in Rid /\ c[1] = 0
        /\ \A x \in Visible(heap) : x[1] = 0 /\ x[2] > 0 => c = x \/ Before(c, x)
    <3>1. 0 \in Nat
      OBVIOUS
    <3>2. QED
      BY <1>1, <1>6, <3>1, FirstLive, ZenonT(60)
  <2>2. cursor' = c
    BY <1>3, <1>6, Zenon
  <2> HIDE DEF c, L
  <2>3. ASSUME due' # INVALID_ROWID PROVE due' \in Visible(heap) /\ Before(c, due')
    <3>1. due' = id /\ id \in Visible(heap) /\ id # c
      BY <1>4, <2>2, <2>3, Zenon
    <3>2. id[1] \in PageId /\ id[2] \in SlotNum
      BY <3>1, OccupiedOf, Zenon
    <3>3. id[1] \in Nat /\ id[2] > 0
      BY <3>2 DEF PageId, SlotNum
    <3>4. CASE id[1] = 0
      BY <2>1, <3>1, <3>3, <3>4, Zenon
    <3>5. CASE id[1] # 0
      <4>1. c[1] < id[1]
        BY <2>1, <3>3, <3>5
      <4>2. Before(c, id)
        BY <4>1, BeforePage, Zenon
      <4>3. QED
        BY <3>1, <4>2, Zenon
    <3>6. QED
      BY <3>4, <3>5
  <2>4. cursor' # INVALID_ROWID
    BY <2>1, <2>2, NoRow, Zenon
  <2>5. cursor'[1] < heap'.allocated
    BY <1>1, <1>2, <2>1, <2>2, Zenon
  <2>6. Scan'
    BY <1>2, <2>1, <2>2, <2>3, <2>4, <2>5 DEF Scan
  <2>7. QED
    BY <1>2, <2>6 DEF HeapInv
<1>7. QED
  BY <1>5, <1>6

\* operator++ leaves behind the row it comes to, and no row in between.
LEMMA AdvanceScan == HeapInv /\ Advance => HeapInv'
<1> SUFFICES ASSUME HeapOK(heap), Scan, Advance PROVE HeapInv'
  BY DEF HeapInv
<1> DEFINE a == heap.allocated
           n == cursor[1]
           i == cursor[2]
           k == CHOOSE m \in Linked(heap) : Chain(heap)[m] = n
           here == LiveAfter(heap.pages[n], i)
           later == {m \in 0 .. a - 1 : m > n /\ LiveAfter(heap.pages[m], 0) # {}}
           next == Least(later)
           c == <<n, Least(here)>>
           e == <<next, Least(LiveAfter(heap.pages[next], 0))>>
<1>1. /\ a \in 1 .. MaxPages /\ Linked(heap) = 0 .. a - 1
      /\ \A m \in 0 .. a - 1 : /\ m \in PageId /\ m \in Nat /\ Chain(heap)[m] = m
                               /\ PageOf(heap, m) = heap.pages[m]
  BY PagesOf, Zenon
<1>2. cursor # INVALID_ROWID /\ heap' = heap /\ NotDue(cursor')
  BY DEF Advance
<1>3. cursor \in Rid /\ n < a
  BY <1>2, Zenon DEF Scan
<1>4. n \in Nat /\ i \in Nat /\ n \in 0 .. a - 1 /\ cursor = <<n, i>>
  <2>1. n \in PageId /\ i \in SlotNum /\ cursor = <<n, i>>
    BY <1>3, OccupiedOf, Zenon
  <2> HIDE DEF n, i
  <2>2. n \in Nat /\ i \in Nat
    BY <2>1 DEF PageId, SlotNum
  <2>3. n \in 0 .. a - 1
    BY <1>1, <1>3, <2>2
  <2>4. QED
    BY <2>1, <2>2, <2>3
<1>5. k = n
  <2> HIDE DEF n
  <2>1. n \in Linked(heap) /\ Chain(heap)[n] = n
    BY <1>1, <1>4, Zenon
  <2>2. \A m \in Linked(heap) : Chain(heap)[m] = n => m = n
    BY <1>1, Zenon
  <2>3. QED
    BY <2>1, <2>2, Zenon
<1>6. LiveAfter(PageOf(heap, k), i) = here
  BY <1>1, <1>4, <1>5, Zenon
<1>7. {m \in Linked(heap) : m > k /\ LiveAfter(PageOf(heap, m), 0) # {}} = later
  <2> HIDE DEF n, k
  <2>1. \A m \in 0 .. a - 1 : PageOf(heap, m) = heap.pages[m]
    BY <1>1, Zenon
  <2>2. QED
    BY <1>1, <1>5, <2>1
<1> DEFINE lat == {m \in Linked(heap) : m > k /\ LiveAfter(PageOf(heap, m), 0) # {}}
<1>8. cursor' = IF LiveAfter(PageOf(heap, k), i) # {}
                THEN <<n, Least(LiveAfter(PageOf(heap, k), i))>>
                ELSE IF lat # {}
                THEN <<Chain(heap)[Least(lat)], Least(LiveAfter(PageOf(heap, Least(lat)), 0))>>
                ELSE INVALID_ROWID
  BY Zenon DEF Advance
<1>9. cursor' = IF here # {} THEN c
                ELSE IF later # {}
                THEN <<Chain(heap)[next], Least(LiveAfter(PageOf(heap, next), 0))>>
                ELSE INVALID_ROWID
  <2>1. lat = later
    BY <1>7
  <2> HIDE DEF lat, later, here, k
  <2>2. QED
    BY <1>6, <1>8, <2>1
<1> HIDE DEF k, lat
<1>10. /\ later \subseteq 0 .. a - 1
       /\ \A m : m \in later <=> m \in 0 .. a - 1 /\ m > n /\ LiveAfter(heap.pages[m], 0) # {}
  OBVIOUS
<1> HIDE DEF later
<1>11. later # {} => next \in later /\ \A m \in later : next <= m
  <2>1. later \subseteq Nat
    BY <1>10, <1>1
  <2>2. QED
    BY <2>1, LeastElement, Zenon
<1>12. later # {} => cursor' = (IF here # {} THEN c ELSE e)
  <2> SUFFICES ASSUME later # {} PROVE cursor' = (IF here # {} THEN c ELSE e)
    OBVIOUS
  <2>1. next \in 0 .. a - 1
    BY <1>10, <1>11, Zenon
  <2> HIDE DEF next
  <2>2. Chain(heap)[next] = next /\ PageOf(heap, next) = heap.pages[next]
    BY <1>1, <2>1, Zenon
  <2>3. QED
    BY <1>9, <2>2, Zenon
<1>13. due # INVALID_ROWID => /\ due \in Visible(heap) /\ Before(cursor, due)
                              /\ due[1] \in 0 .. a - 1 /\ due[2] \in Nat /\ due[2] > 0
  <2> SUFFICES ASSUME due # INVALID_ROWID
               PROVE  /\ due \in Visible(heap) /\ Before(cursor, due)
                      /\ due[1] \in 0 .. a - 1 /\ due[2] \in Nat /\ due[2] > 0
    OBVIOUS
  <2>1. due \in Visible(heap) /\ Before(cursor, due)
    BY Zenon DEF Scan
  <2>2. due \in Occupied(heap)
    BY <2>1, OccupiedOf
  <2>3. due[1] \in 0 .. a - 1 /\ due \in Rid
    BY <2>2, OccupiedPage, Zenon
  <2>4. due[2] \in SlotNum
    BY <2>3, OccupiedOf, Zenon
  <2>5. due[2] \in Nat /\ due[2] > 0
    BY <2>4 DEF SlotNum
  <2>6. QED
    BY <2>1, <2>3, <2>5
<1>14. due' = IF due = cursor' THEN INVALID_ROWID ELSE due
  BY <1>2, Zenon DEF NotDue
<1>15. ASSUME cursor' \in Rid, cursor'[1] < a,
              due # INVALID_ROWID => cursor' = due \/ Before(cursor', due)
       PROVE  HeapInv'
  <2>1. Scan'
    <3>1. (cursor' \in Rid \union {INVALID_ROWID}) /\ cursor' # INVALID_ROWID
      BY <1>15, NoRow, Zenon
    <3>2. cursor'[1] < heap'.allocated
      BY <1>2, <1>15, Zenon
    <3>3. ASSUME due' # INVALID_ROWID
          PROVE  due' \in Visible(heap') /\ Before(cursor', due')
      BY <1>2, <1>13, <1>14, <1>15, <3>3, Zenon
    <3>4. QED
      BY <3>1, <3>2, <3>3 DEF Scan
  <2>2. QED
    BY <1>2, <2>1 DEF HeapInv
<1>16. CASE here # {}
  <2>1. /\ c \in Rid /\ c[1] = n
        /\ \A id \in Visible(heap) : id[1] = n /\ id[2] > i => c = id \/ Before(c, id)
    BY <1>4, <1>16, FirstLive, Zenon
  <2>2. cursor' = c
    BY <1>9, <1>16, Zenon
  <2> HIDE DEF c
  <2>3. ASSUME due # INVALID_ROWID PROVE c = due \/ Before(c, due)
    <3>1. n < due[1] \/ (n = due[1] /\ i < due[2])
      BY <1>13, <2>3, Zenon DEF Before
    <3>2. CASE n < due[1]
      <4>1. c[1] < due[1]
        BY <2>1, <3>2, Zenon
      <4>2. QED
        BY <4>1, BeforePage, Zenon
    <3>3. CASE n = due[1] /\ i < due[2]
      <4> HIDE DEF i, n
      <4>1. due[2] > i
        BY <1>4, <1>13, <2>3, <3>3
      <4>2. QED
        BY <1>13, <2>1, <2>3, <3>3, <4>1, Zenon
    <3>4. QED
      BY <3>1, <3>2, <3>3
  <2>4. QED
    BY <1>3, <1>15, <2>1, <2>2, <2>3, Zenon
<1>17. ASSUME here = {}, due # INVALID_ROWID PROVE due[1] \in later
  <2>1. n < due[1] \/ (n = due[1] /\ i < due[2])
    BY <1>13, <1>17, Zenon DEF Before
  <2>2. due = <<due[1], due[2]>>
    BY <1>13, <1>17, OccupiedOf, Zenon
  <2>3. \A m \in 0 .. a - 1, j \in Nat :
          \A x : x \in LiveAfter(heap.pages[m], j) <=> x \in Nat /\ x > j /\ <<m, x>> \in Visible(heap)
    BY LiveRows, Zenon
  <2> HIDE DEF n, i
  <2>4. CASE n = due[1] /\ i < due[2]
    <3>1. due[2] > i
      BY <1>4, <1>13, <1>17, <2>4
    <3>2. due[2] \in LiveAfter(heap.pages[n], i)
      BY <1>4, <1>13, <1>17, <2>2, <2>3, <2>4, <3>1, Zenon
    <3>3. QED
      BY <1>17, <3>2, Zenon
  <2>5. CASE n < due[1]
    <3>1. due[1] > n
      BY <1>4, <1>13, <1>17, <2>5
    <3>2. 0 \in Nat
      OBVIOUS
    <3>3. due[2] \in LiveAfter(heap.pages[due[1]], 0)
      BY <1>13, <1>17, <2>2, <2>3, <3>2, ZenonT(60)
    <3>4. QED
      BY <1>10, <1>13, <1>17, <3>1, <3>3, Zenon
  <2>6. QED
    BY <2>1, <2>4, <2>5
<1>18. CASE here = {} /\ later = {}
  <2>1. cursor' = INVALID_ROWID
    BY <1>9, <1>18, Zenon
  <2>2. due = INVALID_ROWID
    BY <1>17, <1>18, Zenon
  <2>3. due' = INVALID_ROWID
    BY <1>14, <2>2, Zenon
  <2>4. QED
    BY <1>2, <2>1, <2>3 DEF HeapInv, Scan
<1>19. CASE here = {} /\ later # {}
  <2>1. cursor' = e
    BY <1>12, <1>19, Zenon
  <2>2. next \in 0 .. a - 1 /\ LiveAfter(heap.pages[next], 0) # {} /\ \A m \in later : next <= m
    BY <1>10, <1>11, <1>19, Zenon
  <2>3. 0 \in Nat
    OBVIOUS
  <2> HIDE DEF next
  <2>4. /\ e \in Rid /\ e[1] = next
        /\ \A id \in Visible(heap) : id[1] = next /\ id[2] > 0 => e = id \/ Before(e, id)
    BY <2>2, <2>3, FirstLive, Zenon
  <2> HIDE DEF e
  <2>5. ASSUME due # INVALID_ROWID PROVE e = due \/ Before(e, due)
    <3>1. next <= due[1]
      BY <1>17, <1>19, <2>2, <2>5, Zenon
    <3>2. next \in Nat /\ due[1] \in Nat
      BY <1>1, <1>13, <2>2, <2>5
    <3>3. next = due[1] \/ next < due[1]
      BY <3>1, <3>2
    <3>4. CASE next = due[1]
      BY <1>13, <2>4, <2>5, <3>4, Zenon
    <3>5. CASE next < due[1]
      <4>1. e[1] < due[1]
        BY <2>4, <3>5, Zenon
      <4>2. QED
        BY <4>1, BeforePage, Zenon
    <3>6. QED
      BY <3>3, <3>4, <3>5
  <2>6. e[1] < a
    <3>1. next < a
      BY <1>1, <2>2
    <3>2. QED
      BY <2>4, <3>1, Zenon
  <2>7. QED
    BY <1>15, <2>1, <2>4, <2>5, <2>6, Zenon
<1>20. QED
  BY <1>16, <1>18, <1>19

-----------------------------------------------------------------------------
\* The invariant holds at first.
LEMMA InitHeapInv == Init => HeapInv
<1> SUFFICES ASSUME Init PROVE HeapInv
  OBVIOUS
<1> DEFINE page == NewTablePage(INVALID_PAGE_ID)
           empty == [p \in PageId |-> page]
<1>1. heap = [first_page_id_ |-> 0, allocated |-> 1, pages |-> empty]
  BY DEF Init, NewHeap
<1>2. PageOK(page) /\ page.slots = <<>> /\ page.prev = -1 /\ page.next = INVALID_PAGE_ID
  BY NewPageOK DEF INVALID_PAGE_ID
<1>3. DOMAIN empty = PageId /\ \A n \in PageId : empty[n] = page
  OBVIOUS
<1> HIDE DEF page
<1>4. empty = [n \in PageId |-> empty[n]]
  BY <1>3
<1> HIDE DEF empty
<1>5. /\ heap.first_page_id_ = 0 /\ heap.allocated = 1 /\ heap.pages = empty
      /\ heap = [first_page_id_ |-> heap.first_page_id_, allocated |-> heap.allocated,
                 pages |-> heap.pages]
  BY <1>1
<1>6. heap.allocated \in 1 .. MaxPages
  BY <1>5
<1>7. \A n \in 0 .. heap.allocated - 1 :
        /\ heap.pages[n].next = IF n = heap.allocated - 1 THEN INVALID_PAGE_ID ELSE n + 1
        /\ heap.pages[n].prev = n - 1
  <2>1. 0 \in PageId
    BY DEF PageId
  <2>2. heap.pages[0].next = INVALID_PAGE_ID /\ heap.pages[0].prev = -1
    BY <1>2, <1>3, <1>5, <2>1
  <2>3. \A n \in 0 .. heap.allocated - 1 : n = 0 /\ n = heap.allocated - 1
    BY <1>5
  <2>4. -1 = 0 - 1
    OBVIOUS
  <2>5. QED
    BY <2>2, <2>3, <2>4
<1>8. \A n \in PageId : heap.pages[n].slots = <<>> /\ PageOK(heap.pages[n])
  BY <1>2, <1>3, <1>5, Zenon
<1>9. Links(heap)
  BY <1>3, <1>4, <1>5, <1>6, <1>7, <1>8, Zenon DEF Links
<1>10. HeapOK(heap)
  BY <1>8, <1>9, Zenon DEF HeapOK
<1>11. QED
  BY <1>10 DEF HeapInv, Scan, Init

\* A change of the heap under a scan.
LEMMA KeepScan ==
  ASSUME HeapInv, HeapOK(heap'), heap'.allocated \in {heap.allocated, heap.allocated + 1},
         cursor' = cursor, due' # INVALID_ROWID => due' = due /\ due \in Visible(heap')
  PROVE  HeapInv'
<1>1. heap.allocated \in Nat
  <2>1. heap.allocated \in 1 .. MaxPages
    BY Zenon DEF HeapInv, HeapOK, Links
  <2>2. QED
    BY <2>1
<1>2. ASSUME cursor # INVALID_ROWID PROVE cursor[1] < heap'.allocated
  <2>1. cursor[1] < heap.allocated /\ cursor \in Rid
    BY <1>2, Zenon DEF HeapInv, Scan
  <2>2. cursor[1] \in PageId
    BY <2>1, OccupiedOf, Zenon
  <2>3. cursor[1] \in Nat
    BY <2>2 DEF PageId
  <2>4. QED
    BY <1>1, <2>1, <2>3
<1>3. Scan'
  BY <1>2, Zenon DEF HeapInv, Scan
<1>4. QED
  BY <1>3 DEF HeapInv

\* A row that is not touched stays visible.
LEMMA StillDue ==
  ASSUME HeapInv, NEW S, NEW g, SameIn(heap, g, S), due # INVALID_ROWID, due \in S
  PROVE  due \in Visible(g)
BY Zenon DEF HeapInv, Scan, SameIn

\* A row a scan has still to come to is in the table.
LEMMA DueOccupied == HeapInv /\ due # INVALID_ROWID => due \in Occupied(heap)
<1>1. Visible(heap) \subseteq Occupied(heap)
  BY OccupiedOf
<1>2. QED
  BY <1>1, Zenon DEF HeapInv, Scan

\* It stays visible when another row is changed.
LEMMA DueElsewhere ==
  ASSUME HeapInv, NEW id, NEW g, SameIn(heap, g, Occupied(heap) \ {id}),
         due # INVALID_ROWID, due # id
  PROVE  due \in Visible(g)
<1>1. due \in Occupied(heap) \ {id}
  BY DueOccupied, Zenon
<1>2. QED
  BY <1>1, StillDue, Zenon

\* What HeapInsertTuple and HeapUpdateTuple do to the rows.
LEMMA InsertEffect ==
  ASSUME HeapOK(heap), NEW r \in Row, HeapInsertTuple(r)
  PROVE  /\ HeapOK(heap') /\ heap'.allocated \in {heap.allocated, heap.allocated + 1}
         /\ \/ ~FitsPage(r) /\ SameRows(heap, heap')
            \/ \E id : Added(heap, heap', id, r)
<1>1. MayInsert(heap, r) /\ heap' = AfterInsert(heap, r)
  BY DEF HeapInsertTuple
<1>2. /\ HeapOK(heap') /\ heap'.allocated \in {heap.allocated, heap.allocated + 1}
      /\ \/ ~FitsPage(r) /\ SameRows(heap, heap')
         \/ \E id : /\ Added(heap, heap', id, r)
                    /\ id[1] = heap.allocated \/ HasRoom(heap.pages[id[1]], r)
  BY <1>1, InsertHeap, Zenon
<1>3. QED
  BY <1>2, Zenon

\* An update rewrites the row in place or moves it.
LEMMA UpdateEffect ==
  ASSUME HeapOK(heap), NEW id \in Occupied(heap), NEW r \in Row, HeapUpdateTuple(id, r)
  PROVE  /\ id \in Visible(heap) /\ cursor' = cursor
         /\ \/ due' = due /\ Rewritten(heap, heap', id, r)
            \/ NotDue(id) /\ \E d : Relocated(heap, d, heap', id, r)
<1> DEFINE result == UpdateResult(heap.pages[id[1]], id[2], r)
           m == WithPage(heap, id[1], MarkDelete(heap.pages[id[1]], id[2]))
           d == AfterDelete(m, id)
<1>1. \/ /\ result = 1
         /\ heap' = WithPage(heap, id[1], UpdateTuple(heap.pages[id[1]], id[2], r))
         /\ cursor' = cursor /\ due' = due
      \/ /\ result = 0 /\ MayInsert(d, r) /\ heap' = AfterInsert(d, r)
         /\ NotDue(id) /\ cursor' = cursor
  BY DEF HeapUpdateTuple, WithPage
<1>2. CASE /\ result = 1
           /\ heap' = WithPage(heap, id[1], UpdateTuple(heap.pages[id[1]], id[2], r))
           /\ cursor' = cursor /\ due' = due
  <2>1. id \in Visible(heap) /\ Rewritten(heap, heap', id, r)
    BY <1>2, UpdateStep, Zenon
  <2>2. QED
    BY <1>2, <2>1, Zenon
<1>3. CASE /\ result = 0 /\ MayInsert(d, r) /\ heap' = AfterInsert(d, r)
           /\ NotDue(id) /\ cursor' = cursor
  <2>1. id \in Visible(heap) /\ Relocated(heap, d, heap', id, r)
    BY <1>3, MoveStep, Zenon
  <2> HIDE DEF d
  <2>2. QED
    BY <1>3, <2>1, Zenon
<1>4. QED
  BY <1>1, <1>2, <1>3

\* The operations on rows preserve the invariant.
LEMMA ChangingHeapInv == HeapInv /\ Changing => HeapInv'
<1> SUFFICES ASSUME HeapInv, Changing PROVE HeapInv'
  OBVIOUS
<1>0. HeapOK(heap)
  BY DEF HeapInv
<1>1. ASSUME NEW r \in Row, HeapInsertTuple(r) PROVE HeapInv'
  <2>1. cursor' = cursor /\ due' = due
    BY <1>1 DEF HeapInsertTuple
  <2>2. /\ HeapOK(heap') /\ heap'.allocated \in {heap.allocated, heap.allocated + 1}
        /\ \/ ~FitsPage(r) /\ SameRows(heap, heap')
           \/ \E id : Added(heap, heap', id, r)
    BY <1>0, <1>1, InsertEffect, Zenon
  <2>3. SameIn(heap, heap', Occupied(heap))
    BY <2>2, Zenon DEF Added, SameRows
  <2>4. due # INVALID_ROWID => due \in Visible(heap')
    BY <2>3, StillDue, DueOccupied, Zenon
  <2>5. QED
    BY <2>1, <2>2, <2>4, KeepScan, Zenon
<1>2. ASSUME NEW id \in Occupied(heap), SameIn(heap, heap', Occupied(heap) \ {id}), NotDue(id)
      PROVE  due' # INVALID_ROWID => due' = due /\ due \in Visible(heap')
  <2>1. due' = IF due = id THEN INVALID_ROWID ELSE due
    BY <1>2, Zenon DEF NotDue
  <2>2. ASSUME due # INVALID_ROWID, due # id PROVE due \in Visible(heap')
    BY <1>2, <2>2, DueElsewhere, Zenon
  <2>3. QED
    BY <2>1, <2>2, Zenon
<1>3. ASSUME NEW id \in Occupied(heap), HeapMarkDelete(id) PROVE HeapInv'
  <2>1. /\ heap' = WithPage(heap, id[1], MarkDelete(heap.pages[id[1]], id[2]))
        /\ NotDue(id) /\ cursor' = cursor
    BY <1>3 DEF HeapMarkDelete, WithPage
  <2>2. /\ HeapOK(heap') /\ heap'.allocated = heap.allocated
        /\ SameIn(heap, heap', Occupied(heap) \ {id})
    BY <1>0, <2>1, MarkStep, Zenon
  <2>3. QED
    BY <1>2, <2>1, <2>2, KeepScan, Zenon
<1>4. ASSUME NEW id \in Occupied(heap), HeapRollbackDelete(id) PROVE HeapInv'
  <2>1. /\ heap' = WithPage(heap, id[1], RollbackDelete(heap.pages[id[1]], id[2]))
        /\ due' = due /\ cursor' = cursor
    BY <1>4 DEF HeapRollbackDelete, WithPage
  <2>2. /\ HeapOK(heap') /\ heap'.allocated = heap.allocated /\ id \in Visible(heap')
        /\ SameIn(heap, heap', Occupied(heap) \ {id})
    BY <1>0, <2>1, RollbackStep, Zenon
  <2>3. due # INVALID_ROWID => due \in Visible(heap')
    BY <2>2, DueElsewhere, Zenon
  <2>4. QED
    BY <2>1, <2>2, <2>3, KeepScan, Zenon
<1>5. ASSUME NEW id \in Occupied(heap), HeapApplyDelete(id) PROVE HeapInv'
  <2>1. heap' = AfterDelete(heap, id) /\ NotDue(id) /\ cursor' = cursor
    BY <1>5 DEF HeapApplyDelete
  <2>2. /\ HeapOK(heap') /\ heap'.allocated = heap.allocated
        /\ SameIn(heap, heap', Occupied(heap) \ {id})
    BY <1>0, <2>1, DeleteHeap, Zenon
  <2>3. QED
    BY <1>2, <2>1, <2>2, KeepScan, Zenon
<1>6. ASSUME NEW id \in Occupied(heap), NEW r \in Row, HeapUpdateTuple(id, r) PROVE HeapInv'
  <2>1. /\ cursor' = cursor
        /\ \/ due' = due /\ Rewritten(heap, heap', id, r)
           \/ NotDue(id) /\ \E d : Relocated(heap, d, heap', id, r)
    BY <1>0, <1>6, UpdateEffect, Zenon
  <2>2. CASE due' = due /\ Rewritten(heap, heap', id, r)
    <3>1. /\ HeapOK(heap') /\ heap'.allocated = heap.allocated
          /\ id \in Visible(heap) => id \in Visible(heap')
          /\ SameIn(heap, heap', Occupied(heap) \ {id})
      BY <2>2, Zenon DEF Rewritten
    <3>2. due # INVALID_ROWID => due \in Visible(heap')
      BY <3>1, DueElsewhere, Zenon DEF HeapInv, Scan
    <3>3. QED
      BY <2>1, <2>2, <3>1, <3>2, KeepScan, Zenon
  <2>3. CASE NotDue(id) /\ \E d : Relocated(heap, d, heap', id, r)
    <3>1. PICK d : Relocated(heap, d, heap', id, r)
      BY <2>3, Zenon
    <3>2. /\ HeapOK(heap') /\ heap'.allocated \in {heap.allocated, heap.allocated + 1}
          /\ Occupied(d) = Occupied(heap) \ {id} /\ SameIn(heap, d, Occupied(d))
          /\ SameIn(d, heap', Occupied(d))
      BY <3>1, Zenon DEF Relocated, Added, SameRows
    <3>3. SameIn(heap, heap', Occupied(heap) \ {id})
      BY <3>2, Zenon DEF SameIn
    <3>4. due' # INVALID_ROWID => due' = due /\ due \in Visible(heap')
      BY <1>2, <2>3, <3>3, Zenon
    <3>5. QED
      BY <2>1, <3>2, <3>4, KeepScan, Zenon
  <2>4. QED
    BY <2>1, <2>2, <2>3, Zenon
<1>7. QED
  BY <1>1, <1>3, <1>4, <1>5, <1>6 DEF Changing

\* Every step preserves the invariant.
LEMMA NextHeapInv == HeapInv /\ [Next]_vars => HeapInv'
<1> SUFFICES ASSUME HeapInv, [Next]_vars PROVE HeapInv'
  OBVIOUS
<1>1. CASE UNCHANGED vars
  BY <1>1 DEF vars, HeapInv, Scan
<1>2. CASE Next
  BY <1>2, ChangingHeapInv, BeginScan, AdvanceScan, Zenon DEF Next
<1>3. QED
  BY <1>1, <1>2

\* The inductive invariant holds in every state, for pages, slots and rows of
\* any sizes and tables of any number of pages.
THEOREM HeapInductive == Spec => []HeapInv
<1>1. QED
  BY InitHeapInv, NextHeapInv, PTL DEF Spec

\* A scan comes to every row that was there when it began and that stayed where
\* it was: GetNextTupleRid and operator++ pass over none, whatever is inserted,
\* updated and deleted between two steps.
THEOREM ScansAreComplete == Spec => []ScanComplete
<1>1. HeapInv => ScanComplete
  BY DEF HeapInv, Scan, ScanComplete
<1>2. QED
  BY <1>1, HeapInductive, PTL

\* InsertTuple links every page it makes at the end of the chain, both ways.
THEOREM ChainStaysIntact == Spec => []ChainIntact
<1>1. HeapInv => ChainIntact
  <2> SUFFICES ASSUME HeapOK(heap) PROVE ChainIntact
    BY DEF HeapInv
  <2>1. /\ heap.allocated \in 1 .. MaxPages /\ Linked(heap) = 0 .. heap.allocated - 1
        /\ \A k \in 0 .. heap.allocated - 1 :
             Chain(heap)[k] = k /\ PageOf(heap, k) = heap.pages[k]
    BY PagesOf, Zenon
  <2>2. {Chain(heap)[k] : k \in Linked(heap)} = 0 .. heap.allocated - 1
    <3>1. {Chain(heap)[k] : k \in 0 .. heap.allocated - 1}
            = {k : k \in 0 .. heap.allocated - 1}
      BY <2>1
    <3>2. QED
      BY <2>1, <3>1
  <2>3. \A n \in 0 .. heap.allocated - 1 : heap.pages[n].prev = n - 1
    BY Zenon DEF HeapOK, Links
  <2>4. ASSUME NEW k \in 0 .. heap.allocated - 1
        PROVE  PageOf(heap, k).prev = IF k = 0 THEN INVALID_PAGE_ID ELSE Chain(heap)[k - 1]
    <3>1. PageOf(heap, k).prev = k - 1
      BY <2>1, <2>3, Zenon
    <3>2. CASE k = 0
      BY <3>1, <3>2 DEF INVALID_PAGE_ID
    <3>3. CASE k # 0
      <4>1. k - 1 \in 0 .. heap.allocated - 1
        BY <2>1, <3>3
      <4>2. QED
        BY <2>1, <3>1, <3>3, <4>1, Zenon
    <3>4. QED
      BY <3>2, <3>3
  <2>5. QED
    BY <2>1, <2>2, <2>4, Zenon DEF ChainIntact
<1>2. QED
  BY <1>1, HeapInductive, PTL

\* The rows of a page fill it from the free space pointer to its end, each byte
\* being of one row.
LEMMA BytesCovered ==
  ASSUME NEW p, PageOK(p)
  PROVE  LET used == {i \in DOMAIN p.slots : p.slots[i].size # 0}
         IN  /\ p.free >= SIZE_TABLE_PAGE_HEADER + SIZE_TUPLE * Len(p.slots)
             /\ \A x \in p.free .. PAGE_SIZE - 1 :
                  \E i \in used :
                    /\ x \in p.slots[i].offset .. p.slots[i].offset + p.slots[i].size - 1
                    /\ \A j \in used \ {i} :
                         x \notin p.slots[j].offset .. p.slots[j].offset + p.slots[j].size - 1
             /\ \A i \in used : /\ p.slots[i].offset >= p.free
                                /\ p.slots[i].offset + p.slots[i].size <= PAGE_SIZE
<1> DEFINE U == Used(p)
           off(i) == p.slots[i].offset
           sz(i) == p.slots[i].size
<1>1. IsPage(p) /\ Tiled(p) /\ SlotsFit(p) /\ U = {i \in DOMAIN p.slots : p.slots[i].size # 0}
  BY DEF PageOK, Used
<1>2. p.free \in Nat /\ p.free <= PAGE_SIZE /\ Len(p.slots) \in Nat
  BY <1>1, SlotsOfPage
<1>3. \A i \in U : off(i) \in Nat /\ sz(i) \in Nat
  <2>1. \A i \in DOMAIN p.slots : off(i) \in 0 .. PAGE_SIZE /\ sz(i) \in Nat
    BY <1>1, SlotsOfPage, Zenon
  <2>2. \A y \in 0 .. PAGE_SIZE : y \in Nat
    OBVIOUS
  <2>3. QED
    BY <2>1, <2>2, Zenon DEF Used
<1>4. p.free >= SIZE_TABLE_PAGE_HEADER + SIZE_TUPLE * Len(p.slots)
  <2> DEFINE t == SIZE_TUPLE * Len(p.slots)
  <2>1. t \in Nat
    BY <1>2, Times
  <2>2. SIZE_TABLE_PAGE_HEADER + t <= p.free
    BY <1>1, Zenon DEF SlotsFit
  <2> HIDE DEF t
  <2>3. p.free >= SIZE_TABLE_PAGE_HEADER + t
    BY <1>2, <2>1, <2>2
  <2>4. QED
    BY <2>3 DEF t
<1>5. /\ \A i \in U : p.free <= off(i) /\ off(i) + sz(i) <= PAGE_SIZE
      /\ \A i, j \in U : i = j \/ off(i) + sz(i) <= off(j) \/ off(j) + sz(j) <= off(i)
      /\ \A x \in p.free .. PAGE_SIZE - 1 : \E i \in U : off(i) <= x /\ x < off(i) + sz(i)
  BY <1>1, Zenon DEF Tiled, End
<1> HIDE DEF U, off, sz
<1>6. ASSUME NEW x \in p.free .. PAGE_SIZE - 1
      PROVE  \E i \in U : /\ x \in off(i) .. off(i) + sz(i) - 1
                          /\ \A j \in U \ {i} : x \notin off(j) .. off(j) + sz(j) - 1
  <2>1. PICK i \in U : off(i) <= x /\ x < off(i) + sz(i)
    BY <1>5, Zenon
  <2>2. x \in Int /\ off(i) \in Nat /\ sz(i) \in Nat
    BY <1>2, <1>3
  <2>3. x \in off(i) .. off(i) + sz(i) - 1
    BY <2>1, <2>2
  <2>4. ASSUME NEW j \in U \ {i} PROVE x \notin off(j) .. off(j) + sz(j) - 1
    <3>1. off(i) + sz(i) <= off(j) \/ off(j) + sz(j) <= off(i)
      BY <1>5, Zenon
    <3>2. off(j) \in Nat /\ sz(j) \in Nat
      BY <1>3
    <3>3. QED
      BY <2>1, <2>2, <3>1, <3>2
  <2>5. QED
    BY <2>3, <2>4, Zenon
<1>7. \A i \in U : off(i) >= p.free /\ off(i) + sz(i) <= PAGE_SIZE
  BY <1>2, <1>3, <1>5
<1>8. QED
  BY <1>1, <1>4, <1>6, <1>7, Zenon DEF off, sz

\* The invariant implies the types.
LEMMA HeapTypes == HeapInv => TypeOK
<1> SUFFICES ASSUME HeapInv PROVE TypeOK
  OBVIOUS
<1>1. HeapOK(heap)
  BY DEF HeapInv
<1>2. heap.first_page_id_ = 0 /\ heap.allocated \in 1 .. MaxPages
  BY <1>1, PagesOf, Zenon
<1>3. heap.first_page_id_ \in PageId
  BY <1>2 DEF PageId
<1>4. ASSUME NEW p \in PageId
      PROVE  /\ heap.pages[p].free \in 0 .. PAGE_SIZE
             /\ DOMAIN heap.pages[p].slots \subseteq SlotNum
             /\ \A i \in DOMAIN heap.pages[p].slots : heap.pages[p].slots[i] \in Slot
  <2>1. PageOK(heap.pages[p])
    BY <1>1, Zenon DEF HeapOK
  <2>2. IsPage(heap.pages[p])
    BY <2>1, Zenon DEF PageOK
  <2>3. heap.pages[p].free \in 0 .. PAGE_SIZE
    BY <2>2, Zenon DEF IsPage
  <2>4. QED
    BY <2>1, <2>2, <2>3, SlotNumbers, SlotsOfPage, Zenon
<1>5. cursor \in Rid \union {INVALID_ROWID}
  BY DEF HeapInv, Scan
<1>6. due \in Rid \union {INVALID_ROWID}
  <2>1. Occupied(heap) \subseteq Rid
    BY OccupiedOf
  <2>2. QED
    BY <2>1, DueOccupied, Zenon
<1>7. QED
  BY <1>2, <1>3, <1>4, <1>5, <1>6, Zenon DEF TypeOK

\* InsertTuple, ApplyDelete and UpdateTuple keep count of every byte of a page:
\* the rows lie next to each other at its end, none over another, and the slots
\* never reach them, for pages and rows of any sizes.
THEOREM SpaceStaysAccounted == Spec => []SpaceAccounted
<1>1. HeapInv => SpaceAccounted
  <2> SUFFICES ASSUME HeapInv PROVE SpaceAccounted
    OBVIOUS
  <2>1. \A n \in PageId : PageOK(heap.pages[n])
    BY Zenon DEF HeapInv, HeapOK
  <2>2. QED
    BY <2>1, BytesCovered, HeapTypes, Zenon DEF SpaceAccounted
<1>2. QED
  BY <1>1, HeapInductive, PTL

\* There are finitely many ids.
LEMMA FinitelyManyRows ==
  ASSUME NEW h
  PROVE  IsFiniteSet(Occupied(h)) /\ Cardinality(Occupied(h)) \in Nat
<1>1. IsFiniteSet(PageId)
  BY FS_Interval DEF PageId
<1>2. IsFiniteSet(SlotNum)
  <2> DEFINE c == (PAGE_SIZE - SIZE_TABLE_PAGE_HEADER) \div (SIZE_TUPLE + 1)
  <2>1. PAGE_SIZE - SIZE_TABLE_PAGE_HEADER \in Nat /\ SIZE_TUPLE + 1 \in Nat \ {0}
    OBVIOUS
  <2>2. c \in Nat
    BY <2>1, Division
  <2> HIDE DEF c
  <2>3. 1 \in Int /\ c \in Int
    BY <2>2
  <2>4. IsFiniteSet(1 .. c)
    BY <2>3, FS_Interval, Zenon
  <2>5. QED
    BY <2>4, Zenon DEF SlotNum, c
<1>3. IsFiniteSet(Rid)
  BY <1>1, <1>2, FS_Product, Zenon DEF Rid
<1>4. Occupied(h) \in SUBSET Rid
  BY OccupiedOf
<1>5. QED
  BY <1>3, <1>4, FS_Subset, FS_CardinalityType, Zenon

\* An insertion makes one row more.
LEMMA AddedCount ==
  ASSUME NEW h, NEW g, NEW id, NEW r, Added(h, g, id, r)
  PROVE  Rows(g) = Rows(h) + 1
<1>1. Occupied(g) = Occupied(h) \union {id} /\ id \notin Occupied(h)
  BY DEF Added
<1>2. IsFiniteSet(Occupied(h))
  BY FinitelyManyRows
<1>3. Cardinality(Occupied(h) \union {id}) = Cardinality(Occupied(h)) + 1
  BY <1>1, <1>2, FS_AddElement
<1>4. QED
  BY <1>1, <1>3, Zenon DEF Rows

\* A row that moves is counted once.
LEMMA RelocatedCount ==
  ASSUME NEW h, NEW d, NEW g, NEW id \in Occupied(h), NEW r, FitsPage(r),
         Relocated(h, d, g, id, r)
  PROVE  Rows(g) = Rows(h)
<1>1. Occupied(d) = Occupied(h) \ {id}
  BY DEF Relocated
<1>2. IsFiniteSet(Occupied(h)) /\ Cardinality(Occupied(h)) \in Nat
  BY FinitelyManyRows
<1>3. Cardinality(Occupied(h) \ {id}) = Cardinality(Occupied(h)) - 1
  BY <1>2, FS_RemoveElement
<1>4. Rows(d) = Rows(h) - 1
  BY <1>1, <1>3, Zenon DEF Rows
<1>5. PICK new : Added(d, g, new, r)
  BY Zenon DEF Relocated
<1>6. Rows(g) = Rows(d) + 1
  BY <1>5, AddedCount, Zenon
<1>7. Rows(h) \in Nat
  BY <1>2, Zenon DEF Rows
<1>8. QED
  BY <1>4, <1>6, <1>7

\* No row that fits into a page is lost, neither by an insertion nor by an
\* update that has to delete it in its page and insert it elsewhere: although
\* what that insertion returns is not looked at, it succeeds.
THEOREM RowsAreNotLost == Spec => NoRowLost
<1>1. ASSUME HeapInv
      PROVE  [\A r \in {row \in Row : FitsPage(row)} :
                /\ HeapInsertTuple(r) => Rows(heap') = Rows(heap) + 1
                /\ \A id \in Occupied(heap) :
                     HeapUpdateTuple(id, r) => Rows(heap') = Rows(heap)]_vars
  <2>1. HeapOK(heap)
    BY <1>1 DEF HeapInv
  <2>2. SUFFICES ASSUME NEW r \in Row, FitsPage(r)
                 PROVE  /\ HeapInsertTuple(r) => Rows(heap') = Rows(heap) + 1
                        /\ \A id \in Occupied(heap) :
                             HeapUpdateTuple(id, r) => Rows(heap') = Rows(heap)
    OBVIOUS
  <2>3. ASSUME HeapInsertTuple(r) PROVE Rows(heap') = Rows(heap) + 1
    <3>1. PICK id : Added(heap, heap', id, r)
      BY <2>1, <2>2, <2>3, InsertEffect, Zenon
    <3>2. QED
      BY <3>1, AddedCount, Zenon
  <2>4. ASSUME NEW id \in Occupied(heap), HeapUpdateTuple(id, r) PROVE Rows(heap') = Rows(heap)
    <3>1. \/ Rewritten(heap, heap', id, r)
          \/ \E d : Relocated(heap, d, heap', id, r)
      BY <2>1, <2>4, UpdateEffect, Zenon
    <3>2. CASE Rewritten(heap, heap', id, r)
      BY <3>2, Zenon DEF Rewritten, Rows
    <3>3. CASE \E d : Relocated(heap, d, heap', id, r)
      BY <2>2, <3>3, RelocatedCount, Zenon
    <3>4. QED
      BY <3>1, <3>2, <3>3, Zenon
  <2>5. QED
    BY <2>3, <2>4, Zenon
<1>2. QED
  BY <1>1, HeapInductive, PTL DEF NoRowLost

-----------------------------------------------------------------------------
\* The rows of a heap and its marks, as the table sees them.
RowsOf(h) == [id \in Occupied(h) |-> RowAt(h, id)]
MarksOf(h) == Occupied(h) \ Visible(h)

Put(f, id, r) == [x \in DOMAIN f \union {id} |-> IF x = id THEN r ELSE f[x]]
Without(f, id) == [x \in DOMAIN f \ {id} |-> f[x]]

StoredRows == [id \in Occupied(heap) |-> Stored(id)]
MarkedRows == Occupied(heap) \ Visible(heap)

\* The refinement mapping, as functions of the heap.
LEMMA RowsAndMarks ==
  /\ StoredRows = RowsOf(heap) /\ StoredRows' = RowsOf(heap')
  /\ MarkedRows = MarksOf(heap) /\ MarkedRows' = MarksOf(heap')
<1>1. \A id : Stored(id) = RowAt(heap, id)
  BY Zenon DEF Stored, RowAt, Read, SlotOf
<1>2. \A id : Stored(id)' = RowAt(heap', id)
  BY Zenon DEF Stored, RowAt, Read, SlotOf
<1>3. StoredRows = RowsOf(heap)
  BY <1>1 DEF StoredRows, RowsOf
<1>4. StoredRows' = RowsOf(heap')
  BY <1>2 DEF StoredRows, RowsOf
<1>5. QED
  BY <1>3, <1>4 DEF MarkedRows, MarksOf

\* The operations, as the table sees them.
LEMMA RowsAdded ==
  ASSUME NEW h, NEW g, NEW id, NEW r, Added(h, g, id, r)
  PROVE  RowsOf(g) = Put(RowsOf(h), id, r) /\ MarksOf(g) = MarksOf(h)
<1>1. /\ id \notin Occupied(h) /\ Occupied(g) = Occupied(h) \union {id}
      /\ RowAt(g, id) = r /\ id \in Visible(g)
      /\ \A x \in Occupied(h) : RowAt(g, x) = RowAt(h, x) /\ (x \in Visible(g) <=> x \in Visible(h))
  BY Zenon DEF Added, SameIn
<1>2. RowsOf(g) = Put(RowsOf(h), id, r)
  BY <1>1 DEF RowsOf, Put
<1>3. MarksOf(g) = MarksOf(h)
  BY <1>1 DEF MarksOf
<1>4. QED
  BY <1>2, <1>3

\* Nothing happened to the rows.
LEMMA RowsSame ==
  ASSUME NEW h, NEW g, SameRows(h, g)
  PROVE  RowsOf(g) = RowsOf(h) /\ MarksOf(g) = MarksOf(h)
<1>1. /\ Occupied(g) = Occupied(h)
      /\ \A x \in Occupied(h) : RowAt(g, x) = RowAt(h, x) /\ (x \in Visible(g) <=> x \in Visible(h))
  BY Zenon DEF SameRows, SameIn
<1>2. RowsOf(g) = RowsOf(h)
  BY <1>1 DEF RowsOf
<1>3. MarksOf(g) = MarksOf(h)
  BY <1>1 DEF MarksOf
<1>4. QED
  BY <1>2, <1>3

\* The mark of a row was set or taken back.
LEMMA RowsRemarked ==
  ASSUME NEW h, NEW g, NEW id \in Occupied(h), Occupied(g) = Occupied(h),
         SameIn(h, g, Occupied(h) \ {id}), RowAt(g, id) = RowAt(h, id)
  PROVE  /\ RowsOf(g) = RowsOf(h)
         /\ id \notin Visible(g) => MarksOf(g) = MarksOf(h) \union {id}
         /\ id \in Visible(g) => MarksOf(g) = MarksOf(h) \ {id}
<1>1. \A x \in Occupied(h) : /\ RowAt(g, x) = RowAt(h, x)
                             /\ x # id => (x \in Visible(g) <=> x \in Visible(h))
  BY Zenon DEF SameIn
<1>2. RowsOf(g) = RowsOf(h)
  BY <1>1 DEF RowsOf
<1>3. id \notin Visible(g) => MarksOf(g) = MarksOf(h) \union {id}
  BY <1>1 DEF MarksOf
<1>4. id \in Visible(g) => MarksOf(g) = MarksOf(h) \ {id}
  BY <1>1 DEF MarksOf
<1>5. QED
  BY <1>2, <1>3, <1>4

\* A row was deleted.
LEMMA RowsDeleted ==
  ASSUME NEW h, NEW g, NEW id \in Occupied(h), Occupied(g) = Occupied(h) \ {id},
         SameIn(h, g, Occupied(g))
  PROVE  RowsOf(g) = Without(RowsOf(h), id) /\ MarksOf(g) = MarksOf(h) \ {id}
<1>1. \A x \in Occupied(g) : RowAt(g, x) = RowAt(h, x) /\ (x \in Visible(g) <=> x \in Visible(h))
  BY Zenon DEF SameIn
<1>2. RowsOf(g) = Without(RowsOf(h), id)
  BY <1>1 DEF RowsOf, Without
<1>3. MarksOf(g) = MarksOf(h) \ {id}
  BY <1>1 DEF MarksOf
<1>4. QED
  BY <1>2, <1>3

\* A row was updated in place.
LEMMA RowsRewritten ==
  ASSUME NEW h, NEW g, NEW id \in Occupied(h), NEW r, Rewritten(h, g, id, r)
  PROVE  RowsOf(g) = Put(RowsOf(h), id, r) /\ MarksOf(g) = MarksOf(h)
<1>1. /\ Occupied(g) = Occupied(h) /\ RowAt(g, id) = r
      /\ \A x \in Occupied(h) : /\ x # id => RowAt(g, x) = RowAt(h, x)
                                /\ x \in Visible(g) <=> x \in Visible(h)
  BY Zenon DEF Rewritten, SameIn
<1>2. RowsOf(g) = Put(RowsOf(h), id, r)
  BY <1>1 DEF RowsOf, Put
<1>3. MarksOf(g) = MarksOf(h)
  BY <1>1 DEF MarksOf
<1>4. QED
  BY <1>2, <1>3

\* What a change of the rows and the marks has to be to be a step of the table.
TableChange(R, M, S, N) ==
  \/ S = R /\ N = M
  \/ \E id \in DOMAIN R : \/ N = M \union {id} /\ S = R
                          \/ N = M \ {id} /\ S = R
                          \/ N = M \ {id} /\ S = Without(R, id)
  \/ \E id \in Rid \ DOMAIN R, r \in Row : N = M /\ S = Put(R, id, r)
  \/ \E id \in DOMAIN R \ M, r \in Row :
       \/ N = M /\ S = Put(R, id, r)
       \/ \E new \in Rid \ DOMAIN R : N = M /\ S = Put(Without(R, id), new, r)

\* Such a change is a step of the table, or none.
LEMMA TableChangeIsStep ==
  TableChange(StoredRows, MarkedRows, StoredRows', MarkedRows') => [T!Next]_(T!vars)
<1>1. \A f, id, r : T!Put(f, id, r) = Put(f, id, r) /\ T!Without(f, id) = Without(f, id)
  BY Zenon DEF Put, Without, T!Put, T!Without
<1>2. StoredRows' = StoredRows /\ MarkedRows' = MarkedRows => UNCHANGED T!vars
  BY DEF T!vars, StoredRows, MarkedRows
<1>3. \A id \in DOMAIN StoredRows :
        \/ MarkedRows' = MarkedRows \union {id} /\ StoredRows' = StoredRows
        \/ MarkedRows' = MarkedRows \ {id} /\ StoredRows' = StoredRows
        \/ MarkedRows' = MarkedRows \ {id} /\ StoredRows' = Without(StoredRows, id)
        => T!Next
  BY <1>1, Zenon DEF T!Next, T!Mark, T!Rollback, T!Delete, StoredRows, MarkedRows
<1>4. \A id \in Rid \ DOMAIN StoredRows, r \in Row :
        MarkedRows' = MarkedRows /\ StoredRows' = Put(StoredRows, id, r) => T!Next
  BY <1>1, Zenon DEF T!Next, T!Insert, StoredRows, MarkedRows
<1>5. \A id \in DOMAIN StoredRows \ MarkedRows, r \in Row :
        MarkedRows' = MarkedRows /\ StoredRows' = Put(StoredRows, id, r) => T!Next
  BY <1>1, Zenon DEF T!Next, T!Update, StoredRows, MarkedRows
<1>6. \A id \in DOMAIN StoredRows \ MarkedRows, r \in Row, new \in Rid \ DOMAIN StoredRows :
        MarkedRows' = MarkedRows /\ StoredRows' = Put(Without(StoredRows, id), new, r) => T!Next
  BY <1>1, Zenon DEF T!Next, T!Move, StoredRows, MarkedRows
<1>7. QED
  BY <1>2, <1>3, <1>4, <1>5, <1>6, Zenon DEF TableChange

\* Every step of the heap is a step of the table, or none.
LEMMA TableStep == HeapInv /\ [Next]_vars => [T!Next]_(T!vars)
<1> SUFFICES ASSUME HeapInv, [Next]_vars
             PROVE  TableChange(RowsOf(heap), MarksOf(heap), RowsOf(heap'), MarksOf(heap'))
  BY RowsAndMarks, TableChangeIsStep, Zenon
<1> DEFINE R == RowsOf(heap)
           M == MarksOf(heap)
           S == RowsOf(heap')
           N == MarksOf(heap')
<1>1. HeapOK(heap) /\ DOMAIN R = Occupied(heap)
  BY DEF HeapInv, RowsOf
<1> HIDE DEF R, M, S, N
<1>2. ASSUME heap' = heap PROVE TableChange(R, M, S, N)
  BY <1>2, Zenon DEF TableChange, R, M, S, N
<1>3. ASSUME NEW r \in Row, HeapInsertTuple(r) PROVE TableChange(R, M, S, N)
  <2>1. (~FitsPage(r) /\ SameRows(heap, heap')) \/ \E id : Added(heap, heap', id, r)
    BY <1>1, <1>3, InsertEffect, Zenon
  <2>2. CASE SameRows(heap, heap')
    BY <2>2, RowsSame, Zenon DEF TableChange, R, M, S, N
  <2>3. ASSUME NEW id, Added(heap, heap', id, r) PROVE TableChange(R, M, S, N)
    <3>1. S = Put(R, id, r) /\ N = M
      BY <2>3, RowsAdded, Zenon DEF R, M, S, N
    <3>2. id \in Rid \ DOMAIN R
      BY <1>1, <2>3, Zenon DEF Added
    <3>3. QED
      BY <3>1, <3>2, Zenon DEF TableChange
  <2>4. QED
    BY <2>1, <2>2, <2>3, Zenon
<1>4. ASSUME NEW id \in Occupied(heap), HeapMarkDelete(id) PROVE TableChange(R, M, S, N)
  <2>1. heap' = WithPage(heap, id[1], MarkDelete(heap.pages[id[1]], id[2]))
    BY <1>4 DEF HeapMarkDelete, WithPage
  <2>2. /\ Occupied(heap') = Occupied(heap) /\ SameIn(heap, heap', Occupied(heap) \ {id})
        /\ RowAt(heap', id) = RowAt(heap, id) /\ id \notin Visible(heap')
    BY <1>1, <2>1, MarkStep, Zenon
  <2>3. S = R /\ N = M \union {id}
    BY <2>2, RowsRemarked, Zenon DEF R, M, S, N
  <2>4. QED
    BY <1>1, <2>3, Zenon DEF TableChange
<1>5. ASSUME NEW id \in Occupied(heap), HeapRollbackDelete(id) PROVE TableChange(R, M, S, N)
  <2>1. heap' = WithPage(heap, id[1], RollbackDelete(heap.pages[id[1]], id[2]))
    BY <1>5 DEF HeapRollbackDelete, WithPage
  <2>2. /\ Occupied(heap') = Occupied(heap) /\ SameIn(heap, heap', Occupied(heap) \ {id})
        /\ RowAt(heap', id) = RowAt(heap, id) /\ id \in Visible(heap')
    BY <1>1, <2>1, RollbackStep, Zenon
  <2>3. S = R /\ N = M \ {id}
    BY <2>2, RowsRemarked, Zenon DEF R, M, S, N
  <2>4. QED
    BY <1>1, <2>3, Zenon DEF TableChange
<1>6. ASSUME NEW id \in Occupied(heap), HeapApplyDelete(id) PROVE TableChange(R, M, S, N)
  <2>1. heap' = AfterDelete(heap, id)
    BY <1>6 DEF HeapApplyDelete
  <2>2. /\ Occupied(heap') = Occupied(heap) \ {id}
        /\ SameIn(heap, heap', Occupied(heap) \ {id})
    BY <1>1, <2>1, DeleteHeap, Zenon
  <2>3. S = Without(R, id) /\ N = M \ {id}
    <3>1. SameIn(heap, heap', Occupied(heap'))
      BY <2>2, Zenon
    <3>2. QED
      BY <2>2, <3>1, RowsDeleted, Zenon DEF R, M, S, N
  <2>4. QED
    BY <1>1, <2>3, Zenon DEF TableChange
<1>7. ASSUME NEW id \in Occupied(heap), NEW r \in Row, HeapUpdateTuple(id, r)
      PROVE  TableChange(R, M, S, N)
  <2>1. /\ id \in Visible(heap)
        /\ \/ Rewritten(heap, heap', id, r)
           \/ \E d : Relocated(heap, d, heap', id, r)
    BY <1>1, <1>7, UpdateEffect, Zenon
  <2>2. id \in DOMAIN R \ M
    BY <1>1, <2>1, Zenon DEF M, MarksOf
  <2>3. CASE Rewritten(heap, heap', id, r)
    <3>1. S = Put(R, id, r) /\ N = M
      BY <2>3, RowsRewritten, Zenon DEF R, M, S, N
    <3>2. QED
      BY <2>2, <3>1, Zenon DEF TableChange
  <2>4. ASSUME NEW d, Relocated(heap, d, heap', id, r) PROVE TableChange(R, M, S, N)
    <3>1. /\ Occupied(d) = Occupied(heap) \ {id} /\ SameIn(heap, d, Occupied(d))
          /\ \/ SameRows(d, heap')
             \/ \E new : Added(d, heap', new, r) /\ new # id
      BY <2>4, Zenon DEF Relocated
    <3>2. RowsOf(d) = Without(R, id) /\ MarksOf(d) = M \ {id}
      BY <3>1, RowsDeleted, Zenon DEF R, M
    <3>3. M \ {id} = M
      BY <2>2
    <3>4. CASE SameRows(d, heap')
      <4>1. S = Without(R, id) /\ N = M \ {id}
        BY <3>2, <3>4, RowsSame, Zenon DEF S, N
      <4>2. QED
        BY <1>1, <4>1, Zenon DEF TableChange
    <3>5. ASSUME NEW new, Added(d, heap', new, r), new # id PROVE TableChange(R, M, S, N)
      <4>1. S = Put(Without(R, id), new, r) /\ N = M
        <5>1. S = Put(RowsOf(d), new, r) /\ N = MarksOf(d)
          BY <3>5, RowsAdded, Zenon DEF S, N
        <5>2. QED
          BY <3>2, <3>3, <5>1
      <4>2. new \in Rid \ DOMAIN R
        BY <1>1, <3>1, <3>5 DEF Added
      <4>3. QED
        BY <2>2, <4>1, <4>2, Zenon DEF TableChange
    <3>6. QED
      BY <3>1, <3>4, <3>5, Zenon
  <2>5. QED
    BY <2>1, <2>3, <2>4, Zenon
<1>8. ASSUME Begin \/ Advance \/ UNCHANGED vars PROVE TableChange(R, M, S, N)
  <2>1. heap' = heap
    BY <1>8 DEF Begin, Advance, vars
  <2>2. QED
    BY <1>2, <2>1
<1>9. TableChange(R, M, S, N)
  BY <1>3, <1>4, <1>5, <1>6, <1>7, <1>8, Zenon DEF Next, Changing
<1>10. QED
  BY <1>9, Zenon DEF R, M, S, N

\* The table heap is a table: a row reads, byte for byte, as it was last
\* written under the id it was given, whatever is inserted, moved and deleted
\* around it, and each operation changes the row it is about and no other.
THEOREM HeapImplementsTable == Spec => ImplementsTable
<1>1. Init => T!Init
  <2> SUFFICES ASSUME Init PROVE T!Init
    OBVIOUS
  <2>1. \A n \in PageId : heap.pages[n].slots = <<>>
    BY NewPageOK DEF Init, NewHeap
  <2>2. \A n \in PageId : Used(heap.pages[n]) = {}
    BY <2>1 DEF Used
  <2>3. Occupied(heap) = {}
    BY <2>2, OccupiedOf, Zenon
  <2>4. QED
    BY <2>3 DEF T!Init
<1>2. HeapInv /\ [Next]_vars => [T!Next]_(T!vars)
  BY TableStep
<1>3. QED
  BY HeapInductive, <1>1, <1>2, PTL DEF Spec, ImplementsTable, T!Spec

=============================================================================
