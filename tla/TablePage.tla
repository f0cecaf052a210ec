----------------------------- MODULE TablePage -----------------------------
(***************************************************************************)
(* The slotted page of a table:                                            *)
(*                                                                         *)
(*   | header | slot 1 | slot 2 | ... free space ... | row | row | row |   *)
(*                                                   ^ free                *)
(*                                                                         *)
(* Rows are stored from the end of the page towards its front, without     *)
(* gaps: a deletion and an update move the bytes of the rows in front, and *)
(* adjust their offsets in the slots.  A byte of a row is the row and its  *)
(* place in it, so that a row can be read back only from where its bytes   *)
(* are, all of them and in order.  Slots are counted from 1.               *)
(***************************************************************************)
EXTENDS Integers, Sequences

CONSTANTS
  PAGE_SIZE,
  SIZE_TABLE_PAGE_HEADER,
  SIZE_TUPLE,   \* the bytes of a slot
  WordSize,     \* 2^32 in the code: the sizes are uint32_t
  Size,         \* the serialized sizes of rows
  Tag           \* what tells rows of one size apart

ASSUME PageSizeAssumption ==
  /\ SIZE_TABLE_PAGE_HEADER \in Nat
  /\ SIZE_TUPLE \in Nat \ {0}
  /\ PAGE_SIZE \in Nat /\ PAGE_SIZE > SIZE_TABLE_PAGE_HEADER + SIZE_TUPLE
  /\ WordSize \in Nat /\ WordSize > 2 * PAGE_SIZE
ASSUME SizeAssumption == Size \subseteq Nat \ {0}

INVALID_PAGE_ID == -1

Row == [size : Size, tag : Tag]
Byte == 0 .. PAGE_SIZE - 1
Junk == <<>>   \* bytes in front of the free space pointer, which are not read

\* The size field of a slot with its DELETE_MASK bit apart.
Slot == [offset : 0 .. PAGE_SIZE, size : Nat, deleted : BOOLEAN]
EmptySlot == [offset |-> 0, size |-> 0, deleted |-> FALSE]

\* TablePage::Init.
NewTablePage(prev) ==
  [prev |-> prev, next |-> INVALID_PAGE_ID, free |-> PAGE_SIZE, slots |-> <<>>,
   bytes |-> [x \in Byte |-> Junk]]

GetFreeSpaceRemaining(p) ==
  (p.free - SIZE_TABLE_PAGE_HEADER - SIZE_TUPLE * Len(p.slots)) % WordSize

\* IsDeleted: marked, or empty.
IsDeleted(s) == s.deleted \/ s.size = 0

\* The slot an insertion takes: the first empty one, else a new one.
InsertSlot(p) ==
  LET empty == {i \in DOMAIN p.slots : p.slots[i].size = 0}
  IN  IF empty = {} THEN Len(p.slots) + 1
      ELSE CHOOSE i \in empty : \A j \in empty : i <= j

\* Faulty variant: the bytes of the slot are forgotten.
HasRoomNoSlot(p, r) == GetFreeSpaceRemaining(p) >= r.size

HasRoom(p, r) == GetFreeSpaceRemaining(p) >= r.size + SIZE_TUPLE

InsertTuple(p, r) ==
  LET i == InsertSlot(p)
      at == p.free - r.size
      slot == [offset |-> at, size |-> r.size, deleted |-> FALSE]
  IN  [p EXCEPT
         !.free = at,
         !.bytes = [x \in Byte |-> IF x \in at .. at + r.size - 1
                                   THEN <<r, x - at>> ELSE @[x]],
         !.slots = [j \in DOMAIN @ \union {i} |-> IF j = i THEN slot ELSE @[j]]]

MarkDelete(p, i) ==
  IF i \in DOMAIN p.slots /\ ~IsDeleted(p.slots[i])
  THEN [p EXCEPT !.slots[i].deleted = TRUE] ELSE p

RollbackDelete(p, i) ==
  IF IsDeleted(p.slots[i]) THEN [p EXCEPT !.slots[i].deleted = FALSE] ELSE p

\* The row of slot i gives way to the bytes of new (a row, or none): the rows
\* in front of it move by the difference of the sizes.
Splice(p, i, new, size) ==
  LET s == p.slots[i]
      shift == s.size - size
  IN  [x \in Byte |->
         IF x < p.free + shift THEN Junk
         ELSE IF x < s.offset + shift THEN p.bytes[x - shift]
         ELSE IF x < s.offset + s.size THEN <<new, x - (s.offset + shift)>>
         ELSE p.bytes[x]]

\* A slot whose row is moved.
Moved(slot, shift) == [slot EXCEPT !.offset = @ + shift]

ApplyDelete(p, i) ==
  LET s == p.slots[i]
  IN  [p EXCEPT
         !.free = @ + s.size,
         !.bytes = Splice(p, i, Junk, 0),
         !.slots = [j \in DOMAIN @ |->
                      IF j = i THEN EmptySlot
                      ELSE IF @[j].size # 0 /\ @[j].offset < s.offset
                      THEN Moved(@[j], s.size)
                      ELSE @[j]]]

\* What UpdateTuple returns: -1 no such row, 0 no room, 1 done.
UpdateResult(p, i, r) ==
  IF i \notin DOMAIN p.slots \/ IsDeleted(p.slots[i]) THEN -1
  ELSE IF GetFreeSpaceRemaining(p) + p.slots[i].size < r.size THEN 0
  ELSE 1

\* Faulty variant: the row's own offset is not adjusted.
UpdateTupleOwnOffset(p, i, r) ==
  LET s == p.slots[i]
      shift == s.size - r.size
  IN  [p EXCEPT
         !.free = @ + shift,
         !.bytes = Splice(p, i, r, r.size),
         !.slots = [j \in DOMAIN @ |->
                      LET size == IF j = i THEN r.size ELSE @[j].size
                      IN  IF @[j].size > 0 /\ @[j].offset < s.offset + s.size
                          THEN [@[j] EXCEPT !.offset = IF j = i THEN @ ELSE @ + shift,
                                         !.size = size]
                          ELSE @[j]]]

UpdateTuple(p, i, r) ==
  LET s == p.slots[i]
      shift == s.size - r.size
  IN  [p EXCEPT
         !.free = @ + shift,
         !.bytes = Splice(p, i, r, r.size),
         !.slots = [j \in DOMAIN @ |->
                      LET size == IF j = i THEN r.size ELSE @[j].size
                      IN  IF @[j].size > 0 /\ @[j].offset < s.offset + s.size
                          THEN [Moved(@[j], shift) EXCEPT !.size = size]
                          ELSE @[j]]]

\* What GetTuple reads at slot i, were it not for the mark.
Reads(p, i, r) ==
  \A j \in 0 .. r.size - 1 :
    /\ p.slots[i].offset + j \in Byte
    /\ p.bytes[p.slots[i].offset + j] = <<r, j>>

\* GetFirstTupleRid (after slot 0) and GetNextTupleRid: the slots that come
\* into question.
LiveAfter(p, i) == {j \in DOMAIN p.slots : j > i /\ ~IsDeleted(p.slots[j])}

=============================================================================
