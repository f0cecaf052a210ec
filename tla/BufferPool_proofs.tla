------------------------- MODULE BufferPool_proofs --------------------------
(***************************************************************************)
(* Proofs about the buffer pool and the callers it serves well             *)
(* (CarefulSpec), for any number of frames and pages.                      *)
(*                                                                         *)
(* PoolInv is the inductive invariant.  The properties it contains are not *)
(* inductive alone: that no caller loses its frame rests on the pin count  *)
(* being the number of pins the callers hold, that an evicted page keeps   *)
(* its bytes on every unsaved page being pinned, and both on the free list *)
(* and the replacer naming no frame twice.                                 *)
(***************************************************************************)
EXTENDS BufferPool, FiniteSetTheorems, TLAPS

\* The lemmas about the operations of the replacer, which say nothing of history.
LP == INSTANCE LRUHistory_proofs WITH
        max_size_ <- PoolSize, evictable <- {}, older <- {}

\* A page that is not allocated yet is zero in the file, and nobody freed it.
Unallocated == \A p \in Page : p >= next_page => disk[p] = Zero /\ p \notin freed

Distinct(s) == \A i, j \in DOMAIN s : s[i] = s[j] => i = j

\* The pin count of a frame is the number of pins its callers hold; only
\* pages in use are in the pool; only a pinned page has unannounced writes.
PinsAgree ==
  \A p \in Page :
    /\ Cached(p) => pages_[page_table_[p]].pin_count_ = pins[p] /\ Live(p)
    /\ ~Cached(p) => pins[p] = 0
    /\ p \in unsaved => pins[p] > 0

\* No free frame is pinned, and the replacer knows every unpinned page.
FramesUsable ==
  \A f \in Frame :
    /\ Free(f) => pages_[f].pin_count_ = 0
    /\ (~Free(f) /\ pages_[f].pin_count_ = 0) => f \in replacer_.map_

PoolInv ==
  /\ FramesAccounted
  /\ PointersStayValid
  /\ AnnouncedWritesDurable
  /\ Unallocated
  /\ PinsAgree
  /\ FramesUsable
  /\ Distinct(free_list_)
  /\ LRU!Consistent(replacer_)

-----------------------------------------------------------------------------
(***************************************************************************)
(* The replacer and the free list.                                         *)
(***************************************************************************)
Replacers == [lru_list_ : Seq(Frame), map_ : SUBSET Frame, in_size_ : Nat]

\* The replacer of the pool is the replacer LRUHistory_proofs is about.
LEMMA SameReplacer ==
  ASSUME NEW r
  PROVE  /\ LP!Consistent(r) <=> LRU!Consistent(r)
         /\ LP!HasVictim(r) <=> LRU!HasVictim(r)
         /\ LP!VictimOf(r) = LRU!VictimOf(r)
         /\ LP!AfterVictim(r) = LRU!AfterVictim(r)
         /\ \A f : LP!AfterPin(r, f) = LRU!AfterPin(r, f)
         /\ \A f : LP!AfterUnpin(r, f) = LRU!AfterUnpin(r, f)
<1>1. LP!Consistent(r) <=> LRU!Consistent(r)
  BY DEF LP!Consistent, LRU!Consistent, LP!FramesOf, LRU!FramesOf
<1>2. (LP!HasVictim(r) <=> LRU!HasVictim(r)) /\ LP!VictimOf(r) = LRU!VictimOf(r)
  BY DEF LP!HasVictim, LRU!HasVictim, LP!VictimOf, LRU!VictimOf
<1>3. \A f : LP!Drop(r, f) = LRU!Drop(r, f)
  BY DEF LP!Drop, LRU!Drop, LP!Erase, LRU!Erase, LP!EraseAt, LRU!EraseAt
<1>4. LP!AfterVictim(r) = LRU!AfterVictim(r)
  BY <1>2, <1>3 DEF LP!AfterVictim, LRU!AfterVictim
<1>5. \A f : LP!AfterPin(r, f) = LRU!AfterPin(r, f)
  BY <1>3 DEF LP!AfterPin, LRU!AfterPin
<1>6. \A f : LP!AfterUnpin(r, f) = LRU!AfterUnpin(r, f)
  BY DEF LP!AfterUnpin, LRU!AfterUnpin
<1>7. QED
  BY <1>1, <1>2, <1>4, <1>5, <1>6

\* There are PoolSize frames, so that the replacer has room for all of them.
LEMMA FrameFinite ==
  LP!IsFiniteSet(Frame) /\ PoolSize \in Nat /\ PoolSize >= LP!Cardinality(Frame)
<1>1. /\ PoolSize \in Int /\ PoolSize - 1 \in Int /\ ~(0 > PoolSize - 1)
      /\ PoolSize - 1 - 0 + 1 = PoolSize
  BY PoolSizeAssumption
<1>2. IsFiniteSet(Frame) /\ Cardinality(Frame) = PoolSize
  BY <1>1, FS_Interval DEF Frame
<1>3. LP!IsFiniteSet(Frame) <=> IsFiniteSet(Frame)
  BY DEF LP!IsFiniteSet, IsFiniteSet
<1>4. LP!Cardinality(Frame) = Cardinality(Frame)
  BY DEF LP!Cardinality, Cardinality
<1>5. QED
  BY <1>2, <1>3, <1>4, PoolSizeAssumption

\* A consistent replacer is a replacer record with its fields of the types
\* that TypeOK asks for.
LEMMA ConsistentType ==
  ASSUME NEW r, LRU!Consistent(r)
  PROVE  r.lru_list_ \in Seq(Frame) /\ r.map_ \in SUBSET Frame /\ r.in_size_ \in Nat
<1>1. r.lru_list_ \in Seq(Frame)
  BY DEF LRU!Consistent
<1>2. Len(r.lru_list_) \in Nat
      /\ \A i \in DOMAIN r.lru_list_ : r.lru_list_[i] \in Frame
  BY <1>1
<1>3. QED
  BY <1>1, <1>2 DEF LRU!Consistent, LRU!FramesOf

\* A replacer without frames is in order.
LEMMA EmptyReplacerLemma ==
  /\ LRU!Consistent(LRU!EmptyReplacer)
  /\ LRU!EmptyReplacer \in Replacers
  /\ LRU!EmptyReplacer.map_ = {}
BY DEF LRU!Consistent, LRU!EmptyReplacer, LRU!FramesOf, Replacers

\* Pin takes a frame out of the replacer, and no other.
LEMMA PinLemma ==
  ASSUME NEW r \in Replacers, LRU!Consistent(r), NEW f \in Frame
  PROVE  /\ LRU!Consistent(LRU!AfterPin(r, f))
         /\ LRU!AfterPin(r, f) \in Replacers
         /\ LRU!AfterPin(r, f).map_ = r.map_ \ {f}
<1>1. /\ LRU!Consistent(LRU!AfterPin(r, f))
      /\ LRU!AfterPin(r, f).map_ = r.map_ \ {f}
  BY FrameFinite, SameReplacer, LP!AfterPinProperties
<1>2. LRU!AfterPin(r, f) \in Replacers
  <2>1. CASE f \in r.map_
    <3> DEFINE d == LRU!Drop(r, f)
    <3>1. LRU!AfterPin(r, f) = d
      BY <2>1 DEF LRU!AfterPin
    <3>2. d.lru_list_ \in Seq(Frame) /\ d.map_ \in SUBSET Frame /\ d.in_size_ \in Nat
      BY <1>1, <3>1, ConsistentType
    <3>3. d = [lru_list_ |-> d.lru_list_, map_ |-> d.map_, in_size_ |-> d.in_size_]
      BY DEF LRU!Drop
    <3> HIDE DEF d
    <3>4. QED
      BY <3>1, <3>2, <3>3 DEF Replacers
  <2>2. CASE f \notin r.map_
    BY <2>2 DEF LRU!AfterPin
  <2>3. QED
    BY <2>1, <2>2
<1>3. QED
  BY <1>1, <1>2

\* Victim takes some frame out of the replacer.
LEMMA VictimLemma ==
  ASSUME NEW r \in Replacers, LRU!Consistent(r), LRU!HasVictim(r)
  PROVE  /\ LRU!VictimOf(r) \in r.map_
         /\ LRU!Consistent(LRU!AfterVictim(r))
         /\ LRU!AfterVictim(r) \in Replacers
         /\ LRU!AfterVictim(r).map_ = r.map_ \ {LRU!VictimOf(r)}
<1>1. LRU!VictimOf(r) \in r.map_
  BY FrameFinite, SameReplacer, LP!VictimProperties
<1>2. LRU!AfterVictim(r) = LRU!AfterPin(r, LRU!VictimOf(r))
  BY <1>1 DEF LRU!AfterVictim, LRU!AfterPin
<1>3. LRU!VictimOf(r) \in Frame
  BY <1>1 DEF Replacers
<1>4. QED
  BY <1>1, <1>2, <1>3, PinLemma

\* Victim of an empty replacer changes nothing.
LEMMA NoVictimLemma ==
  ASSUME NEW r, LRU!Consistent(r), ~LRU!HasVictim(r)
  PROVE  r.map_ = {}
BY FrameFinite, SameReplacer, LP!VictimProperties

\* Unpin puts a frame into the replacer, and no other.
LEMMA UnpinLemma ==
  ASSUME NEW r \in Replacers, LRU!Consistent(r), NEW f \in Frame
  PROVE  /\ LRU!Consistent(LRU!AfterUnpin(r, f))
         /\ LRU!AfterUnpin(r, f) \in Replacers
         /\ LRU!AfterUnpin(r, f).map_ = r.map_ \union {f}
<1>1. /\ LRU!Consistent(LRU!AfterUnpin(r, f))
      /\ LRU!AfterUnpin(r, f).map_ = r.map_ \union {f}
  BY FrameFinite, SameReplacer, LP!AfterUnpinProperties, ZenonT(60)
<1>2. LRU!AfterUnpin(r, f) \in Replacers
  <2> DEFINE d == LRU!AfterUnpin(r, f)
  <2>1. d.lru_list_ \in Seq(Frame) /\ d.map_ \in SUBSET Frame /\ d.in_size_ \in Nat
    BY <1>1, ConsistentType
  <2>2. d = r \/ d = [lru_list_ |-> <<f>> \o r.lru_list_,
                      map_ |-> r.map_ \union {f}, in_size_ |-> r.in_size_ + 1]
    BY DEF LRU!AfterUnpin
  <2>3. CASE d = [lru_list_ |-> <<f>> \o r.lru_list_,
                  map_ |-> r.map_ \union {f}, in_size_ |-> r.in_size_ + 1]
    <3>1. /\ d.lru_list_ = <<f>> \o r.lru_list_
          /\ d.map_ = r.map_ \union {f} /\ d.in_size_ = r.in_size_ + 1
      BY <2>3
    <3> HIDE DEF d
    <3>2. d = [lru_list_ |-> d.lru_list_, map_ |-> d.map_, in_size_ |-> d.in_size_]
      BY <2>3, <3>1
    <3> DEFINE l == d.lru_list_
               m == d.map_
               n == d.in_size_
    <3>3. l \in Seq(Frame) /\ m \in SUBSET Frame /\ n \in Nat
      BY <2>1
    <3>4. d = [lru_list_ |-> l, map_ |-> m, in_size_ |-> n]
      BY <3>2
    <3> HIDE DEF l, m, n
    <3>5. QED
      BY <3>3, <3>4 DEF Replacers, d
  <2>4. QED
    BY <2>2, <2>3
<1>3. QED
  BY <1>1, <1>2

\* NewPage and FetchPage take a frame from the back of the free list ...
LEMMA PopBackLemma ==
  ASSUME NEW s \in Seq(Frame), s # <<>>, Distinct(s)
  PROVE  /\ PopBack(s) \in Seq(Frame)
         /\ Distinct(PopBack(s))
         /\ Back(s) \in LRU!FramesOf(s)
         /\ LRU!FramesOf(PopBack(s)) = LRU!FramesOf(s) \ {Back(s)}
         /\ LRU!FramesOf(s) \subseteq Frame
<1>1. Len(s) \in Nat /\ Len(s) # 0 /\ DOMAIN s = 1 .. Len(s)
      /\ \A i \in 1 .. Len(s) : s[i] \in Frame
  OBVIOUS
<1>2. /\ PopBack(s) \in Seq(Frame) /\ DOMAIN PopBack(s) = 1 .. Len(s) - 1
      /\ \A i \in 1 .. Len(s) - 1 : PopBack(s)[i] = s[i]
  BY <1>1 DEF PopBack
<1>3. Distinct(PopBack(s))
  BY <1>1, <1>2, SMTT(30) DEF Distinct
<1>4. Back(s) \in LRU!FramesOf(s) /\ LRU!FramesOf(s) \subseteq Frame
  BY <1>1 DEF Back, LRU!FramesOf
<1>5. ASSUME NEW f \in LRU!FramesOf(PopBack(s))
      PROVE  f \in LRU!FramesOf(s) \ {Back(s)}
  <2>1. PICK i \in 1 .. Len(s) - 1 : f = s[i]
    BY <1>2 DEF LRU!FramesOf
  <2>2. i \in 1 .. Len(s) /\ Len(s) \in 1 .. Len(s) /\ i # Len(s)
    <3>1. \A n \in Nat \ {0} : \A k \in 1 .. n - 1 :
            k \in 1 .. n /\ n \in 1 .. n /\ k # n
      OBVIOUS
    <3>2. QED
      BY <1>1, <2>1, <3>1, Zenon
  <2>3. QED
    BY <1>1, <2>1, <2>2 DEF LRU!FramesOf, Back, Distinct
<1>6. ASSUME NEW f \in LRU!FramesOf(s) \ {Back(s)}
      PROVE  f \in LRU!FramesOf(PopBack(s))
  <2>1. PICK i \in DOMAIN s : f = s[i]
    BY DEF LRU!FramesOf
  <2>2. i # Len(s)
    BY <2>1 DEF Back
  <2>3. i \in 1 .. Len(s) - 1
    BY <1>1, <2>1, <2>2
  <2>4. QED
    BY <1>2, <2>1, <2>3 DEF LRU!FramesOf
<1>7. QED
  BY <1>2, <1>3, <1>4, <1>5, <1>6

\* ... and DeletePage puts one there.
LEMMA PushBackLemma ==
  ASSUME NEW s \in Seq(Frame), Distinct(s), NEW f \in Frame \ LRU!FramesOf(s)
  PROVE  /\ Append(s, f) \in Seq(Frame)
         /\ Distinct(Append(s, f))
         /\ LRU!FramesOf(Append(s, f)) = LRU!FramesOf(s) \union {f}
<1> DEFINE t == Append(s, f)
<1>1. /\ Len(s) \in Nat /\ DOMAIN s = 1 .. Len(s)
      /\ t \in Seq(Frame) /\ DOMAIN t = 1 .. Len(s) + 1
      /\ t[Len(s) + 1] = f
      /\ \A i \in 1 .. Len(s) : t[i] = s[i]
  OBVIOUS
<1>2. \A i \in 1 .. Len(s) : s[i] # f
  BY <1>1 DEF LRU!FramesOf
<1> HIDE DEF t
<1>3. Distinct(t)
  BY <1>1, <1>2 DEF Distinct
<1>4. LRU!FramesOf(t) = LRU!FramesOf(s) \union {f}
  <2>1. LRU!FramesOf(t) \subseteq LRU!FramesOf(s) \union {f}
    BY <1>1 DEF LRU!FramesOf
  <2>2. f \in LRU!FramesOf(t)
    BY <1>1 DEF LRU!FramesOf
  <2>3. ASSUME NEW g \in LRU!FramesOf(s) PROVE g \in LRU!FramesOf(t)
    <3>1. PICK i \in DOMAIN s : g = s[i]
      BY DEF LRU!FramesOf
    <3>2. i \in DOMAIN t /\ t[i] = g
      BY <1>1, <3>1
    <3>3. QED
      BY <3>2 DEF LRU!FramesOf
  <2>4. QED
    BY <2>1, <2>2, <2>3
<1>5. QED
  BY <1>1, <1>3, <1>4 DEF t

\* The constructor puts every frame there.
LEMMA AllFree ==
  /\ EmptyPool.free_list_ \in Seq(Frame)
  /\ Distinct(EmptyPool.free_list_)
  /\ LRU!FramesOf(EmptyPool.free_list_) = Frame
<1> DEFINE s == [i \in 1 .. PoolSize |-> i - 1]
<1>1. EmptyPool.free_list_ = s
  BY DEF EmptyPool
<1>2. PoolSize \in Nat /\ \A i \in 1 .. PoolSize : i - 1 \in Frame
  BY PoolSizeAssumption DEF Frame
<1>3. s \in Seq(Frame) /\ Distinct(s)
  BY <1>2 DEF Distinct
<1>4. \A f \in Frame : f + 1 \in 1 .. PoolSize /\ s[f + 1] = f
  BY <1>2 DEF Frame
<1>5. LRU!FramesOf(s) = Frame
  <2>1. LRU!FramesOf(s) \subseteq Frame
    BY <1>2 DEF LRU!FramesOf
  <2>2. Frame \subseteq LRU!FramesOf(s)
    BY <1>4 DEF LRU!FramesOf
  <2>3. QED
    BY <2>1, <2>2
<1>6. QED
  BY <1>1, <1>3, <1>5

-----------------------------------------------------------------------------
(***************************************************************************)
(* The steps.  Quiet says that a step changes neither the bytes of a page  *)
(* nor which pages are in use.                                             *)
(***************************************************************************)
Quiet ==
  /\ \A q \in Page : Content(q)' = Content(q)
  /\ next_page' = next_page /\ freed' = freed

\* What the definitions of the pool range over.
LEMMA Ranges ==
  /\ NoFrame \notin Frame /\ INVALID_PAGE_ID \notin Page
  /\ Frame \subseteq Nat /\ Page \subseteq Nat
BY PoolSizeAssumption, MaxPagesAssumption
   DEF NoFrame, INVALID_PAGE_ID, Frame, Page

\* The frame of a page has that page and no other.
LEMMA FrameOfPage ==
  ASSUME PoolInv, NEW p \in Page, Cached(p)
  PROVE  /\ page_table_[p] \in Frame
         /\ ~Free(page_table_[p])
         /\ pages_[page_table_[p]].page_id_ = p
         /\ \A q \in Page : page_table_[q] = page_table_[p] => q = p
<1>1. page_table_[p] \in Frame /\ pages_[page_table_[p]].page_id_ = p
  BY DEF PoolInv, FramesAccounted, TypeOK, Cached
<1>2. ~Free(page_table_[p])
  BY <1>1, Ranges DEF PoolInv, FramesAccounted
<1>3. ASSUME NEW q \in Page, page_table_[q] = page_table_[p] PROVE q = p
  <2>1. Cached(q)
    BY <1>3 DEF Cached
  <2>2. pages_[page_table_[q]].page_id_ = q
    BY <2>1 DEF PoolInv, FramesAccounted
  <2>3. QED
    BY <1>1, <1>3, <2>2
<1>4. QED
  BY <1>1, <1>2, <1>3

\* A pool that has just been built, over a file.
FreshPool ==
  /\ page_table_ = EmptyPool.page_table_
  /\ pages_ = EmptyPool.pages_
  /\ free_list_ = EmptyPool.free_list_
  /\ replacer_ = EmptyPool.replacer_
  /\ disk \in [Page -> Data] /\ next_page \in 0 .. MaxPages /\ freed \subseteq Page
  /\ Unallocated
  /\ pins = [p \in Page |-> 0] /\ ptr = [p \in Page |-> NoFrame] /\ unsaved = {}

AllInFile == \A p \in Page : Content(p) = disk[p]

\* The constructor makes a pool in order, with everything in the file.
LEMMA FreshPoolInv == FreshPool => PoolInv /\ AllInFile
<1> SUFFICES ASSUME FreshPool PROVE PoolInv /\ AllInFile
  OBVIOUS
<1> USE DEF FreshPool
<1>1. /\ page_table_ = [p \in Page |-> NoFrame]
      /\ pages_ = [f \in Frame |-> EmptyFrame]
      /\ replacer_ = LRU!EmptyReplacer
  BY DEF EmptyPool
<1>2. \A f \in Frame : Free(f)
  BY AllFree DEF Free
<1>3. \A p \in Page : ~Cached(p)
  BY <1>1 DEF Cached
<1>4. \A f \in Frame :
        /\ pages_[f] = EmptyFrame
        /\ pages_[f].page_id_ = INVALID_PAGE_ID
        /\ pages_[f].pin_count_ = 0
  BY <1>1 DEF EmptyFrame
<1>5. LRU!Consistent(replacer_) /\ replacer_ \in Replacers /\ replacer_.map_ = {}
  BY <1>1, EmptyReplacerLemma
<1>6. TypeOK
  <2>1. EmptyFrame \in FrameRecord
    BY DataAssumption DEF EmptyFrame, FrameRecord
  <2>2. QED
    BY <1>1, <1>5, <2>1, AllFree DEF TypeOK, Replacers
<1>7. FramesAccounted
  BY <1>2, <1>3, <1>4, <1>5, <1>6 DEF FramesAccounted
<1>8. PointersStayValid /\ PinsAgree /\ FramesUsable
  BY <1>2, <1>3, <1>4 DEF PointersStayValid, PinsAgree, FramesUsable
<1>9. AllInFile
  BY <1>3 DEF AllInFile, Content
<1>10. Distinct(free_list_)
  BY AllFree
<1>11. QED
  BY <1>5, <1>7, <1>8, <1>9, <1>10 DEF PoolInv, AnnouncedWritesDurable, AllInFile

\* The invariant holds at first.
LEMMA InitPoolInv == Init => PoolInv
<1> SUFFICES ASSUME Init PROVE PoolInv
  OBVIOUS
<1>1. /\ disk \in [Page -> Data] /\ next_page \in 0 .. MaxPages
      /\ freed \subseteq Page /\ Unallocated
  BY DataAssumption, MaxPagesAssumption DEF Init, Unallocated
<1>2. QED
  BY <1>1, FreshPoolInv DEF Init, FreshPool

\* Steps 2 to 4 of FetchPage for a frame that was free, or that was taken
\* from the replacer while no page has been deleted.
LEMMA ReplaceStep ==
  ASSUME PoolInv, NEW p \in Page, Live(p), ~Cached(p), NEW f \in Frame,
         Replace(p, f),
         pages_[f].pin_count_ = 0,
         free_list_' \in Seq(Frame), Distinct(free_list_'),
         LRU!FramesOf(free_list_)' = LRU!FramesOf(free_list_) \ {f},
         LRU!Consistent(replacer_'), replacer_' \in Replacers,
         \/ Free(f) /\ replacer_' = replacer_
         \/ ~Free(f) /\ replacer_'.map_ = replacer_.map_ \ {f}
  PROVE  PoolInv' /\ Quiet
<1> DEFINE old == pages_[f].page_id_
<1> USE Ranges
<1>1. TypeOK /\ pages_[f] \in FrameRecord /\ old \in Page \union {INVALID_PAGE_ID}
  BY DEF PoolInv, FramesAccounted, TypeOK, FrameRecord
<1>2. /\ pages_[f].is_dirty_ \in BOOLEAN /\ pages_[f].data_ \in Data
  BY <1>1 DEF FrameRecord
<1>3. IF Free(f) THEN old = INVALID_PAGE_ID ELSE Cached(old) /\ page_table_[old] = f
  BY <1>1 DEF PoolInv, FramesAccounted, Cached
<1>4. /\ \A q \in Page : page_table_[q] = f => q = old
      /\ old # p /\ pins[p] = 0 /\ page_table_[p] = NoFrame
  BY <1>3 DEF PoolInv, FramesAccounted, PinsAgree, Cached
<1>5. /\ disk' \in [Page -> Data]
      /\ \A q \in Page : disk'[q] = IF q = old /\ pages_[f].is_dirty_
                                   THEN pages_[f].data_ ELSE disk[q]
  <2>1. CASE pages_[f].is_dirty_ /\ Cached(old)
    BY <1>1, <1>2, <1>3, <2>1 DEF Replace, TypeOK, Cached
  <2>2. CASE ~(pages_[f].is_dirty_ /\ Cached(old))
    BY <1>1, <1>2, <1>3, <2>2 DEF Replace, TypeOK, Cached
  <2>3. QED
    BY <2>1, <2>2
<1>6. /\ page_table_' \in [Page -> Frame \union {NoFrame}]
      /\ \A q \in Page : page_table_'[q] = IF q = p THEN f
                                         ELSE IF q = old THEN NoFrame
                                         ELSE page_table_[q]
  BY <1>1 DEF Replace, TypeOK
<1> DEFINE new == [page_id_ |-> p, pin_count_ |-> pages_[f].pin_count_ + 1,
                   is_dirty_ |-> FALSE, data_ |-> disk'[p]]
<1>7. /\ pages_' = [pages_ EXCEPT ![f] = new]
      /\ pages_'[f] = new
      /\ \A g \in Frame : g # f => pages_'[g] = pages_[g]
      /\ pages_' \in [Frame -> FrameRecord]
  <2>1. pages_' = [g \in Frame |-> IF g = f THEN new ELSE pages_[g]]
    BY <1>1, <1>3, Zenon DEF Replace, Cached
  <2>2. new \in FrameRecord
    BY <1>5 DEF FrameRecord
  <2> HIDE DEF new
  <2>3. QED
    BY <1>1, <2>1, <2>2 DEF TypeOK
<1>8. /\ pages_'[f].page_id_ = p /\ pages_'[f].pin_count_ = 1
      /\ pages_'[f].data_ = disk[p]
  BY <1>4, <1>5, <1>7
<1> HIDE DEF new
<1>9. /\ pins' = [pins EXCEPT ![p] = 1] /\ ptr' = [ptr EXCEPT ![p] = f]
      /\ unsaved' = unsaved /\ next_page' = next_page /\ freed' = freed
  BY <1>1, <1>4 DEF Replace, Receive, TypeOK
<1>10. \A g \in Frame : Free(g)' <=> (Free(g) /\ g # f)
  BY DEF Free
<1>11. TypeOK'
  BY <1>1, <1>5, <1>6, <1>7, <1>9, ZenonT(60) DEF TypeOK, Replacers
<1>12. \A q \in Page : Cached(q)' <=> (q = p \/ (Cached(q) /\ q # old))
  BY <1>4, <1>6 DEF Cached
<1>13. \A q \in Page : Live(q)' <=> Live(q)
  BY <1>9 DEF Live
<1>14. pins[old] = 0 \/ old = INVALID_PAGE_ID
  BY <1>1, <1>3 DEF PoolInv, PinsAgree
<1>15. Quiet
  <2>1. SUFFICES ASSUME NEW q \in Page PROVE Content(q)' = Content(q)
    BY <1>9 DEF Quiet
  <2>2. CASE q = p
    BY <1>5, <1>6, <1>8, <1>12, <2>2 DEF Content
  <2>3. CASE q = old
    <3>1. Cached(q) /\ page_table_[q] = f /\ ~Cached(q)' /\ Live(q) /\ q \notin unsaved
      BY <1>3, <1>4, <1>12, <1>14, <2>3 DEF PoolInv, PinsAgree
    <3>2. pages_[f].data_ = disk[q]
      BY <3>1 DEF PoolInv, AnnouncedWritesDurable, Content
    <3>3. QED
      BY <1>5, <3>1, <3>2 DEF Content
  <2>4. CASE q # p /\ q # old
    <3>1. CASE Cached(q)
      <4>1. page_table_[q] \in Frame /\ page_table_[q] # f
        BY <1>4, <2>4, <3>1, FrameOfPage
      <4>2. QED
        BY <1>6, <1>7, <1>12, <2>4, <3>1, <4>1 DEF Content
    <3>2. CASE ~Cached(q)
      BY <1>5, <1>12, <2>4, <3>2 DEF Content
    <3>3. QED
      BY <3>1, <3>2
  <2>5. QED
    BY <2>2, <2>3, <2>4
<1>16. \A q \in Page : q \notin {p, old} /\ Cached(q) =>
         /\ page_table_'[q] = page_table_[q] /\ page_table_[q] \in Frame \ {f}
         /\ pages_'[page_table_[q]] = pages_[page_table_[q]]
  BY <1>4, <1>6, <1>7, FrameOfPage
<1>17. FramesAccounted'
  <2>1. ASSUME NEW q \in Page, Cached(q)'
        PROVE  pages_'[page_table_'[q]].page_id_ = q
    <3>1. CASE q = p
      BY <1>6, <1>8, <3>1
    <3>2. CASE q # p
      <4>1. q # old /\ Cached(q)
        BY <1>12, <2>1, <3>2
      <4>2. QED
        BY <1>16, <3>2, <4>1, FrameOfPage
    <3>3. QED
      BY <3>1, <3>2
  <2>2. ASSUME NEW g \in Frame
        PROVE  /\ Free(g)' <=> pages_'[g].page_id_ = INVALID_PAGE_ID
               /\ ~Free(g)' => page_table_'[pages_'[g].page_id_] = g
               /\ freed' = {} =>
                    (g \in replacer_'.map_ <=> (~Free(g)' /\ pages_'[g].pin_count_ = 0))
    <3>1. CASE g = f
      <4>1. ~Free(g)' /\ pages_'[g].page_id_ = p /\ pages_'[g].pin_count_ = 1
        BY <1>8, <1>10, <3>1
      <4>2. freed' = {} => g \notin replacer_'.map_
        BY <1>9, <3>1 DEF PoolInv, FramesAccounted
      <4>3. QED
        BY <1>6, <3>1, <4>1, <4>2
    <3>2. CASE g # f
      <4>1. pages_'[g] = pages_[g] /\ (Free(g)' <=> Free(g))
        BY <1>7, <1>10, <3>2
      <4>2. g \in replacer_'.map_ <=> g \in replacer_.map_
        BY <3>2
      <4>3. ~Free(g) => /\ pages_[g].page_id_ \in Page \ {p}
                        /\ page_table_[pages_[g].page_id_] = g
        BY <1>1, <1>4 DEF PoolInv, FramesAccounted, TypeOK, FrameRecord
      <4>4. ~Free(g) => page_table_'[pages_[g].page_id_] = g
        BY <1>3, <1>6, <3>2, <4>3
      <4>5. QED
        BY <1>9, <4>1, <4>2, <4>4 DEF PoolInv, FramesAccounted
    <3>3. QED
      BY <3>1, <3>2
  <2>3. QED
    BY <1>11, <2>1, <2>2 DEF FramesAccounted
<1>18. PinsAgree'
  <2>1. SUFFICES ASSUME NEW q \in Page
                 PROVE  /\ Cached(q)' => /\ pages_'[page_table_'[q]].pin_count_ = pins'[q]
                                         /\ Live(q)'
                        /\ ~Cached(q)' => pins'[q] = 0
                        /\ q \in unsaved' => pins'[q] > 0
    BY DEF PinsAgree
  <2>2. CASE q = p
    BY <1>1, <1>6, <1>8, <1>9, <1>12, <1>13, <2>2 DEF TypeOK
  <2>3. CASE q # p
    <3>1. pins'[q] = pins[q]
      BY <1>1, <1>9, <2>3 DEF TypeOK
    <3>2. /\ Cached(q) => pages_[page_table_[q]].pin_count_ = pins[q] /\ Live(q)
          /\ ~Cached(q) => pins[q] = 0
          /\ q \in unsaved => pins[q] > 0
      BY DEF PoolInv, PinsAgree
    <3>3. CASE Cached(q)'
      <4>1. Cached(q) /\ q # old
        BY <1>12, <2>3, <3>3
      <4>2. pages_'[page_table_'[q]].pin_count_ = pins'[q]
        BY <1>16, <2>3, <3>1, <3>2, <4>1
      <4>3. QED
        BY <1>9, <1>13, <3>1, <3>2, <3>3, <4>1, <4>2
    <3>4. CASE ~Cached(q)'
      <4>1. pins[q] = 0
        BY <1>12, <1>14, <2>3, <3>2, <3>4
      <4>2. QED
        BY <1>9, <3>1, <3>2, <3>4, <4>1
    <3>5. QED
      BY <3>3, <3>4
  <2>4. QED
    BY <2>2, <2>3
<1>19. PointersStayValid'
  <2>1. SUFFICES ASSUME NEW q \in Page, pins'[q] > 0
                 PROVE  page_table_'[q] = ptr'[q] /\ pages_'[ptr'[q]].page_id_ = q
    BY DEF PointersStayValid
  <2>2. CASE q = p
    BY <1>1, <1>6, <1>8, <1>9, <2>2 DEF TypeOK
  <2>3. CASE q # p
    <3>1. pins'[q] = pins[q] /\ ptr'[q] = ptr[q]
      BY <1>1, <1>9, <2>3 DEF TypeOK
    <3>2. q # old /\ Cached(q)
      BY <1>14, <2>1, <3>1 DEF PoolInv, PinsAgree
    <3>3. page_table_[q] = ptr[q] /\ pages_[ptr[q]].page_id_ = q
      BY <2>1, <3>1 DEF PoolInv, PointersStayValid
    <3>4. QED
      BY <1>16, <2>3, <3>1, <3>2, <3>3
  <2>4. QED
    BY <2>2, <2>3
<1>20. FramesUsable'
  <2>1. SUFFICES ASSUME NEW g \in Frame
                 PROVE  /\ Free(g)' => pages_'[g].pin_count_ = 0
                        /\ (~Free(g)' /\ pages_'[g].pin_count_ = 0) => g \in replacer_'.map_
    BY DEF FramesUsable
  <2>2. CASE g = f
    BY <1>8, <1>10, <2>2
  <2>3. CASE g # f
    BY <1>7, <1>10, <2>3 DEF PoolInv, FramesUsable
  <2>4. QED
    BY <2>2, <2>3
<1>21. AnnouncedWritesDurable'
  <2>1. SUFFICES ASSUME NEW q \in Page, Live(q), q \notin unsaved
                 PROVE  Content(q)' = disk'[q]
    BY <1>9, <1>13 DEF AnnouncedWritesDurable
  <2>2. Content(q) = disk[q]
    BY <2>1 DEF PoolInv, AnnouncedWritesDurable
  <2>3. q = old => pages_[f].data_ = disk[q]
    BY <1>3, <2>2 DEF Content
  <2>4. QED
    BY <1>5, <1>15, <2>2, <2>3 DEF Quiet
<1>22. Unallocated'
  <2>1. SUFFICES ASSUME NEW q \in Page, q >= next_page
                 PROVE  disk'[q] = Zero /\ q \notin freed
    BY <1>9 DEF Unallocated
  <2>2. ~Live(q)
    BY <1>1, <2>1 DEF Live, TypeOK
  <2>3. q # old
    BY <1>3, <2>2 DEF PoolInv, PinsAgree
  <2>4. QED
    BY <1>5, <2>1, <2>3 DEF PoolInv, Unallocated
<1>23. QED
  BY <1>15, <1>17, <1>18, <1>19, <1>20, <1>21, <1>22 DEF PoolInv

\* FetchPage into a free frame.
LEMMA FetchFreeStep ==
  ASSUME PoolInv, NEW p \in Page, Live(p), FetchFree(p)
  PROVE  PoolInv' /\ Quiet
<1> DEFINE f == Back(free_list_)
<1>1. /\ free_list_ \in Seq(Frame) /\ Distinct(free_list_) /\ free_list_ # <<>>
      /\ free_list_' = PopBack(free_list_) /\ replacer_' = replacer_
      /\ Replace(p, f) /\ ~Cached(p)
  BY DEF PoolInv, FramesAccounted, TypeOK, FetchFree
<1>2. /\ free_list_' \in Seq(Frame) /\ Distinct(free_list_')
      /\ LRU!FramesOf(free_list_') = LRU!FramesOf(free_list_) \ {f}
      /\ f \in Frame /\ Free(f)
  BY <1>1, PopBackLemma DEF Free
<1>3. LRU!Consistent(replacer_') /\ replacer_' \in Replacers
  BY <1>1 DEF PoolInv, FramesAccounted, TypeOK, Replacers
<1>4. pages_[f].pin_count_ = 0
  BY <1>2 DEF PoolInv, FramesUsable
<1> HIDE DEF f
<1>5. QED
  BY <1>1, <1>2, <1>3, <1>4, ReplaceStep

\* While no page has been deleted, a victim holds an unpinned page.
LEMMA FetchVictimStep ==
  ASSUME PoolInv, NEW p \in Page, Live(p), freed = {}, FetchVictim(p)
  PROVE  PoolInv' /\ Quiet
<1> DEFINE f == LRU!VictimOf(replacer_)
<1>1. /\ free_list_ = <<>> /\ free_list_' = free_list_
      /\ LRU!HasVictim(replacer_)
      /\ replacer_' = LRU!AfterVictim(replacer_)
      /\ Replace(p, f) /\ ~Cached(p)
  BY DEF FetchVictim
<1>2. replacer_ \in Replacers /\ LRU!Consistent(replacer_)
  BY DEF PoolInv, FramesAccounted, TypeOK, Replacers
<1>3. /\ f \in replacer_.map_ /\ LRU!Consistent(replacer_') /\ replacer_' \in Replacers
      /\ replacer_'.map_ = replacer_.map_ \ {f}
  BY <1>1, <1>2, VictimLemma
<1>4. f \in Frame
  BY <1>2, <1>3 DEF Replacers
<1>5. ~Free(f) /\ pages_[f].pin_count_ = 0
  BY <1>3, <1>4 DEF PoolInv, FramesAccounted
<1>6. /\ free_list_' \in Seq(Frame) /\ Distinct(free_list_')
      /\ LRU!FramesOf(free_list_') = LRU!FramesOf(free_list_) \ {f}
  BY <1>1, <1>5 DEF PoolInv, FramesAccounted, TypeOK, Free
<1> HIDE DEF f
<1>7. QED
  BY <1>1, <1>3, <1>4, <1>5, <1>6, ReplaceStep

\* The destructor has written every page of the page table.
LEMMA RestartStep ==
  ASSUME PoolInv, Restart
  PROVE  PoolInv' /\ Quiet
<1>1. \A p \in Page : disk'[p] = Content(p)
  BY DEF Restart, Content
<1>2. disk' \in [Page -> Data]
  <2>1. \A p \in Page : Content(p) \in Data
    BY FrameOfPage DEF PoolInv, FramesAccounted, TypeOK, FrameRecord, Content
  <2>2. QED
    BY <1>1, <2>1 DEF Restart
<1>3. Unallocated'
  <2>1. SUFFICES ASSUME NEW p \in Page, p >= next_page
                 PROVE  disk'[p] = Zero /\ p \notin freed
    BY DEF Unallocated, Restart
  <2>2. ~Live(p)
    BY <2>1, Ranges DEF Live, PoolInv, FramesAccounted, TypeOK
  <2>3. ~Cached(p)
    BY <2>2 DEF PoolInv, PinsAgree
  <2>4. QED
    BY <1>1, <2>1, <2>3 DEF PoolInv, Unallocated, Content
<1>4. FreshPool'
  BY <1>2, <1>3 DEF Restart, FreshPool, PoolInv, FramesAccounted, TypeOK
<1>5. PoolInv' /\ AllInFile'
  BY <1>4, FreshPoolInv, PTL
<1>6. QED
  BY <1>1, <1>5 DEF Quiet, Restart, AllInFile

\* A step that works on frame f of one page p in the pool: FetchPage of a page
\* that is there, UnpinPage, FlushPage and the writes of the callers.
SameTables ==
  /\ page_table_' = page_table_ /\ free_list_' = free_list_
  /\ next_page' = next_page /\ freed' = freed

FrameStep(p, f) ==
  /\ pages_' \in [Frame -> FrameRecord]
  /\ \A g \in Frame \ {f} : pages_'[g] = pages_[g]
  /\ pages_'[f].page_id_ = p /\ pages_'[f].pin_count_ = pins'[p]

CallerStep(p, f) ==
  /\ pins' \in [Page -> Nat] /\ \A q \in Page \ {p} : pins'[q] = pins[q]
  /\ ptr' \in [Page -> Frame \union {NoFrame}]
  /\ \A q \in Page \ {p} : ptr'[q] = ptr[q]
  /\ pins'[p] > 0 => ptr'[p] = f
  /\ unsaved' \subseteq Page
  /\ \A q \in Page \ {p} : q \in unsaved' <=> q \in unsaved
  /\ p \in unsaved' => pins'[p] > 0

DiskStep(p, f) ==
  /\ disk' \in [Page -> Data] /\ \A q \in Page \ {p} : disk'[q] = disk[q]
  /\ p \notin unsaved' => pages_'[f].data_ = disk'[p]

ReplacerStep(p, f) ==
  /\ replacer_' \in Replacers /\ LRU!Consistent(replacer_')
  /\ \A g \in Frame \ {f} : g \in replacer_'.map_ <=> g \in replacer_.map_
  /\ pins'[p] = 0 => f \in replacer_'.map_
  /\ (freed = {} /\ pins'[p] > 0) => f \notin replacer_'.map_

\* A step that leaves every page in its frame.
LEMMA InPlaceStep ==
  ASSUME PoolInv, NEW p \in Page, Cached(p), NEW f \in Frame, page_table_[p] = f,
         SameTables, FrameStep(p, f), CallerStep(p, f), DiskStep(p, f),
         ReplacerStep(p, f)
  PROVE  /\ PoolInv'
         /\ Content(p) = pages_[f].data_ /\ Content(p)' = pages_'[f].data_
         /\ \A q \in Page \ {p} : Content(q)' = Content(q)
<1> USE Ranges
<1>1. TypeOK /\ f \in Frame /\ f # NoFrame
  BY FrameOfPage DEF PoolInv, FramesAccounted
<1>2. \A q \in Page :
        /\ Cached(q)' <=> Cached(q)
        /\ Live(q)' <=> Live(q)
        /\ page_table_'[q] = page_table_[q]
  BY DEF Cached, Live, SameTables
<1>3. \A g \in Frame : Free(g)' <=> Free(g)
  BY DEF Free, SameTables
<1>4. \A q \in Page \ {p} : Cached(q) =>
        page_table_[q] \in Frame \ {f} /\ pages_'[page_table_[q]] = pages_[page_table_[q]]
  BY FrameOfPage DEF FrameStep
<1>5. ~Free(f) /\ pages_[f].page_id_ = p
  BY FrameOfPage
<1>6. TypeOK'
  <2>1. \A q \in Page : pins'[q] > 0 => ptr'[q] # NoFrame
    BY <1>1 DEF TypeOK, CallerStep
  <2>2. QED
    BY <1>1, <2>1 DEF TypeOK, Replacers, SameTables, FrameStep, CallerStep, DiskStep,
                      ReplacerStep
<1>7. FramesAccounted'
  <2>1. ASSUME NEW q \in Page, Cached(q)'
        PROVE  pages_'[page_table_'[q]].page_id_ = q
    <3>1. Cached(q) /\ pages_[page_table_[q]].page_id_ = q
      BY <1>2, <2>1, FrameOfPage
    <3>2. CASE q = p
      BY <1>2, <3>2 DEF FrameStep
    <3>3. CASE q # p
      BY <1>2, <1>4, <3>1, <3>3
    <3>4. QED
      BY <3>2, <3>3
  <2>2. ASSUME NEW g \in Frame
        PROVE  /\ Free(g)' <=> pages_'[g].page_id_ = INVALID_PAGE_ID
               /\ ~Free(g)' => page_table_'[pages_'[g].page_id_] = g
               /\ freed' = {} =>
                    (g \in replacer_'.map_ <=> (~Free(g)' /\ pages_'[g].pin_count_ = 0))
    <3>1. CASE g = f
      <4>1. pins'[p] \in Nat
        BY DEF CallerStep
      <4>2. QED
        BY <1>3, <1>5, <3>1, <4>1 DEF FrameStep, ReplacerStep, SameTables
    <3>2. CASE g # f
      BY <1>3, <3>2 DEF PoolInv, FramesAccounted, FrameStep, ReplacerStep, SameTables
    <3>3. QED
      BY <3>1, <3>2
  <2>3. QED
    BY <1>6, <2>1, <2>2 DEF FramesAccounted
<1>8. PinsAgree'
  <2>1. SUFFICES ASSUME NEW q \in Page
                 PROVE  /\ Cached(q)' => /\ pages_'[page_table_'[q]].pin_count_ = pins'[q]
                                         /\ Live(q)'
                        /\ ~Cached(q)' => pins'[q] = 0
                        /\ q \in unsaved' => pins'[q] > 0
    BY DEF PinsAgree
  <2>2. /\ Cached(q) => pages_[page_table_[q]].pin_count_ = pins[q] /\ Live(q)
        /\ ~Cached(q) => pins[q] = 0
        /\ q \in unsaved => pins[q] > 0
    BY DEF PoolInv, PinsAgree
  <2>3. CASE q = p
    BY <1>2, <2>2, <2>3 DEF FrameStep, CallerStep
  <2>4. CASE q # p
    <3>1. pins'[q] = pins[q] /\ (q \in unsaved' <=> q \in unsaved)
      BY <2>4 DEF CallerStep
    <3>2. Cached(q) => pages_'[page_table_'[q]] = pages_[page_table_[q]]
      BY <1>2, <1>4, <2>4
    <3>3. QED
      BY <1>2, <2>2, <3>1, <3>2
  <2>5. QED
    BY <2>3, <2>4
<1>9. PointersStayValid'
  <2>1. SUFFICES ASSUME NEW q \in Page, pins'[q] > 0
                 PROVE  page_table_'[q] = ptr'[q] /\ pages_'[ptr'[q]].page_id_ = q
    BY DEF PointersStayValid
  <2>2. CASE q = p
    BY <1>2, <2>1, <2>2 DEF FrameStep, CallerStep
  <2>3. CASE q # p
    <3>1. pins[q] > 0 /\ ptr'[q] = ptr[q] /\ page_table_[q] = ptr[q]
      BY <2>1, <2>3 DEF PoolInv, PointersStayValid, CallerStep
    <3>2. Cached(q)
      BY <3>1 DEF PoolInv, PinsAgree
    <3>3. QED
      BY <1>2, <1>4, <2>3, <3>1, <3>2, FrameOfPage
  <2>4. QED
    BY <2>2, <2>3
<1>10. FramesUsable'
  <2>1. SUFFICES ASSUME NEW g \in Frame
                 PROVE  /\ Free(g)' => pages_'[g].pin_count_ = 0
                        /\ (~Free(g)' /\ pages_'[g].pin_count_ = 0) => g \in replacer_'.map_
    BY DEF FramesUsable
  <2>2. CASE g = f
    BY <1>3, <1>5, <2>2 DEF FrameStep, ReplacerStep
  <2>3. CASE g # f
    BY <1>3, <2>3 DEF PoolInv, FramesUsable, FrameStep, ReplacerStep
  <2>4. QED
    BY <2>2, <2>3
<1>11. /\ Content(p) = pages_[f].data_ /\ Content(p)' = pages_'[f].data_
       /\ \A q \in Page \ {p} : Content(q)' = Content(q)
  <2>1. Content(p) = pages_[f].data_ /\ Content(p)' = pages_'[f].data_
    BY <1>2 DEF Content
  <2>2. ASSUME NEW q \in Page \ {p} PROVE Content(q)' = Content(q)
    <3>1. CASE Cached(q)
      BY <1>2, <1>4, <3>1 DEF Content
    <3>2. CASE ~Cached(q)
      BY <1>2, <3>2 DEF Content, DiskStep
    <3>3. QED
      BY <3>1, <3>2
  <2>3. QED
    BY <2>1, <2>2
<1>12. AnnouncedWritesDurable'
  <2>1. SUFFICES ASSUME NEW q \in Page, Live(q)', q \notin unsaved'
                 PROVE  Content(q)' = disk'[q]
    BY DEF AnnouncedWritesDurable
  <2>2. CASE q = p
    BY <1>11, <2>1, <2>2 DEF DiskStep
  <2>3. CASE q # p
    <3>1. q \notin unsaved
      BY <2>1, <2>3 DEF CallerStep
    <3>2. Content(q) = disk[q]
      BY <1>2, <2>1, <3>1 DEF PoolInv, AnnouncedWritesDurable
    <3>3. QED
      BY <1>11, <2>3, <3>2 DEF DiskStep
  <2>4. QED
    BY <2>2, <2>3
<1>13. Unallocated'
  <2>1. Live(p)
    BY DEF PoolInv, PinsAgree
  <2>2. \A q \in Page : q >= next_page => q # p
    BY <1>1, <2>1 DEF Live, TypeOK
  <2>3. QED
    BY <2>2 DEF PoolInv, Unallocated, DiskStep, SameTables
<1>14. Distinct(free_list_)' /\ LRU!Consistent(replacer_)'
  BY DEF PoolInv, SameTables, ReplacerStep
<1>15. QED
  BY <1>7, <1>8, <1>9, <1>10, <1>11, <1>12, <1>13, <1>14 DEF PoolInv

\* FetchPage of a page in the pool.
LEMMA FetchHitStep ==
  ASSUME PoolInv, NEW p \in Page, FetchHit(p)
  PROVE  PoolInv' /\ Quiet
<1> DEFINE f == page_table_[p]
<1>1. /\ Cached(p) /\ f \in Frame /\ TypeOK /\ pages_[f].page_id_ = p
      /\ pages_[f] \in FrameRecord /\ pages_[f].pin_count_ = pins[p] /\ pins[p] \in Nat
  BY FrameOfPage DEF FetchHit, PoolInv, FramesAccounted, TypeOK, PinsAgree
<1>2. /\ replacer_' = LRU!AfterPin(replacer_, f)
      /\ pages_' = [pages_ EXCEPT ![f].pin_count_ = @ + 1]
      /\ pins' = [pins EXCEPT ![p] = @ + 1] /\ ptr' = [ptr EXCEPT ![p] = f]
      /\ unsaved' = unsaved /\ disk' = disk /\ SameTables
  BY DEF FetchHit, Receive, SameTables, diskVars
<1> HIDE DEF f
<1>3. pages_'[f] = [pages_[f] EXCEPT !.pin_count_ = @ + 1] /\ pins'[p] = pins[p] + 1
  BY <1>1, <1>2 DEF TypeOK
<1>4. pages_'[f].data_ = pages_[f].data_
  BY <1>1, <1>3 DEF FrameRecord
<1>5. FrameStep(p, f)
  <2>1. pages_'[f].page_id_ = p /\ pages_'[f].pin_count_ = pins'[p]
    BY <1>1, <1>3 DEF FrameRecord
  <2>2. pages_' \in [Frame -> FrameRecord]
    <3>1. [pages_[f] EXCEPT !.pin_count_ = @ + 1] \in FrameRecord
      BY <1>1 DEF FrameRecord
    <3>2. QED
      BY <1>1, <1>2, <3>1 DEF TypeOK
  <2>3. \A g \in Frame \ {f} : pages_'[g] = pages_[g]
    BY <1>1, <1>2 DEF TypeOK
  <2>4. QED
    BY <2>1, <2>2, <2>3 DEF FrameStep
<1>6. CallerStep(p, f)
  BY <1>1, <1>2, <1>3 DEF TypeOK, CallerStep
<1>7. DiskStep(p, f)
  <2>1. p \notin unsaved => pages_[f].data_ = disk[p]
    BY <1>1 DEF PoolInv, AnnouncedWritesDurable, PinsAgree, Content, f
  <2>2. QED
    BY <1>1, <1>2, <1>4, <2>1 DEF TypeOK, DiskStep
<1>8. ReplacerStep(p, f)
  <2>1. /\ LRU!Consistent(replacer_') /\ replacer_' \in Replacers
        /\ replacer_'.map_ = replacer_.map_ \ {f}
    BY <1>1, <1>2, PinLemma DEF PoolInv, TypeOK, Replacers
  <2>2. QED
    BY <1>1, <1>3, <2>1 DEF ReplacerStep
<1>9. /\ PoolInv' /\ Content(p)' = pages_'[f].data_ /\ Content(p) = pages_[f].data_
      /\ \A q \in Page \ {p} : Content(q)' = Content(q)
  BY <1>1, <1>2, <1>5, <1>6, <1>7, <1>8, InPlaceStep DEF f
<1>10. QED
  BY <1>2, <1>4, <1>9 DEF Quiet, SameTables

\* FlushPage.
LEMMA FlushPageStep ==
  ASSUME PoolInv, NEW p \in Page, FlushPage(p)
  PROVE  PoolInv' /\ Quiet
<1> DEFINE f == page_table_[p]
<1>1. /\ Cached(p) /\ f \in Frame /\ TypeOK /\ pages_[f].page_id_ = p
      /\ pages_[f] \in FrameRecord /\ pages_[f].pin_count_ = pins[p] /\ pins[p] \in Nat
  BY FrameOfPage DEF FlushPage, PoolInv, FramesAccounted, TypeOK, PinsAgree
<1>2. /\ disk' = [disk EXCEPT ![p] = pages_[f].data_]
      /\ pages_' = [pages_ EXCEPT ![f].is_dirty_ = FALSE]
      /\ replacer_' = replacer_ /\ pins' = pins /\ ptr' = ptr /\ unsaved' = unsaved
      /\ SameTables
  BY DEF FlushPage, SameTables, callerVars
<1> HIDE DEF f
<1>3. pages_'[f] = [pages_[f] EXCEPT !.is_dirty_ = FALSE]
  BY <1>1, <1>2 DEF TypeOK
<1>4. pages_'[f].data_ = pages_[f].data_ /\ pages_[f].data_ \in Data
  BY <1>1, <1>3 DEF FrameRecord
<1>5. FrameStep(p, f)
  <2>1. pages_'[f].page_id_ = p /\ pages_'[f].pin_count_ = pins'[p]
    BY <1>1, <1>2, <1>3 DEF FrameRecord
  <2>2. pages_' \in [Frame -> FrameRecord]
    BY <1>1, <1>2 DEF TypeOK, FrameRecord
  <2>3. \A g \in Frame \ {f} : pages_'[g] = pages_[g]
    BY <1>1, <1>2 DEF TypeOK
  <2>4. QED
    BY <2>1, <2>2, <2>3 DEF FrameStep
<1>6. CallerStep(p, f)
  BY <1>1, <1>2 DEF TypeOK, CallerStep, PoolInv, PinsAgree, PointersStayValid, f
<1>7. DiskStep(p, f)
  BY <1>1, <1>2, <1>4 DEF TypeOK, DiskStep
<1>8. ReplacerStep(p, f)
  <2>1. ~Free(f)
    BY <1>1, FrameOfPage DEF f
  <2>2. replacer_ \in Replacers
    BY <1>1 DEF TypeOK, Replacers
  <2>3. QED
    BY <1>1, <1>2, <2>1, <2>2 DEF PoolInv, ReplacerStep, FramesAccounted, FramesUsable
<1>9. /\ PoolInv' /\ Content(p)' = pages_'[f].data_ /\ Content(p) = pages_[f].data_
      /\ \A q \in Page \ {p} : Content(q)' = Content(q)
  BY <1>1, <1>2, <1>5, <1>6, <1>7, <1>8, InPlaceStep DEF f
<1>10. QED
  BY <1>2, <1>4, <1>9 DEF Quiet, SameTables

\* A write through a pointer reaches the page it is meant for.
LEMMA CallerWriteStep ==
  ASSUME PoolInv, NEW p \in Page, NEW d \in Data, CallerWrite(p, d)
  PROVE  /\ PoolInv' /\ Live(p)
         /\ Content(p)' = d
         /\ \A q \in Page \ {p} : Content(q)' = Content(q)
         /\ next_page' = next_page /\ freed' = freed
<1> DEFINE f == page_table_[p]
<1>1. pins[p] > 0 /\ Cached(p) /\ ptr[p] = f /\ Live(p)
  BY DEF CallerWrite, PoolInv, PinsAgree, PointersStayValid
<1>2. /\ f \in Frame /\ TypeOK /\ pages_[f].page_id_ = p
      /\ pages_[f] \in FrameRecord /\ pages_[f].pin_count_ = pins[p] /\ pins[p] \in Nat
  BY <1>1, FrameOfPage DEF PoolInv, FramesAccounted, TypeOK, PinsAgree
<1>3. /\ pages_' = [pages_ EXCEPT ![f].data_ = d]
      /\ unsaved' = unsaved \union {p}
      /\ disk' = disk /\ replacer_' = replacer_ /\ pins' = pins /\ ptr' = ptr
      /\ SameTables
  BY <1>1 DEF CallerWrite, SameTables, diskVars
<1> HIDE DEF f
<1>4. pages_'[f] = [pages_[f] EXCEPT !.data_ = d]
  BY <1>2, <1>3 DEF TypeOK
<1>5. pages_'[f].data_ = d
  BY <1>2, <1>4 DEF FrameRecord
<1>6. FrameStep(p, f)
  <2>1. pages_'[f].page_id_ = p /\ pages_'[f].pin_count_ = pins'[p]
    BY <1>2, <1>3, <1>4 DEF FrameRecord
  <2>2. pages_' \in [Frame -> FrameRecord]
    BY <1>2, <1>3 DEF TypeOK, FrameRecord
  <2>3. \A g \in Frame \ {f} : pages_'[g] = pages_[g]
    BY <1>2, <1>3 DEF TypeOK
  <2>4. QED
    BY <2>1, <2>2, <2>3 DEF FrameStep
<1>7. CallerStep(p, f)
  BY <1>1, <1>2, <1>3 DEF TypeOK, CallerStep
<1>8. DiskStep(p, f)
  BY <1>2, <1>3 DEF TypeOK, DiskStep
<1>9. ReplacerStep(p, f)
  <2>1. replacer_ \in Replacers
    BY <1>2 DEF TypeOK, Replacers
  <2>2. QED
    BY <1>1, <1>2, <1>3, <2>1 DEF PoolInv, ReplacerStep, FramesAccounted
<1>10. /\ PoolInv' /\ Content(p)' = pages_'[f].data_
       /\ \A q \in Page \ {p} : Content(q)' = Content(q)
  BY <1>1, <1>2, <1>3, <1>6, <1>7, <1>8, <1>9, InPlaceStep DEF f
<1>11. QED
  BY <1>1, <1>3, <1>5, <1>10 DEF SameTables

\* UnpinPage, also of a page that is not in the pool or not pinned; the last
\* pin of a written page is given up with the dirty flag set.
LEMMA UnpinStep ==
  ASSUME PoolInv, NEW p \in Page, NEW is_dirty \in BOOLEAN, Unpinning(p, is_dirty)
  PROVE  PoolInv' /\ Quiet
<1> DEFINE f == page_table_[p]
           n == pages_[f].pin_count_
           left == IF n > 0 THEN n - 1 ELSE n
<1>1. /\ TypeOK /\ pins[p] \in Nat
      /\ pins' = [pins EXCEPT ![p] = IF @ > 0 THEN @ - 1 ELSE 0]
      /\ ptr' = [ptr EXCEPT ![p] = IF pins[p] > 1 THEN @ ELSE NoFrame]
      /\ unsaved' = IF is_dirty THEN unsaved \ {p} ELSE unsaved
      /\ SameTables
      /\ (pins[p] <= 1 /\ p \in unsaved) => is_dirty
  BY DEF Unpinning, UnpinPage, Release, PoolInv, FramesAccounted, TypeOK, SameTables
<1>2. CASE Cached(p)
  <2>1. /\ f \in Frame /\ pages_[f].page_id_ = p
        /\ pages_[f] \in FrameRecord /\ n = pins[p]
    BY <1>2, FrameOfPage DEF PoolInv, FramesAccounted, TypeOK, PinsAgree
  <2>2. /\ pages_' = [pages_ EXCEPT ![f].pin_count_ = left,
                                   ![f].is_dirty_ = @ /\ ~is_dirty]
        /\ replacer_' = IF left = 0 THEN LRU!AfterUnpin(replacer_, f) ELSE replacer_
        /\ disk' = IF is_dirty THEN [disk EXCEPT ![p] = pages_[f].data_] ELSE disk
    <3>1. n >= 0
      BY <1>1, <2>1
    <3>2. QED
      BY <1>2, <3>1, Zenon DEF Unpinning, UnpinPage
  <2>3. left = pins'[p] /\ pins'[p] \in Nat /\ (pins'[p] = 0 <=> pins[p] <= 1)
    BY <1>1, <2>1 DEF TypeOK
  <2> DEFINE new == [pages_[f] EXCEPT !.pin_count_ = left,
                                      !.is_dirty_ = @ /\ ~is_dirty]
  <2> HIDE DEF f, n, left
  <2>4. /\ new \in FrameRecord /\ new.page_id_ = p /\ new.pin_count_ = left
        /\ new.data_ = pages_[f].data_ /\ pages_[f].data_ \in Data
    BY <2>1, <2>3 DEF FrameRecord
  <2>5. pages_' = [pages_ EXCEPT ![f] = new]
    BY <1>1, <2>1, <2>2 DEF TypeOK
  <2> HIDE DEF new
  <2>6. pages_'[f] = new
    BY <1>1, <2>1, <2>5 DEF TypeOK
  <2>7. FrameStep(p, f)
    BY <1>1, <2>1, <2>3, <2>4, <2>5, <2>6 DEF TypeOK, FrameStep
  <2>8. pins'[p] > 0 => ptr'[p] = f
    <3>1. ASSUME pins'[p] > 0 PROVE ptr'[p] = f
      <4>1. pins[p] > 1
        BY <1>1, <2>3, <3>1
      <4>2. ptr'[p] = ptr[p] /\ ptr[p] = f
        BY <1>1, <4>1 DEF TypeOK, PoolInv, PointersStayValid, f
      <4>3. QED
        BY <4>2
    <3>2. QED
      BY <3>1
  <2>9. p \in unsaved' => pins'[p] > 0
    BY <1>1, <2>3
  <2>10. CallerStep(p, f)
    <3>1. pins' \in [Page -> Nat] /\ \A q \in Page \ {p} : pins'[q] = pins[q]
      BY <1>1 DEF TypeOK
    <3>2. /\ ptr' \in [Page -> Frame \union {NoFrame}]
          /\ \A q \in Page \ {p} : ptr'[q] = ptr[q]
      BY <1>1 DEF TypeOK
    <3>3. /\ unsaved' \subseteq Page
          /\ \A q \in Page \ {p} : q \in unsaved' <=> q \in unsaved
      BY <1>1 DEF TypeOK
    <3>4. QED
      BY <2>8, <2>9, <3>1, <3>2, <3>3 DEF CallerStep
  <2>11. DiskStep(p, f)
    <3>1. p \notin unsaved => pages_[f].data_ = disk[p]
      BY <1>2 DEF PoolInv, AnnouncedWritesDurable, PinsAgree, Content, f
    <3>2. CASE is_dirty
      BY <1>1, <2>1, <2>2, <2>4, <2>6, <3>2 DEF TypeOK, DiskStep
    <3>3. CASE ~is_dirty
      BY <1>1, <2>2, <2>4, <2>6, <3>1, <3>3 DEF TypeOK, DiskStep
    <3>4. QED
      BY <3>2, <3>3
  <2>12. ReplacerStep(p, f)
    <3>1. replacer_ \in Replacers /\ LRU!Consistent(replacer_)
      BY <1>1 DEF TypeOK, Replacers, PoolInv
    <3>2. CASE left = 0
      <4>1. /\ LRU!Consistent(replacer_') /\ replacer_' \in Replacers
            /\ replacer_'.map_ = replacer_.map_ \union {f}
        BY <2>1, <2>2, <3>1, <3>2, UnpinLemma
      <4>2. QED
        BY <2>1, <2>3, <3>2, <4>1 DEF ReplacerStep
    <3>3. CASE left # 0
      <4>1. freed = {} => f \notin replacer_.map_
        BY <1>1, <2>1, <2>3, <3>3 DEF PoolInv, FramesAccounted, n
      <4>2. QED
        BY <2>2, <2>3, <3>1, <3>3, <4>1 DEF ReplacerStep
    <3>4. QED
      BY <3>2, <3>3
  <2>13. /\ PoolInv' /\ Content(p)' = pages_'[f].data_ /\ Content(p) = pages_[f].data_
         /\ \A q \in Page \ {p} : Content(q)' = Content(q)
    BY <1>1, <1>2, <2>1, <2>7, <2>10, <2>11, <2>12, InPlaceStep DEF f
  <2>14. QED
    BY <1>1, <2>4, <2>6, <2>13 DEF Quiet, SameTables
<1>3. CASE ~Cached(p)
  <2>1. pins[p] = 0 /\ p \notin unsaved
    BY <1>1, <1>3 DEF PoolInv, PinsAgree
  <2>2. /\ pages_' = pages_ /\ replacer_' = replacer_ /\ disk' = disk
        /\ pins' = pins /\ unsaved' = unsaved
    <3>1. pages_' = pages_ /\ replacer_' = replacer_ /\ disk' = disk
      BY <1>3, Zenon DEF Unpinning, UnpinPage
    <3>2. QED
      BY <1>1, <2>1, <3>1 DEF TypeOK
  <2>3. /\ ptr' \in [Page -> Frame \union {NoFrame}]
        /\ \A q \in Page : pins[q] > 0 => ptr'[q] = ptr[q]
    BY <1>1, <2>1 DEF TypeOK
  <2>4. \A q \in Page :
          (Cached(q)' <=> Cached(q)) /\ (Live(q)' <=> Live(q)) /\ Content(q)' = Content(q)
    BY <1>1, <2>2 DEF Cached, Live, Content, SameTables
  <2>5. \A g \in Frame : Free(g)' <=> Free(g)
    BY <1>1 DEF SameTables, Free
  <2>6. TypeOK'
    BY <1>1, <2>2, <2>3 DEF TypeOK, SameTables
  <2>7. FramesAccounted' /\ FramesUsable' /\ PinsAgree' /\ Unallocated'
    BY <1>1, <2>2, <2>4, <2>5, <2>6
       DEF PoolInv, FramesAccounted, FramesUsable, PinsAgree, Unallocated, SameTables
  <2>8. AnnouncedWritesDurable' /\ PointersStayValid'
    BY <1>1, <2>2, <2>3, <2>4
       DEF PoolInv, AnnouncedWritesDurable, PointersStayValid, SameTables
  <2>9. QED
    BY <1>1, <2>2, <2>4, <2>7, <2>8 DEF PoolInv, Quiet, SameTables
<1>4. QED
  BY <1>2, <1>3

\* NewPage with a free frame.
LEMMA NewPageFreeStep ==
  ASSUME PoolInv, NewPageFree, NEW p \in Page, p = next_page
  PROVE  /\ PoolInv'
         /\ ~Live(p) /\ Live(p)'
         /\ \A q \in Page \ {p} : Live(q)' <=> Live(q)
         /\ Content(p)' = Zero
         /\ \A q \in Page \ {p} : Content(q)' = Content(q)
<1> DEFINE f == Back(free_list_)
           new == [page_id_ |-> p, pin_count_ |-> 1, is_dirty_ |-> TRUE, data_ |-> Zero]
<1> USE Ranges
<1>1. TypeOK /\ p \in Nat /\ ~Live(p) /\ p \notin freed /\ disk[p] = Zero
  BY MaxPagesAssumption
     DEF NewPageFree, PoolInv, FramesAccounted, TypeOK, Page, Live, Unallocated
<1>2. /\ free_list_' = PopBack(free_list_) /\ replacer_' = replacer_
      /\ page_table_' = [page_table_ EXCEPT ![p] = f]
      /\ pages_' = [pages_ EXCEPT ![f] = new]
      /\ next_page' = p + 1 /\ disk' = disk /\ freed' = freed
      /\ pins' = [pins EXCEPT ![p] = @ + 1] /\ ptr' = [ptr EXCEPT ![p] = f]
      /\ unsaved' = unsaved
  BY DEF NewPageFree, Install, Receive
<1>3. /\ free_list_' \in Seq(Frame) /\ Distinct(free_list_')
      /\ LRU!FramesOf(free_list_') = LRU!FramesOf(free_list_) \ {f}
      /\ f \in Frame /\ Free(f)
  <2>1. free_list_ \in Seq(Frame) /\ Distinct(free_list_) /\ free_list_ # <<>>
    BY <1>1 DEF PoolInv, TypeOK, NewPageFree
  <2>2. QED
    BY <1>2, <2>1, PopBackLemma DEF Free
<1>4. ~Cached(p) /\ pins[p] = 0 /\ p \notin unsaved /\ page_table_[p] = NoFrame
  BY <1>1 DEF PoolInv, PinsAgree, Cached
<1>5. new \in FrameRecord /\ new.page_id_ = p /\ new.pin_count_ = 1 /\ new.data_ = Zero
  BY <1>1, DataAssumption DEF FrameRecord
<1> HIDE DEF f, new
<1>6. /\ pages_' \in [Frame -> FrameRecord] /\ pages_'[f] = new
      /\ \A g \in Frame \ {f} : pages_'[g] = pages_[g]
  BY <1>1, <1>2, <1>3, <1>5 DEF TypeOK
<1>7. /\ page_table_' \in [Page -> Frame \union {NoFrame}] /\ page_table_'[p] = f
      /\ \A q \in Page \ {p} : page_table_'[q] = page_table_[q]
  BY <1>1, <1>2, <1>3 DEF TypeOK
<1>8. /\ pins' \in [Page -> Nat] /\ pins'[p] = 1
      /\ ptr' \in [Page -> Frame \union {NoFrame}] /\ ptr'[p] = f
      /\ \A q \in Page \ {p} : pins'[q] = pins[q] /\ ptr'[q] = ptr[q]
  BY <1>1, <1>2, <1>3, <1>4 DEF TypeOK
<1>9. TypeOK'
  <2>1. next_page' \in 0 .. MaxPages
    BY <1>1, <1>2, MaxPagesAssumption DEF NewPageFree
  <2>2. \A q \in Page : pins'[q] > 0 => ptr'[q] # NoFrame
    BY <1>1, <1>3, <1>8 DEF TypeOK
  <2>3. QED
    BY <1>1, <1>2, <1>3, <1>6, <1>7, <1>8, <2>1, <2>2 DEF TypeOK
<1>10. /\ Cached(p)' /\ Live(p)'
       /\ \A q \in Page \ {p} : (Cached(q)' <=> Cached(q)) /\ (Live(q)' <=> Live(q))
  <2>1. Cached(p)' /\ \A q \in Page \ {p} : (Cached(q)' <=> Cached(q))
    BY <1>1, <1>3, <1>7 DEF Cached
  <2>2. Live(p)' /\ \A q \in Page \ {p} : (Live(q)' <=> Live(q))
    BY <1>1, <1>2 DEF Live
  <2>3. QED
    BY <2>1, <2>2
<1>11. \A g \in Frame : Free(g)' <=> (Free(g) /\ g # f)
  BY <1>3 DEF Free
<1>12. \A q \in Page \ {p} : Cached(q) =>
         page_table_[q] \in Frame \ {f} /\ pages_'[page_table_[q]] = pages_[page_table_[q]]
  <2>1. SUFFICES ASSUME NEW q \in Page \ {p}, Cached(q)
                 PROVE  /\ page_table_[q] \in Frame \ {f}
                        /\ pages_'[page_table_[q]] = pages_[page_table_[q]]
    OBVIOUS
  <2>2. page_table_[q] \in Frame /\ ~Free(page_table_[q])
    BY <2>1, FrameOfPage
  <2>3. QED
    BY <1>3, <1>6, <2>2
<1>13. FramesAccounted'
  <2>1. ASSUME NEW q \in Page, Cached(q)'
        PROVE  pages_'[page_table_'[q]].page_id_ = q
    <3>1. CASE q = p
      BY <1>5, <1>6, <1>7, <3>1
    <3>2. CASE q # p
      <4>1. Cached(q)
        BY <1>10, <2>1, <3>2
      <4>2. QED
        BY <1>7, <1>12, <3>2, <4>1, FrameOfPage
    <3>3. QED
      BY <3>1, <3>2
  <2>2. ASSUME NEW g \in Frame
        PROVE  /\ Free(g)' <=> pages_'[g].page_id_ = INVALID_PAGE_ID
               /\ ~Free(g)' => page_table_'[pages_'[g].page_id_] = g
               /\ freed' = {} =>
                    (g \in replacer_'.map_ <=> (~Free(g)' /\ pages_'[g].pin_count_ = 0))
    <3>1. CASE g = f
      <4>1. ~Free(g)' /\ pages_'[g].page_id_ = p /\ pages_'[g].pin_count_ = 1
        BY <1>5, <1>6, <1>11, <3>1
      <4>2. freed' = {} => g \notin replacer_'.map_
        BY <1>2, <1>3, <3>1 DEF PoolInv, FramesAccounted
      <4>3. QED
        BY <1>1, <1>7, <3>1, <4>1, <4>2
    <3>2. CASE g # f
      <4>1. pages_'[g] = pages_[g] /\ (Free(g)' <=> Free(g))
        BY <1>6, <1>11, <3>2
      <4>2. ~Free(g) => /\ pages_[g].page_id_ \in Page \ {p}
                        /\ page_table_[pages_[g].page_id_] = g
        BY <1>1, <1>4 DEF PoolInv, FramesAccounted, TypeOK, FrameRecord
      <4>3. QED
        BY <1>2, <1>7, <4>1, <4>2 DEF PoolInv, FramesAccounted
    <3>3. QED
      BY <3>1, <3>2
  <2>3. QED
    BY <1>9, <2>1, <2>2 DEF FramesAccounted
<1>14. PinsAgree'
  <2>1. SUFFICES ASSUME NEW q \in Page
                 PROVE  /\ Cached(q)' => /\ pages_'[page_table_'[q]].pin_count_ = pins'[q]
                                         /\ Live(q)'
                        /\ ~Cached(q)' => pins'[q] = 0
                        /\ q \in unsaved' => pins'[q] > 0
    BY DEF PinsAgree
  <2>2. CASE q = p
    BY <1>5, <1>6, <1>7, <1>8, <1>10, <2>2
  <2>3. CASE q # p
    <3>1. /\ Cached(q) => pages_[page_table_[q]].pin_count_ = pins[q] /\ Live(q)
          /\ ~Cached(q) => pins[q] = 0
          /\ q \in unsaved => pins[q] > 0
      BY DEF PoolInv, PinsAgree
    <3>2. Cached(q) => pages_'[page_table_'[q]] = pages_[page_table_[q]]
      BY <1>7, <1>12, <2>3
    <3>3. pins'[q] = pins[q] /\ unsaved' = unsaved
      BY <1>2, <1>8, <2>3
    <3>4. QED
      BY <1>10, <2>3, <3>1, <3>2, <3>3
  <2>4. QED
    BY <2>2, <2>3
<1>15. PointersStayValid'
  <2>1. SUFFICES ASSUME NEW q \in Page, pins'[q] > 0
                 PROVE  page_table_'[q] = ptr'[q] /\ pages_'[ptr'[q]].page_id_ = q
    BY DEF PointersStayValid
  <2>2. CASE q = p
    BY <1>5, <1>6, <1>7, <1>8, <2>2
  <2>3. CASE q # p
    <3>1. pins[q] > 0 /\ ptr'[q] = ptr[q] /\ page_table_[q] = ptr[q]
      BY <1>8, <2>1, <2>3 DEF PoolInv, PointersStayValid
    <3>2. Cached(q)
      BY <3>1 DEF PoolInv, PinsAgree
    <3>3. QED
      BY <1>7, <1>12, <2>3, <3>1, <3>2, FrameOfPage, ZenonT(60)
  <2>4. QED
    BY <2>2, <2>3
<1>16. FramesUsable'
  <2>1. SUFFICES ASSUME NEW g \in Frame
                 PROVE  /\ Free(g)' => pages_'[g].pin_count_ = 0
                        /\ (~Free(g)' /\ pages_'[g].pin_count_ = 0) => g \in replacer_'.map_
    BY DEF FramesUsable
  <2>2. CASE g = f
    BY <1>5, <1>6, <1>11, <2>2
  <2>3. CASE g # f
    BY <1>2, <1>6, <1>11, <2>3 DEF PoolInv, FramesUsable
  <2>4. QED
    BY <2>2, <2>3
<1>17. /\ Content(p)' = Zero
       /\ \A q \in Page \ {p} : Content(q)' = Content(q)
  <2>1. Content(p)' = Zero
    BY <1>1, <1>5, <1>6, <1>7, <1>10 DEF Content, Cached
  <2>2. ASSUME NEW q \in Page \ {p} PROVE Content(q)' = Content(q)
    <3>1. CASE Cached(q)
      BY <1>7, <1>10, <1>12, <3>1 DEF Content
    <3>2. CASE ~Cached(q)
      BY <1>2, <1>10, <3>2 DEF Content
    <3>3. QED
      BY <3>1, <3>2
  <2>3. QED
    BY <2>1, <2>2
<1>18. AnnouncedWritesDurable'
  <2>1. SUFFICES ASSUME NEW q \in Page, Live(q)', q \notin unsaved'
                 PROVE  Content(q)' = disk'[q]
    BY DEF AnnouncedWritesDurable
  <2>2. CASE q = p
    <3>1. disk'[p] = Zero
      BY <1>1, <1>2
    <3>2. QED
      BY <1>17, <2>2, <3>1
  <2>3. CASE q # p
    <3>1. Content(q) = disk[q]
      BY <1>2, <1>10, <2>1, <2>3 DEF PoolInv, AnnouncedWritesDurable
    <3>2. QED
      BY <1>2, <1>17, <2>3, <3>1
  <2>4. QED
    BY <2>2, <2>3
<1>19. Unallocated'
  BY <1>1, <1>2 DEF PoolInv, Unallocated
<1>20. Distinct(free_list_)' /\ LRU!Consistent(replacer_)'
  BY <1>2, <1>3 DEF PoolInv
<1>21. QED
  BY <1>1, <1>10, <1>13, <1>14, <1>15, <1>16, <1>17, <1>18, <1>19, <1>20 DEF PoolInv

\* DeletePage of an unpinned page.
LEMMA DeleteStep ==
  ASSUME PoolInv, NEW p \in Page, Live(p), pins[p] = 0, DeletePage(p)
  PROVE  /\ PoolInv'
         /\ ~Live(p)'
         /\ \A q \in Page \ {p} : Live(q)' <=> Live(q)
         /\ Content(p)' = disk[p]
         /\ \A q \in Page \ {p} : Content(q)' = Content(q)
<1> USE Ranges
<1>1. /\ TypeOK /\ freed' = freed \union {p} /\ freed' # {}
      /\ replacer_' = replacer_ /\ disk' = disk /\ next_page' = next_page
      /\ pins' = pins /\ ptr' = ptr /\ unsaved' = unsaved
  BY DEF DeletePage, callerVars, PoolInv, FramesAccounted
<1>2. ~Live(p)' /\ \A q \in Page \ {p} : Live(q)' <=> Live(q)
  BY <1>1 DEF Live
<1>3. Unallocated'
  <2>1. \A q \in Page : q >= next_page => q # p
    BY <1>1 DEF Live, TypeOK
  <2>2. QED
    BY <1>1, <2>1 DEF PoolInv, Unallocated
<1>4. CASE ~Cached(p)
  <2>1. pages_' = pages_ /\ page_table_' = page_table_ /\ free_list_' = free_list_
    BY <1>4, Zenon DEF DeletePage
  <2>2. \A q \in Page : (Cached(q)' <=> Cached(q)) /\ Content(q)' = Content(q)
    BY <1>1, <2>1 DEF Cached, Content
  <2>3. \A g \in Frame : Free(g)' <=> Free(g)
    BY <2>1 DEF Free
  <2>4. TypeOK'
    BY <1>1, <2>1 DEF TypeOK
  <2>5. FramesAccounted'
    BY <1>1, <2>1, <2>2, <2>3, <2>4 DEF PoolInv, FramesAccounted
  <2>6. PinsAgree'
    BY <1>1, <1>2, <1>4, <2>1, <2>2 DEF PoolInv, PinsAgree
  <2>7. FramesUsable' /\ PointersStayValid'
    BY <1>1, <2>1, <2>3 DEF PoolInv, FramesUsable, PointersStayValid
  <2>8. AnnouncedWritesDurable'
    BY <1>1, <1>2, <2>2 DEF PoolInv, AnnouncedWritesDurable
  <2>9. Content(p)' = disk[p]
    BY <1>4, <2>2 DEF Content
  <2>10. QED
    BY <1>1, <1>2, <1>3, <2>1, <2>2, <2>5, <2>6, <2>7, <2>8, <2>9 DEF PoolInv
<1>5. CASE Cached(p)
  <2> DEFINE f == page_table_[p]
             new == [pages_[f] EXCEPT !.page_id_ = INVALID_PAGE_ID, !.data_ = Zero]
  <2>1. /\ f \in Frame /\ ~Free(f) /\ pages_[f].page_id_ = p
        /\ pages_[f] \in FrameRecord /\ pages_[f].pin_count_ = 0
    BY <1>1, <1>5, FrameOfPage DEF PoolInv, PinsAgree, TypeOK
  <2>2. /\ pages_' = [pages_ EXCEPT ![f].page_id_ = INVALID_PAGE_ID, ![f].data_ = Zero]
        /\ page_table_' = [page_table_ EXCEPT ![p] = NoFrame]
        /\ free_list_' = Append(free_list_, f)
    BY <1>5, <2>1, Zenon DEF DeletePage
  <2> HIDE DEF f
  <2>3. /\ new \in FrameRecord /\ new.page_id_ = INVALID_PAGE_ID /\ new.pin_count_ = 0
    BY <2>1, DataAssumption DEF FrameRecord
  <2>4. pages_' = [pages_ EXCEPT ![f] = new]
    BY <1>1, <2>1, <2>2 DEF TypeOK
  <2> HIDE DEF new
  <2>5. /\ pages_' \in [Frame -> FrameRecord] /\ pages_'[f] = new
        /\ \A g \in Frame \ {f} : pages_'[g] = pages_[g]
    BY <1>1, <2>1, <2>3, <2>4 DEF TypeOK
  <2>6. /\ page_table_' \in [Page -> Frame \union {NoFrame}]
        /\ page_table_'[p] = NoFrame
        /\ \A q \in Page \ {p} : page_table_'[q] = page_table_[q]
    BY <1>1, <2>2 DEF TypeOK
  <2>7. /\ free_list_' \in Seq(Frame) /\ Distinct(free_list_')
        /\ LRU!FramesOf(free_list_') = LRU!FramesOf(free_list_) \union {f}
    <3>1. free_list_ \in Seq(Frame) /\ Distinct(free_list_)
          /\ f \in Frame \ LRU!FramesOf(free_list_)
      BY <1>1, <2>1 DEF PoolInv, TypeOK, Free
    <3>2. QED
      BY <2>2, <3>1, PushBackLemma
  <2>8. TypeOK'
    <3>1. freed' \subseteq Page
      BY <1>1 DEF TypeOK
    <3>2. QED
      BY <1>1, <2>5, <2>6, <2>7, <3>1 DEF TypeOK
  <2>9. ~Cached(p)' /\ \A q \in Page \ {p} : Cached(q)' <=> Cached(q)
    BY <2>6 DEF Cached
  <2>10. \A g \in Frame : Free(g)' <=> (Free(g) \/ g = f)
    BY <2>7 DEF Free
  <2>11. \A q \in Page \ {p} : Cached(q) =>
           page_table_[q] \in Frame \ {f} /\ pages_'[page_table_[q]] = pages_[page_table_[q]]
    BY <1>5, <2>5, FrameOfPage DEF f
  <2>12. FramesAccounted'
    <3>1. ASSUME NEW q \in Page, Cached(q)'
          PROVE  pages_'[page_table_'[q]].page_id_ = q
      <4>1. q # p /\ Cached(q)
        BY <2>9, <3>1
      <4>2. QED
        BY <2>6, <2>11, <4>1, FrameOfPage
    <3>2. ASSUME NEW g \in Frame
          PROVE  /\ Free(g)' <=> pages_'[g].page_id_ = INVALID_PAGE_ID
                 /\ ~Free(g)' => page_table_'[pages_'[g].page_id_] = g
      <4>1. CASE g = f
        BY <2>3, <2>5, <2>10, <4>1
      <4>2. CASE g # f
        <5>1. pages_'[g] = pages_[g] /\ (Free(g)' <=> Free(g))
          BY <2>5, <2>10, <4>2
        <5>2. ~Free(g) => /\ pages_[g].page_id_ \in Page
                          /\ page_table_[pages_[g].page_id_] = g
          BY <1>1 DEF PoolInv, FramesAccounted, TypeOK, FrameRecord
        <5>3. ~Free(g) => pages_[g].page_id_ # p
          BY <4>2, <5>2 DEF f
        <5>4. QED
          BY <2>6, <5>1, <5>2, <5>3 DEF PoolInv, FramesAccounted
      <4>3. QED
        BY <4>1, <4>2
    <3>3. QED
      BY <1>1, <2>8, <3>1, <3>2 DEF FramesAccounted
  <2>13. PinsAgree'
    <3>1. SUFFICES ASSUME NEW q \in Page
                   PROVE  /\ Cached(q)' => /\ pages_'[page_table_'[q]].pin_count_ = pins[q]
                                           /\ Live(q)'
                          /\ ~Cached(q)' => pins[q] = 0
                          /\ q \in unsaved => pins[q] > 0
      BY <1>1 DEF PinsAgree
    <3>2. /\ Cached(q) => pages_[page_table_[q]].pin_count_ = pins[q] /\ Live(q)
          /\ ~Cached(q) => pins[q] = 0
          /\ q \in unsaved => pins[q] > 0
      BY DEF PoolInv, PinsAgree
    <3>3. CASE q = p
      BY <2>9, <3>2, <3>3
    <3>4. CASE q # p
      BY <1>2, <2>6, <2>9, <2>11, <3>2, <3>4
    <3>5. QED
      BY <3>3, <3>4
  <2>14. FramesUsable'
    <3>1. SUFFICES ASSUME NEW g \in Frame
                   PROVE  /\ Free(g)' => pages_'[g].pin_count_ = 0
                          /\ (~Free(g)' /\ pages_'[g].pin_count_ = 0) => g \in replacer_'.map_
      BY DEF FramesUsable
    <3>2. CASE g = f
      BY <2>3, <2>5, <2>10, <3>2
    <3>3. CASE g # f
      BY <1>1, <2>5, <2>10, <3>3 DEF PoolInv, FramesUsable
    <3>4. QED
      BY <3>2, <3>3
  <2>15. PointersStayValid'
    <3>1. SUFFICES ASSUME NEW q \in Page, pins[q] > 0
                   PROVE  page_table_'[q] = ptr[q] /\ pages_'[ptr[q]].page_id_ = q
      BY <1>1 DEF PointersStayValid
    <3>2. q # p /\ Cached(q) /\ page_table_[q] = ptr[q]
      BY <3>1 DEF PoolInv, PointersStayValid, PinsAgree
    <3>3. QED
      BY <2>6, <2>11, <3>2, FrameOfPage
  <2>16. Content(p)' = disk[p] /\ \A q \in Page \ {p} : Content(q)' = Content(q)
    <3>1. Content(p)' = disk[p]
      BY <1>1, <2>9 DEF Content
    <3>2. ASSUME NEW q \in Page \ {p} PROVE Content(q)' = Content(q)
      <4>1. CASE Cached(q)
        BY <2>6, <2>9, <2>11, <4>1 DEF Content
      <4>2. CASE ~Cached(q)
        BY <1>1, <2>9, <4>2 DEF Content
      <4>3. QED
        BY <4>1, <4>2
    <3>3. QED
      BY <3>1, <3>2
  <2>17. AnnouncedWritesDurable'
    BY <1>1, <1>2, <2>16 DEF PoolInv, AnnouncedWritesDurable
  <2>18. Distinct(free_list_)' /\ LRU!Consistent(replacer_)'
    BY <1>1, <2>7 DEF PoolInv
  <2>19. QED
    BY <1>2, <1>3, <2>12, <2>13, <2>14, <2>15, <2>16, <2>17, <2>18 DEF PoolInv
<1>6. QED
  BY <1>4, <1>5

\* A step that changes nothing.
LEMMA StutterStep ==
  ASSUME PoolInv, UNCHANGED vars
  PROVE  PoolInv' /\ Quiet
<1>1. /\ page_table_' = page_table_ /\ pages_' = pages_ /\ free_list_' = free_list_
      /\ replacer_' = replacer_ /\ disk' = disk /\ next_page' = next_page
      /\ freed' = freed /\ pins' = pins /\ ptr' = ptr /\ unsaved' = unsaved
  BY DEF vars, poolVars, diskVars, callerVars
<1>2. \A q \in Page :
        (Cached(q)' <=> Cached(q)) /\ (Live(q)' <=> Live(q)) /\ Content(q)' = Content(q)
  BY <1>1 DEF Cached, Live, Content
<1>3. \A g \in Frame : Free(g)' <=> Free(g)
  BY <1>1 DEF Free
<1>4. TypeOK'
  BY <1>1 DEF PoolInv, FramesAccounted, TypeOK
<1>5. FramesAccounted'
  BY <1>1, <1>2, <1>3, <1>4 DEF PoolInv, FramesAccounted
<1>6. PinsAgree' /\ FramesUsable' /\ PointersStayValid'
  BY <1>1, <1>2, <1>3 DEF PoolInv, PinsAgree, FramesUsable, PointersStayValid
<1>7. AnnouncedWritesDurable' /\ Unallocated'
  BY <1>1, <1>2 DEF PoolInv, AnnouncedWritesDurable, Unallocated
<1>8. QED
  BY <1>1, <1>2, <1>5, <1>6, <1>7 DEF PoolInv, Quiet

-----------------------------------------------------------------------------
(***************************************************************************)
(* What a step can do, seen through the pages.                             *)
(***************************************************************************)
ChangesOnly(p) ==
  /\ \A q \in Page \ {p} : Content(q)' = Content(q)
  /\ \A q \in Page \ {p} : Live(q)' <=> Live(q)

HandsOut(p) == ChangesOnly(p) /\ ~Live(p) /\ Live(p)' /\ Content(p)' = Zero

TakesBack(p) == ChangesOnly(p) /\ ~Live(p)' /\ Content(p)' = disk[p] /\ p \in freed'

Writes(p, d) ==
  ChangesOnly(p) /\ Live(p) /\ Live(p)' /\ Content(p)' = d /\ CallerWrite(p, d)

\* Every step of the pool and its careful callers keeps the invariant, and it
\* changes nothing, hands out a page, takes one back, or is a caller's write.
LEMMA CarefulStep ==
  ASSUME PoolInv, [CarefulNext]_vars
  PROVE  /\ PoolInv'
         /\ \/ Quiet
            \/ \E p \in Page : HandsOut(p) \/ TakesBack(p)
            \/ \E p \in Page, d \in Data : Writes(p, d)
<1>1. ASSUME NEW p \in Page, FetchHit(p) PROVE PoolInv' /\ Quiet
  BY <1>1, FetchHitStep
<1>2. ASSUME NEW p \in Page, FlushPage(p) PROVE PoolInv' /\ Quiet
  BY <1>2, FlushPageStep
<1>3. ASSUME NEW p \in Page, NEW is_dirty \in BOOLEAN, Unpinning(p, is_dirty)
      PROVE  PoolInv' /\ Quiet
  BY <1>3, UnpinStep
<1>4. ASSUME NEW p \in Page, NEW d \in Data, CallerWrite(p, d)
      PROVE  PoolInv' /\ Writes(p, d)
  <2>1. /\ PoolInv' /\ Live(p) /\ Content(p)' = d
        /\ \A q \in Page \ {p} : Content(q)' = Content(q)
        /\ next_page' = next_page /\ freed' = freed
    BY <1>4, CallerWriteStep
  <2>2. \A q \in Page : Live(q)' <=> Live(q)
    BY <2>1 DEF Live
  <2>3. QED
    BY <1>4, <2>1, <2>2 DEF Writes, ChangesOnly
<1>5. ASSUME NewPageFree PROVE PoolInv' /\ \E p \in Page : HandsOut(p)
  <2>1. next_page \in Page
    BY <1>5, MaxPagesAssumption
       DEF NewPageFree, PoolInv, FramesAccounted, TypeOK, Page
  <2>2. PICK p \in Page : p = next_page
    BY <2>1
  <2>3. PoolInv' /\ HandsOut(p)
    BY <1>5, <2>2, NewPageFreeStep DEF HandsOut, ChangesOnly
  <2>4. QED
    BY <2>3
<1>6. ASSUME Restart PROVE PoolInv' /\ Quiet
  BY <1>6, RestartStep
<1>7. ASSUME FetchingFree PROVE PoolInv' /\ Quiet
  BY <1>7, FetchFreeStep DEF FetchingFree
<1>8. ASSUME freed = {}, FetchingVictim PROVE PoolInv' /\ Quiet
  BY <1>8, FetchVictimStep DEF FetchingVictim
<1>9. ASSUME DeletingUnpinned PROVE PoolInv' /\ \E p \in Page : TakesBack(p)
  <2>1. PICK p \in Page : Live(p) /\ pins[p] = 0 /\ DeletePage(p)
    BY <1>9 DEF DeletingUnpinned
  <2>2. p \in freed'
    BY <2>1 DEF DeletePage
  <2>3. PoolInv' /\ TakesBack(p)
    BY <2>1, <2>2, DeleteStep DEF TakesBack, ChangesOnly
  <2>4. QED
    BY <2>3
<1>10. CASE UNCHANGED vars
  BY <1>10, StutterStep
<1>11. QED
  BY <1>1, <1>2, <1>3, <1>4, <1>5, <1>6, <1>7, <1>8, <1>9, <1>10
     DEF CarefulNext, Always

-----------------------------------------------------------------------------
\* The pool, its free list, its replacer and its callers agree in every state
\* that careful callers can reach.
THEOREM PoolInductive == CarefulSpec => []PoolInv
<1>1. PoolInv /\ [CarefulNext]_vars => PoolInv'
  BY CarefulStep
<1>2. QED
  BY InitPoolInv, <1>1, PTL DEF CarefulSpec

\* Every frame is free or holds the page the page table sends to it, and the
\* replacer knows the unpinned ones.
THEOREM FramesStayAccounted == CarefulSpec => []FramesAccounted
BY PoolInductive, PTL DEF PoolInv

\* No caller that holds a pin ever loses its frame to another page.
THEOREM PointersValid == CarefulSpec => []PointersStayValid
BY PoolInductive, PTL DEF PoolInv

\* What UnpinPage was told is dirty is in the file.
THEOREM AnnouncedDurable == CarefulSpec => []AnnouncedWritesDurable
BY PoolInductive, PTL DEF PoolInv

\* No eviction, flush, fetch, delete or restart changes the bytes of a page in
\* use, and no write through a pointer changes another page.
THEOREM BytesChangedByCallersOnly == CarefulSpec => OnlyCallersChangeBytes
<1>1. ASSUME PoolInv, [CarefulNext]_vars
      PROVE  [\A p \in Page : (Live(p) /\ p \notin freed' /\ Content(p)' # Content(p)) =>
                \E d \in Data : CallerWrite(p, d)]_vars
  <2>1. SUFFICES ASSUME NEW p \in Page, Live(p), p \notin freed', Content(p)' # Content(p)
                 PROVE  \E d \in Data : CallerWrite(p, d)
    OBVIOUS
  <2>2. CASE Quiet
    BY <2>1, <2>2 DEF Quiet
  <2>3. ASSUME NEW q \in Page, HandsOut(q) \/ TakesBack(q) PROVE FALSE
    <3>1. q = p
      BY <2>1, <2>3 DEF HandsOut, TakesBack, ChangesOnly
    <3>2. QED
      BY <2>1, <2>3, <3>1 DEF HandsOut, TakesBack
  <2>4. ASSUME NEW q \in Page, NEW d \in Data, Writes(q, d)
        PROVE  \E e \in Data : CallerWrite(p, e)
    <3>1. q = p
      BY <2>1, <2>4 DEF Writes, ChangesOnly
    <3>2. QED
      BY <2>4, <3>1 DEF Writes
  <2>5. QED
    BY <1>1, <2>2, <2>3, <2>4, CarefulStep
<1>2. QED
  BY PoolInductive, <1>1, PTL DEF CarefulSpec, OnlyCallersChangeBytes

-----------------------------------------------------------------------------
(***************************************************************************)
(* The pool implements PageStore: every step is a step of the store or     *)
(* leaves its state alone.                                                 *)
(***************************************************************************)
Owners == [p \in Page |-> IF Live(p) THEN 1 ELSE 0]
Contents == [p \in Page |-> Content(p)]

\* Who owns a page after a step.
LEMMA OwnersStep ==
  ASSUME NEW p \in Page, ChangesOnly(p)
  PROVE  /\ Owners' = [Owners EXCEPT ![p] = IF Live(p)' THEN 1 ELSE 0]
         /\ Contents' = [Contents EXCEPT ![p] = Content(p)']
BY DEF ChangesOnly, Owners, Contents

\* Every step of the pool is a step of the page store, or none.
LEMMA StoreStep ==
  ASSUME PoolInv, [CarefulNext]_vars
  PROVE  [PS!Next]_(PS!vars)
<1>1. CASE Quiet
  <2>1. \A q \in Page : Live(q)' <=> Live(q)
    BY <1>1 DEF Quiet, Live
  <2>2. Owners' = Owners /\ Contents' = Contents
    BY <1>1, <2>1 DEF Quiet, Owners, Contents
  <2>3. QED
    BY <2>2 DEF PS!vars, Owners, Contents
<1>2. ASSUME NEW p \in Page, HandsOut(p) PROVE PS!Next
  <2>1. /\ Owners[p] = 0
        /\ Owners' = [Owners EXCEPT ![p] = 1]
        /\ Contents' = [Contents EXCEPT ![p] = Zero]
    BY <1>2, OwnersStep DEF HandsOut, Owners
  <2>2. PS!Allocate(p)
    BY <2>1, DataAssumption DEF PS!Allocate, Owners, Contents
  <2>3. QED
    BY <2>2 DEF PS!Next
<1>3. ASSUME NEW p \in Page, TakesBack(p) PROVE PS!Next
  <2>1. /\ disk[p] \in Data
        /\ Owners' = [Owners EXCEPT ![p] = 0]
        /\ Contents' = [Contents EXCEPT ![p] = disk[p]]
    BY <1>3, OwnersStep DEF TakesBack, PoolInv, FramesAccounted, TypeOK
  <2>2. PS!Free(p)
    BY <2>1 DEF PS!Free, Owners, Contents
  <2>3. QED
    BY <2>2 DEF PS!Next
<1>4. ASSUME NEW p \in Page, NEW d \in Data, Writes(p, d) PROVE PS!Next
  <2>1. /\ Owners[p] = 1
        /\ Owners' = Owners
        /\ Contents' = [Contents EXCEPT ![p] = d]
    BY <1>4, OwnersStep DEF Writes, Owners
  <2>2. PS!Write(p, d)
    BY <2>1 DEF PS!Write, Owners, Contents
  <2>3. QED
    BY <2>2 DEF PS!Next
<1>5. QED
  BY <1>1, <1>2, <1>3, <1>4, CarefulStep

\* The cache behaves as the store it caches: a page is handed out while nobody
\* has it, written by who has it, and no step touches two pages.
THEOREM PoolImplementsPageStore == CarefulSpec => ImplementsPageStore
<1>1. Init => PS!Init
  <2> SUFFICES ASSUME Init PROVE PS!Init
    OBVIOUS
  <2>1. \A p \in Page : ~Live(p) /\ Content(p) = Zero
    BY Ranges DEF Init, Live, Content, Cached, EmptyPool, Page
  <2>2. Owners = [p \in Page |-> 0] /\ Contents = [p \in Page |-> Zero]
    BY <2>1 DEF Owners, Contents
  <2>3. QED
    BY <2>2 DEF PS!Init, Owners, Contents
<1>2. PoolInv /\ [CarefulNext]_vars => [PS!Next]_(PS!vars)
  BY StoreStep
<1>3. QED
  BY PoolInductive, <1>1, <1>2, PTL DEF CarefulSpec, ImplementsPageStore, PS!Spec

=============================================================================
