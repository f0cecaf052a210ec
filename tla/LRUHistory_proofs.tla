-------------------------- MODULE LRUHistory_proofs -------------------------
(***************************************************************************)
(* The replacer's policy, for any finite set of frames: it holds exactly   *)
(* the frames that were unpinned and not taken since, in the order of      *)
(* their unpins.  The three properties are proved together, as one         *)
(* inductive invariant: that the list is in order says nothing of a frame  *)
(* whose unpin was dropped, and that none is dropped rests on the size     *)
(* being the number of frames.                                             *)
(***************************************************************************)
EXTENDS LRUHistory, FiniteSetTheorems, TLAPS

-----------------------------------------------------------------------------
(***************************************************************************)
(* What the operations of the replacer do to a consistent one; the proofs  *)
(* about the buffer pool use these lemmas too.                             *)
(***************************************************************************)
\* list::erase takes out the frame and keeps the order of the others.
LEMMA EraseProperties ==
  ASSUME NEW s \in Seq(Frame), NEW f \in FramesOf(s),
         \A i, j \in DOMAIN s : s[i] = s[j] => i = j
  PROVE  /\ Erase(s, f) \in Seq(Frame)
         /\ Len(Erase(s, f)) = Len(s) - 1
         /\ FramesOf(Erase(s, f)) = FramesOf(s) \ {f}
         /\ \A i, j \in DOMAIN Erase(s, f) :
              Erase(s, f)[i] = Erase(s, f)[j] => i = j
         /\ \A i, j \in DOMAIN Erase(s, f) : i < j =>
              \E m, l \in DOMAIN s :
                m < l /\ Erase(s, f)[i] = s[m] /\ Erase(s, f)[j] = s[l]
<1> DEFINE k == CHOOSE n \in DOMAIN s : s[n] = f
           e == [i \in 1 .. Len(s) - 1 |-> s[IF i < k THEN i ELSE i + 1]]
           at(i) == IF i < k THEN i ELSE i + 1
<1>1. k \in 1 .. Len(s) /\ s[k] = f /\ Len(s) \in Nat /\ DOMAIN s = 1 .. Len(s)
  BY DEF FramesOf
<1>2. Erase(s, f) = e
  BY DEF Erase, EraseAt
<1> HIDE DEF k
<1>3. /\ e \in Seq(Frame)
      /\ Len(e) = Len(s) - 1
      /\ DOMAIN e = 1 .. Len(s) - 1
  BY <1>1
<1>4. \A i \in DOMAIN e : at(i) \in DOMAIN s /\ at(i) # k /\ e[i] = s[at(i)]
  BY <1>1, <1>3
<1>5. \A i, j \in DOMAIN e : i < j => at(i) < at(j)
  BY <1>1, <1>3
<1>6. \A i, j \in DOMAIN e : e[i] = e[j] => i = j
  BY <1>1, <1>3, <1>4, SMTT(30)
<1>7. \A i, j \in DOMAIN e : i < j =>
        \E m, l \in DOMAIN s : m < l /\ e[i] = s[m] /\ e[j] = s[l]
  BY <1>4, <1>5
<1>8. FramesOf(e) = FramesOf(s) \ {f}
  <2>1. ASSUME NEW g \in FramesOf(e) PROVE g \in FramesOf(s) \ {f}
    <3>1. PICK i \in DOMAIN e : g = e[i]
      BY DEF FramesOf
    <3>2. QED
      BY <1>1, <1>4, <3>1 DEF FramesOf
  <2>2. ASSUME NEW g \in FramesOf(s) \ {f} PROVE g \in FramesOf(e)
    <3>1. PICK i \in DOMAIN s : g = s[i]
      BY DEF FramesOf
    <3>2. i # k
      BY <1>1, <3>1
    <3>3. CASE i < k
      <4>1. i \in DOMAIN e /\ e[i] = g
        BY <1>1, <1>3, <3>1, <3>3
      <4>2. QED
        BY <4>1 DEF FramesOf
    <3>4. CASE i > k
      <4>1. i - 1 \in DOMAIN e /\ e[i - 1] = g
        BY <1>1, <1>3, <3>1, <3>4
      <4>2. QED
        BY <4>1 DEF FramesOf
    <3>5. QED
      BY <1>1, <3>2, <3>3, <3>4
  <2>3. QED
    BY <2>1, <2>2
<1> HIDE DEF e
<1>9. QED
  BY <1>2, <1>3, <1>6, <1>7, <1>8

\* The replacer of a pool that has just been built.
LEMMA EmptyConsistent ==
  Consistent(EmptyReplacer) /\ EmptyReplacer.map_ = {}
BY DEF Consistent, EmptyReplacer, FramesOf

\* Pin (and Victim) take out one frame.
LEMMA DropProperties ==
  ASSUME NEW r, Consistent(r), NEW f \in r.map_
  PROVE  /\ Consistent(Drop(r, f))
         /\ Drop(r, f).map_ = r.map_ \ {f}
         /\ Drop(r, f).in_size_ = r.in_size_ - 1
<1>1. /\ r.lru_list_ \in Seq(Frame) /\ f \in FramesOf(r.lru_list_)
      /\ \A i, j \in DOMAIN r.lru_list_ :
           r.lru_list_[i] = r.lru_list_[j] => i = j
  BY DEF Consistent
<1>2. /\ Drop(r, f).lru_list_ = Erase(r.lru_list_, f)
      /\ Drop(r, f).map_ = r.map_ \ {f}
      /\ Drop(r, f).in_size_ = r.in_size_ - 1
  BY DEF Drop
<1>3. /\ Erase(r.lru_list_, f) \in Seq(Frame)
      /\ Len(Erase(r.lru_list_, f)) = Len(r.lru_list_) - 1
      /\ FramesOf(Erase(r.lru_list_, f)) = FramesOf(r.lru_list_) \ {f}
      /\ \A i, j \in DOMAIN Erase(r.lru_list_, f) :
           Erase(r.lru_list_, f)[i] = Erase(r.lru_list_, f)[j] => i = j
  BY <1>1, EraseProperties
<1>4. QED
  BY <1>2, <1>3 DEF Consistent

\* A consistent replacer has a victim exactly if it holds a frame, and the
\* victim is one of them.
LEMMA VictimProperties ==
  ASSUME NEW r, Consistent(r)
  PROVE  /\ HasVictim(r) <=> r.map_ # {}
         /\ HasVictim(r) => VictimOf(r) \in r.map_
         /\ r.map_ \subseteq Frame
<1>1. Len(r.lru_list_) \in Nat /\ DOMAIN r.lru_list_ = 1 .. Len(r.lru_list_)
  BY DEF Consistent
<1>2. /\ r.map_ = {r.lru_list_[i] : i \in 1 .. Len(r.lru_list_)}
      /\ r.in_size_ = Len(r.lru_list_)
      /\ \A i \in 1 .. Len(r.lru_list_) : r.lru_list_[i] \in Frame
  BY <1>1 DEF Consistent, FramesOf
<1>3. r.in_size_ # 0 => VictimOf(r) \in r.map_
  BY <1>1, <1>2 DEF VictimOf
<1>4. r.in_size_ = 0 => r.map_ = {}
  BY <1>1, <1>2
<1>5. QED
  BY <1>2, <1>3, <1>4 DEF HasVictim

\* Victim.
LEMMA AfterVictimProperties ==
  ASSUME NEW r, Consistent(r), HasVictim(r)
  PROVE  /\ Consistent(AfterVictim(r))
         /\ AfterVictim(r).map_ = r.map_ \ {VictimOf(r)}
BY VictimProperties, DropProperties DEF AfterVictim

\* Pin.
LEMMA AfterPinProperties ==
  ASSUME NEW r, Consistent(r), NEW f
  PROVE  /\ Consistent(AfterPin(r, f))
         /\ AfterPin(r, f).map_ = r.map_ \ {f}
BY DropProperties DEF AfterPin

\* A replacer built for all frames has room for one that it does not hold:
\* the early return of Unpin on a full replacer is never taken.
LEMMA Room ==
  ASSUME IsFiniteSet(Frame), max_size_ \in Nat, max_size_ >= Cardinality(Frame),
         NEW r, Consistent(r)
  PROVE  /\ r.in_size_ \in Nat
         /\ r.in_size_ <= max_size_
         /\ \A f \in Frame \ r.map_ : r.in_size_ < max_size_
<1> DEFINE n == Len(r.lru_list_)
<1>1. /\ r.lru_list_ \in Seq(Frame) /\ n \in Nat /\ DOMAIN r.lru_list_ = 1 .. n
      /\ r.in_size_ = n
      /\ r.map_ = {r.lru_list_[i] : i \in DOMAIN r.lru_list_}
      /\ r.lru_list_ \in [1 .. n -> Frame]
      /\ \A i, j \in DOMAIN r.lru_list_ : r.lru_list_[i] = r.lru_list_[j] => i = j
  BY DEF Consistent, FramesOf
<1>2. r.lru_list_ \in Bijection(1 .. n, r.map_)
  BY <1>1 DEF Bijection, Injection, Surjection, IsInjective
<1>3. IsFiniteSet(1 .. n) /\ Cardinality(1 .. n) = n
  BY <1>1, FS_Interval
<1>4. IsFiniteSet(r.map_) /\ Cardinality(r.map_) = n
  BY <1>2, <1>3, FS_Bijection DEF ExistsBijection
<1>5. r.map_ \subseteq Frame
  BY <1>1
<1>6. n <= Cardinality(Frame) /\ Cardinality(Frame) \in Nat
  BY <1>4, <1>5, FS_Subset, FS_CardinalityType
<1>7. ASSUME NEW f \in Frame \ r.map_ PROVE n < Cardinality(Frame)
  BY <1>4, <1>5, <1>6, FS_Subset
<1>8. QED
  BY <1>1, <1>6, <1>7

\* Unpin.
LEMMA AfterUnpinProperties ==
  ASSUME IsFiniteSet(Frame), max_size_ \in Nat, max_size_ >= Cardinality(Frame),
         NEW r, Consistent(r), NEW f \in Frame
  PROVE  /\ Consistent(AfterUnpin(r, f))
         /\ AfterUnpin(r, f).map_ = r.map_ \union {f}
         /\ f \notin r.map_ => AfterUnpin(r, f).lru_list_ = <<f>> \o r.lru_list_
<1>1. CASE f \in r.map_
  BY <1>1 DEF AfterUnpin
<1>2. CASE f \notin r.map_
  <2> DEFINE s == <<f>> \o r.lru_list_
  <2>1. ~(f \in r.map_ \/ r.in_size_ >= max_size_)
    BY <1>2, Room
  <2>2. /\ AfterUnpin(r, f).lru_list_ = s
        /\ AfterUnpin(r, f).map_ = r.map_ \union {f}
        /\ AfterUnpin(r, f).in_size_ = r.in_size_ + 1
    BY <2>1 DEF AfterUnpin
  <2>3. /\ r.lru_list_ \in Seq(Frame) /\ Len(r.lru_list_) \in Nat
        /\ DOMAIN r.lru_list_ = 1 .. Len(r.lru_list_)
        /\ r.map_ = FramesOf(r.lru_list_)
        /\ r.in_size_ = Len(r.lru_list_)
        /\ \A i, j \in DOMAIN r.lru_list_ :
             r.lru_list_[i] = r.lru_list_[j] => i = j
    BY DEF Consistent
  <2>4. /\ s \in Seq(Frame) /\ Len(s) = Len(r.lru_list_) + 1
        /\ DOMAIN s = 1 .. Len(r.lru_list_) + 1
        /\ s[1] = f
        /\ \A i \in DOMAIN s \ {1} :
             s[i] = r.lru_list_[i - 1] /\ i - 1 \in DOMAIN r.lru_list_
    BY <2>3
  <2> HIDE DEF s
  <2>5. FramesOf(s) = r.map_ \union {f}
    <3>1. FramesOf(s) \subseteq r.map_ \union {f}
      BY <2>3, <2>4 DEF FramesOf
    <3>2. ASSUME NEW g \in r.map_ PROVE g \in FramesOf(s)
      <4>1. PICK i \in DOMAIN r.lru_list_ : g = r.lru_list_[i]
        BY <2>3 DEF FramesOf
      <4>2. i + 1 \in DOMAIN s /\ s[i + 1] = g
        BY <2>3, <2>4, <4>1, SMTT(30)
      <4>3. QED
        BY <4>2 DEF FramesOf
    <3>3. f \in FramesOf(s)
      BY <2>3, <2>4 DEF FramesOf
    <3>4. QED
      BY <3>1, <3>2, <3>3
  <2>6. ASSUME NEW i \in DOMAIN s, NEW j \in DOMAIN s, s[i] = s[j]
        PROVE  i = j
    <3>1. \A l \in DOMAIN r.lru_list_ : r.lru_list_[l] # f
      BY <1>2, <2>3 DEF FramesOf
    <3>2. QED
      BY <2>3, <2>4, <2>6, <3>1
  <2>7. QED
    BY <2>2, <2>3, <2>4, <2>5, <2>6 DEF Consistent, s
<1>3. QED
  BY <1>1, <1>2

-----------------------------------------------------------------------------
ReplacerInv == ReplacerConsistent /\ NoUnpinDropped /\ EvictionOrder

-----------------------------------------------------------------------------
\* Victim and Pin take out one frame; the others keep their order.
LEMMA DropStep ==
  ASSUME ReplacerInv, NEW f \in replacer_.map_,
         replacer_' = Drop(replacer_, f), Forget(f)
  PROVE  ReplacerInv'
<1> DEFINE list == replacer_.lru_list_
           dropped == Erase(list, f)
<1>1. /\ Consistent(replacer_) /\ list \in Seq(Frame) /\ f \in FramesOf(list)
      /\ \A i, j \in DOMAIN list : list[i] = list[j] => i = j
  BY DEF ReplacerInv, ReplacerConsistent, Consistent
<1>2. Consistent(replacer_') /\ replacer_'.map_ = replacer_.map_ \ {f}
  BY <1>1, DropProperties
<1>3. ReplacerConsistent'
  <2>1. replacer_'.in_size_ <= max_size_
    BY <1>2, Room, SizeAssumption
  <2>2. QED
    BY <1>2, <2>1 DEF ReplacerInv, ReplacerConsistent, HTypeOK, Forget, Consistent
<1>4. NoUnpinDropped'
  BY <1>2 DEF ReplacerInv, NoUnpinDropped, Forget
<1>5. EvictionOrder'
  <2>1. replacer_'.lru_list_ = dropped
    BY DEF Drop
  <2>2. SUFFICES ASSUME NEW i \in DOMAIN dropped, NEW j \in DOMAIN dropped, i < j
                 PROVE  <<dropped[j], dropped[i]>> \in older'
    BY <2>1 DEF EvictionOrder
  <2>3. PICK m \in DOMAIN list, l \in DOMAIN list :
          m < l /\ dropped[i] = list[m] /\ dropped[j] = list[l]
    BY <1>1, <2>2, EraseProperties
  <2>4. <<dropped[j], dropped[i]>> \in older
    BY <2>3 DEF ReplacerInv, EvictionOrder
  <2>5. dropped[i] # f /\ dropped[j] # f
    <3>1. FramesOf(dropped) = FramesOf(list) \ {f}
      BY <1>1, EraseProperties
    <3>2. dropped[i] \in FramesOf(dropped) /\ dropped[j] \in FramesOf(dropped)
      BY <2>2 DEF FramesOf
    <3>3. QED
      BY <3>1, <3>2
  <2>6. QED
    BY <2>4, <2>5 DEF Forget
<1>6. QED
  BY <1>3, <1>4, <1>5 DEF ReplacerInv

\* Pin of a frame the replacer does not hold: nothing is kept about it.
LEMMA PinOtherStep ==
  ASSUME ReplacerInv, NEW f \in Frame, f \notin replacer_.map_,
         replacer_' = replacer_, Forget(f)
  PROVE  ReplacerInv'
<1> DEFINE list == replacer_.lru_list_
<1>1. \A i \in DOMAIN list : list[i] # f
  BY DEF ReplacerInv, ReplacerConsistent, Consistent, FramesOf
<1>2. ReplacerConsistent' /\ NoUnpinDropped'
  BY DEF ReplacerInv, ReplacerConsistent, NoUnpinDropped, HTypeOK, Forget, Consistent
<1>3. EvictionOrder'
  <2>1. SUFFICES ASSUME NEW i \in DOMAIN list, NEW j \in DOMAIN list, i < j
                 PROVE  <<list[j], list[i]>> \in older'
    BY DEF EvictionOrder
  <2>2. <<list[j], list[i]>> \in older
    BY <2>1 DEF ReplacerInv, EvictionOrder
  <2>3. QED
    BY <1>1, <2>2 DEF Forget
<1>4. QED
  BY <1>2, <1>3 DEF ReplacerInv

\* Unpin puts a frame it does not hold at the front, before all the others.
LEMMA UnpinStep ==
  ASSUME ReplacerInv, NEW f \in Frame, HUnpin(f)
  PROVE  ReplacerInv'
<1> DEFINE list == replacer_.lru_list_
           longer == <<f>> \o list
<1>1. /\ Consistent(replacer_) /\ list \in Seq(Frame) /\ Len(list) \in Nat
      /\ DOMAIN list = 1 .. Len(list)
      /\ evictable = FramesOf(list) /\ evictable = replacer_.map_
  BY DEF ReplacerInv, ReplacerConsistent, NoUnpinDropped, Consistent
<1>2. /\ Consistent(replacer_') /\ replacer_'.map_ = replacer_.map_ \union {f}
      /\ f \notin replacer_.map_ => replacer_'.lru_list_ = longer
  BY <1>1, AfterUnpinProperties, SizeAssumption DEF HUnpin, Unpin
<1>3. ReplacerConsistent'
  <2>1. replacer_'.in_size_ <= max_size_
    BY <1>2, Room, SizeAssumption
  <2>2. HTypeOK'
    BY DEF ReplacerInv, ReplacerConsistent, HTypeOK, HUnpin
  <2>3. QED
    BY <1>2, <2>1, <2>2 DEF ReplacerConsistent, Consistent
<1>4. NoUnpinDropped'
  BY <1>1, <1>2 DEF NoUnpinDropped, HUnpin
<1>5. EvictionOrder'
  <2>1. CASE f \in evictable
    <3>1. replacer_' = replacer_ /\ older' = older
      BY <1>1, <2>1 DEF HUnpin, Unpin, AfterUnpin
    <3>2. QED
      BY <3>1 DEF ReplacerInv, EvictionOrder
  <2>2. CASE f \notin evictable
    <3>1. replacer_'.lru_list_ = longer /\ older' = older \union (evictable \X {f})
      BY <1>1, <1>2, <2>2 DEF HUnpin
    <3>2. SUFFICES ASSUME NEW i \in DOMAIN longer, NEW j \in DOMAIN longer, i < j
                   PROVE  <<longer[j], longer[i]>> \in older'
      BY <3>1 DEF EvictionOrder
    <3>3. /\ i \in 1 .. Len(list) + 1 /\ j \in 2 .. Len(list) + 1
          /\ j - 1 \in DOMAIN list /\ longer[j] = list[j - 1]
      BY <1>1, <3>2
    <3>4. CASE i = 1
      <4>1. longer[i] = f /\ longer[j] \in evictable
        BY <1>1, <3>3, <3>4 DEF FramesOf
      <4>2. QED
        BY <3>1, <4>1
    <3>5. CASE i # 1
      <4>1. i - 1 \in DOMAIN list /\ longer[i] = list[i - 1] /\ i - 1 < j - 1
        BY <1>1, <3>2, <3>3, <3>5
      <4>2. <<list[j - 1], list[i - 1]>> \in older
        BY <3>3, <4>1 DEF ReplacerInv, EvictionOrder
      <4>3. QED
        BY <3>1, <3>3, <4>1, <4>2
    <3>6. QED
      BY <3>4, <3>5
  <2>3. QED
    BY <2>1, <2>2
<1>6. QED
  BY <1>3, <1>4, <1>5 DEF ReplacerInv

-----------------------------------------------------------------------------
\* The list, the map, the counter and the history agree after any calls of
\* Victim, Pin and Unpin.
THEOREM ReplacerInductive == HSpec => []ReplacerInv
<1>1. HInit => ReplacerInv
  <2> SUFFICES ASSUME HInit PROVE ReplacerInv
    OBVIOUS
  <2>1. /\ replacer_ = EmptyReplacer /\ evictable = {} /\ older = {}
        /\ replacer_.lru_list_ = <<>>
    BY DEF HInit, ReplacerInit, EmptyReplacer
  <2>2. Consistent(replacer_) /\ replacer_.map_ = {}
    BY <2>1, EmptyConsistent
  <2>3. replacer_.in_size_ <= max_size_
    BY <2>2, Room, SizeAssumption
  <2>4. QED
    BY <2>1, <2>2, <2>3
       DEF ReplacerInv, ReplacerConsistent, HTypeOK, NoUnpinDropped, EvictionOrder
<1>2. ReplacerInv /\ [HNext]_hvars => ReplacerInv'
  <2> SUFFICES ASSUME ReplacerInv, [HNext]_hvars PROVE ReplacerInv'
    OBVIOUS
  <2>1. CASE HVictim
    <3>1. VictimOf(replacer_) \in replacer_.map_
      BY <2>1, VictimProperties DEF HVictim, Victim, ReplacerInv, ReplacerConsistent
    <3>2. replacer_' = Drop(replacer_, VictimOf(replacer_))
      BY <2>1 DEF HVictim, Victim, AfterVictim
    <3>3. QED
      BY <2>1, <3>1, <3>2, DropStep DEF HVictim
  <2>2. ASSUME NEW f \in Frame, HPin(f) PROVE ReplacerInv'
    <3>1. CASE f \in replacer_.map_
      BY <2>2, <3>1, DropStep DEF HPin, Pin, AfterPin
    <3>2. CASE f \notin replacer_.map_
      BY <2>2, <3>2, PinOtherStep DEF HPin, Pin, AfterPin
    <3>3. QED
      BY <3>1, <3>2
  <2>3. ASSUME NEW f \in Frame, HUnpin(f) PROVE ReplacerInv'
    BY <2>3, UnpinStep
  <2>4. CASE UNCHANGED hvars
    BY <2>4 DEF hvars, ReplacerInv, ReplacerConsistent, HTypeOK, NoUnpinDropped,
                EvictionOrder, Consistent
  <2>5. QED
    BY <2>1, <2>2, <2>3, <2>4 DEF HNext
<1>3. QED
  BY <1>1, <1>2, PTL DEF HSpec

\* The list, the map and the counter of LRUReplacer stay in step.
THEOREM ReplacerStaysConsistent == HSpec => []ReplacerConsistent
BY ReplacerInductive, PTL DEF ReplacerInv

\* Unpin never drops a frame because the replacer is full, and Pin and Victim
\* leave none behind.
THEOREM UnpinsKept == HSpec => []NoUnpinDropped
BY ReplacerInductive, PTL DEF ReplacerInv

\* Victim always returns the frame whose unpin is longest ago.
THEOREM LeastRecentlyUnpinnedFirst == HSpec => []EvictionOrder
BY ReplacerInductive, PTL DEF ReplacerInv

=============================================================================
