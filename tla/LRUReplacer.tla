---------------------------- MODULE LRUReplacer ----------------------------
(***************************************************************************)
(* LRUReplacer: the frames that may be evicted, least recently unpinned at *)
(* the back.  lru_list_ is the list, front first; map_ holds a node of the *)
(* list for every frame in it, and stands here for the set of its keys;    *)
(* in_size_ counts them.  The operators below take the replacer before a   *)
(* call to the replacer after it, so that a caller can make several calls. *)
(***************************************************************************)
EXTENDS Integers, Sequences

CONSTANTS
  Frame,     \* the frames of the buffer pool
  max_size_  \* how many frames the replacer holds

VARIABLE replacer_

EmptyReplacer == [lru_list_ |-> <<>>, map_ |-> {}, in_size_ |-> 0]

FramesOf(s) == {s[i] : i \in DOMAIN s}

\* list::erase at the node of frame f.
EraseAt(s, k) == [i \in 1 .. Len(s) - 1 |-> s[IF i < k THEN i ELSE i + 1]]
Erase(s, f) == EraseAt(s, CHOOSE k \in DOMAIN s : s[k] = f)

Drop(r, f) ==
  [lru_list_ |-> Erase(r.lru_list_, f),
   map_ |-> r.map_ \ {f},
   in_size_ |-> r.in_size_ - 1]

\* Victim returns false when nothing is held, else the frame at the back.
HasVictim(r) == r.in_size_ # 0
VictimOf(r) == r.lru_list_[Len(r.lru_list_)]
AfterVictim(r) == IF HasVictim(r) THEN Drop(r, VictimOf(r)) ELSE r

AfterPin(r, f) == IF f \in r.map_ THEN Drop(r, f) ELSE r

\* Faulty variants: the replacer counts as full one frame early; the frame
\* goes to the wrong end; one held already is put in again.
AfterUnpinShort(r, f) ==
  IF f \in r.map_ \/ r.in_size_ + 1 >= max_size_
  THEN r
  ELSE [lru_list_ |-> <<f>> \o r.lru_list_,
        map_ |-> r.map_ \union {f},
        in_size_ |-> r.in_size_ + 1]

AfterUnpinAtBack(r, f) ==
  IF f \in r.map_ \/ r.in_size_ >= max_size_
  THEN r
  ELSE [lru_list_ |-> Append(r.lru_list_, f),
        map_ |-> r.map_ \union {f},
        in_size_ |-> r.in_size_ + 1]

AfterUnpinTwice(r, f) ==
  IF r.in_size_ >= max_size_
  THEN r
  ELSE [lru_list_ |-> <<f>> \o r.lru_list_,
        map_ |-> r.map_ \union {f},
        in_size_ |-> r.in_size_ + 1]

AfterUnpin(r, f) ==
  IF f \in r.map_ \/ r.in_size_ >= max_size_
  THEN r
  ELSE [lru_list_ |-> <<f>> \o r.lru_list_,
        map_ |-> r.map_ \union {f},
        in_size_ |-> r.in_size_ + 1]

\* The list, the map and the size describe the same frames, none twice.
Consistent(r) ==
  /\ r.lru_list_ \in Seq(Frame)
  /\ r.map_ = FramesOf(r.lru_list_)
  /\ r.in_size_ = Len(r.lru_list_)
  /\ \A i, j \in DOMAIN r.lru_list_ :
       r.lru_list_[i] = r.lru_list_[j] => i = j

-----------------------------------------------------------------------------
ReplacerInit == replacer_ = EmptyReplacer

Victim == HasVictim(replacer_) /\ replacer_' = AfterVictim(replacer_)
Pin(f) == replacer_' = AfterPin(replacer_, f)
Unpin(f) == replacer_' = AfterUnpin(replacer_, f)

ReplacerNext == Victim \/ \E f \in Frame : Pin(f) \/ Unpin(f)

ReplacerSpec == ReplacerInit /\ [][ReplacerNext]_replacer_

=============================================================================
