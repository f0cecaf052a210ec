----------------------------- MODULE LRUHistory ----------------------------
(***************************************************************************)
(* The replacer with the history its policy is about: which frames were    *)
(* unpinned and not taken since, and in which order.                       *)
(***************************************************************************)
EXTENDS LRUReplacer, FiniteSets

\* The buffer pool builds its replacer for as many frames as it has.
ASSUME SizeAssumption ==
  IsFiniteSet(Frame) /\ max_size_ \in Nat /\ max_size_ >= Cardinality(Frame)

VARIABLES
  evictable,  \* the frames whose last call was Unpin
  older       \* <<f, g>>: both are evictable and f was unpinned before g

hvars == <<replacer_, evictable, older>>

HInit == ReplacerInit /\ evictable = {} /\ older = {}

Forget(f) ==
  /\ evictable' = evictable \ {f}
  /\ older' = {e \in older : e[1] # f /\ e[2] # f}

HVictim == Victim /\ Forget(VictimOf(replacer_))

HPin(f) == Pin(f) /\ Forget(f)

HUnpin(f) ==
  /\ Unpin(f)
  /\ evictable' = evictable \union {f}
  /\ older' = IF f \in evictable THEN older
              ELSE older \union (evictable \X {f})

HNext == HVictim \/ \E f \in Frame : HPin(f) \/ HUnpin(f)

HSpec == HInit /\ [][HNext]_hvars

-----------------------------------------------------------------------------
HTypeOK == evictable \subseteq Frame /\ older \subseteq Frame \X Frame

\* The list, the map and the counter of LRUReplacer stay in step, and never
\* hold more frames than the replacer was built for.
ReplacerConsistent ==
  HTypeOK /\ Consistent(replacer_) /\ replacer_.in_size_ <= max_size_

\* "Unpins a frame, indicating that it can now be victimized" (replacer.h):
\* the early return of Unpin on a full replacer never drops a frame, and
\* no frame is kept that was pinned or taken.
NoUnpinDropped == replacer_.map_ = evictable

\* The list is in the order of the unpins, the least recent at the back, so
\* that successive calls of Victim return the frames in that order, whatever
\* pins and unpins came in between.
EvictionOrder ==
  LET list == replacer_.lru_list_
  IN  \A i, j \in DOMAIN list : i < j => <<list[j], list[i]>> \in older

=============================================================================
