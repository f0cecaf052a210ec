----------------------------- MODULE BPlusTree -----------------------------
(***************************************************************************)
(* The B+ tree of an index: leaf and internal pages, and the record of its *)
(* root in the page of index roots, from which the index is opened.        *)
(*                                                                         *)
(* A page holds array_, pairs of a key and a value, counted from 1 here.   *)
(* The value of an internal page's pair is a child; the key of its first   *)
(* pair is no separator, but it is kept since the code moves and reads it. *)
(* The pages of the tree are in the buffer pool while an operation runs;   *)
(* the program ends between operations, with all pages written.            *)
(***************************************************************************)
EXTENDS Integers, SequencesExt

CONSTANTS
  Key,                 \* the keys, positive numbers
  FirstRow,            \* the row ids
  OtherRow,
  ForeignKey,          \* what page 0 holds where a leaf has its keys
  leaf_max_size_,
  internal_max_size_

ASSUME KeyAssumption == Key \subseteq Nat \ {0} /\ ForeignKey \in Nat
ASSUME SizesAssumption ==
  /\ leaf_max_size_ \in Nat /\ leaf_max_size_ >= 4
  /\ internal_max_size_ \in Nat /\ internal_max_size_ >= 3

INVALID_PAGE_ID == -1
FirstPage == 2         \* pages 0 and 1 are the catalog's and the index roots
ZeroKey == 0           \* the bytes of a key in a new page
ZeroLink == 0          \* the next page id of a new page
NoRecord == -2         \* the index is not in the page of index roots

VARIABLES
  tree,       \* the root, the pages, and the root in the page of index roots
  entries,    \* what the callers have put in the index: the row under each key
  last,       \* the last page id that the disk has allocated
  borrowed    \* history: an internal page that is the first of its parent has
              \* borrowed from the next one

vars == <<tree, entries, last, borrowed>>

-----------------------------------------------------------------------------
KeyAt(n, i) == n.array_[i][1]
ValueAt(n, i) == n.array_[i][2]
GetSize(n) == Len(n.array_)
Children(n) == {ValueAt(n, i) : i \in 1 .. GetSize(n)}
ValueIndex(n, p) == CHOOSE i \in 1 .. GetSize(n) : ValueAt(n, i) = p
IsRootPage(n) == n.parent = INVALID_PAGE_ID

GetMaxSize(n) == IF n.leaf THEN leaf_max_size_ ELSE internal_max_size_

GetMinSize(n) ==
  IF IsRootPage(n) THEN IF n.leaf THEN 1 ELSE 2
  ELSE IF n.leaf THEN leaf_max_size_ \div 2
  ELSE (internal_max_size_ - 1) \div 2 + 1

SetKey(n, i, k) == [n EXCEPT !.array_[i] = <<k, @[2]>>]

\* KeyIndex of a leaf: the first pair whose key is not less than k.
KeyIndex(n, k) == 1 + Cardinality({i \in 1 .. GetSize(n) : KeyAt(n, i) < k})

Holds(n, k) ==
  KeyIndex(n, k) <= GetSize(n) /\ KeyAt(n, KeyIndex(n, k)) = k

\* Lookup of an internal page: the last child whose separator is not greater.
ChildFor(n, k) ==
  ValueAt(n, Max({1} \union {i \in 2 .. GetSize(n) : KeyAt(n, i) <= k}))

LeafInsert(n, k, v) ==
  [n EXCEPT !.array_ = InsertAt(@, KeyIndex(n, k), <<k, v>>)]

RemoveAndDeleteRecord(n, k) ==
  IF Holds(n, k) THEN [n EXCEPT !.array_ = RemoveAt(@, KeyIndex(n, k))] ELSE n

InsertNodeAfter(n, p, key, q) ==
  [n EXCEPT !.array_ = InsertAt(@, ValueIndex(n, p) + 1, <<key, q>>)]

\* MoveAllTo: the pairs of right go to left. The key of an internal page's
\* first pair becomes the separator that was above it.
MoveAllTo(left, right, middle_key) ==
  IF right.leaf
  THEN [left EXCEPT !.array_ = @ \o right.array_, !.next = right.next]
  ELSE [left EXCEPT !.array_ = @ \o SetKey(right, 1, middle_key).array_]

\* MoveFirstToEndOf and MoveLastToFrontOf: a pair goes from page m to page n,
\* which is the first child of its parent, or behind m.
LeafBorrow(n, m, first) ==
  [n EXCEPT !.array_ = IF first THEN Append(@, m.array_[1])
                       ELSE <<Last(m.array_)>> \o @]
InternalBorrow(n, m, first, middle_key) ==
  [n EXCEPT !.array_ = IF first THEN Append(@, <<middle_key, ValueAt(m, 1)>>)
                       ELSE <<Last(m.array_)>> \o SetKey(n, 1, middle_key).array_]
Lend(m, first) == [m EXCEPT !.array_ = IF first THEN Tail(@) ELSE Front(@)]

\* A walk through the tree, down or up, has at most as many steps.
Steps(t) == Cardinality(DOMAIN t.pages)

\* The pages FindLeafPage comes to, after 0, 1, 2, ... steps.
Descend(t, k, leftMost) ==
  LET page[d \in 0 .. Steps(t)] ==
        IF d = 0 THEN t.root_page_id_
        ELSE LET p == page[d - 1]
                 n == t.pages[p]
             IN  IF n.leaf THEN p
                 ELSE IF leftMost THEN ValueAt(n, 1) ELSE ChildFor(n, k)
  IN  page

FindLeafPage(t, k) == Descend(t, k, FALSE)[Steps(t)]

IsEmpty(t) == t.root_page_id_ = INVALID_PAGE_ID

\* NewPage of the buffer pool, with frames to spare: the ids come in sequence
\* and never a second time (DiskManager), here to one index.
NewPageId(t) == 1 + Max({last} \union DOMAIN t.pages)

\* A page that a link leads to. Behind the last leaf that is page 0, which is
\* not of the tree: the page of the catalog is read as if it were a leaf.
LinkedPage(t, p) ==
  IF p \in DOMAIN t.pages THEN t.pages[p]
  ELSE [leaf |-> TRUE, parent |-> INVALID_PAGE_ID, next |-> ZeroLink,
        array_ |-> [i \in 1 .. leaf_max_size_ |-> <<ForeignKey, ForeignKey>>]]

\* The pages of S get parent p.
Adopt(pages, S, p) ==
  [x \in DOMAIN pages |->
     IF x \in S THEN [pages[x] EXCEPT !.parent = p] ELSE pages[x]]

\* Faulty variant: pages that move to another parent keep their old one.
KeepChildren(pages, n, p) == pages

\* The children in page n get parent p.
AdoptChildren(pages, n, p) == IF n.leaf THEN pages ELSE Adopt(pages, Children(n), p)

Put(pages, p, n) == [x \in DOMAIN pages \union {p} |-> IF x = p THEN n ELSE pages[x]]
Without(pages, p) == [x \in DOMAIN pages \ {p} |-> pages[x]]

\* IndexRootsPage::Insert and Update: a record is made if there is none, changed
\* if there is one.
InsertRecord(t) ==
  IF t.recorded = NoRecord THEN [t EXCEPT !.recorded = t.root_page_id_] ELSE t
UpdateRecord(t) ==
  IF t.recorded = NoRecord THEN t ELSE [t EXCEPT !.recorded = t.root_page_id_]

GetRootId(t) == IF t.recorded = NoRecord THEN INVALID_PAGE_ID ELSE t.recorded

UpdateRootPageId(t, insert_record) ==
  IF insert_record THEN InsertRecord(t) ELSE UpdateRecord(t)

-----------------------------------------------------------------------------
\* LeafPage::Init does not set the next page id.
NewLeaf(array) ==
  [leaf |-> TRUE, parent |-> INVALID_PAGE_ID, next |-> ZeroLink, array_ |-> array]

StartNewTree(t, k, v) ==
  LET p == NewPageId(t)
  IN  UpdateRootPageId(
        [t EXCEPT !.root_page_id_ = p,
                  !.pages = Put(t.pages, p, NewLeaf(<< <<k, v>> >>))], TRUE)

\* Faulty variant: the new leaf does not get the old one's successor.
UpperHalfAlone(n) ==
  [n EXCEPT !.array_ = SubSeq(@, GetSize(n) \div 2 + 1, GetSize(n)),
            !.next = ZeroLink]

\* MoveHalfTo: what the new page gets.
UpperHalf(n) == [n EXCEPT !.array_ = SubSeq(@, GetSize(n) \div 2 + 1, GetSize(n))]

\* MoveHalfTo: what page n, now before page q, keeps.
LowerHalf(n, q) ==
  [n EXCEPT !.array_ = SubSeq(@, 1, GetSize(n) \div 2),
            !.next = IF n.leaf THEN q ELSE @]

\* Split of page p, which is one over its size; the upper half goes to page q.
Split(t, p, q) ==
  LET right == UpperHalf(t.pages[p])
  IN  [t EXCEPT !.pages = Put(Put(AdoptChildren(@, right, q), p, LowerHalf(t.pages[p], q)),
                              q, right)]

\* Page q, the upper half of p, is entered in the parent of p.
InsertIntoParent(t, p, q) ==
  LET key == KeyAt(t.pages[q], 1)
      parent == t.pages[p].parent
      root == NewPageId(t)
      newRoot == [leaf |-> FALSE, parent |-> INVALID_PAGE_ID, next |-> ZeroLink,
                  array_ |-> << <<ZeroKey, p>>, <<key, q>> >>]
  IN  IF IsRootPage(t.pages[p])
      THEN UpdateRootPageId(
             [t EXCEPT !.root_page_id_ = root,
                       !.pages = Put(Adopt(t.pages, {p, q}, root), root, newRoot)], FALSE)
      ELSE [t EXCEPT !.pages = Put(Adopt(t.pages, {q}, parent), parent,
                                   InsertNodeAfter(t.pages[parent], p, key, q))]

\* A page at which an insertion or a removal has arrived on its way to the
\* root; the parent of the root is no page, and the way ends.
Arrived(t, p) == [tree |-> t, page |-> p]

\* The page is split if it is over its size, and its parent is next.
SplitIfFull(t, p) ==
  LET n == t.pages[p]
      q == NewPageId(t)
  IN  IF GetSize(n) <= GetMaxSize(n) THEN Arrived(t, INVALID_PAGE_ID)
      ELSE Arrived(InsertIntoParent(Split(t, p, q), p, q), n.parent)

\* The calls of InsertIntoParent, one for each level.
SplitUpwards(t, p) ==
  LET at[d \in 0 .. Steps(t)] ==
        IF d = 0 THEN Arrived(t, p)
        ELSE LET a == at[d - 1]
             IN  IF a.page = INVALID_PAGE_ID THEN a ELSE SplitIfFull(a.tree, a.page)
  IN  at

InsertIntoLeaf(t, k, v) ==
  LET p == FindLeafPage(t, k)
      n == t.pages[p]
  IN  IF Holds(n, k) THEN t
      ELSE SplitUpwards([t EXCEPT !.pages[p] = LeafInsert(n, k, v)], p)[Steps(t)].tree

AfterInsert(t, k, v) ==
  IF IsEmpty(t) THEN StartNewTree(t, k, v) ELSE InsertIntoLeaf(t, k, v)

-----------------------------------------------------------------------------
\* AdjustRoot: an empty leaf ends the tree; an only child becomes the root.
AdjustRoot(t, p) ==
  LET n == t.pages[p]
      child == ValueAt(n, 1)
  IN  IF n.leaf
      THEN UpdateRootPageId([t EXCEPT !.root_page_id_ = INVALID_PAGE_ID,
                                      !.pages = Without(@, p)], FALSE)
      ELSE IF GetSize(n) = 1
      THEN UpdateRootPageId(
             [t EXCEPT !.root_page_id_ = child,
                       !.pages = Without(Adopt(@, {child}, INVALID_PAGE_ID), p)], FALSE)
      ELSE t

\* Faulty variant: the first leaf's neighbor keeps its separator.
LeafSeparatorUnmoved(t, n, m, first) ==
  LET pre == t.pages[FindLeafPage(t, KeyAt(IF first THEN n ELSE m,
                                           GetSize(IF first THEN n ELSE m)))]
  IN  IF first THEN KeyAt(LinkedPage(t, pre.next), 1) ELSE KeyAt(pre, GetSize(pre))

\* The separator between leaf n and its neighbor m after Redistribute, which
\* finds the leaves by their keys and their links.
LeafSeparator(t, n, m, first) ==
  LET pre == t.pages[FindLeafPage(t, KeyAt(IF first THEN n ELSE m,
                                           GetSize(IF first THEN n ELSE m)))]
  IN  IF first THEN KeyAt(LinkedPage(t, pre.next), 2) ELSE KeyAt(pre, GetSize(pre))

\* Redistribute between leaf p and its neighbor q in page parent.
RedistributeLeaf(t, p, q, parent) ==
  LET n == t.pages[p]
      m == t.pages[q]
      up == t.pages[parent]
      first == ValueIndex(up, p) = 1
  IN  [t EXCEPT
         !.pages[parent] = SetKey(up, ValueIndex(up, IF first THEN q ELSE p),
                                  LeafSeparator(t, n, m, first)),
         !.pages[p] = LeafBorrow(n, m, first),
         !.pages[q] = Lend(m, first)]

\* Redistribute between internal pages: both keys are looked up in the leaves,
\* from the last key of the page on the left.
RedistributeInternal(t, p, q, parent) ==
  LET n == t.pages[p]
      m == t.pages[q]
      up == t.pages[parent]
      first == ValueIndex(up, p) = 1
      pre == t.pages[FindLeafPage(t, KeyAt(IF first THEN n ELSE m,
                                           GetSize(IF first THEN n ELSE m)))]
      middle == LinkedPage(t, pre.next)
      separator == KeyAt(IF first THEN LinkedPage(t, middle.next) ELSE pre, 1)
      child == ValueAt(m, IF first THEN 1 ELSE GetSize(m))
  IN  [t EXCEPT
         !.pages = Adopt(
            [@ EXCEPT
               ![parent] = SetKey(up, ValueIndex(up, IF first THEN q ELSE p), separator),
               ![p] = InternalBorrow(n, m, first, KeyAt(middle, 1)),
               ![q] = Lend(m, first)],
            {child}, p)]

\* Coalesce: the pairs of page right go to its neighbor left, and it is deleted.
Coalesce(t, left, right, parent) ==
  LET n == t.pages[right]
      up == t.pages[parent]
      i == ValueIndex(up, right)
  IN  [t EXCEPT
         !.pages = Without(
            Put(Put(AdoptChildren(@, n, left),
                    left, MoveAllTo(t.pages[left], n, KeyAt(up, i))),
                parent, [up EXCEPT !.array_ = RemoveAt(up.array_, i)]),
            right)]

\* Faulty variant: pages are merged that do not fit in one.
FitOneOver(n, m) == GetSize(n) + GetSize(m) <= GetMaxSize(n) + 1

Fit(n, m) == GetSize(n) + GetSize(m) <= GetMaxSize(n)

\* The page has lost a pair too many.
CoalesceOrRedistribute(t, p) ==
  LET n == t.pages[p]
      parent == n.parent
      up == t.pages[parent]
      i == ValueIndex(up, p)
      q == ValueAt(up, IF i = 1 THEN 2 ELSE i - 1)
      joined == IF i = 1 THEN Coalesce(t, p, q, parent) ELSE Coalesce(t, q, p, parent)
  IN  IF IsRootPage(n) THEN Arrived(AdjustRoot(t, p), INVALID_PAGE_ID)
      ELSE IF Fit(n, t.pages[q])
      THEN Arrived(joined, IF GetSize(joined.pages[parent]) < GetMinSize(up)
                           THEN parent ELSE INVALID_PAGE_ID)
      ELSE Arrived(IF n.leaf THEN RedistributeLeaf(t, p, q, parent)
                   ELSE RedistributeInternal(t, p, q, parent), INVALID_PAGE_ID)

\* The calls of CoalesceOrRedistribute, one for each level.
JoinUpwards(t, p) ==
  LET at[d \in 0 .. Steps(t)] ==
        IF d = 0 THEN Arrived(t, p)
        ELSE LET a == at[d - 1]
             IN  IF a.page = INVALID_PAGE_ID THEN a
                 ELSE CoalesceOrRedistribute(a.tree, a.page)
  IN  at

\* Remove moves the separator of a leaf whose first pair is to go, and looks
\* only then whether the key is there.
AfterRemove(t, k) ==
  LET p == FindLeafPage(t, k)
      n == t.pages[p]
      parent == n.parent
      s == IF KeyIndex(n, k) = 1 /\ ~IsRootPage(n)
           THEN [t EXCEPT !.pages[parent] =
                   SetKey(@, ValueIndex(@, p), KeyAt(n, 2))]
           ELSE t
      r == [s EXCEPT !.pages[p] = RemoveAndDeleteRecord(@, k)]
  IN  IF IsEmpty(t) THEN t
      ELSE IF GetSize(r.pages[p]) < GetMinSize(r.pages[p])
      THEN JoinUpwards(r, p)[Steps(t)].tree
      ELSE r

-----------------------------------------------------------------------------
GetValue(t, k) ==
  IF IsEmpty(t) THEN {}
  ELSE LET n == t.pages[FindLeafPage(t, k)]
       IN  IF Holds(n, k) THEN {ValueAt(n, KeyIndex(n, k))} ELSE {}

\* Begin: the leaf that FindLeafPage finds with leftMost, whatever the key.
LeftMost(t) == Descend(t, ZeroKey, TRUE)[Steps(t)]

\* An iterator after 0, 1, 2, ... leaves: the next one, and the pairs so far. It
\* would end at a link that is INVALID_PAGE_ID; the last leaf's link is page 0, so
\* that it goes on there. It is followed while it is in the pages of the tree.
Iterate(t) ==
  LET at[d \in 0 .. Steps(t)] ==
        IF d = 0 THEN [leaf |-> LeftMost(t), pairs |-> <<>>]
        ELSE LET i == at[d - 1]
             IN  IF i.leaf \notin DOMAIN t.pages THEN i
                 ELSE [leaf |-> t.pages[i.leaf].next,
                       pairs |-> i.pairs \o t.pages[i.leaf].array_]
  IN  at

\* Begin, and the steps of the iterator until it leaves the pages of the tree.
Scan(t) == IF IsEmpty(t) THEN <<>> ELSE Iterate(t)[Steps(t)].pairs

\* End: the last pair of the leaf that the last key of the root leads to.
End(t) ==
  LET root == t.pages[t.root_page_id_]
      leaf == FindLeafPage(t, KeyAt(root, GetSize(root)))
  IN  Last(t.pages[leaf].array_)

\* The pairs a loop from Begin to End comes to.
ScanToEnd(t) ==
  LET scan == Scan(t)
      end == End(t)
      at == CHOOSE i \in DOMAIN scan : scan[i] = end
  IN  SubSeq(scan, 1, at - 1)

-----------------------------------------------------------------------------
Init ==
  /\ tree = [root_page_id_ |-> INVALID_PAGE_ID, pages |-> <<>>, recorded |-> NoRecord]
  /\ entries = [k \in Key |-> {}]
  /\ last = FirstPage - 1
  /\ borrowed = FALSE

InsertEntry(k, v) ==
  /\ tree' = AfterInsert(tree, k, v)
  /\ entries' = [entries EXCEPT ![k] = IF @ = {} THEN {v} ELSE @]
  /\ last' = Max({last} \union DOMAIN tree'.pages)
  /\ UNCHANGED borrowed

\* The first child of a page that is still there is another page's now: only
\* Redistribute to the page before it takes it.
LendsFirst(t, u) ==
  \E p \in DOMAIN t.pages \intersect DOMAIN u.pages :
    ~t.pages[p].leaf /\ ValueAt(t.pages[p], 1) \notin Children(u.pages[p])

RemoveEntry(k) ==
  /\ tree' = AfterRemove(tree, k)
  /\ entries' = [entries EXCEPT ![k] = {}]
  /\ borrowed' = (borrowed \/ LendsFirst(tree, tree'))
  /\ UNCHANGED last

\* The program ends and the index is opened again, with the recorded root.
Reopen ==
  /\ tree' = [tree EXCEPT !.root_page_id_ = GetRootId(tree)]
  /\ UNCHANGED <<entries, last, borrowed>>

\* A tree that was emptied and filled again has no record until its root
\* changes once more: StartNewTree inserts a record, and there is one.
Unrecorded == tree.recorded = INVALID_PAGE_ID /\ ~IsEmpty(tree)

\* Keys are inserted in any order, with a row of their own, and once more with
\* another one. Callers remove keys that are there.
Next ==
  \/ \E k \in Key : entries[k] = {} /\ InsertEntry(k, FirstRow)
  \/ \E k \in Key : entries[k] # {} /\ InsertEntry(k, OtherRow)
  \/ \E k \in Key : entries[k] # {} /\ RemoveEntry(k)
  \/ ~Unrecorded /\ Reopen

Spec == Init /\ [][Next]_vars

\* The index may be closed and opened at any time.
AnyReopenSpec == Init /\ [][Next \/ Reopen]_vars

\* The index only grows: keys come in any order, and none is removed.
GrowNext ==
  \/ \E k \in Key : entries[k] = {} /\ InsertEntry(k, FirstRow)
  \/ \E k \in Key : entries[k] # {} /\ InsertEntry(k, OtherRow)
  \/ Reopen

GrowSpec == Init /\ [][GrowNext]_vars

-----------------------------------------------------------------------------
Leaves == {p \in DOMAIN tree.pages : tree.pages[p].leaf}

\* The pages from page p to the root.
Ancestors(t, p) ==
  LET page[d \in 0 .. Steps(t)] ==
        IF d = 0 THEN p
        ELSE LET q == page[d - 1] IN IF IsRootPage(t.pages[q]) THEN q ELSE t.pages[q].parent
  IN  page

\* Page p lies d levels below the root.
IsDepth(t, p, d) ==
  /\ IsRootPage(t.pages[Ancestors(t, p)[d]])
  /\ \A e \in 0 .. d - 1 : ~IsRootPage(t.pages[Ancestors(t, p)[e]])

\* Leaves hold pairs of a key and a row, internal pages children; root, record
\* and children are pages that AdjustRoot and Coalesce have not deleted.
TypeOK ==
  /\ tree.root_page_id_ \in DOMAIN tree.pages \union {INVALID_PAGE_ID}
  /\ tree.recorded \in DOMAIN tree.pages \union {INVALID_PAGE_ID, NoRecord}
  /\ \A p \in DOMAIN tree.pages :
       LET n == tree.pages[p]
       IN  \A i \in 1 .. GetSize(n) :
             IF n.leaf THEN n.array_[i] \in Key \X {FirstRow, OtherRow}
             ELSE ValueAt(n, i) \in DOMAIN tree.pages

\* After splits, merges and borrowing, no page has more pairs than fit, and none
\* but the root fewer than half.
Occupancy ==
  \A p \in DOMAIN tree.pages :
    LET n == tree.pages[p] IN GetSize(n) \in GetMinSize(n) .. GetMaxSize(n)

\* The pages form a tree: the parent a page names lists it, once, and all leaves
\* are equally deep. InsertIntoParent and Coalesce find their way by the parents.
Balanced ==
  /\ TypeOK
  /\ \A p \in DOMAIN tree.pages \ {tree.root_page_id_} :
       tree.pages[p].parent \in DOMAIN tree.pages /\
       LET up == tree.pages[tree.pages[p].parent]
       IN  ~up.leaf /\ Cardinality({i \in 1 .. GetSize(up) : ValueAt(up, i) = p}) = 1
  /\ \E d \in 0 .. Steps(tree) : \A p \in Leaves : IsDepth(tree, p, d)

\* GetValue answers for every key with what was inserted and not removed since,
\* whatever was split, merged, borrowed, and also after the index was opened
\* again with its recorded root.
Lookups == \A k \in Key : GetValue(tree, k) = entries[k]

\* Keys come and go in any order: GetValue may answer wrongly only after an
\* internal page has borrowed from the page behind it. With pages of three or four
\* children it has one child left when it does, and Redistribute looks up the key
\* of its first pair, which is no separator and may be out of date.
LookupsUntilBorrowed == ~borrowed => Lookups

\* The links lead to pages that Coalesce has not deleted, and an iterator from
\* Begin comes over them to every key in the index, once and in order, before it
\* leaves the pages of the tree; with the same exception.
ScanInOrder ==
  LET keys == {k \in Key : entries[k] # {}}
      scan == Scan(tree)
  IN  ~borrowed =>
        /\ \A p \in Leaves : tree.pages[p].next \in Leaves \union {ZeroLink}
        /\ Len(scan) = Cardinality(keys)
        /\ \A i \in 1 .. Len(scan) : scan[i][1] \in keys
        /\ \A i \in 2 .. Len(scan) : scan[i - 1][1] < scan[i][1]

\* "construct an index iterator representing the end of the key/value pair in the
\* leaf node" (End): a loop from Begin to End comes to every key.
LoopComplete ==
  ~IsEmpty(tree) =>
    {k \in Key : entries[k] # {}} = {pair[1] : pair \in Range(ScanToEnd(tree))}
=============================================================================
