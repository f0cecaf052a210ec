---------------------------- MODULE MCBPlusTree ----------------------------
(* The B+ tree for TLC: the smallest pages that the code can work with.      *)
(* Page ids are names, and they grow without bound: two states that differ   *)
(* only in their page ids are taken for one.                                 *)
EXTENDS BPlusTree

\* The pages of the tree, level by level from the root.
InLevels(t) ==
  LET level[d \in 0 .. Steps(t)] ==
        IF d = 0 THEN IF IsEmpty(t) THEN <<>> ELSE <<t.root_page_id_>>
        ELSE LET above == level[d - 1]
             IN  FlattenSeq([i \in DOMAIN above |->
                   LET n == t.pages[above[i]]
                   IN  IF n.leaf THEN <<>> ELSE [j \in 1 .. GetSize(n) |-> ValueAt(n, j)]])
  IN  FlattenSeq([d \in 1 .. Steps(t) + 1 |-> level[d - 1]])

\* The state with every page named by its place in that order; ids of pages that
\* are not in the tree stay what they are, below zero.
View ==
  LET order == InLevels(tree)
      place == [p \in Range(order) |-> CHOOSE i \in DOMAIN order : order[i] = p]
      Name(p) == IF p \in DOMAIN place THEN place[p] ELSE -1 - p
      Named(n) ==
        [n EXCEPT !.parent = Name(@), !.next = Name(@),
                  !.array_ = IF n.leaf THEN @
                             ELSE [i \in 1 .. GetSize(n) |-> <<KeyAt(n, i), Name(ValueAt(n, i))>>]]
  IN  <<Name(tree.root_page_id_), Name(tree.recorded), entries, borrowed,
        [i \in DOMAIN order |-> Named(tree.pages[order[i]])], Steps(tree)>>

\* Where Redistribute may have set wrong separators, the run goes no further.
UntilBorrowed == ~borrowed
=============================================================================
