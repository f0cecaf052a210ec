\* Eleven keys make a tree of three levels, in which internal pages split, merge
\* and borrow from both sides; with ten none borrows.
SPECIFICATION Spec
VIEW View
CONSTANTS
  Key = {1, 2, 3, 4, 5, 6, 7, 8, 9, 10, 11}
  FirstRow = r1
  OtherRow = r2
  ForeignKey = 0
  leaf_max_size_ = 4
  internal_max_size_ = 3
CONSTRAINT UntilBorrowed
INVARIANTS
  Occupancy
  Balanced
  LookupsUntilBorrowed
  ScanInOrder
