\* The same tree, in which the first internal page borrows from the next.
SPECIFICATION Spec
VIEW View
CONSTANTS
  Key = {1, 2, 3, 4, 5, 6, 7, 8, 9, 10, 11}
  FirstRow = r1
  OtherRow = r2
  ForeignKey = 0
  leaf_max_size_ = 4
  internal_max_size_ = 3
INVARIANT
  Lookups
