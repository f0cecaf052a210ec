\* A loop from Begin to End over a tree of one leaf.
SPECIFICATION GrowSpec
VIEW View
CONSTANTS
  Key = {1, 2, 3}
  FirstRow = r1
  OtherRow = r2
  ForeignKey = 0
  leaf_max_size_ = 4
  internal_max_size_ = 3
INVARIANT
  LoopComplete
