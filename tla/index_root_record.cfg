\* An emptied index is filled again and then opened again.
SPECIFICATION AnyReopenSpec
VIEW View
CONSTANTS
  Key = {1, 2, 3}
  FirstRow = r1
  OtherRow = r2
  ForeignKey = 0
  leaf_max_size_ = 4
  internal_max_size_ = 3
INVARIANT
  Lookups
