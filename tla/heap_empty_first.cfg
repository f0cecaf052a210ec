\* A scan of a table whose first page has no rows left.
SPECIFICATION ScanAnytimeSpec
CONSTANTS
  PAGE_SIZE = 6
  SIZE_TABLE_PAGE_HEADER = 1
  SIZE_TUPLE = 1
  WordSize = 16
  Size = {1, 2, 5}
  Tag = {a}
  MaxPages = 3
  MaxRows = 3
INVARIANT
  ScanComplete
