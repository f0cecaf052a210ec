\* Three pages of two rows, rows of three sizes, one too large for a page.
SPECIFICATION Spec
CONSTANTS
  PAGE_SIZE = 6
  SIZE_TABLE_PAGE_HEADER = 1
  SIZE_TUPLE = 1
  WordSize = 16
  Size = {1, 2, 5}
  Tag = {a}
  MaxPages = 3
  MaxRows = 3
INVARIANTS
  SpaceAccounted
  ChainIntact
  ScanComplete
PROPERTIES
  NoRowLost
  ImplementsTable
