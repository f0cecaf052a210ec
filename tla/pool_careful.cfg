\* Three pages share two frames; unpinned pages are deleted.
SPECIFICATION CarefulSpec
CONSTANTS
  PoolSize = 2
  MaxPages = 3
  MaxPins = 2
  Data = {z, d}
  Zero = z
INVARIANTS
  FramesAccounted
  PointersStayValid
  AnnouncedWritesDurable
PROPERTIES
  OnlyCallersChangeBytes
  ImplementsPageStore
