\* The disk manager with crashes and restarts at every point, any page freed any
\* number of times; every sequence of calls on a replacer for five frames; three
\* threads that read and write in any order, and let go.
SPECIFICATION PartsSpec
CONSTANTS
  N = 2
  MaxExtents = 2
  WordSize = 6
  Data = {z, d}
  Zero = z
  Frame = {f0, f1, f2, f3, f4}
  max_size_ = 5
  Thread = {t1, t2, t3}
  MAX_READERS = 4
INVARIANTS
  LayoutIntact
  LiveSurvivesRestart
  CountersAgree
  ReplacerConsistent
  NoUnpinDropped
  EvictionOrder
  MutualExclusion
  NoLostWakeup
  CountsAgree
PROPERTIES
  OnlyWritesChangeBytes
  ImplementsPageStore
  WriterDrains
  SleepersAreWoken
