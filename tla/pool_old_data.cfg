\* NewPage evicts: pages lose their bytes.
SPECIFICATION Spec
CONSTANTS
  PoolSize = 2
  MaxPages = 4
  MaxPins = 2
  Data = {z, d}
  Zero = z
PROPERTY
  ImplementsPageStore
