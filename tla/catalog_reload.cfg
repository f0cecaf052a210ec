\* Two tables with an index each, and the tree of one of them: ids and recorded
\* roots are used again after a drop and a restart.
SPECIFICATION Spec
CONSTANTS
  TableName = {t, u}
  IndexName = {i}
  Column = {a, b}
  MaxId = 2
  MaxPages = 7
SYMMETRY Symmetric
INVARIANTS
  MapsAgree
  ReloadAgrees
PROPERTY
  ImplementsDirectory
