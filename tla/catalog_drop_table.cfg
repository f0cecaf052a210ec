\* A table is dropped that has an index, as DROP TABLE does.
SPECIFICATION Spec
CONSTANTS
  TableName = {t}
  IndexName = {i}
  Column = {a, b}
  MaxId = 2
  MaxPages = 7
INVARIANT
  IndexesBelong
