\* Three values in two columns, whose order by bytes is 2, 0, 4; two rows in the
\* first page of the heap and one in the next.
SPECIFICATION Spec
CONSTANTS
  Rid = {1, 2, 3}
  FirstPage = {1, 2}
  Value = {0, 2, 4}
  Base = 4
  Width = 2
  Column = {"a", "b"}
  Unique = {"a"}
  Index = {"PRIMARY", "t_a", "both"}
  Declared = {"PRIMARY", "t_a"}
  Keys <- MCKeys
  Inserted <- MCInserted
  Where <- MCWhere
  SetList <- MCSetList
INVARIANTS
  EntriesSound
  EntriesComplete
  QuerySound
PROPERTY
  DeleteEmpties
