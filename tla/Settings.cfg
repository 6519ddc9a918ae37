\* Three requests at a time on the rows that a user edits.
CONSTANTS
  Workers = {w1, w2, w3}
  Columns = {c1, c2}
  Values = {on, off}
  Default <- MCDefault
  None = None
SPECIFICATION Spec
SYMMETRY Symmetry
INVARIANTS
  TypeOK
  LastAskedStands
  FailedFindTheRow
PROPERTY ImplementsAtomicColumns
