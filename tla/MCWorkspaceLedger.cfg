\* One thread, two documents, three records; every write may fail at any stage.
SPECIFICATION Spec
CONSTANTS
  board = board
  wide = wide
  narrow = narrow
  Thread = {t1}
  Name = {board}
  Document = {wide, narrow}
  Admits <- MCAdmits
  MaxRecords = 3
  None = None
INVARIANTS FilesSafe
