\* A registration whose file was not written whole, or never synced, is cited.
SPECIFICATION Spec
CONSTANTS
  board = board
  wide = wide
  narrow = narrow
  Thread = {t1}
  Name = {board}
  Document = {wide, narrow}
  Admits <- MCAdmits
  MaxRecords = 3
  None = None
INVARIANTS RegisteredBytesStay
