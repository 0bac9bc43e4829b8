SPECIFICATION OSpec
CONSTANTS
  Vals = {x, q}
  Refs = {}
  Boxes = {w}
  Param = q
  Regions = {R1}
  NoName = NoName
  MaxStmts = 6
  MaxFrames = 2
INVARIANT FieldsStayAlive
\* A function ends after its last statement.
CHECK_DEADLOCK FALSE
