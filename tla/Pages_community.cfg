SPECIFICATION Spec
CONSTANTS
  Pages = {p1, p2}
  Slots = {c1, c2}
  Fields = {"name", "community"}
  Values = {default, other}
  Options = {default}
  Default = default
  MaxId = 2
  MaxChanges = 2
  MaxMoves = 4
  IsMySQL = TRUE
  Null = Null
SYMMETRY Symmetric
CHECK_DEADLOCK FALSE
PROPERTY
  EditKeepsCommunity
