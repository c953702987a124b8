SPECIFICATION Spec
CONSTANTS
  Pages = {p1, p2}
  Slots = {c1, c2}
  Fields = {"name", "platform", "password"}
  Values = {default, other}
  Options = {default}
  Default = default
  MaxId = 2
  MaxChanges = 3
  MaxMoves = 4
  IsMySQL = FALSE
  Null = Null
SYMMETRY Symmetric
CHECK_DEADLOCK FALSE
INVARIANTS
  TypeOK
  NoTwins
  ShowsOwnChanges
PROPERTY
  UntouchedKept
