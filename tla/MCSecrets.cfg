CONSTANTS
  c1 = c1
  c2 = c2
  v1 = v1
  blank = blank
  Call = {c1, c2}
  Value = {v1}
  Blank = blank
  SecretRequired = FALSE
  NeedsConnection = TRUE
  MaxKeys = 2
  MaxWrites = 2
SPECIFICATION Spec
SYMMETRY Symmetry
INVARIANTS TypeOK ReadsBack
PROPERTIES BlankKeeps ImplementsVault
CHECK_DEADLOCK FALSE
