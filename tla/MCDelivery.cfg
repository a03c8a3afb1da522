CONSTANTS
  r1 = r1
  r2 = r2
  p1 = p1
  p2 = p2
  q = q
  noPipe = noPipe
  NoPipe = noPipe
  f = f
  Run = {r1, r2}
  Pipe = {p1, p2, q}
  Files = {p1, p2}
  Folder = {f}
  FolderOf <- OneFolder
  Tables = 2
  Dispositions = {"replace", "append"}
  Checks = {"no_duplicates"}
  MaxLoads = 2
  MaxFaults = 2
SPECIFICATION Spec
SYMMETRY Symmetry
INVARIANTS TypeOK Published
PROPERTIES OnlyReplaceRemoves QualityHonest
CHECK_DEADLOCK FALSE
