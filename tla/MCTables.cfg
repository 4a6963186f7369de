CONSTANTS
  Schemas <- AllTables
  Procs = {p1, p2}
  Methods = {"UpdateWithVersion", "DeleteSoft"}
  MaxId = 1
  MaxVersion = 1
  MaxBareId = 2
  None = None
  Absent = Absent
  Miss = Miss
SPECIFICATION ModelSpec
SYMMETRY Symmetry
INVARIANT IndexLeadsToRow
PROPERTY DeletedStaysDeleted
CHECK_DEADLOCK FALSE
