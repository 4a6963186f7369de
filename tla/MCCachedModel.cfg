CONSTANTS
  Procs = {p1, p2, p3}
  Sns = {s1}
  None = None
  Vals <- MCVals
  InitVals <- MCInitVals
  Allowed <- MCAllowed
SPECIFICATION Spec
SYMMETRY Symmetry
INVARIANTS
  TypeOK
  SnapshotsCommitted
  VersionDeterminesRow
  OneWinner
PROPERTIES
  ChecksAreAtomic
  RowsSpec
