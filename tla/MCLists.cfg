CONSTANTS
  DataIds <- SomeDataIds
  ListKinds <- AllLists
  MaxId = 4
  PageSizes = {1, 2}
SPECIFICATION Spec
INVARIANTS
  NothingSkipped
  NothingRepeated
  TotalFits
CHECK_DEADLOCK FALSE
