CONSTANTS
  MaxRows = 4
  Workers = 2
SPECIFICATION Spec
INVARIANTS
  InternalsStayInside
  OwnErrorsArrive
  UidIsCallers
  ListIsWhatWasFound
PROPERTY RequestEnds
CHECK_DEADLOCK FALSE
