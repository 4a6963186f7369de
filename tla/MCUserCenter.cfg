CONSTANTS
  Requests <- Everyone
  None = None
  MaxFaults = 1
SPECIFICATION Spec
INVARIANTS
  UsersAreBound
  OneUserPerMobile
  TokensAreForTheCaller
PROPERTIES
  RequestsEnd
  UsersAppear
CHECK_DEADLOCK FALSE
