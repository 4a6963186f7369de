CONSTANTS
  Payers = {u}
  Callbacks = {c1, c2}
  Payments = {"pay"}
  None = None
  MaxFaults = 1
SPECIFICATION Spec
INVARIANTS
  PublishedOnceAndPaid
  AnsweredSuccessIsRecorded
PROPERTIES
  RecordedIsPublished
  FollowsLifecycle
  PaidIsPublished
CHECK_DEADLOCK FALSE
