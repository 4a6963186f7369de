CONSTANTS
  Users = {u}
  Workers = {w}
  Consumers = {c}
  Orders = {"order"}
  Strangers = {}
  Messages <- TwoPaid
  None = None
  MaxFaults = 1
SPECIFICATION Spec
INVARIANTS
  FinishedCloseMeansDecided
  NotifiedOnceAndPaid
  DroppedResultsWereLate
PROPERTIES
  WaitingIsWatched
  PaidIsAnnounced
  FollowsLifecycle
