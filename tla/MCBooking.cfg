CONSTANTS
  Prices <- SomePrices
  Day = 3
  Times = {0, 1, 2, 3, 5, 7, 9}
  People = {1, 2}
  MaxVersions = 3
  MaxPayments = 2
SPECIFICATION BookingSpec
INVARIANTS
  TotalsAreOfNights
  
CHECK_DEADLOCK FALSE
