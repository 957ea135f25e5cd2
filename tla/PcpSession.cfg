\* The times are the code's.
SPECIFICATION FairSpec
CONSTANTS
  b1 = b1
  b2 = b2
  c1 = c1
  d1 = d1
  home = home
  away = away
  Pool <- MCPool
  Address <- MCAddress
  gwipv6 = home
  Zero = Zero
  Other = Other
  None = None
  RCV_TIMEOUT = 3
  INIT_RETRANSITME = 2
  MAX_RETRANSTIME = 512
  SUCCESS_LIFETIME = 120
  ERROR_LIFETIME = 1800
  Passes = {1}
  Delays = {5}
  MaxLost = 2
  Budgets <- MCBudgets
  Uptime = 500
  Quiet = 100
  Grain = 20
INVARIANTS LeaseSurvives 
PROPERTY Recovers
CHECK_DEADLOCK FALSE
