SPECIFICATION FairSpec
CONSTANTS
  c1 = c1
  c2 = c2
  Fetches = {c1, c2}
  Plans <- MCPlans
  Pages = 2
  Attempts = 2
  Delays = 1
  HasRefresh = TRUE
  HasKey = FALSE
  MaxExpiries = 2
INVARIANTS TypeOK RequestsBounded TwoChances
PROPERTY FetchesEnd
CHECK_DEADLOCK FALSE
