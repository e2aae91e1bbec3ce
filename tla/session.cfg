SPECIFICATION Spec
CONSTANTS
  t1 = t1
  Tabs = {t1}
  Requests = {r1, r2}
  TabOf <- MCTabOf
  States = {s1}
  RoleAsked <- MCRoleAsked
  DevRoles = {"organizer"}
  Lifetime = 3
  StateLife = 1
  MaxTime = 5
  MaxTokens = 2
SYMMETRY MCSymmetry
INVARIANTS TypeOK OneRenewalPerTab RenewedOnceAtMost SessionsUnbroken OneSignInPerState
PROPERTY OnlyLiveSessionsServe
CHECK_DEADLOCK FALSE
