SPECIFICATION Spec
CONSTANTS
  t1 = t1
  Tabs = {t1}
  Requests = {r1}
  TabOf <- MCTabOf
  States = {s1}
  RoleAsked <- MCRoleAsked
  DevRoles = {"organizer"}
  Lifetime = 3
  StateLife = 1
  MaxTime = 5
  MaxTokens = 2
PROPERTY LogoutEnds
CHECK_DEADLOCK FALSE
