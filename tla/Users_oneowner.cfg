SPECIFICATION UsersSpec
CONSTANTS
  Accounts = {u0, u1}
  Admin = u0
  UserNames = {ann}
  AdminName = admin
  Endpoints = {e1}
  Threads = {t1}
INVARIANT EndpointHasOneOwner
CHECK_DEADLOCK FALSE
