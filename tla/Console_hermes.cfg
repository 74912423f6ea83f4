SPECIFICATION ConsoleSpec
CONSTANTS
  Users = {"ann", "bob"}
  RoleOf <- MCRoleOf
  NoUser = NoUser
  Production = TRUE
  DevRole = "operator"
  MaxConfirms = 1
  MaxOpenings = 1
INVARIANT HermesMutationsGated
CHECK_DEADLOCK FALSE
