SPECIFICATION Spec
CONSTANTS
  Requests = {r1, r2}
  Tokens = {t1, t2, t3}
  Nothing = nothing
  MaxFails = 2
  Given = {"company_admin"}
PROPERTIES
  SpentForGood
  RoleGoneForGood
  LockoutComes
CHECK_DEADLOCK FALSE
