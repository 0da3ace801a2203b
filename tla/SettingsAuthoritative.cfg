SPECIFICATION Spec
CONSTANTS
  None = None
  Admin = {a1}
  Caller = {c1}
  Vendor = {apollo}
  Key = {k1, k2}
  MaxSave = 2
  MaxFault = 1
CHECK_DEADLOCK FALSE
INVARIANT SettingsAuthoritative
