SPECIFICATION Spec
CONSTANTS
  l1 = l1
  w1 = w1
  Logins = {l1}
  Wipes = {w1}
  Check = check
  MaxMenu = 2
  icon = icon
  tooltip = tooltip
  Parts = {icon, tooltip}
  Refused = {icon}
INVARIANTS
  DisguiseIsWhole
  SwitchIsWrongOnlyAfterTheTray
  SheetIsForStrangers
  OnHasAnEntry
PROPERTIES
  ShowIsHeard
  ImplementsCard
CHECK_DEADLOCK FALSE
