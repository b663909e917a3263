SPECIFICATION MSpec
CONSTANTS
  Servers = {s1}
  MaxCrashes = 1
  s1 = s1
PROPERTIES
  StartsInTheEnd
CHECK_DEADLOCK FALSE
