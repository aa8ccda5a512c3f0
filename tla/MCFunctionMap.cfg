\* Every order of up to four functions, then every two lookups.
SPECIFICATION Spec
CONSTANTS
  Starts <- MCStarts
  IPs <- MCIPs
  LastIP = 7
  MaxAccesses = 2
CHECK_DEADLOCK FALSE
INVARIANT BoundsAgree
INVARIANT NearestFunction
