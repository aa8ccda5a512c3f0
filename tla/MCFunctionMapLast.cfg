\* A lookup in the function with the highest address.
SPECIFICATION Spec
CONSTANTS
  Starts <- MCStarts
  IPs <- MCIPs
  LastIP = 7
  MaxAccesses = 2
CHECK_DEADLOCK FALSE
INVARIANT LastFunctionFound
