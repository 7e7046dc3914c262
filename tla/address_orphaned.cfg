CONSTANTS
  Windows = {w1}
  MaxDaemons = 3
  MaxRestarts = 1
  Attempts = 1
  MaxPresses = 1
  MaxTrouble = 1
SPECIFICATION AddressSpec
INVARIANT ClosingReachesItsDaemons
\* Daemons and uses of the command run out.
CHECK_DEADLOCK FALSE
