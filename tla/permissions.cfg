\* test-permissions.py: honest engine, a Popen that may raise, one crash, two early steps.
CONSTANTS
  Alice = Alice
  Bob = Bob
  Charlie = Charlie
  Clients <- MCClients
  Owner = Alice
  Order <- MCOrder
  Script <- PermissionsScript
  Tests <- PermissionsTests
  Verdict <- PermissionsVerdict
  LeakyKick = FALSE
  OpenChannels = FALSE
  MaxCrashes = 1
  MaxLate = 2
  PopenMayFail = TRUE

SPECIFICATION PermissionsSpec
INVARIANT CalibratedVerdict
INVARIANT ScoredAfterSetup
