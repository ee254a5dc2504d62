\* An engine without the CREATE_CHANNELS check; no crash, one early step.
CONSTANTS
  Alice = Alice
  Bob = Bob
  Charlie = Charlie
  Clients <- MCClients
  Owner = Alice
  Order <- MCOrder
  Script <- PermissionsScript
  Tests <- PermissionsTests
  Verdict <- PermissionsVerdict
  LeakyKick = FALSE
  OpenChannels = TRUE
  MaxCrashes = 0
  MaxLate = 2
  PopenMayFail = FALSE

SPECIFICATION PermissionsSpec
INVARIANT MemberBlockVerified
