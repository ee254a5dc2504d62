\* test-e2ee.py: honest engine, no crash, one early step.
CONSTANTS
  Alice = Alice
  Bob = Bob
  Clients <- MCClients
  Owner = Alice
  Order <- MCOrder
  Script <- E2EEScript
  Tests <- E2EETests
  Verdict <- E2EEVerdict
  LeakyKick = FALSE
  OpenChannels = FALSE
  MaxCrashes = 0
  MaxLate = 1
  PopenMayFail = FALSE

SPECIFICATION E2EESpec
INVARIANT ExitReflectsChecks
