\* test-e2ee.py: honest engine, one crash, two early steps, a start() that may fail; per-client stop().
CONSTANTS
  Alice = Alice
  Bob = Bob
  Clients <- MCClients
  Owner = Alice
  Order <- MCOrder
  Script <- E2EEScript
  Tests <- E2EETests
  Verdict <- E2EEVerdict
  LeakyKick = FALSE
  OpenChannels = FALSE
  MaxCrashes = 1
  MaxLate = 2
  PopenMayFail = TRUE

SPECIFICATION E2EESpec
INVARIANT ProcessesReaped
INVARIANT CalibratedVerdict
PROPERTY ScriptTerminates
PROPERTY TeardownRefined
