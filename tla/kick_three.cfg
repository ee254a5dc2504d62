\* Honest engine, a build that may fail, one crash, two steps taken before
\* the engine settled.
CONSTANTS
  Alice = Alice
  Bob = Bob
  Charlie = Charlie
  Clients <- MCClients
  Owner = Alice
  Order <- MCOrder
  Script <- KickThreeScript
  Tests <- KickThreeTests
  Verdict <- KickThreeVerdict
  LeakyKick = FALSE
  OpenChannels = FALSE
  MaxCrashes = 1
  MaxLate = 2
  PopenMayFail = FALSE

SPECIFICATION Spec
INVARIANT TypeOK
INVARIANT ProcessesReaped
INVARIANT CalibratedVerdict
INVARIANT ExitZeroScored
INVARIANT NoneNeverPasses
PROPERTY ScriptTerminates
PROPERTY TeardownRefined
