\* An honest engine; one process may exit unexpectedly.
CONSTANTS
  Alice = Alice
  Bob = Bob
  Charlie = Charlie
  Clients <- MCClients
  Owner = Alice
  Order <- MCOrder
  Script <- KickThreeScript
  Tests <- KickThreeTests
  Verdict <- KickThreeVerdict
  LeakyKick = FALSE
  OpenChannels = FALSE
  MaxCrashes = 1
  MaxLate = 0
  PopenMayFail = FALSE

SPECIFICATION Spec
INVARIANT AssertionPhaseRuns
