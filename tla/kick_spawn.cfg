\* A Popen that raises after the owner was spawned: the owner is never reaped.
CONSTANTS
  Alice = Alice
  Bob = Bob
  Charlie = Charlie
  Clients <- MCClients
  Owner = Alice
  Order <- MCOrder
  Script <- KickThreeScript
  Tests <- KickThreeTests
  Verdict <- KickThreeVerdict
  LeakyKick = FALSE
  OpenChannels = FALSE
  MaxCrashes = 0
  MaxLate = 0
  PopenMayFail = TRUE

SPECIFICATION Spec
INVARIANT ProcessesReaped
