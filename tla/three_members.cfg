\* test-three-members.py: honest engine, one crash, two steps taken before
\* the engine settled (so Alice's operations can overtake the Commit).
CONSTANTS
  Alice = Alice
  Bob = Bob
  Charlie = Charlie
  Clients <- MCClients
  Owner = Alice
  Order <- MCOrder
  Script <- ThreeMembersScript
  Tests <- ThreeMembersTests
  Verdict <- ThreeMembersVerdict
  LeakyKick = FALSE
  OpenChannels = FALSE
  MaxCrashes = 1
  MaxLate = 2
  PopenMayFail = FALSE

SPECIFICATION Spec
INVARIANT CalibratedVerdict
INVARIANT GroupDeliveryVerified
INVARIANT NoneNeverPasses
