\* Honest engine, no crash; the result section may read the logs one step early.
CONSTANTS
  Alice = Alice
  Bob = Bob
  Charlie = Charlie
  Dave = Dave
  Clients <- MCClients
  Owner = Alice
  Order <- MCOrder
  Script <- KickFourScript
  Tests <- KickFourTests
  Verdict <- KickFourVerdict
  LeakyKick = FALSE
  OpenChannels = FALSE
  MaxCrashes = 0
  MaxLate = 1
  PopenMayFail = FALSE

SPECIFICATION Spec
INVARIANT KickFourRevocationVerified
