\* An engine that ignores --mode; every wait long enough, no crash.
CONSTANTS
  Alice = Alice
  CreatedMode <- ModeIgnored
  MaxCrashes = 0
  MaxLate = 0

SPECIFICATION Spec
INVARIANT ModesVerified
