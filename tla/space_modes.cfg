\* test-space-modes.py: honest engine, one crash, two early steps.
CONSTANTS
  Alice = Alice
  CreatedMode <- HonestMode
  MaxCrashes = 1
  MaxLate = 2

SPECIFICATION Spec
INVARIANT TypeOK
INVARIANT ModesCalibrated
PROPERTY TeardownRefined
