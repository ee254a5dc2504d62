\* test-channel-kick.py: honest engine, every wait long enough, no crash.
CONSTANTS
  Alice = Alice
  Bob = Bob
  Charlie = Charlie
  MaxCrashes = 0
  MaxLate = 0

SPECIFICATION Spec
INVARIANT ChannelRevocationVerified
