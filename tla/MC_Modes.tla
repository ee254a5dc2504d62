------------------------------- MODULE MC_Modes -------------------------------
(* test-space-modes.py against engines that honour --mode or not.         *)
EXTENDS SpaceModes

\* spec.md 3: group create <name> [--mode <mode>]; the default is MLS.
HonestMode(r) == IF r = "lightweight" THEN "lightweight" ELSE "mls"

\* An engine that parses --mode and ignores it: every space gets a group.
ModeIgnored(r) == "mls"

\* An engine whose default is lightweight: only --mode mls gets a group.
LightDefault(r) == IF r = "mls" THEN "mls" ELSE "lightweight"
=============================================================================
