----------------------------- MODULE ThreeMembers -----------------------------
(***************************************************************************)
(* src/test-three-members.py: Alice adds Bob, then Charlie, to the MLS     *)
(* group and posts one message both must decrypt.                          *)
(***************************************************************************)
EXTENDS ScenarioDriver

ThreeMembersScript ==
  PublishSteps
  \o << R(Owner, "spacecreate"), Find(Owner, "space_created"),
        Need(Owner, "space_created") >>
  \o OwnerSteps
  \o ForEach(Joiners, JoinSteps)
  \o ForEach(Joiners, AddSteps)
  \o CreateSteps

ThreeMembersTests(d, l) ==
  LET bob == Joiners[1]
      charlie == Joiners[2]
  IN << Count(d, bob) >= 3,
        Count(d, charlie) >= 3,
        Msg("hello", Owner) \in d[bob],
        Msg("hello", Owner) \in d[charlie],
        Msg("hello", Owner) \in d[bob] /\ Msg("hello", Owner) \in d[charlie] >>

\* Fault variant: the partial-success bar one lower.
ThreeMembersVerdictLow(d, l) == IF Passed(d, l) >= 2 THEN 0 ELSE 1

\* == tests_total: 0; >= 3: 0 (partial success); else 1.
ThreeMembersVerdict(d, l) ==
  IF Passed(d, l) = Len(ThreeMembersTests(d, l)) \/ Passed(d, l) >= 3 THEN 0
  ELSE 1

-----------------------------------------------------------------------------

\* The partial-success threshold of 3 of 5 never hides a member that
\* missed Alice's message: with the decrypt counts of checks 1 and 2 it
\* takes both members' copies to reach 3.  This must hold however the
\* Commit that moves Bob to Charlie's epoch races Alice's operations
\* (the waits at lines 159 and 165).
GroupDeliveryVerified ==
  (phase = "exited" /\ exitCode = 0) =>
    \A j \in Range(Joiners) : Msg("hello", Owner) \in snap[j]

=============================================================================
