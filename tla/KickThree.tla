------------------------------ MODULE KickThree ------------------------------
(***************************************************************************)
(* src/test-three-members-kick.py: Alice, Bob and Charlie exchange         *)
(* messages, Alice kicks Bob and sends once more.                          *)
(***************************************************************************)
EXTENDS ScenarioDriver

Kicked == Joiners[1]    \* Bob, kicked at line 208
Stayer == Joiners[2]    \* Charlie, who must keep decrypting

KickThreeScript ==
  PublishSteps
  \o << R(Owner, "spacecreate"), Find(Owner, "space_created"),
        Need(Owner, "space_created") >>
  \o OwnerSteps
  \o ForEach(Joiners, JoinSteps)
  \o ForEach(Joiners, AddSteps)
  \o CreateSteps
  \o ForEach(Joiners, NavigateSteps)
  \o ForEach(Joiners, LAMBDA j : << Say(j, "send", "reply") >>)
  \o << Run(Owner, "kick", {V("user_id", Kicked)}, {Kicked}, {}),
        Say(Owner, "send", "afterkick") >>

\* Fault variant: check 4 expecting one more decryption from the owner.
KickThreeTestsOffByOne(d, l) ==
  << Msg("hello", Owner) \in d[Kicked],
     Msg("reply", Kicked) \in d[Owner],
     Msg("reply", Stayer) \in d[Owner],
     Count(d, Kicked) >= 3 /\ Count(d, Owner) >= 3 /\ Count(d, Stayer) >= 3,
     "removed" \in l[Owner],
     Msg("afterkick", Owner) \notin d[Kicked],
     Msg("afterkick", Owner) \in d[Stayer],
     Count(d, Kicked) <= 5 /\ Count(d, Stayer) >= 4 >>

KickThreeTests(d, l) ==
  << Msg("hello", Owner) \in d[Kicked],
     Msg("reply", Kicked) \in d[Owner],
     Msg("reply", Stayer) \in d[Owner],
     Count(d, Kicked) >= 3 /\ Count(d, Owner) >= 2 /\ Count(d, Stayer) >= 3,
     "removed" \in l[Owner],
     Msg("afterkick", Owner) \notin d[Kicked],
     Msg("afterkick", Owner) \in d[Stayer],
     Count(d, Kicked) <= 5 /\ Count(d, Stayer) >= 4 >>

\* Fault variant: the partial-success bound of test-kick-member.py:272.
KickThreeVerdictLoose(d, l) == IF Passed(d, l) >= 4 THEN 0 ELSE 1

\* == tests_total: 0; >= 6: 0 (partial success); else 1.
KickThreeVerdict(d, l) ==
  IF Passed(d, l) = Len(KickThreeTests(d, l)) \/ Passed(d, l) >= 6 THEN 0
  ELSE 1

=============================================================================
