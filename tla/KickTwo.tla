------------------------------- MODULE KickTwo -------------------------------
(***************************************************************************)
(* src/test-kick-member.py: Alice and Bob exchange messages, Alice kicks  *)
(* Bob and sends once more.                                                *)
(***************************************************************************)
EXTENDS ScenarioDriver

KickTwoScript ==
  PublishSteps
  \o << R(Owner, "spacecreate"), Find(Owner, "space_created"),
        Need(Owner, "space_created") >>
  \o OwnerSteps
  \o JoinSteps(Joiners[1])
  \o AddSteps(Joiners[1])
  \o CreateSteps
  \o NavigateSteps(Joiners[1])
  \o << Say(Joiners[1], "send", "reply"),
        Run(Owner, "kick", {V("user_id", Joiners[1])}, {Joiners[1]}, {}),
        Say(Owner, "send", "afterkick") >>

KickTwoTests(d, l) ==
  LET bob == Joiners[1] IN
  << Msg("hello", Owner) \in d[bob],
     Msg("reply", bob) \in d[Owner],
     Count(d, bob) >= 1 /\ Count(d, Owner) >= 1,
     "removed" \in l[Owner],
     Msg("afterkick", Owner) \notin d[bob],
     Count(d, bob) <= 4 >>

\* == tests_total: 0; >= 4: 0 (partial success); else 1.
KickTwoVerdict(d, l) ==
  IF Passed(d, l) = Len(KickTwoTests(d, l)) \/ Passed(d, l) >= 4 THEN 0
  ELSE 1

=============================================================================
