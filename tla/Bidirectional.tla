---------------------------- MODULE Bidirectional ----------------------------
(***************************************************************************)
(* src/test-bidirectional.py: Alice posts, Bob navigates to the thread and *)
(* replies, Alice posts again; every check must pass.                      *)
(***************************************************************************)
EXTENDS ScenarioDriver

\* Alice's posts, Bob's navigation and reply, Alice's final post.
RoundTripSteps(bob) ==
  CreateSteps \o NavigateSteps(bob)
  \o << Say(bob, "send", "reply"), Say(Owner, "send", "final") >>

BidirectionalScript ==
  PublishSteps
  \o << R(Owner, "spacecreate"), Find(Owner, "space_created"),
        Need(Owner, "space_created") >>
  \o OwnerSteps
  \o JoinSteps(Joiners[1])
  \o AddSteps(Joiners[1])
  \o RoundTripSteps(Joiners[1])

BidirectionalTests(d, l) ==
  LET bob == Joiners[1] IN
  << Count(d, bob) >= 3,
     Msg("hello", Owner) \in d[bob],
     Count(d, Owner) >= 1,
     Msg("reply", bob) \in d[Owner],
     Msg("final", Owner) \in d[bob] >>

\* == tests_total: 0; else 1.
BidirectionalVerdict(d, l) ==
  IF Passed(d, l) = Len(BidirectionalTests(d, l)) THEN 0 ELSE 1

=============================================================================
