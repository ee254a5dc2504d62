------------------------------ MODULE KickFour ------------------------------
(***************************************************************************)
(* src/tests/scripts/test-four-members-kick.py: Alice, Bob, Charlie and    *)
(* Dave exchange messages, Alice kicks Bob and sends once more.            *)
(***************************************************************************)
EXTENDS ScenarioDriver

\* Bob, kicked at line 237; Charlie and Dave must keep decrypting.
FourKicked == Joiners[1]
FourStayers == {Joiners[2], Joiners[3]}

KickFourScript ==
  PublishSteps
  \o << R(Owner, "spacecreate"), Find(Owner, "space_created"),
        Need(Owner, "space_created") >>
  \o OwnerSteps
  \o ForEach(Joiners, JoinSteps)
  \o ForEach(Joiners, AddSteps)
  \o CreateSteps
  \o ForEach(Joiners, NavigateSteps)
  \o ForEach(Joiners, LAMBDA j : << Say(j, "send", "reply") >>)
  \o << Run(Owner, "kick", {V("user_id", FourKicked)}, {FourKicked}, {}),
        Say(Owner, "send", "afterkick") >>

\* The ten checks of lines 291-350, in order.
KickFourTests(d, l) ==
  << Msg("hello", Owner) \in d[FourKicked],
     Msg("reply", Joiners[1]) \in d[Owner],
     Msg("reply", Joiners[2]) \in d[Owner],
     Msg("reply", Joiners[3]) \in d[Owner],
     Count(d, FourKicked) >= 4 /\ Count(d, Owner) >= 3
       /\ \A s \in FourStayers : Count(d, s) >= 4,
     "removed" \in l[Owner],
     Msg("afterkick", Owner) \notin d[FourKicked],
     Msg("afterkick", Owner) \in d[Joiners[2]],
     Msg("afterkick", Owner) \in d[Joiners[3]],
     Count(d, FourKicked) <= 6 /\ \A s \in FourStayers : Count(d, s) >= 5 >>

\* == tests_total: 0; >= 7: 0 (partial success); else 1.
KickFourVerdict(d, l) ==
  IF Passed(d, l) = Len(KickFourTests(d, l)) \/ Passed(d, l) >= 7 THEN 0
  ELSE 1

-----------------------------------------------------------------------------

\* Exit code 0 means the kick was shown to work: the removal was confirmed,
\* Bob's log lacks the message sent after the kick and both remaining
\* members' logs have it (spec.md section 8, revocation boundary).
KickFourRevocationVerified ==
  (phase = "exited" /\ exitCode = 0) =>
    /\ "removed" \in snapLog[Owner]
    /\ Msg("afterkick", Owner) \notin snap[FourKicked]
    /\ \A s \in FourStayers : Msg("afterkick", Owner) \in snap[s]

=============================================================================
