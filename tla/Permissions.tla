----------------------------- MODULE Permissions -----------------------------
(***************************************************************************)
(* src/tests/scripts/test-permissions.py: the owner and a member each try *)
(* to create a channel, the member creates an invite, and the owner sends *)
(* one message.  Unlike the root scripts, run_command catches the          *)
(* BrokenPipeError of a write to an exited client, a None user id aborts   *)
(* through the TypeError of bob_id[:16], the checks are taken as the       *)
(* script goes, every check must pass, and each client is stopped in turn *)
(* (terminate, wait(timeout=2), kill), the shape of SpacewayClient.stop.  *)
(***************************************************************************)
EXTENDS E2EE

Member == Joiners[2]    \* Charlie, who holds only the Member role

\* Setup: publish, space, context, invite, network; each joiner connects,
\* joins, reads its user id, selects the space, and the print of
\* user_id[:16] raises TypeError (return 1 from except) when it is None.
PermJoinSteps(j) ==
  JoinSteps(j) \o << Run(j, "selectspace", {V("space_created", Owner)}, {}, {}),
                     Need(j, "user_id") >>

PermissionsSetup ==
  PublishSteps
  \o << R(Owner, "spacecreate"), Find(Owner, "space_created"),
        Need(Owner, "space_created") >>
  \o OwnerSteps
  \o ForEach(Joiners, PermJoinSteps)
  \o ForEach(Joiners, AddSteps)

\* Tests 1, 3, 4 and 7; "channel general" selects by name, not by id.
PermissionsScript ==
  PermissionsSetup
  \o << Say(Owner, "channelcreate", "channel"),
        Find(Owner, "channel_created"),
        Say(Member, "channelcreate", "channel"),
        Find(Member, "denied"), Find(Member, "channel_created"),
        R(Member, "invitecreate"), Find(Member, "invite"),
        R(Owner, "selectchannel"),
        Say(Owner, "threadcreate", "thread"), Say(Owner, "send", "hello") >>

\* Fault variant: test 7 also counting the owner's own decryptions.
PermissionsTestsAllDecrypt(d, l) ==
  << found[V("channel_created", Owner)],
     found[V("denied", Member)] \/ ~found[V("channel_created", Member)],
     found[V("invite", Member)],
     \A c \in Clients : Count(d, c) > 0 >>

\* The four results appended to test_results.  Test 3 passes on a denial
\* anywhere in the member's log, and also when no "Created channel" line
\* is there (yet).
PermissionsTests(d, l) ==
  << found[V("channel_created", Owner)],
     found[V("denied", Member)] \/ ~found[V("channel_created", Member)],
     found[V("invite", Member)],
     Count(d, Joiners[1]) > 0 /\ Count(d, Member) > 0 >>

\* return_code: 0 only if every result passed.
PermissionsVerdict(d, l) == IF AllPass(d, l) THEN 0 ELSE 1

-----------------------------------------------------------------------------

\* Fault variant: the except BrokenPipeError clause is missing.
PipeUncaught ==
  /\ InScript /\ Ins.i = "run" /\ Settled /\ Tick
  /\ proc[Ins.c] # "Running"
  /\ phase' = "terminate"
  /\ exitCode' = 1
  /\ UNCHANGED <<engineVars, pc, found, waitIdx, readDone, snap, snapLog,
                 spawned>>

\* run_command: a write to an exited process raises BrokenPipeError, which
\* is caught and printed; the script goes on with its next step.
PipeCaught ==
  /\ InScript /\ Ins.i = "run" /\ Settled /\ Tick
  /\ proc[Ins.c] # "Running"
  /\ pc' = pc + 1
  /\ UNCHANGED <<engineVars, found, phase, waitIdx, exitCode, readDone,
                 snap, snapLog, spawned>>

PermissionsMain ==
  \/ RunCommand \/ PipeCaught \/ FindInLog \/ NeedMet \/ SetupFailed
  \/ Branch \/ ReadResults

PermissionsNext ==
  \/ BuildSucceeds \/ BuildFails \/ Spawn \/ PopenFails \/ PermissionsMain
  \/ StopEach
  \/ (Engine \/ Delivery \/ Environment) /\ DriverIdle
  \/ Finished

PermissionsSpec ==
  /\ Init /\ [][PermissionsNext]_vars
  /\ WF_vars(BuildSucceeds \/ BuildFails \/ Spawn \/ PopenFails
             \/ PermissionsMain \/ StopEach)
  /\ WF_vars(Engine /\ DriverIdle)
  /\ WF_vars(Delivery /\ DriverIdle)

-----------------------------------------------------------------------------

\* Once setup is complete, a client that exits later does not stop the
\* script: the results are collected and scored (spec.md 4.1 and 4.4).
ScoredAfterSetup ==
  (phase = "exited" /\ pc > Len(PermissionsSetup)) => readDone

\* Exit code 0 means the member was shown to be blocked: the member's
\* engine never created a channel.
MemberBlockVerified ==
  (phase = "exited" /\ exitCode = 0) => "channel_created" \notin logged[Member]

=============================================================================
