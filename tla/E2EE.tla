--------------------------------- MODULE E2EE ---------------------------------
(***************************************************************************)
(* src/test-e2ee.py: the bidirectional round trip driven through the      *)
(* SpacewayClient class.  Setup never aborts, main returns None, and each  *)
(* client's stop() terminates, waits up to 5 s and kills that client only. *)
(***************************************************************************)
EXTENDS Bidirectional

\* Fault variant: Bob replies before navigating to the thread.
E2EEScriptSwapped ==
  PublishSteps
  \o << R(Owner, "spacecreate"), Find(Owner, "space_created") >>
  \o OwnerSteps
  \o JoinSteps(Joiners[1])
  \o AddSteps(Joiners[1])
  \o CreateSteps
  \o << R(Joiners[1], "spacelist"), Say(Joiners[1], "send", "reply") >>
  \o NavigateSteps(Joiners[1])
  \o << Say(Owner, "send", "final") >>

E2EEScript ==
  PublishSteps
  \o << R(Owner, "spacecreate"), Find(Owner, "space_created") >>
  \o OwnerSteps
  \o JoinSteps(Joiners[1])
  \o AddSteps(Joiners[1])
  \o CreateSteps
  \o << R(Joiners[1], "spacelist") >>
  \o NavigateSteps(Joiners[1])
  \o << Say(Joiners[1], "send", "reply"), Say(Owner, "send", "final") >>

\* The five printed checks.
E2EETests(d, l) == BidirectionalTests(d, l)

\* The success condition of line 177.
E2EESuccess(d, l) ==
  LET t == E2EETests(d, l) IN t[1] /\ t[2] /\ t[3] /\ t[4]

\* main() prints the outcome and returns None; the module calls main()
\* without sys.exit, so the interpreter exits with 0.
E2EEVerdict(d, l) == 0

-----------------------------------------------------------------------------
(* The finally block: alice.stop(), then bob.stop().                      *)

\* The release build: line 73 tests the status of "cargo ... | tail -3",
\* which is tail's, so a failed cargo build does not reach "Build failed!"
\* and main goes on (BuildSucceeds) with whatever binary is there; without
\* one, the Popen of start() raises inside the try (StartFails).

\* alice.start() and bob.start() run inside the try: a Popen that raises
\* goes to the finally block and then ends the interpreter with status 1.
StartFails ==
  /\ phase = "spawn" /\ PopenMayFail
  /\ phase' = "terminate"
  /\ exitCode' = 1
  /\ UNCHANGED <<engineVars, pc, found, waitIdx, readDone, snap, snapLog,
                 late, spawned>>

\* stop() does nothing to a client whose process was never created
\* (if self.process:): SigTerm leaves it "Unstarted", which is Dead, so
\* its wait returns at once.

SigTerm(c) == [proc EXCEPT ![c] = IF @ = "Running" THEN "Stopping" ELSE @]

\* self.process.terminate(), then self.process.wait(timeout=5).
StopTerminate ==
  /\ phase = "terminate"
  /\ proc' = SigTerm(Order[waitIdx])
  /\ phase' = "wait"
  /\ UNCHANGED <<stdin, logged, decrypted, kp, space, peers, joined, group,
                 epoch, view, net, crashes, pc, found, waitIdx, exitCode,
                 readDone, snap, snapLog, late, spawned>>

\* The next client's stop(), or the end of the finally block.
NextStop ==
  IF waitIdx = Len(Order) THEN phase' = "exited" /\ UNCHANGED waitIdx
  ELSE phase' = "terminate" /\ waitIdx' = waitIdx + 1

StopWaitReturns ==
  /\ phase = "wait"
  /\ proc[Order[waitIdx]] \in Dead
  /\ NextStop
  /\ UNCHANGED <<engineVars, pc, found, exitCode, readDone, snap, snapLog,
                 late, spawned>>

\* Fault variant: the timeout is caught but the process is not killed.
StopKillSkipped ==
  /\ phase = "wait"
  /\ proc[Order[waitIdx]] \notin Dead
  /\ NextStop
  /\ UNCHANGED <<engineVars, pc, found, exitCode, readDone, snap, snapLog,
                 late, spawned>>

\* Fault variant: wait() without a timeout never gives up.
StopNoTimeout == FALSE

\* except subprocess.TimeoutExpired: self.process.kill()
StopKill ==
  /\ phase = "wait"
  /\ proc[Order[waitIdx]] \notin Dead
  /\ proc' = [proc EXCEPT ![Order[waitIdx]] = "Killed"]
  /\ NextStop
  /\ UNCHANGED <<stdin, logged, decrypted, kp, space, peers, joined, group,
                 epoch, view, net, crashes, pc, found, exitCode, readDone,
                 snap, snapLog, late, spawned>>

StopEach == StopTerminate \/ StopWaitReturns \/ StopKill

E2EENext ==
  \/ BuildSucceeds \/ Spawn \/ StartFails \/ MainSteps \/ StopEach
  \/ (Engine \/ Delivery \/ Environment) /\ DriverIdle
  \/ Finished

E2EESpec ==
  /\ Init /\ [][E2EENext]_vars
  /\ WF_vars(BuildSucceeds \/ Spawn \/ StartFails \/ MainSteps \/ StopEach)
  /\ WF_vars(Engine /\ DriverIdle)
  /\ WF_vars(Delivery /\ DriverIdle)

-----------------------------------------------------------------------------

\* The exit status tells whether the round trip worked: the interpreter
\* exits with 0 only when the success condition of line 177 held.
ExitReflectsChecks ==
  (phase = "exited" /\ exitCode = 0) => readDone /\ E2EESuccess(snap, snapLog)

=============================================================================
