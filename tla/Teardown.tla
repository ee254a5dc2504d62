------------------------------ MODULE Teardown ------------------------------
(***************************************************************************)
(* What spec.md 4.6 promises of TeardownManager, with no detail of how:    *)
(* processes may exit at any time; once the scenario stops, teardown runs *)
(* unconditionally and ends with no process alive, however many ignored    *)
(* the graceful request.                                                    *)
(***************************************************************************)
CONSTANT Procs

VARIABLES
  started, \* processes that were started
  alive,   \* processes that have not exited
  stage    \* "running", "teardown", "done"

tvars == <<started, alive, stage>>

TInit == started = {} /\ alive = {} /\ stage = "running"

\* While the scenario runs, a process is started, once.
Start(p) ==
  /\ stage = "running" /\ p \notin started
  /\ started' = started \cup {p}
  /\ alive' = alive \cup {p}
  /\ UNCHANGED stage

\* A process exits on its own: a crash, or exit after a graceful request.
Exit(p) == p \in alive /\ alive' = alive \ {p} /\ UNCHANGED <<started, stage>>

\* The scenario stops, normally or not: teardownAll is invoked.
Begin == stage = "running" /\ stage' = "teardown" /\ UNCHANGED <<started, alive>>

\* The scenario ends before it started any process (a failed build): it
\* has no instance to hand to teardownAll.
Abandon ==
  stage = "running" /\ started = {} /\ stage' = "done"
  /\ UNCHANGED <<started, alive>>

\* After the bounded wait, whatever is still alive is killed.
Finish == stage = "teardown" /\ stage' = "done" /\ alive' = {}
          /\ UNCHANGED started

TNext == (\E p \in Procs : Start(p) \/ Exit(p)) \/ Begin \/ Abandon \/ Finish

TSpec == TInit /\ [][TNext]_tvars /\ WF_tvars(Begin) /\ WF_tvars(Finish)

=============================================================================
