--------------------------- MODULE ScenarioDriver ---------------------------
(***************************************************************************)
(* The driver every scenario script of the repository repeats by hand:     *)
(* run_command, find_in_log, the scripted steps of main, the result        *)
(* section and the finally block, composed with the engine processes it    *)
(* drives.  A script is a CONSTANT: its step list, its checks over the     *)
(* logs as read and its verdict are defined per script and substituted in  *)
(* the model's configuration.  Every time.sleep is the time between two    *)
(* steps: the engine may do any amount of work in it.  A settle wait that  *)
(* was long enough leaves the engine Quiescent; at most MaxLate steps are  *)
(* taken after a wait that was too short.                                   *)
(***************************************************************************)
EXTENDS SpacewayEngine, SequencesExt

CONSTANTS
  Order,       \* the clients in spawn order, Owner first
  Script,      \* the scripted steps of main, built from the steps below
  Tests(_, _), \* the checks over decrypted messages and facts as read
  Verdict(_, _), \* main's return value computed from them
  MaxLate,     \* bound on steps taken before the engine settled
  PopenMayFail \* TRUE: a subprocess.Popen call may raise (EMFILE, ENOMEM)

ASSUME /\ Order \in Seq(Clients) /\ Order[1] = Owner
       /\ MaxLate \in Nat
       /\ PopenMayFail \in BOOLEAN

Joiners == Tail(Order)

VARIABLES
  pc,         \* index of the next scripted step of main
  found,      \* found[<<f, c>>]: find_in_log of fact f in c's log matched
  phase,      \* "build", "spawn", "script", then the finally block
  waitIdx,    \* the client whose proc.wait(timeout=3) runs
  exitCode,   \* the interpreter's exit status (-1 while main runs)
  readDone,   \* the result section ran
  snap,       \* decrypted messages in each log when it was read
  snapLog,    \* facts in each log when it was read
  late,       \* steps taken so far before the engine settled
  spawned     \* subprocess.Popen calls that returned a process

driverVars == <<pc, found, phase, waitIdx, exitCode, readDone, snap,
                snapLog, late, spawned>>
vars == <<engineVars, driverVars>>

NoExit == -1
Phases == {"build", "spawn", "script", "terminate", "wait", "kill", "exited"}

-----------------------------------------------------------------------------
(* The steps a script is built from.                                       *)

V(f, c) == <<f, c>>
Run(c, op, needs, to, m) ==
  [i |-> "run", c |-> c, op |-> op, needs |-> needs, to |-> to, m |-> m]
R(c, op) == Run(c, op, {}, {}, {})
Say(c, op, k) == Run(c, op, {}, {}, {Msg(k, c)})
Find(c, f) == [i |-> "find", c |-> c, f |-> f]
Need(c, f) == [i |-> "need", c |-> c, f |-> f]
When(c, f, n) == [i |-> "when", c |-> c, f |-> f, n |-> n]

ForEach(s, F(_)) == FlattenSeq([k \in 1..Len(s) |-> F(s[k])])

\* keypackage publish for everyone, then the owner's space, context,
\* invite and peer id, each followed by its extraction.
PublishSteps == ForEach(Order, LAMBDA c : << R(c, "publish") >>)
OwnerSteps ==
  << R(Owner, "context"), Find(Owner, "space_full"),
     R(Owner, "invitecreate"), Find(Owner, "invite"),
     R(Owner, "network"), Find(Owner, "peer_id") >>

JoinSteps(j) ==
  << Run(j, "connect", {V("peer_id", Owner)}, {}, {}),
     Run(j, "join", {V("space_full", Owner), V("invite", Owner)}, {}, {}),
     R(j, "whoami"), Find(j, "user_id") >>

AddSteps(j) == << Run(Owner, "memberadd", {V("user_id", j)}, {j}, {}) >>

CreateSteps ==
  << Say(Owner, "channelcreate", "channel"), Say(Owner, "threadcreate", "thread"),
     Say(Owner, "send", "hello") >>

\* space, channels, and the nested if channel_id: / if thread_id: blocks.
NavigateSteps(j) ==
  << Run(j, "selectspace", {V("space_created", Owner)}, {}, {}),
     R(j, "channels"), Find(j, "channel_row"), When(j, "channel_row", 5),
     Run(j, "selectchannel", {V("channel_row", j)}, {}, {}),
     R(j, "threads"), Find(j, "thread_row"), When(j, "thread_row", 1),
     Run(j, "selectthread", {V("thread_row", j)}, {}, {}) >>

Ins == Script[pc]
InScript == phase = "script" /\ pc <= Len(Script)

\* A step that follows a time.sleep: taken once the engine settled, or
\* early while the bound allows it.
Settled == Quiescent \/ late < MaxLate
Tick == late' = IF Quiescent THEN late ELSE late + 1

Count(d, c) == Cardinality(d[c])
Passed(d, l) == Cardinality({k \in DOMAIN Tests(d, l) : Tests(d, l)[k]})
AllPass(d, l) == Passed(d, l) = Len(Tests(d, l))

-----------------------------------------------------------------------------

Init ==
  /\ EngineInit
  /\ pc = 1
  /\ found = [v \in Facts \X Clients |-> FALSE]
  /\ phase = "build"
  /\ waitIdx = 1
  /\ exitCode = NoExit
  /\ readDone = FALSE
  /\ snap = [c \in Clients |-> {}]
  /\ snapLog = [c \in Clients |-> {}]
  /\ late = 0
  /\ spawned = 0

\* main's build step: the debug binary is used as it is when it exists,
\* otherwise cargo builds it.
BuildSucceeds ==
  /\ phase = "build" /\ phase' = "spawn"
  /\ UNCHANGED <<engineVars, pc, found, waitIdx, exitCode, readDone, snap,
                 snapLog, late, spawned>>

\* Fault variant: a bare return after "Build failed!", as test-e2ee.py
\* has it; sys.exit(None) exits with 0.
BuildFailsReturnsNone ==
  /\ phase = "build" /\ phase' = "exited"
  /\ exitCode' = 0
  /\ UNCHANGED <<engineVars, pc, found, waitIdx, readDone, snap, snapLog,
                 late, spawned>>

\* The cargo build returns non-zero: main returns 1 before it opened a log
\* or spawned an engine, so nothing is left to tear down.
BuildFails ==
  /\ phase = "build" /\ phase' = "exited"
  /\ exitCode' = 1
  /\ UNCHANGED <<engineVars, pc, found, waitIdx, readDone, snap, snapLog,
                 late, spawned>>

\* The clients' subprocess.Popen calls, in Order, before main's try.
Spawn ==
  /\ phase = "spawn"
  /\ proc' = [proc EXCEPT ![Order[spawned + 1]] = "Running"]
  /\ spawned' = spawned + 1
  /\ phase' = IF spawned + 1 = Len(Order) THEN "script" ELSE "spawn"
  /\ UNCHANGED <<stdin, logged, decrypted, kp, space, peers, joined, group,
                 epoch, view, net, crashes, pc, found, waitIdx, exitCode,
                 readDone, snap, snapLog, late>>

\* A Popen raises.  The calls stand before the try, so no finally block
\* runs: the exception ends the interpreter with status 1 and the clients
\* already spawned are left running.
PopenFails ==
  /\ phase = "spawn" /\ PopenMayFail
  /\ phase' = "exited"
  /\ exitCode' = 1
  /\ UNCHANGED <<engineVars, pc, found, waitIdx, readDone, snap, snapLog,
                 late, spawned>>

\* run_command: write the line to a live process's stdin.
RunCommand ==
  /\ InScript /\ Ins.i = "run" /\ Settled /\ Tick
  /\ proc[Ins.c] = "Running"
  /\ stdin' = [stdin EXCEPT ![Ins.c] =
                 Append(@, [op |-> Ins.op,
                            ok |-> \A v \in Ins.needs : found[v],
                            to |-> Ins.to, m |-> Ins.m])]
  /\ pc' = pc + 1
  /\ UNCHANGED <<proc, logged, decrypted, kp, space, peers, joined, group,
                 epoch, view, net, crashes, found, phase, waitIdx,
                 exitCode, readDone, snap, snapLog, spawned>>

\* The write to an exited process raises BrokenPipeError; nothing in main
\* catches it, so the finally block runs and the interpreter exits with 1.
BrokenPipe ==
  /\ InScript /\ Ins.i = "run" /\ Settled /\ Tick
  /\ proc[Ins.c] # "Running"
  /\ phase' = "terminate"
  /\ exitCode' = 1
  /\ UNCHANGED <<engineVars, pc, found, waitIdx, readDone, snap, snapLog, spawned>>

\* find_in_log: the first match in the whole log, or None.
FindInLog ==
  /\ InScript /\ Ins.i = "find" /\ Settled /\ Tick
  /\ found' = [found EXCEPT ![V(Ins.f, Ins.c)] = Ins.f \in logged[Ins.c]]
  /\ pc' = pc + 1
  /\ UNCHANGED <<engineVars, phase, waitIdx, exitCode, readDone, snap,
                 snapLog, spawned>>

\* if not space_id: return 1.
NeedMet ==
  /\ InScript /\ Ins.i = "need" /\ found[V(Ins.f, Ins.c)]
  /\ pc' = pc + 1
  /\ UNCHANGED <<engineVars, found, phase, waitIdx, exitCode, readDone,
                 snap, snapLog, late, spawned>>

SetupFailed ==
  /\ InScript /\ Ins.i = "need" /\ ~found[V(Ins.f, Ins.c)]
  /\ phase' = "terminate"
  /\ exitCode' = 1
  /\ UNCHANGED <<engineVars, pc, found, waitIdx, readDone, snap, snapLog,
                 late, spawned>>

\* if channel_id: / if thread_id: skip the block if None.
Branch ==
  /\ InScript /\ Ins.i = "when"
  /\ pc' = IF found[V(Ins.f, Ins.c)] THEN pc + 1 ELSE pc + 1 + Ins.n
  /\ UNCHANGED <<engineVars, found, phase, waitIdx, exitCode, readDone,
                 snap, snapLog, late, spawned>>

\* The result section: read every log once, score the checks, return.
ReadResults ==
  /\ phase = "script" /\ pc = Len(Script) + 1 /\ Settled /\ Tick
  /\ snap' = decrypted
  /\ snapLog' = logged
  /\ readDone' = TRUE
  /\ exitCode' = Verdict(decrypted, logged)
  /\ phase' = "terminate"
  /\ UNCHANGED <<engineVars, pc, found, waitIdx, spawned>>

-----------------------------------------------------------------------------
(* The finally block: terminate all, wait for each, kill all on timeout.   *)

TerminateAll ==
  /\ phase = "terminate"
  /\ proc' = [c \in Clients |-> IF proc[c] = "Running" THEN "Stopping"
                                                     ELSE proc[c]]
  /\ phase' = "wait"
  /\ waitIdx' = 1
  /\ UNCHANGED <<stdin, logged, decrypted, kp, space, peers, joined, group,
                 epoch, view, net, crashes, pc, found, exitCode,
                 readDone, snap, snapLog, late, spawned>>

\* Fault variant: the wait loop steps past the last process.
WaitReturnsPastEnd ==
  /\ phase = "wait"
  /\ proc[Order[waitIdx]] \in Dead
  /\ waitIdx' = waitIdx + 1
  /\ phase' = IF waitIdx = Len(Order) THEN "exited" ELSE phase
  /\ UNCHANGED <<engineVars, pc, found, exitCode, readDone, snap, snapLog,
                 late, spawned>>

\* proc.wait(timeout=3) returns once the process exited ...
WaitReturns ==
  /\ phase = "wait"
  /\ proc[Order[waitIdx]] \in Dead
  /\ IF waitIdx = Len(Order)
       THEN phase' = "exited" /\ UNCHANGED waitIdx
       ELSE waitIdx' = waitIdx + 1 /\ UNCHANGED phase
  /\ UNCHANGED <<engineVars, pc, found, exitCode, readDone, snap, snapLog,
                 late, spawned>>

\* Fault variant: proc.wait() without a timeout never gives up.
WaitNoTimeout == FALSE

\* ... or raises TimeoutExpired, caught by the bare except.
WaitTimesOut ==
  /\ phase = "wait"
  /\ proc[Order[waitIdx]] \notin Dead
  /\ phase' = "kill"
  /\ UNCHANGED <<engineVars, pc, found, waitIdx, exitCode, readDone, snap,
                 snapLog, late, spawned>>

\* Fault variant: only the process whose wait timed out is killed.
KillTimedOut ==
  /\ phase = "kill"
  /\ proc' = [proc EXCEPT ![Order[waitIdx]] = "Killed"]
  /\ phase' = "exited"
  /\ UNCHANGED <<stdin, logged, decrypted, kp, space, peers, joined, group,
                 epoch, view, net, crashes, pc, found, waitIdx, exitCode,
                 readDone, snap, snapLog, late, spawned>>

KillAll ==
  /\ phase = "kill"
  /\ proc' = [c \in Clients |-> IF proc[c] \in Dead THEN proc[c]
                                                   ELSE "Killed"]
  /\ phase' = "exited"
  /\ UNCHANGED <<stdin, logged, decrypted, kp, space, peers, joined, group,
                 epoch, view, net, crashes, pc, found, waitIdx, exitCode,
                 readDone, snap, snapLog, late, spawned>>

-----------------------------------------------------------------------------

MainSteps ==
  \/ RunCommand \/ BrokenPipe \/ FindInLog \/ NeedMet \/ SetupFailed
  \/ Branch \/ ReadResults

FinallyBlock == TerminateAll \/ WaitReturns \/ WaitTimesOut \/ KillAll

Driver == BuildSucceeds \/ BuildFails \/ Spawn \/ PopenFails \/ MainSteps \/ FinallyBlock

Engine == \E c \in Clients : Process(c)

Delivery == \E d \in net : Deliver(d)

Environment == \E c \in Clients : Crash(c) \/ ExitOnSignal(c)

DriverIdle == UNCHANGED driverVars

\* The script has returned and every process it spawned is gone.
Finished == phase = "exited" /\ UNCHANGED vars

Next ==
  \/ Driver
  \/ (Engine \/ Delivery \/ Environment) /\ DriverIdle
  \/ Finished

\* The script is one thread that sleeps and proceeds; a running engine
\* reads its stdin and the network delivers.  A terminated process need
\* not exit (it may ignore SIGTERM), and nothing forces a crash.
Spec ==
  /\ Init /\ [][Next]_vars
  /\ WF_vars(Driver)
  /\ WF_vars(Engine /\ DriverIdle)
  /\ WF_vars(Delivery /\ DriverIdle)

-----------------------------------------------------------------------------
(* Properties every scenario is checked against.                         *)

TypeOK ==
  /\ EngineTypeOK
  /\ pc \in 1..Len(Script) + 1
  /\ found \in [Facts \X Clients -> BOOLEAN]
  /\ phase \in Phases
  /\ waitIdx \in 1..Len(Order)
  /\ exitCode \in {NoExit, 0, 1}
  /\ readDone \in BOOLEAN
  /\ snap \in [Clients -> SUBSET Msgs]
  /\ snapLog \in [Clients -> SUBSET Facts]
  /\ late \in 0..MaxLate
  /\ spawned \in 0..Len(Order)

\* The finally block leaves no engine process behind: whichever way main
\* ended (return, return 1 on setup failure, BrokenPipeError) and whichever
\* processes ignored SIGTERM, every process has exited or been killed when
\* the script exits.
ProcessesReaped ==
  phase = "exited" => \A c \in Clients : proc[c] \in Dead

\* The settle waits and the expected counts of the checks fit the engine:
\* when every wait was long enough and no process crashed, the result
\* section ran, every check passed and main returned 0.
CalibratedVerdict ==
  (phase = "exited" /\ late = 0 /\ crashes = 0 /\ spawned = Len(Order)) =>
    /\ readDone
    /\ AllPass(snap, snapLog)
    /\ exitCode = 0

\* The script always finishes: no step waits on the engine forever, and a
\* process that ignores SIGTERM only costs the wait timeout.
ScriptTerminates == <>(phase = "exited")

\* Exit status 0 is only ever the verdict of the result section: every
\* other way out of main (a failed build, a Popen that raises, a missing
\* space id, a BrokenPipeError from a write) ends the interpreter with a
\* non-zero status, so a caller never takes an unscored run for a pass.
ExitZeroScored ==
  (phase = "exited" /\ exitCode = 0) => readDone

\* Step k was passed over by an if channel_id: / if thread_id: skip.
Skipped(k) ==
  \E w \in 1..(k - 1) :
    /\ Script[w].i = "when" /\ ~found[V(Script[w].f, Script[w].c)]
    /\ k <= w + Script[w].n

\* main has written a command into which an id that find_in_log returned
\* as None was substituted (connect to None, member add None, kick None).
NoneSent ==
  \E k \in 1..(pc - 1) :
    /\ Script[k].i = "run" /\ ~Skipped(k)
    /\ \E v \in Script[k].needs : ~found[v]

\* A run that passed a None id on never passes: only the space id aborts
\* setup, and the checks with the threshold must fail a run whose invite,
\* peer or user id was read before the engine printed it.
NoneNeverPasses ==
  (phase = "exited" /\ exitCode = 0) => ~NoneSent

\* Once setup succeeded the assertion phase runs and is scored, whatever
\* happens to a client later (spec.md 4.1: a write to an exited process is
\* recorded and the scenario continues; 4.4: assertions run unconditionally).
AssertionPhaseRuns ==
  (phase = "exited" /\ found[V("space_created", Owner)]) => readDone

\* The teardown the driver implements, seen through which processes are
\* still alive and whether main is still running.
Stage == CASE phase \in {"build", "spawn", "script"} -> "running"
           [] phase = "exited" -> "done"
           [] OTHER -> "teardown"

TD == INSTANCE Teardown WITH
        Procs <- Clients,
        started <- {c \in Clients : proc[c] # "Unstarted"},
        alive <- {c \in Clients : proc[c] \notin Dead},
        stage <- Stage

\* The finally block implements TeardownManager's contract (spec.md 4.6):
\* every way out of main starts teardown, no process is revived, and
\* teardown ends with every process gone.
TeardownRefined == TD!TSpec

=============================================================================
