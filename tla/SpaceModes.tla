----------------------------- MODULE SpaceModes -----------------------------
(***************************************************************************)
(* src/tests/scripts/test-space-modes.py: one client creates a space with *)
(* the default mode, one with --mode lightweight and one with --mode mls, *)
(* lists its spaces and scores six checks over its log.  Every check is a *)
(* scan of the whole log (find_in_log, check_log, `in`), so the log is the *)
(* set of lines printed so far, each naming its space.  What the engine    *)
(* does with --mode is the constant CreatedMode: the honest engine and the *)
(* faulty ones the script is meant to tell apart are given in MC modules.  *)
(***************************************************************************)
EXTENDS Integers, Sequences, FiniteSets

CONSTANTS
  Alice,           \* the only client
  CreatedMode(_),  \* the mode the engine gives a space created with a request
  MaxCrashes,      \* bound on unexpected exits of the process
  MaxLate          \* bound on steps taken before the process settled

Requests == {"default", "lightweight", "mls"}
Modes == {"mls", "lightweight"}

ASSUME /\ \A r \in Requests : CreatedMode(r) \in Modes
       /\ MaxCrashes \in Nat /\ MaxLate \in Nat

\* The three space names; two of them contain the substring "MLS".
Names == {"MLSTestSpace", "LightweightTest", "ExplicitMLS"}
HasMLSText == {"MLSTestSpace", "ExplicitMLS"}

\* Printed lines: "Created space: <name> (<id>)", the mode line ("Created
\* MLS-encrypted space" / "space-level encryption enabled", or "LIGHTWEIGHT
\* space" / "no space-level MLS group") and a row of the spaces listing.
Lines == [k : {"created", "mlsgroup", "light", "listed"}, s : Names]
Line(k, n) == [k |-> k, s |-> n]

Cmds == [op : {"publish", "create", "spaces"}, s : Names \cup {"none"},
         mode : Requests]
Cmd(op, n, r) == [op |-> op, s |-> n, mode |-> r]

ProcStates == {"Unstarted", "Running", "Stopping", "Stopped", "Crashed",
               "Killed"}
Dead == {"Unstarted", "Stopped", "Crashed", "Killed"}

VARIABLES
  proc,      \* the engine process's lifecycle
  stdin,     \* commands written and not yet read
  log,       \* lines printed to alice.log
  created,   \* the mode of each space the engine created ("none": not yet)
  crashes,   \* unexpected exits so far
  pc,        \* next scripted step of main
  found,     \* the extraction or check each step stored, by variable
  phase,     \* "build", "spawn", "script", "terminate", "wait", "exited"
  exitCode,  \* interpreter exit status (-1 while main runs)
  readDone,  \* the result section ran
  content,   \* alice_log_content: the log as the result section read it
  late       \* steps taken so far before the process settled

vars == <<proc, stdin, log, created, crashes, pc, found, phase, exitCode,
          readDone, content, late>>

-----------------------------------------------------------------------------
(* The engine process.                                                     *)

\* space create <name> [--mode m]: the space, its creation line and the
\* line saying which mode it got.
ModeLine(m) == IF m = "mls" THEN "mlsgroup" ELSE "light"

ReadCmd ==
  LET c == Head(stdin) IN
  /\ proc = "Running" /\ stdin # <<>>
  /\ stdin' = Tail(stdin)
  /\ CASE c.op = "create" ->
            /\ created' = [created EXCEPT ![c.s] = CreatedMode(c.mode)]
            /\ log' = log \cup {Line("created", c.s),
                                Line(ModeLine(CreatedMode(c.mode)), c.s)}
       [] c.op = "spaces" ->
            /\ log' = log \cup {Line("listed", n) :
                                  n \in {x \in Names : created[x] # "none"}}
            /\ UNCHANGED created
       [] OTHER -> UNCHANGED <<log, created>>
  /\ UNCHANGED <<proc, crashes, pc, found, phase, exitCode, readDone,
                 content, late>>

Crash ==
  /\ proc = "Running" /\ crashes < MaxCrashes
  /\ proc' = "Crashed"
  /\ crashes' = crashes + 1
  /\ UNCHANGED <<stdin, log, created, pc, found, phase, exitCode, readDone,
                 content, late>>

ExitOnSignal ==
  /\ proc = "Stopping"
  /\ proc' = "Stopped"
  /\ UNCHANGED <<stdin, log, created, crashes, pc, found, phase, exitCode,
                 readDone, content, late>>

Quiescent == proc = "Running" => stdin = <<>>

-----------------------------------------------------------------------------
(* The script's steps.                                                     *)

Run(op, n, r) == [i |-> "run", c |-> Cmd(op, n, r)]
\* find_in_log / check_log of lines of kind k (of space n, or of any space
\* when n = "any"), stored under variable v.
Scan(v, k, n) == [i |-> "scan", v |-> v, k |-> k, s |-> n]
\* if not <v>: return 1.
Need(v) == [i |-> "need", v |-> v]

Vars == {"mls_space_id", "has_mls_group", "light_space_id",
         "has_lightweight", "explicit_mls_id", "has_explicit_mls"}

\* Fault variant: the lightweight space is created without --mode.
SpaceModesScriptNoMode ==
  << Run("publish", "none", "default"),
     Run("create", "MLSTestSpace", "default"),
     Scan("mls_space_id", "created", "any"), Need("mls_space_id"),
     Scan("has_mls_group", "mlsgroup", "any"),
     Run("create", "LightweightTest", "default"),
     Scan("light_space_id", "created", "LightweightTest"),
     Need("light_space_id"),
     Scan("has_lightweight", "light", "any"),
     Run("create", "ExplicitMLS", "mls"),
     Scan("explicit_mls_id", "created", "ExplicitMLS"),
     Need("explicit_mls_id"),
     Scan("has_explicit_mls", "mlsgroup", "any"),
     Run("spaces", "none", "default") >>

SpaceModesScript ==
  << Run("publish", "none", "default"),
     Run("create", "MLSTestSpace", "default"),
     Scan("mls_space_id", "created", "any"), Need("mls_space_id"),
     Scan("has_mls_group", "mlsgroup", "any"),
     Run("create", "LightweightTest", "lightweight"),
     Scan("light_space_id", "created", "LightweightTest"),
     Need("light_space_id"),
     Scan("has_lightweight", "light", "any"),
     Run("create", "ExplicitMLS", "mls"),
     Scan("explicit_mls_id", "created", "ExplicitMLS"),
     Need("explicit_mls_id"),
     Scan("has_explicit_mls", "mlsgroup", "any"),
     Run("spaces", "none", "default") >>

Ins == SpaceModesScript[pc]
InScript == phase = "script" /\ pc <= Len(SpaceModesScript)
Settled == Quiescent \/ late < MaxLate
Tick == late' = IF Quiescent THEN late ELSE late + 1

Matches(l, k, n) == l.k = k /\ (n = "any" \/ l.s = n)

\* The six checks of the result section.  'MLS' in alice_log_content
\* holds as soon as a line names MLSTestSpace or ExplicitMLS, and the
\* listing check as soon as any line names one of the three spaces.
SpaceModesTests(f, txt) ==
  << f["mls_space_id"],
     f["has_mls_group"] \/ \E l \in txt : l.s \in HasMLSText,
     f["light_space_id"],
     f["has_lightweight"],
     f["explicit_mls_id"],
     \E l \in txt : l.s \in Names >>

Passed(f, txt) ==
  Cardinality({k \in 1..6 : SpaceModesTests(f, txt)[k]})

\* Fault variant: main returns tests_passed instead of 0 or 1.
SpaceModesVerdictScore(f, txt) == Passed(f, txt)

\* if tests_passed >= 5: return 0, else return 1.
SpaceModesVerdict(f, txt) == IF Passed(f, txt) >= 5 THEN 0 ELSE 1

-----------------------------------------------------------------------------

Init ==
  /\ proc = "Unstarted"
  /\ stdin = <<>>
  /\ log = {}
  /\ created = [n \in Names |-> "none"]
  /\ crashes = 0
  /\ pc = 1
  /\ found = [v \in Vars |-> FALSE]
  /\ phase = "build"
  /\ exitCode = -1
  /\ readDone = FALSE
  /\ content = {}
  /\ late = 0

\* The debug binary is used when it exists, otherwise cargo builds it.
BuildSucceeds ==
  /\ phase = "build" /\ phase' = "spawn"
  /\ UNCHANGED <<proc, stdin, log, created, crashes, pc, found, exitCode,
                 readDone, content, late>>

\* A failed build returns 1 before Alice's log is opened.
BuildFails ==
  /\ phase = "build" /\ phase' = "exited" /\ exitCode' = 1
  /\ UNCHANGED <<proc, stdin, log, created, crashes, pc, found, readDone,
                 content, late>>

\* subprocess.Popen for Alice, before the try.  A Popen that raises leaves
\* no process behind; the interpreter exits with 1.
Spawn ==
  /\ phase = "spawn"
  /\ proc' = "Running"
  /\ phase' = "script"
  /\ UNCHANGED <<stdin, log, created, crashes, pc, found, exitCode,
                 readDone, content, late>>

RunCommand ==
  /\ InScript /\ Ins.i = "run" /\ Settled /\ Tick
  /\ proc = "Running"
  /\ stdin' = Append(stdin, Ins.c)
  /\ pc' = pc + 1
  /\ UNCHANGED <<proc, log, created, crashes, found, phase, exitCode,
                 readDone, content>>

\* Writing to an exited process raises BrokenPipeError out of main; the
\* finally block runs and the interpreter exits with 1.
BrokenPipe ==
  /\ InScript /\ Ins.i = "run" /\ Settled /\ Tick
  /\ proc # "Running"
  /\ phase' = "terminate"
  /\ exitCode' = 1
  /\ UNCHANGED <<proc, stdin, log, created, crashes, pc, found, readDone,
                 content>>

ScanLog ==
  /\ InScript /\ Ins.i = "scan" /\ Settled /\ Tick
  /\ found' = [found EXCEPT ![Ins.v] =
                 \E l \in log : Matches(l, Ins.k, Ins.s)]
  /\ pc' = pc + 1
  /\ UNCHANGED <<proc, stdin, log, created, crashes, phase, exitCode,
                 readDone, content>>

NeedMet ==
  /\ InScript /\ Ins.i = "need" /\ found[Ins.v]
  /\ pc' = pc + 1
  /\ UNCHANGED <<proc, stdin, log, created, crashes, found, phase, exitCode,
                 readDone, content, late>>

SetupFailed ==
  /\ InScript /\ Ins.i = "need" /\ ~found[Ins.v]
  /\ phase' = "terminate"
  /\ exitCode' = 1
  /\ UNCHANGED <<proc, stdin, log, created, crashes, pc, found, readDone,
                 content, late>>

\* The result section: read the whole log once and score.
ReadResults ==
  /\ phase = "script" /\ pc = Len(SpaceModesScript) + 1 /\ Settled /\ Tick
  /\ content' = log
  /\ readDone' = TRUE
  /\ exitCode' = SpaceModesVerdict(found, log)
  /\ phase' = "terminate"
  /\ UNCHANGED <<proc, stdin, log, created, crashes, pc, found>>

-----------------------------------------------------------------------------
(* finally: terminate, wait(timeout=3), on any exception kill.            *)

Terminate ==
  /\ phase = "terminate"
  /\ proc' = IF proc = "Running" THEN "Stopping" ELSE proc
  /\ phase' = "wait"
  /\ UNCHANGED <<stdin, log, created, crashes, pc, found, exitCode,
                 readDone, content, late>>

WaitReturns ==
  /\ phase = "wait" /\ proc \in Dead
  /\ phase' = "exited"
  /\ UNCHANGED <<proc, stdin, log, created, crashes, pc, found, exitCode,
                 readDone, content, late>>

\* Fault variant: the timeout is swallowed without the kill.
WaitKillSkipped ==
  /\ phase = "wait" /\ proc \notin Dead
  /\ phase' = "exited"
  /\ UNCHANGED <<proc, stdin, log, created, crashes, pc, found, exitCode,
                 readDone, content, late>>

\* wait raises TimeoutExpired; the bare except kills the process.
WaitKill ==
  /\ phase = "wait" /\ proc \notin Dead
  /\ proc' = "Killed"
  /\ phase' = "exited"
  /\ UNCHANGED <<stdin, log, created, crashes, pc, found, exitCode,
                 readDone, content, late>>

Driver ==
  \/ BuildSucceeds \/ BuildFails \/ Spawn \/ RunCommand \/ BrokenPipe \/ ScanLog \/ NeedMet
  \/ SetupFailed \/ ReadResults \/ Terminate \/ WaitReturns \/ WaitKill

Engine == ReadCmd \/ Crash \/ ExitOnSignal

Finished == phase = "exited" /\ UNCHANGED vars

Next == Driver \/ Engine \/ Finished

\* The script proceeds after each sleep and the running engine reads its
\* stdin; nothing forces a crash or an exit on SIGTERM.
Spec == Init /\ [][Next]_vars /\ WF_vars(Driver) /\ WF_vars(ReadCmd)

-----------------------------------------------------------------------------

TypeOK ==
  /\ proc \in ProcStates
  /\ stdin \in Seq(Cmds)
  /\ log \subseteq Lines
  /\ created \in [Names -> Modes \cup {"none"}]
  /\ crashes \in 0..MaxCrashes
  /\ pc \in 1..Len(SpaceModesScript) + 1
  /\ found \in [Vars -> BOOLEAN]
  /\ phase \in {"build", "spawn", "script", "terminate", "wait", "exited"}
  /\ exitCode \in {-1, 0, 1}
  /\ readDone \in BOOLEAN
  /\ content \subseteq Lines
  /\ late \in 0..MaxLate

\* With an engine that honours --mode, waits that were long enough and no
\* crash, setup succeeds, all six checks pass and main returns 0.
ModesCalibrated ==
  (phase = "exited" /\ late = 0 /\ crashes = 0 /\ proc # "Unstarted") =>
    /\ readDone
    /\ Passed(found, content) = 6
    /\ exitCode = 0

\* The exit status tells whether the engine honoured the modes: main
\* returns 0 only if the default and explicit MLS spaces were created
\* with an MLS group and the lightweight space without one.
ModesVerified ==
  exitCode = 0 =>
    /\ created["MLSTestSpace"] = "mls"
    /\ created["LightweightTest"] = "lightweight"
    /\ created["ExplicitMLS"] = "mls"

Stage == CASE phase \in {"build", "spawn", "script"} -> "running"
           [] phase = "exited" -> "done"
           [] OTHER -> "teardown"

TD == INSTANCE Teardown WITH
        Procs <- {Alice},
        started <- IF proc = "Unstarted" THEN {} ELSE {Alice},
        alive <- IF proc \in Dead THEN {} ELSE {Alice},
        stage <- Stage

\* The finally block implements TeardownManager's contract (spec.md 4.6)
\* for the single client, however main ended.
TeardownRefined == TD!TSpec
=============================================================================
