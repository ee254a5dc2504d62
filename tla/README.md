# TLA+ models of the spaceway scenario scripts

The code under `src/` is a set of Python scenario scripts that test the
`spaceway` messaging engine. Each script does the following (five at the root, four more under `src/tests/scripts/`, next to the `test-automation.py` harness):

- It uses the debug binary if it exists and builds it with cargo otherwise (test-e2ee.py always runs a release build).
- It spawns one engine process per participant with `subprocess.Popen`.
- It drives those processes by writing commands to their stdin (`run_command`), with a fixed `time.sleep` after each command.
- It extracts identifiers from the processes' log files with first-match regular expressions (`find_in_log`, `check_log`).
- It scores a list of checks against a partial-success threshold and returns an exit code.
- In a `finally` block, it terminates, waits for and kills the processes.

`spec.md` names these parts:

| Part | Code |
|---|---|
| ClientHandle | the process and `run_command` |
| CommandSequencer | the step list of `main` |
| FactExtractor | `find_in_log` / `check_log` |
| ScenarioRunner | setup abort, branches, result section |
| AssertionScorer | `tests_passed`, threshold, exit code |
| TeardownManager | the `finally` block, or `SpacewayClient.stop` in test-e2ee.py |

The engine itself (MLS groups, spaces, channels, threads, gossip delivery) is not under `src/`. It is modelled from `spec.md`, sections 3, 6 and 8. It is modelled only as far as the scripts can observe it.

## Survey

**State.** The state has two sides:

- **Engine side:**
  - Each process's lifecycle: Unstarted, Running, Stopping, Stopped, Crashed or Killed.
  - Its unread stdin.
  - Each log: the facts printed to it (space created, full space id, invite, peer id, user id, channel created, permission denied, channel row, thread row, removal confirmation) and the set of messages the client decrypted.
  - The MLS state: the published key packages, the space, peers, joined members, the current epoch's members, the clients holding the group state, each client's selection, and the messages in flight.
- **Script side:**
  - How many engines have been spawned.
  - The step counter of `main`.
  - The extracted values (found or None).
  - The teardown phase.
  - The exit code.
  - The logs as read by the result section.

**Operations.**

- Engine commands: `keypackage publish`, `space create` (with `--mode` in test-space-modes.py), `context`, `invite create`, `network`, `connect`, `join`, `whoami`, `member add`, `channel create`, `thread create`, `send`, `space`, `spaces`, `channels`, `channel`, `threads`, `thread`, `kick`.
- Environment: delivery of one message, a crash, and exit on SIGTERM.
- Script steps:
  - build the engine (or fail to);
  - spawn an engine (or fail to);
  - write a command;
  - extract a fact;
  - abort setup;
  - skip a block;
  - read and score;
  - terminate, wait, wait timeout, kill.

**Hard behaviours:**

- Settle waits race asynchronous processing and delivery.
- A Welcome can arrive after operations that need it. Those operations are then dropped.
- A process can crash mid-script, and the next write raises `BrokenPipeError`. It is swallowed in test-permissions.py and uncaught elsewhere.
- A `Popen` before the `try` can raise after earlier ones succeeded.
- A process can ignore SIGTERM.
- The first wait timeout skips the other waits.
- A threshold can hide a failed critical check.
- Checks that scan the whole log can be satisfied by an unrelated line (a space name, the absence of a line that is still to come).

The `hazards` list of `PROJECT.json` gives each of these at its line.

## Modules

- **`SpacewayEngine`** is the engine processes, modelled from the spec.
  - One action per command. Each action reads the head of that client's stdin (`Reads`) and applies the command's effect.
  - A command whose substituted argument was `None` (field `ok = FALSE`) has no effect.
  - `epoch[c]` is the MLS epoch of client `c`'s group state (0: none). `member add` and `kick` call `Rotate`: the committer moves to the next epoch, a Commit for it goes to the members that stay, and a Welcome goes to the added member.
  - `Deliver` applies a Welcome, applies a Commit only at a receiver exactly one epoch behind, and decrypts an application message only at a receiver in the message's epoch. Anything else is dropped. Delivery happens in any order, so a Commit can be overtaken.
  - `Kick` logs the confirmation. The constant `LeakyKick` models an engine that confirms the kick but still sends the Commit to the removed member.
  - `ChannelCreate` succeeds for the space's creator (Admin role). For a Member it logs a denial, because the default Member role lacks CREATE_CHANNELS. The constant `OpenChannels` models an engine that skips that check.
  - `Crash` is bounded by `MaxCrashes`. `ExitOnSignal` takes a process from Stopping to Stopped, but nothing forces it to happen.
- **`ScenarioDriver`** is what the root scripts share, composed with the engine.
  - Its constants are:
    - the participants `Order` (owner first);
    - the step list `Script`;
    - the check tuple `Tests(decrypted, logs)`;
    - the verdict `Verdict(decrypted, logs)`;
    - `MaxLate`;
    - `PopenMayFail`.
  - `BuildSucceeds` (the debug binary exists, or cargo builds it) and `BuildFails` (`return 1` before any log is opened) come first.
  - `Spawn` runs the `Popen` calls in order. Because they stand before the `try`, `PopenFails` (a raising `Popen`) exits with 1 and the `finally` block never runs.
  - Steps are `Run` (a `run_command`), `Find` (a `find_in_log`), `Need` (the `if not space_id: return 1` abort) and `When` (the `if channel_id:` / `if thread_id:` skips). `PublishSteps`, `OwnerSteps`, `JoinSteps`, `AddSteps`, `CreateSteps` and `NavigateSteps` are the blocks the scripts repeat.
  - `time.sleep` is the time the engine gets between two script steps. A step is taken when the engine is `Quiescent` (the wait was long enough), or early, at most `MaxLate` times per behaviour.
  - `ReadResults` reads every log and the verdict. The `finally` block is `TerminateAll`, then `WaitReturns`/`WaitTimesOut` (in order, the first timeout leaving the loop), then `KillAll` (the bare `except`).
- **Per-script modules.** **`KickThree`**, **`KickTwo`**, **`ThreeMembers`**, **`Bidirectional`** and **`KickFour`** give the step list, checks and threshold of `test-three-members-kick.py`, `test-kick-member.py`, `test-three-members.py`, `test-bidirectional.py` and `tests/scripts/test-four-members-kick.py`.
- **`E2EE`** is `test-e2ee.py`.
  - It has no setup abort and a `space list` before navigating.
  - Its release build always runs, and `main` always goes on: line 73 tests the status of `cargo ... | tail -3`, which is tail's, so "Build failed!" is never reached by a failed build. Without a binary, `start()` raises inside the `try` (`StartFails`).
  - Its clients are started inside the `try`, so a failing start goes to the `finally` (`StartFails`).
  - Its teardown is different: `SpacewayClient.stop` per client (`StopTerminate`, `StopWaitReturns`, `StopKill` after the 5 s timeout). It therefore has its own `E2EENext` and `E2EESpec`.
  - Its `main()` result is discarded, so the exit status is always 0.
- **`Permissions`** is `tests/scripts/test-permissions.py`, built on `E2EE`'s per-client stop loop.
  - Its `run_command` catches `BrokenPipeError` (`PipeCaught`).
  - A `None` user id aborts setup through the `TypeError` of `bob_id[:16]`.
  - Tests 1, 3, 4 and 7 are scored. Tests 2, 5 and 6 only print.
  - Every test must pass.
- **`SpaceModes`** is `tests/scripts/test-space-modes.py`. It is a standalone module, since it has one client and no MLS messaging.
  - The log is a set of lines (kind, space name), because check 2 and check 6 look at the names.
  - `CreatedMode` is the engine's choice of mode for a request.
  - It models the build step, the three creates with their setup aborts, the six checks with the `>= 5` threshold, and the `finally` block.
  - Its `run_command` has no `try`, so a write to an exited engine raises into the `finally`.
- **`ChannelKick`** is `tests/scripts/test-channel-kick.py`. It is a standalone module with its own engine, because only this script uses channel scopes.
  - Following `spec.md` section 8 and the glossary, a channel is a sub-scope of the space with its own membership. Its messages are encrypted for the channel's epoch, and `kick` with a channel selected rotates only that channel's epoch.
  - A member gets a channel's state by decrypting the channel's announcement in the space scope.
  - Alice's "Created thread" lines are an ordered sequence, and `find_in_log` returns the first of them. That is how `thread2_id` comes out as thread 1's id.
  - `spec.md` does not say what the engine does with `thread <id>` for a thread of another channel than the selected one. The variable `cross` chooses once per behaviour between two outcomes:
    - "switch": the thread and its channel are selected;
    - "stay": the command is refused.
  - The behaviour starts in `main`'s `try`, and its `finally` block is the shared one already checked in `ScenarioDriver`.
- **`Teardown`** is the abstract TeardownManager of `spec.md` section 4.6:
  - processes are started, and exit on their own while the scenario runs;
  - a scenario that ends before starting any process (a failed build) has nothing to tear down (`Abandon`);
  - teardown begins once;
  - when teardown is done, no started process is alive.
  
  `ScenarioDriver` and `SpaceModes` map their state onto it (`TD == INSTANCE Teardown WITH ...`). `TeardownRefined` checks that the `finally` block and the `stop()` loop implement it.
- **MC modules.** **`MC_Two`** (Alice, Bob), **`MC_Three`** (Alice, Bob, Charlie), **`MC_Four`** (with Dave), **`MC_Channel`** and **`MC_Modes`** (the engine mode functions) give the model values. The cfgs pick the scenario with `Script <- ...`, `Tests <- ...` and `Verdict <- ...`.

The operators named `...Skipped`, `...NoTimeout`, `...Score`, `...ReturnsNone`, `...Loose`, `...NoMode`, `...AllDecrypt`, `PipeUncaught`, `KillTimedOut`, `RotateNoCommit` and the other fault variants defined just before a definition model plausible slips in that code. The properties below must catch each of them.

## Runs

The project keeps one run per question.

| run | module | expect | what it shows |
|---|---|---|---|
| kick_three | MC_Three | pass | 3-member kick: teardown, termination, calibration, refinement, exit status of every way out, None ids (120,922 states) |
| kick_crash | MC_Three | violation | BrokenPipe skips the result section |
| kick_spawn | MC_Three | violation | a raising Popen leaves earlier engines running |
| three_members | MC_Three | pass | Commit race; the threshold never hides a missed member or a None id (57,652 states) |
| e2ee | MC_Two | pass | per-client stop() reaps, terminates and refines Teardown, with start failures (14,521 states) |
| e2ee_exit | MC_Two | violation | exit status 0 although the checks failed |
| kick_four_late | MC_Four | violation | one early step; 8/10 exits 0 with no stayer holding the post-kick message |
| permissions | MC_Three | pass | calibrated 4/4; a client lost after setup never stops scoring (67,628 states) |
| perm_open | MC_Three | violation | a Member that creates a channel is reported blocked |
| space_modes | MC_Modes | pass | calibrated 6/6; finally refines Teardown (303 states) |
| modes_ignored | MC_Modes | violation | an engine ignoring `--mode` still exits 0 |
| channel_stale | MC_Channel | violation | the stale `thread2_id` means the private-channel removal is never tested, yet the script exits 0 |

Passing properties:

- `ProcessesReaped`: when the script exits, every process has exited or been killed. This holds on every path: normal return, setup abort, `BrokenPipeError`, a failing start in test-e2ee.py, and processes that ignore SIGTERM.
- `CalibratedVerdict`: suppose every engine was spawned, every wait was long enough and nothing crashed. Then the script reaches the result section, every check passes, and it returns 0. This covers the Welcome and Commit ordering hazards, because the scripts' waits must put each operation after the epoch change it needs.
- `ExitZeroScored`: exit status 0 is only ever the verdict of the result section. A failed build, a missing space id and a `BrokenPipeError` all exit non-zero in `kick_three`; a raising `Popen` also exits 1, but `PopenMayFail` is FALSE there, since that path is the `kick_spawn` finding. The mutant is the bare `return` after "Build failed!" that test-e2ee.py has.
- `NoneNeverPasses`: in test-three-members-kick.py only the space id aborts setup, so an invite, peer id or user id read before the engine printed it is written into later commands as `None`. Such a run never exits 0: it scores at most 4 of 8, below the `>= 6` threshold. The mutant is the `>= 4` bound of test-kick-member.py:272; with `>= 5` the property still holds. The same holds for test-three-members.py (`three_members`), whose 3-of-5 threshold a None run does not reach; with `>= 2` it does.
- `ScriptTerminates`: the script always finishes. Without the wait timeout this fails.
- `TeardownRefined`: the script's process lifecycle implements the abstract `Teardown` spec, liveness included.
- `GroupDeliveryVerified`: if `test-three-members.py` exits 0, every joiner decrypted Alice's message, whatever the timing.
- `ScoredAfterSetup`: once test-permissions.py has finished setup, it scores its results, whatever happens to a client later.
- `ModesCalibrated`: an undisturbed run (the engine built and started) of test-space-modes.py against an honest engine reads the results, passes all six checks and exits 0.
- `TypeOK`.

Findings (violation runs):

- **`kick_crash`.** A client exits after setup, and the next `run_command` raises `BrokenPipeError`. Nothing in `main` catches it, so no check is scored. `spec.md` section 7 calls this non-fatal. test-permissions.py catches it, and `ScoredAfterSetup` holds there.
- **`kick_spawn`.** The `Popen` calls stand before the `try` (test-three-members-kick.py:93). When a later one raises, the engines already started are never terminated. The same pattern is in every root script but test-e2ee.py, and in the `tests/scripts` ones.
- **`e2ee_exit`.** test-e2ee.py:187 calls `main()` without `sys.exit`, so the process exits 0 when its success condition (line 177) is false. In TLC's trace one extraction runs before the engine settled, nothing is decrypted, every check fails, and the exit status is still 0.
- **`kick_four_late`.** After one early step, both remaining members can lack the post-kick message. Checks 8 and 9 fail, but check 10 (Charlie and Dave `>= 5`, line 346) passes on the five operations each decrypted before the kick, so it cannot detect the missing message. Every violating state scores at least 8 of 10, above the `>= 7` threshold (line 360).
- **`perm_open`.** Test 3 (test-permissions.py:274) counts the absence of a "Created channel" line as blocked. A Member's channel creation that lands after the scan is reported as denied, and the script exits 0.
- **`channel_stale`.** `thread2_id` (test-channel-kick.py:211) uses the same pattern as `thread1_id` over Alice's whole log, so it gets thread 1's id. The run uses an honest engine, no crash and every wait long enough. The two engine behaviours go as follows:
  - "switch": every "Channel 2" message is posted in general and Charlie reads them. The script scores 7/10.
  - "stay": nothing is posted in private. The script scores 8/10.
  
  Both exit 0 (threshold `>= 7`, line 444), and neither run shows a message sent into the private channel after the removal. With the id taken from the last match instead, the script scores 10/10 and the property holds.
- **`modes_ignored`.** Setup aborts on any missing id, so checks 1, 3 and 5 always pass when scored. Check 2 follows from the name MLSTestSpace (line 175), and check 6 from any created line. Only check 4 can fail, and the `>= 5` threshold (line 207) absorbs it. The script therefore exits 0 for an engine that ignores `--mode`.

## Bounds

| Bound | Value | Why it is enough |
|---|---|---|
| Clients | 1 to 4 | As in each script. |
| MaxCrashes | 1 | One crash reaches every crash path: before a write (BrokenPipe), after the last write, during teardown, and with deliveries left undeliverable. |
| MaxLate | 2 | Reaches reading a log before the fact arrives, a failed extraction, the `if channel_id` skip, and with 2 an operation overtaking an epoch change. In space_modes, 2 already reaches every state: a later early read only aborts setup, and `MaxLate = 4` gives the same 301 states. |
| PopenMayFail | TRUE in e2ee, permissions, kick_spawn | Reaches a start failure after each prefix of the `Popen` order. |

`kick_three` has 24,858 states with `MaxLate = 1` and 120,922 with 2 (about a minute, liveness included). The violation runs use `MaxLate = 0` where the fault does not need timing, so each trace fails for a reason other than timing. The exceptions are `e2ee_exit` and `kick_four_late` (1) and `perm_open` (2, for both of Charlie's scans). `channel_stale` uses 0 for both bounds: its fault is in the script, not in timing.

## Fairness

- `WF` on the script's steps: it is one thread that always proceeds after its sleep.
- `WF` on engine command processing: a running engine reads its stdin.
- `WF` on delivery: the network delivers to live processes.
- No fairness on `Crash`: nothing forces a crash.
- No fairness on `ExitOnSignal`: a process may ignore SIGTERM, and only the wait timeout and `kill` end it.

## Not modelled

- **Console output and colours.** These are presentation; the logs the scripts read are written by the engine.
- **Which binary is built.** An existing `./target/debug/spaceway` is used without rebuilding, so a run may test a stale engine. The model has one engine; `BuildSucceeds` stands for both branches.
- **Consecutive runs.** Each behaviour is one interpreter run. Engines leaked by an earlier run (`kick_spawn`) would still hold ports 9001 to 9004 when the next run deletes `*-data/` and spawns new ones; the two runs are not composed.
- **Log contents.** A log is the set of facts and decrypted messages it contains, not text. The result section reads all logs in one step.
- **Fault constants no run sets.** `LeakyKick`, an engine whose kick keeps the member, is FALSE in every cfg. The threshold question it was used for is now asked with an honest engine (`kick_four_late`, `channel_stale`).
- **`tests/scripts/test-automation.py`.** Its `SpacewayClient` and `TestRunner` classes are never driven: `__main__` only prints a line. test-e2ee.py's copy of `SpacewayClient` is the one `E2EE` models.
- **Runs for KickTwo and Bidirectional.** Their modules are kept and composed in `MC_Two`. Their questions (calibration, the threshold hiding a failed revocation check) are asked of kick_three, kick_four_late, channel_stale and e2ee, which scores with `BidirectionalTests`.
