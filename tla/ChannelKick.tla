---------------------------- MODULE ChannelKick ----------------------------
(***************************************************************************)
(* src/tests/scripts/test-channel-kick.py: Alice, Bob and Charlie share a *)
(* space with two channels, general and private, each with a thread; all  *)
(* post in both, Alice kicks Charlie from private, then Alice and Bob post *)
(* in both again and the script scores ten checks with a >= 7 threshold.  *)
(*                                                                         *)
(* The engine side is modelled from spec.md section 8 and the glossary: a *)
(* channel is a sub-scope of the space with its own membership, so its    *)
(* messages are encrypted for the channel's epoch, and a kick issued with *)
(* a channel selected removes the member from that channel only.  Which   *)
(* thread the engine selects for "thread <id>" when the id belongs to     *)
(* another channel than the selected one is not specified: cross is      *)
(* chosen once per behaviour, "switch" (the thread and its channel are    *)
(* selected) or "stay" (the command is refused and the channel stays      *)
(* selected with no thread).                                               *)
(*                                                                         *)
(* The behaviour starts in main's try, with the three Popens done; the    *)
(* finally block is the one of test-three-members-kick.py, checked in     *)
(* ScenarioDriver, and is left out: here the script's return ends it.     *)
(***************************************************************************)
EXTENDS Integers, Sequences, FiniteSets

CONSTANTS
  Alice, Bob, Charlie,  \* the three engine processes (model values)
  MaxCrashes,           \* bound on unexpected process exits
  MaxLate               \* bound on steps taken before the engine settled

Clients == {Alice, Bob, Charlie}
Chans == {"general", "private"}
\* Thread ids, named by the title that creates them: t1 "General
\* Discussion", t2 "Private Discussion".
Threads == {"t1", "t2"}
Scopes == {"space"} \cup Chans
Sels == {"none", "space"} \cup Chans \cup Threads

\* The text of each message the script sends, e.g. c2after is
\* "Channel 2: After kick - Charlie should NOT see this".
Texts == {"c1init", "c1bob", "c1charlie", "c2init", "c2bob", "c2charlie",
          "c2after", "c2bobafter", "c1after", "c1bobafter"}

\* The values a script variable can hold: an id or None.
None == "None"
Vals == Clients \cup Chans \cup Threads \cup {"ok", None}
Vars == {"space_id", "full_space_id", "invite", "peer_id", "bob_id",
         "charlie_id", "channel1_id", "channel2_id", "thread1_id",
         "thread2_id"}

\* Facts printed to a log; a channel name stands for its listing row.
Facts == {"space_created", "space_full", "invite", "peer_id", "user_id",
          "removed"} \cup Chans

\* An encrypted operation: its text (a message, a created channel or
\* thread, a Welcome or a Commit), the scope it belongs to, its sender.
M(t, s, c) == [t |-> t, s |-> s, by |-> c]
Ops == {M(t, s, c) : t \in Texts \cup Chans \cup Threads \cup {"welcome", "commit"},
                     s \in Scopes, c \in Clients}
Cmds == [op : {"publish", "spacecreate", "context", "invitecreate",
               "network", "connect", "join", "whoami", "memberadd",
               "channelcreate", "channels", "selectspace", "selectchannel",
               "threadcreate", "selectthread", "send", "kick"},
         arg : Vals \cup Texts, ok : BOOLEAN]

VARIABLES
  proc, stdin,   \* each process's lifecycle and unread commands
  facts,         \* facts printed to each log
  thLog,         \* Alice's "Created thread: ... (<id>)" lines, in order
  kp, peers, joined, \* key packages, connections, space joins
  mem,           \* mem[s]: members of scope s as the owner's group has it
  ep,            \* ep[c][s]: epoch of scope s whose state c holds (0: none)
  sel,           \* each client's selection
  known,         \* channels and threads each client has seen created
  thChan,        \* the channel each created thread belongs to
  dec,           \* operations each client decrypted
  net,           \* operations in flight: [op, epoch, receiver]
  crashes,
  cross,         \* the engine's reaction to a thread of another channel
  pc, vals, phase, exitCode, late

engineVars == <<proc, stdin, facts, thLog, kp, peers, joined, mem, ep, sel,
                known, thChan, dec, net, crashes, cross>>
scriptVars == <<pc, vals, phase, exitCode, late>>
vars == <<engineVars, scriptVars>>

-----------------------------------------------------------------------------
(* The engine, per command.                                                *)

Cur(c) == Head(stdin[c])
Reads(c, o) ==
  /\ proc[c] = "Running" /\ stdin[c] # <<>> /\ Cur(c).op = o
  /\ stdin' = [stdin EXCEPT ![c] = Tail(@)]
Arg(c) == Cur(c).arg

\* The channel of a selection: the channel itself or the thread's channel.
ChanOf(c) == IF sel[c] \in Threads THEN thChan[sel[c]] ELSE sel[c]
InChannel(c) == sel[c] \in Chans \cup Threads

\* Encrypted for the sender's epoch of the scope, gossiped to every other
\* member of the space; a sender without that scope's state cannot.
Broadcast(c, m) ==
  net' = IF ep[c][m.s] > 0
           THEN net \cup {[op |-> m, e |-> ep[c][m.s], to |-> r] : r \in joined \ {c}}
           ELSE net

\* A membership change of scope s: the committer moves to the next epoch,
\* a Commit goes to the members that stay, a Welcome to those added.
Rotate(c, s, stay, added) ==
  /\ ep' = [ep EXCEPT ![c][s] = @ + 1]
  /\ net' = net \cup {[op |-> M("commit", s, c), e |-> ep[c][s] + 1, to |-> r] : r \in stay \ {c}}
                \cup {[op |-> M("welcome", s, c), e |-> ep[c][s] + 1, to |-> r] : r \in added}

LogLine(c, f, cond) ==
  facts' = IF cond THEN [facts EXCEPT ![c] = @ \cup {f}] ELSE facts

Publish(c) ==
  /\ Reads(c, "publish") /\ kp' = kp \cup {c}
  /\ UNCHANGED <<proc, facts, thLog, peers, joined, mem, ep, sel, known, thChan, dec, net, crashes, cross>>

SpaceCreate(c) ==
  /\ Reads(c, "spacecreate")
  /\ joined' = joined \cup {c} /\ mem' = [mem EXCEPT !["space"] = {c}]
  /\ ep' = [ep EXCEPT ![c]["space"] = 1] /\ sel' = [sel EXCEPT ![c] = "space"]
  /\ LogLine(c, "space_created", TRUE)
  /\ UNCHANGED <<proc, thLog, kp, peers, known, thChan, dec, net, crashes, cross>>

\* context, invite create, network, whoami: print one fact.
Show(c, o, f, cond) ==
  /\ Reads(c, o) /\ LogLine(c, f, cond)
  /\ UNCHANGED <<proc, thLog, kp, peers, joined, mem, ep, sel, known, thChan, dec, net, crashes, cross>>

Context(c) == Show(c, "context", "space_full", sel[c] # "none")
InviteCreate(c) == Show(c, "invitecreate", "invite", c \in joined /\ sel[c] # "none")
Network(c) == Show(c, "network", "peer_id", TRUE)
Whoami(c) == Show(c, "whoami", "user_id", TRUE)

Connect(c) ==
  /\ Reads(c, "connect") /\ peers' = IF Cur(c).ok THEN peers \cup {c} ELSE peers
  /\ UNCHANGED <<proc, facts, thLog, kp, joined, mem, ep, sel, known, thChan, dec, net, crashes, cross>>

Join(c) ==
  /\ Reads(c, "join")
  /\ joined' = IF Cur(c).ok /\ c \in peers /\ mem["space"] # {} THEN joined \cup {c} ELSE joined
  /\ UNCHANGED <<proc, facts, thLog, kp, peers, mem, ep, sel, known, thChan, dec, net, crashes, cross>>

MemberAdd(c) ==
  /\ Reads(c, "memberadd")
  /\ IF Arg(c) \in kp \ mem["space"] /\ ep[c]["space"] > 0
       THEN /\ mem' = [mem EXCEPT !["space"] = @ \cup {Arg(c)}]
            /\ Rotate(c, "space", mem["space"], {Arg(c)})
       ELSE UNCHANGED <<mem, ep, net>>
  /\ UNCHANGED <<proc, facts, thLog, kp, peers, joined, sel, known, thChan, dec, crashes, cross>>

\* channel create <name>: a channel scope whose members are the space's,
\* announced in the space scope; the creator selects it.
ChannelCreate(c) ==
  /\ Reads(c, "channelcreate")
  /\ IF sel[c] # "none"
       THEN /\ mem' = [mem EXCEPT ![Arg(c)] = mem["space"]]
            /\ ep' = [ep EXCEPT ![c][Arg(c)] = 1]
            /\ known' = [known EXCEPT ![c] = @ \cup {Arg(c)}]
            /\ sel' = [sel EXCEPT ![c] = Arg(c)]
            /\ Broadcast(c, M(Arg(c), "space", c))
       ELSE UNCHANGED <<mem, ep, known, sel, net>>
  /\ UNCHANGED <<proc, facts, thLog, kp, peers, joined, thChan, dec, crashes, cross>>

\* channels: one "<id> - <name>" row per channel the client knows.
Channels(c) ==
  /\ Reads(c, "channels")
  /\ facts' = IF sel[c] # "none" THEN [facts EXCEPT ![c] = @ \cup (known[c] \cap Chans)] ELSE facts
  /\ UNCHANGED <<proc, thLog, kp, peers, joined, mem, ep, sel, known, thChan, dec, net, crashes, cross>>

\* space / channel <id>: select a known object; "None" selects nothing.
Select(c, o, cond) ==
  /\ Reads(c, o)
  /\ sel' = IF cond THEN [sel EXCEPT ![c] = Arg(c)] ELSE sel
  /\ UNCHANGED <<proc, facts, thLog, kp, peers, joined, mem, ep, known, thChan, dec, net, crashes, cross>>

SelectSpace(c) == Select(c, "selectspace", Arg(c) = "ok" /\ c \in joined)
SelectChannel(c) == Select(c, "selectchannel", sel[c] # "none" /\ Arg(c) \in known[c] \cap Chans)

\* thread <id>: a thread of the selected channel is selected; one of
\* another channel is selected with its channel, or refused (cross).
SelectThread(c) ==
  Select(c, "selectthread",
         /\ InChannel(c) /\ Arg(c) \in known[c] \cap Threads
         /\ (thChan[Arg(c)] = ChanOf(c) \/ cross = "switch"))

\* thread create <title>: a new thread of the selected channel, printed
\* with its id, announced in the channel's scope and selected.
ThreadCreate(c) ==
  /\ Reads(c, "threadcreate")
  /\ IF InChannel(c)
       THEN /\ thChan' = [thChan EXCEPT ![Arg(c)] = ChanOf(c)]
            /\ thLog' = IF c = Alice THEN Append(thLog, Arg(c)) ELSE thLog
            /\ known' = [known EXCEPT ![c] = @ \cup {Arg(c)}]
            /\ sel' = [sel EXCEPT ![c] = Arg(c)]
            /\ Broadcast(c, M(Arg(c), ChanOf(c), c))
       ELSE UNCHANGED <<thChan, thLog, known, sel, net>>
  /\ UNCHANGED <<proc, facts, kp, peers, joined, mem, ep, dec, crashes, cross>>

\* send <text>: posted in the selected thread, in its channel's scope.
Send(c) ==
  /\ Reads(c, "send")
  /\ IF sel[c] \in Threads THEN Broadcast(c, M(Arg(c), ChanOf(c), c)) ELSE UNCHANGED net
  /\ UNCHANGED <<proc, facts, thLog, kp, peers, joined, mem, ep, sel, known, thChan, dec, crashes, cross>>

\* kick <user>: removes the user from the selected channel's scope (from
\* the space when no channel is selected) and prints the confirmation.
Kick(c) ==
  /\ Reads(c, "kick")
  /\ LET s == IF InChannel(c) THEN ChanOf(c) ELSE "space" IN
     IF Arg(c) \in mem[s] \ {c} /\ ep[c][s] > 0
       THEN /\ mem' = [mem EXCEPT ![s] = @ \ {Arg(c)}]
            /\ Rotate(c, s, mem[s] \ {Arg(c)}, {})
            /\ LogLine(c, "removed", TRUE)
       ELSE UNCHANGED <<mem, ep, net, facts>>
  /\ UNCHANGED <<proc, thLog, kp, peers, joined, sel, known, thChan, dec, crashes, cross>>

\* A Welcome installs its epoch of the space, a Commit advances a member
\* one epoch behind; any other operation is decrypted only in its epoch,
\* and a decrypted channel announcement hands over the channel's state.
Deliver(d) ==
  /\ d \in net /\ proc[d.to] = "Running"
  /\ net' = net \ {d}
  /\ LET r == d.to
         s == d.op.s
         t == d.op.t IN
     CASE t = "welcome" -> ep' = [ep EXCEPT ![r][s] = d.e] /\ UNCHANGED <<dec, known>>
       [] t = "commit" -> ep' = [ep EXCEPT ![r][s] = IF @ = d.e - 1 THEN d.e ELSE @]
                          /\ UNCHANGED <<dec, known>>
       [] ep[r][s] = d.e ->
            /\ dec' = [dec EXCEPT ![r] = @ \cup {d.op}]
            /\ known' = IF t \in Chans \cup Threads THEN [known EXCEPT ![r] = @ \cup {t}] ELSE known
            /\ ep' = IF t \in Chans THEN [ep EXCEPT ![r][t] = 1] ELSE ep
       [] OTHER -> UNCHANGED <<dec, known, ep>>
  /\ UNCHANGED <<proc, stdin, facts, thLog, kp, peers, joined, mem, sel, thChan, crashes, cross>>

Crash(c) ==
  /\ proc[c] = "Running" /\ crashes < MaxCrashes
  /\ proc' = [proc EXCEPT ![c] = "Crashed"] /\ crashes' = crashes + 1
  /\ UNCHANGED <<stdin, facts, thLog, kp, peers, joined, mem, ep, sel, known, thChan, dec, net, cross>>

Process(c) ==
  \/ Publish(c) \/ SpaceCreate(c) \/ Context(c) \/ InviteCreate(c)
  \/ Network(c) \/ Connect(c) \/ Join(c) \/ Whoami(c) \/ MemberAdd(c)
  \/ ChannelCreate(c) \/ Channels(c) \/ SelectSpace(c) \/ SelectChannel(c)
  \/ SelectThread(c) \/ ThreadCreate(c) \/ Send(c) \/ Kick(c)

Quiescent ==
  \A c \in Clients : proc[c] = "Running" =>
    stdin[c] = <<>> /\ \A d \in net : d.to # c

-----------------------------------------------------------------------------
(* The script: run_command, find_in_log and the steps of main.             *)

\* run_command(client, cmd): cmd as written, its one argument a literal or
\* a variable substituted by the f-string (None becomes "None").
Run(c, op, a) == [i |-> "run", c |-> c, op |-> op, arg |-> a,
                  needs |-> IF a \in Vars THEN {a} ELSE {}]
RunN(c, op, needs) == [i |-> "run", c |-> c, op |-> op, arg |-> "ok", needs |-> needs]
R(c, op) == RunN(c, op, {})
\* v = find_in_log(c's log, pattern of f); if not v: return 1.
Find(v, c, f) == [i |-> "find", v |-> v, c |-> c, f |-> f]
Need(v) == [i |-> "need", v |-> v]

\* find_in_log: re.search over the whole log, the first match or None.
\* Both thread ids use the pattern 'Created thread: .+? \(<id>\)', so
\* both get the first thread Alice's log shows.
Extract(c, f) ==
  CASE f = "thread" -> IF thLog = <<>> THEN None ELSE Head(thLog)
    [] f \in Chans -> IF f \in facts[c] THEN f ELSE None
    [] f = "user_id" -> IF f \in facts[c] THEN c ELSE None
    [] OTHER -> IF f \in facts[c] THEN "ok" ELSE None

JoinSteps(j, v) ==
  << RunN(j, "connect", {"peer_id"}), RunN(j, "join", {"full_space_id", "invite"}),
     R(j, "whoami"), Find(v, j, "user_id") >>

\* for client in [...]: select the space (or not), a channel and a thread.
Goto(c, ch, th) == << Run(c, "selectchannel", ch), Run(c, "selectthread", th) >>

ChannelKickScript ==
  << R(Alice, "publish"), R(Bob, "publish"), R(Charlie, "publish"),
     R(Alice, "spacecreate"), Find("space_id", Alice, "space_created"), Need("space_id"),
     R(Alice, "context"), Find("full_space_id", Alice, "space_full"),
     R(Alice, "invitecreate"), Find("invite", Alice, "invite"),
     R(Alice, "network"), Find("peer_id", Alice, "peer_id") >>
  \o JoinSteps(Bob, "bob_id") \o JoinSteps(Charlie, "charlie_id")
  \o << Run(Alice, "memberadd", "bob_id"), Run(Alice, "memberadd", "charlie_id"),
        Run(Alice, "channelcreate", "general"), Run(Alice, "channelcreate", "private"),
        R(Alice, "channels"), Find("channel1_id", Alice, "general"),
        Find("channel2_id", Alice, "private"), Need("channel1_id"), Need("channel2_id"),
        Run(Bob, "selectspace", "space_id"), R(Bob, "channels"),
        Run(Charlie, "selectspace", "space_id"), R(Charlie, "channels"),
        Run(Alice, "selectchannel", "channel1_id"), Run(Alice, "threadcreate", "t1"),
        Find("thread1_id", Alice, "thread"),
        Run(Alice, "selectchannel", "channel2_id"), Run(Alice, "threadcreate", "t2"),
        Find("thread2_id", Alice, "thread"),
        Run(Alice, "selectspace", "space_id") >> \o Goto(Alice, "channel1_id", "thread1_id")
  \o << Run(Bob, "selectspace", "space_id") >> \o Goto(Bob, "channel1_id", "thread1_id")
  \o << Run(Charlie, "selectspace", "space_id") >> \o Goto(Charlie, "channel1_id", "thread1_id")
  \o << Run(Alice, "send", "c1init"), Run(Bob, "send", "c1bob"),
        Run(Charlie, "send", "c1charlie") >>
  \o Goto(Alice, "channel2_id", "thread2_id") \o Goto(Bob, "channel2_id", "thread2_id")
  \o Goto(Charlie, "channel2_id", "thread2_id")
  \o << Run(Alice, "send", "c2init"), Run(Bob, "send", "c2bob"),
        Run(Charlie, "send", "c2charlie"),
        Run(Alice, "selectchannel", "channel2_id"), Run(Alice, "kick", "charlie_id"),
        Run(Alice, "selectthread", "thread2_id"), Run(Alice, "send", "c2after") >>
  \o Goto(Bob, "channel2_id", "thread2_id") \o << Run(Bob, "send", "c2bobafter") >>
  \o Goto(Alice, "channel1_id", "thread1_id") \o << Run(Alice, "send", "c1after") >>
  \o Goto(Bob, "channel1_id", "thread1_id") \o << Run(Bob, "send", "c1bobafter") >>
  \o Goto(Charlie, "channel2_id", "thread2_id") \o Goto(Charlie, "channel1_id", "thread1_id")

Has(c, t) == \E m \in dec[c] : m.t = t

\* The ten checks: texts in the logs, the kick confirmation and Charlie's
\* count of "Decrypted MLS message" lines.
ChannelKickTests ==
  << Has(Charlie, "c1init") /\ Has(Charlie, "c1bob"),
     Has(Charlie, "c2init") /\ Has(Charlie, "c2bob"),
     ~Has(Charlie, "c2after"),
     ~Has(Charlie, "c2bobafter"),
     Has(Charlie, "c1after"),
     Has(Charlie, "c1bobafter"),
     Has(Bob, "c2after"),
     Has(Bob, "c1after"),
     "removed" \in facts[Alice],
     Cardinality(dec[Charlie]) \in 6..10 >>

Passed == Cardinality({k \in 1..10 : ChannelKickTests[k]})

\* == tests_total: 0; >= 7: 0 (partial success); else 1.
ChannelKickVerdict == IF Passed >= 7 THEN 0 ELSE 1

-----------------------------------------------------------------------------

Init ==
  /\ proc = [c \in Clients |-> "Running"] /\ stdin = [c \in Clients |-> <<>>]
  /\ facts = [c \in Clients |-> {}] /\ thLog = <<>>
  /\ kp = {} /\ peers = {} /\ joined = {}
  /\ mem = [s \in Scopes |-> {}] /\ ep = [c \in Clients |-> [s \in Scopes |-> 0]]
  /\ sel = [c \in Clients |-> "none"] /\ known = [c \in Clients |-> {}]
  /\ thChan = [t \in Threads |-> "none"] /\ dec = [c \in Clients |-> {}]
  /\ net = {} /\ crashes = 0 /\ cross \in {"switch", "stay"}
  /\ pc = 1 /\ vals = [v \in Vars |-> None] /\ phase = "script"
  /\ exitCode = -1 /\ late = 0

Ins == ChannelKickScript[pc]
InScript == phase = "script" /\ pc <= Len(ChannelKickScript)
Settled == Quiescent \/ late < MaxLate
Tick == late' = IF Quiescent THEN late ELSE late + 1

RunCommand ==
  /\ InScript /\ Ins.i = "run" /\ Settled /\ Tick
  /\ proc[Ins.c] = "Running"
  /\ stdin' = [stdin EXCEPT ![Ins.c] = Append(@,
                 [op |-> Ins.op, arg |-> IF Ins.arg \in Vars THEN vals[Ins.arg] ELSE Ins.arg,
                  ok |-> \A v \in Ins.needs : vals[v] # None])]
  /\ pc' = pc + 1
  /\ UNCHANGED <<proc, facts, thLog, kp, peers, joined, mem, ep, sel, known,
                 thChan, dec, net, crashes, cross, vals, phase, exitCode>>

\* A write to an exited process raises BrokenPipeError out of main.
BrokenPipe ==
  /\ InScript /\ Ins.i = "run" /\ Settled /\ Tick
  /\ proc[Ins.c] # "Running"
  /\ phase' = "exited" /\ exitCode' = 1
  /\ UNCHANGED <<engineVars, pc, vals>>

FindInLog ==
  /\ InScript /\ Ins.i = "find" /\ Settled /\ Tick
  /\ vals' = [vals EXCEPT ![Ins.v] = Extract(Ins.c, Ins.f)]
  /\ pc' = pc + 1
  /\ UNCHANGED <<engineVars, phase, exitCode>>

NeedMet ==
  /\ InScript /\ Ins.i = "need" /\ vals[Ins.v] # None
  /\ pc' = pc + 1
  /\ UNCHANGED <<engineVars, vals, phase, exitCode, late>>

SetupFailed ==
  /\ InScript /\ Ins.i = "need" /\ vals[Ins.v] = None
  /\ phase' = "exited" /\ exitCode' = 1
  /\ UNCHANGED <<engineVars, pc, vals, late>>

\* The result section: read the three logs, score, return.
ReadResults ==
  /\ phase = "script" /\ pc = Len(ChannelKickScript) + 1 /\ Settled /\ Tick
  /\ phase' = "exited" /\ exitCode' = ChannelKickVerdict
  /\ UNCHANGED <<engineVars, pc, vals>>

Driver ==
  RunCommand \/ BrokenPipe \/ FindInLog \/ NeedMet \/ SetupFailed \/ ReadResults

Engine ==
  /\ phase = "script"
  /\ \/ \E c \in Clients : Process(c) \/ Crash(c)
     \/ \E d \in net : Deliver(d)
  /\ UNCHANGED scriptVars

Next == Driver \/ Engine \/ (phase = "exited" /\ UNCHANGED vars)

Spec == Init /\ [][Next]_vars /\ WF_vars(Driver) /\ WF_vars(Engine)

-----------------------------------------------------------------------------

\* Exit code 0 means the script saw the channel-scoped removal work: a
\* message was sent into the private channel after Charlie was removed
\* from it, Bob decrypted it and Charlie did not (spec.md section 8,
\* revocation boundary, for a channel scope).
ChannelRevocationVerified ==
  (phase = "exited" /\ exitCode = 0) =>
    \E m \in dec[Bob] : /\ m.s = "private"
                        /\ m.t \in {"c2after", "c2bobafter"}
                        /\ m \notin dec[Charlie]

=============================================================================
