--------------------------- MODULE SpacewayEngine ---------------------------
(***************************************************************************)
(* The messaging engine (target/*/spaceway) as the scenario scripts see it: *)
(* one process per client that reads line commands from its stdin, prints *)
(* facts to its log, and exchanges MLS-encrypted operations with the other *)
(* processes over an asynchronous network.  The engine is not under src/:  *)
(* everything here is modelled from spec.md (sections 3, 6 and 8 and the   *)
(* glossary), abstracted to what the scripts' extractions and assertions   *)
(* tell apart.  A log is the set of facts printed to it and the set of     *)
(* messages whose "Decrypted MLS message" line and text it holds; message  *)
(* text and identifiers are not spelled out.                               *)
(***************************************************************************)
EXTENDS Naturals, Sequences, FiniteSets

CONSTANTS
  Clients,     \* the engine processes a scenario spawns (model values)
  Owner,       \* the client that creates the space and kicks
  LeakyKick,   \* TRUE: a kick is confirmed but the member keeps the key
  OpenChannels, \* TRUE: a Member may create channels (no permission check)
  MaxCrashes   \* bound on unexpected process exits in one behaviour

ASSUME /\ Owner \in Clients
       /\ LeakyKick \in BOOLEAN /\ OpenChannels \in BOOLEAN
       /\ MaxCrashes \in Nat

\* Encrypted operations carry a kind and their sender; a Welcome is the
\* MLS message that hands a new member the group state.
\* A Commit moves the other members to the next epoch.  Application
\* operations are the kinds the scripts send; "final" is a second message
\* of the owner after a reply.
AppKinds == {"channel", "thread", "hello", "reply", "afterkick", "final"}
Kinds == AppKinds \cup {"welcome", "commit"}
Msg(k, c) == [k |-> k, by |-> c]
Msgs == {Msg(k, c) : k \in Kinds, c \in Clients}
Welcome == Msg("welcome", Owner)
Commit == Msg("commit", Owner)

\* The log facts the scripts extract (spec.md section 6 pattern table).
Facts == {"space_created", "space_full", "invite", "peer_id", "user_id",
          "removed", "channel_row", "thread_row", "channel_created",
          "denied"}

Ops == {"publish", "spacecreate", "context", "invitecreate", "network",
        "connect", "join", "whoami", "memberadd", "channelcreate",
        "threadcreate", "send", "selectspace", "channels", "selectchannel",
        "threads", "selectthread", "kick", "spacelist"}

\* A command line: its verb, whether every argument the script substituted
\* was an extracted value (FALSE when the script wrote "None"), the target
\* user of member add / kick and the message a create or send publishes.
Cmds == [op : Ops, ok : BOOLEAN, to : SUBSET Clients, m : SUBSET Msgs]

\* "Unstarted": subprocess.Popen has not (successfully) created it yet.
ProcStates == {"Unstarted", "Running", "Stopping", "Stopped", "Crashed",
               "Killed"}
\* No live process: never started, exited, or killed.
Dead == {"Unstarted", "Stopped", "Crashed", "Killed"}
Views == {"none", "space", "channel", "thread"}

VARIABLES
  proc,       \* lifecycle of each engine process
  stdin,      \* commands written to a process and not yet read by it
  logged,     \* facts printed to each client's log
  decrypted,  \* messages each client decrypted (marker and text logged)
  kp,         \* clients whose key package is published
  space,      \* the owner's space exists
  peers,      \* clients connected to the owner
  joined,     \* clients that joined the space
  group,      \* members of the MLS group in the owner's current epoch
  epoch,      \* epoch of the group state each client holds (0: none)
  view,       \* each client's current selection (space, channel, thread)
  net,        \* encrypted operations and Welcomes in flight
  crashes     \* number of unexpected exits so far

engineVars == <<proc, stdin, logged, decrypted, kp, space, peers, joined,
                group, epoch, view, net, crashes>>

\* In flight: an operation, Welcome or Commit for an epoch and a receiver.
Deliveries == [m : Msgs, e : Nat, to : Clients]

EngineTypeOK ==
  /\ proc \in [Clients -> ProcStates]
  /\ stdin \in [Clients -> Seq(Cmds)]
  /\ logged \in [Clients -> SUBSET Facts]
  /\ decrypted \in [Clients -> SUBSET Msgs]
  /\ kp \subseteq Clients /\ peers \subseteq Clients
  /\ joined \subseteq Clients /\ group \subseteq Clients
  /\ epoch \in [Clients -> Nat]
  /\ space \in BOOLEAN
  /\ view \in [Clients -> Views]
  /\ net \subseteq Deliveries
  /\ crashes \in 0..MaxCrashes

\* Before the scripts spawn anything: no process, nothing published yet.
EngineInit ==
  /\ proc = [c \in Clients |-> "Unstarted"]
  /\ stdin = [c \in Clients |-> <<>>]
  /\ logged = [c \in Clients |-> {}]
  /\ decrypted = [c \in Clients |-> {}]
  /\ kp = {} /\ space = FALSE /\ peers = {} /\ joined = {}
  /\ group = {} /\ epoch = [c \in Clients |-> 0]
  /\ view = [c \in Clients |-> "none"]
  /\ net = {}
  /\ crashes = 0

Knows(c, k) == \E m \in decrypted[c] : m.k = k

-----------------------------------------------------------------------------
(* Command processing: a running process reads the head of its stdin.      *)

Cur(c) == Head(stdin[c])

Reads(c, o) ==
  /\ proc[c] = "Running"
  /\ stdin[c] # <<>>
  /\ Cur(c).op = o
  /\ stdin' = [stdin EXCEPT ![c] = Tail(@)]

LogFact(c, f) == logged' = [logged EXCEPT ![c] = @ \cup {f}]

SetView(c, v) == view' = [view EXCEPT ![c] = v]

HasGroup(c) == epoch[c] > 0

Send1(m, e, rs) == {[m |-> m, e |-> e, to |-> r] : r \in rs}

\* An operation is encrypted for the sender's epoch and gossiped to every
\* other client of the space; a sender without group state cannot encrypt.
Broadcast(c, m) ==
  net' = IF HasGroup(c) THEN net \cup Send1(m, epoch[c], joined \ {c})
                        ELSE net

Publish(c) ==
  /\ Reads(c, "publish")
  /\ kp' = kp \cup {c}
  /\ UNCHANGED <<proc, logged, decrypted, space, peers, joined, group,
                 epoch, view, net, crashes>>

SpaceCreate(c) ==
  /\ Reads(c, "spacecreate")
  /\ space' = TRUE
  /\ joined' = joined \cup {c}
  /\ group' = {c}
  /\ epoch' = [epoch EXCEPT ![c] = 1]
  /\ SetView(c, "space")
  /\ LogFact(c, "space_created")
  /\ UNCHANGED <<proc, decrypted, kp, peers, net, crashes>>

\* context, invite create, network and whoami only print a fact.
ShowFact(c, o, f, cond) ==
  /\ Reads(c, o)
  /\ IF cond THEN LogFact(c, f) ELSE UNCHANGED logged
  /\ UNCHANGED <<proc, decrypted, kp, space, peers, joined, group,
                 epoch, view, net, crashes>>

Context(c) == ShowFact(c, "context", "space_full", view[c] # "none")
InviteCreate(c) == ShowFact(c, "invitecreate", "invite",
                             c \in joined /\ view[c] # "none")
Network(c) == ShowFact(c, "network", "peer_id", TRUE)
Whoami(c) == ShowFact(c, "whoami", "user_id", TRUE)

Connect(c) ==
  /\ Reads(c, "connect")
  /\ peers' = IF Cur(c).ok THEN peers \cup {c} ELSE peers
  /\ UNCHANGED <<proc, logged, decrypted, kp, space, joined, group,
                 epoch, view, net, crashes>>

Join(c) ==
  /\ Reads(c, "join")
  /\ joined' = IF Cur(c).ok /\ c \in peers /\ space
                 THEN joined \cup {c} ELSE joined
  /\ UNCHANGED <<proc, logged, decrypted, kp, space, peers, group,
                 epoch, view, net, crashes>>

Target(c) == CHOOSE x \in Cur(c).to : TRUE

\* Fault variant: the Commit is never sent to the members that stay.
RotateNoCommit(c, stay, added) ==
  /\ epoch' = [epoch EXCEPT ![c] = @ + 1]
  /\ net' = net \cup Send1(Welcome, epoch[c] + 1, added)

\* A membership change moves the committer to the next epoch, sends a
\* Commit for it to the members that stay and a Welcome to those added.
Rotate(c, stay, added) ==
  /\ epoch' = [epoch EXCEPT ![c] = @ + 1]
  /\ net' = net \cup Send1(Commit, epoch[c] + 1, stay \ {c})
                 \cup Send1(Welcome, epoch[c] + 1, added)

\* member add: needs the target's key package; the Commit goes to the
\* current members and a Welcome for the new epoch to the target.
MemberAdd(c) ==
  /\ Reads(c, "memberadd")
  /\ IF Cur(c).ok /\ Target(c) \in kp /\ Target(c) \notin group /\ HasGroup(c)
       THEN /\ group' = group \cup {Target(c)}
            /\ Rotate(c, group, {Target(c)})
       ELSE UNCHANGED <<group, epoch, net>>
  /\ UNCHANGED <<proc, logged, decrypted, kp, space, peers, joined, view,
                 crashes>>

\* Create and send publish an encrypted operation from the right selection.
Publishes(c, o, from, to) ==
  /\ Reads(c, o)
  /\ IF view[c] \in from
       THEN /\ SetView(c, to)
            /\ Broadcast(c, CHOOSE m \in Cur(c).m : TRUE)
       ELSE UNCHANGED <<view, net>>
  /\ UNCHANGED <<proc, logged, decrypted, kp, space, peers, joined, group,
                 epoch, crashes>>

\* channel create: the creator of the space holds the Admin role; the
\* default Member role lacks CREATE_CHANNELS and gets a denial instead.
ChannelCreate(c) ==
  /\ Reads(c, "channelcreate")
  /\ CASE view[c] = "none" -> UNCHANGED <<view, net, logged>>
       [] c = Owner \/ OpenChannels ->
            /\ SetView(c, "channel")
            /\ Broadcast(c, CHOOSE m \in Cur(c).m : TRUE)
            /\ LogFact(c, "channel_created")
       [] OTHER -> LogFact(c, "denied") /\ UNCHANGED <<view, net>>
  /\ UNCHANGED <<proc, decrypted, kp, space, peers, joined, group, epoch,
                 crashes>>
ThreadCreate(c) == Publishes(c, "threadcreate", {"channel", "thread"}, "thread")
Send(c) == Publishes(c, "send", {"thread"}, "thread")

\* Navigation: select needs a valid id and a known object; a listing
\* prints a row only for an object whose creation the client decrypted.
Navigate(c, o, cond, v) ==
  /\ Reads(c, o)
  /\ IF Cur(c).ok /\ cond THEN SetView(c, v) ELSE UNCHANGED view
  /\ UNCHANGED <<proc, logged, decrypted, kp, space, peers, joined, group,
                 epoch, net, crashes>>

SelectSpace(c) == Navigate(c, "selectspace", c \in joined, "space")
SelectChannel(c) == Navigate(c, "selectchannel",
                             view[c] # "none" /\ Knows(c, "channel"), "channel")
SelectThread(c) == Navigate(c, "selectthread",
                            view[c] \in {"channel", "thread"}
                              /\ Knows(c, "thread"), "thread")
Channels(c) == ShowFact(c, "channels", "channel_row",
                         view[c] # "none" /\ Knows(c, "channel"))
Threads(c) == ShowFact(c, "threads", "thread_row",
                        view[c] \in {"channel", "thread"} /\ Knows(c, "thread"))

\* kick: rotates the epoch without the target and prints the confirmation;
\* a leaky engine prints the confirmation and keeps the target in the epoch.
Kick(c) ==
  /\ Reads(c, "kick")
  /\ IF Cur(c).ok /\ Target(c) \in group /\ Target(c) # c /\ HasGroup(c)
       THEN LET stay == IF LeakyKick THEN group ELSE group \ {Target(c)}
            IN /\ group' = stay
               /\ Rotate(c, stay, {})
               /\ LogFact(c, "removed")
       ELSE UNCHANGED <<group, epoch, net, logged>>
  /\ UNCHANGED <<proc, decrypted, kp, space, peers, joined, view, crashes>>

\* space list only prints the spaces the client knows.
SpaceList(c) ==
  /\ Reads(c, "spacelist")
  /\ UNCHANGED <<proc, logged, decrypted, kp, space, peers, joined, group,
                 epoch, view, net, crashes>>

-----------------------------------------------------------------------------
(* The environment: delivery in any order, crashes, exit on SIGTERM.       *)

\* A Welcome installs the group state of its epoch; a Commit advances a
\* member that is exactly one epoch behind; an operation is decrypted only
\* by a receiver in the epoch it was encrypted for, and dropped otherwise.
Deliver(d) ==
  /\ d \in net
  /\ proc[d.to] = "Running"
  /\ net' = net \ {d}
  /\ CASE d.m = Welcome ->
            /\ epoch' = [epoch EXCEPT ![d.to] = d.e]
            /\ UNCHANGED decrypted
       [] d.m = Commit ->
            /\ epoch' = [epoch EXCEPT ![d.to] = IF @ = d.e - 1 THEN d.e ELSE @]
            /\ UNCHANGED decrypted
       [] OTHER ->
            /\ decrypted' = IF epoch[d.to] = d.e
                              THEN [decrypted EXCEPT ![d.to] = @ \cup {d.m}]
                              ELSE decrypted
            /\ UNCHANGED epoch
  /\ UNCHANGED <<proc, stdin, logged, kp, space, peers, joined, group, view,
                 crashes>>

Crash(c) ==
  /\ proc[c] = "Running"
  /\ crashes < MaxCrashes
  /\ proc' = [proc EXCEPT ![c] = "Crashed"]
  /\ crashes' = crashes + 1
  /\ UNCHANGED <<stdin, logged, decrypted, kp, space, peers, joined, group,
                 epoch, view, net>>

\* A terminated process exits; it may also hang and never do so.
ExitOnSignal(c) ==
  /\ proc[c] = "Stopping"
  /\ proc' = [proc EXCEPT ![c] = "Stopped"]
  /\ UNCHANGED <<stdin, logged, decrypted, kp, space, peers, joined, group,
                 epoch, view, net, crashes>>

Process(c) ==
  \/ Publish(c) \/ SpaceCreate(c) \/ Context(c) \/ InviteCreate(c)
  \/ Network(c) \/ Connect(c) \/ Join(c) \/ Whoami(c) \/ MemberAdd(c)
  \/ ChannelCreate(c) \/ ThreadCreate(c) \/ Send(c) \/ SelectSpace(c)
  \/ Channels(c) \/ SelectChannel(c) \/ Threads(c) \/ SelectThread(c)
  \/ Kick(c) \/ SpaceList(c)

\* Nothing is left for a live process to read or to receive.
Quiescent ==
  \A c \in Clients :
    proc[c] = "Running" =>
      /\ stdin[c] = <<>>
      /\ \A d \in net : d.to # c
=============================================================================
