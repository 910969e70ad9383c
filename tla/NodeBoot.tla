------------------------------ MODULE NodeBoot ------------------------------
(***************************************************************************)
(* A node from power-on to local disk, and what the boot server gets to    *)
(* know of it: stormnetboot-init as PID 1 (crates/stormnetboot-init/src/   *)
(* steps.rs, main.rs, report.rs and the checks of cmdline.rs), the         *)
(* stormblock engine it starts, stormnetboot-agent in the booted system    *)
(* (crates/stormnetboot-agent/src/main.rs, flowover.rs), and the report    *)
(* handler of the server (http.rs), which moves the phase tracker of       *)
(* BootState.                                                              *)
(*                                                                         *)
(* Reports are single requests that nobody repeats: they may be lost, may  *)
(* overtake each other and may arrive after the node has been power-cycled *)
(* or the server restarted.  PID 1 sends them only where its command line  *)
(* says where to, and only a network carries them: the boot server does    *)
(* not put storm.report on the lines it renders, an operator may.          *)
(***************************************************************************)
EXTENDS Integers, Sequences

CONSTANTS Node,         \* the node's MAC
          ReportEvery,  \* extent failures between two reports: 4
          MaxExtentFailures,  \* failures after which the engine aborts: 16
          EngineLog,    \* the agent has --engine-log, and not --once
          Inventory,    \* the agent's other report: its hardware
          MaxFaults,    \* bound on lost reports, power cycles and restarts
          None

ASSUME NodeAssumption ==
  /\ ReportEvery \in Nat \ {0}
  /\ MaxExtentFailures \in Nat \ {0}
  /\ MaxFaults \in Nat
  /\ EngineLog \in BOOLEAN
  /\ None # Node
  /\ Inventory \notin Nat

VARIABLES hosts,    \* AppState.boot
          wire,     \* reports on their way to the server
          pc,       \* where stormnetboot-init is
          local_disk, \* BootParams.local_disk: the flow-over target
          reporter, \* what comes of the reports of PID 1
          engine,   \* stormblock: external
          log,      \* flow-over events of the engine's output: external
          agent,    \* stormnetboot-agent
          moved,    \* history: some flow-over has moved every extent
          faults,   \* faults left
          lost      \* history: a report or its effect was lost, or the agent
                    \* ended without its log

vars == <<hosts, wire, pc, local_disk, reporter, engine, log, agent, moved, faults, lost>>

Boot == INSTANCE BootState
          WITH Mac <- {Node}, MaxTracked <- 1, MaxClock <- 0, now <- 0,
               Version <- {}

\* No flow-over, a flow-over onto a free disk, or onto the disk of the data
\* slab.  The root source is read by the checks of run alone, and is any.
LocalDisk == {"none", "free", "data"}

\* Without storm.report and a MAC the Reporter sends nothing; with them it
\* may have no network yet.
Reporter == {"silent", "offline", "online"}

Event == {"Started", "ExtentFailed", "Complete", "CompleteWithFailures",
          "Aborted"}

Agent == [pc : {"none", "start", "follow", "done"},
          next : Nat \ {0}, \* the line to read
          failures : Nat]   \* extent_failures

NoAgent == [pc |-> "none", next |-> 1, failures |-> 0]

TypeOK ==
  /\ hosts \in Boot!HostMap
  /\ wire \subseteq Boot!Phase \cup {Inventory}
  /\ pc \in {"off", "init", "slabs", "engine", "wait", "mount", "handover",
             "switch", "up", "failing", "held"}
  /\ local_disk \in LocalDisk /\ reporter \in Reporter
  /\ engine \in {"none", "serving", "flowing", "stopped"}
  /\ log \in Seq(Event)
  /\ agent \in Agent /\ agent.next <= Len(log) + 1
  /\ moved \in BOOLEAN
  /\ faults \in 0..MaxFaults /\ lost \in BOOLEAN

Init ==
  /\ hosts = [m \in {Node} |-> None]
  /\ wire = {}
  /\ pc = "off"
  /\ local_disk = "none" /\ reporter = "silent"
  /\ engine = "none" /\ log = <<>>
  /\ agent = NoAgent
  /\ moved = FALSE
  /\ faults = MaxFaults /\ lost = FALSE

-----------------------------------------------------------------------------
(***************************************************************************)
(* The Reporter of init and the Reporter of the agent: one attempt for     *)
(* each report, never fatal.  The agent is given its URL, PID 1 may not    *)
(* have one, or no network yet: then nothing is sent.                      *)
(***************************************************************************)
Sent(way, reports) == IF way = "online" THEN reports ELSE {}

Report(reports) ==
  \/ wire' = wire \cup reports /\ UNCHANGED <<faults, lost>>
  \/ /\ reports # {} /\ faults > 0
     /\ faults' = faults - 1 /\ lost' = TRUE
     /\ \E some \in SUBSET reports : some # reports /\ wire' = wire \cup some

\* The report and inventory handlers of http.rs: the phase tracker sees it.
Deliver ==
  /\ \E report \in wire :
       /\ wire' = wire \ {report}
       /\ IF report = Inventory THEN Boot!set_inventory(Node)
          ELSE hosts' \in Boot!Observed(hosts, Node, report)
  /\ UNCHANGED <<pc, local_disk, reporter, engine, log, agent, moved, faults, lost>>

-----------------------------------------------------------------------------
(***************************************************************************)
(* stormnetboot-init.  Every step of run may fail; main then reports the   *)
(* failure and holds the console for ever.                                 *)
(***************************************************************************)

\* The machine starts, from PXE (the server sees it fetch its script) or
\* from its own media.
Starts ==
  /\ pc = "off"
  /\ \/ hosts' \in Boot!Observed(hosts, Node, Boot!ScriptFetched)
     \/ UNCHANGED hosts
  /\ UNCHANGED <<wire, engine, log, agent, moved, faults, lost>>

\* The kernel's ip= may have set up the network.
PowerOn ==
  Starts /\ pc' = "init" /\ local_disk' \in LocalDisk /\ reporter' \in Reporter

\* /proc/cmdline cannot be read: the console is held at once.
CannotReadCmdline ==
  Starts /\ pc' = "held" /\ local_disk' = "none" /\ reporter' = "silent"

Step(from, to) == pc = from /\ pc' = to

\* check_local_disk: flow-over formats its target.
LocalDiskAllowed == local_disk # "data"

\* bring_up_network, for a root behind it: DHCP may go unanswered, and ip= may
\* have been enough.  A local boot leaves the network as it is.
BringUpNetwork ==
  reporter' \in {reporter} \cup (IF reporter = "silent" THEN {} ELSE {"online"})

\* The checks, the network, "assets-fetched".
Prepare ==
  /\ Step("init", "slabs")
  /\ LocalDiskAllowed
  /\ BringUpNetwork
  /\ Report(Sent(reporter', {Boot!AssetsFetched}))
  /\ UNCHANGED <<hosts, local_disk, engine, log, agent, moved>>

ResolveSlabs ==
  /\ Step("slabs", "engine")
  /\ UNCHANGED <<hosts, wire, local_disk, reporter, engine, log, agent, moved, faults, lost>>

StartEngine ==
  /\ Step("engine", "wait")
  /\ engine' = "serving"
  /\ UNCHANGED <<hosts, wire, local_disk, reporter, log, agent, moved, faults, lost>>

DeviceAppears ==
  /\ Step("wait", "mount")
  /\ Report(Sent(reporter, {Boot!RootAttached}))
  /\ UNCHANGED <<hosts, local_disk, reporter, engine, log, agent, moved>>

\* mount_root, apply_exports and write_identity; only the first can fail,
\* and a failure of the others is printed and passed over.
MountRoot ==
  /\ Step("mount", "handover")
  /\ UNCHANGED <<hosts, wire, local_disk, reporter, engine, log, agent, moved, faults, lost>>

\* After the media refresh: "running", and "assimilating" with a local disk.
Announce ==
  /\ Step("handover", "switch")
  /\ Report(Sent(reporter, {Boot!Running} \cup
                       IF local_disk = "none" THEN {} ELSE {Boot!Assimilating}))
  /\ UNCHANGED <<hosts, local_disk, reporter, engine, log, agent, moved>>

\* PID 1 is replaced, and its Reporter is gone; the engine lives on, and the
\* booted system has a network of its own.
SwitchRoot ==
  /\ Step("switch", "up")
  /\ agent' = [NoAgent EXCEPT !.pc = "start"]
  /\ reporter' = "silent"
  /\ UNCHANGED <<hosts, wire, local_disk, engine, log, moved, faults, lost>>

\* A step fails: a refused disk, no root source, no NIC for a network root;
\* later no slab, no engine, no root, no init.  The engine is killed only when
\* its device did not appear.
StepFails ==
  /\ pc \in {"init", "slabs", "engine", "wait", "mount", "switch"}
  /\ pc' = "failing"
  /\ engine' = IF pc = "wait" THEN "none" ELSE engine
  /\ UNCHANGED <<hosts, wire, local_disk, reporter, log, agent, moved, faults, lost>>

\* Mutant: the error arm holds the console without a report.
HoldSilently ==
  /\ Step("failing", "held")
  /\ UNCHANGED <<hosts, wire, local_disk, reporter, engine, log, agent, moved, faults, lost>>

\* The error arm of main: reporter.failed, then emergency_shell for ever.
Hold ==
  /\ Step("failing", "held")
  /\ Report(Sent(reporter, {Boot!Failed}))
  /\ UNCHANGED <<hosts, local_disk, reporter, engine, log, agent, moved>>

Pid1 ==
  \/ Prepare \/ ResolveSlabs \/ StartEngine \/ DeviceAppears \/ MountRoot
  \/ Announce \/ SwitchRoot \/ StepFails \/ Hold

-----------------------------------------------------------------------------
(***************************************************************************)
(* The engine's flow-over, known only by the lines it writes.              *)
(***************************************************************************)
Says(event) == log' = Append(log, event)

Failures == Len(SelectSeq(log, LAMBDA e : e = "ExtentFailed"))

EngineQuiet == <<hosts, wire, pc, local_disk, reporter, agent, faults, lost>>

FlowStarts ==
  /\ engine = "serving" /\ local_disk # "none" /\ log = <<>>
  /\ engine' = "flowing" /\ Says("Started")
  /\ UNCHANGED <<EngineQuiet, moved>>

ExtentFails ==
  /\ engine = "flowing" /\ Failures < MaxExtentFailures
  /\ Says("ExtentFailed")
  /\ UNCHANGED <<EngineQuiet, engine, moved>>

\* flow-over has two last lines: one that counts failed extents and one that
\* only says how many are now on the local disk, which parse takes for none
\* failed.  The engine is taken to write that one only when all have moved.
FlowCompletes ==
  /\ engine = "flowing"
  /\ engine' = "serving"
  /\ Says(IF Failures = 0 THEN "Complete" ELSE "CompleteWithFailures")
  /\ moved' = (moved \/ Failures = 0)
  /\ UNCHANGED EngineQuiet

FlowAborts ==
  /\ engine = "flowing" /\ Failures = MaxExtentFailures
  /\ engine' = "stopped" /\ Says("Aborted")
  /\ UNCHANGED <<EngineQuiet, moved>>

Engine == FlowStarts \/ ExtentFails \/ FlowCompletes \/ FlowAborts

-----------------------------------------------------------------------------
(***************************************************************************)
(* stormnetboot-agent.                                                     *)
(***************************************************************************)
AgentStarts ==
  /\ agent.pc = "start"
  /\ agent' = [agent EXCEPT !.pc = IF EngineLog THEN "follow" ELSE "done"]
  /\ Report({Boot!Running, Inventory})
  /\ UNCHANGED <<hosts, pc, local_disk, reporter, engine, log, moved>>

\* Mutant: completion is completion, whatever failed on the way.
PhaseOfAny(event) ==
  CASE event = "Started" -> Boot!Assimilating
    [] event = "ExtentFailed" -> Boot!Assimilating
    [] event = "Complete" -> Boot!Local
    [] event = "CompleteWithFailures" -> Boot!Local
    [] event = "Aborted" -> Boot!Failed

\* Mutant: the end of the flow-over is left to the next boot to report.
PhaseOfStart(event) == Boot!Assimilating

\* What follow_engine_log reports for an event.
PhaseOf(event) ==
  CASE event = "Started" -> Boot!Assimilating
    [] event = "ExtentFailed" -> Boot!Assimilating
    [] event = "Complete" -> Boot!Local
    [] event = "CompleteWithFailures" -> Boot!Assimilating
    [] event = "Aborted" -> Boot!Failed

\* Mutant: a line is skipped.
SeenTwo(event) == agent.next + 2

\* The position after reading an event.
Seen(event) == agent.next + 1

\* One line read, parsed and reported.  Extent failures are counted, and
\* every ReportEvery-th is reported; the three endings end the agent.
FollowLog ==
  /\ agent.pc = "follow" /\ agent.next <= Len(log)
  /\ LET event == log[agent.next]
         failures == agent.failures + IF event = "ExtentFailed" THEN 1 ELSE 0
     IN  /\ agent' = [pc |-> IF event \in {"Started", "ExtentFailed"}
                             THEN "follow" ELSE "done",
                      next |-> Seen(event), failures |-> failures]
         /\ Report(IF event = "ExtentFailed" /\ failures % ReportEvery # 0
                   THEN {} ELSE {PhaseOf(event)})
  /\ UNCHANGED <<hosts, pc, local_disk, reporter, engine, log, moved>>

-----------------------------------------------------------------------------
Fault == faults > 0 /\ faults' = faults - 1

\* The node is power-cycled.  Its reports are on their way all the same.
PowerCycle ==
  /\ Fault
  /\ pc # "off" /\ pc' = "off"
  /\ engine' = "none" /\ log' = <<>>
  /\ agent' = NoAgent
  /\ local_disk' = "none" /\ reporter' = "silent"
  /\ UNCHANGED <<hosts, wire, moved, lost>>

\* The agent does not find its MAC, or the log cannot be opened or read, and
\* it ends.
AgentFails ==
  /\ Fault
  /\ agent.pc \in {"start", "follow"}
  /\ agent' = [agent EXCEPT !.pc = "done"]
  /\ lost' = TRUE
  /\ UNCHANGED <<hosts, wire, pc, local_disk, reporter, engine, log, moved>>

\* The agent is restarted, and reads the log from its beginning.
AgentRestarts ==
  /\ Fault
  /\ agent.pc \in {"follow", "done"}
  /\ agent' = [NoAgent EXCEPT !.pc = "start"]
  /\ UNCHANGED <<hosts, wire, pc, local_disk, reporter, engine, log, moved, lost>>

\* The boot server restarts: the tracker is in memory.
ServerRestarts ==
  /\ Fault
  /\ hosts' = [m \in {Node} |-> None]
  /\ lost' = TRUE
  /\ UNCHANGED <<wire, pc, local_disk, reporter, engine, log, agent, moved>>

Next ==
  \/ PowerOn \/ CannotReadCmdline \/ Pid1 \/ Engine
  \/ AgentStarts \/ FollowLog
  \/ Deliver
  \/ AgentFails \/ PowerCycle \/ AgentRestarts \/ ServerRestarts

Spec == Init /\ [][Next]_vars

\* PID 1 and the agent run; a report that was not lost arrives.
FairSpec ==
  Spec /\ WF_vars(Pid1) /\ WF_vars(AgentStarts \/ FollowLog) /\ WF_vars(Deliver)

-----------------------------------------------------------------------------
(***************************************************************************)
(* Properties.                                                             *)
(***************************************************************************)

\* The server says Local only of a node that has moved every extent to its
\* own disk, whichever reports overtook each other or come from an earlier
\* boot: on that word an operator may take the network source away.
LocalMeansMoved ==
  hosts[Node] # None /\ hosts[Node].phase = Boot!Local => moved

\* A node that is held at its console is known to have failed if its command
\* line says where to report and its network is up, unless a report got lost
\* or the server forgot it in a restart: of whichever step failed, and
\* whatever reports of earlier boots are still on their way.
FailureBecomesKnown ==
  [](~lost) =>
    (pc = "held" /\ reporter = "online"
       ~> hosts[Node] # None /\ hosts[Node].phase = Boot!Failed)

\* A flow-over that moved everything under a running system is known to be
\* finished, unless a report got lost, the server restarted or the node went
\* down before.
LocalBecomesKnown ==
  [](~lost) =>
    (pc = "up" /\ log # <<>> /\ log[Len(log)] = "Complete"
       ~> \/ pc # "up"
          \/ hosts[Node] # None /\ hosts[Node].phase \in {Boot!Local, Boot!Failed})

=============================================================================
