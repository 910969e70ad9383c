--------------------------- MODULE NodeBootProofs ---------------------------
(***************************************************************************)
(* Proofs about NodeBoot, for any number of faults, any thresholds of the  *)
(* engine and the agent, with and without --engine-log.                    *)
(*                                                                         *)
(* LocalMeansMoved relates two ends of a chain: the tracker of the server  *)
(* and the disk of the node.  IInv follows the word Local along it: only a *)
(* log that says Complete makes the agent say it, and only a flow-over     *)
(* that moved everything writes Complete.                                  *)
(***************************************************************************)
EXTENDS NodeBoot, SequenceTheorems, TLAPS

-----------------------------------------------------------------------------
\* The server shows Local for the node in map h.
ShownLocal(h) == h[Node] # None /\ h[Node].phase = Boot!Local

\* The log of the engine says that everything is moved.
LogIsTrue == \A i \in 1..Len(log) : log[i] = "Complete" => moved

\* So does a report on its way, of this boot or an earlier one.
WireIsTrue == Boot!Local \in wire => moved

IInv ==
  /\ TypeOK
  /\ LogIsTrue
  /\ WireIsTrue
  /\ LocalMeansMoved

\* No phase is taken for an inventory.
LEMMA PhasesAreNumbers ==
  /\ Boot!Phase = 0..6
  /\ Boot!Local = 5
  /\ Inventory \notin Boot!Phase
  /\ {Boot!ScriptFetched, Boot!AssetsFetched, Boot!RootAttached, Boot!Running,
      Boot!Assimilating, Boot!Failed} \subseteq Boot!Phase \ {Boot!Local}
BY NodeAssumption
DEF Boot!Phase, Boot!ScriptFetched, Boot!AssetsFetched, Boot!RootAttached,
    Boot!Running, Boot!Assimilating, Boot!Local, Boot!Failed

-----------------------------------------------------------------------------
\* Making room for the node leaves its own entry, or none.
LEMMA RoomType ==
  ASSUME NEW h \in Boot!HostMap, NEW room \in Boot!MakeRoom(h, Node)
  PROVE  room \in Boot!HostMap /\ room[Node] \in {h[Node], None}
<1>1. /\ Boot!DropFinished(h) \in Boot!HostMap
      /\ Boot!DropFinished(h)[Node] \in {h[Node], None}
  BY DEF Boot!DropFinished, Boot!HostMap
<1>2. QED
  BY <1>1 DEF Boot!MakeRoom, Boot!EvictFinished, Boot!HostMap

\* An observation makes the server show Local only if it is one of Local, or
\* Local was shown before.
LEMMA ObservedShows ==
  ASSUME NEW h \in Boot!HostMap, NEW phase \in Boot!Phase,
         NEW g \in Boot!Observed(h, Node, phase)
  PROVE  /\ g \in Boot!HostMap
         /\ ShownLocal(g) => phase = Boot!Local \/ ShownLocal(h)
<1>1. PICK room \in Boot!MakeRoom(h, Node) :
        g = [room EXCEPT ![Node] =
               IF room[Node] = None THEN Boot!NewHost(phase, FALSE)
               ELSE IF Boot!Moves(room[Node], phase)
                    THEN [room[Node] EXCEPT !.phase = phase, !.updated = 0]
                    ELSE room[Node]]
  BY DEF Boot!Observed
<1>2. room \in Boot!HostMap /\ room[Node] \in {h[Node], None}
  BY RoomType
<1>3. /\ Boot!NewHost(phase, FALSE) \in Boot!HostState
      /\ Boot!NewHost(phase, FALSE).phase = phase
  BY DEF Boot!NewHost, Boot!HostState, Boot!Clock
<1>4. ASSUME NEW old \in Boot!HostState
      PROVE  /\ [old EXCEPT !.phase = phase, !.updated = 0] \in Boot!HostState
             /\ [old EXCEPT !.phase = phase, !.updated = 0].phase = phase
  <2>1. 0 \in Boot!Clock
    BY DEF Boot!Clock
  <2>2. QED
    BY <2>1 DEF Boot!HostState
<1>5. room[Node] \in Boot!HostState \cup {None}
  BY <1>2 DEF Boot!HostMap
<1>6. QED
  BY <1>1, <1>2, <1>3, <1>4, <1>5 DEF Boot!HostMap, ShownLocal

\* An inventory never moves a phase to Local.
LEMMA InventoryShows ==
  ASSUME hosts \in Boot!HostMap, Boot!set_inventory(Node)
  PROVE  /\ hosts' \in Boot!HostMap
         /\ ShownLocal(hosts') => ShownLocal(hosts)
<1>1. PICK room \in Boot!MakeRoom(hosts, Node) :
        hosts' = [room EXCEPT ![Node] = IF room[Node] = None
                                        THEN Boot!NewHost(Boot!Running, TRUE)
                                        ELSE Boot!TouchedByInventory(room[Node])]
  BY DEF Boot!set_inventory
<1>2. room \in Boot!HostMap /\ room[Node] \in {hosts[Node], None}
  BY RoomType
<1>3. Boot!Running \in Boot!Phase /\ Boot!Running # Boot!Local
  BY PhasesAreNumbers
<1>4. 0 \in Boot!Clock
  BY DEF Boot!Clock
<1>5. /\ Boot!NewHost(Boot!Running, TRUE) \in Boot!HostState
      /\ Boot!NewHost(Boot!Running, TRUE).phase = Boot!Running
  BY <1>3, <1>4 DEF Boot!NewHost, Boot!HostState
<1>6. ASSUME NEW old \in Boot!HostState
      PROVE  /\ Boot!TouchedByInventory(old) \in Boot!HostState
             /\ Boot!TouchedByInventory(old).phase = old.phase
  BY <1>4 DEF Boot!TouchedByInventory, Boot!HostState
<1>7. room[Node] \in Boot!HostState \cup {None}
  BY <1>2 DEF Boot!HostMap
<1>8. QED
  BY <1>1, <1>2, <1>3, <1>5, <1>6, <1>7 DEF Boot!HostMap, ShownLocal

\* Reports, lost or not, only add themselves to what is on its way.
LEMMA ReportAdds ==
  ASSUME TypeOK, NEW reports \in SUBSET (Boot!Phase \cup {Inventory}),
         Report(reports)
  PROVE  /\ wire' \subseteq wire \cup reports
         /\ wire' \subseteq Boot!Phase \cup {Inventory}
         /\ faults' \in 0..MaxFaults /\ lost' \in BOOLEAN
<1>1. CASE wire' = wire \cup reports /\ UNCHANGED <<faults, lost>>
  BY <1>1 DEF TypeOK
<1>2. CASE /\ reports # {} /\ faults > 0
           /\ faults' = faults - 1 /\ lost' = TRUE
           /\ \E some \in SUBSET reports : some # reports /\ wire' = wire \cup some
  BY <1>2, NodeAssumption DEF TypeOK
<1>3. QED
  BY <1>1, <1>2 DEF Report

\* A step that reports anything but Local and leaves tracker, log and disk.
LEMMA QuietReportKeeps ==
  ASSUME IInv, NEW reports \in SUBSET ((Boot!Phase \cup {Inventory}) \ {Boot!Local}),
         Report(reports), UNCHANGED <<hosts, log, moved>>
  PROVE  /\ LogIsTrue' /\ WireIsTrue' /\ LocalMeansMoved'
         /\ wire' \subseteq Boot!Phase \cup {Inventory}
         /\ faults' \in 0..MaxFaults /\ lost' \in BOOLEAN
<1>1. /\ wire' \subseteq wire \cup reports
      /\ wire' \subseteq Boot!Phase \cup {Inventory}
      /\ faults' \in 0..MaxFaults /\ lost' \in BOOLEAN
  BY ReportAdds DEF IInv
<1>2. QED
  BY <1>1 DEF IInv, LogIsTrue, WireIsTrue, LocalMeansMoved

LEMMA InitIInv == Init => IInv
<1> SUFFICES ASSUME Init PROVE IInv
  OBVIOUS
<1>1. TypeOK
  <2>1. hosts \in Boot!HostMap
    BY DEF Init, Boot!HostMap
  <2>2. log \in Seq(Event) /\ Len(log) = 0
    BY EmptySeq DEF Init
  <2>3. agent \in Agent /\ agent.next = 1
    BY DEF Init, Agent, NoAgent
  <2>4. QED
    <3>1. /\ local_disk \in LocalDisk /\ reporter \in Reporter
          /\ wire = {} /\ faults \in 0..MaxFaults
      BY NodeAssumption DEF Init, LocalDisk, Reporter
    <3>2. moved \in BOOLEAN /\ lost \in BOOLEAN /\ pc = "off" /\ engine = "none"
      BY DEF Init
    <3>3. QED
      BY <2>1, <2>2, <2>3, <3>1, <3>2 DEF TypeOK
<1>2. LogIsTrue /\ WireIsTrue /\ LocalMeansMoved
  BY EmptySeq DEF Init, LogIsTrue, WireIsTrue, LocalMeansMoved
<1>3. QED
  BY <1>1, <1>2 DEF IInv

-----------------------------------------------------------------------------
\* The steps of PID 1 report other phases than Local.
LEMMA Pid1Keeps ==
  ASSUME IInv, Pid1
  PROVE  IInv'
<1>1. {Boot!AssetsFetched, Boot!RootAttached, Boot!Running, Boot!Assimilating,
       Boot!Failed} \subseteq (Boot!Phase \cup {Inventory}) \ {Boot!Local}
  BY PhasesAreNumbers
<1>2. ASSUME NEW reports \in SUBSET {Boot!AssetsFetched, Boot!RootAttached,
                                    Boot!Running, Boot!Assimilating,
                                    Boot!Failed},
             Report(reports), UNCHANGED <<hosts, local_disk, engine, log, agent, moved>>,
             reporter' \in Reporter,
             pc' \in {"slabs", "mount", "switch", "held"}
      PROVE  IInv'
  <2>1. reports \in SUBSET ((Boot!Phase \cup {Inventory}) \ {Boot!Local})
    BY <1>1
  <2>2. /\ LogIsTrue' /\ WireIsTrue' /\ LocalMeansMoved'
        /\ wire' \subseteq Boot!Phase \cup {Inventory}
        /\ faults' \in 0..MaxFaults /\ lost' \in BOOLEAN
    BY <1>2, <2>1, QuietReportKeeps
  <2>3. TypeOK'
    BY <1>2, <2>2 DEF IInv, TypeOK
  <2>4. QED
    BY <2>2, <2>3 DEF IInv
<1>3. ASSUME UNCHANGED <<hosts, wire, local_disk, log, moved, faults, lost>>,
             reporter' \in Reporter,
             pc' \in {"engine", "wait", "handover", "up", "failing"},
             engine' \in {engine, "none", "serving"},
             agent' \in {agent, [NoAgent EXCEPT !.pc = "start"]}
      PROVE  IInv'
  <2>1. [NoAgent EXCEPT !.pc = "start"] \in Agent
    BY DEF NoAgent, Agent
  <2>2. [NoAgent EXCEPT !.pc = "start"].next = 1
    BY DEF NoAgent
  <2>3. Len(log) \in Nat
    BY LenProperties DEF IInv, TypeOK
  <2>4. agent' \in Agent /\ agent'.next <= Len(log') + 1
    <3>1. CASE agent' = agent
      BY <1>3, <3>1 DEF IInv, TypeOK
    <3>2. CASE agent' = [NoAgent EXCEPT !.pc = "start"]
      BY <1>3, <2>1, <2>2, <2>3, <3>2
    <3>3. QED
      BY <1>3, <3>1, <3>2
  <2>5. TypeOK'
    <3>1. engine' \in {"none", "serving", "flowing", "stopped"}
      BY <1>3 DEF IInv, TypeOK
    <3>2. QED
      BY <1>3, <2>4, <3>1 DEF IInv, TypeOK
  <2>6. QED
    BY <1>3, <2>5 DEF IInv, LogIsTrue, WireIsTrue, LocalMeansMoved
<1>4. local_disk \in LocalDisk /\ reporter \in Reporter
  BY DEF IInv, TypeOK
<1>5. ASSUME NEW way, NEW reports
      PROVE  Sent(way, reports) \in SUBSET reports
  BY DEF Sent
<1>6. CASE Prepare
  <2>1. PICK way \in Reporter :
          reporter' = way /\ Report(Sent(way, {Boot!AssetsFetched}))
    BY <1>4, <1>6 DEF Prepare, BringUpNetwork, Reporter
  <2>2. Sent(way, {Boot!AssetsFetched}) \in SUBSET {Boot!AssetsFetched}
    BY <1>5
  <2>3. QED
    BY <1>2, <1>6, <2>1, <2>2 DEF Prepare, Step
<1>7. CASE DeviceAppears \/ Announce \/ Hold
  <2>1. PICK reports \in SUBSET {Boot!RootAttached, Boot!Running,
                                Boot!Assimilating, Boot!Failed} : Report(reports)
    <3>1. CASE DeviceAppears
      BY <1>5, <3>1 DEF DeviceAppears
    <3>2. CASE Announce
      BY <1>5, <3>2 DEF Announce
    <3>3. CASE Hold
      BY <1>5, <3>3 DEF Hold
    <3>4. QED
      BY <1>7, <3>1, <3>2, <3>3
  <2>2. /\ UNCHANGED <<hosts, local_disk, reporter, engine, log, agent, moved>>
        /\ pc' \in {"slabs", "mount", "switch", "held"}
    BY <1>7 DEF DeviceAppears, Announce, Hold, Step
  <2>3. QED
    BY <1>2, <1>4, <2>1, <2>2
<1>8. CASE ResolveSlabs \/ StartEngine \/ MountRoot \/ StepFails
  BY <1>3, <1>4, <1>8
  DEF ResolveSlabs, StartEngine, MountRoot, StepFails, Step
<1>9. CASE SwitchRoot
  BY <1>3, <1>9 DEF SwitchRoot, Step, Reporter
<1>10. QED
  BY <1>6, <1>7, <1>8, <1>9 DEF Pid1

\* The engine writes Complete only as it has moved the last extent.
LEMMA EngineKeeps ==
  ASSUME IInv, Engine
  PROVE  IInv'
<1>1. ASSUME NEW event \in Event, Says(event), UNCHANGED EngineQuiet,
             engine' \in {"flowing", "serving", "stopped"},
             moved' \in BOOLEAN, moved => moved', event = "Complete" => moved'
      PROVE  IInv'
  <2>1. log \in Seq(Event) /\ Len(log) \in Nat
    BY LenProperties DEF IInv, TypeOK
  <2>2. /\ log' \in Seq(Event)
        /\ Len(log') = Len(log) + 1
        /\ \A i \in 1..Len(log) : log'[i] = log[i]
        /\ log'[Len(log) + 1] = event
    BY <1>1, <2>1, AppendProperties DEF Says
  <2>3. agent' = agent /\ agent.next \in Nat /\ agent.next <= Len(log) + 1
    BY <1>1 DEF EngineQuiet, IInv, TypeOK, Agent
  <2>4. agent'.next <= Len(log') + 1
    BY <2>1, <2>2, <2>3
  <2>5. TypeOK'
    BY <1>1, <2>2, <2>3, <2>4 DEF EngineQuiet, IInv, TypeOK
  <2>6. LogIsTrue'
    BY <1>1, <2>1, <2>2 DEF IInv, LogIsTrue
  <2>7. WireIsTrue' /\ LocalMeansMoved'
    BY <1>1 DEF EngineQuiet, IInv, WireIsTrue, LocalMeansMoved
  <2>8. QED
    BY <2>5, <2>6, <2>7 DEF IInv
<1>2. moved \in BOOLEAN
  BY DEF IInv, TypeOK
<1>3. CASE FlowStarts
  BY <1>1, <1>2, <1>3 DEF FlowStarts, Event
<1>4. CASE ExtentFails
  BY <1>1, <1>2, <1>4 DEF ExtentFails, Event
<1>5. CASE FlowCompletes
  <2>1. CASE Failures = 0
    <3>1. Says("Complete") /\ moved' = TRUE
      BY <1>5, <2>1 DEF FlowCompletes
    <3>2. QED
      BY <1>1, <1>5, <3>1 DEF FlowCompletes, Event
  <2>2. CASE Failures # 0
    <3>1. Says("CompleteWithFailures") /\ moved' = moved
      BY <1>2, <1>5, <2>2 DEF FlowCompletes
    <3>2. QED
      BY <1>1, <1>2, <1>5, <3>1 DEF FlowCompletes, Event
  <2>3. QED
    BY <2>1, <2>2
<1>6. CASE FlowAborts
  BY <1>1, <1>2, <1>6 DEF FlowAborts, Event
<1>7. QED
  BY <1>3, <1>4, <1>5, <1>6 DEF Engine

\* The agent says Local only where the log says Complete.
LEMMA AgentKeeps ==
  ASSUME IInv, AgentStarts \/ FollowLog
  PROVE  IInv'
<1>1. CASE AgentStarts
  <2>1. {Boot!Running, Inventory} \in
          SUBSET ((Boot!Phase \cup {Inventory}) \ {Boot!Local})
    BY PhasesAreNumbers
  <2>2. /\ LogIsTrue' /\ WireIsTrue' /\ LocalMeansMoved'
        /\ wire' \subseteq Boot!Phase \cup {Inventory}
        /\ faults' \in 0..MaxFaults /\ lost' \in BOOLEAN
    BY <1>1, <2>1, QuietReportKeeps DEF AgentStarts
  <2>3. agent' \in Agent /\ agent'.next = agent.next
    BY <1>1 DEF AgentStarts, IInv, TypeOK, Agent
  <2>4. TypeOK'
    BY <1>1, <2>2, <2>3 DEF AgentStarts, IInv, TypeOK
  <2>5. QED
    BY <2>2, <2>4 DEF IInv
<1>2. CASE FollowLog
  <2> DEFINE event == log[agent.next]
             failures == agent.failures + IF event = "ExtentFailed" THEN 1 ELSE 0
             reports == IF event = "ExtentFailed" /\ failures % ReportEvery # 0
                        THEN {} ELSE {PhaseOf(event)}
  <2>1. /\ log \in Seq(Event) /\ Len(log) \in Nat
        /\ agent \in Agent /\ agent.next \in Nat /\ agent.failures \in Nat
        /\ agent.next <= Len(log)
    BY <1>2, LenProperties DEF FollowLog, IInv, TypeOK, Agent
  <2>2. /\ agent' = [pc |-> IF event \in {"Started", "ExtentFailed"}
                            THEN "follow" ELSE "done",
                     next |-> Seen(event), failures |-> failures]
        /\ Report(reports)
        /\ UNCHANGED <<hosts, pc, local_disk, reporter, engine, log, moved>>
    BY <1>2 DEF FollowLog
  <2>3. failures \in Nat
    BY <2>1
  <2>4. agent' \in Agent /\ agent'.next <= Len(log) + 1
    <3>1. Seen(event) = agent.next + 1
      BY DEF Seen
    <3>2. QED
      BY <2>1, <2>2, <2>3, <3>1 DEF Agent
  <2>5. event \in Event
    BY <2>1 DEF Agent
  <2>6. PhaseOf(event) \in Boot!Phase /\ (PhaseOf(event) = Boot!Local =>
                                            event = "Complete")
    BY <2>5, PhasesAreNumbers DEF PhaseOf, Event
  <2>7. /\ reports \in SUBSET (Boot!Phase \cup {Inventory})
        /\ Boot!Local \in reports => event = "Complete"
    BY <2>6
  <2>8. Boot!Local \in reports => moved
    BY <2>1, <2>7 DEF IInv, LogIsTrue, Agent
  <2> HIDE DEF event, failures, reports
  <2>9. /\ wire' \subseteq wire \cup reports
        /\ wire' \subseteq Boot!Phase \cup {Inventory}
        /\ faults' \in 0..MaxFaults /\ lost' \in BOOLEAN
    BY <2>2, <2>7, ReportAdds DEF IInv
  <2>10. TypeOK'
    BY <2>2, <2>4, <2>9 DEF IInv, TypeOK
  <2>11. LogIsTrue' /\ WireIsTrue' /\ LocalMeansMoved'
    BY <2>2, <2>8, <2>9 DEF IInv, LogIsTrue, WireIsTrue, LocalMeansMoved
  <2>12. QED
    BY <2>10, <2>11 DEF IInv
<1>3. QED
  BY <1>1, <1>2

\* A report that arrives was sent, and says Local only if it was sent so.
LEMMA DeliverKeeps ==
  ASSUME IInv, Deliver
  PROVE  IInv'
<1>1. PICK report \in wire :
        /\ wire' = wire \ {report}
        /\ IF report = Inventory THEN Boot!set_inventory(Node)
           ELSE hosts' \in Boot!Observed(hosts, Node, report)
  BY DEF Deliver
<1>2. UNCHANGED <<pc, local_disk, reporter, engine, log, agent, moved, faults, lost>>
  BY DEF Deliver
<1>3. /\ hosts' \in Boot!HostMap
      /\ ShownLocal(hosts') => report = Boot!Local \/ ShownLocal(hosts)
  <2>1. CASE report = Inventory
    BY <1>1, <2>1, InventoryShows DEF IInv, TypeOK
  <2>2. CASE report # Inventory
    BY <1>1, <2>2, ObservedShows DEF IInv, TypeOK
  <2>3. QED
    BY <2>1, <2>2
<1>4. TypeOK'
  BY <1>1, <1>2, <1>3 DEF IInv, TypeOK
<1>5. LogIsTrue' /\ WireIsTrue'
  BY <1>1, <1>2 DEF IInv, LogIsTrue, WireIsTrue
<1>6. LocalMeansMoved'
  BY <1>1, <1>2, <1>3 DEF IInv, WireIsTrue, LocalMeansMoved, ShownLocal
<1>7. QED
  BY <1>4, <1>5, <1>6 DEF IInv

\* Power, agent and server come and go; what has been moved stays moved.
LEMMA FaultKeeps ==
  ASSUME IInv,
         \/ PowerOn \/ CannotReadCmdline
         \/ PowerCycle \/ AgentFails \/ AgentRestarts \/ ServerRestarts
  PROVE  IInv'
<1>0. Fault => faults' \in 0..MaxFaults
  BY NodeAssumption DEF Fault, IInv, TypeOK
<1>1. NoAgent \in Agent /\ NoAgent.next = 1
  BY DEF NoAgent, Agent
<1>2. Len(log) \in Nat
  BY LenProperties DEF IInv, TypeOK
<1>3. CASE PowerOn \/ CannotReadCmdline
  <2>1. /\ hosts' \in Boot!HostMap
        /\ ShownLocal(hosts') => ShownLocal(hosts)
    <3>1. Boot!ScriptFetched \in Boot!Phase /\ Boot!ScriptFetched # Boot!Local
      BY PhasesAreNumbers
    <3>2. QED
      BY <1>3, <3>1, ObservedShows
      DEF PowerOn, CannotReadCmdline, Starts, IInv, TypeOK
  <2>2. TypeOK'
    <3>1. /\ local_disk' \in LocalDisk /\ reporter' \in Reporter
          /\ pc' \in {"init", "held"}
          /\ UNCHANGED <<wire, engine, log, agent, moved, faults, lost>>
      BY <1>3 DEF PowerOn, CannotReadCmdline, Starts, LocalDisk, Reporter
    <3>2. QED
      BY <2>1, <3>1 DEF IInv, TypeOK
  <2>3. LogIsTrue' /\ WireIsTrue' /\ LocalMeansMoved'
    BY <1>3, <2>1
    DEF PowerOn, CannotReadCmdline, Starts, IInv, LogIsTrue, WireIsTrue,
        LocalMeansMoved, ShownLocal
  <2>4. QED
    BY <2>2, <2>3 DEF IInv
<1>4. CASE PowerCycle
  <2>1. log' \in Seq(Event) /\ Len(log') = 0
    BY <1>4, EmptySeq DEF PowerCycle
  <2>2. TypeOK'
    <3>1. /\ Fault /\ pc' = "off" /\ engine' = "none"
          /\ agent' = NoAgent /\ local_disk' = "none" /\ reporter' = "silent"
          /\ UNCHANGED <<hosts, wire, moved, lost>>
      BY <1>4 DEF PowerCycle
    <3>2. local_disk' \in LocalDisk /\ reporter' \in Reporter
      BY <3>1 DEF LocalDisk, Reporter
    <3>3. faults' \in 0..MaxFaults
      BY <1>0, <3>1
    <3>4. agent' \in Agent /\ agent'.next <= Len(log') + 1
      BY <1>1, <2>1, <3>1
    <3>5. QED
      BY <2>1, <3>1, <3>2, <3>3, <3>4 DEF IInv, TypeOK
  <2>3. LogIsTrue' /\ WireIsTrue' /\ LocalMeansMoved'
    BY <1>4, <2>1 DEF PowerCycle, IInv, LogIsTrue, WireIsTrue, LocalMeansMoved
  <2>4. QED
    BY <2>2, <2>3 DEF IInv
<1>5. CASE AgentFails
  <2>1. agent' \in Agent /\ agent'.next = agent.next
    BY <1>5 DEF AgentFails, IInv, TypeOK, Agent
  <2>2. TypeOK'
    BY <1>0, <1>5, <2>1 DEF AgentFails, IInv, TypeOK
  <2>3. QED
    BY <1>5, <2>2 DEF AgentFails, IInv, LogIsTrue, WireIsTrue, LocalMeansMoved
<1>6. CASE AgentRestarts
  <2>1. agent' \in Agent /\ agent'.next = 1
    BY <1>6 DEF AgentRestarts, NoAgent, Agent
  <2>2. TypeOK'
    BY <1>0, <1>2, <1>6, <2>1 DEF AgentRestarts, IInv, TypeOK
  <2>3. QED
    BY <1>6, <2>2 DEF AgentRestarts, IInv, LogIsTrue, WireIsTrue, LocalMeansMoved
<1>7. CASE ServerRestarts
  <2>1. hosts' \in Boot!HostMap /\ hosts'[Node] = None
    BY <1>7 DEF ServerRestarts, Boot!HostMap
  <2>2. TypeOK'
    BY <1>0, <1>7, <2>1 DEF ServerRestarts, IInv, TypeOK
  <2>3. QED
    BY <1>7, <2>1, <2>2
    DEF ServerRestarts, IInv, LogIsTrue, WireIsTrue, LocalMeansMoved
<1>8. QED
  BY <1>3, <1>4, <1>5, <1>6, <1>7

LEMMA NextIInv == IInv /\ [Next]_vars => IInv'
<1> SUFFICES ASSUME IInv, [Next]_vars PROVE IInv'
  OBVIOUS
<1>1. CASE UNCHANGED vars
  BY <1>1 DEF vars, IInv, TypeOK, LogIsTrue, WireIsTrue, LocalMeansMoved
<1>2. QED
  BY <1>1, Pid1Keeps, EngineKeeps, AgentKeeps, DeliverKeeps, FaultKeeps DEF Next

\* The inductive invariant of a node and its server.
LEMMA Inductive == Spec => []IInv
BY InitIInv, NextIInv, PTL DEF Spec

-----------------------------------------------------------------------------
\* PID 1, the agent, the reports and the tracker keep their types; the agent
\* never reads past the end of the engine's log.
THEOREM Types == Spec => []TypeOK
<1>1. IInv => TypeOK
  BY DEF IInv
<1>2. QED
  BY <1>1, Inductive, PTL

\* The server says Local only of a node whose extents are all on its own
\* disk, for every number of power cycles, restarts and lost or late
\* reports, and whatever thresholds engine and agent have.
THEOREM LocalIsTrue == Spec => []LocalMeansMoved
<1>1. IInv => LocalMeansMoved
  BY DEF IInv
<1>2. QED
  BY <1>1, Inductive, PTL
=============================================================================
