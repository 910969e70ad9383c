------------------------------ MODULE BootState ------------------------------
(***************************************************************************)
(* The boot server's in-memory record of what every machine is doing       *)
(* (crates/stormnetboot-server/src/state.rs): a map from MAC to HostState  *)
(* behind one RwLock, fed by the boot_script, report and inventory         *)
(* handlers.  Each operation holds the write lock from start to end, so    *)
(* each is one action.  The phase reports are POSTs on separate            *)
(* connections that nobody retries or orders: any phase may arrive for any *)
(* machine at any time, which is how Next offers them.                     *)
(***************************************************************************)
EXTENDS Integers, FiniteSets

CONSTANTS Mac,         \* the machines that may ever report
          MaxTracked,  \* MAX_TRACKED, the cap on the map
          MaxClock,    \* bound: readings of the wall clock, in seconds
          Version,     \* boot pallet versions a machine can be served
          None         \* Option::None

ASSUME MacAssumption == IsFiniteSet(Mac)
ASSUME MaxTrackedAssumption == MaxTracked \in Nat \ {0}
ASSUME MaxClockAssumption == MaxClock \in Nat

(***************************************************************************)
(* Phase derives Ord, so phases compare in declaration order, and Failed,  *)
(* declared last, is the greatest of them.                                 *)
(***************************************************************************)
ScriptFetched == 0
AssetsFetched == 1
RootAttached == 2
Running == 3
Assimilating == 4
Local == 5
Failed == 6

Phase == ScriptFetched..Failed

IsTerminal(phase) == phase \in {Local, Failed}

Clock == 0..MaxClock

HostState == [phase : Phase,
              pallet_version : Version \cup {None},
              hardware : BOOLEAN,   \* an Inventory has been reported
              first_seen : Clock,
              updated : Clock]

ASSUME NoneAssumption == None \notin HostState \cup Version \cup Phase

VARIABLES hosts,  \* BootState.hosts; None where the map has no key
          now     \* what SystemTime::now() would read

vars == <<hosts, now>>

HostMap == [Mac -> HostState \cup {None}]

TypeOK ==
  /\ hosts \in HostMap
  /\ now \in Clock

Init ==
  /\ hosts = [m \in Mac |-> None]
  /\ now \in Clock

Tracked(h) == {m \in Mac : h[m] # None}

InFlight(h) == {m \in Tracked(h) : ~IsTerminal(h[m].phase)}

Full(h) == Cardinality(Tracked(h)) >= MaxTracked

-----------------------------------------------------------------------------
(***************************************************************************)
(* Eviction.  retain() drops every finished host; if the map is still full *)
(* the least recently updated host goes too.  min_by_key walks a HashMap,  *)
(* so among equal stamps any one may be picked: the result is a set.       *)
(***************************************************************************)
DropFinished(h) == [m \in Mac |-> IF m \in InFlight(h) THEN h[m] ELSE None]

Oldest(h) ==
  {m \in Tracked(h) : \A n \in Tracked(h) : h[m].updated <= h[n].updated}

\* Mutant: makes room by age alone, finished or not.
EvictByAge(h) == {[h EXCEPT ![m] = None] : m \in Oldest(h)}

\* Mutant: retain() alone, as if some tracked host had always finished.
EvictOnlyFinished(h) == {DropFinished(h)}

EvictFinished(h) ==
  LET kept == DropFinished(h)
  IN  IF Full(kept) THEN {[kept EXCEPT ![m] = None] : m \in Oldest(kept)}
                    ELSE {kept}

\* What the map may be once there is room for an entry for mac.
MakeRoom(h, mac) ==
  IF Full(h) /\ h[mac] = None THEN EvictFinished(h) ELSE {h}

-----------------------------------------------------------------------------
\* Mutant: a new entry is not stamped.
UnstampedHost(phase, hardware) ==
  [phase |-> phase, pallet_version |-> None, hardware |-> hardware,
   first_seen |-> None, updated |-> now]

NewHost(phase, hardware) ==
  [phase |-> phase, pallet_version |-> None, hardware |-> hardware,
   first_seen |-> now, updated |-> now]

\* Mutant: the phase is overwritten by whatever arrives last.
MovesToLatest(old, phase) == TRUE

\* The rule that lets a report move a host that is already tracked.
Moves(old, phase) == phase >= old.phase \/ phase = Failed

\* The maps that BootState::observe can leave behind.
Observed(h, mac, phase) ==
  {[room EXCEPT ![mac] =
      IF room[mac] = None THEN NewHost(phase, FALSE)
      ELSE IF Moves(room[mac], phase)
           THEN [room[mac] EXCEPT !.phase = phase, !.updated = now]
           ELSE room[mac]] : room \in MakeRoom(h, mac)}

observe(mac, phase) ==
  /\ hosts' \in Observed(hosts, mac, phase)
  /\ UNCHANGED now

set_pallet_version(mac, version) ==
  /\ hosts[mac] # None
  /\ hosts' = [hosts EXCEPT ![mac].pallet_version = version]
  /\ UNCHANGED now

\* Mutant: a node that describes itself is always put back to Running.
ResetByInventory(old) ==
  [old EXCEPT !.phase = Running, !.hardware = TRUE, !.updated = now]

TouchedByInventory(old) == [old EXCEPT !.hardware = TRUE, !.updated = now]

set_inventory(mac) ==
  /\ \E room \in MakeRoom(hosts, mac) :
       hosts' = [room EXCEPT ![mac] = IF room[mac] = None
                                      THEN NewHost(Running, TRUE)
                                      ELSE TouchedByInventory(room[mac])]
  /\ UNCHANGED now

\* The wall clock is not monotonic: an NTP step may take it either way.
ClockMoves ==
  /\ now' \in Clock
  /\ UNCHANGED hosts

\* The map lives in memory only, so a restart of the process empties it.
Restart ==
  /\ hosts' = [m \in Mac |-> None]
  /\ UNCHANGED now

Next ==
  \/ \E mac \in Mac, phase \in Phase : observe(mac, phase)
  \/ \E mac \in Mac, version \in Version : set_pallet_version(mac, version)
  \/ \E mac \in Mac : set_inventory(mac)
  \/ ClockMoves
  \/ Restart

Spec == Init /\ [][Next]_vars

-----------------------------------------------------------------------------
(***************************************************************************)
(* Properties.                                                             *)
(***************************************************************************)

\* The map never holds more than MAX_TRACKED hosts, however the reports of
\* more machines than that interleave: observe and set_inventory make room
\* before they insert, even when no tracked host has finished.
Bounded == Cardinality(Tracked(hosts)) <= MaxTracked

\* While a host stays tracked its phase never moves back, whatever late or
\* duplicated report arrives, and neither its inventory, its served version
\* nor the moment it was first seen is lost (observe, set_inventory,
\* set_pallet_version).
ForwardOnly ==
  [][\A m \in Tracked(hosts) \cap Tracked(hosts') :
       /\ hosts'[m].phase >= hosts[m].phase
       /\ hosts[m].hardware => hosts'[m].hardware
       /\ hosts[m].pallet_version # None => hosts'[m].pallet_version # None
       /\ hosts'[m].first_seen = hosts[m].first_seen]_vars

\* Short of a restart, a machine that is still booting is dropped only when
\* the map is full of machines that are all still booting, and then only one
\* machine goes: one that was updated no later than any other
\* (evict_finished).
EvictionSparesInFlight ==
  [][LET dropped == InFlight(hosts) \ Tracked(hosts')
     IN  Tracked(hosts') # {} /\ dropped # {} =>
           /\ Tracked(hosts) = InFlight(hosts)
           /\ Cardinality(Tracked(hosts)) = MaxTracked
           /\ \E m \in Oldest(hosts) : dropped = {m}]_vars

\* What the map promises a reader of the feed: see BootTimeline.
Timeline ==
  INSTANCE BootTimeline
    WITH view <- [m \in Mac |-> IF hosts[m] = None THEN None
                                                   ELSE hosts[m].phase]

\* Every operation of BootState is a step that BootTimeline allows.
TimelineSpec == Timeline!Spec
=============================================================================
