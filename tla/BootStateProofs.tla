-------------------------- MODULE BootStateProofs --------------------------
(***************************************************************************)
(* Proofs about BootState, for any finite set of machines, any cap and any *)
(* clock.  TypeOK /\ Bounded is inductive; the rest follows from it, from RoomMade *)
(* (what eviction may do) and from StepShape (what a step may do).         *)
(***************************************************************************)
EXTENDS BootState, FiniteSetTheorems, TLAPS

-----------------------------------------------------------------------------
\* The tracked hosts, and any subset of them, are finitely many.
LEMMA TrackedFinite ==
  ASSUME NEW h
  PROVE  /\ IsFiniteSet(Tracked(h))
         /\ IsFiniteSet(InFlight(h))
         /\ Cardinality(Tracked(h)) \in Nat
         /\ Cardinality(InFlight(h)) \in Nat
         /\ Cardinality(InFlight(h)) <= Cardinality(Tracked(h))
         /\ Cardinality(InFlight(h)) = Cardinality(Tracked(h)) =>
              InFlight(h) = Tracked(h)
<1>1. IsFiniteSet(Tracked(h))
  BY MacAssumption, FS_Subset DEF Tracked
<1>2. InFlight(h) \subseteq Tracked(h)
  BY DEF InFlight
<1>3. QED
  BY <1>1, <1>2, FS_Subset, FS_CardinalityType

\* retain() keeps exactly the hosts in flight, as they are.
LEMMA DropFinishedKeeps ==
  ASSUME NEW h \in HostMap
  PROVE  /\ DropFinished(h) \in HostMap
         /\ Tracked(DropFinished(h)) = InFlight(h)
         /\ \A m \in InFlight(h) : DropFinished(h)[m] = h[m]
BY DEF DropFinished, HostMap, Tracked, InFlight

\* Removing one key removes one tracked host.
LEMMA RemoveKey ==
  ASSUME NEW h \in HostMap, NEW m \in Tracked(h)
  PROVE  /\ [h EXCEPT ![m] = None] \in HostMap
         /\ Tracked([h EXCEPT ![m] = None]) = Tracked(h) \ {m}
         /\ Cardinality(Tracked(h) \ {m}) = Cardinality(Tracked(h)) - 1
<1>1. /\ [h EXCEPT ![m] = None] \in HostMap
      /\ Tracked([h EXCEPT ![m] = None]) = Tracked(h) \ {m}
  BY DEF HostMap, Tracked
<1>2. Cardinality(Tracked(h) \ {m}) = Cardinality(Tracked(h)) - 1
  BY TrackedFinite, FS_RemoveElement
<1>3. QED
  BY <1>1, <1>2

\* What making room for mac leaves of a map that respects the cap: the
\* hosts that remain are untouched, mac itself is untouched, one more host
\* fits, and the hosts that went are either the finished ones or, if there
\* was none, a single least recently updated one.
LEMMA RoomMade ==
  ASSUME NEW h \in HostMap, Cardinality(Tracked(h)) <= MaxTracked,
         NEW mac \in Mac, NEW room \in MakeRoom(h, mac)
  PROVE  /\ room \in HostMap
         /\ room[mac] = h[mac]
         /\ Tracked(room) \subseteq Tracked(h)
         /\ \A m \in Tracked(room) : room[m] = h[m]
         /\ h[mac] # None => room = h
         /\ h[mac] = None => Cardinality(Tracked(room)) < MaxTracked
         /\ h[mac] = None =>
              \/ ~Full(h) /\ room = h
              \/ /\ Full(h)
                 /\ InFlight(h) # Tracked(h)
                 /\ Tracked(room) = InFlight(h)
              \/ /\ Full(h)
                 /\ InFlight(h) = Tracked(h)
                 /\ \E m \in Oldest(h) : Tracked(room) = Tracked(h) \ {m}
<1> DEFINE kept == DropFinished(h)
<1>1. CASE ~(Full(h) /\ h[mac] = None)
  BY <1>1, TrackedFinite, MaxTrackedAssumption DEF MakeRoom, Full
<1>2. CASE Full(h) /\ h[mac] = None
  <2>1. room \in EvictFinished(h) /\ mac \notin Tracked(h)
    BY <1>2 DEF MakeRoom, Tracked
  <2>2. /\ kept \in HostMap
        /\ Tracked(kept) = InFlight(h)
        /\ \A m \in InFlight(h) : kept[m] = h[m]
    BY DropFinishedKeeps
  <2>3. InFlight(h) \subseteq Tracked(h)
    BY DEF InFlight
  <2>4. CASE ~Full(kept)
    <3>1. room = kept
      BY <2>1, <2>4 DEF EvictFinished
    <3>2. Cardinality(InFlight(h)) < MaxTracked
      BY <2>2, <2>4, TrackedFinite, MaxTrackedAssumption DEF Full
    <3>3. InFlight(h) # Tracked(h)
      BY <3>2, <1>2, TrackedFinite, MaxTrackedAssumption DEF Full
    <3>4. room[mac] = h[mac]
      BY <3>1, <2>1, <2>2, <2>3, <1>2 DEF Tracked, HostMap
    <3>5. QED
      BY <1>2, <2>2, <2>3, <3>1, <3>2, <3>3, <3>4
  <2>5. CASE Full(kept)
    <3>1. PICK m \in Oldest(kept) : room = [kept EXCEPT ![m] = None]
      BY <2>1, <2>5 DEF EvictFinished
    <3>2. Cardinality(InFlight(h)) = Cardinality(Tracked(h))
      BY <2>2, <2>5, TrackedFinite, MaxTrackedAssumption DEF Full
    <3>3. InFlight(h) = Tracked(h)
      BY <3>2, TrackedFinite
    <3>4. kept = h
      BY <2>2, <3>3 DEF HostMap, Tracked
    <3>5. m \in Oldest(h) /\ m \in Tracked(h)
      BY <3>1, <3>4 DEF Oldest
    <3>6. /\ room \in HostMap
          /\ Tracked(room) = Tracked(h) \ {m}
          /\ Cardinality(Tracked(room)) = Cardinality(Tracked(h)) - 1
      BY <3>1, <3>4, <3>5, RemoveKey
    <3>7. Cardinality(Tracked(room)) < MaxTracked
      BY <3>6, TrackedFinite, MaxTrackedAssumption
    <3>8. \A n \in Mac : n # m => room[n] = h[n]
      BY <3>1, <3>4 DEF HostMap
    <3>9. room[mac] = h[mac]
      BY <3>8, <3>5, <2>1
    <3>10. \A n \in Tracked(room) : room[n] = h[n]
      BY <3>6, <3>8 DEF Tracked
    <3>11. QED
      BY <1>2, <3>3, <3>5, <3>6, <3>7, <3>9, <3>10
  <2>6. QED
    BY <2>4, <2>5
<1>3. QED
  BY <1>1, <1>2

\* Putting an entry for mac into a map with room keeps type and cap.
LEMMA PutKeeps ==
  ASSUME NEW h \in HostMap, Cardinality(Tracked(h)) <= MaxTracked,
         NEW mac \in Mac, NEW room \in MakeRoom(h, mac),
         NEW entry \in HostState,
         NEW put, put = [room EXCEPT ![mac] = entry]
  PROVE  /\ put \in HostMap
         /\ Tracked(put) = Tracked(room) \cup {mac}
         /\ Cardinality(Tracked(put)) <= MaxTracked
<1>1. /\ room \in HostMap
      /\ room[mac] = h[mac]
      /\ h[mac] # None => room = h
      /\ h[mac] = None => Cardinality(Tracked(room)) < MaxTracked
  BY RoomMade
<1>2. /\ put \in HostMap
      /\ Tracked(put) = Tracked(room) \cup {mac}
  BY <1>1, NoneAssumption DEF HostMap, Tracked
<1>3. CASE h[mac] # None
  <2>1. Tracked(put) = Tracked(h)
    BY <1>1, <1>2, <1>3 DEF Tracked
  <2>2. QED
    BY <1>2, <2>1
<1>4. CASE h[mac] = None
  <2>1. mac \notin Tracked(room)
    BY <1>1, <1>4 DEF Tracked
  <2>2. Cardinality(Tracked(put)) = Cardinality(Tracked(room)) + 1
    BY <1>2, <2>1, TrackedFinite, FS_AddElement
  <2>3. Cardinality(Tracked(room)) \in Nat
    BY TrackedFinite
  <2>4. Cardinality(Tracked(put)) <= MaxTracked
    BY <1>1, <1>4, <2>2, <2>3, MaxTrackedAssumption
  <2>5. QED
    BY <1>2, <2>4
<1>5. QED
  BY <1>3, <1>4

-----------------------------------------------------------------------------
\* How an entry may change while its host stays tracked.
Grows(old, new) ==
  /\ new.phase >= old.phase
  /\ old.hardware => new.hardware
  /\ old.pallet_version # None => new.pallet_version # None
  /\ new.first_seen = old.first_seen

\* An operation on one host: room is made, then its entry is written.
Writes(mac, room, entry) ==
  /\ hosts' = [room EXCEPT ![mac] = entry]
  /\ hosts[mac] # None => Grows(hosts[mac], entry)

\* A host entry stays a HostState, and only grows, through every operation
\* that touches it.
LEMMA EntryType ==
  ASSUME now \in Clock, NEW phase \in Phase
  PROVE  /\ \A hw \in BOOLEAN : NewHost(phase, hw) \in HostState
         /\ \A old \in HostState :
              LET moved == [old EXCEPT !.phase = phase, !.updated = now]
              IN  /\ moved \in HostState
                  /\ Moves(old, phase) => Grows(old, moved)
                  /\ TouchedByInventory(old) \in HostState
                  /\ Grows(old, TouchedByInventory(old))
                  /\ Grows(old, old)
<1>1. \A hw \in BOOLEAN : NewHost(phase, hw) \in HostState
  BY DEF NewHost, HostState
<1>2. ASSUME NEW old \in HostState
      PROVE  /\ [old EXCEPT !.phase = phase, !.updated = now] \in HostState
             /\ TouchedByInventory(old) \in HostState
  BY DEF TouchedByInventory, HostState
<1>3. ASSUME NEW old \in HostState, Moves(old, phase)
      PROVE  Grows(old, [old EXCEPT !.phase = phase, !.updated = now])
  BY <1>3 DEF HostState, Grows, Moves, Phase, Failed, ScriptFetched
<1>4. ASSUME NEW old \in HostState
      PROVE  Grows(old, TouchedByInventory(old)) /\ Grows(old, old)
  BY DEF TouchedByInventory, HostState, Grows, Phase, Failed, ScriptFetched
<1>5. QED
  BY <1>1, <1>2, <1>3, <1>4

\* Every step of the tracker writes one entry, empties the map or leaves it.
LEMMA StepShape ==
  ASSUME TypeOK, Bounded, [Next]_vars
  PROVE  /\ now' \in Clock
         /\ \/ \E mac \in Mac : \E room \in MakeRoom(hosts, mac) :
                 \E entry \in HostState : Writes(mac, room, entry)
            \/ hosts' = [m \in Mac |-> None]
            \/ hosts' = hosts
<1>0. /\ hosts \in HostMap /\ now \in Clock
      /\ Cardinality(Tracked(hosts)) <= MaxTracked
  BY DEF TypeOK, Bounded
<1>1. ASSUME NEW mac \in Mac, NEW phase \in Phase, observe(mac, phase)
      PROVE  \E room \in MakeRoom(hosts, mac) : \E entry \in HostState :
               Writes(mac, room, entry)
  <2>1. PICK room \in MakeRoom(hosts, mac) :
          hosts' = [room EXCEPT ![mac] =
            IF room[mac] = None THEN NewHost(phase, FALSE)
            ELSE IF Moves(room[mac], phase)
                 THEN [room[mac] EXCEPT !.phase = phase, !.updated = now]
                 ELSE room[mac]]
    BY <1>1 DEF observe, Observed
  <2>2. room[mac] = hosts[mac] /\ room[mac] \in HostState \cup {None}
    BY <1>0, RoomMade DEF HostMap
  <2>3. QED
    BY <2>1, <2>2, <1>0, EntryType DEF Writes
<1>2. ASSUME NEW mac \in Mac, NEW version \in Version,
             set_pallet_version(mac, version)
      PROVE  \E room \in MakeRoom(hosts, mac) : \E entry \in HostState :
               Writes(mac, room, entry)
  <2>1. hosts' = [hosts EXCEPT ![mac] =
                    [hosts[mac] EXCEPT !.pallet_version = version]]
    BY <1>2 DEF set_pallet_version
  <2>2. hosts[mac] \in HostState
    BY <1>0, <1>2 DEF set_pallet_version, HostMap
  <2>3. /\ [hosts[mac] EXCEPT !.pallet_version = version] \in HostState
        /\ Grows(hosts[mac], [hosts[mac] EXCEPT !.pallet_version = version])
    BY <2>2, NoneAssumption DEF HostState, Grows, Phase, ScriptFetched, Failed
  <2>4. hosts \in MakeRoom(hosts, mac)
    BY <1>2 DEF MakeRoom, set_pallet_version
  <2>5. QED
    BY <2>1, <2>3, <2>4 DEF Writes
<1>3. ASSUME NEW mac \in Mac, set_inventory(mac)
      PROVE  \E room \in MakeRoom(hosts, mac) : \E entry \in HostState :
               Writes(mac, room, entry)
  <2>1. PICK room \in MakeRoom(hosts, mac) :
          hosts' = [room EXCEPT ![mac] =
            IF room[mac] = None THEN NewHost(Running, TRUE)
                                ELSE TouchedByInventory(room[mac])]
    BY <1>3 DEF set_inventory
  <2>2. room[mac] = hosts[mac] /\ room[mac] \in HostState \cup {None}
    BY <1>0, RoomMade DEF HostMap
  <2>3. Running \in Phase
    BY DEF Running, Phase, ScriptFetched, Failed
  <2>4. QED
    BY <2>1, <2>2, <2>3, <1>0, EntryType DEF Writes
<1>4. now' \in Clock
  BY <1>0 DEF Next, vars, observe, set_pallet_version, set_inventory,
              ClockMoves, Restart
<1>5. QED
  BY <1>1, <1>2, <1>3, <1>4 DEF Next, vars, ClockMoves, Restart

-----------------------------------------------------------------------------
\* The map is always well formed and never outgrows MAX_TRACKED, so neither
\* a fleet larger than the cap nor any order of reports can make it grow.
THEOREM TypeAndBound == Spec => [](TypeOK /\ Bounded)
<1>1. Init => TypeOK /\ Bounded
  <2> SUFFICES ASSUME Init PROVE TypeOK /\ Bounded
    OBVIOUS
  <2>1. TypeOK
    BY DEF Init, TypeOK, HostMap
  <2>2. Tracked(hosts) = {}
    BY DEF Init, Tracked
  <2>3. QED
    BY <2>1, <2>2, FS_EmptySet, MaxTrackedAssumption DEF Bounded
<1>2. TypeOK /\ Bounded /\ [Next]_vars => TypeOK' /\ Bounded'
  <2> SUFFICES ASSUME TypeOK, Bounded, [Next]_vars PROVE TypeOK' /\ Bounded'
    OBVIOUS
  <2>0. /\ hosts \in HostMap /\ now' \in Clock
        /\ Cardinality(Tracked(hosts)) <= MaxTracked
    BY StepShape DEF TypeOK, Bounded
  <2>1. ASSUME NEW mac \in Mac, NEW room \in MakeRoom(hosts, mac),
               NEW entry \in HostState, Writes(mac, room, entry)
        PROVE  hosts' \in HostMap /\ Cardinality(Tracked(hosts')) <= MaxTracked
    BY <2>0, <2>1, PutKeeps DEF Writes
  <2>2. ASSUME hosts' = [m \in Mac |-> None]
        PROVE  hosts' \in HostMap /\ Cardinality(Tracked(hosts')) <= MaxTracked
    <3>1. hosts' \in HostMap /\ Tracked(hosts') = {}
      BY <2>2 DEF HostMap, Tracked
    <3>2. QED
      BY <3>1, FS_EmptySet, MaxTrackedAssumption
  <2>3. hosts' \in HostMap /\ Cardinality(Tracked(hosts')) <= MaxTracked
    BY <2>0, <2>1, <2>2, StepShape
  <2>4. QED
    BY <2>0, <2>3 DEF TypeOK, Bounded
<1>3. QED
  BY <1>1, <1>2, PTL DEF Spec

\* Every entry that observe, set_pallet_version, set_inventory and an eviction
\* leave behind is well formed, and so is the clock they stamp it with.
THEOREM Types == Spec => []TypeOK
BY TypeAndBound, PTL

\* A report that arrives late, twice or out of order never moves a tracked
\* host back, and never costs it its inventory or its served version.
THEOREM Forward == Spec => ForwardOnly
<1>1. ASSUME TypeOK, Bounded, [Next]_vars
      PROVE  \A m \in Tracked(hosts) \cap Tracked(hosts') :
               Grows(hosts[m], hosts'[m])
  <2>0. hosts \in HostMap /\ Cardinality(Tracked(hosts)) <= MaxTracked
    BY <1>1 DEF TypeOK, Bounded
  <2> SUFFICES ASSUME NEW m \in Tracked(hosts), m \in Tracked(hosts')
               PROVE  Grows(hosts[m], hosts'[m])
    OBVIOUS
  <2>1. /\ m \in Mac
        /\ hosts[m] \in HostState
        /\ Grows(hosts[m], hosts[m])
    BY <2>0 DEF Tracked, HostMap, HostState, Grows, Phase, ScriptFetched, Failed
  <2>2. ASSUME NEW mac \in Mac, NEW room \in MakeRoom(hosts, mac),
               NEW entry \in HostState, Writes(mac, room, entry)
        PROVE  Grows(hosts[m], hosts'[m])
    <3>1. /\ room \in HostMap
          /\ \A n \in Tracked(room) : room[n] = hosts[n]
      BY <2>0, RoomMade
    <3>2. CASE m = mac
      <4>1. hosts'[m] = entry /\ hosts[m] # None
        BY <2>1, <2>2, <3>1, <3>2 DEF Writes, HostMap, Tracked
      <4>2. QED
        BY <2>2, <3>2, <4>1 DEF Writes
    <3>3. CASE m # mac
      <4>1. hosts'[m] = room[m] /\ hosts'[m] # None
        BY <2>1, <2>2, <3>1, <3>3 DEF Writes, HostMap, Tracked
      <4>2. hosts'[m] = hosts[m]
        BY <2>1, <3>1, <4>1 DEF Tracked
      <4>3. QED
        BY <2>1, <4>2
    <3>4. QED
      BY <3>2, <3>3
  <2>3. hosts' # [n \in Mac |-> None]
    BY <2>1 DEF Tracked
  <2>4. QED
    BY <1>1, <2>1, <2>2, <2>3, StepShape
<1>2. TypeOK /\ Bounded /\ [Next]_vars =>
        [\A m \in Tracked(hosts) \cap Tracked(hosts') :
           /\ hosts'[m].phase >= hosts[m].phase
           /\ hosts[m].hardware => hosts'[m].hardware
           /\ hosts[m].pallet_version # None => hosts'[m].pallet_version # None
           /\ hosts'[m].first_seen = hosts[m].first_seen]_vars
  BY <1>1 DEF Grows
<1>3. QED
  BY <1>2, TypeAndBound, PTL DEF Spec, ForwardOnly

\* Eviction costs no machine that is still booting while a finished one is
\* remembered, and never more than the stalest one.
THEOREM Eviction == Spec => EvictionSparesInFlight
<1>1. ASSUME TypeOK, Bounded, [Next]_vars
      PROVE  LET dropped == InFlight(hosts) \ Tracked(hosts')
             IN  Tracked(hosts') # {} /\ dropped # {} =>
                   /\ Tracked(hosts) = InFlight(hosts)
                   /\ Cardinality(Tracked(hosts)) = MaxTracked
                   /\ \E m \in Oldest(hosts) : dropped = {m}
  <2> DEFINE dropped == InFlight(hosts) \ Tracked(hosts')
  <2>0. hosts \in HostMap /\ Cardinality(Tracked(hosts)) <= MaxTracked
    BY <1>1 DEF TypeOK, Bounded
  <2> SUFFICES ASSUME Tracked(hosts') # {}, dropped # {}
               PROVE  /\ Tracked(hosts) = InFlight(hosts)
                      /\ Cardinality(Tracked(hosts)) = MaxTracked
                      /\ \E m \in Oldest(hosts) : dropped = {m}
    OBVIOUS
  <2>1. InFlight(hosts) \subseteq Tracked(hosts)
    BY DEF InFlight
  <2>a. PICK mac \in Mac : \E room \in MakeRoom(hosts, mac) :
          \E entry \in HostState : Writes(mac, room, entry)
    <3>1. hosts' # hosts
      BY <2>1
    <3>2. hosts' # [m \in Mac |-> None]
      BY DEF Tracked
    <3>3. QED
      BY <1>1, <3>1, <3>2, StepShape
  <2>2. PICK room \in MakeRoom(hosts, mac), entry \in HostState :
          Writes(mac, room, entry)
    BY <2>a
  <2>3. Tracked(hosts') = Tracked(room) \cup {mac}
    BY <2>0, <2>2, PutKeeps DEF Writes
  <2>4. hosts[mac] = None
    <3>1. SUFFICES ASSUME hosts[mac] # None PROVE FALSE
      OBVIOUS
    <3>2. room = hosts
      BY <2>0, <3>1, RoomMade
    <3>3. QED
      BY <2>1, <2>3, <3>2
  <2>5. mac \notin Tracked(hosts)
    BY <2>4 DEF Tracked
  <2>6. /\ Full(hosts)
        /\ InFlight(hosts) = Tracked(hosts)
        /\ \E m \in Oldest(hosts) : Tracked(room) = Tracked(hosts) \ {m}
    <3>1. ~(Tracked(room) = InFlight(hosts)) /\ room # hosts
      BY <2>1, <2>3
    <3>2. QED
      BY <2>0, <2>4, <3>1, RoomMade
  <2>7. PICK m \in Oldest(hosts) : Tracked(room) = Tracked(hosts) \ {m}
    BY <2>6
  <2>8. dropped = {m}
    BY <2>3, <2>5, <2>6, <2>7 DEF Oldest
  <2>9. Cardinality(Tracked(hosts)) = MaxTracked
    BY <2>0, <2>6, TrackedFinite, MaxTrackedAssumption DEF Full
  <2>10. QED
    BY <2>6, <2>8, <2>9
<1>2. TypeOK /\ Bounded /\ [Next]_vars =>
        [LET dropped == InFlight(hosts) \ Tracked(hosts')
         IN  Tracked(hosts') # {} /\ dropped # {} =>
               /\ Tracked(hosts) = InFlight(hosts)
               /\ Cardinality(Tracked(hosts)) = MaxTracked
               /\ \E m \in Oldest(hosts) : dropped = {m}]_vars
  BY <1>1
<1>3. QED
  BY <1>2, TypeAndBound, PTL DEF Spec, EvictionSparesInFlight

-----------------------------------------------------------------------------
\* The phase BootTimeline sees for each machine.
View(h) == [m \in Mac |-> IF h[m] = None THEN None ELSE h[m].phase]

\* The machines BootTimeline shows are the tracked ones, and those it counts
\* as finished are the tracked ones not in flight.
LEMMA ViewShows ==
  ASSUME NEW h \in HostMap
  PROVE  /\ {m \in Mac : View(h)[m] # None} = Tracked(h)
         /\ {m \in Tracked(h) : View(h)[m] \in {5, 6}} =
              Tracked(h) \ InFlight(h)
BY NoneAssumption DEF View, Tracked, InFlight, IsTerminal, Local, Failed, HostMap,
                      HostState

\* Refinement: every operation of the tracker is one that BootTimeline
\* allows, so a reader of the feed may reason from BootTimeline alone.
THEOREM Refinement == Spec => TimelineSpec
<1>1. Init => Timeline!Init
  BY DEF Init, Timeline!Init
<1>2. ASSUME TypeOK, Bounded, [Next]_vars
      PROVE  Timeline!Next \/ View(hosts') = View(hosts)
  <2>0. /\ hosts \in HostMap
        /\ Cardinality(Tracked(hosts)) <= MaxTracked
    BY <1>2 DEF TypeOK, Bounded
  <2>1. ASSUME NEW mac \in Mac, NEW room \in MakeRoom(hosts, mac),
               NEW entry \in HostState, Writes(mac, room, entry)
        PROVE  Timeline!Next
    <3>0. /\ room \in HostMap
          /\ room[mac] = hosts[mac]
          /\ \A n \in Tracked(room) : room[n] = hosts[n]
          /\ hosts' = [room EXCEPT ![mac] = entry]
          /\ entry.phase \in 0..6
          /\ entry # None
      BY <2>0, <2>1, RoomMade, NoneAssumption
      DEF Writes, HostState, Phase, ScriptFetched, Failed
    <3>1. CASE hosts[mac] # None
      <4>1. room = hosts
        BY <2>0, <3>1, RoomMade
      <4>2. entry.phase >= View(hosts)[mac] /\ View(hosts)[mac] # None
        BY <2>0, <2>1, <3>1, NoneAssumption
        DEF Writes, Grows, View, HostMap, HostState
      <4>3. View(hosts') = [View(hosts) EXCEPT ![mac] = entry.phase]
        BY <3>0, <4>1 DEF View, HostMap
      <4>4. QED
        BY <3>0, <4>2, <4>3 DEF Timeline!Next, Timeline!Advance, View
    <3>2. CASE hosts[mac] = None
      <4> DEFINE gone == Tracked(hosts) \ Tracked(room)
      <4>1. View(hosts)[mac] = None
        BY <3>2 DEF View
      <4>2. View(hosts') = [n \in Mac |-> IF n = mac THEN entry.phase
                                          ELSE IF n \in gone THEN None
                                          ELSE View(hosts)[n]]
        <5>1. \A n \in Mac : n # mac => hosts'[n] = room[n]
          BY <3>0 DEF HostMap
        <5>2. hosts'[mac] = entry
          BY <3>0 DEF HostMap
        <5>3. \A n \in Mac : n \in gone => room[n] = None
          BY DEF Tracked
        <5>4. Tracked(room) \subseteq Tracked(hosts)
          BY <2>0, RoomMade
        <5>5. \A n \in Mac : n \notin gone => room[n] = hosts[n]
          BY <3>0, <5>4 DEF Tracked
        <5>6. QED
          BY <3>0, <5>1, <5>2, <5>3, <5>5 DEF View
      <4>3. gone \in Timeline!Forgettable
        <5>1. Timeline!Shown = Tracked(hosts)
          BY <2>0, ViewShows DEF Timeline!Shown, View
        <5>2. {m \in Timeline!Shown : View(hosts)[m] \in {5, 6}} =
                Tracked(hosts) \ InFlight(hosts)
          BY <2>0, <5>1, ViewShows
        <5>0. \A S : Timeline!Cardinality(S) = Cardinality(S)
          BY DEF Timeline!Cardinality, Cardinality
        <5>3. Timeline!Forgettable =
                IF Cardinality(Tracked(hosts)) < MaxTracked THEN {{}}
                ELSE IF Tracked(hosts) \ InFlight(hosts) # {}
                     THEN {Tracked(hosts) \ InFlight(hosts)}
                ELSE {{m} : m \in Tracked(hosts)}
          BY <5>1, <5>2, <5>0 DEF Timeline!Forgettable, Timeline!Finished, View
        <5>4. InFlight(hosts) \subseteq Tracked(hosts)
          BY DEF InFlight
        <5>5. CASE ~Full(hosts) /\ room = hosts
          BY <5>3, <5>5, TrackedFinite, MaxTrackedAssumption DEF Full
        <5>6. CASE /\ Full(hosts)
                   /\ InFlight(hosts) # Tracked(hosts)
                   /\ Tracked(room) = InFlight(hosts)
          <6>1. ~(Cardinality(Tracked(hosts)) < MaxTracked)
            BY <5>6, TrackedFinite, MaxTrackedAssumption DEF Full
          <6>2. QED
            BY <5>3, <5>4, <5>6, <6>1
        <5>7. CASE /\ Full(hosts)
                   /\ InFlight(hosts) = Tracked(hosts)
                   /\ \E m \in Oldest(hosts) :
                        Tracked(room) = Tracked(hosts) \ {m}
          <6>1. ~(Cardinality(Tracked(hosts)) < MaxTracked)
            BY <5>7, TrackedFinite, MaxTrackedAssumption DEF Full
          <6>2. PICK m \in Oldest(hosts) : Tracked(room) = Tracked(hosts) \ {m}
            BY <5>7
          <6>3. m \in Tracked(hosts) /\ gone = {m}
            BY <6>2 DEF Oldest
          <6>4. QED
            BY <5>3, <5>7, <6>1, <6>3
        <5>8. QED
          BY <2>0, <3>2, <5>5, <5>6, <5>7, RoomMade
      <4> HIDE DEF gone
      <4>4. QED
        BY <3>0, <4>1, <4>2, <4>3 DEF Timeline!Next, Timeline!Appear, View
    <3>3. QED
      BY <3>1, <3>2
  <2>2. ASSUME hosts' = [m \in Mac |-> None] PROVE Timeline!Next
    BY <2>2 DEF Timeline!Next
  <2>3. QED
    BY <1>2, <2>1, <2>2, StepShape
<1>3. TypeOK /\ Bounded /\ [Next]_vars => [Timeline!Next]_(View(hosts))
  BY <1>2 DEF View
<1>4. QED
  BY <1>1, <1>3, TypeAndBound, PTL DEF Spec, TimelineSpec, Timeline!Spec, View
=============================================================================
