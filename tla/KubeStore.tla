----------------------------- MODULE KubeStore -----------------------------
(***************************************************************************)
(* BootHost objects and the server (crates/stormnetboot-server/src/        *)
(* kube_store.rs, the cluster layer of hosts.rs, and desired_status and    *)
(* to_record of boothost.rs).                                              *)
(*                                                                         *)
(* Three parties run concurrently.  The cluster holds the objects, which   *)
(* operators edit, and queues an event for the watch at each change.  The  *)
(* watch task applies the events, in order, to the index and to the layer  *)
(* of host records that boot requests are answered from.  The status       *)
(* writer passes over a snapshot of the index and patches every object     *)
(* whose status is not the one it should have.                             *)
(*                                                                         *)
(* A status is [phase, conditions]: phase stands for the optional fields,  *)
(* which are left out of a patch when they are None, and conditions for    *)
(* the list that every patch carries in full, by what it is derived from.  *)
(***************************************************************************)
EXTENDS Integers, Sequences, FiniteSets

CONSTANTS Mac,         \* MAC addresses
          BadMac,      \* a bootMACAddress that does not parse
          ListOrder,   \* the names of all objects, in the order a list has
          MacsOf,      \* MacsOf[o]: the addresses object o may be given
          Phase,       \* what has been observed of a booting machine
          MaxPatches,  \* MAX_PATCHES_PER_PASS
          MaxChanges,  \* bound on what operators, machines and faults do
          None

Object == {ListOrder[i] : i \in 1..Len(ListOrder)}

Conditions == [phase : Phase \cup {None}, online : BOOLEAN]
Status == [phase : Phase \cup {None}, conditions : Conditions \cup {None}]
BootHost == [name : Object, mac : Mac \cup {BadMac}, online : BOOLEAN,
             status : Status]
Record == [object : Object, online : BOOLEAN]

ASSUME KubeAssumption ==
  /\ ListOrder \in Seq(Object)
  /\ BadMac \notin Mac
  /\ MacsOf \in [Object -> SUBSET (Mac \cup {BadMac})]
  /\ None \notin Mac \cup Object \cup Phase \cup BootHost \cup Record
  /\ MaxPatches \in Nat \ {0}
  /\ MaxChanges \in Nat

VARIABLES cluster,    \* the BootHost objects: external
          queue,      \* events on their way to the watch: external
          relisting,  \* objects of the list being received
          index,      \* BootHostIndex.objects
          kube,       \* Loaded.kube
          synced,     \* Loaded.kube_synced
          observed,   \* the phase boot.get(mac) returns, or None
          writer,     \* reconcile_status in progress
          changes     \* changes left

vars == <<cluster, queue, relisting, index, kube, synced, observed, writer,
          changes>>

Event == [kind : {"Init", "InitApply", "InitDone", "Apply", "Delete"},
          object : BootHost \cup {None}]
Entry == [mac : Mac, object : BootHost]
PatchInFlight == [mac : Mac, name : Object, desired : Status,
                  answer : {"none", "ok", "error"}]
Writer == [pc : {"sleep", "pass"}, todo : SUBSET Entry, written : Nat,
           patch : PatchInFlight \cup {None}]

NoStatus == [phase |-> None, conditions |-> None]
Asleep == [pc |-> "sleep", todo |-> {}, written |-> 0, patch |-> None]

TypeOK ==
  /\ cluster \in [Object -> BootHost \cup {None}]
  /\ queue \in Seq(Event)
  /\ relisting \in Seq(BootHost)
  /\ index \in [Mac -> BootHost \cup {None}]
  /\ kube \in [Mac -> Record \cup {None}]
  /\ synced \in BOOLEAN
  /\ observed \in [Mac -> Phase \cup {None}]
  /\ writer.pc \in {"sleep", "pass"}
  /\ \A e \in writer.todo : e \in Entry
  /\ writer.written \in 0..MaxPatches
  /\ writer.patch \in PatchInFlight \cup {None}
  /\ changes \in 0..MaxChanges

-----------------------------------------------------------------------------
EventOf(kind, object) == [kind |-> kind, object |-> object]

\* What a list brings: the objects there are at that moment, in its order.
Listing ==
  LET upTo[i \in 0..Len(ListOrder)] ==
        IF i = 0 THEN <<>>
        ELSE IF cluster[ListOrder[i]] = None THEN upTo[i - 1]
             ELSE Append(upTo[i - 1],
                         EventOf("InitApply", cluster[ListOrder[i]]))
  IN  upTo[Len(ListOrder)]

\* The events of a relist.
Relist == <<EventOf("Init", None)>> \o Listing \o <<EventOf("InitDone", None)>>

Init ==
  /\ cluster \in [Object -> {None} \cup {h \in BootHost : h.status = NoStatus}]
  /\ \A o \in Object : cluster[o] # None => /\ cluster[o].name = o
                                           /\ cluster[o].mac \in MacsOf[o]
  /\ queue = Relist
  /\ relisting = <<>>
  /\ index = [m \in Mac |-> None]
  /\ kube = [m \in Mac |-> None]
  /\ synced = FALSE
  /\ observed = [m \in Mac |-> None]
  /\ writer = Asleep
  /\ changes = MaxChanges

Change ==
  /\ changes > 0
  /\ changes' = changes - 1

-----------------------------------------------------------------------------
(***************************************************************************)
(* Operators, machines and faults.                                         *)
(***************************************************************************)

\* An object is created, or its spec is edited.
PutObject(o) ==
  /\ Change
  /\ \E mac \in MacsOf[o], online \in BOOLEAN :
       LET new == [name |-> o, mac |-> mac, online |-> online,
                   status |-> IF cluster[o] = None THEN NoStatus
                              ELSE cluster[o].status]
       IN  /\ new # cluster[o]
           /\ cluster' = [cluster EXCEPT ![o] = new]
           /\ queue' = Append(queue, EventOf("Apply", new))
  /\ UNCHANGED <<relisting, index, kube, synced, observed, writer>>

DeleteObject(o) ==
  /\ Change
  /\ cluster[o] # None
  /\ cluster' = [cluster EXCEPT ![o] = None]
  /\ queue' = Append(queue, EventOf("Delete", cluster[o]))
  /\ UNCHANGED <<relisting, index, kube, synced, observed, writer>>

\* A machine reports, and the boot state moves.
Report(m) ==
  /\ Change
  /\ \E phase \in Phase \ {observed[m]} :
       observed' = [observed EXCEPT ![m] = phase]
  /\ UNCHANGED <<cluster, queue, relisting, index, kube, synced, writer>>

\* The watch is cut off, or its stream ends: what was under way is lost and
\* the objects are listed again.
Desync ==
  /\ Change
  /\ queue' = Relist
  /\ UNCHANGED <<cluster, relisting, index, kube, synced, observed, writer>>

\* The server restarts.
Restart ==
  /\ Change
  /\ queue' = Relist
  /\ relisting' = <<>>
  /\ index' = [m \in Mac |-> None]
  /\ kube' = [m \in Mac |-> None]
  /\ synced' = FALSE
  /\ observed' = [m \in Mac |-> None]
  /\ writer' = Asleep
  /\ UNCHANGED cluster

-----------------------------------------------------------------------------
(***************************************************************************)
(* The watch task.                                                         *)
(***************************************************************************)

\* to_record: None when the address does not parse.
to_record(object) ==
  IF object.mac = BadMac THEN None
  ELSE [object |-> object.name, online |-> object.online]

Received(kind) == queue # <<>> /\ Head(queue).kind = kind

\* The last object of the list that has address m.
LastWith(objects, m) ==
  LET at == {i \in 1..Len(objects) : objects[i].mac = m}
  IN  IF at = {} THEN None
      ELSE objects[CHOOSE i \in at : \A j \in at : j <= i]

\* Mutant: the list is applied over the layer instead of replacing it.
ListedOver(m) ==
  IF LastWith(relisting, m) = None THEN index[m] ELSE LastWith(relisting, m)

\* What a relist leaves for m.
Listed(m) == LastWith(relisting, m)

WatchInit ==
  /\ Received("Init")
  /\ relisting' = <<>>
  /\ queue' = Tail(queue)
  /\ UNCHANGED <<cluster, index, kube, synced, observed, writer, changes>>

WatchInitApply ==
  /\ Received("InitApply")
  /\ relisting' = Append(relisting, Head(queue).object)
  /\ queue' = Tail(queue)
  /\ UNCHANGED <<cluster, index, kube, synced, observed, writer, changes>>

\* InitDone: BootHostIndex.reset and set_kube_records.
reset ==
  /\ Received("InitDone")
  /\ index' = [m \in Mac |-> Listed(m)]
  /\ kube' = [m \in Mac |-> IF Listed(m) = None THEN None
                            ELSE to_record(Listed(m))]
  /\ synced' = TRUE
  /\ relisting' = <<>>
  /\ queue' = Tail(queue)
  /\ UNCHANGED <<cluster, observed, writer, changes>>

\* BootHostIndex.apply and apply_kube_record.
apply ==
  /\ Received("Apply")
  /\ LET object == Head(queue).object IN
       IF to_record(object) = None THEN UNCHANGED <<index, kube>>
       ELSE /\ index' = [index EXCEPT ![object.mac] = object]
            /\ kube' = [kube EXCEPT ![object.mac] = to_record(object)]
  /\ queue' = Tail(queue)
  /\ UNCHANGED <<cluster, relisting, synced, observed, writer, changes>>

\* BootHostIndex.delete and remove_kube_record: by address alone.
delete ==
  /\ Received("Delete")
  /\ LET object == Head(queue).object IN
       IF to_record(object) = None THEN UNCHANGED <<index, kube>>
       ELSE /\ index' = [index EXCEPT ![object.mac] = None]
            /\ kube' = [kube EXCEPT ![object.mac] = None]
  /\ queue' = Tail(queue)
  /\ UNCHANGED <<cluster, relisting, synced, observed, writer, changes>>

Watch == WatchInit \/ WatchInitApply \/ reset \/ apply \/ delete

-----------------------------------------------------------------------------
(***************************************************************************)
(* The status writer.                                                      *)
(***************************************************************************)

\* desired_status, from the observation and the object of the snapshot.  Any
\* edit of the spec shows in the conditions, by their observedGeneration.  The
\* writer waits for the claims between the observation and the patch; what it
\* observed may be old when it is sent, as it may be when it is applied.
DesiredStatus(m, object) ==
  [phase |-> observed[m],
   conditions |-> [phase |-> observed[m], online |-> object.online]]

\* Mutant: a status the watch has not shown us yet is written again.
NeedsPatchAlways(e) == TRUE

\* The writer compares, and skips what needs no patch.
NeedsPatch(e) == e.object.status # DesiredStatus(e.mac, e.object)

\* Mutant: the cap ends the writer, not the pass.
PassBeginsOnce ==
  /\ writer.pc = "sleep" /\ writer.written < MaxPatches
  /\ writer' = [pc |-> "pass", written |-> writer.written, patch |-> None,
                todo |-> {[mac |-> m, object |-> index[m]] :
                            m \in {k \in Mac : index[k] # None}}]
  /\ UNCHANGED <<cluster, queue, relisting, index, kube, synced, observed,
                 changes>>

\* index.snapshot().
PassBegins ==
  /\ writer.pc = "sleep"
  /\ writer' = [pc |-> "pass", written |-> 0, patch |-> None,
                todo |-> {[mac |-> m, object |-> index[m]] :
                            m \in {k \in Mac : index[k] # None}}]
  /\ UNCHANGED <<cluster, queue, relisting, index, kube, synced, observed,
                 changes>>

Skip(e) ==
  /\ e \in writer.todo /\ writer.patch = None
  /\ writer.written < MaxPatches
  /\ ~NeedsPatch(e)
  /\ writer' = [writer EXCEPT !.todo = @ \ {e}]
  /\ UNCHANGED <<cluster, queue, relisting, index, kube, synced, observed,
                 changes>>

\* Mutant: the cap on the patches of a pass is not looked at.
SendPatchUncapped(e) ==
  /\ e \in writer.todo /\ writer.patch = None
  /\ NeedsPatch(e)
  /\ writer' = [writer EXCEPT
                  !.todo = @ \ {e},
                  !.patch = [mac |-> e.mac, name |-> e.object.name,
                             desired |-> DesiredStatus(e.mac, e.object),
                             answer |-> "none"]]
  /\ UNCHANGED <<cluster, queue, relisting, index, kube, synced, observed,
                 changes>>

SendPatch(e) ==
  /\ e \in writer.todo /\ writer.patch = None
  /\ writer.written < MaxPatches
  /\ NeedsPatch(e)
  /\ writer' = [writer EXCEPT
                  !.todo = @ \ {e},
                  !.patch = [mac |-> e.mac, name |-> e.object.name,
                             desired |-> DesiredStatus(e.mac, e.object),
                             answer |-> "none"]]
  /\ UNCHANGED <<cluster, queue, relisting, index, kube, synced, observed,
                 changes>>

\* The pass is over, or has written its fill.
PassEnds ==
  /\ writer.pc = "pass" /\ writer.patch = None
  /\ writer.todo = {} \/ writer.written >= MaxPatches
  /\ writer' = [writer EXCEPT !.pc = "sleep", !.todo = {}]
  /\ UNCHANGED <<cluster, queue, relisting, index, kube, synced, observed,
                 changes>>

\* A merge patch: a field that is left out keeps the value it had.
Merged(old, new) ==
  [phase |-> IF new.phase = None THEN old.phase ELSE new.phase,
   conditions |-> new.conditions]

Unanswered == writer.patch # None /\ writer.patch.answer = "none"

\* The API server applies the patch.  A patch that changes nothing makes no
\* event.  The answer may be lost on its way back.
PatchApplied ==
  /\ Unanswered
  /\ LET o == writer.patch.name IN
       /\ cluster[o] # None
       /\ LET new == [cluster[o] EXCEPT
                        !.status = Merged(@, writer.patch.desired)]
          IN  IF new = cluster[o] THEN UNCHANGED <<cluster, queue>>
              ELSE /\ cluster' = [cluster EXCEPT ![o] = new]
                   /\ queue' = Append(queue, EventOf("Apply", new))
  /\ \/ /\ writer' = [writer EXCEPT !.patch.answer = "ok"]
        /\ UNCHANGED changes
     \/ /\ Change
        /\ writer' = [writer EXCEPT !.patch.answer = "error"]
  /\ UNCHANGED <<relisting, index, kube, synced, observed>>

\* The object is gone, or the API server does not take the patch.
PatchRefused ==
  /\ Unanswered
  /\ \/ cluster[writer.patch.name] = None /\ UNCHANGED changes
     \/ cluster[writer.patch.name] # None /\ Change
  /\ writer' = [writer EXCEPT !.patch.answer = "error"]
  /\ UNCHANGED <<cluster, queue, relisting, index, kube, synced, observed>>

\* note_status, on whatever object the index holds for the address by now.
PatchNoted ==
  /\ writer.patch # None /\ writer.patch.answer = "ok"
  /\ index' = [index EXCEPT ![writer.patch.mac] =
                 IF @ = None THEN None
                 ELSE [@ EXCEPT !.status = writer.patch.desired]]
  /\ writer' = [writer EXCEPT !.patch = None, !.written = @ + 1]
  /\ UNCHANGED <<cluster, queue, relisting, kube, synced, observed, changes>>

PatchFailed ==
  /\ writer.patch # None /\ writer.patch.answer = "error"
  /\ writer' = [writer EXCEPT !.patch = None]
  /\ UNCHANGED <<cluster, queue, relisting, index, kube, synced, observed,
                 changes>>

Write ==
  \/ PassBegins \/ PassEnds
  \/ \E e \in writer.todo : Skip(e) \/ SendPatch(e)
  \/ PatchNoted \/ PatchFailed

ApiServer == PatchApplied \/ PatchRefused

Environment ==
  \/ \E o \in Object : PutObject(o) \/ DeleteObject(o)
  \/ \E m \in Mac : Report(m)
  \/ Desync
  \/ Restart

Next == Watch \/ Write \/ ApiServer \/ Environment

Spec == Init /\ [][Next]_vars

\* The two tasks run for ever; the API server delivers the events of a watch
\* and answers a patch.
FairSpec ==
  Spec /\ WF_vars(Watch) /\ WF_vars(Write) /\ WF_vars(ApiServer)

-----------------------------------------------------------------------------
(***************************************************************************)
(* Properties.                                                             *)
(***************************************************************************)

\* Once the watch has listed the cluster and has nothing left to apply, the
\* layer that boot requests are answered from is the cluster's: it has a
\* record for every address an object has, of an object that is there, with
\* the spec that object has.  Lost events, relists and restarts included.
LayerIsCurrent ==
  synced /\ queue = <<>> =>
    \A m \in Mac :
      IF kube[m] = None
      THEN \A o \in Object : cluster[o] # None => cluster[o].mac # m
      ELSE LET o == kube[m].object
           IN  /\ cluster[o] # None
               /\ cluster[o].mac = m
               /\ cluster[o].online = kube[m].online

\* The writer comes to rest: when operators, machines and faults have done
\* what they will, it stops writing, and does not answer the echoes of its
\* own patches with further patches.
WriterRests == <>[](writer.patch = None)

\* An object that stays gets, in the end, the conditions of the machine it
\* names, through failed patches, lost events and restarts, and however few
\* patches a pass may write.
StatusArrives ==
  \A o \in Object :
    [](cluster[o] # None) =>
      <>[](cluster[o] # None /\ cluster[o].mac \in Mac =>
             cluster[o].status.conditions =
               [phase |-> observed[cluster[o].mac], online |-> cluster[o].online])
=============================================================================
