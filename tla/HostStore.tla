----------------------------- MODULE HostStore -----------------------------
(***************************************************************************)
(* The host record store (crates/stormnetboot-server/src/hosts.rs, and the *)
(* reload and list endpoints of http.rs): two layers of records behind one *)
(* RwLock, and lookups that ask the cluster layer first.                   *)
(*                                                                         *)
(* The file layer is filled by reload, which the start of the process and  *)
(* every POST to /api/v1/hosts/reload run, the latter concurrently.  It    *)
(* takes the file's modification time, compares it under the read lock,    *)
(* reads and parses the file under no lock, and stores both under the      *)
(* write lock.  Meanwhile somebody edits, truncates or removes the file.   *)
(*                                                                         *)
(* The cluster layer follows the BootHost objects.  How the watch does     *)
(* that is in KubeStore: here an object's change reaches the layer some    *)
(* time later, on its own or with a complete list.                         *)
(***************************************************************************)
EXTENDS Integers, Sequences, FiniteSets

CONSTANTS Mac,         \* MAC addresses
          Rec,         \* what a record says of a host, its address apart
          Contents,    \* the lists of records the file may hold
          Torn,        \* a file caught half written: it does not parse
          Caller,      \* requests to reload that may overlap
          Main,        \* the start of the process
          SameTick,    \* may two edits get one modification time?
          MaxChanges,  \* bound on edits and restarts
          None

ASSUME HostAssumption ==
  /\ IsFiniteSet(Mac)
  /\ Contents \subseteq Seq([mac : Mac, rec : Rec])
  /\ Torn \notin Contents
  /\ Main \notin Caller
  /\ SameTick \in BOOLEAN
  /\ MaxChanges \in Nat
  /\ None \notin Rec \cup Contents \cup {Torn} \cup Nat

Layer == [Mac -> Rec \cup {None}]
Stamp == Nat \cup {None}
File == [content : Contents \cup {Torn}, mtime : Nat]

\* A reload under way.  quiet: the file has not changed since it began.
Call == [pc : {"idle", "compare", "read", "store"}, stamp : Stamp,
         raw : Contents \cup {None}, quiet : BOOLEAN, answer : Nat \cup {None}]

VARIABLES disk,     \* the file, None when there is none: external
          clock,    \* the clock of the file system: external
          file,     \* Loaded.file
          mtime,    \* Loaded.mtime
          cluster,  \* what the BootHost objects say: external
          kube,     \* Loaded.kube
          synced,   \* Loaded.kube_synced
          known,    \* addresses whose object some process has been told of
          call,     \* the reloads
          changes   \* changes left

vars == <<disk, clock, file, mtime, cluster, kube, synced, known, call, changes>>

NoRecords == [m \in Mac |-> None]
Idle == [pc |-> "idle", stamp |-> None, raw |-> None, quiet |-> TRUE,
         answer |-> None]

TypeOK ==
  /\ disk \in File \cup {None}
  /\ clock \in Nat
  /\ file \in Layer
  /\ mtime \in Stamp
  /\ cluster \in Layer
  /\ kube \in Layer
  /\ synced \in BOOLEAN
  /\ known \subseteq Mac
  /\ call \in [Caller \cup {Main} -> Call]
  /\ changes \in 0..MaxChanges

-----------------------------------------------------------------------------
\* The map that collect() makes of a list: of two entries with one address
\* the later one stays.
Records(content) ==
  [m \in Mac |->
     LET at == {i \in 1..Len(content) : content[i].mac = m}
     IN  IF at = {} THEN None
         ELSE content[CHOOSE i \in at : \A j \in at : j <= i].rec]

Size(layer) == Cardinality({m \in Mac : layer[m] # None})

\* The cluster layer answers first; the file only where it is silent.
lookup(m) == IF kube[m] # None THEN kube[m] ELSE file[m]

\* The process serves once the first reload has ended.
Up == call[Main].pc = "idle"

-----------------------------------------------------------------------------
\* The process starts with the first step of from_file's reload.
Stat == IF disk = None THEN None ELSE disk.mtime

Begin(stamp) == [pc |-> "compare", stamp |-> stamp, raw |-> None,
                 quiet |-> TRUE, answer |-> None]

Init ==
  /\ \/ disk = None
     \/ disk \in [content : Contents, mtime : {0}]
  /\ clock = 0
  /\ file = NoRecords
  /\ mtime = None
  /\ cluster \in Layer
  /\ kube = NoRecords
  /\ synced = FALSE
  /\ known = {}
  /\ call = [c \in Caller \cup {Main} |-> IF c = Main THEN Begin(Stat) ELSE Idle]
  /\ changes = MaxChanges

Change ==
  /\ changes > 0
  /\ changes' = changes - 1

Disturbed ==
  [c \in Caller \cup {Main} |->
     IF call[c].pc = "idle" THEN Idle ELSE [call[c] EXCEPT !.quiet = FALSE]]

\* Somebody writes the file, or gets half way; the time it gets is the
\* clock's.
EditFile ==
  /\ Change
  /\ \E content \in Contents \cup {Torn},
        now \in {t \in {clock, clock + 1} : SameTick \/ t > clock} :
       /\ clock' = now
       /\ disk' = [content |-> content, mtime |-> now]
  /\ call' = Disturbed
  /\ UNCHANGED <<file, mtime, cluster, kube, synced, known>>

RemoveFile ==
  /\ Change
  /\ disk # None
  /\ disk' = None
  /\ call' = Disturbed
  /\ UNCHANGED <<clock, file, mtime, cluster, kube, synced, known>>

\* An operator creates, edits or deletes a BootHost.
EditObject(m) ==
  /\ Change
  /\ \E rec \in (Rec \cup {None}) \ {cluster[m]} :
       cluster' = [cluster EXCEPT ![m] = rec]
  /\ known' = known \ {m}
  /\ UNCHANGED <<disk, clock, file, mtime, kube, synced, call>>

\* The process is started again: both layers are empty.
Restart ==
  /\ Change
  /\ file' = NoRecords
  /\ mtime' = None
  /\ kube' = NoRecords
  /\ synced' = FALSE
  /\ call' = [c \in Caller \cup {Main} |->
                IF c = Main THEN Begin(Stat) ELSE Idle]
  /\ UNCHANGED <<disk, clock, cluster, known>>

-----------------------------------------------------------------------------
(***************************************************************************)
(* The cluster layer.                                                      *)
(***************************************************************************)

\* Mutant: a list is merged into the layer.
SetKubeRecordsOver ==
  /\ Up
  /\ kube' = [m \in Mac |-> IF cluster[m] = None THEN kube[m] ELSE cluster[m]]
  /\ synced' = TRUE
  /\ known' = Mac
  /\ UNCHANGED <<disk, clock, file, mtime, cluster, call, changes>>

set_kube_records ==
  /\ Up
  /\ kube' = cluster
  /\ synced' = TRUE
  /\ known' = Mac
  /\ UNCHANGED <<disk, clock, file, mtime, cluster, call, changes>>

\* apply_kube_record and remove_kube_record, after the first list.  Neither
\* looks at the cluster: their guards say when the watch calls them, with one
\* object per address.  Two objects with one address are KubeStore's case.
apply_kube_record(m) ==
  /\ Up /\ synced
  /\ cluster[m] # None
  /\ kube' = [kube EXCEPT ![m] = cluster[m]]
  /\ known' = known \cup {m}
  /\ UNCHANGED <<disk, clock, file, mtime, cluster, synced, call, changes>>

remove_kube_record(m) ==
  /\ Up /\ synced
  /\ cluster[m] = None
  /\ kube' = [kube EXCEPT ![m] = None]
  /\ known' = known \cup {m}
  /\ UNCHANGED <<disk, clock, file, mtime, cluster, synced, call, changes>>

Follow ==
  \/ set_kube_records
  \/ \E m \in Mac : apply_kube_record(m) \/ remove_kube_record(m)

-----------------------------------------------------------------------------
(***************************************************************************)
(* reload.                                                                 *)
(***************************************************************************)

\* The modification time is taken.  A file that is not there has none, and
\* neither has one whose metadata cannot be read.
ReloadBegins(c) ==
  /\ Up
  /\ call[c].pc = "idle"
  /\ \/ call' = [call EXCEPT ![c] = Begin(Stat)] /\ UNCHANGED changes
     \/ call' = [call EXCEPT ![c] = Begin(None)] /\ Change
  /\ UNCHANGED <<disk, clock, file, mtime, cluster, kube, synced, known>>

Answered(c, n) ==
  [call EXCEPT ![c] = [pc |-> "idle", stamp |-> None, raw |-> None,
                       quiet |-> call[c].quiet, answer |-> n]]

\* Mutant: any file that has been loaded once counts as unchanged.
LoadedOnce(c) == call[c].stamp # None /\ mtime # None

\* Under the read lock: nothing to do if the time is the one last stored.
Unchanged(c) == call[c].stamp # None /\ call[c].stamp = mtime

ReloadCompares(c) ==
  /\ call[c].pc = "compare"
  /\ call' = IF Unchanged(c) THEN Answered(c, Size(file))
             ELSE [call EXCEPT ![c].pc = "read"]
  /\ UNCHANGED <<disk, clock, file, mtime, cluster, kube, synced, known, changes>>

\* Mutant: the time is kept although the file did not parse.
ReloadReadsKeepingTime(c) ==
  /\ call[c].pc = "read"
  /\ \/ /\ disk # None /\ disk.content \in Contents
        /\ call' = [call EXCEPT ![c].pc = "store", ![c].raw = disk.content]
        /\ UNCHANGED <<mtime, changes>>
     \/ /\ disk # None
        /\ (disk.content = Torn /\ UNCHANGED changes) \/ Change
        /\ call' = Answered(c, None)
        /\ mtime' = call[c].stamp
     \/ /\ disk = None
        /\ call' = Answered(c, 0)
        /\ UNCHANGED <<mtime, changes>>
  /\ UNCHANGED <<disk, clock, file, cluster, kube, synced, known>>

\* Mutant: whatever is read is taken for a list of records.
ReloadReadsUnparsed(c) ==
  /\ call[c].pc = "read"
  /\ disk # None
  /\ call' = [call EXCEPT ![c].pc = "store", ![c].raw = disk.content]
  /\ UNCHANGED <<disk, clock, file, mtime, cluster, kube, synced, known, changes>>

\* The file is read and parsed.  A file that is not there is an answer of no
\* records, which leaves the layer as it is; a file that cannot be read or
\* does not parse is an error.
ReloadReads(c) ==
  /\ call[c].pc = "read"
  /\ \/ /\ disk # None /\ disk.content \in Contents
        /\ call' = [call EXCEPT ![c].pc = "store", ![c].raw = disk.content]
        /\ UNCHANGED changes
     \/ /\ disk # None
        /\ (disk.content = Torn /\ UNCHANGED changes) \/ Change
        /\ call' = Answered(c, None)
     \/ /\ disk = None
        /\ call' = Answered(c, 0)
        /\ UNCHANGED changes
  /\ UNCHANGED <<disk, clock, file, mtime, cluster, kube, synced, known>>

\* Mutant: the time that is stored is taken after the read.
ReloadStoresLateTime(c) ==
  /\ call[c].pc = "store"
  /\ file' = Records(call[c].raw)
  /\ mtime' = Stat
  /\ call' = Answered(c, Len(call[c].raw))
  /\ UNCHANGED <<disk, clock, cluster, kube, synced, known, changes>>

\* Under the write lock, whatever another reload has stored by now.
ReloadStores(c) ==
  /\ call[c].pc = "store"
  /\ file' = Records(call[c].raw)
  /\ mtime' = call[c].stamp
  /\ call' = Answered(c, Len(call[c].raw))
  /\ UNCHANGED <<disk, clock, cluster, kube, synced, known, changes>>

Reload(c) == ReloadCompares(c) \/ ReloadReads(c) \/ ReloadStores(c)

Next ==
  \/ EditFile \/ RemoveFile \/ Restart
  \/ \E m \in Mac : EditObject(m)
  \/ Follow
  \/ \E c \in Caller : ReloadBegins(c)
  \/ \E c \in Caller \cup {Main} : Reload(c)

Spec == Init /\ [][Next]_vars

\* A reload that has begun goes on; nobody has to ask for one.
FairSpec == Spec /\ \A c \in Caller \cup {Main} : WF_vars(Reload(c))

-----------------------------------------------------------------------------
(***************************************************************************)
(* Properties.                                                             *)
(***************************************************************************)

\* The layer is what the file holds.
InStep == disk # None /\ disk.content # Torn /\ file = Records(disk.content)

\* The modification time that reload stores vouches for the records stored
\* with it: while it is the file's, the layer is the file's, so that the
\* reload which returns early has nothing to do.  However many reloads
\* overlap, and whatever happens to the file between the moment one takes
\* the time and the moment it reads; for a clock that tells edits apart.
StampVouches == disk # None /\ mtime = disk.mtime => InStep

\* A reload that answers a number of records, with a file that has not
\* changed since it began, leaves the layer as the file is at that moment:
\* no edit is missed by the comparison of times, by a reload that ran beside
\* it, or because an attempt before it failed.
ReloadCatchesUp ==
  [][\A c \in Caller \cup {Main} :
       /\ call[c].pc # "idle" /\ call'[c].pc = "idle"
       /\ call'[c].answer # None /\ call'[c].quiet /\ disk' # None
       => InStep']_vars

\* A reload can be undone by one that began before it and stores after it,
\* which brings back the records of an older file.  That does not last: if
\* reloads keep being asked for, the layer settles on the last file.
LayerSettles ==
  []<>(\E c \in Caller : call[c].pc = "compare") =>
    <>[](disk # None /\ disk.content # Torn => InStep)

\* After the first complete list, and for what the watch has passed on, an
\* address is answered by its object, and by the file only where no object
\* has it: an object's deletion lets the file take over.
ClusterFirst ==
  Up /\ synced =>
    \A m \in known :
      lookup(m) = IF cluster[m] # None THEN cluster[m] ELSE file[m]
=============================================================================
