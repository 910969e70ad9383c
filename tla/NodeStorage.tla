---------------------------- MODULE NodeStorage ----------------------------
(***************************************************************************)
(* The storage of one node over several boots: what the server or the boot *)
(* media put on the command line, and what stormnetboot-init makes of it   *)
(* (run, resolve_slabs, start_engine, apply_exports and write_identity of  *)
(* crates/stormnetboot-init/src/steps.rs): the slabs it hands the engine,  *)
(* the disk it lets the engine format, the volumes it mounts or registers  *)
(* in the fstab of the new root, and the identity it writes there.         *)
(*                                                                         *)
(* Operators edit configuration, host record and media between boots.  The *)
(* engine and the system that mounts its fstab are external.               *)
(***************************************************************************)
EXTENDS BootLine, FiniteSets

CONSTANTS Configs, Recs, Claims,  \* what a server may render a line from
          MediaLines,   \* what boot media may carry
          Devices,      \* the local devices that lines name as slabs
          RootFs,       \* what the golden is: "erofs", "ext4"
          Appliance,    \* the URI boot-claim answers
          MaxBoots      \* bound on boots

ASSUME StorageAssumption ==
  /\ RootFs \in {"erofs", "ext4"}
  /\ MaxBoots \in Nat
  /\ {Empty, None} \cap (Int \cup {"/dev/ublkb0"}) = {} /\ Empty # None
  /\ Appliance \notin Devices \cup {None}

\* Names and addresses are strings that are not empty, a port has 16 bits.
ASSUME LineAssumption ==
  /\ \A media \in MediaLines : WellFormed(media)
  /\ \A cfg \in Configs :
       /\ WellFormed(cfg.extra_cmdline)
       /\ cfg.local_disk # None => IsDisk(cfg.local_disk)
  /\ \A rec \in Recs :
       rec # None => WellFormed(rec.extra_cmdline) /\ rec.name # Empty
  /\ None \notin Claims
  /\ \A claim \in Claims :
       /\ {claim.address, claim.target} \cap {None, Empty} = {}
       /\ claim.volume # Empty
       /\ claim.port \in 0..(2^16 - 1)
       /\ claim.nsid \in Nat \cup {None}

VARIABLES pc,
          boots,     \* boots left
          request,   \* history: what the line was rendered from, or None
          line,      \* the kernel command line
          slabs,     \* the slabs handed to the engine
          asked,     \* whether this boot asked the appliance
          blind,     \* the devices that could not be probed
          holds,     \* what is on each local device: external
          exported,  \* exported[k]: the volume behind /dev/ublkb(k): external
          root,      \* the new root: its fstab and its hostname
          mounted    \* the volumes mounted, [mnt, volume]

vars == <<pc, boots, request, line, slabs, asked, blind, holds, exported, root,
          mounted>>

params == Parse(line)

FreshRoot == [fstab |-> <<>>, hostname |-> None]
Started == pc \in {"engine", "exports", "switch", "up"}

TypeOK ==
  /\ pc \in {"off", "init", "slabs", "start", "engine", "exports", "switch",
             "up", "held"}
  /\ boots \in 0..MaxBoots
  /\ request = None \/ request.cfg \in Configs
  /\ \A i \in DOMAIN slabs :
       slabs[i] \in (ToSet(params.slabs)
                       \cup {Appliance, NvmeUri(params), params.data_slab}) \ {None}
  /\ asked \in BOOLEAN
  /\ blind \subseteq Devices
  /\ holds \in [Devices -> {"slab", "other", "absent"}]
  /\ DOMAIN exported = 0..(Cardinality(DOMAIN exported) - 1)
  /\ \A i \in DOMAIN root.fstab : root.fstab[i].dev \in Nat
  /\ \A m \in mounted : m.volume \in {exported[k] : k \in DOMAIN exported}

Init ==
  /\ pc = "off"
  /\ boots = MaxBoots
  /\ request = None
  /\ line = <<>>
  /\ slabs = <<>>
  /\ asked = FALSE
  /\ blind = {}
  /\ holds \in [Devices -> {"slab", "other", "absent"}]
  /\ exported = [k \in {0} |-> None]
  /\ root = FreshRoot
  /\ mounted = {}

-----------------------------------------------------------------------------
\* The new root is on a volume that later boots come back to.
Persistent ==
  \/ params.overlay = "disk"
  \/ params.overlay = None /\ RootFs = "ext4"

\* It can be written, if only until the next boot.
Writable == Persistent \/ params.overlay = "tmpfs"

\* The machine starts on some line.  Devices that hold no slab come and go.
PowerOn(newline) ==
  /\ pc = "off" /\ boots > 0
  /\ pc' = "init"
  /\ boots' = boots - 1
  /\ line' = newline
  /\ holds' \in {h \in [Devices -> {"slab", "other", "absent"}] :
                   \A d \in Devices : h[d] = "slab" <=> holds[d] = "slab"}
  /\ UNCHANGED <<slabs, asked, blind, exported, root, mounted>>

\* A server with this configuration runs, and answers with a claim if it is
\* to make one.
BootNetwork ==
  \E cfg \in {c \in Configs : Validate(c)}, rec \in Recs :
    \E claim \in IF ClaimsEnabled(cfg) THEN Claims ELSE {None} :
      /\ request' = [cfg |-> cfg, rec |-> rec, claim |-> claim]
      /\ PowerOn(Render(cfg, rec, claim))

BootMedia ==
  /\ request' = None
  /\ \E media \in MediaLines : PowerOn(media)

Held ==
  /\ pc' = "held"
  /\ UNCHANGED <<boots, request, line, slabs, asked, blind, holds, exported,
                 root, mounted>>

\* check_local_disk, and a root source of any kind.
Prepare ==
  /\ pc = "init"
  /\ LocalDiskAllowed(params)
  /\ IsNetworkBoot(params) \/ params.slabs # <<>>
  /\ pc' = "slabs"
  /\ UNCHANGED <<boots, request, line, slabs, asked, blind, holds, exported,
                 root, mounted>>

\* One of them refuses, or there is no interface for a root on the network.
Refuse ==
  /\ pc = "init"
  /\ ~LocalDiskAllowed(params) \/ IsNetworkBoot(params) \/ params.slabs = <<>>
  /\ Held

\* Mutant: a device that is there is taken for a slab.
IsSlabIfThere(slab) == slab \notin Devices \/ holds[slab] # "absent"

\* A URI is trusted, a device on positive evidence only.
IsSlab(slab) == slab \notin Devices \/ holds[slab] = "slab"

\* The slabs that prove to be some; the probe fails for a device in failed.
Proven(failed) ==
  LET named == params.slabs
  IN  Picked(named, {i \in 1..Len(named) : /\ IsSlab(named[i])
                                           /\ named[i] \notin failed})

\* resolve_slabs: without a complete boothost the slabs as named; with one
\* those that prove to be slabs, and if none does what the appliance says.
ResolveSlabs ==
  /\ pc = "slabs"
  /\ \/ /\ ~BoothostClaim(params)
        /\ slabs' = AllSlabs(params)
        /\ UNCHANGED <<asked, blind>>
     \/ /\ BoothostClaim(params)
        /\ blind' \in SUBSET Devices
        /\ LET local == Proven(blind')
           IN  /\ asked' = (local = <<>>)
               /\ slabs' = WithDataSlab(params,
                             IF local = <<>> THEN <<Appliance>> ELSE local)
  /\ pc' = "start"
  /\ UNCHANGED <<boots, request, line, holds, exported, root, mounted>>

\* The appliance has no image for the machine.
BootClaimFails ==
  /\ pc = "slabs"
  /\ BoothostClaim(params)
  /\ \E failed \in SUBSET Devices : Proven(failed) = <<>>
  /\ Held

\* The engine numbers its exports: root, the image store, and what the
\* --writable flags name, in their order.
Exports(store, args) ==
  LET volumes == <<"root">> \o store \o args
  IN  [k \in 0..(Len(volumes) - 1) |-> volumes[k + 1]]

StartEngine ==
  /\ pc = "start"
  /\ slabs # <<>>
  /\ exported' = Exports(IF params.image_store = None THEN <<>>
                         ELSE <<params.image_store>>,
                         ExportPlan(params).writable_args)
  /\ pc' = "engine"
  /\ UNCHANGED <<boots, request, line, slabs, asked, blind, holds, root,
                 mounted>>

\* No slab, no engine, no root device or no file system on it.
BootFails ==
  /\ pc \in {"start", "engine"}
  /\ Held

\* mount_root: the root as an earlier boot left it, or as the golden is.  The
\* boots of a node whose root is written all come to the same volume: a claim
\* is kept for the retries of a host.
MountRoot ==
  /\ pc = "engine"
  /\ pc' = "exports"
  /\ root' = IF Persistent THEN root ELSE FreshRoot
  /\ UNCHANGED <<boots, request, line, slabs, asked, blind, holds, exported,
                 mounted>>

\* wait_for_block: the places whose device has appeared in time.
Appeared(places, present) ==
  Picked(places, {i \in 1..Len(places) : places[i].dev \in present})

\* apply_exports and write_identity.  Each device is waited for, and what
\* does not appear or does not mount is left out; a root that cannot be
\* written keeps the fstab and the hostname it has, and so it does where a
\* single write fails.
ApplyExports ==
  /\ pc = "exports"
  /\ \E present \in SUBSET (DOMAIN exported),
        name \in {params.hostname, None} :
       LET plan == ExportPlan(params)
           mine == Appeared(plan.mount_map, present)
       IN  /\ mounted' = {[mnt |-> mine[i].mnt, volume |-> exported[mine[i].dev]] :
                            i \in DOMAIN mine}
           /\ root' = IF ~Writable THEN root
                      ELSE [fstab |-> root.fstab
                                    \o Appeared(plan.fstab_writable, present)
                                    \o Appeared(plan.image_store, present),
                            hostname |-> FirstOf(name, root.hostname)]
  /\ pc' = "switch"
  /\ UNCHANGED <<boots, request, line, slabs, asked, blind, holds, exported>>

\* The booted system mounts its fstab: of two lines for one place the first
\* counts, and one whose device is not there is passed over (nofail).
SystemMounts ==
  /\ pc = "switch"
  /\ LET fstab == root.fstab
         first == {i \in DOMAIN fstab :
                     \A j \in 1..(i - 1) : fstab[j].mnt # fstab[i].mnt}
     IN  mounted' = mounted \cup
           {[mnt |-> fstab[i].mnt, volume |-> exported[fstab[i].dev]] :
              i \in {k \in first : fstab[k].dev \in DOMAIN exported}}
  /\ pc' = "up"
  /\ UNCHANGED <<boots, request, line, slabs, asked, blind, holds, exported,
                 root>>

\* The engine has moved everything to the local disk: it is a slab now.
FlowCompletes ==
  /\ Started
  /\ params.local_disk \in Devices
  /\ holds[params.local_disk] # "slab"
  /\ holds' = [holds EXCEPT ![params.local_disk] = "slab"]
  /\ UNCHANGED <<pc, boots, request, line, slabs, asked, blind, exported, root,
                 mounted>>

PowerOff ==
  /\ pc # "off"
  /\ pc' = "off"
  /\ mounted' = {}
  /\ slabs' = <<>> /\ asked' = FALSE /\ blind' = {}
  /\ request' = None
  /\ exported' = [k \in {0} |-> None]
  /\ UNCHANGED <<boots, line, holds, root>>

Next ==
  \/ BootNetwork \/ BootMedia
  \/ Prepare \/ Refuse
  \/ ResolveSlabs \/ BootClaimFails
  \/ StartEngine \/ BootFails
  \/ MountRoot \/ ApplyExports \/ SystemMounts
  \/ FlowCompletes \/ PowerOff

Spec == Init /\ [][Next]_vars

-----------------------------------------------------------------------------
(***************************************************************************)
(* Properties.                                                             *)
(***************************************************************************)

Extra == request.cfg.extra_cmdline \o
         IF request.rec = None THEN <<>> ELSE request.rec.extra_cmdline

RootKeys == {"rd.stormblock.portal", "rd.stormblock.port", "rd.stormblock.nqn",
             "rd.stormblock.nsid", "rd.stormblock.slab",
             "rd.stormblock.boothost", "stormblock.volume"}

Overridden == \E i \in DOMAIN Extra : Extra[i].key \in RootKeys

\* What a server rendered arrives: unless the operator's own tokens name
\* another root, an engine is started only on the claim that was made for
\* this boot, with every part of its address and its volume as claimed, and
\* never on a portal alone; and a root that is not kept between boots has no
\* other name than the record's, or the one the operator's tokens give.
ScriptArrives ==
  Started /\ request # None =>
    /\ Overridden \/
         /\ request.claim # None
         /\ slabs[1] = [portal |-> request.claim.address,
                        port |-> request.claim.port,
                        nqn |-> request.claim.target,
                        nsid |-> IF request.claim.nsid = None THEN 1
                                 ELSE request.claim.nsid]
         /\ params.volume = request.claim.volume
    /\ pc \in {"switch", "up"} /\ ~Persistent /\ root.hostname # None =>
         root.hostname = FirstOf(Value(Extra, "storm.hostname"),
                                 IF request.rec = None THEN None
                                 ELSE request.rec.name)

\* Two names are of one disk.
SameDisk(a, b) == a.family = b.family /\ a.unit = b.unit

\* The engine never runs with a flow-over onto the disk of the data slab,
\* whole or partition, for disks with lettered units and for the numbered
\* families that device_base knows.  The number of any other whole disk it
\* takes for a partition: md0 and md0p1, nbd0 and nbd0p1 get past it.
DataSlabSpared ==
  Started /\ params.local_disk # None /\ params.data_slab # None =>
    \/ ~SameDisk(params.local_disk, params.data_slab)
    \/ ~(Lettered(params.data_slab) \/ KeepsDigits(params.data_slab))

\* With an appliance to ask, no device is handed to the engine as its root
\* that is not a slab, however devices moved about since the boot before; the
\* appliance is asked only if no named device proves to be one, so that a node
\* that has installed itself stops asking.
ApplianceIsFallback ==
  BoothostClaim(params) =>
    /\ pc = "start" =>
         (asked <=> \A d \in ToSet(params.slabs) :
                      d \in Devices /\ (holds[d] # "slab" \/ d \in blind))
    /\ pc = "start" \/ Started =>
         /\ asked => slabs[1] = Appliance
         /\ ~asked => slabs[1] \in ToSet(params.slabs)
         /\ \A d \in ToSet(slabs) \cap Devices :
              holds[d] = "slab" \/ d = params.data_slab

\* The volumes the line names for a place.
NamedFor(mnt) ==
  {e.name : e \in {f \in ToSet(params.writable \o params.mounts) : f.mnt = mnt}}
  \cup IF mnt = ImageStoreMount THEN {params.image_store} ELSE {}

\* Every volume is where the command line puts it: what a booted node has
\* mounted at a place is a volume that this boot's line names for it.  The
\* numbers that init computes before the engine starts are those the engine
\* gives, whatever else is exported and whichever devices are late.
VolumesWhereNamed ==
  \A m \in mounted : m.volume \in NamedFor(m.mnt)
=============================================================================
