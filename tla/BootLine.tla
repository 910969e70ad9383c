------------------------------ MODULE BootLine ------------------------------
(***************************************************************************)
(* The kernel command line, from the server that renders it to the init    *)
(* that reads it: BootPlan::resolve and cmdline of crates/stormnetboot-    *)
(* server/src/ipxe.rs, the claim that boot_script puts into the plan,      *)
(* validate of config.rs, and BootParams of crates/stormnetboot-init/src/  *)
(* cmdline.rs with the decisions that are functions of it alone.           *)
(*                                                                         *)
(* A line is a sequence of tokens [key, value].  The name of a disk is     *)
(* [family, unit, part]: /dev/sda2 is of family "sd" with unit "a" and     *)
(* part 2, /dev/nvme0n1p2 of family "nvme" with unit 1 and part 2, a whole *)
(* disk has part 0; aliases of a disk, as under /dev/disk or /dev/mapper,  *)
(* are left out.  An nvme-tcp:// URI is a record of what it is made of.    *)
(***************************************************************************)
EXTENDS Integers, Sequences, SequencesExt

CONSTANTS Empty,  \* the value of a token key=
          None

ImageStoreMount == "/var/lib/stormcos/image-store"

-----------------------------------------------------------------------------
(***************************************************************************)
(* The server.                                                             *)
(***************************************************************************)

\* Config::validate, as far as claims go: no claims without something to
\* claim from and something to clone.
Validate(cfg) == cfg.claim => cfg.registry /\ cfg.golden

ClaimsEnabled(cfg) == cfg.claim /\ cfg.registry /\ cfg.golden

(***************************************************************************)
(* What a line is made of: no token is without a value, lists are lists,   *)
(* and what is named as a disk is one.                                     *)
(***************************************************************************)

IsSeq(s) == s \in Seq(ToSet(s))

IsDisk(dev) ==
  dev = [family |-> dev.family, unit |-> dev.unit, part |-> dev.part]

IsToken(t) ==
  /\ t.value # None
  /\ t.value # Empty =>
       /\ t.key = "rd.stormblock.slab" =>
            IsSeq(t.value) /\ None \notin ToSet(t.value)
       /\ t.key \in {"rd.stormblock.writable", "rd.stormblock.mount"} =>
            IsSeq(t.value)
       /\ t.key \in {"rd.stormblock.local-disk", "rd.stormblock.data-slab"} =>
            IsDisk(t.value)

WellFormed(line) == IsSeq(line) /\ \A t \in ToSet(line) : IsToken(t)

Token(key, value) == [key |-> key, value |-> value]

Given(key, value) == IF value = None THEN <<>> ELSE <<Token(key, value)>>

FirstOf(a, b) == IF a # None THEN a ELSE b

\* Mutant: the claim's portal, but the configured port.
RootTokensPort(cfg, rec, claim) ==
  LET own == FirstOf(IF rec = None THEN None ELSE rec.portal, cfg.portal)
      portal == IF claim = None THEN own ELSE claim.address
  IN  IF portal = None THEN <<>>
      ELSE Given("rd.stormblock.portal", portal)
             \o Given("rd.stormblock.port", cfg.portal_port)
             \o (IF claim = None THEN <<>>
                 ELSE Given("rd.stormblock.nqn", claim.target)
                        \o Given("rd.stormblock.nsid", claim.nsid)
                        \o Given("stormblock.volume", claim.volume))
             \o <<Token("root", "/dev/ublkb0")>>

\* Where root comes from: the claim, and else a portal, the record's before
\* the server's.  Without a portal nothing is said at all.
RootTokens(cfg, rec, claim) ==
  LET own == FirstOf(IF rec = None THEN None ELSE rec.portal, cfg.portal)
      portal == IF claim = None THEN own ELSE claim.address
  IN  IF portal = None THEN <<>>
      ELSE Given("rd.stormblock.portal", portal)
             \o Given("rd.stormblock.port",
                      IF claim = None THEN cfg.portal_port ELSE claim.port)
             \o (IF claim = None THEN <<>>
                 ELSE Given("rd.stormblock.nqn", claim.target)
                        \o Given("rd.stormblock.nsid", claim.nsid)
                        \o Given("stormblock.volume", claim.volume))
             \o <<Token("root", "/dev/ublkb0")>>

\* The line of one host: root, flow-over target, identity, and what the
\* operator adds for all hosts and then for this one.
Render(cfg, rec, claim) ==
  RootTokens(cfg, rec, claim)
    \o Given("rd.stormblock.local-disk", cfg.local_disk)
    \o (IF rec = None THEN <<>>
        ELSE Given("storm.hostname", rec.name) \o Given("storm.role", rec.role))
    \o cfg.extra_cmdline
    \o (IF rec = None THEN <<>> ELSE rec.extra_cmdline)

-----------------------------------------------------------------------------
(***************************************************************************)
(* The initramfs.                                                          *)
(***************************************************************************)

\* The last token with the key counts; key= is passed over.
Value(line, key) ==
  LET at == {i \in 1..Len(line) : line[i].key = key /\ line[i].value # Empty}
  IN  IF at = {} THEN None ELSE line[Max(at)].value

\* A number that does not parse, or does not fit, unsets what came before.
\* A namespace number is of 32 bits, more than any line here has.
Number(value, range) ==
  IF value # None /\ value \in range THEN value ELSE None

\* The lists at the positions in at, one after the other.
Joined(lists, at) ==
  LET upTo[i \in 0..Len(lists)] ==
        IF i = 0 THEN <<>>
        ELSE IF i \in at THEN upTo[i - 1] \o lists[i] ELSE upTo[i - 1]
  IN  upTo[Len(lists)]

\* The elements of s at the positions in at.
Picked(s, at) == Joined([i \in 1..Len(s) |-> <<s[i]>>], at)

\* A list of name[:/mount] entries, the empty ones left out.  An entry with
\* a colon and nothing before or after it keeps the name and has no mount.
ParseNamedMounts(entries) ==
  LET kept == Picked(entries, {i \in 1..Len(entries) : entries[i].name # ""
                                                       \/ entries[i].colon})
  IN  [i \in 1..Len(kept) |->
         [name |-> kept[i].name,
          mnt |-> IF kept[i].colon /\ kept[i].name # "" /\ kept[i].mnt # ""
                  THEN kept[i].mnt ELSE None]]

Entries(line, key) ==
  IF Value(line, key) = None THEN <<>> ELSE ParseNamedMounts(Value(line, key))

\* rd.stormblock.slab adds up over all its tokens.
Slabs(line) ==
  Joined([i \in 1..Len(line) |-> line[i].value],
         {i \in 1..Len(line) : /\ line[i].key = "rd.stormblock.slab"
                               /\ line[i].value # Empty})

\* A volume without a place to mount it is left out.
WithPlace(entries) ==
  Picked(entries, {i \in 1..Len(entries) : entries[i].mnt # None})

Parse(line) ==
  [portal      |-> Value(line, "rd.stormblock.portal"),
   port        |-> Number(Value(line, "rd.stormblock.port"), 0..(2^16 - 1)),
   nqn         |-> Value(line, "rd.stormblock.nqn"),
   nsid        |-> Number(Value(line, "rd.stormblock.nsid"), Nat),
   volume      |-> Value(line, "stormblock.volume"),
   local_disk  |-> Value(line, "rd.stormblock.local-disk"),
   slabs       |-> Slabs(line),
   data_slab   |-> Value(line, "rd.stormblock.data-slab"),
   boothost    |-> Value(line, "rd.stormblock.boothost"),
   tag         |-> Value(line, "rd.stormblock.tag"),
   image_store |-> Value(line, "rd.stormblock.image-store"),
   overlay     |-> Value(line, "rd.stormblock.overlay"),
   writable    |-> Entries(line, "rd.stormblock.writable"),
   mounts      |-> WithPlace(Entries(line, "rd.stormblock.mount")),
   hostname    |-> Value(line, "storm.hostname"),
   role        |-> Value(line, "storm.role")]

\* None unless portal, port and NQN are all there.
NvmeUri(p) ==
  IF p.portal = None \/ p.port = None \/ p.nqn = None THEN None
  ELSE [portal |-> p.portal, port |-> p.port, nqn |-> p.nqn,
        nsid |-> IF p.nsid = None THEN 1 ELSE p.nsid]

BoothostClaim(p) == p.boothost # None /\ p.tag # None

IsNetworkBoot(p) == NvmeUri(p) # None \/ BoothostClaim(p)

\* Mutant: the data slab is added whether or not there is one.
WithDataSlabAlways(p, slabs) == Append(slabs, p.data_slab)

\* The data slab comes last, unless it is one of the others.
WithDataSlab(p, slabs) ==
  slabs \o IF p.data_slab = None \/ Contains(slabs, p.data_slab) THEN <<>>
           ELSE <<p.data_slab>>

\* Every slab named, the root source first.
AllSlabs(p) ==
  WithDataSlab(p, (IF NvmeUri(p) = None THEN <<>> ELSE <<NvmeUri(p)>>) \o p.slabs)

-----------------------------------------------------------------------------
\* Mutant: the image store's device is not counted.
DeviceOfShifted(p, i) == i

\* The device of the i-th volume that is exported beside root and image
\* store.
DeviceOf(p, i) == (IF p.image_store = None THEN 0 ELSE 1) + i

\* The volumes after the first n, each where it appears and where it goes.
Placed(p, volumes, n) ==
  WithPlace([j \in 1..Len(volumes) |->
               [dev |-> DeviceOf(p, n + j), mnt |-> volumes[j].mnt]])

\* ublkb0 is root and ublkb1 the image store, if there is one; writables and
\* then mounts follow in order.
ExportPlan(p) ==
  LET all == p.writable \o p.mounts
  IN  [writable_args |-> [i \in 1..Len(all) |-> all[i].name],
       fstab_writable |-> Placed(p, p.writable, 0),
       mount_map |-> Placed(p, p.mounts, Len(p.writable)),
       image_store |-> IF p.image_store = None THEN <<>>
                       ELSE <<[dev |-> 1, mnt |-> ImageStoreMount]>>]

-----------------------------------------------------------------------------
\* The units of these families are letters and a partition is digits; those
\* of every other family are numbers, and a partition is a p and digits.
Lettered(dev) == dev.family \in {"sd", "vd", "hd", "xvd"}

\* The numbered families that device_base knows.
KeepsDigits(dev) == dev.family \in {"nvme", "mmcblk", "loop"}

\* Mutant: trailing digits are trimmed whatever they belong to.
DeviceBaseTrimmed(dev) ==
  IF Lettered(dev) \/ dev.part # 0 THEN [dev EXCEPT !.part = 0]
  ELSE [dev EXCEPT !.unit = None]

\* device_base: a partition suffix goes.  Trailing digits that are none are
\* kept for the families it knows; the whole disk of another numbered family
\* (md, nbd, ublkb, dm) loses its number with them.
DeviceBase(dev) ==
  IF Lettered(dev) \/ dev.part # 0 THEN [dev EXCEPT !.part = 0]
  ELSE IF KeepsDigits(dev) THEN dev
  ELSE [dev EXCEPT !.unit = None]

\* check_local_disk.
LocalDiskAllowed(p) ==
  p.local_disk # None /\ p.data_slab # None =>
    DeviceBase(p.local_disk) # DeviceBase(p.data_slab)
=============================================================================
