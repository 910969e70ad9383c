# stormnetboot in TLA+

stormnetboot boots a fleet of machines over the network from a boot pallet in a
registry, gives each machine a root volume of its own, and watches it until it
runs from its local disk. This directory models the parts of it that keep state,
run concurrently or can be interrupted, checks them with TLC on small instances,
and proves with TLAPS, for every value of the constants, the type invariant and
the safety and action properties of every one of these parts.

## 1. The system

Three programs share one protocol.

| part | source | state | operations |
|---|---|---|---|
| phase tracker | `server/state.rs` | map MAC -> HostState behind an `RwLock`, capped at `MAX_TRACKED`, in memory | `observe`, `set_inventory`, `set_pallet_version`, `evict_finished`; readers `snapshot`, `get`, `phase_counts` |
| boot script and claims | `server/http.rs`, `claims.rs`, `ipxe.rs` | claim cache behind a tokio mutex | `boot_script`, `claim_for`, `ClaimClient::claim`, `render` |
| pallet projection | `server/pallet.rs`, `main.rs`, `stormsig.rs` | asset directory (survives the process), `AssetStatus`, the refresh task | `refresh`, `verify_signature`, `fetch_member`, startup fallback, refresh loop |
| host records | `server/hosts.rs` | a file layer with its mtime, a cluster layer with `kube_synced` | `lookup`, `reload`, `set_kube_records`, `apply_kube_record`, `remove_kube_record` |
| BootHost watch and status | `server/kube_store.rs`, `boothost.rs` | index MAC -> object, list being received | `reset`, `apply`, `delete`, `note_status`, `reconcile_status`, `desired_status` |
| init (PID 1) | `init/steps.rs`, `main.rs`, `report.rs`, `cmdline.rs` | the command line, the engine process | `run`: checks, network, slabs, engine, device, mounts, media, report, `switch_root`; `hold` |
| boot media | `init/media.rs` | the ESP: the live image and a stamp | `refresh`, `run`, `install` |
| agent | `agent/main.rs`, `flowover.rs`, `inventory.rs` | position in the engine's log, failure count | `report`, `report_inventory`, `follow_engine_log`, `parse_line` |
| readers | `components.rs`, `metrics.rs`, rest of `http.rs` | counters | feeds, `readyz`, listing, websocket |
| pure helpers | `mac.rs`, `config.rs`, `stormsig.rs` | none | parsing and checking |

(`server/` is `src/crates/stormnetboot-server/src/`, and so on.)

How they interact. Firmware asks the server for a script; `boot_script` looks the
machine up, tells the tracker, claims a root from sbregistry under the claims
mutex, renders. The machine loads kernel and initramfs from the asset directory
that the refresh task rewrites meanwhile. `stormnetboot-init` then reports phases
with single unretried POSTs, starts the engine, may rewrite the boot medium, and
switches root; the agent goes on reporting what it reads in the engine's log. The
status writer copies the tracker into BootHost objects, whose watch feeds the host
records that `boot_script` reads.

What is hard. Requests overlap at a mutex that is held across a network call.
Reports are lost, late and reordered. A refresh or an install is several steps,
any of which can fail or be cut off by a crash or a power cut, and the directory
or medium outlives the process. A watch loses events and lists again. A capped
map must evict. A status writer must not answer its own echo. A file is reloaded
by several callers under no lock while it is edited. A command line is written by
one program and read by another, and what it numbers by position is written to a
root that outlives the boot.

## 2. Modules

| module | models | uses |
|---|---|---|
| `BootState` | the phase tracker, one action per operation, all of them under the write lock | |
| `BootTimeline` | abstract specification: what a reader of the tracker is promised | |
| `BootStateProofs` | theorems about `BootState` | `BootState`, `BootTimeline` |
| `BootScript` | `boot_script` and `claim_for`, one action per await | instance of `BootState` for the tracker |
| `BootScriptProofs` | theorems about `BootScript` | `BootScript`, `BootState` |
| `PalletCache` | `refresh`, the startup fallback, the refresh loop, one action per await | |
| `PalletCacheProofs` | theorems about `PalletCache` | `PalletCache` |
| `KubeStore` | watch task, status writer, API server | |
| `KubeStoreProofs` | theorems about `KubeStore` | `KubeStore` |
| `MediaRefresh` | the media pass, step by step over a page cache | |
| `MediaRefreshProofs` | theorems about `MediaRefresh` | `MediaRefresh` |
| `NodeBoot` | init, engine, agent and the report handlers | instance of `BootState` for the tracker |
| `NodeBootProofs` | theorems about `NodeBoot` | `NodeBoot`, `BootState` |
| `HostStore` | the two record layers, `reload` at the moments it touches file and lock, `lookup` | |
| `HostStoreProofs` | theorems about `HostStore` | `HostStore` |
| `BootLine` | the command line as operators: what the server renders, what init parses and decides from it | |
| `NodeStorage` | slabs, exports, fstab and hostname of one node over several boots | extends `BootLine` |
| `NodeStorageProofs` | theorems about `NodeStorage` and the operators of `BootLine` | `NodeStorage` |
| `MC*` | constants of the instances that need definitions | |

`BootScript` and `NodeBoot` are compositions: their `hosts` is moved only by the
operators of `BootState`. `NodeStorage` composes the server's rendering with
init's reading of the same line.

State and actions keep the names of the source where there is one. In each
module a comment marks the variables that are not the program's (`external` or
`history`). The operators introduced by "Mutant:" are faulty variants of the
definition below them. They are used by nothing, and show that the property named
in `PROJECT.json` notices such a mistake.

Abstractions, module by module:

* `BootState`: `detail` and the content of an inventory are dropped; a MAC is a
  model value. Phases are the integers 0..6 in declaration order, because the
  code compares them with the derived `Ord`. The wall clock may go either way.
  `min_by_key` walks a HashMap, so eviction among equal stamps is a choice.
* `BootScript`: a host record is whether it is online and which stack it names;
  since operators may edit records at any moment, a lookup returns any record.
  A clone is its index in the sequence of clones that were ever minted. A call
  whose answer is not seen may have minted one.
* `PalletCache`: what a file holds is which pallet's refresh wrote it, from a blob
  or from inline text, whether these are the bytes that pallet names (`own`),
  whether all of them are there, and whether the signature had been verified; all
  of it is history. While `sound` is false each request and each write may fail,
  and an answer may hold other bytes. For a member that `fetch_member` downloads
  other bytes are a failure, since it compares digest and size. The config blob is
  compared with nothing: a wrong one carries any inline members of `Other`, and one
  that does not parse is an empty spec. A referrers query that is answered with an
  error counts as unsigned. The temporary file is part of the task, because a later
  refresh truncates what it finds there; it lies in the served directory under a
  name that no script mentions. The crash is of the process: a rename that was made
  stays made.
* `KubeStore`: a status is a phase, which stands for every optional field, and
  conditions, which stand for the list by what it is derived from. Transition
  times are dropped, because they move only when a status does. A snapshot is
  walked in any order, as a HashMap is. `desired_status` reads the tracker and then,
  after an await, the claim: the two are one read here, and a pass that was between
  them is corrected by the next.
* `MediaRefresh`: the medium holds an image and a stamp; changes sit in a queue
  until they are written back, in order or not. A staged copy is not whole until
  it is synced. An orderly reboot unmounts what is mounted.
* `NodeBoot`: a command line is its flow-over target and whether it says where to
  report; the root source is read by the first checks only, and is any there. Steps
  that can fail may do so without a reason. The kernel's `ip=` may have set up the
  network, DHCP may do so for a root behind it; without either (`offline`), or without
  `storm.report` and a MAC (`silent`), PID 1 sends nothing. The engine is known by the
  events its lines classify to. It has two last lines; the one without a count of
  failures parses to none failed (`flowover.rs:43-46`), and the model takes the
  engine to write it only when that is so.
* `HostStore`: a record is an address and a value; the file is a list of them, or
  half written. `reload` is four steps: `metadata`, the comparison under the read
  lock, the read with its parse, the store under the write lock. The start of the
  process runs one before anything is served. `quiet` is history. How the watch
  learns of an object is left to `KubeStore`; here it does so at some time. Since one object
  per address is assumed here, a deletion that is passed on finds no other object
  with the address, a condition `remove_kube_record` does not itself have;
  `kube_edited` shows what happens without it.
* `BootLine`: a line is a sequence of tokens, and splitting it at blanks and at
  `=` is the conversion that is left out; empty values, numbers that do not parse,
  repeated keys and malformed `name:mount` entries are kept. A disk's name is its
  family, unit and partition, which is what `device_base` takes apart: it drops the
  partition, or else, outside the families it knows, the unit. Aliases under
  `/dev/disk` are left out.
* `NodeStorage`: the engine numbers its exports in the order of its flags. Of two
  fstab lines for one place the first counts, as for systemd. A device may hold a
  slab, something else, or be absent, and what holds no slab changes from boot to
  boot; a probe may fail.

## 3. Runs

Deadlock is checked except in `NodeBoot` and `NodeStorage`, where a node may be held
at its console, or stay off, for ever.

| run | shows | bounds | states |
|---|---|---|---|
| `boot_state` | `Bounded`, `ForwardOnly`, `EvictionSparesInFlight`, `TimelineSpec` | 3 machines, room for 2, 2 clock readings | 12,882 (symmetry) |
| `boot_script` | `OneRootPerHost`, `NoSharedRoot`, `EveryRequestEnds` | 2 machines, 2 requests, 2 clones | 200,299 |
| `pallet_cache` | `OnlyVouchedBytes`, `NoTornMember`, `ReadyIsComplete`, `StaysReady`, `PublishedIsWhole`, `RolloutArrives` | 4 digests, 2 of unsettled signature, 2 wrong specs, signatures required | 273,092 |
| `kube_store` | `LayerIsCurrent`, `WriterRests`, `StatusArrives` | 2 objects, 2 changes, 1 patch a pass | 177,900 |
| `media_refresh` | `AlwaysBootable`, `FlushedBeforeHandover`, `StampFollowsImage`, `ForeignUntouched`, `MediaFollows` | 3 releases, 3 faults | 2,313 |
| `node_boot` | `LocalMeansMoved`, `FailureBecomesKnown`, `LocalBecomesKnown` | 2 faults, reports every 2 of 2 failures | 855,806 |
| `host_store` | `StampVouches`, `ClusterFirst`, `ReloadCatchesUp`, `LayerSettles` | 1 address, 3 files, 2 callers and the start, 3 changes | 595,869 |
| `node_storage` | `ScriptArrives`, `DataSlabSpared`, `ApplianceIsFallback`, `VolumesWhereNamed` | 11 configurations, 4 records, 2 claims, 3 media, 2 devices, 2 boots | 128,883 |

Why the bounds are enough. Three machines and room for two give full maps of
finished, mixed and unfinished hosts and a newcomer; two readings give ties and
backward steps. Two requests can be two retries of one machine or boots of two,
and two clones let one be lost and another made. The digests are two complete
pallets, one of them with an inline member, one without an initramfs and one image
that is no pallet: every failure of `refresh` has a cause among them. The signatures
of the complete ones may be missing, bad or late; the other two are signed, so that
they are refused for what they are. A wrong config blob carries a file that the pallet has inline, or one
that it has as a blob. Two objects with
one patch per pass make the cap bite. Three faults let a pass be interrupted, its
repetition be interrupted, and a third thing go wrong. Two faults in `NodeBoot`
allow a lost report together with a power cycle or a restart. In `HostStore` two
callers can overtake each other and the start can run beside an edit; an address
is independent of the others, so one is enough, and the files are an empty one, a
record, and the same address listed twice. Three changes are an edit, a failure
and another edit. The lines of `NodeStorage` were chosen so that every decision of
`cmdline.rs` falls both ways: claims on, off and refused by `validate`; a portal
alone; operator tokens that override the claim, repeat a key, are empty or do not
fit a port; volumes with and without a place, with and without an image store;
data slab and flow-over target on one disk and on two, on lettered disks, on nvme
and on numbered ones that `device_base` does not know; an
appliance with and without an identity. Two boots let a flow-over of the first be
found by the second.

Fairness. The code's own tasks are weakly fair: a tokio task or PID 1 that can run
does, and each of its network calls ends because the HTTP clients have timeouts.
tokio's mutex is FIFO, so acquiring it is strongly fair. The status writer and the
watch loop for ever. Nothing is assumed of firmware, operators, machines, power or
restarts. In `NodeBoot` a report that was not lost is delivered; the properties
there are conditional on no report being lost (`lost`), and `FailureBecomesKnown`
also on a line that says where to report and on a network. `RolloutArrives` is
conditional on the tag, the signature, the registry and the directory resting, `MediaFollows` on
the machine being booted again and again without further interruption, and
`StatusArrives` on the object staying. In `HostStore` a reload that has begun goes
on, since it waits for nothing but a lock that is never held across a wait; that
somebody asks for reloads is not assumed, and `LayerSettles` is conditional on it.

### Where code and text disagree

Four runs check one property each that a comment of the repository states, and TLC
finds it violated.

* `pallet_mixed` (`ServesWhatItReports`): "continuing to serve the current one"
  (`main.rs:233`). Members are renamed into the served directory one by one, so a
  refresh that fails midway leaves a new kernel with an old initramfs under the
  old digest; a tag that is moved back is "unchanged" and repairs nothing.
* `kube_edited` (`LayerIsCurrent`): "Keep the cluster layer of the host store
  current" (`kube_store.rs:143`). An edited address leaves the record of the old
  one; deleting one of two objects with the same address removes the other's.
* `media_rollback` (`CurrentIsInstalled`): "never a stamp that claims an image the
  ESP does not have" (`media.rs:161`). True while releases only advance
  (theorem `CurrentInstalled`); false after an interrupted install and a rollback.
* `volumes_drift` (`VolumesWhereNamed`): "come from this one plan, so their indices
  cannot drift" (`steps.rs:72`). Within one boot they do not (`node_storage`). But
  `append_fstab` adds positional lines to the fstab of the new root, and a root
  that is written and comes back (an ext4 clone, or `overlay=/dev/ublkbN`) still
  has those of the boot before, in front. After an edit of the volume list in the
  host's record, the node mounts the etcd volume at the place of the log.

Observations about which no run is made:

* `pallet.rs:3-5` says that kernel and initramfs are "fetched by digest and verified
  before a single byte is served". So is every member that `fetch_member` downloads
  (`OnlyVouchedBytes`). But the config blob of the pallet is fetched by
  `fetch_blob_or_manifest`, which compares nothing, and text that it has for a role
  is written in place of the layer (`pallet.rs:224`, `243-247`). In the model such a
  file is `own = FALSE`, and no property claims otherwise.
* `init/main.rs:11-13` gives PID 1 the rule "always report: nothing else can see a
  machine between power-on and cluster join". `try_post` returns `Ok` and sends
  nothing without `storm.report` (`report.rs:39`), which the server never renders
  (`ipxe.rs:54-96`); only an operator's tokens bring it. Where it is there and the
  network is up, `FailureBecomesKnown` holds. Before `bring_up_network`, on a local
  boot without `ip=`, and when `/proc/cmdline` cannot be read, a failure stays on
  the console in any case.
* `state.rs:3` says the tracker answers "What a machine is doing right now". `Failed`
  is the greatest phase and swallows all later ones: a claim that fails once shows
  the machine as failed while its retry boots.
* `boothost.rs:209` says "a restart re-derives rather than remembering". A merge
  patch without a field keeps it: after a restart the phase of the process before
  stays, and the index believes it is gone.
* `state.rs:39` says of `Running` "Reported a successful switch_root". init reports
  it before it switches.
* `device_base` (`cmdline.rs:322`) takes the trailing digits of every family but
  `nvme`, `mmcblk` and `loop` for a partition. `/dev/md0p1` becomes `/dev/md0`, and
  `/dev/md0` becomes `/dev/md`, likewise for `nbd`, `ublkb` and `dm-`: a flow-over onto
  the disk that holds the data slab is let through, where the comment above the
  function names exactly this trap. The model does the same, and `DataSlabSpared`
  leaves out a data slab on such a disk. Aliases under `/dev/disk/by-id` are not
  resolved either.
* `lookup` never looks at `kube_synced`: after a restart, until the first complete
  list, the file answers for hosts that the cluster knows.
* A `reload` of a file that has been removed answers 0 while the records stay; the
  count it answers for a file that lists an address twice is one more than the
  records it keeps, and one less the next time. Two edits within one tick of the
  file system's clock are one to it. Nothing reloads by itself.
* `hosts_list` reads counts and records under two locks.
* `--portal` without `--claim` renders a line without an NQN, on which init always
  stops. The comment on `all_slabs` names the data slab before the others; the code
  puts it last.

Smaller observations that no run states: `refresh` reports
`signature_verified: true` for an unchanged digest even under `--allow-unsigned`
(`pallet.rs:186`); a claim whose answer is lost leaks its clone, although the
comment at `http.rs:43` speaks of retries that do not leak; init reports
`media-updated`, which `parse_phase` does not know and answers with 400; an
inline member is written in place and can be read torn while its refresh runs, or
after that has failed there: `NoTornMember` allows just this.

## 4. Proofs

Eight modules hold theorems, one for each module that TLC runs. Each proves the
type invariant (`Types`) and the invariants and action properties of the runs,
without the bounds of section 3: a bound on faults, changes, clones or boots is any
natural number. Every proof has the same outline: `InitIInv`, one lemma per action
or group of actions that it keeps the invariant, `NextIInv`, and theorems that
follow from the invariant. The inductive invariants were model-checked on the runs'
instances before they were proved.

The prover has no induction over data. Where a theorem needs to know what a
recursive function over a sequence returns (`ImageOnly`, `Listing`, `Joined`), the
proof takes the least position at which the claim fails and shows that there is
none, from the well-foundedness of the naturals. The filters of `BootLine` are
written with `Joined` and `Picked` for this reason: what `SelectSeq` does with a
`LAMBDA` cannot be shown here.

### Tracker

`BootStateProofs` proves, for every finite set of machines, every
`MAX_TRACKED > 0` and every clock:

* `TypeAndBound`: `Spec => [](TypeOK /\ Bounded)`, and `Types` from it;
* `Forward`: `Spec => ForwardOnly`;
* `Eviction`: `Spec => EvictionSparesInFlight`;
* `Refinement`: `Spec => TimelineSpec`.

The assumptions are the named ones of `BootState`: the machines are finitely
many, the cap is a positive number, the clock is bounded by a number, and `None`
is not a value of a record.

The inductive invariant is `TypeOK /\ Bounded`. The two need each other: that an
insertion stays within the cap rests on `MakeRoom` leaving strictly fewer than
`MAX_TRACKED` hosts, which holds because a map that is still full after `retain`
has an oldest member to remove, and this in turn needs that a finite nonempty set
of hosts has one with the least stamp, for stamps that are numbers. A group of
lemmas states what the helpers return: how the tracked set changes under an
update, under `DropFinished`, under `EvictFinished` and under `MakeRoom`, and what
they leave alone. `Forward` and `Eviction` follow from them action by action;
`Eviction` uses `Bounded` to turn "at least" into "exactly" `MAX_TRACKED`.
`Refinement` maps each operation to `Advance`, `Appear`, the forgetting of
everything, or a stutter; its difficult case is an insertion into a full map,
where the set of the machines that are gone must be shown to be one that
`Forgettable` allows.

### Pallet

`PalletCacheProofs` proves, for every set of digests, every assignment of layers
and inline members to them, every choice of those whose signature is unsettled and
of what a wrong config blob carries, and either setting of `--allow-unsigned`:

* `Types`: `Spec => []TypeOK`;
* `Vouched`: `Spec => []OnlyVouchedBytes`;
* `Untorn`: `Spec => []NoTornMember`;
* `Complete`: `Spec => []ReadyIsComplete`;
* `Stays`: `Spec => StaysReady`;
* `Published`: `Spec => PublishedIsWhole`.

The assumptions are that layers and inline members, of the right spec or another,
are files of the directory and that `None` is neither a digest nor a file's content.
The invariants are not inductive, because `refresh` writes the directory several
awaits after it has checked anything. `IInv` has three further parts.

* What the task carries (`TaskInv`): past the check a required signature has been
  verified (`CheckPassed`); what is being written is a layer of its pallet
  (`LayerInHand`), a temporary file holds the pallet's own bytes of it, and all of
  them before the rename (`TempInHand`); the pallet is another than the one that is
  reported (`AnotherPallet`); what is counted as served is in the directory
  (`ServedIsThere`); and the layers before the current one are there, of this pallet
  and whole, but for a file that an inline write has just truncated again (`Fetched`).
* What is in the directory (`DirectoryInv`): `OnlyVouchedBytes`, `NoTornMember`,
  `ReadyIsComplete`, and that a file is a layer of the pallet whose refresh wrote it
  (`OfItsPallet`).
* What the status says (`StatusInv`): nothing of the assets before the server is
  serving (`SilentUntilServing`), a digest only when its pallet is ready
  (`NamedIsReady`), which is what makes it right that the unchanged case reports ready
  without a look at the directory.

`NoTornMember` needs `AnotherPallet`: a truncated inline member is never one of the
reported pallet because `refresh` returns early for that one, and once a pallet is
named `Fetched` says that its members are whole. A rename before the end of the
write, or without the comparison of the digest, breaks `TempInHand`. The proof has one
step per action; the failing ones share the lemma `FailKeeps`, the storing ones
`StoreKeeps`, `CountKeeps` and `AdvanceKeeps`, and `Published` follows from `Fetched`
where the digest is named (`NamedAtTheEnd`, `EndsWhole`).

### Host records

`HostStoreProofs` proves, for every finite set of addresses, every set of records
and files and every number of overlapping callers:

* `Vouches`: `Spec => [](TypeOK /\ StampVouches)`;
* `CatchesUp`: `Spec => ReloadCatchesUp`;
* `ObjectsFirst`: `Spec => []ClusterFirst`;
* `Types`: `Spec => []TypeOK`.

The first two assume a clock that tells edits apart (`SameTick = FALSE`), and are
false without it; the others do not. `StampVouches` is not inductive: a reload
about to store brings its own time and its own content. `IInv` adds that every
time anybody holds is one the clock has shown, so that the next edit gets another
(`Clocked`), and that what a reload has read is the file's content as long as the
time it took before the read is the file's (`InHand`). The second is where the
order of `metadata` and `read_to_string` matters: an edit between them makes the
times differ, and the other order would not. `CatchesUp` adds that a reload nothing
has disturbed still holds the file's time (`Undisturbed`), and follows by cases on
how a reload can end (`EndsInStep`). `ObjectsFirst` rests on an invariant of its
own (`Mirrors`): after a list the layer agrees with the objects that were passed on.
That loading a list makes a layer of it (`RecordsType`) needs that a nonempty set of
positions has a last one, from the well-foundedness of the naturals.

### Boot script

`BootScriptProofs` proves, for every set of machines, requests and stacks, every
number of clones and claims on or off:

* `Types`: `Spec => []TypeOK`;
* `OneRoot`: `Spec => []OneRootPerHost`;
* `OwnRoot`: `Spec => []NoSharedRoot`.

The assumptions are that `None` is none of the values, and the types of the
parameters. That a machine is handed one volume is a fact about scripts that were
rendered long after the mutex was released. `IInv` carries it there: the request
that waits for the registry holds the mutex, and its machine has no claim in the
cache (`CallerHoldsLock`), so an insertion never replaces one; a cached claim was
minted for its machine (`CacheIsMinted`); a request that renders carries exactly
the cached claim (`CarriesItsClaim`); and what was handed out was minted for whom
it was handed to (`HandedIsMinted`). Dropping the mutex before the insertion breaks
the first, which is the mistake the mutant of `OneRootPerHost` makes.

### Node and reports

`NodeBootProofs` proves, for every threshold of engine and agent, every number of
faults, with the engine's log or without:

* `Types`: `Spec => []TypeOK`;
* `LocalIsTrue`: `Spec => []LocalMeansMoved`.

What the server shows came over a wire that keeps, loses and reorders reports of
this boot and of earlier ones, from an agent that reads a log. So `IInv` says of
each of the three that it is true: a log with `Complete` in it (`LogIsTrue`), a
report of `Local` on its way (`WireIsTrue`), the tracker. The tracker may only
show what was reported because `observe` writes the reported phase or leaves the
record (`BootState`'s operators are expanded here).

### Boot media

`MediaRefreshProofs` proves, for every number of releases and faults:

* `Types`, `Bootable` (`[]AlwaysBootable`), `Flushed` (`[]FlushedBeforeHandover`)
  and `ForeignLeft` (`ForeignUntouched`), on a file system that orders what it
  writes back and on one that does not;
* `StampFollows` (`StampFollowsImage`), which speaks of the ordered one only;
* `CurrentInstalled`: `ASSUME ~Rollback PROVE Spec => []CurrentIsInstalled`. The
  hypothesis is the boundary that `media_rollback` shows: with a rollback the
  property is false.

For the first four `IInv` says what a change that has not reached the medium may
be: a whole image or a stamp (`NothingTorn`), because what is renamed into place is
the golden's and has been synced (`StagedIsWhole`), and nothing is dirty before the
rename (`CleanBefore`); a medium without a stamp is shown as it is and not
installed on (`ForeignIsLeft`). `StampFollows` needs the queue itself. `OInv` lists
the six forms it can have on an ordered file system, as suffixes and prefixes of
the three changes a pass makes, with what the medium shows in each (`InOrder`), and
how far the pass has come (`Changed`). `CurrentInstalled` adds `Honest`: a stamp
names the image beside it, or a release older than the newest, so that the next
pass does not take the medium for current.

### Cluster layer

`KubeStoreProofs` proves, for every set of objects and addresses, every list order
and cap of the writer, any number of changes:

* `Types`: `Spec => []TypeOK`;
* `Current`: `ASSUME OneAddressEach PROVE Spec => []LayerIsCurrent`.

`OneAddressEach` says that an object keeps its address and shares it with no other
(invalid ones aside). `kube_edited` shows that the property is false without it.
The layer lags behind the cluster by a queue of events, which may hold a list,
parts of it, and changes that came after it. `CInv` says that the queue is sorted
so (`Sorted`), and that for each address whoever has the last word on it agrees
with the cluster (`Settled`): the last `Apply` or `Delete` of the queue, else the
list that is under way, half of it received and half of it queued, else the layer.
Every action moves that word one place on. With an empty queue it is the layer's,
which is the property.

### Storage

`NodeStorageProofs` proves, for every set of configurations, records, claims, media
lines and devices, lines and lists of any length, and any number of boots:

* `Types`: `Spec => []TypeOK`;
* `Arrives`: `Spec => []ScriptArrives`;
* `Spared`: `Spec => []DataSlabSpared`;
* `Fallback`: `Spec => []ApplianceIsFallback`;
* `WhereNamed`: `Spec => [](~Persistent => VolumesWhereNamed)`.

The assumptions (`StorageAssumption`, `LineAssumption`) say that lines are sequences
of tokens with values, that lists are lists and disks disks, that names and
addresses are not empty, that a port has 16 bits, and that `None` and `Empty` are
none of these. `Persistent` is the hypothesis of `WhereNamed` because of
`volumes_drift`: a root that comes back has the fstab of an earlier line.

Most of the proof is about the operators. `ValueConcat`: of two lines one after the
other the later one counts, key by key. From it `RenderIs` and `RootTokensIs` say
what init reads under each key of a rendered line, and `ClaimArrives` that it is the
claim's, unless the operator names a key of the root. `NumbersAgree`, `PlacedFits`
and `PlanFits`: the number that `ExportPlan` gives a volume, before the engine runs,
is the one the engine gives it. `SameBase`: two names of one disk have one
`DeviceBase`, if its family is lettered or one of `nvme`, `mmcblk` and `loop`; of the
others `Spared` says nothing. The invariant then has little to add: the line is the
one rendered from the request (`LineHolds`), the checks of `Prepare` still hold past
it (`Checked`), slabs and exports are those of the line (`SlabsHold`,
`ExportsHold`), a root that is not kept holds nothing of an earlier boot
(`RootHolds`), and nothing is mounted before its time (`InTurn`, `VolumesHold`).

### Only model-checked

All liveness properties (`EveryRequestEnds`, `RolloutArrives`, `WriterRests`,
`StatusArrives`, `MediaFollows`, `FailureBecomesKnown`, `LocalBecomesKnown`,
`LayerSettles`), because fairness and ENABLED are out of the prover's reach; and the
four disagreements of section 3, which are counterexamples.

## 5. Not modelled

The text of scripts, listings and feeds; the cryptography of `stormsig.rs`
(only its verdict); `mac.rs` and the parsing of `config.rs`; metrics; the component
feed, which renders the tracker and the asset status afresh for each reader and
keeps nothing; DMI and `/proc` reading of the agent; build scripts and manifests.

## 6. Plan

1. Composition of `BootScript` with the status writer, which takes the claims
   mutex once per host, and of `KubeStore` and `HostStore` with its lookup.
2. The safety half of the liveness properties as theorems: that a status writer at
   rest has written what the tracker says, and that a settled layer is the file's.
