---------------------------- MODULE MediaRefresh ----------------------------
(***************************************************************************)
(* Boot-media self-refresh (crates/stormnetboot-init/src/media.rs, called  *)
(* from steps::run): once per boot the initramfs compares the stamp on the *)
(* boot medium with the digest its golden asks for, and rewrites the image *)
(* and then the stamp when they differ.                                    *)
(*                                                                         *)
(* The ESP is a FAT file system behind a page cache.  A write reaches the  *)
(* medium when it is written back or synced, and the power may go at any   *)
(* moment.  Whether changes of different files are written back in the     *)
(* order they were made is up to the file system: both are modelled.       *)
(* Digests are numbered in the order their goldens were released.          *)
(***************************************************************************)
EXTENDS Integers, Sequences

CONSTANTS Releases,   \* number of UKIs
          Foreign,    \* the boot loader of an ESP that is not ours
          Blank,      \* a stamp file that names no digest
          Rollback,   \* whether a machine may boot an older golden again
          MaxFaults,  \* bound on failed mounts, failed writes and power cuts
          None

Digest == 1..Releases
Image == [of : Digest \cup {Foreign}, whole : BOOLEAN]

ASSUME MediaAssumption ==
  /\ Releases \in Nat \ {0}
  /\ None \notin Digest \cup Image
  /\ Foreign \notin Digest /\ Blank \notin Digest
  /\ Blank # None
  /\ Rollback \in BOOLEAN
  /\ MaxFaults \in Nat

VARIABLES golden,  \* the digest in the golden's media.conf, or None
          latest,  \* the newest golden so far
          ordered, \* whether the file system writes back in order: external
          esp,     \* what is on the medium
          cached,  \* what the mounted file system shows
          dirty,   \* changes shown and not yet on the medium, oldest first
          staged,  \* BOOTX64.EFI.new
          pc, step,
          faults   \* faults left

vars == <<golden, latest, ordered, esp, cached, dirty, staged, pc, step,
          faults>>

outside == <<golden, latest, ordered>>

Stamp == Digest \cup {Blank, None}
Esp == [live : Image, stamp : Stamp]
Write == [item : {"live"}, value : Image] \cup [item : {"stamp"}, value : Stamp]

\* Mutant: the stamp is written before the image is renamed into place.
OrderStampFirst ==
  <<"copy", "sync", "truncate", "stamp", "rename", "fsync", "flush">>

\* Mutant: the copy is not synced before it is renamed into place.
OrderUnsynced ==
  <<"copy", "rename", "truncate", "stamp", "sync", "fsync", "flush">>

\* The steps of install, in order.
Order ==
  <<"copy", "sync", "rename", "truncate", "stamp", "fsync", "flush">>

TypeOK ==
  /\ golden \in Digest \cup {None}
  /\ latest \in Digest
  /\ ordered \in BOOLEAN
  /\ esp \in Esp /\ cached \in Esp
  /\ dirty \in Seq(Write)
  /\ staged \in Image \cup {None}
  /\ pc \in {"off", "mount", "compare", "install", "umount", "running"}
  /\ step \in 1..Len(Order)
  /\ faults \in 0..MaxFaults

\* A medium this project built, or somebody else's ESP.
Init ==
  /\ golden = None
  /\ ordered \in BOOLEAN
  /\ esp \in [live : {[of |-> d, whole |-> TRUE] : d \in Digest},
              stamp : Digest]
           \cup {[live |-> [of |-> Foreign, whole |-> TRUE], stamp |-> None]}
  /\ esp.stamp # None => esp.stamp = esp.live.of
  /\ latest = IF esp.stamp = None THEN 1 ELSE esp.stamp
  /\ cached = esp
  /\ dirty = <<>>
  /\ staged = None
  /\ pc = "off" /\ step = 1
  /\ faults = MaxFaults

Fault ==
  /\ faults > 0
  /\ faults' = faults - 1

-----------------------------------------------------------------------------
\* The machine boots some golden; one without a payload ends the pass, as
\* does a command line without rd.stormnetboot.media.
Boot ==
  /\ pc = "off"
  /\ golden' \in {d \in Digest : Rollback \/ d >= latest} \cup {None}
  /\ latest' = IF golden' = None THEN latest ELSE golden'
  /\ pc' = IF golden' = None THEN "running" ELSE "mount"
  /\ cached' = esp
  /\ UNCHANGED <<ordered, esp, dirty, staged, step, faults>>

MountEsp ==
  /\ pc = "mount"
  /\ pc' = "compare"
  /\ UNCHANGED <<outside, esp, cached, dirty, staged, step, faults>>

MountFails ==
  /\ pc = "mount" /\ Fault
  /\ pc' = "running"
  /\ UNCHANGED <<outside, esp, cached, dirty, staged, step>>

\* Mutant: a medium without a stamp is taken for an outdated one.
RefuseNever == FALSE

\* The stamp is proof of ownership.
Refuse == cached.stamp = None

\* Mutant: a stamp that names no digest counts as current.
CurrentOrBlank == cached.stamp \in {golden, Blank}

\* A stamp that names no digest reads as "unknown", and is never current.
Current == cached.stamp = golden

NothingToDo ==
  /\ pc = "compare"
  /\ Refuse \/ Current
  /\ pc' = "umount"
  /\ UNCHANGED <<outside, esp, cached, dirty, staged, step, faults>>

BeginInstall ==
  /\ pc = "compare"
  /\ ~Refuse /\ ~Current
  /\ pc' = "install" /\ step' = 1
  /\ UNCHANGED <<outside, esp, cached, dirty, staged, faults>>

-----------------------------------------------------------------------------
At(s) == pc = "install" /\ Order[step] = s

\* Mutant: the pass does not know its last step.
AdvancePast ==
  /\ step' = step + 1
  /\ UNCHANGED <<outside, pc, faults>>

Advance ==
  /\ IF step = Len(Order) THEN pc' = "umount" /\ step' = 1
                          ELSE pc' = pc /\ step' = step + 1
  /\ UNCHANGED <<outside, faults>>

\* A change is shown at once and is on the medium later.
Change(item, value) ==
  /\ cached' = [cached EXCEPT ![item] = value]
  /\ dirty' = Append(dirty, [item |-> item, value |-> value])
  /\ UNCHANGED esp

\* fs::copy, to the temporary name: its bytes are not on the medium yet.
CopyUki ==
  /\ At("copy")
  /\ staged' = [of |-> golden, whole |-> FALSE]
  /\ Advance
  /\ UNCHANGED <<esp, cached, dirty>>

\* sync_file(&staged).
SyncStaged ==
  /\ At("sync")
  /\ staged' = IF staged = None THEN None ELSE [staged EXCEPT !.whole = TRUE]
  /\ Advance
  /\ UNCHANGED <<esp, cached, dirty>>

\* What the medium shows under the live name once the rename is on it.
RenameUki ==
  /\ At("rename")
  /\ Change("live", staged)
  /\ staged' = None
  /\ Advance

\* fs::write(&conf) empties the file first.
TruncateStamp ==
  /\ At("truncate")
  /\ Change("stamp", Blank)
  /\ Advance
  /\ UNCHANGED staged

WriteStamp ==
  /\ At("stamp")
  /\ Change("stamp", golden)
  /\ Advance
  /\ UNCHANGED staged

\* The changes of the image among some changes, in their order.
ImageOnly(writes) ==
  LET kept[i \in 0..Len(writes)] ==
        IF i = 0 THEN <<>>
        ELSE IF writes[i].item = "stamp" THEN kept[i - 1]
             ELSE Append(kept[i - 1], writes[i])
  IN  kept[Len(writes)]

\* sync_file(&conf): the stamp is on the medium, and whatever the file
\* system keeps in order before it.
SyncStamp ==
  /\ At("fsync")
  /\ IF ordered THEN esp' = cached /\ dirty' = <<>>
     ELSE /\ esp' = [esp EXCEPT !.stamp = cached.stamp]
          /\ dirty' = ImageOnly(dirty)
  /\ Advance
  /\ UNCHANGED <<cached, staged>>

\* sync_all.
Flush ==
  /\ At("flush")
  /\ esp' = cached /\ dirty' = <<>>
  /\ Advance
  /\ UNCHANGED <<cached, staged>>

\* A step of install fails: the pass ends as Skipped.
InstallFails ==
  /\ pc = "install" /\ Fault
  /\ pc' = "umount" /\ step' = 1
  /\ UNCHANGED <<outside, esp, cached, dirty, staged>>

\* Mutant: the ESP stays mounted, as the pass left it.
UnmountNot ==
  /\ pc = "umount"
  /\ pc' = "running"
  /\ UNCHANGED <<outside, esp, cached, dirty, staged, step, faults>>

\* umount, which writes back what is left, after a pass of any outcome.
Unmount ==
  /\ pc = "umount"
  /\ esp' = cached /\ dirty' = <<>>
  /\ pc' = "running"
  /\ UNCHANGED <<outside, cached, staged, step, faults>>

\* The status of umount is ignored: the ESP may stay mounted.
UnmountFails ==
  /\ pc = "umount" /\ Fault
  /\ pc' = "running"
  /\ UNCHANGED <<outside, esp, cached, dirty, staged, step>>

-----------------------------------------------------------------------------
\* The kernel writes a change back: the oldest one, or any one.
WriteBack ==
  /\ \E i \in 1..Len(dirty) :
       /\ ordered => i = 1
       /\ \A j \in 1..(i - 1) : dirty[j].item # dirty[i].item
       /\ esp' = [esp EXCEPT ![dirty[i].item] = dirty[i].value]
       /\ dirty' = SubSeq(dirty, 1, i - 1) \o SubSeq(dirty, i + 1, Len(dirty))
  /\ UNCHANGED <<outside, cached, staged, pc, step, faults>>

\* The power goes: what was not written back is lost.
PowerCut ==
  /\ pc # "off" /\ Fault
  /\ pc' = "off" /\ step' = 1
  /\ dirty' = <<>> /\ staged' = None
  /\ UNCHANGED <<outside, esp, cached>>

\* An orderly reboot, which unmounts what is still mounted.
Reboot ==
  /\ pc = "running"
  /\ pc' = "off"
  /\ esp' = cached /\ dirty' = <<>>
  /\ staged' = None
  /\ UNCHANGED <<outside, cached, step, faults>>

Refresh ==
  \/ MountEsp \/ MountFails
  \/ NothingToDo \/ BeginInstall
  \/ CopyUki \/ SyncStaged \/ RenameUki
  \/ TruncateStamp \/ WriteStamp \/ SyncStamp \/ Flush
  \/ InstallFails
  \/ Unmount \/ UnmountFails

Next == Boot \/ Refresh \/ WriteBack \/ PowerCut \/ Reboot

Spec == Init /\ [][Next]_vars

\* The pass runs to its end: it waits for nobody.
FairSpec == Spec /\ WF_vars(Refresh)

-----------------------------------------------------------------------------
(***************************************************************************)
(* Properties.                                                             *)
(***************************************************************************)

\* Wherever the power goes, the medium boots: what is under the live name is
\* never a half-copied file.
AlwaysBootable == esp.live.whole

\* On a file system that keeps the order, a stamp never reaches the medium
\* before the image it names.
StampFollowsImage ==
  [][ordered /\ esp'.stamp # esp.stamp /\ esp'.stamp \in Digest =>
       esp'.live.of = esp'.stamp]_vars

\* An ESP without our stamp belongs to somebody else: it is never written.
ForeignUntouched == [][esp.stamp = None => esp' = esp]_vars

\* The pass hands over a medium with nothing left to write.  It takes two
\* failures, of a step of install and of umount, to carry a change of the
\* medium in the page cache into the real root.
FlushedBeforeHandover ==
  pc = "running" /\ dirty # <<>> => faults + 2 <= MaxFaults

\* A medium of ours follows the golden: if the machine keeps booting the
\* same one, then whatever was interrupted before, its image is installed.
MediaFollows ==
  \A d \in Digest :
    /\ ordered /\ esp.stamp # None
    /\ <>[](golden = d)
    /\ []<>(pc = "off")
    /\ []<>(pc = "running")
    => <>[](esp.live.of = d)

-----------------------------------------------------------------------------
\* install says that an interruption leaves "never a stamp that claims an
\* image the ESP does not have": a medium that a pass finds current carries
\* the image of the golden.
CurrentIsInstalled ==
  ordered /\ pc = "compare" /\ Current => cached.live.of = golden
=============================================================================
