------------------------- MODULE MediaRefreshProofs -------------------------
(***************************************************************************)
(* Proofs about MediaRefresh, for any number of releases and faults, for   *)
(* file systems that write back in order and for those that do not.        *)
(*                                                                         *)
(* A step of install reaches the medium some steps later, when it is       *)
(* written back.  IInv therefore speaks of what is on its way: what        *)
(* install has staged at each step, what sort of changes may be dirty and  *)
(* when there are none.  OInv adds, for file systems that keep the order,  *)
(* how the dirty changes lead from what is on the medium to what is shown. *)
(***************************************************************************)
EXTENDS MediaRefresh, SequenceTheorems, WellFoundedInduction, TLAPS

-----------------------------------------------------------------------------
\* A set of numbers that is not empty has a least one.
LEMMA LeastNumber ==
  ASSUME NEW T \in SUBSET Nat, T # {}
  PROVE  \E n \in T : \A k \in T : n <= k
<1> DEFINE R == OpToRel(<, Nat)
<1>1. IsWellFoundedOn(R, Nat)
  BY NatLessThanWellFounded
<1>2. T \subseteq Nat
  OBVIOUS
<1>3. PICK n \in T : \A k \in T : ~(<<k, n>> \in R)
  <2> HIDE DEF R
  <2> QED
    BY <1>1, <1>2, WFMin
<1>4. \A k \in T : ~(k < n)
  BY <1>2, <1>3 DEF OpToRel
<1>5. QED
  BY <1>2, <1>4

\* The recursion that ImageOnly runs over the first n changes of s.
Kept(f, s, n) ==
  f = [i \in 0..n |-> IF i = 0 THEN <<>>
                      ELSE IF s[i].item = "stamp" THEN f[i - 1]
                           ELSE Append(f[i - 1], s[i])]

\* There is a function that satisfies it, for any length: the least n for
\* which there is none is not 0, and the function for n - 1 can be extended.
LEMMA KeptExists ==
  ASSUME NEW s, NEW len \in Nat
  PROVE  \E f : Kept(f, s, len)
<1> DEFINE Bad == {n \in Nat : ~\E f : Kept(f, s, n)}
<1> SUFFICES ASSUME Bad # {} PROVE FALSE
  OBVIOUS
<1>1. PICK n \in Bad : \A k \in Bad : n <= k
  <2>1. Bad \in SUBSET Nat
    OBVIOUS
  <2> HIDE DEF Bad
  <2> QED
    BY <2>1, LeastNumber
<1>2. n # 0
  <2> DEFINE f == [i \in 0..0 |-> <<>>]
  <2>1. Kept(f, s, 0)
    BY DEF Kept
  <2> HIDE DEF f
  <2> QED
    BY <2>1
<1>3. n \in Nat /\ n - 1 \in Nat /\ n - 1 \notin Bad
  BY <1>1, <1>2
<1>4. PICK f : Kept(f, s, n - 1)
  BY <1>3
<1> DEFINE last == IF s[n].item = "stamp" THEN f[n - 1]
                   ELSE Append(f[n - 1], s[n])
           g == [i \in 0..n |-> IF i = n THEN last ELSE f[i]]
<1>5. Kept(g, s, n)
  <2>1. \A i \in 0..(n - 1) : g[i] = f[i]
    BY <1>3
  <2>2. \A i \in 0..(n - 1) :
          f[i] = IF i = 0 THEN <<>>
                 ELSE IF s[i].item = "stamp" THEN f[i - 1]
                      ELSE Append(f[i - 1], s[i])
    BY <1>3, <1>4 DEF Kept
  <2>3. \A i \in 0..n : i # 0 => i - 1 \in 0..(n - 1)
    BY <1>3
  <2>4. g[n] = IF s[n].item = "stamp" THEN g[n - 1] ELSE Append(g[n - 1], s[n])
    BY <1>3, <2>1, <2>3
  <2>5. \A i \in 0..n : i # n => i \in 0..(n - 1)
    BY <1>3
  <2>6. \A i \in 0..n : g[i] = IF i = 0 THEN <<>>
                               ELSE IF s[i].item = "stamp" THEN g[i - 1]
                                    ELSE Append(g[i - 1], s[i])
    <3> HIDE DEF last, g
    <3> QED
      BY <1>2, <2>1, <2>2, <2>3, <2>4, <2>5
  <2>7. g = [i \in 0..n |-> g[i]]
    OBVIOUS
  <2> HIDE DEF last, g
  <2> QED
    BY <2>6, <2>7 DEF Kept
<1>6. QED
  BY <1>1, <1>5

\* What ImageOnly leaves of some changes is among them.
LEMMA ImageOnlyType ==
  ASSUME NEW S, NEW s \in Seq(S)
  PROVE  ImageOnly(s) \in Seq(S)
<1>0. Len(s) \in Nat /\ \A i \in 1..Len(s) : s[i] \in S
  BY LenProperties, ElementOfSeq
<1> DEFINE kept == CHOOSE f : Kept(f, s, Len(s))
<1>1. Kept(kept, s, Len(s))
  <2>1. \E f : Kept(f, s, Len(s))
    BY <1>0, KeptExists
  <2>2. Kept(CHOOSE f : Kept(f, s, Len(s)), s, Len(s))
    BY <2>1
  <2> QED
    BY <2>2
<1>2. ImageOnly(s) = kept[Len(s)]
  BY DEF ImageOnly, Kept
<1> HIDE DEF kept
<1> DEFINE Bad == {n \in 0..Len(s) : kept[n] \notin Seq(S)}
<1>3. \A i \in 0..Len(s) :
        kept[i] = IF i = 0 THEN <<>>
                  ELSE IF s[i].item = "stamp" THEN kept[i - 1]
                       ELSE Append(kept[i - 1], s[i])
  BY <1>0, <1>1 DEF Kept
<1>4. ASSUME Bad # {} PROVE FALSE
  <2>1. PICK n \in Bad : \A k \in Bad : n <= k
    <3>1. Bad \in SUBSET Nat
      BY <1>0
    <3> HIDE DEF Bad
    <3> QED
      BY <1>4, <3>1, LeastNumber
  <2>2. n # 0
    BY <1>0, <1>3, <2>1, EmptySeq
  <2>3. n \in 1..Len(s) /\ n - 1 \in 0..Len(s) /\ n - 1 \notin Bad
    BY <1>0, <2>1, <2>2
  <2>4. kept[n - 1] \in Seq(S) /\ s[n] \in S
    BY <1>0, <2>3
  <2>5. kept[n] \in Seq(S)
    <3>1. Append(kept[n - 1], s[n]) \in Seq(S)
      BY <2>4, AppendProperties
    <3>2. n \in 0..Len(s)
      BY <2>1
    <3>3. kept[n] \in {kept[n - 1], Append(kept[n - 1], s[n])}
      BY <1>3, <2>2, <3>2
    <3>4. QED
      BY <2>4, <3>1, <3>3
  <2>6. QED
    BY <2>1, <2>5
<1>5. QED
  BY <1>0, <1>2, <1>4

\* The changes s without the i-th.
Without(s, i) == SubSeq(s, 1, i - 1) \o SubSeq(s, i + 1, Len(s))

\* Taking one out moves the later ones up.
LEMMA TakenOut ==
  ASSUME NEW S, NEW s \in Seq(S), NEW i \in 1..Len(s)
  PROVE  /\ Without(s, i) \in Seq(S)
         /\ Len(Without(s, i)) = Len(s) - 1
         /\ \A k \in 1..(Len(s) - 1) :
              Without(s, i)[k] = IF k < i THEN s[k] ELSE s[k + 1]
<1>0. Len(s) \in Nat /\ \A k \in 1..Len(s) : s[k] \in S
  BY LenProperties, ElementOfSeq
<1> DEFINE a == SubSeq(s, 1, i - 1)
           b == SubSeq(s, i + 1, Len(s))
           t == Without(s, i)
<1>1. /\ a \in Seq(S) /\ Len(a) = i - 1
      /\ \A k \in 1..(i - 1) : a[k] = s[k]
  BY <1>0, SubSeqProperties
<1>2. /\ b \in Seq(S) /\ Len(b) = Len(s) - i
      /\ \A k \in 1..(Len(s) - i) : b[k] = s[i + k]
  BY <1>0, SubSeqProperties
<1>3. t = a \o b
  BY DEF Without
<1> HIDE DEF a, b, t
<1>4. /\ t \in Seq(S) /\ Len(t) = Len(a) + Len(b)
      /\ \A k \in 1..(Len(a) + Len(b)) :
           t[k] = IF k <= Len(a) THEN a[k] ELSE b[k - Len(a)]
  BY <1>1, <1>2, <1>3, ConcatProperties
<1>5. Len(t) = Len(s) - 1
  BY <1>0, <1>1, <1>2, <1>4
<1>6. ASSUME NEW k \in 1..(Len(s) - 1)
      PROVE  t[k] = IF k < i THEN s[k] ELSE s[k + 1]
  <2>0. k \in 1..(Len(a) + Len(b)) /\ k \in Nat /\ i \in Nat
    BY <1>0, <1>4, <1>5
  <2>1. CASE k < i
    <3>1. k <= Len(a) /\ k \in 1..(i - 1)
      BY <1>1, <2>0, <2>1
    <3>2. t[k] = a[k] /\ a[k] = s[k]
      BY <1>1, <1>4, <2>0, <3>1
    <3>3. QED
      BY <2>1, <3>2
  <2>2. CASE ~(k < i)
    <3>1. /\ ~(k <= Len(a)) /\ k - Len(a) \in 1..(Len(s) - i)
          /\ i + (k - Len(a)) = k + 1
      BY <1>0, <1>1, <1>5, <2>0, <2>2
    <3>2. t[k] = b[k - Len(a)] /\ b[k - Len(a)] = s[i + (k - Len(a))]
      BY <1>2, <1>4, <2>0, <3>1
    <3>3. QED
      BY <2>2, <3>1, <3>2
  <2>3. QED
    BY <2>1, <2>2
<1>7. QED
  BY <1>4, <1>5, <1>6 DEF t

-----------------------------------------------------------------------------
(***************************************************************************)
(* The invariant for every file system.                                    *)
(***************************************************************************)

\* A pass works for the newest golden.
GoldenIsLatest ==
  pc \in {"mount", "compare", "install"} => golden \in Digest /\ golden = latest

\* What is renamed into place is the whole image of the golden.
StagedIsWhole ==
  pc = "install" =>
    /\ step = 2 => staged = [of |-> golden, whole |-> FALSE]
    /\ step = 3 => staged = [of |-> golden, whole |-> TRUE]

\* Nothing is dirty until the rename.
CleanBefore ==
  pc \in {"off", "mount", "compare"} \/ (pc = "install" /\ step <= 3) =>
    dirty = <<>>

\* A change may be of a whole image, or of the stamp, which is not removed.
Sound ==
  {w \in Write : /\ w.item = "live" => w.value.whole
                 /\ w.item = "stamp" => w.value # None}

NothingTorn ==
  /\ esp.live.whole
  /\ cached.live.whole
  /\ dirty \in Seq(Sound)

\* A medium without a stamp is shown as it is, and not installed on.
ForeignIsLeft ==
  pc # "off" /\ (esp.stamp = None \/ cached.stamp = None) =>
    esp = cached /\ dirty = <<>> /\ pc # "install"

\* It takes a failure to leave a pass with something dirty.
FailuresCounted ==
  /\ pc = "umount" /\ dirty # <<>> => faults + 1 <= MaxFaults
  /\ FlushedBeforeHandover

IInv ==
  /\ TypeOK
  /\ GoldenIsLatest
  /\ StagedIsWhole
  /\ CleanBefore
  /\ NothingTorn
  /\ ForeignIsLeft
  /\ FailuresCounted

-----------------------------------------------------------------------------
\* The steps of install by their number.
LEMMA Steps ==
  /\ Len(Order) = 7
  /\ \A s \in 1..7 :
       /\ Order[s] = "copy" => s = 1
       /\ Order[s] = "sync" => s = 2
       /\ Order[s] = "rename" => s = 3
       /\ Order[s] = "truncate" => s = 4
       /\ Order[s] = "stamp" => s = 5
       /\ Order[s] = "fsync" => s = 6
       /\ Order[s] = "flush" => s = 7
BY DEF Order

\* Which step is next: the last one leads to umount.
LEMMA AdvanceTo ==
  ASSUME TypeOK, pc = "install", Advance
  PROVE  /\ step \in 1..7
         /\ step # 7 => pc' = "install" /\ step' = step + 1 /\ step' \in 1..7
         /\ step = 7 => pc' = "umount" /\ step' = 1
         /\ UNCHANGED <<golden, latest, ordered, faults>>
BY Steps DEF TypeOK, Advance, outside

\* Where the pass is inside install.
LEMMA AtStep ==
  ASSUME TypeOK
  PROVE  /\ At("copy") => pc = "install" /\ step = 1
         /\ At("sync") => pc = "install" /\ step = 2
         /\ At("rename") => pc = "install" /\ step = 3
         /\ At("truncate") => pc = "install" /\ step = 4
         /\ At("stamp") => pc = "install" /\ step = 5
         /\ At("fsync") => pc = "install" /\ step = 6
         /\ At("flush") => pc = "install" /\ step = 7
BY Steps DEF TypeOK, At

LEMMA ImageTypes ==
  ASSUME NEW d \in Digest, NEW w \in BOOLEAN
  PROVE  [of |-> d, whole |-> w] \in Image
BY DEF Image

\* Sound changes are changes.
LEMMA SoundIsWrite ==
  /\ Seq(Sound) \subseteq Seq(Write)
  /\ \A v \in Image : v.whole => [item |-> "live", value |-> v] \in Sound
  /\ \A v \in Stamp : v # None => [item |-> "stamp", value |-> v] \in Sound
<1>1. Sound \subseteq Write
  BY DEF Sound
<1>2. Seq(Sound) \subseteq Seq(Write)
  BY <1>1, SeqMonotonic
<1>3. QED
  BY <1>2 DEF Sound, Write

LEMMA InitIInv == Init => IInv
<1> SUFFICES ASSUME Init PROVE IInv
  OBVIOUS
<1>1. esp \in Esp /\ esp.live.whole /\ latest \in Digest
  <2>1. 1 \in Digest
    BY MediaAssumption DEF Digest
  <2>2. CASE esp = [live |-> [of |-> Foreign, whole |-> TRUE], stamp |-> None]
    BY <2>1, <2>2 DEF Init, Esp, Image, Stamp
  <2>3. CASE esp \in [live : {[of |-> d, whole |-> TRUE] : d \in Digest},
                      stamp : Digest]
    <3>1. esp.live \in Image /\ esp.live.whole
      <4>1. PICK d \in Digest : esp.live = [of |-> d, whole |-> TRUE]
        BY <2>3
      <4>2. [of |-> d, whole |-> TRUE] \in Image
        BY ImageTypes
      <4>3. QED
        BY <4>1, <4>2
    <3>2. esp.stamp \in Digest /\ esp.stamp # None
      BY <2>3, MediaAssumption
    <3>3. latest = esp.stamp
      BY <3>2 DEF Init
    <3>4. esp = [live |-> esp.live, stamp |-> esp.stamp]
      BY <2>3
    <3>5. QED
      BY <3>1, <3>2, <3>3, <3>4 DEF Esp, Stamp
  <2>4. QED
    BY <2>2, <2>3 DEF Init
<1>2. dirty = <<>> /\ dirty \in Seq(Write) /\ dirty \in Seq(Sound)
  BY EmptySeq DEF Init
<1>3. TypeOK
  <2>1. ordered \in BOOLEAN
    BY DEF Init
  <2>2. step \in 1..Len(Order) /\ faults \in 0..MaxFaults
    BY Steps, MediaAssumption DEF Init
  <2>3. golden = None /\ cached = esp /\ staged = None /\ pc = "off"
    BY DEF Init
  <2>4. QED
    BY <1>1, <1>2, <2>1, <2>2, <2>3 DEF TypeOK
<1>4. QED
  BY <1>1, <1>2, <1>3
  DEF Init, IInv, GoldenIsLatest, StagedIsWhole, CleanBefore, NothingTorn,
      ForeignIsLeft, FailuresCounted, FlushedBeforeHandover

\* A new boot shows the medium as it is.
LEMMA BootKeeps == IInv /\ Boot => IInv'
<1> SUFFICES ASSUME IInv, Boot PROVE IInv'
  OBVIOUS
<1>1. /\ golden' \in Digest \cup {None}
      /\ latest' = IF golden' = None THEN latest ELSE golden'
      /\ pc' = IF golden' = None THEN "running" ELSE "mount"
      /\ cached' = esp /\ dirty = <<>> /\ dirty' = dirty
      /\ UNCHANGED <<ordered, esp, staged, step, faults>>
  BY DEF IInv, CleanBefore, Boot
<1>2. latest' \in Digest /\ pc' \in {"running", "mount"}
  BY <1>1 DEF IInv, TypeOK
<1>3. TypeOK'
  BY <1>1, <1>2 DEF IInv, TypeOK
<1>4. GoldenIsLatest'
  BY <1>1, MediaAssumption DEF GoldenIsLatest
<1>5. NothingTorn' /\ ForeignIsLeft'
  BY <1>1, <1>2 DEF IInv, NothingTorn, ForeignIsLeft
<1>6. StagedIsWhole' /\ CleanBefore' /\ FailuresCounted'
  BY <1>1, <1>2
  DEF StagedIsWhole, CleanBefore, FailuresCounted, FlushedBeforeHandover
<1>7. QED
  BY <1>3, <1>4, <1>5, <1>6 DEF IInv

\* Steps that write nothing: to the start of install, or past it.
LEMMA LookKeeps ==
  IInv /\ (MountEsp \/ MountFails \/ NothingToDo \/ BeginInstall) => IInv'
<1> SUFFICES ASSUME IInv, MountEsp \/ MountFails \/ NothingToDo \/ BeginInstall
             PROVE  IInv'
  OBVIOUS
<1>1. /\ pc \in {"mount", "compare"} /\ dirty = <<>>
      /\ pc' \in {"compare", "running", "umount", "install"}
      /\ pc' = "install" => step' = 1 /\ cached.stamp # None
      /\ step' \in {step, 1} /\ faults' \in {faults, faults - 1}
      /\ faults' # faults => faults > 0
      /\ UNCHANGED <<golden, latest, ordered, esp, cached, dirty, staged>>
  BY DEF IInv, CleanBefore, MountEsp, MountFails, NothingToDo, BeginInstall,
         Fault, outside, Refuse
<1>2. TypeOK'
  <2>1. faults' \in 0..MaxFaults /\ step' \in 1..Len(Order)
    BY <1>1, Steps, MediaAssumption DEF IInv, TypeOK
  <2>2. QED
    BY <1>1, <2>1 DEF IInv, TypeOK
<1>3. GoldenIsLatest' /\ StagedIsWhole' /\ CleanBefore' /\ FailuresCounted'
  BY <1>1
  DEF IInv, GoldenIsLatest, StagedIsWhole, CleanBefore, FailuresCounted,
      FlushedBeforeHandover
<1>4. NothingTorn' /\ ForeignIsLeft'
  BY <1>1 DEF IInv, NothingTorn, ForeignIsLeft
<1>5. QED
  BY <1>2, <1>3, <1>4 DEF IInv

\* The copy and its sync prepare the whole image of the golden.
LEMMA StageKeeps == IInv /\ (CopyUki \/ SyncStaged) => IInv'
<1> SUFFICES ASSUME IInv, CopyUki \/ SyncStaged PROVE IInv'
  OBVIOUS
<1>0. TypeOK /\ golden \in Digest
  BY AtStep DEF IInv, CopyUki, SyncStaged, GoldenIsLatest
<1>1. /\ pc = "install" /\ dirty = <<>>
      /\ pc' = "install" /\ step' \in 1..7
      /\ UNCHANGED <<golden, latest, ordered, faults, esp, cached, dirty>>
  BY <1>0, AtStep, AdvanceTo DEF IInv, CleanBefore, CopyUki, SyncStaged
<1>2. CASE CopyUki
  <2>1. step' = 2 /\ staged' = [of |-> golden, whole |-> FALSE]
    BY <1>0, <1>2, AtStep, AdvanceTo DEF CopyUki
  <2>2. staged' \in Image
    BY <1>0, <2>1, ImageTypes
  <2>3. TypeOK'
    BY <1>0, <1>1, <2>2, Steps DEF TypeOK
  <2>4. StagedIsWhole' /\ CleanBefore'
    BY <1>1, <2>1 DEF StagedIsWhole, CleanBefore
  <2>5. QED
    BY <1>1, <2>3, <2>4
    DEF IInv, GoldenIsLatest, NothingTorn, ForeignIsLeft, FailuresCounted,
        FlushedBeforeHandover
<1>3. CASE SyncStaged
  <2>1. step = 2 /\ step' = 3 /\ staged = [of |-> golden, whole |-> FALSE]
    BY <1>0, <1>3, AtStep, AdvanceTo DEF SyncStaged, IInv, StagedIsWhole
  <2>2. staged # None
    BY <1>0, <2>1, ImageTypes, MediaAssumption
  <2>3. staged' = [of |-> golden, whole |-> TRUE]
    BY <1>3, <2>1, <2>2 DEF SyncStaged
  <2>4. staged' \in Image
    BY <1>0, <2>3, ImageTypes
  <2>5. TypeOK'
    BY <1>0, <1>1, <2>4, Steps DEF TypeOK
  <2>6. StagedIsWhole' /\ CleanBefore'
    BY <1>1, <2>1, <2>3 DEF StagedIsWhole, CleanBefore
  <2>7. QED
    BY <1>1, <2>5, <2>6
    DEF IInv, GoldenIsLatest, NothingTorn, ForeignIsLeft, FailuresCounted,
        FlushedBeforeHandover
<1>4. QED
  BY <1>2, <1>3

\* What the three changes of install are: of a sound change, at step 3 to 5.
LEMMA ChangeShape ==
  ASSUME IInv, RenameUki \/ TruncateStamp \/ WriteStamp
  PROVE  /\ pc = "install" /\ pc' = "install" /\ step' = step + 1
         /\ step' \in {4, 5, 6}
         /\ golden \in Digest /\ golden = latest
         /\ UNCHANGED <<golden, latest, ordered, faults, esp>>
         /\ staged' \in {staged, None}
         /\ \/ /\ step = 3
               /\ [of |-> golden, whole |-> TRUE] \in Image
               /\ cached' = [cached EXCEPT !.live = [of |-> golden, whole |-> TRUE]]
               /\ dirty' = Append(dirty, [item |-> "live",
                                          value |-> [of |-> golden, whole |-> TRUE]])
            \/ /\ step \in {4, 5}
               /\ \E v \in {Blank, golden} :
                    /\ v = golden => step = 5
                    /\ cached' = [cached EXCEPT !.stamp = v]
                    /\ dirty' = Append(dirty, [item |-> "stamp", value |-> v])
<1>0. TypeOK /\ pc = "install" /\ golden \in Digest /\ golden = latest
  BY AtStep DEF IInv, RenameUki, TruncateStamp, WriteStamp, GoldenIsLatest
<1>1. [of |-> golden, whole |-> TRUE] \in Image
  BY <1>0, ImageTypes
<1>2. golden # Blank
  BY <1>0, MediaAssumption
<1>3. CASE RenameUki
  <2>1. step = 3 /\ staged = [of |-> golden, whole |-> TRUE]
    BY <1>0, <1>3, AtStep DEF RenameUki, IInv, StagedIsWhole
  <2>2. /\ pc' = "install" /\ step' = step + 1
        /\ UNCHANGED <<golden, latest, ordered, faults>>
    BY <1>0, <1>3, <2>1, AdvanceTo DEF RenameUki
  <2>3. /\ cached' = [cached EXCEPT !.live = [of |-> golden, whole |-> TRUE]]
        /\ dirty' = Append(dirty, [item |-> "live",
                                   value |-> [of |-> golden, whole |-> TRUE]])
        /\ esp' = esp /\ staged' = None
    BY <1>3, <2>1 DEF RenameUki, Change
  <2>4. QED
    BY <1>0, <1>1, <1>2, <2>1, <2>2, <2>3
<1>4. CASE TruncateStamp
  <2>1. step = 4
    BY <1>0, <1>4, AtStep DEF TruncateStamp
  <2>2. /\ pc' = "install" /\ step' = step + 1
        /\ UNCHANGED <<golden, latest, ordered, faults>>
    BY <1>0, <1>4, <2>1, AdvanceTo DEF TruncateStamp
  <2>3. /\ cached' = [cached EXCEPT !.stamp = Blank]
        /\ dirty' = Append(dirty, [item |-> "stamp", value |-> Blank])
        /\ esp' = esp /\ staged' = staged
    BY <1>4 DEF TruncateStamp, Change
  <2>4. QED
    BY <1>0, <1>1, <1>2, <2>1, <2>2, <2>3
<1>5. CASE WriteStamp
  <2>1. step = 5
    BY <1>0, <1>5, AtStep DEF WriteStamp
  <2>2. /\ pc' = "install" /\ step' = step + 1
        /\ UNCHANGED <<golden, latest, ordered, faults>>
    BY <1>0, <1>5, <2>1, AdvanceTo DEF WriteStamp
  <2>3. /\ cached' = [cached EXCEPT !.stamp = golden]
        /\ dirty' = Append(dirty, [item |-> "stamp", value |-> golden])
        /\ esp' = esp /\ staged' = staged
    BY <1>5 DEF WriteStamp, Change
  <2>4. QED
    BY <1>0, <1>1, <1>2, <2>1, <2>2, <2>3
<1>6. QED
  BY <1>3, <1>4, <1>5

\* A change of install makes one more sound change dirty.
LEMMA ChangeKeeps ==
  IInv /\ (RenameUki \/ TruncateStamp \/ WriteStamp) => IInv'
<1> SUFFICES ASSUME IInv, RenameUki \/ TruncateStamp \/ WriteStamp PROVE IInv'
  OBVIOUS
<1>1. /\ pc = "install" /\ pc' = "install" /\ step' \in {4, 5, 6}
      /\ golden \in Digest /\ golden = latest
      /\ UNCHANGED <<golden, latest, ordered, faults, esp>>
      /\ staged' \in {staged, None}
  BY ChangeShape
<1>2. cached \in Esp /\ esp \in Esp /\ dirty \in Seq(Sound)
  BY DEF IInv, TypeOK, NothingTorn
<1>3. esp.stamp # None /\ cached.stamp # None /\ cached.live.whole
  BY <1>1 DEF IInv, ForeignIsLeft, NothingTorn
<1>4. /\ cached' \in Esp /\ cached'.live.whole /\ cached'.stamp # None
      /\ dirty' \in Seq(Sound)
  <2>1. CASE /\ [of |-> golden, whole |-> TRUE] \in Image
             /\ cached' = [cached EXCEPT !.live = [of |-> golden, whole |-> TRUE]]
             /\ dirty' = Append(dirty, [item |-> "live",
                                        value |-> [of |-> golden, whole |-> TRUE]])
    <3> DEFINE v == [of |-> golden, whole |-> TRUE]
    <3>1. v \in Image /\ v.whole
      BY <2>1
    <3> HIDE DEF v
    <3>2. cached' = [cached EXCEPT !.live = v]
          /\ dirty' = Append(dirty, [item |-> "live", value |-> v])
      BY <2>1 DEF v
    <3>3. [item |-> "live", value |-> v] \in Sound
      BY <3>1, SoundIsWrite
    <3>4. dirty' \in Seq(Sound)
      BY <1>2, <3>2, <3>3, AppendProperties
    <3>5. cached' \in Esp /\ cached'.live = v /\ cached'.stamp = cached.stamp
      BY <1>2, <3>1, <3>2 DEF Esp
    <3>6. QED
      BY <1>3, <3>1, <3>4, <3>5
  <2>2. CASE \E v \in {Blank, golden} :
               /\ v = golden => step = 5
               /\ cached' = [cached EXCEPT !.stamp = v]
               /\ dirty' = Append(dirty, [item |-> "stamp", value |-> v])
    <3>1. PICK v \in {Blank, golden} :
               /\ cached' = [cached EXCEPT !.stamp = v]
               /\ dirty' = Append(dirty, [item |-> "stamp", value |-> v])
      BY <2>2
    <3>2. v \in Stamp /\ v # None
      BY <1>1, MediaAssumption DEF Stamp
    <3>3. [item |-> "stamp", value |-> v] \in Sound
      BY <3>2, SoundIsWrite
    <3>4. dirty' \in Seq(Sound)
      BY <1>2, <3>1, <3>3, AppendProperties
    <3>5. cached' \in Esp /\ cached'.live = cached.live /\ cached'.stamp = v
      BY <1>2, <3>1, <3>2 DEF Esp
    <3>6. QED
      BY <1>3, <3>2, <3>4, <3>5
  <2>3. QED
    BY <2>1, <2>2, ChangeShape
<1>5. TypeOK'
  <2>1. dirty' \in Seq(Write)
    BY <1>4, SoundIsWrite
  <2>2. step' \in 1..Len(Order)
    BY <1>1, Steps
  <2>3. staged' \in Image \cup {None}
    BY <1>1 DEF IInv, TypeOK
  <2>4. QED
    BY <1>1, <1>4, <2>1, <2>2, <2>3 DEF IInv, TypeOK
<1>6. NothingTorn' /\ ForeignIsLeft'
  BY <1>1, <1>3, <1>4 DEF IInv, NothingTorn, ForeignIsLeft
<1>7. GoldenIsLatest' /\ StagedIsWhole' /\ CleanBefore' /\ FailuresCounted'
  BY <1>1
  DEF GoldenIsLatest, StagedIsWhole, CleanBefore, FailuresCounted,
      FlushedBeforeHandover
<1>8. QED
  BY <1>5, <1>6, <1>7 DEF IInv

\* A step that puts what is shown on the medium, wherever it leads to.
LEMMA CleanKeeps ==
  ASSUME IInv, pc # "off",
         UNCHANGED <<golden, latest, ordered, cached>>,
         esp' = cached, dirty' = <<>>, staged' \in {staged, None},
         pc' \in {"off", "install", "umount", "running"},
         pc' = "install" => pc = "install" /\ step' \in {4, 5, 6, 7},
         step' \in 1..7,
         faults' = faults
  PROVE  IInv'
<1>1. dirty' \in Seq(Sound) /\ dirty' \in Seq(Write)
  BY EmptySeq
<1>2. TypeOK'
  <2>1. step' \in 1..Len(Order) /\ staged' \in Image \cup {None}
    BY Steps DEF IInv, TypeOK
  <2>2. QED
    BY <1>1, <2>1 DEF IInv, TypeOK
<1>3. NothingTorn'
  BY <1>1 DEF IInv, NothingTorn
<1>4. ForeignIsLeft'
  BY DEF IInv, ForeignIsLeft
<1>5. GoldenIsLatest' /\ StagedIsWhole' /\ CleanBefore' /\ FailuresCounted'
  BY DEF IInv, GoldenIsLatest, StagedIsWhole, CleanBefore, FailuresCounted,
         FlushedBeforeHandover
<1>6. QED
  BY <1>2, <1>3, <1>4, <1>5 DEF IInv

LEMMA SyncKeeps == IInv /\ (SyncStamp \/ Flush \/ Unmount \/ Reboot) => IInv'
<1> SUFFICES ASSUME IInv, SyncStamp \/ Flush \/ Unmount \/ Reboot PROVE IInv'
  OBVIOUS
<1>0. TypeOK /\ step \in 1..7
  BY Steps DEF IInv, TypeOK
<1>1. CASE SyncStamp
  <2>1. /\ pc = "install" /\ step = 6 /\ pc' = "install" /\ step' = 7
        /\ UNCHANGED <<golden, latest, ordered, faults, cached, staged>>
    BY <1>0, <1>1, AtStep, AdvanceTo DEF SyncStamp
  <2>2. CASE ordered
    BY <1>1, <2>1, <2>2, CleanKeeps DEF SyncStamp
  <2>3. CASE ~ordered
    <3>1. /\ esp' = [esp EXCEPT !.stamp = cached.stamp]
          /\ dirty' = ImageOnly(dirty)
      BY <1>1, <2>3 DEF SyncStamp
    <3>2. dirty' \in Seq(Sound) /\ dirty' \in Seq(Write)
      BY <3>1, ImageOnlyType, SoundIsWrite DEF IInv, NothingTorn
    <3>3. /\ esp' \in Esp /\ esp'.live = esp.live /\ esp'.stamp = cached.stamp
          /\ cached.stamp # None
      BY <2>1, <3>1 DEF IInv, TypeOK, Esp, ForeignIsLeft
    <3>4. TypeOK'
      BY <1>0, <2>1, <3>2, <3>3, Steps DEF TypeOK
    <3>5. NothingTorn' /\ ForeignIsLeft'
      BY <2>1, <3>2, <3>3 DEF IInv, NothingTorn, ForeignIsLeft
    <3>6. GoldenIsLatest' /\ StagedIsWhole' /\ CleanBefore' /\ FailuresCounted'
      BY <2>1
      DEF IInv, GoldenIsLatest, StagedIsWhole, CleanBefore, FailuresCounted,
          FlushedBeforeHandover
    <3>7. QED
      BY <3>4, <3>5, <3>6 DEF IInv
  <2>4. QED
    BY <2>2, <2>3
<1>2. CASE Flush
  <2>1. /\ pc = "install" /\ step = 7 /\ pc' = "umount" /\ step' = 1
        /\ UNCHANGED <<golden, latest, ordered, faults, cached, staged>>
    BY <1>0, <1>2, AtStep, AdvanceTo DEF Flush
  <2>2. QED
    BY <1>2, <2>1, CleanKeeps DEF Flush
<1>3. CASE Unmount
  BY <1>0, <1>3, CleanKeeps DEF Unmount, outside
<1>4. CASE Reboot
  BY <1>0, <1>4, CleanKeeps DEF Reboot, outside
<1>5. QED
  BY <1>1, <1>2, <1>3, <1>4

\* A failure costs one of the faults that are left.
LEMMA FailKeeps == IInv /\ (InstallFails \/ UnmountFails) => IInv'
<1> SUFFICES ASSUME IInv, InstallFails \/ UnmountFails PROVE IInv'
  OBVIOUS
<1>1. /\ faults \in 0..MaxFaults /\ faults > 0 /\ faults' = faults - 1
      /\ step' \in {1, step}
      /\ UNCHANGED <<golden, latest, ordered, esp, cached, dirty, staged>>
      /\ \/ pc = "install" /\ pc' = "umount"
         \/ pc = "umount" /\ pc' = "running"
  BY DEF IInv, TypeOK, InstallFails, UnmountFails, Fault, outside
<1>2. faults' \in 0..MaxFaults /\ faults' + 1 <= MaxFaults
  BY <1>1, MediaAssumption
<1>3. TypeOK'
  <2>1. step' \in 1..Len(Order)
    BY <1>1, Steps DEF IInv, TypeOK
  <2>2. QED
    BY <1>1, <1>2, <2>1 DEF IInv, TypeOK
<1>4. FailuresCounted'
  BY <1>1, <1>2, MediaAssumption DEF IInv, FailuresCounted, FlushedBeforeHandover
<1>5. NothingTorn' /\ ForeignIsLeft'
  BY <1>1 DEF IInv, NothingTorn, ForeignIsLeft
<1>6. GoldenIsLatest' /\ StagedIsWhole' /\ CleanBefore'
  BY <1>1 DEF GoldenIsLatest, StagedIsWhole, CleanBefore
<1>7. QED
  BY <1>3, <1>4, <1>5, <1>6 DEF IInv

LEMMA PowerCutKeeps == IInv /\ PowerCut => IInv'
<1> SUFFICES ASSUME IInv, PowerCut PROVE IInv'
  OBVIOUS
<1>1. /\ faults' \in 0..MaxFaults
      /\ pc' = "off" /\ step' = 1 /\ dirty' = <<>> /\ staged' = None
      /\ UNCHANGED <<golden, latest, ordered, esp, cached>>
  BY MediaAssumption DEF IInv, TypeOK, PowerCut, Fault, outside
<1>2. dirty' \in Seq(Sound) /\ dirty' \in Seq(Write)
  BY <1>1, EmptySeq
<1>3. TypeOK'
  BY <1>1, <1>2, Steps DEF IInv, TypeOK
<1>4. NothingTorn' /\ ForeignIsLeft'
  BY <1>1, <1>2 DEF IInv, NothingTorn, ForeignIsLeft
<1>5. GoldenIsLatest' /\ StagedIsWhole' /\ CleanBefore' /\ FailuresCounted'
  BY <1>1
  DEF GoldenIsLatest, StagedIsWhole, CleanBefore, FailuresCounted,
      FlushedBeforeHandover
<1>6. QED
  BY <1>3, <1>4, <1>5 DEF IInv

\* What a write-back does: one dirty change is on the medium.
LEMMA WriteBackShape ==
  ASSUME IInv, WriteBack
  PROVE  /\ UNCHANGED <<golden, latest, ordered, cached, staged, pc, step, faults>>
         /\ \E i \in 1..Len(dirty) :
              /\ ordered => i = 1
              /\ dirty[i] \in Sound
              /\ dirty' = Without(dirty, i)
              /\ dirty' \in Seq(Sound)
              /\ \/ /\ dirty[i].item = "live"
                    /\ esp' = [esp EXCEPT !.live = dirty[i].value]
                    /\ dirty[i].value \in Image /\ dirty[i].value.whole
                 \/ /\ dirty[i].item = "stamp"
                    /\ esp' = [esp EXCEPT !.stamp = dirty[i].value]
                    /\ dirty[i].value \in Stamp /\ dirty[i].value # None
<1>1. PICK i \in 1..Len(dirty) :
         /\ ordered => i = 1
         /\ esp' = [esp EXCEPT ![dirty[i].item] = dirty[i].value]
         /\ dirty' = Without(dirty, i)
  BY DEF WriteBack, Without
<1>2. dirty \in Seq(Sound)
  BY DEF IInv, NothingTorn
<1>3. dirty[i] \in Sound
  BY <1>2, ElementOfSeq
<1>4. dirty' \in Seq(Sound)
  BY <1>1, <1>2, TakenOut
<1>5. \/ /\ dirty[i].item = "live"
         /\ dirty[i].value \in Image /\ dirty[i].value.whole
      \/ /\ dirty[i].item = "stamp"
         /\ dirty[i].value \in Stamp /\ dirty[i].value # None
  BY <1>3 DEF Sound, Write
<1>6. UNCHANGED <<golden, latest, ordered, cached, staged, pc, step, faults>>
  BY DEF WriteBack, outside
<1>7. QED
  BY <1>1, <1>3, <1>4, <1>5, <1>6

LEMMA WriteBackKeeps == IInv /\ WriteBack => IInv'
<1> SUFFICES ASSUME IInv, WriteBack PROVE IInv'
  OBVIOUS
<1>1. UNCHANGED <<golden, latest, ordered, cached, staged, pc, step, faults>>
  BY WriteBackShape
<1>2. dirty # <<>>
  <2>1. dirty = <<>> => Len(dirty) = 0
    OBVIOUS
  <2>2. QED
    BY <2>1, WriteBackShape
<1>3. dirty' \in Seq(Sound) /\ dirty' \in Seq(Write)
  BY WriteBackShape, SoundIsWrite
<1>4. /\ esp \in Esp /\ esp.live.whole /\ cached.stamp # None
      /\ esp.stamp # None \/ pc = "off"
  BY <1>2 DEF IInv, TypeOK, NothingTorn, ForeignIsLeft, CleanBefore
<1>5. esp' \in Esp /\ esp'.live.whole /\ (esp'.stamp # None \/ pc = "off")
  BY <1>4, WriteBackShape DEF Esp
<1>6. TypeOK'
  BY <1>1, <1>3, <1>5 DEF IInv, TypeOK
<1>7. NothingTorn' /\ ForeignIsLeft'
  BY <1>1, <1>2, <1>3, <1>4, <1>5 DEF IInv, NothingTorn, ForeignIsLeft, CleanBefore
<1>8. GoldenIsLatest' /\ StagedIsWhole' /\ CleanBefore' /\ FailuresCounted'
  BY <1>1, <1>2
  DEF IInv, GoldenIsLatest, StagedIsWhole, CleanBefore, FailuresCounted,
      FlushedBeforeHandover
<1>9. QED
  BY <1>6, <1>7, <1>8 DEF IInv

LEMMA NextIInv == IInv /\ [Next]_vars => IInv'
<1>1. IInv /\ UNCHANGED vars => IInv'
  BY DEF vars, IInv, TypeOK, GoldenIsLatest, StagedIsWhole, CleanBefore,
         NothingTorn, ForeignIsLeft, FailuresCounted, FlushedBeforeHandover
<1>2. QED
  BY <1>1, BootKeeps, LookKeeps, StageKeeps, ChangeKeeps, SyncKeeps, FailKeeps,
     PowerCutKeeps, WriteBackKeeps
  DEF Next, Refresh

LEMMA AlwaysIInv == Spec => []IInv
BY InitIInv, NextIInv, PTL DEF Spec

\* Every variable keeps its type.
THEOREM Types == Spec => []TypeOK
<1>1. IInv => TypeOK
  BY DEF IInv
<1>2. QED
  BY <1>1, AlwaysIInv, PTL

\* Wherever the power goes, and however the file system orders what it
\* writes back, the medium boots.
THEOREM Bootable == Spec => []AlwaysBootable
<1>1. IInv => AlwaysBootable
  BY DEF IInv, NothingTorn, AlwaysBootable
<1>2. QED
  BY <1>1, AlwaysIInv, PTL

\* A pass leaves nothing dirty unless two of its steps failed.
THEOREM Flushed == Spec => []FlushedBeforeHandover
<1>1. IInv => FlushedBeforeHandover
  BY DEF IInv, FailuresCounted
<1>2. QED
  BY <1>1, AlwaysIInv, PTL

\* An ESP that is not ours is never written.
THEOREM ForeignLeft == Spec => ForeignUntouched
<1>1. IInv /\ [Next]_vars => (esp.stamp = None => esp' = esp)
  <2> SUFFICES ASSUME IInv, [Next]_vars, esp.stamp = None PROVE esp' = esp
    OBVIOUS
  <2>1. pc # "off" => esp = cached /\ dirty = <<>> /\ pc # "install"
    BY DEF IInv, ForeignIsLeft
  <2>2. dirty = <<>>
    BY <2>1 DEF IInv, CleanBefore
  <2>3. ~WriteBack
    <3>1. Len(dirty) = 0
      BY <2>2
    <3>2. QED
      BY <3>1 DEF WriteBack
  <2>4. CASE Boot \/ PowerCut \/ Reboot \/ UNCHANGED vars
    BY <2>1, <2>4 DEF Boot, PowerCut, Reboot, vars
  <2>5. CASE Refresh
    BY <2>1, <2>5
    DEF Refresh, MountEsp, MountFails, NothingToDo, BeginInstall, CopyUki,
        SyncStaged, RenameUki, TruncateStamp, WriteStamp, SyncStamp, Flush,
        InstallFails, Unmount, UnmountFails, At
  <2>6. QED
    BY <2>3, <2>4, <2>5 DEF Next
<1>2. QED
  BY <1>1, AlwaysIInv, PTL DEF Spec, ForeignUntouched

-----------------------------------------------------------------------------
(***************************************************************************)
(* The invariant for file systems that keep the order.                     *)
(***************************************************************************)

\* The three changes a pass makes, in their order.
NewImage == [of |-> golden, whole |-> TRUE]
Renamed == [item |-> "live", value |-> NewImage]
Emptied == [item |-> "stamp", value |-> Blank]
Stamped == [item |-> "stamp", value |-> golden]

\* What is dirty is what a pass has changed and the medium has not seen, and
\* it leads from what is on the medium to what is shown.
InOrder ==
  pc # "off" =>
    \/ dirty = <<>> /\ esp = cached
    \/ /\ golden \in Digest
       /\ cached.live = NewImage
       /\ \/ dirty = <<Renamed>> /\ esp.stamp = cached.stamp
          \/ dirty = <<Renamed, Emptied>> /\ cached.stamp = Blank
          \/ dirty = <<Renamed, Emptied, Stamped>> /\ cached.stamp = golden
          \/ dirty = <<Emptied>> /\ esp.live = NewImage /\ cached.stamp = Blank
          \/ /\ dirty = <<Emptied, Stamped>> /\ esp.live = NewImage
             /\ cached.stamp = golden
          \/ dirty = <<Stamped>> /\ esp.live = NewImage /\ cached.stamp = golden

\* How far the pass has come with its changes.
Changed ==
  pc = "install" =>
    /\ step >= 4 => cached.live = NewImage
    /\ step = 4 => dirty \in {<<>>, <<Renamed>>}
    /\ step = 5 => /\ cached.stamp = Blank
                   /\ dirty \in {<<>>, <<Renamed, Emptied>>, <<Emptied>>}
    /\ step = 6 => cached.stamp = golden

OInv == ordered => InOrder /\ Changed

\* A stamp names the image beside it, unless the next boot finds it outdated.
Named(e) ==
  e.stamp \in Digest => e.stamp <= latest /\ (e.live.of = e.stamp \/ e.stamp < latest)

\* On a machine that never goes back, what is on the medium and what is shown
\* can be told from the stamp.
Honest ==
  /\ golden \in Digest => golden = latest
  /\ ordered => Named(esp) /\ Named(cached)

\* What is left of up to three changes without the first.
LEMMA FirstOut ==
  ASSUME NEW a, NEW b, NEW c
  PROVE  /\ Without(<<a>>, 1) = <<>>
         /\ Without(<<a, b>>, 1) = <<b>>
         /\ Without(<<a, b, c>>, 1) = <<b, c>>
<1> DEFINE S == {a, b, c}
<1>1. ASSUME NEW s \in Seq(S), NEW n \in Nat \ {0}, Len(s) = n
      PROVE  /\ Without(s, 1) \in Seq(S)
             /\ Len(Without(s, 1)) = n - 1
             /\ \A k \in 1..(n - 1) : Without(s, 1)[k] = s[k + 1]
  <2>1. 1 \in 1..n
    OBVIOUS
  <2>2. /\ Without(s, 1) \in Seq(S)
        /\ Len(Without(s, 1)) = n - 1
        /\ \A k \in 1..(n - 1) :
             Without(s, 1)[k] = IF k < 1 THEN s[k] ELSE s[k + 1]
    BY <1>1, <2>1, TakenOut
  <2>3. \A k \in 1..(n - 1) : ~(k < 1)
    OBVIOUS
  <2>4. QED
    BY <2>2, <2>3
<1>2. /\ <<a>> \in Seq(S) /\ Len(<<a>>) = 1
      /\ <<a, b>> \in Seq(S) /\ Len(<<a, b>>) = 2
      /\ <<a, b, c>> \in Seq(S) /\ Len(<<a, b, c>>) = 3
  OBVIOUS
<1> HIDE DEF S
<1>3. ASSUME NEW s \in Seq(S), NEW t, t = Without(s, 1)
      PROVE  /\ Len(s) = 1 => t = <<>>
             /\ Len(s) = 2 => t = <<s[2]>>
             /\ Len(s) = 3 => t = <<s[2], s[3]>>
  <2>1. CASE Len(s) = 1
    <3>1. 1 \in Nat \ {0}
      OBVIOUS
    <3>2. t \in Seq(S) /\ Len(t) = 1 - 1
      BY <1>1, <1>3, <2>1, <3>1
    <3>3. Len(t) = 0
      BY <3>2
    <3>4. QED
      BY <2>1, <3>2, <3>3
  <2>2. CASE Len(s) = 2
    <3>1. 2 \in Nat \ {0} /\ 1 \in 1..(2 - 1) /\ 1 + 1 = 2
      OBVIOUS
    <3>2. t \in Seq(S) /\ Len(t) = 2 - 1 /\ t[1] = s[1 + 1]
      BY <1>1, <1>3, <2>2, <3>1
    <3>3. Len(t) = 1 /\ t[1] = s[2]
      BY <3>2
    <3>4. QED
      BY <2>2, <3>2, <3>3
  <2>3. CASE Len(s) = 3
    <3>1. /\ 3 \in Nat \ {0} /\ 1 \in 1..(3 - 1) /\ 1 + 1 = 2
          /\ 2 \in 1..(3 - 1) /\ 2 + 1 = 3
      OBVIOUS
    <3>2. t \in Seq(S) /\ Len(t) = 3 - 1 /\ t[1] = s[1 + 1] /\ t[2] = s[2 + 1]
      BY <1>1, <1>3, <2>3, <3>1
    <3>3. Len(t) = 2 /\ t[1] = s[2] /\ t[2] = s[3]
      BY <3>2
    <3>4. QED
      BY <2>3, <3>2, <3>3
  <2>4. QED
    BY <2>1, <2>2, <2>3
<1>4. /\ Without(<<a>>, 1) = <<>>
      /\ Without(<<a, b>>, 1) = <<<<a, b>>[2]>>
      /\ Without(<<a, b, c>>, 1) = <<<<a, b, c>>[2], <<a, b, c>>[3]>>
  BY <1>2, <1>3
<1>5. <<a, b>>[2] = b /\ <<a, b, c>>[2] = b /\ <<a, b, c>>[3] = c
  OBVIOUS
<1>6. QED
  BY <1>4, <1>5

\* A sequence of one, two or three is not empty, and lengths tell them apart.
LEMMA ChangesDiffer ==
  ASSUME NEW a, NEW b, NEW c
  PROVE  <<a>> # <<>> /\ <<a, b>> # <<>> /\ <<a, b, c>> # <<>>
OBVIOUS

LEMMA InitOInv == Init => OInv
BY DEF Init, OInv, InOrder, Changed

\* A step that leaves nothing dirty and shows the medium as it is.
LEMMA CleanInOrder ==
  ASSUME esp' = cached', dirty' = <<>>, pc' # "install" \/ step' \in 1..3
  PROVE  OInv'
BY DEF OInv, InOrder, Changed

\* One more change after at most two.
LEMMA LastIn ==
  ASSUME NEW a, NEW b, NEW c
  PROVE  /\ Append(<<>>, a) = <<a>>
         /\ Append(<<a>>, b) = <<a, b>>
         /\ Append(<<a, b>>, c) = <<a, b, c>>
<1> DEFINE S == {a, b, c}
<1>1. /\ a \in S /\ b \in S /\ c \in S
      /\ <<>> \in Seq(S) /\ <<a>> \in Seq(S) /\ <<a, b>> \in Seq(S)
  OBVIOUS
<1> HIDE DEF S
<1>2. Append(<<>>, a) = <<a>>
  BY <1>1
<1>3. ASSUME NEW s \in Seq(S), NEW x \in S, NEW t, t = Append(s, x)
      PROVE  /\ Len(s) = 1 => t = <<s[1], x>>
             /\ Len(s) = 2 => t = <<s[1], s[2], x>>
  <2>1. /\ t \in Seq(S) /\ Len(t) = Len(s) + 1
        /\ \A i \in 1..Len(s) : t[i] = s[i]
        /\ t[Len(s) + 1] = x
    BY <1>3, AppendProperties
  <2>2. Len(s) = 1 => Len(t) = 2 /\ t[1] = s[1] /\ t[2] = x
    BY <2>1
  <2>3. Len(s) = 2 => Len(t) = 3 /\ t[1] = s[1] /\ t[2] = s[2] /\ t[3] = x
    BY <2>1
  <2>4. QED
    BY <2>1, <2>2, <2>3
<1>4. /\ Len(<<a>>) = 1 /\ <<a>>[1] = a
      /\ Len(<<a, b>>) = 2 /\ <<a, b>>[1] = a /\ <<a, b>>[2] = b
  OBVIOUS
<1>5. Append(<<a>>, b) = <<<<a>>[1], b>>
  BY <1>1, <1>3, <1>4
<1>6. Append(<<a, b>>, c) = <<<<a, b>>[1], <<a, b>>[2], c>>
  BY <1>1, <1>3, <1>4
<1>7. QED
  BY <1>2, <1>4, <1>5, <1>6

LEMMA ChangeInOrder ==
  ASSUME IInv, OInv, RenameUki \/ TruncateStamp \/ WriteStamp
  PROVE  OInv'
<1> SUFFICES ASSUME ordered PROVE InOrder' /\ Changed'
  BY ChangeShape DEF OInv
<1>0. InOrder /\ Changed /\ TypeOK
  BY DEF OInv, IInv
<1>1. /\ pc = "install" /\ pc' = "install" /\ step' = step + 1
      /\ golden \in Digest /\ golden' = golden /\ esp' = esp
      /\ cached \in Esp
  BY <1>0, ChangeShape DEF TypeOK
<1>2. /\ NewImage' = NewImage /\ Renamed' = Renamed
      /\ Emptied' = Emptied /\ Stamped' = Stamped
  BY <1>1 DEF NewImage, Renamed, Emptied, Stamped
<1>3. CASE RenameUki
  <2>1. /\ step = 3 /\ dirty = <<>> /\ step' = 4
    BY <1>0, <1>1, <1>3, AtStep DEF RenameUki, IInv, CleanBefore
  <2>2. dirty' = Append(dirty, Renamed) /\ cached' = [cached EXCEPT !.live = NewImage]
    BY <1>3, <2>1 DEF RenameUki, Change, IInv, StagedIsWhole, Renamed, NewImage,
                      At
  <2>3. dirty' = <<Renamed>> /\ cached'.live = NewImage
        /\ cached'.stamp = cached.stamp
    BY <1>1, <2>1, <2>2, LastIn DEF Esp
  <2>4. esp = cached
    BY <1>0, <1>1, <2>1, ChangesDiffer DEF InOrder
  <2>5. QED
    BY <1>1, <1>2, <2>1, <2>3, <2>4 DEF InOrder, Changed
<1>4. CASE TruncateStamp
  <2>1. step = 4 /\ step' = 5 /\ cached.live = NewImage
        /\ dirty \in {<<>>, <<Renamed>>}
    BY <1>0, <1>1, <1>4, AtStep DEF TruncateStamp, Changed
  <2>2. dirty' = Append(dirty, Emptied) /\ cached' = [cached EXCEPT !.stamp = Blank]
    BY <1>4 DEF TruncateStamp, Change, Emptied
  <2>3. dirty' \in {<<Emptied>>, <<Renamed, Emptied>>}
        /\ cached'.live = NewImage /\ cached'.stamp = Blank
    BY <1>1, <2>1, <2>2, LastIn DEF Esp
  <2>4. dirty = <<>> => esp = cached
    BY <1>0, <1>1, ChangesDiffer DEF InOrder
  <2>5. CASE dirty = <<>>
    <3>1. dirty' = <<Emptied>> /\ esp.live = NewImage
      BY <2>1, <2>2, <2>4, <2>5, LastIn
    <3>2. QED
      BY <1>1, <1>2, <2>1, <2>3, <3>1 DEF InOrder, Changed
  <2>6. CASE dirty = <<Renamed>>
    <3>1. dirty' = <<Renamed, Emptied>>
      BY <2>2, <2>6, LastIn
    <3>2. QED
      BY <1>1, <1>2, <2>1, <2>3, <3>1 DEF InOrder, Changed
  <2>7. QED
    BY <2>1, <2>5, <2>6
<1>5. CASE WriteStamp
  <2>1. step = 5 /\ step' = 6 /\ cached.live = NewImage
        /\ dirty \in {<<>>, <<Renamed, Emptied>>, <<Emptied>>}
    BY <1>0, <1>1, <1>5, AtStep DEF WriteStamp, Changed
  <2>2. dirty' = Append(dirty, Stamped) /\ cached' = [cached EXCEPT !.stamp = golden]
    BY <1>5 DEF WriteStamp, Change, Stamped
  <2>3. cached'.live = NewImage /\ cached'.stamp = golden
    BY <1>1, <2>1, <2>2 DEF Esp
  <2>4. Changed'
    BY <1>1, <1>2, <2>1, <2>3 DEF Changed
  <2>5. CASE dirty = <<>>
    <3>1. dirty' = <<Stamped>> /\ esp = cached
      BY <1>0, <1>1, <2>2, <2>5, LastIn, ChangesDiffer DEF InOrder
    <3>2. QED
      BY <1>1, <1>2, <2>1, <2>3, <2>4, <3>1 DEF InOrder
  <2>6. CASE dirty = <<Renamed, Emptied>>
    <3>1. dirty' = <<Renamed, Emptied, Stamped>>
      BY <2>2, <2>6, LastIn
    <3>2. QED
      BY <1>1, <1>2, <2>1, <2>3, <2>4, <3>1 DEF InOrder
  <2>7. CASE dirty = <<Emptied>>
    <3>1. dirty' = <<Emptied, Stamped>>
      BY <2>2, <2>7, LastIn
    <3>2. esp.live = NewImage
      <4>1. dirty # <<>> /\ dirty # <<Renamed>> /\ dirty # <<Renamed, Emptied>>
            /\ dirty # <<Renamed, Emptied, Stamped>>
        BY <2>7 DEF Renamed, Emptied
      <4>2. QED
        BY <1>0, <1>1, <4>1 DEF InOrder
    <3>3. QED
      BY <1>1, <1>2, <2>1, <2>3, <2>4, <3>1, <3>2 DEF InOrder
  <2>8. QED
    BY <2>1, <2>5, <2>6, <2>7
<1>6. QED
  BY <1>3, <1>4, <1>5

\* In order, the oldest change is the one written back.
LEMMA WriteBackShape1 ==
  ASSUME IInv, InOrder, ordered, WriteBack
  PROVE  /\ pc # "off" /\ golden \in Digest /\ cached.live = NewImage
         /\ \/ /\ dirty[1] = Renamed /\ esp' = [esp EXCEPT !.live = NewImage]
               /\ \/ dirty' = <<>> /\ esp.stamp = cached.stamp
                  \/ dirty' = <<Emptied>> /\ cached.stamp = Blank
                  \/ dirty' = <<Emptied, Stamped>> /\ cached.stamp = golden
            \/ /\ dirty[1] = Emptied /\ esp' = [esp EXCEPT !.stamp = Blank]
               /\ esp.live = NewImage
               /\ \/ dirty' = <<>> /\ cached.stamp = Blank
                  \/ dirty' = <<Stamped>> /\ cached.stamp = golden
            \/ /\ dirty[1] = Stamped /\ esp' = [esp EXCEPT !.stamp = golden]
               /\ esp.live = NewImage
               /\ dirty' = <<>> /\ cached.stamp = golden
<1>1. /\ 1 \in 1..Len(dirty) /\ dirty' = Without(dirty, 1)
      /\ \/ /\ dirty[1].item = "live"
            /\ esp' = [esp EXCEPT !.live = dirty[1].value]
         \/ /\ dirty[1].item = "stamp"
            /\ esp' = [esp EXCEPT !.stamp = dirty[1].value]
  BY WriteBackShape
<1>2. dirty # <<>>
  <2>1. dirty = <<>> => Len(dirty) = 0
    OBVIOUS
  <2>2. QED
    BY <1>1, <2>1
<1>3. pc # "off" /\ golden \in Digest /\ cached.live = NewImage
  BY <1>2 DEF IInv, CleanBefore, InOrder
<1>4. /\ Renamed.item = "live" /\ Renamed.value = NewImage
      /\ Emptied.item = "stamp" /\ Emptied.value = Blank
      /\ Stamped.item = "stamp" /\ Stamped.value = golden
  BY DEF Renamed, Emptied, Stamped
<1>5. \A a, b, c : /\ Without(<<a>>, 1) = <<>>
                   /\ Without(<<a, b>>, 1) = <<b>>
                   /\ Without(<<a, b, c>>, 1) = <<b, c>>
  BY FirstOut
<1>6. ASSUME NEW a, NEW b, NEW c
      PROVE  <<a>>[1] = a /\ <<a, b>>[1] = a /\ <<a, b, c>>[1] = a
  OBVIOUS
<1>7. CASE dirty = <<Renamed>> /\ esp.stamp = cached.stamp
  <2>1. dirty' = <<>> /\ dirty[1] = Renamed
    BY <1>1, <1>7, <1>5, <1>6
  <2>2. QED
    BY <1>1, <1>3, <1>4, <1>7, <2>1
<1>8. CASE dirty = <<Renamed, Emptied>> /\ cached.stamp = Blank
  <2>1. dirty' = <<Emptied>> /\ dirty[1] = Renamed
    BY <1>1, <1>8, <1>5, <1>6
  <2>2. QED
    BY <1>1, <1>3, <1>4, <1>8, <2>1
<1>9. CASE dirty = <<Renamed, Emptied, Stamped>> /\ cached.stamp = golden
  <2>1. dirty' = <<Emptied, Stamped>> /\ dirty[1] = Renamed
    BY <1>1, <1>9, <1>5, <1>6
  <2>2. QED
    BY <1>1, <1>3, <1>4, <1>9, <2>1
<1>10. CASE dirty = <<Emptied>> /\ esp.live = NewImage /\ cached.stamp = Blank
  <2>1. dirty' = <<>> /\ dirty[1] = Emptied
    BY <1>1, <1>10, <1>5, <1>6
  <2>2. QED
    BY <1>1, <1>3, <1>4, <1>10, <2>1
<1>11. CASE dirty = <<Emptied, Stamped>> /\ esp.live = NewImage
            /\ cached.stamp = golden
  <2>1. dirty' = <<Stamped>> /\ dirty[1] = Emptied
    BY <1>1, <1>11, <1>5, <1>6
  <2>2. QED
    BY <1>1, <1>3, <1>4, <1>11, <2>1
<1>12. CASE dirty = <<Stamped>> /\ esp.live = NewImage /\ cached.stamp = golden
  <2>1. dirty' = <<>> /\ dirty[1] = Stamped
    BY <1>1, <1>12, <1>5, <1>6
  <2>2. QED
    BY <1>1, <1>3, <1>4, <1>12, <2>1
<1>13. QED
  BY <1>2, <1>3, <1>7, <1>8, <1>9, <1>10, <1>11, <1>12 DEF InOrder

LEMMA WriteBackInOrder ==
  ASSUME IInv, OInv, WriteBack
  PROVE  OInv'
<1> SUFFICES ASSUME ordered PROVE InOrder' /\ Changed'
  BY WriteBackShape DEF OInv
<1>0. InOrder /\ Changed /\ esp \in Esp /\ cached \in Esp
  BY DEF OInv, IInv, TypeOK
<1>1. UNCHANGED <<golden, latest, ordered, cached, staged, pc, step, faults>>
  BY WriteBackShape
<1>2. /\ NewImage' = NewImage /\ Renamed' = Renamed
      /\ Emptied' = Emptied /\ Stamped' = Stamped
  BY <1>1 DEF NewImage, Renamed, Emptied, Stamped
<1>3. /\ cached.live = NewImage
      /\ esp'.live = NewImage
      /\ dirty' = <<>> => esp'.stamp = cached.stamp
      /\ \/ dirty' = <<>>
         \/ dirty' = <<Emptied>> /\ cached.stamp = Blank
         \/ dirty' = <<Emptied, Stamped>> /\ cached.stamp = golden
         \/ dirty' = <<Stamped>> /\ cached.stamp = golden
  BY <1>0, WriteBackShape1, ChangesDiffer DEF Esp
<1>4. dirty' = <<>> => esp' = cached
  <2>1. esp' \in Esp
    BY WriteBackKeeps DEF IInv, TypeOK
  <2>2. QED
    BY <1>0, <1>3, <2>1 DEF Esp
<1>5. InOrder'
  BY <1>0, <1>1, <1>2, <1>3, <1>4, WriteBackShape1 DEF InOrder
<1>6. Changed'
  <2>1. step = 4 /\ pc = "install" => dirty' = <<>>
    <3>1. dirty = <<Renamed>> => dirty' = <<>>
      <4>1. dirty = <<Renamed>> => dirty' = Without(<<Renamed>>, 1)
        BY <1>0, WriteBackShape
      <4>2. Without(<<Renamed>>, 1) = <<>>
        BY FirstOut
      <4>3. QED
        BY <4>1, <4>2
    <3>2. dirty # <<>>
      <4>1. dirty = <<>> => Len(dirty) = 0
        OBVIOUS
      <4>2. QED
        BY <4>1, WriteBackShape
    <3>3. QED
      BY <1>0, <3>1, <3>2 DEF Changed
  <2>2. step = 5 /\ pc = "install" => dirty' \in {<<>>, <<Emptied>>}
    <3>1. step = 5 /\ pc = "install" => cached.stamp = Blank
      BY <1>0 DEF Changed
    <3>2. golden # Blank
      BY WriteBackShape1, <1>0, MediaAssumption
    <3>3. QED
      BY <1>3, <3>1, <3>2
  <2>3. QED
    BY <1>0, <1>1, <1>2, <2>1, <2>2 DEF Changed
<1>7. QED
  BY <1>5, <1>6

LEMMA NextOInv == IInv /\ OInv /\ [Next]_vars => OInv'
<1> SUFFICES ASSUME IInv, OInv, [Next]_vars PROVE OInv'
  OBVIOUS
<1>0. TypeOK /\ CleanBefore
  BY DEF IInv
<1>1. CASE UNCHANGED vars
  BY <1>1 DEF vars, OInv, InOrder, Changed, NewImage, Renamed, Emptied, Stamped
<1>2. CASE Boot
  BY <1>0, <1>2, CleanInOrder DEF CleanBefore, Boot
<1>3. CASE MountEsp \/ MountFails \/ NothingToDo \/ BeginInstall
  <2>1. /\ dirty = <<>> /\ pc \in {"mount", "compare"}
        /\ pc' # "install" \/ step' = 1
        /\ UNCHANGED <<ordered, esp, cached, dirty>>
    BY <1>0, <1>3 DEF CleanBefore, MountEsp, MountFails, NothingToDo,
                      BeginInstall, outside
  <2>2. ordered => esp = cached
    BY <2>1, ChangesDiffer DEF OInv, InOrder
  <2>3. QED
    BY <2>1, <2>2, CleanInOrder DEF OInv
<1>4. CASE CopyUki \/ SyncStaged
  <2>1. /\ dirty = <<>> /\ pc = "install" /\ step' \in 1..3
        /\ UNCHANGED <<ordered, esp, cached, dirty>>
    BY <1>0, <1>4, AtStep, AdvanceTo DEF CleanBefore, CopyUki, SyncStaged
  <2>2. ordered => esp = cached
    BY <2>1, ChangesDiffer DEF OInv, InOrder
  <2>3. QED
    BY <2>1, <2>2, CleanInOrder DEF OInv
<1>5. CASE RenameUki \/ TruncateStamp \/ WriteStamp
  BY <1>5, ChangeInOrder
<1>6. CASE SyncStamp
  <2>1. /\ pc = "install" /\ pc' = "install" /\ step = 6 /\ step' = 7
        /\ UNCHANGED <<golden, ordered, cached>>
        /\ ordered => esp' = cached /\ dirty' = <<>>
    BY <1>0, <1>6, AtStep, AdvanceTo DEF SyncStamp
  <2>2. ordered => cached.live = NewImage
    BY <2>1 DEF OInv, Changed
  <2>3. QED
    BY <2>1, <2>2 DEF OInv, InOrder, Changed, NewImage
<1>7. CASE Flush
  BY <1>0, <1>7, AtStep, AdvanceTo, CleanInOrder DEF Flush
<1>8. CASE Unmount \/ Reboot
  BY <1>8, CleanInOrder DEF Unmount, Reboot
<1>9. CASE InstallFails \/ UnmountFails
  <2>1. /\ pc # "off" /\ pc' \in {"umount", "running"}
        /\ UNCHANGED <<golden, ordered, esp, cached, dirty>>
    BY <1>9 DEF InstallFails, UnmountFails, outside
  <2>2. QED
    BY <2>1 DEF OInv, InOrder, Changed, NewImage, Renamed, Emptied, Stamped
<1>10. CASE WriteBack
  BY <1>10, WriteBackInOrder
<1>11. CASE PowerCut
  BY <1>11 DEF PowerCut, OInv, InOrder, Changed
<1>12. QED
  BY <1>1, <1>2, <1>3, <1>4, <1>5, <1>6, <1>7, <1>8, <1>9, <1>10, <1>11
  DEF Next, Refresh

LEMMA AlwaysOInv == Spec => [](IInv /\ OInv)
BY InitIInv, NextIInv, InitOInv, NextOInv, PTL DEF Spec

\* On a file system that keeps the order, a stamp reaches the medium with the
\* image it names, or after it.
THEOREM StampFollows == Spec => StampFollowsImage
<1>1. IInv /\ OInv /\ [Next]_vars =>
        (ordered /\ esp'.stamp # esp.stamp /\ esp'.stamp \in Digest =>
           esp'.live.of = esp'.stamp)
  <2> SUFFICES ASSUME IInv, OInv, [Next]_vars,
                      ordered, esp'.stamp # esp.stamp, esp'.stamp \in Digest
               PROVE  esp'.live.of = esp'.stamp
    OBVIOUS
  <2>0. /\ TypeOK /\ InOrder /\ Changed /\ esp \in Esp /\ cached \in Esp
        /\ NewImage.of = golden /\ Blank \notin Digest
    BY MediaAssumption DEF IInv, OInv, TypeOK, NewImage
  <2>1. CASE esp' = cached /\ pc # "off"
    <3>1. ~(dirty = <<>> /\ esp = cached)
      BY <2>1
    <3>2. golden \in Digest /\ cached.live = NewImage /\ cached.stamp = golden
      BY <2>0, <2>1, <3>1 DEF InOrder
    <3>3. QED
      BY <2>0, <2>1, <3>2
  <2>2. CASE WriteBack
    <3>1. esp'.stamp = golden /\ esp'.live = NewImage
      BY <2>0, <2>2, WriteBackShape1 DEF Esp
    <3>2. QED
      BY <2>0, <3>1
  <2>3. CASE esp' = esp
    BY <2>3
  <2>4. (esp' = cached /\ pc # "off") \/ WriteBack \/ esp' = esp
    BY DEF vars, Next, Boot, PowerCut, Reboot,
           Refresh, MountEsp, MountFails, NothingToDo, BeginInstall, CopyUki,
           SyncStaged, RenameUki, TruncateStamp, WriteStamp, SyncStamp, Flush,
           InstallFails, Unmount, UnmountFails, At, Change
  <2>5. QED
    BY <2>1, <2>2, <2>3, <2>4
<1>2. QED
  BY <1>1, AlwaysOInv, PTL DEF Spec, StampFollowsImage

-----------------------------------------------------------------------------
(***************************************************************************)
(* A machine that never goes back to an older golden.                      *)
(***************************************************************************)

LEMMA InitHonest == Init => Honest
<1> SUFFICES ASSUME Init PROVE Honest
  OBVIOUS
<1>1. golden \notin Digest /\ cached = esp
  BY MediaAssumption DEF Init
<1>2. esp.stamp \in Digest => esp.stamp = esp.live.of /\ latest = esp.stamp
  BY MediaAssumption DEF Init
<1>3. Named(esp)
  BY <1>2 DEF Named, Digest
<1>4. QED
  BY <1>1, <1>3 DEF Honest

\* What install makes of a medium that can be told from its stamp.
LEMMA NamedKept ==
  ASSUME NEW e \in Esp, Named(e), NEW f \in Esp, golden \in Digest,
         latest \in Digest, golden = latest,
         \/ f = [e EXCEPT !.live = NewImage]
         \/ f = [e EXCEPT !.stamp = Blank]
         \/ f = [e EXCEPT !.stamp = golden] /\ e.live = NewImage
  PROVE  Named(f)
<1>0. NewImage.of = golden /\ Blank \notin Digest /\ latest \in Nat
  BY MediaAssumption DEF NewImage, Digest
<1>1. CASE f = [e EXCEPT !.live = NewImage]
  <2>1. f.stamp = e.stamp /\ f.live = NewImage
    BY <1>1 DEF Esp
  <2>2. e.stamp \in Digest => e.stamp \in Nat
    BY DEF Digest
  <2>3. QED
    BY <1>0, <2>1, <2>2 DEF Named
<1>2. CASE f = [e EXCEPT !.stamp = Blank]
  BY <1>0, <1>2 DEF Named, Esp
<1>3. CASE f = [e EXCEPT !.stamp = golden] /\ e.live = NewImage
  <2>1. f.stamp = golden /\ f.live = NewImage
    BY <1>3 DEF Esp
  <2>2. QED
    BY <1>0, <2>1 DEF Named
<1>4. QED
  BY <1>1, <1>2, <1>3

LEMMA NextHonest ==
  ASSUME ~Rollback
  PROVE  IInv /\ OInv /\ Honest /\ [Next]_vars => Honest'
<1> SUFFICES ASSUME IInv, OInv, Honest, [Next]_vars PROVE Honest'
  OBVIOUS
<1>0. /\ TypeOK /\ esp \in Esp /\ cached \in Esp /\ latest \in Digest
      /\ golden \in Digest \cup {None} /\ None \notin Digest
      /\ latest \in Nat
  BY MediaAssumption DEF IInv, TypeOK, Digest
<1>1. IInv'
  BY NextIInv
<1>2. esp' \in Esp /\ cached' \in Esp
  BY <1>1 DEF IInv, TypeOK
<1>3. CASE Boot
  <2>1. /\ golden' \in {d \in Digest : d >= latest} \cup {None}
        /\ latest' = IF golden' = None THEN latest ELSE golden'
        /\ esp' = esp /\ cached' = esp /\ ordered' = ordered
    BY <1>3 DEF Boot
  <2>2. latest' \in Nat /\ latest <= latest'
    BY <1>0, <2>1 DEF Digest
  <2>3. golden' \in Digest => golden' = latest'
    BY <1>0, <2>1
  <2>4. Named(esp) => Named(esp)'
    <3>1. esp.stamp \in Digest => esp.stamp \in Nat
      BY DEF Digest
    <3>2. QED
      BY <1>0, <2>1, <2>2, <3>1 DEF Named
  <2>5. Named(esp)' => Named(cached)'
    BY <2>1 DEF Named
  <2>6. QED
    BY <2>1, <2>3, <2>4, <2>5 DEF Honest
<1>4. CASE UNCHANGED <<golden, latest, ordered>> /\ cached' = cached
           /\ (esp' = esp \/ esp' = cached \/ (~ordered /\ ~WriteBack))
  BY <1>4 DEF Honest, Named
<1>5. CASE WriteBack
  <2>1. UNCHANGED <<golden, latest, ordered, cached>>
    BY <1>5, WriteBackShape
  <2>2. ordered => Named(esp')
    <3> SUFFICES ASSUME ordered PROVE Named(esp')
      OBVIOUS
    <3>1. /\ golden \in Digest
          /\ \/ esp' = [esp EXCEPT !.live = NewImage]
             \/ esp' = [esp EXCEPT !.stamp = Blank]
             \/ esp' = [esp EXCEPT !.stamp = golden] /\ esp.live = NewImage
      BY <1>5, WriteBackShape1 DEF OInv
    <3>2. Named(esp) /\ golden = latest
      BY <3>1 DEF Honest
    <3>3. QED
      BY <1>0, <1>2, <3>1, <3>2, NamedKept
  <2>3. QED
    BY <2>1, <2>2 DEF Honest, Named
<1>6. CASE RenameUki \/ TruncateStamp \/ WriteStamp
  <2>1. /\ UNCHANGED <<golden, latest, ordered, esp>>
        /\ golden \in Digest /\ golden = latest /\ pc = "install"
    BY <1>6, ChangeShape
  <2>2. ordered => Named(cached')
    <3> SUFFICES ASSUME ordered PROVE Named(cached')
      OBVIOUS
    <3>1. \/ cached' = [cached EXCEPT !.live = NewImage]
          \/ cached' = [cached EXCEPT !.stamp = Blank]
          \/ cached' = [cached EXCEPT !.stamp = golden] /\ step = 5
      BY <1>6, ChangeShape DEF NewImage
    <3>2. step = 5 => cached.live = NewImage
      BY <2>1 DEF OInv, Changed
    <3>3. Named(cached)
      BY DEF Honest
    <3>4. QED
      BY <1>0, <1>2, <2>1, <3>1, <3>2, <3>3, NamedKept
  <2>3. QED
    BY <2>1, <2>2 DEF Honest, Named
<1>7. Boot \/ WriteBack \/ RenameUki \/ TruncateStamp \/ WriteStamp
      \/ (/\ UNCHANGED <<golden, latest, ordered>> /\ cached' = cached
          /\ (esp' = esp \/ esp' = cached \/ ~ordered))
  BY DEF vars, Next, PowerCut, Reboot, outside, Advance,
         Refresh, MountEsp, MountFails, NothingToDo, BeginInstall, CopyUki,
         SyncStaged, SyncStamp, Flush, InstallFails, Unmount, UnmountFails
<1>8. QED
  BY <1>3, <1>4, <1>5, <1>6, <1>7

\* On a machine that never goes back, whatever was interrupted, a medium that
\* a pass takes for current carries the image of the golden.
THEOREM CurrentInstalled ==
  ASSUME ~Rollback
  PROVE  Spec => []CurrentIsInstalled
<1>1. IInv /\ Honest => CurrentIsInstalled
  <2> SUFFICES ASSUME IInv, Honest, ordered, pc = "compare", cached.stamp = golden
               PROVE  cached.live.of = golden
    BY DEF CurrentIsInstalled, Current
  <2>1. golden \in Digest /\ golden = latest /\ golden \in Nat
    BY DEF IInv, GoldenIsLatest, Digest
  <2>2. QED
    BY <2>1 DEF Honest, Named
<1>2. Init => Honest
  BY InitHonest
<1>3. IInv /\ OInv /\ Honest /\ [Next]_vars => Honest'
  BY NextHonest
<1>4. QED
  BY <1>1, <1>2, <1>3, AlwaysOInv, PTL DEF Spec
=============================================================================
