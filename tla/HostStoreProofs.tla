-------------------------- MODULE HostStoreProofs --------------------------
(***************************************************************************)
(* Proofs about HostStore, for every set of addresses, records, contents   *)
(* and overlapping reloads, on a clock that tells edits apart.             *)
(*                                                                         *)
(* That the stored time vouches for the stored records is not inductive:   *)
(* a reload that is about to store brings a time and records of its own.   *)
(* Two facts carry it over: every time that anybody holds is one the clock *)
(* has shown, so the next edit gets another; and what a reload has read is *)
(* the file's content as long as the time it took is the file's.           *)
(***************************************************************************)
EXTENDS HostStore, TLAPS, FiniteSetTheorems, WellFoundedInduction

AnyCaller == Caller \cup {Main}

\* Every time held is in the past of the clock.
Clocked ==
  /\ disk # None => disk.mtime <= clock
  /\ mtime # None => mtime <= clock
  /\ \A c \in AnyCaller : call[c].stamp # None => call[c].stamp <= clock

\* What is about to be stored was read after its time was taken.
InHand ==
  \A c \in AnyCaller :
    call[c].pc = "store" =>
      /\ call[c].raw \in Contents
      /\ disk # None /\ call[c].stamp = disk.mtime =>
           disk.content = call[c].raw

IInv == TypeOK /\ Clocked /\ InHand /\ StampVouches

-----------------------------------------------------------------------------
\* A set of positions that is not empty has a last one.
LEMMA LastPosition ==
  ASSUME NEW n \in Nat, NEW at \in SUBSET (1..n), at # {}
  PROVE  \E i \in at : \A j \in at : j <= i
<1> DEFINE T == {k \in Nat : \E i \in at : k = n - i}
           R == OpToRel(<, Nat)
<1>1. T \subseteq Nat /\ T # {}
  <2>1. PICK i \in at : TRUE
    OBVIOUS
  <2>2. n - i \in T
    BY <2>1
  <2> QED
    BY <2>2
<1>2. PICK x \in T : \A y \in T : ~(<<y, x>> \in R)
  <2>1. IsWellFoundedOn(R, Nat)
    BY NatLessThanWellFounded
  <2> HIDE DEF T, R
  <2> QED
    BY <1>1, <2>1, WFMin
<1>3. \A y \in T : ~(y < x)
  BY <1>1, <1>2 DEF OpToRel
<1>4. PICK i \in at : x = n - i
  OBVIOUS
<1>5. \A j \in at : j <= i
  <2> TAKE j \in at
  <2>1. n - j \in T
    OBVIOUS
  <2>2. ~(n - j < n - i)
    BY <1>3, <1>4, <2>1
  <2> QED
    BY <2>2
<1> QED
  BY <1>5

\* Loading a list makes a layer of it.
LEMMA RecordsType ==
  ASSUME NEW content \in Contents
  PROVE  Records(content) \in Layer
<1>1. content \in Seq([mac : Mac, rec : Rec])
  BY HostAssumption
<1>2. ASSUME NEW m \in Mac,
             NEW at, at = {i \in 1..Len(content) : content[i].mac = m}, at # {}
      PROVE  content[CHOOSE i \in at : \A j \in at : j <= i].rec \in Rec
  <2>1. Len(content) \in Nat /\ at \in SUBSET (1..Len(content))
    BY <1>1, <1>2
  <2>2. \E i \in at : \A j \in at : j <= i
    BY <1>2, <2>1, LastPosition
  <2> DEFINE last == CHOOSE i \in at : \A j \in at : j <= i
  <2>3. last \in 1..Len(content)
    BY <2>1, <2>2
  <2> HIDE DEF last
  <2>4. \A S : content \in Seq(S) => content[last] \in S
    BY <2>3
  <2>5. content[last].rec \in Rec
    BY <1>1, <2>4
  <2> QED
    BY <2>5 DEF last
<1> QED
  BY <1>2 DEF Records, Layer

\* A layer has finitely many records.
LEMMA SizeType ==
  ASSUME NEW layer
  PROVE  Size(layer) \in Nat
BY HostAssumption, FS_Subset, FS_CardinalityType DEF Size

-----------------------------------------------------------------------------
\* A caller that asks for nothing.
LEMMA IdleType ==
  Idle \in Call
BY DEF Idle, Call, Stamp

\* A reload begins with the time it took and nothing read.
LEMMA BeginIs ==
  ASSUME NEW stamp \in Stamp
  PROVE  /\ Begin(stamp) \in Call
         /\ Begin(stamp).pc = "compare"
         /\ Begin(stamp).stamp = stamp
BY DEF Begin, Call

\* The time a reload takes is one the clock has shown.
LEMMA StatIs ==
  ASSUME TypeOK, Clocked
  PROVE  Stat \in Stamp /\ (Stat # None => Stat <= clock)
BY DEF TypeOK, Clocked, Stat, Stamp, File

\* A reload that has answered holds neither a time nor a content.
LEMMA AnsweredIs ==
  ASSUME TypeOK, NEW c \in AnyCaller, NEW n \in Nat \cup {None}
  PROVE  /\ Answered(c, n) \in [AnyCaller -> Call]
         /\ Answered(c, n)[c].pc = "idle"
         /\ Answered(c, n)[c].stamp = None
         /\ \A d \in AnyCaller \ {c} : Answered(c, n)[d] = call[d]
<1> DEFINE new == [pc |-> "idle", stamp |-> None, raw |-> None,
                   quiet |-> call[c].quiet, answer |-> n]
<1>1. Answered(c, n) = [call EXCEPT ![c] = new]
  BY DEF Answered
<1>2. call \in [AnyCaller -> Call]
  BY DEF TypeOK, AnyCaller
<1>3. new \in Call
  BY <1>2 DEF Call, Stamp
<1>4. new.pc = "idle" /\ new.stamp = None
  OBVIOUS
<1> HIDE DEF new
<1> QED
  BY <1>1, <1>2, <1>3, <1>4

-----------------------------------------------------------------------------
\* The invariant speaks of these variables; a step that leaves them alone and
\* keeps the types keeps it.
Held == <<disk, clock, file, mtime, call>>

LEMMA OtherStepsKeep ==
  ASSUME IInv, TypeOK', UNCHANGED Held
  PROVE  IInv'
BY DEF IInv, Clocked, InHand, StampVouches, InStep, Held

\* A start: one reload is under way, and has read nothing.
LEMMA StartsAfresh ==
  ASSUME TypeOK, Clocked,
         NEW new, new = [c \in AnyCaller |-> IF c = Main THEN Begin(Stat) ELSE Idle]
  PROVE  /\ new \in [AnyCaller -> Call]
         /\ \A c \in AnyCaller : /\ new[c].pc # "store"
                                 /\ new[c].stamp # None => new[c].stamp <= clock
<1>1. Idle.pc = "idle" /\ Idle.stamp = None
  BY DEF Idle
<1> QED
  BY <1>1, IdleType, StatIs, BeginIs

\* The process has started and nothing has been read.
LEMMA InitHolds ==
  Init => IInv
<1> SUFFICES ASSUME Init PROVE IInv
  OBVIOUS
<1> DEFINE new == [c \in AnyCaller |-> IF c = Main THEN Begin(Stat) ELSE Idle]
<1>1. disk \in File \cup {None} /\ (disk # None => disk.mtime = 0)
  BY DEF Init, File
<1>2. Stat \in Stamp /\ (Stat # None => Stat <= clock)
  BY <1>1 DEF Stat, Stamp, Init
<1>3. Idle.pc = "idle" /\ Idle.stamp = None
  BY DEF Idle
<1>4. call = new
  BY DEF Init, AnyCaller
<1>5. call \in [AnyCaller -> Call]
  BY <1>2, <1>4, IdleType, BeginIs
<1>6. TypeOK
  <2>1. NoRecords \in Layer
    BY DEF NoRecords, Layer
  <2>2. /\ clock = 0 /\ file = NoRecords /\ mtime = None /\ cluster \in Layer
        /\ kube = NoRecords /\ synced = FALSE /\ known = {}
        /\ changes = MaxChanges
    BY DEF Init
  <2>3. changes \in 0..MaxChanges
    BY <2>2, HostAssumption
  <2> QED
    BY <1>1, <1>5, <2>1, <2>2, <2>3 DEF TypeOK, Stamp, AnyCaller
<1>7. Clocked /\ InHand
  BY <1>1, <1>2, <1>3, <1>4, BeginIs DEF Clocked, InHand, Init
<1>8. StampVouches
  BY <1>1, HostAssumption DEF StampVouches, Init, File
<1> QED
  BY <1>6, <1>7, <1>8 DEF IInv

\* Changes to the file.
LEMMA FileStepsKeep ==
  ASSUME IInv, SameTick = FALSE, EditFile \/ RemoveFile
  PROVE  IInv'
<1> USE DEF IInv
<1>1. call' \in [AnyCaller -> Call]
  <2>1. call \in [AnyCaller -> Call] /\ call' = Disturbed
    BY DEF TypeOK, AnyCaller, EditFile, RemoveFile
  <2>2. \A c \in AnyCaller : [call[c] EXCEPT !.quiet = FALSE] \in Call
    BY <2>1 DEF Call
  <2> QED
    BY <2>1, <2>2, IdleType DEF Disturbed, AnyCaller
<1>2. \A c \in AnyCaller :
        /\ call'[c].pc = "store" => call[c].pc = "store"
        /\ call'[c].pc = "store" => call'[c].raw = call[c].raw
        /\ call'[c].stamp = None \/ call'[c].stamp = call[c].stamp
  <2>1. call \in [AnyCaller -> Call] /\ call' = Disturbed
    BY DEF TypeOK, AnyCaller, EditFile, RemoveFile
  <2>2. Idle.pc = "idle" /\ Idle.stamp = None
    BY DEF Idle
  <2>3. \A c \in AnyCaller :
          /\ [call[c] EXCEPT !.quiet = FALSE].pc = call[c].pc
          /\ [call[c] EXCEPT !.quiet = FALSE].raw = call[c].raw
          /\ [call[c] EXCEPT !.quiet = FALSE].stamp = call[c].stamp
    BY <2>1 DEF Call
  <2> QED
    BY <2>1, <2>2, <2>3 DEF Disturbed, AnyCaller
<1>3. /\ changes' \in 0..MaxChanges
      /\ UNCHANGED <<file, mtime, cluster, kube, synced, known>>
  BY HostAssumption DEF EditFile, RemoveFile, Change, TypeOK
<1>4. CASE EditFile
  <2>1. /\ clock' = clock + 1
        /\ disk' \in File /\ disk'.mtime = clock + 1
    BY <1>4 DEF EditFile, TypeOK, File
  <2>3. TypeOK'
    BY <1>1, <1>3, <2>1 DEF TypeOK, AnyCaller
  <2>4. \A c \in AnyCaller :
          call[c].stamp # None => call[c].stamp <= clock /\ call[c].stamp \in Nat
    BY DEF TypeOK, Clocked, AnyCaller, Call, Stamp
  <2>5. clock \in Nat /\ (mtime # None => mtime \in Nat /\ mtime <= clock)
    BY DEF TypeOK, Clocked, Stamp
  <2>6. Clocked'
    BY <1>2, <1>3, <2>1, <2>4, <2>5 DEF Clocked
  <2>7. InHand'
    BY <1>2, <2>1, <2>4, <2>5, HostAssumption DEF InHand
  <2>8. StampVouches'
    BY <1>3, <2>1, <2>5, HostAssumption DEF StampVouches
  <2> QED
    BY <2>3, <2>6, <2>7, <2>8
<1>5. CASE RemoveFile
  <2>1. disk' = None /\ clock' = clock
    BY <1>5 DEF RemoveFile
  <2>2. TypeOK'
    BY <1>1, <1>3, <2>1 DEF TypeOK, AnyCaller
  <2>3. Clocked' /\ InHand' /\ StampVouches'
    BY <1>2, <1>3, <2>1 DEF Clocked, InHand, StampVouches
  <2> QED
    BY <2>2, <2>3
<1> QED
  BY <1>4, <1>5

\* The steps of a reload.
LEMMA ReloadKeeps ==
  ASSUME IInv, NEW c \in AnyCaller, ReloadBegins(c) \/ Reload(c)
  PROVE  IInv'
<1> USE DEF IInv
<1>1. call \in [AnyCaller -> Call] /\ call[c] \in Call
  BY DEF TypeOK, AnyCaller
<1>2. UNCHANGED <<disk, clock, cluster, kube, synced, known>>
  BY DEF ReloadBegins, Reload, ReloadCompares, ReloadReads, ReloadStores
<1>3. changes' \in 0..MaxChanges
  BY HostAssumption DEF ReloadBegins, Reload, ReloadCompares, ReloadReads,
       ReloadStores, Change, TypeOK
\* A reload that answers without storing, or has yet to read.
<1>4. ASSUME UNCHANGED <<file, mtime>>, call' \in [AnyCaller -> Call],
             \A d \in AnyCaller \ {c} : call'[d] = call[d],
             call'[c].stamp # None => call'[c].stamp <= clock,
             call'[c].pc # "store"
      PROVE  IInv'
  <2>1. TypeOK'
    BY <1>2, <1>3, <1>4 DEF TypeOK, AnyCaller
  <2>2. Clocked'
    BY <1>2, <1>4 DEF Clocked
  <2>3. InHand'
    BY <1>2, <1>4 DEF InHand
  <2>4. StampVouches'
    BY <1>2, <1>4 DEF StampVouches, InStep
  <2> QED
    BY <2>1, <2>2, <2>3, <2>4
<1>5. ASSUME NEW n \in Nat \cup {None}, call' = Answered(c, n), UNCHANGED <<file, mtime>>
      PROVE  IInv'
  BY <1>4, <1>5, AnsweredIs
<1>6. CASE ReloadBegins(c)
  <2>1. PICK stamp \in {Stat, None} : call' = [call EXCEPT ![c] = Begin(stamp)]
    BY <1>6 DEF ReloadBegins
  <2>2. stamp \in Stamp /\ (stamp # None => stamp <= clock)
    BY <2>1, StatIs DEF Stamp
  <2>3. UNCHANGED <<file, mtime>>
    BY <1>6 DEF ReloadBegins
  <2> QED
    BY <1>1, <1>4, <2>1, <2>2, <2>3, BeginIs
<1>7. CASE ReloadCompares(c)
  <2>1. UNCHANGED <<file, mtime>>
    BY <1>7 DEF ReloadCompares
  <2>2. CASE Unchanged(c)
    BY <1>5, <1>7, <2>1, <2>2, SizeType DEF ReloadCompares
  <2>3. CASE ~Unchanged(c)
    <3>1. call' = [call EXCEPT ![c].pc = "read"]
      BY <1>7, <2>3 DEF ReloadCompares
    <3>2. /\ [call[c] EXCEPT !.pc = "read"] \in Call
          /\ [call[c] EXCEPT !.pc = "read"].pc = "read"
          /\ [call[c] EXCEPT !.pc = "read"].stamp = call[c].stamp
      BY <1>1 DEF Call
    <3>3. call[c].stamp # None => call[c].stamp <= clock
      BY DEF Clocked
    <3> QED
      BY <1>1, <1>4, <2>1, <3>1, <3>2, <3>3
  <2> QED
    BY <2>2, <2>3
<1>8. CASE ReloadReads(c)
  <2>1. UNCHANGED <<file, mtime>>
    BY <1>8 DEF ReloadReads
  <2>2. CASE \E n \in Nat \cup {None} : call' = Answered(c, n)
    BY <1>5, <2>1, <2>2
  <2>3. CASE /\ disk # None /\ disk.content \in Contents
             /\ call' = [call EXCEPT ![c].pc = "store", ![c].raw = disk.content]
    <3> DEFINE new == [call[c] EXCEPT !.pc = "store", !.raw = disk.content]
    <3>1. call' = [call EXCEPT ![c] = new]
      BY <1>1, <2>3
    <3>2. /\ new \in Call
          /\ new.pc = "store" /\ new.raw = disk.content
          /\ new.stamp = call[c].stamp
      BY <1>1, <2>3 DEF Call
    <3> HIDE DEF new
    <3>3. /\ call' \in [AnyCaller -> Call] /\ call'[c] = new
          /\ \A d \in AnyCaller \ {c} : call'[d] = call[d]
      BY <1>1, <3>1, <3>2
    <3>4. TypeOK'
      BY <1>2, <1>3, <2>1, <3>3 DEF TypeOK, AnyCaller
    <3>5. Clocked'
      BY <1>2, <2>1, <3>2, <3>3 DEF Clocked
    <3>6. InHand'
      BY <1>2, <2>3, <3>2, <3>3 DEF InHand
    <3>7. StampVouches'
      BY <1>2, <2>1 DEF StampVouches, InStep
    <3> QED
      BY <3>4, <3>5, <3>6, <3>7
  <2> QED
    BY <1>8, <2>2, <2>3 DEF ReloadReads
<1>9. CASE ReloadStores(c)
  <2>1. /\ call[c].pc = "store" /\ call[c].raw \in Contents
        /\ file' = Records(call[c].raw) /\ mtime' = call[c].stamp
    BY <1>9 DEF ReloadStores, InHand
  <2>2. call' = Answered(c, Len(call[c].raw)) /\ Len(call[c].raw) \in Nat
    BY <1>9, <2>1, HostAssumption DEF ReloadStores
  <2>3. /\ call' \in [AnyCaller -> Call]
        /\ call'[c].pc = "idle" /\ call'[c].stamp = None
        /\ \A d \in AnyCaller \ {c} : call'[d] = call[d]
    BY <2>2, AnsweredIs
  <2>4. file' \in Layer
    BY <2>1, RecordsType
  <2>5. mtime' \in Stamp /\ (mtime' # None => mtime' <= clock)
    BY <1>1, <2>1 DEF Call, Clocked
  <2>6. TypeOK'
    BY <1>2, <1>3, <2>3, <2>4, <2>5 DEF TypeOK, AnyCaller
  <2>7. Clocked'
    BY <1>2, <2>3, <2>5 DEF Clocked
  <2>8. InHand'
    BY <1>2, <2>3 DEF InHand
  <2>9. StampVouches'
    BY <1>2, <2>1, HostAssumption DEF StampVouches, InStep, InHand
  <2> QED
    BY <2>6, <2>7, <2>8, <2>9
<1> QED
  BY <1>6, <1>7, <1>8, <1>9 DEF Reload

\* The steps that neither the file nor a reload takes part in, and a start.
LEMMA ClusterStepsKeep ==
  ASSUME IInv, (\E m \in Mac : EditObject(m)) \/ Follow \/ Restart
  PROVE  IInv'
<1> USE DEF IInv
<1>1. CASE \E m \in Mac : EditObject(m)
  <2>1. PICK m \in Mac : EditObject(m)
    BY <1>1
  <2>2. /\ cluster' \in Layer /\ known' \subseteq Mac
        /\ changes' \in 0..MaxChanges
        /\ UNCHANGED <<kube, synced>> /\ UNCHANGED Held
    BY <2>1, HostAssumption DEF EditObject, Change, TypeOK, Layer, Held
  <2>3. TypeOK'
    BY <2>2 DEF TypeOK, Held
  <2> QED
    BY <2>2, <2>3, OtherStepsKeep
<1>2. CASE Follow
  <2>1. /\ kube' \in Layer /\ synced' \in BOOLEAN /\ known' \subseteq Mac
        /\ UNCHANGED <<cluster, changes>> /\ UNCHANGED Held
    BY <1>2 DEF Follow, set_kube_records, apply_kube_record,
         remove_kube_record, TypeOK, Layer, Held
  <2>2. TypeOK'
    BY <2>1 DEF TypeOK, Held
  <2> QED
    BY <2>1, <2>2, OtherStepsKeep
<1>3. CASE Restart
  <2>1. /\ file' \in Layer /\ kube' \in Layer
        /\ mtime' = None /\ synced' = FALSE
        /\ UNCHANGED <<disk, clock, cluster, known>>
    BY <1>3 DEF Restart, NoRecords, Layer
  <2>2. changes' \in 0..MaxChanges
    BY <1>3, HostAssumption DEF Restart, Change, TypeOK
  <2>3. call' = [c \in AnyCaller |-> IF c = Main THEN Begin(Stat) ELSE Idle]
    BY <1>3 DEF Restart, AnyCaller
  <2>4. /\ call' \in [AnyCaller -> Call]
        /\ \A c \in AnyCaller : /\ call'[c].pc # "store"
                                /\ call'[c].stamp # None => call'[c].stamp <= clock
    BY <2>3, StartsAfresh
  <2>5. TypeOK'
    BY <2>1, <2>2, <2>4 DEF TypeOK, AnyCaller, Stamp
  <2>6. Clocked' /\ InHand'
    BY <2>1, <2>4 DEF Clocked, InHand
  <2>7. StampVouches'
    BY <2>1, HostAssumption DEF StampVouches, TypeOK, File
  <2> QED
    BY <2>5, <2>6, <2>7
<1> QED
  BY <1>1, <1>2, <1>3

\* The invariant is inductive on a clock that tells edits apart.
LEMMA StepHolds ==
  ASSUME IInv, SameTick = FALSE, [Next]_vars
  PROVE  IInv'
<1>1. CASE UNCHANGED vars
  BY <1>1 DEF IInv, vars, TypeOK, Clocked, InHand, StampVouches, InStep
<1>2. CASE Next
  BY <1>2, FileStepsKeep, ClusterStepsKeep, ReloadKeeps DEF Next, AnyCaller
<1> QED
  BY <1>1, <1>2

\* The modification time stored with the records vouches for them: while it
\* is the file's, the layer is the file's, for every number of overlapping
\* reloads and every order of their steps and the file's changes.
THEOREM Vouches ==
  ASSUME SameTick = FALSE
  PROVE  Spec => [](TypeOK /\ StampVouches)
<1>1. Init => IInv
  BY InitHolds
<1>2. IInv /\ [Next]_vars => IInv'
  BY StepHolds
<1>3. IInv => TypeOK /\ StampVouches
  BY DEF IInv
<1> QED
  BY <1>1, <1>2, <1>3, PTL DEF Spec

-----------------------------------------------------------------------------
\* A reload that is about to store has read a list of records.
HasRead == \A c \in AnyCaller : call[c].pc = "store" => call[c].raw \in Contents

LEMMA TypesStep ==
  ASSUME TypeOK, HasRead, [Next]_vars
  PROVE  TypeOK' /\ HasRead'
<1>0. /\ call \in [AnyCaller -> Call] /\ Stat \in Stamp
      /\ Idle.pc = "idle"
  BY DEF TypeOK, AnyCaller, Stat, Stamp, File, Idle
<1>1. ASSUME EditFile \/ RemoveFile PROVE TypeOK' /\ HasRead'
  <2>1. call' = Disturbed
    BY <1>1 DEF EditFile, RemoveFile
  <2>2. \A c \in AnyCaller :
          /\ [call[c] EXCEPT !.quiet = FALSE] \in Call
          /\ [call[c] EXCEPT !.quiet = FALSE].pc = call[c].pc
          /\ [call[c] EXCEPT !.quiet = FALSE].raw = call[c].raw
    BY <1>0 DEF Call
  <2>3. call' \in [AnyCaller -> Call] /\ HasRead'
    BY <1>0, <2>1, <2>2, IdleType DEF Disturbed, AnyCaller, HasRead
  <2>4. disk' \in File \cup {None} /\ clock' \in Nat
    BY <1>1 DEF EditFile, RemoveFile, TypeOK, File
  <2>5. /\ changes' \in 0..MaxChanges
        /\ UNCHANGED <<file, mtime, cluster, kube, synced, known>>
    BY <1>1, HostAssumption DEF EditFile, RemoveFile, Change, TypeOK
  <2> QED
    BY <2>3, <2>4, <2>5 DEF TypeOK, AnyCaller
<1>2. CASE Restart
  <2>1. call' = [c \in AnyCaller |-> IF c = Main THEN Begin(Stat) ELSE Idle]
    BY <1>2 DEF Restart, AnyCaller
  <2>2. call' \in [AnyCaller -> Call] /\ HasRead'
    BY <1>0, <2>1, IdleType, BeginIs DEF HasRead
  <2>3. /\ file' \in Layer /\ kube' \in Layer /\ mtime' = None /\ synced' = FALSE
        /\ changes' \in 0..MaxChanges /\ UNCHANGED <<disk, clock, cluster, known>>
    BY <1>2, HostAssumption DEF Restart, NoRecords, Layer, Change, TypeOK
  <2> QED
    BY <2>2, <2>3 DEF TypeOK, AnyCaller, Stamp
<1>3. ASSUME NEW c \in AnyCaller, ReloadBegins(c) \/ Reload(c)
      PROVE  TypeOK' /\ HasRead'
  <2>0. call[c] \in Call
    BY <1>0
  <2>1. /\ UNCHANGED <<disk, clock, cluster, kube, synced, known>>
        /\ changes' \in 0..MaxChanges
    BY <1>3, HostAssumption DEF ReloadBegins, Reload, ReloadCompares,
         ReloadReads, ReloadStores, Change, TypeOK
  <2>2. ASSUME call' \in [AnyCaller -> Call], call'[c].pc # "store",
               \A d \in AnyCaller \ {c} : call'[d] = call[d],
               file' \in Layer, mtime' \in Stamp
        PROVE  TypeOK' /\ HasRead'
    BY <2>1, <2>2 DEF TypeOK, AnyCaller, HasRead
  <2>3. CASE ReloadBegins(c)
    <3>1. PICK stamp \in Stamp : call' = [call EXCEPT ![c] = Begin(stamp)]
      BY <1>0, <2>3 DEF ReloadBegins, Stamp
    <3>2. file' \in Layer /\ mtime' \in Stamp
      BY <2>3 DEF ReloadBegins, TypeOK
    <3> QED
      BY <1>0, <2>2, <3>1, <3>2, BeginIs
  <2>4. CASE ReloadCompares(c)
    <3>1. file' \in Layer /\ mtime' \in Stamp
      BY <2>4 DEF ReloadCompares, TypeOK
    <3>2. CASE call' = Answered(c, Size(file))
      BY <2>2, <3>1, <3>2, SizeType, AnsweredIs
    <3>3. CASE call' = [call EXCEPT ![c].pc = "read"]
      <4>1. /\ [call[c] EXCEPT !.pc = "read"] \in Call
            /\ [call[c] EXCEPT !.pc = "read"].pc = "read"
        BY <2>0 DEF Call
      <4> QED
        BY <1>0, <2>2, <3>1, <3>3, <4>1
    <3> QED
      BY <2>4, <3>2, <3>3 DEF ReloadCompares
  <2>5. CASE ReloadReads(c)
    <3>1. file' \in Layer /\ mtime' \in Stamp
      BY <2>5 DEF ReloadReads, TypeOK
    <3>2. CASE \E n \in Nat \cup {None} : call' = Answered(c, n)
      BY <2>2, <3>1, <3>2, AnsweredIs
    <3>3. CASE /\ disk # None /\ disk.content \in Contents
               /\ call' = [call EXCEPT ![c].pc = "store", ![c].raw = disk.content]
      <4> DEFINE new == [call[c] EXCEPT !.pc = "store", !.raw = disk.content]
      <4>1. call' = [call EXCEPT ![c] = new]
        BY <1>0, <3>3
      <4>2. new \in Call /\ new.raw \in Contents
        BY <2>0, <3>3 DEF Call
      <4> HIDE DEF new
      <4>3. call' \in [AnyCaller -> Call] /\ HasRead'
        BY <1>0, <4>1, <4>2 DEF HasRead
      <4> QED
        BY <2>1, <3>1, <4>3 DEF TypeOK, AnyCaller
    <3> QED
      BY <2>5, <3>2, <3>3 DEF ReloadReads
  <2>6. CASE ReloadStores(c)
    <3>1. /\ call[c].raw \in Contents /\ Len(call[c].raw) \in Nat
          /\ call' = Answered(c, Len(call[c].raw))
          /\ file' = Records(call[c].raw) /\ mtime' = call[c].stamp
      BY <2>6, HostAssumption DEF ReloadStores, HasRead
    <3>2. file' \in Layer /\ mtime' \in Stamp
      BY <2>0, <3>1, RecordsType DEF Call
    <3> QED
      BY <2>2, <3>1, <3>2, AnsweredIs
  <2> QED
    BY <1>3, <2>3, <2>4, <2>5, <2>6 DEF Reload
<1>4. ASSUME (\E m \in Mac : EditObject(m)) \/ Follow \/ UNCHANGED vars
      PROVE  TypeOK' /\ HasRead'
  <2>1. HasRead'
    BY <1>4 DEF EditObject, Follow, set_kube_records, apply_kube_record,
         remove_kube_record, vars, HasRead
  <2>2. CASE \E m \in Mac : EditObject(m)
    <3>1. /\ cluster' \in Layer /\ known' \subseteq Mac
          /\ changes' \in 0..MaxChanges
          /\ UNCHANGED <<disk, clock, file, mtime, kube, synced, call>>
      BY <2>2, HostAssumption DEF EditObject, Change, TypeOK, Layer
    <3> QED
      BY <2>1, <3>1 DEF TypeOK
  <2>3. CASE Follow
    <3>1. /\ kube' \in Layer /\ synced' \in BOOLEAN /\ known' \subseteq Mac
          /\ UNCHANGED <<disk, clock, file, mtime, cluster, call, changes>>
      BY <2>3 DEF Follow, set_kube_records, apply_kube_record,
           remove_kube_record, TypeOK, Layer
    <3> QED
      BY <2>1, <3>1 DEF TypeOK
  <2>4. CASE UNCHANGED vars
    BY <2>1, <2>4 DEF vars, TypeOK
  <2> QED
    BY <1>4, <2>1, <2>2, <2>3, <2>4
<1> QED
  BY <1>1, <1>2, <1>3, <1>4 DEF Next, AnyCaller

\* Whatever the clock tells apart and however reloads overlap, the layers hold
\* records and nothing else: what did not parse never reaches them.
THEOREM Types == Spec => []TypeOK
<1>1. Init => TypeOK /\ HasRead
  BY InitHolds DEF IInv, InHand, HasRead
<1>2. TypeOK /\ HasRead /\ [Next]_vars => (TypeOK /\ HasRead)'
  BY TypesStep
<1> QED
  BY <1>1, <1>2, PTL DEF Spec

-----------------------------------------------------------------------------
\* A reload that nothing has disturbed holds the file's time, unless it could
\* not take it, and what it has read is the file's content.
Undisturbed ==
  \A c \in AnyCaller :
    call[c].pc # "idle" /\ call[c].quiet /\ disk # None =>
      /\ call[c].stamp # None => call[c].stamp = disk.mtime
      /\ call[c].pc = "store" => call[c].raw = disk.content

\* What a start and a reload put into the table of reloads.
LEMMA UndisturbedStart ==
  ASSUME IInv, Undisturbed, Restart \/ \E c \in Caller : ReloadBegins(c)
  PROVE  Undisturbed'
<1>1. call \in [AnyCaller -> Call]
  BY DEF IInv, TypeOK, AnyCaller
<1>2. \A stamp : Begin(stamp).pc = "compare" /\ Begin(stamp).stamp = stamp
  BY DEF Begin
<1>3. Idle.pc = "idle"
  BY DEF Idle
<1>4. CASE Restart
  BY <1>2, <1>3, <1>4 DEF Restart, Undisturbed, AnyCaller, Stat
<1>5. CASE \E c \in Caller : ReloadBegins(c)
  <2>1. PICK c \in Caller, stamp \in {Stat, None} :
          call' = [call EXCEPT ![c] = Begin(stamp)] /\ disk' = disk
    BY <1>5 DEF ReloadBegins
  <2> QED
    BY <1>1, <1>2, <2>1 DEF Undisturbed, AnyCaller, Stat
<1> QED
  BY <1>4, <1>5

\* Every step keeps it: a change of the file disturbs whoever is at work.
LEMMA UndisturbedStep ==
  ASSUME IInv, Undisturbed, [Next]_vars
  PROVE  Undisturbed'
<1>1. call \in [AnyCaller -> Call]
  BY DEF IInv, TypeOK, AnyCaller
<1>2. CASE UNCHANGED <<disk, call>>
  BY <1>2 DEF Undisturbed
<1>3. CASE EditFile \/ RemoveFile
  <2>1. call' = Disturbed
    BY <1>3 DEF EditFile, RemoveFile
  <2>2. \A c \in AnyCaller : ~[call[c] EXCEPT !.quiet = FALSE].quiet
    BY <1>1 DEF Call
  <2>3. Idle.pc = "idle"
    BY DEF Idle
  <2> QED
    BY <2>1, <2>2, <2>3 DEF Disturbed, Undisturbed, AnyCaller
<1>4. ASSUME NEW c \in AnyCaller, Reload(c)
      PROVE  Undisturbed'
  <2>1. disk' = disk
    BY <1>4 DEF Reload, ReloadCompares, ReloadReads, ReloadStores
  <2>2. CASE \E n \in Nat \cup {None} : call' = Answered(c, n)
    BY <2>1, <2>2, AnsweredIs DEF Undisturbed, IInv
  <2>3. CASE call[c].pc = "compare" /\ call' = [call EXCEPT ![c].pc = "read"]
    <3>1. /\ [call[c] EXCEPT !.pc = "read"].pc = "read"
          /\ [call[c] EXCEPT !.pc = "read"].stamp = call[c].stamp
          /\ [call[c] EXCEPT !.pc = "read"].quiet = call[c].quiet
      BY <1>1 DEF Call
    <3> QED
      BY <1>1, <2>1, <2>3, <3>1 DEF Undisturbed
  <2>4. CASE /\ call[c].pc = "read"
             /\ call' = [call EXCEPT ![c].pc = "store", ![c].raw = disk.content]
    <3> DEFINE new == [call[c] EXCEPT !.pc = "store", !.raw = disk.content]
    <3>1. call' = [call EXCEPT ![c] = new]
      BY <1>1, <2>4
    <3>2. /\ new.raw = disk.content
          /\ new.stamp = call[c].stamp
          /\ new.quiet = call[c].quiet
      BY <1>1 DEF Call
    <3> HIDE DEF new
    <3> QED
      BY <1>1, <2>1, <2>4, <3>1, <3>2 DEF Undisturbed
  <2>5. CASE ReloadCompares(c)
    BY <2>2, <2>3, <2>5, SizeType DEF ReloadCompares
  <2>6. CASE ReloadReads(c)
    BY <2>2, <2>4, <2>6 DEF ReloadReads
  <2>7. CASE ReloadStores(c)
    <3>1. Len(call[c].raw) \in Nat
      BY <2>7, HostAssumption DEF ReloadStores, IInv, InHand
    <3> QED
      BY <2>2, <2>7, <3>1 DEF ReloadStores
  <2> QED
    BY <1>4, <2>5, <2>6, <2>7 DEF Reload
<1>5. CASE (\E m \in Mac : EditObject(m)) \/ Follow \/ UNCHANGED vars
  BY <1>2, <1>5 DEF EditObject, Follow, set_kube_records, apply_kube_record,
       remove_kube_record, vars
<1> QED
  BY <1>3, <1>4, <1>5, UndisturbedStart DEF Next, AnyCaller

\* A reload that ends with a number of records, on a file nobody has touched
\* since it began, ends with the layer as the file is.
LEMMA EndsInStep ==
  ASSUME IInv, Undisturbed, [Next]_vars, NEW c \in AnyCaller,
         call[c].pc # "idle", call'[c].pc = "idle", call'[c].answer # None,
         call'[c].quiet, disk' # None
  PROVE  InStep'
<1>1. call \in [AnyCaller -> Call]
  BY DEF IInv, TypeOK, AnyCaller
<1>2. \A stamp : Begin(stamp).pc = "compare"
  BY DEF Begin
<1>3. Idle.answer = None
  BY DEF Idle
<1>4. Reload(c)
  <2>1. ~UNCHANGED call
    OBVIOUS
  <2>2. ~(EditFile \/ RemoveFile)
    <3>1. [call[c] EXCEPT !.quiet = FALSE].pc = call[c].pc
      BY <1>1 DEF Call
    <3> QED
      BY <3>1 DEF EditFile, RemoveFile, Disturbed, AnyCaller
  <2>3. ~Restart
    BY <1>2, <1>3 DEF Restart, AnyCaller
  <2>4. ~\E d \in Caller : ReloadBegins(d)
    BY <1>1, <1>2 DEF ReloadBegins, AnyCaller
  <2>5. ASSUME NEW d \in AnyCaller, Reload(d), d # c
        PROVE  FALSE
    <3>1. \A n : Answered(d, n)[c] = call[c]
      BY <1>1, <2>5 DEF Answered
    <3> QED
      BY <1>1, <2>5, <3>1 DEF Reload, ReloadCompares, ReloadReads, ReloadStores
  <2> QED
    BY <2>1, <2>2, <2>3, <2>4, <2>5 DEF Next, AnyCaller, EditObject, Follow,
         set_kube_records, apply_kube_record, remove_kube_record, vars
<1>5. disk' = disk
  BY <1>4 DEF Reload, ReloadCompares, ReloadReads, ReloadStores
<1>6. \A n : Answered(c, n)[c].quiet = call[c].quiet /\ Answered(c, n)[c].answer = n
  BY <1>1 DEF Answered
<1>7. CASE ReloadCompares(c)
  <2>1. Unchanged(c)
    <3>1. [call[c] EXCEPT !.pc = "read"].pc = "read"
      BY <1>1 DEF Call
    <3> QED
      BY <1>1, <1>7, <3>1 DEF ReloadCompares
  <2>2. call' = Answered(c, Size(file)) /\ file' = file
    BY <1>7, <2>1 DEF ReloadCompares
  <2>3. mtime = disk.mtime
    BY <1>5, <1>6, <2>1, <2>2 DEF Undisturbed, Unchanged
  <2> QED
    BY <1>5, <2>2, <2>3 DEF IInv, StampVouches, InStep
<1>8. CASE ReloadReads(c)
  <2>1. \A r : [call[c] EXCEPT !.pc = "store", !.raw = r].pc = "store"
    BY <1>1 DEF Call
  <2>2. call'[c] # [call[c] EXCEPT !.pc = "store", !.raw = disk.content]
    BY <2>1
  <2> QED
    BY <1>1, <1>5, <1>6, <1>8, <2>2 DEF ReloadReads
<1>9. CASE ReloadStores(c)
  <2>1. call[c].pc = "store" /\ call[c].quiet /\ file' = Records(call[c].raw)
    BY <1>6, <1>9 DEF ReloadStores
  <2>2. call[c].raw = disk.content /\ call[c].raw \in Contents
    BY <1>5, <2>1 DEF Undisturbed, IInv, InHand
  <2> QED
    BY <1>5, <2>1, <2>2, HostAssumption DEF InStep
<1> QED
  BY <1>4, <1>7, <1>8, <1>9 DEF Reload

\* No edit is missed: whatever overlaps with it or failed before it, a reload
\* that answers with a count on an undisturbed file leaves the layer as the
\* file is.
THEOREM CatchesUp ==
  ASSUME SameTick = FALSE
  PROVE  Spec => ReloadCatchesUp
<1> DEFINE Ended == \A c \in Caller \cup {Main} :
                      /\ call[c].pc # "idle" /\ call'[c].pc = "idle"
                      /\ call'[c].answer # None /\ call'[c].quiet /\ disk' # None
                      => InStep'
<1>1. Init => IInv /\ Undisturbed
  <2>1. ASSUME Init PROVE Undisturbed
    <3>1. \A stamp : Begin(stamp).pc = "compare" /\ Begin(stamp).stamp = stamp
      BY DEF Begin
    <3>2. Idle.pc = "idle"
      BY DEF Idle
    <3> QED
      BY <2>1, <3>1, <3>2 DEF Init, Undisturbed, AnyCaller, Stat
  <2> QED
    BY <2>1, InitHolds
<1>2. IInv /\ Undisturbed /\ [Next]_vars => (IInv /\ Undisturbed)'
  BY StepHolds, UndisturbedStep
<1>3. IInv /\ Undisturbed /\ [Next]_vars => [Ended]_vars
  BY EndsInStep DEF AnyCaller
<1>4. ReloadCatchesUp <=> [][Ended]_vars
  BY DEF ReloadCatchesUp
<1> HIDE DEF Ended
<1> QED
  BY <1>1, <1>2, <1>3, <1>4, PTL DEF Spec

-----------------------------------------------------------------------------
\* After a complete list the layer holds what the watch has passed on.
Mirrors ==
  /\ kube \in Layer /\ cluster \in Layer /\ known \subseteq Mac
  /\ synced => \A m \in known : kube[m] = cluster[m]

\* Objects come first in every lookup, and a deleted object gives way to the
\* file, for every set of addresses and whatever reloads do to the file layer.
THEOREM ObjectsFirst ==
  Spec => []ClusterFirst
<1>1. Init => Mirrors
  BY DEF Init, Mirrors, NoRecords, Layer
<1>2. Mirrors /\ [Next]_vars => Mirrors'
  <2> SUFFICES ASSUME Mirrors, [Next]_vars PROVE Mirrors'
    OBVIOUS
  <2> USE DEF Mirrors
  <2>1. CASE UNCHANGED <<cluster, kube, synced, known>>
    BY <2>1
  <2>2. CASE Restart
    BY <2>2 DEF Restart, NoRecords, Layer
  <2>3. CASE set_kube_records
    BY <2>3 DEF set_kube_records
  <2>4. ASSUME NEW m \in Mac, EditObject(m) PROVE Mirrors'
    BY <2>4 DEF EditObject, Layer
  <2>5. ASSUME NEW m \in Mac, apply_kube_record(m) \/ remove_kube_record(m)
        PROVE  Mirrors'
    BY <2>5 DEF apply_kube_record, remove_kube_record, Layer
  <2>6. CASE \/ UNCHANGED vars \/ EditFile \/ RemoveFile
             \/ \E c \in Caller : ReloadBegins(c)
             \/ \E c \in AnyCaller : Reload(c)
    BY <2>1, <2>6 DEF vars, EditFile, RemoveFile, ReloadBegins, Reload,
         ReloadCompares, ReloadReads, ReloadStores
  <2> QED
    BY <2>2, <2>3, <2>4, <2>5, <2>6 DEF Next, Follow, AnyCaller
<1>3. Mirrors => ClusterFirst
  BY DEF Mirrors, ClusterFirst, lookup
<1> QED
  BY <1>1, <1>2, <1>3, PTL DEF Spec
=============================================================================
