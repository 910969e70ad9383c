------------------------- MODULE PalletCacheProofs -------------------------
(***************************************************************************)
(* Proofs about PalletCache, for every set of digests, every pallet, every *)
(* config blob and either setting of --allow-unsigned.                     *)
(*                                                                         *)
(* None of the properties is inductive as it stands.  That only vouched    *)
(* bytes are written needs to know, at the moment of writing, that the     *)
(* check has been passed, and of the temporary file whose bytes it holds;  *)
(* that nothing of the reported pallet is torn needs that a refresh writes *)
(* for another pallet and that, at its end, no file of its own is left     *)
(* torn by an earlier attempt; that a finished refresh is complete needs   *)
(* that whatever it counts as served is in the directory; and that a       *)
(* server stays ready needs that it said nothing before it was serving.    *)
(* The parts of the invariant are what each step has to hand on to the     *)
(* next across an await.                                                   *)
(***************************************************************************)
EXTENDS PalletCache, TLAPS

\* Past the signature check, a signature that is required was verified.
CheckPassed ==
  RequireSignature /\ task.pc \notin {"idle", "verify"} => task.verified

\* The layer index is an index, and a write under way is that of a layer.
LayerInHand ==
  /\ task.next >= 1
  /\ task.pc \in {"temp", "rename", "inline"} => MoreLayers

\* The temporary file holds the download that was compared with its digest,
\* and all of it before the rename.
TempInHand ==
  task.pc \in {"temp", "rename"} =>
    /\ task.temp \in Content
    /\ task.temp.of = task.digest
    /\ task.temp.source = "blob" /\ task.temp.own
    /\ RequireSignature => task.temp.vouched
    /\ task.pc = "rename" => task.temp.whole

\* A refresh writes for another pallet than the one that is reported.
AnotherPallet == task.digest # None => task.digest # status.digest

\* What the refresh has counted as served is in the directory.
ServedIsThere == \A f \in task.served : cache[f] # None

\* What the refresh in progress has been through is in the directory as it
\* wrote it, but for the inline member it is writing.
Fetched ==
  task.digest # None =>
    \A i \in 1..Len(Layers[task.digest]) :
      i < task.next =>
        LET f == Layers[task.digest][i]
        IN  /\ cache[f] # None /\ cache[f].of = task.digest
            /\ cache[f].whole \/ (task.pc = "inline" /\ f = Layer)

\* A file was written for a pallet that has it.
OfItsPallet ==
  \A f \in File : cache[f] # None =>
    \E i \in 1..Len(Layers[cache[f].of]) : Layers[cache[f].of][i] = f

\* Nothing is said of the assets before initial_status has returned.
SilentUntilServing == ~serving => status = NotReady

\* A digest is named only once its pallet is ready: this is what lets an
\* unchanged digest be reported ready without a look at the directory.
NamedIsReady == status.digest # None => status.ready

\* What is known of the refresh, of the directory and of the status.
TaskInv == /\ CheckPassed /\ LayerInHand /\ TempInHand /\ AnotherPallet
           /\ ServedIsThere /\ Fetched

DirectoryInv == /\ OfItsPallet /\ OnlyVouchedBytes /\ NoTornMember
                /\ ReadyIsComplete

StatusInv == SilentUntilServing /\ NamedIsReady

IInv == TypeOK /\ TaskInv /\ DirectoryInv /\ StatusInv

-----------------------------------------------------------------------------
\* The layer in hand is one of the files that are served, and the pallet's.
LEMMA LayerIsFile ==
  ASSUME TypeOK, task.digest # None, task.next >= 1, MoreLayers
  PROVE  /\ Layer \in File
         /\ \E i \in 1..Len(Layers[task.digest]) : Layers[task.digest][i] = Layer
<1>1. task.digest \in Digest /\ task.next \in Nat
  BY DEF TypeOK, Task
<1>2. Layers[task.digest] \in Seq(File)
  BY <1>1, PalletAssumption
<1>3. task.next \in 1..Len(Layers[task.digest])
  BY <1>1, <1>2 DEF MoreLayers
<1>. QED
  BY <1>2, <1>3 DEF Layer

\* An idle task has nothing to answer for.
LEMMA IdleHolds ==
  ASSUME task' = Idle
  PROVE  TaskInv' /\ task' \in Task /\ task'.digest = None /\ task'.pc = "idle"
<1>1. /\ Idle \in Task /\ Idle.pc = "idle" /\ Idle.digest = None
      /\ Idle.next = 1 /\ Idle.served = {}
  BY DEF Idle, Task
<1>2. CheckPassed' /\ LayerInHand' /\ TempInHand'
  BY <1>1 DEF CheckPassed, LayerInHand, TempInHand
<1>3. AnotherPallet' /\ ServedIsThere' /\ Fetched'
  BY <1>1 DEF AnotherPallet, ServedIsThere, Fetched
<1>. QED
  BY <1>1, <1>2, <1>3 DEF TaskInv

\* A file is never of no pallet.
LEMMA OfADigest ==
  ASSUME TypeOK, NEW f \in File, cache[f] # None
  PROVE  cache[f] \in Content /\ cache[f].of \in Digest /\ cache[f].of # None
BY PalletAssumption DEF TypeOK, Content

\* A refresh that fails keeps the invariant: at startup it reports what is
\* in the directory, and later it leaves the status alone.
LEMMA FailKeeps ==
  ASSUME IInv, FailRefresh, UNCHANGED <<External, cache>>
  PROVE  IInv'
<1>. USE DEF IInv, FailRefresh, External
<1>1. TaskInv' /\ task' \in Task /\ task'.digest = None /\ task'.pc = "idle"
  BY IdleHolds
<1>2. status' \in AssetStatus /\ status'.digest \in {status.digest, None}
  BY DEF TypeOK, AssetStatus, NotReady, CacheIsComplete
<1>3. TypeOK'
  BY <1>1, <1>2 DEF TypeOK
<1>4. StatusInv'
  BY DEF StatusInv, SilentUntilServing, NamedIsReady, NotReady
<1>5. OfItsPallet' /\ OnlyVouchedBytes'
  BY DEF DirectoryInv, OfItsPallet, OnlyVouchedBytes
<1>6. NoTornMember'
  BY <1>2, OfADigest DEF DirectoryInv, NoTornMember
<1>7. ReadyIsComplete'
  BY DEF DirectoryInv, ReadyIsComplete, CacheIsComplete, NotReady
<1>. QED
  BY <1>1, <1>3, <1>4, <1>5, <1>6, <1>7 DEF DirectoryInv

\* Storing a layer, renamed into place or begun in place, keeps what is known
\* of the directory.
LEMMA StoreKeeps ==
  ASSUME IInv, NEW c \in Content,
         task.digest # None, MoreLayers,
         c.of = task.digest,
         RequireSignature => c.vouched,
         c.source = "blob" => c.own,
         c.whole \/ c.source = "inline",
         cache' = [cache EXCEPT ![Layer] = c],
         UNCHANGED status
  PROVE  /\ Layer \in File
         /\ cache' \in [File -> Content \cup {None}]
         /\ c # None /\ cache'[Layer] = c
         /\ \A f \in File : f # Layer => cache'[f] = cache[f]
         /\ DirectoryInv'
<1>. DEFINE L == Layer
<1>2. L \in File /\ \E i \in 1..Len(Layers[task.digest]) : Layers[task.digest][i] = L
  BY LayerIsFile DEF IInv, TaskInv, LayerInHand
<1>3. c # None
  BY NoneAssumption
<1>4. cache \in [File -> Content \cup {None}]
  BY DEF IInv, TypeOK
<1>5. /\ cache'[L] = c
      /\ \A f \in File : f # L => cache'[f] = cache[f]
      /\ cache' \in [File -> Content \cup {None}]
  BY <1>2, <1>4
<1>. HIDE DEF L
<1>6. OfItsPallet'
  BY <1>2, <1>3, <1>5 DEF IInv, DirectoryInv, OfItsPallet
<1>7. OnlyVouchedBytes'
  BY <1>3, <1>5 DEF IInv, DirectoryInv, OnlyVouchedBytes
<1>8. NoTornMember'
  <2>1. c.of # status'.digest
    BY DEF IInv, TaskInv, AnotherPallet
  <2>. QED
    BY <1>5, <2>1 DEF IInv, DirectoryInv, NoTornMember
<1>9. ReadyIsComplete'
  BY <1>3, <1>5 DEF IInv, DirectoryInv, ReadyIsComplete, CacheIsComplete,
       RequiredAssets, File
<1>. QED
  BY <1>2, <1>3, <1>5, <1>6, <1>7, <1>8, <1>9 DEF L, DirectoryInv

\* A layer stored whole is counted as served.
LEMMA CountKeeps ==
  ASSUME IInv, NEW c \in Content, c # None, c.of = task.digest, c.whole,
         task.pc \in {"rename", "inline"}, Layer \in File,
         task' = LayerDone, UNCHANGED <<External, status, serving>>,
         cache' \in [File -> Content \cup {None}],
         cache'[Layer] = c,
         \A f \in File : f # Layer => cache'[f] = cache[f],
         DirectoryInv'
  PROVE  IInv'
<1>1. task \in Task /\ task.next >= 1 /\ task.digest # None /\ task.digest \in Digest
      /\ task.next \in Nat
  BY DEF IInv, TaskInv, TypeOK, LayerInHand, Task
<1>2. /\ task' \in Task /\ task'.pc = "members" /\ task'.digest = task.digest
      /\ task'.verified = task.verified /\ task'.next = task.next + 1
      /\ task'.served = task.served \cup {Layer}
  <2>. DEFINE n == task.next + 1
              s == task.served \cup {Layer}
  <2>1. n \in Nat /\ s \in SUBSET File
    BY <1>1 DEF Task
  <2>2. task' = [task EXCEPT !.pc = "members", !.next = n, !.temp = None,
                             !.served = s]
    BY DEF LayerDone
  <2>. HIDE DEF n, s
  <2>3. /\ task' \in Task /\ task'.pc = "members" /\ task'.digest = task.digest
        /\ task'.verified = task.verified /\ task'.next = n /\ task'.served = s
    BY <1>1, <2>1, <2>2 DEF Task
  <2>. QED
    BY <2>3 DEF n, s
<1>3. TypeOK'
  BY <1>1, <1>2 DEF IInv, TypeOK, External
<1>4. CheckPassed' /\ TempInHand' /\ AnotherPallet'
  BY <1>2 DEF IInv, TaskInv, CheckPassed, TempInHand, AnotherPallet
<1>5. LayerInHand'
  BY <1>1, <1>2 DEF LayerInHand
<1>6. ServedIsThere'
  BY <1>1, <1>2 DEF IInv, TaskInv, ServedIsThere, Task
<1>7. Fetched'
  <2>1. Layers[task.digest] \in Seq(File)
    BY <1>1, PalletAssumption
  <2>2. ASSUME NEW i \in 1..Len(Layers[task.digest]), i < task.next + 1
        PROVE  LET f == Layers[task.digest][i]
               IN  cache'[f] # None /\ cache'[f].of = task.digest /\ cache'[f].whole
    <3>. DEFINE f == Layers[task.digest][i]
    <3>1. f \in File
      BY <2>1
    <3>2. CASE f = Layer
      BY <3>2
    <3>3. CASE f # Layer
      <4>1. i < task.next
        BY <1>1, <2>1, <2>2, <3>3 DEF Layer
      <4>. QED
        BY <1>1, <3>1, <3>3, <4>1 DEF IInv, TaskInv, Fetched
    <3>. QED
      BY <3>2, <3>3
  <2>. QED
    BY <1>2, <2>2 DEF Fetched
<1>8. StatusInv'
  BY DEF IInv, StatusInv, SilentUntilServing, NamedIsReady
<1>. QED
  BY <1>3, <1>4, <1>5, <1>6, <1>7, <1>8 DEF IInv, TaskInv

\* A step of the refresh on the layer in hand that leaves the directory.
LEMMA AdvanceKeeps ==
  ASSUME IInv, UNCHANGED <<External, cache, status, serving>>,
         task' \in Task, task'.digest = task.digest, task'.next = task.next,
         task'.served = task.served,
         task.pc \notin {"idle", "inline"}, task'.pc \notin {"idle", "inline"},
         task'.pc \in {"temp", "rename"} => MoreLayers,
         CheckPassed', TempInHand'
  PROVE  IInv'
<1>1. TypeOK'
  BY DEF IInv, TypeOK, External
<1>2. LayerInHand'
  BY DEF IInv, TaskInv, LayerInHand, MoreLayers
<1>3. AnotherPallet' /\ ServedIsThere'
  BY DEF IInv, TaskInv, AnotherPallet, ServedIsThere
<1>4. Fetched'
  BY DEF IInv, TaskInv, Fetched
<1>5. DirectoryInv' /\ StatusInv'
  BY DEF IInv, DirectoryInv, StatusInv, OfItsPallet, OnlyVouchedBytes,
       NoTornMember, ReadyIsComplete, CacheIsComplete, SilentUntilServing,
       NamedIsReady
<1>. QED
  BY <1>1, <1>2, <1>3, <1>4, <1>5 DEF IInv, TaskInv

-----------------------------------------------------------------------------
LEMMA InitHolds == Init => IInv
<1>. SUFFICES ASSUME Init PROVE IInv
  OBVIOUS
<1>1. TypeOK
  BY DEF Init, TypeOK, AssetStatus, Task, Idle, NotReady
<1>2. TaskInv
  BY DEF Init, Idle, TaskInv, CheckPassed, LayerInHand, TempInHand,
       AnotherPallet, ServedIsThere, Fetched
<1>3. DirectoryInv /\ StatusInv
  BY DEF Init, NotReady, DirectoryInv, StatusInv, OfItsPallet,
       OnlyVouchedBytes, NoTornMember, ReadyIsComplete, SilentUntilServing,
       NamedIsReady
<1>. QED
  BY <1>1, <1>2, <1>3 DEF IInv

\* At the end of a refresh no file of its pallet is torn.
LEMMA EndsWhole ==
  ASSUME IInv, task.pc = "members", ~MoreLayers,
         NEW f \in File, cache[f] # None, cache[f].of = task.digest
  PROVE  cache[f].whole
<1>1. task.digest # None /\ task.next \in Nat /\ task.digest \in Digest
  BY DEF IInv, TypeOK, Task
<1>2. PICK i \in 1..Len(Layers[task.digest]) : Layers[task.digest][i] = f
  BY DEF IInv, DirectoryInv, OfItsPallet
<1>3. Len(Layers[task.digest]) \in Nat
  BY <1>1, PalletAssumption
<1>4. i < task.next
  BY <1>1, <1>3 DEF MoreLayers
<1>. QED
  BY <1>1, <1>2, <1>4 DEF IInv, TaskInv, Fetched

LEMMA StepHolds == IInv /\ [Next]_vars => IInv'
<1>. SUFFICES ASSUME IInv, [Next]_vars PROVE IInv'
  OBVIOUS
<1>0. /\ task \in Task /\ cache \in [File -> Content \cup {None}]
      /\ status \in AssetStatus /\ serving \in BOOLEAN
      /\ task.digest = None <=> task.pc = "idle"
      /\ sig \in [Digest -> {"none", "good", "bad"}]
  BY DEF IInv, TypeOK
<1>1. CASE RefreshUnchanged
  <2>1. /\ tag \in Digest /\ status.digest = tag /\ status.digest # None
        /\ status' = [ready |-> TRUE, digest |-> tag, signature_verified |-> TRUE]
        /\ UNCHANGED <<External, cache, serving, task>>
    BY <1>1, PalletAssumption DEF RefreshUnchanged, IInv, TypeOK
  <2>2. TypeOK'
    BY <2>1 DEF External, IInv, TypeOK, AssetStatus
  <2>3. TaskInv'
    BY <2>1 DEF IInv, TaskInv, CheckPassed, LayerInHand, MoreLayers, Layer,
         TempInHand, AnotherPallet, ServedIsThere, Fetched
  <2>4. OfItsPallet' /\ OnlyVouchedBytes' /\ NoTornMember'
    BY <2>1 DEF IInv, DirectoryInv, OfItsPallet, OnlyVouchedBytes, NoTornMember
  <2>5. SilentUntilServing' /\ NamedIsReady'
    BY <2>1 DEF IInv, StatusInv, SilentUntilServing, NotReady, NamedIsReady
  <2>6. ReadyIsComplete'
    BY <2>1 DEF IInv, StatusInv, DirectoryInv, NamedIsReady, ReadyIsComplete,
         CacheIsComplete
  <2>. QED
    BY <2>2, <2>3, <2>4, <2>5, <2>6 DEF IInv, DirectoryInv, StatusInv
<1>2. CASE RefreshBegins
  <2>1. tag \in Digest /\ tag # status.digest /\ tag # None
    BY <1>2 DEF RefreshBegins, IInv, TypeOK
  <2>2. task' = [pc |-> "verify", digest |-> tag, verified |-> FALSE,
                 inline |-> {}, own |-> TRUE, next |-> 1, temp |-> None,
                 served |-> {}]
    BY <1>2 DEF RefreshBegins, Idle
  <2>3. UNCHANGED <<External, cache, status, serving>>
    BY <1>2 DEF RefreshBegins
  <2>4. TypeOK'
    BY <2>1, <2>2, <2>3 DEF External, IInv, TypeOK, Task
  <2>5. CheckPassed' /\ LayerInHand' /\ TempInHand' /\ ServedIsThere'
    BY <2>2 DEF CheckPassed, LayerInHand, TempInHand, ServedIsThere
  <2>6. AnotherPallet'
    BY <2>1, <2>2, <2>3 DEF AnotherPallet
  <2>7. Fetched'
    BY <2>2 DEF Fetched
  <2>8. DirectoryInv' /\ StatusInv'
    BY <2>3 DEF IInv, DirectoryInv, StatusInv, OfItsPallet, OnlyVouchedBytes,
         NoTornMember, ReadyIsComplete, CacheIsComplete, SilentUntilServing,
         NamedIsReady
  <2>. QED
    BY <2>4, <2>5, <2>6, <2>7, <2>8 DEF IInv, TaskInv
<1>3. CASE VerifySignature
  <2>1. PICK seen \in Seen(task.digest) :
          /\ Acceptable(seen)
          /\ task' = [task EXCEPT !.pc = "spec", !.verified = seen = "good"]
    BY <1>3 DEF VerifySignature
  <2>2. task.pc = "verify" /\ UNCHANGED <<External, cache, status, serving>>
    BY <1>3 DEF VerifySignature
  <2>3. (seen = "good") \in BOOLEAN
    OBVIOUS
  <2>4. task' \in Task /\ task'.pc = "spec" /\ task'.digest = task.digest
        /\ task'.next = task.next /\ task'.served = task.served
        /\ task'.verified = (seen = "good")
    BY <1>0, <2>1, <2>3 DEF Task
  <2>5. CheckPassed' /\ TempInHand'
    BY <2>1, <2>4 DEF Acceptable, CheckPassed, TempInHand
  <2>. QED
    BY <2>2, <2>4, <2>5, AdvanceKeeps
<1>4. CASE RefuseSignature
  BY <1>4, FailKeeps DEF RefuseSignature
<1>5. CASE NotAPallet
  BY <1>5, FailKeeps DEF NotAPallet
<1>6. CASE FetchSpec
  <2>1. task.pc = "spec" /\ UNCHANGED <<External, cache, status, serving>>
    BY <1>6 DEF FetchSpec
  <2>3. task' \in Task /\ task'.pc = "members" /\ task'.digest = task.digest
        /\ task'.next = task.next /\ task'.served = task.served
        /\ task'.verified = task.verified
    <3>1. task.digest \in Digest
      BY <1>0, <2>1 DEF Task
    <3>2. CASE task' = [task EXCEPT !.pc = "members", !.inline = Inline[task.digest]]
      BY <1>0, <3>1, <3>2, PalletAssumption DEF Task
    <3>3. CASE task' = [task EXCEPT !.pc = "members"]
      BY <1>0, <3>3 DEF Task
    <3>4. CASE \E files \in Other :
                 task' = [task EXCEPT !.pc = "members", !.inline = files, !.own = FALSE]
      <4>1. PICK files \in Other :
              task' = [task EXCEPT !.pc = "members", !.inline = files, !.own = FALSE]
        BY <3>4
      <4>2. files \in SUBSET File /\ FALSE \in BOOLEAN
        BY PalletAssumption
      <4>. QED
        BY <1>0, <4>1, <4>2 DEF Task
    <3>. QED
      BY <1>6, <3>2, <3>3, <3>4 DEF FetchSpec
  <2>4. CheckPassed' /\ TempInHand'
    BY <2>1, <2>3 DEF IInv, TaskInv, CheckPassed, TempInHand
  <2>. QED
    BY <2>1, <2>3, <2>4, AdvanceKeeps
<1>7. CASE FetchMember
  <2>. DEFINE c == Download(TRUE, FALSE)
  <2>1. /\ task.pc = "members" /\ MoreLayers
        /\ task' = [task EXCEPT !.pc = "temp", !.temp = c]
        /\ UNCHANGED <<External, cache, status, serving>>
    BY <1>7 DEF FetchMember, AtBlob
  <2>2. /\ c \in Content /\ c.of = task.digest /\ c.source = "blob" /\ c.own
        /\ c.vouched = task.verified
    BY <1>0, <2>1 DEF Download, Content, Task
  <2>. HIDE DEF c
  <2>3. task' \in Task /\ task'.pc = "temp" /\ task'.digest = task.digest
        /\ task'.next = task.next /\ task'.served = task.served
        /\ task'.verified = task.verified /\ task'.temp = c
    BY <1>0, <2>1, <2>2 DEF Task
  <2>4. CheckPassed' /\ TempInHand'
    BY <2>1, <2>2, <2>3 DEF IInv, TaskInv, CheckPassed, TempInHand
  <2>. QED
    BY <2>1, <2>3, <2>4, AdvanceKeeps
<1>8. CASE WriteTemp
  <2>. DEFINE c == [task.temp EXCEPT !.whole = TRUE]
  <2>1. /\ task.pc = "temp"
        /\ task' = [task EXCEPT !.pc = "rename", !.temp = c]
        /\ UNCHANGED <<External, cache, status, serving>>
    BY <1>8 DEF WriteTemp
  <2>2. /\ MoreLayers /\ task.temp \in Content /\ task.temp.of = task.digest
        /\ task.temp.source = "blob" /\ task.temp.own
        /\ RequireSignature => task.temp.vouched
    BY <2>1 DEF IInv, TaskInv, TempInHand, LayerInHand
  <2>3. /\ c \in Content /\ c.of = task.digest /\ c.source = "blob" /\ c.own
        /\ c.vouched = task.temp.vouched /\ c.whole
    BY <2>2 DEF Content
  <2>. HIDE DEF c
  <2>4. task' \in Task /\ task'.pc = "rename" /\ task'.digest = task.digest
        /\ task'.next = task.next /\ task'.served = task.served
        /\ task'.verified = task.verified /\ task'.temp = c
    BY <1>0, <2>1, <2>3 DEF Task
  <2>5. CheckPassed' /\ TempInHand'
    BY <2>1, <2>2, <2>3, <2>4 DEF IInv, TaskInv, CheckPassed, TempInHand
  <2>. QED
    BY <2>1, <2>2, <2>4, <2>5, AdvanceKeeps
<1>9. CASE RenameMember
  <2>1. /\ task.pc = "rename" /\ task' = LayerDone
        /\ cache' = [cache EXCEPT ![Layer] = task.temp]
        /\ UNCHANGED <<External, status, serving>>
    BY <1>9 DEF RenameMember
  <2>2. /\ MoreLayers /\ task.digest # None
        /\ task.temp \in Content /\ task.temp.of = task.digest
        /\ task.temp.source = "blob" /\ task.temp.own /\ task.temp.whole
        /\ RequireSignature => task.temp.vouched
    BY <1>0, <2>1 DEF IInv, TaskInv, TempInHand, LayerInHand
  <2>. DEFINE c == task.temp
  <2>. HIDE DEF c
  <2>3. /\ Layer \in File
        /\ cache' \in [File -> Content \cup {None}]
        /\ c # None /\ cache'[Layer] = c
        /\ \A f \in File : f # Layer => cache'[f] = cache[f]
        /\ DirectoryInv'
    BY <2>1, <2>2, StoreKeeps DEF c
  <2>. QED
    BY <2>1, <2>2, <2>3, CountKeeps DEF c
<1>10. CASE WriteInline
  <2>. DEFINE c == Text(FALSE)
  <2>1. /\ task.pc = "members" /\ MoreLayers
        /\ cache' = [cache EXCEPT ![Layer] = c]
        /\ task' = [task EXCEPT !.pc = "inline"]
        /\ UNCHANGED <<External, status, serving>>
    BY <1>10 DEF WriteInline, AtInline
  <2>2. task.digest # None /\ task.digest \in Digest
    BY <1>0, <2>1 DEF Task
  <2>3. /\ c \in Content /\ c.of = task.digest /\ c.source = "inline"
        /\ c.vouched = task.verified
    BY <1>0, <2>2 DEF Text, Content, Task
  <2>4. RequireSignature => c.vouched
    BY <2>1, <2>3 DEF IInv, TaskInv, CheckPassed
  <2>. HIDE DEF c
  <2>5. /\ Layer \in File
        /\ cache' \in [File -> Content \cup {None}]
        /\ c # None /\ cache'[Layer] = c
        /\ \A f \in File : f # Layer => cache'[f] = cache[f]
        /\ DirectoryInv'
    BY <2>1, <2>2, <2>3, <2>4, StoreKeeps
  <2>6. /\ task' \in Task /\ task'.pc = "inline" /\ task'.digest = task.digest
        /\ task'.verified = task.verified /\ task'.next = task.next
        /\ task'.served = task.served
    BY <1>0, <2>1 DEF Task
  <2>7. TypeOK'
    BY <1>0, <2>1, <2>5, <2>6 DEF IInv, TypeOK, External
  <2>8. CheckPassed' /\ TempInHand' /\ AnotherPallet'
    BY <2>1, <2>6 DEF IInv, TaskInv, CheckPassed, TempInHand, AnotherPallet
  <2>9. LayerInHand'
    BY <2>1, <2>6 DEF IInv, TaskInv, LayerInHand, MoreLayers
  <2>10. ServedIsThere'
    BY <1>0, <2>5, <2>6 DEF IInv, TaskInv, ServedIsThere, Task
  <2>11. Fetched'
    <3>1. Layer' = Layer
      BY <2>6 DEF Layer
    <3>2. Layers[task.digest] \in Seq(File)
      BY <2>2, PalletAssumption
    <3>3. ASSUME NEW i \in 1..Len(Layers[task.digest]), i < task.next
          PROVE  LET f == Layers[task.digest][i]
                 IN  /\ cache'[f] # None /\ cache'[f].of = task.digest
                     /\ cache'[f].whole \/ f = Layer
      <4>. DEFINE f == Layers[task.digest][i]
      <4>1. f \in File
        BY <3>2
      <4>2. CASE f = Layer
        BY <2>3, <2>5, <4>2
      <4>3. CASE f # Layer
        BY <2>1, <2>2, <2>5, <3>3, <4>1, <4>3 DEF IInv, TaskInv, Fetched
      <4>. QED
        BY <4>2, <4>3
    <3>. QED
      BY <2>6, <3>1, <3>3 DEF Fetched
  <2>12. StatusInv'
    BY <2>1 DEF IInv, StatusInv, SilentUntilServing, NamedIsReady
  <2>. QED
    BY <2>5, <2>7, <2>8, <2>9, <2>10, <2>11, <2>12 DEF IInv, TaskInv
<1>11. CASE FinishInline
  <2>. DEFINE c == Text(TRUE)
  <2>1. /\ task.pc = "inline" /\ task' = LayerDone
        /\ cache' = [cache EXCEPT ![Layer] = c]
        /\ UNCHANGED <<External, status, serving>>
    BY <1>11 DEF FinishInline
  <2>2. task.digest # None /\ task.digest \in Digest /\ MoreLayers
    BY <1>0, <2>1 DEF Task, IInv, TaskInv, LayerInHand
  <2>3. /\ c \in Content /\ c.of = task.digest /\ c.source = "inline"
        /\ c.vouched = task.verified /\ c.whole
    BY <1>0, <2>2 DEF Text, Content, Task
  <2>4. RequireSignature => c.vouched
    BY <2>1, <2>3 DEF IInv, TaskInv, CheckPassed
  <2>. HIDE DEF c
  <2>5. /\ Layer \in File
        /\ cache' \in [File -> Content \cup {None}]
        /\ c # None /\ cache'[Layer] = c
        /\ \A f \in File : f # Layer => cache'[f] = cache[f]
        /\ DirectoryInv'
    BY <2>1, <2>2, <2>3, <2>4, StoreKeeps
  <2>. QED
    BY <2>1, <2>3, <2>5, CountKeeps
<1>12. CASE InlineUnavailable
  BY <1>12, FailKeeps DEF InlineUnavailable
<1>13. CASE RefreshSucceeds
  <2>1. /\ task.pc = "members" /\ ~MoreLayers
        /\ RequiredAssets \subseteq task.served
        /\ status' = [ready |-> TRUE, digest |-> task.digest,
                      signature_verified |-> task.verified]
        /\ serving' = TRUE /\ task' = Idle
        /\ UNCHANGED <<External, cache>>
    BY <1>13 DEF RefreshSucceeds
  <2>2. TaskInv' /\ task' \in Task /\ task'.digest = None /\ task'.pc = "idle"
    BY <2>1, IdleHolds
  <2>3. status' \in AssetStatus
    BY <1>0, <2>1 DEF AssetStatus, Task
  <2>4. TypeOK'
    BY <2>1, <2>2, <2>3 DEF IInv, TypeOK, External
  <2>5. StatusInv'
    BY <2>1 DEF StatusInv, SilentUntilServing, NamedIsReady
  <2>6. OfItsPallet' /\ OnlyVouchedBytes'
    BY <2>1 DEF IInv, DirectoryInv, OfItsPallet, OnlyVouchedBytes
  <2>7. NoTornMember'
    BY <2>1, EndsWhole DEF IInv, DirectoryInv, NoTornMember
  <2>8. ReadyIsComplete'
    BY <2>1 DEF IInv, TaskInv, ReadyIsComplete, CacheIsComplete, ServedIsThere
  <2>. QED
    BY <2>2, <2>4, <2>5, <2>6, <2>7, <2>8 DEF IInv, DirectoryInv
<1>14. CASE MissingMember
  BY <1>14, FailKeeps DEF MissingMember
<1>15. CASE StepFails
  BY <1>15, FailKeeps DEF StepFails
<1>16. CASE RegistryChanges
  <2>1. /\ tag' \in Digest \cup {None} /\ sound' \in BOOLEAN
        /\ sig' \in [Digest -> {"none", "good", "bad"}]
    BY <1>16 DEF RegistryChanges, IInv, TypeOK
  <2>2. UNCHANGED <<cache, status, serving, task>>
    BY <1>16 DEF RegistryChanges
  <2>3. TypeOK'
    BY <2>1, <2>2 DEF IInv, TypeOK
  <2>4. TaskInv'
    BY <2>2 DEF IInv, TaskInv, CheckPassed, LayerInHand, MoreLayers, Layer,
         TempInHand, AnotherPallet, ServedIsThere, Fetched
  <2>5. DirectoryInv' /\ StatusInv'
    BY <2>2 DEF IInv, DirectoryInv, StatusInv, OfItsPallet, OnlyVouchedBytes,
         NoTornMember, ReadyIsComplete, CacheIsComplete, SilentUntilServing,
         NamedIsReady
  <2>. QED
    BY <2>3, <2>4, <2>5 DEF IInv
<1>17. CASE Restart
  <2>1. /\ status' = NotReady /\ serving' = FALSE /\ task' = Idle
        /\ UNCHANGED <<External, cache>>
    BY <1>17 DEF Restart
  <2>2. TaskInv' /\ task' \in Task /\ task'.digest = None /\ task'.pc = "idle"
    BY <2>1, IdleHolds
  <2>3. NotReady \in AssetStatus /\ NotReady.digest = None /\ ~NotReady.ready
    BY DEF NotReady, AssetStatus
  <2>4. TypeOK'
    BY <2>1, <2>2, <2>3 DEF IInv, TypeOK, External
  <2>5. StatusInv' /\ ReadyIsComplete'
    BY <2>1, <2>3 DEF StatusInv, SilentUntilServing, NamedIsReady, ReadyIsComplete
  <2>6. OfItsPallet' /\ OnlyVouchedBytes'
    BY <2>1 DEF IInv, DirectoryInv, OfItsPallet, OnlyVouchedBytes
  <2>7. NoTornMember'
    BY <2>1, <2>3, OfADigest DEF IInv, DirectoryInv, NoTornMember
  <2>. QED
    BY <2>2, <2>4, <2>5, <2>6, <2>7 DEF IInv, DirectoryInv
<1>18. CASE UNCHANGED vars
  <2>1. TypeOK'
    BY <1>18 DEF vars, IInv, TypeOK
  <2>2. TaskInv'
    BY <1>18 DEF vars, IInv, TaskInv, CheckPassed, LayerInHand, MoreLayers,
         Layer, TempInHand, AnotherPallet, ServedIsThere, Fetched
  <2>3. DirectoryInv' /\ StatusInv'
    BY <1>18 DEF vars, IInv, DirectoryInv, StatusInv, OfItsPallet,
         OnlyVouchedBytes, NoTornMember, ReadyIsComplete, CacheIsComplete,
         SilentUntilServing, NamedIsReady
  <2>. QED
    BY <2>1, <2>2, <2>3 DEF IInv
<1>. QED
  BY <1>1, <1>2, <1>3, <1>4, <1>5, <1>6, <1>7, <1>8, <1>9, <1>10, <1>11,
     <1>12, <1>13, <1>14, <1>15, <1>16, <1>17, <1>18 DEF Next, Refresh

LEMMA Invariance == Spec => []IInv
BY InitHolds, StepHolds, PTL DEF Spec

-----------------------------------------------------------------------------
\* The refresh task, its status and the directory keep their types through
\* every failure, restart and change of the registry.
THEOREM Types == Spec => []TypeOK
<1>1. IInv => TypeOK
  BY DEF IInv
<1>. QED
  BY <1>1, Invariance, PTL

\* refresh, whatever the tag names and the registry answers, in whichever
\* order registry, signer, failures and crashes interleave with it: where a
\* signature is required, every file was written by a refresh that had
\* verified one, and every downloaded file holds the bytes its pallet names.
\* It says nothing of the bytes of inline members, which nobody compares.
THEOREM Vouched == Spec => []OnlyVouchedBytes
<1>1. IInv => OnlyVouchedBytes
  BY DEF IInv, DirectoryInv
<1>. QED
  BY <1>1, Invariance, PTL

\* fetch_member's write aside and rename, and the order of refresh: a file
\* that is torn, at any moment of a refresh or after a failure or crash, is an
\* inline member, and of another pallet than the one that is reported.
THEOREM Untorn == Spec => []NoTornMember
<1>1. IInv => NoTornMember
  BY DEF IInv, DirectoryInv
<1>. QED
  BY <1>1, Invariance, PTL

\* AppState.assets says ready only while a kernel and an initramfs are in
\* the directory, although the unchanged case of refresh does not look.
THEOREM Complete == Spec => []ReadyIsComplete
<1>1. IInv => ReadyIsComplete
  BY DEF IInv, DirectoryInv
<1>. QED
  BY <1>1, Invariance, PTL

\* initial_status and the refresh loop: no refresh, failed or not, takes a
\* server that was ready out of service or makes it forget its digest.
THEOREM Stays == Spec => StaysReady
<1>. DEFINE Keeps == serving' /\ status.ready =>
                       /\ status'.ready
                       /\ status.digest # None => status'.digest # None
<1>1. IInv /\ [Next]_vars => [Keeps]_vars
  <2>. SUFFICES ASSUME IInv, Next, serving', status.ready
                PROVE  /\ status'.ready
                       /\ status.digest # None => status'.digest # None
    OBVIOUS
  <2>1. serving
    BY DEF IInv, StatusInv, SilentUntilServing, NotReady, TypeOK
  <2>2. CASE FailRefresh
    BY <2>1, <2>2 DEF FailRefresh
  <2>3. CASE UNCHANGED status
    BY <2>3
  <2>4. CASE RefreshUnchanged
    BY <2>4 DEF RefreshUnchanged
  <2>5. CASE RefreshSucceeds
    BY <2>5 DEF RefreshSucceeds, IInv, TypeOK
  <2>6. FailRefresh \/ UNCHANGED status \/ RefreshUnchanged \/ RefreshSucceeds
    BY DEF Next, Refresh, RefreshBegins, VerifySignature, RefuseSignature,
         NotAPallet, FetchSpec, FetchMember, WriteTemp, RenameMember,
         WriteInline, FinishInline, InlineUnavailable, MissingMember,
         StepFails, RegistryChanges, Restart
  <2>. QED
    BY <2>2, <2>3, <2>4, <2>5, <2>6
<1>. QED
  BY <1>1, Invariance, PTL DEF Spec, StaysReady

-----------------------------------------------------------------------------
\* The digest changes to that of a pallet only where refresh has been through
\* all of its members.
LEMMA NamedAtTheEnd ==
  ASSUME IInv, [Next]_vars, status'.digest \notin {None, status.digest}
  PROVE  RefreshSucceeds
<1>1. status'.digest # status.digest /\ status'.digest # None
  OBVIOUS
<1>2. ~UNCHANGED status
  BY <1>1
<1>3. ~RefreshUnchanged
  BY <1>1 DEF RefreshUnchanged
<1>4. ~FailRefresh
  BY <1>1 DEF FailRefresh, NotReady
<1>5. ~Restart
  BY <1>1 DEF Restart, NotReady
<1> QED
  BY <1>2, <1>3, <1>4, <1>5 DEF Next, Refresh, RefreshBegins, VerifySignature,
       RefuseSignature, NotAPallet, FetchSpec, FetchMember, WriteTemp,
       RenameMember, WriteInline, FinishInline, InlineUnavailable,
       MissingMember, StepFails, RegistryChanges, vars

\* When the server begins to name a pallet, every member of it is in the
\* directory, written whole by a refresh of that pallet, and its own bytes
\* where it was downloaded: for every pallet and every failed attempt before.
THEOREM Published == Spec => PublishedIsWhole
<1> DEFINE Whole ==
      status'.digest \notin {None, status.digest} =>
        \A i \in 1..Len(Layers[status'.digest]) :
          LET member == cache'[Layers[status'.digest][i]]
          IN  /\ member # None /\ member.of = status'.digest /\ member.whole
              /\ member.source = "blob" => member.own
<1>1. IInv /\ [Next]_vars => [Whole]_vars
  <2> SUFFICES ASSUME IInv, [Next]_vars,
                      status'.digest \notin {None, status.digest},
                      NEW i \in 1..Len(Layers[status'.digest])
               PROVE  LET member == cache'[Layers[status'.digest][i]]
                      IN  /\ member # None /\ member.of = status'.digest
                          /\ member.whole
                          /\ member.source = "blob" => member.own
    OBVIOUS
  <2>1. RefreshSucceeds
    BY NamedAtTheEnd
  <2>2. /\ task.pc = "members" /\ ~MoreLayers
        /\ status'.digest = task.digest /\ cache' = cache
    BY <2>1 DEF RefreshSucceeds
  <2>3. task.next \in Nat /\ task.digest \in Digest /\ task.digest # None
    BY <2>2 DEF IInv, TypeOK, Task
  <2>4. Layers[task.digest] \in Seq(File)
    BY <2>3, PalletAssumption
  <2>5. i < task.next
    BY <2>2, <2>3, <2>4 DEF MoreLayers
  <2>6. Layers[task.digest][i] \in File
    BY <2>2, <2>4
  <2>7. /\ cache[Layers[task.digest][i]] # None
        /\ cache[Layers[task.digest][i]].of = task.digest
        /\ cache[Layers[task.digest][i]].whole
    BY <2>2, <2>3, <2>5 DEF IInv, TaskInv, Fetched
  <2> QED
    BY <2>2, <2>6, <2>7 DEF IInv, DirectoryInv, OnlyVouchedBytes
<1>2. PublishedIsWhole <=> [][Whole]_vars
  BY DEF PublishedIsWhole
<1> HIDE DEF Whole
<1> QED
  BY <1>1, <1>2, Invariance, PTL DEF Spec
=============================================================================
