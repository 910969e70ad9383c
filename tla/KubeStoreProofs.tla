-------------------------- MODULE KubeStoreProofs --------------------------
(***************************************************************************)
(* Proofs about KubeStore, for any number of objects, addresses, changes   *)
(* and lost watches.                                                       *)
(*                                                                         *)
(* What the layer will be is spread over the queue, the list in progress   *)
(* and the layer itself.  For each address one of them has the last word:  *)
(* the last event about it, or else the list that is coming, or else the   *)
(* layer.  CInv says that whoever has it agrees with the cluster, and that *)
(* the events come in an order in which this can be told.                  *)
(***************************************************************************)
EXTENDS KubeStore, SequenceTheorems, WellFoundedInduction, TLAPS

\* Each object keeps its address and no two share one that parses.
OneAddressEach ==
  /\ \A o \in Object : \A a, b \in MacsOf[o] : a = b
  /\ \A o, p \in Object : o # p => MacsOf[o] \cap MacsOf[p] \subseteq {BadMac}

-----------------------------------------------------------------------------
(***************************************************************************)
(* Invariants.                                                             *)
(***************************************************************************)

\* The writer is a record, and has room for the patch that it has sent.
WriterOK ==
  /\ writer \in [pc : {"sleep", "pass"}, todo : SUBSET Entry,
                 written : 0..MaxPatches, patch : PatchInFlight \cup {None}]
  /\ writer.patch # None => writer.written < MaxPatches

\* Only the two marks of a list carry no object.
EventsOK ==
  \A i \in 1..Len(queue) :
    queue[i].kind \in {"Init", "InitDone"} \/ queue[i].object \in BootHost

\* An object is what its name says, with an address it may be given.
ObjectsOK ==
  \A o \in Object :
    cluster[o] # None => cluster[o].name = o /\ cluster[o].mac \in MacsOf[o]

TInv == TypeOK /\ WriterOK /\ EventsOK /\ ObjectsOK

\* A list comes whole, and before the changes that follow it.
Before(a, b) ==
  \/ a = "Init" /\ b # "Init"
  \/ a = "InitApply" /\ b # "Init"
  \/ a \in {"InitDone", "Apply", "Delete"} /\ b \in {"Apply", "Delete"}

Sorted(q) ==
  \A i, j \in 1..Len(q) : i < j => Before(q[i].kind, q[j].kind)

\* Record r, or None, is right about address m in the cluster c.
Agrees(c, r, m) ==
  IF r = None
  THEN \A o \in Object : c[o] # None => c[o].mac # m
  ELSE /\ c[r.object] # None
       /\ c[r.object].mac = m
       /\ c[r.object].online = r.online

\* An event that changes what the layer says of address m, and to what.
Speaks(e, m) == e.kind \in {"Apply", "Delete"} /\ e.object.mac = m
Word(e) == IF e.kind = "Delete" THEN None ELSE to_record(e.object)

Silent(q, m) == \A i \in 1..Len(q) : ~Speaks(q[i], m)

Holds(q, kind) == \E i \in 1..Len(q) : q[i].kind = kind

\* The last event about address m agrees with the cluster.
LastWord(q, c, m) ==
  \A i \in 1..Len(q) :
    Speaks(q[i], m) /\ (\A j \in 1..Len(q) : i < j => ~Speaks(q[j], m))
      => Agrees(c, Word(q[i]), m)

\* The objects that the list under way will have brought, those received (in
\* l) included once it has begun.
Brings(q, h) == \E i \in 1..Len(q) : q[i].kind = "InitApply" /\ q[i].object = h
Coming(q, l, h) ==
  Brings(q, h) \/ (~Holds(q, "Init") /\ \E i \in 1..Len(l) : l[i] = h)

ListAgrees(q, l, c, m) ==
  /\ \A h \in BootHost :
       Coming(q, l, h) /\ h.mac = m => Agrees(c, to_record(h), m)
  /\ (\A h \in BootHost : Coming(q, l, h) => h.mac # m) => Agrees(c, None, m)

\* Whoever has the last word on address m agrees with the cluster.
Settled(q, l, c, y, r, m) ==
  /\ LastWord(q, c, m)
  /\ Silent(q, m) /\ Holds(q, "InitDone") => ListAgrees(q, l, c, m)
  /\ Silent(q, m) /\ ~Holds(q, "InitDone") /\ y => Agrees(c, r, m)

CInv ==
  /\ Sorted(queue)
  /\ \A m \in Mac : Settled(queue, relisting, cluster, synced, kube[m], m)

-----------------------------------------------------------------------------
\* A set of numbers that is not empty has a least one.
LEMMA LeastNumber ==
  ASSUME NEW T \in SUBSET Nat, T # {}
  PROVE  \E n \in T : \A k \in T : n <= k
<1> DEFINE R == OpToRel(<, Nat)
<1>1. IsWellFoundedOn(R, Nat)
  BY NatLessThanWellFounded
<1>2. T \subseteq Nat
  OBVIOUS
<1>3. PICK n \in T : \A k \in T : ~(<<k, n>> \in R)
  <2> HIDE DEF R
  <2> QED
    BY <1>1, <1>2, WFMin
<1>4. \A k \in T : ~(k < n)
  BY <1>2, <1>3 DEF OpToRel
<1>5. QED
  BY <1>2, <1>4

\* A set of positions that is not empty has a last one.
LEMMA GreatestPosition ==
  ASSUME NEW n \in Nat, NEW at \in SUBSET (1..n), at # {}
  PROVE  \E i \in at : \A j \in at : j <= i
<1> DEFINE T == {n - i : i \in at}
<1>1. T \in SUBSET Nat /\ T # {}
  OBVIOUS
<1>2. PICK k \in T : \A l \in T : k <= l
  <2> HIDE DEF T
  <2> QED
    BY <1>1, LeastNumber
<1>3. PICK i \in at : k = n - i
  OBVIOUS
<1>4. \A j \in at : n - i <= n - j
  BY <1>2, <1>3
<1>5. QED
  BY <1>4

\* The recursion of Listing over the first n names, on the objects of c.
UpTo(f, c, n) ==
  f = [i \in 0..n |-> IF i = 0 THEN <<>>
                      ELSE IF c[ListOrder[i]] = None THEN f[i - 1]
                           ELSE Append(f[i - 1],
                                       EventOf("InitApply", c[ListOrder[i]]))]

\* There is a function that satisfies it, for any length.
LEMMA UpToExists ==
  ASSUME NEW c, NEW len \in Nat
  PROVE  \E f : UpTo(f, c, len)
<1> DEFINE Bad == {n \in Nat : ~\E f : UpTo(f, c, n)}
<1> SUFFICES ASSUME Bad # {} PROVE FALSE
  OBVIOUS
<1>1. PICK n \in Bad : \A k \in Bad : n <= k
  <2>1. Bad \in SUBSET Nat
    OBVIOUS
  <2> HIDE DEF Bad
  <2> QED
    BY <2>1, LeastNumber
<1>2. n # 0
  <2> DEFINE f == [i \in 0..0 |-> <<>>]
  <2>1. UpTo(f, c, 0)
    BY DEF UpTo
  <2> HIDE DEF f
  <2> QED
    BY <2>1
<1>3. n \in Nat /\ n - 1 \in Nat /\ n - 1 \notin Bad
  BY <1>1, <1>2
<1>4. PICK f : UpTo(f, c, n - 1)
  BY <1>3
<1> DEFINE last == IF c[ListOrder[n]] = None THEN f[n - 1]
                   ELSE Append(f[n - 1], EventOf("InitApply", c[ListOrder[n]]))
           g == [i \in 0..n |-> IF i = n THEN last ELSE f[i]]
           Rule(h, i) == IF i = 0 THEN <<>>
                         ELSE IF c[ListOrder[i]] = None THEN h[i - 1]
                              ELSE Append(h[i - 1],
                                          EventOf("InitApply", c[ListOrder[i]]))
<1>5. UpTo(g, c, n)
  <2>1. \A i \in 0..(n - 1) : g[i] = f[i]
    BY <1>3
  <2>2. \A i \in 0..(n - 1) : f[i] = Rule(f, i)
    BY <1>3, <1>4 DEF UpTo
  <2>3. \A i \in 0..n : i # 0 => i - 1 \in 0..(n - 1)
    BY <1>3
  <2>4. g[n] = Rule(g, n)
    BY <1>2, <1>3, <2>1, <2>3
  <2>5. \A i \in 0..n : i # n => i \in 0..(n - 1)
    BY <1>3
  <2>6. \A i \in 0..n : g[i] = Rule(g, i)
    BY <1>3, <2>1, <2>2, <2>3, <2>4, <2>5
  <2>7. g = [i \in 0..n |-> g[i]]
    BY <1>3
  <2> HIDE DEF g
  <2>8. g = [i \in 0..n |-> Rule(g, i)]
    BY <2>6, <2>7
  <2>9. QED
    BY <2>8 DEF UpTo
<1>6. QED
  BY <1>1, <1>5

\* Where a list has got after n names.
Lists(s, c, n) ==
  /\ s \in Seq([kind : {"InitApply"}, object : BootHost])
  /\ \A k \in 1..Len(s) :
       \E o \in Object : c[o] # None /\ s[k] = EventOf("InitApply", c[o])
  /\ \A i \in 1..n :
       c[ListOrder[i]] # None =>
         \E k \in 1..Len(s) : s[k] = EventOf("InitApply", c[ListOrder[i]])

LEMMA ListsNone ==
  ASSUME NEW c
  PROVE  Lists(<<>>, c, 0)
BY DEF Lists

\* The next name is left out when it has no object.
LEMMA ListsSkip ==
  ASSUME NEW c, NEW n \in Nat, NEW s, Lists(s, c, n), c[ListOrder[n + 1]] = None
  PROVE  Lists(s, c, n + 1)
<1>1. \A i \in 1..(n + 1) : i \in 1..n \/ i = n + 1
  OBVIOUS
<1>2. QED
  BY <1>1 DEF Lists

\* Its object is brought when it has one.
LEMMA ListsMore ==
  ASSUME NEW c, NEW n \in Nat, NEW s, Lists(s, c, n),
         ListOrder[n + 1] \in Object,
         c[ListOrder[n + 1]] # None, c[ListOrder[n + 1]] \in BootHost
  PROVE  Lists(Append(s, EventOf("InitApply", c[ListOrder[n + 1]])), c, n + 1)
<1> DEFINE e == EventOf("InitApply", c[ListOrder[n + 1]])
           S == [kind : {"InitApply"}, object : BootHost]
           t == Append(s, e)
<1>1. e \in S /\ s \in Seq(S)
  BY DEF EventOf, Lists
<1>2. e = EventOf("InitApply", c[ListOrder[n + 1]])
  OBVIOUS
<1> HIDE DEF e, S
<1>3. /\ t \in Seq(S) /\ Len(t) = Len(s) + 1 /\ Len(s) \in Nat
      /\ \A k \in 1..Len(s) : t[k] = s[k]
      /\ t[Len(s) + 1] = e
  BY <1>1, AppendProperties, LenProperties
<1> HIDE DEF t
<1>4. \A k \in 1..Len(t) : k \in 1..Len(s) \/ k = Len(s) + 1
  BY <1>3
<1>5. \A k \in 1..Len(s) : k \in 1..Len(t)
  BY <1>3
<1>6. Len(s) + 1 \in 1..Len(t)
  BY <1>3
<1>7. \A k \in 1..Len(t) :
        \E o \in Object : c[o] # None /\ t[k] = EventOf("InitApply", c[o])
  <2> TAKE k \in 1..Len(t)
  <2>1. CASE k \in 1..Len(s)
    BY <1>3, <2>1 DEF Lists
  <2>2. CASE k = Len(s) + 1
    <3>1. t[k] = EventOf("InitApply", c[ListOrder[n + 1]])
      BY <1>2, <1>3, <2>2
    <3>2. QED
      BY <3>1
  <2>3. QED
    BY <1>4, <2>1, <2>2
<1>8. ASSUME NEW i \in 1..(n + 1), c[ListOrder[i]] # None
      PROVE  \E k \in 1..Len(t) : t[k] = EventOf("InitApply", c[ListOrder[i]])
  <2>1. CASE i \in 1..n
    <3>1. PICK k \in 1..Len(s) : s[k] = EventOf("InitApply", c[ListOrder[i]])
      BY <1>8, <2>1 DEF Lists
    <3>2. k \in 1..Len(t) /\ t[k] = EventOf("InitApply", c[ListOrder[i]])
      BY <1>3, <1>5, <3>1
    <3>3. QED
      BY <3>2
  <2>2. CASE i = n + 1
    BY <1>2, <1>3, <1>6, <2>2
  <2>3. QED
    BY <2>1, <2>2
<1>9. Lists(t, c, n + 1)
  BY <1>3, <1>7, <1>8 DEF Lists, S
<1>10. QED
  BY <1>9 DEF t, e

\* A list brings each object there is, and nothing else.
LEMMA ListingIs ==
  ASSUME cluster \in [Object -> BootHost \cup {None}]
  PROVE  Lists(Listing, cluster, Len(ListOrder))
<1> DEFINE len == Len(ListOrder)
           up == CHOOSE f : UpTo(f, cluster, len)
<1>0. len \in Nat /\ \A i \in 1..len : ListOrder[i] \in Object
  BY KubeAssumption, LenProperties, ElementOfSeq
<1>1. UpTo(up, cluster, len)
  <2>1. \E f : UpTo(f, cluster, len)
    BY <1>0, UpToExists
  <2>2. UpTo(CHOOSE f : UpTo(f, cluster, len), cluster, len)
    BY <2>1
  <2> QED
    BY <2>2
<1>2. Listing = up[len]
  BY DEF Listing, UpTo
<1> HIDE DEF up, len
<1>3. \A i \in 0..len :
        up[i] = IF i = 0 THEN <<>>
                ELSE IF cluster[ListOrder[i]] = None THEN up[i - 1]
                     ELSE Append(up[i - 1],
                                 EventOf("InitApply", cluster[ListOrder[i]]))
  BY <1>0, <1>1 DEF UpTo
<1> DEFINE Bad == {n \in 0..len : ~Lists(up[n], cluster, n)}
<1>4. ASSUME Bad # {} PROVE FALSE
  <2>1. PICK n \in Bad : \A k \in Bad : n <= k
    <3>1. Bad \in SUBSET Nat
      BY <1>0
    <3> HIDE DEF Bad
    <3> QED
      BY <1>4, <3>1, LeastNumber
  <2>2. n # 0
    <3>1. 0 \in 0..len
      BY <1>0
    <3>2. up[0] = <<>>
      BY <1>3, <3>1, Zenon
    <3>3. Lists(up[0], cluster, 0)
      BY <3>2, ListsNone
    <3>4. QED
      BY <2>1, <3>3
  <2>3. n \in 1..len /\ n - 1 \in 0..len /\ n - 1 \notin Bad /\ n - 1 \in Nat
    BY <1>0, <2>1, <2>2
  <2>4. Lists(up[n - 1], cluster, n - 1)
    BY <2>3
  <2>5. (n - 1) + 1 = n /\ n \in 0..len
    BY <2>3, <1>0
  <2>6. ListOrder[n] \in Object /\ cluster[ListOrder[n]] \in BootHost \cup {None}
    BY <1>0, <2>3
  <2>7. CASE cluster[ListOrder[n]] = None
    <3>1. up[n] = up[n - 1]
      BY <1>3, <2>2, <2>5, <2>7
    <3>2. Lists(up[n - 1], cluster, (n - 1) + 1)
      BY <2>3, <2>4, <2>5, <2>7, ListsSkip
    <3>3. QED
      BY <2>1, <2>5, <3>1, <3>2
  <2>8. CASE cluster[ListOrder[n]] # None
    <3>1. up[n] = Append(up[n - 1], EventOf("InitApply", cluster[ListOrder[n]]))
      BY <1>3, <2>2, <2>5, <2>8
    <3>2. Lists(Append(up[n - 1],
                       EventOf("InitApply", cluster[ListOrder[(n - 1) + 1]])),
                cluster, (n - 1) + 1)
      BY <2>3, <2>4, <2>5, <2>6, <2>8, ListsMore
    <3>3. QED
      BY <2>1, <2>5, <3>1, <3>2
  <2>9. QED
    BY <2>7, <2>8
<1>5. QED
  BY <1>0, <1>2, <1>4 DEF len

\* The events of a relist: its two marks and the objects between them.
LEMMA RelistIs ==
  ASSUME cluster \in [Object -> BootHost \cup {None}]
  PROVE  /\ Relist \in Seq(Event)
         /\ Len(Listing) \in Nat /\ Len(Relist) = Len(Listing) + 2
         /\ Relist[1] = EventOf("Init", None)
         /\ Relist[Len(Listing) + 2] = EventOf("InitDone", None)
         /\ \A k \in 1..Len(Listing) :
              /\ Relist[k + 1] = Listing[k]
              /\ Listing[k] \in [kind : {"InitApply"}, object : BootHost]
<1> DEFINE S == [kind : {"InitApply"}, object : BootHost]
           a == <<EventOf("Init", None)>>
           z == <<EventOf("InitDone", None)>>
           l == Listing
           al == a \o l
           r == al \o z
<1>1. l \in Seq(S)
  BY ListingIs DEF Lists
<1>2. S \subseteq Event
  BY DEF Event
<1>3. Len(l) \in Nat /\ l \in Seq(Event) /\ \A k \in 1..Len(l) : l[k] \in S
  <2>1. l \in Seq(Event)
    BY <1>1, <1>2, SeqMonotonic
  <2> HIDE DEF S, l
  <2>2. QED
    BY <1>1, <2>1, LenProperties, ElementOfSeq
<1>4. /\ a \in Seq(Event) /\ Len(a) = 1 /\ a[1] = EventOf("Init", None)
      /\ z \in Seq(Event) /\ Len(z) = 1 /\ z[1] = EventOf("InitDone", None)
  <2>1. EventOf("Init", None) \in Event /\ EventOf("InitDone", None) \in Event
    BY DEF EventOf, Event
  <2>2. QED
    BY <2>1
<1>5. r = Relist
  BY DEF Relist
<1> HIDE DEF S, l, a, z
<1>6. /\ al \in Seq(Event) /\ Len(al) = Len(a) + Len(l)
      /\ \A i \in 1..(Len(a) + Len(l)) :
           al[i] = IF i <= Len(a) THEN a[i] ELSE l[i - Len(a)]
  BY <1>3, <1>4, ConcatProperties
<1> HIDE DEF al
<1>7. /\ r \in Seq(Event) /\ Len(r) = Len(al) + Len(z)
      /\ \A i \in 1..(Len(al) + Len(z)) :
           r[i] = IF i <= Len(al) THEN al[i] ELSE z[i - Len(al)]
  <2>1. al \in Seq(Event) /\ z \in Seq(Event)
    BY <1>4, <1>6
  <2>2. QED
    BY <2>1, ConcatProperties
<1> HIDE DEF r
<1>8. /\ Len(al) = Len(l) + 1 /\ Len(r) = Len(l) + 2
      /\ al[1] = a[1]
      /\ \A k \in 1..Len(l) : al[k + 1] = l[k]
  BY <1>3, <1>4, <1>6, <1>7
<1>9. /\ r[1] = a[1]
      /\ r[Len(l) + 2] = z[1]
      /\ \A k \in 1..Len(l) : r[k + 1] = l[k]
  <2>1. /\ 1 \in 1..(Len(al) + Len(z)) /\ 1 <= Len(al)
        /\ Len(l) + 2 \in 1..(Len(al) + Len(z)) /\ ~(Len(l) + 2 <= Len(al))
        /\ (Len(l) + 2) - Len(al) = 1
    BY <1>3, <1>4, <1>8
  <2>2. \A k \in 1..Len(l) : k + 1 \in 1..(Len(al) + Len(z)) /\ k + 1 <= Len(al)
    BY <1>3, <1>4, <1>8
  <2>3. r[1] = al[1] /\ r[Len(l) + 2] = z[1]
    BY <1>7, <2>1
  <2>4. \A k \in 1..Len(l) : r[k + 1] = al[k + 1]
    BY <1>7, <2>2
  <2>5. QED
    BY <1>8, <2>3, <2>4
<1>10. QED
  BY <1>3, <1>4, <1>5, <1>7, <1>8, <1>9 DEF l, S

\* The last object of a list with some address, or None.
LEMMA LastWithIs ==
  ASSUME NEW s \in Seq(BootHost), NEW m
  PROVE  \/ /\ LastWith(s, m) = None
            /\ \A i \in 1..Len(s) : s[i].mac # m
         \/ \E i \in 1..Len(s) :
              LastWith(s, m) = s[i] /\ s[i].mac = m /\ s[i] \in BootHost
<1> DEFINE at == {i \in 1..Len(s) : s[i].mac = m}
           last == CHOOSE i \in at : \A j \in at : j <= i
<1>1. CASE at = {}
  BY <1>1 DEF LastWith
<1>2. CASE at # {}
  <2>1. Len(s) \in Nat /\ at \in SUBSET (1..Len(s))
    BY LenProperties
  <2>2. \E i \in at : \A j \in at : j <= i
    <3> HIDE DEF at
    <3> QED
      BY <1>2, <2>1, GreatestPosition
  <2>3. last \in at
    BY <2>2
  <2>4. LastWith(s, m) = s[last]
    BY <1>2 DEF LastWith
  <2>5. last \in 1..Len(s) /\ s[last].mac = m
    BY <2>3
  <2> HIDE DEF last
  <2>6. s[last] \in BootHost
    BY <2>5, ElementOfSeq
  <2>7. QED
    BY <2>4, <2>5, <2>6
<1>3. QED
  BY <1>1, <1>2

-----------------------------------------------------------------------------
(***************************************************************************)
(* Types.                                                                  *)
(***************************************************************************)

\* What is at the front of the queue, and what is left without it.
LEMMA Popped ==
  ASSUME TInv, NEW kind, Received(kind), queue' = Tail(queue)
  PROVE  /\ Len(queue) \in Nat /\ 1 \in 1..Len(queue)
         /\ Head(queue) = queue[1] /\ queue[1].kind = kind
         /\ queue[1] \in Event
         /\ kind \notin {"Init", "InitDone"} => queue[1].object \in BootHost
         /\ queue' \in Seq(Event)
         /\ Len(queue') = Len(queue) - 1
         /\ \A i \in 1..Len(queue') :
              queue'[i] = queue[i + 1] /\ i + 1 \in 1..Len(queue)
         /\ EventsOK'
<1>1. queue \in Seq(Event) /\ queue # <<>> /\ Head(queue).kind = kind
  BY DEF TInv, TypeOK, Received
<1>2. Len(queue) \in Nat /\ 1 \in 1..Len(queue)
  <2>1. Len(queue) \in Nat \ {0}
    BY <1>1, EmptySeq
  <2>2. QED
    BY <2>1
<1>3. Head(queue) = queue[1] /\ queue[1] \in Event
  BY <1>1, <1>2, ElementOfSeq
<1>4. /\ queue' \in Seq(Event) /\ Len(queue') = Len(queue) - 1
      /\ \A i \in 1..Len(queue') : queue'[i] = queue[i + 1]
  BY <1>1, HeadTailProperties
<1>5. \A i \in 1..Len(queue') : i + 1 \in 1..Len(queue)
  BY <1>2, <1>4
<1>6. EventsOK'
  BY <1>4, <1>5 DEF TInv, EventsOK
<1>7. kind \notin {"Init", "InitDone"} => queue[1].object \in BootHost
  BY <1>1, <1>2, <1>3 DEF TInv, EventsOK
<1>8. QED
  BY <1>1, <1>2, <1>3, <1>4, <1>5, <1>6, <1>7

\* An event about an object at the end of the queue.
LEMMA Pushed ==
  ASSUME TInv, NEW kind \in {"Apply", "Delete"}, NEW h \in BootHost,
         queue' = Append(queue, EventOf(kind, h))
  PROVE  /\ Len(queue) \in Nat
         /\ queue' \in Seq(Event)
         /\ Len(queue') = Len(queue) + 1
         /\ \A i \in 1..Len(queue) : queue'[i] = queue[i]
         /\ queue'[Len(queue) + 1] = EventOf(kind, h)
         /\ EventsOK'
<1> DEFINE e == EventOf(kind, h)
<1>1. e \in Event /\ e.object \in BootHost
  BY DEF EventOf, Event
<1> HIDE DEF e
<1>2. queue' = Append(queue, e) /\ queue \in Seq(Event)
  BY DEF e, TInv, TypeOK
<1>3. /\ Len(queue) \in Nat /\ queue' \in Seq(Event)
      /\ Len(queue') = Len(queue) + 1
      /\ \A i \in 1..Len(queue) : queue'[i] = queue[i]
      /\ queue'[Len(queue) + 1] = e
  BY <1>1, <1>2, AppendProperties, LenProperties
<1>4. \A i \in 1..Len(queue') : i \in 1..Len(queue) \/ i = Len(queue) + 1
  BY <1>3
<1>5. EventsOK'
  <2> SUFFICES ASSUME NEW i \in 1..Len(queue')
               PROVE  queue'[i].kind \in {"Init", "InitDone"}
                        \/ queue'[i].object \in BootHost
    BY DEF EventsOK
  <2>1. CASE i \in 1..Len(queue)
    BY <1>3, <2>1 DEF TInv, EventsOK
  <2>2. CASE i = Len(queue) + 1
    BY <1>1, <1>3, <2>2
  <2>3. QED
    BY <1>4, <2>1, <2>2
<1>6. QED
  BY <1>3, <1>5 DEF e

\* The events of a list, by their position.
LEMMA RelistEvents ==
  ASSUME cluster \in [Object -> BootHost \cup {None}], NEW i \in 1..Len(Relist)
  PROVE  \/ i = 1 /\ Relist[i] = EventOf("Init", None)
         \/ i = Len(Relist) /\ Relist[i] = EventOf("InitDone", None)
         \/ /\ 1 < i /\ i < Len(Relist)
            /\ Relist[i].kind = "InitApply" /\ Relist[i].object \in BootHost
            /\ \E o \in Object : cluster[o] # None /\ Relist[i].object = cluster[o]
<1> DEFINE n == Len(Listing)
<1>1. /\ n \in Nat /\ Len(Relist) = n + 2
      /\ Relist[1] = EventOf("Init", None)
      /\ Relist[n + 2] = EventOf("InitDone", None)
  BY RelistIs
<1>2. \A k \in 1..n :
        /\ Relist[k + 1] \in [kind : {"InitApply"}, object : BootHost]
        /\ Relist[k + 1] = Listing[k]
  BY RelistIs
<1>3. \A k \in 1..n :
        \E o \in Object : cluster[o] # None /\ Listing[k] = EventOf("InitApply", cluster[o])
  BY ListingIs DEF Lists
<1> HIDE DEF n
<1>4. i = 1 \/ i = n + 2
      \/ (i - 1 \in 1..n /\ (i - 1) + 1 = i /\ 1 < i /\ i < n + 2)
  BY <1>1
<1>5. CASE i = 1 \/ i = n + 2
  BY <1>1, <1>5
<1>6. CASE i - 1 \in 1..n /\ (i - 1) + 1 = i /\ 1 < i /\ i < n + 2
  <2>1. /\ Relist[i].kind = "InitApply" /\ Relist[i].object \in BootHost
        /\ Relist[i] = Listing[i - 1]
    BY <1>2, <1>6
  <2>2. \E o \in Object : cluster[o] # None /\ Relist[i].object = cluster[o]
    <3>1. PICK o \in Object :
            cluster[o] # None /\ Listing[i - 1] = EventOf("InitApply", cluster[o])
      BY <1>3, <1>6
    <3>2. Relist[i].object = cluster[o]
      BY <2>1, <3>1 DEF EventOf
    <3>3. QED
      BY <3>1, <3>2
  <2>3. QED
    BY <1>1, <1>6, <2>1, <2>2
<1>7. QED
  BY <1>4, <1>5, <1>6

\* Each object there is comes with the list.
LEMMA RelistBrings ==
  ASSUME cluster \in [Object -> BootHost \cup {None}],
         NEW o \in Object, cluster[o] # None
  PROVE  \E i \in 1..Len(Relist) :
           Relist[i].kind = "InitApply" /\ Relist[i].object = cluster[o]
<1>1. PICK p \in 1..Len(ListOrder) : o = ListOrder[p]
  BY DEF Object
<1>2. PICK k \in 1..Len(Listing) : Listing[k] = EventOf("InitApply", cluster[o])
  BY <1>1, ListingIs DEF Lists
<1>3. /\ Relist[k + 1] = Listing[k] /\ Len(Listing) \in Nat
      /\ Len(Relist) = Len(Listing) + 2
  BY <1>2, RelistIs
<1>4. k + 1 \in 1..Len(Relist)
  BY <1>3
<1>5. QED
  BY <1>2, <1>3, <1>4 DEF EventOf

\* A writer that sleeps, from the start.
LEMMA AsleepOK ==
  /\ Asleep \in [pc : {"sleep", "pass"}, todo : SUBSET Entry,
                 written : 0..MaxPatches, patch : PatchInFlight \cup {None}]
  /\ Asleep.patch = None
BY KubeAssumption DEF Asleep

LEMMA InitTInv == Init => TInv
<1> SUFFICES ASSUME Init PROVE TInv
  OBVIOUS
<1>1. WriterOK
  BY AsleepOK DEF Init, WriterOK
<1>2. cluster \in [Object -> BootHost \cup {None}] /\ ObjectsOK
  <2>1. cluster \in [Object -> {None} \cup {h \in BootHost : h.status = NoStatus}]
    BY DEF Init
  <2>2. cluster \in [Object -> BootHost \cup {None}]
    BY <2>1
  <2>3. QED
    BY <2>2 DEF Init, ObjectsOK
<1>3. queue \in Seq(Event) /\ EventsOK
  BY <1>2, RelistIs, RelistEvents DEF Init, EventsOK, EventOf
<1>4. index \in [Mac -> BootHost \cup {None}] /\ kube \in [Mac -> Record \cup {None}]
      /\ observed \in [Mac -> Phase \cup {None}] /\ changes \in 0..MaxChanges
      /\ synced = FALSE
  <2>1. None \in BootHost \cup {None} /\ None \in Record \cup {None}
        /\ None \in Phase \cup {None} /\ MaxChanges \in 0..MaxChanges
    BY KubeAssumption
  <2>2. index = [m \in Mac |-> None] /\ kube = [m \in Mac |-> None]
        /\ observed = [m \in Mac |-> None] /\ changes = MaxChanges
        /\ synced = FALSE
    BY DEF Init
  <2> HIDE DEF BootHost, Record
  <2>3. QED
    BY <2>1, <2>2
<1>5. relisting \in Seq(BootHost)
  BY EmptySeq DEF Init
<1>6. QED
  BY <1>1, <1>2, <1>3, <1>4, <1>5 DEF TInv, TypeOK, WriterOK

\* Nothing but the queue, the list in progress, the layer and the index.
LEMMA WatchTypes == TInv /\ Watch => TInv'
<1> SUFFICES ASSUME TInv, Watch PROVE TInv'
  OBVIOUS
<1>0. TypeOK /\ WriterOK /\ EventsOK /\ ObjectsOK
  BY DEF TInv
<1>1. UNCHANGED <<cluster, observed, writer, changes>>
  BY DEF Watch, WatchInit, WatchInitApply, reset, apply, delete
<1>2. PICK kind \in {"Init", "InitApply", "InitDone", "Apply", "Delete"} :
        Received(kind) /\ queue' = Tail(queue)
  BY DEF Watch, WatchInit, WatchInitApply, reset, apply, delete
<1>3. queue' \in Seq(Event) /\ EventsOK'
  BY <1>2, Popped
<1>4. WriterOK' /\ ObjectsOK'
  BY <1>0, <1>1 DEF WriterOK, ObjectsOK
<1>5. /\ relisting' \in Seq(BootHost)
      /\ index' \in [Mac -> BootHost \cup {None}]
      /\ kube' \in [Mac -> Record \cup {None}]
      /\ synced' \in BOOLEAN
  <2>0. /\ relisting \in Seq(BootHost) /\ index \in [Mac -> BootHost \cup {None}]
        /\ kube \in [Mac -> Record \cup {None}] /\ synced \in BOOLEAN
    BY <1>0 DEF TypeOK
  <2>1. CASE WatchInit
    <3>1. relisting' = <<>> /\ UNCHANGED <<index, kube, synced>>
      BY <2>1 DEF WatchInit
    <3>2. relisting' \in Seq(BootHost)
      BY <3>1, EmptySeq
    <3>3. QED
      BY <2>0, <3>1, <3>2
  <2>2. CASE WatchInitApply
    <3>1. queue[1].object \in BootHost
          /\ relisting' = Append(relisting, queue[1].object)
          /\ UNCHANGED <<index, kube, synced>>
      BY <2>2, Popped DEF WatchInitApply
    <3>2. relisting' \in Seq(BootHost)
      BY <2>0, <3>1, AppendProperties
    <3>3. QED
      BY <2>0, <3>1, <3>2
  <2>3. CASE reset
    <3>1. ASSUME NEW m \in Mac
          PROVE  /\ Listed(m) \in BootHost \cup {None}
                 /\ (IF Listed(m) = None THEN None ELSE to_record(Listed(m)))
                      \in Record \cup {None}
      <4>1. Listed(m) \in BootHost \cup {None}
        BY <2>0, LastWithIs DEF Listed
      <4>2. \A h \in BootHost : to_record(h) \in Record \cup {None}
        BY DEF to_record, BootHost, Record
      <4>3. QED
        BY <4>1, <4>2
    <3>2. relisting' = <<>> /\ synced' = TRUE
          /\ index' = [m \in Mac |-> Listed(m)]
          /\ kube' = [m \in Mac |-> IF Listed(m) = None THEN None
                                    ELSE to_record(Listed(m))]
      BY <2>3 DEF reset
    <3>3. relisting' \in Seq(BootHost)
      BY <3>2, EmptySeq
    <3>4. QED
      BY <3>1, <3>2, <3>3
  <2>4. CASE apply \/ delete
    <3>1. queue[1].object \in BootHost /\ Head(queue) = queue[1]
      BY <2>4, Popped DEF apply, delete
    <3> DEFINE h == queue[1].object
    <3>2. relisting' = relisting /\ synced' = synced
      BY <2>4 DEF apply, delete
    <3>3. \/ UNCHANGED <<index, kube>>
          \/ /\ to_record(h) # None
             /\ \/ /\ index' = [index EXCEPT ![h.mac] = h]
                   /\ kube' = [kube EXCEPT ![h.mac] = to_record(h)]
                \/ /\ index' = [index EXCEPT ![h.mac] = None]
                   /\ kube' = [kube EXCEPT ![h.mac] = None]
      BY <2>4, <3>1 DEF apply, delete
    <3>4. to_record(h) # None => to_record(h) \in Record /\ h.mac \in Mac
      BY <3>1 DEF to_record, BootHost, Record
    <3>5. h \in BootHost
      BY <3>1
    <3> HIDE DEF h
    <3>6. QED
      BY <2>0, <3>2, <3>3, <3>4, <3>5
  <2>5. QED
    BY <2>1, <2>2, <2>3, <2>4 DEF Watch
<1>6. TypeOK'
  BY <1>0, <1>1, <1>3, <1>5 DEF TypeOK
<1>7. QED
  BY <1>3, <1>4, <1>6 DEF TInv

\* What the writer wants to see in an object is a status.
LEMMA DesiredType ==
  ASSUME TypeOK, NEW m \in Mac, NEW h \in BootHost
  PROVE  DesiredStatus(m, h) \in Status
BY DEF TypeOK, DesiredStatus, Status, Conditions, BootHost

LEMMA WriteTypes == TInv /\ Write => TInv'
<1> SUFFICES ASSUME TInv, Write PROVE TInv'
  OBVIOUS
<1>0. /\ TypeOK /\ WriterOK /\ EventsOK /\ ObjectsOK
      /\ MaxPatches \in Nat /\ writer.written \in 0..MaxPatches
      /\ writer.todo \subseteq Entry
      /\ writer.patch \in PatchInFlight \cup {None}
      /\ index \in [Mac -> BootHost \cup {None}]
  BY KubeAssumption DEF TInv, WriterOK, TypeOK
<1>1. UNCHANGED <<cluster, queue, relisting, kube, synced, observed, changes>>
  BY DEF Write, PassBegins, PassEnds, Skip, SendPatch, PatchNoted, PatchFailed
<1>2. EventsOK' /\ ObjectsOK'
  BY <1>0, <1>1 DEF EventsOK, ObjectsOK
<1>3. index' \in [Mac -> BootHost \cup {None}]
  <2>1. CASE PatchNoted
    <3> DEFINE m == writer.patch.mac
               h == index[m]
    <3>1. m \in Mac /\ writer.patch.desired \in Status
      BY <1>0, <2>1 DEF PatchNoted, PatchInFlight
    <3>2. h \in BootHost => [h EXCEPT !.status = writer.patch.desired] \in BootHost
      BY <3>1 DEF BootHost
    <3>3. index' = [index EXCEPT ![m] =
                      IF h = None THEN None
                      ELSE [h EXCEPT !.status = writer.patch.desired]]
      BY <2>1, <3>1, <1>0 DEF PatchNoted
    <3>4. h \in BootHost \cup {None}
      BY <1>0, <3>1
    <3> HIDE DEF m, h
    <3>5. QED
      BY <1>0, <3>1, <3>2, <3>3, <3>4
  <2>2. CASE ~PatchNoted
    <3>1. index' = index
      BY <2>2 DEF Write, PassBegins, PassEnds, Skip, SendPatch, PatchFailed
    <3>2. QED
      BY <1>0, <3>1
  <2>3. QED
    BY <2>1, <2>2
<1>4. WriterOK'
  <2>1. CASE PassBegins
    <3> DEFINE todo == {[mac |-> m, object |-> index[m]] :
                          m \in {k \in Mac : index[k] # None}}
    <3>1. todo \subseteq Entry
      BY <1>0 DEF Entry
    <3>2. writer' = [pc |-> "pass", written |-> 0, patch |-> None, todo |-> todo]
      BY <2>1 DEF PassBegins
    <3> HIDE DEF todo
    <3>3. QED
      BY <1>0, <3>1, <3>2 DEF WriterOK
  <2>2. CASE PassEnds
    BY <1>0, <2>2 DEF PassEnds, WriterOK
  <2>3. ASSUME NEW e \in writer.todo, Skip(e) PROVE WriterOK'
    <3> DEFINE left == writer.todo \ {e}
    <3>1. left \subseteq Entry /\ writer' = [writer EXCEPT !.todo = left]
      BY <1>0, <2>3 DEF Skip
    <3> HIDE DEF left
    <3>2. QED
      BY <1>0, <3>1 DEF WriterOK
  <2>4. ASSUME NEW e \in writer.todo, SendPatch(e) PROVE WriterOK'
    <3> DEFINE p == [mac |-> e.mac, name |-> e.object.name,
                     desired |-> DesiredStatus(e.mac, e.object),
                     answer |-> "none"]
    <3>1. e.mac \in Mac /\ e.object \in BootHost
      BY <1>0 DEF Entry
    <3>2. e.object.name \in Object /\ DesiredStatus(e.mac, e.object) \in Status
      BY <1>0, <3>1, DesiredType DEF BootHost
    <3>3. p \in PatchInFlight
      BY <3>1, <3>2 DEF PatchInFlight
    <3>4. writer.written < MaxPatches
          /\ writer' = [writer EXCEPT !.todo = @ \ {e}, !.patch = p]
      BY <2>4 DEF SendPatch
    <3> HIDE DEF p
    <3>5. QED
      BY <1>0, <3>3, <3>4 DEF WriterOK
  <2>5. CASE PatchNoted
    <3>1. /\ writer.written + 1 \in 0..MaxPatches
          /\ writer' = [writer EXCEPT !.patch = None, !.written = writer.written + 1]
      BY <1>0, <2>5 DEF PatchNoted, WriterOK
    <3>2. QED
      BY <1>0, <3>1 DEF WriterOK
  <2>6. CASE PatchFailed
    BY <1>0, <2>6 DEF PatchFailed, WriterOK
  <2>7. QED
    BY <2>1, <2>2, <2>3, <2>4, <2>5, <2>6 DEF Write
<1>5. TypeOK'
  BY <1>0, <1>1, <1>3, <1>4 DEF TypeOK, WriterOK
<1>6. QED
  BY <1>2, <1>4, <1>5 DEF TInv

\* An object that is put, edited or patched, with the event it makes.
LEMMA ObjectPut ==
  ASSUME TInv, NEW o \in Object, NEW h \in BootHost,
         h.name = o, h.mac \in MacsOf[o],
         cluster' = [cluster EXCEPT ![o] = h],
         queue' = Append(queue, EventOf("Apply", h))
  PROVE  /\ cluster' \in [Object -> BootHost \cup {None}] /\ ObjectsOK'
         /\ queue' \in Seq(Event) /\ EventsOK'
<1>1. queue' \in Seq(Event) /\ EventsOK'
  BY Pushed
<1>2. cluster \in [Object -> BootHost \cup {None}] /\ ObjectsOK
  BY DEF TInv, TypeOK
<1>3. cluster' \in [Object -> BootHost \cup {None}]
  BY <1>2
<1>4. ObjectsOK'
  BY <1>2 DEF ObjectsOK
<1>5. QED
  BY <1>1, <1>3, <1>4

\* What a patch makes of an object.
LEMMA PatchedType ==
  ASSUME TInv, NEW o \in Object, cluster[o] # None, NEW desired \in Status
  PROVE  LET new == [cluster[o] EXCEPT !.status = Merged(@, desired)]
         IN  /\ new \in BootHost /\ new.name = o /\ new.mac \in MacsOf[o]
             /\ new.mac = cluster[o].mac /\ new.online = cluster[o].online
<1> DEFINE h == cluster[o]
           s == Merged(h.status, desired)
<1>1. h \in BootHost /\ h.name = o /\ h.mac \in MacsOf[o]
  BY DEF TInv, TypeOK, ObjectsOK
<1>2. s \in Status
  BY <1>1 DEF Merged, Status, BootHost
<1> HIDE DEF h, s
<1>3. [h EXCEPT !.status = s] \in BootHost
      /\ [h EXCEPT !.status = s].name = o /\ [h EXCEPT !.status = s].mac = h.mac
      /\ [h EXCEPT !.status = s].online = h.online
  BY <1>1, <1>2 DEF BootHost
<1>4. [cluster[o] EXCEPT !.status = Merged(@, desired)] = [h EXCEPT !.status = s]
  BY DEF h, s
<1>5. QED
  BY <1>1, <1>3, <1>4 DEF h

\* What an operator makes of an object.
LEMMA PutType ==
  ASSUME TInv, NEW o \in Object, NEW mac \in MacsOf[o], NEW online \in BOOLEAN
  PROVE  [name |-> o, mac |-> mac, online |-> online,
          status |-> IF cluster[o] = None THEN NoStatus ELSE cluster[o].status]
           \in BootHost
<1> DEFINE status == IF cluster[o] = None THEN NoStatus ELSE cluster[o].status
<1>1. status \in Status
  BY DEF TInv, TypeOK, BootHost, NoStatus, Status
<1>2. mac \in Mac \cup {BadMac}
  BY KubeAssumption
<1> HIDE DEF status
<1>3. [name |-> o, mac |-> mac, online |-> online, status |-> status] \in BootHost
  BY <1>1, <1>2 DEF BootHost
<1>4. QED
  BY <1>3 DEF status

LEMMA ApiTypes == TInv /\ ApiServer => TInv'
<1> SUFFICES ASSUME TInv, ApiServer PROVE TInv'
  OBVIOUS
<1>0. /\ TypeOK /\ WriterOK /\ EventsOK /\ ObjectsOK
      /\ writer.patch \in PatchInFlight /\ writer.patch.name \in Object
      /\ writer.patch.desired \in Status
  BY DEF TInv, WriterOK, ApiServer, PatchApplied, PatchRefused, Unanswered,
         PatchInFlight
<1>1. UNCHANGED <<relisting, index, kube, synced, observed>>
  BY DEF ApiServer, PatchApplied, PatchRefused
<1>2. WriterOK' /\ changes' \in 0..MaxChanges
  <2>1. PICK a \in {"ok", "error"} : writer' = [writer EXCEPT !.patch.answer = a]
    BY DEF ApiServer, PatchApplied, PatchRefused
  <2>2. [writer.patch EXCEPT !.answer = a] \in PatchInFlight
    BY <1>0 DEF PatchInFlight
  <2>3. writer.patch # None
    BY DEF ApiServer, PatchApplied, PatchRefused, Unanswered
  <2>4. WriterOK'
    BY <1>0, <2>1, <2>2, <2>3 DEF WriterOK
  <2>5. changes' \in 0..MaxChanges
    BY <1>0, KubeAssumption DEF ApiServer, PatchApplied, PatchRefused, Change, TypeOK
  <2>6. QED
    BY <2>4, <2>5
<1>3. /\ cluster' \in [Object -> BootHost \cup {None}] /\ ObjectsOK'
      /\ queue' \in Seq(Event) /\ EventsOK'
  <2>1. CASE UNCHANGED <<cluster, queue>>
    BY <1>0, <2>1 DEF TypeOK, ObjectsOK, EventsOK
  <2>2. CASE PatchApplied /\ ~UNCHANGED <<cluster, queue>>
    <3> DEFINE o == writer.patch.name
               new == [cluster[o] EXCEPT !.status = Merged(@, writer.patch.desired)]
    <3>1. /\ cluster[o] # None
          /\ cluster' = [cluster EXCEPT ![o] = new]
          /\ queue' = Append(queue, EventOf("Apply", new))
      BY <2>2 DEF PatchApplied
    <3>2. new \in BootHost /\ new.name = o /\ new.mac \in MacsOf[o] /\ o \in Object
      BY <1>0, <3>1, PatchedType
    <3> HIDE DEF new, o
    <3>3. QED
      BY <3>1, <3>2, ObjectPut
  <2>3. QED
    BY <2>1, <2>2 DEF ApiServer, PatchRefused
<1>4. TypeOK'
  BY <1>0, <1>1, <1>2, <1>3 DEF TypeOK, WriterOK
<1>5. QED
  BY <1>2, <1>3, <1>4 DEF TInv

LEMMA EnvironmentTypes == TInv /\ Environment => TInv'
<1> SUFFICES ASSUME TInv, Environment PROVE TInv'
  OBVIOUS
<1>0. TypeOK /\ WriterOK /\ EventsOK /\ ObjectsOK
  BY DEF TInv
<1>1. changes' \in 0..MaxChanges
  BY <1>0, KubeAssumption
  DEF Environment, PutObject, DeleteObject, Report, Desync, Restart, Change, TypeOK
<1>2. ASSUME NEW o \in Object, PutObject(o) PROVE TInv'
  <2>1. PICK mac \in MacsOf[o], online \in BOOLEAN :
          LET new == [name |-> o, mac |-> mac, online |-> online,
                      status |-> IF cluster[o] = None THEN NoStatus
                                 ELSE cluster[o].status]
          IN  /\ cluster' = [cluster EXCEPT ![o] = new]
              /\ queue' = Append(queue, EventOf("Apply", new))
    BY <1>2 DEF PutObject
  <2> DEFINE new == [name |-> o, mac |-> mac, online |-> online,
                     status |-> IF cluster[o] = None THEN NoStatus
                                ELSE cluster[o].status]
  <2>2. cluster' = [cluster EXCEPT ![o] = new]
        /\ queue' = Append(queue, EventOf("Apply", new))
    BY <2>1
  <2>3. new \in BootHost /\ new.name = o /\ new.mac \in MacsOf[o]
    BY PutType
  <2> HIDE DEF new
  <2>4. /\ cluster' \in [Object -> BootHost \cup {None}] /\ ObjectsOK'
        /\ queue' \in Seq(Event) /\ EventsOK'
    BY <2>2, <2>3, ObjectPut
  <2>5. UNCHANGED <<relisting, index, kube, synced, observed, writer>>
    BY <1>2 DEF PutObject
  <2>6. QED
    BY <1>0, <1>1, <2>4, <2>5 DEF TInv, TypeOK, WriterOK
<1>3. ASSUME NEW o \in Object, DeleteObject(o) PROVE TInv'
  <2>1. /\ cluster[o] \in BootHost
        /\ cluster' = [cluster EXCEPT ![o] = None]
        /\ queue' = Append(queue, EventOf("Delete", cluster[o]))
        /\ UNCHANGED <<relisting, index, kube, synced, observed, writer>>
    BY <1>0, <1>3 DEF DeleteObject, TypeOK
  <2>2. queue' \in Seq(Event) /\ EventsOK'
    BY <2>1, Pushed
  <2>3. cluster' \in [Object -> BootHost \cup {None}] /\ ObjectsOK'
    BY <1>0, <2>1 DEF TypeOK, ObjectsOK
  <2>4. QED
    BY <1>0, <1>1, <2>1, <2>2, <2>3 DEF TInv, TypeOK, WriterOK
<1>4. ASSUME NEW m \in Mac, Report(m) PROVE TInv'
  <2>1. UNCHANGED <<cluster, queue, relisting, index, kube, synced, writer>>
    BY <1>4 DEF Report
  <2>2. observed' \in [Mac -> Phase \cup {None}]
    BY <1>0, <1>4 DEF Report, TypeOK
  <2>3. QED
    BY <1>0, <1>1, <2>1, <2>2 DEF TInv, TypeOK, WriterOK, EventsOK, ObjectsOK
<1>5. CASE Desync \/ Restart
  <2>1. queue' = Relist /\ cluster' = cluster
    BY <1>5 DEF Desync, Restart
  <2>2. queue' \in Seq(Event)
    BY <1>0, <2>1, RelistIs DEF TypeOK
  <2>3. EventsOK'
    <3>1. cluster \in [Object -> BootHost \cup {None}]
      BY <1>0 DEF TypeOK
    <3>2. QED
      BY <2>1, <3>1, RelistEvents DEF EventsOK, EventOf
  <2>4. ObjectsOK'
    BY <1>0, <2>1 DEF ObjectsOK
  <2>5. CASE Desync
    <3>1. UNCHANGED <<relisting, index, kube, synced, observed, writer>>
      BY <2>5 DEF Desync
    <3>2. QED
      BY <1>0, <1>1, <2>1, <2>2, <2>3, <2>4, <3>1 DEF TInv, TypeOK, WriterOK
  <2>6. CASE Restart
    <3>1. /\ relisting' = <<>> /\ synced' = FALSE /\ writer' = Asleep
          /\ index' = [m \in Mac |-> None] /\ kube' = [m \in Mac |-> None]
          /\ observed' = [m \in Mac |-> None]
      BY <2>6 DEF Restart
    <3>2. relisting' \in Seq(BootHost) /\ WriterOK'
      BY <3>1, EmptySeq, AsleepOK DEF WriterOK
    <3>3. /\ index' \in [Mac -> BootHost \cup {None}]
          /\ kube' \in [Mac -> Record \cup {None}]
          /\ observed' \in [Mac -> Phase \cup {None}]
      BY <3>1
    <3>4. QED
      BY <1>0, <1>1, <2>1, <2>2, <2>3, <2>4, <3>1, <3>2, <3>3
      DEF TInv, TypeOK, WriterOK
  <2>7. QED
    BY <1>5, <2>5, <2>6
<1>6. QED
  BY <1>2, <1>3, <1>4, <1>5 DEF Environment

LEMMA NextTInv == TInv /\ [Next]_vars => TInv'
<1>1. TInv /\ UNCHANGED vars => TInv'
  BY DEF vars, TInv, TypeOK, WriterOK, EventsOK, ObjectsOK
<1>2. QED
  BY <1>1, WatchTypes, WriteTypes, ApiTypes, EnvironmentTypes DEF Next

\* Every variable keeps its type, and a pass never writes more than its fill.
THEOREM Types == Spec => []TypeOK
<1>1. TInv => TypeOK
  BY DEF TInv
<1>2. QED
  BY <1>1, InitTInv, NextTInv, PTL DEF Spec

-----------------------------------------------------------------------------
(***************************************************************************)
(* Who has the last word.                                                  *)
(***************************************************************************)

\* A new list has it on every address, whatever was received before.
LEMMA RelistSettled ==
  ASSUME cluster \in [Object -> BootHost \cup {None}], ObjectsOK,
         NEW q, q = Relist
  PROVE  /\ Sorted(q)
         /\ \A l, y, r : \A m \in Mac : Settled(q, l, cluster, y, r, m)
<1>1. /\ Len(q) \in Nat /\ 1 \in 1..Len(q) /\ Len(q) \in 1..Len(q)
      /\ q[1] = EventOf("Init", None)
      /\ q[Len(q)] = EventOf("InitDone", None)
  <2> DEFINE n == Len(Listing)
  <2>1. /\ n \in Nat /\ Len(q) = n + 2
        /\ q[1] = EventOf("Init", None) /\ q[n + 2] = EventOf("InitDone", None)
    BY RelistIs
  <2> HIDE DEF n
  <2>2. QED
    BY <2>1
<1>2. ASSUME NEW i \in 1..Len(q)
      PROVE  \/ i = 1 /\ q[i].kind = "Init"
             \/ i = Len(q) /\ q[i].kind = "InitDone"
             \/ 1 < i /\ i < Len(q) /\ q[i].kind = "InitApply"
  BY RelistEvents DEF EventOf
<1>3. Sorted(q)
  <2> SUFFICES ASSUME NEW i \in 1..Len(q), NEW j \in 1..Len(q), i < j
               PROVE  Before(q[i].kind, q[j].kind)
    BY DEF Sorted
  <2>1. q[j].kind \in {"InitDone", "InitApply"}
    BY <1>1, <1>2
  <2>2. q[i].kind \in {"Init", "InitApply"}
    BY <1>1, <1>2
  <2>3. QED
    BY <2>1, <2>2 DEF Before
<1>4. \A m : LastWord(q, cluster, m)
  BY <1>2 DEF LastWord, Speaks
<1>5. Holds(q, "InitDone") /\ Holds(q, "Init")
  BY <1>1 DEF Holds, EventOf
<1>6. ASSUME NEW l, NEW m \in Mac PROVE ListAgrees(q, l, cluster, m)
  <2>1. ASSUME NEW h \in BootHost, Coming(q, l, h), h.mac = m
        PROVE  Agrees(cluster, to_record(h), m)
    <3>1. PICK i \in 1..Len(q) : q[i].kind = "InitApply" /\ q[i].object = h
      BY <1>5, <2>1 DEF Coming, Brings
    <3>2. \E o \in Object : cluster[o] # None /\ h = cluster[o]
      BY <3>1, RelistEvents DEF EventOf
    <3>3. PICK o \in Object : cluster[o] # None /\ h = cluster[o]
      BY <3>2
    <3>4. cluster[h.name] = h
      BY <3>3 DEF ObjectsOK
    <3>5. /\ to_record(h) # None /\ to_record(h).object = h.name
          /\ to_record(h).online = h.online
      <4>1. to_record(h) = [object |-> h.name, online |-> h.online]
        BY <2>1, KubeAssumption DEF to_record
      <4>2. to_record(h) \in Record
        BY <4>1 DEF Record, BootHost
      <4>3. QED
        BY <4>1, <4>2, KubeAssumption
    <3>6. QED
      BY <2>1, <3>3, <3>4, <3>5 DEF Agrees
  <2>2. ASSUME \A h \in BootHost : Coming(q, l, h) => h.mac # m
        PROVE  Agrees(cluster, None, m)
    <3> SUFFICES ASSUME NEW o \in Object, cluster[o] # None
                 PROVE  cluster[o].mac # m
      BY DEF Agrees
    <3>1. Brings(q, cluster[o])
      BY RelistBrings DEF Brings
    <3>2. QED
      BY <2>2, <3>1 DEF Coming
  <2>3. QED
    BY <2>1, <2>2 DEF ListAgrees
<1>7. QED
  BY <1>3, <1>4, <1>5, <1>6 DEF Settled

\* The queue t is q without its first event.
IsTail(t, q) ==
  /\ Len(q) \in Nat /\ 1 \in 1..Len(q)
  /\ Len(t) = Len(q) - 1
  /\ \A i \in 1..Len(t) : t[i] = q[i + 1]

LEMMA TailFacts ==
  ASSUME NEW q, NEW t, IsTail(t, q)
  PROVE  /\ Sorted(q) => Sorted(t)
         /\ Sorted(q) => \A kind : Holds(t, kind) => Before(q[1].kind, kind)
         /\ \A kind : Holds(q, kind) <=> q[1].kind = kind \/ Holds(t, kind)
         /\ \A m : Silent(q, m) <=> ~Speaks(q[1], m) /\ Silent(t, m)
         /\ \A h : Brings(q, h) <=>
                     (q[1].kind = "InitApply" /\ q[1].object = h) \/ Brings(t, h)
         /\ \A c, m : LastWord(q, c, m) => LastWord(t, c, m)
         /\ \A c, m : LastWord(q, c, m) /\ Speaks(q[1], m) /\ Silent(t, m) =>
                        Agrees(c, Word(q[1]), m)
<1>0. Len(q) \in Nat /\ 1 \in 1..Len(q) /\ Len(t) = Len(q) - 1
  BY DEF IsTail
<1>1. \A i \in 1..Len(t) : i + 1 \in 1..Len(q) /\ 1 < i + 1 /\ t[i] = q[i + 1]
  BY <1>0 DEF IsTail
<1>2. \A i \in 1..Len(q) : i = 1 \/ (i - 1 \in 1..Len(t) /\ q[i] = t[i - 1])
  <2>1. \A i \in 1..Len(q) : i = 1 \/ (i - 1 \in 1..Len(t) /\ (i - 1) + 1 = i)
    BY <1>0
  <2>2. QED
    BY <1>1, <2>1
<1>3. Sorted(q) => Sorted(t)
  <2> SUFFICES ASSUME Sorted(q), NEW i \in 1..Len(t), NEW j \in 1..Len(t), i < j
               PROVE  Before(t[i].kind, t[j].kind)
    BY DEF Sorted
  <2>1. i + 1 < j + 1
    BY <1>0
  <2>2. QED
    BY <1>1, <2>1 DEF Sorted
<1>4. Sorted(q) => \A kind : Holds(t, kind) => Before(q[1].kind, kind)
  BY <1>0, <1>1 DEF Sorted, Holds
<1>5. \A kind : Holds(q, kind) <=> q[1].kind = kind \/ Holds(t, kind)
  BY <1>0, <1>1, <1>2 DEF Holds
<1>6. \A m : Silent(q, m) <=> ~Speaks(q[1], m) /\ Silent(t, m)
  BY <1>0, <1>1, <1>2 DEF Silent
<1>7. \A h : Brings(q, h) <=>
               (q[1].kind = "InitApply" /\ q[1].object = h) \/ Brings(t, h)
  BY <1>0, <1>1, <1>2 DEF Brings
<1>8. ASSUME NEW c, NEW m, LastWord(q, c, m) PROVE LastWord(t, c, m)
  <2> SUFFICES ASSUME NEW i \in 1..Len(t), Speaks(t[i], m),
                      \A j \in 1..Len(t) : i < j => ~Speaks(t[j], m)
               PROVE  Agrees(c, Word(t[i]), m)
    BY DEF LastWord
  <2>1. ASSUME NEW j \in 1..Len(q), i + 1 < j PROVE ~Speaks(q[j], m)
    <3>1. j - 1 \in 1..Len(t) /\ i < j - 1 /\ q[j] = t[j - 1]
      BY <1>0, <1>2, <2>1
    <3>2. QED
      BY <3>1
  <2>2. i + 1 \in 1..Len(q) /\ t[i] = q[i + 1]
    BY <1>1
  <2>3. QED
    BY <1>8, <2>1, <2>2 DEF LastWord
<1>9. ASSUME NEW c, NEW m, LastWord(q, c, m), Speaks(q[1], m), Silent(t, m)
      PROVE  Agrees(c, Word(q[1]), m)
  <2>1. \A j \in 1..Len(q) : 1 < j => ~Speaks(q[j], m)
    BY <1>2, <1>9 DEF Silent
  <2>2. QED
    BY <1>0, <1>9, <2>1 DEF LastWord
<1>10. QED
  BY <1>3, <1>4, <1>5, <1>6, <1>7, <1>8, <1>9

\* The queue t is q with event e at its end.
IsLonger(t, q, e) ==
  /\ Len(q) \in Nat
  /\ Len(t) = Len(q) + 1
  /\ \A i \in 1..Len(q) : t[i] = q[i]
  /\ t[Len(q) + 1] = e

LEMMA LongerFacts ==
  ASSUME NEW q, NEW t, NEW e, IsLonger(t, q, e), e.kind \in {"Apply", "Delete"}
  PROVE  /\ /\ Sorted(q)
            /\ \A i \in 1..Len(q) : q[i].kind \in {"Init", "InitApply", "InitDone",
                                                   "Apply", "Delete"}
            => Sorted(t)
         /\ Holds(q, "InitDone") <=> Holds(t, "InitDone")
         /\ Holds(q, "Init") <=> Holds(t, "Init")
         /\ \A m : Silent(t, m) <=> Silent(q, m) /\ ~Speaks(e, m)
         /\ \A h : Brings(q, h) <=> Brings(t, h)
         /\ \A c, m : LastWord(q, c, m) /\ ~Speaks(e, m) => LastWord(t, c, m)
         /\ \A c, m : Speaks(e, m) /\ Agrees(c, Word(e), m) => LastWord(t, c, m)
<1> DEFINE n == Len(q)
<1>0. /\ n \in Nat /\ Len(t) = n + 1 /\ \A i \in 1..n : t[i] = q[i]
      /\ t[n + 1] = e
  BY DEF IsLonger
<1> HIDE DEF n
<1>1. \A i \in 1..n : i \in 1..Len(t) /\ t[i] = q[i] /\ i < n + 1
  BY <1>0
<1>2. \A i \in 1..Len(t) : i \in 1..n \/ i = n + 1
  BY <1>0
<1>3. n + 1 \in 1..Len(t)
  BY <1>0
<1>4. ASSUME Sorted(q),
             \A i \in 1..Len(q) : q[i].kind \in {"Init", "InitApply", "InitDone",
                                                 "Apply", "Delete"}
      PROVE  Sorted(t)
  <2> SUFFICES ASSUME NEW i \in 1..Len(t), NEW j \in 1..Len(t), i < j
               PROVE  Before(t[i].kind, t[j].kind)
    BY DEF Sorted
  <2>1. i \in 1..n
    BY <1>0
  <2>2. CASE j \in 1..n
    BY <1>1, <1>4, <2>1, <2>2 DEF Sorted, n
  <2>3. CASE j = n + 1
    <3>1. t[j].kind \in {"Apply", "Delete"}
      BY <1>0, <2>3
    <3>2. t[i].kind \in {"Init", "InitApply", "InitDone", "Apply", "Delete"}
      BY <1>1, <1>4, <2>1 DEF n
    <3>3. QED
      BY <3>1, <3>2 DEF Before
  <2>4. QED
    BY <1>2, <2>2, <2>3
<1>5. ASSUME NEW kind \in {"Init", "InitDone"}
      PROVE  Holds(q, kind) <=> Holds(t, kind)
  <2>1. e.kind # kind
    OBVIOUS
  <2>2. QED
    BY <1>0, <1>1, <1>2, <2>1 DEF Holds, n
<1>6. \A m : Silent(t, m) <=> Silent(q, m) /\ ~Speaks(e, m)
  BY <1>0, <1>1, <1>2, <1>3 DEF Silent, n
<1>7. \A h : Brings(q, h) <=> Brings(t, h)
  BY <1>0, <1>1, <1>2 DEF Brings, n
<1>8. ASSUME NEW c, NEW m, LastWord(q, c, m), ~Speaks(e, m)
      PROVE  LastWord(t, c, m)
  <2> SUFFICES ASSUME NEW i \in 1..Len(t), Speaks(t[i], m),
                      \A j \in 1..Len(t) : i < j => ~Speaks(t[j], m)
               PROVE  Agrees(c, Word(t[i]), m)
    BY DEF LastWord
  <2>1. i \in 1..n
    BY <1>0, <1>2, <1>8
  <2>2. t[i] = q[i] /\ \A j \in 1..n : i < j => ~Speaks(q[j], m)
    BY <1>1, <2>1
  <2>3. QED
    BY <1>8, <2>1, <2>2 DEF LastWord, n
<1>9. ASSUME NEW c, NEW m, Speaks(e, m), Agrees(c, Word(e), m)
      PROVE  LastWord(t, c, m)
  <2> SUFFICES ASSUME NEW i \in 1..Len(t), Speaks(t[i], m),
                      \A j \in 1..Len(t) : i < j => ~Speaks(t[j], m)
               PROVE  Agrees(c, Word(t[i]), m)
    BY DEF LastWord
  <2>1. i \notin 1..n
    BY <1>0, <1>1, <1>3, <1>9
  <2>2. t[i] = e
    BY <1>0, <1>2, <2>1
  <2>3. QED
    BY <1>9, <2>2
<1>10. QED
  BY <1>4, <1>5, <1>6, <1>7, <1>8, <1>9

\* A change of one object does not touch the addresses that are not its own.
LEMMA OtherAddress ==
  ASSUME ObjectsOK, NEW o \in Object, NEW c, NEW m \in Mac, m \notin MacsOf[o],
         \A p \in Object : p # o => c[p] = cluster[p],
         c[o] # None => c[o].mac \in MacsOf[o]
  PROVE  \A r \in Record \cup {None} : Agrees(cluster, r, m) => Agrees(c, r, m)
<1> SUFFICES ASSUME NEW r \in Record \cup {None}, Agrees(cluster, r, m)
             PROVE  Agrees(c, r, m)
  OBVIOUS
<1>1. CASE r = None
  BY <1>1 DEF Agrees, ObjectsOK
<1>2. CASE r # None
  <2>1. r.object \in Object /\ cluster[r.object] # None /\ cluster[r.object].mac = m
    BY <1>2 DEF Agrees, Record
  <2>2. r.object # o
    BY <2>1 DEF ObjectsOK
  <2>3. QED
    BY <1>2, <2>1, <2>2 DEF Agrees
<1>3. QED
  BY <1>1, <1>2

\* The record of an object that has an address.
LEMMA RecordIs ==
  ASSUME NEW h \in BootHost
  PROVE  /\ to_record(h) \in Record \cup {None}
         /\ h.mac \in Mac => /\ to_record(h) # None
                             /\ to_record(h).object = h.name
                             /\ to_record(h).online = h.online
         /\ to_record(h) # None => h.mac \in Mac
<1>1. h.mac = BadMac => to_record(h) = None
  BY DEF to_record
<1>2. h.mac # BadMac => to_record(h) = [object |-> h.name, online |-> h.online]
  BY DEF to_record
<1>3. [object |-> h.name, online |-> h.online] \in Record /\ h.mac \in Mac \cup {BadMac}
  BY DEF BootHost, Record
<1>4. QED
  BY <1>1, <1>2, <1>3, KubeAssumption

\* A change of an object and its event: the event has the last word on the
\* object's address, and nothing is said of the others.
LEMMA ChangeSettled ==
  ASSUME OneAddressEach, TInv, CInv, TInv', NEW o \in Object,
         NEW kind \in {"Apply", "Delete"}, NEW h \in BootHost, h.mac \in MacsOf[o],
         queue' = Append(queue, EventOf(kind, h)),
         \A p \in Object : p # o => cluster'[p] = cluster[p],
         kind = "Delete" => cluster'[o] = None,
         kind = "Apply" => cluster'[o] = h /\ h.name = o,
         UNCHANGED <<relisting, kube, synced>>
  PROVE  CInv'
<1> DEFINE e == EventOf(kind, h)
<1>0. e.kind = kind /\ e.object = h
  BY DEF EventOf
<1>1. IsLonger(queue', queue, e)
  BY Pushed DEF IsLonger
<1>2. \A i \in 1..Len(queue) : queue[i] \in Event
  BY ElementOfSeq DEF TInv, TypeOK
<1>3. \A i \in 1..Len(queue) :
        queue[i].kind \in {"Init", "InitApply", "InitDone", "Apply", "Delete"}
  BY <1>2 DEF Event
<1> HIDE DEF e
<1>4. Sorted(queue')
  BY <1>0, <1>1, <1>3, LongerFacts DEF CInv
<1>5. ASSUME NEW m \in Mac
      PROVE  Settled(queue', relisting', cluster', synced', kube'[m], m)
  <2>0. Settled(queue, relisting, cluster, synced, kube[m], m)
    BY DEF CInv
  <2>1. CASE m \in MacsOf[o]
    <3>1. h.mac = m
      BY <2>1 DEF OneAddressEach
    <3>2. Speaks(e, m)
      BY <1>0, <3>1 DEF Speaks
    <3>3. Agrees(cluster', Word(e), m)
      <4>1. CASE kind = "Delete"
        <5>1. Word(e) = None
          BY <1>0, <4>1 DEF Word
        <5>2. ASSUME NEW p \in Object, cluster'[p] # None PROVE cluster'[p].mac # m
          <6>1. p # o
            BY <4>1, <5>2
          <6>2. cluster'[p].mac \in MacsOf[p]
            BY <5>2 DEF TInv, ObjectsOK
          <6>3. m # BadMac
            BY KubeAssumption
          <6>4. QED
            BY <2>1, <6>1, <6>2, <6>3 DEF OneAddressEach
        <5>3. QED
          BY <5>1, <5>2 DEF Agrees
      <4>2. CASE kind = "Apply"
        <5>1. Word(e) = to_record(h)
          BY <1>0, <4>2 DEF Word
        <5>2. to_record(h) # None /\ to_record(h).object = o
              /\ to_record(h).online = h.online
          BY <3>1, <4>2, RecordIs
        <5>3. h # None
          BY KubeAssumption
        <5>4. QED
          BY <3>1, <4>2, <5>1, <5>2, <5>3 DEF Agrees
      <4>3. QED
        BY <4>1, <4>2
    <3>4. LastWord(queue', cluster', m) /\ ~Silent(queue', m)
      BY <1>0, <1>1, <3>2, <3>3, LongerFacts
    <3>5. QED
      BY <3>4 DEF Settled
  <2>2. CASE m \notin MacsOf[o]
    <3>1. ~Speaks(e, m)
      BY <1>0, <2>2 DEF Speaks
    <3>2. \A r \in Record \cup {None} : Agrees(cluster, r, m) => Agrees(cluster', r, m)
      <4>1. cluster'[o] # None => cluster'[o].mac \in MacsOf[o]
        OBVIOUS
      <4>2. ObjectsOK
        BY DEF TInv
      <4>3. QED
        BY <2>2, <4>1, <4>2, OtherAddress
    <3>3. LastWord(queue, cluster', m)
      <4> SUFFICES ASSUME NEW i \in 1..Len(queue), Speaks(queue[i], m),
                          \A j \in 1..Len(queue) : i < j => ~Speaks(queue[j], m)
                   PROVE  Agrees(cluster', Word(queue[i]), m)
        BY DEF LastWord
      <4>1. Agrees(cluster, Word(queue[i]), m)
        BY <2>0 DEF Settled, LastWord
      <4>2. queue[i].object \in BootHost
        BY DEF TInv, EventsOK, Speaks
      <4>3. Word(queue[i]) \in Record \cup {None}
        BY <4>2, RecordIs DEF Word
      <4>4. QED
        BY <3>2, <4>1, <4>3
    <3>4. LastWord(queue', cluster', m)
      BY <1>0, <1>1, <3>1, <3>3, LongerFacts
    <3>5. /\ Silent(queue', m) <=> Silent(queue, m)
          /\ Holds(queue', "InitDone") <=> Holds(queue, "InitDone")
          /\ Holds(queue', "Init") <=> Holds(queue, "Init")
          /\ \A x : Brings(queue, x) <=> Brings(queue', x)
      BY <1>0, <1>1, <3>1, LongerFacts
    <3>6. \A x : Coming(queue', relisting', x) <=> Coming(queue, relisting, x)
      BY <3>5 DEF Coming
    <3>7. ListAgrees(queue, relisting, cluster, m) =>
            ListAgrees(queue', relisting', cluster', m)
      <4>1. \A x \in BootHost : to_record(x) \in Record \cup {None}
        BY RecordIs
      <4>2. None \in Record \cup {None}
        OBVIOUS
      <4>3. QED
        BY <3>2, <3>6, <4>1, <4>2 DEF ListAgrees
    <3>8. kube[m] \in Record \cup {None}
      BY DEF TInv, TypeOK
    <3>9. Agrees(cluster, kube[m], m) => Agrees(cluster', kube'[m], m)
      BY <3>2, <3>8
    <3>10. QED
      BY <2>0, <3>4, <3>5, <3>7, <3>9 DEF Settled
  <2>3. QED
    BY <2>1, <2>2
<1>6. QED
  BY <1>4, <1>5 DEF CInv

\* The watch takes the next event.
LEMMA WatchTail ==
  ASSUME TInv, NEW kind, Received(kind), queue' = Tail(queue)
  PROVE  IsTail(queue', queue) /\ queue[1].kind = kind
BY Popped DEF IsTail

\* A list begins: what was received of another is dropped.
LEMMA BeginSettled ==
  ASSUME TInv, CInv, WatchInit
  PROVE  CInv'
<1>1. /\ IsTail(queue', queue) /\ queue[1].kind = "Init"
      /\ relisting' = <<>> /\ UNCHANGED <<cluster, kube, synced>>
  BY WatchTail DEF WatchInit
<1>2. Sorted(queue') /\ ~Holds(queue', "Init")
  BY <1>1, TailFacts DEF CInv, Before
<1>3. ASSUME NEW m \in Mac
      PROVE  Settled(queue', relisting', cluster', synced', kube'[m], m)
  <2>0. Settled(queue, relisting, cluster, synced, kube[m], m)
    BY DEF CInv
  <2>1. LastWord(queue', cluster, m)
    BY <1>1, <2>0, TailFacts DEF Settled
  <2>2. Silent(queue', m) <=> Silent(queue, m)
    <3>1. ~Speaks(queue[1], m)
      BY <1>1 DEF Speaks
    <3>2. QED
      BY <1>1, <3>1, TailFacts
  <2>3. /\ Holds(queue, "Init")
        /\ Holds(queue', "InitDone") <=> Holds(queue, "InitDone")
        /\ \A h : Brings(queue', h) <=> Brings(queue, h)
    BY <1>1, TailFacts
  <2>4. ~\E i \in 1..Len(<<>>) : TRUE
    OBVIOUS
  <2>5. \A h : Coming(queue', relisting', h) <=> Coming(queue, relisting, h)
    BY <1>1, <1>2, <2>3, <2>4 DEF Coming
  <2>6. ListAgrees(queue, relisting, cluster, m) =>
          ListAgrees(queue', relisting', cluster, m)
    BY <2>5 DEF ListAgrees
  <2>7. QED
    BY <1>1, <2>0, <2>1, <2>2, <2>3, <2>6 DEF Settled
<1>4. QED
  BY <1>2, <1>3 DEF CInv

\* An object of the list is received.
LEMMA ReceiveSettled ==
  ASSUME TInv, CInv, WatchInitApply
  PROVE  CInv'
<1> DEFINE h1 == queue[1].object
<1>1. /\ IsTail(queue', queue) /\ queue[1].kind = "InitApply"
      /\ relisting' = Append(relisting, h1) /\ h1 \in BootHost
      /\ UNCHANGED <<cluster, kube, synced>>
  BY WatchTail, Popped DEF WatchInitApply
<1>2. Sorted(queue') /\ ~Holds(queue', "Init") /\ ~Holds(queue, "Init")
  <2>1. Sorted(queue') /\ ~Holds(queue', "Init")
    BY <1>1, TailFacts DEF CInv, Before
  <2>2. QED
    BY <1>1, <2>1, TailFacts
<1> HIDE DEF h1
<1>3. \A h : (\E i \in 1..Len(relisting') : relisting'[i] = h) <=>
               h = h1 \/ \E i \in 1..Len(relisting) : relisting[i] = h
  <2>1. relisting \in Seq(BootHost)
    BY DEF TInv, TypeOK
  <2>2. /\ Len(relisting) \in Nat /\ Len(relisting') = Len(relisting) + 1
        /\ \A i \in 1..Len(relisting) : relisting'[i] = relisting[i]
        /\ relisting'[Len(relisting) + 1] = h1
    BY <1>1, <2>1, AppendProperties, LenProperties
  <2>3. \A i \in 1..Len(relisting') :
          i \in 1..Len(relisting) \/ i = Len(relisting) + 1
    BY <2>2
  <2>4. \A i \in 1..Len(relisting) : i \in 1..Len(relisting')
    BY <2>2
  <2>5. Len(relisting) + 1 \in 1..Len(relisting')
    BY <2>2
  <2>6. QED
    BY <2>2, <2>3, <2>4, <2>5
<1>4. ASSUME NEW m \in Mac
      PROVE  Settled(queue', relisting', cluster', synced', kube'[m], m)
  <2>0. Settled(queue, relisting, cluster, synced, kube[m], m)
    BY DEF CInv
  <2>1. LastWord(queue', cluster, m)
    BY <1>1, <2>0, TailFacts DEF Settled
  <2>2. Silent(queue', m) <=> Silent(queue, m)
    <3>1. ~Speaks(queue[1], m)
      BY <1>1 DEF Speaks
    <3>2. QED
      BY <1>1, <3>1, TailFacts
  <2>3. /\ Holds(queue', "InitDone") <=> Holds(queue, "InitDone")
        /\ \A h : Brings(queue, h) <=> h = h1 \/ Brings(queue', h)
    BY <1>1, TailFacts DEF h1
  <2>4. \A h : Coming(queue', relisting', h) <=> Coming(queue, relisting, h)
    BY <1>2, <1>3, <2>3 DEF Coming
  <2>5. ListAgrees(queue, relisting, cluster, m) =>
          ListAgrees(queue', relisting', cluster, m)
    BY <2>4 DEF ListAgrees
  <2>6. QED
    BY <1>1, <2>0, <2>1, <2>2, <2>3, <2>5 DEF Settled
<1>5. QED
  BY <1>2, <1>4 DEF CInv

\* The list is complete: the layer has the word it had.
LEMMA ResetSettled ==
  ASSUME TInv, CInv, reset
  PROVE  CInv'
<1>1. /\ IsTail(queue', queue) /\ queue[1].kind = "InitDone"
      /\ cluster' = cluster
      /\ kube' = [m \in Mac |-> IF Listed(m) = None THEN None
                                ELSE to_record(Listed(m))]
  BY WatchTail DEF reset
<1>2. /\ Sorted(queue') /\ ~Holds(queue', "InitDone")
      /\ ~Holds(queue', "Init") /\ ~Holds(queue', "InitApply")
  BY <1>1, TailFacts DEF CInv, Before
<1>3. Holds(queue, "InitDone") /\ ~Holds(queue, "Init") /\ ~Holds(queue, "InitApply")
  BY <1>1, <1>2, TailFacts
<1>4. \A h : Coming(queue, relisting, h) <=>
               \E i \in 1..Len(relisting) : relisting[i] = h
  BY <1>3 DEF Coming, Brings, Holds
<1>5. ASSUME NEW m \in Mac
      PROVE  Settled(queue', relisting', cluster', synced', kube'[m], m)
  <2>0. Settled(queue, relisting, cluster, synced, kube[m], m)
    BY DEF CInv
  <2>1. LastWord(queue', cluster, m)
    BY <1>1, <2>0, TailFacts DEF Settled
  <2>2. Silent(queue', m) <=> Silent(queue, m)
    <3>1. ~Speaks(queue[1], m)
      BY <1>1 DEF Speaks
    <3>2. QED
      BY <1>1, <3>1, TailFacts
  <2>3. ListAgrees(queue, relisting, cluster, m) => Agrees(cluster, kube'[m], m)
    <3> SUFFICES ASSUME ListAgrees(queue, relisting, cluster, m)
                 PROVE  Agrees(cluster, kube'[m], m)
      OBVIOUS
    <3>1. relisting \in Seq(BootHost)
      BY DEF TInv, TypeOK
    <3>2. CASE /\ Listed(m) = None
               /\ \A i \in 1..Len(relisting) : relisting[i].mac # m
      <4>1. kube'[m] = None
        BY <1>1, <3>2
      <4>2. \A h \in BootHost : Coming(queue, relisting, h) => h.mac # m
        BY <1>4, <3>2
      <4>3. QED
        BY <4>1, <4>2 DEF ListAgrees
    <3>3. CASE \E i \in 1..Len(relisting) :
                 /\ Listed(m) = relisting[i] /\ relisting[i].mac = m
                 /\ relisting[i] \in BootHost
      <4>1. PICK i \in 1..Len(relisting) :
              /\ Listed(m) = relisting[i] /\ relisting[i].mac = m
              /\ relisting[i] \in BootHost
        BY <3>3
      <4>2. relisting[i] # None
        BY <4>1, KubeAssumption
      <4>3. kube'[m] = to_record(relisting[i])
        BY <1>1, <4>1, <4>2
      <4>4. Coming(queue, relisting, relisting[i])
        BY <1>4
      <4>5. QED
        BY <4>1, <4>3, <4>4 DEF ListAgrees
    <3>4. QED
      BY <3>1, <3>2, <3>3, LastWithIs DEF Listed
  <2>4. QED
    BY <1>1, <1>2, <1>3, <2>0, <2>1, <2>2, <2>3 DEF Settled
<1>6. QED
  BY <1>2, <1>5 DEF CInv

\* A change is applied: the layer has the word that the event had.
LEMMA ApplySettled ==
  ASSUME TInv, CInv, apply \/ delete
  PROVE  CInv'
<1> DEFINE e == queue[1]
           h == e.object
<1>1. /\ IsTail(queue', queue) /\ e.kind \in {"Apply", "Delete"}
      /\ h \in BootHost
      /\ UNCHANGED <<cluster, relisting, synced>>
  BY WatchTail, Popped DEF apply, delete
<1>2. IF to_record(h) = None THEN kube' = kube
      ELSE kube' = [kube EXCEPT ![h.mac] = Word(e)]
  <2>1. CASE apply
    <3>1. e.kind = "Apply" /\ Head(queue) = e
      BY <2>1, Popped DEF apply
    <3>2. QED
      BY <2>1, <3>1 DEF apply, Word
  <2>2. CASE delete
    <3>1. e.kind = "Delete" /\ Head(queue) = e
      BY <2>2, Popped DEF delete
    <3>2. QED
      BY <2>2, <3>1 DEF delete, Word
  <2>3. QED
    BY <2>1, <2>2
<1>3. kube \in [Mac -> Record \cup {None}]
  BY DEF TInv, TypeOK
<1> HIDE DEF e, h
<1>4. /\ Sorted(queue') /\ ~Holds(queue', "InitDone")
  BY <1>1, TailFacts DEF CInv, Before, e
<1>5. ~Holds(queue, "InitDone")
  BY <1>1, <1>4, TailFacts DEF e
<1>6. ASSUME NEW m \in Mac
      PROVE  Settled(queue', relisting', cluster', synced', kube'[m], m)
  <2>0. Settled(queue, relisting, cluster, synced, kube[m], m)
    BY DEF CInv
  <2>1. LastWord(queue', cluster, m)
    BY <1>1, <2>0, TailFacts DEF Settled
  <2>2. CASE h.mac = m
    <3>1. Speaks(e, m)
      BY <1>1, <2>2 DEF Speaks, h
    <3>2. Silent(queue', m) => Agrees(cluster, Word(e), m)
      BY <1>1, <2>0, <3>1, TailFacts DEF Settled, e
    <3>3. kube'[m] = Word(e)
      <4>1. to_record(h) # None
        BY <1>1, <2>2, RecordIs
      <4>2. QED
        BY <1>2, <1>3, <2>2, <4>1
    <3>4. QED
      BY <1>1, <1>4, <2>1, <3>2, <3>3 DEF Settled
  <2>3. CASE h.mac # m
    <3>1. ~Speaks(e, m)
      BY <2>3 DEF Speaks, h
    <3>2. Silent(queue', m) <=> Silent(queue, m)
      BY <1>1, <3>1, TailFacts DEF e
    <3>3. kube'[m] = kube[m]
      BY <1>2, <1>3, <2>3
    <3>4. QED
      BY <1>1, <1>4, <1>5, <2>0, <2>1, <3>2, <3>3 DEF Settled
  <2>4. QED
    BY <2>2, <2>3
<1>7. QED
  BY <1>4, <1>6 DEF CInv

LEMMA InitCInv == Init => CInv
<1> SUFFICES ASSUME Init PROVE CInv
  OBVIOUS
<1>1. TInv
  BY InitTInv
<1>2. cluster \in [Object -> BootHost \cup {None}] /\ ObjectsOK /\ queue = Relist
  BY <1>1 DEF TInv, TypeOK, Init
<1>3. QED
  BY <1>2, RelistSettled DEF CInv

LEMMA NextCInv ==
  ASSUME OneAddressEach
  PROVE  TInv /\ CInv /\ [Next]_vars => CInv'
<1> SUFFICES ASSUME TInv, CInv, [Next]_vars PROVE CInv'
  OBVIOUS
<1>0. TInv'
  BY NextTInv
<1>1. CASE UNCHANGED <<cluster, queue, relisting, kube, synced>>
  BY <1>1 DEF CInv
<1>2. CASE Watch
  BY <1>2, BeginSettled, ReceiveSettled, ResetSettled, ApplySettled DEF Watch
<1>3. ASSUME NEW o \in Object, PutObject(o) PROVE CInv'
  <2>1. PICK mac \in MacsOf[o], online \in BOOLEAN :
          LET new == [name |-> o, mac |-> mac, online |-> online,
                      status |-> IF cluster[o] = None THEN NoStatus
                                 ELSE cluster[o].status]
          IN  /\ cluster' = [cluster EXCEPT ![o] = new]
              /\ queue' = Append(queue, EventOf("Apply", new))
    BY <1>3 DEF PutObject
  <2> DEFINE new == [name |-> o, mac |-> mac, online |-> online,
                     status |-> IF cluster[o] = None THEN NoStatus
                                ELSE cluster[o].status]
  <2>2. /\ cluster' = [cluster EXCEPT ![o] = new]
        /\ queue' = Append(queue, EventOf("Apply", new))
        /\ new.mac \in MacsOf[o] /\ new.name = o
    BY <2>1
  <2>3. UNCHANGED <<relisting, kube, synced>>
    BY <1>3 DEF PutObject
  <2> HIDE DEF new
  <2>4. cluster'[o] = new /\ \A p \in Object : p # o => cluster'[p] = cluster[p]
    BY <2>2 DEF TInv, TypeOK
  <2>5. new \in BootHost
    BY PutType DEF new
  <2>6. QED
    BY <1>0, <2>2, <2>3, <2>4, <2>5, ChangeSettled
<1>4. ASSUME NEW o \in Object, DeleteObject(o) PROVE CInv'
  <2>1. /\ cluster[o] \in BootHost /\ cluster[o].mac \in MacsOf[o]
        /\ cluster' = [cluster EXCEPT ![o] = None]
        /\ queue' = Append(queue, EventOf("Delete", cluster[o]))
        /\ UNCHANGED <<relisting, kube, synced>>
    BY <1>4 DEF DeleteObject, TInv, TypeOK, ObjectsOK
  <2>2. cluster'[o] = None /\ \A p \in Object : p # o => cluster'[p] = cluster[p]
    BY <2>1 DEF TInv, TypeOK
  <2>3. QED
    BY <1>0, <2>1, <2>2, ChangeSettled
<1>5. CASE Desync \/ Restart
  <2>1. queue' = Relist /\ cluster' = cluster
    BY <1>5 DEF Desync, Restart
  <2>2. cluster \in [Object -> BootHost \cup {None}] /\ ObjectsOK
    BY DEF TInv, TypeOK
  <2>3. QED
    BY <2>1, <2>2, RelistSettled DEF CInv
<1>6. CASE PatchApplied /\ ~UNCHANGED <<cluster, queue>>
  <2> DEFINE o == writer.patch.name
             new == [cluster[o] EXCEPT !.status = Merged(@, writer.patch.desired)]
  <2>0. o \in Object /\ writer.patch.desired \in Status
    BY <1>6 DEF PatchApplied, Unanswered, TInv, WriterOK, PatchInFlight
  <2>1. /\ cluster[o] # None
        /\ cluster' = [cluster EXCEPT ![o] = new]
        /\ queue' = Append(queue, EventOf("Apply", new))
        /\ UNCHANGED <<relisting, kube, synced>>
    BY <1>6 DEF PatchApplied
  <2>2. new \in BootHost /\ new.name = o /\ new.mac \in MacsOf[o]
    BY <2>0, <2>1, PatchedType
  <2> HIDE DEF new, o
  <2>3. cluster'[o] = new /\ \A p \in Object : p # o => cluster'[p] = cluster[p]
    BY <2>0, <2>1 DEF TInv, TypeOK
  <2>4. QED
    BY <1>0, <2>0, <2>1, <2>2, <2>3, ChangeSettled
<1>7. CASE Write \/ PatchRefused \/ (PatchApplied /\ UNCHANGED <<cluster, queue>>)
           \/ (\E m \in Mac : Report(m)) \/ UNCHANGED vars
  <2>1. UNCHANGED <<cluster, queue, relisting, kube, synced>>
    BY <1>7 DEF Write, PassBegins, PassEnds, Skip, SendPatch, PatchNoted,
                PatchFailed, PatchRefused, PatchApplied, Report, vars
  <2>2. QED
    BY <1>1, <2>1
<1>8. QED
  BY <1>2, <1>3, <1>4, <1>5, <1>6, <1>7 DEF Next, ApiServer, Environment

\* When each object keeps an address of its own, a layer with nothing left to
\* apply is the cluster's, after any number of edits, deletions, patches, lost
\* watches and restarts.
THEOREM Current ==
  ASSUME OneAddressEach
  PROVE  Spec => []LayerIsCurrent
<1>1. TInv /\ CInv => LayerIsCurrent
  <2> SUFFICES ASSUME TInv, CInv, synced, queue = <<>>, NEW m \in Mac
               PROVE  Agrees(cluster, kube[m], m)
    BY DEF LayerIsCurrent, Agrees
  <2>1. Len(queue) = 0
    OBVIOUS
  <2>2. Silent(queue, m) /\ ~Holds(queue, "InitDone")
    BY <2>1 DEF Silent, Holds
  <2>3. QED
    BY <2>2 DEF CInv, Settled
<1>2. TInv /\ CInv /\ [Next]_vars => CInv'
  BY NextCInv
<1>3. QED
  BY <1>1, <1>2, InitTInv, NextTInv, InitCInv, PTL DEF Spec
========================================
