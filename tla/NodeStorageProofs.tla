------------------------- MODULE NodeStorageProofs -------------------------
(***************************************************************************)
(* Proofs about NodeStorage, for every set of configurations, records,     *)
(* claims, boot media and devices, and any number of boots.                *)
(***************************************************************************)
EXTENDS NodeStorage, FiniteSetTheorems, WellFoundedInduction, TLAPS

-----------------------------------------------------------------------------
(***************************************************************************)
(* Sequences.                                                              *)
(***************************************************************************)

LEMMA LeastNumber ==
  ASSUME NEW T \in SUBSET Nat, T # {}
  PROVE  \E n \in T : \A k \in T : n <= k
<1> DEFINE R == OpToRel(<, Nat)
<1>1. IsWellFoundedOn(R, Nat)
  BY NatLessThanWellFounded
<1>2. T \subseteq Nat
  OBVIOUS
<1>3. PICK n \in T : \A k \in T : ~(<<k, n>> \in R)
  <2> HIDE DEF R
  <2> QED
    BY <1>1, <1>2, WFMin
<1>4. \A k \in T : ~(k < n)
  BY <1>2, <1>3 DEF OpToRel
<1>5. QED
  BY <1>2, <1>4

\* The last of some positions.
LEMMA MaxIs ==
  ASSUME NEW n \in Nat, NEW at \in SUBSET (1..n), at # {}
  PROVE  Max(at) \in at /\ \A j \in at : j <= Max(at)
<1> DEFINE T == {n - i : i \in at}
<1>1. T \in SUBSET Nat /\ T # {}
  <2>1. \A i \in at : n - i \in Nat
    OBVIOUS
  <2> QED
    BY <2>1
<1>2. PICK k \in T : \A l \in T : k <= l
  <2> HIDE DEF T
  <2> QED
    BY <1>1, LeastNumber
<1>3. PICK i \in at : k = n - i
  OBVIOUS
<1>4. \A j \in at : n - i <= n - j
  BY <1>2, <1>3
<1>5. \A j \in at : i >= j
  BY <1>4
<1>6. Max(at) \in at /\ \A j \in at : Max(at) >= j
  BY <1>5 DEF Max
<1>7. QED
  BY <1>6

LEMMA SeqIs ==
  ASSUME NEW s, IsSeq(s)
  PROVE  /\ Len(s) \in Nat /\ DOMAIN s = 1..Len(s)
         /\ ToSet(s) = {s[i] : i \in 1..Len(s)}
         /\ s = [i \in 1..Len(s) |-> s[i]]
<1>1. s \in Seq(ToSet(s))
  BY DEF IsSeq
<1>2. Len(s) \in Nat /\ DOMAIN s = 1..Len(s)
  BY <1>1
<1> QED
  BY <1>1, <1>2 DEF ToSet

LEMMA FunctionIsSeq ==
  ASSUME NEW n \in Nat, NEW s, s = [i \in 1..n |-> s[i]]
  PROVE  IsSeq(s) /\ Len(s) = n
<1>1. s \in Seq({s[i] : i \in DOMAIN s})
  OBVIOUS
<1>2. DOMAIN s = 1..n
  OBVIOUS
<1> QED
  BY <1>1, <1>2 DEF IsSeq, ToSet

\* One sequence after another.
LEMMA ConcatIs ==
  ASSUME NEW a, NEW b, IsSeq(a), IsSeq(b)
  PROVE  /\ IsSeq(a \o b)
         /\ Len(a \o b) = Len(a) + Len(b)
         /\ \A i \in 1..Len(a) : (a \o b)[i] = a[i]
         /\ \A i \in 1..Len(b) : (a \o b)[Len(a) + i] = b[i]
         /\ \A i \in 1..(Len(a) + Len(b)) :
              (a \o b)[i] = IF i <= Len(a) THEN a[i] ELSE b[i - Len(a)]
<1> DEFINE S == ToSet(a) \cup ToSet(b)
           c == a \o b
<1>1. /\ Len(a) \in Nat /\ DOMAIN a = 1..Len(a)
      /\ Len(b) \in Nat /\ DOMAIN b = 1..Len(b)
  BY SeqIs
<1>2. a \in Seq(S) /\ b \in Seq(S)
  <2>1. a \in Seq(ToSet(a)) /\ b \in Seq(ToSet(b))
    BY DEF IsSeq
  <2>2. ToSet(a) \subseteq S /\ ToSet(b) \subseteq S
    OBVIOUS
  <2> HIDE DEF S
  <2> QED
    BY <2>1, <2>2
<1>3. /\ c \in Seq(S) /\ Len(c) = Len(a) + Len(b)
      /\ \A i \in 1..(Len(a) + Len(b)) :
           c[i] = IF i <= Len(a) THEN a[i] ELSE b[i - Len(a)]
  <2> HIDE DEF S
  <2> QED
    BY <1>2
<1> HIDE DEF c, S
<1>4. /\ \A i \in 1..Len(a) : c[i] = a[i]
      /\ \A i \in 1..Len(b) : c[Len(a) + i] = b[i]
  BY <1>1, <1>3
<1>5. IsSeq(c)
  <2>1. c = [i \in 1..(Len(a) + Len(b)) |-> c[i]]
    BY <1>1, <1>3
  <2>2. Len(a) + Len(b) \in Nat
    BY <1>1
  <2> QED
    BY <2>1, <2>2, FunctionIsSeq
<1> QED
  BY <1>3, <1>4, <1>5 DEF c

LEMMA ConcatSet ==
  ASSUME NEW a, NEW b, IsSeq(a), IsSeq(b)
  PROVE  ToSet(a \o b) = ToSet(a) \cup ToSet(b)
<1> DEFINE c == a \o b
<1>1. /\ Len(a) \in Nat /\ Len(b) \in Nat /\ Len(c) = Len(a) + Len(b)
      /\ ToSet(a) = {a[i] : i \in 1..Len(a)}
      /\ ToSet(b) = {b[i] : i \in 1..Len(b)}
      /\ ToSet(c) = {c[i] : i \in 1..Len(c)}
  BY SeqIs, ConcatIs
<1>2. /\ \A i \in 1..Len(a) : c[i] = a[i]
      /\ \A i \in 1..Len(b) : c[Len(a) + i] = b[i]
      /\ \A i \in 1..(Len(a) + Len(b)) :
              c[i] = IF i <= Len(a) THEN a[i] ELSE b[i - Len(a)]
  BY ConcatIs
<1> HIDE DEF c
<1>3. \A i \in 1..Len(a) : i \in 1..Len(c)
  BY <1>1
<1>4. \A i \in 1..Len(b) : Len(a) + i \in 1..Len(c)
  BY <1>1
<1>5. \A i \in 1..Len(c) : i \in 1..Len(a) \/ i - Len(a) \in 1..Len(b)
  BY <1>1
<1>6. ToSet(a) \subseteq ToSet(c)
  BY <1>1, <1>2, <1>3
<1>7. ToSet(b) \subseteq ToSet(c)
  BY <1>1, <1>2, <1>4
<1>8. ToSet(c) \subseteq ToSet(a) \cup ToSet(b)
  BY <1>1, <1>2, <1>5
<1>9. QED
  BY <1>6, <1>7, <1>8 DEF c

LEMMA OneIs ==
  ASSUME NEW x
  PROVE  IsSeq(<<x>>) /\ Len(<<x>>) = 1 /\ <<x>>[1] = x /\ ToSet(<<x>>) = {x}
<1>1. <<x>> \in Seq({x}) /\ Len(<<x>>) = 1 /\ <<x>>[1] = x /\ DOMAIN <<x>> = 1..1
  OBVIOUS
<1>2. ToSet(<<x>>) = {x}
  BY <1>1 DEF ToSet
<1> QED
  BY <1>1, <1>2 DEF IsSeq

LEMMA NoneIs ==
  /\ IsSeq(<<>>) /\ Len(<<>>) = 0 /\ ToSet(<<>>) = {}
  /\ \A s : IsSeq(s) /\ (ToSet(s) = {} \/ Len(s) = 0) => s = <<>>
<1>1. IsSeq(<<>>) /\ Len(<<>>) = 0 /\ ToSet(<<>>) = {}
  BY DEF IsSeq, ToSet
<1>2. ASSUME NEW s, IsSeq(s), ToSet(s) = {} \/ Len(s) = 0 PROVE s = <<>>
  <2>1. Len(s) \in Nat /\ ToSet(s) = {s[i] : i \in 1..Len(s)} /\ s \in Seq(ToSet(s))
    BY <1>2, SeqIs DEF IsSeq
  <2>2. ASSUME Len(s) # 0 PROVE FALSE
    <3>1. 1 \in 1..Len(s)
      BY <2>1, <2>2
    <3> QED
      BY <1>2, <2>1, <2>2, <3>1
  <2> QED
    BY <2>1, <2>2
<1> QED
  BY <1>1, <1>2

\* The recursion of Joined over the first n lists.
JoinUp(f, lists, at, n) ==
  f = [i \in 0..n |-> IF i = 0 THEN <<>>
                      ELSE IF i \in at THEN f[i - 1] \o lists[i] ELSE f[i - 1]]

\* There is a function that satisfies it, for any length.
LEMMA JoinUpExists ==
  ASSUME NEW lists, NEW at, NEW len \in Nat
  PROVE  \E f : JoinUp(f, lists, at, len)
<1> DEFINE Bad == {n \in Nat : ~\E f : JoinUp(f, lists, at, n)}
<1> SUFFICES ASSUME Bad # {} PROVE FALSE
  OBVIOUS
<1>1. PICK n \in Bad : \A k \in Bad : n <= k
  <2>1. Bad \in SUBSET Nat
    OBVIOUS
  <2> HIDE DEF Bad
  <2> QED
    BY <2>1, LeastNumber
<1>2. n # 0
  <2> DEFINE f == [i \in 0..0 |-> <<>>]
  <2>1. JoinUp(f, lists, at, 0)
    BY DEF JoinUp
  <2> HIDE DEF f
  <2> QED
    BY <2>1
<1>3. n \in Nat /\ n - 1 \in Nat /\ n - 1 \notin Bad
  BY <1>1, <1>2
<1>4. PICK f : JoinUp(f, lists, at, n - 1)
  BY <1>3
<1> DEFINE Rule(h, i) == IF i = 0 THEN <<>>
                         ELSE IF i \in at THEN h[i - 1] \o lists[i] ELSE h[i - 1]
           g == [i \in 0..n |-> IF i = n THEN Rule(f, n) ELSE f[i]]
<1>5. JoinUp(g, lists, at, n)
  <2>1. \A i \in 0..(n - 1) : g[i] = f[i]
    BY <1>3
  <2>2. \A i \in 0..(n - 1) : f[i] = Rule(f, i)
    BY <1>3, <1>4 DEF JoinUp
  <2>3. \A i \in 0..n : i # 0 => i - 1 \in 0..(n - 1)
    BY <1>3
  <2>4. g[n] = Rule(g, n)
    BY <1>2, <1>3, <2>1, <2>3
  <2>5. \A i \in 0..n : i # n => i \in 0..(n - 1)
    BY <1>3
  <2>6. \A i \in 0..n : g[i] = Rule(g, i)
    BY <1>3, <2>1, <2>2, <2>3, <2>4, <2>5
  <2>7. g = [i \in 0..n |-> g[i]]
    BY <1>3
  <2> HIDE DEF g
  <2> QED
    BY <2>6, <2>7 DEF JoinUp
<1> HIDE DEF g
<1>6. QED
  BY <1>1, <1>5

\* s is made of the first n lists.
Joins(s, lists, at, n) ==
  /\ IsSeq(s)
  /\ \A x : x \in ToSet(s) <=> \E i \in at \cap (1..n) : x \in ToSet(lists[i])

\* What has been joined holds the elements of the lists joined, and no others.
LEMMA JoinedIs ==
  ASSUME NEW lists, NEW at, Len(lists) \in Nat,
         \A i \in at \cap (1..Len(lists)) : IsSeq(lists[i])
  PROVE  Joins(Joined(lists, at), lists, at, Len(lists))
<1> DEFINE len == Len(lists)
           up == CHOOSE f : JoinUp(f, lists, at, len)
<1>0. len \in Nat
  OBVIOUS
<1>1. JoinUp(up, lists, at, len)
  <2>1. \E f : JoinUp(f, lists, at, len)
    BY <1>0, JoinUpExists
  <2>2. JoinUp(CHOOSE f : JoinUp(f, lists, at, len), lists, at, len)
    BY <2>1
  <2> QED
    BY <2>2
<1>2. Joined(lists, at) = up[len]
  BY DEF Joined, JoinUp
<1> HIDE DEF up, len
<1>3. \A i \in 0..len :
        up[i] = IF i = 0 THEN <<>>
                ELSE IF i \in at THEN up[i - 1] \o lists[i] ELSE up[i - 1]
  BY <1>0, <1>1 DEF JoinUp
<1> DEFINE Bad == {n \in 0..len : ~Joins(up[n], lists, at, n)}
<1>4. ASSUME Bad # {} PROVE FALSE
  <2>1. PICK n \in Bad : \A k \in Bad : n <= k
    <3>1. Bad \in SUBSET Nat
      BY <1>0
    <3> HIDE DEF Bad
    <3> QED
      BY <1>4, <3>1, LeastNumber
  <2>2. n # 0
    <3>1. 0 \in 0..len
      BY <1>0
    <3>2. up[0] = <<>>
      BY <1>3, <3>1, Zenon
    <3>3. at \cap (1..0) = {}
      OBVIOUS
    <3>4. Joins(<<>>, lists, at, 0)
      <4>1. \A x : x \notin ToSet(<<>>) /\ IsSeq(<<>>)
        BY NoneIs
      <4>2. \A i : i \notin at \cap (1..0)
        BY <3>3
      <4> QED
        BY <4>1, <4>2, Zenon DEF Joins
    <3>5. QED
      BY <2>1, <3>2, <3>4
  <2>3. n \in 1..len /\ n - 1 \in 0..len /\ n - 1 \notin Bad /\ n \in 0..len
    BY <1>0, <2>1, <2>2
  <2>4. Joins(up[n - 1], lists, at, n - 1)
    BY <2>3
  <2>5. at \cap (1..n) = (at \cap (1..(n - 1))) \cup (at \cap {n})
    <3>1. 1..n = (1..(n - 1)) \cup {n}
      BY <1>0, <2>3
    <3> QED
      BY <3>1
  <2>6. CASE n \notin at
    <3>1. up[n] = up[n - 1]
      BY <1>3, <2>2, <2>3, <2>6
    <3>2. Joins(up[n - 1], lists, at, n)
      BY <2>4, <2>5, <2>6 DEF Joins
    <3>3. QED
      BY <2>1, <3>1, <3>2
  <2>7. CASE n \in at
    <3>1. up[n] = up[n - 1] \o lists[n]
      BY <1>3, <2>2, <2>3, <2>7
    <3>2. IsSeq(lists[n]) /\ IsSeq(up[n - 1])
      BY <2>3, <2>4, <2>7 DEF Joins, len
    <3>3. IsSeq(up[n]) /\ ToSet(up[n]) = ToSet(up[n - 1]) \cup ToSet(lists[n])
      BY <3>1, <3>2, ConcatIs, ConcatSet
    <3>4. Joins(up[n], lists, at, n)
      BY <2>4, <2>5, <2>7, <3>3 DEF Joins
    <3>5. QED
      BY <2>1, <3>4
  <2>8. QED
    BY <2>6, <2>7
<1>5. len \in 0..len
  BY <1>0
<1>6. QED
  BY <1>2, <1>4, <1>5 DEF len

\* A filter keeps what it picks, and nothing else.
LEMMA PickedIs ==
  ASSUME NEW s, IsSeq(s), NEW at
  PROVE  /\ IsSeq(Picked(s, at))
         /\ \A x : x \in ToSet(Picked(s, at)) <=>
                     \E i \in at \cap (1..Len(s)) : x = s[i]
<1> DEFINE lists == [i \in 1..Len(s) |-> <<s[i]>>]
<1>1. Len(s) \in Nat
  BY SeqIs
<1>2. lists = [i \in 1..Len(s) |-> lists[i]] /\ \A i \in 1..Len(s) : lists[i] = <<s[i]>>
  OBVIOUS
<1>3. Picked(s, at) = Joined(lists, at)
  BY DEF Picked
<1> HIDE DEF lists
<1>4. Len(lists) = Len(s)
  BY <1>1, <1>2, FunctionIsSeq
<1>5. \A i \in 1..Len(s) : IsSeq(lists[i]) /\ ToSet(lists[i]) = {s[i]}
  BY <1>2, OneIs
<1>6. Joins(Joined(lists, at), lists, at, Len(lists))
  BY <1>1, <1>4, <1>5, JoinedIs
<1>7. \A i \in at \cap (1..Len(s)) : \A x : x \in ToSet(lists[i]) <=> x = s[i]
  BY <1>5
<1>8. QED
  BY <1>3, <1>4, <1>6, <1>7 DEF Joins

-----------------------------------------------------------------------------
(***************************************************************************)
(* Lines.                                                                  *)
(***************************************************************************)

\* A token that says something about the key.
Tells(t, key) == t.key = key /\ t.value # Empty

\* ln[i] is the last that does.
LastTells(ln, i, key) ==
  /\ i \in 1..Len(ln) /\ Tells(ln[i], key)
  /\ \A j \in 1..Len(ln) : Tells(ln[j], key) => j <= i

LEMMA ValueIs ==
  ASSUME NEW ln, NEW key, IsSeq(ln)
  PROVE  /\ (\A i \in 1..Len(ln) : ~Tells(ln[i], key)) => Value(ln, key) = None
         /\ (\E i \in 1..Len(ln) : Tells(ln[i], key)) =>
              \E i : LastTells(ln, i, key)
         /\ \A i : LastTells(ln, i, key) => Value(ln, key) = ln[i].value
<1> DEFINE at == {i \in 1..Len(ln) : ln[i].key = key /\ ln[i].value # Empty}
<1>1. Len(ln) \in Nat
  BY SeqIs
<1>2. Value(ln, key) = IF at = {} THEN None ELSE ln[Max(at)].value
  BY DEF Value
<1>3. at \in SUBSET (1..Len(ln)) /\ \A i \in 1..Len(ln) : i \in at <=> Tells(ln[i], key)
  BY DEF Tells
<1> HIDE DEF at
<1>4. at # {} => Max(at) \in at /\ \A j \in at : j <= Max(at)
  BY <1>1, <1>3, MaxIs
<1>5. ASSUME at # {} PROVE LastTells(ln, Max(at), key)
  BY <1>3, <1>4, <1>5 DEF LastTells
<1>6. \A i, j : LastTells(ln, i, key) /\ LastTells(ln, j, key) => i = j
  BY <1>1 DEF LastTells
<1>7. (\A i \in 1..Len(ln) : ~Tells(ln[i], key)) => at = {}
  BY <1>3
<1>8. \A i \in 1..Len(ln) : Tells(ln[i], key) => at # {}
  BY <1>3
<1>9. ASSUME NEW i, LastTells(ln, i, key) PROVE Value(ln, key) = ln[i].value
  <2>1. at # {}
    BY <1>8, <1>9 DEF LastTells
  <2>2. i = Max(at)
    BY <1>5, <1>6, <1>9, <2>1
  <2> QED
    BY <1>2, <2>1, <2>2
<1> QED
  BY <1>2, <1>5, <1>7, <1>8, <1>9

\* No token is without a value.
LEMMA ValueIsNone ==
  ASSUME NEW ln, NEW key, WellFormed(ln)
  PROVE  Value(ln, key) = None <=> \A i \in 1..Len(ln) : ~Tells(ln[i], key)
<1>1. IsSeq(ln) /\ \A i \in 1..Len(ln) : ln[i].value # None
  BY SeqIs DEF WellFormed, IsToken
<1>2. ASSUME NEW i \in 1..Len(ln), Tells(ln[i], key) PROVE Value(ln, key) # None
  <2>1. PICK j : LastTells(ln, j, key)
    BY <1>1, <1>2, ValueIs
  <2>2. Value(ln, key) = ln[j].value /\ j \in 1..Len(ln)
    BY <1>1, <2>1, ValueIs DEF LastTells
  <2> QED
    BY <1>1, <2>2
<1> QED
  BY <1>1, <1>2, ValueIs

\* Of two lines the later one counts, where it says something.
LEMMA ValueConcat ==
  ASSUME NEW a, NEW b, NEW key, WellFormed(a), WellFormed(b)
  PROVE  Value(a \o b, key) = FirstOf(Value(b, key), Value(a, key))
<1> DEFINE c == a \o b
<1>1. IsSeq(a) /\ IsSeq(b) /\ IsSeq(c)
  BY ConcatIs DEF WellFormed
<1>2. Len(a) \in Nat /\ Len(b) \in Nat /\ Len(c) = Len(a) + Len(b)
  BY <1>1, SeqIs, ConcatIs
<1>3. /\ \A i \in 1..Len(a) : c[i] = a[i]
      /\ \A i \in 1..Len(b) : c[Len(a) + i] = b[i]
      /\ \A i \in 1..Len(c) : ~(i <= Len(a)) => i - Len(a) \in 1..Len(b) /\ c[i] = b[i - Len(a)]
  <2>1. \A i \in 1..(Len(a) + Len(b)) :
          c[i] = IF i <= Len(a) THEN a[i] ELSE b[i - Len(a)]
    BY <1>1, ConcatIs
  <2>2. \A i \in 1..Len(c) : ~(i <= Len(a)) => i - Len(a) \in 1..Len(b)
    BY <1>2
  <2> HIDE DEF c
  <2> QED
    BY <1>1, <1>2, <2>1, <2>2, ConcatIs DEF c
<1> HIDE DEF c
<1>4. CASE \E i \in 1..Len(b) : Tells(b[i], key)
  <2>1. PICK i : LastTells(b, i, key)
    BY <1>1, <1>4, ValueIs
  <2>2. i \in 1..Len(b) /\ Len(a) + i \in 1..Len(c) /\ c[Len(a) + i] = b[i]
    BY <1>2, <1>3, <2>1 DEF LastTells
  <2>3. ASSUME NEW j \in 1..Len(c), Tells(c[j], key) PROVE j <= Len(a) + i
    <3>1. CASE j <= Len(a)
      BY <1>2, <2>2, <3>1
    <3>2. CASE ~(j <= Len(a))
      <4>1. j - Len(a) \in 1..Len(b) /\ Tells(b[j - Len(a)], key)
        BY <1>3, <2>3, <3>2
      <4>2. j - Len(a) <= i
        BY <2>1, <4>1 DEF LastTells
      <4> QED
        BY <1>2, <2>2, <4>2
    <3> QED
      BY <3>1, <3>2
  <2>4. LastTells(c, Len(a) + i, key)
    BY <2>1, <2>2, <2>3 DEF LastTells
  <2>5. Value(c, key) = b[i].value /\ Value(b, key) = b[i].value
    BY <1>1, <2>1, <2>2, <2>4, ValueIs
  <2>6. Value(b, key) # None
    BY <1>4, ValueIsNone
  <2> QED
    BY <2>5, <2>6 DEF FirstOf, c
<1>5. CASE \A i \in 1..Len(b) : ~Tells(b[i], key)
  <2>1. Value(b, key) = None
    BY <1>5, ValueIsNone
  <2>2. ASSUME NEW j \in 1..Len(c), Tells(c[j], key)
        PROVE  j \in 1..Len(a) /\ Tells(a[j], key)
    <3>1. j <= Len(a)
      BY <1>3, <1>5, <2>2
    <3>2. j \in 1..Len(a)
      BY <1>2, <3>1
    <3> QED
      BY <1>3, <2>2, <3>2
  <2>3. CASE \E i \in 1..Len(a) : Tells(a[i], key)
    <3>1. PICK i : LastTells(a, i, key)
      BY <1>1, <2>3, ValueIs
    <3>2. i \in 1..Len(a) /\ i \in 1..Len(c) /\ c[i] = a[i]
      BY <1>2, <1>3, <3>1 DEF LastTells
    <3>3. LastTells(c, i, key)
      BY <2>2, <3>1, <3>2 DEF LastTells
    <3>4. Value(c, key) = a[i].value /\ Value(a, key) = a[i].value
      BY <1>1, <3>1, <3>2, <3>3, ValueIs
    <3> QED
      BY <2>1, <3>4 DEF FirstOf, c
  <2>4. CASE \A i \in 1..Len(a) : ~Tells(a[i], key)
    <3>1. Value(c, key) = None /\ Value(a, key) = None
      BY <1>1, <2>2, <2>4, ValueIs
    <3> QED
      BY <2>1, <3>1 DEF FirstOf, c
  <2> QED
    BY <2>3, <2>4
<1> QED
  BY <1>4, <1>5

LEMMA WellFormedConcat ==
  ASSUME NEW a, NEW b, WellFormed(a), WellFormed(b)
  PROVE  WellFormed(a \o b)
BY ConcatIs, ConcatSet DEF WellFormed

LEMMA EmptyLine ==
  WellFormed(<<>>) /\ \A key : Value(<<>>, key) = None
<1>1. WellFormed(<<>>)
  BY NoneIs DEF WellFormed
<1>2. ASSUME NEW key PROVE Value(<<>>, key) = None
  BY <1>1, NoneIs, ValueIsNone
<1> QED
  BY <1>1, <1>2

\* A line of one token, or of none.
LEMMA GivenIs ==
  ASSUME NEW k, NEW v, v # None => IsToken(Token(k, v))
  PROVE  /\ WellFormed(Given(k, v))
         /\ \A key : Value(Given(k, v), key) =
                       IF k = key /\ v # Empty THEN v ELSE None
<1>1. CASE v = None
  <2>1. Given(k, v) = <<>>
    BY <1>1 DEF Given
  <2> QED
    BY <1>1, <2>1, EmptyLine
<1>2. CASE v # None
  <2> DEFINE t == Token(k, v)
             ln == <<t>>
  <2>1. Given(k, v) = ln
    BY <1>2 DEF Given
  <2>2. t.key = k /\ t.value = v /\ IsToken(t)
    BY <1>2 DEF Token
  <2> HIDE DEF t
  <2>3. IsSeq(ln) /\ Len(ln) = 1 /\ ln[1] = t /\ ToSet(ln) = {t}
    BY OneIs
  <2> HIDE DEF ln
  <2>4. WellFormed(ln)
    BY <2>2, <2>3 DEF WellFormed
  <2>5. \A i \in 1..Len(ln) : i = 1
    BY <2>3
  <2>6. ASSUME NEW key PROVE Value(ln, key) = IF k = key /\ v # Empty THEN v ELSE None
    <3>1. CASE k = key /\ v # Empty
      <4>1. LastTells(ln, 1, key)
        BY <2>2, <2>3, <2>5, <3>1 DEF LastTells, Tells
      <4> QED
        BY <2>2, <2>3, <3>1, <4>1, ValueIs
    <3>2. CASE ~(k = key /\ v # Empty)
      <4>1. \A i \in 1..Len(ln) : ~Tells(ln[i], key)
        BY <2>2, <2>3, <2>5, <3>2 DEF Tells
      <4> QED
        BY <2>3, <3>2, <4>1, ValueIs
    <3> QED
      BY <3>1, <3>2
  <2> QED
    BY <2>1, <2>4, <2>6
<1> QED
  BY <1>1, <1>2

\* No key that IsToken is particular about.
PlainKey(k) ==
  k \notin {"rd.stormblock.slab", "rd.stormblock.writable", "rd.stormblock.mount",
            "rd.stormblock.local-disk", "rd.stormblock.data-slab"}

LEMMA PlainToken ==
  ASSUME NEW k, PlainKey(k), NEW v, v # None
  PROVE  IsToken(Token(k, v))
BY DEF PlainKey, IsToken, Token

\* The parts of a line that a server renders.
OfRecord(rec) ==
  IF rec = None THEN <<>>
  ELSE Given("storm.hostname", rec.name) \o Given("storm.role", rec.role)

OfOperator(cfg, rec) ==
  cfg.extra_cmdline \o IF rec = None THEN <<>> ELSE rec.extra_cmdline

LEMMA RootTokensWellFormed ==
  ASSUME NEW cfg, NEW rec, NEW claim
  PROVE  WellFormed(RootTokens(cfg, rec, claim))
<1> DEFINE own == FirstOf(IF rec = None THEN None ELSE rec.portal, cfg.portal)
           portal == IF claim = None THEN own ELSE claim.address
           port == IF claim = None THEN cfg.portal_port ELSE claim.port
           a == Given("rd.stormblock.portal", portal)
           b == Given("rd.stormblock.port", port)
           c1 == Given("rd.stormblock.nqn", claim.target)
           c2 == Given("rd.stormblock.nsid", claim.nsid)
           c3 == Given("stormblock.volume", claim.volume)
           c == IF claim = None THEN <<>> ELSE c1 \o c2 \o c3
           d == <<Token("root", "/dev/ublkb0")>>
<1>1. RootTokens(cfg, rec, claim) = IF portal = None THEN <<>> ELSE a \o b \o c \o d
  BY DEF RootTokens
<1> HIDE DEF own, portal, port
<1>2. WellFormed(a) /\ WellFormed(b) /\ WellFormed(c1) /\ WellFormed(c2) /\ WellFormed(c3)
  <2>1. /\ PlainKey("rd.stormblock.portal") /\ PlainKey("rd.stormblock.port")
        /\ PlainKey("rd.stormblock.nqn") /\ PlainKey("rd.stormblock.nsid")
        /\ PlainKey("stormblock.volume")
    BY DEF PlainKey
  <2> QED
    BY <2>1, PlainToken, GivenIs
<1> HIDE DEF a, b, c1, c2, c3
<1>3. WellFormed(c)
  BY <1>2, WellFormedConcat, EmptyLine
<1>4. WellFormed(d)
  <2> DEFINE t == Token("root", "/dev/ublkb0")
  <2>1. PlainKey("root") /\ "/dev/ublkb0" # None
    BY StorageAssumption DEF PlainKey
  <2>2. IsToken(t)
    BY <2>1, PlainToken
  <2> HIDE DEF t
  <2> QED
    BY <2>2, OneIs DEF WellFormed, t
<1> HIDE DEF c, d
<1> QED
  BY <1>1, <1>2, <1>3, <1>4, WellFormedConcat, EmptyLine

LEMMA RecordLine ==
  ASSUME NEW rec \in Recs
  PROVE  /\ WellFormed(OfRecord(rec))
         /\ Value(OfRecord(rec), "storm.hostname") =
              IF rec = None THEN None ELSE rec.name
         /\ \A key : key \notin {"storm.hostname", "storm.role"} =>
                       Value(OfRecord(rec), key) = None
<1> DEFINE n == Given("storm.hostname", rec.name)
           r == Given("storm.role", rec.role)
<1>1. PlainKey("storm.hostname") /\ PlainKey("storm.role")
  BY DEF PlainKey
<1>2. WellFormed(n) /\ WellFormed(r)
  BY <1>1, PlainToken, GivenIs
<1>3. \A key : /\ Value(n, key) = IF "storm.hostname" = key /\ rec.name # Empty
                                  THEN rec.name ELSE None
               /\ Value(r, key) = IF "storm.role" = key /\ rec.role # Empty
                                  THEN rec.role ELSE None
  BY <1>1, PlainToken, GivenIs
<1> HIDE DEF n, r
<1>4. WellFormed(n \o r) /\ \A key : Value(n \o r, key) = FirstOf(Value(r, key), Value(n, key))
  BY <1>2, WellFormedConcat, ValueConcat
<1>5. Value(r, "storm.hostname") = None
  BY <1>3
<1>6. rec # None => rec.name # Empty
  BY LineAssumption
<1>7. OfRecord(rec) = IF rec = None THEN <<>> ELSE n \o r
  BY DEF OfRecord, n, r
<1>8. CASE rec = None
  BY <1>7, <1>8, EmptyLine
<1>9. CASE rec # None
  <2>1. Value(n, "storm.hostname") = rec.name
    BY <1>3, <1>6, <1>9
  <2>2. Value(n \o r, "storm.hostname") = rec.name
    BY <1>4, <1>5, <2>1 DEF FirstOf
  <2>3. ASSUME NEW key, key \notin {"storm.hostname", "storm.role"}
        PROVE  Value(n \o r, key) = None
    BY <1>3, <1>4, <2>3 DEF FirstOf
  <2> QED
    BY <1>4, <1>7, <1>9, <2>2, <2>3
<1> QED
  BY <1>8, <1>9

LEMMA OperatorLine ==
  ASSUME NEW cfg \in Configs, NEW rec \in Recs
  PROVE  WellFormed(OfOperator(cfg, rec))
<1> DEFINE own == IF rec = None THEN <<>> ELSE rec.extra_cmdline
<1>1. WellFormed(cfg.extra_cmdline) /\ WellFormed(own)
  BY LineAssumption, EmptyLine
<1>2. OfOperator(cfg, rec) = cfg.extra_cmdline \o own
  BY DEF OfOperator
<1> HIDE DEF own
<1> QED
  BY <1>1, <1>2, WellFormedConcat

LEMMA DiskLine ==
  ASSUME NEW cfg \in Configs
  PROVE  /\ WellFormed(Given("rd.stormblock.local-disk", cfg.local_disk))
         /\ \A key : key # "rd.stormblock.local-disk" =>
              Value(Given("rd.stormblock.local-disk", cfg.local_disk), key) = None
<1>1. ASSUME cfg.local_disk # None
      PROVE  IsToken(Token("rd.stormblock.local-disk", cfg.local_disk))
  BY <1>1, LineAssumption DEF IsToken, Token
<1> QED
  BY <1>1, GivenIs

\* What a server renders is a line, and of its parts the last one counts.
LEMMA RenderIs ==
  ASSUME NEW cfg \in Configs, NEW rec \in Recs, NEW claim
  PROVE  /\ WellFormed(Render(cfg, rec, claim))
         /\ \A key : Value(Render(cfg, rec, claim), key) =
              FirstOf(Value(OfOperator(cfg, rec), key),
                FirstOf(Value(OfRecord(rec), key),
                  FirstOf(Value(Given("rd.stormblock.local-disk", cfg.local_disk), key),
                          Value(RootTokens(cfg, rec, claim), key))))
<1> DEFINE a == RootTokens(cfg, rec, claim)
           b == Given("rd.stormblock.local-disk", cfg.local_disk)
           c == OfRecord(rec)
           d == cfg.extra_cmdline
           e == IF rec = None THEN <<>> ELSE rec.extra_cmdline
<1>1. Render(cfg, rec, claim) = (((a \o b) \o c) \o d) \o e
  BY DEF Render, OfRecord
<1>2. OfOperator(cfg, rec) = d \o e
  BY DEF OfOperator
<1>3. WellFormed(a) /\ WellFormed(b) /\ WellFormed(c) /\ WellFormed(d) /\ WellFormed(e)
  BY RootTokensWellFormed, DiskLine, RecordLine, LineAssumption, EmptyLine
<1> HIDE DEF a, b, c, d, e
<1>4. WellFormed(a \o b) /\ \A key : Value(a \o b, key) = FirstOf(Value(b, key), Value(a, key))
  BY <1>3, WellFormedConcat, ValueConcat
<1>5. /\ WellFormed((a \o b) \o c)
      /\ \A key : Value((a \o b) \o c, key) = FirstOf(Value(c, key), Value(a \o b, key))
  BY <1>3, <1>4, WellFormedConcat, ValueConcat
<1>6. /\ WellFormed(((a \o b) \o c) \o d)
      /\ \A key : Value(((a \o b) \o c) \o d, key) =
                    FirstOf(Value(d, key), Value((a \o b) \o c, key))
  BY <1>3, <1>5, WellFormedConcat, ValueConcat
<1>7. /\ WellFormed((((a \o b) \o c) \o d) \o e)
      /\ \A key : Value((((a \o b) \o c) \o d) \o e, key) =
                    FirstOf(Value(e, key), Value(((a \o b) \o c) \o d, key))
  BY <1>3, <1>6, WellFormedConcat, ValueConcat
<1>8. \A key : Value(d \o e, key) = FirstOf(Value(e, key), Value(d, key))
  BY <1>3, ValueConcat
<1>9. \A x, y, z : FirstOf(x, FirstOf(y, z)) = FirstOf(FirstOf(x, y), z)
  BY DEF FirstOf
<1>10. ASSUME NEW key
       PROVE  Value((((a \o b) \o c) \o d) \o e, key) =
                FirstOf(Value(d \o e, key),
                  FirstOf(Value(c, key), FirstOf(Value(b, key), Value(a, key))))
  BY <1>4, <1>5, <1>6, <1>7, <1>8, <1>9
<1> QED
  BY <1>1, <1>2, <1>7, <1>10 DEF a, b, c

\* What RootTokens says: the claim, or a portal and nothing that names a root.
LEMMA RootTokensIs ==
  ASSUME NEW cfg, NEW rec, NEW claim \in Claims \cup {None}
  PROVE  LET val(key) == Value(RootTokens(cfg, rec, claim), key)
         IN  /\ val("rd.stormblock.slab") = None
             /\ val("rd.stormblock.boothost") = None
             /\ val("storm.hostname") = None
             /\ claim = None => val("rd.stormblock.nqn") = None
             /\ claim # None =>
                  /\ val("rd.stormblock.portal") = claim.address
                  /\ val("rd.stormblock.port") = claim.port
                  /\ val("rd.stormblock.nqn") = claim.target
                  /\ val("rd.stormblock.nsid") = claim.nsid
                  /\ val("stormblock.volume") = claim.volume
<1> DEFINE own == FirstOf(IF rec = None THEN None ELSE rec.portal, cfg.portal)
           portal == IF claim = None THEN own ELSE claim.address
           port == IF claim = None THEN cfg.portal_port ELSE claim.port
           a == Given("rd.stormblock.portal", portal)
           b == Given("rd.stormblock.port", port)
           c1 == Given("rd.stormblock.nqn", claim.target)
           c2 == Given("rd.stormblock.nsid", claim.nsid)
           c3 == Given("stormblock.volume", claim.volume)
           c == IF claim = None THEN <<>> ELSE (c1 \o c2) \o c3
           d == <<Token("root", "/dev/ublkb0")>>
<1>1. RootTokens(cfg, rec, claim) =
        IF portal = None THEN <<>> ELSE ((a \o b) \o c) \o d
  BY DEF RootTokens
<1>2. claim # None => portal = claim.address /\ port = claim.port
  OBVIOUS
<1> HIDE DEF own, portal, port
<1>3. WellFormed(a) /\ WellFormed(b) /\ WellFormed(c1) /\ WellFormed(c2) /\ WellFormed(c3)
  <2>1. /\ PlainKey("rd.stormblock.portal") /\ PlainKey("rd.stormblock.port")
        /\ PlainKey("rd.stormblock.nqn") /\ PlainKey("rd.stormblock.nsid")
        /\ PlainKey("stormblock.volume")
    BY DEF PlainKey
  <2> QED
    BY <2>1, PlainToken, GivenIs
<1>4. \A key :
        /\ Value(a, key) = IF "rd.stormblock.portal" = key /\ portal # Empty THEN portal ELSE None
        /\ Value(b, key) = IF "rd.stormblock.port" = key /\ port # Empty THEN port ELSE None
        /\ Value(c1, key) = IF "rd.stormblock.nqn" = key /\ claim.target # Empty
                            THEN claim.target ELSE None
        /\ Value(c2, key) = IF "rd.stormblock.nsid" = key /\ claim.nsid # Empty
                            THEN claim.nsid ELSE None
        /\ Value(c3, key) = IF "stormblock.volume" = key /\ claim.volume # Empty
                            THEN claim.volume ELSE None
  <2>1. /\ PlainKey("rd.stormblock.portal") /\ PlainKey("rd.stormblock.port")
        /\ PlainKey("rd.stormblock.nqn") /\ PlainKey("rd.stormblock.nsid")
        /\ PlainKey("stormblock.volume")
    BY DEF PlainKey
  <2> QED
    BY <2>1, PlainToken, GivenIs
<1> HIDE DEF a, b, c1, c2, c3
<1>5. WellFormed(d) /\ \A key : key # "root" => Value(d, key) = None
  <2>1. PlainKey("root") /\ "/dev/ublkb0" # None
    BY StorageAssumption DEF PlainKey
  <2>2. Given("root", "/dev/ublkb0") = d
    BY <2>1 DEF Given
  <2> HIDE DEF d
  <2> QED
    BY <2>1, <2>2, PlainToken, GivenIs
<1> HIDE DEF d
<1>6. WellFormed(c1 \o c2) /\ WellFormed((c1 \o c2) \o c3)
  BY <1>3, WellFormedConcat
<1>7. \A key : Value((c1 \o c2) \o c3, key) =
                 FirstOf(Value(c3, key), FirstOf(Value(c2, key), Value(c1, key)))
  BY <1>3, <1>6, ValueConcat
<1>8. WellFormed(c)
  BY <1>6, EmptyLine
<1>9. \A key : Value(c, key) =
                 IF claim = None THEN None
                 ELSE FirstOf(Value(c3, key), FirstOf(Value(c2, key), Value(c1, key)))
  BY <1>7, EmptyLine
<1> HIDE DEF c
<1>10. WellFormed(a \o b) /\ WellFormed((a \o b) \o c)
  BY <1>3, <1>8, WellFormedConcat
<1>11. \A key : Value(((a \o b) \o c) \o d, key) =
                  FirstOf(Value(d, key), FirstOf(Value(c, key),
                    FirstOf(Value(b, key), Value(a, key))))
  BY <1>3, <1>5, <1>8, <1>10, ValueConcat
<1> DEFINE val(key) == Value(RootTokens(cfg, rec, claim), key)
<1>12. \A key : key # "root" =>
         val(key) = IF portal = None THEN None
                    ELSE FirstOf(Value(c, key), FirstOf(Value(b, key), Value(a, key)))
  BY <1>1, <1>5, <1>11, EmptyLine DEF FirstOf
<1> HIDE DEF val
<1>13. /\ val("rd.stormblock.slab") = None
       /\ val("rd.stormblock.boothost") = None
       /\ val("storm.hostname") = None
  BY <1>4, <1>9, <1>12 DEF FirstOf
<1>14. claim = None => val("rd.stormblock.nqn") = None
  BY <1>4, <1>9, <1>12 DEF FirstOf
<1>15. ASSUME claim # None
       PROVE  /\ val("rd.stormblock.portal") = claim.address
              /\ val("rd.stormblock.port") = claim.port
              /\ val("rd.stormblock.nqn") = claim.target
              /\ val("rd.stormblock.nsid") = claim.nsid
              /\ val("stormblock.volume") = claim.volume
  <2>1. /\ claim.address \notin {None, Empty} /\ claim.target \notin {None, Empty}
        /\ claim.volume # Empty
        /\ claim.port \in Int /\ claim.nsid \in Int \cup {None}
    <3>1. claim \in Claims
      BY <1>15
    <3>2. /\ {claim.address, claim.target} \cap {None, Empty} = {}
          /\ claim.volume # Empty
          /\ claim.port \in 0..(2^16 - 1)
          /\ claim.nsid \in Nat \cup {None}
      BY <3>1, LineAssumption
    <3>3. {None, Empty} \cap {claim.address, claim.target} = {} /\ claim.volume # Empty
      BY <3>2
    <3>4. claim.port \in Int
      BY <3>2
    <3>5. claim.nsid \in Int \cup {None}
      BY <3>2
    <3> QED
      BY <3>3, <3>4, <3>5
  <2>2. claim.port \notin {None, Empty} /\ claim.nsid # Empty
    BY <2>1, StorageAssumption
  <2>3. portal = claim.address /\ port = claim.port /\ portal # None
    BY <1>2, <1>15, <2>1
  <2>4. val("rd.stormblock.portal") = claim.address
    BY <1>4, <1>9, <1>12, <1>15, <2>1, <2>3 DEF FirstOf
  <2>5. val("rd.stormblock.port") = claim.port
    BY <1>4, <1>9, <1>12, <1>15, <2>2, <2>3 DEF FirstOf
  <2>6. val("rd.stormblock.nqn") = claim.target
    BY <1>4, <1>9, <1>12, <1>15, <2>1, <2>3 DEF FirstOf
  <2>7. val("rd.stormblock.nsid") = claim.nsid
    BY <1>4, <1>9, <1>12, <1>15, <2>2, <2>3 DEF FirstOf
  <2>8. val("stormblock.volume") = claim.volume
    BY <1>4, <1>9, <1>12, <1>15, <2>1, <2>3 DEF FirstOf
  <2> QED
    BY <2>4, <2>5, <2>6, <2>7, <2>8
<1> QED
  BY <1>13, <1>14, <1>15 DEF val

-----------------------------------------------------------------------------
(***************************************************************************)
(* What init reads.                                                        *)
(***************************************************************************)

LEMMA SlabsAre ==
  ASSUME NEW ln, WellFormed(ln)
  PROVE  /\ IsSeq(Slabs(ln)) /\ None \notin ToSet(Slabs(ln))
         /\ Value(ln, "rd.stormblock.slab") = None => Slabs(ln) = <<>>
<1> DEFINE key == "rd.stormblock.slab"
           lists == [i \in 1..Len(ln) |-> ln[i].value]
           at == {i \in 1..Len(ln) : ln[i].key = key /\ ln[i].value # Empty}
<1>1. Slabs(ln) = Joined(lists, at)
  BY DEF Slabs
<1>2. Len(ln) \in Nat /\ \A i \in 1..Len(ln) : IsToken(ln[i])
  BY SeqIs DEF WellFormed
<1>3. /\ lists = [i \in 1..Len(ln) |-> lists[i]]
      /\ \A i \in 1..Len(ln) : lists[i] = ln[i].value
  OBVIOUS
<1>4. \A i \in at : IsSeq(ln[i].value) /\ None \notin ToSet(ln[i].value)
  BY <1>2 DEF IsToken
<1>5. at \subseteq 1..Len(ln)
  OBVIOUS
<1>6. Value(ln, key) = None => at = {}
  BY ValueIsNone DEF Tells
<1> HIDE DEF lists, at
<1>7. Len(lists) = Len(ln)
  BY <1>2, <1>3, FunctionIsSeq
<1>8. \A i \in at : IsSeq(lists[i]) /\ None \notin ToSet(lists[i])
  BY <1>3, <1>4, <1>5
<1>9. Joins(Joined(lists, at), lists, at, Len(lists))
  BY <1>2, <1>7, <1>8, JoinedIs
<1>10. IsSeq(Slabs(ln)) /\ None \notin ToSet(Slabs(ln))
  BY <1>1, <1>8, <1>9 DEF Joins
<1>11. ASSUME at = {} PROVE ToSet(Slabs(ln)) = {}
  BY <1>1, <1>9, <1>11 DEF Joins
<1> QED
  BY <1>6, <1>10, <1>11, NoneIs

LEMMA EntriesAre ==
  ASSUME NEW ln, WellFormed(ln),
         NEW key \in {"rd.stormblock.writable", "rd.stormblock.mount"}
  PROVE  IsSeq(Entries(ln, key))
<1>1. CASE Value(ln, key) = None
  BY <1>1, NoneIs DEF Entries
<1>2. CASE Value(ln, key) # None
  <2>1. IsSeq(ln) /\ \A i \in 1..Len(ln) : IsToken(ln[i])
    BY SeqIs DEF WellFormed
  <2>2. \E i \in 1..Len(ln) : Tells(ln[i], key)
    BY <1>2, ValueIsNone
  <2>3. PICK i : LastTells(ln, i, key)
    BY <2>1, <2>2, ValueIs
  <2>4. Value(ln, key) = ln[i].value /\ IsToken(ln[i]) /\ Tells(ln[i], key)
    BY <2>1, <2>3, ValueIs DEF LastTells
  <2> DEFINE entries == Value(ln, key)
             kept == Picked(entries, {j \in 1..Len(entries) : entries[j].name # ""
                                                              \/ entries[j].colon})
             parsed == ParseNamedMounts(entries)
  <2>5. IsSeq(entries)
    BY <2>4 DEF IsToken, Tells
  <2>6. IsSeq(kept)
    <3> HIDE DEF entries
    <3> QED
      BY <2>5, PickedIs
  <2>7. parsed = [j \in 1..Len(kept) |-> parsed[j]]
    BY DEF ParseNamedMounts
  <2>8. Entries(ln, key) = parsed
    BY <1>2 DEF Entries
  <2>9. Len(kept) \in Nat
    <3> HIDE DEF kept
    <3> QED
      BY <2>6, SeqIs
  <2> HIDE DEF kept, parsed, entries
  <2> QED
    BY <2>7, <2>8, <2>9, FunctionIsSeq
<1> QED
  BY <1>1, <1>2

LEMMA WithPlaceIs ==
  ASSUME NEW entries, IsSeq(entries)
  PROVE  /\ IsSeq(WithPlace(entries))
         /\ \A e \in ToSet(WithPlace(entries)) :
              \E i \in 1..Len(entries) : e = entries[i]
<1> DEFINE at == {i \in 1..Len(entries) : entries[i].mnt # None}
<1>1. WithPlace(entries) = Picked(entries, at)
  BY DEF WithPlace
<1> HIDE DEF at
<1> QED
  BY <1>1, PickedIs

\* A named disk is one.
LEMMA DisksAre ==
  ASSUME NEW ln, WellFormed(ln),
         NEW key \in {"rd.stormblock.local-disk", "rd.stormblock.data-slab"},
         Value(ln, key) # None
  PROVE  IsDisk(Value(ln, key))
<1>1. IsSeq(ln) /\ \A i \in 1..Len(ln) : IsToken(ln[i])
  BY SeqIs DEF WellFormed
<1>2. \E i \in 1..Len(ln) : Tells(ln[i], key)
  BY ValueIsNone
<1>3. PICK i : LastTells(ln, i, key)
  BY <1>1, <1>2, ValueIs
<1>4. Value(ln, key) = ln[i].value /\ IsToken(ln[i]) /\ Tells(ln[i], key)
  BY <1>1, <1>3, ValueIs DEF LastTells
<1> QED
  BY <1>4 DEF IsToken, Tells

\* device_base of a disk and of its partitions is the same, for the families
\* with letters and the numbered ones it knows.
LEMMA SameBase ==
  ASSUME NEW a, NEW b, IsDisk(a), IsDisk(b), SameDisk(a, b),
         Lettered(b) \/ KeepsDigits(b)
  PROVE  DeviceBase(a) = DeviceBase(b)
<1> DEFINE base == [family |-> b.family, unit |-> b.unit, part |-> 0]
<1>1. /\ a = [family |-> b.family, unit |-> b.unit, part |-> a.part]
      /\ b = [family |-> b.family, unit |-> b.unit, part |-> b.part]
  BY DEF IsDisk, SameDisk
<1>2. [a EXCEPT !.part = 0] = base /\ [b EXCEPT !.part = 0] = base
  BY <1>1
<1>3. a.part = 0 => a = base
  BY <1>1
<1>4. b.part = 0 => b = base
  BY <1>1
<1>5. a.family = b.family
  BY DEF SameDisk
<1> HIDE DEF base
<1>6. DeviceBase(a) = base
  BY <1>2, <1>3, <1>5 DEF DeviceBase, Lettered, KeepsDigits
<1>7. DeviceBase(b) = base
  BY <1>2, <1>4 DEF DeviceBase, Lettered, KeepsDigits
<1> QED
  BY <1>6, <1>7

-----------------------------------------------------------------------------
(***************************************************************************)
(* What init decides.                                                      *)
(***************************************************************************)

\* Parameters read from a line.
Sound(p) ==
  /\ IsSeq(p.slabs) /\ None \notin ToSet(p.slabs)
  /\ IsSeq(p.writable) /\ IsSeq(p.mounts)

LEMMA ParseIs ==
  ASSUME NEW ln, WellFormed(ln)
  PROVE  Sound(Parse(ln))
<1>1. IsSeq(Slabs(ln)) /\ None \notin ToSet(Slabs(ln))
  BY SlabsAre
<1>2. IsSeq(Entries(ln, "rd.stormblock.writable"))
  BY EntriesAre
<1>3. IsSeq(WithPlace(Entries(ln, "rd.stormblock.mount")))
  BY EntriesAre, WithPlaceIs
<1>4. /\ Parse(ln).slabs = Slabs(ln)
      /\ Parse(ln).writable = Entries(ln, "rd.stormblock.writable")
      /\ Parse(ln).mounts = WithPlace(Entries(ln, "rd.stormblock.mount"))
  BY DEF Parse
<1> QED
  BY <1>1, <1>2, <1>3, <1>4 DEF Sound

\* The data slab never comes first, and is not added where there is none.
LEMMA WithDataSlabIs ==
  ASSUME NEW p, NEW s, IsSeq(s)
  PROVE  /\ IsSeq(WithDataSlab(p, s))
         /\ ToSet(WithDataSlab(p, s)) \subseteq ToSet(s) \cup ({p.data_slab} \ {None})
         /\ s # <<>> => WithDataSlab(p, s)[1] = s[1]
<1> DEFINE more == IF p.data_slab = None \/ Contains(s, p.data_slab) THEN <<>>
                   ELSE <<p.data_slab>>
<1>1. WithDataSlab(p, s) = s \o more
  BY DEF WithDataSlab
<1>2. IsSeq(more) /\ ToSet(more) \subseteq {p.data_slab} \ {None}
  BY OneIs, NoneIs
<1> HIDE DEF more
<1>3. ToSet(s \o more) = ToSet(s) \cup ToSet(more) /\ IsSeq(s \o more)
  BY <1>2, ConcatIs, ConcatSet
<1>4. ASSUME s # <<>> PROVE (s \o more)[1] = s[1]
  <2>1. Len(s) \in Nat /\ Len(s) # 0
    BY <1>4, SeqIs, NoneIs
  <2>2. 1 \in 1..Len(s)
    BY <2>1
  <2> QED
    BY <1>2, <2>2, ConcatIs
<1> QED
  BY <1>1, <1>2, <1>3, <1>4

LEMMA AllSlabsAre ==
  ASSUME NEW p, Sound(p)
  PROVE  /\ IsSeq(AllSlabs(p))
         /\ ToSet(AllSlabs(p)) \subseteq
              (ToSet(p.slabs) \cup {NvmeUri(p), p.data_slab}) \ {None}
         /\ NvmeUri(p) # None => AllSlabs(p)[1] = NvmeUri(p)
<1> DEFINE uri == IF NvmeUri(p) = None THEN <<>> ELSE <<NvmeUri(p)>>
           all == uri \o p.slabs
<1>1. AllSlabs(p) = WithDataSlab(p, all)
  BY DEF AllSlabs
<1>2. IsSeq(uri) /\ ToSet(uri) \subseteq {NvmeUri(p)} \ {None}
  BY OneIs, NoneIs
<1>3. IsSeq(p.slabs) /\ None \notin ToSet(p.slabs)
  BY DEF Sound
<1>4. NvmeUri(p) # None => Len(uri) = 1 /\ uri[1] = NvmeUri(p)
  BY OneIs
<1> HIDE DEF uri
<1>5. IsSeq(all) /\ ToSet(all) = ToSet(uri) \cup ToSet(p.slabs)
  BY <1>2, <1>3, ConcatIs, ConcatSet
<1>6. ASSUME NvmeUri(p) # None PROVE all # <<>> /\ all[1] = NvmeUri(p)
  <2>1. 1 \in 1..Len(uri)
    BY <1>4, <1>6
  <2>2. all[1] = NvmeUri(p)
    BY <1>2, <1>3, <1>4, <1>6, <2>1, ConcatIs
  <2>3. ToSet(uri) # {}
    BY <1>2, <1>4, <1>6, <2>1, SeqIs
  <2>4. ToSet(<<>>) = {}
    BY NoneIs
  <2> HIDE DEF all
  <2> QED
    BY <1>5, <2>2, <2>3, <2>4
<1> HIDE DEF all
<1>7. /\ IsSeq(WithDataSlab(p, all))
      /\ ToSet(WithDataSlab(p, all)) \subseteq ToSet(all) \cup ({p.data_slab} \ {None})
      /\ all # <<>> => WithDataSlab(p, all)[1] = all[1]
  BY <1>5, WithDataSlabIs
<1> QED
  BY <1>1, <1>2, <1>3, <1>5, <1>6, <1>7

\* The exports of an engine started with these parameters.
ExportsOf(p) ==
  Exports(IF p.image_store = None THEN <<>> ELSE <<p.image_store>>,
          ExportPlan(p).writable_args)

\* The volumes that the parameters name for a place.
NamedOf(p, mnt) ==
  {e.name : e \in {f \in ToSet(p.writable \o p.mounts) : f.mnt = mnt}}
  \cup IF mnt = ImageStoreMount THEN {p.image_store} ELSE {}

\* An export and the place that it is for.
Fits(p, e) ==
  /\ e.dev \in DOMAIN ExportsOf(p) /\ e.dev \in Nat
  /\ ExportsOf(p)[e.dev] \in NamedOf(p, e.mnt)

\* The engine numbers the exports as init does: the volume after the image
\* store and i - 1 others is the i-th of writables and mounts.
LEMMA NumbersAgree ==
  ASSUME NEW p, Sound(p)
  PROVE  LET all == p.writable \o p.mounts
             off == IF p.image_store = None THEN 0 ELSE 1
             exp == ExportsOf(p)
         IN  /\ IsSeq(all)
             /\ exp = [k \in 0..(off + Len(all)) |-> exp[k]]
             /\ \A i \in 1..Len(all) : exp[off + i] = all[i].name
             /\ p.image_store # None => exp[1] = p.image_store
<1> DEFINE all == p.writable \o p.mounts
           off == IF p.image_store = None THEN 0 ELSE 1
           store == IF p.image_store = None THEN <<>> ELSE <<p.image_store>>
           args == [i \in 1..Len(all) |-> all[i].name]
           front == <<"root">> \o store
           volumes == front \o args
           exp == [k \in 0..(Len(volumes) - 1) |-> volumes[k + 1]]
<1>1. ExportPlan(p).writable_args = args
  BY DEF ExportPlan
<1>2. ExportsOf(p) = exp
  BY <1>1 DEF ExportsOf, Exports
<1>3. IsSeq(all)
  BY ConcatIs DEF Sound
<1>4. args = [i \in 1..Len(all) |-> args[i]] /\ \A i \in 1..Len(all) : args[i] = all[i].name
  OBVIOUS
<1> HIDE DEF args, all
<1>5. Len(all) \in Nat
  BY <1>3, SeqIs
<1>6. IsSeq(args) /\ Len(args) = Len(all)
  BY <1>4, <1>5, FunctionIsSeq
<1>7. /\ IsSeq(store) /\ Len(store) = off
      /\ p.image_store # None => store[1] = p.image_store
  BY OneIs, NoneIs
<1>8. off \in {0, 1} /\ (p.image_store # None => off = 1)
  OBVIOUS
<1> HIDE DEF store, off
<1>9. IsSeq(front) /\ Len(front) = 1 + off /\ (p.image_store # None => front[2] = p.image_store)
  <2> DEFINE one == <<"root">>
  <2>1. IsSeq(one) /\ Len(one) = 1
    BY OneIs
  <2> HIDE DEF one
  <2>2. /\ IsSeq(one \o store) /\ Len(one \o store) = Len(one) + Len(store)
        /\ \A i \in 1..Len(store) : (one \o store)[Len(one) + i] = store[i]
    <3>1. IsSeq(one) /\ IsSeq(store)
      BY <1>7, <2>1
    <3> QED
      BY <3>1, ConcatIs
  <2>3. ASSUME p.image_store # None PROVE (one \o store)[2] = p.image_store
    <3>1. 1 \in 1..Len(store) /\ Len(one) + 1 = 2
      BY <1>7, <1>8, <2>1, <2>3
    <3>2. (one \o store)[Len(one) + 1] = store[1]
      BY <2>2, <3>1
    <3> QED
      BY <1>7, <2>3, <3>1, <3>2
  <2> QED
    BY <1>7, <2>1, <2>2, <2>3 DEF one
<1> HIDE DEF front
<1>10. /\ Len(volumes) = Len(front) + Len(args)
       /\ \A i \in 1..Len(front) : volumes[i] = front[i]
       /\ \A i \in 1..Len(args) : volumes[Len(front) + i] = args[i]
  BY <1>6, <1>9, ConcatIs
<1> HIDE DEF volumes
<1>11. /\ exp = [k \in 0..(Len(volumes) - 1) |-> exp[k]]
       /\ \A k \in 0..(Len(volumes) - 1) : exp[k] = volumes[k + 1]
  OBVIOUS
<1> HIDE DEF exp
<1>12. Len(volumes) - 1 = off + Len(all)
  BY <1>5, <1>6, <1>8, <1>9, <1>10
<1>13. ASSUME NEW i \in 1..Len(all) PROVE exp[off + i] = all[i].name
  <2>1. off + i \in 0..(Len(volumes) - 1) /\ (off + i) + 1 = Len(front) + i
    BY <1>5, <1>8, <1>9, <1>12
  <2>2. exp[off + i] = volumes[(off + i) + 1]
    BY <1>11, <2>1
  <2>3. volumes[Len(front) + i] = all[i].name
    BY <1>4, <1>6, <1>10
  <2> QED
    BY <2>1, <2>2, <2>3
<1>14. ASSUME p.image_store # None PROVE exp[1] = p.image_store
  <2>1. 1 \in 0..(Len(volumes) - 1) /\ 2 \in 1..Len(front)
    BY <1>5, <1>8, <1>9, <1>12, <1>14
  <2>2. exp[1] = volumes[1 + 1]
    BY <1>11, <2>1
  <2>3. exp[1] = volumes[2]
    BY <2>2
  <2> QED
    BY <1>9, <1>10, <1>14, <2>1, <2>3
<1> QED
  BY <1>2, <1>3, <1>11, <1>12, <1>13, <1>14 DEF all, off

LEMMA ExportsDomain ==
  ASSUME NEW p, Sound(p)
  PROVE  DOMAIN ExportsOf(p) = 0..(Cardinality(DOMAIN ExportsOf(p)) - 1)
<1> DEFINE all == p.writable \o p.mounts
           off == IF p.image_store = None THEN 0 ELSE 1
           exp == ExportsOf(p)
<1>1. IsSeq(all) /\ exp = [k \in 0..(off + Len(all)) |-> exp[k]]
  BY NumbersAgree
<1>2. off \in 0..1
  OBVIOUS
<1> HIDE DEF all, off, exp
<1>3. Len(all) \in Nat
  BY <1>1, SeqIs
<1> DEFINE last == off + Len(all)
<1>4. last \in Nat /\ DOMAIN exp = 0..last
  BY <1>1, <1>2, <1>3
<1> HIDE DEF last
<1>5. Cardinality(0..last) = last + 1
  BY <1>4, FS_Interval
<1> QED
  BY <1>4, <1>5 DEF exp

\* The i-th of writables and mounts is exported for the place it names.
LEMMA OneFits ==
  ASSUME NEW p, Sound(p), NEW i \in 1..Len(p.writable \o p.mounts), NEW e,
         e.dev = DeviceOf(p, i), e.mnt = (p.writable \o p.mounts)[i].mnt
  PROVE  Fits(p, e)
<1> DEFINE all == p.writable \o p.mounts
           off == IF p.image_store = None THEN 0 ELSE 1
           exp == ExportsOf(p)
<1>1. /\ IsSeq(all)
      /\ exp = [k \in 0..(off + Len(all)) |-> exp[k]]
      /\ \A j \in 1..Len(all) : exp[off + j] = all[j].name
  BY NumbersAgree
<1>2. e.dev = off + i /\ off \in {0, 1}
  BY DEF DeviceOf
<1>3. i \in 1..Len(all) /\ e.mnt = all[i].mnt
  OBVIOUS
<1>4. \A f : f \in ToSet(all) /\ f.mnt = e.mnt => f.name \in NamedOf(p, e.mnt)
  BY DEF NamedOf
<1> HIDE DEF all, off, exp
<1>5. Len(all) \in Nat /\ all[i] \in ToSet(all)
  BY <1>1, <1>3, SeqIs
<1>6. e.dev \in Nat /\ e.dev \in DOMAIN exp
  BY <1>1, <1>2, <1>3, <1>5
<1>7. exp[e.dev] = all[i].name
  BY <1>1, <1>2, <1>3
<1>8. exp[e.dev] \in NamedOf(p, e.mnt)
  BY <1>3, <1>4, <1>5, <1>7
<1> QED
  BY <1>6, <1>8 DEF Fits, exp

LEMMA PlacedFits ==
  ASSUME NEW p, Sound(p), NEW volumes, IsSeq(volumes), NEW n \in Nat,
         \A j \in 1..Len(volumes) :
           /\ n + j \in 1..Len(p.writable \o p.mounts)
           /\ (p.writable \o p.mounts)[n + j] = volumes[j]
  PROVE  /\ IsSeq(Placed(p, volumes, n))
         /\ \A e \in ToSet(Placed(p, volumes, n)) : Fits(p, e)
<1> DEFINE entry(j) == [dev |-> DeviceOf(p, n + j), mnt |-> volumes[j].mnt]
           entries == [j \in 1..Len(volumes) |-> entry(j)]
<1>1. Placed(p, volumes, n) = WithPlace(entries)
  BY DEF Placed
<1>2. /\ entries = [j \in 1..Len(volumes) |-> entries[j]]
      /\ \A j \in 1..Len(volumes) : /\ entries[j].dev = DeviceOf(p, n + j)
                                    /\ entries[j].mnt = volumes[j].mnt
  OBVIOUS
<1> HIDE DEF entries
<1>3. Len(volumes) \in Nat
  BY SeqIs
<1>4. IsSeq(entries) /\ Len(entries) = Len(volumes)
  BY <1>2, <1>3, FunctionIsSeq
<1>5. ASSUME NEW j \in 1..Len(volumes) PROVE Fits(p, entries[j])
  BY <1>2, OneFits
<1>6. /\ IsSeq(WithPlace(entries))
      /\ \A e \in ToSet(WithPlace(entries)) : \E j \in 1..Len(entries) : e = entries[j]
  BY <1>4, WithPlaceIs
<1> QED
  BY <1>1, <1>4, <1>5, <1>6

\* Every place of the plan is for the volume behind its device.
LEMMA PlanFits ==
  ASSUME NEW p, Sound(p)
  PROVE  LET plan == ExportPlan(p)
         IN  /\ IsSeq(plan.fstab_writable) /\ IsSeq(plan.mount_map)
             /\ IsSeq(plan.image_store)
             /\ \A e \in ToSet(plan.fstab_writable) : Fits(p, e)
             /\ \A e \in ToSet(plan.mount_map) : Fits(p, e)
             /\ \A e \in ToSet(plan.image_store) : Fits(p, e)
<1> DEFINE plan == ExportPlan(p)
           store == [dev |-> 1, mnt |-> ImageStoreMount]
<1>1. /\ plan.fstab_writable = Placed(p, p.writable, 0)
      /\ plan.mount_map = Placed(p, p.mounts, Len(p.writable))
      /\ plan.image_store = IF p.image_store = None THEN <<>> ELSE <<store>>
  BY DEF ExportPlan
<1> HIDE DEF plan
<1> DEFINE w == p.writable
           m == p.mounts
           all == p.writable \o p.mounts
<1>2. IsSeq(w) /\ IsSeq(m) /\ all = w \o m
  BY DEF Sound
<1> HIDE DEF w, m, all
<1>3. /\ Len(w) \in Nat /\ Len(m) \in Nat /\ Len(all) = Len(w) + Len(m)
      /\ \A i \in 1..Len(w) : all[i] = w[i]
      /\ \A i \in 1..Len(m) : all[Len(w) + i] = m[i]
  BY <1>2, SeqIs, ConcatIs
<1>4. \A j \in 1..Len(w) : 0 + j \in 1..Len(all) /\ all[0 + j] = w[j]
  <2>1. \A j \in 1..Len(w) : 0 + j = j /\ j \in 1..Len(all)
    BY <1>3
  <2> QED
    BY <1>3, <2>1
<1>5. \A j \in 1..Len(m) : Len(w) + j \in 1..Len(all) /\ all[Len(w) + j] = m[j]
  BY <1>3
<1>6. /\ IsSeq(Placed(p, p.writable, 0))
      /\ \A e \in ToSet(Placed(p, p.writable, 0)) : Fits(p, e)
  BY <1>2, <1>4, PlacedFits DEF all, w
<1>7. /\ IsSeq(Placed(p, p.mounts, Len(p.writable)))
      /\ \A e \in ToSet(Placed(p, p.mounts, Len(p.writable))) : Fits(p, e)
  BY <1>2, <1>3, <1>5, PlacedFits DEF all, w, m
<1>8. ASSUME p.image_store # None PROVE Fits(p, store)
  <2> DEFINE exp == ExportsOf(p)
             off == IF p.image_store = None THEN 0 ELSE 1
  <2>1. IsSeq(all) /\ exp = [k \in 0..(off + Len(all)) |-> exp[k]] /\ exp[1] = p.image_store
    BY <1>8, NumbersAgree DEF all
  <2>2. store.dev = 1 /\ store.mnt = ImageStoreMount /\ off = 1
    BY <1>8
  <2>3. p.image_store \in NamedOf(p, store.mnt)
    BY <2>2 DEF NamedOf
  <2> HIDE DEF store, exp, off
  <2>4. 1 \in 0..(off + Len(all))
    BY <1>3, <2>2
  <2>5. store.dev \in DOMAIN exp /\ store.dev \in Nat
    BY <2>1, <2>2, <2>4
  <2> QED
    BY <2>1, <2>2, <2>3, <2>5 DEF Fits, exp
<1> HIDE DEF store
<1>9. IsSeq(plan.image_store) /\ \A e \in ToSet(plan.image_store) : Fits(p, e)
  BY <1>1, <1>8, OneIs, NoneIs
<1> QED
  BY <1>1, <1>6, <1>7, <1>9 DEF plan

\* What has appeared of a part of the plan.
LEMMA AppearedIs ==
  ASSUME NEW places, IsSeq(places), NEW present
  PROVE  /\ IsSeq(Appeared(places, present))
         /\ \A e \in ToSet(Appeared(places, present)) :
              e \in ToSet(places) /\ e.dev \in present
<1> DEFINE at == {i \in 1..Len(places) : places[i].dev \in present}
<1>1. Appeared(places, present) = Picked(places, at)
  BY DEF Appeared
<1>2. \A i \in at : i \in 1..Len(places) /\ places[i].dev \in present
  OBVIOUS
<1> HIDE DEF at
<1>3. ToSet(places) = {places[i] : i \in 1..Len(places)}
  BY SeqIs
<1>4. /\ IsSeq(Picked(places, at))
      /\ \A x : x \in ToSet(Picked(places, at)) <=>
                  \E i \in at \cap (1..Len(places)) : x = places[i]
  BY PickedIs
<1> QED
  BY <1>1, <1>2, <1>3, <1>4

-----------------------------------------------------------------------------
(***************************************************************************)
(* The invariant.                                                          *)
(***************************************************************************)

Past == {"slabs", "start", "engine", "exports", "switch", "up"}

\* The line is one, and that of a server is the one it rendered.
LineHolds ==
  /\ WellFormed(line)
  /\ request # None =>
       /\ request.cfg \in Configs /\ request.rec \in Recs
       /\ request.claim \in Claims \cup {None}
       /\ line = Render(request.cfg, request.rec, request.claim)

\* What Prepare asked of the line.
Checked ==
  pc \in Past => /\ LocalDiskAllowed(params)
                 /\ IsNetworkBoot(params) \/ params.slabs # <<>>

\* Nothing is left of the boot before.
InTurn ==
  /\ pc \in {"off", "init", "slabs"} => slabs = <<>>
  /\ pc \notin {"switch", "up"} => mounted = {}

\* Without an appliance the slabs are the ones of the line.
SlabsHold ==
  (pc = "start" \/ Started) /\ ~BoothostClaim(params) => slabs = AllSlabs(params)

ExportsHold == Started => exported = ExportsOf(params)

\* A root that is not kept has nothing of an earlier boot.
RootHolds ==
  /\ IsSeq(root.fstab)
  /\ pc = "exports" /\ ~Persistent => root = FreshRoot
  /\ pc \in {"switch", "up"} /\ ~Persistent =>
       root.hostname \in {None, params.hostname}
  /\ pc = "switch" /\ ~Persistent =>
       \A e \in ToSet(root.fstab) : Fits(params, e)

VolumesHold ==
  pc = "switch" \/ ~Persistent =>
    \A m \in mounted : m.volume \in NamedOf(params, m.mnt)

IInv == /\ TypeOK /\ LineHolds /\ Checked /\ InTurn /\ SlabsHold /\ ExportsHold
        /\ RootHolds /\ VolumesHold /\ ApplianceIsFallback

LEMMA ParamsSound ==
  ASSUME LineHolds
  PROVE  Sound(params)
BY ParseIs DEF LineHolds, params

\* Everything that is a function of the line stays with it.
LEMMA SameLine ==
  ASSUME UNCHANGED line
  PROVE  params' = params /\ Persistent' = Persistent
BY DEF params, Persistent

\* A node that is off has the device of its root and no other.
LEMMA OnlyRoot ==
  {0} = 0..(Cardinality({0}) - 1)
<1>1. {0} = 0..0
  OBVIOUS
<1>2. Cardinality({0}) = 1
  BY FS_Singleton
<1>3. 1 - 1 = 0
  OBVIOUS
<1> QED
  BY <1>1, <1>2, <1>3

LEMMA InitIInv ==
  ASSUME Init
  PROVE  IInv
<1> USE DEF Init
<1>1. root.fstab = <<>> /\ root.hostname = None
  BY DEF FreshRoot
<1>2. DOMAIN exported = 0..(Cardinality(DOMAIN exported) - 1)
  <2>1. DOMAIN exported = {0}
    OBVIOUS
  <2> QED
    BY <2>1, OnlyRoot
<1>3. TypeOK
  <2>1. boots \in 0..MaxBoots
    BY StorageAssumption
  <2>2. DOMAIN slabs = {} /\ DOMAIN root.fstab = {}
    BY <1>1
  <2> QED
    BY <1>2, <2>1, <2>2 DEF TypeOK
<1>4. LineHolds
  BY EmptyLine DEF LineHolds
<1>5. Checked /\ InTurn /\ SlabsHold /\ ExportsHold
  BY DEF Checked, InTurn, SlabsHold, ExportsHold, Past, Started
<1>6. RootHolds /\ VolumesHold
  BY <1>1, NoneIs DEF RootHolds, VolumesHold
<1>7. ApplianceIsFallback
  BY DEF ApplianceIsFallback, Started
<1> QED
  BY <1>3, <1>4, <1>5, <1>6, <1>7 DEF IInv

\* The machine starts.
LEMMA PowerOnKeeps ==
  ASSUME IInv, NEW newline, PowerOn(newline), LineHolds',
         request' = None \/ request'.cfg \in Configs
  PROVE  IInv'
<1>1. /\ pc = "off" /\ pc' = "init" /\ boots' = boots - 1 /\ boots > 0
      /\ holds' \in [Devices -> {"slab", "other", "absent"}]
      /\ UNCHANGED <<slabs, asked, blind, exported, root, mounted>>
  BY DEF PowerOn
<1>2. slabs = <<>> /\ mounted = {}
  BY <1>1 DEF IInv, InTurn
<1>3. TypeOK'
  <2>1. boots' \in 0..MaxBoots
    BY <1>1, StorageAssumption DEF IInv, TypeOK
  <2>2. DOMAIN slabs' = {}
    BY <1>1, <1>2
  <2> QED
    BY <1>1, <1>2, <2>1, <2>2 DEF IInv, TypeOK
<1>4. Checked' /\ InTurn' /\ SlabsHold' /\ ExportsHold'
  BY <1>1, <1>2 DEF Checked, InTurn, SlabsHold, ExportsHold, Past, Started
<1>5. RootHolds' /\ VolumesHold'
  BY <1>1, <1>2 DEF IInv, RootHolds, VolumesHold
<1>6. ApplianceIsFallback'
  BY <1>1 DEF ApplianceIsFallback, Started
<1> QED
  BY <1>3, <1>4, <1>5, <1>6 DEF IInv

LEMMA BootKeeps ==
  ASSUME IInv, BootNetwork \/ BootMedia
  PROVE  IInv'
<1>1. CASE BootNetwork
  <2>1. PICK cfg \in Configs, rec \in Recs, claim \in Claims \cup {None} :
          /\ request' = [cfg |-> cfg, rec |-> rec, claim |-> claim]
          /\ PowerOn(Render(cfg, rec, claim))
    BY <1>1 DEF BootNetwork
  <2>2. /\ request'.cfg = cfg /\ request'.rec = rec /\ request'.claim = claim
        /\ line' = Render(cfg, rec, claim)
    BY <2>1 DEF PowerOn
  <2>3. WellFormed(Render(cfg, rec, claim))
    BY RenderIs
  <2>4. LineHolds'
    BY <2>2, <2>3 DEF LineHolds
  <2> QED
    BY <2>1, <2>2, <2>4, PowerOnKeeps
<1>2. CASE BootMedia
  <2>1. PICK media \in MediaLines : PowerOn(media)
    BY <1>2 DEF BootMedia
  <2>2. request' = None /\ line' = media
    BY <1>2, <2>1 DEF BootMedia, PowerOn
  <2>3. LineHolds'
    BY <2>2, LineAssumption DEF LineHolds
  <2> QED
    BY <2>1, <2>2, <2>3, PowerOnKeeps
<1> QED
  BY <1>1, <1>2

\* A step that only moves pc, to a place before the mounts.
LEMMA MoveKeeps ==
  ASSUME IInv, pc \notin {"off", "switch", "up"},
         UNCHANGED <<boots, request, line, slabs, asked, blind, holds, exported,
                     root, mounted>>,
         \/ pc' = "held"
         \/ /\ pc = "init" /\ pc' = "slabs"
            /\ LocalDiskAllowed(params)
            /\ IsNetworkBoot(params) \/ params.slabs # <<>>
  PROVE  IInv'
<1>1. params' = params /\ Persistent' = Persistent /\ pc' \in {"held", "slabs"}
  BY SameLine
<1>2. mounted = {} /\ (pc' = "slabs" => slabs = <<>>)
  BY DEF IInv, InTurn
<1>3. TypeOK'
  BY <1>1 DEF IInv, TypeOK
<1>4. LineHolds'
  BY DEF IInv, LineHolds
<1>5. Checked' /\ InTurn'
  BY <1>1, <1>2 DEF Checked, InTurn, Past
<1>6. SlabsHold' /\ ExportsHold' /\ ApplianceIsFallback'
  BY <1>1 DEF SlabsHold, ExportsHold, ApplianceIsFallback, Started
<1>7. RootHolds' /\ VolumesHold'
  BY <1>1, <1>2 DEF IInv, RootHolds, VolumesHold
<1> QED
  BY <1>3, <1>4, <1>5, <1>6, <1>7 DEF IInv

LEMMA ProvenIs ==
  ASSUME Sound(params), NEW failed
  PROVE  /\ IsSeq(Proven(failed))
         /\ \A x : x \in ToSet(Proven(failed)) <=>
                     x \in ToSet(params.slabs) /\ IsSlab(x) /\ x \notin failed
<1> DEFINE named == params.slabs
           at == {i \in 1..Len(named) : IsSlab(named[i]) /\ named[i] \notin failed}
<1>1. Proven(failed) = Picked(named, at)
  BY DEF Proven
<1>2. IsSeq(named)
  BY DEF Sound
<1> HIDE DEF named
<1>3. \A i \in 1..Len(named) : i \in at <=> IsSlab(named[i]) /\ named[i] \notin failed
  OBVIOUS
<1> HIDE DEF at
<1>4. ToSet(named) = {named[i] : i \in 1..Len(named)}
  BY <1>2, SeqIs
<1>5. /\ IsSeq(Picked(named, at))
      /\ \A x : x \in ToSet(Picked(named, at)) <=>
                  \E i \in at \cap (1..Len(named)) : x = named[i]
  BY <1>2, PickedIs
<1> QED
  BY <1>1, <1>3, <1>4, <1>5 DEF named

\* resolve_slabs.
LEMMA ResolveKeeps ==
  ASSUME IInv, ResolveSlabs
  PROVE  IInv'
<1>0. /\ pc = "slabs" /\ pc' = "start"
      /\ UNCHANGED <<boots, request, line, holds, exported, root, mounted>>
  BY DEF ResolveSlabs
<1>1. params' = params /\ Persistent' = Persistent /\ Sound(params)
  BY <1>0, SameLine, ParamsSound DEF IInv
<1>2. mounted = {}
  BY <1>0 DEF IInv, InTurn
<1>3. /\ asked' \in BOOLEAN /\ blind' \subseteq Devices /\ IsSeq(slabs')
      /\ ToSet(slabs') \subseteq
           (ToSet(params.slabs) \cup {Appliance, NvmeUri(params), params.data_slab}) \ {None}
      /\ ~BoothostClaim(params) => slabs' = AllSlabs(params)
      /\ ApplianceIsFallback'
  <2>1. CASE ~BoothostClaim(params)
    <3>1. slabs' = AllSlabs(params) /\ UNCHANGED <<asked, blind>>
      BY <2>1 DEF ResolveSlabs
    <3>2. /\ IsSeq(AllSlabs(params))
          /\ ToSet(AllSlabs(params)) \subseteq
               (ToSet(params.slabs) \cup {NvmeUri(params), params.data_slab}) \ {None}
      BY <1>1, AllSlabsAre
    <3>3. ApplianceIsFallback'
      BY <1>1, <2>1 DEF ApplianceIsFallback
    <3>4. asked' \in BOOLEAN /\ blind' \subseteq Devices
      BY <3>1 DEF IInv, TypeOK
    <3> QED
      BY <3>1, <3>2, <3>3, <3>4
  <2>2. CASE BoothostClaim(params)
    <3>1. PICK b \in SUBSET Devices :
            /\ blind' = b
            /\ asked' = (Proven(b) = <<>>)
            /\ slabs' = WithDataSlab(params, IF Proven(b) = <<>> THEN <<Appliance>>
                                             ELSE Proven(b))
      BY <2>2 DEF ResolveSlabs
    <3> DEFINE local == Proven(b)
               base == IF local = <<>> THEN <<Appliance>> ELSE local
    <3>2. /\ IsSeq(local)
          /\ \A x : x \in ToSet(local) <=>
                      x \in ToSet(params.slabs) /\ IsSlab(x) /\ x \notin b
      BY <1>1, ProvenIs
    <3>3. asked' = (local = <<>>) /\ slabs' = WithDataSlab(params, base)
      BY <3>1
    <3> HIDE DEF local
    <3>4. local = <<>> <=> \A x \in ToSet(params.slabs) : ~(IsSlab(x) /\ x \notin b)
      BY <3>2, NoneIs
    <3>5. \A x \in ToSet(params.slabs) :
            ~(IsSlab(x) /\ x \notin b) <=> x \in Devices /\ (holds[x] # "slab" \/ x \in b)
      BY DEF IsSlab
    <3>6. asked' <=> \A d \in ToSet(params.slabs) :
                       d \in Devices /\ (holds[d] # "slab" \/ d \in b)
      BY <3>3, <3>4, <3>5
    <3>7. /\ IsSeq(base) /\ base # <<>>
          /\ ToSet(base) \subseteq ToSet(local) \cup {Appliance}
          /\ local = <<>> => base[1] = Appliance
          /\ local # <<>> => base = local
      <4>1. <<Appliance>> # <<>>
        OBVIOUS
      <4> QED
        BY <3>2, <4>1, OneIs
    <3>8. local # <<>> => base[1] \in ToSet(params.slabs)
      <4>1. ASSUME local # <<>> PROVE local[1] \in ToSet(local)
        <5>1. Len(local) \in Nat /\ Len(local) # 0 /\ ToSet(local) = {local[i] : i \in 1..Len(local)}
          BY <3>2, <4>1, SeqIs, NoneIs
        <5>2. 1 \in 1..Len(local)
          BY <5>1
        <5> QED
          BY <5>1, <5>2
      <4> QED
        BY <3>2, <3>7, <4>1
    <3> HIDE DEF base
    <3>9. /\ IsSeq(slabs') /\ slabs'[1] = base[1]
          /\ ToSet(slabs') \subseteq ToSet(base) \cup ({params.data_slab} \ {None})
      BY <3>3, <3>7, WithDataSlabIs
    <3>10. ToSet(slabs') \subseteq
             (ToSet(params.slabs) \cup {Appliance, NvmeUri(params), params.data_slab}) \ {None}
      <4>1. Appliance # None /\ None \notin ToSet(params.slabs)
        BY <1>1, StorageAssumption DEF Sound
      <4> QED
        BY <3>2, <3>7, <3>9, <4>1
    <3>11. \A d \in ToSet(slabs') \cap Devices :
             holds[d] = "slab" \/ d = params.data_slab
      <4>1. \A d \in ToSet(local) \cap Devices : holds[d] = "slab"
        BY <3>2 DEF IsSlab
      <4>2. Appliance \notin Devices
        BY StorageAssumption
      <4> QED
        BY <3>7, <3>9, <4>1, <4>2
    <3>12. /\ asked' => slabs'[1] = Appliance
           /\ ~asked' => slabs'[1] \in ToSet(params.slabs)
      BY <3>3, <3>7, <3>8, <3>9
    <3>13. ApplianceIsFallback'
      BY <1>0, <1>1, <3>1, <3>6, <3>11, <3>12 DEF ApplianceIsFallback
    <3>14. asked' \in BOOLEAN
      BY <3>3
    <3> QED
      BY <2>2, <3>1, <3>9, <3>10, <3>13, <3>14
  <2> QED
    BY <2>1, <2>2
<1>4. TypeOK'
  <2>1. \A i \in DOMAIN slabs' : slabs'[i] \in ToSet(slabs')
    BY DEF ToSet
  <2>2. \A i \in DOMAIN slabs' :
          slabs'[i] \in (ToSet(params'.slabs)
                          \cup {Appliance, NvmeUri(params'), params'.data_slab}) \ {None}
    BY <1>1, <1>3, <2>1
  <2>3. /\ pc' \in {"off", "init", "slabs", "start", "engine", "exports", "switch",
                    "up", "held"}
        /\ asked' \in BOOLEAN /\ blind' \subseteq Devices
    BY <1>0, <1>3
  <2> QED
    BY <1>0, <1>2, <2>2, <2>3 DEF IInv, TypeOK
<1>5. LineHolds'
  BY <1>0 DEF IInv, LineHolds
<1>6. Checked' /\ InTurn'
  BY <1>0, <1>1, <1>2 DEF IInv, Checked, InTurn, Past
<1>7. SlabsHold' /\ ExportsHold'
  BY <1>0, <1>1, <1>3 DEF SlabsHold, ExportsHold, Started
<1>8. RootHolds' /\ VolumesHold'
  BY <1>0, <1>1, <1>2 DEF IInv, RootHolds, VolumesHold
<1> QED
  BY <1>3, <1>4, <1>5, <1>6, <1>7, <1>8 DEF IInv

\* start_engine.
LEMMA StartKeeps ==
  ASSUME IInv, StartEngine
  PROVE  IInv'
<1>0. /\ pc = "start" /\ pc' = "engine" /\ exported' = ExportsOf(params)
      /\ UNCHANGED <<boots, request, line, slabs, asked, blind, holds, root, mounted>>
  BY DEF StartEngine, ExportsOf
<1>1. params' = params /\ Persistent' = Persistent /\ Sound(params)
  BY <1>0, SameLine, ParamsSound DEF IInv
<1>2. mounted = {}
  BY <1>0 DEF IInv, InTurn
<1>3. TypeOK'
  <2>1. DOMAIN exported' = 0..(Cardinality(DOMAIN exported') - 1)
    BY <1>0, <1>1, ExportsDomain
  <2> QED
    BY <1>0, <1>1, <1>2, <2>1 DEF IInv, TypeOK
<1>4. LineHolds'
  BY <1>0 DEF IInv, LineHolds
<1>5. Checked' /\ InTurn'
  BY <1>0, <1>1, <1>2 DEF IInv, Checked, InTurn, Past
<1>6. SlabsHold' /\ ExportsHold'
  BY <1>0, <1>1 DEF IInv, SlabsHold, ExportsHold
<1>7. RootHolds' /\ VolumesHold'
  BY <1>0, <1>1, <1>2 DEF IInv, RootHolds, VolumesHold
<1>8. ApplianceIsFallback'
  BY <1>0, <1>1 DEF IInv, ApplianceIsFallback
<1> QED
  BY <1>3, <1>4, <1>5, <1>6, <1>7, <1>8 DEF IInv

\* mount_root.
LEMMA MountRootKeeps ==
  ASSUME IInv, MountRoot
  PROVE  IInv'
<1>0. /\ pc = "engine" /\ pc' = "exports"
      /\ root' = IF Persistent THEN root ELSE FreshRoot
      /\ UNCHANGED <<boots, request, line, slabs, asked, blind, holds, exported, mounted>>
  BY DEF MountRoot
<1>1. params' = params /\ Persistent' = Persistent
  BY <1>0, SameLine
<1>2. mounted = {} /\ FreshRoot.fstab = <<>>
  BY <1>0 DEF IInv, InTurn, FreshRoot
<1>3. TypeOK'
  <2>1. \A i \in DOMAIN root'.fstab : root'.fstab[i].dev \in Nat
    BY <1>0, <1>2 DEF IInv, TypeOK
  <2> QED
    BY <1>0, <1>1, <2>1 DEF IInv, TypeOK
<1>4. LineHolds'
  BY <1>0 DEF IInv, LineHolds
<1>5. Checked' /\ InTurn'
  BY <1>0, <1>1, <1>2 DEF IInv, Checked, InTurn, Past
<1>6. SlabsHold' /\ ExportsHold'
  BY <1>0, <1>1 DEF IInv, SlabsHold, ExportsHold, Started
<1>7. RootHolds'
  BY <1>0, <1>1, <1>2, NoneIs DEF IInv, RootHolds
<1>8. VolumesHold'
  BY <1>0, <1>2 DEF VolumesHold
<1>9. ApplianceIsFallback'
  BY <1>0, <1>1 DEF IInv, ApplianceIsFallback, Started
<1> QED
  BY <1>3, <1>4, <1>5, <1>6, <1>7, <1>8, <1>9 DEF IInv

\* apply_exports and write_identity.
LEMMA ApplyKeeps ==
  ASSUME IInv, ApplyExports
  PROVE  IInv'
<1>0. /\ pc = "exports" /\ pc' = "switch"
      /\ UNCHANGED <<boots, request, line, slabs, asked, blind, holds, exported>>
  BY DEF ApplyExports
<1>1. params' = params /\ Persistent' = Persistent /\ Sound(params)
  BY <1>0, SameLine, ParamsSound DEF IInv
<1>2. exported = ExportsOf(params)
  BY <1>0 DEF IInv, ExportsHold, Started
<1> DEFINE plan == ExportPlan(params)
<1>3. /\ IsSeq(plan.fstab_writable) /\ IsSeq(plan.mount_map) /\ IsSeq(plan.image_store)
      /\ \A e \in ToSet(plan.fstab_writable) : Fits(params, e)
      /\ \A e \in ToSet(plan.mount_map) : Fits(params, e)
      /\ \A e \in ToSet(plan.image_store) : Fits(params, e)
  BY <1>1, PlanFits
<1>4. PICK present \in SUBSET (DOMAIN exported), name \in {params.hostname, None} :
        /\ mounted' = {[mnt |-> Appeared(plan.mount_map, present)[i].mnt,
                        volume |-> exported[Appeared(plan.mount_map, present)[i].dev]] :
                         i \in DOMAIN Appeared(plan.mount_map, present)}
        /\ root' = IF ~Writable THEN root
                   ELSE [fstab |-> root.fstab
                                    \o Appeared(plan.fstab_writable, present)
                                    \o Appeared(plan.image_store, present),
                         hostname |-> FirstOf(name, root.hostname)]
  BY DEF ApplyExports
<1> DEFINE mine == Appeared(plan.mount_map, present)
           f1 == Appeared(plan.fstab_writable, present)
           f2 == Appeared(plan.image_store, present)
           old == root.fstab
<1>5. /\ mounted' = {[mnt |-> mine[i].mnt, volume |-> exported[mine[i].dev]] :
                       i \in DOMAIN mine}
      /\ root' = IF ~Writable THEN root
                 ELSE [fstab |-> (old \o f1) \o f2,
                       hostname |-> FirstOf(name, root.hostname)]
  BY <1>4
<1>6. /\ IsSeq(mine) /\ \A e \in ToSet(mine) : Fits(params, e)
      /\ IsSeq(f1) /\ \A e \in ToSet(f1) : Fits(params, e)
      /\ IsSeq(f2) /\ \A e \in ToSet(f2) : Fits(params, e)
  <2> HIDE DEF plan
  <2> QED
    BY <1>3, AppearedIs
<1>7. IsSeq(old) /\ \A e \in ToSet(old) : e.dev \in Nat
  BY DEF IInv, RootHolds, TypeOK, ToSet
<1> HIDE DEF plan, mine, f1, f2, old
<1> DEFINE new == (old \o f1) \o f2
<1>8. IsSeq(new) /\ ToSet(new) = ToSet(old) \cup ToSet(f1) \cup ToSet(f2)
  <2>1. IsSeq(old \o f1) /\ ToSet(old \o f1) = ToSet(old) \cup ToSet(f1)
    BY <1>6, <1>7, ConcatIs, ConcatSet
  <2> QED
    BY <1>6, <2>1, ConcatIs, ConcatSet
<1> HIDE DEF new
<1>9. /\ root'.fstab = old \/ root'.fstab = new
      /\ root'.hostname = root.hostname \/ root'.hostname = FirstOf(name, root.hostname)
  BY <1>5 DEF old, new
<1>10. IsSeq(root'.fstab) /\ \A e \in ToSet(root'.fstab) : e.dev \in Nat
  BY <1>6, <1>7, <1>8, <1>9 DEF Fits
<1>11. \A m \in mounted' : /\ \E k \in DOMAIN exported : m.volume = exported[k]
                           /\ m.volume \in NamedOf(params, m.mnt)
  <2>1. \A i \in DOMAIN mine : mine[i] \in ToSet(mine)
    BY DEF ToSet
  <2>2. ASSUME NEW i \in DOMAIN mine
        PROVE  /\ mine[i].dev \in DOMAIN exported
               /\ exported[mine[i].dev] \in NamedOf(params, mine[i].mnt)
    BY <1>2, <1>6, <2>1 DEF Fits
  <2> QED
    BY <1>5, <2>2
<1>12. TypeOK'
  <2>1. \A i \in DOMAIN root'.fstab : root'.fstab[i].dev \in Nat
    BY <1>10 DEF ToSet
  <2>2. \A m \in mounted' : m.volume \in {exported[k] : k \in DOMAIN exported}
    BY <1>11
  <2> QED
    BY <1>0, <1>1, <2>1, <2>2 DEF IInv, TypeOK
<1>13. LineHolds'
  BY <1>0 DEF IInv, LineHolds
<1>14. Checked' /\ InTurn'
  BY <1>0, <1>1 DEF IInv, Checked, InTurn, Past
<1>15. SlabsHold' /\ ExportsHold'
  BY <1>0, <1>1 DEF IInv, SlabsHold, ExportsHold, Started
<1>16. RootHolds'
  <2>1. ASSUME ~Persistent
        PROVE  /\ root'.hostname \in {None, params.hostname}
               /\ \A e \in ToSet(root'.fstab) : Fits(params, e)
    <3>1. root = FreshRoot
      BY <1>0, <2>1 DEF IInv, RootHolds
    <3>2. old = <<>> /\ root.hostname = None
      BY <3>1 DEF old, FreshRoot
    <3>3. root'.hostname \in {None, params.hostname}
      BY <1>4, <1>9, <3>2 DEF FirstOf
    <3>4. ToSet(old) = {}
      BY <3>2, NoneIs
    <3> QED
      BY <1>6, <1>8, <1>9, <3>3, <3>4
  <2> QED
    BY <1>0, <1>1, <1>10, <2>1 DEF RootHolds
<1>17. VolumesHold'
  BY <1>1, <1>11 DEF VolumesHold
<1>18. ApplianceIsFallback'
  BY <1>0, <1>1 DEF IInv, ApplianceIsFallback, Started
<1> QED
  BY <1>12, <1>13, <1>14, <1>15, <1>16, <1>17, <1>18 DEF IInv

\* The system mounts its fstab.
LEMMA SystemKeeps ==
  ASSUME IInv, SystemMounts
  PROVE  IInv'
<1>0. /\ pc = "switch" /\ pc' = "up"
      /\ UNCHANGED <<boots, request, line, slabs, asked, blind, holds, exported, root>>
  BY DEF SystemMounts
<1>1. params' = params /\ Persistent' = Persistent
  BY <1>0, SameLine
<1>2. exported = ExportsOf(params)
  BY <1>0 DEF IInv, ExportsHold, Started
<1>3. ASSUME NEW m \in mounted', m \notin mounted
      PROVE  \E e \in ToSet(root.fstab) : /\ e.dev \in DOMAIN exported
                                          /\ m.mnt = e.mnt
                                          /\ m.volume = exported[e.dev]
  <2> DEFINE fstab == root.fstab
  <2>1. PICK i \in DOMAIN fstab :
          /\ fstab[i].dev \in DOMAIN exported
          /\ m = [mnt |-> fstab[i].mnt, volume |-> exported[fstab[i].dev]]
    BY <1>3 DEF SystemMounts
  <2>2. fstab[i] \in ToSet(fstab)
    BY DEF ToSet
  <2>3. m.mnt = fstab[i].mnt /\ m.volume = exported[fstab[i].dev]
    BY <2>1
  <2> QED
    BY <2>1, <2>2, <2>3
<1>4. TypeOK'
  <2>1. \A m \in mounted : m.volume \in {exported[k] : k \in DOMAIN exported}
    BY DEF IInv, TypeOK
  <2>2. ASSUME NEW m \in mounted' PROVE m.volume \in {exported[k] : k \in DOMAIN exported}
    <3>1. CASE m \in mounted
      BY <2>1, <3>1
    <3>2. CASE m \notin mounted
      BY <1>3, <3>2
    <3> QED
      BY <3>1, <3>2
  <2> QED
    BY <1>0, <1>1, <2>2 DEF IInv, TypeOK
<1>5. LineHolds'
  BY <1>0 DEF IInv, LineHolds
<1>6. Checked' /\ InTurn'
  BY <1>0, <1>1 DEF IInv, Checked, InTurn, Past
<1>7. SlabsHold' /\ ExportsHold'
  BY <1>0, <1>1 DEF IInv, SlabsHold, ExportsHold, Started
<1>8. RootHolds'
  BY <1>0, <1>1 DEF IInv, RootHolds
<1>9. VolumesHold'
  <2>1. ASSUME ~Persistent, NEW m \in mounted' PROVE m.volume \in NamedOf(params, m.mnt)
    <3>1. CASE m \in mounted
      BY <2>1, <3>1 DEF IInv, VolumesHold
    <3>2. CASE m \notin mounted
      <4>1. PICK e \in ToSet(root.fstab) : m.mnt = e.mnt /\ m.volume = exported[e.dev]
        BY <1>3, <3>2
      <4>2. Fits(params, e)
        BY <1>0, <2>1, <4>1 DEF IInv, RootHolds
      <4> QED
        BY <1>2, <4>1, <4>2 DEF Fits
    <3> QED
      BY <3>1, <3>2
  <2> QED
    BY <1>0, <1>1, <2>1 DEF VolumesHold
<1>10. ApplianceIsFallback'
  BY <1>0, <1>1 DEF IInv, ApplianceIsFallback, Started
<1> QED
  BY <1>4, <1>5, <1>6, <1>7, <1>8, <1>9, <1>10 DEF IInv

\* The local disk becomes a slab.
LEMMA FlowKeeps ==
  ASSUME IInv, FlowCompletes
  PROVE  IInv'
<1>0. /\ Started
      /\ UNCHANGED <<pc, boots, request, line, slabs, asked, blind, exported, root, mounted>>
  BY DEF FlowCompletes
<1>1. params' = params /\ Persistent' = Persistent /\ pc # "start"
  BY <1>0, SameLine DEF Started
<1>2. /\ holds' \in [Devices -> {"slab", "other", "absent"}]
      /\ \A d \in Devices : holds[d] = "slab" => holds'[d] = "slab"
  BY DEF FlowCompletes, IInv, TypeOK
<1>3. TypeOK'
  BY <1>0, <1>1, <1>2 DEF IInv, TypeOK
<1>4. LineHolds'
  BY <1>0 DEF IInv, LineHolds
<1>5. Checked' /\ InTurn' /\ SlabsHold' /\ ExportsHold'
  BY <1>0, <1>1 DEF IInv, Checked, InTurn, SlabsHold, ExportsHold, Started
<1>6. RootHolds' /\ VolumesHold'
  BY <1>0, <1>1 DEF IInv, RootHolds, VolumesHold
<1>7. ApplianceIsFallback'
  BY <1>0, <1>1, <1>2 DEF IInv, ApplianceIsFallback, Started
<1> QED
  BY <1>3, <1>4, <1>5, <1>6, <1>7 DEF IInv

LEMMA PowerOffKeeps ==
  ASSUME IInv, PowerOff
  PROVE  IInv'
<1>0. /\ pc' = "off" /\ mounted' = {} /\ slabs' = <<>> /\ asked' = FALSE
      /\ blind' = {} /\ request' = None /\ exported' = [k \in {0} |-> None]
      /\ UNCHANGED <<boots, line, holds, root>>
  BY DEF PowerOff
<1>1. params' = params
  BY <1>0, SameLine
<1>2. TypeOK'
  <2>1. DOMAIN exported' = {0}
    BY <1>0
  <2>2. DOMAIN exported' = 0..(Cardinality(DOMAIN exported') - 1)
    BY <2>1, OnlyRoot
  <2>3. DOMAIN slabs' = {}
    BY <1>0
  <2> QED
    BY <1>0, <2>2, <2>3 DEF IInv, TypeOK
<1>3. LineHolds'
  BY <1>0 DEF IInv, LineHolds
<1>4. Checked' /\ InTurn' /\ SlabsHold' /\ ExportsHold' /\ ApplianceIsFallback'
  BY <1>0 DEF Checked, InTurn, SlabsHold, ExportsHold, ApplianceIsFallback,
       Started, Past
<1>5. RootHolds' /\ VolumesHold'
  BY <1>0 DEF IInv, RootHolds, VolumesHold
<1> QED
  BY <1>2, <1>3, <1>4, <1>5 DEF IInv

\* The invariant is inductive.
LEMMA NextIInv ==
  ASSUME IInv, [Next]_vars
  PROVE  IInv'
<1>1. CASE UNCHANGED vars
  <2>1. params' = params /\ Persistent' = Persistent
    BY <1>1, SameLine DEF vars
  <2>2. TypeOK' /\ LineHolds'
    BY <1>1, <2>1 DEF vars, IInv, TypeOK, LineHolds
  <2>3. Checked' /\ InTurn' /\ SlabsHold' /\ ExportsHold'
    BY <1>1, <2>1 DEF vars, IInv, Checked, InTurn, SlabsHold, ExportsHold, Started
  <2>4. RootHolds' /\ VolumesHold'
    BY <1>1, <2>1 DEF vars, IInv, RootHolds, VolumesHold
  <2>5. ApplianceIsFallback'
    BY <1>1, <2>1 DEF vars, IInv, ApplianceIsFallback, Started
  <2> QED
    BY <2>2, <2>3, <2>4, <2>5 DEF IInv
<1>2. CASE Prepare \/ Refuse \/ BootClaimFails \/ BootFails
  BY <1>2, MoveKeeps DEF Prepare, Refuse, BootClaimFails, BootFails, Held
<1> QED
  BY <1>1, <1>2, BootKeeps, ResolveKeeps, StartKeeps, MountRootKeeps, ApplyKeeps,
     SystemKeeps, FlowKeeps, PowerOffKeeps DEF Next

LEMMA Inductive == Spec => []IInv
BY InitIInv, NextIInv, PTL DEF Spec

-----------------------------------------------------------------------------
\* Every variable keeps its type: nothing is handed to the engine as a slab
\* that neither the line names nor the appliance answered.
THEOREM Types == Spec => []TypeOK
<1>1. IInv => TypeOK
  BY DEF IInv
<1> QED
  BY <1>1, Inductive, PTL

\* resolve_slabs, for any devices that come, go and fail their probes: the
\* appliance is asked if and only if no named slab proves to be one, and no
\* device becomes the root that is not a slab.
THEOREM Fallback == Spec => []ApplianceIsFallback
<1>1. IInv => ApplianceIsFallback
  BY DEF IInv
<1> QED
  BY <1>1, Inductive, PTL

\* check_local_disk: the engine never flows over onto the disk of the data
\* slab, for all disks and partitions of the sd, vd, hd, xvd, nvme, mmcblk and
\* loop families; nothing is said of the other numbered ones.
THEOREM Spared == Spec => []DataSlabSpared
<1>1. IInv => DataSlabSpared
  <2> SUFFICES ASSUME IInv, Started, params.local_disk # None,
                      params.data_slab # None,
                      SameDisk(params.local_disk, params.data_slab),
                      Lettered(params.data_slab) \/ KeepsDigits(params.data_slab)
               PROVE  FALSE
    BY DEF DataSlabSpared
  <2>1. WellFormed(line) /\ LocalDiskAllowed(params)
    BY DEF IInv, LineHolds, Checked, Started, Past
  <2>2. /\ params.local_disk = Value(line, "rd.stormblock.local-disk")
        /\ params.data_slab = Value(line, "rd.stormblock.data-slab")
    BY DEF params, Parse
  <2>3. IsDisk(params.local_disk) /\ IsDisk(params.data_slab)
    BY <2>1, <2>2, DisksAre
  <2>4. DeviceBase(params.local_disk) = DeviceBase(params.data_slab)
    BY <2>3, SameBase
  <2> QED
    BY <2>1, <2>4 DEF LocalDiskAllowed
<1> QED
  BY <1>1, Inductive, PTL

\* On a root that is not kept between boots, what is mounted at a place is a
\* volume that this boot's line names for it: export_plan numbers the volumes
\* as the engine does, for lists of any length, with an image store or without.
THEOREM WhereNamed == Spec => [](~Persistent => VolumesWhereNamed)
<1>1. IInv => (~Persistent => VolumesWhereNamed)
  <2>1. \A mnt : NamedFor(mnt) = NamedOf(params, mnt)
    BY DEF NamedFor, NamedOf
  <2> QED
    BY <2>1 DEF IInv, VolumesHold, VolumesWhereNamed
<1> QED
  BY <1>1, Inductive, PTL

\* Of a line that a server rendered, unless the operator's tokens name a key
\* of the root, all that init reads of the root is the claim.
LEMMA ClaimArrives ==
  ASSUME LineHolds, request # None, ~Overridden
  PROVE  LET claim == request.claim
             uri == NvmeUri(params)
         IN  /\ params.slabs = <<>> /\ ~BoothostClaim(params)
             /\ uri # None => claim # None
             /\ claim # None =>
                  /\ params.volume = claim.volume
                  /\ uri # None =>
                       uri = [portal |-> claim.address, port |-> claim.port,
                              nqn |-> claim.target,
                              nsid |-> IF claim.nsid = None THEN 1 ELSE claim.nsid]
<1> DEFINE cfg == request.cfg
           rec == request.rec
           claim == request.claim
           tokens == RootTokens(cfg, rec, claim)
           disk == Given("rd.stormblock.local-disk", cfg.local_disk)
<1>1. /\ WellFormed(line) /\ cfg \in Configs /\ rec \in Recs
      /\ claim \in Claims \cup {None}
      /\ line = Render(cfg, rec, claim)
  BY DEF LineHolds
<1>2. Extra = OfOperator(cfg, rec)
  BY DEF Extra, OfOperator
<1> HIDE DEF cfg, rec, claim
<1>3. \A key \in RootKeys : Value(Extra, key) = None
  <2>1. WellFormed(Extra)
    BY <1>1, <1>2, OperatorLine
  <2>2. DOMAIN Extra = 1..Len(Extra)
    BY <2>1, SeqIs DEF WellFormed
  <2>3. \A i \in 1..Len(Extra) : Extra[i].key \notin RootKeys
    BY <2>2 DEF Overridden
  <2>4. \A key \in RootKeys : \A i \in 1..Len(Extra) : ~Tells(Extra[i], key)
    BY <2>3 DEF Tells
  <2> HIDE DEF Extra
  <2> QED
    BY <2>1, <2>4, ValueIsNone
<1>4. \A key \in RootKeys : Value(line, key) = Value(tokens, key)
  <2>1. \A key \in RootKeys : key # "rd.stormblock.local-disk"
                              /\ key \notin {"storm.hostname", "storm.role"}
    BY DEF RootKeys
  <2>2. \A key \in RootKeys : Value(disk, key) = None /\ Value(OfRecord(rec), key) = None
    BY <1>1, <2>1, DiskLine, RecordLine
  <2>3. \A key : Value(line, key) =
                   FirstOf(Value(OfOperator(cfg, rec), key),
                     FirstOf(Value(OfRecord(rec), key),
                       FirstOf(Value(disk, key), Value(tokens, key))))
    BY <1>1, RenderIs
  <2> HIDE DEF tokens, disk
  <2> QED
    BY <1>2, <1>3, <2>2, <2>3 DEF FirstOf
<1>5. /\ Value(tokens, "rd.stormblock.slab") = None
      /\ Value(tokens, "rd.stormblock.boothost") = None
      /\ claim = None => Value(tokens, "rd.stormblock.nqn") = None
      /\ claim # None =>
           /\ Value(tokens, "rd.stormblock.portal") = claim.address
           /\ Value(tokens, "rd.stormblock.port") = claim.port
           /\ Value(tokens, "rd.stormblock.nqn") = claim.target
           /\ Value(tokens, "rd.stormblock.nsid") = claim.nsid
           /\ Value(tokens, "stormblock.volume") = claim.volume
  BY <1>1, RootTokensIs
<1> HIDE DEF tokens
<1>6. /\ Value(line, "rd.stormblock.slab") = None
      /\ Value(line, "rd.stormblock.boothost") = None
      /\ claim = None => Value(line, "rd.stormblock.nqn") = None
      /\ claim # None =>
           /\ Value(line, "rd.stormblock.portal") = claim.address
           /\ Value(line, "rd.stormblock.port") = claim.port
           /\ Value(line, "rd.stormblock.nqn") = claim.target
           /\ Value(line, "rd.stormblock.nsid") = claim.nsid
           /\ Value(line, "stormblock.volume") = claim.volume
  BY <1>4, <1>5 DEF RootKeys
<1>7. /\ params.slabs = Slabs(line)
      /\ params.boothost = Value(line, "rd.stormblock.boothost")
      /\ params.portal = Value(line, "rd.stormblock.portal")
      /\ params.nqn = Value(line, "rd.stormblock.nqn")
      /\ params.volume = Value(line, "stormblock.volume")
  BY DEF params, Parse
<1>8. /\ params.port = Number(Value(line, "rd.stormblock.port"), 0..(2^16 - 1))
      /\ params.nsid = Number(Value(line, "rd.stormblock.nsid"), Nat)
  BY DEF params, Parse
<1>9. params.slabs = <<>> /\ ~BoothostClaim(params)
  BY <1>1, <1>6, <1>7, SlabsAre DEF BoothostClaim
<1>10. NvmeUri(params) # None => claim # None
  BY <1>6, <1>7 DEF NvmeUri
<1>11. claim # None => params.port = claim.port /\ params.nsid = claim.nsid
  <2>1. claim # None => claim.port \in 0..(2^16 - 1) /\ claim.nsid \in Nat \cup {None}
    BY <1>1, LineAssumption
  <2>2. \A n \in 0..(2^16 - 1) : n \in Int
    OBVIOUS
  <2>3. None \notin Int
    BY StorageAssumption
  <2> DEFINE ports == 0..(2^16 - 1)
  <2>4. /\ params.port = Number(Value(line, "rd.stormblock.port"), ports)
        /\ claim # None => claim.port \in ports /\ claim.port # None
    BY <1>8, <2>1, <2>2, <2>3
  <2> HIDE DEF ports
  <2>5. claim # None => params.port = claim.port
    BY <1>6, <2>4 DEF Number
  <2>6. claim # None => params.nsid = claim.nsid
    BY <1>6, <1>8, <2>1, <2>3 DEF Number
  <2> QED
    BY <2>5, <2>6
<1>12. claim # None => params.volume = claim.volume /\ params.portal = claim.address
                       /\ params.nqn = claim.target
  BY <1>6, <1>7
<1> HIDE DEF params
<1>13. ASSUME claim # None, NvmeUri(params) # None
       PROVE  NvmeUri(params) =
                [portal |-> claim.address, port |-> claim.port, nqn |-> claim.target,
                 nsid |-> IF claim.nsid = None THEN 1 ELSE claim.nsid]
  BY <1>11, <1>12, <1>13 DEF NvmeUri
<1> QED
  BY <1>9, <1>10, <1>12, <1>13 DEF claim

\* cmdline of ipxe.rs and BootParams::parse of the init agree: for every
\* configuration, record and claim, and whatever tokens the operator adds, a
\* root that the operator does not name is the one claimed for this boot, and
\* the name a node gets is the one of its record or of the operator.
THEOREM Arrives == Spec => []ScriptArrives
<1>1. IInv => ScriptArrives
  <2> SUFFICES ASSUME IInv, Started, request # None
               PROVE  ScriptArrives
    BY DEF ScriptArrives
  <2>1. ASSUME ~Overridden
        PROVE  /\ request.claim # None
               /\ slabs[1] = [portal |-> request.claim.address,
                              port |-> request.claim.port,
                              nqn |-> request.claim.target,
                              nsid |-> IF request.claim.nsid = None THEN 1
                                       ELSE request.claim.nsid]
               /\ params.volume = request.claim.volume
    <3> DEFINE claim == request.claim
               uri == NvmeUri(params)
               claimed == [portal |-> claim.address, port |-> claim.port,
                           nqn |-> claim.target,
                           nsid |-> IF claim.nsid = None THEN 1 ELSE claim.nsid]
    <3>1. LineHolds
      BY DEF IInv
    <3>2. /\ params.slabs = <<>> /\ ~BoothostClaim(params)
          /\ uri # None => claim # None
          /\ claim # None => /\ params.volume = claim.volume
                             /\ uri # None => uri = claimed
      BY <2>1, <3>1, ClaimArrives
    <3>3. pc \in Past
      BY DEF Started, Past
    <3>4. IsNetworkBoot(params) \/ params.slabs # <<>>
      BY <3>3 DEF IInv, Checked
    <3>5. uri # None
      BY <3>2, <3>4 DEF IsNetworkBoot
    <3>6. slabs = AllSlabs(params)
      BY <3>2 DEF IInv, SlabsHold
    <3>7. slabs[1] = uri
      BY <3>1, <3>5, <3>6, ParamsSound, AllSlabsAre
    <3> QED
      BY <3>2, <3>5, <3>7
  <2>2. ASSUME pc \in {"switch", "up"}, ~Persistent, root.hostname # None
        PROVE  root.hostname = FirstOf(Value(Extra, "storm.hostname"),
                                       IF request.rec = None THEN None
                                       ELSE request.rec.name)
    <3> DEFINE cfg == request.cfg
               rec == request.rec
               claim == request.claim
               disk == Given("rd.stormblock.local-disk", cfg.local_disk)
               tokens == RootTokens(cfg, rec, claim)
               key == "storm.hostname"
    <3>1. root.hostname = params.hostname
      BY <2>2 DEF IInv, RootHolds
    <3>2. params.hostname = Value(line, key)
      BY DEF params, Parse
    <3>3. /\ cfg \in Configs /\ rec \in Recs /\ claim \in Claims \cup {None}
          /\ line = Render(cfg, rec, claim)
      BY DEF IInv, LineHolds
    <3>4. Extra = OfOperator(cfg, rec)
      BY DEF Extra, OfOperator
    <3> HIDE DEF cfg, rec, claim
    <3>5. Value(line, key) = FirstOf(Value(OfOperator(cfg, rec), key),
                               FirstOf(Value(OfRecord(rec), key),
                                 FirstOf(Value(disk, key), Value(tokens, key))))
      BY <3>3, RenderIs
    <3>6. Value(OfRecord(rec), key) = IF rec = None THEN None ELSE rec.name
      BY <3>3, RecordLine
    <3>7. Value(disk, key) = None
      BY <3>3, DiskLine
    <3>8. Value(tokens, key) = None
      BY <3>3, RootTokensIs
    <3> HIDE DEF disk, tokens, key
    <3>9. Value(line, key) = FirstOf(Value(Extra, key), IF rec = None THEN None ELSE rec.name)
      BY <3>4, <3>5, <3>6, <3>7, <3>8 DEF FirstOf
    <3> QED
      BY <3>1, <3>2, <3>9 DEF rec, key
  <2> QED
    BY <2>1, <2>2 DEF ScriptArrives
<1> QED
  BY <1>1, Inductive, PTL
=============================================================================
