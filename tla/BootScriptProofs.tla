-------------------------- MODULE BootScriptProofs --------------------------
(***************************************************************************)
(* Proofs about BootScript, for any set of machines, any number of         *)
(* requests in flight, either setting of claims and unknown hosts, and any *)
(* number of clones.                                                       *)
(*                                                                         *)
(* Neither property is inductive: a script is handed out several awaits    *)
(* after its clone was found or made.  IInv adds what a request may rely   *)
(* on meanwhile: the one that calls the registry holds the mutex and its   *)
(* machine has no claim, and the clone that a request carries is the one   *)
(* in the cache, minted for its machine.                                   *)
(***************************************************************************)
EXTENDS BootScript, SequenceTheorems, TLAPS

-----------------------------------------------------------------------------
\* The request that waits for the registry holds the mutex, nobody else
\* does, and there is still no claim for its machine.
CallerHoldsLock ==
  \A r \in Req :
    /\ req[r].pc = "claiming" => lock = r /\ Cached(req[r].mac) = None
    /\ lock = r => req[r].pc = "claiming"

\* c is one of all the clones, minted for mac.
MintedFor(all, c, mac) == c \in 1..Len(all) /\ all[c].consumer = mac

\* A cached claim is a clone that was minted for its machine.
CacheIsMinted == \A m \in Mac : claims[m] # None => MintedFor(clones, claims[m], m)

\* A request carries the claim of its machine, and nothing before it has it.
CarriesItsClaim ==
  \A r \in Req : req[r].clone # None =>
    /\ req[r].pc = "rendering"
    /\ MintedFor(clones, req[r].clone, req[r].mac)
    /\ req[r].mac # None => claims[req[r].mac] = req[r].clone

\* What scripts have named was minted for the machine it was given to.
HandedIsMinted ==
  \A p \in handed : p[2] # None => MintedFor(clones, p[2], p[1])

IInv ==
  /\ TypeOK
  /\ CallerHoldsLock
  /\ CacheIsMinted
  /\ CarriesItsClaim
  /\ HandedIsMinted
  /\ OneRootPerHost

-----------------------------------------------------------------------------
\* The tracker's map stays one through an observation.
LEMMA ObservedType ==
  ASSUME NEW h \in Boot!HostMap, NEW mac \in Mac, NEW phase \in Boot!Phase,
         NEW g \in Boot!Observed(h, mac, phase)
  PROVE  g \in Boot!HostMap
<1>1. PICK room \in Boot!MakeRoom(h, mac) :
        g = [room EXCEPT ![mac] =
               IF room[mac] = None THEN Boot!NewHost(phase, FALSE)
               ELSE IF Boot!Moves(room[mac], phase)
                    THEN [room[mac] EXCEPT !.phase = phase, !.updated = 0]
                    ELSE room[mac]]
  BY DEF Boot!Observed
<1>2. Boot!DropFinished(h) \in Boot!HostMap
  BY DEF Boot!DropFinished, Boot!HostMap
<1>3. room \in Boot!HostMap
  BY <1>2 DEF Boot!MakeRoom, Boot!EvictFinished, Boot!HostMap
<1>4. Boot!NewHost(phase, FALSE) \in Boot!HostState
  BY DEF Boot!NewHost, Boot!HostState, Boot!Clock
<1>5. ASSUME NEW old \in Boot!HostState
      PROVE  [old EXCEPT !.phase = phase, !.updated = 0] \in Boot!HostState
  <2>1. 0 \in Boot!Clock
    BY DEF Boot!Clock
  <2>2. QED
    BY <2>1 DEF Boot!HostState
<1>6. room[mac] \in Boot!HostState \cup {None}
  BY <1>3 DEF Boot!HostMap
<1>7. QED
  BY <1>1, <1>3, <1>4, <1>5, <1>6 DEF Boot!HostMap

\* The same for the handlers, which skip it for a request without address.
LEMMA ObserveType ==
  ASSUME hosts \in Boot!HostMap, NEW mac \in Mac \cup {None},
         NEW phase \in Boot!Phase, Observe(mac, phase)
  PROVE  hosts' \in Boot!HostMap
BY ObservedType, BootScriptAssumption DEF Observe

\* Minting adds one clone at the end and leaves the others as they were.
LEMMA MintAdds ==
  ASSUME TypeOK, NEW r \in Req, Mint(r)
  PROVE  /\ clones' \in Seq(Clone) /\ Len(clones') <= MaxClones
         /\ Len(clones') = Len(clones) + 1
         /\ Len(clones') \in CloneId
         /\ \A c \in 1..Len(clones) : clones'[c] = clones[c]
         /\ clones'[Len(clones')].consumer = req[r].mac
<1> DEFINE new == [consumer |-> req[r].mac,
                   golden |-> IF req[r].stack = None THEN DefaultGolden
                              ELSE req[r].stack]
<1>1. req[r] \in Request /\ clones \in Seq(Clone)
  BY DEF TypeOK
<1>2. new \in Clone
  BY <1>1 DEF Clone, Request, Golden
<1>3. clones' = Append(clones, new) /\ Len(clones) < MaxClones
  BY DEF Mint
<1>4. Len(clones) \in Nat /\ new.consumer = req[r].mac
  BY <1>1, LenProperties
<1> HIDE DEF new
<1>5. /\ clones' \in Seq(Clone)
      /\ Len(clones') = Len(clones) + 1
      /\ \A c \in 1..Len(clones) : clones'[c] = clones[c]
      /\ clones'[Len(clones) + 1] = new
  BY <1>1, <1>2, <1>3, AppendProperties
<1>6. QED
  BY <1>3, <1>4, <1>5, BootScriptAssumption DEF CloneId

\* Whether or not the registry minted: the clones there were are still there.
LEMMA MayMintKeeps ==
  ASSUME TypeOK, NEW r \in Req, MayMint(r)
  PROVE  /\ clones' \in Seq(Clone) /\ Len(clones') <= MaxClones
         /\ \A c, m : MintedFor(clones, c, m) => MintedFor(clones', c, m)
<1>1. CASE Mint(r)
  <2>1. Len(clones) \in Nat
    BY LenProperties DEF TypeOK
  <2>2. QED
    BY <1>1, <2>1, MintAdds DEF MintedFor
<1>2. CASE UNCHANGED clones
  BY <1>2 DEF TypeOK, MintedFor
<1>3. QED
  BY <1>1, <1>2 DEF MayMint

-----------------------------------------------------------------------------
LEMMA InitIInv == Init => IInv
<1> SUFFICES ASSUME Init PROVE IInv
  OBVIOUS
<1>1. TypeOK
  BY EmptySeq, BootScriptAssumption
  DEF Init, TypeOK, Idle, Request, Boot!HostMap, CloneId
<1>2. CallerHoldsLock /\ CarriesItsClaim
  BY BootScriptAssumption DEF Init, CallerHoldsLock, CarriesItsClaim, Idle
<1>3. CacheIsMinted /\ HandedIsMinted /\ OneRootPerHost
  BY DEF Init, CacheIsMinted, HandedIsMinted, OneRootPerHost
<1>4. QED
  BY <1>1, <1>2, <1>3 DEF IInv

\* A request enters a free slot: it neither holds nor carries anything.
LEMMA ArriveKeeps ==
  ASSUME IInv, NEW r \in Req, NEW mac \in Mac \cup {None},
         NEW record \in lookup(mac), boot_script(r, mac, record)
  PROVE  IInv'
<1>1. hosts' \in Boot!HostMap
  <2>1. Boot!ScriptFetched \in Boot!Phase
    BY DEF Boot!ScriptFetched, Boot!Phase, Boot!Failed
  <2>2. QED
    BY <2>1, ObserveType DEF IInv, TypeOK, boot_script
<1> DEFINE slot == [Idle EXCEPT
                      !.pc = IF ClaimsEnabled THEN "locking" ELSE "rendering",
                      !.mac = mac,
                      !.stack = IF record = None THEN None ELSE record.stack]
<1>2. /\ slot \in Request /\ slot.pc # "claiming" /\ slot.clone = None
      /\ req' = [req EXCEPT ![r] = slot]
      /\ req[r].pc = "idle"
      /\ UNCHANGED <<claims, lock, clones, handed>>
  <2>1. (IF record = None THEN None ELSE record.stack) \in Stack \cup {None}
    BY DEF lookup, Record
  <2>2. (IF ClaimsEnabled THEN "locking" ELSE "rendering")
          \in {"locking", "rendering"}
    OBVIOUS
  <2>3. QED
    BY <2>1, <2>2 DEF boot_script, Idle, Request
<1> HIDE DEF slot
<1>3. TypeOK'
  BY <1>1, <1>2 DEF IInv, TypeOK
<1>4. CallerHoldsLock'
  BY <1>2 DEF IInv, TypeOK, CallerHoldsLock, Cached
<1>5. CarriesItsClaim'
  BY <1>2 DEF IInv, TypeOK, CarriesItsClaim
<1>6. CacheIsMinted' /\ HandedIsMinted' /\ OneRootPerHost'
  BY DEF IInv, boot_script, CacheIsMinted, HandedIsMinted, OneRootPerHost,
         MintedFor
<1>7. QED
  BY <1>3, <1>4, <1>5, <1>6 DEF IInv

\* The claim that is reused is the one in the cache.
LEMMA ReuseKeeps ==
  ASSUME IInv, NEW r \in Req, ReuseClaim(r)
  PROVE  IInv'
<1>1. /\ req[r] \in Request /\ req[r].mac \in Mac
      /\ Cached(req[r].mac) = claims[req[r].mac]
      /\ claims[req[r].mac] \in CloneId
  BY DEF IInv, TypeOK, ReuseClaim, Cached, Request
<1>2. /\ req' = [req EXCEPT ![r] = [req[r] EXCEPT !.pc = "rendering",
                                                 !.clone = claims[req[r].mac]]]
      /\ UNCHANGED <<hosts, claims, lock, clones, handed>>
  BY <1>1 DEF ReuseClaim, IInv, TypeOK
<1>3. TypeOK'
  BY <1>1, <1>2 DEF IInv, TypeOK, Request
<1>4. CallerHoldsLock'
  BY <1>1, <1>2 DEF IInv, TypeOK, CallerHoldsLock, ReuseClaim, Cached, Request
<1>5. CarriesItsClaim'
  BY <1>1, <1>2
  DEF IInv, TypeOK, CarriesItsClaim, CacheIsMinted, MintedFor, Request
<1>6. CacheIsMinted' /\ HandedIsMinted' /\ OneRootPerHost'
  BY <1>2 DEF IInv, CacheIsMinted, HandedIsMinted, OneRootPerHost, MintedFor
<1>7. QED
  BY <1>3, <1>4, <1>5, <1>6 DEF IInv

\* The caller takes the mutex, which nobody had.
LEMMA SendKeeps ==
  ASSUME IInv, NEW r \in Req, SendClaim(r)
  PROVE  IInv'
<1>1. req[r] \in Request /\ req[r].pc = "locking" /\ lock = None
  BY DEF IInv, TypeOK, SendClaim
<1>2. /\ req' = [req EXCEPT ![r] = [req[r] EXCEPT !.pc = "claiming"]]
      /\ lock' = r
      /\ UNCHANGED <<hosts, claims, clones, handed>>
  BY DEF SendClaim, IInv, TypeOK
<1>3. TypeOK'
  BY <1>1, <1>2 DEF IInv, TypeOK, Request
<1>4. CallerHoldsLock'
  <2>1. \A q \in Req : req[q].pc # "claiming"
    BY <1>1, BootScriptAssumption DEF IInv, CallerHoldsLock
  <2>2. Cached(req[r].mac) = None
    BY DEF SendClaim
  <2>3. QED
    BY <1>1, <1>2, <2>1, <2>2
    DEF IInv, TypeOK, CallerHoldsLock, Cached, Request
<1>5. CarriesItsClaim'
  BY <1>1, <1>2 DEF IInv, TypeOK, CarriesItsClaim, MintedFor, Request
<1>6. CacheIsMinted' /\ HandedIsMinted' /\ OneRootPerHost'
  BY <1>2 DEF IInv, CacheIsMinted, HandedIsMinted, OneRootPerHost, MintedFor
<1>7. QED
  BY <1>3, <1>4, <1>5, <1>6 DEF IInv

\* The answer: the machine had no claim, so no request carries another
\* clone for it and no script has named one.
LEMMA AnsweredKeeps ==
  ASSUME IInv, NEW r \in Req, ClaimAnswered(r)
  PROVE  IInv'
<1> DEFINE new == Len(clones')
           mac == req[r].mac
<1>1. /\ req[r] \in Request /\ req[r].pc = "claiming"
      /\ lock = r /\ Cached(mac) = None
  BY DEF IInv, TypeOK, ClaimAnswered, CallerHoldsLock
<1>2. TypeOK /\ Mint(r)
  BY DEF IInv, ClaimAnswered
<1>3. /\ clones' \in Seq(Clone) /\ Len(clones') <= MaxClones
      /\ Len(clones') = Len(clones) + 1
      /\ new \in CloneId
      /\ \A c \in 1..Len(clones) : clones'[c] = clones[c]
      /\ clones'[new].consumer = mac
  BY <1>2, MintAdds
<1>4. Len(clones) \in Nat
  BY LenProperties DEF IInv, TypeOK
<1>5. /\ MintedFor(clones', new, mac)
      /\ \A c, m : MintedFor(clones, c, m) => MintedFor(clones', c, m)
  BY <1>3, <1>4 DEF MintedFor
<1>6. /\ req' = [req EXCEPT ![r] = [req[r] EXCEPT !.pc = "rendering",
                                                 !.clone = new]]
      /\ claims' = IF mac = None THEN claims ELSE [claims EXCEPT ![mac] = new]
      /\ lock' = None
      /\ UNCHANGED <<hosts, handed>>
  BY <1>1 DEF ClaimAnswered, Released, IInv, TypeOK
<1>7. mac \in Mac \cup {None} /\ new # None
  BY <1>1, <1>3, BootScriptAssumption DEF Request, CloneId
<1>8. TypeOK'
  BY <1>1, <1>3, <1>6, <1>7 DEF IInv, TypeOK, Request
<1>9. CallerHoldsLock'
  <2>1. \A q \in Req : q # r => req[q].pc # "claiming"
    BY <1>1 DEF IInv, CallerHoldsLock
  <2>2. QED
    BY <1>1, <1>6, <2>1, BootScriptAssumption
    DEF IInv, TypeOK, CallerHoldsLock, Request
<1>10. mac # None => mac \in Mac /\ claims[mac] = None /\ claims'[mac] = new
  BY <1>1, <1>6, <1>7 DEF Cached, IInv, TypeOK
<1>11. \A m \in Mac : m # mac => claims'[m] = claims[m]
  BY <1>6, <1>7 DEF IInv, TypeOK
<1>12. mac = None => claims' = claims
  BY <1>6
<1> HIDE DEF new, mac
<1>13. CacheIsMinted'
  BY <1>5, <1>7, <1>10, <1>11, <1>12 DEF IInv, CacheIsMinted, MintedFor
<1>14. CarriesItsClaim'
  <2> SUFFICES ASSUME NEW q \in Req, req'[q].clone # None
               PROVE  /\ req'[q].pc = "rendering"
                      /\ MintedFor(clones', req'[q].clone, req'[q].mac)
                      /\ req'[q].mac # None =>
                           claims'[req'[q].mac] = req'[q].clone
    BY DEF CarriesItsClaim, MintedFor
  <2>1. CASE q = r
    <3>1. req'[r].pc = "rendering" /\ req'[r].clone = new /\ req'[r].mac = mac
      BY <1>1, <1>6 DEF IInv, TypeOK, Request, mac
    <3>2. QED
      BY <2>1, <3>1, <1>5, <1>10
  <2>2. CASE q # r
    <3>1. req'[q] = req[q] /\ req[q] \in Request
      BY <2>2, <1>6 DEF IInv, TypeOK
    <3>2. /\ req[q].pc = "rendering"
          /\ MintedFor(clones, req[q].clone, req[q].mac)
          /\ req[q].mac # None => claims[req[q].mac] = req[q].clone
      BY <3>1 DEF IInv, CarriesItsClaim
    <3>3. req[q].mac # None => req[q].mac \in Mac /\ req[q].mac # mac
      BY <3>1, <3>2, <1>10 DEF Request
    <3>4. QED
      BY <3>1, <3>2, <3>3, <1>5, <1>11
  <2>3. QED
    BY <2>1, <2>2
<1>15. HandedIsMinted'
  BY <1>5, <1>6 DEF IInv, HandedIsMinted, MintedFor
<1>16. OneRootPerHost'
  <2> SUFFICES ASSUME NEW p \in handed, p[1] # None, p[2] # None
               PROVE  claims'[p[1]] = p[2]
    BY <1>6 DEF OneRootPerHost
  <2>1. p[1] \in Mac /\ claims[p[1]] = p[2]
    BY DEF IInv, TypeOK, OneRootPerHost
  <2>2. p[1] # mac
    BY <2>1, <1>10
  <2>3. QED
    BY <2>1, <2>2, <1>11
<1>17. QED
  BY <1>8, <1>9, <1>13, <1>14, <1>15, <1>16 DEF IInv

\* A call that ends without a claim, in either way, gives up the mutex.
LEMMA GiveUpKeeps ==
  ASSUME IInv, NEW r \in Req, req[r].pc \in {"locking", "claiming"},
         MayMint(r), NEW slot \in Request,
         slot.pc \in {"failing", "idle"}, slot.clone = None,
         req' = [req EXCEPT ![r] = slot],
         lock' = Released(r),
         UNCHANGED <<hosts, claims, handed>>
  PROVE  IInv'
<1>1. /\ clones' \in Seq(Clone) /\ Len(clones') <= MaxClones
      /\ \A c, m : MintedFor(clones, c, m) => MintedFor(clones', c, m)
  BY MayMintKeeps DEF IInv
<1>2. lock' \in Req \cup {None}
  BY DEF Released, IInv, TypeOK
<1>3. TypeOK'
  BY <1>1, <1>2 DEF IInv, TypeOK
<1>4. CallerHoldsLock'
  <2> SUFFICES ASSUME NEW q \in Req
               PROVE  /\ req'[q].pc = "claiming" =>
                           lock' = q /\ (Cached(req[q].mac))' = None
                      /\ lock' = q => req'[q].pc = "claiming"
    BY DEF CallerHoldsLock, Cached
  <2>1. CASE q = r
    <3>1. req'[q] = slot
      BY <2>1 DEF IInv, TypeOK
    <3>2. lock' # r
      BY BootScriptAssumption DEF Released
    <3>3. QED
      BY <2>1, <3>1, <3>2
  <2>2. CASE q # r
    <3>1. req'[q] = req[q]
      BY <2>2 DEF IInv, TypeOK
    <3>2. lock = q <=> lock' = q
      BY <2>2, BootScriptAssumption DEF Released
    <3>3. QED
      BY <3>1, <3>2 DEF IInv, CallerHoldsLock, Cached
  <2>3. QED
    BY <2>1, <2>2
<1>5. CarriesItsClaim'
  BY <1>1 DEF IInv, TypeOK, CarriesItsClaim
<1>6. CacheIsMinted' /\ HandedIsMinted' /\ OneRootPerHost'
  BY <1>1 DEF IInv, CacheIsMinted, HandedIsMinted, OneRootPerHost
<1>7. QED
  BY <1>3, <1>4, <1>5, <1>6 DEF IInv

\* The script names the clone that the request carries.
LEMMA ScriptKeeps ==
  ASSUME IInv, NEW r \in Req, AnswerScript(r)
  PROVE  IInv'
<1>1. /\ req[r] \in Request /\ req[r].pc = "rendering"
      /\ req' = [req EXCEPT ![r] = Idle]
      /\ handed' = handed \cup {<<req[r].mac, req[r].clone>>}
      /\ UNCHANGED <<claims, lock, clones>>
  BY DEF IInv, TypeOK, AnswerScript
<1>2. /\ Idle \in Request /\ Idle.pc = "idle" /\ Idle.clone = None
  BY DEF Idle, Request
<1>3. hosts' \in Boot!HostMap
  <2>1. CASE req[r].mac = None \/ hosts[req[r].mac] = None
    BY <2>1 DEF AnswerScript, IInv, TypeOK
  <2>2. CASE req[r].mac # None /\ hosts[req[r].mac] # None
    <3> DEFINE mac == req[r].mac
    <3>1. PICK version \in Version \cup {hosts[mac].pallet_version} :
            hosts' = [hosts EXCEPT ![mac].pallet_version = version]
      BY <2>2 DEF AnswerScript
    <3>2. mac \in Mac /\ hosts[mac] \in Boot!HostState
      BY <1>1, <2>2 DEF Request, IInv, TypeOK, Boot!HostMap
    <3>3. version \in Version \cup {None}
      BY <3>1, <3>2 DEF Boot!HostState
    <3>4. [hosts[mac] EXCEPT !.pallet_version = version] \in Boot!HostState
      BY <3>2, <3>3 DEF Boot!HostState
    <3>5. QED
      BY <3>1, <3>2, <3>4 DEF IInv, TypeOK, Boot!HostMap
  <2>3. QED
    BY <2>1, <2>2
<1>4. TypeOK'
  BY <1>1, <1>2, <1>3 DEF IInv, TypeOK, Request
<1>5. CallerHoldsLock'
  BY <1>1, <1>2 DEF IInv, TypeOK, CallerHoldsLock, Cached
<1>6. CarriesItsClaim'
  BY <1>1, <1>2 DEF IInv, TypeOK, CarriesItsClaim
<1>7. HandedIsMinted' /\ OneRootPerHost'
  BY <1>1
  DEF IInv, CarriesItsClaim, HandedIsMinted, OneRootPerHost
<1>8. CacheIsMinted'
  BY <1>1 DEF IInv, CacheIsMinted
<1>9. QED
  BY <1>4, <1>5, <1>6, <1>7, <1>8 DEF IInv

\* The error arm only frees the slot and tells the tracker.
LEMMA FailureKeeps ==
  ASSUME IInv, NEW r \in Req, AnswerFailure(r)
  PROVE  IInv'
<1>1. /\ req[r] \in Request /\ req[r].pc = "failing"
      /\ req' = [req EXCEPT ![r] = Idle]
      /\ UNCHANGED <<claims, lock, clones, handed>>
  BY DEF IInv, TypeOK, AnswerFailure
<1>2. /\ Idle \in Request /\ Idle.pc = "idle" /\ Idle.clone = None
  BY DEF Idle, Request
<1>3. hosts' \in Boot!HostMap
  <2>1. Boot!Failed \in Boot!Phase
    BY DEF Boot!ScriptFetched, Boot!Phase, Boot!Failed
  <2>2. req[r].mac \in Mac \cup {None}
    BY <1>1 DEF Request
  <2>3. QED
    BY <2>1, <2>2, ObserveType DEF IInv, TypeOK, AnswerFailure
<1>4. TypeOK'
  BY <1>1, <1>2, <1>3 DEF IInv, TypeOK
<1>5. CallerHoldsLock'
  BY <1>1, <1>2 DEF IInv, TypeOK, CallerHoldsLock, Cached
<1>6. CarriesItsClaim'
  BY <1>1, <1>2 DEF IInv, TypeOK, CarriesItsClaim
<1>7. CacheIsMinted' /\ HandedIsMinted' /\ OneRootPerHost'
  BY <1>1 DEF IInv, CacheIsMinted, HandedIsMinted, OneRootPerHost
<1>8. QED
  BY <1>4, <1>5, <1>6, <1>7 DEF IInv

\* A restart forgets all that the invariant speaks of.
LEMMA RestartKeeps ==
  ASSUME IInv, Restart
  PROVE  IInv'
<1>1. Idle \in Request /\ Idle.pc = "idle" /\ Idle.clone = None
  BY DEF Idle, Request
<1>2. TypeOK'
  BY <1>1 DEF IInv, TypeOK, Restart, Boot!HostMap
<1>3. CallerHoldsLock' /\ CarriesItsClaim'
  BY <1>1, BootScriptAssumption DEF Restart, CallerHoldsLock, CarriesItsClaim
<1>4. CacheIsMinted' /\ HandedIsMinted' /\ OneRootPerHost'
  BY DEF Restart, CacheIsMinted, HandedIsMinted, OneRootPerHost
<1>5. QED
  BY <1>2, <1>3, <1>4 DEF IInv

LEMMA NextIInv == IInv /\ [Next]_vars => IInv'
<1> SUFFICES ASSUME IInv, [Next]_vars PROVE IInv'
  OBVIOUS
<1>0. Idle \in Request /\ Idle.pc = "idle" /\ Idle.clone = None
  BY DEF Idle, Request
<1>1. ASSUME NEW r \in Req, ClaimFails(r) PROVE IInv'
  <2> DEFINE slot == [req[r] EXCEPT !.pc = "failing"]
  <2>1. req[r] \in Request /\ req[r].clone = None
    BY <1>1 DEF IInv, TypeOK, ClaimFails, CarriesItsClaim
  <2>2. /\ slot \in Request /\ slot.pc = "failing" /\ slot.clone = None
        /\ req' = [req EXCEPT ![r] = slot]
    BY <1>1, <2>1 DEF ClaimFails, Request, IInv, TypeOK
  <2> HIDE DEF slot
  <2>3. QED
    BY <1>1, <2>2, GiveUpKeeps DEF ClaimFails
<1>2. ASSUME NEW r \in Req, Disconnect(r) PROVE IInv'
  <2>1. MayMint(r)
    BY <1>2 DEF Disconnect, MayMint
  <2>2. QED
    BY <1>0, <1>2, <2>1, GiveUpKeeps DEF Disconnect
<1>3. ASSUME UNCHANGED vars PROVE IInv'
  BY <1>3
  DEF vars, IInv, TypeOK, CallerHoldsLock, CacheIsMinted, CarriesItsClaim,
      HandedIsMinted, OneRootPerHost, Cached
<1>4. QED
  BY <1>1, <1>2, <1>3, ArriveKeeps, ReuseKeeps, SendKeeps, AnsweredKeeps,
     ScriptKeeps, FailureKeeps, RestartKeeps
  DEF Next, Handle

\* The inductive invariant of the boot script.
LEMMA Inductive == Spec => []IInv
BY InitIInv, NextIInv, PTL DEF Spec

-----------------------------------------------------------------------------
\* The request slots, the claim cache, the mutex and the tracker keep their
\* types through boot_script and claim_for.
THEOREM Types == Spec => []TypeOK
<1>1. IInv => TypeOK
  BY DEF IInv
<1>2. QED
  BY <1>1, Inductive, PTL

\* In one life of the server a machine is handed one root volume only, for
\* every number of overlapping, failing and abandoned requests: claim_for
\* holds the mutex from its look at the cache to its insertion.
THEOREM OneRoot == Spec => []OneRootPerHost
<1>1. IInv => OneRootPerHost
  BY DEF IInv
<1>2. QED
  BY <1>1, Inductive, PTL

\* No script names a volume that was claimed for another machine.
THEOREM OwnRoot == Spec => []NoSharedRoot
<1>1. IInv => NoSharedRoot
  BY DEF IInv, HandedIsMinted, MintedFor, NoSharedRoot
<1>2. QED
  BY <1>1, Inductive, PTL
=============================================================================
