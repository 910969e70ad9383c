----------------------------- MODULE BootScript -----------------------------
(***************************************************************************)
(* How a machine gets its boot script (crates/stormnetboot-server/src/     *)
(* http.rs, boot_script and claim_for; claims.rs): the request is admitted *)
(* by its host record, a root volume is claimed for it from sbregistry,    *)
(* and the script that names that volume is rendered.                      *)
(*                                                                         *)
(* Requests run concurrently and meet at the tokio mutex around the claim  *)
(* cache, which claim_for holds across the call to the registry.  The      *)
(* firmware may hang up, the registry may refuse, answer without attach    *)
(* details or answer too late, and the server may restart, between any two *)
(* steps.  Every step that touches the phase tracker goes through          *)
(* BootState.                                                              *)
(***************************************************************************)
EXTENDS Integers, Sequences

CONSTANTS Mac, None, MaxTracked, Version,
          Req,            \* slots for requests in flight on the boot surface
          Stack,          \* stacks a host record may name
          DefaultGolden,  \* --golden
          UnknownHosts,   \* --unknown-hosts: "allow" or "deny"
          ClaimsEnabled,  \* Config::claims_enabled()
          MaxClones       \* bound: clones the registry ever mints

ASSUME BootScriptAssumption ==
  /\ None \notin Mac \cup Req \cup Stack \cup Nat \cup {DefaultGolden}
  /\ MaxClones \in Nat
  /\ ClaimsEnabled \in BOOLEAN

VARIABLES hosts,    \* AppState.boot
          claims,   \* AppState.claims: the clone cached for each machine
          lock,     \* who holds the mutex around claims, or None
          req,      \* each request in flight
          clones,   \* what the registry has minted, in order: its clone ids
          handed    \* <<mac, clone>> named by a script in this server's life

vars == <<hosts, claims, lock, req, clones, handed>>

Boot == INSTANCE BootState WITH now <- 0, MaxClock <- 0

Record == [online : BOOLEAN, stack : Stack \cup {None}]
Golden == Stack \cup {DefaultGolden}
CloneId == 1..MaxClones
Clone == [consumer : Mac \cup {None}, golden : Golden]

Idle == [pc |-> "idle", mac |-> None, stack |-> None, clone |-> None]

Request == [pc : {"idle", "locking", "claiming", "failing", "rendering"},
            mac : Mac \cup {None},
            stack : Stack \cup {None},      \* record.stack, read on arrival
            clone : CloneId \cup {None}]    \* the claim, once there is one

TypeOK ==
  /\ hosts \in Boot!HostMap
  /\ claims \in [Mac -> CloneId \cup {None}]
  /\ lock \in Req \cup {None}
  /\ req \in [Req -> Request]
  /\ clones \in Seq(Clone) /\ Len(clones) <= MaxClones
  /\ handed \subseteq (Mac \cup {None}) \X (CloneId \cup {None})

Init ==
  /\ hosts = [m \in Mac |-> None]
  /\ claims = [m \in Mac |-> None]
  /\ lock = None
  /\ req = [r \in Req |-> Idle]
  /\ clones = <<>>
  /\ handed = {}

-----------------------------------------------------------------------------
(***************************************************************************)
(* What hosts.lookup(mac) may return.  Operators edit, add, park and       *)
(* delete records at any time and nothing else here reads them, so each    *)
(* lookup may find any record; a request that names no machine finds none. *)
(***************************************************************************)
lookup(mac) == IF mac = None THEN {None} ELSE Record \cup {None}

\* The two refusals: an unknown host under Deny, and a parked host.
Admitted(record) ==
  IF record = None THEN UnknownHosts = "allow" ELSE record.online

Observe(mac, phase) ==
  IF mac = None THEN UNCHANGED hosts
                ELSE hosts' \in Boot!Observed(hosts, mac, phase)

\* boot_script up to its first await.  A refused request changes nothing
\* that is modelled: it is answered at once and its slot stays idle.
boot_script(r, mac, record) ==
  /\ req[r].pc = "idle"
  /\ Admitted(record)
  /\ req' = [req EXCEPT ![r] =
       [Idle EXCEPT !.pc = IF ClaimsEnabled THEN "locking" ELSE "rendering",
                    !.mac = mac,
                    !.stack = IF record = None THEN None ELSE record.stack]]
  /\ Observe(mac, Boot!ScriptFetched)
  /\ UNCHANGED <<claims, lock, clones, handed>>

\* Dropping the guard, or the place in the queue for it.
Released(r) == IF lock = r THEN None ELSE lock

\* Mutant: any cached claim will do, whoever it was made for.
AnyCached(mac) ==
  IF mac # None /\ \E m \in Mac : claims[m] # None
  THEN claims[CHOOSE m \in Mac : claims[m] # None] ELSE None

\* claims.get(mac)
Cached(mac) == IF mac = None THEN None ELSE claims[mac]

\* claim_for with a claim already made: reuse it, whatever its golden.
ReuseClaim(r) ==
  /\ req[r].pc = "locking" /\ lock = None
  /\ Cached(req[r].mac) # None
  /\ req' = [req EXCEPT ![r].pc = "rendering", ![r].clone = Cached(req[r].mac)]
  /\ UNCHANGED <<hosts, claims, lock, clones, handed>>

\* Mutant: the guard is dropped before the registry is called.
SendClaimUnlocked(r) ==
  /\ req[r].pc = "locking" /\ lock = None
  /\ Cached(req[r].mac) = None
  /\ req' = [req EXCEPT ![r].pc = "claiming"]
  /\ UNCHANGED <<hosts, claims, lock, clones, handed>>

\* ClaimClient::claim posts and waits, still holding the lock.
SendClaim(r) ==
  /\ req[r].pc = "locking" /\ lock = None
  /\ Cached(req[r].mac) = None
  /\ req' = [req EXCEPT ![r].pc = "claiming"]
  /\ lock' = r
  /\ UNCHANGED <<hosts, claims, clones, handed>>

-----------------------------------------------------------------------------
(***************************************************************************)
(* sbregistry, seen from the claim call.  It mints a fresh clone for every *)
(* claim it accepts and is never asked to release one.  A call whose       *)
(* answer the server does not wait for may have minted a clone or not, and *)
(* since nobody ever learns its id, when it did makes no difference.       *)
(***************************************************************************)
Mint(r) ==
  /\ Len(clones) < MaxClones
  /\ clones' = Append(clones,
       [consumer |-> req[r].mac,
        golden |-> IF req[r].stack = None THEN DefaultGolden ELSE req[r].stack])

MayMint(r) == Mint(r) \/ UNCHANGED clones

\* Mutant: the clone's id is read before it is minted.
ClaimAnsweredEarly(r) ==
  /\ req[r].pc = "claiming"
  /\ Mint(r)
  /\ req' = [req EXCEPT ![r].pc = "rendering", ![r].clone = Len(clones)]
  /\ claims' = IF req[r].mac = None THEN claims
               ELSE [claims EXCEPT ![req[r].mac] = Len(clones)]
  /\ lock' = Released(r)
  /\ UNCHANGED <<hosts, handed>>

ClaimAnswered(r) ==
  /\ req[r].pc = "claiming"
  /\ Mint(r)
  /\ req' = [req EXCEPT ![r].pc = "rendering", ![r].clone = Len(clones')]
  /\ claims' = IF req[r].mac = None THEN claims
               ELSE [claims EXCEPT ![req[r].mac] = Len(clones')]
  /\ lock' = Released(r)
  /\ UNCHANGED <<hosts, handed>>

\* Mutant: the error path forgets the guard.
ClaimFailsLocked(r) ==
  /\ req[r].pc = "claiming"
  /\ MayMint(r)
  /\ req' = [req EXCEPT ![r].pc = "failing"]
  /\ UNCHANGED <<hosts, claims, lock, handed>>

\* A refusal, no answer within 30 s, or a clone without attach details.
ClaimFails(r) ==
  /\ req[r].pc = "claiming"
  /\ MayMint(r)
  /\ req' = [req EXCEPT ![r].pc = "failing"]
  /\ lock' = Released(r)
  /\ UNCHANGED <<hosts, claims, handed>>

\* The error arm of boot_script: Phase::Failed and a 503.
AnswerFailure(r) ==
  /\ req[r].pc = "failing"
  /\ req' = [req EXCEPT ![r] = Idle]
  /\ Observe(req[r].mac, Boot!Failed)
  /\ UNCHANGED <<claims, lock, clones, handed>>

\* The plan takes its portal and volume from the claim, and the tracker
\* learns the pallet version, if there is one to serve and an entry left.
AnswerScript(r) ==
  /\ req[r].pc = "rendering"
  /\ LET mac == req[r].mac
     IN  /\ handed' = handed \cup {<<mac, req[r].clone>>}
         /\ IF mac = None \/ hosts[mac] = None THEN UNCHANGED hosts
            ELSE \E version \in Version \cup {hosts[mac].pallet_version} :
                   hosts' = [hosts EXCEPT ![mac].pallet_version = version]
  /\ req' = [req EXCEPT ![r] = Idle]
  /\ UNCHANGED <<claims, lock, clones>>

\* The firmware hangs up and the server drops the handler at its await.
Disconnect(r) ==
  /\ req[r].pc \in {"locking", "claiming"}
  /\ IF req[r].pc = "claiming" THEN MayMint(r) ELSE UNCHANGED clones
  /\ req' = [req EXCEPT ![r] = Idle]
  /\ lock' = Released(r)
  /\ UNCHANGED <<hosts, claims, handed>>

-----------------------------------------------------------------------------
\* Everything here but the registry's clones is memory of the process.
\* Calls in progress end as in Disconnect first.
Restart ==
  /\ \A r \in Req : req[r].pc # "claiming"
  /\ hosts' = [m \in Mac |-> None]
  /\ claims' = [m \in Mac |-> None]
  /\ lock' = None
  /\ req' = [r \in Req |-> Idle]
  /\ handed' = {}
  /\ UNCHANGED clones

Handle(r) ==
  \/ ReuseClaim(r)
  \/ SendClaim(r)
  \/ ClaimAnswered(r)
  \/ ClaimFails(r)
  \/ AnswerFailure(r)
  \/ AnswerScript(r)

Next ==
  \/ \E r \in Req, mac \in Mac \cup {None} :
       \E record \in lookup(mac) : boot_script(r, mac, record)
  \/ \E r \in Req : Handle(r)
  \/ \E r \in Req : Disconnect(r)
  \/ Restart

Spec == Init /\ [][Next]_vars

\* A handler that can run is run by the tokio executor, and a call to the
\* registry ends because the HTTP client gives up after 30 s: weak fairness.
\* tokio's mutex is FIFO, so a request that keeps waiting for the lock gets
\* it even if others keep taking it: strong fairness.  Nothing is assumed of
\* firmware, operators or restarts.
FairSpec ==
  Spec /\ \A r \in Req : /\ WF_vars(Handle(r))
                         /\ SF_vars(ReuseClaim(r) \/ SendClaim(r))

-----------------------------------------------------------------------------
(***************************************************************************)
(* Properties.                                                             *)
(***************************************************************************)

\* In one life of the server a machine is only ever handed one root volume,
\* however its retries overlap, fail and hang up: the one in the cache.
OneRootPerHost ==
  \A p \in handed : p[1] # None /\ p[2] # None => claims[p[1]] = p[2]

\* No machine is handed a volume that was claimed for another one.
NoSharedRoot ==
  \A p \in handed : p[2] # None => clones[p[2]].consumer = p[1]

\* Every request that was let in is answered or hung up on: no error path,
\* disconnect or restart leaves the claims mutex held for ever.
EveryRequestEnds ==
  \A r \in Req : req[r].pc # "idle" ~> req[r].pc = "idle"
=============================================================================
