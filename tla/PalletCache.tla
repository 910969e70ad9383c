---------------------------- MODULE PalletCache ----------------------------
(***************************************************************************)
(* Boot pallet projection (crates/stormnetboot-server/src/pallet.rs, and   *)
(* initial_status and spawn_refresh_loop of main.rs): a background task    *)
(* follows a tag in the registry, checks the signature of the digest it    *)
(* finds there and copies the pallet's members, one after the other, into  *)
(* the directory that booting machines are served from.                    *)
(*                                                                         *)
(* Every await of the task ends an action: the tag may move, signatures    *)
(* may be attached, requests and local writes may begin to fail and the    *)
(* process may die in between.  The directory survives the process.  A     *)
(* file holds what was written to it for some digest, whole or torn, as    *)
(* the bytes which that pallet names or as others: a download is compared  *)
(* with its digest, the config blob with the inline members is not.        *)
(***************************************************************************)
EXTENDS Integers, Sequences

CONSTANTS Digest,            \* digests of the pallets the tag may name
          Pallet,            \* the digests that announce themselves as pallets
          Layers,            \* Layers[d]: the files of d, in manifest order
          Inline,            \* Inline[d]: the files carried in d's spec
          Other,             \* the files that a config blob which is not the
                             \* pallet's may carry: a set of sets
          Unsettled,         \* the digests whose signature may be missing, bad
                             \* or late; the others are signed
          RequireSignature,  \* ~ --allow-unsigned
          None

File == {"vmlinuz", "initramfs.img", "cmdline"}
RequiredAssets == {"vmlinuz", "initramfs.img"}

ASSUME PalletAssumption ==
  /\ Pallet \subseteq Digest /\ Unsettled \subseteq Digest
  /\ Layers \in [Digest -> Seq(File)]
  /\ Inline \in [Digest -> SUBSET File]
  /\ Other \subseteq SUBSET File
  /\ RequireSignature \in BOOLEAN
  /\ None \notin Digest

VARIABLES tag,      \* the digest pallet_ref resolves to, or None: external
          sig,      \* the state of each pallet's signature: external
          sound,    \* the registry answers, with the bytes that the digests
                    \* name, and the directory can be written: external.
                    \* Otherwise each request and each write may fail or not,
                    \* and an answer may hold other bytes
          cache,    \* the asset directory
          status,   \* AppState.assets
          serving,  \* initial_status has returned and the listeners are open
          task      \* the refresh in progress

vars == <<tag, sig, sound, cache, status, serving, task>>

\* What a file holds: the pallet whose refresh wrote it, from where, whether
\* the bytes are the ones that pallet's manifest names, whether all of them
\* are there, and whether the refresh had verified the signature.  All of it
\* is history: the code keeps nothing beside the bytes.
Content == [of : Digest, source : {"blob", "inline"}, own : BOOLEAN,
            whole : BOOLEAN, vouched : BOOLEAN]

ASSUME NoneAssumption == None \notin Content

AssetStatus == [ready : BOOLEAN, digest : Digest \cup {None},
                signature_verified : BOOLEAN]
Task == [pc : {"idle", "verify", "spec", "members", "temp", "rename", "inline"},
         digest : Digest \cup {None},
         verified : BOOLEAN,
         inline : SUBSET File,  \* what the spec carries, as it was read
         own : BOOLEAN,         \* history: it was the pallet's own spec
         next : Nat,            \* index of the layer to fetch
         temp : Content \cup {None}, \* the temporary file of that layer: what
                                \* an earlier refresh left there is truncated
         served : SUBSET File]

Idle == [pc |-> "idle", digest |-> None, verified |-> FALSE, inline |-> {},
         own |-> TRUE, next |-> 1, temp |-> None, served |-> {}]

NotReady == [ready |-> FALSE, digest |-> None, signature_verified |-> FALSE]

TypeOK ==
  /\ tag \in Digest \cup {None}
  /\ sig \in [Digest -> {"none", "good", "bad"}]
  /\ sound \in BOOLEAN
  /\ cache \in [File -> Content \cup {None}]
  /\ status \in AssetStatus
  /\ serving \in BOOLEAN
  /\ task \in Task
  /\ task.digest = None <=> task.pc = "idle"

Init ==
  /\ tag \in Digest \cup {None}
  /\ sig \in [Digest -> {"none", "good", "bad"}]
  /\ \A d \in Digest \ Unsettled : sig[d] = "good"
  /\ sound \in BOOLEAN
  /\ cache = [f \in File |-> None]
  /\ status = NotReady
  /\ serving = FALSE
  /\ task = Idle

External == <<tag, sig, sound>>

-----------------------------------------------------------------------------
\* cache_is_complete
CacheIsComplete == \A f \in RequiredAssets : cache[f] # None

\* Mutant: a failed refresh leaves its digest behind.
FailRefreshDirty ==
  /\ task' = [task EXCEPT !.pc = "idle"]
  /\ serving' = TRUE
  /\ status' = IF serving THEN status
               ELSE [NotReady EXCEPT !.ready = CacheIsComplete]

\* Mutant: every failed refresh, not only the first, resets the status.
FailRefreshResets ==
  /\ task' = Idle
  /\ serving' = TRUE
  /\ status' = [NotReady EXCEPT !.ready = CacheIsComplete]

\* A refresh that fails is dropped.  At startup the fallback is whatever a
\* previous run left behind; later the status stays as it was.
FailRefresh ==
  /\ task' = Idle
  /\ serving' = TRUE
  /\ status' = IF serving THEN status
               ELSE [NotReady EXCEPT !.ready = CacheIsComplete]

\* fetch_manifest finds the digest that is already served.  The status is
\* rewritten with signature_verified = true.
RefreshUnchanged ==
  /\ task.pc = "idle" /\ tag # None
  /\ tag = status.digest
  /\ status' = [ready |-> TRUE, digest |-> tag, signature_verified |-> TRUE]
  /\ UNCHANGED <<External, cache, serving, task>>

\* Mutant: a server that has a pallet does not look for another.
RefreshBeginsOnce ==
  /\ task.pc = "idle" /\ tag # None
  /\ status.digest = None
  /\ task' = [Idle EXCEPT !.pc = "verify", !.digest = tag]
  /\ UNCHANGED <<External, cache, status, serving>>

\* fetch_manifest finds another digest, or there is none served yet.
RefreshBegins ==
  /\ task.pc = "idle" /\ tag # None
  /\ tag # status.digest
  /\ task' = [Idle EXCEPT !.pc = "verify", !.digest = tag]
  /\ UNCHANGED <<External, cache, status, serving>>

\* What the referrers of d say.  A query that is answered with an error
\* counts as unsigned, and documents that are not the signature's as bad.
Seen(d) == IF sound THEN {sig[d]} ELSE {sig[d], "none", "bad"}

\* What verify_signature and the refusal of an unsigned pallet let through.
\* A signature that does not verify is an error even where none is required.
Acceptable(seen) == seen = "good" \/ (seen = "none" /\ ~RequireSignature)

VerifySignature ==
  /\ task.pc = "verify"
  /\ \E seen \in Seen(task.digest) :
       /\ Acceptable(seen)
       /\ task' = [task EXCEPT !.pc = "spec", !.verified = seen = "good"]
  /\ UNCHANGED <<External, cache, status, serving>>

RefuseSignature ==
  /\ task.pc = "verify"
  /\ \E seen \in Seen(task.digest) : ~Acceptable(seen)
  /\ FailRefresh
  /\ UNCHANGED <<External, cache>>

NotAPallet ==
  /\ task.pc = "spec" /\ task.digest \notin Pallet
  /\ FailRefresh
  /\ UNCHANGED <<External, cache>>

\* The config blob is fetched without a comparison with its digest.  It is
\* optional: one that cannot be fetched or parsed is taken for an empty spec,
\* and then the inline members have no source.
FetchSpec ==
  /\ task.pc = "spec" /\ task.digest \in Pallet
  /\ \/ task' = [task EXCEPT !.pc = "members", !.inline = Inline[task.digest]]
     \/ ~sound /\ task' = [task EXCEPT !.pc = "members"]
     \/ /\ ~sound
        /\ \E files \in Other :
             task' = [task EXCEPT !.pc = "members", !.inline = files, !.own = FALSE]
  /\ UNCHANGED <<External, cache, status, serving>>

-----------------------------------------------------------------------------
Layer == Layers[task.digest][task.next]

MoreLayers == task.next <= Len(Layers[task.digest])

\* A layer without inline text is a blob to fetch.
AtBlob == task.pc = "members" /\ MoreLayers /\ Layer \notin task.inline

AtInline == task.pc = "members" /\ MoreLayers /\ Layer \in task.inline

\* What a refresh writes: a download, which is its own, or inline text.
Download(own, whole) ==
  [of |-> task.digest, source |-> "blob", own |-> own, whole |-> whole,
   vouched |-> task.verified]

Text(whole) ==
  [of |-> task.digest, source |-> "inline", own |-> task.own, whole |-> whole,
   vouched |-> task.verified]

LayerDone == [task EXCEPT !.pc = "members", !.next = task.next + 1,
                          !.temp = None, !.served = task.served \cup {Layer}]

\* Mutant: the bytes are stored without a comparison with their digest.
FetchMemberUnchecked ==
  /\ AtBlob /\ Layer \notin Inline[task.digest]
  /\ \E own \in IF sound THEN {TRUE} ELSE BOOLEAN :
       task' = [task EXCEPT !.pc = "temp", !.temp = Download(own, FALSE)]
  /\ UNCHANGED <<External, cache, status, serving>>

\* fetch_member up to the opening of the temporary file: only the bytes that
\* the layer's digest and size name get there.
FetchMember ==
  /\ AtBlob /\ Layer \notin Inline[task.digest]
  /\ task' = [task EXCEPT !.pc = "temp", !.temp = Download(TRUE, FALSE)]
  /\ UNCHANGED <<External, cache, status, serving>>

\* The temporary file is written to its end.
WriteTemp ==
  /\ task.pc = "temp"
  /\ task' = [task EXCEPT !.pc = "rename", !.temp.whole = TRUE]
  /\ UNCHANGED <<External, cache, status, serving>>

\* Mutant: renamed as soon as the download has begun to be written.
RenameUnfinished ==
  /\ task.pc \in {"temp", "rename"}
  /\ cache' = [cache EXCEPT ![Layer] = task.temp]
  /\ task' = LayerDone
  /\ UNCHANGED <<External, status, serving>>

\* Mutant: a file that is there already is not replaced.
RenameOnce ==
  /\ task.pc = "rename"
  /\ cache' = [cache EXCEPT ![Layer] = IF cache[Layer] = None THEN task.temp ELSE @]
  /\ task' = LayerDone
  /\ UNCHANGED <<External, status, serving>>

\* The rename into the served directory.
RenameMember ==
  /\ task.pc = "rename"
  /\ cache' = [cache EXCEPT ![Layer] = task.temp]
  /\ task' = LayerDone
  /\ UNCHANGED <<External, status, serving>>

\* An inline member is written in place: truncated first, complete later.
WriteInline ==
  /\ AtInline
  /\ cache' = [cache EXCEPT ![Layer] = Text(FALSE)]
  /\ task' = [task EXCEPT !.pc = "inline"]
  /\ UNCHANGED <<External, status, serving>>

FinishInline ==
  /\ task.pc = "inline"
  /\ cache' = [cache EXCEPT ![Layer] = Text(TRUE)]
  /\ task' = LayerDone
  /\ UNCHANGED <<External, status, serving>>

\* Without the spec an inline member is asked for as the blob it is not.
InlineUnavailable ==
  /\ AtBlob /\ Layer \in Inline[task.digest]
  /\ FailRefresh
  /\ UNCHANGED <<External, cache>>

\* Mutant: nobody looks whether the pallet had a kernel and an initramfs.
RefreshSucceedsUnchecked ==
  /\ task.pc = "members" /\ ~MoreLayers
  /\ status' = [ready |-> TRUE, digest |-> task.digest,
                signature_verified |-> task.verified]
  /\ serving' = TRUE
  /\ task' = Idle
  /\ UNCHANGED <<External, cache>>

RefreshSucceeds ==
  /\ task.pc = "members" /\ ~MoreLayers
  /\ RequiredAssets \subseteq task.served
  /\ status' = [ready |-> TRUE, digest |-> task.digest,
                signature_verified |-> task.verified]
  /\ serving' = TRUE
  /\ task' = Idle
  /\ UNCHANGED <<External, cache>>

MissingMember ==
  /\ task.pc = "members" /\ ~MoreLayers
  /\ ~(RequiredAssets \subseteq task.served)
  /\ FailRefresh
  /\ UNCHANGED <<External, cache>>

\* An error anywhere: a request without an answer or with an error status,
\* bytes that do not match their digest or size, a directory that cannot be
\* created, a file that cannot be written or renamed.  An inline member that
\* was being written stays as it is.
StepFails ==
  /\ \/ ~sound
     \/ task.pc = "idle" /\ tag = None
  /\ task.pc = "members" => MoreLayers
  /\ FailRefresh
  /\ UNCHANGED <<External, cache>>

-----------------------------------------------------------------------------
\* The registry, its publishers and its signers.
RegistryChanges ==
  /\ \/ tag' \in Digest /\ UNCHANGED <<sig, sound>>
     \/ \E d \in Unsettled, s \in {"good", "bad"} :
          sig' = [sig EXCEPT ![d] = s] /\ UNCHANGED <<tag, sound>>
     \/ sound' = ~sound /\ UNCHANGED <<tag, sig>>
  /\ UNCHANGED <<cache, status, serving, task>>

\* The process dies and starts again, on the directory as it was left.
Restart ==
  /\ status' = NotReady
  /\ serving' = FALSE
  /\ task' = Idle
  /\ UNCHANGED <<External, cache>>

Refresh ==
  \/ RefreshUnchanged \/ RefreshBegins
  \/ VerifySignature \/ RefuseSignature
  \/ NotAPallet \/ FetchSpec
  \/ FetchMember \/ WriteTemp \/ RenameMember
  \/ WriteInline \/ FinishInline \/ InlineUnavailable
  \/ RefreshSucceeds \/ MissingMember \/ StepFails

Next == Refresh \/ RegistryChanges \/ Restart

Spec == Init /\ [][Next]_vars

\* The loop sleeps and calls refresh for ever, and each of its requests ends
\* in an answer or the client's timeout.
FairSpec == Spec /\ WF_vars(Refresh)

-----------------------------------------------------------------------------
(***************************************************************************)
(* Properties.                                                             *)
(***************************************************************************)

\* Where a signature is required, nothing is in the served directory that
\* was not written by a refresh past the signature check, and every file that
\* was downloaded holds the bytes its pallet names: whichever step a refresh
\* fails or dies at, whatever the registry answers, and whatever a later
\* start then finds there.
OnlyVouchedBytes ==
  \A f \in File : cache[f] # None =>
    /\ RequireSignature => cache[f].vouched
    /\ cache[f].source = "blob" => cache[f].own

\* "A torn download can never be handed to a booting machine": a file that is
\* not complete is an inline member, and not one of the pallet that the
\* server reports, whose members were finished before it was named and are
\* not written again while it is.
NoTornMember ==
  \A f \in File : cache[f] # None /\ ~cache[f].whole =>
    cache[f].source = "inline" /\ cache[f].of # status.digest

\* The server says ready only while a kernel and an initramfs are there.
ReadyIsComplete == status.ready => CacheIsComplete

\* "A failed refresh must never take a working boot tier down": short of a
\* restart, a server that was ready stays ready and keeps naming a digest.
StaysReady ==
  [][serving' /\ status.ready =>
       /\ status'.ready
       /\ status.digest # None => status'.digest # None]_vars

\* When the server begins to name a pallet, all of it is there: every member
\* was written whole by a refresh of that pallet, and the downloaded ones are
\* its own bytes, whatever an earlier refresh left half done in the same
\* directory.
PublishedIsWhole ==
  [][status'.digest \notin {None, status.digest} =>
       \A i \in 1..Len(Layers[status'.digest]) :
         LET member == cache'[Layers[status'.digest][i]]
         IN  /\ member # None /\ member.of = status'.digest /\ member.whole
             /\ member.source = "blob" => member.own]_vars

\* The pallets that can be served.
Bootable ==
  {d \in Pallet :
     \A f \in RequiredAssets : \E i \in 1..Len(Layers[d]) : Layers[d][i] = f}

\* Once the tag rests on a bootable pallet with a signature, the registry
\* answers and the directory can be written, the server comes to report that
\* pallet: through outages, late signatures and restarts before.
RolloutArrives ==
  \A d \in Bootable :
    <>[](tag = d /\ sound /\ Acceptable(sig[d]) /\ serving) => <>[](status.digest = d)

-----------------------------------------------------------------------------
\* main.rs says that after a failed refresh the server is "continuing to
\* serve the current one": between refreshes, the kernel and the initramfs
\* in the directory are those of the digest it reports.
ServesWhatItReports ==
  task.pc = "idle" /\ status.digest # None =>
    \A f \in RequiredAssets : cache[f].of = status.digest
=============================================================================
