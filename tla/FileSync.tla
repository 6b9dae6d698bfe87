----------------------------- MODULE FileSync -----------------------------
(***************************************************************************)
(* Two-way sync of one file of one S3 vault: what a pass decides about it, *)
(* what the transfers do, and how an operator's decision settles a         *)
(* conflict.                                                               *)
(*                                                                         *)
(* A pass (sync::Cloud) loads the key's index row, the local row, the      *)
(* baseline both sides last agreed on and the open conflict, plans         *)
(* (Planner::build), writes the conflict state, and runs the transfer.     *)
(* The resolver (ConflictResolver::resolve) runs on a request thread,      *)
(* without the pass lease.  Users and other applications change the two    *)
(* sides at any time; EventInbox is how the index learns of the bucket.    *)
(*                                                                         *)
(* A content is a number that grows with every change.  Hashes and ETags   *)
(* are only compared: a new one is one not in use.  A file's hash is     *)
(* of its sealed bytes, so a download has a new one.                       *)
(***************************************************************************)
EXTENDS Naturals

CONSTANTS
    Strategies,    \* RemotePolicy::Strategy, some of {"cache", "sync", "mirror"}
    Policies,      \* ConflictPolicy: {"keep_local", "keep_remote", "keep_newest", "ask"}
    Encrypted,     \* encrypt_upstream: stored objects are sealed, and longer
    MaxEvents,     \* bound: changes by users and other applications, and faults
    Admit          \* which of SyncEvents this instance lets happen

SyncEvents ==
    {"sameSize",   \* two contents of one size
     "listing",    \* a full listing replaces the index row
     "unindexed",  \* a pass ends between an upload and its index row
     "overlap"}    \* a conflict is decided while a pass runs or events are applied

ASSUME FileSyncAssumption ==
    /\ Strategies \subseteq {"cache", "sync", "mirror"}
    /\ Policies \subseteq {"keep_local", "keep_remote", "keep_newest", "ask"}
    /\ Encrypted \in BOOLEAN
    /\ MaxEvents \in Nat
    /\ Admit \subseteq SyncEvents

VARIABLES
    strategy, policy,  \* the vault's remote policy
    local,             \* the local file
    object,            \* the object in the bucket
    row,               \* the key's row of remote_object_index
    event,             \* what the bucket still has to notify: "none", "own", "external"
    noticed,           \* what the applied event said: "none", "changed", "removed"
    base,              \* sync_file_baseline
    conflict,          \* the open row of sync_conflicts
    pass,              \* the pass
    resolver,          \* the resolution in progress
    known,             \* contents the two sides have shared
    changes, faults

config == <<strategy, policy>>
bucket == <<object, event>>
index == <<row, noticed>>
vars == <<config, local, bucket, index, base, conflict, pass, resolver, known,
          changes, faults>>

None == 0
Plain(v) == IF v = None THEN 0 ELSE IF "sameSize" \in Admit THEN 2 ELSE 2 * v
Sealed(v) == IF Encrypted THEN Plain(v) + 1 ELSE Plain(v)

NoFile == [val |-> None, hash |-> None, size |-> 0, bytes |-> FALSE]
NoObject == [val |-> None, etag |-> None, hash |-> None, size |-> 0, ok |-> TRUE]
NoRow == [val |-> None, hash |-> None, etag |-> None, size |-> 0]
NoBase == [hash |-> None, size |-> 0, rhash |-> None, retag |-> None, rsize |-> 0]
NoConflict == [id |-> None, local |-> NoFile, remote |-> NoRow]
NoPass == [pc |-> "off", kind |-> "regular", L |-> NoFile, R |-> NoRow, base |-> NoBase,
           open |-> NoConflict, act |-> "none", got |-> None]
NoResolution == [pc |-> "off", keep |-> "local", rec |-> NoConflict, L |-> NoFile,
                 R |-> NoRow, got |-> None]

Hashes == {local.hash, object.hash, row.hash, base.hash, base.rhash,
           conflict.local.hash, conflict.remote.hash, pass.L.hash, pass.R.hash,
           pass.base.hash, pass.base.rhash, pass.open.local.hash,
           pass.open.remote.hash, resolver.L.hash, resolver.R.hash,
           resolver.rec.local.hash, resolver.rec.remote.hash}
ETags == {object.etag, row.etag, base.retag, conflict.remote.etag, pass.R.etag,
          pass.base.retag, pass.open.remote.etag, resolver.R.etag,
          resolver.rec.remote.etag}
FreshHash == CHOOSE h \in 1..18 : h \notin Hashes
FreshETag == CHOOSE e \in 1..10 : e \notin ETags

Init ==
    /\ strategy \in Strategies /\ policy \in Policies
    /\ local = NoFile /\ object = NoObject
    /\ row = NoRow /\ event = "none" /\ noticed = "none"
    /\ base = NoBase /\ conflict = NoConflict
    /\ pass = NoPass /\ resolver = NoResolution
    /\ known = {} /\ changes = 0 /\ faults = 0

Room == changes + faults < MaxEvents
Fault == Room /\ faults' = faults + 1

-----------------------------------------------------------------------------
(* RemotePolicy: what each strategy does with a key.                       *)

downloadRemoteOnly == ~(strategy = "mirror" /\ policy = "keep_local")
(* Mutant: only a mirror sends what the bucket does not have.              *)
uploadLocalOnlyMirror == strategy = "mirror" /\ policy = "keep_local"
uploadLocalOnly == strategy # "mirror" \/ policy = "keep_local"
deleteRemoteLeftovers == strategy = "mirror" /\ policy = "keep_local"
deleteLocalLeftovers == strategy = "mirror" /\ policy = "keep_remote"
propagatesRemoteRemoval == ~(strategy = "mirror" /\ policy = "keep_local")

(* decideForBoth: the newer side by strategy.  A row copied from the local *)
(* one has its time; the provider's clock is any other.                    *)
decideForBoth(L, R) ==
    LET copied == (R.hash # None /\ R.hash = L.hash) \/ (~L.bytes /\ L.val = R.val)
        newer == IF copied THEN {"none"} ELSE {"none", "upload", "download"}
    IN CASE strategy = "cache" -> newer \ {"upload"}
         [] strategy = "sync" -> newer
         [] strategy = "mirror" ->
              CASE policy = "keep_local" -> {"upload"}
                [] policy = "keep_remote" -> {"download"}
                [] policy = "keep_newest" -> newer
                [] policy = "ask" -> {"none"}

(* resolve_conflict: what the policy decides, or nothing.  keep_newest     *)
(* without a time on both sides asks.                                      *)
resolve_conflict ==
    CASE policy = "ask" -> {"ask"}
      [] policy = "keep_local" -> {"upload"}
      [] policy = "keep_remote" -> {"download"}
      [] policy = "keep_newest" -> {"ask", "upload", "download"}

-----------------------------------------------------------------------------
(* Baseline: what both sides were when they last agreed.                   *)

agreed(L, R) ==
    [hash |-> L.hash, size |-> L.size, rhash |-> R.hash, retag |-> R.etag, rsize |-> R.size]
afterUpload(L) ==
    [hash |-> L.hash, size |-> L.size, rhash |-> L.hash, retag |-> None, rsize |-> L.size]

localChangedSince(L, b) ==
    IF L.hash # None /\ b.hash # None THEN L.hash # b.hash ELSE L.size # b.size
remoteChangedSince(R, b) ==
    IF R.hash # None /\ b.rhash # None THEN R.hash # b.rhash
    ELSE IF R.etag # None /\ b.retag # None THEN R.etag # b.retag
    ELSE R.size # b.rsize

(* Mutant: only the remote side is compared with the baseline.             *)
classifyRemote(L, R, b) ==
    IF b = NoBase THEN "unknown" ELSE IF remoteChangedSince(R, b) THEN "remote" ELSE "in_sync"

classify(L, R, b) ==
    IF b = NoBase THEN "unknown"
    ELSE CASE localChangedSince(L, b) /\ remoteChangedSince(R, b) -> "both"
           [] localChangedSince(L, b) /\ ~remoteChangedSince(R, b) -> "local"
           [] ~localChangedSince(L, b) /\ remoteChangedSince(R, b) -> "remote"
           [] OTHER -> "in_sync"

hasPotentialConflict(L, R) ==
    L.size # R.size \/ (L.hash # None /\ R.hash # None /\ L.hash # R.hash)

(* sideMatches: a recorded side of a conflict is still what it was.        *)
sideMatches(s, hash, size, etag) ==
    IF s.hash # None /\ hash # None THEN s.hash = hash /\ s.size = size
    ELSE IF s.etag # None /\ etag # None THEN s.etag = etag
    ELSE s.size = size /\ s.hash = hash
LocalSide(L) == [val |-> L.val, hash |-> L.hash, etag |-> None, size |-> L.size]

-----------------------------------------------------------------------------
(* The two sides change.                                                   *)

WriteLocal ==
    /\ Room
    /\ changes' = changes + 1
    /\ local' = [val |-> changes', hash |-> FreshHash, size |-> Plain(changes'), bytes |-> TRUE]
    /\ UNCHANGED <<config, bucket, index, base, conflict, pass, resolver, known, faults>>

WriteBucket ==
    /\ Room
    /\ changes' = changes + 1
    /\ object' = [val |-> changes', etag |-> FreshETag, hash |-> None,
                  size |-> Plain(changes'), ok |-> TRUE]
    /\ event' = "external"
    /\ UNCHANGED <<config, local, index, base, conflict, pass, resolver, known, faults>>

DeleteBucket ==
    /\ Room
    /\ object # NoObject
    /\ changes' = changes + 1
    /\ object' = NoObject
    /\ event' = "external"
    /\ UNCHANGED <<config, local, index, base, conflict, pass, resolver, known, faults>>

(* The index row of an object as an event or a listing shows it.           *)
Listed == [val |-> object.val, hash |-> None, etag |-> object.etag, size |-> object.size]

(* The events of the key are applied (EventInbox), under the pass lease.   *)
ApplyEvents ==
    /\ event # "none" /\ pass.pc = "off"
    /\ resolver.pc = "off" \/ "overlap" \in Admit
    /\ event' = "none"
    /\ IF event = "own"
       THEN /\ row' = IF row = NoRow THEN row ELSE [row EXCEPT !.etag = object.etag]
            /\ UNCHANGED noticed
       ELSE /\ row' = IF object = NoObject THEN NoRow
                      ELSE IF row.etag = object.etag THEN row ELSE Listed
            /\ noticed' = IF object = NoObject THEN "removed"
                          ELSE IF row.etag = object.etag THEN noticed ELSE "changed"
    /\ UNCHANGED <<config, local, object, base, conflict, pass, resolver, known,
                   changes, faults>>

-----------------------------------------------------------------------------
(* A pass: initBins or initScopedBins, then planPass, then the executor.   *)

Kinds == {"regular", "scoped"} \cup (IF "listing" \in Admit THEN {"listing"} ELSE {})

BeginPass(kind) ==
    /\ pass.pc = "off"
    /\ resolver.pc = "off" \/ "overlap" \in Admit
    /\ kind = "scoped" => noticed # "none"
    /\ row' = IF kind = "listing" THEN Listed ELSE row
    /\ pass' = [NoPass EXCEPT !.pc = "loading", !.kind = kind, !.R = row']
    /\ UNCHANGED <<config, local, bucket, noticed, base, conflict, resolver, known,
                   changes, faults>>

(* The local rows, the baselines and the open conflicts: three reads.      *)
loadConflictState ==
    /\ \/ /\ pass.pc = "loading"
          /\ pass' = [pass EXCEPT !.pc = "baselines", !.L = local]
       \/ /\ pass.pc = "baselines"
          /\ pass' = [pass EXCEPT !.pc = "conflicts", !.base = base]
       \/ /\ pass.pc = "conflicts"
          /\ pass' = [pass EXCEPT !.pc = "plan", !.open = conflict]
    /\ UNCHANGED <<config, local, bucket, index, base, conflict, resolver, known,
                   changes, faults>>

(* What Planner::build decides: the action, and the conflict state it      *)
(* writes: the baseline noted in sync, the open conflict closed, the one   *)
(* recorded.                                                               *)
Decision(act) == [act |-> act, base |-> NoBase, close |-> FALSE, open |-> FALSE]

LocalOnlyPlan(L) ==
    LET removed == /\ noticed = "removed" /\ propagatesRemoteRemoval
                   /\ ~deleteLocalLeftovers
        gone == removed /\ pass.base # NoBase /\ ~localChangedSince(L, pass.base)
    IN [Decision(IF gone \/ deleteLocalLeftovers THEN "delete_local"
                 ELSE IF uploadLocalOnly THEN "upload" ELSE "none")
        EXCEPT !.close = (pass.open # NoConflict)]

RemoteOnlyPlan ==
    Decision(IF deleteRemoteLeftovers THEN "delete_remote"
             ELSE IF ~downloadRemoteOnly THEN "none"
             ELSE IF strategy = "cache" THEN "index_only" ELSE "download")

(* Different contents: the policy, or the direction of the change.         *)
ConflictPlans(L, R, changed) ==
    LET open == pass.open # NoConflict
        read == IF open THEN "unknown" ELSE classify(L, R, pass.base)
        divergence == IF changed /\ read = "local" THEN "both" ELSE read
        same == /\ open
                /\ sideMatches(LocalSide(pass.open.local), L.hash, L.size, None)
                /\ sideMatches(pass.open.remote, R.hash, R.size, R.etag)
        Handled(how) == IF how = "ask" THEN [Decision("none") EXCEPT !.open = ~same]
                        ELSE [Decision(how) EXCEPT !.close = open]
    IN IF divergence = "in_sync" THEN {Decision("none")}
       ELSE IF policy = "ask" /\ divergence = "local" THEN {Decision("upload")}
       ELSE IF policy = "ask" /\ divergence = "remote" THEN {Decision("download")}
       ELSE {Handled(how) : how \in resolve_conflict}

BothPlans(L, R) ==
    LET open == pass.open # NoConflict
        changed == pass.kind = "scoped" /\ noticed = "changed"
        note == IF agreed(L, R) = pass.base THEN NoBase ELSE agreed(L, R)
    IN IF changed /\ ~open /\ pass.base # NoBase /\ ~localChangedSince(L, pass.base)
       THEN {Decision("download")}
       ELSE IF hasPotentialConflict(L, R) THEN ConflictPlans(L, R, changed)
       ELSE {[Decision(a) EXCEPT !.base = note, !.close = open] : a \in decideForBoth(L, R)}

build(L, R) ==
    CASE L = NoFile /\ R = NoRow -> {Decision("none")}
      [] L # NoFile /\ R = NoRow -> {LocalOnlyPlan(L)}
      [] L = NoFile /\ R # NoRow -> {RemoteOnlyPlan}
      [] OTHER -> BothPlans(L, R)

(* planPass: the plan, and flushConflictState.                             *)
planPass ==
    /\ pass.pc = "plan"
    /\ \E d \in build(pass.L, pass.R) :
         /\ pass' = [pass EXCEPT !.pc = "run", !.act = d.act]
         /\ base' = IF d.base # NoBase /\ local # NoFile THEN d.base ELSE base
         /\ conflict' =
               IF d.close THEN NoConflict
               ELSE IF d.open /\ local # NoFile
               THEN [id |-> IF conflict # NoConflict THEN conflict.id
                            ELSE CHOOSE n \in 1..3 : n \notin {resolver.rec.id, pass.open.id},
                     local |-> pass.L, remote |-> pass.R]
               ELSE conflict
    /\ UNCHANGED <<config, local, bucket, index, resolver, known, changes, faults>>

(* The pass ends; a scoped pass that succeeded settles what was noticed.   *)
EndPass(ok) ==
    /\ pass' = NoPass
    /\ noticed' = IF ok /\ pass.kind = "scoped" THEN "none" ELSE noticed

Doing(act) == pass.pc = "run" /\ pass.act = act

NothingToDo ==
    /\ Doing("none")
    /\ EndPass(TRUE)
    /\ UNCHANGED <<config, local, bucket, row, base, conflict, resolver, known, changes,
                   faults>>

(* A pass or transfer that fails: budget, provider, disk.                  *)
PassFails ==
    /\ pass.pc \in {"run", "store", "index"}
    /\ pass.pc = "index" => "unindexed" \in Admit
    /\ Fault
    /\ EndPass(FALSE)
    /\ UNCHANGED <<config, local, bucket, row, base, conflict, resolver, known, changes>>

(* CloudEngine::upload sends the bytes the file has by now, described by   *)
(* the row that was loaded.                                                *)
Sent(L) == [val |-> local.val, etag |-> FreshETag, hash |-> L.hash,
            size |-> Sealed(local.val), ok |-> local.hash = L.hash]
CanSend(L) == local.bytes /\ (~Encrypted => local.hash = L.hash)

(* tasks::Upload: the baseline may not be recorded; the transfer counts.   *)
Upload ==
    /\ Doing("upload") /\ CanSend(pass.L)
    /\ object' = Sent(pass.L)
    /\ event' = "own"
    /\ known' = known \cup {local.val}
    /\ pass' = [pass EXCEPT !.pc = "index"]
    /\ \/ base' = afterUpload(pass.L) /\ UNCHANGED faults
       \/ Fault /\ UNCHANGED base
    /\ UNCHANGED <<config, local, index, conflict, resolver, changes>>

(* applyRemoteIndexMutation: the row of an upload is the one loaded.       *)
RowOf(L) == [val |-> L.val, hash |-> L.hash, etag |-> None, size |-> L.size]

applyRemoteIndexMutation ==
    /\ pass.pc = "index"
    /\ row' = IF pass.act = "upload" THEN RowOf(pass.L) ELSE NoRow
    /\ EndPass(TRUE)
    /\ UNCHANGED <<config, local, bucket, base, conflict, resolver, known, changes, faults>>

(* tasks::Download: the object as it is by now; then the local file is     *)
(* replaced, whatever it is by now.                                        *)
DownloadGet ==
    /\ Doing("download") /\ object # NoObject /\ object.ok
    /\ pass' = [pass EXCEPT !.pc = "store", !.got = object.val]
    /\ UNCHANGED <<config, local, bucket, index, base, conflict, resolver, known,
                   changes, faults>>

Stored(v) == [val |-> v, hash |-> FreshHash, size |-> Plain(v), bytes |-> TRUE]

(* Mutant: the baseline takes the remote side from a look after the GET.   *)
DownloadStoreLate ==
    /\ pass.pc = "store"
    /\ local' = Stored(pass.got)
    /\ base' = agreed(local', Listed)
    /\ known' = known \cup {pass.got}
    /\ EndPass(TRUE)
    /\ UNCHANGED <<config, bucket, row, conflict, resolver, changes, faults>>

DownloadStore ==
    /\ pass.pc = "store"
    /\ local' = Stored(pass.got)
    /\ \/ base' = agreed(local', pass.R) /\ UNCHANGED faults
       \/ Fault /\ UNCHANGED base
    /\ known' = known \cup {pass.got}
    /\ EndPass(TRUE)
    /\ UNCHANGED <<config, bucket, row, conflict, resolver, changes>>

(* indexAndDeleteFile: the cache strategy takes the row and no bytes.      *)
IndexRemoteOnly ==
    /\ Doing("index_only")
    /\ local' = [val |-> pass.R.val, hash |-> pass.R.hash, size |-> pass.R.size,
                 bytes |-> FALSE]
    /\ \/ base' = agreed(local', pass.R) /\ UNCHANGED faults
       \/ Fault /\ UNCHANGED base
    /\ known' = known \cup {pass.R.val}
    /\ EndPass(TRUE)
    /\ UNCHANGED <<config, bucket, row, conflict, resolver, changes>>

(* Mutant: the baseline of a removed file stays.                           *)
DeleteLocalLeaves ==
    /\ Doing("delete_local")
    /\ local' = NoFile /\ conflict' = NoConflict
    /\ EndPass(TRUE)
    /\ UNCHANGED <<config, bucket, row, base, resolver, known, changes, faults>>

(* Engine::removeLocally: baseline and conflict go with the file.          *)
DeleteLocal ==
    /\ Doing("delete_local")
    /\ local' = NoFile /\ base' = NoBase /\ conflict' = NoConflict
    /\ EndPass(TRUE)
    /\ UNCHANGED <<config, bucket, row, resolver, known, changes, faults>>

DeleteRemote ==
    /\ Doing("delete_remote")
    /\ object' = NoObject
    /\ event' = "none"
    /\ pass' = [pass EXCEPT !.pc = "index"]
    /\ UNCHANGED <<config, local, index, base, conflict, resolver, known, changes, faults>>

(* The transfer cannot be done: nothing to send, or nothing to get.        *)
TransferFails ==
    /\ \/ Doing("upload") /\ ~CanSend(pass.L)
       \/ Doing("download") /\ (object = NoObject \/ ~object.ok)
    /\ EndPass(FALSE)
    /\ UNCHANGED <<config, local, bucket, row, base, conflict, resolver, known, changes,
                   faults>>

-----------------------------------------------------------------------------
(* ConflictResolver::resolve, one decision at a time (Claim).              *)

ResolveBegin(keep) ==
    /\ resolver.pc = "off"
    /\ pass.pc = "off" \/ "overlap" \in Admit
    /\ conflict # NoConflict /\ local # NoFile
    /\ sideMatches(LocalSide(conflict.local), local.hash, local.size, None)
    /\ resolver' = [NoResolution EXCEPT !.pc = "head", !.keep = keep, !.rec = conflict,
                        !.L = local, !.R = IF row # NoRow THEN row ELSE conflict.remote]
    /\ UNCHANGED <<config, local, bucket, index, base, conflict, pass, known, changes,
                   faults>>

(* Mutant: the object only has to exist.                                   *)
RemoteExists(rec) == object # NoObject

(* Mutant: an object that is gone has not changed.                         *)
RemoteUnchangedOrGone(rec) ==
    object = NoObject \/ (IF rec.etag # None THEN rec.etag = object.etag ELSE object.size = rec.size)

(* requireRemoteUnchanged: one HEAD against the recorded version.          *)
RemoteUnchanged(rec) ==
    /\ object # NoObject
    /\ IF rec.etag # None THEN rec.etag = object.etag
       ELSE IF rec.hash # None /\ object.hash # None THEN rec.hash = object.hash
       ELSE \/ object.size = rec.size
            \/ object.hash # None /\ Encrypted /\ object.size = rec.size + 1

ResolveHead ==
    /\ resolver.pc = "head" /\ RemoteUnchanged(resolver.rec.remote)
    /\ resolver' = IF resolver.keep = "local"
                   THEN [resolver EXCEPT !.pc = "put", !.got = object.val]
                   ELSE [resolver EXCEPT !.pc = "get", !.R.etag = object.etag]
    /\ UNCHANGED <<config, local, bucket, index, base, conflict, pass, known, changes,
                   faults>>

ResolvePut ==
    /\ resolver.pc = "put" /\ CanSend(resolver.L)
    /\ object' = Sent(resolver.L)
    /\ event' = "own"
    /\ known' = known \cup {local.val}
    /\ resolver' = [resolver EXCEPT !.pc = "index"]
    /\ UNCHANGED <<config, local, index, base, conflict, pass, changes, faults>>

ResolveIndex ==
    /\ resolver.pc = "index"
    /\ row' = RowOf(resolver.L)
    /\ resolver' = [resolver EXCEPT !.pc = "finish"]
    /\ UNCHANGED <<config, local, bucket, noticed, base, conflict, pass, known, changes,
                   faults>>

(* The GET is conditional on the ETag of the HEAD.                         *)
ResolveGet ==
    /\ resolver.pc = "get" /\ object.etag = resolver.R.etag /\ object.ok
    /\ resolver' = [resolver EXCEPT !.pc = "store", !.got = object.val]
    /\ UNCHANGED <<config, local, bucket, index, base, conflict, pass, known, changes,
                   faults>>

(* replaceLocalContent: a compare-and-swap on the local generation.        *)
ResolveStore ==
    /\ resolver.pc = "store" /\ local.hash = resolver.L.hash
    /\ local' = Stored(resolver.got)
    /\ known' = known \cup {resolver.got}
    /\ resolver' = [resolver EXCEPT !.pc = "finish", !.L = local']
    /\ UNCHANGED <<config, bucket, index, base, conflict, pass, changes, faults>>

(* finishResolution: the baseline only when this closes the conflict.      *)
ResolveFinish ==
    /\ resolver.pc = "finish"
    /\ IF conflict.id = resolver.rec.id
       THEN /\ conflict' = NoConflict
            /\ base' = IF local = NoFile THEN base
                       ELSE IF resolver.keep = "local" THEN afterUpload(resolver.L)
                       ELSE agreed(resolver.L, resolver.R)
       ELSE UNCHANGED <<conflict, base>>
    /\ resolver' = NoResolution
    /\ UNCHANGED <<config, local, bucket, index, pass, known, changes, faults>>

(* The decision is refused as stale, and the conflict stays open.          *)
ResolveRefused ==
    /\ \/ resolver.pc = "head" /\ ~RemoteUnchanged(resolver.rec.remote)
       \/ resolver.pc = "put" /\ ~CanSend(resolver.L)
       \/ resolver.pc = "get" /\ ~(object.etag = resolver.R.etag /\ object.ok)
       \/ resolver.pc = "store" /\ local.hash # resolver.L.hash
    /\ resolver' = NoResolution
    /\ UNCHANGED <<config, local, bucket, index, base, conflict, pass, known, changes,
                   faults>>

ResolveFails ==
    /\ resolver.pc # "off"
    /\ Fault
    /\ resolver' = NoResolution
    /\ UNCHANGED <<config, local, bucket, index, base, conflict, pass, known, changes>>

(* A restart: the pass and the resolution are gone, the tables stay.       *)
Crash ==
    /\ pass.pc # "off" \/ resolver.pc # "off"
    /\ pass.pc = "index" => "unindexed" \in Admit
    /\ Fault
    /\ pass' = NoPass /\ resolver' = NoResolution
    /\ UNCHANGED <<config, local, bucket, index, base, conflict, known, changes>>

-----------------------------------------------------------------------------
RunPass ==
    \/ loadConflictState \/ planPass \/ NothingToDo \/ Upload \/ applyRemoteIndexMutation
    \/ DownloadGet \/ DownloadStore \/ IndexRemoteOnly \/ DeleteLocal \/ DeleteRemote
    \/ TransferFails

Resolve ==
    \/ ResolveHead \/ ResolvePut \/ ResolveIndex \/ ResolveGet \/ ResolveStore
    \/ ResolveFinish \/ ResolveRefused

Next ==
    \/ WriteLocal \/ WriteBucket \/ DeleteBucket \/ ApplyEvents
    \/ \E kind \in Kinds : BeginPass(kind)
    \/ RunPass \/ PassFails
    \/ \E keep \in {"local", "remote"} : ResolveBegin(keep)
    \/ Resolve \/ ResolveFails \/ Crash

Spec == Init /\ [][Next]_vars

(* Regular passes come round (the controller's interval), scoped ones      *)
(* follow their events, and what has begun goes on.                        *)
FairSpec ==
    /\ Spec
    /\ WF_vars(RunPass) /\ WF_vars(Resolve) /\ SF_vars(ApplyEvents)
    /\ SF_vars(BeginPass("regular")) /\ SF_vars(BeginPass("scoped"))

-----------------------------------------------------------------------------
Acts == {"none", "upload", "download", "index_only", "delete_local", "delete_remote"}

FileType == [val : 0..changes, hash : 0..18, size : Nat, bytes : BOOLEAN]
ObjectType == [val : 0..changes, etag : 0..10, hash : 0..18, size : Nat, ok : BOOLEAN]
RowType == [val : 0..changes, hash : 0..18, etag : 0..10, size : Nat]
BaseType == [hash : 0..18, size : Nat, rhash : 0..18, retag : 0..10, rsize : Nat]
ConflictType == [id : 0..3, local : FileType, remote : RowType]
PassType ==
    [pc : {"off", "loading", "baselines", "conflicts", "plan", "run", "store", "index"},
     kind : {"regular", "scoped", "listing"}, L : FileType, R : RowType, base : BaseType,
     open : ConflictType, act : Acts, got : 0..changes]
ResolverType ==
    [pc : {"off", "head", "put", "index", "get", "store", "finish"},
     keep : {"local", "remote"}, rec : ConflictType, L : FileType, R : RowType,
     got : 0..changes]

(* A record that is not the empty one has a content, and a file with bytes *)
(* a hash.                                                                 *)
Solid(file) == file = NoFile \/ (file.val # None /\ (file.bytes => file.hash # None))
Named(r) == r = NoRow \/ r.val # None
Entire(c) == c = NoConflict \/ (c.local # NoFile /\ c.remote # NoRow)

(* Every variable has its type, and a conflict and a baseline belong to a  *)
(* file that exists.                                                       *)
TypeOK ==
    /\ strategy \in Strategies /\ policy \in Policies
    /\ local \in FileType /\ object \in ObjectType /\ row \in RowType
    /\ event \in {"none", "own", "external"}
    /\ noticed \in {"none", "changed", "removed"}
    /\ base \in BaseType /\ conflict \in ConflictType
    /\ pass \in PassType /\ resolver \in ResolverType
    /\ local = NoFile => base = NoBase /\ conflict = NoConflict
    /\ known \subseteq 1..changes
    /\ changes \in Nat /\ faults \in Nat /\ changes + faults <= MaxEvents

(* What is stored, what a pass and what a resolution has in hand.          *)
StoredWhole ==
    /\ Solid(local) /\ Named(row) /\ Entire(conflict)
    /\ Solid(conflict.local) /\ Named(conflict.remote)
    /\ object # NoObject => object.val # None /\ object.etag # None
PassWhole ==
    /\ Solid(pass.L) /\ Named(pass.R)
    /\ pass.pc = "run" =>
          /\ pass.act = "upload" => pass.L # NoFile
          /\ pass.act = "download" => pass.R # NoRow
          /\ pass.act = "index_only" => pass.L = NoFile /\ pass.R # NoRow
          /\ pass.act = "delete_local" => pass.R = NoRow
    /\ pass.pc = "store" => pass.act = "download" /\ pass.got # None /\ pass.R # NoRow
    /\ pass.pc = "index" /\ pass.act = "upload" => pass.L # NoFile
ResolverWhole ==
    /\ Solid(resolver.L) /\ Named(resolver.R)
    /\ resolver.pc # "off" => resolver.L # NoFile /\ resolver.R # NoRow
    /\ resolver.pc \in {"get", "store"} => resolver.R.etag # None
    /\ resolver.pc \in {"put", "store"} => resolver.got # None

(* What is stored and what is in hand is whole: no half of a row, a file   *)
(* or a conflict is ever used, and a transfer has what it transfers        *)
(* (Planner::build, ConflictResolver::resolve).                            *)
WholeInv == StoredWhole /\ PassWhole /\ ResolverWhole

-----------------------------------------------------------------------------
(* What relates the two sides when no resolution overlaps a pass and sizes *)
(* tell contents apart.                                                    *)

(* A pass and a resolution work on what is stored: nobody else changes the *)
(* index row, the baseline or the conflict meanwhile.                      *)
InHand ==
    /\ pass.pc = "off" \/ resolver.pc = "off"
    /\ pass.pc # "off" => pass.R = row
    /\ pass.pc \in {"conflicts", "plan"} => pass.base = base
    /\ pass.pc = "plan" => pass.open = conflict
    /\ resolver.pc # "off" => conflict = resolver.rec
    /\ resolver.pc \in {"put", "index"} => resolver.keep = "local"
    /\ resolver.pc \in {"get", "store"} => resolver.keep = "remote"
    /\ resolver.pc \notin {"off", "finish"} => resolver.L.val = conflict.local.val

(* The content a size or a hash stands for.                                *)
Half(n) == n \div 2
Sized ==
    /\ \A file \in {local, pass.L, resolver.L, conflict.local} : Half(file.size) = file.val
    /\ \A r \in {row, resolver.R, conflict.remote} : Half(r.size) = r.val
    /\ Half(object.size) = object.val
HashVals ==
    {<<file.hash, file.val>> : file \in {local, pass.L, resolver.L, conflict.local}}
    \cup {<<r.hash, r.val>> : r \in {row, resolver.R, conflict.remote}}
    \cup {<<base.hash, Half(base.size)>>, <<base.rhash, Half(base.rsize)>>}
HashesTell == \A p, q \in HashVals : p[1] = q[1] /\ p[1] # None => p[2] = q[2]

(* A content that neither side has, nor will have again; and one that may  *)
(* be replaced.                                                            *)
Gone(v) ==
    /\ object.val # v /\ (local.val # v \/ ~local.bytes)
    /\ pass.pc = "store" => pass.got # v
    /\ resolver.pc = "store" => resolver.got # v
Settled(v) == v \in known \/ Gone(v)

(* A content found on both sides is settled.                               *)
Met == \A v \in {local.val, pass.L.val} \ {None} : v \in {object.val, row.val} => Settled(v)

(* An object nobody has seen yet is as somebody else wrote it, and the     *)
(* rows with its ETag are its own.                                         *)
Unseen ==
    object # NoObject /\ object.val \notin known =>
        /\ object.ok /\ object.hash = None /\ event # "own"
        /\ row.val = object.val <=> row.etag = object.etag
        /\ conflict.remote.etag = object.etag => conflict.remote.val = object.val

(* The baseline: both its sides are settled and the same content, unless   *)
(* the remote one is gone; its ETag is that of the object it agreed with.  *)
BaseInv ==
    base # NoBase =>
        /\ {Half(base.size), Half(base.rsize)} \subseteq 1..changes
        /\ Settled(Half(base.size)) /\ Settled(Half(base.rsize))
        /\ Half(base.size) = Half(base.rsize) \/ Gone(Half(base.rsize))
        /\ (base.retag # None /\ base.retag = object.etag /\ object.ok) =>
              Half(base.size) = object.val

(* A row that has or will get the ETag of an object that is not its own is *)
(* of a content the local file has left.                                   *)
RowInv ==
    (/\ row # NoRow /\ object # NoObject /\ object.ok /\ row.val # object.val
     /\ event = "own" \/ row.etag = object.etag)
    => /\ local # NoFile /\ local.val # row.val
       /\ pass.pc \notin {"off", "loading"} => pass.L # NoFile /\ pass.L.val # row.val

(* What a transfer in progress knows.                                      *)
PassInv ==
    /\ pass.pc = "store" =>
          \/ pass.got = object.val
          \/ /\ event = "external" /\ object.val # row.val
             /\ object.etag = None \/ object.etag # row.etag
    /\ pass.pc = "index" /\ pass.act = "upload" =>
          /\ Settled(pass.L.val)
          /\ event = "own" /\ object.ok => object.val = pass.L.val
ResolverInv ==
    /\ resolver.pc = "put" =>
          \/ object.val \in known \cup {resolver.rec.remote.val}
          \/ object.val # resolver.got
    /\ resolver.pc = "index" =>
          /\ Settled(resolver.L.val)
          /\ event = "own" /\ object.ok => object.val = resolver.L.val
    /\ resolver.pc = "store" =>
          \/ resolver.got = object.val
          \/ /\ event = "external"
             /\ object.val # resolver.R.val /\ object.etag # resolver.R.etag
             /\ object.etag = None \/ object.etag # row.etag
    /\ resolver.pc = "finish" =>
          /\ Settled(resolver.L.val)
          /\ resolver.keep = "remote" =>
                /\ resolver.L.val = resolver.R.val \/ Gone(resolver.R.val)
                /\ Settled(resolver.R.val)
                /\ (resolver.R.etag = object.etag /\ object.ok /\ object # NoObject) =>
                      resolver.L.val = object.val

(* What was decided under `ask`.                                           *)
AskInv ==
    policy = "ask" =>
        /\ pass.pc \in {"run", "store"} =>
              /\ pass.act \in {"download", "delete_local"} =>
                    pass.L = NoFile \/ Settled(pass.L.val)
              /\ pass.act # "delete_remote"
        /\ pass.pc = "run" /\ pass.act = "upload" =>
              row = NoRow \/ row.val \in known \/ object.val # row.val

(* The local file, the object, the index row, the baseline and the open    *)
(* conflict are related at every step: nothing in hand is stale, sizes and *)
(* hashes tell contents apart, a baseline names contents that were shared, *)
(* and what `ask` lets a pass replace is settled (Planner::build,          *)
(* Baseline, the transfers, ConflictResolver::resolve).                    *)
SyncInv ==
    /\ InHand /\ Sized /\ HashesTell /\ Met /\ Unseen /\ BaseInv /\ RowInv
    /\ PassInv /\ ResolverInv /\ AskInv

(* Under `ask`, what a pass or a resolution replaces is a content the two  *)
(* sides have shared, or one somebody decided about, or one that was not  *)
(* there when the pass loaded its rows or the resolution last looked: a    *)
(* change the pass was shown is never lost undecided (Planner::build,      *)
(* ConflictResolver::resolve).                                             *)
NoUndecidedOverwrite ==
    [][policy = "ask" =>
        /\ (pass.pc \in {"run", "store"} /\ pass' # pass /\ local' # local /\ local.bytes) =>
              local.val \in known \/ local # pass.L
        /\ (pass.pc = "run" /\ pass' # pass /\ object' # object /\ object # NoObject) =>
              object.val \in known \/ object.val # pass.R.val
        /\ (resolver.pc = "store" /\ local' # local /\ resolver'.pc = "finish" /\ local.bytes) =>
              local.val \in known \cup {resolver.rec.local.val}
        /\ (resolver.pc = "put" /\ object' # object /\ resolver'.pc = "index") =>
              \/ object.val \in known \cup {resolver.rec.remote.val}
              \/ object.val # resolver.got]_vars

(* A baseline that finds both sides unchanged is right: between passes and *)
(* resolutions, an index row that describes the object and a local file,   *)
(* both unchanged since the baseline, are the same content (classify).     *)
InSyncIsSame ==
    (/\ pass.pc = "off" /\ resolver.pc = "off"
     /\ local # NoFile /\ row # NoRow /\ base # NoBase
     /\ row.val = object.val /\ row.etag \in {None, object.etag} /\ object.ok
     /\ classify(local, row, base) = "in_sync")
    => local.val = object.val

(* Under the sync strategy with ask or keep_local, when the changes and    *)
(* the faults are over, passes bring the sides together for good, or the   *)
(* file waits for a decision: the bucket holds the local content, readable *)
(* (Planner::build, the transfers, the baselines).  keep_remote and        *)
(* keep_newest can be left with an object no download can open, cache has  *)
(* no local bytes to send, and mirror leaves one side alone.               *)
Agree == local.val = object.val /\ object.ok
Converges ==
    strategy = "sync" /\ policy \in {"ask", "keep_local"} =>
        <>[](Agree \/ conflict # NoConflict)
=============================================================================
