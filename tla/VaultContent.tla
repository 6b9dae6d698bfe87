---------------------------- MODULE VaultContent ----------------------------
(***************************************************************************)
(* The sealed content of one local vault and the rotation of its key.      *)
(*                                                                         *)
(* Every content change (an overwrite, the seal of a FUSE working copy,    *)
(* the re-encryption of a file by a key rotation) follows one order: the   *)
(* new ciphertext goes to the sidecar <backing>.vh-rotate, the files row   *)
(* is moved to the new (IV, key version), the sidecar is renamed over the  *)
(* backing file.  A crash can fall between any two of these steps.  A sync *)
(* pass settles the sidecars it finds by authentication, re-encrypts what  *)
(* is still on the previous key and finally drops that key.                *)
(*                                                                         *)
(* Data is abstracted: a plaintext is a value, an IV is the identity of    *)
(* one act of sealing (`Seals'), and bytes authenticate under a row when   *)
(* both name the same act of sealing and the key version is loaded.        *)
(***************************************************************************)
EXTENDS Naturals

CONSTANTS
    Files,       \* file ids (one fs_entry id and one backing path each)
    Vals,        \* non-empty plaintexts
    Seals,       \* IVs: one per act of sealing, never reused while remembered
    NoSeal,      \* the empty IV of an empty file or of legacy plaintext
    MaxKey,      \* bound: the highest key version a rotation may create
    MaxCrashes,  \* bound: how many crashes a behaviour has
    LegacyFiles, \* files an older build may have left in plaintext
    Admit        \* which of EnvironmentEvents this instance lets happen

(***************************************************************************)
(* What the code does not exclude by a lock and the instances switch on    *)
(* one at a time.  See the README, "The environment".                      *)
(***************************************************************************)
EnvironmentEvents ==
    {"write meets walk",      \* a write is in flight while a pass settles sidecars
     "leftover unsettled",    \* a write or repair meets a leftover its row describes
     "commit in doubt",       \* a write's COMMIT throws although it took effect
     "emptying cut short",    \* an emptying write stops between its row and its rename
     "repair cut short",      \* a crash or a failed update between bytes and row of a repair
     "directory sync fails",  \* a write's fsync throws between rename and cached entry
     "seal spans rotation",   \* a seal begun under the old key outlives the pass
     "prepare meets finish",  \* a rotation is requested before memory let go of the last
     "prepares race"}         \* a second request passes the check before the first acts

ContentEvents == {"write meets walk", "leftover unsettled", "commit in doubt",
                  "emptying cut short", "repair cut short", "directory sync fails"}
KeyEvents == {"seal spans rotation", "prepare meets finish", "prepares race"}

ASSUME ContentAssumption ==
    /\ NoSeal \notin Seals
    /\ MaxKey \in Nat \ {0}
    /\ MaxCrashes \in Nat
    /\ LegacyFiles \subseteq Files
    /\ Admit \subseteq EnvironmentEvents
    /\ Vals \cap {"gone", "empty", "garbage"} = {}

VARIABLES
    row,         \* files table: [seal, ver, size] of each file
    backing,     \* bytes at the backing path
    sidecar,     \* bytes at <backing>.vh-rotate
    dbKey,       \* vault_keys.version
    dbPending,   \* vault_keys_trashed: versions with rotation_completed_at IS NULL
    memKey,      \* EncryptionManager::version_
    memOld,      \* the version of EncryptionManager::old_key_, 0 when none is loaded
    checked,     \* calls of prepare_key_rotation that found no rotation in progress
    minted,      \* versions committed by such calls and not yet taken into memory
    lock,        \* Filesystem::contentWriteMutex of each file: its holder
    writer,      \* the user operation in flight on each file
    open,        \* files with a FUSE working copy
    entry,       \* fsCache: the IV and key version of each file's cached entry
    pass,        \* where the vault's sync pass is
    repaired,    \* repairAtRestOnce ran since the daemon started
    walk,        \* recoverSidecars: what it found, read and decided
    rot,         \* rotateFile of each file
    listed,      \* the rows deps.pending returned (the expected states)
    troubled,    \* this pass counted a failure or an unresolved sidecar
    trash,       \* files_trashed (a local vault's rows there are never marked deleted)
    crashes

disk == <<row, backing, sidecar, trash>>
keys == <<dbKey, dbPending, memKey, memOld, checked, minted>>
passVars == <<pass, repaired, walk, rot, listed, troubled>>
vars == <<disk, keys, lock, writer, open, entry, passVars, crashes>>

-----------------------------------------------------------------------------
(***************************************************************************)
(* Bytes, rows and authentication.                                         *)
(***************************************************************************)
Bytes == [val  : Vals \cup {"gone", "empty", "garbage"},
          seal : Seals \cup {NoSeal},
          ver  : 0 .. MaxKey]
Rows  == [seal : Seals \cup {NoSeal},
          ver  : 0 .. MaxKey,
          size : {"gone", "empty", "full"}]

Plain(v) == [val |-> v, seal |-> NoSeal, ver |-> 0]
Sealed(v, s, k) == [val |-> v, seal |-> s, ver |-> k]
Encoded(v, s, k) == IF v = "empty" THEN Plain(v) ELSE Sealed(v, s, k)
NoBytes == Plain("gone")
Torn == Plain("garbage")        \* a sidecar whose writing has not finished

\* What a row says of the bytes it describes (stateOf, plus whether size_bytes is 0).
RowOf(b) == [seal |-> b.seal,
             ver  |-> b.ver,
             size |-> IF b.val \in {"gone", "empty"} THEN b.val ELSE "full"]
NoRow == RowOf(NoBytes)
States == [seal : Seals \cup {NoSeal}, ver : 0 .. MaxKey]
StateOf(r) == [seal |-> r.seal, ver |-> r.ver]

Encrypted(r) == r.seal # NoSeal
Exists(b) == b # NoBytes

dbRotating == dbPending # {}             \* keyRotationInProgress
memRotating == memOld # 0                \* rotation_in_progress_

\* The versions keySnapshot serves with the right key: it returns old_key_ for the version
\* before the current one, whichever key that is.
Held == {memKey} \cup {k \in {memOld} : k # 0 /\ k + 1 = memKey}

\* fileAuthenticatesWith: the right IV and key version, and the key is loaded.
Authenticates(b, r) ==
    /\ Encrypted(r)
    /\ b.seal = r.seal
    /\ b.ver = r.ver
    /\ r.ver \in Held

Remembered(f) ==
    {row[f].seal, backing[f].seal, sidecar[f].seal, writer[f].next.seal,
     rot[f].next.seal, listed[f].seal, walk.rows[f].seal}
\* Mutant: an IV may be used again.
FreshSealsReused(f) == Seals

FreshSeals(f) == Seals \ Remembered(f)

-----------------------------------------------------------------------------
(***************************************************************************)
(* Where a user operation, the rotation of a file and the walk are.        *)
(***************************************************************************)
WriterAt(pc, key, next) == [pc |-> pc, key |-> key, next |-> next]
Idle == WriterAt("idle", 0, NoBytes)

RotAt(pc, next) == [pc |-> pc, next |-> next]
NoRot == RotAt("idle", NoBytes)

WalkAt(todo, loaded, rows, at, verdict) ==
    [todo |-> todo, loaded |-> loaded, rows |-> rows, at |-> at, verdict |-> verdict]
NoRows == [f \in Files |-> NoRow]
WalkOver(S) == WalkAt(S, FALSE, NoRows, {}, "none")
NoWalk == WalkOver({})

Init ==
    /\ \E c \in [Files -> Vals \cup {"gone", "empty"}], s \in Seals,
          legacy \in SUBSET LegacyFiles :
          backing = [f \in Files |->
                       IF c[f] \in {"gone", "empty"} \/ f \in legacy
                         THEN Plain(c[f]) ELSE Sealed(c[f], s, 1)]
    /\ row = [f \in Files |-> RowOf(backing[f])]
    /\ sidecar = [f \in Files |-> NoBytes]
    /\ trash = {}
    /\ dbKey = 1 /\ dbPending = {}
    /\ memKey = 1 /\ memOld = 0
    /\ checked = 0 /\ minted = {}
    /\ lock = [f \in Files |-> "free"]
    /\ writer = [f \in Files |-> Idle]
    /\ open = {}
    /\ entry = [f \in Files |-> StateOf(row[f])]
    /\ pass = "idle" /\ repaired = FALSE
    /\ walk = NoWalk
    /\ rot = [f \in Files |-> NoRot]
    /\ listed = NoRows
    /\ troubled = FALSE
    /\ crashes = 0

-----------------------------------------------------------------------------
(***************************************************************************)
(* The environment: what the events of Admit switch on.                    *)
(***************************************************************************)
Settling == {"startup walk", "repair", "rotation walk"}
Writing(f) == writer[f].pc \in {"staging", "staged", "committed"}
InFlight == {"creating", "created", "staging", "staged"}      \* before the row

WriteMayMeetWalk == "write meets walk" \in Admit
LeftoverIsLive(f) ==
    /\ RowOf(sidecar[f]) = row[f]
    /\ RowOf(backing[f]) # row[f]
SealsUnderOldKey ==
    \E f \in Files :
        writer[f].pc \in InFlight /\ writer[f].key < memKey

-----------------------------------------------------------------------------
(***************************************************************************)
(* User operations.  Filesystem::createFile of a new name.                 *)
(***************************************************************************)
NeverSeen(f) ==
    /\ row[f] = NoRow /\ ~Exists(backing[f]) /\ ~Exists(sidecar[f]) /\ f \notin trash
    /\ writer[f] = Idle /\ lock[f] = "free" /\ f \notin open
    /\ listed[f] = NoRow /\ walk.rows[f] = NoRow /\ f \notin walk.todo \cup walk.at

CreateBegin(f, v) ==
    /\ NeverSeen(f)
    /\ writer' = [writer EXCEPT ![f] = WriterAt("creating", memKey, Plain(v))]
    /\ UNCHANGED <<disk, keys, lock, open, entry, passVars, crashes>>

\* The temp file is sealed and renamed to the backing path.
CreatePlace(f) ==
    /\ writer[f].pc = "creating"
    /\ \E s \in FreshSeals(f) :
         LET b == Encoded(writer[f].next.val, s, writer[f].key)
         IN  /\ backing' = [backing EXCEPT ![f] = b]
             /\ writer' = [writer EXCEPT ![f] = WriterAt("created", writer[f].key, b)]
    /\ UNCHANGED <<row, sidecar, keys, lock, open, entry, passVars, trash, crashes>>

CreateRow(f) ==
    /\ writer[f].pc = "created"
    /\ row' = [row EXCEPT ![f] = RowOf(writer[f].next)]
    /\ entry' = [entry EXCEPT ![f] = StateOf(writer[f].next)]
    /\ writer' = [writer EXCEPT ![f] = Idle]
    /\ UNCHANGED <<backing, sidecar, keys, lock, open, passVars, trash, crashes>>

\* An exception before the row exists: nothing takes a placed backing file back.
CreateFail(f) ==
    /\ writer[f].pc \in {"creating", "created"}
    /\ writer' = [writer EXCEPT ![f] = Idle]
    /\ UNCHANGED <<disk, keys, lock, open, entry, passVars, crashes>>

(***************************************************************************)
(* Overwrite (createFile with overwrite) and the seal of a FUSE working    *)
(* copy (WorkingCopies::seal): the same steps under the content lock.      *)
(***************************************************************************)
WriteBegin(f, v) ==
    /\ row[f] # NoRow
    /\ writer[f] = Idle /\ lock[f] = "free"
    /\ WriteMayMeetWalk \/ pass \notin Settling
    /\ "leftover unsettled" \in Admit \/ ~LeftoverIsLive(f)
    /\ lock' = [lock EXCEPT ![f] = "writer"]
    /\ sidecar' = [sidecar EXCEPT ![f] = Torn]    \* a leftover is removed first
    /\ writer' = [writer EXCEPT ![f] = WriterAt("staging", memKey, Plain(v))]
    /\ UNCHANGED <<row, backing, keys, open, entry, passVars, trash, crashes>>

\* The sidecar is complete, fsynced and hashed; a sidecar someone removed meanwhile
\* makes the fsync or the hash throw (WriteFail).
WriteStage(f) ==
    /\ writer[f].pc = "staging"
    /\ Exists(sidecar[f])
    /\ \E s \in FreshSeals(f) :
         LET b == Encoded(writer[f].next.val, s, writer[f].key)
         IN  /\ sidecar' = [sidecar EXCEPT ![f] = b]
             /\ writer' = [writer EXCEPT ![f] = WriterAt("staged", writer[f].key, b)]
    /\ UNCHANGED <<row, backing, keys, lock, open, entry, passVars, trash, crashes>>

WriteFail(f) ==
    /\ writer[f].pc \in {"staging", "staged"}
    /\ sidecar' = [sidecar EXCEPT ![f] = NoBytes]
    /\ lock' = [lock EXCEPT ![f] = "free"]
    /\ writer' = [writer EXCEPT ![f] = Idle]
    /\ UNCHANGED <<row, backing, keys, open, entry, passVars, trash, crashes>>

\* Mutant: the row takes the key version of the moment it is written.
WriteCommitLateVersion(f) ==
    /\ writer[f].pc = "staged"
    /\ row' = [row EXCEPT ![f] = RowOf(Encoded(writer[f].next.val, writer[f].next.seal,
                                                memKey))]
    /\ writer' = [writer EXCEPT ![f] =
                    WriterAt("committed", writer[f].key, writer[f].next)]
    /\ UNCHANGED <<backing, sidecar, keys, lock, open, entry, passVars, trash, crashes>>

WriteCommit(f) ==
    /\ writer[f].pc = "staged"
    /\ row' = [row EXCEPT ![f] = RowOf(writer[f].next)]
    /\ writer' = [writer EXCEPT ![f] =
                    WriterAt("committed", writer[f].key, writer[f].next)]
    /\ UNCHANGED <<backing, sidecar, keys, lock, open, entry, passVars, trash, crashes>>

\* The COMMIT took effect and its answer was lost: the catch removes the sidecar.
WriteCommitInDoubt(f) ==
    /\ "commit in doubt" \in Admit
    /\ writer[f].pc = "staged"
    /\ row' = [row EXCEPT ![f] = RowOf(writer[f].next)]
    /\ sidecar' = [sidecar EXCEPT ![f] = NoBytes]
    /\ lock' = [lock EXCEPT ![f] = "free"]
    /\ writer' = [writer EXCEPT ![f] = Idle]
    /\ UNCHANGED <<backing, keys, open, entry, passVars, trash, crashes>>

WriteRename(f) ==
    /\ writer[f].pc = "committed" /\ Exists(sidecar[f])
    /\ backing' = [backing EXCEPT ![f] = sidecar[f]]
    /\ sidecar' = [sidecar EXCEPT ![f] = NoBytes]
    /\ \/ entry' = [entry EXCEPT ![f] = StateOf(writer[f].next)]
       \/ "directory sync fails" \in Admit /\ UNCHANGED entry
    /\ lock' = [lock EXCEPT ![f] = "free"]
    /\ writer' = [writer EXCEPT ![f] = Idle]
    /\ UNCHANGED <<row, keys, open, passVars, trash, crashes>>

\* Mutant: a failed rename cleans up the sidecar.
WriteRenameFailCleanup(f) ==
    /\ writer[f].pc = "committed"
    /\ "emptying cut short" \in Admit \/ writer[f].next.val # "empty"
    /\ sidecar' = [sidecar EXCEPT ![f] = NoBytes]
    /\ lock' = [lock EXCEPT ![f] = "free"]
    /\ writer' = [writer EXCEPT ![f] = Idle]
    /\ UNCHANGED <<row, backing, trash, keys, open, entry, passVars, crashes>>

\* rename(2) throws: the sidecar, if it is still there, is left for recovery.
WriteRenameFail(f) ==
    /\ writer[f].pc = "committed"
    /\ "emptying cut short" \in Admit \/ writer[f].next.val # "empty"
    /\ lock' = [lock EXCEPT ![f] = "free"]
    /\ writer' = [writer EXCEPT ![f] = Idle]
    /\ UNCHANGED <<disk, keys, open, entry, passVars, crashes>>

(***************************************************************************)
(* Filesystem::remove: the row goes under the content lock, the backing    *)
(* file after it was released.                                             *)
(***************************************************************************)
TrashRow(f) ==
    /\ row[f] # NoRow
    /\ writer[f] = Idle /\ lock[f] = "free"
    /\ row' = [row EXCEPT ![f] = NoRow]
    /\ entry' = [entry EXCEPT ![f] = StateOf(NoRow)]
    /\ trash' = trash \cup {f}
    /\ writer' = [writer EXCEPT ![f] = WriterAt("trashed", 0, NoBytes)]
    /\ UNCHANGED <<backing, sidecar, keys, lock, open, passVars, crashes>>

TrashBacking(f) ==
    /\ writer[f].pc = "trashed"
    /\ backing' = [backing EXCEPT ![f] = NoBytes]
    /\ writer' = [writer EXCEPT ![f] = Idle]
    /\ UNCHANGED <<row, sidecar, keys, lock, open, entry, passVars, trash, crashes>>

OpenCopy(f) ==
    /\ row[f] # NoRow
    /\ open' = open \cup {f}
    /\ UNCHANGED <<disk, keys, lock, writer, entry, passVars, crashes>>

ReleaseCopy(f) ==
    /\ f \in open
    /\ open' = open \ {f}
    /\ UNCHANGED <<disk, keys, lock, writer, entry, passVars, crashes>>

-----------------------------------------------------------------------------
\* Mutant: a rotation in progress does not stop the next one.
PrepareCheckSkipped ==
    /\ dbKey + checked < MaxKey
    /\ "prepares race" \in Admit \/ (checked = 0 /\ minted = {})
    /\ "prepare meets finish" \in Admit \/ ~memRotating
    /\ checked' = checked + 1
    /\ UNCHANGED <<disk, dbKey, dbPending, memKey, memOld, minted, lock, writer, open, entry,
                   passVars, crashes>>

(***************************************************************************)
(* The key: prepare_key_rotation asks whether a rotation is in progress,   *)
(* rotates in a transaction of its own and then moves memory; any number   *)
(* of callers may be between two of these steps.  finish_key_rotation is a *)
(* database step and a memory step.                                        *)
(***************************************************************************)
PrepareCheck ==
    /\ ~dbRotating
    /\ dbKey + checked < MaxKey
    /\ "prepares race" \in Admit \/ (checked = 0 /\ minted = {})
    /\ "prepare meets finish" \in Admit \/ ~memRotating
    /\ checked' = checked + 1
    /\ UNCHANGED <<disk, dbKey, dbPending, memKey, memOld, minted, lock, writer, open, entry,
                   passVars, crashes>>

\* rotateVaultKey: the current version retires, whichever it is by now.
RotateVaultKey ==
    /\ checked > 0
    /\ checked' = checked - 1
    /\ dbKey' = dbKey + 1
    /\ dbPending' = dbPending \cup {dbKey}
    /\ UNCHANGED <<disk, memKey, memOld, lock, writer, open, entry, passVars, crashes>>

PrepareDb ==
    /\ RotateVaultKey
    /\ minted' = minted \cup {dbKey + 1}

\* It throws, and its COMMIT took effect nevertheless or did not: memory is untouched.
PrepareDbInDoubt ==
    /\ RotateVaultKey
    /\ UNCHANGED minted

PrepareDbFail ==
    /\ checked > 0
    /\ checked' = checked - 1
    /\ UNCHANGED <<disk, dbKey, dbPending, memKey, memOld, minted, lock, writer, open, entry,
                   passVars, crashes>>

\* Mutant: memory counts the new version once more.
PrepareMemSkips ==
    \E v \in minted :
        /\ memKey' = v + 1
        /\ memOld' = memKey
        /\ minted' = minted \ {v}
        /\ UNCHANGED <<disk, dbKey, dbPending, checked, lock, writer, open, entry, passVars,
                       crashes>>

PrepareMem ==
    \E v \in minted :
        /\ memKey' = v
        /\ memOld' = memKey
        /\ minted' = minted \ {v}
        /\ UNCHANGED <<disk, dbKey, dbPending, checked, lock, writer, open, entry, passVars,
                       crashes>>

\* markKeyRotationFinished, or the return before it when the database knows of no rotation.
FinishDb ==
    /\ pass = "finish"
    /\ dbPending' = {}
    /\ pass' = IF dbRotating THEN "finishing" ELSE "idle"
    /\ UNCHANGED <<disk, dbKey, memKey, memOld, checked, minted, lock, writer, open, entry,
                   repaired, walk, rot, listed, troubled, crashes>>

\* It throws, and its COMMIT took effect nevertheless or did not: the pass ends in an error.
FinishDbFail ==
    /\ pass = "finish" /\ dbRotating
    /\ dbPending' \in {dbPending, {}}
    /\ pass' = "idle"
    /\ troubled' = TRUE
    /\ UNCHANGED <<disk, dbKey, memKey, memOld, checked, minted, lock, writer, open, entry,
                   repaired, walk, rot, listed, crashes>>

FinishMem ==
    /\ pass = "finishing"
    /\ memOld' = 0
    /\ pass' = "idle"
    /\ UNCHANGED <<disk, dbKey, dbPending, memKey, checked, minted, lock, writer, open, entry,
                   repaired, walk, rot, listed, troubled, crashes>>

-----------------------------------------------------------------------------
(***************************************************************************)
(* The sync pass: Local::processSharedOps.  The first pass of a process    *)
(* settles leftovers and repairs plaintext at rest; every pass of a        *)
(* rotating vault settles leftovers, rotates what is listed, re-queries.   *)
(***************************************************************************)
Found == {f \in Files : Exists(sidecar[f])}
StartWalk(stage) ==
    /\ WriteMayMeetWalk \/ \A f \in Files : ~Writing(f)
    /\ pass' = stage
    /\ walk' = WalkOver(Found)

PassBegin ==
    /\ pass = "idle"
    /\ \/ /\ ~repaired
          /\ StartWalk("startup walk")
       \/ /\ repaired
          /\ pass' = "sweep"
          /\ UNCHANGED walk
    /\ repaired' = TRUE
    /\ UNCHANGED <<disk, keys, lock, writer, open, entry, rot, listed, troubled, crashes>>

\* resolveSidecar: what to do with a file's sidecar given the row state it is told.
Verdict(f, r) ==
    CASE ~Exists(sidecar[f]) -> "none"
      [] r = NoRow -> IF Exists(backing[f]) THEN "unresolved" ELSE "discard"
      [] r # NoRow /\ ~Encrypted(r) -> "discard"
      [] Encrypted(r) /\ Authenticates(sidecar[f], r) -> "promote"
      [] Encrypted(r) /\ ~Authenticates(sidecar[f], r) ->
           IF Authenticates(backing[f], r) THEN "discard" ELSE "unresolved"

\* recoverVault reads every row once, when the first sidecar is looked up.
WalkLoad ==
    /\ pass \in {"startup walk", "rotation walk"}
    /\ walk.todo # {} /\ ~walk.loaded
    /\ walk' = WalkAt(walk.todo, TRUE, row, {}, "none")
    /\ UNCHANGED <<disk, keys, lock, writer, open, entry, pass, repaired, rot, listed,
                   troubled, crashes>>

WalkJudge(f) ==
    /\ walk.loaded /\ walk.at = {} /\ f \in walk.todo
    /\ pass \in {"startup walk", "rotation walk"}
    /\ walk' = WalkAt(walk.todo \ {f}, TRUE, walk.rows, {f}, Verdict(f, walk.rows[f]))
    /\ UNCHANGED <<disk, keys, lock, writer, open, entry, pass, repaired, rot, listed,
                   troubled, crashes>>

\* Rename or remove, without the content lock; a rename of a vanished sidecar throws and
\* counts as unresolved.
WalkAct(f) ==
    /\ walk.loaded /\ walk.at = {f}
    /\ pass \in {"startup walk", "rotation walk"}
    /\ \/ /\ walk.verdict = "promote" /\ Exists(sidecar[f])
          /\ backing' = [backing EXCEPT ![f] = sidecar[f]]
          /\ sidecar' = [sidecar EXCEPT ![f] = NoBytes]
          /\ entry' = IF row[f] = NoRow THEN entry        \* notifyCommitted
                       ELSE [entry EXCEPT ![f] = StateOf(walk.rows[f])]
          /\ UNCHANGED troubled
       \/ /\ walk.verdict = "discard"
          /\ sidecar' = [sidecar EXCEPT ![f] = NoBytes]
          /\ UNCHANGED <<backing, entry, troubled>>
       \/ /\ walk.verdict = "none"
          /\ UNCHANGED <<backing, sidecar, entry, troubled>>
       \/ /\ \/ walk.verdict = "unresolved"
             \/ walk.verdict = "promote" /\ ~Exists(sidecar[f])
          /\ troubled' = TRUE
          /\ UNCHANGED <<backing, sidecar, entry>>
    /\ walk' = WalkAt(walk.todo, TRUE, walk.rows, {}, "none")
    /\ UNCHANGED <<row, keys, lock, writer, open, pass, repaired, rot, listed, trash, crashes>>

\* A directory walk that stops early, or a recovery that throws, counts as unresolved.
WalkPartial ==
    /\ pass \in {"startup walk", "rotation walk"} /\ walk.todo # {} /\ walk.at = {}
    /\ walk' = WalkAt({}, walk.loaded, walk.rows, {}, "none")
    /\ troubled' = TRUE
    /\ UNCHANGED <<disk, keys, lock, writer, open, entry, pass, repaired, rot, listed, crashes>>

\* The startup walk is followed by repairAtRest over the vault's rows.
StartupWalkDone ==
    /\ pass = "startup walk" /\ walk.todo = {} /\ walk.at = {}
    /\ pass' = "repair"
    /\ walk' = WalkOver({f \in Files : row[f] # NoRow})
    /\ UNCHANGED <<disk, keys, lock, writer, open, entry, repaired, rot, listed, troubled,
                   crashes>>

(***************************************************************************)
(* Filesystem::repairAtRest.  A row without an IV over a non-empty backing *)
(* file is taken for legacy plaintext: the bytes are sealed and renamed    *)
(* into place, then the row is updated.  Sealing bytes that were sealed    *)
(* before makes their plaintext garbage.                                   *)
(***************************************************************************)
NeedsRepair(f) ==
    /\ row[f] # NoRow /\ ~Encrypted(entry[f])
    /\ f \notin open
    /\ backing[f].val \notin {"gone", "empty"}

RepairBytes(f) ==
    /\ pass = "repair" /\ walk.at = {} /\ f \in walk.todo
    /\ NeedsRepair(f)
    /\ "leftover unsettled" \in Admit \/ ~LeftoverIsLive(f)
    /\ \E s \in FreshSeals(f) :
         LET b == Sealed(IF backing[f].seal = NoSeal THEN backing[f].val ELSE "garbage",
                         s, memKey)
         IN  /\ backing' = [backing EXCEPT ![f] = b]
             /\ walk' = WalkAt(walk.todo \ {f}, FALSE, [NoRows EXCEPT ![f] = RowOf(b)],
                               {f}, "none")
             /\ entry' = [entry EXCEPT ![f] = StateOf(b)]
    /\ UNCHANGED <<row, sidecar, keys, lock, writer, open, pass, repaired, rot, listed,
                   troubled, trash, crashes>>

\* updateFile of a row trashed meanwhile fails on the file_activity foreign key.
RepairRow(f) ==
    /\ pass = "repair" /\ walk.at = {f}
    /\ row' = IF row[f] = NoRow THEN row ELSE [row EXCEPT ![f] = walk.rows[f]]
    /\ walk' = WalkOver(walk.todo)
    /\ UNCHANGED <<backing, sidecar, keys, lock, writer, open, entry, pass, repaired, rot,
                   listed, troubled, trash, crashes>>

\* Any other failure of updateFile is caught too: the bytes stay sealed, the row does not
\* say so.
RepairRowFail(f) ==
    /\ "repair cut short" \in Admit
    /\ pass = "repair" /\ walk.at = {f}
    /\ walk' = WalkOver(walk.todo)
    /\ UNCHANGED <<disk, keys, lock, writer, open, entry, pass, repaired, rot, listed,
                   troubled, crashes>>

\* Nothing to seal.  A wrong size_bytes of sealed bytes is corrected, which shows in no row.
RepairSkip(f) ==
    /\ pass = "repair" /\ walk.at = {} /\ f \in walk.todo
    /\ ~NeedsRepair(f)
    /\ walk' = WalkOver(walk.todo \ {f})
    /\ UNCHANGED <<disk, keys, lock, writer, open, entry, pass, repaired, rot, listed,
                   troubled, crashes>>

RepairDone ==
    /\ pass = "repair" /\ walk.todo = {} /\ walk.at = {}
    /\ pass' = "sweep"
    /\ walk' = NoWalk
    /\ UNCHANGED <<disk, keys, lock, writer, open, entry, repaired, rot, listed, troubled, crashes>>

\* removeTrashedFiles, and whether handleVaultKeyRotation has anything to do.
Sweep ==
    /\ pass = "sweep"
    /\ backing' = [f \in Files |-> IF f \in trash THEN NoBytes ELSE backing[f]]
    /\ IF memRotating
         THEN StartWalk("rotation walk")
         ELSE pass' = "idle" /\ UNCHANGED walk
    /\ troubled' = FALSE
    /\ UNCHANGED <<row, sidecar, keys, lock, writer, open, entry, repaired, rot, listed, trash,
                   crashes>>

\* Mutant: off by one, files on the previous key are not asked for.
PendingOlder == {f \in Files : Encrypted(row[f]) /\ row[f].ver + 1 < memKey}

(***************************************************************************)
(* runPass: recover, list, rotate every listed file, query again.          *)
(***************************************************************************)
\* getFilesOlderThanKeyVersion
Pending == {f \in Files : Encrypted(row[f]) /\ row[f].ver < memKey}

RotationList ==
    /\ pass = "rotation walk" /\ walk.todo = {} /\ walk.at = {}
    /\ pass' = "rotate"
    /\ walk' = NoWalk
    /\ listed' = [f \in Files |-> IF f \in Pending THEN row[f] ELSE NoRow]
    /\ rot' = [f \in Files |-> RotAt(IF f \in Pending THEN "listed" ELSE "idle", NoBytes)]
    /\ UNCHANGED <<disk, keys, lock, writer, open, entry, repaired, troubled, crashes>>

\* Mutant: the content lock is not released.
RotDoneKeepsLock(f) ==
    /\ rot' = [rot EXCEPT ![f] = NoRot]
    /\ UNCHANGED lock

\* rotateFile returns or throws: the content lock is released.
RotDone(f) ==
    /\ rot' = [rot EXCEPT ![f] = NoRot]
    /\ lock' = [lock EXCEPT ![f] = "free"]

\* Mutant: a sidecar the row describes is not promoted first.
SettledBacking(f) == backing[f]

(***************************************************************************)
(* rotateFile under the content lock, up to the re-encryption in memory.   *)
(***************************************************************************)
Settled(f) == IF Verdict(f, listed[f]) = "promote" THEN sidecar[f] ELSE backing[f]

\* rotateDecryptEncrypt opens with old_key_, whatever the row's version is.
Reseals(b, r) == memRotating /\ b.seal = r.seal /\ b.ver = memKey - 1

RotBegin(f) ==
    /\ rot[f].pc = "listed" /\ lock[f] = "free"
    /\ row[f] = listed[f]
    /\ f \notin open
    /\ Verdict(f, listed[f]) # "unresolved"
    /\ Reseals(Settled(f), listed[f])
    /\ backing' = [backing EXCEPT ![f] = Settled(f)]
    /\ sidecar' = [sidecar EXCEPT ![f] = Torn]
    /\ lock' = [lock EXCEPT ![f] = "rotator"]
    /\ rot' = [rot EXCEPT ![f] = RotAt("staging", Plain(Settled(f).val))]
    /\ UNCHANGED <<row, keys, writer, open, entry, pass, repaired, walk, listed, troubled, trash, crashes>>

\* Conflict (the row moved since it was listed) or Deferred (open through FUSE).
RotSkip(f) ==
    /\ rot[f].pc = "listed" /\ lock[f] = "free"
    /\ row[f] # listed[f] \/ f \in open
    /\ RotDone(f)
    /\ UNCHANGED <<disk, keys, writer, open, entry, pass, repaired, walk, listed, troubled, crashes>>

\* failRotation: an unresolved sidecar is kept; one that was settled stays settled when
\* the backing file then is missing or does not open with the previous key.
RotRefuse(f) ==
    /\ rot[f].pc = "listed" /\ lock[f] = "free"
    /\ row[f] = listed[f] /\ f \notin open
    /\ \/ /\ Verdict(f, listed[f]) = "unresolved"
          /\ UNCHANGED <<backing, sidecar>>
       \/ /\ Verdict(f, listed[f]) # "unresolved"
          /\ ~Reseals(Settled(f), listed[f])
          /\ backing' = [backing EXCEPT ![f] = Settled(f)]
          /\ sidecar' = [sidecar EXCEPT ![f] = NoBytes]
    /\ RotDone(f)
    /\ troubled' = TRUE
    /\ UNCHANGED <<row, keys, writer, open, entry, pass, repaired, walk, listed, trash, crashes>>

(***************************************************************************)
(* rotateLocalCopy: sidecar durable, busy asked again, row compared and    *)
(* set, sidecar renamed.                                                   *)
(***************************************************************************)
RotStage(f) ==
    /\ rot[f].pc = "staging"
    /\ \E s \in FreshSeals(f) :
         LET b == Sealed(rot[f].next.val, s, memKey)
         IN  /\ sidecar' = [sidecar EXCEPT ![f] = b]
             /\ rot' = [rot EXCEPT ![f] = RotAt("staged", b)]
    /\ UNCHANGED <<row, backing, keys, lock, writer, open, entry, pass, repaired, walk, listed,
                   troubled, trash, crashes>>

RotFail(f) ==
    /\ rot[f].pc \in {"staging", "staged"}
    /\ sidecar' = [sidecar EXCEPT ![f] = NoBytes]
    /\ RotDone(f)
    /\ troubled' = TRUE
    /\ UNCHANGED <<row, backing, keys, writer, open, entry, pass, repaired, walk, listed, trash, crashes>>

RotBusy(f) ==
    /\ rot[f].pc = "staged"
    /\ IF f \in open
         THEN /\ sidecar' = [sidecar EXCEPT ![f] = NoBytes]
              /\ RotDone(f)
         ELSE /\ rot' = [rot EXCEPT ![f] = RotAt("cleared", rot[f].next)]
              /\ UNCHANGED <<sidecar, lock>>
    /\ UNCHANGED <<row, backing, keys, writer, open, entry, pass, repaired, walk, listed,
                   troubled, trash, crashes>>

RotCommit(f) ==
    /\ rot[f].pc = "cleared"
    /\ IF row[f] = listed[f]
         THEN /\ row' = [row EXCEPT ![f] = RowOf(rot[f].next)]
              /\ rot' = [rot EXCEPT ![f] = RotAt("committed", rot[f].next)]
              /\ UNCHANGED <<sidecar, lock>>
         ELSE /\ sidecar' = [sidecar EXCEPT ![f] = NoBytes]
              /\ RotDone(f)
              /\ UNCHANGED row
    /\ UNCHANGED <<backing, keys, writer, open, entry, pass, repaired, walk, listed, troubled,
                   trash, crashes>>

\* The commit throws: whether it took effect is unknown, the sidecar is kept.
RotCommitInDoubt(f) ==
    /\ rot[f].pc = "cleared"
    /\ \/ UNCHANGED row
       \/ row[f] = listed[f] /\ row' = [row EXCEPT ![f] = RowOf(rot[f].next)]
    /\ RotDone(f)
    /\ troubled' = TRUE
    /\ UNCHANGED <<backing, sidecar, keys, writer, open, entry, pass, repaired, walk, listed, trash, crashes>>

RotRename(f) ==
    /\ rot[f].pc = "committed" /\ Exists(sidecar[f])
    /\ backing' = [backing EXCEPT ![f] = sidecar[f]]
    /\ sidecar' = [sidecar EXCEPT ![f] = NoBytes]
    /\ entry' = [entry EXCEPT ![f] = StateOf(rot[f].next)]
    /\ RotDone(f)
    /\ UNCHANGED <<row, keys, writer, open, pass, repaired, walk, listed, troubled, trash, crashes>>

\* A failed rename throws: a failure of the pass, the sidecar stays for recovery.
RotRenameFail(f) ==
    /\ rot[f].pc = "committed"
    /\ RotDone(f)
    /\ troubled' = TRUE
    /\ UNCHANGED <<disk, keys, writer, open, entry, pass, repaired, walk, listed, crashes>>

\* Mutant: the pass does not wait for every worker.
RotationDoneEarly ==
    /\ pass = "rotate" /\ \E f \in Files : rot[f] = NoRot
    /\ pass' = IF Pending = {} /\ ~troubled THEN "finish" ELSE "idle"
    /\ listed' = NoRows
    /\ UNCHANGED <<disk, keys, lock, writer, open, entry, repaired, walk, rot, troubled, crashes>>

\* Re-query, and finish only if nothing is left and nothing went wrong.
RotationDone ==
    /\ pass = "rotate" /\ \A f \in Files : rot[f] = NoRot
    /\ IF Pending = {} /\ ~troubled
         THEN /\ "seal spans rotation" \in Admit \/ ~SealsUnderOldKey
              /\ pass' = "finish"
         ELSE pass' = "idle"
    /\ listed' = NoRows
    /\ UNCHANGED <<disk, keys, lock, writer, open, entry, repaired, walk, rot, troubled, crashes>>

-----------------------------------------------------------------------------
(***************************************************************************)
(* The daemon dies and starts again.  load_key takes the key state from    *)
(* the database.                                                           *)
(***************************************************************************)
Crash ==
    /\ crashes < MaxCrashes
    /\ "emptying cut short" \in Admit
         \/ \A f \in Files : ~(writer[f].pc = "committed" /\ writer[f].next.val = "empty")
    /\ "repair cut short" \in Admit \/ pass # "repair" \/ walk.at = {}
    /\ crashes' = crashes + 1
    /\ memKey' = dbKey
    /\ IF dbRotating THEN memOld' \in dbPending ELSE memOld' = 0
    /\ checked' = 0 /\ minted' = {}
    /\ lock' = [f \in Files |-> "free"]
    /\ writer' = [f \in Files |-> Idle]
    /\ open' = {}
    /\ entry' = [f \in Files |-> StateOf(row[f])]        \* reloaded from the database
    /\ pass' = "idle" /\ repaired' = FALSE
    /\ walk' = NoWalk
    /\ rot' = [f \in Files |-> NoRot]
    /\ listed' = NoRows
    /\ troubled' = FALSE
    /\ UNCHANGED <<disk, dbKey, dbPending>>

-----------------------------------------------------------------------------
WriterStep(f) ==
    \/ CreatePlace(f) \/ CreateRow(f) \/ CreateFail(f)
    \/ WriteStage(f) \/ WriteFail(f) \/ WriteCommit(f) \/ WriteCommitInDoubt(f)
    \/ WriteRename(f) \/ WriteRenameFail(f) \/ TrashBacking(f)

UserStep(f) ==
    \/ \E v \in Vals \cup {"empty"} : CreateBegin(f, v) \/ WriteBegin(f, v)
    \/ TrashRow(f) \/ OpenCopy(f) \/ ReleaseCopy(f)

WalkStep ==
    \/ WalkLoad \/ StartupWalkDone \/ RepairDone \/ Sweep
    \/ \E f \in Files : \/ WalkJudge(f) \/ WalkAct(f)
                        \/ RepairBytes(f) \/ RepairRow(f) \/ RepairRowFail(f)
                        \/ RepairSkip(f)

RotStep(f) ==
    \/ RotBegin(f) \/ RotSkip(f) \/ RotRefuse(f) \/ RotStage(f) \/ RotFail(f)
    \/ RotBusy(f) \/ RotCommit(f) \/ RotCommitInDoubt(f)
    \/ RotRename(f) \/ RotRenameFail(f)

PrepareStep == PrepareDb \/ PrepareDbInDoubt \/ PrepareDbFail \/ PrepareMem

PassStep ==
    \/ PassBegin \/ WalkStep \/ WalkPartial \/ RotationList \/ RotationDone
    \/ FinishDb \/ FinishDbFail \/ FinishMem
    \/ \E f \in Files : RotStep(f)

Next ==
    \/ \E f \in Files : UserStep(f) \/ WriterStep(f)
    \/ PrepareCheck \/ PrepareStep
    \/ PassStep
    \/ Crash

Spec == Init /\ [][Next]_vars

(***************************************************************************)
(* Fairness: a thread that can take its next step takes it.  Strong for    *)
(* the pass, whose waits (a content lock, writers in flight) are queues    *)
(* that other operations also join.  A pass that ended in an error is not  *)
(* put back in the queue: the next one then has to be asked for.           *)
(***************************************************************************)
PassFailed == pass = "idle" /\ troubled

Fairness ==
    /\ \A f \in Files : WF_vars(WriterStep(f))
    /\ WF_vars(PrepareStep)
    /\ SF_vars(PassStep /\ ~PassFailed)

FairSpec == Spec /\ Fairness

\* The steps in which an operation fails.
Fault ==
    \/ WalkPartial \/ FinishDbFail
    \/ \E f \in Files : \/ CreateFail(f) \/ WriteFail(f) \/ WriteRenameFail(f)
                        \/ RotFail(f) \/ RotCommitInDoubt(f) \/ RotRenameFail(f)
                        \/ RepairRowFail(f)

-----------------------------------------------------------------------------
(***************************************************************************)
(* Properties.                                                             *)
(***************************************************************************)
WriterPcs == {"idle", "creating", "created", "staging", "staged", "committed", "trashed"}
RotPcs == {"idle", "listed", "staging", "staged", "cleared", "committed"}
Passes == Settling \cup {"idle", "sweep", "rotate", "finish", "finishing"}
Verdicts == {"none", "discard", "promote", "unresolved"}
WriterRecs == [pc : WriterPcs, key : 0 .. MaxKey, next : Bytes]
RotRecs == [pc : RotPcs, next : Bytes]
WalkRecs == [todo : SUBSET Files, loaded : BOOLEAN, rows : [Files -> Rows],
             at : SUBSET Files, verdict : Verdicts]

\* Every variable has its type.
TypeOK ==
    /\ row \in [Files -> Rows]
    /\ backing \in [Files -> Bytes]
    /\ sidecar \in [Files -> Bytes]
    /\ trash \subseteq Files
    /\ dbKey \in 1 .. MaxKey /\ dbPending \subseteq 1 .. MaxKey
    /\ memKey \in 1 .. MaxKey /\ memOld \in 0 .. MaxKey
    /\ checked \in 0 .. MaxKey /\ dbKey + checked <= MaxKey
    /\ minted \subseteq 1 .. MaxKey
    /\ lock \in [Files -> {"free", "writer", "rotator"}]
    /\ writer \in [Files -> WriterRecs]
    /\ open \subseteq Files
    /\ entry \in [Files -> States]
    /\ pass \in Passes /\ repaired \in BOOLEAN
    /\ walk \in WalkRecs
    /\ rot \in [Files -> RotRecs]
    /\ listed \in [Files -> Rows]
    /\ troubled \in BOOLEAN
    /\ crashes \in 0 .. MaxCrashes

Repairing(f) == pass = "repair" /\ walk.at = {f}

\* What a file holds: the copy its row describes.  While repairAtRest is between its
\* rename and its row update the cached entry already describes the sealed bytes.
Live(f) ==
    IF row[f] = NoRow THEN "gone"
    ELSE IF RowOf(backing[f]) = row[f] THEN backing[f].val
    ELSE IF Repairing(f) /\ RowOf(backing[f]) = walk.rows[f] THEN backing[f].val
    ELSE IF RowOf(sidecar[f]) = row[f] THEN sidecar[f].val
    ELSE "garbage"

\* No interleaving of writes, seals, rotation, recovery and crashes leaves a row that
\* neither the backing file nor the sidecar satisfies ("Both the old and the new local
\* ciphertext exist until the row commits", Rotation.hpp).
ContentSurvives == \A f \in Files : Live(f) # "garbage"

\* Every encrypted row names a key version that keySnapshot still serves: the previous
\* key is dropped only once nothing needs it.
RowKeyed(f) == Encrypted(row[f]) => row[f].ver \in Held
KeyHeld == \A f \in Files : RowKeyed(f)

\* A sidecar of an existing file can always be settled by authentication; recovery never
\* has to leave one to an operator.
Decidable ==
    \A f \in Files : row[f] # NoRow => Verdict(f, row[f]) # "unresolved"

-----------------------------------------------------------------------------
(***************************************************************************)
(* The inductive invariants.                                               *)
(***************************************************************************)
\* The content lock and the operations in flight agree.
LockInv(f) ==
    /\ (lock[f] = "writer") <=> Writing(f)
    /\ (lock[f] = "rotator") <=> rot[f].pc \notin {"idle", "listed"}
    /\ rot[f].pc # "idle" => pass = "rotate" /\ Encrypted(listed[f])
    /\ Writing(f) => pass \notin Settling

\* Sealed bytes hold a plaintext, a sealed row is not empty, and no backing file is torn.
BytesInv(f) ==
    /\ backing[f].seal # NoSeal => backing[f].val \in Vals
    /\ sidecar[f].seal # NoSeal => sidecar[f].val \in Vals
    /\ writer[f].next.seal # NoSeal => writer[f].next.val \in Vals
    /\ rot[f].next.seal # NoSeal => rot[f].next.val \in Vals
    /\ Encrypted(row[f]) => row[f].size = "full"
    /\ backing[f].val # "garbage"

\* Before its row moves a write has the old bytes in place, after it the new ones staged.
WriterInv(f) ==
    /\ writer[f].pc \in {"staging", "staged"} =>
          row[f] # NoRow /\ RowOf(backing[f]) = row[f]
    /\ writer[f].pc \in {"creating", "staging"} =>
          writer[f].next \in {Plain(v) : v \in Vals \cup {"empty"}}
    /\ writer[f].pc \in {"created", "staged", "committed"} =>
          /\ writer[f].next.val \in Vals \cup {"empty"}
          /\ writer[f].next.seal = NoSeal <=> writer[f].next.val = "empty"
          /\ writer[f].next.seal = NoSeal => writer[f].next.ver = 0
    /\ writer[f].pc \in {"staged", "committed"} => sidecar[f] = writer[f].next
    /\ writer[f].pc = "staged" /\ writer[f].next.seal # NoSeal =>
          writer[f].next.seal # backing[f].seal
    /\ writer[f].pc = "committed" => row[f] = RowOf(writer[f].next)
    /\ writer[f].pc \in {"creating", "created"} =>
          /\ f \notin trash \cup walk.todo \cup walk.at
          /\ ~Exists(sidecar[f])
    /\ writer[f].pc \in {"creating", "created", "trashed"} => row[f] = NoRow
    /\ writer[f].pc = "created" => backing[f] = writer[f].next

\* The same for the rotation of a file, which keeps the plaintext.
RotatorInv(f) ==
    /\ rot[f].pc \in {"staging", "staged", "cleared"} =>
          row[f] = listed[f] /\ RowOf(backing[f]) = row[f]
    /\ rot[f].pc \in {"staging", "staged", "cleared", "committed"} =>
          rot[f].next.val = backing[f].val
    /\ rot[f].pc \in {"staged", "cleared", "committed"} =>
          /\ sidecar[f] = rot[f].next
          /\ rot[f].next.seal # NoSeal
    /\ rot[f].pc = "committed" => row[f] = RowOf(rot[f].next)

\* A verdict of the walk still fits when it is carried out: the rows it was reached with
\* are current, except for files trashed since.
WalkInv(f) ==
    /\ pass \notin Settling => walk = NoWalk
    /\ walk.at = {} \/ \E g \in Files : walk.at = {g}
    /\ pass # "repair" /\ walk.loaded /\ f \in walk.todo \cup walk.at =>
          walk.rows[f] = row[f] \/ row[f] = NoRow
    /\ pass # "repair" /\ f \in walk.at /\ walk.verdict = "promote" =>
          Encrypted(sidecar[f])
    /\ pass # "repair" /\ f \in walk.at /\ row[f] # NoRow =>
          /\ walk.verdict = "promote" => RowOf(sidecar[f]) = row[f]
          /\ walk.verdict = "discard" => RowOf(backing[f]) = row[f]

\* The row describes the backing file, or a sidecar that authenticates under it, or what
\* an operation in flight is about to put in place.
RowInv(f) ==
    /\ f \in trash => row[f] = NoRow
    /\ row[f] # NoRow =>
          \/ RowOf(backing[f]) = row[f]
          \/ Encrypted(row[f]) /\ RowOf(sidecar[f]) = row[f]
          \/ writer[f].pc = "committed"
          \/ Repairing(f) /\ RowOf(backing[f]) = walk.rows[f]
    /\ Repairing(f) =>
          /\ Encrypted(walk.rows[f]) /\ walk.rows[f].size = "full"
          /\ ~Encrypted(row[f])
          /\ row[f] # NoRow => RowOf(backing[f]) = walk.rows[f]

\* While repairAtRest is still to come, a cached entry without an IV means plaintext.
EntryInv(f) ==
    /\ pass # "idle" => repaired
    /\ ~repaired \/ pass \in {"startup walk", "repair"} =>
          (row[f] # NoRow /\ ~Encrypted(entry[f]) => backing[f].seal = NoSeal)

\* Inductive for ContentSurvives when no event of ContentEvents is admitted.
FileInv(f) ==
    /\ LockInv(f) /\ BytesInv(f) /\ WriterInv(f)
    /\ RotatorInv(f) /\ WalkInv(f) /\ RowInv(f) /\ EntryInv(f)

ContentInv == \A f \in Files : FileInv(f)

\* Memory and database agree on the key, except while a prepare is between its database and
\* its memory half or was cut off there (the database is one version ahead), inside finish,
\* and after a finish whose COMMIT was in doubt (memory alone keeps the old key).  At most
\* one prepare is under way, and none while memory holds an outgoing key.
KeyStateInv ==
    /\ dbKey = memKey \/ (dbKey = memKey + 1 /\ dbPending = {memKey} /\ memOld = 0)
    /\ dbKey = memKey => dbPending = {} \/ dbPending = {memOld}
    /\ memOld = 0 \/ memOld + 1 = memKey
    /\ 0 \notin dbPending
    /\ checked = 0 \/ (checked = 1 /\ minted = {} /\ dbPending = {} /\ memOld = 0)
    /\ minted = {} \/ (minted = {dbKey} /\ dbKey = memKey + 1)
    /\ pass \in {"rotation walk", "rotate", "finish", "finishing"} => memOld # 0
    /\ pass = "finishing" => dbPending = {}

\* What a user operation is about to put in a row is sealed under a key that is held.
WriterKeyed(f) ==
    writer[f].pc \in InFlight =>
        /\ writer[f].key \in Held
        /\ writer[f].next.seal # NoSeal => writer[f].next.ver = writer[f].key

\* What a rotation puts in a row is sealed under the current key.
RotKeyed(f) ==
    /\ rot[f].pc # "idle" => pass = "rotate"
    /\ rot[f].pc \in {"staged", "cleared", "committed"} => rot[f].next.ver = memKey

\* What repairAtRest is about to put in a row is sealed under a key that is held.
RepairKeyed(f) ==
    Repairing(f) /\ Encrypted(walk.rows[f]) => walk.rows[f].ver \in Held

\* Once the pass has decided to finish, and as long as memory alone keeps the old key,
\* nothing is left on the previous key.
FinishInv(f) ==
    pass = "finish" \/ (memOld # 0 /\ dbPending = {}) =>
        /\ Encrypted(row[f]) => row[f].ver = memKey
        /\ writer[f].pc \in InFlight => writer[f].key = memKey
        /\ Repairing(f) /\ Encrypted(walk.rows[f]) => walk.rows[f].ver = memKey

\* Inductive for KeyHeld when no event of KeyEvents is admitted.
KeyInv ==
    /\ KeyStateInv
    /\ \A f \in Files : /\ WriterKeyed(f) /\ RotKeyed(f) /\ RepairKeyed(f)
                        /\ RowKeyed(f) /\ FinishInv(f)

\* Two copies under one IV hold the same plaintext, so it does not matter which of them a
\* row is found to describe; and a row that exists describes something.
CopyInv(f) ==
    /\ backing[f].seal = sidecar[f].seal /\ backing[f].seal # NoSeal =>
          backing[f].val = sidecar[f].val
    /\ row[f].size = "gone" => row[f] = NoRow

\* Inductive for ImplementsContentStore, with ContentInv.
CopiesAgree == \A f \in Files : CopyInv(f)

\* What the user asked for and is not yet visible.
Asked(f) == IF writer[f].pc \in InFlight
              THEN writer[f].next.val ELSE "gone"

Store == INSTANCE ContentStore
           WITH Contents <- Vals \cup {"empty"}, Gone <- "gone",
                content <- [f \in Files |-> Live(f)],
                asked <- [f \in Files |-> Asked(f)]

\* Sealing, sidecars, recovery, repair, rotation and crashes are invisible: a file's
\* content changes only when a user operation takes effect, in one step, to exactly what
\* that operation asked for.
ImplementsContentStore == Store!Spec

\* A rotation that the daemon knows of finishes ("the next sync pass retries", Local.cpp), unless
\* files stay open through FUSE, steps keep failing or nobody asks for a pass after one
\* that failed.
RotationFinishes ==
    \/ []<>(open # {})
    \/ []<><<Fault>>_vars
    \/ <>[]PassFailed
    \/ (dbRotating /\ memRotating ~> ~dbRotating)

=============================================================================
