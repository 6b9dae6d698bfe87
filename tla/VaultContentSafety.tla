------------------------- MODULE VaultContentSafety -------------------------
(***************************************************************************)
(* The content argument about VaultContent: ContentInv is inductive, so    *)
(* every row is always described by bytes on disk; and VaultContent        *)
(* implements ContentStore: to its users a vault is one register per file, *)
(* whatever sealing, sidecars, recovery, repair, rotation and crashes do   *)
(* underneath.  Holds for every set of files, plaintexts and IVs and every *)
(* bound on keys and crashes, with or without the events of KeyEvents.     *)
(***************************************************************************)
EXTENDS VaultContentFiles

\* Zenon is the prover of a leaf that names none.
USE ZenonT(120)

-----------------------------------------------------------------------------
\* No step of prepare_key_rotation touches a file.
LEMMA PrepareTouches ==
    ASSUME PrepareCheck \/ PrepareStep
    PROVE  UNCHANGED <<disk, lock, writer, open, entry, passVars, crashes>>
  BY DEF PrepareCheck, PrepareStep, PrepareDb, PrepareDbInDoubt, RotateVaultKey,
         PrepareDbFail, PrepareMem

\* So it keeps ContentInv.
LEMMA PrepareKeeps ==
    ASSUME Sheltered, TypeOK, ContentInv, PrepareCheck \/ PrepareStep
    PROVE  ContentInv'
<1> SUFFICES ASSUME NEW g \in Files PROVE FileInv(g)'
  BY DEF ContentInv
<1>1. FileInv(g)
  BY DEF ContentInv
<1>2. /\ row'[g] = row[g] /\ backing'[g] = backing[g] /\ sidecar'[g] = sidecar[g] /\ lock'[g] = lock[g] /\ writer'[g] = writer[g] /\ rot'[g] = rot[g] /\ listed'[g] = listed[g] /\ entry'[g] = entry[g]
      /\ pass' = pass /\ repaired' = repaired /\ walk' = walk /\ trash' = trash
  BY PrepareTouches DEF disk, passVars
<1> QED BY <1>1, <1>2, FileFrame

\* The pass goes on to let the old key go.
LEMMA FinishDbKeeps ==
    ASSUME Sheltered, TypeOK, ContentInv, FinishDb \/ FinishDbFail
    PROVE  ContentInv'
<1> SUFFICES ASSUME NEW g \in Files PROVE FileInv(g)'
  BY DEF ContentInv
<1>1. FileInv(g)
  BY DEF ContentInv
<1>2. /\ pass' \in {"idle", "finishing"}
      /\ row'[g] = row[g] /\ backing'[g] = backing[g] /\ sidecar'[g] = sidecar[g] /\ lock'[g] = lock[g] /\ writer'[g] = writer[g] /\ rot'[g] = rot[g] /\ listed'[g] = listed[g] /\ entry'[g] = entry[g]
      /\ repaired' = repaired /\ walk' = walk /\ trash' = trash
  BY DEF disk, FinishDb, FinishDbFail
<1>3. /\ pass = "finish"
      /\ walk.at = {} /\ walk.todo = {} /\ ~walk.loaded /\ walk = NoWalk
  BY <1>1, QuietWalk DEF FinishDb, FinishDbFail, Settling
<1>4. rot[g].pc = "idle"
  BY <1>1, <1>3 DEF FileInv, LockInv
<1>11. LockInv(g)'
  BY <1>1, <1>2, <1>3, <1>4 DEF FileInv, LockInv, Writing, Settling
<1>12. BytesInv(g)'
  BY <1>1, <1>2 DEF FileInv, BytesInv
<1>13. WriterInv(g)'
  BY <1>1, <1>2 DEF FileInv, WriterInv
<1>14. RotatorInv(g)'
  BY <1>1, <1>2 DEF FileInv, RotatorInv
<1>15. WalkInv(g)'
  BY <1>2, <1>3 DEF WalkInv, Encrypted
<1>16. RowInv(g)'
  BY <1>1, <1>2, <1>3 DEF FileInv, RowInv, Repairing
<1>17. EntryInv(g)'
  BY <1>1, <1>2, <1>3 DEF FileInv, EntryInv
<1> QED
  BY <1>11, <1>12, <1>13, <1>14, <1>15, <1>16, <1>17 DEF FileInv

\* The pass ends.
LEMMA FinishMemKeeps ==
    ASSUME Sheltered, TypeOK, ContentInv, FinishMem
    PROVE  ContentInv'
<1> SUFFICES ASSUME NEW g \in Files PROVE FileInv(g)'
  BY DEF ContentInv
<1>1. FileInv(g)
  BY DEF ContentInv
<1>2. /\ pass' = "idle"
      /\ row'[g] = row[g] /\ backing'[g] = backing[g] /\ sidecar'[g] = sidecar[g] /\ lock'[g] = lock[g] /\ writer'[g] = writer[g] /\ rot'[g] = rot[g] /\ listed'[g] = listed[g] /\ entry'[g] = entry[g]
      /\ repaired' = repaired /\ walk' = walk /\ trash' = trash
  BY DEF TypeOK, disk, passVars, FinishMem
<1>3. /\ pass = "finishing"
      /\ walk.at = {} /\ walk.todo = {} /\ ~walk.loaded /\ walk = NoWalk
  BY <1>1, QuietWalk DEF FinishMem, Settling
<1>4. rot[g].pc = "idle"
  BY <1>1, <1>3 DEF FileInv, LockInv
<1>11. LockInv(g)'
  BY <1>1, <1>2, <1>3, <1>4 DEF FileInv, LockInv, Writing, Settling
<1>12. BytesInv(g)'
  BY <1>1, <1>2 DEF FileInv, BytesInv
<1>13. WriterInv(g)'
  BY <1>1, <1>2 DEF FileInv, WriterInv
<1>14. RotatorInv(g)'
  BY <1>1, <1>2 DEF FileInv, RotatorInv
<1>15. WalkInv(g)'
  BY <1>2, <1>3 DEF WalkInv, Encrypted
<1>16. RowInv(g)'
  BY <1>1, <1>2, <1>3 DEF FileInv, RowInv, Repairing
<1>17. EntryInv(g)'
  BY <1>1, <1>2, <1>3 DEF FileInv, EntryInv
<1> QED
  BY <1>11, <1>12, <1>13, <1>14, <1>15, <1>16, <1>17 DEF FileInv

\* Every rotation has ended when the pass does.
LEMMA RotationDoneKeeps ==
    ASSUME Sheltered, TypeOK, ContentInv, RotationDone
    PROVE  ContentInv'
<1> SUFFICES ASSUME NEW g \in Files PROVE FileInv(g)'
  BY DEF ContentInv
<1>1. FileInv(g)
  BY DEF ContentInv
<1>2. /\ pass' \in {"finish", "idle"}
      /\ listed'[g] = NoRow
      /\ row'[g] = row[g] /\ backing'[g] = backing[g] /\ sidecar'[g] = sidecar[g] /\ lock'[g] = lock[g] /\ writer'[g] = writer[g] /\ rot'[g] = rot[g] /\ entry'[g] = entry[g]
      /\ repaired' = repaired /\ walk' = walk /\ trash' = trash
  BY DEF TypeOK, disk, passVars, RotationDone, NoRows
<1>3. /\ pass = "rotate"
      /\ walk.at = {} /\ walk.todo = {} /\ ~walk.loaded /\ walk = NoWalk
  BY <1>1, QuietWalk DEF RotationDone, Settling
<1>4. rot[g].pc = "idle"
  <2>1. rot[g] = NoRot
    BY DEF RotationDone
  <2> QED
    BY <2>1, SMTT(60) DEF NoRot, RotAt
<1>11. LockInv(g)'
  BY <1>1, <1>2, <1>3, <1>4 DEF FileInv, LockInv, Writing, Settling
<1>12. BytesInv(g)'
  BY <1>1, <1>2 DEF FileInv, BytesInv
<1>13. WriterInv(g)'
  BY <1>1, <1>2 DEF FileInv, WriterInv
<1>14. RotatorInv(g)'
  BY <1>2, <1>4 DEF RotatorInv
<1>15. WalkInv(g)'
  BY <1>2, <1>3 DEF WalkInv, Encrypted
<1>16. RowInv(g)'
  BY <1>1, <1>2, <1>3 DEF FileInv, RowInv, Repairing
<1>17. EntryInv(g)'
  BY <1>1, <1>2, <1>3 DEF FileInv, EntryInv
<1> QED
  BY <1>11, <1>12, <1>13, <1>14, <1>15, <1>16, <1>17 DEF FileInv

\* Nothing is rotated yet when the rows are listed.
LEMMA RotationListKeeps ==
    ASSUME Sheltered, TypeOK, ContentInv, RotationList
    PROVE  ContentInv'
<1> SUFFICES ASSUME NEW g \in Files PROVE FileInv(g)'
  BY DEF ContentInv
<1>1. FileInv(g)
  BY DEF ContentInv
<1>2. /\ pass' = "rotate"
      /\ walk' = NoWalk
      /\ listed'[g] = (IF g \in Pending THEN row[g] ELSE NoRow)
      /\ rot'[g].pc = (IF g \in Pending THEN "listed" ELSE "idle") /\ rot'[g].next = NoBytes
      /\ row'[g] = row[g] /\ backing'[g] = backing[g] /\ sidecar'[g] = sidecar[g] /\ lock'[g] = lock[g] /\ writer'[g] = writer[g] /\ entry'[g] = entry[g]
      /\ repaired' = repaired /\ trash' = trash
  BY DEF TypeOK, disk, passVars, RotationList, RotAt
<1>3. pass \in Settling /\ pass # "rotate"
  BY DEF RotationList, Settling
<1>4. rot[g].pc = "idle" /\ ~Writing(g) /\ lock[g] = "free"
  BY <1>1, <1>3, WhileSettling
<1>5. walk'.at = {} /\ walk'.todo = {} /\ ~walk'.loaded
  BY <1>2 DEF NoWalk, WalkOver, WalkAt
<1>6. pass = "rotation walk" /\ walk.at = {} /\ repaired /\ NoBytes.seal = NoSeal
  BY <1>1 DEF RotationList, FileInv, EntryInv, NoBytes, Plain
<1>7. g \in Pending => Encrypted(row[g])
  BY DEF Pending
<1>11. LockInv(g)'
  BY <1>1, <1>2, <1>4, <1>7 DEF FileInv, LockInv, Writing, Settling
<1>12. BytesInv(g)'
  BY <1>1, <1>2, <1>6 DEF FileInv, BytesInv
<1>13. WriterInv(g)'
  BY <1>1, <1>2, <1>5 DEF FileInv, WriterInv
<1>14. RotatorInv(g)'
  BY <1>2 DEF RotatorInv
<1>15. WalkInv(g)'
  BY <1>2, <1>5 DEF WalkInv
<1>16. RowInv(g)'
  BY <1>1, <1>2, <1>6 DEF FileInv, RowInv, Repairing
<1>17. EntryInv(g)'
  BY <1>2, <1>6 DEF EntryInv
<1> QED
  BY <1>11, <1>12, <1>13, <1>14, <1>15, <1>16, <1>17 DEF FileInv

\* The walk reads the rows.
LEMMA WalkLoadKeeps ==
    ASSUME Sheltered, TypeOK, ContentInv, WalkLoad
    PROVE  ContentInv'
<1> SUFFICES ASSUME NEW g \in Files PROVE FileInv(g)'
  BY DEF ContentInv
<1>1. FileInv(g)
  BY DEF ContentInv
<1>2. /\ walk' = WalkAt(walk.todo, TRUE, row, {}, "none")
      /\ row'[g] = row[g] /\ backing'[g] = backing[g] /\ sidecar'[g] = sidecar[g] /\ lock'[g] = lock[g] /\ writer'[g] = writer[g] /\ rot'[g] = rot[g] /\ listed'[g] = listed[g] /\ entry'[g] = entry[g]
      /\ pass' = pass /\ repaired' = repaired /\ trash' = trash
  BY DEF TypeOK, disk, passVars, WalkLoad
<1>3. pass \in Settling /\ pass # "rotate"
  BY DEF WalkLoad, Settling
<1>4. rot[g].pc = "idle" /\ ~Writing(g) /\ lock[g] = "free"
  BY <1>1, <1>3, WhileSettling
<1>5. pass \in {"startup walk", "rotation walk"}
  BY DEF WalkLoad
<1>6. walk'.at = {} /\ walk'.todo \subseteq walk.todo
  BY <1>2 DEF WalkAt
<1>7. walk'.rows = row \/ walk'.todo = {}
  BY <1>2 DEF WalkAt
<1>11. LockInv(g)'
  BY <1>1, <1>2, <1>3, <1>4 DEF FileInv, LockInv, Writing
<1>12. BytesInv(g)'
  BY <1>1, <1>2 DEF FileInv, BytesInv
<1>13. WriterInv(g)'
  BY <1>1, <1>2, <1>6 DEF FileInv, WriterInv
<1>14. RotatorInv(g)'
  BY <1>2, <1>4 DEF RotatorInv
<1>15. WalkInv(g)'
  BY <1>1, <1>2, <1>3, <1>5, <1>6, <1>7 DEF WalkInv
<1>16. RowInv(g)'
  BY <1>1, <1>2, <1>5 DEF FileInv, RowInv, Repairing
<1>17. EntryInv(g)'
  BY <1>1, <1>2 DEF FileInv, EntryInv
<1> QED
  BY <1>11, <1>12, <1>13, <1>14, <1>15, <1>16, <1>17 DEF FileInv

\* A walk that stops early leaves every sidecar it did not reach.
LEMMA WalkPartialKeeps ==
    ASSUME Sheltered, TypeOK, ContentInv, WalkPartial
    PROVE  ContentInv'
<1> SUFFICES ASSUME NEW g \in Files PROVE FileInv(g)'
  BY DEF ContentInv
<1>1. FileInv(g)
  BY DEF ContentInv
<1>2. /\ walk' = WalkAt({}, walk.loaded, walk.rows, {}, "none")
      /\ row'[g] = row[g] /\ backing'[g] = backing[g] /\ sidecar'[g] = sidecar[g] /\ lock'[g] = lock[g] /\ writer'[g] = writer[g] /\ rot'[g] = rot[g] /\ listed'[g] = listed[g] /\ entry'[g] = entry[g]
      /\ pass' = pass /\ repaired' = repaired /\ trash' = trash
  BY DEF TypeOK, disk, passVars, WalkPartial
<1>3. pass \in Settling /\ pass # "rotate"
  BY DEF WalkPartial, Settling
<1>4. rot[g].pc = "idle" /\ ~Writing(g) /\ lock[g] = "free"
  BY <1>1, <1>3, WhileSettling
<1>5. pass \in {"startup walk", "rotation walk"}
  BY DEF WalkPartial
<1>6. walk'.at = {} /\ walk'.todo \subseteq walk.todo
  BY <1>2 DEF WalkAt
<1>7. walk'.rows = row \/ walk'.todo = {}
  BY <1>2 DEF WalkAt
<1>11. LockInv(g)'
  BY <1>1, <1>2, <1>3, <1>4 DEF FileInv, LockInv, Writing
<1>12. BytesInv(g)'
  BY <1>1, <1>2 DEF FileInv, BytesInv
<1>13. WriterInv(g)'
  BY <1>1, <1>2, <1>6 DEF FileInv, WriterInv
<1>14. RotatorInv(g)'
  BY <1>2, <1>4 DEF RotatorInv
<1>15. WalkInv(g)'
  BY <1>1, <1>2, <1>3, <1>5, <1>6, <1>7 DEF WalkInv
<1>16. RowInv(g)'
  BY <1>1, <1>2, <1>5 DEF FileInv, RowInv, Repairing
<1>17. EntryInv(g)'
  BY <1>1, <1>2 DEF FileInv, EntryInv
<1> QED
  BY <1>11, <1>12, <1>13, <1>14, <1>15, <1>16, <1>17 DEF FileInv

\* Repair follows the walk over the rows there are.
LEMMA StartupWalkDoneKeeps ==
    ASSUME Sheltered, TypeOK, ContentInv, StartupWalkDone
    PROVE  ContentInv'
<1> SUFFICES ASSUME NEW g \in Files PROVE FileInv(g)'
  BY DEF ContentInv
<1>1. FileInv(g)
  BY DEF ContentInv
<1>2. /\ pass' = "repair"
      /\ walk' = WalkOver({h \in Files : row[h] # NoRow})
      /\ row'[g] = row[g] /\ backing'[g] = backing[g] /\ sidecar'[g] = sidecar[g] /\ lock'[g] = lock[g] /\ writer'[g] = writer[g] /\ rot'[g] = rot[g] /\ listed'[g] = listed[g] /\ entry'[g] = entry[g]
      /\ repaired' = repaired /\ trash' = trash
  BY DEF TypeOK, disk, passVars, StartupWalkDone
<1>3. pass \in Settling /\ pass # "rotate"
  BY DEF StartupWalkDone, Settling
<1>4. rot[g].pc = "idle" /\ ~Writing(g) /\ lock[g] = "free"
  BY <1>1, <1>3, WhileSettling
<1>5. pass = "startup walk" /\ walk.at = {}
  BY DEF StartupWalkDone
<1>6. walk'.at = {} /\ walk'.todo = {h \in Files : row[h] # NoRow}
  BY <1>2 DEF WalkOver, WalkAt
<1>7. pass' = "repair" /\ pass' \in Settling
  BY <1>2 DEF Settling
<1>11. LockInv(g)'
  BY <1>1, <1>2, <1>4, <1>7 DEF FileInv, LockInv, Writing
<1>12. BytesInv(g)'
  BY <1>1, <1>2 DEF FileInv, BytesInv
<1>13. WriterInv(g)'
  BY <1>1, <1>2, <1>6 DEF FileInv, WriterInv
<1>14. RotatorInv(g)'
  BY <1>2, <1>4 DEF RotatorInv
<1>15. WalkInv(g)'
  BY <1>6, <1>7 DEF WalkInv
<1>16. RowInv(g)'
  BY <1>1, <1>2, <1>5, <1>6 DEF FileInv, RowInv, Repairing
<1>17. EntryInv(g)'
  BY <1>1, <1>2, <1>5 DEF FileInv, EntryInv
<1> QED
  BY <1>11, <1>12, <1>13, <1>14, <1>15, <1>16, <1>17 DEF FileInv

\* The sweep follows the repair.
LEMMA RepairDoneKeeps ==
    ASSUME Sheltered, TypeOK, ContentInv, RepairDone
    PROVE  ContentInv'
<1> SUFFICES ASSUME NEW g \in Files PROVE FileInv(g)'
  BY DEF ContentInv
<1>1. FileInv(g)
  BY DEF ContentInv
<1>2. /\ pass' = "sweep"
      /\ walk' = NoWalk
      /\ row'[g] = row[g] /\ backing'[g] = backing[g] /\ sidecar'[g] = sidecar[g] /\ lock'[g] = lock[g] /\ writer'[g] = writer[g] /\ rot'[g] = rot[g] /\ listed'[g] = listed[g] /\ entry'[g] = entry[g]
      /\ repaired' = repaired /\ trash' = trash
  BY DEF TypeOK, disk, passVars, RepairDone
<1>3. pass \in Settling /\ pass # "rotate"
  BY DEF RepairDone, Settling
<1>4. rot[g].pc = "idle" /\ ~Writing(g) /\ lock[g] = "free"
  BY <1>1, <1>3, WhileSettling
<1>5. pass = "repair" /\ walk.at = {} /\ repaired
  BY <1>1 DEF RepairDone, FileInv, EntryInv
<1>6. walk'.at = {} /\ walk'.todo = {} /\ ~walk'.loaded
  BY <1>2 DEF NoWalk, WalkOver, WalkAt
<1>7. pass' \notin Settling /\ pass' # "repair" /\ pass' # "idle"
  BY <1>2 DEF Settling
<1>11. LockInv(g)'
  BY <1>1, <1>2, <1>4, <1>7 DEF FileInv, LockInv, Writing
<1>12. BytesInv(g)'
  BY <1>1, <1>2 DEF FileInv, BytesInv
<1>13. WriterInv(g)'
  BY <1>1, <1>2, <1>6 DEF FileInv, WriterInv
<1>14. RotatorInv(g)'
  BY <1>2, <1>4 DEF RotatorInv
<1>15. WalkInv(g)'
  BY <1>2, <1>6, <1>7 DEF WalkInv
<1>16. RowInv(g)'
  BY <1>1, <1>2, <1>5, <1>6 DEF FileInv, RowInv, Repairing
<1>17. EntryInv(g)'
  BY <1>2, <1>5 DEF EntryInv
<1> QED
  BY <1>11, <1>12, <1>13, <1>14, <1>15, <1>16, <1>17 DEF FileInv

\* A file that needs no repair is passed over.
LEMMA RepairSkipKeeps ==
    ASSUME Sheltered, TypeOK, ContentInv, NEW f \in Files, RepairSkip(f)
    PROVE  ContentInv'
<1> SUFFICES ASSUME NEW g \in Files PROVE FileInv(g)'
  BY DEF ContentInv
<1>1. FileInv(g)
  BY DEF ContentInv
<1>2. /\ walk' = WalkOver(walk.todo \ {f})
      /\ row'[g] = row[g] /\ backing'[g] = backing[g] /\ sidecar'[g] = sidecar[g] /\ lock'[g] = lock[g] /\ writer'[g] = writer[g] /\ rot'[g] = rot[g] /\ listed'[g] = listed[g] /\ entry'[g] = entry[g]
      /\ pass' = pass /\ repaired' = repaired /\ trash' = trash
  BY DEF TypeOK, disk, passVars, RepairSkip
<1>3. pass \in Settling /\ pass # "rotate"
  BY DEF RepairSkip, Settling
<1>4. rot[g].pc = "idle" /\ ~Writing(g) /\ lock[g] = "free"
  BY <1>1, <1>3, WhileSettling
<1>5. pass = "repair" /\ walk.at = {}
  BY DEF RepairSkip
<1>6. walk'.at = {} /\ walk'.todo \subseteq walk.todo
  BY <1>2 DEF WalkOver, WalkAt
<1>11. LockInv(g)'
  BY <1>1, <1>2, <1>3, <1>4 DEF FileInv, LockInv, Writing
<1>12. BytesInv(g)'
  BY <1>1, <1>2 DEF FileInv, BytesInv
<1>13. WriterInv(g)'
  BY <1>1, <1>2, <1>6 DEF FileInv, WriterInv
<1>14. RotatorInv(g)'
  BY <1>2, <1>4 DEF RotatorInv
<1>15. WalkInv(g)'
  BY <1>2, <1>3, <1>5, <1>6 DEF WalkInv
<1>16. RowInv(g)'
  BY <1>1, <1>2, <1>5, <1>6 DEF FileInv, RowInv, Repairing
<1>17. EntryInv(g)'
  BY <1>1, <1>2 DEF FileInv, EntryInv
<1> QED
  BY <1>11, <1>12, <1>13, <1>14, <1>15, <1>16, <1>17 DEF FileInv

\* A pass starts settling only when no write is in flight.
LEMMA PassBeginKeeps ==
    ASSUME Sheltered, TypeOK, ContentInv, PassBegin
    PROVE  ContentInv'
<1> SUFFICES ASSUME NEW g \in Files PROVE FileInv(g)'
  BY DEF ContentInv
<1>1. FileInv(g)
  BY DEF ContentInv
<1>2. /\ \/ pass' = "sweep" /\ walk' = walk
         \/ pass' = "startup walk" /\ walk' = WalkOver(Found) /\ ~Writing(g) /\ ~repaired
      /\ repaired' = TRUE
      /\ row'[g] = row[g] /\ backing'[g] = backing[g] /\ sidecar'[g] = sidecar[g] /\ lock'[g] = lock[g] /\ writer'[g] = writer[g] /\ rot'[g] = rot[g] /\ listed'[g] = listed[g] /\ entry'[g] = entry[g]
      /\ trash' = trash
  <2>1. \A stage : StartWalk(stage) => pass' = stage /\ walk' = WalkOver(Found) /\ ~Writing(g)
    BY Shelter DEF StartWalk
  <2> QED
    BY <2>1 DEF TypeOK, disk, passVars, PassBegin
<1>3. pass = "idle" /\ walk.at = {} /\ walk.todo = {} /\ ~walk.loaded /\ walk = NoWalk
  BY <1>1, QuietWalk DEF PassBegin, Settling
<1>4. rot[g].pc = "idle"
  BY <1>1, <1>3 DEF FileInv, LockInv
<1>5. walk'.at = {} /\ walk'.todo \subseteq Found /\ ~walk'.loaded
  <2>1. CASE walk' = walk
    BY <1>3, <2>1
  <2>2. CASE walk' = WalkOver(Found)
    BY <2>2 DEF WalkOver, WalkAt
  <2> QED
    BY <1>2, <2>1, <2>2
<1>6. pass' # "repair" /\ pass' # "idle" /\ (Writing(g) => pass' \notin Settling)
      /\ (pass' \notin Settling => walk' = NoWalk)
  BY <1>2, <1>3 DEF Settling
<1>7. ~repaired \/ pass' # "startup walk"
  BY <1>2
<1>11. LockInv(g)'
  BY <1>1, <1>2, <1>4, <1>6 DEF FileInv, LockInv, Writing
<1>12. BytesInv(g)'
  BY <1>1, <1>2 DEF FileInv, BytesInv
<1>13. WriterInv(g)'
  BY <1>1, <1>2, <1>5 DEF FileInv, WriterInv, Found
<1>14. RotatorInv(g)'
  BY <1>2, <1>4 DEF RotatorInv
<1>15. WalkInv(g)'
  BY <1>5, <1>6 DEF WalkInv
<1>16. RowInv(g)'
  BY <1>1, <1>2, <1>3, <1>5, <1>6 DEF FileInv, RowInv, Repairing
<1>17. EntryInv(g)'
  BY <1>1, <1>2, <1>6, <1>7 DEF FileInv, EntryInv
<1> QED
  BY <1>11, <1>12, <1>13, <1>14, <1>15, <1>16, <1>17 DEF FileInv

\* Only backing files of trashed rows are swept.
LEMMA SweepKeeps ==
    ASSUME Sheltered, TypeOK, ContentInv, Sweep
    PROVE  ContentInv'
<1> SUFFICES ASSUME NEW g \in Files PROVE FileInv(g)'
  BY DEF ContentInv
<1>1. FileInv(g)
  BY DEF ContentInv
<1>2. /\ \/ pass' = "idle" /\ walk' = walk
         \/ pass' = "rotation walk" /\ walk' = WalkOver(Found) /\ ~Writing(g)
      /\ backing'[g] = (IF g \in trash THEN NoBytes ELSE backing[g])
      /\ row'[g] = row[g] /\ sidecar'[g] = sidecar[g] /\ lock'[g] = lock[g] /\ writer'[g] = writer[g] /\ rot'[g] = rot[g] /\ listed'[g] = listed[g] /\ entry'[g] = entry[g]
      /\ repaired' = repaired /\ trash' = trash
  <2>1. \A stage : StartWalk(stage) => pass' = stage /\ walk' = WalkOver(Found) /\ ~Writing(g)
    BY Shelter DEF StartWalk
  <2> QED
    BY <2>1 DEF TypeOK, disk, passVars, Sweep
<1>3. pass = "sweep" /\ walk.at = {} /\ walk.todo = {} /\ ~walk.loaded /\ walk = NoWalk
  BY <1>1, QuietWalk DEF Sweep, Settling
<1>4. rot[g].pc = "idle" /\ repaired
  BY <1>1, <1>3 DEF FileInv, LockInv, EntryInv
<1>5. walk'.at = {} /\ walk'.todo \subseteq Found /\ ~walk'.loaded
  <2>1. CASE walk' = walk
    BY <1>3, <2>1
  <2>2. CASE walk' = WalkOver(Found)
    BY <2>2 DEF WalkOver, WalkAt
  <2> QED
    BY <1>2, <2>1, <2>2
<1>6. pass' # "repair" /\ pass' # "startup walk" /\ (Writing(g) => pass' \notin Settling)
      /\ (pass' \notin Settling => walk' = NoWalk)
  BY <1>2, <1>3 DEF Settling
<1>7. NoBytes.seal = NoSeal /\ NoBytes.val = "gone"
  BY DEF NoBytes, Plain
<1>8. g \in trash => row[g] = NoRow
  BY <1>1 DEF FileInv, RowInv
<1>11. LockInv(g)'
  BY <1>1, <1>2, <1>4, <1>6 DEF FileInv, LockInv, Writing
<1>12. BytesInv(g)'
  BY <1>1, <1>2, <1>7 DEF FileInv, BytesInv
<1>13. WriterInv(g)'
  BY <1>1, <1>2, <1>5, <1>8 DEF FileInv, WriterInv, Found
<1>14. RotatorInv(g)'
  BY <1>2, <1>4 DEF RotatorInv
<1>15. WalkInv(g)'
  BY <1>5, <1>6 DEF WalkInv
<1>16. RowInv(g)'
  BY <1>1, <1>2, <1>3, <1>5, <1>6, <1>8 DEF FileInv, RowInv, Repairing
<1>17. EntryInv(g)'
  BY <1>1, <1>2, <1>4, <1>6 DEF FileInv, EntryInv
<1> QED
  BY <1>11, <1>12, <1>13, <1>14, <1>15, <1>16, <1>17 DEF FileInv

\* A verdict names bytes that the row the walk has read describes.
LEMMA WalkJudgeKeeps ==
    ASSUME Sheltered, TypeOK, ContentInv, NEW f \in Files, WalkJudge(f)
    PROVE  ContentInv'
<1> SUFFICES ASSUME NEW g \in Files PROVE FileInv(g)'
  BY DEF ContentInv
<1>1. FileInv(g)
  BY DEF ContentInv
<1>2. /\ walk' = WalkAt(walk.todo \ {f}, TRUE, walk.rows, {f}, Verdict(f, walk.rows[f]))
      /\ row'[g] = row[g] /\ backing'[g] = backing[g] /\ sidecar'[g] = sidecar[g] /\ lock'[g] = lock[g] /\ writer'[g] = writer[g] /\ rot'[g] = rot[g] /\ listed'[g] = listed[g] /\ entry'[g] = entry[g]
      /\ pass' = pass /\ repaired' = repaired /\ trash' = trash
  BY DEF TypeOK, disk, passVars, WalkJudge
<1>3. pass \in Settling /\ pass # "rotate"
  BY DEF WalkJudge, Settling
<1>4. rot[g].pc = "idle" /\ ~Writing(g) /\ lock[g] = "free"
  BY <1>1, <1>3, WhileSettling
<1>5. pass \in {"startup walk", "rotation walk"} /\ walk.loaded /\ f \in walk.todo
  BY DEF WalkJudge
<1>6. /\ walk'.at = {f} /\ walk'.todo = walk.todo \ {f} /\ walk'.rows = walk.rows
      /\ walk'.verdict = Verdict(f, walk.rows[f])
  BY <1>2 DEF WalkAt
<1>7. walk.rows[f] \in Rows
  BY DEF TypeOK, WalkRecs
<1>8. ASSUME g = f, walk'.verdict = "promote" PROVE Encrypted(sidecar[f]) /\ (row[f] # NoRow => RowOf(sidecar[f]) = row[f])
  <2>1. Authenticates(sidecar[f], walk.rows[f])
    BY <1>6, <1>8, NoRowIsPlain DEF Verdict, Encrypted
  <2>2. sidecar[f].val \in Vals
    BY <1>1, <1>8, <2>1 DEF FileInv, BytesInv, Authenticates, Encrypted
  <2>3. Encrypted(sidecar[f])
    BY <2>1 DEF Authenticates, Encrypted
  <2>4. ASSUME row[f] # NoRow PROVE RowOf(sidecar[f]) = row[f]
    <3>1. walk.rows[f] = row[f]
      BY <1>1, <1>5, <1>8, <2>4 DEF FileInv, WalkInv
    <3>2. row[f].size = "full"
      BY <1>1, <1>8, <2>1, <3>1 DEF FileInv, BytesInv, Authenticates
    <3> QED
      BY <1>7, <2>1, <2>2, <3>1, <3>2, AuthenticIsDescribed
  <2> QED
    BY <2>3, <2>4
<1>9. ASSUME g = f, walk'.verdict = "discard", row[f] # NoRow PROVE RowOf(backing[f]) = row[f]
  <2>1. walk.rows[f] = row[f]
    BY <1>1, <1>5, <1>9 DEF FileInv, WalkInv
  <2>2. CASE ~Encrypted(row[f])
    BY <1>1, <1>4, <1>5, <1>9, <2>2 DEF FileInv, RowInv, Repairing, Writing
  <2>3. CASE Encrypted(row[f])
    <3>1. Authenticates(backing[f], row[f])
      BY <1>6, <1>9, <2>1, <2>3 DEF Verdict
    <3>2. backing[f].val \in Vals /\ row[f].size = "full"
      BY <1>1, <1>9, <2>3, <3>1 DEF FileInv, BytesInv, Authenticates, Encrypted
    <3> QED
      BY <1>7, <2>1, <3>1, <3>2, AuthenticIsDescribed
  <2> QED
    BY <2>2, <2>3
<1>11. LockInv(g)'
  BY <1>1, <1>2, <1>3, <1>4 DEF FileInv, LockInv, Writing
<1>12. BytesInv(g)'
  BY <1>1, <1>2 DEF FileInv, BytesInv
<1>13. WriterInv(g)'
  BY <1>1, <1>2, <1>5, <1>6 DEF FileInv, WriterInv
<1>14. RotatorInv(g)'
  BY <1>2, <1>4 DEF RotatorInv
<1>15. WalkInv(g)'
  BY <1>1, <1>2, <1>3, <1>5, <1>6, <1>8, <1>9 DEF FileInv, WalkInv
<1>16. RowInv(g)'
  BY <1>1, <1>2, <1>5 DEF FileInv, RowInv, Repairing
<1>17. EntryInv(g)'
  BY <1>1, <1>2 DEF FileInv, EntryInv
<1> QED
  BY <1>11, <1>12, <1>13, <1>14, <1>15, <1>16, <1>17 DEF FileInv

\* The row follows the bytes that were sealed for it.
LEMMA RepairRowKeeps ==
    ASSUME Sheltered, TypeOK, ContentInv, NEW f \in Files, RepairRow(f)
    PROVE  ContentInv'
<1> SUFFICES ASSUME NEW g \in Files PROVE FileInv(g)'
  BY DEF ContentInv
<1>1. FileInv(g)
  BY DEF ContentInv
<1>2. /\ g # f => row'[g] = row[g]
      /\ row[f] = NoRow => row'[f] = row[f]
      /\ row[f] # NoRow => row'[f] = walk.rows[f]
      /\ walk' = WalkOver(walk.todo)
      /\ backing'[g] = backing[g] /\ sidecar'[g] = sidecar[g] /\ lock'[g] = lock[g] /\ writer'[g] = writer[g] /\ rot'[g] = rot[g] /\ listed'[g] = listed[g] /\ entry'[g] = entry[g]
      /\ pass' = pass /\ repaired' = repaired /\ trash' = trash
  BY DEF TypeOK, disk, passVars, RepairRow
<1>3. pass \in Settling /\ pass # "rotate"
  BY DEF RepairRow, Settling
<1>4. rot[g].pc = "idle" /\ ~Writing(g) /\ lock[g] = "free"
  BY <1>1, <1>3, WhileSettling
<1>5. pass = "repair" /\ walk.at = {f}
  BY DEF RepairRow
<1>6. walk'.at = {} /\ walk'.todo = walk.todo
  BY <1>2 DEF WalkOver, WalkAt
<1>7. ASSUME g = f PROVE /\ Encrypted(walk.rows[f]) /\ walk.rows[f].size = "full" /\ ~Encrypted(row[f])
                         /\ (row[f] # NoRow => RowOf(backing[f]) = row[f] \/ RowOf(backing[f]) = walk.rows[f])
  BY <1>1, <1>4, <1>5, <1>7 DEF FileInv, RowInv, Repairing, Writing
<1>8. ASSUME g = f, row[f] # NoRow PROVE RowOf(backing[f]) = walk.rows[f]
  BY <1>1, <1>5, <1>7, <1>8 DEF FileInv, RowInv, Repairing
<1>9. row'[g] # NoRow => row[g] # NoRow
  BY <1>2
<1>11. LockInv(g)'
  BY <1>1, <1>2, <1>3, <1>4 DEF FileInv, LockInv, Writing
<1>12. BytesInv(g)'
  BY <1>1, <1>2, <1>7 DEF FileInv, BytesInv
<1>13. WriterInv(g)'
  BY <1>1, <1>2, <1>4, <1>6, <1>9 DEF FileInv, WriterInv, Writing
<1>14. RotatorInv(g)'
  BY <1>2, <1>4 DEF RotatorInv
<1>15. WalkInv(g)'
  BY <1>2, <1>3, <1>5, <1>6 DEF WalkInv
<1>16. RowInv(g)'
  BY <1>1, <1>2, <1>5, <1>6, <1>8 DEF FileInv, RowInv, Repairing
<1>17. EntryInv(g)'
  BY <1>1, <1>2, <1>9 DEF FileInv, EntryInv
<1> QED
  BY <1>11, <1>12, <1>13, <1>14, <1>15, <1>16, <1>17 DEF FileInv

\* Carrying out a verdict leaves the row described.
LEMMA WalkActKeeps ==
    ASSUME Sheltered, TypeOK, ContentInv, NEW f \in Files, WalkAct(f)
    PROVE  ContentInv'
<1> SUFFICES ASSUME NEW g \in Files PROVE FileInv(g)'
  BY DEF ContentInv
<1>1. FileInv(g)
  BY DEF ContentInv
<1>2. /\ g # f => backing'[g] = backing[g]
      /\ walk.verdict # "promote" \/ ~Exists(sidecar[f]) => backing'[f] = backing[f]
      /\ walk.verdict = "promote" /\ Exists(sidecar[f]) => backing'[f] = sidecar[f] /\ sidecar'[f] = NoBytes
      /\ g # f => sidecar'[g] = sidecar[g]
      /\ sidecar'[f] = sidecar[f] \/ sidecar'[f] = NoBytes
      /\ walk.verdict \notin {"promote", "discard"} => sidecar'[f] = sidecar[f]
      /\ g # f => entry'[g] = entry[g]
      /\ entry'[f] = entry[f] \/ entry'[f] = StateOf(walk.rows[f])
      /\ walk.verdict = "promote" /\ Exists(sidecar[f]) /\ row[f] # NoRow => entry'[f] = StateOf(walk.rows[f])
      /\ walk.verdict # "promote" \/ ~Exists(sidecar[f]) => entry'[f] = entry[f]
      /\ walk' = WalkAt(walk.todo, TRUE, walk.rows, {}, "none")
      /\ row'[g] = row[g] /\ lock'[g] = lock[g] /\ writer'[g] = writer[g] /\ rot'[g] = rot[g] /\ listed'[g] = listed[g]
      /\ pass' = pass /\ repaired' = repaired /\ trash' = trash
  BY ZenonT(120) DEF TypeOK, disk, passVars, WalkAct
<1>3. pass \in Settling /\ pass # "rotate"
  BY DEF WalkAct, Settling
<1>4. rot[g].pc = "idle" /\ ~Writing(g) /\ lock[g] = "free"
  BY <1>1, <1>3, WhileSettling
<1>5. pass \in {"startup walk", "rotation walk"} /\ walk.loaded /\ walk.at = {f}
  BY DEF WalkAct
<1>6. walk'.at = {} /\ walk'.todo = walk.todo /\ walk'.rows = walk.rows
  BY <1>2 DEF WalkAt
<1>7. NoBytes.seal = NoSeal /\ NoBytes.val = "gone" /\ StateOf(walk.rows[f]).seal = walk.rows[f].seal
  BY DEF NoBytes, Plain, StateOf
<1>8. ASSUME g = f
      PROVE  /\ writer[f].pc \notin {"creating", "created"}
             /\ walk.verdict = "promote" => sidecar[f].val \in Vals /\ sidecar[f].val # "garbage"
             /\ row[f] # NoRow =>
                   /\ walk.rows[f] = row[f]
                   /\ walk.verdict = "promote" => RowOf(sidecar[f]) = row[f]
                   /\ walk.verdict = "discard" => RowOf(backing[f]) = row[f]
  <2>1. writer[f].pc \notin {"creating", "created"}
    BY <1>1, <1>5, <1>8 DEF FileInv, WriterInv
  <2>2. walk.verdict = "promote" => sidecar[f].val \in Vals /\ sidecar[f].val # "garbage"
    BY <1>1, <1>5, <1>8, ContentAssumption DEF FileInv, WalkInv, BytesInv, Encrypted
  <2> QED
    BY <1>1, <1>5, <1>8, <2>1, <2>2 DEF FileInv, WalkInv
<1>9. CASE g # f
  <2>1. /\ backing'[g] = backing[g] /\ sidecar'[g] = sidecar[g] /\ entry'[g] = entry[g]
    BY <1>2, <1>9
  <2>2. LockInv(g)' /\ RotatorInv(g)'
    BY <1>1, <1>2, <1>3, <1>4, <2>1 DEF FileInv, LockInv, Writing, RotatorInv
  <2>3. BytesInv(g)' /\ EntryInv(g)'
    BY <1>1, <1>2, <2>1 DEF FileInv, BytesInv, EntryInv
  <2>4. WriterInv(g)'
    BY <1>1, <1>2, <1>6, <2>1 DEF FileInv, WriterInv
  <2>5. WalkInv(g)'
    BY <1>1, <1>2, <1>3, <1>5, <1>6, <2>1 DEF FileInv, WalkInv
  <2>6. RowInv(g)'
    BY <1>1, <1>2, <1>5, <1>6, <2>1 DEF FileInv, RowInv, Repairing
  <2> QED
    BY <2>2, <2>3, <2>4, <2>5, <2>6 DEF FileInv
<1>11. LockInv(g)'
  BY <1>1, <1>2, <1>3, <1>4 DEF FileInv, LockInv, Writing
<1>12. BytesInv(g)'
  BY <1>1, <1>2, <1>7, <1>8, <1>9 DEF FileInv, BytesInv
<1>13. WriterInv(g)'
  <2>1. CASE g = f
    BY <1>1, <1>2, <1>4, <1>6, <1>8, <2>1 DEF FileInv, WriterInv, Writing
  <2> QED
    BY <1>9, <2>1 DEF FileInv
<1>14. RotatorInv(g)'
  BY <1>2, <1>4 DEF RotatorInv
<1>15. WalkInv(g)'
  BY <1>1, <1>2, <1>3, <1>5, <1>6 DEF FileInv, WalkInv
<1>16. RowInv(g)'
  <2>1. CASE g = f
    <3>1. ~Repairing(f) /\ ~Repairing(f)'
      BY <1>2, <1>5, <1>6 DEF Repairing
    <3>2. ASSUME row[f] # NoRow
          PROVE  RowOf(backing[f])' = row[f] \/ (Encrypted(row[f]) /\ RowOf(sidecar[f])' = row[f])
      <4>1. RowOf(backing[f]) = row[f] \/ (Encrypted(row[f]) /\ RowOf(sidecar[f]) = row[f])
        BY <1>1, <1>4, <2>1, <3>1, <3>2 DEF FileInv, RowInv, Writing, Encrypted
      <4>2. CASE walk.verdict = "promote" /\ Exists(sidecar[f])
        BY <1>2, <1>8, <2>1, <3>2, <4>2
      <4>3. CASE walk.verdict = "discard"
        BY <1>2, <1>8, <2>1, <3>2, <4>3
      <4>4. CASE walk.verdict \notin {"promote", "discard"}
        BY <1>2, <4>1, <4>4
      <4>5. CASE walk.verdict = "promote" /\ ~Exists(sidecar[f])
        <5>1. RowOf(backing[f]) = row[f]
          BY <3>2, <4>1, <4>5 DEF Exists, NoRow
        <5> QED
          BY <1>2, <4>5, <5>1
      <4> QED
        BY <4>2, <4>3, <4>4, <4>5
    <3> QED
      BY <1>1, <1>2, <2>1, <3>1, <3>2 DEF FileInv, RowInv
  <2> QED
    BY <1>9, <2>1 DEF FileInv
<1>17. EntryInv(g)'
  <2>1. CASE g = f
    <3>1. CASE walk.verdict = "promote" /\ Exists(sidecar[f])
      <4>1. ASSUME row[f] # NoRow, ~Encrypted(entry'[f]) PROVE backing'[f].seal = NoSeal
        <5>1. entry'[f].seal = row[f].seal
          BY <1>2, <1>7, <1>8, <2>1, <3>1, <4>1
        <5>2. row[f].seal = sidecar[f].seal
          BY <1>8, <2>1, <3>1, <4>1, RowOfBytes
        <5> QED
          BY <1>2, <3>1, <4>1, <5>1, <5>2 DEF Encrypted
      <4> QED
        BY <1>1, <1>2, <2>1, <4>1 DEF FileInv, EntryInv
    <3>2. CASE ~(walk.verdict = "promote" /\ Exists(sidecar[f]))
      BY <1>1, <1>2, <2>1, <3>2 DEF FileInv, EntryInv
    <3> QED
      BY <3>1, <3>2
  <2> QED
    BY <1>9, <2>1 DEF FileInv
<1> QED
  BY <1>11, <1>12, <1>13, <1>14, <1>15, <1>16, <1>17 DEF FileInv

\* Legacy plaintext is sealed; the row is about to follow.
LEMMA RepairBytesKeeps ==
    ASSUME Sheltered, TypeOK, ContentInv, NEW f \in Files, RepairBytes(f)
    PROVE  ContentInv'
<1> SUFFICES ASSUME NEW g \in Files PROVE FileInv(g)'
  BY DEF ContentInv
<1>1. FileInv(g)
  BY DEF ContentInv
<1>0. PICK s \in FreshSeals(f) :
         LET b == Sealed(IF backing[f].seal = NoSeal THEN backing[f].val ELSE "garbage",
                         s, memKey)
         IN  /\ backing' = [backing EXCEPT ![f] = b]
             /\ walk' = WalkAt(walk.todo \ {f}, FALSE, [NoRows EXCEPT ![f] = RowOf(b)],
                               {f}, "none")
             /\ entry' = [entry EXCEPT ![f] = StateOf(b)]
  BY DEF RepairBytes
<1> DEFINE b == Sealed(IF backing[f].seal = NoSeal THEN backing[f].val ELSE "garbage",
                       s, memKey)
<1>2. /\ g # f => backing'[g] = backing[g]
      /\ backing'[f] = b
      /\ g # f => entry'[g] = entry[g]
      /\ entry'[f] = StateOf(b)
      /\ walk' = WalkAt(walk.todo \ {f}, FALSE, [NoRows EXCEPT ![f] = RowOf(b)], {f}, "none")
      /\ row'[g] = row[g] /\ sidecar'[g] = sidecar[g] /\ lock'[g] = lock[g] /\ writer'[g] = writer[g] /\ rot'[g] = rot[g] /\ listed'[g] = listed[g]
      /\ pass' = pass /\ repaired' = repaired /\ trash' = trash
  BY <1>0 DEF TypeOK, disk, passVars, RepairBytes
<1>3. pass \in Settling /\ pass # "rotate"
  BY DEF RepairBytes, Settling
<1>4. rot[g].pc = "idle" /\ ~Writing(g) /\ lock[g] = "free"
  BY <1>1, <1>3, WhileSettling
<1>5. /\ pass = "repair" /\ walk.at = {} /\ f \in walk.todo /\ NeedsRepair(f)
      /\ ~LeftoverIsLive(f)
  <2>1. "leftover unsettled" \in Admit \/ ~LeftoverIsLive(f)
    BY DEF RepairBytes
  <2> QED
    BY <2>1, Shelter DEF RepairBytes
<1>6. walk'.at = {f} /\ walk'.todo = walk.todo \ {f} /\ walk'.rows[f] = RowOf(b)
  BY <1>2 DEF WalkAt, NoRows
<1>7. FileInv(f)
  BY DEF ContentInv
<1>8. /\ backing[f].seal = NoSeal /\ backing[f].val \in Vals /\ row[f] # NoRow
      /\ writer[f].pc \notin {"creating", "created", "trashed"} /\ ~Writing(f)
  <2>1. backing[f].seal = NoSeal
    BY <1>5, <1>7 DEF NeedsRepair, FileInv, EntryInv
  <2>2. backing[f].val \in Vals
    BY <1>5, <1>7 DEF NeedsRepair, FileInv, BytesInv, TypeOK, Bytes
  <2> QED
    BY <1>3, <1>5, <1>7, <2>1, <2>2, WhileSettling DEF NeedsRepair, FileInv, WriterInv
<1>9. b.val \in Vals /\ b.seal # NoSeal /\ b.val # "garbage"
  BY <1>8, ContentAssumption DEF Sealed, FreshSeals
<1> HIDE DEF b
<1>10. /\ RowOf(b).seal # NoSeal /\ RowOf(b).size = "full" /\ StateOf(b).seal # NoSeal
       /\ ~Encrypted(row[f])
  <2>1. RowOf(b).seal # NoSeal /\ RowOf(b).size = "full" /\ StateOf(b).seal # NoSeal
    BY <1>9, RowOfBytes
  <2>2. RowOf(backing[f]) = row[f]
    BY <1>5, <1>7, <1>8 DEF FileInv, RowInv, LeftoverIsLive, Repairing, Writing
  <2> QED
    BY <1>8, <2>1, <2>2, RowOfBytes DEF Encrypted
<1>11. LockInv(g)'
  BY <1>1, <1>2, <1>3, <1>4 DEF FileInv, LockInv, Writing
<1>12. BytesInv(g)'
  BY <1>1, <1>2, <1>9 DEF FileInv, BytesInv
<1>13. WriterInv(g)'
  BY <1>1, <1>2, <1>5, <1>6, <1>8 DEF FileInv, WriterInv, Writing
<1>14. RotatorInv(g)'
  BY <1>2, <1>4 DEF RotatorInv
<1>15. WalkInv(g)'
  BY <1>2, <1>3, <1>5, <1>6 DEF WalkInv
<1>16. RowInv(g)'
  <2>1. CASE g = f
    BY <1>2, <1>5, <1>6, <1>7, <1>8, <1>10, <2>1 DEF FileInv, RowInv, Repairing, Encrypted
  <2>2. CASE g # f
    BY <1>1, <1>2, <1>5, <1>6, <2>2 DEF FileInv, RowInv, Repairing
  <2> QED
    BY <2>1, <2>2
<1>17. EntryInv(g)'
  <2>1. CASE g = f
    BY <1>1, <1>2, <1>10, <2>1 DEF FileInv, EntryInv, Encrypted
  <2>2. CASE g # f
    BY <1>1, <1>2, <2>2 DEF FileInv, EntryInv
  <2> QED
    BY <2>1, <2>2
<1> QED
  BY <1>11, <1>12, <1>13, <1>14, <1>15, <1>16, <1>17 DEF FileInv

\* A crash leaves rows that bytes on disk describe.
LEMMA CrashKeeps ==
    ASSUME Sheltered, TypeOK, ContentInv, Crash
    PROVE  ContentInv'
<1> SUFFICES ASSUME NEW g \in Files PROVE FileInv(g)'
  BY DEF ContentInv
<1>1. FileInv(g)
  BY DEF ContentInv
<1>2. /\ lock'[g] = "free"
      /\ writer'[g].pc = "idle" /\ writer'[g].next = NoBytes
      /\ rot'[g].pc = "idle" /\ rot'[g].next = NoBytes
      /\ listed'[g] = NoRow
      /\ entry'[g] = StateOf(row[g])
      /\ pass' = "idle"
      /\ repaired' = FALSE
      /\ walk' = NoWalk
      /\ row'[g] = row[g] /\ backing'[g] = backing[g] /\ sidecar'[g] = sidecar[g]
      /\ trash' = trash
  BY DEF TypeOK, disk, passVars, Crash, Idle, WriterAt, NoRot, RotAt, NoRows
<1>3. /\ ~(writer[g].pc = "committed" /\ writer[g].next.val = "empty") /\ ~Repairing(g)
  <2>1. /\ "emptying cut short" \in Admit
             \/ \A f \in Files : ~(writer[f].pc = "committed" /\ writer[f].next.val = "empty")
        /\ "repair cut short" \in Admit \/ pass # "repair" \/ walk.at = {}
    BY DEF Crash
  <2> QED
    BY <2>1, Shelter DEF Repairing
<1>4. walk'.at = {} /\ walk'.todo = {} /\ ~walk'.loaded
  BY <1>2 DEF NoWalk, WalkOver, WalkAt
<1>5. NoBytes.seal = NoSeal /\ StateOf(row[g]).seal = row[g].seal
  BY DEF NoBytes, Plain, StateOf
<1>6. row[g] # NoRow => RowOf(backing[g]) = row[g] \/ (Encrypted(row[g]) /\ RowOf(sidecar[g]) = row[g])
  <2>1. CASE writer[g].pc = "committed"
    <3>1. /\ row[g] = RowOf(writer[g].next) /\ sidecar[g] = writer[g].next
          /\ writer[g].next.seal # NoSeal
      BY <1>1, <1>3, <2>1 DEF FileInv, WriterInv
    <3> QED
      BY <3>1, RowOfBytes DEF Encrypted
  <2>2. CASE writer[g].pc # "committed"
    BY <1>1, <1>3, <2>2 DEF FileInv, RowInv, Encrypted
  <2> QED
    BY <2>1, <2>2
<1>11. LockInv(g)'
  BY <1>2 DEF LockInv, Writing, Settling
<1>12. BytesInv(g)'
  BY <1>1, <1>2, <1>5 DEF FileInv, BytesInv
<1>13. WriterInv(g)'
  BY <1>2 DEF WriterInv
<1>14. RotatorInv(g)'
  BY <1>2 DEF RotatorInv
<1>15. WalkInv(g)'
  BY <1>2, <1>4 DEF WalkInv
<1>16. RowInv(g)'
  BY <1>1, <1>2, <1>6 DEF FileInv, RowInv, Repairing
<1>17. EntryInv(g)'
  <2>1. ASSUME row[g] # NoRow, ~Encrypted(row[g]) PROVE backing[g].seal = NoSeal
    BY <1>6, <2>1, RowOfBytes DEF Encrypted
  <2> QED
    BY <1>2, <1>5, <2>1 DEF EntryInv, Encrypted
<1> QED
  BY <1>11, <1>12, <1>13, <1>14, <1>15, <1>16, <1>17 DEF FileInv
\* A rotation that fails, finds the file open or loses the row gives up.
LEMMA RotFailKeeps ==
    ASSUME Sheltered, TypeOK, ContentInv, NEW f \in Files, RotFail(f)
    PROVE  ContentInv'
<1>1. /\ rot[f].pc \in {"staging", "staged", "cleared"} /\ RotDone(f)
      /\ sidecar' = [sidecar EXCEPT ![f] = NoBytes]
      /\ UNCHANGED <<row, backing, writer, entry, pass, repaired, walk, listed, trash>>
  BY DEF RotFail
<1> QED
  BY <1>1, RotGivesUp

\* The second look at the opens either clears the rotation or gives it up.
LEMMA RotBusyKeeps ==
    ASSUME Sheltered, TypeOK, ContentInv, NEW f \in Files, RotBusy(f)
    PROVE  ContentInv'
<1>1. CASE f \in open
  <2>1. /\ rot[f].pc \in {"staging", "staged", "cleared"} /\ RotDone(f)
        /\ sidecar' = [sidecar EXCEPT ![f] = NoBytes]
        /\ UNCHANGED <<row, backing, writer, entry, pass, repaired, walk, listed, trash>>
    BY <1>1 DEF RotBusy
  <2> QED
    BY <2>1, RotGivesUp
<1>2. CASE f \notin open
  <2>1. /\ rot[f].pc = "staged" /\ rot' = [rot EXCEPT ![f] = RotAt("cleared", rot[f].next)]
        /\ UNCHANGED <<row, backing, sidecar, lock, writer, entry, pass, repaired, walk,
                       listed, trash>>
    BY <1>2 DEF RotBusy
  <2> QED
    BY <2>1, RotClears
<1> QED
  BY <1>1, <1>2

\* The compare-and-set moves the row or the rotation gives up.
LEMMA RotCommitKeeps ==
    ASSUME Sheltered, TypeOK, ContentInv, NEW f \in Files, RotCommit(f)
    PROVE  ContentInv'
<1>1. CASE row[f] = listed[f]
  <2>1. /\ rot[f].pc = "cleared" /\ row' = [row EXCEPT ![f] = RowOf(rot[f].next)]
        /\ rot' = [rot EXCEPT ![f] = RotAt("committed", rot[f].next)]
        /\ UNCHANGED <<backing, sidecar, lock, writer, entry, pass, repaired, walk, listed,
                       trash>>
    BY <1>1 DEF RotCommit
  <2> QED
    BY <2>1, RotMoves
<1>2. CASE row[f] # listed[f]
  <2>1. /\ rot[f].pc \in {"staging", "staged", "cleared"} /\ RotDone(f)
        /\ sidecar' = [sidecar EXCEPT ![f] = NoBytes]
        /\ UNCHANGED <<row, backing, writer, entry, pass, repaired, walk, listed, trash>>
    BY <1>2 DEF RotCommit
  <2> QED
    BY <2>1, RotGivesUp
<1> QED
  BY <1>1, <1>2

\* A file the rotation refuses keeps what recovery settled it to.
LEMMA RotRefuseKeeps ==
    ASSUME Sheltered, TypeOK, ContentInv, NEW f \in Files, RotRefuse(f)
    PROVE  ContentInv'
<1>1. /\ rot[f].pc = "listed" /\ lock[f] = "free" /\ row[f] = listed[f] /\ RotDone(f)
      /\ UNCHANGED <<row, writer, entry, pass, repaired, walk, listed, trash>>
  BY DEF RotRefuse
<1>2. CASE UNCHANGED <<backing, sidecar>>
  <2>1. UNCHANGED <<row, backing, sidecar, writer, entry, pass, repaired, walk, listed, trash>>
    BY <1>1, <1>2
  <2> QED
    BY <1>1, <2>1, RotLeaves
<1>3. CASE /\ Verdict(f, listed[f]) # "unresolved"
           /\ backing' = [backing EXCEPT ![f] = Settled(f)]
           /\ sidecar' = [sidecar EXCEPT ![f] = NoBytes]
  BY <1>1, <1>3, RotSettles
<1> QED
  BY <1>2, <1>3 DEF RotRefuse

\* Every step of a user operation keeps ContentInv.
LEMMA UserStepKeeps ==
    ASSUME Sheltered, TypeOK, ContentInv, NEW f \in Files, UserStep(f) \/ WriterStep(f)
    PROVE  ContentInv'
<1>1. ~WriteCommitInDoubt(f)
  BY Shelter DEF WriteCommitInDoubt
<1>2. CASE UserStep(f)
  BY <1>2, CreateBeginKeeps, WriteBeginKeeps, TrashRowKeeps, OpenCopyKeeps,
     ReleaseCopyKeeps DEF UserStep
<1>3. CASE WriterStep(f)
  BY <1>1, <1>3, CreatePlaceKeeps, CreateRowKeeps, CreateFailKeeps, WriteStageKeeps,
     WriteFailKeeps, WriteCommitKeeps, WriteRenameKeeps, WriteRenameFailKeeps,
     TrashBackingKeeps DEF WriterStep
<1> QED
  BY <1>2, <1>3

\* Every step of a sync pass keeps ContentInv.
LEMMA PassStepKeeps ==
    ASSUME Sheltered, TypeOK, ContentInv, PassStep
    PROVE  ContentInv'
<1>1. CASE WalkStep
  BY <1>1, WalkLoadKeeps, StartupWalkDoneKeeps, RepairDoneKeeps, SweepKeeps, WalkJudgeKeeps,
     WalkActKeeps, RepairBytesKeeps, RepairRowKeeps, RepairSkipKeeps, Shelter
     DEF WalkStep, RepairRowFail
<1>2. ASSUME NEW f \in Files, RotStep(f) PROVE ContentInv'
  BY <1>2, RotBeginKeeps, RotSkipKeeps, RotRefuseKeeps, RotStageKeeps, RotFailKeeps,
     RotBusyKeeps, RotCommitKeeps, RotCommitInDoubtKeeps, RotRenameKeeps,
     RotRenameFailKeeps DEF RotStep
<1> QED
  BY <1>1, <1>2, PassBeginKeeps, WalkPartialKeeps, RotationListKeeps, RotationDoneKeeps,
     FinishDbKeeps, FinishMemKeeps DEF PassStep

\* With no content event admitted every action preserves ContentInv.
LEMMA ContentStep ==
    ASSUME Sheltered, TypeOK, ContentInv, [Next]_vars
    PROVE  ContentInv'
<1>1. CASE UNCHANGED vars
  <2>1. UNCHANGED <<pass, repaired, walk, row, backing, sidecar, lock, writer, rot, listed,
                    entry, trash>>
    BY <1>1 DEF vars, disk, passVars
  <2> SUFFICES ASSUME NEW g \in Files PROVE FileInv(g)'
    BY DEF ContentInv
  <2>2. FileInv(g)
    BY DEF ContentInv
  <2> QED
    BY <2>1, <2>2, FileFrame
<1>2. CASE Next
  BY <1>2, UserStepKeeps, PassStepKeeps, PrepareKeeps, CrashKeeps
      DEF Next
<1> QED
  BY <1>1, <1>2

\* ContentInv, the relation between rows, bytes, operations in flight and the walk, holds
\* in every reachable state.
THEOREM ContentAlwaysInv == Sheltered => (Spec => []ContentInv)
<1> SUFFICES ASSUME Sheltered PROVE Spec => []ContentInv
  OBVIOUS
<1>1. Init => TypeOK /\ ContentInv
  BY TypeInit, ContentInit
<1>2. TypeOK /\ ContentInv /\ [Next]_vars => TypeOK' /\ ContentInv'
  BY TypeStep, ContentStep
<1> QED
  BY <1>1, <1>2, PTL DEF Spec

\* Whatever writes, seals, rotations, recoveries, failures and crashes happen, every row is
\* satisfied by the backing file or by the sidecar ("Both the old and the new local
\* ciphertext exist until the row commits", Rotation.hpp), as long as no event of
\* ContentEvents happens.
THEOREM ContentStaysLive == Sheltered => (Spec => []ContentSurvives)
<1> SUFFICES ASSUME Sheltered PROVE Spec => []ContentSurvives
  OBVIOUS
<1>1. ContentInv /\ TypeOK => ContentSurvives
  BY ContentSuffices
<1> QED
  BY <1>1, TypeCorrect, ContentAlwaysInv, PTL

\* The two inductive invariants together decide every sidecar.
LEMMA DecidableSuffices == ContentInv /\ KeyInv => Decidable
<1> SUFFICES ASSUME ContentInv, KeyInv, NEW f \in Files, row[f] # NoRow
             PROVE  Verdict(f, row[f]) # "unresolved"
  BY DEF Decidable
<1>1. FileInv(f) /\ RowKeyed(f)
  BY DEF ContentInv, KeyInv
<1>2. CASE ~Encrypted(row[f])
  BY <1>2 DEF Verdict
<1>3. CASE Encrypted(row[f])
  <2>1. RowOf(backing[f]) = row[f] \/ RowOf(sidecar[f]) = row[f]
    BY <1>1, <1>3 DEF FileInv, RowInv, WriterInv
  <2>2. \A b : RowOf(b) = row[f] => Authenticates(b, row[f])
    BY <1>1, <1>3, SMTT(60) DEF RowOf, Authenticates, RowKeyed
  <2>3. Authenticates(backing[f], row[f]) \/ Authenticates(sidecar[f], row[f])
    BY <2>1, <2>2
  <2> QED
    BY <1>3, <2>3 DEF Verdict
<1> QED
  BY <1>2, <1>3

\* Recovery of an existing file never has to be left to an operator ("unresolved",
\* Rotation.cpp): authentication tells the live bytes, whatever was cut short.
THEOREM SidecarsStayDecidable ==
    Sheltered /\ Admit \cap KeyEvents = {} => (Spec => []Decidable)
<1> SUFFICES ASSUME Sheltered, Admit \cap KeyEvents = {} PROVE Spec => []Decidable
  OBVIOUS
<1>1. Init => TypeOK /\ KeyInv
  BY TypeInit, KeyInit
<1>2. TypeOK /\ KeyInv /\ [Next]_vars => TypeOK' /\ KeyInv'
  BY TypeStep, KeyStep
<1>3. ContentInv /\ KeyInv => Decidable
  BY DecidableSuffices
<1> QED
  BY <1>1, <1>2, <1>3, ContentAlwaysInv, PTL DEF Spec

-----------------------------------------------------------------------------
(***************************************************************************)
(* Steps of the store.                                                     *)
(***************************************************************************)
\* A step shows users nothing of a file, and keeps its copies in order.
Kept(f) == Live(f)' = Live(f) /\ Asked(f)' = Asked(f) /\ CopyInv(f)'

\* A step that shows nothing of any file is a stuttering step.
LEMMA Stutters ==
    ASSUME \A g \in Files : Kept(g)
    PROVE  CopiesAgree' /\ UNCHANGED Store!vars
  BY DEF Kept, CopiesAgree, Store!vars

\* The other steps show something of one file.
LEMMA Asks ==
    ASSUME NEW f \in Files, NEW v \in Vals \cup {"empty"}, \A g \in Files \ {f} : Kept(g),
           CopyInv(f)', Asked(f) = "gone", Asked(f)' = v, Live(f)' = Live(f)
    PROVE  CopiesAgree' /\ Store!Next
<1>1. Store!Ask(f, v)
  BY DEF Kept, Store!Ask
<1> QED BY <1>1 DEF Kept, CopiesAgree, Store!Next

\* An operation takes effect.
LEMMA TakesEffect ==
    ASSUME NEW f \in Files, \A g \in Files \ {f} : Kept(g), CopyInv(f)',
           Asked(f) # "gone", Asked(f)' = "gone", Live(f)' = Asked(f)
    PROVE  CopiesAgree' /\ Store!Next
<1>1. Store!TakeEffect(f)
  BY DEF Kept, Store!TakeEffect
<1> QED BY <1>1 DEF Kept, CopiesAgree, Store!Next

\* A file is removed.
LEMMA Removes ==
    ASSUME NEW f \in Files, \A g \in Files \ {f} : Kept(g), CopyInv(f)',
           Asked(f) = "gone", Asked(f)' = "gone", Live(f) # "gone", Live(f)' = "gone"
    PROVE  CopiesAgree' /\ Store!Next
<1>1. Store!Remove(f)
  BY DEF Kept, Store!Remove
<1> QED BY <1>1 DEF Kept, CopiesAgree, Store!Next

\* Some operations are abandoned,
LEMMA Abandons ==
    ASSUME NEW S \in SUBSET Files, \A g \in Files \ S : Kept(g),
           \A g \in S : CopyInv(g)' /\ Asked(g)' = "gone" /\ Live(g)' = Live(g)
    PROVE  CopiesAgree' /\ Store!Next
<1>1. Store!Abandon(S)
  BY DEF Kept, Store!Abandon
<1> QED BY <1>1 DEF Kept, CopiesAgree, Store!Next

\* or one.
LEMMA GivesUp ==
    ASSUME NEW f \in Files, \A g \in Files \ {f} : Kept(g),
           CopyInv(f)', Asked(f)' = "gone", Live(f)' = Live(f)
    PROVE  CopiesAgree' /\ Store!Next
<1> DEFINE S == {f}
<1>1. /\ S \in SUBSET Files /\ \A g \in Files \ S : Kept(g)
      /\ \A g \in S : CopyInv(g)' /\ Asked(g)' = "gone" /\ Live(g)' = Live(g)
  OBVIOUS
<1> HIDE DEF S
<1> QED BY <1>1, Abandons

-----------------------------------------------------------------------------
(***************************************************************************)
(* What a step leaves alone.                                               *)
(***************************************************************************)
\* The bytes, the row and the user operation of a file.
Untouched(g) ==
    /\ row'[g] = row[g] /\ backing'[g] = backing[g] /\ sidecar'[g] = sidecar[g]
    /\ writer'[g] = writer[g]

\* A file shows the same when it is untouched and no repair of it begins or ends.
LEMMA UntouchedKept ==
    ASSUME NEW g \in Files, CopyInv(g), Untouched(g),
           UNCHANGED <<pass, walk>> \/ (~Repairing(g) /\ ~Repairing(g)')
    PROVE  Kept(g)
<1>1. Live(g)' = Live(g)
  <2>1. CASE UNCHANGED <<pass, walk>>
    BY <2>1 DEF Untouched, Live, Repairing
  <2>2. CASE ~Repairing(g) /\ ~Repairing(g)'
    BY <2>2 DEF Untouched, Live
  <2> QED BY <2>1, <2>2
<1>2. Asked(g)' = Asked(g) /\ CopyInv(g)'
  BY DEF Untouched, Asked, CopyInv
<1> QED BY <1>1, <1>2 DEF Kept

\* A step of one file: no other is touched.
Only(f) == UNCHANGED <<pass, walk>> /\ \A g \in Files \ {f} : Untouched(g)

\* So the others show nothing.
LEMMA OthersKept ==
    ASSUME CopiesAgree, NEW f \in Files, Only(f)
    PROVE  \A g \in Files \ {f} : Kept(g)
  BY UntouchedKept DEF CopiesAgree, Only

\* A row tells an empty file from one that is not, and a missing one from both.
LEMMA RowTells ==
    ASSUME NEW b, NEW c, RowOf(b) = RowOf(c)
    PROVE  /\ b.seal = c.seal
           /\ b.val \in {"gone", "empty"} => c.val = b.val
           /\ c.val \in {"gone", "empty"} => b.val = c.val
  BY DEF RowOf

\* No bytes and torn bytes carry no IV.
LEMMA NothingSealed == NoBytes.seal = NoSeal /\ Torn.seal = NoSeal /\ NoRow.size = "gone"
  BY DEF NoBytes, Torn, NoRow, RowOf, Plain

\* A file with a row holds something.
LEMMA LiveThere ==
    ASSUME NEW f \in Files, FileInv(f), CopyInv(f), row[f] # NoRow
    PROVE  Live(f) # "gone"
<1>1. row[f].size # "gone"
  BY DEF CopyInv
<1>2. \A b : b.val = "gone" => RowOf(b).size = "gone"
  BY DEF RowOf
<1>3. Repairing(f) => walk.rows[f].size = "full"
  BY DEF FileInv, RowInv
<1>4. Live(f) = "gone" => \/ RowOf(backing[f]).size = "gone" /\ RowOf(backing[f]) = row[f]
                          \/ RowOf(backing[f]).size = "gone" /\ Repairing(f)
                                /\ RowOf(backing[f]) = walk.rows[f]
                          \/ RowOf(sidecar[f]).size = "gone" /\ RowOf(sidecar[f]) = row[f]
  BY <1>2 DEF Live
<1> QED BY <1>1, <1>3, <1>4

-----------------------------------------------------------------------------
(***************************************************************************)
(* User operations: a creation and a write are asked for, take effect when *)
(* their row is written or are abandoned; a removal is one step.           *)
(***************************************************************************)
\* What the steps below keep or show of the store.
Refines == CopiesAgree' /\ [Store!Next]_(Store!vars)

\* A creation is asked for.
LEMMA CreateBeginShows ==
    ASSUME TypeOK, CopiesAgree, NEW f \in Files, NEW v \in Vals \cup {"empty"}, CreateBegin(f, v)
    PROVE  Refines
<1>1. Only(f)
  BY DEF Only, Untouched, TypeOK, disk, passVars, CreateBegin, WriterAt
<1>2. /\ writer'[f].pc = "creating" /\ writer'[f].next.val = v
      /\ row'[f] = row[f] /\ backing'[f] = backing[f] /\ sidecar'[f] = sidecar[f]
  BY DEF TypeOK, disk, passVars, CreateBegin, WriterAt, Plain
<1>3. writer[f].pc = "idle"
  BY SMTT(60) DEF CreateBegin, NeverSeen, Idle, WriterAt
<1>4. Asked(f) = "gone" /\ Asked(f)' = v
  BY <1>2, <1>3 DEF Asked, InFlight
<1>5. Live(f)' = Live(f)
  BY <1>1, <1>2 DEF Only, Live, Repairing
<1>6. CopyInv(f)'
  BY <1>2 DEF CopiesAgree, CopyInv
<1> QED BY <1>1, <1>4, <1>5, <1>6, OthersKept, Asks DEF Refines

\* So is a write: the leftover it removes is not what the row describes.
LEMMA WriteBeginShows ==
    ASSUME Sheltered, TypeOK, ContentInv, CopiesAgree, NEW f \in Files,
           NEW v \in Vals \cup {"empty"}, WriteBegin(f, v)
    PROVE  Refines
<1>1. Only(f)
  BY DEF Only, Untouched, TypeOK, disk, passVars, WriteBegin, WriterAt
<1>2. /\ writer'[f].pc = "staging" /\ writer'[f].next.val = v /\ sidecar'[f] = Torn
      /\ row'[f] = row[f] /\ backing'[f] = backing[f]
  BY DEF TypeOK, disk, passVars, WriteBegin, WriterAt, Plain
<1>3. writer[f].pc = "idle" /\ row[f] # NoRow /\ pass \notin Settling /\ ~LeftoverIsLive(f)
  <2>1. writer[f] = Idle /\ row[f] # NoRow /\ pass \notin Settling /\ ~LeftoverIsLive(f)
    BY Shelter DEF WriteBegin
  <2> QED BY <2>1, SMTT(60) DEF Idle, WriterAt
<1>4. RowOf(backing[f]) = row[f]
  <2>1. FileInv(f)
    BY DEF ContentInv
  <2> QED BY <1>3, <2>1 DEF FileInv, RowInv, Repairing, Settling, LeftoverIsLive
<1>5. Asked(f) = "gone" /\ Asked(f)' = v
  BY <1>2, <1>3 DEF Asked, InFlight
<1>6. Live(f)' = Live(f)
  BY <1>2, <1>3, <1>4 DEF Live
<1>7. CopyInv(f)'
  BY <1>2, NothingSealed DEF CopiesAgree, CopyInv
<1> QED BY <1>1, <1>5, <1>6, <1>7, OthersKept, Asks DEF Refines

\* A placed backing file shows nothing before its row.
LEMMA CreatePlaceShows ==
    ASSUME TypeOK, ContentInv, CopiesAgree, NEW f \in Files, CreatePlace(f)
    PROVE  Refines
<1>1. FileInv(f) /\ CopyInv(f)
  BY DEF ContentInv, CopiesAgree
<1>2. PICK s \in FreshSeals(f) :
         LET b == Encoded(writer[f].next.val, s, writer[f].key)
         IN  /\ backing' = [backing EXCEPT ![f] = b]
             /\ writer' = [writer EXCEPT ![f] = WriterAt("created", writer[f].key, b)]
  BY DEF CreatePlace
<1> DEFINE b == Encoded(writer[f].next.val, s, writer[f].key)
<1>3. writer[f].pc = "creating" /\ row[f] = NoRow /\ writer[f].next.val \in Vals \cup {"empty"}
  BY <1>1, SMTT(60) DEF CreatePlace, FileInv, WriterInv, Plain
<1>4. b.val = writer[f].next.val /\ (b.seal # NoSeal => b.seal # sidecar[f].seal)
  BY <1>3, EncodedBytes, SMTT(60) DEF Remembered
<1>5. /\ backing' = [backing EXCEPT ![f] = b]
      /\ writer' = [writer EXCEPT ![f] = WriterAt("created", writer[f].key, b)]
      /\ UNCHANGED <<row, sidecar, pass, walk>>
  BY <1>2 DEF CreatePlace, passVars
<1> HIDE DEF b
<1>6. Only(f)
  BY <1>5 DEF Only, Untouched, TypeOK
<1>7. /\ writer'[f].pc = "created" /\ writer'[f].next = b /\ backing'[f] = b
      /\ row'[f] = row[f] /\ sidecar'[f] = sidecar[f]
  BY <1>5 DEF TypeOK, WriterAt
<1>8. Live(f)' = Live(f)
  BY <1>3, <1>7 DEF Live
<1>9. Asked(f)' = Asked(f)
  BY <1>3, <1>4, <1>7 DEF Asked, InFlight
<1>10. CopyInv(f)'
  BY <1>1, <1>4, <1>7 DEF CopyInv
<1>11. \A g \in Files : Kept(g)
  BY <1>6, <1>8, <1>9, <1>10, OthersKept DEF Kept
<1> QED BY <1>11, Stutters DEF Refines

\* A creation takes effect with its row,
LEMMA CreateRowShows ==
    ASSUME TypeOK, ContentInv, CopiesAgree, NEW f \in Files, CreateRow(f)
    PROVE  Refines
<1>1. FileInv(f) /\ CopyInv(f)
  BY DEF ContentInv, CopiesAgree
<1>2. Only(f)
  BY DEF Only, Untouched, TypeOK, passVars, CreateRow
<1>3. /\ row'[f] = RowOf(writer[f].next) /\ writer'[f].pc = "idle"
      /\ backing'[f] = backing[f] /\ sidecar'[f] = sidecar[f]
  BY DEF TypeOK, CreateRow, Idle, WriterAt
<1>4. /\ writer[f].pc = "created" /\ backing[f] = writer[f].next
      /\ writer[f].next.val \in Vals \cup {"empty"}
  BY <1>1 DEF CreateRow, FileInv, WriterInv
<1>5. row'[f].size # "gone"
  BY <1>3, <1>4, ContentAssumption, SMTT(60) DEF RowOf
<1>6. Live(f)' = writer[f].next.val
  <2>1. NoRow.size = "gone"
    BY NothingSealed
  <2> QED BY <1>3, <1>4, <1>5, <2>1 DEF Live
<1>7. Asked(f) = writer[f].next.val /\ Asked(f)' = "gone" /\ Asked(f) # "gone"
  BY <1>3, <1>4, ContentAssumption DEF Asked, InFlight
<1>8. CopyInv(f)'
  BY <1>1, <1>3, <1>5 DEF CopyInv
<1> QED BY <1>2, <1>6, <1>7, <1>8, OthersKept, TakesEffect DEF Refines

\* or is abandoned.
LEMMA CreateFailShows ==
    ASSUME TypeOK, CopiesAgree, NEW f \in Files, CreateFail(f)
    PROVE  Refines
<1>1. Only(f)
  BY DEF Only, Untouched, TypeOK, disk, passVars, CreateFail
<1>2. /\ writer'[f].pc = "idle"
      /\ row'[f] = row[f] /\ backing'[f] = backing[f] /\ sidecar'[f] = sidecar[f]
  BY DEF TypeOK, disk, CreateFail, Idle, WriterAt
<1>3. Live(f)' = Live(f)
  BY <1>1, <1>2 DEF Only, Live, Repairing
<1>4. Asked(f)' = "gone"
  BY <1>2 DEF Asked, InFlight
<1>5. CopyInv(f)'
  BY <1>2 DEF CopiesAgree, CopyInv
<1>6. \A g \in Files \ {f} : Kept(g)
  BY <1>1, OthersKept
<1> QED BY <1>3, <1>4, <1>5, <1>6, GivesUp DEF Refines

\* A staged sidecar shows nothing before the row names its IV.
LEMMA WriteStageShows ==
    ASSUME TypeOK, ContentInv, CopiesAgree, NEW f \in Files, WriteStage(f)
    PROVE  Refines
<1>1. FileInv(f) /\ CopyInv(f)
  BY DEF ContentInv, CopiesAgree
<1>2. PICK s \in FreshSeals(f) :
         LET b == Encoded(writer[f].next.val, s, writer[f].key)
         IN  /\ sidecar' = [sidecar EXCEPT ![f] = b]
             /\ writer' = [writer EXCEPT ![f] = WriterAt("staged", writer[f].key, b)]
  BY DEF WriteStage
<1> DEFINE b == Encoded(writer[f].next.val, s, writer[f].key)
<1>3. /\ writer[f].pc = "staging" /\ row[f] # NoRow /\ RowOf(backing[f]) = row[f]
      /\ writer[f].next.val \in Vals \cup {"empty"}
  BY <1>1, SMTT(60) DEF WriteStage, FileInv, WriterInv, Plain
<1>4. b.val = writer[f].next.val /\ (b.seal # NoSeal => b.seal # backing[f].seal)
  BY <1>3, EncodedBytes, SMTT(60) DEF Remembered
<1>5. /\ sidecar' = [sidecar EXCEPT ![f] = b]
      /\ writer' = [writer EXCEPT ![f] = WriterAt("staged", writer[f].key, b)]
      /\ UNCHANGED <<row, backing, pass, walk>>
  BY <1>2 DEF WriteStage, passVars
<1> HIDE DEF b
<1>6. Only(f)
  BY <1>5 DEF Only, Untouched, TypeOK
<1>7. /\ writer'[f].pc = "staged" /\ writer'[f].next = b /\ sidecar'[f] = b
      /\ row'[f] = row[f] /\ backing'[f] = backing[f]
  BY <1>5 DEF TypeOK, WriterAt
<1>8. Live(f)' = Live(f)
  BY <1>3, <1>7 DEF Live
<1>9. Asked(f)' = Asked(f)
  BY <1>3, <1>4, <1>7 DEF Asked, InFlight
<1>10. CopyInv(f)'
  BY <1>1, <1>4, <1>7 DEF CopyInv
<1>11. \A g \in Files : Kept(g)
  BY <1>6, <1>8, <1>9, <1>10, OthersKept DEF Kept
<1> QED BY <1>11, Stutters DEF Refines

\* A write that fails leaves the old bytes.
LEMMA WriteFailShows ==
    ASSUME TypeOK, ContentInv, CopiesAgree, NEW f \in Files, WriteFail(f)
    PROVE  Refines
<1>1. FileInv(f) /\ CopyInv(f)
  BY DEF ContentInv, CopiesAgree
<1>2. Only(f)
  BY DEF Only, Untouched, TypeOK, passVars, WriteFail
<1>3. /\ writer'[f].pc = "idle" /\ sidecar'[f] = NoBytes
      /\ row'[f] = row[f] /\ backing'[f] = backing[f]
  BY DEF TypeOK, WriteFail, Idle, WriterAt
<1>4. row[f] # NoRow /\ RowOf(backing[f]) = row[f]
  BY <1>1 DEF WriteFail, FileInv, WriterInv
<1>5. Live(f)' = Live(f)
  BY <1>3, <1>4 DEF Live
<1>6. Asked(f)' = "gone"
  BY <1>3 DEF Asked, InFlight
<1>7. CopyInv(f)'
  BY <1>1, <1>3, NothingSealed DEF CopyInv
<1> QED BY <1>2, <1>5, <1>6, <1>7, OthersKept, GivesUp DEF Refines

\* The row commits: from here on the sidecar is the file.
LEMMA WriteCommitShows ==
    ASSUME TypeOK, ContentInv, CopiesAgree, NEW f \in Files, WriteCommit(f)
    PROVE  Refines
<1>1. FileInv(f) /\ CopyInv(f)
  BY DEF ContentInv, CopiesAgree
<1>2. Only(f)
  BY DEF Only, Untouched, TypeOK, passVars, WriteCommit
<1>3. /\ row'[f] = RowOf(writer[f].next) /\ writer'[f].pc = "committed"
      /\ backing'[f] = backing[f] /\ sidecar'[f] = sidecar[f]
  BY DEF TypeOK, WriteCommit, WriterAt
<1>4. /\ writer[f].pc = "staged" /\ sidecar[f] = writer[f].next
      /\ writer[f].next.val \in Vals \cup {"empty"}
      /\ writer[f].next.seal = NoSeal <=> writer[f].next.val = "empty"
      /\ writer[f].next.seal # NoSeal => writer[f].next.seal # backing[f].seal
  BY <1>1 DEF WriteCommit, FileInv, WriterInv
<1>5. row'[f].size # "gone" /\ NoRow.size = "gone"
  <2>1. row'[f].size # "gone"
    BY <1>3, <1>4, ContentAssumption, SMTT(60) DEF RowOf
  <2> QED BY <2>1, NothingSealed
<1>6. RowOf(backing[f]) = RowOf(writer[f].next) => backing[f].val = writer[f].next.val
  BY <1>4, RowTells
<1>7. ~Repairing(f)'
  <2>1. pass' \notin Settling
    BY <1>1, <1>2, <1>4 DEF Only, FileInv, LockInv, Writing
  <2> QED BY <2>1 DEF Repairing, Settling
<1>8. Live(f)' = writer[f].next.val
  BY <1>3, <1>4, <1>5, <1>6, <1>7 DEF Live
<1>9. Asked(f) = writer[f].next.val /\ Asked(f)' = "gone" /\ Asked(f) # "gone"
  BY <1>3, <1>4, ContentAssumption DEF Asked, InFlight
<1>10. CopyInv(f)'
  BY <1>1, <1>3, <1>5 DEF CopyInv
<1> QED BY <1>2, <1>8, <1>9, <1>10, OthersKept, TakesEffect DEF Refines

\* The rename shows nothing: the row told the new bytes before.
LEMMA WriteRenameShows ==
    ASSUME TypeOK, ContentInv, CopiesAgree, NEW f \in Files, WriteRename(f)
    PROVE  Refines
<1>1. FileInv(f) /\ CopyInv(f)
  BY DEF ContentInv, CopiesAgree
<1>2. Only(f)
  BY DEF Only, Untouched, TypeOK, passVars, WriteRename
<1>3. /\ row'[f] = row[f] /\ writer'[f].pc = "idle"
      /\ backing'[f] = sidecar[f] /\ sidecar'[f] = NoBytes
  BY DEF TypeOK, WriteRename, Idle, WriterAt
<1>4. /\ writer[f].pc = "committed" /\ row[f] = RowOf(sidecar[f])
      /\ sidecar[f].seal = NoSeal <=> sidecar[f].val = "empty"
  BY <1>1 DEF WriteRename, FileInv, WriterInv
<1>5. RowOf(backing[f]) = RowOf(sidecar[f]) => backing[f].val = sidecar[f].val
  BY <1>1, <1>4, RowTells DEF CopyInv
<1>6. ~Repairing(f)
  <2>1. pass \notin Settling
    BY <1>1, <1>4 DEF FileInv, LockInv, Writing
  <2> QED BY <2>1 DEF Repairing, Settling
<1>7. Live(f)' = Live(f)
  BY <1>3, <1>4, <1>5, <1>6 DEF Live
<1>8. Asked(f) = "gone" /\ Asked(f)' = "gone"
  BY <1>3, <1>4 DEF Asked, InFlight
<1>9. CopyInv(f)'
  BY <1>1, <1>3, NothingSealed DEF CopyInv
<1>10. \A g \in Files : Kept(g)
  BY <1>2, <1>7, <1>8, <1>9, OthersKept DEF Kept
<1> QED BY <1>10, Stutters DEF Refines

\* Nor does a rename that fails.
LEMMA WriteRenameFailShows ==
    ASSUME TypeOK, CopiesAgree, NEW f \in Files, WriteRenameFail(f)
    PROVE  Refines
<1>1. Only(f)
  BY DEF Only, Untouched, TypeOK, disk, passVars, WriteRenameFail
<1>2. /\ writer'[f].pc = "idle" /\ writer[f].pc = "committed"
      /\ row'[f] = row[f] /\ backing'[f] = backing[f] /\ sidecar'[f] = sidecar[f]
  BY DEF TypeOK, disk, WriteRenameFail, Idle, WriterAt
<1>3. Live(f)' = Live(f)
  BY <1>1, <1>2 DEF Only, Live, Repairing
<1>4. Asked(f)' = Asked(f)
  BY <1>2 DEF Asked, InFlight
<1>5. CopyInv(f)'
  BY <1>2 DEF CopiesAgree, CopyInv
<1>6. \A g \in Files : Kept(g)
  BY <1>1, <1>3, <1>4, <1>5, OthersKept DEF Kept
<1> QED BY <1>6, Stutters DEF Refines

\* A removal takes effect with its row;
LEMMA TrashRowShows ==
    ASSUME TypeOK, ContentInv, CopiesAgree, NEW f \in Files, TrashRow(f)
    PROVE  Refines
<1>1. FileInv(f) /\ CopyInv(f)
  BY DEF ContentInv, CopiesAgree
<1>2. Only(f)
  BY DEF Only, Untouched, TypeOK, passVars, TrashRow
<1>3. /\ row'[f] = NoRow /\ writer'[f].pc = "trashed"
      /\ backing'[f] = backing[f] /\ sidecar'[f] = sidecar[f]
  BY DEF TypeOK, TrashRow, WriterAt
<1>4. writer[f].pc = "idle" /\ row[f] # NoRow
  BY SMTT(60) DEF TrashRow, Idle, WriterAt
<1>5. Live(f) # "gone" /\ Live(f)' = "gone"
  <2>1. Live(f)' = "gone"
    BY <1>3 DEF Live
  <2> QED BY <1>1, <1>4, <2>1, LiveThere
<1>6. Asked(f) = "gone" /\ Asked(f)' = "gone"
  BY <1>3, <1>4 DEF Asked, InFlight
<1>7. CopyInv(f)'
  BY <1>1, <1>3 DEF CopyInv
<1> QED BY <1>2, <1>5, <1>6, <1>7, OthersKept, Removes DEF Refines

\* its bytes go later.
LEMMA TrashBackingShows ==
    ASSUME TypeOK, ContentInv, CopiesAgree, NEW f \in Files, TrashBacking(f)
    PROVE  Refines
<1>1. FileInv(f) /\ CopyInv(f)
  BY DEF ContentInv, CopiesAgree
<1>2. Only(f)
  BY DEF Only, Untouched, TypeOK, passVars, TrashBacking
<1>3. /\ backing'[f] = NoBytes /\ writer'[f].pc = "idle"
      /\ row'[f] = row[f] /\ sidecar'[f] = sidecar[f]
  BY DEF TypeOK, TrashBacking, Idle, WriterAt
<1>4. writer[f].pc = "trashed" /\ row[f] = NoRow
  BY <1>1 DEF TrashBacking, FileInv, WriterInv
<1>5. Live(f)' = Live(f)
  BY <1>3, <1>4 DEF Live
<1>6. Asked(f)' = Asked(f)
  BY <1>3, <1>4 DEF Asked, InFlight
<1>7. CopyInv(f)'
  BY <1>1, <1>3, NothingSealed DEF CopyInv
<1>8. \A g \in Files : Kept(g)
  BY <1>2, <1>5, <1>6, <1>7, OthersKept DEF Kept
<1> QED BY <1>8, Stutters DEF Refines

-----------------------------------------------------------------------------
(***************************************************************************)
(* The rotation of a file shows nothing.                                   *)
(***************************************************************************)
\* A step of one file that is no user operation.
LEMMA FileShowsNothing ==
    ASSUME CopiesAgree, NEW f \in Files, Only(f), writer'[f] = writer[f],
           Live(f)' = Live(f), CopyInv(f)'
    PROVE  Refines
<1>1. Asked(f)' = Asked(f)
  BY DEF Asked
<1>2. \A g \in Files : Kept(g)
  BY <1>1, OthersKept DEF Kept
<1> QED BY <1>2, Stutters DEF Refines

\* While the row describes the backing file a sidecar does not matter.
LEMMA SidecarShowsNothing ==
    ASSUME CopiesAgree, NEW f \in Files, Only(f), writer'[f] = writer[f],
           row'[f] = row[f], backing'[f] = backing[f], RowOf(backing[f]) = row[f],
           sidecar'[f].seal = NoSeal \/ sidecar'[f].seal # backing[f].seal
    PROVE  Refines
<1>1. Live(f)' = Live(f)
  BY DEF Live
<1>2. CopyInv(f)'
  BY DEF CopiesAgree, CopyInv
<1> QED BY <1>1, <1>2, FileShowsNothing

\* Nor does a step that changes no bytes and no row, outside repairs.
LEMMA StillShowsNothing ==
    ASSUME CopiesAgree, UNCHANGED <<row, backing, sidecar, writer>>,
           UNCHANGED <<pass, walk>> \/ \A g \in Files : ~Repairing(g) /\ ~Repairing(g)'
    PROVE  Refines
<1>1. \A g \in Files : Kept(g)
  BY UntouchedKept DEF CopiesAgree, Untouched
<1> QED BY <1>1, Stutters DEF Refines

\* Its sidecar is settled first: the backing file becomes the copy the row describes.
LEMMA SettlingShowsNothing ==
    ASSUME TypeOK, ContentInv, CopiesAgree, NEW f \in Files,
           rot[f].pc = "listed", lock[f] = "free", row[f] = listed[f],
           Verdict(f, listed[f]) # "unresolved",
           backing' = [backing EXCEPT ![f] = Settled(f)],
           NEW b, b.seal = NoSeal, sidecar' = [sidecar EXCEPT ![f] = b],
           UNCHANGED <<row, writer, pass, walk>>
    PROVE  Refines
<1>1. FileInv(f) /\ CopyInv(f)
  BY DEF ContentInv, CopiesAgree
<1>2. RowOf(Settled(f)) = row[f] /\ Settled(f).seal # NoSeal /\ row[f] # NoRow
  BY <1>1, SettledRow
<1>3. ~Repairing(f)
  BY <1>1, WhileListed
<1>4. Settled(f) = sidecar[f] \/ Settled(f) = backing[f]
  BY DEF Settled
<1>5. Live(f) = Settled(f).val
  <2>1. CASE Settled(f) = backing[f]
    BY <1>2, <2>1 DEF Live
  <2>2. CASE Settled(f) = sidecar[f]
    <3>1. RowOf(backing[f]) = row[f] => backing[f].val = sidecar[f].val
      BY <1>1, <1>2, <2>2, RowTells, SMTT(60) DEF CopyInv
    <3> QED BY <1>2, <1>3, <2>2, <3>1 DEF Live
  <2> QED BY <1>4, <2>1, <2>2
<1>6. Only(f)
  BY DEF Only, Untouched, TypeOK
<1>7. backing'[f] = Settled(f) /\ sidecar'[f] = b
  BY DEF TypeOK
<1>8. Live(f)' = Live(f)
  BY <1>2, <1>5, <1>7 DEF Live
<1>9. CopyInv(f)'
  BY <1>1, <1>7 DEF CopyInv
<1> QED BY <1>6, <1>8, <1>9, FileShowsNothing

\* The row moves to bytes with the same plaintext.
LEMMA RotMovesShows ==
    ASSUME TypeOK, ContentInv, CopiesAgree, NEW f \in Files, rot[f].pc = "cleared",
           row' = [row EXCEPT ![f] = RowOf(rot[f].next)],
           UNCHANGED <<backing, sidecar, writer, pass, walk>>
    PROVE  Refines
<1>1. FileInv(f) /\ CopyInv(f)
  BY DEF ContentInv, CopiesAgree
<1>2. pass = "rotate" /\ row[f] # NoRow
  BY <1>1, WhileRotating, RotatedRow
<1>3. /\ RowOf(backing[f]) = row[f] /\ rot[f].next.val = backing[f].val
      /\ sidecar[f] = rot[f].next /\ rot[f].next.val \in Vals
  BY <1>1 DEF FileInv, RotatorInv, BytesInv
<1>4. row'[f] = RowOf(rot[f].next) /\ Only(f)
  BY DEF Only, Untouched, TypeOK
<1>5. row'[f].size = "full" /\ NoRow.size = "gone"
  BY <1>3, <1>4, RowOfBytes, NothingSealed
<1>6. Live(f)' = Live(f)
  BY <1>2, <1>3, <1>4, <1>5 DEF Live, Repairing
<1>7. CopyInv(f)'
  BY <1>1, <1>5 DEF CopyInv
<1> QED BY <1>4, <1>6, <1>7, FileShowsNothing

\* The bytes follow the row.
LEMMA RotRenameShows ==
    ASSUME TypeOK, ContentInv, CopiesAgree, NEW f \in Files, RotRename(f)
    PROVE  Refines
<1>1. FileInv(f) /\ CopyInv(f)
  BY DEF ContentInv, CopiesAgree
<1>2. rot[f].pc = "committed" /\ UNCHANGED <<row, writer, pass, walk>>
      /\ backing' = [backing EXCEPT ![f] = sidecar[f]] /\ sidecar' = [sidecar EXCEPT ![f] = NoBytes]
  BY DEF RotRename
<1>3. pass = "rotate" /\ row[f] # NoRow
  BY <1>1, <1>2, WhileRotating, RotatedRow
<1>4. row[f] = RowOf(sidecar[f]) /\ sidecar[f].val = backing[f].val
  BY <1>1, <1>2 DEF FileInv, RotatorInv
<1>5. backing'[f] = sidecar[f] /\ sidecar'[f] = NoBytes /\ Only(f)
  BY <1>2 DEF Only, Untouched, TypeOK
<1>6. Live(f)' = Live(f)
  BY <1>2, <1>3, <1>4, <1>5 DEF Live, Repairing
<1>7. CopyInv(f)'
  <2>1. sidecar'[f].seal = NoSeal
    BY <1>5, NothingSealed
  <2>2. row'[f] = row[f]
    BY <1>2
  <2>3. row[f].size = "gone" => row[f] = NoRow
    BY <1>1 DEF CopyInv
  <2> QED BY <2>1, <2>2, <2>3 DEF CopyInv
<1> QED BY <1>2, <1>5, <1>6, <1>7, FileShowsNothing

\* A rotation that stages, gives up or clears the last check.
LEMMA RotStagesShows ==
    ASSUME TypeOK, ContentInv, CopiesAgree, NEW f \in Files,
           rot[f].pc \in {"staging", "staged", "cleared"},
           NEW b, b.seal = NoSeal \/ b.seal # backing[f].seal,
           sidecar' = [sidecar EXCEPT ![f] = b], UNCHANGED <<row, backing, writer, pass, walk>>
    PROVE  Refines
<1>1. FileInv(f)
  BY DEF ContentInv
<1>2. RowOf(backing[f]) = row[f]
  BY <1>1 DEF FileInv, RotatorInv
<1>3. sidecar'[f] = b /\ Only(f)
  BY DEF Only, Untouched, TypeOK
<1> QED BY <1>2, <1>3, SidecarShowsNothing

\* No step of a rotation shows anything.
LEMMA RotStepShows ==
    ASSUME TypeOK, ContentInv, CopiesAgree, NEW f \in Files, RotStep(f)
    PROVE  Refines
<1>1. NoBytes.seal = NoSeal /\ Torn.seal = NoSeal
  BY NothingSealed
<1>2. CASE RotBegin(f)
  BY <1>1, <1>2, SettlingShowsNothing DEF RotBegin
<1>3. CASE RotSkip(f)
  BY <1>3, StillShowsNothing DEF RotSkip, disk
<1>4. CASE RotRefuse(f)
  <2>1. CASE Verdict(f, listed[f]) = "unresolved"
    BY <1>4, <2>1, StillShowsNothing DEF RotRefuse
  <2>2. CASE Verdict(f, listed[f]) # "unresolved"
    BY <1>1, <1>4, <2>2, SettlingShowsNothing DEF RotRefuse
  <2> QED BY <2>1, <2>2
<1>5. CASE RotStage(f)
  <2>1. PICK s \in FreshSeals(f) :
           sidecar' = [sidecar EXCEPT ![f] = Sealed(rot[f].next.val, s, memKey)]
    BY <1>5 DEF RotStage
  <2> DEFINE b == Sealed(rot[f].next.val, s, memKey)
  <2>2. b.seal # backing[f].seal
    BY DEF Sealed, FreshSeals, Remembered
  <2>3. sidecar' = [sidecar EXCEPT ![f] = b]
    BY <2>1
  <2> HIDE DEF b
  <2>4. rot[f].pc = "staging" /\ UNCHANGED <<row, backing, writer, pass, walk>>
    BY <1>5 DEF RotStage
  <2> QED BY <2>2, <2>3, <2>4, RotStagesShows
<1>6. CASE RotFail(f)
  BY <1>1, <1>6, RotStagesShows DEF RotFail
<1>7. CASE RotBusy(f)
  <2>1. CASE f \in open
    BY <1>1, <1>7, <2>1, RotStagesShows DEF RotBusy
  <2>2. CASE f \notin open
    BY <1>7, <2>2, StillShowsNothing DEF RotBusy
  <2> QED BY <2>1, <2>2
<1>8. CASE RotCommit(f)
  <2>1. CASE row[f] = listed[f]
    BY <1>8, <2>1, RotMovesShows DEF RotCommit
  <2>2. CASE row[f] # listed[f]
    BY <1>1, <1>8, <2>2, RotStagesShows DEF RotCommit
  <2> QED BY <2>1, <2>2
<1>9. CASE RotCommitInDoubt(f)
  <2>1. CASE UNCHANGED row
    BY <1>9, <2>1, StillShowsNothing DEF RotCommitInDoubt
  <2>2. CASE row' = [row EXCEPT ![f] = RowOf(rot[f].next)]
    BY <1>9, <2>2, RotMovesShows DEF RotCommitInDoubt
  <2> QED BY <1>9, <2>1, <2>2 DEF RotCommitInDoubt
<1>10. CASE RotRename(f)
  BY <1>10, RotRenameShows
<1>11. CASE RotRenameFail(f)
  BY <1>11, StillShowsNothing DEF RotRenameFail, disk
<1> QED
  BY <1>2, <1>3, <1>4, <1>5, <1>6, <1>7, <1>8, <1>9, <1>10, <1>11 DEF RotStep

-----------------------------------------------------------------------------
(***************************************************************************)
(* Recovery, repair and the rest of a pass show nothing.                   *)
(***************************************************************************)
\* Only backing files without a row are swept.
LEMMA SweepShows ==
    ASSUME TypeOK, ContentInv, CopiesAgree, Sweep
    PROVE  Refines
<1>1. /\ pass = "sweep" /\ pass' \in {"idle", "rotation walk"}
      /\ UNCHANGED <<row, sidecar, writer>>
      /\ backing' = [g \in Files |-> IF g \in trash THEN NoBytes ELSE backing[g]]
  BY DEF Sweep, StartWalk
<1>2. ASSUME NEW g \in Files PROVE Kept(g)
  <2>1. FileInv(g) /\ CopyInv(g)
    BY DEF ContentInv, CopiesAgree
  <2>2. CASE g \notin trash
    <3>1. Untouched(g)
      BY <1>1, <2>2 DEF Untouched
    <3>2. ~Repairing(g) /\ ~Repairing(g)'
      BY <1>1 DEF Repairing
    <3> QED BY <2>1, <3>1, <3>2, UntouchedKept
  <2>3. CASE g \in trash
    <3>1. row[g] = NoRow
      BY <2>1, <2>3 DEF FileInv, RowInv
    <3>2. row'[g] = NoRow /\ backing'[g] = NoBytes
      BY <1>1, <2>3, <3>1
    <3>3. Live(g)' = Live(g)
      BY <3>1, <3>2 DEF Live
    <3>4. Asked(g)' = Asked(g)
      BY <1>1 DEF Asked
    <3>5. CopyInv(g)'
      BY <3>2, NothingSealed DEF CopyInv
    <3> QED BY <3>3, <3>4, <3>5 DEF Kept
  <2> QED BY <2>2, <2>3
<1> QED BY <1>2, Stutters DEF Refines

\* The walk promotes a sidecar the row describes, and discards one it does not.
LEMMA WalkActShows ==
    ASSUME TypeOK, ContentInv, CopiesAgree, NEW f \in Files, WalkAct(f)
    PROVE  Refines
<1>1. FileInv(f) /\ CopyInv(f)
  BY DEF ContentInv, CopiesAgree
<1>2. /\ pass \in {"startup walk", "rotation walk"} /\ pass' = pass /\ walk.at = {f}
      /\ UNCHANGED <<row, writer>>
      /\ \/ /\ walk.verdict = "promote"
            /\ backing' = [backing EXCEPT ![f] = sidecar[f]]
            /\ sidecar' = [sidecar EXCEPT ![f] = NoBytes]
         \/ /\ walk.verdict = "discard"
            /\ sidecar' = [sidecar EXCEPT ![f] = NoBytes] /\ UNCHANGED backing
         \/ UNCHANGED <<backing, sidecar>>
  BY DEF WalkAct
<1>3. \A g \in Files : ~Repairing(g) /\ ~Repairing(g)'
  BY <1>2 DEF Repairing
<1>4. /\ walk.verdict = "promote" => Encrypted(sidecar[f])
      /\ row[f] # NoRow /\ walk.verdict = "promote" => RowOf(sidecar[f]) = row[f]
      /\ row[f] # NoRow /\ walk.verdict = "discard" => RowOf(backing[f]) = row[f]
  <2>1. pass # "repair" /\ f \in walk.at
    BY <1>2
  <2> QED BY <1>1, <2>1 DEF FileInv, WalkInv
<1>5. NoBytes.seal = NoSeal
  BY NothingSealed
<1>6. CASE UNCHANGED <<backing, sidecar>>
  BY <1>2, <1>3, <1>6, StillShowsNothing
<1>7. ASSUME \/ /\ walk.verdict = "promote"
                /\ backing' = [backing EXCEPT ![f] = sidecar[f]]
                /\ sidecar' = [sidecar EXCEPT ![f] = NoBytes]
             \/ /\ walk.verdict = "discard"
                /\ sidecar' = [sidecar EXCEPT ![f] = NoBytes] /\ UNCHANGED backing
      PROVE  Refines
  <2>1. \A g \in Files \ {f} : Untouched(g)
    BY <1>2, <1>7 DEF Untouched, TypeOK
  <2>2. \A g \in Files \ {f} : Kept(g)
    BY <1>3, <2>1, UntouchedKept DEF CopiesAgree
  <2>3. Asked(f)' = Asked(f)
    BY <1>2 DEF Asked
  <2>4. row'[f] = row[f] /\ sidecar'[f] = NoBytes
    BY <1>2, <1>7 DEF TypeOK
  <2>5. CopyInv(f)'
    BY <1>1, <1>5, <2>4 DEF CopyInv
  <2>6. Live(f)' = Live(f)
    <3>1. CASE row[f] = NoRow
      BY <2>4, <3>1 DEF Live
    <3>2. CASE row[f] # NoRow /\ walk.verdict = "promote"
      <4>1. backing'[f] = sidecar[f]
        BY <1>7, <3>2 DEF TypeOK
      <4>2. RowOf(sidecar[f]) = row[f] /\ sidecar[f].seal # NoSeal
        BY <1>4, <3>2 DEF Encrypted
      <4>3. RowOf(backing[f]) = row[f] => backing[f].val = sidecar[f].val
        BY <1>1, <4>2, RowTells DEF CopyInv
      <4> QED BY <1>3, <2>4, <3>2, <4>1, <4>2, <4>3 DEF Live
    <3>3. CASE row[f] # NoRow /\ walk.verdict = "discard"
      <4>1. backing'[f] = backing[f] /\ RowOf(backing[f]) = row[f]
        BY <1>4, <1>7, <3>3
      <4> QED BY <2>4, <4>1 DEF Live
    <3> QED BY <1>7, <3>1, <3>2, <3>3
  <2>7. \A g \in Files : Kept(g)
    BY <2>2, <2>3, <2>5, <2>6 DEF Kept
  <2> QED BY <2>7, Stutters DEF Refines
<1> QED BY <1>2, <1>6, <1>7

\* Legacy plaintext is sealed where it is ...
LEMMA RepairBytesShows ==
    ASSUME Sheltered, TypeOK, ContentInv, CopiesAgree, NEW f \in Files, RepairBytes(f)
    PROVE  Refines
<1>1. FileInv(f) /\ CopyInv(f)
  BY DEF ContentInv, CopiesAgree
<1>2. /\ pass = "repair" /\ pass' = pass /\ walk.at = {} /\ NeedsRepair(f) /\ ~LeftoverIsLive(f)
      /\ UNCHANGED <<row, sidecar, writer>>
  BY Shelter DEF RepairBytes
<1>3. PICK s \in FreshSeals(f) :
         LET b == Sealed(IF backing[f].seal = NoSeal THEN backing[f].val ELSE "garbage",
                         s, memKey)
         IN  /\ backing' = [backing EXCEPT ![f] = b]
             /\ walk' = WalkAt(walk.todo \ {f}, FALSE, [NoRows EXCEPT ![f] = RowOf(b)],
                               {f}, "none")
  BY DEF RepairBytes
<1> DEFINE b == Sealed(IF backing[f].seal = NoSeal THEN backing[f].val ELSE "garbage", s, memKey)
<1>4. row[f] # NoRow /\ backing[f].seal = NoSeal
  <2>1. row[f] # NoRow /\ ~Encrypted(entry[f])
    BY <1>2 DEF NeedsRepair
  <2> QED BY <1>1, <1>2, <2>1 DEF FileInv, EntryInv
<1>5. b.val = backing[f].val /\ b.seal # sidecar[f].seal
  BY <1>4 DEF Sealed, FreshSeals, Remembered
<1>6. /\ backing' = [backing EXCEPT ![f] = b]
      /\ walk'.at = {f} /\ walk'.rows = [NoRows EXCEPT ![f] = RowOf(b)]
  BY <1>3 DEF WalkAt
<1> HIDE DEF b
<1>7. backing'[f] = b /\ walk'.rows[f] = RowOf(b) /\ \A g \in Files \ {f} : Untouched(g)
  BY <1>2, <1>6 DEF TypeOK, NoRows, Untouched
<1>8. RowOf(backing[f]) = row[f]
  <2>1. ~Repairing(f)
    BY <1>2 DEF Repairing
  <2>2. writer[f].pc # "committed"
    BY <1>1, <1>2 DEF FileInv, LockInv, Writing, Settling
  <2> QED BY <1>1, <1>2, <1>4, <2>1, <2>2 DEF FileInv, RowInv, LeftoverIsLive
<1>9. \A g \in Files \ {f} : Kept(g)
  <2>1. \A g \in Files \ {f} : ~Repairing(g) /\ ~Repairing(g)'
    BY <1>2, <1>6 DEF Repairing
  <2> QED BY <1>7, <2>1, UntouchedKept DEF CopiesAgree
<1>10. Live(f)' = Live(f)
  <2>1. Repairing(f)'
    BY <1>2, <1>6 DEF Repairing
  <2> QED BY <1>2, <1>4, <1>5, <1>7, <1>8, <2>1 DEF Live
<1>11. Asked(f)' = Asked(f)
  BY <1>2 DEF Asked
<1>12. CopyInv(f)'
  BY <1>1, <1>2, <1>5, <1>7 DEF CopyInv
<1>13. \A g \in Files : Kept(g)
  BY <1>9, <1>10, <1>11, <1>12 DEF Kept
<1> QED BY <1>13, Stutters DEF Refines

\* ... and its row follows.
LEMMA RepairRowShows ==
    ASSUME TypeOK, ContentInv, CopiesAgree, NEW f \in Files, RepairRow(f)
    PROVE  Refines
<1>1. FileInv(f) /\ CopyInv(f)
  BY DEF ContentInv, CopiesAgree
<1>2. /\ pass = "repair" /\ pass' = pass /\ walk.at = {f} /\ walk' = WalkOver(walk.todo)
      /\ row' = (IF row[f] = NoRow THEN row ELSE [row EXCEPT ![f] = walk.rows[f]])
      /\ UNCHANGED <<backing, sidecar, writer>>
  BY DEF RepairRow
<1>3. walk'.at = {} /\ Repairing(f)
  BY <1>2 DEF WalkOver, WalkAt, Repairing
<1>4. /\ walk.rows[f].size = "full" /\ Encrypted(walk.rows[f]) /\ ~Encrypted(row[f])
      /\ row[f] # NoRow => RowOf(backing[f]) = walk.rows[f]
  BY <1>1, <1>3 DEF FileInv, RowInv
<1>5. \A g \in Files \ {f} : Kept(g)
  <2>1. \A g \in Files \ {f} : ~Repairing(g) /\ ~Repairing(g)'
    BY <1>2, <1>3 DEF Repairing
  <2>2. \A g \in Files \ {f} : Untouched(g)
    BY <1>2 DEF Untouched, TypeOK
  <2> QED BY <2>1, <2>2, UntouchedKept DEF CopiesAgree
<1>6. Live(f)' = Live(f) /\ CopyInv(f)'
  <2>1. CASE row[f] = NoRow
    <3>1. row'[f] = NoRow
      BY <1>2, <2>1
    <3>2. Live(f)' = Live(f)
      BY <2>1, <3>1 DEF Live
    <3>3. CopyInv(f)'
      BY <1>1, <1>2, <3>1 DEF CopyInv
    <3> QED BY <3>2, <3>3
  <2>2. CASE row[f] # NoRow
    <3>1. row'[f] = walk.rows[f] /\ NoRow.size = "gone"
      BY <1>2, <2>2, NothingSealed DEF TypeOK
    <3>2. Live(f)' = Live(f)
      BY <1>2, <1>3, <1>4, <2>2, <3>1 DEF Live
    <3>3. CopyInv(f)'
      BY <1>1, <1>2, <1>4, <3>1 DEF CopyInv
    <3> QED BY <3>2, <3>3
  <2> QED BY <2>1, <2>2
<1>7. Asked(f)' = Asked(f)
  BY <1>2 DEF Asked
<1>8. \A g \in Files : Kept(g)
  BY <1>5, <1>6, <1>7 DEF Kept
<1> QED BY <1>8, Stutters DEF Refines

\* No step of a pass shows anything.
LEMMA PassStepShows ==
    ASSUME Sheltered, TypeOK, ContentInv, CopiesAgree, PassStep
    PROVE  Refines
<1>1. ASSUME \/ PassBegin \/ WalkLoad \/ StartupWalkDone \/ RepairDone \/ WalkPartial
             \/ RotationList \/ RotationDone \/ FinishDb \/ FinishDbFail \/ FinishMem
             \/ \E f \in Files : WalkJudge(f) \/ RepairSkip(f)
      PROVE  Refines
  <2>1. UNCHANGED <<row, backing, sidecar, writer>>
    BY <1>1 DEF PassBegin, WalkLoad, StartupWalkDone, RepairDone, WalkPartial, disk,
       RotationList, RotationDone, FinishDb, FinishDbFail, FinishMem, WalkJudge,
       RepairSkip
  <2>2. pass # "repair" \/ walk.at = {}
    BY <1>1 DEF PassBegin, WalkLoad, StartupWalkDone, RepairDone, WalkPartial,
       RotationList, RotationDone, FinishDb, FinishDbFail, FinishMem, WalkJudge,
       RepairSkip
  <2>3. pass' # "repair" \/ walk'.at = {}
    <3>1. (\A S : WalkOver(S).at = {}) /\ NoWalk.at = {}
      BY DEF WalkOver, WalkAt, NoWalk
    <3>2. \/ pass' # "repair"
          \/ \E S : walk' = WalkOver(S)
      BY <1>1 DEF PassBegin, StartWalk, WalkLoad, StartupWalkDone, RepairDone,
         WalkPartial, RotationList, RotationDone, FinishDb, FinishDbFail, FinishMem,
         WalkJudge, RepairSkip
    <3> QED BY <3>1, <3>2
  <2>4. \A g \in Files : ~Repairing(g) /\ ~Repairing(g)'
    BY <2>2, <2>3 DEF Repairing
  <2> QED BY <2>1, <2>4, StillShowsNothing
<1> QED
  BY <1>1, SweepShows, WalkActShows, RepairBytesShows, RepairRowShows, RotStepShows, Shelter
     DEF PassStep, WalkStep, RepairRowFail

-----------------------------------------------------------------------------
(***************************************************************************)
(* Together.                                                               *)
(***************************************************************************)
\* When the daemon dies, what was asked for and did not take effect is abandoned.
LEMMA CrashShows ==
    ASSUME Sheltered, TypeOK, CopiesAgree, Crash
    PROVE  Refines
<1>1. /\ UNCHANGED <<row, backing, sidecar>> /\ writer' = [g \in Files |-> Idle]
      /\ pass' = "idle" /\ (pass # "repair" \/ walk.at = {})
  BY Shelter DEF Crash, disk
<1>2. Idle.pc = "idle"
  BY DEF Idle, WriterAt
<1>3. ASSUME NEW g \in Files PROVE CopyInv(g)' /\ Asked(g)' = "gone" /\ Live(g)' = Live(g)
  <2>1. CopyInv(g)'
    BY <1>1 DEF CopiesAgree, CopyInv
  <2>2. Asked(g)' = "gone"
    BY <1>1, <1>2 DEF Asked, InFlight
  <2>3. ~Repairing(g) /\ ~Repairing(g)'
    BY <1>1 DEF Repairing
  <2>4. Live(g)' = Live(g)
    BY <1>1, <2>3 DEF Live
  <2> QED BY <2>1, <2>2, <2>4
<1>4. Files \in SUBSET Files /\ \A g \in Files \ Files : Kept(g)
  OBVIOUS
<1> QED BY <1>3, <1>4, Abandons DEF Refines

\* Every step of a vault is a step of the store, or shows nothing.
LEMMA StoreStep ==
    ASSUME Sheltered, TypeOK, ContentInv, CopiesAgree, [Next]_vars
    PROVE  Refines
<1>1. CASE UNCHANGED vars
  BY <1>1, StillShowsNothing DEF vars, disk, passVars
<1>2. ASSUME NEW f \in Files, UserStep(f) \/ WriterStep(f) PROVE Refines
  <2>1. CASE OpenCopy(f) \/ ReleaseCopy(f)
    BY <2>1, StillShowsNothing DEF OpenCopy, ReleaseCopy, disk, passVars
  <2>2. ~WriteCommitInDoubt(f)
    BY Shelter DEF WriteCommitInDoubt
  <2>3. CASE UserStep(f)
    BY <2>1, <2>3, CreateBeginShows, WriteBeginShows, TrashRowShows DEF UserStep
  <2>4. CASE WriterStep(f)
    BY <2>2, <2>4, CreatePlaceShows, CreateRowShows, CreateFailShows, WriteStageShows,
       WriteFailShows, WriteCommitShows, WriteRenameShows, WriteRenameFailShows,
       TrashBackingShows DEF WriterStep
  <2> QED BY <1>2, <2>3, <2>4
<1>3. CASE PrepareCheck \/ PrepareStep
  BY <1>3, PrepareTouches, StillShowsNothing DEF disk, passVars
<1> QED BY <1>1, <1>2, <1>3, PassStepShows, CrashShows DEF Next

\* Every vault starts as some store.
LEMMA StoreInit ==
    ASSUME Init
    PROVE  CopiesAgree /\ Store!Init
<1>1. PICK c \in [Files -> Vals \cup {"gone", "empty"}], s \in Seals,
           legacy \in SUBSET LegacyFiles :
         backing = [f \in Files |->
                      IF c[f] \in {"gone", "empty"} \/ f \in legacy
                        THEN Plain(c[f]) ELSE Sealed(c[f], s, 1)]
  BY DEF Init
<1>2. /\ row = [f \in Files |-> RowOf(backing[f])] /\ sidecar = [f \in Files |-> NoBytes]
      /\ writer = [f \in Files |-> Idle]
  BY DEF Init
<1>3. ASSUME NEW f \in Files
      PROVE  CopyInv(f) /\ Live(f) \in Vals \cup {"empty", "gone"} /\ Asked(f) = "gone"
  <2>1. /\ backing[f] = Plain(c[f]) \/ (backing[f] = Sealed(c[f], s, 1) /\ c[f] # "gone")
        /\ row[f] = RowOf(backing[f]) /\ sidecar[f] = NoBytes /\ writer[f] = Idle
    BY <1>1, <1>2
  <2>2. backing[f].val = c[f] /\ c[f] \in Vals \cup {"gone", "empty"}
    BY <2>1, SMTT(60) DEF Plain, Sealed
  <2>3. NoBytes.seal = NoSeal /\ Idle.pc = "idle"
    BY DEF NoBytes, Plain, Idle, WriterAt
  <2>4. row[f].size = "gone" => row[f] = NoRow
    <3>1. row[f].size = "gone" => c[f] = "gone"
      BY <2>1, <2>2, SMTT(60) DEF RowOf
    <3> QED BY <2>1, <3>1 DEF NoRow, NoBytes
  <2>5. CopyInv(f)
    BY <2>1, <2>3, <2>4 DEF CopyInv
  <2>6. Live(f) \in Vals \cup {"empty", "gone"}
    BY <2>1, <2>2 DEF Live
  <2>7. Asked(f) = "gone"
    BY <2>1, <2>3 DEF Asked, InFlight
  <2> QED BY <2>5, <2>6, <2>7
<1>4. Store!Init
  BY <1>3 DEF Store!Init
<1> QED BY <1>3, <1>4 DEF CopiesAgree

\* Two copies of a file under one IV hold the same plaintext in every reachable state, so
\* promoting a sidecar (resolveSidecar) never replaces content by other content.
THEOREM CopiesAlwaysAgree == Sheltered => (Spec => []CopiesAgree)
<1> SUFFICES ASSUME Sheltered PROVE Spec => []CopiesAgree
  OBVIOUS
<1>1. Init => TypeOK /\ ContentInv /\ CopiesAgree
  BY TypeInit, ContentInit, StoreInit
<1>2. TypeOK /\ ContentInv /\ CopiesAgree /\ [Next]_vars => TypeOK' /\ ContentInv' /\ CopiesAgree'
  BY TypeStep, ContentStep, StoreStep DEF Refines
<1> QED
  BY <1>1, <1>2, PTL DEF Spec

\* Writes, seals, rotations, recoveries, repairs, failures and crashes together implement a
\* register per file: its content changes only when a user operation takes effect, in one
\* step, to exactly what that operation asked for, as long as no event of ContentEvents
\* happens.
THEOREM VaultIsContentStore == Sheltered => (Spec => ImplementsContentStore)
<1> SUFFICES ASSUME Sheltered PROVE Spec => ImplementsContentStore
  OBVIOUS
<1>1. Init => Store!Init
  BY StoreInit
<1>2. TypeOK /\ ContentInv /\ CopiesAgree /\ [Next]_vars => [Store!Next]_(Store!vars)
  BY StoreStep DEF Refines
<1> QED
  BY <1>1, <1>2, TypeCorrect, ContentAlwaysInv, CopiesAlwaysAgree, PTL
     DEF Spec, ImplementsContentStore, Store!Spec
=============================================================================
