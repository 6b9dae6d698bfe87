------------------------- MODULE VaultContentFiles -------------------------
(***************************************************************************)
(* The types of VaultContent, the key argument about it, and the first     *)
(* half of the content argument.  KeyInv is inductive, so the previous key *)
(* is dropped only when no row needs it; and the steps that work on one    *)
(* file keep ContentInv.  Holds for every set of files, plaintexts and IVs *)
(* and every bound on keys and crashes; what is said of keys holds         *)
(* whatever events of ContentEvents are admitted, what is said of content  *)
(* whatever events of KeyEvents are.                                       *)
(***************************************************************************)
EXTENDS VaultContent, TLAPS

\* Zenon is the prover of a leaf that names none.
USE ZenonT(120)

-----------------------------------------------------------------------------
\* The constructors of bytes, rows and thread states stay within their types.
LEMMA DataTypes ==
    /\ \A v \in Vals \cup {"gone", "empty", "garbage"} :
          /\ Plain(v) \in Bytes
          /\ \A s \in Seals, k \in 0 .. MaxKey : Sealed(v, s, k) \in Bytes
    /\ \A v \in Vals \cup {"gone", "empty", "garbage"}, s \in Seals, k \in 0 .. MaxKey :
          Encoded(v, s, k) \in Bytes
    /\ NoBytes \in Bytes /\ Torn \in Bytes
    /\ \A b \in Bytes : /\ RowOf(b) \in Rows /\ StateOf(b) \in States
                        /\ b.val \in Vals \cup {"gone", "empty", "garbage"}
    /\ \A r \in Rows : StateOf(r) \in States
    /\ NoRow \in Rows /\ NoRows \in [Files -> Rows]
    /\ MaxKey \in Nat \ {0} /\ MaxCrashes \in Nat
<1>0. MaxKey \in Nat \ {0} /\ MaxCrashes \in Nat /\ 0 \in 0 .. MaxKey
  BY ContentAssumption, SMTT(60)
<1>1. \A v \in Vals \cup {"gone", "empty", "garbage"} :
          /\ Plain(v) \in Bytes
          /\ \A s \in Seals, k \in 0 .. MaxKey : Sealed(v, s, k) \in Bytes
  BY <1>0 DEF Plain, Sealed, Bytes
<1>2. NoBytes \in Bytes /\ Torn \in Bytes
  BY <1>1 DEF NoBytes, Torn
<1>3. \A b \in Bytes : /\ RowOf(b) \in Rows /\ StateOf(b) \in States
                       /\ b.val \in Vals \cup {"gone", "empty", "garbage"}
  BY DEF RowOf, StateOf, Bytes, Rows, States
<1>4. \A r \in Rows : StateOf(r) \in States
  BY DEF StateOf, Rows, States
<1>5. NoRow \in Rows /\ NoRows \in [Files -> Rows]
  BY <1>2, <1>3 DEF NoRow, NoRows
<1>6. \A v \in Vals \cup {"gone", "empty", "garbage"}, s \in Seals, k \in 0 .. MaxKey :
          Encoded(v, s, k) \in Bytes
  BY <1>1 DEF Encoded
<1> QED
  BY <1>0, <1>1, <1>2, <1>3, <1>4, <1>5, <1>6

\* The arithmetic of key versions and of the crash counter.
LEMMA Counting ==
    /\ \A k \in 1 .. MaxKey : k \in 0 .. MaxKey /\ (k < MaxKey => k + 1 \in 1 .. MaxKey)
    /\ \A c \in 0 .. MaxCrashes : c < MaxCrashes => c + 1 \in 0 .. MaxCrashes
    /\ \A k \in 1 .. MaxKey, c \in 0 .. MaxKey :
          /\ k + c < MaxKey => c + 1 \in 0 .. MaxKey /\ k + (c + 1) <= MaxKey
          /\ c > 0 /\ k + c <= MaxKey =>
                /\ c - 1 \in 0 .. MaxKey /\ k + (c - 1) <= MaxKey
                /\ k + 1 \in 1 .. MaxKey /\ (k + 1) + (c - 1) <= MaxKey
    /\ \A k \in 1 .. MaxKey : 0 \in 0 .. MaxKey /\ k + 0 <= MaxKey
  BY ContentAssumption, SMTT(60)

\* So do the constructors of thread states, and their fields have their types.
LEMMA ThreadTypes ==
    /\ \A pc \in WriterPcs, k \in 0 .. MaxKey, b \in Bytes : WriterAt(pc, k, b) \in WriterRecs
    /\ \A w \in WriterRecs : w.pc \in WriterPcs /\ w.key \in 0 .. MaxKey /\ w.next \in Bytes
    /\ \A pc \in RotPcs, b \in Bytes : RotAt(pc, b) \in RotRecs
    /\ \A r \in RotRecs : r.pc \in RotPcs /\ r.next \in Bytes
    /\ \A S, T \in SUBSET Files, l \in BOOLEAN, rs \in [Files -> Rows], v \in Verdicts :
          WalkAt(S, l, rs, T, v) \in WalkRecs
    /\ \A S \in SUBSET Files : WalkOver(S) \in WalkRecs
    /\ \A w \in WalkRecs : /\ w.todo \in SUBSET Files /\ w.loaded \in BOOLEAN
                           /\ w.rows \in [Files -> Rows] /\ w.at \in SUBSET Files
                           /\ w.verdict \in Verdicts
    /\ Idle \in WriterRecs /\ NoRot \in RotRecs /\ NoWalk \in WalkRecs
<1>1. \A pc \in WriterPcs, k \in 0 .. MaxKey, b \in Bytes : WriterAt(pc, k, b) \in WriterRecs
  BY DEF WriterAt, WriterRecs
<1>2. \A w \in WriterRecs : w.pc \in WriterPcs /\ w.key \in 0 .. MaxKey /\ w.next \in Bytes
  BY DEF WriterRecs
<1>3. \A pc \in RotPcs, b \in Bytes : RotAt(pc, b) \in RotRecs
  BY DEF RotAt, RotRecs
<1>4. \A r \in RotRecs : r.pc \in RotPcs /\ r.next \in Bytes
  BY DEF RotRecs
<1>5. \A S, T \in SUBSET Files, l \in BOOLEAN, rs \in [Files -> Rows], v \in Verdicts :
          WalkAt(S, l, rs, T, v) \in WalkRecs
  BY DEF WalkAt, WalkRecs
<1>6. \A S \in SUBSET Files : WalkOver(S) \in WalkRecs
  BY <1>5, DataTypes DEF WalkOver, Verdicts
<1>7. \A w \in WalkRecs : /\ w.todo \in SUBSET Files /\ w.loaded \in BOOLEAN
                          /\ w.rows \in [Files -> Rows] /\ w.at \in SUBSET Files
                          /\ w.verdict \in Verdicts
  BY DEF WalkRecs
<1>8. Idle \in WriterRecs /\ NoRot \in RotRecs /\ NoWalk \in WalkRecs
  BY <1>1, <1>3, <1>6, DataTypes, SMTT(60) DEF Idle, NoRot, NoWalk, WriterPcs, RotPcs
<1> QED
  BY <1>1, <1>2, <1>3, <1>4, <1>5, <1>6, <1>7, <1>8

\* resolveSidecar returns one of its outcomes.
LEMMA VerdictType == \A f \in Files, r \in Rows : Verdict(f, r) \in Verdicts
  BY DEF Verdict, Verdicts, Encrypted

\* Every action preserves the types.
LEMMA TypeStep == TypeOK /\ [Next]_vars => TypeOK'
<1> SUFFICES ASSUME TypeOK, [Next]_vars PROVE TypeOK'
  OBVIOUS
<1> USE DEF TypeOK, disk, keys, passVars
<1>1. ASSUME NEW f \in Files, NEW v \in Vals \cup {"empty"}, CreateBegin(f, v) PROVE TypeOK'
  BY <1>1, DataTypes, ThreadTypes, SMTT(60) DEF CreateBegin, WriterPcs
<1>2. ASSUME NEW f \in Files, NEW v \in Vals \cup {"empty"}, WriteBegin(f, v) PROVE TypeOK'
  <2>1. WriterAt("staging", memKey, Plain(v)) \in WriterRecs /\ Torn \in Bytes
    BY DataTypes, ThreadTypes, SMTT(60) DEF WriterPcs
  <2> QED
    BY <1>2, <2>1 DEF WriteBegin
<1>3. ASSUME NEW f \in Files, CreatePlace(f) PROVE TypeOK'
  <2>1. PICK s \in Seals : LET b == Encoded(writer[f].next.val, s, writer[f].key)
                           IN  /\ backing' = [backing EXCEPT ![f] = b]
                               /\ writer' = [writer EXCEPT ![f] = WriterAt("created", writer[f].key, b)]
    BY <1>3 DEF CreatePlace, FreshSeals
  <2> DEFINE b == Encoded(writer[f].next.val, s, writer[f].key)
  <2>2. b \in Bytes
    BY DataTypes, ThreadTypes
  <2>3. WriterAt("created", writer[f].key, b) \in WriterRecs
    BY <2>2, ThreadTypes DEF WriterPcs
  <2> HIDE DEF b
  <2> QED
    BY <1>3, <2>1, <2>2, <2>3 DEF CreatePlace, b
<1>4. ASSUME NEW f \in Files, CreateRow(f) PROVE TypeOK'
  BY <1>4, DataTypes, ThreadTypes DEF CreateRow, WriterPcs
<1>5. ASSUME NEW f \in Files, CreateFail(f) PROVE TypeOK'
  BY <1>5, DataTypes, ThreadTypes DEF CreateFail, WriterPcs
<1>6. ASSUME NEW f \in Files, WriteStage(f) PROVE TypeOK'
  <2>1. PICK s \in Seals : LET b == Encoded(writer[f].next.val, s, writer[f].key)
                           IN  /\ sidecar' = [sidecar EXCEPT ![f] = b]
                               /\ writer' = [writer EXCEPT ![f] = WriterAt("staged", writer[f].key, b)]
    BY <1>6 DEF WriteStage, FreshSeals
  <2> DEFINE b == Encoded(writer[f].next.val, s, writer[f].key)
  <2>2. b \in Bytes
    BY DataTypes, ThreadTypes
  <2>3. WriterAt("staged", writer[f].key, b) \in WriterRecs
    BY <2>2, ThreadTypes DEF WriterPcs
  <2> HIDE DEF b
  <2> QED
    BY <1>6, <2>1, <2>2, <2>3 DEF WriteStage, b
<1>7. ASSUME NEW f \in Files, WriteFail(f) PROVE TypeOK'
  BY <1>7, DataTypes, ThreadTypes DEF WriteFail, WriterPcs
<1>8. ASSUME NEW f \in Files, WriteCommit(f) PROVE TypeOK'
  BY <1>8, DataTypes, ThreadTypes DEF WriteCommit, WriterPcs
<1>9. ASSUME NEW f \in Files, WriteCommitInDoubt(f) PROVE TypeOK'
  BY <1>9, DataTypes, ThreadTypes DEF WriteCommitInDoubt, WriterPcs
<1>10. ASSUME NEW f \in Files, WriteRename(f) PROVE TypeOK'
  <2>1. StateOf(writer[f].next) \in States
    BY DataTypes DEF WriterRecs
  <2>2. entry' \in [Files -> States]
    BY <1>10, <2>1 DEF WriteRename
  <2>3. Idle \in WriterRecs /\ NoBytes \in Bytes
    BY DataTypes, ThreadTypes
  <2> QED
    BY <1>10, <2>2, <2>3 DEF WriteRename
<1>11. ASSUME NEW f \in Files, WriteRenameFail(f) PROVE TypeOK'
  BY <1>11, DataTypes, ThreadTypes DEF WriteRenameFail, WriterPcs
<1>12. ASSUME NEW f \in Files, TrashBacking(f) PROVE TypeOK'
  BY <1>12, DataTypes, ThreadTypes DEF TrashBacking, WriterPcs
<1>13. ASSUME NEW f \in Files, TrashRow(f) PROVE TypeOK'
  BY <1>13, DataTypes, ThreadTypes, SMTT(60) DEF TrashRow, WriterPcs
<1>14. ASSUME NEW f \in Files, OpenCopy(f) PROVE TypeOK'
  BY <1>14, DataTypes, ThreadTypes DEF OpenCopy, WriterPcs
<1>15. ASSUME NEW f \in Files, ReleaseCopy(f) PROVE TypeOK'
  BY <1>15, DataTypes, ThreadTypes DEF ReleaseCopy, WriterPcs
<1>16. ASSUME NEW f \in Files, WalkJudge(f) PROVE TypeOK'
  BY <1>16, DataTypes, ThreadTypes, VerdictType DEF WalkJudge, Verdicts
<1>17. ASSUME NEW f \in Files, WalkAct(f) PROVE TypeOK'
  <2>1. walk' \in WalkRecs
    BY <1>17, ThreadTypes DEF WalkAct, Verdicts
  <2>2. StateOf(walk.rows[f]) \in States /\ NoBytes \in Bytes
    BY DataTypes, ThreadTypes
  <2> QED
    BY <1>17, <2>1, <2>2 DEF WalkAct
<1>18. ASSUME NEW f \in Files, RepairBytes(f) PROVE TypeOK'
  <2> DEFINE v == IF backing[f].seal = NoSeal THEN backing[f].val ELSE "garbage"
  <2>1. PICK s \in Seals :
          /\ backing' = [backing EXCEPT ![f] = Sealed(v, s, memKey)]
          /\ walk' = WalkAt(walk.todo \ {f}, FALSE,
                            [NoRows EXCEPT ![f] = RowOf(Sealed(v, s, memKey))], {f}, "none")
          /\ entry' = [entry EXCEPT ![f] = StateOf(Sealed(v, s, memKey))]
    BY <1>18 DEF RepairBytes, FreshSeals
  <2> DEFINE b == Sealed(v, s, memKey)
  <2>2. b \in Bytes
    <3>1. v \in Vals \cup {"gone", "empty", "garbage"} /\ memKey \in 0 .. MaxKey
      BY DataTypes, Counting
    <3> QED
      BY <3>1, DataTypes
  <2>3. RowOf(b) \in Rows /\ StateOf(b) \in States
    BY <2>2, DataTypes
  <2>4. [NoRows EXCEPT ![f] = RowOf(b)] \in [Files -> Rows]
    BY <2>3, DataTypes
  <2>5. walk' \in WalkRecs
    BY <2>1, <2>4, ThreadTypes DEF Verdicts
  <2> QED
    BY <1>18, <2>1, <2>2, <2>3, <2>5 DEF RepairBytes
<1>19. ASSUME NEW f \in Files, RepairRow(f) PROVE TypeOK'
  BY <1>19, DataTypes, ThreadTypes DEF RepairRow, Verdicts
<1>20. ASSUME NEW f \in Files, RepairSkip(f) PROVE TypeOK'
  BY <1>20, DataTypes, ThreadTypes DEF RepairSkip, Verdicts
<1>21. ASSUME NEW f \in Files, RotBegin(f) PROVE TypeOK'
  BY <1>21, DataTypes, ThreadTypes DEF RotBegin, RotPcs, RotDone, Settled
<1>22. ASSUME NEW f \in Files, RotSkip(f) PROVE TypeOK'
  BY <1>22, DataTypes, ThreadTypes DEF RotSkip, RotPcs, RotDone
<1>23. ASSUME NEW f \in Files, RotRefuse(f) PROVE TypeOK'
  <2>1. NoRot \in RotRecs /\ NoBytes \in Bytes /\ RowOf(rot[f].next) \in Rows
    BY DataTypes, ThreadTypes
  <2>2. \A pc \in RotPcs : RotAt(pc, rot[f].next) \in RotRecs
    BY ThreadTypes
  <2> QED
    BY <1>23, <2>1, <2>2, SMTT(60) DEF RotRefuse, RotDone, RotPcs, Settled
<1>24. ASSUME NEW f \in Files, RotStage(f) PROVE TypeOK'
  <2>1. PICK s \in Seals : LET b == Sealed(rot[f].next.val, s, memKey)
                           IN  /\ sidecar' = [sidecar EXCEPT ![f] = b]
                               /\ rot' = [rot EXCEPT ![f] = RotAt("staged", b)]
    BY <1>24 DEF RotStage, FreshSeals
  <2> DEFINE b == Sealed(rot[f].next.val, s, memKey)
  <2>2. b \in Bytes
    BY DataTypes, ThreadTypes, Counting
  <2>3. RotAt("staged", b) \in RotRecs
    BY <2>2, ThreadTypes DEF RotPcs
  <2> HIDE DEF b
  <2> QED
    BY <1>24, <2>1, <2>2, <2>3 DEF RotStage, b
<1>25. ASSUME NEW f \in Files, RotFail(f) PROVE TypeOK'
  BY <1>25, DataTypes, ThreadTypes DEF RotFail, RotPcs, RotDone
<1>26. ASSUME NEW f \in Files, RotBusy(f) PROVE TypeOK'
  <2>1. NoRot \in RotRecs /\ NoBytes \in Bytes /\ RowOf(rot[f].next) \in Rows
    BY DataTypes, ThreadTypes
  <2>2. \A pc \in RotPcs : RotAt(pc, rot[f].next) \in RotRecs
    BY ThreadTypes
  <2> QED
    BY <1>26, <2>1, <2>2, SMTT(60) DEF RotBusy, RotDone, RotPcs
<1>27. ASSUME NEW f \in Files, RotCommit(f) PROVE TypeOK'
  <2>1. NoRot \in RotRecs /\ NoBytes \in Bytes /\ RowOf(rot[f].next) \in Rows
    BY DataTypes, ThreadTypes
  <2>2. \A pc \in RotPcs : RotAt(pc, rot[f].next) \in RotRecs
    BY ThreadTypes
  <2> QED
    BY <1>27, <2>1, <2>2, SMTT(60) DEF RotCommit, RotDone, RotPcs
<1>28. ASSUME NEW f \in Files, RotCommitInDoubt(f) PROVE TypeOK'
  <2>1. NoRot \in RotRecs /\ NoBytes \in Bytes /\ RowOf(rot[f].next) \in Rows
    BY DataTypes, ThreadTypes
  <2>2. \A pc \in RotPcs : RotAt(pc, rot[f].next) \in RotRecs
    BY ThreadTypes
  <2> QED
    BY <1>28, <2>1, <2>2 DEF RotCommitInDoubt, RotDone, RotPcs
<1>29. ASSUME NEW f \in Files, RotRename(f) PROVE TypeOK'
  BY <1>29, DataTypes, ThreadTypes DEF RotRename, RotPcs, RotDone
<1>30. ASSUME NEW f \in Files, RotRenameFail(f) PROVE TypeOK'
  BY <1>30, DataTypes, ThreadTypes DEF RotRenameFail, RotPcs, RotDone
<1>31. ASSUME RotateVaultKey, minted' = minted \/ minted' = minted \cup {dbKey + 1} PROVE TypeOK'
  <2>1. /\ checked' = checked - 1 /\ dbKey' = dbKey + 1 /\ dbPending' = dbPending \cup {dbKey}
        /\ UNCHANGED <<disk, memKey, memOld, lock, writer, open, entry, passVars, crashes>>
        /\ checked > 0
    BY <1>31 DEF RotateVaultKey
  <2>2. /\ dbKey + 1 \in 1 .. MaxKey /\ checked - 1 \in 0 .. MaxKey
        /\ (dbKey + 1) + (checked - 1) <= MaxKey
    BY <2>1, Counting
  <2> QED
    BY <1>31, <2>1, <2>2
<1>32. ASSUME PrepareMem PROVE TypeOK'
  <2>1. PICK v \in minted : /\ memKey' = v /\ memOld' = memKey /\ minted' = minted \ {v}
                            /\ UNCHANGED <<disk, dbKey, dbPending, checked, lock, writer, open,
                                           entry, passVars, crashes>>
    BY <1>32 DEF PrepareMem
  <2>2. memKey \in 0 .. MaxKey
    BY Counting
  <2> QED
    BY <2>1, <2>2
<1>33. ASSUME FinishDb PROVE TypeOK'
  BY <1>33, DataTypes, ThreadTypes DEF FinishDb, Passes, Settling
<1>45. ASSUME FinishDbFail PROVE TypeOK'
  <2>1. dbPending' \subseteq 1 .. MaxKey
    BY <1>45 DEF FinishDbFail
  <2> QED
    BY <1>45, <2>1 DEF FinishDbFail, Passes
<1>46. ASSUME PrepareCheck PROVE TypeOK'
  <2>1. checked + 1 \in 0 .. MaxKey /\ dbKey + (checked + 1) <= MaxKey
    BY <1>46, Counting DEF PrepareCheck
  <2> QED
    BY <1>46, <2>1 DEF PrepareCheck
<1>47. ASSUME PrepareDbFail PROVE TypeOK'
  <2>1. checked - 1 \in 0 .. MaxKey /\ dbKey + (checked - 1) <= MaxKey
    BY <1>47, Counting DEF PrepareDbFail
  <2> QED
    BY <1>47, <2>1 DEF PrepareDbFail
<1>48. ASSUME NEW f \in Files, RepairRowFail(f) PROVE TypeOK'
  BY <1>48, ThreadTypes DEF RepairRowFail
<1>49. ASSUME PrepareDb \/ PrepareDbInDoubt PROVE TypeOK'
  BY <1>31, <1>49 DEF PrepareDb, PrepareDbInDoubt
<1>34. ASSUME FinishMem PROVE TypeOK'
  BY <1>34, Counting DEF FinishMem, Passes
<1>35. ASSUME PassBegin PROVE TypeOK'
  <2>1. Found \in SUBSET Files
    BY DEF Found
  <2>2. pass' \in Passes /\ walk' \in WalkRecs
    BY <1>35, <2>1, ThreadTypes DEF PassBegin, StartWalk, Passes, Settling
  <2> QED
    BY <1>35, <2>2 DEF PassBegin
<1>36. ASSUME WalkLoad PROVE TypeOK'
  BY <1>36, DataTypes, ThreadTypes DEF WalkLoad, Passes, Settling, Verdicts
<1>37. ASSUME StartupWalkDone PROVE TypeOK'
  BY <1>37, DataTypes, ThreadTypes DEF StartupWalkDone, Passes, Settling, Verdicts
<1>38. ASSUME RepairDone PROVE TypeOK'
  BY <1>38, DataTypes, ThreadTypes DEF RepairDone, Passes, Settling
<1>39. ASSUME Sweep PROVE TypeOK'
  <2>1. Found \in SUBSET Files
    BY DEF Found
  <2>2. WalkOver(Found) \in WalkRecs /\ NoBytes \in Bytes
    BY <2>1, DataTypes, ThreadTypes
  <2> QED
    BY <1>39, <2>2 DEF Sweep, StartWalk, Passes, Settling
<1>40. ASSUME WalkPartial PROVE TypeOK'
  BY <1>40, DataTypes, ThreadTypes DEF WalkPartial, Passes, Settling, Verdicts
<1>41. ASSUME RotationList PROVE TypeOK'
  BY <1>41, DataTypes, ThreadTypes DEF RotationList, Passes, Settling, RotPcs
<1>42. ASSUME RotationDone PROVE TypeOK'
  BY <1>42, DataTypes, ThreadTypes DEF RotationDone, Passes, Settling
<1>43. ASSUME Crash PROVE TypeOK'
  <2>1. [f \in Files |-> Idle] \in [Files -> WriterRecs] /\ [f \in Files |-> NoRot] \in [Files -> RotRecs]
    BY ThreadTypes
  <2>2. [f \in Files |-> StateOf(row[f])] \in [Files -> States] /\ NoRows \in [Files -> Rows]
    BY DataTypes
  <2>3. crashes + 1 \in 0 .. MaxCrashes
    BY <1>43, Counting DEF Crash
  <2>4. NoWalk \in WalkRecs
    BY ThreadTypes
  <2>5. memOld' \in 0 .. MaxKey /\ 0 \in 0 .. MaxKey /\ dbKey + 0 <= MaxKey
    <3>1. memOld' \in dbPending \/ memOld' = 0
      BY <1>43 DEF Crash
    <3> QED
      BY <3>1, Counting
  <2> QED
    BY <1>43, <2>1, <2>2, <2>3, <2>4, <2>5 DEF Crash, Passes
<1>44. CASE UNCHANGED vars
  BY <1>44 DEF vars
<1> QED
  BY <1>1, <1>2, <1>3, <1>4, <1>5, <1>6, <1>7, <1>8, <1>9, <1>10, <1>11, <1>12, <1>13,
     <1>14, <1>15, <1>16, <1>17, <1>18, <1>19, <1>20, <1>21, <1>22, <1>23, <1>24, <1>25,
     <1>26, <1>27, <1>28, <1>29, <1>30, <1>32, <1>33, <1>34, <1>35, <1>36, <1>37,
     <1>38, <1>39, <1>40, <1>41, <1>42, <1>43, <1>44, <1>45, <1>46, <1>47, <1>48, <1>49
     DEF Next, UserStep, WriterStep, PassStep, PrepareStep, WalkStep, RotStep

\* The initial state is well typed.
LEMMA TypeInit == Init => TypeOK
<1> SUFFICES ASSUME Init PROVE TypeOK
  OBVIOUS
<1>1. PICK c \in [Files -> Vals \cup {"gone", "empty"}], s \in Seals,
              legacy \in SUBSET LegacyFiles :
         backing = [f \in Files |->
                 IF c[f] \in {"gone", "empty"} \/ f \in legacy
                   THEN Plain(c[f]) ELSE Sealed(c[f], s, 1)]
  BY DEF Init
<1>2. /\ 1 \in 0 .. MaxKey /\ 1 \in 1 .. MaxKey /\ 0 \in 0 .. MaxCrashes
      /\ 0 \in 0 .. MaxKey /\ 1 + 0 <= MaxKey
  BY ContentAssumption, SMTT(60)
<1>3. backing \in [Files -> Bytes]
  BY <1>1, <1>2, DataTypes
<1>4. row \in [Files -> Rows] /\ entry \in [Files -> States]
  BY <1>3, DataTypes DEF Init
<1> QED
  BY <1>2, <1>3, <1>4, DataTypes, ThreadTypes DEF Init, TypeOK, Passes

\* In every reachable state the database, the files, the threads of control and the
\* caches hold values of their types (Rotation.cpp, Filesystem.cpp, Local.cpp).
THEOREM TypeCorrect == Spec => []TypeOK
<1>1. Init => TypeOK
  BY TypeInit
<1>2. TypeOK /\ [Next]_vars => TypeOK'
  BY TypeStep
<1> QED
  BY <1>1, <1>2, PTL DEF Spec

-----------------------------------------------------------------------------
\* Initially every encrypted row is on key 1, which is held.
LEMMA KeyInit == Init => KeyInv
<1> SUFFICES ASSUME Init PROVE KeyInv
  OBVIOUS
<1>1. PICK c \in [Files -> Vals \cup {"gone", "empty"}], s \in Seals,
              legacy \in SUBSET LegacyFiles :
         backing = [f \in Files |->
                 IF c[f] \in {"gone", "empty"} \/ f \in legacy
                   THEN Plain(c[f]) ELSE Sealed(c[f], s, 1)]
  BY DEF Init
<1>2. \A f \in Files : row[f].seal # NoSeal => row[f].ver = 1
  BY <1>1 DEF Init, RowOf, Plain, Sealed
<1>3. \A f \in Files : writer[f].pc = "idle" /\ rot[f].pc = "idle"
  BY DEF Init, Idle, WriterAt, NoRot, RotAt
<1>4. memKey = 1 /\ memOld = 0 /\ pass = "idle" /\ Held = {1}
  BY DEF Init, Held
<1>5. KeyStateInv
  BY <1>4 DEF KeyStateInv, Init
<1>6. ASSUME NEW f \in Files
      PROVE  WriterKeyed(f) /\ RotKeyed(f) /\ RepairKeyed(f) /\ RowKeyed(f) /\ FinishInv(f)
  BY <1>2, <1>3, <1>4 DEF WriterKeyed, RotKeyed, RepairKeyed, RowKeyed, FinishInv, Repairing,
                          Encrypted, InFlight
<1> QED
  BY <1>5, <1>6 DEF KeyInv

\* The absent row is not encrypted.
LEMMA NoRowIsPlain == NoRow.seal = NoSeal
  BY DEF NoRow, NoBytes, RowOf, Plain

\* A step of a user operation on f keeps KeyInv if it does so for f.
LEMMA WriterFrame ==
    ASSUME KeyInv, NEW f \in Files, UNCHANGED <<keys, pass, rot, walk>>,
           \A g \in Files \ {f} : writer'[g] = writer[g] /\ row'[g] = row[g],
           WriterKeyed(f)', RowKeyed(f)', FinishInv(f)'
    PROVE  KeyInv'
<1>1. KeyStateInv'
  BY DEF KeyInv, KeyStateInv, keys
<1>2. Held' = Held /\ memKey' = memKey
  BY DEF Held, keys
<1> SUFFICES ASSUME NEW g \in Files
             PROVE  /\ WriterKeyed(g)' /\ RotKeyed(g)' /\ RepairKeyed(g)'
                    /\ RowKeyed(g)' /\ FinishInv(g)'
  BY <1>1 DEF KeyInv
<1>3. RotKeyed(g)' /\ RepairKeyed(g)'
  BY <1>2 DEF KeyInv, RotKeyed, RepairKeyed, Repairing
<1>4. ASSUME g # f PROVE WriterKeyed(g)' /\ RowKeyed(g)' /\ FinishInv(g)'
  BY <1>2, <1>4 DEF KeyInv, WriterKeyed, RowKeyed, FinishInv, Repairing, keys
<1> QED
  BY <1>3, <1>4

\* A step of the rotation of f keeps KeyInv if it leaves f's row, or moves it to the
\* current key.
LEMMA RotatorFrame ==
    ASSUME KeyInv, NEW f \in Files, pass = "rotate", UNCHANGED <<keys, pass, writer, walk>>,
           \A g \in Files \ {f} : rot'[g] = rot[g] /\ row'[g] = row[g],
           rot'[f].pc \in {"staged", "cleared", "committed"} => rot'[f].next.ver = memKey,
           row'[f] = row[f] \/ row'[f].ver = memKey
    PROVE  KeyInv'
<1>1. KeyStateInv'
  BY DEF KeyInv, KeyStateInv, keys
<1>2. Held' = Held /\ memKey' = memKey /\ memKey \in Held
  BY DEF Held, keys
<1> SUFFICES ASSUME NEW g \in Files
             PROVE  /\ WriterKeyed(g)' /\ RotKeyed(g)' /\ RepairKeyed(g)'
                    /\ RowKeyed(g)' /\ FinishInv(g)'
  BY <1>1 DEF KeyInv
<1>3. WriterKeyed(g)' /\ RepairKeyed(g)' /\ FinishInv(g)'
  <2>1. CASE g # f
    BY <1>2, <2>1 DEF KeyInv, WriterKeyed, RepairKeyed, FinishInv, Repairing, keys
  <2>2. CASE g = f
    <3>1. WriterKeyed(f)' /\ RepairKeyed(f)'
      BY <1>2 DEF KeyInv, WriterKeyed, RepairKeyed, Repairing
    <3>2. FinishInv(f)'
      BY <1>2 DEF KeyInv, FinishInv, Repairing, keys
    <3> QED
      BY <2>2, <3>1, <3>2
  <2> QED
    BY <2>1, <2>2
<1>4. RotKeyed(g)' /\ RowKeyed(g)'
  <2>1. CASE g # f
    BY <1>2, <2>1 DEF KeyInv, RotKeyed, RowKeyed
  <2>2. CASE g = f
    BY <1>2, <2>2 DEF KeyInv, RotKeyed, RowKeyed
  <2> QED
    BY <2>1, <2>2
<1> QED
  BY <1>3, <1>4

\* A step that touches nothing KeyInv is about.
LEMMA KeyUnchanged ==
    ASSUME KeyInv, UNCHANGED <<keys, row, writer, rot, walk, pass>>
    PROVE  KeyInv'
<1>1. Held' = Held /\ memKey' = memKey
  BY DEF Held, keys
<1>2. KeyStateInv'
  BY DEF KeyInv, KeyStateInv, keys
<1> QED
  BY <1>1, <1>2 DEF KeyInv, WriterKeyed, RotKeyed, RepairKeyed, RowKeyed, FinishInv,
                    Repairing, keys

\* A step of the pass outside the rotation of files leaves rows and keys alone; it enters
\* the rotation only if the previous key is loaded.
LEMMA PassMoves ==
    ASSUME KeyInv, UNCHANGED <<keys, row, writer, rot>>,
           pass \notin {"rotate", "finish", "finishing"},
           pass' \notin {"rotate", "finish", "finishing"},
           pass' = "rotation walk" => memOld # 0,
           pass' # "repair" \/ walk'.at = {}
    PROVE  KeyInv'
<1>1. KeyStateInv'
  BY DEF KeyInv, KeyStateInv, keys
<1>2. Held' = Held /\ memKey' = memKey
  BY DEF Held, keys
<1> SUFFICES ASSUME NEW g \in Files
             PROVE  /\ WriterKeyed(g)' /\ RotKeyed(g)' /\ RepairKeyed(g)'
                    /\ RowKeyed(g)' /\ FinishInv(g)'
  BY <1>1 DEF KeyInv
<1>3. WriterKeyed(g)' /\ RowKeyed(g)' /\ FinishInv(g)'
  BY <1>2 DEF KeyInv, WriterKeyed, RowKeyed, FinishInv, Repairing, keys
<1>4. RotKeyed(g)'
  BY <1>2 DEF KeyInv, RotKeyed
<1>5. RepairKeyed(g)'
  BY DEF RepairKeyed, Repairing
<1> QED
  BY <1>3, <1>4, <1>5

\* What the type invariant says of the variables KeyInv is about.
LEMMA TypeFacts ==
    TypeOK => /\ memKey \in Nat /\ memKey > 0 /\ dbKey \in Nat /\ dbKey > 0
              /\ DOMAIN row = Files /\ DOMAIN writer = Files /\ DOMAIN rot = Files
              /\ \A f \in Files : row[f] \in Rows /\ row[f].ver \in Nat /\ writer[f].key \in Nat
  BY ContentAssumption, SMTT(60) DEF TypeOK, Rows, WriterRecs

\* A user operation that takes or keeps its key and puts nothing in a row yet.
LEMMA WriterSeals ==
    ASSUME KeyInv, NEW f \in Files, UNCHANGED <<row, keys, pass, rot, walk>>,
           \A g \in Files \ {f} : writer'[g] = writer[g],
           writer'[f].key = memKey
             \/ (writer[f].pc \in InFlight /\ writer'[f].key = writer[f].key),
           writer'[f].next.seal # NoSeal => writer'[f].next.ver = writer'[f].key
    PROVE  KeyInv'
<1>2. Held' = Held /\ memKey' = memKey /\ memKey \in Held
  BY DEF Held, keys
<1>3. WriterKeyed(f)'
  BY <1>2 DEF KeyInv, WriterKeyed
<1>4. RowKeyed(f)' /\ FinishInv(f)'
  BY <1>2 DEF KeyInv, RowKeyed, FinishInv, Repairing, keys
<1> QED
  BY <1>3, <1>4, WriterFrame

\* A user operation that ends, or puts what it sealed in the row, or takes the row away.
LEMMA WriterSettles ==
    ASSUME KeyInv, NEW f \in Files, UNCHANGED <<keys, pass, rot, walk>>,
           \A g \in Files \ {f} : writer'[g] = writer[g] /\ row'[g] = row[g],
           writer'[f].pc \notin InFlight,
           \/ row'[f] = row[f]
           \/ row'[f] = NoRow
           \/ writer[f].pc \in InFlight /\ row'[f] = RowOf(writer[f].next)
    PROVE  KeyInv'
<1>2. Held' = Held /\ memKey' = memKey
  BY DEF Held, keys
<1>3. WriterKeyed(f)'
  BY DEF WriterKeyed
<1>4. CASE row'[f] = row[f]
  <2>1. RowKeyed(f)' /\ FinishInv(f)'
    BY <1>2, <1>4 DEF KeyInv, RowKeyed, FinishInv, Repairing, keys
  <2> QED
    BY <1>3, <2>1, WriterFrame
<1>5. CASE row'[f] = NoRow
  <2>0. RowKeyed(f)'
    BY <1>5, NoRowIsPlain DEF RowKeyed, Encrypted
  <2>1. FinishInv(f)'
    BY <1>2, <1>5, NoRowIsPlain DEF KeyInv, FinishInv, Encrypted, Repairing, keys
  <2> QED
    BY <1>3, <2>0, <2>1, WriterFrame
<1>6. CASE writer[f].pc \in InFlight /\ row'[f] = RowOf(writer[f].next)
  <2>1. row'[f].seal = writer[f].next.seal /\ row'[f].ver = writer[f].next.ver
    BY <1>6, SMTT(60) DEF RowOf
  <2>2. RowKeyed(f)'
    BY <1>2, <1>6, <2>1 DEF KeyInv, WriterKeyed, RowKeyed, Encrypted
  <2>3. FinishInv(f)'
    BY <1>2, <1>6, <2>1 DEF KeyInv, WriterKeyed, FinishInv, Encrypted, Repairing, keys
  <2> QED
    BY <1>3, <2>2, <2>3, WriterFrame
<1> QED
  BY <1>4, <1>5, <1>6

\* A rotation of f that moves on, or puts what it sealed in the row.
LEMMA RotatorMoves ==
    ASSUME KeyInv, NEW f \in Files, rot[f].pc # "idle",
           UNCHANGED <<keys, pass, writer, walk>>,
           \A g \in Files \ {f} : rot'[g] = rot[g] /\ row'[g] = row[g],
           rot'[f].pc \in {"staged", "cleared", "committed"} => rot'[f].next.ver = memKey,
           row'[f] = row[f] \/ (rot[f].pc = "cleared" /\ row'[f] = RowOf(rot[f].next))
    PROVE  KeyInv'
<1>2. pass = "rotate"
  BY DEF KeyInv, RotKeyed
<1>3. row'[f] = row[f] \/ row'[f].ver = memKey
  BY SMTT(60) DEF KeyInv, RotKeyed, RowOf
<1> QED
  BY <1>2, <1>3, RotatorFrame

\* A change of key that keeps every version some row, write or repair needs.
LEMMA KeyMoves ==
    ASSUME KeyInv, UNCHANGED <<row, writer, rot, walk>>, KeyStateInv',
           pass' = pass \/ pass' \notin {"repair", "finish"},
           pass' = "rotate" <=> pass = "rotate",
           pass = "rotate" => memKey' = memKey,
           pass' = "finish" \/ (memOld' # 0 /\ dbPending' = {}) =>
               memKey' = memKey /\ (pass = "finish" \/ (memOld # 0 /\ dbPending = {})),
           \A v : v \in Held /\ (pass = "finishing" => v = memKey) => v \in Held'
    PROVE  KeyInv'
<1> SUFFICES ASSUME NEW g \in Files
             PROVE  /\ WriterKeyed(g)' /\ RotKeyed(g)' /\ RepairKeyed(g)'
                    /\ RowKeyed(g)' /\ FinishInv(g)'
  BY DEF KeyInv
<1>0. pass = "finishing" => memOld # 0 /\ dbPending = {}
  BY DEF KeyInv, KeyStateInv
<1>1. WriterKeyed(g)' /\ RowKeyed(g)'
  <2>1. CASE pass = "finishing"
    BY <1>0, <2>1 DEF KeyInv, WriterKeyed, RowKeyed, FinishInv
  <2>2. CASE pass # "finishing"
    BY <2>2 DEF KeyInv, WriterKeyed, RowKeyed
  <2> QED
    BY <2>1, <2>2
<1>2. RotKeyed(g)'
  BY DEF KeyInv, RotKeyed
<1>3. RepairKeyed(g)'
  BY DEF KeyInv, RepairKeyed, Repairing
<1>4. FinishInv(g)'
  <2> SUFFICES ASSUME pass' = "finish" \/ (memOld' # 0 /\ dbPending' = {})
               PROVE  FinishInv(g)'
    BY DEF FinishInv
  <2>1. memKey' = memKey /\ (pass = "finish" \/ (memOld # 0 /\ dbPending = {}))
    OBVIOUS
  <2>2. Repairing(g)' => Repairing(g)
    BY DEF Repairing
  <2> QED
    BY <2>1, <2>2 DEF KeyInv, FinishInv
<1> QED
  BY <1>1, <1>2, <1>3, <1>4

\* Arithmetic of a key version and its successor.
LEMMA PlusOne == \A n \in Nat : n > 0 => n + 1 # n /\ n # 0
  BY SMTT(60)

\* The steps of the user operations on a file.
LEMMA KeyUserStep ==
    ASSUME TypeOK, KeyInv, NEW h \in Files, UserStep(h) \/ WriterStep(h)
    PROVE  KeyInv'
<1>1. ASSUME NEW f \in Files, NEW v \in Vals \cup {"empty"}, CreateBegin(f, v) PROVE KeyInv'
  <2>1. /\ \A g \in Files \ {f} : writer'[g] = writer[g]
        /\ writer'[f].key = memKey \/ (writer[f].pc \in InFlight /\ writer'[f].key = writer[f].key)
    BY <1>1, TypeFacts DEF CreateBegin, WriterAt
  <2>2. writer'[f].next.seal # NoSeal => writer'[f].next.ver = writer'[f].key
    BY <1>1, TypeFacts DEF CreateBegin, WriterAt, Plain
  <2>3. UNCHANGED <<row, keys, pass, rot, walk>>
    BY <1>1 DEF CreateBegin, disk, passVars
  <2> QED
    BY <2>1, <2>2, <2>3, WriterSeals
<1>2. ASSUME NEW f \in Files, NEW v \in Vals \cup {"empty"}, WriteBegin(f, v) PROVE KeyInv'
  <2>1. /\ \A g \in Files \ {f} : writer'[g] = writer[g]
        /\ writer'[f].key = memKey \/ (writer[f].pc \in InFlight /\ writer'[f].key = writer[f].key)
    BY <1>2, TypeFacts DEF WriteBegin, WriterAt
  <2>2. writer'[f].next.seal # NoSeal => writer'[f].next.ver = writer'[f].key
    BY <1>2, TypeFacts DEF WriteBegin, WriterAt, Plain
  <2>3. UNCHANGED <<row, keys, pass, rot, walk>>
    BY <1>2 DEF WriteBegin, disk, passVars
  <2> QED
    BY <2>1, <2>2, <2>3, WriterSeals
<1>3. ASSUME NEW f \in Files, CreatePlace(f) PROVE KeyInv'
  <2>1. PICK s \in Seals : writer' = [writer EXCEPT ![f] =
                   WriterAt("created", writer[f].key, Encoded(writer[f].next.val, s, writer[f].key))]
    BY <1>3 DEF CreatePlace, FreshSeals
  <2>2. /\ writer'[f].key = writer[f].key
        /\ writer'[f].next.seal # NoSeal => writer'[f].next.ver = writer'[f].key
        /\ \A g \in Files \ {f} : writer'[g] = writer[g]
    BY <2>1, TypeFacts DEF WriterAt, Encoded, Plain, Sealed
  <2>3. writer[f].pc \in InFlight /\ UNCHANGED <<row, keys, pass, rot, walk>>
    BY <1>3 DEF CreatePlace, passVars, InFlight
  <2> QED
    BY <2>2, <2>3, WriterSeals
<1>4. ASSUME NEW f \in Files, WriteStage(f) PROVE KeyInv'
  <2>1. PICK s \in Seals : writer' = [writer EXCEPT ![f] =
                   WriterAt("staged", writer[f].key, Encoded(writer[f].next.val, s, writer[f].key))]
    BY <1>4 DEF WriteStage, FreshSeals
  <2>2. /\ writer'[f].key = writer[f].key
        /\ writer'[f].next.seal # NoSeal => writer'[f].next.ver = writer'[f].key
        /\ \A g \in Files \ {f} : writer'[g] = writer[g]
    BY <2>1, TypeFacts DEF WriterAt, Encoded, Plain, Sealed
  <2>3. writer[f].pc \in InFlight /\ UNCHANGED <<row, keys, pass, rot, walk>>
    BY <1>4 DEF WriteStage, passVars, InFlight
  <2> QED
    BY <2>2, <2>3, WriterSeals
<1>5. ASSUME NEW f \in Files, CreateRow(f) PROVE KeyInv'
  <2>1. /\ \A g \in Files \ {f} : writer'[g] = writer[g] /\ row'[g] = row[g]
        /\ writer[f].pc \in InFlight /\ row'[f] = RowOf(writer[f].next)
        /\ writer'[f].pc \notin InFlight
    BY <1>5, TypeFacts DEF CreateRow, WriterAt, Idle, InFlight
  <2>2. UNCHANGED <<keys, pass, rot, walk>>
    BY <1>5 DEF CreateRow, passVars
  <2> QED
    BY <2>1, <2>2, WriterSettles
<1>6. ASSUME NEW f \in Files, CreateFail(f) PROVE KeyInv'
  <2>1. /\ \A g \in Files \ {f} : writer'[g] = writer[g] /\ row'[g] = row[g]
        /\ row'[f] = row[f]
        /\ writer'[f].pc \notin InFlight
    BY <1>6, TypeFacts DEF CreateFail, WriterAt, Idle, disk, InFlight
  <2>2. UNCHANGED <<keys, pass, rot, walk>>
    BY <1>6 DEF CreateFail, passVars
  <2> QED
    BY <2>1, <2>2, WriterSettles
<1>7. ASSUME NEW f \in Files, WriteFail(f) PROVE KeyInv'
  <2>1. /\ \A g \in Files \ {f} : writer'[g] = writer[g] /\ row'[g] = row[g]
        /\ row'[f] = row[f]
        /\ writer'[f].pc \notin InFlight
    BY <1>7, TypeFacts DEF WriteFail, WriterAt, Idle, InFlight
  <2>2. UNCHANGED <<keys, pass, rot, walk>>
    BY <1>7 DEF WriteFail, passVars
  <2> QED
    BY <2>1, <2>2, WriterSettles
<1>8. ASSUME NEW f \in Files, WriteCommit(f) PROVE KeyInv'
  <2>1. /\ \A g \in Files \ {f} : writer'[g] = writer[g] /\ row'[g] = row[g]
        /\ writer[f].pc \in InFlight /\ row'[f] = RowOf(writer[f].next)
        /\ writer'[f].pc \notin InFlight
    BY <1>8, TypeFacts DEF WriteCommit, WriterAt, InFlight
  <2>2. UNCHANGED <<keys, pass, rot, walk>>
    BY <1>8 DEF WriteCommit, passVars
  <2> QED
    BY <2>1, <2>2, WriterSettles
<1>9. ASSUME NEW f \in Files, WriteCommitInDoubt(f) PROVE KeyInv'
  <2>1. /\ \A g \in Files \ {f} : writer'[g] = writer[g] /\ row'[g] = row[g]
        /\ writer[f].pc \in InFlight /\ row'[f] = RowOf(writer[f].next)
        /\ writer'[f].pc \notin InFlight
    BY <1>9, TypeFacts DEF WriteCommitInDoubt, WriterAt, Idle, InFlight
  <2>2. UNCHANGED <<keys, pass, rot, walk>>
    BY <1>9 DEF WriteCommitInDoubt, passVars
  <2> QED
    BY <2>1, <2>2, WriterSettles
<1>10. ASSUME NEW f \in Files, WriteRename(f) PROVE KeyInv'
  <2>1. /\ \A g \in Files \ {f} : writer'[g] = writer[g] /\ row'[g] = row[g]
        /\ row'[f] = row[f]
        /\ writer'[f].pc \notin InFlight
    BY <1>10, TypeFacts DEF WriteRename, WriterAt, Idle, InFlight
  <2>2. UNCHANGED <<keys, pass, rot, walk>>
    BY <1>10 DEF WriteRename, passVars
  <2> QED
    BY <2>1, <2>2, WriterSettles
<1>11. ASSUME NEW f \in Files, WriteRenameFail(f) PROVE KeyInv'
  <2>1. /\ \A g \in Files \ {f} : writer'[g] = writer[g] /\ row'[g] = row[g]
        /\ row'[f] = row[f]
        /\ writer'[f].pc \notin InFlight
    BY <1>11, TypeFacts DEF WriteRenameFail, WriterAt, Idle, disk, InFlight
  <2>2. UNCHANGED <<keys, pass, rot, walk>>
    BY <1>11 DEF WriteRenameFail, passVars
  <2> QED
    BY <2>1, <2>2, WriterSettles
<1>12. ASSUME NEW f \in Files, TrashRow(f) PROVE KeyInv'
  <2>1. /\ \A g \in Files \ {f} : writer'[g] = writer[g] /\ row'[g] = row[g]
        /\ row'[f] = NoRow
        /\ writer'[f].pc \notin InFlight
    BY <1>12, TypeFacts DEF TrashRow, WriterAt, InFlight
  <2>2. UNCHANGED <<keys, pass, rot, walk>>
    BY <1>12 DEF TrashRow, passVars
  <2> QED
    BY <2>1, <2>2, WriterSettles
<1>13. ASSUME NEW f \in Files, TrashBacking(f) PROVE KeyInv'
  <2>1. /\ \A g \in Files \ {f} : writer'[g] = writer[g] /\ row'[g] = row[g]
        /\ row'[f] = row[f]
        /\ writer'[f].pc \notin InFlight
    BY <1>13, TypeFacts DEF TrashBacking, WriterAt, Idle, InFlight
  <2>2. UNCHANGED <<keys, pass, rot, walk>>
    BY <1>13 DEF TrashBacking, passVars
  <2> QED
    BY <2>1, <2>2, WriterSettles
<1>14. ASSUME NEW f \in Files, OpenCopy(f) PROVE KeyInv'
  <2>1. UNCHANGED <<keys, row, writer, rot, walk, pass>>
    BY <1>14 DEF OpenCopy, disk, passVars
  <2> QED
    BY <2>1, KeyUnchanged
<1>15. ASSUME NEW f \in Files, ReleaseCopy(f) PROVE KeyInv'
  <2>1. UNCHANGED <<keys, row, writer, rot, walk, pass>>
    BY <1>15 DEF ReleaseCopy, disk, passVars
  <2> QED
    BY <2>1, KeyUnchanged
<1> QED
  BY <1>1, <1>2, <1>3, <1>4, <1>5, <1>6, <1>7, <1>8, <1>9, <1>10, <1>11, <1>12, <1>13,
     <1>14, <1>15 DEF UserStep, WriterStep

\* The steps of the rotation of a file.
LEMMA KeyRotStep ==
    ASSUME TypeOK, KeyInv, NEW h \in Files, RotStep(h)
    PROVE  KeyInv'
<1>1. ASSUME NEW f \in Files, RotBegin(f) PROVE KeyInv'
  <2>0. /\ rot[f].pc = "listed" /\ UNCHANGED <<keys, pass, writer, walk>> /\ row' = row
        /\ rot' = [rot EXCEPT ![f] = RotAt("staging", Plain(Settled(f).val))]
    BY <1>1 DEF RotBegin
  <2>a. DOMAIN rot = Files
    BY TypeFacts
  <2>1. /\ rot[f].pc # "idle" /\ UNCHANGED <<keys, pass, writer, walk>>
        /\ \A g \in Files \ {f} : rot'[g] = rot[g] /\ row'[g] = row[g]
    BY <2>0, <2>a
  <2>2. rot'[f].pc \in {"staged", "cleared", "committed"} => rot'[f].next.ver = memKey
    BY <2>0, <2>a DEF RotAt
  <2>3. row'[f] = row[f] \/ (rot[f].pc = "cleared" /\ row'[f] = RowOf(rot[f].next))
    BY <2>0
  <2> QED
    BY <2>1, <2>2, <2>3, RotatorMoves
<1>2. ASSUME NEW f \in Files, RotSkip(f) PROVE KeyInv'
  <2>1. /\ rot[f].pc # "idle" /\ UNCHANGED <<keys, pass, writer, walk>>
        /\ \A g \in Files \ {f} : rot'[g] = rot[g] /\ row'[g] = row[g]
    BY <1>2, TypeFacts DEF RotSkip, RotDone, NoRot, disk
  <2>2. rot'[f].pc \in {"staged", "cleared", "committed"} => rot'[f].next.ver = memKey
    BY <1>2, TypeFacts DEF RotSkip, RotDone, NoRot, disk, RotAt
  <2>3. row'[f] = row[f] \/ (rot[f].pc = "cleared" /\ row'[f] = RowOf(rot[f].next))
    BY <1>2, TypeFacts DEF RotSkip, disk
  <2> QED
    BY <2>1, <2>2, <2>3, RotatorMoves
<1>3. ASSUME NEW f \in Files, RotRefuse(f) PROVE KeyInv'
  <2>0. /\ rot[f].pc = "listed" /\ UNCHANGED <<keys, pass, writer, walk>> /\ row' = row
        /\ rot' = [rot EXCEPT ![f] = NoRot]
    BY <1>3 DEF RotRefuse, RotDone
  <2>a. DOMAIN rot = Files
    BY TypeFacts
  <2>1. /\ rot[f].pc # "idle" /\ UNCHANGED <<keys, pass, writer, walk>>
        /\ \A g \in Files \ {f} : rot'[g] = rot[g] /\ row'[g] = row[g]
    BY <2>0, <2>a
  <2>2. rot'[f].pc \in {"staged", "cleared", "committed"} => rot'[f].next.ver = memKey
    BY <2>0, <2>a DEF NoRot, RotAt
  <2>3. row'[f] = row[f] \/ (rot[f].pc = "cleared" /\ row'[f] = RowOf(rot[f].next))
    BY <2>0
  <2> QED
    BY <2>1, <2>2, <2>3, RotatorMoves
<1>4. ASSUME NEW f \in Files, RotFail(f) PROVE KeyInv'
  <2>1. /\ rot[f].pc # "idle" /\ UNCHANGED <<keys, pass, writer, walk>>
        /\ \A g \in Files \ {f} : rot'[g] = rot[g] /\ row'[g] = row[g]
    BY <1>4, TypeFacts DEF RotFail, RotDone, NoRot
  <2>2. rot'[f].pc \in {"staged", "cleared", "committed"} => rot'[f].next.ver = memKey
    BY <1>4, TypeFacts DEF RotFail, RotDone, NoRot, RotAt
  <2>3. row'[f] = row[f] \/ (rot[f].pc = "cleared" /\ row'[f] = RowOf(rot[f].next))
    BY <1>4 DEF RotFail
  <2> QED
    BY <2>1, <2>2, <2>3, RotatorMoves
<1>5. ASSUME NEW f \in Files, RotCommitInDoubt(f) PROVE KeyInv'
  <2>1. /\ rot[f].pc # "idle" /\ UNCHANGED <<keys, pass, writer, walk>>
        /\ \A g \in Files \ {f} : rot'[g] = rot[g] /\ row'[g] = row[g]
    BY <1>5, TypeFacts DEF RotCommitInDoubt, RotDone, NoRot
  <2>2. rot'[f].pc \in {"staged", "cleared", "committed"} => rot'[f].next.ver = memKey
    BY <1>5, TypeFacts DEF RotCommitInDoubt, RotDone, NoRot, RotAt
  <2>3. row'[f] = row[f] \/ (rot[f].pc = "cleared" /\ row'[f] = RowOf(rot[f].next))
    <3>1. CASE row' = row
      BY <3>1
    <3>2. CASE row' = [row EXCEPT ![f] = RowOf(rot[f].next)] /\ rot[f].pc = "cleared"
      BY <3>2, TypeFacts
    <3> QED
      BY <1>5, <3>1, <3>2 DEF RotCommitInDoubt
  <2> QED
    BY <2>1, <2>2, <2>3, RotatorMoves
<1>6. ASSUME NEW f \in Files, RotRename(f) PROVE KeyInv'
  <2>1. /\ rot[f].pc # "idle" /\ UNCHANGED <<keys, pass, writer, walk>>
        /\ \A g \in Files \ {f} : rot'[g] = rot[g] /\ row'[g] = row[g]
    BY <1>6, TypeFacts DEF RotRename, RotDone, NoRot
  <2>2. rot'[f].pc \in {"staged", "cleared", "committed"} => rot'[f].next.ver = memKey
    BY <1>6, TypeFacts DEF RotRename, RotDone, NoRot, RotAt
  <2>3. row'[f] = row[f] \/ (rot[f].pc = "cleared" /\ row'[f] = RowOf(rot[f].next))
    BY <1>6, TypeFacts DEF RotRename
  <2> QED
    BY <2>1, <2>2, <2>3, RotatorMoves
<1>7. ASSUME NEW f \in Files, RotRenameFail(f) PROVE KeyInv'
  <2>1. /\ rot[f].pc # "idle" /\ UNCHANGED <<keys, pass, writer, walk>>
        /\ \A g \in Files \ {f} : rot'[g] = rot[g] /\ row'[g] = row[g]
    BY <1>7, TypeFacts DEF RotRenameFail, RotDone, NoRot, disk
  <2>2. rot'[f].pc \in {"staged", "cleared", "committed"} => rot'[f].next.ver = memKey
    BY <1>7, TypeFacts DEF RotRenameFail, RotDone, NoRot, disk, RotAt
  <2>3. row'[f] = row[f] \/ (rot[f].pc = "cleared" /\ row'[f] = RowOf(rot[f].next))
    BY <1>7, TypeFacts DEF RotRenameFail, disk
  <2> QED
    BY <2>1, <2>2, <2>3, RotatorMoves
<1>8. ASSUME NEW f \in Files, RotStage(f) PROVE KeyInv'
  <2>0. PICK s \in Seals : rot' = [rot EXCEPT ![f] =
                              RotAt("staged", Sealed(rot[f].next.val, s, memKey))]
    BY <1>8 DEF RotStage, FreshSeals
  <2>1. /\ rot[f].pc # "idle" /\ UNCHANGED <<keys, pass, writer, walk>>
        /\ \A g \in Files \ {f} : rot'[g] = rot[g] /\ row'[g] = row[g]
    BY <1>8, <2>0, TypeFacts DEF RotStage
  <2>2. /\ rot'[f].pc \in {"staged", "cleared", "committed"} => rot'[f].next.ver = memKey
        /\ row'[f] = row[f] \/ (rot[f].pc = "cleared" /\ row'[f] = RowOf(rot[f].next))
    BY <1>8, <2>0, TypeFacts DEF RotStage, RotAt, Sealed
  <2> QED
    BY <2>1, <2>2, RotatorMoves
<1>9. ASSUME NEW f \in Files, RotBusy(f) PROVE KeyInv'
  <2>0. rot[f].next.ver = memKey
    BY <1>9 DEF KeyInv, RotKeyed, RotBusy
  <2>1. /\ rot[f].pc # "idle" /\ UNCHANGED <<keys, pass, writer, walk>>
        /\ \A g \in Files \ {f} : rot'[g] = rot[g] /\ row'[g] = row[g]
    BY <1>9, TypeFacts DEF RotBusy, RotDone
  <2>2. rot'[f].pc \in {"staged", "cleared", "committed"} => rot'[f].next.ver = memKey
    BY <1>9, <2>0, TypeFacts, SMTT(60) DEF RotBusy, RotDone, RotAt, NoRot
  <2>3. row'[f] = row[f] \/ (rot[f].pc = "cleared" /\ row'[f] = RowOf(rot[f].next))
    BY <1>9, TypeFacts DEF RotBusy
  <2> QED
    BY <2>1, <2>2, <2>3, RotatorMoves
<1>10. ASSUME NEW f \in Files, RotCommit(f) PROVE KeyInv'
  <2>0. rot[f].next.ver = memKey
    BY <1>10 DEF KeyInv, RotKeyed, RotCommit
  <2>1. /\ rot[f].pc # "idle" /\ UNCHANGED <<keys, pass, writer, walk>>
        /\ \A g \in Files \ {f} : rot'[g] = rot[g] /\ row'[g] = row[g]
    BY <1>10, TypeFacts DEF RotCommit, RotDone
  <2>2. rot'[f].pc \in {"staged", "cleared", "committed"} => rot'[f].next.ver = memKey
    BY <1>10, <2>0, TypeFacts, SMTT(60) DEF RotCommit, RotDone, RotAt, NoRot
  <2>3. row'[f] = row[f] \/ (rot[f].pc = "cleared" /\ row'[f] = RowOf(rot[f].next))
    BY <1>10, TypeFacts DEF RotCommit
  <2> QED
    BY <2>1, <2>2, <2>3, RotatorMoves
<1> QED
  BY <1>1, <1>2, <1>3, <1>4, <1>5, <1>6, <1>7, <1>8, <1>9, <1>10 DEF RotStep

\* The other steps of the pass, the steps of prepare_key_rotation, and a restart.
LEMMA KeyPassStep ==
    ASSUME TypeOK, KeyInv, Admit \cap KeyEvents = {},
           \/ PassBegin \/ WalkStep \/ WalkPartial \/ RotationList \/ RotationDone
           \/ FinishDb \/ FinishDbFail \/ FinishMem \/ PrepareCheck \/ PrepareStep \/ Crash
    PROVE  KeyInv'
<1>0. pass = "rotation walk" => memOld # 0
  BY DEF KeyInv, KeyStateInv
<1>1. ASSUME NEW f \in Files, WalkJudge(f) PROVE KeyInv'
  <2>1. /\ UNCHANGED <<keys, row, writer, rot, pass>>
        /\ pass \in {"startup walk", "rotation walk"} \/ (pass = "repair" /\ walk'.at = {})
    BY <1>1 DEF WalkJudge, disk, WalkAt
  <2> QED
    BY <1>0, <2>1, PassMoves
<1>2. ASSUME NEW f \in Files, WalkAct(f) PROVE KeyInv'
  <2>1. /\ UNCHANGED <<keys, row, writer, rot, pass>>
        /\ pass \in {"startup walk", "rotation walk"} \/ (pass = "repair" /\ walk'.at = {})
    BY <1>2 DEF WalkAct, WalkAt
  <2> QED
    BY <1>0, <2>1, PassMoves
<1>3. ASSUME NEW f \in Files, RepairSkip(f) PROVE KeyInv'
  <2>1. /\ UNCHANGED <<keys, row, writer, rot, pass>>
        /\ pass \in {"startup walk", "rotation walk"} \/ (pass = "repair" /\ walk'.at = {})
    BY <1>3 DEF RepairSkip, WalkOver, disk, WalkAt
  <2> QED
    BY <1>0, <2>1, PassMoves
<1>4. ASSUME WalkLoad PROVE KeyInv'
  <2>1. /\ UNCHANGED <<keys, row, writer, rot>> /\ pass \in {"startup walk", "rotation walk", "repair"}
        /\ pass' = pass \/ pass' \in {"repair", "sweep"}
        /\ pass' = "repair" => walk'.at = {}
    BY <1>4 DEF WalkLoad, disk, WalkAt
  <2> QED
    BY <1>0, <2>1, PassMoves
<1>5. ASSUME WalkPartial PROVE KeyInv'
  <2>1. /\ UNCHANGED <<keys, row, writer, rot>> /\ pass \in {"startup walk", "rotation walk", "repair"}
        /\ pass' = pass \/ pass' \in {"repair", "sweep"}
        /\ pass' = "repair" => walk'.at = {}
    BY <1>5 DEF WalkPartial, disk, WalkAt
  <2> QED
    BY <1>0, <2>1, PassMoves
<1>6. ASSUME StartupWalkDone PROVE KeyInv'
  <2>1. /\ UNCHANGED <<keys, row, writer, rot>> /\ pass \in {"startup walk", "rotation walk", "repair"}
        /\ pass' = pass \/ pass' \in {"repair", "sweep"}
        /\ pass' = "repair" => walk'.at = {}
    BY <1>6 DEF StartupWalkDone, WalkOver, disk, WalkAt
  <2> QED
    BY <1>0, <2>1, PassMoves
<1>7. ASSUME RepairDone PROVE KeyInv'
  <2>1. /\ UNCHANGED <<keys, row, writer, rot>> /\ pass \in {"startup walk", "rotation walk", "repair"}
        /\ pass' = pass \/ pass' \in {"repair", "sweep"}
        /\ pass' = "repair" => walk'.at = {}
    BY <1>7 DEF RepairDone, disk, WalkAt
  <2> QED
    BY <1>0, <2>1, PassMoves
<1>8. ASSUME PassBegin PROVE KeyInv'
  <2>1. /\ UNCHANGED <<keys, row, writer, rot>> /\ pass = "idle"
        /\ pass' \in {"startup walk", "sweep"}
    BY <1>8 DEF PassBegin, StartWalk, disk
  <2> QED
    BY <2>1, PassMoves
<1>9. ASSUME Sweep PROVE KeyInv'
  <2>1. /\ UNCHANGED <<keys, row, writer, rot>> /\ pass = "sweep"
        /\ pass' = "idle" \/ (memOld # 0 /\ pass' = "rotation walk")
    BY <1>9 DEF Sweep, StartWalk, memRotating
  <2> QED
    BY <2>1, PassMoves
<1>10. ASSUME NEW f \in Files, RepairBytes(f) PROVE KeyInv'
  <2>1. UNCHANGED <<row, keys, writer, rot, pass>> /\ pass = "repair"
    BY <1>10 DEF RepairBytes
  <2> DEFINE b(s) == Sealed(IF backing[f].seal = NoSeal THEN backing[f].val ELSE "garbage", s, memKey)
  <2>2. PICK s \in Seals : walk' = WalkAt(walk.todo \ {f}, FALSE, [NoRows EXCEPT ![f] = RowOf(b(s))],
                                          {f}, "none")
    BY <1>10 DEF RepairBytes, FreshSeals
  <2>3. walk'.rows[f].ver = memKey /\ walk'.at = {f}
    BY <2>2 DEF NoRows, WalkAt, RowOf, Sealed
  <2>4. Held' = Held /\ memKey' = memKey /\ memKey \in Held
    BY <2>1 DEF Held, keys
  <2>5. KeyStateInv'
    BY <2>1 DEF KeyInv, KeyStateInv, keys
  <2>6. ASSUME NEW g \in Files PROVE WriterKeyed(g)' /\ RotKeyed(g)' /\ RowKeyed(g)' /\ FinishInv(g)'
    <3>1. WriterKeyed(g)' /\ RotKeyed(g)' /\ RowKeyed(g)'
      BY <2>1, <2>4 DEF KeyInv, WriterKeyed, RotKeyed, RowKeyed
    <3>2. Repairing(g)' => g = f
      BY <2>3 DEF Repairing
    <3>3. FinishInv(g)'
      BY <2>1, <2>3, <2>4, <3>2 DEF KeyInv, FinishInv, keys
    <3> QED
      BY <3>1, <3>3
  <2>7. ASSUME NEW g \in Files PROVE RepairKeyed(g)'
    BY <2>3, <2>4 DEF RepairKeyed, Repairing
  <2> QED
    BY <2>5, <2>6, <2>7 DEF KeyInv
<1>11. ASSUME NEW f \in Files, RepairRow(f) PROVE KeyInv'
  <2>1. UNCHANGED <<keys, writer, rot, pass>> /\ pass = "repair" /\ walk.at = {f}
    BY <1>11 DEF RepairRow
  <2>2. walk'.at = {} /\ \A g \in Files : row'[g] = row[g] \/ (g = f /\ row'[g] = walk.rows[f])
    <3>1. walk'.at = {}
      BY <1>11 DEF RepairRow, WalkOver, WalkAt
    <3>2. row' = row \/ row' = [row EXCEPT ![f] = walk.rows[f]]
      BY <1>11 DEF RepairRow
    <3>3. CASE row' = row
      BY <3>1, <3>3
    <3>4. CASE row' = [row EXCEPT ![f] = walk.rows[f]]
      <4>1. row'[f] = walk.rows[f] /\ \A g \in Files \ {f} : row'[g] = row[g]
        BY <3>4, TypeFacts
      <4> QED
        BY <3>1, <4>1
    <3> QED
      BY <3>2, <3>3, <3>4
  <2>4. Held' = Held /\ memKey' = memKey
    BY <2>1 DEF Held, keys
  <2>5. KeyStateInv'
    BY <2>1 DEF KeyInv, KeyStateInv, keys
  <2>6. ASSUME NEW g \in Files PROVE WriterKeyed(g)' /\ RotKeyed(g)' /\ FinishInv(g)'
    <3>1. WriterKeyed(g)' /\ RotKeyed(g)'
      BY <2>1, <2>4 DEF KeyInv, WriterKeyed, RotKeyed
    <3>2. Repairing(f) /\ ~Repairing(g)'
      BY <2>1, <2>2 DEF Repairing
    <3>3. FinishInv(g)'
      BY <2>1, <2>2, <2>4, <3>2 DEF KeyInv, FinishInv, keys
    <3> QED
      BY <3>1, <3>3
  <2>7. ASSUME NEW g \in Files PROVE RepairKeyed(g)'
    BY <2>2 DEF RepairKeyed, Repairing
  <2>8. ASSUME NEW g \in Files PROVE RowKeyed(g)'
    BY <2>1, <2>2, <2>4 DEF KeyInv, RowKeyed, RepairKeyed, Repairing
  <2> QED
    BY <2>5, <2>6, <2>7, <2>8 DEF KeyInv
<1>12. ASSUME RotationList PROVE KeyInv'
  <2>1. UNCHANGED <<keys, writer, row>> /\ pass = "rotation walk" /\ pass' = "rotate"
    BY <1>12 DEF RotationList, disk
  <2>2. \A g \in Files : rot'[g].pc \in {"listed", "idle"}
    BY <1>12 DEF RotationList, RotAt
  <2>4. Held' = Held /\ memKey' = memKey
    BY <2>1 DEF Held, keys
  <2>5. KeyStateInv'
    BY <2>1 DEF KeyInv, KeyStateInv, keys
  <2>6. ASSUME NEW g \in Files PROVE WriterKeyed(g)' /\ RowKeyed(g)' /\ FinishInv(g)'
    BY <2>1, <2>4 DEF KeyInv, WriterKeyed, RowKeyed, FinishInv, Repairing, keys
  <2>7. ASSUME NEW g \in Files PROVE RotKeyed(g)' /\ RepairKeyed(g)'
    BY <2>1, <2>2 DEF RotKeyed, RepairKeyed, Repairing
  <2> QED
    BY <2>5, <2>6, <2>7 DEF KeyInv
<1>13. ASSUME RotationDone PROVE KeyInv'
  <2>1. UNCHANGED <<keys, writer, row, rot, walk>> /\ pass = "rotate" /\ pass' \in {"idle", "finish"}
    BY <1>13 DEF RotationDone, disk
  <2>2. \A g \in Files : rot[g].pc = "idle"
    <3>1. NoRot.pc = "idle"
      BY DEF NoRot, RotAt
    <3> QED
      BY <1>13, <3>1 DEF RotationDone
  <2>3. Held' = Held /\ memKey' = memKey
    BY <2>1 DEF Held, keys
  <2>4. KeyStateInv'
    BY <2>1 DEF KeyInv, KeyStateInv, keys
  <2>5. ASSUME NEW g \in Files
        PROVE  WriterKeyed(g)' /\ RowKeyed(g)' /\ RotKeyed(g)' /\ RepairKeyed(g)'
    BY <2>1, <2>2, <2>3 DEF KeyInv, WriterKeyed, RowKeyed, RotKeyed, RepairKeyed, Repairing
  <2>6. ASSUME NEW g \in Files, pass' = "finish" PROVE FinishInv(g)'
    <3>1. Pending = {} /\ ~SealsUnderOldKey
      BY <1>13, <2>6 DEF RotationDone, KeyEvents
    <3>2. \A k \in Held : k \in Nat => k = memKey \/ k < memKey
      <4>1. \A k \in Nat : k + 1 = memKey => k < memKey
        BY SMTT(60)
      <4> QED
        BY <4>1 DEF Held
    <3>3. Encrypted(row[g]) => row[g].ver = memKey
      BY <3>1, <3>2, TypeFacts DEF Pending, KeyInv, RowKeyed
    <3>4. writer[g].pc \in InFlight => writer[g].key = memKey
      BY <3>1, <3>2, TypeFacts DEF SealsUnderOldKey, KeyInv, WriterKeyed
    <3> QED
      BY <2>1, <2>3, <3>3, <3>4 DEF FinishInv, Repairing
  <2>7. ASSUME NEW g \in Files PROVE FinishInv(g)'
    <3>1. CASE pass' = "finish"
      BY <2>6, <3>1
    <3>2. CASE pass' # "finish"
      BY <2>1, <2>3, <3>2 DEF KeyInv, FinishInv, Repairing, keys
    <3> QED
      BY <3>1, <3>2
  <2> QED
    BY <2>4, <2>5, <2>7 DEF KeyInv
<1>14. ASSUME PrepareCheck PROVE KeyInv'
  <2>1. UNCHANGED <<row, writer, rot, walk, pass, dbKey, dbPending, memKey, memOld, minted>>
    BY <1>14 DEF PrepareCheck, disk, passVars
  <2>2. dbPending = {} /\ memOld = 0 /\ minted = {} /\ checked' = 0 + 1
    BY <1>14 DEF PrepareCheck, KeyEvents, dbRotating, memRotating
  <2>3. 0 + 1 = 1
    BY SMTT(60)
  <2>4. KeyStateInv'
    BY <2>1, <2>2, <2>3 DEF KeyInv, KeyStateInv
  <2>5. Held' = Held
    BY <2>1 DEF Held
  <2> QED
    BY <2>1, <2>4, <2>5, KeyMoves
<1>15. ASSUME RotateVaultKey, minted' = minted \/ minted' = minted \cup {dbKey + 1} PROVE KeyInv'
  <2>1. UNCHANGED <<row, writer, rot, walk, pass, memKey, memOld>>
    BY <1>15 DEF RotateVaultKey, disk, passVars
  <2>2. checked # 0 /\ 1 - 1 = 0
    BY <1>15, SMTT(60) DEF RotateVaultKey
  <2>3. checked = 1 /\ minted = {} /\ dbPending = {} /\ memOld = 0
    BY <2>2 DEF KeyInv, KeyStateInv
  <2>4. dbKey = memKey
    BY <2>3 DEF KeyInv, KeyStateInv
  <2>5. checked' = 0 /\ dbKey' = memKey + 1 /\ dbPending' = {memKey}
    BY <1>15, <2>2, <2>3, <2>4 DEF RotateVaultKey
  <2>6. memKey # 0 /\ memKey + 1 # memKey
    BY TypeFacts, PlusOne
  <2>7. minted' = {} \/ minted' = {dbKey'}
    BY <1>15, <2>3, <2>4, <2>5
  <2>8. pass \notin {"rotation walk", "rotate", "finish", "finishing"}
    BY <2>3 DEF KeyInv, KeyStateInv
  <2>9. KeyStateInv'
    BY <2>1, <2>3, <2>5, <2>6, <2>7, <2>8 DEF KeyStateInv
  <2>10. Held' = Held
    BY <2>1 DEF Held
  <2> QED
    BY <2>1, <2>5, <2>9, <2>10, KeyMoves
<1>16. ASSUME PrepareDbFail PROVE KeyInv'
  <2>1. UNCHANGED <<row, writer, rot, walk, pass, dbKey, dbPending, memKey, memOld, minted>>
    BY <1>16 DEF PrepareDbFail, disk, passVars
  <2>2. checked # 0 /\ 1 - 1 = 0
    BY <1>16, SMTT(60) DEF PrepareDbFail
  <2>3. checked' = 0
    BY <1>16, <2>2 DEF PrepareDbFail, KeyInv, KeyStateInv
  <2>4. KeyStateInv'
    BY <2>1, <2>3 DEF KeyInv, KeyStateInv
  <2>5. Held' = Held
    BY <2>1 DEF Held
  <2> QED
    BY <2>1, <2>4, <2>5, KeyMoves
<1>17. ASSUME PrepareMem PROVE KeyInv'
  <2>1. PICK v \in minted : /\ memKey' = v /\ memOld' = memKey /\ minted' = minted \ {v}
                            /\ UNCHANGED <<row, writer, rot, walk, pass, dbKey, dbPending, checked>>
    BY <1>17 DEF PrepareMem, disk, passVars
  <2>2. v = dbKey /\ dbKey = memKey + 1 /\ minted' = {}
    BY <2>1 DEF KeyInv, KeyStateInv
  <2>3. memKey # 0 /\ memKey + 1 # memKey
    BY TypeFacts, PlusOne
  <2>4. dbPending = {memKey} /\ memOld = 0
    BY <2>2, <2>3 DEF KeyInv, KeyStateInv
  <2>5. pass \notin {"rotation walk", "rotate", "finish", "finishing"} /\ checked = 0
    BY <2>4 DEF KeyInv, KeyStateInv
  <2>6. KeyStateInv'
    BY <2>1, <2>2, <2>3, <2>4, <2>5 DEF KeyStateInv
  <2>7. Held = {memKey}
    BY <2>4 DEF Held
  <2>8. memKey \in Held'
    BY <2>1, <2>2, <2>3 DEF Held
  <2> QED
    BY <2>1, <2>4, <2>5, <2>6, <2>7, <2>8, KeyMoves
<1>18. ASSUME FinishDb \/ FinishDbFail PROVE KeyInv'
  <2>1. UNCHANGED <<row, writer, rot, walk, memKey, memOld, dbKey, checked, minted>>
    BY <1>18 DEF FinishDb, FinishDbFail, disk
  <2>2. /\ pass = "finish" /\ pass' \in {"idle", "finishing"}
        /\ dbPending' = dbPending \/ dbPending' = {}
        /\ pass' = "finishing" => dbPending' = {}
    BY <1>18 DEF FinishDb, FinishDbFail
  <2>3. memOld # 0
    BY <2>2 DEF KeyInv, KeyStateInv
  <2>4. KeyStateInv'
    BY <2>1, <2>2, <2>3 DEF KeyInv, KeyStateInv
  <2>5. Held' = Held
    BY <2>1 DEF Held
  <2> QED
    BY <2>1, <2>2, <2>4, <2>5, KeyMoves
<1>19. ASSUME FinishMem PROVE KeyInv'
  <2>1. UNCHANGED <<row, writer, rot, walk, memKey, dbPending, dbKey, checked, minted>>
    BY <1>19 DEF FinishMem, disk
  <2>2. pass = "finishing" /\ pass' = "idle" /\ memOld' = 0
    BY <1>19 DEF FinishMem
  <2>3. KeyStateInv'
    BY <2>1, <2>2 DEF KeyInv, KeyStateInv
  <2>4. memKey \in Held'
    BY <2>1 DEF Held
  <2> QED
    BY <2>1, <2>2, <2>3, <2>4, KeyMoves
<1>20. ASSUME Crash PROVE KeyInv'
  <2>1. /\ UNCHANGED <<row, dbKey, dbPending>>
        /\ memKey' = dbKey /\ pass' = "idle" /\ checked' = 0 /\ minted' = {}
        /\ \A g \in Files : writer'[g].pc = "idle" /\ rot'[g].pc = "idle"
    BY <1>20 DEF Crash, disk, Idle, WriterAt, NoRot, RotAt
  <2>2. (dbPending # {} /\ memOld' \in dbPending) \/ (dbPending = {} /\ memOld' = 0)
    BY <1>20 DEF Crash, dbRotating
  <2>3. CASE dbPending = {}
    <3>1. dbKey = memKey /\ memOld' = 0
      BY <2>2, <2>3 DEF KeyInv, KeyStateInv
    <3>2. KeyStateInv'
      BY <2>1, <2>3, <3>1 DEF KeyStateInv
    <3>3. ASSUME NEW g \in Files PROVE RowKeyed(g)'
      <4>1. Encrypted(row[g]) => row[g].ver = memKey
        BY <2>3 DEF KeyInv, FinishInv, RowKeyed, Held
      <4> QED
        BY <2>1, <3>1, <4>1 DEF RowKeyed, Held
    <3>4. ASSUME NEW g \in Files
          PROVE  WriterKeyed(g)' /\ RotKeyed(g)' /\ RepairKeyed(g)' /\ FinishInv(g)'
      BY <2>1, <3>1 DEF WriterKeyed, RotKeyed, RepairKeyed, FinishInv, Repairing, InFlight
    <3> QED
      BY <3>2, <3>3, <3>4 DEF KeyInv
  <2>4. CASE dbPending # {}
    <3>1. dbPending = {memOld'} /\ memOld' # 0 /\ memOld' + 1 = dbKey
      <4>1. CASE dbKey = memKey
        BY <2>2, <2>4, <4>1 DEF KeyInv, KeyStateInv
      <4>2. CASE dbKey # memKey
        BY <2>2, <2>4, <4>2 DEF KeyInv, KeyStateInv
      <4> QED
        BY <4>1, <4>2
    <3>2. KeyStateInv'
      BY <2>1, <3>1 DEF KeyStateInv
    <3>3. Held' = {dbKey, memOld'}
      BY <2>1, <3>1 DEF Held
    <3>4. Held \subseteq Held'
      <4>1. CASE dbKey = memKey
        BY <2>4, <3>1, <3>3, <4>1 DEF KeyInv, KeyStateInv, Held
      <4>2. CASE dbKey # memKey
        <5>1. Held = {memKey} /\ dbPending = {memKey}
          BY <4>2 DEF KeyInv, KeyStateInv, Held
        <5> QED
          BY <3>1, <3>3, <5>1
      <4> QED
        BY <4>1, <4>2
    <3>5. ASSUME NEW g \in Files PROVE RowKeyed(g)'
      BY <2>1, <3>4 DEF KeyInv, RowKeyed
    <3>6. ASSUME NEW g \in Files
          PROVE  WriterKeyed(g)' /\ RotKeyed(g)' /\ RepairKeyed(g)' /\ FinishInv(g)'
      BY <2>1, <2>4 DEF WriterKeyed, RotKeyed, RepairKeyed, FinishInv, Repairing, InFlight
    <3> QED
      BY <3>2, <3>5, <3>6 DEF KeyInv
  <2> QED
    BY <2>3, <2>4
<1>21. ASSUME NEW f \in Files, RepairRowFail(f) PROVE KeyInv'
  <2>1. UNCHANGED <<keys, row, writer, rot, pass>> /\ pass = "repair" /\ walk'.at = {}
    BY <1>21 DEF RepairRowFail, WalkOver, disk, WalkAt
  <2> QED
    BY <2>1, PassMoves
<1>22. ASSUME PrepareStep PROVE KeyInv'
  BY <1>15, <1>16, <1>17, <1>22 DEF PrepareStep, PrepareDb, PrepareDbInDoubt
<1> QED
  BY <1>1, <1>2, <1>3, <1>4, <1>5, <1>6, <1>7, <1>8, <1>9, <1>10, <1>11, <1>12, <1>13,
     <1>14, <1>18, <1>19, <1>20, <1>21, <1>22 DEF WalkStep

\* With no key event admitted every action preserves KeyInv.
LEMMA KeyStep ==
    ASSUME TypeOK, KeyInv, [Next]_vars, Admit \cap KeyEvents = {}
    PROVE  KeyInv'
<1>1. CASE UNCHANGED vars
  BY <1>1, KeyUnchanged DEF vars, disk, passVars
<1> QED
  BY <1>1, KeyUserStep, KeyRotStep, KeyPassStep DEF Next, PassStep

\* The state of a rotation is consistent through crashes, failures and concurrent writes:
\* memory and database differ only inside prepare and finish or after one of their COMMITs
\* was in doubt, what is in flight is sealed under a loaded key, and a pass that finishes has
\* left nothing on the old key.  Requests for a rotation come one at a time: the code checks
\* and rotates in two transactions (EncryptionManager.cpp:199, :223).
THEOREM KeysStayTracked == Admit \cap KeyEvents = {} => (Spec => []KeyInv)
<1> SUFFICES ASSUME Admit \cap KeyEvents = {} PROVE Spec => []KeyInv
  OBVIOUS
<1>1. Init => TypeOK /\ KeyInv
  BY TypeInit, KeyInit
<1>2. TypeOK /\ KeyInv /\ [Next]_vars => TypeOK' /\ KeyInv'
  BY TypeStep, KeyStep
<1> QED
  BY <1>1, <1>2, PTL DEF Spec

\* A rotation never leaves a file encrypted under a key that is no longer loaded
\* ("Until then the old key stays loaded, so every file remains decryptable",
\* Rotation.hpp), whatever crashes, failures and concurrent writes happen, as long as no
\* write spans the finishing of a rotation, none is prepared while one is finishing, and no
\* two requests pass the check of prepare_key_rotation before either of them acts on it.
THEOREM KeysStayHeld == Admit \cap KeyEvents = {} => (Spec => []KeyHeld)
<1> SUFFICES ASSUME Admit \cap KeyEvents = {} PROVE Spec => []KeyHeld
  OBVIOUS
<1>1. KeyInv => KeyHeld
  BY DEF KeyInv, KeyHeld
<1> QED
  BY <1>1, KeysStayTracked, PTL

-----------------------------------------------------------------------------
\* ContentInv says that the copy a row describes exists.
LEMMA ContentSuffices == ContentInv /\ TypeOK => ContentSurvives
<1> SUFFICES ASSUME ContentInv, TypeOK, NEW f \in Files PROVE Live(f) # "garbage"
  BY DEF ContentSurvives
<1>1. RowInv(f) /\ BytesInv(f) /\ WriterInv(f)
  BY DEF ContentInv, FileInv
<1>2. backing[f].val # "garbage" /\ (sidecar[f].seal # NoSeal => sidecar[f].val \in Vals)
  BY <1>1 DEF BytesInv
<1>3. RowOf(sidecar[f]).seal = sidecar[f].seal
  BY DEF RowOf
<1>4. CASE writer[f].pc = "committed"
  <2>1. sidecar[f] = writer[f].next /\ row[f] = RowOf(writer[f].next)
        /\ writer[f].next.val \in Vals \cup {"empty"}
    BY <1>1, <1>4 DEF WriterInv
  <2> QED
    BY <2>1, <1>2, ContentAssumption DEF Live
<1>5. CASE writer[f].pc # "committed"
  BY <1>1, <1>2, <1>3, <1>5, ContentAssumption DEF RowInv, Live, Encrypted
<1> QED
  BY <1>4, <1>5

\* Nothing FileInv(g) is about changes.
LEMMA FileFrame ==
    ASSUME NEW g \in Files, FileInv(g), UNCHANGED <<pass, repaired, walk>>,
           row'[g] = row[g], backing'[g] = backing[g], sidecar'[g] = sidecar[g],
           lock'[g] = lock[g], writer'[g] = writer[g], rot'[g] = rot[g],
           listed'[g] = listed[g], entry'[g] = entry[g], (g \in trash') = (g \in trash)
    PROVE  FileInv(g)'
<1>1. LockInv(g)'
  BY DEF FileInv, LockInv, Writing
<1>2. BytesInv(g)'
  BY DEF FileInv, BytesInv
<1>3. WriterInv(g)'
  BY DEF FileInv, WriterInv
<1>4. RotatorInv(g)'
  BY DEF FileInv, RotatorInv
<1>5. WalkInv(g)'
  BY DEF FileInv, WalkInv
<1>6. RowInv(g)'
  BY DEF FileInv, RowInv, Repairing
<1>7. EntryInv(g)'
  BY DEF FileInv, EntryInv
<1> QED
  BY <1>1, <1>2, <1>3, <1>4, <1>5, <1>6, <1>7 DEF FileInv

\* A step of one file: the pass, the walk and every other file are left alone.
OnlyFile(f) ==
    /\ UNCHANGED <<pass, repaired, walk>>
    /\ \A g \in Files \ {f} :
          /\ row'[g] = row[g] /\ backing'[g] = backing[g] /\ sidecar'[g] = sidecar[g]
          /\ lock'[g] = lock[g] /\ writer'[g] = writer[g] /\ rot'[g] = rot[g]
          /\ listed'[g] = listed[g] /\ entry'[g] = entry[g]
          /\ (g \in trash') = (g \in trash)

\* Such a step keeps ContentInv if it does so for that file.
LEMMA FileStep ==
    ASSUME ContentInv, NEW f \in Files, OnlyFile(f), FileInv(f)'
    PROVE  ContentInv'
<1> SUFFICES ASSUME NEW g \in Files, g # f PROVE FileInv(g)'
  BY DEF ContentInv
<1>1. FileInv(g)
  BY DEF ContentInv
<1> QED
  BY <1>1, FileFrame DEF OnlyFile

\* The events that would break ContentInv do not happen.
Sheltered == Admit \cap ContentEvents = {}

\* In a sheltered instance a walk meets no write, and the other five do not happen.
LEMMA Shelter ==
    Sheltered => /\ ~WriteMayMeetWalk
                 /\ "leftover unsettled" \notin Admit /\ "commit in doubt" \notin Admit
                 /\ "emptying cut short" \notin Admit
                 /\ "repair cut short" \notin Admit
                 /\ "directory sync fails" \notin Admit
  BY DEF Sheltered, ContentEvents, WriteMayMeetWalk

\* Initially every row describes its backing file.
LEMMA ContentInit == Init => ContentInv
<1> SUFFICES ASSUME Init, NEW f \in Files PROVE FileInv(f)
  BY DEF ContentInv
<1>1. PICK c \in [Files -> Vals \cup {"gone", "empty"}], s \in Seals,
              legacy \in SUBSET LegacyFiles :
         backing = [g \in Files |->
                 IF c[g] \in {"gone", "empty"} \/ g \in legacy
                   THEN Plain(c[g]) ELSE Sealed(c[g], s, 1)]
  BY DEF Init
<1>2. row[f] = RowOf(backing[f]) /\ entry[f] = StateOf(row[f])
  BY DEF Init
<1>3. /\ backing[f].val \in Vals \cup {"gone", "empty"}
      /\ backing[f].seal # NoSeal => backing[f].val \in Vals
  BY <1>1 DEF Plain, Sealed
<1>4. writer[f].pc = "idle" /\ rot[f].pc = "idle" /\ lock[f] = "free" /\ walk = NoWalk
      /\ pass = "idle" /\ ~repaired /\ trash = {}
      /\ sidecar[f].seal = NoSeal /\ writer[f].next.seal = NoSeal /\ rot[f].next.seal = NoSeal
  BY DEF Init, Idle, WriterAt, NoRot, RotAt, NoBytes, Plain
<1>5. walk.at = {} /\ walk.todo = {} /\ ~walk.loaded
  BY <1>4 DEF NoWalk, WalkOver, WalkAt
<1>6. LockInv(f)
  BY <1>4 DEF LockInv, Writing, Settling
<1>7. BytesInv(f)
  BY <1>2, <1>3, <1>4, ContentAssumption, SMTT(60) DEF BytesInv, Encrypted, RowOf
<1>8. WriterInv(f) /\ RotatorInv(f)
  BY <1>4 DEF WriterInv, RotatorInv
<1>9. WalkInv(f)
  BY <1>4, <1>5 DEF WalkInv
<1>10. RowInv(f)
  BY <1>2, <1>4, <1>5 DEF RowInv, Repairing
<1>11. EntryInv(f)
  BY <1>2, <1>4, SMTT(60) DEF EntryInv, Encrypted, StateOf, RowOf
<1> QED
  BY <1>6, <1>7, <1>8, <1>9, <1>10, <1>11 DEF FileInv
-----------------------------------------------------------------------------
\* What the invariant says of a file while a write of it is in flight.
LEMMA WhileWriting ==
    ASSUME NEW f \in Files, FileInv(f), Writing(f)
    PROVE  /\ rot[f].pc \in {"idle", "listed"} /\ lock[f] = "writer"
           /\ pass \notin Settling /\ ~Repairing(f)
           /\ walk.at = {} /\ walk.todo = {} /\ ~walk.loaded
<1>1. pass \notin Settling /\ lock[f] = "writer" /\ rot[f].pc \in {"idle", "listed"}
  BY DEF FileInv, LockInv
<1>2. walk = NoWalk
  BY <1>1 DEF FileInv, WalkInv
<1>3. walk.at = {} /\ walk.todo = {} /\ ~walk.loaded
  BY <1>2 DEF NoWalk, WalkOver, WalkAt
<1> QED
  BY <1>1, <1>3 DEF Repairing

\* No rotation of a file is past its start while the content lock is not the rotator's.
LEMMA WhileFree ==
    ASSUME NEW f \in Files, FileInv(f), lock[f] = "free"
    PROVE  rot[f].pc \in {"idle", "listed"} /\ ~Writing(f)
  BY DEF FileInv, LockInv

\* Nor while the file has no row.
LEMMA WhileRowless ==
    ASSUME NEW f \in Files, TypeOK, FileInv(f), row[f] = NoRow
    PROVE  rot[f].pc \in {"idle", "listed"} /\ lock[f] # "rotator"
<1>1. rot[f].pc \in RotPcs
  BY DEF TypeOK, RotRecs
<1>2. CASE rot[f].pc \in {"staging", "staged", "cleared"}
  <2>1. Encrypted(row[f])
    BY <1>2 DEF FileInv, RotatorInv, LockInv
  <2> QED
    BY <2>1, NoRowIsPlain DEF Encrypted
<1>3. CASE rot[f].pc = "committed"
  <2>1. row[f] = RowOf(rot[f].next) /\ rot[f].next.seal # NoSeal
    BY <1>3 DEF FileInv, RotatorInv
  <2> QED
    BY <2>1, NoRowIsPlain, SMTT(60) DEF RowOf
<1>4. CASE rot[f].pc \in {"idle", "listed"}
  BY <1>4 DEF FileInv, LockInv
<1> QED
  BY <1>1, <1>2, <1>3, <1>4 DEF RotPcs

\* What RowOf and StateOf keep of sealed and of plain bytes.
LEMMA RowOfBytes ==
    ASSUME NEW b
    PROVE  /\ RowOf(b).seal = b.seal /\ StateOf(b).seal = b.seal
           /\ RowOf(b).ver = b.ver
           /\ b.val \in Vals => RowOf(b).size = "full"
  BY ContentAssumption DEF RowOf, StateOf

\* What sealing gives: the plaintext kept, an IV nobody remembers unless it is empty.
LEMMA EncodedBytes ==
    ASSUME NEW f \in Files, NEW v \in Vals \cup {"empty"}, NEW s \in FreshSeals(f), NEW k
    PROVE  /\ Encoded(v, s, k).val = v
           /\ Encoded(v, s, k).seal = NoSeal <=> v = "empty"
           /\ Encoded(v, s, k).seal = NoSeal => Encoded(v, s, k).ver = 0
           /\ Encoded(v, s, k).seal # NoSeal => Encoded(v, s, k).seal \notin Remembered(f)
  BY ContentAssumption DEF Encoded, Sealed, Plain, FreshSeals

\* What the invariant says of a file whose rotation holds the content lock.
LEMMA WhileRotating ==
    ASSUME NEW f \in Files, TypeOK, FileInv(f), rot[f].pc \notin {"idle", "listed"}
    PROVE  /\ pass = "rotate" /\ Encrypted(listed[f]) /\ lock[f] = "rotator" /\ ~Writing(f)
           /\ walk.at = {} /\ walk.todo = {} /\ ~walk.loaded
           /\ writer[f].pc \in {"idle", "creating", "created", "trashed"}
<1>1. pass = "rotate" /\ Encrypted(listed[f]) /\ lock[f] = "rotator" /\ ~Writing(f)
  BY DEF FileInv, LockInv
<1>2. walk = NoWalk
  BY <1>1 DEF FileInv, WalkInv, Settling
<1>3. walk.at = {} /\ walk.todo = {} /\ ~walk.loaded
  BY <1>2 DEF NoWalk, WalkOver, WalkAt
<1>4. writer[f].pc \in WriterPcs
  BY DEF TypeOK, WriterRecs
<1> QED
  BY <1>1, <1>3, <1>4 DEF Writing, WriterPcs

\* Such a file has an encrypted row, so no user operation is on its way to create it.
LEMMA RotatedRow ==
    ASSUME NEW f \in Files, TypeOK, FileInv(f), rot[f].pc \notin {"idle", "listed"}
    PROVE  writer[f].pc = "idle" /\ row[f] # NoRow /\ Encrypted(row[f])
<1>1. writer[f].pc \in {"idle", "creating", "created", "trashed"}
  BY WhileRotating
<1>2. row[f] # NoRow
  BY WhileRowless
<1>3. rot[f].pc \in RotPcs
  BY DEF TypeOK, RotRecs
<1>4. Encrypted(row[f])
  <2>1. CASE rot[f].pc = "committed"
    BY <2>1, RowOfBytes DEF FileInv, RotatorInv, Encrypted
  <2>2. CASE rot[f].pc \in {"staging", "staged", "cleared"}
    BY <2>2, WhileRotating DEF FileInv, RotatorInv
  <2> QED
    BY <1>3, <2>1, <2>2 DEF RotPcs
<1> QED
  BY <1>1, <1>2, <1>4 DEF FileInv, WriterInv

\* What it says of a file whose rotation is about to start.
LEMMA WhileListed ==
    ASSUME NEW f \in Files, FileInv(f), rot[f].pc = "listed", lock[f] = "free"
    PROVE  /\ pass = "rotate" /\ Encrypted(listed[f]) /\ ~Writing(f) /\ ~Repairing(f)
           /\ walk.at = {} /\ walk.todo = {} /\ ~walk.loaded
<1>1. pass = "rotate" /\ Encrypted(listed[f]) /\ ~Writing(f)
  BY DEF FileInv, LockInv
<1>2. walk = NoWalk
  BY <1>1 DEF FileInv, WalkInv, Settling
<1> QED
  BY <1>1, <1>2 DEF NoWalk, WalkOver, WalkAt, Repairing

\* Bytes that authenticate under a row are the ones it describes.
LEMMA AuthenticIsDescribed ==
    ASSUME NEW b, NEW r \in Rows, Authenticates(b, r), b.val \in Vals, r.size = "full"
    PROVE  RowOf(b) = r
  BY ContentAssumption DEF Rows, RowOf, Authenticates, Encrypted

\* Once its sidecar is settled the backing file is what the row describes.
LEMMA SettledRow ==
    ASSUME NEW f \in Files, TypeOK, FileInv(f), rot[f].pc = "listed", lock[f] = "free",
           row[f] = listed[f], Verdict(f, listed[f]) # "unresolved"
    PROVE  /\ RowOf(Settled(f)) = row[f] /\ Settled(f).seal # NoSeal /\ Settled(f).val \in Vals
           /\ writer[f].pc = "idle" /\ row[f] # NoRow /\ Encrypted(row[f])
<1>1. Encrypted(row[f]) /\ ~Writing(f) /\ ~Repairing(f)
  BY WhileListed
<1>2. row[f] # NoRow
  BY <1>1, NoRowIsPlain DEF Encrypted
<1>3. writer[f].pc \in WriterPcs /\ row[f] \in Rows
  BY DEF TypeOK, WriterRecs
<1>4. writer[f].pc = "idle"
  BY <1>1, <1>2, <1>3 DEF Writing, WriterPcs, FileInv, WriterInv
<1>5. RowOf(backing[f]) = row[f] \/ RowOf(sidecar[f]) = row[f]
  BY <1>1, <1>2, <1>4 DEF FileInv, RowInv
<1>6. RowOf(sidecar[f]) = row[f] => Exists(sidecar[f])
  BY <1>2 DEF Exists, NoRow
<1>7. RowOf(Settled(f)) = row[f]
  <2>1. CASE Verdict(f, listed[f]) = "promote"
    <3>1. Authenticates(sidecar[f], row[f])
      BY <1>1, <1>2, <2>1 DEF Verdict
    <3>2. sidecar[f].val \in Vals /\ row[f].size = "full"
      BY <1>1, <3>1 DEF FileInv, BytesInv, Authenticates, Encrypted
    <3> QED
      BY <1>3, <2>1, <3>1, <3>2, AuthenticIsDescribed DEF Settled
  <2>2. CASE Verdict(f, listed[f]) = "discard"
    <3>1. Authenticates(backing[f], row[f])
      BY <1>1, <1>2, <2>2 DEF Verdict
    <3>2. backing[f].val \in Vals /\ row[f].size = "full"
      BY <1>1, <3>1 DEF FileInv, BytesInv, Authenticates, Encrypted
    <3> QED
      BY <1>3, <2>2, <3>1, <3>2, AuthenticIsDescribed DEF Settled
  <2>3. CASE Verdict(f, listed[f]) = "none"
    <3>1. ~Exists(sidecar[f])
      BY <1>1, <1>2, <2>3 DEF Verdict
    <3> QED
      BY <1>5, <1>6, <2>3, <3>1 DEF Settled
  <2> QED
    BY <1>1, <1>2, <2>1, <2>2, <2>3, SMTT(60) DEF Verdict
<1>8. Settled(f).seal # NoSeal
  BY <1>1, <1>7, RowOfBytes DEF Encrypted
<1>9. Settled(f).val \in Vals
  BY <1>8 DEF Settled, FileInv, BytesInv
<1> QED
  BY <1>1, <1>2, <1>4, <1>7, <1>8, <1>9

\* A step that leaves the cached entry and the backing file of f alone.
LEMMA EntryFrame ==
    ASSUME NEW f \in Files, EntryInv(f), repaired' = repaired, pass' = pass,
           entry'[f] = entry[f], backing'[f] = backing[f], row'[f] # NoRow => row[f] # NoRow
    PROVE  EntryInv(f)'
  BY DEF EntryInv

\* Outside the settling stages there is no walk.
LEMMA QuietWalk ==
    ASSUME NEW f \in Files, FileInv(f), pass \notin Settling
    PROVE  walk.at = {} /\ walk.todo = {} /\ ~walk.loaded /\ walk = NoWalk
<1>1. walk = NoWalk
  BY DEF FileInv, WalkInv
<1> QED
  BY <1>1 DEF NoWalk, WalkOver, WalkAt

\* In the settling stages nobody holds a content lock.
LEMMA WhileSettling ==
    ASSUME NEW f \in Files, TypeOK, FileInv(f), pass \in Settling
    PROVE  rot[f].pc = "idle" /\ ~Writing(f) /\ lock[f] = "free"
<1>1. lock[f] \in {"free", "writer", "rotator"}
  BY DEF TypeOK
<1> QED
  BY <1>1 DEF FileInv, LockInv, Settling

\* Nothing of the file exists yet.
LEMMA CreateBeginKeeps ==
    ASSUME Sheltered, TypeOK, ContentInv, NEW f \in Files, NEW v \in Vals \cup {"empty"}, CreateBegin(f, v)
    PROVE  ContentInv'
<1>1. FileInv(f)
  BY DEF ContentInv
<1>2. OnlyFile(f)
  BY DEF OnlyFile, TypeOK, disk, passVars, CreateBegin, WriterAt
<1>3. /\ writer'[f].pc = "creating" /\ writer'[f].next = Plain(v)
      /\ row'[f] = row[f] /\ backing'[f] = backing[f] /\ sidecar'[f] = sidecar[f] /\ lock'[f] = lock[f] /\ rot'[f] = rot[f] /\ listed'[f] = listed[f] /\ entry'[f] = entry[f]
      /\ (f \in trash') = (f \in trash)
  BY DEF TypeOK, disk, passVars, CreateBegin, WriterAt
<1>4. /\ row[f] = NoRow /\ lock[f] = "free"
      /\ f \notin trash \cup walk.todo \cup walk.at /\ ~Exists(sidecar[f])
      /\ writer[f].pc = "idle"
  BY SMTT(60) DEF CreateBegin, NeverSeen, Idle, WriterAt
<1>5. Plain(v).seal = NoSeal /\ Plain(v).ver = 0 /\ Plain(v).val = v
  BY DEF Plain
<1>11. LockInv(f)'
  BY <1>1, <1>2, <1>3, <1>4, <1>5 DEF OnlyFile, FileInv, LockInv, Writing
<1>12. BytesInv(f)'
  BY <1>1, <1>2, <1>3, <1>4, <1>5 DEF OnlyFile, FileInv, BytesInv, Encrypted
<1>13. WriterInv(f)'
  BY <1>1, <1>2, <1>3, <1>4, <1>5 DEF OnlyFile, FileInv, WriterInv, Exists
<1>14. RotatorInv(f)'
  BY <1>1, <1>2, <1>3, <1>4, <1>5 DEF OnlyFile, FileInv, RotatorInv
<1>15. WalkInv(f)'
  BY <1>1, <1>2, <1>3, <1>4, <1>5 DEF OnlyFile, FileInv, WalkInv, Encrypted
<1>16. RowInv(f)'
  BY <1>1, <1>2, <1>3, <1>4, <1>5 DEF OnlyFile, FileInv, RowInv, Repairing, Encrypted
<1>17. EntryInv(f)'
  BY <1>1, <1>2, <1>3, <1>4, <1>5 DEF OnlyFile, FileInv, EntryInv, Encrypted
<1> QED
  BY <1>2, <1>11, <1>12, <1>13, <1>14, <1>15, <1>16, <1>17, FileStep DEF FileInv

\* The backing file of a creation that failed is nobody's.
LEMMA CreateFailKeeps ==
    ASSUME Sheltered, TypeOK, ContentInv, NEW f \in Files, CreateFail(f)
    PROVE  ContentInv'
<1>1. FileInv(f)
  BY DEF ContentInv
<1>2. OnlyFile(f)
  BY DEF OnlyFile, TypeOK, disk, passVars, CreateFail, WriterAt, Idle
<1>3. /\ writer'[f].pc = "idle" /\ writer'[f].next = NoBytes
      /\ row'[f] = row[f] /\ backing'[f] = backing[f] /\ sidecar'[f] = sidecar[f] /\ lock'[f] = lock[f] /\ rot'[f] = rot[f] /\ listed'[f] = listed[f] /\ entry'[f] = entry[f]
      /\ (f \in trash') = (f \in trash)
  BY DEF TypeOK, disk, passVars, CreateFail, WriterAt, Idle
<1>4. writer[f].pc \in {"creating", "created"} /\ NoBytes.seal = NoSeal
  BY DEF CreateFail, NoBytes, Plain
<1>11. LockInv(f)'
  BY <1>1, <1>2, <1>3, <1>4 DEF OnlyFile, FileInv, LockInv, Writing
<1>12. BytesInv(f)'
  BY <1>1, <1>2, <1>3, <1>4 DEF OnlyFile, FileInv, BytesInv, Encrypted
<1>13. WriterInv(f)'
  BY <1>1, <1>2, <1>3, <1>4 DEF OnlyFile, FileInv, WriterInv, Exists
<1>14. RotatorInv(f)'
  BY <1>1, <1>2, <1>3, <1>4 DEF OnlyFile, FileInv, RotatorInv
<1>15. WalkInv(f)'
  BY <1>1, <1>2, <1>3, <1>4 DEF OnlyFile, FileInv, WalkInv, Encrypted
<1>16. RowInv(f)'
  BY <1>1, <1>2, <1>3, <1>4 DEF OnlyFile, FileInv, RowInv, Repairing, Encrypted
<1>17. EntryInv(f)'
  BY <1>1, <1>2, <1>3, <1>4 DEF OnlyFile, FileInv, EntryInv, Encrypted
<1> QED
  BY <1>2, <1>11, <1>12, <1>13, <1>14, <1>15, <1>16, <1>17, FileStep DEF FileInv

\* The row of a new file describes the bytes placed before it.
LEMMA CreateRowKeeps ==
    ASSUME Sheltered, TypeOK, ContentInv, NEW f \in Files, CreateRow(f)
    PROVE  ContentInv'
<1>1. FileInv(f)
  BY DEF ContentInv
<1>2. OnlyFile(f)
  BY DEF OnlyFile, TypeOK, disk, passVars, CreateRow, WriterAt, Idle
<1>3. /\ row'[f] = RowOf(writer[f].next)
      /\ entry'[f] = StateOf(writer[f].next)
      /\ writer'[f].pc = "idle" /\ writer'[f].next = NoBytes
      /\ backing'[f] = backing[f] /\ sidecar'[f] = sidecar[f] /\ lock'[f] = lock[f] /\ rot'[f] = rot[f] /\ listed'[f] = listed[f]
      /\ (f \in trash') = (f \in trash)
  BY DEF TypeOK, disk, passVars, CreateRow, WriterAt, Idle
<1>4. writer[f].pc = "created" /\ NoBytes.seal = NoSeal
  BY DEF CreateRow, NoBytes, Plain
<1>5. /\ row[f] = NoRow /\ backing[f] = writer[f].next
      /\ f \notin trash /\ f \notin walk.todo /\ f \notin walk.at
  BY <1>1, <1>4 DEF FileInv, WriterInv
<1>6. /\ RowOf(writer[f].next).seal = writer[f].next.seal
      /\ StateOf(writer[f].next).seal = writer[f].next.seal
      /\ writer[f].next.val \in Vals => RowOf(writer[f].next).size = "full"
  BY RowOfBytes
<1>7. rot[f].pc \in {"idle", "listed"}
  BY <1>1, <1>5, WhileRowless
<1>8. ~Repairing(f)
  BY <1>5 DEF Repairing
<1>11. LockInv(f)'
  BY <1>1, <1>2, <1>3, <1>4, <1>5, <1>6 DEF OnlyFile, FileInv, LockInv, Writing
<1>12. BytesInv(f)'
  BY <1>1, <1>2, <1>3, <1>4, <1>5, <1>6 DEF OnlyFile, FileInv, BytesInv, Encrypted
<1>13. WriterInv(f)'
  BY <1>1, <1>2, <1>3, <1>4, <1>5, <1>6 DEF OnlyFile, FileInv, WriterInv, Exists
<1>14. RotatorInv(f)'
  BY <1>3, <1>7 DEF RotatorInv
<1>15. WalkInv(f)'
  BY <1>1, <1>2, <1>3, <1>5 DEF OnlyFile, FileInv, WalkInv
<1>16. RowInv(f)'
  BY <1>2, <1>3, <1>5, <1>8 DEF OnlyFile, RowInv, Repairing
<1>17. EntryInv(f)'
  BY <1>1, <1>2, <1>3, <1>5, <1>6 DEF OnlyFile, FileInv, EntryInv, Encrypted
<1> QED
  BY <1>2, <1>11, <1>12, <1>13, <1>14, <1>15, <1>16, <1>17, FileStep DEF FileInv

\* A write that fails before its row keeps the old bytes.
LEMMA WriteFailKeeps ==
    ASSUME Sheltered, TypeOK, ContentInv, NEW f \in Files, WriteFail(f)
    PROVE  ContentInv'
<1>1. FileInv(f)
  BY DEF ContentInv
<1>2. OnlyFile(f)
  BY DEF OnlyFile, TypeOK, disk, passVars, WriteFail, WriterAt, Idle
<1>3. /\ sidecar'[f] = NoBytes
      /\ lock'[f] = "free"
      /\ writer'[f].pc = "idle" /\ writer'[f].next = NoBytes
      /\ row'[f] = row[f] /\ backing'[f] = backing[f] /\ rot'[f] = rot[f] /\ listed'[f] = listed[f] /\ entry'[f] = entry[f]
      /\ (f \in trash') = (f \in trash)
  BY DEF TypeOK, disk, passVars, WriteFail, WriterAt, Idle
<1>4. /\ writer[f].pc \in {"staging", "staged"} /\ NoBytes.seal = NoSeal
  BY DEF WriteFail, NoBytes, Plain
<1>5. Writing(f)
  BY <1>4 DEF Writing
<1>6. /\ rot[f].pc \in {"idle", "listed"} /\ lock[f] = "writer"
      /\ pass \notin Settling /\ ~Repairing(f)
      /\ walk.at = {} /\ walk.todo = {} /\ ~walk.loaded
  BY <1>1, <1>5, WhileWriting
<1>7. RowOf(backing[f]) = row[f]
  BY <1>1, <1>4 DEF FileInv, WriterInv
<1>11. LockInv(f)'
  BY <1>1, <1>2, <1>3, <1>4, <1>6 DEF OnlyFile, FileInv, LockInv, Writing
<1>12. BytesInv(f)'
  BY <1>1, <1>2, <1>3, <1>4, <1>6 DEF OnlyFile, FileInv, BytesInv, Encrypted
<1>13. WriterInv(f)'
  BY <1>1, <1>2, <1>3, <1>4, <1>6 DEF OnlyFile, FileInv, WriterInv, Exists
<1>14. RotatorInv(f)'
  BY <1>3, <1>6 DEF RotatorInv
<1>15. WalkInv(f)'
  BY <1>1, <1>2, <1>3, <1>6 DEF OnlyFile, FileInv, WalkInv
<1>16. RowInv(f)'
  BY <1>1, <1>2, <1>3, <1>6, <1>7 DEF OnlyFile, FileInv, RowInv, Repairing
<1>17. EntryInv(f)'
  BY <1>1, <1>2, <1>3, <1>4, <1>6 DEF OnlyFile, FileInv, EntryInv, Encrypted
<1> QED
  BY <1>2, <1>11, <1>12, <1>13, <1>14, <1>15, <1>16, <1>17, FileStep DEF FileInv

\* The row moves to the staged bytes.
LEMMA WriteCommitKeeps ==
    ASSUME Sheltered, TypeOK, ContentInv, NEW f \in Files, WriteCommit(f)
    PROVE  ContentInv'
<1>1. FileInv(f)
  BY DEF ContentInv
<1>2. OnlyFile(f)
  BY DEF OnlyFile, TypeOK, disk, passVars, WriteCommit, WriterAt
<1>3. /\ row'[f] = RowOf(writer[f].next)
      /\ writer'[f].pc = "committed" /\ writer'[f].next = writer[f].next
      /\ backing'[f] = backing[f] /\ sidecar'[f] = sidecar[f] /\ lock'[f] = lock[f] /\ rot'[f] = rot[f] /\ listed'[f] = listed[f] /\ entry'[f] = entry[f]
      /\ (f \in trash') = (f \in trash)
  BY DEF TypeOK, disk, passVars, WriteCommit, WriterAt
<1>4. /\ writer[f].pc = "staged" /\ NoBytes.seal = NoSeal
  BY DEF WriteCommit, NoBytes, Plain
<1>5. Writing(f)
  BY <1>4 DEF Writing
<1>6. /\ rot[f].pc \in {"idle", "listed"} /\ lock[f] = "writer"
      /\ pass \notin Settling /\ ~Repairing(f)
      /\ walk.at = {} /\ walk.todo = {} /\ ~walk.loaded
  BY <1>1, <1>5, WhileWriting
<1>7. /\ RowOf(writer[f].next).seal = writer[f].next.seal
      /\ StateOf(writer[f].next).seal = writer[f].next.seal
      /\ writer[f].next.val \in Vals => RowOf(writer[f].next).size = "full"
  BY RowOfBytes
<1>8. row[f] # NoRow /\ f \notin trash
  BY <1>1, <1>4 DEF FileInv, WriterInv, RowInv
<1>11. LockInv(f)'
  BY <1>1, <1>2, <1>3, <1>4, <1>6, <1>7 DEF OnlyFile, FileInv, LockInv, Writing
<1>12. BytesInv(f)'
  BY <1>1, <1>2, <1>3, <1>4, <1>6, <1>7 DEF OnlyFile, FileInv, BytesInv, Encrypted
<1>13. WriterInv(f)'
  BY <1>1, <1>2, <1>3, <1>4, <1>6, <1>7 DEF OnlyFile, FileInv, WriterInv, Exists
<1>14. RotatorInv(f)'
  BY <1>3, <1>6 DEF RotatorInv
<1>15. WalkInv(f)'
  BY <1>1, <1>2, <1>3, <1>6 DEF OnlyFile, FileInv, WalkInv
<1>16. RowInv(f)'
  BY <1>2, <1>3, <1>6, <1>8 DEF OnlyFile, RowInv, Repairing
<1>17. EntryInv(f)'
  BY <1>1, <1>2, <1>3, <1>8 DEF OnlyFile, FileInv, EntryInv
<1> QED
  BY <1>2, <1>11, <1>12, <1>13, <1>14, <1>15, <1>16, <1>17, FileStep DEF FileInv

\* A write starts only over bytes its row describes.
LEMMA WriteBeginKeeps ==
    ASSUME Sheltered, TypeOK, ContentInv, NEW f \in Files, NEW v \in Vals \cup {"empty"}, WriteBegin(f, v)
    PROVE  ContentInv'
<1>1. FileInv(f)
  BY DEF ContentInv
<1>2. OnlyFile(f)
  BY DEF OnlyFile, TypeOK, disk, passVars, WriteBegin, WriterAt
<1>3. /\ sidecar'[f] = Torn
      /\ lock'[f] = "writer"
      /\ writer'[f].pc = "staging" /\ writer'[f].next = Plain(v)
      /\ row'[f] = row[f] /\ backing'[f] = backing[f] /\ rot'[f] = rot[f] /\ listed'[f] = listed[f] /\ entry'[f] = entry[f]
      /\ (f \in trash') = (f \in trash)
  BY DEF TypeOK, disk, passVars, WriteBegin, WriterAt
<1>4. /\ writer[f].pc = "idle" /\ row[f] # NoRow /\ lock[f] = "free"
      /\ pass \notin Settling /\ ~LeftoverIsLive(f)
  <2>1. /\ writer[f] = Idle /\ row[f] # NoRow /\ lock[f] = "free"
        /\ WriteMayMeetWalk \/ pass \notin Settling
        /\ "leftover unsettled" \in Admit \/ ~LeftoverIsLive(f)
    BY DEF WriteBegin
  <2>2. Idle.pc = "idle"
    BY DEF Idle, WriterAt
  <2> QED
    BY <2>1, <2>2, Shelter
<1>5. Plain(v).seal = NoSeal /\ Plain(v).ver = 0 /\ Plain(v).val = v /\ Torn.seal = NoSeal
  BY DEF Plain, Torn
<1>6. rot[f].pc \in {"idle", "listed"} /\ walk.at = {} /\ walk.todo = {} /\ ~walk.loaded
  BY <1>1, <1>4, WhileFree, SMTT(60) DEF FileInv, WalkInv, NoWalk, WalkOver, WalkAt
<1>7. RowOf(backing[f]) = row[f]
  BY <1>1, <1>4 DEF FileInv, RowInv, LeftoverIsLive, Repairing, Settling
<1>11. LockInv(f)'
  BY <1>1, <1>2, <1>3, <1>4, <1>5, <1>7 DEF OnlyFile, FileInv, LockInv, Writing
<1>12. BytesInv(f)'
  BY <1>1, <1>2, <1>3, <1>4, <1>5, <1>7 DEF OnlyFile, FileInv, BytesInv, Encrypted
<1>13. WriterInv(f)'
  BY <1>1, <1>2, <1>3, <1>4, <1>5, <1>7 DEF OnlyFile, FileInv, WriterInv, Exists
<1>14. RotatorInv(f)'
  BY <1>3, <1>6 DEF RotatorInv
<1>15. WalkInv(f)'
  BY <1>1, <1>2, <1>3, <1>6 DEF OnlyFile, FileInv, WalkInv
<1>16. RowInv(f)'
  BY <1>1, <1>2, <1>3, <1>4, <1>5, <1>7 DEF OnlyFile, FileInv, RowInv, Repairing, Encrypted
<1>17. EntryInv(f)'
  BY <1>1, <1>2, <1>3, <1>4, <1>5, <1>7 DEF OnlyFile, FileInv, EntryInv, Encrypted
<1> QED
  BY <1>2, <1>11, <1>12, <1>13, <1>14, <1>15, <1>16, <1>17, FileStep DEF FileInv

\* The staged bytes replace the backing file.
LEMMA WriteRenameKeeps ==
    ASSUME Sheltered, TypeOK, ContentInv, NEW f \in Files, WriteRename(f)
    PROVE  ContentInv'
<1>1. FileInv(f)
  BY DEF ContentInv
<1>2. OnlyFile(f)
  BY DEF OnlyFile, TypeOK, disk, passVars, WriteRename, WriterAt, Idle
<1>3. /\ backing'[f] = sidecar[f]
      /\ sidecar'[f] = NoBytes
      /\ entry'[f] = StateOf(writer[f].next)
      /\ lock'[f] = "free"
      /\ writer'[f].pc = "idle" /\ writer'[f].next = NoBytes
      /\ row'[f] = row[f] /\ rot'[f] = rot[f] /\ listed'[f] = listed[f]
      /\ (f \in trash') = (f \in trash)
  BY Shelter DEF TypeOK, disk, passVars, WriteRename, WriterAt, Idle
<1>4. /\ writer[f].pc = "committed" /\ NoBytes.seal = NoSeal
  BY DEF WriteRename, NoBytes, Plain
<1>5. Writing(f)
  BY <1>4 DEF Writing
<1>6. /\ rot[f].pc \in {"idle", "listed"} /\ lock[f] = "writer"
      /\ pass \notin Settling /\ ~Repairing(f)
      /\ walk.at = {} /\ walk.todo = {} /\ ~walk.loaded
  BY <1>1, <1>5, WhileWriting
<1>7. /\ RowOf(writer[f].next).seal = writer[f].next.seal
      /\ StateOf(writer[f].next).seal = writer[f].next.seal
      /\ writer[f].next.val \in Vals => RowOf(writer[f].next).size = "full"
  BY RowOfBytes
<1>8. sidecar[f] = writer[f].next /\ row[f] = RowOf(writer[f].next)
      /\ writer[f].next.val \in Vals \cup {"empty"}
  BY <1>1, <1>4 DEF FileInv, WriterInv
<1>11. LockInv(f)'
  BY <1>1, <1>2, <1>3, <1>4, <1>6, <1>7, <1>8 DEF OnlyFile, FileInv, LockInv, Writing
<1>12. BytesInv(f)'
  BY <1>1, <1>3, <1>4, <1>8, ContentAssumption DEF FileInv, BytesInv
<1>13. WriterInv(f)'
  BY <1>1, <1>2, <1>3, <1>4, <1>6, <1>7, <1>8 DEF OnlyFile, FileInv, WriterInv, Exists
<1>14. RotatorInv(f)'
  BY <1>3, <1>6 DEF RotatorInv
<1>15. WalkInv(f)'
  BY <1>1, <1>2, <1>3, <1>6 DEF OnlyFile, FileInv, WalkInv
<1>16. RowInv(f)'
  BY <1>1, <1>2, <1>3, <1>6, <1>8 DEF OnlyFile, FileInv, RowInv, Repairing
<1>17. EntryInv(f)'
  BY <1>1, <1>2, <1>3, <1>7, <1>8 DEF OnlyFile, FileInv, EntryInv, Encrypted
<1> QED
  BY <1>2, <1>11, <1>12, <1>13, <1>14, <1>15, <1>16, <1>17, FileStep DEF FileInv

\* A failed rename leaves a sealed sidecar that the row describes.
LEMMA WriteRenameFailKeeps ==
    ASSUME Sheltered, TypeOK, ContentInv, NEW f \in Files, WriteRenameFail(f)
    PROVE  ContentInv'
<1>1. FileInv(f)
  BY DEF ContentInv
<1>2. OnlyFile(f)
  BY DEF OnlyFile, TypeOK, disk, passVars, WriteRenameFail, WriterAt, Idle
<1>3. /\ lock'[f] = "free"
      /\ writer'[f].pc = "idle" /\ writer'[f].next = NoBytes
      /\ row'[f] = row[f] /\ backing'[f] = backing[f] /\ sidecar'[f] = sidecar[f] /\ rot'[f] = rot[f] /\ listed'[f] = listed[f] /\ entry'[f] = entry[f]
      /\ (f \in trash') = (f \in trash)
  BY DEF TypeOK, disk, passVars, WriteRenameFail, WriterAt, Idle
<1>4. /\ writer[f].pc = "committed" /\ NoBytes.seal = NoSeal /\ writer[f].next.val # "empty"
  BY Shelter DEF WriteRenameFail, NoBytes, Plain
<1>5. Writing(f)
  BY <1>4 DEF Writing
<1>6. /\ rot[f].pc \in {"idle", "listed"} /\ lock[f] = "writer"
      /\ pass \notin Settling /\ ~Repairing(f)
      /\ walk.at = {} /\ walk.todo = {} /\ ~walk.loaded
  BY <1>1, <1>5, WhileWriting
<1>7. /\ RowOf(writer[f].next).seal = writer[f].next.seal
      /\ StateOf(writer[f].next).seal = writer[f].next.seal
      /\ writer[f].next.val \in Vals => RowOf(writer[f].next).size = "full"
  BY RowOfBytes
<1>8. /\ sidecar[f] = writer[f].next /\ row[f] = RowOf(writer[f].next)
      /\ writer[f].next.seal # NoSeal
  BY <1>1, <1>4 DEF FileInv, WriterInv
<1>11. LockInv(f)'
  BY <1>1, <1>2, <1>3, <1>4, <1>6 DEF OnlyFile, FileInv, LockInv, Writing
<1>12. BytesInv(f)'
  BY <1>1, <1>2, <1>3, <1>4, <1>6 DEF OnlyFile, FileInv, BytesInv, Encrypted
<1>13. WriterInv(f)'
  BY <1>1, <1>2, <1>3, <1>4, <1>6 DEF OnlyFile, FileInv, WriterInv, Exists
<1>14. RotatorInv(f)'
  BY <1>1, <1>2, <1>3, <1>4, <1>6 DEF OnlyFile, FileInv, RotatorInv
<1>15. WalkInv(f)'
  BY <1>1, <1>2, <1>3, <1>4, <1>6 DEF OnlyFile, FileInv, WalkInv, Encrypted
<1>16. RowInv(f)'
  BY <1>1, <1>2, <1>3, <1>6, <1>7, <1>8, SMTT(60) DEF OnlyFile, FileInv, RowInv, Repairing, Encrypted
<1>17. EntryInv(f)'
  BY <1>1, <1>2, <1>3, <1>4, <1>6 DEF OnlyFile, FileInv, EntryInv, Encrypted
<1> QED
  BY <1>2, <1>11, <1>12, <1>13, <1>14, <1>15, <1>16, <1>17, FileStep DEF FileInv

\* A trashed row needs no bytes.
LEMMA TrashRowKeeps ==
    ASSUME Sheltered, TypeOK, ContentInv, NEW f \in Files, TrashRow(f)
    PROVE  ContentInv'
<1>1. FileInv(f)
  BY DEF ContentInv
<1>2. OnlyFile(f)
  BY SMTT(60) DEF OnlyFile, TypeOK, disk, passVars, TrashRow, WriterAt
<1>3. /\ row'[f] = NoRow
      /\ entry'[f] = StateOf(NoRow)
      /\ writer'[f].pc = "trashed" /\ writer'[f].next = NoBytes
      /\ backing'[f] = backing[f] /\ sidecar'[f] = sidecar[f] /\ lock'[f] = lock[f] /\ rot'[f] = rot[f] /\ listed'[f] = listed[f]
  BY DEF TypeOK, disk, passVars, TrashRow, WriterAt
<1>4. writer[f].pc = "idle" /\ row[f] # NoRow /\ lock[f] = "free" /\ NoBytes.seal = NoSeal
      /\ NoRow.seal = NoSeal
  BY NoRowIsPlain, SMTT(60) DEF TrashRow, Idle, WriterAt, NoBytes, Plain
<1>6. rot[f].pc \in {"idle", "listed"}
  BY <1>1, <1>4, WhileFree
<1>11. LockInv(f)'
  BY <1>1, <1>2, <1>3, <1>4 DEF OnlyFile, FileInv, LockInv, Writing
<1>12. BytesInv(f)'
  BY <1>1, <1>2, <1>3, <1>4 DEF OnlyFile, FileInv, BytesInv, Encrypted
<1>13. WriterInv(f)'
  BY <1>1, <1>2, <1>3, <1>4 DEF OnlyFile, FileInv, WriterInv, Exists
<1>14. RotatorInv(f)'
  BY <1>3, <1>6 DEF RotatorInv
<1>15. WalkInv(f)'
  BY <1>1, <1>2, <1>3, <1>4 DEF OnlyFile, FileInv, WalkInv, Encrypted
<1>16. RowInv(f)'
  BY <1>1, <1>2, <1>3, <1>4 DEF OnlyFile, FileInv, RowInv, Repairing, Encrypted
<1>17. EntryInv(f)'
  BY <1>1, <1>2, <1>3, <1>4 DEF OnlyFile, FileInv, EntryInv, Encrypted
<1> QED
  BY <1>2, <1>11, <1>12, <1>13, <1>14, <1>15, <1>16, <1>17, FileStep DEF FileInv

\* The backing file of a trashed row goes.
LEMMA TrashBackingKeeps ==
    ASSUME Sheltered, TypeOK, ContentInv, NEW f \in Files, TrashBacking(f)
    PROVE  ContentInv'
<1>1. FileInv(f)
  BY DEF ContentInv
<1>2. OnlyFile(f)
  BY DEF OnlyFile, TypeOK, disk, passVars, TrashBacking, WriterAt, Idle
<1>3. /\ backing'[f] = NoBytes
      /\ writer'[f].pc = "idle" /\ writer'[f].next = NoBytes
      /\ row'[f] = row[f] /\ sidecar'[f] = sidecar[f] /\ lock'[f] = lock[f] /\ rot'[f] = rot[f] /\ listed'[f] = listed[f] /\ entry'[f] = entry[f]
      /\ (f \in trash') = (f \in trash)
  BY DEF TypeOK, disk, passVars, TrashBacking, WriterAt, Idle
<1>4. writer[f].pc = "trashed" /\ NoBytes.seal = NoSeal /\ NoBytes.val = "gone"
  BY DEF TrashBacking, NoBytes, Plain
<1>5. row[f] = NoRow
  BY <1>1, <1>4 DEF FileInv, WriterInv
<1>6. rot[f].pc \in {"idle", "listed"}
  BY <1>1, <1>5, WhileRowless
<1>11. LockInv(f)'
  BY <1>1, <1>2, <1>3, <1>4 DEF OnlyFile, FileInv, LockInv, Writing
<1>12. BytesInv(f)'
  BY <1>1, <1>2, <1>3, <1>4 DEF OnlyFile, FileInv, BytesInv, Encrypted
<1>13. WriterInv(f)'
  BY <1>1, <1>2, <1>3, <1>4 DEF OnlyFile, FileInv, WriterInv, Exists
<1>14. RotatorInv(f)'
  BY <1>3, <1>6 DEF RotatorInv
<1>15. WalkInv(f)'
  BY <1>1, <1>2, <1>3, <1>5 DEF OnlyFile, FileInv, WalkInv
<1>16. RowInv(f)'
  BY <1>1, <1>2, <1>3, <1>5 DEF OnlyFile, FileInv, RowInv, Repairing
<1>17. EntryInv(f)'
  BY <1>1, <1>2, <1>3, <1>4 DEF OnlyFile, FileInv, EntryInv, Encrypted
<1> QED
  BY <1>2, <1>11, <1>12, <1>13, <1>14, <1>15, <1>16, <1>17, FileStep DEF FileInv

\* The bytes of a new file are placed before its row exists.
LEMMA CreatePlaceKeeps ==
    ASSUME Sheltered, TypeOK, ContentInv, NEW f \in Files, CreatePlace(f)
    PROVE  ContentInv'
<1>1. FileInv(f)
  BY DEF ContentInv
<1>0. PICK s \in FreshSeals(f) :
         LET b == Encoded(writer[f].next.val, s, writer[f].key)
         IN  /\ backing' = [backing EXCEPT ![f] = b]
             /\ writer' = [writer EXCEPT ![f] = WriterAt("created", writer[f].key, b)]
  BY DEF CreatePlace
<1> DEFINE b == Encoded(writer[f].next.val, s, writer[f].key)
<1>2. OnlyFile(f)
  BY <1>0 DEF OnlyFile, TypeOK, disk, passVars, CreatePlace, WriterAt
<1>3. /\ backing'[f] = b
      /\ writer'[f].pc = "created" /\ writer'[f].next = b
      /\ row'[f] = row[f] /\ sidecar'[f] = sidecar[f] /\ lock'[f] = lock[f] /\ rot'[f] = rot[f] /\ listed'[f] = listed[f] /\ entry'[f] = entry[f]
      /\ (f \in trash') = (f \in trash)
  BY <1>0 DEF TypeOK, disk, passVars, CreatePlace, WriterAt
<1>4. writer[f].pc = "creating"
  BY DEF CreatePlace
<1>5. writer[f].next.val \in Vals \cup {"empty"}
  <2>1. PICK v \in Vals \cup {"empty"} : writer[f].next = Plain(v)
    BY <1>1, <1>4 DEF FileInv, WriterInv
  <2> QED
    BY <2>1, SMTT(60) DEF Plain
<1>7. /\ b.val = writer[f].next.val
      /\ b.seal = NoSeal <=> b.val = "empty"
      /\ b.seal = NoSeal => b.ver = 0
      /\ b.seal # NoSeal => b.seal \notin Remembered(f)
  BY <1>5, EncodedBytes, SMTT(60)
<1>8. b.val \in Vals \cup {"empty"} /\ b.val # "garbage" /\ (b.seal # NoSeal => b.val \in Vals)
  BY <1>5, <1>7, ContentAssumption
<1> HIDE DEF b
<1>9. /\ row[f] = NoRow /\ f \notin trash /\ f \notin walk.todo /\ f \notin walk.at
  BY <1>1, <1>4 DEF FileInv, WriterInv
<1>6. rot[f].pc \in {"idle", "listed"}
  BY <1>1, <1>9, WhileRowless
<1>11. LockInv(f)'
  BY <1>1, <1>2, <1>3, <1>4, <1>7, <1>8, <1>9 DEF OnlyFile, FileInv, LockInv, Writing
<1>12. BytesInv(f)'
  BY <1>1, <1>2, <1>3, <1>4, <1>7, <1>8, <1>9 DEF OnlyFile, FileInv, BytesInv, Encrypted
<1>13. WriterInv(f)'
  BY <1>1, <1>2, <1>3, <1>4, <1>7, <1>8, <1>9 DEF OnlyFile, FileInv, WriterInv, Exists
<1>14. RotatorInv(f)'
  BY <1>3, <1>6 DEF RotatorInv
<1>15. WalkInv(f)'
  BY <1>1, <1>2, <1>3, <1>9 DEF OnlyFile, FileInv, WalkInv
<1>16. RowInv(f)'
  BY <1>1, <1>2, <1>3, <1>9 DEF OnlyFile, FileInv, RowInv, Repairing
<1>17. EntryInv(f)'
  BY <1>1, <1>2, <1>3, <1>4, <1>7, <1>8, <1>9 DEF OnlyFile, FileInv, EntryInv, Encrypted
<1> QED
  BY <1>2, <1>11, <1>12, <1>13, <1>14, <1>15, <1>16, <1>17, FileStep DEF FileInv

\* A write stages bytes under an IV the backing file does not have.
LEMMA WriteStageKeeps ==
    ASSUME Sheltered, TypeOK, ContentInv, NEW f \in Files, WriteStage(f)
    PROVE  ContentInv'
<1>1. FileInv(f)
  BY DEF ContentInv
<1>0. PICK s \in FreshSeals(f) :
         LET b == Encoded(writer[f].next.val, s, writer[f].key)
         IN  /\ sidecar' = [sidecar EXCEPT ![f] = b]
             /\ writer' = [writer EXCEPT ![f] = WriterAt("staged", writer[f].key, b)]
  BY DEF WriteStage
<1> DEFINE b == Encoded(writer[f].next.val, s, writer[f].key)
<1>2. OnlyFile(f)
  BY <1>0 DEF OnlyFile, TypeOK, disk, passVars, WriteStage, WriterAt
<1>3. /\ sidecar'[f] = b
      /\ writer'[f].pc = "staged" /\ writer'[f].next = b
      /\ row'[f] = row[f] /\ backing'[f] = backing[f] /\ lock'[f] = lock[f] /\ rot'[f] = rot[f] /\ listed'[f] = listed[f] /\ entry'[f] = entry[f]
      /\ (f \in trash') = (f \in trash)
  BY <1>0 DEF TypeOK, disk, passVars, WriteStage, WriterAt
<1>4. writer[f].pc = "staging"
  BY DEF WriteStage
<1>5. writer[f].next.val \in Vals \cup {"empty"}
  <2>1. PICK v \in Vals \cup {"empty"} : writer[f].next = Plain(v)
    BY <1>1, <1>4 DEF FileInv, WriterInv
  <2> QED
    BY <2>1, SMTT(60) DEF Plain
<1>7. /\ b.val = writer[f].next.val
      /\ b.seal = NoSeal <=> b.val = "empty"
      /\ b.seal = NoSeal => b.ver = 0
      /\ b.seal # NoSeal => b.seal \notin Remembered(f)
  BY <1>5, EncodedBytes, SMTT(60)
<1>8. b.val \in Vals \cup {"empty"} /\ b.val # "garbage" /\ (b.seal # NoSeal => b.val \in Vals)
  BY <1>5, <1>7, ContentAssumption
<1> HIDE DEF b
<1>9. Writing(f)
  BY <1>4 DEF Writing
<1>6. /\ rot[f].pc \in {"idle", "listed"} /\ lock[f] = "writer"
      /\ pass \notin Settling /\ ~Repairing(f)
      /\ walk.at = {} /\ walk.todo = {} /\ ~walk.loaded
  BY <1>1, <1>9, WhileWriting
<1>10. RowOf(backing[f]) = row[f] /\ row[f] # NoRow
       /\ (b.seal # NoSeal => b.seal # backing[f].seal)
  BY <1>1, <1>4, <1>7 DEF FileInv, WriterInv, Remembered
<1>11. LockInv(f)'
  BY <1>1, <1>2, <1>3, <1>4, <1>7, <1>8, <1>10 DEF OnlyFile, FileInv, LockInv, Writing
<1>12. BytesInv(f)'
  BY <1>1, <1>2, <1>3, <1>4, <1>7, <1>8, <1>10 DEF OnlyFile, FileInv, BytesInv, Encrypted
<1>13. WriterInv(f)'
  BY <1>1, <1>2, <1>3, <1>4, <1>7, <1>8, <1>10 DEF OnlyFile, FileInv, WriterInv, Exists
<1>14. RotatorInv(f)'
  BY <1>3, <1>6 DEF RotatorInv
<1>15. WalkInv(f)'
  BY <1>1, <1>2, <1>3, <1>6 DEF OnlyFile, FileInv, WalkInv
<1>16. RowInv(f)'
  BY <1>1, <1>2, <1>3, <1>6, <1>10 DEF OnlyFile, FileInv, RowInv, Repairing
<1>17. EntryInv(f)'
  BY <1>1, <1>2, <1>3, <1>4, <1>7, <1>8, <1>10 DEF OnlyFile, FileInv, EntryInv, Encrypted
<1> QED
  BY <1>2, <1>11, <1>12, <1>13, <1>14, <1>15, <1>16, <1>17, FileStep DEF FileInv

\* A rotation that stops before its row keeps the old bytes.
LEMMA RotGivesUp ==
    ASSUME Sheltered, TypeOK, ContentInv, NEW f \in Files,
           rot[f].pc \in {"staging", "staged", "cleared"}, RotDone(f),
           sidecar' = [sidecar EXCEPT ![f] = NoBytes],
           UNCHANGED <<row, backing, writer, entry, pass, repaired, walk, listed, trash>>
    PROVE  ContentInv'
<1>1. FileInv(f)
  BY DEF ContentInv
<1>2. OnlyFile(f)
  BY DEF OnlyFile, TypeOK, disk, passVars, RotDone, RotAt, NoRot
<1>3. /\ sidecar'[f] = NoBytes
      /\ lock'[f] = "free"
      /\ rot'[f].pc = "idle" /\ rot'[f].next = NoBytes
      /\ row'[f] = row[f] /\ backing'[f] = backing[f] /\ writer'[f] = writer[f] /\ listed'[f] = listed[f] /\ entry'[f] = entry[f]
      /\ (f \in trash') = (f \in trash)
  BY DEF TypeOK, disk, passVars, RotDone, RotAt, NoRot
<1>4. rot[f].pc \in {"staging", "staged", "cleared"} /\ NoBytes.seal = NoSeal
  BY DEF NoBytes, Plain
<1>5. /\ pass = "rotate" /\ Encrypted(listed[f]) /\ lock[f] = "rotator" /\ ~Writing(f)
      /\ walk.at = {} /\ walk.todo = {} /\ ~walk.loaded
      /\ writer[f].pc \in {"idle", "creating", "created", "trashed"}
  BY <1>1, <1>4, WhileRotating
<1>6. writer[f].pc = "idle" /\ row[f] # NoRow /\ Encrypted(row[f])
  BY <1>1, <1>4, <1>5, RotatedRow
<1>7. RowOf(backing[f]) = row[f]
  BY <1>1, <1>4 DEF FileInv, RotatorInv
<1>11. LockInv(f)'
  BY <1>1, <1>2, <1>3, <1>4, <1>5, <1>6 DEF OnlyFile, FileInv, LockInv, Writing
<1>12. BytesInv(f)'
  BY <1>1, <1>3, <1>4 DEF FileInv, BytesInv
<1>13. WriterInv(f)'
  BY <1>1, <1>2, <1>3, <1>6 DEF OnlyFile, FileInv, WriterInv
<1>14. RotatorInv(f)'
  BY <1>3 DEF RotatorInv
<1>15. WalkInv(f)'
  BY <1>1, <1>2, <1>3, <1>5 DEF OnlyFile, FileInv, WalkInv
<1>16. RowInv(f)'
  BY <1>1, <1>2, <1>3, <1>5, <1>7 DEF OnlyFile, FileInv, RowInv, Repairing
<1>17. EntryInv(f)'
  BY <1>1, <1>2, <1>3, <1>6, EntryFrame DEF OnlyFile, FileInv
<1> QED
  BY <1>2, <1>11, <1>12, <1>13, <1>14, <1>15, <1>16, <1>17, FileStep DEF FileInv

\* A failed rename leaves a sealed sidecar that the row describes.
LEMMA RotRenameFailKeeps ==
    ASSUME Sheltered, TypeOK, ContentInv, NEW f \in Files, RotRenameFail(f)
    PROVE  ContentInv'
<1>1. FileInv(f)
  BY DEF ContentInv
<1>2. OnlyFile(f)
  BY DEF OnlyFile, TypeOK, disk, passVars, RotRenameFail, RotDone, RotAt, NoRot
<1>3. /\ lock'[f] = "free"
      /\ rot'[f].pc = "idle" /\ rot'[f].next = NoBytes
      /\ row'[f] = row[f] /\ backing'[f] = backing[f] /\ sidecar'[f] = sidecar[f] /\ writer'[f] = writer[f] /\ listed'[f] = listed[f] /\ entry'[f] = entry[f]
      /\ (f \in trash') = (f \in trash)
  BY DEF TypeOK, disk, passVars, RotRenameFail, RotDone, RotAt, NoRot
<1>4. rot[f].pc = "committed" /\ NoBytes.seal = NoSeal
  BY DEF RotRenameFail, NoBytes, Plain
<1>5. /\ pass = "rotate" /\ Encrypted(listed[f]) /\ lock[f] = "rotator" /\ ~Writing(f)
      /\ walk.at = {} /\ walk.todo = {} /\ ~walk.loaded
      /\ writer[f].pc \in {"idle", "creating", "created", "trashed"}
  BY <1>1, <1>4, WhileRotating
<1>6. writer[f].pc = "idle" /\ row[f] # NoRow /\ Encrypted(row[f])
  BY <1>1, <1>4, <1>5, RotatedRow
<1>7. RowOf(sidecar[f]) = row[f]
  BY <1>1, <1>4 DEF FileInv, RotatorInv
<1>11. LockInv(f)'
  BY <1>1, <1>2, <1>3, <1>4, <1>5, <1>6 DEF OnlyFile, FileInv, LockInv, Writing
<1>12. BytesInv(f)'
  BY <1>1, <1>3, <1>4 DEF FileInv, BytesInv
<1>13. WriterInv(f)'
  BY <1>1, <1>2, <1>3, <1>6 DEF OnlyFile, FileInv, WriterInv
<1>14. RotatorInv(f)'
  BY <1>3 DEF RotatorInv
<1>15. WalkInv(f)'
  BY <1>1, <1>2, <1>3, <1>5 DEF OnlyFile, FileInv, WalkInv
<1>16. RowInv(f)'
  BY <1>1, <1>2, <1>3, <1>5, <1>6, <1>7 DEF OnlyFile, FileInv, RowInv, Repairing
<1>17. EntryInv(f)'
  BY <1>1, <1>2, <1>3, <1>6, EntryFrame DEF OnlyFile, FileInv
<1> QED
  BY <1>2, <1>11, <1>12, <1>13, <1>14, <1>15, <1>16, <1>17, FileStep DEF FileInv

\* The resealed bytes replace the backing file.
LEMMA RotRenameKeeps ==
    ASSUME Sheltered, TypeOK, ContentInv, NEW f \in Files, RotRename(f)
    PROVE  ContentInv'
<1>1. FileInv(f)
  BY DEF ContentInv
<1>2. OnlyFile(f)
  BY DEF OnlyFile, TypeOK, disk, passVars, RotRename, RotDone, RotAt, NoRot
<1>3. /\ backing'[f] = sidecar[f]
      /\ sidecar'[f] = NoBytes
      /\ entry'[f] = StateOf(rot[f].next)
      /\ lock'[f] = "free"
      /\ rot'[f].pc = "idle" /\ rot'[f].next = NoBytes
      /\ row'[f] = row[f] /\ writer'[f] = writer[f] /\ listed'[f] = listed[f]
      /\ (f \in trash') = (f \in trash)
  BY DEF TypeOK, disk, passVars, RotRename, RotDone, RotAt, NoRot
<1>4. rot[f].pc = "committed" /\ NoBytes.seal = NoSeal
  BY DEF RotRename, NoBytes, Plain
<1>5. /\ pass = "rotate" /\ Encrypted(listed[f]) /\ lock[f] = "rotator" /\ ~Writing(f)
      /\ walk.at = {} /\ walk.todo = {} /\ ~walk.loaded
      /\ writer[f].pc \in {"idle", "creating", "created", "trashed"}
  BY <1>1, <1>4, WhileRotating
<1>6. writer[f].pc = "idle" /\ row[f] # NoRow /\ Encrypted(row[f])
  BY <1>1, <1>4, <1>5, RotatedRow
<1>7. /\ RowOf(sidecar[f]) = row[f] /\ sidecar[f] = rot[f].next
      /\ rot[f].next.seal # NoSeal /\ rot[f].next.val \in Vals
  BY <1>1, <1>4 DEF FileInv, RotatorInv, BytesInv
<1>8. StateOf(rot[f].next).seal = rot[f].next.seal
  BY RowOfBytes
<1>11. LockInv(f)'
  BY <1>1, <1>2, <1>3, <1>4, <1>5, <1>6 DEF OnlyFile, FileInv, LockInv, Writing
<1>12. BytesInv(f)'
  BY <1>1, <1>3, <1>4, <1>7, ContentAssumption DEF FileInv, BytesInv
<1>13. WriterInv(f)'
  BY <1>1, <1>2, <1>3, <1>6 DEF OnlyFile, FileInv, WriterInv
<1>14. RotatorInv(f)'
  BY <1>3 DEF RotatorInv
<1>15. WalkInv(f)'
  BY <1>1, <1>2, <1>3, <1>5 DEF OnlyFile, FileInv, WalkInv
<1>16. RowInv(f)'
  BY <1>1, <1>2, <1>3, <1>5, <1>7 DEF OnlyFile, FileInv, RowInv, Repairing
<1>17. EntryInv(f)'
  BY <1>1, <1>2, <1>3, <1>7, <1>8 DEF OnlyFile, FileInv, EntryInv, Encrypted
<1> QED
  BY <1>2, <1>11, <1>12, <1>13, <1>14, <1>15, <1>16, <1>17, FileStep DEF FileInv

\* A file that moved, or is open, is left for the next pass.
LEMMA RotSkipKeeps ==
    ASSUME Sheltered, TypeOK, ContentInv, NEW f \in Files, RotSkip(f)
    PROVE  ContentInv'
<1>1. FileInv(f)
  BY DEF ContentInv
<1>2. OnlyFile(f)
  BY DEF OnlyFile, TypeOK, disk, passVars, RotSkip, RotDone, RotAt, NoRot
<1>3. /\ lock'[f] = "free"
      /\ rot'[f].pc = "idle" /\ rot'[f].next = NoBytes
      /\ row'[f] = row[f] /\ backing'[f] = backing[f] /\ sidecar'[f] = sidecar[f] /\ writer'[f] = writer[f] /\ listed'[f] = listed[f] /\ entry'[f] = entry[f]
      /\ (f \in trash') = (f \in trash)
  BY DEF TypeOK, disk, passVars, RotSkip, RotDone, RotAt, NoRot
<1>4. /\ rot[f].pc = "listed" /\ lock[f] = "free" /\ NoBytes.seal = NoSeal
  BY DEF RotSkip, NoBytes, Plain
<1>5. /\ pass = "rotate" /\ Encrypted(listed[f]) /\ ~Writing(f)
      /\ walk.at = {} /\ walk.todo = {} /\ ~walk.loaded
  BY <1>1, <1>4, WhileListed
<1>11. LockInv(f)'
  BY <1>1, <1>2, <1>3, <1>4, <1>5 DEF OnlyFile, FileInv, LockInv, Writing
<1>12. BytesInv(f)'
  BY <1>1, <1>2, <1>3, <1>4 DEF OnlyFile, FileInv, BytesInv, Encrypted
<1>13. WriterInv(f)'
  BY <1>1, <1>2, <1>3, <1>4 DEF OnlyFile, FileInv, WriterInv, Exists
<1>14. RotatorInv(f)'
  BY <1>3 DEF RotatorInv
<1>15. WalkInv(f)'
  BY <1>1, <1>2, <1>3, <1>5 DEF OnlyFile, FileInv, WalkInv
<1>16. RowInv(f)'
  BY <1>1, <1>2, <1>3, <1>4 DEF OnlyFile, FileInv, RowInv, Repairing, Encrypted
<1>17. EntryInv(f)'
  BY <1>1, <1>2, <1>3, <1>4 DEF OnlyFile, FileInv, EntryInv, Encrypted
<1> QED
  BY <1>2, <1>11, <1>12, <1>13, <1>14, <1>15, <1>16, <1>17, FileStep DEF FileInv

\* A rotation starts from the settled bytes, which the row describes.
LEMMA RotBeginKeeps ==
    ASSUME Sheltered, TypeOK, ContentInv, NEW f \in Files, RotBegin(f)
    PROVE  ContentInv'
<1>1. FileInv(f)
  BY DEF ContentInv
<1>2. OnlyFile(f)
  BY DEF OnlyFile, TypeOK, disk, passVars, RotBegin, RotAt
<1>3. /\ backing'[f] = Settled(f)
      /\ sidecar'[f] = Torn
      /\ lock'[f] = "rotator"
      /\ rot'[f].pc = "staging" /\ rot'[f].next = Plain(Settled(f).val)
      /\ row'[f] = row[f] /\ writer'[f] = writer[f] /\ listed'[f] = listed[f] /\ entry'[f] = entry[f]
      /\ (f \in trash') = (f \in trash)
  BY DEF TypeOK, disk, passVars, RotBegin, RotAt
<1>4. /\ rot[f].pc = "listed" /\ lock[f] = "free" /\ NoBytes.seal = NoSeal
  BY DEF RotBegin, NoBytes, Plain
<1>5. /\ pass = "rotate" /\ Encrypted(listed[f]) /\ ~Writing(f)
      /\ walk.at = {} /\ walk.todo = {} /\ ~walk.loaded
  BY <1>1, <1>4, WhileListed
<1>6. /\ row[f] = listed[f] /\ Verdict(f, listed[f]) # "unresolved"
  BY DEF RotBegin
<1>7. /\ RowOf(Settled(f)) = row[f] /\ Settled(f).seal # NoSeal /\ Settled(f).val \in Vals
      /\ writer[f].pc = "idle" /\ row[f] # NoRow /\ Encrypted(row[f])
  BY <1>1, <1>4, <1>6, SettledRow
<1>8. Settled(f).val # "garbage"
  BY <1>7, ContentAssumption
<1>9. /\ Torn.seal = NoSeal /\ Plain(Settled(f).val).seal = NoSeal
      /\ Plain(Settled(f).val).val = Settled(f).val
  BY DEF Torn, Plain
<1>11. LockInv(f)'
  BY <1>1, <1>2, <1>3, <1>4, <1>5, <1>7 DEF OnlyFile, FileInv, LockInv, Writing
<1>12. BytesInv(f)'
  BY <1>1, <1>3, <1>7, <1>8, <1>9 DEF FileInv, BytesInv
<1>13. WriterInv(f)'
  BY <1>1, <1>2, <1>3, <1>7 DEF OnlyFile, FileInv, WriterInv
<1>14. RotatorInv(f)'
  BY <1>2, <1>3, <1>6, <1>7, <1>9 DEF OnlyFile, RotatorInv
<1>15. WalkInv(f)'
  BY <1>1, <1>2, <1>3, <1>5 DEF OnlyFile, FileInv, WalkInv
<1>16. RowInv(f)'
  BY <1>1, <1>2, <1>3, <1>5, <1>7 DEF OnlyFile, FileInv, RowInv, Repairing
<1>17. EntryInv(f)'
  BY <1>1, <1>2, <1>3, <1>5 DEF OnlyFile, FileInv, EntryInv
<1> QED
  BY <1>2, <1>11, <1>12, <1>13, <1>14, <1>15, <1>16, <1>17, FileStep DEF FileInv

\* A rotation that cannot open the settled bytes leaves them settled.
LEMMA RotSettles ==
    ASSUME Sheltered, TypeOK, ContentInv, NEW f \in Files,
           rot[f].pc = "listed", lock[f] = "free", row[f] = listed[f],
           Verdict(f, listed[f]) # "unresolved", RotDone(f),
           backing' = [backing EXCEPT ![f] = Settled(f)],
           sidecar' = [sidecar EXCEPT ![f] = NoBytes],
           UNCHANGED <<row, writer, entry, pass, repaired, walk, listed, trash>>
    PROVE  ContentInv'
<1>1. FileInv(f)
  BY DEF ContentInv
<1>2. OnlyFile(f)
  BY DEF OnlyFile, TypeOK, disk, passVars, RotDone, RotAt, NoRot
<1>3. /\ backing'[f] = Settled(f)
      /\ sidecar'[f] = NoBytes
      /\ lock'[f] = "free"
      /\ rot'[f].pc = "idle" /\ rot'[f].next = NoBytes
      /\ row'[f] = row[f] /\ writer'[f] = writer[f] /\ listed'[f] = listed[f] /\ entry'[f] = entry[f]
      /\ (f \in trash') = (f \in trash)
  BY DEF TypeOK, disk, passVars, RotDone, RotAt, NoRot
<1>4. /\ rot[f].pc = "listed" /\ lock[f] = "free" /\ NoBytes.seal = NoSeal
  BY DEF NoBytes, Plain
<1>5. /\ pass = "rotate" /\ Encrypted(listed[f]) /\ ~Writing(f)
      /\ walk.at = {} /\ walk.todo = {} /\ ~walk.loaded
  BY <1>1, <1>4, WhileListed
<1>6. /\ row[f] = listed[f] /\ Verdict(f, listed[f]) # "unresolved"
  OBVIOUS
<1>7. /\ RowOf(Settled(f)) = row[f] /\ Settled(f).seal # NoSeal /\ Settled(f).val \in Vals
      /\ writer[f].pc = "idle" /\ row[f] # NoRow /\ Encrypted(row[f])
  BY <1>1, <1>4, <1>6, SettledRow
<1>8. Settled(f).val # "garbage"
  BY <1>7, ContentAssumption
<1>11. LockInv(f)'
  BY <1>1, <1>2, <1>3, <1>4, <1>5, <1>7 DEF OnlyFile, FileInv, LockInv, Writing
<1>12. BytesInv(f)'
  BY <1>1, <1>3, <1>4, <1>7, <1>8 DEF FileInv, BytesInv
<1>13. WriterInv(f)'
  BY <1>1, <1>2, <1>3, <1>7 DEF OnlyFile, FileInv, WriterInv
<1>14. RotatorInv(f)'
  BY <1>3 DEF RotatorInv
<1>15. WalkInv(f)'
  BY <1>1, <1>2, <1>3, <1>5 DEF OnlyFile, FileInv, WalkInv
<1>16. RowInv(f)'
  BY <1>1, <1>2, <1>3, <1>5, <1>7 DEF OnlyFile, FileInv, RowInv, Repairing
<1>17. EntryInv(f)'
  <2>1. repaired /\ repaired' = repaired /\ pass' = "rotate"
    BY <1>1, <1>2, <1>5 DEF OnlyFile, FileInv, EntryInv
  <2>2. pass' \notin {"startup walk", "repair"}
    BY <2>1
  <2>3. repaired'
    BY <2>1, SMTT(60)
  <2> QED
    BY <2>2, <2>3 DEF EntryInv
<1> QED
  BY <1>2, <1>11, <1>12, <1>13, <1>14, <1>15, <1>16, <1>17, FileStep DEF FileInv

\* A rotation refused before it touched anything.
LEMMA RotLeaves ==
    ASSUME Sheltered, TypeOK, ContentInv, NEW f \in Files,
           rot[f].pc = "listed", lock[f] = "free", RotDone(f),
           UNCHANGED <<row, backing, sidecar, writer, entry, pass, repaired, walk, listed, trash>>
    PROVE  ContentInv'
<1>1. FileInv(f)
  BY DEF ContentInv
<1>2. OnlyFile(f)
  BY DEF OnlyFile, TypeOK, disk, passVars, RotDone, RotAt, NoRot
<1>3. /\ lock'[f] = "free"
      /\ rot'[f].pc = "idle" /\ rot'[f].next = NoBytes
      /\ row'[f] = row[f] /\ backing'[f] = backing[f] /\ sidecar'[f] = sidecar[f] /\ writer'[f] = writer[f] /\ listed'[f] = listed[f] /\ entry'[f] = entry[f]
      /\ (f \in trash') = (f \in trash)
  BY DEF TypeOK, disk, passVars, RotDone, RotAt, NoRot
<1>4. /\ rot[f].pc = "listed" /\ lock[f] = "free" /\ NoBytes.seal = NoSeal
  BY DEF NoBytes, Plain
<1>5. /\ pass = "rotate" /\ Encrypted(listed[f]) /\ ~Writing(f)
      /\ walk.at = {} /\ walk.todo = {} /\ ~walk.loaded
  BY <1>1, <1>4, WhileListed
<1>11. LockInv(f)'
  BY <1>1, <1>2, <1>3, <1>4, <1>5 DEF OnlyFile, FileInv, LockInv, Writing
<1>12. BytesInv(f)'
  BY <1>1, <1>2, <1>3, <1>4 DEF OnlyFile, FileInv, BytesInv, Encrypted
<1>13. WriterInv(f)'
  BY <1>1, <1>2, <1>3, <1>4 DEF OnlyFile, FileInv, WriterInv, Exists
<1>14. RotatorInv(f)'
  BY <1>3 DEF RotatorInv
<1>15. WalkInv(f)'
  BY <1>1, <1>2, <1>3, <1>5 DEF OnlyFile, FileInv, WalkInv
<1>16. RowInv(f)'
  BY <1>1, <1>2, <1>3, <1>4 DEF OnlyFile, FileInv, RowInv, Repairing, Encrypted
<1>17. EntryInv(f)'
  BY <1>1, <1>2, <1>3, EntryFrame DEF OnlyFile, FileInv
<1> QED
  BY <1>2, <1>11, <1>12, <1>13, <1>14, <1>15, <1>16, <1>17, FileStep DEF FileInv

\* The resealed bytes keep the plaintext under an IV of their own.
LEMMA RotStageKeeps ==
    ASSUME Sheltered, TypeOK, ContentInv, NEW f \in Files, RotStage(f)
    PROVE  ContentInv'
<1>1. FileInv(f)
  BY DEF ContentInv
<1>0. PICK s \in FreshSeals(f) :
         LET b == Sealed(rot[f].next.val, s, memKey)
         IN  /\ sidecar' = [sidecar EXCEPT ![f] = b]
             /\ rot' = [rot EXCEPT ![f] = RotAt("staged", b)]
  BY DEF RotStage
<1> DEFINE b == Sealed(rot[f].next.val, s, memKey)
<1>2. OnlyFile(f)
  BY <1>0 DEF OnlyFile, TypeOK, disk, passVars, RotStage, RotAt
<1>3. /\ sidecar'[f] = b
      /\ rot'[f].pc = "staged" /\ rot'[f].next = b
      /\ row'[f] = row[f] /\ backing'[f] = backing[f] /\ lock'[f] = lock[f] /\ writer'[f] = writer[f] /\ listed'[f] = listed[f] /\ entry'[f] = entry[f]
      /\ (f \in trash') = (f \in trash)
  BY <1>0 DEF TypeOK, disk, passVars, RotStage, RotAt
<1>4. rot[f].pc = "staging"
  BY DEF RotStage
<1>5. /\ pass = "rotate" /\ Encrypted(listed[f]) /\ lock[f] = "rotator" /\ ~Writing(f)
      /\ walk.at = {} /\ walk.todo = {} /\ ~walk.loaded
  BY <1>1, <1>4, WhileRotating
<1>6. writer[f].pc = "idle" /\ row[f] # NoRow /\ Encrypted(row[f])
  BY <1>1, <1>4, RotatedRow
<1>7. /\ RowOf(backing[f]) = row[f] /\ rot[f].next.val = backing[f].val
      /\ row[f] = listed[f]
  BY <1>1, <1>4 DEF FileInv, RotatorInv
<1>8. backing[f].val \in Vals
  BY <1>1, <1>6, <1>7, RowOfBytes DEF FileInv, BytesInv, Encrypted
<1>9. b.val = backing[f].val /\ b.seal # NoSeal /\ b.val \in Vals
  BY <1>7, <1>8, ContentAssumption DEF Sealed, FreshSeals
<1> HIDE DEF b
<1>11. LockInv(f)'
  BY <1>1, <1>2, <1>3, <1>4, <1>5, <1>6 DEF OnlyFile, FileInv, LockInv, Writing
<1>12. BytesInv(f)'
  BY <1>1, <1>3, <1>9 DEF FileInv, BytesInv
<1>13. WriterInv(f)'
  BY <1>1, <1>2, <1>3, <1>6 DEF OnlyFile, FileInv, WriterInv
<1>14. RotatorInv(f)'
  BY <1>3, <1>7, <1>9 DEF RotatorInv
<1>15. WalkInv(f)'
  BY <1>1, <1>2, <1>3, <1>5 DEF OnlyFile, FileInv, WalkInv
<1>16. RowInv(f)'
  BY <1>1, <1>2, <1>3, <1>5, <1>7 DEF OnlyFile, FileInv, RowInv, Repairing
<1>17. EntryInv(f)'
  BY <1>1, <1>2, <1>3, <1>6, EntryFrame DEF OnlyFile, FileInv
<1> QED
  BY <1>2, <1>11, <1>12, <1>13, <1>14, <1>15, <1>16, <1>17, FileStep DEF FileInv

\* The file was not opened meanwhile.
LEMMA RotClears ==
    ASSUME Sheltered, TypeOK, ContentInv, NEW f \in Files,
           rot[f].pc = "staged", rot' = [rot EXCEPT ![f] = RotAt("cleared", rot[f].next)],
           UNCHANGED <<row, backing, sidecar, lock, writer, entry, pass, repaired, walk,
                       listed, trash>>
    PROVE  ContentInv'
<1>1. FileInv(f)
  BY DEF ContentInv
<1>2. OnlyFile(f)
  BY DEF OnlyFile, TypeOK, disk, passVars, RotAt
<1>3. /\ rot'[f].pc = "cleared" /\ rot'[f].next = rot[f].next
      /\ row'[f] = row[f] /\ backing'[f] = backing[f] /\ sidecar'[f] = sidecar[f] /\ lock'[f] = lock[f] /\ writer'[f] = writer[f] /\ listed'[f] = listed[f] /\ entry'[f] = entry[f]
      /\ (f \in trash') = (f \in trash)
  BY DEF TypeOK, disk, passVars, RotAt
<1>4. rot[f].pc = "staged" /\ NoBytes.seal = NoSeal
  BY DEF NoBytes, Plain
<1>5. /\ pass = "rotate" /\ Encrypted(listed[f]) /\ lock[f] = "rotator" /\ ~Writing(f)
      /\ walk.at = {} /\ walk.todo = {} /\ ~walk.loaded
      /\ writer[f].pc \in {"idle", "creating", "created", "trashed"}
  BY <1>1, <1>4, WhileRotating
<1>6. writer[f].pc = "idle" /\ row[f] # NoRow /\ Encrypted(row[f])
  BY <1>1, <1>4, <1>5, RotatedRow
<1>11. LockInv(f)'
  BY <1>1, <1>2, <1>3, <1>4, <1>5, <1>6 DEF OnlyFile, FileInv, LockInv, Writing
<1>12. BytesInv(f)'
  BY <1>1, <1>3, <1>4 DEF FileInv, BytesInv
<1>13. WriterInv(f)'
  BY <1>1, <1>2, <1>3, <1>6 DEF OnlyFile, FileInv, WriterInv
<1>14. RotatorInv(f)'
  BY <1>1, <1>3, <1>4 DEF FileInv, RotatorInv
<1>15. WalkInv(f)'
  BY <1>1, <1>2, <1>3, <1>5 DEF OnlyFile, FileInv, WalkInv
<1>16. RowInv(f)'
  BY <1>1, <1>2, <1>3, <1>5, <1>6 DEF OnlyFile, FileInv, RowInv, Repairing
<1>17. EntryInv(f)'
  BY <1>1, <1>2, <1>3, <1>6, EntryFrame DEF OnlyFile, FileInv
<1> QED
  BY <1>2, <1>11, <1>12, <1>13, <1>14, <1>15, <1>16, <1>17, FileStep DEF FileInv

\* The row moves to the resealed bytes.
LEMMA RotMoves ==
    ASSUME Sheltered, TypeOK, ContentInv, NEW f \in Files,
           rot[f].pc = "cleared", row' = [row EXCEPT ![f] = RowOf(rot[f].next)],
           rot' = [rot EXCEPT ![f] = RotAt("committed", rot[f].next)],
           UNCHANGED <<backing, sidecar, lock, writer, entry, pass, repaired, walk, listed,
                       trash>>
    PROVE  ContentInv'
<1>1. FileInv(f)
  BY DEF ContentInv
<1>2. OnlyFile(f)
  BY DEF OnlyFile, TypeOK, disk, passVars, RotAt
<1>3. /\ row'[f] = RowOf(rot[f].next)
      /\ rot'[f].pc = "committed" /\ rot'[f].next = rot[f].next
      /\ backing'[f] = backing[f] /\ sidecar'[f] = sidecar[f] /\ lock'[f] = lock[f] /\ writer'[f] = writer[f] /\ listed'[f] = listed[f] /\ entry'[f] = entry[f]
      /\ (f \in trash') = (f \in trash)
  BY DEF TypeOK, disk, passVars, RotAt
<1>4. rot[f].pc = "cleared" /\ NoBytes.seal = NoSeal
  BY DEF NoBytes, Plain
<1>5. /\ pass = "rotate" /\ Encrypted(listed[f]) /\ lock[f] = "rotator" /\ ~Writing(f)
      /\ walk.at = {} /\ walk.todo = {} /\ ~walk.loaded
      /\ writer[f].pc \in {"idle", "creating", "created", "trashed"}
  BY <1>1, <1>4, WhileRotating
<1>6. writer[f].pc = "idle" /\ row[f] # NoRow /\ Encrypted(row[f])
  BY <1>1, <1>4, <1>5, RotatedRow
<1>7. /\ sidecar[f] = rot[f].next /\ rot[f].next.seal # NoSeal
      /\ rot[f].next.val = backing[f].val /\ RowOf(backing[f]) = row[f]
  BY <1>1, <1>4 DEF FileInv, RotatorInv
<1>8. /\ RowOf(rot[f].next).seal # NoSeal /\ RowOf(rot[f].next) # NoRow
      /\ RowOf(rot[f].next).size = "full"
  BY <1>1, <1>7, RowOfBytes, NoRowIsPlain DEF FileInv, BytesInv
<1>11. LockInv(f)'
  BY <1>1, <1>2, <1>3, <1>4, <1>5, <1>6 DEF OnlyFile, FileInv, LockInv, Writing
<1>12. BytesInv(f)'
  BY <1>1, <1>3, <1>8 DEF FileInv, BytesInv
<1>13. WriterInv(f)'
  BY <1>1, <1>2, <1>3, <1>6 DEF OnlyFile, FileInv, WriterInv
<1>14. RotatorInv(f)'
  BY <1>3, <1>7 DEF RotatorInv
<1>15. WalkInv(f)'
  BY <1>1, <1>2, <1>3, <1>5 DEF OnlyFile, FileInv, WalkInv
<1>16. RowInv(f)'
  BY <1>1, <1>2, <1>3, <1>5, <1>6, <1>7, <1>8 DEF OnlyFile, FileInv, RowInv, Repairing, Encrypted
<1>17. EntryInv(f)'
  BY <1>1, <1>2, <1>3, <1>6, EntryFrame DEF OnlyFile, FileInv
<1> QED
  BY <1>2, <1>11, <1>12, <1>13, <1>14, <1>15, <1>16, <1>17, FileStep DEF FileInv

\* Whatever became of the commit, the row describes one of the two copies.
LEMMA RotCommitInDoubtKeeps ==
    ASSUME Sheltered, TypeOK, ContentInv, NEW f \in Files, RotCommitInDoubt(f)
    PROVE  ContentInv'
<1>1. FileInv(f)
  BY DEF ContentInv
<1>2. OnlyFile(f)
  BY DEF OnlyFile, TypeOK, disk, passVars, RotCommitInDoubt, RotDone, RotAt, NoRot
<1>3. /\ row'[f] = row[f] \/ row'[f] = RowOf(rot[f].next)
      /\ lock'[f] = "free"
      /\ rot'[f].pc = "idle" /\ rot'[f].next = NoBytes
      /\ backing'[f] = backing[f] /\ sidecar'[f] = sidecar[f] /\ writer'[f] = writer[f] /\ listed'[f] = listed[f] /\ entry'[f] = entry[f]
      /\ (f \in trash') = (f \in trash)
  BY DEF TypeOK, disk, passVars, RotCommitInDoubt, RotDone, RotAt, NoRot
<1>4. rot[f].pc = "cleared" /\ NoBytes.seal = NoSeal
  BY DEF RotCommitInDoubt, NoBytes, Plain
<1>5. /\ pass = "rotate" /\ Encrypted(listed[f]) /\ lock[f] = "rotator" /\ ~Writing(f)
      /\ walk.at = {} /\ walk.todo = {} /\ ~walk.loaded
      /\ writer[f].pc \in {"idle", "creating", "created", "trashed"}
  BY <1>1, <1>4, WhileRotating
<1>6. writer[f].pc = "idle" /\ row[f] # NoRow /\ Encrypted(row[f])
  BY <1>1, <1>4, <1>5, RotatedRow
<1>7. /\ sidecar[f] = rot[f].next /\ rot[f].next.seal # NoSeal
      /\ rot[f].next.val = backing[f].val /\ RowOf(backing[f]) = row[f]
  BY <1>1, <1>4 DEF FileInv, RotatorInv
<1>8. /\ RowOf(rot[f].next).seal # NoSeal /\ RowOf(rot[f].next) # NoRow
      /\ RowOf(rot[f].next).size = "full"
  BY <1>1, <1>7, RowOfBytes, NoRowIsPlain DEF FileInv, BytesInv
<1>11. LockInv(f)'
  BY <1>1, <1>2, <1>3, <1>4, <1>5, <1>6 DEF OnlyFile, FileInv, LockInv, Writing
<1>12. BytesInv(f)'
  BY <1>1, <1>3, <1>4, <1>8 DEF FileInv, BytesInv, Encrypted
<1>13. WriterInv(f)'
  BY <1>1, <1>2, <1>3, <1>6 DEF OnlyFile, FileInv, WriterInv
<1>14. RotatorInv(f)'
  BY <1>3 DEF RotatorInv
<1>15. WalkInv(f)'
  BY <1>1, <1>2, <1>3, <1>5 DEF OnlyFile, FileInv, WalkInv
<1>16. RowInv(f)'
  BY <1>1, <1>2, <1>3, <1>5, <1>6, <1>7, <1>8 DEF OnlyFile, FileInv, RowInv, Repairing, Encrypted
<1>17. EntryInv(f)'
  BY <1>1, <1>2, <1>3, <1>6, EntryFrame DEF OnlyFile, FileInv
<1> QED
  BY <1>2, <1>11, <1>12, <1>13, <1>14, <1>15, <1>16, <1>17, FileStep DEF FileInv

\* Opening a working copy touches nothing at rest.
LEMMA OpenCopyKeeps ==
    ASSUME Sheltered, TypeOK, ContentInv, NEW f \in Files, OpenCopy(f)
    PROVE  ContentInv'
<1> SUFFICES ASSUME NEW g \in Files PROVE FileInv(g)'
  BY DEF ContentInv
<1>1. FileInv(g)
  BY DEF ContentInv
<1>2. /\ row'[g] = row[g] /\ backing'[g] = backing[g] /\ sidecar'[g] = sidecar[g] /\ lock'[g] = lock[g] /\ writer'[g] = writer[g] /\ rot'[g] = rot[g] /\ listed'[g] = listed[g] /\ entry'[g] = entry[g]
      /\ pass' = pass /\ repaired' = repaired /\ walk' = walk /\ trash' = trash
  BY DEF TypeOK, disk, passVars, OpenCopy
<1> QED BY <1>1, <1>2, FileFrame

\* Nor does releasing it.
LEMMA ReleaseCopyKeeps ==
    ASSUME Sheltered, TypeOK, ContentInv, NEW f \in Files, ReleaseCopy(f)
    PROVE  ContentInv'
<1> SUFFICES ASSUME NEW g \in Files PROVE FileInv(g)'
  BY DEF ContentInv
<1>1. FileInv(g)
  BY DEF ContentInv
<1>2. /\ row'[g] = row[g] /\ backing'[g] = backing[g] /\ sidecar'[g] = sidecar[g] /\ lock'[g] = lock[g] /\ writer'[g] = writer[g] /\ rot'[g] = rot[g] /\ listed'[g] = listed[g] /\ entry'[g] = entry[g]
      /\ pass' = pass /\ repaired' = repaired /\ walk' = walk /\ trash' = trash
  BY DEF TypeOK, disk, passVars, ReleaseCopy
<1> QED BY <1>1, <1>2, FileFrame
=============================================================================
