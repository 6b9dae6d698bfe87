-------------------------- MODULE FileSyncSafety --------------------------
(***************************************************************************)
(* The argument about FileSync: what is stored and in hand is whole; a     *)
(* baseline that finds both sides unchanged is right; and under `ask` no   *)
(* change is lost undecided.  True for every bound on changes and faults, *)
(* every strategy and policy, with and without encryption.                 *)
(***************************************************************************)
EXTENDS FileSync, TLAPS

\* Zenon is the prover of a leaf that names none.
USE ZenonT(120)

-----------------------------------------------------------------------------
(* A new hash and a new ETag: there always is one. *)

\* A set with too few elements for n + 1 different numbers.
Holds(S, n) ==
    \A f \in [1..(n + 1) -> Nat] :
        (\A i, k \in 1..(n + 1) : f[i] = f[k] => i = k) => \E i \in 1..(n + 1) : f[i] \notin S

\* None at all.
LEMMA NoneHeld == Holds({}, 0)
BY SMTT(60) DEF Holds

\* One more element.
LEMMA OneMore ==
    ASSUME NEW S, NEW n \in Nat, NEW m, m = n + 1, Holds(S, n), NEW a
    PROVE  Holds(S \cup {a}, m)
<1> SUFFICES ASSUME NEW f \in [1..(n + 2) -> Nat],
                    \A i, k \in 1..(n + 2) : f[i] = f[k] => i = k
             PROVE  \E i \in 1..(n + 2) : f[i] \notin S \cup {a}
  BY SMTT(60) DEF Holds
<1>1. PICK j \in 1..(n + 2) : \A i \in 1..(n + 2) : i # j => f[i] # a
  <2>1. CASE \E j \in 1..(n + 2) : f[j] = a
    BY <2>1
  <2>2. CASE ~(\E j \in 1..(n + 2) : f[j] = a)
    <3>1. 1 \in 1..(n + 2)
      BY SMTT(60)
    <3> QED BY <2>2, <3>1
  <2> QED BY <2>1, <2>2
<1> DEFINE g == [i \in 1..(n + 1) |-> IF i = j THEN f[n + 2] ELSE f[i]]
<1>2. g \in [1..(n + 1) -> Nat]
  BY SMTT(60)
<1>3. \A i, k \in 1..(n + 1) : g[i] = g[k] => i = k
  BY SMTT(60)
<1>4. \A i \in 1..(n + 1) : \E k \in 1..(n + 2) : g[i] = f[k] /\ k # j
  BY SMTT(60)
<1> HIDE DEF g
<1>5. PICK i \in 1..(n + 1) : g[i] \notin S
  BY <1>2, <1>3 DEF Holds
<1>6. PICK k \in 1..(n + 2) : g[i] = f[k] /\ k # j
  BY <1>4
<1> QED BY <1>1, <1>5, <1>6

\* Four more elements.
LEMMA FourMore ==
    ASSUME NEW S, NEW n \in Nat, NEW m, m = n + 4, Holds(S, n),
           NEW a, NEW b, NEW c, NEW d
    PROVE  Holds(S \cup {a, b, c, d}, m)
<1> DEFINE T == S \cup {a}
           U == T \cup {b}
           V == U \cup {c}
           W == V \cup {d}
<1>1. /\ {n + 1, n + 2, n + 3} \subseteq Nat
      /\ n + 2 = n + 1 + 1 /\ n + 3 = n + 2 + 1 /\ m = n + 3 + 1
  BY SMTT(60)
<1>2. Holds(T, n + 1)
  BY OneMore
<1>3. Holds(U, n + 2)
  <2> HIDE DEF T
  <2> QED BY <1>1, <1>2, OneMore
<1>4. Holds(V, n + 3)
  <2> HIDE DEF U
  <2> QED BY <1>1, <1>3, OneMore
<1>5. Holds(W, m)
  <2> HIDE DEF V
  <2> QED BY <1>1, <1>4, OneMore
<1>6. W = S \cup {a, b, c, d}
  OBVIOUS
<1> QED BY <1>5, <1>6

\* A set with too few for n + 1 numbers leaves out one of n + 1 numbers.
LEMMA OneIsFree ==
    ASSUME NEW S, NEW n \in Nat, Holds(S, n)
    PROVE  \E h \in 1..(n + 1) : h \notin S
<1> DEFINE f == [i \in 1..(n + 1) |-> i]
<1>1. f \in [1..(n + 1) -> Nat] /\ \A i, k \in 1..(n + 1) : f[i] = f[k] => i = k
  BY SMTT(60)
<1>2. \A i \in 1..(n + 1) : f[i] = i
  OBVIOUS
<1> HIDE DEF f
<1> QED BY <1>1, <1>2 DEF Holds

\* The hashes in use are at most 17, so there is a new one.
LEMMA HashIsFresh == FreshHash \in 1..18 /\ FreshHash \notin Hashes
<1> DEFINE A == {} \cup {local.hash, object.hash, row.hash, base.hash}
           B == A \cup {base.rhash, conflict.local.hash, conflict.remote.hash, pass.L.hash}
           C == B \cup {pass.R.hash, pass.base.hash, pass.base.rhash, pass.open.local.hash}
           D == C \cup {pass.open.remote.hash, resolver.L.hash, resolver.R.hash,
                        resolver.rec.local.hash}
           E == D \cup {resolver.rec.remote.hash}
<1>0. /\ {0, 4, 8, 12, 16} \subseteq Nat
      /\ 4 = 0 + 4 /\ 8 = 4 + 4 /\ 12 = 8 + 4 /\ 16 = 12 + 4
      /\ 17 = 16 + 1 /\ 9 = 8 + 1
  BY SMTT(60)
<1>1. Holds({}, 0)
  BY NoneHeld
<1>2. Holds(A, 4)
  BY <1>0, <1>1, FourMore
<1>3. Holds(B, 8)
  <2> HIDE DEF A
  <2> QED BY <1>0, <1>2, FourMore
<1>4. Holds(C, 12)
  <2> HIDE DEF B
  <2> QED BY <1>0, <1>3, FourMore
<1>5. Holds(D, 16)
  <2> HIDE DEF C
  <2> QED BY <1>0, <1>4, FourMore
<1>6. Holds(E, 17)
  <2> HIDE DEF D
  <2> QED BY <1>0, <1>5, OneMore
<1>7. Hashes = E
  BY DEF Hashes
<1>8. \E h \in 1..18 : h \notin E
  <2> HIDE DEF E
  <2> QED BY <1>6, OneIsFree, SMTT(60)
<1> HIDE DEF E
<1> QED BY <1>7, <1>8 DEF FreshHash

\* The ETags in use are at most 9.
LEMMA ETagIsFresh == FreshETag \in 1..10 /\ FreshETag \notin ETags
<1> DEFINE A == {} \cup {object.etag, row.etag, base.retag, conflict.remote.etag}
           B == A \cup {pass.R.etag, pass.base.retag, pass.open.remote.etag, resolver.R.etag}
           C == B \cup {resolver.rec.remote.etag}
<1>0. /\ {0, 4, 8, 12, 16} \subseteq Nat
      /\ 4 = 0 + 4 /\ 8 = 4 + 4 /\ 12 = 8 + 4 /\ 16 = 12 + 4
      /\ 17 = 16 + 1 /\ 9 = 8 + 1
  BY SMTT(60)
<1>1. Holds({}, 0)
  BY NoneHeld
<1>2. Holds(A, 4)
  BY <1>0, <1>1, FourMore
<1>3. Holds(B, 8)
  <2> HIDE DEF A
  <2> QED BY <1>0, <1>2, FourMore
<1>4. Holds(C, 9)
  <2> HIDE DEF B
  <2> QED BY <1>0, <1>3, OneMore
<1>5. ETags = C
  BY DEF ETags
<1>6. \E e \in 1..10 : e \notin C
  <2> HIDE DEF C
  <2> QED BY <1>4, OneIsFree, SMTT(60)
<1> HIDE DEF C
<1> QED BY <1>5, <1>6 DEF FreshETag

-----------------------------------------------------------------------------
(* Types: what is stored and in hand is whole, whatever the two sides,     *)
(* the passes and the resolutions do.                                      *)

\* The types only grow with the changes.
LEMMA Grows ==
    ASSUME changes \in Nat, changes' \in Nat, changes <= changes'
    PROVE  /\ \A x \in FileType : x \in FileType'
           /\ \A x \in ObjectType : x \in ObjectType'
           /\ \A x \in RowType : x \in RowType'
           /\ \A x \in BaseType : x \in BaseType'
           /\ \A x \in ConflictType : x \in ConflictType'
           /\ \A x \in PassType : x \in PassType'
           /\ \A x \in ResolverType : x \in ResolverType'
<1>0. 0..changes \subseteq 0..changes'
  BY SMTT(60)
<1>1. \A x \in FileType : x \in FileType'
  BY <1>0 DEF FileType
<1>2. \A x \in ObjectType : x \in ObjectType'
  BY <1>0 DEF ObjectType
<1>3. \A x \in RowType : x \in RowType'
  BY <1>0 DEF RowType
<1>4. BaseType' = BaseType
  BY DEF BaseType
<1>5. \A x \in ConflictType : x \in ConflictType'
  BY <1>1, <1>3 DEF ConflictType
<1>6. \A x \in PassType : x \in PassType'
  BY <1>0, <1>1, <1>3, <1>4, <1>5 DEF PassType
<1>7. \A x \in ResolverType : x \in ResolverType'
  BY <1>0, <1>1, <1>3, <1>5 DEF ResolverType
<1> QED BY <1>1, <1>2, <1>3, <1>4, <1>5, <1>6, <1>7

\* The empty records have their types.
LEMMA Empties ==
    ASSUME TypeOK
    PROVE  /\ NoFile \in FileType /\ NoObject \in ObjectType /\ NoRow \in RowType
           /\ NoBase \in BaseType /\ NoConflict \in ConflictType
           /\ NoPass \in PassType /\ NoResolution \in ResolverType
<1>0. 0 \in 0..changes /\ 0 \in 0..18 /\ 0 \in 0..10 /\ 0 \in 0..3
  BY SMTT(60) DEF TypeOK
<1>1. NoFile \in FileType /\ NoRow \in RowType /\ NoBase \in BaseType /\ NoObject \in ObjectType
  BY <1>0 DEF NoFile, NoRow, NoBase, NoObject, FileType, RowType, BaseType, ObjectType, None
<1>2. NoConflict \in ConflictType
  BY <1>0, <1>1 DEF NoConflict, ConflictType, None
<1>3. NoPass \in PassType
  BY <1>0, <1>1, <1>2 DEF NoPass, PassType, None, Acts
<1>4. NoResolution \in ResolverType
  BY <1>0, <1>1, <1>2 DEF NoResolution, ResolverType, None
<1> QED BY <1>1, <1>2, <1>3, <1>4

\* The rest of TypeOK.
LEMMA Rest ==
    ASSUME TypeOK
    PROVE  /\ noticed \in {"none", "changed", "removed"} /\ event \in {"none", "own", "external"}
           /\ changes \in Nat /\ faults \in Nat /\ changes + faults <= MaxEvents
           /\ changes <= changes
           /\ local = NoFile => base = NoBase /\ conflict = NoConflict
BY SMTT(60) DEF TypeOK

\* What a step has to show for TypeOK: what changed has its type.
LEMMA TypeStep ==
    ASSUME TypeOK, UNCHANGED config,
           changes' \in Nat, changes <= changes', faults' \in Nat,
           changes' + faults' <= MaxEvents,
           local' = local \/ local' \in FileType',
           object' = object \/ object' \in ObjectType',
           row' = row \/ row' \in RowType',
           event' \in {"none", "own", "external"},
           noticed' \in {"none", "changed", "removed"},
           base' = base \/ base' \in BaseType',
           conflict' = conflict \/ conflict' \in ConflictType',
           pass' = pass \/ pass' \in PassType',
           resolver' = resolver \/ resolver' \in ResolverType',
           local' = NoFile => base' = NoBase /\ conflict' = NoConflict,
           \A v \in known' : v \in known \/ v \in 1..changes'
    PROVE  TypeOK'
<1>1. /\ local' \in FileType' /\ object' \in ObjectType' /\ row' \in RowType'
      /\ base' \in BaseType' /\ conflict' \in ConflictType'
      /\ pass' \in PassType' /\ resolver' \in ResolverType'
  BY Grows DEF TypeOK
<1>2. known' \subseteq 1..changes'
  <2>1. known \subseteq 1..changes /\ changes \in Nat
    BY DEF TypeOK
  <2>2. 1..changes \subseteq 1..changes'
    BY <2>1, SMTT(60)
  <2> QED BY <2>1, <2>2
<1>3. strategy' \in Strategies /\ policy' \in Policies
  BY DEF TypeOK, config
<1> QED BY <1>1, <1>2, <1>3 DEF TypeOK

\* What a step leaves alone stays whole.
LEMMA FrameStored ==
    ASSUME WholeInv, UNCHANGED <<local, row, conflict, object>>
    PROVE  StoredWhole'
BY DEF WholeInv, StoredWhole, Solid, Named, Entire
\* The same for the pass.
LEMMA FramePass ==
    ASSUME WholeInv, UNCHANGED pass
    PROVE  PassWhole'
BY DEF WholeInv, PassWhole, Solid, Named
\* And for the resolution.
LEMMA FrameResolver ==
    ASSUME WholeInv, UNCHANGED resolver
    PROVE  ResolverWhole'
BY DEF WholeInv, ResolverWhole, Solid, Named

\* A pass or a resolution that is over has nothing in hand.
LEMMA OverWhole ==
    /\ pass' = NoPass => PassWhole'
    /\ resolver' = NoResolution => ResolverWhole'
BY SMTT(60) DEF PassWhole, ResolverWhole, NoPass, NoResolution, Solid, Named

\* The fields of the records in use.
LEMMA Fields ==
    ASSUME TypeOK
    PROVE  /\ local.val \in 0..changes /\ local.hash \in 0..18 /\ local.size \in Nat
           /\ local.bytes \in BOOLEAN
           /\ object.val \in 0..changes /\ object.etag \in 0..10 /\ object.hash \in 0..18
           /\ object.size \in Nat /\ object.ok \in BOOLEAN
           /\ row.val \in 0..changes /\ row.hash \in 0..18 /\ row.etag \in 0..10
           /\ row.size \in Nat
           /\ conflict.id \in 0..3 /\ conflict.local \in FileType
           /\ conflict.remote \in RowType
           /\ pass.L \in FileType /\ pass.R \in RowType /\ pass.base \in BaseType
           /\ pass.open \in ConflictType /\ pass.got \in 0..changes
           /\ resolver.L \in FileType /\ resolver.R \in RowType
           /\ resolver.rec \in ConflictType /\ resolver.got \in 0..changes
           /\ changes \in Nat /\ faults \in Nat /\ changes + faults <= MaxEvents
<1>1. /\ local.val \in 0..changes /\ local.hash \in 0..18 /\ local.size \in Nat
      /\ local.bytes \in BOOLEAN
  BY DEF TypeOK, FileType
<1>2. /\ object.val \in 0..changes /\ object.etag \in 0..10 /\ object.hash \in 0..18
      /\ object.size \in Nat /\ object.ok \in BOOLEAN
  BY DEF TypeOK, ObjectType
<1>3. /\ row.val \in 0..changes /\ row.hash \in 0..18 /\ row.etag \in 0..10
      /\ row.size \in Nat
  BY DEF TypeOK, RowType
<1>4. /\ conflict.id \in 0..3 /\ conflict.local \in FileType /\ conflict.remote \in RowType
  BY DEF TypeOK, ConflictType
<1>5. /\ pass.L \in FileType /\ pass.R \in RowType /\ pass.base \in BaseType
      /\ pass.open \in ConflictType /\ pass.got \in 0..changes
  BY DEF TypeOK, PassType
<1>6. /\ resolver.L \in FileType /\ resolver.R \in RowType
      /\ resolver.rec \in ConflictType /\ resolver.got \in 0..changes
  BY DEF TypeOK, ResolverType
<1>7. changes \in Nat /\ faults \in Nat /\ changes + faults <= MaxEvents
  BY DEF TypeOK
<1> QED BY <1>1, <1>2, <1>3, <1>4, <1>5, <1>6, <1>7

\* The size of a content is a number.
LEMMA SizeIsNat == \A v \in Nat : Plain(v) \in Nat /\ Sealed(v) \in Nat
BY FileSyncAssumption, SMTT(60) DEF Plain, Sealed, None

\* A change or a fault stays within the bound.
LEMMA RoomFor ==
    ASSUME TypeOK, Room
    PROVE  /\ changes + 1 \in Nat /\ changes + 1 + faults <= MaxEvents
           /\ faults + 1 \in Nat /\ changes + (faults + 1) <= MaxEvents
BY FileSyncAssumption, SMTT(60) DEF TypeOK, Room

-----------------------------------------------------------------------------
(* One lemma per action.                                                   *)

\* WriteLocal: a new content with a new hash.
LEMMA TypedWriteLocal ==
    ASSUME TypeOK, WholeInv, WriteLocal
    PROVE  TypeOK' /\ WholeInv'
<1>1. /\ UNCHANGED <<config, object, event, row, noticed, base, conflict, pass, resolver, known>>
      /\ UNCHANGED faults /\ changes' = changes + 1
      /\ local' = [val |-> changes + 1, hash |-> FreshHash, size |-> Plain(changes + 1),
                   bytes |-> TRUE]
      /\ changes \in Nat /\ changes + 1 \in Nat /\ changes + 1 + faults <= MaxEvents
  BY RoomFor DEF WriteLocal, bucket, index, TypeOK
<1>2. local' \in FileType' /\ local'.val # None /\ local'.hash # None
  BY <1>1, SizeIsNat, HashIsFresh, SMTT(60) DEF FileType, None
<1>3. TypeOK'
  <2>1. local' # NoFile
    BY <1>2, SMTT(60) DEF NoFile
  <2> QED BY <1>1, <1>2, <2>1, Rest, TypeStep, SMTT(60)
<1>4. StoredWhole'
  BY <1>1, <1>2 DEF WholeInv, StoredWhole, Solid, Named, Entire
<1> QED BY <1>1, <1>3, <1>4, FramePass, FrameResolver DEF WholeInv

\* WriteBucket, DeleteBucket: a new object, or none.
LEMMA TypedBucket ==
    ASSUME TypeOK, WholeInv, WriteBucket \/ DeleteBucket
    PROVE  TypeOK' /\ WholeInv'
<1>1. /\ UNCHANGED <<config, local, row, noticed, base, conflict, pass, resolver, known>>
      /\ UNCHANGED faults /\ changes' = changes + 1 /\ event' = "external"
      /\ \/ object' = [val |-> changes + 1, etag |-> FreshETag, hash |-> None,
                       size |-> Plain(changes + 1), ok |-> TRUE]
         \/ object' = NoObject
      /\ changes \in Nat /\ changes + 1 \in Nat /\ changes + 1 + faults <= MaxEvents
  BY RoomFor DEF WriteBucket, DeleteBucket, index, TypeOK
<1>2. /\ object' \in ObjectType'
      /\ object' # NoObject => object'.val # None /\ object'.etag # None
  <2>1. CASE object' = NoObject
    BY <1>1, <2>1, Empties, Rest, Grows, SMTT(60)
  <2>2. CASE object' # NoObject
    <3>1. /\ FreshETag \in 0..10 /\ FreshETag # 0 /\ Plain(changes + 1) \in Nat
          /\ changes + 1 \in 0..changes' /\ changes + 1 # 0 /\ 0 \in 0..18
      BY <1>1, SizeIsNat, ETagIsFresh, SMTT(60)
    <3>2. object' = [val |-> changes + 1, etag |-> FreshETag, hash |-> 0,
                     size |-> Plain(changes + 1), ok |-> TRUE]
      BY <1>1, <2>2 DEF None
    <3> QED BY <3>1, <3>2 DEF ObjectType, None
  <2> QED BY <2>1, <2>2
<1>3. TypeOK'
  BY <1>1, <1>2, Rest, TypeStep, SMTT(60)
<1>4. StoredWhole'
  BY <1>1, <1>2 DEF WholeInv, StoredWhole, Solid, Named, Entire
<1> QED BY <1>1, <1>3, <1>4, FramePass, FrameResolver DEF WholeInv

\* The row of an object that an event or a listing shows.
LEMMA ListedIs ==
    ASSUME TypeOK, WholeInv
    PROVE  Listed \in RowType /\ Named(Listed)
<1>1. Listed \in RowType
  BY Fields, SMTT(60) DEF Listed, RowType, None
<1>2. object = NoObject => Listed = NoRow
  BY SMTT(60) DEF Listed, NoObject, NoRow
<1>3. object # NoObject => Listed.val # None
  BY DEF Listed, WholeInv, StoredWhole
<1> QED BY <1>1, <1>2, <1>3 DEF Named

\* ApplyEvents: the row gets an ETag, goes, or is the object's.
LEMMA TypedApplyEvents ==
    ASSUME TypeOK, WholeInv, ApplyEvents
    PROVE  TypeOK' /\ WholeInv'
<1>1. /\ UNCHANGED <<config, local, object, base, conflict, pass, resolver, known, changes, faults>>
      /\ event' = "none"
      /\ \/ row' = row \/ (row' = [row EXCEPT !.etag = object.etag] /\ row # NoRow)
         \/ row' = NoRow \/ row' = Listed
      /\ noticed' \in {noticed, "changed", "removed"}
  BY DEF ApplyEvents
<1>2. row' \in RowType /\ Named(row')
  <2>1. row \in RowType /\ Named(row) /\ object.etag \in 0..10 /\ NoRow \in RowType
    BY Fields, Empties DEF TypeOK, WholeInv, StoredWhole
  <2>2. CASE row' = row \/ row' = NoRow \/ row' = Listed
    BY <2>1, <2>2, ListedIs DEF Named
  <2>3. CASE row' = [row EXCEPT !.etag = object.etag] /\ row # NoRow
    BY <2>1, <2>3 DEF RowType, Named
  <2> QED BY <1>1, <2>2, <2>3
<1>3. TypeOK'
  <2>1. row' \in RowType'
    BY <1>1, <1>2 DEF RowType
  <2> QED BY <1>1, <2>1, Rest, TypeStep
<1>4. StoredWhole'
  BY <1>1, <1>2 DEF WholeInv, StoredWhole, Solid, Named, Entire
<1> QED BY <1>1, <1>3, <1>4, FramePass, FrameResolver DEF WholeInv

\* BeginPass: the pass has the row as it is now.
LEMMA TypedBeginPass ==
    ASSUME TypeOK, WholeInv, NEW kind \in Kinds, BeginPass(kind)
    PROVE  TypeOK' /\ WholeInv'
<1>1. /\ UNCHANGED <<config, local, object, event, noticed, base, conflict, resolver, known, changes, faults>>
      /\ row' = row \/ row' = Listed
      /\ pass' = [NoPass EXCEPT !.pc = "loading", !.kind = kind, !.R = row']
      /\ kind \in {"regular", "scoped", "listing"}
  BY DEF BeginPass, bucket, Kinds
<1>2. row' \in RowType /\ Named(row')
  BY <1>1, ListedIs DEF TypeOK, WholeInv, StoredWhole
<1>3. pass' \in PassType /\ PassWhole'
  <2>1. pass' \in PassType
    BY <1>1, <1>2, Empties DEF PassType
  <2>2. pass'.pc = "loading" /\ pass'.L = NoFile /\ pass'.R = row'
    BY <1>1 DEF NoPass
  <2> QED BY <1>2, <2>1, <2>2 DEF PassWhole, Solid, Named
<1>4. TypeOK'
  <2>1. row' \in RowType' /\ pass' \in PassType'
    BY <1>1, <1>2, <1>3, Rest, Grows
  <2> QED BY <1>1, <2>1, Rest, TypeStep
<1>5. StoredWhole'
  BY <1>1, <1>2 DEF WholeInv, StoredWhole, Solid, Named, Entire
<1> QED BY <1>1, <1>3, <1>4, <1>5, FrameResolver DEF WholeInv

\* loadConflictState: what is stored, read in three steps.
LEMMA TypedLoad ==
    ASSUME TypeOK, WholeInv, loadConflictState
    PROVE  TypeOK' /\ WholeInv'
<1>1. /\ UNCHANGED <<config, local, object, event, row, noticed, base, conflict, resolver, known, changes, faults>>
      /\ \/ pass' = [pass EXCEPT !.pc = "baselines", !.L = local]
         \/ pass' = [pass EXCEPT !.pc = "conflicts", !.base = base]
         \/ pass' = [pass EXCEPT !.pc = "plan", !.open = conflict]
  BY DEF loadConflictState, bucket, index
<1>2. pass' \in PassType /\ PassWhole'
  <2>1. pass \in PassType /\ local \in FileType /\ base \in BaseType /\ conflict \in ConflictType
    BY DEF TypeOK
  <2>2. pass' \in PassType
    BY <1>1, <2>1 DEF PassType
  <2>3. /\ pass'.pc \in {"baselines", "conflicts", "plan"}
        /\ pass'.L \in {pass.L, local} /\ pass'.R = pass.R
    BY <1>1, <2>1 DEF PassType
  <2> QED BY <2>2, <2>3 DEF PassWhole, WholeInv, StoredWhole, Solid, Named
<1>3. TypeOK'
  <2>1. pass' \in PassType'
    BY <1>1, <1>2, Rest, Grows
  <2> QED BY <1>1, <2>1, Rest, TypeStep
<1> QED BY <1>1, <1>2, <1>3, FrameStored, FrameResolver DEF WholeInv

\* What the plan for a conflict may be.
LEMMA ConflictPlanIs ==
    ASSUME TypeOK, NEW L, NEW R, NEW changed, NEW d \in ConflictPlans(L, R, changed)
    PROVE  \/ \E a \in {"none", "upload", "download"} : d = Decision(a)
           \/ \E b \in BOOLEAN : d = [Decision("none") EXCEPT !.open = b]
           \/ \E b \in BOOLEAN, how \in {"upload", "download"} : d = [Decision(how) EXCEPT !.close = b]
<1>1. resolve_conflict \subseteq {"ask", "upload", "download"}
  BY FileSyncAssumption DEF resolve_conflict, TypeOK
<1> QED BY <1>1 DEF ConflictPlans

\* What the plan may be: a transfer has what it transfers.
LEMMA PlanIs ==
    ASSUME TypeOK, NEW d \in build(pass.L, pass.R)
    PROVE  /\ d.act \in Acts /\ d.base \in BaseType
           /\ d.close \in BOOLEAN /\ d.open \in BOOLEAN
           /\ d.act = "upload" => pass.L # NoFile
           /\ d.act = "download" => pass.R # NoRow
           /\ d.act = "index_only" => pass.L = NoFile /\ pass.R # NoRow
           /\ d.act = "delete_local" => pass.R = NoRow
           /\ d.open => pass.L # NoFile /\ pass.R # NoRow
<1>0. NoBase \in BaseType
  BY Empties
<1>1. CASE pass.L = NoFile /\ pass.R = NoRow
  <2>1. d = Decision("none")
    BY <1>1 DEF build
  <2> QED BY <1>0, <2>1 DEF Decision, Acts
<1>2. CASE pass.L # NoFile /\ pass.R = NoRow
  <2>1. d = LocalOnlyPlan(pass.L)
    BY <1>2 DEF build
  <2> QED BY <1>0, <1>2, <2>1 DEF LocalOnlyPlan, Decision, Acts
<1>3. CASE pass.L = NoFile /\ pass.R # NoRow
  <2>1. d = RemoteOnlyPlan
    BY <1>3 DEF build
  <2> QED BY <1>0, <1>3, <2>1 DEF RemoteOnlyPlan, Decision, Acts
<1>4. CASE pass.L # NoFile /\ pass.R # NoRow
  <2>1. d \in BothPlans(pass.L, pass.R)
    BY <1>4 DEF build
  <2>2. agreed(pass.L, pass.R) \in BaseType
    BY Fields DEF agreed, FileType, RowType, BaseType
  <2>3. CASE d = Decision("download")
    BY <1>0, <1>4, <2>3 DEF Decision, Acts
  <2>4. CASE d \in ConflictPlans(pass.L, pass.R, pass.kind = "scoped" /\ noticed = "changed")
    <3>1. \/ \E a \in {"none", "upload", "download"} : d = Decision(a)
          \/ \E b \in BOOLEAN : d = [Decision("none") EXCEPT !.open = b]
          \/ \E b \in BOOLEAN, how \in {"upload", "download"} : d = [Decision(how) EXCEPT !.close = b]
      BY <2>4, ConflictPlanIs, SMTT(60)
    <3>2. CASE \E a \in {"none", "upload", "download"} : d = Decision(a)
      BY <1>0, <1>4, <3>2, SMTT(60) DEF Decision, Acts
    <3>3. CASE \E b \in BOOLEAN : d = [Decision("none") EXCEPT !.open = b]
      BY <1>0, <1>4, <3>3 DEF Decision, Acts
    <3>4. CASE \E b \in BOOLEAN, how \in {"upload", "download"} :
                 d = [Decision(how) EXCEPT !.close = b]
      BY <1>0, <1>4, <3>4 DEF Decision, Acts
    <3> QED BY <3>1, <3>2, <3>3, <3>4
  <2>5. CASE \E a \in decideForBoth(pass.L, pass.R), b \in BOOLEAN :
               \/ d = [Decision(a) EXCEPT !.base = NoBase, !.close = b]
               \/ d = [Decision(a) EXCEPT !.base = agreed(pass.L, pass.R), !.close = b]
    <3>1. decideForBoth(pass.L, pass.R) \subseteq {"none", "upload", "download"}
      BY FileSyncAssumption DEF decideForBoth, TypeOK
    <3> QED BY <1>0, <1>4, <2>2, <2>5, <3>1 DEF Decision, Acts
  <2> QED BY <2>1, <2>3, <2>4, <2>5 DEF BothPlans
<1> QED BY <1>1, <1>2, <1>3, <1>4

\* planPass: the plan, and a whole conflict when it records one.
LEMMA TypedPlan ==
    ASSUME TypeOK, WholeInv, planPass
    PROVE  TypeOK' /\ WholeInv'
<1>1. PICK d \in build(pass.L, pass.R) :
         /\ pass' = [pass EXCEPT !.pc = "run", !.act = d.act]
         /\ base' = IF d.base # NoBase /\ local # NoFile THEN d.base ELSE base
         /\ conflict' =
               IF d.close THEN NoConflict
               ELSE IF d.open /\ local # NoFile
               THEN [id |-> IF conflict # NoConflict THEN conflict.id
                            ELSE CHOOSE n \in 1..3 : n \notin {resolver.rec.id, pass.open.id},
                     local |-> pass.L, remote |-> pass.R]
               ELSE conflict
  BY DEF planPass
<1>2. UNCHANGED <<config, local, object, event, row, noticed, resolver, known, changes, faults>>
  BY DEF planPass, bucket, index
<1>3. pass' \in PassType /\ PassWhole'
  <2>1. pass \in PassType /\ d.act \in Acts
    BY PlanIs DEF TypeOK
  <2>2. /\ pass' \in PassType /\ pass'.pc = "run" /\ pass'.act = d.act
        /\ pass'.L = pass.L /\ pass'.R = pass.R
    BY <1>1, <2>1 DEF PassType
  <2> QED BY <2>2, PlanIs DEF PassWhole, WholeInv, Solid, Named
<1>4. base' \in BaseType
  BY <1>1, PlanIs DEF TypeOK
<1>5. /\ conflict' \in ConflictType /\ Entire(conflict') /\ Solid(conflict'.local)
      /\ Named(conflict'.remote)
  <2>1. CASE conflict' = NoConflict
    BY <2>1, Empties DEF Entire, NoConflict, Solid, Named
  <2>2. CASE conflict' = conflict
    BY <2>2 DEF TypeOK, WholeInv, StoredWhole
  <2>3. CASE d.open /\ \E i \in 0..3 : conflict' = [id |-> i, local |-> pass.L, remote |-> pass.R]
    <3>1. /\ pass.L \in FileType /\ pass.R \in RowType /\ Solid(pass.L) /\ Named(pass.R)
          /\ pass.L # NoFile /\ pass.R # NoRow
      BY <2>3, Fields, PlanIs DEF WholeInv, PassWhole
    <3>2. conflict' \in ConflictType /\ conflict'.local = pass.L /\ conflict'.remote = pass.R
      BY <2>3, <3>1, SMTT(60) DEF ConflictType
    <3> QED BY <3>1, <3>2 DEF Entire
  <2>4. /\ conflict.id \in 0..3
        /\ (CHOOSE n \in 1..3 : n \notin {resolver.rec.id, pass.open.id}) \in 0..3
    <3>1. \E n \in 1..3 : n \notin {resolver.rec.id, pass.open.id}
      <4>1. 1 \in 1..3 /\ 2 \in 1..3 /\ 3 \in 1..3
        BY SMTT(60)
      <4> QED BY <4>1, SMTT(60)
    <3> QED BY <3>1, Fields, SMTT(60)
  <2> QED BY <1>1, <2>1, <2>2, <2>3, <2>4
<1>6. TypeOK'
  <2>1. pass' \in PassType' /\ base' \in BaseType' /\ conflict' \in ConflictType'
    BY <1>2, <1>3, <1>4, <1>5, Rest, Grows
  <2>2. local = NoFile => base' = NoBase /\ conflict' = NoConflict
    BY <1>1, Rest
  <2> QED BY <1>2, <2>1, <2>2, Rest, TypeStep
<1>7. StoredWhole'
  BY <1>2, <1>5 DEF WholeInv, StoredWhole, Solid, Named
<1> QED BY <1>2, <1>3, <1>6, <1>7, FrameResolver DEF WholeInv

\* The steps that only end a pass or a resolution.
LEMMA TypedOver ==
    ASSUME TypeOK, WholeInv,
           NothingToDo \/ PassFails \/ TransferFails \/ ResolveRefused \/ ResolveFails \/ Crash
    PROVE  TypeOK' /\ WholeInv'
<1>1. /\ UNCHANGED <<config, local, object, event, row, base, conflict, known, changes>>
      /\ noticed' \in {noticed, "none"}
      /\ pass' \in {pass, NoPass} /\ resolver' \in {resolver, NoResolution}
      /\ faults' = faults \/ (Room /\ faults' = faults + 1)
  <2>1. CASE NothingToDo
    BY <2>1 DEF NothingToDo, EndPass, bucket
  <2>2. CASE PassFails
    BY <2>2 DEF PassFails, EndPass, Fault, bucket
  <2>3. CASE TransferFails
    BY <2>3 DEF TransferFails, EndPass, bucket
  <2>4. CASE ResolveRefused
    BY <2>4 DEF ResolveRefused, bucket, index
  <2>5. CASE ResolveFails
    BY <2>5 DEF ResolveFails, Fault, bucket, index
  <2>6. CASE Crash
    BY <2>6 DEF Crash, Fault, bucket, index
  <2> QED BY <2>1, <2>2, <2>3, <2>4, <2>5, <2>6
<1>2. TypeOK'
  <2>1. faults' \in Nat /\ changes' + faults' <= MaxEvents
    BY <1>1, Rest, RoomFor
  <2>2. (pass' = pass \/ pass' \in PassType') /\ (resolver' = resolver \/ resolver' \in ResolverType')
    BY <1>1, Empties, Rest, Grows
  <2> QED BY <1>1, <2>1, <2>2, Rest, TypeStep
<1>3. PassWhole' /\ ResolverWhole'
  BY <1>1, OverWhole, FramePass, FrameResolver
<1> QED BY <1>1, <1>2, <1>3, FrameStored DEF WholeInv

\* The object an upload leaves, and the row it gets.
LEMMA SentIs ==
    ASSUME TypeOK, NEW L \in FileType
    PROVE  /\ Sent(L) \in ObjectType /\ Sent(L).val = local.val /\ Sent(L).etag = FreshETag
           /\ Sent(L).etag # None /\ Sent(L).hash = L.hash
           /\ RowOf(L) \in RowType /\ RowOf(L).val = L.val
           /\ afterUpload(L) \in BaseType
<1>1. /\ FreshETag \in 0..10 /\ FreshETag # 0 /\ Sealed(local.val) \in Nat
      /\ (local.hash = L.hash) \in BOOLEAN
  BY ETagIsFresh, SizeIsNat, Fields, SMTT(60)
<1>2. L.val \in 0..changes /\ L.hash \in 0..18 /\ L.size \in Nat
  BY DEF FileType
<1>3. Sent(L) \in ObjectType
  BY <1>1, <1>2, Fields DEF Sent, ObjectType
<1>4. /\ Sent(L).val = local.val /\ Sent(L).etag = FreshETag /\ Sent(L).hash = L.hash
      /\ FreshETag # None
  BY <1>1 DEF Sent, None
<1>5. RowOf(L) \in RowType /\ RowOf(L).val = L.val
  BY <1>2, SMTT(60) DEF RowOf, RowType, None
<1>6. afterUpload(L) \in BaseType
  BY <1>2, SMTT(60) DEF afterUpload, BaseType, None
<1> QED BY <1>3, <1>4, <1>5, <1>6

\* The file a download leaves.
LEMMA StoredIs ==
    ASSUME TypeOK, NEW v \in 1..changes
    PROVE  /\ Stored(v) \in FileType /\ Solid(Stored(v)) /\ Stored(v) # NoFile
           /\ Stored(v).val = v /\ Stored(v).hash = FreshHash
<1>1. /\ FreshHash \in 0..18 /\ FreshHash # 0 /\ Plain(v) \in Nat /\ v # 0
      /\ v \in 0..changes /\ changes \in Nat
  BY HashIsFresh, SizeIsNat, Rest, SMTT(60)
<1> QED BY <1>1 DEF Stored, FileType, Solid, NoFile, None

\* Upload: the object is the file's content.
LEMMA TypedUpload ==
    ASSUME TypeOK, WholeInv, Upload
    PROVE  TypeOK' /\ WholeInv'
<1>1. /\ UNCHANGED <<config, local, row, noticed, conflict, resolver, changes>>
      /\ object' = Sent(pass.L) /\ event' = "own" /\ known' = known \cup {local.val}
      /\ pass' = [pass EXCEPT !.pc = "index"] /\ pass.pc = "run" /\ pass.act = "upload"
      /\ local.bytes
      /\ base' = afterUpload(pass.L) \/ base' = base
      /\ faults' = faults \/ (Room /\ faults' = faults + 1)
  BY DEF Upload, Doing, CanSend, Fault, index
<1>2. pass.L \in FileType /\ pass \in PassType
  BY Fields DEF TypeOK
<1>3. local # NoFile /\ local.val # None
  BY <1>1, SMTT(60) DEF NoFile, WholeInv, StoredWhole, Solid
<1>4. /\ pass' \in PassType /\ pass'.pc = "index" /\ pass'.L = pass.L /\ pass'.R = pass.R
      /\ pass'.act = "upload"
  BY <1>1, <1>2 DEF PassType
<1>5. TypeOK'
  <2>1. faults' \in Nat /\ changes' + faults' <= MaxEvents
    BY <1>1, Rest, RoomFor
  <2>2. /\ pass' \in PassType' /\ object' \in ObjectType'
        /\ base' = base \/ base' \in BaseType'
    BY <1>1, <1>2, <1>4, SentIs, Rest, Grows
  <2>3. \A v \in known' : v \in known \/ v \in 1..changes'
    BY <1>1, <1>3, Fields, SMTT(60) DEF None
  <2> QED BY <1>1, <1>3, <2>1, <2>2, <2>3, Rest, TypeStep
<1>6. StoredWhole'
  <2>1. object'.val # None /\ object'.etag # None
    BY <1>1, <1>2, <1>3, SentIs
  <2> QED BY <1>1, <2>1 DEF WholeInv, StoredWhole, Solid, Named, Entire
<1>7. PassWhole'
  BY <1>1, <1>4 DEF WholeInv, PassWhole, Solid, Named
<1> QED BY <1>1, <1>5, <1>6, <1>7, FrameResolver DEF WholeInv

\* applyRemoteIndexMutation: the row of the upload, or none.
LEMMA TypedIndex ==
    ASSUME TypeOK, WholeInv, applyRemoteIndexMutation
    PROVE  TypeOK' /\ WholeInv'
<1>1. /\ UNCHANGED <<config, local, object, event, base, conflict, resolver, known, changes, faults>>
      /\ (row' = RowOf(pass.L) /\ pass.L # NoFile) \/ row' = NoRow
      /\ pass' = NoPass /\ noticed' \in {noticed, "none"}
  BY DEF applyRemoteIndexMutation, EndPass, bucket, WholeInv, PassWhole
<1>2. row' \in RowType /\ Named(row')
  <2>1. CASE row' = NoRow
    BY <2>1, Empties DEF Named
  <2>2. CASE row' = RowOf(pass.L) /\ pass.L # NoFile
    <3>1. pass.L.val # None
      BY <2>2 DEF WholeInv, PassWhole, Solid
    <3> QED BY <2>2, <3>1, Fields, SentIs DEF Named
  <2> QED BY <1>1, <2>1, <2>2
<1>3. TypeOK'
  <2>1. row' \in RowType' /\ pass' \in PassType'
    BY <1>1, <1>2, Empties, Rest, Grows
  <2> QED BY <1>1, <2>1, Rest, TypeStep
<1>4. StoredWhole'
  BY <1>1, <1>2 DEF WholeInv, StoredWhole, Solid, Named, Entire
<1> QED BY <1>1, <1>3, <1>4, OverWhole, FrameResolver DEF WholeInv

\* DownloadGet: the object has a content.
LEMMA TypedGet ==
    ASSUME TypeOK, WholeInv, DownloadGet
    PROVE  TypeOK' /\ WholeInv'
<1>1. /\ UNCHANGED <<config, local, object, event, row, noticed, base, conflict, resolver, known, changes, faults>>
      /\ pass' = [pass EXCEPT !.pc = "store", !.got = object.val]
      /\ pass.pc = "run" /\ pass.act = "download" /\ object # NoObject
  BY DEF DownloadGet, Doing, bucket, index
<1>2. pass \in PassType /\ object.val \in 0..changes /\ object.val # None
  BY <1>1, Fields DEF TypeOK, WholeInv, StoredWhole
<1>3. /\ pass' \in PassType /\ pass'.pc = "store" /\ pass'.L = pass.L /\ pass'.R = pass.R
      /\ pass'.act = "download" /\ pass'.got = object.val
  BY <1>1, <1>2 DEF PassType
<1>4. TypeOK'
  <2>1. pass' \in PassType'
    BY <1>1, <1>3, Rest, Grows
  <2> QED BY <1>1, <2>1, Rest, TypeStep
<1>5. PassWhole'
  BY <1>1, <1>2, <1>3 DEF WholeInv, PassWhole, Solid, Named
<1> QED BY <1>1, <1>4, <1>5, FrameStored, FrameResolver DEF WholeInv

\* DownloadStore, IndexRemoteOnly: the local file is the content taken.
LEMMA TypedStore ==
    ASSUME TypeOK, WholeInv, DownloadStore \/ IndexRemoteOnly
    PROVE  TypeOK' /\ WholeInv'
<1>1. /\ UNCHANGED <<config, object, event, row, conflict, resolver, changes>>
      /\ pass' = NoPass /\ noticed' \in {noticed, "none"}
      /\ faults' = faults \/ (Room /\ faults' = faults + 1)
      /\ base' = base \/ base' = agreed(local', pass.R)
  <2>1. CASE DownloadStore
    BY <2>1 DEF DownloadStore, EndPass, Fault, bucket
  <2>2. CASE IndexRemoteOnly
    BY <2>2 DEF IndexRemoteOnly, EndPass, Fault, bucket
  <2> QED BY <2>1, <2>2
<1>2. /\ local' \in FileType /\ Solid(local') /\ local' # NoFile
      /\ \A v \in known' : v \in known \/ v \in 1..changes
  <2>1. CASE DownloadStore
    <3>1. /\ pass.pc = "store" /\ local' = Stored(pass.got) /\ known' = known \cup {pass.got}
      BY <2>1 DEF DownloadStore
    <3>2. pass.got \in 1..changes
      BY <3>1, Fields, SMTT(60) DEF WholeInv, PassWhole, None
    <3> QED BY <3>1, <3>2, StoredIs
  <2>2. CASE IndexRemoteOnly
    <3>1. /\ pass.pc = "run" /\ pass.act = "index_only"
          /\ local' = [val |-> pass.R.val, hash |-> pass.R.hash, size |-> pass.R.size,
                       bytes |-> FALSE]
          /\ known' = known \cup {pass.R.val}
      BY <2>2 DEF IndexRemoteOnly, Doing
    <3>2. pass.R \in RowType /\ pass.R.val # None
      BY <3>1, Fields DEF WholeInv, PassWhole, Named
    <3>3. pass.R.val \in 1..changes
      BY <3>2, Rest, SMTT(60) DEF RowType, None
    <3> QED BY <3>1, <3>2, <3>3 DEF RowType, FileType, Solid, NoFile
  <2> QED BY <2>1, <2>2
<1>3. agreed(local', pass.R) \in BaseType
  BY <1>2, Fields DEF agreed, FileType, RowType, BaseType
<1>4. TypeOK'
  <2>1. faults' \in Nat /\ changes' + faults' <= MaxEvents
    BY <1>1, Rest, RoomFor
  <2>2. /\ local' \in FileType' /\ pass' \in PassType'
        /\ base' = base \/ base' \in BaseType'
    BY <1>1, <1>2, <1>3, Empties, Rest, Grows
  <2>3. \A v \in known' : v \in known \/ v \in 1..changes'
    BY <1>1, <1>2
  <2>4. noticed' \in {"none", "changed", "removed"} /\ event' \in {"none", "own", "external"}
    BY <1>1, Rest
  <2> QED BY <1>1, <1>2, <2>1, <2>2, <2>3, <2>4, Rest, TypeStep
<1>5. StoredWhole'
  BY <1>1, <1>2 DEF WholeInv, StoredWhole, Solid, Named, Entire
<1> QED BY <1>1, <1>4, <1>5, OverWhole, FrameResolver DEF WholeInv

\* DeleteLocal, DeleteRemote: one side goes.
LEMMA TypedDelete ==
    ASSUME TypeOK, WholeInv, DeleteLocal \/ DeleteRemote
    PROVE  TypeOK' /\ WholeInv'
<1>1. CASE DeleteLocal
  <2>1. /\ UNCHANGED <<config, object, event, row, resolver, known, changes, faults>>
        /\ local' = NoFile /\ base' = NoBase /\ conflict' = NoConflict
        /\ pass' = NoPass /\ noticed' \in {noticed, "none"}
    BY <1>1 DEF DeleteLocal, EndPass, bucket
  <2>2. TypeOK'
    <3>1. /\ local' \in FileType' /\ base' \in BaseType' /\ conflict' \in ConflictType'
          /\ pass' \in PassType'
      BY <2>1, Empties, Rest, Grows
    <3> QED BY <2>1, <3>1, Rest, TypeStep
  <2>3. StoredWhole'
    BY <2>1 DEF WholeInv, StoredWhole, Solid, Named, Entire, NoConflict
  <2> QED BY <2>1, <2>2, <2>3, OverWhole, FrameResolver DEF WholeInv
<1>2. CASE DeleteRemote
  <2>1. /\ UNCHANGED <<config, local, row, noticed, base, conflict, resolver, known, changes, faults>>
        /\ object' = NoObject /\ event' = "none"
        /\ pass' = [pass EXCEPT !.pc = "index"] /\ pass.act = "delete_remote"
    BY <1>2 DEF DeleteRemote, Doing, index
  <2>2. /\ pass' \in PassType /\ pass'.pc = "index" /\ pass'.L = pass.L /\ pass'.R = pass.R
        /\ pass'.act = "delete_remote"
    BY <2>1 DEF TypeOK, PassType
  <2>3. TypeOK'
    <3>1. object' \in ObjectType' /\ pass' \in PassType'
      BY <2>1, <2>2, Empties, Rest, Grows
    <3> QED BY <2>1, <3>1, Rest, TypeStep
  <2>4. StoredWhole'
    BY <2>1 DEF WholeInv, StoredWhole, Solid, Named, Entire
  <2>5. PassWhole'
    BY <2>2 DEF WholeInv, PassWhole, Solid, Named
  <2> QED BY <2>1, <2>3, <2>4, <2>5, FrameResolver DEF WholeInv
<1> QED BY <1>1, <1>2

\* A step of the resolver alone: its record has its type and is whole.
LEMMA TypedResolver ==
    ASSUME TypeOK, WholeInv, resolver' \in ResolverType, ResolverWhole',
           UNCHANGED <<config, local, object, event, row, noticed, base, conflict, pass, known,
                       changes, faults>>
    PROVE  TypeOK' /\ WholeInv'
<1>1. TypeOK'
  <2>1. resolver' \in ResolverType'
    BY Rest, Grows
  <2> QED BY <2>1, Rest, TypeStep
<1> QED BY <1>1, FrameStored, FramePass DEF WholeInv

\* ResolveBegin: the two sides of the conflict.
LEMMA TypedResolveBegin ==
    ASSUME TypeOK, WholeInv, NEW keep \in {"local", "remote"}, ResolveBegin(keep)
    PROVE  TypeOK' /\ WholeInv'
<1>1. /\ UNCHANGED <<config, local, object, event, row, noticed, base, conflict, pass, known, changes, faults>>
      /\ resolver' = [NoResolution EXCEPT !.pc = "head", !.keep = keep, !.rec = conflict,
                          !.L = local, !.R = IF row # NoRow THEN row ELSE conflict.remote]
      /\ conflict # NoConflict /\ local # NoFile
  BY DEF ResolveBegin, bucket, index
<1>2. /\ conflict \in ConflictType /\ local \in FileType /\ row \in RowType
      /\ conflict.remote \in RowType /\ Solid(local) /\ Named(row) /\ Named(conflict.remote)
      /\ conflict.remote # NoRow
  BY <1>1, Fields DEF TypeOK, WholeInv, StoredWhole, Entire
<1>3. resolver' \in ResolverType
  BY <1>1, <1>2, Empties DEF ResolverType
<1>4. /\ resolver'.pc = "head" /\ resolver'.L = local
      /\ resolver'.R = IF row # NoRow THEN row ELSE conflict.remote
  BY <1>1 DEF NoResolution
<1>5. ResolverWhole'
  BY <1>1, <1>2, <1>4 DEF ResolverWhole, Solid, Named
<1> QED BY <1>1, <1>3, <1>5, TypedResolver

\* ResolveHead: the object the decision goes on with.
LEMMA TypedResolveHead ==
    ASSUME TypeOK, WholeInv, ResolveHead
    PROVE  TypeOK' /\ WholeInv'
<1>1. /\ UNCHANGED <<config, local, object, event, row, noticed, base, conflict, pass, known, changes, faults>>
      /\ \/ resolver' = [resolver EXCEPT !.pc = "put", !.got = object.val]
         \/ resolver' = [resolver EXCEPT !.pc = "get", !.R.etag = object.etag]
      /\ object # NoObject /\ resolver.pc = "head"
  BY DEF ResolveHead, RemoteUnchanged, bucket, index
<1>2. /\ resolver \in ResolverType /\ object.val \in 0..changes /\ object.etag \in 0..10
      /\ object.val # None /\ object.etag # None /\ resolver.R \in RowType
      /\ resolver.R.val # None
  BY <1>1, Fields DEF TypeOK, WholeInv, StoredWhole, ResolverWhole, Named
<1>3. CASE resolver' = [resolver EXCEPT !.pc = "put", !.got = object.val]
  <2>1. /\ resolver' \in ResolverType /\ resolver'.pc = "put" /\ resolver'.got = object.val
        /\ resolver'.L = resolver.L /\ resolver'.R = resolver.R
    BY <1>2, <1>3 DEF ResolverType
  <2>2. ResolverWhole'
    BY <1>1, <1>2, <2>1 DEF ResolverWhole, WholeInv, Solid, Named
  <2> QED BY <1>1, <2>1, <2>2, TypedResolver
<1>4. CASE resolver' = [resolver EXCEPT !.pc = "get", !.R.etag = object.etag]
  <2>1. /\ resolver' \in ResolverType /\ resolver'.pc = "get"
        /\ resolver'.L = resolver.L /\ resolver'.R = [resolver.R EXCEPT !.etag = object.etag]
    BY <1>2, <1>4 DEF ResolverType, RowType
  <2>2. resolver'.R.val = resolver.R.val /\ resolver'.R.etag = object.etag
    BY <1>2, <2>1 DEF RowType
  <2>3. resolver'.R # NoRow
    BY <1>2, <2>2, SMTT(60) DEF NoRow
  <2>4. ResolverWhole'
    BY <1>1, <1>2, <2>1, <2>2, <2>3 DEF ResolverWhole, WholeInv, Solid, Named
  <2> QED BY <1>1, <2>1, <2>4, TypedResolver
<1> QED BY <1>1, <1>3, <1>4

\* ResolvePut: the object is the file's content.
LEMMA TypedResolvePut ==
    ASSUME TypeOK, WholeInv, ResolvePut
    PROVE  TypeOK' /\ WholeInv'
<1>1. /\ UNCHANGED <<config, local, row, noticed, base, conflict, pass, changes, faults>>
      /\ object' = Sent(resolver.L) /\ event' = "own" /\ known' = known \cup {local.val}
      /\ resolver' = [resolver EXCEPT !.pc = "index"] /\ resolver.pc = "put"
      /\ local.bytes
  BY DEF ResolvePut, CanSend, index
<1>2. resolver.L \in FileType /\ resolver \in ResolverType
  BY Fields DEF TypeOK
<1>3. local # NoFile /\ local.val # None
  BY <1>1, SMTT(60) DEF NoFile, WholeInv, StoredWhole, Solid
<1>4. /\ resolver' \in ResolverType /\ resolver'.pc = "index"
      /\ resolver'.L = resolver.L /\ resolver'.R = resolver.R
  BY <1>1, <1>2 DEF ResolverType
<1>5. TypeOK'
  <2>1. resolver' \in ResolverType' /\ object' \in ObjectType'
    BY <1>1, <1>2, <1>4, SentIs, Rest, Grows
  <2>2. \A v \in known' : v \in known \/ v \in 1..changes'
    BY <1>1, <1>3, Fields, SMTT(60) DEF None
  <2> QED BY <1>1, <1>3, <2>1, <2>2, Rest, TypeStep
<1>6. StoredWhole'
  <2>1. object'.val # None /\ object'.etag # None
    BY <1>1, <1>2, <1>3, SentIs
  <2> QED BY <1>1, <2>1 DEF WholeInv, StoredWhole, Solid, Named, Entire
<1>7. ResolverWhole'
  BY <1>1, <1>4 DEF WholeInv, ResolverWhole, Solid, Named
<1> QED BY <1>1, <1>5, <1>6, <1>7, FramePass DEF WholeInv

\* ResolveIndex: the row of the upload.
LEMMA TypedResolveIndex ==
    ASSUME TypeOK, WholeInv, ResolveIndex
    PROVE  TypeOK' /\ WholeInv'
<1>1. /\ UNCHANGED <<config, local, object, event, noticed, base, conflict, pass, known, changes, faults>>
      /\ row' = RowOf(resolver.L) /\ resolver.pc = "index"
      /\ resolver' = [resolver EXCEPT !.pc = "finish"]
  BY DEF ResolveIndex, bucket
<1>2. /\ resolver' \in ResolverType /\ resolver'.pc = "finish"
      /\ resolver'.L = resolver.L /\ resolver'.R = resolver.R
  BY <1>1 DEF TypeOK, ResolverType
<1>3. row' \in RowType /\ Named(row')
  <2>1. resolver.L.val # None
    BY <1>1 DEF WholeInv, ResolverWhole, Solid
  <2> QED BY <1>1, <2>1, Fields, SentIs DEF Named
<1>4. TypeOK'
  <2>1. resolver' \in ResolverType' /\ row' \in RowType'
    BY <1>1, <1>2, <1>3, Rest, Grows
  <2> QED BY <1>1, <2>1, Rest, TypeStep
<1>5. StoredWhole'
  BY <1>1, <1>3 DEF WholeInv, StoredWhole, Solid, Named, Entire
<1>6. ResolverWhole'
  BY <1>1, <1>2 DEF WholeInv, ResolverWhole, Solid, Named
<1> QED BY <1>1, <1>4, <1>5, <1>6, FramePass DEF WholeInv

\* ResolveGet: the object of the HEAD, which exists.
LEMMA TypedResolveGet ==
    ASSUME TypeOK, WholeInv, ResolveGet
    PROVE  TypeOK' /\ WholeInv'
<1>1. /\ UNCHANGED <<config, local, object, event, row, noticed, base, conflict, pass, known, changes, faults>>
      /\ resolver' = [resolver EXCEPT !.pc = "store", !.got = object.val]
      /\ object.etag = resolver.R.etag /\ resolver.pc = "get"
  BY DEF ResolveGet, bucket, index
<1>2. /\ resolver \in ResolverType /\ object.val \in 0..changes /\ resolver.R.etag # None
  BY <1>1, Fields DEF TypeOK, WholeInv, ResolverWhole
<1>3. object.val # None
  BY <1>1, <1>2, SMTT(60) DEF WholeInv, StoredWhole, NoObject
<1>4. /\ resolver' \in ResolverType /\ resolver'.pc = "store" /\ resolver'.got = object.val
      /\ resolver'.L = resolver.L /\ resolver'.R = resolver.R
  BY <1>1, <1>2 DEF ResolverType
<1>5. ResolverWhole'
  BY <1>1, <1>2, <1>3, <1>4 DEF WholeInv, ResolverWhole, Solid, Named
<1> QED BY <1>1, <1>4, <1>5, TypedResolver

\* ResolveStore: the local file is the content taken.
LEMMA TypedResolveStore ==
    ASSUME TypeOK, WholeInv, ResolveStore
    PROVE  TypeOK' /\ WholeInv'
<1>1. /\ UNCHANGED <<config, object, event, row, noticed, base, conflict, pass, changes, faults>>
      /\ local' = Stored(resolver.got) /\ known' = known \cup {resolver.got}
      /\ resolver.pc = "store"
      /\ resolver' = [resolver EXCEPT !.pc = "finish", !.L = local']
  BY DEF ResolveStore, bucket, index
<1>2. resolver.got \in 1..changes
  BY <1>1, Fields, SMTT(60) DEF WholeInv, ResolverWhole, None
<1>3. local' \in FileType /\ Solid(local') /\ local' # NoFile
  BY <1>1, <1>2, StoredIs
<1>4. /\ resolver' \in ResolverType /\ resolver'.pc = "finish" /\ resolver'.L = local'
      /\ resolver'.R = resolver.R
  BY <1>1, <1>3 DEF TypeOK, ResolverType
<1>5. TypeOK'
  <2>1. resolver' \in ResolverType' /\ local' \in FileType'
    BY <1>1, <1>3, <1>4, Rest, Grows
  <2>2. \A v \in known' : v \in known \/ v \in 1..changes'
    BY <1>1, <1>2
  <2> QED BY <1>1, <1>3, <2>1, <2>2, Rest, TypeStep
<1>6. StoredWhole'
  BY <1>1, <1>3 DEF WholeInv, StoredWhole, Solid, Named, Entire
<1>7. ResolverWhole'
  BY <1>1, <1>3, <1>4 DEF WholeInv, ResolverWhole, Solid, Named
<1> QED BY <1>1, <1>5, <1>6, <1>7, FramePass DEF WholeInv

\* ResolveFinish: the conflict closes, with a baseline.
LEMMA TypedResolveFinish ==
    ASSUME TypeOK, WholeInv, ResolveFinish
    PROVE  TypeOK' /\ WholeInv'
<1>1. /\ UNCHANGED <<config, local, object, event, row, noticed, pass, known, changes, faults>>
      /\ conflict' \in {conflict, NoConflict} /\ resolver' = NoResolution
      /\ \/ base' = base
         \/ base' \in {afterUpload(resolver.L), agreed(resolver.L, resolver.R)} /\ local # NoFile
  BY DEF ResolveFinish, bucket, index
<1>2. {afterUpload(resolver.L), agreed(resolver.L, resolver.R)} \subseteq BaseType
  BY Fields, SentIs, SMTT(60) DEF agreed, FileType, RowType, BaseType
<1>3. TypeOK'
  <2>1. /\ resolver' \in ResolverType'
        /\ conflict' = conflict \/ conflict' \in ConflictType'
        /\ base' = base \/ base' \in BaseType'
    BY <1>1, <1>2, Empties, Rest, Grows
  <2>2. local' = NoFile => base' = NoBase /\ conflict' = NoConflict
    BY <1>1, Rest
  <2> QED BY <1>1, <2>1, <2>2, Rest, TypeStep
<1>4. StoredWhole'
  <2>1. /\ Entire(conflict') /\ Solid(conflict'.local) /\ Named(conflict'.remote)
    BY <1>1, SMTT(60) DEF WholeInv, StoredWhole, Solid, Named, Entire, NoConflict
  <2> QED BY <1>1, <2>1 DEF WholeInv, StoredWhole, Solid, Named
<1> QED BY <1>1, <1>3, <1>4, OverWhole, FramePass DEF WholeInv

\* Every step keeps the types, and what is stored and in hand whole.
LEMMA TypedNext ==
    ASSUME TypeOK, WholeInv, [Next]_vars
    PROVE  TypeOK' /\ WholeInv'
<1>1. CASE UNCHANGED vars
  <2>1. UNCHANGED <<config, local, object, event, row, noticed, base, conflict, pass, resolver,
                    known, changes, faults>>
    BY <1>1 DEF vars, bucket, index
  <2>2. TypeOK'
    BY <2>1, Rest, TypeStep
  <2> QED BY <2>1, <2>2, FrameStored, FramePass, FrameResolver DEF WholeInv
<1>2. CASE WriteLocal \/ WriteBucket \/ DeleteBucket \/ ApplyEvents
  BY <1>2, TypedWriteLocal, TypedBucket, TypedApplyEvents
<1>3. CASE \E kind \in Kinds : BeginPass(kind)
  BY <1>3, TypedBeginPass
<1>4. CASE RunPass
  BY <1>4, TypedLoad, TypedPlan, TypedOver, TypedUpload, TypedIndex, TypedGet, TypedStore,
     TypedDelete DEF RunPass
<1>5. CASE PassFails \/ ResolveFails \/ Crash
  BY <1>5, TypedOver
<1>6. CASE \E keep \in {"local", "remote"} : ResolveBegin(keep)
  BY <1>6, TypedResolveBegin
<1>7. CASE Resolve
  BY <1>7, TypedResolveHead, TypedResolvePut, TypedResolveIndex, TypedResolveGet,
     TypedResolveStore, TypedResolveFinish, TypedOver DEF Resolve
<1> QED BY <1>1, <1>2, <1>3, <1>4, <1>5, <1>6, <1>7 DEF Next

\* Nothing is stored and nothing in hand at the start.
LEMMA TypedInit ==
    ASSUME Init
    PROVE  TypeOK /\ WholeInv
<1>1. changes = 0 /\ faults = 0 /\ known = {} /\ changes + faults <= MaxEvents
  BY FileSyncAssumption, SMTT(60) DEF Init
<1>2. /\ NoFile \in FileType /\ NoRow \in RowType /\ NoBase \in BaseType
      /\ NoObject \in ObjectType
  BY <1>1, SMTT(60) DEF NoFile, NoRow, NoBase, NoObject, FileType, RowType, BaseType, ObjectType, None
<1>3. NoConflict \in ConflictType
  BY <1>2, SMTT(60) DEF NoConflict, ConflictType, None
<1>4. NoPass \in PassType /\ NoResolution \in ResolverType
  BY <1>1, <1>2, <1>3, SMTT(60) DEF NoPass, NoResolution, PassType, ResolverType, None, Acts
<1>5. TypeOK
  BY <1>1, <1>2, <1>3, <1>4, SMTT(60) DEF Init, TypeOK
<1>6. StoredWhole
  BY DEF Init, StoredWhole, Solid, Named, Entire, NoConflict
<1>7. PassWhole /\ ResolverWhole
  BY DEF Init, PassWhole, ResolverWhole, Solid, Named, NoPass, NoResolution
<1> QED BY <1>5, <1>6, <1>7 DEF WholeInv

\* Every variable has its type, and a baseline or a conflict belongs to a
\* file that exists (sync_file_baseline, sync_conflicts).
THEOREM TypeCorrect == Spec => []TypeOK
<1>1. Init => TypeOK /\ WholeInv
  BY TypedInit
<1>2. TypeOK /\ WholeInv /\ [Next]_vars => (TypeOK /\ WholeInv)'
  BY TypedNext
<1> QED BY <1>1, <1>2, PTL DEF Spec

\* No half of a row, a file or a conflict is ever stored or used, and a
\* transfer has what it transfers, with passes, resolutions, changes and
\* faults in any order (Planner::build, ConflictResolver::resolve).
THEOREM NothingHalf == Spec => []WholeInv
<1>1. Init => TypeOK /\ WholeInv
  BY TypedInit
<1>2. TypeOK /\ WholeInv /\ [Next]_vars => (TypeOK /\ WholeInv)'
  BY TypedNext
<1> QED BY <1>1, <1>2, PTL DEF Spec

-----------------------------------------------------------------------------
(* The two sides.  Sizes tell contents apart, and no resolution overlaps a *)
(* pass.                                                                   *)
Calm == Admit \cap {"sameSize", "overlap"} = {}

\* A size stands for one content, sealed or not.
LEMMA HalfOf ==
    ASSUME Calm
    PROVE  \A v \in Nat : Half(Plain(v)) = v /\ Half(Sealed(v)) = v
<1>1. \A v \in Nat : (2 * v) \div 2 = v /\ (2 * v + 1) \div 2 = v
  BY SMTT(60)
<1>2. 0 \div 2 = 0 /\ (0 + 1) \div 2 = 0
  BY SMTT(60)
<1> QED BY <1>1, <1>2 DEF Calm, Half, Plain, Sealed, None

\* No size, no content.
LEMMA HalfNone == Half(0) = 0
BY SMTT(60) DEF Half

\* Who may begin: nobody while a pass or a resolution is in progress.
LEMMA CalmBegins ==
    ASSUME Calm
    PROVE  "overlap" \notin Admit
BY DEF Calm

\* What only names one content of each: a content that is gone stays gone.
LEMMA GoneKept ==
    ASSUME TypeOK, WholeInv, NEW v \in 1..changes, Gone(v),
           \/ object' = object \/ object' = NoObject
           \/ object'.val = changes + 1
           \/ object'.val = local.val /\ local.bytes,
           \/ local' = local \/ local' = NoFile \/ ~local'.bytes
           \/ local'.val = changes + 1
           \/ pass.pc = "store" /\ local'.val = pass.got
           \/ resolver.pc = "store" /\ local'.val = resolver.got,
           \/ pass' = pass \/ pass'.pc # "store" \/ pass'.got = object.val,
           \/ resolver' = resolver \/ resolver'.pc # "store" \/ resolver'.got = object.val
    PROVE  Gone(v)'
<1>1. v # 0 /\ v # changes + 1 /\ changes \in Nat
  BY Rest, SMTT(60)
<1>2. object'.val # v
  BY <1>1, SMTT(60) DEF Gone, NoObject, None
<1>3. local'.val # v \/ ~local'.bytes
  BY <1>1, SMTT(60) DEF Gone, NoFile, None
<1>4. pass'.pc = "store" => pass'.got # v
  BY DEF Gone
<1>5. resolver'.pc = "store" => resolver'.got # v
  BY DEF Gone
<1> QED BY <1>2, <1>3, <1>4, <1>5 DEF Gone

\* A content that is gone stays gone, and one that is settled stays settled.
Kept ==
    /\ known \subseteq known' /\ changes <= changes'
    /\ \A v \in 1..changes : (Gone(v) => Gone(v)') /\ (Settled(v) => Settled(v)')

\* What a step needs to keep what is gone and what is settled.
LEMMA KeptBy ==
    ASSUME TypeOK, WholeInv, known \subseteq known', changes' \in {changes, changes + 1},
           \/ object' = object \/ object' = NoObject
           \/ object'.val = changes + 1
           \/ object'.val = local.val /\ local.bytes,
           \/ local' = local \/ local' = NoFile \/ ~local'.bytes
           \/ local'.val = changes + 1
           \/ pass.pc = "store" /\ local'.val = pass.got
           \/ resolver.pc = "store" /\ local'.val = resolver.got,
           \/ pass' = pass \/ pass'.pc # "store" \/ pass'.got = object.val,
           \/ resolver' = resolver \/ resolver'.pc # "store" \/ resolver'.got = object.val
    PROVE  Kept
<1>0. changes <= changes'
  BY Rest, SMTT(60)
<1> SUFFICES ASSUME NEW v \in 1..changes
             PROVE  (Gone(v) => Gone(v)') /\ (Settled(v) => Settled(v)')
  BY <1>0 DEF Kept
<1>1. Gone(v) => Gone(v)'
  BY GoneKept
<1> QED BY <1>1 DEF Settled

\* The step of every action is one of those.
LEMMA KeptNext ==
    ASSUME TypeOK, WholeInv, Next
    PROVE  Kept
<1>0. pass \in PassType /\ resolver \in ResolverType
  BY DEF TypeOK
<1>1. CASE WriteLocal
  BY <1>1, KeptBy DEF WriteLocal, bucket
<1>2. CASE WriteBucket
  BY <1>2, KeptBy DEF WriteBucket
<1>3. CASE DeleteBucket
  BY <1>3, KeptBy DEF DeleteBucket
<1>4. CASE ApplyEvents
  BY <1>4, KeptBy DEF ApplyEvents
<1>5. CASE loadConflictState
  BY <1>0, <1>5, KeptBy DEF loadConflictState, bucket, PassType
<1>6. CASE planPass
  BY <1>0, <1>6, KeptBy DEF planPass, bucket, PassType
<1>7. CASE NothingToDo
  BY <1>7, KeptBy DEF NothingToDo, EndPass, bucket, NoPass
<1>8. CASE Upload
  BY <1>0, <1>8, KeptBy DEF Upload, CanSend, Sent, PassType
<1>9. CASE applyRemoteIndexMutation
  BY <1>9, KeptBy DEF applyRemoteIndexMutation, EndPass, bucket, NoPass
<1>10. CASE DownloadGet
  BY <1>0, <1>10, KeptBy DEF DownloadGet, bucket, PassType
<1>11. CASE DownloadStore
  BY <1>11, KeptBy DEF DownloadStore, EndPass, bucket, Stored, NoPass
<1>12. CASE IndexRemoteOnly
  BY <1>12, KeptBy DEF IndexRemoteOnly, EndPass, bucket, NoPass
<1>13. CASE DeleteLocal
  BY <1>13, KeptBy DEF DeleteLocal, EndPass, bucket, NoPass
<1>14. CASE DeleteRemote
  BY <1>0, <1>14, KeptBy DEF DeleteRemote, PassType
<1>15. CASE TransferFails
  BY <1>15, KeptBy DEF TransferFails, EndPass, bucket, NoPass
<1>16. CASE PassFails
  BY <1>16, KeptBy DEF PassFails, EndPass, bucket, NoPass
<1>17. CASE ResolveHead
  BY <1>0, <1>17, KeptBy DEF ResolveHead, bucket, ResolverType
<1>18. CASE ResolvePut
  BY <1>0, <1>18, KeptBy DEF ResolvePut, CanSend, Sent, ResolverType
<1>19. CASE ResolveIndex
  BY <1>0, <1>19, KeptBy DEF ResolveIndex, bucket, ResolverType
<1>20. CASE ResolveGet
  BY <1>0, <1>20, KeptBy DEF ResolveGet, bucket, ResolverType
<1>21. CASE ResolveStore
  BY <1>0, <1>21, KeptBy DEF ResolveStore, bucket, Stored, ResolverType
<1>22. CASE ResolveFinish
  BY <1>22, KeptBy DEF ResolveFinish, bucket, NoResolution
<1>23. CASE ResolveRefused
  BY <1>23, KeptBy DEF ResolveRefused, bucket, NoResolution
<1>24. CASE ResolveFails
  BY <1>24, KeptBy DEF ResolveFails, bucket, NoResolution
<1>25. CASE Crash
  BY <1>25, KeptBy DEF Crash, bucket, NoPass, NoResolution
<1>26. CASE \E kind \in Kinds : BeginPass(kind)
  BY <1>26, KeptBy DEF BeginPass, bucket, NoPass
<1>27. CASE \E keep \in {"local", "remote"} : ResolveBegin(keep)
  BY <1>27, KeptBy DEF ResolveBegin, bucket, NoResolution
<1> QED BY <1>1, <1>2, <1>3, <1>4, <1>5, <1>6, <1>7, <1>8, <1>9, <1>10, <1>11, <1>12, <1>13,
           <1>14, <1>15, <1>16, <1>17, <1>18, <1>19, <1>20, <1>21, <1>22, <1>23, <1>24, <1>25,
           <1>26, <1>27 DEF Next, RunPass, Resolve

-----------------------------------------------------------------------------
(* What an action's lemma starts from, and what each conjunct of SyncInv   *)
(* needs of a step.                                                        *)
Ground == Calm /\ TypeOK /\ WholeInv /\ SyncInv /\ TypeOK' /\ WholeInv' /\ Kept

\* The contents at hand are ones that were written.
LEMMA Vals ==
    ASSUME TypeOK, WholeInv
    PROVE  /\ \A file \in {local, pass.L, resolver.L, conflict.local} :
                 file.val \in 0..changes /\ (file # NoFile => file.val \in 1..changes)
           /\ \A r \in {row, pass.R, resolver.R, conflict.remote} :
                 r.val \in 0..changes /\ (r # NoRow => r.val \in 1..changes)
           /\ object.val \in 0..changes /\ (object # NoObject => object.val \in 1..changes)
           /\ object # NoObject => object.etag # None
           /\ known \subseteq 1..changes /\ changes \in Nat
<1>1. \A file \in {local, pass.L, resolver.L, conflict.local} :
         file \in FileType /\ Solid(file)
  BY Fields DEF TypeOK, WholeInv, StoredWhole, PassWhole, ResolverWhole
<1>2. \A r \in {row, pass.R, resolver.R, conflict.remote} : r \in RowType /\ Named(r)
  BY Fields DEF TypeOK, WholeInv, StoredWhole, PassWhole, ResolverWhole
<1>3. known \subseteq 1..changes /\ changes \in Nat
  BY DEF TypeOK
<1>4. \A file \in FileType : Solid(file) =>
         file.val \in 0..changes /\ (file # NoFile => file.val \in 1..changes)
  BY <1>3, SMTT(60) DEF FileType, Solid, None
<1>5. \A r \in RowType : Named(r) => r.val \in 0..changes /\ (r # NoRow => r.val \in 1..changes)
  BY <1>3, SMTT(60) DEF RowType, Named, None
<1>6. /\ object.val \in 0..changes /\ (object # NoObject => object.val \in 1..changes)
      /\ object # NoObject => object.etag # None
  BY <1>3, Fields, SMTT(60) DEF WholeInv, StoredWhole, None
<1> QED BY <1>1, <1>2, <1>3, <1>4, <1>5, <1>6

\* A hash and a content that go together: known so, or the new hash.
Tells(a, b, h, w) == <<a, b>> \in HashVals \/ a = None \/ (a = h /\ b = w)
Side(x, h, w) == Half(x.size) = x.val /\ Tells(x.hash, x.val, h, w)
BaseSide(b, h, w) == Tells(b.hash, Half(b.size), h, w) /\ Tells(b.rhash, Half(b.rsize), h, w)

\* What is stored and in hand.
LEMMA Sides ==
    ASSUME Ground, NEW h, NEW w
    PROVE  /\ Side(local, h, w) /\ Side(pass.L, h, w) /\ Side(resolver.L, h, w)
           /\ Side(conflict.local, h, w) /\ Side(row, h, w) /\ Side(resolver.R, h, w)
           /\ Side(conflict.remote, h, w) /\ Side(NoFile, h, w) /\ Side(NoRow, h, w)
           /\ BaseSide(base, h, w) /\ BaseSide(NoBase, h, w)
           /\ Half(object.size) = object.val /\ Half(NoObject.size) = NoObject.val
<1>1. /\ Tells(local.hash, local.val, h, w) /\ Tells(pass.L.hash, pass.L.val, h, w)
      /\ Tells(resolver.L.hash, resolver.L.val, h, w)
      /\ Tells(conflict.local.hash, conflict.local.val, h, w)
  BY DEF Tells, HashVals
<1>2. /\ Tells(row.hash, row.val, h, w) /\ Tells(resolver.R.hash, resolver.R.val, h, w)
      /\ Tells(conflict.remote.hash, conflict.remote.val, h, w)
  BY DEF Tells, HashVals
<1>3. BaseSide(base, h, w)
  BY DEF BaseSide, Tells, HashVals
<1>4. Side(NoFile, h, w) /\ Side(NoRow, h, w) /\ BaseSide(NoBase, h, w)
  BY HalfNone DEF Side, BaseSide, Tells, NoFile, NoRow, NoBase, None
<1>5. Half(NoObject.size) = NoObject.val
  BY HalfNone DEF NoObject, None
<1>6. Sized
  BY DEF Ground, SyncInv
<1> QED BY <1>1, <1>2, <1>3, <1>4, <1>5, <1>6 DEF Sized, Side

\* A baseline is of the two sides it was taken from.
LEMMA BaseSides ==
    ASSUME NEW h, NEW w, NEW L, Side(L, h, w)
    PROVE  /\ BaseSide(afterUpload(L), h, w)
           /\ \A R : Side(R, h, w) => BaseSide(agreed(L, R), h, w)
BY DEF Side, BaseSide, agreed, afterUpload

\* Every hash of HashVals is in use.
LEMMA HashesUsed == \A p \in HashVals : p[1] \in Hashes
BY SMTT(60) DEF HashVals, Hashes

\* Sized and HashesTell: every record keeps telling its content.
LEMMA SidesBy ==
    ASSUME Ground, NEW h, h \notin Hashes, NEW w,
           Side(local', h, w), Side(pass'.L, h, w), Side(resolver'.L, h, w),
           Side(conflict'.local, h, w), Side(row', h, w), Side(resolver'.R, h, w),
           Side(conflict'.remote, h, w), BaseSide(base', h, w),
           Half(object'.size) = object'.val
    PROVE  Sized' /\ HashesTell'
<1>1. Sized'
  BY DEF Side, Sized, Half
<1>2. \A p \in HashVals' : Tells(p[1], p[2], h, w) /\ p = <<p[1], p[2]>>
  <2>1. \A file \in {local', pass'.L, resolver'.L, conflict'.local} : Tells(file.hash, file.val, h, w)
    BY DEF Side
  <2>2. \A r \in {row', resolver'.R, conflict'.remote} : Tells(r.hash, r.val, h, w)
    BY DEF Side
  <2>3. Tells(base'.hash, Half(base'.size), h, w) /\ Tells(base'.rhash, Half(base'.rsize), h, w)
    BY DEF BaseSide
  <2> QED BY <2>1, <2>2, <2>3, SMTT(60) DEF HashVals, Half
<1>3. HashesTell
  BY DEF Ground, SyncInv
<1> SUFFICES ASSUME NEW p \in HashVals', NEW q \in HashVals', p[1] = q[1], p[1] # None
             PROVE  p[2] = q[2]
  BY <1>1 DEF HashesTell
<1>4. Tells(p[1], p[2], h, w) /\ Tells(q[1], q[2], h, w)
  BY <1>2
<1>5. \A a, b : <<a, b>> \in HashVals => a # h
  BY HashesUsed
<1>6. \A a, b, c : <<a, b>> \in HashVals /\ <<a, c>> \in HashVals /\ a # None => b = c
  BY <1>3 DEF HashesTell
<1> QED BY <1>4, <1>5, <1>6 DEF Tells

\* What a step starts from, by name.
LEMMA Parts ==
    ASSUME Ground
    PROVE  /\ Calm /\ TypeOK /\ WholeInv /\ TypeOK' /\ WholeInv' /\ Kept
           /\ InHand /\ Sized /\ HashesTell /\ Met /\ Unseen /\ BaseInv /\ RowInv
           /\ PassInv /\ ResolverInv /\ AskInv
BY DEF Ground, SyncInv

\* Met: what both sides have was settled, or is by now.
LEMMA MetBy ==
    ASSUME Ground,
           \A v \in {local'.val, pass'.L.val} \ {None} : v \in {object'.val, row'.val} =>
               \/ v \in known' \/ Settled(v)'
               \/ v \in {local.val, pass.L.val} /\ v \in {object.val, row.val}
    PROVE  Met'
<1> SUFFICES ASSUME NEW v \in {local'.val, pass'.L.val} \ {None}, v \in {object'.val, row'.val}
             PROVE  Settled(v)'
  BY DEF Met
<1>1. CASE v \in known'
  BY <1>1 DEF Settled
<1>2. CASE v \in {local.val, pass.L.val} /\ v \in {object.val, row.val}
  <2>1. v \in 1..changes
    BY <1>2, Parts, Vals, SMTT(60) DEF None
  <2>2. Settled(v)
    BY <1>2, Parts DEF Met
  <2> QED BY <2>1, <2>2, Parts DEF Kept
<1> QED BY <1>1, <1>2

\* Unseen: the object, its row and its event are as they were.
LEMMA UnseenBy ==
    ASSUME Ground, UNCHANGED <<object, event, row>>,
           conflict' = conflict \/ conflict' = NoConflict
    PROVE  Unseen'
<1> SUFFICES ASSUME object # NoObject, object.val \notin known'
             PROVE  /\ object.ok /\ object.hash = None /\ event # "own"
                    /\ row.val = object.val <=> row.etag = object.etag
                    /\ conflict'.remote.etag = object.etag => conflict'.remote.val = object.val
  BY DEF Unseen
<1>1. object.val \notin known
  BY Parts DEF Kept
<1>2. NoConflict.remote.etag # object.etag
  BY Parts, Vals DEF NoConflict, NoRow, None
<1> QED BY <1>1, <1>2, Parts DEF Unseen

\* BaseInv: the baseline stays, and no object gets an ETag it knows.
LEMMA BaseBy ==
    ASSUME Ground, base' = base,
           object' = object \/ object' = NoObject \/ object'.etag \notin ETags
    PROVE  BaseInv'
<1> SUFFICES ASSUME base # NoBase
             PROVE  /\ {Half(base.size), Half(base.rsize)} \subseteq 1..changes'
                    /\ Settled(Half(base.size))' /\ Settled(Half(base.rsize))'
                    /\ Half(base.size) = Half(base.rsize) \/ Gone(Half(base.rsize))'
                    /\ (base.retag # None /\ base.retag = object'.etag /\ object'.ok) =>
                          Half(base.size) = object'.val
  BY DEF BaseInv, Half, Settled, Gone
<1> DEFINE u == Half(base.size)
           w == Half(base.rsize)
<1>1. /\ u \in 1..changes /\ w \in 1..changes /\ Settled(u) /\ Settled(w)
      /\ u = w \/ Gone(w)
      /\ (base.retag # None /\ base.retag = object.etag /\ object.ok) => u = object.val
  BY Parts DEF BaseInv
<1>2. base.retag \in ETags /\ NoObject.etag = None
  BY DEF ETags, NoObject
<1>3. (base.retag # None /\ base.retag = object'.etag /\ object'.ok) => u = object'.val
  BY <1>1, <1>2
<1>4. 1..changes \subseteq 1..changes'
  <2>1. changes \in Nat /\ changes' \in Nat /\ changes <= changes'
    BY Parts DEF TypeOK, Kept
  <2> QED BY <2>1, SMTT(60)
<1> HIDE DEF u, w
<1>5. \A v \in 1..changes : (Gone(v) => Gone(v)') /\ (Settled(v) => Settled(v)')
  BY Parts DEF Kept
<1> QED BY <1>1, <1>3, <1>4, <1>5 DEF u, w

\* RowInv: the row, the object and the local file are as they were, and the
\* pass has not read another file.
LEMMA RowBy ==
    ASSUME Ground, UNCHANGED <<object, row, local>>, event' = event \/ event' # "own",
           \/ pass'.pc \in {"off", "loading"}
           \/ pass' = pass \/ pass'.L = local
           \/ pass'.L = pass.L /\ pass.pc \notin {"off", "loading"}
    PROVE  RowInv'
BY Parts DEF RowInv

\* What a pass and a resolution have settled stays settled.
LEMMA SettledPass ==
    ASSUME Ground, pass'.L = pass.L, pass.pc = "index", pass.act = "upload"
    PROVE  Settled(pass.L.val)'
<1>1. pass.L.val \in 1..changes
  BY Parts, Vals DEF WholeInv, PassWhole
<1>2. Settled(pass.L.val)
  BY Parts DEF PassInv
<1> DEFINE v == pass.L.val
<1>3. v' = v
  OBVIOUS
<1>4. \A u \in 1..changes : Settled(u) => Settled(u)'
  BY Parts DEF Kept
<1> QED BY <1>1, <1>2, <1>3, <1>4 DEF Settled, Gone

\* The same for a resolution.
LEMMA SettledResolver ==
    ASSUME Ground, resolver' = resolver
    PROVE  /\ resolver.pc \in {"index", "finish"} => Settled(resolver.L.val)'
           /\ resolver.pc = "finish" /\ resolver.keep = "remote" =>
                 /\ Settled(resolver.R.val)'
                 /\ resolver.L.val = resolver.R.val \/ Gone(resolver.R.val)'
<1>1. resolver.pc # "off" => resolver.L.val \in 1..changes /\ resolver.R.val \in 1..changes
  BY Parts, Vals DEF WholeInv, ResolverWhole
<1>2. \A v \in 1..changes : (Gone(v) => Gone(v)') /\ (Settled(v) => Settled(v)')
  BY Parts DEF Kept
<1>3. /\ resolver.pc # "off" /\ Settled(resolver.L.val) => Settled(resolver.L.val)'
      /\ resolver.pc # "off" /\ Settled(resolver.R.val) => Settled(resolver.R.val)'
      /\ resolver.pc # "off" /\ Gone(resolver.R.val) => Gone(resolver.R.val)'
  BY <1>1, <1>2 DEF Settled, Gone
<1> QED BY <1>3, Parts DEF ResolverInv

\* PassInv and AskInv: the pass and what it works on are as they were, or
\* it is not in a transfer.
LEMMA PassBy ==
    ASSUME Ground,
           \/ pass'.pc \notin {"store", "index"}
           \/ UNCHANGED <<pass, object, event, row>>
    PROVE  PassInv'
<1>1. CASE pass'.pc \notin {"store", "index"}
  BY <1>1 DEF PassInv
<1>2. CASE UNCHANGED <<pass, object, event, row>>
  <2>1. pass.pc = "index" /\ pass.act = "upload" => Settled(pass.L.val)'
    BY <1>2, SettledPass
  <2> QED BY <1>2, <2>1, Parts DEF PassInv
<1> QED BY <1>1, <1>2

\* AskInv: the same, and an object may be replaced by one the row is not of.
LEMMA AskBy ==
    ASSUME Ground, policy' = policy,
           \/ pass'.pc \notin {"run", "store"}
           \/ UNCHANGED <<pass, row>> /\ (object' = object \/ object'.val = changes + 1 \/ object' = NoObject)
    PROVE  AskInv'
<1>1. CASE pass'.pc \notin {"run", "store"}
  BY <1>1 DEF AskInv
<1>2. CASE /\ UNCHANGED <<pass, row>>
           /\ object' = object \/ object'.val = changes + 1 \/ object' = NoObject
  <2> SUFFICES ASSUME policy = "ask", pass.pc \in {"run", "store"}
               PROVE  /\ pass.act \in {"download", "delete_local"} =>
                            pass.L = NoFile \/ Settled(pass.L.val)'
                      /\ pass.act # "delete_remote"
                      /\ pass.pc = "run" /\ pass.act = "upload" =>
                            row = NoRow \/ row.val \in known' \/ object'.val # row.val
    BY <1>2 DEF AskInv, Settled, Gone
  <2>1. /\ pass.act \in {"download", "delete_local"} => pass.L = NoFile \/ Settled(pass.L.val)
        /\ pass.act # "delete_remote"
        /\ pass.pc = "run" /\ pass.act = "upload" =>
              row = NoRow \/ row.val \in known \/ object.val # row.val
    BY Parts DEF AskInv
  <2>2. pass.L # NoFile /\ Settled(pass.L.val) => Settled(pass.L.val)'
    <3> SUFFICES ASSUME pass.L # NoFile, Settled(pass.L.val)
                 PROVE  Settled(pass.L.val)'
      OBVIOUS
    <3>1. pass.L.val \in 1..changes
      BY Parts, Vals
    <3> QED BY <1>2, <3>1, Parts DEF Kept, Settled, Gone
  <2>3. row # NoRow => row.val # 0 /\ row.val # changes + 1
    BY Parts, Vals, SMTT(60)
  <2>4. NoObject.val = 0 /\ known \subseteq known'
    BY Parts DEF NoObject, None, Kept
  <2> QED BY <1>2, <2>1, <2>2, <2>3, <2>4
<1> QED BY <1>1, <1>2

\* ResolverInv: the same for a resolution.
LEMMA ResolverBy ==
    ASSUME Ground,
           \/ resolver'.pc \in {"off", "head", "get"}
           \/ UNCHANGED <<resolver, object, event, row>>
    PROVE  ResolverInv'
<1>1. CASE resolver'.pc \in {"off", "head", "get"}
  BY <1>1 DEF ResolverInv
<1>2. CASE UNCHANGED <<resolver, object, event, row>>
  <2>1. resolver.pc = "put" => (\/ object.val \in known' \cup {resolver.rec.remote.val}
                                \/ object.val # resolver.got)
    BY Parts DEF ResolverInv, Kept
  <2>2. resolver.pc = "index" =>
          /\ Settled(resolver.L.val)'
          /\ event = "own" /\ object.ok => object.val = resolver.L.val
    BY <1>2, SettledResolver, Parts DEF ResolverInv
  <2>3. resolver.pc = "finish" =>
          /\ Settled(resolver.L.val)'
          /\ resolver.keep = "remote" =>
                /\ resolver.L.val = resolver.R.val \/ Gone(resolver.R.val)'
                /\ Settled(resolver.R.val)'
                /\ (resolver.R.etag = object.etag /\ object.ok /\ object # NoObject) =>
                      resolver.L.val = object.val
    BY <1>2, SettledResolver, Parts DEF ResolverInv
  <2> QED BY <1>2, <2>1, <2>2, <2>3, Parts DEF ResolverInv
<1> QED BY <1>1, <1>2

-----------------------------------------------------------------------------
(* One lemma per action: what it does to the two sides.                    *)

\* The steps that only end a pass or a resolution.
LEMMA SyncOver ==
    ASSUME Ground,
           NothingToDo \/ PassFails \/ TransferFails \/ ResolveRefused \/ ResolveFails \/ Crash
    PROVE  SyncInv'
<1>1. /\ UNCHANGED <<policy, local, object, event, row, base, conflict>>
      /\ pass' \in {pass, NoPass} /\ resolver' \in {resolver, NoResolution}
  <2>1. CASE NothingToDo
    BY <2>1 DEF NothingToDo, EndPass, config, bucket
  <2>2. CASE PassFails
    BY <2>2 DEF PassFails, EndPass, config, bucket
  <2>3. CASE TransferFails
    BY <2>3 DEF TransferFails, EndPass, config, bucket
  <2>4. CASE ResolveRefused
    BY <2>4 DEF ResolveRefused, config, bucket, index
  <2>5. CASE ResolveFails
    BY <2>5 DEF ResolveFails, config, bucket, index
  <2>6. CASE Crash
    BY <2>6 DEF Crash, config, bucket, index
  <2> QED BY <2>1, <2>2, <2>3, <2>4, <2>5, <2>6
<1>2. /\ NoPass.pc = "off" /\ NoPass.L = NoFile /\ NoResolution.pc = "off"
      /\ NoResolution.L = NoFile /\ NoResolution.R = NoRow /\ NoFile.val = None
  BY DEF NoPass, NoResolution, NoFile
<1>3. InHand'
  BY <1>1, <1>2, Parts DEF InHand
<1>4. Sized' /\ HashesTell'
  <2>1. FreshHash \notin Hashes
    BY HashIsFresh
  <2> QED BY <1>1, <1>2, <2>1, Sides, SidesBy
<1>5. Met'
  BY <1>1, <1>2, MetBy
<1>6. Unseen' /\ BaseInv'
  BY <1>1, UnseenBy, BaseBy
<1>7. RowInv' /\ PassInv' /\ AskInv' /\ ResolverInv'
  BY <1>1, <1>2, RowBy, PassBy, AskBy, ResolverBy
<1> QED BY <1>3, <1>4, <1>5, <1>6, <1>7 DEF SyncInv

\* WriteLocal: a content nobody else has.
LEMMA SyncWriteLocal ==
    ASSUME Ground, WriteLocal
    PROVE  SyncInv'
<1>1. /\ UNCHANGED <<policy, object, event, row, base, conflict, pass, resolver>>
      /\ local' = [val |-> changes + 1, hash |-> FreshHash, size |-> Plain(changes + 1),
                   bytes |-> TRUE]
  BY DEF WriteLocal, config, bucket, index
<1>2. changes + 1 \in Nat /\ changes \in Nat
  BY Parts, Rest, SMTT(60)
<1>3. InHand'
  BY <1>1, Parts DEF InHand
<1>4. Sized' /\ HashesTell'
  <2>1. Side(local', FreshHash, changes + 1)
    BY <1>1, <1>2, Parts, HalfOf DEF Side, Tells
  <2>2. FreshHash \notin Hashes
    BY HashIsFresh
  <2> QED BY <1>1, <2>1, <2>2, Sides, SidesBy
<1>5. Met'
  <2>1. local'.val # object.val /\ local'.val # row.val
    BY <1>1, <1>2, Parts, Vals, SMTT(60)
  <2> QED BY <1>1, <2>1, MetBy
<1>6. Unseen' /\ BaseInv'
  BY <1>1, UnseenBy, BaseBy
<1>7. RowInv'
  <2>1. local' # NoFile /\ local'.val # row.val
    BY <1>1, <1>2, Parts, Vals, SMTT(60) DEF NoFile, None
  <2> QED BY <1>1, <2>1, Parts DEF RowInv
<1>8. PassInv' /\ AskInv' /\ ResolverInv'
  BY <1>1, PassBy, AskBy, ResolverBy
<1> QED BY <1>3, <1>4, <1>5, <1>6, <1>7, <1>8 DEF SyncInv

\* WriteBucket: an object with an ETag no row has.
LEMMA SyncWriteBucket ==
    ASSUME Ground, WriteBucket
    PROVE  SyncInv'
<1>1. /\ UNCHANGED <<policy, local, row, base, conflict, pass, resolver, known>>
      /\ event' = "external"
      /\ object' = [val |-> changes + 1, etag |-> FreshETag, hash |-> None,
                    size |-> Plain(changes + 1), ok |-> TRUE]
  BY DEF WriteBucket, config, index
<1>2. changes + 1 \in Nat /\ changes \in Nat
  BY Parts, Rest, SMTT(60)
<1>3. /\ object'.val = changes + 1 /\ object'.etag = FreshETag /\ object'.hash = None
      /\ object'.ok /\ object'.size = Plain(changes + 1)
  BY <1>1
<1>4. /\ FreshETag \notin ETags
      /\ FreshETag \notin {row.etag, conflict.remote.etag, resolver.R.etag, base.retag}
  BY ETagIsFresh DEF ETags
<1>5. /\ changes + 1 \notin {local.val, pass.L.val, row.val, resolver.R.val, conflict.remote.val}
      /\ changes + 1 \notin {resolver.got} /\ changes + 1 \notin known
  BY <1>2, Parts, Vals, Fields, SMTT(60)
<1>6. InHand'
  BY <1>1, Parts DEF InHand
<1>7. Sized' /\ HashesTell'
  <2>1. FreshHash \notin Hashes
    BY HashIsFresh
  <2>2. Half(object'.size) = object'.val
    BY <1>2, <1>3, Parts, HalfOf
  <2> QED BY <1>1, <2>1, <2>2, Sides, SidesBy
<1>8. Met'
  BY <1>1, <1>3, <1>5, MetBy
<1>9. Unseen'
  BY <1>1, <1>3, <1>4, <1>5 DEF Unseen
<1>10. BaseInv'
  BY <1>1, <1>3, <1>4, BaseBy
<1>11. RowInv'
  BY <1>1, <1>3, <1>4 DEF RowInv
<1>12. PassInv'
  <2>1. pass.pc = "index" /\ pass.act = "upload" => Settled(pass.L.val)'
    BY <1>1, SettledPass
  <2> QED BY <1>1, <1>3, <1>4, <1>5, <2>1 DEF PassInv
<1>13. AskInv'
  BY <1>1, <1>3, AskBy
<1>14. ResolverInv'
  BY <1>1, <1>3, <1>4, <1>5, SettledResolver DEF ResolverInv
<1> QED BY <1>6, <1>7, <1>8, <1>9, <1>10, <1>11, <1>12, <1>13, <1>14 DEF SyncInv

\* DeleteBucket: nothing agrees with no object.
LEMMA SyncDeleteBucket ==
    ASSUME Ground, DeleteBucket
    PROVE  SyncInv'
<1>1. /\ UNCHANGED <<policy, local, row, base, conflict, pass, resolver, known>>
      /\ event' = "external" /\ object' = NoObject
  BY DEF DeleteBucket, config, index
<1>2. NoObject.val = 0 /\ NoObject.etag = 0 /\ None = 0
  BY DEF NoObject, None
<1>3. InHand'
  BY <1>1, Parts DEF InHand
<1>4. Sized' /\ HashesTell'
  <2>1. FreshHash \notin Hashes
    BY HashIsFresh
  <2> QED BY <1>1, <2>1, Sides, SidesBy
<1>5. Met'
  BY <1>1, <1>2, MetBy
<1>6. Unseen' /\ BaseInv' /\ RowInv'
  BY <1>1, BaseBy DEF Unseen, RowInv
<1>7. PassInv'
  <2>1. pass.pc = "index" /\ pass.act = "upload" => Settled(pass.L.val)'
    BY <1>1, SettledPass
  <2>2. pass.pc = "store" => row.val # 0
    <3>1. pass.pc = "store" => pass.R # NoRow /\ pass.R = row
      BY Parts DEF WholeInv, PassWhole, InHand
    <3> QED BY <3>1, Parts, Vals, SMTT(60)
  <2> QED BY <1>1, <1>2, <2>1, <2>2 DEF PassInv
<1>8. AskInv'
  BY <1>1, AskBy
<1>9. ResolverInv'
  <2>1. /\ resolver.pc = "put" => resolver.got # 0
        /\ resolver.pc = "store" => resolver.R.etag # 0 /\ resolver.R.val # 0
    BY <1>2, Parts DEF WholeInv, ResolverWhole, Named
  <2> QED BY <1>1, <1>2, <2>1, SettledResolver DEF ResolverInv
<1> QED BY <1>3, <1>4, <1>5, <1>6, <1>7, <1>8, <1>9 DEF SyncInv

\* ApplyEvents: a row that gets the ETag of an object that is not its own is
\* of a content the local file has left.
LEMMA SyncApplyEvents ==
    ASSUME Ground, ApplyEvents
    PROVE  SyncInv'
<1>1. /\ UNCHANGED <<policy, local, object, base, conflict, pass, resolver, known>>
      /\ event' = "none" /\ pass.pc = "off" /\ resolver.pc = "off"
  BY Parts, CalmBegins DEF ApplyEvents, config
<1>2. \/ row' = row /\ (event = "own" => row = NoRow)
      \/ row' = [row EXCEPT !.etag = object.etag] /\ row # NoRow /\ event = "own"
      \/ row' = NoRow /\ object = NoObject
      \/ row' = Listed /\ row.etag # object.etag
  BY DEF ApplyEvents
<1>3. /\ Listed.val = object.val /\ Listed.etag = object.etag /\ Listed.hash = None
      /\ Listed.size = object.size /\ NoRow.val = None
  BY DEF Listed, NoRow
<1>4. row \in RowType
  BY Parts DEF TypeOK
<1>5. row' = [row EXCEPT !.etag = object.etag] =>
         /\ row'.val = row.val /\ row'.etag = object.etag /\ row'.size = row.size
         /\ row'.hash = row.hash
  BY <1>4 DEF RowType
<1>6. InHand'
  BY <1>1 DEF InHand
<1>7. Sized' /\ HashesTell'
  <2>1. FreshHash \notin Hashes
    BY HashIsFresh
  <2>2. Side(row', FreshHash, 0)
    <3>1. Side(row, FreshHash, 0) /\ Side(NoRow, FreshHash, 0) /\ Half(object.size) = object.val
      BY Sides
    <3>2. Side(Listed, FreshHash, 0)
      BY <1>3, <3>1 DEF Side, Tells
    <3> QED BY <1>2, <1>5, <3>1, <3>2 DEF Side
  <2> QED BY <1>1, <2>1, <2>2, Sides, SidesBy
<1>8. Met'
  <2>1. row'.val \in {row.val, object.val, None}
    BY <1>2, <1>3, <1>5
  <2> QED BY <1>1, <2>1, MetBy
<1>9. Unseen'
  <2> SUFFICES ASSUME object # NoObject, object.val \notin known
               PROVE  row'.val = object.val <=> row'.etag = object.etag
    BY <1>1, Parts DEF Unseen
  <2>1. event # "own" /\ (row.val = object.val <=> row.etag = object.etag)
    BY Parts DEF Unseen
  <2> QED BY <1>2, <1>3, <2>1
<1>10. BaseInv'
  BY <1>1, BaseBy
<1>11. RowInv'
  <2> SUFFICES ASSUME row' # NoRow, object # NoObject, object.ok, row'.val # object.val,
                      row'.etag = object.etag
               PROVE  local # NoFile /\ local.val # row'.val
    BY <1>1 DEF RowInv
  <2>1. row # NoRow /\ row'.val = row.val /\ (event = "own" \/ row.etag = object.etag)
    BY <1>2, <1>3, <1>5
  <2> QED BY <2>1, Parts DEF RowInv
<1>12. PassInv' /\ AskInv' /\ ResolverInv'
  BY <1>1, PassBy, AskBy, ResolverBy
<1> QED BY <1>6, <1>7, <1>8, <1>9, <1>10, <1>11, <1>12 DEF SyncInv

\* BeginPass: the row as it is, or as a listing shows the object.
LEMMA SyncBeginPass ==
    ASSUME Ground, NEW kind \in Kinds, BeginPass(kind)
    PROVE  SyncInv'
<1>1. /\ UNCHANGED <<policy, local, object, event, base, conflict, resolver, known>>
      /\ resolver.pc = "off"
      /\ row' = row \/ row' = Listed
      /\ pass' = [NoPass EXCEPT !.pc = "loading", !.kind = kind, !.R = row']
  BY Parts, CalmBegins DEF BeginPass, config, bucket
<1>2. pass'.pc = "loading" /\ pass'.L = NoFile /\ pass'.R = row' /\ NoFile.val = None
  BY <1>1 DEF NoPass, NoFile
<1>3. /\ Listed.val = object.val /\ Listed.etag = object.etag /\ Listed.hash = None
      /\ Listed.size = object.size
  BY DEF Listed
<1>4. InHand'
  BY <1>1, <1>2 DEF InHand
<1>5. Sized' /\ HashesTell'
  <2>1. FreshHash \notin Hashes
    BY HashIsFresh
  <2>2. Side(row', FreshHash, 0)
    <3>1. Side(row, FreshHash, 0) /\ Half(object.size) = object.val
      BY Sides
    <3>2. Side(Listed, FreshHash, 0)
      BY <1>3, <3>1 DEF Side, Tells
    <3> QED BY <1>1, <3>1, <3>2
  <2> QED BY <1>1, <1>2, <2>1, <2>2, Sides, SidesBy
<1>6. Met'
  BY <1>1, <1>2, <1>3, MetBy
<1>7. Unseen'
  BY <1>1, <1>3, Parts DEF Unseen
<1>8. BaseInv'
  BY <1>1, BaseBy
<1>9. RowInv'
  <2>1. CASE row' = row
    BY <1>1, <1>2, <2>1, RowBy
  <2>2. CASE row' = Listed
    BY <1>1, <1>3, <2>2 DEF RowInv
  <2> QED BY <1>1, <2>1, <2>2
<1>10. PassInv' /\ AskInv' /\ ResolverInv'
  BY <1>1, <1>2, PassBy, AskBy, ResolverBy
<1> QED BY <1>4, <1>5, <1>6, <1>7, <1>8, <1>9, <1>10 DEF SyncInv

\* loadConflictState: the pass reads what is stored.
LEMMA SyncLoad ==
    ASSUME Ground, loadConflictState
    PROVE  SyncInv'
<1>1. UNCHANGED <<policy, local, object, event, row, base, conflict, resolver, known>>
  BY DEF loadConflictState, config, bucket, index
<1>2. pass \in PassType
  BY Parts DEF TypeOK
<1>3. /\ pass.pc \in {"loading", "baselines", "conflicts"} /\ pass'.R = pass.R
      /\ pass'.pc \in {"baselines", "conflicts", "plan"}
      /\ \/ pass'.L = local
         \/ pass'.L = pass.L /\ pass.pc \notin {"off", "loading"}
      /\ pass'.pc \in {"conflicts", "plan"} =>
            \/ pass'.base = base
            \/ pass'.base = pass.base /\ pass.pc = "conflicts"
      /\ pass'.pc = "plan" => pass'.open = conflict
  <2>1. CASE pass.pc = "loading" /\ pass' = [pass EXCEPT !.pc = "baselines", !.L = local]
    BY <1>2, <2>1 DEF PassType
  <2>2. CASE pass.pc = "baselines" /\ pass' = [pass EXCEPT !.pc = "conflicts", !.base = base]
    BY <1>2, <2>2 DEF PassType
  <2>3. CASE pass.pc = "conflicts" /\ pass' = [pass EXCEPT !.pc = "plan", !.open = conflict]
    BY <1>2, <2>3 DEF PassType
  <2> QED BY <2>1, <2>2, <2>3 DEF loadConflictState
<1>4. InHand'
  BY <1>1, <1>3, Parts DEF InHand
<1>5. Sized' /\ HashesTell'
  <2>1. FreshHash \notin Hashes
    BY HashIsFresh
  <2> QED BY <1>1, <1>3, <2>1, Sides, SidesBy
<1>6. Met'
  BY <1>1, <1>3, MetBy
<1>7. Unseen' /\ BaseInv' /\ RowInv'
  BY <1>1, <1>3, UnseenBy, BaseBy, RowBy
<1>8. PassInv' /\ AskInv' /\ ResolverInv'
  BY <1>1, <1>3, PassBy, AskBy, ResolverBy
<1> QED BY <1>4, <1>5, <1>6, <1>7, <1>8 DEF SyncInv

\* A file unchanged since the baseline is the content the baseline is of.
LEMMA LocalSame ==
    ASSUME Sized, HashesTell, NEW file \in {local, pass.L}, ~localChangedSince(file, base)
    PROVE  Half(base.size) = file.val
<1>1. Half(file.size) = file.val
  BY DEF Sized
<1>2. <<file.hash, file.val>> \in HashVals /\ <<base.hash, Half(base.size)>> \in HashVals
  BY DEF HashVals
<1>3. \A a, b, c : <<a, b>> \in HashVals /\ <<a, c>> \in HashVals /\ a # None => b = c
  BY DEF HashesTell
<1>4. CASE file.hash # None /\ base.hash # None
  BY <1>2, <1>3, <1>4 DEF localChangedSince
<1>5. CASE ~(file.hash # None /\ base.hash # None)
  BY <1>1, <1>5 DEF localChangedSince
<1> QED BY <1>4, <1>5

\* A row unchanged since the baseline is, too, or has the ETag it had.
LEMMA RowSame ==
    ASSUME Sized, HashesTell, ~remoteChangedSince(row, base)
    PROVE  Half(base.rsize) = row.val \/ (row.etag # None /\ row.etag = base.retag)
<1>1. Half(row.size) = row.val
  BY DEF Sized
<1>2. <<row.hash, row.val>> \in HashVals /\ <<base.rhash, Half(base.rsize)>> \in HashVals
  BY DEF HashVals
<1>3. \A a, b, c : <<a, b>> \in HashVals /\ <<a, c>> \in HashVals /\ a # None => b = c
  BY DEF HashesTell
<1>4. CASE row.hash # None /\ base.rhash # None
  BY <1>2, <1>3, <1>4 DEF remoteChangedSince
<1>5. CASE ~(row.hash # None /\ base.rhash # None)
  BY <1>1, <1>5 DEF remoteChangedSince
<1> QED BY <1>4, <1>5

\* What a plan rests on: the baseline it notes is of two sides of one size,
\* and under `ask` a transfer replaces what has not changed.
LEMMA PlanRests ==
    ASSUME TypeOK, NEW d \in build(pass.L, pass.R)
    PROVE  /\ d.base # NoBase => /\ d.base = agreed(pass.L, pass.R)
                                 /\ pass.L # NoFile /\ pass.R # NoRow
                                 /\ pass.L.size = pass.R.size
           /\ policy = "ask" =>
                 /\ d.act # "delete_remote"
                 /\ d.act \in {"download", "delete_local"} =>
                       \/ pass.L = NoFile
                       \/ pass.base # NoBase /\ ~localChangedSince(pass.L, pass.base)
                       \/ pass.R # NoRow /\ pass.L.size = pass.R.size
                 /\ d.act = "upload" =>
                       \/ pass.R = NoRow
                       \/ pass.base # NoBase /\ ~remoteChangedSince(pass.R, pass.base)
                       \/ pass.L # NoFile /\ pass.L.size = pass.R.size
<1>1. CASE pass.L = NoFile /\ pass.R = NoRow
  <2>1. d = Decision("none")
    BY <1>1 DEF build
  <2> QED BY <2>1 DEF Decision
<1>2. CASE pass.L # NoFile /\ pass.R = NoRow
  <2>1. d = LocalOnlyPlan(pass.L)
    BY <1>2 DEF build
  <2>2. /\ d.base = NoBase /\ d.act # "download" /\ d.act # "delete_remote"
        /\ d.act = "delete_local" /\ policy = "ask" =>
              pass.base # NoBase /\ ~localChangedSince(pass.L, pass.base)
    BY <2>1 DEF LocalOnlyPlan, Decision, deleteLocalLeftovers
  <2> QED BY <1>2, <2>2
<1>3. CASE pass.L = NoFile /\ pass.R # NoRow
  <2>1. d = RemoteOnlyPlan
    BY <1>3 DEF build
  <2>2. /\ d.base = NoBase /\ d.act # "upload"
        /\ policy = "ask" => d.act # "delete_remote"
    BY <2>1 DEF RemoteOnlyPlan, Decision, deleteRemoteLeftovers
  <2> QED BY <1>3, <2>2
<1>4. CASE pass.L # NoFile /\ pass.R # NoRow
  <2> DEFINE changed == pass.kind = "scoped" /\ noticed = "changed"
  <2>1. d \in BothPlans(pass.L, pass.R)
    BY <1>4 DEF build
  <2>2. CASE /\ pass.base # NoBase /\ ~localChangedSince(pass.L, pass.base)
             /\ d = Decision("download")
    BY <2>2 DEF Decision
  <2>3. CASE d \in ConflictPlans(pass.L, pass.R, changed)
    <3>1. d.base = NoBase /\ d.act \in {"none", "upload", "download"}
      <4>1. \/ \E a \in {"none", "upload", "download"} : d = Decision(a)
            \/ \E b \in BOOLEAN : d = [Decision("none") EXCEPT !.open = b]
            \/ \E b \in BOOLEAN, how \in {"upload", "download"} : d = [Decision(how) EXCEPT !.close = b]
        BY <2>3, ConflictPlanIs, SMTT(60)
      <4> QED BY <4>1, SMTT(60) DEF Decision
    <3>2. ASSUME policy = "ask"
          PROVE  /\ d.act = "download" => classify(pass.L, pass.R, pass.base) = "remote"
                 /\ d.act = "upload" => classify(pass.L, pass.R, pass.base) = "local"
      <4>1. resolve_conflict = {"ask"}
        BY <3>2 DEF resolve_conflict
      <4> QED BY <2>3, <3>2, <4>1, SMTT(60) DEF ConflictPlans, Decision
    <3>3. /\ classify(pass.L, pass.R, pass.base) = "remote" =>
                pass.base # NoBase /\ ~localChangedSince(pass.L, pass.base)
          /\ classify(pass.L, pass.R, pass.base) = "local" =>
                pass.base # NoBase /\ ~remoteChangedSince(pass.R, pass.base)
      BY DEF classify
    <3> QED BY <3>1, <3>2, <3>3
  <2>4. CASE /\ ~hasPotentialConflict(pass.L, pass.R)
             /\ \E a \in decideForBoth(pass.L, pass.R), b \in BOOLEAN :
                   \/ d = [Decision(a) EXCEPT !.base = NoBase, !.close = b]
                   \/ d = [Decision(a) EXCEPT !.base = agreed(pass.L, pass.R), !.close = b]
    <3>1. pass.L.size = pass.R.size
      BY <2>4 DEF hasPotentialConflict
    <3>2. decideForBoth(pass.L, pass.R) \subseteq {"none", "upload", "download"}
      BY FileSyncAssumption DEF decideForBoth, TypeOK
    <3> QED BY <1>4, <2>4, <3>1, <3>2 DEF Decision
  <2> QED BY <2>1, <2>2, <2>3, <2>4 DEF BothPlans
<1> QED BY <1>1, <1>2, <1>3, <1>4

\* planPass: what it notes is of one content, and under `ask` what it will replace is settled.
LEMMA SyncPlan ==
    ASSUME Ground, planPass
    PROVE  SyncInv'
<1>1. PICK d \in build(pass.L, pass.R) :
         /\ pass' = [pass EXCEPT !.pc = "run", !.act = d.act]
         /\ base' = IF d.base # NoBase /\ local # NoFile THEN d.base ELSE base
         /\ conflict' =
               IF d.close THEN NoConflict
               ELSE IF d.open /\ local # NoFile
               THEN [id |-> IF conflict # NoConflict THEN conflict.id
                            ELSE CHOOSE n \in 1..3 : n \notin {resolver.rec.id, pass.open.id},
                     local |-> pass.L, remote |-> pass.R]
               ELSE conflict
  BY DEF planPass
<1>2. UNCHANGED <<policy, local, object, event, row, resolver, known>> /\ pass.pc = "plan"
  BY DEF planPass, config, bucket, index
<1>3. /\ pass'.pc = "run" /\ pass'.act = d.act /\ pass'.L = pass.L /\ pass'.R = pass.R
  BY <1>1, Parts DEF TypeOK, PassType
<1>4. pass.R = row /\ pass.base = base /\ resolver.pc = "off"
  BY <1>2, Parts DEF InHand
<1>5. \/ conflict' = NoConflict \/ conflict' = conflict
      \/ conflict'.local = pass.L /\ conflict'.remote = row
  BY <1>1, <1>4
<1>6. NoConflict.local = NoFile /\ NoConflict.remote = NoRow
  BY DEF NoConflict
<1>7. pass.L # NoFile => pass.L.val \in 1..changes
  BY Parts, Vals
<1>8. InHand'
  BY <1>2, <1>3, <1>4 DEF InHand
<1>9. Sized' /\ HashesTell'
  <2>1. FreshHash \notin Hashes
    BY HashIsFresh
  <2>2. base' = base \/ base' = agreed(pass.L, row)
    BY <1>1, <1>4, Parts, PlanRests
  <2>3. BaseSide(base', FreshHash, 0)
    BY <2>2, Sides, BaseSides
  <2>4. Side(conflict'.local, FreshHash, 0) /\ Side(conflict'.remote, FreshHash, 0)
    BY <1>5, <1>6, Sides
  <2> QED BY <1>2, <1>3, <2>1, <2>3, <2>4, Sides, SidesBy
<1>10. Met'
  BY <1>2, <1>3, MetBy
<1>11. Unseen'
  <2>1. CASE conflict' = NoConflict \/ conflict' = conflict
    BY <1>2, <2>1, UnseenBy
  <2>2. CASE conflict'.remote = row
    BY <1>2, <2>2, Parts DEF Unseen
  <2> QED BY <1>5, <2>1, <2>2
<1>12. BaseInv'
  <2>1. CASE base' = base
    BY <1>2, <2>1, BaseBy
  <2>2. CASE base' # base
    <3>1. /\ base' = agreed(pass.L, row) /\ pass.L # NoFile /\ row # NoRow
          /\ pass.L.size = row.size
      BY <1>1, <1>4, <2>2, Parts, PlanRests
    <3>2. /\ Half(pass.L.size) = pass.L.val /\ Half(row.size) = row.val
      BY Parts DEF Sized
    <3>3. /\ base'.size = pass.L.size /\ base'.rsize = row.size /\ base'.retag = row.etag
      BY <3>1 DEF agreed
    <3>4. pass.L.val = row.val /\ Settled(pass.L.val)
      BY <1>7, <3>1, <3>2, Parts, SMTT(60) DEF Met, None
    <3>5. Settled(pass.L.val)'
      <4>1. \A v \in 1..changes : Settled(v) => Settled(v)'
        BY Parts DEF Kept
      <4> QED BY <1>3, <1>7, <3>1, <3>4, <4>1 DEF Settled, Gone
    <3>6. row.etag # None /\ row.etag = object.etag /\ object.ok => pass.L.val = object.val
      <4> SUFFICES ASSUME row.etag # None, row.etag = object.etag, object.ok,
                          row.val # object.val
                   PROVE  FALSE
        BY <3>4
      <4>1. object # NoObject
        BY SMTT(60) DEF NoObject
      <4> QED BY <1>2, <3>1, <3>4, <4>1, Parts DEF RowInv
    <3>7. changes <= changes' /\ changes \in Nat /\ changes' \in Nat
      BY Parts DEF Kept, TypeOK
    <3>8. Half(base'.size) = pass.L.val /\ Half(base'.rsize) = pass.L.val /\ pass.L.val \in 1..changes'
      BY <1>7, <3>1, <3>2, <3>3, <3>4, <3>7, SMTT(60)
    <3> QED BY <1>2, <1>3, <3>3, <3>5, <3>6, <3>8 DEF BaseInv, Half, Settled, Gone
  <2> QED BY <2>1, <2>2
<1>13. RowInv'
  BY <1>2, <1>3, RowBy
<1>14. PassInv' /\ ResolverInv'
  BY <1>2, <1>3, PassBy, ResolverBy
<1>15. AskInv'
  <2> SUFFICES ASSUME policy = "ask"
               PROVE  /\ d.act \in {"download", "delete_local"} =>
                            pass.L = NoFile \/ Settled(pass.L.val)'
                      /\ d.act # "delete_remote"
                      /\ d.act = "upload" =>
                            row = NoRow \/ row.val \in known \/ object.val # row.val
    BY <1>2, <1>3 DEF AskInv, Settled, Gone
  <2>1. pass.R # NoRow /\ pass.L # NoFile /\ pass.L.size = pass.R.size =>
           Settled(pass.L.val) /\ pass.L.val = row.val
    BY <1>4, <1>7, Parts, SMTT(60) DEF Sized, Met, None
  <2>2. pass.base # NoBase /\ ~localChangedSince(pass.L, pass.base) => Settled(pass.L.val)
    BY <1>4, Parts, LocalSame DEF BaseInv
  <2>3. pass.L # NoFile /\ Settled(pass.L.val) => Settled(pass.L.val)'
    <3>1. \A v \in 1..changes : Settled(v) => Settled(v)'
      BY Parts DEF Kept
    <3> QED BY <1>3, <1>7, <3>1 DEF Settled, Gone
  <2>4. ASSUME d.act = "upload", row # NoRow, row.val \notin known, object.val = row.val
        PROVE  FALSE
    <3>1. ~Settled(row.val) /\ object # NoObject
      BY <2>4, Parts, Vals, SMTT(60) DEF Settled, Gone, NoObject, None
    <3>2. /\ base # NoBase /\ ~remoteChangedSince(row, base)
      BY <1>4, <2>1, <2>4, <3>1, Parts, PlanRests
    <3>3. Settled(Half(base.rsize)) /\ Settled(Half(base.size))
      BY <3>2, Parts DEF BaseInv
    <3>4. row.etag # None /\ row.etag = base.retag
      BY <3>1, <3>2, <3>3, Parts, RowSame
    <3>5. row.etag = object.etag /\ object.ok
      BY <2>4, <3>1, Parts DEF Unseen
    <3>6. Half(base.size) = object.val
      BY <3>2, <3>4, <3>5, Parts DEF BaseInv
    <3> QED BY <2>4, <3>1, <3>3, <3>6
  <2> QED BY <2>1, <2>2, <2>3, <2>4, Parts, PlanRests
<1> QED BY <1>8, <1>9, <1>10, <1>11, <1>12, <1>13, <1>14, <1>15 DEF SyncInv

\* An object that opens was sent from the file its row describes.
LEMMA SentTells ==
    ASSUME Ground, NEW L \in {pass.L, resolver.L}, CanSend(L)
    PROVE  /\ local # NoFile /\ local.val \in 1..changes
           /\ Sent(L).val = local.val /\ Sent(L).etag \notin ETags /\ Sent(L) # NoObject
           /\ Half(Sent(L).size) = Sent(L).val
           /\ Sent(L).ok => local.val = L.val
<1>1. local.bytes
  BY DEF CanSend
<1>2. local # NoFile
  BY <1>1, SMTT(60) DEF NoFile
<1>3. local.val \in 1..changes /\ local.val # None /\ local.val \in Nat
  BY <1>2, Parts, Vals, SMTT(60) DEF None
<1>4. local.hash # None
  BY <1>1, <1>2, Parts DEF WholeInv, StoredWhole, Solid
<1>5. /\ Sent(L).val = local.val /\ Sent(L).etag = FreshETag
      /\ Sent(L).size = Sealed(local.val) /\ (Sent(L).ok => local.hash = L.hash)
  BY DEF Sent
<1>6. Half(Sealed(local.val)) = local.val
  BY <1>3, Parts, HalfOf
<1>7. local.hash = L.hash => local.val = L.val
  <2>1. <<local.hash, local.val>> \in HashVals /\ <<L.hash, L.val>> \in HashVals
    BY DEF HashVals
  <2>2. \A a, b, c : <<a, b>> \in HashVals /\ <<a, c>> \in HashVals /\ a # None => b = c
    BY Parts DEF HashesTell
  <2> QED BY <1>4, <2>1, <2>2
<1>8. Sent(L) # NoObject
  BY <1>3, <1>5, SMTT(60) DEF NoObject
<1> QED BY <1>2, <1>3, <1>5, <1>6, <1>7, <1>8, ETagIsFresh

\* After an upload, the content its row describes is settled.
LEMMA SentSettles ==
    ASSUME Ground, NEW v \in 1..changes,
           UNCHANGED local, object'.val = local.val, known' = known \cup {local.val},
           pass'.pc # "store", resolver'.pc # "store"
    PROVE  Settled(v)'
BY DEF Settled, Gone

\* Upload: what the object had is replaced by the local content.
LEMMA SyncUpload ==
    ASSUME Ground, Upload
    PROVE  SyncInv'
<1>1. /\ UNCHANGED <<policy, local, row, conflict, resolver>>
      /\ object' = Sent(pass.L) /\ event' = "own" /\ known' = known \cup {local.val}
      /\ pass' = [pass EXCEPT !.pc = "index"] /\ pass.pc = "run" /\ pass.act = "upload"
      /\ CanSend(pass.L)
      /\ base' = afterUpload(pass.L) \/ base' = base
  BY DEF Upload, Doing, config, index
<1>2. /\ pass'.pc = "index" /\ pass'.act = "upload" /\ pass'.L = pass.L /\ pass'.R = pass.R
  BY <1>1, Parts DEF TypeOK, PassType
<1>3. resolver.pc = "off" /\ pass.R = row
  BY <1>1, Parts DEF InHand
<1>4. /\ local # NoFile /\ local.val \in 1..changes /\ object'.val = local.val
      /\ object'.etag \notin ETags /\ Half(object'.size) = object'.val
      /\ object'.ok => local.val = pass.L.val
  BY <1>1, SentTells
<1>5. pass.L # NoFile /\ pass.L.val \in 1..changes
  BY <1>1, Parts, Vals DEF WholeInv, PassWhole
<1>6. Settled(pass.L.val)'
  <2>1. \A v \in 1..changes : Settled(v)'
    BY <1>1, <1>2, <1>3, <1>4, SentSettles
  <2> QED BY <1>2, <1>5, <2>1 DEF Settled, Gone
<1>7. InHand'
  BY <1>1, <1>2, <1>3, Parts DEF InHand
<1>8. Sized' /\ HashesTell'
  <2>1. FreshHash \notin Hashes
    BY HashIsFresh
  <2>2. BaseSide(base', FreshHash, 0)
    BY <1>1, Sides, BaseSides
  <2> QED BY <1>1, <1>2, <1>4, <2>1, <2>2, Sides, SidesBy
<1>9. Met'
  BY <1>1, <1>2, <1>4, MetBy
<1>10. Unseen'
  BY <1>1, <1>4 DEF Unseen
<1>11. BaseInv'
  <2>1. CASE base' = base
    BY <1>4, <2>1, BaseBy
  <2>2. CASE base' = afterUpload(pass.L)
    <3>1. /\ base'.size = pass.L.size /\ base'.rsize = pass.L.size /\ base'.retag = None
          /\ Half(pass.L.size) = pass.L.val
      BY <2>2, Parts DEF afterUpload, Sized
    <3>2. changes <= changes' /\ changes \in Nat /\ changes' \in Nat
      BY Parts DEF Kept, TypeOK
    <3>3. Half(base'.size) = pass.L.val /\ Half(base'.rsize) = pass.L.val
          /\ pass.L.val \in 1..changes'
      BY <1>5, <3>1, <3>2, SMTT(60)
    <3> QED BY <1>2, <1>6, <3>1, <3>3 DEF BaseInv, Half, Settled, Gone
  <2> QED BY <1>1, <2>1, <2>2
<1>12. RowInv'
  BY <1>1, <1>2, <1>4, <1>5 DEF RowInv
<1>13. PassInv'
  BY <1>1, <1>2, <1>4, <1>6 DEF PassInv
<1>14. AskInv' /\ ResolverInv'
  BY <1>1, <1>2, <1>3, AskBy, ResolverBy
<1> QED BY <1>7, <1>8, <1>9, <1>10, <1>11, <1>12, <1>13, <1>14 DEF SyncInv

\* applyRemoteIndexMutation: the row is of the content sent, or there is none.
LEMMA SyncIndex ==
    ASSUME Ground, applyRemoteIndexMutation
    PROVE  SyncInv'
<1>1. /\ UNCHANGED <<policy, local, object, event, base, conflict, resolver, known>>
      /\ row' = IF pass.act = "upload" THEN RowOf(pass.L) ELSE NoRow
      /\ pass' = NoPass /\ pass.pc = "index"
  BY DEF applyRemoteIndexMutation, EndPass, config, bucket
<1>2. /\ NoPass.pc = "off" /\ NoPass.L = NoFile /\ NoFile.val = None /\ NoRow.val = None
      /\ NoRow.etag = None
  BY DEF NoPass, NoFile, NoRow
<1>3. resolver.pc = "off"
  BY <1>1, Parts DEF InHand
<1>4. /\ RowOf(pass.L).val = pass.L.val /\ RowOf(pass.L).hash = pass.L.hash
      /\ RowOf(pass.L).size = pass.L.size /\ RowOf(pass.L).etag = None
  BY DEF RowOf
<1>5. row'.etag = None /\ (row' = NoRow \/ (pass.act = "upload" /\ row'.val = pass.L.val))
  BY <1>1, <1>2, <1>4
<1>6. pass.act = "upload" =>
         /\ pass.L.val \in 1..changes /\ Settled(pass.L.val)
         /\ event = "own" /\ object.ok => object.val = pass.L.val
  <2>1. pass.act = "upload" => pass.L.val \in 1..changes
    BY <1>1, Parts, Vals DEF WholeInv, PassWhole
  <2> QED BY <1>1, <2>1, Parts DEF PassInv
<1>7. InHand'
  BY <1>1, <1>2, <1>3 DEF InHand
<1>8. Sized' /\ HashesTell'
  <2>1. FreshHash \notin Hashes
    BY HashIsFresh
  <2>2. Side(row', FreshHash, 0)
    <3>1. Side(pass.L, FreshHash, 0) /\ Side(NoRow, FreshHash, 0)
      BY Sides
    <3>2. Side(RowOf(pass.L), FreshHash, 0)
      BY <1>4, <3>1 DEF Side
    <3> QED BY <1>1, <3>1, <3>2
  <2> QED BY <1>1, <1>2, <2>1, <2>2, Sides, SidesBy
<1>9. Met'
  <2>1. ASSUME NEW v \in {local'.val, pass'.L.val} \ {None}, v \in {object'.val, row'.val}
        PROVE  \/ Settled(v)'
               \/ v \in {local.val, pass.L.val} /\ v \in {object.val, row.val}
    <3>1. CASE v = object.val
      BY <1>1, <1>2, <2>1, <3>1
    <3>2. CASE v = row'.val
      <4>1. v \in 1..changes /\ Settled(v)
        BY <1>2, <1>5, <1>6, <2>1, <3>2
      <4> QED BY <4>1, Parts DEF Kept
    <3> QED BY <1>1, <2>1, <3>1, <3>2
  <2> QED BY <2>1, MetBy
<1>10. Unseen'
  <2> SUFFICES ASSUME object # NoObject, object.val \notin known
               PROVE  row'.val # object.val /\ row'.etag # object.etag
    BY <1>1, Parts DEF Unseen
  <2>1. object.etag # None /\ object.val # None
    BY Parts, Vals, SMTT(60) DEF None
  <2> QED BY <1>2, <1>5, <1>6, <2>1 DEF Settled, Gone
<1>11. BaseInv'
  BY <1>1, BaseBy
<1>12. RowInv'
  <2>1. object # NoObject => object.etag # None
    BY Parts, Vals
  <2> QED BY <1>1, <1>2, <1>5, <1>6, <2>1 DEF RowInv
<1>13. PassInv' /\ AskInv' /\ ResolverInv'
  BY <1>1, <1>2, <1>3, PassBy, AskBy, ResolverBy
<1> QED BY <1>7, <1>8, <1>9, <1>10, <1>11, <1>12, <1>13 DEF SyncInv

\* DownloadGet: the content is the object's.
LEMMA SyncGet ==
    ASSUME Ground, DownloadGet
    PROVE  SyncInv'
<1>1. /\ UNCHANGED <<policy, local, object, event, row, base, conflict, resolver, known>>
      /\ pass' = [pass EXCEPT !.pc = "store", !.got = object.val]
      /\ pass.pc = "run" /\ pass.act = "download"
  BY DEF DownloadGet, Doing, config, bucket, index
<1>2. /\ pass'.pc = "store" /\ pass'.act = "download" /\ pass'.L = pass.L /\ pass'.R = pass.R
      /\ pass'.got = object.val
  BY <1>1, Parts DEF TypeOK, PassType
<1>3. resolver.pc = "off" /\ pass.R = row
  BY <1>1, Parts DEF InHand
<1>4. InHand'
  BY <1>1, <1>2, <1>3, Parts DEF InHand
<1>5. Sized' /\ HashesTell'
  <2>1. FreshHash \notin Hashes
    BY HashIsFresh
  <2> QED BY <1>1, <1>2, <2>1, Sides, SidesBy
<1>6. Met'
  BY <1>1, <1>2, MetBy
<1>7. Unseen' /\ BaseInv' /\ RowInv'
  BY <1>1, <1>2, UnseenBy, BaseBy, RowBy
<1>8. PassInv'
  BY <1>1, <1>2 DEF PassInv
<1>9. ResolverInv'
  BY <1>1, ResolverBy
<1>10. AskInv'
  <2> SUFFICES ASSUME policy = "ask", pass.L # NoFile
               PROVE  Settled(pass.L.val)'
    BY <1>1, <1>2 DEF AskInv, Settled, Gone
  <2>1. Settled(pass.L.val) /\ pass.L.val \in 1..changes
    BY <1>1, Parts, Vals DEF AskInv
  <2>2. \A v \in 1..changes : Settled(v) => Settled(v)'
    BY Parts DEF Kept
  <2> QED BY <1>2, <2>1, <2>2 DEF Settled, Gone
<1> QED BY <1>4, <1>5, <1>6, <1>7, <1>8, <1>9, <1>10 DEF SyncInv

\* A baseline of two sides taken together.
LEMMA AgreedBy ==
    ASSUME Ground, NEW u \in 1..changes, NEW w \in 1..changes, NEW e,
           Half(base'.size) = u, Half(base'.rsize) = w, base'.retag = e,
           Settled(u)', u = w \/ Gone(w)',
           e # None /\ e = object'.etag /\ object'.ok => u = object'.val
    PROVE  BaseInv'
<1>1. u \in 1..changes' /\ w \in 1..changes'
  BY Parts, SMTT(60) DEF Kept, TypeOK
<1>2. Settled(w)'
  BY DEF Settled
<1> QED BY <1>1, <1>2 DEF BaseInv, Half, Settled, Gone

\* DownloadStore: the local content is the one taken, the baseline of it and the row.
LEMMA SyncStore ==
    ASSUME Ground, DownloadStore
    PROVE  SyncInv'
<1>1. /\ UNCHANGED <<policy, object, event, row, conflict, resolver>>
      /\ local' = Stored(pass.got) /\ known' = known \cup {pass.got}
      /\ pass' = NoPass /\ pass.pc = "store"
      /\ base' = base \/ base' = agreed(local', pass.R)
  BY DEF DownloadStore, EndPass, config, bucket
<1>2. NoPass.pc = "off" /\ NoPass.L = NoFile /\ NoFile.val = None
  BY DEF NoPass, NoFile
<1>3. resolver.pc = "off" /\ pass.R = row
  BY <1>1, Parts DEF InHand
<1>4. pass.got \in 1..changes /\ pass.got # None /\ row # NoRow /\ row.val \in 1..changes
  <2>1. pass.got # None /\ pass.R # NoRow
    BY <1>1, Parts DEF WholeInv, PassWhole
  <2>2. pass.got \in 0..changes /\ changes \in Nat
    BY Parts DEF TypeOK, PassType
  <2> QED BY <1>3, <2>1, <2>2, Parts, Vals, SMTT(60) DEF None
<1> PICK g \in 1..changes : g = pass.got
  BY <1>4
<1> PICK r \in 1..changes : r = row.val
  BY <1>4
<1>5. /\ local'.val = g /\ local'.hash = FreshHash /\ Half(local'.size) = g
      /\ local' # NoFile
  <2>1. Half(Plain(g)) = g /\ g # None
    BY <1>4, Parts, HalfOf, SMTT(60)
  <2> QED BY <1>1, <1>2, <2>1, SMTT(60) DEF Stored
<1>6. \/ g = object.val
      \/ /\ event = "external" /\ object.val # r
         /\ object.etag = None \/ object.etag # row.etag
  BY <1>1, Parts DEF PassInv
<1>7. Side(local', FreshHash, g) /\ FreshHash \notin Hashes
  BY <1>5, HashIsFresh DEF Side, Tells
<1>8. InHand'
  BY <1>1, <1>2, <1>3 DEF InHand
<1>9. Sized' /\ HashesTell'
  <2>1. Side(row, FreshHash, g) /\ BaseSide(base, FreshHash, g)
    BY Sides
  <2>2. BaseSide(base', FreshHash, g)
    BY <1>1, <1>3, <1>7, <2>1, BaseSides
  <2> QED BY <1>1, <1>2, <1>7, <2>2, Sides, SidesBy
<1>10. Met'
  BY <1>1, <1>2, <1>5, MetBy
<1>11. Unseen'
  BY <1>1, UnseenBy
<1>12. BaseInv'
  <2>1. CASE base' = base
    BY <1>1, <2>1, BaseBy
  <2>2. CASE base' = agreed(local', row)
    <3>1. /\ Half(base'.size) = g /\ Half(base'.rsize) = r /\ base'.retag = row.etag
      BY <1>5, <2>2, Parts DEF agreed, Sized
    <3>2. Settled(g)'
      BY <1>1 DEF Settled
    <3>3. g = r \/ Gone(r)'
      BY <1>1, <1>2, <1>3, <1>5, <1>6 DEF Gone
    <3> QED BY <1>1, <1>6, <3>1, <3>2, <3>3, AgreedBy
  <2> QED BY <1>1, <1>3, <2>1, <2>2
<1>13. RowInv'
  <2>1. object # NoObject => object.etag # None
    BY Parts, Vals
  <2> QED BY <1>1, <1>2, <1>5, <1>6, <2>1 DEF RowInv
<1>14. PassInv' /\ AskInv' /\ ResolverInv'
  BY <1>1, <1>2, <1>3, PassBy, AskBy, ResolverBy
<1> QED BY <1>8, <1>9, <1>10, <1>11, <1>12, <1>13, <1>14 DEF SyncInv

\* indexAndDeleteFile: the local file is the row's.
LEMMA SyncIndexOnly ==
    ASSUME Ground, IndexRemoteOnly
    PROVE  SyncInv'
<1>1. /\ UNCHANGED <<policy, object, event, row, conflict, resolver>>
      /\ local' = [val |-> pass.R.val, hash |-> pass.R.hash, size |-> pass.R.size,
                   bytes |-> FALSE]
      /\ known' = known \cup {pass.R.val}
      /\ pass' = NoPass /\ pass.pc = "run" /\ pass.act = "index_only"
      /\ base' = base \/ base' = agreed(local', pass.R)
  BY DEF IndexRemoteOnly, Doing, EndPass, config, bucket
<1>2. NoPass.pc = "off" /\ NoPass.L = NoFile /\ NoFile.val = None
  BY DEF NoPass, NoFile
<1>3. resolver.pc = "off" /\ pass.R = row
  BY <1>1, Parts DEF InHand
<1>4. pass.L = NoFile /\ row # NoRow /\ row.val \in 1..changes
  <2>1. pass.L = NoFile /\ pass.R # NoRow
    BY <1>1, Parts DEF WholeInv, PassWhole
  <2> QED BY <1>3, <2>1, Parts, Vals
<1> PICK r \in 1..changes : r = row.val
  BY <1>4
<1>5. local'.val = r /\ local'.hash = row.hash /\ local'.size = row.size
  BY <1>1, <1>3
<1>6. object # NoObject /\ object.ok /\ (event = "own" \/ row.etag = object.etag) =>
         r = object.val
  BY <1>1, <1>4, Parts DEF RowInv
<1>7. Side(local', FreshHash, 0) /\ Side(row, FreshHash, 0)
  BY <1>5, Sides DEF Side
<1>8. InHand'
  BY <1>1, <1>2, <1>3 DEF InHand
<1>9. Sized' /\ HashesTell'
  <2>1. FreshHash \notin Hashes
    BY HashIsFresh
  <2>2. BaseSide(base', FreshHash, 0)
    BY <1>1, <1>3, <1>7, Sides, BaseSides
  <2> QED BY <1>1, <1>2, <1>7, <2>1, <2>2, Sides, SidesBy
<1>10. Met'
  BY <1>1, <1>2, <1>3, <1>5, MetBy
<1>11. Unseen'
  BY <1>1, UnseenBy
<1>12. BaseInv'
  <2>1. CASE base' = base
    BY <1>1, <2>1, BaseBy
  <2>2. CASE base' = agreed(local', row)
    <3>1. /\ Half(base'.size) = r /\ Half(base'.rsize) = r /\ base'.retag = row.etag
      BY <1>5, <2>2, Parts DEF agreed, Sized
    <3>2. Settled(r)'
      BY <1>1, <1>3 DEF Settled
    <3>3. NoObject.etag = None
      BY DEF NoObject
    <3> QED BY <1>1, <1>6, <3>1, <3>2, <3>3, AgreedBy
  <2> QED BY <1>1, <1>3, <2>1, <2>2
<1>13. RowInv'
  BY <1>1, <1>6 DEF RowInv
<1>14. PassInv' /\ AskInv' /\ ResolverInv'
  BY <1>1, <1>2, <1>3, PassBy, AskBy, ResolverBy
<1> QED BY <1>8, <1>9, <1>10, <1>11, <1>12, <1>13, <1>14 DEF SyncInv

\* removeLocally: nothing of the file stays.
LEMMA SyncDeleteLocal ==
    ASSUME Ground, DeleteLocal
    PROVE  SyncInv'
<1>1. /\ UNCHANGED <<policy, object, event, row, resolver, known>>
      /\ local' = NoFile /\ base' = NoBase /\ conflict' = NoConflict
      /\ pass' = NoPass /\ pass.pc = "run" /\ pass.act = "delete_local"
  BY DEF DeleteLocal, Doing, EndPass, config, bucket
<1>2. /\ NoPass.pc = "off" /\ NoPass.L = NoFile /\ NoFile.val = None
      /\ NoConflict.local = NoFile /\ NoConflict.remote = NoRow
  BY DEF NoPass, NoFile, NoConflict
<1>3. resolver.pc = "off" /\ row = NoRow
  BY <1>1, Parts DEF InHand, WholeInv, PassWhole
<1>4. InHand'
  BY <1>1, <1>2, <1>3 DEF InHand
<1>5. Sized' /\ HashesTell'
  <2>1. FreshHash \notin Hashes
    BY HashIsFresh
  <2> QED BY <1>1, <1>2, <2>1, Sides, SidesBy
<1>6. Met'
  BY <1>1, <1>2, MetBy
<1>7. Unseen'
  BY <1>1, UnseenBy
<1>8. BaseInv' /\ RowInv'
  BY <1>1, <1>3 DEF BaseInv, RowInv
<1>9. PassInv' /\ AskInv' /\ ResolverInv'
  BY <1>1, <1>2, <1>3, PassBy, AskBy, ResolverBy
<1> QED BY <1>4, <1>5, <1>6, <1>7, <1>8, <1>9 DEF SyncInv

\* DeleteRemote: there is no object, and its row is about to go.
LEMMA SyncDeleteRemote ==
    ASSUME Ground, DeleteRemote
    PROVE  SyncInv'
<1>1. /\ UNCHANGED <<policy, local, row, base, conflict, resolver, known>>
      /\ object' = NoObject /\ event' = "none"
      /\ pass' = [pass EXCEPT !.pc = "index"] /\ pass.pc = "run" /\ pass.act = "delete_remote"
  BY DEF DeleteRemote, Doing, config, index
<1>2. /\ pass'.pc = "index" /\ pass'.act = "delete_remote" /\ pass'.L = pass.L
      /\ pass'.R = pass.R
  BY <1>1, Parts DEF TypeOK, PassType
<1>3. resolver.pc = "off" /\ pass.R = row /\ NoObject.val = None
  BY <1>1, Parts DEF InHand, NoObject
<1>4. InHand'
  BY <1>1, <1>2, <1>3 DEF InHand
<1>5. Sized' /\ HashesTell'
  <2>1. FreshHash \notin Hashes
    BY HashIsFresh
  <2> QED BY <1>1, <1>2, <2>1, Sides, SidesBy
<1>6. Met'
  BY <1>1, <1>2, <1>3, MetBy
<1>7. BaseInv'
  BY <1>1, BaseBy
<1>8. Unseen' /\ RowInv' /\ PassInv'
  BY <1>1, <1>2 DEF Unseen, RowInv, PassInv
<1>9. AskInv' /\ ResolverInv'
  BY <1>1, <1>2, <1>3, AskBy, ResolverBy
<1> QED BY <1>4, <1>5, <1>6, <1>7, <1>8, <1>9 DEF SyncInv

\* resolve: a decision on the file as the conflict recorded it.
LEMMA SyncResolveBegin ==
    ASSUME Ground, NEW keep \in {"local", "remote"}, ResolveBegin(keep)
    PROVE  SyncInv'
<1>1. /\ UNCHANGED <<policy, local, object, event, row, base, conflict, pass, known>>
      /\ resolver' = [NoResolution EXCEPT !.pc = "head", !.keep = keep, !.rec = conflict,
                        !.L = local, !.R = IF row # NoRow THEN row ELSE conflict.remote]
      /\ pass.pc = "off"
      /\ sideMatches(LocalSide(conflict.local), local.hash, local.size, None)
  BY CalmBegins, Parts DEF ResolveBegin, config, bucket, index
<1>2. /\ resolver'.pc = "head" /\ resolver'.rec = conflict /\ resolver'.L = local
      /\ resolver'.R = row \/ resolver'.R = conflict.remote
  BY <1>1 DEF NoResolution
<1>3. local.val = conflict.local.val
  <2>1. local.size = conflict.local.size
    BY <1>1 DEF sideMatches, LocalSide
  <2> QED BY <2>1, Parts DEF Sized
<1>4. InHand'
  BY <1>1, <1>2, <1>3, Parts DEF InHand
<1>5. Sized' /\ HashesTell'
  <2>1. FreshHash \notin Hashes
    BY HashIsFresh
  <2>2. Side(resolver'.R, FreshHash, 0)
    BY <1>2, Sides
  <2> QED BY <1>1, <1>2, <2>1, <2>2, Sides, SidesBy, SMTT(60)
<1>6. Met'
  BY <1>1, MetBy
<1>7. Unseen' /\ BaseInv' /\ RowInv'
  BY <1>1, UnseenBy, BaseBy, RowBy
<1>8. PassInv' /\ AskInv' /\ ResolverInv'
  BY <1>1, <1>2, PassBy, AskBy, ResolverBy
<1> QED BY <1>4, <1>5, <1>6, <1>7, <1>8 DEF SyncInv

\* requireRemoteUnchanged: the object is the recorded one, or a known one.
LEMMA SyncResolveHead ==
    ASSUME Ground, ResolveHead
    PROVE  SyncInv'
<1>1. /\ UNCHANGED <<policy, local, object, event, row, base, conflict, pass, known>>
      /\ resolver.pc = "head" /\ RemoteUnchanged(resolver.rec.remote)
      /\ resolver' = IF resolver.keep = "local"
                     THEN [resolver EXCEPT !.pc = "put", !.got = object.val]
                     ELSE [resolver EXCEPT !.pc = "get", !.R.etag = object.etag]
  BY DEF ResolveHead, config, bucket, index
<1>2. /\ resolver'.rec = resolver.rec /\ resolver'.L = resolver.L
      /\ resolver'.R.hash = resolver.R.hash /\ resolver'.R.val = resolver.R.val
      /\ resolver'.R.size = resolver.R.size /\ resolver'.keep = resolver.keep
      /\ \/ resolver'.pc = "put" /\ resolver.keep = "local" /\ resolver'.got = object.val
         \/ resolver'.pc = "get" /\ resolver.keep # "local"
  <2>1. resolver \in ResolverType
    BY Parts DEF TypeOK
  <2>2. resolver.R \in RowType
    BY <2>1 DEF ResolverType
  <2> QED BY <1>1, <2>1, <2>2 DEF ResolverType, RowType
<1>3. pass.pc = "off" /\ conflict = resolver.rec /\ resolver.keep \in {"local", "remote"}
  BY <1>1, Parts DEF InHand, TypeOK, ResolverType
<1>4. object.val \in known \/ object.val = conflict.remote.val
  <2> SUFFICES ASSUME object.val \notin known
               PROVE  object.val = conflict.remote.val
    OBVIOUS
  <2>1. /\ object # NoObject
        /\ IF conflict.remote.etag # None THEN conflict.remote.etag = object.etag
           ELSE IF conflict.remote.hash # None /\ object.hash # None
           THEN conflict.remote.hash = object.hash
           ELSE \/ object.size = conflict.remote.size
                \/ object.hash # None /\ Encrypted /\ object.size = conflict.remote.size + 1
    BY <1>1, <1>3 DEF RemoteUnchanged
  <2>2. /\ object.hash = None
        /\ conflict.remote.etag = object.etag => conflict.remote.val = object.val
    BY <2>1, Parts DEF Unseen
  <2>3. Half(object.size) = object.val /\ Half(conflict.remote.size) = conflict.remote.val
    BY Parts DEF Sized
  <2>4. CASE conflict.remote.etag # None
    BY <2>1, <2>2, <2>4
  <2>5. CASE conflict.remote.etag = None
    <3>1. object.size = conflict.remote.size
      BY <2>1, <2>2, <2>5
    <3> QED BY <2>3, <3>1
  <2> QED BY <2>4, <2>5
<1>5. InHand'
  BY <1>1, <1>2, <1>3, Parts DEF InHand
<1>6. Sized' /\ HashesTell'
  <2>1. FreshHash \notin Hashes
    BY HashIsFresh
  <2>2. Side(resolver'.R, FreshHash, 0)
    BY <1>2, Sides DEF Side
  <2> QED BY <1>1, <1>2, <2>1, <2>2, Sides, SidesBy
<1>7. Met'
  BY <1>1, MetBy
<1>8. Unseen' /\ BaseInv' /\ RowInv'
  BY <1>1, UnseenBy, BaseBy, RowBy
<1>9. ResolverInv'
  BY <1>1, <1>2, <1>3, <1>4 DEF ResolverInv
<1>10. PassInv' /\ AskInv'
  BY <1>1, <1>3, PassBy, AskBy
<1> QED BY <1>5, <1>6, <1>7, <1>8, <1>9, <1>10 DEF SyncInv

\* The object is replaced by the local content.
LEMMA SyncResolvePut ==
    ASSUME Ground, ResolvePut
    PROVE  SyncInv'
<1>1. /\ UNCHANGED <<policy, local, row, base, conflict, pass>>
      /\ resolver.pc = "put" /\ CanSend(resolver.L)
      /\ object' = Sent(resolver.L) /\ event' = "own" /\ known' = known \cup {local.val}
      /\ resolver' = [resolver EXCEPT !.pc = "index"]
  BY DEF ResolvePut, config, index
<1>2. /\ resolver'.pc = "index" /\ resolver'.rec = resolver.rec /\ resolver'.L = resolver.L
      /\ resolver'.R = resolver.R /\ resolver'.keep = resolver.keep
  BY <1>1, Parts DEF TypeOK, ResolverType
<1>3. pass.pc = "off" /\ conflict = resolver.rec /\ resolver.keep = "local"
  BY <1>1, Parts DEF InHand
<1>4. /\ local # NoFile /\ local.val \in 1..changes /\ object'.val = local.val
      /\ object'.etag \notin ETags /\ Half(object'.size) = object'.val
      /\ object'.ok => local.val = resolver.L.val
  BY <1>1, SentTells
<1>5. resolver.L.val \in 1..changes
  BY <1>1, Parts, Vals DEF WholeInv, ResolverWhole
<1>6. Settled(resolver.L.val)'
  <2>1. \A v \in 1..changes : Settled(v)'
    BY <1>1, <1>2, <1>3, <1>4, SentSettles
  <2> QED BY <1>2, <1>5, <2>1 DEF Settled, Gone
<1>7. InHand'
  BY <1>1, <1>2, <1>3, Parts DEF InHand
<1>8. Sized' /\ HashesTell'
  <2>1. FreshHash \notin Hashes
    BY HashIsFresh
  <2> QED BY <1>1, <1>2, <1>4, <2>1, Sides, SidesBy
<1>9. Met'
  BY <1>1, <1>4, MetBy
<1>10. Unseen' /\ BaseInv'
  BY <1>1, <1>4, BaseBy DEF Unseen
<1>11. RowInv'
  BY <1>1, <1>3, <1>4 DEF RowInv
<1>12. ResolverInv'
  BY <1>1, <1>2, <1>4, <1>6 DEF ResolverInv
<1>13. PassInv' /\ AskInv'
  BY <1>1, <1>3, PassBy, AskBy
<1> QED BY <1>7, <1>8, <1>9, <1>10, <1>11, <1>12, <1>13 DEF SyncInv

\* The row is of the content sent.
LEMMA SyncResolveIndex ==
    ASSUME Ground, ResolveIndex
    PROVE  SyncInv'
<1>1. /\ UNCHANGED <<policy, local, object, event, base, conflict, pass, known>>
      /\ resolver.pc = "index" /\ row' = RowOf(resolver.L)
      /\ resolver' = [resolver EXCEPT !.pc = "finish"]
  BY DEF ResolveIndex, config, bucket
<1>2. /\ resolver'.pc = "finish" /\ resolver'.rec = resolver.rec /\ resolver'.L = resolver.L
      /\ resolver'.R = resolver.R /\ resolver'.keep = resolver.keep
  BY <1>1, Parts DEF TypeOK, ResolverType
<1>3. pass.pc = "off" /\ conflict = resolver.rec /\ resolver.keep = "local"
  BY <1>1, Parts DEF InHand
<1>4. resolver.L.val \in 1..changes
  BY <1>1, Parts, Vals DEF WholeInv, ResolverWhole
<1> PICK u \in 1..changes : u = resolver.L.val
  BY <1>4
<1>5. /\ Settled(u) /\ Settled(u)'
      /\ event = "own" /\ object.ok => object.val = u
  <2>1. /\ Settled(u)
        /\ event = "own" /\ object.ok => object.val = u
    BY <1>1, Parts DEF ResolverInv
  <2> QED BY <2>1, Parts DEF Kept
<1>6. /\ row'.val = u /\ row'.hash = resolver.L.hash /\ row'.size = resolver.L.size
      /\ row'.etag = None
  BY <1>1 DEF RowOf
<1>7. InHand'
  BY <1>1, <1>2, <1>3, Parts DEF InHand
<1>8. Sized' /\ HashesTell'
  <2>1. FreshHash \notin Hashes
    BY HashIsFresh
  <2>2. Side(row', FreshHash, 0)
    BY <1>6, Sides DEF Side
  <2> QED BY <1>1, <1>2, <2>1, <2>2, Sides, SidesBy
<1>9. Met'
  <2>1. ASSUME NEW v \in {local'.val, pass'.L.val} \ {None}, v \in {object'.val, row'.val}
        PROVE  \/ Settled(v)'
               \/ v \in {local.val, pass.L.val} /\ v \in {object.val, row.val}
    <3>1. CASE v = object.val
      BY <1>1, <2>1, <3>1
    <3>2. CASE v = u
      BY <1>5, <3>2
    <3> QED BY <1>1, <1>6, <2>1, <3>1, <3>2
  <2> QED BY <2>1, MetBy
<1>10. object # NoObject => object.etag # None
  BY Parts, Vals
<1>11. Unseen'
  BY <1>1, <1>5, <1>6, <1>10, Parts DEF Unseen, Settled, Gone
<1>12. BaseInv'
  BY <1>1, BaseBy
<1>13. RowInv'
  BY <1>1, <1>3, <1>5, <1>6, <1>10 DEF RowInv
<1>14. ResolverInv'
  <2>1. Settled(resolver.L.val)'
    BY <1>2, <1>5 DEF Settled, Gone
  <2> QED BY <1>2, <1>3, <2>1 DEF ResolverInv
<1>15. PassInv' /\ AskInv'
  BY <1>1, <1>3, PassBy, AskBy
<1> QED BY <1>7, <1>8, <1>9, <1>11, <1>12, <1>13, <1>14, <1>15 DEF SyncInv

\* The content is the object's.
LEMMA SyncResolveGet ==
    ASSUME Ground, ResolveGet
    PROVE  SyncInv'
<1>1. /\ UNCHANGED <<policy, local, object, event, row, base, conflict, pass, known>>
      /\ resolver.pc = "get" /\ resolver' = [resolver EXCEPT !.pc = "store", !.got = object.val]
  BY DEF ResolveGet, config, bucket, index
<1>2. /\ resolver'.pc = "store" /\ resolver'.rec = resolver.rec /\ resolver'.L = resolver.L
      /\ resolver'.R = resolver.R /\ resolver'.keep = resolver.keep /\ resolver'.got = object.val
  BY <1>1, Parts DEF TypeOK, ResolverType
<1>3. pass.pc = "off"
  BY <1>1, Parts DEF InHand
<1>4. InHand'
  BY <1>1, <1>2, <1>3, Parts DEF InHand
<1>5. Sized' /\ HashesTell'
  <2>1. FreshHash \notin Hashes
    BY HashIsFresh
  <2> QED BY <1>1, <1>2, <2>1, Sides, SidesBy
<1>6. Met'
  BY <1>1, MetBy
<1>7. Unseen' /\ BaseInv' /\ RowInv'
  BY <1>1, UnseenBy, BaseBy, RowBy
<1>8. ResolverInv'
  BY <1>1, <1>2 DEF ResolverInv
<1>9. PassInv' /\ AskInv'
  BY <1>1, <1>3, PassBy, AskBy
<1> QED BY <1>4, <1>5, <1>6, <1>7, <1>8, <1>9 DEF SyncInv

\* replaceLocalContent: the local content is the one taken.
LEMMA SyncResolveStore ==
    ASSUME Ground, ResolveStore
    PROVE  SyncInv'
<1>1. /\ UNCHANGED <<policy, object, event, row, base, conflict, pass>>
      /\ resolver.pc = "store" /\ local' = Stored(resolver.got)
      /\ known' = known \cup {resolver.got}
      /\ resolver' = [resolver EXCEPT !.pc = "finish", !.L = local']
  BY DEF ResolveStore, config, bucket, index
<1>2. /\ resolver'.pc = "finish" /\ resolver'.rec = resolver.rec /\ resolver'.L = local'
      /\ resolver'.R = resolver.R /\ resolver'.keep = resolver.keep
  BY <1>1, Parts DEF TypeOK, ResolverType
<1>3. pass.pc = "off" /\ conflict = resolver.rec /\ resolver.keep = "remote"
  BY <1>1, Parts DEF InHand
<1>4. /\ resolver.got \in 1..changes /\ resolver.got # None /\ resolver.R.val \in 1..changes
      /\ resolver.R.etag # None
  <2>1. resolver.got # None /\ resolver.R # NoRow /\ resolver.R.etag # None
    BY <1>1, Parts DEF WholeInv, ResolverWhole
  <2>2. resolver.got \in 0..changes /\ changes \in Nat
    BY Parts DEF TypeOK, ResolverType
  <2> QED BY <2>1, <2>2, Parts, Vals, SMTT(60) DEF None
<1> PICK g \in 1..changes : g = resolver.got
  BY <1>4
<1> PICK r \in 1..changes : r = resolver.R.val
  BY <1>4
<1>5. /\ local'.val = g /\ local'.hash = FreshHash /\ Half(local'.size) = g
      /\ local' # NoFile
  <2>1. Half(Plain(g)) = g /\ g # None /\ NoFile.val = None
    BY <1>4, Parts, HalfOf, SMTT(60) DEF NoFile
  <2> QED BY <1>1, <2>1, SMTT(60) DEF Stored
<1>6. \/ g = object.val
      \/ /\ event = "external" /\ object.val # r /\ object.etag # resolver.R.etag
         /\ object.etag = None \/ object.etag # row.etag
  BY <1>1, Parts DEF ResolverInv
<1>7. Side(local', FreshHash, g) /\ FreshHash \notin Hashes
  BY <1>5, HashIsFresh DEF Side, Tells
<1>8. InHand'
  BY <1>1, <1>2, <1>3 DEF InHand
<1>9. Sized' /\ HashesTell'
  BY <1>1, <1>2, <1>7, Sides, SidesBy
<1>10. Met'
  BY <1>1, <1>5, MetBy
<1>11. Unseen' /\ BaseInv'
  BY <1>1, UnseenBy, BaseBy
<1>12. RowInv'
  <2>1. object # NoObject => object.etag # None
    BY Parts, Vals
  <2> QED BY <1>1, <1>3, <1>5, <1>6, <2>1 DEF RowInv
<1>13. ResolverInv'
  <2>1. Settled(g)' /\ (g = r \/ Gone(r)')
    BY <1>1, <1>2, <1>3, <1>5, <1>6 DEF Settled, Gone
  <2>2. Settled(r)'
    BY <2>1 DEF Settled
  <2>3. /\ Settled(resolver.L.val)'
        /\ resolver'.L.val = resolver'.R.val \/ Gone(resolver.R.val)'
        /\ Settled(resolver.R.val)'
    BY <1>2, <1>5, <2>1, <2>2 DEF Settled, Gone
  <2>4. resolver'.R.etag = object'.etag => resolver'.L.val = object'.val
    BY <1>1, <1>2, <1>5, <1>6
  <2> QED BY <1>2, <2>3, <2>4 DEF ResolverInv
<1>14. PassInv' /\ AskInv'
  BY <1>1, <1>3, PassBy, AskBy
<1> QED BY <1>8, <1>9, <1>10, <1>11, <1>12, <1>13, <1>14 DEF SyncInv

\* finishResolution: the conflict is closed, and the baseline is of what was decided.
LEMMA SyncResolveFinish ==
    ASSUME Ground, ResolveFinish
    PROVE  SyncInv'
<1>1. /\ UNCHANGED <<policy, local, object, event, row, pass, known>>
      /\ resolver.pc = "finish" /\ resolver' = NoResolution
      /\ conflict = resolver.rec =>
            /\ conflict' = NoConflict
            /\ base' = IF local = NoFile THEN base
                       ELSE IF resolver.keep = "local" THEN afterUpload(resolver.L)
                       ELSE agreed(resolver.L, resolver.R)
  BY DEF ResolveFinish, config, bucket, index
<1>2. /\ NoResolution.pc = "off" /\ NoResolution.L = NoFile /\ NoResolution.R = NoRow
      /\ NoConflict.local = NoFile /\ NoConflict.remote = NoRow
  BY DEF NoResolution, NoConflict
<1>3. pass.pc = "off" /\ conflict = resolver.rec
  BY <1>1, Parts DEF InHand
<1>4. /\ conflict' = NoConflict
      /\ \/ base' = base
         \/ base' = afterUpload(resolver.L)
         \/ resolver.keep = "remote" /\ base' = agreed(resolver.L, resolver.R)
  <2>1. resolver.keep \in {"local", "remote"}
    BY Parts DEF TypeOK, ResolverType
  <2> QED BY <1>1, <1>3, <2>1
<1>5. resolver.L.val \in 1..changes /\ resolver.R.val \in 1..changes
  BY <1>1, Parts, Vals DEF WholeInv, ResolverWhole
<1> PICK u \in 1..changes : u = resolver.L.val
  BY <1>5
<1> PICK w \in 1..changes : w = resolver.R.val
  BY <1>5
<1>6. /\ Settled(u)
      /\ resolver.keep = "remote" =>
            /\ u = w \/ Gone(w)
            /\ resolver.R.etag = object.etag /\ object.ok /\ object # NoObject => u = object.val
  BY <1>1, Parts DEF ResolverInv
<1>7. Settled(u)' /\ (Gone(w) => Gone(w)')
  BY <1>6, Parts DEF Kept
<1>8. InHand'
  BY <1>1, <1>2, <1>3 DEF InHand
<1>9. Sized' /\ HashesTell'
  <2>1. FreshHash \notin Hashes
    BY HashIsFresh
  <2>2. BaseSide(base', FreshHash, 0)
    BY <1>4, Sides, BaseSides
  <2> QED BY <1>1, <1>2, <1>4, <2>1, <2>2, Sides, SidesBy
<1>10. Met'
  BY <1>1, MetBy
<1>11. Unseen' /\ RowInv'
  BY <1>1, <1>4, UnseenBy, RowBy
<1>12. BaseInv'
  <2>1. Half(resolver.L.size) = u /\ Half(resolver.R.size) = w
    BY Parts DEF Sized
  <2>2. CASE base' = base
    BY <1>1, <2>2, BaseBy
  <2>3. CASE base' = afterUpload(resolver.L)
    <3>1. Half(base'.size) = u /\ Half(base'.rsize) = u /\ base'.retag = None
      BY <2>1, <2>3 DEF afterUpload
    <3> QED BY <1>7, <3>1, AgreedBy
  <2>4. CASE resolver.keep = "remote" /\ base' = agreed(resolver.L, resolver.R)
    <3>1. Half(base'.size) = u /\ Half(base'.rsize) = w /\ base'.retag = resolver.R.etag
      BY <2>1, <2>4 DEF agreed
    <3>2. resolver.R.etag # None /\ resolver.R.etag = object'.etag /\ object'.ok => u = object'.val
      BY <1>1, <1>6, <2>4, SMTT(60) DEF NoObject
    <3> QED BY <1>6, <1>7, <2>4, <3>1, <3>2, AgreedBy
  <2> QED BY <1>4, <2>2, <2>3, <2>4
<1>13. PassInv' /\ AskInv' /\ ResolverInv'
  BY <1>1, <1>2, <1>3, PassBy, AskBy, ResolverBy
<1> QED BY <1>8, <1>9, <1>10, <1>11, <1>12, <1>13 DEF SyncInv

-----------------------------------------------------------------------------
(* The two sides, of every behaviour.                                      *)

\* A step of the two sides keeps what relates them.
LEMMA SyncNext ==
    ASSUME Calm, TypeOK, WholeInv, SyncInv, [Next]_vars
    PROVE  SyncInv'
<1> CASE UNCHANGED vars
  <2> /\ policy' = policy /\ local' = local /\ object' = object /\ event' = event
      /\ row' = row /\ base' = base /\ conflict' = conflict /\ pass' = pass
      /\ resolver' = resolver /\ known' = known /\ changes' = changes
    BY DEF vars, config, bucket, index
  <2>1. InHand' /\ Sized' /\ HashesTell'
    <3>1. InHand'
      BY DEF SyncInv, InHand
    <3>2. Sized'
      BY DEF SyncInv, Sized, Half
    <3>3. HashesTell'
      <4>1. HashVals' = HashVals
        BY DEF HashVals, Half
      <4> QED BY <4>1 DEF SyncInv, HashesTell
    <3> QED BY <3>1, <3>2, <3>3
  <2>2. Met' /\ Unseen' /\ RowInv'
    BY DEF SyncInv, Met, Unseen, RowInv, Settled, Gone
  <2>3. BaseInv'
    BY DEF SyncInv, BaseInv, Settled, Gone, Half
  <2>4. PassInv' /\ AskInv'
    BY DEF SyncInv, PassInv, AskInv, Settled, Gone
  <2>5. ResolverInv'
    BY DEF SyncInv, ResolverInv, Settled, Gone
  <2> QED BY <2>1, <2>2, <2>3, <2>4, <2>5 DEF SyncInv
<1> CASE Next
  <2> Ground
    BY TypedNext, KeptNext DEF Ground
  <2> CASE WriteLocal \/ WriteBucket \/ DeleteBucket \/ ApplyEvents
    BY SyncWriteLocal, SyncWriteBucket, SyncDeleteBucket, SyncApplyEvents
  <2> CASE \E kind \in Kinds : BeginPass(kind)
    BY SyncBeginPass
  <2> CASE RunPass
    BY SyncLoad, SyncPlan, SyncOver, SyncUpload, SyncIndex, SyncGet, SyncStore, SyncIndexOnly,
       SyncDeleteLocal, SyncDeleteRemote DEF RunPass
  <2> CASE PassFails \/ ResolveFails \/ Crash
    BY SyncOver
  <2> CASE \E keep \in {"local", "remote"} : ResolveBegin(keep)
    BY SyncResolveBegin
  <2> CASE Resolve
    BY SyncResolveHead, SyncResolvePut, SyncResolveIndex, SyncResolveGet, SyncResolveStore,
       SyncResolveFinish, SyncOver DEF Resolve
  <2> QED BY DEF Next
<1> QED OBVIOUS

\* Nothing is there at the start.
LEMMA SyncInit ==
    ASSUME Init
    PROVE  SyncInv
<1>1. /\ local = NoFile /\ object = NoObject /\ row = NoRow /\ base = NoBase
      /\ conflict = NoConflict /\ pass = NoPass /\ resolver = NoResolution
  BY DEF Init
<1>2. /\ NoFile.val = 0 /\ NoFile.hash = 0 /\ NoFile.size = 0 /\ NoRow.val = 0
      /\ NoRow.hash = 0 /\ NoRow.size = 0 /\ NoObject.val = 0 /\ NoObject.size = 0
      /\ NoBase.hash = 0 /\ NoBase.size = 0 /\ NoBase.rhash = 0 /\ NoBase.rsize = 0
  BY DEF NoFile, NoRow, NoObject, NoBase, None
<1>3. /\ NoConflict.local = NoFile /\ NoConflict.remote = NoRow /\ NoPass.pc = "off"
      /\ NoPass.L = NoFile /\ NoResolution.pc = "off" /\ NoResolution.L = NoFile
      /\ NoResolution.R = NoRow
  BY DEF NoConflict, NoPass, NoResolution
<1>4. InHand
  BY <1>1, <1>3 DEF InHand
<1>5. Sized
  BY <1>1, <1>2, <1>3, HalfNone DEF Sized
<1>6. HashesTell
  <2>1. \A p \in HashVals : p[2] = 0
    BY <1>1, <1>2, <1>3, HalfNone, SMTT(60) DEF HashVals
  <2> QED BY <2>1 DEF HashesTell
<1>7. Met
  BY <1>1, <1>2, <1>3 DEF Met, None
<1>8. Unseen /\ BaseInv /\ RowInv /\ PassInv /\ ResolverInv /\ AskInv
  BY <1>1, <1>3 DEF Unseen, BaseInv, RowInv, PassInv, ResolverInv, AskInv
<1> QED BY <1>4, <1>5, <1>6, <1>7, <1>8 DEF SyncInv

\* When sizes tell contents apart and decisions wait for the pass, what
\* relates the local file, the object, the index row, the baseline and the
\* conflict holds with every strategy and policy, with passes cut short
\* and events late (Planner::build, Baseline, the transfers,
\* ConflictResolver::resolve).
THEOREM SidesRelated == Calm => (Spec => []SyncInv)
<1> SUFFICES ASSUME Calm PROVE Spec => []SyncInv
  OBVIOUS
<1>1. Init => TypeOK /\ WholeInv /\ SyncInv
  BY TypedInit, SyncInit
<1>2. TypeOK /\ WholeInv /\ SyncInv /\ [Next]_vars => (TypeOK /\ WholeInv /\ SyncInv)'
  BY TypedNext, SyncNext
<1> QED BY <1>1, <1>2, PTL DEF Spec

\* What a baseline shows of the two sides when it finds neither changed.
LEMMA SameSides ==
    ASSUME TypeOK, WholeInv, SyncInv
    PROVE  InSyncIsSame
<1> SUFFICES ASSUME local # NoFile, row # NoRow, base # NoBase, row.val = object.val,
                    row.etag \in {None, object.etag}, object.ok,
                    classify(local, row, base) = "in_sync"
             PROVE  local.val = object.val
  BY DEF InSyncIsSame
<1>1. Sized /\ HashesTell /\ BaseInv
  BY DEF SyncInv
<1>2. ~localChangedSince(local, base) /\ ~remoteChangedSince(row, base)
  BY DEF classify
<1>3. Half(base.size) = local.val
  BY <1>1, <1>2, LocalSame
<1>4. Half(base.rsize) = row.val \/ (row.etag # None /\ row.etag = base.retag)
  BY <1>1, <1>2, RowSame
<1>5. CASE Half(base.rsize) = row.val
  <2>1. ~Gone(Half(base.rsize))
    BY <1>5 DEF Gone
  <2> QED BY <1>1, <1>3, <1>5, <2>1 DEF BaseInv
<1>6. CASE row.etag # None /\ row.etag = base.retag
  BY <1>1, <1>3, <1>6 DEF BaseInv
<1> QED BY <1>4, <1>5, <1>6

\* When sizes tell contents apart and decisions wait for the pass, a file
\* that its baseline finds in sync has the content of the object
\* (classify).
THEOREM InSyncHolds == Calm => (Spec => []InSyncIsSame)
<1> SUFFICES ASSUME Calm PROVE Spec => []InSyncIsSame
  OBVIOUS
<1>1. Init => TypeOK /\ WholeInv /\ SyncInv
  BY TypedInit, SyncInit
<1>2. TypeOK /\ WholeInv /\ SyncInv /\ [Next]_vars => (TypeOK /\ WholeInv /\ SyncInv)'
  BY TypedNext, SyncNext
<1>3. TypeOK /\ WholeInv /\ SyncInv => InSyncIsSame
  BY SameSides
<1> QED BY <1>1, <1>2, <1>3, PTL DEF Spec

\* Who replaces a local file or an object.
LEMMA Replacers ==
    ASSUME Next
    PROVE  /\ pass' # pass /\ local' # local => DownloadStore \/ IndexRemoteOnly \/ DeleteLocal
           /\ pass' # pass /\ object' # object => Upload \/ DeleteRemote
           /\ resolver' # resolver /\ local' # local => ResolveStore
<1>1. CASE WriteLocal \/ WriteBucket \/ DeleteBucket \/ ApplyEvents
  BY <1>1 DEF WriteLocal, WriteBucket, DeleteBucket, ApplyEvents, bucket
<1>2. CASE \E kind \in Kinds : BeginPass(kind)
  BY <1>2 DEF BeginPass, bucket
<1>3. CASE loadConflictState \/ planPass \/ NothingToDo \/ TransferFails
  BY <1>3 DEF loadConflictState, planPass, NothingToDo, TransferFails, bucket
<1>4. CASE Upload \/ applyRemoteIndexMutation \/ DownloadGet
  BY <1>4 DEF Upload, applyRemoteIndexMutation, DownloadGet, bucket
<1>5. CASE DownloadStore \/ IndexRemoteOnly \/ DeleteLocal
  BY <1>5 DEF DownloadStore, IndexRemoteOnly, DeleteLocal, bucket
<1>6. CASE DeleteRemote
  BY <1>6 DEF DeleteRemote
<1>7. CASE PassFails \/ ResolveFails \/ Crash
  BY <1>7 DEF PassFails, ResolveFails, Crash, bucket
<1>8. CASE \E keep \in {"local", "remote"} : ResolveBegin(keep)
  BY <1>8 DEF ResolveBegin, bucket
<1>9. CASE ResolveHead \/ ResolvePut \/ ResolveIndex \/ ResolveGet
  BY <1>9 DEF ResolveHead, ResolvePut, ResolveIndex, ResolveGet, bucket
<1>10. CASE ResolveStore \/ ResolveFinish \/ ResolveRefused
  BY <1>10 DEF ResolveStore, ResolveFinish, ResolveRefused, bucket
<1> QED BY <1>1, <1>2, <1>3, <1>4, <1>5, <1>6, <1>7, <1>8, <1>9, <1>10
        DEF Next, RunPass, Resolve

\* Under `ask` a pass replaces a local file whose content it loaded only
\* when that content has been shared.
LEMMA LocalDecided ==
    ASSUME TypeOK, WholeInv, SyncInv, policy = "ask", local.bytes,
           DownloadStore \/ IndexRemoteOnly \/ DeleteLocal
    PROVE  local.val \in known \/ local # pass.L
<1>1. local # NoFile
  BY SMTT(60) DEF NoFile
<1>2. \/ pass.pc \in {"run", "store"} /\ pass.act \in {"download", "delete_local"}
      \/ pass.L = NoFile
  <2>1. CASE DownloadStore
    BY <2>1 DEF DownloadStore, WholeInv, PassWhole
  <2>2. CASE IndexRemoteOnly
    BY <2>2 DEF IndexRemoteOnly, Doing, WholeInv, PassWhole
  <2>3. CASE DeleteLocal
    BY <2>3 DEF DeleteLocal, Doing
  <2> QED BY <2>1, <2>2, <2>3
<1>3. pass.L = NoFile \/ Settled(pass.L.val)
  BY <1>2 DEF SyncInv, AskInv
<1> QED BY <1>1, <1>3 DEF Settled, Gone

\* Under `ask` a pass replaces an object its row described only when the
\* content has been shared.
LEMMA ObjectDecided ==
    ASSUME TypeOK, WholeInv, SyncInv, policy = "ask", object # NoObject,
           Upload \/ DeleteRemote
    PROVE  object.val \in known \/ object.val # pass.R.val
<1>1. pass.pc = "run" /\ pass.act \in {"upload", "delete_remote"}
  BY DEF Upload, DeleteRemote, Doing
<1>2. row = NoRow \/ row.val \in known \/ object.val # row.val
  BY <1>1 DEF SyncInv, AskInv
<1>3. pass.R = row
  BY <1>1 DEF SyncInv, InHand
<1>4. NoRow.val = None /\ object.val # None
  BY DEF NoRow, WholeInv, StoredWhole
<1> QED BY <1>2, <1>3, <1>4

\* A resolution replaces a local file only when it is as the conflict
\* recorded it.
LEMMA ResolvedDecided ==
    ASSUME TypeOK, WholeInv, SyncInv, local.bytes, ResolveStore
    PROVE  local.val = resolver.rec.local.val
<1>1. resolver.pc = "store" /\ local.hash = resolver.L.hash
  BY DEF ResolveStore
<1>2. local.hash # None
  BY SMTT(60) DEF WholeInv, StoredWhole, Solid, NoFile
<1>3. <<local.hash, local.val>> \in HashVals /\ <<resolver.L.hash, resolver.L.val>> \in HashVals
  BY DEF HashVals
<1>4. \A a, b, c : <<a, b>> \in HashVals /\ <<a, c>> \in HashVals /\ a # None => b = c
  BY DEF SyncInv, HashesTell
<1>5. local.val = resolver.L.val
  BY <1>1, <1>2, <1>3, <1>4
<1>6. resolver.L.val = conflict.local.val /\ conflict = resolver.rec
  BY <1>1 DEF SyncInv, InHand
<1> QED BY <1>5, <1>6

\* When sizes tell contents apart and decisions wait for the pass, no
\* change a pass was shown, or a resolution looked at, is replaced under
\* `ask` unless the two sides have shared it or somebody decided about it
\* (Planner::build, ConflictResolver::resolve).
THEOREM NothingUndecided == Calm => (Spec => NoUndecidedOverwrite)
<1> SUFFICES ASSUME Calm PROVE Spec => NoUndecidedOverwrite
  OBVIOUS
<1> DEFINE Decided ==
      policy = "ask" =>
        /\ (pass.pc \in {"run", "store"} /\ pass' # pass /\ local' # local /\ local.bytes) =>
              local.val \in known \/ local # pass.L
        /\ (pass.pc = "run" /\ pass' # pass /\ object' # object /\ object # NoObject) =>
              object.val \in known \/ object.val # pass.R.val
        /\ (resolver.pc = "store" /\ local' # local /\ resolver'.pc = "finish" /\ local.bytes) =>
              local.val \in known \cup {resolver.rec.local.val}
        /\ (resolver.pc = "put" /\ object' # object /\ resolver'.pc = "index") =>
              \/ object.val \in known \cup {resolver.rec.remote.val}
              \/ object.val # resolver.got
<1>1. Init => TypeOK /\ WholeInv /\ SyncInv
  BY TypedInit, SyncInit
<1>2. TypeOK /\ WholeInv /\ SyncInv /\ [Next]_vars => (TypeOK /\ WholeInv /\ SyncInv)'
  BY TypedNext, SyncNext
<1>3. TypeOK /\ WholeInv /\ SyncInv /\ [Next]_vars => [Decided]_vars
  <2> SUFFICES ASSUME TypeOK, WholeInv, SyncInv, Next, policy = "ask"
               PROVE  Decided
    OBVIOUS
  <2>1. pass' # pass /\ local' # local /\ local.bytes => local.val \in known \/ local # pass.L
    BY Replacers, LocalDecided
  <2>2. pass' # pass /\ object' # object /\ object # NoObject =>
           object.val \in known \/ object.val # pass.R.val
    BY Replacers, ObjectDecided
  <2>3. resolver' # resolver /\ local' # local /\ local.bytes =>
           local.val \in known \cup {resolver.rec.local.val}
    BY Replacers, ResolvedDecided
  <2>4. resolver.pc = "put" => (\/ object.val \in known \cup {resolver.rec.remote.val}
                                \/ object.val # resolver.got)
    BY DEF SyncInv, ResolverInv
  <2> QED BY <2>1, <2>2, <2>3, <2>4
<1> QED BY <1>1, <1>2, <1>3, PTL DEF Spec, NoUndecidedOverwrite
=============================================================================
