------------------------- MODULE PriceBudgetSafety -------------------------
(***************************************************************************)
(* Proofs about PriceBudget for every set of policies, runs and overrides: *)
(* a policy row is locked by one transaction at a time, an override is     *)
(* decided once, and it lets one run past, once.                           *)
(***************************************************************************)
EXTENDS PriceBudget, WellFoundedInduction, TLAPS

\* Zenon is the prover of a leaf that names none.
USE ZenonT(120)

\* A set of ids or of times has a least one.
LEMMA Smallest ==
    ASSUME NEW S \in SUBSET Nat, S # {}
    PROVE  \E m \in S : \A x \in S : m <= x
<1> DEFINE R == OpToRel(<, Nat)
<1>1. IsWellFoundedOn(R, Nat)
  BY NatLessThanWellFounded
<1>2. PICK m \in S : \A x \in S : ~(<<x, m>> \in R)
  <2> HIDE DEF R
  <2> QED BY <1>1, WFMin
<1>3. \A x \in S : ~(x < m)
  BY <1>2 DEF OpToRel
<1> QED BY <1>3, SMTT(60)

\* ORDER BY id: the next row to lock is one of those left.
LEMMA MinIn ==
    ASSUME NEW S \in SUBSET Nat, S # {}
    PROVE  Min(S) \in S
  BY Smallest DEF Min

\* ORDER BY expires_at, id LIMIT 1: the override a run consumes fits it.
LEMMA FirstFits ==
    ASSUME TypeOK, NEW r \in Runs, Fitting(r) # {}
    PROVE  FirstFitting(r) \in Fitting(r)
<1>1. Fitting(r) \subseteq Nat
  BY BudgetAssumption DEF Fitting
<1>2. \A o \in Fitting(r) : override[o].until \in Nat
  BY DEF TypeOK, OverrideType, Fitting
<1> DEFINE times == {override[o].until : o \in Fitting(r)}
<1>3. PICK t \in times : \A x \in times : t <= x
  <2>1. times \in SUBSET Nat /\ times # {}
    BY <1>2
  <2> QED BY <2>1, Smallest
<1> DEFINE first == {o \in Fitting(r) : override[o].until = t}
<1>4. PICK m \in first : \A x \in first : m <= x
  <2>1. first \in SUBSET Nat /\ first # {}
    BY <1>1, <1>3
  <2> HIDE DEF first
  <2> QED BY <2>1, Smallest
<1>5. \A x \in Fitting(r) :
         \/ override[m].until < override[x].until
         \/ override[m].until = override[x].until /\ m <= x
  BY <1>1, <1>2, <1>3, <1>4, SMTT(60)
<1>6. m \in Fitting(r)
  BY <1>4
<1> QED BY <1>5, <1>6 DEF FirstFitting

-----------------------------------------------------------------------------
(* Types, and who holds a row lock. *)

\* A step of one run that neither takes nor gives back a lock.
LEMMA RunTyped ==
    ASSUME TypeOK, NEW r \in Runs, NEW rec \in RunType, rec.held = run[r].held,
           rec.held # {} => rec.pc = "locking",
           run' = [run EXCEPT ![r] = rec], lock' = lock
    PROVE  /\ run' \in [Runs -> RunType]
           /\ lock' \in [Policies -> Runs \cup {Nobody}]
           /\ \A p \in Policies, q \in Runs : lock'[p] = q <=> p \in run'[q].held
           /\ \A q \in Runs : run'[q].held # {} => run'[q].pc = "locking"
  BY SMTT(60) DEF TypeOK

\* COMMIT and ROLLBACK: a run gives back every lock it holds, and no other.
LEMMA UnlockTyped ==
    ASSUME TypeOK, NEW r \in Runs, NEW rec \in RunType, rec.held = {},
           run' = [run EXCEPT ![r] = rec], lock' = Unlock(r)
    PROVE  /\ run' \in [Runs -> RunType]
           /\ lock' \in [Policies -> Runs \cup {Nobody}]
           /\ \A p \in Policies, q \in Runs : lock'[p] = q <=> p \in run'[q].held
           /\ \A q \in Runs : run'[q].held # {} => run'[q].pc = "locking"
  BY BudgetAssumption, SMTT(60) DEF TypeOK, Unlock

\* What a run keeps when it is over ...
LEMMA EndedTyped ==
    ASSUME TypeOK, NEW r \in Runs, NEW pc \in {"refused", "done", "gone"}
    PROVE  /\ Ended(r, pc) \in RunType
           /\ Ended(r, pc).pc = pc /\ Ended(r, pc).held = {}
           /\ Ended(r, pc).over = run[r].over
<1>1. run[r].over \in SUBSET Policies
  BY DEF TypeOK, RunType
<1>2. Idle \in RunType /\ Idle.held = {}
  BY DEF Idle, RunType
<1> QED BY <1>1, <1>2 DEF Ended, RunType

\* ... and when its transaction is.
LEMMA ClosedTyped ==
    ASSUME TypeOK, NEW r \in Runs, NEW pc \in {"blocked", "admitted"}
    PROVE  /\ Closed(r, pc) \in RunType
           /\ Closed(r, pc).pc = pc /\ Closed(r, pc).held = {}
           /\ Closed(r, pc).over = run[r].over
<1>1. run[r] \in RunType
  BY DEF TypeOK
<1> QED BY <1>1 DEF Closed, RunType

\* expireOverrides leaves rows that are decided alone.
LEMMA ExpireFacts ==
    ASSUME TypeOK
    PROVE  /\ expireOverrides \in [Overrides -> OverrideType]
           /\ \A o \in Overrides :
                 \/ expireOverrides[o] = override[o]
                 \/ /\ override[o].status \in {"requested", "approved"}
                    /\ expireOverrides[o] = [override[o] EXCEPT !.status = "expired"]
           /\ \A o \in Overrides :
                 override[o].until > now => expireOverrides[o] = override[o]
  BY SMTT(60) DEF TypeOK, expireOverrides, Outdated, OverrideType

-----------------------------------------------------------------------------
(* What each step does. *)

\* What a step may do to an override: it moves on as OverrideMoves allows, and one that
\* backs a run stays as it is.
OverridesMove ==
    \A o \in Overrides : OverrideMoves(o) /\ (override[o].status = "used" => override'[o] = override[o])

\* A step that is no consumption: types, the overrides, and what runs were let past.
Fine == TypeOK' /\ OverridesMove /\ (\A r \in Runs : run'[r].over = run[r].over)

\* Rows that stay as they are move nowhere.
LEMMA Unmoved ==
    ASSUME UNCHANGED override
    PROVE  OverridesMove
  BY DEF OverridesMove, OverrideMoves

\* BEGIN.
LEMMA OpenFine ==
    ASSUME TypeOK, NEW r \in Runs, NEW cost \in Costs, NEW issue \in Issues, Open(r, cost, issue)
    PROVE  Fine
<1> DEFINE rec == [run[r] EXCEPT !.pc = "opened", !.at = now, !.cost = cost, !.issue = issue]
<1>1. cost \in Nat /\ issue \in SUBSET Policies /\ now \in Nat
  BY BudgetAssumption DEF TypeOK
<1>2. run[r] \in RunType /\ run[r].held = {}
  BY DEF TypeOK, Open
<1>3. /\ rec \in RunType /\ rec.held = run[r].held /\ rec.held = {} /\ rec.over = run[r].over
  BY <1>1, <1>2 DEF RunType
<1>4. run' = [run EXCEPT ![r] = rec]
  BY DEF Open
<1> HIDE DEF rec
<1>5. TypeOK'
  BY <1>3, <1>4, RunTyped, SMTT(60) DEF Open, TypeOK
<1>6. \A q \in Runs : run'[q].over = run[q].over
  BY <1>3, <1>4 DEF TypeOK
<1> QED BY <1>5, <1>6, Unmoved DEF Fine, Open

\* A statement of a preflight that changes nothing but what the transaction knows.
LEMMA StatementFine ==
    ASSUME TypeOK, NEW r \in Runs, NEW rec \in RunType, run' = [run EXCEPT ![r] = rec],
           rec.held = run[r].held, rec.over = run[r].over, rec.held # {} => rec.pc = "locking",
           UNCHANGED <<now, policy, edited, lock, ledger, override, spent>>
    PROVE  Fine
<1>1. TypeOK'
  BY RunTyped DEF TypeOK
<1>2. \A q \in Runs : run'[q].over = run[q].over
  BY DEF TypeOK
<1> QED BY <1>1, <1>2, Unmoved DEF Fine

\* The UPDATE locks another stale row.
LEMMA ExpireNextFine ==
    ASSUME TypeOK, NEW r \in Runs, ExpireNext(r)
    PROVE  Fine
<1>1. PICK q \in Runs : run' = [run EXCEPT ![r].stale = run[r].stale \cup {q}]
  BY DEF ExpireNext
<1> DEFINE rec == [run[r] EXCEPT !.stale = run[r].stale \cup {q}]
<1>2. run[r] \in RunType /\ (run[r].held # {} => run[r].pc = "locking")
  BY DEF TypeOK
<1>3. /\ rec \in RunType /\ rec.held = run[r].held /\ rec.pc = run[r].pc
      /\ rec.over = run[r].over
  BY <1>2 DEF RunType
<1>4. run' = [run EXCEPT ![r] = rec]
  BY <1>1 DEF TypeOK
<1>5. UNCHANGED <<now, policy, edited, lock, ledger, override, spent>>
  BY DEF ExpireNext
<1> HIDE DEF rec
<1> QED BY <1>2, <1>3, <1>4, <1>5, StatementFine

\* The snapshot of the SELECT.
LEMMA SelectFine ==
    ASSUME TypeOK, NEW r \in Runs, SelectPolicies(r)
    PROVE  Fine
<1> DEFINE todo == {p \in Applies[r] : policy[p].mode # "off"}
           rec == [run[r] EXCEPT !.pc = "locking", !.todo = todo]
<1>1. todo \in SUBSET Policies
  BY BudgetAssumption
<1>2. run[r] \in RunType
  BY DEF TypeOK
<1>3. run' = [run EXCEPT ![r] = rec]
  BY DEF SelectPolicies
<1>4. UNCHANGED <<now, policy, edited, lock, ledger, override, spent>>
  BY DEF SelectPolicies
<1> HIDE DEF todo
<1>5. rec \in RunType /\ rec.held = run[r].held /\ rec.pc = "locking" /\ rec.over = run[r].over
  BY <1>1, <1>2 DEF RunType
<1> HIDE DEF rec
<1> QED BY <1>3, <1>4, <1>5, StatementFine

\* A window is summed.
LEMMA SumFine ==
    ASSUME TypeOK, NEW r \in Runs, SumWindow(r)
    PROVE  Fine
<1>1. PICK c \in Checks(r) : run' = [run EXCEPT ![r] = [run[r] EXCEPT
           !.summed = run[r].summed \cup {c},
           !.blocking = IF Exceeded(r, c[1], c[2]) THEN run[r].blocking \cup {c[1]}
                                                   ELSE run[r].blocking]]
  BY DEF SumWindow
<1>2. run[r] \in RunType /\ run[r].pc = "locking"
  BY DEF TypeOK, SumWindow
<1>3. c \in Policies \X Windows
  <2>1. run[r].held \subseteq Policies
    BY <1>2 DEF RunType
  <2>2. \A row : configuredWindows(row) \subseteq Windows
    BY DEF configuredWindows, Windows
  <2>3. PICK p \in Enforced(r) : \E w \in configuredWindows(policy[p]) : c = <<p, w>>
    BY DEF Checks
  <2>4. PICK w \in configuredWindows(policy[p]) : c = <<p, w>>
    BY <2>3
  <2>5. p \in Policies /\ w \in Windows
    BY <2>1, <2>2 DEF Enforced
  <2> QED BY <2>4, <2>5
<1> DEFINE blocking == IF Exceeded(r, c[1], c[2]) THEN run[r].blocking \cup {c[1]}
                                                  ELSE run[r].blocking
           summed == run[r].summed \cup {c}
           rec == [run[r] EXCEPT !.summed = summed, !.blocking = blocking]
<1>4. summed \in SUBSET (Policies \X Windows) /\ blocking \in SUBSET Policies
  <2>1. run[r].summed \in SUBSET (Policies \X Windows) /\ run[r].blocking \in SUBSET Policies
    BY <1>2 DEF RunType
  <2>2. c[1] \in Policies
    BY <1>3
  <2> QED BY <1>3, <2>1, <2>2
<1>5. run' = [run EXCEPT ![r] = rec]
  BY <1>1
<1>6. UNCHANGED <<now, policy, edited, lock, ledger, override, spent>>
  BY DEF SumWindow
<1> HIDE DEF blocking, summed
<1>7. rec \in RunType /\ rec.held = run[r].held /\ rec.pc = "locking" /\ rec.over = run[r].over
  BY <1>2, <1>4 DEF RunType
<1> HIDE DEF rec
<1> QED BY <1>5, <1>6, <1>7, StatementFine

\* FOR UPDATE: a row that is free gets one holder.
LEMMA LockNextFine ==
    ASSUME TypeOK, NEW r \in Runs, LockNext(r)
    PROVE  Fine
<1> DEFINE p == Min(run[r].todo)
           held == IF policy[p].mode # "off" THEN run[r].held \cup {p} ELSE run[r].held
           rec == [run[r] EXCEPT !.todo = run[r].todo \ {p}, !.held = held]
<1>1. run[r] \in RunType /\ run[r].pc = "locking"
  BY DEF TypeOK, LockNext
<1>2. p \in Policies
  <2>1. run[r].todo \in SUBSET Policies /\ run[r].todo # {}
    BY <1>1 DEF RunType, LockNext
  <2> QED BY <2>1, MinIn, BudgetAssumption, SMTT(60)
<1>3. /\ lock[p] = Nobody /\ run' = [run EXCEPT ![r] = rec]
      /\ lock' = IF policy[p].mode # "off" THEN [lock EXCEPT ![p] = r] ELSE lock
  <2>1. lock[p] = Nobody
    BY DEF LockNext
  <2>2. run' = [run EXCEPT ![r] = [run[r] EXCEPT !.todo = run[r].todo \ {p},
                    !.held = IF policy[p].mode # "off" THEN run[r].held \cup {p} ELSE run[r].held]]
    BY DEF LockNext
  <2>3. lock' = IF policy[p].mode # "off" THEN [lock EXCEPT ![p] = r] ELSE lock
    BY DEF LockNext
  <2> QED BY <2>1, <2>2, <2>3
<1> HIDE DEF p
<1>4. held \in SUBSET Policies
  BY <1>1, <1>2 DEF RunType
<1>5. rec \in RunType /\ rec.held = held /\ rec.pc = "locking" /\ rec.over = run[r].over
  <2> HIDE DEF held
  <2> QED BY <1>1, <1>4 DEF RunType
<1> HIDE DEF rec
<1>6. run' \in [Runs -> RunType] /\ lock' \in [Policies -> Runs \cup {Nobody}]
  BY <1>2, <1>3, <1>5 DEF TypeOK
<1>7. \A x \in Policies, q \in Runs : lock'[x] = q <=> x \in run'[q].held
  <2> SUFFICES ASSUME NEW x \in Policies, NEW q \in Runs PROVE lock'[x] = q <=> x \in run'[q].held
    OBVIOUS
  <2>1. /\ lock[x] = q <=> x \in run[q].held
        /\ lock \in [Policies -> Runs \cup {Nobody}] /\ run \in [Runs -> RunType]
    BY DEF TypeOK
  <2>2. run'[q].held = IF q = r THEN held ELSE run[q].held
    BY <1>3, <1>5, <2>1
  <2>3. CASE policy[p].mode # "off"
    BY <2>1, <2>2, <2>3, <1>2, <1>3, BudgetAssumption
  <2>4. CASE policy[p].mode = "off"
    BY <2>1, <2>2, <2>4, <1>3
  <2> QED BY <2>3, <2>4
<1>8. \A q \in Runs : run'[q].held # {} => run'[q].pc = "locking"
  BY <1>3, <1>5 DEF TypeOK
<1>9. \A q \in Runs : run'[q].over = run[q].over
  BY <1>3, <1>5 DEF TypeOK
<1>10. TypeOK'
  BY <1>6, <1>7, <1>8 DEF LockNext, TypeOK
<1> QED BY <1>9, <1>10, Unmoved DEF Fine, LockNext

\* The ledger rows a transaction expires.
LEMMA ExpiredTyped ==
    ASSUME TypeOK, NEW r \in Runs
    PROVE  Expired(r) \in [Runs -> ChargeType]
  BY SMTT(60) DEF TypeOK, Expired, ChargeType

\* The rows a preflight inserts.
LEMMA ChargeTyped ==
    ASSUME TypeOK, NEW r \in Runs
    PROVE  Charge(r) \in ChargeType
<1> DEFINE rows == UNION {{<<p, w>> : w \in configuredWindows(policy[p])} :
                            p \in run[r].held \ run[r].issue}
<1>1. run[r] \in RunType
  BY DEF TypeOK
<1>2. run[r].held \subseteq Policies /\ run[r].at \in Nat /\ run[r].cost \in Nat
  BY <1>1 DEF RunType
<1>3. \A row : configuredWindows(row) \subseteq Windows
  BY DEF configuredWindows, Windows
<1>4. rows \in SUBSET (Policies \X Windows)
  <2> HIDE DEF Windows
  <2> QED BY <1>2, <1>3, SMTT(60)
<1>5. Charge(r) = IF rows = {} THEN NoCharge
                  ELSE [status |-> "reserved", born |-> run[r].at, cost |-> run[r].cost,
                        final |-> 0, windows |-> rows]
  BY DEF Charge
<1> HIDE DEF rows
<1>6. NoCharge \in ChargeType
  BY DEF NoCharge, ChargeType
<1> QED BY <1>2, <1>4, <1>5, <1>6, SMTT(60) DEF ChargeType

\* The decision: every lock is given back with the COMMIT.
LEMMA DecideFine ==
    ASSUME TypeOK, NEW r \in Runs, Decide(r)
    PROVE  Fine
<1>1. UNCHANGED <<now, policy, edited, override, spent>> /\ lock' = Unlock(r)
  BY DEF Decide
<1>2. ledger' \in [Runs -> ChargeType]
  <2>1. ledger' = Expired(r) \/ ledger' = [Expired(r) EXCEPT ![r] = Charge(r)]
    BY DEF Decide
  <2> QED BY <2>1, ExpiredTyped, ChargeTyped
<1>3. PICK rec \in RunType :
         run' = [run EXCEPT ![r] = rec] /\ rec.held = {} /\ rec.over = run[r].over
  <2>1. \/ run' = [run EXCEPT ![r] = Closed(r, "blocked")]
        \/ run' = [run EXCEPT ![r] = Ended(r, "refused")]
        \/ run' = [run EXCEPT ![r] = Closed(r, "admitted")]
    BY DEF Decide
  <2> DEFINE b == Closed(r, "blocked")
             e == Ended(r, "refused")
             a == Closed(r, "admitted")
  <2>2. b \in RunType /\ b.held = {} /\ b.over = run[r].over
    BY ClosedTyped
  <2>3. e \in RunType /\ e.held = {} /\ e.over = run[r].over
    BY EndedTyped
  <2>4. a \in RunType /\ a.held = {} /\ a.over = run[r].over
    BY ClosedTyped
  <2>5. run' = [run EXCEPT ![r] = b] \/ run' = [run EXCEPT ![r] = e] \/ run' = [run EXCEPT ![r] = a]
    BY <2>1
  <2> HIDE DEF a, b, e
  <2> QED BY <2>2, <2>3, <2>4, <2>5
<1>4. TypeOK'
  BY <1>1, <1>2, <1>3, UnlockTyped DEF TypeOK
<1>5. \A q \in Runs : run'[q].over = run[q].over
  BY <1>3 DEF TypeOK
<1> QED BY <1>1, <1>4, <1>5, Unmoved DEF Fine

\* ROLLBACK.
LEMMA PreflightFailsFine ==
    ASSUME TypeOK, NEW r \in Runs, PreflightFails(r)
    PROVE  Fine
<1>1. TypeOK'
  BY EndedTyped, UnlockTyped DEF PreflightFails, TypeOK
<1>2. \A q \in Runs : run'[q].over = run[q].over
  BY EndedTyped, SMTT(60) DEF PreflightFails, TypeOK
<1> QED BY <1>1, <1>2, Unmoved DEF Fine, PreflightFails

\* A run without a transaction ends.
LEMMA EndFine ==
    ASSUME TypeOK, NEW r \in Runs, NEW pc \in {"refused", "done", "gone"}, run[r].pc # "locking",
           run' = [run EXCEPT ![r] = Ended(r, pc)], ledger' \in [Runs -> ChargeType],
           UNCHANGED <<now, policy, edited, lock, override, spent>>
    PROVE  Fine
<1>1. run[r].held = {}
  BY DEF TypeOK
<1> DEFINE rec == Ended(r, pc)
<1>2. rec \in RunType /\ rec.held = {} /\ rec.over = run[r].over
  BY EndedTyped
<1>3. run' = [run EXCEPT ![r] = rec]
  OBVIOUS
<1> HIDE DEF rec
<1>4. TypeOK'
  <2>1. /\ run' \in [Runs -> RunType]
        /\ lock' \in [Policies -> Runs \cup {Nobody}]
        /\ \A p \in Policies, q \in Runs : lock'[p] = q <=> p \in run'[q].held
        /\ \A q \in Runs : run'[q].held # {} => run'[q].pc = "locking"
    <3>1. lock' = lock /\ rec.held = run[r].held
      BY <1>1, <1>2
    <3>2. rec.held # {} => rec.pc = "locking"
      BY <1>2
    <3> QED BY <1>2, <1>3, <3>1, <3>2, RunTyped
  <2> QED BY <2>1 DEF TypeOK
<1>5. \A q \in Runs : run'[q].over = run[q].over
  BY <1>2, <1>3 DEF TypeOK
<1> QED BY <1>4, <1>5, Unmoved DEF Fine

\* commit and release change a row that is reserved.
LEMMA SettledTyped ==
    ASSUME TypeOK, NEW r \in Runs, NEW status \in {"committed", "released"}, NEW final \in Nat
    PROVE  Settled(r, status, final) \in [Runs -> ChargeType]
<1> DEFINE row == [ledger[r] EXCEPT !.status = status, !.final = final]
<1>1. ledger \in [Runs -> ChargeType]
  BY DEF TypeOK
<1>2. row \in ChargeType
  BY <1>1 DEF ChargeType
<1>3. Settled(r, status, final) = ledger \/ Settled(r, status, final) = [ledger EXCEPT ![r] = row]
  BY DEF Settled
<1> HIDE DEF row
<1> QED BY <1>1, <1>2, <1>3

\* The settlement, one that fails, and a notification that fails.
LEMMA SettleFine ==
    ASSUME TypeOK, NEW r \in Runs, commit(r) \/ release(r) \/ NotifyFails(r) \/ SettleFails(r)
    PROVE  Fine
<1>1. CASE commit(r)
  <2>1. spent[r] \in Nat
    BY DEF TypeOK
  <2> QED BY <1>1, <2>1, SettledTyped, EndFine DEF commit
<1>2. CASE release(r)
  BY <1>2, SettledTyped, EndFine DEF release
<1>3. CASE NotifyFails(r)
  <2>1. ledger' \in [Runs -> ChargeType]
    BY <1>3 DEF NotifyFails, TypeOK
  <2> QED BY <1>3, <2>1, EndFine DEF NotifyFails
<1>4. CASE SettleFails(r)
  <2>1. ledger' \in [Runs -> ChargeType]
    BY <1>4 DEF SettleFails, TypeOK
  <2> QED BY <1>4, <2>1, EndFine DEF SettleFails
<1> QED BY <1>1, <1>2, <1>3, <1>4

\* Remote work begins.
LEMMA StartFine ==
    ASSUME TypeOK, NEW r \in Runs, Start(r)
    PROVE  Fine
<1> DEFINE rec == [run[r] EXCEPT !.pc = "working"]
<1>1. run[r] \in RunType /\ run[r].held = {}
  BY DEF TypeOK, Start
<1>2. rec \in RunType /\ rec.held = {} /\ rec.over = run[r].over
  BY <1>1 DEF RunType
<1>3. run' = [run EXCEPT ![r] = rec]
  BY DEF Start
<1>4. spent' \in [Runs -> Nat]
  <2>1. run[r].cost \in Nat
    BY <1>1 DEF RunType
  <2> QED BY <2>1 DEF Start, TypeOK
<1> HIDE DEF rec
<1>5. TypeOK'
  BY <1>1, <1>2, <1>3, <1>4, RunTyped, SMTT(60) DEF Start, TypeOK
<1>6. \A q \in Runs : run'[q].over = run[q].over
  BY <1>2, <1>3 DEF TypeOK
<1> QED BY <1>5, <1>6, Unmoved DEF Fine, Start

\* A fetch or a gateway request reaches the provider.
LEMMA TouchFine ==
    ASSUME TypeOK, NEW r \in Runs, NEW cost \in 1..(run[r].cost + 1), Touch(r, cost)
    PROVE  Fine
<1>1. cost \in Nat
  BY SMTT(60) DEF TypeOK, RunType
<1>2. TypeOK'
  BY <1>1 DEF Touch, TypeOK
<1> QED BY <1>2, Unmoved DEF Fine, Touch

\* A step of the tables other than the overrides, which leaves runs and locks alone.
LEMMA TablesFine ==
    ASSUME TypeOK, now' \in Nat, policy' \in [Policies -> Row], edited' \subseteq Policies,
           ledger' \in [Runs -> ChargeType], UNCHANGED <<lock, override, run, spent>>
    PROVE  Fine
<1>1. TypeOK'
  BY DEF TypeOK
<1> QED BY <1>1, Unmoved DEF Fine

\* Operators who write policies or look at the budgets, and the clock.
LEMMA OperatorFine ==
    ASSUME TypeOK,
           \/ \E p \in Policies, row \in EditedRows : upsertPolicy(p, row)
           \/ \E p \in Policies : disablePolicy(p)
           \/ expireStaleReservations
           \/ Tick
    PROVE  Fine
<1>1. CASE \E p \in Policies, row \in EditedRows : upsertPolicy(p, row)
  <2>1. PICK p \in Policies, row \in EditedRows : upsertPolicy(p, row)
    BY <1>1
  <2>2. row \in Row
    BY BudgetAssumption
  <2>3. policy' \in [Policies -> Row] /\ edited' \subseteq Policies
    BY <2>1, <2>2 DEF upsertPolicy, TypeOK
  <2> QED BY <2>1, <2>3, TablesFine DEF upsertPolicy, TypeOK
<1>2. CASE \E p \in Policies : disablePolicy(p)
  <2>1. PICK p \in Policies : disablePolicy(p)
    BY <1>2
  <2>2. policy' \in [Policies -> Row] /\ edited' \subseteq Policies
    BY <2>1, SMTT(60) DEF disablePolicy, TypeOK, Row, Modes
  <2> QED BY <2>1, <2>2, TablesFine DEF disablePolicy, TypeOK
<1>3. CASE expireStaleReservations
  <2>1. ledger' \in [Runs -> ChargeType]
    BY <1>3, SMTT(60) DEF expireStaleReservations, TypeOK, ChargeType
  <2> QED BY <1>3, <2>1, TablesFine DEF expireStaleReservations, TypeOK
<1>4. CASE Tick
  BY <1>4, TablesFine, SMTT(60) DEF Tick, TypeOK
<1> QED BY <1>1, <1>2, <1>3, <1>4

\* The daemon dies.
LEMMA CrashFine ==
    ASSUME TypeOK, Crash
    PROVE  Fine
<1> DEFINE over(q) == run[q].pc \in {"idle", "refused", "done", "gone"}
           dead(q) == Ended(q, "gone")
<1>1. run' = [q \in Runs |-> IF over(q) THEN run[q] ELSE dead(q)]
  BY DEF Crash
<1>2. \A q \in Runs : /\ dead(q) \in RunType /\ dead(q).held = {}
                      /\ dead(q).over = run[q].over
  BY EndedTyped
<1>3. \A q \in Runs : over(q) => run[q].held = {}
  BY DEF TypeOK
<1>4. \A q \in Runs : run[q] \in RunType
  BY DEF TypeOK
<1> HIDE DEF over, dead
<1>5. \A q \in Runs : run'[q].held = {} /\ run'[q].over = run[q].over
  BY <1>1, <1>2, <1>3
<1>6. run' \in [Runs -> RunType]
  BY <1>1, <1>2, <1>4
<1>7. TypeOK'
  BY <1>5, <1>6, BudgetAssumption, SMTT(60) DEF Crash, TypeOK
<1> QED BY <1>5, <1>7, Unmoved DEF Fine, Crash

\* A step that writes overrides and no other table.
LEMMA OverridesFine ==
    ASSUME TypeOK, override' \in [Overrides -> OverrideType], OverridesMove,
           UNCHANGED <<now, policy, edited, lock, ledger, run, spent>>
    PROVE  Fine
<1>1. TypeOK'
  BY DEF TypeOK
<1> QED BY <1>1 DEF Fine

\* expireOverrides by itself.
LEMMA ExpiryMoves ==
    ASSUME TypeOK, override' = expireOverrides
    PROVE  OverridesMove
<1>1. ASSUME NEW x \in Overrides
      PROVE  \/ override'[x] = override[x]
             \/ override[x].status \in {"requested", "approved"} /\ override'[x].status = "expired"
  <2>1. override[x] \in OverrideType
    BY DEF TypeOK
  <2> QED BY <2>1, ExpireFacts DEF OverrideType
<1> QED BY <1>1 DEF OverridesMove, OverrideMoves

\* What expireOverrides and one decision on a row that is still good come to.
LEMMA DecidedOverride ==
    ASSUME TypeOK, NEW o \in Overrides, NEW row \in OverrideType,
           override' = [expireOverrides EXCEPT ![o] = row],
           \/ override[o].status = "requested" /\ row.status \in {"approved", "denied"}
           \/ override[o].status = "approved" /\ row.status = "used"
    PROVE  override' \in [Overrides -> OverrideType] /\ OverridesMove
<1>1. override' \in [Overrides -> OverrideType]
  BY ExpireFacts
<1>2. ASSUME NEW x \in Overrides
      PROVE  OverrideMoves(x) /\ (override[x].status = "used" => override'[x] = override[x])
  <2>1. CASE x = o
    <3>1. override'[x] = row
      BY <2>1, ExpireFacts
    <3> QED BY <2>1, <3>1 DEF OverrideMoves
  <2>2. CASE x # o
    <3>1. override'[x] = expireOverrides[x]
      BY <2>2, ExpireFacts
    <3>2. \/ override'[x] = override[x]
          \/ override[x].status \in {"requested", "approved"} /\ override'[x].status = "expired"
      <4>1. override[x] \in OverrideType
        BY DEF TypeOK
      <4> QED BY <3>1, <4>1, ExpireFacts DEF OverrideType
    <3> QED BY <3>2 DEF OverrideMoves
  <2> QED BY <2>1, <2>2
<1> QED BY <1>1, <1>2 DEF OverridesMove

\* Overrides are requested, approved, denied and looked at.
LEMMA OverrideStepFine ==
    ASSUME TypeOK,
           \/ \E o \in Overrides, ids \in SUBSET Policies,
                 r \in {Nobody} \cup {x \in Runs : Kind[x] = "sync"} : requestOverride(o, ids, r)
           \/ \E o \in Overrides : approveOverride(o) \/ denyOverride(o)
           \/ listOverrides
    PROVE  Fine
<1>1. CASE \E o \in Overrides, ids \in SUBSET Policies,
              r \in {Nobody} \cup {x \in Runs : Kind[x] = "sync"} : requestOverride(o, ids, r)
  <2>1. PICK o \in Overrides, ids \in SUBSET Policies,
             r \in {Nobody} \cup {x \in Runs : Kind[x] = "sync"} : requestOverride(o, ids, r)
    BY <1>1
  <2> DEFINE row == [status |-> "requested", ids |-> ids, for |-> r, until |-> now + OverrideTTL]
  <2>2. row \in OverrideType /\ row.status = "requested"
    BY SMTT(60) DEF OverrideType, OverrideTTL, TypeOK
  <2>3. override' = [override EXCEPT ![o] = row] /\ override[o].status = "none"
    BY <2>1 DEF requestOverride
  <2> HIDE DEF row
  <2>4. override' \in [Overrides -> OverrideType]
    BY <2>2, <2>3 DEF TypeOK
  <2>5. OverridesMove
    BY <2>2, <2>3 DEF TypeOK, OverridesMove, OverrideMoves
  <2> QED BY <2>1, <2>4, <2>5, OverridesFine DEF requestOverride
<1>2. ASSUME NEW o \in Overrides, approveOverride(o) \/ denyOverride(o)
      PROVE  Fine
  <2>1. override[o].status = "requested"
    BY <1>2 DEF approveOverride, denyOverride
  <2>2. PICK d \in {"approved", "denied"} : override' = [expireOverrides EXCEPT ![o].status = d]
    BY <1>2 DEF approveOverride, denyOverride
  <2> DEFINE row == [expireOverrides[o] EXCEPT !.status = d]
  <2>3. expireOverrides[o] \in OverrideType
    BY ExpireFacts
  <2>4. row \in OverrideType /\ row.status = d
    BY <2>3 DEF OverrideType
  <2>5. override' = [expireOverrides EXCEPT ![o] = row]
    BY <2>2, ExpireFacts
  <2> HIDE DEF row
  <2>6. override' \in [Overrides -> OverrideType] /\ OverridesMove
    BY <2>1, <2>4, <2>5, DecidedOverride
  <2> QED BY <1>2, <2>6, OverridesFine DEF approveOverride, denyOverride
<1>3. CASE listOverrides
  <2>1. override' = expireOverrides
    BY <1>3 DEF listOverrides
  <2>2. override' \in [Overrides -> OverrideType]
    BY <2>1, ExpireFacts
  <2>3. OverridesMove
    BY <2>1, ExpiryMoves
  <2> QED BY <1>3, <2>2, <2>3, OverridesFine DEF listOverrides
<1> QED BY <1>1, <1>2, <1>3

\* A step that is no consumption leaves every run with the override it had.
LEMMA FineBacked ==
    ASSUME OverrideBacked, Fine
    PROVE  OverrideBacked'
  BY SMTT(60) DEF Fine, OverridesMove, OverrideBacked

\* consumeApprovedOverride: the row it marks was approved, so it backs no other run.
LEMMA ConsumeBacked ==
    ASSUME TypeOK, OverrideBacked, NEW r \in Runs, consumeApprovedOverride(r)
    PROVE  TypeOK' /\ OverridesMove /\ OverrideBacked'
<1>1. run[r] \in RunType /\ run[r].held = {} /\ run[r].blocking \in SUBSET Policies
  BY DEF TypeOK, RunType, consumeApprovedOverride
<1>2. UNCHANGED <<now, policy, edited, lock, ledger, spent>>
  BY DEF consumeApprovedOverride
<1>3. CASE Fitting(r) = {}
  <2> DEFINE rec == Ended(r, "refused")
  <2>1. rec \in RunType /\ rec.held = run[r].held /\ rec.held = {} /\ rec.over = run[r].over
    BY <1>1, EndedTyped
  <2>2. override' = expireOverrides /\ run' = [run EXCEPT ![r] = rec]
    BY <1>3 DEF consumeApprovedOverride
  <2> HIDE DEF rec
  <2>3. override' \in [Overrides -> OverrideType] /\ OverridesMove
    BY <2>2, ExpireFacts, ExpiryMoves
  <2>4. TypeOK'
    BY <1>2, <2>1, <2>2, <2>3, RunTyped DEF TypeOK
  <2>5. \A q \in Runs : run'[q].over = run[q].over
    BY <2>1, <2>2 DEF TypeOK
  <2> QED BY <2>3, <2>4, <2>5, FineBacked DEF Fine
<1>4. CASE Fitting(r) # {}
  <2> DEFINE o == FirstFitting(r)
             row == [expireOverrides[o] EXCEPT !.status = "used", !.for = r]
             rec == [run[r] EXCEPT !.pc = "consumed", !.blocking = {}, !.over = run[r].blocking]
  <2>1. o \in Overrides /\ override[o].status = "approved" /\ override[o].until > now
        /\ override[o].ids = run[r].blocking
    <3>1. o \in Fitting(r)
      BY <1>4, FirstFits
    <3> QED BY <3>1 DEF Fitting
  <2>2. override' = [expireOverrides EXCEPT ![o] = row] /\ run' = [run EXCEPT ![r] = rec]
    BY <1>4 DEF consumeApprovedOverride
  <2> HIDE DEF o
  <2>3. expireOverrides[o] = override[o] /\ expireOverrides[o] \in OverrideType
    BY <2>1, ExpireFacts
  <2>4. /\ row \in OverrideType /\ row.status = "used" /\ row.for = r
        /\ row.ids = run[r].blocking
    BY <2>1, <2>3 DEF OverrideType
  <2>5. /\ rec \in RunType /\ rec.held = run[r].held /\ rec.held = {}
        /\ rec.over = run[r].blocking
    BY <1>1 DEF RunType
  <2> HIDE DEF row, rec
  <2>6. override' \in [Overrides -> OverrideType] /\ OverridesMove
    BY <2>1, <2>2, <2>4, DecidedOverride
  <2>7. TypeOK'
    BY <1>2, <2>2, <2>5, <2>6, RunTyped DEF TypeOK
  <2>8. override'[o] = row /\ run'[r].over = run[r].blocking
    BY <2>1, <2>2, <2>5, ExpireFacts DEF TypeOK
  <2>9. \A q \in Runs : q # r => run'[q].over = run[q].over
    BY <2>2, SMTT(60) DEF TypeOK
  <2>10. OverrideBacked'
    BY <2>1, <2>4, <2>6, <2>8, <2>9, SMTT(60) DEF OverridesMove, OverrideBacked
  <2> QED BY <2>6, <2>7, <2>10
<1> QED BY <1>3, <1>4

-----------------------------------------------------------------------------
(* The theorems. *)

\* The empty tables.
LEMMA Begin ==
    ASSUME Init
    PROVE  TypeOK /\ OverrideBacked
<1>1. Idle \in RunType /\ Idle.held = {} /\ Idle.over = {}
  BY DEF Idle, RunType
<1>2. NoCharge \in ChargeType
  BY DEF NoCharge, ChargeType
<1>3. NoOverride \in OverrideType
  BY DEF NoOverride, OverrideType
<1>4. TypeOK
  BY <1>1, <1>2, <1>3, BudgetAssumption DEF Init, TypeOK
<1>5. OverrideBacked
  BY <1>1 DEF Init, OverrideBacked
<1> QED BY <1>4, <1>5

\* Every step keeps the types and the locks, moves overrides on, and leaves each run that
\* went past a limit the override that let it.
LEMMA Step ==
    ASSUME TypeOK, OverrideBacked, [Next]_vars
    PROVE  TypeOK' /\ OverrideBacked' /\ OverridesMove
<1>1. CASE UNCHANGED vars
  <2>1. TypeOK' /\ OverrideBacked'
    BY <1>1 DEF vars, TypeOK, OverrideBacked
  <2> QED BY <1>1, <2>1, Unmoved DEF vars
<1>2. ASSUME NEW r \in Runs, RunStep(r)
      PROVE  TypeOK' /\ OverrideBacked' /\ OverridesMove
  <2>1. CASE consumeApprovedOverride(r)
    BY <2>1, ConsumeBacked
  <2>2. CASE Fine
    BY <2>2, FineBacked DEF Fine
  <2>3. consumeApprovedOverride(r) \/ Fine
    <3>1. CASE \E cost \in Costs, issue \in Issues : Open(r, cost, issue)
      BY <3>1, OpenFine
    <3>2. CASE Preflight(r)
      BY <3>2, ExpireNextFine, SelectFine, LockNextFine, SumFine, DecideFine DEF Preflight
    <3>3. CASE PreflightFails(r)
      BY <3>3, PreflightFailsFine
    <3>4. CASE NotifyFails(r) \/ commit(r) \/ release(r) \/ SettleFails(r)
      BY <3>4, SettleFine
    <3>5. CASE Start(r)
      BY <3>5, StartFine
    <3>6. CASE \E cost \in 1..(run[r].cost + 1) : Touch(r, cost)
      BY <3>6, TouchFine
    <3> QED BY <1>2, <3>1, <3>2, <3>3, <3>4, <3>5, <3>6 DEF RunStep
  <2> QED BY <2>1, <2>2, <2>3
<1>3. CASE OperatorStep \/ Tick \/ Crash
  <2>1. Fine
    BY <1>3, OperatorFine, OverrideStepFine, CrashFine DEF OperatorStep
  <2> QED BY <2>1, FineBacked DEF Fine
<1> QED BY <1>1, <1>2, <1>3 DEF Next

\* The price-budget tables stay well-typed, a policy's row lock belongs to the transaction
\* that took it and to no other, and no lock outlives its transaction (SELECT ... FOR
\* UPDATE, COMMIT and ROLLBACK of preflight).
THEOREM LocksAreHeld == Spec => []TypeOK
<1>1. Init => TypeOK /\ OverrideBacked
  BY Begin
<1>2. (TypeOK /\ OverrideBacked) /\ [Next]_vars => (TypeOK /\ OverrideBacked)'
  BY Step
<1> QED BY <1>1, <1>2, PTL DEF Spec

\* consumeApprovedOverride: a run goes past a limit only with a used override of its own for
\* exactly the policies it was blocked on, whatever requests, approvals, expiry and crashes
\* come between.
THEOREM OneRunPerOverride == Spec => []OverrideBacked
<1>1. Init => TypeOK /\ OverrideBacked
  BY Begin
<1>2. (TypeOK /\ OverrideBacked) /\ [Next]_vars => (TypeOK /\ OverrideBacked)'
  BY Step
<1> QED BY <1>1, <1>2, PTL DEF Spec

\* requestOverride, approveOverride, denyOverride, expireOverrides and
\* consumeApprovedOverride decide an override once: none is used unless it was approved,
\* and denied, used and expired are final.
THEOREM OverridesDecidedOnce == Spec => OverrideLifecycle
<1>1. Init => TypeOK /\ OverrideBacked
  BY Begin
<1>2. (TypeOK /\ OverrideBacked) /\ [Next]_vars => (TypeOK /\ OverrideBacked)'
  BY Step
<1>3. (TypeOK /\ OverrideBacked) /\ [Next]_vars => [\A o \in Overrides : OverrideMoves(o)]_vars
  BY Step DEF OverridesMove
<1> QED BY <1>1, <1>2, <1>3, PTL DEF Spec, OverrideLifecycle
=============================================================================
