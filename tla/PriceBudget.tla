----------------------------- MODULE PriceBudget -----------------------------
(***************************************************************************)
(* The price budget of S3 vaults: PriceBudgetService over the tables       *)
(* s3_price_budget_policy, _ledger and _override, and the code that        *)
(* reserves before remote work and settles after it (sync::Cloud,          *)
(* the conflict resolver and the recovery code, remote fetches, the S3     *)
(* gateway).                                                               *)
(*                                                                         *)
(* A preflight is a READ COMMITTED transaction of several statements: it   *)
(* expires stale ledger rows, locking them one by one, locks the policies  *)
(* it applies in id order (SELECT ... ORDER BY id FOR UPDATE), sums what   *)
(* each window holds, a statement each, and inserts its rows. Its          *)
(* CURRENT_TIMESTAMP is that of its BEGIN, and what it writes is visible   *)
(* to others when it commits. A settlement takes no policy lock and may    *)
(* come between any two of its statements. The other operations are one    *)
(* statement that matters and are one action each.                         *)
(*                                                                         *)
(* Amounts are small naturals. The clock counts days, and the month is     *)
(* scaled down: an override lives less than a day, a reservation goes      *)
(* stale after a day, and a month has several days.                        *)
(***************************************************************************)
EXTENDS Integers, FiniteSetsExt

CONSTANTS
    Policies,     \* ids of the policy rows
    Runs,         \* run_uuid: one reservation and its settlement
    Kind,         \* who makes a run: see Kinds
    Applies,      \* the policies a run's scope selects
    Overrides,    \* ids of the override rows
    Costs,        \* the amounts an estimate may have
    Issues,       \* the sets of policies an estimate cannot be priced for
    InitialRows,  \* the policy rows at the start
    EditedRows,   \* the rows an operator may write
    MaxTime,      \* bound: the last day
    MaxEdits,     \* bound: how many policies an operator writes, each once
    Nobody,
    NoLimit,
    Admit         \* which of BudgetEvents this instance lets happen

Kinds == {"sync", "guard", "fetch", "gateway"}
Modes == {"off", "report", "warn", "enforce"}
Windows == {"per_run", "daily", "monthly"}

Month == 3          \* days in a month; the clock counts days
StaleAge == 1       \* kStaleReservationAge
OverrideTTL == 1    \* an override does not live to see the next day

BudgetEvents ==
    {"outlive",    \* a reservation outlives kStaleReservationAge before it settles
     "crash",      \* the daemon stops between a reservation and its settlement
     "unsettled",  \* the settlement itself fails and leaves the rows reserved
     "let off",    \* what used the provider is released: a gateway request that
                   \* fails later, a backlog settlement that finds the object
     "overrun"}    \* remote work costs more than its estimate

Limits == Nat \cup {NoLimit}
Row == [mode : Modes, per_run : Limits, daily : Limits, monthly : Limits]

ASSUME BudgetAssumption ==
    /\ Policies \subseteq Nat /\ Overrides \subseteq Nat /\ Costs \subseteq Nat \ {0}
    /\ IsFiniteSet(Policies) /\ IsFiniteSet(Overrides) /\ IsFiniteSet(Runs)
    /\ Kind \in [Runs -> Kinds] /\ Applies \in [Runs -> SUBSET Policies]
    /\ InitialRows \in [Policies -> Row] /\ EditedRows \subseteq Row
    /\ Issues \subseteq SUBSET Policies /\ MaxTime \in Nat /\ MaxEdits \in Nat
    /\ Nobody \notin Runs /\ NoLimit \notin Nat
    /\ Admit \subseteq BudgetEvents

VARIABLES
    now,
    policy,    \* s3_price_budget_policy; mode "off" stands for an inactive row too
    edited,    \* the policies an operator wrote since the start
    lock,      \* the run whose transaction holds a policy's row lock
    ledger,    \* s3_price_budget_ledger: the rows of one reservation, which
               \* share their transaction's timestamp and so their fate
    override,  \* s3_price_budget_override
    run,       \* how far each run is
    spent      \* what each run's remote work cost so far

vars == <<now, policy, edited, lock, ledger, override, run, spent>>

NoCharge == [status |-> "none", born |-> 0, cost |-> 0, final |-> 0, windows |-> {}]
NoOverride == [status |-> "none", ids |-> {}, for |-> Nobody, until |-> 0]
Idle == [pc |-> "idle", at |-> 0, cost |-> 0, issue |-> {}, stale |-> {}, todo |-> {},
         held |-> {}, summed |-> {}, blocking |-> {}, over |-> {}]

Init ==
    /\ now = 0
    /\ policy = InitialRows
    /\ edited = {}
    /\ lock = [p \in Policies |-> Nobody]
    /\ ledger = [r \in Runs |-> NoCharge]
    /\ override = [o \in Overrides |-> NoOverride]
    /\ run = [r \in Runs |-> Idle]
    /\ spent = [r \in Runs |-> 0]

-----------------------------------------------------------------------------
(* Policies, windows and what a window already holds. *)

limitForWindow(row, w) == row[w]

configuredWindows(row) ==
    LET limited == {w \in Windows : limitForWindow(row, w) # NoLimit}
    IN  IF limited = {} THEN {"per_run"} ELSE limited

windowStart(w, t) ==
    CASE w = "per_run" -> t
      [] w = "daily"   -> t
      [] w = "monthly" -> t \div Month

\* Mutant: only settled charges count.
CountedSettled(r) == ledger[r].status = "committed"

Counted(r) == ledger[r].status \in {"reserved", "committed"}

ActiveCost(r) == IF ledger[r].status = "committed" THEN ledger[r].final ELSE ledger[r].cost

(* A transaction sees the rows it expired itself as gone. *)
usedForWindow(p, w, t, gone) ==
    IF w = "per_run" THEN 0
    ELSE MapThenSumSet(ActiveCost,
           {r \in Runs \ gone :
               /\ Counted(r)
               /\ <<p, w>> \in ledger[r].windows
               /\ windowStart(w, ledger[r].born) = windowStart(w, t)})

Exceeded(r, p, w) ==
    /\ limitForWindow(policy[p], w) # NoLimit
    /\ usedForWindow(p, w, run[r].at, run[r].stale) + run[r].cost > limitForWindow(policy[p], w)

(* A reservation that a preflight at time t marks as expired. *)
Stale(r, t) == ledger[r].status = "reserved" /\ ledger[r].born < t - StaleAge

(* The ledger rows of q are written by an open transaction. *)
RowsLocked(q) == \E r \in Runs : q \in run[r].stale

-----------------------------------------------------------------------------
(* preflight. *)

(* BEGIN; the estimate and the policies it cannot be priced for are given. *)
Open(r, cost, issue) ==
    /\ run[r].pc \in {"idle", "consumed"}
    /\ run[r].pc = "consumed" => cost = run[r].cost /\ issue = run[r].issue
    /\ run' = [run EXCEPT ![r] = [@ EXCEPT
           !.pc = "opened", !.at = now, !.cost = cost, !.issue = issue]]
    /\ UNCHANGED <<now, policy, edited, lock, ledger, override, spent>>

(* The UPDATE that expires stale rows: it takes them in no given order and *)
(* waits for a row that another transaction is writing.                    *)
ExpireNext(r) ==
    /\ run[r].pc = "opened"
    /\ \E q \in Runs \ run[r].stale :
       /\ Stale(q, run[r].at) /\ ~RowsLocked(q)
       /\ run' = [run EXCEPT ![r].stale = run[r].stale \cup {q}]
    /\ UNCHANGED <<now, policy, edited, lock, ledger, override, spent>>

(* The snapshot of the SELECT, once no stale row is left. *)
SelectPolicies(r) ==
    /\ run[r].pc = "opened"
    /\ \A q \in Runs : Stale(q, run[r].at) => q \in run[r].stale
    /\ run' = [run EXCEPT ![r] = [@ EXCEPT
           !.pc = "locking", !.todo = {p \in Applies[r] : policy[p].mode # "off"}]]
    /\ UNCHANGED <<now, policy, edited, lock, ledger, override, spent>>

\* Mutant: the rows are locked in no particular order.
LockNextUnordered(r) ==
    /\ run[r].pc = "locking" /\ run[r].todo # {}
    /\ \E p \in run[r].todo :
       /\ lock[p] = Nobody
       /\ run' = [run EXCEPT ![r] = [@ EXCEPT
              !.todo = run[r].todo \ {p},
              !.held = IF policy[p].mode # "off" THEN run[r].held \cup {p} ELSE run[r].held]]
       /\ lock' = IF policy[p].mode # "off" THEN [lock EXCEPT ![p] = r] ELSE lock
    /\ UNCHANGED <<now, policy, edited, ledger, override, spent>>

(* ORDER BY id FOR UPDATE: the next row, read again once it is free. *)
LockNext(r) ==
    /\ run[r].pc = "locking" /\ run[r].todo # {}
    /\ LET p == Min(run[r].todo) IN
       /\ lock[p] = Nobody
       /\ run' = [run EXCEPT ![r] = [@ EXCEPT
              !.todo = run[r].todo \ {p},
              !.held = IF policy[p].mode # "off" THEN run[r].held \cup {p} ELSE run[r].held]]
       /\ lock' = IF policy[p].mode # "off" THEN [lock EXCEPT ![p] = r] ELSE lock
    /\ UNCHANGED <<now, policy, edited, ledger, override, spent>>

Enforced(r) == {p \in run[r].held : policy[p].mode = "enforce"}

(* The window sums that can block: each is a statement of its own. *)
Checks(r) ==
    UNION {{<<p, w>> : w \in configuredWindows(policy[p])} :
             p \in Enforced(r) \ (run[r].issue \cup run[r].over)}

SumWindow(r) ==
    /\ run[r].pc = "locking" /\ run[r].todo = {}
    /\ \E c \in Checks(r) \ run[r].summed :
       run' = [run EXCEPT ![r] = [@ EXCEPT
           !.summed = run[r].summed \cup {c},
           !.blocking = IF Exceeded(r, c[1], c[2]) THEN run[r].blocking \cup {c[1]}
                                                   ELSE run[r].blocking]]
    /\ UNCHANGED <<now, policy, edited, lock, ledger, override, spent>>

Stalled(r) == run[r].blocking # {} \/ Enforced(r) \cap run[r].issue # {}

Unlock(r) == [p \in Policies |-> IF lock[p] = r THEN Nobody ELSE lock[p]]

Expired(r) == [q \in Runs |-> IF q \in run[r].stale THEN [ledger[q] EXCEPT !.status = "expired"]
                                                    ELSE ledger[q]]

(* The rows preflight inserts: one per priced policy and window. *)
Charge(r) ==
    LET rows == UNION {{<<p, w>> : w \in configuredWindows(policy[p])} :
                        p \in run[r].held \ run[r].issue}
    IN  IF rows = {} THEN NoCharge
        ELSE [status |-> "reserved", born |-> run[r].at, cost |-> run[r].cost,
              final |-> 0, windows |-> rows]

(* The transaction is over; a run that is over keeps nothing of it. *)
Closed(r, pc) == [run[r] EXCEPT !.pc = pc, !.stale = {}, !.todo = {}, !.held = {}, !.summed = {}]
Ended(r, pc) == [Idle EXCEPT !.pc = pc, !.over = run[r].over]

(* The decision, the INSERTs and COMMIT. Only sync::Cloud goes on to look   *)
(* for an override, once, and only when a limit is what blocks it.         *)
Decide(r) ==
    /\ run[r].pc = "locking" /\ run[r].todo = {} /\ Checks(r) \subseteq run[r].summed
    /\ lock' = Unlock(r)
    /\ IF Stalled(r)
       THEN /\ ledger' = Expired(r)
            /\ run' = [run EXCEPT ![r] =
                   IF Kind[r] = "sync" /\ run[r].blocking # {} /\ run[r].over = {}
                   THEN Closed(r, "blocked") ELSE Ended(r, "refused")]
       ELSE /\ ledger' = [Expired(r) EXCEPT ![r] = Charge(r)]
            /\ run' = [run EXCEPT ![r] = Closed(r, "admitted")]
    /\ UNCHANGED <<now, policy, edited, override, spent>>

\* Mutant: the connection of a failed preflight goes back with its transaction open.
PreflightFailsOpen(r) ==
    /\ run[r].pc \in {"opened", "locking"}
    /\ run' = [run EXCEPT ![r] = Ended(r, "refused")]
    /\ UNCHANGED <<now, policy, edited, lock, ledger, override, spent>>

(* The transaction is rolled back and the caller's exception ends the run. *)
PreflightFails(r) ==
    /\ run[r].pc \in {"opened", "locking"}
    /\ lock' = Unlock(r)
    /\ run' = [run EXCEPT ![r] = Ended(r, "refused")]
    /\ UNCHANGED <<now, policy, edited, ledger, override, spent>>

-----------------------------------------------------------------------------
(* Overrides. *)

Outdated(o) == override[o].status \in {"requested", "approved"} /\ override[o].until <= now

expireOverrides == [o \in Overrides |->
    IF Outdated(o) THEN [override[o] EXCEPT !.status = "expired"] ELSE override[o]]

requestOverride(o, ids, r) ==
    /\ override[o].status = "none" /\ ids # {}
    /\ override' = [override EXCEPT ![o] =
           [status |-> "requested", ids |-> ids, for |-> r, until |-> now + OverrideTTL]]
    /\ UNCHANGED <<now, policy, edited, lock, ledger, run, spent>>

\* Mutant: an override may be approved whatever was decided before.
approveOverrideAgain(o) ==
    /\ override[o].status # "none" /\ override[o].until > now
    /\ override' = [expireOverrides EXCEPT ![o].status = "approved"]
    /\ UNCHANGED <<now, policy, edited, lock, ledger, run, spent>>

approveOverride(o) ==
    /\ override[o].status = "requested" /\ override[o].until > now
    /\ override' = [expireOverrides EXCEPT ![o].status = "approved"]
    /\ UNCHANGED <<now, policy, edited, lock, ledger, run, spent>>

denyOverride(o) ==
    /\ override[o].status = "requested" /\ ~Outdated(o)
    /\ override' = [expireOverrides EXCEPT ![o].status = "denied"]
    /\ UNCHANGED <<now, policy, edited, lock, ledger, run, spent>>

(* listOverrides expires too. *)
listOverrides ==
    /\ \E o \in Overrides : Outdated(o)
    /\ override' = expireOverrides
    /\ UNCHANGED <<now, policy, edited, lock, ledger, run, spent>>

\* Mutant: an override stays good until it expires.
FittingUsed(r) ==
    {o \in Overrides : /\ override[o].status \in {"approved", "used"}
                       /\ override[o].until > now
                       /\ override[o].ids = run[r].blocking}

(* The approved overrides that fit a blocked run. *)
Fitting(r) ==
    {o \in Overrides : /\ override[o].status = "approved"
                       /\ override[o].until > now
                       /\ override[o].ids = run[r].blocking
                       /\ override[o].for \in {Nobody, r}}

(* ORDER BY expires_at, id LIMIT 1. *)
FirstFitting(r) ==
    CHOOSE o \in Fitting(r) : \A x \in Fitting(r) :
        \/ override[o].until < override[x].until
        \/ override[o].until = override[x].until /\ o <= x

consumeApprovedOverride(r) ==
    /\ run[r].pc = "blocked"
    /\ IF Fitting(r) = {}
       THEN /\ override' = expireOverrides
            /\ run' = [run EXCEPT ![r] = Ended(r, "refused")]
       ELSE /\ override' = [expireOverrides EXCEPT ![FirstFitting(r)] =
                   [@ EXCEPT !.status = "used", !.for = r]]
            /\ run' = [run EXCEPT ![r] = [@ EXCEPT
                   !.pc = "consumed", !.blocking = {}, !.over = run[r].blocking]]
    /\ UNCHANGED <<now, policy, edited, lock, ledger, spent>>

-----------------------------------------------------------------------------
(* Remote work and its settlement. *)

(* createNotification throws after the reservation was made. *)
NotifyFails(r) ==
    /\ run[r].pc = "admitted"
    /\ run' = [run EXCEPT ![r] = Ended(r, "gone")]
    /\ UNCHANGED <<now, policy, edited, lock, ledger, override, spent>>

(* A sync pass or a guarded operation counts as remote work from its start. *)
Start(r) ==
    /\ run[r].pc = "admitted"
    /\ run' = [run EXCEPT ![r].pc = "working"]
    /\ spent' = IF Kind[r] \in {"sync", "guard"} THEN [spent EXCEPT ![r] = run[r].cost] ELSE spent
    /\ UNCHANGED <<now, policy, edited, lock, ledger, override>>

(* A fetch or a gateway request reaches the provider, at an actual cost. *)
Touch(r, cost) ==
    /\ run[r].pc = "working" /\ spent[r] = 0 /\ Kind[r] \in {"fetch", "gateway"}
    /\ cost <= run[r].cost \/ "overrun" \in Admit
    /\ spent' = [spent EXCEPT ![r] = cost]
    /\ UNCHANGED <<now, policy, edited, lock, ledger, override, run>>

\* Mutant: a late settlement counts although its rows expired.
SettledLate(r, status, final) ==
    IF ledger[r].status \in {"reserved", "expired"}
    THEN [ledger EXCEPT ![r] = [@ EXCEPT !.status = status, !.final = final]] ELSE ledger

(* commit and release change rows that are still reserved, and only those. *)
Settled(r, status, final) ==
    IF ledger[r].status = "reserved"
    THEN [ledger EXCEPT ![r] = [@ EXCEPT !.status = status, !.final = final]] ELSE ledger

commit(r) ==
    /\ run[r].pc = "working" /\ spent[r] > 0 /\ ~RowsLocked(r)
    /\ ledger' = Settled(r, "committed", spent[r])
    /\ run' = [run EXCEPT ![r] = Ended(r, "done")]
    /\ UNCHANGED <<now, policy, edited, lock, override, spent>>

(* What was reserved for nothing is released, and what is let off. *)
release(r) ==
    /\ run[r].pc = "working" /\ ~RowsLocked(r)
    /\ \/ Kind[r] \in {"fetch", "gateway"} /\ spent[r] = 0
       \/ Kind[r] \in {"gateway", "guard"} /\ "let off" \in Admit
    /\ ledger' = Settled(r, "released", 0)
    /\ run' = [run EXCEPT ![r] = Ended(r, "done")]
    /\ UNCHANGED <<now, policy, edited, lock, override, spent>>

(* The transaction of commit or release fails. The caller logs it or lets  *)
(* it end the run; nobody settles the rows again.                          *)
SettleFails(r) ==
    /\ "unsettled" \in Admit
    /\ run[r].pc = "working"
    /\ run' = [run EXCEPT ![r] = Ended(r, "gone")]
    /\ UNCHANGED <<now, policy, edited, lock, ledger, override, spent>>

-----------------------------------------------------------------------------
(* Operators, time and crashes. *)

(* Showing the budgets expires stale rows as well. *)
expireStaleReservations ==
    /\ \E r \in Runs : Stale(r, now)
    /\ \A r \in Runs : Stale(r, now) => ~RowsLocked(r)
    /\ ledger' = [r \in Runs |-> IF Stale(r, now) THEN [ledger[r] EXCEPT !.status = "expired"]
                                                  ELSE ledger[r]]
    /\ UNCHANGED <<now, policy, edited, lock, override, run, spent>>

MayEdit(p) == p \notin edited /\ Cardinality(edited) < MaxEdits

upsertPolicy(p, row) ==
    /\ lock[p] = Nobody /\ MayEdit(p)
    /\ policy' = [policy EXCEPT ![p] = row]
    /\ edited' = edited \cup {p}
    /\ UNCHANGED <<now, lock, ledger, override, run, spent>>

disablePolicy(p) ==
    /\ lock[p] = Nobody /\ MayEdit(p)
    /\ policy' = [policy EXCEPT ![p].mode = "off"]
    /\ edited' = edited \cup {p}
    /\ UNCHANGED <<now, lock, ledger, override, run, spent>>

(* The transaction or the reservation of r is too old to last another day. *)
Overdue(r) ==
    \/ run[r].pc \in {"opened", "locking"} /\ run[r].at + StaleAge <= now
    \/ run[r].pc \in {"admitted", "working"} /\ ledger[r].born + StaleAge <= now

Tick ==
    /\ now < MaxTime
    /\ "outlive" \in Admit \/ \A r \in Runs : ~Overdue(r)
    /\ now' = now + 1
    /\ UNCHANGED <<policy, edited, lock, ledger, override, run, spent>>

(* The daemon dies: open transactions roll back, rows stay as committed. *)
Crash ==
    /\ "crash" \in Admit
    /\ \E r \in Runs : run[r].pc \notin {"idle", "refused", "done", "gone"}
    /\ lock' = [p \in Policies |-> Nobody]
    /\ run' = [r \in Runs |-> IF run[r].pc \in {"idle", "refused", "done", "gone"} THEN run[r]
                              ELSE Ended(r, "gone")]
    /\ UNCHANGED <<now, policy, edited, ledger, override, spent>>

Preflight(r) == ExpireNext(r) \/ SelectPolicies(r) \/ LockNext(r) \/ SumWindow(r) \/ Decide(r)

RunStep(r) ==
    \/ \E cost \in Costs, issue \in Issues : Open(r, cost, issue)
    \/ Preflight(r)
    \/ PreflightFails(r)
    \/ consumeApprovedOverride(r)
    \/ NotifyFails(r)
    \/ Start(r)
    \/ \E cost \in 1..(run[r].cost + 1) : Touch(r, cost)
    \/ commit(r)
    \/ release(r)
    \/ SettleFails(r)

OperatorStep ==
    \/ \E p \in Policies, row \in EditedRows : upsertPolicy(p, row)
    \/ \E p \in Policies : disablePolicy(p)
    \/ \E o \in Overrides, ids \in SUBSET Policies,
         r \in {Nobody} \cup {x \in Runs : Kind[x] = "sync"} : requestOverride(o, ids, r)
    \/ \E o \in Overrides : approveOverride(o) \/ denyOverride(o)
    \/ listOverrides
    \/ expireStaleReservations

Next == (\E r \in Runs : RunStep(r)) \/ OperatorStep \/ Tick \/ Crash

Spec == Init /\ [][Next]_vars

(* A transaction that can go on goes on. *)
FairSpec == Spec /\ \A r \in Runs : WF_vars(Preflight(r))

-----------------------------------------------------------------------------
(* Properties. *)

ChargeType ==
    [status : {"none", "reserved", "committed", "released", "expired"}, born : Nat, cost : Nat,
     final : Nat, windows : SUBSET (Policies \X Windows)]

RunType ==
    [pc : {"idle", "opened", "locking", "blocked", "consumed", "admitted", "working",
           "refused", "done", "gone"},
     at : Nat, cost : Nat, issue : SUBSET Policies, stale : SUBSET Runs, todo : SUBSET Policies,
     held : SUBSET Policies, summed : SUBSET (Policies \X Windows),
     blocking : SUBSET Policies, over : SUBSET Policies]

OverrideType ==
    [status : {"none", "requested", "approved", "denied", "used", "expired"},
     ids : SUBSET Policies, for : Runs \cup {Nobody}, until : Nat]

(* The types of the tables and of the runs, that a row lock and the       *)
(* transaction that holds it agree, and that no lock outlives it.         *)
TypeOK ==
    /\ now \in Nat
    /\ policy \in [Policies -> Row] /\ edited \subseteq Policies
    /\ lock \in [Policies -> Runs \cup {Nobody}]
    /\ ledger \in [Runs -> ChargeType]
    /\ override \in [Overrides -> OverrideType]
    /\ run \in [Runs -> RunType]
    /\ spent \in [Runs -> Nat]
    /\ \A p \in Policies, r \in Runs : lock[p] = r <=> p \in run[r].held
    /\ \A r \in Runs : run[r].held # {} => run[r].pc = "locking"

(* The runs that policy p charged and bounds: no override let them past.   *)
Bounded(p) == {r \in Runs : ledger[r].status # "none" /\ p \in Applies[r] \ run[r].over}

(* What they spent in a window. A month forgets a reservation that nobody  *)
(* settled within kStaleReservationAge, and gives its amount away.         *)
Spent(r) == spent[r]
SpentInWindow(p, w, t) ==
    MapThenSumSet(Spent, {r \in Bounded(p) :
        /\ windowStart(w, ledger[r].born) = windowStart(w, t)
        /\ w = "monthly" => ledger[r].status # "expired"})

(* Enforcement bounds what is really spent: as long as an operator leaves  *)
(* an enforcing policy alone, no run that nobody overrode spends more than *)
(* the policy's limit for a run, and such runs together stay within its    *)
(* limit for a day, whether they settle, fail to or are cut off by a       *)
(* crash, and within its limit for a month apart from expired              *)
(* reservations, however preflights and settlements interleave.            *)
SpendWithinLimit ==
    \A p \in Policies \ edited :
        policy[p].mode = "enforce" =>
            /\ limitForWindow(policy[p], "per_run") # NoLimit =>
                  \A r \in Bounded(p) : spent[r] <= limitForWindow(policy[p], "per_run")
            /\ \A w \in {"daily", "monthly"}, t \in 0..now :
                  limitForWindow(policy[p], w) # NoLimit =>
                      SpentInWindow(p, w, t) <= limitForWindow(policy[p], w)

(* What a run holds of a limit: what it reserved, or less once it settled. *)
Granted(r) == IF ActiveCost(r) < ledger[r].cost THEN ActiveCost(r) ELSE ledger[r].cost

(* The ledger never grants the same money twice: in every window of an     *)
(* enforcing policy that was left alone, the amounts that admitted runs    *)
(* hold (runs an override let past aside, an overrun at what it reserved)  *)
(* stay within the limit, although settlements, late ones included, come   *)
(* between the sums and the INSERTs of a preflight and rows expire under   *)
(* runs that still work.                                                   *)
GrantedOnce ==
    \A p \in Policies \ edited, w \in {"daily", "monthly"}, t \in 0..now :
        policy[p].mode = "enforce" /\ limitForWindow(policy[p], w) # NoLimit =>
            MapThenSumSet(Granted, {r \in Bounded(p) :
                Counted(r) /\ windowStart(w, ledger[r].born) = windowStart(w, t)})
              <= limitForWindow(policy[p], w)

(* An override admits one run: a run goes past a limit only with an        *)
(* override row of its own, used, for exactly the policies it was blocked  *)
(* on; two runs never share one.                                           *)
OverrideBacked ==
    \A r \in Runs : run[r].over # {} =>
        \E o \in Overrides : /\ override[o].status = "used"
                              /\ override[o].for = r
                              /\ override[o].ids = run[r].over

OverrideMoves(o) ==
    override'[o].status # override[o].status =>
        \/ override[o].status = "none" /\ override'[o].status = "requested"
        \/ override[o].status = "requested" /\ override'[o].status \in {"approved", "denied", "expired"}
        \/ override[o].status = "approved" /\ override'[o].status \in {"used", "expired"}

(* An override is decided once: it is used only after it was approved, and *)
(* denied, used and expired are final.                                     *)
OverrideLifecycle == [][\A o \in Overrides : OverrideMoves(o)]_vars

(* Every preflight is decided: the transactions that wait for each other's *)
(* policy rows never wait in a circle.                                     *)
PreflightDecides ==
    \A r \in Runs : run[r].pc = "opened" ~> run[r].pc \notin {"opened", "locking"}
=============================================================================
