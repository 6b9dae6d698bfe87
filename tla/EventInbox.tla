---------------------------- MODULE EventInbox ----------------------------
(***************************************************************************)
(* Event-driven sync of one object key of one subscribed vault.            *)
(*                                                                         *)
(* The provider (external) orders the writes and deletes of the key and    *)
(* notifies a queue; delivery is at least once, in any order.  A poller    *)
(* stores each event in the inbox before it acknowledges the message       *)
(* (Service::pollOnce, ingest).  The applier moves pending rows into the   *)
(* remote object index (Applier::applyVault) and starts a scoped pass for  *)
(* the applied ones (Applier::schedule).  A regular pass lists the bucket  *)
(* when the event stream has a gap and writes objects itself; a write      *)
(* intent lets the applier recognise the events of those writes.           *)
(*                                                                         *)
(* Threads: the poller, the applier, the pass that holds the vault's pass  *)
(* lease, a conflict resolution, which takes no lease, and everybody else  *)
(* who writes to the bucket.                                               *)
(*                                                                         *)
(* An event is the number of its provider operation; its kind, time, ETag  *)
(* and (on AWS) sequencer are those of the operation.  Objects have one    *)
(* size, so that sizes never tell two writes apart.                        *)
(***************************************************************************)
EXTENDS Naturals, Sequences

CONSTANTS
    MaxOps,           \* bound: operations of the provider on the key
    MaxClock,         \* bound: the clock, in ticks
    MaxSeqClock,      \* bound: the same where sequencers order the events
    MaxPassAttempts,  \* kMaxPassAttempts
    MaxFaults,        \* bound: faults (see faults)
    Slack,            \* the clock slack of a write intent, in ticks
    Skew,             \* kBaselineSkewSeconds, in ticks
    Sequencing,       \* the providers: TRUE sends sequencers (AWS), FALSE none (R2)
    Admit             \* which of InboxEvents this instance lets happen

InboxEvents ==
    {"ownDelete",      \* Vaulthalla deletes the object upstream
     "opFails",        \* another operation of the pass fails
     "unleased",       \* a conflict resolution uploads without the pass lease
     "intentFails",    \* an intent cannot be recorded, or stays open after its write
     "staleRead",      \* the subscription changes before the applier has the lease
     "inactive",       \* the vault has no storage engine when its rows are due
     "protected",      \* its bucket is protected then
     "crashInWrite",   \* a restart in the middle of its write
     "intentExpires",  \* its write intent, before the event arrives
     "lost",           \* a message goes to the dead-letter queue
     "tie"}            \* two operations in one millisecond, without sequencers

ASSUME InboxAssumption ==
    /\ {MaxOps, MaxFaults, Slack, Skew} \subseteq Nat
    /\ {MaxClock, MaxSeqClock, MaxPassAttempts} \subseteq Nat \ {0}
    /\ MaxSeqClock <= MaxClock
    /\ Sequencing \subseteq BOOLEAN
    /\ Admit \subseteq InboxEvents

VARIABLES
    sequenced,  \* whether the provider sends sequencers
    ops,        \* its operations on the key, in order
    clock,
    queue,      \* messages not acknowledged yet
    dead,       \* the dead-letter queue grew since its last check
    inbox,      \* upstream_event_inbox: the rows, by id
    intents,    \* upstream_write_intent, by recorded_at
    index,      \* the key's row of remote_object_index
    lease,      \* who holds the vault's pass lease
    resolving,  \* the upload of a conflict resolution
    apply,      \* the applier
    pass,       \* the pass
    baseline,   \* the subscription: baseline_state, baseline_started_at
    sub,        \* baseline_started_at as the applier read it
    broken,     \* the channel's continuity_broken_at
    owed,       \* the index changed and no pass has looked at the key since
    faults      \* requests and passes that failed, lost acknowledgements and
                \* messages, expired intents and restarts, so far

provider == <<sequenced, ops>>
stream == <<queue, dead, broken>>
vars == <<provider, clock, stream, inbox, intents, index, lease, resolving, apply,
          pass, baseline, sub, owed, faults>>

Ops == 1..MaxOps
Kinds == {"Created", "Removed"}
None == 0
Ids == DOMAIN inbox

(* The object the provider holds: the operation that wrote it.             *)
Object == IF ops # <<>> /\ ops[Len(ops)].kind = "Created" THEN Len(ops) ELSE None

(* A row of the index: ETag, event_sequencer, and the object whose size,   *)
(* hash and encryption metadata it carries.                                *)
Row(etag, seq, desc) == [etag |-> etag, seq |-> seq, desc |-> desc]
NoRow == Row(None, None, None)
Indexed == index # NoRow
IndexedObject == IF index.etag # None THEN index.etag ELSE index.desc

Kind(i) == ops[inbox[i].op].kind
Time(i) == ops[inbox[i].op].ms
(* Mutant of Due: the state of a row is not looked at.                     *)
DueAny(state) == {i \in Ids : inbox[i].due}

Due(state) == {i \in Ids : inbox[i].state = state /\ inbox[i].due}

(* tied, newerOrEqual: the order of two events of the key.                 *)
tied(a, b) == ~sequenced /\ Time(a) = Time(b)
newerOrEqual(a, b) ==
    IF sequenced THEN inbox[a].op >= inbox[b].op
    ELSE IF Time(a) # Time(b) THEN Time(a) > Time(b)
    ELSE IF Kind(a) # Kind(b) THEN Kind(a) = "Removed"
    ELSE a >= b
Newest(rows) == CHOOSE a \in rows : \A b \in rows : newerOrEqual(a, b)

(* The order of the queries: sequencer, then time, then id.                *)
Before(a, b) ==
    IF sequenced THEN inbox[a].op <= inbox[b].op
    ELSE Time(a) < Time(b) \/ (Time(a) = Time(b) /\ a <= b)
First(rows) == CHOOSE a \in rows : \A b \in rows : Before(a, b)

(* Inbox::latestForKey: the last row, in any state.                        *)
latestForKey == CHOOSE a \in Ids : \A b \in Ids : Before(b, a)

(* The rows of `inbox` after markSkipped, and the two ways to put one off. *)
Skipped(rows, ids, origin) ==
    [i \in DOMAIN rows |->
        IF i \in ids THEN [rows[i] EXCEPT !.state = "skipped", !.origin = origin]
        ELSE rows[i]]
Delayed(rows, ids) ==
    [i \in DOMAIN rows |->
        IF i \in ids THEN [rows[i] EXCEPT !.attempts = @ + 1, !.due = FALSE]
        ELSE rows[i]]
InState(rows, ids, state) ==
    [i \in DOMAIN rows |->
        IF i \in ids THEN [rows[i] EXCEPT !.state = state] ELSE rows[i]]

(* Mutant of Matches: the size is enough, the ETag is not compared.        *)
MatchesAnyETag(w, i) == w.op = Kind(i) /\ w.at <= Time(i) + Slack

(* upstream_write_intent_consume: the oldest intent an event matches.      *)
Matches(w, i) ==
    /\ w.op = Kind(i)
    /\ w.at <= Time(i) + Slack
    /\ (w.op = "Created" /\ w.etag # None) => w.etag = inbox[i].op
Matching(held, i) == {k \in DOMAIN held : Matches(held[k], i)}
Oldest(ks) == CHOOSE k \in ks : \A l \in ks : k <= l
Without(s, k) == SubSeq(s, 1, k - 1) \o SubSeq(s, k + 1, Len(s))

(* The intents after WriteIntent::record, complete and remove: `by` is the *)
(* write that has the id.  The applier may have taken it meanwhile.        *)
Noted(by, kind) == Append(intents, [op |-> kind, etag |-> None, at |-> clock, by |-> by])
Held(by) == {k \in DOMAIN intents : intents[k].by = by}
Completed(by, etag) ==
    [k \in DOMAIN intents |->
        IF intents[k].by = by THEN [intents[k] EXCEPT !.etag = etag, !.by = "nobody"]
        ELSE intents[k]]
Forgotten(by) == IF Held(by) = {} THEN intents ELSE Without(intents, Oldest(Held(by)))

NoPass == [pc |-> "off", rows |-> {}, kind |-> "Created", at |-> 0, seen |-> None]
NoResolution == [pc |-> "off", seen |-> None]

Init ==
    /\ sequenced \in Sequencing
    /\ ops = <<>> /\ clock = 1
    /\ queue = {} /\ dead = FALSE /\ broken = 0
    /\ inbox = <<>> /\ intents = <<>> /\ index = NoRow
    /\ lease = "free" /\ resolving = NoResolution /\ sub = 0
    /\ apply = [pc |-> "idle", rows |-> {}, latest |-> None]
    /\ pass = NoPass
    /\ baseline = [held |-> TRUE, at |-> 0]
    /\ owed = FALSE /\ faults = 0

-----------------------------------------------------------------------------
(* The provider, and the other applications that use the bucket.           *)

(* Another operation is within the bounds; times tell events apart where   *)
(* sequencers do not, unless ties are admitted.                            *)
Room ==
    /\ Len(ops) < MaxOps
    /\ sequenced \/ "tie" \in Admit \/ \A n \in DOMAIN ops : ops[n].ms # clock

Operate(kind, own) ==
    /\ Room
    /\ ops' = Append(ops, [kind |-> kind, ms |-> clock, own |-> own])
    /\ queue' = queue \cup {Len(ops) + 1}
    /\ UNCHANGED <<sequenced, dead, broken>>

External(kind) ==
    /\ kind = "Removed" => Object # None
    /\ Operate(kind, FALSE)
    /\ UNCHANGED <<clock, inbox, intents, index, lease, apply, pass, baseline,
                   owed, faults, resolving, sub>>

Fault == faults < MaxFaults /\ faults' = faults + 1

(* A message reaches its last delivery and is moved aside.                 *)
Lose(m) ==
    /\ "lost" \in Admit /\ Fault
    /\ m \in queue
    /\ queue' = queue \ {m}
    /\ dead' = TRUE
    /\ UNCHANGED <<provider, clock, broken, inbox, intents, index, lease, apply,
                   pass, baseline, owed, resolving, sub>>

LastTick == IF sequenced THEN MaxSeqClock ELSE MaxClock

Tick ==
    /\ clock < LastTick
    /\ clock' = clock + 1
    /\ UNCHANGED <<provider, stream, inbox, intents, index, lease, apply, pass,
                   baseline, owed, faults, resolving, sub>>

-----------------------------------------------------------------------------
(* The poller: Service::pollOnce.  What is stored is stored once; a        *)
(* message whose acknowledgement fails is delivered again.                 *)

Stored(m) == \E i \in Ids : inbox[i].op = m

(* Mutant of pollOnce: a message delivered again is stored again.          *)
pollOnceTwice(m) ==
    /\ m \in queue
    /\ inbox' = Append(inbox, [op |-> m, state |-> "pending", origin |-> "unknown",
                               attempts |-> 0, due |-> TRUE])
    /\ \/ queue' = queue \ {m} /\ UNCHANGED faults
       \/ Fault /\ UNCHANGED queue
    /\ UNCHANGED <<provider, clock, dead, broken, intents, index, lease, apply,
                   pass, baseline, owed, resolving, sub>>

pollOnce(m) ==
    /\ m \in queue
    /\ inbox' = IF Stored(m) THEN inbox
                ELSE Append(inbox, [op |-> m, state |-> "pending", origin |-> "unknown",
                                    attempts |-> 0, due |-> TRUE])
    /\ \/ queue' = queue \ {m} /\ UNCHANGED faults
       \/ Fault /\ UNCHANGED queue
    /\ UNCHANGED <<provider, clock, dead, broken, intents, index, lease, apply,
                   pass, baseline, owed, resolving, sub>>

(* checkDeadLetters marks the gap, checkContinuity acts on it.  Times are   *)
(* compared with >=, so a gap seen in the last tick of the bound would     *)
(* stay for ever: it is seen before.                                       *)
checkDeadLetters ==
    /\ dead /\ clock < LastTick
    /\ dead' = FALSE
    /\ broken' = clock
    /\ UNCHANGED <<provider, clock, queue, inbox, intents, index, lease, apply,
                   pass, baseline, owed, faults, resolving, sub>>

continuityLost == broken # 0 /\ broken >= baseline.at

checkContinuity ==
    /\ ~baseline.held /\ continuityLost
    /\ baseline' = [baseline EXCEPT !.held = TRUE]
    /\ UNCHANGED <<provider, clock, stream, inbox, intents, index, lease, apply,
                   pass, owed, faults, resolving, sub>>

-----------------------------------------------------------------------------
(* The applier: Applier::applyVault and Applier::schedule.                 *)

Become(pc, rows, latest) == apply' = [pc |-> pc, rows |-> rows, latest |-> latest]
Ready == Become("release", {}, None)

(* The subscription, then the lease, then the rows.  The subscription may  *)
(* have changed by the time the lease is free.                             *)
claimForVault ==
    /\ apply.pc = "idle"
    /\ ~baseline.held \/ "staleRead" \in Admit
    /\ Due("pending") \cup Due("applied") # {}
    /\ lease = "free"
    /\ lease' = "applier"
    /\ sub' \in IF "staleRead" \in Admit THEN 0..baseline.at ELSE {baseline.at}
    /\ LET rows == Due("pending")
           latest == Newest(rows)
       IN IF rows = {} THEN Ready
          ELSE Become(IF Kind(latest) = "Removed" THEN "confirm" ELSE "settle",
                      rows, latest)
    /\ UNCHANGED <<provider, clock, stream, inbox, intents, index, pass, baseline,
                   owed, faults, resolving>>

(* Before it takes the lease: the rows of a vault without an engine are    *)
(* dropped, those of a protected bucket wait.                              *)
skipInactive ==
    /\ "inactive" \in Admit
    /\ apply.pc = "idle" /\ ~baseline.held /\ Due("pending") # {}
    /\ inbox' = Skipped(inbox, Due("pending"), "unknown")
    /\ UNCHANGED <<provider, clock, stream, intents, index, lease, apply, pass, baseline,
                   owed, faults, resolving, sub>>

delayProtected ==
    /\ "protected" \in Admit /\ Fault
    /\ apply.pc = "idle" /\ ~baseline.held /\ Due("pending") # {}
    /\ inbox' = Delayed(inbox, Due("pending"))
    /\ UNCHANGED <<provider, clock, stream, intents, index, lease, apply, pass, baseline,
                   owed, resolving, sub>>

(* settleOwnWrite: one transaction takes the intent and ends the row.      *)
settleOwnWrite(i) ==
    /\ Matching(intents, i) # {}
    /\ intents' = Without(intents, Oldest(Matching(intents, i)))
    /\ inbox' = Skipped(inbox, {i}, "self")

(* A removal the vault issued itself; the rest of the batch goes with it.  *)
OwnRemoval ==
    /\ apply.pc = "confirm"
    /\ settleOwnWrite(apply.latest)
    /\ Become("release", apply.rows \ {apply.latest}, None)
    /\ UNCHANGED <<provider, clock, stream, index, lease, pass, baseline, owed,
                   faults, resolving, sub>>

(* The older events of the batch, one transaction each, in the order they  *)
(* were read: each may still take an intent of ours.                       *)
Older == apply.rows \ {apply.latest}

Supersede ==
    /\ apply.pc \in {"settle", "release"} /\ Older # {}
    /\ LET i == First(Older)
       IN /\ \/ settleOwnWrite(i)
             \/ /\ Matching(intents, i) = {}
                /\ inbox' = Skipped(inbox, {i}, "external")
                /\ UNCHANGED intents
          /\ apply' = [apply EXCEPT !.rows = @ \ {i}]
    /\ UNCHANGED <<provider, clock, stream, index, lease, pass, baseline, owed,
                   faults, resolving, sub>>

(* Any other removal is believed when a HEAD says the object is gone.      *)
Unclaimed == apply.pc = "confirm" /\ Matching(intents, apply.latest) = {}

HeadFails ==
    /\ Unclaimed
    /\ Fault
    /\ inbox' = Delayed(inbox, {apply.latest})
    /\ Ready
    /\ UNCHANGED <<provider, clock, stream, intents, index, lease, pass, baseline,
                   owed, resolving, sub>>

(* Mutant of HeadGone: a removal is believed without the HEAD.             *)
HeadGoneTrusted ==
    /\ Unclaimed
    /\ Become("settle", apply.rows, apply.latest)
    /\ UNCHANGED <<provider, clock, stream, inbox, intents, index, lease, pass,
                   baseline, owed, faults, resolving, sub>>

HeadGone ==
    /\ Unclaimed
    /\ Object = None
    /\ Become("settle", apply.rows, apply.latest)
    /\ UNCHANGED <<provider, clock, stream, inbox, intents, index, lease, pass,
                   baseline, owed, faults, resolving, sub>>

HeadFinds ==
    /\ Unclaimed
    /\ Object # None
    /\ LET creates == {i \in apply.rows : Kind(i) = "Created"}
       IN IF creates # {}
          THEN /\ Become("settle", apply.rows \ {apply.latest}, Newest(creates))
               /\ inbox' = Skipped(inbox, {apply.latest}, "external")
               /\ UNCHANGED <<index, owed>>
          ELSE /\ Ready
               /\ inbox' = Skipped(inbox, apply.rows, "external")
               /\ IF Indexed /\ index.etag = Object THEN UNCHANGED <<index, owed>>
                  ELSE index' = Row(Object, index.seq, Object) /\ owed' = TRUE
    /\ UNCHANGED <<provider, clock, stream, intents, lease, pass, baseline,
                   faults, resolving, sub>>

(* Why the newest event of the batch is dropped.                           *)
BeforeBaseline(i) == Time(i) + Skew < sub
AlreadyHandled(i) ==
    LET newest == latestForKey
    IN /\ newest # i
       /\ inbox[newest].state # "pending"
       /\ ~tied(i, newest)
       /\ ~newerOrEqual(i, newest)
IndexNewer(i) == sequenced /\ index.seq # None /\ inbox[i].op < index.seq
(* Mutant of Stale: the key's history in the inbox is not consulted.       *)
StaleForgetful(i) == BeforeBaseline(i) \/ IndexNewer(i)

Stale(i) == BeforeBaseline(i) \/ AlreadyHandled(i) \/ IndexNewer(i)

Sequencer(i) == IF sequenced THEN inbox[i].op ELSE index.seq

(* The newest event, when the rest of the batch is settled: dropped,       *)
(* recognised as our own write, or written to the index.                   *)
Drop(i, origin) ==
    /\ inbox' = Skipped(inbox, {i}, origin)
    /\ Ready
    /\ UNCHANGED <<intents, index, owed>>
Write(i, r) ==
    /\ index' = r
    /\ owed' = TRUE
    /\ Become("mark", {}, i)
    /\ UNCHANGED <<inbox, intents>>

Settle ==
    /\ apply.pc = "settle" /\ Older = {}
    /\ LET i == apply.latest
           n == inbox[i].op
           own == Matching(intents, i) # {}
       IN \/ Stale(i) /\ Drop(i, "unknown")
          \/ ~Stale(i) /\ Kind(i) = "Removed" /\ Write(i, NoRow)
          \/ /\ ~Stale(i) /\ Kind(i) = "Created" /\ own
             /\ settleOwnWrite(i)
             /\ index' = IF Indexed THEN Row(n, Sequencer(i), index.desc) ELSE index
             /\ Ready /\ UNCHANGED owed
          \/ /\ ~Stale(i) /\ Kind(i) = "Created" /\ ~own
             /\ \/ index.etag = n /\ Drop(i, "external")
                \/ index.etag # n /\ Write(i, Row(n, Sequencer(i), None))
    /\ UNCHANGED <<provider, clock, stream, lease, pass, baseline, faults, resolving, sub>>

markApplied ==
    /\ apply.pc = "mark"
    /\ inbox' = [inbox EXCEPT ![apply.latest].state = "applied",
                              ![apply.latest].origin = "external"]
    /\ Ready
    /\ UNCHANGED <<provider, clock, stream, intents, index, lease, pass, baseline,
                   owed, faults, resolving, sub>>

releasePass ==
    /\ apply.pc = "release" /\ Older = {}
    /\ lease' = "free" /\ sub' = 0
    /\ Become("schedule", {}, None)
    /\ UNCHANGED <<provider, clock, stream, inbox, intents, index, pass, baseline,
                   owed, faults, resolving>>

(* A scoped pass over the applied rows, unless the vault is busy.          *)
schedule ==
    /\ apply.pc = "schedule"
    /\ Become("idle", {}, None)
    /\ LET rows == Due("applied")
       IN IF rows = {} \/ lease # "free" THEN UNCHANGED <<lease, pass>>
          ELSE /\ lease' = "scoped"
               /\ pass' = [pass EXCEPT !.pc = "scoped", !.rows = rows,
                                       !.kind = Kind(Newest(rows))]
    /\ UNCHANGED <<provider, clock, stream, inbox, intents, index, baseline, owed,
                   faults, resolving, sub>>

retryDue(i) ==
    /\ i \in Ids /\ ~inbox[i].due
    /\ inbox' = [inbox EXCEPT ![i].due = TRUE]
    /\ UNCHANGED <<provider, clock, stream, intents, index, lease, apply, pass,
                   baseline, owed, faults, resolving, sub>>

-----------------------------------------------------------------------------
(* The scoped pass and its on_finish.                                      *)

PassOff == pass' = NoPass

(* An object the provider no longer has cannot be downloaded.              *)
Reachable == (pass.kind = "Created" /\ Indexed) => Object # None

(* Mutant of scopedFinish: a pass that failed is not counted.              *)
scopedFinishUncounted(ok) ==
    /\ pass.pc = "scoped"
    /\ IF Reachable /\ ~ok THEN Fault ELSE ok = Reachable /\ UNCHANGED faults
    /\ inbox' = IF ok THEN InState(inbox, pass.rows, "done") ELSE inbox
    /\ owed' = (owed /\ ~ok)
    /\ lease' = "free"
    /\ PassOff
    /\ UNCHANGED <<provider, clock, stream, intents, index, apply, baseline, resolving, sub>>

scopedFinish(ok) ==
    /\ pass.pc = "scoped"
    /\ IF Reachable /\ ~ok THEN Fault ELSE ok = Reachable /\ UNCHANGED faults
    /\ LET attempts == {inbox[i].attempts : i \in pass.rows}
           worn == \E a \in attempts : a + 1 >= MaxPassAttempts
       IN inbox' = IF ok THEN InState(inbox, pass.rows, "done")
                   ELSE IF worn THEN InState(inbox, pass.rows, "failed")
                   ELSE Delayed(inbox, pass.rows)
    /\ owed' = (owed /\ ~ok)
    /\ lease' = "free"
    /\ PassOff
    /\ UNCHANGED <<provider, clock, stream, intents, index, apply, baseline, resolving, sub>>

(* The regular pass that lists the bucket: what the listing saw becomes    *)
(* the index, and the baseline of the subscription.                        *)
beginListing ==
    /\ lease = "free"
    /\ baseline.held
    /\ lease' = "regular"
    /\ pass' = [pass EXCEPT !.pc = "listing", !.at = clock]
    /\ UNCHANGED <<provider, clock, stream, inbox, intents, index, apply, baseline,
                   owed, faults, resolving, sub>>

ListObjects ==
    /\ pass.pc = "listing"
    /\ pass' = [pass EXCEPT !.pc = "listed", !.seen = Object]
    /\ UNCHANGED <<provider, clock, stream, inbox, intents, index, lease, apply,
                   baseline, owed, faults, resolving, sub>>

(* Mutant of onBaselineListed: the baseline is dated at the end of the     *)
(* listing instead of its start.                                           *)
onBaselineListedLate ==
    /\ pass.pc = "listed"
    /\ index' = IF pass.seen = None THEN NoRow ELSE Row(pass.seen, None, None)
    /\ baseline' = [held |-> FALSE, at |-> clock]
    /\ owed' = FALSE
    /\ lease' = "free"
    /\ PassOff
    /\ UNCHANGED <<provider, clock, stream, inbox, intents, apply, faults, resolving, sub>>

onBaselineListed ==
    /\ pass.pc = "listed"
    /\ index' = IF pass.seen = None THEN NoRow ELSE Row(pass.seen, None, None)
    /\ baseline' = [held |-> FALSE, at |-> pass.at]
    /\ owed' = FALSE
    /\ lease' = "free"
    /\ PassOff
    /\ UNCHANGED <<provider, clock, stream, inbox, intents, apply, faults, resolving, sub>>

-----------------------------------------------------------------------------
(* A pass that writes the object itself: CloudEngine::noteOwnWrite, the    *)
(* request, OwnWrite::done, and the index mutation at the end of the pass. *)

Note(by, kind) ==
    \/ intents' = Noted(by, kind) /\ UNCHANGED faults
    \/ "intentFails" \in Admit /\ Fault /\ UNCHANGED intents

noteOwnWrite(kind) ==
    /\ lease = "free" /\ ~baseline.held
    /\ Room
    /\ kind = "Removed" => "ownDelete" \in Admit /\ Object # None
    /\ lease' = "regular"
    /\ pass' = [pass EXCEPT !.pc = "noted", !.kind = kind]
    /\ Note("pass", kind)
    /\ UNCHANGED <<provider, clock, stream, inbox, index, apply, baseline, owed,
                   resolving, sub>>

Request ==
    /\ pass.pc = "noted"
    /\ Operate(pass.kind, TRUE)
    /\ pass' = [pass EXCEPT !.pc = "sent", !.seen = Len(ops) + 1]
    /\ UNCHANGED <<clock, inbox, intents, index, lease, apply, baseline, owed, faults,
                   resolving, sub>>

(* The intent goes with the write that failed, or stays until it expires;  *)
(* past the bounds all fail.  A request that took effect although it       *)
(* failed is an operation of nobody we know of: an External one.           *)
Failed(by) ==
    \/ /\ IF Room THEN Fault ELSE UNCHANGED faults
       /\ intents' = Forgotten(by)
    \/ /\ "intentFails" \in Admit /\ Fault
       /\ intents' = Completed(by, None)

RequestFails ==
    /\ pass.pc = "noted"
    /\ Failed("pass")
    /\ lease' = "free"
    /\ PassOff
    /\ UNCHANGED <<provider, clock, stream, inbox, index, apply, baseline, owed,
                   resolving, sub>>

(* done() completes the intent, if it can, from the request's outcome.     *)
done(by, seen) ==
    \/ intents' = Completed(by, seen) /\ UNCHANGED faults
    \/ "intentFails" \in Admit /\ Fault /\ intents' = Completed(by, None)

(* applyRemoteIndexMutation runs when every operation of the pass          *)
(* succeeded.                                                              *)
applyRemoteIndexMutation ==
    /\ pass.pc = "sent"
    /\ done("pass", IF pass.kind = "Created" THEN pass.seen ELSE None)
    /\ \E ok \in IF "opFails" \in Admit THEN BOOLEAN ELSE {TRUE} :
         /\ index' = IF ~ok THEN index
                     ELSE IF pass.kind = "Removed" THEN NoRow
                     ELSE Row(None, index.seq, pass.seen)
         /\ owed' = (owed /\ ~ok)
    /\ lease' = "free"
    /\ PassOff
    /\ UNCHANGED <<provider, clock, stream, inbox, apply, baseline, resolving, sub>>

expireIntent(k) ==
    /\ "intentExpires" \in Admit /\ Fault
    /\ k \in DOMAIN intents /\ intents[k].by = "nobody"
    /\ intents' = Without(intents, k)
    /\ UNCHANGED <<provider, clock, stream, inbox, index, lease, apply, pass, baseline,
                   owed, resolving, sub>>

(* A conflict is resolved for the local copy: ConflictResolver uploads and *)
(* writes the index row itself, without the lease.                         *)
Resolving(pc, seen) == resolving' = [pc |-> pc, seen |-> seen]

noteResolution ==
    /\ "unleased" \in Admit /\ resolving.pc = "off"
    /\ Object # None /\ Room
    /\ Resolving("noted", None)
    /\ Note("resolution", "Created")
    /\ UNCHANGED <<provider, clock, stream, inbox, index, lease, apply, pass, baseline,
                   owed, sub>>

ResolutionRequest ==
    /\ resolving.pc = "noted"
    /\ Operate("Created", TRUE)
    /\ Resolving("sent", Len(ops) + 1)
    /\ UNCHANGED <<clock, inbox, intents, index, lease, apply, pass, baseline, owed,
                   faults, sub>>

ResolutionFails ==
    /\ resolving.pc = "noted"
    /\ Failed("resolution")
    /\ Resolving("off", None)
    /\ UNCHANGED <<provider, clock, stream, inbox, index, lease, apply, pass, baseline,
                   owed, sub>>

ResolutionDone ==
    /\ resolving.pc = "sent"
    /\ done("resolution", resolving.seen)
    /\ Resolving("done", resolving.seen)
    /\ UNCHANGED <<provider, clock, stream, inbox, index, lease, apply, pass, baseline,
                   owed, sub>>

ResolutionIndexed ==
    /\ resolving.pc = "done"
    /\ index' = Row(None, index.seq, resolving.seen)
    /\ Resolving("off", None)
    /\ UNCHANGED <<provider, clock, stream, inbox, intents, lease, apply, pass, baseline,
                   owed, faults, sub>>

(* A restart: leases, the applier, the pass and the resolution are gone,   *)
(* the tables stay.                                                        *)
Crash ==
    /\ \/ "crashInWrite" \in Admit
       \/ pass.pc \notin {"noted", "sent"} /\ resolving.pc = "off"
    /\ Fault
    /\ lease' = "free" /\ sub' = 0
    /\ apply' = [pc |-> "idle", rows |-> {}, latest |-> None]
    /\ PassOff
    /\ Resolving("off", None)
    /\ intents' = [k \in DOMAIN intents |-> [intents[k] EXCEPT !.by = "nobody"]]
    /\ UNCHANGED <<provider, clock, stream, inbox, index, baseline, owed>>

-----------------------------------------------------------------------------
ApplierStep ==
    \/ skipInactive \/ delayProtected
    \/ claimForVault \/ OwnRemoval \/ Supersede \/ HeadFails \/ HeadGone \/ HeadFinds
    \/ Settle \/ markApplied \/ releasePass \/ schedule

PassStep ==
    \/ \E ok \in BOOLEAN : scopedFinish(ok)
    \/ beginListing \/ ListObjects \/ onBaselineListed
    \/ Request \/ RequestFails \/ applyRemoteIndexMutation

ResolutionStep ==
    \/ noteResolution \/ ResolutionRequest \/ ResolutionFails
    \/ ResolutionDone \/ ResolutionIndexed

Next ==
    \/ \E kind \in Kinds : External(kind) \/ noteOwnWrite(kind)
    \/ \E m \in Ops : Lose(m) \/ pollOnce(m)
    \/ \E i \in Ops : retryDue(i) \/ expireIntent(i)
    \/ Tick \/ checkDeadLetters \/ checkContinuity
    \/ ApplierStep \/ PassStep \/ ResolutionStep \/ Crash

Spec == Init /\ [][Next]_vars

(* The applier's loop and the passes go on, time passes, retries come due. *)
FairSpec ==
    /\ Spec
    /\ WF_vars(ApplierStep) /\ WF_vars(PassStep) /\ WF_vars(Tick)
    /\ \A i \in Ops : WF_vars(retryDue(i))

-----------------------------------------------------------------------------
States == {"pending", "applied", "done", "skipped", "failed"}
OpType == [kind : Kinds, ms : 1..MaxClock, own : BOOLEAN]
EventType == [op : DOMAIN ops, state : States, origin : {"unknown", "external", "self"},
              attempts : Nat, due : BOOLEAN]
IntentType == [op : Kinds, etag : 0..Len(ops), at : 1..MaxClock,
               by : {"pass", "resolution", "nobody"}]
ResolvingType == [pc : {"off", "noted", "sent", "done"}, seen : 0..Len(ops)]
ApplyType == [pc : {"idle", "confirm", "settle", "mark", "release", "schedule"},
              rows : SUBSET Ids, latest : Ids \cup {None}]
PassType == [pc : {"off", "scoped", "listing", "listed", "noted", "sent"},
             rows : SUBSET Ids, kind : Kinds, at : 0..MaxClock, seen : 0..Len(ops)]

(* Every variable has its type, the lease is held by the one who works,    *)
(* and every operation of the provider is stored at most once.             *)
TypeOK ==
    /\ sequenced \in BOOLEAN
    /\ ops \in Seq(OpType) /\ Len(ops) <= MaxOps /\ clock \in 1..MaxClock
    /\ queue \subseteq DOMAIN ops /\ dead \in BOOLEAN /\ broken \in 0..MaxClock
    /\ inbox \in Seq(EventType)
    /\ \A i, j \in Ids : i # j => inbox[i].op # inbox[j].op
    /\ intents \in Seq(IntentType)
    /\ index \in [etag : 0..Len(ops), seq : 0..Len(ops), desc : 0..Len(ops)]
    /\ lease \in {"free", "applier", "scoped", "regular"}
    /\ lease = "applier" <=> apply.pc \in {"confirm", "settle", "mark", "release"}
    /\ lease = "scoped" <=> pass.pc = "scoped"
    /\ lease = "regular" <=> pass.pc \in {"listing", "listed", "noted", "sent"}
    /\ apply \in ApplyType /\ pass \in PassType /\ resolving \in ResolvingType
    /\ baseline \in [held : BOOLEAN, at : 0..MaxClock]
    /\ sub \in 0..MaxClock /\ owed \in BOOLEAN /\ faults \in 0..MaxFaults

(* What the applier, the pass and the resolution have in hand is as they   *)
(* read it: the rows of a batch are pending and those of a scoped pass     *)
(* applied, so that no two of them ever work on one row; a write in        *)
(* progress under the lease has its intent, still open, and no intent is   *)
(* kept by a write that is over; and an index row names an operation of    *)
(* the provider, which is not the object's when a removal was confirmed,   *)
(* as long as everybody who writes the index holds the lease (applyVault,  *)
(* schedule, noteOwnWrite).                                                *)
RowsInHand ==
    /\ \A i \in apply.rows : inbox[i].state = "pending"
    /\ \A i \in pass.rows : inbox[i].state = "applied"
    /\ apply.pc \in {"confirm", "settle"} => apply.latest \in apply.rows
    /\ apply.pc = "confirm" => Kind(apply.latest) = "Removed"
    /\ apply.pc = "mark" => apply.latest \in Ids /\ inbox[apply.latest].state = "pending"
    /\ apply.pc \notin {"confirm", "settle", "mark"} => apply.latest = None
    /\ apply.pc \notin {"confirm", "settle", "release"} => apply.rows = {}
    /\ pass.pc # "scoped" => pass.rows = {}
WritesNoted ==
    /\ pass.pc \in {"noted", "sent"} => Held("pass") # {} \/ "intentFails" \in Admit
    /\ \A k \in Held("pass") :
          /\ pass.pc \in {"noted", "sent"}
          /\ intents[k].op = pass.kind /\ intents[k].etag = None
    /\ \A k \in Held("resolution") :
          /\ resolving.pc \in {"noted", "sent"}
          /\ intents[k].op = "Created" /\ intents[k].etag = None
    /\ \A by \in {"pass", "resolution"} : \A k, l \in Held(by) : k = l
    /\ pass.pc = "sent" =>
          pass.seen # None /\ ops[pass.seen].own /\ ops[pass.seen].kind = pass.kind
    /\ resolving.pc \in {"sent", "done"} =>
          resolving.seen # None /\ ops[resolving.seen].own
    /\ resolving.pc # "off" => "unleased" \in Admit
IndexKnown ==
    /\ Indexed => IndexedObject # None
    /\ (apply.pc = "settle" /\ Kind(apply.latest) = "Removed" /\ Indexed) =>
          IndexedObject # Object \/ "unleased" \in Admit
InboxInv == RowsInHand /\ WritesNoted /\ IndexKnown

(* Nothing is on its way and nothing is left to do.                        *)
Quiet ==
    /\ queue = {} /\ ~dead
    /\ \A i \in Ids : inbox[i].state \notin {"pending", "applied"}
    /\ lease = "free" /\ apply.pc = "idle" /\ resolving.pc = "off"
    /\ ~baseline.held /\ ~continuityLost

Mirrors ==
    /\ IndexedObject = Object
    /\ index.desc \in {None, Object}

OwnDeleted == \E n \in DOMAIN ops : ops[n].own /\ ops[n].kind = "Removed"

(* Every create intent belongs to an operation of ours, or to the write in *)
(* progress, unless one may be left open (noteOwnWrite, done, ~OwnWrite);  *)
(* there is a delete intent only when we have deleted, or are about to.    *)
IntentsOwn ==
    \A k \in DOMAIN intents :
        intents[k].op = "Created" =>
            (intents[k].etag # None /\ ops[intents[k].etag].own) \/ intents[k].by # "nobody"
DeletesOwn ==
    \A k \in DOMAIN intents :
        intents[k].op = "Removed" =>
            OwnDeleted \/ (intents[k].by = "pass" /\ pass.pc = "noted")

(* The last operation, and whether the index cannot know it yet: its event *)
(* has still to be stored or settled, or was lost at time t or later.      *)
Latest == Len(ops)
Unhandled(n) ==
    \/ n \in queue /\ ~Stored(n)
    \/ \E i \in Ids : inbox[i].op = n /\ inbox[i].state = "pending"
Lost(n) == n \in DOMAIN ops \ queue /\ ~Stored(n)
Ahead(t) == Unhandled(Latest) \/ (Lost(Latest) /\ ops[Latest].ms >= t)
OwnCreate == Latest # 0 /\ ops[Latest].own /\ ops[Latest].kind = "Created"
Writing == pass.pc = "sent" /\ pass.seen = Latest

(* Times follow the order of the operations, and a lost event leaves a gap *)
(* that was not seen yet or is dated after its operation.                  *)
TimeInv ==
    /\ \A m, n \in DOMAIN ops : m < n =>
          ops[m].ms <= ops[n].ms /\ (sequenced \/ ops[m].ms < ops[n].ms)
    /\ \A n \in DOMAIN ops : ops[n].ms <= clock
    /\ baseline.at <= clock /\ pass.at <= clock
    /\ \A n \in DOMAIN ops : Lost(n) =>
          "lost" \in Admit /\ (dead \/ broken >= ops[n].ms)

(* What the applier knows of the subscription is not out of date.          *)
SubRead == lease = "applier" => sub = baseline.at

(* What the applier knows of the last operation.                           *)
ApplierInv ==
    /\ \A i \in Older : inbox[i].op # Latest
    /\ (apply.pc = "settle" /\ Kind(apply.latest) = "Removed") => ~OwnCreate
    /\ (apply.pc = "mark" /\ inbox[apply.latest].op = Latest) => Mirrors

(* What a listing and a write in progress know of it.                      *)
PassInv ==
    /\ (pass.pc = "listed" /\ pass.seen # Object) =>
          Latest # 0 /\ Ahead(pass.at) /\ ~ops[Latest].own /\ ops[Latest].ms >= pass.at
    /\ pass.pc = "sent" => ops[pass.seen].ms >= baseline.at
    /\ (pass.pc = "sent" /\ pass.seen # Latest) =>
          Ahead(baseline.at) /\ ~ops[Latest].own

(* The index row.  An ETag of somebody else's write comes with no          *)
(* description of another object; our last write has a row; a listing that *)
(* began after the last operation settles the matter; and otherwise the    *)
(* row agrees with the object unless the last operation is ahead of it.    *)
EtagDescribed ==
    (index.etag # None /\ ~ops[index.etag].own) => index.desc \in {None, index.etag}
OwnIndexed ==
    ~baseline.held /\ OwnCreate /\ ~Writing => Indexed /\ index.desc \in {None, Latest}
ListingSettles ==
    ~baseline.held /\ Latest # 0 /\ ops[Latest].ms + Skew < baseline.at => Mirrors
Follows ==
    ~baseline.held => \/ Mirrors \/ Ahead(baseline.at) \/ Writing
                      \/ Object = None /\ OwnDeleted
RowInv == EtagDescribed /\ OwnIndexed /\ ListingSettles /\ Follows

(* The index follows the bucket, whatever is on its way (applyVault,       *)
(* pollOnce, initBins, noteOwnWrite).                                      *)
AgreeInv ==
    /\ IntentsOwn /\ DeletesOwn /\ TimeInv /\ SubRead
    /\ ApplierInv /\ PassInv /\ RowInv

(* Once every event has arrived and is settled, in whatever order and      *)
(* however often it was delivered, the index row names the object the      *)
(* provider holds and describes no other, unless the object is gone and we *)
(* have deleted the key ourselves (applyVault, schedule, pollOnce).        *)
QuietAgrees == Quiet /\ ~(Object = None /\ OwnDeleted) => Mirrors

(* The same without the exception.  It fails: OwnRemoval settles the event *)
(* of our own delete and leaves the row a late create brought back         *)
(* (Applier.cpp:242), and the intent of our own delete may claim a later   *)
(* delete of somebody else, which is then not applied (Applier.cpp:210).   *)
QuietMirrors == Quiet => Mirrors

(* Once everything is settled, a pass has looked at the key after the last *)
(* change events made to its index row (Applier::schedule).  It fails: a   *)
(* HEAD that finds an object settles its rows without one                  *)
(* (Applier.cpp:226).                                                      *)
QuietReconciled == Quiet => ~owed

(* An event takes off the index only an object the provider no longer has: *)
(* a late, repeated or reordered removal deletes nothing that exists       *)
(* (headRemoteObjectStrict in applyVault, under the lease).                *)
RemovalIsReal ==
    [][lease = "applier" /\ Indexed /\ index' = NoRow => IndexedObject # Object]_vars

ClaimedForeign(i) ==
    /\ inbox'[i].origin = "self" /\ inbox[i].origin # "self"
    /\ Kind(i) = "Created" /\ ~ops[inbox[i].op].own
LeftOpen ==
    \E k \in Held("nobody") : intents[k].op = "Created" /\ intents[k].etag = None

(* A create settled as our own write is one of ours: an intent claims      *)
(* another writer's object of the same size only while the upload of a     *)
(* conflict resolution, which holds no lease, has it open, or when it was  *)
(* left open by a restart or a failed completion or removal                *)
(* (settleOwnWrite, OwnWrite::done, ConflictResolver.cpp:244).             *)
OwnClaimsExact ==
    [][\A i \in Ids : ClaimedForeign(i) =>
            resolving.pc \in {"noted", "sent"} \/ LeftOpen]_vars

(* Every stored event is settled in the end: applied and reconciled,       *)
(* dropped, or given up on, through failed HEADs, failed passes, gaps and  *)
(* restarts (applyVault, schedule, on_finish).                             *)
RowsSettle ==
    \A i \in Ops :
        (i \in Ids) ~> (i \in Ids /\ inbox[i].state \in {"done", "skipped", "failed"})
=============================================================================
