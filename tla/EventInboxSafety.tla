------------------------- MODULE EventInboxSafety -------------------------
(***************************************************************************)
(* Which events of EventInbox are claimed as our own, and that the index   *)
(* follows the bucket: AgreeInv is inductive beside TypeOK and InboxInv,   *)
(* for every number of operations, ticks and faults.                       *)
(***************************************************************************)
EXTENDS EventInboxTypes

\* Zenon is the prover of a leaf that names none.
USE ZenonT(120)

-----------------------------------------------------------------------------
(* Which events are ours. *)

\* Operations are only added.
LEMMA OpsKept ==
    ASSUME Base, [Next]_vars
    PROVE  DOMAIN ops \subseteq DOMAIN ops' /\ \A n \in DOMAIN ops : ops'[n] = ops[n]
<1>1. OpsTyped /\ WorkTyped
  BY BaseParts
<1>2. Len(ops) \in Nat /\ DOMAIN ops = 1..Len(ops)
  BY <1>1, OpsFacts
<1>3. CASE ops' = ops
  BY <1>3
<1>4. CASE \E kind \in Kinds, own \in BOOLEAN : Operate(kind, own) /\ clock' = clock
  <2>1. PICK kind \in Kinds, own \in BOOLEAN : Operate(kind, own) /\ clock' = clock
    BY <1>4
  <2>2. DOMAIN ops' = 1..Len(ops) + 1 /\ \A n \in 1..Len(ops) : ops'[n] = ops[n]
    BY <1>1, <2>1, OpsGrow
  <2> QED BY <1>2, <2>2, SMTT(60)
<1>5. CASE Request
  BY <1>1, <1>4, <1>5 DEF Request, WorkTyped, PassType
<1>6. CASE ResolutionRequest
  BY <1>4, <1>6 DEF ResolutionRequest, Kinds
<1>7. CASE \E kind \in Kinds : External(kind)
  BY <1>4, <1>7 DEF External
<1>8. CASE \/ \E kind \in Kinds : noteOwnWrite(kind)
           \/ \E m \in Ops : Lose(m) \/ pollOnce(m) \/ retryDue(m) \/ expireIntent(m)
           \/ Tick \/ checkDeadLetters \/ checkContinuity \/ ApplierStep \/ Crash
           \/ \E ok \in BOOLEAN : scopedFinish(ok)
           \/ beginListing \/ ListObjects \/ onBaselineListed
           \/ RequestFails \/ applyRemoteIndexMutation
           \/ noteResolution \/ ResolutionFails \/ ResolutionDone \/ ResolutionIndexed
           \/ UNCHANGED vars
  BY <1>3, <1>8 DEF noteOwnWrite, Lose, pollOnce, retryDue, expireIntent, Tick,
      checkDeadLetters,
     checkContinuity, ApplierStep, skipInactive, delayProtected, claimForVault, OwnRemoval,
     Supersede, HeadFails, HeadGone, HeadFinds, Settle, markApplied, releasePass, schedule, Crash,
     scopedFinish, beginListing, ListObjects, onBaselineListed, RequestFails,
     applyRemoteIndexMutation, noteResolution, ResolutionFails, ResolutionDone,
     ResolutionIndexed, vars, provider
<1> QED BY <1>5, <1>6, <1>7, <1>8 DEF Next, PassStep, ResolutionStep

\* Where the intents of the next state come from: they stay, they are noted for
\* a write that begins, or the write that kept them lets go of them.
Stays(j) == \E l \in DOMAIN intents : intents'[j] = intents[l]
Begins(j) ==
    /\ intents'[j].etag = None /\ intents'[j].by # "nobody"
    /\ intents'[j].op = "Removed" => intents'[j].by = "pass" /\ pass'.pc = "noted"
Ends(j, l) ==
    /\ ops' = ops /\ intents[l].by # "nobody" /\ intents'[j].by = "nobody"
    /\ intents'[j].op = intents[l].op
    /\ \/ Admit \cap {"crashInWrite", "intentFails"} # {} /\ intents'[j].etag = None
       \/ /\ intents[l].by = "pass" => pass.pc = "sent"
          /\ intents'[j].op = "Created" => intents'[j].etag # None /\ ops[intents'[j].etag].own
Accounted(j) == Stays(j) \/ Begins(j) \/ \E l \in DOMAIN intents : Ends(j, l)

\* The applier takes an intent, or it expires.
LEMMA TakenStays ==
    ASSUME IntentsTyped, MayTake PROVE \A j \in DOMAIN intents' : Stays(j)
<1>1. CASE intents' = intents
  BY <1>1 DEF Stays
<1>2. CASE \E k \in DOMAIN intents : intents' = Without(intents, k)
  <2>1. PICK k \in DOMAIN intents : intents' = Without(intents, k)
    BY <1>2
  <2>2. intents \in Seq(IntentType)
    BY DEF IntentsTyped
  <2>3. /\ DOMAIN intents' = 1..Len(intents) - 1
        /\ \A j \in 1..Len(intents) - 1 : intents'[j] = intents[IF j < k THEN j ELSE j + 1]
    BY <2>1, <2>2, WithoutIs
  <2>4. \A j \in 1..Len(intents) - 1 : (IF j < k THEN j ELSE j + 1) \in DOMAIN intents
    BY <2>1, IntentsFacts, SMTT(60)
  <2> QED BY <2>3, <2>4 DEF Stays
<1> QED BY <1>1, <1>2 DEF MayTake

\* A write that begins.
LEMMA NoteBegins ==
    ASSUME OpsTyped, IntentsTyped, ops' = ops, NEW by \in {"pass", "resolution"},
           NEW kind \in Kinds, Note(by, kind),
           kind = "Removed" => by = "pass" /\ pass'.pc = "noted"
    PROVE  \A j \in DOMAIN intents' : Stays(j) \/ Begins(j)
<1>1. CASE intents' = intents
  BY <1>1 DEF Stays
<1>2. CASE intents' = Noted(by, kind)
  <2>1. /\ DOMAIN intents' = DOMAIN intents \cup {Len(intents) + 1}
        /\ \A k \in DOMAIN intents : intents'[k] = intents[k]
        /\ intents'[Len(intents) + 1] = [op |-> kind, etag |-> None, at |-> clock, by |-> by]
    BY <1>2, NotedIs
  <2> DEFINE n == Len(intents) + 1
  <2>2. intents'[n].op = kind /\ intents'[n].etag = None /\ intents'[n].by = by
    BY <2>1, SMTT(60)
  <2>3. Begins(n)
    BY <2>2 DEF Begins
  <2> QED BY <2>1, <2>3 DEF Stays
<1> QED BY <1>1, <1>2 DEF Note

\* A write that ends, with the ETag it leaves.
LEMMA CompletedEnds ==
    ASSUME IntentsTyped, ops' = ops, NEW by \in {"pass", "resolution"}, NEW e \in 0..Len(ops),
           intents' = Completed(by, e),
           \/ Admit \cap {"crashInWrite", "intentFails"} # {} /\ e = None
           \/ /\ by = "pass" => pass.pc = "sent"
              /\ (\E k \in Held(by) : intents[k].op = "Created") => e # None /\ ops[e].own
    PROVE  \A j \in DOMAIN intents' : Accounted(j)
<1>1. /\ DOMAIN intents' = DOMAIN intents
      /\ \A k \in DOMAIN intents :
            /\ intents'[k].op = intents[k].op
            /\ k \in Held(by) => intents'[k].etag = e /\ intents'[k].by = "nobody"
            /\ k \notin Held(by) => intents'[k] = intents[k]
  BY CompletedIs
<1>2. ASSUME NEW j \in DOMAIN intents, j \in Held(by) PROVE Ends(j, j)
  <2>1. intents[j].by = by /\ intents'[j].etag = e /\ intents'[j].by = "nobody"
    BY <1>1, <1>2 DEF Held
  <2> QED BY <1>1, <1>2, <2>1 DEF Ends
<1> QED BY <1>1, <1>2 DEF Accounted, Stays

\* What the applier does to the rows of a batch.
LEMMA SettlesRow ==
    ASSUME Base, OwnRemoval \/ Supersede \/ Settle
    PROVE  /\ ops' = ops /\ lease = "applier" /\ pass.pc = "off"
           /\ \/ \E i \in Ids : settleOwnWrite(i)
              \/ /\ intents' = intents
                 /\ \/ \E i \in Ids : \E o \in {"unknown", "external"} :
                             inbox' = Skipped(inbox, {i}, o)
                    \/ inbox' = inbox
<1>1. OpsTyped /\ InboxTyped /\ WorkTyped /\ RowsInHand
  BY BaseParts
<1>2. /\ apply.pc \in {"confirm", "settle", "release"} /\ ops' = ops
      /\ (apply.pc = "settle" \/ OwnRemoval) => apply.latest \in Ids
  BY <1>1 DEF OwnRemoval, Supersede, Settle, provider, WorkTyped, ApplyType, RowsInHand
<1>3. lease = "applier" /\ pass.pc = "off"
  BY <1>2, ApplierAlone
<1>4. CASE OwnRemoval
  BY <1>2, <1>3, <1>4 DEF OwnRemoval
<1>5. CASE Supersede
  <2>1. Older \in SUBSET Ids /\ Older # {}
    BY <1>1, <1>5 DEF Supersede, Older, WorkTyped, ApplyType
  <2>2. First(Older) \in Ids
    BY <1>1, <2>1, FirstIs
  <2> QED BY <1>2, <1>3, <1>5, <2>2 DEF Supersede
<1>6. CASE Settle
  BY <1>2, <1>3, <1>6 DEF Settle, Drop, Write
<1> QED BY <1>4, <1>5, <1>6

\* How a row that an action does not claim as ours changes.
Unclaiming(i) ==
    /\ i \in Ids' /\ inbox'[i].op = inbox[i].op
    /\ inbox'[i].origin \in {inbox[i].origin, "external", "unknown"}

\* Rows keep their operations, in every step, and only the applier claims one
\* as our own.
LEMMA RowsStep ==
    ASSUME Base, [Next]_vars
    PROVE  \A i \in Ids :
              \/ Unclaiming(i)
              \/ /\ i \in Ids' /\ inbox'[i].op = inbox[i].op
                 /\ settleOwnWrite(i) /\ lease = "applier" /\ pass.pc = "off"
<1>1. OpsTyped /\ InboxTyped /\ IntentsTyped /\ WorkTyped /\ RowsInHand
  BY BaseParts
<1>2. inbox' = inbox => \A i \in Ids : Unclaiming(i)
  BY DEF Ids, Unclaiming
<1>3. ASSUME ops' = ops, inbox' \in [Ids -> EventType],
             \A i \in Ids : /\ inbox'[i].op = inbox[i].op
                            /\ inbox'[i].origin \in {inbox[i].origin, "external", "unknown"}
      PROVE  \A i \in Ids : Unclaiming(i)
  <2>1. Ids' = Ids
    BY <1>1, <1>3, Rewritten
  <2> QED BY <1>3, <2>1 DEF Unclaiming
<1>4. CASE \E m \in Ops : pollOnce(m)
  <2>1. PICK m \in queue : pollOnce(m)
    BY <1>4 DEF pollOnce
  <2>2. \A i \in Ids : i \in Ids' /\ inbox'[i] = inbox[i]
    BY <1>1, <2>1, PollIs
  <2> QED BY <2>2 DEF Unclaiming
<1>5. CASE \E i \in Ops : retryDue(i)
  <2>1. PICK i \in Ops : retryDue(i)
    BY <1>5
  <2>2. i \in Ids /\ inbox' = [inbox EXCEPT ![i].due = TRUE]
    BY <2>1 DEF retryDue
  <2> QED BY <1>1, <2>2, InboxFacts DEF EventType, Ids, Unclaiming
<1>6. CASE OwnRemoval \/ Supersede \/ Settle
  <2>1. /\ ops' = ops /\ lease = "applier" /\ pass.pc = "off"
        /\ \/ \E i \in Ids : settleOwnWrite(i)
           \/ \E i \in Ids : \E o \in {"unknown", "external"} : inbox' = Skipped(inbox, {i}, o)
           \/ inbox' = inbox
    BY <1>6, SettlesRow
  <2>2. ASSUME NEW i \in Ids, settleOwnWrite(i), NEW j \in Ids
        PROVE  \/ Unclaiming(j)
               \/ j \in Ids' /\ inbox'[j].op = inbox[j].op /\ settleOwnWrite(j)
    <3>1. /\ inbox' \in [Ids -> EventType]
          /\ \A l \in Ids : /\ inbox'[l].op = inbox[l].op
                            /\ inbox'[l].origin = IF l = i THEN "self" ELSE inbox[l].origin
      BY <1>1, <2>2, OwnWriteIs
    <3>2. Ids' = Ids
      BY <1>1, <2>1, <3>1, Rewritten
    <3> QED BY <2>2, <3>1, <3>2 DEF Unclaiming
  <2>3. CASE \E i \in Ids : settleOwnWrite(i)
    BY <2>1, <2>2, <2>3
  <2>4. CASE \E i \in Ids : \E o \in {"unknown", "external"} : inbox' = Skipped(inbox, {i}, o)
    <3>1. /\ inbox' \in [Ids -> EventType]
          /\ \A i \in Ids : /\ inbox'[i].op = inbox[i].op
                            /\ inbox'[i].origin \in {inbox[i].origin, "external", "unknown"}
      BY <1>1, <2>4, SkippedIs, SMTT(60)
    <3> QED BY <1>3, <2>1, <3>1
  <2> QED BY <1>2, <2>1, <2>3, <2>4
<1>7. CASE \/ HeadFails \/ HeadFinds \/ skipInactive \/ delayProtected
           \/ \E ok \in BOOLEAN : scopedFinish(ok)
  <2>1. /\ ops' = ops
        /\ \/ \E ids : inbox' = Delayed(inbox, ids)
           \/ \E ids : \E o \in {"unknown", "external"} : inbox' = Skipped(inbox, ids, o)
           \/ \E ids : \E st \in States : inbox' = InState(inbox, ids, st)
    BY <1>7 DEF HeadFails, HeadFinds, skipInactive, delayProtected, scopedFinish, provider,
        States
  <2>2. /\ inbox' \in [Ids -> EventType]
        /\ \A i \in Ids : /\ inbox'[i].op = inbox[i].op
                          /\ inbox'[i].origin \in {inbox[i].origin, "external", "unknown"}
    BY <1>1, <2>1, DelayedIs, SkippedIs, InStateIs, SMTT(60)
  <2> QED BY <1>3, <2>1, <2>2
<1>8. CASE markApplied
  <2>1. /\ apply.latest \in Ids
        /\ inbox' = [inbox EXCEPT ![apply.latest].state = "applied",
                                  ![apply.latest].origin = "external"]
    BY <1>1, <1>8 DEF markApplied, RowsInHand
  <2> QED BY <1>1, <2>1, InboxFacts DEF EventType, Ids, Unclaiming
<1>9. CASE \/ \E kind \in Kinds : External(kind) \/ noteOwnWrite(kind)
           \/ \E m \in Ops : Lose(m) \/ expireIntent(m)
           \/ Tick \/ checkDeadLetters \/ checkContinuity \/ Crash \/ UNCHANGED vars
           \/ claimForVault \/ HeadGone \/ releasePass \/ schedule
           \/ beginListing \/ ListObjects \/ onBaselineListed
           \/ Request \/ RequestFails \/ applyRemoteIndexMutation \/ ResolutionStep
  <2>1. inbox' = inbox
    BY <1>9 DEF External, noteOwnWrite, Lose, expireIntent, Tick, checkDeadLetters,
                checkContinuity, Crash, vars, claimForVault, HeadGone, releasePass, schedule,
                beginListing, ListObjects, onBaselineListed, Request, RequestFails,
                applyRemoteIndexMutation, ResolutionStep, noteResolution, ResolutionRequest,
                ResolutionFails, ResolutionDone, ResolutionIndexed
  <2> QED BY <1>2, <2>1
<1> QED BY <1>4, <1>5, <1>6, <1>7, <1>8, <1>9 DEF Next, ApplierStep, PassStep

\* Every intent is accounted for, in every step.
LEMMA IntentsAccounted ==
    ASSUME Base, [Next]_vars PROVE \A j \in DOMAIN intents' : Accounted(j)
<1>1. OpsTyped /\ InboxTyped /\ IntentsTyped /\ WorkTyped /\ RowsInHand /\ WritesNoted
  BY BaseParts
<1>2. Len(ops) \in Nat /\ None \in 0..Len(ops)
  BY <1>1, OpsFacts, SMTT(60) DEF None
<1>3. MayTake => \A j \in DOMAIN intents' : Accounted(j)
  BY <1>1, TakenStays DEF Accounted
<1>4. CASE \/ \E kind \in Kinds : External(kind)
           \/ \E m \in Ops : Lose(m) \/ pollOnce(m) \/ retryDue(m) \/ expireIntent(m)
           \/ Tick \/ checkDeadLetters \/ checkContinuity \/ UNCHANGED vars
           \/ skipInactive \/ delayProtected \/ claimForVault \/ HeadFails \/ HeadGone
           \/ HeadFinds \/ markApplied \/ releasePass \/ schedule
           \/ \E ok \in BOOLEAN : scopedFinish(ok)
           \/ beginListing \/ ListObjects \/ onBaselineListed \/ Request
           \/ ResolutionRequest \/ ResolutionIndexed
  <2>1. MayTake
    BY <1>4 DEF MayTake, External, Lose, pollOnce, retryDue, expireIntent, Tick,
        checkDeadLetters,
       checkContinuity, vars, skipInactive, delayProtected, claimForVault, HeadFails, HeadGone,
       HeadFinds, markApplied, releasePass, schedule, scopedFinish, beginListing, ListObjects,
       onBaselineListed, Request, ResolutionRequest, ResolutionIndexed
  <2> QED BY <1>3, <2>1
<1>5. CASE OwnRemoval \/ Supersede \/ Settle
  <2>1. \/ \E i \in Ids : settleOwnWrite(i)
        \/ intents' = intents
    BY <1>5, SettlesRow
  <2>2. MayTake
    BY <1>1, <2>1, OwnWriteIs DEF MayTake
  <2> QED BY <1>3, <2>2
<1>6. CASE \E kind \in Kinds : noteOwnWrite(kind)
  <2>1. PICK kind \in Kinds : noteOwnWrite(kind)
    BY <1>6
  <2>2. ops' = ops /\ Note("pass", kind) /\ pass'.pc = "noted"
    BY <1>1, <2>1 DEF noteOwnWrite, provider, WorkTyped, PassType
  <2>3. \A j \in DOMAIN intents' : Stays(j) \/ Begins(j)
    BY <1>1, <2>2, NoteBegins
  <2> QED BY <2>3 DEF Accounted
<1>7. CASE noteResolution
  <2>1. ops' = ops /\ Note("resolution", "Created") /\ "Created" \in Kinds
    BY <1>7 DEF noteResolution, provider, Kinds
  <2>2. \A j \in DOMAIN intents' : Stays(j) \/ Begins(j)
    BY <1>1, <2>1, NoteBegins
  <2> QED BY <2>2 DEF Accounted
<1>8. CASE RequestFails \/ ResolutionFails
  <2>1. PICK by \in {"pass", "resolution"} : ops' = ops /\ Failed(by)
    BY <1>8 DEF RequestFails, ResolutionFails, provider
  <2>2. CASE intents' = Forgotten(by)
    <3>1. PICK m \in [DOMAIN intents' -> DOMAIN intents] :
            \A j \in DOMAIN intents' : intents'[j] = intents[m[j]]
      BY <1>1, <2>1, <2>2, ForgottenIs
    <3> QED BY <3>1 DEF Accounted, Stays
  <2>3. CASE "intentFails" \in Admit /\ intents' = Completed(by, None)
    BY <1>1, <1>2, <2>1, <2>3, CompletedEnds
  <2> QED BY <2>1, <2>2, <2>3 DEF Failed
<1>9. CASE applyRemoteIndexMutation
  <2> DEFINE e == IF pass.kind = "Created" THEN pass.seen ELSE None
  <2>1. ops' = ops /\ pass.pc = "sent" /\ done("pass", e)
    BY <1>9 DEF applyRemoteIndexMutation, provider
  <2>2. pass.seen \in 0..Len(ops) /\ pass.seen # None /\ ops[pass.seen].own
    BY <1>1, <2>1 DEF WorkTyped, PassType, WritesNoted
  <2>3. \A k \in Held("pass") : intents[k].op = pass.kind
    BY <1>1 DEF WritesNoted
  <2>4. /\ e \in 0..Len(ops)
        /\ (\E k \in Held("pass") : intents[k].op = "Created") => e # None /\ ops[e].own
    BY <1>2, <2>2, <2>3
  <2> HIDE DEF e
  <2>5. CASE intents' = Completed("pass", e)
    BY <1>1, <2>1, <2>4, <2>5, CompletedEnds
  <2>6. CASE "intentFails" \in Admit /\ intents' = Completed("pass", None)
    BY <1>1, <1>2, <2>1, <2>6, CompletedEnds
  <2> QED BY <2>1, <2>5, <2>6 DEF done
<1>10. CASE ResolutionDone
  <2>1. ops' = ops /\ resolving.pc = "sent" /\ done("resolution", resolving.seen)
    BY <1>10 DEF ResolutionDone, provider
  <2>2. resolving.seen \in 0..Len(ops) /\ resolving.seen # None /\ ops[resolving.seen].own
    BY <1>1, <2>1 DEF WorkTyped, ResolvingType, WritesNoted
  <2>3. CASE intents' = Completed("resolution", resolving.seen)
    BY <1>1, <2>1, <2>2, <2>3, CompletedEnds
  <2>4. CASE "intentFails" \in Admit /\ intents' = Completed("resolution", None)
    BY <1>1, <1>2, <2>1, <2>4, CompletedEnds
  <2> QED BY <2>1, <2>3, <2>4 DEF done
<1>11. CASE Crash
  <2>1. /\ ops' = ops
        /\ \/ "crashInWrite" \in Admit
           \/ pass.pc \notin {"noted", "sent"} /\ resolving.pc = "off"
        /\ intents' = [k \in DOMAIN intents |-> [intents[k] EXCEPT !.by = "nobody"]]
    BY <1>11 DEF Crash, provider
  <2>2. DOMAIN intents' = DOMAIN intents
    BY <2>1
  <2>3. ASSUME NEW j \in DOMAIN intents PROVE Accounted(j)
    <3>1. intents[j] \in IntentType /\ intents'[j] = [intents[j] EXCEPT !.by = "nobody"]
      BY <1>1, <2>1, IntentsFacts
    <3>2. CASE intents[j].by = "nobody"
      <4>1. intents'[j] = intents[j]
        BY <3>1, <3>2 DEF IntentType
      <4> QED BY <4>1 DEF Accounted, Stays
    <3>3. CASE intents[j].by # "nobody"
      <4>1. intents[j].by \in {"pass", "resolution"} /\ j \in Held(intents[j].by)
        BY <3>1, <3>3 DEF IntentType, Held
      <4>2. intents[j].etag = None /\ (pass.pc \in {"noted", "sent"} \/ resolving.pc # "off")
        BY <1>1, <4>1 DEF WritesNoted
      <4>3. /\ intents'[j].by = "nobody" /\ intents'[j].op = intents[j].op
            /\ intents'[j].etag = None
        BY <3>1, <4>2 DEF IntentType
      <4>4. Ends(j, j)
        BY <2>1, <3>3, <4>2, <4>3 DEF Ends
      <4> QED BY <4>4 DEF Accounted
    <3> QED BY <3>2, <3>3
  <2> QED BY <2>2, <2>3
<1> QED BY <1>4, <1>5, <1>6, <1>7, <1>8, <1>9, <1>10, <1>11
        DEF Next, ApplierStep, PassStep, ResolutionStep

\* A complete intent carries the ETag of one of our operations.
EtagsOwn ==
    \A k \in DOMAIN intents :
        intents[k].op = "Created" /\ intents[k].etag # None => ops[intents[k].etag].own

\* EtagsOwn is inductive.
LEMMA EtagsStep ==
    ASSUME Base, [Next]_vars, EtagsOwn PROVE EtagsOwn'
<1>1. OpsTyped /\ IntentsTyped
  BY BaseParts
<1>2. DOMAIN ops = 1..Len(ops) /\ Len(ops) \in Nat /\ \A n \in DOMAIN ops : ops'[n] = ops[n]
  BY <1>1, OpsFacts, OpsKept
<1> SUFFICES ASSUME NEW j \in DOMAIN intents', intents'[j].op = "Created",
                    intents'[j].etag # None
             PROVE  ops'[intents'[j].etag].own
  BY DEF EtagsOwn
<1>4. Accounted(j)
  BY IntentsAccounted
<1>5. CASE Stays(j)
  <2>1. PICK l \in DOMAIN intents : intents'[j] = intents[l]
    BY <1>5 DEF Stays
  <2>2. intents[l].etag \in 0..Len(ops)
    BY <1>1, IntentsFacts DEF IntentType
  <2>3. intents[l].etag \in DOMAIN ops
    BY <1>2, <2>1, <2>2, SMTT(60) DEF None
  <2> QED BY <1>2, <2>1, <2>3 DEF EtagsOwn
<1>6. CASE \E l \in DOMAIN intents : Ends(j, l)
  BY <1>6 DEF Ends
<1> QED BY <1>4, <1>5, <1>6 DEF Accounted, Begins

\* A create that is claimed although it is not ours meets an open intent: that
\* of a resolution, or one nobody keeps.
LEMMA ClaimStep ==
    ASSUME Base, EtagsOwn, [Next]_vars, NEW i \in Ids, ClaimedForeign(i)
    PROVE  resolving.pc \in {"noted", "sent"} \/ LeftOpen
<1>1. InboxTyped /\ IntentsTyped /\ WritesNoted
  BY BaseParts
<1>2. settleOwnWrite(i) /\ pass.pc = "off"
  <2>1. ~Unclaiming(i)
    BY DEF Unclaiming, ClaimedForeign
  <2> QED BY <2>1, RowsStep
<1>3. PICK k \in DOMAIN intents : Matches(intents[k], i)
  BY <1>1, <1>2, OwnWriteIs
<1>4. intents[k].op = "Created" /\ intents[k].etag = None
  BY <1>3 DEF Matches, ClaimedForeign, EtagsOwn
<1>5. intents[k].by \in {"pass", "resolution", "nobody"}
  BY <1>1, IntentsFacts DEF IntentType
<1>6. CASE intents[k].by = "nobody"
  BY <1>4, <1>6 DEF LeftOpen, Held
<1>7. CASE intents[k].by = "resolution"
  BY <1>1, <1>7 DEF WritesNoted, Held
<1>8. CASE intents[k].by = "pass"
  BY <1>1, <1>2, <1>8 DEF WritesNoted, Held
<1> QED BY <1>5, <1>6, <1>7, <1>8

\* Initially there are no intents.
LEMMA OwnInit == ASSUME Init PROVE EtagsOwn /\ IntentsOwn /\ DeletesOwn
<1>1. DOMAIN intents = {}
  BY SMTT(60) DEF Init
<1> QED BY <1>1 DEF EtagsOwn, IntentsOwn, DeletesOwn

\* An intent claims the create of another writer only while a resolution, which
\* holds no lease, has it open, or when it was left open (settleOwnWrite, done,
\* ConflictResolver.cpp:244): a complete intent carries the ETag of one of our
\* operations, and that of a pass is open only while the pass has the lease.
\* Holds for every event of the model.
THEOREM ClaimsExact == Spec => OwnClaimsExact
<1> DEFINE I == Base /\ EtagsOwn
<1>1. Init => I
  BY BaseInit, OwnInit
<1>2. I /\ [Next]_vars => I'
  BY BaseStep, EtagsStep
<1>3. I /\ [Next]_vars =>
        [\A i \in Ids : ClaimedForeign(i) => resolving.pc \in {"noted", "sent"} \/ LeftOpen]_vars
  BY ClaimStep
<1> QED BY <1>1, <1>2, <1>3, PTL DEF Spec, OwnClaimsExact

\* No restart cuts a write short, and no intent fails to be stored or removed.
NoneLeftOpen == Admit \cap {"crashInWrite", "intentFails"} = {}

\* IntentsOwn is inductive.
LEMMA OwnStep ==
    ASSUME Base, [Next]_vars, NoneLeftOpen, EtagsOwn, IntentsOwn
    PROVE  IntentsOwn'
<1>1. EtagsOwn'
  BY EtagsStep
<1> SUFFICES ASSUME NEW j \in DOMAIN intents', intents'[j].op = "Created",
                    intents'[j].by = "nobody"
             PROVE  intents'[j].etag # None
  BY <1>1 DEF IntentsOwn, EtagsOwn
<1>2. Accounted(j)
  BY IntentsAccounted
<1> QED BY <1>2 DEF Accounted, Stays, Begins, Ends, IntentsOwn, NoneLeftOpen

\* Another writer's create is claimed as ours by nobody.
NoneClaimed == [][\A i \in Ids : ~ClaimedForeign(i)]_vars

\* Unless a restart cuts a write short, an intent cannot be stored or removed,
\* or a conflict is resolved, no event of another writer's create is settled as
\* a write of ours (noteOwnWrite, settleOwnWrite, done).
THEOREM NoForeignClaim ==
    NoneLeftOpen /\ "unleased" \notin Admit => (Spec => NoneClaimed)
<1> SUFFICES ASSUME NoneLeftOpen, "unleased" \notin Admit PROVE Spec => NoneClaimed
  OBVIOUS
<1> DEFINE I == Base /\ EtagsOwn /\ IntentsOwn
<1>1. Init => I
  BY BaseInit, OwnInit
<1>2. I /\ [Next]_vars => I'
  BY BaseStep, EtagsStep, OwnStep
<1>3. I => ~LeftOpen /\ resolving.pc = "off"
  <2>1. IntentsOwn => ~LeftOpen
    BY DEF IntentsOwn, LeftOpen, Held
  <2>2. Base => resolving.pc = "off"
    BY NoResolving
  <2> QED BY <2>1, <2>2
<1>4. I /\ [Next]_vars => [\A i \in Ids : ~ClaimedForeign(i)]_vars
  BY <1>3, ClaimStep
<1> QED BY <1>1, <1>2, <1>4, PTL DEF Spec, NoneClaimed

-----------------------------------------------------------------------------
(* The index follows the bucket. *)

\* No operation of a pass fails on its own, no restart cuts a write short, every
\* intent is stored and removed, nobody writes without the lease, the
\* subscription does not change while the applier waits for it, no engine is
\* missing, no two operations tie, and events are not both lost and skewed.
Orderly ==
    /\ Admit \cap {"opFails", "crashInWrite", "intentFails", "unleased", "staleRead",
                   "inactive", "tie"} = {}
    /\ "lost" \in Admit => Skew = 0

\* The orders of the code are that of the operations.
LEMMA OrderIs ==
    ASSUME OpsTyped, InboxTyped, TimeInv, NEW a \in Ids, NEW b \in Ids
    PROVE  /\ newerOrEqual(a, b) <=> inbox[a].op >= inbox[b].op
           /\ Before(a, b) <=> inbox[a].op <= inbox[b].op
           /\ tied(a, b) => a = b
<1>1. /\ inbox[a].op \in 1..Len(ops) /\ inbox[b].op \in 1..Len(ops) /\ Len(ops) \in Nat
      /\ a \in Nat /\ b \in Nat /\ Time(a) \in Nat /\ Time(b) \in Nat /\ DOMAIN ops = 1..Len(ops)
  BY RowNumbers, OpsFacts, InboxFacts, Bounds, SMTT(60)
<1>2. a # b => inbox[a].op # inbox[b].op
  BY DEF InboxTyped
<1>3. CASE sequenced
  BY <1>1, <1>3 DEF newerOrEqual, Before, tied
<1>4. CASE ~sequenced
  <2>1. /\ inbox[a].op < inbox[b].op => Time(a) < Time(b)
        /\ inbox[b].op < inbox[a].op => Time(b) < Time(a)
    BY <1>1, <1>4 DEF TimeInv, Time
  <2>2. CASE a = b
    BY <1>1, <1>4, <2>2, SMTT(60) DEF newerOrEqual, Before, tied
  <2>3. CASE a # b
    BY <1>1, <1>2, <1>4, <2>1, <2>3, SMTT(60) DEF newerOrEqual, Before, tied
  <2> QED BY <2>2, <2>3
<1> QED BY <1>3, <1>4

\* A later operation is not the earlier one, in time either.
LEMMA TimeOrder ==
    ASSUME OpsTyped, TimeInv, NEW m \in 1..Len(ops), NEW n \in 1..Len(ops), m <= n
    PROVE  ops[m].ms <= ops[n].ms
<1>1. DOMAIN ops = 1..Len(ops) /\ ops[m].ms \in Nat /\ Len(ops) \in Nat
  BY OpsFacts, Bounds, SMTT(60) DEF OpType
<1>2. CASE m = n
  BY <1>1, <1>2, SMTT(60)
<1>3. CASE m < n
  BY <1>1, <1>3 DEF TimeInv
<1> QED BY <1>1, <1>2, <1>3, SMTT(60)

\* What is stored stays stored.
LEMMA StoredKept ==
    ASSUME Base, [Next]_vars
    PROVE  \A n : Stored(n) => Stored(n)'
<1>1. \A i \in Ids : i \in Ids' /\ inbox'[i].op = inbox[i].op
  BY RowsStep DEF Unclaiming
<1>2. ASSUME NEW n, Stored(n) PROVE \E i \in Ids' : inbox'[i].op = n
  BY <1>1, <1>2 DEF Stored
<1> QED BY <1>2 DEF Stored

-----------------------------------------------------------------------------
(* Times. *)

\* Initially nothing has a time.
LEMMA TimeInit == ASSUME Init PROVE TimeInv
<1>1. DOMAIN ops = {}
  BY SMTT(60) DEF Init
<1> QED BY <1>1, SMTT(60) DEF Init, TimeInv, NoPass

\* Nothing TimeInv is about changes, but the rows.
LEMMA TimeKept ==
    ASSUME Base, [Next]_vars, TimeInv, UNCHANGED <<sequenced, ops, clock, queue, dead, broken>>,
           baseline'.at <= clock, pass'.at <= clock
    PROVE  TimeInv'
<1>1. \A n : Stored(n) => Stored(n)'
  BY StoredKept
<1>2. \A n \in DOMAIN ops : Lost(n)' => Lost(n)
  BY <1>1 DEF Lost
<1> QED BY <1>2 DEF TimeInv

\* An operation is dated after those before it.
LEMMA TimeGrown ==
    ASSUME Base, [Next]_vars, Orderly, TimeInv, NEW kind \in Kinds, NEW own \in BOOLEAN,
           Operate(kind, own), UNCHANGED <<clock, baseline>>, pass'.at = pass.at
    PROVE  TimeInv'
<1>1. OpsTyped
  BY BaseParts
<1>2. /\ Len(ops) \in Nat /\ DOMAIN ops = 1..Len(ops) /\ clock \in Nat
      /\ \A n \in 1..Len(ops) : ops[n].ms \in Nat
  BY <1>1, OpsFacts, Bounds, SMTT(60) DEF OpsTyped, OpType
<1>3. /\ DOMAIN ops' = 1..Len(ops) + 1
      /\ \A n \in 1..Len(ops) : ops'[n] = ops[n]
      /\ ops'[Len(ops) + 1].ms = clock
  <2>1. ops'[Len(ops) + 1] = [kind |-> kind, ms |-> clock, own |-> own]
    BY <1>1, OpsGrow
  <2>2. ops'[Len(ops) + 1].ms = clock
    BY <2>1, SMTT(60)
  <2> QED BY <1>1, <2>2, OpsGrow
<1>4. /\ queue' = queue \cup {Len(ops) + 1} /\ UNCHANGED <<sequenced, dead, broken>>
      /\ sequenced \/ \A n \in DOMAIN ops : ops[n].ms # clock
  BY DEF Operate, Room, Orderly
<1>5. \A n : Stored(n) => Stored(n)'
  BY StoredKept
<1>6. ASSUME NEW m \in DOMAIN ops', NEW n \in DOMAIN ops', m < n
      PROVE  ops'[m].ms <= ops'[n].ms /\ (sequenced' \/ ops'[m].ms < ops'[n].ms)
  <2>1. m \in 1..Len(ops) /\ ops'[m] = ops[m]
    BY <1>2, <1>3, <1>6, SMTT(60)
  <2>2. CASE n = Len(ops) + 1
    <3>1. ops[m].ms <= clock /\ ops'[n].ms = clock
      BY <1>2, <1>3, <2>1, <2>2 DEF TimeInv
    <3> QED BY <1>2, <1>4, <2>1, <3>1, SMTT(60)
  <2>3. CASE n # Len(ops) + 1
    BY <1>2, <1>3, <1>4, <1>6, <2>1, <2>3, SMTT(60) DEF TimeInv
  <2> QED BY <2>2, <2>3
<1>7. \A n \in DOMAIN ops' : ops'[n].ms <= clock'
  BY <1>2, <1>3, SMTT(60) DEF TimeInv
<1>8. ASSUME NEW n \in DOMAIN ops', Lost(n)'
      PROVE  "lost" \in Admit /\ (dead' \/ broken' >= ops'[n].ms)
  <2>1. n # Len(ops) + 1
    BY <1>4, <1>8 DEF Lost
  <2>2. n \in DOMAIN ops /\ ops'[n] = ops[n]
    BY <1>2, <1>3, <2>1, SMTT(60)
  <2>3. Lost(n)
    BY <1>4, <1>5, <1>8, <2>2 DEF Lost
  <2> QED BY <1>4, <2>2, <2>3 DEF TimeInv
<1> QED BY <1>6, <1>7, <1>8 DEF TimeInv

\* TimeInv is inductive.
LEMMA TimeStep ==
    ASSUME Base, [Next]_vars, Orderly, TimeInv
    PROVE  TimeInv'
<1>1. OpsTyped /\ WorkTyped /\ RestTyped
  BY BaseParts
<1>2. /\ Len(ops) \in Nat /\ DOMAIN ops = 1..Len(ops) /\ clock \in Nat /\ clock \in 1..MaxClock
      /\ \A n \in 1..Len(ops) : ops[n].ms \in Nat
      /\ baseline.at \in Nat /\ pass.at \in Nat /\ broken \in Nat
      /\ baseline.at <= clock /\ pass.at <= clock
  BY <1>1, OpsFacts, Bounds, SMTT(60) DEF OpsTyped, OpType, WorkTyped, PassType, RestTyped,
      TimeInv
<1>3. \A n : Stored(n) => Stored(n)'
  BY StoredKept
<1>4. CASE \E kind \in Kinds : External(kind)
  BY <1>4, TimeGrown DEF External
<1>5. CASE Request
  <2>1. pass.kind \in Kinds /\ TRUE \in BOOLEAN /\ Operate(pass.kind, TRUE)
    BY <1>1, <1>5 DEF Request, WorkTyped, PassType
  <2>2. pass'.at = pass.at /\ UNCHANGED <<clock, baseline>>
    BY <1>1, <1>5 DEF Request, WorkTyped, PassType
  <2> QED BY <2>1, <2>2, TimeGrown
<1>6. CASE \E m \in Ops : Lose(m)
  <2>1. "lost" \in Admit /\ dead' = TRUE /\ UNCHANGED <<sequenced, ops, clock, baseline, pass>>
    BY <1>6 DEF Lose, provider
  <2> QED BY <2>1 DEF TimeInv
<1>7. CASE \E m \in Ops : pollOnce(m)
  <2>1. PICK m \in queue : pollOnce(m)
    BY <1>7 DEF pollOnce
  <2>2. /\ UNCHANGED <<sequenced, ops, clock, dead, broken, baseline, pass>>
        /\ queue \ {m} \subseteq queue'
    BY <2>1 DEF pollOnce, provider
  <2>3. Stored(m)'
    <3>1. InboxTyped
      BY BaseParts
    <3>2. CASE Stored(m)
      BY <1>3, <3>2
    <3>3. CASE ~Stored(m)
      <4>1. /\ Len(inbox) + 1 \in Ids'
            /\ inbox'[Len(inbox) + 1] = [op |-> m, state |-> "pending", origin |-> "unknown",
                                         attempts |-> 0, due |-> TRUE]
        BY <1>1, <2>1, <3>1, <3>3, PollIs
      <4>2. inbox'[Len(inbox) + 1].op = m
        BY <4>1, SMTT(60)
      <4> QED BY <4>1, <4>2 DEF Stored
    <3> QED BY <3>2, <3>3
  <2>4. ASSUME NEW n \in DOMAIN ops, Lost(n)' PROVE Lost(n)
    BY <1>3, <2>2, <2>3, <2>4 DEF Lost
  <2> QED BY <2>2, <2>4 DEF TimeInv
<1>8. CASE Tick
  <2>1. clock' = clock + 1 /\ UNCHANGED <<sequenced, ops, queue, inbox, dead, broken, baseline, pass>>
    BY <1>8 DEF Tick, provider, stream
  <2>2. \A n \in DOMAIN ops : Lost(n)' => Lost(n)
    BY <1>3, <2>1 DEF Lost
  <2>3. \A n \in DOMAIN ops : ops[n].ms <= clock + 1
    BY <1>2, SMTT(60) DEF TimeInv
  <2> QED BY <1>2, <2>1, <2>2, <2>3, SMTT(60) DEF TimeInv
<1>9. CASE checkDeadLetters
  <2>1. broken' = clock /\ UNCHANGED <<sequenced, ops, clock, queue, inbox, baseline, pass>>
    BY <1>9 DEF checkDeadLetters, provider
  <2>2. \A n \in DOMAIN ops : Lost(n)' => Lost(n)
    BY <1>3, <2>1 DEF Lost
  <2> QED BY <1>2, <2>1, <2>2 DEF TimeInv
<1>10. CASE checkContinuity
  <2>1. baseline'.at = baseline.at /\ UNCHANGED <<sequenced, ops, clock, queue, dead, broken, pass>>
    BY <1>1, <1>10 DEF checkContinuity, provider, stream, RestTyped
  <2> QED BY <1>2, <2>1, TimeKept
<1>11. CASE \/ \E kind \in Kinds : noteOwnWrite(kind)
            \/ \E i \in Ops : retryDue(i) \/ expireIntent(i)
            \/ ApplierStep \/ Crash \/ UNCHANGED vars
            \/ \E ok \in BOOLEAN : scopedFinish(ok)
            \/ beginListing \/ ListObjects \/ onBaselineListed
            \/ RequestFails \/ applyRemoteIndexMutation
  <2>1. UNCHANGED <<sequenced, ops, clock, queue, dead, broken>>
    BY <1>11 DEF noteOwnWrite, retryDue, expireIntent, ApplierStep, skipInactive,
                 delayProtected, claimForVault, OwnRemoval, Supersede, HeadFails, HeadGone,
                 HeadFinds, Settle, markApplied, releasePass,
                 schedule, Crash, vars, scopedFinish, beginListing, ListObjects,
                 onBaselineListed, RequestFails, applyRemoteIndexMutation, provider, stream
  <2>2. baseline' = baseline \/ onBaselineListed
    BY <1>11 DEF noteOwnWrite, retryDue, expireIntent, ApplierStep, skipInactive,
                 delayProtected, claimForVault, OwnRemoval, Supersede, HeadFails, HeadGone,
                 HeadFinds, Settle, markApplied, releasePass,
                 schedule, Crash, vars, scopedFinish, beginListing, ListObjects,
                 RequestFails, applyRemoteIndexMutation
  <2>3. baseline'.at <= clock
    BY <1>2, <2>2, SMTT(60) DEF onBaselineListed
  <2>4. pass \in PassType /\ NoPass.at = 0
    BY <1>1 DEF WorkTyped, NoPass
  <2>5. pass'.at \in {0, clock, pass.at}
    <3>1. CASE \E kind \in Kinds : noteOwnWrite(kind)
      BY <2>4, <3>1 DEF noteOwnWrite, PassType
    <3>2. CASE schedule
      BY <2>4, <3>2 DEF schedule, PassType
    <3>3. CASE beginListing \/ ListObjects
      BY <2>4, <3>3 DEF beginListing, ListObjects, PassType
    <3>4. CASE pass' = pass
      BY <3>4
    <3>5. CASE pass' = NoPass
      BY <2>4, <3>5
    <3>6. \/ \E kind \in Kinds : noteOwnWrite(kind)
          \/ schedule \/ beginListing \/ ListObjects
          \/ pass' \in {pass, NoPass}
      BY <1>11 DEF retryDue, expireIntent, ApplierStep, skipInactive, delayProtected,
                   claimForVault, OwnRemoval, Supersede, HeadFails, HeadGone, HeadFinds,
                   Settle, markApplied, releasePass,
                   Crash, vars, scopedFinish, onBaselineListed, RequestFails,
                   applyRemoteIndexMutation, PassOff
    <3> QED BY <3>1, <3>2, <3>3, <3>4, <3>5, <3>6
  <2>6. pass'.at <= clock
    BY <1>2, <2>5, SMTT(60)
  <2> QED BY <2>1, <2>3, <2>6, TimeKept
<1>12. ~ResolutionStep
  BY NoResolving DEF Orderly
<1> QED BY <1>4, <1>5, <1>6, <1>7, <1>8, <1>9, <1>10, <1>11, <1>12 DEF Next, PassStep

-----------------------------------------------------------------------------
(* Delete intents. *)

\* DeletesOwn is inductive.
LEMMA DeletesStep ==
    ASSUME Base, [Next]_vars, NoneLeftOpen, DeletesOwn
    PROVE  DeletesOwn'
<1>1. IntentsTyped /\ WritesNoted
  BY BaseParts
<1>2. /\ IntentsTyped' /\ WritesNoted' /\ pass' \in PassType' /\ Len(ops') \in Nat
      /\ DOMAIN ops' = 1..Len(ops')
  <2>1. Base'
    BY BaseStep
  <2>2. IntentsTyped' /\ WritesNoted' /\ WorkTyped' /\ OpsTyped'
    BY <2>1 DEF Base, InboxInv, TypeOK, IntentsTyped, WorkTyped, OpsTyped
  <2>3. ops' \in Seq(OpType)
    BY <2>2 DEF OpsTyped, OpType
  <2> QED BY <2>2, <2>3, LenIs DEF WorkTyped
<1>3. OwnDeleted => OwnDeleted'
  BY OpsKept DEF OwnDeleted
<1> SUFFICES ASSUME NEW j \in DOMAIN intents', intents'[j].op = "Removed", ~OwnDeleted'
             PROVE  intents'[j].by = "pass" /\ pass'.pc = "noted"
  BY DEF DeletesOwn
<1>4. Accounted(j)
  BY IntentsAccounted
<1>5. CASE Stays(j)
  <2>1. PICK l \in DOMAIN intents : intents'[j] = intents[l]
    BY <1>5 DEF Stays
  <2>2. intents'[j].by = "pass"
    BY <1>3, <2>1 DEF DeletesOwn
  <2>3. pass'.pc \in {"noted", "sent"} /\ pass'.kind = "Removed"
    BY <1>2, <2>2 DEF WritesNoted, Held
  <2>4. ASSUME pass'.pc = "sent" PROVE FALSE
    <3>1. /\ pass'.seen # None /\ ops'[pass'.seen].own /\ ops'[pass'.seen].kind = "Removed"
          /\ pass'.seen \in 0..Len(ops')
      BY <1>2, <2>3, <2>4 DEF WritesNoted, PassType
    <3>2. pass'.seen \in DOMAIN ops'
      BY <1>2, <3>1, SMTT(60) DEF None
    <3> QED BY <3>1, <3>2 DEF OwnDeleted
  <2> QED BY <2>2, <2>3, <2>4
<1>6. CASE \E l \in DOMAIN intents : Ends(j, l)
  <2>1. PICK l \in DOMAIN intents : Ends(j, l)
    BY <1>6
  <2>2. intents[l].by = "pass" /\ pass.pc = "noted" /\ intents[l].op = "Removed"
    BY <1>3, <2>1 DEF Ends, DeletesOwn
  <2> QED BY <2>1, <2>2 DEF Ends, NoneLeftOpen
<1> QED BY <1>4, <1>5, <1>6 DEF Accounted, Begins

-----------------------------------------------------------------------------
(* The subscription. *)

\* SubRead is inductive: the baseline is only dated under the lease.
LEMMA SubStep ==
    ASSUME Base, [Next]_vars, Orderly, SubRead PROVE SubRead'
<1>1. WorkTyped /\ RestTyped
  BY BaseParts
<1>2. CASE UNCHANGED <<lease, sub>> /\ baseline'.at = baseline.at
  BY <1>2 DEF SubRead
<1>3. CASE lease' # "applier"
  BY <1>3 DEF SubRead
<1>4. CASE claimForVault
  BY <1>4 DEF claimForVault, SubRead, Orderly
<1>5. CASE checkContinuity
  BY <1>1, <1>2, <1>5 DEF checkContinuity, RestTyped
<1>6. CASE \/ releasePass \/ onBaselineListed \/ RequestFails \/ applyRemoteIndexMutation
           \/ beginListing \/ Crash
           \/ \E kind \in Kinds : noteOwnWrite(kind)
           \/ \E ok \in BOOLEAN : scopedFinish(ok)
  BY <1>3, <1>6 DEF releasePass, onBaselineListed, RequestFails, applyRemoteIndexMutation,
     beginListing, Crash, noteOwnWrite, scopedFinish
<1>7. CASE schedule
  <2>1. UNCHANGED <<sub, baseline>> /\ (lease' = lease \/ lease' = "scoped")
    BY <1>7 DEF schedule
  <2> QED BY <1>2, <1>3, <2>1
<1>8. CASE \/ \E kind \in Kinds : External(kind)
           \/ \E m \in Ops : Lose(m) \/ pollOnce(m) \/ retryDue(m) \/ expireIntent(m)
           \/ Tick \/ checkDeadLetters \/ UNCHANGED vars
           \/ skipInactive \/ delayProtected \/ OwnRemoval \/ Supersede \/ HeadFails
           \/ HeadGone \/ HeadFinds \/ Settle \/ markApplied \/ ListObjects \/ Request
           \/ ResolutionStep
  BY <1>2, <1>8 DEF External, Lose, pollOnce, retryDue, expireIntent, Tick, checkDeadLetters,
     vars, skipInactive, delayProtected, OwnRemoval, Supersede, HeadFails, HeadGone, HeadFinds,
     Settle, markApplied, ListObjects, Request, ResolutionStep, noteResolution,
     ResolutionRequest, ResolutionFails, ResolutionDone, ResolutionIndexed
<1> QED BY <1>4, <1>5, <1>6, <1>7, <1>8 DEF Next, ApplierStep, PassStep

-----------------------------------------------------------------------------
(* The applier, the pass and the row, action by action. *)

Agree == ApplierInv /\ PassInv /\ RowInv

\* What only depends on the operations.
LEMMA SameOps ==
    ASSUME ops' = ops
    PROVE  UNCHANGED <<Object, Latest, OwnCreate, OwnDeleted>>
BY DEF Object, Latest, OwnCreate, OwnDeleted

\* What only depends on the operations and the index row.
LEMMA SameRow ==
    ASSUME UNCHANGED <<ops, index>>
    PROVE  UNCHANGED <<Object, Latest, OwnCreate, OwnDeleted, Indexed, IndexedObject, Mirrors>>
<1>1. UNCHANGED <<Object, Latest, OwnCreate, OwnDeleted>>
  BY SameOps
<1>2. UNCHANGED <<Indexed, IndexedObject>>
  BY DEF Indexed, IndexedObject
<1> QED BY <1>1, <1>2 DEF Mirrors

\* What is ahead of the index stays ahead while its row is left alone.
LEMMA AheadKept ==
    ASSUME UNCHANGED <<ops, queue>>, Ids' = Ids,
           \A i \in Ids : inbox'[i].op = inbox[i].op,
           \A i \in Ids : (inbox[i].op = Latest /\ inbox[i].state = "pending") =>
                              inbox'[i].state = "pending"
    PROVE  \A t : Ahead(t) => Ahead(t)'
<1>1. Latest' = Latest
  BY DEF Latest
<1>2. \A n : Stored(n)' <=> Stored(n)
  BY DEF Stored
<1>3. Unhandled(Latest) => Unhandled(Latest)'
  BY <1>1, <1>2 DEF Unhandled
<1>4. Lost(Latest) => Lost(Latest)'
  BY <1>1, <1>2 DEF Lost
<1> QED BY <1>1, <1>3, <1>4 DEF Ahead

\* The index row, when it is left alone and what was ahead of it still is.
LEMMA RowKept ==
    ASSUME RowInv, UNCHANGED <<ops, index>>, baseline'.held \/ baseline' = baseline,
           Ahead(baseline.at) => Ahead(baseline.at)', Writing => Writing'
    PROVE  RowInv'
<1>1. UNCHANGED <<Object, Latest, OwnCreate, OwnDeleted, Indexed, IndexedObject, Mirrors>>
  BY SameRow
<1>2. CASE baseline'.held
  BY <1>2 DEF RowInv, EtagDescribed, OwnIndexed, ListingSettles, Follows
<1>3. CASE baseline' = baseline
  <2>1. Ahead(baseline.at) => (Ahead(baseline.at))'
    BY <1>3
  <2> QED BY <1>1, <1>3, <2>1 DEF RowInv, EtagDescribed, OwnIndexed, ListingSettles, Follows
<1> QED BY <1>2, <1>3

\* An applier with nothing in hand knows nothing.
LEMMA ApplierEmpty ==
    ASSUME apply'.rows = {}, apply'.pc \notin {"settle", "mark"}
    PROVE  ApplierInv'
BY DEF ApplierInv, Older

\* What the applier knows, while it stands still.
LEMMA ApplierKept ==
    ASSUME Base, ApplierInv, UNCHANGED <<ops, index, apply>>,
           \A i \in Ids : inbox'[i].op = inbox[i].op
    PROVE  ApplierInv'
<1>1. WorkTyped /\ RowsInHand
  BY BaseParts
<1>2. /\ apply.rows \subseteq Ids /\ Older' = Older /\ Older \subseteq Ids
      /\ apply.pc \in {"settle", "mark"} => apply.latest \in Ids
  BY <1>1 DEF WorkTyped, ApplyType, RowsInHand, Older
<1>3. UNCHANGED <<Latest, OwnCreate, Mirrors>>
  BY SameRow
<1> QED BY <1>2, <1>3 DEF ApplierInv, Kind

\* A pass that neither lists nor writes knows nothing.
LEMMA PassQuiet ==
    ASSUME pass'.pc \notin {"listed", "sent"}
    PROVE  PassInv' /\ ~Writing'
BY DEF PassInv, Writing

\* What the pass knows, while it stands still.
LEMMA PassKept ==
    ASSUME PassInv, UNCHANGED <<ops, pass>>, baseline'.at = baseline.at,
           \A t : Ahead(t) => Ahead(t)'
    PROVE  PassInv'
<1>1. UNCHANGED <<Object, Latest>>
  BY SameOps
<1>2. /\ Ahead(pass.at) => (Ahead(pass.at))'
      /\ Ahead(baseline.at) => (Ahead(baseline.at))'
  BY DEF Ahead
<1> QED BY <1>1, <1>2 DEF PassInv

\* A step that leaves the rows, the row of the index and the work alone.
LEMMA AgreeStill ==
    ASSUME Base, Agree, UNCHANGED <<ops, index, apply, pass>>, baseline'.at = baseline.at,
           baseline'.held \/ baseline' = baseline,
           \A i \in Ids : inbox'[i].op = inbox[i].op,
           \A t : Ahead(t) => Ahead(t)'
    PROVE  Agree'
<1>1. ApplierInv'
  BY ApplierKept DEF Agree
<1>2. PassInv'
  BY PassKept DEF Agree
<1>3. Writing => Writing'
  BY DEF Writing, Latest
<1>4. Ahead(baseline.at) => Ahead(baseline.at)'
  OBVIOUS
<1>5. RowInv'
  BY <1>3, <1>4, RowKept DEF Agree
<1> QED BY <1>1, <1>2, <1>5 DEF Agree

\* What every case starts from.
Known ==
    /\ Base /\ Orderly
    /\ IntentsOwn /\ DeletesOwn /\ TimeInv /\ SubRead /\ Agree

\* The last operation.
LEMMA LatestIs ==
    ASSUME OpsTyped
    PROVE  /\ Latest = Len(ops) /\ Latest \in Nat /\ DOMAIN ops = 1..Latest
           /\ Latest # 0 => /\ Latest \in 1..Len(ops) /\ Latest \in DOMAIN ops
                            /\ ops[Latest] \in OpType /\ ops[Latest].ms \in Nat
           /\ Object \in {None, Latest}
           /\ Object # None <=> (Latest # 0 /\ ops[Latest].kind = "Created")
<1>1. /\ Len(ops) \in Nat /\ DOMAIN ops = 1..Len(ops)
      /\ \A n \in 1..Len(ops) : ops[n] \in OpType
  BY OpsFacts
<1>2. Len(ops) # 0 => Len(ops) \in 1..Len(ops)
  BY <1>1, SMTT(60)
<1>3. Len(ops) # 0 => ops[Len(ops)] \in OpType /\ ops[Len(ops)].ms \in Nat
  BY <1>1, <1>2, Bounds, SMTT(60) DEF OpType
<1> QED BY <1>1, <1>2, <1>3, ObjectIs DEF Latest, None

\* A new operation is ahead of the index.
LEMMA AgreeGrown ==
    ASSUME Known, NEW kind \in Kinds, NEW own \in BOOLEAN, Operate(kind, own), clock' = clock,
           UNCHANGED <<inbox, index, apply, baseline>>
    PROVE  /\ (\A i \in Older : inbox[i].op # Latest)'
           /\ (apply.pc = "mark" => inbox[apply.latest].op # Latest)'
           /\ (\A t : Ahead(t))' /\ Latest' = Len(ops) + 1 /\ Latest' # 0
           /\ ops'[Latest'].ms = clock /\ ops'[Latest'].own = own /\ ops'[Latest'].kind = kind
           /\ \A n \in 1..Len(ops) : ops'[n] = ops[n]
           /\ EtagDescribed' /\ ListingSettles'
<1>1. OpsTyped /\ InboxTyped /\ IndexTyped /\ WorkTyped /\ RestTyped /\ RowsInHand /\ TimeInv /\ RowInv
  BY BaseParts DEF Known, Agree
<1>2. Len(ops) \in Nat /\ DOMAIN ops = 1..Len(ops)
  BY <1>1, OpsFacts
<1>3. /\ Len(ops') = Len(ops) + 1 /\ DOMAIN ops' = 1..Len(ops) + 1
      /\ \A n \in 1..Len(ops) : ops'[n] = ops[n]
      /\ ops'[Len(ops) + 1] = [kind |-> kind, ms |-> clock, own |-> own]
  BY <1>1, OpsGrow
<1>4. Latest' = Len(ops) + 1 /\ Latest' # 0
  BY <1>2, <1>3, SMTT(60) DEF Latest
<1>5. ops'[Latest'].ms = clock /\ ops'[Latest'].own = own /\ ops'[Latest'].kind = kind
  BY <1>3, <1>4, SMTT(60)
<1>6. Ids' = Ids /\ \A i \in Ids : inbox[i].op \in 1..Len(ops) /\ inbox[i].op # Latest'
  BY <1>1, <1>2, <1>4, RowNumbers, SMTT(60) DEF Ids
<1>7. Latest' \in queue' /\ ~Stored(Latest)'
  BY <1>4, <1>6 DEF Operate, Stored
<1>8. (\A t : Ahead(t))'
  BY <1>7 DEF Ahead, Unhandled
<1>9. /\ apply.rows \subseteq Ids /\ Older' = Older /\ Older \subseteq Ids
      /\ apply.pc = "mark" => apply.latest \in Ids
  BY <1>1 DEF WorkTyped, ApplyType, RowsInHand, Older
<1>10. EtagDescribed'
  <2>1. index.etag \in 0..Len(ops)
    BY <1>1 DEF IndexTyped
  <2>2. index.etag # None => ops'[index.etag] = ops[index.etag]
    BY <1>2, <1>3, <2>1, SMTT(60) DEF None
  <2>3. (index.etag # None /\ ~ops[index.etag].own) => index.desc \in {None, index.etag}
    BY <1>1 DEF RowInv, EtagDescribed
  <2> QED BY <2>2, <2>3 DEF EtagDescribed
<1>11. ListingSettles'
  <2>1. clock \in Nat /\ baseline.at \in Nat /\ baseline.at <= clock /\ Skew \in Nat
    BY <1>1, Bounds, SMTT(60) DEF OpsTyped, RestTyped, TimeInv
  <2>2. ~(clock + Skew < baseline.at)
    BY <2>1, SMTT(60)
  <2> QED BY <1>5, <2>2 DEF ListingSettles
<1> QED BY <1>3, <1>4, <1>5, <1>6, <1>8, <1>9, <1>10, <1>11

\* Another application operates on the key.
LEMMA AgreeExternal ==
    ASSUME Known, NEW kind \in Kinds, External(kind) PROVE Agree'
<1>1. Operate(kind, FALSE) /\ UNCHANGED <<clock, inbox, index, apply, pass, baseline>>
  BY DEF External
<1>2. /\ (\A i \in Older : inbox[i].op # Latest)'
      /\ (apply.pc = "mark" => inbox[apply.latest].op # Latest)'
      /\ (\A t : Ahead(t))' /\ Latest' = Len(ops) + 1 /\ Latest' # 0
      /\ ops'[Latest'].ms = clock /\ ops'[Latest'].own = FALSE
      /\ \A n \in 1..Len(ops) : ops'[n] = ops[n]
      /\ EtagDescribed' /\ ListingSettles'
  BY <1>1, AgreeGrown
<1>3. ~OwnCreate'
  BY <1>2 DEF OwnCreate
<1>4. ApplierInv'
  BY <1>2, <1>3 DEF ApplierInv
<1>5. /\ pass.at <= clock /\ (pass.pc = "sent" => pass.seen \in 1..Len(ops))
      /\ PassInv
  <2>1. OpsTyped /\ WorkTyped /\ WritesNoted
    BY BaseParts DEF Known
  <2> QED BY <2>1, OpsFacts, SMTT(60) DEF Known, Agree, TimeInv, WorkTyped, PassType,
      WritesNoted, None
<1>6. clock \in Nat /\ pass.at \in Nat
  BY BaseParts, Bounds, SMTT(60) DEF Known, OpsTyped, WorkTyped, PassType
<1>7. PassInv'
  <2>1. (pass.pc = "sent" => ops[pass.seen].ms >= baseline.at)'
    BY <1>1, <1>2, <1>5 DEF PassInv
  <2>2. Ahead(pass.at)' /\ Ahead(baseline.at)'
    BY <1>2
  <2> QED BY <1>1, <1>2, <1>5, <1>6, <2>1, <2>2 DEF PassInv
<1>8. RowInv'
  BY <1>2, <1>3 DEF RowInv, OwnIndexed, Follows
<1> QED BY <1>4, <1>7, <1>8 DEF Agree

\* Our own write does, which the pass will put in the index.
LEMMA AgreeRequest ==
    ASSUME Known, Request PROVE Agree'
<1>1. OpsTyped /\ WorkTyped /\ RestTyped
  BY BaseParts DEF Known
<1>2. /\ pass.kind \in Kinds /\ TRUE \in BOOLEAN /\ Operate(pass.kind, TRUE)
      /\ UNCHANGED <<clock, inbox, index, apply, baseline>>
      /\ pass.pc = "noted" /\ pass'.pc = "sent" /\ pass'.seen = Len(ops) + 1
  BY <1>1 DEF Request, WorkTyped, PassType
<1>3. /\ Latest' = Len(ops) + 1 /\ ops'[Latest'].ms = clock
      /\ EtagDescribed' /\ ListingSettles'
  BY <1>2, AgreeGrown
<1>4. apply.pc \in {"idle", "schedule"} /\ apply.rows = {}
  BY <1>2, PassAlone DEF Known
<1>5. ApplierInv'
  BY <1>2, <1>4, ApplierEmpty
<1>6. baseline.at <= clock /\ clock \in Nat /\ baseline.at \in Nat
  BY <1>1, Bounds, SMTT(60) DEF Known, TimeInv, OpsTyped, RestTyped
<1>7. PassInv' /\ Writing'
  BY <1>2, <1>3, <1>6 DEF PassInv, Writing
<1>8. RowInv'
  BY <1>3, <1>7 DEF RowInv, OwnIndexed, Follows
<1> QED BY <1>5, <1>7, <1>8 DEF Agree

\* Time, gaps, retries and intents.
LEMMA AgreeStream ==
    ASSUME Known,
           \/ Tick \/ checkDeadLetters \/ checkContinuity \/ UNCHANGED vars
           \/ \E i \in Ops : retryDue(i) \/ expireIntent(i)
           \/ delayProtected
    PROVE  Agree'
<1>1. InboxTyped /\ RestTyped /\ Base /\ Agree
  BY BaseParts DEF Known
<1>2. UNCHANGED <<ops, queue, index, apply, pass>>
  BY DEF Tick, checkDeadLetters, checkContinuity, vars, retryDue, expireIntent, delayProtected,
         provider, stream
<1>3. baseline'.at = baseline.at /\ (baseline'.held \/ baseline' = baseline)
  BY <1>1 DEF Tick, checkDeadLetters, checkContinuity, vars, retryDue, expireIntent,
                delayProtected, RestTyped
<1>4. Ids' = Ids /\ \A i \in Ids : inbox'[i].op = inbox[i].op /\ inbox'[i].state = inbox[i].state
  <2>1. CASE inbox' = inbox
    BY <2>1 DEF Ids
  <2>2. CASE \E i \in Ops : retryDue(i)
    <3>1. PICK i \in Ops : retryDue(i)
      BY <2>2
    <3>2. i \in Ids /\ inbox' = [inbox EXCEPT ![i].due = TRUE]
      BY <3>1 DEF retryDue
    <3> QED BY <1>1, <3>2, InboxFacts DEF EventType, Ids
  <2>3. CASE delayProtected
    <3>1. inbox' = Delayed(inbox, Due("pending"))
      BY <2>3 DEF delayProtected
    <3>2. /\ inbox' \in [Ids -> EventType]
          /\ \A i \in Ids : inbox'[i].op = inbox[i].op /\ inbox'[i].state = inbox[i].state
      BY <1>1, <3>1, DelayedIs
    <3> QED BY <1>1, <1>2, <3>2, Rewritten
  <2>4. inbox' = inbox \/ delayProtected \/ \E i \in Ops : retryDue(i)
    BY DEF Tick, checkDeadLetters, checkContinuity, vars, expireIntent
  <2> QED BY <2>1, <2>2, <2>3, <2>4
<1>5. \A t : Ahead(t) => Ahead(t)'
  BY <1>2, <1>4, AheadKept
<1> QED BY <1>1, <1>2, <1>3, <1>4, <1>5, AgreeStill

\* What is stored is still ahead; what is lost is ahead or settled by a listing.
LEMMA AgreePoll ==
    ASSUME Known, NEW m \in Ops, pollOnce(m) PROVE Agree'
<1>1. OpsTyped /\ InboxTyped /\ Base /\ Agree
  BY BaseParts DEF Known
<1>2. /\ m \in queue /\ queue \ {m} \subseteq queue' /\ queue' \subseteq queue
      /\ UNCHANGED <<ops, index, apply, pass, baseline>>
  BY DEF pollOnce, provider
<1>3. /\ Ids \subseteq Ids' /\ \A i \in Ids : inbox'[i] = inbox[i]
      /\ \/ Stored(m) /\ inbox' = inbox
         \/ /\ ~Stored(m) /\ Ids' = Ids \cup {Len(inbox) + 1} /\ Len(inbox) + 1 \notin Ids
            /\ inbox'[Len(inbox) + 1] = [op |-> m, state |-> "pending", origin |-> "unknown",
                                         attempts |-> 0, due |-> TRUE]
  BY <1>1, <1>2, PollIs
<1>4. Latest' = Latest
  BY <1>2 DEF Latest
<1>5. Unhandled(Latest) => Unhandled(Latest)'
  <2>1. CASE \E i \in Ids : inbox[i].op = Latest /\ inbox[i].state = "pending"
    BY <1>3, <1>4, <2>1 DEF Unhandled
  <2>2. CASE Latest \in queue /\ ~Stored(Latest)
    <3>1. CASE Stored(m)
      <4>1. inbox' = inbox /\ Latest # m
        BY <1>3, <2>2, <3>1
      <4> QED BY <1>2, <1>4, <2>2, <4>1 DEF Unhandled, Stored, Ids
    <3>2. CASE ~Stored(m)
      <4>1. /\ Ids' = Ids \cup {Len(inbox) + 1}
            /\ inbox'[Len(inbox) + 1].op = m /\ inbox'[Len(inbox) + 1].state = "pending"
        BY <1>3, <3>2, SMTT(60)
      <4>2. CASE m = Latest
        BY <1>4, <4>1, <4>2 DEF Unhandled
      <4>3. CASE m # Latest
        BY <1>2, <1>3, <1>4, <2>2, <4>1, <4>3 DEF Unhandled, Stored
      <4> QED BY <4>2, <4>3
    <3> QED BY <3>1, <3>2
  <2> QED BY <2>1, <2>2 DEF Unhandled
<1>6. Lost(Latest) => Lost(Latest)'
  <2>1. CASE Stored(m)
    <3>1. inbox' = inbox
      BY <1>3, <2>1
    <3> QED BY <1>2, <1>4, <3>1 DEF Lost, Stored, Ids
  <2>2. CASE ~Stored(m)
    <3>1. Ids' = Ids \cup {Len(inbox) + 1} /\ inbox'[Len(inbox) + 1].op = m
      BY <1>3, <2>2, SMTT(60)
    <3> QED BY <1>2, <1>3, <1>4, <3>1 DEF Lost, Stored
  <2> QED BY <2>1, <2>2
<1>7. \A t : Ahead(t) => Ahead(t)'
  BY <1>2, <1>4, <1>5, <1>6 DEF Ahead
<1> QED BY <1>1, <1>2, <1>3, <1>7, AgreeStill

\* A lost event is dated after the baseline, or a listing has settled it.
LEMMA AgreeLose ==
    ASSUME Known, NEW m \in Ops, Lose(m) PROVE Agree'
<1>1. /\ OpsTyped /\ WorkTyped /\ RestTyped /\ WritesNoted /\ Base /\ Agree /\ ApplierInv
      /\ PassInv /\ RowInv /\ TimeInv
  BY BaseParts DEF Known, Agree
<1>2. /\ Skew = 0 /\ m \in queue /\ queue' = queue \ {m}
      /\ UNCHANGED <<ops, inbox, index, apply, pass, baseline>>
  BY DEF Lose, provider, Known, Orderly
<1>3. UNCHANGED <<Object, Latest, OwnCreate, OwnDeleted, Indexed, IndexedObject, Mirrors, Writing>>
  BY <1>2, SameRow DEF Writing
<1>4. \A n : Stored(n)' <=> Stored(n)
  BY <1>2 DEF Stored, Ids
<1>5. /\ Latest \in Nat /\ DOMAIN ops = 1..Latest
      /\ Latest # 0 => ops[Latest].ms \in Nat /\ Latest \in 1..Len(ops)
  BY <1>1, LatestIs
<1>6. queue \subseteq DOMAIN ops
  BY <1>1 DEF OpsTyped
<1>7. ASSUME NEW t, Ahead(t), ops[Latest].ms >= t PROVE Ahead(t)'
  <2>1. CASE Latest \in queue /\ ~Stored(Latest)
    BY <1>2, <1>3, <1>4, <1>6, <1>7, <2>1 DEF Ahead, Unhandled, Lost
  <2>2. CASE \E i \in Ids : inbox[i].op = Latest /\ inbox[i].state = "pending"
    BY <1>2, <1>3, <2>2 DEF Ahead, Unhandled, Ids
  <2>3. CASE Lost(Latest)
    BY <1>2, <1>3, <1>4, <1>7, <2>3 DEF Ahead, Lost
  <2> QED BY <1>7, <2>1, <2>2, <2>3 DEF Ahead, Unhandled
<1>8. ApplierInv'
  BY <1>1, <1>2, ApplierKept
<1>9. PassInv'
  <2>1. CASE pass.pc = "listed"
    <3>1. (pass.seen # Object /\ ops[Latest].ms >= pass.at) => (Ahead(pass.at) => Ahead(pass.at)')
      BY <1>2, <1>7
    <3> QED BY <1>1, <1>2, <1>3, <2>1, <3>1 DEF PassInv
  <2>2. CASE pass.pc = "sent" /\ pass.seen # Latest
    <3>1. pass.seen \in 1..Latest /\ ops[pass.seen].ms \in Nat /\ baseline.at \in Nat
      BY <1>1, <1>5, <2>2, OpsFacts, Bounds, SMTT(60)
         DEF WritesNoted, WorkTyped, PassType, None, OpType, RestTyped, Latest
    <3>2. ops[pass.seen].ms <= ops[Latest].ms /\ ops[pass.seen].ms >= baseline.at
      BY <1>1, <1>5, <2>2, <3>1, TimeOrder, SMTT(60) DEF PassInv, Latest
    <3>3. Latest # 0
      BY <1>5, <3>1, SMTT(60)
    <3>4. ops[Latest].ms >= baseline.at
      BY <1>5, <3>1, <3>2, <3>3, SMTT(60)
    <3>5. Ahead(baseline.at)'
      BY <1>1, <1>2, <1>7, <2>2, <3>4 DEF PassInv
    <3> QED BY <1>1, <1>2, <1>3, <2>2, <3>5 DEF PassInv
  <2>3. CASE pass.pc # "listed" /\ ~(pass.pc = "sent" /\ pass.seen # Latest)
    BY <1>1, <1>2, <1>3, <2>3 DEF PassInv
  <2> QED BY <2>1, <2>2, <2>3
<1>10. Follows'
  <2> SUFFICES ASSUME ~baseline.held, ~Mirrors, ~Writing, ~(Object = None /\ OwnDeleted)
               PROVE  Ahead(baseline.at)'
    BY <1>2, <1>3 DEF Follows
  <2>1. Ahead(baseline.at)
    BY <1>1 DEF RowInv, Follows
  <2>2. Latest # 0
    <3>1. \A i \in Ids : inbox[i].op # 0
      BY <1>1, BaseParts, RowNumbers, SMTT(60)
    <3> QED BY <1>5, <1>6, <2>1, <3>1, SMTT(60) DEF Ahead, Unhandled, Lost
  <2>3. ~(ops[Latest].ms + Skew < baseline.at)
    BY <1>1, <2>2 DEF RowInv, ListingSettles
  <2>4. ops[Latest].ms >= baseline.at
    BY <1>1, <1>2, <1>5, <2>2, <2>3, Bounds, SMTT(60) DEF RestTyped
  <2> QED BY <1>2, <1>7, <2>1, <2>4
<1>11. RowInv'
  BY <1>1, <1>2, <1>3, <1>10 DEF RowInv, EtagDescribed, OwnIndexed, ListingSettles
<1> QED BY <1>8, <1>9, <1>11 DEF Agree

\* A step that leaves the operations and the row of the index alone.
LEMMA AgreeRest ==
    ASSUME Known, UNCHANGED <<ops, queue, index, baseline>>, Ids' = Ids,
           \A i \in Ids : inbox'[i].op = inbox[i].op,
           \A i \in Ids : (inbox[i].op = Latest /\ inbox[i].state = "pending") =>
                              inbox'[i].state = "pending",
           Writing => Writing', ApplierInv', PassInv'
    PROVE  Agree'
<1>1. Ahead(baseline.at) => Ahead(baseline.at)'
  BY AheadKept
<1>2. RowInv'
  BY <1>1, RowKept DEF Known, Agree
<1> QED BY <1>2 DEF Agree

\* The lease changes hands, and the listing itself.
LEMMA AgreeLease ==
    ASSUME Known,
           \/ releasePass \/ schedule \/ beginListing \/ ListObjects \/ RequestFails \/ Crash
           \/ \E kind \in Kinds : noteOwnWrite(kind)
           \/ \E ok \in BOOLEAN : scopedFinish(ok)
    PROVE  Agree'
<1>1. OpsTyped /\ InboxTyped /\ WorkTyped /\ RowsInHand /\ PassInv
  BY BaseParts DEF Known, Agree
<1>2. UNCHANGED <<ops, queue, index, baseline>>
  BY DEF releasePass, schedule, beginListing, ListObjects, RequestFails, Crash, noteOwnWrite,
         scopedFinish, provider, stream
<1>3. /\ Ids' = Ids /\ \A i \in Ids : inbox'[i].op = inbox[i].op
      /\ \A i \in Ids : inbox[i].state = "pending" => inbox'[i].state = "pending"
  <2>1. CASE inbox' = inbox
    BY <2>1 DEF Ids
  <2>2. CASE \E ok \in BOOLEAN : scopedFinish(ok)
    <3>1. \/ inbox' = Delayed(inbox, pass.rows)
          \/ inbox' = InState(inbox, pass.rows, "done")
          \/ inbox' = InState(inbox, pass.rows, "failed")
      BY <2>2 DEF scopedFinish
    <3>2. /\ inbox' \in [Ids -> EventType]
          /\ \A i \in Ids : /\ inbox'[i].op = inbox[i].op
                            /\ i \in pass.rows \/ inbox'[i].state = inbox[i].state
      <4>1. CASE inbox' = Delayed(inbox, pass.rows)
        BY <1>1, <4>1, DelayedIs
      <4>2. ASSUME NEW st \in States
            PROVE  /\ InState(inbox, pass.rows, st) \in [Ids -> EventType]
                   /\ \A i \in Ids :
                        /\ InState(inbox, pass.rows, st)[i].op = inbox[i].op
                        /\ i \in pass.rows \/ InState(inbox, pass.rows, st)[i].state = inbox[i].state
        BY <1>1, InStateIs, SMTT(60)
      <4>3. "done" \in States /\ "failed" \in States
        BY DEF States
      <4> QED BY <3>1, <4>1, <4>2, <4>3
    <3>3. \A i \in pass.rows : inbox[i].state # "pending"
      BY <1>1 DEF RowsInHand
    <3> QED BY <1>1, <1>2, <3>2, <3>3, Rewritten
  <2>3. inbox' = inbox \/ \E ok \in BOOLEAN : scopedFinish(ok)
    BY DEF releasePass, schedule, beginListing, ListObjects, RequestFails, Crash, noteOwnWrite
  <2> QED BY <2>1, <2>2, <2>3
<1>4. ApplierInv'
  <2>1. pass.pc # "off" \/ lease = "free" => apply.pc \in {"idle", "schedule"} /\ apply.rows = {}
    BY <1>1, PassAlone DEF Known, WorkTyped, ApplyType, RowsInHand
  <2>2. apply'.rows = {} /\ apply'.pc \notin {"settle", "mark"}
    <3>1. CASE releasePass \/ schedule \/ Crash
      <4>1. \E pc \in {"schedule", "idle"} : apply' = [pc |-> pc, rows |-> {}, latest |-> None]
        BY <3>1 DEF releasePass, schedule, Crash, Become
      <4> QED BY <4>1, SMTT(60)
    <3>2. CASE \/ beginListing \/ ListObjects \/ RequestFails
               \/ \E kind \in Kinds : noteOwnWrite(kind)
               \/ \E ok \in BOOLEAN : scopedFinish(ok)
      <4>1. apply' = apply /\ (pass.pc # "off" \/ lease = "free")
        BY <3>2 DEF beginListing, ListObjects, RequestFails, noteOwnWrite, scopedFinish
      <4> QED BY <2>1, <4>1
    <3> QED BY <3>1, <3>2
  <2> QED BY <2>2, ApplierEmpty
<1>5. /\ \/ pass' = pass \/ pass'.pc \notin {"listed", "sent"}
         \/ pass'.pc = "listed" /\ pass'.seen = Object
      /\ pass' = pass \/ pass.pc # "sent"
  <2>1. lease = "free" => pass.pc = "off"
    BY <1>1 DEF WorkTyped, PassType
  <2>2. pass \in PassType
    BY <1>1 DEF WorkTyped
  <2>3. CASE RequestFails \/ Crash \/ releasePass \/ \E ok \in BOOLEAN : scopedFinish(ok)
    <3>1. CASE Crash
      <4>1. "crashInWrite" \notin Admit
        BY DEF Known, Orderly
      <4>2. pass.pc \notin {"noted", "sent"} /\ pass' = NoPass
        BY <3>1, <4>1 DEF Crash, PassOff
      <4> QED BY <4>2 DEF NoPass
    <3>2. CASE RequestFails \/ releasePass \/ \E ok \in BOOLEAN : scopedFinish(ok)
      <4>1. pass' = pass \/ (pass' = NoPass /\ pass.pc # "sent")
        BY <3>2 DEF RequestFails, releasePass, scopedFinish, PassOff
      <4> QED BY <4>1, SMTT(60) DEF NoPass
    <3> QED BY <2>3, <3>1, <3>2
  <2>4. CASE schedule \/ beginListing \/ ListObjects \/ \E kind \in Kinds : noteOwnWrite(kind)
    BY <2>1, <2>2, <2>4 DEF schedule, beginListing, ListObjects, noteOwnWrite, PassType
  <2> QED BY <2>3, <2>4
<1>6. \A t : Ahead(t) => Ahead(t)'
  BY <1>2, <1>3, AheadKept
<1>7. PassInv'
  <2>1. CASE pass' = pass
    BY <1>1, <1>2, <1>6, <2>1, PassKept
  <2>2. CASE pass'.pc \notin {"listed", "sent"}
    BY <2>2, PassQuiet
  <2>3. CASE pass'.pc = "listed" /\ pass'.seen = Object
    <3>1. Object' = Object
      BY <1>2, SameOps
    <3> QED BY <2>3, <3>1 DEF PassInv
  <2> QED BY <1>5, <2>1, <2>2, <2>3
<1>8. Writing => Writing'
  BY <1>2, <1>5 DEF Writing, Latest
<1> QED BY <1>2, <1>3, <1>4, <1>7, <1>8, AgreeRest

\* The applier's steps: no pass is at work.
LEMMA AgreeHand ==
    ASSUME Known, apply.pc \in {"confirm", "settle", "mark", "release"}, UNCHANGED <<ops, pass>>
    PROVE  PassInv' /\ ~Writing /\ ~Writing'
<1>1. pass.pc = "off"
  BY ApplierAlone DEF Known
<1> QED BY <1>1, PassQuiet DEF Writing

\* The newest row of a batch is read as such.
LEMMA AgreeClaim ==
    ASSUME Known, claimForVault PROVE Agree'
<1>1. OpsTyped /\ InboxTyped /\ WorkTyped /\ TimeInv
  BY BaseParts DEF Known
<1> DEFINE rows == Due("pending")
           latest == Newest(rows)
<1>2. /\ lease = "free" /\ UNCHANGED <<ops, queue, index, baseline, inbox, pass>>
      /\ IF rows = {} THEN Ready
         ELSE Become(IF Kind(latest) = "Removed" THEN "confirm" ELSE "settle", rows, latest)
  BY DEF claimForVault, provider, stream
<1>3. pass.pc = "off"
  BY <1>1, <1>2 DEF WorkTyped, PassType
<1>4. PassInv' /\ ~Writing
  BY <1>2, <1>3, PassQuiet DEF Writing
<1>5. ApplierInv'
  <2>1. CASE rows = {}
    BY <1>2, <2>1, ApplierEmpty, SMTT(60) DEF Ready, Become
  <2>2. CASE rows # {}
    <3>1. rows \in SUBSET Ids
      BY DEF Due
    <3>2. /\ apply'.rows = rows /\ apply'.latest = latest
          /\ apply'.pc = IF Kind(latest) = "Removed" THEN "confirm" ELSE "settle"
      BY <1>2, <2>2, SMTT(60) DEF Become
    <3> HIDE DEF rows
    <3>3. latest \in rows /\ \A b \in rows : newerOrEqual(latest, b)
      BY <1>1, <2>2, <3>1, NewestIs
    <3> HIDE DEF latest
    <3>4. ASSUME NEW i \in rows, i # latest PROVE inbox[i].op # Latest
      <4>1. inbox[latest].op >= inbox[i].op
        BY <1>1, <3>1, <3>3, OrderIs
      <4>2. inbox[latest].op # inbox[i].op
        BY <1>1, <3>1, <3>3, <3>4 DEF InboxTyped
      <4>3. inbox[latest].op \in 1..Len(ops) /\ inbox[i].op \in 1..Len(ops) /\ Len(ops) \in Nat
        BY <1>1, <3>1, <3>3, RowNumbers, OpsFacts
      <4> QED BY <4>1, <4>2, <4>3, SMTT(60) DEF Latest
    <3>5. Latest' = Latest
      BY <1>2 DEF Latest
    <3>6. (\A i \in Older : inbox[i].op # Latest)'
      BY <1>2, <3>2, <3>4, <3>5 DEF Older
    <3>7. apply'.pc = "settle" => (Kind(apply.latest))' # "Removed"
      BY <1>2, <3>2 DEF Kind
    <3> QED BY <3>2, <3>6, <3>7 DEF ApplierInv
  <2> QED BY <2>1, <2>2
<1>6. Ids' = Ids /\ \A i \in Ids : inbox'[i] = inbox[i]
  BY <1>2 DEF Ids
<1> QED BY <1>2, <1>4, <1>5, <1>6, AgreeRest

\* A removal of the last operation is claimed by one of our deletes.
LEMMA AgreeOwnRemoval ==
    ASSUME Known, OwnRemoval PROVE Agree'
<1>1. /\ OpsTyped /\ InboxTyped /\ IntentsTyped /\ WorkTyped /\ RowsInHand
      /\ ApplierInv /\ RowInv /\ DeletesOwn
  BY BaseParts DEF Known, Agree
<1>2. /\ apply.pc = "confirm" /\ settleOwnWrite(apply.latest)
      /\ apply'.pc = "release" /\ apply'.rows = Older
      /\ UNCHANGED <<ops, queue, index, baseline, pass>>
  BY DEF OwnRemoval, Become, Older, provider, stream
<1>3. /\ apply.latest \in Ids /\ Older \subseteq Ids /\ Kind(apply.latest) = "Removed"
  BY <1>1, <1>2 DEF WorkTyped, ApplyType, RowsInHand, Older
<1>4. /\ inbox' \in [Ids -> EventType]
      /\ \A j \in Ids : /\ inbox'[j].op = inbox[j].op
                        /\ inbox'[j].state = IF j = apply.latest THEN "skipped" ELSE inbox[j].state
      /\ \E k \in DOMAIN intents : Matches(intents[k], apply.latest)
  BY <1>1, <1>2, <1>3, OwnWriteIs
<1>5. Ids' = Ids
  BY <1>1, <1>2, <1>4, Rewritten
<1>6. PassInv' /\ ~Writing /\ ~Writing' /\ pass.pc = "off"
  BY <1>2, AgreeHand, ApplierAlone DEF Known
<1>7. UNCHANGED <<Object, Latest, OwnCreate, OwnDeleted, Mirrors>>
  BY <1>2, SameRow
<1>8. ApplierInv'
  <2>1. \A i \in Older' : i \in Older
    BY <1>2 DEF Older
  <2> QED BY <1>1, <1>2, <1>3, <1>4, <1>7, <2>1 DEF ApplierInv
<1>9. CASE inbox[apply.latest].op # Latest
  BY <1>2, <1>4, <1>5, <1>6, <1>8, <1>9, AgreeRest
<1>10. CASE inbox[apply.latest].op = Latest
  <2>1. OwnDeleted
    BY <1>1, <1>3, <1>4, <1>6 DEF Matches, DeletesOwn
  <2>2. Object = None
    BY <1>1, <1>3, <1>10, LatestIs DEF Kind
  <2>3. Follows'
    BY <1>7, <2>1, <2>2 DEF Follows
  <2>4. RowInv'
    BY <1>1, <1>2, <1>6, <1>7, <2>3 DEF RowInv, EtagDescribed, OwnIndexed, ListingSettles,
        Indexed
  <2> QED BY <1>6, <1>8, <2>4 DEF Agree
<1> QED BY <1>9, <1>10

\* The older events of a batch are not the last operation's.
LEMMA AgreeSupersede ==
    ASSUME Known, Supersede PROVE Agree'
<1>1. /\ OpsTyped /\ InboxTyped /\ IntentsTyped /\ WorkTyped /\ RowsInHand /\ ApplierInv
  BY BaseParts DEF Known, Agree
<1> DEFINE i == First(Older)
<1>2. /\ apply.pc \in {"settle", "release"} /\ Older # {}
      /\ settleOwnWrite(i) \/ inbox' = Skipped(inbox, {i}, "external")
      /\ apply' = [apply EXCEPT !.rows = @ \ {i}]
      /\ UNCHANGED <<ops, queue, index, baseline, pass>>
  BY DEF Supersede, provider, stream
<1>3. Older \in SUBSET Ids /\ (apply.pc = "settle" => apply.latest \in Ids)
  BY <1>1 DEF WorkTyped, ApplyType, Older, RowsInHand
<1>4. i \in Older /\ i \in Ids
  BY <1>1, <1>2, <1>3, FirstIs
<1> HIDE DEF i
<1>5. /\ inbox' \in [Ids -> EventType]
      /\ \A j \in Ids : /\ inbox'[j].op = inbox[j].op
                        /\ inbox'[j].state = IF j = i THEN "skipped" ELSE inbox[j].state
  BY <1>1, <1>2, <1>4, OwnWriteIs, SkippedIs, SMTT(60)
<1>6. Ids' = Ids /\ (\A j \in Ids : Kind(j)' = Kind(j))
  BY <1>1, <1>2, <1>5, Rewritten
<1>7. PassInv' /\ ~Writing
  BY <1>2, AgreeHand
<1>8. inbox[i].op # Latest
  BY <1>1, <1>4 DEF ApplierInv
<1>9. ApplierInv'
  <2>1. apply'.pc = apply.pc /\ apply'.latest = apply.latest /\ Older' \subseteq Older
    BY <1>1, <1>2 DEF WorkTyped, ApplyType, Older
  <2>2. UNCHANGED <<Latest, OwnCreate>>
    BY <1>2, SameOps
  <2>3. apply.pc = "settle" => (Kind(apply.latest))' = Kind(apply.latest)
    BY <1>3, <1>6, <2>1 DEF Kind
  <2> QED BY <1>1, <1>2, <1>3, <1>5, <2>1, <2>2, <2>3 DEF ApplierInv
<1> QED BY <1>2, <1>5, <1>6, <1>7, <1>8, <1>9, AgreeRest

\* A row that mirrors the object satisfies the invariant, and so does one the last
\* operation is ahead of.
LEMMA RowMirrors ==
    ASSUME OpsTyped, ops' = ops, Mirrors', EtagDescribed'
    PROVE  RowInv'
<1>1. UNCHANGED <<Object, Latest, OwnCreate>>
  BY SameOps
<1>2. OwnCreate => Object = Latest /\ Object # None
  BY LatestIs DEF OwnCreate
<1>3. OwnIndexed'
  BY <1>1, <1>2, SMTT(60) DEF OwnIndexed, Mirrors, IndexedObject, Indexed, NoRow, Row
<1> QED BY <1>3 DEF RowInv, ListingSettles, Follows

\* The last operation is ahead of the row.
LEMMA RowAhead ==
    ASSUME Ahead(baseline.at)', EtagDescribed', OwnIndexed',
           ~(ops'[Latest'].ms + Skew < baseline'.at)
    PROVE  RowInv'
<1>1. ListingSettles'
  BY DEF ListingSettles
<1>2. Follows'
  BY DEF Follows
<1> QED BY <1>1, <1>2 DEF RowInv

\* A HEAD that fails, that finds nothing, or that finds an object.
LEMMA AgreeHead ==
    ASSUME Known, HeadFails \/ HeadGone \/ HeadFinds PROVE Agree'
<1>1. /\ OpsTyped /\ InboxTyped /\ WorkTyped /\ RowsInHand /\ ApplierInv /\ RowInv /\ TimeInv
  BY BaseParts DEF Known, Agree
<1>2. /\ apply.pc = "confirm" /\ UNCHANGED <<ops, queue, baseline, pass>>
  BY DEF HeadFails, HeadGone, HeadFinds, Unclaimed, provider, stream
<1>3. /\ apply.rows \subseteq Ids /\ apply.latest \in apply.rows /\ Kind(apply.latest) = "Removed"
  BY <1>1, <1>2 DEF WorkTyped, ApplyType, RowsInHand
<1>4. PassInv' /\ ~Writing
  BY <1>2, AgreeHand
<1>5. UNCHANGED <<Object, Latest, OwnCreate>>
  BY <1>2, SameOps
<1>6. ASSUME NEW i \in apply.rows, Kind(i) = "Removed", Object # None PROVE inbox[i].op # Latest
  BY <1>1, <1>6, LatestIs DEF Kind
<1>7. CASE HeadFails
  <2>1. inbox' = Delayed(inbox, {apply.latest}) /\ Ready /\ index' = index
    BY <1>7 DEF HeadFails
  <2>2. /\ inbox' \in [Ids -> EventType]
        /\ \A j \in Ids : inbox'[j].op = inbox[j].op /\ inbox'[j].state = inbox[j].state
    BY <1>1, <2>1, DelayedIs
  <2>3. Ids' = Ids
    BY <1>1, <1>2, <2>2, Rewritten
  <2>4. ApplierInv'
    BY <2>1, ApplierEmpty DEF Ready, Become
  <2> QED BY <1>2, <1>4, <2>1, <2>2, <2>3, <2>4, AgreeRest
<1>8. CASE HeadGone
  <2>1. /\ Object = None /\ UNCHANGED <<inbox, index>>
        /\ apply' = [pc |-> "settle", rows |-> apply.rows, latest |-> apply.latest]
    BY <1>8 DEF HeadGone, Become
  <2>2. Ids' = Ids /\ \A j \in Ids : inbox'[j] = inbox[j]
    BY <2>1 DEF Ids
  <2>3. ~OwnCreate
    BY <1>1, <2>1, LatestIs DEF OwnCreate
  <2>4. Older' = Older
    BY <2>1 DEF Older
  <2>5. ApplierInv'
    BY <1>1, <1>5, <2>1, <2>3, <2>4 DEF ApplierInv
  <2> QED BY <1>2, <1>4, <2>1, <2>2, <2>5, AgreeRest
<1>9. CASE HeadFinds
  <2> DEFINE creates == {i \in apply.rows : Kind(i) = "Created"}
  <2>1. Object # None
    BY <1>9 DEF HeadFinds
  <2>2. CASE creates # {}
    <3>1. /\ apply'.pc = "settle" /\ apply'.rows = apply.rows \ {apply.latest}
          /\ apply'.latest = Newest(creates)
          /\ inbox' = Skipped(inbox, {apply.latest}, "external") /\ index' = index
      BY <1>9, <2>2, SMTT(60) DEF HeadFinds, Become
    <3>2. Newest(creates) \in creates
      <4>1. creates \in SUBSET Ids
        BY <1>3
      <4> HIDE DEF creates
      <4> QED BY <1>1, <2>2, <4>1, NewestIs
    <3>3. /\ inbox' \in [Ids -> EventType]
          /\ \A j \in Ids : /\ inbox'[j].op = inbox[j].op
                            /\ inbox'[j].state = IF j = apply.latest THEN "skipped" ELSE inbox[j].state
      BY <1>1, <3>1, SkippedIs, SMTT(60)
    <3>4. Ids' = Ids
      BY <1>1, <1>2, <3>3, Rewritten
    <3>5. apply'.latest \in Ids /\ Kind(apply'.latest) = "Created"
      BY <1>3, <3>1, <3>2
    <3>6. (Kind(apply.latest))' = "Created"
      BY <1>2, <3>3, <3>5 DEF Kind
    <3>7. Older' \subseteq Older /\ Older \subseteq Ids
      BY <1>3, <3>1 DEF Older
    <3>8. ApplierInv'
      BY <1>1, <1>5, <3>1, <3>3, <3>6, <3>7 DEF ApplierInv
    <3>9. inbox[apply.latest].op # Latest
      BY <1>3, <1>6, <2>1
    <3> QED BY <1>2, <1>4, <3>1, <3>3, <3>4, <3>8, <3>9, AgreeRest
  <2>3. CASE creates = {}
    <3>1. /\ Ready /\ inbox' = Skipped(inbox, apply.rows, "external")
          /\ index' = index \/ index' = Row(Object, index.seq, Object)
      BY <1>9, <2>3 DEF HeadFinds
    <3>2. ApplierInv'
      BY <3>1, ApplierEmpty DEF Ready, Become
    <3>3. CASE index' = index
      <4>1. /\ inbox' \in [Ids -> EventType]
            /\ \A j \in Ids : /\ inbox'[j].op = inbox[j].op
                              /\ inbox'[j].state = IF j \in apply.rows THEN "skipped" ELSE inbox[j].state
        BY <1>1, <3>1, SkippedIs, SMTT(60)
      <4>2. Ids' = Ids
        BY <1>1, <1>2, <4>1, Rewritten
      <4>3. \A j \in apply.rows : inbox[j].op # Latest
        <5>1. \A j \in apply.rows : Kind(j) = "Removed"
          BY <1>1, <1>3, <2>3, RowNumbers DEF Kinds
        <5> QED BY <1>6, <2>1, <5>1
      <4> QED BY <1>2, <1>4, <3>2, <3>3, <4>1, <4>2, <4>3, AgreeRest
    <3>4. CASE index' = Row(Object, index.seq, Object)
      <4>1. index'.etag = Object /\ index'.desc = Object
        BY <3>4 DEF Row
      <4>2. Mirrors' /\ EtagDescribed'
        BY <1>5, <2>1, <4>1 DEF Mirrors, IndexedObject, EtagDescribed
      <4>3. RowInv'
        BY <1>1, <1>2, <4>2, RowMirrors
      <4> QED BY <1>4, <3>2, <4>3 DEF Agree
    <3> QED BY <3>1, <3>3, <3>4
  <2> QED BY <2>2, <2>3
<1> QED BY <1>7, <1>8, <1>9

\* The index is not told before the row of the last operation is settled.
LEMMA AgreeMark ==
    ASSUME Known, markApplied PROVE Agree'
<1>1. /\ OpsTyped /\ InboxTyped /\ RowsInHand /\ ApplierInv /\ RowInv
  BY BaseParts DEF Known, Agree
<1>2. /\ apply.pc = "mark" /\ apply.latest \in Ids /\ Ready
      /\ inbox' = [inbox EXCEPT ![apply.latest].state = "applied",
                                ![apply.latest].origin = "external"]
      /\ UNCHANGED <<ops, queue, index, baseline, pass>>
  BY <1>1 DEF markApplied, RowsInHand, provider, stream
<1>3. /\ Ids' = Ids
      /\ \A j \in Ids : /\ inbox'[j].op = inbox[j].op
                        /\ j # apply.latest => inbox'[j].state = inbox[j].state
  BY <1>1, <1>2, InboxFacts DEF EventType, Ids
<1>4. PassInv' /\ ~Writing
  BY <1>2, AgreeHand
<1>5. ApplierInv'
  BY <1>2, ApplierEmpty DEF Ready, Become
<1>6. CASE inbox[apply.latest].op # Latest
  BY <1>2, <1>3, <1>4, <1>5, <1>6, AgreeRest
<1>7. CASE inbox[apply.latest].op = Latest
  <2>1. Mirrors'
    BY <1>1, <1>2, <1>7, SameRow DEF ApplierInv
  <2>2. EtagDescribed'
    BY <1>1, <1>2 DEF RowInv, EtagDescribed
  <2> QED BY <1>1, <1>2, <1>4, <1>5, <2>1, <2>2, RowMirrors DEF Agree
<1> QED BY <1>6, <1>7

\* A listing holds what it saw, or a later operation of somebody else is ahead.
LEMMA AgreeListed ==
    ASSUME Known, onBaselineListed PROVE Agree'
<1>1. OpsTyped /\ WorkTyped /\ PassInv
  BY BaseParts DEF Known, Agree
<1>2. /\ pass.pc = "listed" /\ pass'.pc = "off" /\ UNCHANGED <<ops, queue, inbox, apply>>
      /\ index' = IF pass.seen = None THEN NoRow ELSE Row(pass.seen, None, None)
      /\ baseline'.at = pass.at
  BY DEF onBaselineListed, PassOff, NoPass, provider, stream
<1>3. ApplierInv'
  BY <1>2, PassAlone, ApplierEmpty DEF Known
<1>4. PassInv' /\ ~Writing'
  BY <1>2, PassQuiet
<1>5. index'.etag = pass.seen /\ index'.desc = None /\ EtagDescribed'
  BY <1>2 DEF Row, NoRow, EtagDescribed
<1>6. UNCHANGED <<Object, Latest, OwnCreate>>
  BY <1>2, SameOps
<1>7. CASE pass.seen = Object
  <2>1. Mirrors'
    BY <1>5, <1>6, <1>7 DEF Mirrors, IndexedObject, None
  <2> QED BY <1>1, <1>2, <1>3, <1>4, <1>5, <2>1, RowMirrors DEF Agree
<1>8. CASE pass.seen # Object
  <2>1. Latest # 0 /\ Ahead(pass.at) /\ ~ops[Latest].own /\ ops[Latest].ms >= pass.at
    BY <1>1, <1>2, <1>8 DEF PassInv
  <2>2. \A t : Ahead(t) => Ahead(t)'
    BY <1>2, AheadKept DEF Ids
  <2>3. ops[Latest].ms \in Nat /\ pass.at \in Nat /\ Skew \in Nat
    BY <1>1, <2>1, LatestIs, Bounds, SMTT(60) DEF WorkTyped, PassType
  <2>4. Ahead(baseline.at)' /\ ~OwnCreate'
    BY <1>2, <1>6, <2>1, <2>2 DEF OwnCreate
  <2>5. ~(ops'[Latest'].ms + Skew < baseline'.at)
    BY <1>2, <1>6, <2>1, <2>3, SMTT(60)
  <2>6. OwnIndexed'
    BY <2>4 DEF OwnIndexed
  <2>7. RowInv'
    BY <1>5, <2>4, <2>5, <2>6, RowAhead
  <2> QED BY <1>3, <1>4, <2>7 DEF Agree
<1> QED BY <1>7, <1>8

\* Only a listing makes the event of the last operation stale.
LEMMA StaleLatest ==
    ASSUME Known, apply.pc = "settle", NEW i \in Ids, inbox[i].op = Latest, Stale(i)
    PROVE  Time(i) + Skew < baseline.at
<1>1. OpsTyped /\ InboxTyped /\ IndexTyped /\ TimeInv
  BY BaseParts DEF Known
<1>2. latestForKey \in Ids /\ Before(i, latestForKey)
  BY <1>1, LatestRow
<1>3. /\ inbox[latestForKey].op \in 1..Len(ops) /\ inbox[i].op \in 1..Len(ops) /\ Len(ops) \in Nat
      /\ index.seq \in 0..Len(ops)
  BY <1>1, <1>2, RowNumbers, OpsFacts DEF IndexTyped
<1>4. inbox[i].op <= inbox[latestForKey].op
  BY <1>1, <1>2, OrderIs
<1>5. inbox[latestForKey].op = inbox[i].op
  BY <1>3, <1>4, SMTT(60) DEF Latest
<1>6. latestForKey = i
  BY <1>1, <1>2, <1>5 DEF InboxTyped
<1>7. ~AlreadyHandled(i)
  BY <1>6 DEF AlreadyHandled
<1>8. ~IndexNewer(i)
  BY <1>3, SMTT(60) DEF IndexNewer, Latest
<1>9. sub = baseline.at
  BY ApplierAlone DEF Known, SubRead
<1> QED BY <1>7, <1>8, <1>9 DEF Stale, BeforeBaseline

\* An event that is not stale is the last operation's, or that one is ahead; either way no
\* listing has settled it.
LEMMA NotStale ==
    ASSUME Known, apply.pc = "settle", NEW i \in Ids, ~Stale(i)
    PROVE  /\ inbox[i].op # Latest => Ahead(baseline.at)
           /\ ~(ops[Latest].ms + Skew < baseline.at)
<1>1. OpsTyped /\ InboxTyped /\ RestTyped /\ TimeInv
  BY BaseParts DEF Known
<1>2. /\ inbox[i].op \in 1..Len(ops) /\ Len(ops) \in Nat /\ Time(i) \in Nat
      /\ Latest = Len(ops) /\ Latest \in 1..Len(ops) /\ Latest # 0 /\ Latest \in DOMAIN ops
      /\ ops[Latest].ms \in Nat /\ baseline.at \in Nat /\ Skew \in Nat
  <2>1. inbox[i].op \in 1..Len(ops) /\ Time(i) \in 0..MaxClock /\ Len(ops) \in Nat
    BY <1>1, RowNumbers, OpsFacts
  <2>2. Latest = Len(ops) /\ Latest # 0
    BY <1>1, <2>1, LatestIs, SMTT(60)
  <2> QED BY <1>1, <2>1, <2>2, LatestIs, Bounds, SMTT(60) DEF RestTyped
<1>3. Time(i) <= ops[Latest].ms /\ ~(Time(i) + Skew < baseline.at)
  <2>1. sub = baseline.at
    BY ApplierAlone DEF Known, SubRead
  <2> QED BY <1>1, <1>2, <2>1, TimeOrder, SMTT(60) DEF Time, Stale, BeforeBaseline
<1>4. ~(ops[Latest].ms + Skew < baseline.at)
  BY <1>2, <1>3, SMTT(60)
<1>5. ASSUME inbox[i].op # Latest PROVE Ahead(baseline.at)
  <2>1. CASE Stored(Latest)
    <3>1. PICK j \in Ids : inbox[j].op = Latest
      BY <2>1 DEF Stored
    <3>2. latestForKey \in Ids /\ Before(j, latestForKey)
      BY <1>1, <3>1, LatestRow
    <3>3. inbox[latestForKey].op \in 1..Len(ops) /\ inbox[j].op <= inbox[latestForKey].op
      BY <1>1, <3>1, <3>2, OrderIs, RowNumbers
    <3>4. inbox[latestForKey].op = Latest
      BY <1>2, <3>1, <3>3, SMTT(60)
    <3>5. latestForKey # i /\ ~newerOrEqual(i, latestForKey) /\ ~tied(i, latestForKey)
      BY <1>1, <1>2, <1>5, <3>2, <3>4, OrderIs, SMTT(60)
    <3>6. inbox[latestForKey].state = "pending"
      BY <3>5 DEF Stale, AlreadyHandled
    <3> QED BY <3>2, <3>4, <3>6 DEF Ahead, Unhandled
  <2>2. CASE ~Stored(Latest) /\ Latest \in queue
    BY <2>2 DEF Ahead, Unhandled
  <2>3. CASE ~Stored(Latest) /\ Latest \notin queue
    <3>1. Lost(Latest)
      BY <1>2, <2>3 DEF Lost
    <3>2. Skew = 0
      BY <1>1, <1>2, <3>1 DEF TimeInv, Known, Orderly
    <3>3. ops[Latest].ms >= baseline.at
      BY <1>2, <1>4, <3>2, SMTT(60)
    <3> QED BY <3>1, <3>3 DEF Ahead
  <2> QED BY <2>1, <2>2, <2>3
<1> QED BY <1>4, <1>5

\* The newest event of a batch.
LEMMA AgreeSettle ==
    ASSUME Known, Settle PROVE Agree'
<1>1. /\ OpsTyped /\ InboxTyped /\ IntentsTyped /\ IndexTyped /\ WorkTyped /\ RowsInHand
      /\ ApplierInv /\ RowInv /\ IntentsOwn
  BY BaseParts DEF Known, Agree
<1> DEFINE i == apply.latest
           n == inbox[i].op
<1>2. apply.pc = "settle" /\ UNCHANGED <<ops, queue, baseline, pass>>
  BY DEF Settle, provider, stream
<1>3. i \in Ids /\ apply.rows \subseteq Ids
  BY <1>1, <1>2 DEF WorkTyped, ApplyType, RowsInHand
<1>4. /\ n \in 1..Len(ops) /\ n # None /\ Kind(i) = ops[n].kind
      /\ n = Latest => Object = IF Kind(i) = "Created" THEN n ELSE None
  <2>1. n \in 1..Len(ops) /\ n # None /\ Kind(i) = ops[n].kind
    BY <1>1, <1>3, RowNumbers, OpsFacts, SMTT(60) DEF None, Kind
  <2> QED BY <1>1, <2>1, LatestIs DEF None
<1>5. PassInv' /\ ~Writing /\ ~Writing' /\ pass.pc = "off"
  BY <1>2, AgreeHand, ApplierAlone DEF Known
<1>6. UNCHANGED <<Object, Latest, OwnCreate, OwnDeleted>>
  BY <1>2, SameOps
<1>7. ~Stale(i) => /\ n # Latest => Ahead(baseline.at)
                   /\ ~(ops'[Latest'].ms + Skew < baseline'.at)
  BY <1>2, <1>3, <1>6, NotStale
<1>8. \/ Drop(i, "unknown") /\ Stale(i)
      \/ /\ Drop(i, "external") /\ Kind(i) = "Created" /\ index.etag = n
      \/ Write(i, NoRow) /\ ~Stale(i) /\ Kind(i) = "Removed"
      \/ Write(i, Row(n, Sequencer(i), None)) /\ ~Stale(i) /\ Kind(i) = "Created"
      \/ /\ settleOwnWrite(i) /\ Ready /\ ~Stale(i) /\ Kind(i) = "Created"
         /\ index' = IF Indexed THEN Row(n, Sequencer(i), index.desc) ELSE index
  BY DEF Settle
<1>9. Kind(i) = "Removed" => ~OwnCreate
  BY <1>1, <1>2 DEF ApplierInv
<1> HIDE DEF n, i
<1>10. CASE \/ Drop(i, "unknown") /\ Stale(i)
            \/ /\ Drop(i, "external") /\ Kind(i) = "Created" /\ index.etag = n
  <2>1. /\ inbox' = Skipped(inbox, {i}, "unknown") \/ inbox' = Skipped(inbox, {i}, "external")
        /\ Ready /\ index' = index
    BY <1>10 DEF Drop
  <2>2. /\ inbox' \in [Ids -> EventType]
        /\ \A j \in Ids : /\ inbox'[j].op = inbox[j].op
                          /\ j # i => inbox'[j].state = inbox[j].state
    BY <1>1, <2>1, SkippedIs, SMTT(60)
  <2>3. Ids' = Ids
    BY <1>1, <1>2, <2>2, Rewritten
  <2>4. ApplierInv'
    BY <2>1, ApplierEmpty DEF Ready, Become
  <2>5. CASE n # Latest
    BY <1>2, <1>5, <2>1, <2>2, <2>3, <2>4, <2>5, AgreeRest DEF n
  <2>6. CASE n = Latest
    <3>1. ~baseline.held => Mirrors
      <4>1. CASE Stale(i)
        <5>1. Time(i) + Skew < baseline.at
          BY <1>2, <1>3, <2>6, <4>1, StaleLatest DEF n
        <5>2. ops[Latest].ms + Skew < baseline.at /\ Latest # 0
          BY <1>4, <2>6, <5>1 DEF Time, n, None
        <5> QED BY <1>1, <5>2 DEF RowInv, ListingSettles
      <4>2. CASE Kind(i) = "Created" /\ index.etag = n
        <5>1. Object = n /\ IndexedObject = n
          BY <1>4, <2>6, <4>2 DEF IndexedObject
        <5>2. ~baseline.held => index.desc \in {None, n}
          <6>1. CASE ops[n].own
            <7>1. OwnCreate
              BY <1>4, <2>6, <4>2, <6>1 DEF OwnCreate, None
            <7> QED BY <1>1, <1>5, <2>6, <7>1 DEF RowInv, OwnIndexed
          <6>2. CASE ~ops[n].own
            BY <1>1, <1>4, <4>2, <6>2 DEF RowInv, EtagDescribed
          <6> QED BY <6>1, <6>2
        <5> QED BY <5>1, <5>2 DEF Mirrors
      <4> QED BY <1>10, <4>1, <4>2
    <3>2. EtagDescribed'
      BY <1>1, <1>2, <2>1 DEF RowInv, EtagDescribed
    <3>3. CASE baseline.held
      BY <1>2, <1>5, <2>4, <3>2, <3>3 DEF Agree, RowInv, OwnIndexed, ListingSettles, Follows
    <3>4. CASE ~baseline.held
      <4>1. Mirrors'
        BY <1>2, <2>1, <3>1, <3>4, SameRow
      <4> QED BY <1>1, <1>2, <1>5, <2>4, <3>2, <4>1, RowMirrors DEF Agree
    <3> QED BY <3>3, <3>4
  <2> QED BY <2>5, <2>6
<1>11. CASE \/ Write(i, NoRow) /\ ~Stale(i) /\ Kind(i) = "Removed"
            \/ Write(i, Row(n, Sequencer(i), None)) /\ ~Stale(i) /\ Kind(i) = "Created"
  <2>1. /\ UNCHANGED inbox /\ apply'.pc = "mark" /\ apply'.rows = {} /\ apply'.latest = i
        /\ index'.desc = None
        /\ index'.etag = IF Kind(i) = "Created" THEN n ELSE None
    BY <1>11, SMTT(60) DEF Write, Become, Row, NoRow
  <2>2. EtagDescribed'
    BY <2>1 DEF EtagDescribed
  <2>3. n = Latest => Mirrors'
    BY <1>4, <1>6, <2>1 DEF Mirrors, IndexedObject
  <2>4. ApplierInv'
    BY <2>1, <2>3, <1>6 DEF ApplierInv, Older, n
  <2>5. CASE n = Latest
    BY <1>1, <1>2, <1>5, <2>2, <2>3, <2>4, <2>5, RowMirrors DEF Agree
  <2>6. CASE n # Latest
    <3>1. \A t : Ahead(t) => Ahead(t)'
      BY <1>2, <2>1, AheadKept DEF Ids
    <3>2. Ahead(baseline.at)'
      BY <1>2, <1>7, <1>11, <2>6, <3>1
    <3>3. OwnIndexed'
      BY <1>4, <1>6, <1>9, <1>11, <2>1, SMTT(60) DEF OwnIndexed, Indexed, NoRow, Row
    <3>4. RowInv'
      BY <1>7, <1>11, <2>2, <3>2, <3>3, RowAhead
    <3> QED BY <1>5, <2>4, <3>4 DEF Agree
  <2> QED BY <2>5, <2>6
<1>12. CASE /\ settleOwnWrite(i) /\ Ready /\ ~Stale(i) /\ Kind(i) = "Created"
            /\ index' = IF Indexed THEN Row(n, Sequencer(i), index.desc) ELSE index
  <2>1. /\ inbox' \in [Ids -> EventType]
        /\ \A j \in Ids : /\ inbox'[j].op = inbox[j].op
                          /\ inbox'[j].state = IF j = i THEN "skipped" ELSE inbox[j].state
        /\ \E k \in DOMAIN intents : Matches(intents[k], i)
    BY <1>1, <1>2, <1>3, <1>12, OwnWriteIs
  <2>2. Ids' = Ids
    BY <1>1, <1>2, <2>1, Rewritten
  <2>3. ApplierInv'
    BY <1>12, ApplierEmpty DEF Ready, Become
  <2>4. ops[n].own
    <3>1. PICK k \in DOMAIN intents : Matches(intents[k], i)
      BY <2>1
    <3>2. intents[k].by = "nobody"
      <4>1. intents[k].by \in {"pass", "resolution", "nobody"}
        BY <1>1, IntentsFacts DEF IntentType
      <4>2. Held("resolution") = {} /\ Held("pass") = {}
        BY <1>5, BaseParts, NoResolving DEF Known, Orderly, WritesNoted
      <4> QED BY <4>1, <4>2 DEF Held
    <3> QED BY <1>1, <1>12, <3>1, <3>2 DEF IntentsOwn, Matches, n
  <2>5. /\ Indexed => index'.etag = n /\ index'.desc = index.desc
        /\ ~Indexed => index' = NoRow
    BY <1>12 DEF Row, Indexed
  <2>6. EtagDescribed'
    BY <1>2, <2>4, <2>5, SMTT(60) DEF EtagDescribed, NoRow, Row
  <2>7. OwnIndexed'
    BY <1>1, <1>2, <1>4, <1>5, <1>6, <2>5, SMTT(60) DEF RowInv, OwnIndexed, Indexed, NoRow, Row
  <2>8. CASE n = Latest
    <3>1. OwnCreate
      BY <1>4, <1>12, <2>4, <2>8 DEF OwnCreate, None
    <3>2. CASE baseline.held
      BY <1>2, <1>5, <2>3, <2>6, <3>2 DEF Agree, RowInv, OwnIndexed, ListingSettles, Follows
    <3>3. CASE ~baseline.held
      <4>1. Indexed /\ index.desc \in {None, Latest}
        BY <1>1, <1>5, <3>1, <3>3 DEF RowInv, OwnIndexed
      <4>2. Mirrors'
        BY <1>4, <1>6, <1>12, <2>5, <2>8, <4>1 DEF Mirrors, IndexedObject
      <4> QED BY <1>1, <1>2, <1>5, <2>3, <2>6, <4>2, RowMirrors DEF Agree
    <3> QED BY <3>2, <3>3
  <2>9. CASE n # Latest
    <3>1. \A t : Ahead(t) => Ahead(t)'
      BY <1>2, <2>1, <2>2, <2>9, AheadKept DEF n
    <3>2. Ahead(baseline.at)'
      BY <1>2, <1>7, <1>12, <2>9, <3>1
    <3>3. RowInv'
      BY <1>7, <1>12, <2>6, <2>7, <3>2, RowAhead
    <3> QED BY <1>5, <2>3, <3>3 DEF Agree
  <2> QED BY <2>8, <2>9
<1> QED BY <1>8, <1>10, <1>11, <1>12

\* Our write reaches the index, or a later operation of somebody else is ahead.
LEMMA AgreeMutation ==
    ASSUME Known, applyRemoteIndexMutation PROVE Agree'
<1>1. OpsTyped /\ WorkTyped /\ RestTyped /\ WritesNoted /\ PassInv /\ TimeInv
  BY BaseParts DEF Known, Agree
<1>2. /\ pass.pc = "sent" /\ pass'.pc = "off" /\ UNCHANGED <<ops, queue, inbox, apply, baseline>>
      /\ index' = IF pass.kind = "Removed" THEN NoRow ELSE Row(None, index.seq, pass.seen)
  <2>1. "opFails" \notin Admit
    BY DEF Known, Orderly
  <2> QED BY <2>1 DEF applyRemoteIndexMutation, PassOff, NoPass, provider, stream
<1>3. ApplierInv'
  BY <1>2, PassAlone, ApplierEmpty DEF Known
<1>4. PassInv' /\ ~Writing'
  BY <1>2, PassQuiet
<1>5. /\ pass.seen \in 1..Len(ops) /\ Len(ops) \in Nat /\ ops[pass.seen].kind = pass.kind
      /\ pass.kind \in Kinds
  BY <1>1, <1>2, OpsFacts, SMTT(60) DEF WorkTyped, PassType, WritesNoted, None
<1>6. /\ index'.etag = None /\ EtagDescribed'
      /\ index'.desc = IF pass.kind = "Removed" THEN None ELSE pass.seen
  BY <1>2 DEF Row, NoRow, EtagDescribed
<1>7. UNCHANGED <<Object, Latest, OwnCreate>>
  BY <1>2, SameOps
<1>8. CASE pass.seen = Latest
  <2>1. Object = IF pass.kind = "Removed" THEN None ELSE pass.seen
    BY <1>1, <1>5, <1>8, LatestIs, SMTT(60) DEF Kinds
  <2>2. Mirrors'
    BY <1>6, <1>7, <2>1 DEF Mirrors, IndexedObject
  <2> QED BY <1>1, <1>2, <1>3, <1>4, <1>6, <2>2, RowMirrors DEF Agree
<1>9. CASE pass.seen # Latest
  <2>1. Ahead(baseline.at) /\ ~ops[Latest].own /\ ops[pass.seen].ms >= baseline.at
    BY <1>1, <1>2, <1>9 DEF PassInv
  <2>2. Latest \in 1..Len(ops) /\ pass.seen <= Latest
    BY <1>5, SMTT(60) DEF Latest
  <2>3. ops[pass.seen].ms <= ops[Latest].ms
    BY <1>1, <1>5, <2>2, TimeOrder
  <2>4. ops[pass.seen].ms \in Nat /\ ops[Latest].ms \in Nat /\ baseline.at \in Nat /\ Skew \in Nat
    BY <1>1, <1>5, <2>2, OpsFacts, Bounds, SMTT(60) DEF OpType, RestTyped
  <2>5. ~(ops'[Latest'].ms + Skew < baseline'.at)
    BY <1>2, <1>7, <2>1, <2>3, <2>4, SMTT(60)
  <2>6. \A t : Ahead(t) => Ahead(t)'
    BY <1>2, AheadKept DEF Ids
  <2>7. Ahead(baseline.at)'
    BY <1>2, <2>1, <2>6
  <2>8. OwnIndexed'
    BY <1>2, <1>7, <2>1 DEF OwnIndexed, OwnCreate
  <2>9. RowInv'
    BY <1>6, <2>5, <2>7, <2>8, RowAhead
  <2> QED BY <1>3, <1>4, <2>9 DEF Agree
<1> QED BY <1>8, <1>9

\* Initially there is nothing to agree on.
LEMMA AgreeInit == ASSUME Init PROVE SubRead /\ Agree
<1>1. /\ ops = <<>> /\ intents = <<>> /\ index = NoRow /\ pass = NoPass /\ baseline.held
      /\ apply = [pc |-> "idle", rows |-> {}, latest |-> None]
  BY DEF Init
<1>2. SubRead
  BY DEF Init, SubRead
<1>3. ApplierInv /\ PassInv
  BY <1>1 DEF ApplierInv, PassInv, Older, NoPass
<1>4. RowInv
  BY <1>1 DEF RowInv, EtagDescribed, OwnIndexed, ListingSettles, Follows, NoRow, Row
<1> QED BY <1>2, <1>3, <1>4 DEF Agree

\* Together with Base, AgreeInv is inductive.
LEMMA AgreeStep ==
    ASSUME Known, [Next]_vars PROVE Agree'
<1>1. CASE \E kind \in Kinds : External(kind)
  BY <1>1, AgreeExternal
<1>2. CASE \E m \in Ops : Lose(m) \/ pollOnce(m)
  BY <1>2, AgreeLose, AgreePoll
<1>3. CASE \/ Tick \/ checkDeadLetters \/ checkContinuity \/ UNCHANGED vars
           \/ \E i \in Ops : retryDue(i) \/ expireIntent(i)
           \/ delayProtected
  BY <1>3, AgreeStream
<1>4. CASE ApplierStep
  <2>1. ~skipInactive
    BY DEF skipInactive, Known, Orderly
  <2> QED BY <1>3, <1>4, <2>1, AgreeClaim, AgreeOwnRemoval, AgreeSupersede, AgreeHead,
      AgreeSettle, AgreeMark,
     AgreeLease DEF ApplierStep
<1>5. CASE PassStep
  BY <1>5, AgreeLease, AgreeListed, AgreeRequest, AgreeMutation DEF PassStep
<1>6. CASE Crash \/ \E kind \in Kinds : noteOwnWrite(kind)
  BY <1>6, AgreeLease
<1>7. ~ResolutionStep
  BY NoResolving DEF Known, Orderly
<1> QED BY <1>1, <1>2, <1>3, <1>4, <1>5, <1>6, <1>7 DEF Next

\* The index follows the bucket, whatever is on its way: in every reachable state its row
\* mirrors the object, or the last operation's event has still to be settled, or a gap in
\* the stream will bring a listing (applyVault, pollOnce, initBins, noteOwnWrite).  Holds
\* under Orderly, which names the seven events that break it.
THEOREM IndexFollows == Orderly => (Spec => []AgreeInv)
<1> SUFFICES ASSUME Orderly PROVE Spec => []AgreeInv
  OBVIOUS
<1>1. NoneLeftOpen
  BY DEF Orderly, NoneLeftOpen
<1> DEFINE I == Known /\ EtagsOwn
<1>2. Init => I
  BY BaseInit, TimeInit, AgreeInit, OwnInit DEF Known
<1>3. I /\ [Next]_vars => I'
  <2> SUFFICES ASSUME Known, EtagsOwn, [Next]_vars PROVE Known' /\ EtagsOwn'
    OBVIOUS
  <2>1. Base /\ IntentsOwn /\ DeletesOwn /\ TimeInv /\ SubRead
    BY DEF Known
  <2>2. Base'
    BY <2>1, BaseStep
  <2>3. IntentsOwn' /\ DeletesOwn' /\ EtagsOwn'
    BY <1>1, <2>1, EtagsStep, OwnStep, DeletesStep
  <2>4. TimeInv' /\ SubRead'
    BY <2>1, TimeStep, SubStep
  <2>5. Agree'
    BY AgreeStep
  <2> QED BY <2>2, <2>3, <2>4, <2>5 DEF Known
<1>4. I => AgreeInv
  BY DEF Known, Agree, AgreeInv
<1> QED BY <1>2, <1>3, <1>4, PTL DEF Spec

\* A quiet state has nothing ahead of the index.
LEMMA QuietMirrored ==
    ASSUME Base, AgreeInv PROVE QuietAgrees
<1> SUFFICES ASSUME Quiet, ~(Object = None /\ OwnDeleted) PROVE Mirrors
  BY DEF QuietAgrees
<1>1. OpsTyped /\ InboxTyped /\ WorkTyped /\ RestTyped /\ TimeInv /\ RowInv
  BY BaseParts DEF AgreeInv
<1>2. /\ queue = {} /\ ~dead /\ lease = "free" /\ ~baseline.held /\ ~continuityLost
      /\ \A i \in Ids : inbox[i].state # "pending"
  BY DEF Quiet
<1>3. ~Writing
  BY <1>1, <1>2 DEF Writing, WorkTyped
<1>4. ~Ahead(baseline.at)
  <2> SUFFICES ASSUME Lost(Latest), ops[Latest].ms >= baseline.at PROVE FALSE
    BY <1>2 DEF Ahead, Unhandled
  <2>1. Latest \in DOMAIN ops /\ broken >= ops[Latest].ms
    BY <1>1, <1>2 DEF Lost, TimeInv
  <2>2. /\ ops[Latest].ms \in 1..MaxClock /\ MaxClock \in Nat /\ broken \in 0..MaxClock
        /\ baseline.at \in 0..MaxClock
    BY <1>1, <2>1, OpsFacts, Bounds DEF OpsTyped, OpType, RestTyped
  <2>3. broken # 0 /\ broken >= baseline.at
    BY <2>1, <2>2, SMTT(60)
  <2> QED BY <1>2, <2>3 DEF continuityLost
<1> QED BY <1>1, <1>2, <1>3, <1>4 DEF RowInv, Follows

\* Once every event has arrived and is settled, the index row names the object the provider
\* holds and describes no other, unless the object is gone and we deleted the key ourselves
\* (applyVault, schedule, pollOnce): in whatever order and however often the events were
\* delivered, through gaps, listings, restarts and writes of our own.
THEOREM QuietIndex == Orderly => (Spec => []QuietAgrees)
<1>1. Base /\ AgreeInv => QuietAgrees
  BY QuietMirrored
<1>2. Spec => []Base
  BY BaseInit, BaseStep, PTL DEF Spec
<1> QED BY <1>1, <1>2, IndexFollows, PTL
=============================================================================
