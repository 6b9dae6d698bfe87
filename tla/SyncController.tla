--------------------------- MODULE SyncController ---------------------------
(***************************************************************************)
(* The scheduling of one vault's sync passes: sync::Controller, the pass   *)
(* bodies of sync::Local and sync::Cloud as far as scheduling sees them,   *)
(* and the event applier, which shares the vault's pass lease.             *)
(*                                                                         *)
(* Threads: the controller's run loop, the workers of the sync pool (one   *)
(* per pass that runs), the callers of runNow and of the operations that   *)
(* replace, retire or switch off the vault's engine, and the applier.      *)
(* A task is an object behind shared_ptr: it exists while something refers *)
(* to it, and its name is free again afterwards.                           *)
(***************************************************************************)
EXTENDS Naturals, FiniteSets

CONSTANTS
    Tasks,     \* task objects (as many as may exist at once)
    NoTask,
    Engines,   \* storage engine objects
    NoEngine,
    Callers,   \* threads that call into the controller
    Loop,      \* the controller's own thread, also a refresher
    MaxCalls,  \* bound: how many calls the callers make
    S3,        \* an S3 vault (sync::Cloud) or a local one (sync::Local)
    Admit      \* which of SchedulingEvents this instance lets happen

SchedulingEvents ==
    {"pass fails",       \* a pass ends with ERROR or STALLED
     "start fails",      \* startTask throws after it set runningFlag
     "vault retires",    \* the vault's engine goes away and may come back
     "engine changes",   \* reloadEngine or updateVault puts a new engine in place
     "sync switched",    \* engine->sync->enabled is changed
     "mark expires"}     \* a regular pass waits longer than kRegularWaitBound

ASSUME SyncAssumption ==
    /\ NoTask \notin Tasks /\ NoEngine \notin Engines
    /\ Loop \notin Callers
    /\ S3 \in BOOLEAN /\ MaxCalls \in Nat
    /\ Admit \subseteq SchedulingEvents

VARIABLES
    engine,   \* Manager::vaultToEngine_ of the vault
    on,       \* the engines whose policy says sync is enabled
    taskMap,  \* Controller::taskMap_ of the vault
    queue,    \* Controller::pq
    popped,   \* the task runLoop took from pq and has not submitted yet
    pool,     \* the sync pool's queue
    task,     \* the fields of each task
    run,      \* how far the worker that runs a task is
    closing,  \* workers whose PassLease is still to be destroyed
    lease,    \* the vault is in Controller::activePasses_
    waiting,  \* Controller::regularWaiting_ of the vault, and its age
    thread,   \* callers and run loop: where they are in runNow or refreshEngines
    applier,  \* where the event applier is
    calls     \* how many calls were made

engines == <<engine, on>>
places == <<taskMap, queue, popped, pool>>
leases == <<lease, waiting>>
threads == <<thread, applier, calls>>
vars == <<engines, places, task, run, closing, leases, threads>>

-----------------------------------------------------------------------------
TaskRecs == [engine : Engines \cup {NoEngine}, scoped : BOOLEAN,
             interrupted : BOOLEAN, running : BOOLEAN, asked : BOOLEAN]
Created(e, scoped, asked) ==
    [engine |-> e, scoped |-> scoped, interrupted |-> FALSE, running |-> FALSE, asked |-> asked]
Blank == Created(NoEngine, FALSE, FALSE)

\* Local::interrupt, runningFlag, and runNow and consumePendingRunNow on runNowFlag.
Flags(r, interrupted, running, asked) ==
    [engine |-> r.engine, scoped |-> r.scoped, interrupted |-> interrupted,
     running |-> running, asked |-> asked]
Interrupted(r) == Flags(r, TRUE, r.running, r.asked)
SetRunning(r, running) == Flags(r, r.interrupted, running, r.asked)
SetAsked(r, asked) == Flags(r, r.interrupted, r.running, asked)

At(pc, t, e) == [pc |-> pc, task |-> t, engine |-> e]
Idle == At("idle", NoTask, NoEngine)

Running == {t \in Tasks : run[t] # "none"}

\* The tasks a shared_ptr still refers to.
Referenced ==
    queue \cup pool \cup Running \cup ({taskMap, popped} \ {NoTask})
        \cup ({thread[c].task : c \in Callers} \ {NoTask})
Free == Tasks \ Referenced

\* The task fields after a step: objects nobody refers to any more are gone.
Collect(fields) == task' = [t \in Tasks |-> IF t \in Referenced' THEN fields[t] ELSE Blank]

Init ==
    /\ \E e \in Engines : engine = e /\ on = {e}
    /\ taskMap = NoTask /\ queue = {} /\ popped = NoTask /\ pool = {}
    /\ task = [t \in Tasks |-> Blank]
    /\ run = [t \in Tasks |-> "none"]
    /\ closing = 0 /\ lease = FALSE /\ waiting = "no"
    /\ thread = [c \in Callers \cup {Loop} |-> Idle]
    /\ applier = "idle" /\ calls = 0

-----------------------------------------------------------------------------
(***************************************************************************)
(* Controller::runLoop.  Time is abstracted away: next_run only orders the *)
(* queue, so any queued task may be the one that is due (or interrupted).  *)
(***************************************************************************)
Pop(t) ==
    /\ popped = NoTask /\ thread[Loop] = Idle
    /\ t \in queue
    /\ queue' = queue \ {t}
    /\ popped' = t
    /\ UNCHANGED <<engines, leases, threads, taskMap, pool, task, run, closing>>

Submit ==
    /\ popped # NoTask
    /\ pool' = IF task[popped].interrupted THEN pool ELSE pool \cup {popped}
    /\ popped' = NoTask
    /\ UNCHANGED <<engines, leases, threads, taskMap, queue, run, closing>>
    /\ Collect(task)

-----------------------------------------------------------------------------
(***************************************************************************)
(* A pass on a worker of the sync pool: Cloud::operator() and              *)
(* Local::operator().                                                      *)
(***************************************************************************)
\* A regular pass of an S3 vault takes the lease or finds it taken; runScoped took the
\* lease of a scoped pass before it submitted it.
Take(t) ==
    /\ t \in pool
    /\ pool' = pool \ {t}
    /\ IF S3 /\ ~task[t].scoped /\ lease
         THEN /\ run' = [run EXCEPT ![t] = "denied"]
              /\ UNCHANGED lease
         ELSE /\ run' = [run EXCEPT ![t] = "entered"]
              /\ lease' = S3
    /\ UNCHANGED <<engines, threads, taskMap, queue, popped, task, closing, waiting>>

\* Mutant: the lease guard is destroyed on the early return as well.
DeniedReleases(t) ==
    /\ run[t] = "denied"
    /\ run' = [run EXCEPT ![t] = "none"]
    /\ waiting' = IF waiting = "no" THEN "fresh" ELSE waiting
    /\ queue' = queue \cup {t}
    /\ lease' = FALSE
    /\ UNCHANGED <<engines, threads, taskMap, popped, pool, task, closing>>

Denied(t) ==
    /\ run[t] = "denied"
    /\ run' = [run EXCEPT ![t] = "none"]
    /\ waiting' = IF waiting = "no" THEN "fresh" ELSE waiting
    /\ queue' = queue \cup {t}
    /\ UNCHANGED <<engines, threads, taskMap, popped, pool, task, closing, lease>>

\* clearRegularWaiting, then startTask.
StartTask(t) ==
    /\ run[t] = "entered"
    /\ run' = [run EXCEPT ![t] = "starting"]
    /\ task' = [task EXCEPT ![t] = SetRunning(task[t], TRUE)]
    /\ waiting' = IF task[t].scoped THEN waiting ELSE "no"
    /\ UNCHANGED <<engines, places, threads, closing, lease>>

\* reportSyncStarted throws, or saveSyncEvent after newEvent: the pool swallows it, the
\* lease guard releases, runningFlag stays set.
StartFails(t) ==
    /\ "start fails" \in Admit
    /\ run[t] \in {"starting", "working"}
    /\ run' = [run EXCEPT ![t] = "none"]
    /\ closing' = IF S3 THEN closing + 1 ELSE closing
    /\ UNCHANGED <<engines, places, leases, threads>>
    /\ Collect(task)

\* newEvent consumes a pending request, then the stages run.
NewEvent(t) ==
    /\ run[t] = "starting"
    /\ run' = [run EXCEPT ![t] = "working"]
    /\ task' = [task EXCEPT ![t] = SetAsked(task[t], FALSE)]
    /\ UNCHANGED <<engines, places, leases, threads, closing>>

\* The last stage ends; handleInterrupt turns an interrupt into an error.
Work(t) ==
    /\ run[t] = "working"
    /\ \E status \in {"success", "error"} :
         /\ task[t].interrupted => status = "error"
         /\ status = "error" => task[t].interrupted \/ "pass fails" \in Admit
         /\ run' = [run EXCEPT ![t] = status]
    /\ UNCHANGED <<engines, places, leases, threads, task, closing>>

\* shutdown: the running flag first; only a successful regular pass goes on to requeue.
Shutdown(t) ==
    /\ run[t] \in {"success", "error"}
    /\ IF run[t] = "success" /\ ~task[t].scoped
         THEN /\ run' = [run EXCEPT ![t] = "requeueing"]
              /\ UNCHANGED closing
         ELSE /\ run' = [run EXCEPT ![t] = "none"]
              /\ closing' = IF S3 THEN closing + 1 ELSE closing
    /\ UNCHANGED <<engines, places, leases, threads>>
    /\ Collect([task EXCEPT ![t] = SetRunning(task[t], FALSE)])

Requeue(t) ==
    /\ run[t] = "requeueing"
    /\ run' = [run EXCEPT ![t] = "none"]
    /\ queue' = queue \cup {t}
    /\ closing' = IF S3 THEN closing + 1 ELSE closing
    /\ UNCHANGED <<engines, leases, threads, taskMap, popped, pool, task>>

\* Mutant: the pass releases its lease and so does its guard.
ReleasePassTwice ==
    /\ closing > 0
    /\ closing' = closing - 2
    /\ lease' = FALSE
    /\ UNCHANGED <<engines, places, threads, task, run, waiting>>

\* ~PassLease.
ReleasePass ==
    /\ closing > 0
    /\ closing' = closing - 1
    /\ lease' = FALSE
    /\ UNCHANGED <<engines, places, threads, task, run, waiting>>

-----------------------------------------------------------------------------
(***************************************************************************)
(* refreshEngines, called by the run loop, by runNow for a vault without a *)
(* task, and after an operation on the engine.  The engines are read       *)
(* first; pruneStaleTasks and processTask then work on that list.          *)
(***************************************************************************)
Refreshing(c, next, e) ==
    thread' = [thread EXCEPT ![c] = At(next, NoTask, e)]

LoopRefresh ==
    /\ thread[Loop] = Idle /\ popped = NoTask
    /\ Refreshing(Loop, "refresh", engine)
    /\ UNCHANGED <<engines, places, leases, task, run, closing, applier, calls>>

Serves(t, e) == t # NoTask /\ task[t].engine = e

ApplyRefresh(c) ==
    /\ thread[c].pc \in {"refresh", "refresh, then look"}
    /\ thread' = [thread EXCEPT ![c] =
                    IF thread[c].pc = "refresh" THEN Idle ELSE At("look again", NoTask, NoEngine)]
    /\ LET e == thread[c].engine
           old == taskMap
           stopped == IF old = NoTask THEN task
                      ELSE [task EXCEPT ![old] = Interrupted(task[old])]
       IN \/ /\ e = NoEngine                                 \* pruneStaleTasks
             /\ taskMap' = NoTask
             /\ UNCHANGED <<engines, leases, queue, popped, pool, run, closing, applier, calls>>
             /\ Collect(task)
          \/ /\ e # NoEngine /\ e \notin on                  \* processTask
             /\ taskMap' = NoTask
             /\ UNCHANGED <<engines, leases, queue, popped, pool, run, closing, applier, calls>>
             /\ Collect(stopped)
          \/ /\ e \in on /\ Serves(old, e)
             /\ UNCHANGED <<engines, places, leases, run, closing, applier, calls>>
             /\ Collect(task)
          \/ /\ e \in on /\ ~Serves(old, e)
             /\ UNCHANGED <<engines, leases, popped, pool, run, closing, applier, calls>>
             /\ \E t \in Free :
                  /\ taskMap' = t
                  /\ queue' = queue \cup {t}
                  /\ Collect([stopped EXCEPT ![t] = Created(e, FALSE, FALSE)])

\* pushSyncToEngine, retireVault and reinstateVault refresh; removeVault, reloadEngine and
\* updateVault leave it to the run loop.
ChangeEngine(c) ==
    /\ thread[c] = Idle /\ calls < MaxCalls
    /\ calls' = calls + 1
    /\ \/ /\ "sync switched" \in Admit /\ engine # NoEngine
          /\ on' = IF engine \in on THEN on \ {engine} ELSE on \cup {engine}
          /\ UNCHANGED engine
          /\ Refreshing(c, "refresh", engine)
       \/ /\ "vault retires" \in Admit /\ engine # NoEngine
          /\ engine' = NoEngine
          /\ UNCHANGED on
          /\ Refreshing(c, "refresh", NoEngine) \/ UNCHANGED thread
       \/ \E e \in Engines \ {engine} :
            /\ \A t \in Referenced : task[t].engine # e
            /\ \A d \in Callers \cup {Loop} : thread[d].engine # e
            /\ engine' = e
            /\ \/ /\ engine = NoEngine
                  /\ on' = on \cup {e}
                  /\ Refreshing(c, "refresh", e)
               \/ /\ "engine changes" \in Admit /\ engine # NoEngine
                  /\ on' = IF engine \in on THEN on \cup {e} ELSE on \ {e}
                  /\ UNCHANGED thread
    /\ UNCHANGED <<places, leases, task, run, closing, applier>>

-----------------------------------------------------------------------------
(***************************************************************************)
(* Controller::runNow.  The lock on the task map is released between the   *)
(* lookup, the look at isRunning and the replacement.                      *)
(***************************************************************************)
Found(c) == thread' = [thread EXCEPT ![c] = At("found", taskMap, NoEngine)]

RunNow(c) ==
    /\ thread[c] = Idle /\ calls < MaxCalls
    /\ calls' = calls + 1
    /\ IF taskMap # NoTask THEN Found(c) ELSE Refreshing(c, "refresh, then look", engine)
    /\ UNCHANGED <<engines, places, task, run, closing, leases, applier>>

LookAgain(c) ==
    /\ thread[c].pc = "look again"
    /\ IF taskMap # NoTask THEN Found(c) ELSE thread' = [thread EXCEPT ![c] = Idle]
    /\ UNCHANGED <<engines, places, task, run, closing, leases, applier, calls>>

AskRunning(c) ==
    /\ thread[c].pc = "found"
    /\ thread' = [thread EXCEPT ![c] =
                    At(IF task[thread[c].task].running THEN "rerun" ELSE "replace",
                       thread[c].task, NoEngine)]
    /\ UNCHANGED <<engines, places, leases, task, run, closing, applier, calls>>

\* Mutant: runNow queues the running task itself instead of leaving that to shutdown.
RerunQueues(c) ==
    /\ thread[c].pc = "rerun"
    /\ thread' = [thread EXCEPT ![c] = Idle]
    /\ queue' = queue \cup {thread[c].task}
    /\ UNCHANGED <<engines, leases, taskMap, popped, pool, run, closing, applier, calls>>
    /\ LET t == thread[c].task
       IN  Collect([task EXCEPT ![t] = SetAsked(task[t], TRUE)])

Rerun(c) ==
    /\ thread[c].pc = "rerun"
    /\ thread' = [thread EXCEPT ![c] = Idle]
    /\ UNCHANGED <<engines, places, leases, run, closing, applier, calls>>
    /\ LET t == thread[c].task
       IN  Collect([task EXCEPT ![t] = SetAsked(task[t], TRUE)])

Interrupt(c) ==
    /\ thread[c].pc = "replace"
    /\ thread' = [thread EXCEPT ![c] = At("publish", thread[c].task, NoEngine)]
    /\ LET t == thread[c].task IN task' = [task EXCEPT ![t] = Interrupted(task[t])]
    /\ UNCHANGED <<engines, places, leases, run, closing, applier, calls>>

\* Mutant: the replacement is entered in the task map and not pushed.
PublishUnqueued(c) ==
    /\ thread[c].pc = "publish"
    /\ thread' = [thread EXCEPT ![c] = Idle]
    /\ UNCHANGED <<engines, leases, queue, popped, pool, run, closing, applier, calls>>
    /\ \E t \in Free :
         /\ taskMap' = t
         /\ Collect([task EXCEPT ![t] = Created(task[thread[c].task].engine, FALSE, TRUE)])

Publish(c) ==
    /\ thread[c].pc = "publish"
    /\ thread' = [thread EXCEPT ![c] = Idle]
    /\ UNCHANGED <<engines, leases, popped, pool, run, closing, applier, calls>>
    /\ \E t \in Free :
         /\ taskMap' = t
         /\ queue' = queue \cup {t}
         /\ Collect([task EXCEPT ![t] = Created(task[thread[c].task].engine, FALSE, TRUE)])

-----------------------------------------------------------------------------
(***************************************************************************)
(* Applier::applyVault and schedule: a batch of events under the lease,    *)
(* then, without it, runScoped.                                            *)
(***************************************************************************)
\* Mutant: the applier does not yield.
ApplyVaultGreedy ==
    /\ S3 /\ applier = "idle" /\ engine # NoEngine
    /\ applier' = "looked"
    /\ UNCHANGED <<engines, places, task, run, closing, leases, thread, calls>>

\* It yields to a waiting regular pass, and only then tries the lease.
ApplyVault ==
    /\ S3 /\ applier = "idle" /\ engine # NoEngine
    /\ waiting # "fresh"
    /\ applier' = "looked"
    /\ UNCHANGED <<engines, places, task, run, closing, leases, thread, calls>>

ApplyLease ==
    /\ applier = "looked"
    /\ applier' = IF lease THEN "idle" ELSE "applying"
    /\ lease' = TRUE
    /\ UNCHANGED <<engines, places, task, run, closing, waiting, thread, calls>>

Applied ==
    /\ applier = "applying"
    /\ lease' = FALSE
    /\ applier' \in {"idle", "scheduling"}
    /\ UNCHANGED <<engines, places, task, run, closing, waiting, thread, calls>>

RunScoped ==
    /\ applier = "scheduling"
    /\ applier' = "idle"
    /\ IF engine \in on /\ ~lease
         THEN \E t \in Free :
                /\ lease' = TRUE
                /\ pool' = pool \cup {t}
                /\ task' = [task EXCEPT ![t] = Created(engine, TRUE, TRUE)]
         ELSE UNCHANGED <<lease, pool, task>>            \* NoEngine, Disabled or Busy
    /\ UNCHANGED <<engines, taskMap, queue, popped, run, closing, waiting, thread, calls>>

\* kRegularWaitBound passes since the mark was set.
Expire ==
    /\ "mark expires" \in Admit
    /\ waiting = "fresh"
    /\ waiting' = "old"
    /\ UNCHANGED <<engines, places, threads, task, run, closing, lease>>

-----------------------------------------------------------------------------
PassStep(t) ==
    \/ Take(t) \/ Denied(t) \/ StartTask(t) \/ StartFails(t) \/ NewEvent(t) \/ Work(t)
    \/ Shutdown(t) \/ Requeue(t)

CallStep(c) ==
    \/ ApplyRefresh(c) \/ LookAgain(c)
    \/ AskRunning(c) \/ Rerun(c) \/ Interrupt(c) \/ Publish(c)

LoopStep == Submit \/ (\E t \in Tasks : Pop(t))
ApplierStep == ApplyVault \/ ApplyLease \/ Applied \/ RunScoped

Next ==
    \/ \E t \in Tasks : PassStep(t)
    \/ LoopStep \/ LoopRefresh \/ ApplyRefresh(Loop) \/ ReleasePass
    \/ \E c \in Callers : ChangeEngine(c) \/ RunNow(c) \/ CallStep(c)
    \/ ApplierStep \/ Expire

Spec == Init /\ [][Next]_vars

(***************************************************************************)
(* Fairness: every thread takes its next step, time passes, the run loop   *)
(* refreshes (every five minutes, and while pq is empty).  Nobody has to   *)
(* call runNow and events need not come.  The run loop pops and refreshes  *)
(* in turn, so both are strong.                                            *)
(***************************************************************************)
Fairness ==
    /\ \A t \in Tasks : WF_vars(PassStep(t)) /\ SF_vars(Pop(t))
    /\ WF_vars(Submit) /\ WF_vars(ReleasePass)
    /\ SF_vars(LoopRefresh) /\ WF_vars(ApplyRefresh(Loop))
    /\ \A c \in Callers : WF_vars(CallStep(c))
    /\ WF_vars(ApplyLease \/ Applied \/ RunScoped)

FairSpec == Spec /\ Fairness

-----------------------------------------------------------------------------
RunPcs == {"none", "denied", "entered", "starting", "working", "success", "error",
           "requeueing"}
ThreadPcs == {"idle", "refresh", "refresh, then look", "look again", "found", "rerun",
              "replace", "publish"}

\* Every variable has its type; in particular no more leases are given back than were taken.
TypeOK ==
    /\ engine \in Engines \cup {NoEngine} /\ on \subseteq Engines
    /\ taskMap \in Tasks \cup {NoTask} /\ popped \in Tasks \cup {NoTask}
    /\ queue \subseteq Tasks /\ pool \subseteq Tasks
    /\ task \in [Tasks -> TaskRecs] /\ run \in [Tasks -> RunPcs]
    /\ closing \in Nat /\ lease \in BOOLEAN /\ waiting \in {"no", "fresh", "old"}
    /\ thread \in [Callers \cup {Loop} -> [pc : ThreadPcs, task : Tasks \cup {NoTask},
                                           engine : Engines \cup {NoEngine}]]
    /\ applier \in {"idle", "looked", "applying", "scheduling"} /\ calls \in 0 .. MaxCalls

\* The passes that are inside their lease.
Leased == {t \in Running : run[t] # "denied"} \cup {t \in pool : task[t].scoped}

\* "One pass per vault at a time, regular or scoped" (Controller.hpp): for an S3 vault the
\* lease is held exactly while one pass, or the applier, works on the vault, whatever is
\* replaced, retired or requeued meanwhile, and nobody releases a lease they do not hold.
OneLeaseHolder ==
    S3 => /\ \A s, t \in Leased : s = t
          /\ closing \in {0, 1}
          /\ Leased # {} => closing = 0 /\ applier # "applying"
          /\ applier = "applying" => closing = 0
          /\ lease <=> (Leased # {} \/ closing = 1 \/ applier = "applying")

\* A task object is in at most one place: it is never queued twice and no worker runs it
\* while it is queued (two workers in one task would share its event and futures).
InOnePlace ==
    /\ queue \cap pool = {} /\ Running \cap (queue \cup pool) = {}
    /\ popped \notin queue \cup pool \cup Running

Owed == taskMap # NoTask /\ task[taskMap].asked

\* A run request is served: once requests stop coming, a pass starts after the last one
\* ("Started", "Rerun" of RunNowResult).
RunNowServed == []<>~Owed

\* "sustained event traffic cannot starve uploads, trash purge and rotation"
\* (Controller.hpp): a regular pass that found the lease taken gets it in the end, as long
\* as the vault has a task.
RegularPassRuns ==
    \/ []<>(waiting = "no")
    \/ []<>(taskMap = NoTask)

\* "The sync controller drops the vault's task once its engine is gone" (Manager.cpp):
\* after the refresh nothing is left that would start another pass.
TaskDroppedWithEngine ==
    engine = NoEngine /\ taskMap = NoTask /\ (\A c \in Callers \cup {Loop} : thread[c] = Idle) =>
        \A t \in queue \cup pool : task[t].interrupted \/ task[t].scoped
=============================================================================
