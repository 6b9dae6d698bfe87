------------------------------ MODULE SyncPool ------------------------------
(***************************************************************************)
(* The sync thread pool (concurrency::ThreadPool) and the passes that run  *)
(* on it.  A pass is a task of the pool; while it runs it hands batches of *)
(* further tasks to the same pool and blocks its worker until their        *)
(* futures are settled.  Local::push and processFutures are one such batch *)
(* (transfers and deletes), rotateFilesOnSyncPool is the other one         *)
(* (RotateKey ranges), which also keeps a reference to its tasks.          *)
(*                                                                         *)
(* Threads: the workers, the scheduler that submits passes, and the thread *)
(* that stops the pool.  Nothing relates the number of workers, which      *)
(* comes from the hardware, to the number of passes: every vault may have  *)
(* one, and a local vault, which takes no lease, more than one.            *)
(***************************************************************************)
EXTENDS Naturals, Sequences, FiniteSets

CONSTANTS
    Workers,     \* the threads of the sync pool
    Passes,      \* bound: the passes that are in the pool at once
    MaxParts,    \* bound: tasks of one batch
    MaxBatches,  \* bound: batches of one pass
    Idle,        \* a worker that waits for work,
    Returning,   \* one between a job and its next turn of the loop,
    Gone,        \* and one that has left the loop
    Admit        \* which of PoolEvents this instance lets happen

PoolEvents ==
    {"stop",           \* requestStop, at shutdown
     "cut rotation"}   \* requestStop while a pass rotates, or a rotation after it

Parts == 1..MaxParts
Jobs == Passes \X (0..MaxParts)

ASSUME PoolAssumption ==
    /\ IsFiniteSet(Workers) /\ Workers # {}
    /\ IsFiniteSet(Passes)
    /\ MaxParts \in Nat \ {0} /\ MaxBatches \in Nat
    /\ Idle # Returning /\ Idle # Gone /\ Returning # Gone
    /\ Jobs \cap {Idle, Returning, Gone} = {}
    /\ Admit \subseteq PoolEvents

VARIABLES
    queue,     \* State::queue
    worker,    \* what each worker is doing: its job, or why it has none
    pass,      \* how far each pass is
    future,    \* the futures of its current batch
    stopping,  \* State::stopping
    dropped    \* what requestStop took off the queue and has not destroyed yet

vars == <<queue, worker, pass, future, stopping, dropped>>

PassJob(p) == <<p, 0>>

(* The fields of a pass.  `held`: its batch keeps its tasks alive itself.  *)
PassRec(pc, held, left) == [pc |-> pc, held |-> held, left |-> left]
Off == PassRec("off", FALSE, 0)
At(p, pc) == pass' = [pass EXCEPT ![p] = PassRec(pc, @.held, @.left)]

NoFutures == [i \in Parts |-> "none"]
Settled(p) == \A i \in Parts : future[p][i] \in {"none", "ready", "broken"}
Rotating(p) == pass[p].held /\ pass[p].pc \in {"submitting", "waiting"}

Init ==
    /\ queue = <<>>
    /\ worker = [w \in Workers |-> Idle]
    /\ pass = [p \in Passes |-> Off]
    /\ future = [p \in Passes |-> NoFutures]
    /\ stopping = FALSE
    /\ dropped = {}

-----------------------------------------------------------------------------
(* The scheduler hands over a pass: Controller::runLoop and runScoped.     *)
(* submit drops what it is given once the pool is stopping.                *)
Schedule(p) ==
    /\ pass[p].pc = "off" /\ ~stopping
    /\ queue' = Append(queue, PassJob(p))
    /\ pass' = [pass EXCEPT ![p] = PassRec("queued", FALSE, MaxBatches)]
    /\ UNCHANGED <<worker, future, stopping, dropped>>

(* workerLoop: the worker takes the head of the queue ...                  *)
Take(w) ==
    /\ worker[w] = Idle /\ ~stopping /\ queue # <<>>
    /\ worker' = [worker EXCEPT ![w] = Head(queue)]
    /\ queue' = Tail(queue)
    /\ IF Head(queue)[2] = 0 THEN At(Head(queue)[1], "running") ELSE UNCHANGED pass
    /\ UNCHANGED <<future, stopping, dropped>>

(* ... comes back for the next one whatever the job did ...                *)
Return(w) ==
    /\ worker[w] = Returning
    /\ worker' = [worker EXCEPT ![w] = Idle]
    /\ UNCHANGED <<queue, pass, future, stopping, dropped>>

(* ... or leaves the loop once the pool is stopping.                       *)
Exit(w) ==
    /\ worker[w] = Idle /\ stopping
    /\ worker' = [worker EXCEPT ![w] = Gone]
    /\ UNCHANGED <<queue, pass, future, stopping, dropped>>

-----------------------------------------------------------------------------
(* A running pass starts a batch of n tasks.                               *)
BeginBatch(w, p) ==
    /\ worker[w] = PassJob(p) /\ pass[p].pc = "running" /\ pass[p].left > 0
    /\ \E held \in BOOLEAN, n \in Parts :
         /\ held /\ stopping => "cut rotation" \in Admit
         /\ pass' = [pass EXCEPT ![p] = PassRec("submitting", held, @.left - 1)]
         /\ future' = [future EXCEPT ![p] = [i \in Parts |-> IF i <= n THEN "unsent" ELSE "none"]]
    /\ UNCHANGED <<queue, worker, stopping, dropped>>

(* Its next task goes to the pool.  A stopping pool drops the task: that   *)
(* destroys it, and breaks its promise, unless the batch holds it.         *)
SubmitPart(w, p) ==
    /\ worker[w] = PassJob(p) /\ pass[p].pc = "submitting"
    /\ \E i \in Parts :
         /\ future[p][i] = "unsent" /\ \A j \in Parts : j < i => future[p][j] # "unsent"
         /\ queue' = IF stopping THEN queue ELSE Append(queue, <<p, i>>)
         /\ future' = [future EXCEPT ![p][i] = IF stopping /\ ~pass[p].held THEN "broken" ELSE "pending"]
    /\ IF \E i \in Parts : future'[p][i] = "unsent" THEN UNCHANGED pass ELSE At(p, "waiting")
    /\ UNCHANGED <<worker, stopping, dropped>>

(* A pass that waits for its first future only: a mutant of EndBatch.      *)
EndBatchEarly(w, p) ==
    /\ worker[w] = PassJob(p) /\ pass[p].pc = "waiting" /\ future[p][1] \in {"ready", "broken"}
    /\ pass' = [pass EXCEPT ![p] = PassRec("running", FALSE, @.left)]
    /\ future' = [future EXCEPT ![p] = NoFutures]
    /\ UNCHANGED <<queue, worker, stopping, dropped>>

(* The futures are all settled: the pass goes on.                          *)
EndBatch(w, p) ==
    /\ worker[w] = PassJob(p) /\ pass[p].pc = "waiting" /\ Settled(p)
    /\ pass' = [pass EXCEPT ![p] = PassRec("running", FALSE, @.left)]
    /\ future' = [future EXCEPT ![p] = NoFutures]
    /\ UNCHANGED <<queue, worker, stopping, dropped>>

(* The pass ends, normally or by an exception that workerLoop catches.     *)
Finish(w, p) ==
    /\ worker[w] = PassJob(p) /\ pass[p].pc = "running"
    /\ pass' = [pass EXCEPT ![p] = Off]
    /\ worker' = [worker EXCEPT ![w] = Returning]
    /\ UNCHANGED <<queue, future, stopping, dropped>>

(* A task that leaves its promise unset on an error: a mutant of RunPart.  *)
RunPartSilent(w, p) ==
    \E i \in Parts, outcome \in {"ready", "pending"} :
      /\ worker[w] = <<p, i>>
      /\ future' = [future EXCEPT ![p][i] = outcome]
      /\ worker' = [worker EXCEPT ![w] = Returning]
      /\ UNCHANGED <<queue, pass, stopping, dropped>>

(* A task of a batch runs: RotateKey, Upload, Download and Delete all set  *)
(* their promise, to false when they fail.                                 *)
RunPart(w, p) ==
    \E i \in Parts :
      /\ worker[w] = <<p, i>>
      /\ future' = [future EXCEPT ![p][i] = "ready"]
      /\ worker' = [worker EXCEPT ![w] = Returning]
      /\ UNCHANGED <<queue, pass, stopping, dropped>>

-----------------------------------------------------------------------------
(* requestStop takes the queue away under the lock ...                     *)
RequestStop ==
    /\ "stop" \in Admit /\ ~stopping
    /\ (\E p \in Passes : Rotating(p)) => "cut rotation" \in Admit
    /\ stopping' = TRUE
    /\ dropped' = {queue[i] : i \in DOMAIN queue}
    /\ queue' = <<>>
    /\ UNCHANGED <<worker, pass, future>>

DroppedPart(p, i) == <<p, i>> \in dropped /\ ~pass[p].held

(* A pool that keeps the dropped tasks: a mutant of Destroy.               *)
DestroyLate ==
    /\ dropped # {}
    /\ pass' = [p \in Passes |-> IF PassJob(p) \in dropped THEN Off ELSE pass[p]]
    /\ dropped' = {}
    /\ UNCHANGED <<queue, worker, future, stopping>>

(* ... and destroys it outside the lock.  The destructor of a promise that *)
(* was not set breaks it, but a task its batch still holds is not          *)
(* destroyed.                                                              *)
Destroy ==
    /\ dropped # {}
    /\ pass' = [p \in Passes |-> IF PassJob(p) \in dropped THEN Off ELSE pass[p]]
    /\ future' = [p \in Passes |-> [i \in Parts |->
                    IF DroppedPart(p, i) THEN "broken" ELSE future[p][i]]]
    /\ dropped' = {}
    /\ UNCHANGED <<queue, worker, stopping>>

-----------------------------------------------------------------------------
PassStep(w, p) == BeginBatch(w, p) \/ SubmitPart(w, p) \/ EndBatch(w, p) \/ Finish(w, p)

WorkerStep(w) ==
    \/ Take(w) \/ Return(w) \/ Exit(w)
    \/ \E p \in Passes : PassStep(w, p) \/ RunPart(w, p)

Next ==
    \/ \E p \in Passes : Schedule(p)
    \/ \E w \in Workers : WorkerStep(w)
    \/ RequestStop
    \/ Destroy

Spec == Init /\ [][Next]_vars

(* The workers are threads that run whenever they are not blocked, and the *)
(* thread in requestStop finishes it.  That passes end and tasks end is    *)
(* the work they do, whose provider requests have timeouts.                *)
Fairness ==
    /\ \A w \in Workers : WF_vars(WorkerStep(w))
    /\ WF_vars(Destroy)

FairSpec == Spec /\ Fairness

-----------------------------------------------------------------------------
PassPcs == {"off", "queued", "running", "submitting", "waiting"}
PassRecs == [pc : PassPcs, held : BOOLEAN, left : 0..MaxBatches]

TypeOK ==
    /\ queue \in Seq(Jobs)
    /\ worker \in [Workers -> Jobs \cup {Idle, Returning, Gone}]
    /\ pass \in [Passes -> PassRecs]
    /\ future \in [Passes -> [Parts -> {"none", "unsent", "pending", "ready", "broken"}]]
    /\ stopping \in BOOLEAN
    /\ dropped \subseteq Jobs

Batching(p) == pass[p].pc \in {"submitting", "waiting"}

(* What the passes know of a job that is queued, and of one that runs.     *)
Queued(j) == IF j[2] = 0 THEN pass[j[1]].pc = "queued" ELSE future[j[1]][j[2]] = "pending"
Started(j) == IF j[2] = 0 THEN Batching(j[1]) \/ pass[j[1]].pc = "running"
                          ELSE future[j[1]][j[2]] = "pending"

QueueInv == \A k \in DOMAIN queue :
    /\ Queued(queue[k])
    /\ \A l \in DOMAIN queue : queue[k] = queue[l] => k = l
    /\ \A w \in Workers : worker[w] # queue[k]

WorkerInv == \A w \in Workers :
    /\ worker[w] \in Jobs => Started(worker[w])
    /\ \A u \in Workers : worker[w] \in Jobs /\ worker[u] = worker[w] => u = w
    /\ worker[w] = Gone => stopping

DroppedInv ==
    /\ \A j \in dropped : Queued(j) /\ (\A w \in Workers : worker[w] # j)
    /\ stopping => queue = <<>>
    /\ ~stopping => dropped = {}

FutureInv == \A p \in Passes, i \in Parts : future[p][i] # "none" => Batching(p)

(* A task is in one place: once in the queue, with one worker, or among    *)
(* the ones requestStop took away; and whoever waits for it knows it as    *)
(* such.  In particular a pass never goes on to its next batch, and never  *)
(* ends, while a task of its last one is still queued or runs: those tasks *)
(* use the engine and the sync event of the pass (Local.cpp:202).          *)
PoolInv == TypeOK /\ QueueInv /\ WorkerInv /\ DroppedInv /\ FutureInv

Waits(w) == \E p \in Passes : worker[w] = PassJob(p) /\ pass[p].pc = "waiting" /\ ~Settled(p)

Waiting(p, i) == future[p][i] = "pending" /\ \E k \in DOMAIN queue : queue[k] = <<p, i>>

(* The circle a pool can end in: every worker is blocked in a pass, and    *)
(* what the passes wait for is queued behind them.                         *)
Stuck ==
    /\ ~stopping
    /\ \A w \in Workers : Waits(w)
    /\ \A p \in Passes, i \in Parts : future[p][i] = "pending" => Waiting(p, i)

(* Every pass that is handed to the pool ends, although it occupies one of *)
(* the workers its own tasks need, or is dropped by a pool that stops; the *)
(* one thing that can keep it is a pool whose workers all wait for tasks   *)
(* queued behind them (Local.cpp processFutures, rotateFilesOnSyncPool).   *)
PassFinishes == \A p \in Passes : (pass[p].pc # "off") ~> (pass[p].pc = "off" \/ Stuck)

(* Such a pool does not come out of it by itself: until requestStop no     *)
(* worker moves, no future is settled and nothing leaves the queue,        *)
(* whatever else is scheduled.                                             *)
StuckUntilStopped ==
    [][Stuck => stopping' \/ (Stuck' /\ UNCHANGED <<worker, future>>)]_vars

(* Every worker leaves its loop after requestStop, the ones that wait for  *)
(* a future included: join() has nobody to detach.                         *)
StopDrains == stopping ~> (\A w \in Workers : worker[w] = Gone)

(* ThreadPool.hpp calls the pool a set of workers draining one task queue: *)
(* what is queued is taken.  It fails once as many passes as there are     *)
(* workers wait for their own tasks.                                       *)
QueueDrains == \A p \in Passes, i \in 0..MaxParts :
    LET queued == \E k \in DOMAIN queue : queue[k] = <<p, i>>
    IN  queued ~> ~queued
=============================================================================
