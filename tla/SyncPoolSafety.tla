--------------------------- MODULE SyncPoolSafety ---------------------------
(***************************************************************************)
(* Proofs about SyncPool for every number of workers and passes: PoolInv   *)
(* is inductive, and a pool whose workers all wait for tasks queued behind *)
(* them stays so until it is stopped.                                      *)
(***************************************************************************)
EXTENDS SyncPool, TLAPS

\* Zenon is the prover of a leaf that names none.
USE ZenonT(120)

\* What ThreadPool::submit does to the queue.
LEMMA AppendFacts ==
    ASSUME NEW S, NEW s \in Seq(S), NEW e \in S
    PROVE  /\ Append(s, e) \in Seq(S)
           /\ DOMAIN s = 1..Len(s) /\ Len(s) \in Nat
           /\ DOMAIN Append(s, e) = 1..(Len(s) + 1)
           /\ \A k \in 1..Len(s) : Append(s, e)[k] = s[k]
           /\ Append(s, e)[Len(s) + 1] = e
  BY SMTT(60)

\* What the front() and pop() of workerLoop do to it.
LEMMA TailFacts ==
    ASSUME NEW S, NEW s \in Seq(S), s # <<>>
    PROVE  /\ Tail(s) \in Seq(S) /\ Head(s) \in S /\ Head(s) = s[1]
           /\ DOMAIN s = 1..Len(s) /\ Len(s) \in Nat /\ 1 \in DOMAIN s
           /\ DOMAIN Tail(s) = 1..(Len(s) - 1)
           /\ \A k \in 1..(Len(s) - 1) : Tail(s)[k] = s[k + 1] /\ k + 1 \in DOMAIN s /\ k + 1 # 1
  BY SMTT(60)

\* A job is a pass and a part, and the part is 0 for the pass itself.
LEMMA JobFacts ==
    /\ \A p \in Passes : PassJob(p) \in Jobs /\ PassJob(p)[1] = p /\ PassJob(p)[2] = 0
    /\ \A p \in Passes, i \in Parts : <<p, i>> \in Jobs /\ i # 0
    /\ \A j \in Jobs : j[1] \in Passes /\ (j[2] = 0 \/ j[2] \in Parts) /\ j = <<j[1], j[2]>>
    /\ Idle \notin Jobs /\ Returning \notin Jobs /\ Gone \notin Jobs
    /\ Idle # Gone /\ Returning # Gone
  BY PoolAssumption, SMTT(60) DEF Jobs, Parts, PassJob

\* A pass and a part make one job.
LEMMA SameJob ==
    ASSUME NEW i \in Jobs, NEW j \in Jobs, i[1] = j[1], i[2] = j[2]
    PROVE  i = j
  BY SMTT(60) DEF Jobs

\* The fields of a pass.
LEMMA RecFacts ==
    /\ \A pc \in PassPcs, held \in BOOLEAN, left \in 0..MaxBatches :
         /\ PassRec(pc, held, left) \in PassRecs
         /\ PassRec(pc, held, left).pc = pc
    /\ \A r \in PassRecs : r.held \in BOOLEAN /\ r.left \in 0..MaxBatches
    /\ 0 \in 0..MaxBatches /\ MaxBatches \in 0..MaxBatches
    /\ Off \in PassRecs /\ Off.pc = "off"
  BY PoolAssumption, SMTT(60) DEF PassRec, PassRecs, PassPcs, Off

\* The constructor starts every worker with an empty queue.
LEMMA InitInv == Init => PoolInv
<1> SUFFICES ASSUME Init PROVE PoolInv
  OBVIOUS
<1>1. TypeOK
  <2>1. queue \in Seq(Jobs)
    BY SMTT(60) DEF Init
  <2>5. stopping \in BOOLEAN /\ dropped \subseteq Jobs
    BY DEF Init
  <2>2. worker \in [Workers -> Jobs \cup {Idle, Returning, Gone}]
    BY DEF Init
  <2>3. pass \in [Passes -> PassRecs]
    BY RecFacts DEF Init
  <2>4. future \in [Passes -> [Parts -> {"none", "unsent", "pending", "ready", "broken"}]]
    BY DEF Init, NoFutures
  <2> QED
    BY <2>1, <2>2, <2>3, <2>4, <2>5 DEF TypeOK
<1>2. QueueInv
  BY SMTT(60) DEF Init, QueueInv
<1>3. WorkerInv
  BY JobFacts DEF Init, WorkerInv
<1>4. DroppedInv
  BY DEF Init, DroppedInv
<1>5. FutureInv
  BY DEF Init, FutureInv, NoFutures
<1> QED
  BY <1>1, <1>2, <1>3, <1>4, <1>5 DEF PoolInv

\* A pass that is queued was idle: its job was nowhere.
LEMMA ScheduleInv ==
    ASSUME PoolInv, NEW p \in Passes, Schedule(p)
    PROVE  PoolInv'
<1> PICK j \in Jobs : j = PassJob(p)
  BY JobFacts
<1>1. /\ queue' = Append(queue, j) /\ j \in Jobs /\ j[1] = p /\ j[2] = 0
      /\ queue \in Seq(Jobs) /\ pass[p].pc = "off" /\ ~stopping
      /\ UNCHANGED <<worker, future, stopping, dropped>>
  BY JobFacts DEF Schedule, PoolInv, TypeOK
<1>2. /\ queue' \in Seq(Jobs) /\ DOMAIN queue = 1..Len(queue) /\ Len(queue) \in Nat
      /\ DOMAIN queue' = 1..(Len(queue) + 1)
      /\ \A k \in 1..Len(queue) : queue'[k] = queue[k]
      /\ queue'[Len(queue) + 1] = j
  BY <1>1, AppendFacts, SMTT(60)
<1>3. /\ pass' \in [Passes -> PassRecs] /\ pass'[p].pc = "queued"
      /\ \A u \in Passes : u # p => pass'[u] = pass[u]
  <2>1. PassRec("queued", FALSE, MaxBatches) \in PassRecs /\ PassRec("queued", FALSE, MaxBatches).pc = "queued"
    BY RecFacts DEF PassPcs
  <2> QED
    BY <2>1 DEF Schedule, PoolInv, TypeOK
<1>4. \A k \in DOMAIN queue : queue[k] \in Jobs
  BY <1>1, SMTT(60)
<1>5. \A k \in DOMAIN queue : queue[k] # j
  BY <1>1, <1>4 DEF PoolInv, QueueInv, Queued
<1>6. \A w \in Workers : worker[w] # j
  BY <1>1, JobFacts DEF PoolInv, WorkerInv, Started, Batching
<1>11. TypeOK'
  BY <1>1, <1>2, <1>3 DEF PoolInv, TypeOK
<1>12. QueueInv'
  <2>1. Queued(j)' /\ (\A k \in DOMAIN queue : Queued(queue[k]))
    BY <1>1, <1>3 DEF PoolInv, QueueInv, Queued
  <2>2. \A i \in Jobs : Queued(i) => Queued(i)'
    BY <1>1, <1>3, JobFacts DEF Queued
  <2>3. \A k, l \in DOMAIN queue' : queue'[k] = queue'[l] => k = l
    BY <1>2, <1>5, SMTT(60) DEF PoolInv, QueueInv
  <2>4. \A k \in DOMAIN queue', w \in Workers : worker'[w] # queue'[k]
    BY <1>1, <1>2, <1>6, SMTT(60) DEF PoolInv, QueueInv
  <2>5. \A k \in DOMAIN queue' : \E i \in Jobs : queue'[k] = i /\ Queued(i)'
    BY <1>2, <1>4, <2>1, <2>2, SMTT(60)
  <2> QED
    BY <2>3, <2>4, <2>5 DEF QueueInv
<1>13. WorkerInv'
  BY <1>1, <1>3, JobFacts DEF PoolInv, TypeOK, WorkerInv, Started, Batching
<1>14. DroppedInv'
  BY <1>1, <1>3 DEF PoolInv, DroppedInv
<1>15. FutureInv'
  BY <1>1, <1>3 DEF PoolInv, FutureInv, Batching
<1> QED
  BY <1>11, <1>12, <1>13, <1>14, <1>15 DEF PoolInv

\* The job a worker takes leaves the queue for that worker.
LEMMA TakeInv ==
    ASSUME PoolInv, NEW w \in Workers, Take(w)
    PROVE  PoolInv'
<1> PICK j \in Jobs : j = Head(queue)
  BY TailFacts DEF Take, PoolInv, TypeOK
<1>1. /\ queue' = Tail(queue) /\ queue \in Seq(Jobs) /\ queue # <<>> /\ ~stopping
      /\ worker' = [worker EXCEPT ![w] = j] /\ worker[w] = Idle
      /\ UNCHANGED <<future, stopping, dropped>>
  BY DEF Take, PoolInv, TypeOK
<1>2. /\ queue' \in Seq(Jobs) /\ j \in Jobs /\ j = queue[1]
      /\ DOMAIN queue = 1..Len(queue) /\ Len(queue) \in Nat /\ 1 \in DOMAIN queue
      /\ DOMAIN queue' = 1..(Len(queue) - 1)
      /\ \A k \in DOMAIN queue' : queue'[k] = queue[k + 1] /\ k + 1 \in DOMAIN queue /\ k + 1 # 1
  BY <1>1, TailFacts
<1>3. /\ pass' \in [Passes -> PassRecs]
      /\ j[2] = 0 => pass'[j[1]].pc = "running" /\ (\A u \in Passes : u # j[1] => pass'[u] = pass[u])
      /\ j[2] # 0 => pass' = pass
  <2>1. CASE j[2] = 0
    <3>1. j[1] \in Passes /\ pass[j[1]] \in PassRecs /\ "running" \in PassPcs
      BY JobFacts DEF PoolInv, TypeOK, PassPcs
    <3>2. pass' = [pass EXCEPT ![j[1]] = PassRec("running", pass[j[1]].held, pass[j[1]].left)]
      BY <2>1 DEF Take, At
    <3> QED
      BY <2>1, <3>1, <3>2, RecFacts, SMTT(60) DEF PoolInv, TypeOK
  <2>2. CASE j[2] # 0
    BY <2>2 DEF Take, PoolInv, TypeOK
  <2> QED
    BY <2>1, <2>2
<1>4. Queued(j) /\ (\A u \in Workers : worker[u] # j) /\ (\A k \in DOMAIN queue' : queue'[k] # j)
  BY <1>2 DEF PoolInv, QueueInv
<1>5. /\ worker'[w] = j /\ (\A u \in Workers : u # w => worker'[u] = worker[u])
      /\ worker' \in [Workers -> Jobs \cup {Idle, Returning, Gone}]
  BY <1>1, <1>2 DEF PoolInv, TypeOK
<1>11. TypeOK'
  BY <1>1, <1>2, <1>3, <1>5 DEF PoolInv, TypeOK
<1>12. QueueInv'
  <2>1. \A i \in Jobs : Queued(i) /\ i # j => Queued(i)'
    <3>1. \A i \in Jobs : i # j => i[1] # j[1] \/ i[2] # j[2]
      BY SameJob
    <3>2. CASE j[2] = 0
      BY <1>1, <1>3, <3>1, <3>2, JobFacts DEF Queued
    <3>3. CASE j[2] # 0
      BY <1>1, <1>3, <3>3 DEF Queued
    <3> QED
      BY <3>2, <3>3
  <2>2. \A k \in DOMAIN queue' : \E i \in Jobs : queue'[k] = i /\ Queued(i)'
    <3>1. \A k \in DOMAIN queue' : queue'[k] \in Jobs /\ Queued(queue[k + 1])
      BY <1>1, <1>2, SMTT(60) DEF PoolInv, QueueInv
    <3> QED
      BY <1>2, <1>4, <2>1, <3>1
  <2>3. \A k, l \in DOMAIN queue' : queue'[k] = queue'[l] => k = l
    BY <1>2, SMTT(60) DEF PoolInv, QueueInv
  <2>4. \A k \in DOMAIN queue', u \in Workers : worker'[u] # queue'[k]
    BY <1>2, <1>4, <1>5, SMTT(60) DEF PoolInv, QueueInv
  <2> QED
    BY <2>2, <2>3, <2>4 DEF QueueInv
<1>13. WorkerInv'
  <2>1. Started(j)'
    BY <1>1, <1>2, <1>3, <1>4, JobFacts DEF Queued, Started
  <2>2. \A i \in Jobs : Started(i) /\ i # j => Started(i)'
    BY <1>1, <1>2, <1>3, <1>4, JobFacts DEF Started, Batching
  <2>3. \A u \in Workers : worker'[u] \in Jobs => \E i \in Jobs : worker'[u] = i /\ Started(i)'
    BY <1>4, <1>5, <2>1, <2>2 DEF PoolInv, WorkerInv
  <2>4. \A t, u \in Workers : worker'[t] \in Jobs /\ worker'[u] = worker'[t] => u = t
    BY <1>4, <1>5 DEF PoolInv, WorkerInv
  <2>5. \A u \in Workers : worker'[u] = Gone => stopping'
    BY <1>1, <1>2, <1>5, JobFacts DEF PoolInv, WorkerInv
  <2> QED
    BY <2>3, <2>4, <2>5 DEF WorkerInv
<1>14. DroppedInv'
  BY <1>1 DEF PoolInv, DroppedInv
<1>15. FutureInv'
  BY <1>1, <1>2, <1>3, <1>4, JobFacts DEF PoolInv, FutureInv, Batching, Queued
<1> QED
  BY <1>11, <1>12, <1>13, <1>14, <1>15 DEF PoolInv

\* A worker that runs nothing changes nothing for the others.
LEMMA IdleStepInv ==
    ASSUME PoolInv, NEW w \in Workers, Return(w) \/ Exit(w)
    PROVE  PoolInv'
<1>1. /\ UNCHANGED <<queue, pass, future, stopping, dropped>>
      /\ worker' \in [Workers -> Jobs \cup {Idle, Returning, Gone}]
      /\ worker'[w] \notin Jobs /\ (\A u \in Workers : u # w => worker'[u] = worker[u])
      /\ worker'[w] = Gone => stopping
  BY JobFacts DEF Return, Exit, PoolInv, TypeOK
<1>2. \A k \in DOMAIN queue : queue[k] \in Jobs
  BY SMTT(60) DEF PoolInv, TypeOK
<1>11. TypeOK'
  BY <1>1 DEF PoolInv, TypeOK
<1>12. QueueInv'
  BY <1>1, <1>2 DEF PoolInv, QueueInv, Queued
<1>13. WorkerInv'
  BY <1>1 DEF PoolInv, WorkerInv, Started, Batching
<1>14. DroppedInv'
  BY <1>1 DEF PoolInv, TypeOK, DroppedInv, Queued
<1>15. FutureInv'
  BY <1>1 DEF PoolInv, FutureInv, Batching
<1> QED
  BY <1>11, <1>12, <1>13, <1>14, <1>15 DEF PoolInv

\* A step that moves no job keeps PoolInv when the jobs in place stay known.
LEMMA StillInv ==
    ASSUME PoolInv, TypeOK', FutureInv', UNCHANGED <<queue, worker, stopping, dropped>>,
           \A j \in Jobs : Queued(j) => Queued(j)',
           \A j \in Jobs : Started(j) => Started(j)'
    PROVE  PoolInv'
<1>1. \A k \in DOMAIN queue : queue[k] \in Jobs
  BY SMTT(60) DEF PoolInv, TypeOK
<1>2. QueueInv'
  BY <1>1 DEF PoolInv, QueueInv
<1>3. WorkerInv'
  BY DEF PoolInv, WorkerInv
<1>4. DroppedInv'
  BY DEF PoolInv, TypeOK, DroppedInv
<1> QED
  BY <1>2, <1>3, <1>4 DEF PoolInv

\* A pass that has no batch has no task of one queued or running.
LEMMA NoPartOut ==
    ASSUME PoolInv, NEW p \in Passes, ~Batching(p), NEW i \in Parts
    PROVE  future[p][i] = "none"
  BY DEF PoolInv, FutureInv

\* A pass that starts a batch has no task of an earlier one anywhere.
LEMMA BeginBatchInv ==
    ASSUME PoolInv, NEW w \in Workers, NEW p \in Passes, BeginBatch(w, p)
    PROVE  PoolInv'
<1>1. PICK held \in BOOLEAN, n \in Parts :
        /\ pass' = [pass EXCEPT ![p] = PassRec("submitting", held, pass[p].left - 1)]
        /\ future' = [future EXCEPT ![p] = [i \in Parts |-> IF i <= n THEN "unsent" ELSE "none"]]
  BY DEF BeginBatch
<1>2. /\ pass[p].pc = "running" /\ ~Batching(p) /\ pass[p].left - 1 \in 0..MaxBatches
      /\ UNCHANGED <<queue, worker, stopping, dropped>>
  <2>1. pass[p].left \in 0..MaxBatches /\ pass[p].left > 0
    BY RecFacts DEF PoolInv, TypeOK, BeginBatch
  <2>2. pass[p].left - 1 \in 0..MaxBatches
    BY <2>1, PoolAssumption, SMTT(60)
  <2>3. pass[p].pc = "running" /\ UNCHANGED <<queue, worker, stopping, dropped>>
    BY DEF BeginBatch
  <2> QED
    BY <2>2, <2>3 DEF Batching
<1>3. /\ pass' \in [Passes -> PassRecs] /\ pass'[p].pc = "submitting"
      /\ \A u \in Passes : u # p => pass'[u] = pass[u]
  <2>1. "submitting" \in PassPcs
    BY DEF PassPcs
  <2>2. LET r == PassRec("submitting", held, pass[p].left - 1)
        IN  r \in PassRecs /\ r.pc = "submitting"
    BY <1>2, <2>1, RecFacts, SMTT(60)
  <2> QED
    BY <1>1, <2>2 DEF PoolInv, TypeOK
<1>4. /\ future' \in [Passes -> [Parts -> {"none", "unsent", "pending", "ready", "broken"}]]
      /\ \A u \in Passes : u # p => future'[u] = future[u]
  BY <1>1 DEF PoolInv, TypeOK
<1>5. TypeOK'
  BY <1>2, <1>3, <1>4 DEF PoolInv, TypeOK
<1>6. FutureInv'
  BY <1>3, <1>4 DEF PoolInv, FutureInv, Batching
<1>7. \A j \in Jobs : Queued(j) => Queued(j)'
  BY <1>2, <1>3, <1>4, NoPartOut, JobFacts DEF Queued
<1>8. \A j \in Jobs : Started(j) => Started(j)'
  BY <1>2, <1>3, <1>4, NoPartOut, JobFacts DEF Started, Batching
<1> QED
  BY <1>2, <1>5, <1>6, <1>7, <1>8, StillInv

\* A pass ends its batch with every future ready: no task is left behind.
LEMMA EndBatchInv ==
    ASSUME PoolInv, NEW w \in Workers, NEW p \in Passes, EndBatch(w, p)
    PROVE  PoolInv'
<1>1. /\ pass[p].pc = "waiting"
      /\ \A i \in Parts : future[p][i] # "pending"
      /\ UNCHANGED <<queue, worker, stopping, dropped>>
  BY DEF EndBatch, Settled
<1>2. /\ pass' \in [Passes -> PassRecs] /\ pass'[p].pc = "running"
      /\ \A u \in Passes : u # p => pass'[u] = pass[u]
  <2>1. LET r == PassRec("running", FALSE, pass[p].left)
        IN  r \in PassRecs /\ r.pc = "running"
    BY RecFacts DEF PassPcs, PoolInv, TypeOK
  <2> QED
    BY <2>1 DEF EndBatch, PoolInv, TypeOK
<1>3. /\ future' \in [Passes -> [Parts -> {"none", "unsent", "pending", "ready", "broken"}]]
      /\ \A u \in Passes : u # p => future'[u] = future[u]
      /\ \A i \in Parts : future'[p][i] = "none"
  BY DEF EndBatch, NoFutures, PoolInv, TypeOK
<1>4. TypeOK'
  BY <1>1, <1>2, <1>3 DEF PoolInv, TypeOK
<1>5. FutureInv'
  BY <1>2, <1>3 DEF PoolInv, FutureInv, Batching
<1>6. \A j \in Jobs : Queued(j) => Queued(j)'
  BY <1>1, <1>2, <1>3, JobFacts, SMTT(60) DEF Queued
<1>7. \A j \in Jobs : Started(j) => Started(j)'
  BY <1>1, <1>2, <1>3, JobFacts, SMTT(60) DEF Started, Batching
<1> QED
  BY <1>1, <1>4, <1>5, <1>6, <1>7, StillInv

\* A job that ends leaves its worker without one, and the others as they were.
LEMMA EndsInv ==
    ASSUME PoolInv, NEW w \in Workers, NEW job \in Jobs, worker[w] = job,
           worker' = [worker EXCEPT ![w] = Returning],
           UNCHANGED <<queue, stopping, dropped>>, TypeOK', FutureInv',
           \A j \in Jobs : j # job /\ Queued(j) => Queued(j)',
           \A j \in Jobs : j # job /\ Started(j) => Started(j)'
    PROVE  PoolInv'
<1>1. worker'[w] = Returning /\ (\A u \in Workers : u # w => worker'[u] = worker[u])
  BY DEF PoolInv, TypeOK
<1>2. \A k \in DOMAIN queue : queue[k] \in Jobs /\ queue[k] # job
  BY SMTT(60) DEF PoolInv, TypeOK, QueueInv
<1>3. \A u \in Workers : u # w => worker[u] # job
  BY DEF PoolInv, WorkerInv
<1>4. QueueInv'
  BY <1>1, <1>2, JobFacts, SMTT(60) DEF PoolInv, QueueInv
<1>5. WorkerInv'
  BY <1>1, <1>3, JobFacts, SMTT(60) DEF PoolInv, WorkerInv
<1>6. DroppedInv'
  BY <1>1, JobFacts, SMTT(60) DEF PoolInv, TypeOK, DroppedInv
<1> QED
  BY <1>4, <1>5, <1>6 DEF PoolInv

\* A pass that finishes has no batch, and its worker is free again.
LEMMA FinishInv ==
    ASSUME PoolInv, NEW w \in Workers, NEW p \in Passes, Finish(w, p)
    PROVE  PoolInv'
<1>1. /\ worker[w] = PassJob(p) /\ PassJob(p) \in Jobs /\ pass[p].pc = "running" /\ ~Batching(p)
      /\ worker' = [worker EXCEPT ![w] = Returning]
      /\ UNCHANGED <<queue, future, stopping, dropped>>
  BY JobFacts DEF Finish, Batching
<1>2. /\ pass' \in [Passes -> PassRecs] /\ pass'[p].pc = "off"
      /\ \A u \in Passes : u # p => pass'[u] = pass[u]
  BY RecFacts DEF Finish, PoolInv, TypeOK
<1>3. TypeOK'
  BY <1>1, <1>2 DEF PoolInv, TypeOK
<1>4. FutureInv'
  BY <1>1, <1>2, NoPartOut DEF PoolInv, FutureInv, Batching
<1>5. \A j \in Jobs : j # PassJob(p) => j[1] # p \/ j[2] # 0
  BY SameJob, JobFacts
<1>6. \A j \in Jobs : Queued(j) => Queued(j)'
  BY <1>1, <1>2, JobFacts DEF Queued
<1>7. \A j \in Jobs : j # PassJob(p) /\ Started(j) => Started(j)'
  BY <1>1, <1>2, <1>5, JobFacts DEF Started, Batching
<1> QED
  BY <1>1, <1>3, <1>4, <1>6, <1>7, EndsInv

\* A task that has run settles its future and leaves its worker.
LEMMA RunPartInv ==
    ASSUME PoolInv, NEW w \in Workers, NEW p \in Passes, RunPart(w, p)
    PROVE  PoolInv'
<1>1. PICK i \in Parts :
        /\ worker[w] = <<p, i>>
        /\ future' = [future EXCEPT ![p][i] = "ready"]
        /\ worker' = [worker EXCEPT ![w] = Returning]
        /\ UNCHANGED <<queue, pass, stopping, dropped>>
  BY DEF RunPart
<1>2. PICK job \in Jobs : job = <<p, i>> /\ job[1] = p /\ job[2] = i /\ i # 0
  BY JobFacts
<1>3. /\ future' \in [Passes -> [Parts -> {"none", "unsent", "pending", "ready", "broken"}]]
      /\ \A u \in Passes, k \in Parts : u # p \/ k # i => future'[u][k] = future[u][k]
  BY <1>1 DEF PoolInv, TypeOK
<1>4. Batching(p)
  <2>1. future[p][i] = "pending"
    BY <1>1, <1>2 DEF PoolInv, WorkerInv, Started
  <2> QED
    BY <2>1 DEF PoolInv, FutureInv
<1>5. TypeOK'
  BY <1>1, <1>3 DEF PoolInv, TypeOK
<1>6. FutureInv'
  BY <1>1, <1>3, <1>4 DEF PoolInv, FutureInv, Batching
<1>7. \A j \in Jobs : j # job => j[1] # p \/ j[2] # i
  BY <1>2, SameJob
<1>8. \A j \in Jobs : j # job /\ Queued(j) => Queued(j)'
  BY <1>1, <1>3, <1>7, JobFacts, SMTT(60) DEF Queued
<1>9. \A j \in Jobs : j # job /\ Started(j) => Started(j)'
  BY <1>1, <1>3, <1>7, JobFacts, SMTT(60) DEF Started, Batching
<1> QED
  BY <1>1, <1>2, <1>5, <1>6, <1>8, <1>9, EndsInv

\* A task that is submitted is queued once, with its future open.
LEMMA SubmitPartInv ==
    ASSUME PoolInv, NEW w \in Workers, NEW p \in Passes, SubmitPart(w, p)
    PROVE  PoolInv'
<1>1. PICK i \in Parts :
        /\ future[p][i] = "unsent"
        /\ queue' = IF stopping THEN queue ELSE Append(queue, <<p, i>>)
        /\ future' = [future EXCEPT ![p][i] = IF stopping /\ ~pass[p].held THEN "broken" ELSE "pending"]
  BY DEF SubmitPart
<1>2. PICK job \in Jobs : job = <<p, i>> /\ job[1] = p /\ job[2] = i /\ i # 0
  BY JobFacts
<1>3. pass[p].pc = "submitting" /\ UNCHANGED <<worker, stopping, dropped>>
  BY DEF SubmitPart
<1>4. /\ pass' \in [Passes -> PassRecs] /\ pass'[p].pc \in {"submitting", "waiting"}
      /\ \A u \in Passes : u # p => pass'[u] = pass[u]
  <2>1. pass[p] \in PassRecs /\ pass \in [Passes -> PassRecs]
    BY DEF PoolInv, TypeOK
  <2>2. LET r == PassRec("waiting", pass[p].held, pass[p].left)
        IN  r \in PassRecs /\ r.pc = "waiting"
    <3>1. pass[p].held \in BOOLEAN /\ pass[p].left \in 0..MaxBatches /\ "waiting" \in PassPcs
      BY <2>1, RecFacts DEF PassPcs
    <3> QED
      BY <3>1, RecFacts
  <2>3. pass' = pass \/ pass' = [pass EXCEPT ![p] = PassRec("waiting", pass[p].held, pass[p].left)]
    BY DEF SubmitPart, At
  <2> QED
    <3>1. CASE pass' = pass
      BY <1>3, <2>1, <3>1
    <3>2. CASE pass' = [pass EXCEPT ![p] = PassRec("waiting", pass[p].held, pass[p].left)]
      BY <2>1, <2>2, <3>2
    <3> QED
      BY <2>3, <3>1, <3>2
<1>5. /\ future' \in [Passes -> [Parts -> {"none", "unsent", "pending", "ready", "broken"}]]
      /\ \A u \in Passes, k \in Parts : u # p \/ k # i => future'[u][k] = future[u][k]
      /\ ~stopping => future'[p][i] = "pending"
  BY <1>1 DEF PoolInv, TypeOK
<1>6. queue' \in Seq(Jobs)
  BY <1>1, <1>2, AppendFacts DEF PoolInv, TypeOK
<1>7. TypeOK'
  BY <1>3, <1>4, <1>5, <1>6 DEF PoolInv, TypeOK
<1>8. FutureInv'
  BY <1>3, <1>4, <1>5 DEF PoolInv, FutureInv, Batching
<1>9. \A j \in Jobs : j # job => j[1] # p \/ j[2] # i
  BY <1>2, SameJob
<1>10. \A j \in Jobs : Queued(j) => Queued(j)' /\ j # job
  BY <1>1, <1>2, <1>3, <1>4, <1>5, <1>9, JobFacts, SMTT(60) DEF Queued
<1>11. \A j \in Jobs : Started(j) => Started(j)' /\ j # job
  BY <1>1, <1>2, <1>3, <1>4, <1>5, <1>9, JobFacts, SMTT(60) DEF Started, Batching
<1>12. CASE stopping
  BY <1>1, <1>3, <1>7, <1>8, <1>10, <1>11, <1>12, StillInv
<1>13. CASE ~stopping
  <2>1. /\ DOMAIN queue = 1..Len(queue) /\ Len(queue) \in Nat
        /\ DOMAIN queue' = 1..(Len(queue) + 1)
        /\ \A k \in 1..Len(queue) : queue'[k] = queue[k]
        /\ queue'[Len(queue) + 1] = job
    BY <1>1, <1>2, <1>13, AppendFacts, SMTT(60) DEF PoolInv, TypeOK
  <2>2. \A k \in DOMAIN queue : queue[k] \in Jobs /\ queue[k] # job /\ Queued(queue[k])
    BY <1>10, SMTT(60) DEF PoolInv, TypeOK, QueueInv
  <2>3. \A u \in Workers : worker[u] # job
    BY <1>11 DEF PoolInv, WorkerInv
  <2>4. QueueInv'
    <3>1. Queued(job)'
      BY <1>2, <1>5, <1>13 DEF Queued
    <3>2. \A k \in DOMAIN queue' : \E j \in Jobs : queue'[k] = j /\ Queued(j)'
      BY <1>10, <2>1, <2>2, <3>1, SMTT(60)
    <3>3. \A k, l \in DOMAIN queue' : queue'[k] = queue'[l] => k = l
      BY <2>1, <2>2, SMTT(60) DEF PoolInv, QueueInv
    <3>4. \A k \in DOMAIN queue', u \in Workers : worker'[u] # queue'[k]
      BY <1>3, <2>1, <2>3, SMTT(60) DEF PoolInv, QueueInv
    <3> QED
      BY <3>2, <3>3, <3>4 DEF QueueInv
  <2>5. WorkerInv'
    BY <1>3, <1>11 DEF PoolInv, WorkerInv
  <2>6. DroppedInv'
    BY <1>3, <1>13 DEF PoolInv, DroppedInv
  <2> QED
    BY <1>7, <1>8, <2>4, <2>5, <2>6 DEF PoolInv
<1> QED
  BY <1>12, <1>13

\* requestStop moves the queued jobs out of the queue: each is still in one place.
LEMMA RequestStopInv ==
    ASSUME PoolInv, RequestStop
    PROVE  PoolInv'
<1>1. /\ stopping' = TRUE /\ ~stopping /\ queue' = <<>>
      /\ dropped' = {queue[i] : i \in DOMAIN queue}
      /\ UNCHANGED <<worker, pass, future>>
  BY DEF RequestStop
<1>2. \A k \in DOMAIN queue : queue[k] \in Jobs
  BY SMTT(60) DEF PoolInv, TypeOK
<1>3. TypeOK'
  <2>1. queue' \in Seq(Jobs)
    BY <1>1, SMTT(60)
  <2>2. dropped' \subseteq Jobs /\ stopping' \in BOOLEAN
    BY <1>1, <1>2
  <2> QED
    BY <1>1, <2>1, <2>2 DEF PoolInv, TypeOK
<1>4. QueueInv'
  BY <1>1, SMTT(60) DEF QueueInv
<1>5. WorkerInv'
  BY <1>1 DEF PoolInv, WorkerInv, Started, Batching
<1>6. DroppedInv'
  BY <1>1, <1>2, SMTT(60) DEF PoolInv, QueueInv, DroppedInv, Queued
<1>7. FutureInv'
  BY <1>1 DEF PoolInv, FutureInv, Batching
<1> QED
  BY <1>3, <1>4, <1>5, <1>6, <1>7 DEF PoolInv

\* The jobs that were dropped are destroyed, and their futures are broken.
LEMMA DestroyInv ==
    ASSUME PoolInv, Destroy
    PROVE  PoolInv'
<1>1. /\ stopping /\ queue = <<>> /\ dropped' = {}
      /\ UNCHANGED <<queue, worker, stopping>>
  BY DEF Destroy, PoolInv, DroppedInv
<1>2. /\ pass' \in [Passes -> PassRecs]
      /\ \A p \in Passes : pass'[p] = IF PassJob(p) \in dropped THEN Off ELSE pass[p]
  BY RecFacts DEF Destroy, PoolInv, TypeOK
<1>3. /\ future' \in [Passes -> [Parts -> {"none", "unsent", "pending", "ready", "broken"}]]
      /\ \A p \in Passes, i \in Parts :
           future'[p][i] = IF <<p, i>> \in dropped /\ ~pass[p].held THEN "broken" ELSE future[p][i]
  BY DEF Destroy, DroppedPart, PoolInv, TypeOK
<1>4. \A p \in Passes : PassJob(p) \in dropped => pass[p].pc = "queued" /\ ~Batching(p)
  BY JobFacts, SMTT(60) DEF PoolInv, DroppedInv, Queued, Batching
<1>5. \A p \in Passes, i \in Parts : <<p, i>> \in dropped => future[p][i] = "pending"
  BY SMTT(60) DEF PoolInv, DroppedInv, Queued, Parts
<1>6. TypeOK'
  BY <1>1, <1>2, <1>3 DEF PoolInv, TypeOK
<1>7. QueueInv'
  BY <1>1, SMTT(60) DEF QueueInv
<1>8. DroppedInv'
  BY <1>1 DEF DroppedInv
<1>9. FutureInv'
  <2>1. \A p \in Passes, i \in Parts : future'[p][i] # "none" => Batching(p)
    BY <1>3, <1>5 DEF PoolInv, FutureInv
  <2> QED
    BY <1>2, <1>4, <2>1 DEF FutureInv, Batching
<1>10. \A j \in Jobs : Started(j) /\ j \notin dropped => Started(j)'
  <2>1. \A p \in Passes : Started(PassJob(p)) => Started(PassJob(p))'
    BY <1>2, <1>4, JobFacts DEF Started, Batching
  <2>2. \A p \in Passes, i \in Parts : future[p][i] = "pending" /\ <<p, i>> \notin dropped
                                      => future'[p][i] = "pending"
    BY <1>3
  <2> QED
    BY <2>1, <2>2, JobFacts, SMTT(60) DEF Started, PassJob
<1>11. WorkerInv'
  BY <1>1, <1>10 DEF PoolInv, WorkerInv, DroppedInv
<1> QED
  BY <1>6, <1>7, <1>8, <1>9, <1>11 DEF PoolInv

\* Every step of the pool keeps PoolInv.
LEMMA StepInv == PoolInv /\ [Next]_vars => PoolInv'
<1> SUFFICES ASSUME PoolInv, [Next]_vars PROVE PoolInv'
  OBVIOUS
<1>1. CASE \E p \in Passes : Schedule(p)
  BY <1>1, ScheduleInv
<1>2. CASE \E w \in Workers : WorkerStep(w)
  <2>1. PICK w \in Workers : WorkerStep(w)
    BY <1>2
  <2>2. CASE Take(w)
    BY <2>2, TakeInv
  <2>3. CASE Return(w) \/ Exit(w)
    BY <2>3, IdleStepInv
  <2>4. CASE \E p \in Passes : PassStep(w, p) \/ RunPart(w, p)
    BY <2>4, BeginBatchInv, SubmitPartInv, EndBatchInv, FinishInv, RunPartInv DEF PassStep
  <2> QED
    BY <2>1, <2>2, <2>3, <2>4 DEF WorkerStep
<1>3. CASE RequestStop
  BY <1>3, RequestStopInv
<1>4. CASE Destroy
  BY <1>4, DestroyInv
<1>5. CASE UNCHANGED vars
  <2>1. UNCHANGED <<queue, worker, pass, future, stopping, dropped>>
    BY <1>5 DEF vars
  <2>2. TypeOK' /\ FutureInv'
    BY <2>1 DEF PoolInv, TypeOK, FutureInv, Batching
  <2>3. \A j \in Jobs : (Queued(j) => Queued(j)') /\ (Started(j) => Started(j)')
    BY <2>1 DEF Queued, Started, Batching
  <2> QED
    BY <2>1, <2>2, <2>3, StillInv
<1> QED
  BY <1>1, <1>2, <1>3, <1>4, <1>5 DEF Next

\* Every task of the sync pool is in one place, and its waiter knows it.
THEOREM PoolConsistent == Spec => []PoolInv
  BY InitInv, StepInv, PTL DEF Spec

\* A worker that waits cannot take a step: it runs a pass, and one whose futures are
\* not all settled.
LEMMA WaitingWorker ==
    ASSUME PoolInv, NEW w \in Workers, Waits(w)
    PROVE  ~WorkerStep(w)
<1>1. PICK q \in Passes : worker[w] = PassJob(q) /\ pass[q].pc = "waiting" /\ ~Settled(q)
  BY DEF Waits
<1>2. worker[w] \in Jobs /\ worker[w][1] = q /\ worker[w][2] = 0
  BY <1>1, JobFacts
<1>3. ~Take(w) /\ ~Return(w) /\ ~Exit(w)
  BY <1>2, JobFacts DEF Take, Return, Exit
<1>4. ASSUME NEW p \in Passes
      PROVE  ~PassStep(w, p) /\ ~RunPart(w, p)
  <2>1. worker[w] = PassJob(p) => p = q
    BY <1>2, JobFacts
  <2>2. ~PassStep(w, p)
    BY <1>1, <2>1 DEF PassStep, BeginBatch, SubmitPart, EndBatch, Finish
  <2>3. \A i \in Parts : worker[w] # <<p, i>>
    BY <1>2, JobFacts, SMTT(60)
  <2> QED BY <2>2, <2>3 DEF RunPart
<1> QED BY <1>3, <1>4 DEF WorkerStep

\* Another pass that is queued changes nothing for those that wait.
LEMMA ScheduleStuck ==
    ASSUME PoolInv, Stuck, NEW p \in Passes, Schedule(p)
    PROVE  Stuck' /\ UNCHANGED <<worker, future>>
<1>1. /\ pass[p].pc = "off" /\ UNCHANGED <<worker, future, stopping>>
      /\ queue' = Append(queue, PassJob(p))
      /\ \A q \in Passes : q # p => pass'[q] = pass[q]
  BY DEF Schedule, PoolInv, TypeOK
<1>2. \A w \in Workers : Waits(w)'
  <2> SUFFICES ASSUME NEW w \in Workers PROVE Waits(w)'
    OBVIOUS
  <2>1. PICK q \in Passes : worker[w] = PassJob(q) /\ pass[q].pc = "waiting" /\ ~Settled(q)
    BY DEF Stuck, Waits
  <2>2. q # p
    BY <1>1, <2>1
  <2>3. Settled(q)' <=> Settled(q)
    BY <1>1 DEF Settled
  <2> QED BY <1>1, <2>1, <2>2, <2>3 DEF Waits
<1>3. \A k \in DOMAIN queue : k \in DOMAIN queue' /\ queue'[k] = queue[k]
  <2>1. queue \in Seq(Jobs) /\ PassJob(p) \in Jobs
    BY JobFacts DEF PoolInv, TypeOK
  <2> QED BY <1>1, <2>1, AppendFacts, SMTT(60)
<1>4. \A q \in Passes, i \in Parts : Waiting(q, i) => Waiting(q, i)'
  BY <1>1, <1>3 DEF Waiting
<1>5. \A q \in Passes, i \in Parts : future'[q][i] = "pending" => Waiting(q, i)'
  BY <1>1, <1>4 DEF Stuck
<1> QED BY <1>1, <1>2, <1>5 DEF Stuck

\* So a stuck pool stays stuck as long as nobody stops it.
LEMMA StuckStep ==
    ASSUME PoolInv, Stuck, [Next]_vars
    PROVE  stopping' \/ (Stuck' /\ UNCHANGED <<worker, future>>)
<1>1. CASE \E p \in Passes : Schedule(p)
  BY <1>1, ScheduleStuck
<1>2. CASE \E w \in Workers : WorkerStep(w)
  BY <1>2, WaitingWorker DEF Stuck
<1>3. CASE RequestStop
  BY <1>3 DEF RequestStop
<1>4. CASE Destroy
  BY <1>4 DEF Destroy, Stuck, PoolInv, DroppedInv
<1>5. CASE UNCHANGED vars
  <2>1. UNCHANGED <<queue, worker, pass, future, stopping>>
    BY <1>5 DEF vars
  <2>2. \A p \in Passes : Settled(p)' <=> Settled(p)
    BY <2>1 DEF Settled
  <2>3. \A w \in Workers : Waits(w)'
    BY <2>1, <2>2 DEF Stuck, Waits
  <2>4. \A p \in Passes, i \in Parts : future'[p][i] = "pending" => Waiting(p, i)'
    BY <2>1 DEF Stuck, Waiting
  <2> QED BY <2>1, <2>3, <2>4 DEF Stuck
<1> QED BY <1>1, <1>2, <1>3, <1>4, <1>5 DEF Next

\* A sync pool whose workers all wait for tasks queued behind them (processFutures and
\* rotateFilesOnSyncPool block a worker of the pool they submit to) stays so, whatever is
\* scheduled, until requestStop.
THEOREM OnlyStopFrees == Spec => StuckUntilStopped
<1>1. PoolInv /\ [Next]_vars =>
        [Stuck => stopping' \/ (Stuck' /\ UNCHANGED <<worker, future>>)]_vars
  BY StuckStep
<1> QED
  BY <1>1, PoolConsistent, PTL DEF Spec, StuckUntilStopped
=============================================================================
