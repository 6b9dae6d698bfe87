------------------------ MODULE SyncControllerSafety ------------------------
(***************************************************************************)
(* Proofs about SyncController, for any number of tasks, engines, callers  *)
(* and calls and whatever events are admitted: every variable keeps its    *)
(* type, no task object is in two places, and the pass lease of an S3      *)
(* vault has exactly one holder while it is taken.                         *)
(***************************************************************************)
EXTENDS SyncController, TLAPS

-----------------------------------------------------------------------------
(***************************************************************************)
(* The fields of the tasks.                                                *)
(***************************************************************************)

\* Setting a flag of a task keeps its type and whether it is scoped (Local::interrupt,
\* runNow, consumePendingRunNow, the running flag).
LEMMA FlagsTyped ==
    ASSUME NEW r \in TaskRecs, NEW b \in BOOLEAN
    PROVE  /\ Interrupted(r) \in TaskRecs /\ Interrupted(r).scoped = r.scoped
           /\ SetRunning(r, b) \in TaskRecs /\ SetRunning(r, b).scoped = r.scoped
           /\ SetAsked(r, b) \in TaskRecs /\ SetAsked(r, b).scoped = r.scoped
BY DEF TaskRecs, Interrupted, SetRunning, SetAsked, Flags

\* A created task has the type of a task (Controller::createTask, Local's constructor).
LEMMA CreatedTyped ==
    ASSUME NEW e \in Engines \cup {NoEngine}, NEW s \in BOOLEAN, NEW a \in BOOLEAN
    PROVE  Created(e, s, a) \in TaskRecs /\ Created(e, s, a).scoped = s
BY DEF Created, TaskRecs

\* So has the absent task.
LEMMA BlankTyped == Blank \in TaskRecs
BY CreatedTyped, Zenon DEF Blank

\* Dropping the objects nobody refers to keeps the type, and keeps every field of the
\* objects that stay.
LEMMA CollectKeeps ==
    ASSUME NEW f \in [Tasks -> TaskRecs], Collect(f)
    PROVE  /\ task' \in [Tasks -> TaskRecs]
           /\ \A t \in Tasks : t \in Referenced' => task'[t] = f[t]
BY BlankTyped DEF Collect

-----------------------------------------------------------------------------
(***************************************************************************)
(* Types.  TypeOK is inductive together with the fact that a caller past   *)
(* the lookup of runNow holds the task it found.                           *)
(***************************************************************************)

\* runNow works on the task it found in the task map.
HoldsTask ==
    \A c \in Callers : thread[c].pc \in {"found", "rerun", "replace", "publish"} =>
                         thread[c].task \in Tasks

Typed == TypeOK /\ HoldsTask

ThreadRecs == [pc : ThreadPcs, task : Tasks \cup {NoTask}, engine : Engines \cup {NoEngine}]

\* A thread's position has its type, and its fields are what they were set to (runNow,
\* refreshEngines).
LEMMA AtTyped ==
    ASSUME NEW pc \in ThreadPcs, NEW t \in Tasks \cup {NoTask}, NEW e \in Engines \cup {NoEngine}
    PROVE  /\ At(pc, t, e) \in ThreadRecs
           /\ At(pc, t, e).pc = pc /\ At(pc, t, e).task = t /\ At(pc, t, e).engine = e
BY DEF At, ThreadRecs

\* So has that of a thread outside the controller.
LEMMA IdleTyped == Idle \in ThreadRecs /\ Idle.pc = "idle"
BY DEF Idle, At, ThreadRecs, ThreadPcs

\* Adding a created task to the tasks keeps their type (createTask).
LEMMA CreationTyped ==
    ASSUME NEW f \in [Tasks -> TaskRecs], NEW t \in Tasks,
           NEW e \in Engines \cup {NoEngine}, NEW s \in BOOLEAN, NEW a \in BOOLEAN
    PROVE  [f EXCEPT ![t] = Created(e, s, a)] \in [Tasks -> TaskRecs]
BY CreatedTyped

\* The controller starts well typed (its constructor).
LEMMA InitTyped == Init => Typed
<1> SUFFICES ASSUME Init PROVE Typed OBVIOUS
<1>1. task \in [Tasks -> TaskRecs] BY BlankTyped DEF Init
<1>2. thread \in [Callers \cup {Loop} -> ThreadRecs] BY IdleTyped DEF Init
<1>3. HoldsTask BY IdleTyped DEF Init, HoldsTask
<1>4. calls \in 0 .. MaxCalls BY SyncAssumption DEF Init
<1> QED BY <1>1, <1>2, <1>3, <1>4, Zenon DEF Init, Typed, TypeOK, ThreadRecs, RunPcs

\* Every step of the controller, the passes, the callers and the applier keeps the types.
LEMMA StepTyped == Typed /\ [Next]_vars => Typed'
<1> SUFFICES ASSUME Typed, [Next]_vars PROVE Typed'
    OBVIOUS
<1>m. MaxCalls \in Nat /\ S3 \in BOOLEAN BY SyncAssumption
<1>t. TypeOK /\ HoldsTask BY DEF Typed
<1>f. task \in [Tasks -> TaskRecs] BY <1>t DEF TypeOK
<1>h. thread \in [Callers \cup {Loop} -> ThreadRecs] BY <1>t DEF TypeOK, ThreadRecs
\* What TypeOK says of the variables other than task and thread.
<1> DEFINE Rest ==
      /\ engine \in Engines \cup {NoEngine} /\ on \subseteq Engines
      /\ taskMap \in Tasks \cup {NoTask} /\ popped \in Tasks \cup {NoTask}
      /\ queue \subseteq Tasks /\ pool \subseteq Tasks
      /\ run \in [Tasks -> RunPcs]
      /\ closing \in Nat /\ lease \in BOOLEAN /\ waiting \in {"no", "fresh", "old"}
      /\ applier \in {"idle", "looked", "applying", "scheduling"} /\ calls \in 0 .. MaxCalls
<1>r. Rest BY <1>t DEF TypeOK
<1>s. /\ Rest' /\ task' \in [Tasks -> TaskRecs]
      /\ thread' \in [Callers \cup {Loop} -> ThreadRecs] /\ HoldsTask'
      => Typed'
      BY DEF Typed, TypeOK, ThreadRecs
<1>k. UNCHANGED thread => thread' \in [Callers \cup {Loop} -> ThreadRecs] /\ HoldsTask'
      BY <1>t, <1>h DEF HoldsTask
<1>1. CASE UNCHANGED vars
  <2>1. UNCHANGED <<engine, on, taskMap, queue, popped, pool, task, run, closing, lease, waiting,
                    thread, applier, calls>>
    BY <1>1 DEF vars, engines, places, leases, threads
  <2>2. Rest' BY <2>1, <1>r
  <2> QED BY <2>1, <2>2, <1>f, <1>k, <1>s
<1>2. ASSUME NEW t \in Tasks, Pop(t) PROVE Typed'
  <2>1. Rest' /\ UNCHANGED <<task, thread>>
    BY <1>2, <1>r DEF Pop, engines, leases, threads
  <2> QED BY <2>1, <1>f, <1>k, <1>s
<1>3. CASE Submit
  <2>1. Rest' /\ UNCHANGED thread /\ Collect(task)
    BY <1>3, <1>r DEF Submit, engines, leases, threads
  <2> QED BY <2>1, <1>f, <1>k, <1>s, CollectKeeps
<1>4. ASSUME NEW t \in Tasks, PassStep(t) PROVE Typed'
  <2>1. CASE Take(t)
    <3>1. Rest' /\ UNCHANGED <<task, thread>>
      BY <1>m, <2>1, <1>r DEF Take, engines, leases, threads, RunPcs
    <3> QED BY <3>1, <1>f, <1>k, <1>s
  <2>2. CASE Denied(t)
    <3>1. Rest' /\ UNCHANGED <<task, thread>>
      BY <2>2, <1>r DEF Denied, engines, leases, threads, RunPcs
    <3> QED BY <3>1, <1>f, <1>k, <1>s
  <2>3. CASE StartTask(t)
    <3>1. Rest' /\ UNCHANGED thread
      BY <2>3, <1>r DEF StartTask, engines, places, leases, threads, RunPcs
    <3>2. task' = [task EXCEPT ![t] = SetRunning(task[t], TRUE)] BY <2>3 DEF StartTask
    <3>3. SetRunning(task[t], TRUE) \in TaskRecs BY <1>f, FlagsTyped, Zenon
    <3> QED BY <3>1, <3>2, <3>3, <1>f, <1>k, <1>s, Zenon
  <2>4. CASE StartFails(t)
    <3>1. /\ UNCHANGED <<engine, on, taskMap, queue, popped, pool, lease, waiting, thread,
                         applier, calls>>
          /\ Collect(task) /\ run' = [run EXCEPT ![t] = "none"]
      BY <2>4, Zenon DEF StartFails, engines, places, leases, threads
    <3>a. closing' \in {closing, closing + 1} BY <2>4, Zenon DEF StartFails
    <3>2. closing' \in Nat BY <3>a, <1>r
    <3>3. Rest' BY <3>1, <3>2, <1>r DEF RunPcs
    <3> QED BY <3>1, <3>3, <1>f, <1>k, <1>s, CollectKeeps
  <2>5. CASE NewEvent(t)
    <3>1. Rest' /\ UNCHANGED thread
      BY <2>5, <1>r DEF NewEvent, engines, places, leases, threads, RunPcs
    <3>2. task' = [task EXCEPT ![t] = SetAsked(task[t], FALSE)] BY <2>5 DEF NewEvent
    <3>3. SetAsked(task[t], FALSE) \in TaskRecs BY <1>f, FlagsTyped, Zenon
    <3> QED BY <3>1, <3>2, <3>3, <1>f, <1>k, <1>s, Zenon
  <2>6. CASE Work(t)
    <3>1. Rest' /\ UNCHANGED <<task, thread>>
      BY <2>6, <1>r, Zenon DEF Work, engines, places, leases, threads, RunPcs
    <3> QED BY <3>1, <1>f, <1>k, <1>s
  <2>7. CASE Shutdown(t)
    <3>1. Rest' /\ UNCHANGED thread
      BY <2>7, <1>r DEF Shutdown, engines, places, leases, threads, RunPcs
    <3>2. Collect([task EXCEPT ![t] = SetRunning(task[t], FALSE)]) BY <2>7 DEF Shutdown
    <3>3. SetRunning(task[t], FALSE) \in TaskRecs BY <1>f, FlagsTyped, Zenon
    <3>4. [task EXCEPT ![t] = SetRunning(task[t], FALSE)] \in [Tasks -> TaskRecs] BY <3>3, <1>f, Zenon
    <3> QED BY <3>1, <3>2, <3>4, <1>k, <1>s, CollectKeeps, Zenon
  <2>8. CASE Requeue(t)
    <3>1. Rest' /\ UNCHANGED <<task, thread>>
      BY <2>8, <1>r DEF Requeue, engines, leases, threads, RunPcs
    <3> QED BY <3>1, <1>f, <1>k, <1>s
  <2> QED BY <1>4, <2>1, <2>2, <2>3, <2>4, <2>5, <2>6, <2>7, <2>8 DEF PassStep
<1>5. CASE ReleasePass
  <2>1. /\ UNCHANGED <<engine, on, taskMap, queue, popped, pool, task, run, waiting, thread,
                       applier, calls>>
        /\ lease' = FALSE
    BY <1>5 DEF ReleasePass, engines, places, threads
  <2>2. closing' \in Nat BY <1>5, <1>r DEF ReleasePass
  <2>3. Rest' BY <2>1, <2>2, <1>r, Zenon
  <2> QED BY <2>1, <2>3, <1>f, <1>k, <1>s
<1>6. CASE LoopRefresh
  <2>1. Rest' /\ UNCHANGED task
    BY <1>6, <1>r DEF LoopRefresh, engines, places, leases
  <2>2. thread' = [thread EXCEPT ![Loop] = At("refresh", NoTask, engine)]
    BY <1>6 DEF LoopRefresh, Refreshing
  <2>3. At("refresh", NoTask, engine) \in ThreadRecs BY <1>r, AtTyped, Zenon DEF ThreadPcs
  <2>4. thread' \in [Callers \cup {Loop} -> ThreadRecs] BY <2>2, <2>3, <1>h
  <2>5. HoldsTask' BY SyncAssumption, <2>2, <1>h, <1>t DEF HoldsTask
  <2> QED BY <2>1, <2>4, <2>5, <1>f, <1>s
\* A step of one thread that leaves it with a typed record, and with a task when it is past
\* the lookup.
<1>u. ASSUME NEW c \in Callers \cup {Loop}, NEW r \in ThreadRecs,
             thread' = [thread EXCEPT ![c] = r],
             r.pc \in {"found", "rerun", "replace", "publish"} => r.task \in Tasks
      PROVE  thread' \in [Callers \cup {Loop} -> ThreadRecs] /\ HoldsTask'
  BY <1>u, <1>h, <1>t DEF HoldsTask
<1>7. ASSUME NEW c \in Callers \cup {Loop}, ApplyRefresh(c) PROVE Typed'
  <2> DEFINE e == thread[c].engine
             stopped == IF taskMap = NoTask THEN task
                        ELSE [task EXCEPT ![taskMap] = Interrupted(task[taskMap])]
             r == IF thread[c].pc = "refresh" THEN Idle ELSE At("look again", NoTask, NoEngine)
  <2>1. r \in ThreadRecs /\ r.pc \in {"idle", "look again"}
    BY IdleTyped, Zenon DEF ThreadPcs, ThreadRecs, At
  <2>2. thread' = [thread EXCEPT ![c] = r] BY <1>7, Zenon DEF ApplyRefresh
  <2>3. thread' \in [Callers \cup {Loop} -> ThreadRecs] /\ HoldsTask'
    <3> HIDE DEF r
    <3> QED BY <2>1, <2>2, <1>u, Zenon
  <2>4. e \in Engines \cup {NoEngine} BY <1>h DEF ThreadRecs
  <2>5. stopped \in [Tasks -> TaskRecs]
    <3>1. CASE taskMap = NoTask BY <3>1, <1>f
    <3>2. CASE taskMap \in Tasks
      <4>1. Interrupted(task[taskMap]) \in TaskRecs BY <3>2, <1>f, FlagsTyped, Zenon
      <4> QED BY <4>1, <3>2, <1>f
    <3> QED BY <3>1, <3>2, <1>r
  <2>6. \/ taskMap' = NoTask /\ UNCHANGED queue /\ (Collect(task) \/ Collect(stopped))
        \/ UNCHANGED <<taskMap, queue>> /\ Collect(task)
        \/ \E t \in Free : /\ taskMap' = t
                            /\ queue' = queue \cup {t}
                            /\ Collect([stopped EXCEPT ![t] = Created(e, FALSE, FALSE)])
    BY <1>7, Zenon DEF ApplyRefresh, places
  <2>7. UNCHANGED <<engines, leases, popped, pool, run, closing, applier, calls>>
    BY <1>7, Zenon DEF ApplyRefresh, places
  <2>8. CASE UNCHANGED queue /\ taskMap' \in {NoTask, taskMap} /\ (Collect(task) \/ Collect(stopped))
    <3>1. Rest' BY <2>7, <2>8, <1>r DEF engines, leases
    <3>2. task' \in [Tasks -> TaskRecs]
      <4> HIDE DEF stopped
      <4> QED BY <2>8, <2>5, <1>f, CollectKeeps, Zenon
    <3> QED BY <3>1, <3>2, <2>3, <1>s
  <2>9. ASSUME NEW t \in Free, taskMap' = t, queue' = queue \cup {t},
               Collect([stopped EXCEPT ![t] = Created(e, FALSE, FALSE)])
        PROVE  Typed'
    <3>1. t \in Tasks BY DEF Free
    <3>2. Rest' BY <2>7, <2>9, <3>1, <1>r DEF engines, leases
    <3>3. task' \in [Tasks -> TaskRecs]
      <4> HIDE DEF stopped, e
      <4>1. [stopped EXCEPT ![t] = Created(e, FALSE, FALSE)] \in [Tasks -> TaskRecs]
        BY <2>4, <2>5, <3>1, CreationTyped, Zenon
      <4> QED BY <4>1, <2>9, CollectKeeps, Zenon
    <3> QED BY <3>2, <3>3, <2>3, <1>s
  <2> QED
    <3> HIDE DEF stopped, e
    <3> QED BY <2>6, <2>8, <2>9, Zenon
<1>8. ASSUME NEW c \in Callers, ChangeEngine(c) PROVE Typed'
  <2>a. UNCHANGED <<taskMap, queue, popped, pool, task, run, closing, lease, waiting, applier>>
    BY <1>8, Zenon DEF ChangeEngine, places, leases
  <2>b. engine' \in Engines \cup {NoEngine} /\ on' \subseteq Engines
    BY <1>8, <1>r, Zenon DEF ChangeEngine
  <2>c. calls < MaxCalls /\ calls' = calls + 1 BY <1>8, Zenon DEF ChangeEngine
  <2>d. calls' \in 0 .. MaxCalls BY <2>c, <1>m, <1>r
  <2>1. Rest' /\ UNCHANGED task BY <2>a, <2>b, <2>d, <1>r
  <2>2. \/ UNCHANGED thread
        \/ \E x \in Engines \cup {NoEngine} :
              thread' = [thread EXCEPT ![c] = At("refresh", NoTask, x)]
    BY <1>8, <1>r, Zenon DEF ChangeEngine, Refreshing
  <2>3. ASSUME NEW x \in Engines \cup {NoEngine},
               thread' = [thread EXCEPT ![c] = At("refresh", NoTask, x)]
        PROVE  thread' \in [Callers \cup {Loop} -> ThreadRecs] /\ HoldsTask'
    <3>1. At("refresh", NoTask, x) \in ThreadRecs /\ At("refresh", NoTask, x).pc = "refresh"
      BY DEF ThreadPcs, ThreadRecs, At
    <3> QED BY <3>1, <2>3, <1>u, Zenon
  <2> QED BY <2>1, <2>2, <2>3, <1>f, <1>k, <1>s
\* The steps of a caller inside runNow.
<1>9. ASSUME NEW c \in Callers, RunNow(c) \/ LookAgain(c) PROVE Typed'
  <2>1. UNCHANGED <<engine, on, taskMap, queue, popped, pool, task, run, closing, lease, waiting,
                    applier>>
    BY <1>9, Zenon DEF RunNow, LookAgain, engines, places, leases
  <2>a. (calls < MaxCalls /\ calls' = calls + 1) \/ calls' = calls BY <1>9, Zenon DEF RunNow, LookAgain
  <2>2. calls' \in 0 .. MaxCalls BY <2>a, <1>m, <1>r
  <2>3. Rest' BY <2>1, <2>2, <1>r
  <2>4. \/ taskMap \in Tasks /\ thread' = [thread EXCEPT ![c] = At("found", taskMap, NoEngine)]
        \/ thread' = [thread EXCEPT ![c] = At("refresh, then look", NoTask, engine)]
        \/ thread' = [thread EXCEPT ![c] = Idle]
    BY <1>9, <1>r, Zenon DEF RunNow, LookAgain, Found, Refreshing
  <2>5. taskMap \in Tasks => /\ At("found", taskMap, NoEngine) \in ThreadRecs
                             /\ At("found", taskMap, NoEngine).task \in Tasks
    BY DEF ThreadPcs, ThreadRecs, At
  <2>6. /\ At("refresh, then look", NoTask, engine) \in ThreadRecs
        /\ At("refresh, then look", NoTask, engine).pc = "refresh, then look"
    BY <1>r DEF ThreadPcs, ThreadRecs, At
  <2>7. thread' \in [Callers \cup {Loop} -> ThreadRecs] /\ HoldsTask'
    <3>1. CASE taskMap \in Tasks /\ thread' = [thread EXCEPT ![c] = At("found", taskMap, NoEngine)]
      BY <3>1, <2>5, <1>u, Zenon
    <3>2. CASE thread' = [thread EXCEPT ![c] = At("refresh, then look", NoTask, engine)]
      BY <3>2, <2>6, <1>u, Zenon
    <3>3. CASE thread' = [thread EXCEPT ![c] = Idle]
      BY <3>3, IdleTyped, <1>u, Zenon
    <3> QED BY <2>4, <3>1, <3>2, <3>3, Zenon
  <2> QED BY <2>1, <2>3, <2>7, <1>f, <1>s
<1>10. ASSUME NEW c \in Callers, AskRunning(c) \/ Rerun(c) \/ Interrupt(c) PROVE Typed'
  <2> DEFINE t == thread[c].task
  <2>1. UNCHANGED <<engine, on, taskMap, queue, popped, pool, run, closing, lease, waiting,
                    applier, calls>>
    BY <1>10 DEF AskRunning, Rerun, Interrupt, engines, places, leases
  <2>2. Rest' BY <2>1, <1>r
  <2>3. t \in Tasks BY <1>10, <1>t DEF AskRunning, Rerun, Interrupt, HoldsTask
  <2>4. \A pc \in {"rerun", "replace", "publish"} :
          At(pc, t, NoEngine) \in ThreadRecs /\ At(pc, t, NoEngine).task \in Tasks
    BY <2>3, Zenon DEF ThreadPcs, ThreadRecs, At
  <2>5. \/ thread' = [thread EXCEPT ![c] = Idle]
        \/ \E pc \in {"rerun", "replace", "publish"} : thread' = [thread EXCEPT ![c] = At(pc, t, NoEngine)]
    BY <1>10 DEF AskRunning, Rerun, Interrupt
  <2>6. thread' \in [Callers \cup {Loop} -> ThreadRecs] /\ HoldsTask'
    <3> HIDE DEF t
    <3>1. CASE thread' = [thread EXCEPT ![c] = Idle]
      BY <3>1, IdleTyped, <1>u, Zenon
    <3>2. ASSUME NEW pc \in {"rerun", "replace", "publish"},
                 thread' = [thread EXCEPT ![c] = At(pc, t, NoEngine)]
          PROVE  thread' \in [Callers \cup {Loop} -> ThreadRecs] /\ HoldsTask'
      BY <3>2, <2>4, <1>u, Zenon
    <3> QED BY <2>5, <3>1, <3>2
  <2>7. \/ UNCHANGED task
        \/ Collect([task EXCEPT ![t] = SetAsked(task[t], TRUE)])
        \/ task' = [task EXCEPT ![t] = Interrupted(task[t])]
    BY <1>10, Zenon DEF AskRunning, Rerun, Interrupt
  <2>8. task' \in [Tasks -> TaskRecs]
    <3> HIDE DEF t
    <3>1. SetAsked(task[t], TRUE) \in TaskRecs /\ Interrupted(task[t]) \in TaskRecs
      BY <2>3, <1>f, FlagsTyped, Zenon
    <3>2. /\ [task EXCEPT ![t] = SetAsked(task[t], TRUE)] \in [Tasks -> TaskRecs]
          /\ [task EXCEPT ![t] = Interrupted(task[t])] \in [Tasks -> TaskRecs]
      BY <3>1, <2>3, <1>f, Zenon
    <3> QED BY <2>7, <3>2, <1>f, CollectKeeps, Zenon
  <2> QED BY <2>2, <2>6, <2>8, <1>s
<1>11. ASSUME NEW c \in Callers, Publish(c) PROVE Typed'
  <2>1. UNCHANGED <<engine, on, popped, pool, run, closing, lease, waiting, applier, calls>>
    BY <1>11 DEF Publish, engines, leases
  <2>2. thread' = [thread EXCEPT ![c] = Idle] BY <1>11 DEF Publish
  <2>3. thread[c].task \in Tasks BY <1>11, <1>t DEF Publish, HoldsTask
  <2> DEFINE e == task[thread[c].task].engine
  <2>4. e \in Engines \cup {NoEngine} BY <2>3, <1>f DEF TaskRecs
  <2>5. PICK t \in Free : /\ taskMap' = t /\ queue' = queue \cup {t}
                          /\ Collect([task EXCEPT ![t] = Created(e, FALSE, TRUE)])
    BY <1>11, Zenon DEF Publish
  <2>6. t \in Tasks BY DEF Free
  <2>7. Rest' BY <2>1, <2>5, <2>6, <1>r
  <2>8. task' \in [Tasks -> TaskRecs]
    <3> HIDE DEF e
    <3>1. [task EXCEPT ![t] = Created(e, FALSE, TRUE)] \in [Tasks -> TaskRecs]
      BY <2>4, <2>6, <1>f, CreationTyped, Zenon
    <3> QED BY <3>1, <2>5, CollectKeeps, Zenon
  <2>9. thread' \in [Callers \cup {Loop} -> ThreadRecs] /\ HoldsTask'
    BY <2>2, IdleTyped, <1>u, Zenon
  <2> QED BY <2>7, <2>8, <2>9, <1>s
<1>12. CASE ApplyVault \/ ApplyLease \/ Applied \/ Expire
  <2>1. UNCHANGED <<engine, on, taskMap, queue, popped, pool, task, run, closing, thread, calls>>
    BY <1>12, Zenon DEF ApplyVault, ApplyLease, Applied, Expire, engines, places, threads
  <2>2. /\ lease' \in BOOLEAN /\ waiting' \in {"no", "fresh", "old"}
        /\ applier' \in {"idle", "looked", "applying", "scheduling"}
    BY <1>12, <1>r, Zenon DEF ApplyVault, ApplyLease, Applied, Expire, places, leases, threads
  <2>3. Rest' BY <2>1, <2>2, <1>r
  <2> QED BY <2>1, <2>3, <1>f, <1>k, <1>s
<1>13. CASE RunScoped
  <2>1. UNCHANGED <<engine, on, taskMap, queue, popped, run, closing, waiting, thread, calls>>
    BY <1>13 DEF RunScoped, engines
  <2>2. \/ UNCHANGED <<lease, pool, task>>
        \/ /\ engine \in on
           /\ \E t \in Free : /\ lease' = TRUE /\ pool' = pool \cup {t}
                              /\ task' = [task EXCEPT ![t] = Created(engine, TRUE, TRUE)]
    BY <1>13, Zenon DEF RunScoped
  <2>3. applier' = "idle" BY <1>13 DEF RunScoped
  <2>4. lease' \in BOOLEAN /\ pool' \subseteq Tasks BY <2>2, <1>r, Zenon DEF Free
  <2>5. Rest' BY <2>1, <2>3, <2>4, <1>r
  <2>6. task' \in [Tasks -> TaskRecs]
    <3>1. CASE UNCHANGED task BY <3>1, <1>f
    <3>2. ASSUME NEW t \in Free, task' = [task EXCEPT ![t] = Created(engine, TRUE, TRUE)]
          PROVE  task' \in [Tasks -> TaskRecs]
      <4>1. t \in Tasks /\ engine \in Engines \cup {NoEngine} BY <1>r DEF Free
      <4> QED BY <4>1, <3>2, <1>f, CreationTyped, Zenon
    <3> QED BY <2>2, <3>1, <3>2, Zenon
  <2> QED BY <2>1, <2>5, <2>6, <1>k, <1>s
<1> QED
  BY <1>1, <1>2, <1>3, <1>4, <1>5, <1>6, <1>7, <1>8, <1>9, <1>10, <1>11, <1>12, <1>13
  DEF Next, LoopStep, CallStep, ApplierStep

\* Every variable of the scheduler keeps its type: in particular closing never goes below
\* zero, so a lease is given back only by a pass that took it (Cloud.cpp, PassLease).
THEOREM SchedulerTyped == Spec => []TypeOK
<1>1. Spec => []Typed
  BY InitTyped, StepTyped, PTL DEF Spec
<1>2. Typed => TypeOK BY DEF Typed
<1> QED BY <1>1, <1>2, PTL

-----------------------------------------------------------------------------
(***************************************************************************)
(* Places.  The argument: a task moves queue -> popped -> pool -> worker   *)
(* -> queue, each step out of one place into the next, and a new task has  *)
(* a name that is in none of them.                                         *)
(***************************************************************************)
LEMMA StepPlaces == Typed /\ InOnePlace /\ [Next]_vars => InOnePlace'
<1> SUFFICES ASSUME Typed, InOnePlace, [Next]_vars PROVE InOnePlace'
    OBVIOUS
<1>t. /\ run \in [Tasks -> RunPcs] /\ queue \subseteq Tasks /\ pool \subseteq Tasks
      /\ popped \in Tasks \cup {NoTask} /\ NoTask \notin Tasks
  BY SyncAssumption DEF Typed, TypeOK
<1> USE DEF InOnePlace, Running
<1>q. ASSUME UNCHANGED <<queue, pool, popped, run>> PROVE InOnePlace'
  BY <1>q
<1>1. CASE UNCHANGED vars BY <1>1, <1>q DEF vars, places
<1>2. ASSUME NEW t \in Tasks, Pop(t) PROVE InOnePlace'
  BY <1>2, <1>t DEF Pop
<1>3. CASE Submit
  BY <1>3, <1>t DEF Submit
<1>4. ASSUME NEW t \in Tasks, PassStep(t) PROVE InOnePlace'
  <2>1. CASE Take(t)
    <3>1. /\ t \in pool /\ pool' = pool \ {t} /\ UNCHANGED <<queue, popped>>
          /\ \A u \in Tasks \ {t} : run'[u] = run[u]
      BY <2>1, <1>t DEF Take
    <3> QED BY <3>1, <1>t
  <2>2. CASE Denied(t) \/ Requeue(t)
    <3>1. /\ run[t] # "none" /\ run' = [run EXCEPT ![t] = "none"]
          /\ queue' = queue \cup {t} /\ UNCHANGED <<pool, popped>>
      BY <2>2, <1>t DEF Denied, Requeue
    <3> QED BY <3>1, <1>t
  <2>3. CASE StartTask(t) \/ StartFails(t) \/ NewEvent(t) \/ Work(t) \/ Shutdown(t)
    <3>1. /\ run[t] # "none" /\ UNCHANGED <<queue, pool, popped>>
          /\ \E s : run' = [run EXCEPT ![t] = s]
      BY <2>3, <1>t, Zenon DEF StartTask, StartFails, NewEvent, Work, Shutdown, places
    <3> QED BY <3>1, <1>t
  <2> QED BY <1>4, <2>1, <2>2, <2>3 DEF PassStep
<1>5. CASE ReleasePass \/ LoopRefresh \/ ApplyVault \/ ApplyLease \/ Applied \/ Expire
  BY <1>5, <1>q, Zenon DEF ReleasePass, LoopRefresh, ApplyVault, ApplyLease, Applied, Expire, places
\* A new task is queued, or pooled, under a free name.
<1>n. ASSUME NEW t \in Free, UNCHANGED <<popped, run>>,
             \/ queue' = queue \cup {t} /\ UNCHANGED pool
             \/ pool' = pool \cup {t} /\ UNCHANGED queue
      PROVE  InOnePlace'
  <2>1. t \in Tasks /\ t \notin queue /\ t \notin pool /\ run[t] = "none" /\ t # popped
    BY <1>t DEF Free, Referenced
  <2> QED BY <2>1, <1>n, <1>t
<1>6. ASSUME NEW c \in Callers \cup {Loop}, ApplyRefresh(c) PROVE InOnePlace'
  <2>1. /\ UNCHANGED <<popped, pool, run>>
        /\ UNCHANGED queue \/ \E t \in Free : queue' = queue \cup {t}
    BY <1>6, Zenon DEF ApplyRefresh, places
  <2> QED BY <2>1, <1>n, <1>q
<1>7. ASSUME NEW c \in Callers, ChangeEngine(c) \/ RunNow(c) \/ LookAgain(c) \/ AskRunning(c) \/ Rerun(c)
                                 \/ Interrupt(c)
      PROVE  InOnePlace'
  BY <1>7, <1>q, Zenon DEF ChangeEngine, RunNow, LookAgain, AskRunning, Rerun, Interrupt, places
<1>8. ASSUME NEW c \in Callers, Publish(c) PROVE InOnePlace'
  <2>1. UNCHANGED <<popped, pool, run>> /\ \E t \in Free : queue' = queue \cup {t}
    BY <1>8, Zenon DEF Publish
  <2> QED BY <2>1, <1>n
<1>9. CASE RunScoped
  <2>1. /\ UNCHANGED <<queue, popped, run>>
        /\ UNCHANGED pool \/ \E t \in Free : pool' = pool \cup {t}
    BY <1>9, Zenon DEF RunScoped
  <2> QED BY <2>1, <1>n, <1>q
<1> QED
  BY <1>1, <1>2, <1>3, <1>4, <1>5, <1>6, <1>7, <1>8, <1>9
  DEF Next, LoopStep, CallStep, ApplierStep

\* A task object is never queued twice and never queued while a worker is inside it
\* (Controller.cpp runLoop and requeue, Local::shutdown).
THEOREM TaskInOnePlace == Spec => []InOnePlace
<1>1. Init => InOnePlace
  BY SyncAssumption DEF Init, InOnePlace, Running
<1>2. Init => Typed /\ InOnePlace BY <1>1, InitTyped
<1>3. (Typed /\ InOnePlace) /\ [Next]_vars => (Typed /\ InOnePlace)' BY StepTyped, StepPlaces
<1> QED BY <1>2, <1>3, PTL DEF Spec

-----------------------------------------------------------------------------
(***************************************************************************)
(* The lease.  OneLeaseHolder is inductive relative to the types, to       *)
(* InOnePlace and to the fact that scoped passes never pass through the    *)
(* controller's queue: the lease is taken only when it is free, moves with *)
(* its holder from the pool to the worker and from the worker to the guard *)
(* that is about to be destroyed.                                          *)
(***************************************************************************)

\* A scoped pass is submitted by runScoped, never queued, denied or requeued
\* (Cloud::requeueAfterRun).
QueuedIsRegular ==
    \A t \in Tasks : t \in queue \/ t = popped \/ run[t] \in {"denied", "requeueing"} =>
                       ~task[t].scoped

\* A task keeps the scope it was created with as long as something refers to it.
LEMMA ScopeKept ==
    ASSUME Typed, [Next]_vars, NEW u \in Referenced, u \in Referenced'
    PROVE  u \in Tasks /\ task'[u].scoped = task[u].scoped
<1>t. /\ task \in [Tasks -> TaskRecs] /\ taskMap \in Tasks \cup {NoTask} /\ HoldsTask
      /\ thread \in [Callers \cup {Loop} -> ThreadRecs]
  BY DEF Typed, TypeOK, ThreadRecs
<1>u. u \in Tasks
  BY <1>t DEF Referenced, Running, Typed, TypeOK, ThreadRecs
<1>c. ASSUME NEW f \in [Tasks -> TaskRecs], Collect(f), f[u].scoped = task[u].scoped
      PROVE  task'[u].scoped = task[u].scoped
  BY <1>c, <1>u, CollectKeeps
<1>k. Collect(task) => task'[u].scoped = task[u].scoped BY <1>c, <1>t
\* Setting a flag of task t.
<1>f. ASSUME NEW t \in Tasks, NEW r \in TaskRecs, r.scoped = task[t].scoped
      PROVE  /\ [task EXCEPT ![t] = r] \in [Tasks -> TaskRecs]
             /\ [task EXCEPT ![t] = r][u].scoped = task[u].scoped
  BY <1>f, <1>t, <1>u
\* Creating a task under a free name.
<1>n. ASSUME NEW f \in [Tasks -> TaskRecs], NEW t \in Free, NEW r \in TaskRecs
      PROVE  /\ [f EXCEPT ![t] = r] \in [Tasks -> TaskRecs]
             /\ [f EXCEPT ![t] = r][u].scoped = f[u].scoped
  BY <1>u DEF Free
<1>1. CASE UNCHANGED task BY <1>1, <1>u
<1>2. CASE Submit BY <1>2, <1>k, <1>u DEF Submit
<1>3. ASSUME NEW t \in Tasks, PassStep(t) PROVE task'[u].scoped = task[u].scoped
  <2>1. \A b \in BOOLEAN : /\ SetRunning(task[t], b) \in TaskRecs
                           /\ SetRunning(task[t], b).scoped = task[t].scoped
                           /\ SetAsked(task[t], b) \in TaskRecs
                           /\ SetAsked(task[t], b).scoped = task[t].scoped
    BY <1>t, FlagsTyped
  <2>2. \/ UNCHANGED task
        \/ Collect(task)
        \/ task' = [task EXCEPT ![t] = SetRunning(task[t], TRUE)]
        \/ task' = [task EXCEPT ![t] = SetAsked(task[t], FALSE)]
        \/ Collect([task EXCEPT ![t] = SetRunning(task[t], FALSE)])
    BY <1>3, Zenon DEF PassStep, Take, Denied, StartTask, StartFails, NewEvent, Work, Shutdown, Requeue
  <2>3. CASE task' = [task EXCEPT ![t] = SetRunning(task[t], TRUE)] BY <2>3, <2>1, <1>f, Zenon
  <2>4. CASE task' = [task EXCEPT ![t] = SetAsked(task[t], FALSE)] BY <2>4, <2>1, <1>f, Zenon
  <2>5. CASE Collect([task EXCEPT ![t] = SetRunning(task[t], FALSE)])
    <3>1. /\ [task EXCEPT ![t] = SetRunning(task[t], FALSE)] \in [Tasks -> TaskRecs]
          /\ [task EXCEPT ![t] = SetRunning(task[t], FALSE)][u].scoped = task[u].scoped
      BY <2>1, <1>f, Zenon
    <3> QED BY <3>1, <2>5, <1>c, Zenon
  <2> QED BY <2>2, <2>3, <2>4, <2>5, <1>1, <1>k, <1>u, Zenon
<1>4. ASSUME NEW c \in Callers \cup {Loop}, ApplyRefresh(c) PROVE task'[u].scoped = task[u].scoped
  <2> DEFINE e == thread[c].engine
             stopped == IF taskMap = NoTask THEN task
                        ELSE [task EXCEPT ![taskMap] = Interrupted(task[taskMap])]
  <2>1. stopped \in [Tasks -> TaskRecs] /\ stopped[u].scoped = task[u].scoped
    <3>1. CASE taskMap = NoTask BY <3>1, <1>t
    <3>2. CASE taskMap # NoTask
      <4>1. taskMap \in Tasks BY <3>2, <1>t
      <4>2. /\ Interrupted(task[taskMap]) \in TaskRecs
            /\ Interrupted(task[taskMap]).scoped = task[taskMap].scoped
        BY <4>1, <1>t, FlagsTyped, Zenon
      <4> QED BY <4>1, <4>2, <3>2, <1>f
    <3> QED BY <3>1, <3>2
  <2>2. \/ Collect(task) \/ Collect(stopped)
        \/ \E t \in Free : Collect([stopped EXCEPT ![t] = Created(e, FALSE, FALSE)])
    BY <1>4, Zenon DEF ApplyRefresh
  <2>3. Created(e, FALSE, FALSE) \in TaskRecs
    <3>1. e \in Engines \cup {NoEngine} BY <1>t DEF ThreadRecs
    <3> QED BY <3>1, CreatedTyped, Zenon
  <2> HIDE DEF stopped, e
  <2>4. CASE Collect(stopped) BY <2>4, <2>1, <1>c
  <2>5. ASSUME NEW t \in Free, Collect([stopped EXCEPT ![t] = Created(e, FALSE, FALSE)])
        PROVE  task'[u].scoped = task[u].scoped
    <3>1. /\ [stopped EXCEPT ![t] = Created(e, FALSE, FALSE)] \in [Tasks -> TaskRecs]
          /\ [stopped EXCEPT ![t] = Created(e, FALSE, FALSE)][u].scoped = task[u].scoped
      <4>1. t \in Tasks /\ t # u BY DEF Free
      <4> QED BY <4>1, <2>1, <2>3, <1>u, Zenon
    <3> QED BY <3>1, <2>5, <1>c, Zenon
  <2> QED BY <2>2, <2>4, <2>5, <1>k, Zenon
<1>5. ASSUME NEW c \in Callers, Rerun(c) \/ Interrupt(c) PROVE task'[u].scoped = task[u].scoped
  <2> DEFINE t == thread[c].task
  <2>1. t \in Tasks BY <1>5, <1>t DEF Rerun, Interrupt, HoldsTask
  <2>2. \/ Collect([task EXCEPT ![t] = SetAsked(task[t], TRUE)])
        \/ task' = [task EXCEPT ![t] = Interrupted(task[t])]
    BY <1>5, Zenon DEF Rerun, Interrupt
  <2> HIDE DEF t
  <2>3. /\ SetAsked(task[t], TRUE) \in TaskRecs /\ SetAsked(task[t], TRUE).scoped = task[t].scoped
        /\ Interrupted(task[t]) \in TaskRecs /\ Interrupted(task[t]).scoped = task[t].scoped
    BY <2>1, <1>t, FlagsTyped, Zenon
  <2>4. /\ [task EXCEPT ![t] = SetAsked(task[t], TRUE)] \in [Tasks -> TaskRecs]
        /\ [task EXCEPT ![t] = SetAsked(task[t], TRUE)][u].scoped = task[u].scoped
        /\ [task EXCEPT ![t] = Interrupted(task[t])][u].scoped = task[u].scoped
    BY <2>1, <2>3, <1>f, Zenon
  <2> QED BY <2>2, <2>4, <1>c, Zenon
<1>6. ASSUME NEW c \in Callers, Publish(c) PROVE task'[u].scoped = task[u].scoped
  <2>1. thread[c].task \in Tasks BY <1>6, <1>t DEF Publish, HoldsTask
  <2> DEFINE r == Created(task[thread[c].task].engine, FALSE, TRUE)
  <2>2. r \in TaskRecs
    <3>1. task[thread[c].task].engine \in Engines \cup {NoEngine} BY <2>1, <1>t DEF TaskRecs
    <3> QED BY <3>1, CreatedTyped, Zenon
  <2>3. PICK t \in Free : Collect([task EXCEPT ![t] = r])
    BY <1>6, Zenon DEF Publish
  <2> HIDE DEF r
  <2>4. [task EXCEPT ![t] = r] \in [Tasks -> TaskRecs] /\ [task EXCEPT ![t] = r][u].scoped = task[u].scoped
    BY <2>2, <1>t, <1>n
  <2> QED BY <2>3, <2>4, <1>c, Zenon
<1>7. CASE RunScoped
  <2>1. UNCHANGED task \/ \E t \in Free : task' = [task EXCEPT ![t] = Created(engine, TRUE, TRUE)]
    BY <1>7, Zenon DEF RunScoped
  <2> QED BY <2>1, <1>1, <1>t, <1>u, Zenon DEF Free
<1>8. CASE UNCHANGED vars BY <1>8, <1>1 DEF vars
<1>9. CASE \/ \E t \in Tasks : Pop(t)
           \/ LoopRefresh \/ ReleasePass \/ ApplyVault \/ ApplyLease \/ Applied \/ Expire
           \/ \E c \in Callers : ChangeEngine(c) \/ RunNow(c) \/ LookAgain(c) \/ AskRunning(c)
  <2>1. UNCHANGED task
    BY <1>9, Zenon DEF Pop, LoopRefresh, ReleasePass, ApplyVault, ApplyLease, Applied, Expire, ChangeEngine, RunNow,
                LookAgain, AskRunning
  <2> QED BY <2>1, <1>1
<1> QED
  BY <1>2, <1>3, <1>4, <1>5, <1>6, <1>7, <1>8, <1>9, <1>u, Zenon
  DEF Next, LoopStep, CallStep, ApplierStep

\* Scoped passes stay out of the queue.
LEMMA StepRegular ==
    Typed /\ Typed' /\ InOnePlace /\ QueuedIsRegular /\ [Next]_vars => QueuedIsRegular'
<1> SUFFICES ASSUME Typed, Typed', InOnePlace, QueuedIsRegular, [Next]_vars, NEW u \in Tasks,
                    (u \in queue \/ u = popped \/ run[u] \in {"denied", "requeueing"})'
             PROVE  ~task'[u].scoped
    BY DEF QueuedIsRegular
<1>t. /\ run \in [Tasks -> RunPcs] /\ queue \subseteq Tasks /\ popped \in Tasks \cup {NoTask}
      /\ NoTask \notin Tasks /\ task \in [Tasks -> TaskRecs]
      /\ thread \in [Callers \cup {Loop} -> ThreadRecs]
      /\ run' \in [Tasks -> RunPcs]
  BY SyncAssumption DEF Typed, TypeOK, ThreadRecs
<1>r. u \in Referenced' BY <1>t DEF Referenced, Running
\* A task that was regular already keeps its scope.
<1>k. CASE u \in queue \/ u = popped \/ run[u] \in {"denied", "requeueing"}
  <2>1. u \in Referenced BY <1>k, <1>t DEF Referenced, Running
  <2>2. ~task[u].scoped BY <1>k DEF QueuedIsRegular
  <2> QED BY <2>1, <2>2, <1>r, ScopeKept
\* A running regular pass is denied, or goes on to requeue.
<1>d. CASE /\ run[u] # "none" \/ u \in pool
           /\ ~task[u].scoped
  <2>1. u \in Referenced BY <1>d, <1>t DEF Referenced, Running
  <2> QED BY <2>1, <1>d, <1>r, ScopeKept
<1>1. CASE UNCHANGED <<queue, popped, run>> BY <1>1, <1>k
<1>2. ASSUME NEW t \in Tasks, Pop(t) PROVE ~task'[u].scoped
  BY <1>2, <1>k, <1>t DEF Pop
<1>3. CASE Submit
  BY <1>3, <1>k, <1>t DEF Submit
<1>4. ASSUME NEW t \in Tasks, PassStep(t) PROVE ~task'[u].scoped
  <2>1. CASE Take(t) BY <2>1, <1>k, <1>d, <1>t DEF Take
  <2>2. CASE Denied(t) \/ Requeue(t) BY <2>2, <1>k, <1>t DEF Denied, Requeue
  <2>3. CASE StartTask(t) \/ StartFails(t) \/ NewEvent(t) \/ Work(t)
    <3>1. UNCHANGED <<queue, popped>> /\ \E s \in RunPcs \ {"denied", "requeueing"} : run' = [run EXCEPT ![t] = s]
      BY <2>3, Zenon DEF StartTask, StartFails, NewEvent, Work, places, RunPcs
    <3> QED BY <3>1, <1>k, <1>t
  <2>4. CASE Shutdown(t)
    <3>1. /\ UNCHANGED <<queue, popped>> /\ run[t] # "none"
          /\ \/ ~task[t].scoped /\ run' = [run EXCEPT ![t] = "requeueing"]
             \/ run' = [run EXCEPT ![t] = "none"]
      BY <2>4 DEF Shutdown, places
    <3> QED BY <3>1, <1>k, <1>d, <1>t
  <2> QED BY <1>4, <2>1, <2>2, <2>3, <2>4 DEF PassStep
\* The controller's new tasks are regular.
<1>n. ASSUME NEW f \in [Tasks -> TaskRecs], NEW t \in Tasks, NEW e \in Engines \cup {NoEngine},
             NEW a \in BOOLEAN, Collect([f EXCEPT ![t] = Created(e, FALSE, a)]),
             queue' = queue \cup {t}, UNCHANGED <<popped, run>>
      PROVE  ~task'[u].scoped
  <2>1. CASE u = t
    <3>1. [f EXCEPT ![t] = Created(e, FALSE, a)] \in [Tasks -> TaskRecs] BY CreationTyped, Zenon
    <3>2. task'[u] = [f EXCEPT ![t] = Created(e, FALSE, a)][u] BY <3>1, <1>n, <1>r, CollectKeeps, Zenon
    <3>3. task'[u] = Created(e, FALSE, a) BY <3>2, <2>1
    <3> QED BY <3>3, CreatedTyped, Zenon
  <2> QED BY <2>1, <1>k, <1>n
<1>5. ASSUME NEW c \in Callers \cup {Loop}, ApplyRefresh(c) PROVE ~task'[u].scoped
  <2> DEFINE e == thread[c].engine
             stopped == IF taskMap = NoTask THEN task
                        ELSE [task EXCEPT ![taskMap] = Interrupted(task[taskMap])]
  <2>1. /\ UNCHANGED <<popped, run>>
        /\ \/ UNCHANGED queue
           \/ \E t \in Free : /\ queue' = queue \cup {t}
                              /\ Collect([stopped EXCEPT ![t] = Created(e, FALSE, FALSE)])
    BY <1>5, Zenon DEF ApplyRefresh, places
  <2>2. stopped \in [Tasks -> TaskRecs]
    <3>1. ASSUME taskMap # NoTask PROVE taskMap \in Tasks /\ Interrupted(task[taskMap]) \in TaskRecs
      BY <3>1, <1>t, FlagsTyped DEF Typed, TypeOK
    <3> QED BY <3>1, <1>t
  <2>3. e \in Engines \cup {NoEngine} BY <1>t DEF ThreadRecs
  <2> HIDE DEF e, stopped
  <2>4. ASSUME NEW t \in Free, queue' = queue \cup {t},
               Collect([stopped EXCEPT ![t] = Created(e, FALSE, FALSE)])
        PROVE  ~task'[u].scoped
    <3>1. t \in Tasks BY DEF Free
    <3> QED BY <3>1, <2>1, <2>2, <2>3, <2>4, <1>n, Zenon
  <2> QED BY <2>1, <2>4, <1>1, Zenon
<1>6. ASSUME NEW c \in Callers, Publish(c) PROVE ~task'[u].scoped
  <2> DEFINE e == task[thread[c].task].engine
  <2>1. e \in Engines \cup {NoEngine}
    BY <1>6, <1>t DEF Publish, Typed, HoldsTask, TaskRecs
  <2>2. UNCHANGED <<popped, run>> BY <1>6 DEF Publish
  <2>3. PICK t \in Free : queue' = queue \cup {t} /\ Collect([task EXCEPT ![t] = Created(e, FALSE, TRUE)])
    BY <1>6, Zenon DEF Publish
  <2> HIDE DEF e
  <2>4. t \in Tasks BY DEF Free
  <2> QED BY <2>1, <2>2, <2>3, <2>4, <1>t, <1>n, Zenon
<1>7. CASE UNCHANGED vars BY <1>7, <1>1 DEF vars, places
<1>8. CASE LoopRefresh \/ ReleasePass \/ ApplyVault \/ ApplyLease \/ Applied \/ Expire \/ RunScoped
  BY <1>8, <1>1, Zenon DEF LoopRefresh, ReleasePass, ApplyVault, ApplyLease, Applied, Expire, RunScoped, places
<1>9. ASSUME NEW c \in Callers,
             \/ ChangeEngine(c) \/ RunNow(c) \/ LookAgain(c)
             \/ AskRunning(c) \/ Rerun(c) \/ Interrupt(c)
      PROVE  ~task'[u].scoped
  BY <1>9, <1>1, Zenon DEF ChangeEngine, RunNow, LookAgain, AskRunning, Rerun, Interrupt, places
<1> QED
  BY <1>2, <1>3, <1>4, <1>5, <1>6, <1>7, <1>8, <1>9
  DEF Next, LoopStep, CallStep, ApplierStep

\* Every step hands the lease from one holder to the next or leaves it alone.
LEMMA StepLease ==
    Typed /\ Typed' /\ InOnePlace /\ QueuedIsRegular /\ OneLeaseHolder /\ [Next]_vars => OneLeaseHolder'
<1> SUFFICES ASSUME Typed, Typed', InOnePlace, QueuedIsRegular, OneLeaseHolder, [Next]_vars, S3
             PROVE  OneLeaseHolder'
    BY DEF OneLeaseHolder
<1>t. /\ run \in [Tasks -> RunPcs] /\ pool \subseteq Tasks /\ closing \in Nat /\ lease \in BOOLEAN
      /\ popped \in Tasks \cup {NoTask} /\ NoTask \notin Tasks /\ task \in [Tasks -> TaskRecs]
      /\ run' \in [Tasks -> RunPcs] /\ pool' \subseteq Tasks
  BY SyncAssumption DEF Typed, TypeOK
<1>h. /\ \A x, y \in Leased : x = y
      /\ closing \in {0, 1}
      /\ Leased # {} => closing = 0 /\ applier # "applying"
      /\ applier = "applying" => closing = 0
      /\ lease <=> (Leased # {} \/ closing = 1 \/ applier = "applying")
  BY DEF OneLeaseHolder
<1>p. \A x \in Tasks : x \in pool => run[x] = "none" BY DEF InOnePlace, Running
<1>a. Leased \subseteq Tasks /\ Leased' \subseteq Tasks
  BY <1>t DEF Leased, Running
<1>b. \A x \in Tasks : x \in Leased <=> \/ run[x] \notin {"none", "denied"}
                                        \/ (x \in pool /\ task[x].scoped)
  BY Zenon DEF Leased, Running
<1>c. \A x \in Tasks : x \in Leased' <=> \/ run'[x] \notin {"none", "denied"}
                                         \/ (x \in pool' /\ task'[x].scoped)
  BY Zenon DEF Leased, Running
<1>l. /\ Leased \subseteq Tasks /\ Leased' \subseteq Tasks
      /\ \A x \in Tasks : x \in Leased <=> \/ run[x] \notin {"none", "denied"}
                                            \/ (x \in pool /\ task[x].scoped)
      /\ \A x \in Tasks : x \in Leased' <=> \/ run'[x] \notin {"none", "denied"}
                                             \/ (x \in pool' /\ task'[x].scoped)
  BY <1>a, <1>b, <1>c
\* What waits in the pool keeps its scope.
<1>s. \A x \in pool \cap pool' : task'[x].scoped = task[x].scoped
  BY ScopeKept DEF Referenced
\* A step that leaves the set of passes inside the lease alone, and the lease too.
<1>q. ASSUME Leased' = Leased, UNCHANGED <<closing, lease>>,
             applier' = applier \/ (applier # "applying" /\ applier' # "applying")
      PROVE  OneLeaseHolder'
  BY <1>q, <1>h DEF OneLeaseHolder
<1>e. ASSUME UNCHANGED <<run, pool>> PROVE Leased' = Leased
  BY <1>e, <1>l, <1>s, Zenon
\* The pass of t leaves the worker: its guard is about to release the lease.
<1>x. ASSUME NEW t \in Tasks, run[t] \notin {"none", "denied"}, run' = [run EXCEPT ![t] = "none"],
             closing' = closing + 1, UNCHANGED <<pool, lease, applier>>
      PROVE  OneLeaseHolder'
  <2>1. t \in Leased /\ Leased = {t} /\ t \notin pool BY <1>x, <1>l, <1>h, <1>p
  <2>2. \A x \in Tasks : x \notin Leased'
    <3> SUFFICES ASSUME NEW x \in Tasks, x \in Leased' PROVE FALSE OBVIOUS
    <3>1. x # t BY <2>1, <1>x, <1>l, <1>t
    <3>2. x \in Leased BY <3>1, <1>x, <1>l, <1>s, <1>t
    <3> QED BY <3>1, <3>2, <2>1
  <2>3. Leased' = {} BY <2>2, <1>l
  <2> QED BY <2>1, <2>3, <1>h, <1>x DEF OneLeaseHolder
<1>1. CASE UNCHANGED vars BY <1>1, <1>e, <1>q DEF vars, places, leases, threads
<1>2. CASE Submit
  <2>1. /\ UNCHANGED <<run, closing, lease, applier>>
        /\ pool' = pool \/ pool' = pool \cup {popped}
    BY <1>2 DEF Submit, leases, threads
  <2>2. popped # NoTask /\ popped \in Tasks /\ popped \in Referenced
    BY <1>2, <1>t DEF Submit, Referenced
  <2>3. ~task[popped].scoped BY <2>2 DEF QueuedIsRegular
  <2>4. popped \in pool' => ~task'[popped].scoped
    <3> SUFFICES ASSUME popped \in pool' PROVE ~task'[popped].scoped OBVIOUS
    <3>1. popped \in Referenced' BY DEF Referenced
    <3> QED BY <3>1, <2>2, <2>3, ScopeKept
  <2>5. \A x \in Tasks : x \in Leased' <=> x \in Leased
    BY <2>1, <2>2, <2>3, <2>4, <1>l, <1>s
  <2>6. Leased' = Leased BY <2>5, <1>l, Zenon
  <2> QED BY <2>1, <2>6, <1>q
<1>3. ASSUME NEW t \in Tasks, PassStep(t) PROVE OneLeaseHolder'
  <2>1. CASE Take(t)
    <3>1. t \in pool /\ pool' = pool \ {t} /\ UNCHANGED <<closing, applier>>
      BY <2>1 DEF Take, threads
    <3>2. CASE ~task[t].scoped /\ lease
      <4>1. run' = [run EXCEPT ![t] = "denied"] /\ UNCHANGED lease
        BY <2>1, <3>2 DEF Take, leases
      <4>2. \A x \in Tasks : x \in Leased' <=> x \in Leased
        BY <4>1, <3>1, <3>2, <1>l, <1>s, <1>p, <1>t
      <4> QED BY <3>1, <4>1, <4>2, <1>l, <1>q, Zenon
    <3>3. CASE task[t].scoped \/ ~lease
      <4>1. run' = [run EXCEPT ![t] = "entered"] /\ lease' = TRUE
        BY <2>1, <3>3, <1>t, Zenon DEF Take
      <4>2. closing = 0 /\ applier # "applying" /\ Leased \subseteq {t}
        BY <3>1, <3>3, <1>l, <1>h
      <4>3. \A x \in Tasks : x \in Leased' <=> x = t
        BY <4>1, <4>2, <3>1, <1>l, <1>s, <1>t
      <4>4. Leased' = {t} BY <4>3, <1>l
      <4> QED BY <3>1, <4>1, <4>2, <4>4 DEF OneLeaseHolder
    <3> QED BY <3>2, <3>3, <1>t
  <2>2. CASE Denied(t)
    <3>1. /\ run[t] = "denied" /\ run' = [run EXCEPT ![t] = "none"]
          /\ UNCHANGED <<pool, lease, closing, applier>>
      BY <2>2 DEF Denied, threads
    <3>2. \A x \in Tasks : x \in Leased' <=> x \in Leased BY <3>1, <1>l, <1>s, <1>t
    <3> QED BY <3>1, <3>2, <1>l, <1>q, Zenon
  <2>3. CASE StartTask(t) \/ NewEvent(t) \/ Work(t)
    <3>1. /\ run[t] \notin {"none", "denied"} /\ UNCHANGED <<pool, lease, closing, applier>>
          /\ \E r \in RunPcs \ {"none", "denied"} : run' = [run EXCEPT ![t] = r]
      BY <2>3, Zenon DEF StartTask, NewEvent, Work, places, leases, threads, RunPcs
    <3>2. \A x \in Tasks : x \in Leased' <=> x \in Leased BY <3>1, <1>l, <1>s, <1>t
    <3> QED BY <3>1, <3>2, <1>l, <1>q
  <2>4. CASE StartFails(t)
    BY <2>4, <1>x, Zenon DEF StartFails, places, leases, threads
  <2>5. CASE Shutdown(t)
    <3>1. /\ run[t] \in {"success", "error"} /\ UNCHANGED <<pool, lease, applier>>
          /\ \/ run' = [run EXCEPT ![t] = "requeueing"] /\ UNCHANGED closing
             \/ run' = [run EXCEPT ![t] = "none"] /\ closing' = closing + 1
      BY <2>5 DEF Shutdown, places, leases, threads
    <3>2. CASE run' = [run EXCEPT ![t] = "requeueing"] /\ UNCHANGED closing
      <4>1. \A x \in Tasks : x \in Leased' <=> x \in Leased BY <3>1, <3>2, <1>l, <1>s, <1>t
      <4> QED BY <3>1, <3>2, <4>1, <1>l, <1>q
    <3> QED BY <3>1, <3>2, <1>x
  <2>6. CASE Requeue(t)
    BY <2>6, <1>x, Zenon DEF Requeue, leases, threads
  <2> QED BY <1>3, <2>1, <2>2, <2>3, <2>4, <2>5, <2>6 DEF PassStep
<1>4. CASE ReleasePass
  <2>1. closing > 0 /\ closing' = closing - 1 /\ lease' = FALSE /\ UNCHANGED <<run, pool, applier>>
    BY <1>4 DEF ReleasePass, places, threads
  <2>2. closing = 1 /\ Leased = {} /\ applier # "applying" /\ closing' = 0 BY <2>1, <1>h, <1>t
  <2>3. Leased' = {} BY <2>1, <2>2, <1>e
  <2> QED BY <2>1, <2>2, <2>3 DEF OneLeaseHolder
<1>5. CASE ApplyLease /\ ~lease
  <2>1. ~lease /\ lease' = TRUE /\ applier' = "applying" /\ UNCHANGED <<run, pool, closing>>
    BY <1>5 DEF ApplyLease, places
  <2>2. Leased' = {} /\ closing' = 0 BY <2>1, <1>h, <1>e
  <2> QED BY <2>1, <2>2 DEF OneLeaseHolder
<1>6. CASE Applied
  <2>1. /\ applier = "applying" /\ lease' = FALSE /\ applier' # "applying"
        /\ UNCHANGED <<run, pool, closing>>
    BY <1>6 DEF Applied, places
  <2>2. Leased' = {} /\ closing' = 0 BY <2>1, <1>h, <1>e
  <2> QED BY <2>1, <2>2 DEF OneLeaseHolder
<1>7. CASE RunScoped
  <2>1. UNCHANGED <<run, closing>> /\ applier = "scheduling" /\ applier' = "idle"
    BY <1>7 DEF RunScoped
  <2>2. \/ UNCHANGED <<lease, pool>>
        \/ /\ ~lease /\ lease' = TRUE
           /\ \E t \in Free : /\ pool' = pool \cup {t}
                              /\ task' = [task EXCEPT ![t] = Created(engine, TRUE, TRUE)]
    BY <1>7, Zenon DEF RunScoped
  <2>3. CASE UNCHANGED <<lease, pool>>
    <3>1. Leased' = Leased BY <2>1, <2>3, <1>e
    <3> QED BY <2>1, <2>3, <3>1, <1>q
  <2>4. ASSUME ~lease, lease' = TRUE, NEW t \in Free, pool' = pool \cup {t},
               task' = [task EXCEPT ![t] = Created(engine, TRUE, TRUE)]
        PROVE  OneLeaseHolder'
    <3>1. t \in Tasks BY DEF Free
    <3>2. Leased = {} /\ closing = 0 BY <2>4, <1>h
    <3>3. task'[t] = Created(engine, TRUE, TRUE) BY <3>1, <2>4, <1>t
    <3>4. Created(engine, TRUE, TRUE).scoped BY DEF Created
    <3>5. \A x \in Tasks : x \in Leased' <=> x = t
      BY <2>1, <2>4, <3>1, <3>2, <3>3, <3>4, <1>l, <1>s, Zenon
    <3>6. Leased' = {t} BY <3>1, <3>5, <1>l
    <3> QED BY <2>1, <2>4, <3>2, <3>6 DEF OneLeaseHolder
  <2> QED BY <2>2, <2>3, <2>4, Zenon
<1>8. ASSUME \/ \E t \in Tasks : Pop(t)
             \/ LoopRefresh \/ Expire
             \/ \E c \in Callers \cup {Loop} : ApplyRefresh(c)
             \/ \E c \in Callers : \/ ChangeEngine(c) \/ RunNow(c) \/ LookAgain(c) \/ AskRunning(c)
                                   \/ Rerun(c) \/ Interrupt(c) \/ Publish(c)
      PROVE  OneLeaseHolder'
  <2>1. UNCHANGED <<run, pool, closing, lease, applier>>
    BY <1>8, Zenon DEF Pop, LoopRefresh, Expire, ApplyRefresh, ChangeEngine, RunNow, LookAgain, AskRunning,
                Rerun, Interrupt, Publish, places, leases, threads
  <2> QED BY <2>1, <1>e, <1>q
<1>9. CASE ApplyVault \/ (ApplyLease /\ lease)
  <2>1. /\ UNCHANGED <<run, pool, closing, lease>>
        /\ applier # "applying" /\ applier' # "applying"
    BY <1>9, <1>t, Zenon DEF ApplyVault, ApplyLease, places, leases
  <2> QED BY <2>1, <1>e, <1>q
<1> QED
  BY <1>1, <1>2, <1>3, <1>4, <1>5, <1>6, <1>7, <1>8, <1>9
  DEF Next, LoopStep, CallStep, ApplierStep

\* For an S3 vault the lease is held exactly while one pass, one guard about to be destroyed,
\* or the applier's batch holds it: one pass per vault at a time, however runNow, refreshes,
\* retirements, failures and events interleave (Controller.hpp: "One pass per vault at a time").
THEOREM OnePassPerVault == Spec => []OneLeaseHolder
<1> DEFINE IInv == Typed /\ InOnePlace /\ QueuedIsRegular /\ OneLeaseHolder
<1>1. Init => IInv
  <2> SUFFICES ASSUME Init PROVE IInv OBVIOUS
  <2>1. InOnePlace BY SyncAssumption DEF Init, InOnePlace, Running
  <2>2. QueuedIsRegular BY SyncAssumption DEF Init, QueuedIsRegular
  <2>3. Leased = {} BY DEF Init, Leased, Running
  <2>4. OneLeaseHolder BY <2>3 DEF Init, OneLeaseHolder
  <2> QED BY <2>1, <2>2, <2>4, InitTyped
<1>2. IInv /\ [Next]_vars => IInv'
  BY StepTyped, StepPlaces, StepRegular, StepLease
<1>3. IInv => OneLeaseHolder OBVIOUS
<1> QED BY <1>1, <1>2, <1>3, PTL DEF Spec
=============================================================================
