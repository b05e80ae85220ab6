--------------------------- MODULE ExecutorProofs ---------------------------
(***************************************************************************)
(* Theorems about Executor, for every set of tasks and clients and every   *)
(* capacity.  IInv is the inductive invariant: TypeOK, NoLostWakeup and    *)
(* IndexInPool are none of them inductive without its other conjuncts.     *)
(* The second part proves that Executor implements TaskPool.               *)
(***************************************************************************)
EXTENDS Executor, SequenceTheorems, TLAPS

\* The executor's mutex is held exactly between Dispatch and NotifyAndAdvance.
MutexInv == \A s \in Thread : spc[s] \in {"enqueue", "notify"} <=> mutex = s

\* A thread inside operator>> carries a task, and so does a running worker.
CarryInv ==
  /\ \A s \in Thread : spc[s] # "idle" => stask[s] \in Task
  /\ \A w \in Worker : pc[w] = "run" => func[w] \in Task

\* The pool and the round-robin index grow in step until the pool is full.
PoolInv ==
  /\ poolSize < Capacity =>
       workerIndex = IF mutex = NoOne THEN poolSize ELSE poolSize - 1
  /\ mutex # NoOne => workerIndex < poolSize
  /\ \A w \in Worker : pc[w] = "absent" <=> w >= poolSize

\* Nobody submits during the destructor, and nothing stops before it.
LifetimeInv ==
  /\ dpc # "alive" => \A s \in Thread : spc[s] = "idle"
  /\ \A w \in Worker : pc[w] \in {"exited", "joined"} => stop[w]
  /\ \A w \in Worker : stop[w] => dpc # "alive"
  /\ dpc \in {"notify", "join"} => doomed \in Worker
  /\ HasJthread => dpc # "notify"

\* A worker that decided to sleep, and still holds its mutex, has nothing to
\* wake up for.
BlockInv ==
  \A w \in Worker :
    pc[w] = "block" => taskQueue[w] = <<>> /\ (HasJthread \/ ~stop[w])

\* NoLostWakeup for tasks in every build, and for the stop signal in a build
\* without std::jthread.
WakeupInv ==
  \A w \in Worker :
    pc[w] = "blocked" =>
      /\ taskQueue[w] # <<>> => \E s \in Thread : spc[s] = "notify" /\ workerIndex = w
      /\ ~HasJthread /\ stop[w] => dpc = "notify" /\ doomed = w

IInv ==
  /\ TypeOK
  /\ MutexInv
  /\ CarryInv
  /\ PoolInv
  /\ LifetimeInv
  /\ BlockInv
  /\ WakeupInv

-----------------------------------------------------------------------------
\* The constants' assumptions as the steps below use them.
LEMMA ConstantFacts ==
  /\ Capacity \in Nat \ {0}
  /\ Worker = 0..(Capacity - 1)
  /\ Thread = Client \cup Worker
  /\ NoOne \notin Task /\ NoOne \notin Thread /\ NoOne \notin Worker
  /\ HasJthread \in BOOLEAN
BY CapacityAssumption, NoOneAssumption, JthreadAssumption DEF Worker, Thread

\* The round-robin index wraps to 0 exactly at the capacity of the pool.
LEMMA NextIndexWraps ==
  ASSUME NEW i \in Worker
  PROVE  (i + 1) % Capacity = IF i + 1 = Capacity THEN 0 ELSE i + 1
<1>1. CASE i + 1 = Capacity
  BY <1>1, ConstantFacts
<1>2. CASE i + 1 < Capacity
  BY <1>2, ConstantFacts
<1> QED
  BY <1>1, <1>2, ConstantFacts

\* The initial states satisfy the inductive invariant.
LEMMA InitIInv == Init => IInv
<1> SUFFICES ASSUME Init PROVE IInv
  OBVIOUS
<1> USE ConstantFacts DEF Init
<1>1. TypeOK
  BY DEF TypeOK, WorkerPc
<1>2. MutexInv /\ CarryInv /\ LifetimeInv /\ BlockInv /\ WakeupInv
  BY DEF MutexInv, CarryInv, LifetimeInv, BlockInv, WakeupInv
<1>3. PoolInv
  BY DEF PoolInv
<1> QED
  BY <1>1, <1>2, <1>3 DEF IInv

\* Every step preserves the inductive invariant.
LEMMA StepIInv == IInv /\ [Next]_vars => IInv'
<1> SUFFICES ASSUME IInv, [Next]_vars PROVE IInv'
  OBVIOUS
<1> USE ConstantFacts DEF IInv
<1>1. ASSUME NEW s \in Thread, NEW t \in Task, Submit(s, t) PROVE IInv'
  <2> USE <1>1 DEF Submit, execVars, workerVars, submitVars, destrVars, histVars
  <2>1. TypeOK'
    BY DEF TypeOK, WorkerPc
  <2>2. MutexInv'
    BY DEF TypeOK, MutexInv
  <2>3. CarryInv'
    BY DEF TypeOK, CarryInv
  <2>4. PoolInv'
    BY DEF TypeOK, PoolInv
  <2>5. LifetimeInv'
    BY DEF TypeOK, LifetimeInv
  <2>6. BlockInv'
    BY DEF TypeOK, BlockInv
  <2>7. WakeupInv'
    BY DEF TypeOK, WakeupInv
  <2> QED BY <2>1, <2>2, <2>3, <2>4, <2>5, <2>6, <2>7
<1>2. ASSUME NEW s \in Thread, Dispatch(s) PROVE IInv'
  <2> USE <1>2 DEF Dispatch, Grows, execVars, workerVars, submitVars, destrVars, histVars
  <2>1. TypeOK'
    <3>1. poolSize' \in 0..Capacity
      BY DEF TypeOK
    <3>2. pc' \in [Worker -> WorkerPc]
      BY DEF TypeOK, WorkerPc
    <3> QED BY <3>1, <3>2 DEF TypeOK
  <2>2. MutexInv'
    BY DEF TypeOK, MutexInv
  <2>3. CarryInv'
    BY DEF TypeOK, CarryInv
  <2>4. PoolInv'
    BY DEF TypeOK, PoolInv
  <2>5. LifetimeInv'
    BY DEF TypeOK, LifetimeInv
  <2>6. BlockInv'
    BY DEF TypeOK, BlockInv
  <2>7. WakeupInv'
    BY DEF TypeOK, WakeupInv
  <2> QED BY <2>1, <2>2, <2>3, <2>4, <2>5, <2>6, <2>7
<1>3. ASSUME NEW s \in Thread, Enqueue(s) PROVE IInv'
  <2> USE <1>3 DEF Enqueue, Push, Unlocked, execVars, workerVars, submitVars, destrVars, histVars
  <2>1. TypeOK'
    <3> stask[s] \in Task
      BY DEF CarryInv
    <3>1. accepted' \in Seq(Task)
      BY DEF TypeOK
    <3>2. taskQueue' \in [Worker -> Seq(Task)]
      BY DEF TypeOK
    <3> QED BY <3>1, <3>2 DEF TypeOK, WorkerPc
  <2>2. MutexInv'
    BY DEF TypeOK, MutexInv
  <2>3. CarryInv'
    BY DEF TypeOK, CarryInv
  <2>4. PoolInv'
    BY DEF TypeOK, PoolInv
  <2>5. LifetimeInv'
    BY DEF TypeOK, LifetimeInv
  <2>6. BlockInv'
    BY DEF TypeOK, BlockInv
  <2>7. WakeupInv'
    BY DEF TypeOK, WakeupInv
  <2> QED BY <2>1, <2>2, <2>3, <2>4, <2>5, <2>6, <2>7
<1>4. ASSUME NEW s \in Thread, NotifyAndAdvance(s) PROVE IInv'
  <2> USE <1>4 DEF NotifyAndAdvance, Notify, execVars, workerVars, submitVars, destrVars, histVars
  <2> workerIndex' = IF workerIndex + 1 = Capacity THEN 0 ELSE workerIndex + 1
    BY NextIndexWraps DEF TypeOK, NextIndex
  <2>1. TypeOK'
    BY DEF TypeOK, WorkerPc
  <2>2. MutexInv'
    BY DEF TypeOK, MutexInv
  <2>3. CarryInv'
    BY DEF TypeOK, CarryInv
  <2>4. PoolInv'
    <3>1. mutex = s /\ mutex # NoOne /\ mutex' = NoOne
      BY DEF MutexInv
    <3>2. \A v \in Worker : pc'[v] = "absent" <=> pc[v] = "absent"
      BY DEF TypeOK
    <3>3. poolSize' < Capacity => workerIndex' = poolSize'
      BY <3>1 DEF TypeOK, PoolInv
    <3> QED BY <3>1, <3>2, <3>3 DEF TypeOK, PoolInv
  <2>5. LifetimeInv'
    BY DEF TypeOK, LifetimeInv
  <2>6. BlockInv'
    BY DEF TypeOK, BlockInv
  <2>7. WakeupInv'
    BY DEF TypeOK, WakeupInv
  <2> QED BY <2>1, <2>2, <2>3, <2>4, <2>5, <2>6, <2>7
<1>5. ASSUME NEW w \in Worker, LoopTest(w) PROVE IInv'
  <2> USE <1>5 DEF LoopTest, GoTo, execVars, workerVars, submitVars, destrVars, histVars
  <2>1. TypeOK'
    BY DEF TypeOK, WorkerPc
  <2>2. MutexInv'
    BY DEF TypeOK, MutexInv
  <2>3. CarryInv'
    BY DEF TypeOK, CarryInv
  <2>4. PoolInv'
    BY DEF TypeOK, PoolInv
  <2>5. LifetimeInv'
    BY DEF TypeOK, LifetimeInv
  <2>6. BlockInv'
    BY DEF TypeOK, BlockInv
  <2>7. WakeupInv'
    BY DEF TypeOK, WakeupInv
  <2> QED BY <2>1, <2>2, <2>3, <2>4, <2>5, <2>6, <2>7
<1>6. ASSUME NEW w \in Worker, WaitTest(w) PROVE IInv'
  <2> USE <1>6 DEF WaitTest, GoTo, Ready, execVars, workerVars, submitVars, destrVars, histVars
  <2>1. TypeOK'
    BY DEF TypeOK, WorkerPc
  <2>2. MutexInv'
    BY DEF TypeOK, MutexInv
  <2>3. CarryInv'
    BY DEF TypeOK, CarryInv
  <2>4. PoolInv'
    BY DEF TypeOK, PoolInv
  <2>5. LifetimeInv'
    BY DEF TypeOK, LifetimeInv
  <2>6. BlockInv'
    BY DEF TypeOK, BlockInv
  <2>7. WakeupInv'
    BY DEF TypeOK, WakeupInv
  <2> QED BY <2>1, <2>2, <2>3, <2>4, <2>5, <2>6, <2>7
<1>7. ASSUME NEW w \in Worker, Block(w) PROVE IInv'
  <2> USE <1>7 DEF Block, GoTo, execVars, workerVars, submitVars, destrVars, histVars
  <2>1. TypeOK'
    BY DEF TypeOK, WorkerPc
  <2>2. MutexInv'
    BY DEF TypeOK, MutexInv
  <2>3. CarryInv'
    BY DEF TypeOK, CarryInv
  <2>4. PoolInv'
    BY DEF TypeOK, PoolInv
  <2>5. LifetimeInv'
    BY DEF TypeOK, LifetimeInv
  <2>6. BlockInv'
    BY DEF TypeOK, BlockInv
  <2>7. WakeupInv'
    BY DEF TypeOK, BlockInv, WakeupInv
  <2> QED BY <2>1, <2>2, <2>3, <2>4, <2>5, <2>6, <2>7
<1>8. ASSUME NEW w \in Worker, SpuriousWakeup(w) PROVE IInv'
  <2> USE <1>8 DEF SpuriousWakeup, GoTo, execVars, workerVars, submitVars, destrVars, histVars
  <2>1. TypeOK'
    BY DEF TypeOK, WorkerPc
  <2>2. MutexInv'
    BY DEF TypeOK, MutexInv
  <2>3. CarryInv'
    BY DEF TypeOK, CarryInv
  <2>4. PoolInv'
    BY DEF TypeOK, PoolInv
  <2>5. LifetimeInv'
    BY DEF TypeOK, LifetimeInv
  <2>6. BlockInv'
    BY DEF TypeOK, BlockInv
  <2>7. WakeupInv'
    BY DEF TypeOK, WakeupInv
  <2> QED BY <2>1, <2>2, <2>3, <2>4, <2>5, <2>6, <2>7
<1>9. ASSUME NEW w \in Worker, Take(w) PROVE IInv'
  <2> USE DEF execVars, submitVars, destrVars, histVars
  <2> /\ pc[w] = "take"
      /\ UNCHANGED <<execVars, stop, submitVars, destrVars, histVars>>
    BY <1>9 DEF Take
  <2>1. CASE stop[w]
    <3> /\ pc' = [pc EXCEPT ![w] = "exited"]
        /\ UNCHANGED <<taskQueue, func>>
      BY <1>9, <2>1 DEF Take
    <3>1. TypeOK'
      BY DEF TypeOK, WorkerPc
    <3>2. MutexInv' /\ CarryInv' /\ PoolInv'
      BY DEF TypeOK, MutexInv, CarryInv, PoolInv
    <3>3. LifetimeInv' /\ BlockInv' /\ WakeupInv'
      BY <2>1 DEF TypeOK, LifetimeInv, BlockInv, WakeupInv
    <3> QED BY <3>1, <3>2, <3>3
  <2>2. CASE ~stop[w] /\ taskQueue[w] = <<>>
    <3> /\ pc' = [pc EXCEPT ![w] = "loop"]
        /\ UNCHANGED <<taskQueue, func>>
      BY <1>9, <2>2 DEF Take
    <3>1. TypeOK'
      BY DEF TypeOK, WorkerPc
    <3>2. MutexInv' /\ CarryInv' /\ PoolInv'
      BY DEF TypeOK, MutexInv, CarryInv, PoolInv
    <3>3. LifetimeInv' /\ BlockInv' /\ WakeupInv'
      BY DEF TypeOK, LifetimeInv, BlockInv, WakeupInv
    <3> QED BY <3>1, <3>2, <3>3
  <2>3. CASE ~stop[w] /\ taskQueue[w] # <<>>
    <3>1. /\ pc' = [pc EXCEPT ![w] = "run"]
          /\ func' = [func EXCEPT ![w] = Head(taskQueue[w])]
          /\ taskQueue' = [taskQueue EXCEPT ![w] = Tail(taskQueue[w])]
      BY <1>9, <2>3 DEF Take, Pop
    <3>2. /\ taskQueue[w] \in Seq(Task)
          /\ Head(taskQueue[w]) \in Task
          /\ Tail(taskQueue[w]) \in Seq(Task)
      BY <2>3 DEF TypeOK
    <3>3. TypeOK'
      BY <3>1, <3>2 DEF TypeOK, WorkerPc
    <3>4. MutexInv' /\ CarryInv' /\ PoolInv'
      BY <3>1, <3>2 DEF TypeOK, MutexInv, CarryInv, PoolInv
    <3>5. LifetimeInv' /\ BlockInv'
      BY <3>1 DEF TypeOK, LifetimeInv, BlockInv
    <3>6. WakeupInv'
      BY <3>1 DEF TypeOK, WakeupInv
    <3> QED BY <3>3, <3>4, <3>5, <3>6
  <2> QED BY <2>1, <2>2, <2>3
<1>10. ASSUME NEW w \in Worker, FinishTask(w) PROVE IInv'
  <2> USE <1>10 DEF FinishTask, GoTo, execVars, workerVars, submitVars, destrVars, histVars
  <2>1. TypeOK'
    <3> func[w] \in Task
      BY DEF CarryInv
    <3> QED BY DEF TypeOK, WorkerPc
  <2>2. MutexInv'
    BY DEF TypeOK, MutexInv
  <2>3. CarryInv'
    BY DEF TypeOK, CarryInv
  <2>4. PoolInv'
    BY DEF TypeOK, PoolInv
  <2>5. LifetimeInv'
    BY DEF TypeOK, LifetimeInv
  <2>6. BlockInv'
    BY DEF TypeOK, BlockInv
  <2>7. WakeupInv'
    BY DEF TypeOK, WakeupInv
  <2> QED BY <2>1, <2>2, <2>3, <2>4, <2>5, <2>6, <2>7
<1>11. CASE Destroy
  <2> USE <1>11 DEF Destroy, execVars, workerVars, submitVars, destrVars, histVars
  <2>1. TypeOK'
    BY DEF TypeOK, WorkerPc
  <2>2. MutexInv'
    BY DEF TypeOK, MutexInv
  <2>3. CarryInv'
    BY DEF TypeOK, CarryInv
  <2>4. PoolInv'
    BY DEF TypeOK, PoolInv
  <2>5. LifetimeInv'
    BY DEF TypeOK, LifetimeInv
  <2>6. BlockInv'
    BY DEF TypeOK, BlockInv
  <2>7. WakeupInv'
    BY DEF TypeOK, WakeupInv
  <2> QED BY <2>1, <2>2, <2>3, <2>4, <2>5, <2>6, <2>7
<1>12. ASSUME NEW w \in Worker, SignalStop(w) PROVE IInv'
  <2> USE <1>12 DEF SignalStop, Unlocked, execVars, workerVars, submitVars, destrVars, histVars
  <2>1. TypeOK'
    BY DEF TypeOK, WorkerPc
  <2>2. MutexInv'
    BY DEF TypeOK, MutexInv
  <2>3. CarryInv'
    BY DEF TypeOK, CarryInv
  <2>4. PoolInv'
    BY DEF TypeOK, PoolInv
  <2>5. LifetimeInv'
    BY DEF TypeOK, LifetimeInv
  <2>6. BlockInv'
    BY DEF TypeOK, BlockInv
  <2>7. WakeupInv'
    BY DEF TypeOK, WakeupInv
  <2> QED BY <2>1, <2>2, <2>3, <2>4, <2>5, <2>6, <2>7
<1>13. CASE NotifyStopped
  <2> USE <1>13 DEF NotifyStopped, Notify, execVars, workerVars, submitVars, destrVars, histVars
  <2>1. TypeOK'
    BY DEF TypeOK, WorkerPc
  <2>2. MutexInv'
    BY DEF TypeOK, MutexInv
  <2>3. CarryInv'
    BY DEF TypeOK, CarryInv
  <2>4. PoolInv'
    BY DEF TypeOK, PoolInv
  <2>5. LifetimeInv'
    BY DEF TypeOK, LifetimeInv
  <2>6. BlockInv'
    BY DEF TypeOK, BlockInv
  <2>7. WakeupInv'
    BY DEF TypeOK, WakeupInv
  <2> QED BY <2>1, <2>2, <2>3, <2>4, <2>5, <2>6, <2>7
<1>14. CASE Join
  <2> USE <1>14 DEF Join, Joinable, execVars, workerVars, submitVars, destrVars, histVars
  <2>1. TypeOK'
    BY DEF TypeOK, WorkerPc
  <2>2. MutexInv'
    BY DEF TypeOK, MutexInv
  <2>3. CarryInv'
    BY DEF TypeOK, CarryInv
  <2>4. PoolInv'
    BY DEF TypeOK, PoolInv
  <2>5. LifetimeInv'
    BY DEF TypeOK, LifetimeInv
  <2>6. BlockInv'
    BY DEF TypeOK, BlockInv
  <2>7. WakeupInv'
    BY DEF TypeOK, WakeupInv
  <2> QED BY <2>1, <2>2, <2>3, <2>4, <2>5, <2>6, <2>7
<1>15. CASE Destroyed
  <2> USE <1>15 DEF Destroyed, execVars, workerVars, submitVars, destrVars, histVars
  <2>1. TypeOK'
    BY DEF TypeOK, WorkerPc
  <2>2. MutexInv'
    BY DEF TypeOK, MutexInv
  <2>3. CarryInv'
    BY DEF TypeOK, CarryInv
  <2>4. PoolInv'
    BY DEF TypeOK, PoolInv
  <2>5. LifetimeInv'
    BY DEF TypeOK, LifetimeInv
  <2>6. BlockInv'
    BY DEF TypeOK, BlockInv
  <2>7. WakeupInv'
    BY DEF TypeOK, WakeupInv
  <2> QED BY <2>1, <2>2, <2>3, <2>4, <2>5, <2>6, <2>7
<1>16. CASE Done \/ UNCHANGED vars
  <2> UNCHANGED vars
    BY <1>16 DEF Done
  <2> USE DEF vars, execVars, workerVars, submitVars, destrVars, histVars
  <2>1. TypeOK' /\ MutexInv' /\ CarryInv'
    BY DEF TypeOK, MutexInv, CarryInv
  <2>2. PoolInv' /\ LifetimeInv' /\ BlockInv' /\ WakeupInv'
    BY DEF PoolInv, LifetimeInv, BlockInv, WakeupInv
  <2> QED BY <2>1, <2>2
<1> QED
  BY <1>1, <1>2, <1>3, <1>4, <1>5, <1>6, <1>7, <1>8, <1>9, <1>10, <1>11, <1>12,
     <1>13, <1>14, <1>15, <1>16
  DEF Next, SubmitStep, WorkerStep, DestroyStep

-----------------------------------------------------------------------------
\* IInv holds in every reachable state.
THEOREM Invariance == Spec => []IInv
BY InitIInv, StepIInv, PTL DEF Spec

\* Every variable keeps its type; in particular workerIndex stays below the
\* capacity (the modulo of Executor.cxx:136).
THEOREM TypeCorrectness == Spec => []TypeOK
<1>1. IInv => TypeOK
  BY DEF IInv
<1> QED
  BY Invariance, <1>1, PTL

\* workerPool.at(workerIndex) always finds a worker, and one whose thread is
\* alive (Executor.cxx:126-134).
THEOREM IndexAlwaysInPool == Spec => []IndexInPool
<1>1. IInv => IndexInPool
  <2> SUFFICES ASSUME IInv, NEW s \in Thread, spc[s] \in {"enqueue", "notify"}
               PROVE  /\ workerIndex < poolSize
                      /\ pc[workerIndex] \notin {"absent", "exited", "joined"}
    BY DEF IndexInPool
  <2>1. workerIndex \in Worker /\ poolSize \in Nat
    BY ConstantFacts DEF IInv, TypeOK
  <2>2. workerIndex < poolSize
    BY ConstantFacts DEF IInv, MutexInv, PoolInv
  <2>3. dpc = "alive"
    BY DEF IInv, LifetimeInv
  <2> QED
    BY <2>1, <2>2, <2>3, ConstantFacts DEF IInv, PoolInv, LifetimeInv
<1> QED
  BY Invariance, <1>1, PTL

\* No wakeup is lost in a build that stops its workers through shouldStop
\* (Executor.cxx:72-75, 91-97).
THEOREM NoWakeupIsLost ==
  ASSUME ~HasJthread
  PROVE  Spec => []NoLostWakeup
<1>1. IInv => NoLostWakeup
  BY DEF IInv, WakeupInv, NoLostWakeup
<1> QED
  BY Invariance, <1>1, PTL

-----------------------------------------------------------------------------
(* Executor implements TaskPool: no task is lost between two queues, begun   *)
(* twice or out of order.                                                    *)
(*                                                                           *)
(* The k-th task accepted belongs to worker (k-1) % Capacity, which the      *)
(* round-robin index names.  It is in that worker's queue, runs on it, or    *)
(* has finished, and a queue holds its tasks in the order of acceptance.     *)
(* So what is at its head comes after everything of the worker that is not   *)
(* queued, and that has finished, as the worker runs nothing when it pops.   *)

\* The worker of the k-th task.
LaneOf(k) == (k - 1) % Capacity

Positions == 1..Len(accepted)
Submitting(s) == spc[s] \in {"lock", "enqueue"}

\* Every task is accepted once, and nobody submits one that was.
OnceInv ==
  /\ \A j, k \in Positions : accepted[j] = accepted[k] => j = k
  /\ \A k \in Positions : accepted[k] \notin todo
  /\ \A s \in Thread : Submitting(s) =>
       stask[s] \notin todo /\ \A k \in Positions : accepted[k] # stask[s]
  /\ \A s, u \in Thread : Submitting(s) /\ Submitting(u) /\ stask[s] = stask[u] => s = u

\* The index names the worker of the task just accepted, or of the next one.
IndexInv ==
  /\ \A s \in Thread : spc[s] = "notify" =>
       Len(accepted) > 0 /\ workerIndex = LaneOf(Len(accepted))
  /\ (\A s \in Thread : spc[s] # "notify") => workerIndex = LaneOf(Len(accepted) + 1)

\* A worker runs a task of its own.
RunInv ==
  \A w \in Worker :
    /\ pc[w] # "run" => func[w] = NoOne
    /\ pc[w] = "run" =>
         /\ func[w] \notin finished
         /\ \E k \in Positions : accepted[k] = func[w] /\ LaneOf(k) = w

\* A queue holds tasks of its worker, not begun, in the order of acceptance.
QueueInv ==
  \A w \in Worker : \A i \in 1..Len(taskQueue[w]) :
    /\ taskQueue[w][i] \notin finished \cup Running
    /\ \E k \in Positions : accepted[k] = taskQueue[w][i] /\ LaneOf(k) = w
    /\ \A j \in 1..Len(taskQueue[w]) : \A k, l \in Positions :
         i < j /\ accepted[k] = taskQueue[w][i] /\ accepted[l] = taskQueue[w][j] => k < l

\* What was accepted is somewhere, and only that has finished.
WhereInv ==
  /\ \A k \in Positions :
       \/ accepted[k] \in finished
       \/ func[LaneOf(k)] = accepted[k]
       \/ \E i \in 1..Len(taskQueue[LaneOf(k)]) : taskQueue[LaneOf(k)][i] = accepted[k]
  /\ \A t \in finished : \E k \in Positions : accepted[k] = t

\* The destructor has returned: no thread is left.
GoneInv == dpc = "gone" => \A w \in Worker : pc[w] \in {"absent", "joined"}

PoolIInv == OnceInv /\ IndexInv /\ RunInv /\ QueueInv /\ WhereInv /\ GoneInv

-----------------------------------------------------------------------------
(* Lanes *)

LEMMA LaneFacts ==
  /\ LaneOf(1) = 0
  /\ \A k \in Nat \ {0} : LaneOf(k) \in Worker
<1>1. ASSUME NEW c \in Nat \ {0}, NEW n \in Nat PROVE n % c \in 0..(c - 1)
  OBVIOUS
<1>2. ASSUME NEW c \in Nat \ {0} PROVE 0 % c = 0
  OBVIOUS
<1> QED
  BY <1>1, <1>2, ConstantFacts DEF LaneOf

LEMMA Multiples ==
  ASSUME NEW c \in Nat, NEW a \in Nat, NEW b \in Nat, a < b
  PROVE  c * a + c <= c * b
  OBVIOUS

\* The remainder of a division is what is left of a multiple.
LEMMA Remainder ==
  ASSUME NEW c \in Nat \ {0}, NEW q \in Nat, NEW r \in 0..(c - 1)
  PROVE  (c * q + r) % c = r
<1> DEFINE n == c * q + r
           p == n \div c
<1>1. n \in Nat
  OBVIOUS
<1>2. n = c * q + r
  OBVIOUS
<1> HIDE DEF n
<1>3. p \in Nat /\ n % c \in 0..(c - 1) /\ n = c * p + (n % c)
  BY <1>1
<1> HIDE DEF p
<1>4. ~(p < q)
  BY <1>1, <1>2, <1>3, Multiples
<1>5. ~(q < p)
  BY <1>1, <1>2, <1>3, Multiples
<1>6. p = q
  BY <1>3, <1>4, <1>5
<1>7. n % c = r
  BY <1>1, <1>2, <1>3, <1>6
<1> QED
  BY <1>7 DEF n

LEMMA ModSucc ==
  ASSUME NEW c \in Nat \ {0}, NEW n \in Nat
  PROVE  (n + 1) % c = ((n % c) + 1) % c
<1> DEFINE q == n \div c
           r == n % c
<1>1. q \in Nat /\ r \in 0..(c - 1) /\ n = c * q + r
  OBVIOUS
<1> HIDE DEF q, r
<1>2. CASE r + 1 < c
  <2>1. n + 1 = c * q + (r + 1) /\ r + 1 \in 0..(c - 1) /\ r + 1 = c * 0 + (r + 1)
    BY <1>1, <1>2
  <2>2. (n + 1) % c = r + 1
    BY <2>1, <1>1, Remainder
  <2>3. (r + 1) % c = r + 1
    BY <2>1, Remainder
  <2> QED
    BY <2>2, <2>3 DEF r
<1>3. CASE r + 1 = c
  <2>1. n + 1 = c * (q + 1) + 0 /\ r + 1 = c * 1 + 0 /\ q + 1 \in Nat /\ 0 \in 0..(c - 1)
    BY <1>1, <1>3
  <2>2. (n + 1) % c = 0
    BY <2>1, <1>1, Remainder
  <2>3. (r + 1) % c = 0
    BY <2>1, <1>1, Remainder
  <2> QED
    BY <2>2, <2>3 DEF r
<1> QED
  BY <1>1, <1>2, <1>3

LEMMA NextLane ==
  ASSUME NEW k \in Nat \ {0}
  PROVE  LaneOf(k + 1) = (LaneOf(k) + 1) % Capacity
<1> DEFINE n == k - 1
<1>1. n \in Nat /\ k + 1 - 1 = n + 1
  OBVIOUS
<1> HIDE DEF n
<1>2. (n + 1) % Capacity = ((n % Capacity) + 1) % Capacity
  BY <1>1, ModSucc, ConstantFacts
<1> QED
  BY <1>1, <1>2 DEF LaneOf, n
-----------------------------------------------------------------------------
(* The steps *)

\* What ExecutorProofs shows of types and of the executor's mutex.
LEMMA Types ==
  ASSUME IInv
  PROVE  /\ accepted \in Seq(Task) /\ Len(accepted) \in Nat
         /\ taskQueue \in [Worker -> Seq(Task)]
         /\ func \in [Worker -> Task \cup {NoOne}] /\ pc \in [Worker -> WorkerPc]
         /\ stask \in [Thread -> Task \cup {NoOne}] /\ workerIndex \in Worker
         /\ spc \in [Thread -> {"idle", "lock", "enqueue", "notify"}]
         /\ \A s, u \in Thread : spc[s] \in {"enqueue", "notify"}
              /\ spc[u] \in {"enqueue", "notify"} => s = u
  BY DEF IInv, TypeOK, MutexInv

\* A step that moves threads between steps that carry no task.
LEMMA QuietStep ==
  ASSUME PoolIInv, GoneInv',
         UNCHANGED <<taskQueue, func, spc, stask, todo, accepted, finished, workerIndex>>,
         \A w \in Worker : pc'[w] = "run" <=> pc[w] = "run"
  PROVE  PoolIInv'
<1>1. OnceInv' /\ IndexInv'
  BY DEF PoolIInv, OnceInv, IndexInv, Positions, Submitting
<1>2. RunInv'
  BY DEF PoolIInv, RunInv, Positions
<1>3. QueueInv' /\ WhereInv'
  BY DEF PoolIInv, QueueInv, WhereInv, Positions, Running
<1> QED
  BY <1>1, <1>2, <1>3 DEF PoolIInv

LEMMA SubmitKeeps ==
  ASSUME IInv, PoolIInv, NEW s \in Thread, NEW t \in Task, Submit(s, t)
  PROVE  PoolIInv'
<1>1. /\ spc[s] = "idle" /\ t \in todo /\ todo' = todo \ {t}
      /\ stask' = [stask EXCEPT ![s] = t] /\ spc' = [spc EXCEPT ![s] = "lock"]
      /\ UNCHANGED <<taskQueue, func, pc, accepted, finished, workerIndex, dpc>>
  BY DEF Submit, execVars, workerVars, destrVars
<1>2. /\ stask'[s] = t /\ spc'[s] = "lock"
      /\ \A u \in Thread : u # s => stask'[u] = stask[u] /\ spc'[u] = spc[u]
  BY <1>1, Types
<1>3. OnceInv'
  BY <1>1, <1>2 DEF PoolIInv, OnceInv, Positions, Submitting
<1>4. IndexInv'
  <2>1. \A u \in Thread : spc'[u] = "notify" <=> spc[u] = "notify"
    BY <1>1, <1>2
  <2> QED
    BY <1>1, <2>1 DEF PoolIInv, IndexInv
<1>5. RunInv' /\ QueueInv' /\ WhereInv' /\ GoneInv'
  BY <1>1 DEF PoolIInv, RunInv, QueueInv, WhereInv, GoneInv, Positions, Running
<1> QED
  BY <1>3, <1>4, <1>5 DEF PoolIInv

LEMMA DispatchKeeps ==
  ASSUME IInv, PoolIInv, NEW s \in Thread, Dispatch(s)
  PROVE  PoolIInv'
<1>1. /\ spc[s] = "lock" /\ spc' = [spc EXCEPT ![s] = "enqueue"]
      /\ UNCHANGED <<taskQueue, func, stask, todo, accepted, finished, workerIndex, dpc>>
      /\ pc' = pc \/ (Grows /\ pc' = [pc EXCEPT ![poolSize] = "loop"])
  BY DEF Dispatch, histVars, destrVars
<1>2. /\ spc'[s] = "enqueue" /\ \A u \in Thread : u # s => spc'[u] = spc[u]
  BY <1>1, Types
<1>3. Grows => pc[poolSize] = "absent" /\ poolSize \in Worker
  BY ConstantFacts DEF Grows, IInv, PoolInv, TypeOK
<1>4. \A w \in Worker : pc'[w] = "run" <=> pc[w] = "run"
  BY <1>1, <1>3, Types
<1>5. OnceInv'
  BY <1>1, <1>2 DEF PoolIInv, OnceInv, Positions, Submitting
<1>6. IndexInv'
  <2>1. \A u \in Thread : spc'[u] = "notify" <=> spc[u] = "notify"
    BY <1>1, <1>2
  <2> QED
    BY <1>1, <2>1 DEF PoolIInv, IndexInv
<1>7. RunInv'
  BY <1>1, <1>4 DEF PoolIInv, RunInv, Positions
<1>8. QueueInv' /\ WhereInv'
  BY <1>1 DEF PoolIInv, QueueInv, WhereInv, Positions, Running
<1>9. GoneInv'
  <2>1. dpc # "gone"
    BY <1>1 DEF IInv, LifetimeInv
  <2> QED
    BY <1>1, <2>1 DEF GoneInv
<1> QED
  BY <1>5, <1>6, <1>7, <1>8, <1>9 DEF PoolIInv

LEMMA NotifyKeeps ==
  ASSUME IInv, PoolIInv, NEW s \in Thread, NotifyAndAdvance(s)
  PROVE  PoolIInv'
<1>1. /\ spc[s] = "notify" /\ spc' = [spc EXCEPT ![s] = "idle"]
      /\ stask' = [stask EXCEPT ![s] = NoOne]
      /\ workerIndex' = NextIndex /\ pc' = Notify(workerIndex, pc)
      /\ UNCHANGED <<taskQueue, func, todo, accepted, finished, dpc>>
  BY DEF NotifyAndAdvance, histVars, destrVars
<1>2. /\ spc'[s] = "idle"
      /\ \A u \in Thread : u # s => spc'[u] = spc[u] /\ stask'[u] = stask[u]
  BY <1>1, Types
<1>3. \A w \in Worker : pc'[w] = "run" <=> pc[w] = "run"
  BY <1>1, Types DEF Notify
<1>4. OnceInv'
  BY <1>1, <1>2 DEF PoolIInv, OnceInv, Positions, Submitting
<1>5. IndexInv'
  <2>1. \A u \in Thread : spc'[u] # "notify"
    BY <1>1, <1>2, Types
  <2>2. Len(accepted) \in Nat \ {0} /\ workerIndex = LaneOf(Len(accepted))
    BY <1>1, Types DEF PoolIInv, IndexInv
  <2>3. workerIndex' = LaneOf(Len(accepted) + 1)
    BY <1>1, <2>2, NextLane DEF NextIndex
  <2> QED
    BY <1>1, <2>1, <2>3 DEF IndexInv
<1>6. RunInv'
  BY <1>1, <1>3 DEF PoolIInv, RunInv, Positions
<1>7. QueueInv' /\ WhereInv'
  BY <1>1 DEF PoolIInv, QueueInv, WhereInv, Positions, Running
<1>8. GoneInv'
  <2>1. dpc # "gone"
    BY <1>1 DEF IInv, LifetimeInv
  <2> QED
    BY <1>1, <2>1 DEF GoneInv
<1> QED
  BY <1>4, <1>5, <1>6, <1>7, <1>8 DEF PoolIInv

LEMMA EnqueueKeeps ==
  ASSUME IInv, PoolIInv, NEW s \in Thread, Enqueue(s)
  PROVE  PoolIInv'
<1> DEFINE n == Len(accepted)
           t == stask[s]
           m == Len(taskQueue[workerIndex])
<1>1. /\ spc[s] = "enqueue" /\ spc' = [spc EXCEPT ![s] = "notify"]
      /\ taskQueue' = [taskQueue EXCEPT ![workerIndex] = Append(taskQueue[workerIndex], t)]
      /\ accepted' = Append(accepted, t)
      /\ UNCHANGED <<workerIndex, func, pc, stask, todo, finished, dpc>>
  BY DEF Enqueue, Push, execVars, destrVars
<1>2. t \in Task /\ t # NoOne
  BY <1>1, ConstantFacts DEF IInv, CarryInv
<1>3. /\ n \in Nat /\ Len(accepted') = n + 1 /\ accepted'[n + 1] = t
      /\ \A k \in 1..n : accepted'[k] = accepted[k]
  BY <1>1, <1>2, Types
<1>4. /\ spc'[s] = "notify" /\ \A u \in Thread : u # s => spc'[u] = spc[u]
  BY <1>1, Types
<1>5. workerIndex \in Worker /\ workerIndex = LaneOf(n + 1)
  <2>1. \A u \in Thread : spc[u] # "notify"
    BY <1>1, Types
  <2> QED
    BY <2>1, Types DEF PoolIInv, IndexInv
<1>6. /\ m \in Nat /\ taskQueue[workerIndex] \in Seq(Task)
      /\ Len(taskQueue'[workerIndex]) = m + 1
      /\ taskQueue'[workerIndex][m + 1] = t
      /\ \A i \in 1..m : taskQueue'[workerIndex][i] = taskQueue[workerIndex][i]
      /\ \A w \in Worker : w # workerIndex => taskQueue'[w] = taskQueue[w]
  BY <1>1, <1>2, <1>5, Types
<1>7. \A k \in 1..n : accepted[k] # t
  BY <1>1 DEF PoolIInv, OnceInv, Positions, Submitting
<1>8. t \notin finished /\ \A w \in Worker : func[w] # t
  BY <1>2, <1>7 DEF PoolIInv, WhereInv, RunInv, Positions
<1> HIDE DEF n, t, m
<1>9. Positions' = Positions \cup {n + 1} /\ Positions = 1..n
  BY <1>3 DEF Positions, n
<1>10. OnceInv'
  <2>1. \A j, k \in Positions' : accepted'[j] = accepted'[k] => j = k
    BY <1>3, <1>7, <1>9 DEF PoolIInv, OnceInv
  <2>2. \A k \in Positions' : accepted'[k] \notin todo'
    BY <1>1, <1>3, <1>9 DEF PoolIInv, OnceInv, Submitting, t
  <2>3. \A u \in Thread : Submitting(u)' => u # s /\ Submitting(u) /\ stask'[u] = stask[u]
    BY <1>1, <1>4 DEF Submitting
  <2>4. \A u \in Thread : u # s /\ Submitting(u) => stask[u] # t
    BY <1>1 DEF PoolIInv, OnceInv, Submitting, t
  <2>5. \A u \in Thread : Submitting(u)' =>
          stask'[u] \notin todo' /\ \A k \in Positions' : accepted'[k] # stask'[u]
    BY <1>1, <1>3, <1>9, <2>3, <2>4 DEF PoolIInv, OnceInv
  <2>6. \A u, v \in Thread :
          Submitting(u)' /\ Submitting(v)' /\ stask'[u] = stask'[v] => u = v
    BY <2>3 DEF PoolIInv, OnceInv
  <2> QED
    BY <2>1, <2>2, <2>5, <2>6 DEF OnceInv
<1>11. IndexInv'
  <2>1. \A u \in Thread : spc'[u] = "notify" => Len(accepted') > 0
                          /\ workerIndex' = LaneOf(Len(accepted'))
    BY <1>1, <1>3, <1>5
  <2> QED
    BY <1>4, <2>1 DEF IndexInv
<1>12. RunInv'
  BY <1>1, <1>3, <1>9 DEF PoolIInv, RunInv
<1>13. \A w \in Worker : \A i \in 1..Len(taskQueue'[w]) :
         \/ i \in 1..Len(taskQueue[w]) /\ taskQueue'[w][i] = taskQueue[w][i]
         \/ w = workerIndex /\ i = m + 1 /\ taskQueue'[w][i] = t
  BY <1>6 DEF m
<1>14. \A w \in Worker : \A i \in 1..Len(taskQueue[w]) :
         \E k \in 1..n : accepted[k] = taskQueue[w][i] /\ LaneOf(k) = w
  BY <1>9 DEF PoolIInv, QueueInv
<1>15. QueueInv'
  <2> SUFFICES ASSUME NEW w \in Worker, NEW i \in 1..Len(taskQueue'[w])
               PROVE  /\ taskQueue'[w][i] \notin finished' \cup Running'
                      /\ \E k \in Positions' : accepted'[k] = taskQueue'[w][i] /\ LaneOf(k) = w
                      /\ \A j \in 1..Len(taskQueue'[w]) : \A k, l \in Positions' :
                           i < j /\ accepted'[k] = taskQueue'[w][i]
                             /\ accepted'[l] = taskQueue'[w][j] => k < l
    BY DEF QueueInv
  <2>1. taskQueue'[w][i] \notin finished' \cup Running'
    <3>1. finished' = finished /\ Running' = Running
      BY <1>1 DEF Running
    <3>2. t \notin Running
      BY <1>8 DEF Running
    <3> QED
      BY <3>1, <3>2, <1>8, <1>13 DEF PoolIInv, QueueInv
  <2>2. \E k \in Positions' : accepted'[k] = taskQueue'[w][i] /\ LaneOf(k) = w
    <3>1. CASE i \in 1..Len(taskQueue[w]) /\ taskQueue'[w][i] = taskQueue[w][i]
      BY <3>1, <1>3, <1>9, <1>14
    <3>2. CASE w = workerIndex /\ taskQueue'[w][i] = t
      BY <3>2, <1>3, <1>5, <1>9
    <3> QED
      BY <3>1, <3>2, <1>13
  <2>3. ASSUME NEW j \in 1..Len(taskQueue'[w]), NEW k \in Positions', NEW l \in Positions',
               i < j, accepted'[k] = taskQueue'[w][i], accepted'[l] = taskQueue'[w][j]
        PROVE  k < l
    <3>1. i \in 1..Len(taskQueue[w]) /\ taskQueue'[w][i] = taskQueue[w][i]
      BY <2>3, <1>6, <1>13 DEF m
    <3>2. accepted'[k] # t
      BY <3>1, <1>7, <1>14, <2>3
    <3>3. k \in 1..n /\ accepted[k] = taskQueue[w][i]
      BY <3>1, <3>2, <2>3, <1>3, <1>9
    <3>4. CASE taskQueue'[w][j] = t
      <4>1. l = n + 1
        BY <3>4, <2>3, <1>3, <1>7, <1>9
      <4> QED
        BY <4>1, <3>3, <1>3
    <3>5. CASE j \in 1..Len(taskQueue[w]) /\ taskQueue'[w][j] = taskQueue[w][j]
      <4>1. accepted'[l] # t
        BY <3>5, <1>7, <1>14, <2>3
      <4>2. l \in 1..n /\ accepted[l] = taskQueue[w][j]
        BY <3>5, <4>1, <2>3, <1>3, <1>9
      <4> QED
        BY <3>1, <3>3, <3>5, <4>2, <2>3, <1>9 DEF PoolIInv, QueueInv
    <3> QED
      BY <3>4, <3>5, <1>13
  <2> QED
    BY <2>1, <2>2, <2>3
<1>16. WhereInv'
  <2>1. ASSUME NEW k \in Positions'
        PROVE  \/ accepted'[k] \in finished'
               \/ func'[LaneOf(k)] = accepted'[k]
               \/ \E i \in 1..Len(taskQueue'[LaneOf(k)]) :
                    taskQueue'[LaneOf(k)][i] = accepted'[k]
    <3>1. CASE k = n + 1
      BY <3>1, <1>3, <1>5, <1>6
    <3>2. CASE k \in 1..n
      <4>1. accepted'[k] = accepted[k] /\ LaneOf(k) \in Worker
        BY <3>2, <1>3, LaneFacts
      <4>2. \/ accepted[k] \in finished
            \/ func[LaneOf(k)] = accepted[k]
            \/ \E i \in 1..Len(taskQueue[LaneOf(k)]) : taskQueue[LaneOf(k)][i] = accepted[k]
        BY <3>2, <1>9 DEF PoolIInv, WhereInv
      <4>3. \A i \in 1..Len(taskQueue[LaneOf(k)]) :
              /\ i \in 1..Len(taskQueue'[LaneOf(k)])
              /\ taskQueue'[LaneOf(k)][i] = taskQueue[LaneOf(k)][i]
        BY <4>1, <1>6 DEF m
      <4> QED
        BY <4>1, <4>2, <4>3, <1>1
    <3> QED
      BY <3>1, <3>2, <1>9
  <2>2. \A x \in finished' : \E k \in Positions' : accepted'[k] = x
    BY <1>1, <1>3, <1>9 DEF PoolIInv, WhereInv
  <2> QED
    BY <2>1, <2>2 DEF WhereInv
<1>17. GoneInv'
  BY <1>1 DEF PoolIInv, GoneInv
<1> QED
  BY <1>10, <1>11, <1>12, <1>15, <1>16, <1>17 DEF PoolIInv

\* Take pops a task: it is the next one of its lane.
Pops(w) == Take(w) /\ ~stop[w] /\ taskQueue[w] # <<>>

LEMMA PopFacts ==
  ASSUME IInv, PoolIInv, NEW w \in Worker, Pops(w)
  PROVE  /\ pc[w] = "take" /\ pc' = [pc EXCEPT ![w] = "run"]
         /\ func[w] = NoOne /\ func' = [func EXCEPT ![w] = taskQueue[w][1]]
         /\ taskQueue[w] \in Seq(Task) /\ Len(taskQueue[w]) \in Nat \ {0}
         /\ taskQueue[w][1] \in Task
         /\ taskQueue' = [taskQueue EXCEPT ![w] = Tail(taskQueue[w])]
         /\ UNCHANGED <<spc, stask, todo, accepted, finished, workerIndex, dpc>>
<1>1. /\ pc[w] = "take" /\ pc' = [pc EXCEPT ![w] = "run"]
      /\ func' = [func EXCEPT ![w] = Head(taskQueue[w])]
      /\ taskQueue' = [taskQueue EXCEPT ![w] = Tail(taskQueue[w])]
      /\ UNCHANGED <<spc, stask, todo, accepted, finished, workerIndex, dpc>>
      /\ taskQueue[w] # <<>>
  BY DEF Pops, Take, Pop, execVars, submitVars, destrVars, histVars
<1>2. func[w] = NoOne
  BY <1>1 DEF PoolIInv, RunInv
<1>3. taskQueue[w] \in Seq(Task)
  BY Types
<1>4. Len(taskQueue[w]) \in Nat \ {0} /\ Head(taskQueue[w]) = taskQueue[w][1]
  BY <1>1, <1>3
<1>5. taskQueue[w][1] \in Task
  BY <1>3, <1>4
<1> QED
  BY <1>1, <1>2, <1>3, <1>4, <1>5

LEMMA TakeKeeps ==
  ASSUME IInv, PoolIInv, NEW w \in Worker, Pops(w)
  PROVE  PoolIInv'
<1> DEFINE t == taskQueue[w][1]
<1>1. /\ pc[w] = "take" /\ pc' = [pc EXCEPT ![w] = "run"]
      /\ func[w] = NoOne /\ func' = [func EXCEPT ![w] = t]
      /\ taskQueue[w] \in Seq(Task) /\ Len(taskQueue[w]) \in Nat \ {0} /\ t \in Task
      /\ taskQueue' = [taskQueue EXCEPT ![w] = Tail(taskQueue[w])]
      /\ UNCHANGED <<spc, stask, todo, accepted, finished, workerIndex, dpc>>
  BY PopFacts
<1>2. /\ pc'[w] = "run" /\ func'[w] = t
      /\ \A v \in Worker : v # w => pc'[v] = pc[v] /\ func'[v] = func[v]
                                   /\ taskQueue'[v] = taskQueue[v]
  BY <1>1, Types
<1>3. /\ Len(taskQueue'[w]) = Len(taskQueue[w]) - 1
      /\ \A i \in 1..(Len(taskQueue[w]) - 1) : taskQueue'[w][i] = taskQueue[w][i + 1]
  <2>1. taskQueue'[w] = Tail(taskQueue[w])
    BY <1>1, Types
  <2> QED
    BY <2>1, <1>1
<1>4. 1 \in 1..Len(taskQueue[w])
  BY <1>1
<1>5. PICK k \in Positions : accepted[k] = t /\ LaneOf(k) = w
  BY <1>4 DEF PoolIInv, QueueInv
<1>6. t \notin finished /\ t \notin Running
  BY <1>4 DEF PoolIInv, QueueInv
<1> HIDE DEF t
<1>7. Running' \subseteq Running \cup {t}
  BY <1>2 DEF Running
<1>8. Positions' = Positions
  BY <1>1 DEF Positions
<1>9. OnceInv' /\ IndexInv'
  BY <1>1 DEF PoolIInv, OnceInv, IndexInv, Positions, Submitting
<1>10. RunInv'
  BY <1>1, <1>2, <1>5, <1>6, <1>8 DEF PoolIInv, RunInv
<1>11. ASSUME NEW v \in Worker, NEW i \in 1..Len(taskQueue'[v])
       PROVE  \E d \in {0, 1} :
                /\ d = 1 <=> v = w
                /\ i + d \in 1..Len(taskQueue[v])
                /\ taskQueue'[v][i] = taskQueue[v][i + d]
                /\ taskQueue'[v][i] # t
  <2>1. CASE v = w
    <3>1. i \in 1..(Len(taskQueue[w]) - 1) /\ i + 1 \in 1..Len(taskQueue[w]) /\ 1 < i + 1
      BY <2>1, <1>1, <1>3
    <3>2. taskQueue'[w][i] = taskQueue[w][i + 1]
      BY <3>1, <1>3
    <3>3. taskQueue[w][i + 1] # t
      <4> SUFFICES ASSUME taskQueue[w][i + 1] = t PROVE FALSE
        OBVIOUS
      <4>1. k < k
        BY <1>4, <1>5, <3>1 DEF PoolIInv, QueueInv, t
      <4> QED
        BY <4>1, <1>1, Types DEF Positions
    <3> QED
      BY <2>1, <3>1, <3>2, <3>3
  <2>2. CASE v # w
    <3>1. i \in 1..Len(taskQueue[v]) /\ taskQueue'[v][i] = taskQueue[v][i] /\ i + 0 = i
      BY <2>2, <1>2
    <3>2. taskQueue[v][i] # t
      <4>1. PICK l \in Positions : accepted[l] = taskQueue[v][i] /\ LaneOf(l) = v
        BY <3>1 DEF PoolIInv, QueueInv
      <4> QED
        BY <4>1, <1>5, <2>2 DEF PoolIInv, OnceInv
    <3> QED
      BY <2>2, <3>1, <3>2
  <2> QED
    BY <2>1, <2>2
<1>12. QueueInv'
  <2> SUFFICES ASSUME NEW v \in Worker, NEW i \in 1..Len(taskQueue'[v])
               PROVE  /\ taskQueue'[v][i] \notin finished' \cup Running'
                      /\ \E l \in Positions' : accepted'[l] = taskQueue'[v][i] /\ LaneOf(l) = v
                      /\ \A j \in 1..Len(taskQueue'[v]) : \A l, m \in Positions' :
                           i < j /\ accepted'[l] = taskQueue'[v][i]
                             /\ accepted'[m] = taskQueue'[v][j] => l < m
    BY DEF QueueInv
  <2>1. PICK d \in {0, 1} :
          /\ d = 1 <=> v = w
          /\ i + d \in 1..Len(taskQueue[v])
          /\ taskQueue'[v][i] = taskQueue[v][i + d]
          /\ taskQueue'[v][i] # t
    BY <1>11
  <2>2. taskQueue'[v][i] \notin finished' \cup Running'
    BY <2>1, <1>1, <1>7 DEF PoolIInv, QueueInv
  <2>3. \E l \in Positions' : accepted'[l] = taskQueue'[v][i] /\ LaneOf(l) = v
    BY <2>1, <1>1, <1>8 DEF PoolIInv, QueueInv
  <2>4. ASSUME NEW j \in 1..Len(taskQueue'[v]), NEW l \in Positions, NEW m \in Positions,
               i < j, accepted[l] = taskQueue'[v][i], accepted[m] = taskQueue'[v][j]
        PROVE  l < m
    <3>1. PICK e \in {0, 1} :
            /\ e = 1 <=> v = w
            /\ j + e \in 1..Len(taskQueue[v])
            /\ taskQueue'[v][j] = taskQueue[v][j + e]
      BY <1>11
    <3>2. d = e /\ i + d < j + e
      BY <2>1, <2>4, <3>1
    <3> QED
      BY <2>1, <2>4, <3>1, <3>2 DEF PoolIInv, QueueInv
  <2> QED
    BY <2>2, <2>3, <2>4, <1>1, <1>8
<1>13. WhereInv'
  <2>1. ASSUME NEW l \in Positions
        PROVE  \/ accepted[l] \in finished
               \/ func'[LaneOf(l)] = accepted[l]
               \/ \E i \in 1..Len(taskQueue'[LaneOf(l)]) :
                    taskQueue'[LaneOf(l)][i] = accepted[l]
    <3>1. LaneOf(l) \in Worker /\ accepted[l] # NoOne
      BY LaneFacts, ConstantFacts, Types DEF Positions
    <3>2. \/ accepted[l] \in finished
          \/ func[LaneOf(l)] = accepted[l]
          \/ \E i \in 1..Len(taskQueue[LaneOf(l)]) : taskQueue[LaneOf(l)][i] = accepted[l]
      BY DEF PoolIInv, WhereInv
    <3>3. CASE LaneOf(l) # w
      BY <3>1, <3>2, <3>3, <1>2
    <3>4. CASE LaneOf(l) = w /\ accepted[l] = t
      BY <3>4, <1>2
    <3>5. CASE LaneOf(l) = w /\ accepted[l] # t
      <4>1. CASE accepted[l] \in finished
        BY <4>1
      <4>2. CASE \E i \in 1..Len(taskQueue[w]) : taskQueue[w][i] = accepted[l]
        <5>1. PICK i \in 1..Len(taskQueue[w]) : taskQueue[w][i] = accepted[l]
          BY <4>2
        <5>2. i # 1
          BY <5>1, <3>5 DEF t
        <5>3. i - 1 \in 1..(Len(taskQueue[w]) - 1) /\ i - 1 + 1 = i
          BY <5>2, <1>1
        <5> QED
          BY <5>1, <5>3, <1>3, <3>5
      <4> QED
        BY <4>1, <4>2, <3>1, <3>2, <3>5, <1>1
    <3> QED
      BY <3>3, <3>4, <3>5
  <2>2. \A x \in finished : \E l \in Positions : accepted[l] = x
    BY DEF PoolIInv, WhereInv
  <2> QED
    BY <2>1, <2>2, <1>1, <1>8 DEF WhereInv
<1>14. GoneInv'
  <2>1. dpc # "gone"
    BY <1>1 DEF PoolIInv, GoneInv
  <2> QED
    BY <1>1, <2>1 DEF GoneInv
<1> QED
  BY <1>9, <1>10, <1>12, <1>13, <1>14 DEF PoolIInv

LEMMA FinishKeeps ==
  ASSUME IInv, PoolIInv, NEW w \in Worker, FinishTask(w)
  PROVE  PoolIInv' /\ finished' \cup Running' = finished \cup Running
<1>1. /\ pc[w] = "run" /\ pc' = [pc EXCEPT ![w] = "loop"]
      /\ func' = [func EXCEPT ![w] = NoOne] /\ finished' = finished \cup {func[w]}
      /\ UNCHANGED <<taskQueue, spc, stask, todo, accepted, workerIndex, dpc>>
  BY DEF FinishTask, GoTo, execVars, submitVars, destrVars
<1>2. /\ pc'[w] = "loop" /\ func'[w] = NoOne
      /\ \A v \in Worker : v # w => pc'[v] = pc[v] /\ func'[v] = func[v]
  BY <1>1, Types
<1>3. func[w] # NoOne
  BY <1>1, ConstantFacts DEF IInv, CarryInv
<1>4. PICK k \in Positions : accepted[k] = func[w] /\ LaneOf(k) = w
  BY <1>1 DEF PoolIInv, RunInv
<1>5. Positions' = Positions
  BY <1>1 DEF Positions
<1>6. finished' \cup Running' = finished \cup Running
  BY <1>1, <1>2, <1>3 DEF Running
<1>7. OnceInv' /\ IndexInv'
  BY <1>1 DEF PoolIInv, OnceInv, IndexInv, Positions, Submitting
<1>8. RunInv'
  <2> SUFFICES ASSUME NEW v \in Worker, v # w, pc[v] = "run"
               PROVE  func[v] # func[w]
    BY <1>1, <1>2, <1>5 DEF PoolIInv, RunInv
  <2>1. PICK l \in Positions : accepted[l] = func[v] /\ LaneOf(l) = v
    BY DEF PoolIInv, RunInv
  <2> QED
    BY <2>1, <1>4 DEF PoolIInv, OnceInv
<1>9. QueueInv'
  BY <1>1, <1>5, <1>6 DEF PoolIInv, QueueInv
<1>10. WhereInv'
  <2>1. ASSUME NEW l \in Positions
        PROVE  \/ accepted[l] \in finished'
               \/ func'[LaneOf(l)] = accepted[l]
               \/ \E i \in 1..Len(taskQueue[LaneOf(l)]) : taskQueue[LaneOf(l)][i] = accepted[l]
    <3>1. LaneOf(l) \in Worker
      BY LaneFacts, Types DEF Positions
    <3> QED
      BY <3>1, <1>1, <1>2 DEF PoolIInv, WhereInv
  <2>2. \A x \in finished' : \E l \in Positions : accepted[l] = x
    BY <1>1, <1>4 DEF PoolIInv, WhereInv
  <2> QED
    BY <2>1, <2>2, <1>1, <1>5 DEF WhereInv
<1>11. GoneInv'
  <2>1. dpc # "gone"
    BY <1>1 DEF PoolIInv, GoneInv
  <2> QED
    BY <1>1, <2>1 DEF GoneInv
<1> QED
  BY <1>6, <1>7, <1>8, <1>9, <1>10, <1>11 DEF PoolIInv

\* The steps that neither submit, begin nor finish a task.
QuietAction ==
  \/ \E w \in Worker : \/ LoopTest(w) \/ WaitTest(w) \/ Block(w) \/ SpuriousWakeup(w)
                       \/ Take(w) /\ ~Pops(w)
  \/ Destroy
  \/ DestroyStep
  \/ UNCHANGED vars

LEMMA QuietFacts ==
  ASSUME IInv, PoolIInv, QuietAction
  PROVE  /\ UNCHANGED <<taskQueue, func, spc, stask, todo, accepted, finished, workerIndex>>
         /\ \A w \in Worker : pc'[w] = "run" <=> pc[w] = "run"
         /\ GoneInv'
         /\ dpc' = dpc \/ (dpc = "alive" /\ dpc' = "clear") \/ Destroyed
              \/ (dpc # "alive" /\ dpc' \notin {"alive", "gone"} /\ dpc # "gone")
<1> USE Types DEF execVars, workerVars, submitVars, destrVars, histVars
<1>1. ASSUME NEW w \in Worker, LoopTest(w) \/ WaitTest(w) \/ Block(w) \/ SpuriousWakeup(w)
      PROVE  /\ UNCHANGED <<taskQueue, func, spc, stask, todo, accepted, finished, workerIndex, dpc>>
             /\ \A v \in Worker : pc'[v] = "run" <=> pc[v] = "run"
             /\ pc[w] \notin {"absent", "joined"}
  <2>1. CASE LoopTest(w)
    BY <2>1 DEF LoopTest, GoTo
  <2>2. CASE WaitTest(w)
    BY <2>2 DEF WaitTest, GoTo
  <2>3. CASE Block(w)
    BY <2>3 DEF Block, GoTo
  <2>4. CASE SpuriousWakeup(w)
    BY <2>4 DEF SpuriousWakeup, GoTo
  <2> QED
    BY <1>1, <2>1, <2>2, <2>3, <2>4
<1>2. ASSUME NEW w \in Worker, Take(w), ~Pops(w)
      PROVE  /\ UNCHANGED <<taskQueue, func, spc, stask, todo, accepted, finished, workerIndex, dpc>>
             /\ \A v \in Worker : pc'[v] = "run" <=> pc[v] = "run"
             /\ pc[w] \notin {"absent", "joined"}
  <2>1. CASE stop[w]
    BY <1>2, <2>1 DEF Take
  <2>2. CASE ~stop[w] /\ taskQueue[w] = <<>>
    BY <1>2, <2>2 DEF Take
  <2> QED
    BY <1>2, <2>1, <2>2 DEF Pops
<1>3. ASSUME UNCHANGED dpc, NEW w \in Worker, pc[w] \notin {"absent", "joined"} PROVE GoneInv'
  BY <1>3 DEF PoolIInv, GoneInv
<1>4. CASE Destroy
  BY <1>4 DEF Destroy, GoneInv
<1>5. ASSUME NEW w \in Worker, SignalStop(w)
      PROVE  /\ UNCHANGED <<taskQueue, func, spc, stask, todo, accepted, finished, workerIndex, pc>>
             /\ dpc = "clear" /\ dpc' \in {"join", "notify"}
  BY <1>5 DEF SignalStop
<1>6. CASE NotifyStopped
  BY <1>6 DEF NotifyStopped, Notify, GoneInv
<1>7. CASE Join
  BY <1>7 DEF Join, Joinable, GoneInv
<1>8. CASE Destroyed
  <2>1. \A w \in Worker : w >= poolSize => pc[w] = "absent"
    BY DEF IInv, PoolInv
  <2>2. \A w \in Worker : w < poolSize \/ w >= poolSize
    BY ConstantFacts DEF IInv, TypeOK
  <2> QED
    BY <1>8, <2>1, <2>2 DEF Destroyed, GoneInv
<1>9. CASE UNCHANGED vars
  BY <1>9 DEF vars, PoolIInv, GoneInv
<1> QED
  BY <1>1, <1>2, <1>3, <1>4, <1>5, <1>6, <1>7, <1>8, <1>9
     DEF QuietAction, DestroyStep, GoneInv

LEMMA NextCases ==
  ASSUME [Next]_vars
  PROVE  \/ \E s \in Thread, t \in Task : Submit(s, t)
         \/ \E s \in Thread : Dispatch(s) \/ Enqueue(s) \/ NotifyAndAdvance(s)
         \/ \E w \in Worker : Pops(w) \/ FinishTask(w)
         \/ QuietAction
  BY DEF Next, SubmitStep, WorkerStep, QuietAction, Pops, Done

LEMMA PoolInit == Init => PoolIInv
<1> SUFFICES ASSUME Init PROVE PoolIInv
  OBVIOUS
<1>1. /\ accepted = <<>> /\ Len(accepted) = 0 /\ finished = {} /\ dpc = "alive"
      /\ workerIndex = 0 /\ \A s \in Thread : spc[s] = "idle"
      /\ \A w \in Worker : pc[w] = "absent" /\ func[w] = NoOne /\ Len(taskQueue[w]) = 0
  BY DEF Init
<1>2. Positions = {}
  BY <1>1 DEF Positions
<1>3. OnceInv
  BY <1>1, <1>2 DEF OnceInv, Submitting
<1>4. IndexInv
  BY <1>1, LaneFacts DEF IndexInv
<1>5. RunInv
  BY <1>1 DEF RunInv
<1>6. QueueInv
  BY <1>1 DEF QueueInv
<1>7. WhereInv /\ GoneInv
  BY <1>1, <1>2 DEF WhereInv, GoneInv
<1> QED
  BY <1>3, <1>4, <1>5, <1>6, <1>7 DEF PoolIInv

LEMMA PoolNext == IInv /\ PoolIInv /\ [Next]_vars => PoolIInv'
<1> SUFFICES ASSUME IInv, PoolIInv, [Next]_vars PROVE PoolIInv'
  OBVIOUS
<1>1. CASE QuietAction
  BY <1>1, QuietFacts, QuietStep
<1> QED
  BY <1>1, NextCases, SubmitKeeps, DispatchKeeps, EnqueueKeeps, NotifyKeeps, TakeKeeps,
     FinishKeeps

-----------------------------------------------------------------------------
(* The refinement *)

LEMMA LaneIs == \A k : Lanes!Lane(k) = LaneOf(k)
  BY DEF Lanes!Lane, LaneOf

PhaseOf(d) == CASE d = "alive" -> "open" [] d = "gone" -> "shut" [] OTHER -> "closed"

LEMMA Phases ==
  ASSUME NEW d
  PROVE  /\ d = "alive" => PhaseOf(d) = "open"
         /\ d = "gone" => PhaseOf(d) = "shut"
         /\ d \notin {"alive", "gone"} => PhaseOf(d) = "closed"
  BY DEF PhaseOf

LEMMA MapInit == Init => Lanes!Init
  BY ConstantFacts DEF Init, Lanes!Init, Running

\* Every step of the executor is one of the pool of lanes, or none.
LEMMA MapNext == IInv /\ PoolIInv /\ [Next]_vars => [Lanes!Next]_(Lanes!vars)
<1> SUFFICES ASSUME IInv, PoolIInv, [Next]_vars PROVE [Lanes!Next]_(Lanes!vars)
  OBVIOUS
<1> DEFINE same == /\ accepted' = accepted /\ finished' = finished
                   /\ Running' = Running /\ PhaseOf(dpc)' = PhaseOf(dpc)
<1>1. same => UNCHANGED Lanes!vars
  BY DEF Lanes!vars, PhaseOf
<1>2. ASSUME NEW s \in Thread, NEW t \in Task, Submit(s, t) PROVE same
  BY <1>2 DEF Submit, workerVars, destrVars, Running
<1>3. ASSUME NEW s \in Thread, Dispatch(s) \/ NotifyAndAdvance(s) PROVE same
  BY <1>3 DEF Dispatch, NotifyAndAdvance, destrVars, histVars, Running
<1>4. ASSUME NEW s \in Thread, Enqueue(s) PROVE Lanes!Next
  <2> DEFINE t == stask[s]
  <2>1. /\ spc[s] = "enqueue" /\ accepted' = Append(accepted, t)
        /\ finished' = finished /\ Running' = Running /\ dpc' = dpc
    BY <1>4 DEF Enqueue, destrVars, Running
  <2>2. t \in Task
    BY <2>1 DEF IInv, CarryInv
  <2>3. dpc = "alive"
    BY <2>1 DEF IInv, LifetimeInv
  <2>4. t \notin Lanes!Accepted
    BY <2>1 DEF PoolIInv, OnceInv, Submitting, Positions, Lanes!Accepted
  <2> HIDE DEF t
  <2>5. Lanes!Accept(t)
    BY <2>1, <2>3, <2>4, Phases DEF Lanes!Accept, PhaseOf
  <2> QED
    BY <2>2, <2>5 DEF Lanes!Next
<1>5. ASSUME NEW w \in Worker, Pops(w) PROVE Lanes!Next
  <2> DEFINE t == taskQueue[w][1]
  <2>1. /\ pc[w] = "take" /\ func[w] = NoOne /\ func' = [func EXCEPT ![w] = t]
        /\ Len(taskQueue[w]) \in Nat \ {0} /\ t \in Task
        /\ accepted' = accepted /\ finished' = finished /\ dpc' = dpc
    BY <1>5, PopFacts
  <2>2. 1 \in 1..Len(taskQueue[w])
    BY <2>1
  <2>3. PICK k \in Positions : accepted[k] = t /\ LaneOf(k) = w
    BY <2>2 DEF PoolIInv, QueueInv
  <2>4. t \notin finished \cup Running
    BY <2>2 DEF PoolIInv, QueueInv
  <2>5. finished' \cup Running' = (finished \cup Running) \cup {t}
    BY <2>1, Types, ConstantFacts DEF Running
  <2>6. dpc # "gone"
    BY <2>1 DEF PoolIInv, GoneInv
  <2>7. ASSUME NEW j \in 1..(k - 1), LaneOf(j) = w PROVE accepted[j] \in finished
    <3>1. j \in Positions /\ j < k /\ accepted[j] # NoOne
      BY Types, ConstantFacts DEF Positions
    <3>2. \/ accepted[j] \in finished
          \/ func[w] = accepted[j]
          \/ \E i \in 1..Len(taskQueue[w]) : taskQueue[w][i] = accepted[j]
      BY <3>1, <2>7 DEF PoolIInv, WhereInv
    <3>3. ASSUME NEW i \in 1..Len(taskQueue[w]), taskQueue[w][i] = accepted[j] PROVE FALSE
      <4>1. CASE i = 1
        BY <4>1, <3>1, <3>3, <2>3, Types DEF PoolIInv, OnceInv, Positions
      <4>2. CASE 1 < i
        <5>1. k < j
          BY <4>2, <3>1, <3>3, <2>2, <2>3 DEF PoolIInv, QueueInv
        <5> QED
          BY <5>1, <3>1, Types DEF Positions
      <4> QED
        BY <4>1, <4>2, <2>1
    <3> QED
      BY <3>1, <3>2, <3>3, <2>1
  <2> HIDE DEF t
  <2>8. Lanes!Begin(k)
    BY <2>1, <2>3, <2>4, <2>5, <2>6, <2>7, Phases, LaneIs DEF Lanes!Begin, PhaseOf
  <2> QED
    BY <2>8, Types DEF Lanes!Next, Positions
<1>6. ASSUME NEW w \in Worker, FinishTask(w) PROVE Lanes!Next
  <2> DEFINE t == func[w]
  <2>1. /\ pc[w] = "run" /\ finished' = finished \cup {t}
        /\ accepted' = accepted /\ dpc' = dpc
    BY <1>6 DEF FinishTask, GoTo, destrVars
  <2>2. t \in Task /\ t \in Running /\ t \notin finished
    BY <2>1, ConstantFacts DEF IInv, CarryInv, Running, PoolIInv, RunInv
  <2>3. finished' \cup Running' = finished \cup Running
    BY <1>6, FinishKeeps
  <2>4. dpc # "gone"
    BY <2>1 DEF PoolIInv, GoneInv
  <2> HIDE DEF t
  <2>5. Lanes!Finish(t)
    BY <2>1, <2>2, <2>3, <2>4, Phases DEF Lanes!Finish, PhaseOf
  <2> QED
    BY <2>2, <2>5 DEF Lanes!Next
<1>7. CASE QuietAction
  <2>1. /\ accepted' = accepted /\ finished' = finished /\ Running' = Running
        /\ dpc' = dpc \/ (dpc = "alive" /\ dpc' = "clear") \/ Destroyed
             \/ (dpc # "alive" /\ dpc' \notin {"alive", "gone"} /\ dpc # "gone")
    BY <1>7, QuietFacts DEF Running
  <2>2. CASE dpc' = dpc
    BY <1>1, <2>1, <2>2 DEF PhaseOf
  <2>3. CASE dpc = "alive" /\ dpc' = "clear"
    <3>1. Lanes!Close
      BY <2>1, <2>3, Phases DEF Lanes!Close, PhaseOf
    <3> QED
      BY <3>1 DEF Lanes!Next
  <2>4. CASE Destroyed
    <3>1. dpc = "clear" /\ dpc' = "gone" /\ \A w \in Worker : w < poolSize => pc[w] = "joined"
      BY <2>4 DEF Destroyed
    <3>2. \A w \in Worker : pc[w] # "run"
      <4>1. \A w \in Worker : w >= poolSize => pc[w] = "absent"
        BY DEF IInv, PoolInv
      <4>2. \A w \in Worker : w < poolSize \/ w >= poolSize
        BY ConstantFacts DEF IInv, TypeOK
      <4> QED
        BY <3>1, <4>1, <4>2
    <3>3. Running = {}
      BY <3>2 DEF PoolIInv, RunInv, Running
    <3>4. Lanes!Shut
      BY <2>1, <3>1, <3>3, Phases DEF Lanes!Shut, PhaseOf
    <3> QED
      BY <3>4 DEF Lanes!Next
  <2>5. CASE dpc # "alive" /\ dpc' \notin {"alive", "gone"} /\ dpc # "gone"
    <3>1. PhaseOf(dpc)' = PhaseOf(dpc)
      BY <2>5, Phases DEF PhaseOf
    <3> QED
      BY <1>1, <2>1, <3>1
  <2> QED
    BY <2>1, <2>2, <2>3, <2>4, <2>5
<1> HIDE DEF same
<1> QED
  BY <1>1, <1>2, <1>3, <1>4, <1>5, <1>6, <1>7, NextCases

\* The inductive invariant of the queues (Executor.cxx:12-139).
THEOREM PoolInvariance == Spec => []PoolIInv
  BY Invariance, PoolInit, PoolNext, PTL DEF Spec

\* The executor implements the pool of lanes: what is accepted is begun on its
\* own lane, once, in the order of acceptance and one at a time, nothing else
\* is, and nothing runs or begins after the destructor has returned
\* (Executor.cxx:12-139).
THEOREM ExecutorImplementsTaskPool == Spec => ImplementsTaskPool
  BY MapInit, MapNext, Invariance, PoolInvariance, PTL
     DEF Spec, ImplementsTaskPool, Lanes!Spec
=============================================================================
