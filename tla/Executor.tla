------------------------------ MODULE Executor ------------------------------
(***************************************************************************)
(* DynXX::Core::Concurrent::Executor and its Workers                       *)
(* (src/core/concurrent/Executor.cxx).                                     *)
(*                                                                         *)
(* An Executor owns up to Capacity workers and creates one of them on each *)
(* of its first Capacity submissions.  A submission (operator>>) holds the *)
(* executor's mutex throughout, appends the task to the queue of the       *)
(* worker at workerIndex under that worker's mutex, notifies the worker's  *)
(* condition variable after unlocking it, and advances workerIndex.  A     *)
(* worker thread loops: lock, wait for a task or for the stop signal, pop, *)
(* unlock, run.  The destructor destroys the workers one after another:    *)
(* signal stop, join.                                                      *)
(*                                                                         *)
(* The critical sections other threads enter on a worker's mutex are one   *)
(* step each; the worker's own one spans several, so that mutex is taken   *)
(* exactly while its thread is at "block" or "take".                       *)
(***************************************************************************)
EXTENDS Naturals, Sequences, FiniteSets

CONSTANTS Task,         \* tasks, each submitted at most once
          Client,       \* threads that submit and are not workers
          PoolCapacity, \* workerPoolCapacity given to the constructor
          CpuCores,     \* what countCPUCore() returns
          HasJthread,   \* whether __cpp_lib_jthread is defined
          NoOne         \* no thread, no task

\* The constructor replaces a capacity of 0 by the number of cores.
Capacity == IF PoolCapacity = 0 THEN CpuCores ELSE PoolCapacity

Worker == 0..(Capacity - 1)

\* A running task may submit, so workers are submitters too.
Thread == Client \cup Worker

\* hardware_concurrency() may return 0; workerPool.at(0) would then throw, so
\* a program that works has at least one core or passes a capacity.
ASSUME CapacityAssumption ==
  PoolCapacity \in Nat /\ CpuCores \in Nat /\ Capacity \in Nat \ {0}
ASSUME ThreadAssumption == Client \cap Worker = {}
ASSUME NoOneAssumption == NoOne \notin Task /\ NoOne \notin Thread
ASSUME JthreadAssumption == HasJthread \in BOOLEAN

VARIABLES
  mutex,        \* the holder of Executor::mutex, or NoOne
  poolSize,     \* workerPool.size(); workers 0..poolSize-1 exist
  workerIndex,  \* Executor::workerIndex
  taskQueue,    \* Worker::taskQueue
  stop,         \* Worker::shouldStop, or the stop state of its jthread
  pc,           \* where a worker's thread is
  func,         \* the task a worker popped and runs
  spc,          \* where a thread is in Executor::operator>>
  stask,        \* the task that thread submits
  dpc,          \* where the destructor is
  doomed,       \* the worker the destructor is destroying
  todo,         \* tasks nobody has submitted
  accepted,     \* history: the tasks in the order they were enqueued
  finished      \* history: the tasks that ran to their end

execVars   == <<mutex, poolSize, workerIndex>>
workerVars == <<taskQueue, stop, pc, func>>
submitVars == <<spc, stask>>
destrVars  == <<dpc, doomed>>
histVars   == <<todo, accepted, finished>>
vars       == <<execVars, workerVars, submitVars, destrVars, histVars>>

Init ==
  /\ mutex = NoOne
  /\ poolSize = 0
  /\ workerIndex = 0
  /\ taskQueue = [w \in Worker |-> <<>>]
  /\ stop = [w \in Worker |-> FALSE]
  /\ pc = [w \in Worker |-> "absent"]
  /\ func = [w \in Worker |-> NoOne]
  /\ spc = [s \in Thread |-> "idle"]
  /\ stask = [s \in Thread |-> NoOne]
  /\ dpc = "alive"
  /\ doomed = NoOne
  /\ todo = Task
  /\ accepted = <<>>
  /\ finished = {}

-----------------------------------------------------------------------------
(* Executor::operator>> *)

\* A slip: the notification is forgotten.
NotifyNobody(w, p) == p
\* notify_one on worker w: its thread is the only one that ever waits, and it
\* goes on to reacquire the mutex.  Without a waiter the call has no effect.
Notify(w, p) == [p EXCEPT ![w] = IF @ = "blocked" THEN "lock" ELSE @]

\* A slip: the critical section is entered without the lock.
UnlockedAlways(w) == TRUE
\* The mutex of worker w is free.
Unlocked(w) == pc[w] \notin {"block", "take"}

\* A thread calls executor >> t.  Submitting to an executor whose destructor
\* has begun is outside the object's lifetime.
Submit(s, t) ==
  /\ dpc = "alive"
  /\ spc[s] = "idle"
  /\ s \in Worker => pc[s] = "run"
  /\ t \in todo
  /\ todo' = todo \ {t}
  /\ stask' = [stask EXCEPT ![s] = t]
  /\ spc' = [spc EXCEPT ![s] = "lock"]
  /\ UNCHANGED <<execVars, workerVars, destrVars, accepted, finished>>

\* A slip in the comparison: the last worker is never created.
GrowOffByOne == poolSize < Capacity - 1
\* The pool is not full: operator>> creates a worker.
Grows == poolSize < Capacity

\* scoped_lock on the executor's mutex, and a new worker while the pool is
\* not full: its thread starts at the head of its loop.
Dispatch(s) ==
  /\ spc[s] = "lock"
  /\ mutex = NoOne
  /\ mutex' = s
  /\ spc' = [spc EXCEPT ![s] = "enqueue"]
  /\ IF Grows
       THEN /\ poolSize' = poolSize + 1
            /\ pc' = [pc EXCEPT ![poolSize] = "loop"]
       ELSE UNCHANGED <<poolSize, pc>>
  /\ UNCHANGED <<workerIndex, taskQueue, stop, func, stask, destrVars, histVars>>

\* A slip: a stack instead of a queue.
PushFront(q, t) == <<t>> \o q
\* taskQueue.emplace
Push(q, t) == Append(q, t)

\* Worker::operator>>: emplace under the worker's mutex.
Enqueue(s) ==
  /\ spc[s] = "enqueue"
  /\ Unlocked(workerIndex)
  /\ taskQueue' = [taskQueue EXCEPT ![workerIndex] = Push(@, stask[s])]
  /\ accepted' = Append(accepted, stask[s])
  /\ spc' = [spc EXCEPT ![s] = "notify"]
  /\ UNCHANGED <<execVars, stop, pc, func, stask, destrVars, todo, finished>>

\* A slip: the index never wraps.
NextIndexUnbounded == workerIndex + 1
\* workerIndex after a submission.
NextIndex == (workerIndex + 1) % Capacity

\* notify_one after the worker's mutex was released; then the round-robin
\* index advances and the executor's mutex is released.
NotifyAndAdvance(s) ==
  /\ spc[s] = "notify"
  /\ pc' = Notify(workerIndex, pc)
  /\ workerIndex' = NextIndex
  /\ mutex' = NoOne
  /\ spc' = [spc EXCEPT ![s] = "idle"]
  /\ stask' = [stask EXCEPT ![s] = NoOne]
  /\ UNCHANGED <<poolSize, taskQueue, stop, func, destrVars, histVars>>

-----------------------------------------------------------------------------
(* The thread of a worker *)

GoTo(w, from, to) ==
  /\ pc[w] = from
  /\ pc' = [pc EXCEPT ![w] = to]

\* The condition of the while loop, read without the mutex.
LoopTest(w) ==
  /\ GoTo(w, "loop", IF stop[w] THEN "exited" ELSE "lock")
  /\ UNCHANGED <<execVars, taskQueue, stop, func, submitVars, destrVars, histVars>>

\* A slip: the predicate forgets the stop signal.
ReadyIgnoringStop(w) == taskQueue[w] # <<>>
\* The predicate cv.wait is given.
Ready(w) == taskQueue[w] # <<>> \/ stop[w]

\* Lock the mutex, at the head of the loop or inside cv.wait, and evaluate
\* the predicate.
WaitTest(w) ==
  /\ GoTo(w, "lock", IF Ready(w) THEN "take" ELSE "block")
  /\ UNCHANGED <<execVars, taskQueue, stop, func, submitVars, destrVars, histVars>>

\* cv.wait releases the mutex and blocks, atomically.
Block(w) ==
  /\ GoTo(w, "block", "blocked")
  /\ UNCHANGED <<execVars, taskQueue, stop, func, submitVars, destrVars, histVars>>

\* A condition variable may wake its waiter for no reason.
SpuriousWakeup(w) ==
  /\ GoTo(w, "blocked", "lock")
  /\ UNCHANGED <<execVars, taskQueue, stop, func, submitVars, destrVars, histVars>>

\* taskQueue.pop
Pop(q) == Tail(q)

\* After the wait: leave the loop when told to stop, else pop one task.  The
\* mutex is released either way.
Take(w) ==
  /\ pc[w] = "take"
  /\ IF stop[w]
       THEN /\ pc' = [pc EXCEPT ![w] = "exited"]
            /\ UNCHANGED <<taskQueue, func>>
       ELSE IF taskQueue[w] = <<>>
              THEN /\ pc' = [pc EXCEPT ![w] = "loop"]
                   /\ UNCHANGED <<taskQueue, func>>
              ELSE /\ pc' = [pc EXCEPT ![w] = "run"]
                   /\ func' = [func EXCEPT ![w] = Head(taskQueue[w])]
                   /\ taskQueue' = [taskQueue EXCEPT ![w] = Pop(@)]
  /\ UNCHANGED <<execVars, stop, submitVars, destrVars, histVars>>

\* func() returns.  A task that is inside operator>> has not returned.
FinishTask(w) ==
  /\ spc[w] = "idle"
  /\ GoTo(w, "run", "loop")
  /\ func' = [func EXCEPT ![w] = NoOne]
  /\ finished' = finished \cup {func[w]}
  /\ UNCHANGED <<execVars, taskQueue, stop, submitVars, destrVars, todo, accepted>>

-----------------------------------------------------------------------------
(* ~Executor: workerPool.clear() runs ~Worker on each worker, in the order *)
(* the standard library chooses.                                           *)

\* The owner destroys the executor when no call of operator>> is under way.
Destroy ==
  /\ dpc = "alive"
  /\ \A s \in Thread : spc[s] = "idle"
  /\ dpc' = "clear"
  /\ UNCHANGED <<execVars, workerVars, submitVars, doomed, histVars>>

\* ~Worker: with std::thread the flag is set under the worker's mutex; a
\* jthread's destructor calls request_stop(), which takes no mutex of ours
\* and notifies nobody.
SignalStop(w) ==
  /\ dpc = "clear"
  /\ w < poolSize
  /\ pc[w] # "joined"
  /\ HasJthread \/ Unlocked(w)
  /\ stop' = [stop EXCEPT ![w] = TRUE]
  /\ doomed' = w
  /\ dpc' = IF HasJthread THEN "join" ELSE "notify"
  /\ UNCHANGED <<execVars, taskQueue, pc, func, submitVars, histVars>>

NotifyStopped ==
  /\ dpc = "notify"
  /\ pc' = Notify(doomed, pc)
  /\ dpc' = "join"
  /\ UNCHANGED <<execVars, taskQueue, stop, func, submitVars, doomed, histVars>>

\* thread.join() returns once the thread has left its loop.
Joinable == dpc = "join" /\ pc[doomed] = "exited"

\* The queue goes with the worker: the tasks still in it are dropped.
Join ==
  /\ Joinable
  /\ pc' = [pc EXCEPT ![doomed] = "joined"]
  /\ doomed' = NoOne
  /\ dpc' = "clear"
  /\ UNCHANGED <<execVars, taskQueue, stop, func, submitVars, histVars>>

Destroyed ==
  /\ dpc = "clear"
  /\ \A w \in Worker : w < poolSize => pc[w] = "joined"
  /\ dpc' = "gone"
  /\ UNCHANGED <<execVars, workerVars, submitVars, doomed, histVars>>

Done == dpc = "gone" /\ UNCHANGED vars

-----------------------------------------------------------------------------
SubmitStep(s) == Dispatch(s) \/ Enqueue(s) \/ NotifyAndAdvance(s)

WorkerStep(w) == LoopTest(w) \/ WaitTest(w) \/ Block(w) \/ Take(w) \/ FinishTask(w)

DestroyStep ==
  \/ \E w \in Worker : SignalStop(w)
  \/ NotifyStopped
  \/ Join
  \/ Destroyed

Next ==
  \/ \E s \in Thread, t \in Task : Submit(s, t)
  \/ \E s \in Thread : SubmitStep(s)
  \/ \E w \in Worker : WorkerStep(w) \/ SpuriousWakeup(w)
  \/ Destroy
  \/ DestroyStep
  \/ Done

Spec == Init /\ [][Next]_vars

(***************************************************************************)
(* Every thread that can go on eventually does, tasks return, and a thread *)
(* that keeps asking for a mutex that keeps being released gets it.  No    *)
(* fairness for Submit, SpuriousWakeup or Destroy: callers and the         *)
(* operating system owe nobody those steps.                                *)
(***************************************************************************)
Fairness ==
  /\ \A s \in Thread : SF_vars(SubmitStep(s))
  /\ \A w \in Worker : WF_vars(WorkerStep(w))
  /\ SF_vars(DestroyStep)

FairSpec == Spec /\ Fairness

-----------------------------------------------------------------------------
(* Properties *)

WorkerPc == {"absent", "loop", "lock", "block", "blocked", "take", "run",
             "exited", "joined"}

\* The type of every variable, and that workerIndex never leaves the range
\* the pool will have when it is full.
TypeOK ==
  /\ mutex \in Thread \cup {NoOne}
  /\ poolSize \in 0..Capacity
  /\ workerIndex \in Worker
  /\ taskQueue \in [Worker -> Seq(Task)]
  /\ stop \in [Worker -> BOOLEAN]
  /\ pc \in [Worker -> WorkerPc]
  /\ func \in [Worker -> Task \cup {NoOne}]
  /\ spc \in [Thread -> {"idle", "lock", "enqueue", "notify"}]
  /\ stask \in [Thread -> Task \cup {NoOne}]
  /\ dpc \in {"alive", "clear", "notify", "join", "gone"}
  /\ doomed \in Worker \cup {NoOne}
  /\ todo \subseteq Task
  /\ accepted \in Seq(Task)
  /\ finished \subseteq Task

\* No wakeup is lost: when a worker sleeps in cv.wait although its queue holds
\* a task or it was told to stop, somebody is just about to notify it.  The
\* notifications come after the mutex is released (Executor.cxx:95-97, 75).
NoLostWakeup ==
  \A w \in Worker :
    pc[w] = "blocked" =>
      /\ taskQueue[w] # <<>> => \E s \in Thread : spc[s] = "notify" /\ workerIndex = w
      /\ stop[w] => dpc = "notify" /\ doomed = w

\* workerPool.at(workerIndex) (Executor.cxx:134) finds a worker, and one that
\* is running its loop: the pool grows in step with the round-robin index.
IndexInPool ==
  \A s \in Thread :
    spc[s] \in {"enqueue", "notify"} =>
      /\ workerIndex < poolSize
      /\ pc[workerIndex] \notin {"absent", "exited", "joined"}

\* The executor implements the pool of lanes: tasks are spread round-robin in
\* the order they are submitted, each worker runs its own in that order, at
\* most once and one at a time, and none runs once the destructor returned.
Running == {func[w] : w \in Worker} \ {NoOne}
Lanes == INSTANCE TaskPool WITH
  Lanes <- Capacity,
  begun <- finished \cup Running,
  phase <- CASE dpc = "alive" -> "open" [] dpc = "gone" -> "shut"
             [] OTHER -> "closed"
ImplementsTaskPool == Lanes!Spec

\* A task that was accepted runs to its end, unless the executor is destroyed
\* (a worker that is told to stop drops what is still queued).
EveryTaskRuns ==
  \A t \in Task : (t \in Lanes!Accepted) ~> (t \in finished \/ dpc # "alive")

\* The destructor returns: each worker thread leaves its loop and is joined
\* (Executor.cxx:69 says so of the jthread build too).
DestructorReturns == (dpc = "clear") ~> (dpc = "gone")
=============================================================================
