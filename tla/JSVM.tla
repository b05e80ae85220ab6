-------------------------------- MODULE JSVM --------------------------------
(***************************************************************************)
(* DynXX::Core::VM::JSVM (src/core/vm/JSVM.cxx): one QuickJS context, the  *)
(* recursive vmMutex that guards it, the native calls into JS (loadScript, *)
(* and callFunc with or without await), and the promises that JS code      *)
(* obtains from native functions and that the VM's executor settles.       *)
(*                                                                         *)
(* Native code and JS call one another: JS running inside callFunc, or a   *)
(* promise's callback running on a worker, may reach the host's message    *)
(* callback, which may call callFunc again on the same thread.  Each       *)
(* thread has a stack of frames for that.  The executor is its abstract    *)
(* specification TaskPool, which module Executor implements, with one task *)
(* per promise and two that run QuickJS's loops over promise jobs and      *)
(* timers.                                                                 *)
(***************************************************************************)
EXTENDS Naturals, Sequences, FiniteSets, SequencesExt

CONSTANTS Host,        \* threads of the application
          Workers,     \* how many workers the executor has
          Promise,     \* the promises newPromise may make
          MaxDepth,    \* bound on the frames of a thread
          MaxNested,   \* bound on the nested calls one frame makes
          NoOne        \* no thread, no promise

Worker == 0..(Workers - 1)
Thread == Host \cup Worker

\* The tasks the constructor gives the executor.
Loop == {"promises", "timers"}

ASSUME BoundsAssumption ==
  Workers \in Nat \ {0} /\ MaxDepth \in Nat \ {0} /\ MaxNested \in Nat
ASSUME NoOneAssumption == NoOne \notin Thread /\ NoOne \notin Promise
ASSUME LoopAssumption == Loop \cap Promise = {}

VARIABLES
  owner,     \* the thread that owns vmMutex, or NoOne
  depth,     \* how many times it locked it
  stack,     \* the frames of each thread, the innermost last
  state,     \* of each promise: "none", "pending" or "settled"
  record,    \* of its C++ Promise record: "none", "live" or "deleted"
  accepted, begun, finished, phase  \* the executor

lockVars == <<owner, depth>>
poolVars == <<accepted, begun, finished, phase>>
vars     == <<lockVars, stack, state, record, poolVars>>

Pool == INSTANCE TaskPool WITH Task <- Promise \cup Loop, Lanes <- Workers

-----------------------------------------------------------------------------
(* Frames.  A "call" is an activation of callFunc, a "load" one of         *)
(* loadScript, loadFile or loadBinary, a "task" the task of newPromise     *)
(* running on a worker, a Loop that task of the constructor.  at is how    *)
(* far it got:                                                             *)
(*   "lock"   about to lock vmMutex                                        *)
(*   "js"     running JS (a call, a load, a loop), or in the callback cbk()*)
(*   "made"   in newPromise, the task submitted, about to read jPromise->p *)
(*   "await"  in jAwait, between two polls                                 *)
(*   "read"   converting and freeing the result (JSVM.cxx:302-319)         *)

Frame == [kind : {"call", "load", "task"} \cup Loop,
          at : {"lock", "js", "made", "await", "read"},
          await : BOOLEAN, promise : Promise \cup {NoOne}, nested : 0..MaxNested]

NewCall(kind, aw) == [kind |-> kind, at |-> "lock", await |-> aw,
                      promise |-> NoOne, nested |-> 0]
\* A worker's first frame: a loop, or the task of a promise.
NewTask(x) == [kind |-> IF x \in Loop THEN x ELSE "task", at |-> "lock", await |-> FALSE,
               promise |-> IF x \in Loop THEN NoOne ELSE x, nested |-> 0]

Top(t) == Last(stack[t])
At(t, a) == stack[t] # <<>> /\ Top(t).at = a

\* The innermost frame of t becomes f, or returns to its caller.
SetTop(t, f) == stack' = [stack EXCEPT ![t] = Append(Front(@), f)]
Return(t) == stack' = [stack EXCEPT ![t] = Front(@)]

-----------------------------------------------------------------------------
(* vmMutex, a std::recursive_timed_mutex *)

\* A slip: a lock that never waits.
FreeAlways(t) == TRUE
\* t can lock the mutex: nobody owns it, or t itself.
FreeFor(t) == owner \in {NoOne, t}

Lock(t) ==
  /\ FreeFor(t)
  /\ owner' = t
  /\ depth' = depth + 1

\* A slip: the mutex is given up whatever the depth.
UnlockFully(t) == depth' = 0 /\ owner' = NoOne
\* A slip: the innermost call gives up nothing.
UnlockNothing(t) == UNCHANGED lockVars
\* One level of t's ownership.
Unlock(t) ==
  /\ depth' = depth - 1
  /\ owner' = IF depth = 1 THEN NoOne ELSE owner

-----------------------------------------------------------------------------
(* callFunc, loadScript *)

\* The application, or native code below JS code or a promise's callback,
\* calls callFunc or loads a script.
Call(t, kind, aw) ==
  /\ kind = "load" => ~aw
  /\ IF stack[t] = <<>>
       THEN t \in Host /\ stack' = [stack EXCEPT ![t] = <<NewCall(kind, aw)>>]
       ELSE /\ At(t, "js")
            /\ Len(stack[t]) < MaxDepth
            /\ Top(t).nested < MaxNested
            /\ stack' = [stack EXCEPT ![t] =
                 Append(Append(Front(@), [Top(t) EXCEPT !.nested = Top(t).nested + 1]),
                        NewCall(kind, aw))]
  /\ UNCHANGED <<lockVars, state, record, poolVars>>

\* unique_lock in callFunc, scoped_lock in loadScript and in the task of
\* newPromise, a successful tryLock in a loop's task.
Enter(t) ==
  /\ At(t, "lock")
  /\ Lock(t)
  /\ SetTop(t, [Top(t) EXCEPT !.at = "js"])
  /\ UNCHANGED <<state, record, poolVars>>

\* JS code calls a native function that returns a promise: newPromise makes
\* the record and hands a task to the executor.  (When QuickJS cannot make a
\* promise it throws into JS and nothing changes.)
NewPromise(t, p) ==
  /\ At(t, "js") /\ Top(t).kind # "task"
  /\ state[p] = "none"
  /\ state' = [state EXCEPT ![p] = "pending"]
  /\ record' = [record EXCEPT ![p] = "live"]
  /\ Pool!Accept(p)
  /\ SetTop(t, [Top(t) EXCEPT !.at = "made", !.promise = p])
  /\ UNCHANGED lockVars

\* ... and returns jPromise->p to JS.
PromiseMade(t) ==
  /\ At(t, "made")
  /\ SetTop(t, [Top(t) EXCEPT !.at = "js"])
  /\ UNCHANGED <<lockVars, state, record, poolVars>>

\* JS_Call returns the last promise made, another value or an exception; or
\* there was no such function, which ends like an exception.  The lock is
\* given up and the result awaited if the caller asked for it.
Returned(t) ==
  /\ At(t, "js") /\ Top(t).kind = "call"
  /\ Unlock(t)
  /\ \E p \in {NoOne, Top(t).promise}, thrown \in BOOLEAN :
       SetTop(t, [Top(t) EXCEPT
                    !.at = IF Top(t).await /\ ~thrown THEN "await" ELSE "read",
                    !.promise = IF thrown THEN NoOne ELSE p])
  /\ UNCHANGED <<state, record, poolVars>>

\* The script was evaluated.
Loaded(t) ==
  /\ At(t, "js") /\ Top(t).kind = "load"
  /\ Unlock(t)
  /\ Return(t)
  /\ UNCHANGED <<state, record, poolVars>>

\* The poll of jAwait that ends its loop: it gets the lock within its time
\* limit, finds a promise that is not pending or no promise at all, and
\* unlocks.  A poll that does not get the lock, or finds the promise pending,
\* leaves everything as it was.
AwaitOver(t) ==
  /\ At(t, "await")
  /\ FreeFor(t)
  /\ Top(t).promise # NoOne => state[Top(t).promise] = "settled"
  /\ SetTop(t, [Top(t) EXCEPT !.at = "read"])
  /\ UNCHANGED <<lockVars, state, record, poolVars>>

\* callFunc converts the result, frees it and returns.
CallOver(t) ==
  /\ At(t, "read")
  /\ Return(t)
  /\ UNCHANGED <<lockVars, state, record, poolVars>>

-----------------------------------------------------------------------------
(* The executor's workers *)

TaskBegins(w) ==
  /\ stack[w] = <<>>
  /\ \E k \in 1..Len(accepted) :
       /\ Pool!Lane(k) = w
       /\ Pool!Begin(k)
       /\ stack' = [stack EXCEPT ![w] = <<NewTask(accepted[k])>>]
  /\ UNCHANGED <<lockVars, state, record>>

\* The callback returned: _callbackPromise settles the promise and deletes
\* the record, and the lock is given up.
TaskOver(w) ==
  /\ At(w, "js") /\ Top(w).kind = "task"
  /\ state' = [state EXCEPT ![Top(w).promise] = "settled"]
  /\ record' = [record EXCEPT ![Top(w).promise] = "deleted"]
  /\ Unlock(w)
  /\ Pool!Finish(Top(w).promise)
  /\ Return(w)

\* A slip: the task of a promise, too, only tries to lock the mutex.
EveryTaskGivesUp(w) ==
  /\ At(w, "lock") /\ Top(w).kind \in Loop \cup {"task"}
  /\ ~FreeFor(w)
  /\ Pool!Finish(IF Top(w).kind = "task" THEN Top(w).promise ELSE Top(w).kind)
  /\ Return(w)
  /\ UNCHANGED <<lockVars, state, record>>

\* The tryLock of a loop's task timed out: somebody else has the mutex.
GaveUp(w) ==
  /\ At(w, "lock") /\ Top(w).kind \in Loop
  /\ ~FreeFor(w)
  /\ Pool!Finish(Top(w).kind)
  /\ Return(w)
  /\ UNCHANGED <<lockVars, state, record>>

\* A loop found nothing left to run.
LoopOver(w) ==
  /\ At(w, "js") /\ Top(w).kind \in Loop
  /\ Unlock(w)
  /\ Pool!Finish(Top(w).kind)
  /\ Return(w)
  /\ UNCHANGED <<state, record>>

-----------------------------------------------------------------------------
\* After the constructor, which has handed the loops to the executor.
Init ==
  /\ owner = NoOne
  /\ depth = 0
  /\ stack = [t \in Thread |-> <<>>]
  /\ state = [p \in Promise |-> "none"]
  /\ record = [p \in Promise |-> "none"]
  /\ accepted = <<"promises", "timers">>
  /\ begun = {} /\ finished = {} /\ phase = "open"

\* What a thread inside callFunc, and a worker, owes its caller.
CallStep(t) ==
  \/ Enter(t)
  \/ PromiseMade(t)
  \/ Returned(t)
  \/ Loaded(t)
  \/ AwaitOver(t)
  \/ CallOver(t)

TaskStep(w) == TaskBegins(w) \/ TaskOver(w) \/ GaveUp(w) \/ LoopOver(w)

Next ==
  \/ \E t \in Thread :
       \/ \E kind \in {"call", "load"}, aw \in BOOLEAN : Call(t, kind, aw)
       \/ \E p \in Promise : NewPromise(t, p)
       \/ CallStep(t)
  \/ \E w \in Worker : TaskStep(w)

Spec == Init /\ [][Next]_vars

(***************************************************************************)
(* JS functions, callbacks and QuickJS's loops return, workers take their  *)
(* tasks, and a thread that keeps trying to lock a mutex that keeps being  *)
(* unlocked gets it, also when it only tries for a millisecond at a time.  *)
(* Nobody has to call, nest a call or make a promise.                      *)
(***************************************************************************)
Fairness ==
  /\ \A t \in Host : SF_vars(CallStep(t))
  /\ \A w \in Worker : SF_vars(CallStep(w) \/ TaskStep(w))

FairSpec == Spec /\ Fairness

-----------------------------------------------------------------------------
(* Properties *)

\* The type of every variable; a thread locks the mutex once per frame.
TypeOK ==
  /\ owner \in Thread \cup {NoOne}
  /\ depth \in 0..MaxDepth
  /\ stack \in [Thread -> Seq(Frame)]
  /\ state \in [Promise -> {"none", "pending", "settled"}]
  /\ record \in [Promise -> {"none", "live", "deleted"}]

\* Whether a frame holds one level of the mutex.
Locked(f) == f.at \in {"js", "made"}

\* How many levels the frames of a stack hold.
Levels(s) == Cardinality({i \in DOMAIN s : Locked(s[i])})

\* Every path through callFunc and through a task gives up exactly the levels
\* of the recursive mutex it took: nobody else's, and none is left behind.
LockBalanced ==
  /\ owner = NoOne <=> depth = 0
  /\ \A t \in Thread :
       Levels(stack[t]) = IF owner = t THEN depth ELSE 0

\* newPromise reads jPromise->p after it handed the record to a worker, which
\* deletes it (JSVM.cxx:346, 139): the record is still there because the
\* worker needs the lock the caller of newPromise holds.
RecordOutlivesNewPromise ==
  \A t \in Thread : At(t, "made") => record[Top(t).promise] = "live"

\* t polls for a promise that is still pending while it holds the lock: the
\* call that awaits is nested in others, whose levels it cannot give up.  "Release
\* the lock imediately, to avoid blocking the JS event loop" (JSVM.cxx:299) is
\* not what it does then.
Blocks(t) ==
  /\ At(t, "await") /\ owner = t
  /\ Top(t).promise # NoOne /\ state[Top(t).promise] = "pending"

\* A nested call that awaits a pending promise never returns: who would settle
\* the promise needs the lock, and the poll of jAwait gives up one level of it
\* only (JSVM.cxx:171, 300).
NestedAwaitNeverEnds == [][\A t \in Thread : Blocks(t) => Blocks(t)']_vars

\* Every call of the application returns, unless a nested call awaits
\* (JSVM.cxx:283-322).
EveryCallReturns ==
  \A t \in Host :
    (stack[t] # <<>>) ~> (stack[t] = <<>> \/ \E u \in Thread : Blocks(u))

\* Every promise handed to JS settles, unless a nested call awaits
\* (JSVM.cxx:338-344).
EveryPromiseSettles ==
  \A p \in Promise :
    (state[p] = "pending")
      ~> (state[p] = "settled" \/ \E u \in Thread : Blocks(u))
=============================================================================
