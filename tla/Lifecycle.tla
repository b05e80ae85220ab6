----------------------------- MODULE Lifecycle -----------------------------
(***************************************************************************)
(* The SDK from dynxxInit to dynxxRelease (src/DynXX-X.cxx), again and     *)
(* again, with the jobs that scripts leave on the workers of the JS VM,    *)
(* and the log callback that an Android application sets, up to the        *)
(* unloading of the library (DynXXJNI.cxx).                                *)
(*                                                                         *)
(* One thread of the application makes these calls, one after the other.   *)
(* The pointers they set and reset have no lock: jobs test and use them at *)
(* any time.  The log's mutex is the only lock (module Log has the rest of *)
(* the log).                                                               *)
(***************************************************************************)
EXTENDS Integers

CONSTANTS
  Thread, \* threads that log
  Job,    \* jobs of scripts
  Ref,    \* global references the JVM hands out, as many as are asked for
  Null    \* no reference, no thread, no store

ASSUME NullAssumption == Null \notin Thread \cup Ref

Store == {"http", "sqlite", "kv"}       \* what a job may call
Component == Store \cup {"root", "lua", "js"}

VARIABLES
  live,      \* the components whose pointer is set
  open,      \* the stores with an open connection
  doing,     \* the application: "idle", or the next step of its call
  job,       \* a job: "none", "queued", "testing", "using", "settling"
  target,    \* the store a job calls, or called last
  freed,     \* has a job used a store, or the VM's context, after its end?
  loaded,    \* sVM is set
  callback,  \* is log_callback _callback, the log's?
  ref,       \* sLogCallback
  method,    \* is sLogCallbackMethodId set?
  dead,      \* the references deleted
  mutex,     \* the holder of the log's mutex
  at         \* a thread that logs: "idle", "entered", "calling" (JVM)

sdkVars == <<live, open>>
jobVars == <<job, target, freed>>
jniVars == <<loaded, ref, method, dead>>
logVars == <<mutex, at>>
vars    == <<sdkVars, doing, jobVars, jniVars, callback, logVars>>

Init ==
  /\ live = {}
  /\ open = {}
  /\ doing = "idle"
  /\ job = [j \in Job |-> "none"]
  /\ target = [j \in Job |-> Null]
  /\ freed = FALSE
  /\ loaded = TRUE
  /\ callback = FALSE
  /\ ref = Null
  /\ method = FALSE
  /\ dead = {}
  /\ mutex = Null
  /\ at = [t \in Thread |-> "idle"]

\* The application goes on from one step to the next.
Then(from, to) == doing = from /\ doing' = to

-----------------------------------------------------------------------------
(* dynxxInit *)

\* A call with a root, unless there is one already; an empty root, or a second
\* call, changes nothing.
InitRoot ==
  /\ loaded
  /\ "root" \notin live
  /\ Then("idle", "init.sqlite")
  /\ live' = live \cup {"root"}
  /\ UNCHANGED <<open, jobVars, jniVars, callback, logVars>>

\* make_unique, or the init of a script bridge, which binds its functions.
Make(c, from, to) ==
  /\ Then(from, to)
  /\ live' = live \cup {c}
  /\ UNCHANGED <<open, jobVars, jniVars, callback, logVars>>

InitStep ==
  \/ Make("sqlite", "init.sqlite", "init.kv")
  \/ Make("kv", "init.kv", "init.http")
  \/ Make("http", "init.http", "init.lua")
  \/ Make("lua", "init.lua", "init.js")
  \/ Make("js", "init.js", "idle")

-----------------------------------------------------------------------------
(* dynxxRelease *)

\* reset: a store takes its connections with it.
Reset(c, from, to) ==
  /\ Then(from, to)
  /\ live' = live \ {c}
  /\ open' = open \ {c}
  /\ UNCHANGED <<jobVars, jniVars, callback, logVars>>

CloseAll(c, from, to) ==
  /\ Then(from, to)
  /\ open' = open \ {c}
  /\ UNCHANGED <<live, jobVars, jniVars, callback, logVars>>

\* setCallback(nullptr), for which the mutex must be free.
ClearLog(from, to) ==
  /\ Then(from, to)
  /\ mutex = Null
  /\ callback' = FALSE
  /\ UNCHANGED <<sdkVars, jobVars, jniVars, logVars>>

\* A slip: the workers are not joined.
NoWorkerRuns(jobs) == FALSE
WorkersRun(jobs) == \E j \in Job : jobs[j] \in {"testing", "using", "settling"}

\* ~JSVM frees the context, whatever the workers do.
ReleaseJs == Reset("js", "release.js", "join.js")

\* The destructor of its base class joins them: what runs ends first, and what
\* is still queued is dropped.
JoinJs ==
  /\ Then("join.js", "idle")
  /\ ~WorkersRun(job)
  /\ job' = [j \in Job |-> IF job[j] = "queued" THEN "none" ELSE job[j]]
  /\ UNCHANGED <<sdkVars, target, freed, jniVars, callback, logVars>>

\* A call without a root does nothing.
ReleaseStep ==
  \/ "root" \in live /\ Reset("root", "idle", "release.http")
  \/ Reset("http", "release.http", "close.sqlite")
  \/ CloseAll("sqlite", "close.sqlite", "release.sqlite")
  \/ Reset("sqlite", "release.sqlite", "close.kv")
  \/ CloseAll("kv", "close.kv", "release.kv")
  \/ Reset("kv", "release.kv", "release.log")
  \/ ClearLog("release.log", "release.lua")
  \/ Reset("lua", "release.lua", "release.js")
  \/ ReleaseJs
  \/ JoinJs

-----------------------------------------------------------------------------
(* Jobs of scripts: a call of the C API from a worker *)

\* A script runs, in a call or as the continuation of another job, while there
\* is a VM.
Submit(j) ==
  /\ job[j] = "none"
  /\ "js" \in live
  /\ job' = [job EXCEPT ![j] = "queued"]
  /\ \E c \in Store : target' = [target EXCEPT ![j] = c]
  /\ UNCHANGED <<sdkVars, doing, freed, jniVars, callback, logVars>>

\* A worker locks the VM's mutex for the whole of a job.
Start(j) ==
  /\ job[j] = "queued"
  /\ ~WorkersRun(job)
  /\ job' = [job EXCEPT ![j] = "testing"]
  /\ UNCHANGED <<sdkVars, doing, target, freed, jniVars, callback, logVars>>

\* if (!_kv) return, and likewise for the others.
Test(j) ==
  /\ job[j] = "testing"
  /\ job' = [job EXCEPT ![j] = IF target[j] \in live THEN "using" ELSE "settling"]
  /\ UNCHANGED <<sdkVars, doing, target, freed, jniVars, callback, logVars>>

\* The store is used through the pointer, which nothing has kept alive.
UseStore(j) ==
  /\ job[j] = "using"
  /\ job' = [job EXCEPT ![j] = "settling"]
  /\ freed' = (target[j] \notin live)
  /\ open' \in {open, open \cup ({target[j]} \cap live \cap {"sqlite", "kv"})}
  /\ UNCHANGED <<live, doing, target, jniVars, callback, logVars>>

\* The job's promise is settled in the VM's context, which nothing has kept
\* alive either.
Settle(j) ==
  /\ job[j] = "settling"
  /\ job' = [job EXCEPT ![j] = "none"]
  /\ freed' = (doing = "join.js")
  /\ UNCHANGED <<sdkVars, doing, target, jniVars, callback, logVars>>

-----------------------------------------------------------------------------
(* logSetCallback and the end of the library on Android *)

\* The log's callback is set first, then what it uses; the reference to the
\* callback before is forgotten, not deleted.
SetCallback ==
  /\ loaded
  /\ Then("idle", "set.ref")
  /\ mutex = Null
  /\ callback' = TRUE
  /\ UNCHANGED <<sdkVars, jobVars, jniVars, logVars>>

SetRef ==
  /\ Then("set.ref", "set.method")
  /\ \E r \in Ref \ (dead \cup {ref}) : ref' = r
  /\ UNCHANGED <<sdkVars, jobVars, loaded, method, dead, callback, logVars>>

SetMethod ==
  /\ Then("set.method", "idle")
  /\ method' = TRUE
  /\ UNCHANGED <<sdkVars, jobVars, loaded, ref, dead, callback, logVars>>

\* A slip: the reference is deleted while the log has the callback.
UnloadDeletingFirst ==
  /\ loaded
  /\ Then("idle", "unload.delete")
  /\ dead' = dead \cup ({ref} \ {Null})
  /\ UNCHANGED <<sdkVars, jobVars, loaded, ref, method, callback, logVars>>

\* JNI_OnUnload, after the last call.
Unload ==
  /\ loaded
  /\ ClearLog("idle", "unload.delete")

\* DeleteGlobalRef, if the thread can be attached.
DeleteRef ==
  /\ Then("unload.delete", "unload.vm")
  /\ dead' \in {dead, dead \cup ({ref} \ {Null})}
  /\ UNCHANGED <<sdkVars, jobVars, loaded, ref, method, callback, logVars>>

ForgetVm ==
  /\ Then("unload.vm", "unload.ref")
  /\ loaded' = FALSE
  /\ UNCHANGED <<sdkVars, jobVars, ref, method, dead, callback, logVars>>

ForgetRef ==
  /\ Then("unload.ref", "idle")
  /\ ref' = Null
  /\ UNCHANGED <<sdkVars, jobVars, loaded, method, dead, callback, logVars>>

JniStep == SetCallback \/ SetRef \/ SetMethod \/ Unload \/ DeleteRef \/ ForgetVm \/ ForgetRef

-----------------------------------------------------------------------------
(* A thread that logs *)

\* print locks the mutex; without a callback it writes to the platform's log.
Deliver(t) ==
  /\ at[t] = "idle"
  /\ mutex = Null
  /\ callback
  /\ mutex' = t
  /\ at' = [at EXCEPT ![t] = "entered"]
  /\ UNCHANGED <<sdkVars, doing, jobVars, jniVars, callback>>

\* What log_callback tests before it goes on.
Usable == loaded /\ ref # Null /\ method

\* log_callback returns at once when something is missing.
Enter(t) ==
  /\ at[t] = "entered"
  /\ IF Usable
       THEN at' = [at EXCEPT ![t] = "calling"] /\ UNCHANGED mutex
       ELSE at' = [at EXCEPT ![t] = "idle"] /\ mutex' = Null
  /\ UNCHANGED <<sdkVars, doing, jobVars, jniVars, callback>>

\* currentEnv and CallObjectMethod read the same variables once more.
CallMethod(t) ==
  /\ at[t] = "calling"
  /\ at' = [at EXCEPT ![t] = "idle"]
  /\ mutex' = Null
  /\ UNCHANGED <<sdkVars, doing, jobVars, jniVars, callback>>

-----------------------------------------------------------------------------
AppStep == InitRoot \/ InitStep \/ ReleaseStep \/ JniStep
JobStep(j) == Submit(j) \/ Start(j) \/ Test(j) \/ UseStore(j) \/ Settle(j)
LogStep(t) == Deliver(t) \/ Enter(t) \/ CallMethod(t)

\* Nothing is defined after the use of what was freed.
Next ==
  /\ ~freed
  /\ \/ AppStep
     \/ \E j \in Job : JobStep(j)
     \/ \E t \in Thread : LogStep(t)

Spec == Init /\ [][Next]_vars

-----------------------------------------------------------------------------
(* Properties *)

TypeOK ==
  /\ live \subseteq Component
  /\ open \subseteq {"sqlite", "kv"}
  /\ doing \in {"idle", "init.sqlite", "init.kv", "init.http", "init.lua", "init.js",
                "release.http", "close.sqlite", "release.sqlite", "close.kv",
                "release.kv", "release.log", "release.lua", "release.js", "join.js",
                "set.ref", "set.method", "unload.delete", "unload.vm", "unload.ref"}
  /\ job \in [Job -> {"none", "queued", "testing", "using", "settling"}]
  /\ target \in [Job -> Store \cup {Null}]
  /\ {freed, loaded, callback, method} \subseteq BOOLEAN
  /\ ref \in Ref \cup {Null}
  /\ dead \subseteq Ref
  /\ mutex \in Thread \cup {Null}
  /\ at \in [Thread -> {"idle", "entered", "calling"}]

\* A callback into the JVM uses a VM, a reference and a method that are there:
\* nothing that log_callback tested goes away before it is used, although the
\* test and the use are apart and no lock of the binding joins them
\* (DynXXJNI.cxx, log_callback and JNI_OnUnload).
CallbackRefLive ==
  \A t \in Thread : at[t] = "calling" => Usable /\ ref \notin dead

\* dynxxRelease leaves nothing: when it returns every component is gone, no
\* connection is open, the log has no callback, and no job of a script is left
\* on a worker, whatever the jobs did while it was under way (and nothing used
\* what was freed).
ReleaseLeavesNothing ==
  [][doing = "join.js" /\ doing' = "idle" =>
       /\ live' = {} /\ open' = {}
       /\ ~callback'
       /\ \A j \in Job : job'[j] = "none"]_vars

\* The steps of a release with a store, or the VM's context, gone.
Releasing == {"close.sqlite", "release.sqlite", "close.kv", "release.kv", "release.log",
              "release.lua", "release.js", "join.js"}

\* A job may use what the release has freed, but only until it returns: nothing
\* that outlives dynxxRelease, or that starts in the SDK of the next dynxxInit,
\* holds a store or a context of before (DynXX-X.cxx:215-246, JSVM.cxx:414).
OnlyReleaseFreesInUse == freed => doing \in Releasing
=============================================================================
