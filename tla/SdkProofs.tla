----------------------------- MODULE SdkProofs -----------------------------
(***************************************************************************)
(* Proofs about the SDK from the side of its applications: its lifecycle,  *)
(* for any number of threads that log, of jobs and of references, and the  *)
(* calls of its functions, on any choice of platforms.                     *)
(*                                                                         *)
(* The callback: whoever is in it holds the log's mutex and the log has    *)
(* it; as long as the log has it, the unloading has not gone past its      *)
(* first step, which needs the mutex, so that what was tested stays.       *)
(*                                                                         *)
(* The release: each of its steps leaves one component less, and nothing   *)
(* brings one back until it has returned; a connection is open only in a   *)
(* store that is there.                                                    *)
(*                                                                         *)
(* The calls: first, that each function's steps are Sound - they free all  *)
(* that they acquire, once, and so does whatever fails in between.  For a  *)
(* binding this follows from how it is put together, whatever its          *)
(* arguments are; the few functions that are none of these, and the calls  *)
(* of the libraries, are gone through one by one.  Then the inductive      *)
(* invariant: what a call holds, its remaining steps free.                 *)
(***************************************************************************)
EXTENDS Lifecycle, Ownership, SequenceTheorems, TLAPS

-----------------------------------------------------------------------------
(* The lifecycle *)


Unloading == {"unload.delete", "unload.vm", "unload.ref"}

\* The log's mutex is held by who is in the callback.
MutexHeld == \A t \in Thread : at[t] # "idle" => mutex = t /\ callback

\* A callback the log has is not being unloaded, and has not been.
CallbackLoaded ==
  callback => /\ loaded
              /\ doing \notin Unloading

\* Nothing is deleted before the unloading, which leaves no VM.
DeadUnloaded ==
  /\ dead # {} => ~loaded \/ doing \in Unloading
  /\ doing = "unload.ref" => ~loaded

CallbackInv == MutexHeld /\ CallbackLoaded /\ DeadUnloaded /\ CallbackRefLive

\* The steps of a release that are still to come when a component is gone.
AfterLog    == {"release.lua", "release.js", "join.js"}
AfterKv     == AfterLog \cup {"release.log"}
AfterSqlite == AfterKv \cup {"close.kv", "release.kv"}
AfterHttp   == AfterSqlite \cup {"close.sqlite", "release.sqlite"}
AfterRoot   == AfterHttp \cup {"release.http"}

ReleaseInv ==
  /\ open \subseteq live
  /\ doing \in AfterRoot => "root" \notin live
  /\ doing \in AfterHttp => "http" \notin live
  /\ doing \in AfterSqlite => "sqlite" \notin live
  /\ doing \in AfterKv => "kv" \notin live
  /\ doing \in AfterLog => ~callback
  /\ doing \in {"release.js", "join.js"} => "lua" \notin live
  /\ doing = "join.js" => "js" \notin live

\* Outside of a release, a job uses a store that is there.
UseInv ==
  /\ OnlyReleaseFreesInUse
  /\ \A j \in Job : job[j] # "none" => target[j] \in Store
  /\ \A j \in Job : job[j] = "using" => target[j] \in live \/ doing \in Releasing

-----------------------------------------------------------------------------
(* What each group of steps leaves alone, and its types *)

\* The application's steps in the SDK: dynxxInit and dynxxRelease.
SdkStep == InitRoot \/ InitStep \/ ReleaseStep

LEMMA TypeInit == Init => TypeOK
  BY DEF Init, TypeOK, Component

LEMMA TypeSdk == ASSUME TypeOK, SdkStep PROVE TypeOK'
<1>1. CASE InitRoot
  BY <1>1 DEF InitRoot, Then, TypeOK, Component, jobVars, jniVars, logVars
<1>2. CASE InitStep
  BY <1>2 DEF InitStep, Make, Then, TypeOK, Component, Store, jobVars, jniVars, logVars
<1>3. CASE ReleaseStep /\ ~JoinJs
  BY <1>3 DEF ReleaseStep, ReleaseJs, Reset, CloseAll, ClearLog, Then, TypeOK, Component,
              sdkVars, jobVars, jniVars, logVars
<1>4. CASE JoinJs
  BY <1>4 DEF JoinJs, Then, TypeOK, Component, sdkVars, jniVars, logVars
<1> QED
  BY <1>1, <1>2, <1>3, <1>4 DEF SdkStep

LEMMA TypeJni == ASSUME TypeOK, JniStep PROVE TypeOK'
  BY DEF JniStep, SetCallback, SetRef, SetMethod, Unload, ClearLog, DeleteRef, ForgetVm,
         ForgetRef, Then, TypeOK, sdkVars, jobVars, jniVars, logVars

LEMMA TypeJob == ASSUME TypeOK, NEW j \in Job, JobStep(j) PROVE TypeOK'
  BY DEF JobStep, Submit, Start, Test, UseStore, Settle, TypeOK, Store, sdkVars, jniVars, logVars

LEMMA TypeLog == ASSUME TypeOK, NEW t \in Thread, LogStep(t) PROVE TypeOK'
  BY DEF LogStep, Deliver, Enter, CallMethod, TypeOK, sdkVars, jobVars, jniVars

LEMMA TypeStep == ASSUME TypeOK, [Next]_vars PROVE TypeOK'
<1>1. CASE AppStep
  BY <1>1, TypeSdk, TypeJni DEF AppStep, SdkStep
<1>2. CASE \E j \in Job : JobStep(j)
  BY <1>2, TypeJob
<1>3. CASE \E t \in Thread : LogStep(t)
  BY <1>3, TypeLog
<1>4. CASE UNCHANGED vars
  BY <1>4 DEF vars, sdkVars, jobVars, jniVars, logVars, TypeOK
<1> QED
  BY <1>1, <1>2, <1>3, <1>4 DEF Next

\* The variables of the lifecycle have their types (DynXX-X.cxx, DynXXJNI.cxx).
THEOREM TypeCorrectness == Spec => []TypeOK
  BY TypeInit, TypeStep, PTL DEF Spec

-----------------------------------------------------------------------------
(* The callback *)

\* init and release touch the callback only to take it from the log, while
\* nobody is in it.
LEMMA CallbackSdk == ASSUME TypeOK, CallbackInv, SdkStep PROVE CallbackInv'
<1> USE DEF CallbackInv, MutexHeld, CallbackLoaded, DeadUnloaded, CallbackRefLive, Usable,
            Unloading
<1>1. CASE InitRoot
  BY <1>1 DEF InitRoot, Then, jobVars, jniVars, logVars
<1>2. CASE InitStep
  BY <1>2 DEF InitStep, Make, Then, jobVars, jniVars, logVars
<1>3. CASE ReleaseStep /\ ~ClearLog("release.log", "release.lua")
  BY <1>3 DEF ReleaseStep, ReleaseJs, JoinJs, Reset, CloseAll, Then, sdkVars, jobVars,
              jniVars, logVars
<1>4. CASE ClearLog("release.log", "release.lua")
  BY <1>4, NullAssumption DEF ClearLog, Then, TypeOK, sdkVars, jobVars, jniVars, logVars
<1> QED
  BY <1>1, <1>2, <1>3, <1>4 DEF SdkStep

LEMMA CallbackJni == ASSUME TypeOK, CallbackInv, JniStep PROVE CallbackInv'
<1> USE NullAssumption
        DEF CallbackInv, MutexHeld, CallbackLoaded, DeadUnloaded, CallbackRefLive, Usable,
            Unloading, TypeOK, Then, sdkVars, jobVars, jniVars, logVars
<1>1. CASE SetCallback
  BY <1>1 DEF SetCallback
<1>2. CASE SetRef
  BY <1>2 DEF SetRef
<1>3. CASE SetMethod
  BY <1>3 DEF SetMethod
<1>4. CASE Unload
  BY <1>4 DEF Unload, ClearLog
<1>5. CASE DeleteRef
  BY <1>5 DEF DeleteRef
<1>6. CASE ForgetVm
  BY <1>6 DEF ForgetVm
<1>7. CASE ForgetRef
  BY <1>7 DEF ForgetRef
<1> QED
  BY <1>1, <1>2, <1>3, <1>4, <1>5, <1>6, <1>7 DEF JniStep

LEMMA CallbackLog ==
  ASSUME TypeOK, CallbackInv, NEW t \in Thread, LogStep(t) PROVE CallbackInv'
<1> USE NullAssumption
        DEF CallbackInv, MutexHeld, CallbackLoaded, DeadUnloaded, CallbackRefLive, Usable,
            Unloading, TypeOK, sdkVars, jobVars, jniVars
<1>1. CASE Deliver(t)
  BY <1>1 DEF Deliver
<1>2. CASE Enter(t)
  BY <1>2 DEF Enter
<1>3. CASE CallMethod(t)
  BY <1>3 DEF CallMethod
<1> QED
  BY <1>1, <1>2, <1>3 DEF LogStep

LEMMA CallbackStep == ASSUME TypeOK, CallbackInv, [Next]_vars PROVE CallbackInv'
<1>1. CASE AppStep
  BY <1>1, CallbackSdk, CallbackJni DEF AppStep, SdkStep
<1>2. CASE \E j \in Job : JobStep(j)
  BY <1>2 DEF JobStep, Submit, Start, Test, UseStore, Settle, CallbackInv, MutexHeld,
              CallbackLoaded, DeadUnloaded, CallbackRefLive, Usable, sdkVars, jniVars, logVars
<1>3. CASE \E t \in Thread : LogStep(t)
  BY <1>3, CallbackLog
<1>4. CASE UNCHANGED vars
  BY <1>4 DEF vars, sdkVars, jobVars, jniVars, logVars, CallbackInv, MutexHeld,
              CallbackLoaded, DeadUnloaded, CallbackRefLive, Usable
<1> QED
  BY <1>1, <1>2, <1>3, <1>4 DEF Next

\* Whoever has passed log_callback's tests finds the VM, the reference and the
\* method it tested, whatever the application does meanwhile.
THEOREM CallbackFindsItsRef == Spec => []CallbackRefLive
<1>1. Init => CallbackInv
  BY DEF Init, CallbackInv, MutexHeld, CallbackLoaded, DeadUnloaded, CallbackRefLive
<1>2. TypeOK /\ CallbackInv /\ [Next]_vars => CallbackInv'
  BY CallbackStep
<1>3. CallbackInv => CallbackRefLive
  BY DEF CallbackInv
<1> QED
  BY <1>1, <1>2, <1>3, TypeCorrectness, PTL DEF Spec

-----------------------------------------------------------------------------
(* The release *)

LEMMA ReleaseStepInv == ASSUME TypeOK, ReleaseInv, [Next]_vars PROVE ReleaseInv'
<1> USE DEF ReleaseInv, AfterLog, AfterKv, AfterSqlite, AfterHttp, AfterRoot
<1>1. CASE InitRoot
  BY <1>1 DEF InitRoot, Then, jobVars, jniVars, logVars
<1>2. CASE InitStep
  BY <1>2 DEF InitStep, Make, Then, jobVars, jniVars, logVars
<1>3. CASE ReleaseStep
  <2>1. ASSUME NEW c, NEW from, NEW to, Reset(c, from, to) PROVE open' \subseteq live'
    BY <2>1 DEF Reset
  <2>2. CASE ReleaseStep /\ ~JoinJs
    BY <1>3, <2>2 DEF ReleaseStep, ReleaseJs, Reset, CloseAll, ClearLog, Then, sdkVars
  <2>3. CASE JoinJs
    BY <2>3 DEF JoinJs, Then, TypeOK, sdkVars
  <2> QED
    BY <1>3, <2>2, <2>3
<1>4. CASE JniStep
  BY <1>4 DEF JniStep, SetCallback, SetRef, SetMethod, Unload, ClearLog, DeleteRef,
              ForgetVm, ForgetRef, Then, sdkVars
<1>5. CASE \E j \in Job : JobStep(j)
  BY <1>5 DEF JobStep, Submit, Start, Test, UseStore, Settle, sdkVars
<1>6. CASE \E t \in Thread : LogStep(t)
  BY <1>6 DEF LogStep, Deliver, Enter, CallMethod, sdkVars
<1>7. CASE UNCHANGED vars
  BY <1>7 DEF vars, sdkVars
<1> QED
  BY <1>1, <1>2, <1>3, <1>4, <1>5, <1>6, <1>7 DEF Next, AppStep

\* When dynxxRelease returns no component, connection, callback or job is left.
THEOREM NothingLeft == Spec => ReleaseLeavesNothing
<1> DEFINE Left == doing = "join.js" /\ doing' = "idle" =>
                     /\ live' = {} /\ open' = {}
                     /\ ~callback'
                     /\ \A j \in Job : job'[j] = "none"
<1>1. Init => ReleaseInv
  BY DEF Init, ReleaseInv, AfterLog, AfterKv, AfterSqlite, AfterHttp, AfterRoot
<1>2. TypeOK /\ ReleaseInv /\ [Next]_vars => ReleaseInv'
  BY ReleaseStepInv
<1>3. ASSUME TypeOK, ReleaseInv, [Next]_vars PROVE [Left]_vars
  <2>1. SUFFICES ASSUME doing = "join.js", doing' = "idle"
                 PROVE  /\ live' = {} /\ open' = {}
                        /\ ~callback'
                        /\ \A j \in Job : job'[j] = "none"
    OBVIOUS
  <2>2. JoinJs
    BY <1>3, <2>1 DEF Next, AppStep, InitRoot, InitStep, Make, ReleaseStep, ReleaseJs,
         Reset, CloseAll, ClearLog, JniStep, SetCallback, SetRef, SetMethod, Unload, DeleteRef, ForgetVm,
         ForgetRef, Then, JobStep, Submit, Start, Test, UseStore, Settle, LogStep, Deliver,
         Enter, CallMethod, vars
  <2>3. live = {} /\ open = {} /\ ~callback
    BY <1>3, <2>1 DEF ReleaseInv, AfterLog, AfterKv, AfterSqlite, AfterHttp, AfterRoot,
         TypeOK, Component, Store
  <2>4. \A j \in Job : job[j] \in {"none", "queued"}
    BY <1>3, <2>2 DEF JoinJs, WorkersRun, TypeOK
  <2> QED
    BY <2>2, <2>3, <2>4 DEF JoinJs, sdkVars
<1> QED
  BY <1>1, <1>2, <1>3, TypeCorrectness, PTL DEF Spec, ReleaseLeavesNothing

LEMMA UseStep == ASSUME TypeOK, UseInv, [Next]_vars PROVE UseInv'
<1> USE DEF UseInv, OnlyReleaseFreesInUse, Releasing
<1>1. CASE InitRoot
  BY <1>1 DEF InitRoot, Then, jobVars
<1>2. CASE InitStep
  BY <1>2 DEF InitStep, Make, Then, jobVars
<1>3. CASE ReleaseStep /\ ~JoinJs
  <2>1. CASE Reset("root", "idle", "release.http")
    BY <2>1 DEF Reset, Then, jobVars, TypeOK, Store
  <2>2. CASE doing # "idle"
    BY <1>3, <2>2 DEF ReleaseStep, ReleaseJs, Reset, CloseAll, ClearLog, Then, jobVars, sdkVars,
                      TypeOK, Store
  <2> QED
    BY <1>3, <2>1, <2>2 DEF ReleaseStep, ReleaseJs, Reset, CloseAll, ClearLog, Then
<1>4. CASE JoinJs
  <2>1. \A j \in Job : job'[j] # "using"
    BY <1>4 DEF JoinJs, WorkersRun
  <2>2. ~freed'
    BY <1>4 DEF JoinJs, Next, Then, vars
  <2>3. \A j \in Job : job'[j] # "none" => job[j] # "none" /\ target'[j] = target[j]
    BY <1>4 DEF JoinJs
  <2> QED
    BY <2>1, <2>2, <2>3
<1>5. CASE JniStep
  BY <1>5 DEF JniStep, SetCallback, SetRef, SetMethod, Unload, ClearLog, DeleteRef, ForgetVm,
              ForgetRef, Then, sdkVars, jobVars
<1>6. CASE \E j \in Job : JobStep(j)
  BY <1>6 DEF JobStep, Submit, Start, Test, UseStore, Settle, TypeOK, sdkVars
<1>7. CASE \E t \in Thread : LogStep(t)
  BY <1>7 DEF LogStep, Deliver, Enter, CallMethod, sdkVars, jobVars
<1>8. CASE UNCHANGED vars
  BY <1>8 DEF vars, sdkVars, jobVars
<1> QED
  BY <1>1, <1>2, <1>3, <1>4, <1>5, <1>6, <1>7, <1>8 DEF Next, AppStep

\* A job uses a store or a context that is gone, if ever, while dynxxRelease is
\* under way, and not after it has returned.
THEOREM NothingFreedIsUsedLater == Spec => []OnlyReleaseFreesInUse
<1>1. Init => UseInv
  BY DEF Init, UseInv, OnlyReleaseFreesInUse
<1>2. TypeOK /\ UseInv /\ [Next]_vars => UseInv'
  BY UseStep
<1>3. UseInv => OnlyReleaseFreesInUse
  BY DEF UseInv
<1> QED
  BY <1>1, <1>2, <1>3, TypeCorrectness, PTL DEF Spec

-----------------------------------------------------------------------------
(* The steps of a call *)

\* Who holds r after the i-th step of s: its argument, its result, or its own.
Acquires(s, i, r) ==
  \/ s[i].do = "get" /\ s[i].of.kind # "handle" /\ s[i].of.name = r
  \/ s[i].do \in {"hold", "take"} /\ s[i].of = r
  \/ s[i].do = "invoke" /\ CFunctions[s[i].of].gives # "value" /\ r = "result"

MayFail(st) == st.do \in {"try", "take"}

\* From its i-th step on, s frees r, and so does whatever fails before it does.
Settles(s, i, r) ==
  \E j \in i..Len(s) : /\ s[j].do = "free" /\ s[j].of = r
                       /\ \A k \in i..(j - 1) : MayFail(s[k]) => r \in s[k].back

\* Arguments that must be there: a C function that reads one, or returns a
\* literal in its absence, is called by nobody who makes null of one left out.
Required == {"str", "base64", "url", "query_result", "column", "func", "json"}

\* What a sequence of steps must be for a call of it to be safe.
IsProgram(s) == Len(s) \in Nat /\ DOMAIN s = 1..Len(s)
AllSettled(p, n, s) ==
  \A i \in DOMAIN s : \A r \in Resources(s) :
    Acquires(s, i, r) => r \in Leaks(p, n) \/ Settles(s, i + 1, r)
FreesOnce(s) ==
  \A i \in DOMAIN s : s[i].do = "free" =>
    /\ s[i].of \in Resources(s)
    /\ \A j \in DOMAIN s : s[j].do = "free" /\ s[j].of = s[i].of => j = i
NoFailure(p, s) == p # "native" => \A i \in DOMAIN s : ~MayFail(s[i])
GetsWell(n, s) ==
  \A i \in DOMAIN s : s[i].do = "get" =>
    /\ s[i].of.kind \in {"handle", "text", "bytes", "texts"}
    /\ s[i].of.name # "result"
    /\ s[i].of.null = "literal" => n = "netHttpRequest" /\ s[i].of.name = "params"
    /\ s[i].of.name = "json" => s[i].of.kind = "text"
    /\ s[i].of.name \in Lists => n = "netHttpRequest" /\ "names" \in Resources(s)
    /\ s[i].of.name \in Required =>
         s[i].of.kind = "handle" \/ (s[i].of.kind = "text" /\ s[i].of.null # "tested")
HoldsWell(s) ==
  \A i \in DOMAIN s : s[i].do \in {"hold", "take"} => s[i].of \notin Required \cup Lists \cup {"result"}
OnlyFreesFrom(s, i) == \A j \in i..Len(s) : s[j].do \in {"box", "free"}
InvokesWell(n, s) ==
  \A i \in DOMAIN s : s[i].do = "invoke" =>
    /\ s[i].of \in DOMAIN CFunctions
    /\ s[i].of = "json_decoder_init" => n = "jsonDecoderInit"
    /\ s[i].of = "net_http_request" => n = "netHttpRequest"
    /\ OnlyFreesFrom(s, i + 1)

Sound(p, n, s) ==
  /\ IsProgram(s)
  /\ AllSettled(p, n, s)
  /\ FreesOnce(s)
  /\ NoFailure(p, s)
  /\ GetsWell(n, s)
  /\ HoldsWell(s)
  /\ InvokesWell(n, s)

-----------------------------------------------------------------------------
(* The inductive invariant *)

Idle == ~Running => fault = "none"

HeldSettles ==
  Running => \A r \in DOMAIN have : have[r] \in Owned =>
    r \in Leaks(platform, name) \/ Settles(program, position, r)

NoFreeFrom(s, i, r) == \A j \in i..Len(s) : ~(s[j].do = "free" /\ s[j].of = r)

GivenBackOnce ==
  Running => \A r \in DOMAIN have :
    have[r] = "given back" => NoFreeFrom(program, position, r)

LostThrew == Running => \A r \in DOMAIN have : have[r] = "lost" => pending

HollowThrew ==
  Running => \A r \in DOMAIN have : /\ have[r] = "hollow" => pending /\ platform = "napi"
                                    /\ have[r] = "bare" => platform = "jni"

NullHandle ==
  \E i \in DOMAIN program : /\ program[i].do = "get"
                            /\ program[i].of.kind = "handle"
                            /\ have[program[i].of.name] = "null"

HandleNamed(r) ==
  \E i \in DOMAIN program : /\ program[i].do = "get"
                            /\ program[i].of.kind = "handle"
                            /\ program[i].of.name = r

RequiredThere ==
  Running => \A r \in DOMAIN have \cap Required :
    have[r] = "null" => pending \/ HandleNamed(r)

LiteralWhy ==
  Running => \A r \in DOMAIN have : have[r] = "literal" =>
    \/ /\ r = "result"
       /\ pending \/ NullHandle
       /\ OnlyFreesFrom(program, position)
    \/ r = "params" /\ name = "netHttpRequest"

MemoryInv ==
  HeldSettles /\ GivenBackOnce /\ LostThrew /\ HollowThrew /\ RequiredThere /\ LiteralWhy

CallInv == CallTypeOK /\ Idle /\ MemoryInv /\ FreesOnlyItsOwn /\ ReadsNoNull

-----------------------------------------------------------------------------
(* What a binding is *)

\* u is s followed by t.
IsConcat(s, t, u) ==
  /\ Len(u) = Len(s) + Len(t)
  /\ \A i \in 1..Len(s) : u[i] = s[i]
  /\ \A i \in 1..Len(t) : u[Len(s) + i] = t[i]

\* A concatenation, part by part.
LEMMA ConcatParts ==
  ASSUME NEW S, NEW s \in Seq(S), NEW t \in Seq(S)
  PROVE  s \o t \in Seq(S) /\ IsConcat(s, t, s \o t)
<1>1. Len(s) \in Nat /\ Len(t) \in Nat
  BY LenProperties
<1>2. ASSUME NEW i \in 1..Len(s) PROVE (s \o t)[i] = s[i]
  BY <1>1, ConcatProperties
<1>3. ASSUME NEW i \in 1..Len(t) PROVE (s \o t)[Len(s) + i] = t[i]
  <2>1. /\ Len(s) + i \in 1..(Len(s) + Len(t))
        /\ ~(Len(s) + i <= Len(s)) /\ (Len(s) + i) - Len(s) = i
    BY <1>1
  <2> QED
    BY <2>1, ConcatProperties
<1> QED
  BY <1>2, <1>3, ConcatProperties DEF IsConcat

\* s has the steps of a binding, part by part.
IsBinding(handles, f, args, s) ==
  LET c == Calling(f)
      h == Len(handles)
      n == Len(args)
  IN /\ h \in Nat /\ n \in Nat /\ Len(c) \in Nat
     /\ Len(s) = h + n + Len(c) + n
     /\ DOMAIN s = 1..Len(s)
     /\ \A i \in 1..h : s[i] = Get(handles[i])
     /\ \A i \in 1..n : s[h + i] = Get(args[i])
     /\ \A i \in 1..Len(c) : s[h + n + i] = c[i]
     /\ \A i \in 1..n : s[h + n + Len(c) + i] = Free(args[i].name)

LEMMA BindingSteps ==
  ASSUME NEW A, NEW handles \in Seq(A), NEW args \in Seq(A), NEW f
  PROVE  IsBinding(handles, f, args, BindsOn(handles, f, args))
<1> DEFINE S == {Get(handles[i]) : i \in DOMAIN handles}
                \cup {Get(args[i]) : i \in DOMAIN args}
                \cup {Free(args[i].name) : i \in DOMAIN args}
                \cup {Invoke(f), Box, Free("result")}
           c == Calling(f)
           h == Len(handles)
           n == Len(args)
           hg == Gets(handles) \o Gets(args)
           hgc == hg \o c
<1>1. /\ h \in Nat /\ DOMAIN handles = 1..h
      /\ n \in Nat /\ DOMAIN args = 1..n
  BY LenProperties
<1>2. /\ Gets(handles) \in Seq(S) /\ Len(Gets(handles)) = h
      /\ \A i \in 1..h : Gets(handles)[i] = Get(handles[i])
  BY <1>1 DEF Gets
<1>3. /\ Gets(args) \in Seq(S) /\ Len(Gets(args)) = n
      /\ \A i \in 1..n : Gets(args)[i] = Get(args[i])
  BY <1>1 DEF Gets
<1>4. /\ Releases(args) \in Seq(S) /\ Len(Releases(args)) = n
      /\ \A i \in 1..n : Releases(args)[i] = Free(args[i].name)
  BY <1>1 DEF Releases
<1>5. c \in Seq(S) /\ Len(c) \in Nat
  <2> DEFINE x == Invoke(f) y == Box z == Free("result")
  <2>1. x \in S /\ y \in S /\ z \in S
    OBVIOUS
  <2>2. c = <<x>> \/ c = <<x, y, z>>
    BY DEF Calling
  <2> HIDE DEF x, y, z, S
  <2>3. <<x>> \in Seq(S) /\ <<x, y, z>> \in Seq(S)
    BY <2>1
  <2> QED
    BY <2>2, <2>3, LenProperties
<1> HIDE DEF S, c
<1>6. /\ hg \in Seq(S) /\ Len(hg) = h + n
      /\ \A i \in 1..h : hg[i] = Get(handles[i])
      /\ \A i \in 1..n : hg[h + i] = Get(args[i])
  <2>1. hg \in Seq(S) /\ IsConcat(Gets(handles), Gets(args), hg)
    BY <1>2, <1>3, ConcatParts
  <2> QED
    BY <1>2, <1>3, <2>1 DEF IsConcat
<1> HIDE DEF hg
<1>7. /\ hgc \in Seq(S) /\ Len(hgc) = h + n + Len(c)
      /\ \A i \in 1..(h + n) : hgc[i] = hg[i]
      /\ \A i \in 1..Len(c) : hgc[h + n + i] = c[i]
  <2>1. hgc \in Seq(S) /\ IsConcat(hg, c, hgc)
    BY <1>5, <1>6, ConcatParts
  <2> QED
    BY <1>6, <2>1 DEF IsConcat
<1> HIDE DEF hgc
<1>8. /\ hgc \o Releases(args) \in Seq(S)
      /\ Len(hgc \o Releases(args)) = h + n + Len(c) + n
      /\ \A i \in 1..(h + n + Len(c)) : (hgc \o Releases(args))[i] = hgc[i]
      /\ \A i \in 1..n : (hgc \o Releases(args))[h + n + Len(c) + i] = Free(args[i].name)
  <2> DEFINE r == Releases(args)
  <2>1. r \in Seq(S) /\ Len(r) = n /\ \A i \in 1..n : r[i] = Free(args[i].name)
    BY <1>4
  <2> HIDE DEF r
  <2>2. hgc \o r \in Seq(S) /\ IsConcat(hgc, r, hgc \o r)
    BY <2>1, <1>7, ConcatParts
  <2> QED
    BY <1>7, <2>1, <2>2 DEF r, IsConcat
<1> DEFINE s == hgc \o Releases(args)
<1>9. s = BindsOn(handles, f, args)
  BY DEF hg, hgc, c, BindsOn
<1> HIDE DEF s
<1>10. DOMAIN s = 1..Len(s)
  BY <1>8, LenProperties DEF s
<1>11. /\ \A i \in 1..h : s[i] = Get(handles[i])
       /\ \A i \in 1..n : s[h + i] = Get(args[i])
  BY <1>1, <1>5, <1>6, <1>7, <1>8 DEF s
<1>12. \A i \in 1..Len(c) : s[h + n + i] = c[i]
  BY <1>1, <1>5, <1>7, <1>8 DEF s
<1> QED
  BY <1>1, <1>5, <1>8, <1>9, <1>10, <1>11, <1>12 DEF s, c, IsBinding

\* The names of what has a case of its own.
Taken == {"result"} \cup Lists

\* An argument, and a handle, that need no case of their own.
PlainArg(a) ==
  /\ a.kind \in {"text", "bytes", "texts"}
  /\ a.name \notin Taken
  /\ a.null # "literal"
  /\ a.name = "json" => a.kind = "text"
  /\ a.name \in Required => a.kind = "text" /\ a.null # "tested"

PlainHandle(a) ==
  a.kind = "handle" /\ a.name \notin Taken \cup {"json"} /\ a.null # "literal"

\* The steps of a binding, one by one.
LEMMA BindingCases ==
  ASSUME NEW handles, NEW args, NEW f, NEW s, IsBinding(handles, f, args, s),
         NEW k \in DOMAIN s
  PROVE  LET h == Len(handles)
             n == Len(args)
             c == Len(Calling(f))
         IN \/ \E i \in 1..h : k = i /\ s[k] = Get(handles[i])
            \/ \E i \in 1..n : k = h + i /\ s[k] = Get(args[i])
            \/ k = h + n + 1 /\ s[k] = Invoke(f)
            \/ CFunctions[f].gives # "value" /\ k = h + n + 2 /\ s[k] = Box
            \/ CFunctions[f].gives # "value" /\ k = h + n + 3 /\ s[k] = Free("result")
            \/ \E i \in 1..n : k = h + n + c + i /\ s[k] = Free(args[i].name)
<1> DEFINE c == Calling(f)
           h == Len(handles)
           n == Len(args)
<1>1. /\ h \in Nat /\ n \in Nat /\ Len(c) \in Nat
      /\ Len(s) = h + n + Len(c) + n
      /\ DOMAIN s = 1..Len(s)
      /\ \A i \in 1..h : s[i] = Get(handles[i])
      /\ \A i \in 1..n : s[h + i] = Get(args[i])
      /\ \A i \in 1..Len(c) : s[h + n + i] = c[i]
      /\ \A i \in 1..n : s[h + n + Len(c) + i] = Free(args[i].name)
  BY DEF IsBinding
<1>2. \/ Len(c) = 1 /\ c[1] = Invoke(f)
      \/ /\ CFunctions[f].gives # "value" /\ Len(c) = 3
         /\ c[1] = Invoke(f) /\ c[2] = Box /\ c[3] = Free("result")
  BY DEF Calling
<1> HIDE DEF c, h, n
<1>3. CASE k <= h
  BY <1>1, <1>3 DEF h
<1>4. CASE k > h /\ k <= h + n
  <2>1. k - h \in 1..n /\ k = h + (k - h)
    BY <1>1, <1>4
  <2> QED
    BY <1>1, <2>1 DEF h, n
<1>5. CASE k > h + n /\ k <= h + n + Len(c)
  <2>1. \/ k = h + n + 1 /\ s[k] = Invoke(f)
        \/ CFunctions[f].gives # "value" /\ k = h + n + 2 /\ s[k] = Box
        \/ CFunctions[f].gives # "value" /\ k = h + n + 3 /\ s[k] = Free("result")
    <3>1. PICK i \in 1..Len(c) : k = h + n + i
      <4>1. k - (h + n) \in 1..Len(c) /\ k = h + n + (k - (h + n))
        BY <1>1, <1>5
      <4> QED
        BY <4>1
    <3>2. s[k] = c[i]
      BY <1>1, <3>1
    <3>3. CASE Len(c) = 1 /\ c[1] = Invoke(f)
      <4>1. i = 1
        BY <3>3
      <4> QED
        BY <3>1, <3>2, <3>3, <4>1
    <3>4. CASE /\ CFunctions[f].gives # "value" /\ Len(c) = 3
               /\ c[1] = Invoke(f) /\ c[2] = Box /\ c[3] = Free("result")
      <4>1. i = 1 \/ i = 2 \/ i = 3
        BY <3>4
      <4> QED
        BY <3>1, <3>2, <3>4, <4>1
    <3> QED
      BY <1>2, <3>3, <3>4
  <2> QED
    BY <2>1 DEF h, n
<1>6. CASE k > h + n + Len(c)
  <2>1. /\ k - (h + n + Len(c)) \in 1..n
        /\ k = h + n + Len(c) + (k - (h + n + Len(c)))
    BY <1>1, <1>6
  <2> QED
    BY <1>1, <2>1 DEF h, n, c
<1> QED
  BY <1>1, <1>3, <1>4, <1>5, <1>6

\* A step of each kind says only what it does, to what.
LEMMA StepKinds ==
  /\ \A a : Get(a).do = "get" /\ Get(a).of = a /\ ~MayFail(Get(a))
  /\ \A f : Invoke(f).do = "invoke" /\ Invoke(f).of = f /\ ~MayFail(Invoke(f))
  /\ Box.do = "box" /\ ~MayFail(Box)
  /\ \A r : Free(r).do = "free" /\ Free(r).of = r /\ ~MayFail(Free(r))
  BY DEF Get, Invoke, Box, Free, Step, MayFail

\* Handles and arguments, of a set A, that need no case of their own.
SafeArgs(A, handles, args) ==
  /\ handles \in Seq(A) /\ args \in Seq(A)
  /\ \A i \in 1..Len(handles) : PlainHandle(handles[i])
  /\ \A i \in 1..Len(args) : PlainArg(args[i])
  /\ \A i, j \in 1..Len(args) : args[i].name = args[j].name => i = j

\* A call of a C function under a name that may call it.
PlainCall(n, f) ==
  /\ f \in DOMAIN CFunctions
  /\ f = "json_decoder_init" => n = "jsonDecoderInit"
  /\ f = "net_http_request" => n = "netHttpRequest"

\* A binding is a safe program, if its arguments need no case of their own.
LEMMA BindingSound ==
  ASSUME NEW p, NEW n, NEW A, NEW handles, NEW args, NEW f,
         SafeArgs(A, handles, args), PlainCall(n, f)
  PROVE  Sound(p, n, BindsOn(handles, f, args))
<1> DEFINE s == BindsOn(handles, f, args)
           h == Len(handles)
           m == Len(args)
           c == Len(Calling(f))
<1>1. IsBinding(handles, f, args, s)
  BY BindingSteps DEF SafeArgs
<1> HIDE DEF s
<1>2. /\ h \in Nat /\ m \in Nat
      /\ DOMAIN s = 1..(h + m + c + m) /\ Len(s) = h + m + c + m
      /\ \A i \in 1..m : s[h + i] = Get(args[i])
      /\ \A i \in 1..m : s[h + m + c + i] = Free(args[i].name)
  BY <1>1 DEF IsBinding
<1>3. /\ c \in Nat /\ c >= 1
      /\ CFunctions[f].gives # "value" => c = 3 /\ s[h + m + 3] = Free("result")
  <2>1. CASE CFunctions[f].gives = "value"
    BY <2>1 DEF Calling
  <2>2. CASE CFunctions[f].gives # "value"
    <3>1. c = 3 /\ Calling(f)[3] = Free("result")
      BY <2>2 DEF Calling
    <3>2. \A i \in 1..c : s[h + m + i] = Calling(f)[i]
      BY <1>1 DEF IsBinding
    <3>3. 3 \in 1..c
      BY <3>1
    <3> QED
      BY <3>1, <3>2, <3>3
  <2> QED
    BY <2>1, <2>2
<1> DEFINE IsHandle(k) == \E i \in 1..h : k = i /\ s[k] = Get(handles[i])
           IsGet(k)    == \E i \in 1..m : k = h + i /\ s[k] = Get(args[i])
           IsInvoke(k) == k = h + m + 1 /\ s[k] = Invoke(f)
           IsBox(k)    == CFunctions[f].gives # "value" /\ k = h + m + 2 /\ s[k] = Box
           IsLast(k)   == /\ CFunctions[f].gives # "value" /\ k = h + m + 3
                          /\ s[k] = Free("result")
           IsFree(k)   == \E i \in 1..m : k = h + m + c + i /\ s[k] = Free(args[i].name)
<1>4. ASSUME NEW k \in DOMAIN s
      PROVE  IsHandle(k) \/ IsGet(k) \/ IsInvoke(k) \/ IsBox(k) \/ IsLast(k) \/ IsFree(k)
  BY <1>1, BindingCases
<1> HIDE DEF h, m, c
<1>5. \A k \in DOMAIN s : ~MayFail(s[k])
  BY <1>4, StepKinds
<1>6. \A i \in 1..m : args[i].name \in Resources(s)
  <2>1. ASSUME NEW i \in 1..m PROVE args[i].name \in Resources(s)
    <3>1. h + i \in DOMAIN s /\ s[h + i].do = "get" /\ s[h + i].of = args[i]
      BY <1>2, <1>3, StepKinds
    <3> QED
      BY <3>1 DEF Resources
  <2> QED
    BY <2>1
<1>7. IsProgram(s)
  BY <1>2, <1>3 DEF IsProgram
<1>8. ASSUME NEW k \in DOMAIN s, NEW r \in Resources(s), Acquires(s, k, r)
      PROVE  Settles(s, k + 1, r)
  <2>1. ASSUME NEW j \in DOMAIN s, j > k, s[j] = Free(r) PROVE Settles(s, k + 1, r)
    <3>1. /\ j \in (k + 1)..Len(s) /\ s[j].do = "free" /\ s[j].of = r
          /\ \A l \in (k + 1)..(j - 1) : l \in DOMAIN s
      BY <1>2, <1>3, <2>1, StepKinds
    <3> QED
      BY <1>5, <3>1 DEF Settles
  <2>2. CASE IsHandle(k)
    <3>1. PICK i \in 1..h : k = i /\ s[k] = Get(handles[i])
      BY <2>2
    <3> QED
      BY <3>1, <1>8, StepKinds DEF Acquires, PlainHandle, SafeArgs, h
  <2>3. CASE IsGet(k)
    <3>1. PICK i \in 1..m : k = h + i /\ s[k] = Get(args[i])
      BY <2>3
    <3>2. r = args[i].name
      BY <1>8, <3>1, StepKinds DEF Acquires
    <3>3. /\ h + m + c + i \in DOMAIN s /\ h + m + c + i > k
          /\ s[h + m + c + i] = Free(r)
      BY <1>2, <1>3, <3>1, <3>2
    <3> QED
      BY <2>1, <3>3
  <2>4. CASE IsInvoke(k)
    <3>1. CFunctions[f].gives # "value" /\ r = "result"
      BY <1>8, <2>4, StepKinds DEF Acquires
    <3>2. h + m + 3 \in DOMAIN s /\ h + m + 3 > k /\ s[h + m + 3] = Free(r)
      BY <1>2, <1>3, <2>4, <3>1
    <3> QED
      BY <2>1, <3>2
  <2>5. CASE IsBox(k) \/ IsLast(k) \/ IsFree(k)
    BY <1>8, <2>5, StepKinds DEF Acquires
  <2> QED
    BY <1>4, <2>2, <2>3, <2>4, <2>5
<1>9. FreesOnce(s)
  <2>1. ASSUME NEW k \in DOMAIN s, s[k].do = "free"
        PROVE  s[k].of \in Resources(s) /\ (IsLast(k) \/ IsFree(k))
    <3>1. IsLast(k) \/ IsFree(k)
      BY <1>4, <2>1, StepKinds
    <3>2. s[k].of \in Resources(s)
      BY <1>6, <3>1, StepKinds DEF Resources
    <3> QED
      BY <3>1, <3>2
  <2>2. ASSUME NEW k \in DOMAIN s, NEW j \in DOMAIN s, s[k].do = "free", s[j].do = "free",
               s[j].of = s[k].of
        PROVE  j = k
    <3>1. ASSUME NEW x \in DOMAIN s, IsFree(x)
          PROVE  \E i \in 1..m : x = h + m + c + i /\ s[x].of = args[i].name
      BY <3>1, StepKinds
    <3>2. ASSUME NEW x \in DOMAIN s, IsLast(x) PROVE x = h + m + 3 /\ s[x].of = "result"
      BY <3>2, StepKinds
    <3>3. \A i \in 1..m : args[i].name # "result"
      BY DEF PlainArg, SafeArgs, Taken, m
    <3>4. \A i, l \in 1..m : args[i].name = args[l].name => i = l
      BY DEF SafeArgs, m
    <3> QED
      BY <2>1, <2>2, <3>1, <3>2, <3>3, <3>4
  <2> QED
    BY <2>1, <2>2 DEF FreesOnce
<1>10. NoFailure(p, s)
  BY <1>5 DEF NoFailure
<1>11. GetsWell(n, s)
  <2>1. ASSUME NEW k \in DOMAIN s, s[k].do = "get"
        PROVE  \/ \E i \in 1..h : s[k].of = handles[i]
               \/ \E i \in 1..m : s[k].of = args[i]
    BY <1>4, <2>1, StepKinds
  <2>2. \A k \in DOMAIN s : s[k].do = "get" => PlainHandle(s[k].of) \/ PlainArg(s[k].of)
    BY <2>1 DEF SafeArgs, h, m
  <2> QED
    BY <2>2 DEF GetsWell, PlainHandle, PlainArg, Taken
<1>12. HoldsWell(s)
  BY <1>4, StepKinds DEF HoldsWell
<1>13. InvokesWell(n, s)
  <2>1. ASSUME NEW k \in DOMAIN s, s[k].do = "invoke" PROVE k = h + m + 1 /\ s[k].of = f
    BY <1>4, <2>1, StepKinds
  <2>2. ASSUME NEW j \in DOMAIN s, j > h + m + 1 PROVE s[j].do \in {"box", "free"}
    <3>1. ~IsHandle(j) /\ ~IsGet(j) /\ ~IsInvoke(j)
      BY <1>2, <2>2
    <3> QED
      BY <1>4, <3>1, StepKinds
  <2>3. ASSUME NEW k \in DOMAIN s, s[k].do = "invoke", NEW j \in (k + 1)..Len(s)
        PROVE  s[j].do \in {"box", "free"}
    BY <1>2, <1>3, <2>1, <2>2, <2>3
  <2> QED
    BY <2>1, <2>3 DEF InvokesWell, OnlyFreesFrom, PlainCall
<1>14. AllSettled(p, n, s)
  BY <1>8 DEF AllSettled
<1> QED
  BY <1>7, <1>9, <1>10, <1>11, <1>12, <1>13, <1>14 DEF Sound, s

\* The same for the numbers of handles and arguments that there are.
LEMMA Binding0 ==
  ASSUME NEW p, NEW n, NEW f, PlainCall(n, f)
  PROVE  Sound(p, n, Binds(f, <<>>))
<1>1. SafeArgs({}, <<>>, <<>>)
  BY DEF SafeArgs
<1> QED
  BY <1>1, BindingSound DEF Binds

LEMMA Binding1 ==
  ASSUME NEW p, NEW n, NEW f, NEW a, PlainCall(n, f),
         PlainArg(a)
  PROVE  Sound(p, n, Binds(f, <<a>>))
<1>1. SafeArgs({a}, <<>>, <<a>>)
  BY DEF SafeArgs
<1> QED
  BY <1>1, BindingSound DEF Binds

LEMMA Binding2 ==
  ASSUME NEW p, NEW n, NEW f, NEW a, NEW b, PlainCall(n, f),
         PlainArg(a), PlainArg(b),
         a.name # b.name
  PROVE  Sound(p, n, Binds(f, <<a, b>>))
<1>1. SafeArgs({a, b}, <<>>, <<a, b>>)
  BY DEF SafeArgs
<1> QED
  BY <1>1, BindingSound DEF Binds

LEMMA Binding4 ==
  ASSUME NEW p, NEW n, NEW f, NEW a, NEW b, NEW c, NEW d, PlainCall(n, f),
         PlainArg(a), PlainArg(b), PlainArg(c), PlainArg(d),
         a.name # b.name, a.name # c.name, a.name # d.name,
         b.name # c.name, b.name # d.name, c.name # d.name
  PROVE  Sound(p, n, Binds(f, <<a, b, c, d>>))
<1>1. SafeArgs({a, b, c, d}, <<>>, <<a, b, c, d>>)
  BY DEF SafeArgs
<1> QED
  BY <1>1, BindingSound DEF Binds

LEMMA OnHandle1 ==
  ASSUME NEW p, NEW n, NEW f, NEW h, NEW a, PlainCall(n, f),
         PlainHandle(h), PlainArg(a)
  PROVE  Sound(p, n, BindsOn(<<h>>, f, <<a>>))
<1> DEFINE x == <<h>>
           y == <<a>>
<1>1. /\ x \in Seq({h, a}) /\ Len(x) = 1 /\ x[1] = h
      /\ y \in Seq({h, a}) /\ Len(y) = 1 /\ y[1] = a
  OBVIOUS
<1> HIDE DEF x, y
<1>2. SafeArgs({h, a}, x, y)
  BY <1>1 DEF SafeArgs
<1> QED
  BY <1>2, BindingSound DEF x, y

LEMMA OnHandle2 ==
  ASSUME NEW p, NEW n, NEW f, NEW h, NEW a, NEW b, PlainCall(n, f),
         PlainHandle(h), PlainArg(a), PlainArg(b),
         a.name # b.name
  PROVE  Sound(p, n, BindsOn(<<h>>, f, <<a, b>>))
<1>1. SafeArgs({h, a, b}, <<h>>, <<a, b>>)
  BY DEF SafeArgs
<1> QED
  BY <1>1, BindingSound

-----------------------------------------------------------------------------
(* The C functions *)

\* What the proofs use of a C function.
GoodFunction(f, r) ==
  /\ r.instead \in {"value", "null", "literal"}
  /\ r.reads \subseteq {"json"}
  /\ r.reads # {} => f = "json_decoder_init"
  /\ r.each # {} => f = "net_http_request"
  /\ r.instead = "literal" => r.tests \subseteq Required

GoodApi(api) == \A f \in DOMAIN api : GoodFunction(f, api[f])

LEMMA BothApis ==
  ASSUME NEW a, NEW b, GoodApi(a), GoodApi(b)
  PROVE  GoodApi(Both(a, b))
  BY DEF GoodApi, Both

LEMMA BothNames ==
  ASSUME NEW a, NEW b
  PROVE  DOMAIN Both(a, b) = DOMAIN a \cup DOMAIN b
  BY DEF Both

\* Functions that test nothing, and that test and return no literal.
LEMMA PlainFunctions ==
  ASSUME NEW f
  PROVE  /\ GoodFunction(f, Text) /\ GoodFunction(f, Bytes) /\ GoodFunction(f, Value)
         /\ \A t : /\ GoodFunction(f, Tests(t, Text)) /\ GoodFunction(f, Tests(t, Bytes))
                   /\ GoodFunction(f, Tests(t, Value))
         /\ \A t \in SUBSET Required : GoodFunction(f, Literal(Tests(t, Text)))
  BY DEF GoodFunction, Function, Text, Bytes, Value, Tests, Literal

LEMMA BaseGood == GoodApi(BaseApi)
  BY PlainFunctions DEF GoodApi, BaseApi
LEMMA DeviceGood == GoodApi(DeviceApi)
  BY PlainFunctions DEF GoodApi, DeviceApi
LEMMA LogGood == GoodApi(LogApi)
  BY PlainFunctions DEF GoodApi, LogApi
LEMMA CodingGood == GoodApi(CodingApi)
  BY PlainFunctions DEF GoodApi, CodingApi, Required
LEMMA CryptoGood == GoodApi(CryptoApi)
  BY PlainFunctions DEF GoodApi, CryptoApi, Required, Both
LEMMA HttpGood == GoodApi(HttpApi)
<1> DEFINE r == HttpApi["net_http_request"]
<1>1. /\ r.instead = "literal" /\ r.tests = {"url"} /\ r.reads = {}
  BY DEF HttpApi, Function, Text, Tests, Literal, ReadsEach
<1>2. GoodFunction("net_http_request", r)
  BY <1>1 DEF GoodFunction, Required
<1>3. GoodFunction("net_http_download", HttpApi["net_http_download"])
  BY PlainFunctions DEF HttpApi
<1> QED
  BY <1>2, <1>3 DEF GoodApi, HttpApi
LEMMA SqliteGood == GoodApi(SqliteApi)
  BY PlainFunctions DEF GoodApi, SqliteApi, Required
LEMMA KvGood == GoodApi(KvApi)
  BY PlainFunctions DEF GoodApi, KvApi, Both
LEMMA JsonGood == GoodApi(JsonApi)
<1> DEFINE r == JsonApi["json_decoder_init"]
<1>1. /\ r.instead = "value" /\ r.reads = {"json"} /\ r.each = {}
  BY DEF JsonApi, Both, Function, Value, Reads
<1>2. GoodFunction("json_decoder_init", r)
  BY <1>1 DEF GoodFunction
<1>3. ASSUME NEW f \in DOMAIN JsonApi, f # "json_decoder_init"
      PROVE  GoodFunction(f, JsonApi[f])
  BY <1>3, PlainFunctions DEF JsonApi, Both
<1> QED
  BY <1>2, <1>3 DEF GoodApi
LEMMA ZipGood == GoodApi(ZipApi)
  BY PlainFunctions DEF GoodApi, ZipApi, Both
LEMMA ZBytesGood == GoodApi(ZBytesApi)
  BY PlainFunctions DEF GoodApi, ZBytesApi
LEMMA LuaGood == GoodApi(LuaApi)
  BY PlainFunctions DEF GoodApi, LuaApi
LEMMA JsGood == GoodApi(JsApi)
  BY PlainFunctions DEF GoodApi, JsApi, Required

LEMMA AllGood == GoodApi(CFunctions)
<1>1. GoodApi(System) /\ GoodApi(Data)
  BY BothApis, BaseGood, DeviceGood, LogGood, CodingGood, CryptoGood, ZipGood, ZBytesGood
     DEF System, Data
<1>2. GoodApi(Stores) /\ GoodApi(ScriptEngines)
  BY BothApis, SqliteGood, KvGood, LuaGood, JsGood DEF Stores, ScriptEngines
<1> QED
  BY <1>1, <1>2, BothApis, HttpGood, JsonGood DEF CFunctions

\* Every function of a part is one of the C API's.
LEMMA PartsOfApi ==
  /\ DOMAIN BaseApi \cup DOMAIN DeviceApi \cup DOMAIN LogApi \subseteq DOMAIN CFunctions
  /\ DOMAIN CodingApi \cup DOMAIN CryptoApi \subseteq DOMAIN CFunctions
  /\ DOMAIN ZipApi \cup DOMAIN ZBytesApi \subseteq DOMAIN CFunctions
  /\ DOMAIN HttpApi \cup DOMAIN SqliteApi \cup DOMAIN KvApi \subseteq DOMAIN CFunctions
  /\ DOMAIN JsonApi \cup DOMAIN LuaApi \cup DOMAIN JsApi \subseteq DOMAIN CFunctions
<1> DEFINE a == Both(JsonApi, ScriptEngines)
           b == Both(Stores, a)
           c == Both(HttpApi, b)
           d == Both(Data, c)
<1>1. /\ DOMAIN a = DOMAIN JsonApi \cup DOMAIN ScriptEngines
      /\ DOMAIN b = DOMAIN Stores \cup DOMAIN a
      /\ DOMAIN c = DOMAIN HttpApi \cup DOMAIN b
      /\ DOMAIN d = DOMAIN Data \cup DOMAIN c
      /\ DOMAIN CFunctions = DOMAIN System \cup DOMAIN d
  BY BothNames DEF CFunctions
<1>2. /\ DOMAIN Both(DeviceApi, LogApi) = DOMAIN DeviceApi \cup DOMAIN LogApi
      /\ DOMAIN System = DOMAIN BaseApi \cup DOMAIN Both(DeviceApi, LogApi)
  BY BothNames DEF System
<1>3. /\ DOMAIN Both(ZipApi, ZBytesApi) = DOMAIN ZipApi \cup DOMAIN ZBytesApi
      /\ DOMAIN Both(CryptoApi, Both(ZipApi, ZBytesApi)) =
           DOMAIN CryptoApi \cup DOMAIN Both(ZipApi, ZBytesApi)
      /\ DOMAIN Data =
           DOMAIN CodingApi \cup DOMAIN Both(CryptoApi, Both(ZipApi, ZBytesApi))
  BY BothNames DEF Data
<1>4. /\ DOMAIN Stores = DOMAIN SqliteApi \cup DOMAIN KvApi
      /\ DOMAIN ScriptEngines = DOMAIN LuaApi \cup DOMAIN JsApi
  BY BothNames DEF Stores, ScriptEngines
<1> QED
  BY <1>1, <1>2, <1>3, <1>4

-----------------------------------------------------------------------------
(* The programs *)

\* All of a table's programs are safe.
Safe(p, table) == \A n \in DOMAIN table : Sound(p, n, table[n])

LEMMA BothSafe ==
  ASSUME NEW p, NEW a, NEW b, Safe(p, a), Safe(p, b)
  PROVE  Safe(p, Both(a, b))
  BY DEF Safe, Both

LEMMA PlainArgs ==
  ASSUME NEW x
  PROVE  /\ Str(x).name = x /\ Bin(x).name = x
         /\ Optional(Str(x)).name = x /\ Untested(Str(x)).name = x
         /\ Optional(Bin(x)).name = x
         /\ x \notin Taken => PlainArg(Str(x)) /\ PlainArg(Untested(Str(x)))
         /\ x \notin Taken \cup Required => PlainArg(Bin(x)) /\ PlainArg(Optional(Bin(x)))
         /\ x \notin Taken \cup Required => PlainArg(Optional(Str(x)))
         /\ x \notin Taken \cup {"json"} => PlainHandle(Handle(x))
  BY DEF Str, Bin, Handle, Optional, Untested, Arg, PlainArg, PlainHandle, Required, Lists, Taken

LEMMA JniBaseSafe == ASSUME NEW p PROVE Safe(p, JniBase)
  BY PlainArgs, PartsOfApi, Binding0, Binding1
     DEF Safe, PlainCall, Taken, Lists, JniBase, BaseApi, LogApi

LEMMA JniScriptsSafe == ASSUME NEW p PROVE Safe(p, JniScripts)
  BY PlainArgs, PartsOfApi, Binding1, Binding2
     DEF Safe, PlainCall, Taken, Lists, JniScripts, LuaApi, JsApi, Required

LEMMA JniSqliteSafe == ASSUME NEW p PROVE Safe(p, JniSqlite)
  BY PlainArgs, PartsOfApi, Binding0, Binding1, OnHandle1
     DEF Safe, PlainCall, Taken, Lists, JniSqlite, SqliteApi, Conn, Result

LEMMA JniKvSafe == ASSUME NEW p PROVE Safe(p, JniKv)
  BY PlainArgs, PartsOfApi, Binding0, Binding1, OnHandle1, OnHandle2
     DEF Safe, PlainCall, Taken, Lists, JniKv, KvApi, Both, Conn

LEMMA JniDeviceSafe == ASSUME NEW p PROVE Safe(p, JniDevice)
  BY PlainArgs, PartsOfApi, Binding0
     DEF Safe, PlainCall, Taken, Lists, JniDevice, DeviceApi

LEMMA JniCodingSafe == ASSUME NEW p PROVE Safe(p, JniCoding)
  BY PlainArgs, PartsOfApi, Binding1
     DEF Safe, PlainCall, Taken, Lists, JniCoding, CodingApi, Required

LEMMA JniAesSafe == ASSUME NEW p PROVE Safe(p, JniAes)
  BY PlainArgs, PartsOfApi, Binding2, Binding4
     DEF Safe, PlainCall, Taken, Lists, JniAes, CryptoApi, Both, Required, JniGcm

LEMMA JniJsonSafe == ASSUME NEW p PROVE Safe(p, JniJson)
  BY PlainArgs, PartsOfApi, Binding0, Binding1, OnHandle1
     DEF Safe, PlainCall, Taken, Lists, JniJson, JsonApi, Both

LEMMA JniZipSafe == ASSUME NEW p PROVE Safe(p, JniZip)
  BY PlainArgs, PartsOfApi, Binding0, Binding1
     DEF Safe, PlainCall, Taken, Lists, JniZip, ZipApi, ZBytesApi, Both, Required

LEMMA NapiBaseSafe == ASSUME NEW p PROVE Safe(p, NapiBase)
  BY PlainArgs, PartsOfApi, Binding0, Binding1
     DEF Safe, PlainCall, Taken, Lists, NapiBase, BaseApi, LogApi

LEMMA NapiScriptsSafe == ASSUME NEW p PROVE Safe(p, NapiScripts)
  BY PlainArgs, PartsOfApi, Binding1, Binding2
     DEF Safe, PlainCall, Taken, Lists, NapiScripts, LuaApi, JsApi, Required

LEMMA NapiSqliteSafe == ASSUME NEW p PROVE Safe(p, NapiSqlite)
  BY PlainArgs, PartsOfApi, Binding0, Binding1, OnHandle1
     DEF Safe, PlainCall, Taken, Lists, NapiSqlite, SqliteApi, Conn, Result

LEMMA NapiKvSafe == ASSUME NEW p PROVE Safe(p, NapiKv)
  BY PlainArgs, PartsOfApi, Binding0, Binding1, OnHandle1, OnHandle2
     DEF Safe, PlainCall, Taken, Lists, NapiKv, KvApi, Both, Conn

LEMMA NapiDeviceSafe == ASSUME NEW p PROVE Safe(p, NapiDevice)
  BY PlainArgs, PartsOfApi, Binding0
     DEF Safe, PlainCall, Taken, Lists, NapiDevice, DeviceApi

LEMMA NapiCodingSafe == ASSUME NEW p PROVE Safe(p, NapiCoding)
  BY PlainArgs, PartsOfApi, Binding1
     DEF Safe, PlainCall, Taken, Lists, NapiCoding, CodingApi, Required

LEMMA NapiAesSafe == ASSUME NEW p PROVE Safe(p, NapiAes)
  BY PlainArgs, PartsOfApi, Binding2, Binding4
     DEF Safe, PlainCall, Taken, Lists, NapiAes, CryptoApi, Both, Required, NapiGcm, NapiCipher

LEMMA NapiCryptoSafe == ASSUME NEW p PROVE Safe(p, NapiCrypto)
  BY PlainArgs, PartsOfApi, Binding0, Binding1
     DEF Safe, PlainCall, Taken, Lists, NapiCrypto, CryptoApi, Both, Required

LEMMA NapiJsonSafe == ASSUME NEW p PROVE Safe(p, NapiJson)
  BY PlainArgs, PartsOfApi, Binding0, Binding1, OnHandle1
     DEF Safe, PlainCall, Taken, Lists, NapiJson, JsonApi, Both

\* A program none of whose steps may fail frees what it takes if it comes to.
LEMMA FreedLater ==
  ASSUME NEW s, IsProgram(s), \A k \in DOMAIN s : ~MayFail(s[k]),
         NEW i \in DOMAIN s, NEW j \in DOMAIN s, j > i, NEW r, s[j].do = "free", s[j].of = r
  PROVE  Settles(s, i + 1, r)
<1>1. j \in (i + 1)..Len(s) /\ \A k \in (i + 1)..(j - 1) : k \in DOMAIN s
  BY DEF IsProgram
<1> QED
  BY <1>1 DEF Settles

LEMMA ArgFacts ==
  ASSUME NEW x
  PROVE  /\ Str(x) = [name |-> x, kind |-> "text", null |-> "never"]
         /\ Strs(x) = [name |-> x, kind |-> "texts", null |-> "never"]
         /\ Untested(Str(x)) = [name |-> x, kind |-> "text", null |-> "untested"]
         /\ Untested(Strs(x)) = [name |-> x, kind |-> "texts", null |-> "untested"]
         /\ Optional(Str(x)) = [name |-> x, kind |-> "text", null |-> "tested"]
         /\ Optional(Strs(x)) = [name |-> x, kind |-> "texts", null |-> "tested"]
         /\ OrEmpty(Str(x)) = [name |-> x, kind |-> "text", null |-> "literal"]
  BY DEF Str, Strs, Arg, Untested, Optional, OrEmpty

LEMMA HoldKinds ==
  /\ \A r : Hold(r).do = "hold" /\ Hold(r).of = r /\ ~MayFail(Hold(r))
  /\ \A r, by : HoldBy(r, by).do = "hold" /\ HoldBy(r, by).of = r /\ ~MayFail(HoldBy(r, by))
  /\ \A b : Try(b).do = "try" /\ Try(b).back = b
  /\ \A r, b : Take(r, b).do = "take" /\ Take(r, b).of = r /\ Take(r, b).back = b
  BY DEF Hold, HoldBy, Try, Take, Step, MayFail

LEMMA JniMessageSafe == Safe("jni", JniMessage)
<1> DEFINE s == <<Get(Untested(Str("jRes"))), Hold("res"), Free("jRes")>>
<1>1. IsProgram(s) /\ DOMAIN s = 1..3
  BY DEF IsProgram
<1>2. /\ s[1].do = "get"
      /\ s[1].of = [name |-> "jRes", kind |-> "text", null |-> "untested"]
      /\ s[2].do = "hold" /\ s[2].of = "res"
      /\ s[3].do = "free" /\ s[3].of = "jRes"
      /\ \A k \in 1..3 : ~MayFail(s[k])
  BY StepKinds, HoldKinds, ArgFacts
<1> HIDE DEF s
<1>3. AllSettled("jni", "js_msg_callback", s)
  <2>1. ASSUME NEW k \in DOMAIN s, NEW r, Acquires(s, k, r) 
        PROVE  r = "res" \/ Settles(s, k + 1, r)
    <3>1. k = 1 \/ k = 2 \/ k = 3
      BY <1>1
    <3>2. r = "res" \/ (k = 1 /\ r = "jRes")
      BY <1>2, <2>1, <3>1 DEF Acquires
    <3> QED
      BY <1>1, <1>2, <3>2, FreedLater
  <2> QED
    BY <2>1 DEF AllSettled, Leaks
<1>4. FreesOnce(s) /\ "jRes" \in Resources(s)
  BY <1>1, <1>2 DEF FreesOnce, Resources
<1>5. NoFailure("jni", s) /\ GetsWell("js_msg_callback", s) /\ HoldsWell(s)
      /\ InvokesWell("js_msg_callback", s)
  BY <1>1, <1>2 DEF NoFailure, GetsWell, HoldsWell, InvokesWell, OnlyFreesFrom, Required,
     Lists
<1>6. Sound("jni", "js_msg_callback", s)
  BY <1>1, <1>3, <1>4, <1>5 DEF Sound
<1> QED
  BY <1>6 DEF Safe, JniMessage, s

LEMMA JniHttpSafe == Safe("jni", JniHttp)
<1> DEFINE s == JniHttp["netHttpRequest"]
<1>1. IsProgram(s) /\ Len(s) = 19 /\ DOMAIN s = 1..19
  BY DEF IsProgram, JniHttp
<1>2. /\ s[1] = Get(Str("url")) /\ s[2] = Get(Untested(Str("params")))
      /\ s[3] = Get(Untested(Strs("headers"))) /\ s[4] = Get(Untested(Strs("names")))
      /\ s[5] = Get(Untested(Strs("mimes"))) /\ s[6] = Get(Untested(Strs("datas")))
      /\ s[7] = Get(Optional(Str("filePath"))) /\ s[8] = HoldBy("cFILE", {"filePath"})
      /\ s[9] = Invoke("net_http_request") /\ s[10] = Box /\ s[11] = Free("result")
      /\ s[12] = Free("headers") /\ s[13] = Free("names") /\ s[14] = Free("mimes")
      /\ s[15] = Free("datas") /\ s[16] = Free("filePath") /\ s[17] = Free("cFILE")
      /\ s[18] = Free("params") /\ s[19] = Free("url")
  BY DEF JniHttp
<1> HIDE DEF s
<1>3. /\ \A k \in 1..7 : s[k].do = "get" /\ ~MayFail(s[k])
      /\ s[8].do = "hold" /\ s[8].of = "cFILE" /\ ~MayFail(s[8])
      /\ s[9].do = "invoke" /\ s[9].of = "net_http_request" /\ ~MayFail(s[9])
      /\ s[10].do = "box" /\ ~MayFail(s[10])
      /\ \A k \in 11..19 : s[k].do = "free" /\ ~MayFail(s[k])
  BY <1>2, StepKinds, HoldKinds
<1>4. /\ s[1].of = Str("url") /\ s[2].of = Untested(Str("params"))
      /\ s[3].of = Untested(Strs("headers")) /\ s[4].of = Untested(Strs("names"))
      /\ s[5].of = Untested(Strs("mimes")) /\ s[6].of = Untested(Strs("datas"))
      /\ s[7].of = Optional(Str("filePath"))
  BY <1>2, StepKinds
<1>5. /\ s[11].of = "result" /\ s[12].of = "headers" /\ s[13].of = "names"
      /\ s[14].of = "mimes" /\ s[15].of = "datas" /\ s[16].of = "filePath"
      /\ s[17].of = "cFILE" /\ s[18].of = "params" /\ s[19].of = "url"
  BY <1>2, StepKinds
<1>6. /\ s[1].of.name = "url" /\ s[2].of.name = "params" /\ s[3].of.name = "headers"
      /\ s[4].of.name = "names" /\ s[5].of.name = "mimes" /\ s[6].of.name = "datas"
      /\ s[7].of.name = "filePath"
      /\ s[1].of.null = "never" /\ \A k \in 1..7 : s[k].of.null # "literal"
      /\ s[1].of.kind = "text" /\ \A k \in 1..7 : s[k].of.kind \in {"text", "texts"}
  BY <1>4, ArgFacts
<1>7. \A k \in DOMAIN s : ~MayFail(s[k])
  BY <1>1, <1>3
<1>8. AllSettled("jni", "netHttpRequest", s)
  <2>1. ASSUME NEW k \in DOMAIN s, NEW r, Acquires(s, k, r) PROVE Settles(s, k + 1, r)
    <3>1. CASE k \in 1..7
      <4>1. r = s[k].of.name
        BY <1>3, <2>1, <3>1 DEF Acquires
      <4>2. \E j \in 12..19 : s[j].of = r
        BY <1>5, <1>6, <3>1, <4>1
      <4> QED
        BY <1>1, <1>3, <1>7, <3>1, <4>2, FreedLater
    <3>2. CASE k = 8
      <4>1. r = "cFILE"
        BY <1>3, <2>1, <3>2 DEF Acquires
      <4> QED
        BY <1>1, <1>3, <1>5, <1>7, <3>2, <4>1, FreedLater
    <3>3. CASE k = 9
      <4>1. r = "result"
        BY <1>3, <2>1, <3>3 DEF Acquires
      <4> QED
        BY <1>1, <1>3, <1>5, <1>7, <3>3, <4>1, FreedLater
    <3>4. CASE k \in 10..19
      BY <1>3, <2>1, <3>4 DEF Acquires
    <3> QED
      BY <1>1, <3>1, <3>2, <3>3, <3>4
  <2> QED
    BY <2>1 DEF AllSettled
<1>9. FreesOnce(s)
  <2>1. \A k \in DOMAIN s : s[k].do = "free" => k \in 11..19
    BY <1>1, <1>3
  <2>2. \A k, j \in 11..19 : s[k].of = s[j].of => k = j
    BY <1>5
  <2>3. \A k \in 11..19 : s[k].of \in Resources(s)
    <3>1. \A k \in 1..7 : s[k].of.name \in Resources(s)
      BY <1>1, <1>3 DEF Resources
    <3>2. {"result", "cFILE"} \subseteq Resources(s)
      BY <1>1, <1>3 DEF Resources
    <3> QED
      BY <1>5, <1>6, <3>1, <3>2
  <2> QED
    BY <2>1, <2>2, <2>3 DEF FreesOnce
<1>10. GetsWell("netHttpRequest", s)
  <2>1. \A k \in DOMAIN s : s[k].do = "get" => k \in 1..7
    BY <1>1, <1>3
  <2>2. \A k \in 1..7 : /\ s[k].of.name \notin {"result", "json"}
                        /\ s[k].of.name \in Required => k = 1
    BY <1>6 DEF Required
  <2>3. "names" \in Resources(s)
    BY <1>1, <1>3, <1>6 DEF Resources
  <2> QED
    BY <1>6, <2>1, <2>2, <2>3 DEF GetsWell
<1>11. NoFailure("jni", s) /\ HoldsWell(s)
  <2>1. \A k \in DOMAIN s : s[k].do \in {"hold", "take"} => k = 8
    BY <1>1, <1>3
  <2> QED
    BY <1>3, <1>7, <2>1 DEF NoFailure, HoldsWell, Required, Lists
<1>12. InvokesWell("netHttpRequest", s)
  <2>1. \A k \in DOMAIN s : s[k].do = "invoke" => k = 9
    BY <1>1, <1>3
  <2>2. \A k \in 10..Len(s) : s[k].do \in {"box", "free"}
    BY <1>1, <1>3
  <2>3. "net_http_request" \in DOMAIN CFunctions
    BY PartsOfApi DEF HttpApi
  <2> QED
    BY <1>3, <2>1, <2>2, <2>3 DEF InvokesWell, OnlyFreesFrom
<1> QED
  BY <1>1, <1>8, <1>9, <1>10, <1>11, <1>12 DEF Safe, Sound, JniHttp, s

LEMMA NapiHttpSafe == Safe("napi", NapiHttp)
<1> DEFINE s == NapiHttp["netHttpRequest"]
<1>1. IsProgram(s) /\ Len(s) = 20 /\ DOMAIN s = 1..20
  BY DEF IsProgram, NapiHttp
<1>2. /\ s[1] = Get(Str("url")) /\ s[2] = Get(OrEmpty(Str("params")))
      /\ s[3] = Get(Optional(Strs("headers"))) /\ s[4] = HoldBy("header_v", {"headers"})
      /\ s[5] = Get(Optional(Strs("names"))) /\ s[6] = Get(Optional(Strs("mimes")))
      /\ s[7] = Get(Optional(Strs("datas")))
      /\ s[8] = HoldBy("form_field_v", {"names", "mimes", "datas"})
      /\ s[9] = Get(Optional(Str("filePath"))) /\ s[10] = HoldBy("cFILE", {"filePath"})
      /\ s[11] = Invoke("net_http_request") /\ s[12] = Box /\ s[13] = Free("result")
      /\ s[14] = Free("headers") /\ s[15] = Free("names") /\ s[16] = Free("mimes")
      /\ s[17] = Free("datas") /\ s[18] = Free("cFILE") /\ s[19] = Free("params")
      /\ s[20] = Free("url")
  BY DEF NapiHttp
<1> HIDE DEF s
<1> DEFINE G == {1, 2, 3, 5, 6, 7, 9}
<1>3. /\ \A k \in G : s[k].do = "get" /\ ~MayFail(s[k])
      /\ \A k \in {4, 8, 10} : s[k].do = "hold" /\ ~MayFail(s[k])
      /\ s[11].do = "invoke" /\ s[11].of = "net_http_request" /\ ~MayFail(s[11])
      /\ s[12].do = "box" /\ ~MayFail(s[12])
      /\ \A k \in 13..20 : s[k].do = "free" /\ ~MayFail(s[k])
  BY <1>2, StepKinds, HoldKinds
<1>4. /\ s[1].of = Str("url") /\ s[2].of = OrEmpty(Str("params"))
      /\ s[3].of = Optional(Strs("headers")) /\ s[5].of = Optional(Strs("names"))
      /\ s[6].of = Optional(Strs("mimes")) /\ s[7].of = Optional(Strs("datas"))
      /\ s[9].of = Optional(Str("filePath"))
      /\ s[4].of = "header_v" /\ s[8].of = "form_field_v" /\ s[10].of = "cFILE"
  BY <1>2, StepKinds, HoldKinds
<1>5. /\ s[13].of = "result" /\ s[14].of = "headers" /\ s[15].of = "names"
      /\ s[16].of = "mimes" /\ s[17].of = "datas" /\ s[18].of = "cFILE"
      /\ s[19].of = "params" /\ s[20].of = "url"
  BY <1>2, StepKinds
<1>6. /\ s[1].of.name = "url" /\ s[2].of.name = "params" /\ s[3].of.name = "headers"
      /\ s[5].of.name = "names" /\ s[6].of.name = "mimes" /\ s[7].of.name = "datas"
      /\ s[9].of.name = "filePath"
      /\ s[1].of.null = "never" /\ \A k \in G : s[k].of.null = "literal" => k = 2
      /\ s[1].of.kind = "text" /\ \A k \in G : s[k].of.kind \in {"text", "texts"}
  BY <1>4, ArgFacts
<1>7. \A k \in DOMAIN s : ~MayFail(s[k])
  BY <1>1, <1>3
<1>8. AllSettled("napi", "netHttpRequest", s)
  <2>1. ASSUME NEW k \in DOMAIN s, NEW r, Acquires(s, k, r)
        PROVE  r \in {"header_v", "form_field_v", "filePath"} \/ Settles(s, k + 1, r)
    <3>1. CASE k \in G
      <4>1. r = s[k].of.name
        BY <1>3, <2>1, <3>1 DEF Acquires
      <4>2. r = "filePath" \/ \E j \in 14..20 : s[j].of = r
        BY <1>5, <1>6, <3>1, <4>1
      <4> QED
        BY <1>1, <1>3, <1>7, <3>1, <4>2, FreedLater
    <3>2. CASE k \in {4, 8, 10}
      <4>1. r \in {"header_v", "form_field_v"} \/ (k = 10 /\ r = "cFILE")
        BY <1>3, <1>4, <2>1, <3>2 DEF Acquires
      <4> QED
        BY <1>1, <1>3, <1>5, <1>7, <3>2, <4>1, FreedLater
    <3>3. CASE k = 11
      <4>1. r = "result"
        BY <1>3, <2>1, <3>3 DEF Acquires
      <4> QED
        BY <1>1, <1>3, <1>5, <1>7, <3>3, <4>1, FreedLater
    <3>4. CASE k \in 12..20
      BY <1>3, <2>1, <3>4 DEF Acquires
    <3> QED
      BY <1>1, <3>1, <3>2, <3>3, <3>4
  <2> QED
    BY <2>1 DEF AllSettled, Leaks
<1>9. FreesOnce(s)
  <2>1. \A k \in DOMAIN s : s[k].do = "free" => k \in 13..20
    BY <1>1, <1>3
  <2>2. \A k, j \in 13..20 : s[k].of = s[j].of => k = j
    BY <1>5
  <2>3. \A k \in 13..20 : s[k].of \in Resources(s)
    <3>1. \A k \in G : s[k].of.name \in Resources(s)
      BY <1>1, <1>3 DEF Resources
    <3>2. {"result", "cFILE"} \subseteq Resources(s)
      BY <1>1, <1>3, <1>4 DEF Resources
    <3> QED
      BY <1>5, <1>6, <3>1, <3>2
  <2> QED
    BY <2>1, <2>2, <2>3 DEF FreesOnce
<1>10. GetsWell("netHttpRequest", s)
  <2>1. \A k \in DOMAIN s : s[k].do = "get" => k \in G
    BY <1>1, <1>3
  <2>2. \A k \in G : /\ s[k].of.name \notin {"result", "json"}
                     /\ s[k].of.name \in Required => k = 1
    BY <1>6 DEF Required
  <2>3. "names" \in Resources(s)
    BY <1>1, <1>3, <1>6 DEF Resources
  <2> QED
    BY <1>6, <2>1, <2>2, <2>3 DEF GetsWell
<1>11. NoFailure("napi", s) /\ HoldsWell(s)
  <2>1. \A k \in DOMAIN s : s[k].do \in {"hold", "take"} => k \in {4, 8, 10}
    BY <1>1, <1>3
  <2> QED
    BY <1>4, <1>7, <2>1 DEF NoFailure, HoldsWell, Required, Lists
<1>12. InvokesWell("netHttpRequest", s)
  <2>1. \A k \in DOMAIN s : s[k].do = "invoke" => k = 11
    BY <1>1, <1>3
  <2>2. \A k \in 12..Len(s) : s[k].do \in {"box", "free"}
    BY <1>1, <1>3
  <2>3. "net_http_request" \in DOMAIN CFunctions
    BY PartsOfApi DEF HttpApi
  <2> QED
    BY <1>3, <2>1, <2>2, <2>3 DEF InvokesWell, OnlyFreesFrom
<1> QED
  BY <1>1, <1>8, <1>9, <1>10, <1>11, <1>12 DEF Safe, Sound, NapiHttp, s

LEMMA JniCryptoSafe == Safe("jni", JniCrypto)
<1> DEFINE s == BindsKeeping("crypto_rand")
<1>1. /\ Len(s) = 2 /\ DOMAIN s = 1..2
      /\ s[1] = Invoke("crypto_rand") /\ s[2] = Box
  BY DEF BindsKeeping
<1> HIDE DEF s
<1>2. /\ s[1].do = "invoke" /\ s[1].of = "crypto_rand" /\ s[2].do = "box"
      /\ \A k \in 1..2 : ~MayFail(s[k])
  BY <1>1, StepKinds
<1>3. AllSettled("jni", "cryptoRandom", s)
  BY <1>1, <1>2 DEF AllSettled, Acquires, Leaks
<1>4. IsProgram(s) /\ FreesOnce(s) /\ NoFailure("jni", s) /\ GetsWell("cryptoRandom", s)
      /\ HoldsWell(s)
  BY <1>1, <1>2 DEF IsProgram, FreesOnce, NoFailure, GetsWell, HoldsWell
<1>5. InvokesWell("cryptoRandom", s)
  BY <1>1, <1>2, PartsOfApi DEF InvokesWell, OnlyFreesFrom, CryptoApi, Both
<1>6. Sound("jni", "cryptoRandom", s)
  BY <1>3, <1>4, <1>5 DEF Sound
<1>7. ASSUME NEW n \in DOMAIN JniCrypto, n # "cryptoRandom"
      PROVE  Sound("jni", n, JniCrypto[n])
  BY <1>7, PlainArgs, PartsOfApi, Binding1 DEF JniCrypto, PlainCall, CryptoApi, Both, Required,
     Taken, Lists
<1> QED
  BY <1>6, <1>7 DEF Safe, JniCrypto, s

-----------------------------------------------------------------------------
(* The programs of the libraries *)

\* They take, hold, try and free.
OfLibrary(s) ==
  /\ IsProgram(s)
  /\ \A k \in DOMAIN s : s[k].do \in {"try", "take", "hold", "free"}
  /\ \A k \in DOMAIN s :
       s[k].do \in {"take", "hold"} => s[k].of \notin Required \cup Lists \cup {"result"}

LEMMA LibrarySound ==
  ASSUME NEW n, NEW s, OfLibrary(s), AllSettled("native", n, s), FreesOnce(s)
  PROVE  Sound("native", n, s)
  BY DEF OfLibrary, Sound, NoFailure, GetsWell, HoldsWell, InvokesWell, OnlyFreesFrom

\* A library's call that takes nothing.
LEMMA TriesSound ==
  ASSUME NEW n, NEW s, IsProgram(s), \A k \in DOMAIN s : s[k].do = "try"
  PROVE  Sound("native", n, s)
<1>1. OfLibrary(s) /\ AllSettled("native", n, s) /\ FreesOnce(s)
  BY DEF OfLibrary, AllSettled, Acquires, FreesOnce
<1> QED
  BY <1>1, LibrarySound

LEMMA RandSound ==
  ASSUME NEW n
  PROVE  /\ Sound("native", n, Rand) /\ Sound("native", n, AesEncrypt)
         /\ Sound("native", n, RsaGenKey)
<1>1. IsProgram(Rand) /\ \A k \in DOMAIN Rand : Rand[k].do = "try"
  BY HoldKinds DEF IsProgram, Rand, Checked, Bare
<1> QED
  BY <1>1, TriesSound DEF Rand, AesEncrypt, RsaGenKey

LEMMA DigestSound ==
  ASSUME NEW n
  PROVE  /\ Sound("native", n, AesDecrypt) /\ Sound("native", n, Md5)
         /\ Sound("native", n, Sha256)
<1>1. IsProgram(Md5) /\ \A k \in DOMAIN Md5 : Md5[k].do = "try"
  BY HoldKinds DEF IsProgram, Md5, Checked, Bare
<1> QED
  BY <1>1, TriesSound DEF AesDecrypt, Md5, Sha256

LEMMA GcmSound == ASSUME NEW n PROVE Sound("native", n, Gcm)
<1> DEFINE s == Gcm
<1>1. Len(s) = 10 /\ DOMAIN s = 1..10
  BY DEF Gcm
<1>2. /\ s[1] = Checked /\ s[2] = Take("ctx", {}) /\ s[10] = Free("ctx")
      /\ \A k \in 3..9 : s[k] = WithEvp
  BY DEF Gcm
<1> HIDE DEF s
<1>3. /\ s[1].do = "try" /\ s[2].do = "take" /\ s[2].of = "ctx"
      /\ s[10].do = "free" /\ s[10].of = "ctx"
      /\ \A k \in 3..9 : s[k].do = "try" /\ s[k].back = {"ctx"}
  BY <1>2, HoldKinds, StepKinds DEF Checked, WithEvp
<1>4. OfLibrary(s)
  BY <1>1, <1>3 DEF OfLibrary, IsProgram, Required, Lists
<1>5. AllSettled("native", n, s)
  <2>1. ASSUME NEW k \in DOMAIN s, NEW r, Acquires(s, k, r) PROVE Settles(s, k + 1, r)
    <3>1. k = 2 /\ r = "ctx"
      BY <1>1, <1>3, <2>1 DEF Acquires
    <3>2. Settles(s, 3, "ctx")
      BY <1>1, <1>3 DEF Settles
    <3> QED
      BY <3>1, <3>2
  <2> QED
    BY <2>1 DEF AllSettled
<1>6. FreesOnce(s)
  BY <1>1, <1>3 DEF FreesOnce, Resources
<1> QED
  BY <1>4, <1>5, <1>6, LibrarySound DEF s

LEMMA Sha1Sound == Sound("native", "hashSha1", Sha1)
<1> DEFINE s == Sha1
<1>1. Len(s) = 6 /\ DOMAIN s = 1..6
  BY DEF Sha1
<1>2. /\ s[1] = Checked /\ s[2] = Hold("ctx") /\ s[3] = Bare /\ s[4] = Bare
      /\ s[5] = Bare /\ s[6] = Free("ctx")
  BY DEF Sha1
<1> HIDE DEF s
<1>3. /\ s[1].do = "try" /\ s[2].do = "hold" /\ s[2].of = "ctx" /\ s[3].do = "try"
      /\ s[4].do = "try" /\ s[5].do = "try" /\ s[6].do = "free" /\ s[6].of = "ctx"
  BY <1>2, HoldKinds, StepKinds DEF Checked, Bare
<1>4. OfLibrary(s)
  BY <1>1, <1>3 DEF OfLibrary, IsProgram, Required, Lists
<1>5. AllSettled("native", "hashSha1", s)
  <2>1. ASSUME NEW k \in DOMAIN s, NEW r, Acquires(s, k, r)
        PROVE  r \in {"ctx"} \/ Settles(s, k + 1, r)
    <3>1. k = 2 /\ r = "ctx"
      BY <1>1, <1>3, <2>1 DEF Acquires
    <3> QED
      BY <3>1
  <2> QED
    BY <2>1 DEF AllSettled, Leaks
<1>6. FreesOnce(s)
  BY <1>1, <1>3 DEF FreesOnce, Resources
<1> QED
  BY <1>4, <1>5, <1>6, LibrarySound DEF s

LEMMA RsaSound == ASSUME NEW n PROVE Sound("native", n, Rsa)
<1> DEFINE s == Rsa
<1>1. Len(s) = 5 /\ DOMAIN s = 1..5
  BY DEF Rsa
<1>2. /\ s[1] = Take("bmem", {}) /\ s[2] = Take("rsa", {"bmem"})
      /\ s[3] = Try({"bmem", "rsa"}) /\ s[4] = Free("bmem") /\ s[5] = Free("rsa")
  BY DEF Rsa
<1> HIDE DEF s
<1>3. /\ s[1].do = "take" /\ s[1].of = "bmem"
      /\ s[2].do = "take" /\ s[2].of = "rsa" /\ s[2].back = {"bmem"}
      /\ s[3].do = "try" /\ s[3].back = {"bmem", "rsa"}
      /\ s[4].do = "free" /\ s[4].of = "bmem" /\ s[5].do = "free" /\ s[5].of = "rsa"
  BY <1>2, HoldKinds, StepKinds
<1>4. OfLibrary(s)
  BY <1>1, <1>3 DEF OfLibrary, IsProgram, Required, Lists
<1>5. AllSettled("native", n, s)
  <2>1. ASSUME NEW k \in DOMAIN s, NEW r, Acquires(s, k, r)
        PROVE  Settles(s, k + 1, r)
    <3>1. \/ k = 1 /\ r = "bmem"
          \/ k = 2 /\ r = "rsa"
      BY <1>1, <1>3, <2>1 DEF Acquires
    <3>2. Settles(s, 2, "bmem")
      <4>1. 4 \in 2..Len(s) /\ \A i \in 2..3 : MayFail(s[i]) => "bmem" \in s[i].back
        BY <1>1, <1>3 DEF MayFail
      <4> QED
        BY <1>3, <4>1 DEF Settles
    <3>3. Settles(s, 3, "rsa")
      <4>1. 5 \in 3..Len(s) /\ \A i \in 3..4 : MayFail(s[i]) => "rsa" \in s[i].back
        BY <1>1, <1>3 DEF MayFail
      <4> QED
        BY <1>3, <4>1 DEF Settles
    <3> QED
      BY <3>1, <3>2, <3>3
  <2> QED
    BY <2>1 DEF AllSettled
<1>6. FreesOnce(s)
  BY <1>1, <1>3 DEF FreesOnce, Resources
<1> QED
  BY <1>4, <1>5, <1>6, LibrarySound DEF s

LEMMA Base64EncodeSound == ASSUME NEW n PROVE Sound("native", n, Base64Encode)
<1> DEFINE s == Base64Encode
<1>1. Len(s) = 8 /\ DOMAIN s = 1..8
  BY DEF Base64Encode
<1>2. /\ s[1] = Checked /\ s[2] = Take("b64", {}) /\ s[3] = Take("mem", {"b64"})
      /\ s[4] = Try(Chain) /\ s[5] = Try(Chain) /\ s[6] = Try(Chain)
      /\ s[7] = Free("b64") /\ s[8] = Free("mem")
  BY DEF Base64Encode
<1> HIDE DEF s
<1>3. /\ s[1].do = "try" /\ s[2].do = "take" /\ s[2].of = "b64"
      /\ s[3].do = "take" /\ s[3].of = "mem" /\ s[3].back = {"b64"}
      /\ s[4].do = "try" /\ s[4].back = Chain /\ s[5].do = "try" /\ s[5].back = Chain
      /\ s[6].do = "try" /\ s[6].back = Chain /\ s[7].do = "free" /\ s[7].of = "b64"
      /\ s[8].do = "free" /\ s[8].of = "mem"
  BY <1>2, HoldKinds, StepKinds DEF Checked
<1>4. OfLibrary(s)
  BY <1>1, <1>3 DEF OfLibrary, IsProgram, Required, Lists
<1>5. AllSettled("native", n, s)
  <2>1. ASSUME NEW k \in DOMAIN s, NEW r, Acquires(s, k, r)
        PROVE  Settles(s, k + 1, r)
    <3>1. \/ k = 2 /\ r = "b64"
          \/ k = 3 /\ r = "mem"
      BY <1>1, <1>3, <2>1 DEF Acquires
    <3>2. Settles(s, 3, "b64")
      <4>1. 7 \in 3..Len(s) /\ \A i \in 3..6 : MayFail(s[i]) => "b64" \in s[i].back
        BY <1>1, <1>3 DEF MayFail, Chain
      <4> QED
        BY <1>3, <4>1 DEF Settles
    <3>3. Settles(s, 4, "mem")
      <4>1. 8 \in 4..Len(s) /\ \A i \in 4..7 : MayFail(s[i]) => "mem" \in s[i].back
        BY <1>1, <1>3 DEF MayFail, Chain
      <4> QED
        BY <1>3, <4>1 DEF Settles
    <3> QED
      BY <3>1, <3>2, <3>3
  <2> QED
    BY <2>1 DEF AllSettled
<1>6. FreesOnce(s)
  BY <1>1, <1>3 DEF FreesOnce, Resources
<1> QED
  BY <1>4, <1>5, <1>6, LibrarySound DEF s

LEMMA Base64DecodeSound == ASSUME NEW n PROVE Sound("native", n, Base64Decode)
<1> DEFINE s == Base64Decode
<1>1. Len(s) = 7 /\ DOMAIN s = 1..7
  BY DEF Base64Decode
<1>2. /\ s[1] = Checked /\ s[2] = Bare /\ s[3] = Take("mem", {})
      /\ s[4] = Take("b64", {"mem"}) /\ s[5] = Try(Chain) /\ s[6] = Free("b64")
      /\ s[7] = Free("mem")
  BY DEF Base64Decode
<1> HIDE DEF s
<1>3. /\ s[1].do = "try" /\ s[2].do = "try" /\ s[3].do = "take" /\ s[3].of = "mem"
      /\ s[4].do = "take" /\ s[4].of = "b64" /\ s[4].back = {"mem"}
      /\ s[5].do = "try" /\ s[5].back = Chain /\ s[6].do = "free" /\ s[6].of = "b64"
      /\ s[7].do = "free" /\ s[7].of = "mem"
  BY <1>2, HoldKinds, StepKinds DEF Checked, Bare
<1>4. OfLibrary(s)
  BY <1>1, <1>3 DEF OfLibrary, IsProgram, Required, Lists
<1>5. AllSettled("native", n, s)
  <2>1. ASSUME NEW k \in DOMAIN s, NEW r, Acquires(s, k, r)
        PROVE  Settles(s, k + 1, r)
    <3>1. \/ k = 3 /\ r = "mem"
          \/ k = 4 /\ r = "b64"
      BY <1>1, <1>3, <2>1 DEF Acquires
    <3>2. Settles(s, 4, "mem")
      <4>1. 7 \in 4..Len(s) /\ \A i \in 4..6 : MayFail(s[i]) => "mem" \in s[i].back
        BY <1>1, <1>3 DEF MayFail, Chain
      <4> QED
        BY <1>3, <4>1 DEF Settles
    <3>3. Settles(s, 5, "b64")
      <4>1. 6 \in 5..Len(s) /\ \A i \in 5..5 : MayFail(s[i]) => "b64" \in s[i].back
        BY <1>1, <1>3 DEF MayFail, Chain
      <4> QED
        BY <1>3, <4>1 DEF Settles
    <3> QED
      BY <3>1, <3>2, <3>3
  <2> QED
    BY <2>1 DEF AllSettled
<1>6. FreesOnce(s)
  BY <1>1, <1>3 DEF FreesOnce, Resources
<1> QED
  BY <1>4, <1>5, <1>6, LibrarySound DEF s

LEMMA HttpRequestSound == Sound("native", "httpRequest", HttpRequest)
<1> DEFINE s == HttpRequest
<1>1. Len(s) = 5 /\ DOMAIN s = 1..5
  BY DEF HttpRequest
<1>2. /\ s[1] = Checked /\ s[2] = Take("curl", {}) /\ s[3] = Hold("headerList")
      /\ s[4] = Hold("cmime") /\ s[5] = Free("curl")
  BY DEF HttpRequest
<1> HIDE DEF s
<1>3. /\ s[1].do = "try" /\ s[2].do = "take" /\ s[2].of = "curl"
      /\ s[3].do = "hold" /\ s[3].of = "headerList"
      /\ s[4].do = "hold" /\ s[4].of = "cmime" /\ s[5].do = "free" /\ s[5].of = "curl"
  BY <1>2, HoldKinds, StepKinds DEF Checked
<1>4. OfLibrary(s)
  BY <1>1, <1>3 DEF OfLibrary, IsProgram, Required, Lists
<1>5. AllSettled("native", "httpRequest", s)
  <2>1. ASSUME NEW k \in DOMAIN s, NEW r, Acquires(s, k, r)
        PROVE  r \in {"headerList", "cmime"} \/ Settles(s, k + 1, r)
    <3>1. \/ k = 2 /\ r = "curl"
          \/ k = 3 /\ r = "headerList"
          \/ k = 4 /\ r = "cmime"
      BY <1>1, <1>3, <2>1 DEF Acquires
    <3>2. Settles(s, 3, "curl")
      <4>1. 5 \in 3..Len(s) /\ \A i \in 3..4 : MayFail(s[i]) => "curl" \in s[i].back
        BY <1>1, <1>3 DEF MayFail
      <4> QED
        BY <1>3, <4>1 DEF Settles
    <3> QED
      BY <3>1, <3>2
  <2> QED
    BY <2>1 DEF AllSettled, Leaks
<1>6. FreesOnce(s)
  BY <1>1, <1>3 DEF FreesOnce, Resources
<1> QED
  BY <1>4, <1>5, <1>6, LibrarySound DEF s

LEMMA HttpDownloadSound == Sound("native", "httpDownload", HttpDownload)
<1> DEFINE s == HttpDownload
<1>1. Len(s) = 5 /\ DOMAIN s = 1..5
  BY DEF HttpDownload
<1>2. /\ s[1] = Checked /\ s[2] = Take("curl", {}) /\ s[3] = Take("file", {})
      /\ s[4] = Free("curl") /\ s[5] = Free("file")
  BY DEF HttpDownload
<1> HIDE DEF s
<1>3. /\ s[1].do = "try" /\ s[2].do = "take" /\ s[2].of = "curl"
      /\ s[3].do = "take" /\ s[3].of = "file" /\ s[4].do = "free" /\ s[4].of = "curl"
      /\ s[5].do = "free" /\ s[5].of = "file"
  BY <1>2, HoldKinds, StepKinds DEF Checked
<1>4. OfLibrary(s)
  BY <1>1, <1>3 DEF OfLibrary, IsProgram, Required, Lists
<1>5. AllSettled("native", "httpDownload", s)
  <2>1. ASSUME NEW k \in DOMAIN s, NEW r, Acquires(s, k, r)
        PROVE  r \in {"curl"} \/ Settles(s, k + 1, r)
    <3>1. \/ k = 2 /\ r = "curl"
          \/ k = 3 /\ r = "file"
      BY <1>1, <1>3, <2>1 DEF Acquires
    <3>2. Settles(s, 4, "file")
      <4>1. 5 \in 4..Len(s) /\ \A i \in 4..4 : MayFail(s[i]) => "file" \in s[i].back
        BY <1>1, <1>3 DEF MayFail
      <4> QED
        BY <1>3, <4>1 DEF Settles
    <3> QED
      BY <3>1, <3>2
  <2> QED
    BY <2>1 DEF AllSettled, Leaks
<1>6. FreesOnce(s)
  BY <1>1, <1>3 DEF FreesOnce, Resources
<1> QED
  BY <1>4, <1>5, <1>6, LibrarySound DEF s

LEMMA ToJsonSound == ASSUME NEW n PROVE Sound("native", n, ToJson)
<1> DEFINE s == ToJson
<1>1. Len(s) = 9 /\ DOMAIN s = 1..9
  BY DEF ToJson
<1>2. /\ s[1] = Take("cj", {}) /\ s[2] = Try({"cj"}) /\ s[3] = Try({"cj"})
      /\ s[4] = Hold("cjHeaders") /\ s[5] = Try({"cj", "cjHeaders"})
      /\ s[6] = Try({"cj", "cjHeaders"}) /\ s[7] = Try({"cj", "cjHeaders"})
      /\ s[8] = Free("cjHeaders") /\ s[9] = Free("cj")
  BY DEF ToJson
<1> HIDE DEF s
<1>3. /\ s[1].do = "take" /\ s[1].of = "cj" /\ s[2].do = "try" /\ s[2].back = {"cj"}
      /\ s[3].do = "try" /\ s[3].back = {"cj"}
      /\ s[4].do = "hold" /\ s[4].of = "cjHeaders"
      /\ s[5].do = "try" /\ s[5].back = {"cj", "cjHeaders"}
      /\ s[6].do = "try" /\ s[6].back = {"cj", "cjHeaders"}
      /\ s[7].do = "try" /\ s[7].back = {"cj", "cjHeaders"}
      /\ s[8].do = "free" /\ s[8].of = "cjHeaders" /\ s[9].do = "free" /\ s[9].of = "cj"
  BY <1>2, HoldKinds, StepKinds
<1>4. OfLibrary(s)
  BY <1>1, <1>3 DEF OfLibrary, IsProgram, Required, Lists
<1>5. AllSettled("native", n, s)
  <2>1. ASSUME NEW k \in DOMAIN s, NEW r, Acquires(s, k, r)
        PROVE  Settles(s, k + 1, r)
    <3>1. \/ k = 1 /\ r = "cj"
          \/ k = 4 /\ r = "cjHeaders"
      BY <1>1, <1>3, <2>1 DEF Acquires
    <3>2. Settles(s, 2, "cj")
      <4>1. 9 \in 2..Len(s) /\ \A i \in 2..8 : MayFail(s[i]) => "cj" \in s[i].back
        BY <1>1, <1>3 DEF MayFail
      <4> QED
        BY <1>3, <4>1 DEF Settles
    <3>3. Settles(s, 5, "cjHeaders")
      <4>1. 8 \in 5..Len(s) /\ \A i \in 5..7 : MayFail(s[i]) => "cjHeaders" \in s[i].back
        BY <1>1, <1>3 DEF MayFail
      <4> QED
        BY <1>3, <4>1 DEF Settles
    <3> QED
      BY <3>1, <3>2, <3>3
  <2> QED
    BY <2>1 DEF AllSettled
<1>6. FreesOnce(s)
  BY <1>1, <1>3 DEF FreesOnce, Resources
<1> QED
  BY <1>4, <1>5, <1>6, LibrarySound DEF s

LEMMA NativeSafe == Safe("native", Native)
<1>1. Safe("native", NativeCrypto)
  BY RandSound, DigestSound, GcmSound, Sha1Sound DEF Safe, NativeCrypto
<1>2. Safe("native", NativeKeys)
  BY RandSound, RsaSound, Base64EncodeSound, Base64DecodeSound DEF Safe, NativeKeys
<1>3. Safe("native", NativeHttp)
  BY HttpRequestSound, HttpDownloadSound, ToJsonSound DEF Safe, NativeHttp
<1> QED
  BY <1>1, <1>2, <1>3, BothSafe DEF Native

LEMMA JniSafe == Safe("jni", Jni)
<1>1. Safe("jni", JniData) /\ Safe("jni", JniStore) /\ Safe("jni", JniVm)
  BY BothSafe, JniCodingSafe, JniAesSafe, JniCryptoSafe, JniZipSafe, JniSqliteSafe,
     JniKvSafe, JniScriptsSafe, JniMessageSafe
     DEF JniData, JniStore, JniVm
<1> QED
  BY <1>1, BothSafe, JniBaseSafe, JniHttpSafe, JniDeviceSafe, JniJsonSafe DEF Jni

LEMMA NapiSafe == Safe("napi", Napi)
<1>1. Safe("napi", NapiData) /\ Safe("napi", NapiStore)
  BY BothSafe, NapiCodingSafe, NapiAesSafe, NapiCryptoSafe, NapiSqliteSafe, NapiKvSafe
     DEF NapiData, NapiStore
<1> QED
  BY <1>1, BothSafe, NapiBaseSafe, NapiHttpSafe, NapiScriptsSafe, NapiDeviceSafe,
     NapiJsonSafe DEF Napi

\* Every call of every platform is a safe program.
LEMMA CallsSound ==
  ASSUME NEW p \in {"jni", "napi", "native"}, NEW n \in DOMAIN Calls(p)
  PROVE  Sound(p, n, Calls(p)[n])
  BY JniSafe, NapiSafe, NativeSafe DEF Calls, Safe

-----------------------------------------------------------------------------
(* The kinds of step *)

Holdings ==
  {"none", "held", "null", "literal", "value", "bare", "hollow", "lost", "given back"}

\* What a step relies on.
LEMMA StepFacts ==
  ASSUME CallTypeOK, Active
  PROVE  /\ Sound(platform, name, program)
         /\ Len(program) \in Nat /\ DOMAIN program = 1..Len(program)
         /\ position \in 1..(Len(program) + 1)
         /\ have \in [Resources(program) -> Holdings]
<1>1. /\ platform \in {"jni", "napi", "native"} /\ name \in DOMAIN Calls(platform)
      /\ program = Calls(platform)[name]
  BY PlatformsAssumption DEF CallTypeOK, Active, Running
<1>2. Sound(platform, name, program)
  BY <1>1, CallsSound
<1>3. Len(program) \in Nat /\ DOMAIN program = 1..Len(program)
  BY <1>2 DEF Sound, IsProgram
<1>4. /\ position \in 1..(Len(program) + 1)
      /\ have \in [Resources(program) -> Holdings]
  BY DEF CallTypeOK, Active, Holdings
<1> QED
  BY <1>2, <1>3, <1>4

LEMMA AtStep ==
  ASSUME CallTypeOK, Active, position <= Len(program)
  PROVE  position \in DOMAIN program
  BY StepFacts

\* A step that changes nothing that is held.
Keeps ==
  /\ Next1 /\ UNCHANGED <<have, omits, pending>>
  /\ Current.do # "free"

\* A step after which the call has v of r.
Gains(r, v) ==
  /\ Next1 /\ have' = [have EXCEPT ![r] = v]
  /\ pending => pending'
  /\ pending' \in BOOLEAN /\ omits' \in BOOLEAN
  /\ v \in {"held", "null", "literal", "value", "bare", "hollow", "lost"}
  /\ v \in Owned => Acquires(program, position, r)
  /\ v \in {"hollow", "lost"} => pending'
  /\ v = "hollow" => platform = "napi"
  /\ v = "bare" => platform = "jni"
  /\ v = "null" /\ r \in Required => pending' \/ HandleNamed(r)
  /\ v = "literal" => \/ /\ r = "result"
                         /\ pending \/ NullHandle
                         /\ OnlyFreesFrom(program, position + 1)
                      \/ r = "params" /\ name = "netHttpRequest"
  /\ Current.do \in {"get", "invoke", "hold", "take"}
  /\ Current.do # "invoke" => r # "result"
  /\ Current.do = "invoke" => r = "result"

LEMMA GetGains ==
  ASSUME CallTypeOK, MemoryInv, GetArgument
  PROVE  \/ Keeps /\ fault' = "null converted"
         \/ fault' = fault /\ \E r, v : Gains(r, v)
<1> DEFINE arg == Current.of
           counted == have["names"]
<1>1. Active /\ Is("get") /\ Next1
  BY DEF GetArgument, Is
<1>2. /\ position \in DOMAIN program /\ Current.do = "get" /\ GetsWell(name, program)
      /\ have \in [Resources(program) -> Holdings]
  BY <1>1, StepFacts, AtStep DEF Sound, Is
<1>3. /\ arg.kind \in {"handle", "text", "bytes", "texts"}
      /\ arg.name # "result"
      /\ arg.null = "literal" => name = "netHttpRequest" /\ arg.name = "params"
      /\ arg.name \in Lists => "names" \in DOMAIN have
      /\ arg.name \in Required =>
           arg.kind = "handle" \/ (arg.kind = "text" /\ arg.null # "tested")
  BY <1>2 DEF GetsWell, Current
<1>4. arg.kind = "handle" => HandleNamed(arg.name)
  BY <1>2 DEF HandleNamed, Current
<1>5. arg.kind # "handle" => Acquires(program, position, arg.name)
  BY <1>2 DEF Acquires, Current
<1>6. pending \in BOOLEAN /\ omits \in BOOLEAN /\ Omitted(arg) \in BOOLEAN
  BY DEF CallTypeOK, Omitted
<1>7. ASSUME NoneCounted(arg)
      PROVE  /\ counted \in {"null", "bare"}
             /\ counted = "bare" => platform = "jni"
             /\ arg.name \notin Required
  <2>1. arg.name \in {"mimes", "datas"} /\ counted \in {"null", "bare"}
    BY <1>7 DEF NoneCounted, CountsOther, Counts
  <2>2. "names" \in DOMAIN have /\ Running
    BY <1>1, <1>3, <2>1 DEF Lists, Active
  <2> QED
    BY <2>1, <2>2 DEF MemoryInv, HollowThrew, Required
<1>8. ASSUME NEW v \in Converts(arg) \cup Empty(arg), Go(arg.name, v),
             UNCHANGED <<omits, pending, fault>>
      PROVE  Gains(arg.name, v)
  <2>1. \/ v = "value"
        \/ v = "lost" /\ pending
        \/ v = "held" /\ arg.kind # "handle"
        \/ v = counted /\ NoneCounted(arg) /\ arg.kind # "handle"
        \/ v = "null" /\ arg.kind \in {"bytes", "texts"}
        \/ v = "bare" /\ arg.kind # "handle" /\ platform = "jni"
    <3>1. v \in Empty(arg) =>
            \/ v = "null" /\ arg.kind \in {"bytes", "texts"}
            \/ v = "bare" /\ arg.kind = "texts" /\ platform = "jni"
      BY DEF Empty
    <3>2. v \in Converts(arg) =>
            \/ v = "value"
            \/ v = counted /\ NoneCounted(arg) /\ arg.kind # "handle"
            \/ v = "lost" /\ pending
            \/ v = "held" /\ arg.kind # "handle"
      <4>1. NoneCounted(arg) => arg.kind # "handle"
        BY DEF NoneCounted
      <4> QED
        BY <4>1, Zenon DEF Converts
    <3> QED
      BY <1>8, <3>1, <3>2
  <2> QED
    BY <1>1, <1>2, <1>3, <1>5, <1>6, <1>7, <1>8, <2>1 DEF Gains, Go, Owned
<1>9. ASSUME NEW v \in LeftOut(arg) \ {"fault"}, Go(arg.name, v),
             omits' = Omitted(arg), UNCHANGED <<pending, fault>>
      PROVE  Gains(arg.name, v)
  <2>1. \/ v = "null" /\ arg.kind = "handle"
        \/ v = "null" /\ arg.kind # "handle" /\ arg.null = "tested"
        \/ v = counted /\ NoneCounted(arg) /\ arg.kind # "handle"
        \/ v = "literal" /\ arg.null = "literal"
    <3>1. v \in LeftOut(arg) =>
            \/ v = "null" /\ arg.kind = "handle"
            \/ v = "null" /\ arg.null = "tested"
            \/ v \in {IF NoneCounted(arg) THEN counted ELSE "fault"}
            \/ v = "literal" /\ arg.null = "literal"
      BY Zenon DEF LeftOut
    <3>2. NoneCounted(arg) => arg.kind # "handle"
      BY DEF NoneCounted
    <3> QED
      BY <1>9, <3>1, <3>2
  <2> QED
    BY <1>1, <1>2, <1>3, <1>4, <1>5, <1>6, <1>7, <1>9, <2>1 DEF Gains, Go, Owned
<1>10. ASSUME NEW v \in Refused(arg), Go(arg.name, v), pending' = TRUE,
              UNCHANGED <<omits, fault>>
       PROVE  Gains(arg.name, v)
  <2>1. /\ platform = "napi"
        /\ v \in {"null", "lost", "hollow", "held"}
        /\ v \in {"held", "hollow"} => arg.kind # "handle"
    BY <1>3, <1>10 DEF Refused
  <2> QED
    BY <1>1, <1>2, <1>3, <1>5, <1>6, <1>10, <2>1 DEF Gains, Go, Owned
<1>11. ASSUME fault' = "null converted", UNCHANGED <<have, omits, pending>>
       PROVE  Keeps
  BY <1>1, <1>2, <1>11 DEF Keeps
<1> QED
  BY <1>8, <1>9, <1>10, <1>11 DEF GetArgument

LEMMA InvokeGains ==
  ASSUME CallTypeOK, MemoryInv, InvokeC
  PROVE  \/ Keeps /\ fault' = "null read"
         \/ fault' = fault /\ \E r, v : Gains(r, v)
<1> DEFINE f == Current.of
<1>1. Active /\ Is("invoke") /\ Next1 /\ UNCHANGED <<omits, pending>>
  BY DEF InvokeC, Is
<1>2. /\ position \in DOMAIN program /\ Current.do = "invoke"
      /\ InvokesWell(name, program)
      /\ GetsWell(name, program)
      /\ have \in [Resources(program) -> Holdings]
  BY <1>1, StepFacts, AtStep DEF Sound, Is
<1>3. f \in DOMAIN CFunctions /\ OnlyFreesFrom(program, position + 1)
  BY <1>2 DEF InvokesWell, Current
<1>4. GoodFunction(f, CFunctions[f])
  BY <1>3, AllGood DEF GoodApi
<1>5. pending \in BOOLEAN /\ omits \in BOOLEAN
  BY DEF CallTypeOK
<1>6. ASSUME fault' = "null read", UNCHANGED have PROVE Keeps
  BY <1>1, <1>2, <1>6 DEF Keeps
<1>7. ASSUME CFunctions[f].instead = "literal", CFunctions[f].tests \cap Missing # {}
      PROVE  pending \/ NullHandle
  <2>1. PICK r \in Required : r \in DOMAIN have /\ have[r] \in {"null", "lost"}
    BY <1>4, <1>7 DEF GoodFunction, Missing
  <2>2. pending \/ (have[r] = "null" /\ HandleNamed(r))
    BY <1>1, <2>1 DEF MemoryInv, LostThrew, RequiredThere, Active
  <2> QED
    BY <2>2 DEF HandleNamed, NullHandle
<1>8. ASSUME NEW v \in Answers(CFunctions[f], Missing), Go("result", v), UNCHANGED fault
      PROVE  Gains("result", v)
  <2>1. \/ v = "value"
        \/ v = "null"
        \/ v = "held" /\ CFunctions[f].gives # "value"
        \/ v = "literal" /\ CFunctions[f].instead = "literal"
             /\ CFunctions[f].tests \cap Missing # {}
    BY <1>4, <1>8 DEF Answers, GoodFunction
  <2>2. v = "held" => Acquires(program, position, "result")
    BY <1>2, <2>1 DEF Acquires, Current
  <2>3. v = "literal" => pending \/ NullHandle
    BY <1>7, <2>1
  <2>4. "result" \notin Required
    BY DEF Required
  <2> QED
    BY <1>1, <1>2, <1>3, <1>5, <1>8, <2>1, <2>2, <2>3, <2>4 DEF Gains, Go, Owned
<1> QED
  BY <1>6, <1>8 DEF InvokeC

LEMMA HoldGains ==
  ASSUME CallTypeOK, HoldResource
  PROVE  fault' = fault /\ \E r, v : Gains(r, v)
<1>1. Active /\ Is("hold") /\ Next1 /\ UNCHANGED <<omits, pending, fault>>
  BY DEF HoldResource, Is
<1>2. position \in DOMAIN program /\ Current.do = "hold" /\ HoldsWell(program)
  BY <1>1, StepFacts, AtStep DEF Sound, Is
<1>3. /\ Current.of \notin Required \cup Lists \cup {"result"}
      /\ Acquires(program, position, Current.of)
  BY <1>2 DEF HoldsWell, Current, Acquires
<1>4. pending \in BOOLEAN /\ omits \in BOOLEAN
  BY DEF CallTypeOK
<1>5. ASSUME NEW v \in {"held", "null"}, Go(Current.of, v) PROVE Gains(Current.of, v)
  BY <1>1, <1>2, <1>3, <1>4, <1>5 DEF Gains, Go
<1> QED
  BY <1>1, <1>5 DEF HoldResource

LEMMA TakeGains ==
  ASSUME CallTypeOK, TakeResource
  PROVE  \/ Fail
         \/ fault' = fault /\ \E r, v : Gains(r, v)
<1>1. Active /\ Is("take")
  BY DEF TakeResource, Is
<1>2. position \in DOMAIN program /\ Current.do = "take" /\ HoldsWell(program)
  BY <1>1, StepFacts, AtStep DEF Sound, Is
<1>3. /\ Current.of \notin Required \cup Lists \cup {"result"}
      /\ Acquires(program, position, Current.of)
  BY <1>2 DEF HoldsWell, Current, Acquires
<1>4. pending \in BOOLEAN /\ omits \in BOOLEAN
  BY DEF CallTypeOK
<1>5. ASSUME Go(Current.of, "held"), Next1, UNCHANGED <<omits, pending, fault>>
      PROVE  Gains(Current.of, "held")
  BY <1>2, <1>3, <1>4, <1>5 DEF Gains, Go
<1> QED
  BY <1>5 DEF TakeResource

-----------------------------------------------------------------------------
(* What each kind of step preserves *)

LEMMA KeepsMemory ==
  ASSUME CallTypeOK, MemoryInv, Active, position <= Len(program), Keeps
  PROVE  MemoryInv'
<1>1. /\ program' = program /\ Running' /\ Running /\ position' = position + 1
      /\ UNCHANGED <<platform, name, have, pending>>
  BY DEF Keeps, Next1, Running, Active
<1>2. /\ position \in DOMAIN program /\ program[position].do # "free"
      /\ position \in Nat /\ Len(program) \in Nat /\ DOMAIN program = 1..Len(program)
  BY StepFacts, AtStep DEF Keeps, Current
<1>3. HeldSettles'
  <2>1. ASSUME NEW r, Settles(program, position, r) PROVE Settles(program, position + 1, r)
    BY <1>2, <2>1 DEF Settles
  <2> QED
    BY <1>1, <2>1 DEF MemoryInv, HeldSettles
<1>4. GivenBackOnce'
  <2>1. \A r : NoFreeFrom(program, position, r) => NoFreeFrom(program, position + 1, r)
    BY <1>2 DEF NoFreeFrom
  <2> QED
    BY <1>1, <2>1 DEF MemoryInv, GivenBackOnce
<1>5. LostThrew' /\ HollowThrew'
  BY <1>1 DEF MemoryInv, LostThrew, HollowThrew
<1>6. RequiredThere'
  BY <1>1 DEF MemoryInv, RequiredThere, HandleNamed
<1>7. LiteralWhy'
  BY <1>1, <1>2 DEF MemoryInv, LiteralWhy, NullHandle, OnlyFreesFrom
<1> QED
  BY <1>3, <1>4, <1>5, <1>6, <1>7 DEF MemoryInv

LEMMA GainsMemory ==
  ASSUME CallTypeOK, MemoryInv, Active, position <= Len(program), NEW r, NEW v, Gains(r, v)
  PROVE  MemoryInv'
<1>1. /\ program' = program /\ Running' /\ Running /\ position' = position + 1
      /\ UNCHANGED <<platform, name>>
      /\ have' = [have EXCEPT ![r] = v]
      /\ pending => pending'
  BY DEF Gains, Next1, Running, Active
<1>2. /\ position \in DOMAIN program
      /\ program[position].do \in {"get", "invoke", "hold", "take"}
      /\ position \in Nat /\ Len(program) \in Nat /\ DOMAIN program = 1..Len(program)
      /\ DOMAIN have = Resources(program)
      /\ AllSettled(platform, name, program)
  BY StepFacts, AtStep DEF Gains, Current, Sound
<1>3. /\ DOMAIN have' = DOMAIN have
      /\ \A x \in DOMAIN have : have'[x] = IF x = r THEN v ELSE have[x]
  BY <1>1, <1>2
<1>4. HeldSettles'
  <2>1. ASSUME NEW x, Settles(program, position, x) PROVE Settles(program, position + 1, x)
    BY <1>2, <2>1 DEF Settles
  <2>2. ASSUME NEW x \in DOMAIN have, have'[x] \in Owned
        PROVE  x \in Leaks(platform, name) \/ Settles(program, position + 1, x)
    <3>1. CASE x = r
      BY <1>2, <1>3, <2>2, <3>1 DEF Gains, AllSettled
    <3>2. CASE x # r
      BY <1>1, <1>3, <2>1, <2>2, <3>2 DEF MemoryInv, HeldSettles
    <3> QED
      BY <3>1, <3>2
  <2> QED
    BY <1>1, <1>3, <2>2 DEF HeldSettles
<1>5. GivenBackOnce'
  <2>1. v # "given back"
    BY DEF Gains
  <2>2. \A x : NoFreeFrom(program, position, x) => NoFreeFrom(program, position + 1, x)
    BY <1>2 DEF NoFreeFrom
  <2> QED
    BY <1>1, <1>3, <2>1, <2>2 DEF MemoryInv, GivenBackOnce
<1>6. LostThrew' /\ HollowThrew'
  BY <1>1, <1>3 DEF MemoryInv, LostThrew, HollowThrew, Gains
<1>7. RequiredThere'
  <2>1. \A x : HandleNamed(x)' <=> HandleNamed(x)
    BY <1>1 DEF HandleNamed
  <2>2. v = "null" /\ r \in Required => pending' \/ HandleNamed(r)
    BY DEF Gains
  <2>3. ASSUME NEW x \in DOMAIN have' \cap Required, have'[x] = "null"
        PROVE  pending' \/ HandleNamed(x)
    BY <1>1, <1>3, <2>2, <2>3 DEF MemoryInv, RequiredThere
  <2> QED
    BY <1>1, <2>1, <2>3 DEF RequiredThere
<1>8. LiteralWhy'
  <2>1. ASSUME NEW x \in DOMAIN have', have'[x] = "literal"
        PROVE  \/ x = r /\ v = "literal"
               \/ x = "params" /\ name = "netHttpRequest"
    <3>1. ~OnlyFreesFrom(program, position)
      BY <1>2 DEF OnlyFreesFrom
    <3>2. CASE x # r
      BY <1>1, <1>3, <2>1, <3>1, <3>2 DEF MemoryInv, LiteralWhy
    <3> QED
      BY <1>3, <2>1, <3>2
  <2>2. ASSUME v = "literal", r = "result", pending \/ NullHandle
        PROVE  pending' \/ NullHandle'
    <3>1. CASE pending
      BY <1>1, <3>1
    <3>2. CASE NullHandle
      <4>1. PICK i \in DOMAIN program : /\ program[i].do = "get"
                                        /\ program[i].of.kind = "handle"
                                        /\ have[program[i].of.name] = "null"
        BY <3>2 DEF NullHandle
      <4>2. program[i].of.name \in DOMAIN have /\ program[i].of.name # "result"
        BY <1>2, <4>1, StepFacts DEF Resources, Sound, GetsWell
      <4>3. have'[program[i].of.name] = "null"
        BY <1>3, <2>2, <4>1, <4>2
      <4> QED
        BY <1>1, <4>1, <4>3 DEF NullHandle
    <3> QED
      BY <2>2, <3>1, <3>2
  <2>3. v = "literal" => \/ /\ r = "result"
                            /\ pending \/ NullHandle
                            /\ OnlyFreesFrom(program, position + 1)
                         \/ r = "params" /\ name = "netHttpRequest"
    BY DEF Gains
  <2>4. OnlyFreesFrom(program, position)' <=> OnlyFreesFrom(program, position + 1)
    BY <1>1 DEF OnlyFreesFrom
  <2> QED
    BY <1>1, <2>1, <2>2, <2>3, <2>4 DEF LiteralWhy
<1> QED
  BY <1>4, <1>5, <1>6, <1>7, <1>8 DEF MemoryInv

LEMMA FreeMemory ==
  ASSUME CallTypeOK, MemoryInv, FreeResource
  PROVE  /\ MemoryInv' /\ program' = program /\ UNCHANGED <<name, pending>>
         /\ Current.of \in DOMAIN have
         /\ fault' = "wild free" => have[Current.of] = "literal" /\ have' = have
         /\ fault' = "null read" => ListIsNull(Current.of) /\ have' = have
         /\ fault' \in {"none", "wild free", "null read"}
<1> DEFINE r == Current.of
<1>0. Active /\ Is("free") /\ position <= Len(program)
  BY DEF FreeResource, Is
<1>1. /\ program' = program /\ Running' /\ Running /\ position' = position + 1
      /\ UNCHANGED <<platform, name, pending>>
      /\ have' = [have EXCEPT ![r] = IF have[r] \in Owned THEN "given back"
                                                                       ELSE have[r]]
      /\ fault' = CASE have[r] \in {"literal", "given back"} -> "wild free"
                    [] ListIsNull(r)                         -> "null read"
                    [] OTHER                                 -> "none"
  BY <1>0 DEF FreeResource, Go, Next1, Running, Active
<1>2. /\ position \in DOMAIN program
      /\ program[position].do = "free" /\ program[position].of = r
      /\ position \in Nat /\ Len(program) \in Nat /\ DOMAIN program = 1..Len(program)
      /\ DOMAIN have = Resources(program)
      /\ FreesOnce(program)
  BY <1>0, StepFacts, AtStep DEF Current, Sound, Is
<1>3. /\ r \in DOMAIN have
      /\ NoFreeFrom(program, position + 1, r)
  BY <1>2 DEF FreesOnce, NoFreeFrom
<1>4. /\ DOMAIN have' = DOMAIN have
      /\ \A x \in DOMAIN have : x # r => have'[x] = have[x]
      /\ have'[r] = IF have[r] \in Owned THEN "given back" ELSE have[r]
  BY <1>1, <1>3
<1>5. have[r] # "given back"
  <2>1. ~NoFreeFrom(program, position, r)
    BY <1>2 DEF NoFreeFrom
  <2> QED
    BY <1>1, <1>3, <2>1 DEF MemoryInv, GivenBackOnce
<1>6. HeldSettles'
  <2>1. ASSUME NEW x, x # r, Settles(program, position, x)
        PROVE  Settles(program, position + 1, x)
    BY <1>2, <2>1 DEF Settles
  <2>2. ASSUME NEW x \in DOMAIN have, have'[x] \in Owned
        PROVE  x # r /\ have[x] \in Owned
    BY <1>4, <2>2 DEF Owned
  <2> QED
    BY <1>1, <1>4, <2>1, <2>2 DEF MemoryInv, HeldSettles
<1>7. GivenBackOnce'
  <2>1. \A x : NoFreeFrom(program, position, x) => NoFreeFrom(program, position + 1, x)
    BY <1>2 DEF NoFreeFrom
  <2> QED
    BY <1>1, <1>3, <1>4, <2>1 DEF MemoryInv, GivenBackOnce
<1>8. LostThrew' /\ HollowThrew'
  BY <1>1, <1>4 DEF MemoryInv, LostThrew, HollowThrew
<1>9. RequiredThere'
  <2>1. \A x : HandleNamed(x)' <=> HandleNamed(x)
    BY <1>1 DEF HandleNamed
  <2> QED
    BY <1>1, <1>4, <2>1 DEF MemoryInv, RequiredThere
<1>10. LiteralWhy'
  <2>1. NullHandle => NullHandle'
    <3>1. \A x \in DOMAIN have : have[x] = "null" => have'[x] = "null"
      BY <1>4 DEF Owned
    <3>2. \A i \in DOMAIN program :
            program[i].do = "get" => program[i].of.name \in DOMAIN have
      BY <1>2 DEF Resources
    <3> QED
      BY <1>1, <3>1, <3>2 DEF NullHandle
  <2>2. OnlyFreesFrom(program, position) => OnlyFreesFrom(program, position)'
    <3>1. OnlyFreesFrom(program, position) => OnlyFreesFrom(program, position + 1)
      BY <1>2 DEF OnlyFreesFrom
    <3>2. OnlyFreesFrom(program, position)' <=> OnlyFreesFrom(program, position + 1)
      BY <1>1 DEF OnlyFreesFrom
    <3> QED
      BY <3>1, <3>2
  <2>3. \A x \in DOMAIN have : have'[x] = "literal" => have[x] = "literal"
    BY <1>4
  <2> QED
    BY <1>1, <1>4, <2>1, <2>2, <2>3 DEF MemoryInv, LiteralWhy
<1>11. /\ fault' = "wild free" => have[r] = "literal" /\ have' = have
       /\ fault' = "null read" => ListIsNull(r) /\ have' = have
       /\ fault' \in {"none", "wild free", "null read"}
  <2>1. have = [x \in DOMAIN have |-> have[x]]
    BY <1>0, StepFacts
  <2>2. fault' = "wild free" => have[r] = "literal"
    BY <1>1, <1>5
  <2>3. fault' = "null read" => ListIsNull(r)
    BY <1>1
  <2>4. ListIsNull(r) \/ have[r] = "literal" => have[r] \notin Owned
    BY DEF ListIsNull, Owned
  <2> QED
    BY <1>1, <2>1, <2>2, <2>3, <2>4
<1> QED
  BY <1>1, <1>3, <1>6, <1>7, <1>8, <1>9, <1>10, <1>11 DEF MemoryInv

LEMMA FailMemory ==
  ASSUME CallTypeOK, MemoryInv, Is("take") \/ Is("try"), Fail
  PROVE  MemoryInv'
<1>1. /\ program' = program /\ Running' /\ Running /\ position' = Len(program) + 1
      /\ UNCHANGED <<platform, name, pending>> /\ Active
      /\ have' = [x \in DOMAIN have |->
                    IF x \in Current.back /\ have[x] = "held"
                      THEN "given back" ELSE have[x]]
  BY DEF Fail, Running, Active, Is
<1>2. /\ position \in DOMAIN program /\ MayFail(program[position])
      /\ position \in Nat /\ Len(program) \in Nat /\ DOMAIN program = 1..Len(program)
      /\ NoFailure(platform, program)
  <2>1. position \in DOMAIN program /\ Current.do \in {"take", "try"}
    BY <1>1, AtStep DEF Is
  <2>2. MayFail(program[position])
    BY <2>1 DEF Current, MayFail
  <2>3. Active
    BY <1>1
  <2>4. /\ position \in Nat /\ Len(program) \in Nat /\ DOMAIN program = 1..Len(program)
        /\ Sound(platform, name, program)
    BY <2>3, StepFacts
  <2>5. NoFailure(platform, program)
    BY <2>4 DEF Sound
  <2> QED
    BY <2>1, <2>2, <2>4, <2>5
<1>3. /\ DOMAIN have' = DOMAIN have
      /\ \A x \in DOMAIN have : have'[x] # "given back" => have'[x] = have[x]
      /\ \A x \in DOMAIN have : have'[x] = "held" => x \notin program[position].back
      /\ \A x \in DOMAIN have : have[x] = "null" => have'[x] = "null"
  BY <1>1 DEF Current
<1>4. HeldSettles'
  <2>1. platform = "native"
    BY <1>2 DEF NoFailure
  <2>2. ASSUME NEW x \in DOMAIN have, have'[x] \in Owned
        PROVE  x \in Leaks(platform, name)
    <3>1. have[x] = "held" /\ x \notin program[position].back
      BY <1>1, <1>3, <2>1, <2>2 DEF MemoryInv, HollowThrew, Owned
    <3>2. ~Settles(program, position, x)
      BY <1>2, <3>1 DEF Settles, MayFail
    <3> QED
      BY <1>1, <3>1, <3>2 DEF MemoryInv, HeldSettles, Owned
  <2> QED
    BY <1>1, <1>3, <2>2 DEF HeldSettles
<1>5. GivenBackOnce'
  <2>1. (Len(program) + 1)..Len(program) = {}
    BY <1>2
  <2> QED
    BY <1>1, <2>1 DEF GivenBackOnce, NoFreeFrom
<1>6. LostThrew' /\ HollowThrew'
  BY <1>1, <1>3 DEF MemoryInv, LostThrew, HollowThrew
<1>7. RequiredThere'
  <2>1. \A x : HandleNamed(x)' <=> HandleNamed(x)
    BY <1>1 DEF HandleNamed
  <2> QED
    BY <1>1, <1>3, <2>1 DEF MemoryInv, RequiredThere
<1>8. LiteralWhy'
  <2>1. NullHandle => NullHandle'
    <3>1. \A i \in DOMAIN program :
            program[i].do = "get" => program[i].of.name \in DOMAIN have
      BY <1>1, StepFacts DEF Resources
    <3> QED
      BY <1>1, <1>3, <3>1 DEF NullHandle
  <2>2. OnlyFreesFrom(program, position)'
    <3>1. (Len(program) + 1)..Len(program) = {}
      BY <1>2
    <3> QED
      BY <1>1, <3>1 DEF OnlyFreesFrom
  <2> QED
    BY <1>1, <1>3, <2>1, <2>2 DEF MemoryInv, LiteralWhy
<1> QED
  BY <1>4, <1>5, <1>6, <1>7, <1>8 DEF MemoryInv

LEMMA BeginMemory ==
  ASSUME Begin
  PROVE  MemoryInv'
<1>1. \A r \in DOMAIN have' : have'[r] = "none"
  BY DEF Begin
<1> QED
  BY <1>1 DEF MemoryInv, HeldSettles, GivenBackOnce, LostThrew, HollowThrew, RequiredThere,
     LiteralWhy, Owned

-----------------------------------------------------------------------------
(* The theorems about calls *)

\* The steps that free nothing and do not end a call.
LEMMA GoesOn ==
  ASSUME CallTypeOK, MemoryInv,
         GetArgument \/ InvokeC \/ BoxResult \/ HoldResource \/ TakeResource \/ TryCall
  PROVE  /\ Active /\ position <= Len(program)
         /\ fault' \in {"none", "null converted", "null read"}
         /\ \/ Keeps
            \/ \E r, v : Gains(r, v)
            \/ Fail /\ (Is("take") \/ Is("try"))
<1>1. CASE GetArgument
  BY <1>1, GetGains DEF GetArgument, Is, Active
<1>2. CASE InvokeC
  BY <1>2, InvokeGains DEF InvokeC, Is, Active
<1>3. CASE BoxResult
  BY <1>3 DEF BoxResult, Is, Keeps, Active
<1>4. CASE HoldResource
  BY <1>4, HoldGains DEF HoldResource, Is, Active
<1>5. CASE TakeResource
  BY <1>5, TakeGains DEF TakeResource, Is, Active, Fail
<1>6. CASE TryCall
  BY <1>6 DEF TryCall, Is, Keeps, Active, Fail
<1> QED
  BY <1>1, <1>2, <1>3, <1>4, <1>5, <1>6

\* Every variable of a call keeps its type.
LEMMA CallTypeInit == CallInit => CallTypeOK
  BY DEF CallInit, CallTypeOK, Running

LEMMA TypeAfterStep ==
  ASSUME CallTypeOK, Active, position <= Len(program),
         Keeps \/ (\E r, v : Gains(r, v)) \/ Fail,
         fault' \in {"none", "null converted", "null read"}
  PROVE  CallTypeOK'
<1>1. /\ program' = program /\ Running' /\ Running
      /\ UNCHANGED <<platform, name>> /\ program = Calls(platform)[name]
  BY DEF Keeps, Gains, Fail, Next1, Running, Active, CallTypeOK
<1>2. /\ position \in 1..(Len(program) + 1) /\ Len(program) \in Nat
      /\ have \in [Resources(program) -> Holdings]
      /\ pending \in BOOLEAN /\ omits \in BOOLEAN
  BY StepFacts DEF CallTypeOK
<1>3. position' \in 1..(Len(program) + 1)
  <2>1. position' = position + 1 \/ position' = Len(program) + 1
    BY DEF Keeps, Gains, Fail, Next1
  <2> DEFINE n == Len(program)
             i == position
             j == position'
  <2>2. i \in 1..(n + 1) /\ n \in Nat /\ i <= n /\ (j = i + 1 \/ j = n + 1)
    BY <1>2, <2>1
  <2> HIDE DEF n, i, j
  <2>3. j \in 1..(n + 1)
    BY ONLY <2>2
  <2> QED
    BY ONLY <2>3 DEF n, j
<1>4. /\ have' \in [Resources(program) -> Holdings]
      /\ pending' \in BOOLEAN /\ omits' \in BOOLEAN
  <2>1. CASE Keeps
    BY <1>2, <2>1 DEF Keeps
  <2>2. ASSUME NEW r, NEW v, Gains(r, v) PROVE have' \in [Resources(program) -> Holdings]
    BY <1>2, <2>2 DEF Gains, Holdings
  <2>3. CASE Fail
    <3>1. \A r \in DOMAIN have : have'[r] \in Holdings
      BY <1>2, <2>3 DEF Fail, Holdings
    <3> QED
      BY <1>2, <2>3, <3>1 DEF Fail
  <2>4. pending' \in BOOLEAN /\ omits' \in BOOLEAN
    BY <1>2 DEF Keeps, Gains, Fail
  <2> QED
    BY <2>1, <2>2, <2>3, <2>4
<1> QED
  BY <1>1, <1>3, <1>4 DEF CallTypeOK, Holdings

LEMMA CallTypeStep ==
  ASSUME CallTypeOK, MemoryInv, Idle, [CallNext]_callVars
  PROVE  CallTypeOK'
<1>1. CASE Begin
  <2>1. PICK p \in Platforms : \E n \in DOMAIN Calls(p) :
          platform' = p /\ name' = n /\ program' = Calls(p)[n]
    BY <1>1 DEF Begin
  <2> PICK n \in DOMAIN Calls(p) :
          platform' = p /\ name' = n /\ program' = Calls(p)[n]
    BY <2>1
  <2>2. program' = Calls(p)[n]
    OBVIOUS
  <2>3. Len(Calls(p)[n]) \in Nat
    BY CallsSound, PlatformsAssumption DEF Sound, IsProgram
  <2>4. position' = 1 /\ UNCHANGED <<omits, pending, fault>>
    BY <1>1 DEF Begin
  <2>5. have' \in [Resources(program') -> Holdings]
    BY <1>1 DEF Begin, Holdings
  <2>6. position' \in 1..(Len(program') + 1)
    BY <2>2, <2>3, <2>4
  <2>7. /\ name' \in DOMAIN Calls(platform') /\ platform' \in Platforms
        /\ program' = Calls(platform')[name']
    OBVIOUS
  <2> QED
    BY <2>4, <2>5, <2>6, <2>7 DEF CallTypeOK, Holdings
<1>2. CASE GetArgument \/ InvokeC \/ BoxResult \/ HoldResource \/ TakeResource \/ TryCall
  BY <1>2, GoesOn, TypeAfterStep
<1>3. CASE FreeResource
  <2>1. /\ Active /\ position <= Len(program) /\ Next1
    BY <1>3 DEF FreeResource, Is
  <2>2. /\ position' \in 1..(Len(program) + 1)
        /\ have \in [Resources(program) -> Holdings]
    BY <2>1, StepFacts DEF Next1
  <2>3. have' \in [Resources(program) -> Holdings]
    <3>1. PICK v : /\ have' = [have EXCEPT ![Current.of] = v]
                   /\ v = "given back" \/ v = have[Current.of]
      BY <1>3 DEF FreeResource, Go
    <3> QED
      BY <2>2, <3>1 DEF Holdings
  <2>4. program' = program /\ UNCHANGED <<platform, name, omits, pending>>
    BY <1>3 DEF FreeResource, Next1
  <2>6. /\ program = Calls(platform)[name] /\ name \in {"none"} \cup DOMAIN Calls(platform)
        /\ platform \in Platforms /\ pending \in BOOLEAN /\ omits \in BOOLEAN
    BY <2>1 DEF CallTypeOK, Active
  <2>5. fault' \in {"none", "wild free", "null read"}
    BY <1>3, FreeMemory
  <2> QED
    BY <2>2, <2>3, <2>4, <2>5, <2>6 DEF CallTypeOK, Holdings
<1>4. CASE Return
  BY <1>4 DEF Return, CallTypeOK, Running
<1>5. CASE UNCHANGED callVars
  BY <1>5 DEF callVars, CallTypeOK, Running
<1> QED
  BY <1>1, <1>2, <1>3, <1>4, <1>5 DEF CallNext

LEMMA MemoryStep ==
  ASSUME CallTypeOK, MemoryInv, [CallNext]_callVars
  PROVE  MemoryInv'
<1>1. CASE GetArgument \/ InvokeC \/ BoxResult \/ HoldResource \/ TakeResource \/ TryCall
  BY <1>1, GoesOn, KeepsMemory, GainsMemory, FailMemory
<1>2. CASE Return
  BY <1>2 DEF Return, Running, MemoryInv, HeldSettles, GivenBackOnce, LostThrew,
     HollowThrew, RequiredThere, LiteralWhy
<1>3. CASE UNCHANGED callVars
  <2>1. /\ program' = program /\ Running' = Running
        /\ UNCHANGED <<platform, name, position, have, pending>>
    BY <1>3 DEF callVars, Running
  <2>2. HeldSettles' /\ GivenBackOnce' /\ LostThrew' /\ HollowThrew'
    BY <2>1 DEF MemoryInv, HeldSettles, GivenBackOnce, LostThrew, HollowThrew
  <2>3. RequiredThere' /\ LiteralWhy'
    BY <2>1 DEF MemoryInv, RequiredThere, LiteralWhy, HandleNamed, NullHandle,
       OnlyFreesFrom
  <2> QED
    BY <2>2, <2>3 DEF MemoryInv
<1> QED
  BY <1>1, <1>2, <1>3, BeginMemory, FreeMemory DEF CallNext

LEMMA IdleStep == ASSUME Idle, [CallNext]_callVars PROVE Idle'
<1>1. CASE Begin
  BY <1>1 DEF Begin, Idle
<1>2. CASE Return
  BY <1>2 DEF Return, Ended, Active, Idle
<1>3. CASE TakeResource \/ TryCall
  BY <1>3 DEF TakeResource, TryCall, Fail, Is, Active, Next1, Idle, Running
<1>4. CASE GetArgument \/ InvokeC \/ BoxResult \/ HoldResource \/ FreeResource
  <2>1. Running /\ name' = name
    BY <1>4 DEF GetArgument, InvokeC, BoxResult, HoldResource, FreeResource, Next1, Is, Active
  <2> QED
    BY <2>1 DEF Idle, Running
<1>5. CASE UNCHANGED callVars
  BY <1>5 DEF callVars, Idle, Running
<1> QED
  BY <1>1, <1>2, <1>3, <1>4, <1>5 DEF CallNext

LEMMA FreesStep ==
  ASSUME CallTypeOK, MemoryInv, Idle, FreesOnlyItsOwn, [CallNext]_callVars
  PROVE  FreesOnlyItsOwn'
<1>1. CASE Begin
  <2>1. fault' # "wild free"
    BY <1>1 DEF Begin, Idle
  <2> QED
    BY <2>1 DEF FreesOnlyItsOwn
<1>2. CASE GetArgument \/ InvokeC \/ BoxResult \/ HoldResource \/ TakeResource \/ TryCall
  <2>1. fault' # "wild free"
    BY <1>2, GoesOn
  <2> QED
    BY <2>1 DEF FreesOnlyItsOwn
<1>3. CASE FreeResource
  <2>1. ASSUME fault' = "wild free"
        PROVE  /\ have[Current.of] = "literal" /\ have' = have
               /\ Current.of \in DOMAIN have
               /\ program' = program /\ UNCHANGED <<name, pending>> /\ Running
    BY <1>3, <2>1, FreeMemory DEF FreeResource, Is, Active
  <2>2. ASSUME fault' = "wild free"
        PROVE  \/ pending
               \/ NullHandle
               \/ name = "netHttpRequest" /\ have["params"] = "literal"
    BY <2>1, <2>2 DEF MemoryInv, LiteralWhy
  <2> QED
    BY <2>1, <2>2 DEF FreesOnlyItsOwn, NullHandle
<1>4. CASE Return
  BY <1>4 DEF Return, Ended, Active, FreesOnlyItsOwn
<1>5. CASE UNCHANGED callVars
  BY <1>5 DEF callVars, FreesOnlyItsOwn
<1> QED
  BY <1>1, <1>2, <1>3, <1>4, <1>5 DEF CallNext

LEMMA ReadsStep ==
  ASSUME CallTypeOK, MemoryInv, Idle, ReadsNoNull, [CallNext]_callVars
  PROVE  ReadsNoNull'
<1>1. CASE Begin \/ Return
  <2>1. fault' = "none"
    BY <1>1 DEF Begin, Idle, Return, Ended, Active
  <2> QED
    BY <2>1 DEF ReadsNoNull
<1>2. CASE GetArgument
  <2>1. fault' # "null read"
    BY <1>2 DEF GetArgument, Is, Active
  <2> QED
    BY <2>1 DEF ReadsNoNull
<1>3. CASE InvokeC
  <2> DEFINE f == Current.of
  <2>1. SUFFICES ASSUME fault' = "null read"
                 PROVE  pending /\ name \in {"netHttpRequest", "jsonDecoderInit"}
    BY <1>3 DEF InvokeC, Next1, ReadsNoNull
  <2>2. Active /\ Is("invoke") /\ CannotRead(f) # {}
    BY <1>3, <2>1 DEF InvokeC, Is, Active
  <2>3. /\ position \in DOMAIN program /\ program[position].do = "invoke"
        /\ InvokesWell(name, program) /\ GetsWell(name, program)
    BY <2>2, StepFacts, AtStep DEF Sound, Current, Is
  <2>4. /\ f \in DOMAIN CFunctions
        /\ f = "json_decoder_init" => name = "jsonDecoderInit"
        /\ f = "net_http_request" => name = "netHttpRequest"
    BY <2>3 DEF InvokesWell, Current
  <2>5. GoodFunction(f, CFunctions[f])
    BY <2>4, AllGood DEF GoodApi
  <2>6. CASE CFunctions[f].reads \cap Missing # {}
    <3>1. "json" \in Missing /\ f = "json_decoder_init"
      BY <2>5, <2>6 DEF GoodFunction
    <3>2. ~HandleNamed("json")
      BY <2>3 DEF HandleNamed, GetsWell
    <3>3. pending
      BY <2>2, <3>1, <3>2 DEF Missing, MemoryInv, LostThrew, RequiredThere, Required, Active
    <3> QED
      BY <2>4, <3>1, <3>3
  <2>7. CASE CFunctions[f].each \cap Hollow # {}
    <3>1. f = "net_http_request"
      BY <2>5, <2>7 DEF GoodFunction
    <3>2. pending
      BY <2>2, <2>7 DEF Hollow, MemoryInv, HollowThrew, Active
    <3> QED
      BY <2>4, <3>1, <3>2
  <2> QED
    BY <2>2, <2>6, <2>7 DEF CannotRead
<1>4. CASE BoxResult
  BY <1>4 DEF BoxResult, Next1, ReadsNoNull
<1>5. CASE HoldResource \/ TakeResource \/ TryCall
  <2>1. fault' # "null read"
    BY <1>5 DEF HoldResource, TakeResource, TryCall, Fail, Is, Active
  <2> QED
    BY <2>1 DEF ReadsNoNull
<1>6. CASE FreeResource
  <2> DEFINE r == Current.of
  <2>1. SUFFICES ASSUME fault' = "null read"
                 PROVE  \/ pending /\ name = "netHttpRequest"
                        \/ r \in {"mimes", "datas"} /\ have[r] = "null" /\ have["names"] # "null"
    BY <1>6, FreeMemory DEF ReadsNoNull
  <2>2. ListIsNull(r) /\ r \in DOMAIN have /\ Active /\ Running
    BY <1>6, <2>1, FreeMemory DEF FreeResource, Is, Active
  <2>3. name = "netHttpRequest"
    <3>1. r \in Resources(program) /\ r \in Lists /\ GetsWell(name, program) /\ HoldsWell(program)
      BY <2>2, StepFacts DEF ListIsNull, Sound
    <3>2. r # "result"
      BY <3>1 DEF Lists
    <3> QED
      BY <3>1, <3>2 DEF Resources, GetsWell, HoldsWell
  <2>4. have[r] = "lost" => pending
    BY <2>2 DEF MemoryInv, LostThrew
  <2>5. have[r] = "null" => r \in {"mimes", "datas"} /\ have["names"] # "null"
    BY <2>2 DEF ListIsNull, Counts
  <2> QED
    BY <2>2, <2>3, <2>4, <2>5 DEF ListIsNull
<1>7. CASE UNCHANGED callVars
  BY <1>7 DEF callVars, ReadsNoNull
<1> QED
  BY <1>1, <1>2, <1>3, <1>4, <1>5, <1>6, <1>7 DEF CallNext

\* The inductive invariant of a call.
THEOREM CallInvariance == CallSpec => []CallInv
<1>1. CallInit => CallInv
  <2>1. CallInit => MemoryInv /\ Idle /\ FreesOnlyItsOwn /\ ReadsNoNull
    BY DEF CallInit, Running, MemoryInv, HeldSettles, GivenBackOnce, LostThrew, HollowThrew,
       RequiredThere, LiteralWhy, Idle, FreesOnlyItsOwn, ReadsNoNull
  <2> QED
    BY <2>1, CallTypeInit DEF CallInv
<1>2. CallInv /\ [CallNext]_callVars => CallInv'
  BY CallTypeStep, MemoryStep, IdleStep, FreesStep, ReadsStep DEF CallInv
<1> QED
  BY <1>1, <1>2, PTL DEF CallSpec

\* Every variable of a call keeps its type.
THEOREM CallTypes == CallSpec => []CallTypeOK
  BY CallInvariance, PTL DEF CallInv

\* Whichever of its steps fails, a call gives back all it took, but for what
\* Leaks lists.
THEOREM CallsGiveBack == CallSpec => []GivesBackAll
<1>1. CallInv => GivesBackAll
  <2>1. SUFFICES ASSUME CallInv, Ended PROVE GivesBackAll
    BY DEF GivesBackAll
  <2>2. Active /\ position > Len(program) /\ Running
    BY <2>1 DEF Ended, Active
  <2>3. \A r : ~Settles(program, position, r)
    BY <2>1, <2>2, StepFacts DEF Settles, CallInv
  <2> QED
    BY <2>1, <2>2, <2>3 DEF CallInv, MemoryInv, HeldSettles, LostThrew, GivesBackAll
<1> QED
  BY <1>1, CallInvariance, PTL

\* A call frees only what it allocated, and once.
THEOREM CallsFreeTheirOwn == CallSpec => []FreesOnlyItsOwn
  BY CallInvariance, PTL DEF CallInv

\* A call reads no null, neither in the C API nor in the binding's own loops over
\* the lists of a request, but in the cases that ReadsNoNull lists: an argument
\* refused, HarmonyOS's random bytes, and a form whose names come without mimes or
\* data (napi_init.cxx:205-209).
THEOREM NoNullIsRead == CallSpec => []ReadsNoNull
  BY CallInvariance, PTL DEF CallInv

-----------------------------------------------------------------------------
(* The two platforms *)

\* Handles and arguments, of a set A.
AreArgs(A, handles, args) == handles \in Seq(A) /\ args \in Seq(A)

\* s calls f, and no other C function.
Only(f, s) == Invoked(s) = {f}

\* A binding calls one C function.
LEMMA BindingInvokes ==
  ASSUME NEW A, NEW handles, NEW args, NEW f, AreArgs(A, handles, args)
  PROVE  Only(f, BindsOn(handles, f, args))
<1> DEFINE s == BindsOn(handles, f, args)
           h == Len(handles)
           m == Len(args)
           c == Calling(f)
<1>1. IsBinding(handles, f, args, s)
  BY BindingSteps DEF AreArgs
<1> HIDE DEF s
<1>2. ASSUME NEW k \in DOMAIN s, s[k].do = "invoke" PROVE s[k].of = f
  <2>1. \/ \E i \in 1..h : k = i /\ s[k] = Get(handles[i])
        \/ \E i \in 1..m : k = h + i /\ s[k] = Get(args[i])
        \/ k = h + m + 1 /\ s[k] = Invoke(f)
        \/ CFunctions[f].gives # "value" /\ k = h + m + 2 /\ s[k] = Box
        \/ CFunctions[f].gives # "value" /\ k = h + m + 3 /\ s[k] = Free("result")
        \/ \E i \in 1..m : k = h + m + Len(c) + i /\ s[k] = Free(args[i].name)
    BY <1>1, BindingCases
  <2> QED
    BY <1>2, <2>1, StepKinds
<1>3. \E k \in DOMAIN s : s[k] = Invoke(f)
  <2>1. Len(c) \in Nat /\ Len(c) >= 1 /\ c[1] = Invoke(f)
    BY DEF Calling
  <2> HIDE DEF c, h, m
  <2>2. /\ h \in Nat /\ m \in Nat /\ DOMAIN s = 1..(h + m + Len(c) + m)
        /\ \A i \in 1..Len(c) : s[h + m + i] = c[i]
    BY <1>1 DEF IsBinding, c, h, m
  <2>3. h + m + 1 \in DOMAIN s /\ s[h + m + 1] = Invoke(f)
    BY <2>1, <2>2
  <2> QED
    BY <2>3
<1> QED
  BY <1>2, <1>3, StepKinds DEF Only, Invoked, s

\* The same for the numbers of handles and arguments that there are.
LEMMA Invokes0 ==
  ASSUME NEW f
  PROVE  Only(f, Binds(f, <<>>))
<1>1. AreArgs({}, <<>>, <<>>)
  BY DEF AreArgs
<1> QED
  BY <1>1, BindingInvokes DEF Binds

LEMMA Invokes1 ==
  ASSUME NEW f, NEW a
  PROVE  Only(f, Binds(f, <<a>>))
<1>1. AreArgs({a}, <<>>, <<a>>)
  BY DEF AreArgs
<1> QED
  BY <1>1, BindingInvokes DEF Binds

LEMMA Invokes2 ==
  ASSUME NEW f, NEW a, NEW b
  PROVE  Only(f, Binds(f, <<a, b>>))
<1>1. AreArgs({a, b}, <<>>, <<a, b>>)
  BY DEF AreArgs
<1> QED
  BY <1>1, BindingInvokes DEF Binds

LEMMA Invokes4 ==
  ASSUME NEW f, NEW a, NEW b, NEW c, NEW d
  PROVE  Only(f, Binds(f, <<a, b, c, d>>))
<1>1. AreArgs({a, b, c, d}, <<>>, <<a, b, c, d>>)
  BY DEF AreArgs
<1> QED
  BY <1>1, BindingInvokes DEF Binds

LEMMA HandleInvokes1 ==
  ASSUME NEW f, NEW h, NEW a
  PROVE  Only(f, BindsOn(<<h>>, f, <<a>>))
<1>1. AreArgs({h, a}, <<h>>, <<a>>)
  BY DEF AreArgs
<1> QED
  BY <1>1, BindingInvokes

LEMMA HandleInvokes2 ==
  ASSUME NEW f, NEW h, NEW a, NEW b
  PROVE  Only(f, BindsOn(<<h>>, f, <<a, b>>))
<1>1. AreArgs({h, a, b}, <<h>>, <<a, b>>)
  BY DEF AreArgs
<1> QED
  BY <1>1, BindingInvokes

\* Programs of the same name call the same C function.
Agree(f, g) ==
  \A n \in (DOMAIN f \cap DOMAIN g) \ Crossed : \E c : Only(c, f[n]) /\ Only(c, g[n])

LEMMA BothAgree ==
  ASSUME NEW f1, NEW f2, NEW g1, NEW g2, Agree(f1, g1), Agree(f2, g2),
         DOMAIN f1 \cap DOMAIN g2 = {}, DOMAIN f2 \cap DOMAIN g1 = {}
  PROVE  Agree(Both(f1, f2), Both(g1, g2))
  BY
     DEF Agree, Both

LEMMA BothAgreeWith ==
  ASSUME NEW f1, NEW f2, NEW g, Agree(f1, g), DOMAIN f2 \cap DOMAIN g = {}
  PROVE  Agree(Both(f1, f2), g)
  BY
     DEF Agree, Both

LEMMA BaseAgree == Agree(JniBase, NapiBase)
  BY Invokes0, Invokes1, Invokes2
     DEF Agree, JniBase, NapiBase
LEMMA ScriptsAgree == Agree(JniScripts, NapiScripts)
  BY Invokes0, Invokes1, Invokes2
     DEF Agree, JniScripts, NapiScripts
LEMMA SqliteAgree == Agree(JniSqlite, NapiSqlite)
  BY Invokes0, Invokes1, HandleInvokes1, HandleInvokes2
     DEF Agree, JniSqlite, NapiSqlite
LEMMA KvAgree == Agree(JniKv, NapiKv)
  BY Invokes0, Invokes1, HandleInvokes1, HandleInvokes2
     DEF Agree, JniKv, NapiKv, Crossed
LEMMA DeviceAgree == Agree(JniDevice, NapiDevice)
  BY Invokes0, Invokes1, Invokes2
     DEF Agree, JniDevice, NapiDevice, Crossed
LEMMA CodingAgree == Agree(JniCoding, NapiCoding)
  BY Invokes0, Invokes1, Invokes2
     DEF Agree, JniCoding, NapiCoding
LEMMA AesAgree == Agree(JniAes, NapiAes)
  BY Invokes2, Invokes4
     DEF Agree, JniAes, NapiAes, JniGcm, NapiGcm, NapiCipher
LEMMA CryptoAgree == Agree(JniCrypto, NapiCrypto)
  BY Invokes0, Invokes1, Invokes2
     DEF Agree, JniCrypto, NapiCrypto
LEMMA JsonAgree == Agree(JniJson, NapiJson)
  BY Invokes0, Invokes1, HandleInvokes1, HandleInvokes2
     DEF Agree, JniJson, NapiJson

LEMMA HttpAgree == Agree(JniHttp, NapiHttp)
<1> DEFINE s == JniHttp["netHttpRequest"]
           t == NapiHttp["netHttpRequest"]
<1>1. Only("net_http_request", s)
  <2>1. DOMAIN s = 1..19
    BY DEF JniHttp
  <2>2. /\ s[1] = Get(Str("url")) /\ s[2] = Get(Untested(Str("params")))
        /\ s[3] = Get(Untested(Strs("headers"))) /\ s[4] = Get(Untested(Strs("names")))
        /\ s[5] = Get(Untested(Strs("mimes"))) /\ s[6] = Get(Untested(Strs("datas")))
        /\ s[7] = Get(Optional(Str("filePath"))) /\ s[8] = HoldBy("cFILE", {"filePath"})
        /\ s[9] = Invoke("net_http_request") /\ s[10] = Box
        /\ \A k \in 11..19 : \E r : s[k] = Free(r)
    BY DEF JniHttp
  <2> HIDE DEF s
  <2>3. s[9].do = "invoke" /\ s[9].of = "net_http_request"
    BY <2>2, StepKinds
  <2>4. ASSUME NEW k \in DOMAIN s, k # 9 PROVE s[k].do # "invoke"
    BY <2>1, <2>2, <2>4, StepKinds, HoldKinds
  <2> QED
    BY <2>1, <2>3, <2>4 DEF Only, Invoked
<1>2. Only("net_http_request", t)
  <2>1. DOMAIN t = 1..20
    BY DEF NapiHttp
  <2>2. /\ t[1] = Get(Str("url")) /\ t[2] = Get(OrEmpty(Str("params")))
        /\ t[3] = Get(Optional(Strs("headers"))) /\ t[4] = HoldBy("header_v", {"headers"})
        /\ t[5] = Get(Optional(Strs("names"))) /\ t[6] = Get(Optional(Strs("mimes")))
        /\ t[7] = Get(Optional(Strs("datas")))
        /\ t[8] = HoldBy("form_field_v", {"names", "mimes", "datas"})
        /\ t[9] = Get(Optional(Str("filePath"))) /\ t[10] = HoldBy("cFILE", {"filePath"})
        /\ t[11] = Invoke("net_http_request") /\ t[12] = Box
        /\ \A k \in 13..20 : \E r : t[k] = Free(r)
    BY DEF NapiHttp
  <2> HIDE DEF t
  <2>3. t[11].do = "invoke" /\ t[11].of = "net_http_request"
    BY <2>2, StepKinds
  <2>4. ASSUME NEW k \in DOMAIN t, k # 11 PROVE t[k].do # "invoke"
    BY <2>1, <2>2, <2>4, StepKinds, HoldKinds
  <2> QED
    BY <2>1, <2>3, <2>4 DEF Only, Invoked
<1> HIDE DEF s, t
<1>3. DOMAIN JniHttp = {"netHttpRequest"}
  BY DEF JniHttp
<1> QED
  BY <1>1, <1>2, <1>3 DEF Agree, s, t

LEMMA DataAgree == Agree(JniData, NapiData)
<1> DEFINE jz == Both(JniCrypto, JniZip)
           j  == Both(JniAes, jz)
           n  == Both(NapiAes, NapiCrypto)
<1>1. /\ DOMAIN jz = DOMAIN JniCrypto \cup DOMAIN JniZip
      /\ DOMAIN j = DOMAIN JniAes \cup DOMAIN jz
      /\ DOMAIN n = DOMAIN NapiAes \cup DOMAIN NapiCrypto
  BY BothNames
<1>2. Agree(jz, NapiCrypto)
  <2>1. DOMAIN JniZip \cap DOMAIN NapiCrypto = {}
    BY DEF JniZip, NapiCrypto
  <2> QED
    BY <2>1, CryptoAgree, BothAgreeWith
<1> HIDE DEF jz
<1>3. Agree(j, n)
  <2>1. DOMAIN JniAes \cap DOMAIN NapiCrypto = {}
    BY DEF JniAes, NapiCrypto
  <2>2. DOMAIN JniCrypto \cap DOMAIN NapiAes = {}
    BY DEF JniCrypto, NapiAes
  <2>3. DOMAIN JniZip \cap DOMAIN NapiAes = {}
    BY DEF JniZip, NapiAes
  <2>4. DOMAIN jz \cap DOMAIN NapiAes = {}
    BY <1>1, <2>2, <2>3
  <2> QED
    BY <1>2, <2>1, <2>4, AesAgree, BothAgree
<1> HIDE DEF j, n
<1>4. DOMAIN JniCoding \cap DOMAIN n = {}
  BY <1>1 DEF JniCoding, NapiAes, NapiCrypto
<1>5. DOMAIN j \cap DOMAIN NapiCoding = {}
  BY <1>1 DEF NapiCoding, JniAes, JniCrypto, JniZip
<1>6. Agree(Both(JniCoding, j), Both(NapiCoding, n))
  BY <1>3, <1>4, <1>5, CodingAgree, BothAgree
<1> QED
  BY <1>6 DEF JniData, NapiData, j, n, jz

LEMMA StoreAgree == Agree(JniStore, NapiStore)
<1>1. DOMAIN JniSqlite \cap DOMAIN NapiKv = {} /\ DOMAIN JniKv \cap DOMAIN NapiSqlite = {}
  BY DEF JniSqlite, NapiKv, JniKv, NapiSqlite
<1> QED
  BY <1>1, SqliteAgree, KvAgree, BothAgree DEF JniStore, NapiStore

LEMMA VmAgree == Agree(JniVm, NapiScripts)
<1>1. DOMAIN JniMessage \cap DOMAIN NapiScripts = {}
  BY DEF JniMessage, NapiScripts
<1> QED
  BY <1>1, ScriptsAgree, BothAgreeWith DEF JniVm

\* The names of each part.
LEMMA PartNames ==
  /\ DOMAIN JniData =
       DOMAIN JniCoding \cup DOMAIN JniAes \cup DOMAIN JniCrypto \cup DOMAIN JniZip
  /\ DOMAIN NapiData = DOMAIN NapiCoding \cup DOMAIN NapiAes \cup DOMAIN NapiCrypto
  /\ DOMAIN JniStore = DOMAIN JniSqlite \cup DOMAIN JniKv
  /\ DOMAIN NapiStore = DOMAIN NapiSqlite \cup DOMAIN NapiKv
  /\ DOMAIN JniVm = DOMAIN JniScripts \cup DOMAIN JniMessage
<1> DEFINE jz == Both(JniCrypto, JniZip)
           j  == Both(JniAes, jz)
           n  == Both(NapiAes, NapiCrypto)
<1>1. /\ DOMAIN jz = DOMAIN JniCrypto \cup DOMAIN JniZip
      /\ DOMAIN j = DOMAIN JniAes \cup DOMAIN jz
      /\ DOMAIN n = DOMAIN NapiAes \cup DOMAIN NapiCrypto
  BY BothNames
<1>2. DOMAIN JniData = DOMAIN JniCoding \cup DOMAIN j
  BY BothNames DEF JniData
<1>3. DOMAIN NapiData = DOMAIN NapiCoding \cup DOMAIN n
  BY BothNames DEF NapiData
<1>4. /\ DOMAIN JniStore = DOMAIN JniSqlite \cup DOMAIN JniKv
      /\ DOMAIN NapiStore = DOMAIN NapiSqlite \cup DOMAIN NapiKv
      /\ DOMAIN JniVm = DOMAIN JniScripts \cup DOMAIN JniMessage
  BY BothNames DEF JniStore, NapiStore, JniVm
<1> HIDE DEF jz, j, n
<1> QED
  BY <1>1, <1>2, <1>3, <1>4

\* No name of one part is of the other platform's other part.
Apart(f1, f2, g1, g2) == DOMAIN f1 \cap DOMAIN g2 = {} /\ DOMAIN f2 \cap DOMAIN g1 = {}

LEMMA BothApart ==
  ASSUME NEW f, NEW g, NEW f1, NEW f2, NEW g1, NEW g2,
         Apart(f, f1, g, g1), Apart(f, f2, g, g2)
  PROVE  Apart(f, Both(f1, f2), g, Both(g1, g2))
<1>1. /\ DOMAIN Both(f1, f2) = DOMAIN f1 \cup DOMAIN f2
      /\ DOMAIN Both(g1, g2) = DOMAIN g1 \cup DOMAIN g2
  BY BothNames
<1> QED
  BY <1>1 DEF Apart

LEMMA SystemApart ==
  /\ Apart(JniBase, JniHttp, NapiBase, NapiHttp)
  /\ Apart(JniBase, JniVm, NapiBase, NapiScripts)
  /\ Apart(JniBase, JniStore, NapiBase, NapiStore)
  /\ Apart(JniBase, JniDevice, NapiBase, NapiDevice)
  /\ Apart(JniBase, JniData, NapiBase, NapiData)
  /\ Apart(JniBase, JniJson, NapiBase, NapiJson)
<1>1. Apart(JniBase, JniHttp, NapiBase, NapiHttp)
  BY DEF Apart, JniBase, JniHttp, NapiBase, NapiHttp
<1>2. Apart(JniBase, JniVm, NapiBase, NapiScripts)
  BY PartNames DEF Apart, JniBase, JniScripts, JniMessage, NapiBase, NapiScripts
<1>3. Apart(JniBase, JniStore, NapiBase, NapiStore)
  BY PartNames DEF Apart, JniBase, JniSqlite, JniKv, NapiBase, NapiSqlite, NapiKv
<1>4. Apart(JniBase, JniDevice, NapiBase, NapiDevice)
  BY DEF Apart, JniBase, JniDevice, NapiBase, NapiDevice
<1>5. Apart(JniBase, JniData, NapiBase, NapiData)
  BY PartNames DEF Apart, JniBase, JniCoding, JniAes, JniCrypto, JniZip,
     NapiBase, NapiCoding, NapiAes, NapiCrypto
<1>6. Apart(JniBase, JniJson, NapiBase, NapiJson)
  BY DEF Apart, JniBase, JniJson, NapiBase, NapiJson
<1> QED
  BY <1>1, <1>2, <1>3, <1>4, <1>5, <1>6

LEMMA HttpApart ==
  /\ Apart(JniHttp, JniVm, NapiHttp, NapiScripts)
  /\ Apart(JniHttp, JniStore, NapiHttp, NapiStore)
  /\ Apart(JniHttp, JniDevice, NapiHttp, NapiDevice)
  /\ Apart(JniHttp, JniData, NapiHttp, NapiData)
  /\ Apart(JniHttp, JniJson, NapiHttp, NapiJson)
<1>1. DOMAIN JniHttp = {"netHttpRequest"} /\ DOMAIN NapiHttp = {"netHttpRequest"}
  BY DEF JniHttp, NapiHttp
<1>2. Apart(JniHttp, JniVm, NapiHttp, NapiScripts)
  BY <1>1, PartNames DEF Apart, JniScripts, JniMessage, NapiScripts
<1>3. Apart(JniHttp, JniStore, NapiHttp, NapiStore)
  BY <1>1, PartNames DEF Apart, JniSqlite, JniKv, NapiSqlite, NapiKv
<1>4. Apart(JniHttp, JniDevice, NapiHttp, NapiDevice)
  BY <1>1 DEF Apart, JniDevice, NapiDevice
<1>5. Apart(JniHttp, JniData, NapiHttp, NapiData)
  BY <1>1, PartNames DEF Apart, JniCoding, JniAes, JniCrypto, JniZip,
     NapiCoding, NapiAes, NapiCrypto
<1>6. Apart(JniHttp, JniJson, NapiHttp, NapiJson)
  BY <1>1 DEF Apart, JniJson, NapiJson
<1> QED
  BY <1>2, <1>3, <1>4, <1>5, <1>6

LEMMA VmApart ==
  /\ Apart(JniVm, JniStore, NapiScripts, NapiStore)
  /\ Apart(JniVm, JniDevice, NapiScripts, NapiDevice)
  /\ Apart(JniVm, JniData, NapiScripts, NapiData)
  /\ Apart(JniVm, JniJson, NapiScripts, NapiJson)
<1>1. Apart(JniVm, JniStore, NapiScripts, NapiStore)
  BY PartNames DEF Apart, JniScripts, JniMessage, NapiScripts,
     JniSqlite, JniKv, NapiSqlite, NapiKv
<1>2. Apart(JniVm, JniDevice, NapiScripts, NapiDevice)
  BY PartNames DEF Apart, JniScripts, JniMessage, NapiScripts, JniDevice, NapiDevice
<1>3. Apart(JniVm, JniData, NapiScripts, NapiData)
  BY PartNames DEF Apart, JniScripts, JniMessage, NapiScripts,
     JniCoding, JniAes, JniCrypto, JniZip, NapiCoding, NapiAes, NapiCrypto
<1>4. Apart(JniVm, JniJson, NapiScripts, NapiJson)
  BY PartNames DEF Apart, JniScripts, JniMessage, NapiScripts, JniJson, NapiJson
<1> QED
  BY <1>1, <1>2, <1>3, <1>4

LEMMA StoreApart ==
  /\ Apart(JniStore, JniDevice, NapiStore, NapiDevice)
  /\ Apart(JniStore, JniData, NapiStore, NapiData)
  /\ Apart(JniStore, JniJson, NapiStore, NapiJson)
<1>1. Apart(JniStore, JniDevice, NapiStore, NapiDevice)
  BY PartNames DEF Apart, JniSqlite, JniKv, NapiSqlite, NapiKv, JniDevice, NapiDevice
<1>2. Apart(JniStore, JniData, NapiStore, NapiData)
  BY PartNames DEF Apart, JniSqlite, JniKv, NapiSqlite, NapiKv,
     JniCoding, JniAes, JniCrypto, JniZip, NapiCoding, NapiAes, NapiCrypto
<1>3. Apart(JniStore, JniJson, NapiStore, NapiJson)
  BY PartNames DEF Apart, JniSqlite, JniKv, NapiSqlite, NapiKv, JniJson, NapiJson
<1> QED
  BY <1>1, <1>2, <1>3

LEMMA DeviceApart ==
  /\ Apart(JniDevice, JniData, NapiDevice, NapiData)
  /\ Apart(JniDevice, JniJson, NapiDevice, NapiJson)
  /\ Apart(JniData, JniJson, NapiData, NapiJson)
<1>1. Apart(JniDevice, JniData, NapiDevice, NapiData)
  BY PartNames DEF Apart, JniDevice, NapiDevice,
     JniCoding, JniAes, JniCrypto, JniZip, NapiCoding, NapiAes, NapiCrypto
<1>2. Apart(JniDevice, JniJson, NapiDevice, NapiJson)
  BY DEF Apart, JniDevice, NapiDevice, JniJson, NapiJson
<1>3. Apart(JniData, JniJson, NapiData, NapiJson)
  BY PartNames DEF Apart, JniJson, NapiJson,
     JniCoding, JniAes, JniCrypto, JniZip, NapiCoding, NapiAes, NapiCrypto
<1> QED
  BY <1>1, <1>2, <1>3

\* The tables agree, part by part.
LEMMA AllAgree == Agree(Jni, Napi)
<1> DEFINE j1 == Both(JniData, JniJson)     n1 == Both(NapiData, NapiJson)
           j2 == Both(JniDevice, j1)        n2 == Both(NapiDevice, n1)
           j3 == Both(JniStore, j2)         n3 == Both(NapiStore, n2)
           j4 == Both(JniVm, j3)            n4 == Both(NapiScripts, n3)
           j5 == Both(JniHttp, j4)          n5 == Both(NapiHttp, n4)
<1>1. Agree(j1, n1)
  BY DataAgree, JsonAgree, DeviceApart, BothAgree DEF Apart
<1>2. /\ Apart(JniDevice, j1, NapiDevice, n1)
      /\ Apart(JniStore, j1, NapiStore, n1)
      /\ Apart(JniVm, j1, NapiScripts, n1)
      /\ Apart(JniHttp, j1, NapiHttp, n1)
      /\ Apart(JniBase, j1, NapiBase, n1)
  BY DeviceApart, StoreApart, VmApart, HttpApart, SystemApart, BothApart
<1> HIDE DEF j1, n1
<1>3. Agree(j2, n2)
  BY <1>1, <1>2, DeviceAgree, BothAgree DEF Apart
<1>4. /\ Apart(JniStore, j2, NapiStore, n2)
      /\ Apart(JniVm, j2, NapiScripts, n2)
      /\ Apart(JniHttp, j2, NapiHttp, n2)
      /\ Apart(JniBase, j2, NapiBase, n2)
  BY <1>2, StoreApart, VmApart, HttpApart, SystemApart, BothApart
<1> HIDE DEF j2, n2
<1>5. Agree(j3, n3)
  BY <1>3, <1>4, StoreAgree, BothAgree DEF Apart
<1>6. /\ Apart(JniVm, j3, NapiScripts, n3)
      /\ Apart(JniHttp, j3, NapiHttp, n3)
      /\ Apart(JniBase, j3, NapiBase, n3)
  BY <1>4, VmApart, HttpApart, SystemApart, BothApart
<1> HIDE DEF j3, n3
<1>7. Agree(j4, n4)
  BY <1>5, <1>6, VmAgree, BothAgree DEF Apart
<1>8. /\ Apart(JniHttp, j4, NapiHttp, n4)
      /\ Apart(JniBase, j4, NapiBase, n4)
  BY <1>6, HttpApart, SystemApart, BothApart
<1> HIDE DEF j4, n4
<1>9. Agree(j5, n5)
  BY <1>7, <1>8, HttpAgree, BothAgree DEF Apart
<1>10. Apart(JniBase, j5, NapiBase, n5)
  BY <1>8, SystemApart, BothApart
<1> HIDE DEF j5, n5
<1>11. Agree(Both(JniBase, j5), Both(NapiBase, n5))
  BY <1>9, <1>10, BaseAgree, BothAgree DEF Apart
<1> QED
  BY <1>11 DEF Jni, Napi, j1, j2, j3, j4, j5, n1, n2, n3, n4, n5

\* A function that both platforms have under one name calls the same C
\* function on both, but for the three that are crossed.
THEOREM BindingsAgree == CallSpec => []PlatformsAgree
<1>1. CallTypeOK => PlatformsAgree
  <2>1. SUFFICES ASSUME CallTypeOK, Running,
                        NEW p \in Platforms \ {"native"},
                        NEW q \in Platforms \ {"native"},
                        platform = p, name \in DOMAIN Calls(q) \ Crossed
                 PROVE  Invoked(program) = Invoked(Calls(q)[name])
    BY DEF PlatformsAgree
  <2>2. /\ p \in {"jni", "napi"} /\ q \in {"jni", "napi"} /\ name \in DOMAIN Calls(p)
        /\ program = Calls(p)[name]
    BY <2>1, PlatformsAssumption DEF CallTypeOK, Running
  <2>3. CASE p = q
    BY <2>2, <2>3
  <2>4. ASSUME name \in (DOMAIN Jni \cap DOMAIN Napi) \ Crossed
        PROVE  Invoked(Jni[name]) = Invoked(Napi[name])
    BY <2>4, AllAgree DEF Agree, Only
  <2>5. CASE p = "jni" /\ q = "napi"
    BY <2>1, <2>2, <2>4, <2>5 DEF Calls
  <2>6. CASE p = "napi" /\ q = "jni"
    BY <2>1, <2>2, <2>4, <2>6 DEF Calls
  <2> QED
    BY <2>2, <2>3, <2>5, <2>6
<1> QED
  BY <1>1, CallTypes, PTL
=============================================================================
