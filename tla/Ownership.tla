----------------------------- MODULE Ownership -----------------------------
(***************************************************************************)
(* One call at a time through the bindings of the two platforms and the    *)
(* libraries underneath: what it holds, in which order it takes and gives  *)
(* back, and what happens when an argument is left out or refused, a C     *)
(* function answers null, or a library call fails.                         *)
(***************************************************************************)
EXTENDS JniCalls, NapiCalls, NativeCalls

CONSTANT Platforms \* which of "jni", "napi" and "native"

ASSUME PlatformsAssumption == Platforms \subseteq {"jni", "napi", "native"}

Calls(p) == CASE p = "jni" -> Jni [] p = "napi" -> Napi [] p = "native" -> Native

Resources(steps) ==
  {"result"} \cup {steps[i].of.name : i \in {j \in DOMAIN steps : steps[j].do = "get"}}
             \cup {steps[i].of : i \in {j \in DOMAIN steps : steps[j].do \in {"hold", "take"}}}

VARIABLES
  platform, \* the call in progress: on which platform,
  name,     \*   and which; "none": none is
  program,  \* its steps,
  position, \*   and the one it does next; 0: none
  have,     \* what it has of each resource: "none", "held", "null",
            \* "literal" (a text of the program), "value" (nothing to give back),
            \* "bare" (a list of no texts), "hollow" (of texts one of which is
            \* null), "lost" (held by nobody)
  omits,    \* has the caller passed no more arguments?
  pending,  \* has an argument been refused, and an exception thrown?
  fault     \* what the call did that nothing survives: "none", or "wild free",
            \* "null read", "null converted"

callVars == <<platform, name, program, position, have, omits, pending, fault>>

Owned == {"held", "bare", "hollow"}

Running == name # "none"
Current == program[position]
Active  == Running /\ fault = "none"
Ended   == Active /\ position > Len(program)
Is(do)  == Active /\ position <= Len(program) /\ Current.do = do

CallInit ==
  /\ platform \in Platforms
  /\ name = "none"
  /\ program = <<>>
  /\ position = 0
  /\ have = <<>>
  /\ omits = FALSE
  /\ pending = FALSE
  /\ fault = "none"

\* A script or the application calls.
Begin ==
  /\ ~Running
  /\ \E p \in Platforms : \E n \in DOMAIN Calls(p) :
       /\ platform' = p
       /\ name' = n
       /\ program' = Calls(p)[n]
  /\ have' = [r \in Resources(program') |-> "none"]
  /\ position' = 1
  /\ UNCHANGED <<omits, pending, fault>>

\* The call returns to the script or the application.
Return ==
  /\ Ended
  /\ name' = "none"
  /\ program' = <<>>
  /\ have' = <<>>
  /\ position' = 0
  /\ omits' = FALSE
  /\ pending' = FALSE
  /\ UNCHANGED <<platform, fault>>

Go(r, v) == have' = [have EXCEPT ![r] = v]
Next1    == position' = position + 1 /\ UNCHANGED <<platform, name, program>>

-----------------------------------------------------------------------------
(* Arguments *)

\* An argument that another one counts, and no element of it is to be read.
CountsOther(arg) == Counts(arg.name) # arg.name
NoneCounted(arg) ==
  arg.kind = "texts" /\ CountsOther(arg) /\ have[Counts(arg.name)] \in {"null", "bare"}

\* What an argument is when its caller leaves it out; the path of the JNI
\* function is then the literal "", which it does not release.
LeftOut(arg) ==
  CASE arg.kind = "handle"    -> {"null"}
    [] arg.null = "tested"    -> {"null"}
    [] arg.null = "untested"  -> {IF NoneCounted(arg) THEN have["names"] ELSE "fault"}
    [] arg.null = "literal"   -> {"literal"}
    [] OTHER                  -> {}

\* N-API arguments go by position: with one, those after it are left out.
Omitted(arg) == platform = "napi" /\ arg.null \in {"tested", "literal"}

\* A text that is no text is null.  An array without elements is null, and so
\* is what is no array; an element that cannot be had leaves what was
\* allocated for the array to nobody, and none can once an exception is
\* pending.  A text in an array may be null.
Refused(arg) ==
  IF platform # "napi" THEN {}
  ELSE CASE arg.kind = "handle" -> {"null"}
         [] arg.kind = "text"   -> {"null"}
         [] arg.kind = "bytes"  -> {"null", "lost", "held"}
         [] arg.kind = "texts"  -> IF NoneCounted(arg) THEN {}
                                   ELSE IF CountsOther(arg) THEN {"lost", "hollow"}
                                   ELSE {"null", "lost", "hollow"}

\* A list that has no elements.
Empty(arg) ==
  CASE platform = "napi" /\ arg.kind \in {"bytes", "texts"} /\ ~CountsOther(arg) -> {"null"}
    [] platform = "jni" /\ arg.kind = "texts" /\ ~CountsOther(arg)               -> {"bare"}
    [] OTHER                                                                     -> {}

Converts(arg) ==
  CASE arg.kind = "handle" -> {"value"}
    [] NoneCounted(arg)    -> {have["names"]}
    [] platform = "napi" /\ pending /\ arg.kind \in {"bytes", "texts"} /\ ~NoneCounted(arg)
                           -> {"lost"}
    [] OTHER               -> {"held"}

GetArgument ==
  /\ Is("get")
  /\ LET arg == Current.of
     IN \/ \E v \in Converts(arg) \cup Empty(arg) :
             ~omits /\ Go(arg.name, v) /\ UNCHANGED <<omits, pending, fault>>
        \/ \E v \in LeftOut(arg) \ {"fault"} :
             Go(arg.name, v) /\ omits' = Omitted(arg) /\ UNCHANGED <<pending, fault>>
        \/ \E v \in Refused(arg) :
             ~omits /\ Go(arg.name, v) /\ pending' = TRUE /\ UNCHANGED <<omits, fault>>
        \/ /\ "fault" \in LeftOut(arg)
           /\ fault' = "null converted"
           /\ UNCHANGED <<have, omits, pending>>
  /\ Next1

-----------------------------------------------------------------------------
(* The C function, and its result *)

Missing == {r \in DOMAIN have : have[r] \in {"null", "lost"}}
Hollow  == {r \in DOMAIN have : have[r] = "hollow"}

\* The arguments that the C function f reads without a test, and cannot.
CannotRead(f) == (CFunctions[f].reads \cap Missing) \cup (CFunctions[f].each \cap Hollow)

InvokeC ==
  /\ Is("invoke")
  /\ LET f == Current.of
     IN IF CannotRead(f) # {} /\ CFunctions[f].tests \cap Missing = {}
          THEN fault' = "null read" /\ UNCHANGED have
          ELSE \E v \in Answers(CFunctions[f], Missing) :
                 Go("result", v) /\ UNCHANGED fault
  /\ UNCHANGED <<omits, pending>>
  /\ Next1

\* Both platforms make "" or an empty array of null, but for the random bytes
\* of N-API, which are as many as were asked for.
BoxResult ==
  /\ Is("box")
  /\ fault' = IF platform = "napi" /\ name = "cryptoRand" /\ have["result"] = "null"
                THEN "null read" ELSE "none"
  /\ UNCHANGED <<have, omits, pending>>
  /\ Next1

\* A list is null, although there are elements of it to free.
ListIsNull(r) ==
  /\ r \in Lists
  /\ have[r] \in {"null", "lost"}
  /\ have[Counts(r)] \in {"held", "hollow", "lost", "given back"}

\* Nothing is done for what is null, but for such a list.
FreeResource ==
  /\ Is("free")
  /\ LET r == Current.of
     IN /\ fault' = CASE have[r] \in {"literal", "given back"} -> "wild free"
                      [] ListIsNull(r)                         -> "null read"
                      [] OTHER                                 -> "none"
        /\ Go(r, IF have[r] \in Owned THEN "given back" ELSE have[r])
  /\ UNCHANGED <<omits, pending>>
  /\ Next1

-----------------------------------------------------------------------------
(* Libraries *)

HoldResource ==
  /\ Is("hold")
  /\ \E v \in {"held", "null"} :
       /\ v = "held" /\ Current.by # {} => \E r \in Current.by : have[r] \in Owned
       /\ Go(Current.of, v)
  /\ UNCHANGED <<omits, pending, fault>>
  /\ Next1

\* Give back what a failure gives back, and end.
Fail ==
  /\ have' = [r \in DOMAIN have |->
                IF r \in Current.back /\ have[r] = "held" THEN "given back" ELSE have[r]]
  /\ position' = Len(program) + 1
  /\ UNCHANGED <<platform, name, program, omits, pending, fault>>

TakeResource ==
  /\ Is("take")
  /\ \/ Go(Current.of, "held") /\ Next1 /\ UNCHANGED <<omits, pending, fault>>
     \/ Fail

TryCall ==
  /\ Is("try")
  /\ \/ Next1 /\ UNCHANGED <<have, omits, pending, fault>>
     \/ Fail

CallNext ==
  \/ Begin
  \/ GetArgument
  \/ InvokeC
  \/ BoxResult
  \/ FreeResource
  \/ HoldResource
  \/ TakeResource
  \/ TryCall
  \/ Return

CallSpec == CallInit /\ [][CallNext]_callVars

-----------------------------------------------------------------------------
(* Properties *)

\* The variables have their types.
CallTypeOK ==
  /\ platform \in Platforms
  /\ name \in {"none"} \cup DOMAIN Calls(platform)
  /\ Running => /\ program = Calls(platform)[name]
                /\ position \in 1..(Len(program) + 1)
                /\ have \in [Resources(program) ->
                     {"none", "held", "null", "literal", "value", "bare", "hollow",
                      "lost", "given back"}]
  /\ omits \in BOOLEAN /\ pending \in BOOLEAN
  /\ fault \in {"none", "wild free", "null read", "null converted"}

\* What a call leaves behind although nothing failed, or because something
\* did: the list of headers and the form of a request, the handle of a
\* download whose file does not open, SHA-1's context, the random bytes and
\* the answer to a script's message on Android, and the lists and the path of
\* a request on HarmonyOS.
Leaks(p, n) ==
  CASE p = "native" /\ n = "httpRequest"    -> {"headerList", "cmime"}
    [] p = "native" /\ n = "httpDownload"   -> {"curl"}
    [] p = "native" /\ n = "hashSha1"       -> {"ctx"}
    [] p = "jni"  /\ n = "cryptoRandom"      -> {"result"}
    [] p = "jni"  /\ n = "js_msg_callback"   -> {"res"}
    [] p = "napi" /\ n = "netHttpRequest"    -> {"header_v", "form_field_v", "filePath"}
    [] OTHER                                 -> {}

\* Whichever of its steps fails, a call ends with nothing it took still held,
\* but for the leaks above; what is lost is an array of a call that threw.
GivesBackAll ==
  Ended =>
    /\ {r \in DOMAIN have : have[r] \in Owned} \subseteq Leaks(platform, name)
    /\ (\E r \in DOMAIN have : have[r] = "lost") => pending

\* A call frees only what it allocated, once: freeX of the literal that a C
\* function returns for a null argument needs a null handle or an exception,
\* and the only other literal is the one in place of a request's params.
FreesOnlyItsOwn ==
  fault = "wild free" =>
    \/ pending
    \/ \E i \in DOMAIN program : /\ program[i].do = "get"
                                 /\ program[i].of.kind = "handle"
                                 /\ have[program[i].of.name] = "null"
    \/ name = "netHttpRequest" /\ have["params"] = "literal"

\* No null is read: an argument that was left out or refused is tested or
\* copied as empty by the C function it reaches, a result that is null is
\* tested before it is read, and a list before its texts are freed.  Excepted
\* are a request's lists and the text of a decoder, refused, the random bytes
\* on HarmonyOS, and the mimes or data left out of a form that has names
\* (napi_init.cxx:205-209), which Index.d.ts:28-30 allows.
ReadsNoNull ==
  fault = "null read" =>
    \/ pending /\ name \in {"netHttpRequest", "jsonDecoderInit"}
    \/ platform = "napi" /\ name = "cryptoRand"
    \/ \E r \in {"mimes", "datas"} \cap DOMAIN have : have[r] = "null" /\ have["names"] # "null"

\* The functions HarmonyOS has under Android's name and maps to another C
\* function.
Crossed == {"storeKVReadFloat", "storeKVWriteFloat", "deviceOsVersion"}

\* A function that both platforms have under one name calls the same C
\* function on both, but for those above.
PlatformsAgree ==
  \A p \in Platforms \ {"native"}, q \in Platforms \ {"native"} :
    Running /\ platform = p /\ name \in DOMAIN Calls(q) \ Crossed =>
      Invoked(program) = Invoked(Calls(q)[name])
=============================================================================
