----------------------------- MODULE CallSteps -----------------------------
(***************************************************************************)
(* The steps of a call that takes memory and gives it back, and the        *)
(* functions of the platform bindings as sequences of them.                *)
(***************************************************************************)
EXTENDS CApi, Sequences

\* Arguments of a binding.  A "text", "bytes" or "texts" is converted and is
\* to be released; a "handle" is an address that the C API tests, 0 or not.
Arg(id, kind) == [name |-> id, kind |-> kind, null |-> "never"]
Str(id)    == Arg(id, "text")
Bin(id)    == Arg(id, "bytes")
Strs(id)   == Arg(id, "texts")
Handle(id) == Arg(id, "handle")
\* The caller may leave it out, and the binding tests it;
Optional(arg) == [arg EXCEPT !.null = "tested"]
\* the caller may leave it out, as its declaration says, and nothing tests it;
Untested(arg) == [arg EXCEPT !.null = "untested"]
\* left out, it is the literal "".
OrEmpty(arg)  == [arg EXCEPT !.null = "literal"]

\* The lists of a request.  There are as many mimes and data as names, whatever
\* the caller passes.
Lists     == {"headers", "names", "mimes", "datas"}
Counts(r) == IF r \in {"mimes", "datas"} THEN "names" ELSE r

Step(do, of) == [do |-> do, of |-> of, back |-> {}, by |-> {}]

Get(arg)    == Step("get", arg)
Invoke(f)   == Step("invoke", f)
Box         == Step("box", "result")      \* copy the result to the platform
Free(r)     == Step("free", r)            \* of a list, the text of each element
Hold(r)     == Step("hold", r)            \* it may be null, and the call goes on
HoldBy(r, rs) == [Hold(r) EXCEPT !.by = rs] \* null if none of rs is there
\* A step that may fail: then the call gives back what is in back, and ends.
Try(back)     == [Step("try", "nothing") EXCEPT !.back = back]
Take(r, back) == [Step("take", r) EXCEPT !.back = back]

Gets(args) == [i \in DOMAIN args |-> Get(args[i])]

\* A slip: the binding releases what it converted, but the last argument.
ReleasesButLast(args) == [i \in 1..(Len(args) - 1) |-> Free(args[i].name)]
Releases(args) == [i \in DOMAIN args |-> Free(args[i].name)]

\* The call of f, and what becomes of its result.
Calling(f) ==
  IF CFunctions[f].gives = "value" THEN <<Invoke(f)>>
                                   ELSE <<Invoke(f), Box, Free("result")>>

\* A binding of the C function f that gives back all it took: handles are its
\* arguments that come first, and args those that it converts.
BindsOn(handles, f, args) == Gets(handles) \o Gets(args) \o Calling(f) \o Releases(args)
Binds(f, args) == BindsOn(<<>>, f, args)

\* A binding that leaves the result.
BindsKeeping(f) == <<Invoke(f), Box>>

\* What most of the functions of a store take.
Conn   == Handle("conn")
Result == Handle("query_result")

Invoked(program) == {program[i].of : i \in {j \in DOMAIN program : program[j].do = "invoke"}}
=============================================================================
