---------------------------- MODULE ScriptCalls ----------------------------
(***************************************************************************)
(* A script that calls the SDK through its library: the JSON text crosses  *)
(* into ScriptApi, handles cross as the decimal text of an address, and in *)
(* JS some functions run on a worker while the script goes on.             *)
(*                                                                         *)
(* A session keeps to one topic, since functions of different topics share *)
(* no object, and opens one object of each kind (both are bounds).  In the *)
(* topic "stream" it is the library that calls: DynXXZZipStream and        *)
(* DynXXZUnZipStream.  In the topic "data" the script converts one piece   *)
(* of data again and again.                                                *)
(*                                                                         *)
(* A script forgets a handle it closed, and that is all it is trusted      *)
(* with: it may pass the empty text of an open that failed, and close an   *)
(* object while a worker still has a call on it.  A call that dereferences *)
(* something that is no live object is the last step of a session.         *)
(***************************************************************************)
EXTENDS ScriptLibs

CONSTANTS Langs, Topics, MaxTrail

ASSUME ScriptAssumption ==
  /\ Langs \subseteq {"js", "lua"}
  /\ MaxTrail \in Nat

VARIABLES
  lang, topic,  \* the engine, and the part of the API the session is about
  held,    \* the text a script holds for a handle: "none", "empty", "address"
  object,  \* the object behind it: "none", "live", "deleted"
  job,     \* the call that runs on a worker
  last,    \* what became of the last call
  at,      \* where a stream of the library is
  data,    \* the script's data: what it is, and the conversions applied to it
  trail    \* history: how often the script converted it

session == <<lang, topic>>
vars == <<session, held, object, job, last, at, data, trail>>

-----------------------------------------------------------------------------
Functions ==
  [misc |-> DOMAIN MiscApi, http |-> DOMAIN HttpApi,
   sqlite |-> DOMAIN SqliteApi \cup DOMAIN QueryApi,
   kv |-> DOMAIN KvValueApi \cup DOMAIN KvKeyApi,
   coding |-> DOMAIN CodingApi, crypto |-> DOMAIN AesApi \cup DOMAIN RsaApi \cup DOMAIN HashApi,
   zip |-> DOMAIN ZipApi \cup DOMAIN UnzipApi \cup DOMAIN ZBytesApi,
   stream |-> {}, data |-> {}]

NoJob  == [phase |-> "none", fn |-> "none", json |-> None]
NoCall == [fn |-> "none", sent |-> None, outcome |-> "none", ignored |-> {}, touched |-> {}]

Init ==
  /\ lang \in Langs
  /\ topic \in Topics
  /\ held = [k \in Handles |-> "none"]
  /\ object = [k \in Handles |-> "none"]
  /\ job = NoJob
  /\ last = NoCall
  /\ at = "out"
  /\ data = [is |-> "string", of |-> <<>>]
  /\ trail = 0

-----------------------------------------------------------------------------
(* The text of a call                                                       *)

\* The wrapper's text, with hollow nodes for some arguments and some left out.
TextOf(wrap, hollow, out) ==
  [key \in DOMAIN wrap.sends |->
     LET type == wrap.sends[key]
     IN  CASE type \in Handles                     -> held[type]
           [] key \in out                          -> "absent"
           [] key \in hollow \ out                 -> Hollow[type]
           [] OTHER                                -> Full[type]]

\* Lua's JSON library has no text for NaN.
MayBeHollow(type) == type \in DOMAIN Hollow /\ (lang = "lua" => Hollow[type] # "null")

\* A script has a text to pass for every handle.
MayPass(wrap) ==
  \A key \in DOMAIN wrap.sends :
    wrap.sends[key] \in Handles => held[wrap.sends[key]] # "none"

Texts(wrap) ==
  LET keys == DOMAIN wrap.sends
  IN  {TextOf(wrap, hollow, out) : hollow \in SUBSET {k \in keys : MayBeHollow(wrap.sends[k])},
                                   out \in SUBSET {k \in keys : wrap.sends[k] = "option"}}

Image(json) == {json[key] : key \in DOMAIN json}

Reaches(wrap) == wrap.calls \in (IF lang = "js" THEN JsBound ELSE LuaBound)

\* The objects the C++ API dereferences for a call.
Touched(wrap, json) ==
  LET f == Api[wrap.calls]
  IN  IF Outcome(f, json) # "called" THEN {}
      ELSE {IF p.is = "object" THEN object[wrap.sends[p.key]] ELSE p.is :
              p \in {q \in PointersOf(f, json) : q.is # "null"}}

Called(fn, wrap, json) ==
  [fn |-> fn, sent |-> json,
   outcome |-> IF Reaches(wrap) THEN Outcome(Api[wrap.calls], json) ELSE "error",
   ignored |-> IF Reaches(wrap) THEN DOMAIN json \ Keys(Api[wrap.calls]) ELSE {},
   touched |-> IF Reaches(wrap) THEN Touched(wrap, json) ELSE {}]

-----------------------------------------------------------------------------
(* What a call does to the objects, and to the texts the script holds       *)

\* The C++ API returns a pointer or null; nothing is deleted behind an empty
\* text; a script forgets what it closed.
Effects(fn, wrap, json) ==
  LET runs == Reaches(wrap) /\ Outcome(Api[wrap.calls], json) = "called"
      makes(k) == runs /\ wrap.calls \in DOMAIN Opens /\ k = Opens[wrap.calls]
      deletes(k) == /\ runs /\ wrap.calls \in DOMAIN Deletes /\ k = Deletes[wrap.calls]
                    /\ "address" \in Image(json)
      opens(k) == fn \in DOMAIN Opens /\ k = Opens[fn]
      closes(k) == fn \in DOMAIN Deletes /\ k = Deletes[fn]
  IN  \E works \in {w \in BOOLEAN : w => \E k \in Handles : makes(k)} :
        /\ object' = [k \in Handles |-> CASE makes(k) /\ works -> "live"
                                          [] deletes(k)        -> "deleted"
                                          [] OTHER             -> object[k]]
        /\ held' = [k \in Handles |-> CASE opens(k)  -> IF works THEN "address" ELSE "empty"
                                        [] closes(k) -> "none"
                                        [] OTHER     -> held[k]]

\* One object of each kind.
MayCall(fn) ==
  fn \in DOMAIN Opens => held[Opens[fn]] # "address" /\ object[Opens[fn]] = "none"

-----------------------------------------------------------------------------
(* Actions                                                                  *)

\* Nothing is defined after a call on what is no object.
Defined == last.touched \subseteq {"live"}

Synchronous(fn) == lang = "lua" \/ fn \notin Async

Call(fn) ==
  LET wrap == Lib(lang)[fn] IN
  /\ Defined
  /\ fn \in Functions[topic]
  /\ Synchronous(fn)
  /\ MayCall(fn)
  /\ MayPass(wrap)
  /\ \E json \in Texts(wrap) :
       /\ last' = Called(fn, wrap, json)
       /\ Effects(fn, wrap, json)
  /\ UNCHANGED <<session, job, at, data, trail>>

\* newPromise: the text is copied into a task for a worker.
Submit(fn) ==
  LET wrap == Lib(lang)[fn] IN
  /\ Defined
  /\ fn \in Functions[topic]
  /\ ~Synchronous(fn)
  /\ MayCall(fn)
  /\ MayPass(wrap)
  /\ job = NoJob
  /\ \E json \in Texts(wrap) :
       job' = [phase |-> "queued", fn |-> fn, json |-> json]
  /\ last' = NoCall
  /\ UNCHANGED <<session, held, object, at, data, trail>>

\* The worker reads the text and calls the C++ API.
WorkerBegins ==
  /\ Defined
  /\ job.phase = "queued"
  /\ job' = [job EXCEPT !.phase = "running"]
  /\ last' = Called(job.fn, Lib(lang)[job.fn], job.json)
  /\ UNCHANGED <<session, held, object, at, data, trail>>

\* A slip: the record of the promise stays.
WorkerEndsLeaving ==
  /\ Defined
  /\ job.phase = "running"
  /\ job' = [job EXCEPT !.phase = "done"]
  /\ last' = Called(job.fn, Lib(lang)[job.fn], job.json)
  /\ Effects(job.fn, Lib(lang)[job.fn], job.json)
  /\ UNCHANGED <<session, at, data, trail>>

\* The object is used until the call is over, and then the promise is settled.
WorkerEnds ==
  /\ Defined
  /\ job.phase = "running"
  /\ job' = NoJob
  /\ last' = Called(job.fn, Lib(lang)[job.fn], job.json)
  /\ Effects(job.fn, Lib(lang)[job.fn], job.json)
  /\ UNCHANGED <<session, at, data, trail>>

-----------------------------------------------------------------------------
(* DynXXZZipStream and DynXXZUnZipStream of scripts/JS/DynXX.js             *)

ZFn ==
  [zip   |-> [init |-> "z_zip_init", input |-> "z_zip_input", process |-> "z_zip_process_do",
              finished |-> "z_zip_process_finished", release |-> "z_zip_release"],
   unzip |-> [init |-> "z_unzip_init", input |-> "z_unzip_input", process |-> "z_unzip_process_do",
              finished |-> "z_unzip_process_finished", release |-> "z_unzip_release"]]

\* A slip: a failed input returns without the release.
FollowingOut ==
  [input |-> {"process", "over"}, process |-> {"finished", "release"},
   finished |-> {"process", "input", "release"}, release |-> {"over"}]

\* Where the stream goes on after a call; a call that fails goes to the release.
Following ==
  [input |-> {"process", "release"}, process |-> {"finished", "release"},
   finished |-> {"process", "input", "release"}, release |-> {"over"}]

StreamCall(z, step, next) ==
  LET fn == ZFn[z][step]
      wrap == Lib(lang)[fn]
  IN  /\ \E json \in Texts(wrap) :
           /\ Image(json) \cap {"null", "absent"} = {}
           /\ step \in {"input", "process"} /\ Outcome(Api[wrap.calls], json) # "called" =>
                next = "release"
           /\ last' = Called(fn, wrap, json)
           /\ Effects(fn, wrap, json)
      /\ at' = next
      /\ UNCHANGED <<session, job, data, trail>>

\* The library does not look at what init returned.
StreamInit(z) ==
  /\ topic = "stream" /\ lang = "js"
  /\ at = "out"
  /\ StreamCall(z, "init", "input")

StreamStep(z) ==
  /\ Defined
  /\ at \in DOMAIN Following
  /\ held[z] # "none"
  /\ \E next \in Following[at] : StreamCall(z, at, next)

\* The script's own functions that read and write the data may throw.
StreamThrows ==
  /\ Defined
  /\ at \in {"input", "finished"}
  /\ at' = "thrown"
  /\ UNCHANGED <<session, held, object, job, last, data, trail>>

-----------------------------------------------------------------------------
(* Data that is converted                                                   *)

Undoes(fn) ==
  CASE fn = "coding_bytes2str"       -> "coding_str2bytes"
    [] fn = "coding_hex_str2bytes"   -> "coding_hex_bytes2str"
    [] fn = "crypto_aes_decrypt"     -> "crypto_aes_encrypt"
    [] fn = "crypto_aes_gcm_decrypt" -> "crypto_aes_gcm_encrypt"
    [] fn = "crypto_rsa_decrypt"     -> "crypto_rsa_encrypt"
    [] fn = "crypto_base64_decode"   -> "crypto_base64_encode"
    [] fn = "z_bytes_unzip"          -> "z_bytes_zip"
    [] OTHER                         -> "none"

Encoders == {"coding_str2bytes", "coding_hex_bytes2str", "crypto_aes_encrypt",
             "crypto_aes_gcm_encrypt", "crypto_rsa_encrypt", "crypto_base64_encode",
             "z_bytes_zip"}
Decoders == {fn \in DOMAIN Api : Undoes(fn) \in Encoders}

\* The C++ API: a decoder takes back its encoder and fails on anything else.
Convert(fn, of) ==
  IF fn \in Encoders THEN Append(of, fn)
  ELSE IF of # <<>> /\ of[Len(of)] = Undoes(fn) THEN SubSeq(of, 1, Len(of) - 1)
  ELSE <<"failed">>

\* The data as a script passes it: an array of bytes, or a text.
Passed(d) == CASE d.is = "bytes" -> "array" [] d.is = "string" -> "text"

\* The wrapper's text with every other argument given: keys, flags and sizes.
Filled(wrap, d) ==
  [key \in DOMAIN wrap.sends |->
     IF key \in {"inBytes", "str"} THEN Passed(d)
     ELSE IF wrap.sends[key] = "array" THEN "array" ELSE "number"]

\* What a script has in hand: a parsed array of bytes, or a text, which may be
\* the text of such an array.
InHand(wrap) ==
  CASE Api[wrap.calls].gives = "text"                           -> "string"
    [] Api[wrap.calls].gives = "bytes" /\ wrap.back = "parsed"  -> "bytes"
    [] Api[wrap.calls].gives = "bytes" /\ wrap.back # "parsed"  -> "string"

Applied(fn, d) ==
  LET wrap == Lib(lang)[fn]
      called == Outcome(Api[wrap.calls], Filled(wrap, d)) = "called"
  IN  [is |-> InHand(wrap),
       of |-> IF called THEN Convert(wrap.calls, d.of) ELSE <<"failed">>]

\* A script encodes, or decodes what it encoded last.
Apply(fn) ==
  /\ topic = "data"
  /\ trail < MaxTrail
  /\ data.of # <<"failed">>
  /\ IF fn \in Encoders
       THEN (fn = "coding_str2bytes") <=> (data.is = "string")
       ELSE data.of # <<>> /\ data.of[Len(data.of)] = Undoes(fn)
  /\ data' = Applied(fn, data)
  /\ trail' = trail + 1
  /\ last' = [NoCall EXCEPT !.fn = fn, !.outcome = IF data'.of = <<"failed">> THEN "failed" ELSE "called"]
  /\ UNCHANGED <<session, held, object, job, at>>

-----------------------------------------------------------------------------
ScriptStep == \E fn \in Functions[topic] \cap DOMAIN Lib(lang) : Call(fn) \/ Submit(fn)
WorkerStep == WorkerBegins \/ WorkerEnds
Stream     == StreamThrows \/ \E z \in {"zip", "unzip"} : StreamInit(z) \/ StreamStep(z)
DataStep   == \E fn \in Encoders \cup Decoders : Apply(fn)

Next == ScriptStep \/ WorkerStep \/ Stream \/ DataStep

Spec == Init /\ [][Next]_vars

-----------------------------------------------------------------------------
(* Properties                                                               *)

\* The session's variables have the values they are meant to have.
TypeOK ==
  /\ lang \in Langs /\ topic \in Topics
  /\ held \in [Handles -> {"none", "empty", "address"}]
  /\ object \in [Handles -> {"none", "live", "deleted"}]
  /\ job.phase \in {"none", "queued", "running"}
  /\ last.outcome \in {"none", "called", "default", "threw", "error", "failed"}
  /\ last.touched \subseteq {"none", "live", "deleted", "wild"}
  /\ at \in {"out", "over", "thrown"} \cup DOMAIN Following
  /\ data.is \in {"string", "bytes"}
  /\ trail \in 0 .. MaxTrail

\* What is known not to arrive: the scripts send no padding, and a boolean where
\* ScriptAPI.cxx reads a number; Lua calls two functions without their text.
Rsa == {"crypto_rsa_gen_key", "crypto_rsa_encrypt", "crypto_rsa_decrypt"}
Mute(fn) ==
  \/ fn \in Rsa
  \/ lang = "lua" /\ fn \in {"get_version", "root_path", "z_bytes_zip"}

AllGiven(json) == Image(json) \subseteq {"number", "text", "address", "array", "bool"}

\* A call whose arguments are all given reaches the C++ API with every one of
\* them: the three layers name and type the keys of the JSON text alike.
ArgumentsArrive ==
  topic # "data" /\ last.fn # "none" /\ AllGiven(last.sent) /\ ~Mute(last.fn) =>
    last.outcome = "called" /\ last.ignored = {}

\* The exception of ScriptAPI.cxx leaves it only for a number that is none, of
\* all the arguments a script may leave out or leave empty.
ThrowsOnlyOnNonNumbers ==
  last.outcome = "threw" => last.fn = "crypto_rsa_gen_key" \/ "null" \in Image(last.sent)

\* A call that dereferences what is no live object passed the empty text of an
\* open that failed, or runs on a worker (JSBridge.cxx:82-104) and lost its
\* object to a close on the way: the text of an address is that address again,
\* in every function and in both engines.
DeadOnlyIfEmptyOrClosed ==
  /\ "none" \notin last.touched
  /\ "wild" \in last.touched => "empty" \in Image(last.sent)
  /\ "deleted" \in last.touched => lang = "js" /\ last.fn \in Async

\* A query that a script starts on a connection it has open runs on that
\* connection: scripts/JS/biz.ts:136-152 starts one and then closes the
\* connection.
QueriesTheOpenConnection ==
  last.fn = "store_sqlite_query_do" => "deleted" \notin last.touched

\* A stream of the library that returned, after a success or a failure at any of its
\* calls, has released its object.
StreamReleases == at = "over" => \A z \in Handles : object[z] # "live"

\* The data that fn makes is known to differ from what its name says: JS returns the
\* text of the zipped bytes without parsing it, Lua unzips to zip.
Unlike(fn) == fn \in Rsa \cup {"z_bytes_zip", "z_bytes_unzip"}
Kind(of) ==
  IF of = <<>> \/ of[Len(of)] = "coding_hex_bytes2str" THEN "string" ELSE "bytes"

\* A conversion adds to what was done to the data, the one that undoes it takes
\* it back, and the script gets it as the type that the next conversion takes.
RoundTrips ==
  [][trail' # trail /\ ~Unlike(last'.fn) /\ (\A i \in DOMAIN data.of : ~Unlike(data.of[i])) =>
       /\ data'.of = IF last'.fn \in Encoders THEN Append(data.of, last'.fn)
                                              ELSE SubSeq(data.of, 1, Len(data.of) - 1)
       /\ data'.is = Kind(data'.of)]_vars
=============================================================================
