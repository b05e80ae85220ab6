-------------------------------- MODULE Zip --------------------------------
(***************************************************************************)
(* DynXX::Core::Z (src/core/zip/Zip.cxx): zip and unzip of a byte array, a *)
(* C FILE or a C++ stream.  process reads the input in chunks of           *)
(* bufferSize, the last of them shorter, hands each to zlib and calls zlib *)
(* until it leaves room in the output buffer, writing what it produces.    *)
(*                                                                         *)
(* Data are counted, not spelled out.  zlib itself is external: deflate    *)
(* and inflate below are what its manual promises and process relies on.   *)
(***************************************************************************)
EXTENDS Integers

CONSTANTS Source,     \* where the input comes from: "bytes", "stream"
          Size,       \* sizes of inputs
          BufferSize, \* bufferSize
          MaxYield,   \* bound: bytes of output one byte of input is worth
          MaxTrailer  \* bound: bytes deflate adds at the end

ASSUME BoundsAssumption ==
  /\ Source \subseteq {"bytes", "stream"}
  /\ BufferSize \in Nat \ {0}      \* ZBase's constructor rejects 0
  /\ Size \subseteq Nat \ {0}      \* dynxxZBytesZip and -Unzip reject an empty input
  /\ MaxYield \in Nat /\ MaxTrailer \in Nat \ {0}

VARIABLES
  source,    \* the input: its kind,
  size,      \*   its length,
  codec,     \*   "zip" or "unzip",
  complete,  \*   and whether it is complete: unzip may be given less
             \*   than a compressed stream,
  tail,      \*   or more: bytes that follow the stream's end
  pos,       \* how much of it was read
  availIn,   \* zs.avail_in
  inFinish,  \* inFinish, and inputFinished of process
  availOut,  \* zs.avail_out
  ret,       \* what zlib returned: "Z_OK", "Z_STREAM_END" or "error"
  held,      \* output zlib owes for the input it has consumed
  ended,     \* zlib reached the end of the compressed stream
  pc,        \* where process is: "read", "process", "write", "done"
  result     \* what it returns

inputVars == <<source, size, codec, complete, tail>>
zsVars    == <<availIn, availOut, ret, held, ended>>
vars      == <<inputVars, pos, inFinish, zsVars, pc, result>>

Init ==
  /\ source \in Source
  /\ size \in Size
  /\ codec \in {"zip", "unzip"}
  /\ complete \in IF codec = "zip" THEN {TRUE} ELSE BOOLEAN
  /\ tail \in IF codec = "unzip" /\ complete THEN 0..(size - 1) ELSE {0}
  /\ pos = 0
  /\ availIn = 0
  /\ inFinish = FALSE
  /\ availOut = 0
  /\ ret = "Z_OK"
  /\ held = 0
  /\ ended = FALSE
  /\ pc = "read"
  /\ result = FALSE

Min(a, b) == IF a < b THEN a ELSE b

Finish(r) == pc' = "done" /\ result' = r
GoTo(to) == pc' = to /\ UNCHANGED result

-----------------------------------------------------------------------------
(* Reading *)

\* Slips: the position stays where it is, or moves by a full buffer.
Stuck(n) == pos
AdvancedFull(n) == pos + BufferSize
\* The position after reading n bytes.
Advanced(n) == pos + n

\* A slip: any chunk that is not larger than the buffer is the last.
LastChunkFull(n) == n <= BufferSize
LastChunk(n) == n < BufferSize

\* readF of processBytes, and input, which rejects an empty chunk.
ReadBytes ==
  LET n == Min(BufferSize, size - pos)
  IN /\ source = "bytes"
     /\ pos' = Advanced(n)
     /\ IF n = 0
          THEN Finish(FALSE) /\ UNCHANGED <<inFinish, availIn>>
          ELSE GoTo("process") /\ inFinish' = LastChunk(n) /\ availIn' = Min(n, BufferSize)

\* readF of processCFILE and processCxxStream read to the address of an empty
\* vector, and hand on the vector, still empty.  The program may not survive
\* the former.
ReadStream ==
  /\ source = "stream"
  /\ \/ Finish(FALSE)
     \/ pc' = "crashed" /\ UNCHANGED result
  /\ UNCHANGED <<pos, inFinish, availIn>>

Read ==
  /\ pc = "read"
  /\ ReadBytes \/ ReadStream
  /\ UNCHANGED <<inputVars, availOut, ret, held, ended>>

-----------------------------------------------------------------------------
(* zlib (external).  A call consumes c bytes and puts o bytes out; it       *)
(* leaves input only when it has no room, or reached the end of the stream. *)

\* deflate may keep what it consumed until it is told to finish, with
\* inFinish; then it ends with a trailer.
Deflate ==
  \E c \in 0..availIn, yield \in 0..(MaxYield * availIn), trailer \in 1..MaxTrailer :
    LET last == inFinish /\ c = availIn
        owed == held + (IF c = 0 THEN 0 ELSE yield)
                     + (IF last /\ availIn > 0 THEN trailer ELSE 0)
    IN \E o \in 0..Min(owed, BufferSize) :
         /\ c < availIn => o = BufferSize
         /\ inFinish => o = Min(owed, BufferSize)
         /\ availIn' = availIn - c
         /\ availOut' = BufferSize - o
         /\ held' = owed - o
         /\ ended' = (last /\ owed = o)
         /\ ret' = IF last /\ owed = o THEN "Z_STREAM_END" ELSE "Z_OK"

\* The input inflate may still consume: none past the end of the stream.
InStream == IF ended THEN 0 ELSE Min(availIn, size - tail - (pos - availIn))

\* inflate puts out all it can.  At the end of a complete stream it has
\* checked the trailer, and goes no further; it fails on corrupt data, and when
\* it is called before the end and there is nothing it can do.
Inflate ==
  \E c \in 0..InStream, yield \in 0..(MaxYield * availIn) :
    LET owed == held + (IF c = 0 THEN 0 ELSE yield)
        o    == Min(owed, BufferSize)
        atEnd == complete /\ o = owed /\ (ended \/ pos - (availIn - c) = size - tail)
    IN /\ c < availIn => o = BufferSize \/ atEnd
       /\ availIn' = availIn - c
       /\ availOut' = BufferSize - o
       /\ held' = owed - o
       /\ ended' = atEnd
       /\ ret' \in IF atEnd THEN {"Z_STREAM_END"}
                   ELSE IF c = 0 /\ o = 0 THEN {"error"}
                   ELSE IF complete THEN {"Z_OK"} ELSE {"Z_OK", "error"}

-----------------------------------------------------------------------------
(* process *)

\* processDo's answer is empty: an error, or no output.
Empty == ret' = "error" \/ availOut' = BufferSize

ProcessDo ==
  /\ pc = "process"
  /\ IF codec = "zip" THEN Deflate ELSE Inflate
  /\ IF Empty THEN Finish(FALSE) ELSE GoTo("write")
  /\ UNCHANGED <<inputVars, pos, inFinish>>

\* A slip: one call of zlib per chunk.
FinishedAlways == TRUE
\* processFinished: zlib left room in the output buffer.
ProcessFinished == availOut # 0

\* writeF, and the conditions of the two loops.
Write ==
  /\ pc = "write"
  /\ IF ~ProcessFinished THEN GoTo("process")
     ELSE IF ~inFinish THEN GoTo("read")
     ELSE Finish(TRUE)
  /\ UNCHANGED <<inputVars, pos, inFinish, zsVars>>

Stopped == pc \in {"done", "crashed"} /\ UNCHANGED vars

Next == Read \/ ProcessDo \/ Write \/ Stopped

Spec == Init /\ [][Next]_vars

\* process runs on the caller's thread.
FairSpec == Spec /\ WF_vars(Read \/ ProcessDo \/ Write)

-----------------------------------------------------------------------------
(* Properties *)

\* The type of every variable; the position never leaves the input and no
\* chunk is larger than the buffers.
TypeOK ==
  /\ pos \in 0..size
  /\ availIn \in 0..BufferSize
  /\ availOut \in 0..BufferSize
  /\ inFinish \in BOOLEAN
  /\ ret \in {"Z_OK", "Z_STREAM_END", "error"}
  /\ held \in Nat
  /\ ended \in BOOLEAN
  /\ pc \in {"read", "process", "write", "done", "crashed"}
  /\ result \in BOOLEAN

\* When process reports success all input was read, all of it that is not
\* after the stream's end was consumed, all output was written, and the
\* compressed stream has its end, or had it if it was complete (Zip.cxx:35-65).
SuccessIsComplete ==
  pc = "done" /\ result =>
    /\ pos = size /\ availIn <= tail /\ held = 0
    /\ complete => ended

\* A chunk is read only when zlib has consumed the chunks before it, which the
\* next input would overwrite, or has reached the end (Zip.cxx:177-181).
ChunkConsumed == [][pos' # pos => availIn = 0 \/ ended]_vars

\* process ends.
Terminates == <>(pc \in {"done", "crashed"})
=============================================================================
