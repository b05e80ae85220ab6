----------------------------- MODULE ZipProofs -----------------------------
(***************************************************************************)
(* Theorems about Zip, for every size of input and of buffers and every    *)
(* yield of zlib.  IInv is the inductive invariant.                        *)
(***************************************************************************)
EXTENDS Zip, TLAPS

\* The input does not change, and what zip is given is always complete and no
\* more than that.
InputInv ==
  /\ size \in Nat
  /\ tail \in Nat
  /\ codec \in {"zip", "unzip"}
  /\ complete \in BOOLEAN
  /\ codec = "zip" => complete
  /\ codec = "zip" \/ ~complete => tail = 0

\* Only the last chunk is short, and it is the end of the input.
ChunkInv == inFinish => pos = size

\* zlib has consumed the chunk, or come to the stream's end, when process asks
\* for the next one.
ReadInv == pc = "read" => availIn = 0 \/ ended

\* At the end of the stream all output is written.
EndInv == ended => held = 0

\* When zlib left room it consumed all it had of the stream, and it owes nothing
\* if it may not keep anything back.
RoomInv ==
  pc = "write" /\ availOut # 0 =>
    /\ availIn = 0 \/ ended
    /\ inFinish => availIn <= tail
    /\ inFinish \/ codec = "unzip" => held = 0
    /\ inFinish /\ complete => ended

IInv ==
  /\ TypeOK
  /\ InputInv
  /\ ChunkInv
  /\ ReadInv
  /\ EndInv
  /\ RoomInv
  /\ SuccessIsComplete

-----------------------------------------------------------------------------
\* The initial state satisfies the invariant.
LEMMA InitIInv == Init => IInv
<1> SUFFICES ASSUME Init PROVE IInv
  OBVIOUS
<1>1. size \in Nat /\ BufferSize \in Nat \ {0}
  BY BoundsAssumption DEF BoundsAssumption, Init
<1>2. TypeOK
  <2>1. pos = 0 /\ availIn = 0 /\ availOut = 0 /\ held = 0
    BY DEF Init
  <2>2. /\ inFinish \in BOOLEAN /\ ended \in BOOLEAN /\ result \in BOOLEAN
        /\ ret \in {"Z_OK", "Z_STREAM_END", "error"}
        /\ pc \in {"read", "process", "write", "done", "crashed"}
    BY ZenonT(20) DEF Init
  <2>3. pos \in 0..size /\ availIn \in 0..BufferSize /\ availOut \in 0..BufferSize /\ held \in Nat
    BY <1>1, <2>1
  <2> QED
    BY <2>2, <2>3 DEF TypeOK
<1>3. InputInv
  <2>1. tail \in Nat
    BY <1>1 DEF Init
  <2>2. CASE codec = "zip"
    BY <1>1, <2>1, <2>2 DEF Init, InputInv
  <2>3. CASE codec = "unzip"
    BY <1>1, <2>1, <2>3 DEF Init, InputInv
  <2> QED BY <2>2, <2>3 DEF Init
<1>4. ChunkInv /\ ReadInv /\ EndInv /\ RoomInv /\ SuccessIsComplete
  BY DEF Init, ChunkInv, ReadInv, EndInv, RoomInv, SuccessIsComplete
<1> QED
  BY <1>2, <1>3, <1>4 DEF IInv

\* What a call of deflate leaves behind.
LEMMA DeflateFacts ==
  ASSUME TypeOK, Deflate
  PROVE  /\ availIn' \in 0..BufferSize /\ availOut' \in 0..BufferSize
         /\ held' \in Nat /\ ended' \in BOOLEAN
         /\ ret' \in {"Z_OK", "Z_STREAM_END", "error"}
         /\ ended' => held' = 0
         /\ availOut' # 0 => availIn' = 0
         /\ availOut' # 0 /\ inFinish => held' = 0 /\ ended'
<1>1. PICK c \in 0..availIn, yield \in 0..(MaxYield * availIn), trailer \in 1..MaxTrailer :
        LET last == inFinish /\ c = availIn
            owed == held + (IF c = 0 THEN 0 ELSE yield)
                         + (IF last /\ availIn > 0 THEN trailer ELSE 0)
        IN \E o \in 0..Min(owed, BufferSize) :
             /\ c < availIn => o = BufferSize
             /\ inFinish => o = Min(owed, BufferSize)
             /\ availIn' = availIn - c
             /\ availOut' = BufferSize - o
             /\ held' = owed - o
             /\ ended' = (last /\ owed = o)
             /\ ret' = IF last /\ owed = o THEN "Z_STREAM_END" ELSE "Z_OK"
  BY DEF Deflate
<1> DEFINE last == inFinish /\ c = availIn
           owed == held + (IF c = 0 THEN 0 ELSE yield)
                        + (IF last /\ availIn > 0 THEN trailer ELSE 0)
<1>2. PICK o \in 0..Min(owed, BufferSize) :
             /\ c < availIn => o = BufferSize
             /\ inFinish => o = Min(owed, BufferSize)
             /\ availIn' = availIn - c
             /\ availOut' = BufferSize - o
             /\ held' = owed - o
             /\ ended' = (last /\ owed = o)
             /\ ret' = IF last /\ owed = o THEN "Z_STREAM_END" ELSE "Z_OK"
  BY <1>1
<1>3. /\ availIn \in 0..BufferSize /\ held \in Nat /\ BufferSize \in Nat \ {0}
      /\ c \in 0..availIn /\ inFinish \in BOOLEAN
  BY BoundsAssumption DEF BoundsAssumption, TypeOK
<1>4. yield \in Nat /\ trailer \in Nat
  OBVIOUS
<1>5. owed \in Nat
  BY <1>3, <1>4
<1> HIDE DEF owed
<1>6. o \in Nat /\ o <= owed /\ o <= BufferSize
  BY <1>3, <1>5 DEF Min
<1>7. inFinish /\ o # BufferSize => o = owed
  BY <1>2, <1>3, <1>5, <1>6 DEF Min
<1>8. last \in BOOLEAN /\ (availOut' # 0 => o # BufferSize)
  BY <1>2, <1>3, <1>6
<1>9. (ended' <=> last /\ owed = o) /\ (ended' => held' = 0)
  <2>1. ended' = (last /\ owed = o)
    BY <1>2
  <2>2. owed = o => held' = 0
    BY <1>2, <1>5, <1>6
  <2> HIDE DEF last
  <2> QED
    BY <2>1, <2>2
<1>10. availOut' # 0 => availIn' = 0
  BY <1>2, <1>3, <1>8
<1>11. availOut' # 0 /\ inFinish => held' = 0 /\ ended'
  <2>1. ASSUME availOut' # 0, inFinish PROVE last /\ owed = o
    BY <1>2, <1>3, <1>7, <1>8, <2>1
  <2> QED
    BY <1>9, <2>1
<1>12. /\ availIn' \in 0..BufferSize /\ availOut' \in 0..BufferSize
       /\ held' \in Nat /\ ended' \in BOOLEAN
       /\ ret' \in {"Z_OK", "Z_STREAM_END", "error"}
  BY <1>2, <1>3, <1>5, <1>6, <1>8
<1> QED
  BY <1>9, <1>10, <1>11, <1>12

\* What a call of inflate leaves behind.
LEMMA InflateFacts ==
  ASSUME TypeOK, InputInv, EndInv, Inflate
  PROVE  /\ availIn' \in 0..BufferSize /\ availOut' \in 0..BufferSize
         /\ held' \in Nat /\ ended' \in BOOLEAN
         /\ ret' \in {"Z_OK", "Z_STREAM_END", "error"}
         /\ ended' => held' = 0
         /\ availOut' # 0 => (availIn' = 0 \/ ended') /\ held' = 0
         /\ availOut' # 0 /\ complete /\ pos = size => ended'
         /\ availOut' \notin {0, BufferSize} /\ pos = size => availIn' <= tail
<1>1. PICK c \in 0..InStream, yield \in 0..(MaxYield * availIn) :
        LET owed == held + (IF c = 0 THEN 0 ELSE yield)
            o    == Min(owed, BufferSize)
            atEnd == complete /\ o = owed /\ (ended \/ pos - (availIn - c) = size - tail)
        IN /\ c < availIn => o = BufferSize \/ atEnd
           /\ availIn' = availIn - c
           /\ availOut' = BufferSize - o
           /\ held' = owed - o
           /\ ended' = atEnd
           /\ ret' \in IF atEnd THEN {"Z_STREAM_END"}
                       ELSE IF c = 0 /\ o = 0 THEN {"error"}
                       ELSE IF complete THEN {"Z_OK"} ELSE {"Z_OK", "error"}
  BY DEF Inflate
<1> DEFINE owed == held + (IF c = 0 THEN 0 ELSE yield)
           o    == Min(owed, BufferSize)
           atEnd == complete /\ o = owed /\ (ended \/ pos - (availIn - c) = size - tail)
<1>2. /\ c < availIn => o = BufferSize \/ atEnd
      /\ availIn' = availIn - c
      /\ availOut' = BufferSize - o
      /\ held' = owed - o
      /\ ended' = atEnd
      /\ ret' \in {"Z_OK", "Z_STREAM_END", "error"}
  BY <1>1
<1>3. /\ availIn \in 0..BufferSize /\ held \in Nat /\ BufferSize \in Nat \ {0}
      /\ pos \in 0..size /\ size \in Nat /\ tail \in Nat /\ complete \in BOOLEAN
      /\ ended \in BOOLEAN /\ (~complete => tail = 0)
  BY BoundsAssumption DEF BoundsAssumption, TypeOK, InputInv
<1>4. /\ c \in 0..availIn /\ yield \in Nat
      /\ ended => c = 0
      /\ ~ended => c <= size - tail - (pos - availIn)
  BY <1>3 DEF InStream, Min
<1>5. owed \in Nat /\ (ended => owed = 0)
  BY <1>3, <1>4 DEF EndInv
<1> HIDE DEF owed
<1>6. o \in Nat /\ o <= owed /\ o <= BufferSize /\ (o # BufferSize => o = owed)
  BY <1>3, <1>5 DEF Min
<1> HIDE DEF o
<1>7. /\ availIn' \in 0..BufferSize /\ availOut' \in 0..BufferSize
      /\ held' \in Nat /\ ended' \in BOOLEAN
      /\ ended' => held' = 0
      /\ availOut' # 0 => (availIn' = 0 \/ ended') /\ held' = 0
  BY <1>2, <1>3, <1>4, <1>5, <1>6
<1>8. ASSUME availOut' # 0, complete, pos = size PROVE ended'
  <2>1. o = owed /\ (c = availIn \/ atEnd)
    BY <1>2, <1>3, <1>4, <1>6, <1>8
  <2>2. c = availIn /\ ~ended => pos - (availIn - c) = size - tail
    BY <1>3, <1>4, <1>8
  <2> QED
    BY <1>2, <1>8, <2>1, <2>2
<1>9. ASSUME availOut' \notin {0, BufferSize}, pos = size PROVE availIn' <= tail
  <2>1. ~ended /\ o = owed /\ (c = availIn \/ atEnd)
    BY <1>2, <1>3, <1>4, <1>5, <1>6, <1>9
  <2>2. atEnd => availIn - c = tail
    BY <1>3, <1>4, <1>9, <2>1
  <2> QED
    BY <1>2, <1>3, <1>4, <2>1, <2>2
<1> QED
  BY <1>2, <1>7, <1>8, <1>9

-----------------------------------------------------------------------------
\* Every step preserves the invariant, and reads no chunk too early.
LEMMA StepIInv == IInv /\ [Next]_vars => IInv'
<1> SUFFICES ASSUME IInv, [Next]_vars PROVE IInv'
  OBVIOUS
<1> USE DEF IInv
<1>1. BufferSize \in Nat \ {0}
  BY BoundsAssumption DEF BoundsAssumption
<1>2. CASE Read
  <2>1. InputInv'
    BY <1>2 DEF Read, inputVars, InputInv
  <2>2. CASE ReadBytes
    <3> DEFINE n == Min(BufferSize, size - pos)
    <3>1. /\ n \in Nat /\ n <= BufferSize /\ n <= size - pos
          /\ n < BufferSize => n = size - pos
      BY <1>1 DEF Min, TypeOK, InputInv
    <3>2. /\ pos' = pos + n
          /\ IF n = 0
               THEN Finish(FALSE) /\ UNCHANGED <<inFinish, availIn>>
               ELSE GoTo("process") /\ inFinish' = LastChunk(n) /\ availIn' = Min(n, BufferSize)
      BY <2>2 DEF ReadBytes, Advanced
    <3>3. pos' \in 0..size /\ UNCHANGED <<size, availOut, ret, held, ended>>
      BY <1>2, <3>1, <3>2 DEF TypeOK, InputInv, Read, inputVars
    <3> HIDE DEF n
    <3>4. CASE n = 0
      <4>1. pos' = pos /\ pc' = "done" /\ result' = FALSE /\ UNCHANGED <<inFinish, availIn>>
        BY <3>1, <3>2, <3>4 DEF Finish, TypeOK
      <4> QED
        BY <2>1, <3>3, <4>1
        DEF TypeOK, ChunkInv, ReadInv, EndInv, RoomInv, SuccessIsComplete
    <3>5. CASE n # 0
      <4>1. /\ pc' = "process" /\ UNCHANGED result
            /\ inFinish' = (n < BufferSize) /\ availIn' = n
        BY <1>1, <3>1, <3>2, <3>5 DEF GoTo, LastChunk, Min
      <4>2. TypeOK'
        BY <1>1, <3>1, <3>3, <4>1 DEF TypeOK
      <4>3. ChunkInv'
        <5>1. n < BufferSize => pos' = size'
          BY <3>1, <3>2, <3>3 DEF TypeOK, InputInv
        <5> QED BY <4>1, <5>1 DEF ChunkInv
      <4> QED
        BY <2>1, <3>3, <4>1, <4>2, <4>3 DEF ReadInv, EndInv, RoomInv, SuccessIsComplete
    <3> QED
      BY <3>4, <3>5
  <2>3. CASE ReadStream
    <3>1. /\ pc' \in {"done", "crashed"} /\ (pc' = "done" => result' = FALSE)
          /\ result' \in BOOLEAN
          /\ UNCHANGED <<size, pos, inFinish, availIn, availOut, ret, held, ended>>
      BY <1>2, <2>3 DEF Read, ReadStream, Finish, inputVars, TypeOK
    <3> QED
      BY <2>1, <3>1 DEF TypeOK, ChunkInv, ReadInv, EndInv, RoomInv, SuccessIsComplete
  <2> QED
    BY <1>2, <2>2, <2>3 DEF Read
<1>3. CASE ProcessDo
  <2>1. /\ IF codec = "zip" THEN Deflate ELSE Inflate
        /\ \/ pc' = "done" /\ result' = FALSE
           \/ pc' = "write" /\ result' = result /\ availOut' # BufferSize
        /\ UNCHANGED <<source, size, codec, complete, tail, pos, inFinish>>
    BY <1>3 DEF ProcessDo, Finish, GoTo, Empty, inputVars
  <2>2. /\ availIn' \in 0..BufferSize /\ availOut' \in 0..BufferSize
        /\ held' \in Nat /\ ended' \in BOOLEAN
        /\ ret' \in {"Z_OK", "Z_STREAM_END", "error"}
        /\ ended' => held' = 0
        /\ availOut' # 0 => availIn' = 0 \/ ended'
    BY <2>1, DeflateFacts, InflateFacts
  <2>3. availOut' # 0 /\ (inFinish \/ codec = "unzip") => held' = 0
    BY <2>1, DeflateFacts, InflateFacts DEF InputInv
  <2>4. availOut' # 0 /\ inFinish /\ complete => ended'
    BY <2>1, DeflateFacts, InflateFacts DEF InputInv, ChunkInv
  <2>5. availOut' \notin {0, BufferSize} /\ inFinish => availIn' <= tail
    BY <2>1, DeflateFacts, InflateFacts DEF InputInv, ChunkInv
  <2>6. TypeOK'
    BY <2>1, <2>2 DEF TypeOK
  <2>7. InputInv' /\ ChunkInv' /\ ReadInv' /\ EndInv' /\ SuccessIsComplete'
    BY <2>1, <2>2 DEF InputInv, ChunkInv, ReadInv, EndInv, SuccessIsComplete
  <2>8. RoomInv'
    BY <2>1, <2>2, <2>3, <2>4, <2>5 DEF RoomInv
  <2> QED
    BY <2>6, <2>7, <2>8
<1>4. CASE Write
  <2>1. UNCHANGED <<source, size, codec, complete, tail, pos, inFinish, availIn,
                    availOut, ret, held, ended>>
    BY <1>4 DEF Write, inputVars, zsVars
  <2>2. /\ pc = "write"
        /\ \/ pc' = "process" /\ result' = result
           \/ pc' = "read" /\ result' = result /\ availOut # 0
           \/ pc' = "done" /\ result' = TRUE /\ availOut # 0 /\ inFinish
    BY <1>4 DEF Write, GoTo, Finish, ProcessFinished
  <2>3. TypeOK' /\ InputInv' /\ ChunkInv'
    BY <2>1, <2>2 DEF TypeOK, InputInv, ChunkInv
  <2>4. ReadInv' /\ EndInv' /\ RoomInv' /\ SuccessIsComplete'
    BY <2>1, <2>2 DEF ChunkInv, ReadInv, EndInv, RoomInv, SuccessIsComplete
  <2> QED
    BY <2>3, <2>4
<1>5. CASE UNCHANGED vars
  BY <1>5 DEF vars, inputVars, zsVars, TypeOK, InputInv, ChunkInv, ReadInv, EndInv,
              RoomInv, SuccessIsComplete
<1> QED
  BY <1>2, <1>3, <1>4, <1>5 DEF Next, Stopped

-----------------------------------------------------------------------------
\* IInv holds in every reachable state.
THEOREM Invariance == Spec => []IInv
BY InitIInv, StepIInv, PTL DEF Spec

\* Every variable keeps its type: the position never leaves the input and no
\* chunk is larger than the buffers (Zip.cxx:121-123, 177).
THEOREM TypeCorrectness == Spec => []TypeOK
<1>1. IInv => TypeOK
  BY DEF IInv
<1> QED
  BY Invariance, <1>1, PTL

\* When process reports success it has read everything, consumed all that is
\* not after the stream's end, and written all output (Zip.cxx:35-65).
THEOREM SuccessAlwaysComplete == Spec => []SuccessIsComplete
<1>1. IInv => SuccessIsComplete
  BY DEF IInv
<1> QED
  BY Invariance, <1>1, PTL

\* No chunk is read before zlib consumed the one before it, or reached the end
\* (Zip.cxx:177-181).
THEOREM ChunksConsumed == Spec => ChunkConsumed
<1>1. IInv /\ [Next]_vars => [pos' # pos => availIn = 0 \/ ended]_vars
  <2> SUFFICES ASSUME IInv, Next, pos' # pos
               PROVE  availIn = 0 \/ ended
    OBVIOUS
  <2>1. CASE Read
    BY <2>1 DEF Read, IInv, ReadInv
  <2>2. CASE ProcessDo \/ Write \/ Stopped
    BY <2>2 DEF ProcessDo, Write, Stopped, vars
  <2> QED
    BY <2>1, <2>2 DEF Next
<1> QED
  BY Invariance, <1>1, PTL DEF Spec, ChunkConsumed
=============================================================================
