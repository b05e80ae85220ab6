-------------------------------- MODULE Log --------------------------------
(***************************************************************************)
(* DynXX::Core::Log (src/core/log/Log.cxx): a level and a callback behind  *)
(* one std::mutex, and a file sink (spdlog) that is set up by whoever      *)
(* first gets to it.  print holds the mutex while it delivers a message,   *)
(* cut into blocks of at most MaxLen bytes, to the callback or to the      *)
(* platform's log, and block by block to the file sink.  setLevel prepares *)
(* the file sink before it locks the mutex and changes the level.          *)
(*                                                                         *)
(* The application's part: a callback does not log, set the level or the   *)
(* callback, for the mutex is not recursive.                               *)
(***************************************************************************)
EXTENDS Integers, Sequences

CONSTANTS Thread,      \* threads that log
          Callback,    \* the callbacks the application sets
          MaxLen,      \* MAX_LEN
          Length,      \* lengths of messages
          PrintLevel,  \* levels of messages
          SetLevel,    \* levels the application sets
          MaxPrints,   \* bound on the messages
          Null         \* no callback, nobody

Debug == 3
Error == 6
Fatal == 7
None  == 8

ASSUME LengthAssumption == MaxLen \in Nat \ {0} /\ Length \subseteq Nat
ASSUME LevelAssumption == PrintLevel \cup SetLevel \subseteq Nat
ASSUME BoundAssumption == MaxPrints \in Nat
ASSUME NullAssumption == Null \notin Thread \cup Callback

VARIABLES
  level,      \* _level
  callback,   \* _callback, or Null for none
  mutex,      \* the holder of _mutex
  prepared,   \* the once_flag of spdLogPrepare
  fileLevel,  \* spdlog's level, None for off
  pc,         \* where a thread is: "idle", "prepare", "store", "lock", "print"
  arg,        \* the level it sets or prints at
  len,        \* the length of its message
  sent,       \* how many blocks of it were delivered
  prints,     \* how many messages were printed (bounded)
  out,        \* history: the blocks delivered
  file        \* history: the blocks the file sink wrote, as positions in out

sinkVars == <<callback, prepared, fileLevel>>
callVars == <<pc, arg, len, sent>>
histVars == <<prints, out, file>>
vars     == <<level, mutex, sinkVars, callVars, histVars>>

Init ==
  /\ level = None
  /\ callback = Null
  /\ mutex = Null
  /\ prepared = FALSE
  /\ fileLevel = Debug  \* spdlog's own default lets the levels used here pass
  /\ pc = [t \in Thread |-> "idle"]
  /\ arg = [t \in Thread |-> None]
  /\ len = [t \in Thread |-> 0]
  /\ sent = [t \in Thread |-> 0]
  /\ prints = 0
  /\ out = <<>>
  /\ file = {}

GoTo(t, from, to) == pc[t] = from /\ pc' = [pc EXCEPT ![t] = to]

-----------------------------------------------------------------------------
(* The file sink *)

\* spdLogPrepare: call_once sets spdlog's level from _level; Fatal and None
\* turn the sink off.
Prepared ==
  /\ prepared' = TRUE
  /\ fileLevel' = IF prepared THEN fileLevel
                  ELSE IF level \in Debug..Error THEN level ELSE None

\* spdLogPrint knows the levels up to Error.
FileWrites(l) == l \in Debug..Error /\ l >= fileLevel'

-----------------------------------------------------------------------------
(* setLevel, setCallback *)

\* A slip: a level above None is set.
AcceptedAbove(l) == l >= Debug
\* The levels setLevel does not ignore.
Accepted(l) == l \in Debug..None

\* setLevel with an accepted level; the file sink comes first.
CallSetLevel(t, l) ==
  /\ Accepted(l)
  /\ GoTo(t, "idle", "prepare")
  /\ arg' = [arg EXCEPT ![t] = l]
  /\ UNCHANGED <<level, mutex, sinkVars, len, sent, histVars>>

Prepare(t) ==
  /\ GoTo(t, "prepare", "store")
  /\ Prepared
  /\ UNCHANGED <<level, mutex, callback, arg, len, sent, histVars>>

\* A slip: a critical section without its lock.
FreeAlways == TRUE
Free == mutex = Null

\* A call from its last step back to its caller: its variables are gone.
Return(t, from) ==
  /\ GoTo(t, from, "idle")
  /\ arg' = [arg EXCEPT ![t] = None]
  /\ len' = [len EXCEPT ![t] = 0]
  /\ sent' = [sent EXCEPT ![t] = 0]

StoreLevel(t) ==
  /\ Free
  /\ level' = arg[t]
  /\ Return(t, "store")
  /\ UNCHANGED <<mutex, sinkVars, histVars>>

SetCallback(t, cb) ==
  /\ pc[t] = "idle"
  /\ Free
  /\ callback' = cb
  /\ UNCHANGED <<level, mutex, prepared, fileLevel, callVars, histVars>>

-----------------------------------------------------------------------------
(* print *)

CallPrint(t, l, n) ==
  /\ prints < MaxPrints
  /\ GoTo(t, "idle", "lock")
  /\ prints' = prints + 1
  /\ arg' = [arg EXCEPT ![t] = l]
  /\ len' = [len EXCEPT ![t] = n]
  /\ UNCHANGED <<level, mutex, sinkVars, sent, out, file>>

\* A slip: the level is the highest that passes, not the lowest.
FilteredAbove(l) == l > level \/ l < Debug \/ l >= None
Filtered(l) == l < level \/ l < Debug \/ l >= None

\* A slip: the early return forgets the mutex.
FilteredHolder(t) == t
\* Who holds the mutex after the early return.
FilteredLeaves(t) == Null

\* print locks the mutex and drops the message or starts delivering it.
LockPrint(t) ==
  /\ Free
  /\ IF Filtered(arg[t])
       THEN Return(t, "lock") /\ mutex' = FilteredLeaves(t)
       ELSE GoTo(t, "lock", "print") /\ mutex' = t /\ UNCHANGED <<arg, len, sent>>
  /\ UNCHANGED <<level, sinkVars, histVars>>

\* A slip: a last block that is not full is forgotten.
BlockCountFloor(n) == IF n <= MaxLen THEN 1 ELSE n \div MaxLen
BlockCount(n) == IF n <= MaxLen THEN 1 ELSE (n + MaxLen - 1) \div MaxLen

Min(a, b) == IF a < b THEN a ELSE b

\* The next block of t's message: the bytes from start (excluded) to end.
Block(t) ==
  LET start == sent[t] * MaxLen
  IN [by |-> t, level |-> arg[t], of |-> len[t], sink |-> callback,
      start |-> start, end |-> start + Min(MaxLen, len[t] - start)]

\* logPrint of one block; the last one ends the call and unlocks.
PrintBlock(t) ==
  /\ pc[t] = "print"
  /\ out' = Append(out, Block(t))
  /\ Prepared
  /\ file' = IF FileWrites(arg[t]) THEN file \cup {Len(out) + 1} ELSE file
  /\ IF sent[t] + 1 < BlockCount(len[t])
       THEN sent' = [sent EXCEPT ![t] = @ + 1] /\ UNCHANGED <<mutex, pc, arg, len>>
       ELSE Return(t, "print") /\ mutex' = Null
  /\ UNCHANGED <<level, callback, prints>>

-----------------------------------------------------------------------------
CallStep(t) == Prepare(t) \/ StoreLevel(t) \/ LockPrint(t) \/ PrintBlock(t)

Next ==
  \E t \in Thread :
    \/ \E l \in SetLevel : CallSetLevel(t, l)
    \/ \E cb \in Callback \cup {Null} : SetCallback(t, cb)
    \/ \E l \in PrintLevel, n \in Length : CallPrint(t, l, n)
    \/ CallStep(t)

Spec == Init /\ [][Next]_vars

\* A thread that keeps asking for a mutex that keeps being unlocked gets it,
\* and callbacks return.
FairSpec == Spec /\ \A t \in Thread : SF_vars(CallStep(t))

-----------------------------------------------------------------------------
(* Properties *)

\* The type of every variable.
TypeOK ==
  /\ level \in Debug..None
  /\ callback \in Callback \cup {Null}
  /\ mutex \in Thread \cup {Null}
  /\ prepared \in BOOLEAN
  /\ fileLevel \in Debug..Error \cup {None}
  /\ pc \in [Thread -> {"idle", "prepare", "store", "lock", "print"}]
  /\ arg \in [Thread -> PrintLevel \cup SetLevel \cup {None}]
  /\ len \in [Thread -> Length \cup {0}]
  /\ \A t \in Thread : sent[t] \in 0..(BlockCount(len[t]) - 1)
  /\ prints \in 0..MaxPrints
  /\ file \subseteq 1..Len(out)

\* The blocks of a message reach one sink, in order, without a block of
\* another message between them, and together they are the message, each of
\* at most MaxLen bytes (Log.cxx:141-173).  The message that is being printed
\* may lack its end.
BlocksTile ==
  \A j \in 1..Len(out) :
    LET b == out[j]
        inside == b.start # 0
        complete == b.end = b.of
    IN /\ b.end - b.start <= MaxLen
       /\ inside => /\ j > 1
                    /\ out[j-1].end = b.start
                    /\ out[j-1].by = b.by /\ out[j-1].of = b.of
                    /\ out[j-1].sink = b.sink
       /\ complete \/ j < Len(out) \/ mutex = b.by
       /\ ~complete /\ j < Len(out) => out[j+1].start = b.end

\* A block is delivered only while the level admits its message, and to the
\* sink that is set: neither changes between the test and the delivery.
DeliveredWithinLevel ==
  [][Len(out') > Len(out) =>
       LET b == out'[Len(out')]
       IN b.level >= level /\ b.level < None /\ b.sink = callback]_vars

\* Every call returns.
EveryCallReturns == \A t \in Thread : (pc[t] # "idle") ~> (pc[t] = "idle")
=============================================================================
