----------------------------- MODULE LogProofs -----------------------------
(***************************************************************************)
(* Proofs about the log, for any threads, callbacks, lengths of messages   *)
(* and any block size.                                                     *)
(*                                                                         *)
(* Whoever prints holds the mutex, so neither level nor callback changes   *)
(* under it and no other thread delivers: the last block delivered is its  *)
(* own, unless it has delivered none, and then the last block ends a       *)
(* message.                                                                *)
(***************************************************************************)
EXTENDS Log, SequenceTheorems, TLAPS

Blocks ==
  [by : Thread, level : Nat, of : Nat, sink : Callback \cup {Null}, start : Nat, end : Nat]

HistoryType == out \in Seq(Blocks) /\ sent \in [Thread -> Nat]

\* A thread has delivered blocks only of what it prints; what it sets is a level.
CallInv ==
  \A t \in Thread :
    /\ pc[t] # "print" => sent[t] = 0
    /\ pc[t] \in {"prepare", "store"} => arg[t] \in Debug..None
    /\ pc[t] \in {"lock", "print"} => arg[t] \in PrintLevel
    /\ pc[t] = "idle" => len[t] = 0

\* Who prints holds the mutex, and its message passes the filter.
PrintInv ==
  \A t \in Thread :
    /\ mutex = t <=> pc[t] = "print"
    /\ pc[t] = "print" => ~Filtered(arg[t])

Last == out[Len(out)]

\* The last block delivered belongs to who prints, or ends a message.
LastInv ==
  \A t \in Thread :
    pc[t] = "print" =>
      /\ sent[t] = 0 /\ out # <<>> => Last.end = Last.of
      /\ sent[t] > 0 => /\ out # <<>>
                        /\ Last.by = t /\ Last.of = len[t] /\ Last.sink = callback
                        /\ Last.end = sent[t] * MaxLen

IInv == TypeOK /\ HistoryType /\ CallInv /\ PrintInv /\ LastInv /\ BlocksTile

-----------------------------------------------------------------------------
(* The blocks of a message *)

LEMMA DivFacts ==
  ASSUME NEW m \in Nat \ {0}, NEW x \in Nat
  PROVE  x \div m \in Nat /\ (x \div m) * m <= x /\ x < (x \div m) * m + m
  OBVIOUS

LEMMA Monotone ==
  ASSUME NEW m \in Nat, NEW a \in Nat, NEW b \in Nat, a <= b
  PROVE  a * m <= b * m
  OBVIOUS

LEMMA Positive == ASSUME NEW m \in Nat \ {0}, NEW a \in Nat PROVE a * m = 0 <=> a = 0
  <1>1. a >= 1 => m <= a * m
    BY Monotone
  <1> QED
    BY <1>1

\* There are as many blocks as it takes: all but the last are full.
LEMMA CountFacts ==
  ASSUME NEW n \in Nat
  PROVE  /\ BlockCount(n) \in Nat \ {0}
         /\ n <= BlockCount(n) * MaxLen
         /\ BlockCount(n) > 1 => (BlockCount(n) - 1) * MaxLen < n
<1> USE LengthAssumption
<1>1. CASE n <= MaxLen
  <2>1. BlockCount(n) = 1
    BY <1>1 DEF BlockCount
  <2> QED
    BY <1>1, <2>1
<1>2. CASE n > MaxLen
  <2> DEFINE x == n + MaxLen - 1
  <2> DEFINE q == x \div MaxLen
  <2>1. BlockCount(n) = q
    BY <1>2 DEF BlockCount
  <2>2. x \in Nat /\ x >= MaxLen + MaxLen
    BY <1>2
  <2> HIDE DEF x
  <2>3. q \in Nat /\ q * MaxLen <= x /\ x < q * MaxLen + MaxLen
    BY <2>2, DivFacts
  <2> HIDE DEF q
  <2>4. q # 0
    BY <2>2, <2>3
  <2>5. (q - 1) * MaxLen = q * MaxLen - MaxLen
    BY <2>3
  <2>6. n = x - MaxLen + 1
    BY DEF x
  <2> QED
    BY <2>1, <2>2, <2>3, <2>4, <2>5, <2>6
<1> QED
  BY <1>1, <1>2

LEMMA NoBytes == BlockCount(0) = 1
  BY LengthAssumption DEF BlockCount

LEMMA LengthsAreNat == ASSUME NEW n \in Length \cup {0} PROVE n \in Nat
  BY LengthAssumption

LEMMA LengthFacts ==
  ASSUME IInv, NEW t \in Thread
  PROVE  /\ len[t] \in Nat /\ BlockCount(len[t]) \in Nat \ {0}
         /\ sent[t] \in Nat /\ sent[t] < BlockCount(len[t])
<1>1. len[t] \in Nat
  <2>1. len[t] \in Length \cup {0}
    BY DEF IInv, TypeOK
  <2> QED
    BY <2>1, LengthsAreNat
<1>2. BlockCount(len[t]) \in Nat \ {0}
  BY <1>1, CountFacts
<1>3. sent[t] \in Nat /\ sent[t] \in 0..(BlockCount(len[t]) - 1)
  BY DEF IInv, TypeOK, HistoryType
<1> QED
  BY <1>1, <1>2, <1>3

\* The next block of a message is not longer than allowed, is full if another
\* one follows, and ends the message if none does.
LEMMA BlockFacts ==
  ASSUME IInv, NEW t \in Thread, pc[t] = "print"
  PROVE  /\ Block(t) \in Blocks
         /\ Block(t).start = sent[t] * MaxLen
         /\ Block(t).end - Block(t).start <= MaxLen
         /\ sent[t] + 1 < BlockCount(len[t]) => Block(t).end = (sent[t] + 1) * MaxLen
         /\ ~(sent[t] + 1 < BlockCount(len[t])) => Block(t).end = len[t]
         /\ sent[t] = 0 <=> Block(t).start = 0
<1> USE LengthAssumption
<1> DEFINE k == sent[t]
<1> DEFINE n == len[t]
<1> DEFINE count == BlockCount(len[t])
<1>1. n \in Nat /\ k \in 0..(count - 1)
  BY LengthFacts
<1>2. count \in Nat \ {0} /\ n <= count * MaxLen /\ (count > 1 => (count - 1) * MaxLen < n)
  BY <1>1, CountFacts
<1>3. arg[t] \in Nat /\ callback \in Callback \cup {Null}
  BY LevelAssumption DEF IInv, TypeOK, CallInv
<1>4. /\ Block(t).start = k * MaxLen
      /\ Block(t).end = k * MaxLen + Min(MaxLen, n - k * MaxLen)
      /\ Block(t) = [by |-> t, level |-> arg[t], of |-> n, sink |-> callback,
                     start |-> Block(t).start, end |-> Block(t).end]
  BY DEF Block
<1> HIDE DEF k, n, count
<1>5. k \in Nat /\ k * MaxLen \in Nat /\ (k + 1) * MaxLen = k * MaxLen + MaxLen
      /\ (k * MaxLen = 0 <=> k = 0)
  BY <1>1, <1>2, Positive
<1>6. CASE k + 1 < count
  <2>1. (k + 1) * MaxLen <= (count - 1) * MaxLen
    BY <1>2, <1>5, <1>6, Monotone
  <2>2. Min(MaxLen, n - k * MaxLen) = MaxLen
    BY <1>1, <1>2, <1>5, <1>6, <2>1 DEF Min
  <2>3. Block(t).end = (k + 1) * MaxLen /\ Block(t).end \in Nat
    BY <1>4, <1>5, <2>2
  <2>4. Block(t) \in Blocks
    BY <1>1, <1>3, <1>4, <1>5, <2>3 DEF Blocks
  <2>5. k = 0 <=> Block(t).start = 0
    BY <1>4, <1>5
  <2> QED
    BY <1>4, <1>5, <1>6, <2>3, <2>4, <2>5 DEF k, count
<1>7. CASE ~(k + 1 < count)
  <2>1. k + 1 = count
    BY <1>1, <1>2, <1>5, <1>7
  <2>2. k * MaxLen <= n /\ n - k * MaxLen <= MaxLen
    <3>1. CASE count = 1
      BY <1>1, <1>2, <1>5, <2>1, <3>1
    <3>2. CASE count > 1
      BY <1>1, <1>2, <1>5, <2>1, <3>2
    <3> QED
      BY <1>2, <3>1, <3>2
  <2>3. k * MaxLen + Min(MaxLen, n - k * MaxLen) = n
    BY <1>1, <1>5, <2>2 DEF Min
  <2>4. Block(t).end = n
    BY <1>4, <2>3
  <2>5. Block(t) \in Blocks
    BY <1>1, <1>3, <1>4, <1>5, <2>4 DEF Blocks
  <2>6. k = 0 <=> Block(t).start = 0
    BY <1>4, <1>5
  <2>7. Block(t).end - Block(t).start <= MaxLen
    BY <1>4, <2>2, <2>4
  <2> QED
    BY <1>4, <1>7, <2>4, <2>5, <2>6, <2>7 DEF k, n, count
<1> QED
  BY <1>6, <1>7

-----------------------------------------------------------------------------
LEMMA InitInv == ASSUME Init PROVE IInv
<1> USE NullAssumption, BoundAssumption, LengthAssumption DEF Init, Debug, Error, Fatal, None
<1>1. TypeOK
  <2>1. ASSUME NEW t \in Thread PROVE sent[t] \in 0..(BlockCount(len[t]) - 1)
    <3>1. sent[t] = 0 /\ len[t] = 0
      OBVIOUS
    <3> QED
      BY <3>1, NoBytes
  <2>2. /\ level \in Debug..None /\ fileLevel \in Debug..Error \cup {None}
        /\ file \subseteq 1..Len(out) /\ prints \in 0..MaxPrints
    OBVIOUS
  <2> QED
    BY <2>1, <2>2 DEF TypeOK
<1>2. HistoryType /\ CallInv /\ PrintInv /\ LastInv
  BY DEF HistoryType, CallInv, PrintInv, LastInv
<1>3. BlocksTile
  BY DEF BlocksTile
<1> QED
  BY <1>1, <1>2, <1>3 DEF IInv

\* What a step that delivers nothing, and leaves the mutex, level and callback
\* as they are, has to keep.
LEMMA QuietStep ==
  ASSUME IInv, TypeOK', sent' \in [Thread -> Nat], CallInv',
         UNCHANGED <<out, mutex, level, callback>>,
         \A t \in Thread :
           pc'[t] = "print" <=> pc[t] = "print",
         \A t \in Thread :
           pc[t] = "print" => arg'[t] = arg[t] /\ len'[t] = len[t] /\ sent'[t] = sent[t]
  PROVE  IInv'
<1>1. HistoryType'
  BY DEF IInv, HistoryType
<1>2. PrintInv'
  BY DEF IInv, PrintInv, Filtered
<1>3. LastInv'
  BY DEF IInv, LastInv, Last
<1>4. BlocksTile'
  BY DEF IInv, BlocksTile
<1> QED
  BY <1>1, <1>2, <1>3, <1>4 DEF IInv

LEMMA CallSetLevelStep ==
  ASSUME IInv, NEW t \in Thread, NEW l \in SetLevel, CallSetLevel(t, l) PROVE IInv'
<1> USE DEF CallSetLevel, GoTo, sinkVars, histVars, Accepted
<1>1. TypeOK'
  BY DEF IInv, TypeOK
<1>2. CallInv'
  BY DEF IInv, TypeOK, CallInv
<1>3. \A u \in Thread : (pc'[u] = "print" <=> pc[u] = "print")
                        /\ (pc[u] = "print" => arg'[u] = arg[u])
  BY DEF IInv, TypeOK
<1> QED
  BY <1>1, <1>2, <1>3, QuietStep DEF IInv, HistoryType

LEMMA PrepareStep == ASSUME IInv, NEW t \in Thread, Prepare(t) PROVE IInv'
<1> USE DEF Prepare, GoTo, Prepared, histVars
<1>1. TypeOK'
  BY DEF IInv, TypeOK
<1>2. CallInv'
  BY DEF IInv, TypeOK, CallInv
<1>3. \A u \in Thread : pc'[u] = "print" <=> pc[u] = "print"
  BY DEF IInv, TypeOK
<1> QED
  BY <1>1, <1>2, <1>3, QuietStep DEF IInv, HistoryType

\* Nobody prints, and the last block ends a message.
LEMMA FreeFacts ==
  ASSUME IInv, Free
  PROVE  /\ \A t \in Thread : pc[t] # "print"
         /\ out # <<>> => Last.end = Last.of
<1>1. \A t \in Thread : pc[t] # "print"
  BY NullAssumption DEF IInv, PrintInv, Free
<1>2. ASSUME out # <<>> PROVE Last.end = Last.of
  <2>1. Len(out) \in 1..Len(out) /\ Last \in Blocks
    BY <1>2 DEF IInv, HistoryType, Last
  <2>2. Last.by # mutex
    BY <2>1, NullAssumption DEF Free, Blocks
  <2> QED
    BY <2>1, <2>2 DEF IInv, BlocksTile, Last
<1> QED
  BY <1>1, <1>2

LEMMA StoreLevelStep == ASSUME IInv, NEW t \in Thread, StoreLevel(t) PROVE IInv'
<1> USE DEF StoreLevel, Return, GoTo, sinkVars, histVars
<1>1. TypeOK'
  BY NoBytes DEF IInv, TypeOK, HistoryType, CallInv
<1>2. CallInv'
  BY DEF IInv, TypeOK, CallInv
<1>3. \A u \in Thread : pc[u] # "print" /\ pc'[u] # "print"
  BY FreeFacts DEF IInv, TypeOK
<1>4. HistoryType' /\ PrintInv' /\ LastInv'
  BY <1>3 DEF IInv, HistoryType, PrintInv, LastInv
<1>5. BlocksTile'
  BY DEF IInv, BlocksTile
<1> QED
  BY <1>1, <1>2, <1>4, <1>5 DEF IInv

LEMMA SetCallbackStep ==
  ASSUME IInv, NEW t \in Thread, NEW cb \in Callback \cup {Null}, SetCallback(t, cb)
  PROVE  IInv'
<1> USE DEF SetCallback, callVars, histVars
<1>1. TypeOK' /\ CallInv'
  BY DEF IInv, TypeOK, CallInv
<1>2. \A u \in Thread : pc'[u] # "print"
  BY FreeFacts
<1>3. HistoryType' /\ PrintInv' /\ LastInv'
  BY <1>2 DEF IInv, HistoryType, PrintInv, LastInv
<1>4. BlocksTile'
  BY DEF IInv, BlocksTile
<1> QED
  BY <1>1, <1>3, <1>4 DEF IInv

LEMMA CallPrintStep ==
  ASSUME IInv, NEW t \in Thread, NEW l \in PrintLevel, NEW n \in Length, CallPrint(t, l, n)
  PROVE  IInv'
<1> USE DEF CallPrint, GoTo, sinkVars
<1>1. n \in Nat /\ BlockCount(n) \in Nat \ {0}
  BY LengthAssumption, CountFacts
<1>2. sent[t] = 0
  BY DEF IInv, CallInv
<1>3. TypeOK'
  BY <1>1, <1>2, BoundAssumption DEF IInv, TypeOK
<1>4. CallInv'
  BY DEF IInv, TypeOK, CallInv
<1>5. \A u \in Thread : (pc'[u] = "print" <=> pc[u] = "print")
                        /\ (pc[u] = "print" => arg'[u] = arg[u] /\ len'[u] = len[u])
  BY DEF IInv, TypeOK
<1> QED
  BY <1>3, <1>4, <1>5, QuietStep DEF IInv, HistoryType

\* Whoever gets the mutex finds the last message complete.
LEMMA LockPrintStep == ASSUME IInv, NEW t \in Thread, LockPrint(t) PROVE IInv'
<1> USE DEF LockPrint, GoTo, sinkVars, histVars
<1>1. /\ Free /\ pc[t] = "lock" /\ sent[t] = 0
      /\ \A u \in Thread : pc[u] # "print"
      /\ out # <<>> => Last.end = Last.of
  BY FreeFacts DEF IInv, CallInv, Return
<1>2. CASE Filtered(arg[t])
  <2>1. /\ pc' = [pc EXCEPT ![t] = "idle"] /\ arg' = [arg EXCEPT ![t] = None]
        /\ len' = [len EXCEPT ![t] = 0] /\ sent' = [sent EXCEPT ![t] = 0]
        /\ UNCHANGED <<level, mutex, callback, prepared, fileLevel, prints, out, file>>
    BY <1>1, <1>2 DEF Return, FilteredLeaves, Free
  <2> HIDE DEF LockPrint
  <2>2. sent' \in [Thread -> Nat]
    BY <2>1 DEF IInv, HistoryType
  <2>3. TypeOK'
    BY <2>1, <2>2, NoBytes DEF IInv, TypeOK, HistoryType
  <2>4. CallInv'
    BY <2>1, <2>2 DEF IInv, TypeOK, HistoryType, CallInv
  <2>5. \A u \in Thread : pc'[u] # "print"
    BY <1>1, <2>1 DEF IInv, TypeOK
  <2> QED
    BY <1>1, <2>1, <2>2, <2>3, <2>4, <2>5, QuietStep
<1>3. CASE ~Filtered(arg[t])
  <2> USE <1>3
  <2>1. TypeOK' /\ CallInv'
    BY DEF IInv, TypeOK, CallInv
  <2>2. HistoryType' /\ PrintInv'
    BY <1>1, NullAssumption DEF IInv, TypeOK, HistoryType, PrintInv, Filtered
  <2>3. LastInv'
    BY <1>1 DEF IInv, TypeOK, LastInv, Last
  <2>4. BlocksTile'
    <3>1. \A j \in 1..Len(out) : out[j] \in Blocks
      BY DEF IInv, HistoryType
    <3>2. \A j \in 1..Len(out) : out[j].by # mutex
      BY <1>1, <3>1, NullAssumption DEF Blocks, Free
    <3> QED
      BY <3>2 DEF IInv, BlocksTile
  <2> QED
    BY <2>1, <2>2, <2>3, <2>4 DEF IInv
<1> QED
  BY <1>2, <1>3

-----------------------------------------------------------------------------
(* A block is delivered *)

LEMMA PrintBlockStep == ASSUME IInv, NEW t \in Thread, PrintBlock(t) PROVE IInv'
<1> USE DEF PrintBlock
<1> DEFINE b == Block(t)
<1> DEFINE more == sent[t] + 1 < BlockCount(len[t])
<1>1. pc[t] = "print" /\ mutex = t
  BY DEF IInv, PrintInv
<1>2. /\ b \in Blocks
      /\ b.start = sent[t] * MaxLen
      /\ b.end - b.start <= MaxLen
      /\ more => b.end = (sent[t] + 1) * MaxLen
      /\ ~more => b.end = len[t]
      /\ sent[t] = 0 <=> b.start = 0
  BY <1>1, BlockFacts
<1>3. b.by = t /\ b.of = len[t] /\ b.sink = callback
  BY DEF Block
<1> HIDE DEF b
<1>4. /\ out \in Seq(Blocks) /\ Len(out) \in Nat
      /\ out' = Append(out, b)
      /\ out' \in Seq(Blocks)
      /\ Len(out') = Len(out) + 1
      /\ \A i \in 1..Len(out) : out'[i] = out[i]
      /\ out'[Len(out) + 1] = b
  BY <1>2, AppendProperties DEF IInv, HistoryType, b
<1>6. /\ more => mutex' = t /\ UNCHANGED <<pc, arg, len>> /\ sent' = [sent EXCEPT ![t] = @ + 1]
      /\ ~more => mutex' = Null /\ Return(t, "print")
  BY <1>1
<1>7. \A u \in Thread \ {t} : pc[u] # "print"
  BY <1>1 DEF IInv, PrintInv
<1>8. len[t] \in Nat /\ sent[t] \in Nat /\ BlockCount(len[t]) \in Nat
      /\ sent \in [Thread -> Nat]
  BY LengthFacts DEF IInv, HistoryType
<1>9. sent' \in [Thread -> Nat]
  BY <1>6, <1>8 DEF Return
<1>5. HistoryType'
  BY <1>4, <1>9 DEF HistoryType
<1>10. TypeOK'
  <2>1. fileLevel' \in Debug..Error \cup {None} /\ prepared' \in BOOLEAN
    BY DEF IInv, TypeOK, Prepared
  <2>2. file' \subseteq 1..Len(out')
    <3>1. file \subseteq 1..Len(out) /\ file' \subseteq file \cup {Len(out) + 1}
      BY DEF IInv, TypeOK
    <3>2. Len(out) \in Nat /\ Len(out') = Len(out) + 1
      BY <1>4
    <3>3. 1..Len(out') = 1..Len(out) \cup {Len(out) + 1}
      BY <3>2
    <3> QED
      BY <3>1, <3>3
  <2>3. \A u \in Thread : sent'[u] \in 0..(BlockCount(len'[u]) - 1)
    <3>1. ASSUME NEW u \in Thread, u # t PROVE sent'[u] = sent[u] /\ len'[u] = len[u]
      BY <1>6, <1>8, <3>1 DEF Return, IInv, TypeOK
    <3>2. CASE more
      <4>1. sent'[t] = sent[t] + 1 /\ len'[t] = len[t]
        BY <1>6, <1>8, <3>2
      <4> QED
        BY <1>8, <3>1, <3>2, <4>1, LengthFacts
    <3>3. CASE ~more
      <4>1. sent'[t] = 0 /\ len'[t] = 0
        BY <1>6, <1>8, <3>3 DEF Return, IInv, TypeOK
      <4> QED
        BY <3>1, <4>1, NoBytes, LengthFacts
    <3> QED
      BY <3>2, <3>3
  <2>4. /\ level' \in Debug..None /\ callback' \in Callback \cup {Null}
        /\ prints' \in 0..MaxPrints
    BY DEF IInv, TypeOK
  <2>5. /\ mutex' \in Thread \cup {Null}
        /\ pc' \in [Thread -> {"idle", "prepare", "store", "lock", "print"}]
        /\ arg' \in [Thread -> PrintLevel \cup SetLevel \cup {None}]
        /\ len' \in [Thread -> Length \cup {0}]
    BY <1>6 DEF Return, GoTo, IInv, TypeOK
  <2> QED
    BY <2>1, <2>2, <2>3, <2>4, <2>5 DEF TypeOK
<1>11. CallInv' /\ PrintInv'
  <2>1. CASE more
    BY <1>1, <1>6, <1>7, <1>8, <2>1 DEF IInv, TypeOK, CallInv, PrintInv, Filtered
  <2>2. CASE ~more
    <3>1. CallInv'
      BY <1>1, <1>6, <1>7, <1>8, <2>2, NullAssumption
      DEF IInv, TypeOK, CallInv, PrintInv, Filtered, Return, GoTo
    <3>2. PrintInv'
      BY <1>1, <1>6, <1>7, <1>8, <2>2, NullAssumption
      DEF IInv, TypeOK, CallInv, PrintInv, Filtered, Return, GoTo
    <3> QED
      BY <3>1, <3>2
  <2> QED
    BY <2>1, <2>2
<1>12. LastInv'
  <2>1. CASE more
    <3>1. sent'[t] = sent[t] + 1 /\ len'[t] = len[t] /\ callback' = callback
      BY <1>6, <1>8, <2>1 DEF IInv, TypeOK
    <3>2. Last' = b /\ out' # <<>>
      BY <1>4 DEF Last
    <3> QED
      BY <1>2, <1>3, <1>6, <1>7, <1>8, <2>1, <3>1, <3>2 DEF LastInv
  <2>2. CASE ~more
    BY <1>6, <1>7, <2>2 DEF LastInv, IInv, TypeOK, Return, GoTo
  <2> QED
    BY <2>1, <2>2
<1>13. BlocksTile'
  <2>1. /\ sent[t] > 0 => /\ Len(out) > 0
                          /\ out[Len(out)].by = t /\ out[Len(out)].of = len[t]
                          /\ out[Len(out)].sink = callback
                          /\ out[Len(out)].end = b.start
        /\ sent[t] = 0 /\ Len(out) > 0 => out[Len(out)].end = out[Len(out)].of
    BY <1>1, <1>2, <1>4, <1>8 DEF IInv, LastInv, Last
  <2>2. ASSUME NEW j \in 1..Len(out)
        PROVE  /\ out[j].end - out[j].start <= MaxLen
               /\ out[j].start # 0 => /\ j > 1
                                      /\ out[j-1].end = out[j].start
                                      /\ out[j-1].by = out[j].by /\ out[j-1].of = out[j].of
                                      /\ out[j-1].sink = out[j].sink
               /\ out[j].end # out[j].of /\ j < Len(out) => out[j+1].start = out[j].end
    BY DEF IInv, BlocksTile
  <2>3. ASSUME NEW j \in 1..Len(out'), j = Len(out) + 1
        PROVE  /\ out'[j] = b
               /\ b.end - b.start <= MaxLen
               /\ b.start # 0 => /\ j > 1
                                 /\ out'[j-1].end = b.start
                                 /\ out'[j-1].by = b.by /\ out'[j-1].of = b.of
                                 /\ out'[j-1].sink = b.sink
               /\ b.end = b.of \/ mutex' = b.by
    <3>1. b.start # 0 => j - 1 = Len(out) /\ j - 1 \in 1..Len(out) /\ j > 1
      BY <1>2, <1>4, <1>8, <2>1, <2>3
    <3> QED
      BY <1>2, <1>3, <1>4, <1>6, <1>8, <2>1, <2>3, <3>1
  <2>4. ASSUME NEW j \in 1..Len(out'), j # Len(out) + 1
        PROVE  /\ j \in 1..Len(out) /\ out'[j] = out[j] /\ j < Len(out')
               /\ j > 1 => out'[j-1] = out[j-1]
               /\ out[j].end # out[j].of => out'[j+1].start = out[j].end
    <3>1. j \in 1..Len(out) /\ out'[j] = out[j] /\ j < Len(out')
      BY <1>4, <2>4
    <3>2. j > 1 => out'[j-1] = out[j-1]
      BY <1>4, <3>1
    <3>3. ASSUME out[j].end # out[j].of PROVE out'[j+1].start = out[j].end
      <4>1. CASE j < Len(out)
        BY <1>4, <2>2, <3>1, <3>3, <4>1
      <4>2. CASE j = Len(out)
        BY <1>4, <1>8, <2>1, <3>1, <3>3, <4>2
      <4> QED
        BY <1>4, <3>1, <4>1, <4>2
    <3> QED
      BY <3>1, <3>2, <3>3
  <2>5. ASSUME NEW j \in 1..Len(out')
        PROVE  LET c == out'[j]
                   inside == c.start # 0
                   complete == c.end = c.of
               IN /\ c.end - c.start <= MaxLen
                  /\ inside => /\ j > 1
                               /\ out'[j-1].end = c.start
                               /\ out'[j-1].by = c.by /\ out'[j-1].of = c.of
                               /\ out'[j-1].sink = c.sink
                  /\ complete \/ j < Len(out') \/ mutex' = c.by
                  /\ ~complete /\ j < Len(out') => out'[j+1].start = c.end
    <3>1. CASE j = Len(out) + 1
      BY <1>4, <2>3, <3>1
    <3>2. CASE j # Len(out) + 1
      BY <2>2, <2>4, <3>2
    <3> QED
      BY <3>1, <3>2
  <2> QED
    BY <2>5 DEF BlocksTile
<1> QED
  BY <1>5, <1>10, <1>11, <1>12, <1>13 DEF IInv

LEMMA NextInv == ASSUME IInv, [Next]_vars PROVE IInv'
<1>1. CASE UNCHANGED vars
  BY <1>1 DEF vars, sinkVars, callVars, histVars, IInv, TypeOK, HistoryType, CallInv, PrintInv,
              Filtered, LastInv, Last, BlocksTile
<1>2. ASSUME NEW t \in Thread, CallStep(t) PROVE IInv'
  BY <1>2, PrepareStep, StoreLevelStep, LockPrintStep, PrintBlockStep DEF CallStep
<1> QED
  BY <1>1, <1>2, CallSetLevelStep, SetCallbackStep, CallPrintStep DEF Next

\* The inductive invariant of the log (Log.cxx:139-207).
THEOREM Invariance == Spec => []IInv
<1>1. Init => IInv
  BY InitInv
<1>2. IInv /\ [Next]_vars => IInv'
  BY NextInv
<1> QED
  BY <1>1, <1>2, PTL DEF Spec

-----------------------------------------------------------------------------
\* Every variable has its type (Log.cxx).
THEOREM TypeCorrectness == Spec => []TypeOK
<1>1. IInv => TypeOK
  BY DEF IInv
<1> QED
  BY <1>1, Invariance, PTL

\* The blocks of a message arrive in order, at one sink, with none of another
\* message between them, and are the message (Log.cxx:141-173).
THEOREM MessagesArriveWhole == Spec => []BlocksTile
<1>1. IInv => BlocksTile
  BY DEF IInv
<1> QED
  BY <1>1, Invariance, PTL

\* Neither level nor callback changes between the test of a message and the
\* delivery of its last block (Log.cxx:197-207).
THEOREM LevelHolds == Spec => DeliveredWithinLevel
<1> DEFINE Within ==
      Len(out') > Len(out) =>
        LET b == out'[Len(out')] IN b.level >= level /\ b.level < None /\ b.sink = callback
<1>1. ASSUME IInv, Next, Len(out') > Len(out) PROVE \E t \in Thread : PrintBlock(t)
  <2>1. out' # out
    BY <1>1 DEF IInv, HistoryType
  <2> QED
    BY <1>1, <2>1 DEF Next, CallStep, CallSetLevel, SetCallback, CallPrint, Prepare, StoreLevel,
                      LockPrint, histVars
<1>2. ASSUME IInv, NEW t \in Thread, PrintBlock(t) PROVE Within
  <2>1. pc[t] = "print" /\ out' = Append(out, Block(t)) /\ out \in Seq(Blocks)
    BY <1>2 DEF PrintBlock, IInv, HistoryType
  <2>2. Block(t) \in Blocks
    BY <1>2, <2>1, BlockFacts
  <2>3. out'[Len(out')] = Block(t)
    BY <2>1, <2>2, AppendProperties
  <2>4. ~Filtered(arg[t]) /\ arg[t] \in Nat /\ level \in Nat
    BY <1>2, <2>1, LevelAssumption DEF IInv, PrintInv, CallInv, TypeOK, Debug, None
  <2> QED
    BY <2>3, <2>4 DEF Block, Filtered, None, Debug
<1>3. IInv /\ [Next]_vars => [Within]_vars
  BY <1>1, <1>2
<1> QED
  BY <1>3, Invariance, PTL DEF Spec, DeliveredWithinLevel
=============================================================================
