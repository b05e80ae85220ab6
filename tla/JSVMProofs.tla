----------------------------- MODULE JSVMProofs -----------------------------
(***************************************************************************)
(* Proofs about the JS VM, for any threads, workers and promises and any   *)
(* depth of nested calls.                                                  *)
(*                                                                         *)
(* Only the innermost frame of a thread waits for the mutex or has given   *)
(* it up: every frame below it runs JS, and holds one level.  So a thread  *)
(* holds as many levels as it has frames, or one less, and who has a frame *)
(* that holds a level owns the mutex.                                      *)
(***************************************************************************)
EXTENDS JSVM, FiniteSetTheorems, SequenceTheorems, TLAPS

\* The frames below the innermost one run JS; who awaits was asked to.
Shape(s) ==
  \A i \in 1..Len(s) :
    /\ i < Len(s) => s[i].at = "js"
    /\ s[i].at = "await" => s[i].await

StackOK(s) == s \in Seq(Frame) /\ Len(s) <= MaxDepth /\ Shape(s)

\* The levels the frames of a stack of that shape hold.
Held(s) ==
  IF s = <<>> THEN 0 ELSE IF Locked(Last(s)) THEN Len(s) ELSE Len(s) - 1

LockInv ==
  /\ owner = NoOne <=> depth = 0
  /\ \A t \in Thread : Held(stack[t]) = IF owner = t THEN depth ELSE 0

VarsType ==
  /\ owner \in Thread \cup {NoOne}
  /\ depth \in 0..MaxDepth
  /\ stack \in [Thread -> Seq(Frame)]
  /\ state \in [Promise -> {"none", "pending", "settled"}]
  /\ record \in [Promise -> {"none", "live", "deleted"}]
  /\ accepted \in Seq(Promise \cup Loop)

StacksInv == \A t \in Thread : StackOK(stack[t])

\* Who is in newPromise has a promise, and its record.
RecordInv ==
  \A t \in Thread :
    At(t, "made") => Top(t).promise \in Promise /\ record[Top(t).promise] = "live"

IInv == VarsType /\ StacksInv /\ LockInv /\ RecordInv

-----------------------------------------------------------------------------
(* What the actions do to a stack *)

LEMMA LastFrame ==
  ASSUME NEW s \in Seq(Frame), s # <<>>
  PROVE  Len(s) \in Nat \ {0} /\ Last(s) = s[Len(s)] /\ Last(s) \in Frame
  BY DEF Last

LEMMA FrontFrames ==
  ASSUME NEW s \in Seq(Frame), s # <<>>
  PROVE  /\ Front(s) \in Seq(Frame) /\ Len(Front(s)) = Len(s) - 1
         /\ \A i \in 1..(Len(s) - 1) : Front(s)[i] = s[i]
<1>1. Len(s) \in Nat \ {0}
  BY LastFrame
<1> DEFINE n == Len(s) - 1
<1>2. n \in Nat /\ \A i \in 1..n : s[i] \in Frame
  BY <1>1
<1> HIDE DEF n
<1>3. /\ SubSeq(s, 1, n) \in Seq(Frame)
      /\ Len(SubSeq(s, 1, n)) = IF 1 <= n THEN n - 1 + 1 ELSE 0
      /\ \A i \in 1..(n - 1 + 1) : SubSeq(s, 1, n)[i] = s[1 + i - 1]
  BY <1>2, SubSeqProperties
<1>4. n - 1 + 1 = n /\ \A i \in 1..n : 1 + i - 1 = i
  BY <1>2
<1>5. /\ Len(SubSeq(s, 1, n)) = n
      /\ \A i \in 1..n : SubSeq(s, 1, n)[i] = s[i]
  BY <1>2, <1>3, <1>4
<1> QED
  BY <1>3, <1>5 DEF Front, n

\* The innermost frame becomes f.
LEMMA ReplaceTop ==
  ASSUME NEW s, StackOK(s), s # <<>>, NEW f \in Frame,
         f.at = "await" => f.await
  PROVE  LET new == Append(Front(s), f)
         IN  /\ StackOK(new) /\ new # <<>> /\ Last(new) = f
             /\ Held(new) = IF Locked(f) THEN Len(s) ELSE Len(s) - 1
<1> DEFINE new == Append(Front(s), f)
<1>1. s \in Seq(Frame) /\ Len(s) \in Nat \ {0} /\ Len(s) <= MaxDepth /\ Shape(s)
  BY LastFrame DEF StackOK
<1>2. /\ Front(s) \in Seq(Frame) /\ Len(Front(s)) = Len(s) - 1
      /\ \A i \in 1..(Len(s) - 1) : Front(s)[i] = s[i]
  BY <1>1, FrontFrames
<1>3. /\ new \in Seq(Frame) /\ Len(new) = Len(s) /\ new[Len(s)] = f
      /\ \A i \in 1..(Len(s) - 1) : new[i] = s[i]
  BY <1>1, <1>2
<1>4. new # <<>> /\ Last(new) = f
  BY <1>1, <1>3 DEF Last
<1>5. Last(s) = s[Len(s)]
  BY DEF Last
<1>6. Shape(new)
  <2> SUFFICES ASSUME NEW i \in 1..Len(s)
               PROVE  /\ i < Len(s) => new[i].at = "js"
                      /\ new[i].at = "await" => new[i].await
    BY <1>3 DEF Shape
  <2>1. CASE i = Len(s)
    BY <2>1, <1>1, <1>3, <1>5 DEF Shape
  <2>2. CASE i # Len(s)
    <3>1. i \in 1..(Len(s) - 1)
      BY <2>2, <1>1
    <3> QED
      BY <3>1, <1>1, <1>3 DEF Shape
  <2> QED
    BY <2>1, <2>2
<1> QED
  BY <1>1, <1>3, <1>4, <1>6 DEF StackOK, Held

\* The innermost frame returns to the one below it, which runs JS.
LEMMA DropTop ==
  ASSUME NEW s, StackOK(s), s # <<>>
  PROVE  /\ StackOK(Front(s)) /\ Held(Front(s)) = Len(s) - 1
         /\ Front(s) # <<>> => Last(Front(s)).at = "js"
<1>1. s \in Seq(Frame) /\ Len(s) \in Nat \ {0} /\ Len(s) <= MaxDepth /\ Shape(s)
  BY LastFrame DEF StackOK
<1>2. /\ Front(s) \in Seq(Frame) /\ Len(Front(s)) = Len(s) - 1
      /\ \A i \in 1..(Len(s) - 1) : Front(s)[i] = s[i]
  BY <1>1, FrontFrames
<1>3. \A i \in 1..(Len(s) - 1) :
        /\ Front(s)[i].at = "js"
        /\ Front(s)[i].at = "await" => Front(s)[i].await
  BY <1>1, <1>2 DEF Shape
<1>4. Shape(Front(s))
  BY <1>2, <1>3 DEF Shape
<1>5. StackOK(Front(s))
  BY <1>1, <1>2, <1>4, BoundsAssumption DEF StackOK
<1>6. Front(s) # <<>> => Last(Front(s)).at = "js"
  <2> SUFFICES ASSUME Front(s) # <<>> PROVE Last(Front(s)).at = "js"
    OBVIOUS
  <2>1. Len(Front(s)) \in 1..(Len(s) - 1) /\ Last(Front(s)) = Front(s)[Len(Front(s))]
    BY <1>1, <1>2, LastFrame
  <2> QED
    BY <2>1, <1>3
<1>7. Held(Front(s)) = Len(s) - 1
  BY <1>1, <1>2, <1>6 DEF Held, Locked
<1> QED
  BY <1>5, <1>6, <1>7

\* The first frame of a thread.
LEMMA StartStack ==
  ASSUME NEW f \in Frame, f.at = "lock"
  PROVE  StackOK(<<f>>) /\ <<f>> # <<>> /\ Last(<<f>>) = f /\ Held(<<f>>) = 0
<1>1. <<f>> \in Seq(Frame) /\ Len(<<f>>) = 1 /\ <<f>>[1] = f /\ <<f>> # <<>>
  OBVIOUS
<1>2. Last(<<f>>) = f
  BY <1>1 DEF Last
<1>3. Shape(<<f>>)
  BY <1>1 DEF Shape
<1> QED
  BY <1>1, <1>2, <1>3, BoundsAssumption DEF StackOK, Held, Locked

\* A frame that runs JS makes a call.
LEMMA PushFrame ==
  ASSUME NEW s, StackOK(s), s # <<>>, Last(s).at = "js", Len(s) < MaxDepth,
         NEW g \in Frame, g.at = "js", NEW f \in Frame, f.at = "lock"
  PROVE  LET new == Append(Append(Front(s), g), f)
         IN  StackOK(new) /\ new # <<>> /\ Last(new) = f /\ Held(new) = Held(s)
<1> DEFINE low == Append(Front(s), g)
<1> DEFINE new == Append(low, f)
<1>1. StackOK(low) /\ low # <<>> /\ Last(low) = g
  BY ReplaceTop
<1>2. s \in Seq(Frame) /\ Len(s) \in Nat \ {0}
  BY LastFrame DEF StackOK
<1>3. Len(low) = Len(s)
  BY <1>2, FrontFrames
<1>4. low \in Seq(Frame) /\ Shape(low) /\ low[Len(s)].at = "js"
  BY <1>1, <1>3 DEF StackOK, Last
<1> HIDE DEF low
<1>5. /\ new \in Seq(Frame) /\ Len(new) = Len(s) + 1 /\ new[Len(s) + 1] = f
      /\ \A i \in 1..Len(s) : new[i] = low[i]
  BY <1>2, <1>3, <1>4
<1>6. new # <<>> /\ Last(new) = f
  BY <1>2, <1>5 DEF Last
<1>7. Shape(new)
  <2> SUFFICES ASSUME NEW i \in 1..(Len(s) + 1)
               PROVE  /\ i < Len(s) + 1 => new[i].at = "js"
                      /\ new[i].at = "await" => new[i].await
    BY <1>5 DEF Shape
  <2>1. CASE i = Len(s) + 1
    BY <2>1, <1>2, <1>5
  <2>2. CASE i # Len(s) + 1
    <3>1. i \in 1..Len(s) /\ new[i] = low[i]
      BY <2>2, <1>2, <1>5
    <3>2. low[i].at = "js"
      <4>1. CASE i = Len(s)
        BY <4>1, <1>4
      <4>2. CASE i # Len(s)
        BY <4>2, <3>1, <1>2, <1>3, <1>4 DEF Shape
      <4> QED
        BY <4>1, <4>2
    <3> QED
      BY <3>1, <3>2, <1>2, <1>3, <1>4 DEF Shape
  <2> QED
    BY <2>1, <2>2
<1>8. MaxDepth \in Nat
  BY BoundsAssumption
<1>9. StackOK(new)
  BY <1>2, <1>5, <1>7, <1>8 DEF StackOK
<1> QED
  BY <1>2, <1>5, <1>6, <1>9 DEF low, Held, Locked, StackOK

\* Between no levels and one per frame.
LEMMA HeldBounds ==
  ASSUME NEW s, StackOK(s), s # <<>>
  PROVE  Held(s) \in 0..MaxDepth /\ (Locked(Last(s)) => Held(s) = Len(s) /\ Held(s) > 0)
<1>1. Len(s) \in Nat \ {0} /\ Len(s) <= MaxDepth /\ MaxDepth \in Nat
  BY LastFrame, BoundsAssumption DEF StackOK
<1> QED
  BY <1>1 DEF Held

-----------------------------------------------------------------------------
(* What a step does, whichever action it is: the stack of one thread       *)
(* becomes another, with as many levels as the step leaves the thread.     *)

LEMMA OneStack ==
  ASSUME VarsType, StacksInv, NEW t \in Thread, NEW s, StackOK(s),
         stack' = [stack EXCEPT ![t] = s]
  PROVE  /\ stack' \in [Thread -> Seq(Frame)] /\ stack'[t] = s
         /\ \A u \in Thread : u # t => stack'[u] = stack[u]
         /\ StacksInv'
<1>1. s \in Seq(Frame)
  BY DEF StackOK
<1>2. stack' \in [Thread -> Seq(Frame)] /\ stack'[t] = s
      /\ \A u \in Thread : u # t => stack'[u] = stack[u]
  BY <1>1 DEF VarsType
<1>3. \A u \in Thread : StackOK(stack'[u])
  BY <1>2 DEF StacksInv
<1> QED
  BY <1>2, <1>3 DEF StacksInv

\* Whoever holds a level owns the mutex, as deep as its levels.
LEMMA Owns ==
  ASSUME VarsType, LockInv, NEW t \in Thread
  PROVE  /\ Held(stack[t]) # 0 => owner = t /\ depth = Held(stack[t])
         /\ owner # t => Held(stack[t]) = 0
         /\ owner = t => depth = Held(stack[t]) /\ depth > 0
<1>1. Held(stack[t]) = IF owner = t THEN depth ELSE 0
  BY DEF LockInv
<1>2. owner = t => owner # NoOne
  BY NoOneAssumption
<1>3. owner # NoOne => depth # 0
  BY DEF LockInv
<1>4. depth \in Nat
  BY BoundsAssumption DEF VarsType
<1> QED
  BY <1>1, <1>2, <1>3, <1>4

LEMMA LevelsKept ==
  ASSUME VarsType, LockInv, NEW t \in Thread, NEW s, Held(s) = Held(stack[t]),
         stack'[t] = s, \A u \in Thread : u # t => stack'[u] = stack[u],
         UNCHANGED lockVars
  PROVE  LockInv' /\ owner' \in Thread \cup {NoOne} /\ depth' \in 0..MaxDepth
<1>1. \A u \in Thread : Held(stack'[u]) = Held(stack[u])
  OBVIOUS
<1>2. owner' = owner /\ depth' = depth
  BY DEF lockVars
<1> QED
  BY <1>1, <1>2 DEF LockInv, VarsType

LEMMA LevelTaken ==
  ASSUME VarsType, LockInv, NEW t \in Thread, NEW s,
         Held(s) = Held(stack[t]) + 1, Held(s) \in 0..MaxDepth,
         stack'[t] = s, \A u \in Thread : u # t => stack'[u] = stack[u],
         Lock(t)
  PROVE  LockInv' /\ owner' \in Thread \cup {NoOne} /\ depth' \in 0..MaxDepth
<1>1. owner \in {NoOne, t} /\ owner' = t /\ depth' = depth + 1
  BY DEF Lock, FreeFor
<1>2. depth \in Nat /\ MaxDepth \in Nat /\ t # NoOne
  BY BoundsAssumption, NoOneAssumption DEF VarsType
<1>3. depth = Held(stack[t])
  <2>1. CASE owner = t
    BY <2>1, Owns
  <2>2. CASE owner = NoOne
    BY <2>2, <1>2, Owns DEF LockInv
  <2> QED
    BY <2>1, <2>2, <1>1
<1>4. depth' = Held(s) /\ depth' # 0
  BY <1>1, <1>2, <1>3
<1>5. \A u \in Thread : u # t => Held(stack'[u]) = 0
  <2> SUFFICES ASSUME NEW u \in Thread, u # t PROVE Held(stack[u]) = 0
    OBVIOUS
  <2>1. owner # u
    BY <1>1, NoOneAssumption
  <2> QED
    BY <2>1, Owns
<1> QED
  BY <1>1, <1>2, <1>4, <1>5 DEF LockInv

LEMMA LevelGivenUp ==
  ASSUME VarsType, LockInv, NEW t \in Thread, NEW s,
         Held(stack[t]) # 0, Held(s) = Held(stack[t]) - 1,
         stack'[t] = s, \A u \in Thread : u # t => stack'[u] = stack[u],
         Unlock(t)
  PROVE  LockInv' /\ owner' \in Thread \cup {NoOne} /\ depth' \in 0..MaxDepth
<1>1. owner = t /\ depth = Held(stack[t]) /\ depth > 0
  BY Owns
<1>2. depth \in Nat /\ MaxDepth \in Nat /\ t # NoOne /\ depth <= MaxDepth
  BY BoundsAssumption, NoOneAssumption DEF VarsType
<1>3. depth' = depth - 1 /\ owner' = IF depth = 1 THEN NoOne ELSE t
  BY <1>1 DEF Unlock
<1>4. depth' = Held(s) /\ (owner' = NoOne <=> depth' = 0) /\ owner' \in {NoOne, t}
  BY <1>1, <1>2, <1>3
<1>5. \A u \in Thread : u # t => Held(stack'[u]) = 0 /\ owner' # u
  <2> SUFFICES ASSUME NEW u \in Thread, u # t
               PROVE  Held(stack[u]) = 0 /\ owner' # u
    OBVIOUS
  <2> QED
    BY <1>1, <1>4, NoOneAssumption, Owns
<1>6. Held(stack'[t]) = IF owner' = t THEN depth' ELSE 0
  BY <1>2, <1>4
<1> QED
  BY <1>1, <1>2, <1>3, <1>4, <1>5, <1>6 DEF LockInv

\* t gets the stack s, and takes, gives up or keeps its levels.
Moves(t, s) ==
  /\ StackOK(s)
  /\ stack' = [stack EXCEPT ![t] = s]
  /\ \/ UNCHANGED lockVars /\ Held(s) = Held(stack[t])
     \/ Lock(t) /\ Held(s) = Held(stack[t]) + 1 /\ Held(s) \in 0..MaxDepth
     \/ Unlock(t) /\ Held(stack[t]) # 0 /\ Held(s) = Held(stack[t]) - 1

\* Promises and records keep their types, and no other thread in newPromise
\* loses its record.
Promises(t, s) ==
  /\ state' \in [Promise -> {"none", "pending", "settled"}]
  /\ record' \in [Promise -> {"none", "live", "deleted"}]
  /\ accepted' \in Seq(Promise \cup Loop)
  /\ s # <<>> /\ Last(s).at = "made" =>
       Last(s).promise \in Promise /\ record'[Last(s).promise] = "live"
  /\ \A u \in Thread :
       u # t /\ At(u, "made") => record'[Top(u).promise] = "live"

LEMMA StepKeepsInv ==
  ASSUME IInv, NEW t \in Thread, NEW s, Moves(t, s), Promises(t, s)
  PROVE  IInv'
<1>1. VarsType /\ StacksInv /\ LockInv /\ RecordInv
  BY DEF IInv
<1>2. StackOK(s) /\ stack' = [stack EXCEPT ![t] = s]
  BY DEF Moves
<1>3. /\ stack' \in [Thread -> Seq(Frame)] /\ stack'[t] = s
      /\ \A u \in Thread : u # t => stack'[u] = stack[u]
      /\ StacksInv'
  BY <1>1, <1>2, OneStack
<1>4. LockInv' /\ owner' \in Thread \cup {NoOne} /\ depth' \in 0..MaxDepth
  BY <1>1, <1>3, LevelsKept, LevelTaken, LevelGivenUp DEF Moves
<1>5. VarsType'
  BY <1>3, <1>4 DEF VarsType, Promises
<1>6. RecordInv'
  <2> SUFFICES ASSUME NEW u \in Thread, At(u, "made")'
               PROVE  Top(u)'.promise \in Promise /\ record'[Top(u)'.promise] = "live"
    BY DEF RecordInv
  <2>1. CASE u = t
    BY <2>1, <1>3 DEF At, Top, Promises
  <2>2. CASE u # t
    <3>1. At(u, "made") /\ Top(u)' = Top(u)
      BY <2>2, <1>3 DEF At, Top
    <3> QED
      BY <3>1, <2>2, <1>1 DEF RecordInv, Promises
  <2> QED
    BY <2>1, <2>2
<1> QED
  BY <1>3, <1>4, <1>5, <1>6 DEF IInv

-----------------------------------------------------------------------------
(* The actions *)

\* The innermost frame of a thread that has one.
LEMMA TopFacts ==
  ASSUME IInv, NEW t \in Thread, NEW a, At(t, a)
  PROVE  /\ stack[t] # <<>> /\ StackOK(stack[t]) /\ Top(t) = Last(stack[t])
         /\ Top(t) \in Frame /\ Top(t).at = a
         /\ Len(stack[t]) \in Nat \ {0} /\ Held(stack[t]) \in 0..MaxDepth
         /\ Len(stack[t]) \in 0..MaxDepth
<1>1. stack[t] # <<>> /\ StackOK(stack[t]) /\ Top(t) = Last(stack[t]) /\ Top(t).at = a
  BY DEF At, Top, IInv, StacksInv
<1>2. MaxDepth \in Nat
  BY BoundsAssumption
<1> QED
  BY <1>1, <1>2, LastFrame, HeldBounds DEF StackOK

\* A step that leaves the promises alone and takes nobody into newPromise.
LEMMA PromisesKept ==
  ASSUME IInv, NEW t \in Thread, NEW s, UNCHANGED <<state, record, poolVars>>,
         s # <<>> => Last(s).at # "made"
  PROVE  Promises(t, s)
<1>1. state' = state /\ record' = record /\ accepted' = accepted
  BY DEF poolVars
<1> QED
  BY <1>1 DEF Promises, IInv, VarsType, RecordInv

LEMMA CallKeepsInv ==
  ASSUME IInv, NEW t \in Thread, NEW kind \in {"call", "load"}, NEW aw \in BOOLEAN,
         Call(t, kind, aw)
  PROVE  IInv'
<1> DEFINE f == NewCall(kind, aw)
<1>1. f \in Frame /\ f.at = "lock" /\ f.await = aw
  BY BoundsAssumption DEF NewCall, Frame
<1>2. UNCHANGED lockVars /\ UNCHANGED <<state, record, poolVars>>
  BY DEF Call
<1>3. CASE stack[t] = <<>>
  <2>1. stack' = [stack EXCEPT ![t] = <<f>>]
    BY <1>3 DEF Call
  <2> HIDE DEF f
  <2>2. StackOK(<<f>>) /\ Last(<<f>>) = f /\ Held(<<f>>) = 0
    BY <1>1, StartStack
  <2>3. Held(stack[t]) = 0
    BY <1>3 DEF Held
  <2>4. Moves(t, <<f>>)
    BY <1>2, <2>1, <2>2, <2>3 DEF Moves
  <2>5. Promises(t, <<f>>)
    BY <1>1, <1>2, <2>2, PromisesKept
  <2> QED
    BY <2>4, <2>5, StepKeepsInv
<1>4. CASE stack[t] # <<>>
  <2> DEFINE g == [Top(t) EXCEPT !.nested = Top(t).nested + 1]
  <2> DEFINE s == Append(Append(Front(stack[t]), g), f)
  <2>1. At(t, "js") /\ Len(stack[t]) < MaxDepth /\ Top(t).nested < MaxNested
    BY <1>4 DEF Call
  <2>2. stack' = [stack EXCEPT ![t] = s]
    BY <1>4 DEF Call
  <2>3. /\ stack[t] # <<>> /\ StackOK(stack[t]) /\ Top(t) = Last(stack[t])
        /\ Top(t) \in Frame /\ Top(t).at = "js"
    BY <2>1, TopFacts
  <2>4. g \in Frame /\ g.at = "js"
    BY <2>1, <2>3, BoundsAssumption DEF Frame
  <2> HIDE DEF f, g
  <2>5. StackOK(s) /\ s # <<>> /\ Last(s) = f /\ Held(s) = Held(stack[t])
    BY <1>1, <2>1, <2>3, <2>4, PushFrame
  <2> HIDE DEF s
  <2>6. Moves(t, s)
    BY <1>2, <2>2, <2>5 DEF Moves
  <2>7. Promises(t, s)
    BY <1>1, <1>2, <2>5, PromisesKept
  <2> QED
    BY <2>6, <2>7, StepKeepsInv
<1> QED
  BY <1>3, <1>4

\* SetTop on a stack of the right shape.
LEMMA SetTopMoves ==
  ASSUME IInv, NEW t \in Thread, NEW a, At(t, a), NEW f \in Frame, SetTop(t, f),
         f.at = "await" => f.await
  PROVE  LET s == Append(Front(stack[t]), f)
         IN  /\ StackOK(s) /\ s # <<>> /\ Last(s) = f
             /\ stack' = [stack EXCEPT ![t] = s]
             /\ Locked(f) = Locked(Top(t)) => Held(s) = Held(stack[t])
             /\ Locked(f) /\ ~Locked(Top(t)) =>
                  Held(s) = Held(stack[t]) + 1 /\ Held(s) \in 0..MaxDepth
             /\ ~Locked(f) /\ Locked(Top(t)) =>
                  Held(stack[t]) # 0 /\ Held(s) = Held(stack[t]) - 1
<1> DEFINE s == Append(Front(stack[t]), f)
<1>1. /\ stack[t] # <<>> /\ StackOK(stack[t]) /\ Top(t) = Last(stack[t])
      /\ Len(stack[t]) \in Nat \ {0} /\ Len(stack[t]) \in 0..MaxDepth
  BY TopFacts
<1>2. stack' = [stack EXCEPT ![t] = s]
  BY DEF SetTop
<1>3. /\ StackOK(s) /\ s # <<>> /\ Last(s) = f
      /\ Held(s) = IF Locked(f) THEN Len(stack[t]) ELSE Len(stack[t]) - 1
  BY <1>1, ReplaceTop
<1>4. Held(stack[t]) = IF Locked(Top(t)) THEN Len(stack[t]) ELSE Len(stack[t]) - 1
  BY <1>1 DEF Held
<1>5. Locked(f) \in BOOLEAN /\ Locked(Top(t)) \in BOOLEAN
  BY DEF Locked
<1> HIDE DEF s
<1> QED
  BY <1>1, <1>2, <1>3, <1>4, <1>5 DEF s

LEMMA EnterKeepsInv == ASSUME IInv, NEW t \in Thread, Enter(t) PROVE IInv'
<1> DEFINE f == [Top(t) EXCEPT !.at = "js"]
<1> DEFINE s == Append(Front(stack[t]), f)
<1>1. At(t, "lock") /\ Lock(t) /\ SetTop(t, f) /\ UNCHANGED <<state, record, poolVars>>
  BY DEF Enter
<1>2. Top(t) \in Frame /\ Top(t).at = "lock"
  BY <1>1, TopFacts
<1>3. f \in Frame /\ f.at = "js" /\ f.await = Top(t).await
  BY <1>2 DEF Frame
<1>4. Locked(f) /\ ~Locked(Top(t))
  BY <1>2, <1>3 DEF Locked
<1> HIDE DEF f
<1>5. /\ StackOK(s) /\ Last(s) = f /\ stack' = [stack EXCEPT ![t] = s]
      /\ Held(s) = Held(stack[t]) + 1 /\ Held(s) \in 0..MaxDepth
  BY <1>1, <1>3, <1>4, SetTopMoves
<1> HIDE DEF s
<1>6. Moves(t, s)
  BY <1>1, <1>5 DEF Moves
<1>7. Promises(t, s)
  BY <1>1, <1>3, <1>5, PromisesKept
<1> QED
  BY <1>6, <1>7, StepKeepsInv

LEMMA PromiseMadeKeepsInv == ASSUME IInv, NEW t \in Thread, PromiseMade(t) PROVE IInv'
<1> DEFINE f == [Top(t) EXCEPT !.at = "js"]
<1> DEFINE s == Append(Front(stack[t]), f)
<1>1. /\ At(t, "made") /\ SetTop(t, f) /\ UNCHANGED lockVars
      /\ UNCHANGED <<state, record, poolVars>>
  BY DEF PromiseMade
<1>2. Top(t) \in Frame /\ Top(t).at = "made"
  BY <1>1, TopFacts
<1>3. f \in Frame /\ f.at = "js" /\ f.await = Top(t).await
  BY <1>2 DEF Frame
<1>4. Locked(f) = Locked(Top(t))
  BY <1>2, <1>3 DEF Locked
<1> HIDE DEF f
<1>5. /\ StackOK(s) /\ Last(s) = f /\ stack' = [stack EXCEPT ![t] = s]
      /\ Held(s) = Held(stack[t])
  BY <1>1, <1>3, <1>4, SetTopMoves
<1> HIDE DEF s
<1>6. Moves(t, s)
  BY <1>1, <1>5 DEF Moves
<1>7. Promises(t, s)
  BY <1>1, <1>3, <1>5, PromisesKept
<1> QED
  BY <1>6, <1>7, StepKeepsInv

\* Leaving the innermost frame.
LEMMA ReturnMoves ==
  ASSUME IInv, NEW t \in Thread, NEW a, At(t, a), Return(t)
  PROVE  LET s == Front(stack[t])
         IN  /\ StackOK(s)
             /\ s # <<>> => Last(s).at # "made"
             /\ stack' = [stack EXCEPT ![t] = s]
             /\ Locked(Top(t)) => Held(stack[t]) # 0 /\ Held(s) = Held(stack[t]) - 1
             /\ ~Locked(Top(t)) => Held(s) = Held(stack[t])
<1> DEFINE s == Front(stack[t])
<1>1. /\ stack[t] # <<>> /\ StackOK(stack[t]) /\ Top(t) = Last(stack[t])
      /\ Len(stack[t]) \in Nat \ {0}
  BY TopFacts
<1>2. stack' = [stack EXCEPT ![t] = s]
  BY DEF Return
<1>3. /\ StackOK(s) /\ Held(s) = Len(stack[t]) - 1
      /\ s # <<>> => Last(s).at = "js"
  BY <1>1, DropTop
<1>4. Held(stack[t]) = IF Locked(Top(t)) THEN Len(stack[t]) ELSE Len(stack[t]) - 1
  BY <1>1 DEF Held
<1> HIDE DEF s
<1> QED
  BY <1>1, <1>2, <1>3, <1>4 DEF s

LEMMA NewPromiseKeepsInv ==
  ASSUME IInv, NEW t \in Thread, NEW p \in Promise, NewPromise(t, p)
  PROVE  IInv'
<1> DEFINE f == [Top(t) EXCEPT !.at = "made", !.promise = p]
<1> DEFINE s == Append(Front(stack[t]), f)
<1>1. /\ At(t, "js") /\ SetTop(t, f) /\ UNCHANGED lockVars
      /\ state' = [state EXCEPT ![p] = "pending"]
      /\ record' = [record EXCEPT ![p] = "live"]
      /\ accepted' = Append(accepted, p)
  BY DEF NewPromise, Pool!Accept
<1>2. Top(t) \in Frame /\ Top(t).at = "js"
  BY <1>1, TopFacts
<1>3. f \in Frame /\ f.at = "made" /\ f.await = Top(t).await /\ f.promise = p
  BY <1>2 DEF Frame
<1>4. Locked(f) = Locked(Top(t))
  BY <1>2, <1>3 DEF Locked
<1> HIDE DEF f
<1>5. /\ StackOK(s) /\ Last(s) = f /\ stack' = [stack EXCEPT ![t] = s]
      /\ Held(s) = Held(stack[t])
  BY <1>1, <1>3, <1>4, SetTopMoves
<1> HIDE DEF s
<1>6. Moves(t, s)
  BY <1>1, <1>5 DEF Moves
<1>7. /\ state' \in [Promise -> {"none", "pending", "settled"}]
      /\ record' \in [Promise -> {"none", "live", "deleted"}]
      /\ accepted' \in Seq(Promise \cup Loop)
      /\ record'[p] = "live" /\ \A q \in Promise : q # p => record'[q] = record[q]
  BY <1>1 DEF IInv, VarsType
<1>8. \A u \in Thread : At(u, "made") => record'[Top(u).promise] = "live"
  BY <1>7 DEF IInv, RecordInv
<1>9. Promises(t, s)
  BY <1>3, <1>5, <1>7, <1>8 DEF Promises
<1> QED
  BY <1>6, <1>9, StepKeepsInv

LEMMA ReturnedKeepsInv == ASSUME IInv, NEW t \in Thread, Returned(t) PROVE IInv'
<1>1. /\ At(t, "js") /\ Unlock(t) /\ UNCHANGED <<state, record, poolVars>>
  BY DEF Returned
<1>2. Top(t) \in Frame /\ Top(t).at = "js"
  BY <1>1, TopFacts
<1>3. PICK q \in {NoOne, Top(t).promise}, thrown \in BOOLEAN :
        SetTop(t, [Top(t) EXCEPT
                     !.at = IF Top(t).await /\ ~thrown THEN "await" ELSE "read",
                     !.promise = IF thrown THEN NoOne ELSE q])
  BY DEF Returned
<1> DEFINE f == [Top(t) EXCEPT
                   !.at = IF Top(t).await /\ ~thrown THEN "await" ELSE "read",
                   !.promise = IF thrown THEN NoOne ELSE q]
<1> DEFINE s == Append(Front(stack[t]), f)
<1>4. /\ f \in Frame /\ f.await = Top(t).await /\ f.at \in {"await", "read"}
      /\ f.at = "await" => f.await
  BY <1>2 DEF Frame
<1>5. ~Locked(f) /\ Locked(Top(t))
  BY <1>2, <1>4 DEF Locked
<1>6. SetTop(t, f)
  BY <1>3
<1> HIDE DEF f
<1>7. /\ StackOK(s) /\ Last(s) = f /\ stack' = [stack EXCEPT ![t] = s]
      /\ Held(stack[t]) # 0 /\ Held(s) = Held(stack[t]) - 1
  BY <1>1, <1>4, <1>5, <1>6, SetTopMoves
<1> HIDE DEF s
<1>8. Moves(t, s)
  BY <1>1, <1>7 DEF Moves
<1>9. Promises(t, s)
  BY <1>1, <1>4, <1>7, PromisesKept
<1> QED
  BY <1>8, <1>9, StepKeepsInv

LEMMA LoadedKeepsInv == ASSUME IInv, NEW t \in Thread, Loaded(t) PROVE IInv'
<1> DEFINE s == Front(stack[t])
<1>1. At(t, "js") /\ Unlock(t) /\ Return(t) /\ UNCHANGED <<state, record, poolVars>>
  BY DEF Loaded
<1>2. Locked(Top(t))
  BY <1>1, TopFacts DEF Locked
<1>3. /\ StackOK(s)
      /\ s # <<>> => Last(s).at # "made"
      /\ stack' = [stack EXCEPT ![t] = s]
      /\ Held(stack[t]) # 0 /\ Held(s) = Held(stack[t]) - 1
  BY <1>1, <1>2, ReturnMoves
<1> HIDE DEF s
<1>4. Moves(t, s)
  BY <1>1, <1>3 DEF Moves
<1> QED
  BY <1>1, <1>3, <1>4, PromisesKept, StepKeepsInv

LEMMA AwaitOverKeepsInv == ASSUME IInv, NEW t \in Thread, AwaitOver(t) PROVE IInv'
<1> DEFINE f == [Top(t) EXCEPT !.at = "read"]
<1> DEFINE s == Append(Front(stack[t]), f)
<1>1. /\ At(t, "await") /\ SetTop(t, f) /\ UNCHANGED lockVars
      /\ UNCHANGED <<state, record, poolVars>>
  BY DEF AwaitOver
<1>2. Top(t) \in Frame /\ Top(t).at = "await"
  BY <1>1, TopFacts
<1>3. f \in Frame /\ f.at = "read" /\ f.await = Top(t).await
  BY <1>2 DEF Frame
<1>4. Locked(f) = Locked(Top(t))
  BY <1>2, <1>3 DEF Locked
<1> HIDE DEF f
<1>5. /\ StackOK(s) /\ Last(s) = f /\ stack' = [stack EXCEPT ![t] = s]
      /\ Held(s) = Held(stack[t])
  BY <1>1, <1>3, <1>4, SetTopMoves
<1> HIDE DEF s
<1>6. Moves(t, s)
  BY <1>1, <1>5 DEF Moves
<1>7. Promises(t, s)
  BY <1>1, <1>3, <1>5, PromisesKept
<1> QED
  BY <1>6, <1>7, StepKeepsInv

LEMMA CallOverKeepsInv == ASSUME IInv, NEW t \in Thread, CallOver(t) PROVE IInv'
<1> DEFINE s == Front(stack[t])
<1>1. /\ At(t, "read") /\ Return(t) /\ UNCHANGED lockVars
      /\ UNCHANGED <<state, record, poolVars>>
  BY DEF CallOver
<1>2. ~Locked(Top(t))
  BY <1>1, TopFacts DEF Locked
<1>3. /\ StackOK(s)
      /\ s # <<>> => Last(s).at # "made"
      /\ stack' = [stack EXCEPT ![t] = s] /\ Held(s) = Held(stack[t])
  BY <1>1, <1>2, ReturnMoves
<1> HIDE DEF s
<1>4. Moves(t, s)
  BY <1>1, <1>3 DEF Moves
<1> QED
  BY <1>1, <1>3, <1>4, PromisesKept, StepKeepsInv

LEMMA WorkerIsThread == Worker \subseteq Thread
  BY DEF Thread

LEMMA TaskBeginsKeepsInv == ASSUME IInv, NEW w \in Worker, TaskBegins(w) PROVE IInv'
<1>1. PICK k \in 1..Len(accepted) :
        Pool!Begin(k) /\ stack' = [stack EXCEPT ![w] = <<NewTask(accepted[k])>>]
  BY DEF TaskBegins
<1>2. /\ stack[w] = <<>> /\ UNCHANGED lockVars /\ state' = state /\ record' = record
      /\ accepted' = accepted /\ w \in Thread
  BY <1>1, WorkerIsThread DEF TaskBegins, Pool!Begin
<1> DEFINE f == NewTask(accepted[k])
<1>3. accepted[k] \in Promise \cup Loop
  BY <1>1 DEF IInv, VarsType
<1>4. f \in Frame /\ f.at = "lock"
  BY <1>3, BoundsAssumption DEF NewTask, Frame
<1>5. stack' = [stack EXCEPT ![w] = <<f>>]
  BY <1>1
<1> HIDE DEF f
<1>6. StackOK(<<f>>) /\ Last(<<f>>) = f /\ Held(<<f>>) = 0
  BY <1>4, StartStack
<1>7. Held(stack[w]) = 0
  BY <1>2 DEF Held
<1>8. Moves(w, <<f>>)
  BY <1>2, <1>5, <1>6, <1>7 DEF Moves
<1>9. Promises(w, <<f>>)
  BY <1>2, <1>4, <1>6 DEF Promises, IInv, VarsType, RecordInv
<1> QED
  BY <1>2, <1>8, <1>9, StepKeepsInv

LEMMA TaskOverKeepsInv == ASSUME IInv, NEW w \in Worker, TaskOver(w) PROVE IInv'
<1> DEFINE s == Front(stack[w])
<1>1. /\ At(w, "js") /\ Unlock(w) /\ Return(w) /\ w \in Thread
      /\ state' = [state EXCEPT ![Top(w).promise] = "settled"]
      /\ record' = [record EXCEPT ![Top(w).promise] = "deleted"]
      /\ accepted' = accepted
  BY WorkerIsThread DEF TaskOver, Pool!Finish
<1>2. Locked(Top(w))
  BY <1>1, TopFacts DEF Locked
<1>3. /\ StackOK(s)
      /\ s # <<>> => Last(s).at # "made"
      /\ stack' = [stack EXCEPT ![w] = s]
      /\ Held(stack[w]) # 0 /\ Held(s) = Held(stack[w]) - 1
  BY <1>1, <1>2, ReturnMoves
<1> HIDE DEF s
<1>4. Moves(w, s)
  BY <1>1, <1>3 DEF Moves
<1>5. owner = w
  BY <1>1, <1>3, Owns DEF IInv
<1>6. \A u \in Thread : u # w => ~At(u, "made")
  <2> SUFFICES ASSUME NEW u \in Thread, u # w, At(u, "made") PROVE FALSE
    OBVIOUS
  <2>1. Held(stack[u]) # 0
    BY TopFacts, HeldBounds DEF Locked
  <2> QED
    BY <2>1, <1>5, Owns DEF IInv
<1>7. /\ state' \in [Promise -> {"none", "pending", "settled"}]
      /\ record' \in [Promise -> {"none", "live", "deleted"}]
      /\ accepted' \in Seq(Promise \cup Loop)
  BY <1>1 DEF IInv, VarsType
<1>8. Promises(w, s)
  BY <1>3, <1>6, <1>7 DEF Promises
<1> QED
  BY <1>1, <1>4, <1>8, StepKeepsInv

LEMMA GaveUpKeepsInv == ASSUME IInv, NEW w \in Worker, GaveUp(w) PROVE IInv'
<1> DEFINE s == Front(stack[w])
<1>1. /\ At(w, "lock") /\ Return(w) /\ w \in Thread /\ UNCHANGED lockVars
      /\ state' = state /\ record' = record /\ accepted' = accepted
  BY WorkerIsThread DEF GaveUp, Pool!Finish
<1>2. ~Locked(Top(w))
  BY <1>1, TopFacts DEF Locked
<1>3. /\ StackOK(s)
      /\ s # <<>> => Last(s).at # "made"
      /\ stack' = [stack EXCEPT ![w] = s] /\ Held(s) = Held(stack[w])
  BY <1>1, <1>2, ReturnMoves
<1> HIDE DEF s
<1>4. Moves(w, s)
  BY <1>1, <1>3 DEF Moves
<1>5. Promises(w, s)
  BY <1>1, <1>3 DEF Promises, IInv, VarsType, RecordInv
<1> QED
  BY <1>1, <1>4, <1>5, StepKeepsInv

LEMMA LoopOverKeepsInv == ASSUME IInv, NEW w \in Worker, LoopOver(w) PROVE IInv'
<1> DEFINE s == Front(stack[w])
<1>1. /\ At(w, "js") /\ Unlock(w) /\ Return(w) /\ w \in Thread
      /\ state' = state /\ record' = record /\ accepted' = accepted
  BY WorkerIsThread DEF LoopOver, Pool!Finish
<1>2. Locked(Top(w))
  BY <1>1, TopFacts DEF Locked
<1>3. /\ StackOK(s)
      /\ s # <<>> => Last(s).at # "made"
      /\ stack' = [stack EXCEPT ![w] = s]
      /\ Held(stack[w]) # 0 /\ Held(s) = Held(stack[w]) - 1
  BY <1>1, <1>2, ReturnMoves
<1> HIDE DEF s
<1>4. Moves(w, s)
  BY <1>1, <1>3 DEF Moves
<1>5. Promises(w, s)
  BY <1>1, <1>3 DEF Promises, IInv, VarsType, RecordInv
<1> QED
  BY <1>1, <1>4, <1>5, StepKeepsInv

-----------------------------------------------------------------------------
(* The theorems *)

LEMMA InitInv == Init => IInv
<1> SUFFICES ASSUME Init PROVE IInv
  OBVIOUS
<1>1. MaxDepth \in Nat \ {0}
  BY BoundsAssumption
<1>2. VarsType
  BY <1>1 DEF Init, VarsType, Loop
<1>3. \A t \in Thread : stack[t] = <<>>
  BY DEF Init
<1>4. StackOK(<<>>) /\ Held(<<>>) = 0
  BY <1>1 DEF StackOK, Shape, Held
<1>5. StacksInv
  BY <1>3, <1>4 DEF StacksInv
<1>6. LockInv
  BY <1>3, <1>4, NoOneAssumption DEF LockInv, Init
<1>7. RecordInv
  BY <1>3 DEF RecordInv, At
<1> QED
  BY <1>2, <1>5, <1>6, <1>7 DEF IInv

LEMMA NextInv == IInv /\ [Next]_vars => IInv'
<1> SUFFICES ASSUME IInv, [Next]_vars PROVE IInv'
  OBVIOUS
<1>1. ASSUME NEW t \in Thread, CallStep(t) PROVE IInv'
  BY <1>1, EnterKeepsInv, PromiseMadeKeepsInv, ReturnedKeepsInv, LoadedKeepsInv,
     AwaitOverKeepsInv, CallOverKeepsInv DEF CallStep
<1>2. ASSUME NEW w \in Worker, TaskStep(w) PROVE IInv'
  BY <1>2, TaskBeginsKeepsInv, TaskOverKeepsInv, GaveUpKeepsInv, LoopOverKeepsInv
     DEF TaskStep
<1>3. CASE UNCHANGED vars
  <2>1. /\ owner' = owner /\ depth' = depth /\ stack' = stack
        /\ state' = state /\ record' = record /\ accepted' = accepted
    BY <1>3 DEF vars, lockVars, poolVars
  <2> QED
    BY <2>1 DEF IInv, VarsType, StacksInv, LockInv, RecordInv, At, Top
<1> QED
  BY <1>1, <1>2, <1>3, CallKeepsInv, NewPromiseKeepsInv DEF Next

\* The inductive invariant of the VM's lock and its records (JSVM.cxx:131-358).
THEOREM Invariance == Spec => []IInv
  BY InitInv, NextInv, PTL DEF Spec

\* Every variable has its type; vmMutex is never locked deeper than a thread
\* may nest its calls (JSVM.cxx).
THEOREM TypeCorrectness == Spec => []TypeOK
<1>1. IInv => TypeOK
  BY DEF IInv, VarsType, TypeOK
<1> QED
  BY <1>1, Invariance, PTL

\* The frames of a stack of the right shape hold the levels Held counts.
LEMMA LevelsAreHeld == ASSUME NEW s, StackOK(s) PROVE Levels(s) = Held(s)
<1> DEFINE n == Held(s)
<1>1. s \in Seq(Frame) /\ Len(s) \in Nat /\ DOMAIN s = 1..Len(s)
  BY DEF StackOK
<1>2. n \in Nat
  BY <1>1, LastFrame DEF Held
<1>3. {i \in DOMAIN s : Locked(s[i])} = 1..n
  <2>1. CASE s = <<>>
    BY <2>1 DEF Held
  <2>2. CASE s # <<>>
    <3>1. \A i \in 1..Len(s) : i < Len(s) => Locked(s[i])
      BY <1>1 DEF StackOK, Shape, Locked
    <3>2. Len(s) \in Nat \ {0} /\ Last(s) = s[Len(s)]
      BY <2>2, <1>1, LastFrame
    <3>3. n = IF Locked(s[Len(s)]) THEN Len(s) ELSE Len(s) - 1
      BY <2>2, <3>2 DEF Held
    <3> HIDE DEF n
    <3> QED
      BY <1>1, <3>1, <3>2, <3>3
  <2> QED
    BY <2>1, <2>2
<1> HIDE DEF n
<1>4. Cardinality(1..n) = n
  BY <1>2, FS_Interval
<1> QED
  BY <1>3, <1>4 DEF Levels, n

\* Every path through callFunc, loadScript and a task of newPromise gives up
\* the levels of vmMutex it took, whatever is nested in it (JSVM.cxx:283-319).
THEOREM LockingIsBalanced == Spec => []LockBalanced
<1>1. IInv => LockBalanced
  BY LevelsAreHeld DEF IInv, StacksInv, LockInv, LockBalanced
<1> QED
  BY <1>1, Invariance, PTL

\* newPromise reads the record before the worker it gave it to deletes it
\* (JSVM.cxx:346, 139).
THEOREM RecordsOutliveTheirUse == Spec => []RecordOutlivesNewPromise
<1>1. IInv => RecordOutlivesNewPromise
  BY DEF IInv, RecordInv, RecordOutlivesNewPromise
<1> QED
  BY <1>1, Invariance, PTL

\* A step in which u keeps its stack and the lock, and no promise changes.
LEMMA BlockedStays ==
  ASSUME NEW u \in Thread, Blocks(u),
         stack'[u] = stack[u], owner' = u, state' = state
  PROVE  Blocks(u)'
BY DEF Blocks, At, Top

\* Whoever is in "js" or in newPromise owns the lock.
LEMMA InsideOwns ==
  ASSUME IInv, NEW t \in Thread, NEW a \in {"js", "made"}, At(t, a)
  PROVE  owner = t
<1>1. Held(stack[t]) # 0
  BY TopFacts, HeldBounds DEF Locked
<1> QED
  BY <1>1, Owns DEF IInv

\* What u does while it blocks: nothing.
LEMMA BlockedRests ==
  ASSUME IInv, NEW u \in Thread, Blocks(u)
  PROVE  /\ ~CallStep(u)
         /\ \A kind \in {"call", "load"}, aw \in BOOLEAN : ~Call(u, kind, aw)
         /\ \A p \in Promise : ~NewPromise(u, p)
         /\ ~TaskStep(u)
<1>1. /\ stack[u] # <<>> /\ Top(u).at = "await"
      /\ Top(u).promise # NoOne /\ state[Top(u).promise] = "pending"
  BY DEF Blocks, At
<1>2. ~CallStep(u)
  BY <1>1 DEF CallStep, Enter, PromiseMade, Returned, Loaded, AwaitOver, CallOver, At
<1>3. \A kind \in {"call", "load"}, aw \in BOOLEAN : ~Call(u, kind, aw)
  BY <1>1 DEF Call, At
<1>4. \A p \in Promise : ~NewPromise(u, p)
  BY <1>1 DEF NewPromise, At
<1>5. ~TaskStep(u)
  BY <1>1 DEF TaskStep, TaskBegins, TaskOver, GaveUp, LoopOver, At
<1> QED
  BY <1>2, <1>3, <1>4, <1>5

\* While u owns the lock, another thread settles nothing, makes no promise and
\* neither takes nor gives up a level.
LEMMA OthersWait ==
  ASSUME IInv, NEW u \in Thread, owner = u, NEW t \in Thread, t # u
  PROVE  /\ ~Lock(t) /\ ~At(t, "js") /\ ~At(t, "made")
<1>1. ~Lock(t)
  BY NoOneAssumption DEF Lock, FreeFor
<1> QED
  BY <1>1, InsideOwns

\* What a step may do to a thread that blocks.
LEMMA NextKeepsBlocked ==
  ASSUME IInv, [Next]_vars, NEW u \in Thread, Blocks(u)
  PROVE  Blocks(u)'
<1>1. owner = u /\ stack[u] # <<>>
  BY DEF Blocks, At
<1>2. ASSUME NEW t \in Thread, t # u, NEW s, stack' = [stack EXCEPT ![t] = s],
             UNCHANGED lockVars, state' = state
      PROVE  Blocks(u)'
  BY <1>1, <1>2, BlockedStays DEF IInv, VarsType, lockVars
<1>3. ASSUME NEW t \in Thread, NEW kind \in {"call", "load"}, NEW aw \in BOOLEAN,
             Call(t, kind, aw)
      PROVE  Blocks(u)'
  <2>1. t # u
    BY <1>3, BlockedRests
  <2>2. UNCHANGED lockVars /\ state' = state /\ \E s : stack' = [stack EXCEPT ![t] = s]
    BY <1>3 DEF Call
  <2> QED
    BY <1>2, <2>1, <2>2
<1>4. ASSUME NEW t \in Thread, NEW p \in Promise, NewPromise(t, p)
      PROVE  FALSE
  BY <1>1, <1>4, BlockedRests, OthersWait DEF NewPromise
<1>5. ASSUME NEW t \in Thread, CallStep(t) PROVE Blocks(u)'
  <2>1. t # u
    BY <1>5, BlockedRests
  <2>2. AwaitOver(t) \/ CallOver(t)
    BY <1>1, <1>5, <2>1, OthersWait DEF CallStep, Enter, PromiseMade, Returned, Loaded
  <2>3. UNCHANGED lockVars /\ state' = state /\ \E s : stack' = [stack EXCEPT ![t] = s]
    BY <2>2 DEF AwaitOver, CallOver, SetTop, Return
  <2> QED
    BY <1>2, <2>1, <2>3
<1>6. ASSUME NEW w \in Worker, TaskStep(w) PROVE Blocks(u)'
  <2>1. w # u /\ w \in Thread
    BY <1>6, BlockedRests, WorkerIsThread
  <2>2. TaskBegins(w) \/ GaveUp(w)
    BY <1>1, <1>6, <2>1, OthersWait DEF TaskStep, TaskOver, LoopOver
  <2>3. UNCHANGED lockVars /\ state' = state /\ \E s : stack' = [stack EXCEPT ![w] = s]
    BY <2>2 DEF TaskBegins, GaveUp, Return
  <2> QED
    BY <1>2, <2>1, <2>3
<1>7. CASE UNCHANGED vars
  BY <1>1, <1>7, BlockedStays DEF vars, lockVars
<1> QED
  BY <1>3, <1>4, <1>5, <1>6, <1>7 DEF Next

\* A nested call that awaits a promise that is still pending never returns:
\* only the owner of the lock settles promises, and it is the one that waits
\* (JSVM.cxx:151-184, 300).
THEOREM NestedAwaitsNeverEnd == Spec => NestedAwaitNeverEnds
<1>1. IInv /\ [Next]_vars => [\A t \in Thread : Blocks(t) => Blocks(t)']_vars
  BY NextKeepsBlocked
<1> QED
  BY <1>1, Invariance, PTL DEF Spec, NestedAwaitNeverEnds

=============================================================================
