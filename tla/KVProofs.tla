------------------------------ MODULE KVProofs ------------------------------
(***************************************************************************)
(* Proofs about a key-value connection, for any threads, keys and values:  *)
(* its calls are those of AtomicKV, as long as other processes do not      *)
(* remove keys.                                                            *)
(*                                                                         *)
(* A call takes effect in Body, or for a read in ContainsKey, when the key *)
(* is missing, or in Get.  The last needs that the key is still there: no  *)
(* writer is inside while a reader is, which is what the shared_mutex is   *)
(* for.                                                                    *)
(***************************************************************************)
EXTENDS KVConnection, TLAPS

\* A writer excludes readers.
ExclusionInv == writer = Pending \/ readers = {}

\* The calls under way, and none has an answer before its effect.
CallInv ==
  \A t \in Thread :
    /\ pc[t] # "idle" => call[t] \in Atomic!Call
    /\ pc[t] = "get" => call[t].op = "read" /\ data[call[t].key] # Missing
    /\ pc[t] # "unlock" => answer[t] = Pending

ShapeInv ==
  /\ call \in [Thread -> Atomic!Call \cup {Pending}]
  /\ DOMAIN answer = Thread

IInv == TypeOK /\ ShapeInv /\ ExclusionInv /\ CallInv

\* No other process removes a key (KV.cxx opens the file for several).
OthersKeepKeys == Missing \notin OutsideVal

-----------------------------------------------------------------------------
(* Calls, and what they may do *)

LEMMA CallFacts ==
  ASSUME NEW c \in Atomic!Call
  PROVE  /\ c.op \in {"read", "contains", "remove", "write", "allKeys", "clear"}
         /\ c.op \in {"read", "contains", "remove", "write"} => c.key \in Key
         /\ c.op = "write" => c.val \in Val
  BY DEF Atomic!Call

\* An outcome is a store again; a call that shares the lock leaves it as it is.
LEMMA OutcomeFacts ==
  ASSUME NEW c \in Atomic!Call, data \in [Key -> Val \cup {Missing}],
         NEW o \in Atomic!Outcomes(c)
  PROVE  /\ o.data \in [Key -> Val \cup {Missing}]
         /\ c.op \in {"read", "contains", "allKeys"} => o.data = data
<1>1. CASE c.op = "read"
  BY <1>1, CallFacts DEF Atomic!Outcomes, Atomic!Outcome
<1>2. CASE c.op = "contains"
  BY <1>2, CallFacts DEF Atomic!Outcomes, Atomic!Outcome
<1>3. CASE c.op = "allKeys"
  BY <1>3, CallFacts DEF Atomic!Outcomes, Atomic!Outcome
<1>4. CASE c.op = "remove"
  BY <1>4, CallFacts DEF Atomic!Outcomes, Atomic!Outcome
<1>5. CASE c.op = "clear"
  BY <1>5, CallFacts DEF Atomic!Outcomes, Atomic!Outcome
<1>6. CASE c.op = "write"
  BY <1>6, CallFacts DEF Atomic!Outcomes, Atomic!Outcome
<1> QED
  BY <1>1, <1>2, <1>3, <1>4, <1>5, <1>6, CallFacts

-----------------------------------------------------------------------------
LEMMA InitInv == Init => IInv
  BY ValuesAssumption DEF Init, Atomic!Init, IInv, TypeOK, ShapeInv, ExclusionInv, CallInv, Inside

LEMMA InvokeStep ==
  ASSUME IInv, NEW t \in Thread, NEW c \in Atomic!Call, Invoke(t, c) PROVE IInv'
<1> USE PendingAssumption DEF IInv, Invoke, GoTo, Atomic!Invoke, lockVars
<1>1. TypeOK'
  BY DEF TypeOK, ShapeInv, Inside, Reads
<1>2. ShapeInv' /\ ExclusionInv' /\ CallInv'
  BY DEF TypeOK, ShapeInv, ExclusionInv, CallInv
<1> QED
  BY <1>1, <1>2

LEMMA LockStep == ASSUME IInv, NEW t \in Thread, Lock(t) PROVE IInv'
<1> USE ValuesAssumption DEF IInv, Lock, GoTo, LockShared, LockUnique
<1>1. TypeOK'
  <2>1. CASE Reads(t)
    BY <2>1 DEF TypeOK, Inside, Reads
  <2>2. CASE ~Reads(t)
    BY <2>2 DEF TypeOK, Inside, Reads
  <2> QED
    BY <2>1, <2>2
<1>2. ShapeInv' /\ ExclusionInv' /\ CallInv'
  BY DEF TypeOK, ShapeInv, ExclusionInv, CallInv
<1> QED
  BY <1>1, <1>2

LEMMA ContainsKeyStep == ASSUME IInv, NEW t \in Thread, ContainsKey(t) PROVE IInv'
<1> USE DEF IInv, ContainsKey, GoTo, Answer, lockVars
<1>1. TypeOK'
  BY DEF TypeOK, Inside, Reads
<1>2. ShapeInv' /\ ExclusionInv' /\ CallInv'
  BY DEF TypeOK, ShapeInv, ExclusionInv, CallInv
<1> QED
  BY <1>1, <1>2

LEMMA GetStep == ASSUME IInv, NEW t \in Thread, Get(t) PROVE IInv'
<1> USE DEF IInv, Get, GoTo, Answer, lockVars
<1>1. TypeOK'
  BY DEF TypeOK, Inside, Reads
<1>2. ShapeInv' /\ ExclusionInv' /\ CallInv'
  BY DEF TypeOK, ShapeInv, ExclusionInv, CallInv
<1> QED
  BY <1>1, <1>2

\* If it changes the store it is the writer, and no read is between its steps.
LEMMA BodyStep == ASSUME IInv, NEW t \in Thread, Body(t) PROVE IInv'
<1> USE DEF IInv
<1>1. call[t] \in Atomic!Call /\ pc[t] = "body"
  BY DEF Body, GoTo, CallInv
<1>2. PICK o \in Atomic!Outcomes(call[t]) :
        data' = o.data /\ answer' = [answer EXCEPT ![t] = o.ret]
  BY DEF Body, Answer
<1>3. /\ pc' = [pc EXCEPT ![t] = "unlock"]
      /\ UNCHANGED <<call, readers, writer>>
  BY DEF Body, GoTo, lockVars
<1>4. data' \in [Key -> Val \cup {Missing}]
  BY <1>1, <1>2, OutcomeFacts DEF TypeOK
<1>5. TypeOK'
  BY <1>1, <1>3, <1>4 DEF TypeOK, Inside, Reads
<1>6. ShapeInv' /\ ExclusionInv'
  BY <1>2, <1>3 DEF ShapeInv, ExclusionInv
<1>7. ASSUME NEW r \in Thread, pc[r] = "get" PROVE data' = data
  <2>1. r \in readers
    BY <1>7 DEF TypeOK, Inside, Reads, CallInv
  <2>2. writer # t
    BY <2>1, ValuesAssumption DEF ExclusionInv
  <2>3. call[t].op \in {"read", "contains", "allKeys"}
    BY <1>1, <2>2 DEF TypeOK, Inside, Reads
  <2> QED
    BY <1>1, <1>2, <2>3, OutcomeFacts DEF TypeOK
<1>8. CallInv'
  BY <1>1, <1>2, <1>3, <1>7 DEF CallInv, TypeOK, ShapeInv
<1> QED
  BY <1>5, <1>6, <1>8

LEMMA ReturnStep == ASSUME IInv, NEW t \in Thread, Return(t) PROVE IInv'
<1> USE ValuesAssumption DEF IInv, Return, GoTo, Unlock, Atomic!Return
<1>1. TypeOK'
  BY DEF TypeOK, ShapeInv, Inside, Reads
<1>2. ShapeInv' /\ ExclusionInv' /\ CallInv'
  BY DEF TypeOK, ShapeInv, ExclusionInv, CallInv
<1> QED
  BY <1>1, <1>2

LEMMA OtherProcessStep ==
  ASSUME OthersKeepKeys, IInv, NEW k \in Key, NEW v \in OutsideVal, OtherProcess(k, v)
  PROVE  IInv'
<1> USE OutsideAssumption
        DEF IInv, OthersKeepKeys, OtherProcess, Atomic!Outside, lockVars
<1>1. TypeOK'
  BY DEF TypeOK, Inside, Reads
<1>2. ShapeInv' /\ ExclusionInv' /\ CallInv'
  BY DEF TypeOK, ShapeInv, ExclusionInv, CallInv
<1> QED
  BY <1>1, <1>2

LEMMA NextInv == ASSUME OthersKeepKeys, IInv, [Next]_vars PROVE IInv'
<1>1. CASE UNCHANGED vars
  BY <1>1 DEF vars, lockVars, IInv, TypeOK, ShapeInv, ExclusionInv, CallInv, Inside, Reads
<1>2. ASSUME NEW t \in Thread, CallStep(t) PROVE IInv'
  BY <1>2, LockStep, ContainsKeyStep, GetStep, BodyStep, ReturnStep DEF CallStep
<1> QED
  BY <1>1, <1>2, InvokeStep, OtherProcessStep DEF Next

-----------------------------------------------------------------------------
(* Every step is a step of the atomic store, or none of its *)

LEMMA ContainsKeyRefines ==
  ASSUME IInv, NEW t \in Thread, ContainsKey(t) PROVE [Atomic!Next]_(Atomic!vars)
<1>1. CASE data[call[t].key] = Missing
  <2>1. answer' = [answer EXCEPT ![t] = data[call[t].key]] /\ UNCHANGED <<data, call>>
    BY <1>1 DEF ContainsKey, Answer
  <2>2. Atomic!Outcome(data, data[call[t].key]) \in Atomic!Outcomes(call[t])
    BY DEF ContainsKey, Atomic!Outcomes
  <2>3. answer[t] = Pending /\ call[t] # Pending
    BY <1>1 DEF IInv, CallInv, ContainsKey, GoTo
  <2>4. Atomic!TakeEffect(t)
    BY <2>1, <2>2, <2>3 DEF Atomic!TakeEffect, Atomic!Outcome
  <2> QED
    BY <2>4 DEF Atomic!Next
<1>2. CASE data[call[t].key] # Missing
  BY <1>2 DEF ContainsKey, Atomic!vars
<1> QED
  BY <1>1, <1>2

LEMMA GetRefines ==
  ASSUME IInv, NEW t \in Thread, Get(t) PROVE Atomic!TakeEffect(t)
<1>1. /\ call[t].op = "read" /\ data[call[t].key] # Missing
      /\ answer[t] = Pending /\ call[t] # Pending
  BY PendingAssumption DEF IInv, CallInv, Get, GoTo
<1>2. answer' = [answer EXCEPT ![t] = data[call[t].key]] /\ UNCHANGED <<data, call>>
  BY <1>1 DEF Get, Answer
<1>3. Atomic!Outcome(data, data[call[t].key]) \in Atomic!Outcomes(call[t])
  BY <1>1 DEF Atomic!Outcomes
<1> QED
  BY <1>1, <1>2, <1>3 DEF Atomic!TakeEffect, Atomic!Outcome

LEMMA BodyRefines ==
  ASSUME IInv, NEW t \in Thread, Body(t) PROVE Atomic!TakeEffect(t)
<1>1. answer[t] = Pending
  BY DEF IInv, CallInv, Body, GoTo
<1> QED
  BY <1>1 DEF Body, Answer, Atomic!TakeEffect

LEMMA NextRefines ==
  ASSUME IInv, [Next]_vars PROVE [Atomic!Next]_(Atomic!vars)
<1>1. CASE UNCHANGED vars
  BY <1>1 DEF vars, Atomic!vars
<1>2. ASSUME NEW t \in Thread, NEW c \in Atomic!Call, Invoke(t, c) PROVE Atomic!Next
  BY <1>2 DEF Invoke, Atomic!Next
<1>3. ASSUME NEW t \in Thread, CallStep(t) PROVE [Atomic!Next]_(Atomic!vars)
  <2>1. CASE Lock(t)
    BY <2>1 DEF Lock, Atomic!vars
  <2>2. CASE ContainsKey(t)
    BY <2>2, ContainsKeyRefines
  <2>3. CASE Get(t)
    BY <2>3, GetRefines DEF Atomic!Next
  <2>4. CASE Body(t)
    BY <2>4, BodyRefines DEF Atomic!Next
  <2>5. CASE Return(t)
    BY <2>5 DEF Return, Atomic!Next
  <2> QED
    BY <1>3, <2>1, <2>2, <2>3, <2>4, <2>5 DEF CallStep
<1>4. ASSUME NEW k \in Key, NEW v \in OutsideVal, OtherProcess(k, v) PROVE Atomic!Next
  BY <1>4 DEF OtherProcess, Atomic!Next
<1> QED
  BY <1>1, <1>2, <1>3, <1>4 DEF Next

-----------------------------------------------------------------------------
\* The inductive invariant of a connection (KV.cxx:36-114).
THEOREM Invariance == ASSUME OthersKeepKeys PROVE Spec => []IInv
<1>1. IInv /\ [Next]_vars => IInv'
  BY NextInv
<1> QED
  BY <1>1, InitInv, PTL DEF Spec

\* Every variable has its type, and the shared_mutex is held by those inside
\* (KV.cxx:36-114).
THEOREM TypeCorrectness == ASSUME OthersKeepKeys PROVE Spec => []TypeOK
<1>1. IInv => TypeOK
  BY DEF IInv
<1> QED
  BY <1>1, Invariance, PTL

\* The calls of one process are atomic (KV.cxx:36-114): initial states are
\* those of AtomicKV, and every step is one of AtomicKV or leaves its variables.
THEOREM CallsAreAtomic == ASSUME OthersKeepKeys PROVE Spec => ImplementsAtomicKV
<1>1. Init => Atomic!Init
  BY DEF Init
<1>2. IInv /\ [Next]_vars => [Atomic!Next]_(Atomic!vars)
  BY NextRefines
<1> QED
  BY <1>1, <1>2, Invariance, PTL DEF Spec, ImplementsAtomicKV, Atomic!Spec
=============================================================================
