---------------------------- MODULE KVConnection ----------------------------
(***************************************************************************)
(* DynXX::Core::Store::KV::Connection (src/core/store/KV.cxx): one MMKV    *)
(* instance, opened for several processes, behind a std::shared_mutex.     *)
(* Readers (read, contains, allKeys) lock it shared, writers (write,       *)
(* remove, clear) exclusively.  A read is two MMKV calls: containsKey, and *)
(* if the key is there, the getter, which yields a default value for a key *)
(* that is missing.  The mutex is of this process only.                    *)
(***************************************************************************)
CONSTANTS Thread,   \* threads that call into the connection
          Key, Val, \* keys and values
          Default,  \* what an MMKV getter yields for a missing key: "" or 0
          Missing,  \* no value
          Pending,  \* no call, no answer, nobody
          OutsideVal \* what other processes store; Missing if they remove

ASSUME ValuesAssumption ==
  Default \notin Val /\ Missing \notin Val /\ Pending \notin Val \cup Thread
ASSUME OutsideAssumption == OutsideVal \subseteq Val \cup {Missing}

VARIABLES
  data,     \* the contents of the MMKV file
  call,     \* the call each thread makes, or Pending
  answer,   \* what it will return, or Pending
  pc,       \* how far it got: "idle", "lock", "body", "get", "unlock"
  readers,  \* the threads that hold the shared_mutex shared
  writer    \* the thread that holds it exclusively, or Pending

lockVars == <<readers, writer>>
vars     == <<data, call, answer, pc, lockVars>>

Atomic == INSTANCE AtomicKV

ASSUME PendingAssumption == Pending \notin Atomic!Call

Reads(t) == call[t].op \in {"read", "contains", "allKeys"}

GoTo(t, from, to) == pc[t] = from /\ pc' = [pc EXCEPT ![t] = to]
Answer(t, a) == answer' = [answer EXCEPT ![t] = a]

Init ==
  /\ Atomic!Init
  /\ pc = [t \in Thread |-> "idle"]
  /\ readers = {}
  /\ writer = Pending

Invoke(t, c) ==
  /\ GoTo(t, "idle", "lock")
  /\ Atomic!Invoke(t, c)
  /\ UNCHANGED lockVars

\* A slip: the shared lock is not taken.
LockSharedNot(t) == UNCHANGED lockVars
\* std::shared_lock
LockShared(t) ==
  /\ writer = Pending
  /\ readers' = readers \cup {t}
  /\ UNCHANGED writer

\* std::unique_lock
LockUnique(t) ==
  /\ writer = Pending
  /\ readers = {}
  /\ writer' = t
  /\ UNCHANGED readers

Lock(t) ==
  /\ GoTo(t, "lock", "body")
  /\ IF Reads(t) THEN LockShared(t) ELSE LockUnique(t)
  /\ UNCHANGED <<data, call, answer>>

\* readString, readInteger, readFloat: containsKey ...
ContainsKey(t) ==
  /\ call[t] # Pending /\ call[t].op = "read"
  /\ IF data[call[t].key] = Missing
       THEN GoTo(t, "body", "unlock") /\ Answer(t, Missing)
       ELSE GoTo(t, "body", "get") /\ UNCHANGED answer
  /\ UNCHANGED <<data, call, lockVars>>

\* ... and then the getter.
Get(t) ==
  /\ GoTo(t, "get", "unlock")
  /\ LET v == data[call[t].key] IN Answer(t, IF v = Missing THEN Default ELSE v)
  /\ UNCHANGED <<data, call, lockVars>>

\* contains, allKeys, write, remove and clear: one MMKV call each, or two that
\* act as one.  write and remove return false when MMKV
\* cannot do it.
Body(t) ==
  /\ call[t] # Pending /\ call[t].op # "read"
  /\ GoTo(t, "body", "unlock")
  /\ \E o \in Atomic!Outcomes(call[t]) : data' = o.data /\ Answer(t, o.ret)
  /\ UNCHANGED <<call, lockVars>>

\* A slip: a writer leaves the mutex locked.
UnlockShared(t) == readers' = readers \ {t} /\ UNCHANGED writer
\* Leaving the scope of the lock.
Unlock(t) ==
  /\ readers' = readers \ {t}
  /\ writer' = IF writer = t THEN Pending ELSE writer

Return(t) ==
  /\ GoTo(t, "unlock", "idle")
  /\ Unlock(t)
  /\ Atomic!Return(t)

\* Another process, which has a mutex of its own.
OtherProcess(k, v) ==
  /\ Atomic!Outside(k, v)
  /\ UNCHANGED <<pc, lockVars>>

CallStep(t) == Lock(t) \/ ContainsKey(t) \/ Get(t) \/ Body(t) \/ Return(t)

Next ==
  \/ \E t \in Thread : (\E c \in Atomic!Call : Invoke(t, c)) \/ CallStep(t)
  \/ \E k \in Key, v \in OutsideVal : OtherProcess(k, v)

Spec == Init /\ [][Next]_vars

\* A thread takes the steps it can take, and the shared_mutex once it stays
\* free for it.  std::shared_mutex promises no more: readers whose calls keep
\* overlapping may hold a writer up for ever.  Nobody has to make a call.
FairSpec == Spec /\ \A t \in Thread : WF_vars(CallStep(t))

-----------------------------------------------------------------------------
(* Properties *)

\* Inside its lock.
Inside(t) == pc[t] \in {"body", "get", "unlock"}

\* The type of every variable; a thread holds the mutex inside its call and
\* in no other place, a writer alone.
TypeOK ==
  /\ data \in [Key -> Val \cup {Missing}]
  /\ \A t \in Thread : call[t] = Pending <=> pc[t] = "idle"
  /\ pc \in [Thread -> {"idle", "lock", "body", "get", "unlock"}]
  /\ readers = {t \in Thread : Inside(t) /\ Reads(t)}
  /\ \A t \in Thread : writer = t <=> Inside(t) /\ ~Reads(t)
  /\ writer \in Thread \cup {Pending}

\* Calls of the threads of one process are atomic, the two steps of a read
\* included (KV.cxx:36-66).
ImplementsAtomicKV == Atomic!Spec

\* Once no new calls are made, the readers and the writers that wait for the
\* shared_mutex of a connection (KV.hxx:48) let one another pass, and every
\* call returns.
NoNewCalls == \A t \in Thread : pc[t] = "idle" => pc'[t] = "idle"
EveryCallReturns ==
  <>[][NoNewCalls]_vars => <>[](\A t \in Thread : pc[t] = "idle")
=============================================================================
