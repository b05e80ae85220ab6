---------------------------- MODULE StoreProofs ----------------------------
(***************************************************************************)
(* Proofs about the connection pool and its handles, for any number of     *)
(* clients, ids and connections.                                           *)
(*                                                                         *)
(* The pool's mutex makes the look-up, the creation and the insertion of a *)
(* connection one: whoever creates holds it, so that the id is still       *)
(* without an entry when the connection is inserted.  Hence emplace always *)
(* inserts, no two ids share an object, and an entry stays as it is until  *)
(* the release, which no handle outlives: a handle is the pool's entry.    *)
(***************************************************************************)
EXTENDS Store, FiniteSetTheorems, TLAPS

\* While there is no store there is nothing in the pool and nobody is opening;
\* closeAll leaves the handles to nobody.
ReadyInv ==
  ~ready => /\ Quiet
            /\ \A i \in Id : conns[i] = Null
            /\ \A c \in Client, i \in Id : handle[c][i] = Null

\* No two ids share an object, and nobody closed the entry of an id that was
\* not closed.
PoolInv ==
  \A i \in Id :
    conns[i] # Null => /\ i \notin closed => life[conns[i]] = "live"
                       /\ life[conns[i]] # "unborn"
                       /\ \A j \in Id : conns[j] = conns[i] => j = i

\* Who opens knows what it opens; who creates does so for an id without an
\* entry, and what it has made belongs to nobody else.
OpenInv ==
  \A c \in Client :
    /\ pc[c] # "idle" => id[c] \in Id
    /\ pc[c] \in {"lock", "create"} => made[c] = Null
    /\ pc[c] = "idle" => made[c] = Null
    /\ pc[c] \in {"create", "emplace"} => conns[id[c]] = Null
    /\ pc[c] = "emplace" /\ made[c] # Null =>
         life[made[c]] = "live" /\ \A i \in Id : conns[i] # made[c]

\* What open returns, and what clients hold, is the pool's entry.
HandleInv ==
  /\ \A c \in Client : pc[c] = "get" => weak[c] \in {Null, conns[id[c]]}
  /\ \A c \in Client, i \in Id : handle[c][i] \in {Null, conns[i]}

\* Every live object is the pool's or its creator's.
OwnedInv ==
  \A o \in Conn :
    life[o] = "live" => \/ \E i \in Id : conns[i] = o
                        \/ \E c \in Client : pc[c] = "emplace" /\ made[c] = o

IInv == TypeOK /\ ReadyInv /\ PoolInv /\ OpenInv /\ HandleInv /\ OwnedInv

-----------------------------------------------------------------------------
LEMMA InitInv == ASSUME Init PROVE IInv
<1> USE NullAssumption DEF Init
<1>1. TypeOK
  BY DEF TypeOK
<1>2. ReadyInv /\ PoolInv /\ OpenInv /\ HandleInv /\ OwnedInv
  BY DEF ReadyInv, Quiet, PoolInv, OpenInv, HandleInv, OwnedInv
<1> QED
  BY <1>1, <1>2 DEF IInv

LEMMA ReleaseStep == ASSUME IInv, SdkRelease PROVE IInv'
<1> USE NullAssumption DEF IInv, SdkRelease, Quiet, openVars
<1>1. TypeOK'
  BY DEF TypeOK, Emptied, DeleteAll, Delete, Deleted
<1>2. ReadyInv' /\ PoolInv' /\ HandleInv'
  BY DEF ReadyInv, PoolInv, HandleInv, Emptied
<1>3. OpenInv'
  BY DEF OpenInv, Emptied
<1>4. OwnedInv'
  BY DEF OwnedInv, DeleteAll, Delete, Deleted, Pooled, TypeOK
<1> QED
  BY <1>1, <1>2, <1>3, <1>4

LEMMA OpenStep ==
  ASSUME IInv, NEW c \in Client, NEW i \in Id, Open(c, i) PROVE IInv'
<1> USE NullAssumption DEF IInv, Open, poolVars
<1>1. TypeOK'
  BY DEF TypeOK
<1>2. ReadyInv' /\ PoolInv' /\ OwnedInv'
  BY DEF ReadyInv, PoolInv, OwnedInv, TypeOK
<1>3. OpenInv' /\ HandleInv'
  BY DEF OpenInv, HandleInv, TypeOK
<1> QED
  BY <1>1, <1>2, <1>3

LEMMA FindStep == ASSUME IInv, NEW c \in Client, Find(c) PROVE IInv'
<1> USE NullAssumption DEF IInv, Find, Unlocked
<1>1. id[c] \in Id /\ conns[id[c]] \in Conn \cup {Null}
  BY DEF OpenInv, TypeOK
<1>2. TypeOK'
  <2>1. CASE Found(id[c])
    <3>1. weak' \in [Client -> Conn \cup {Null}]
      BY <1>1, <2>1 DEF TypeOK, Found
    <3>2. pc' = [pc EXCEPT ![c] = "get"] /\ mutex' = mutex
      BY <2>1
    <3>3. UNCHANGED <<ready, conns, life, id, made, handle, closed>>
      OBVIOUS
    <3> HIDE DEF Find
    <3>4. pc[c] = "lock"
      BY DEF Find
    <3>5. /\ pc' \in [Client -> {"idle", "lock", "create", "emplace", "get"}]
          /\ \A d \in Client : pc'[d] \in {"create", "emplace"} <=> mutex' = d
      BY <3>2, <3>4 DEF TypeOK
    <3> QED
      BY <3>1, <3>2, <3>3, <3>5 DEF TypeOK
  <2>2. CASE ~Found(id[c])
    BY <1>1, <2>2 DEF TypeOK
  <2> QED
    BY <2>1, <2>2
<1>3. ReadyInv' /\ PoolInv' /\ OwnedInv'
  BY DEF ReadyInv, Quiet, PoolInv, OwnedInv, TypeOK
<1>4. OpenInv' /\ HandleInv'
  <2>1. CASE Found(id[c])
    BY <1>1, <2>1 DEF OpenInv, HandleInv, TypeOK
  <2>2. CASE ~Found(id[c])
    BY <1>1, <2>2 DEF OpenInv, HandleInv, TypeOK, Found
  <2> QED
    BY <2>1, <2>2
<1> QED
  BY <1>2, <1>3, <1>4

\* Nobody else is creating, and what is made is new.
LEMMA CreateStep == ASSUME IInv, NEW c \in Client, Create(c) PROVE IInv'
<1> USE NullAssumption DEF IInv, Create
<1>1. TypeOK'
  BY DEF TypeOK
<1>2. ReadyInv' /\ PoolInv'
  BY DEF ReadyInv, Quiet, PoolInv, TypeOK
<1>3. OpenInv'
  BY DEF OpenInv, PoolInv, TypeOK
<1>4. HandleInv'
  BY DEF HandleInv, TypeOK
<1>5. OwnedInv'
  BY DEF OwnedInv, TypeOK
<1> QED
  BY <1>1, <1>2, <1>3, <1>4, <1>5

\* The id has no entry, so emplace inserts.
LEMMA EmplaceStep == ASSUME IInv, NEW c \in Client, Emplace(c) PROVE IInv'
<1> USE NullAssumption DEF IInv
<1>1. /\ pc[c] = "emplace" /\ id[c] \in Id /\ conns[id[c]] = Null
      /\ life' = life
      /\ conns' = [conns EXCEPT ![id[c]] = made[c]]
      /\ pc' = [pc EXCEPT ![c] = "get"]
      /\ weak' = [weak EXCEPT ![c] = made[c]]
      /\ mutex' = Null
      /\ UNCHANGED <<ready, id, made, handle, closed>>
  <2>1. pc[c] = "emplace" /\ id[c] \in Id /\ conns[id[c]] = Null
    BY DEF Emplace, OpenInv
  <2>2. CASE made[c] = Null
    BY <2>1, <2>2 DEF Emplace, TypeOK
  <2>3. CASE made[c] # Null
    BY <2>1, <2>3 DEF Emplace
  <2> QED
    BY <2>1, <2>2, <2>3
<1>2. made[c] # Null => made[c] \in Conn /\ life[made[c]] = "live"
                        /\ \A i \in Id : conns[i] # made[c]
  BY <1>1 DEF OpenInv, TypeOK
<1>3. TypeOK'
  BY <1>1 DEF TypeOK
<1>4. ReadyInv'
  BY <1>1 DEF ReadyInv, Quiet, TypeOK
<1>5. PoolInv'
  BY <1>1, <1>2 DEF PoolInv, TypeOK
<1>6. OpenInv'
  BY <1>1 DEF OpenInv, TypeOK
<1>7. HandleInv'
  BY <1>1 DEF HandleInv, TypeOK
<1>8. OwnedInv'
  BY <1>1 DEF OwnedInv, TypeOK
<1> QED
  BY <1>3, <1>4, <1>5, <1>6, <1>7, <1>8

LEMMA GetStep == ASSUME IInv, NEW c \in Client, Get(c) PROVE IInv'
<1> USE NullAssumption DEF IInv, Get, poolVars
<1>1. Locked(weak[c]) \in {Null, conns[id[c]]} /\ id[c] \in Id
  BY DEF Locked, HandleInv, OpenInv
<1>2. TypeOK'
  BY <1>1 DEF TypeOK
<1>3. ReadyInv' /\ PoolInv' /\ OwnedInv'
  BY DEF ReadyInv, Quiet, PoolInv, OwnedInv, TypeOK
<1>4. OpenInv' /\ HandleInv'
  BY <1>1 DEF OpenInv, HandleInv, TypeOK
<1> QED
  BY <1>2, <1>3, <1>4

\* The handle is the entry of its id and of no other.
LEMMA CloseStep ==
  ASSUME IInv, NEW c \in Client, NEW i \in Id, Close(c, i) PROVE IInv'
<1> USE NullAssumption DEF IInv, Close, openVars
<1>1. handle[c][i] = conns[i] /\ conns[i] \in Conn
  BY DEF HandleInv, TypeOK
<1>2. TypeOK'
  BY DEF TypeOK, Delete, Deleted
<1>3. ReadyInv' /\ HandleInv'
  BY DEF ReadyInv, Quiet, HandleInv, TypeOK
<1>4. PoolInv'
  BY <1>1 DEF PoolInv, TypeOK, Delete, Deleted
<1>5. OpenInv'
  BY <1>1 DEF OpenInv, TypeOK, Delete, Deleted
<1>6. OwnedInv'
  BY DEF OwnedInv, TypeOK, Delete, Deleted
<1> QED
  BY <1>2, <1>3, <1>4, <1>5, <1>6

LEMMA NextInv == ASSUME IInv, [Next]_vars PROVE IInv'
<1>1. CASE SdkInit
  BY <1>1 DEF SdkInit, IInv, TypeOK, ReadyInv, PoolInv, OpenInv, HandleInv, OwnedInv,
              poolVars, openVars
<1>2. CASE UNCHANGED vars
  BY <1>2 DEF vars, poolVars, openVars, IInv, TypeOK, ReadyInv, Quiet, PoolInv, OpenInv,
              HandleInv, OwnedInv
<1> QED
  BY <1>1, <1>2, ReleaseStep, OpenStep, FindStep, CreateStep, EmplaceStep, GetStep, CloseStep
  DEF Next

\* The inductive invariant of the pool (ConnPool.hxx:37-65).
THEOREM Invariance == Spec => []IInv
  BY InitInv, NextInv, PTL DEF Spec

-----------------------------------------------------------------------------
\* Every variable has its type, and whoever creates a connection holds the
\* pool's mutex (ConnPool.hxx:52).
THEOREM TypeCorrectness == Spec => []TypeOK
<1>1. IInv => TypeOK
  BY DEF IInv
<1> QED
  BY <1>1, Invariance, PTL

\* While nobody closes an id, its handles are live and the pool's (DynXX-X.cxx,
\* dynxxStoreSqliteOpen and dynxxStoreKvOpen).
THEOREM HandlesAreLive == Spec => []HandlesLive
<1>1. IInv => HandlesLive
  BY DEF IInv, PoolInv, HandleInv, HandlesLive
<1> QED
  BY <1>1, Invariance, PTL

\* Every live connection has one owner, the pool or its creator (ConnPool.hxx).
THEOREM NothingLeaks == Spec => []NoLeak
<1>1. ASSUME IInv PROVE NoLeak
  <2> SUFFICES ASSUME NEW o \in Conn, life[o] = "live", NEW i \in Id, conns[i] = o
               PROVE  ready /\ Cardinality({j \in Id : conns[j] = o}) = 1
    BY <1>1 DEF IInv, OwnedInv, NoLeak
  <2>1. ready
    BY <1>1, NullAssumption DEF IInv, ReadyInv
  <2>2. {j \in Id : conns[j] = o} = {i}
    BY <1>1, NullAssumption DEF IInv, PoolInv
  <2> QED
    BY <2>1, <2>2, FS_Singleton
<1> QED
  BY <1>1, Invariance, PTL

\* Whoever found or made a connection gets it (ConnPool.hxx:52-65).
THEOREM OpensSucceed == Spec => []OpenSucceeds
<1>1. IInv => OpenSucceeds
  BY DEF IInv, HandleInv, OpenInv, OpenSucceeds, Locked, Pooled
<1> QED
  BY <1>1, Invariance, PTL
=============================================================================
