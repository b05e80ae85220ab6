------------------------------- MODULE Store -------------------------------
(***************************************************************************)
(* The connection pool of a store (src/core/store/ConnPool.hxx), the two   *)
(* stores built on it (SQLiteStore and KVStore), and the handles the C API *)
(* gives out for their connections (src/DynXX-X.cxx).                      *)
(*                                                                         *)
(* The pool owns a connection per id through a shared_ptr.  open returns a *)
(* weak_ptr, which the API locks to obtain the raw pointer it returns as a *)
(* handle.  dynxx_store_*_close deletes the object behind the handle;      *)
(* dynxx_release empties the pool and destroys the store.                  *)
(*                                                                         *)
(* The application's part: it does not use handles across a release, and   *)
(* no other call is under way during dynxx_init and dynxx_release, which   *)
(* nothing in the code enforces.                                           *)
(***************************************************************************)
EXTENDS Naturals, FiniteSets

CONSTANTS Client,    \* threads of the application
          Id,        \* database files, or ids of key-value stores
          Conn,      \* Connection objects, each allocated once (a bound)
          Null       \* a null pointer, nobody

ASSUME NullAssumption == Null \notin Client \cup Id \cup Conn

VARIABLES
  ready,   \* dynxx_init has run and dynxx_release has not: _root and the store
  mutex,   \* the holder of ConnPool::mutex
  conns,   \* ConnPool::conns: the object an id's shared_ptr points to
  life,    \* of each object: "unborn", "live", "deleted" or "corrupt"
  pc,      \* where a client is inside dynxx_store_*_open
  id,      \* the id it opens
  made,    \* the shared_ptr its creator returned, Null if it could not
  weak,    \* the weak_ptr ConnPool::open returned
  handle,  \* the handles a client holds, one per id
  closed   \* history: the ids somebody closed since dynxx_init

poolVars == <<mutex, conns, life>>
openVars == <<pc, id, made, weak>>
vars     == <<ready, poolVars, openVars, handle, closed>>

Init ==
  /\ ready = FALSE
  /\ mutex = Null
  /\ conns = [i \in Id |-> Null]
  /\ life = [o \in Conn |-> "unborn"]
  /\ pc = [c \in Client |-> "idle"]
  /\ id = [c \in Client |-> Null]
  /\ made = [c \in Client |-> Null]
  /\ weak = [c \in Client |-> Null]
  /\ handle = [c \in Client |-> [i \in Id |-> Null]]
  /\ closed = {}

-----------------------------------------------------------------------------
(* Objects *)

\* delete: of an object that is already gone it corrupts the heap.
Deleted(l) == IF l = "live" THEN "deleted" ELSE "corrupt"
Delete(O) == [o \in Conn |-> IF o \in O THEN Deleted(life[o]) ELSE life[o]]

\* The objects the pool owns.
Pooled == {conns[i] : i \in Id} \ {Null}

-----------------------------------------------------------------------------
(* dynxx_init, dynxx_release *)

Quiet == \A c \in Client : pc[c] = "idle"

\* dynxxInit makes the store; called again it does nothing.
SdkInit ==
  /\ Quiet
  /\ ready' = TRUE
  /\ UNCHANGED <<poolVars, openVars, handle, closed>>

\* A slip: the shared_ptrs are reset but stay in the map.
KeepStale == conns
\* What closeAll leaves in the map.
Emptied == [i \in Id |-> Null]

\* A slip: closeAll empties the map and deletes nothing.
DeleteNone(O) == life
\* closeAll resets every shared_ptr, each the only owner of its object.
DeleteAll(O) == Delete(O)

\* dynxxRelease: closeAll, then the store itself is destroyed.
SdkRelease ==
  /\ Quiet
  /\ ready
  /\ ready' = FALSE
  /\ life' = DeleteAll(Pooled)
  /\ conns' = Emptied
  /\ handle' = [c \in Client |-> [i \in Id |-> Null]]
  /\ closed' = {}
  /\ UNCHANGED <<mutex, openVars>>

-----------------------------------------------------------------------------
(* dynxx_store_*_open *)

\* The call: without a store it returns null at once.
Open(c, i) ==
  /\ pc[c] = "idle"
  /\ ready
  /\ handle[c][i] = Null
  /\ pc' = [pc EXCEPT ![c] = "lock"]
  /\ id' = [id EXCEPT ![c] = i]
  /\ UNCHANGED <<ready, poolVars, made, weak, handle, closed>>

\* A slip: open does not lock the pool.
UnlockedAlways == TRUE
Unlocked == mutex = Null

\* A slip: the map is searched for what is not there.
FoundNever(i) == FALSE
Found(i) == conns[i] # Null

\* ConnPool::open locks the pool and looks the id up.
Find(c) ==
  /\ pc[c] = "lock"
  /\ Unlocked
  /\ IF Found(id[c])
       THEN /\ weak' = [weak EXCEPT ![c] = conns[id[c]]]
            /\ pc' = [pc EXCEPT ![c] = "get"]
            /\ UNCHANGED mutex
       ELSE /\ pc' = [pc EXCEPT ![c] = "create"]
            /\ mutex' = c
            /\ UNCHANGED weak
  /\ UNCHANGED <<ready, conns, life, id, made, handle, closed>>

\* The creator opens the database and allocates a connection, or fails.
Create(c) ==
  /\ pc[c] = "create"
  /\ \/ \E o \in Conn :
          /\ life[o] = "unborn"
          /\ life' = [life EXCEPT ![o] = "live"]
          /\ made' = [made EXCEPT ![c] = o]
     \/ UNCHANGED <<life, made>>
  /\ pc' = [pc EXCEPT ![c] = "emplace"]
  /\ UNCHANGED <<ready, mutex, conns, id, weak, handle, closed>>

\* emplace inserts only if the id has no entry; the shared_ptr the creator
\* returned goes out of scope, and with it an object the map does not own.
Emplace(c) ==
  LET o == made[c]
      inserts == o # Null /\ conns[id[c]] = Null
  IN /\ pc[c] = "emplace"
     /\ conns' = IF inserts THEN [conns EXCEPT ![id[c]] = o] ELSE conns
     /\ life' = IF inserts \/ o = Null THEN life ELSE Delete({o})
     /\ weak' = [weak EXCEPT ![c] = o]
     /\ mutex' = Null
     /\ pc' = [pc EXCEPT ![c] = "get"]
     /\ UNCHANGED <<ready, id, made, handle, closed>>

\* weak_ptr::lock and get.  lock sees the reference count: an object deleted
\* through a handle still counts as owned by the pool.
Locked(o) == IF o \in Pooled THEN o ELSE Null

\* open returns the raw pointer, or null.
Get(c) ==
  /\ pc[c] = "get"
  /\ handle' = [handle EXCEPT ![c][id[c]] = Locked(weak[c])]
  /\ pc' = [pc EXCEPT ![c] = "idle"]
  /\ id' = [id EXCEPT ![c] = Null]
  /\ made' = [made EXCEPT ![c] = Null]
  /\ weak' = [weak EXCEPT ![c] = Null]
  /\ UNCHANGED <<ready, poolVars, closed>>

-----------------------------------------------------------------------------
(* dynxx_store_*_close *)

\* The handle's object is deleted; the pool is not told.
Close(c, i) ==
  /\ pc[c] = "idle"
  /\ handle[c][i] # Null
  /\ life' = Delete({handle[c][i]})
  /\ handle' = [handle EXCEPT ![c][i] = Null]
  /\ closed' = closed \cup {i}
  /\ UNCHANGED <<ready, mutex, conns, openVars>>

-----------------------------------------------------------------------------
Next ==
  \/ SdkInit
  \/ SdkRelease
  \/ \E c \in Client :
       \/ \E i \in Id : Open(c, i) \/ Close(c, i)
       \/ Find(c)
       \/ Create(c)
       \/ Emplace(c)
       \/ Get(c)

Spec == Init /\ [][Next]_vars

-----------------------------------------------------------------------------
(* Properties *)

\* The type of every variable; the mutex is held by whoever creates a
\* connection, one client at a time.
TypeOK ==
  /\ ready \in BOOLEAN
  /\ mutex \in Client \cup {Null}
  /\ \A c \in Client : pc[c] \in {"create", "emplace"} <=> mutex = c
  /\ conns \in [Id -> Conn \cup {Null}]
  /\ life \in [Conn -> {"unborn", "live", "deleted", "corrupt"}]
  /\ pc \in [Client -> {"idle", "lock", "create", "emplace", "get"}]
  /\ id \in [Client -> Id \cup {Null}]
  /\ made \in [Client -> Conn \cup {Null}]
  /\ weak \in [Client -> Conn \cup {Null}]
  /\ handle \in [Client -> [Id -> Conn \cup {Null}]]
  /\ closed \subseteq Id

\* As long as nobody closes an id, every handle for it names an object that
\* is alive and is the pool's connection for that id, so that all clients
\* share one connection (DB.h:8-13 and KV.h:9-14: open returns a connection
\* handle).
HandlesLive ==
  \A c \in Client, i \in Id \ closed :
    handle[c][i] # Null => life[handle[c][i]] = "live" /\ conns[i] = handle[c][i]

\* Every live object is owned: by the map under one id, or by the client that
\* is creating it.  Nothing is left open once the store is released.
NoLeak ==
  \A o \in Conn :
    life[o] = "live" =>
      \/ ready /\ Cardinality({i \in Id : conns[i] = o}) = 1
      \/ \E c \in Client : pc[c] = "emplace" /\ made[c] = o

\* A client whose creator made a connection, or who found one, gets it: two
\* clients that open one id at the same time both succeed.
OpenSucceeds ==
  \A c \in Client :
    pc[c] = "get" /\ weak[c] # Null => Locked(weak[c]) = weak[c]

\* A connection is deleted once, by "Close DB" (DB.h:68-72) or by the release
\* of the SDK, and a handle that is closed is one that open returned.
NoDoubleDelete == \A o \in Conn : life[o] # "corrupt"
=============================================================================
