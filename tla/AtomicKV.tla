------------------------------ MODULE AtomicKV ------------------------------
(***************************************************************************)
(* A key-value store as its users see it: each call takes effect in one    *)
(* step between its invocation and its return.  Other processes that share *)
(* the store's file may change it at any time.                             *)
(***************************************************************************)
CONSTANTS Thread,   \* callers
          Key, Val, \* keys and values
          Missing,  \* no value
          Pending,  \* no answer yet
          OutsideVal \* what other processes store; Missing if they remove

VARIABLES data,    \* the value of each key
          call,    \* the call of each thread, or Pending if it makes none
          answer   \* what that call returns, or Pending if it has no effect yet

vars == <<data, call, answer>>

Call ==
  [op : {"read", "contains", "remove"}, key : Key]
    \cup [op : {"write"}, key : Key, val : Val]
    \cup [op : {"allKeys", "clear"}]

Present == {k \in Key : data[k] # Missing}

\* What call c may do to the store and return; a write or a removal may
\* fail, and then it changes nothing.
Outcome(after, ret) == [data |-> after, ret |-> ret]
Outcomes(c) ==
  CASE c.op = "read"     -> {Outcome(data, data[c.key])}
    [] c.op = "contains" -> {Outcome(data, c.key \in Present)}
    [] c.op = "allKeys"  -> {Outcome(data, Present)}
    [] c.op = "remove"   -> {Outcome([data EXCEPT ![c.key] = Missing], c.key \in Present),
                             Outcome(data, FALSE)}
    [] c.op = "clear"    -> {Outcome([k \in Key |-> Missing], TRUE)}
    [] c.op = "write"    -> {Outcome([data EXCEPT ![c.key] = c.val], TRUE),
                             Outcome(data, FALSE)}

Init ==
  /\ data = [k \in Key |-> Missing]
  /\ call = [t \in Thread |-> Pending]
  /\ answer = [t \in Thread |-> Pending]

Invoke(t, c) ==
  /\ call[t] = Pending
  /\ call' = [call EXCEPT ![t] = c]
  /\ UNCHANGED <<data, answer>>

TakeEffect(t) ==
  /\ call[t] # Pending /\ answer[t] = Pending
  /\ \E o \in Outcomes(call[t]) :
       data' = o.data /\ answer' = [answer EXCEPT ![t] = o.ret]
  /\ UNCHANGED call

Return(t) ==
  /\ answer[t] # Pending
  /\ call' = [call EXCEPT ![t] = Pending]
  /\ answer' = [answer EXCEPT ![t] = Pending]
  /\ UNCHANGED data

Outside(k, v) ==
  /\ data' = [data EXCEPT ![k] = v]
  /\ UNCHANGED <<call, answer>>

Next ==
  \/ \E t \in Thread : (\E c \in Call : Invoke(t, c)) \/ TakeEffect(t) \/ Return(t)
  \/ \E k \in Key, v \in OutsideVal : Outside(k, v)

Spec == Init /\ [][Next]_vars
=============================================================================
