------------------------------ MODULE TaskPool ------------------------------
(***************************************************************************)
(* What an Executor promises the code that hands it tasks, without threads,*)
(* locks or queues.  Tasks are accepted one after another; the k-th one    *)
(* belongs to lane (k-1) % Lanes.  A lane begins its tasks in the order    *)
(* they were accepted, at most once each and one at a time; lanes are      *)
(* independent of one another.  Once the pool is closed nothing is         *)
(* accepted, and once it is shut nothing begins and nothing is running.    *)
(***************************************************************************)
EXTENDS Naturals, Sequences

CONSTANTS Task,   \* the tasks
          Lanes   \* how many lanes there are

VARIABLES accepted,  \* the tasks in the order they were accepted
          begun,     \* the tasks that began
          finished,  \* the tasks that ran to their end
          phase      \* "open", "closed" or "shut"

vars == <<accepted, begun, finished, phase>>

Init ==
  /\ accepted = <<>>
  /\ begun = {}
  /\ finished = {}
  /\ phase = "open"

Lane(k) == (k - 1) % Lanes

Accepted == {accepted[k] : k \in 1..Len(accepted)}

Accept(t) ==
  /\ phase = "open"
  /\ t \notin Accepted
  /\ accepted' = Append(accepted, t)
  /\ UNCHANGED <<begun, finished, phase>>

\* A task begins when every earlier task of its lane has finished.
Begin(k) ==
  /\ phase # "shut"
  /\ accepted[k] \notin begun
  /\ \A j \in 1..(k - 1) : Lane(j) = Lane(k) => accepted[j] \in finished
  /\ begun' = begun \cup {accepted[k]}
  /\ UNCHANGED <<accepted, finished, phase>>

Finish(t) ==
  /\ phase # "shut"
  /\ t \in begun \ finished
  /\ finished' = finished \cup {t}
  /\ UNCHANGED <<accepted, begun, phase>>

Close ==
  /\ phase = "open"
  /\ phase' = "closed"
  /\ UNCHANGED <<accepted, begun, finished>>

Shut ==
  /\ phase = "closed"
  /\ begun = finished
  /\ phase' = "shut"
  /\ UNCHANGED <<accepted, begun, finished>>

Next ==
  \/ \E t \in Task : Accept(t) \/ Finish(t)
  \/ \E k \in 1..Len(accepted) : Begin(k)
  \/ Close
  \/ Shut

Spec == Init /\ [][Next]_vars
=============================================================================
