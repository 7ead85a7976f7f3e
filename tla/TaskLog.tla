------------------------------- MODULE TaskLog -------------------------------
(* What the store of KSF task reports promises: per task a log in which every event stands *)
(* once, at the revision its reporter expected, and an answer that says no more than that.  *)
EXTENDS Sequences, Integers

CONSTANTS
  Requests,     \* the reports there are
  Task(_),      \* the task a report is about
  Event(_),     \* its event ID: another report may carry it again
  Expected(_)   \* the revision it expects

VARIABLES
  log,   \* log[t]: the reports taken, in order
  told   \* told[r]: what the reporters of r were told: a set of "ok" and "failed"

vars == <<log, told>>

Logged(r) == \E i \in DOMAIN log[Task(r)] : log[Task(r)][i] = r

Init == log = [t \in {Task(r) : r \in Requests} |-> <<>>] /\ told = [r \in Requests |-> {}]

Take(r) ==
  /\ Len(log[Task(r)]) = Expected(r)
  /\ \A i \in DOMAIN log[Task(r)] : Event(log[Task(r)][i]) # Event(r)
  /\ log' = [log EXCEPT ![Task(r)] = Append(@, r)]
  /\ UNCHANGED told

Tell(r) ==
  /\ \E what \in {"ok", "failed"} :
       (what = "ok" => Logged(r)) /\ told' = [told EXCEPT ![r] = @ \cup {what}]
  /\ UNCHANGED log

Next == \E r \in Requests : Take(r) \/ Tell(r)

Spec == Init /\ [][Next]_vars
=============================================================================
