------------------------------ MODULE EventOnce ------------------------------
(***************************************************************************)
(* What the Core promises about an inbound event, whatever fails in between *)
(* (Core/internal/integration/README.md, "Persistence and execution        *)
(* safety"): its outside effects belong to one run of its handler, none    *)
(* happens once its outcome is reported, the outcome is reported once, and *)
(* "retries exhausted" is reported only of an event that had no effect.    *)
(***************************************************************************)
EXTENDS Naturals

CONSTANTS Ids, Digests

Outcomes == {"completed", "failed", "exhausted", "outcome_unknown"}

VARIABLES
  acked,    \* the <<id, digest>> acknowledged to the transport
  effects,  \* the <<id, run>> that reached an outside effect
  outcome   \* what is reported of each id

vars == <<acked, effects, outcome>>

Init ==
  /\ acked = {}
  /\ effects = {}
  /\ outcome = [i \in Ids |-> "none"]

Ack(i, d) ==
  /\ \A e \in acked : e[1] = i => e[2] = d
  /\ acked' = acked \cup {<<i, d>>}
  /\ UNCHANGED <<effects, outcome>>

\* An effect of a run: the first one of the event, or the same run again.
Run(i) ==
  /\ outcome[i] = "none"
  /\ effects \subseteq effects'
  /\ \A e \in effects' \ effects : e[1] = i
  /\ \A e1, e2 \in effects' : e1[1] = i /\ e2[1] = i => e1[2] = e2[2]
  /\ UNCHANGED <<acked, outcome>>

\* A restart may report the outcome of several events at once.
Report ==
  /\ \E o \in [Ids -> Outcomes \cup {"none"}] :
       /\ outcome' = o
       /\ \A i \in Ids :
            \/ o[i] = outcome[i]
            \/ /\ outcome[i] = "none"
               /\ o[i] = "exhausted" => \A e \in effects : e[1] # i
  /\ UNCHANGED <<acked, effects>>

Next ==
  \/ \E i \in Ids, d \in Digests : Ack(i, d)
  \/ \E i \in Ids : Run(i)
  \/ Report

Spec == Init /\ [][Next]_vars
=============================================================================
