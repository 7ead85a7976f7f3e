------------------------------ MODULE MCInbound ------------------------------
(* The way of an event in small instances that share no state: the inbound half of the      *)
(* child with two works and no crash, or with one work, a retry that a person asks for and  *)
(* a crash; and the Core's inbox with two events of one partition, a failing write or a     *)
(* crash. A behaviour is one of a single instance; the others stay as they were made.       *)
EXTENDS InboundDelivery

CONSTANTS
  e1, e2, p1,               \* two works, in one partition
  a, b, d1, NoEvent, NoId   \* of EventInbox

\* The channel of the partition holds one job: the second work finds it full while the first
\* runs, so it is the recovery loop that delivers it.
MCWorks == {e1, e2}
MCParts == {p1}
MCPartOf == [i \in MCWorks |-> p1]

VARIABLES
  part,  \* the instance that moves
  mem, disk, arch, unknown, coreUp, coreStage, holds, result, coreNextAt, aged, coreAcked,
  effects, settled, coreFaults, coreCrashes

child == vars
inbox ==
  <<mem, disk, arch, unknown, coreUp, coreStage, holds, result, coreNextAt, aged, coreAcked,
    effects, settled, coreFaults, coreCrashes>>

\* Two works: one attempt each.
T == INSTANCE InboundDelivery WITH MaxAttempts <- 1, MaxReviews <- 0, MaxCrashes <- 0

InboxParts == {"p"}

I == INSTANCE EventInbox WITH
       Ids <- {a, b}, Digests <- {d1}, Deliveries <- {<<a, d1>>, <<b, d1>>},
       Parts <- InboxParts, PartOf <- [x \in {a, b} \X {d1} |-> "p"], Capacity <- 2,
       RecentReceipts <- 1, MaxAttempts <- 2, MaxFaults <- 1, MaxCrashes <- 1,
       up <- coreUp, stage <- coreStage, nextAt <- coreNextAt, acked <- coreAcked,
       faults <- coreFaults, crashes <- coreCrashes

------------------------------------------------------------------------------
MCInit ==
  /\ part \in {"two", "one", "inbox"}
  /\ Init /\ I!Init
  /\ part = "one" => box[e2] = NoWork
  /\ part = "inbox" => \A i \in Works : box[i] = NoWork

Two == part = "two" /\ T!Next /\ UNCHANGED <<part, inbox>>
\* The second work never comes.
One == part = "one" /\ Next /\ box'[e2] = NoWork /\ UNCHANGED <<part, inbox>>
Inbox == part = "inbox" /\ I!Next /\ coreFaults' + coreCrashes' <= 1 /\ UNCHANGED <<part, child>>

MCNext == Two \/ One \/ Inbox

\* The fairness of the two modules.
MCSpec ==
  /\ MCInit /\ [][MCNext]_<<part, child, inbox>>
  /\ \A p \in Parts : WF_child(part = "two" /\ T!Worker(p)) /\ WF_child(part = "one" /\ Worker(p))
  /\ WF_child(part = "two" /\ T!Recover) /\ WF_child(part = "one" /\ Recover)
  /\ \A i \in Works : WF_child(part \in {"one", "two"} /\ RetryDue(i))
  /\ WF_child(part \in {"one", "two"} /\ Start)
  /\ \A p \in InboxParts :
       /\ WF_inbox(part = "inbox" /\ \E i \in {a, b} : I!Claim(p, i))
       /\ WF_inbox(part = "inbox" /\ I!Effect(p))
       /\ SF_inbox(part = "inbox" /\ \E r \in I!Results : I!HandlerReturns(p, r))
       /\ WF_inbox(part = "inbox" /\ I!Finish(p))
  /\ \A i \in {a, b} : WF_inbox(part = "inbox" /\ I!RetryDue(i))
  /\ WF_inbox(part = "inbox" /\ I!Load)

\* The work that comes by itself.
OneWorkSpec == MCInit /\ part = "one" /\ [][One]_<<part, child, inbox>>

\* An acknowledged event ends completed or paused for review in the child, and settled or past
\* its retention in the Core, and stays so: also behind one that waits for its retry.
AckedSettles ==
  <>[](/\ \A i \in Works : i \in acked => ~Pending(i)
       /\ \A i \in {a, b} : <<i, d1>> \in coreAcked => settled[i] # "none" \/ i \in aged)
=============================================================================
