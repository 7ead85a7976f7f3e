------------------------------- MODULE MCQueues -------------------------------
(* Small instances of the components that work off what was written down and show what   *)
(* was read, which share no state: the queue of messages of the child, with three items, two *)
(* of them for one target, the third in two parts, new or left behind by earlier versions;   *)
(* the cards of a task that is connected twice; and the task lists of the dashboard. A       *)
(* behaviour is one of a single component, chosen at its start; the others stay as they were *)
(* made.                                                                                     *)
EXTENDS WorkQueue, Cards, TLC

MCKey == 1 :> "chat" @@ 2 :> "chat" @@ 3 :> "person"
MCParts == 1 :> 1 @@ 2 :> 1 @@ 3 :> 2

Nothing == [crashes |-> 0, faults |-> 0, stops |-> 0, changes |-> 0, directs |-> 0]
Queued == [i \in Items |-> "queued"]

Scenario(origins, ops, done, budget) ==
  [origin |-> 1 :> origins[1] @@ 2 :> origins[2] @@ 3 :> origins[3],
   op |-> ops, marks |-> done, left |-> budget]

New(budget) == Scenario(<<"new", "new", "new">>, Queued, {"v2", "v3"}, budget)

WorkBudgets == {[Nothing EXCEPT !.crashes = 1],
                [Nothing EXCEPT !.faults = 2],
                [Nothing EXCEPT !.stops = 1, !.changes = 1],
                [Nothing EXCEPT !.directs = 1, !.faults = 1]}

Upgrades == {[Nothing EXCEPT !.crashes = 1],
             [Nothing EXCEPT !.changes = 1]}

MCScenarios ==
  {New(budget) : budget \in WorkBudgets}
  \cup {Scenario(<<"v2new", "v2processed", "v2answered">>, ops, {}, budget) :
          ops \in {Queued, [Queued EXCEPT ![1] = "none", ![3] = "none"]}, budget \in Upgrades}
  \cup {Scenario(<<"v3running", "v3pending", origin>>, ops, {"v2"}, budget) :
          origin \in {"v3finished", "v3terminal"},
          ops \in {[Queued EXCEPT ![1] = status, ![3] = "succeeded"] :
                     status \in {"queued", "verifying", "succeeded"}},
          budget \in {[Nothing EXCEPT !.faults = 1], [Nothing EXCEPT !.changes = 1]}}
  \cup {Scenario(<<"v3running", "new", "new">>, [Queued EXCEPT ![1] = "running"], done,
                 [Nothing EXCEPT !.crashes = 1]) : done \in {{"v2"}, {"v2", "v3"}}}

------------------------------------------------------------------------------
VARIABLES
  part,  \* the component that moves
  threads, listed, desktop, ksf, source, links, boardsLeft

queue == vars
cards == <<cardLink, cardSync, cardWorker, cardHandler, logout, revoked, cardShown, cardsLeft>>
boards == <<threads, listed, desktop, ksf, source, links, boardsLeft>>

None == [operations |-> 0, writes |-> 0, faults |-> 0, leases |-> 0, logouts |-> 0,
         archives |-> 0, removals |-> 0]

\* A reconnection; calls that fail until a person must look; a logout; a lease that ends; a
\* task archived while its card is sent.
MCCardBudgets == {[None EXCEPT !.operations = 3, !.writes = 1, !.faults = 2],
                  [None EXCEPT !.operations = 4, !.writes = 1],
                  [None EXCEPT !.operations = 2, !.faults = 3],
                  [None EXCEPT !.operations = 2, !.writes = 2, !.faults = 1, !.logouts = 1],
                  [None EXCEPT !.operations = 2, !.writes = 1, !.faults = 2, !.leases = 1,
                               !.removals = 1],
                  [None EXCEPT !.operations = 2, !.writes = 2, !.faults = 1, !.archives = 1]}

Places == {"engineering", "ksf", "codex", "somewhere", "none"}
Still == [threads |-> 1, changes |-> 0, observed |-> 0, binds |-> 0, links |-> 0,
          places |-> Places]

\* A task that Desktop and Codex see differently; one that is connected; a project that is bound
\* or removed; a bound task that is archived; two tasks of one place, of which one is
\* hidden; two tasks of different places.
BoardBudgets ==
  {[Still EXCEPT !.observed = 2],
   [Still EXCEPT !.observed = 1, !.links = 1],
   [Still EXCEPT !.binds = 2, !.changes = 1],
   [Still EXCEPT !.binds = 1, !.changes = 1, !.observed = 1, !.places = {"codex"}],
   [Still EXCEPT !.threads = 2, !.changes = 2, !.places = {"codex"}],
   [Still EXCEPT !.threads = 2, !.changes = 1, !.links = 1, !.places = {"codex"}],
   [Still EXCEPT !.threads = 2, !.observed = 1, !.places = {"codex", "engineering"}]}

B == INSTANCE TaskBoards WITH
       Threads <- {1, 2}, Hosts <- {"local", "remote"}, Limit <- 1, Budgets <- BoardBudgets,
       left <- boardsLeft

------------------------------------------------------------------------------
Some(set) == CHOOSE x \in set : TRUE

MCInit ==
  /\ part \in {"queue", "cards", "boards"}
  /\ TC!Init /\ B!Init
  /\ part # "cards" => cardsLeft = Some(CardBudgets)
  /\ part # "boards" => boardsLeft = Some(BoardBudgets)
  /\ Init
  /\ part # "queue" => /\ left = [Nothing EXCEPT !.crashes = 1]
                       /\ line = [i \in Items |-> "submit"]

QueueNext == part = "queue" /\ Next /\ UNCHANGED <<part, cards, boards>>
CardsNext == part = "cards" /\ TC!Next /\ UNCHANGED <<part, queue, boards>>
BoardsNext == part = "boards" /\ B!Next /\ UNCHANGED <<part, queue, cards>>

MCNext == QueueNext \/ CardsNext \/ BoardsNext

\* The fairness of the two modules.
MCSpec ==
  /\ MCInit /\ [][MCNext]_<<part, queue, cards, boards>>
  /\ WF_queue(part = "queue" /\ Startup) /\ WF_queue(part = "queue" /\ Run)
  /\ \A i \in Items : /\ WF_queue(part = "queue" /\ Execute(i))
                      /\ WF_queue(part = "queue" /\ DirectEnds(Key[i]))
  /\ \A i \in {1, 2} :
       /\ WF_cards(part = "cards" /\ TC!SyncSteps(i))
       /\ WF_cards(part = "cards" /\ TC!Works(i))
       /\ WF_cards(part = "cards" /\ (TC!BackoffEnds(i) \/ TC!MaintenanceDelivers(i)))
  /\ WF_cards(part = "cards" /\ TC!Handles)
  /\ WF_cards(part = "cards" /\ TC!LogsOut)

------------------------------------------------------------------------------
\* What the others rest on: the types; that no message of an item arrives twice
\* (work_recovery.go), that a target is written by one at a time and in order, and that the
\* index counts the directories (workbox_v3.go); that a revoked identity controls nothing
\* (logout.go:43); that a task is shown once, where it belongs (rules.go, workspaces.go).
QueuesSound ==
  /\ part = "queue" => TypeOK /\ WrittenOnce /\ TargetInOrder /\ IndexIsAProjection
  /\ part = "cards" => TC!TypeOK /\ TC!RevokedIsDisconnected
  /\ part = "boards" =>
       /\ B!TypeOK /\ B!ShownOnce /\ B!KeptApart /\ B!CountsAgree
       /\ B!HiddenAreOld /\ B!SwiftAgrees

\* WorkQueue's and TaskCards's: every item ends, and no mark of a card stands for ever. That
\* the card is then current is not said: see TaskCards's ClearedOnlyWhenShown.
WorkEnds ==
  []<>(/\ stage = "ended" \/ \A i \in Items : ~Open(i)
       /\ \A i \in {1, 2} : ~TC!Owed(i))
==============================================================================
