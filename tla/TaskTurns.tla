------------------------------ MODULE TaskTurns ------------------------------
(* How the Core steers one Codex task from Feishu (integration/inbound_runtime.go,
   runtime_api.go). The durable link of the task says which turn is active and what
   the user may do. It is changed by the handler of a message or a card action (one
   at a time, under the lock of the task) and, without that lock, by watchers: one
   per turn (waitForTurn), an observer of tasks that Codex Desktop owns, and one of
   links locked by an approval. Each reads the link, asks Codex, and writes later.
   Progress text, cards and attachments are left out; so are the two 30 second
   marks of a submitted answer, which only hide a question for a while. *)
EXTENDS Integers

CONSTANTS MaxTurns,  \* turns Codex starts in the thread
          MaxAsks,   \* requests for input or approval
          Budgets    \* what may happen in one behaviour: see left

ASSUME TurnsAssumption ==
  /\ MaxTurns \in Nat \ {0}
  /\ MaxAsks \in Nat
  /\ Budgets \subseteq [connected : BOOLEAN, turns : 0 .. MaxTurns, questions : 0 .. MaxAsks,
                        approvals : 0 .. MaxAsks, faults : Nat, leases : 0 .. 1, opens : 0 .. 1]

Turns == 1 .. MaxTurns
Asks == 1 .. MaxAsks
Over == {"completed", "failed", "interrupted"}
TurnStates == Over \cup
              {"idle", "running", "waiting_input", "plan_ready", "desktop_action_required"}
Operations == {"create", "message", "followup", "implement_plan", "answer", "interrupt", "release"}

NoAsk == [id |-> 0, turn |-> 0, kind |-> "questions"]
NoHandler == [op |-> "none", pc |-> "idle", turn |-> 0, ask |-> 0, desktop |-> FALSE]
Unwatched == [pc |-> "off", status |-> "none", ask |-> NoAsk]

VARIABLES
  link,      \* the durable task link
  handler,   \* the operation that holds the lock of the task, and what it read or was told
  watcher,   \* per turn, the goroutine of waitForTurn and what it read
  observer,  \* runDesktopTaskObserver and what it read
  locked,    \* runPermissionBlockedObserver is running
  verifying, \* the question of an unverified answer to Desktop
  turn,      \* Codex: the status of each turn
  last,      \* Codex: the number of turns started
  ask,       \* Codex: the request that waits for an answer
  asked,     \* Codex: the number of requests made
  desktop,   \* Codex Desktop has the thread open
  left       \* whether the task was connected from Desktop, and how many turns, requests,
             \* faults (restarts, watchers that time out, answers
             \* that are lost or unverified), ends of the lease
             \* and openings in Desktop may still happen

core == <<link, handler, watcher, observer, locked, verifying>>
codex == <<turn, last, ask, asked, desktop>>
vars == <<core, codex, left>>

------------------------------------------------------------------------------
(* The link *)

EffectivelyActive(l) == l.state = "active" /\ ~l.expired

\* Mutant: the state of the link is not looked at again.
UpdateAnyState(l, new) == new

\* A patch of the link reaches the file only while the link is active.
UpdateActiveByID(l, new) == IF EffectivelyActive(l) THEN new ELSE l

PermissionBlocked(l) == l.blocked # 0

DesktopOwned(l) == l.owner # "bridge"

Spend(what) == left[what] > 0 /\ left' = [left EXCEPT ![what] = @ - 1]

Fault == Spend("faults")

Answerless(l) == [l EXCEPT !.question = 0]

\* What a handler writes once Codex took the input as turn t.
RunningTurn(l, t) == [l EXCEPT !.turnState = "running", !.active = t, !.latest = t]

------------------------------------------------------------------------------
(* Codex *)

Running(t) == t # 0 /\ turn[t] = "running"

\* A new turn replaces the one that runs; an earlier plan is not pending any more.
StartedTurns == [t \in Turns |-> CASE t = last + 1 -> "running"
                                   [] turn[t] = "running" -> "interrupted"
                                   [] turn[t] = "planned" -> "completed"
                                   [] OTHER -> turn[t]]

StartTurn == /\ last < left.turns
             /\ last' = last + 1
             /\ turn' = StartedTurns
             /\ ask' = NoAsk
             /\ UNCHANGED <<asked, desktop>>

StopTurn(t, status) == /\ turn' = [turn EXCEPT ![t] = status]
                       /\ ask' = NoAsk
                       /\ UNCHANGED <<last, asked, desktop>>

TurnEnds(status) == /\ Running(last)
                    /\ StopTurn(last, status)
                    /\ UNCHANGED <<core, left>>

\* Bound: Codex makes MaxAsks requests.
TurnAsks(kind) == /\ Running(last)
                  /\ ask = NoAsk
                  /\ asked < MaxAsks
                  /\ Spend(kind)
                  /\ asked' = asked + 1
                  /\ ask' = [id |-> asked + 1, turn |-> last, kind |-> kind]
                  /\ UNCHANGED <<core, turn, last, desktop>>

\* Answered in Desktop, cancelled, or the end of an unverified answer.
AskWithdrawn == /\ ask # NoAsk
                /\ ask' = NoAsk
                /\ UNCHANGED <<core, turn, last, asked, desktop, left>>

\* Bound: Desktop opens a task of Feishu once that is locked.
DesktopOpens == /\ ~desktop
                /\ PermissionBlocked(link)
                /\ Spend("opens")
                /\ desktop' = TRUE
                /\ UNCHANGED <<core, turn, last, ask, asked>>

DesktopStartsTurn == /\ desktop
                     /\ StartTurn
                     /\ UNCHANGED <<core, left>>

\* The pending plan that readThread and the observers find.
PendingPlan == IF last # 0 /\ turn[last] = "planned" THEN last ELSE 0

------------------------------------------------------------------------------
(* Watchers are registered by key: one that has returned still holds its key
   until it is removed from the map, and nothing is launched meanwhile. *)

LaunchWatcher(t) ==
  watcher' = IF watcher[t].pc = "off" THEN [watcher EXCEPT ![t].pc = "look"] ELSE watcher

ObserveDesktopTask == observer' = IF observer.pc = "off" THEN [observer EXCEPT !.pc = "look"]
                                  ELSE observer

------------------------------------------------------------------------------
(* Messages, card actions and commands: HandleMessage, HandleCard, Release, Interrupt *)

\* What a fresh link of a task holds.
NewLink(owner) == [state |-> "active", expired |-> FALSE, owner |-> owner, messages |-> TRUE,
                   turnState |-> "idle", active |-> 0, latest |-> 0, question |-> 0, plan |-> 0,
                   blocked |-> 0]

NoLink == [NewLink("desktop") EXCEPT !.state = "none"]

\* A locked task can only be disconnected.
Admits(op) == EffectivelyActive(link) /\ (PermissionBlocked(link) => op = "release")

\* What an operation reads of the link l: the turn to steer, to stop or to answer in,
\* or the turn whose plan is pending.
ReadTurn(op, l) ==
  CASE op = "followup" /\ l.turnState \in {"running", "waiting_input"} -> l.active
    [] op \in {"interrupt", "answer"} -> l.active
    [] op = "implement_plan" /\ l.turnState = "plan_ready" -> l.plan
    [] OTHER -> 0

Enter(op, pc, q) == /\ handler' = [op |-> op, pc |-> pc, turn |-> ReadTurn(op, link), ask |-> q,
                                   desktop |-> DesktopOwned(link)]
                    /\ UNCHANGED <<link, watcher, observer, locked, verifying, codex, left>>

\* A message outside any task: it gets a task of its own.
CreateTask == /\ handler = NoHandler
              /\ link.state = "none"
              /\ Enter("create", "upsert", 0)

\* The card carries the revision of one question; the link must have that one.
Handle(op, q) == /\ handler = NoHandler
                 /\ op \in Operations \ {"create"}
                 /\ Admits(op)
                 /\ link.messages \/ op \in {"interrupt", "release"}
                 /\ q = (IF op = "answer" THEN link.question ELSE 0)
                 /\ op = "answer" => q # 0
                 /\ Enter(op, IF op = "release" THEN "update" ELSE "call", q)

Leave == handler' = NoHandler

HandlerFails == /\ handler.pc \in {"upsert", "call"}
                /\ Leave
                /\ UNCHANGED <<link, watcher, observer, locked, verifying, codex, left>>

\* The thread is started and its link written; only then the link gets its owner.
Upsert == /\ handler.pc = "upsert"
          /\ link' = [NewLink("desktop") EXCEPT !.messages = FALSE]
          /\ handler' = [handler EXCEPT !.pc = "own"]
          /\ UNCHANGED <<watcher, observer, locked, verifying, codex, left>>

TakeOwnership == /\ handler.pc = "own"
                 /\ link' = UpdateActiveByID(link, [link EXCEPT !.owner = "bridge",
                                                                !.messages = TRUE])
                 /\ IF EffectivelyActive(link)
                    THEN handler' = [handler EXCEPT !.pc = "call", !.desktop = FALSE]
                    ELSE Leave
                 /\ UNCHANGED <<watcher, observer, locked, verifying, codex, left>>

\* A running turn is steered; otherwise a turn is started.
Steers == handler.op = "followup" /\ handler.turn # 0

\* The plan on the card must be the one Codex has, and the one the link was read with.
PlanIsCurrent == PendingPlan # 0 /\ handler.turn = PendingPlan

Called(t) == /\ handler' = [NoHandler EXCEPT !.op = handler.op, !.pc = "update", !.turn = t]
             /\ UNCHANGED <<link, watcher, observer, locked, verifying, left>>

CallStartTurn == /\ handler.pc = "call"
                 /\ handler.op \in {"create", "message", "followup", "implement_plan"}
                 /\ ~Steers
                 /\ handler.op = "implement_plan" => PlanIsCurrent
                 /\ StartTurn
                 /\ Called(last')

\* Codex started the turn, the answer did not arrive.
CallLost == /\ handler.pc = "call"
            /\ handler.op \in {"create", "message", "followup"}
            /\ ~Steers
            /\ Fault
            /\ StartTurn
            /\ Leave
            /\ UNCHANGED <<link, watcher, observer, locked, verifying>>

CallSteerTurn == /\ handler.pc = "call"
                 /\ Steers
                 /\ Running(handler.turn)
                 /\ Called(handler.turn)
                 /\ UNCHANGED codex

CallInterruptTurn == /\ handler.pc = "call"
                     /\ handler.op = "interrupt"
                     /\ \/ handler.turn = 0 /\ UNCHANGED codex
                        \/ Running(handler.turn) /\ StopTurn(handler.turn, "interrupted")
                     /\ Called(0)

\* The Codex client answers whatever question its thread has; Desktop is given the
\* answer only when the very question of the card still waits there.
Answerable == /\ handler.pc = "call"
              /\ handler.op = "answer"
              /\ ask # NoAsk
              /\ ask.kind = "questions"
              /\ handler.desktop => ask.id = handler.ask /\ ask.turn = handler.turn

AnswerInput == /\ Answerable
               /\ ask' = NoAsk
               /\ Called(0)
               /\ UNCHANGED <<turn, last, asked, desktop>>

\* Desktop took the answer, but nothing shows yet what became of it.
AnswerUnverified == /\ Answerable
                    /\ handler.desktop
                    /\ Fault
                    /\ verifying' = [turn |-> handler.turn, question |-> handler.ask]
                    /\ Leave
                    /\ UNCHANGED <<link, watcher, observer, locked, codex>>

\* What the last write of an operation makes of the link.
HandledLink ==
  CASE handler.op \in {"create", "message"} -> RunningTurn(link, handler.turn)
    [] handler.op \in {"followup", "implement_plan"} ->
         [RunningTurn(link, handler.turn) EXCEPT !.plan = 0]
    [] handler.op = "answer" -> [Answerless(link) EXCEPT !.turnState = "running"]
    [] handler.op = "interrupt" -> [link EXCEPT !.turnState = "interrupted"]

Released(l) == [l EXCEPT !.state = "released", !.turnState = "idle"]

HandlerUpdates ==
  /\ handler.pc = "update"
  /\ link' = IF handler.op = "release" THEN Released(link)
             ELSE UpdateActiveByID(link, HandledLink)
  /\ IF handler.turn # 0 /\ EffectivelyActive(link)
     THEN handler' = [handler EXCEPT !.pc = "observe"]
     ELSE Leave
  /\ UNCHANGED <<watcher, observer, locked, verifying, codex, left>>

HandlerObserves == /\ handler.pc = "observe"
                   /\ LaunchWatcher(handler.turn)
                   /\ Leave
                   /\ UNCHANGED <<link, observer, locked, verifying, codex, left>>

\* A message that is delivered again finds its own turn, and only watches it.
Redelivered == /\ handler = NoHandler
               /\ EffectivelyActive(link)
               /\ ~PermissionBlocked(link)
               /\ link.active # 0
               /\ LaunchWatcher(link.active)
               /\ watcher' # watcher
               /\ UNCHANGED <<link, handler, observer, locked, verifying, codex, left>>

NoVerification == [turn |-> 0, question |-> 0]

\* The verification ends and reports; the report counts only for the same question.
ApplyInputOutcome ==
  /\ verifying # NoVerification
  /\ handler = NoHandler
  /\ link' = IF /\ EffectivelyActive(link)
                /\ link.active = verifying.turn
                /\ link.question = verifying.question
                /\ ask.id # verifying.question
             THEN [Answerless(link) EXCEPT !.turnState = "running"]
             ELSE link
  /\ verifying' = NoVerification
  /\ UNCHANGED <<handler, watcher, observer, locked, codex, left>>

------------------------------------------------------------------------------
(* waitForTurn: the watcher of one turn. It reads the link and asks Codex, decides
   what the link should say, and patches the link some time later. *)

Watched(t, pc) == watcher[t].pc = pc

Step(t, pc) == watcher' = [watcher EXCEPT ![t] = [Unwatched EXCEPT !.pc = pc]]

\* The watcher is over, its key is still in the map.
Returns(t) == Step(t, "over")

Rereads(t) == Step(t, "look")

\* A bridge task has the request of its thread, a Desktop task a question of the turn.
VisibleAsk(t) == IF DesktopOwned(link) /\ (ask.turn # t \/ ask.kind # "questions")
                 THEN NoAsk ELSE ask

ShownQuestion == IF link.turnState = "waiting_input" THEN link.question ELSE 0

\* What the watcher is to do about the turn, and what it saw.
Verdict(t) ==
  CASE VisibleAsk(t).kind = "approvals" -> "cancel"
    [] VisibleAsk(t).kind = "questions" /\ VisibleAsk(t) # NoAsk ->
         IF ShownQuestion = ask.id THEN "look" ELSE "question"
    [] VisibleAsk(t) = NoAsk /\ turn[t] = "planned" -> "plan"
    [] VisibleAsk(t) = NoAsk /\ turn[t] = "running" ->
         IF ShownQuestion = 0 THEN "look" ELSE "running"
    [] OTHER -> "end"

WatcherLooks(t) ==
  /\ Watched(t, "look")
  /\ IF EffectivelyActive(link) /\ link.active = t /\ link.turnState # "interrupted"
     THEN /\ Verdict(t) # "look"
          /\ watcher' = [watcher EXCEPT ![t] = [pc |-> Verdict(t), status |-> turn[t],
                                                ask |-> VisibleAsk(t)]]
     ELSE Returns(t)
  /\ UNCHANGED <<link, handler, observer, locked, verifying, codex, left>>

\* An approval is never given from Feishu: it is cancelled and the turn interrupted.
WatcherCancels(t) ==
  /\ Watched(t, "cancel")
  /\ IF ask = watcher[t].ask /\ ask.turn = t /\ Running(t)
     THEN StopTurn(t, "interrupted")
     ELSE UNCHANGED codex
  /\ Step(t, "block")
  /\ UNCHANGED <<link, handler, observer, locked, verifying, left>>

\* The link stays locked until Desktop takes the task over.
WatcherBlocks(t) ==
  /\ Watched(t, "block")
  /\ link' = UpdateActiveByID(link,
                 [Answerless(link) EXCEPT !.turnState = "desktop_action_required",
                                          !.active = 0, !.blocked = t])
  /\ locked' = TRUE
  /\ Returns(t)
  /\ UNCHANGED <<handler, observer, verifying, codex, left>>

\* The end of the turn as the watcher saw it, whatever the link says by now.
EndedLink(t) == [Answerless(link) EXCEPT !.turnState = watcher[t].status, !.active = 0]

WatchedLink(t) ==
  CASE Watched(t, "question") -> [link EXCEPT !.turnState = "waiting_input", !.active = t,
                                              !.question = watcher[t].ask.id]
    [] Watched(t, "running") -> [Answerless(link) EXCEPT !.turnState = "running"]
    [] Watched(t, "plan") -> [Answerless(link) EXCEPT !.turnState = "plan_ready", !.active = 0,
                                                      !.plan = t]
    [] Watched(t, "end") -> EndedLink(t)

WatcherUpdates(t) ==
  /\ watcher[t].pc \in {"question", "running", "plan", "end"}
  /\ link' = UpdateActiveByID(link, WatchedLink(t))
  /\ IF watcher[t].pc \in {"question", "running"} THEN Rereads(t) ELSE Returns(t)
  /\ UNCHANGED <<handler, observer, locked, verifying, codex, left>>

\* After 30 minutes: noticed while it waits, the link is told; otherwise it is not.
WatcherTimesOut(t) ==
  /\ Watched(t, "look")
  /\ Fault
  /\ \/ link' = UpdateActiveByID(link, [link EXCEPT !.turnState = "failed", !.active = 0])
     \/ UNCHANGED link
  /\ Returns(t)
  /\ UNCHANGED <<handler, observer, locked, verifying, codex>>

\* Mutant: the key of a watcher stays in the map.
KeyStays(t) == Watched(t, "over") /\ UNCHANGED vars

WatcherRemoved(t) ==
  /\ Watched(t, "over")
  /\ Step(t, "off")
  /\ UNCHANGED <<link, handler, observer, locked, verifying, codex, left>>

------------------------------------------------------------------------------
(* runDesktopTaskObserver: the last turn of a task that Desktop owns *)

Unobserved == [pc |-> "off", shown |-> 0, status |-> "none", ask |-> NoAsk]

\* What Desktop's last turn t, with its status and its request, makes of the link.
Projected(l, t, status, request) ==
  LET shown == CASE status = "planned" -> "plan_ready"
                 [] status = "running" /\ request = NoAsk -> "running"
                 [] status = "running" /\ request.kind = "questions" /\ request # NoAsk ->
                      "waiting_input"
                 [] status = "running" /\ request.kind = "approvals" -> "desktop_action_required"
                 [] OTHER -> status
  IN [l EXCEPT !.turnState = shown, !.latest = t,
               !.active = IF status = "running" THEN t ELSE 0,
               !.plan = IF status = "planned" THEN t ELSE 0,
               !.question = IF shown = "waiting_input" THEN request.id ELSE 0]

\* normalizeDesktopState: whichever shape a snapshot has, its last turn is the one begun last.
SnapshotTurn == last

\* A snapshot may not take the link back to a turn before the one it was read with.
CanAdvance == SnapshotTurn >= link.latest

\* desktopProjectionRequiresSync: a snapshot that shows nothing new is dropped.
RequiresSync(projection) == projection # link

ObserverLooks ==
  /\ observer.pc = "look"
  /\ IF ~EffectivelyActive(link) \/ ~DesktopOwned(link)
     THEN observer' = Unobserved
     ELSE /\ desktop
          /\ SnapshotTurn # 0
          /\ CanAdvance
          /\ RequiresSync(Projected(link, SnapshotTurn, turn[SnapshotTurn], ask))
          /\ observer' = [pc |-> "apply", shown |-> SnapshotTurn,
                          status |-> turn[SnapshotTurn], ask |-> ask]
  /\ UNCHANGED <<link, handler, watcher, locked, verifying, codex, left>>

ObserverApplies ==
  /\ observer.pc = "apply"
  /\ link' = UpdateActiveByID(link, Projected(link, observer.shown, observer.status, observer.ask))
  /\ observer' = [Unobserved EXCEPT !.pc = "look"]
  /\ UNCHANGED <<handler, watcher, locked, verifying, codex, left>>

------------------------------------------------------------------------------
(* runPermissionBlockedObserver, the maintenance and the end of a link *)

\* Mutant: the turn that was blocked counts as a new one.
AnyDesktopTurn == desktop /\ last # 0

\* Only a turn of Desktop other than the blocked one unlocks the task.
NewDesktopTurn == desktop /\ last # 0 /\ last # link.blocked

PermissionRecovers ==
  /\ locked
  /\ IF ~EffectivelyActive(link) \/ ~PermissionBlocked(link)
     THEN locked' = FALSE /\ UNCHANGED <<link, observer>>
     ELSE /\ NewDesktopTurn
          /\ link' = Projected([link EXCEPT !.owner = "desktop", !.blocked = 0], last,
                               turn[last], ask)
          /\ locked' = FALSE
          /\ ObserveDesktopTask
  /\ UNCHANGED <<handler, watcher, verifying, codex, left>>

\* resumeActiveLinks and reconcileTaskLinkCards, every 30 seconds and after a start.
Maintenance ==
  /\ EffectivelyActive(link)
  /\ CASE PermissionBlocked(link) -> locked' = TRUE /\ UNCHANGED <<watcher, observer>>
       [] ~PermissionBlocked(link) /\ DesktopOwned(link) ->
            ObserveDesktopTask /\ UNCHANGED <<watcher, locked>>
       [] OTHER -> /\ link.active # 0
                   /\ link.turnState \in {"running", "waiting_input"}
                   /\ LaunchWatcher(link.active)
                   /\ UNCHANGED <<observer, locked>>
  /\ <<watcher, observer, locked>>' # <<watcher, observer, locked>>
  /\ UNCHANGED <<link, handler, verifying, codex, left>>

\* The lease ends 24 hours after the connection was made, whatever the task does.
LeaseEnds == /\ link.state = "active"
             /\ ~link.expired
             /\ Spend("leases")
             /\ link' = [link EXCEPT !.expired = TRUE]
             /\ UNCHANGED <<handler, watcher, observer, locked, verifying, codex>>

Restart == /\ Fault
           /\ Leave
           /\ watcher' = [t \in Turns |-> Unwatched]
           /\ observer' = Unobserved
           /\ locked' = FALSE
           /\ verifying' = NoVerification
           /\ UNCHANGED <<link, codex>>

------------------------------------------------------------------------------

Init == /\ left \in Budgets
        /\ link = IF left.connected THEN NewLink("desktop") ELSE NoLink
        /\ handler = NoHandler
        /\ watcher = [t \in Turns |-> Unwatched]
        /\ observer = Unobserved
        /\ locked = FALSE
        /\ verifying = NoVerification
        /\ turn = [t \in Turns |-> "none"]
        /\ last = 0
        /\ ask = NoAsk
        /\ asked = 0
        /\ desktop = left.connected

\* A turn that fails or is stopped in Codex is shown as one that completes is.
External == \/ \E s \in {"completed", "planned"} : TurnEnds(s)
            \/ \E k \in {"questions", "approvals"} : TurnAsks(k)
            \/ AskWithdrawn
            \/ DesktopOpens
            \/ DesktopStartsTurn

Operation == \/ Upsert \/ TakeOwnership
             \/ CallStartTurn \/ CallSteerTurn \/ CallInterruptTurn \/ CallLost
             \/ AnswerInput \/ AnswerUnverified \/ HandlerFails
             \/ HandlerUpdates \/ HandlerObserves

Watch(t) == \/ WatcherLooks(t) \/ WatcherCancels(t) \/ WatcherBlocks(t)
            \/ WatcherUpdates(t) \/ WatcherRemoved(t)

Observe == ObserverLooks \/ ObserverApplies

\* Bound: what Codex does after the link has ended is left out.
Next == \/ (link.state = "none" \/ EffectivelyActive(link)) /\ External
        \/ CreateTask
        \/ \E op \in Operations, q \in 0 .. MaxAsks : Handle(op, q)
        \/ Operation
        \/ \E t \in Turns : Watch(t) \/ WatcherTimesOut(t)
        \/ Observe
        \/ PermissionRecovers \/ ApplyInputOutcome \/ Redelivered
        \/ Maintenance \/ LeaseEnds \/ Restart

\* Handlers and goroutines go on (every call has a timeout); the maintenance comes every
\* 30 seconds. Users and Codex owe nothing.
Fairness == /\ WF_vars(Operation)
            /\ \A t \in Turns : WF_vars(Watch(t))
            /\ WF_vars(Observe)
            /\ WF_vars(Maintenance)

Spec == Init /\ [][Next]_vars

LiveSpec == Spec /\ Fairness

------------------------------------------------------------------------------
(* Properties *)

TypeOK ==
  /\ link \in [state : {"none", "active", "released"}, messages : BOOLEAN, expired : BOOLEAN,
               owner : {"bridge", "desktop"}, turnState : TurnStates, active : 0 .. MaxTurns,
               latest : 0 .. MaxTurns, question : 0 .. MaxAsks, plan : 0 .. MaxTurns,
               blocked : 0 .. MaxTurns]
  /\ handler.pc \in {"idle", "upsert", "own", "call", "update", "observe"}
  /\ \A t \in Turns : watcher[t].pc \in {"off", "look", "cancel", "block", "question", "running",
                                   "plan", "end", "over"}
  /\ observer.pc \in {"off", "look", "apply"}
  /\ turn \in [Turns -> Over \cup {"none", "running", "planned"}]
  /\ last \in 0 .. MaxTurns
  /\ asked \in 0 .. MaxAsks

\* A link that was released or has expired keeps the turn it had: no late turn, no
\* watcher and no handler revives it or changes what it says.
EndedLinkStaysEnded ==
  [][(link.state # "none" /\ ~EffectivelyActive(link)) =>
       \/ link' = link
       \/ link' = Released(link)]_vars

\* A task locked by an approval stays locked until Desktop has it and works on another
\* turn; until then no turn is started for it, except by an operation that was already
\* on its way when the lock came.
LockEnds ==
  PermissionBlocked(link) =>
    \/ link'.blocked = link.blocked
    \/ /\ link'.blocked = 0
       /\ link'.owner = "desktop"
       /\ desktop
       /\ last # link.blocked
    \/ \E t \in Turns : Watched(t, "block") /\ link'.blocked = t

\* The types; and how a lock ends (inbound_runtime.go:1222).
TurnsSound == []TypeOK /\ [][LockEnds]_vars

\* A link that says its turn is running learns of the end of that turn, or of another
\* turn, unless the link itself ends or is locked: also after restarts, and when the
\* watcher that should have told it was just returning as the handler wanted to start it.
\* The link of a task that Desktop has catches up with the last turn there, also when an
\* operation and the observer write over each other.
SaysRunning(t) == /\ EffectivelyActive(link)
                  /\ ~PermissionBlocked(link)
                  /\ link.active = t
                  /\ link.turnState \in {"running", "waiting_input"}

Outdated(t) == SaysRunning(t) /\ turn[t] # "running" /\ ask = NoAsk

Behind == /\ EffectivelyActive(link)
          /\ DesktopOwned(link)
          /\ desktop
          /\ link.latest # last

LinkCatchesUp == []<>~(Behind \/ \E t \in Turns : Outdated(t))

\* The task card keeps up with the current turn of Codex (README.md): while the turn
\* that the Core started last runs, and its handler is done, the link of the task does
\* not say that the task is over.
CardFollowsCurrentTurn ==
  (/\ EffectivelyActive(link)
   /\ ~desktop
   /\ ~PermissionBlocked(link)
   /\ handler = NoHandler
   /\ Running(last)) => link.active = last

------------------------------------------------------------------------------
(* Small instances: threads in which Codex starts two turns, with one request or one fault
   beside them *)

Quiet == [connected |-> FALSE, turns |-> 2, questions |-> 0, approvals |-> 0, faults |-> 0,
          leases |-> 0, opens |-> 0]

Connected == [Quiet EXCEPT !.connected = TRUE]

MCBudgets == {[Quiet EXCEPT !.questions = 1],
              [Quiet EXCEPT !.faults = 1],
              [Quiet EXCEPT !.approvals = 1, !.opens = 1],
              [Quiet EXCEPT !.turns = 1, !.approvals = 1, !.faults = 1],
              [Connected EXCEPT !.turns = 1, !.questions = 1, !.faults = 1],
              [Connected EXCEPT !.turns = 1, !.approvals = 1, !.leases = 1],
              Connected}

\* Two turns: enough for what the code gets wrong.
OrphanBudgets == {Quiet}
==============================================================================
