--------------------------- MODULE TaskTurnsProofs ---------------------------
(* What the link of a task promises, for any number of turns and requests and any budgets:  *)
(* an ended link is never revived, and a lock ends only through Desktop. Both rest on what   *)
(* handlers, watchers and observers carry from their reads to their writes: turns that Codex *)
(* has started, ends that it has seen, and a link that is there.                             *)
EXTENDS TaskTurns, TLAPS

TurnStatus == Over \cup {"none", "running", "planned"}

Requests == {NoAsk} \cup [id : Asks, turn : Turns, kind : {"questions", "approvals"}]

Link == [state : {"none", "active", "released"}, messages : BOOLEAN, expired : BOOLEAN,
         owner : {"bridge", "desktop"}, turnState : TurnStates, active : 0 .. MaxTurns,
         latest : 0 .. MaxTurns, question : 0 .. MaxAsks, plan : 0 .. MaxTurns,
         blocked : 0 .. MaxTurns]

Handler == [op : Operations \cup {"none"},
            pc : {"idle", "upsert", "own", "call", "update", "observe"}, turn : 0 .. MaxTurns,
            ask : 0 .. MaxAsks, desktop : BOOLEAN]

Watcher == [pc : {"off", "look", "cancel", "block", "question", "running", "plan", "end", "over"},
            status : TurnStatus, ask : Requests]

Observer == [pc : {"off", "look", "apply"}, shown : 0 .. MaxTurns, status : TurnStatus,
             ask : Requests]

Budget == [connected : BOOLEAN, turns : 0 .. MaxTurns, questions : 0 .. MaxAsks,
           approvals : 0 .. MaxAsks, faults : Nat, leases : 0 .. 1, opens : 0 .. 1]

\* Codex has the turns up to the last; a request waits in the last, which runs.
CodexOK ==
  /\ turn \in [Turns -> TurnStatus]
  /\ last \in 0 .. MaxTurns
  /\ asked \in 0 .. MaxAsks
  /\ ask \in Requests
  /\ desktop \in BOOLEAN
  /\ \A t \in Turns : turn[t] = "none" <=> t > last
  /\ ask # NoAsk => ask.turn = last /\ Running(last)

CoreTypes ==
  /\ link \in Link
  /\ handler \in Handler
  /\ watcher \in [Turns -> Watcher]
  /\ observer \in Observer
  /\ locked \in BOOLEAN
  /\ verifying \in [turn : 0 .. MaxTurns, question : 0 .. MaxAsks]

\* The link and who writes it know only turns that Codex has started.
LinkKnows(l) == l.active <= last /\ l.latest <= last /\ l.plan <= last /\ l.blocked <= last

HandlerKnows == handler.turn <= last

WatcherKnows(t) ==
  /\ watcher[t].pc # "off" => t <= last
  /\ watcher[t].pc = "end" => watcher[t].status \in Over

ObserverKnows ==
  observer.pc = "apply" =>
    observer.shown \in Turns /\ observer.shown <= last /\ observer.status # "none"

\* Before a task is created there is no link, and afterwards there always is one.
LinkThere ==
  /\ link.state = "none" => link = NoLink
  /\ handler.pc = "upsert" => link.state = "none"
  /\ handler.pc \in {"own", "call", "update", "observe"} => link.state # "none"
  /\ handler.pc # "idle" => handler.op # "none"
  /\ handler.pc = "update" /\ handler.op = "release" => handler.turn = 0

CoreOK ==
  /\ CoreTypes
  /\ LinkKnows(link)
  /\ HandlerKnows
  /\ \A t \in Turns : WatcherKnows(t)
  /\ ObserverKnows
  /\ LinkThere

IInv == CodexOK /\ CoreOK /\ left \in Budget

(* What the operators of the model make. *)

LEMMA TurnsAreNumbers == MaxTurns \in Nat \ {0} /\ MaxAsks \in Nat /\ Budgets \subseteq Budget
  BY TurnsAssumption DEF Budget

LEMMA Zeros == 0 \in 0 .. MaxTurns /\ 0 \in 0 .. MaxAsks
  BY TurnsAreNumbers

LEMMA NewLinkTyped ==
  /\ NewLink("desktop") \in Link
  /\ [NewLink("desktop") EXCEPT !.messages = FALSE] \in Link
  /\ NoLink \in Link
<1>1. 0 \in 0 .. MaxTurns /\ 0 \in 0 .. MaxAsks BY TurnsAreNumbers
<1>2. NewLink("desktop") \in Link BY <1>1 DEF NewLink, Link, TurnStates
<1>3. PICK l \in Link : l = NewLink("desktop") BY <1>2
<1>4. [l EXCEPT !.messages = FALSE] \in Link /\ [l EXCEPT !.state = "none"] \in Link
  BY <1>3 DEF Link
<1> QED BY <1>2, <1>3, <1>4 DEF NoLink

\* StartTurn: one more turn, which runs; no turn disappears.
LEMMA TurnStarts ==
  ASSUME CodexOK, left \in Budget, StartTurn
  PROVE  CodexOK' /\ last' = last + 1 /\ last' # 0
<1>1. /\ last < left.turns /\ last' = last + 1 /\ turn' = StartedTurns /\ ask' = NoAsk
      /\ asked' = asked /\ desktop' = desktop
  BY DEF StartTurn
<1>2. left.turns \in 0 .. MaxTurns BY DEF Budget
<1>3. last' \in 0 .. MaxTurns /\ last' # 0 BY <1>1, <1>2, TurnsAreNumbers DEF CodexOK
<1>4. turn' \in [Turns -> TurnStatus] BY <1>1 DEF CodexOK, StartedTurns, TurnStatus, Over
<1>5. \A t \in Turns : turn'[t] = "none" <=> t > last'
  BY <1>1, TurnsAreNumbers DEF CodexOK, StartedTurns, TurnStatus, Over, Turns
<1> QED BY <1>1, <1>3, <1>4, <1>5 DEF CodexOK, Requests

\* StopTurn: a turn that ran ends, and nothing waits any more.
LEMMA TurnStops ==
  ASSUME CodexOK, NEW t, Running(t), t \in 0 .. MaxTurns,
         NEW status \in TurnStatus \ {"none"}, StopTurn(t, status)
  PROVE  CodexOK' /\ last' = last
<1>1. /\ turn' = [turn EXCEPT ![t] = status] /\ ask' = NoAsk
      /\ last' = last /\ asked' = asked /\ desktop' = desktop
  BY DEF StopTurn
<1>2. t \in Turns /\ turn[t] = "running" BY TurnsAreNumbers DEF Running, Turns
<1>3. turn' \in [Turns -> TurnStatus] BY <1>1, <1>2 DEF CodexOK
<1>4. \A u \in Turns : turn'[u] = "none" <=> u > last' BY <1>1, <1>2 DEF CodexOK
<1> QED BY <1>1, <1>3, <1>4 DEF CodexOK, Requests

\* A request is answered or withdrawn.
LEMMA AskGoes ==
  ASSUME CodexOK, ask' = NoAsk, UNCHANGED <<turn, last, asked, desktop>>
  PROVE  CodexOK' /\ last' = last
  BY DEF CodexOK, Requests

LEMMA CodexStays ==
  ASSUME CodexOK, UNCHANGED codex
  PROVE  CodexOK' /\ last' = last
  BY DEF CodexOK, codex, Running

\* Spend: what may still happen becomes less.
LEMMA SpendKeeps ==
  /\ left \in Budget /\ Spend("faults") => left' \in Budget
  /\ left \in Budget /\ Spend("questions") => left' \in Budget
  /\ left \in Budget /\ Spend("approvals") => left' \in Budget
  /\ left \in Budget /\ Spend("leases") => left' \in Budget
  /\ left \in Budget /\ Spend("opens") => left' \in Budget
  BY TurnsAreNumbers DEF Spend, Budget

\* The core keeps what it knows when Codex goes on.
LEMMA CoreStays ==
  ASSUME CodexOK, CodexOK', CoreOK, UNCHANGED core, last' >= last
  PROVE  CoreOK'
<1>1. UNCHANGED <<link, handler, watcher, observer, locked, verifying>> BY DEF core
<1>2. last \in Int /\ last' \in Int BY TurnsAreNumbers DEF CodexOK
<1>3. CoreTypes' /\ LinkThere' BY <1>1 DEF CoreOK, CoreTypes, LinkThere
<1>4. /\ link.active \in Int /\ link.latest \in Int /\ link.plan \in Int /\ link.blocked \in Int
      /\ handler.turn \in Int
  BY TurnsAreNumbers DEF CoreOK, CoreTypes, Link, Handler
<1>5. LinkKnows(link)' /\ HandlerKnows' BY <1>1, <1>2, <1>4 DEF CoreOK, LinkKnows, HandlerKnows
<1>6. ObserverKnows' /\ \A t \in Turns : WatcherKnows(t)'
  BY <1>1, <1>2, TurnsAreNumbers DEF CoreOK, ObserverKnows, WatcherKnows, Turns
<1> QED BY <1>3, <1>5, <1>6 DEF CoreOK

\* Parts of the core that move one at a time, the turns staying as they are or one more.
LEMMA WatcherMoves ==
  ASSUME CoreOK, NEW t \in Turns, NEW w \in Watcher, watcher' = [watcher EXCEPT ![t] = w],
         last' = last, w.pc # "off" => t <= last, w.pc = "end" => w.status \in Over
  PROVE  watcher' \in [Turns -> Watcher] /\ \A u \in Turns : WatcherKnows(u)'
<1>1. watcher' \in [Turns -> Watcher] BY DEF CoreOK, CoreTypes
<1>2. ASSUME NEW u \in Turns
      PROVE  WatcherKnows(u)'
  <2>1. CASE u = t BY <2>1 DEF CoreOK, CoreTypes, WatcherKnows
  <2>2. CASE u # t
    <3>1. watcher'[u] = watcher[u] BY <2>2 DEF CoreOK, CoreTypes
    <3> QED BY <3>1 DEF CoreOK, WatcherKnows
  <2> QED BY <2>1, <2>2
<1> QED BY <1>1, <1>2

LEMMA StepMoves ==
  ASSUME CoreOK, NEW t \in Turns, NEW pc, Step(t, pc), last' = last,
         pc \in {"off", "look", "cancel", "block", "over"}, pc # "off" => t <= last
  PROVE  watcher' \in [Turns -> Watcher] /\ \A u \in Turns : WatcherKnows(u)'
<1> DEFINE w == [Unwatched EXCEPT !.pc = pc]
<1>1. w \in Watcher /\ w.pc = pc BY DEF Unwatched, Watcher, TurnStatus, Requests
<1> QED BY <1>1, WatcherMoves DEF Step

LEMMA LaunchMoves ==
  ASSUME CoreOK, NEW t \in Turns, LaunchWatcher(t), last' = last, t <= last
  PROVE  watcher' \in [Turns -> Watcher] /\ \A u \in Turns : WatcherKnows(u)'
<1>1. CASE watcher[t].pc # "off" BY <1>1 DEF LaunchWatcher, CoreOK, CoreTypes, WatcherKnows
<1>2. CASE watcher[t].pc = "off"
  <2> DEFINE w == [watcher[t] EXCEPT !.pc = "look"]
  <2>1. PICK v \in Watcher : v = watcher[t] BY DEF CoreOK, CoreTypes
  <2>2. w \in Watcher /\ w.pc = "look" BY <2>1 DEF Watcher
  <2>3. watcher' = [watcher EXCEPT ![t] = w] BY <1>2 DEF LaunchWatcher
  <2> QED BY <2>2, <2>3, WatcherMoves
<1> QED BY <1>1, <1>2

LEMMA WatchersStay ==
  ASSUME CoreOK, UNCHANGED <<watcher, last>>
  PROVE  watcher' \in [Turns -> Watcher] /\ \A u \in Turns : WatcherKnows(u)'
  BY DEF CoreOK, CoreTypes, WatcherKnows

LEMMA ObserveMoves ==
  ASSUME CoreOK, ObserveDesktopTask, last' = last
  PROVE  observer' \in Observer /\ ObserverKnows'
<1>1. PICK v \in Observer : v = observer BY DEF CoreOK, CoreTypes
<1>2. [v EXCEPT !.pc = "look"] \in Observer BY DEF Observer
<1> QED BY <1>1, <1>2 DEF ObserveDesktopTask, CoreOK, ObserverKnows

LEMMA NobodyObserves ==
  /\ Unobserved \in Observer /\ Unobserved.pc = "off"
  /\ [Unobserved EXCEPT !.pc = "look"] \in Observer
  BY TurnsAreNumbers DEF Unobserved, Observer, TurnStatus, Requests

(* What a write makes of the link. *)

LEMMA LinkIsTyped ==
  ASSUME CoreOK, CodexOK
  PROVE  /\ link \in Link /\ LinkKnows(link) /\ last \in Int
         /\ link.active \in Int /\ link.latest \in Int /\ link.plan \in Int /\ link.blocked \in Int
  BY TurnsAreNumbers DEF CoreOK, CoreTypes, CodexOK, Link

\* UpdateActiveByID: an ended link stays as it is, an active one becomes the new one.
LEMMA Patched ==
  ASSUME CoreOK, NEW new, link' = UpdateActiveByID(link, new), last' = last,
         EffectivelyActive(link) => new \in Link /\ LinkKnows(new) /\ new.state = link.state
  PROVE  /\ link' \in Link /\ LinkKnows(link)' /\ link'.state = link.state
         /\ ~EffectivelyActive(link) => link' = link
<1>1. CASE EffectivelyActive(link)
  <2>1. link' = new BY <1>1 DEF UpdateActiveByID
  <2> QED BY <1>1, <2>1 DEF LinkKnows
<1>2. CASE ~EffectivelyActive(link)
  <2>1. link' = link BY <1>2 DEF UpdateActiveByID
  <2> QED BY <1>2, <2>1 DEF CoreOK, CoreTypes, LinkKnows
<1> QED BY <1>1, <1>2

LEMMA RunningTurnTyped ==
  ASSUME NEW l \in Link, LinkKnows(l), NEW t \in 0 .. MaxTurns, t <= last
  PROVE  /\ RunningTurn(l, t) \in Link /\ LinkKnows(RunningTurn(l, t))
         /\ RunningTurn(l, t).state = l.state /\ RunningTurn(l, t).blocked = l.blocked
         /\ [RunningTurn(l, t) EXCEPT !.plan = 0] \in Link
         /\ last >= 0 => LinkKnows([RunningTurn(l, t) EXCEPT !.plan = 0])
         /\ [RunningTurn(l, t) EXCEPT !.plan = 0].state = l.state
         /\ [RunningTurn(l, t) EXCEPT !.plan = 0].blocked = l.blocked
<1>1. PICK m \in Link : m = RunningTurn(l, t)
  BY TurnsAreNumbers DEF RunningTurn, Link, TurnStates
<1>2. /\ m.state = l.state /\ m.blocked = l.blocked /\ m.active = t /\ m.latest = t
      /\ m.plan = l.plan
  BY <1>1 DEF RunningTurn, Link
<1>3. PICK n \in Link : n = [m EXCEPT !.plan = 0] BY Zeros DEF Link
<1>4. /\ n.state = m.state /\ n.blocked = m.blocked /\ n.active = m.active
      /\ n.latest = m.latest /\ n.plan = 0
  BY <1>3 DEF Link
<1> QED BY <1>1, <1>2, <1>3, <1>4 DEF LinkKnows

LEMMA AnswerlessTyped ==
  ASSUME NEW l \in Link, LinkKnows(l)
  PROVE  /\ Answerless(l) \in Link /\ LinkKnows(Answerless(l))
         /\ Answerless(l).state = l.state /\ Answerless(l).blocked = l.blocked
         /\ Answerless(l).owner = l.owner
<1>1. PICK m \in Link : m = Answerless(l) BY Zeros DEF Answerless, Link
<1>2. /\ m.state = l.state /\ m.blocked = l.blocked /\ m.active = l.active
      /\ m.latest = l.latest /\ m.plan = l.plan /\ m.owner = l.owner
  BY <1>1 DEF Answerless, Link
<1> QED BY <1>1, <1>2 DEF LinkKnows

LEMMA TurnStateTyped ==
  ASSUME NEW l \in Link, LinkKnows(l), NEW s \in TurnStates
  PROVE  /\ [l EXCEPT !.turnState = s] \in Link /\ LinkKnows([l EXCEPT !.turnState = s])
         /\ [l EXCEPT !.turnState = s].state = l.state
         /\ [l EXCEPT !.turnState = s].blocked = l.blocked
<1>1. PICK m \in Link : m = [l EXCEPT !.turnState = s] BY DEF Link
<1>2. /\ m.state = l.state /\ m.blocked = l.blocked /\ m.active = l.active
      /\ m.latest = l.latest /\ m.plan = l.plan
  BY <1>1 DEF Link
<1> QED BY <1>1, <1>2 DEF LinkKnows

LEMMA ReleasedTyped ==
  ASSUME NEW l \in Link, LinkKnows(l)
  PROVE  /\ Released(l) \in Link /\ LinkKnows(Released(l)) /\ Released(l).state = "released"
         /\ Released(l).blocked = l.blocked
<1>1. PICK m \in Link : m = Released(l) BY DEF Released, Link, TurnStates
<1>2. /\ m.state = "released" /\ m.blocked = l.blocked /\ m.active = l.active
      /\ m.latest = l.latest /\ m.plan = l.plan
  BY <1>1 DEF Released, Link
<1> QED BY <1>1, <1>2 DEF LinkKnows

\* Projected: what Desktop shows of a turn that Codex has started.
LEMMA ProjectedTyped ==
  ASSUME CodexOK, NEW l \in Link, LinkKnows(l), NEW t \in Turns, t <= last,
         NEW status \in TurnStatus \ {"none"}, NEW request \in Requests
  PROVE  /\ Projected(l, t, status, request) \in Link
         /\ LinkKnows(Projected(l, t, status, request))
         /\ Projected(l, t, status, request).state = l.state
         /\ Projected(l, t, status, request).blocked = l.blocked
         /\ Projected(l, t, status, request).owner = l.owner
<1> DEFINE shown == CASE status = "planned" -> "plan_ready"
                      [] status = "running" /\ request = NoAsk -> "running"
                      [] status = "running" /\ request.kind = "questions" /\ request # NoAsk ->
                           "waiting_input"
                      [] status = "running" /\ request.kind = "approvals" ->
                           "desktop_action_required"
                      [] OTHER -> status
           active == IF status = "running" THEN t ELSE 0
           plan == IF status = "planned" THEN t ELSE 0
           question == IF shown = "waiting_input" THEN request.id ELSE 0
<1>1. /\ request.kind \in {"questions", "approvals"} /\ request.id \in 0 .. MaxAsks
  BY TurnsAreNumbers DEF Requests, NoAsk, Asks
<1>2. NoAsk.kind = "questions" BY DEF NoAsk
<1>3. shown \in TurnStates BY <1>1, <1>2 DEF TurnStates, TurnStatus, Over
<1>4. /\ active \in 0 .. MaxTurns /\ plan \in 0 .. MaxTurns /\ question \in 0 .. MaxAsks
      /\ t \in 0 .. MaxTurns
  BY <1>1, TurnsAreNumbers DEF Turns
<1>5. active <= last /\ plan <= last BY DEF CodexOK
<1>6. /\ [l EXCEPT !.turnState = shown, !.latest = t, !.active = active, !.plan = plan,
                   !.question = question] \in Link
      /\ Projected(l, t, status, request) =
           [l EXCEPT !.turnState = shown, !.latest = t, !.active = active, !.plan = plan,
                     !.question = question]
  <2> HIDE DEF active, plan, question
  <2>1. [l EXCEPT !.turnState = shown, !.latest = t, !.active = active, !.plan = plan,
                  !.question = question] \in Link
    <3> HIDE DEF shown
    <3> QED BY <1>3, <1>4 DEF Link
  <2>2. Projected(l, t, status, request) =
           [l EXCEPT !.turnState = shown, !.latest = t, !.active = active, !.plan = plan,
                     !.question = question]
    BY DEF Projected, active, plan, question
  <2> QED BY <2>1, <2>2
<1> HIDE DEF active, plan, question, shown
<1>7. PICK m \in Link :
        /\ m = [l EXCEPT !.turnState = shown, !.latest = t, !.active = active, !.plan = plan,
                         !.question = question]
        /\ m = Projected(l, t, status, request)
  BY <1>6
<1>8. /\ m.state = l.state /\ m.blocked = l.blocked /\ m.active = active /\ m.latest = t
      /\ m.plan = plan /\ m.owner = l.owner
  BY <1>7 DEF Link
<1> QED BY <1>5, <1>7, <1>8 DEF LinkKnows

\* The rest of the core is put together again.
LEMMA CoreTogether ==
  ASSUME CoreOK, link' \in Link, LinkKnows(link)',
         link.state = "none" => link' = link, link.state # "none" => link'.state # "none",
         handler' = handler \/ handler' = NoHandler, last' = last,
         watcher' \in [Turns -> Watcher], \A u \in Turns : WatcherKnows(u)',
         observer' \in Observer, ObserverKnows', locked' \in BOOLEAN,
         verifying' \in [turn : 0 .. MaxTurns, question : 0 .. MaxAsks],
         last \in 0 .. MaxTurns
  PROVE  CoreOK'
<1>1. handler' \in Handler /\ HandlerKnows'
  <2>1. NoHandler \in Handler /\ NoHandler.turn = 0 /\ 0 <= last BY Zeros DEF NoHandler, Handler
  <2> QED BY <2>1 DEF CoreOK, CoreTypes, HandlerKnows
<1>2. LinkThere' BY DEF CoreOK, LinkThere, NoHandler
<1> QED BY <1>1, <1>2 DEF CoreOK, CoreTypes

(* Codex by itself, and Desktop. *)

\* What every step promises of the link.
EndedStays ==
  link.state # "none" /\ ~EffectivelyActive(link) => link' = link \/ link' = Released(link)

LEMMA SameLink ==
  ASSUME UNCHANGED link
  PROVE  LockEnds /\ EndedStays
  BY DEF LockEnds, EndedStays

LEMMA ExternalKeeps ==
  ASSUME IInv, External
  PROVE  IInv' /\ LockEnds /\ EndedStays
<1>0. CodexOK /\ CoreOK /\ left \in Budget /\ last \in Int BY TurnsAreNumbers DEF IInv, CodexOK
<1>1. ASSUME NEW s \in {"completed", "planned"}, TurnEnds(s)
      PROVE  CodexOK' /\ last' = last /\ UNCHANGED core /\ left' \in Budget
  <2>1. Running(last) /\ StopTurn(last, s) /\ UNCHANGED <<core, left>> BY <1>1 DEF TurnEnds
  <2>2. s \in TurnStatus \ {"none"} /\ last \in 0 .. MaxTurns
    BY <1>0 DEF TurnStatus, Over, CodexOK
  <2> QED BY <1>0, <2>1, <2>2, TurnStops
<1>2. ASSUME NEW k \in {"questions", "approvals"}, TurnAsks(k)
      PROVE  CodexOK' /\ last' = last /\ UNCHANGED core /\ left' \in Budget
  <2>1. /\ Running(last) /\ asked < MaxAsks /\ Spend(k) /\ asked' = asked + 1
        /\ ask' = [id |-> asked + 1, turn |-> last, kind |-> k]
        /\ UNCHANGED <<core, turn, last, desktop>>
    BY <1>2 DEF TurnAsks
  <2>2. asked + 1 \in Asks /\ asked' \in 0 .. MaxAsks
    BY <1>0, <2>1, TurnsAreNumbers DEF CodexOK, Asks
  <2>3. last \in Turns BY <1>0, <2>1, TurnsAreNumbers DEF CodexOK, Turns, Running
  <2>4. ask' \in Requests /\ ask'.turn = last BY <2>1, <2>2, <2>3 DEF Requests
  <2>5. left' \in Budget BY <1>0, <1>2, <2>1, SpendKeeps
  <2>6. Running(last)' BY <2>1 DEF Running
  <2> QED BY <1>0, <2>1, <2>2, <2>4, <2>5, <2>6 DEF CodexOK
<1>3. ASSUME AskWithdrawn
      PROVE  CodexOK' /\ last' = last /\ UNCHANGED core /\ left' \in Budget
  BY <1>0, <1>3, AskGoes DEF AskWithdrawn
<1>4. ASSUME DesktopOpens
      PROVE  CodexOK' /\ last' = last /\ UNCHANGED core /\ left' \in Budget
  <2>1. UNCHANGED <<core, turn, last, ask, asked>> /\ desktop' = TRUE /\ Spend("opens")
    BY <1>4 DEF DesktopOpens
  <2>2. CodexOK' BY <1>0, <2>1 DEF CodexOK, Running
  <2> QED BY <1>0, <2>1, <2>2, SpendKeeps
<1>5. ASSUME DesktopStartsTurn
      PROVE  CodexOK' /\ last' = last + 1 /\ UNCHANGED core /\ left' \in Budget
  BY <1>0, <1>5, TurnStarts DEF DesktopStartsTurn
<1>6. CodexOK' /\ last' >= last /\ UNCHANGED core /\ left' \in Budget
  BY <1>0, <1>1, <1>2, <1>3, <1>4, <1>5 DEF External
<1>7. CoreOK' BY <1>0, <1>6, CoreStays
<1>8. UNCHANGED link BY <1>6 DEF core
<1> QED BY <1>6, <1>7, <1>8, SameLink DEF IInv

(* The handler, before and while it asks Codex. *)

LEMMA HandlerReads ==
  ASSUME IInv, NEW op \in Operations, NEW pc \in {"upsert", "call", "update"},
         NEW q \in 0 .. MaxAsks, Enter(op, pc, q),
         pc = "upsert" <=> link.state = "none", pc = "update" => op = "release"
  PROVE  IInv' /\ LockEnds /\ EndedStays
<1>0. CodexOK /\ CoreOK /\ left \in Budget BY DEF IInv
<1>1. /\ handler' = [op |-> op, pc |-> pc, turn |-> ReadTurn(op, link), ask |-> q,
                     desktop |-> DesktopOwned(link)]
      /\ UNCHANGED <<link, watcher, observer, locked, verifying, codex, left>>
  BY DEF Enter
<1>2. CodexOK' /\ last' = last /\ left' \in Budget BY <1>0, <1>1, CodexStays
<1>3. ReadTurn(op, link) \in 0 .. MaxTurns /\ ReadTurn(op, link) <= last
  BY <1>0, Zeros DEF ReadTurn, CoreOK, CoreTypes, Link, LinkKnows, CodexOK
<1>4. op = "release" => ReadTurn(op, link) = 0 BY DEF ReadTurn
<1>5. handler' \in Handler /\ HandlerKnows'
  BY <1>1, <1>2, <1>3 DEF Handler, HandlerKnows, DesktopOwned
<1>6. LinkThere' BY <1>0, <1>1, <1>4 DEF CoreOK, LinkThere, Operations
<1>7. CoreOK'
  BY <1>0, <1>1, <1>2, <1>5, <1>6
     DEF CoreOK, CoreTypes, LinkKnows, WatcherKnows, ObserverKnows
<1> QED BY <1>1, <1>2, <1>7, SameLink DEF IInv

LEMMA CreateTaskKeeps ==
  ASSUME IInv, CreateTask
  PROVE  IInv' /\ LockEnds /\ EndedStays
  BY Zeros, HandlerReads DEF CreateTask, Operations

LEMMA HandleKeeps ==
  ASSUME IInv, NEW op \in Operations, NEW q \in 0 .. MaxAsks, Handle(op, q)
  PROVE  IInv' /\ LockEnds /\ EndedStays
<1>1. /\ link.state = "active"
      /\ Enter(op, IF op = "release" THEN "update" ELSE "call", q)
  BY DEF Handle, Admits, EffectivelyActive
<1>2. CASE op = "release" BY <1>1, <1>2, HandlerReads
<1>3. CASE op # "release" BY <1>1, <1>3, HandlerReads
<1> QED BY <1>2, <1>3

\* The handler is over, or has lost what it asked.
LEMMA HandlerLeaves ==
  ASSUME IInv, Leave, UNCHANGED <<link, watcher, observer, locked>>, left' \in Budget,
         CodexOK', last' >= last,
         verifying' \in [turn : 0 .. MaxTurns, question : 0 .. MaxAsks]
  PROVE  IInv' /\ LockEnds /\ EndedStays
<1>0. CodexOK /\ CoreOK BY DEF IInv
<1>1. last \in Int /\ last' \in Int /\ last' \in 0 .. MaxTurns
  BY <1>0, TurnsAreNumbers DEF CodexOK
<1>2. NoHandler \in Handler /\ NoHandler.turn = 0 BY Zeros DEF NoHandler, Handler
<1>3. LinkKnows(link)' /\ \A t \in Turns : WatcherKnows(t)'
  BY <1>0, <1>1, LinkIsTyped, TurnsAreNumbers DEF CoreOK, LinkKnows, WatcherKnows, Turns
<1>4. HandlerKnows' /\ LinkThere' /\ ObserverKnows'
  BY <1>0, <1>1, <1>2, TurnsAreNumbers
     DEF Leave, HandlerKnows, LinkThere, CoreOK, ObserverKnows, NoHandler, Turns
<1>5. CoreTypes' BY <1>0, <1>2 DEF Leave, CoreOK, CoreTypes
<1> QED BY <1>3, <1>4, <1>5, SameLink DEF IInv, CoreOK

LEMMA HandlerFailsKeeps ==
  ASSUME IInv, HandlerFails
  PROVE  IInv' /\ LockEnds /\ EndedStays
<1>1. Leave /\ UNCHANGED <<link, watcher, observer, locked, verifying, codex, left>>
  BY DEF HandlerFails
<1>2. CodexOK' /\ last' = last BY <1>1, CodexStays DEF IInv
<1>3. last \in Int BY TurnsAreNumbers DEF IInv, CodexOK
<1> QED BY <1>1, <1>2, <1>3, HandlerLeaves DEF IInv, CoreOK, CoreTypes

LEMMA CallLostKeeps ==
  ASSUME IInv, CallLost
  PROVE  IInv' /\ LockEnds /\ EndedStays
<1>1. /\ Leave /\ Spend("faults") /\ StartTurn
      /\ UNCHANGED <<link, watcher, observer, locked, verifying>>
  BY DEF CallLost, Fault
<1>2. CodexOK' /\ last' = last + 1 /\ left' \in Budget BY <1>1, TurnStarts, SpendKeeps DEF IInv
<1>3. last \in Int BY TurnsAreNumbers DEF IInv, CodexOK
<1> QED BY <1>1, <1>2, <1>3, HandlerLeaves DEF IInv, CoreOK, CoreTypes

LEMMA AnswerUnverifiedKeeps ==
  ASSUME IInv, AnswerUnverified
  PROVE  IInv' /\ LockEnds /\ EndedStays
<1>1. /\ verifying' = [turn |-> handler.turn, question |-> handler.ask] /\ Leave
      /\ Spend("faults") /\ UNCHANGED <<link, watcher, observer, locked, codex>>
  BY DEF AnswerUnverified, Fault
<1>2. CodexOK' /\ last' = last /\ left' \in Budget BY <1>1, CodexStays, SpendKeeps DEF IInv
<1>3. last \in Int BY TurnsAreNumbers DEF IInv, CodexOK
<1>4. handler.turn \in 0 .. MaxTurns /\ handler.ask \in 0 .. MaxAsks
  BY DEF IInv, CoreOK, CoreTypes, Handler
<1> QED BY <1>1, <1>2, <1>3, <1>4, HandlerLeaves

\* Codex took the call of the handler as turn t.
LEMMA CallKeeps ==
  ASSUME IInv, NEW t \in 0 .. MaxTurns, Called(t), CodexOK', last' >= last, t <= last',
         handler.pc = "call", handler.op # "release"
  PROVE  IInv' /\ LockEnds /\ EndedStays
<1>0. CodexOK /\ CoreOK /\ left \in Budget BY DEF IInv
<1>1. /\ handler' = [NoHandler EXCEPT !.op = handler.op, !.pc = "update", !.turn = t]
      /\ UNCHANGED <<link, watcher, observer, locked, verifying, left>>
  BY DEF Called
<1>2. last \in Int /\ last' \in Int BY <1>0, TurnsAreNumbers DEF CodexOK
<1>3. handler.op \in Operations BY <1>0 DEF CoreOK, CoreTypes, Handler, LinkThere
<1>4. PICK h \in Handler : h = NoHandler BY Zeros DEF NoHandler, Handler
<1>5. /\ handler' \in Handler /\ handler'.pc = "update" /\ handler'.op = handler.op
      /\ handler'.turn = t
  BY <1>1, <1>3, <1>4 DEF Handler
<1>6. LinkKnows(link)' /\ \A u \in Turns : WatcherKnows(u)'
  BY <1>0, <1>1, <1>2, LinkIsTyped, TurnsAreNumbers
     DEF CoreOK, LinkKnows, WatcherKnows, Turns
<1>7. HandlerKnows' /\ ObserverKnows' /\ CoreTypes'
  BY <1>0, <1>1, <1>2, <1>5, TurnsAreNumbers
     DEF HandlerKnows, CoreOK, ObserverKnows, CoreTypes, Turns
<1>8. LinkThere' BY <1>0, <1>1, <1>3, <1>5 DEF LinkThere, CoreOK, Operations
<1> QED BY <1>0, <1>1, <1>6, <1>7, <1>8, SameLink DEF IInv, CoreOK

LEMMA CallStartTurnKeeps ==
  ASSUME IInv, CallStartTurn
  PROVE  IInv' /\ LockEnds /\ EndedStays
<1>1. /\ StartTurn /\ Called(last') /\ handler.pc = "call" /\ handler.op # "release"
  BY DEF CallStartTurn
<1>2. CodexOK' /\ last' = last + 1 BY <1>1, TurnStarts DEF IInv
<1>3. last \in Int /\ last' \in 0 .. MaxTurns /\ last' >= last /\ last' <= last'
  BY <1>2, TurnsAreNumbers DEF IInv, CodexOK
<1> QED BY <1>1, <1>2, <1>3, CallKeeps

LEMMA CallSteerTurnKeeps ==
  ASSUME IInv, CallSteerTurn
  PROVE  IInv' /\ LockEnds /\ EndedStays
<1>1. /\ Called(handler.turn) /\ UNCHANGED codex
      /\ handler.pc = "call" /\ handler.op = "followup"
  BY DEF CallSteerTurn, Steers
<1>2. CodexOK' /\ last' = last BY <1>1, CodexStays DEF IInv
<1>3. /\ last \in Int /\ handler.turn \in 0 .. MaxTurns /\ handler.turn <= last'
  BY <1>2, TurnsAreNumbers DEF IInv, CodexOK, CoreOK, CoreTypes, Handler, HandlerKnows
<1> QED BY <1>1, <1>2, <1>3, CallKeeps

LEMMA CallInterruptTurnKeeps ==
  ASSUME IInv, CallInterruptTurn
  PROVE  IInv' /\ LockEnds /\ EndedStays
<1>1. Called(0) /\ handler.pc = "call" /\ handler.op = "interrupt" BY DEF CallInterruptTurn
<1>2. CodexOK /\ handler.turn \in 0 .. MaxTurns /\ "interrupted" \in TurnStatus \ {"none"}
  BY DEF IInv, CoreOK, CoreTypes, Handler, TurnStatus, Over
<1>3. CodexOK' /\ last' = last
  <2>1. CASE UNCHANGED codex BY <1>2, <2>1, CodexStays
  <2>2. CASE Running(handler.turn) /\ StopTurn(handler.turn, "interrupted")
    BY <1>2, <2>2, TurnStops
  <2> QED BY <2>1, <2>2 DEF CallInterruptTurn
<1>4. last \in 0 .. MaxTurns /\ last >= last /\ 0 <= last BY <1>2, TurnsAreNumbers DEF CodexOK
<1> QED BY <1>1, <1>3, <1>4, Zeros, CallKeeps

LEMMA AnswerInputKeeps ==
  ASSUME IInv, AnswerInput
  PROVE  IInv' /\ LockEnds /\ EndedStays
<1>1. /\ Called(0) /\ handler.pc = "call" /\ handler.op = "answer" /\ ask' = NoAsk
      /\ UNCHANGED <<turn, last, asked, desktop>>
  BY DEF AnswerInput, Answerable
<1>2. CodexOK /\ CodexOK' /\ last' = last BY <1>1, AskGoes DEF IInv
<1>3. last \in 0 .. MaxTurns /\ last >= last /\ 0 <= last BY <1>2, TurnsAreNumbers DEF CodexOK
<1> QED BY <1>1, <1>2, <1>3, Zeros, CallKeeps

(* The writes of the handler. *)

\* A patch leaves an ended link alone; one that keeps the lock keeps LockEnds too.
LEMMA PatchStays ==
  ASSUME NEW new, link' = UpdateActiveByID(link, new),
         EffectivelyActive(link) => new.blocked = link.blocked
  PROVE  LockEnds /\ EndedStays
  BY DEF LockEnds, EndedStays, UpdateActiveByID

LEMMA UpsertKeeps ==
  ASSUME IInv, Upsert
  PROVE  IInv' /\ LockEnds /\ EndedStays
<1>0. CodexOK /\ CoreOK /\ left \in Budget BY DEF IInv
<1>1. /\ handler.pc = "upsert" /\ handler' = [handler EXCEPT !.pc = "own"]
      /\ link' = [NewLink("desktop") EXCEPT !.messages = FALSE]
      /\ UNCHANGED <<watcher, observer, locked, verifying, codex, left>>
  BY DEF Upsert
<1>2. CodexOK' /\ last' = last BY <1>0, <1>1, CodexStays
<1>3. link = NoLink /\ link.state = "none" /\ link.blocked = 0
  BY <1>0, <1>1 DEF CoreOK, LinkThere, NoLink, NewLink
<1>4. /\ link'.state = "active" /\ link'.active = 0 /\ link'.latest = 0 /\ link'.plan = 0
      /\ link'.blocked = 0
  BY <1>1 DEF NewLink
<1>5. link' \in Link /\ LinkKnows(link)'
  BY <1>0, <1>1, <1>2, <1>4, NewLinkTyped DEF LinkKnows, CodexOK
<1>6. PICK h \in Handler : h = handler BY <1>0 DEF CoreOK, CoreTypes
<1>7. /\ handler' \in Handler /\ handler'.pc = "own" /\ handler'.op = handler.op
      /\ handler'.turn = handler.turn
  BY <1>1, <1>6 DEF Handler
<1>8. HandlerKnows' /\ LinkThere' /\ ObserverKnows'
  BY <1>0, <1>1, <1>2, <1>4, <1>7 DEF HandlerKnows, LinkThere, CoreOK, ObserverKnows
<1>9. watcher' \in [Turns -> Watcher] /\ \A u \in Turns : WatcherKnows(u)'
  BY <1>0, <1>1, <1>2, WatchersStay
<1>10. CoreOK' BY <1>0, <1>1, <1>5, <1>7, <1>8, <1>9 DEF CoreOK, CoreTypes
<1>11. LockEnds /\ EndedStays BY <1>3 DEF LockEnds, EndedStays, PermissionBlocked
<1> QED BY <1>0, <1>1, <1>2, <1>10, <1>11 DEF IInv

LEMMA TakeOwnershipKeeps ==
  ASSUME IInv, TakeOwnership
  PROVE  IInv' /\ LockEnds /\ EndedStays
<1> DEFINE new == [link EXCEPT !.owner = "bridge", !.messages = TRUE]
<1>0. CodexOK /\ CoreOK /\ left \in Budget /\ last \in 0 .. MaxTurns BY DEF IInv, CodexOK
<1>1. /\ handler.pc = "own" /\ link' = UpdateActiveByID(link, new)
      /\ UNCHANGED <<watcher, observer, locked, verifying, codex, left>>
  BY DEF TakeOwnership
<1>2. CodexOK' /\ last' = last BY <1>0, <1>1, CodexStays
<1>3. PICK l \in Link : l = link BY <1>0 DEF CoreOK, CoreTypes
<1>4. /\ new \in Link /\ new.state = link.state /\ new.blocked = link.blocked
      /\ new.active = link.active /\ new.latest = link.latest /\ new.plan = link.plan
  BY <1>3 DEF Link
<1>5. LinkKnows(new) BY <1>0, <1>4 DEF LinkKnows, CoreOK
<1> HIDE DEF new
<1>6. link' \in Link /\ LinkKnows(link)' /\ link'.state = link.state
  BY <1>0, <1>1, <1>2, <1>4, <1>5, Patched
<1>7. watcher' \in [Turns -> Watcher] /\ \A u \in Turns : WatcherKnows(u)'
  BY <1>0, <1>1, <1>2, WatchersStay
<1>8. link.state # "none" BY <1>0, <1>1 DEF CoreOK, LinkThere
<1>9. CoreOK'
  <2>1. CASE EffectivelyActive(link)
    <3>1. handler' = [handler EXCEPT !.pc = "call", !.desktop = FALSE] BY <2>1 DEF TakeOwnership
    <3>2. PICK h \in Handler : h = handler BY <1>0 DEF CoreOK, CoreTypes
    <3>3. /\ handler' \in Handler /\ handler'.pc = "call" /\ handler'.op = handler.op
          /\ handler'.turn = handler.turn
      BY <3>1, <3>2 DEF Handler
    <3>4. HandlerKnows' /\ LinkThere' /\ ObserverKnows'
      BY <1>0, <1>1, <1>2, <1>6, <1>8, <3>3 DEF HandlerKnows, LinkThere, CoreOK, ObserverKnows
    <3> QED BY <1>0, <1>1, <1>6, <1>7, <3>3, <3>4 DEF CoreOK, CoreTypes
  <2>2. CASE ~EffectivelyActive(link)
    <3>1. handler' = NoHandler BY <2>2 DEF TakeOwnership, Leave
    <3>2. /\ observer' \in Observer /\ ObserverKnows' /\ locked' \in BOOLEAN
          /\ verifying' \in [turn : 0 .. MaxTurns, question : 0 .. MaxAsks]
      BY <1>0, <1>1, <1>2 DEF CoreOK, CoreTypes, ObserverKnows
    <3> QED BY <1>0, <1>2, <1>6, <1>7, <1>8, <3>1, <3>2, CoreTogether
  <2> QED BY <2>1, <2>2
<1>10. LockEnds /\ EndedStays BY <1>1, <1>4, PatchStays
<1> QED BY <1>0, <1>1, <1>2, <1>9, <1>10 DEF IInv

\* HandledLink: the turn Codex took, the answer it has, or the turn it stopped.
LEMMA HandledLinkTyped ==
  ASSUME IInv, handler.pc = "update", handler.op # "release"
  PROVE  /\ HandledLink \in Link /\ LinkKnows(HandledLink)
         /\ HandledLink.state = link.state /\ HandledLink.blocked = link.blocked
<1>0. /\ link \in Link /\ LinkKnows(link) /\ handler.turn \in 0 .. MaxTurns
      /\ handler.turn <= last /\ last \in 0 .. MaxTurns /\ last >= 0
  BY TurnsAreNumbers
     DEF IInv, CoreOK, CoreTypes, CodexOK, Handler, HandlerKnows
<1>1. handler.op \in Operations BY DEF IInv, CoreOK, CoreTypes, Handler, LinkThere
<1>2. CASE handler.op \in {"create", "message"}
  <2>1. HandledLink = RunningTurn(link, handler.turn) BY <1>2 DEF HandledLink
  <2> QED BY <1>0, <2>1, RunningTurnTyped
<1>3. CASE handler.op \in {"followup", "implement_plan"}
  <2>1. HandledLink = [RunningTurn(link, handler.turn) EXCEPT !.plan = 0] BY <1>3 DEF HandledLink
  <2> QED BY <1>0, <2>1, RunningTurnTyped
<1>4. CASE handler.op = "answer"
  <2>1. HandledLink = [Answerless(link) EXCEPT !.turnState = "running"] BY <1>4 DEF HandledLink
  <2>2. "running" \in TurnStates BY DEF TurnStates
  <2>3. PICK l \in Link : /\ l = Answerless(link) /\ LinkKnows(l) /\ l.state = link.state
                          /\ l.blocked = link.blocked
    BY <1>0, AnswerlessTyped
  <2> QED BY <2>1, <2>2, <2>3, TurnStateTyped
<1>5. CASE handler.op = "interrupt"
  <2>1. HandledLink = [link EXCEPT !.turnState = "interrupted"] BY <1>5 DEF HandledLink
  <2>2. "interrupted" \in TurnStates BY DEF TurnStates, Over
  <2> QED BY <1>0, <2>1, <2>2, TurnStateTyped
<1> QED BY <1>1, <1>2, <1>3, <1>4, <1>5 DEF Operations

LEMMA HandlerUpdatesKeeps ==
  ASSUME IInv, HandlerUpdates
  PROVE  IInv' /\ LockEnds /\ EndedStays
<1>0. CodexOK /\ CoreOK /\ left \in Budget /\ last \in 0 .. MaxTurns BY DEF IInv, CodexOK
<1>1. handler.pc = "update" /\ UNCHANGED <<watcher, observer, locked, verifying, codex, left>>
  BY DEF HandlerUpdates
<1>2. CodexOK' /\ last' = last BY <1>0, <1>1, CodexStays
<1>3. link.state # "none" BY <1>0, <1>1 DEF CoreOK, LinkThere
<1>4. /\ link' \in Link /\ LinkKnows(link)' /\ link'.state # "none"
      /\ LockEnds /\ EndedStays
  <2>1. CASE handler.op = "release"
    <3>1. link' = Released(link) BY <2>1 DEF HandlerUpdates
    <3>2. PICK l \in Link : /\ l = Released(link) /\ LinkKnows(l) /\ l.state = "released"
                            /\ l.blocked = link.blocked
      BY <1>0, LinkIsTyped, ReleasedTyped
    <3> QED BY <1>2, <3>1, <3>2 DEF LinkKnows, LockEnds, EndedStays
  <2>2. CASE handler.op # "release"
    <3>1. link' = UpdateActiveByID(link, HandledLink) BY <2>2 DEF HandlerUpdates
    <3>2. PICK l \in Link : /\ l = HandledLink /\ LinkKnows(l) /\ l.state = link.state
                            /\ l.blocked = link.blocked
      BY <1>1, <2>2, HandledLinkTyped
    <3>3. link' = UpdateActiveByID(link, l) BY <3>1, <3>2
    <3>4. link' \in Link /\ LinkKnows(link)' /\ link'.state = link.state
      BY <1>0, <1>2, <3>2, <3>3, Patched
    <3>5. LockEnds /\ EndedStays BY <3>2, <3>3, PatchStays
    <3> QED BY <1>3, <3>4, <3>5
  <2> QED BY <2>1, <2>2
<1>5. watcher' \in [Turns -> Watcher] /\ \A u \in Turns : WatcherKnows(u)'
  BY <1>0, <1>1, <1>2, WatchersStay
<1>6. CoreOK'
  <2>1. CASE handler' = [handler EXCEPT !.pc = "observe"]
    <3>1. PICK h \in Handler : h = handler BY <1>0 DEF CoreOK, CoreTypes
    <3>2. /\ handler' \in Handler /\ handler'.pc = "observe" /\ handler'.op = handler.op
          /\ handler'.turn = handler.turn
      BY <2>1, <3>1 DEF Handler
    <3>3. HandlerKnows' /\ LinkThere' /\ ObserverKnows'
      BY <1>0, <1>1, <1>2, <1>4, <3>2 DEF HandlerKnows, LinkThere, CoreOK, ObserverKnows
    <3> QED BY <1>0, <1>1, <1>4, <1>5, <3>2, <3>3 DEF CoreOK, CoreTypes
  <2>2. CASE handler' = NoHandler
    <3>1. /\ observer' \in Observer /\ ObserverKnows' /\ locked' \in BOOLEAN
          /\ verifying' \in [turn : 0 .. MaxTurns, question : 0 .. MaxAsks]
      BY <1>0, <1>1, <1>2 DEF CoreOK, CoreTypes, ObserverKnows
    <3> QED BY <1>0, <1>2, <1>3, <1>4, <1>5, <2>2, <3>1, CoreTogether
  <2> QED BY <2>1, <2>2 DEF HandlerUpdates, Leave
<1> QED BY <1>0, <1>1, <1>2, <1>4, <1>6 DEF IInv

\* A step of one part of the core that leaves the link alone.
LEMMA QuietStep ==
  ASSUME IInv, UNCHANGED <<link, codex>>, left' \in Budget,
         handler' = handler \/ handler' = NoHandler,
         watcher' \in [Turns -> Watcher], \A u \in Turns : WatcherKnows(u)',
         observer' \in Observer, ObserverKnows', locked' \in BOOLEAN,
         verifying' \in [turn : 0 .. MaxTurns, question : 0 .. MaxAsks]
  PROVE  IInv' /\ LockEnds /\ EndedStays
<1>0. CodexOK /\ CoreOK /\ last \in 0 .. MaxTurns BY DEF IInv, CodexOK
<1>1. CodexOK' /\ last' = last BY <1>0, CodexStays
<1>2. link' \in Link /\ LinkKnows(link)' /\ link' = link
  BY <1>0, <1>1 DEF CoreOK, CoreTypes, LinkKnows
<1>3. CoreOK' BY <1>0, <1>1, <1>2, CoreTogether
<1> QED BY <1>1, <1>2, <1>3, SameLink DEF IInv

LEMMA HandlerObservesKeeps ==
  ASSUME IInv, HandlerObserves
  PROVE  IInv' /\ LockEnds /\ EndedStays
<1>1. /\ LaunchWatcher(handler.turn) /\ Leave
      /\ UNCHANGED <<link, observer, locked, verifying, codex, left>>
  BY DEF HandlerObserves
<1>2. last' = last /\ CoreOK BY <1>1 DEF codex, IInv
<1>3. watcher' \in [Turns -> Watcher] /\ \A u \in Turns : WatcherKnows(u)'
  <2>1. CASE handler.turn \in Turns BY <1>1, <1>2, <2>1, LaunchMoves DEF CoreOK, HandlerKnows
  <2>2. CASE handler.turn \notin Turns
    <3>1. watcher' = watcher BY <1>1, <1>2, <2>2 DEF LaunchWatcher, CoreOK, CoreTypes
    <3> QED BY <1>2, <3>1, WatchersStay
  <2> QED BY <2>1, <2>2
<1> QED BY <1>1, <1>2, <1>3, QuietStep DEF IInv, CoreOK, CoreTypes, ObserverKnows, Leave

LEMMA RedeliveredKeeps ==
  ASSUME IInv, Redelivered
  PROVE  IInv' /\ LockEnds /\ EndedStays
<1>1. /\ LaunchWatcher(link.active) /\ link.active # 0
      /\ UNCHANGED <<link, handler, observer, locked, verifying, codex, left>>
  BY DEF Redelivered
<1>2. /\ last' = last /\ CoreOK /\ link.active \in Turns /\ link.active <= last
  BY <1>1, TurnsAreNumbers DEF codex, IInv, CoreOK, CoreTypes, Link, LinkKnows, Turns
<1>3. watcher' \in [Turns -> Watcher] /\ \A u \in Turns : WatcherKnows(u)'
  BY <1>1, <1>2, LaunchMoves
<1> QED BY <1>1, <1>2, <1>3, QuietStep DEF IInv, CoreOK, CoreTypes, ObserverKnows

(* Steps that patch the link, whoever holds the lock of the task. *)

LEMMA PatchKeeps ==
  ASSUME IInv, NEW new, link' = UpdateActiveByID(link, new),
         EffectivelyActive(link) => new \in Link /\ LinkKnows(new) /\ new.state = link.state,
         UNCHANGED codex, left' \in Budget, handler' = handler,
         watcher' \in [Turns -> Watcher], \A u \in Turns : WatcherKnows(u)',
         observer' \in Observer, ObserverKnows', locked' \in BOOLEAN,
         verifying' \in [turn : 0 .. MaxTurns, question : 0 .. MaxAsks]
  PROVE  IInv'
<1>0. CodexOK /\ CoreOK /\ last \in 0 .. MaxTurns BY DEF IInv, CodexOK
<1>1. CodexOK' /\ last' = last BY <1>0, CodexStays
<1>2. /\ link' \in Link /\ LinkKnows(link)' /\ link'.state = link.state
      /\ ~EffectivelyActive(link) => link' = link
  BY <1>0, <1>1, Patched
<1>3. link.state = "none" => link' = link BY <1>2 DEF EffectivelyActive
<1>4. CoreOK' BY <1>0, <1>1, <1>2, <1>3, CoreTogether
<1> QED BY <1>1, <1>4 DEF IInv

LEMMA ApplyInputOutcomeKeeps ==
  ASSUME IInv, ApplyInputOutcome
  PROVE  IInv' /\ LockEnds /\ EndedStays
<1>0. CoreOK /\ CodexOK /\ left \in Budget BY DEF IInv
<1>1. /\ verifying' = NoVerification
      /\ UNCHANGED <<handler, watcher, observer, locked, codex, left>> /\ last' = last
  BY DEF ApplyInputOutcome, codex
<1>2. PICK l \in Link : /\ l = Answerless(link) /\ LinkKnows(l) /\ l.state = link.state
                        /\ l.blocked = link.blocked
  BY <1>0, LinkIsTyped, AnswerlessTyped
<1>3. "running" \in TurnStates BY DEF TurnStates
<1>4. PICK m \in Link : /\ m = [l EXCEPT !.turnState = "running"] /\ LinkKnows(m)
                        /\ m.state = link.state /\ m.blocked = link.blocked
  <2> DEFINE r == [l EXCEPT !.turnState = "running"]
  <2>1. r \in Link /\ LinkKnows(r) /\ r.state = l.state /\ r.blocked = l.blocked
    BY <1>2, <1>3, TurnStateTyped
  <2> HIDE DEF r
  <2>2. \E m \in Link : m = r /\ LinkKnows(m) /\ m.state = link.state /\ m.blocked = link.blocked
    BY <1>2, <2>1
  <2> QED BY <2>2 DEF r
<1>5. link' = UpdateActiveByID(link, m) \/ link' = link
  <2>1. link' = link \/ (EffectivelyActive(link) /\ link' = m)
    <3>1. m = [Answerless(link) EXCEPT !.turnState = "running"] BY <1>2, <1>4
    <3>2. \/ link' = link
          \/ EffectivelyActive(link) /\ link' = [Answerless(link) EXCEPT !.turnState = "running"]
      <4> DEFINE r == [Answerless(link) EXCEPT !.turnState = "running"]
      <4>1. link' = IF /\ EffectivelyActive(link)
                       /\ link.active = verifying.turn
                       /\ link.question = verifying.question
                       /\ ask.id # verifying.question
                    THEN r ELSE link
        BY DEF ApplyInputOutcome
      <4> HIDE DEF r
      <4>2. link' = link \/ (EffectivelyActive(link) /\ link' = r) BY <4>1
      <4> QED BY <4>2 DEF r
    <3> QED BY <3>1, <3>2
  <2> QED BY <2>1 DEF UpdateActiveByID
<1>6. watcher' \in [Turns -> Watcher] /\ \A u \in Turns : WatcherKnows(u)'
  BY <1>0, <1>1, WatchersStay
<1>7. /\ observer' \in Observer /\ ObserverKnows' /\ locked' \in BOOLEAN
      /\ verifying' \in [turn : 0 .. MaxTurns, question : 0 .. MaxAsks]
  BY <1>0, <1>1, Zeros DEF CoreOK, CoreTypes, ObserverKnows, NoVerification
<1>8. CASE link' = UpdateActiveByID(link, m)
  <2>1. IInv' BY <1>0, <1>1, <1>4, <1>6, <1>7, <1>8, PatchKeeps
  <2> QED BY <1>4, <1>8, <2>1, PatchStays
<1>9. CASE link' = link BY <1>0, <1>1, <1>6, <1>7, <1>9, QuietStep
<1> QED BY <1>5, <1>8, <1>9

(* The watchers *)

LEMMA WatcherLooksKeeps ==
  ASSUME IInv, NEW t \in Turns, WatcherLooks(t)
  PROVE  IInv' /\ LockEnds /\ EndedStays
<1>0. CoreOK /\ CodexOK /\ left \in Budget BY DEF IInv
<1>1. /\ watcher[t].pc = "look"
      /\ UNCHANGED <<link, handler, observer, locked, verifying, codex, left>> /\ last' = last
  BY DEF WatcherLooks, Watched, codex
<1>2. t <= last BY <1>0, <1>1 DEF CoreOK, WatcherKnows
<1>3. watcher' \in [Turns -> Watcher] /\ \A u \in Turns : WatcherKnows(u)'
  <2>1. CASE Returns(t) BY <1>0, <1>1, <1>2, <2>1, StepMoves DEF Returns
  <2>2. CASE watcher' = [watcher EXCEPT ![t] = [pc |-> Verdict(t), status |-> turn[t],
                                               ask |-> VisibleAsk(t)]]
    <3> DEFINE w == [pc |-> Verdict(t), status |-> turn[t], ask |-> VisibleAsk(t)]
    <3>1. VisibleAsk(t) \in Requests BY <1>0 DEF VisibleAsk, Requests, CodexOK
    <3>2. VisibleAsk(t).kind \in {"questions", "approvals"} /\ NoAsk.kind = "questions"
      BY <3>1 DEF Requests, NoAsk
    <3>3. turn[t] \in TurnStatus /\ turn[t] # "none"
      BY <1>0, <1>2, TurnsAreNumbers DEF CodexOK, Turns
    <3>4. Verdict(t) \in {"look", "cancel", "question", "running", "plan", "end"} BY DEF Verdict
    <3>5. Verdict(t) = "end" => turn[t] \in Over BY <3>2, <3>3 DEF Verdict, TurnStatus, Over
    <3>6. w \in Watcher BY <3>1, <3>3, <3>4 DEF Watcher
    <3>7. w.pc = Verdict(t) /\ w.status = turn[t]
      OBVIOUS
    <3> QED BY <1>0, <1>1, <1>2, <2>2, <3>5, <3>6, <3>7, WatcherMoves
  <2> QED BY <2>1, <2>2 DEF WatcherLooks
<1> QED BY <1>0, <1>1, <1>3, QuietStep DEF CoreOK, CoreTypes, ObserverKnows

LEMMA WatcherCancelsKeeps ==
  ASSUME IInv, NEW t \in Turns, WatcherCancels(t)
  PROVE  IInv' /\ LockEnds /\ EndedStays
<1>0. CoreOK /\ CodexOK /\ left \in Budget /\ last \in 0 .. MaxTurns BY DEF IInv, CodexOK
<1>1. /\ watcher[t].pc = "cancel" /\ Step(t, "block")
      /\ UNCHANGED <<link, handler, observer, locked, verifying, left>>
  BY DEF WatcherCancels, Watched
<1>2. CodexOK' /\ last' = last
  <2>1. t \in 0 .. MaxTurns /\ "interrupted" \in TurnStatus \ {"none"}
    BY TurnsAreNumbers DEF Turns, TurnStatus, Over
  <2>2. CASE UNCHANGED codex BY <1>0, <2>2, CodexStays
  <2>3. CASE Running(t) /\ StopTurn(t, "interrupted") BY <1>0, <2>1, <2>3, TurnStops
  <2> QED BY <2>2, <2>3 DEF WatcherCancels
<1>3. t <= last BY <1>0, <1>1 DEF CoreOK, WatcherKnows
<1>4. watcher' \in [Turns -> Watcher] /\ \A u \in Turns : WatcherKnows(u)'
  BY <1>0, <1>1, <1>2, <1>3, StepMoves
<1>5. CoreOK'
  <2>1. /\ link' \in Link /\ LinkKnows(link)' /\ observer' \in Observer /\ ObserverKnows'
        /\ locked' \in BOOLEAN
        /\ verifying' \in [turn : 0 .. MaxTurns, question : 0 .. MaxAsks]
    BY <1>0, <1>1, <1>2 DEF CoreOK, CoreTypes, LinkKnows, ObserverKnows
  <2> QED BY <1>0, <1>1, <1>2, <1>4, <2>1, CoreTogether
<1> QED BY <1>0, <1>1, <1>2, <1>5, SameLink DEF IInv

LEMMA WatcherBlocksKeeps ==
  ASSUME IInv, NEW t \in Turns, WatcherBlocks(t)
  PROVE  IInv' /\ LockEnds /\ EndedStays
<1> DEFINE new == [Answerless(link) EXCEPT !.turnState = "desktop_action_required",
                                           !.active = 0, !.blocked = t]
<1>0. CoreOK /\ CodexOK /\ left \in Budget /\ last \in 0 .. MaxTurns BY DEF IInv, CodexOK
<1>1. /\ watcher[t].pc = "block" /\ link' = UpdateActiveByID(link, new) /\ locked' = TRUE
      /\ Step(t, "over") /\ UNCHANGED <<handler, observer, verifying, codex, left>>
      /\ last' = last
  BY DEF WatcherBlocks, Watched, Returns, codex
<1>2. t <= last /\ t \in 0 .. MaxTurns /\ 0 <= last
  BY <1>0, <1>1, TurnsAreNumbers DEF CoreOK, WatcherKnows, Turns
<1>3. PICK l \in Link : /\ l = Answerless(link) /\ LinkKnows(l) /\ l.state = link.state
  BY <1>0, LinkIsTyped, AnswerlessTyped
<1>4. PICK m \in Link : /\ m = new BY <1>2, <1>3, Zeros DEF Link, TurnStates
<1>5. /\ m.state = link.state /\ m.blocked = t /\ m.active = 0 /\ m.latest = l.latest
      /\ m.plan = l.plan
  BY <1>3, <1>4 DEF Link
<1>6. LinkKnows(m) BY <1>2, <1>3, <1>5 DEF LinkKnows
<1>7. watcher' \in [Turns -> Watcher] /\ \A u \in Turns : WatcherKnows(u)'
  BY <1>0, <1>1, <1>2, StepMoves
<1> HIDE DEF new
<1>8. link' = UpdateActiveByID(link, m) BY <1>1, <1>4
<1>9. IInv'
  BY <1>0, <1>1, <1>5, <1>6, <1>7, <1>8, PatchKeeps DEF CoreOK, CoreTypes, ObserverKnows
<1>10. LockEnds BY <1>1, <1>5, <1>8 DEF LockEnds, UpdateActiveByID, Watched
<1>11. EndedStays BY <1>8 DEF EndedStays, UpdateActiveByID
<1> QED BY <1>9, <1>10, <1>11

\* WatchedLink: a question or an answer, a plan, or the end, of a turn that Codex has started.
LEMMA WatchedLinkTyped ==
  ASSUME IInv, NEW t \in Turns, watcher[t].pc \in {"question", "running", "plan", "end"}
  PROVE  /\ WatchedLink(t) \in Link /\ LinkKnows(WatchedLink(t))
         /\ WatchedLink(t).state = link.state /\ WatchedLink(t).blocked = link.blocked
<1>0. /\ link \in Link /\ LinkKnows(link) /\ t <= last /\ 0 <= last /\ t \in 0 .. MaxTurns
      /\ watcher[t] \in Watcher /\ WatcherKnows(t)
  BY TurnsAreNumbers DEF IInv, CoreOK, CoreTypes, CodexOK, WatcherKnows, Turns
<1>1. PICK l \in Link : /\ l = Answerless(link) /\ LinkKnows(l) /\ l.state = link.state
                        /\ l.blocked = link.blocked
  BY <1>0, AnswerlessTyped
<1>2. CASE watcher[t].pc = "question"
  <2>1. PICK q \in 0 .. MaxAsks : q = watcher[t].ask.id
    BY <1>0, TurnsAreNumbers DEF Watcher, Requests, NoAsk, Asks
  <2>2. WatchedLink(t) = [link EXCEPT !.turnState = "waiting_input", !.active = t,
                                      !.question = q]
    BY <1>2, <2>1 DEF WatchedLink, Watched
  <2>3. PICK m \in Link : m = [link EXCEPT !.turnState = "waiting_input", !.active = t,
                                           !.question = q]
    BY <1>0 DEF Link, TurnStates
  <2>4. /\ m.state = link.state /\ m.blocked = link.blocked /\ m.active = t
        /\ m.latest = link.latest /\ m.plan = link.plan
    BY <1>0, <2>3 DEF Link
  <2> QED BY <1>0, <2>2, <2>3, <2>4 DEF LinkKnows
<1>3. CASE watcher[t].pc = "running"
  <2>1. WatchedLink(t) = [l EXCEPT !.turnState = "running"]
    BY <1>1, <1>3 DEF WatchedLink, Watched
  <2>2. "running" \in TurnStates BY DEF TurnStates
  <2> QED BY <1>1, <2>1, <2>2, TurnStateTyped
<1>4. CASE watcher[t].pc = "plan"
  <2>1. WatchedLink(t) = [l EXCEPT !.turnState = "plan_ready", !.active = 0, !.plan = t]
    BY <1>1, <1>4 DEF WatchedLink, Watched
  <2>2. PICK m \in Link : m = [l EXCEPT !.turnState = "plan_ready", !.active = 0, !.plan = t]
    BY <1>0, Zeros DEF Link, TurnStates
  <2>3. /\ m.state = l.state /\ m.blocked = l.blocked /\ m.active = 0
        /\ m.latest = l.latest /\ m.plan = t
    BY <2>2 DEF Link
  <2> QED BY <1>0, <1>1, <2>1, <2>2, <2>3 DEF LinkKnows
<1>5. CASE watcher[t].pc = "end"
  <2>1. PICK s \in TurnStates : s = watcher[t].status BY <1>0, <1>5 DEF WatcherKnows, TurnStates
  <2>2. WatchedLink(t) = [l EXCEPT !.turnState = s, !.active = 0]
    BY <1>1, <1>5, <2>1 DEF WatchedLink, Watched, EndedLink
  <2>3. PICK m \in Link : m = [l EXCEPT !.turnState = s, !.active = 0] BY Zeros DEF Link
  <2>4. /\ m.state = l.state /\ m.blocked = l.blocked /\ m.active = 0
        /\ m.latest = l.latest /\ m.plan = l.plan
    BY <2>3 DEF Link
  <2> QED BY <1>0, <1>1, <2>2, <2>3, <2>4 DEF LinkKnows
<1> QED BY <1>2, <1>3, <1>4, <1>5

LEMMA WatcherUpdatesKeeps ==
  ASSUME IInv, NEW t \in Turns, WatcherUpdates(t)
  PROVE  IInv' /\ LockEnds /\ EndedStays
<1>0. CoreOK /\ CodexOK /\ left \in Budget BY DEF IInv
<1>1. /\ watcher[t].pc \in {"question", "running", "plan", "end"}
      /\ link' = UpdateActiveByID(link, WatchedLink(t))
      /\ Step(t, "look") \/ Step(t, "over")
      /\ UNCHANGED <<handler, observer, locked, verifying, codex, left>>
      /\ last' = last
  BY DEF WatcherUpdates, Returns, Rereads, codex
<1>2. t <= last BY <1>0, <1>1 DEF CoreOK, WatcherKnows
<1>3. PICK m \in Link : /\ m = WatchedLink(t) /\ LinkKnows(m) /\ m.state = link.state
                        /\ m.blocked = link.blocked
  BY <1>1, WatchedLinkTyped
<1>4. watcher' \in [Turns -> Watcher] /\ \A u \in Turns : WatcherKnows(u)'
  BY <1>0, <1>1, <1>2, StepMoves
<1>5. link' = UpdateActiveByID(link, m) BY <1>1, <1>3
<1>6. IInv' BY <1>0, <1>1, <1>3, <1>4, <1>5, PatchKeeps DEF CoreOK, CoreTypes, ObserverKnows
<1> QED BY <1>3, <1>5, <1>6, PatchStays

LEMMA WatcherTimesOutKeeps ==
  ASSUME IInv, NEW t \in Turns, WatcherTimesOut(t)
  PROVE  IInv' /\ LockEnds /\ EndedStays
<1>0. CoreOK /\ CodexOK BY DEF IInv
<1>1. /\ watcher[t].pc = "look" /\ Step(t, "over") /\ Spend("faults")
      /\ UNCHANGED <<handler, observer, locked, verifying, codex>> /\ last' = last
  BY DEF WatcherTimesOut, Watched, Returns, Fault, codex
<1>2. t <= last /\ last \in 0 .. MaxTurns /\ 0 <= last
  BY <1>0, <1>1, TurnsAreNumbers DEF CoreOK, WatcherKnows, CodexOK
<1>3. left' \in Budget BY <1>1, SpendKeeps DEF IInv
<1>4. PICK l \in Link : l = link /\ LinkKnows(l) BY <1>0, LinkIsTyped
<1>5. PICK m \in Link : m = [l EXCEPT !.turnState = "failed", !.active = 0]
  BY Zeros DEF Link, TurnStates, Over
<1>6. /\ m.state = link.state /\ m.blocked = link.blocked /\ m.active = 0
      /\ m.latest = link.latest /\ m.plan = link.plan
  BY <1>4, <1>5 DEF Link
<1>7. LinkKnows(m) BY <1>2, <1>4, <1>6 DEF LinkKnows
<1>8. watcher' \in [Turns -> Watcher] /\ \A u \in Turns : WatcherKnows(u)'
  BY <1>0, <1>1, <1>2, StepMoves
<1>9. CASE link' = UpdateActiveByID(link, m)
  <2>1. IInv'
    BY <1>0, <1>1, <1>3, <1>6, <1>7, <1>8, <1>9, PatchKeeps DEF CoreOK, CoreTypes, ObserverKnows
  <2> QED BY <1>6, <1>9, <2>1, PatchStays
<1>10. CASE UNCHANGED link
  BY <1>0, <1>1, <1>3, <1>8, <1>10, QuietStep DEF CoreOK, CoreTypes, ObserverKnows
<1> QED BY <1>4, <1>5, <1>9, <1>10 DEF WatcherTimesOut

LEMMA WatcherRemovedKeeps ==
  ASSUME IInv, NEW t \in Turns, WatcherRemoved(t)
  PROVE  IInv' /\ LockEnds /\ EndedStays
<1>0. CoreOK /\ left \in Budget BY DEF IInv
<1>1. /\ Step(t, "off") /\ last' = last
      /\ UNCHANGED <<link, handler, observer, locked, verifying, codex, left>>
  BY DEF WatcherRemoved, codex
<1>2. watcher' \in [Turns -> Watcher] /\ \A u \in Turns : WatcherKnows(u)'
  BY <1>0, <1>1, StepMoves
<1> QED BY <1>0, <1>1, <1>2, QuietStep DEF CoreOK, CoreTypes, ObserverKnows

(* The observers, the maintenance and the end of a link *)

LEMMA ObserverLooksKeeps ==
  ASSUME IInv, ObserverLooks
  PROVE  IInv' /\ LockEnds /\ EndedStays
<1>0. CoreOK /\ CodexOK /\ left \in Budget BY DEF IInv
<1>1. UNCHANGED <<link, handler, watcher, locked, verifying, codex, left>> /\ last' = last
  BY DEF ObserverLooks, codex
<1>2. observer' \in Observer /\ ObserverKnows'
  <2>1. CASE observer' = Unobserved BY <2>1, NobodyObserves DEF ObserverKnows
  <2>2. CASE /\ last # 0
             /\ observer' = [pc |-> "apply", shown |-> last, status |-> turn[last], ask |-> ask]
    <3>1. last \in Turns /\ last \in 0 .. MaxTurns
      BY <1>0, <2>2, TurnsAreNumbers DEF CodexOK, Turns
    <3>2. turn[last] \in TurnStatus /\ turn[last] # "none" /\ ask \in Requests
      BY <1>0, <3>1, TurnsAreNumbers DEF CodexOK
    <3> QED BY <1>1, <2>2, <3>1, <3>2, TurnsAreNumbers DEF Observer, ObserverKnows, Turns
  <2> QED BY <2>1, <2>2 DEF ObserverLooks, SnapshotTurn
<1>3. watcher' \in [Turns -> Watcher] /\ \A u \in Turns : WatcherKnows(u)'
  BY <1>0, <1>1, WatchersStay
<1> QED BY <1>0, <1>1, <1>2, <1>3, QuietStep DEF CoreOK, CoreTypes

LEMMA ObserverAppliesKeeps ==
  ASSUME IInv, ObserverApplies
  PROVE  IInv' /\ LockEnds /\ EndedStays
<1>0. CoreOK /\ CodexOK /\ left \in Budget BY DEF IInv
<1>1. /\ observer.pc = "apply" /\ observer' = [Unobserved EXCEPT !.pc = "look"]
      /\ UNCHANGED <<handler, watcher, locked, verifying, codex, left>> /\ last' = last
      /\ link' = UpdateActiveByID(link, Projected(link, observer.shown, observer.status,
                                                  observer.ask))
  BY DEF ObserverApplies, codex
<1>2. /\ observer.shown \in Turns /\ observer.status \in TurnStatus \ {"none"}
      /\ observer.ask \in Requests
  BY <1>0, <1>1, TurnsAreNumbers DEF CoreOK, CoreTypes, Observer, ObserverKnows, Turns
<1>3. observer.shown <= last BY <1>0, <1>1 DEF CoreOK, ObserverKnows
<1>4. PICK m \in Link : /\ m = Projected(link, observer.shown, observer.status, observer.ask)
                        /\ LinkKnows(m) /\ m.state = link.state /\ m.blocked = link.blocked
  BY <1>0, <1>2, <1>3, LinkIsTyped, ProjectedTyped
<1>5. link' = UpdateActiveByID(link, m) BY <1>1, <1>4
<1>6. watcher' \in [Turns -> Watcher] /\ \A u \in Turns : WatcherKnows(u)'
  BY <1>0, <1>1, WatchersStay
<1>7. observer' \in Observer /\ ObserverKnows'
  BY <1>1, NobodyObserves DEF ObserverKnows, Unobserved
<1>8. IInv' BY <1>0, <1>1, <1>4, <1>5, <1>6, <1>7, PatchKeeps DEF CoreOK, CoreTypes
<1> QED BY <1>4, <1>5, <1>8, PatchStays

\* The lock of a task ends here, and nowhere else: Desktop works on another turn.
LEMMA PermissionRecoversKeeps ==
  ASSUME IInv, PermissionRecovers
  PROVE  IInv' /\ LockEnds /\ EndedStays
<1>0. CoreOK /\ CodexOK /\ left \in Budget BY DEF IInv
<1>1. UNCHANGED <<handler, watcher, verifying, codex, left>> /\ last' = last
  BY DEF PermissionRecovers, codex
<1>2. watcher' \in [Turns -> Watcher] /\ \A u \in Turns : WatcherKnows(u)'
  BY <1>0, <1>1, WatchersStay
<1>3. CASE locked' = FALSE /\ UNCHANGED <<link, observer>>
  BY <1>0, <1>1, <1>2, <1>3, QuietStep DEF CoreOK, CoreTypes, ObserverKnows
<1>4. CASE /\ EffectivelyActive(link) /\ PermissionBlocked(link) /\ NewDesktopTurn
           /\ link' = Projected([link EXCEPT !.owner = "desktop", !.blocked = 0], last,
                                turn[last], ask)
           /\ locked' = FALSE /\ ObserveDesktopTask
  <2>1. last \in Turns /\ last <= last /\ desktop /\ last # link.blocked /\ 0 <= last
    BY <1>0, <1>4, TurnsAreNumbers DEF CodexOK, Turns, NewDesktopTurn
  <2>2. turn[last] \in TurnStatus \ {"none"} /\ ask \in Requests BY <1>0, <2>1 DEF CodexOK
  <2>3. PICK l \in Link : l = link /\ LinkKnows(l) BY <1>0, LinkIsTyped
  <2>4. PICK u \in Link : u = [l EXCEPT !.owner = "desktop", !.blocked = 0] BY Zeros DEF Link
  <2>5. /\ u.state = l.state /\ u.blocked = 0 /\ u.owner = "desktop" /\ u.active = l.active
        /\ u.latest = l.latest /\ u.plan = l.plan
    BY <2>4 DEF Link
  <2>6. LinkKnows(u) BY <2>1, <2>3, <2>5 DEF LinkKnows
  <2>7. PICK m \in Link : /\ m = Projected(u, last, turn[last], ask) /\ LinkKnows(m)
                          /\ m.state = u.state /\ m.blocked = u.blocked /\ m.owner = u.owner
    BY <1>0, <2>1, <2>2, <2>6, ProjectedTyped
  <2>8. link' = m BY <1>4, <2>3, <2>4, <2>7
  <2>9. link' = UpdateActiveByID(link, m) BY <1>4, <2>8 DEF UpdateActiveByID
  <2>10. observer' \in Observer /\ ObserverKnows' BY <1>0, <1>1, <1>4, ObserveMoves
  <2>11. IInv'
    BY <1>0, <1>1, <1>2, <1>4, <2>3, <2>5, <2>7, <2>9, <2>10, PatchKeeps DEF CoreOK, CoreTypes
  <2>12. LockEnds BY <2>1, <2>5, <2>7, <2>8 DEF LockEnds
  <2> QED BY <1>4, <2>11, <2>12 DEF EndedStays
<1> QED BY <1>3, <1>4 DEF PermissionRecovers

LEMMA MaintenanceKeeps ==
  ASSUME IInv, Maintenance
  PROVE  IInv' /\ LockEnds /\ EndedStays
<1>0. CoreOK /\ CodexOK /\ left \in Budget BY DEF IInv
<1>1. UNCHANGED <<link, handler, verifying, codex, left>> /\ last' = last
  BY DEF Maintenance, codex
<1>2. CASE locked' = TRUE /\ UNCHANGED <<watcher, observer>>
  BY <1>0, <1>1, <1>2, WatchersStay, QuietStep DEF CoreOK, CoreTypes, ObserverKnows
<1>3. CASE ObserveDesktopTask /\ UNCHANGED <<watcher, locked>>
  BY <1>0, <1>1, <1>3, WatchersStay, ObserveMoves, QuietStep DEF CoreOK, CoreTypes
<1>4. CASE /\ link.active # 0 /\ LaunchWatcher(link.active) /\ UNCHANGED <<observer, locked>>
  <2>1. link.active \in Turns /\ link.active <= last
    BY <1>0, <1>4, TurnsAreNumbers DEF CoreOK, CoreTypes, Link, LinkKnows, Turns
  <2>2. watcher' \in [Turns -> Watcher] /\ \A u \in Turns : WatcherKnows(u)'
    BY <1>0, <1>1, <1>4, <2>1, LaunchMoves
  <2> QED BY <1>0, <1>1, <1>4, <2>2, QuietStep DEF CoreOK, CoreTypes, ObserverKnows
<1> QED BY <1>2, <1>3, <1>4 DEF Maintenance

LEMMA LeaseEndsKeeps ==
  ASSUME IInv, LeaseEnds
  PROVE  IInv' /\ LockEnds /\ EndedStays
<1>0. CoreOK /\ CodexOK BY DEF IInv
<1>1. /\ EffectivelyActive(link) /\ Spend("leases") /\ link' = [link EXCEPT !.expired = TRUE]
      /\ UNCHANGED <<handler, watcher, observer, locked, verifying, codex>> /\ last' = last
  BY DEF LeaseEnds, EffectivelyActive, codex
<1>2. PICK l \in Link : l = link /\ LinkKnows(l) BY <1>0, LinkIsTyped
<1>3. PICK m \in Link : m = [l EXCEPT !.expired = TRUE] BY DEF Link
<1>4. /\ m.state = link.state /\ m.blocked = link.blocked /\ m.active = link.active
      /\ m.latest = link.latest /\ m.plan = link.plan
  BY <1>2, <1>3 DEF Link
<1>5. LinkKnows(m) BY <1>2, <1>4 DEF LinkKnows
<1>6. link' = UpdateActiveByID(link, m) BY <1>1, <1>2, <1>3 DEF UpdateActiveByID
<1>7. watcher' \in [Turns -> Watcher] /\ \A u \in Turns : WatcherKnows(u)'
  BY <1>0, <1>1, WatchersStay
<1>8. left' \in Budget BY <1>1, SpendKeeps DEF IInv
<1>9. IInv'
  BY <1>0, <1>1, <1>4, <1>5, <1>6, <1>7, <1>8, PatchKeeps DEF CoreOK, CoreTypes, ObserverKnows
<1> QED BY <1>4, <1>6, <1>9, PatchStays

LEMMA RestartKeeps ==
  ASSUME IInv, Restart
  PROVE  IInv' /\ LockEnds /\ EndedStays
<1>1. /\ Spend("faults") /\ handler' = NoHandler /\ watcher' = [t \in Turns |-> Unwatched]
      /\ observer' = Unobserved /\ locked' = FALSE /\ verifying' = NoVerification
      /\ UNCHANGED <<link, codex>>
  BY DEF Restart, Fault, Leave
<1>2. Unwatched \in Watcher /\ Unwatched.pc = "off"
  BY DEF Unwatched, Watcher, TurnStatus, Requests
<1>3. watcher' \in [Turns -> Watcher] /\ \A u \in Turns : WatcherKnows(u)'
  BY <1>1, <1>2 DEF WatcherKnows
<1>4. /\ observer' \in Observer /\ ObserverKnows' /\ locked' \in BOOLEAN
      /\ verifying' \in [turn : 0 .. MaxTurns, question : 0 .. MaxAsks]
  BY <1>1, NobodyObserves, Zeros DEF ObserverKnows, NoVerification
<1>5. left' \in Budget BY <1>1, SpendKeeps DEF IInv
<1> QED BY <1>1, <1>3, <1>4, <1>5, QuietStep

(* Theorems *)

LEMMA InitKnows == Init => IInv
<1> SUFFICES ASSUME Init PROVE IInv
  OBVIOUS
<1>1. /\ left \in Budget /\ link \in {NewLink("desktop"), NoLink} /\ handler = NoHandler
      /\ watcher = [t \in Turns |-> Unwatched] /\ observer = Unobserved /\ locked = FALSE
      /\ verifying = NoVerification /\ turn = [t \in Turns |-> "none"] /\ last = 0
      /\ ask = NoAsk /\ asked = 0 /\ desktop \in BOOLEAN
  BY TurnsAreNumbers DEF Init, Budget
<1>2. CodexOK BY <1>1, Zeros, TurnsAreNumbers DEF CodexOK, TurnStatus, Requests, Turns
<1>3. /\ Unwatched \in Watcher /\ Unwatched.pc = "off" /\ NoHandler \in Handler
      /\ NoVerification \in [turn : 0 .. MaxTurns, question : 0 .. MaxAsks]
  BY Zeros DEF Unwatched, Watcher, TurnStatus, Requests, NoHandler, Handler, NoVerification
<1>4. CoreTypes BY <1>1, <1>3, NewLinkTyped, NobodyObserves DEF CoreTypes
<1>5. LinkKnows(link) BY <1>1 DEF LinkKnows, NewLink, NoLink
<1>6. HandlerKnows /\ ObserverKnows /\ \A t \in Turns : WatcherKnows(t)
  BY <1>1, <1>3, NobodyObserves DEF HandlerKnows, NoHandler, ObserverKnows, WatcherKnows
<1>7. LinkThere BY <1>1 DEF LinkThere, NoHandler, NewLink, NoLink
<1> QED BY <1>1, <1>2, <1>4, <1>5, <1>6, <1>7 DEF IInv, CoreOK

LEMMA NextKeeps ==
  ASSUME IInv, Next
  PROVE  IInv' /\ LockEnds /\ EndedStays
<1>1. CASE External BY <1>1, ExternalKeeps
<1>2. CASE CreateTask BY <1>2, CreateTaskKeeps
<1>3. CASE \E op \in Operations, q \in 0 .. MaxAsks : Handle(op, q) BY <1>3, HandleKeeps
<1>4. CASE Operation
  BY <1>4, UpsertKeeps, TakeOwnershipKeeps, CallStartTurnKeeps, CallSteerTurnKeeps,
     CallInterruptTurnKeeps, CallLostKeeps, AnswerInputKeeps, AnswerUnverifiedKeeps,
     HandlerFailsKeeps, HandlerUpdatesKeeps, HandlerObservesKeeps DEF Operation
<1>5. CASE \E t \in Turns : Watch(t) \/ WatcherTimesOut(t)
  BY <1>5, WatcherLooksKeeps, WatcherCancelsKeeps, WatcherBlocksKeeps, WatcherUpdatesKeeps,
     WatcherRemovedKeeps, WatcherTimesOutKeeps DEF Watch
<1>6. CASE Observe BY <1>6, ObserverLooksKeeps, ObserverAppliesKeeps DEF Observe
<1>7. CASE PermissionRecovers \/ ApplyInputOutcome \/ Redelivered \/ Maintenance \/ LeaseEnds
           \/ Restart
  BY <1>7, PermissionRecoversKeeps, ApplyInputOutcomeKeeps, RedeliveredKeeps, MaintenanceKeeps,
     LeaseEndsKeeps, RestartKeeps
<1> QED BY <1>1, <1>2, <1>3, <1>4, <1>5, <1>6, <1>7 DEF Next

LEMMA StutterKeeps ==
  ASSUME IInv, UNCHANGED vars
  PROVE  IInv' /\ LockEnds /\ EndedStays
<1>1. UNCHANGED <<core, codex, left>> BY DEF vars
<1>2. CodexOK' /\ last' = last /\ last \in Int
  BY <1>1, CodexStays, TurnsAreNumbers DEF IInv, CodexOK
<1>3. CoreOK' BY <1>1, <1>2, CoreStays DEF IInv
<1> QED BY <1>1, <1>2, <1>3, SameLink DEF IInv, core

\* The types and what is known: handlers, watchers and observers carry turns that Codex has
\* started, a watcher that ends has seen the end, and there is a link except before the upsert
\* of a new task (inbound_runtime.go:609, :725, :1222, :1373).
THEOREM TurnsInvariant == Spec => []IInv
<1>1. IInv /\ [Next]_vars => IInv' BY NextKeeps, StutterKeeps
<1> QED BY InitKnows, <1>1, PTL DEF Spec

\* A lock ends only when Desktop works on another turn than the blocked one, whatever
\* handlers, watchers and observers still write (inbound_runtime.go:1222).
THEOREM LocksHold == Spec => TurnsSound
<1>1. IInv => TypeOK
  BY DEF IInv, CodexOK, CoreOK, CoreTypes, TypeOK, Link, Handler, Watcher, Observer, TurnStatus
<1>2. IInv /\ [Next]_vars => [LockEnds]_vars BY NextKeeps, StutterKeeps
<1> QED BY <1>1, <1>2, TurnsInvariant, PTL DEF Spec, TurnsSound

\* No late turn, watcher, observer or handler revives a link that was released or whose lease is
\* over, nor changes what it says (UpdateActiveByID).
THEOREM EndedLinksStayEnded == Spec => EndedLinkStaysEnded
<1>1. IInv /\ [Next]_vars =>
        [(link.state # "none" /\ ~EffectivelyActive(link)) =>
           \/ link' = link
           \/ link' = Released(link)]_vars
  BY NextKeeps, StutterKeeps DEF EndedStays
<1> QED BY <1>1, TurnsInvariant, PTL DEF Spec, EndedLinkStaysEnded

==============================================================================
