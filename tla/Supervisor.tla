----------------------------- MODULE Supervisor -----------------------------
(* The supervisor of the Feishu child process (internal/feishu/supervisor.go *)
(* and supervisor_epoch.go): Start, Stop and Restart from several callers,   *)
(* the restart timer, the wait and servePeer goroutines and the OnConnect    *)
(* callback of every generation (service/integration_gateway.go), each one   *)
(* critical section of the supervisor's mutex at a time.                     *)
EXTENDS Integers, FiniteSets

CONSTANTS
  Callers,          \* goroutines that call Stop or Restart
  MaxRestarts,      \* len(restartDelays)
  RestartWindow,    \* ticks of restartWindow
  HealthyReset,     \* ticks of healthyReset
  ConflictWindow,   \* ticks of instanceConflictWindow
  MaxCalls,         \* bound: calls of Start, Stop and Restart
  MaxCrashes,       \* bound: a child exits, closes its pipe or fails a callback
  MaxFaults         \* bound: startLocked fails to create the process

ASSUME BoundAssumption ==
  /\ MaxRestarts \in Nat /\ MaxCalls \in Nat
  /\ MaxCrashes \in Nat /\ MaxFaults \in Nat
ASSUME WindowAssumption ==
  /\ RestartWindow \in Nat \ {0} /\ ConflictWindow \in Nat
  /\ HealthyReset \in Nat /\ HealthyReset >= RestartWindow
ASSUME CallersAssumption == IsFiniteSet(Callers)

VARIABLES
  state, stopping,           \* what Status reports (running and idle_unconfigured
                             \* are "ready"); a Stop was asked for
  restartCount,
  cmd, generation,           \* generation of the current command (0: nil), and the counter
  proc,                      \* the process of cmd
  armed,                     \* restartTimer and what its function would do
  cancelled, closed,         \* of cmd's generation: its context, its peer.  Once wait
                             \* clears cmd both are over and nobody asks again.
  callback,                  \* where the OnConnect callback of a generation is
  callers,                   \* where each Stop or Restart call is
  other,                     \* a previous instance still holds bridge.pid
  sinceStart, sinceFailure, sinceConflict, \* ages, in ticks
  recent,                    \* the ages of the last automatic restarts, newest first,
                             \* since a Restart gave a new budget
  calls, crashes, faults

child == <<cmd, generation, proc>>
links == <<cancelled, closed>>
ages == <<sinceStart, sinceFailure, sinceConflict, recent>>
spent == <<calls, crashes, faults>>
vars == <<state, stopping, restartCount, child, armed, links,
          callback, callers, other, ages, spent>>

Generations == 1..(MaxCalls + MaxCrashes)
Never == -1
\* One more than two budgets of restarts; those that never were are out of the window.
Remembered == 2 * MaxRestarts + 1
NoRestarts == [n \in 1..Remembered |-> RestartWindow]
Idle == [at |-> "idle", on |-> 0, restart |-> FALSE]

Older(age, limit) == IF age = Never \/ age >= limit THEN age ELSE age + 1

\* currentGenerationLocked
Current(g) == cmd = g /\ ~stopping /\ ~cancelled /\ ~closed

Init ==
  /\ state = "stopped" /\ stopping = FALSE
  /\ restartCount = 0
  /\ cmd = 0 /\ generation = 0 /\ proc = "none"
  /\ armed = "none"
  /\ cancelled = FALSE /\ closed = FALSE
  /\ callback = [g \in Generations |-> "none"]
  /\ callers = [c \in Callers |-> Idle]
  /\ other \in BOOLEAN
  /\ sinceStart = 0 /\ sinceFailure = Never /\ sinceConflict = Never
  /\ recent = NoRestarts
  /\ calls = 0 /\ crashes = 0 /\ faults = 0

-----------------------------------------------------------------------------
(* scheduleRestartLocked *)
ScheduleRestart(count) ==
  IF count >= MaxRestarts
  THEN state' = "degraded" /\ armed' = "none"
  ELSE state' = "starting" /\ armed' = "restart"

\* A start that failed leaves s; only the restart timer schedules another one.
StartFailed(s, count, retry) ==
  IF retry THEN ScheduleRestart(count) ELSE state' = s /\ armed' = "none"

\* Mutant: the conflict's start is not remembered.
AwaitInstanceForgets(count, retry) ==
  /\ other
  /\ IF sinceConflict < ConflictWindow
     THEN state' = "starting" /\ armed' = "conflict"
     ELSE StartFailed("degraded", count, retry)
  /\ UNCHANGED <<sinceConflict, child, links, callback, sinceStart,
                 faults>>

\* The previous instance is alive: look again later, or give up.
AwaitInstance(count, retry) ==
  /\ other
  /\ IF sinceConflict < ConflictWindow
     THEN /\ state' = "starting" /\ armed' = "conflict"
          /\ sinceConflict' = IF sinceConflict = Never THEN 0 ELSE sinceConflict
     ELSE /\ StartFailed("degraded", count, retry)
          /\ UNCHANGED sinceConflict
  /\ UNCHANGED <<child, links, callback, sinceStart, faults>>

\* The executable, the process or its tree fails; a pipe fails and leaves the state.
SpawnFails(count, retry) ==
  /\ ~other /\ faults < MaxFaults
  /\ sinceConflict' = Never
  /\ \E s \in {"degraded", state} : StartFailed(s, count, retry)
  /\ faults' = faults + 1
  /\ UNCHANGED <<child, links, callback, sinceStart>>

Spawn ==
  /\ ~other
  /\ sinceConflict' = Never
  /\ generation' = generation + 1 /\ cmd' = generation' /\ proc' = "running"
  /\ callback' = [callback EXCEPT ![generation'] = "calling"]
  /\ cancelled' = FALSE /\ closed' = FALSE
  /\ sinceStart' = 0
  /\ state' = "starting" /\ armed' = "none"
  /\ UNCHANGED faults

StartLocked(count, retry) ==
  \/ AwaitInstance(count, retry)
  \/ SpawnFails(count, retry)
  \/ Spawn

(* Start and Stop disarm restartTimer and move restartToken on: a function    *)
(* that was already waiting for the mutex finds another token and returns,    *)
(* which is no step.                                                          *)
\* Start with no command; with one it changes nothing.
StartDown ==
  /\ cmd = 0
  /\ stopping' = FALSE
  /\ StartLocked(restartCount, FALSE)
  /\ UNCHANGED <<restartCount, other, sinceFailure, recent, crashes>>

Start ==
  /\ calls < MaxCalls /\ calls' = calls + 1
  /\ StartDown
  /\ UNCHANGED callers

-----------------------------------------------------------------------------
(* The timers *)
FireRestart ==
  /\ armed = "restart" /\ ~stopping /\ cmd = 0
  /\ restartCount' = restartCount + 1
  /\ recent' = [n \in 1..Remembered |-> IF n = 1 THEN 0 ELSE recent[n - 1]]
  /\ StartLocked(restartCount', TRUE)
  /\ UNCHANGED <<stopping, callers, other, sinceFailure,
                 calls, crashes>>

FireConflict ==
  /\ armed = "conflict" /\ ~stopping /\ cmd = 0
  /\ StartLocked(restartCount, FALSE)
  /\ UNCHANGED <<stopping, restartCount, callers, other,
                 sinceFailure, recent, calls, crashes>>

-----------------------------------------------------------------------------
(* The child and its pipes *)
MayCrash == crashes < MaxCrashes /\ crashes' = crashes + 1

\* A child whose pipe is closed or that was interrupted may end; others crash.
ChildExits ==
  /\ proc \in {"running", "killed"}
  /\ IF closed THEN UNCHANGED crashes ELSE MayCrash
  /\ proc' = "exited"
  /\ UNCHANGED <<state, stopping, restartCount, cmd, generation, armed,
                 links, callback, callers, other, ages, calls, faults>>

PeerCloses ==
  /\ cmd # 0 /\ ~closed
  /\ IF cancelled \/ proc = "exited" THEN UNCHANGED crashes ELSE MayCrash
  /\ closed' = TRUE
  /\ UNCHANGED <<state, stopping, restartCount, child, armed, cancelled,
                 callback, callers, other, ages, calls, faults>>

Killed == IF proc = "running" THEN "killed" ELSE proc

(* servePeer once Serve has returned.  For a generation that is no longer    *)
(* current it does nothing, and a second time it would change nothing.       *)
ServeReturned(g) == g \in 1..generation /\ (g = cmd => closed)
\* Mutant: servePeer does not compare the command.
ServeIsAny(g) == g \in Generations /\ cmd # 0 /\ ~stopping

ServeIsCurrent(g) == cmd = g /\ ~stopping

ServeEnds(g) ==
  /\ ServeReturned(g) /\ ServeIsCurrent(g)
  /\ cancelled' = TRUE
  /\ state' = "degraded"
  /\ proc' = Killed
  /\ UNCHANGED <<stopping, restartCount, cmd, generation, armed, closed,
                 callback, callers, other, ages, spent>>

Healthy == sinceStart >= HealthyReset
NewWindow == Healthy \/ sinceFailure = Never \/ sinceFailure > RestartWindow

Wait ==
  /\ proc = "exited"
  /\ cmd' = 0 /\ proc' = "none" /\ sinceStart' = 0
  /\ cancelled' = TRUE /\ closed' = TRUE
  /\ IF stopping
     THEN /\ state' = "stopped"
          /\ UNCHANGED <<restartCount, sinceFailure, armed>>
     ELSE /\ restartCount' = IF NewWindow THEN 0 ELSE restartCount
          /\ sinceFailure' = IF NewWindow THEN 0 ELSE sinceFailure
          /\ ScheduleRestart(restartCount')
  /\ UNCHANGED <<stopping, generation, callback, callers,
                 other, sinceConflict, recent, spent>>

-----------------------------------------------------------------------------
(* connected and the service's callback connectManagedBridge *)
ToPhase(g, from, to) ==
  callback[g] = from /\ callback' = [callback EXCEPT ![g] = to]

\* The child answered and the generation was still current when last asked.
Answered(g) ==
  /\ ToPhase(g, "calling", "told")
  /\ Current(g)
  /\ UNCHANGED <<state, stopping, restartCount, child, armed, links,
                 callers, other, ages, spent>>

CallFails(g) ==
  /\ ToPhase(g, "calling", "failed")
  /\ IF Current(g) THEN MayCrash ELSE UNCHANGED crashes
  /\ UNCHANGED <<state, stopping, restartCount, child, armed, links,
                 callers, other, ages, calls, faults>>

\* Mutant: SetConfigured while the child is being stopped.
SettableStopping == cmd # 0 /\ state \notin {"degraded", "starting"}
Settable == cmd # 0 /\ ~stopping /\ state \notin {"degraded", "starting"}

SetConfigured(g) ==
  /\ ToPhase(g, "told", "set")
  /\ state' = IF Settable THEN "ready" ELSE state
  /\ UNCHANGED <<stopping, restartCount, child, armed, links, callers,
                 other, ages, spent>>

\* The verdict of the callback counts only for the generation that is current.
Connected(g) ==
  /\ callback[g] \in {"set", "failed"}
  /\ callback' = [callback EXCEPT ![g] = "none"]
  /\ CASE ~Current(g) -> UNCHANGED <<state, cancelled, closed, proc>>
       [] Current(g) /\ callback[g] = "failed" ->
            /\ state' = "degraded"
            /\ cancelled' = TRUE /\ closed' = TRUE
            /\ proc' = Killed
       [] OTHER -> /\ state' = "ready"
                   /\ UNCHANGED <<cancelled, closed, proc>>
  /\ UNCHANGED <<stopping, restartCount, cmd, generation, armed,
                 callers, other, ages, spent>>

-----------------------------------------------------------------------------
(* Stop and Restart *)
AfterStop(c) ==
  IF callers[c].restart THEN [callers[c] EXCEPT !.at = "resetting"] ELSE Idle

BeginStop(c, restart) ==
  /\ callers[c].at = "idle" /\ calls < MaxCalls /\ calls' = calls + 1
  /\ stopping' = TRUE /\ armed' = "none"
  /\ IF cmd = 0
     THEN /\ state' = "stopped"
          /\ callers' = [callers EXCEPT ![c] =
               IF restart THEN [at |-> "resetting", on |-> 0, restart |-> TRUE]
               ELSE Idle]
          /\ UNCHANGED <<cancelled, closed>>
     ELSE /\ state' = "stopping"
          /\ cancelled' = TRUE /\ closed' = TRUE
          /\ callers' = [callers EXCEPT ![c] =
               [at |-> "waiting", on |-> cmd, restart |-> restart]]
  /\ UNCHANGED <<restartCount, child, callback, other, ages,
                 crashes, faults>>

\* done of the generation that was running is closed
StopDone(c) ==
  /\ callers[c].at \in {"waiting", "killing"} /\ cmd # callers[c].on
  /\ callers' = [callers EXCEPT ![c] = AfterStop(c)]
  /\ UNCHANGED <<state, stopping, restartCount, child, armed, links,
                 callback, other, ages, spent>>

Kill(c) == proc' = IF cmd = callers[c].on THEN Killed ELSE proc

Deadline(c) ==
  /\ callers[c].at = "waiting"
  /\ callers' = [callers EXCEPT ![c].at = "killing"]
  /\ Kill(c)
  /\ UNCHANGED <<state, stopping, restartCount, cmd, generation, armed,
                 links, callback, other, ages, spent>>

\* The caller's context ends first: Stop, and a Restart with it, is given up.
GiveUp(c) ==
  /\ callers[c].at \in {"waiting", "killing"}
  /\ callers' = [callers EXCEPT ![c] = Idle]
  /\ IF callers[c].at = "waiting" THEN Kill(c) ELSE UNCHANGED proc
  /\ UNCHANGED <<state, stopping, restartCount, cmd, generation, armed,
                 links, callback, other, ages, spent>>

ResetBudget(c) ==
  /\ callers[c].at = "resetting"
  /\ restartCount' = 0 /\ sinceFailure' = Never /\ recent' = NoRestarts
  /\ callers' = [callers EXCEPT ![c] = [Idle EXCEPT !.at = "starting"]]
  /\ UNCHANGED <<state, stopping, child, armed, links, callback,
                 other, sinceStart, sinceConflict, spent>>

StartAgain(c) ==
  /\ callers[c].at = "starting"
  /\ callers' = [callers EXCEPT ![c] = Idle]
  /\ \/ StartDown /\ UNCHANGED calls
     \/ /\ cmd # 0
        /\ UNCHANGED <<state, stopping, restartCount, child, armed,
                       links, callback, other, ages, spent>>

-----------------------------------------------------------------------------
(* The world: the previous instance leaves, time passes *)
OtherLeaves ==
  /\ other /\ other' = FALSE
  /\ UNCHANGED <<state, stopping, restartCount, child, armed, links,
                 callback, callers, ages, spent>>

Tick ==
  /\ sinceStart' = IF cmd = 0 THEN 0 ELSE Older(sinceStart, HealthyReset)
  /\ sinceFailure' = Older(sinceFailure, RestartWindow + 1)
  /\ sinceConflict' = Older(sinceConflict, ConflictWindow)
  /\ recent' = [n \in 1..Remembered |-> Older(recent[n], RestartWindow)]
  /\ UNCHANGED <<state, stopping, restartCount, child, armed, links,
                 callback, callers, other, spent>>

Caller(c) ==
  \/ \E restart \in BOOLEAN : BeginStop(c, restart)
  \/ StopDone(c) \/ Deadline(c) \/ GiveUp(c) \/ ResetBudget(c) \/ StartAgain(c)

CallbackStep(g) ==
  Answered(g) \/ CallFails(g) \/ SetConfigured(g) \/ Connected(g)

Next ==
  \/ Start \/ FireRestart \/ FireConflict
  \/ ChildExits \/ PeerCloses \/ Wait
  \/ \E g \in Generations : ServeEnds(g) \/ CallbackStep(g)
  \/ \E c \in Callers : Caller(c)
  \/ OtherLeaves \/ Tick

Spec == Init /\ [][Next]_vars

ServeStep ==
  \/ (cancelled \/ proc = "exited") /\ PeerCloses
  \/ \E g \in Generations : ServeEnds(g)

(* Timers fire, time passes, and every goroutine runs to its end: wait (the  *)
(* kernel ends a killed process), servePeer, the callback, Stop and Restart. *)
(* A child that was not killed need never exit; a callback ends because the  *)
(* child answers, its pipe closes or the call's time is over.                *)
Fairness ==
  /\ WF_vars(FireRestart \/ FireConflict) /\ WF_vars(Tick)
  /\ WF_vars(Wait \/ (proc = "killed" /\ ChildExits))
  /\ WF_vars(ServeStep) /\ \A g \in Generations : WF_vars(CallbackStep(g))
  /\ \A c \in Callers :
       WF_vars(StopDone(c) \/ Deadline(c) \/ ResetBudget(c) \/ StartAgain(c))

LiveSpec == Spec /\ Fairness
-----------------------------------------------------------------------------
TypeOK ==
  /\ state \in {"stopped", "starting", "ready", "degraded", "stopping"}
  /\ stopping \in BOOLEAN /\ other \in BOOLEAN
  /\ restartCount \in 0..MaxRestarts
  /\ cmd \in {0} \cup Generations /\ generation \in {0} \cup Generations
  /\ proc \in {"none", "running", "killed", "exited"}
  /\ armed \in {"none", "restart", "conflict"}
  /\ cancelled \in BOOLEAN /\ closed \in BOOLEAN
  /\ callback \in [Generations -> {"none", "calling", "told", "set", "failed"}]
  /\ callers \in [Callers -> [at : {"idle", "waiting", "killing", "resetting", "starting"},
                              on : {0} \cup Generations, restart : BOOLEAN]]
  /\ sinceStart \in 0..HealthyReset
  /\ sinceFailure \in Never..(RestartWindow + 1)
  /\ sinceConflict \in Never..ConflictWindow
  /\ recent \in [1..Remembered -> 0..RestartWindow]
  /\ calls \in 0..MaxCalls /\ crashes \in 0..MaxCrashes /\ faults \in 0..MaxFaults

\* Once Stop has been called nothing brings the child back until a Start: no
\* timer is armed, and no timer, callback or dying connection overwrites the
\* state Stop set (Stop, wait, servePeer, SetConfigured, connected).
StopHolds ==
  /\ stopping => armed = "none" /\ state = IF cmd = 0 THEN "stopped" ELSE "stopping"
  /\ armed # "none" => cmd = 0 /\ state = "starting"

\* ready (running or idle_unconfigured) is only reported for a child whose context
\* is alive and whose OnConnect callback has succeeded (connected, SetConfigured).
ReadyIsReady ==
  state = "ready" =>
    /\ cmd # 0 /\ ~stopping
    /\ ~cancelled /\ callback[cmd] = "none"

\* While a child is starting, its callback or the end of its connection is
\* still to come and will change the state (startLocked, connected, servePeer).
StartingIsPending ==
  state = "starting" /\ cmd # 0 => callback[cmd] # "none" \/ closed

\* A child is killed only when the connection to that very child is over:
\* never the next generation for the failure of an earlier one (servePeer's
\* and Stop's comparison with the current command).
KilledIsClosed == proc = "killed" => closed

\* Automatic restarts within one restartWindow: at most two budgets of them,
\* the end of one counting window and the beginning of the next (wait, restart).
\* Of one more than that, the earliest is out of it.
RestartsBounded == recent[Remembered] = RestartWindow

\* "starting" with no child and no timer, which only a user's call ends: what a failing pipe
\* in startLocked leaves.
Stranded == state = "starting" /\ cmd = 0 /\ armed = "none"

\* A child that is starting or waiting for its restart, a child whose connection is over and
\* that must be killed and reaped, a call of Stop or Restart.
Unfinished ==
  \/ state = "starting" /\ ~Stranded
  \/ cmd # 0 /\ closed
  \/ \E c \in Callers : callers[c].at # "idle"

\* Nothing the supervisor has begun stays half done, whichever calls, deadlines, timers and
\* dying connections come between (supervisor.go: startLocked, servePeer, wait, Stop).
SupervisionEnds == []<>~Unfinished
=============================================================================
