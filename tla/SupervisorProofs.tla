-------------------------- MODULE SupervisorProofs --------------------------
(* What the processes around the Core promise. Supervisor, for any callers, bounds and         *)
(* windows: its types, which say that no more children are started than calls and crashes pay  *)
(* for, that what it reports of a child is so, and that it restarts no child more often than   *)
(* two budgets within a window. PrivatePeer, for any calls and bounds: that what a caller is    *)
(* told is so. HostLink: one Core at work. What must happen (SupervisionEnds, OthersEnd) stays *)
(* with TLC.                                                                                   *)
EXTENDS Peers, Sequences, FiniteSetTheorems, TLAPS

\* A child nobody has asked to stop has one of these states.
Alive == cmd # 0 /\ ~stopping => state \in {"starting", "ready", "degraded"}

\* The process is that of the current command, whose generation was counted.
OneProcess == (cmd = 0 <=> proc = "none") /\ cmd \in 0..generation

CancelledIsClosed == cmd # 0 /\ cancelled => closed

\* Who waits for a child that still runs has asked it to stop.
Waits(c) == callers[c].at \in {"waiting", "killing"}

Waiters ==
  \A c \in Callers : Waits(c) =>
    /\ callers[c].on \in 1..generation
    /\ callers[c].on = cmd => stopping /\ closed

RestartLeft == armed = "restart" => restartCount < MaxRestarts

\* A start that is still owed: to a call of Restart, to a timer, to a child that dies.
Owed(one) == one.restart \/ one.at \in {"resetting", "starting"}

Restarting == {c \in Callers : Owed(callers[c])}

Armed == IF armed = "none" THEN 0 ELSE 1

Dying ==
  cmd # 0 /\ ~stopping /\ (proc # "running" \/ cancelled \/ closed \/ callback[cmd] = "failed")

Dies == IF Dying THEN 1 ELSE 0

\* Every generation that was started or is owed was paid for by a call or a crash.
Paid == generation + Cardinality(Restarting) + Armed + Dies <= calls + crashes

Reports == StopHolds /\ ReadyIsReady /\ StartingIsPending /\ Alive

Children == KilledIsClosed /\ OneProcess /\ CancelledIsClosed /\ Waiters

IInv == TypeOK /\ Reports /\ Children /\ RestartLeft /\ Paid

States == {"stopped", "starting", "ready", "degraded", "stopping"}
Callbacks == {"none", "calling", "told", "set", "failed"}
Calls == [at : {"idle", "waiting", "killing", "resetting", "starting"},
          on : {0} \cup Generations, restart : BOOLEAN]

\* The ages, which nothing but the windows reads.
AgesOK ==
  /\ sinceStart \in 0..HealthyReset
  /\ sinceFailure \in Never..(RestartWindow + 1)
  /\ sinceConflict \in Never..ConflictWindow
  /\ recent \in [1..Remembered -> 0..RestartWindow]

\* One caller moves: who is owed a start.
LEMMA CallerMoves ==
  ASSUME TypeOK, NEW c \in Callers, NEW r \in Calls, callers' = [callers EXCEPT ![c] = r]
  PROVE  /\ callers' \in [Callers -> Calls]
         /\ Restarting' = IF Owed(r) THEN Restarting \cup {c} ELSE Restarting \ {c}
<1>1. callers \in [Callers -> Calls] BY DEF TypeOK, Calls
<1>2. callers' \in [Callers -> Calls] BY <1>1
<1>3. \A d \in Callers : callers'[d] = IF d = c THEN r ELSE callers[d] BY <1>1
<1> QED BY <1>2, <1>3 DEF Restarting, Owed

LEMMA Counted ==
  /\ IsFiniteSet(Restarting) /\ Cardinality(Restarting) \in Nat
  /\ \A c \in Callers :
       /\ Cardinality(Restarting \cup {c}) =
            IF c \in Restarting THEN Cardinality(Restarting) ELSE Cardinality(Restarting) + 1
       /\ Cardinality(Restarting \ {c}) =
            IF c \in Restarting THEN Cardinality(Restarting) - 1 ELSE Cardinality(Restarting)
<1>1. Restarting \subseteq Callers BY DEF Restarting
<1>2. IsFiniteSet(Restarting) BY <1>1, FS_Subset, CallersAssumption
<1> QED BY <1>2, FS_CardinalityType, FS_AddElement, FS_RemoveElement

\* One caller moves: how many are owed one.
LEMMA CountMoves ==
  ASSUME TypeOK, NEW c \in Callers, NEW r \in Calls, callers' = [callers EXCEPT ![c] = r]
  PROVE  /\ Cardinality(Restarting) \in Nat /\ Cardinality(Restarting') \in Nat
         /\ Cardinality(Restarting') <= Cardinality(Restarting) + 1
         /\ Owed(callers[c]) \/ ~Owed(r) => Cardinality(Restarting') <= Cardinality(Restarting)
         /\ Owed(callers[c]) /\ ~Owed(r) =>
              Cardinality(Restarting') = Cardinality(Restarting) - 1
<1> DEFINE n == Cardinality(Restarting)
           with == Cardinality(Restarting \cup {c})
           without == Cardinality(Restarting \ {c})
<1>1. n \in Nat /\ (c \in Restarting <=> Owed(callers[c])) BY Counted DEF Restarting
<1>2. /\ with = IF Owed(callers[c]) THEN n ELSE n + 1
      /\ without = IF Owed(callers[c]) THEN n - 1 ELSE n
  BY <1>1, Counted
<1>3. without \in Nat
  <2>1. IsFiniteSet(Restarting \ {c}) BY Counted, FS_RemoveElement
  <2> QED BY <2>1, FS_CardinalityType
<1>4. Cardinality(Restarting') = IF Owed(r) THEN with ELSE without BY CallerMoves
<1> HIDE DEF n, with, without
<1>5. /\ Cardinality(Restarting') \in Nat /\ Cardinality(Restarting') <= n + 1
      /\ Owed(callers[c]) \/ ~Owed(r) => Cardinality(Restarting') <= n
      /\ Owed(callers[c]) /\ ~Owed(r) => Cardinality(Restarting') = n - 1
  BY <1>1, <1>2, <1>3, <1>4
<1> QED BY <1>1, <1>5 DEF n

LEMMA Numbers ==
  ASSUME TypeOK
  PROVE  /\ generation \in Nat /\ cmd \in Nat /\ calls \in Nat /\ crashes \in Nat
         /\ calls <= MaxCalls /\ crashes <= MaxCrashes
         /\ MaxCalls \in Nat /\ MaxCrashes \in Nat
<1>1. /\ generation \in {0} \cup Generations /\ cmd \in {0} \cup Generations
      /\ calls \in 0..MaxCalls /\ crashes \in 0..MaxCrashes
  BY DEF TypeOK
<1> QED BY <1>1, BoundAssumption DEF Generations

\* startLocked: either there is no child yet, and perhaps a timer, or a new one.
NoChild(count) ==
  /\ UNCHANGED <<child, links, callback>>
  /\ state' \in States \ {"ready"} /\ armed' \in {"none", "restart", "conflict"}
  /\ armed' # "none" => state' = "starting"
  /\ armed' = "restart" => count < MaxRestarts

NewChild ==
  /\ generation' = generation + 1 /\ cmd' = generation + 1 /\ proc' = "running"
  /\ callback' = [callback EXCEPT ![generation + 1] = "calling"]
  /\ cancelled' = FALSE /\ closed' = FALSE
  /\ state' = "starting" /\ armed' = "none"

LEMMA StartsOrNot ==
  ASSUME IInv, cmd = 0, NEW count \in 0..MaxRestarts, NEW retry \in BOOLEAN,
         StartLocked(count, retry)
  PROVE  /\ NoChild(count) \/ NewChild
         /\ faults' \in 0..MaxFaults
         /\ sinceStart' \in 0..HealthyReset /\ sinceConflict' \in Never..ConflictWindow
<1> USE DEF Never
<1>1. state \in States \ {"ready"} /\ TypeOK /\ AgesOK
  BY DEF IInv, TypeOK, AgesOK, Reports, ReadyIsReady, States
<1>2. /\ faults \in 0..MaxFaults
      /\ MaxFaults \in Nat /\ ConflictWindow \in Nat /\ HealthyReset \in Nat
      /\ MaxRestarts \in Nat /\ count \in Nat
  BY <1>1, BoundAssumption, WindowAssumption DEF TypeOK
<1>3. CASE AwaitInstance(count, retry)
  <2>1. NoChild(count)
    BY <1>1, <1>2, <1>3 DEF AwaitInstance, StartFailed, ScheduleRestart, NoChild, States
  <2>2. UNCHANGED <<sinceStart, faults>> /\ sinceConflict' \in Never..ConflictWindow
    BY <1>1, <1>2, <1>3 DEF AwaitInstance, AgesOK
  <2> QED BY <1>1, <1>2, <2>1, <2>2 DEF AgesOK
<1>4. CASE SpawnFails(count, retry)
  <2>1. NoChild(count)
    BY <1>1, <1>2, <1>4 DEF SpawnFails, StartFailed, ScheduleRestart, NoChild, States
  <2>2. UNCHANGED <<sinceStart>> /\ sinceConflict' = Never /\ faults' = faults + 1
        /\ faults < MaxFaults
    BY <1>4 DEF SpawnFails
  <2> QED BY <1>1, <1>2, <2>1, <2>2 DEF AgesOK
<1>5. CASE Spawn
  <2>1. NewChild BY <1>5 DEF Spawn, NewChild
  <2>2. sinceStart' = 0 /\ sinceConflict' = Never /\ faults' = faults BY <1>5 DEF Spawn
  <2>3. sinceStart' \in 0..HealthyReset /\ sinceConflict' \in Never..ConflictWindow BY <1>2, <2>2
  <2> QED BY <1>2, <2>1, <2>2, <2>3
<1> QED BY <1>3, <1>4, <1>5 DEF StartLocked

\* What every caller of startLocked shares, once it was paid for.
LEMMA StartedKeeps ==
  ASSUME IInv, cmd = 0, stopping' = FALSE, restartCount' \in 0..MaxRestarts,
         NoChild(restartCount') \/ NewChild,
         callers' \in [Callers -> Calls],
         \A c \in Callers : Waits(c)' => callers'[c] = callers[c],
         Cardinality(Restarting') \in Nat,
         calls' \in 0..MaxCalls, crashes' \in 0..MaxCrashes, faults' \in 0..MaxFaults,
         generation + Cardinality(Restarting') + 1 <= calls' + crashes',
         other' \in BOOLEAN, AgesOK'
  PROVE  IInv'
<1>1. /\ TypeOK /\ Reports /\ Children
      /\ generation \in Nat /\ MaxCalls \in Nat /\ MaxCrashes \in Nat
  BY Numbers DEF IInv
<1>2. calls' \in Nat /\ crashes' \in Nat /\ calls' <= MaxCalls /\ crashes' <= MaxCrashes BY <1>1
<1>3. generation + 1 \in Generations BY <1>1, <1>2 DEF Generations
<1>4. CASE NoChild(restartCount')
  <2>1. /\ UNCHANGED <<cmd, generation, proc, cancelled, closed, callback>>
        /\ state' \in States \ {"ready"} /\ armed' \in {"none", "restart", "conflict"}
        /\ armed' # "none" => state' = "starting"
        /\ armed' = "restart" => restartCount' < MaxRestarts
    BY <1>4 DEF NoChild, child, links
  <2>2. Reports' BY <1>1, <2>1 DEF Reports, StopHolds, ReadyIsReady, StartingIsPending, Alive
  <2>3. Children'
    BY <1>1, <2>1 DEF Children, KilledIsClosed, OneProcess, CancelledIsClosed, Waiters, Waits
  <2>4. TypeOK' BY <1>1, <2>1 DEF TypeOK, AgesOK, Calls, States
  <2>5. Paid'
    <3>1. ~Dying' /\ Armed' \in {0, 1} BY <2>1 DEF Dying, Armed
    <3> QED BY <1>1, <1>2, <2>1, <3>1 DEF Paid, Dies
  <2> QED BY <2>1, <2>2, <2>3, <2>4, <2>5 DEF IInv, RestartLeft
<1>5. CASE NewChild
  <2>1. /\ generation' = generation + 1 /\ cmd' = generation + 1 /\ proc' = "running"
        /\ callback' = [callback EXCEPT ![generation + 1] = "calling"]
        /\ cancelled' = FALSE /\ closed' = FALSE
        /\ state' = "starting" /\ armed' = "none"
    BY <1>5 DEF NewChild
  <2>2. callback \in [Generations -> Callbacks] BY <1>1 DEF TypeOK, Callbacks
  <2>3. callback' \in [Generations -> Callbacks] /\ callback'[cmd'] = "calling"
    BY <1>3, <2>1, <2>2 DEF Callbacks
  <2>4. Reports' BY <2>1, <2>3 DEF Reports, StopHolds, ReadyIsReady, StartingIsPending, Alive
  <2>5. Waiters'
    <3> SUFFICES ASSUME NEW c \in Callers, Waits(c)'
                 PROVE  /\ callers'[c].on \in 1..generation'
                        /\ callers'[c].on = cmd' => stopping' /\ closed'
      BY DEF Waiters
    <3>1. callers[c].on \in 1..generation BY <1>1 DEF Children, Waiters, Waits
    <3> QED BY <1>1, <2>1, <3>1
  <2>6. Children' BY <1>1, <2>1, <2>5 DEF Children, KilledIsClosed, OneProcess, CancelledIsClosed
  <2>7. TypeOK' BY <1>3, <2>1, <2>3 DEF TypeOK, AgesOK, Calls, Callbacks
  <2>8. Paid'
    <3>1. ~Dying' /\ Armed' = 0 BY <2>1, <2>3 DEF Dying, Armed
    <3> QED BY <1>1, <1>2, <2>1, <3>1 DEF Paid, Dies
  <2> QED BY <2>1, <2>4, <2>6, <2>7, <2>8 DEF IInv, RestartLeft
<1> QED BY <1>4, <1>5

\* Nobody moves but the supervisor.
LEMMA SameCallers ==
  ASSUME IInv, callers' = callers
  PROVE  /\ callers' \in [Callers -> Calls] /\ Restarting' = Restarting
         /\ \A c \in Callers : Waits(c)' => callers'[c] = callers[c]
         /\ Cardinality(Restarting') = Cardinality(Restarting)
         /\ Cardinality(Restarting) \in Nat
BY Counted DEF IInv, TypeOK, Calls, Restarting

LEMMA InitHolds == Init => IInv
<1> SUFFICES ASSUME Init PROVE IInv
  OBVIOUS
<1>1. /\ state = "stopped" /\ stopping = FALSE /\ restartCount = 0
      /\ cmd = 0 /\ generation = 0 /\ proc = "none" /\ armed = "none"
      /\ cancelled = FALSE /\ closed = FALSE /\ other \in BOOLEAN
      /\ callback = [g \in Generations |-> "none"]
      /\ callers = [c \in Callers |-> Idle]
      /\ sinceStart = 0 /\ sinceFailure = Never /\ sinceConflict = Never
      /\ recent = NoRestarts /\ calls = 0 /\ crashes = 0 /\ faults = 0
  BY DEF Init
<1>2. AgesOK
  <2>1. recent \in [1..Remembered -> 0..RestartWindow] BY <1>1, WindowAssumption DEF NoRestarts
  <2> QED BY <1>1, <2>1, WindowAssumption DEF AgesOK, Never
<1>3. callers \in [Callers -> Calls] BY <1>1 DEF Calls, Idle
<1>4. TypeOK
  <2>1. restartCount \in 0..MaxRestarts BY <1>1, BoundAssumption
  <2>2. calls \in 0..MaxCalls /\ crashes \in 0..MaxCrashes /\ faults \in 0..MaxFaults
    BY <1>1, BoundAssumption
  <2>3. callback \in [Generations -> Callbacks] BY <1>1 DEF Callbacks
  <2> QED BY <1>1, <1>2, <1>3, <2>1, <2>2, <2>3 DEF TypeOK, AgesOK, Calls, Callbacks
<1>5. Restarting = {} BY <1>1 DEF Restarting, Owed, Idle
<1>6. Paid BY <1>1, <1>5, FS_EmptySet DEF Paid, Armed, Dies, Dying
<1>7. Waiters BY <1>1 DEF Waiters, Waits, Idle
<1> QED BY <1>1, <1>4, <1>6, <1>7 DEF IInv, Reports, StopHolds, ReadyIsReady, StartingIsPending,
           Alive, Children, KilledIsClosed, OneProcess, CancelledIsClosed, RestartLeft

\* Start pays for its generation.
LEMMA StartKeeps == ASSUME IInv, Start PROVE IInv'
<1>1. /\ cmd = 0 /\ stopping' = FALSE /\ StartLocked(restartCount, FALSE)
      /\ calls < MaxCalls /\ calls' = calls + 1
      /\ UNCHANGED <<restartCount, other, sinceFailure, recent, crashes, callers>>
  BY DEF Start, StartDown
<1>2. TypeOK BY DEF IInv
<1>3. restartCount \in 0..MaxRestarts /\ FALSE \in BOOLEAN BY <1>2 DEF TypeOK
<1>4. /\ NoChild(restartCount) \/ NewChild
      /\ faults' \in 0..MaxFaults
      /\ sinceStart' \in 0..HealthyReset /\ sinceConflict' \in Never..ConflictWindow
  BY <1>1, <1>3, StartsOrNot
<1>5. AgesOK' /\ other' \in BOOLEAN BY <1>1, <1>2, <1>4 DEF AgesOK, TypeOK
<1>6. generation + Cardinality(Restarting) <= calls + crashes
  <2>1. Armed \in {0, 1} /\ Dies \in {0, 1} BY DEF Armed, Dies
  <2> QED BY <1>2, <2>1, Numbers, Counted DEF IInv, Paid
<1>7. /\ calls' \in 0..MaxCalls /\ crashes' \in 0..MaxCrashes
      /\ generation + Cardinality(Restarting') + 1 <= calls' + crashes'
  BY <1>1, <1>2, <1>6, Numbers, SameCallers
<1> QED BY <1>1, <1>3, <1>4, <1>5, <1>7, SameCallers, StartedKeeps

\* A timer spends what was owed to it.
LEMMA FireKeeps == ASSUME IInv, FireRestart \/ FireConflict PROVE IInv'
<1>1. TypeOK BY DEF IInv
<1>2. /\ restartCount \in Nat /\ restartCount <= MaxRestarts /\ MaxRestarts \in Nat
      /\ RestartWindow \in Nat \ {0} /\ recent \in [1..Remembered -> 0..RestartWindow]
  BY <1>1, BoundAssumption, WindowAssumption DEF TypeOK
<1>3. PICK retry \in BOOLEAN :
        /\ cmd = 0 /\ armed # "none" /\ stopping' = FALSE
        /\ StartLocked(restartCount', retry)
        /\ UNCHANGED <<callers, other, sinceFailure, calls, crashes>>
  <2>1. stopping = FALSE \/ stopping = TRUE BY <1>1 DEF TypeOK
  <2> QED BY <2>1 DEF FireRestart, FireConflict
<1>4. restartCount' \in 0..MaxRestarts /\ recent' \in [1..Remembered -> 0..RestartWindow]
  <2>1. CASE FireRestart
    <3>1. /\ armed = "restart" /\ restartCount' = restartCount + 1
          /\ recent' = [n \in 1..Remembered |-> IF n = 1 THEN 0 ELSE recent[n - 1]]
      BY <2>1 DEF FireRestart
    <3>2. restartCount < MaxRestarts BY <3>1 DEF IInv, RestartLeft
    <3>3. Remembered \in Nat BY <1>2 DEF Remembered
    <3>4. recent' \in [1..Remembered -> 0..RestartWindow]
      <4>1. \A n \in 1..Remembered : n # 1 => n - 1 \in 1..Remembered BY <3>3
      <4> QED BY <1>2, <3>1, <4>1
    <3> QED BY <1>2, <3>1, <3>2, <3>4
  <2>2. CASE FireConflict BY <1>2, <2>2 DEF FireConflict
  <2> QED BY <2>1, <2>2
<1>5. /\ NoChild(restartCount') \/ NewChild
      /\ faults' \in 0..MaxFaults
      /\ sinceStart' \in 0..HealthyReset /\ sinceConflict' \in Never..ConflictWindow
  BY <1>3, <1>4, StartsOrNot
<1>6. AgesOK' /\ other' \in BOOLEAN BY <1>1, <1>3, <1>4, <1>5 DEF AgesOK, TypeOK
<1>7. generation + Cardinality(Restarting) + 1 <= calls + crashes
  <2>1. Armed = 1 /\ Dies \in {0, 1} BY <1>3 DEF Armed, Dies
  <2> QED BY <1>1, <2>1, Numbers, Counted DEF IInv, Paid
<1>8. /\ calls' \in 0..MaxCalls /\ crashes' \in 0..MaxCrashes
      /\ generation + Cardinality(Restarting') + 1 <= calls' + crashes'
  BY <1>1, <1>3, <1>7, Numbers, SameCallers
<1> QED BY <1>3, <1>4, <1>5, <1>6, <1>8, SameCallers, StartedKeeps

\* What neither starts a child nor ends one: it is enough that nothing more is owed.
LEMMA StaysPaid ==
  ASSUME IInv, UNCHANGED generation, Armed' <= Armed, Armed' \in {0, 1},
         Cardinality(Restarting') \in Nat, calls' \in Nat, crashes' \in Nat,
         Cardinality(Restarting') - Cardinality(Restarting) + Dies' - Dies
           <= calls' - calls + crashes' - crashes
  PROVE  Paid'
<1>1. TypeOK /\ Armed \in {0, 1} /\ Dies \in {0, 1} /\ Dies' \in {0, 1} BY DEF IInv, Armed, Dies
<1>2. generation + Cardinality(Restarting) + Armed + Dies <= calls + crashes BY DEF IInv, Paid
<1>3. /\ generation \in Nat /\ calls \in Nat /\ crashes \in Nat
      /\ Cardinality(Restarting) \in Nat
  BY <1>1, Numbers, Counted
<1>4. generation + Cardinality(Restarting') + Armed' + Dies' <= calls' + crashes'
  BY <1>1, <1>2, <1>3
<1> QED BY <1>4 DEF Paid

\* The child ends: a crash, unless it was on its way out.
LEMMA ChildExitsKeeps == ASSUME IInv, ChildExits PROVE IInv'
<1>1. /\ proc \in {"running", "killed"} /\ proc' = "exited"
      /\ \/ closed /\ crashes' = crashes
         \/ crashes < MaxCrashes /\ crashes' = crashes + 1
      /\ UNCHANGED <<state, stopping, restartCount, cmd, generation, armed, cancelled,
                     closed, callback, callers, other, sinceStart, sinceFailure, sinceConflict,
                     recent, calls, faults>>
  BY DEF ChildExits, MayCrash, links, ages
<1>2. TypeOK /\ Reports /\ Children /\ cmd # 0 BY <1>1 DEF IInv, Children, OneProcess
<1>3. crashes' \in 0..MaxCrashes BY <1>1, <1>2, Numbers
<1>4. TypeOK' BY <1>1, <1>2, <1>3 DEF TypeOK
<1>5. Reports' BY <1>1, <1>2 DEF Reports, StopHolds, ReadyIsReady, StartingIsPending, Alive
<1>6. Children'
  BY <1>1, <1>2 DEF Children, KilledIsClosed, OneProcess, CancelledIsClosed, Waiters, Waits
<1>7. Dies' - Dies <= crashes' - crashes
  <2>1. closed => Dying' = Dying BY <1>1, <1>2 DEF Dying
  <2> QED BY <1>1, <1>2, <2>1, Numbers DEF Dies
<1>8. Paid' BY <1>1, <1>2, <1>3, <1>7, StaysPaid, SameCallers, Numbers DEF Armed, Dies
<1> QED BY <1>1, <1>4, <1>5, <1>6, <1>8 DEF IInv, RestartLeft

LEMMA PeerClosesKeeps == ASSUME IInv, PeerCloses PROVE IInv'
<1>1. /\ cmd # 0 /\ ~closed /\ closed' = TRUE
      /\ \/ (cancelled \/ proc = "exited") /\ crashes' = crashes
         \/ crashes < MaxCrashes /\ crashes' = crashes + 1
      /\ UNCHANGED <<state, stopping, restartCount, cmd, generation, proc, armed,
                     cancelled, callback, callers, other, sinceStart, sinceFailure,
                     sinceConflict, recent, calls, faults>>
  BY DEF PeerCloses, MayCrash, child, ages
<1>2. TypeOK /\ Reports /\ Children BY DEF IInv
<1>3. crashes' \in 0..MaxCrashes BY <1>1, <1>2, Numbers
<1>4. TypeOK' BY <1>1, <1>2, <1>3 DEF TypeOK
<1>5. Reports' BY <1>1, <1>2 DEF Reports, StopHolds, ReadyIsReady, StartingIsPending, Alive
<1>6. Children'
  BY <1>1, <1>2 DEF Children, KilledIsClosed, OneProcess, CancelledIsClosed, Waiters, Waits
<1>7. Dies' - Dies <= crashes' - crashes
  <2>1. cancelled \/ proc = "exited" => Dying' = Dying BY <1>1, <1>2 DEF Dying
  <2> QED BY <1>1, <1>2, <2>1, Numbers DEF Dies
<1>8. Paid' BY <1>1, <1>2, <1>3, <1>7, StaysPaid, SameCallers, Numbers DEF Armed, Dies
<1> QED BY <1>1, <1>4, <1>5, <1>6, <1>8 DEF IInv, RestartLeft

\* servePeer kills the child whose connection is over, and no other.
LEMMA ServeEndsKeeps == ASSUME IInv, NEW g \in Generations, ServeEnds(g) PROVE IInv'
<1>1. /\ closed /\ cmd = g /\ ~stopping
      /\ cancelled' = TRUE /\ state' = "degraded"
      /\ proc' = IF proc = "running" THEN "killed" ELSE proc
      /\ UNCHANGED <<stopping, restartCount, cmd, generation, armed, closed, callback,
                     callers, other, sinceStart, sinceFailure, sinceConflict, recent, calls,
                     crashes, faults>>
  BY DEF ServeEnds, ServeReturned, ServeIsCurrent, Killed, ages, spent
<1>2. TypeOK /\ Reports /\ Children /\ cmd # 0 BY <1>1 DEF IInv, Generations
<1>3. armed = "none" BY <1>2 DEF Reports, StopHolds
<1>4. TypeOK' BY <1>1, <1>2 DEF TypeOK
<1>5. Reports' BY <1>1, <1>2, <1>3 DEF Reports, StopHolds, ReadyIsReady, StartingIsPending, Alive
<1>6. Children'
  BY <1>1, <1>2 DEF Children, KilledIsClosed, OneProcess, CancelledIsClosed, Waiters, Waits
<1>7. Dies = 1 BY <1>1, <1>2 DEF Dies, Dying
<1>8. Dies' \in {0, 1} BY DEF Dies
<1>9. Paid' BY <1>1, <1>2, <1>7, <1>8, StaysPaid, SameCallers, Numbers DEF Armed
<1> QED BY <1>1, <1>4, <1>5, <1>6, <1>9 DEF IInv, RestartLeft

\* A start that a dying child was owed is the timer's from here on.
LEMMA WaitKeeps == ASSUME IInv, Wait PROVE IInv'
<1>1. /\ proc = "exited" /\ cmd' = 0 /\ proc' = "none" /\ sinceStart' = 0
      /\ cancelled' = TRUE /\ closed' = TRUE
      /\ UNCHANGED <<stopping, generation, callback, callers, other, sinceConflict,
                     recent, calls, crashes, faults>>
  BY DEF Wait, spent
<1>2. TypeOK /\ Reports /\ Children /\ cmd # 0 BY <1>1 DEF IInv, Children, OneProcess
<1>3. armed = "none" BY <1>2 DEF Reports, StopHolds
<1>4. /\ restartCount' \in 0..MaxRestarts /\ sinceFailure' \in Never..(RestartWindow + 1)
      /\ \/ /\ stopping /\ state' = "stopped" /\ armed' = "none"
         \/ /\ ~stopping /\ state' = "degraded" /\ armed' = "none"
         \/ /\ ~stopping /\ state' = "starting" /\ armed' = "restart"
            /\ restartCount' < MaxRestarts
  <2>1. /\ restartCount \in 0..MaxRestarts /\ sinceFailure \in Never..(RestartWindow + 1)
        /\ MaxRestarts \in Nat /\ RestartWindow \in Nat
    BY <1>2, BoundAssumption, WindowAssumption DEF TypeOK
  <2>2. 0 \in 0..MaxRestarts /\ 0 \in Never..(RestartWindow + 1) BY <2>1 DEF Never
  <2>3. CASE stopping BY <1>1, <1>3, <2>1, <2>3 DEF Wait
  <2>4. CASE ~stopping
    <3>1. /\ restartCount' = IF NewWindow THEN 0 ELSE restartCount
          /\ sinceFailure' = IF NewWindow THEN 0 ELSE sinceFailure
          /\ ScheduleRestart(restartCount')
      BY <2>4 DEF Wait
    <3>2. restartCount' \in 0..MaxRestarts /\ sinceFailure' \in Never..(RestartWindow + 1)
      BY <2>1, <2>2, <3>1
    <3> QED BY <2>1, <2>4, <3>1, <3>2 DEF ScheduleRestart
  <2> QED BY <2>3, <2>4
<1>5. TypeOK'
  <2>1. 0 \in 0..HealthyReset BY WindowAssumption
  <2> QED BY <1>1, <1>2, <1>4, <2>1 DEF TypeOK
<1>6. Reports' BY <1>1, <1>2, <1>4 DEF Reports, StopHolds, ReadyIsReady, StartingIsPending, Alive
<1>7. generation \in Nat BY <1>2, Numbers
<1>8. Children'
  BY <1>1, <1>2, <1>7 DEF Children, KilledIsClosed, OneProcess, CancelledIsClosed, Waiters, Waits
<1>9. Paid'
  <2>1. Armed = 0 /\ Dies = IF stopping THEN 0 ELSE 1 BY <1>1, <1>2, <1>3 DEF Armed, Dies, Dying
  <2>2. Dies' = 0 /\ Armed' <= IF stopping THEN 0 ELSE 1 BY <1>1, <1>4 DEF Armed, Dies, Dying
  <2>3. Armed' \in {0, 1} BY DEF Armed
  <2>4. generation + Cardinality(Restarting) + Armed' + Dies' <= calls + crashes
    BY <1>2, <2>1, <2>2, <2>3, Numbers, Counted DEF IInv, Paid
  <2> QED BY <1>1, <2>4, SameCallers DEF Paid
<1> QED BY <1>4, <1>5, <1>6, <1>8, <1>9 DEF IInv, RestartLeft

\* A callback of any generation, current or not, moves on.
LEMMA CallbackMoves ==
  ASSUME IInv, NEW g \in Generations, NEW phase \in Callbacks,
         callback' = [callback EXCEPT ![g] = phase]
  PROVE  callback' \in [Generations -> Callbacks]
         /\ \A h \in Generations : callback'[h] = IF h = g THEN phase ELSE callback[h]
BY DEF IInv, TypeOK, Callbacks

LEMMA AnsweredKeeps ==
  ASSUME IInv, NEW g \in Generations, Answered(g) \/ CallFails(g) PROVE IInv'
<1>1. PICK phase \in {"told", "failed"} :
        /\ callback[g] = "calling" /\ callback' = [callback EXCEPT ![g] = phase]
        /\ \/ phase = "told" /\ crashes' = crashes
           \/ phase = "failed" /\ ~Current(g) /\ crashes' = crashes
           \/ crashes < MaxCrashes /\ crashes' = crashes + 1
        /\ UNCHANGED <<state, stopping, restartCount, cmd, generation, proc, armed,
                       cancelled, closed, callers, other, sinceStart, sinceFailure,
                       sinceConflict, recent, calls, faults>>
  <2>1. CASE Answered(g) BY <2>1 DEF Answered, ToPhase, child, links, ages, spent
  <2>2. CASE CallFails(g) BY <2>2 DEF CallFails, ToPhase, MayCrash, child, links, ages
  <2> QED BY <2>1, <2>2
<1>2. TypeOK /\ Reports /\ Children BY DEF IInv
<1>3. /\ callback' \in [Generations -> Callbacks]
      /\ \A h \in Generations : callback'[h] = IF h = g THEN phase ELSE callback[h]
  BY <1>1, CallbackMoves DEF Callbacks
<1>4. crashes' \in 0..MaxCrashes BY <1>1, <1>2, Numbers
<1>5. TypeOK' BY <1>1, <1>2, <1>3, <1>4 DEF TypeOK, Callbacks
<1>6. cmd # 0 => cmd \in Generations BY <1>2 DEF TypeOK
<1>7. Reports'
  BY <1>1, <1>2, <1>3, <1>6 DEF Reports, StopHolds, ReadyIsReady, StartingIsPending, Alive
<1>8. Children'
  BY <1>1, <1>2 DEF Children, KilledIsClosed, OneProcess, CancelledIsClosed, Waiters, Waits
<1>9. Dies' - Dies <= crashes' - crashes
  <2>1. phase = "told" \/ ~Current(g) => (Dying' => Dying) BY <1>1, <1>3, <1>6 DEF Dying, Current
  <2> QED BY <1>1, <1>2, <2>1, Numbers DEF Dies
<1>10. Paid' BY <1>1, <1>2, <1>4, <1>9, StaysPaid, SameCallers, Numbers DEF Armed, Dies
<1> QED BY <1>1, <1>5, <1>7, <1>8, <1>10 DEF IInv, RestartLeft

LEMMA SetConfiguredKeeps ==
  ASSUME IInv, NEW g \in Generations, SetConfigured(g) PROVE IInv'
<1>1. /\ callback[g] = "told" /\ callback' = [callback EXCEPT ![g] = "set"]
      /\ state' = IF Settable THEN "ready" ELSE state
      /\ UNCHANGED <<stopping, restartCount, cmd, generation, proc, armed, cancelled, closed,
                     callers, other, sinceStart, sinceFailure, sinceConflict, recent, calls,
                     crashes, faults>>
  BY DEF SetConfigured, ToPhase, child, links, ages, spent
<1>2. TypeOK /\ Reports /\ Children BY DEF IInv
<1>3. /\ callback' \in [Generations -> Callbacks]
      /\ \A h \in Generations : callback'[h] = IF h = g THEN "set" ELSE callback[h]
  BY <1>1, CallbackMoves DEF Callbacks
<1>4. state' = state BY <1>1, <1>2 DEF Settable, Reports, Alive
<1>5. TypeOK' BY <1>1, <1>2, <1>3, <1>4 DEF TypeOK, Callbacks
<1>6. cmd # 0 => cmd \in Generations BY <1>2 DEF TypeOK
<1>7. Reports'
  BY <1>1, <1>2, <1>3, <1>4, <1>6
  DEF Reports, StopHolds, ReadyIsReady, StartingIsPending, Alive
<1>8. Children'
  BY <1>1, <1>2 DEF Children, KilledIsClosed, OneProcess, CancelledIsClosed, Waiters, Waits
<1>9. Dies' <= Dies /\ Dies' \in {0, 1} /\ Dies \in {0, 1}
  <2>1. Dying' => Dying BY <1>1, <1>3, <1>6 DEF Dying
  <2> QED BY <2>1 DEF Dies
<1>10. Paid' BY <1>1, <1>2, <1>9, StaysPaid, SameCallers, Numbers DEF Armed
<1> QED BY <1>1, <1>5, <1>7, <1>8, <1>10 DEF IInv, RestartLeft

\* The verdict of a callback: ready and a killed child only if the generation is current.
LEMMA ConnectedKeeps == ASSUME IInv, NEW g \in Generations, Connected(g) PROVE IInv'
<1>1. /\ callback[g] \in {"set", "failed"} /\ callback' = [callback EXCEPT ![g] = "none"]
      /\ \/ ~Current(g) /\ UNCHANGED <<state, cancelled, closed, proc>>
         \/ /\ Current(g) /\ callback[g] = "failed" /\ state' = "degraded"
            /\ cancelled' = TRUE /\ closed' = TRUE
            /\ proc' = IF proc = "running" THEN "killed" ELSE proc
         \/ Current(g) /\ callback[g] = "set" /\ state' = "ready"
            /\ UNCHANGED <<cancelled, closed, proc>>
      /\ UNCHANGED <<stopping, restartCount, cmd, generation, armed, callers, other,
                     sinceStart, sinceFailure, sinceConflict, recent, calls, crashes, faults>>
  BY DEF Connected, Killed, ages, spent
<1>2. TypeOK /\ Reports /\ Children BY DEF IInv
<1>3. /\ callback' \in [Generations -> Callbacks]
      /\ \A h \in Generations : callback'[h] = IF h = g THEN "none" ELSE callback[h]
  BY <1>1, CallbackMoves DEF Callbacks
<1>4. g # 0 /\ (cmd # 0 => cmd \in Generations) BY <1>2 DEF TypeOK, Generations
<1>5. Current(g) => armed = "none" /\ cmd = g /\ cmd # 0 /\ ~stopping /\ ~cancelled
  BY <1>2, <1>4 DEF Current, Reports, StopHolds
<1>6. TypeOK'
  <2>1. /\ state' \in States /\ cancelled' \in BOOLEAN /\ closed' \in BOOLEAN
        /\ proc' \in {"none", "running", "killed", "exited"}
    BY <1>1, <1>2 DEF TypeOK, States
  <2> QED BY <1>1, <1>2, <1>3, <2>1 DEF TypeOK, Callbacks, States
<1>7. StopHolds' /\ Alive' BY <1>1, <1>2, <1>5 DEF Reports, StopHolds, Alive
<1>8. ReadyIsReady' BY <1>1, <1>2, <1>3, <1>4, <1>5 DEF Reports, ReadyIsReady
<1>9. StartingIsPending'
  <2> SUFFICES ASSUME state' = "starting", cmd' # 0, callback'[cmd'] = "none"
               PROVE  closed'
    BY DEF StartingIsPending
  <2>1. ~Current(g) /\ state = "starting" /\ UNCHANGED <<closed, cmd>> BY <1>1
  <2>2. ~stopping BY <1>2, <2>1 DEF Reports, StopHolds
  <2>3. CASE cmd = g BY <1>2, <2>1, <2>2, <2>3 DEF Current, Children, CancelledIsClosed
  <2>4. CASE cmd # g BY <1>2, <1>3, <1>4, <2>1, <2>4 DEF Reports, StartingIsPending
  <2> QED BY <2>3, <2>4
<1>10. Children'
  <2>1. KilledIsClosed' /\ OneProcess' /\ CancelledIsClosed'
    BY <1>1, <1>2, <1>5 DEF Children, KilledIsClosed, OneProcess, CancelledIsClosed
  <2>2. Waiters' BY <1>1, <1>2, <1>5 DEF Children, Waiters, Waits
  <2> QED BY <2>1, <2>2 DEF Children
<1>11. Dies' <= Dies /\ Dies' \in {0, 1} /\ Dies \in {0, 1}
  <2>1. Dying' => Dying BY <1>1, <1>3, <1>4, <1>5 DEF Dying
  <2> QED BY <2>1 DEF Dies
<1>12. Paid' BY <1>1, <1>2, <1>11, StaysPaid, SameCallers, Numbers DEF Armed
<1> QED BY <1>1, <1>6, <1>7, <1>8, <1>9, <1>10, <1>12 DEF IInv, Reports, RestartLeft

\* Stop and Restart: the call pays for the start it will make.
LEMMA BeginStopKeeps ==
  ASSUME IInv, NEW c \in Callers, NEW restart \in BOOLEAN, BeginStop(c, restart) PROVE IInv'
<1>1. /\ callers[c].at = "idle" /\ calls < MaxCalls /\ calls' = calls + 1
      /\ stopping' = TRUE /\ armed' = "none"
      /\ UNCHANGED <<restartCount, cmd, generation, proc, callback, other, sinceStart,
                     sinceFailure, sinceConflict, recent, crashes, faults>>
  BY DEF BeginStop, child, ages
<1>2. TypeOK /\ Reports /\ Children BY DEF IInv
<1>3. PICK r \in Calls :
        /\ callers' = [callers EXCEPT ![c] = r]
        /\ \/ /\ cmd = 0 /\ state' = "stopped" /\ r.at \in {"resetting", "idle"}
              /\ UNCHANGED <<cancelled, closed>>
           \/ /\ cmd # 0 /\ state' = "stopping" /\ r.at = "waiting" /\ r.on = cmd
              /\ cancelled' = TRUE /\ closed' = TRUE
  <2>1. cmd \in {0} \cup Generations BY <1>2 DEF TypeOK
  <2>2. /\ [at |-> "resetting", on |-> 0, restart |-> TRUE] \in Calls
        /\ [at |-> "idle", on |-> 0, restart |-> FALSE] \in Calls
        /\ [at |-> "waiting", on |-> cmd, restart |-> restart] \in Calls
    BY <2>1 DEF Calls
  <2>3. CASE cmd = 0 BY <2>2, <2>3 DEF BeginStop, Idle
  <2>4. CASE cmd # 0 BY <2>2, <2>4 DEF BeginStop
  <2> QED BY <2>3, <2>4
<1>4. /\ callers' \in [Callers -> Calls]
      /\ \A d \in Callers : callers'[d] = IF d = c THEN r ELSE callers[d]
  BY <1>2, <1>3, CallerMoves DEF TypeOK, Calls
<1>5. calls' \in 0..MaxCalls BY <1>1, <1>2, Numbers
<1>6. TypeOK' BY <1>1, <1>2, <1>3, <1>4, <1>5 DEF TypeOK, Calls
<1>7. Reports' BY <1>1, <1>2, <1>3 DEF Reports, StopHolds, ReadyIsReady, StartingIsPending, Alive
<1>8. KilledIsClosed' /\ OneProcess' /\ CancelledIsClosed'
  BY <1>1, <1>2, <1>3 DEF Children, KilledIsClosed, OneProcess, CancelledIsClosed
<1>9. Waiters'
  <2> SUFFICES ASSUME NEW d \in Callers, Waits(d)'
               PROVE  /\ callers'[d].on \in 1..generation'
                      /\ callers'[d].on = cmd' => stopping' /\ closed'
    BY DEF Waiters
  <2>1. CASE d = c
    <3>1. callers'[d] = r /\ cmd # 0 /\ r.on = cmd /\ closed' BY <1>3, <1>4, <2>1 DEF Waits
    <3> QED BY <1>1, <1>2, <3>1, Numbers DEF Children, OneProcess
  <2>2. CASE d # c BY <1>1, <1>2, <1>3, <1>4, <2>2 DEF Waits, Children, Waiters
  <2> QED BY <2>1, <2>2
<1>10. Paid'
  <2>1. /\ Cardinality(Restarting') \in Nat
        /\ Cardinality(Restarting') <= Cardinality(Restarting) + 1
    BY <1>2, <1>3, CountMoves
  <2>2. Dies' = 0 /\ Dies \in {0, 1} /\ Armed' = 0 /\ Armed \in {0, 1}
    BY <1>1 DEF Dies, Dying, Armed
  <2> QED BY <1>1, <1>2, <2>1, <2>2, Numbers, Counted, StaysPaid
<1> QED BY <1>1, <1>6, <1>7, <1>8, <1>9, <1>10 DEF IInv, Children, RestartLeft

\* Who waits or gives up kills at most the child it asked to stop.
LEMMA WaitingKeeps ==
  ASSUME IInv, NEW c \in Callers, StopDone(c) \/ Deadline(c) \/ GiveUp(c) PROVE IInv'
<1>1. TypeOK /\ Reports /\ Children BY DEF IInv
<1>2. callers[c] \in Calls /\ Idle \in Calls BY <1>1 DEF TypeOK, Calls, Idle
<1>3. PICK r \in Calls :
        /\ Waits(c) /\ callers' = [callers EXCEPT ![c] = r]
        /\ Owed(r) => callers[c].restart
        /\ r.at \in {"waiting", "killing"} => r.on = callers[c].on
  <2>1. CASE StopDone(c)
    <3>1. /\ Waits(c) /\ callers' = [callers EXCEPT ![c] = AfterStop(c)]
      BY <2>1 DEF StopDone, Waits
    <3>2. /\ AfterStop(c) \in Calls /\ AfterStop(c).at \in {"resetting", "idle"}
          /\ Owed(AfterStop(c)) => callers[c].restart
      BY <1>2 DEF AfterStop, Calls, Owed, Idle
    <3> QED BY <3>1, <3>2
  <2>2. CASE Deadline(c)
    <3> DEFINE r == [callers[c] EXCEPT !.at = "killing"]
    <3>1. /\ Waits(c) /\ callers' = [callers EXCEPT ![c] = r]
      BY <2>2 DEF Deadline, Waits
    <3>2. r \in Calls /\ r.at = "killing" /\ r.on = callers[c].on
          /\ r.restart = callers[c].restart
      BY <1>2 DEF Calls
    <3> HIDE DEF r
    <3> QED BY <3>1, <3>2 DEF Owed
  <2>3. CASE GiveUp(c) BY <1>2, <2>3 DEF GiveUp, Waits, Owed, Idle
  <2> QED BY <2>1, <2>2, <2>3
<1>4. /\ \/ proc' = proc
         \/ cmd = callers[c].on /\ proc' = IF proc = "running" THEN "killed" ELSE proc
      /\ UNCHANGED <<state, stopping, restartCount, cmd, generation, armed, cancelled,
                     closed, callback, other, sinceStart, sinceFailure, sinceConflict, recent,
                     calls, crashes, faults>>
  BY DEF StopDone, Deadline, GiveUp, Kill, Killed, child, links, ages, spent
<1>5. cmd = callers[c].on => stopping /\ closed BY <1>1, <1>3 DEF Children, Waiters
<1>6. /\ callers' \in [Callers -> Calls]
      /\ \A d \in Callers : callers'[d] = IF d = c THEN r ELSE callers[d]
  BY <1>1, <1>3, CallerMoves DEF TypeOK, Calls
<1>7. TypeOK' BY <1>1, <1>4, <1>6 DEF TypeOK, Calls
<1>8. Reports' BY <1>1, <1>4 DEF Reports, StopHolds, ReadyIsReady, StartingIsPending, Alive
<1>9. KilledIsClosed' /\ OneProcess' /\ CancelledIsClosed'
  BY <1>1, <1>4, <1>5 DEF Children, KilledIsClosed, OneProcess, CancelledIsClosed
<1>10. Waiters'
  <2> SUFFICES ASSUME NEW d \in Callers, Waits(d)'
               PROVE  /\ callers'[d].on \in 1..generation'
                      /\ callers'[d].on = cmd' => stopping' /\ closed'
    BY DEF Waiters
  <2>1. Waits(d) /\ callers'[d].on = callers[d].on BY <1>3, <1>6 DEF Waits
  <2> QED BY <1>1, <1>4, <2>1 DEF Children, Waiters
<1>11. Paid'
  <2>1. /\ Cardinality(Restarting') \in Nat
        /\ Cardinality(Restarting') <= Cardinality(Restarting)
    BY <1>1, <1>3, CountMoves DEF Owed
  <2>2. Dying' => Dying BY <1>4, <1>5 DEF Dying
  <2>3. Dies' <= Dies /\ Dies' \in {0, 1} /\ Dies \in {0, 1} BY <2>2 DEF Dies
  <2>4. Armed' = Armed /\ Armed \in {0, 1} BY <1>4 DEF Armed
  <2> QED BY <1>1, <1>4, <2>1, <2>3, <2>4, Numbers, Counted, StaysPaid
<1> QED BY <1>4, <1>7, <1>8, <1>9, <1>10, <1>11 DEF IInv, Children, RestartLeft

LEMMA ResetBudgetKeeps == ASSUME IInv, NEW c \in Callers, ResetBudget(c) PROVE IInv'
<1> DEFINE r == [Idle EXCEPT !.at = "starting"]
<1>1. /\ callers[c].at = "resetting" /\ callers' = [callers EXCEPT ![c] = r]
      /\ restartCount' = 0 /\ sinceFailure' = Never /\ recent' = NoRestarts
      /\ UNCHANGED <<state, stopping, cmd, generation, proc, armed, cancelled, closed,
                     callback, other, sinceStart, sinceConflict, calls, crashes, faults>>
  BY DEF ResetBudget, child, links, spent
<1>2. TypeOK /\ Reports /\ Children BY DEF IInv
<1>3. r \in Calls /\ r.at = "starting" BY DEF Calls, Idle
<1> HIDE DEF r
<1>4. /\ callers' \in [Callers -> Calls]
      /\ \A d \in Callers : callers'[d] = IF d = c THEN r ELSE callers[d]
  BY <1>1, <1>2, <1>3, CallerMoves DEF TypeOK, Calls
<1>5. TypeOK'
  <2>1. restartCount' \in 0..MaxRestarts /\ sinceFailure' \in Never..(RestartWindow + 1)
    BY <1>1, BoundAssumption, WindowAssumption DEF Never
  <2>2. recent' \in [1..Remembered -> 0..RestartWindow] BY <1>1, WindowAssumption DEF NoRestarts
  <2> QED BY <1>1, <1>2, <1>4, <2>1, <2>2 DEF TypeOK, Calls
<1>6. Reports' BY <1>1, <1>2 DEF Reports, StopHolds, ReadyIsReady, StartingIsPending, Alive
<1>7. Children'
  BY <1>1, <1>2, <1>3, <1>4
  DEF Children, KilledIsClosed, OneProcess, CancelledIsClosed, Waiters, Waits
<1>8. RestartLeft'
  <2>1. restartCount \in 0..MaxRestarts /\ MaxRestarts \in Nat
    BY <1>2, BoundAssumption DEF TypeOK
  <2> QED BY <1>1, <2>1 DEF IInv, RestartLeft
<1>9. Paid'
  <2>1. /\ Cardinality(Restarting') \in Nat
        /\ Cardinality(Restarting') <= Cardinality(Restarting)
    BY <1>1, <1>2, <1>3, CountMoves DEF Owed
  <2>2. Dies' = Dies /\ Dies \in {0, 1} /\ Armed' = Armed /\ Armed \in {0, 1}
    BY <1>1 DEF Dies, Dying, Armed
  <2> QED BY <1>1, <1>2, <2>1, <2>2, Numbers, Counted, StaysPaid
<1> QED BY <1>5, <1>6, <1>7, <1>8, <1>9 DEF IInv

\* Restart's own Start: with a command it changes nothing, without one it spends its call.
LEMMA StartAgainKeeps == ASSUME IInv, NEW c \in Callers, StartAgain(c) PROVE IInv'
<1>1. callers[c].at = "starting" /\ callers' = [callers EXCEPT ![c] = Idle] BY DEF StartAgain
<1>2. TypeOK /\ Reports /\ Children BY DEF IInv
<1>3. Idle \in Calls /\ ~Owed(Idle) /\ Owed(callers[c]) /\ Idle.at = "idle"
  BY <1>1 DEF Calls, Idle, Owed
<1>4. /\ callers' \in [Callers -> Calls]
      /\ \A d \in Callers : callers'[d] = IF d = c THEN Idle ELSE callers[d]
  BY <1>1, <1>2, <1>3, CallerMoves DEF TypeOK, Calls
<1>5. \A d \in Callers : Waits(d)' => callers'[d] = callers[d] BY <1>3, <1>4 DEF Waits
<1>6. /\ Cardinality(Restarting) \in Nat /\ Cardinality(Restarting') \in Nat
      /\ Cardinality(Restarting') = Cardinality(Restarting) - 1
  BY <1>1, <1>2, <1>3, CountMoves
<1>7. CASE StartDown
  <2>1. /\ cmd = 0 /\ stopping' = FALSE /\ StartLocked(restartCount, FALSE)
        /\ UNCHANGED <<restartCount, other, sinceFailure, recent, crashes, calls>>
    BY <1>7 DEF StartAgain, StartDown
  <2>2. restartCount \in 0..MaxRestarts /\ FALSE \in BOOLEAN BY <1>2 DEF TypeOK
  <2>3. /\ NoChild(restartCount) \/ NewChild
        /\ faults' \in 0..MaxFaults
        /\ sinceStart' \in 0..HealthyReset /\ sinceConflict' \in Never..ConflictWindow
    BY <2>1, <2>2, StartsOrNot
  <2>4. AgesOK' /\ other' \in BOOLEAN BY <1>2, <2>1, <2>3 DEF AgesOK, TypeOK
  <2>5. generation + Cardinality(Restarting) <= calls + crashes
    <3>1. Armed \in {0, 1} /\ Dies \in {0, 1} BY DEF Armed, Dies
    <3> QED BY <1>2, <1>6, <3>1, Numbers DEF IInv, Paid
  <2>6. /\ calls' \in 0..MaxCalls /\ crashes' \in 0..MaxCrashes
        /\ generation + Cardinality(Restarting') + 1 <= calls' + crashes'
    BY <1>2, <1>6, <2>1, <2>5, Numbers
  <2> QED BY <1>4, <1>5, <1>6, <2>1, <2>2, <2>3, <2>4, <2>6, StartedKeeps
<1>8. CASE ~StartDown
  <2>1. UNCHANGED <<state, stopping, restartCount, cmd, generation, proc, armed, cancelled,
                    closed, callback, other, sinceStart, sinceFailure, sinceConflict, recent,
                    calls, crashes, faults>>
    BY <1>8 DEF StartAgain, child, links, ages, spent
  <2>2. TypeOK' BY <1>2, <1>4, <2>1 DEF TypeOK, Calls
  <2>3. Reports' BY <1>2, <2>1 DEF Reports, StopHolds, ReadyIsReady, StartingIsPending, Alive
  <2>4. Children'
    BY <1>2, <1>5, <2>1
    DEF Children, KilledIsClosed, OneProcess, CancelledIsClosed, Waiters, Waits
  <2>5. Paid'
    <3>1. Dies' = Dies /\ Dies \in {0, 1} /\ Armed' = Armed /\ Armed \in {0, 1}
      BY <2>1 DEF Dies, Dying, Armed
    <3> QED BY <1>2, <1>6, <2>1, <3>1, Numbers, StaysPaid
  <2> QED BY <2>1, <2>2, <2>3, <2>4, <2>5 DEF IInv, RestartLeft
<1> QED BY <1>7, <1>8

\* The previous instance leaves, time passes, or nothing happens.
LEMMA WorldKeeps == ASSUME IInv, OtherLeaves \/ Tick \/ UNCHANGED vars PROVE IInv'
<1>1. /\ UNCHANGED <<state, stopping, restartCount, cmd, generation, proc, armed,
                     cancelled, closed, callback, callers, calls, crashes, faults>>
  BY DEF OtherLeaves, Tick, vars, child, links, ages, spent
<1>2. TypeOK /\ Reports /\ Children BY DEF IInv
<1>3. other' \in BOOLEAN BY <1>2 DEF OtherLeaves, Tick, vars, TypeOK
<1>4. AgesOK'
  <2>1. AgesOK BY <1>2 DEF TypeOK, AgesOK
  <2>2. CASE Tick
    <3>1. \A limit \in Nat : \A age \in Never..limit : Older(age, limit) \in Never..limit
      BY DEF Never, Older
    <3>2. \A limit \in Nat : \A age \in 0..limit : Older(age, limit) \in 0..limit
      BY DEF Never, Older
    <3>3. /\ HealthyReset \in Nat /\ RestartWindow + 1 \in Nat /\ ConflictWindow \in Nat
          /\ 0 \in 0..HealthyReset
      BY WindowAssumption
    <3>4. /\ sinceStart' \in 0..HealthyReset
          /\ sinceFailure' \in Never..(RestartWindow + 1)
          /\ sinceConflict' \in Never..ConflictWindow
      BY <2>1, <2>2, <3>1, <3>2, <3>3 DEF Tick, AgesOK
    <3>5. recent' = [n \in 1..Remembered |-> Older(recent[n], RestartWindow)] BY <2>2 DEF Tick
    <3>6. \A n \in 1..Remembered : Older(recent[n], RestartWindow) \in 0..RestartWindow
      BY <2>1, <3>2, WindowAssumption DEF AgesOK
    <3>7. recent' \in [1..Remembered -> 0..RestartWindow] BY <3>5, <3>6
    <3> QED BY <3>4, <3>7 DEF AgesOK
  <2>3. CASE ~Tick
    <3>1. UNCHANGED <<sinceStart, sinceFailure, sinceConflict, recent>>
      BY <2>3 DEF OtherLeaves, vars, ages
    <3> QED BY <2>1, <3>1 DEF AgesOK
  <2> QED BY <2>2, <2>3
<1>5. TypeOK' BY <1>1, <1>2, <1>3, <1>4 DEF TypeOK, AgesOK
<1>6. Reports' BY <1>1, <1>2 DEF Reports, StopHolds, ReadyIsReady, StartingIsPending, Alive
<1>7. Children'
  BY <1>1, <1>2 DEF Children, KilledIsClosed, OneProcess, CancelledIsClosed, Waiters, Waits
<1>8. Paid'
  <2>1. Dies' = Dies /\ Dies \in {0, 1} /\ Armed' = Armed /\ Armed \in {0, 1}
    BY <1>1 DEF Dies, Dying, Armed
  <2> QED BY <1>1, <1>2, <2>1, Numbers, SameCallers, StaysPaid
<1> QED BY <1>1, <1>5, <1>6, <1>7, <1>8 DEF IInv, RestartLeft

LEMMA StepKeeps == IInv /\ [Next]_vars => IInv'
<1> SUFFICES ASSUME IInv, [Next]_vars PROVE IInv'
  OBVIOUS
<1>1. CASE Start \/ FireRestart \/ FireConflict BY <1>1, StartKeeps, FireKeeps
<1>2. CASE ChildExits \/ PeerCloses \/ Wait BY <1>2, ChildExitsKeeps, PeerClosesKeeps, WaitKeeps
<1>3. ASSUME NEW g \in Generations, ServeEnds(g) \/ CallbackStep(g) PROVE IInv'
  BY <1>3, ServeEndsKeeps, AnsweredKeeps, SetConfiguredKeeps, ConnectedKeeps DEF CallbackStep
<1>4. ASSUME NEW c \in Callers, Caller(c) PROVE IInv'
  BY <1>4, BeginStopKeeps, WaitingKeeps, ResetBudgetKeeps, StartAgainKeeps DEF Caller
<1>5. CASE OtherLeaves \/ Tick \/ UNCHANGED vars BY <1>5, WorldKeeps
<1> QED BY <1>1, <1>2, <1>3, <1>4, <1>5 DEF Next

\* The inductive invariant of the supervisor: the one from which all that follows is read off.
THEOREM SupervisorInvariant == Spec => []IInv
<1>1. Init => IInv BY InitHolds
<1>2. IInv /\ [Next]_vars => IInv' BY StepKeeps
<1> QED BY <1>1, <1>2, PTL DEF Spec

\* The state of the supervisor is of its type; with it, no more children are ever started than
\* there were calls and crashes to start them for (startLocked, scheduleRestartLocked).
THEOREM SupervisorTypeOK == Spec => []TypeOK
<1>1. IInv => TypeOK BY DEF IInv
<1> QED BY <1>1, SupervisorInvariant, PTL

\* Once Stop was called nothing brings the child back until a Start, and no timer runs beside a
\* child (Stop, scheduleRestartLocked, startLocked).
THEOREM StopAlwaysHolds == Spec => []StopHolds
<1>1. IInv => StopHolds BY DEF IInv, Reports
<1> QED BY <1>1, SupervisorInvariant, PTL

\* What is reported ready is ready: its context lives and its callback has succeeded
\* (connected, SetConfigured).
THEOREM ReadyIsAlwaysReady == Spec => []ReadyIsReady
<1>1. IInv => ReadyIsReady BY DEF IInv, Reports
<1> QED BY <1>1, SupervisorInvariant, PTL

\* What is reported starting has a callback, or the end of its connection, still before it
\* (startLocked, connected, servePeer).
THEOREM StartingIsAlwaysPending == Spec => []StartingIsPending
<1>1. IInv => StartingIsPending BY DEF IInv, Reports
<1> QED BY <1>1, SupervisorInvariant, PTL

\* No child is killed but the one whose connection is over: never the next generation for a
\* failure of an earlier one, nor for a Stop that waited for an earlier one (servePeer, Stop).
THEOREM OnlyClosedIsKilled == Spec => []KilledIsClosed
<1>1. IInv => KilledIsClosed BY DEF IInv, Children
<1> QED BY <1>1, SupervisorInvariant, PTL

ChildrenArePaidFor == generation <= calls + crashes

\* No generation starts by itself: whatever stops, timers, failed starts and conflicts come
\* between, there are never more children than calls of Start and Restart and crashes.
THEOREM ChildrenAlwaysPaidFor == Spec => []ChildrenArePaidFor
<1>1. IInv => ChildrenArePaidFor
  <2> SUFFICES ASSUME IInv PROVE generation <= calls + crashes
    BY DEF ChildrenArePaidFor
  <2>1. TypeOK /\ Armed \in {0, 1} /\ Dies \in {0, 1} BY DEF IInv, Armed, Dies
  <2> QED BY <2>1, Numbers, Counted DEF IInv, Paid
<1> QED BY <1>1, SupervisorInvariant, PTL

(* The restarts of a window. Those since it began are counted; those before it are at least as *)
(* old as it is, and when it ends they are out of the next one.                                *)

Out(age, since) == age = RestartWindow \/ age >= since

Windows ==
  /\ cmd = 0 => sinceStart = 0
  /\ \A n \in 1..Remembered :
       /\ Out(recent[n], sinceStart)
       /\ n > restartCount =>
            recent[n] = RestartWindow \/ (sinceFailure # Never /\ recent[n] >= sinceFailure)
       /\ n > restartCount + MaxRestarts => recent[n] = RestartWindow

WindowTypes ==
  /\ restartCount \in Nat /\ restartCount <= MaxRestarts /\ MaxRestarts \in Nat
  /\ Remembered = 2 * MaxRestarts + 1 /\ Remembered \in Nat
  /\ RestartWindow \in Nat \ {0} /\ HealthyReset \in Nat /\ HealthyReset >= RestartWindow
  /\ sinceStart \in 0..HealthyReset /\ sinceFailure \in Never..(RestartWindow + 1)
  /\ recent \in [1..Remembered -> 0..RestartWindow]

LEMMA WindowsAreTyped == ASSUME IInv PROVE WindowTypes
BY BoundAssumption, WindowAssumption DEF IInv, TypeOK, WindowTypes, Remembered

LEMMA WindowsBegin == ASSUME Init PROVE Windows
<1>1. /\ sinceStart = 0 /\ recent = [n \in 1..Remembered |-> RestartWindow]
  BY DEF Init, NoRestarts
<1> QED BY <1>1 DEF Windows, Out

\* Whoever starts a child leaves the window as it is.
LEMMA WindowsOfStarts ==
  ASSUME IInv, Windows, NEW count, NEW retry, cmd = 0, StartLocked(count, retry)
  PROVE  sinceStart' = 0
BY DEF Windows, StartLocked, AwaitInstance, SpawnFails, Spawn

LEMMA WindowsElsewhere ==
  ASSUME IInv, Windows, UNCHANGED <<restartCount, sinceFailure, recent>>,
         sinceStart' = 0 \/ UNCHANGED <<cmd, sinceStart>>
  PROVE  Windows'
BY WindowsAreTyped DEF Windows, WindowTypes, Out

LEMMA WindowsAtRestart == ASSUME IInv, Windows, FireRestart PROVE Windows'
<1> USE DEF Out
<1>1. /\ cmd = 0 /\ restartCount' = restartCount + 1 /\ sinceFailure' = sinceFailure
      /\ recent' = [n \in 1..Remembered |-> IF n = 1 THEN 0 ELSE recent[n - 1]]
      /\ StartLocked(restartCount', TRUE)
  BY DEF FireRestart
<1>2. sinceStart' = 0 BY <1>1, WindowsOfStarts
<1>3. WindowTypes BY WindowsAreTyped
<1>4. ASSUME NEW n \in 1..Remembered
      PROVE  /\ Out(recent'[n], sinceStart')
             /\ n > restartCount' =>
                  \/ recent'[n] = RestartWindow
                  \/ sinceFailure' # Never /\ recent'[n] >= sinceFailure'
             /\ n > restartCount' + MaxRestarts => recent'[n] = RestartWindow
  <2>1. CASE n = 1 BY <1>1, <1>2, <1>3, <2>1 DEF WindowTypes
  <2>2. CASE n # 1
    <3>1. n - 1 \in 1..Remembered /\ recent'[n] = recent[n - 1] /\ n \in Nat
      BY <1>1, <1>3, <2>2 DEF WindowTypes
    <3>2. recent[n - 1] \in 0..RestartWindow BY <1>3, <3>1 DEF WindowTypes
    <3> QED BY <1>1, <1>2, <1>3, <3>1, <3>2 DEF Windows, WindowTypes
  <2> QED BY <2>1, <2>2
<1> QED BY <1>2, <1>4 DEF Windows

\* A window that ends leaves none of the restarts before it in the next one.
LEMMA WindowsAtFailure == ASSUME IInv, Windows, Wait PROVE Windows'
<1> USE DEF Out
<1>1. sinceStart' = 0 /\ recent' = recent BY DEF Wait
<1>2. WindowTypes BY WindowsAreTyped
<1>3. CASE UNCHANGED <<restartCount, sinceFailure>> BY <1>1, <1>3, WindowsElsewhere
<1>4. CASE NewWindow /\ restartCount' = 0 /\ sinceFailure' = 0
  <2> SUFFICES ASSUME NEW n \in 1..Remembered, n > MaxRestarts PROVE recent[n] = RestartWindow
    BY <1>1, <1>2, <1>4 DEF Windows, WindowTypes, Never
  <2>1. n \in Nat /\ n > restartCount /\ recent[n] \in 0..RestartWindow BY <1>2 DEF WindowTypes
  <2>2. CASE Healthy BY <1>2, <2>1, <2>2 DEF Windows, WindowTypes, Healthy
  <2>3. CASE sinceFailure = Never BY <2>1, <2>3 DEF Windows
  <2>4. CASE sinceFailure > RestartWindow BY <1>2, <2>1, <2>4 DEF Windows, WindowTypes, Never
  <2> QED BY <1>4, <2>2, <2>3, <2>4 DEF NewWindow
<1> QED BY <1>3, <1>4 DEF Wait

LEMMA WindowsGrowOlder == ASSUME IInv, Windows, Tick PROVE Windows'
<1>1. /\ sinceStart' = IF cmd = 0 THEN 0 ELSE Older(sinceStart, HealthyReset)
      /\ sinceFailure' = Older(sinceFailure, RestartWindow + 1)
      /\ recent' = [n \in 1..Remembered |-> Older(recent[n], RestartWindow)]
      /\ UNCHANGED <<cmd, restartCount>>
  BY DEF Tick, child
<1>2. WindowTypes BY WindowsAreTyped
<1>3. ASSUME NEW n \in 1..Remembered
      PROVE  /\ Out(recent'[n], sinceStart')
             /\ n > restartCount' =>
                  \/ recent'[n] = RestartWindow
                  \/ sinceFailure' # Never /\ recent'[n] >= sinceFailure'
             /\ n > restartCount' + MaxRestarts => recent'[n] = RestartWindow
  <2>1. recent'[n] = Older(recent[n], RestartWindow) /\ recent[n] \in 0..RestartWindow
    BY <1>1, <1>2 DEF WindowTypes
  <2>2. recent'[n] = IF recent[n] = RestartWindow THEN RestartWindow ELSE recent[n] + 1
    BY <1>2, <2>1 DEF Older, Never, WindowTypes
  <2>3. Out(recent'[n], sinceStart')
    BY <1>1, <1>2, <2>1, <2>2 DEF Windows, WindowTypes, Out, Older, Never
  <2>4. n > restartCount =>
          \/ recent'[n] = RestartWindow
          \/ sinceFailure' # Never /\ recent'[n] >= sinceFailure'
    BY <1>1, <1>2, <2>1, <2>2 DEF Windows, WindowTypes, Older, Never
  <2> QED BY <1>1, <1>2, <2>2, <2>3, <2>4 DEF Windows
<1> QED BY <1>1, <1>3 DEF Windows

LEMMA WindowsStep == IInv /\ Windows /\ [Next]_vars => Windows'
<1> SUFFICES ASSUME IInv, Windows, [Next]_vars PROVE Windows'
  OBVIOUS
<1>1. CASE Start BY <1>1, WindowsOfStarts, WindowsElsewhere DEF Start, StartDown
<1>2. CASE FireConflict BY <1>2, WindowsOfStarts, WindowsElsewhere DEF FireConflict
<1>3. CASE FireRestart BY <1>3, WindowsAtRestart
<1>4. CASE Wait BY <1>4, WindowsAtFailure
<1>5. CASE Tick BY <1>5, WindowsGrowOlder
<1>6. CASE ChildExits \/ PeerCloses \/ OtherLeaves \/ UNCHANGED vars
  BY <1>6, WindowsElsewhere DEF ChildExits, PeerCloses, OtherLeaves, vars, ages, child
<1>7. ASSUME NEW g \in Generations, ServeEnds(g) \/ CallbackStep(g) PROVE Windows'
  BY <1>7, WindowsElsewhere
  DEF ServeEnds, CallbackStep, Answered, CallFails, SetConfigured, Connected, ages, child
<1>8. ASSUME NEW c \in Callers, Caller(c) PROVE Windows'
  <2>1. CASE StartAgain(c)
    BY <2>1, WindowsOfStarts, WindowsElsewhere DEF StartAgain, StartDown, ages, child
  <2>2. CASE ResetBudget(c)
    <3>1. /\ sinceStart' = sinceStart /\ cmd' = cmd
          /\ recent' = [n \in 1..Remembered |-> RestartWindow]
      BY <2>2 DEF ResetBudget, NoRestarts, child
    <3> QED BY <3>1 DEF Windows, Out
  <2>3. CASE (\E restart \in BOOLEAN : BeginStop(c, restart)) \/ StopDone(c) \/ Deadline(c)
             \/ GiveUp(c)
    BY <2>3, WindowsElsewhere DEF BeginStop, StopDone, Deadline, GiveUp, ages, child
  <2> QED BY <1>8, <2>1, <2>2, <2>3 DEF Caller
<1> QED BY <1>1, <1>2, <1>3, <1>4, <1>5, <1>6, <1>7, <1>8 DEF Next

\* However windows begin and end, callers give new budgets and children fail, no more than two
\* budgets of automatic restarts fall into one restartWindow (scheduleRestartLocked, wait).
THEOREM RestartsStayBounded == Spec => []RestartsBounded
<1>1. IInv /\ Windows => RestartsBounded
  <2> SUFFICES ASSUME IInv, Windows PROVE RestartsBounded
    OBVIOUS
  <2>1. WindowTypes BY WindowsAreTyped
  <2>2. Remembered \in 1..Remembered /\ Remembered > restartCount + MaxRestarts
    BY <2>1 DEF WindowTypes
  <2> QED BY <2>2 DEF Windows, RestartsBounded
<1>2. Init => Windows BY WindowsBegin
<1>3. IInv /\ Windows /\ [Next]_vars => Windows' BY WindowsStep
<1> QED BY <1>1, <1>2, <1>3, SupervisorInvariant, PTL DEF Spec

(* The private connection *)

PeerBounds ==
  /\ PeerPending \in Nat /\ PeerHandlers \in Nat /\ PeerWrites \in Nat /\ PeerWire \in Nat
  /\ \A c \in PeerCalls : PeerOf(c) \in P!Ends

Pcs == {"idle", "enqueue", "queued", "waiting", "returned"}
HandlerPcs == {"none", "started", "running", "answer", "queued", "over"}
Told == {"nothing", "result", "busy", "unsent", "ended", "closed", "sent"}
CallerType == [pc : Pcs, notice : BOOLEAN, done : {"no", "ok", "failed"}, told : Told]
HandlerType == [pc : HandlerPcs, run : BOOLEAN]

\* What an end writes: its own calls, and the replies to those of the other.
Written(s) ==
  {f \in [kind : {"request", "notice", "reply", "cancel"}, call : PeerCalls,
          what : {"call", "cancel", "result", "busy"}] :
     IF f.kind = "reply" THEN PeerOf(f.call) = P!Other(s) /\ f.what \in {"result", "busy"}
     ELSE PeerOf(f.call) = s}

AsksFor(f, c) == f.kind \in {"request", "notice"} /\ f.call = c
NoAsk(q, c) == \A i \in 1 .. Len(q) : ~AsksFor(q[i], c)
OneAskIn(q, c) == \A i, j \in 1 .. Len(q) : AsksFor(q[i], c) /\ AsksFor(q[j], c) => i = j
Has(q, f) == \E i \in 1 .. Len(q) : q[i] = f

Reply(c, what) == P!Frame("reply", c, what)
Replied(c, what) == \E s \in P!Ends : Has(writes[s], Reply(c, what)) \/ Has(wire[s], Reply(c, what))

\* A call is in one place at most, on its way.
AskedOnce(c) ==
  /\ OneAskIn(writes[PeerOf(c)], c) /\ OneAskIn(wire[PeerOf(c)], c)
  /\ NoAsk(writes[PeerOf(c)], c) \/ NoAsk(wire[PeerOf(c)], c)

Unasked(c) == NoAsk(writes[PeerOf(c)], c) /\ NoAsk(wire[PeerOf(c)], c)
Unheard(c) == Unasked(c) /\ handler[c].pc = "none"
Refused(c) == Replied(c, "busy") \/ response[c] = "busy" \/ caller[c].told = "busy"
Carried(c) == Replied(c, "result") \/ response[c] = "result" \/ caller[c].told = "result"

\* Who was refused was not heard, and is not again; a result is that of a handler that ran.
CallIsTrue(c) ==
  /\ AskedOnce(c)
  /\ handler[c].pc # "none" => Unasked(c)
  /\ handler[c].pc = "none" => ~handler[c].run
  /\ handler[c].pc \in {"running", "answer", "queued"} => handler[c].run
  /\ caller[c].pc \in {"idle", "enqueue"} => Unheard(c)
  /\ caller[c].told = "unsent" => Unheard(c)
  /\ Refused(c) => Unheard(c)
  /\ Refused(c) \/ caller[c].told = "unsent" => caller[c].pc \notin {"idle", "enqueue"}
  /\ Carried(c) => handler[c].run

QueuesTyped ==
  /\ DOMAIN writes = P!Ends /\ writes = [s \in P!Ends |-> writes[s]]
  /\ DOMAIN wire = P!Ends /\ wire = [s \in P!Ends |-> wire[s]]
  /\ \A s \in P!Ends : /\ writes[s] \in Seq(Written(s)) /\ wire[s] \in Seq(Written(s))
                       /\ Len(writes[s]) <= PeerWrites /\ Len(wire[s]) <= PeerWire

PeersTyped ==
  /\ caller \in [PeerCalls -> CallerType] /\ handler \in [PeerCalls -> HandlerType]
  /\ response \in [PeerCalls -> {"nothing", "result", "busy"}]
  /\ pending \in [P!Ends -> SUBSET PeerCalls]

SlotsOf(s) == {c \in PeerCalls : PeerOf(c) # s /\ handler[c].pc \notin {"none", "over"}}

PeersBounded ==
  \A s \in P!Ends :
    /\ IsFiniteSet(pending[s]) /\ Cardinality(pending[s]) <= PeerPending
    /\ IsFiniteSet(SlotsOf(s)) /\ Cardinality(SlotsOf(s)) <= PeerHandlers
    /\ \A c \in pending[s] : PeerOf(c) = s /\ caller[c].pc \notin {"idle", "returned"}

PeersInv == QueuesTyped /\ PeersTyped /\ PeersBounded /\ \A c \in PeerCalls : CallIsTrue(c)

LEMMA FrameAppended ==
  ASSUME NEW F, NEW q \in Seq(F), NEW f \in F
  PROVE  /\ Append(q, f) \in Seq(F) /\ Len(Append(q, f)) = Len(q) + 1
         /\ \A c : NoAsk(q, c) /\ ~AsksFor(f, c) => NoAsk(Append(q, f), c)
         /\ \A c : OneAskIn(q, c) /\ (NoAsk(q, c) \/ ~AsksFor(f, c)) => OneAskIn(Append(q, f), c)
         /\ \A g : Has(Append(q, f), g) => Has(q, g) \/ g = f
<1> DEFINE a == Append(q, f)
<1>1. /\ a \in Seq(F) /\ Len(a) = Len(q) + 1 /\ Len(q) \in Nat
      /\ \A i \in 1 .. Len(a) : a[i] = IF i = Len(a) THEN f ELSE q[i]
      /\ \A i \in 1 .. Len(a) : i # Len(a) => i \in 1 .. Len(q)
  OBVIOUS
<1> HIDE DEF a
<1>2. \A c : NoAsk(q, c) /\ ~AsksFor(f, c) => NoAsk(a, c) BY <1>1 DEF NoAsk
<1>3. \A c : OneAskIn(q, c) /\ (NoAsk(q, c) \/ ~AsksFor(f, c)) => OneAskIn(a, c)
  BY <1>1 DEF NoAsk, OneAskIn
<1>4. \A g : Has(a, g) => Has(q, g) \/ g = f BY <1>1 DEF Has
<1> QED BY <1>1, <1>2, <1>3, <1>4 DEF a

LEMMA FrameTaken ==
  ASSUME NEW F, NEW q \in Seq(F), q # <<>>
  PROVE  /\ Head(q) \in F /\ Tail(q) \in Seq(F) /\ Len(Tail(q)) = Len(q) - 1 /\ Has(q, Head(q))
         /\ \A c : NoAsk(q, c) => NoAsk(Tail(q), c) /\ ~AsksFor(Head(q), c)
         /\ \A c : OneAskIn(q, c) => OneAskIn(Tail(q), c)
         /\ \A c : OneAskIn(q, c) /\ AsksFor(Head(q), c) => NoAsk(Tail(q), c)
         /\ \A g : Has(Tail(q), g) => Has(q, g)
<1> DEFINE a == Tail(q)
           h == Head(q)
<1>1. /\ a \in Seq(F) /\ Len(a) = Len(q) - 1 /\ Len(q) \in Nat /\ Len(q) > 0 /\ h \in F /\ h = q[1]
      /\ \A i \in 1 .. Len(a) : a[i] = q[i + 1]
  OBVIOUS
<1> HIDE DEF a, h
<1>2. 1 \in 1 .. Len(q) /\ \A i \in 1 .. Len(a) : i + 1 \in 1 .. Len(q) /\ i + 1 # 1 BY <1>1
<1>3. /\ Has(q, h) /\ \A g : Has(a, g) => Has(q, g)
  BY <1>1, <1>2 DEF Has
<1>4. \A c : NoAsk(q, c) => NoAsk(a, c) /\ ~AsksFor(h, c) BY <1>1, <1>2 DEF NoAsk
<1>5. \A c : OneAskIn(q, c) => OneAskIn(a, c)
  <2> SUFFICES ASSUME NEW c, OneAskIn(q, c), NEW i \in 1 .. Len(a), NEW j \in 1 .. Len(a),
                      AsksFor(a[i], c), AsksFor(a[j], c)
               PROVE  i = j
    BY DEF OneAskIn
  <2>1. i + 1 = j + 1 BY <1>1, <1>2 DEF OneAskIn
  <2> QED BY <2>1
<1>6. \A c : OneAskIn(q, c) /\ AsksFor(h, c) => NoAsk(a, c) BY <1>1, <1>2 DEF OneAskIn, NoAsk
<1> QED BY <1>1, <1>3, <1>4, <1>5, <1>6 DEF a, h

\* What is asked of the other end is no more than it was, and nothing new is answered.
QueuesKept(c) == (AskedOnce(c) => AskedOnce(c)') /\ (Unasked(c) => Unasked(c)')
Less(q, r) == /\ \A c : NoAsk(r, c) => NoAsk(q, c)
              /\ \A c : OneAskIn(r, c) => OneAskIn(q, c)
              /\ \A g : Has(q, g) => Has(r, g)

LEMMA EndsDiffer == \A s \in P!Ends : P!Other(s) \in P!Ends /\ P!Other(s) # s /\ P!Other(P!Other(s)) = s
BY DEF P!Ends, P!Other

LEMMA QueueSet ==
  ASSUME NEW q, DOMAIN q = P!Ends, q = [s \in P!Ends |-> q[s]], NEW s \in P!Ends, NEW v
  PROVE  LET r == [q EXCEPT ![s] = v]
         IN /\ DOMAIN r = P!Ends /\ r = [t \in P!Ends |-> r[t]]
            /\ r[s] = v /\ \A t \in P!Ends : t # s => r[t] = q[t]
OBVIOUS

LEMMA LessKeeps ==
  ASSUME \A s \in P!Ends : Less(writes'[s], writes[s]) /\ Less(wire'[s], wire[s]),
         PeerBounds, NEW c \in PeerCalls
  PROVE  QueuesKept(c) /\ \A what : Replied(c, what)' => Replied(c, what)
<1>1. PeerOf(c) \in P!Ends BY DEF PeerBounds
<1>2. QueuesKept(c) BY <1>1 DEF Less, QueuesKept, AskedOnce, Unasked
<1>3. \A what : Replied(c, what)' => Replied(c, what) BY DEF Less, Replied
<1> QED BY <1>2, <1>3

\* A frame is put in the queue.
LEMMA Enqueued ==
  ASSUME PeerBounds, QueuesTyped, NEW s \in P!Ends, NEW f \in Written(s), Len(writes[s]) < PeerWrites,
         writes' = [writes EXCEPT ![s] = Append(writes[s], f)], wire' = wire
  PROVE  /\ QueuesTyped'
         /\ \A c \in PeerCalls :
              /\ AsksFor(f, c) /\ Unasked(c) => AskedOnce(c)'
              /\ ~AsksFor(f, c) => QueuesKept(c)
              /\ \A what : Replied(c, what)' => Replied(c, what) \/ f = Reply(c, what)
<1> DEFINE q == Append(writes[s], f)
<1>1. /\ q \in Seq(Written(s)) /\ Len(q) = Len(writes[s]) + 1
      /\ \A c : NoAsk(writes[s], c) /\ ~AsksFor(f, c) => NoAsk(q, c)
      /\ \A c : OneAskIn(writes[s], c) /\ (NoAsk(writes[s], c) \/ ~AsksFor(f, c)) => OneAskIn(q, c)
      /\ \A g : Has(q, g) => Has(writes[s], g) \/ g = f
  <2>1. writes[s] \in Seq(Written(s)) BY DEF QueuesTyped
  <2> QED BY <2>1, FrameAppended
<1> HIDE DEF q
<1>2. /\ DOMAIN writes' = P!Ends /\ writes' = [t \in P!Ends |-> writes'[t]]
      /\ writes'[s] = q /\ \A t \in P!Ends : t # s => writes'[t] = writes[t]
  BY QueueSet DEF QueuesTyped, q
<1>3. \A t \in P!Ends : writes'[t] \in Seq(Written(t)) /\ Len(writes'[t]) <= PeerWrites
  <2>1. Len(q) <= PeerWrites
    <3>1. Len(writes[s]) \in Nat /\ PeerWrites \in Nat BY DEF QueuesTyped, PeerBounds
    <3> QED BY <1>1, <3>1
  <2> QED BY <1>1, <1>2, <2>1 DEF QueuesTyped
<1>4. QueuesTyped' BY <1>2, <1>3 DEF QueuesTyped, Written
<1>5. ASSUME NEW c \in PeerCalls
      PROVE  /\ AsksFor(f, c) /\ Unasked(c) => AskedOnce(c)'
             /\ ~AsksFor(f, c) => QueuesKept(c)
             /\ \A what : Replied(c, what)' => Replied(c, what) \/ f = Reply(c, what)
  <2>1. PeerOf(c) \in P!Ends BY DEF PeerBounds
  <2>2. \A what : Replied(c, what)' => Replied(c, what) \/ f = Reply(c, what)
    BY <1>1, <1>2 DEF Replied
  <2>3. AsksFor(f, c) /\ Unasked(c) => AskedOnce(c)'
    <3>1. AsksFor(f, c) => PeerOf(c) = s BY DEF AsksFor, Written
    <3>2. \A r : NoAsk(r, c) => OneAskIn(r, c) BY DEF NoAsk, OneAskIn
    <3> QED BY <1>1, <1>2, <2>1, <3>1, <3>2 DEF Unasked, AskedOnce
  <2>4. ~AsksFor(f, c) => QueuesKept(c) BY <1>1, <1>2, <2>1 DEF QueuesKept, Unasked, AskedOnce
  <2> QED BY <2>2, <2>3, <2>4
<1> QED BY <1>4, <1>5

\* The first frame of the queue is dropped, or written.
LEMMA Dropped ==
  ASSUME PeerBounds, QueuesTyped, NEW s \in P!Ends, writes[s] # <<>>,
         writes' = [writes EXCEPT ![s] = Tail(writes[s])],
         \/ wire' = wire
         \/ Len(wire[s]) < PeerWire /\ wire' = [wire EXCEPT ![s] = Append(wire[s], Head(writes[s]))]
  PROVE  /\ QueuesTyped'
         /\ \A c \in PeerCalls : /\ QueuesKept(c)
                                 /\ \A what : Replied(c, what)' => Replied(c, what)
<1> DEFINE q == Tail(writes[s])
           f == Head(writes[s])
           x == Append(wire[s], f)
<1>1. /\ f \in Written(s) /\ q \in Seq(Written(s)) /\ Len(q) = Len(writes[s]) - 1 /\ Has(writes[s], f)
      /\ \A c : NoAsk(writes[s], c) => NoAsk(q, c) /\ ~AsksFor(f, c)
      /\ \A c : OneAskIn(writes[s], c) => OneAskIn(q, c)
      /\ \A c : OneAskIn(writes[s], c) /\ AsksFor(f, c) => NoAsk(q, c)
      /\ \A g : Has(q, g) => Has(writes[s], g)
  <2>1. writes[s] \in Seq(Written(s)) BY DEF QueuesTyped
  <2> QED BY <2>1, FrameTaken
<1> HIDE DEF f
<1>2. /\ x \in Seq(Written(s)) /\ Len(x) = Len(wire[s]) + 1
      /\ \A c : NoAsk(wire[s], c) /\ ~AsksFor(f, c) => NoAsk(x, c)
      /\ \A c : OneAskIn(wire[s], c) /\ (NoAsk(wire[s], c) \/ ~AsksFor(f, c)) => OneAskIn(x, c)
      /\ \A g : Has(x, g) => Has(wire[s], g) \/ g = f
  <2>1. wire[s] \in Seq(Written(s)) BY DEF QueuesTyped
  <2> QED BY <1>1, <2>1, FrameAppended
<1>3. wire' = wire \/ (Len(wire[s]) < PeerWire /\ wire' = [wire EXCEPT ![s] = x]) BY DEF f
<1>4. \A c \in PeerCalls : PeerOf(c) \in P!Ends BY DEF PeerBounds
<1> HIDE DEF q, x
<1>5. /\ DOMAIN writes' = P!Ends /\ writes' = [t \in P!Ends |-> writes'[t]]
      /\ writes'[s] = q /\ \A t \in P!Ends : t # s => writes'[t] = writes[t]
  BY QueueSet DEF QueuesTyped, q
<1>6. \A t \in P!Ends : writes'[t] \in Seq(Written(t)) /\ Len(writes'[t]) <= PeerWrites
  <2>1. Len(q) <= PeerWrites
    <3>1. Len(writes[s]) \in Nat /\ PeerWrites \in Nat /\ Len(writes[s]) <= PeerWrites
      BY DEF QueuesTyped, PeerBounds
    <3> QED BY <1>1, <3>1
  <2> QED BY <1>1, <1>5, <2>1 DEF QueuesTyped
<1>7. CASE wire' = wire
  <2>1. QueuesTyped' BY <1>5, <1>6, <1>7 DEF QueuesTyped, Written
  <2>2. \A t \in P!Ends : Less(writes'[t], writes[t]) /\ Less(wire'[t], wire[t])
    BY <1>1, <1>5, <1>7 DEF Less
  <2> QED BY <2>1, <2>2, LessKeeps
<1>8. CASE Len(wire[s]) < PeerWire /\ wire' = [wire EXCEPT ![s] = x]
  <2>1. /\ DOMAIN wire' = P!Ends /\ wire' = [t \in P!Ends |-> wire'[t]]
        /\ wire'[s] = x /\ \A t \in P!Ends : t # s => wire'[t] = wire[t]
    BY <1>8, QueueSet DEF QueuesTyped
  <2>2. \A t \in P!Ends : wire'[t] \in Seq(Written(t)) /\ Len(wire'[t]) <= PeerWire
    <3>1. Len(x) <= PeerWire
      <4>1. Len(wire[s]) \in Nat /\ PeerWire \in Nat BY DEF QueuesTyped, PeerBounds
      <4> QED BY <1>2, <1>8, <4>1
    <3> QED BY <1>2, <2>1, <3>1 DEF QueuesTyped
  <2>3. QueuesTyped' BY <1>5, <1>6, <2>1, <2>2 DEF QueuesTyped, Written
  <2>4. ASSUME NEW c \in PeerCalls PROVE QueuesKept(c)
    BY <1>1, <1>2, <1>4, <1>5, <2>1 DEF QueuesKept, AskedOnce, Unasked
  <2>5. ASSUME NEW c \in PeerCalls, NEW what PROVE Replied(c, what)' => Replied(c, what)
    BY <1>1, <1>2, <1>5, <2>1 DEF Replied
  <2> QED BY <2>3, <2>4, <2>5
<1> QED BY <1>3, <1>7, <1>8

\* A frame is read, and perhaps refused.
LEMMA Received ==
  ASSUME PeerBounds, QueuesTyped, NEW s \in P!Ends, NEW o \in P!Ends, o = P!Other(s), wire[o] # <<>>,
         wire' = [wire EXCEPT ![o] = Tail(wire[o])],
         \/ writes' = writes
         \/ /\ AsksFor(Head(wire[o]), Head(wire[o]).call) /\ Len(writes[s]) < PeerWrites
            /\ writes' = [writes EXCEPT ![s] = Append(writes[s], Reply(Head(wire[o]).call, "busy"))]
  PROVE  /\ QueuesTyped' /\ Head(wire[o]) \in Written(o) /\ Has(wire[o], Head(wire[o]))
         /\ \A c \in PeerCalls :
              /\ QueuesKept(c)
              /\ AsksFor(Head(wire[o]), c) => PeerOf(c) = o /\ ~Unasked(c)
              /\ AskedOnce(c) /\ AsksFor(Head(wire[o]), c) => Unasked(c)'
              /\ \A what : Replied(c, what)' => \/ Replied(c, what)
                                                \/ writes' # writes /\ what = "busy" /\ AsksFor(Head(wire[o]), c)
<1> DEFINE q == Tail(wire[o])
           f == Head(wire[o])
           b == Reply(f.call, "busy")
           x == Append(writes[s], b)
<1>1. /\ f \in Written(o) /\ q \in Seq(Written(o)) /\ Len(q) = Len(wire[o]) - 1 /\ Has(wire[o], f)
      /\ \A c : NoAsk(wire[o], c) => NoAsk(q, c) /\ ~AsksFor(f, c)
      /\ \A c : OneAskIn(wire[o], c) => OneAskIn(q, c)
      /\ \A c : OneAskIn(wire[o], c) /\ AsksFor(f, c) => NoAsk(q, c)
      /\ \A g : Has(q, g) => Has(wire[o], g)
  <2>1. wire[o] \in Seq(Written(o)) BY DEF QueuesTyped
  <2> QED BY <2>1, FrameTaken
<1>2. \/ writes' = writes
      \/ /\ AsksFor(f, f.call) /\ Len(writes[s]) < PeerWrites
         /\ writes' = [writes EXCEPT ![s] = x]
  OBVIOUS
<1> HIDE DEF f
<1>3. AsksFor(f, f.call) => b \in Written(s)
  <2>1. AsksFor(f, f.call) => f.call \in PeerCalls /\ PeerOf(f.call) = o
    BY <1>1 DEF AsksFor, Written
  <2> QED BY <2>1 DEF Reply, P!Frame, Written
<1>4. AsksFor(f, f.call) =>
        /\ x \in Seq(Written(s)) /\ Len(x) = Len(writes[s]) + 1
        /\ \A c : NoAsk(writes[s], c) /\ ~AsksFor(b, c) => NoAsk(x, c)
        /\ \A c : OneAskIn(writes[s], c) /\ (NoAsk(writes[s], c) \/ ~AsksFor(b, c)) => OneAskIn(x, c)
        /\ \A g : Has(x, g) => Has(writes[s], g) \/ g = b
  <2>1. writes[s] \in Seq(Written(s)) BY DEF QueuesTyped
  <2> QED BY <1>3, <2>1, FrameAppended
<1>5. \A c : ~AsksFor(b, c) BY DEF AsksFor, Reply, P!Frame
<1>6. \A c \in PeerCalls : PeerOf(c) \in P!Ends /\ (AsksFor(f, c) => PeerOf(c) = o /\ f.call = c)
  BY <1>1 DEF PeerBounds, AsksFor, Written
<1>7. \A c, what : b = Reply(c, what) => c = f.call /\ what = "busy" BY DEF Reply, P!Frame
<1> HIDE DEF q, x, b
<1>8. /\ DOMAIN wire' = P!Ends /\ wire' = [t \in P!Ends |-> wire'[t]]
      /\ wire'[o] = q /\ \A t \in P!Ends : t # o => wire'[t] = wire[t]
  BY QueueSet DEF QueuesTyped, q
<1>9. \A t \in P!Ends : wire'[t] \in Seq(Written(t)) /\ Len(wire'[t]) <= PeerWire
  <2>1. Len(q) <= PeerWire
    <3>1. Len(wire[o]) \in Nat /\ PeerWire \in Nat /\ Len(wire[o]) <= PeerWire
      BY DEF QueuesTyped, PeerBounds
    <3> QED BY <1>1, <3>1
  <2> QED BY <1>1, <1>8, <2>1 DEF QueuesTyped
<1>10. /\ DOMAIN writes' = P!Ends /\ writes' = [t \in P!Ends |-> writes'[t]]
       /\ \A t \in P!Ends : t # s => writes'[t] = writes[t]
       /\ writes'[s] = writes[s] \/ (writes' # writes /\ AsksFor(f, f.call) /\ Len(writes[s]) < PeerWrites /\ writes'[s] = x)
  <2>1. CASE writes' = writes BY <2>1 DEF QueuesTyped
  <2>2. CASE /\ AsksFor(f, f.call) /\ Len(writes[s]) < PeerWrites
             /\ writes' = [writes EXCEPT ![s] = x]
    BY <2>2, QueueSet DEF QueuesTyped
  <2> QED BY <1>2, <2>1, <2>2
<1>11. \A t \in P!Ends : writes'[t] \in Seq(Written(t)) /\ Len(writes'[t]) <= PeerWrites
  <2>1. AsksFor(f, f.call) /\ Len(writes[s]) < PeerWrites => Len(x) <= PeerWrites
    <3>1. Len(writes[s]) \in Nat /\ PeerWrites \in Nat BY DEF QueuesTyped, PeerBounds
    <3> QED BY <1>4, <3>1
  <2> QED BY <1>4, <1>10, <2>1 DEF QueuesTyped
<1>12. QueuesTyped' BY <1>8, <1>9, <1>10, <1>11 DEF QueuesTyped, Written
<1>17. \A t \in P!Ends : \A c :
         /\ NoAsk(wire[t], c) => NoAsk(wire'[t], c)
         /\ OneAskIn(wire[t], c) => OneAskIn(wire'[t], c)
  BY <1>1, <1>8
<1>18. \A t \in P!Ends : \A c :
         /\ NoAsk(writes[t], c) => NoAsk(writes'[t], c)
         /\ OneAskIn(writes[t], c) => OneAskIn(writes'[t], c)
  BY <1>4, <1>5, <1>10
<1>19. \A t \in P!Ends : \A g : Has(wire'[t], g) => Has(wire[t], g) BY <1>1, <1>8
<1>20. ASSUME NEW t \in P!Ends, NEW g, Has(writes'[t], g), ~Has(writes[t], g)
       PROVE  writes' # writes /\ AsksFor(f, f.call) /\ g = b
  <2>1. t = s /\ writes'[s] # writes[s] BY <1>10, <1>20
  <2> QED BY <1>4, <1>10, <1>20, <2>1
<1>16. ASSUME NEW c \in PeerCalls PROVE QueuesKept(c) /\ (AsksFor(f, c) => ~Unasked(c))
  <2>1. QueuesKept(c) BY <1>6, <1>17, <1>18 DEF QueuesKept, AskedOnce, Unasked
  <2>2. AsksFor(f, c) => ~Unasked(c) BY <1>1, <1>6 DEF Unasked
  <2> QED BY <2>1, <2>2
<1>14. ASSUME NEW c \in PeerCalls, AskedOnce(c), AsksFor(f, c) PROVE Unasked(c)'
  <2>1. ~NoAsk(wire[o], c) /\ PeerOf(c) = o /\ o # s BY <1>1, <1>6, <1>14, EndsDiffer
  <2> QED BY <1>1, <1>8, <1>18, <1>14, <2>1 DEF AskedOnce, Unasked
<1>15. ASSUME NEW c \in PeerCalls, NEW what, Replied(c, what)'
       PROVE  Replied(c, what) \/ (writes' # writes /\ what = "busy" /\ AsksFor(f, c))
  <2>1. \E t \in P!Ends : Has(writes'[t], Reply(c, what)) \/ Has(wire'[t], Reply(c, what))
    BY <1>15 DEF Replied
  <2>2. CASE Replied(c, what) BY <2>2
  <2>3. CASE ~Replied(c, what)
    <3>1. \A t \in P!Ends : ~Has(writes[t], Reply(c, what)) /\ ~Has(wire[t], Reply(c, what))
      BY <2>3 DEF Replied
    <3>2. writes' # writes /\ AsksFor(f, f.call) /\ Reply(c, what) = b
      <4> DEFINE g == Reply(c, what)
      <4>1. PICK t \in P!Ends : Has(writes'[t], g) \/ Has(wire'[t], g) BY <2>1
      <4>2. ~Has(writes[t], g) /\ ~Has(wire[t], g) BY <3>1
      <4> HIDE DEF g
      <4>3. Has(writes'[t], g) BY <1>19, <4>1, <4>2
      <4>4. writes' # writes /\ AsksFor(f, f.call) /\ g = b BY <1>20, <4>2, <4>3
      <4> QED BY <4>4 DEF g
    <3> QED BY <1>7, <3>2
  <2> QED BY <2>2, <2>3
<1> QED BY <1>1, <1>6, <1>12, <1>14, <1>15, <1>16 DEF f

\* A handler goes on; it is not begun.
HandlerGoesOn(c) ==
  \/ handler'[c] = handler[c]
  \/ /\ handler[c].pc \notin {"none", "over"} /\ handler'[c].pc # "none"
     /\ handler[c].run => handler'[c].run
     /\ handler'[c].pc \in {"running", "answer", "queued"} => handler'[c].run

CallerGoesOn(c) ==
  LET old == caller[c]
      new == caller'[c]
  IN /\ new.pc \in {"idle", "enqueue"} => old.pc \in {"idle", "enqueue"} /\ new.told \notin {"busy", "unsent"}
     /\ new.told = "busy" => old.told = "busy" \/ response[c] = "busy" \/ old.pc = "idle"
     /\ new.told = "unsent" => old.told = "unsent" \/ old.pc = "enqueue"
     /\ new.told = "result" => old.told = "result" \/ response[c] = "result"

NothingNew(c) == QueuesKept(c) /\ \A what : Replied(c, what)' => Replied(c, what)

LEMMA TruthGoesOn ==
  ASSUME NEW c \in PeerCalls, CallIsTrue(c), NothingNew(c), HandlerGoesOn(c), CallerGoesOn(c),
         response'[c] = response[c]
  PROVE  CallIsTrue(c)'
<1>1. AskedOnce(c)' /\ (Unasked(c) => Unasked(c)') BY DEF CallIsTrue, NothingNew, QueuesKept
<1>2. (Replied(c, "busy")' => Replied(c, "busy")) /\ (Replied(c, "result")' => Replied(c, "result"))
  BY DEF NothingNew
<1>3. CASE handler'[c] = handler[c]
  BY <1>1, <1>2, <1>3 DEF CallIsTrue, CallerGoesOn, Unheard, Refused, Carried
<1>4. CASE handler'[c] # handler[c]
  BY <1>1, <1>2, <1>4 DEF CallIsTrue, CallerGoesOn, HandlerGoesOn, Unheard, Refused, Carried
<1> QED BY <1>3, <1>4

LEMMA SameCardinality == \A S : P!Cardinality(S) = Cardinality(S)
BY DEF P!Cardinality, Cardinality, P!IsFiniteSet, IsFiniteSet

\* The queues are as they were.
LEMMA QueuesStay ==
  ASSUME PeerBounds, QueuesTyped, UNCHANGED <<writes, wire>>
  PROVE  QueuesTyped' /\ \A c \in PeerCalls : NothingNew(c)
<1>1. \A s \in P!Ends : Less(writes'[s], writes[s]) /\ Less(wire'[s], wire[s]) BY DEF Less
<1>2. \A c \in PeerCalls : NothingNew(c) BY <1>1, LessKeeps DEF NothingNew
<1> QED BY <1>2 DEF QueuesTyped, Written

\* Nobody begins to wait, and nothing begins.
LEMMA BoundsStay ==
  ASSUME PeerBounds, PeersTyped, PeersBounded, \A c \in PeerCalls : HandlerGoesOn(c),
         \A s \in P!Ends : pending'[s] \subseteq pending[s],
         \A s \in P!Ends : \A c \in pending'[s] :
            caller'[c].pc = caller[c].pc \/ caller'[c].pc \notin {"idle", "returned"}
  PROVE  PeersBounded'
<1> SUFFICES ASSUME NEW s \in P!Ends
             PROVE  /\ IsFiniteSet(pending'[s]) /\ Cardinality(pending'[s]) <= PeerPending
                    /\ IsFiniteSet(SlotsOf(s)') /\ Cardinality(SlotsOf(s)') <= PeerHandlers
                    /\ \A c \in pending'[s] : PeerOf(c) = s /\ caller'[c].pc \notin {"idle", "returned"}
  BY DEF PeersBounded
<1>1. SlotsOf(s)' \subseteq SlotsOf(s) BY DEF SlotsOf, HandlerGoesOn
<1>2. \A S, T : IsFiniteSet(S) /\ T \subseteq S =>
        /\ IsFiniteSet(T) /\ Cardinality(T) \in Nat /\ Cardinality(S) \in Nat
        /\ Cardinality(T) <= Cardinality(S)
  BY FS_Subset, FS_CardinalityType
<1> DEFINE a == SlotsOf(s)
           b == SlotsOf(s)'
           x == pending[s]
           y == pending'[s]
<1>3. IsFiniteSet(a) /\ Cardinality(a) <= PeerHandlers /\ b \subseteq a BY <1>1 DEF PeersBounded
<1>4. IsFiniteSet(x) /\ Cardinality(x) <= PeerPending /\ y \subseteq x BY DEF PeersBounded
<1>5. \A c \in y : PeerOf(c) = s /\ caller'[c].pc \notin {"idle", "returned"}
  BY <1>4 DEF PeersBounded
<1> HIDE DEF a, b, x, y
<1>6. Cardinality(b) <= PeerHandlers BY <1>2, <1>3 DEF PeerBounds
<1>7. Cardinality(y) <= PeerPending BY <1>2, <1>4 DEF PeerBounds
<1> QED BY <1>2, <1>3, <1>4, <1>5, <1>6, <1>7 DEF a, b, x, y

\* A step after which everything goes on as before.
LEMMA PeersGoOn ==
  ASSUME PeerBounds, PeersInv, QueuesTyped', PeersTyped', UNCHANGED response,
         \A c \in PeerCalls : NothingNew(c) /\ HandlerGoesOn(c) /\ CallerGoesOn(c),
         \A s \in P!Ends : pending'[s] \subseteq pending[s],
         \A s \in P!Ends : \A c \in pending'[s] :
            caller'[c].pc = caller[c].pc \/ caller'[c].pc \notin {"idle", "returned"}
  PROVE  PeersInv'
<1>1. PeersBounded' BY BoundsStay DEF PeersInv
<1>2. \A c \in PeerCalls : CallIsTrue(c)' BY TruthGoesOn DEF PeersInv
<1> QED BY <1>1, <1>2 DEF PeersInv

\* What becomes of a frame is told to the caller or the handler that waits for it.
LEMMA FrameIsDone ==
  ASSUME PeersInv, NEW s \in P!Ends, NEW f \in Written(s), NEW what \in {"ok", "failed"},
         P!Done(f, what)
  PROVE  /\ caller' \in [PeerCalls -> CallerType] /\ handler' \in [PeerCalls -> HandlerType]
         /\ \A c \in PeerCalls : /\ HandlerGoesOn(c) /\ CallerGoesOn(c)
                                 /\ caller'[c].pc = caller[c].pc
<1> DEFINE d == f.call
<1>1. d \in PeerCalls BY DEF Written
<1>2. caller \in [PeerCalls -> CallerType] /\ handler \in [PeerCalls -> HandlerType]
  BY DEF PeersInv, PeersTyped
<1>3. caller' = caller \/ caller' = [caller EXCEPT ![d].done = what] BY DEF P!Done
<1>4. \/ handler' = handler
      \/ handler' = [handler EXCEPT ![d].pc = "over"] /\ handler[d].pc = "queued"
  BY DEF P!Done
<1> HIDE DEF d
<1>5. /\ caller' \in [PeerCalls -> CallerType]
      /\ \A c \in PeerCalls : caller'[c].pc = caller[c].pc /\ caller'[c].told = caller[c].told
  BY <1>1, <1>2, <1>3 DEF CallerType
<1>6. /\ handler' \in [PeerCalls -> HandlerType]
      /\ \A c \in PeerCalls : HandlerGoesOn(c)
  BY <1>1, <1>2, <1>4 DEF HandlerType, HandlerPcs, HandlerGoesOn
<1>7. \A c \in PeerCalls : caller[c].pc \in {"idle", "enqueue"} => caller[c].told \notin {"busy", "unsent"}
  BY DEF PeersInv, CallIsTrue, Refused
<1> QED BY <1>5, <1>6, <1>7 DEF CallerGoesOn

LEMMA PeersBegin == PeerBounds /\ P!Init => PeersInv
<1> SUFFICES ASSUME PeerBounds, P!Init PROVE PeersInv
  OBVIOUS
<1>1. /\ writes = [s \in P!Ends |-> <<>>] /\ wire = [s \in P!Ends |-> <<>>]
      /\ caller = [c \in PeerCalls |-> [pc |-> "idle", notice |-> FALSE, done |-> "no", told |-> "nothing"]]
      /\ handler = [c \in PeerCalls |-> [pc |-> "none", run |-> FALSE]]
      /\ response = [c \in PeerCalls |-> "nothing"] /\ pending = [s \in P!Ends |-> {}]
  BY DEF P!Init
<1>2. QueuesTyped BY <1>1 DEF QueuesTyped, PeerBounds
<1>3. PeersTyped BY <1>1 DEF PeersTyped, CallerType, HandlerType, HandlerPcs, Pcs, Told
<1>4. PeersBounded
  <2>1. \A s \in P!Ends : SlotsOf(s) = {} /\ pending[s] = {} BY <1>1 DEF SlotsOf
  <2> QED BY <2>1, FS_EmptySet DEF PeersBounded, PeerBounds
<1>5. ASSUME NEW c \in PeerCalls PROVE CallIsTrue(c)
  <2>1. \A s \in P!Ends : /\ NoAsk(writes[s], c) /\ NoAsk(wire[s], c)
                          /\ OneAskIn(writes[s], c) /\ OneAskIn(wire[s], c)
                          /\ \A f : ~Has(writes[s], f) /\ ~Has(wire[s], f)
    BY <1>1 DEF NoAsk, OneAskIn, Has
  <2>2. PeerOf(c) \in P!Ends BY DEF PeerBounds
  <2>3. \A what : ~Replied(c, what) BY <2>1 DEF Replied
  <2> QED BY <1>1, <2>1, <2>2, <2>3 DEF CallIsTrue, AskedOnce, Unasked, Unheard, Refused, Carried
<1> QED BY <1>2, <1>3, <1>4, <1>5 DEF PeersInv

\* The writer: what is first in the queue is dropped or written, or the end closes over it.
LEMMA PeersWrite ==
  ASSUME PeerBounds, PeersInv, NEW s \in P!Ends, P!Drop(s) \/ P!Write(s) \/ P!Stalls(s)
  PROVE  PeersInv'
<1> DEFINE f == Head(writes[s])
<1>1. /\ writes[s] # <<>> /\ UNCHANGED <<response, pending>>
      /\ \E what \in {"ok", "failed"} : P!Done(f, what)
      /\ \/ UNCHANGED <<writes, wire>>
         \/ /\ writes' = [writes EXCEPT ![s] = Tail(writes[s])]
            /\ \/ wire' = wire
               \/ Len(wire[s]) < PeerWire /\ wire' = [wire EXCEPT ![s] = Append(wire[s], Head(writes[s]))]
  <2>1. CASE P!Drop(s) BY <2>1 DEF P!Drop
  <2>2. CASE P!Write(s) BY <2>2 DEF P!Write
  <2>3. CASE P!Stalls(s) BY <2>3 DEF P!Stalls
  <2> QED BY <2>1, <2>2, <2>3
<1>2. QueuesTyped /\ f \in Written(s)
  <2>1. QueuesTyped BY DEF PeersInv
  <2>2. writes[s] \in Seq(Written(s)) BY <2>1 DEF QueuesTyped
  <2> QED BY <1>1, <2>1, <2>2, FrameTaken
<1>3. QueuesTyped' /\ \A c \in PeerCalls : NothingNew(c)
  <2>1. CASE UNCHANGED <<writes, wire>> BY <1>2, <2>1, QueuesStay
  <2>2. CASE /\ writes' = [writes EXCEPT ![s] = Tail(writes[s])]
             /\ \/ wire' = wire
                \/ Len(wire[s]) < PeerWire /\ wire' = [wire EXCEPT ![s] = Append(wire[s], Head(writes[s]))]
    BY <1>1, <1>2, <2>2, Dropped DEF NothingNew
  <2> QED BY <1>1, <2>1, <2>2
<1>4. /\ caller' \in [PeerCalls -> CallerType] /\ handler' \in [PeerCalls -> HandlerType]
      /\ \A c \in PeerCalls : HandlerGoesOn(c) /\ CallerGoesOn(c) /\ caller'[c].pc = caller[c].pc
  <2> HIDE DEF f
  <2> QED BY <1>1, <1>2, FrameIsDone
<1>5. PeersTyped' /\ UNCHANGED response BY <1>1, <1>4 DEF PeersInv, PeersTyped
<1>6. \A t \in P!Ends : pending'[t] \subseteq pending[t] BY <1>1
<1>7. \A t \in P!Ends : \A c \in pending'[t] :
        caller'[c].pc = caller[c].pc \/ caller'[c].pc \notin {"idle", "returned"}
  BY <1>1, <1>4 DEF PeersInv, PeersTyped
<1>8. \A c \in PeerCalls : NothingNew(c) /\ HandlerGoesOn(c) /\ CallerGoesOn(c) BY <1>3, <1>4
<1> QED BY <1>3, <1>5, <1>6, <1>7, <1>8, PeersGoOn

\* One caller moves.
LEMMA PeerMoves ==
  ASSUME PeersInv, NEW c \in PeerCalls, NEW r \in CallerType, caller' = [caller EXCEPT ![c] = r],
         /\ r.pc \in {"idle", "enqueue"} => caller[c].pc \in {"idle", "enqueue"} /\ r.told \notin {"busy", "unsent"}
         /\ r.told = "busy" => response[c] = "busy" \/ caller[c].pc = "idle"
         /\ r.told = "unsent" => caller[c].pc = "enqueue"
         /\ r.told = "result" => response[c] = "result"
  PROVE  /\ caller' \in [PeerCalls -> CallerType] /\ caller'[c] = r
         /\ \A d \in PeerCalls : CallerGoesOn(d)
         /\ \A d \in PeerCalls : d # c => caller'[d] = caller[d]
<1>1. caller \in [PeerCalls -> CallerType] BY DEF PeersInv, PeersTyped
<1>2. /\ caller' \in [PeerCalls -> CallerType] /\ caller'[c] = r
      /\ \A d \in PeerCalls : d # c => caller'[d] = caller[d]
  BY <1>1
<1>3. \A d \in PeerCalls : caller[d].pc \in {"idle", "enqueue"} => caller[d].told \notin {"busy", "unsent"}
  BY DEF PeersInv, CallIsTrue, Refused
<1> QED BY <1>2, <1>3 DEF CallerGoesOn

LEMMA CallReturns ==
  ASSUME PeersInv, NEW c \in PeerCalls, NEW told \in Told, P!Returns(c, told),
         told = "busy" => response[c] = "busy" \/ caller[c].pc = "idle",
         told = "unsent" => caller[c].pc = "enqueue",
         told = "result" => response[c] = "result"
  PROVE  /\ caller' \in [PeerCalls -> CallerType] /\ pending' \in [P!Ends -> SUBSET PeerCalls]
         /\ \A d \in PeerCalls : CallerGoesOn(d)
         /\ \A s \in P!Ends : pending'[s] \subseteq pending[s]
         /\ \A s \in P!Ends : \A d \in pending'[s] : caller'[d].pc = caller[d].pc
<1> DEFINE r == [caller[c] EXCEPT !.pc = "returned", !.told = told]
<1>1. caller \in [PeerCalls -> CallerType] /\ pending \in [P!Ends -> SUBSET PeerCalls]
  BY DEF PeersInv, PeersTyped
<1>2. caller' = [caller EXCEPT ![c] = r] /\ pending' = [pending EXCEPT ![PeerOf(c)] = pending[PeerOf(c)] \ {c}]
  BY DEF P!Returns, P!SetCaller
<1>3. r \in CallerType /\ r.pc = "returned" /\ r.told = told BY <1>1 DEF CallerType, Pcs
<1> HIDE DEF r
<1>4. /\ caller' \in [PeerCalls -> CallerType] /\ \A d \in PeerCalls : CallerGoesOn(d)
      /\ \A d \in PeerCalls : d # c => caller'[d] = caller[d]
  BY <1>2, <1>3, PeerMoves
<1>5. /\ pending' \in [P!Ends -> SUBSET PeerCalls]
      /\ \A s \in P!Ends : pending'[s] \subseteq pending[s]
      /\ \A s \in P!Ends : c \in pending[s] => c \notin pending'[s]
  <2>1. \A s \in P!Ends : c \in pending[s] => PeerOf(c) = s BY DEF PeersInv, PeersBounded
  <2> QED BY <1>1, <1>2, <2>1
<1>6. \A s \in P!Ends : \A d \in pending'[s] : caller'[d].pc = caller[d].pc BY <1>1, <1>4, <1>5
<1> QED BY <1>4, <1>5, <1>6

\* A caller returns, and its end closes or tells the other.
LEMMA CallEnds ==
  ASSUME PeerBounds, PeersInv, NEW c \in PeerCalls, NEW told \in Told, P!Returns(c, told),
         told = "busy" => response[c] = "busy" \/ caller[c].pc = "idle",
         told = "unsent" => caller[c].pc = "enqueue",
         told = "result" => response[c] = "result",
         UNCHANGED <<response, handler, wire>>,
         \/ writes' = writes
         \/ P!Enqueue(PeerOf(c), P!Frame("cancel", c, "cancel"))
  PROVE  PeersInv'
<1> DEFINE s == PeerOf(c)
           f == P!Frame("cancel", c, "cancel")
<1>0. s \in P!Ends /\ QueuesTyped BY DEF PeerBounds, PeersInv
<1>1. /\ caller' \in [PeerCalls -> CallerType] /\ pending' \in [P!Ends -> SUBSET PeerCalls]
      /\ \A d \in PeerCalls : CallerGoesOn(d)
      /\ \A t \in P!Ends : pending'[t] \subseteq pending[t]
      /\ \A t \in P!Ends : \A d \in pending'[t] : caller'[d].pc = caller[d].pc
  BY CallReturns
<1>2. f \in Written(s) /\ \A d : ~AsksFor(f, d) /\ \A what : f # Reply(d, what)
  BY DEF Written, P!Frame, AsksFor, Reply
<1>3. writes' = writes \/ (Len(writes[s]) < PeerWrites /\ writes' = [writes EXCEPT ![s] = Append(writes[s], f)])
  BY DEF P!Enqueue, P!Room, P!Queue
<1> HIDE DEF s, f
<1>4. QueuesTyped' /\ \A d \in PeerCalls : NothingNew(d)
  <2>1. CASE writes' = writes BY <1>0, <2>1, QueuesStay
  <2>2. CASE Len(writes[s]) < PeerWrites /\ writes' = [writes EXCEPT ![s] = Append(writes[s], f)]
    BY <1>0, <1>2, <2>2, Enqueued DEF NothingNew
  <2> QED BY <1>3, <2>1, <2>2
<1>5. PeersTyped' /\ UNCHANGED response BY <1>1 DEF PeersInv, PeersTyped
<1>6. \A d \in PeerCalls : NothingNew(d) /\ HandlerGoesOn(d) /\ CallerGoesOn(d)
  BY <1>1, <1>4 DEF HandlerGoesOn
<1> QED BY <1>1, <1>4, <1>5, <1>6, PeersGoOn

LEMMA CallBegins ==
  ASSUME PeerBounds, PeersInv, NEW c \in PeerCalls, P!Call(c) \/ P!Notify(c)
  PROVE  PeersInv'
<1> DEFINE s == PeerOf(c)
<1>0. /\ s \in P!Ends /\ QueuesTyped /\ caller \in [PeerCalls -> CallerType]
      /\ pending \in [P!Ends -> SUBSET PeerCalls] /\ CallIsTrue(c)
  BY DEF PeerBounds, PeersInv, PeersTyped
<1>1. caller[c].pc = "idle" /\ UNCHANGED <<response, handler, writes, wire>>
  BY DEF P!Call, P!Notify, P!At
<1>2. \A told \in {"closed", "busy"} : P!Returns(c, told) => PeersInv'
  <2> SUFFICES ASSUME NEW told \in {"closed", "busy"}, P!Returns(c, told) PROVE PeersInv'
    OBVIOUS
  <2>1. told \in Told /\ told # "unsent" /\ told # "result" BY DEF Told
  <2>2. /\ told = "busy" => response[c] = "busy" \/ caller[c].pc = "idle"
        /\ told = "unsent" => caller[c].pc = "enqueue"
        /\ told = "result" => response[c] = "result"
    BY <1>1, <2>1
  <2> QED BY <1>1, <2>1, <2>2, CallEnds
<1>3. QueuesTyped' /\ \A d \in PeerCalls : NothingNew(d) /\ HandlerGoesOn(d)
  BY <1>0, <1>1, QueuesStay DEF HandlerGoesOn
<1>4. CASE P!Notify(c)
  <2> DEFINE r == [caller[c] EXCEPT !.pc = "enqueue", !.notice = TRUE]
  <2>1. caller' = [caller EXCEPT ![c] = r] /\ pending' = pending BY <1>4 DEF P!Notify
  <2>2. r \in CallerType /\ r.pc = "enqueue" /\ r.told = caller[c].told
    BY <1>0 DEF CallerType, Pcs
  <2>3. r.told \notin {"busy", "unsent"} /\ (r.told = "result" => response[c] = "result")
    <3>1. caller[c].told # "result" BY <1>0, <1>1 DEF CallIsTrue, Carried, Unheard
    <3> QED BY <1>0, <1>1, <2>2, <3>1 DEF CallIsTrue, Refused
  <2> HIDE DEF r
  <2>4. /\ caller' \in [PeerCalls -> CallerType] /\ caller'[c] = r
        /\ \A d \in PeerCalls : CallerGoesOn(d)
        /\ \A d \in PeerCalls : d # c => caller'[d] = caller[d]
    <3>1. /\ r.pc \in {"idle", "enqueue"} => caller[c].pc \in {"idle", "enqueue"} /\ r.told \notin {"busy", "unsent"}
          /\ r.told = "busy" => response[c] = "busy" \/ caller[c].pc = "idle"
          /\ r.told = "unsent" => caller[c].pc = "enqueue"
          /\ r.told = "result" => response[c] = "result"
      BY <1>1, <2>2, <2>3
    <3> QED BY <2>1, <2>2, <3>1, PeerMoves
  <2>5. PeersTyped' /\ UNCHANGED response BY <1>1, <2>1, <2>4 DEF PeersInv, PeersTyped
  <2>6. \A t \in P!Ends : \A d \in pending'[t] :
          caller'[d].pc = caller[d].pc \/ caller'[d].pc \notin {"idle", "returned"}
    BY <1>0, <2>1, <2>2, <2>4
  <2> QED BY <1>3, <2>1, <2>4, <2>5, <2>6, PeersGoOn
<1>5. CASE /\ P!Cardinality(pending[s]) < PeerPending
           /\ pending' = [pending EXCEPT ![s] = pending[s] \cup {c}]
           /\ P!SetCaller(c, "enqueue", "nothing")
  <2> DEFINE r == [caller[c] EXCEPT !.pc = "enqueue", !.told = "nothing"]
  <2>1. caller' = [caller EXCEPT ![c] = r] BY <1>5 DEF P!SetCaller
  <2>2. r \in CallerType /\ r.pc = "enqueue" /\ r.told = "nothing"
    BY <1>0 DEF CallerType, Pcs, Told
  <2> HIDE DEF r
  <2>3. /\ caller' \in [PeerCalls -> CallerType] /\ caller'[c] = r
        /\ \A d \in PeerCalls : CallerGoesOn(d)
        /\ \A d \in PeerCalls : d # c => caller'[d] = caller[d]
    <3>1. /\ r.pc \in {"idle", "enqueue"} => caller[c].pc \in {"idle", "enqueue"} /\ r.told \notin {"busy", "unsent"}
          /\ r.told = "busy" => response[c] = "busy" \/ caller[c].pc = "idle"
          /\ r.told = "unsent" => caller[c].pc = "enqueue"
          /\ r.told = "result" => response[c] = "result"
      BY <1>1, <2>2
    <3> QED BY <2>1, <2>2, <3>1, PeerMoves
  <2>4. pending' \in [P!Ends -> SUBSET PeerCalls] BY <1>0, <1>5
  <2>5. PeersTyped' /\ UNCHANGED response BY <1>1, <2>3, <2>4 DEF PeersInv, PeersTyped
  <2>6. \A d \in PeerCalls : CallIsTrue(d)' BY <1>1, <1>3, <2>3, TruthGoesOn DEF PeersInv
  <2>7. PeersBounded'
    <3> SUFFICES ASSUME NEW t \in P!Ends
                 PROVE  /\ IsFiniteSet(pending'[t]) /\ Cardinality(pending'[t]) <= PeerPending
                        /\ IsFiniteSet(SlotsOf(t)') /\ Cardinality(SlotsOf(t)') <= PeerHandlers
                        /\ \A d \in pending'[t] : PeerOf(d) = t /\ caller'[d].pc \notin {"idle", "returned"}
      BY DEF PeersBounded
    <3>1. SlotsOf(t)' = SlotsOf(t) BY <1>1 DEF SlotsOf
    <3>2. IsFiniteSet(SlotsOf(t)) /\ Cardinality(SlotsOf(t)) <= PeerHandlers
      BY DEF PeersInv, PeersBounded
    <3>3. /\ IsFiniteSet(pending[t]) /\ Cardinality(pending[t]) <= PeerPending
          /\ \A d \in pending[t] : PeerOf(d) = t /\ caller[d].pc \notin {"idle", "returned"}
      BY DEF PeersInv, PeersBounded
    <3>4. IsFiniteSet(pending'[t]) /\ Cardinality(pending'[t]) <= PeerPending
      <4>1. CASE t = s
        <5> DEFINE x == pending[t]
        <5>1. pending'[t] = x \cup {c} /\ Cardinality(x) < PeerPending
          BY <1>0, <1>5, <4>1, SameCardinality
        <5> HIDE DEF x
        <5>2. IsFiniteSet(x) BY <3>3 DEF x
        <5>3. /\ IsFiniteSet(x \cup {c}) /\ Cardinality(x) \in Nat
              /\ Cardinality(x \cup {c}) = IF c \in x THEN Cardinality(x) ELSE Cardinality(x) + 1
          BY <5>2, FS_AddElement, FS_CardinalityType
        <5> QED BY <5>1, <5>3 DEF PeerBounds
      <4>2. CASE t # s BY <1>0, <1>5, <3>3, <4>2
      <4> QED BY <4>1, <4>2
    <3>5. \A d \in pending'[t] : PeerOf(d) = t /\ caller'[d].pc \notin {"idle", "returned"}
      BY <1>0, <1>5, <2>2, <2>3, <3>3
    <3> QED BY <3>1, <3>2, <3>4, <3>5
  <2> QED BY <1>3, <2>5, <2>6, <2>7 DEF PeersInv
<1>6. \/ P!Notify(c) \/ P!Returns(c, "closed") \/ P!Returns(c, "busy")
      \/ /\ ~(P!Cardinality(pending[s]) >= PeerPending)
         /\ pending' = [pending EXCEPT ![s] = pending[s] \cup {c}]
         /\ P!SetCaller(c, "enqueue", "nothing")
  BY DEF P!Call
<1>7. ~(P!Cardinality(pending[s]) >= PeerPending) => P!Cardinality(pending[s]) < PeerPending
  <2>1. Cardinality(pending[s]) \in Nat BY <1>0, FS_CardinalityType DEF PeersInv, PeersBounded
  <2> QED BY <2>1, SameCardinality DEF PeerBounds
<1> QED BY <1>2, <1>4, <1>5, <1>6, <1>7

LEMMA CallIsOffered ==
  ASSUME PeerBounds, PeersInv, NEW c \in PeerCalls, P!Offer(c)
  PROVE  PeersInv'
<1> DEFINE s == PeerOf(c)
           f == P!RequestFrame(c)
<1>0. /\ s \in P!Ends /\ QueuesTyped /\ caller \in [PeerCalls -> CallerType] /\ CallIsTrue(c)
  BY DEF PeerBounds, PeersInv, PeersTyped
<1>1. caller[c].pc = "enqueue" /\ UNCHANGED <<response, handler, wire>> BY DEF P!Offer, P!At
<1>2. \/ writes' = writes /\ (P!Returns(c, "unsent") \/ P!Returns(c, "closed"))
      \/ /\ Len(writes[s]) < PeerWrites /\ writes' = [writes EXCEPT ![s] = Append(writes[s], f)]
         /\ P!SetCaller(c, "queued", "nothing") /\ pending' = pending
  BY DEF P!Offer, P!Room, P!Queue
<1>3. CASE writes' = writes /\ (P!Returns(c, "unsent") \/ P!Returns(c, "closed"))
  <2>1. "unsent" \in Told /\ "closed" \in Told BY DEF Told
  <2> QED BY <1>1, <1>3, <2>1, CallEnds
<1>4. CASE /\ Len(writes[s]) < PeerWrites /\ writes' = [writes EXCEPT ![s] = Append(writes[s], f)]
           /\ P!SetCaller(c, "queued", "nothing") /\ pending' = pending
  <2>1. /\ f \in Written(s) /\ AsksFor(f, c) /\ \A d, what : f # Reply(d, what)
        /\ \A d : d # c => ~AsksFor(f, d)
    BY DEF P!RequestFrame, P!Frame, Written, AsksFor, Reply
  <2> HIDE DEF f, s
  <2>2. /\ QueuesTyped'
        /\ \A d \in PeerCalls :
             /\ AsksFor(f, d) /\ Unasked(d) => AskedOnce(d)'
             /\ ~AsksFor(f, d) => QueuesKept(d)
             /\ \A what : Replied(d, what)' => Replied(d, what) \/ f = Reply(d, what)
    BY <1>0, <1>1, <1>4, <2>1, Enqueued
  <2> DEFINE r == [caller[c] EXCEPT !.pc = "queued", !.told = "nothing"]
  <2>3. caller' = [caller EXCEPT ![c] = r] BY <1>4 DEF P!SetCaller
  <2>4. r \in CallerType /\ r.pc = "queued" /\ r.told = "nothing"
    BY <1>0 DEF CallerType, Pcs, Told
  <2> HIDE DEF r
  <2>5. /\ caller' \in [PeerCalls -> CallerType] /\ caller'[c] = r
        /\ \A d \in PeerCalls : CallerGoesOn(d)
        /\ \A d \in PeerCalls : d # c => caller'[d] = caller[d]
    <3>1. /\ r.pc \in {"idle", "enqueue"} => caller[c].pc \in {"idle", "enqueue"} /\ r.told \notin {"busy", "unsent"}
          /\ r.told = "busy" => response[c] = "busy" \/ caller[c].pc = "idle"
          /\ r.told = "unsent" => caller[c].pc = "enqueue"
          /\ r.told = "result" => response[c] = "result"
      BY <2>4
    <3> QED BY <2>3, <2>4, <3>1, PeerMoves
  <2>6. PeersTyped' BY <1>1, <1>4, <2>5 DEF PeersInv, PeersTyped
  <2>7. \A d \in PeerCalls : HandlerGoesOn(d) BY <1>1 DEF HandlerGoesOn
  <2>8. PeersBounded'
    <3>1. \A t \in P!Ends : pending'[t] \subseteq pending[t] BY <1>4
    <3>2. \A t \in P!Ends : \A d \in pending'[t] :
            caller'[d].pc = caller[d].pc \/ caller'[d].pc \notin {"idle", "returned"}
      BY <2>4, <2>5, <2>6 DEF PeersTyped
    <3> QED BY <2>7, <3>1, <3>2, BoundsStay DEF PeersInv
  <2>9. ASSUME NEW d \in PeerCalls, d # c PROVE CallIsTrue(d)'
    <3>1. NothingNew(d) /\ response'[d] = response[d] /\ CallIsTrue(d)
      BY <1>1, <2>1, <2>2, <2>9 DEF NothingNew, PeersInv
    <3> QED BY <2>5, <2>7, <3>1, TruthGoesOn
  <2>10. CallIsTrue(c)'
    <3>1. Unheard(c) /\ ~Refused(c) /\ AskedOnce(c)'
      BY <1>0, <1>1, <2>1, <2>2 DEF CallIsTrue, Unheard
    <3>2. ~Replied(c, "busy")' /\ (Replied(c, "result")' => Replied(c, "result"))
      BY <2>1, <2>2, <3>1 DEF Refused
    <3>3. response[c] # "busy" /\ handler'[c] = handler[c] /\ response'[c] = response[c]
      BY <1>1, <3>1 DEF Refused
    <3> QED BY <1>0, <2>4, <2>5, <3>1, <3>2, <3>3 DEF CallIsTrue, Unheard, Refused, Carried
  <2> QED BY <2>2, <2>6, <2>8, <2>9, <2>10 DEF PeersInv
<1> QED BY <1>2, <1>3, <1>4

LEMMA CallGoesOn ==
  ASSUME PeerBounds, PeersInv, NEW c \in PeerCalls, P!Sent(c) \/ P!Answered(c)
  PROVE  PeersInv'
<1>1. {"sent", "ended", "closed", "result", "busy"} \subseteq Told /\ response[c] \in {"nothing", "result", "busy"}
  BY DEF Told, PeersInv, PeersTyped
<1>2. /\ UNCHANGED <<response, handler, wire>> /\ caller[c].pc \in {"queued", "waiting"}
      /\ \/ writes' = writes
         \/ P!Enqueue(PeerOf(c), P!Frame("cancel", c, "cancel"))
      /\ \/ \E told \in {"sent", "ended", "closed", "result", "busy"} :
              P!Returns(c, told) /\ (told \in {"result", "busy"} => response[c] = told)
         \/ P!SetCaller(c, "waiting", "nothing") /\ UNCHANGED <<writes, pending>>
  <2>1. CASE P!Sent(c) BY <2>1 DEF P!Sent, P!At
  <2>2. CASE P!Answered(c) BY <1>1, <2>2 DEF P!Answered, P!At, P!TellOther
  <2> QED BY <2>1, <2>2
<1>3. ASSUME NEW told \in {"sent", "ended", "closed", "result", "busy"}, P!Returns(c, told),
             told \in {"result", "busy"} => response[c] = told
      PROVE  PeersInv'
  <2>1. /\ told \in Told /\ (told = "busy" => response[c] = "busy" \/ caller[c].pc = "idle")
        /\ (told = "unsent" => caller[c].pc = "enqueue") /\ (told = "result" => response[c] = "result")
    BY <1>1, <1>3
  <2>2. \/ writes' = writes
        \/ P!Enqueue(PeerOf(c), P!Frame("cancel", c, "cancel"))
    BY <1>2
  <2> QED BY <1>2, <1>3, <2>1, <2>2, CallEnds
<1>4. CASE P!SetCaller(c, "waiting", "nothing") /\ UNCHANGED <<writes, pending>>
  <2> DEFINE r == [caller[c] EXCEPT !.pc = "waiting", !.told = "nothing"]
  <2>0. caller \in [PeerCalls -> CallerType] /\ QueuesTyped BY DEF PeersInv, PeersTyped
  <2>1. caller' = [caller EXCEPT ![c] = r] BY <1>4 DEF P!SetCaller
  <2>2. r \in CallerType /\ r.pc = "waiting" /\ r.told = "nothing"
    BY <2>0 DEF CallerType, Pcs, Told
  <2> HIDE DEF r
  <2>3. /\ caller' \in [PeerCalls -> CallerType] /\ caller'[c] = r
        /\ \A d \in PeerCalls : CallerGoesOn(d)
        /\ \A d \in PeerCalls : d # c => caller'[d] = caller[d]
    <3>1. /\ r.pc \in {"idle", "enqueue"} => caller[c].pc \in {"idle", "enqueue"} /\ r.told \notin {"busy", "unsent"}
          /\ r.told = "busy" => response[c] = "busy" \/ caller[c].pc = "idle"
          /\ r.told = "unsent" => caller[c].pc = "enqueue"
          /\ r.told = "result" => response[c] = "result"
      BY <2>2
    <3> QED BY <2>1, <2>2, <3>1, PeerMoves
  <2>4. QueuesTyped' /\ \A d \in PeerCalls : NothingNew(d) /\ HandlerGoesOn(d)
    BY <1>2, <1>4, <2>0, QueuesStay DEF HandlerGoesOn
  <2>5. PeersTyped' /\ UNCHANGED response BY <1>2, <1>4, <2>3 DEF PeersInv, PeersTyped
  <2>6. \A t \in P!Ends : pending'[t] \subseteq pending[t] BY <1>4
  <2>7. \A t \in P!Ends : \A d \in pending'[t] :
          caller'[d].pc = caller[d].pc \/ caller'[d].pc \notin {"idle", "returned"}
    BY <2>2, <2>3, <2>5 DEF PeersTyped
  <2> QED BY <2>3, <2>4, <2>5, <2>6, <2>7, PeersGoOn
<1> QED BY <1>2, <1>3, <1>4

\* One handler moves.
LEMMA HandlerMoves ==
  ASSUME PeerBounds, PeersInv, NEW c \in PeerCalls, NEW h \in HandlerType,
         handler[c].pc \notin {"none", "over"}, h.pc # "none",
         handler[c].run => h.run, h.pc \in {"running", "answer", "queued"} => h.run,
         handler' = [handler EXCEPT ![c] = h], UNCHANGED <<response, caller, pending>>
  PROVE  /\ PeersTyped' /\ PeersBounded' /\ handler'[c] = h
         /\ \A d \in PeerCalls : HandlerGoesOn(d) /\ CallerGoesOn(d)
<1>1. handler \in [PeerCalls -> HandlerType] BY DEF PeersInv, PeersTyped
<1>2. /\ handler' \in [PeerCalls -> HandlerType] /\ handler'[c] = h
      /\ \A d \in PeerCalls : d # c => handler'[d] = handler[d]
  BY <1>1
<1>3. PeersTyped' BY <1>2 DEF PeersInv, PeersTyped
<1>4. \A d \in PeerCalls : HandlerGoesOn(d) BY <1>2 DEF HandlerGoesOn
<1>5. \A d \in PeerCalls : CallerGoesOn(d) BY DEF CallerGoesOn, PeersInv, CallIsTrue, Refused
<1>6. PeersBounded' BY <1>4, BoundsStay DEF PeersInv
<1> QED BY <1>2, <1>3, <1>4, <1>5, <1>6

LEMMA HandlersGoOn ==
  ASSUME PeerBounds, PeersInv, NEW c \in PeerCalls,
         P!Dispatch(c) \/ P!Handle(c) \/ P!Answer(c) \/ P!Abandon(c)
  PROVE  PeersInv'
<1> DEFINE s == P!Other(PeerOf(c))
           f == Reply(c, "result")
<1>0. /\ s \in P!Ends /\ P!Other(PeerOf(c)) = s /\ QueuesTyped /\ handler \in [PeerCalls -> HandlerType]
      /\ \A d \in PeerCalls : CallIsTrue(d)
  BY EndsDiffer DEF PeerBounds, PeersInv, PeersTyped
<1>1. /\ UNCHANGED <<response, caller, pending, wire>>
      /\ \E h \in HandlerType :
           /\ handler' = [handler EXCEPT ![c] = h]
           /\ handler[c].pc \notin {"none", "over"} /\ h.pc # "none"
           /\ (handler[c].run => h.run) /\ (h.pc \in {"running", "answer", "queued"} => h.run)
           /\ \/ writes' = writes
              \/ /\ Len(writes[s]) < PeerWrites /\ h.run
                 /\ writes' = [writes EXCEPT ![s] = Append(writes[s], f)]
  <2>1. handler[c] \in HandlerType /\ CallIsTrue(c) BY <1>0
  <2>2. ASSUME NEW p \in HandlerPcs \ {"none"} PROVE [handler[c] EXCEPT !.pc = p] \in HandlerType
    BY <2>1 DEF HandlerType
  <2>3. \A p : [handler EXCEPT ![c].pc = p] = [handler EXCEPT ![c] = [handler[c] EXCEPT !.pc = p]]
    OBVIOUS
  <2>4. "over" \in HandlerPcs /\ "answer" \in HandlerPcs /\ "queued" \in HandlerPcs
    BY DEF HandlerPcs
  <2>5. CASE P!Dispatch(c)
    <3>1. CASE handler' = [handler EXCEPT ![c].pc = "over"]
      <4> DEFINE h == [handler[c] EXCEPT !.pc = "over"]
      <4>1. h \in HandlerType /\ h.pc = "over" /\ h.run = handler[c].run /\ handler' = [handler EXCEPT ![c] = h]
        BY <2>1, <2>2, <2>3, <2>4, <3>1 DEF HandlerType
      <4> QED BY <2>5, <4>1 DEF P!Dispatch
    <3>2. CASE handler' = [handler EXCEPT ![c] = [pc |-> "running", run |-> TRUE]]
      <4> DEFINE h == [pc |-> "running", run |-> TRUE]
      <4>1. h \in HandlerType /\ h.pc = "running" /\ h.run BY DEF HandlerType, HandlerPcs
      <4> QED BY <2>5, <3>2, <4>1 DEF P!Dispatch
    <3> QED BY <2>5, <3>1, <3>2 DEF P!Dispatch
  <2>6. ASSUME NEW p \in {"over", "answer"}, P!SetHandler(c, p), handler[c].pc \in {"running", "answer", "queued"},
               UNCHANGED <<response, caller, pending, wire, writes>>
        PROVE  /\ UNCHANGED <<response, caller, pending, wire>>
               /\ \E h \in HandlerType :
                    /\ handler' = [handler EXCEPT ![c] = h]
                    /\ handler[c].pc \notin {"none", "over"} /\ h.pc # "none"
                    /\ (handler[c].run => h.run) /\ (h.pc \in {"running", "answer", "queued"} => h.run)
                    /\ \/ writes' = writes
                       \/ /\ Len(writes[s]) < PeerWrites /\ h.run
                          /\ writes' = [writes EXCEPT ![s] = Append(writes[s], f)]
    <3> DEFINE h == [handler[c] EXCEPT !.pc = p]
    <3>1. h \in HandlerType /\ h.pc = p /\ h.run = handler[c].run /\ handler' = [handler EXCEPT ![c] = h]
      BY <2>1, <2>2, <2>3, <2>4, <2>6 DEF HandlerType, P!SetHandler
    <3>2. handler[c].run BY <2>1, <2>6 DEF CallIsTrue
    <3> HIDE DEF h
    <3> QED BY <2>6, <3>1, <3>2
  <2>7. CASE P!Handle(c) BY <2>6, <2>7 DEF P!Handle
  <2>8. CASE P!Abandon(c) BY <2>6, <2>8 DEF P!Abandon
  <2>9. CASE P!Answer(c)
    <3>1. CASE P!SetHandler(c, "over") /\ writes' = writes BY <2>6, <2>9, <3>1 DEF P!Answer
    <3>2. CASE P!Room(s) /\ P!Queue(s, P!Frame("reply", c, "result")) /\ P!SetHandler(c, "queued")
      <4> DEFINE h == [handler[c] EXCEPT !.pc = "queued"]
      <4>1. h \in HandlerType /\ h.pc = "queued" /\ h.run = handler[c].run /\ handler' = [handler EXCEPT ![c] = h]
        BY <2>1, <2>2, <2>3, <2>4, <3>2 DEF HandlerType, P!SetHandler
      <4>2. handler[c].run /\ handler[c].pc = "answer" BY <2>1, <2>9 DEF CallIsTrue, P!Answer
      <4>3. Len(writes[s]) < PeerWrites /\ writes' = [writes EXCEPT ![s] = Append(writes[s], f)]
        BY <3>2 DEF P!Room, P!Queue, Reply
      <4> HIDE DEF h
      <4> QED BY <2>9, <4>1, <4>2, <4>3 DEF P!Answer
    <3> QED BY <2>9, <3>1, <3>2 DEF P!Answer
  <2> QED BY <2>5, <2>7, <2>8, <2>9
<1>2. PICK h \in HandlerType :
        /\ handler' = [handler EXCEPT ![c] = h]
        /\ handler[c].pc \notin {"none", "over"} /\ h.pc # "none"
        /\ (handler[c].run => h.run) /\ (h.pc \in {"running", "answer", "queued"} => h.run)
        /\ \/ writes' = writes
           \/ /\ Len(writes[s]) < PeerWrites /\ h.run
              /\ writes' = [writes EXCEPT ![s] = Append(writes[s], f)]
  BY <1>1
<1>3. /\ PeersTyped' /\ PeersBounded' /\ handler'[c] = h
      /\ \A d \in PeerCalls : HandlerGoesOn(d) /\ CallerGoesOn(d)
  <2>1. handler[c].pc \in {"running", "answer", "queued"} => handler[c].run
    BY <1>0 DEF CallIsTrue
  <2>2. h.pc \in {"running", "answer", "queued"} => h.run BY <1>2
  <2>3. (handler[c].run => h.run) /\ UNCHANGED <<response, caller, pending>> BY <1>1, <1>2
  <2> QED BY <1>2, <2>2, <2>3, HandlerMoves
<1>4. CASE writes' = writes
  <2>1. QueuesTyped' /\ \A d \in PeerCalls : NothingNew(d) BY <1>0, <1>1, <1>4, QueuesStay
  <2>2. \A d \in PeerCalls : CallIsTrue(d)' BY <1>0, <1>1, <1>3, <2>1, TruthGoesOn
  <2> QED BY <1>3, <2>1, <2>2 DEF PeersInv
<1>5. CASE /\ Len(writes[s]) < PeerWrites /\ h.run
           /\ writes' = [writes EXCEPT ![s] = Append(writes[s], f)]
  <2>1. /\ f \in Written(s) /\ \A d : ~AsksFor(f, d)
        /\ \A d, what : f = Reply(d, what) => d = c /\ what = "result"
    <3>1. PeerOf(c) = P!Other(s) BY EndsDiffer DEF PeerBounds
    <3> QED BY <3>1 DEF Reply, P!Frame, Written, AsksFor
  <2> HIDE DEF f, s
  <2>2. /\ QueuesTyped'
        /\ \A d \in PeerCalls :
             /\ ~AsksFor(f, d) => QueuesKept(d)
             /\ \A what : Replied(d, what)' => Replied(d, what) \/ f = Reply(d, what)
    BY <1>0, <1>1, <1>5, <2>1, Enqueued
  <2>3. ASSUME NEW d \in PeerCalls, d # c PROVE CallIsTrue(d)'
    <3>1. NothingNew(d) /\ response'[d] = response[d] /\ CallIsTrue(d)
      BY <1>0, <1>1, <2>1, <2>2, <2>3 DEF NothingNew
    <3> QED BY <1>3, <3>1, TruthGoesOn
  <2>4. CallIsTrue(c)'
    <3>1. AskedOnce(c)' /\ (Unasked(c) => Unasked(c)') /\ (Replied(c, "busy")' => Replied(c, "busy"))
      BY <1>0, <2>1, <2>2 DEF QueuesKept, CallIsTrue
    <3>2. CallIsTrue(c) /\ caller' = caller /\ response' = response BY <1>0, <1>1
    <3> QED BY <1>2, <1>3, <1>5, <3>1, <3>2 DEF CallIsTrue, Unheard, Refused, Carried
  <2> QED BY <1>3, <2>2, <2>3, <2>4 DEF PeersInv
<1> QED BY <1>2, <1>4, <1>5

\* A frame is read: a call finds a handler or is refused, a reply its caller.
LEMMA FrameIsRead ==
  ASSUME PeerBounds, PeersInv, NEW s \in P!Ends, P!Accept(s)
  PROVE  PeersInv'
<1> DEFINE o == P!Other(s)
<1>f. PICK f : f = Head(wire[o])
  OBVIOUS
<1>c. PICK c : c = f.call
  OBVIOUS
<1>0. /\ o \in P!Ends /\ o # s /\ P!Other(o) = s /\ QueuesTyped
      /\ caller \in [PeerCalls -> CallerType] /\ handler \in [PeerCalls -> HandlerType]
      /\ response \in [PeerCalls -> {"nothing", "result", "busy"}]
      /\ pending \in [P!Ends -> SUBSET PeerCalls]
      /\ \A d \in PeerCalls : CallIsTrue(d) /\ PeerOf(d) \in P!Ends
  BY EndsDiffer DEF PeersInv, PeersTyped, PeerBounds
<1>1. wire[o] # <<>> /\ wire' = [wire EXCEPT ![o] = Tail(wire[o])] /\ caller' = caller
  BY DEF P!Accept
<1>2. /\ c \in PeerCalls /\ f \in Written(o) /\ f.kind \in {"request", "notice", "reply", "cancel"}
      /\ (f.kind = "reply" => PeerOf(c) = s /\ f.what \in {"result", "busy"} /\ f = Reply(c, f.what))
      /\ (f.kind # "reply" => PeerOf(c) = o)
  <2>1. wire[o] \in Seq(Written(o)) BY <1>0 DEF QueuesTyped
  <2>2. f \in Written(o) BY <1>1, <1>f, <2>1, FrameTaken
  <2> QED BY <1>0, <1>c, <2>2 DEF Written, Reply, P!Frame
<1>3. \A d : AsksFor(f, d) <=> f.kind \in {"request", "notice"} /\ d = c BY <1>c DEF AsksFor
<1>4. \/ writes' = writes
      \/ /\ f.kind = "request" /\ Len(writes[s]) < PeerWrites
         /\ writes' = [writes EXCEPT ![s] = Append(writes[s], Reply(c, "busy"))]
         /\ handler' = handler
  BY <1>2, <1>f, <1>c DEF P!Accept, P!Busy, P!Enqueue, P!Room, P!Queue, Reply
<1>5. /\ QueuesTyped' /\ Has(wire[o], f)
      /\ \A d \in PeerCalls :
           /\ QueuesKept(d)
           /\ AsksFor(f, d) => PeerOf(d) = o /\ ~Unasked(d) /\ Unasked(d)'
           /\ \A what : Replied(d, what)' => \/ Replied(d, what)
                                             \/ writes' # writes /\ what = "busy" /\ AsksFor(f, d)
  <2>1. \/ writes' = writes
        \/ /\ AsksFor(Head(wire[o]), Head(wire[o]).call) /\ Len(writes[s]) < PeerWrites
           /\ writes' = [writes EXCEPT ![s] = Append(writes[s], Reply(Head(wire[o]).call, "busy"))]
    BY <1>3, <1>4, <1>f, <1>c
  <2>2. \A d \in PeerCalls : AskedOnce(d) BY <1>0 DEF CallIsTrue
  <2> HIDE DEF o
  <2>3. o = P!Other(s) BY DEF o
  <2>4. /\ QueuesTyped' /\ Has(wire[o], Head(wire[o]))
        /\ \A d \in PeerCalls :
             /\ QueuesKept(d)
             /\ AsksFor(Head(wire[o]), d) => PeerOf(d) = o /\ ~Unasked(d)
             /\ AskedOnce(d) /\ AsksFor(Head(wire[o]), d) => Unasked(d)'
             /\ \A what : Replied(d, what)' => \/ Replied(d, what)
                                               \/ writes' # writes /\ what = "busy" /\ AsksFor(Head(wire[o]), d)
    BY <1>0, <1>1, <2>1, <2>3, Received
  <2> QED BY <1>f, <2>2, <2>4
<1>6. \A d \in PeerCalls : CallerGoesOn(d) BY <1>0, <1>1 DEF CallerGoesOn, CallIsTrue, Refused
<1>7. CASE f.kind \in {"request", "notice"}
  <2>1. UNCHANGED <<pending, response>> BY <1>7, <1>f, <1>c DEF P!Accept
  <2>2. \/ handler' = handler
        \/ /\ handler' = [handler EXCEPT ![c].pc = "started"] /\ writes' = writes
           /\ P!Cardinality(P!Slots(s)) < PeerHandlers
    <3>1. P!Cardinality(P!Slots(s)) >= PeerHandlers \/ P!Cardinality(P!Slots(s)) < PeerHandlers
      <4>1. P!Slots(s) = SlotsOf(s) BY DEF P!Slots, P!Handling, SlotsOf
      <4>2. Cardinality(SlotsOf(s)) \in Nat BY FS_CardinalityType DEF PeersInv, PeersBounded
      <4> QED BY <4>1, <4>2, SameCardinality DEF PeerBounds
    <3> QED BY <1>7, <1>f, <1>c, <3>1 DEF P!Accept, P!Busy
  <2>3. handler[c].pc = "none" /\ ~Refused(c) /\ caller[c].pc \notin {"idle", "enqueue"}
        /\ caller[c].told # "unsent" /\ ~handler[c].run /\ ~Carried(c) /\ Unasked(c)'
    BY <1>0, <1>2, <1>3, <1>5, <1>7 DEF CallIsTrue, Unheard
  <2>4. CASE handler' = handler
    <3>1. PeersTyped' /\ PeersBounded'
      <4>1. PeersTyped' BY <1>0, <1>1, <2>1, <2>4 DEF PeersTyped
      <4>2. \A d \in PeerCalls : HandlerGoesOn(d) BY <2>4 DEF HandlerGoesOn
      <4> QED BY <1>1, <2>1, <4>1, <4>2, BoundsStay DEF PeersInv
    <3>2. ASSUME NEW d \in PeerCalls, d # c PROVE CallIsTrue(d)'
      <4>1. NothingNew(d) /\ HandlerGoesOn(d) /\ response'[d] = response[d]
        BY <1>3, <1>5, <2>1, <2>4, <3>2 DEF NothingNew, HandlerGoesOn
      <4> QED BY <1>0, <1>6, <4>1, TruthGoesOn
    <3>3. CallIsTrue(c)'
      <4>1. AskedOnce(c)' /\ (Replied(c, "result")' => Replied(c, "result"))
        BY <1>0, <1>2, <1>5 DEF QueuesKept, CallIsTrue
      <4>2. CallIsTrue(c) BY <1>0, <1>2
      <4> QED BY <1>1, <2>1, <2>3, <2>4, <4>1, <4>2 DEF CallIsTrue, Unheard, Refused, Carried
    <3> QED BY <1>5, <3>1, <3>2, <3>3 DEF PeersInv
  <2>5. CASE /\ handler' = [handler EXCEPT ![c].pc = "started"] /\ writes' = writes
             /\ P!Cardinality(P!Slots(s)) < PeerHandlers
    <3>1. /\ handler' \in [PeerCalls -> HandlerType] /\ handler'[c].pc = "started"
          /\ handler'[c].run = handler[c].run
          /\ \A d \in PeerCalls : d # c => handler'[d] = handler[d]
      BY <1>0, <1>2, <2>5 DEF HandlerType, HandlerPcs
    <3>2. PeersTyped' BY <1>0, <1>1, <2>1, <3>1 DEF PeersTyped
    <3>3. PeersBounded'
      <4> SUFFICES ASSUME NEW t \in P!Ends
                   PROVE  /\ IsFiniteSet(pending'[t]) /\ Cardinality(pending'[t]) <= PeerPending
                          /\ IsFiniteSet(SlotsOf(t)') /\ Cardinality(SlotsOf(t)') <= PeerHandlers
                          /\ \A d \in pending'[t] : PeerOf(d) = t /\ caller'[d].pc \notin {"idle", "returned"}
        BY DEF PeersBounded
      <4>1. /\ IsFiniteSet(pending[t]) /\ Cardinality(pending[t]) <= PeerPending
            /\ \A d \in pending[t] : PeerOf(d) = t /\ caller[d].pc \notin {"idle", "returned"}
            /\ IsFiniteSet(SlotsOf(t)) /\ Cardinality(SlotsOf(t)) <= PeerHandlers
        BY DEF PeersInv, PeersBounded
      <4>2. IsFiniteSet(SlotsOf(t)') /\ Cardinality(SlotsOf(t)') <= PeerHandlers
        <5>1. CASE t = s
          <6> DEFINE x == SlotsOf(t)
          <6>1. SlotsOf(t)' \subseteq x \cup {c} BY <1>0, <3>1 DEF SlotsOf
          <6>2. Cardinality(x) < PeerHandlers
            <7>1. P!Slots(s) = SlotsOf(s) BY DEF P!Slots, P!Handling, SlotsOf
            <7> QED BY <2>5, <5>1, <7>1, SameCardinality
          <6> HIDE DEF x
          <6>3. IsFiniteSet(x) BY <4>1 DEF x
          <6>4. /\ IsFiniteSet(x \cup {c}) /\ Cardinality(x) \in Nat
                /\ Cardinality(x \cup {c}) = IF c \in x THEN Cardinality(x) ELSE Cardinality(x) + 1
            BY <6>3, FS_AddElement, FS_CardinalityType
          <6> DEFINE y == SlotsOf(t)'
                     z == x \cup {c}
          <6>5. IsFiniteSet(z) /\ y \subseteq z BY <6>1, <6>4
          <6>6. Cardinality(z) <= PeerHandlers BY <6>2, <6>4 DEF PeerBounds
          <6> HIDE DEF y, z
          <6>7. IsFiniteSet(y) /\ Cardinality(y) <= Cardinality(z) /\ Cardinality(y) \in Nat /\ Cardinality(z) \in Nat
            BY <6>5, FS_Subset, FS_CardinalityType
          <6>8. IsFiniteSet(y) /\ Cardinality(y) <= PeerHandlers BY <6>6, <6>7 DEF PeerBounds
          <6> QED BY <6>8 DEF y
        <5>2. CASE t # s
          <6>1. SlotsOf(t)' = SlotsOf(t)
            <7>1. PeerOf(c) = o /\ t = o BY <1>0, <1>2, <1>7, <5>2 DEF P!Ends
            <7> QED BY <3>1, <7>1 DEF SlotsOf
          <6> QED BY <4>1, <6>1
        <5> QED BY <5>1, <5>2
      <4> QED BY <1>1, <2>1, <4>1, <4>2
    <3>4. ASSUME NEW d \in PeerCalls, d # c PROVE CallIsTrue(d)'
      <4>1. NothingNew(d) /\ HandlerGoesOn(d) /\ response'[d] = response[d]
        BY <1>5, <2>1, <2>5, <3>1, <3>4 DEF NothingNew, HandlerGoesOn
      <4> QED BY <1>0, <1>6, <4>1, TruthGoesOn
    <3>5. CallIsTrue(c)'
      <4>1. /\ AskedOnce(c)' /\ (Replied(c, "result")' => Replied(c, "result"))
            /\ (Replied(c, "busy")' => Replied(c, "busy"))
        BY <1>0, <1>2, <1>5, <2>5 DEF QueuesKept, CallIsTrue
      <4>2. CallIsTrue(c) BY <1>0, <1>2
      <4> QED BY <1>1, <2>1, <2>3, <3>1, <4>1, <4>2 DEF CallIsTrue, Unheard, Refused, Carried
    <3> QED BY <1>5, <3>2, <3>3, <3>4, <3>5 DEF PeersInv
  <2> QED BY <2>2, <2>4, <2>5
<1>8. CASE f.kind \in {"reply", "cancel"}
  <2>0. \A d : ~AsksFor(f, d) BY <1>3, <1>8
  <2>1. /\ UNCHANGED <<writes, handler>>
        /\ \/ response' = response
           \/ f.kind = "reply" /\ response' = [response EXCEPT ![c] = f.what]
        /\ pending' = pending \/ pending' = [pending EXCEPT ![s] = pending[s] \ {c}]
    BY <1>8, <1>f, <1>c DEF P!Accept
  <2>2. \A d \in PeerCalls : NothingNew(d) /\ HandlerGoesOn(d)
    BY <1>5, <2>0, <2>1 DEF NothingNew, HandlerGoesOn
  <2>3. PeersTyped' BY <1>0, <1>1, <1>2, <2>1 DEF PeersTyped
  <2>4. PeersBounded'
    <3>1. \A t \in P!Ends : pending'[t] \subseteq pending[t] BY <1>0, <2>1
    <3> QED BY <1>1, <2>2, <3>1, BoundsStay DEF PeersInv
  <2>5. ASSUME NEW d \in PeerCalls PROVE CallIsTrue(d)'
    <3>1. CASE response'[d] = response[d] BY <1>0, <1>6, <2>2, <3>1, TruthGoesOn
    <3>2. CASE response'[d] # response[d]
      <4>1. d = c /\ f.kind = "reply" /\ response'[d] = f.what BY <1>0, <1>2, <2>1, <3>2
      <4>2. Replied(d, f.what) /\ f.what \in {"result", "busy"}
        BY <1>0, <1>2, <1>5, <4>1 DEF Replied
      <4>3. /\ AskedOnce(d)' /\ (Unasked(d) => Unasked(d)') /\ CallIsTrue(d)
            /\ (Replied(d, "busy")' => Replied(d, "busy")) /\ (Replied(d, "result")' => Replied(d, "result"))
        BY <1>0, <2>2 DEF NothingNew, QueuesKept, CallIsTrue
      <4>4. (response'[d] = "busy" => Refused(d)) /\ (response'[d] = "result" => Carried(d))
        BY <4>1, <4>2 DEF Refused, Carried
      <4> QED BY <1>1, <2>1, <4>3, <4>4 DEF CallIsTrue, Unheard, Refused, Carried
    <3> QED BY <3>1, <3>2
  <2> QED BY <1>5, <2>3, <2>4, <2>5 DEF PeersInv
<1> QED BY <1>2, <1>7, <1>8

\* Contexts end and ends close: no frame moves.
LEMMA PeersLeave ==
  ASSUME PeerBounds, PeersInv,
         \/ \E c \in PeerCalls : P!ContextEnds(c)
         \/ \E s \in P!Ends : P!EndOfFile(s) \/ P!End(s)
         \/ UNCHANGED P!vars
  PROVE  PeersInv'
<1>1. UNCHANGED <<caller, pending, response, handler, writes, wire>>
  BY DEF P!ContextEnds, P!EndOfFile, P!End, P!vars
<1>2. QueuesTyped' /\ \A c \in PeerCalls : NothingNew(c) /\ HandlerGoesOn(c)
  BY <1>1, QueuesStay DEF PeersInv, HandlerGoesOn
<1>3. \A c \in PeerCalls : CallerGoesOn(c)
  BY <1>1 DEF CallerGoesOn, PeersInv, CallIsTrue, Refused
<1>4. PeersTyped' /\ UNCHANGED response BY <1>1 DEF PeersInv, PeersTyped
<1>5. \A t \in P!Ends : pending'[t] \subseteq pending[t] BY <1>1
<1>6. \A t \in P!Ends : \A c \in pending'[t] :
        caller'[c].pc = caller[c].pc \/ caller'[c].pc \notin {"idle", "returned"}
  BY <1>1
<1> QED BY <1>2, <1>3, <1>4, <1>5, <1>6, PeersGoOn

LEMMA PeersStep == PeerBounds /\ PeersInv /\ [P!Next]_P!vars => PeersInv'
<1> SUFFICES ASSUME PeerBounds, PeersInv, [P!Next]_P!vars PROVE PeersInv'
  OBVIOUS
<1>1. ASSUME NEW c \in PeerCalls, P!Call(c) \/ P!Notify(c) \/ P!CallSteps(c) \/ P!ContextEnds(c)
      PROVE  PeersInv'
  BY <1>1, CallBegins, CallIsOffered, CallGoesOn, PeersLeave DEF P!CallSteps
<1>2. ASSUME NEW c \in PeerCalls, P!Dispatch(c) \/ P!Handle(c) \/ P!Answer(c) \/ P!Abandon(c)
      PROVE  PeersInv'
  BY <1>2, HandlersGoOn
<1>3. ASSUME NEW s \in P!Ends, P!EndSteps(s) \/ P!Stalls(s) \/ P!End(s) PROVE PeersInv'
  BY <1>3, PeersWrite, FrameIsRead, PeersLeave DEF P!EndSteps
<1>4. CASE UNCHANGED P!vars BY <1>4, PeersLeave
<1> QED BY <1>1, <1>2, <1>3, <1>4 DEF P!Next

LEMMA PeersKeepTheirWord == PeersInv => P!TypeOK /\ P!ToldIsTrue
<1> SUFFICES ASSUME PeersInv PROVE P!TypeOK /\ P!ToldIsTrue
  OBVIOUS
<1>1. \A s \in P!Ends : P!Slots(s) = SlotsOf(s) BY DEF P!Slots, P!Handling, SlotsOf
<1>2. P!TypeOK
  BY <1>1, SameCardinality
  DEF PeersInv, PeersTyped, PeersBounded, QueuesTyped, CallerType, HandlerType, HandlerPcs, Pcs, P!TypeOK, P!At
<1>3. P!ToldIsTrue BY DEF PeersInv, CallIsTrue, Carried, Refused, Unheard, P!ToldIsTrue
<1> QED BY <1>2, <1>3

\* However the two ends call, give up, stall and close: who is told a result was answered by a
\* handler that ran, and who was refused or could not send was heard by none (peer.go:214).
THEOREM ToldIsSo == ASSUME PeerBounds PROVE P!Spec => [](P!TypeOK /\ P!ToldIsTrue)
<1>1. P!Init => PeersInv BY PeersBegin
<1>2. PeersInv /\ [P!Next]_P!vars => PeersInv' BY PeersStep
<1>3. PeersInv => P!TypeOK /\ P!ToldIsTrue BY PeersKeepTheirWord
<1> QED BY <1>1, <1>2, <1>3, PTL DEF P!Spec

(* The host and its Cores *)

HostBounds ==
  /\ MaxCores \in Nat /\ HostQueue \in Nat
  /\ HostRequests \subseteq [kind : {"inline", "normal", "read"}, n : Nat]

Fields == {"life", "input", "eof", "term", "loop", "now", "queue", "closed", "worker", "cancelled",
           "output", "events"}
Shaped(c) == DOMAIN c = Fields /\ c = [f \in Fields |-> c[f]]

\* What a step of the Core does to its process: it ends it, or does not touch it.
Moves(c, d) ==
  /\ Shaped(d)
  /\ \/ d.life = "ended"
     \/ d.life = c.life /\ d.eof = c.eof /\ d.term = c.term /\ d.events = c.events

Working(c) == c.life = "up" /\ ~c.eof /\ ~c.term

\* The Core at work is the one the host uses: another is started only when there is none, and
\* on macOS there is no other.
CoresInv ==
  /\ started \in 0 .. MaxCores /\ (platform = "macos" => started <= 1)
  /\ host \in [up : BOOLEAN, current : 0 .. started, starting : BOOLEAN,
               closing : {"no", "asked", "waiting", "closed"}, child : 0 .. started]
  /\ \A r \in hostPending : r.kind = "initialize" => r.n \in 1 .. started
  /\ DOMAIN core = H!Cores /\ core = [p \in H!Cores |-> core[p]]
  /\ \A p \in H!Cores :
       /\ Shaped(core[p])
       /\ core[p].events # {} => core[p].life = "ended"
       /\ core[p].life # "none" => p <= started
       /\ p > started => core[p].events = {}
       /\ Working(core[p]) => p = host.current

LEMMA CoresStart == HostBounds /\ H!Init => CoresInv
<1> SUFFICES ASSUME HostBounds, H!Init PROVE CoresInv
  OBVIOUS
<1>1. Shaped(H!Fresh) /\ H!Fresh.life = "none" /\ H!Fresh.events = {}
  BY DEF Shaped, H!Fresh, Fields
<1>2. core = [p \in H!Cores |-> H!Fresh] BY DEF H!Init
<1> QED BY <1>1, <1>2 DEF HostBounds, H!Init, CoresInv, H!Cores, Working, H!None

LEMMA FieldMoves ==
  ASSUME NEW c, Shaped(c), NEW d, Moves(c, d),
         NEW f \in Fields \ {"life", "eof", "term", "events"}, NEW v
  PROVE  Moves(c, [d EXCEPT ![f] = v])
BY DEF Shaped, Moves, Fields

LEMMA EndMoves == ASSUME NEW c, NEW d, Shaped(d) PROVE Moves(c, H!Ended(d))
BY DEF Shaped, Moves, Fields, H!Ended, H!Fresh

LEMMA AnswerMoves ==
  ASSUME NEW c, Shaped(c), NEW d, Moves(c, d), NEW r
  PROVE  Moves(c, H!Answered(d, r))
<1>1. Moves(c, [d EXCEPT !.output = Append(d.output, r)]) BY FieldMoves DEF Fields
<1>2. Moves(c, H!Ended(d)) BY EndMoves DEF Moves
<1> QED BY <1>1, <1>2 DEF H!Answered

\* A step of one Core.
LEMMA CoreMoves ==
  ASSUME CoresInv, NEW p \in H!Cores, core[p].life = "up",
         NEW d, Moves(core[p], d), core' = [core EXCEPT ![p] = d],
         UNCHANGED <<platform, host, started, hostPending>>
  PROVE  CoresInv'
<1>1. p <= started /\ core'[p] = d BY DEF CoresInv
<1>2. \A q \in H!Cores : q # p => core'[q] = core[q] BY DEF CoresInv
<1>3. core' = [q \in H!Cores |-> core'[q]] /\ DOMAIN core' = H!Cores BY DEF CoresInv
<1>4. Shaped(d) /\ (d.events # {} => d.life = "ended") /\ (Working(d) => p = host.current)
  BY <1>1 DEF CoresInv, Moves, Working
<1>5. p \in 1 .. MaxCores /\ started \in Nat BY DEF CoresInv, H!Cores
<1> QED BY <1>1, <1>2, <1>3, <1>4, <1>5 DEF CoresInv

LEMMA CoresWork ==
  ASSUME CoresInv, NEW p \in H!Cores, H!CoreSteps(p) \/ H!Crash(p)
  PROVE  CoresInv'
<1> DEFINE c == core[p]
<1> USE DEF Fields
<1>1. Shaped(c) /\ Moves(c, c) BY DEF CoresInv, Moves
<1>2. \E d : Moves(c, d) /\ core' = [core EXCEPT ![p] = d]
  <2>1. CASE H!ReadLine(p)
    <3> DEFINE d == [c EXCEPT !.input = Tail(c.input)]
               r == Head(c.input)
    <3>1. Moves(c, d) BY <1>1, FieldMoves
    <3>2. CASE core' = [core EXCEPT ![p] = [d EXCEPT !.loop = "inline", !.now = r]]
      <4>1. Moves(c, [d EXCEPT !.loop = "inline"]) BY <1>1, <3>1, FieldMoves
      <4>2. Moves(c, [[d EXCEPT !.loop = "inline"] EXCEPT !.now = r]) BY <1>1, <4>1, FieldMoves
      <4> QED BY <3>2, <4>2
    <3>3. CASE core' = [core EXCEPT ![p] = [d EXCEPT !.loop = "shutdown", !.closed = TRUE,
                                                     !.cancelled = TRUE, !.now = r]]
      <4>1. Moves(c, [d EXCEPT !.loop = "shutdown"]) BY <1>1, <3>1, FieldMoves
      <4>2. Moves(c, [[d EXCEPT !.loop = "shutdown"] EXCEPT !.closed = TRUE])
        BY <1>1, <4>1, FieldMoves
      <4>3. Moves(c, [[[d EXCEPT !.loop = "shutdown"] EXCEPT !.closed = TRUE] EXCEPT !.cancelled = TRUE])
        BY <1>1, <4>2, FieldMoves
      <4>4. Moves(c, [[[[d EXCEPT !.loop = "shutdown"] EXCEPT !.closed = TRUE]
                        EXCEPT !.cancelled = TRUE] EXCEPT !.now = r])
        BY <1>1, <4>3, FieldMoves
      <4> QED BY <3>3, <4>4
    <3>4. CASE core' = [core EXCEPT ![p] = [d EXCEPT !.queue = [d.queue EXCEPT ![r.kind] = Append(d.queue[r.kind], r)]]]
      <4>1. Moves(c, [d EXCEPT !.queue = [d.queue EXCEPT ![r.kind] = Append(d.queue[r.kind], r)]])
        BY <1>1, <3>1, FieldMoves
      <4> QED BY <3>4, <4>1
    <3>5. CASE core' = [core EXCEPT ![p] = H!Answered(d, r)] BY <1>1, <3>1, <3>5, AnswerMoves
    <3> HIDE DEF d
    <3>6. d = [c EXCEPT !.input = Tail(c.input)] BY DEF d
    <3> QED BY <2>1, <3>2, <3>3, <3>4, <3>5, <3>6 DEF H!ReadLine, H!Set
  <2>2. CASE H!HandleInline(p)
    <3>1. Moves(c, [c EXCEPT !.loop = "read"]) BY <1>1, FieldMoves
    <3>2. Moves(c, [[c EXCEPT !.loop = "read"] EXCEPT !.now = H!Nothing])
      BY <1>1, <3>1, FieldMoves
    <3>3. Moves(c, H!Answered([c EXCEPT !.loop = "read", !.now = H!Nothing], c.now))
      BY <1>1, <3>2, AnswerMoves
    <3> QED BY <2>2, <3>3 DEF H!HandleInline, H!Set
  <2>3. ASSUME NEW k \in H!Queues, H!Take(p, k) PROVE \E d : Moves(c, d) /\ core' = [core EXCEPT ![p] = d]
    <3> DEFINE d == [c EXCEPT !.queue = [c.queue EXCEPT ![k] = Tail(c.queue[k])]]
    <3>1. Moves(c, d) BY <1>1, FieldMoves
    <3>2. Moves(c, [d EXCEPT !.worker = [d.worker EXCEPT ![k] = Head(c.queue[k])]])
      BY <1>1, <3>1, FieldMoves
    <3>3. core' = [core EXCEPT ![p] = d]
          \/ core' = [core EXCEPT ![p] = [d EXCEPT !.worker = [d.worker EXCEPT ![k] = Head(c.queue[k])]]]
      BY <2>3 DEF H!Take, H!Set
    <3> QED BY <3>1, <3>2, <3>3
  <2>4. ASSUME NEW k \in H!Queues, H!Handle(p, k) PROVE \E d : Moves(c, d) /\ core' = [core EXCEPT ![p] = d]
    <3> DEFINE d == [c EXCEPT !.worker = [c.worker EXCEPT ![k] = H!Nothing]]
    <3>1. Moves(c, d) BY <1>1, FieldMoves
    <3>2. Moves(c, H!Answered(d, c.worker[k])) BY <1>1, <3>1, AnswerMoves
    <3>3. core' = [core EXCEPT ![p] = H!Answered(d, c.worker[k])] BY <2>4 DEF H!Handle, H!Set
    <3> QED BY <3>2, <3>3
  <2>5. /\ Moves(c, H!Leaves(c)) /\ Moves(c, [H!Leaves(c) EXCEPT !.cancelled = TRUE])
    <3>1. Moves(c, [c EXCEPT !.loop = "drain"]) BY <1>1, FieldMoves
    <3>2. Moves(c, [[c EXCEPT !.loop = "drain"] EXCEPT !.closed = TRUE])
      BY <1>1, <3>1, FieldMoves
    <3>3. Moves(c, H!Leaves(c)) BY <3>2 DEF H!Leaves
    <3> QED BY <1>1, <3>3, FieldMoves
  <2>6. CASE H!InputEnds(p) BY <2>5, <2>6 DEF H!InputEnds, H!Set
  <2>7. CASE H!Terminated(p) BY <2>5, <2>7 DEF H!Terminated, H!Set
  <2>8. CASE H!CloseCore(p)
    <3>1. Moves(c, H!Ended(c)) BY <1>1, EndMoves
    <3>2. Moves(c, H!Answered(c, c.now)) BY <1>1, AnswerMoves
    <3>3. Moves(c, H!Ended(H!Answered(c, c.now))) BY <3>2, EndMoves DEF Moves
    <3> QED BY <2>8, <3>1, <3>3 DEF H!CloseCore, H!Set
  <2>9. CASE H!Crash(p) BY <1>1, <2>9, EndMoves DEF H!Crash
  <2> QED BY <2>1, <2>2, <2>3, <2>4, <2>6, <2>7, <2>8, <2>9 DEF H!CoreSteps
<1>3. /\ c.life = "up" /\ UNCHANGED <<platform, host, started, hostPending>>
  BY DEF H!CoreSteps, H!ReadLine, H!HandleInline, H!InputEnds, H!Terminated, H!CloseCore, H!Take,
         H!Handle, H!Crash, H!Set, H!Up
<1> QED BY <1>2, <1>3, CoreMoves

\* The host's own state, while no Core begins to work.
LEMMA HostMoves ==
  ASSUME CoresInv,
         host' \in [up : BOOLEAN, current : 0 .. started, starting : BOOLEAN,
                    closing : {"no", "asked", "waiting", "closed"}, child : 0 .. started],
         UNCHANGED <<platform, started>>,
         \A r \in hostPending' : r.kind = "initialize" => r.n \in 1 .. started,
         DOMAIN core' = H!Cores, core' = [p \in H!Cores |-> core'[p]],
         \A p \in H!Cores :
           /\ Shaped(core'[p])
           /\ core'[p].events # {} => core'[p].life = "ended"
           /\ core'[p].life # "none" => core[p].life # "none"
           /\ core'[p].events # {} => core[p].life # "none"
           /\ Working(core'[p]) => Working(core[p]) /\ host'.current = host.current
  PROVE  CoresInv'
<1>1. \A p \in H!Cores :
        /\ core'[p].life # "none" => p <= started
        /\ p > started => core'[p].events = {}
        /\ Working(core'[p]) => p = host'.current
  <2> SUFFICES ASSUME NEW p \in H!Cores
               PROVE  /\ core'[p].life # "none" => p <= started
                      /\ p > started => core'[p].events = {}
                      /\ Working(core'[p]) => p = host'.current
    OBVIOUS
  <2>1. p \in Int /\ started \in Int /\ (core[p].life # "none" => p <= started)
    BY DEF CoresInv, H!Cores
  <2> QED BY <2>1 DEF CoresInv
<1> QED BY <1>1 DEF CoresInv

LEMMA HostStarts == ASSUME HostBounds, CoresInv, H!Start PROVE CoresInv'
<1> DEFINE p == started + 1
           d == [core[p] EXCEPT !.life = "up", !.input = <<H!Initialize(p)>>]
<1>1. /\ p \in H!Cores /\ started' = p /\ p <= MaxCores /\ started \in Nat /\ host.current = 0
      /\ host' = [host EXCEPT !.current = p, !.starting = TRUE]
      /\ hostPending' = hostPending \cup {H!Initialize(p)}
      /\ core' = [core EXCEPT ![p].life = "up", ![p].input = <<H!Initialize(p)>>]
      /\ UNCHANGED platform
  BY DEF HostBounds, CoresInv, H!Start, H!Cores, H!None
<1>2. Shaped(core[p]) /\ core[p].events = {} BY <1>1 DEF CoresInv
<1>3. core' = [core EXCEPT ![p] = d] BY <1>1
<1>4. Shaped(d) /\ d.events = {} BY <1>2 DEF Shaped, Fields
<1> HIDE DEF d
<1>5. /\ core'[p] = d /\ \A q \in H!Cores : q # p => core'[q] = core[q]
      /\ DOMAIN core' = H!Cores /\ core' = [q \in H!Cores |-> core'[q]]
  <2>1. p \in H!Cores /\ DOMAIN core = H!Cores /\ core = [q \in H!Cores |-> core[q]]
    BY <1>1 DEF CoresInv
  <2> HIDE DEF p
  <2> QED BY <1>3, <2>1
<1>6. host' \in [up : BOOLEAN, current : 0 .. started', starting : BOOLEAN,
                 closing : {"no", "asked", "waiting", "closed"}, child : 0 .. started']
      /\ host'.current = p
  <2>1. host \in [up : BOOLEAN, current : 0 .. started, starting : BOOLEAN,
                  closing : {"no", "asked", "waiting", "closed"}, child : 0 .. started]
    BY DEF CoresInv
  <2>2. p \in 0 .. started' /\ 0 .. started \subseteq 0 .. started' BY <1>1
  <2> QED BY <1>1, <2>1, <2>2
<1>7. \A q \in H!Cores : q # p => ~Working(core[q]) BY <1>1 DEF CoresInv, H!Cores
<1>8. started' \in 0 .. MaxCores /\ (platform' = "macos" => started' <= 1)
  BY <1>1 DEF H!Start, CoresInv
<1>9. \A r \in hostPending' : r.kind = "initialize" => r.n \in 1 .. started'
  BY <1>1 DEF CoresInv, H!Initialize
<1>10. \A q \in H!Cores : q \in Int /\ (q > started' => q > started /\ q # p) /\ (q <= started => q <= started')
  BY <1>1 DEF H!Cores
<1> QED BY <1>1, <1>4, <1>5, <1>6, <1>7, <1>8, <1>9, <1>10 DEF CoresInv

HostType ==
  [up : BOOLEAN, current : 0 .. started, starting : BOOLEAN,
   closing : {"no", "asked", "waiting", "closed"}, child : 0 .. started]

\* The host does something to one Core, and does not make it work.
LEMMA HostTouches ==
  ASSUME CoresInv, host' \in HostType, UNCHANGED <<platform, started>>,
         \A r \in hostPending' : r.kind = "initialize" => r.n \in 1 .. started,
         NEW p \in H!Cores, NEW d, Shaped(d), core' = [core EXCEPT ![p] = d],
         d.events # {} => d.life = "ended" /\ core[p].life # "none",
         d.life # "none" => core[p].life # "none",
         Working(d) => Working(core[p]),
         host'.current = host.current \/ \A q \in H!Cores : ~Working(core'[q])
  PROVE  CoresInv'
<1>1. /\ DOMAIN core' = H!Cores /\ core' = [q \in H!Cores |-> core'[q]]
      /\ core'[p] = d /\ \A q \in H!Cores : q # p => core'[q] = core[q]
  BY DEF CoresInv
<1>2. \A q \in H!Cores :
        /\ Shaped(core'[q])
        /\ core'[q].events # {} => core'[q].life = "ended"
        /\ core'[q].life # "none" => core[q].life # "none"
        /\ core'[q].events # {} => core[q].life # "none"
        /\ Working(core'[q]) => Working(core[q]) /\ host'.current = host.current
  BY <1>1 DEF CoresInv
<1> QED BY <1>1, <1>2, HostMoves DEF HostType

\* The host does nothing to a Core.
LEMMA HostAlone ==
  ASSUME CoresInv, host' \in HostType, UNCHANGED <<platform, started, core>>,
         \A r \in hostPending' : r.kind = "initialize" => r.n \in 1 .. started,
         host'.current = host.current \/ \A q \in H!Cores : ~Working(core[q])
  PROVE  CoresInv'
<1>1. \A q \in H!Cores :
        /\ Shaped(core'[q])
        /\ core'[q].events # {} => core'[q].life = "ended"
        /\ core'[q].life # "none" => core[q].life # "none"
        /\ core'[q].events # {} => core[q].life # "none"
        /\ Working(core'[q]) => Working(core[q]) /\ host'.current = host.current
  BY DEF CoresInv
<1>2. DOMAIN core' = H!Cores /\ core' = [p \in H!Cores |-> core'[p]] BY DEF CoresInv
<1> QED BY <1>1, <1>2, HostMoves DEF HostType

LEMMA HostWorks ==
  ASSUME HostBounds, CoresInv, H!HostSteps
  PROVE  CoresInv'
<1>1. /\ host \in HostType /\ \A r \in hostPending : r.kind = "initialize" => r.n \in 1 .. started
      /\ started \in 0 .. MaxCores /\ MaxCores \in Nat
      /\ \A q \in H!Cores : Shaped(core[q]) /\ (core[q].events # {} => core[q].life = "ended")
                            /\ (Working(core[q]) => q = host.current /\ q <= started)
  BY DEF HostBounds, CoresInv, HostType, Working
<1>2. CASE H!Start BY <1>2, HostStarts
<1>3. ASSUME NEW r \in HostRequests, H!Request(r) PROVE CoresInv'
  <2>1. r.kind # "initialize" /\ UNCHANGED <<platform, host, started>>
    BY <1>3 DEF HostBounds, H!Request
  <2>2. CASE H!Up(host.current)
    <3> DEFINE p == host.current
               d == [core[p] EXCEPT !.input = Append(core[p].input, r)]
    <3>1. p \in H!Cores /\ core' = [core EXCEPT ![p] = d] /\ hostPending' = hostPending \cup {r}
      BY <1>1, <1>3, <2>2 DEF H!Request, H!Cores, H!None, HostType
    <3> HIDE DEF p
    <3>2. Shaped(d) /\ d.events = core[p].events /\ d.life = core[p].life /\ d.eof = core[p].eof
          /\ d.term = core[p].term
      <4>1. Shaped(core[p]) BY <1>1, <3>1
      <4> QED BY <4>1 DEF Shaped, Fields
    <3> HIDE DEF d
    <3>3. d.events # {} => d.life = "ended" /\ core[p].life # "none" BY <1>1, <3>1, <3>2
    <3>4. host' \in HostType /\ host'.current = host.current /\ (Working(d) => Working(core[p]))
      BY <1>1, <2>1, <3>2 DEF Working
    <3> QED BY <1>1, <2>1, <3>1, <3>2, <3>3, <3>4, HostTouches
  <2>3. CASE ~H!Up(host.current) BY <1>1, <1>3, <2>1, <2>3, HostAlone DEF H!Request
  <2> QED BY <2>2, <2>3
<1>4. ASSUME NEW p \in H!Cores, H!Receive(p) PROVE CoresInv'
  <2> DEFINE d == [core[p] EXCEPT !.output = Tail(core[p].output)]
  <2>1. /\ core' = [core EXCEPT ![p] = d] /\ hostPending' \subseteq hostPending
        /\ host' \in HostType /\ host'.current = host.current /\ UNCHANGED <<platform, started>>
    BY <1>1, <1>4 DEF H!Receive, HostType
  <2>2. Shaped(d) /\ d.events = core[p].events /\ d.life = core[p].life /\ d.eof = core[p].eof
        /\ d.term = core[p].term
    <3>1. Shaped(core[p]) BY <1>1
    <3> QED BY <3>1 DEF Shaped, Fields
  <2> HIDE DEF d
  <2>3. d.events # {} => d.life = "ended" /\ core[p].life # "none" BY <1>1, <2>2
  <2>4. Working(d) => Working(core[p]) BY <2>2 DEF Working
  <2> QED BY <1>1, <2>1, <2>2, <2>3, <2>4, HostTouches
<1>5. ASSUME NEW r \in hostPending, H!TimesOut(r) PROVE CoresInv'
  <2>1. hostPending' \subseteq hostPending /\ UNCHANGED <<platform, started>>
    BY <1>5 DEF H!TimesOut
  <2>2. CASE r.kind = "initialize" /\ platform = "macos"
    <3> DEFINE p == r.n
               d == [core[p] EXCEPT !.term = H!Up(p)]
    <3>1. /\ host' = [host EXCEPT !.starting = FALSE, !.current = 0]
          /\ core' = [core EXCEPT ![p] = d]
          /\ p \in 1 .. started /\ started = 1
      BY <1>1, <1>5, <2>2 DEF H!TimesOut, H!Uninitialized, H!None, CoresInv
    <3>2. p \in H!Cores /\ p = 1 BY <1>1, <3>1 DEF H!Cores
    <3>3. Shaped(d) /\ d.events = core[p].events /\ d.life = core[p].life /\ d.eof = core[p].eof
          /\ d.term = H!Up(p)
      <4>1. Shaped(core[p]) BY <1>1, <3>2
      <4> QED BY <4>1 DEF Shaped, Fields
    <3> HIDE DEF d
    <3>4. ~Working(d) BY <3>3 DEF Working, H!Up
    <3>5. \A q \in H!Cores : ~Working(core'[q])
      <4> SUFFICES ASSUME NEW q \in H!Cores PROVE ~Working(core'[q])
        OBVIOUS
      <4>1. CASE q = p BY <3>1, <3>2, <3>4, <4>1 DEF CoresInv
      <4>2. CASE q # p
        <5>1. core'[q] = core[q] BY <3>1, <4>2 DEF CoresInv
        <5> QED BY <1>1, <3>1, <3>2, <4>2, <5>1 DEF H!Cores
      <4> QED BY <4>1, <4>2
    <3>6. host' \in HostType
      <4>1. 0 \in 0 .. started /\ started' = started BY <1>1, <2>1
      <4> QED BY <1>1, <3>1, <4>1 DEF HostType
    <3>7. d.events # {} => d.life = "ended" /\ core[p].life # "none" BY <1>1, <3>2, <3>3
    <3> QED BY <1>1, <2>1, <3>1, <3>2, <3>3, <3>4, <3>5, <3>6, <3>7, HostTouches
  <2>3. CASE ~(r.kind = "initialize" /\ platform = "macos")
    <3>1. host' \in HostType /\ host'.current = host.current /\ UNCHANGED core
      BY <1>1, <1>5, <2>3 DEF H!TimesOut, H!Uninitialized, HostType
    <3> QED BY <1>1, <2>1, <3>1, HostAlone
  <2> QED BY <2>2, <2>3
<1>6. ASSUME NEW p \in H!Cores, H!GoneMac(p) \/ \E e \in {"close", "exit"} : H!GoneWindows(p, e)
      PROVE  CoresInv'
  <2>1. \E v : core' = [core EXCEPT ![p] = [core[p] EXCEPT !.events = v]]
    BY <1>6 DEF H!GoneMac, H!GoneWindows
  <2>2. PICK v : core' = [core EXCEPT ![p] = [core[p] EXCEPT !.events = v]] BY <2>1
  <2> DEFINE d == [core[p] EXCEPT !.events = v]
  <2>0. 0 \in 0 .. started BY <1>1
  <2>3. /\ hostPending' \subseteq hostPending /\ UNCHANGED <<platform, started>>
        /\ host' \in HostType /\ core[p].events # {}
        /\ \/ host'.current = host.current
           \/ platform = "macos" \/ p = host.current
    <3>1. CASE H!GoneMac(p) BY <1>1, <2>0, <3>1 DEF H!GoneMac, HostType, H!None
    <3>2. ASSUME NEW e \in {"close", "exit"}, H!GoneWindows(p, e)
          PROVE  /\ hostPending' \subseteq hostPending /\ UNCHANGED <<platform, started>>
                 /\ host' \in HostType /\ core[p].events # {}
                 /\ host'.current = host.current \/ p = host.current
      BY <1>1, <2>0, <3>2 DEF H!GoneWindows, HostType, H!None, H!Mine
    <3> QED BY <1>6, <3>1, <3>2
  <2>4. core[p].life = "ended" BY <1>1, <2>3
  <2>5. Shaped(d) /\ d.events = v /\ d.life = core[p].life /\ d.eof = core[p].eof
        /\ d.term = core[p].term
    <3>1. Shaped(core[p]) BY <1>1
    <3> QED BY <3>1 DEF Shaped, Fields
  <2>6. core' = [core EXCEPT ![p] = d] BY <2>2
  <2> HIDE DEF d
  <2>7. ~Working(d) /\ ~Working(core[p]) BY <2>4, <2>5 DEF Working
  <2>8. host'.current = host.current \/ \A q \in H!Cores : ~Working(core'[q])
    <3> SUFFICES ASSUME host'.current # host.current, NEW q \in H!Cores PROVE ~Working(core'[q])
      OBVIOUS
    <3>1. CASE q = p BY <2>6, <2>7, <3>1 DEF CoresInv
    <3>2. CASE q # p
      <4>1. core'[q] = core[q] BY <2>6, <3>2 DEF CoresInv
      <4>2. p <= started BY <2>4 DEF CoresInv
      <4>3. platform = "macos" => started <= 1 BY DEF CoresInv
      <4> QED BY <1>1, <2>3, <3>2, <4>1, <4>2, <4>3 DEF H!Cores
    <3> QED BY <3>1, <3>2
  <2> QED BY <1>1, <2>3, <2>4, <2>5, <2>6, <2>7, <2>8, HostTouches
<1>7. CASE H!Close
  <2>1. UNCHANGED <<platform, started>> BY <1>7 DEF H!Close
  <2>2. CASE host.current # 0 /\ H!Up(host.current)
    <3> DEFINE p == host.current
               d == [core[p] EXCEPT !.input = Append(core[p].input, H!Shutdown(p))]
    <3>1. /\ p \in H!Cores /\ core' = [core EXCEPT ![p] = d]
          /\ hostPending' = hostPending \cup {H!Shutdown(p)}
          /\ host' = [host EXCEPT !.closing = "asked", !.child = p]
      BY <1>1, <1>7, <2>2 DEF H!Close, H!Cores, H!None, HostType
    <3>2. host' \in HostType /\ host'.current = host.current BY <1>1, <2>1, <3>1 DEF HostType
    <3>3. \A r \in hostPending' : r.kind = "initialize" => r.n \in 1 .. started
      BY <1>1, <3>1 DEF H!Shutdown
    <3> HIDE DEF p
    <3>4. Shaped(core[p]) BY <1>1, <3>1
    <3>5. Shaped(d) /\ d.events = core[p].events /\ d.life = core[p].life /\ d.eof = core[p].eof
          /\ d.term = core[p].term
      BY <3>4 DEF Shaped, Fields
    <3> HIDE DEF d
    <3>6. d.events # {} => d.life = "ended" /\ core[p].life # "none" BY <1>1, <3>1, <3>5
    <3>7. Working(d) => Working(core[p]) BY <3>5 DEF Working
    <3> QED BY <1>1, <2>1, <3>1, <3>2, <3>3, <3>5, <3>6, <3>7, HostTouches
  <2>3. CASE ~(host.current # 0 /\ H!Up(host.current))
    <3>1. host' \in HostType /\ host'.current = host.current /\ UNCHANGED <<core, hostPending>>
      BY <1>1, <1>7, <2>1, <2>3 DEF H!Close, HostType, H!None
    <3> QED BY <1>1, <2>1, <3>1, HostAlone
  <2> QED BY <2>2, <2>3
<1>8. ASSUME H!EndInput \/ H!Forced PROVE CoresInv'
  <2> DEFINE p == host.child
  <2>1. /\ UNCHANGED <<platform, started>> /\ hostPending' \subseteq hostPending
        /\ host' \in HostType /\ host'.current = host.current
    BY <1>1, <1>8 DEF H!EndInput, H!Forced, HostType
  <2>2. CASE p \in H!Cores
    <3> HIDE DEF p
    <3>1. Shaped(core[p]) BY <1>1, <2>2
    <3>2. ASSUME NEW d, Shaped(d), core' = [core EXCEPT ![p] = d],
                 d.events # {} => d.life = "ended" /\ core[p].life # "none",
                 d.life # "none" => core[p].life # "none", Working(d) => Working(core[p])
          PROVE  CoresInv'
      BY <1>1, <2>1, <2>2, <3>2, HostTouches
    <3>3. CASE core' = [core EXCEPT ![p] = [core[p] EXCEPT !.eof = TRUE]]
      <4> DEFINE d == [core[p] EXCEPT !.eof = TRUE]
      <4>1. Shaped(d) /\ d.events = core[p].events /\ d.life = core[p].life /\ d.eof
        BY <3>1 DEF Shaped, Fields
      <4> HIDE DEF d
      <4>2. ~Working(d) BY <4>1 DEF Working
      <4>3. core' = [core EXCEPT ![p] = d] BY <3>3 DEF d
      <4>4. d.events # {} => d.life = "ended" /\ core[p].life # "none" BY <1>1, <2>2, <4>1
      <4> QED BY <3>2, <4>1, <4>2, <4>3, <4>4
    <3>4. CASE core' = [core EXCEPT ![p] = [core[p] EXCEPT !.term = H!Up(p)]]
      <4> DEFINE d == [core[p] EXCEPT !.term = H!Up(p)]
      <4>1. Shaped(d) /\ d.events = core[p].events /\ d.life = core[p].life /\ d.term = H!Up(p)
        BY <3>1 DEF Shaped, Fields
      <4> HIDE DEF d
      <4>2. ~Working(d) BY <4>1 DEF Working, H!Up
      <4>3. core' = [core EXCEPT ![p] = d] BY <3>4 DEF d
      <4>4. d.events # {} => d.life = "ended" /\ core[p].life # "none" BY <1>1, <2>2, <4>1
      <4> QED BY <3>2, <4>1, <4>2, <4>3, <4>4
    <3>5. CASE core' = [core EXCEPT ![p] = H!Ended(core[p])] /\ H!Up(p)
      <4> DEFINE d == H!Ended(core[p])
      <4>1. Shaped(d) /\ d.life = "ended" BY <3>1 DEF Shaped, Fields, H!Ended, H!Fresh
      <4> HIDE DEF d
      <4>2. ~Working(d) BY <4>1 DEF Working
      <4>3. core' = [core EXCEPT ![p] = d] /\ core[p].life # "none" BY <3>5 DEF d, H!Up
      <4> QED BY <3>2, <4>1, <4>2, <4>3
    <3>6. CASE UNCHANGED core BY <1>1, <2>1, <3>6, HostAlone
    <3> QED BY <1>8, <3>3, <3>4, <3>5, <3>6 DEF H!EndInput, H!Forced, p
  <2>3. CASE p \notin H!Cores
    <3>1. UNCHANGED core
      <4>1. \A d : [core EXCEPT ![p] = d] = core BY <2>3 DEF CoresInv
      <4>2. \E d : core' = [core EXCEPT ![p] = d] BY <1>8, <4>1 DEF H!EndInput, H!Forced
      <4> QED BY <4>1, <4>2
    <3> QED BY <1>1, <2>1, <3>1, HostAlone
  <2> QED BY <2>2, <2>3
<1>9. ASSUME H!HostExits \/ H!HostDies PROVE CoresInv'
  <2>1. /\ host' \in HostType /\ hostPending' = {} /\ UNCHANGED <<platform, started>>
        /\ core' = [p \in H!Cores |-> [core[p] EXCEPT !.eof = TRUE, !.events = {}]]
    <3>1. 0 \in 0 .. started BY <1>1
    <3> QED BY <1>1, <1>9, <3>1 DEF H!HostExits, H!HostDies, H!HostLeaves, HostType, H!None
  <2>2. \A p \in H!Cores : /\ Shaped(core'[p]) /\ core'[p].events = {}
                           /\ core'[p].life = core[p].life /\ core'[p].eof
    <3> SUFFICES ASSUME NEW p \in H!Cores
                 PROVE  /\ Shaped(core'[p]) /\ core'[p].events = {}
                        /\ core'[p].life = core[p].life /\ core'[p].eof
      OBVIOUS
    <3>1. Shaped(core[p]) /\ core'[p] = [core[p] EXCEPT !.eof = TRUE, !.events = {}]
      BY <1>1, <2>1
    <3> QED BY <3>1 DEF Shaped, Fields
  <2>3. DOMAIN core' = H!Cores /\ core' = [p \in H!Cores |-> core'[p]] BY <2>1
  <2>4. \A p \in H!Cores : ~Working(core'[p]) BY <2>2 DEF Working
  <2> QED BY <2>1, <2>2, <2>3, <2>4, HostMoves DEF HostType
<1> QED BY <1>2, <1>3, <1>4, <1>5, <1>6, <1>7, <1>8, <1>9 DEF H!HostSteps

LEMMA CoresStep == HostBounds /\ CoresInv /\ [H!Next]_H!vars => CoresInv'
<1> SUFFICES ASSUME HostBounds, CoresInv, [H!Next]_H!vars PROVE CoresInv'
  OBVIOUS
<1>1. CASE UNCHANGED H!vars BY <1>1 DEF CoresInv, H!vars, H!Cores, Shaped, Working
<1>2. CASE H!Next BY <1>2, CoresWork, HostWorks DEF H!Next
<1> QED BY <1>1, <1>2

LEMMA OneCoreAtWork == CoresInv => H!OneCore
<1> SUFFICES ASSUME CoresInv PROVE H!OneCore
  OBVIOUS
<1> DEFINE W == {p \in H!Cores : H!Up(p) /\ ~core[p].eof /\ ~core[p].term}
<1>1. W \subseteq {host.current} BY DEF CoresInv, Working, H!Up
<1>2. IsFiniteSet({host.current}) /\ Cardinality({host.current}) = 1 BY FS_Singleton
<1>3. Cardinality(W) <= Cardinality({host.current}) BY <1>1, <1>2, FS_Subset
<1> HIDE DEF W
<1>4. Cardinality(W) <= 1 BY <1>2, <1>3
<1>5. H!Cardinality(W) = Cardinality(W)
  BY DEF H!Cardinality, Cardinality, H!IsFiniteSet, IsFiniteSet
<1> QED BY <1>4, <1>5 DEF H!OneCore, W

\* On both platforms, however Cores crash and time out and the host leaves: one Core at most is
\* at work; whichever others are there were told to end.
THEOREM OneCoreWorks ==
  ASSUME HostBounds
  PROVE  H!Spec => []OneCore
<1>1. H!Init => CoresInv BY CoresStart
<1>2. CoresInv /\ [H!Next]_H!vars => CoresInv' BY CoresStep
<1>3. CoresInv => OneCore BY OneCoreAtWork DEF OneCore
<1> QED BY <1>1, <1>2, <1>3, PTL DEF H!Spec

\* The lines a Core has read wait in queues within their limits.
Lines == HostRequests \cup {H!Initialize(p) : p \in H!Cores} \cup {H!Shutdown(p) : p \in H!Cores}

Lined(c) ==
  /\ Shaped(c) /\ c.input \in Seq(Lines)
  /\ c.queue \in [H!Queues -> Seq(Lines)] /\ \A k \in H!Queues : Len(c.queue[k]) <= HostQueue

LinesInv == made \subseteq HostRequests /\ \A p \in H!Cores : Lined(core[p])

LEMMA FieldLined ==
  ASSUME NEW d, Lined(d), NEW f \in Fields \ {"input", "queue"}, NEW v
  PROVE  Lined([d EXCEPT ![f] = v])
BY DEF Lined, Shaped, Fields

LEMMA InputLined ==
  ASSUME NEW d, Lined(d), NEW q \in Seq(Lines)
  PROVE  Lined([d EXCEPT !.input = q])
BY DEF Lined, Shaped, Fields

LEMMA QueueLined ==
  ASSUME NEW d, Lined(d), NEW k \in H!Queues, NEW q \in Seq(Lines), Len(q) <= HostQueue
  PROVE  Lined([d EXCEPT !.queue = [d.queue EXCEPT ![k] = q]])
<1> DEFINE w == [d.queue EXCEPT ![k] = q]
<1>1. w \in [H!Queues -> Seq(Lines)] /\ \A j \in H!Queues : Len(w[j]) <= HostQueue BY DEF Lined
<1> HIDE DEF w
<1>2. Lined([d EXCEPT !.queue = w]) BY <1>1 DEF Lined, Shaped, Fields
<1> QED BY <1>2 DEF w

LEMMA EndLined == ASSUME HostBounds, NEW d, Shaped(d) PROVE Lined(H!Ended(d))
<1> DEFINE e == H!Ended(d)
<1>1. Shaped(e) /\ e.input = <<>> /\ e.queue = [k \in H!Queues |-> <<>>]
  BY DEF Shaped, Fields, H!Ended, H!Fresh
<1> HIDE DEF e
<1>2. Lined(e) BY <1>1 DEF Lined, HostBounds
<1> QED BY <1>2 DEF e

LEMMA AnswerLined == ASSUME HostBounds, NEW d, Lined(d), NEW r PROVE Lined(H!Answered(d, r))
<1>1. Lined([d EXCEPT !.output = Append(d.output, r)]) BY FieldLined DEF Fields
<1>2. Lined(H!Ended(d)) BY EndLined DEF Lined
<1> QED BY <1>1, <1>2 DEF H!Answered

LEMMA LineIsRead ==
  ASSUME NEW d, Lined(d)
  PROVE  /\ d.input # <<>> => Head(d.input) \in Lines /\ Tail(d.input) \in Seq(Lines)
         /\ \A r \in Lines : Append(d.input, r) \in Seq(Lines)
         /\ \A k \in H!Queues :
              /\ d.queue[k] # <<>> => Tail(d.queue[k]) \in Seq(Lines) /\ Len(Tail(d.queue[k])) <= Len(d.queue[k])
              /\ \A r \in Lines : /\ Append(d.queue[k], r) \in Seq(Lines)
                                  /\ Len(Append(d.queue[k], r)) = Len(d.queue[k]) + 1
              /\ Len(d.queue[k]) \in Nat /\ Len(d.queue[k]) <= HostQueue
<1>1. d.input \in Seq(Lines) /\ \A k \in H!Queues : d.queue[k] \in Seq(Lines) /\ Len(d.queue[k]) <= HostQueue
  BY DEF Lined
<1>2. \A q \in Seq(Lines) :
        /\ q # <<>> => Head(q) \in Lines /\ Tail(q) \in Seq(Lines) /\ Len(Tail(q)) <= Len(q)
        /\ \A r \in Lines : Append(q, r) \in Seq(Lines) /\ Len(Append(q, r)) = Len(q) + 1
        /\ Len(q) \in Nat
  OBVIOUS
<1> QED BY <1>1, <1>2

\* One Core is another.
LEMMA LinesMove ==
  ASSUME CoresInv, LinesInv, NEW p \in H!Cores, NEW d, Lined(d), core' = [core EXCEPT ![p] = d],
         made' \subseteq HostRequests
  PROVE  LinesInv'
<1>1. core'[p] = d /\ \A q \in H!Cores : q # p => core'[q] = core[q] BY DEF CoresInv
<1>2. \A q \in H!Cores : Lined(core'[q]) BY <1>1 DEF LinesInv
<1>3. Lines' = Lines /\ H!Cores' = H!Cores BY DEF Lines, H!Cores, H!Initialize, H!Shutdown
<1> QED BY <1>2, <1>3 DEF LinesInv, Lined

LEMMA LinesAreRead ==
  ASSUME HostBounds, CoresInv, LinesInv, NEW p \in H!Cores, H!CoreSteps(p) \/ H!Crash(p)
  PROVE  LinesInv'
<1> DEFINE c == core[p]
<1> USE DEF Fields
<1>1. Lined(c) /\ Shaped(c) BY DEF LinesInv, Lined
<1>2. \E d : Lined(d) /\ core' = [core EXCEPT ![p] = d]
  <2>1. CASE H!ReadLine(p)
    <3> DEFINE r == Head(c.input)
    <3>0. r \in Lines /\ c.input # <<>> /\ Tail(c.input) \in Seq(Lines)
      BY <1>1, <2>1, LineIsRead DEF H!ReadLine
    <3>a. PICK d : d = [c EXCEPT !.input = Tail(c.input)]
      OBVIOUS
    <3>1. Lined(d) BY <1>1, <3>0, <3>a, InputLined
    <3>2. CASE core' = [core EXCEPT ![p] = [d EXCEPT !.loop = "inline", !.now = r]]
      <4>1. Lined([d EXCEPT !.loop = "inline"]) BY <3>1, FieldLined
      <4>2. Lined([[d EXCEPT !.loop = "inline"] EXCEPT !.now = r]) BY <4>1, FieldLined
      <4> QED BY <3>2, <4>2
    <3>3. CASE core' = [core EXCEPT ![p] = [d EXCEPT !.loop = "shutdown", !.closed = TRUE,
                                                     !.cancelled = TRUE, !.now = r]]
      <4>1. Lined([d EXCEPT !.loop = "shutdown"]) BY <3>1, FieldLined
      <4>2. Lined([[d EXCEPT !.loop = "shutdown"] EXCEPT !.closed = TRUE]) BY <4>1, FieldLined
      <4>3. Lined([[[d EXCEPT !.loop = "shutdown"] EXCEPT !.closed = TRUE] EXCEPT !.cancelled = TRUE])
        BY <4>2, FieldLined
      <4>4. Lined([[[[d EXCEPT !.loop = "shutdown"] EXCEPT !.closed = TRUE]
                        EXCEPT !.cancelled = TRUE] EXCEPT !.now = r])
        BY <4>3, FieldLined
      <4> QED BY <3>3, <4>4
    <3>4. CASE /\ r.kind \in H!Queues /\ Len(d.queue[r.kind]) < HostQueue
               /\ core' = [core EXCEPT ![p] = [d EXCEPT !.queue = [d.queue EXCEPT ![r.kind] = Append(d.queue[r.kind], r)]]]
      <4>1. PICK k \in H!Queues : k = r.kind BY <3>4
      <4>2. PICK q : q = Append(d.queue[k], r)
        OBVIOUS
      <4>3. q \in Seq(Lines) /\ Len(q) <= HostQueue
        <5>1. /\ Append(d.queue[k], r) \in Seq(Lines)
              /\ Len(Append(d.queue[k], r)) = Len(d.queue[k]) + 1 /\ Len(d.queue[k]) \in Nat
          BY <3>0, <3>1, LineIsRead
        <5>2. Len(d.queue[k]) < HostQueue /\ HostQueue \in Nat BY <3>4, <4>1 DEF HostBounds
        <5> QED BY <4>2, <5>1, <5>2
      <4>4. Lined([d EXCEPT !.queue = [d.queue EXCEPT ![k] = q]]) BY <3>1, <4>3, QueueLined
      <4>5. core' = [core EXCEPT ![p] = [d EXCEPT !.queue = [d.queue EXCEPT ![k] = q]]]
        BY <3>4, <4>1, <4>2
      <4> QED BY <4>4, <4>5
    <3>5. CASE core' = [core EXCEPT ![p] = H!Answered(d, r)] BY <3>1, <3>5, AnswerLined
    <3> QED BY <2>1, <3>2, <3>3, <3>4, <3>5, <3>a DEF H!ReadLine, H!Set
  <2>2. CASE H!HandleInline(p)
    <3>1. Lined([c EXCEPT !.loop = "read"]) BY <1>1, FieldLined
    <3>2. Lined([[c EXCEPT !.loop = "read"] EXCEPT !.now = H!Nothing]) BY <3>1, FieldLined
    <3>3. Lined(H!Answered([c EXCEPT !.loop = "read", !.now = H!Nothing], c.now))
      BY <3>2, AnswerLined
    <3> QED BY <2>2, <3>3 DEF H!HandleInline, H!Set
  <2>3. ASSUME NEW k \in H!Queues, H!Take(p, k) PROVE \E d : Lined(d) /\ core' = [core EXCEPT ![p] = d]
    <3>a. PICK q : q = Tail(c.queue[k])
      OBVIOUS
    <3>0. q \in Seq(Lines) /\ Len(q) <= HostQueue
      <4>1. c.queue[k] # <<>> BY <2>3 DEF H!Take
      <4>2. q \in Seq(Lines) /\ Len(q) <= Len(c.queue[k]) /\ Len(c.queue[k]) \in Nat /\ Len(c.queue[k]) <= HostQueue
        BY <1>1, <3>a, <4>1, LineIsRead
      <4> QED BY <4>2 DEF HostBounds
    <3>b. PICK d : d = [c EXCEPT !.queue = [c.queue EXCEPT ![k] = q]]
      OBVIOUS
    <3>1. Lined(d) BY <1>1, <3>0, <3>b, QueueLined
    <3>2. Lined([d EXCEPT !.worker = [d.worker EXCEPT ![k] = Head(c.queue[k])]])
      BY <3>1, FieldLined
    <3>3. core' = [core EXCEPT ![p] = d]
          \/ core' = [core EXCEPT ![p] = [d EXCEPT !.worker = [d.worker EXCEPT ![k] = Head(c.queue[k])]]]
      BY <2>3, <3>a, <3>b DEF H!Take, H!Set
    <3> QED BY <3>1, <3>2, <3>3
  <2>4. ASSUME NEW k \in H!Queues, H!Handle(p, k) PROVE \E d : Lined(d) /\ core' = [core EXCEPT ![p] = d]
    <3> DEFINE d == [c EXCEPT !.worker = [c.worker EXCEPT ![k] = H!Nothing]]
    <3>1. Lined(d) BY <1>1, FieldLined
    <3>2. Lined(H!Answered(d, c.worker[k])) BY <3>1, AnswerLined
    <3>3. core' = [core EXCEPT ![p] = H!Answered(d, c.worker[k])] BY <2>4 DEF H!Handle, H!Set
    <3> QED BY <3>2, <3>3
  <2>5. /\ Lined(H!Leaves(c)) /\ Lined([H!Leaves(c) EXCEPT !.cancelled = TRUE])
    <3>1. Lined([c EXCEPT !.loop = "drain"]) BY <1>1, FieldLined
    <3>2. Lined([[c EXCEPT !.loop = "drain"] EXCEPT !.closed = TRUE]) BY <3>1, FieldLined
    <3>3. Lined(H!Leaves(c)) BY <3>2 DEF H!Leaves
    <3> QED BY <3>3, FieldLined
  <2>6. CASE H!InputEnds(p) BY <2>5, <2>6 DEF H!InputEnds, H!Set
  <2>7. CASE H!Terminated(p) BY <2>5, <2>7 DEF H!Terminated, H!Set
  <2>8. CASE H!CloseCore(p)
    <3>1. Lined(H!Ended(c)) BY <1>1, EndLined
    <3>2. Lined(H!Answered(c, c.now)) BY <1>1, AnswerLined
    <3>3. Lined(H!Ended(H!Answered(c, c.now))) BY <3>2, EndLined DEF Lined
    <3> QED BY <2>8, <3>1, <3>3 DEF H!CloseCore, H!Set
  <2>9. CASE H!Crash(p) BY <1>1, <2>9, EndLined DEF H!Crash
  <2> QED BY <2>1, <2>2, <2>3, <2>4, <2>6, <2>7, <2>8, <2>9 DEF H!CoreSteps
<1>3. made' = made
  BY DEF H!CoreSteps, H!ReadLine, H!HandleInline, H!InputEnds, H!Terminated, H!CloseCore, H!Take,
         H!Handle, H!Crash, H!Set
<1> QED BY <1>2, <1>3, LinesMove DEF LinesInv

LEMMA LinesAreWritten ==
  ASSUME HostBounds, CoresInv, LinesInv, H!HostSteps
  PROVE  LinesInv'
<1> USE DEF Fields
<1>0. /\ \A p \in H!Cores : Lined(core[p]) /\ Shaped(core[p])
      /\ \A p : p \notin H!Cores => \A d : [core EXCEPT ![p] = d] = core
      /\ host.current \in Nat /\ started \in Nat
  BY DEF LinesInv, Lined, CoresInv
<1>1. \/ UNCHANGED core
      \/ \E p, d : core' = [core EXCEPT ![p] = d] /\ (p \in H!Cores => Lined(d))
      \/ core' = [p \in H!Cores |-> [core[p] EXCEPT !.eof = TRUE, !.events = {}]]
  <2>1. CASE H!Start
    <3> DEFINE p == started + 1
    <3>a. PICK c : c = core[p]
      OBVIOUS
    <3>1. core' = [core EXCEPT ![p] = [[c EXCEPT !.life = "up"] EXCEPT !.input = <<H!Initialize(p)>>]]
      BY <2>1, <3>a DEF H!Start
    <3>2. p \in H!Cores => Lined([[c EXCEPT !.life = "up"] EXCEPT !.input = <<H!Initialize(p)>>])
      <4> HAVE p \in H!Cores
      <4>1. Lined([c EXCEPT !.life = "up"]) BY <1>0, <3>a, FieldLined
      <4>2. <<H!Initialize(p)>> \in Seq(Lines)
        <5>1. H!Initialize(p) \in Lines BY DEF Lines
        <5> QED BY <5>1
      <4> QED BY <4>1, <4>2, InputLined
    <3> QED BY <3>1, <3>2
  <2>2. ASSUME NEW r \in Lines, NEW p, core' = [core EXCEPT ![p].input = Append(@, r)]
        PROVE  \E q, d : core' = [core EXCEPT ![q] = d] /\ (q \in H!Cores => Lined(d))
    <3>a. PICK c : c = core[p]
      OBVIOUS
    <3>1. core' = [core EXCEPT ![p] = [c EXCEPT !.input = Append(c.input, r)]] BY <2>2, <3>a
    <3>2. p \in H!Cores => Lined([c EXCEPT !.input = Append(c.input, r)])
      BY <1>0, <3>a, LineIsRead, InputLined
    <3> QED BY <3>1, <3>2
  <2>3. ASSUME NEW r \in HostRequests, H!Request(r)
        PROVE  UNCHANGED core \/ \E q, d : core' = [core EXCEPT ![q] = d] /\ (q \in H!Cores => Lined(d))
    <3>1. r \in Lines BY DEF Lines
    <3> QED BY <2>2, <2>3, <3>1 DEF H!Request
  <2>4. ASSUME NEW p, NEW f \in Fields \ {"input", "queue"}, NEW v, core' = [core EXCEPT ![p] = [core[p] EXCEPT ![f] = v]]
        PROVE  \E q, d : core' = [core EXCEPT ![q] = d] /\ (q \in H!Cores => Lined(d))
    BY <1>0, <2>4, FieldLined
  <2>5. ASSUME NEW p \in H!Cores, H!Receive(p) \/ H!GoneMac(p) \/ \E e \in {"close", "exit"} : H!GoneWindows(p, e)
        PROVE  \E q, d : core' = [core EXCEPT ![q] = d] /\ (q \in H!Cores => Lined(d))
    <3>1. \E v : core' = [core EXCEPT ![p] = [core[p] EXCEPT !.output = v]] \/ core' = [core EXCEPT ![p] = [core[p] EXCEPT !.events = v]]
      BY <2>5 DEF H!Receive, H!GoneMac, H!GoneWindows
    <3> QED BY <2>4, <3>1
  <2>6. ASSUME NEW r \in hostPending, H!TimesOut(r)
        PROVE  UNCHANGED core \/ \E q, d : core' = [core EXCEPT ![q] = d] /\ (q \in H!Cores => Lined(d))
    <3>1. UNCHANGED core \/ \E v : core' = [core EXCEPT ![r.n] = [core[r.n] EXCEPT !.term = v]]
      BY <2>6 DEF H!TimesOut, H!Uninitialized
    <3> QED BY <2>4, <3>1
  <2>7. CASE H!Close
    <3>1. CASE host.current # 0 /\ H!Up(host.current)
      <4>1. core' = [core EXCEPT ![host.current].input = Append(@, H!Shutdown(host.current))]
        BY <2>7, <3>1 DEF H!Close, H!None
      <4>2. CASE host.current \in H!Cores
        <5>1. H!Shutdown(host.current) \in Lines BY <4>2 DEF Lines
        <5>2. \A r \in Lines : core' = [core EXCEPT ![host.current].input = Append(@, r)] =>
                \E q, d : core' = [core EXCEPT ![q] = d] /\ (q \in H!Cores => Lined(d))
          BY <2>2
        <5> QED BY <4>1, <5>1, <5>2
      <4>3. CASE host.current \notin H!Cores BY <1>0, <4>1, <4>3
      <4> QED BY <4>2, <4>3
    <3>2. CASE ~(host.current # 0 /\ H!Up(host.current)) BY <2>7, <3>2 DEF H!Close, H!None
    <3> QED BY <3>1, <3>2
  <2>8. CASE H!EndInput
    <3>1. \E v : \/ core' = [core EXCEPT ![host.child] = [core[host.child] EXCEPT !.eof = v]]
                 \/ core' = [core EXCEPT ![host.child] = [core[host.child] EXCEPT !.term = v]]
      BY <2>8 DEF H!EndInput
    <3> QED BY <2>4, <3>1
  <2>9. CASE H!Forced
    <3>1. UNCHANGED core \/ core' = [core EXCEPT ![host.child] = H!Ended(core[host.child])]
      BY <2>9 DEF H!Forced
    <3>2. host.child \in H!Cores => Lined(H!Ended(core[host.child])) BY <1>0, EndLined
    <3> QED BY <3>1, <3>2
  <2>10. CASE H!HostExits \/ H!HostDies BY <2>10 DEF H!HostExits, H!HostDies, H!HostLeaves
  <2> QED BY <2>1, <2>3, <2>5, <2>6, <2>7, <2>8, <2>9, <2>10 DEF H!HostSteps
<1>2. made' \subseteq HostRequests
  BY DEF LinesInv, H!HostSteps, H!Start, H!Request, H!Receive, H!TimesOut, H!GoneMac, H!GoneWindows, H!Close,
         H!EndInput, H!Forced, H!HostExits, H!HostDies, H!HostLeaves
<1>3. Lines' = Lines /\ H!Cores' = H!Cores BY DEF Lines, H!Cores, H!Initialize, H!Shutdown
<1>4. CASE UNCHANGED core BY <1>2, <1>3, <1>4 DEF LinesInv, Lined
<1>5. CASE \E p, d : core' = [core EXCEPT ![p] = d] /\ (p \in H!Cores => Lined(d))
  <2>1. PICK p, d : core' = [core EXCEPT ![p] = d] /\ (p \in H!Cores => Lined(d)) BY <1>5
  <2>2. CASE p \in H!Cores BY <1>2, <2>1, <2>2, LinesMove
  <2>3. CASE p \notin H!Cores BY <1>0, <1>4, <2>1, <2>3
  <2> QED BY <2>2, <2>3
<1>6. CASE core' = [p \in H!Cores |-> [core[p] EXCEPT !.eof = TRUE, !.events = {}]]
  <2>1. ASSUME NEW p \in H!Cores PROVE Lined(core'[p])
    <3>1. Lined([core[p] EXCEPT !.eof = TRUE]) BY <1>0, FieldLined
    <3>2. Lined([[core[p] EXCEPT !.eof = TRUE] EXCEPT !.events = {}]) BY <3>1, FieldLined
    <3> QED BY <1>6, <3>2
  <2> QED BY <1>2, <1>3, <2>1 DEF LinesInv, Lined
<1> QED BY <1>1, <1>4, <1>5, <1>6

LEMMA LinesStart == HostBounds /\ H!Init => LinesInv
<1> SUFFICES ASSUME HostBounds, H!Init PROVE LinesInv
  OBVIOUS
<1>1. made = {} /\ \A p \in H!Cores : core[p] = H!Fresh BY DEF H!Init
<1>2. Lined(H!Fresh)
  <2> DEFINE e == H!Fresh
  <2>1. Shaped(e) /\ e.input = <<>> /\ e.queue = [k \in H!Queues |-> <<>>]
    BY DEF Shaped, Fields, H!Fresh
  <2> HIDE DEF e
  <2>2. Lined(e) BY <2>1 DEF Lined, HostBounds
  <2> QED BY <2>2 DEF e
<1> QED BY <1>1, <1>2 DEF LinesInv

LEMMA LinesStep == HostBounds /\ CoresInv /\ LinesInv /\ [H!Next]_H!vars => LinesInv'
<1> SUFFICES ASSUME HostBounds, CoresInv, LinesInv, [H!Next]_H!vars PROVE LinesInv'
  OBVIOUS
<1>1. CASE UNCHANGED H!vars
  <2>1. UNCHANGED <<made, core>> /\ Lines' = Lines /\ H!Cores' = H!Cores
    BY <1>1 DEF H!vars, Lines, H!Cores, H!Initialize, H!Shutdown
  <2> QED BY <2>1 DEF LinesInv, Lined
<1>2. CASE H!Next BY <1>2, LinesAreRead, LinesAreWritten DEF H!Next
<1> QED BY <1>1, <1>2

\* The Cores' queues keep their limits, and the host uses and ends only Cores it started.
THEOREM HostIsTyped == ASSUME HostBounds PROVE H!Spec => []H!TypeOK
<1>1. H!Init => CoresInv /\ LinesInv BY CoresStart, LinesStart
<1>2. CoresInv /\ LinesInv /\ [H!Next]_H!vars => CoresInv' /\ LinesInv' BY CoresStep, LinesStep
<1>3. CoresInv /\ LinesInv => H!TypeOK BY DEF CoresInv, LinesInv, Lined, H!TypeOK
<1> QED BY <1>1, <1>2, <1>3, PTL DEF H!Spec

\* The processes around the Core keep what the others rest on: their types, what the supervisor
\* reports, kills and restarts, and what a caller of the private connection is told.
THEOREM ProcessesStaySound ==
  ASSUME PeerBounds, HostBounds PROVE Spec /\ P!Spec /\ H!Spec => []ProcessesSound
<1>1. Spec => []TypeOK BY SupervisorTypeOK
<1>2. Spec => []ReadyIsReady BY ReadyIsAlwaysReady
<1>3. Spec => []StartingIsPending BY StartingIsAlwaysPending
<1>4. Spec => []KilledIsClosed BY OnlyClosedIsKilled
<1>5. Spec => []RestartsBounded BY RestartsStayBounded
<1>6. P!Spec => [](P!TypeOK /\ P!ToldIsTrue) BY ToldIsSo
<1>7. H!Spec => []H!TypeOK BY HostIsTyped
<1>8. /\ TypeOK /\ ReadyIsReady /\ StartingIsPending /\ KilledIsClosed /\ RestartsBounded
      /\ P!TypeOK /\ P!ToldIsTrue /\ H!TypeOK
      => ProcessesSound
  BY DEF ProcessesSound
<1> QED BY <1>1, <1>2, <1>3, <1>4, <1>5, <1>6, <1>7, <1>8, PTL
=============================================================================
