-------------------------- MODULE InboundDelivery --------------------------
(***************************************************************************)
(* The inbound half of the Feishu child process (Core/internal/feishu:     *)
(* inbound_processor.go, inbound_workbox.go, inbound_review.go;            *)
(* retrypolicy/policy.go; the delivery closures and the recovery loop of   *)
(* cmd/ksf-assistant-feishu-bridge/main.go).                               *)
(*                                                                         *)
(* Handle writes a platform event to a work file of its own, puts it in    *)
(* the bounded channel of its conversation's partition and acknowledges    *)
(* it.  The worker of the partition hands it to the Core over the private  *)
(* RPC and marks the file completed, records the failure, or pauses the    *)
(* work for review when its budget (attempts or one hour) is spent.  A     *)
(* recovery loop reads all the files and schedules what is due: it is what *)
(* picks up work that found its channel full, whose backoff passed, or     *)
(* that a crash interrupted.                                               *)
(*                                                                         *)
(* A job carries the work as it was when it was read, and RecordFailure    *)
(* and Pause write that copy back, whatever the file holds by then; only   *)
(* Complete and ScrubTerminal read the file again.  A write of a file may  *)
(* fail before or after it replaced the target.  Times are abstracted:     *)
(* wait says that NextAttemptAt lies in the future, old that the hour of   *)
(* a work's generation (its RetryStartedAt) has passed.                    *)
(***************************************************************************)
EXTENDS Naturals, Sequences, FiniteSets

CONSTANTS
  Works,          \* work ids: the hash of the event key and the payload
  Parts,          \* partitions (inboundDeliveryWorkers = 4)
  PartOf,         \* the partition of a work: the hashed conversation
  Buffer,         \* inboundDeliveryBuffer = 32
  MaxAttempts,    \* 20, of retrypolicy.Exhausted
  MaxReviews,     \* bound on RetryReviewed, which Core does not call yet
  MaxFaults,      \* bound on failing writes
  MaxCrashes,     \* bound on crashes of the child
  NoWork,         \* no file
  NoJob           \* nothing held

ASSUME PartOfAssumption == PartOf \in [Works -> Parts]
ASSUME BoundsAssumption ==
  /\ Buffer \in Nat /\ MaxAttempts \in Nat /\ MaxReviews \in Nat
  /\ MaxFaults \in Nat /\ MaxCrashes \in Nat
ASSUME WorksAssumption == IsFiniteSet(Works)

Statuses == {"pending", "completed", "needs_review"}

\* tries is BudgetAttempts() = AttemptCount - RetryBase; gen counts the retries
\* asked for in a review, each of which starts a budget (RetryStartedAt).
InboundWork ==
  [status : Statuses, tries : Nat, gen : Nat, at : Nat, wait : BOOLEAN, payload : BOOLEAN]

ASSUME NoWorkAssumption == NoWork \notin InboundWork

\* A work read from its file, and what a worker, the recovery loop or a review
\* goes on to do with it.
Job == [id : Works, work : InboundWork]

ASSUME NoJobAssumption == NoJob \notin Job /\ NoJob \notin Works

\* What dispatch returns: nil, an error worth a retry, or a permanent one.
Answers == {"ok", "error", "permanent"}

VARIABLES
  box,       \* the work files
  up,        \* the child runs
  connected, \* its first Recover has returned and the platform connection is open
  queue,     \* per partition: the channel of jobs
  running,   \* per partition: the worker's job
  stage,     \* per partition: idle, taken, answered, settled
  answer,    \* per partition: what dispatch returned
  inFlight,  \* processor.inFlight
  ingest,    \* the event inside Handle, between its two writes
  sweep,     \* the recovery loop: idle, pausing, scheduling, waiting
  spent,     \* what Ready still has to pause
  due,       \* what Recover still has to schedule, oldest first
  waiting,   \* the works whose done channel Recover waits for
  review,    \* what RetryReviewed read
  old,       \* <<work, generation>> whose hour has passed
  nextAt,    \* the next CreatedAt
  acked,     \* history: works acknowledged to the platform
  taken,     \* history: works the Core accepted, or the child itself handled
  dispatches,\* history: dispatches per work
  reviews, faults, crashes

workers == <<queue, running, stage, answer, inFlight>>
recovery == <<sweep, spent, due, waiting>>
clock == <<old, nextAt>>
history == <<acked, taken, dispatches>>
bounds == <<reviews, faults, crashes>>
vars == <<box, up, connected, workers, ingest, recovery, review, clock, history, bounds>>

----------------------------------------------------------------------------
(* Writing a work file.                                                    *)

Write(i, w) == box' = [box EXCEPT ![i] = w] /\ UNCHANGED faults

WriteFails(i, w) ==
  /\ faults < MaxFaults
  /\ faults' = faults + 1
  /\ box' = box \/ box' = [box EXCEPT ![i] = w]

Save(i, w) == Write(i, w) \/ WriteFails(i, w)

Completed(w) == [w EXCEPT !.status = "completed", !.wait = FALSE, !.payload = FALSE]

\* Mutant: a failed attempt is not counted.
DeferredUncounted(w) == [w EXCEPT !.status = "pending", !.wait = TRUE]

Deferred(w) == [w EXCEPT !.status = "pending", !.wait = TRUE, !.tries = @ + 1]

\* Mutant: pausing scrubs.
PausedScrubbed(w, attempts) == [w EXCEPT !.status = "needs_review", !.payload = FALSE]

Paused(w, attempts) ==
  [w EXCEPT !.status = "needs_review", !.wait = FALSE, !.tries = @ + attempts]

Exhausted(i, w, attempts) == attempts >= MaxAttempts \/ <<i, w.gen>> \in old

Pending(i) == box[i] # NoWork /\ box[i].status = "pending"

----------------------------------------------------------------------------
\* A legacy receipt: settled before payloads were scrubbed.
LegacyReceipt ==
  [status |-> "completed", tries |-> 0, gen |-> 0, at |-> 0, wait |-> FALSE, payload |-> TRUE]

Init ==
  /\ box \in [Works -> {NoWork, LegacyReceipt}]
  /\ up = FALSE /\ connected = FALSE
  /\ queue = [p \in Parts |-> <<>>]
  /\ running = [p \in Parts |-> NoJob]
  /\ stage = [p \in Parts |-> "idle"]
  /\ answer = [p \in Parts |-> "ok"]
  /\ inFlight = {}
  /\ ingest = NoJob
  /\ sweep = "idle" /\ spent = {} /\ due = <<>> /\ waiting = {}
  /\ review = NoJob
  /\ old = {} /\ nextAt = 1
  /\ acked = {}
  /\ taken = {i \in Works : box[i] # NoWork}
  /\ dispatches = [i \in Works |-> 0]
  /\ reviews = 0 /\ faults = 0 /\ crashes = 0

----------------------------------------------------------------------------
(* schedule: nothing to do for a work in flight, and nothing done for one  *)
(* whose channel is full.                                                  *)

Room(i) == Len(queue[PartOf[i]]) < Buffer

\* Mutant: work in flight is not recognised.
ScheduledAgain(job) ==
  /\ Room(job.id)
  /\ queue' = [queue EXCEPT ![PartOf[job.id]] = Append(@, job)]
  /\ inFlight' = inFlight \cup {job.id}
  /\ UNCHANGED <<running, stage, answer>>

Scheduled(job) ==
  /\ job.id \notin inFlight
  /\ Room(job.id)
  /\ queue' = [queue EXCEPT ![PartOf[job.id]] = Append(@, job)]
  /\ inFlight' = inFlight \cup {job.id}
  /\ UNCHANGED <<running, stage, answer>>

NotScheduled(job) ==
  /\ job.id \in inFlight \/ ~Room(job.id)
  /\ UNCHANGED workers

----------------------------------------------------------------------------
(* Handle, which ingestMu makes one event at a time.                       *)

NewWork ==
  [status |-> "pending", tries |-> 0, gen |-> 0, at |-> nextAt, wait |-> FALSE, payload |-> TRUE]

\* Enqueue writes the file of a new event.
EnqueueNew(i) ==
  /\ connected
  /\ ingest = NoJob
  /\ box[i] = NoWork
  /\ \/ Write(i, NewWork) /\ ingest' = [id |-> i, work |-> NewWork]
     \/ WriteFails(i, NewWork) /\ UNCHANGED ingest
  /\ nextAt' = nextAt + 1
  /\ UNCHANGED <<up, connected, workers, recovery, review, old, history, reviews, crashes>>

\* Enqueue finds a file, whatever it says; Put counts the event and Handle returns.
\* (When Put fails here, nothing has changed and nothing is acknowledged.)
HandleExisting(i) ==
  /\ connected
  /\ ingest = NoJob
  /\ box[i] # NoWork
  /\ acked' = acked \cup {i}
  /\ UNCHANGED <<box, up, connected, workers, ingest, recovery, review, clock, taken,
                 dispatches, bounds>>

\* The event inbox's Put fails: Handle returns its error and schedules nothing.
PutFails ==
  /\ ingest # NoJob
  /\ faults < MaxFaults
  /\ faults' = faults + 1
  /\ ingest' = NoJob
  /\ UNCHANGED <<box, up, connected, workers, recovery, review, clock, history, reviews,
                 crashes>>

HandleNew ==
  /\ ingest # NoJob
  /\ Scheduled(ingest) \/ NotScheduled(ingest)
  /\ acked' = acked \cup {ingest.id}
  /\ ingest' = NoJob
  /\ UNCHANGED <<box, up, connected, recovery, review, clock, taken, dispatches, bounds>>

----------------------------------------------------------------------------
(* runDeliveryWorker and processPersisted.                                 *)

TakeJob(p) ==
  /\ stage[p] = "idle"
  /\ queue[p] # <<>>
  /\ queue' = [queue EXCEPT ![p] = Tail(@)]
  /\ running' = [running EXCEPT ![p] = Head(queue[p])]
  /\ stage' = [stage EXCEPT ![p] = "taken"]
  /\ UNCHANGED <<box, up, connected, answer, inFlight, ingest, recovery, review, clock,
                 history, bounds>>

\* The budget is spent before this attempt.
PauseSpent(p) ==
  LET i == running[p].id
      w == running[p].work
  IN /\ stage[p] = "taken"
     /\ Exhausted(i, w, w.tries)
     /\ Save(i, Paused(w, 0))
     /\ stage' = [stage EXCEPT ![p] = "settled"]
     /\ UNCHANGED <<up, connected, queue, running, answer, inFlight, ingest, recovery, review,
                    clock, history, reviews, crashes>>

\* dispatch: the Core may have accepted the event and its reply still be lost or
\* late; a permanent error (not authorized, a binding conflict) may come from
\* either side.
Dispatch(p) ==
  LET i == running[p].id
      w == running[p].work
  IN /\ stage[p] = "taken"
     /\ ~Exhausted(i, w, w.tries)
     /\ \E a \in Answers :
          /\ answer' = [answer EXCEPT ![p] = a]
          /\ \/ taken' = taken \cup {i}
             \/ a # "ok" /\ UNCHANGED taken
     /\ dispatches' = [dispatches EXCEPT ![i] = @ + 1]
     /\ stage' = [stage EXCEPT ![p] = "answered"]
     /\ UNCHANGED <<box, up, connected, queue, running, inFlight, ingest, recovery, review,
                    clock, acked, bounds>>

\* Complete reads the file again.  A failed write is handled like any other
\* error, by its class.
Complete(p) ==
  LET i == running[p].id
  IN /\ stage[p] = "answered"
     /\ answer[p] = "ok"
     /\ \/ /\ Write(i, Completed(box[i]))
           /\ stage' = [stage EXCEPT ![p] = "settled"]
           /\ UNCHANGED answer
        \/ /\ WriteFails(i, Completed(box[i]))
           /\ \E a \in {"error", "permanent"} : answer' = [answer EXCEPT ![p] = a]
           /\ UNCHANGED stage
     /\ UNCHANGED <<up, connected, queue, running, inFlight, ingest, recovery, review, clock,
                    history, reviews, crashes>>

\* RecordFailure or Pause, of the work as the job carries it.
Fail(p) ==
  LET i == running[p].id
      w == running[p].work
      final == answer[p] = "permanent" \/ Exhausted(i, w, w.tries + 1)
  IN /\ stage[p] = "answered"
     /\ answer[p] # "ok"
     /\ \/ final /\ Save(i, Paused(w, 1))
        \/ ~final /\ Save(i, Deferred(w))
     /\ stage' = [stage EXCEPT ![p] = "settled"]
     /\ UNCHANGED <<up, connected, queue, running, answer, inFlight, ingest, recovery, review,
                    clock, history, reviews, crashes>>

\* delete(inFlight) and close(done).
JobDone(p) ==
  LET i == running[p].id
  IN /\ stage[p] = "settled"
     /\ stage' = [stage EXCEPT ![p] = "idle"]
     /\ running' = [running EXCEPT ![p] = NoJob]
     /\ answer' = [answer EXCEPT ![p] = "ok"]
     /\ inFlight' = inFlight \ {i}
     /\ waiting' = waiting \ {i}
     /\ UNCHANGED <<box, up, connected, queue, ingest, sweep, spent, due, review, clock,
                    history, bounds>>

----------------------------------------------------------------------------
(* Recover.                                                                *)

Snapshots(S) == {[id |-> i, work |-> box[i]] : i \in S}

Spent == {i \in Works : Pending(i) /\ Exhausted(i, box[i], box[i].tries)}

\* Mutant: only work that has failed before is recovered.
ReadyFailed == {i \in Works : Pending(i) /\ i \notin Spent /\ box[i].tries > 0}

Ready == {i \in Works : Pending(i) /\ i \notin Spent /\ ~box[i].wait}

\* The snapshots of S in the order of CreatedAt.
ByAge(S, s) ==
  /\ Len(s) = Cardinality(S)
  /\ \A x \in Snapshots(S) : \E n \in DOMAIN s : s[n] = x
  /\ \A m, n \in DOMAIN s : m < n => s[m].work.at <= s[n].work.at

Sweep ==
  /\ up
  /\ sweep = "idle"
  /\ sweep' = "pausing"
  /\ spent' = Snapshots(Spent)
  /\ \E s \in [1 .. Cardinality(Ready) -> Snapshots(Ready)] : ByAge(Ready, s) /\ due' = s
  /\ UNCHANGED <<box, up, connected, workers, ingest, waiting, review, clock, history, bounds>>

\* A failing Pause ends the pass: Recover returns its error.
SweepPause(x) ==
  /\ sweep = "pausing"
  /\ x \in spent
  /\ \/ /\ Write(x.id, Paused(x.work, 0))
        /\ spent' = spent \ {x}
        /\ UNCHANGED <<sweep, due, connected>>
     \/ /\ WriteFails(x.id, Paused(x.work, 0))
        /\ sweep' = "idle" /\ spent' = {} /\ due' = <<>> /\ connected' = TRUE
  /\ UNCHANGED <<up, workers, ingest, waiting, review, clock, history, reviews, crashes>>

SweepReady ==
  /\ sweep = "pausing"
  /\ spent = {}
  /\ sweep' = "scheduling"
  /\ UNCHANGED <<box, up, connected, workers, ingest, spent, due, waiting, review, clock,
                 history, bounds>>

SweepSchedule ==
  /\ sweep = "scheduling"
  /\ due # <<>>
  /\ \/ Scheduled(Head(due)) /\ waiting' = waiting \cup {Head(due).id}
     \/ NotScheduled(Head(due)) /\ UNCHANGED waiting
  /\ due' = Tail(due)
  /\ UNCHANGED <<box, up, connected, ingest, sweep, spent, review, clock, history, bounds>>

SweepWait ==
  /\ sweep = "scheduling"
  /\ due = <<>>
  /\ sweep' = "waiting"
  /\ UNCHANGED <<box, up, connected, workers, ingest, spent, due, waiting, review, clock,
                 history, bounds>>

\* The first Recover runs before the platform connection is opened.
SweepEnd ==
  /\ sweep = "waiting"
  /\ waiting = {}
  /\ sweep' = "idle"
  /\ connected' = TRUE
  /\ UNCHANGED <<box, up, workers, ingest, spent, due, waiting, review, clock, history, bounds>>

----------------------------------------------------------------------------
(* RetryReviewed: another process reads the file, then writes it.          *)

Revived(w) ==
  [w EXCEPT !.status = "pending", !.wait = FALSE, !.tries = 0, !.gen = @ + 1]

ReadReview(i) ==
  /\ review = NoJob
  /\ reviews < MaxReviews
  /\ reviews' = reviews + 1
  /\ box[i] # NoWork
  /\ box[i].status = "needs_review"
  /\ review' = [id |-> i, work |-> box[i]]
  /\ UNCHANGED <<box, up, connected, workers, ingest, recovery, clock, history, faults,
                 crashes>>

RetryReviewed ==
  /\ review # NoJob
  /\ Save(review.id, Revived(review.work))
  /\ review' = NoJob
  /\ UNCHANGED <<up, connected, workers, ingest, recovery, clock, history, reviews, crashes>>

----------------------------------------------------------------------------
(* Time, crash and restart.                                                *)

RetryDue(i) ==
  /\ Pending(i)
  /\ box[i].wait
  /\ box' = [box EXCEPT ![i].wait = FALSE]
  /\ UNCHANGED <<up, connected, workers, ingest, recovery, review, clock, history, bounds>>

HourPasses(i) ==
  /\ box[i] # NoWork
  /\ <<i, box[i].gen>> \notin old
  /\ old' = old \cup {<<i, box[i].gen>>}
  /\ UNCHANGED <<box, up, connected, workers, ingest, recovery, review, nextAt, history,
                 bounds>>

\* Close has the same effect: whatever is in memory is gone.
Crash ==
  /\ up
  /\ crashes < MaxCrashes
  /\ crashes' = crashes + 1
  /\ up' = FALSE /\ connected' = FALSE
  /\ queue' = [p \in Parts |-> <<>>]
  /\ running' = [p \in Parts |-> NoJob]
  /\ stage' = [p \in Parts |-> "idle"]
  /\ answer' = [p \in Parts |-> "ok"]
  /\ inFlight' = {}
  /\ ingest' = NoJob
  /\ sweep' = "idle" /\ spent' = {} /\ due' = <<>> /\ waiting' = {}
  /\ UNCHANGED <<box, review, clock, history, reviews, faults>>

\* NewInboundProcessor: ScrubTerminal rewrites settled receipts without payload.
Scrubbed(w) == IF w # NoWork /\ w.status = "completed" THEN Completed(w) ELSE w

Start ==
  /\ ~up
  /\ up' = TRUE
  /\ box' = [i \in Works |-> Scrubbed(box[i])]
  /\ UNCHANGED <<connected, workers, ingest, recovery, review, clock, history, bounds>>

\* A write of ScrubTerminal fails: no processor until the child is started again.
StartFails ==
  /\ ~up
  /\ faults < MaxFaults
  /\ faults' = faults + 1
  /\ \E S \in SUBSET {i \in Works : Scrubbed(box[i]) # box[i]} :
       box' = [i \in Works |-> IF i \in S THEN Scrubbed(box[i]) ELSE box[i]]
  /\ \E i \in Works : Scrubbed(box[i]) # box[i]
  /\ UNCHANGED <<up, connected, workers, ingest, recovery, review, clock, history, reviews,
                 crashes>>

----------------------------------------------------------------------------
Handle ==
  \/ \E i \in Works : EnqueueNew(i)
  \/ \E i \in Works : HandleExisting(i)
  \/ PutFails
  \/ HandleNew

Worker(p) ==
  \/ TakeJob(p)
  \/ PauseSpent(p)
  \/ Dispatch(p)
  \/ Complete(p)
  \/ Fail(p)
  \/ JobDone(p)

Recover ==
  \/ Sweep
  \/ \E x \in spent : SweepPause(x)
  \/ SweepReady
  \/ SweepSchedule
  \/ SweepWait
  \/ SweepEnd

Review ==
  \/ \E i \in Works : ReadReview(i)
  \/ RetryReviewed

Next ==
  \/ Handle
  \/ \E p \in Parts : Worker(p)
  \/ Recover
  \/ Review
  \/ \E i \in Works : RetryDue(i)
  \/ \E i \in Works : HourPasses(i)
  \/ Crash
  \/ Start
  \/ StartFails

Spec == Init /\ [][Next]_vars

\* Workers and the recovery loop keep running (a dispatch ends after 15 s, the loop
\* wakes at least every 30 s), backoffs pass, and the supervisor starts the child
\* again.  Nothing is fair about deliveries, reviews, the hour, faults or crashes.
Fairness ==
  /\ \A p \in Parts : WF_vars(Worker(p))
  /\ WF_vars(Recover)
  /\ \A i \in Works : WF_vars(RetryDue(i))
  /\ WF_vars(Start)

LiveSpec == Spec /\ Fairness

----------------------------------------------------------------------------
(* Properties.                                                             *)

TypeOK ==
  /\ box \in [Works -> InboundWork \cup {NoWork}]
  /\ up \in BOOLEAN /\ connected \in BOOLEAN
  /\ queue \in [Parts -> Seq(Job)]
  /\ running \in [Parts -> Job \cup {NoJob}]
  /\ stage \in [Parts -> {"idle", "taken", "answered", "settled"}]
  /\ answer \in [Parts -> Answers]
  /\ inFlight \subseteq Works
  /\ ingest \in Job \cup {NoJob}
  /\ sweep \in {"idle", "pausing", "scheduling", "waiting"}
  /\ spent \subseteq Job
  /\ due \in Seq(Job)
  /\ waiting \subseteq Works
  /\ review \in Job \cup {NoJob}
  /\ old \subseteq Works \X Nat
  /\ nextAt \in Nat
  /\ acked \subseteq Works /\ taken \subseteq Works
  /\ dispatches \in [Works -> Nat]
  /\ reviews \in Nat /\ faults \in Nat /\ crashes \in Nat

\* An acknowledged event has a work file, and no file loses its payload or calls
\* itself completed before the Core has the event: not through a failing write,
\* a lost reply, a crash or a copy written back late.
NothingIsLost ==
  /\ \A i \in acked : box[i] # NoWork
  /\ \A i \in Works : box[i] # NoWork =>
       \/ i \in taken
       \/ box[i].status # "completed" /\ box[i].payload

\* No pending or paused file is without its payload: a single one would make
\* Pending fail, and with it every later recovery pass and the whole inbound half.
RecoveryNeverWedged ==
  \A i \in Works : box[i] # NoWork /\ box[i].status # "completed" => box[i].payload

Places(i) ==
  {x \in Parts \X (1 .. Buffer) : x[2] <= Len(queue[x[1]]) /\ queue[x[1]][x[2]].id = i}
    \cup {<<p, 0>> : p \in {q \in Parts : running[q] # NoJob /\ running[q].id = i}}

\* A work is in one place at most, a channel or a worker, and inFlight knows it:
\* the recovery loop never doubles work of the transport, and no work stays
\* marked after its job is gone, which would keep it from ever being scheduled.
\* Recover only waits for jobs that are still somewhere.
OneJobPerWork ==
  /\ \A i \in Works : Cardinality(Places(i)) = IF i \in inFlight THEN 1 ELSE 0
  /\ waiting \subseteq inFlight

\* The retry budget bounds the dispatches (feishu-chain-efficiency.md: "Twenty
\* attempts or one hour since first receipt pauses work").  Beyond MaxAttempts for
\* each budget there is one dispatch at most for the copy that a recovery pass read
\* while another job ran, one for each crash or failed write that lost a count, and
\* one budget more when Handle was still busy with Put while a recovery pass
\* delivered its event: the copy Handle then schedules has counted nothing.
BudgetBoundsDispatches ==
  \A i \in Works :
    dispatches[i] <= MaxAttempts * (2 + reviews) + 1 + crashes + faults

\* The types, a recovery that can go on, and the bound of the dispatches.
DeliverySound == TypeOK /\ RecoveryNeverWedged /\ BudgetBoundsDispatches

\* An acknowledged event ends completed or paused for review, and stays so: also
\* when its channel was full, its first job died with the child or the Core's
\* reply was lost.
AckedWorkSettles ==
  \A i \in Works : i \in acked ~> [](~Pending(i))

\* docs/ARCHITECTURE.md:133: inbound work loses its raw payload as soon as it is
\* terminal; core-service-v2.md:63 "Terminal inbound work is immediately rewritten
\* without its raw payload".
TerminalWorkStaysScrubbed ==
  [][\A i \in Works :
       box[i] # NoWork /\ box[i].status = "completed" /\ ~box[i].payload => ~box'[i].payload]_vars
=============================================================================
