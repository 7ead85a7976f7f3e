# Verification of KSFAssistant

TLA+ specifications of KSFAssistant, the TLC configurations that check them on small instances,
and proofs, checked by TLAPS, of what twenty of its components promise for every instance. Every
definition is translated from the Go, Swift and JavaScript source; `map` in `PROJECT.json` names
the lines each one stands for, `hazards` what is hard to test in this code and which property
watches over it, and `components` every part of the system, modelled or not.

## 1. The system

KSFAssistant shows and steers work done in a local Codex application and connects it with Feishu:

    macOS or Windows host  --stdio RPC-->  Core (Go)  --private pipes-->  Feishu child (Go)
                                            |     |                        |
                           Codex app server       Codex Desktop     Feishu platform
                                            |
                          Codex's logs, task reports of the KSF command

A message from Feishu arrives at the child, which makes it durable, acknowledges it and delivers
it to the Core over the pipes; the Core makes it durable again and executes it: a turn of Codex, a
card action. What goes out (messages, card edits, commands) is a governed operation of the child:
policy, user confirmation, one remote write, a verdict. The Core supervises the child, and the host
supervises the Core. The host shows the configuration page, the dashboard with its tasks, projects
and tokens, and asks the user. State that must survive is in JSON files replaced by rename
(`privatestore.WriteJSON`), each behind one mutex; every process may stop between two writes.

### Components

| Component | State | Operations | Where it is hard |
|---|---|---|---|
| Core event inbox (`integration/event_inbox.go`, `event_receipts.go`, `event_review.go`) | one file of events, receipts, review set; a worker per partition | accept, claim, begin effect, finish, compaction, retention, load | crash or failed write between any two steps; redelivery; several workers save one file; order within a partition |
| Inbound delivery (`feishu/inbound_processor.go`, `inbound_workbox.go`) | a file per work; channel and `inFlight` in memory | handle, partition workers, recovery every 30 s, review, scrub | copies read earlier are scheduled and written later; full channel; attempt and time budget; lost answers |
| Governed messages (`feishu/service_message_execution.go`, `operations.go`, `direct_execution.go`, `actionbox.go`, `execution_admission.go`) | ledger per key, record per operation, policy, admission | request, confirm, cancel, status, resume, policy change, recovery | two files that must agree over crashes; lost answers; recovery beside new requests; cancel against claim |
| Capabilities (`feishu/capability_service.go`, `operations.go`, `capability_executor.go`, `actionbox.go`) | record per operation, item per attempt, policy, requested scopes | prepare, confirm, cancel, execute, poll, reread, reconcile, recover | a write whose answer is lost; evidence that ages; a policy that changes; recovery beside confirmation |
| Work queue (`feishu/workbox_v3.go`, `work_scheduler.go`, `work_recovery.go`, `outbox.go`) | three directories, index, records | submit, migrate, recover, claim, execute, finish, drain | rename then write; two upgrades; faults that drain the scheduler |
| App registration and logout (`feishu/app_registration_native.go`, `auth_app_session.go`, `logout_cleanup.go`) | session, credentials, secret, operator, journal | create, poll, finish, cancel, purge | a session that connects while a logout removes what it wrote |
| Retention (`feishu/lifecycle.go`, `audit.go`) | all terminal records, audit files | clean, rotate, record | read unlocked, removed locked |
| Supervisor (`feishu/supervisor.go`, `service/integration_gateway.go`) | state, command, generation, timers, budget | start, stop, restart, timers, wait, connect | goroutines of successive generations in any order |
| Private peer (`privateipc/peer.go`) | pending calls, handler slots, write queue | call, accept, dispatch, write, cancel, close | close against answers, full queue |
| Snapshot cache (`main.go` of the child, `service/bridge_rpc.go`) | last snapshot, generation, revision | push, read | late and reordered snapshots |
| Inbound runtime (`integration/inbound_runtime.go`, `runtime_api.go`) | a link per task: turn, owner, lock | messages, card actions, watchers, observers, maintenance | everything is read, then Codex is asked, then written |
| Task cards (`integration/task_card_sync.go`, `card_delivery_worker.go`, `logout.go`, ...) | link, card, pending mark | sync, retry, review, release, lease, logout | the link changes while its card is patched |
| Action locks (`integration/action_locks.go`) | a map of counted mutexes | lock, unlock | several keys at once, removal |
| Configuration (`service/configuration.go`, `configuration_receipts.go`) | page data, receipts, files of the child | submit, query, refresh, act | a request lost, repeated, or left over by a crash |
| Codex client (`codex/client.go`) | process, calls, requests | call, answer, start, close | processes that end beside calls |
| Desktop tasks (`desktop/activity.go`, `observation_cache.go`) | connection, owner, cache, waiters | observe, load, push, request | pushes beside reads, moved owners |
| Host link (`rpc/server.go`, `core-client.cjs`, Swift client) | process, pending, two queues | start, request, work, stop | a Core that is stopped goes on talking |
| Uploads (`localipc/gateway.go`, `feishucli/upload.go`) | transfers, memory | start, chunk, finish, abort, end | finish repeated, sessions that drop |
| Desktop pages (`FeishuConfiguration.swift`, `UsageViewModel.swift`, `main.cjs`, `renderer/app.js`) | what is shown, what runs, what was asked | poll, act, confirm, look up, refresh | merged refreshes, lost answers, generations |
| Dashboard rules (`domain/rules.go`, `workspaces.go`, Swift) | none; readings of different age | build | the same task in several readings |
| Token usage (`tokens`, `service.TokenHistory`) | Codex's logs, kept history | scan, count, keep | copies of histories, restarted counters |
| Task reports (`taskruntime/store.go`) | a file per task, key, locks | report | short-lived processes that race and die |

The rest (user authorisation, approval broker, command-line clients, command policy, build assets) is
listed in `PROJECT.json` with the reason it is not modelled: it keeps no state that outlives a call,
decides over large tables, or talks to an external process whose protocol is visible only in its
messages.

### How the parts interact

`InboundDelivery` takes the Core's answer as accepted, failed (or lost) or permanently refused; the
Core may accept and the answer be lost, so `EventInbox` takes deliveries of the same event at any
time, any number of times. What follows the Core's accept is the outside effect of `EventInbox`;
its handler is an operation of `TaskTurns`, under the locks of `ActionLocks`, and what that writes
into a link is what `TaskCards` shows and `TaskBoards` lists. Cards and messages are sent through
`ServiceMessages` and, for what earlier versions left, `WorkQueue`; other commands of a user are
the operations of `Capabilities`, whose items are that queue's. `Supervisor` starts, kills and
restarts the child: in the child's modules that is `Crash` and `Start`, possible at any moment;
`Snapshots` and `PrivatePeer` are the connection between them, and `Configuration` what the user
may ask of it, through `ConfigurationPage`. `HostLink` is the Core below its host.

## 2. The modules

| Module | What it is | Theorems |
|---|---|---|
| `EventInbox`, `EventOnce` | the Core's inbox; the abstract promise it implements | `EventInboxProofs` |
| `InboundDelivery` | the child's durable inbound path | `InboundDeliveryProofs` |
| `ServiceMessages` | the child's governed messages and card edits | `ServiceMessagesProofs` |
| `WorkQueue` | the child's queue, its upgrades and its scheduler | `WorkQueueProofs` |
| `Supervisor`, `PrivatePeer`, `HostLink` | the Core's supervisor of the child; the pipes between them; the Core below its host | `SupervisorProofs` |
| `TaskTurns` | how the Core steers a task from Feishu | `TaskTurnsProofs` |
| `Configuration` | requests of the configuration page and their receipts | `ConfigurationProofs` |
| `ActionLocks` | the keyed locks of the inbound runtime | `ComponentProofs` |
| `TaskCards` | the card of a link and the mark that it must be replaced | `WorkQueueProofs` |
| `Capabilities` | the child's governed operations, executed and reconciled | `ComponentProofs` |
| `AppRegistration` | registration and logout of the child | `ComponentProofs` |
| `TaskReports`, `TaskLog` | the store of task reports; the log it implements | `ComponentProofs` |
| `Snapshots`, `Uploads` | the cache of the child's snapshots; the uploads of the gateway | `ServiceMessagesProofs` |
| `CodexClient`, `DesktopTasks` | the Core's clients of Codex and of its desktop application | `ServiceMessagesProofs` |
| `ConfigurationPage`, `Dashboards` | the two pages of a desktop that act by themselves | `ConfigurationProofs` |
| `Retention` | housekeeping of the child | |
| `TaskBoards`, `TokenUsage` | what the dashboard computes from readings of different age | |
| `Connections`, `Peers`, `StoredState`, `Cards`, `Desktops` | instances of the components above and what those promise together; the `MC` modules and the proof modules extend them | |
| `MC...` | small instances; most put several components side by side | |

Each module starts with its constants, state and helpers, then has one action per critical
section or durable write of the code, `Next`, fairness, and last the properties. Operators marked
"Mutant" are wrong variants of the definition after them (a dropped guard, a forgotten reset);
no specification uses them. They document what each property is able to catch.

Conventions: a write to a file is an action with three outcomes: done; failed with the old file in
place; failed although the new file is in place (`WriteJSON` reports an error of `chmod` after the
rename); the last two count as faults. Variables that the code does not have, such as what was
acknowledged, sent or told, are histories that only properties read, and are introduced as such.
Where a component meets many kinds of trouble, `left` is what may still happen in this behaviour,
drawn at its start from `Budgets`: every bound is named there.

**EventInbox.** `mem` is the inbox in memory, `disk` its file, `arch` the receipts; `SaveOk` and
`SaveFailed` include the compaction that `save` calls. `Accept` is `AcceptEvent` (new, duplicate,
conflict, full), `Claim` takes a partition's first pending event, `Begin` is the durable `executing`
mark, `Effect` the outside call, `HandlerReturns` and `Finish` the end of a run, `RetryDue` a backoff
that passes, `Age` and `Prune` the retention, `Crash` and `Load` the end and start of the Core.

**InboundDelivery.** A job is a work's id with the copy of its file that was current when it was
scheduled: workers decide and write from that copy, as the code does, and this is what most of the
module is about. `Handle` is `EnqueueNew`, `HandleExisting` and `HandleNew`; `TakeJob` to `JobDone` a
partition worker in `processPersisted`; `Sweep` to `SweepEnd` the recovery loop; `Start` scrubs
completed works. `LegacyReceipt` is a completed file of an earlier version with its payload.

**ServiceMessages.** A call of `executeMessage` is a program counter per idempotency key, since
calls for one key wait on a keyed lock: prepare a record, bind it to the ledger, start afresh or
replace where the code allows it, wait for admission, validate, claim, check the policy, mark
`writing`, send, record the verdict. `Confirm`, `Cancel`, `Poll`, `Resume` are the user's,
`UpdatePolicy` changes the policy, `ListInterrupted` to `Recovered` the recovery beside new requests.

**WorkQueue.** `files` says for each item what is in each directory, `op` its operation's record,
`line` what an earlier version left of it. `Submit`, the version 2 and 3 migrations, `Recover`, the
claim, the worker from admission to `Finish`, the drain after failures, and direct executions that
share the admission. A crash inside a locked critical section ends it after some of its writes: the
`Torn` actions. In production the child registers only the outbox, and only migrations submit.

**Supervisor.** One action per critical section. `StartLocked` may find a previous instance and arm the
conflict timer, fail to create the process, or create it. A child has a generation; `cancelled`,
`closed` and `callback` say what is left of each one. A stale timer finds another token and does
nothing, so only the armed one is kept. `running` and `idle_unconfigured` are `ready`. Time is ages
counted by `Tick`.

**TaskTurns.** `link` is the durable record. The handler of a message or a card action works under
the task's lock, one at a time; a watcher per turn (`waitForTurn`), the observer of desktop tasks and
the observer of locked links work without it. Each reads the link, asks Codex, and writes later.
Turns and requests for input are Codex's, the window Desktop's.

**TaskCards.** A sync holds the sync lock of its link, reads the link, asks the child to replace the
card, and writes what it knows back into a link that may have changed meanwhile; workers, the
maintenance, the archive, the lease and the logout start syncs or end links.

**Configuration.** Handlers hold the file lock of their receipt, and the one that acts `actionMu`;
refreshes, the goroutines they leave behind, and queries of old receipts run beside them. `ledger` is
what the child knows of a test message, and (a history) whether a logout removed everything; `receipts`
is what the user can be told. `app` may be an application without a user: what a registration that
failed to bind its user, or a purge that failed halfway, leaves.

**Capabilities.** `record` is an operation's file, `item` the work item of a confirmation, `call` a
`Prepare` or `Confirm` under way, `worker` the execution of an item: preflight, comparison with what
was read at the preparation, the write, polls, a reread, the verdict. `rereading` is
`ReconcileUnknown`, `stage` and `todo` the recovery at a start, item by item and operation by
operation. `target` numbers what a preflight reads, so that evidence is old when the number moved;
`flying` holds writes whose answer is lost and which may still take effect.

**AppRegistration, Retention, TaskReports.** Sessions with their goroutine, three kinds of files,
and the purge with its journal. Stores, index, events and audit files under clocks in ticks.
Processes that take locks by file, replace a task's file and may die between any two steps;
`TaskLog` is the log per task they must amount to.

**PrivatePeer, Snapshots, HostLink, Uploads.** Two ends with calls, handlers, a bounded write queue
and one reader each; the revision drawn when a snapshot is complete, and the copy that keeps the
highest; a host with one Core after the other, two queues and a worker each, on both platforms;
chunked inputs in bounded memory.

**CodexClient, DesktopTasks.** A process per start, calls by number and a reader each; one
connection, owners, snapshots pushed by them, and observers that share one cache.

**ConfigurationPage, Dashboards.** The page polls, asks the user, submits once and looks a lost
answer up; the dashboard merges refreshes with the one under way, and follows an activity monitor.

**TaskBoards, TokenUsage.** Pure computations written as operators on readings of different age.
The Swift implementations of the same contracts are translated independently and compared.

## 3. What the runs check

All runs are exhaustive. Components that share no state are put side by side in one instance: a
behaviour is one of a single component, chosen at its start (`part`), the others stay as they were
made, and a property says of each component what is named below. Deadlock is checked for `inbox`,
`inbound` and the finding `inbound_scrub`; elsewhere the system really may stop: work is done, calls
are used up, hosts have left, and users owe nothing.

| Run | Instance | Properties |
|---|---|---|
| `inbox` | 2 events in 3 deliveries (one id with two digests), 2 partitions, room for 2 events, 1 receipt kept in the file, 2 attempts, 1 failing write, 1 crash | `InboxSound`, `PartitionOrder`, `NeverWedged`, `ImplementsEventOnce` |
| `inbound` | 2 works in one partition whose channel holds 1 job; 1 work with 2 attempts, a review and a crash; each with a failing write; and the Core's inbox, fair, with a crash or a failing write | `DeliverySound`, `NothingIsLost`, `OneJobPerWork`, `AckedSettles` |
| `outgoing` | 1 message asked for twice with a change of policy or a failing write, and a crash; a message and an edit for one chat; Codex client, desktop tasks, snapshots, uploads | `MessagesSound`, `WrittenOnce`, `VerdictsAreTrue`, `ConnectionsSound`, `OneProcess`, `SeesWhatWoke`, `OldNeverLands`, `RunsAreTrue` |
| `processes` | supervisor with 2 callers, 2 calls, 2 crashes, 1 failing start, 1 restart per budget; private peer; host link on both platforms with 3 Cores; 1 card edit with a crash; all fair | `ProcessesSound`, `StopHolds`, `OneCore`, `SupervisionEnds`, `OthersEnd` |
| `tasks` | 2 turns with a question, an approval, a fault, a window of Desktop or the end of the lease beside them, fair | `TurnsSound`, `EndedLinkStaysEnded`, `LinkCatchesUp` |
| `queues` | 3 queued items, 2 for one chat, one in 2 parts, new or left by versions 2 and 3; a task connected twice with failing calls, restart, release, lease, archive or logout; the dashboard's task lists; fair | `QueuesSound`, `ResultIsTrue`, `MarksGoRightly`, `WorkEnds` |
| `config` | 9 mixes of at most 3 requests with a crash, a restarted child, a lost call, or a registration or purge that stops halfway; the configuration page on both platforms; the dashboard on both platforms; fair | `ConfigurationSound`, `ExecutedOnce`, `ShownAppExists`, `PagesSound`, `NeverBack`, `AllCatchUp` |
| `files` | 3 calls on 2 keys; housekeeping; 5 reports of 3 tasks; 3 registrations with 2 logouts; 2 governed operations with 3 calls: reads, writes, high-impact and destructive ones, with a crash, faults, a foreign change, a new policy; 3 threads of Codex in 2 days | `FilesSound`, `LocksExclude`, `LocksAdvance`, `LogoutIsFinal`, `KeptLongEnough`, `ImplementsTaskLog` |
| `inbound_scrub`, `tasks_orphan`, `cards_lost`, `pages_poll` | the least instance of each | findings, section 4 |

### The properties

*Inbox.* `InboxSound`: types; what was acknowledged can be read back under its payload at any moment
(`AckedIsDurable`); all effects of an event belong to one run of its handler (`EffectsInOneRun`); an
outcome once reported stays (`SettledIsFinal`); the review set behind `Health()` is exact.
`PartitionOrder`: no event is claimed before an earlier one of its partition is settled.
`NeverWedged`: files never disagree in a way that startup or archiving refuses.
`ImplementsEventOnce`: the inbox implements `EventOnce`.

*Inbound.* `NothingIsLost`: an acknowledged work has a file, and no file loses its payload or calls
itself completed before the Core has the event. `OneJobPerWork`: a work is in one channel or one
worker at most, exactly when `inFlight` says so. `DeliverySound`: types, dispatches bounded by the
budgets granted plus one for each stale copy, crash or failed write, and no file that makes the
recovery fail for ever. `AckedSettles`: an acknowledged event ends, in the child and in the Core.

*Outgoing.* `WrittenOnce`: at most one write per message; an edit is written again only after its
outcome was unknown. `VerdictsAreTrue`: succeeded means applied; failed, cancelled or expired means
never sent. `MessagesSound`: consent to the current challenge before a write, success is told only
of what was applied, a recovery leaves nothing running, one writer per conversation. `OneProcess`:
no Codex process outlives the client's use of it. `SeesWhatWoke`: who is woken for a snapshot sees
it or a later one. `OldNeverLands`: what is shown was said by the child that is connected.
`RunsAreTrue`: an upload's request runs once at most, and as its client was told. `ConnectionsSound`:
answers are handed once, no sender waits at a channel, memory of uploads is that of the transfers.

*Processes.* `StopHolds`: after `Stop` nothing brings the child or its state back until a start.
`OneCore`: one Core works on the user's data. `ProcessesSound`: what is reported ready or starting
is, only a child whose own connection is over is killed, restarts within any window are at most two
budgets, answers of the peer are true. `SupervisionEnds`, `OthersEnd`: calls
of `Stop` and `Restart` return and dead children are reaped; a call that was given up ends at the
other end; no Core outlives its host; an edit that was confirmed or claimed ends, and is written once.

*Tasks.* `EndedLinkStaysEnded`: nobody revives a link that was released or whose lease is over.
`TurnsSound`: a lock on an unsafe approval ends only through Desktop. `LinkCatchesUp`: a link that
says its turn runs learns of its end.

*Queues.* `ResultIsTrue`: a terminal file says what Feishu has. `QueuesSound`: no part of a message
arrives twice, a target is written by one at a time and in order, the index counts the directories; a
revoked identity controls nothing; an active task is shown once, in one place, and KSF's tasks apart
from workspaces; counts agree with lists, only what is older is hidden, and the Swift builder agrees
with the Go one. `MarksGoRightly`: a step that takes a card's mark away (the confirming one, a refusal,
a logout, a card that is given up or was never sent) leaves Feishu with the card of the link as it then
is, or the card to a person, or there is none; excepted is a sync that skips, which does lose marks
(section 4). `WorkEnds`: every item ends, and no mark stands for ever; that the card is then current it
does not say.

*Configuration.* `ExecutedOnce`: no request is carried out twice. `ShownAppExists`: the page never
offers an application that is gone. `ConfigurationSound`: one request acts, receipts are stamped in an
order, and those of test messages and logouts are true: failed only if it was not done, completed only
if it was (of a logout where no registration and no purge may stop halfway, see section 4).
`PagesSound`: what the page says of an action is so, what is submitted is what the user was asked
about, once, with one question at a time; a forced refresh is not lost; page and Core work with one
root. `NeverBack`: neither page nor Core goes back to an older reading. `AllCatchUp`: receipts that can
be answered are; the page observes; the dashboard keeps up.

*Files.* `LocksExclude`, `LocksAdvance`: two calls inside share no key, and waiting is never a
circle. `KeptLongEnough`: nothing is removed before its age or its number allows; an operation that
ended stays as it ended, an unknown outcome never becomes a verdict, and what waited under a policy
that changed never runs. `LogoutIsFinal`:
what a logout has ended is connected by nobody afterwards. `ImplementsTaskLog`: the store of reports
is a log per task. `FilesSound`: no report leaves a file that cannot be read, a task has one record;
an operation takes effect at most once, its record says only what is so, none that needs evidence is
written over what it did not read, a person is asked exactly where rereading ended, and item and
record agree; no token is counted twice or left out, or charged to two projects, and the Go and
Swift readers agree.

Every property has a mutant in `PROJECT.json`: a plausible bug in a definition for which TLC finds
the property violated under the run's own configuration.

### Why the bounds are enough

The inbox needs a second event to have an order, a third delivery for a conflict of digests and for
a second partition, two workers to save over each other, one receipt in the file and capacity two for
compaction to be forced; two attempts separate the first failure from the last. In inbound delivery
the channel with room for one makes a second work the full-channel case; stale copies need one work
and one recovery pass; a second budget needs the review. In the outgoing path two calls and two
operations are the least for a repeated request and for a replacement. The supervisor needs two
generations for late callbacks (two crashes and two calls give four). A task needs a second turn for
one to replace another, and a queue a second item for one target, a third beside it in two parts.
Locks need three calls and two keys
for a mutex to be dropped and made anew beside one who waits. Pages need an action, a change of the Core
and a lost answer at once; token logs a fork of a fork and a restarted counter. One fault and one
crash are enough for each single cut, at every place; pairs of cuts are covered where a crash follows
a failed write. What the bounds leave out: three generations with overlapping `Stop` calls on one
child, capacities larger than two, two independent crashes outside `Supervisor`, and mixes of
troubles that no budget puts together. The proofs cover these for twenty components.

Bounds in the models themselves, beside the counters: `DesktopTasks` one task, `Capabilities` one
target for all operations, `Configuration` one goroutine left over and checks within ten minutes of the
start, `TaskCards` no mark of thirty days, `ConfigurationPage` a lost request counts once the Core has
it or is gone, `Dashboards` one dashboard read at a time and the deferred refresh before the clock
ticks, `TaskBoards` one engineering root, updates in the order of numbers, all parts read in one step;
`TokenUsage` one history at a time, which ends the behaviour, two ticks a day, forks copied in one
step, restarts that show less than before.

### Fairness, and why the code justifies it

*Inbox*: workers poll every 250 ms and retry failed writes; a handler returns because its context has
a deadline and it makes finitely many calls (strong fairness, as an effect may come in between);
backoffs pass; the Core is restarted. *Inbound*: a dispatch ends after 15 s, the loop wakes every
30 s, the supervisor starts the child again. *Messages*: a call that has begun ends, since its lock is
free, the remote call has a timeout and admission stops waiting. *Queue*: startup, the scheduler and
claimed items go on; a direct execution ends. *Supervisor*: timers fire, goroutines run, the kernel
ends a killed process; a child that was not killed need never exit, and a callback ends because the
child answers, its pipe closes or its time is over. *Tasks and cards*: every call has a timeout;
workers and the maintenance come back by their tickers (2 s and 30 s). *Configuration*: handlers have
finitely many steps, and the open page asks again and again. *Pages*: requests are answered or time
out, timers run; a user may leave a question open, and macOS must keep up without its timer. *Peer,
host*: local goroutines run, frames are written or time out, a Core reads on.
Nothing is assumed of deliveries, users, Codex, Feishu, faults, crashes, clocks of retention or
reviews. Every run with a liveness property bounds crashes and faults: it shows that the system
settles once failures stop.

## 4. Findings

Each is a run that TLC must find violated; the quotations are in `PROJECT.json`.

1. `inbound_scrub`: `Recover` schedules copies read earlier. If the work's own job finishes in
   between, the work is dispatched again, and when that attempt fails, the earlier copy, payload
   included, is written over the completed receipt. The Core answers the second dispatch as a
   duplicate, so no event runs twice.
2. `tasks_orphan`: the watcher of a turn that a newer message replaced writes its end over the newer
   turn, whose watcher then leaves: the card says the task is over while it runs.
3. `cards_lost`: a sync decides to skip a card it read as confirmed. If a watcher writes and marks the
   link before the sync saves, the skip removes that mark without comparing versions
   (`task_card_sync.go` 98-100), and the card stays as it was, unmarked and unreviewed. (Two calls and
   two writes are enough: the first one's worker looks only after a handler's sync has confirmed.)
4. `pages_poll`: when an action begins while the Windows page is being read, the read's mark stays
   set and the page never polls again.

### Noticed while reading, without a run

*Core and child.* The callback of a dead connection may pass the generation check and set `configured`
after the next connection did, as `SetConfigured` takes no generation (`integration_gateway.go` 52): an
old child's answer decides between `running` and `idle_unconfigured`. A query takes a lost logout for
completed when the application is there and unauthorized (`configuration_receipts.go` 245), which is
also what a registration that stored its credentials and failed to bind the user leaves
(`app_registration_native.go` 186-189), or a purge that failed halfway; the credentials are then still
there. TLC finds this when `ResultIsTrue` has no exception for `left.half`. `finish` scrubs the payload
only of completed and rejected events, so those with exhausted retries or an unknown outcome keep
theirs for 30 days. An operation cancelled while its call waits to run leaves a ledger of phase
`terminal`, and its key can never be prepared again, against the comment at
`service_message_execution.go` 137-139. The restart budget counts in a window that begins at the first
failure, so five minutes can see nearly twice the restarts of `docs/ARCHITECTURE.md` line 147
(`RestartsBounded` states what the code keeps). The reconciliation of `main.go` 250-265 is never
started; `RetryReviewed`, `ReviewEvent` and `EventReceiptState` have no production callers, nor has the
approval broker, except for `TryExecutionLease`. `RecoverInterrupted` looks at the first thousand
operations. The conflict timer ignores the error of `startLocked`. A changed policy leaves an operation
queued beside its terminal item until the next start (`boundQueueInput`). An upgrade from version 2
that crashes and whose item is cancelled leaves it in two directories, which is harmless. Retention
trims renew the age of a file, and a signal for maintenance within a minute is dropped. A registration
whose guard passed before a logout may begin a session after it, and a crash between credentials and
operator leaves an application nobody can scan until the next logout. A request whose context ends
while its frame is queued closes the whole private connection (`peer.go` 327-329). A receipt of
`finish_app` answered `pending` is resolved only by a logout; a query for an unknown receipt answers
`failed` although its request may still be on its way.

*Capabilities.* Whether an error leaves the outcome open is asked after whether the process started:
when the poll or the reread that follows an applied write cannot start its process, the operation is
called failed although it was written. The production build has no binary to start, so every write
that is reached ends as `outcome_unknown`, and so does an input that only the invocation refuses. No
capability of the manifest has a remote terminal state, so `ReadVerification` never confirms nor
rejects. A destructive operation that cannot be reread asks for the same query for ever
(`ResolveReconciliation` does not look at a missing reread); a queued operation whose dispatch died
before `Submit` stays queued until it is cancelled, and one whose item failed because settings could
not be read is called unknown at the next start though it was never written. The child serves calls
before `RecoverInterrupted`, so a read under way or a reconciliation may be marked unknown. Neither
`RegisterCapabilityService` nor `Prepare`'s callers (`feishucommands`) are reached in production.

*Tasks.* Only an upsert renews a lease, whatever the turn does (`docs/prd/v0.5.md` lines 11, 50); a
message always starts a turn, and never steers one; a crash between the upsert and the owner's write
leaves an unreachable link; the handler of an interrupt and `plan_ready` write a link before its mark.
A link whose lease ends unsynced keeps its root card active.

*Clients.* A concurrent `Start` of the Codex client returns before `initialize` ends, its failure
stops whatever process is current, an answer may reach a newer process, and a failed write loses the
request. Two concurrent starts of the Desktop client leak a connection, and `Close` releases no
waiter. macOS never restarts a crashed Core, Windows keeps one whose `initialize` timed out, and
queued requests are dropped at shutdown. No production code listens on the local gateway. A read of
the snapshot that gathered an older state may be numbered after a newer push and replace it, as the
child pushes a state once.

*Desktop.* The Windows renderer saves and deletes prices through `customPricingPlans`, which nobody
defines (`app.js` 971, 1144). After a failed change of the root macOS shows the new one while the Core
has the old. A dropped refresh waits for the next timer on Windows. Histories read for one price plan
show under another chosen meanwhile. The page's set of retired epochs is never what keeps it from going
back on Windows: it heeds one read or action at a time, which the proof uses instead. The renderer's
guard on `observedAt` never bites.

*Reports.* A key removed between `recordIDs` and `identityKey`, where the store is not locked, is made
anew, and the task gets a second record under it; nothing removes keys while somebody reports.

*Dashboard.* `preferredEngineeringID` and the order of pinned projects outside the catalogue depend on
map order in Go, not in Swift. Before the catalogue was ever read, a running task of a KSF directory is
shown nowhere. `docs/architecture/shared-core-v1.md` line 52 describes a merging of lineages that the
code no longer does; `repriceOnly` scans the logs when no history is kept (line 56); a file archived
while logs are listed is left out silently; concurrent `TokenHistory` calls may keep the older reading;
and a fork of an archived thread may call itself complete. The Swift history reader is a helper that
production does not use.

## 5. What is proved

The theorems hold for every value of the constants that satisfies the named assumptions of the
component's module (sets that are finite, bounds that are naturals, functions with the right
domains, "nothing" values that are nothing else), so for any number of messages, works, partitions,
turns, requests, callers, attempts, faults and crashes. Nothing else is assumed. `PROJECT.json` lists
the theorems and the properties of the runs that they state.

| Module | Proved | Only model-checked |
|---|---|---|
| `EventInboxProofs` | all safety properties (`InboxSound`); the refinement of `EventOnce` | liveness |
| `InboundDeliveryProofs` | all safety properties (`DeliverySound`, `NothingIsLost`, `OneJobPerWork`) | liveness |
| `ServiceMessagesProofs` | all safety properties (`MessagesSound`, `WrittenOnce`, `VerdictsAreTrue`) | liveness |
| `WorkQueueProofs` | types, `WrittenOnce`, `ResultIsTrue` | `TargetInOrder`, `IndexIsAProjection`, liveness |
| `SupervisorProofs` | all safety properties of the three (`ProcessesSound`, `StopHolds`, `OneCore`), `ChildrenArePaidFor` | liveness |
| `TaskTurnsProofs` | `TurnsSound`, `EndedLinkStaysEnded` | liveness |
| `ConfigurationProofs` | `ConfigurationSound`, `ExecutedOnce`, `ShownAppExists` | liveness |
| `ComponentProofs` | four of the components below | see there |

The components below are checked side by side with others, and proved beside them too: the theorems
about each are in the proof module that section 2 names, are about the instance that the runs
check, and assume of the constants what is named here.

| Component | Proved | Assumption |
|---|---|---|
| `ActionLocks` | types, `LocksExclude`, `LocksAdvance` | those of the module |
| `Snapshots` | types, `OldNeverLands` | `SnapshotsBounds`: bounds are naturals |
| `CodexClient` | types, `OneProcess`, one answer for a call, one for a request | `ProcessesAreNumbered`, `CodexBounds`: naturals |
| `PrivatePeer` | types, `ToldIsTrue` | `PeerBounds`: naturals; each call is of one of the two ends |
| `HostLink` | types, `OneCore` | `HostBounds`: naturals; requests are of their type |
| `AppRegistration` | `LogoutIsFinal` | `RegistrationBounds`: the budgets have a largest one |
| `Uploads` | types, `MemoryIsHeld`, `RunsAreTrue` | `UploadsBounds`: there is a client; costs and limits are naturals |
| `TaskReports` | `NeverCorrupt`, `OneRecordPerTask`, the refinement of `TaskLog` | `ReportBounds`: naturals |
| `DesktopTasks` | types, `NobodyBlocks`, `ReadingEnds` (not `SeesWhatWoke`) | `DesktopBounds`: there is an owner; naturals |
| `Capabilities` | types, `AppliedOnce`, `RecordIsTrue`, `NoBlindWrite`, `PersonIsAsked`, `ItemAgrees`, `OutcomesStay` | `OpBounds`: a read has neither preflight nor reread, as in the manifest |
| `TaskCards` | `MarksGoRightly`, `RevokedIsDisconnected` (not that cards catch up) | `CardBounds`: attempts are a natural |
| `ConfigurationPage` | types, `OutcomeIsTrue`, `AsConfirmed`, `SubmittedOnce`, `OneQuestion`, `ShownNeverGoesBack` | `PageBounds`: the two platforms; naturals |
| `Dashboards` | types, `ForcedIsFresh`, `RootsAgree`, `UsageNeverGoesBack` | none |

`ConnectionsStaySound`, `ProcessesStaySound`, `PagesStaySound` and `NothingShownGoesBack` put together
what several of them promise, as the runs check it (`ConnectionsSound`, `ProcessesSound`,
`PagesSound`, `NeverBack`).

Hardly any of these properties is inductive. Each proof module first defines the invariant that is
(`IInv`, in the inbox `IndInv`), as a conjunction of named parts, then has lemmas about the model's
operators, a lemma per action (or group of actions that disturb the same parts), and last the
theorems, whose temporal steps combine these. In short:

*Inbox.* What a crash leaves is the file, so a property of memory holds after `Load` only if a
corresponding one of the file held before; and a failed write leaves either file. `IndInv` says for
each id how its three copies relate: `CopyInv` (memory, file and receipt are the same event, and how
far each may be behind), `EffectInv` (an effect implies a durable `executing` mark or a terminal copy
of the same attempt), `SettledInv`, `AckedInv`, `ReviewInv`; for each worker what it holds; that nothing
is in memory while the process is down; and `PartitionOrder`. It is stated id by id because an action
changes one event while the save it makes changes every id's copies: the lemmas on `SavedAt` and
`FailedAt` say what a save does to one id. The refinement maps `Accept` to `Ack`, `Effect` to `Run`,
`Finish` and `Load` to `Report` and the others to stuttering.

*Inbound.* Jobs in channels and workers, and what `Handle`, the recovery and a review have read, are
copies of a file that exists, unsettled and with its payload (`Copies`). That is why a copy that is
written back late can repeat work but never lose it. `Jobs` says that channel and worker of a partition
hold exactly its works in flight, each once. The bound of the dispatches is a count, and becomes
inductive as an inequality of a single work (`Budgeted`): what its file, the one job there may be and
each copy that is due would still allow is no more than what was granted and not used. The largest
of them counts and not their sum, since a job takes the place of its file; what `Handle` and a review
have in hand is added, and every crash, failed write and stale copy pays for one more.

*Messages.* Records, ledgers, calls, the recovery and the histories agree: `OpOK` (what a status says of
what was sent and consented), `LedgerOK` (a ledger names an operation of its key, and what came after it
was not sent), `CallOK` (what a call knows at each of its steps), `Admissions`, and `NothingForgotten` (an
operation that runs in nobody's hands is still before the recovery, unless a write failed).
`WrittenOnce` follows since of two operations of a key the first was not sent, or is an edit of unknown
outcome (`InTurn`).

*Queue.* For each item, how far its worker is, and what its files, its line of an earlier version and
its record say, agree with what arrived at Feishu. A waiting item was never run; a running one has a
silent terminal file; only an item that may still run depends on its record (`OpTrue`). The oldest item
to be claimed is a least element of a finite set, which is a lemma of its own. The order of one target
and the counts of the index range over several items and cardinalities of sets that such steps change,
and stay with TLC.

*Supervisor.* What is reported (`Reports`), whom a `Stop` waits for and what may still come from which
generation (`Children`), and a count: every generation that was started, or is owed to a call, a timer
or a dying child, was paid for by a call or a crash (`Paid`). The model remembers the ages of the last
restarts, one more than two budgets: that they are few in any window says that the last of them is out
of it. `Windows` says so of each by its place: those the counter does not count came before the
counting window began, so they are at least as old as it; those older than two budgets are out.

*Peer.* The frame of a request is in one place at most on its way to the other end, and is there in none
once a handler has begun (`CallIsTrue`): so who was refused a slot, or could not queue its frame, was heard
by nobody, and a result is that of a handler that ran. Queues and frames are bounded by the places
there are, as cardinalities.

*Tasks.* Handlers, watchers and observers carry from their reads to their writes only turns that Codex
has started; a watcher that writes an end has seen it; a link is there except before the upsert of a
new task. Both theorems are action properties: each write is shown to leave an ended link and the lock
alone, or to be the one that may end it.

*Configuration.* One request acts and nothing refreshes meanwhile (`ActsAlone`), stamps are ordered, a
receipt and its handler say whether the request was carried out (`Progress`) and what the ledger knows
of a test message or a logout (`Message`; where nothing stops halfway no application is ever without a
user, and so no lost logout is taken for completed), and the application shown or about to be shown
exists, save while a logout is being written (`PageOK`).

*Locks.* A call's mutexes are those of the map and count it; two keys have two mutexes; a counted mutex
stays in the map until its last user has unlocked (`Counted`, `OwnMutex`, `InUse`). So two calls of one
key wait for one mutex, whatever is dropped and made anew. `LocksAdvance` takes the greatest key that
anybody waits for, which the sorted acquisition makes free or held by a call that goes on.

*Snapshots, Codex, host.* A label is the generation of the child that was asked, or none, and only the
first is looked at (`LabelledRight`). The client starts nothing once it is closed, so its last process
stays the last; a call's number is drawn before it is pending, so what a reader has in hand is nobody's
any more; a request of Codex is shown, or with one goroutine, or answered. Every Core but the current
one was told to end, and only the host's own step makes another one current (`CoresInv`).

*Registration, uploads, reports.* A session that runs is the registry's, and younger than what a purge
covers, as a logout empties the registry with the mutex held. Slots and bytes are those of the calls and
transfers there are, as cardinalities (`MemoryInv`); a call that runs has its transfer out of the table,
alone, and what has run is gone (`RunsAlone`, `RunsAreOver`). A reporter holds the locks of what it has
read, so that is still what the files say (`ReporterOK`), and all files are made with one key (`StoreOK`).

*Desktop.* An observer asks for one thing of each kind at a time and never waits with an answer in its
channel, so nobody who sends is blocked (`WaitersOK`); a reader has an entry of the cache, and an entry
that is being read has a reader (`CacheOK`).

*Operations.* For each operation what record, item, calls, worker and recovery know of it agree:
`RecordOK` (what a status says of what was sent and applied), `CallOK` (one call dispatches or has queued
an operation), `WorkOK` (one worker at a time; one that may write has an operation that was not written,
and evidence newer than that of all that succeeded), `StageOK` (what the recovery has yet to visit).

*Cards.* A sync that has seen its replacement knows what Feishu shows (`SyncOK`); one that found no
card found an ended link, which gets none any more (`Cardless`); and whoever writes a link outside of
its sync keeps a mark, or leaves the card to a person (`Follows`). So every step that takes a mark
leaves the card of the link, a review, or no card; the skipping sync, of which this is false, is
excepted in the statement. From the release of the links until the next login no link is active and no
handler works (`Disconnected`).

*Pages.* What a page shows and what is on its way was the Core's (`FromTheCore`); on Windows one of the
things on their way is heeded, and is of no older epoch than what is shown (`OneIsHeeded`), while on
macOS the Core has one epoch; the numbers of actions are new, and what will be said of an action is so
(`NumbersAreNew`, `OutcomeWillBeTrue`). In the dashboard the readers exclude each other (`OneReads`), a
page that reads is told the end, once (`EachIsTold`), and a forced refresh waits to be made, is on its
way, or has come (`ForceIsCarried`).

The proofs corrected the model in two places: calls of an upload have numbers, without which
`MemoryIsHeld` fails for budgets no run has; and the result that a recovered item gets is stated by
disjoint cases.

What stays with TLC: all liveness properties, which are out of the prover's reach;
`IndexIsAProjection` and `TargetInOrder` (cardinalities and orders over all items),
`KeptLongEnough` of `Retention` and all of `TokenUsage` and `TaskBoards` (sums and sequences computed by
recursion), which need induction over data; and `SeesWhatWoke`, which holds in every mix TLC was given,
but may not hold for every budget. For that reason the combined invariants `QueuesSound` and
`FilesSound` are proved only in the parts named in the tables.

## 6. What is not modelled

Payloads, identifiers and texts are values that are only compared; clocks are not modelled beyond what
is due; files damaged from outside are not modelled: a file is one that some write of the code
produced, whole, as the rename guarantees, and power does not fail (only processes do).

- *Inbox, inbound*: the one-time migration of receipts, normalisation and authorisation of payloads (a
  result of `Dispatch`), the fingerprint inbox behind `Put`, the card probe, the WebSocket.
- *Messages, queue*: bindings of sent messages and cards, split messages, dry runs, media cleanup, the
  contents of backups, waiting for a result, limits by backend and class.
- *Capabilities*: arguments and results, audit, dry runs, service messages, the conversation of a
  desktop approval (nobody sets the gate's caller), an assessment that confirms or rejects.
- *Supervisor*: the RPC itself, which of `running` and `idle_unconfigured` a ready child is, stderr diagnostics, `Service.Close` beside a `Restart`.
- *Tasks, cards*: progress texts, attachments, the two 30 s marks of a submitted answer, layouts, the
  500 ms pause, the wake channel, the retry of a reviewed card. Feishu is taken to apply the
  replacements of one card in the order the child makes them.
- *Configuration*: texts, digests, the retired user authorisation, the age of observations, failing
  writes of a receipt and of the cleanup journal, limits of 128 and 10 requests, `closeConfiguration`,
  the purge that a child resumes at its start.
- *Registration, retention, reports*: user authorisation, the official command, applications configured
  by hand; the legacy folder; a record that is not parsed beyond its validity, get, list and doctor.
- *Connections*: encodings; `StartPreparedTurn`, user input and the parsing of Desktop's state; root
  checks and the command's own reservation of an upload; the parts of a snapshot.
- *Pages*: which action it is and the flow it opens, `visibilitychange`, the recovery guard; threads,
  project caches, a missing Codex, shutdown.
- *Dashboard, tokens*: routes, names, orders, usage, limits; prices and the comparison with the account.

## 7. Plan

Done: the modules above, their runs, and the proofs of twenty components. Left, in this order:
`TargetInOrder` of `WorkQueue`, as far as an order of several items can be turned into an invariant over
pairs of them; `SeesWhatWoke` of `DesktopTasks`, for the budgets for which it holds; then the approval broker, if its
callers reach production.
