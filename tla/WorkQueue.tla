------------------------------ MODULE WorkQueue ------------------------------
(* The durable queue of governed messages in the Feishu child: the files of
   feishu/workbox_v3.go, their migration and recovery (work_recovery.go), the scheduler
   (work_scheduler.go) and the execution of a claimed item (outbox.go, actionbox.go). An
   item is a file that moves from pending to running to terminal; beside it lies the
   record of its operation, which is the authority. Every operation on the files holds
   one lock, so a crash inside is an action of its own that ends after some of the writes
   (Torn). Payloads, audit lines, backups and dry runs are left out. *)
EXTENDS Integers, FiniteSets, FiniteSetsExt

CONSTANTS Items,             \* the items, a smaller number created earlier
          Key,               \* the conflict key of each item: its target
          Parts,             \* the number of messages each item is split into
          Capacity,          \* defaultWorkConcurrency
          DispatchAttempts,  \* failures in a row that end the scheduler
          Scenarios          \* what earlier versions left, and what may happen

ASSUME WorkAssumption == /\ Items \subseteq Nat \ {0} /\ IsFiniteSet(Items)
                         /\ DOMAIN Key = Items
                         /\ Parts \in [Items -> Nat \ {0}]
                         /\ {Capacity, DispatchAttempts} \subseteq Nat \ {0}

Dirs == {"pending", "running", "terminal"}
Results == {"none", "sent", "failed", "cancelled", "unknown"}
InFlight == {"queued", "running", "verifying"}
OpStatuses == InFlight \cup {"none", "succeeded", "failed", "cancelled", "unknown"}
Origins == {"new", "v2new", "v2processed", "v2answered",
            "v3pending", "v3running", "v3finished", "v3terminal"}

\* A version 2 line was not migrated yet; the record of an item that has only waited does not
\* say that it was sent, and that of one whose file says so does not say that it was not.
ASSUME ScenariosAssumption ==
  \A s \in Scenarios :
    /\ s.origin \in [Items -> Origins] /\ s.op \in [Items -> OpStatuses]
    /\ s.marks \subseteq {"v2", "v3"}
    /\ \A i \in Items :
         /\ s.origin[i] \in {"v2new", "v2processed", "v2answered"} => "v2" \notin s.marks
         /\ s.origin[i] \in {"new", "v2new", "v3pending"} => s.op[i] # "succeeded"
         /\ s.origin[i] = "v3finished" => s.op[i] \notin {"queued", "failed", "cancelled"}

NoFile == [v |-> 0, state |-> "none", result |-> "none"]
File(state, result) == [v |-> 4, state |-> state, result |-> result]
Idle == [pc |-> "idle", sent |-> 0, result |-> "none"]

VARIABLES
  files,     \* files[i][d]: the file of item i in directory d
  line,      \* the lines of the version 2 queue and of its results, until they are archived
  marks,     \* the migrations that are complete
  index,     \* the counts in index.json, or Unreadable
  op,        \* the operation record of each item
  policy,    \* the policy the operations were approved under still holds
  writes,    \* Feishu: the messages that arrived for each item
  stage,     \* the scheduler: what Run is doing
  todo,      \* items that stage has not handled
  health,    \* why the scheduler is degraded
  reserved,  \* items the scheduler counts as active
  lastKey,   \* the item dispatched last
  failures,  \* dispatch failures in a row
  worker,    \* the goroutine that executes an item
  admitted,  \* items whose execution is admitted
  direct,    \* keys of the direct executions that are admitted
  left       \* how many crashes, stops, faults (writes and sends that fail, panics), changes
             \* of policy or cancellations and direct executions may still happen

disk == <<files, line, marks, index>>
records == <<op, policy, writes>>
scheduler == <<stage, todo, health, reserved, lastKey, failures>>
execution == <<worker, admitted, direct>>
vars == <<disk, records, scheduler, execution, left>>

Spend(what) == left[what] > 0 /\ left' = [left EXCEPT ![what] = @ - 1]

Exists(i, d) == files[i][d] # NoFile

Put(i, d, file) == [files EXCEPT ![i][d] = file]
Rename(i, from, to, file) == [files EXCEPT ![i][from] = NoFile, ![i][to] = file]

------------------------------------------------------------------------------
(* The index: a projection of the directories *)

Unreadable == [pending |-> -1, running |-> -1, terminal |-> -1]

CountsOf(f) == [d \in Dirs |-> Cardinality({i \in Items : f[i][d] # NoFile})]

\* updateIndexLocked: an index that cannot be read is rebuilt.
Moved(from, to) ==
  IF index = Unreadable THEN CountsOf(files')
  ELSE [d \in Dirs |-> CASE d = to -> index[d] + 1
                         [] d = from /\ index[d] > 0 -> index[d] - 1
                         [] OTHER -> index[d]]

------------------------------------------------------------------------------
(* The operation record *)

Approved(i) == op[i] = "queued" /\ policy

\* reconcileWorkOperation, MarkOutcomeUnknown: whatever was in flight is unknown.
Reconciled(i) == IF op[i] \in InFlight THEN [op EXCEPT ![i] = "unknown"] ELSE op

\* recoveryResult: the record says how the item ended.
RecoveryResult(status) == CASE status = "succeeded" -> "sent"
                            [] status \in {"failed", "cancelled"} -> status
                            [] OTHER -> "unknown"

Recovered(i) == File("terminal", RecoveryResult(op'[i]))

Cancel(i) == /\ op[i] = "queued"
             /\ Spend("changes")
             /\ op' = [op EXCEPT ![i] = "cancelled"]
             /\ UNCHANGED <<disk, policy, writes, scheduler, execution>>

PolicyChange == /\ policy
                /\ Spend("changes")
                /\ policy' = FALSE
                /\ UNCHANGED <<disk, op, writes, scheduler, execution>>

------------------------------------------------------------------------------
(* The process *)

Cancelled == stage \in {"draining", "ended"}

Start(next, work) == stage' = next /\ todo' = work

NoProcess == /\ Start("down", {})
             /\ reserved' = {} /\ lastKey' = 0 /\ failures' = 0
             /\ worker' = [i \in Items |-> Idle] /\ admitted' = {} /\ direct' = {}

Crash == /\ stage # "down"
         /\ Spend("crashes")
         /\ NoProcess
         /\ UNCHANGED <<disk, records, health>>

\* What ends after some of its file operations, and with it the process.
Torn == stage # "down" /\ Spend("crashes") /\ NoProcess /\ UNCHANGED health

Stop == /\ stage = "run"
        /\ Spend("stops")
        /\ stage' = "draining"
        /\ UNCHANGED <<disk, records, todo, health, reserved, lastKey, failures, execution>>

\* The parent ends a child whose scheduler has ended.
Exit == /\ stage = "ended"
        /\ NoProcess
        /\ UNCHANGED <<disk, records, health, left>>

\* main: RecoverInterrupted, before the scheduler starts.
Boot == /\ stage = "down"
        /\ op' = [i \in Items |-> IF op[i] \in {"running", "verifying"} THEN "unknown"
                                  ELSE op[i]]
        /\ health' = "ok"
        /\ Start(IF "v2" \notin marks THEN "import"
                 ELSE IF "v3" \notin marks THEN "inspect" ELSE "recover",
                 Items)
        /\ UNCHANGED <<disk, policy, writes, reserved, lastKey, failures, execution, left>>

Degrade(why) == stage' = "ended" /\ todo' = {} /\ health' = why

Starting == stage \in {"import", "answers", "archive", "inspect", "upgrade", "recover", "reconcile"}

StartupFails == /\ Starting
                /\ Spend("faults")
                /\ Degrade("startup")
                /\ UNCHANGED <<disk, records, reserved, lastKey, failures, execution>>

Quiet == UNCHANGED <<health, reserved, lastKey, failures, execution, policy, writes>>

------------------------------------------------------------------------------
(* Migration of the version 2 queue: its lines become files, then it is archived *)

AllDone(at) == stage = at /\ todo = {}

Take(at, i) == /\ stage = at /\ i \in todo
               /\ todo' = todo \ {i}
               /\ Quiet /\ UNCHANGED <<stage, left>>

\* An answered line waits for its answer. One that was processed, or that nobody
\* authorised, is not run: its outcome is unknown.
Import(i) ==
  /\ Take("import", i)
  /\ IF line[i] \notin {"new", "processed"} THEN UNCHANGED <<files, op>>
     ELSE IF line[i] = "processed" \/ ~Approved(i)
     THEN op' = Reconciled(i) /\ files' = Put(i, "terminal", File("terminal", "unknown"))
     ELSE op' = op /\ files' = Put(i, "pending", File("pending", "none"))
  /\ UNCHANGED <<line, marks, index>>

ImportAnswer(i) ==
  /\ Take("answers", i)
  /\ files' = IF line[i] = "answered" THEN Put(i, "terminal", File("terminal", "sent"))
              ELSE files
  /\ UNCHANGED <<line, marks, index, op>>

Imported == /\ AllDone("import")
            /\ Start("answers", Items)
            /\ Quiet /\ UNCHANGED <<disk, op, left>>

\* archiveLegacy moves the queue first, and then the results.
ArchiveQueue == /\ AllDone("answers")
                /\ index' = CountsOf(files)
                /\ line' = [i \in Items |-> IF line[i] = "answered" THEN "answered" ELSE "none"]
                /\ Start("archive", {})
                /\ Quiet /\ UNCHANGED <<files, marks, op, left>>

ArchiveResults == /\ AllDone("archive")
                  /\ line' = [i \in Items |-> "none"]
                  /\ marks' = marks \cup {"v2"}
                  /\ Start(IF "v3" \in marks THEN "recover" ELSE "inspect", Items)
                  /\ Quiet /\ UNCHANGED <<files, index, op, left>>

------------------------------------------------------------------------------
(* Migration of version 3 files *)

\* A file whose state does not fit its directory stops the migration.
Misplaced(i) == \/ Exists(i, "pending") /\ files[i]["pending"].state # "pending"
                \/ Exists(i, "terminal") /\ files[i]["terminal"].state # "terminal"

Inspect == /\ stage = "inspect"
           /\ IF \E i \in Items : Misplaced(i) THEN Degrade("invalid state")
              ELSE Start("upgrade", Items) /\ UNCHANGED health
           /\ UNCHANGED <<disk, records, reserved, lastKey, failures, execution, left>>

Old(i, d) == files[i][d].v = 3

Denied(i) == Old(i, "pending") /\ ~Approved(i)

RecoveredFile(i) == LET f == files[i]["running"]
                    IN IF f.state = "terminal" /\ f.result # "none" THEN [f EXCEPT !.v = 4]
                       ELSE Recovered(i)

\* upgradePendingLocked and the loop of migrateV3.
Upgrade(i) ==
  /\ Take("upgrade", i)
  /\ op' = IF Denied(i) \/ Old(i, "running") THEN Reconciled(i) ELSE op
  /\ files' = CASE Denied(i) -> Rename(i, "pending", "terminal", File("terminal", "unknown"))
                [] Old(i, "pending") /\ ~Denied(i) -> Put(i, "pending", File("pending", "none"))
                [] Old(i, "running") -> Rename(i, "running", "terminal", RecoveredFile(i))
                [] OTHER -> [files EXCEPT ![i]["terminal"].v = IF @ = 3 THEN 4 ELSE @]
  /\ UNCHANGED <<line, marks, index>>

\* The process dies after the write, before the file is moved.
UpgradeTorn(i) ==
  /\ stage = "upgrade" /\ i \in todo
  /\ Denied(i) \/ Old(i, "running")
  /\ op' = Reconciled(i)
  /\ files' = IF Denied(i) THEN Put(i, "pending", File("terminal", "unknown"))
              ELSE Put(i, "running", RecoveredFile(i))
  /\ Torn
  /\ UNCHANGED <<line, marks, index, policy, writes>>

Upgraded == /\ AllDone("upgrade")
            /\ index' = CountsOf(files)
            /\ marks' = marks \cup {"v3"}
            /\ Start("recover", Items)
            /\ Quiet /\ UNCHANGED <<files, line, op, left>>

------------------------------------------------------------------------------
(* Recovery: what was claimed by an earlier process is never run again *)

Recover(i) ==
  /\ Take("recover", i)
  /\ IF Exists(i, "running")
     THEN /\ op' = Reconciled(i)
          /\ files' = Rename(i, "running", "terminal", RecoveredFile(i))
     ELSE UNCHANGED <<op, files>>
  /\ UNCHANGED <<line, marks, index>>

RecoverTorn(i) ==
  /\ stage = "recover" /\ i \in todo
  /\ Exists(i, "running")
  /\ op' = Reconciled(i)
  /\ files' = Put(i, "running", RecoveredFile(i))
  /\ Torn
  /\ UNCHANGED <<line, marks, index, policy, writes>>

RecoveredAll == /\ AllDone("recover")
                /\ Start("reconcile", {})
                /\ Quiet /\ UNCHANGED <<disk, op, left>>

\* reconcileTerminalOperations, rebuildIndex.
ReconcileTerminal ==
  /\ stage = "reconcile"
  /\ op' = [i \in Items |-> IF Exists(i, "terminal") /\ op[i] \in InFlight THEN "unknown"
                            ELSE op[i]]
  /\ index' = CountsOf(files)
  /\ Start("run", {})
  /\ Quiet /\ UNCHANGED <<files, line, marks, left>>

------------------------------------------------------------------------------
(* Submission and dispatch *)

\* Items of one target are submitted as they were created. Sending the same request
\* again is refused.
Submit(i) ==
  /\ line[i] = "submit"
  /\ \A j \in Items : j < i /\ Key[j] = Key[i] => line[j] # "submit"
  /\ marks = {"v2", "v3"}
  /\ \A d \in Dirs : ~Exists(i, d)
  /\ line' = [line EXCEPT ![i] = "none"]
  /\ files' = Put(i, "pending", File("pending", "none"))
  /\ index' = Moved("none", "pending")
  /\ UNCHANGED <<marks, records, scheduler, execution, left>>

Pending(i) == files[i]["pending"] = File("pending", "none")

AnyPending == {i \in Items : Pending(i)}

PendingHeads == {i \in AnyPending : \A j \in AnyPending : Key[j] = Key[i] => i <= j}

Eligible == {i \in PendingHeads : \A j \in reserved : Key[j] # Key[i]}

\* rotateEligible: from the head behind the key that was dispatched last, in order of age.
Candidate == LET behind == {i \in Eligible : \E h \in PendingHeads :
                               lastKey # 0 /\ Key[h] = Key[lastKey] /\ i > h}
             IN Min(IF behind # {} THEN behind ELSE Eligible)

Dispatching == stage = "run" /\ Cardinality(reserved) < Capacity /\ Eligible # {}

FailedDispatch ==
  /\ UNCHANGED todo
  /\ IF failures + 1 < DispatchAttempts
     THEN failures' = failures + 1 /\ UNCHANGED <<stage, health>>
     ELSE failures' = 0 /\ stage' = "draining" /\ health' = "dispatch"

Dispatch ==
  LET i == Candidate
  IN /\ Dispatching
     /\ index # Unreadable
     /\ files' = Rename(i, "pending", "running", File("running", "none"))
     /\ index' = Moved("pending", "running")
     /\ reserved' = reserved \cup {i}
     /\ lastKey' = i
     /\ failures' = 0
     /\ worker' = [worker EXCEPT ![i].pc = "admit"]
     /\ UNCHANGED <<line, marks, records, stage, todo, health, admitted, direct, left>>

DispatchTorn ==
  /\ Dispatching
  /\ files' = Rename(Candidate, "pending", "running", File("pending", "none"))
  /\ Torn
  /\ UNCHANGED <<line, marks, index, records>>

\* An index that cannot be read is repaired, and the claim fails before the file moves;
\* a write that fails after the move moves it back.
DispatchFails ==
  /\ Dispatching
  /\ IF index = Unreadable THEN index' = CountsOf(files) /\ UNCHANGED left
     ELSE Spend("faults") /\ UNCHANGED index
  /\ FailedDispatch
  /\ UNCHANGED <<files, line, marks, records, reserved, lastKey, execution>>

IndexBreaks == /\ index # Unreadable
               /\ Spend("faults")
               /\ index' = Unreadable
               /\ UNCHANGED <<files, line, marks, records, scheduler, execution>>

\* release, on a completion; one with an error ends Run.
Release(i) ==
  /\ stage \in {"run", "draining"}
  /\ worker[i].pc \in {"done", "broken"}
  /\ reserved' = reserved \ {i}
  /\ worker' = [worker EXCEPT ![i] = Idle]
  /\ IF worker[i].pc = "done" THEN UNCHANGED <<stage, health>>
     ELSE stage' = "draining" /\ health' = "work"
  /\ UNCHANGED <<disk, records, todo, lastKey, failures, admitted, direct, left>>

\* Every worker is released, or the five seconds are over.
Drained(timeout) == /\ stage = "draining"
                    /\ IF timeout THEN reserved # {} /\ health' = "shutdown" /\ Spend("faults")
                       ELSE reserved = {} /\ UNCHANGED <<health, left>>
                    /\ Start("ended", {})
                    /\ UNCHANGED <<disk, records, reserved, lastKey, failures, execution>>

------------------------------------------------------------------------------
(* Execution of a claimed item *)

At(i, pc) == worker[i].pc = pc
Go(i, pc) == worker' = [worker EXCEPT ![i].pc = pc]
Conclude(i, pc, result) == worker' = [worker EXCEPT ![i].pc = pc, ![i].result = result]
Working == UNCHANGED <<line, marks, policy, scheduler, direct>>
OnlyWorker == UNCHANGED <<disk, records, scheduler, admitted, direct>>

HasRoom == Cardinality(admitted) + Cardinality(direct) < Capacity

\* Mutant: the key is not looked at when an execution is admitted.
AdmitsAnyKey(key) == HasRoom

Admits(key) == HasRoom /\ key \notin {Key[i] : i \in admitted} \cup direct

Released(i) == admitted \ {i}

Admit(i) == /\ At(i, "admit")
            /\ IF Cancelled THEN Go(i, "doubt") /\ UNCHANGED admitted
               ELSE /\ Admits(Key[i])
                    /\ Go(i, "look")
                    /\ admitted' = admitted \cup {i}
            /\ UNCHANGED <<disk, records, scheduler, direct, left>>

\* A direct execution holds the admission of its target while it writes.
DirectStarts(key) == /\ stage = "run" /\ Spend("directs")
                     /\ Admits(key)
                     /\ direct' = direct \cup {key}
                     /\ UNCHANGED <<disk, records, scheduler, worker, admitted>>

DirectEnds(key) == /\ key \in direct
                   /\ direct' = direct \ {key}
                   /\ UNCHANGED <<disk, records, scheduler, worker, admitted, left>>

\* boundQueueInput
Look(i) == /\ At(i, "look")
           /\ IF Approved(i) THEN Go(i, "claim") ELSE Conclude(i, "finish", "failed")
           /\ OnlyWorker /\ UNCHANGED left

\* ValidateQueuedRequest and ClaimExecution, which refuse for good when the policy changed.
Claim(i) ==
  /\ At(i, "claim")
  /\ IF Approved(i) THEN op' = [op EXCEPT ![i] = "running"] /\ Go(i, "phase")
     ELSE /\ op' = IF op[i] = "queued" THEN [op EXCEPT ![i] = "failed"] ELSE op
          /\ Conclude(i, "finish", "failed")
  /\ Working /\ UNCHANGED <<files, index, writes, admitted, left>>

ClaimFails(i) == /\ At(i, "claim")
                 /\ Spend("faults")
                 /\ Conclude(i, "finish", "failed")
                 /\ OnlyWorker

\* setExecutionPhase: operation_claimed
SetPhase(i) == /\ At(i, "phase")
               /\ \/ Go(i, "check") /\ UNCHANGED left
                  \/ Spend("faults") /\ Conclude(i, "finish", "unknown")
               /\ OnlyWorker

MayWrite(i) == ~Cancelled /\ policy /\ op[i] = "running"

\* beforeRemoteWrite
Check(i) == /\ At(i, "check")
            /\ IF MayWrite(i) THEN \/ Go(i, "send") /\ UNCHANGED left
                                   \/ Spend("faults") /\ Conclude(i, "settle", "failed")
               ELSE Conclude(i, "settle", "failed") /\ UNCHANGED left
            /\ OnlyWorker

\* Mutant: a failure behind the first part is an ordinary failure.
ForgetsTheParts(i) == "failed"

\* What is already out makes a failure uncertain: partial_sent.
NotSent(i) == IF worker[i].sent > 0 THEN "unknown" ELSE "failed"

SendRefused(i) == /\ At(i, "send")
                  /\ MayWrite(i) => Spend("faults")
                  /\ ~MayWrite(i) => UNCHANGED left
                  /\ Conclude(i, "settle", NotSent(i))
                  /\ OnlyWorker

Arrives(i) == writes' = [writes EXCEPT ![i] = @ + 1]

SendPart(i) == /\ At(i, "send") /\ MayWrite(i)
               /\ Arrives(i)
               /\ worker' = [worker EXCEPT ![i].sent = @ + 1,
                                           ![i].pc = IF worker[i].sent + 1 = Parts[i] THEN "verify"
                                                     ELSE "send"]
               /\ UNCHANGED <<disk, op, policy, scheduler, admitted, direct, left>>

\* A timeout, or a connection that breaks.
NoAnswer(i) == /\ At(i, "send") /\ MayWrite(i)
               /\ Spend("faults")
               /\ Arrives(i) \/ UNCHANGED writes
               /\ Conclude(i, "settle", "unknown")
               /\ UNCHANGED <<disk, op, policy, scheduler, admitted, direct>>

\* Fail, or MarkOutcomeUnknownWithResult.
Settle(i) ==
  /\ At(i, "settle")
  /\ \/ op' = [op EXCEPT ![i] = worker[i].result] /\ Go(i, "finish") /\ UNCHANGED left
     \/ Spend("faults") /\ Conclude(i, "finish", "unknown") /\ UNCHANGED op
  /\ Working /\ UNCHANGED <<files, index, writes, admitted>>

\* MarkVerifyingWithResult, then CompleteWithResult.
Verify(i) ==
  /\ At(i, "verify")
  /\ \/ /\ op' = [op EXCEPT ![i] = IF @ = "running" THEN "verifying" ELSE "succeeded"]
        /\ IF op[i] = "running" THEN Go(i, "verify") ELSE Conclude(i, "finish", "sent")
        /\ UNCHANGED left
     \/ Spend("faults") /\ Conclude(i, "finish", "unknown") /\ UNCHANGED op
  /\ Working /\ UNCHANGED <<files, index, writes, admitted>>

\* finish, and the admission is released.
Finish(i) == /\ At(i, "finish")
             /\ files' = Rename(i, "running", "terminal", File("terminal", worker[i].result))
             /\ index' = Moved("running", "terminal")
             /\ Go(i, "done")
             /\ admitted' = Released(i)
             /\ Working /\ UNCHANGED <<op, writes, left>>

\* A write that fails, or the rename after it.
FinishFails(i) == /\ At(i, "finish")
                  /\ Spend("faults")
                  /\ \/ UNCHANGED files
                     \/ files' = Put(i, "running", File("terminal", worker[i].result))
                  /\ Go(i, "doubt")
                  /\ admitted' = Released(i)
                  /\ Working /\ UNCHANGED <<op, writes, index>>

FinishTorn(i) == /\ At(i, "finish")
                 /\ files' = Put(i, "running", File("terminal", worker[i].result))
                 /\ Torn
                 /\ UNCHANGED <<line, marks, index, records>>

Panic(i) == /\ worker[i].pc \notin {"idle", "admit", "doubt", "done", "broken"}
            /\ Spend("faults")
            /\ Go(i, "doubt")
            /\ admitted' = Released(i)
            /\ UNCHANGED <<disk, records, scheduler, direct>>

\* markOutcomeUnknown after an error or a panic: what is in flight becomes unknown, and the
\* result is what the record says. A second failure leaves the file to the next start.
Doubt(i) == /\ At(i, "doubt")
            /\ op' = Reconciled(i)
            /\ Go(i, "broken")
            /\ \/ /\ files' = Rename(i, "running", "terminal", Recovered(i))
                  /\ index' = Moved("running", "terminal")
                  /\ UNCHANGED left
               \/ Spend("faults") /\ UNCHANGED <<files, index>>
            /\ Working /\ UNCHANGED <<writes, admitted>>

------------------------------------------------------------------------------
Init ==
  \E s \in Scenarios :
    /\ line = [i \in Items |-> CASE s.origin[i] = "new" -> "submit"
                                 [] s.origin[i] = "v2new" -> "new"
                                 [] s.origin[i] = "v2processed" -> "processed"
                                 [] s.origin[i] = "v2answered" -> "answered"
                                 [] OTHER -> "none"]
    /\ files = [i \in Items |->
         [d \in Dirs |-> CASE s.origin[i] = "v3pending" /\ d = "pending" ->
                                [v |-> 3, state |-> "pending", result |-> "none"]
                           [] s.origin[i] = "v3running" /\ d = "running" ->
                                [v |-> 3, state |-> "running", result |-> "none"]
                           [] s.origin[i] = "v3finished" /\ d = "running" ->
                                [v |-> 3, state |-> "terminal", result |-> "sent"]
                           [] s.origin[i] = "v3terminal" /\ d = "terminal" ->
                                [v |-> 3, state |-> "terminal", result |-> "sent"]
                           [] OTHER -> NoFile]]
    /\ marks = s.marks
    /\ index = CountsOf(files)
    /\ op = s.op
    /\ writes = [i \in Items |-> IF s.origin[i] \in {"new", "v2new", "v3pending"}
                                    \/ /\ s.origin[i] = "v3running"
                                       /\ s.op[i] \in {"queued", "failed", "cancelled"}
                                 THEN 0 ELSE Parts[i]]
    /\ left = s.left
    /\ policy = TRUE
    /\ stage = "down" /\ todo = {} /\ health = "ok"
    /\ reserved = {} /\ lastKey = 0 /\ failures = 0
    /\ worker = [i \in Items |-> Idle]
    /\ admitted = {} /\ direct = {}

Startup == \/ Boot \/ Imported \/ ArchiveQueue \/ ArchiveResults \/ Inspect
           \/ Upgraded \/ RecoveredAll \/ ReconcileTerminal
           \/ \E i \in Items : Import(i) \/ ImportAnswer(i) \/ Upgrade(i) \/ Recover(i)

Run == Dispatch \/ DispatchFails \/ Drained(FALSE) \/ \E i \in Items : Release(i)

Execute(i) == \/ Admit(i) \/ Look(i) \/ Claim(i) \/ SetPhase(i) \/ Check(i) \/ SendRefused(i)
              \/ SendPart(i) \/ NoAnswer(i) \/ Settle(i) \/ Verify(i) \/ Finish(i) \/ Doubt(i)

Next == \/ Startup \/ Run
        \/ StartupFails \/ Crash \/ Stop \/ Exit \/ PolicyChange \/ IndexBreaks \/ DispatchTorn
        \/ Drained(TRUE)
        \/ \E i \in Items : \/ Execute(i) \/ ClaimFails(i) \/ FinishFails(i) \/ FinishTorn(i)
                            \/ Panic(i) \/ UpgradeTorn(i) \/ RecoverTorn(i)
                            \/ Submit(i) \/ Cancel(i)
                            \/ DirectStarts(Key[i]) \/ DirectEnds(Key[i])

Spec == Init /\ [][Next]_vars

\* The processes and goroutines run on, and a direct execution comes to an end; nobody
\* has to submit, cancel or stop anything.
LiveSpec == /\ Spec
            /\ WF_vars(Startup) /\ WF_vars(Run)
            /\ \A i \in Items : WF_vars(Execute(i)) /\ WF_vars(DirectEnds(Key[i]))

------------------------------------------------------------------------------
Settled(i) == files[i]["terminal"].state = "terminal"

TypeOK ==
  /\ files \in [Items -> [Dirs -> [v : {0, 3, 4}, state : Dirs \cup {"none"}, result : Results]]]
  /\ line \in [Items -> {"submit", "new", "processed", "answered", "none"}]
  /\ marks \subseteq {"v2", "v3"}
  /\ index \in [Dirs -> Int]
  /\ op \in [Items -> OpStatuses]
  /\ writes \in [Items -> Nat]
  /\ todo \subseteq Items /\ reserved \subseteq Items /\ lastKey \in Items \cup {0}
  /\ worker \in [Items -> [pc : {"idle", "admit", "look", "claim", "phase", "check", "send",
                                 "settle", "verify", "finish", "doubt", "done", "broken"},
                           sent : Nat, result : Results]]

\* No message of an item reaches Feishu twice, whatever crashes, fails or is recovered, and
\* whatever an earlier version had already sent (recoverRunning: never replays).
WrittenOnce == \A i \in Items : writes[i] <= Parts[i]

\* What the terminal file says is what Feishu has: a success was written in full, and of a
\* failure or a cancellation nothing was (the operation record and the file do not disagree).
ResultIsTrue ==
  \A i \in Items : LET result == files[i]["terminal"].result
                   IN /\ result = "sent" => writes[i] = Parts[i]
                      /\ result \in {"failed", "cancelled"} => writes[i] = 0

\* Whoever writes to a target is alone there, direct executions included, and no older item
\* for that target is still waiting (one target sees its messages in order).
TargetInOrder ==
  \A i \in Items : worker[i].pc \in {"look", "claim", "phase", "check", "send"} =>
    /\ Key[i] \notin direct
    /\ \A j \in Items \ {i} : Key[j] = Key[i] => ~At(j, "send") /\ (Pending(j) => i < j)

\* While the scheduler runs, an index that can be read counts what the directories hold.
IndexIsAProjection == stage = "run" /\ index # Unreadable => index = CountsOf(files)

\* An item that was accepted, by this version or an earlier one, and has no result.
Open(i) == line[i] # "submit" /\ ~Settled(i)

\* An accepted item ends with a result, unless the scheduler gave up and waits for a restart
\* (work_scheduler.go).
EverySubmissionEnds == []<>(stage = "ended" \/ \A i \in Items : ~Open(i))
==============================================================================
