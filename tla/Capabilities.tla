----------------------------- MODULE Capabilities -----------------------------
(* Governed operations of a capability in the Feishu child: prepared, confirmed, queued,      *)
(* executed and reconciled (feishu/capability_service.go, operations.go, actionbox.go,       *)
(* capability_executor.go) under a policy that may change (capabilitypolicy/policy.go). The   *)
(* record of an operation is a file behind a lock of its own, so each of its updates is one   *)
(* step; a work item is a file of the queue that WorkQueue has in detail. All operations    *)
(* are on one target and so in one conflict key. Inputs are left out but for their refusal,    *)
(* and so are audit lines, dry runs, the conversation of a desktop approval (nobody sets the   *)
(* gate's caller) and an assessment that confirms or rejects (ReadVerification returns none).  *)
EXTENDS FiniteSets, Integers

CONSTANTS
  Ops,      \* operation ids, a positive number each
  Calls,    \* calls of Prepare and Confirm, a number each in the order they come; the work
            \* item of an operation has its call's id
  Scenarios \* [class, left]. class, the definition in the manifest: [risk, evidence: its preflight
            \* reads the target, follow: it is polled or reread after the write, reread,
            \* desktop: a gate is configured, user: it needs the user's scopes].
            \* Bound: left, [crashes, faults, changes, others, cancels, late]

VARIABLES
  class,      \* the definition
  policy,     \* feishu-capability-policy-v1.json: [revision, permission], its Decision
  scopes,     \* "granted", "missing", or "asked": a request for them is on disk
  target,     \* Feishu: what a preflight reads, a new number for every change
  writes,     \* Feishu: how often the write of an operation was applied
  flying,     \* operations whose write was sent and may still be applied
  record,     \* the records of the operations
  late,       \* operations whose confirmation window is over
  item,       \* item[c]: the work item that call c submitted
  call,       \* call[c]: a call under way
  worker,     \* worker[c]: the execution of item c
  rereading,  \* ReconcileUnknown: the operation it has claimed, or 0
  stage,      \* of the process: what it recovers, then "up", "degraded" or "down"
  todo,       \* the items or operations the stage has yet to visit
  left        \* the budget that is left

vars == <<class, policy, scopes, target, writes, flying, record, late, item, call, worker,
          rereading, stage, todo, left>>
remote == <<target, writes, flying>>
process == <<call, worker, rereading, stage, todo>>

Permissions == {"disabled", "confirm_each", "allowed"}
Statuses == {"none", "awaiting_confirmation", "queued", "running", "verifying", "succeeded",
             "failed", "expired", "cancelled", "outcome_unknown"}
InFlight == {"queued", "running", "verifying"}
Final == {"succeeded", "failed", "expired", "cancelled"}
Recovery == {"items", "terminal", "ops", "again"}

Unprepared == [status |-> "none", next |-> "none", revision |-> 0, permission |-> "disabled",
               print |-> 0, attempts |-> 0, tries |-> 0]
NoItem == [op |-> 0, state |-> "none", result |-> "none"]
NoCall == [pc |-> "idle", op |-> 0, print |-> 0]
Done == [NoCall EXCEPT !.pc = "done"]
NoWork == [pc |-> "idle", print |-> 0, result |-> "none"]

Spend(what) == left[what] > 0 /\ left' = [left EXCEPT ![what] = @ - 1]
Alive == stage # "down"
Verification == 3

------------------------------------------------------------------------------
(* The policy *)

\* Default: what may be destroyed is disabled.
Default(risk) == CASE risk \in {"read", "write"} -> "allowed"
                   [] risk \in {"high-impact-write", "remote-operation"} -> "confirm_each"
                   [] OTHER -> "disabled"

\* UpdatePolicy: destructive effects are never simply allowed.
Safe(permission) == class.risk = "destructive" => permission # "allowed"

\* Save: under its lock, and only over the revision that was read.
UpdatePolicy(permission) ==
  /\ Spend("changes")
  /\ Safe(permission)
  /\ policy' = [revision |-> policy.revision + 1, permission |-> permission]
  /\ UNCHANGED <<class, scopes, remote, record, late, item, process>>

\* validateCurrentPolicy
Current(r) == /\ policy.revision = r.revision
              /\ policy.permission = r.permission
              /\ r.permission # "disabled"

\* Load: a policy that cannot be read or decoded allows nothing.
Unreadable == Spend("faults")

------------------------------------------------------------------------------
(* The record of an operation: each of these is one update under its lock *)

Status(o) == record[o].status

Becomes(o, status, next) ==
  record' = [record EXCEPT ![o].status = status, ![o].next = next]

\* RejectBeforeExecution, and the refusals of a confirmation and of a claim
Rejected(o) == Becomes(o, "failed", "reprepare")

\* Fail: nothing happens to an operation that is not in flight.
Fail(o) == IF Status(o) \in InFlight THEN Becomes(o, "failed", "stop") ELSE UNCHANGED record

\* unknownOutcomeNextAction
UnknownNext(r) == IF r.tries >= Verification \/ ~class.reread THEN "manual_review" ELSE "query"

\* MarkOutcomeUnknown
Doubted(r) ==
  IF r.status \in InFlight
    THEN [r EXCEPT !.status = "outcome_unknown", !.next = UnknownNext(r),
                   !.attempts = IF @ = 0 THEN 1 ELSE @]
    ELSE r

MarkOutcomeUnknown(o) == record' = [record EXCEPT ![o] = Doubted(@)]

\* ReadVerification: what is reread proves nothing, so no operation is confirmed or rejected.
Assessment == "inconclusive"

\* ResolveReconciliation; ReconciliationFailed does what it does with an inconclusive one.
Resolved(r, assessment) ==
  CASE assessment = "confirmed" -> [r EXCEPT !.status = "succeeded", !.next = "stop"]
    [] assessment = "rejected" -> [r EXCEPT !.status = "failed", !.next = "stop"]
    [] OTHER -> [r EXCEPT !.status = "outcome_unknown",
                          !.next = IF r.tries >= Verification THEN "manual_review" ELSE "query"]

\* claimExecution for a queued operation; the print is what a preflight read just before.
Claim(o, print) ==
  IF print # record[o].print \/ ~Current(record[o]) THEN Rejected(o)
  ELSE record' = [record EXCEPT ![o].status = "running", ![o].next = "query",
                                ![o].attempts = @ + 1]

Cancel(o) ==
  /\ Alive /\ Spend("cancels")
  /\ Status(o) \in {"awaiting_confirmation", "queued"}
  /\ Becomes(o, "cancelled", "stop")
  /\ UNCHANGED <<class, policy, scopes, remote, late, item, process>>

\* OperationConfirmationWindow passes.
WindowCloses(o) ==
  /\ Status(o) = "awaiting_confirmation" /\ o \notin late
  /\ Spend("late")
  /\ late' = late \cup {o}
  /\ UNCHANGED <<class, policy, scopes, remote, record, item, process>>

\* Status, also from ExpireAwaiting
Expire(o) ==
  /\ Alive
  /\ Status(o) = "awaiting_confirmation" /\ o \in late
  /\ Becomes(o, "expired", "reprepare")
  /\ UNCHANGED <<class, policy, scopes, remote, late, item, process, left>>

------------------------------------------------------------------------------
(* Prepare, Confirm and the dispatch that follows *)

\* ensureCapabilityUserAuthorization: what is missing is asked for, once.
Authorised == ~class.user \/ scopes = "granted"
Asks == scopes' = IF Authorised THEN scopes ELSE "asked"

\* The authorisation that was asked for is given; the request is removed.
Grant == /\ scopes = "asked"
         /\ scopes' = "granted"
         /\ UNCHANGED <<class, policy, remote, record, late, item, process, left>>

Goes(c, pc) == call' = [call EXCEPT ![c].pc = pc]
Ends(c) == call' = [call EXCEPT ![c] = Done]

\* ReadPreflight: the call goes on with what it read, or ends without the user's scopes or
\* because the read fails. An input_summary is the same every time and counts as none.
ReadsFor(c, op, pc) ==
  IF ~class.evidence
    THEN /\ call' = [call EXCEPT ![c] = [pc |-> pc, op |-> op, print |-> 0]]
         /\ UNCHANGED <<scopes, left>>
    ELSE /\ Asks
         /\ \/ /\ Authorised
               /\ call' = [call EXCEPT ![c] = [pc |-> pc, op |-> op, print |-> target]]
               /\ UNCHANGED left
            \/ Authorised /\ Spend("faults") /\ Ends(c)
            \/ ~Authorised /\ Ends(c) /\ UNCHANGED left

At(c, pc) == Alive /\ call[c].pc = pc

\* A call, the next one, whose input validateCapabilityInput accepts; any other leaves nothing.
New(c) == At(c, "idle") /\ \A d \in Calls : d < c => call[d].pc # "idle"

Op(c) == call[c].op

\* Prepare, up to the record.
Prepare(c) ==
  /\ New(c)
  /\ ReadsFor(c, 0, "prepare")
  /\ UNCHANGED <<class, policy, remote, record, late, item, worker, rereading, stage, todo>>

\* prepareWithProfile; a configured gate confirms at once, for a person will be asked.
Prepared(c) ==
  /\ At(c, "prepare")
  /\ \/ Unreadable /\ Ends(c) /\ UNCHANGED record
     \/ policy.permission = "disabled" /\ Ends(c) /\ UNCHANGED <<record, left>>
     \/ /\ policy.permission # "disabled"
        /\ \E p \in Ops : Status(p) = "none"
        /\ LET o == CHOOSE o \in Ops : Status(o) = "none"
               asked == policy.permission = "confirm_each"
           IN /\ record' = [record EXCEPT ![o] =
                   [Unprepared EXCEPT
                      !.status = IF asked THEN "awaiting_confirmation" ELSE "queued",
                      !.next = IF asked THEN "confirm" ELSE "execute",
                      !.revision = policy.revision, !.permission = policy.permission,
                      !.print = call[c].print]]
              /\ call' = [call EXCEPT ![c] =
                   IF ~asked THEN [pc |-> "dispatch", op |-> o, print |-> 0]
                   ELSE IF class.desktop THEN [pc |-> "confirm", op |-> o, print |-> 0]
                   ELSE Done]
        /\ UNCHANGED left
  /\ UNCHANGED <<class, policy, scopes, remote, late, item, worker, rereading, stage, todo>>

\* Confirm with the right challenge, up to ConfirmWithEvidence: a new call, or Prepare's own.
Confirm(c, o) ==
  /\ \/ New(c)
     \/ At(c, "confirm") /\ Op(c) = o
  /\ Status(o) \in {"awaiting_confirmation", "queued"}
  /\ ReadsFor(c, o, "confirming")
  /\ UNCHANGED <<class, policy, remote, record, late, item, worker, rereading, stage, todo>>

\* Prepare's own confirmation finds the operation cancelled or expired.
Unavailable(c) ==
  /\ At(c, "confirm")
  /\ Status(Op(c)) \notin {"awaiting_confirmation", "queued"}
  /\ Ends(c)
  /\ UNCHANGED <<class, policy, scopes, remote, record, late, item, worker, rereading, stage,
                 todo, left>>

\* ConfirmWithEvidence. A challenge is spent, so a second confirmation finds nothing pending.
Pending(o) == {"awaiting_confirmation"}

Confirmed(c) ==
  /\ At(c, "confirming")
  /\ LET o == Op(c) r == record[o]
     IN \/ Unreadable /\ Ends(c) /\ UNCHANGED record
        \/ /\ IF r.status \notin Pending(o) THEN Ends(c) /\ UNCHANGED record
              ELSE IF o \in late THEN Becomes(o, "expired", "reprepare") /\ Ends(c)
              ELSE IF \/ call[c].print # r.print
                      \/ policy.revision # r.revision \/ policy.permission = "disabled"
                THEN Rejected(o) /\ Ends(c)
              ELSE Becomes(o, "queued", "execute") /\ Goes(c, "dispatch")
           /\ UNCHANGED left
  /\ UNCHANGED <<class, policy, scopes, remote, late, item, worker, rereading, stage, todo>>

\* dispatch of what changes something: Submit's ValidateQueuedRequest. What it refuses
\* fails, unless it is not in flight; settings that cannot be read end the call.
Dispatch(c) ==
  /\ At(c, "dispatch") /\ class.risk # "read"
  /\ LET o == Op(c)
     IN \/ /\ Status(o) = "queued" /\ Current(record[o])
           /\ Goes(c, "submit")
           /\ UNCHANGED <<record, left>>
        \/ /\ ~(Status(o) = "queued" /\ Current(record[o]))
           /\ IF Status(o) = "queued" THEN Fail(o) ELSE UNCHANGED record
           /\ Ends(c) /\ UNCHANGED left
        \/ Status(o) = "queued" /\ Unreadable /\ Fail(o) /\ Ends(c)
        \/ Spend("faults") /\ Ends(c) /\ UNCHANGED record
  /\ UNCHANGED <<class, policy, scopes, remote, late, item, worker, rereading, stage, todo>>

\* enqueue: the item is written, or the operation fails.
Submit(c) ==
  /\ At(c, "submit")
  /\ \/ /\ item' = [item EXCEPT ![c] = [op |-> Op(c), state |-> "pending", result |-> "none"]]
        /\ UNCHANGED <<record, left>>
     \/ Spend("faults") /\ Fail(Op(c)) /\ UNCHANGED item
  /\ Ends(c)
  /\ UNCHANGED <<class, policy, scopes, remote, late, worker, rereading, stage, todo>>

\* dispatch of a read: it is claimed and executed by the call itself.
ClaimRead(c) ==
  /\ At(c, "dispatch") /\ class.risk = "read"
  /\ \/ /\ Status(Op(c)) = "queued"
        /\ Claim(Op(c), record[Op(c)].print)
        /\ IF Current(record[Op(c)]) THEN Goes(c, "reading") ELSE Ends(c)
        /\ UNCHANGED left
     \/ Status(Op(c)) = "queued" /\ Unreadable /\ Rejected(Op(c)) /\ Ends(c)
     \/ Status(Op(c)) # "queued" /\ Ends(c) /\ UNCHANGED <<record, left>>
  /\ UNCHANGED <<class, policy, scopes, remote, late, item, worker, rereading, stage, todo>>

\* The read fails; or its success is recorded in two updates, the first of which may be
\* refused without consequence.
Read(c) ==
  /\ At(c, "reading")
  /\ \/ Authorised /\ Spend("faults") /\ Fail(Op(c)) /\ Ends(c)
     \/ ~Authorised /\ Fail(Op(c)) /\ Ends(c) /\ UNCHANGED left
     \/ /\ Authorised
        /\ IF Status(Op(c)) = "running" THEN Becomes(Op(c), "verifying", "query")
                                        ELSE UNCHANGED record
        /\ Goes(c, "complete") /\ UNCHANGED left
  /\ Asks
  /\ UNCHANGED <<class, policy, remote, late, item, worker, rereading, stage, todo>>

\* CompleteWithResult
Complete(o) == IF Status(o) \in {"running", "verifying"} THEN Becomes(o, "succeeded", "stop")
                                                        ELSE UNCHANGED record

Completed(c) ==
  /\ At(c, "complete")
  /\ Complete(Op(c)) /\ Ends(c)
  /\ UNCHANGED <<class, policy, scopes, remote, late, item, worker, rereading, stage, todo,
                 left>>

CallSteps(c) == \/ Prepare(c) \/ Prepared(c) \/ Unavailable(c) \/ Confirmed(c)
                \/ Dispatch(c) \/ Submit(c) \/ ClaimRead(c) \/ Read(c) \/ Completed(c)
                \/ \E o \in Ops : Confirm(c, o)

------------------------------------------------------------------------------
(* The execution of an item: processClaimed and executeRequest *)

Works(c, pc) == Alive /\ worker[c].pc = pc
For(c) == item[c].op
GoesOn(c, pc) == worker' = [worker EXCEPT ![c].pc = pc]
Results(c, result) == worker' = [worker EXCEPT ![c] = [NoWork EXCEPT !.pc = "finish",
                                                                     !.result = result]]

\* claimID, with the reservation of the conflict key: one item at a time.
Take(c) ==
  /\ stage = "up"
  /\ item[c].state = "pending"
  /\ \A d \in Calls : worker[d].pc = "idle"
  /\ item' = [item EXCEPT ![c].state = "running"]
  /\ GoesOn(c, "check")
  /\ UNCHANGED <<class, policy, scopes, remote, record, late, call, rereading, stage, todo,
                 left>>

\* ValidateQueuedRequest, and the settings, which may be unreadable.
Check(c) ==
  /\ Works(c, "check")
  /\ \/ /\ UNCHANGED left
        /\ IF Status(For(c)) # "queued" THEN Results(c, "failed")
           ELSE IF ~Current(record[For(c)]) THEN GoesOn(c, "reject")
           ELSE GoesOn(c, IF class.evidence THEN "preflight" ELSE "claim")
     \/ Spend("faults") /\ Results(c, "failed")
     \/ Status(For(c)) = "queued" /\ Unreadable /\ GoesOn(c, "reject")
  /\ UNCHANGED <<class, policy, scopes, remote, record, late, item, call, rereading, stage,
                 todo>>

\* The preflight is read again.
Preflight(c) ==
  /\ Works(c, "preflight")
  /\ Asks
  /\ \/ /\ Authorised
        /\ worker' = [worker EXCEPT ![c] = [@ EXCEPT !.pc = "claim", !.print = target]]
        /\ UNCHANGED left
     \/ Authorised /\ Spend("faults") /\ GoesOn(c, "reject")
     \/ ~Authorised /\ GoesOn(c, "reject") /\ UNCHANGED left
  /\ UNCHANGED <<class, policy, remote, record, late, item, call, rereading, stage, todo>>

\* RejectBeforeExecution, which finds it cancelled.
Reject(c) ==
  /\ Works(c, "reject")
  /\ IF Status(For(c)) = "queued" THEN Rejected(For(c)) /\ Results(c, "failed")
                                  ELSE GoesOn(c, "doubt") /\ UNCHANGED record
  /\ UNCHANGED <<class, policy, scopes, remote, late, item, call, rereading, stage, todo, left>>

\* ClaimExecutionWithEvidence, and the phase of the item
ClaimOp(c) ==
  /\ Works(c, "claim")
  /\ LET o == For(c)
     IN \/ Status(o) # "queued" /\ Results(c, "failed") /\ UNCHANGED <<record, left>>
        \/ /\ Status(o) = "queued"
           /\ Claim(o, worker[c].print)
           /\ IF record'[o].status = "running" THEN GoesOn(c, "boundary")
                                              ELSE Results(c, "failed")
           /\ UNCHANGED left
        \/ Status(o) = "queued" /\ Unreadable /\ Rejected(o) /\ Results(c, "failed")
  /\ UNCHANGED <<class, policy, scopes, remote, late, item, call, rereading, stage, todo>>

\* ValidateExecution
MayExecute(r) == r.status = "running" /\ r.attempts = 1 /\ Current(r)

\* beforeRemoteWrite and validateDirectBinding; what refuses is certain.
Passes(c, next) ==
  /\ \/ MayExecute(record[For(c)]) /\ GoesOn(c, next) /\ UNCHANGED <<record, left>>
     \/ /\ MayExecute(record[For(c)]) /\ Spend("faults")
        /\ Fail(For(c)) /\ Results(c, "failed")
     \/ /\ ~MayExecute(record[For(c)])
        /\ Fail(For(c)) /\ Results(c, "failed") /\ UNCHANGED left
  /\ UNCHANGED <<class, policy, scopes, remote, late, item, call, rereading, stage, todo>>

Boundary(c) == Works(c, "boundary") /\ Passes(c, "execute")

\* ExecuteWithOptions, until it writes: the session, the scopes, the input, and a preflight that
\* is not compared.
Execute(c) == Works(c, "execute") /\ Authorised /\ Passes(c, "write")

\* The executor's scopes; the user who withdrew them is asked again.
Scopes(c) ==
  /\ Works(c, "execute") /\ ~Authorised
  /\ Asks /\ Fail(For(c)) /\ Results(c, "failed")
  /\ UNCHANGED <<class, policy, remote, late, item, call, rereading, stage, todo, left>>

Applied(o) == /\ writes' = [writes EXCEPT ![o] = @ + 1]
              /\ target' = target + 1

\* isUncertainExecutionError: what is not certain is unknown.
Uncertain(c) == MarkOutcomeUnknown(For(c)) /\ Results(c, "unknown")
Certain(c) == Fail(For(c)) /\ Results(c, "failed")

\* runBusinessCommand refuses, or the command cannot be started.
NotStarted(c) == Spend("faults") /\ Certain(c) /\ UNCHANGED remote

\* capabilityInvocation or run objects to the input; that is not told apart from a write.
Objects(c) == Spend("faults") /\ Uncertain(c) /\ UNCHANGED remote

\* runBusinessProcess: the command ends without an answer that can be trusted.
NoAnswer(c) ==
  /\ Spend("faults") /\ Uncertain(c)
  /\ flying' = flying \cup {For(c)}
  /\ UNCHANGED <<target, writes>>

\* runDefinition
Write(c) ==
  /\ Works(c, "write")
  /\ \/ NotStarted(c) \/ Objects(c) \/ NoAnswer(c)
     \/ /\ Applied(For(c)) /\ GoesOn(c, IF class.follow THEN "follow" ELSE "verify")
        /\ UNCHANGED <<flying, record, left>>
  /\ UNCHANGED <<class, policy, scopes, late, item, call, rereading, stage, todo>>

\* What was sent arrives after all, or never.
Lands(o) ==
  /\ o \in flying
  /\ flying' = flying \ {o}
  /\ Applied(o) \/ UNCHANGED <<target, writes>>
  /\ UNCHANGED <<class, policy, scopes, record, late, item, process, left>>

\* pollRemote or the reread after the write. A command that could not even start is taken for
\* the failure of the operation, although the write was applied.
Follow(c) ==
  /\ Works(c, "follow")
  /\ \/ GoesOn(c, "verify") /\ UNCHANGED <<record, left>>
     \/ Spend("faults") /\ (Uncertain(c) \/ Certain(c))
  /\ UNCHANGED <<class, policy, scopes, remote, late, item, call, rereading, stage, todo>>

\* MarkVerifyingWithResult
Verify(c) ==
  /\ Works(c, "verify")
  /\ IF Status(For(c)) = "running"
       THEN Becomes(For(c), "verifying", "query") /\ GoesOn(c, "settle")
       ELSE GoesOn(c, "doubt") /\ UNCHANGED record
  /\ UNCHANGED <<class, policy, scopes, remote, late, item, call, rereading, stage, todo, left>>

\* CompleteWithResult, or for what destroys ResolveReconciliation with a first reread
Settle(c) ==
  /\ Works(c, "settle")
  /\ LET o == For(c)
     IN IF Status(o) # "verifying" THEN GoesOn(c, "doubt") /\ UNCHANGED record
        ELSE IF class.risk = "destructive"
          THEN /\ record' = [record EXCEPT ![o] = Resolved(@, Assessment)]
               /\ Results(c, "unknown")
          ELSE Complete(o) /\ Results(c, "succeeded")
  /\ UNCHANGED <<class, policy, scopes, remote, late, item, call, rereading, stage, todo, left>>

\* finish
Finish(c) ==
  /\ Works(c, "finish")
  /\ item' = [item EXCEPT ![c].state = "terminal", ![c].result = worker[c].result]
  /\ worker' = [worker EXCEPT ![c] = NoWork]
  /\ UNCHANGED <<class, policy, scopes, remote, record, late, call, rereading, stage, todo,
                 left>>

\* operationPersistenceFailure, a finish that fails, a panic: the handler fails. What was
\* about to be written may be on its way.
Breaks(c) ==
  /\ Alive /\ worker[c].pc \notin {"idle", "doubt"} /\ Spend("faults")
  /\ GoesOn(c, "doubt")
  /\ \/ worker[c].pc = "write" /\ flying' = flying \cup {For(c)}
     \/ UNCHANGED flying
  /\ UNCHANGED <<class, policy, scopes, target, writes, record, late, item, call, rereading,
                 stage, todo>>

\* recoveryResult: the record says how the item ended.
RecoveryResult(r) == CASE r.status = "succeeded" -> "succeeded"
                       [] r.status \in Final \ {"succeeded"} -> "failed"
                       [] OTHER -> "unknown"

Recovered(c) == item' = [item EXCEPT ![c].state = "terminal",
                                     ![c].result = RecoveryResult(Doubted(record[For(c)]))]

\* execute's markOutcomeUnknown, which may fail after each of its writes; Run ends.
Doubt(c) ==
  /\ Works(c, "doubt")
  /\ \/ MarkOutcomeUnknown(For(c)) /\ Recovered(c) /\ UNCHANGED left
     \/ /\ Spend("faults") /\ UNCHANGED item
        /\ MarkOutcomeUnknown(For(c)) \/ UNCHANGED record
  /\ worker' = [worker EXCEPT ![c] = NoWork]
  /\ stage' = IF stage = "up" THEN "degraded" ELSE stage
  /\ UNCHANGED <<class, policy, scopes, remote, late, call, rereading, todo>>

WorkerSteps(c) ==
  \/ Take(c) \/ Check(c) \/ Preflight(c) \/ Reject(c) \/ ClaimOp(c)
  \/ Boundary(c) \/ Execute(c) \/ Scopes(c) \/ Write(c) \/ Follow(c)
  \/ Verify(c) \/ Settle(c) \/ Finish(c)
  \/ Breaks(c) \/ Doubt(c)

------------------------------------------------------------------------------
(* ReconcileUnknown: one operation after the other *)

\* BeginReconciliation
Reconcilable(r) == r.tries < Verification

Begin(o) ==
  /\ Alive /\ rereading = 0 /\ class.reread
  /\ Status(o) = "outcome_unknown" /\ Reconcilable(record[o])
  /\ record' = [record EXCEPT ![o].status = "verifying", ![o].next = "query",
                              ![o].tries = @ + 1]
  /\ rereading' = o
  /\ UNCHANGED <<class, policy, scopes, remote, late, item, call, worker, stage, todo, left>>

\* ResolveReconciliation or ReconciliationFailed
Resolve ==
  /\ Alive /\ rereading # 0
  /\ rereading' = 0
  /\ IF Status(rereading) = "verifying"
       THEN record' = [record EXCEPT ![rereading] = Resolved(@, Assessment)]
       ELSE UNCHANGED record
  /\ UNCHANGED <<class, policy, scopes, remote, late, item, call, worker, stage, todo, left>>

------------------------------------------------------------------------------
(* The process ends anywhere, and recovers *)

Perishes == /\ call' = [c \in Calls |-> IF call[c].pc = "idle" THEN NoCall ELSE Done]
            /\ worker' = [c \in Calls |-> NoWork]
            /\ rereading' = 0 /\ stage' = "down" /\ todo' = {}
            /\ flying' = flying \cup {For(c) : c \in {d \in Calls : worker[d].pc = "write"}}

Crash == /\ Alive /\ Spend("crashes")
         /\ Perishes
         /\ UNCHANGED <<class, policy, scopes, target, writes, record, late, item>>

StoredIn(state) == {c \in Calls : item[c].state = state}

Start == /\ ~Alive
         /\ stage' = "items" /\ todo' = StoredIn("running")
         /\ UNCHANGED <<class, policy, scopes, remote, record, late, item, call, worker,
                        rereading, left>>

Visits(at, x) == stage = at /\ x \in todo /\ todo' = todo \ {x}

\* recoverRunning: the record first, then the file; nothing is executed again.
Reconciled(r) == Doubted(r)

RecoverItem(c) ==
  /\ Visits("items", c)
  /\ record' = [record EXCEPT ![For(c)] = Reconciled(@)]
  /\ item' = IF record'[For(c)].status = "queued" THEN [item EXCEPT ![c].state = "pending"]
             ELSE [item EXCEPT ![c].state = "terminal",
                               ![c].result = RecoveryResult(record'[For(c)])]
  /\ UNCHANGED <<class, policy, scopes, remote, late, call, worker, rereading, stage, left>>

\* The process ends between the two, or because the second fails.
RecoverTorn(c) ==
  /\ stage = "items" /\ c \in todo /\ Spend("crashes")
  /\ record' = [record EXCEPT ![For(c)] = Reconciled(@)]
  /\ Perishes
  /\ UNCHANGED <<class, policy, scopes, target, writes, late, item>>

\* reconcileTerminalOperations, again when the scheduler starts
RecoverTerminal(at, c) ==
  /\ Visits(at, c)
  /\ MarkOutcomeUnknown(For(c))
  /\ UNCHANGED <<class, policy, scopes, remote, late, item, call, worker, rereading, stage,
                 left>>

\* RecoverInterrupted: what no item tells of, and what a call or a reconciliation of this
\* process does just now.
RecoverOp(o) ==
  /\ Visits("ops", o)
  /\ IF Status(o) \in {"running", "verifying"} THEN MarkOutcomeUnknown(o) ELSE UNCHANGED record
  /\ UNCHANGED <<class, policy, scopes, remote, late, item, call, worker, rereading, stage,
                 left>>

\* The order of main and of the scheduler's Run
Following == [items |-> "terminal", terminal |-> "ops", ops |-> "again", again |-> "up"]

Proceed ==
  /\ stage \in Recovery /\ todo = {}
  /\ stage' = Following[stage]
  /\ todo' = CASE stage' = "ops" -> {o \in Ops : Status(o) # "none"}
               [] stage' \in {"terminal", "again"} -> StoredIn("terminal")
               [] OTHER -> {}
  /\ UNCHANGED <<class, policy, scopes, remote, record, late, item, call, worker, rereading,
                 left>>

RecoverySteps == \/ Crash \/ Start \/ Proceed
                 \/ \E c \in Calls : RecoverItem(c) \/ RecoverTorn(c)
                 \/ \E c \in Calls, at \in {"terminal", "again"} : RecoverTerminal(at, c)
                 \/ \E o \in Ops : RecoverOp(o)

------------------------------------------------------------------------------
\* A person changes the target; the user withdraws the scopes.
Other ==
  /\ Spend("others")
  /\ \/ target' = target + 1 /\ UNCHANGED scopes
     \/ scopes = "granted" /\ scopes' = "missing" /\ UNCHANGED target
  /\ UNCHANGED <<class, policy, writes, flying, record, late, item, process>>

Init ==
  /\ \E s \in Scenarios : class = s.class /\ left = s.left
  /\ policy \in {[revision |-> 1, permission |-> p] :
                  p \in {Default(class.risk)} \cup (IF class.risk = "destructive"
                                                     THEN {"confirm_each"} ELSE {})}
  /\ scopes \in IF class.user THEN {"granted", "missing"} ELSE {"granted"}
  /\ target = 1 /\ writes = [o \in Ops |-> 0] /\ flying = {}
  /\ record = [o \in Ops |-> Unprepared] /\ late = {}
  /\ item = [c \in Calls |-> NoItem]
  /\ call = [c \in Calls |-> NoCall]
  /\ worker = [c \in Calls |-> NoWork]
  /\ rereading = 0 /\ stage = "up" /\ todo = {}

Next == \/ \E c \in Calls : CallSteps(c) \/ WorkerSteps(c)
        \/ \E o \in Ops : Cancel(o) \/ WindowCloses(o) \/ Expire(o) \/ Lands(o) \/ Begin(o)
        \/ \E p \in Permissions : UpdatePolicy(p)
        \/ Grant \/ Resolve \/ Other \/ RecoverySteps

Spec == Init /\ [][Next]_vars

------------------------------------------------------------------------------
(* Properties *)

TypeOK ==
  /\ class \in {s.class : s \in Scenarios}
  /\ policy \in [revision : Nat \ {0}, permission : Permissions]
  /\ scopes \in {"granted", "missing", "asked"}
  /\ target \in Nat \ {0} /\ writes \in [Ops -> Nat] /\ flying \subseteq Ops
  /\ record \in [Ops -> [status : Statuses,
                         next : {"none", "confirm", "execute", "query", "manual_review", "stop",
                                 "reprepare"},
                         revision : Nat, permission : Permissions, print : Nat,
                         attempts : Nat, tries : 0..Verification]]
  /\ late \subseteq Ops
  /\ item \in [Calls -> [op : Ops \cup {0}, state : {"none", "pending", "running", "terminal"},
                        result : {"none", "succeeded", "failed", "unknown"}]]
  /\ call \in [Calls -> [pc : {"idle", "prepare", "confirm", "confirming", "dispatch", "submit",
                              "reading", "complete", "done"},
                        op : Ops \cup {0}, print : Nat]]
  /\ worker \in [Calls -> [pc : {"idle", "check", "preflight", "reject", "claim", "boundary",
                                "execute", "write", "follow", "verify", "settle", "finish",
                                "doubt"},
                          print : Nat, result : {"none", "succeeded", "failed", "unknown"}]]
  /\ rereading \in Ops \cup {0}
  /\ stage \in Recovery \cup {"up", "degraded", "down"}
  /\ todo \subseteq Ops \cup Calls

\* A governed write is applied once at most, over confirmations that are repeated, crashes at
\* any step and answers that come late; and an operation has one work item (operations.go:444,
\* capability_service.go:299).
AppliedOnce ==
  /\ \A o \in Ops : writes[o] + (IF o \in flying THEN 1 ELSE 0) <= 1
  /\ \A c, d \in Calls : item[c].op = item[d].op /\ item[c].op # 0 => c = d

\* What the record says is true of Feishu: an operation that succeeded was applied; one that was
\* cancelled, expired or is to be prepared anew was not and never will be (operations.go:513).
RecordIsTrue ==
  \A o \in Ops :
    /\ Status(o) = "succeeded" /\ class.risk # "read" => writes[o] = 1
    /\ \/ Status(o) \in {"none", "awaiting_confirmation", "queued", "cancelled", "expired"}
       \/ record[o].next = "reprepare"
       => writes[o] = 0 /\ o \notin flying

\* Two operations prepared from the same reading of a target do not both succeed: the claim of
\* the second sees what the first has done (operations.go:444, actionbox.go:289).
NoBlindWrite ==
  class.evidence =>
    \A o, p \in Ops : /\ o # p /\ record[o].print = record[p].print
                     /\ Status(o) = "succeeded"
                     => Status(p) # "succeeded"

\* An unknown outcome is reread three times at most, and then a person is asked; never before,
\* where there is something to reread (operations.go:366, 530).
PersonIsAsked ==
  class.reread =>
    \A o \in Ops :
      Status(o) = "outcome_unknown" =>
        (record[o].next = "manual_review" <=> record[o].tries = Verification)

\* The result of a finished item agrees with the record that is the authority.
ItemAgrees ==
  \A c \in Calls : item[c].state = "terminal" =>
    (item[c].result = "succeeded" <=> Status(item[c].op) = "succeeded")

\* What has ended stays as it ended, and what is unknown never turns into a success or a failure
\* (operations.go:569); an operation whose policy was changed while it waited never runs
\* (operations.go:764).
Unknown(r) == r.status = "outcome_unknown" \/ (r.status = "verifying" /\ r.tries > 0)

OutcomesStay ==
  [][\A o \in Ops :
       /\ Status(o) \in Final => record'[o] = record[o]
       /\ Unknown(record[o]) => Unknown(record'[o])
       /\ Status(o) \in {"awaiting_confirmation", "queued"}
            /\ record[o].revision # policy.revision => Status(o)' # "running"]_vars
==============================================================================
