-------------------------- MODULE ServiceMessages --------------------------
(***************************************************************************)
(* The outgoing half of the Feishu child process: messages, replies and    *)
(* card edits the Core asks for (Core/internal/feishu:                     *)
(* service_message_execution.go, service_message_resume.go,                *)
(* service_transport.go, direct_execution.go, execution_admission.go,      *)
(* operations.go, the confirmation calls of capability_service.go and      *)
(* executeRequest of actionbox.go).                                        *)
(*                                                                         *)
(* A message has an idempotency key.  executeMessage holds the lock of the *)
(* key from its first read to its last write and keeps two files: the      *)
(* ledger of the key and the record of the operation the ledger names.     *)
(* Only the ledger is covered by the lock: Confirm, Cancel, Status and the *)
(* recovery at the child's start change a record under the record's own    *)
(* lock while a call is anywhere between two of its steps, and the policy  *)
(* may change at any time.  Requests are served as soon as the child runs, *)
(* before its recovery is over.                                            *)
(*                                                                         *)
(* A write of a file may fail before or after it replaced the target.  A   *)
(* call has 30 seconds: where it waits or checks its context it may time   *)
(* out.  Clocks are abstracted: late holds the operations whose five       *)
(* minutes for a confirmation have passed.                                 *)
(***************************************************************************)
EXTENDS Naturals, FiniteSets

CONSTANTS
  Keys,        \* idempotency keys
  Edits,       \* the keys of card edits, which patchLatest may replace
  Targets,     \* chats and users
  TargetOf,    \* the target, and so the conflict key, of a key
  Slots,       \* defaultWorkConcurrency = 4
  MaxOps,      \* bound on operations
  MaxCalls,    \* bound on requests of the Core
  MaxPolicies, \* bound on policy updates
  MaxFaults,   \* bound on failing writes
  MaxCrashes,  \* bound on crashes of the child
  NoOp, NoLedger, NoCall

ASSUME KeysAssumption ==
  /\ IsFiniteSet(Keys)
  /\ Edits \subseteq Keys
  /\ TargetOf \in [Keys -> Targets]
ASSUME BoundsAssumption ==
  /\ Slots \in Nat /\ MaxOps \in Nat /\ MaxCalls \in Nat /\ MaxPolicies \in Nat
  /\ MaxFaults \in Nat /\ MaxCrashes \in Nat

Ops == 1 .. MaxOps

Statuses ==
  {"awaiting", "queued", "running", "verifying", "succeeded", "failed", "expired",
   "cancelled", "unknown"}

Decisions == {"disabled", "confirm", "allowed"}

\* rev and perm are PolicyRevision and Permission, challenge numbers the token of
\* ChallengeHash (0: none), tries is AttemptCount; again says that NextAction asks
\* for a new preparation, busy that LastError is approval_authorization_busy.
OperationRecord ==
  [key : Keys, status : Statuses, perm : {"confirm", "allowed"}, rev : Nat,
   challenge : Nat, tries : Nat, again : BOOLEAN, busy : BOOLEAN]

Ledger ==
  [op : Ops, phase : {"queued", "writing", "terminal"},
   status : {"none", "failed", "unknown", "succeeded"}]

Points ==
  {"look", "binding", "viewed", "admitting", "validating", "rejecting", "claiming",
   "checking", "guarding", "marking", "sending", "writing", "failing", "doubting",
   "verifying", "completing", "settling"}

\* A call of executeMessage: where it is, the operation it works on and the status
\* it saw, whether it found no ledger and whether it may replace an edit, whether
\* its remote write took effect, why it fails and its ActionResult's status.
Call ==
  [at : Points, op : Ops \cup {NoOp}, seen : Statuses, fresh : BOOLEAN, replace : BOOLEAN,
   hit : BOOLEAN, busy : BOOLEAN, result : {"none", "failed", "unknown", "succeeded"}]

ASSUME NothingAssumption ==
  /\ NoOp \notin OperationRecord /\ NoOp \notin Ops /\ NoOp \notin [op : Ops, status : Statuses]
  /\ NoLedger \notin Ledger /\ NoCall \notin Call

VARIABLES
  ops,        \* the operation records
  ledger,     \* the ledger of a key
  policy,     \* its revision and its decision for these capabilities
  late,       \* operations whose ChallengeExpiresAt has passed
  up,         \* the child runs
  call,       \* per key: the call that holds the key's lock
  admitted,   \* the keys that executionAdmission lets run
  resuming,   \* confirmed operations whose Confirm goes on to ResumeOperation
  sweep,      \* RecoverInterrupted at the child's start: starting, sweeping, done
  recovering, \* operations it has not read yet
  loaded,     \* the operation it has just read, and the status it read
  given,      \* history: <<operation, challenge>> shown to the user
  consent,    \* history: the challenge the user confirmed
  writes,     \* history: remote writes per operation
  applied,    \* history: operations whose remote write took effect
  told,       \* history: keys whose caller got a message id
  calls, faults, crashes

files == <<ops, ledger>>
recovery == <<sweep, recovering, loaded>>
history == <<given, consent, writes, applied, told>>
bounds == <<calls, faults, crashes>>
\* What the steps of a call leave alone.
env == <<policy, late, up, resuming, recovery, calls, crashes>>
vars == <<files, policy, late, up, call, admitted, resuming, recovery, history, bounds>>

----------------------------------------------------------------------------
(* Writing a record or a ledger.                                           *)

WriteOp(o, r) == ops' = [ops EXCEPT ![o] = r] /\ UNCHANGED faults

WriteOpFails(o, r) ==
  /\ faults < MaxFaults
  /\ faults' = faults + 1
  /\ ops' = ops \/ ops' = [ops EXCEPT ![o] = r]

WriteLedger(k, l) == ledger' = [ledger EXCEPT ![k] = l] /\ UNCHANGED faults

WriteLedgerFails(k, l) ==
  /\ faults < MaxFaults
  /\ faults' = faults + 1
  /\ ledger' = ledger \/ ledger' = [ledger EXCEPT ![k] = l]

Prepared == {o \in Ops : ops[o] # NoOp}

\* transition and the other updates of a record: where the code moves a record to
\* and what it leaves there.
Moved(r, status) == [r EXCEPT !.status = status, !.again = FALSE, !.busy = FALSE]

Refused(r) == [r EXCEPT !.status = "failed", !.challenge = 0, !.again = TRUE, !.busy = FALSE]

Expired(r) == [r EXCEPT !.status = "expired", !.challenge = 0, !.again = TRUE]

InFlight == {"queued", "running", "verifying"}

\* MarkOutcomeUnknown leaves a record that says so already as it is.
MayDoubt(o) == ops[o].status \in InFlight \cup {"unknown"}

Doubted(r) ==
  IF r.status = "unknown" THEN r
  ELSE [Moved(r, "unknown") EXCEPT !.tries = IF @ = 0 THEN 1 ELSE @]

\* validateCurrentPolicy.
PolicyHolds(r) == policy.rev = r.rev /\ policy.decision = r.perm

IsLate(o) == ops[o].status = "awaiting" /\ o \in late

----------------------------------------------------------------------------
Init ==
  /\ ops = [o \in Ops |-> NoOp]
  /\ ledger = [k \in Keys |-> NoLedger]
  /\ policy \in [rev : {1}, decision : Decisions]
  /\ late = {}
  /\ up = FALSE
  /\ call = [k \in Keys |-> NoCall]
  /\ admitted = {}
  /\ resuming = {}
  /\ sweep = "starting" /\ recovering = {} /\ loaded = NoOp
  /\ given = {}
  /\ consent = [o \in Ops |-> 0]
  /\ writes = [o \in Ops |-> 0]
  /\ applied = {}
  /\ told = {}
  /\ calls = 0 /\ faults = 0 /\ crashes = 0

----------------------------------------------------------------------------
(* executeMessage: one step of the call that holds key k.                  *)

At(k, point) == call[k] # NoCall /\ call[k].at = point

Go(k, point) == call' = [call EXCEPT ![k].at = point]

Return(k) == call' = [call EXCEPT ![k] = NoCall]

NewCall(replace) ==
  [at |-> "look", op |-> NoOp, seen |-> "queued", fresh |-> FALSE, replace |-> replace,
   hit |-> FALSE, busy |-> FALSE, result |-> "none"]

\* A request of the Core: Message, or Patch, which may replace.
Request(k) ==
  /\ up
  /\ call[k] = NoCall
  /\ calls < MaxCalls
  /\ calls' = calls + 1
  /\ call' = [call EXCEPT ![k] = NewCall(k \in Edits)]
  /\ UNCHANGED <<files, policy, late, up, admitted, resuming, recovery, history, faults, crashes>>

\* prepareWithProfile: a record that waits for the user or, where the policy allows
\* it, is queued at once.
NewOperation(k) ==
  [key |-> k, status |-> IF policy.decision = "confirm" THEN "awaiting" ELSE "queued",
   perm |-> policy.decision, rev |-> policy.rev,
   challenge |-> IF policy.decision = "confirm" THEN 1 ELSE 0,
   tries |-> 0, again |-> FALSE, busy |-> FALSE]

Prepare(k) ==
  LET o == Cardinality(Prepared) + 1
      r == NewOperation(k)
  IN \/ /\ o \in Ops
        /\ policy.decision # "disabled"
        /\ \/ /\ WriteOp(o, r)
              /\ call' = [call EXCEPT ![k].at = "binding", ![k].op = o, ![k].seen = r.status,
                                      ![k].fresh = ledger[k] = NoLedger]
           \/ WriteOpFails(o, r) /\ Return(k)
     \/ /\ o \notin Ops \/ policy.decision = "disabled"
        /\ Return(k)
        /\ UNCHANGED <<ops, faults>>

\* The ledger is missing: the first request with this key.
First(k) ==
  /\ At(k, "look")
  /\ ledger[k] = NoLedger
  /\ Prepare(k)
  /\ UNCHANGED <<env, ledger, admitted, history>>

\* Status, which expires a confirmation nobody gave in time.
Look(k) ==
  LET o == ledger[k].op
      r == IF IsLate(o) THEN Expired(ops[o]) ELSE ops[o]
  IN /\ At(k, "look")
     /\ ledger[k] # NoLedger
     /\ \/ /\ WriteOp(o, r)
           /\ call' = [call EXCEPT ![k].at = "viewed", ![k].op = o, ![k].seen = r.status,
                                   ![k].busy = r.busy]
        \/ /\ IsLate(o)
           /\ WriteOpFails(o, r)
           /\ Return(k)
     /\ UNCHANGED <<env, ledger, admitted, history>>

\* The challenge reaches the user with the error of a call that has the ledger name
\* the operation.
Bind(k) ==
  LET o == call[k].op
      l == [op |-> o, phase |-> "queued", status |-> "none"]
  IN /\ At(k, "binding")
     /\ \/ /\ WriteLedger(k, l)
           /\ \/ /\ call[k].seen = "awaiting"
                 /\ given' = given \cup {<<o, 1>>}
                 /\ Return(k)
              \/ /\ call[k].seen # "awaiting"
                 /\ Go(k, IF call[k].fresh THEN "look" ELSE "admitting")
                 /\ UNCHANGED given
        \/ /\ WriteLedgerFails(k, l)
           /\ Return(k)
           /\ UNCHANGED given
     /\ UNCHANGED <<env, ops, admitted, consent, writes, applied, told>>

\* Mutant: an unknown outcome is taken for a failure.
CanReprepareUnknown(seen, busy, l) ==
  \/ seen \in {"expired", "cancelled"} /\ l.phase = "queued"
  \/ seen \in {"failed", "unknown"} /\ l.phase = "terminal"

\* serviceMessageCanReprepare; an expired or cancelled operation was never claimed
\* (AttemptCount is 0).
CanReprepare(seen, busy, l) ==
  \/ seen \in {"expired", "cancelled"} /\ l.phase = "queued"
  \/ seen = "failed" /\ busy /\ l.phase = "terminal" /\ l.status = "failed"

CanReplace(k) ==
  call[k].replace /\ call[k].seen = "unknown" /\ ledger[k].phase = "terminal"

StartsAfresh(k) == CanReprepare(call[k].seen, call[k].busy, ledger[k]) \/ CanReplace(k)

Afresh(k) ==
  /\ At(k, "viewed")
  /\ StartsAfresh(k)
  /\ Prepare(k)
  /\ UNCHANGED <<env, ledger, admitted, history>>

\* renewBoundMessageConfirmation.
Renew(k) ==
  LET o == call[k].op
      r == [ops[o] EXCEPT !.challenge = @ + 1]
  IN /\ At(k, "viewed")
     /\ call[k].seen = "awaiting"
     /\ \/ /\ ops[o].status = "awaiting" /\ ~IsLate(o)
           /\ policy.rev = ops[o].rev /\ policy.decision = "confirm"
           /\ \/ WriteOp(o, r) /\ given' = given \cup {<<o, r.challenge>>}
              \/ WriteOpFails(o, r) /\ UNCHANGED given
        \/ /\ ops[o].status # "awaiting" \/ IsLate(o) \/ ~PolicyHolds(ops[o])
           /\ UNCHANGED <<ops, faults, given>>
     /\ Return(k)
     /\ UNCHANGED <<env, ledger, admitted, consent, writes, applied, told>>

\* Done before: the message id is read from the record.
AlreadySent(k) ==
  /\ At(k, "viewed")
  /\ call[k].seen = "succeeded"
  /\ told' = told \cup {k}
  /\ Return(k)
  /\ UNCHANGED <<env, files, admitted, given, consent, writes, applied, faults>>

Interrupted(k) == call[k].seen \in {"running", "verifying"} \/ ledger[k].phase = "writing"

\* transport_outcome_unknown_do_not_replay.
GiveUp(k) ==
  LET o == call[k].op
  IN /\ At(k, "viewed")
     /\ call[k].seen # "awaiting" /\ call[k].seen # "succeeded"
     /\ ~StartsAfresh(k)
     /\ Interrupted(k)
     /\ \/ /\ call[k].seen \in InFlight /\ MayDoubt(o)
           /\ WriteOp(o, Doubted(ops[o])) \/ WriteOpFails(o, Doubted(ops[o]))
        \/ /\ call[k].seen \notin InFlight \/ ~MayDoubt(o)
           /\ UNCHANGED <<ops, faults>>
     /\ Return(k)
     /\ UNCHANGED <<env, ledger, admitted, history>>

\* transport_operation_failed and the like.
Refuse(k) ==
  /\ At(k, "viewed")
  /\ call[k].seen \in {"failed", "expired", "cancelled", "unknown"}
  /\ ~StartsAfresh(k)
  /\ ~Interrupted(k)
  /\ Return(k)
  /\ UNCHANGED <<env, files, admitted, history, faults>>

Proceed(k) ==
  /\ At(k, "viewed")
  /\ call[k].seen = "queued"
  /\ ~Interrupted(k)
  /\ Go(k, "admitting")
  /\ UNCHANGED <<env, files, admitted, history, faults>>

----------------------------------------------------------------------------
(* ExecuteBoundMessage: admission, and executeRequest.                     *)

MayRun(k) ==
  /\ Cardinality(admitted) < Slots
  /\ \A j \in admitted : TargetOf[j] # TargetOf[k]

Admit(k) ==
  /\ At(k, "admitting")
  /\ MayRun(k)
  /\ admitted' = admitted \cup {k}
  /\ Go(k, "validating")
  /\ UNCHANGED <<env, files, history, faults>>

\* The call has a result; its admission is released before the ledger is written.
Settling(k, result) ==
  /\ call' = [call EXCEPT ![k].at = "settling", ![k].result = result]
  /\ admitted' = admitted \ {k}

\* The context ends while the call waits: an empty ActionResult.
AdmitTimeout(k) ==
  /\ At(k, "admitting")
  /\ Settling(k, "none")
  /\ UNCHANGED <<env, files, history, faults>>

\* ValidateQueuedRequest.
Validate(k) ==
  LET r == ops[call[k].op]
  IN /\ At(k, "validating")
     /\ \/ r.status = "queued" /\ PolicyHolds(r) /\ Go(k, "claiming") /\ UNCHANGED admitted
        \/ r.status = "queued" /\ ~PolicyHolds(r) /\ Go(k, "rejecting") /\ UNCHANGED admitted
        \/ r.status # "queued" /\ Settling(k, "failed")
     /\ UNCHANGED <<env, files, history, faults>>

\* RejectBeforeExecution.
Reject(k) ==
  LET o == call[k].op
      r == [Moved(ops[o], "failed") EXCEPT !.again = TRUE]
  IN /\ At(k, "rejecting")
     /\ \/ ops[o].status = "queued" /\ WriteOp(o, r) /\ Settling(k, "failed")
        \/ ops[o].status = "queued" /\ WriteOpFails(o, r) /\ Settling(k, "unknown")
        \/ ops[o].status # "queued" /\ UNCHANGED <<ops, faults>> /\ Settling(k, "unknown")
     /\ UNCHANGED <<env, ledger, history>>

\* claimExecution.
Claim(k) ==
  LET o == call[k].op
      r == [Moved(ops[o], "running") EXCEPT !.tries = @ + 1]
  IN /\ At(k, "claiming")
     /\ \/ /\ ops[o].status = "queued" /\ PolicyHolds(ops[o])
           /\ \/ WriteOp(o, r) /\ Go(k, "checking") /\ UNCHANGED admitted
              \/ WriteOpFails(o, r) /\ Settling(k, "failed")
        \/ /\ ops[o].status = "queued" /\ ~PolicyHolds(ops[o])
           /\ WriteOp(o, Refused(ops[o])) \/ WriteOpFails(o, Refused(ops[o]))
           /\ Settling(k, "failed")
        \/ /\ ops[o].status # "queued"
           /\ UNCHANGED <<ops, faults>>
           /\ Settling(k, "failed")
     /\ UNCHANGED <<env, ledger, history>>

\* ValidateExecution.
MayWrite(r) == r.status = "running" /\ r.tries = 1 /\ PolicyHolds(r)

\* beforeRemoteWrite in executeRequest: a refusal and a timeout fail the operation.
Check(k) ==
  /\ At(k, "checking")
  /\ \/ MayWrite(ops[call[k].op]) /\ Go(k, "guarding")
     \/ Go(k, "failing")
  /\ UNCHANGED <<env, files, admitted, history, faults>>

\* beforeRemoteWrite and ValidateMessageExecution in the executor: a timeout there
\* is an uncertain error.
Guard(k) ==
  /\ At(k, "guarding")
  /\ \/ MayWrite(ops[call[k].op]) /\ Go(k, "marking")
     \/ ~MayWrite(ops[call[k].op]) /\ Go(k, "failing")
     \/ Go(k, "doubting")
  /\ UNCHANGED <<env, files, admitted, history, faults>>

\* The ledger says that the message may be on its way.
MarkWriting(k) ==
  LET l == [ledger[k] EXCEPT !.phase = "writing"]
  IN /\ At(k, "marking")
     /\ \/ WriteLedger(k, l) /\ Go(k, "sending")
        \/ WriteLedgerFails(k, l) /\ Go(k, "failing")
     /\ UNCHANGED <<env, ops, admitted, history>>

----------------------------------------------------------------------------
(* applyMessage and what follows it.                                       *)

\* The gate or the binding refuses, which counts as a failing write, or another
\* approval holds the authorization.
NotSent(k) ==
  /\ At(k, "sending")
  /\ \/ Go(k, "doubting")
     \/ call' = [call EXCEPT ![k].at = "failing", ![k].busy = TRUE]
  /\ UNCHANGED <<env, files, admitted, history, faults>>

Send(k) ==
  LET o == call[k].op
  IN /\ At(k, "sending")
     /\ writes' = [writes EXCEPT ![o] = @ + 1]
     /\ \E hit \in BOOLEAN :
          /\ call' = [call EXCEPT ![k].at = "writing", ![k].hit = hit, ![k].busy = FALSE]
          /\ applied' = IF hit THEN applied \cup {o} ELSE applied
     /\ UNCHANGED <<env, files, admitted, given, consent, told, faults>>

NoAnswer(k) == Go(k, "doubting")

\* The platform accepts it and the binding is kept; or the answer, or the binding,
\* is lost; or the platform refuses it (a CLIExecutionError that says rejected).
Answer(k) ==
  /\ At(k, "writing")
  /\ \/ call[k].hit /\ Go(k, "verifying")
     \/ NoAnswer(k)
     \/ ~call[k].hit /\ Go(k, "failing")
  /\ UNCHANGED <<env, files, admitted, history, faults>>

\* Fail.
Fail(k) ==
  LET o == call[k].op
      r == [Moved(ops[o], "failed") EXCEPT !.busy = call[k].busy]
      allowed == ops[o].status \in InFlight
  IN /\ At(k, "failing")
     /\ \/ allowed /\ WriteOp(o, r) /\ Settling(k, "failed")
        \/ allowed /\ WriteOpFails(o, r) /\ Settling(k, "unknown")
        \/ ~allowed /\ UNCHANGED <<ops, faults>> /\ Settling(k, "unknown")
     /\ UNCHANGED <<env, ledger, history>>

\* MarkOutcomeUnknownWithResult.
Doubt(k) ==
  LET o == call[k].op
  IN /\ At(k, "doubting")
     /\ \/ /\ MayDoubt(o)
           /\ WriteOp(o, Doubted(ops[o])) \/ WriteOpFails(o, Doubted(ops[o]))
        \/ ~MayDoubt(o) /\ UNCHANGED <<ops, faults>>
     /\ Settling(k, "unknown")
     /\ UNCHANGED <<env, ledger, history>>

\* MarkVerifyingWithResult.
MarkVerifying(k) ==
  LET o == call[k].op
      r == Moved(ops[o], "verifying")
      allowed == ops[o].status = "running"
  IN /\ At(k, "verifying")
     /\ \/ allowed /\ WriteOp(o, r) /\ Go(k, "completing") /\ UNCHANGED admitted
        \/ allowed /\ WriteOpFails(o, r) /\ Settling(k, "unknown")
        \/ ~allowed /\ UNCHANGED <<ops, faults>> /\ Settling(k, "unknown")
     /\ UNCHANGED <<env, ledger, history>>

\* CompleteWithResult.
Complete(k) ==
  LET o == call[k].op
      r == Moved(ops[o], "succeeded")
      allowed == ops[o].status \in {"running", "verifying"}
  IN /\ At(k, "completing")
     /\ \/ allowed /\ WriteOp(o, r) /\ Settling(k, "succeeded")
        \/ allowed /\ WriteOpFails(o, r) /\ Settling(k, "unknown")
        \/ ~allowed /\ UNCHANGED <<ops, faults>> /\ Settling(k, "unknown")
     /\ UNCHANGED <<env, ledger, history>>

\* The ledger's last word, and the caller's answer.
Settle(k) ==
  LET l == [ledger[k] EXCEPT !.phase = "terminal", !.status = call[k].result]
  IN /\ At(k, "settling")
     /\ \/ /\ WriteLedger(k, l)
           /\ told' = IF call[k].result = "succeeded" THEN told \cup {k} ELSE told
        \/ WriteLedgerFails(k, l) /\ UNCHANGED told
     /\ Return(k)
     /\ UNCHANGED <<env, ops, admitted, given, consent, writes, applied>>

CallStep(k) ==
  \/ First(k) \/ Look(k) \/ Bind(k) \/ Afresh(k) \/ Renew(k) \/ AlreadySent(k) \/ GiveUp(k)
  \/ Refuse(k) \/ Proceed(k) \/ Admit(k) \/ AdmitTimeout(k) \/ Validate(k) \/ Reject(k)
  \/ Claim(k) \/ Check(k) \/ Guard(k) \/ MarkWriting(k) \/ NotSent(k) \/ Send(k) \/ Answer(k)
  \/ Fail(k) \/ Doubt(k) \/ MarkVerifying(k) \/ Complete(k) \/ Settle(k)

----------------------------------------------------------------------------
(* The user, the clock and the policy.                                     *)

\* Mutant: any challenge that was shown will do.
AnyChallenge(o, c) == TRUE

CurrentChallenge(o, c) == c = ops[o].challenge

\* ConfirmWithEvidence.
Confirm(o, c) ==
  LET r == ops[o]
      queued == [r EXCEPT !.status = "queued", !.challenge = 0]
  IN /\ up
     /\ <<o, c>> \in given
     /\ r.status = "awaiting"
     /\ \/ /\ IsLate(o)
           /\ WriteOp(o, Expired(r)) \/ WriteOpFails(o, Expired(r))
           /\ UNCHANGED <<consent, resuming>>
        \/ /\ ~IsLate(o) /\ CurrentChallenge(o, c) /\ policy.rev # r.rev
           /\ WriteOp(o, Refused(r)) \/ WriteOpFails(o, Refused(r))
           /\ UNCHANGED <<consent, resuming>>
        \/ /\ ~IsLate(o) /\ CurrentChallenge(o, c) /\ policy.rev = r.rev
           /\ \/ WriteOp(o, queued) /\ resuming' = resuming \cup {o}
              \/ WriteOpFails(o, queued) /\ UNCHANGED resuming
           /\ consent' = [consent EXCEPT ![o] = c]
     /\ UNCHANGED <<ledger, policy, late, up, call, admitted, recovery, given, writes, applied,
                    told, calls, crashes>>

\* ResumeOperation reads the record and the ledger before it has the key's lock;
\* from there it is a call like the others, which cannot replace an edit.
Resume(o) ==
  LET k == ops[o].key
  IN /\ o \in resuming
     /\ call[k] = NoCall
     /\ call' = IF ops[o].status \in {"queued", "awaiting"} /\ ledger[k].op = o
                THEN [call EXCEPT ![k] = NewCall(FALSE)] ELSE call
     /\ resuming' = resuming \ {o}
     /\ UNCHANGED <<files, policy, late, up, admitted, recovery, history, bounds>>

\* Mutant: whatever has not finished can be cancelled.
CancellableInFlight(r) == r.status \in InFlight \cup {"awaiting"}

Cancellable(r) == r.status \in {"awaiting", "queued"}

\* Cancel, of an operation the user was shown.
Cancel(o) ==
  LET r == [ops[o] EXCEPT !.status = "cancelled", !.challenge = 0]
  IN /\ up
     /\ \E g \in given : g[1] = o
     /\ Cancellable(ops[o])
     /\ WriteOp(o, r) \/ WriteOpFails(o, r)
     /\ UNCHANGED <<ledger, policy, late, up, call, admitted, resuming, recovery, history, calls,
                    crashes>>

\* Status, asked for by the user.
Poll(o) ==
  /\ up
  /\ \E g \in given : g[1] = o
  /\ IsLate(o)
  /\ WriteOp(o, Expired(ops[o])) \/ WriteOpFails(o, Expired(ops[o]))
  /\ UNCHANGED <<ledger, policy, late, up, call, admitted, resuming, recovery, history, calls,
                 crashes>>

FiveMinutesPass(o) ==
  /\ o \in Prepared \ late
  /\ ops[o].status = "awaiting"
  /\ late' = late \cup {o}
  /\ UNCHANGED <<files, policy, up, call, admitted, resuming, recovery, history, bounds>>

UpdatePolicy ==
  /\ policy.rev < MaxPolicies + 1
  /\ \E d \in Decisions : policy' = [rev |-> policy.rev + 1, decision |-> d]
  /\ UNCHANGED <<files, late, up, call, admitted, resuming, recovery, history, bounds>>

----------------------------------------------------------------------------
(* The child starts, recovers and dies.                                    *)

Start ==
  /\ ~up
  /\ up' = TRUE
  /\ UNCHANGED <<files, policy, late, call, admitted, resuming, recovery, history, bounds>>

Down ==
  /\ up' = FALSE
  /\ call' = [k \in Keys |-> NoCall]
  /\ admitted' = {}
  /\ resuming' = {}
  /\ sweep' = "starting" /\ recovering' = {} /\ loaded' = NoOp

Crash ==
  /\ up
  /\ crashes < MaxCrashes
  /\ crashes' = crashes + 1
  /\ Down
  /\ UNCHANGED <<files, policy, late, history, calls, faults>>

ListInterrupted ==
  /\ up
  /\ sweep = "starting"
  /\ sweep' = "sweeping"
  /\ recovering' = Prepared
  /\ UNCHANGED <<files, policy, late, up, call, admitted, resuming, loaded, history, bounds>>

LoadInterrupted(o) ==
  /\ loaded = NoOp
  /\ o \in recovering
  /\ recovering' = recovering \ {o}
  /\ loaded' = [op |-> o, status |-> ops[o].status]
  /\ UNCHANGED <<files, policy, late, up, call, admitted, resuming, sweep, history, bounds>>

\* What it does to the operation it has read: the record it writes, and where it may.
Interruption(r, seen) ==
  IF seen = "queued" THEN [Moved(r, "failed") EXCEPT !.again = TRUE] ELSE Doubted(r)

MayInterrupt(o, seen) ==
  IF seen = "queued" THEN ops[o].status = "queued" ELSE MayDoubt(o)

RecoverLoaded ==
  LET o == loaded.op
      r == Interruption(ops[o], loaded.status)
  IN /\ loaded # NoOp
     /\ \/ /\ loaded.status \notin InFlight
           /\ UNCHANGED <<ops, faults>>
        \/ /\ loaded.status \in InFlight
           /\ MayInterrupt(o, loaded.status)
           /\ WriteOp(o, r)
     /\ loaded' = NoOp
     /\ UNCHANGED <<ledger, policy, late, up, call, admitted, resuming, sweep, recovering, history,
                    calls, crashes>>

\* An error of RecoverInterrupted ends the child: the record could not be written, or
\* a call or the user has moved it since it was read.
RecoveryFails ==
  LET o == loaded.op
      r == Interruption(ops[o], loaded.status)
  IN /\ loaded # NoOp
     /\ loaded.status \in InFlight
     /\ \/ MayInterrupt(o, loaded.status) /\ WriteOpFails(o, r)
        \/ ~MayInterrupt(o, loaded.status) /\ UNCHANGED <<ops, faults>>
     /\ Down
     /\ UNCHANGED <<ledger, policy, late, history, calls, crashes>>

Recovered ==
  /\ sweep = "sweeping"
  /\ recovering = {} /\ loaded = NoOp
  /\ sweep' = "done"
  /\ UNCHANGED <<files, policy, late, up, call, admitted, resuming, recovering, loaded, history,
                 bounds>>

----------------------------------------------------------------------------
Challenges == {g[2] : g \in given}

UserStep(o) ==
  \/ \E c \in Challenges : Confirm(o, c)
  \/ Resume(o) \/ Cancel(o) \/ Poll(o) \/ FiveMinutesPass(o)

RecoveryStep ==
  \/ ListInterrupted \/ RecoverLoaded \/ RecoveryFails \/ Recovered
  \/ \E o \in Ops : LoadInterrupted(o)

Next ==
  \/ \E k \in Keys : Request(k) \/ CallStep(k)
  \/ \E o \in Ops : UserStep(o)
  \/ UpdatePolicy
  \/ Start \/ Crash
  \/ RecoveryStep

Spec == Init /\ [][Next]_vars

\* A call that has begun ends: the lock is free, the remote call has a timeout, and
\* whoever waits for admission stops waiting.  The supervisor restarts the child.
Fairness ==
  /\ \A k \in Keys : WF_vars(CallStep(k))
  /\ \A o \in Ops : WF_vars(Resume(o))
  /\ WF_vars(Start) /\ WF_vars(RecoveryStep)

FairSpec == Spec /\ Fairness

----------------------------------------------------------------------------
(* Properties.                                                             *)

Final == {"succeeded", "failed", "expired", "cancelled", "unknown"}

\* Where a call holds its admission.
Executing == Points \ {"look", "binding", "viewed", "admitting", "settling"}

\* Where it has claimed its operation.
Claimed == Executing \ {"validating", "rejecting", "claiming"}

Calling(k, points) == call[k] # NoCall /\ call[k].at \in points

\* Every variable has its type.
TypeOK ==
  /\ ops \in [Ops -> OperationRecord \cup {NoOp}]
  /\ ledger \in [Keys -> Ledger \cup {NoLedger}]
  /\ policy \in [rev : Nat, decision : Decisions]
  /\ late \subseteq Ops
  /\ up \in BOOLEAN
  /\ call \in [Keys -> Call \cup {NoCall}]
  /\ admitted \subseteq Keys
  /\ resuming \subseteq Ops
  /\ sweep \in {"starting", "sweeping", "done"}
  /\ recovering \subseteq Ops
  /\ loaded \in [op : Ops, status : Statuses] \cup {NoOp}
  /\ given \subseteq Ops \X Nat
  /\ consent \in [Ops -> Nat]
  /\ writes \in [Ops -> Nat]
  /\ applied \subseteq Ops
  /\ told \subseteq Keys
  /\ calls \in Nat /\ faults \in Nat /\ crashes \in Nat

\* No operation is written to the platform twice, and no two operations of a key
\* are, whatever fails, crashes or is asked for again; only a card edit whose
\* outcome is unknown is followed by another one.
WrittenOnce ==
  /\ \A o \in Ops : writes[o] <= 1
  /\ \A o, q \in Prepared :
       o < q /\ ops[o].key = ops[q].key /\ writes[o] = 1 /\ writes[q] = 1
         => ops[o].key \in Edits /\ ops[o].status = "unknown"

\* What a record says of the remote side is so: nothing was sent for an operation
\* that was cancelled or expired or that asks to be prepared again, a failed one had
\* no effect, a succeeded one had.
VerdictsAreTrue ==
  \A o \in Prepared :
    /\ ops[o].status \in {"cancelled", "expired"} \/ ops[o].again => writes[o] = 0
    /\ ops[o].status = "failed" => o \notin applied
    /\ ops[o].status = "succeeded" => o \in applied

\* Nothing is sent that needs a confirmation and has none: the challenge the user
\* confirmed is the newest one shown for the operation.
ConsentBeforeWrite ==
  \A o \in Prepared :
    ops[o].perm = "confirm" /\ (ops[o].status \in InFlight \cup {"succeeded"} \/ writes[o] > 0)
      => consent[o] # 0 /\ \A g \in given : g[1] = o => g[2] <= consent[o]

\* Two calls never work on one target at a time (workConflictKey).
OneWriterPerTarget ==
  \A j, k \in Keys :
    j # k /\ Calling(j, Executing) /\ Calling(k, Executing) => TargetOf[j] # TargetOf[k]

\* A caller that was told of success can see the message: also when the call that
\* sent it was cut off after the record and before the ledger was written.
ToldIsTrue == \A k \in told : \E o \in applied : ops[o].key = k

\* Once the recovery of a start is over, and if writing never failed, an operation is
\* running or verifying only in the hands of a call that claimed it.
NothingLeftRunning ==
  up /\ sweep = "done" /\ faults = 0 =>
    \A o \in Prepared :
      ops[o].status \in {"running", "verifying"} =>
        Calling(ops[o].key, Claimed) /\ call[ops[o].key].op = o

\* The types, consent, what callers are told, what a recovery leaves, and one writer per target.
MessagesSound ==
  TypeOK /\ ConsentBeforeWrite /\ ToldIsTrue /\ NothingLeftRunning /\ OneWriterPerTarget

Settled(o) == o \in Prepared /\ ops[o].status \in Final

\* A call that ran out of time before its admission leaves the operation queued and its
\* ledger terminal, for the next request.
Closed(o) ==
  \E k \in Keys : ledger[k] # NoLedger /\ ledger[k].op = o /\ ledger[k].phase = "terminal"

InHand(o) == o \in Prepared /\ ops[o].status \in {"running", "verifying"}

Unsettled == \E o \in Ops : (consent[o] # 0 /\ ~Settled(o) /\ ~Closed(o)) \/ InHand(o)

\* An operation the user confirmed, or one that was claimed, gets its final status or is
\* closed: the call ends it, or the recovery after a crash does (operations.go:676).
OperationsSettle == []<>~Unsettled
=============================================================================
