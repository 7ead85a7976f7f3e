----------------------------- MODULE Configuration -----------------------------
(* The configuration page of the Core and its durable receipts
   (service/configuration.go, configuration_receipts.go).
   Handlers of requests hold the file lock of their receipt; one of them at a time holds
   actionMu and acts. Refreshes of the page, the goroutines they leave behind and the
   queries of old receipts run beside them, and so do the person who scans the code, the
   Feishu child, and the end of either process.
   Left out: the texts, the digest of a request (its identifier stands for it), the
   authorisation of a user (retired, private_rpc.go:380), the age of an observation, the
   refresh without evidence, failing writes of a receipt, the purge a child resumes when it
   is started again (AppRegistration), and the limits of 128 requests and ten shown
   operations, which these instances do not reach. *)
EXTENDS Integers

CONSTANTS Requests,  \* identifiers of requests; also of the flows they begin
          Action,    \* the action of each request
          Budgets    \* what may happen in one behaviour: see left

Actions == {"create_app", "finish_app", "cancel_flow", "logout", "test_message", "restart"}

ASSUME ConfigurationAssumption ==
  /\ Action \in [Requests -> Actions]
  /\ Budgets \subseteq [app : {"missing", "present"}, asked : SUBSET Requests, crashes : Nat,
                        restarts : Nat, reconnects : Nat, failures : Nat,
                        half : SUBSET {"registration", "purge"}]

VARIABLES
  receipts,  \* the durable receipt of each request
  later,     \* the pairs of receipts of which the first was stamped after the second
  handler,   \* per request: who holds the lock of its receipt, and how far it is
  mutation,  \* of this process: counts the actions begun
  data,      \* what the page shows
  refresh,   \* the refresh that may still write; refreshing says there is one
  closing,   \* the goroutine an earlier refresh left behind
  app,       \* the child's disk: no application, one without a bound user, or both
  flow,      \* the child's memory: the registration under way
  healthy,   \* the task connection is up
  ledger,    \* the child's ledger: the test message of each request; and, only to compare
             \* with, the logouts that removed everything
  executed,  \* how often each request was carried out
  left       \* is there an application at first; which requests are made; how many crashes,
             \* restarts of the child, reconnections and failed calls may happen; and what
             \* may stop halfway: registrations, the purges of a logout

core == <<handler, mutation, data, refresh, closing>>
world == <<app, flow, healthy, ledger, executed>>
vars == <<receipts, later, core, world, left>>

None == "none"

Spend(what) == left[what] > 0 /\ left' = [left EXCEPT ![what] = @ - 1]

------------------------------------------------------------------------------
(* Receipts *)

NoReceipt == [outcome |-> None, stage |-> None, flow |-> None, app |-> FALSE,
              recovered |-> FALSE]

Stored == {r \in Requests : receipts[r].outcome # None}

Unresolved(r) == receipts[r].outcome \in {"pending", "unknown"}

Later(a, b) == <<a, b>> \in later

Verified(r) == receipts[r].outcome = "completed" /\ receipts[r].stage = "verified"

configurationFlowAction == {"create_app", "finish_app", "cancel_flow"}

EndedByLogout(r) ==
  /\ Action[r] \in configurationFlowAction /\ Unresolved(r)
  /\ \E q \in Requests : Action[q] = "logout" /\ Verified(q) /\ Later(q, r)

\* Old receipts do not name their flow: exactly one later check may stand for it.
ChecksOf(r) ==
  {receipts[q].flow : q \in {x \in Requests :
    /\ Action[x] = "finish_app" /\ Verified(x) /\ Later(x, r)
    /\ receipts[x].flow # None /\ receipts[r].flow \in {None, receipts[x].flow}}}

CompletedByCheck(r) ==
  Action[r] = "create_app" /\ Unresolved(r) /\ \E f \in Requests : ChecksOf(r) = {f}

SupersededByConnection(r) ==
  /\ Action[r] = "logout" /\ Unresolved(r)
  /\ \E q \in Requests : /\ Action[q] \in {"finish_app", "test_message"}
                         /\ Verified(q) /\ receipts[q].app /\ Later(q, r)

\* configurationFailures: only the newest receipt of each action counts.
Shown == {r \in Stored : ~EndedByLogout(r) /\ ~SupersededByConnection(r)}

Blocked(action) ==
  \E r \in Shown : /\ Action[r] = action /\ Unresolved(r) /\ ~receipts[r].recovered
                   /\ \A q \in Shown : Action[q] = action => ~Later(q, r)

Scrubbed(receipt) == [receipt EXCEPT !.app = FALSE, !.flow = None]

\* saveConfigurationReceipt stamps the receipt, and keeps nothing of a completed logout.
SaveReceipt(r, receipt) ==
  /\ receipts' = [receipts EXCEPT ![r] =
       IF Action[r] = "logout" /\ receipt.outcome = "completed" THEN Scrubbed(receipt)
       ELSE receipt]
  /\ later' = {p \in later : r \notin {p[1], p[2]}} \cup {<<r, q>> : q \in Stored \ {r}}

\* A receipt stamped after a refresh has read is not older than what it read.
Restamped(r) == /\ refresh' = [refresh EXCEPT !.older = @ \ {r}]
                /\ closing' = [closing EXCEPT !.older = @ \ {r}]

\* WriteJSON without a new stamp.
WriteReceipt(r, receipt) == receipts' = [receipts EXCEPT ![r] = receipt] /\ UNCHANGED later

------------------------------------------------------------------------------
(* What the page shows, and which actions it offers *)

NoFlow == [id |-> None, state |-> None]

Exists(a) == a \in {"unbound", "present"}

\* ready: both reads succeeded, and no action has overtaken them.
NoData == [app |-> "unknown", flow |-> NoFlow, healthy |-> TRUE, ready |-> FALSE]

FlowPending(d) == d.flow.state = "pending"

Enabled(r, d) ==
  CASE Action[r] = "create_app" -> d.ready /\ d.app = "missing" /\ ~FlowPending(d)
    [] Action[r] = "logout" -> d.ready /\ Exists(d.app) /\ ~FlowPending(d)
    [] Action[r] = "test_message" -> d.ready /\ d.app = "present" /\ ~FlowPending(d)
    [] Action[r] = "restart" -> ~d.healthy /\ ~FlowPending(d)
    [] Action[r] = "cancel_flow" -> FlowPending(d)
    [] Action[r] = "finish_app" -> d.flow.state \in {"pending", "completed"}

FlowRequest(r) == Action[r] \in {"cancel_flow", "finish_app"}

\* The evidence is read again unless the action only concerns the flow or the process.
NeedsEvidence(r) == ~FlowRequest(r) /\ Action[r] # "restart"

QuickRead(d) == [d EXCEPT !.flow = flow, !.healthy = healthy]

EvidenceRead(d) == [d EXCEPT !.app = app, !.ready = TRUE]

Unread(d) == [d EXCEPT !.ready = FALSE]

\* A refresh: the mutation it began in, whether its child still runs, what it read, and the
\* restarts stamped before it read.
NoRefresh == [pc |-> "none", mutation |-> 0, current |-> TRUE, read |-> NoData, older |-> {}]

NoClosing == [pc |-> "none", saw |-> None, older |-> {}, todo |-> {}]

refreshing == refresh.pc # "none"

------------------------------------------------------------------------------
(* A request *)

Idle == [pc |-> "idle", outcome |-> None, flow |-> None, app |-> FALSE, todo |-> {}]

\* actionMu, and the flag acting, from the first check to the answer.
Acting == \E r \in Requests : handler[r].pc \in {"reading", "submitted", "executed"}

Set(r, h) == handler' = [handler EXCEPT ![r] = h]

\* Mutant: a request that failed may be made again under its identifier.
MayRetry(r) == receipts[r].outcome \in {None, "failed"}

MayApply(r) == receipts[r].outcome = None

\* ApplyFeishuConfiguration under the lock of the receipt. A known identifier is answered
\* from its receipt and changes nothing. The person names the flow the page shows.
Apply(r) ==
  /\ handler[r].pc = "idle"
  /\ MayApply(r) /\ ~Blocked(Action[r])
  /\ FlowRequest(r) => data.flow.id # None
  /\ Set(r, [Idle EXCEPT !.pc = "checked", !.flow = IF FlowRequest(r) THEN data.flow.id
                                                    ELSE None])
  /\ UNCHANGED <<receipts, later, mutation, data, refresh, closing, world, left>>

Accept(r) ==
  /\ handler[r].pc = "checked"
  /\ SaveReceipt(r, [NoReceipt EXCEPT !.outcome = "pending", !.stage = "validating"])
  /\ Restamped(r)
  /\ Set(r, [handler[r] EXCEPT !.pc = "validating"])
  /\ UNCHANGED <<mutation, data, world, left>>

Offered(r) ==
  /\ ~Acting /\ Enabled(r, data)
  /\ FlowRequest(r) => data.flow.id = handler[r].flow

NextMutation(n) == n + 1

\* applyFeishuConfiguration until it has taken the page: an action begins a new mutation. A
\* refresh of an older one will find that and change nothing, and is forgotten here.
Begin(r) ==
  /\ handler[r].pc = "validating" /\ Offered(r)
  /\ mutation' = NextMutation(mutation)
  /\ refresh' = IF refresh.mutation # mutation' THEN NoRefresh ELSE refresh
  /\ Set(r, [handler[r] EXCEPT !.pc = "reading"])
  /\ UNCHANGED <<receipts, later, data, closing, world, left>>

NotOffered(r) ==
  /\ handler[r].pc = "validating" /\ ~Offered(r)
  /\ Set(r, [handler[r] EXCEPT !.pc = "saving", !.outcome = "failed"])
  /\ UNCHANGED <<receipts, later, mutation, data, refresh, closing, world, left>>

\* Either read may fail; a restart goes on without them.
Fresh(r) == IF NeedsEvidence(r) THEN EvidenceRead(QuickRead(data)) ELSE QuickRead(data)

StillOffered(r, d) ==
  /\ d = Fresh(r) \/ Action[r] = "restart"
  /\ Enabled(r, d) /\ (FlowRequest(r) => d.flow.id = handler[r].flow)

Reads(r, d) ==
  /\ handler[r].pc = "reading"
  /\ \/ d = Fresh(r) /\ UNCHANGED left
     \/ d = Unread(data) /\ Spend("failures")
  /\ data' = d

\* The check before the act, and the receipt that says it was submitted.
Submit(r) == \E d \in {Fresh(r), Unread(data)} :
  /\ Reads(r, d) /\ StillOffered(r, d)
  /\ SaveReceipt(r, [receipts[r] EXCEPT !.outcome = "unknown", !.stage = "submitted",
                                        !.flow = handler[r].flow, !.app = Exists(d.app)])
  /\ Restamped(r)
  /\ Set(r, [handler[r] EXCEPT !.pc = "submitted"])
  /\ UNCHANGED <<mutation, world>>

NotSubmitted(r) == \E d \in {Fresh(r), Unread(data)} :
  /\ Reads(r, d) /\ ~StillOffered(r, d)
  /\ Set(r, [handler[r] EXCEPT !.pc = "saving", !.outcome = "failed"])
  /\ UNCHANGED <<receipts, later, mutation, refresh, closing, world>>

------------------------------------------------------------------------------
(* The act: executeConfigurationAction, and the Feishu child as it is used here *)

Answer(r, outcome, f) ==
  Set(r, [handler[r] EXCEPT !.pc = "executed", !.outcome = outcome, !.flow = f])

\* The call fails; what it did is not known.
Unanswered(r) == Spend("failures") /\ Answer(r, "unknown", handler[r].flow)

Answered(r, outcome, f) == Answer(r, outcome, f) /\ UNCHANGED left

ChildGone ==
  /\ flow' = NoFlow /\ healthy' = FALSE
  /\ refresh' = [refresh EXCEPT !.current = FALSE]

ChildStays == UNCHANGED <<flow, healthy, refresh>>

\* The child refuses, or begins a flow whose identifier the Core then reads.
CreateApp(r) ==
  /\ UNCHANGED <<app, ledger, healthy, refresh>>
  /\ \/ UNCHANGED flow /\ (Answered(r, "failed", None) \/ Unanswered(r))
     \/ UNCHANGED flow /\ flow.state = "failed" /\ Answered(r, "unknown", None)
     \/ /\ flow.id = None /\ flow' = [id |-> r, state |-> "pending"]
        /\ Answered(r, "pending", r) \/ Unanswered(r)

\* A completed flow is only confirmed; the child is started again with its application.
FinishApp(r) ==
  /\ UNCHANGED <<app, ledger>>
  /\ \/ flow.state = "pending" /\ ChildStays /\ Answered(r, "pending", handler[r].flow)
     \/ flow.state = "completed" /\ ChildGone /\ Answered(r, "completed", handler[r].flow)
     \/ flow.state = "completed" /\ ChildGone /\ Unanswered(r)
     \/ flow.state \in {None, "failed"} /\ ChildStays
        /\ Answered(r, "unknown", handler[r].flow)
     \/ ChildStays /\ Unanswered(r)

CancelFlow(r) ==
  /\ UNCHANGED <<app, ledger, healthy, refresh>>
  /\ \/ /\ flow.id = handler[r].flow /\ flow' = NoFlow
        /\ Answered(r, "completed", handler[r].flow) \/ Unanswered(r)
     \/ /\ UNCHANGED flow
        /\ \/ flow.id # handler[r].flow /\ Answered(r, "unknown", handler[r].flow)
           \/ Unanswered(r)

\* LogoutFeishuAuth removes everything local, or nothing, or stops when the bound user is gone
\* and the credentials are not; it starts the child again in any case.
Logout(r) ==
  /\ ChildGone
  /\ \/ /\ app' = "missing" /\ ledger' = [ledger EXCEPT ![r] = "completed"]
        /\ Answered(r, "completed", None) \/ Unanswered(r)
     \/ "purge" \in left.half /\ app' = "unbound" /\ UNCHANGED ledger /\ Unanswered(r)
     \/ UNCHANGED <<app, ledger>> /\ (Answered(r, "failed", None) \/ Unanswered(r))

\* sendConfigurationTest: the child's ledger knows the message by the request.
TestMessage(r) ==
  /\ UNCHANGED app /\ ChildStays
  /\ \/ ledger' = [ledger EXCEPT ![r] = "completed"] /\ Answered(r, "completed", None)
     \/ ledger' = [ledger EXCEPT ![r] = "failed"] /\ Answered(r, "failed", None)
     \/ ledger' = [ledger EXCEPT ![r] = "writing"] /\ Unanswered(r)
     \/ UNCHANGED ledger /\ Answered(r, "failed", None)

RestartChild(r) ==
  /\ UNCHANGED <<app, ledger>> /\ ChildGone
  /\ Answered(r, "completed", None) \/ Unanswered(r)

Execute(r) ==
  /\ handler[r].pc = "submitted"
  /\ executed' = [executed EXCEPT ![r] = @ + 1]
  /\ CASE Action[r] = "create_app" -> CreateApp(r)
       [] Action[r] = "finish_app" -> FinishApp(r)
       [] Action[r] = "cancel_flow" -> CancelFlow(r)
       [] Action[r] = "logout" -> Logout(r)
       [] Action[r] = "test_message" -> TestMessage(r)
       [] Action[r] = "restart" -> RestartChild(r)
  /\ UNCHANGED <<receipts, later, mutation, data, closing>>

EndsFlow(r) == Action[r] \in {"cancel_flow", "logout", "finish_app"}

\* Mutant: the page stays as it was read before the act.
SettleAsRead(r) ==
  /\ handler[r].pc = "executed"
  /\ data' = [data EXCEPT !.flow = IF handler[r].outcome = "completed" /\ EndsFlow(r)
                                   THEN NoFlow ELSE @]
  /\ Set(r, [handler[r] EXCEPT !.pc = "saving"])
  /\ UNCHANGED <<receipts, later, mutation, refresh, closing, world, left>>

\* The page keeps what it shows, marked as overtaken by an action that changes identities.
Settle(r) ==
  /\ handler[r].pc = "executed"
  /\ data' = [data EXCEPT !.ready = @ /\ Action[r] \in {"test_message", "restart"},
                          !.flow = IF handler[r].outcome = "completed" /\ EndsFlow(r)
                                   THEN NoFlow ELSE @]
  /\ Set(r, [handler[r] EXCEPT !.pc = "saving"])
  /\ UNCHANGED <<receipts, later, mutation, refresh, closing, world, left>>

FinalStage(r) ==
  CASE handler[r].outcome = "completed" -> "verified"
    [] handler[r].outcome = "unknown" -> "submitted"
    [] OTHER -> receipts[r].stage

Save(r) ==
  /\ handler[r].pc = "saving"
  /\ SaveReceipt(r, [receipts[r] EXCEPT !.outcome = handler[r].outcome,
                                        !.stage = FinalStage(r), !.flow = handler[r].flow])
  /\ Restamped(r)
  /\ Set(r, CASE handler[r].outcome = "completed" /\ Action[r] = "logout" ->
                   [Idle EXCEPT !.pc = "scrubbing", !.todo = Stored \ {r}]
              [] handler[r].outcome = "completed" /\ Action[r] = "finish_app" ->
                   [handler[r] EXCEPT !.pc = "origin"]
              [] OTHER -> Idle)
  /\ UNCHANGED <<mutation, data, world, left>>

CancelledByLogout(q) ==
  IF Action[q] \in configurationFlowAction /\ Unresolved(q)
  THEN [Scrubbed(receipts[q]) EXCEPT !.outcome = "failed", !.stage = "verified"]
  ELSE Scrubbed(receipts[q])

\* scrubConfigurationReceiptsAfterLogout takes no lock of the others. A receipt is read and
\* written in one step: one worker serves the requests, and no other handler writes between.
Scrub(r, q) ==
  /\ handler[r].pc = "scrubbing"
  /\ WriteReceipt(q, CancelledByLogout(q))
  /\ Set(r, IF handler[r].todo = {q} THEN Idle
            ELSE [handler[r] EXCEPT !.todo = @ \ {q}])
  /\ UNCHANGED <<mutation, data, refresh, closing, world, left>>

NothingToScrub(r) ==
  /\ handler[r].pc = "scrubbing" /\ handler[r].todo = {}
  /\ Set(r, Idle)
  /\ UNCHANGED <<receipts, later, mutation, data, refresh, closing, world, left>>

Origin(r) == {q \in Requests : /\ Action[q] = "create_app" /\ Unresolved(q)
                               /\ receipts[q].flow = handler[r].flow}

\* completeConfigurationFlowReceipt: a confirmed flow completes the request that began it,
\* whose receipt is read and written in one step as in Scrub.
CompleteOrigin(r) ==
  /\ handler[r].pc = "origin"
  /\ Set(r, Idle)
  /\ \/ /\ Origin(r) = {}
        /\ UNCHANGED <<receipts, later, refresh, closing>>
     \/ \E q \in Origin(r) :
          /\ SaveReceipt(q, [receipts[q] EXCEPT !.outcome = "completed", !.stage = "verified"])
          /\ Restamped(q)
  /\ UNCHANGED <<mutation, data, world, left>>

------------------------------------------------------------------------------
(* ConfigurationResult and the migrations of reconcileConfigurationReceipts *)

\* Mutant: only a message that was sent is found.
FoundSent(r) ==
  IF Action[r] = "test_message" /\ ledger[r] = "completed" THEN "completed" ELSE None

\* Mutant: a logout is found wherever its application still is.
FoundByApp(r) ==
  IF Action[r] = "logout" /\ receipts[r].app /\ Exists(app) THEN "completed" ELSE None

\* What a query of an unresolved receipt finds out: a logout, if the application it was to
\* remove is there and no user is bound to it any more ("unauthorized"); a test message, if
\* the child's ledger has its end.
Found(r) ==
  CASE Action[r] = "logout" /\ receipts[r].app /\ app = "unbound" -> "completed"
    [] Action[r] = "test_message" /\ ledger[r] \in {"completed", "failed"} -> ledger[r]
    [] OTHER -> None

QueryReads(r) ==
  /\ handler[r].pc = "idle" /\ Unresolved(r) /\ receipts[r].stage = "submitted"
  /\ ~EndedByLogout(r) /\ Found(r) # None
  /\ Set(r, [Idle EXCEPT !.pc = "querying", !.outcome = Found(r), !.app = receipts[r].app])
  /\ UNCHANGED <<receipts, later, mutation, data, refresh, closing, world, left>>

\* The receipt is written as it was read.
QuerySaves(r) ==
  /\ handler[r].pc = "querying"
  /\ SaveReceipt(r, [receipts[r] EXCEPT !.outcome = handler[r].outcome, !.stage = "verified",
                                        !.app = handler[r].app])
  /\ Restamped(r)
  /\ Set(r, Idle)
  /\ UNCHANGED <<mutation, data, world, left>>

persistLegacyConfigurationFlowOutcomes(r) ==
  \/ EndedByLogout(r) /\ WriteReceipt(r, CancelledByLogout(r))
  \/ /\ ~EndedByLogout(r) /\ CompletedByCheck(r)
     /\ \E f \in ChecksOf(r) :
          WriteReceipt(r, [Scrubbed(receipts[r]) EXCEPT !.outcome = "completed",
                                                        !.stage = "verified", !.flow = f])

persistSupersededLogoutOutcomes(r) ==
  /\ SupersededByConnection(r)
  /\ WriteReceipt(r, [Scrubbed(receipts[r]) EXCEPT !.outcome = "resolved",
                                                   !.stage = "verified"])

Migrate(r) ==
  /\ handler[r].pc = "idle"
  /\ persistLegacyConfigurationFlowOutcomes(r) \/ persistSupersededLogoutOutcomes(r)
  /\ UNCHANGED <<core, world, left>>

------------------------------------------------------------------------------
(* Refreshes *)

\* ReadFeishuConfiguration starts one, with the mutation and the generation of now.
StartRefresh ==
  /\ ~refreshing /\ ~Acting
  /\ refresh' = [NoRefresh EXCEPT !.pc = "reading", !.mutation = mutation]
  /\ UNCHANGED <<receipts, later, handler, mutation, data, closing, world, left>>

Restarts == {r \in Stored : Action[r] = "restart"}

\* configurationQuickRead and readConfigurationEvidence: between the two only the person or
\* the child could move.
RefreshReads ==
  /\ refresh.pc = "reading"
  /\ \/ /\ UNCHANGED left
        /\ refresh' = [refresh EXCEPT !.pc = "read", !.older = Restarts,
                                      !.read = EvidenceRead(QuickRead(data))]
     \/ /\ Spend("failures")
        /\ refresh' = [refresh EXCEPT !.pc = "read", !.read = Unread(data)]
  /\ UNCHANGED <<receipts, later, handler, mutation, data, closing, world>>

\* What the goroutines left behind act upon: no session and no application, or a connection
\* that works. One at a time is modelled.
Saw(d) == CASE d.ready /\ d.flow = NoFlow /\ d.app = "missing" -> "no session"
            [] d.ready /\ Exists(d.app) /\ d.healthy -> "connection"
            [] OTHER -> None

\* A refresh of an older generation only says that nothing is known.
RefreshFinishes ==
  LET saw == IF refresh.current THEN Saw(refresh.read) ELSE None
  IN /\ refresh.pc = "read" /\ (saw # None => closing = NoClosing)
     /\ data' = IF refresh.current THEN refresh.read ELSE Unread(data)
     /\ closing' = IF saw = None THEN closing
                   ELSE [NoClosing EXCEPT !.pc = "looking", !.saw = saw,
                                          !.older = refresh.older]
     /\ refresh' = NoRefresh
     /\ UNCHANGED <<receipts, later, handler, mutation, world, left>>

\* retireInterruptedConfigurationFlowReceipts: its session is gone and no application came.
Interrupted(r) ==
  /\ Action[r] = "create_app" /\ Unresolved(r)
  /\ receipts[r].stage = "submitted" /\ receipts[r].flow # None

\* reconcileConnectionRecovery: all that was read is younger than the restart.
Recovered(r) ==
  /\ Action[r] = "restart" /\ Unresolved(r) /\ receipts[r].stage = "submitted"
  /\ receipts[r].app /\ ~receipts[r].recovered /\ r \in closing.older

ToClose == {r \in Requests : IF closing.saw = "no session" THEN Interrupted(r)
                             ELSE Recovered(r)}

Looks ==
  /\ closing.pc = "looking"
  /\ closing' = IF ToClose = {} THEN NoClosing
                ELSE [closing EXCEPT !.pc = "closing", !.todo = ToClose]
  /\ UNCHANGED <<receipts, later, handler, mutation, data, refresh, world, left>>

\* Each receipt is looked at again under its lock.
Closes(r) ==
  /\ closing.pc = "closing" /\ handler[r].pc = "idle"
  /\ CASE Interrupted(r) ->
            WriteReceipt(r, [Scrubbed(receipts[r]) EXCEPT !.outcome = "failed",
                                                          !.stage = "verified"])
       [] r \in closing.older -> WriteReceipt(r, [receipts[r] EXCEPT !.recovered = TRUE])
       [] OTHER -> UNCHANGED <<receipts, later>>
  /\ closing' = IF closing.todo = {r} THEN NoClosing
                ELSE [closing EXCEPT !.todo = @ \ {r}]
  /\ UNCHANGED <<handler, mutation, data, refresh, world, left>>

------------------------------------------------------------------------------
(* The person, the child, the processes *)

\* The person scans the code, or the code expires, or its user cannot be bound any more when
\* the credentials are there.
FlowEnds ==
  /\ flow.state = "pending"
  /\ \/ flow' = [flow EXCEPT !.state = "completed"] /\ app' = "present"
     \/ flow' = [flow EXCEPT !.state = "failed"] /\ UNCHANGED app
     \/ /\ "registration" \in left.half /\ app = "missing" /\ app' = "unbound"
        /\ flow' = [flow EXCEPT !.state = "failed"]
  /\ UNCHANGED <<receipts, later, core, healthy, ledger, executed, left>>

LedgerLearns(r) ==
  /\ ledger[r] = "writing"
  /\ \E verdict \in {"completed", "failed"} : ledger' = [ledger EXCEPT ![r] = verdict]
  /\ UNCHANGED <<receipts, later, core, app, flow, healthy, executed, left>>

Reconnects ==
  /\ Spend("reconnects") /\ ~healthy /\ app = "present" /\ healthy' = TRUE
  /\ UNCHANGED <<receipts, later, core, app, flow, ledger, executed>>

ChildRestarts ==
  /\ Spend("restarts") /\ ChildGone
  /\ UNCHANGED <<receipts, later, handler, mutation, data, closing, app, ledger, executed>>

\* The Core ends, and its child with it.
Crash ==
  /\ Spend("crashes")
  /\ handler' = [r \in Requests |-> Idle] /\ mutation' = 0
  /\ data' = NoData /\ refresh' = NoRefresh /\ closing' = NoClosing
  /\ flow' = NoFlow /\ healthy' = FALSE
  /\ UNCHANGED <<receipts, later, app, ledger, executed>>

------------------------------------------------------------------------------
Init ==
  /\ receipts = [r \in Requests |-> NoReceipt] /\ later = {}
  /\ handler = [r \in Requests |-> Idle] /\ mutation = 0
  /\ data = NoData /\ refresh = NoRefresh /\ closing = NoClosing
  /\ ledger = [r \in Requests |-> None] /\ executed = [r \in Requests |-> 0]
  /\ left \in Budgets
  /\ app = left.app /\ flow = NoFlow /\ healthy = (left.app = "present")

Handles(r) ==
  \/ Accept(r) \/ Begin(r) \/ NotOffered(r) \/ Submit(r) \/ NotSubmitted(r)
  \/ Execute(r) \/ Settle(r) \/ Save(r) \/ NothingToScrub(r) \/ CompleteOrigin(r)
  \/ \E q \in handler[r].todo : Scrub(r, q)

Queries(r) == QueryReads(r) \/ QuerySaves(r)

Refreshes == RefreshReads \/ RefreshFinishes

GoesOn == Looks \/ \E r \in closing.todo : Closes(r)

Next ==
  \/ \E r \in left.asked :
       Apply(r) \/ Handles(r) \/ Queries(r) \/ Migrate(r) \/ LedgerLearns(r)
  \/ StartRefresh \/ Refreshes \/ GoesOn
  \/ FlowEnds \/ Reconnects \/ ChildRestarts \/ Crash

Spec == Init /\ [][Next]_vars

\* Handlers, each of finitely many steps, and refreshes go on; the open page asks again and
\* again, and so queries old receipts; the ledger is resolved by the child
\* (ServiceMessages). Nobody need ever scan a code, restart a process or make a request.
LiveSpec ==
  /\ Spec
  /\ WF_vars(\E r \in left.asked : Handles(r))
  /\ WF_vars(\E r \in left.asked : Queries(r))
  /\ WF_vars(StartRefresh) /\ WF_vars(Refreshes) /\ WF_vars(GoesOn)

------------------------------------------------------------------------------
(* Properties *)

Outcomes == {None, "pending", "unknown", "completed", "failed", "resolved"}

Flows == [id : Requests \cup {None}, state : {None, "pending", "completed", "failed"}]

DataType == [app : {"unknown", "missing", "unbound", "present"}, flow : Flows, healthy : BOOLEAN,
             ready : BOOLEAN]

\* The types; only one request acts, and stored receipts are stamped in an order.
TypeOK ==
  /\ receipts \in [Requests -> [outcome : Outcomes,
                                stage : {None, "validating", "submitted", "verified"},
                                flow : Requests \cup {None}, app : BOOLEAN,
                                recovered : BOOLEAN]]
  /\ \A r, q \in Requests : r # q /\ {r, q} \subseteq Stored => Later(r, q) # Later(q, r)
  /\ data \in DataType /\ flow \in Flows /\ mutation \in Nat
  /\ \A r, q \in Requests : r = q \/ {handler[r].pc, handler[q].pc} # {"submitted"}

\* A request is carried out at most once, whatever is repeated, queried, restarted or lost;
\* and once it was, no receipt says it never got beyond the checks (configuration.go:613).
ExecutedOnce ==
  \A r \in Requests :
    /\ executed[r] <= 1
    /\ executed[r] = 1 => receipts[r].stage # "validating"

\* What the receipt of a test message says is what the ledger of the child says: sent only
\* if it was, failed only if it never will be (convergence.md:19: the result is queried,
\* never guessed and never sent again). So with a logout: it is said to be failed only if not
\* everything local was removed, and done only if it was, unless a registration or a purge may
\* stop halfway. (What either leaves, an application without a user, is what configurationResult
\* takes for the end of a logout whose answer was lost.)
ResultIsTrue ==
  \A r \in Requests : Action[r] \in {"test_message", "logout"} =>
    /\ receipts[r].outcome = "completed" =>
         ledger[r] = "completed" \/ (Action[r] = "logout" /\ left.half # {})
    /\ receipts[r].outcome = "failed" => ledger[r] \in {None, "failed"}

\* The types, and receipts that are true.
ConfigurationSound == TypeOK /\ ResultIsTrue

\* Between actions the page offers nothing for an application that is gone: a refresh that
\* had read it before a logout never writes after it (configuration_test.go:355).
ShownAppExists ==
  (~Acting /\ data.ready /\ data.app = "present") => app = "present"

Answerable(r) ==
  /\ Unresolved(r)
  /\ \/ /\ Action[r] = "test_message" /\ receipts[r].stage = "submitted"
        /\ ledger[r] \in {"completed", "failed"}
     \/ Action[r] = "create_app" /\ Interrupted(r) /\ app = "missing" /\ flow = NoFlow

\* A receipt that can be answered is answered: a test message once the ledger knows, and a
\* registration whose session is gone without an application (preview.21: a restart must
\* not leave the code scan disabled).
ReceiptsSettle == []<>(\A r \in Requests : ~Answerable(r))
=============================================================================
