-------------------------- MODULE ConfigurationPage --------------------------
(* The configuration page of a desktop: it polls the Core's snapshot, and its actions are    *)
(* confirmed by the user, submitted once and, when the answer is lost, looked up. On Windows  *)
(* the page is the renderer and its main process asks the user, one question at a time, for   *)
(* the page and for the task cards (FeishuConfiguration.swift, UsageViewModel.swift,          *)
(* main.cjs, renderer/app.js, task-card-authorization.cjs).                                   *)
EXTENDS Integers, FiniteSets

CONSTANTS
  Platforms,  \* of {"macos", "windows"}
  Budgets     \* Bound: how often what happens: [changes, restarts, reads, actions, failures,
              \* cards, meets]; meets: actions that begin while the page is being read

None == "none"

VARIABLES
  platform,
  core,   \* the snapshot: epoch, rev, context; and the requests: coming, working, done, refused
  page,   \* what the page holds
  reads,  \* the reads under way: [poll, stale, phase, got]
  op,     \* the action
  card,   \* the main process's other question: a task card; the Core's operation for it
  left

vars == <<platform, core, page, reads, op, card, left>>

Mac == platform = "macos"
Spend(what) == left[what] > 0 /\ left' = [left EXCEPT ![what] = @ - 1]

Snapshot == [epoch |-> core.epoch, rev |-> core.rev, context |-> core.context]
Context(s) == <<s.epoch, s.context>>

NoSnapshot == [epoch |-> 0, rev |-> 0, context |-> 0]

NoRequest == [id |-> 0, asked |-> NoSnapshot]

NoOp == [phase |-> "no", id |-> 0, asked |-> NoSnapshot, question |-> Context(NoSnapshot),
         stale |-> FALSE, sends |-> 0, outcome |-> None, snapshot |-> NoSnapshot]

Request(o) == [id |-> o.id, asked |-> o.asked]

------------------------------------------------------------------------------
(* The page's reads *)

NewRead(poll) == [poll |-> poll, stale |-> FALSE, phase |-> "asked", got |-> NoSnapshot]

Stale(rs) == {[r EXCEPT !.stale = TRUE] : r \in rs}

\* feishu/configuration/read: those under way are ignored from now on.
Reads(p, poll) ==
  /\ page' = [p EXCEPT !.loading = ~Mac, !.timer = FALSE]
  /\ reads' = Stale(reads) \cup {NewRead(poll)}
  /\ op' = [op EXCEPT !.stale = op.phase # "no"]

\* Every 2.5 seconds. On macOS a poll that meets an action does nothing.
Polls ==
  /\ page.timer
  /\ Mac => ~page.busy
  /\ Reads(page, TRUE)
  /\ UNCHANGED <<platform, core, card, left>>

\* The user refreshes, or opens the page: on Windows that is also read beside an action.
ManualReads ==
  /\ Spend("reads")
  /\ Mac => ~page.busy
  /\ IF Mac
     THEN /\ page' = page /\ op' = op
          /\ reads' = Stale(reads) \cup {NewRead(FALSE)}
     ELSE Reads(page, FALSE)
  /\ UNCHANGED <<platform, core, card>>

ReadIsAnswered(r, ok) ==
  /\ r.phase = "asked"
  /\ IF ok THEN left' = left ELSE Spend("failures")
  /\ LET phase == IF ok THEN "answered" ELSE "failed"
     IN  reads' = (reads \ {r}) \cup {[r EXCEPT !.got = Snapshot, !.phase = phase]}
  /\ UNCHANGED <<platform, core, page, op, card>>

\* Mutant: whatever arrives is shown.
Whatever(p, s, stale) == TRUE

\* validate and applyFeishuConfiguration: not what a later request has overtaken, nor an older
\* revision, nor, on Windows, an epoch that is over.
Accepts(p, s, stale) ==
  /\ ~stale /\ s.epoch \notin p.retired
  /\ p.shown # NoSnapshot /\ p.shown.epoch = s.epoch => s.rev >= p.shown.rev

\* apply
Show(p, s) ==
  [p EXCEPT !.shown = s, !.error = FALSE,
            !.retired = IF ~Mac /\ p.shown # NoSnapshot /\ p.shown.epoch # s.epoch
                        THEN @ \cup {p.shown.epoch} ELSE @]

Read(p, r) ==
  CASE r.phase = "answered" /\ Accepts(p, r.got, r.stale) -> Show(p, r.got)
    [] r.phase = "failed" /\ ~r.stale -> [p EXCEPT !.error = TRUE]
    [] OTHER -> p

\* The read ends. On Windows one that was overtaken neither stops the page's loading nor
\* schedules a poll; on macOS the polling goes on whatever has become of it.
ReadEnds(r) ==
  /\ r.phase # "asked"
  /\ reads' = reads \ {r}
  /\ page' = LET p == Read(page, r)
             IN IF Mac THEN [p EXCEPT !.timer = @ \/ r.poll]
                ELSE IF r.stale THEN p
                ELSE [p EXCEPT !.loading = FALSE, !.timer = ~p.busy]
  /\ UNCHANGED <<platform, core, op, card, left>>

------------------------------------------------------------------------------
(* An action *)

\* feishuConfigurationActionBusy and approvalUnavailableReasons
MainBusy == op.phase \in {"checks", "dialog", "submits", "queries"} \/ card.phase # "no"

Ends(o, outcome, snapshot) ==
  [o EXCEPT !.phase = "gets", !.outcome = outcome, !.snapshot = snapshot]

\* requestFeishuAction: the user is asked, about the snapshot shown; the page goes on. And
\* performFeishuConfigurationAction of the renderer: the page waits for the main process,
\* which may be busy.
Act ==
  /\ op.phase = "no" /\ ~page.busy /\ ~page.error /\ page.shown # NoSnapshot
  /\ left.actions > 0 /\ (page.loading => left.meets > 0)
  /\ left' = [left EXCEPT !.actions = @ - 1, !.meets = IF page.loading THEN @ - 1 ELSE @]
  /\ LET new == [NoOp EXCEPT !.id = left.actions, !.asked = page.shown]
     IN IF Mac
        THEN /\ op' = [new EXCEPT !.phase = "dialog", !.question = Context(page.shown)]
             /\ UNCHANGED <<page, reads>>
        ELSE /\ op' = IF MainBusy THEN Ends(new, "thrown", NoSnapshot)
                      ELSE [new EXCEPT !.phase = "checks"]
             /\ page' = [page EXCEPT !.busy = TRUE, !.timer = FALSE, !.outcome = None]
             /\ reads' = Stale(reads)
  /\ UNCHANGED <<platform, core, card>>

\* Mutant: the main process takes the page's word.
TakesItsWord(o) == TRUE

StillCurrent(o) == Context(o.asked) = Context(Snapshot) /\ o.asked.rev <= core.rev

\* performFeishuConfigurationAction of the main process: the page must have shown what is so
\* now; the user is asked, about that. (What only checks a flow is not asked about.)
MainChecks(ok, asks) ==
  /\ op.phase = "checks"
  /\ IF ok THEN left' = left ELSE Spend("failures")
  /\ op' = IF ~ok \/ ~StillCurrent(op) THEN Ends(op, "thrown", NoSnapshot)
           ELSE [op EXCEPT !.question = Context(Snapshot), !.snapshot = Snapshot,
                           !.phase = IF asks THEN "dialog" ELSE "submits",
                           !.sends = IF asks THEN @ ELSE 1]
  /\ core' = IF op'.phase = "submits" THEN [core EXCEPT !.coming = Request(op)] ELSE core
  /\ UNCHANGED <<platform, page, reads, card>>

Declines ==
  /\ op.phase = "dialog"
  /\ op' = IF Mac THEN NoOp ELSE Ends(op, "cancelled", op.snapshot)
  /\ UNCHANGED <<platform, core, page, reads, card, left>>

Expected(o) == Context(page.shown) = o.question

\* perform, and the rest of the main process's handler: the user confirms, unless the desktop
\* is hidden meanwhile. On macOS the request is that of the page now.
Confirms(hidden) ==
  /\ op.phase = "dialog"
  /\ IF hidden THEN Spend("failures") ELSE left' = left
  /\ LET refused == hidden \/ (Mac /\ (~Expected(op) \/ page.error \/ card.phase = "dialog"))
         now == IF Mac THEN [op EXCEPT !.asked = page.shown] ELSE op
     IN IF refused
        THEN /\ op' = IF Mac THEN NoOp ELSE Ends(op, "thrown", NoSnapshot)
             /\ UNCHANGED <<core, page, reads>>
        ELSE /\ op' = [now EXCEPT !.phase = "submits", !.sends = 1]
             /\ core' = [core EXCEPT !.coming = Request(now)]
             /\ page' = IF Mac THEN [page EXCEPT !.busy = TRUE, !.outcome = None] ELSE page
             /\ reads' = IF Mac THEN Stale(reads) ELSE reads
  /\ UNCHANGED <<platform, card>>

Queries(o) == [o EXCEPT !.phase = "queries"]

\* The call fails or takes too long: the request is looked up, never repeated. (Bound: the Core
\* has it by then, or has gone.)
CallIsLost ==
  /\ op.phase = "submits" /\ core.coming = NoRequest /\ Spend("failures")
  /\ op' = Queries(op)
  /\ UNCHANGED <<platform, core, page, reads, card>>

CallIsAnswered ==
  /\ op.phase = "submits" /\ op.id \in core.done \cup core.refused
  /\ op' = Ends(op, IF op.id \in core.done THEN "completed" ELSE "failed", Snapshot)
  /\ UNCHANGED <<platform, core, page, reads, card, left>>

\* feishu/configuration/result, as the Core's receipts tell it.
Known(id) ==
  CASE id \in core.done -> "completed"
    [] id \notin core.done /\ (core.working = id \/ id \in core.lost) -> "unknown"
    [] OTHER -> "failed"

IsLookedUp(ok) ==
  /\ op.phase = "queries"
  /\ IF ok THEN left' = left ELSE Spend("failures")
  /\ op' = IF ok THEN Ends(op, Known(op.id), Snapshot) ELSE Ends(op, "thrown", NoSnapshot)
  /\ UNCHANGED <<platform, core, page, reads, card>>

Busy(p, o) == FALSE

\* The page has the outcome: on Windows only if it was not read meanwhile.
PageGets ==
  /\ op.phase = "gets"
  /\ LET outcome == IF op.outcome = "thrown" THEN "unknown" ELSE op.outcome
         told == [page EXCEPT !.outcome = outcome, !.request = op.id]
         p == CASE op.stale -> page
                [] ~op.stale /\ op.snapshot = NoSnapshot -> [told EXCEPT !.error = Mac \/ @]
                [] ~op.stale /\ op.snapshot # NoSnapshot
                     /\ Accepts(page, op.snapshot, FALSE) -> Show(told, op.snapshot)
                [] OTHER -> page
     IN page' = [p EXCEPT !.busy = Busy(p, op), !.timer = @ \/ (~Mac /\ ~p.loading)]
  /\ op' = NoOp
  /\ UNCHANGED <<platform, core, reads, card, left>>

------------------------------------------------------------------------------
(* A task card *)

MayAsk == Mac \/ ~MainBusy

\* feishu:task-link-create, toggleFeishuTaskLink: the card must be authorised.
CardBegins ==
  /\ card.phase = "no" /\ Spend("cards") /\ MayAsk
  /\ card' = [phase |-> "creates", operation |-> "awaiting"]
  /\ UNCHANGED <<platform, core, page, reads, op>>

\* The user is asked; on macOS not below another question of the application.
CardAsks ==
  /\ card.phase = "creates" /\ card.operation = "awaiting"
  /\ card' = [card EXCEPT !.phase = "dialog"]
  /\ UNCHANGED <<platform, core, page, reads, op, left>>

\* The answer: the operation is confirmed and the card made, or it is cancelled and the link
\* released; a call that fails, or a hidden desktop, ends it there.
CardAnswered(yes, ok) ==
  /\ card.phase = "dialog"
  /\ IF ok THEN left' = left ELSE Spend("failures")
  /\ card' = [phase |-> "no", operation |-> IF ~ok THEN "awaiting"
                                            ELSE IF yes THEN "sent" ELSE "cancelled"]
  /\ UNCHANGED <<platform, core, page, reads, op>>

------------------------------------------------------------------------------
(* The Core *)

\* Something changes: what a question is about, or not.
CoreChanges(context) ==
  /\ Spend("changes")
  /\ core' = [core EXCEPT !.rev = @ + 1, !.context = IF context THEN @ + 1 ELSE @]
  /\ UNCHANGED <<platform, page, reads, op, card>>

CoreTakes ==
  /\ core.coming # NoRequest
  /\ LET o == core.coming
         taken == core.working = 0 /\ Context(o.asked) = Context(Snapshot)
     IN core' = [core EXCEPT !.coming = NoRequest, !.working = IF taken THEN o.id ELSE @,
                             !.refused = IF taken THEN @ ELSE @ \cup {o.id}]
  /\ UNCHANGED <<platform, page, reads, op, card, left>>

CoreActs ==
  /\ core.working # 0
  /\ core' = [core EXCEPT !.done = @ \cup {core.working}, !.working = 0, !.rev = @ + 1]
  /\ UNCHANGED <<platform, page, reads, op, card, left>>

\* Windows starts it again, with an epoch of its own.
CoreRestarts ==
  /\ ~Mac /\ Spend("restarts")
  /\ core' = [core EXCEPT !.epoch = @ + 1, !.rev = 1, !.coming = NoRequest, !.working = 0,
                          !.lost = IF core.working = 0 THEN @ ELSE @ \cup {core.working}]
  /\ reads' = {IF r.phase = "asked" THEN [r EXCEPT !.phase = "failed"] ELSE r : r \in reads}
  /\ op' = CASE op.phase = "submits" -> Queries(op)
             [] op.phase = "checks" -> Ends(op, "thrown", NoSnapshot)
             [] OTHER -> op
  /\ UNCHANGED <<platform, page, card>>

------------------------------------------------------------------------------
Init ==
  /\ platform \in Platforms /\ left \in Budgets
  /\ core = [epoch |-> 1, rev |-> 1, context |-> 1, coming |-> NoRequest, working |-> 0,
             done |-> {}, refused |-> {}, lost |-> {}]
  /\ page = [shown |-> NoSnapshot, retired |-> {}, loading |-> ~Mac, timer |-> FALSE,
             error |-> FALSE, busy |-> FALSE, outcome |-> None, request |-> 0]
  /\ reads = {NewRead(TRUE)}
  /\ op = NoOp /\ card = [phase |-> "no", operation |-> None]

Answers ==
  \/ \E asks \in BOOLEAN : MainChecks(TRUE, asks)
  \/ CallIsAnswered \/ IsLookedUp(TRUE) \/ PageGets
  \/ \E r \in reads : ReadIsAnswered(r, TRUE) \/ ReadEnds(r)
  \/ CoreTakes \/ CoreActs

Next ==
  \/ Polls \/ ManualReads \/ Act \/ Answers
  \/ \E r \in reads : ReadIsAnswered(r, FALSE)
  \/ MainChecks(FALSE, TRUE) \/ Declines \/ \E hidden \in BOOLEAN : Confirms(hidden)
  \/ CallIsLost \/ IsLookedUp(FALSE)
  \/ CardBegins \/ CardAsks \/ \E yes, ok \in BOOLEAN : CardAnswered(yes, ok)
  \/ \E context \in BOOLEAN : CoreChanges(context)
  \/ CoreRestarts

\* Requests are answered or time out, and the timers run; a user may leave a question open.
Fairness == WF_vars(Polls \/ Answers)

Spec == Init /\ [][Next]_vars /\ Fairness

------------------------------------------------------------------------------
TypeOK ==
  /\ op.phase \in {"no", "checks", "dialog", "submits", "queries", "gets"}
  /\ card.phase \in {"no", "creates", "dialog"} /\ core.working \in Nat
  /\ page.outcome \in {None, "completed", "failed", "unknown", "cancelled"}

\* What the page says of an action is so: completed if it was carried out, and failed or
\* cancelled only if it was not and will not be.
OutcomeIsTrue ==
  /\ page.outcome = "completed" => page.request \in core.done
  /\ page.outcome \in {"failed", "cancelled"} =>
       page.request \notin core.done \cup {core.working} /\ core.coming = NoRequest

\* What is submitted is what the user was asked about.
AsConfirmed ==
  op.phase = "submits" => Context(op.asked) = op.question

\* An action is submitted once, whatever becomes of the call.
SubmittedOnce == op.sends <= 1

\* Windows: the main process asks the user one thing at a time.
OneQuestion ==
  ~Mac => ~(op.phase \in {"dialog", "submits", "queries"} /\ card.phase # "no")

\* What the page shows never goes back: to an older revision, or to an epoch that is over.
ShownNeverGoesBack ==
  [][page.shown # NoSnapshot =>
       \/ page'.shown.epoch > page.shown.epoch
       \/ page'.shown.epoch = page.shown.epoch /\ page'.shown.rev >= page.shown.rev]_vars

\* The page goes on observing, whatever fails: again and again it shows the Core's snapshot, or
\* the user is being asked.
KeepsObserving == []<>(page.shown = Snapshot \/ op.phase = "dialog")
==============================================================================
