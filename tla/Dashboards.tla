------------------------------ MODULE Dashboards -----------------------------
(* What a desktop shows and how it keeps up: the page's refreshes, forced or not, merged with *)
(* the one under way; the monitor that asks once a second whether the tasks' activity has     *)
(* changed; the root directory both sides must agree on; and the Core's one reading of the    *)
(* account, shared by the dashboard and the token history (UsageViewModel.swift, main.cjs,    *)
(* renderer/app.js, activity-monitor.cjs, service/service.go).                                *)
EXTENDS Integers, Sequences, FiniteSets

CONSTANTS
  Platforms,  \* of {"macos", "windows"}
  Budgets     \* Bound: how often what happens: [account, activity, roots, pins, forced,
              \* history, failures, timers, intervals]; the timers are those of macOS

Readers == {"read", "history"}
NoRoot == 0
Loading == 0 - 1
Cleared == 0
Nothing == "nothing"

VARIABLES
  platform,
  account, activity,  \* the versions of what is read: the account's usage, and what tasks do
  core,   \* usage: lastUsage; root: the host context; holder of accountReadMu
  job,    \* job[r]: a dashboard read and a history read in the Core
  page,   \* what the page (on Windows the renderer) holds
  main,   \* what keeps up without the page: the monitor, the tray, messages to the renderer
  tell,   \* a change of the root that the Core is told
  asked,  \* the account's version when a refresh was last forced that joined none of the
          \* monitor's
  left

vars == <<platform, account, activity, core, job, page, main, tell, asked, left>>

Mac == platform = "macos"
Spend(what) == left[what] > 0 /\ left' = [left EXCEPT ![what] = @ - 1]

\* service.lastUsage: the account's part, cleared when it could not be read, and the device's.
Usage == [account : Nat, local : Nat]

\* What a page shows: those, the activity, and the root and the pins it was asked with.
Dashboard(usage, does, request) ==
  [account |-> usage.account, local |-> usage.local, activity |-> does,
   root |-> request.root, pins |-> request.pins]

ActiveRoot(p) == IF Mac /\ ~p.onboarded THEN NoRoot ELSE p.root

Idle == [phase |-> "no", forced |-> FALSE, root |-> NoRoot, pins |-> 0, by |-> Nothing,
         usage |-> [account |-> Cleared, local |-> 0], activity |-> 0]

\* DashboardRequest, with what the page has set when it is made.
Asked(p, forced, by) ==
  [Idle EXCEPT !.phase = "asked", !.forced = forced, !.by = by, !.root = ActiveRoot(p),
               !.pins = p.pins]

Reading == job["read"].phase # "no"

------------------------------------------------------------------------------
(* The Core *)

Free(r) == core.holder = Nothing

Needs(j, due) == j.forced \/ due

\* readCodexState and readServerTokenHistory begin: under accountReadMu with a copy of the last
\* usage. A read is due after the interval, or when it is forced; a history that only changes
\* the prices reads nothing.
CoreTakes(r, due) ==
  /\ job[r].phase = "asked" /\ Free(r)
  /\ IF due THEN Spend("intervals") ELSE left' = left
  /\ core' = [core EXCEPT !.holder = r]
  /\ job' = [job EXCEPT ![r].phase = IF Needs(job[r], due) THEN "account" ELSE "local",
                        ![r].usage = core.usage]
  /\ UNCHANGED <<platform, account, activity, page, main, tell, asked>>

\* refreshAccountUsage: the account's part is replaced, or cleared.
CoreFetches(r, ok) ==
  /\ job[r].phase = "account"
  /\ IF ok THEN left' = left ELSE Spend("failures")
  /\ job' = [job EXCEPT ![r].phase = "local",
                        ![r].usage.account = IF ok THEN account ELSE Cleared]
  /\ UNCHANGED <<platform, account, activity, core, page, main, tell, asked>>

\* mergeLocalTokens, for a dashboard whose interval is over; the usage is kept for the others.
CoreKeeps(r, due) ==
  /\ job[r].phase = "local"
  /\ IF due THEN Spend("intervals") ELSE left' = left
  /\ LET usage == [job[r].usage EXCEPT !.local = IF due THEN activity ELSE @]
     IN /\ core' = [core EXCEPT !.usage = usage, !.holder = Nothing]
        /\ job' = [job EXCEPT ![r] = IF r = "read"
                                     THEN [@ EXCEPT !.phase = "kept", !.usage = usage]
                                     ELSE Idle]
  /\ UNCHANGED <<platform, account, activity, page, main, tell, asked>>

\* The rest of Dashboard: the activity is taken again, after the slow reads. The answer may be
\* lost, or come too late.
CoreAnswers(ok) ==
  /\ job["read"].phase = "kept"
  /\ IF ok THEN left' = left ELSE Spend("failures")
  /\ job' = [job EXCEPT !["read"].phase = IF ok THEN "answered" ELSE "failed",
                        !["read"].activity = activity]
  /\ UNCHANGED <<platform, account, activity, core, page, main, tell, asked>>

\* token/history/compare, of a page or of the prices it changed.
AskHistory(only) ==
  /\ job["history"].phase = "no" /\ Spend("history")
  /\ job' = [job EXCEPT !["history"] = [Idle EXCEPT !.phase = "asked", !.forced = ~only]]
  /\ UNCHANGED <<platform, account, activity, core, page, main, tell, asked>>

CoreSteps ==
  \/ \E r \in Readers, b \in BOOLEAN :
       (r = "history" => ~b) /\ (CoreTakes(r, b) \/ CoreKeeps(r, b))
  \/ \E r \in Readers, ok \in BOOLEAN : CoreFetches(r, ok)
  \/ \E ok \in BOOLEAN : CoreAnswers(ok)

\* What is read changes.
AccountMoves ==
  /\ Spend("account") /\ account' = account + 1
  /\ UNCHANGED <<platform, activity, core, job, page, main, tell, asked>>

ActivityMoves ==
  /\ Spend("activity") /\ activity' = activity + 1
  /\ UNCHANGED <<platform, account, core, job, page, main, tell, asked>>

------------------------------------------------------------------------------
(* Refreshes *)

Force(p, forced) == p.pendingAccount \/ forced

\* refreshSharedDashboard: one that meets another is made after it.
MacRefreshes(p, forced, by) ==
  /\ IF p.reading
     THEN /\ page' = [p EXCEPT !.pendingAccount = Force(p, forced), !.pendingActivity = TRUE]
          /\ job' = job
     ELSE /\ page' = [p EXCEPT !.reading = TRUE]
          /\ job' = [job EXCEPT !["read"] = Asked(p, forced, by)]
  /\ main' = IF by = "monitor" /\ ~p.reading
             THEN [main EXCEPT !.monitor = "reads", !.seen = activity] ELSE main

\* refreshDashboard, and readDashboard in the main process: one that is not forced is dropped
\* by the renderer when it meets another; and what the main process reads already, for the
\* renderer or for its monitor, is shared.
WindowsRefreshes(p, forced) ==
  IF p.reading
  THEN /\ page' = [p EXCEPT !.pendingAccount = Force(p, forced)]
       /\ UNCHANGED <<job, main>>
  ELSE /\ page' = [p EXCEPT !.reading = TRUE, !.timer = FALSE]
       /\ job' = IF Reading THEN job
                 ELSE [job EXCEPT !["read"] = Asked(p, forced, "page")]
       /\ main' = [main EXCEPT !.joined = TRUE]

Refreshes(p, forced, by) ==
  /\ IF Mac THEN MacRefreshes(p, forced, by) ELSE WindowsRefreshes(p, forced)
  /\ asked' = IF ~forced \/ (~Mac /\ ~p.reading /\ Reading) THEN asked ELSE account

\* The panel opens, the machine wakes, somebody refreshes.
ForceRefresh ==
  /\ Spend("forced") /\ Refreshes(page, TRUE, "page")
  /\ UNCHANGED <<platform, account, activity, core, tell>>

\* macOS: every five minutes, and every 3 or 15 seconds while the panel is open; Windows: 3 or
\* 15 seconds after the last answer.
TimerFires ==
  /\ page.timer /\ page.deferred = {}
  /\ IF Mac THEN Spend("timers") ELSE left' = left
  /\ Refreshes([page EXCEPT !.timer = Mac], FALSE, "page")
  /\ UNCHANGED <<platform, account, activity, core, tell>>

\* togglePinned; project:set-pinned and the refresh after it.
Pin ==
  /\ Spend("pins")
  /\ Refreshes([page EXCEPT !.pins = @ + 1], FALSE, "page")
  /\ UNCHANGED <<platform, account, activity, core, tell>>

\* A refresh that met another starts when that has ended.
DeferredRuns(f) ==
  /\ f \in page.deferred
  /\ Refreshes([page EXCEPT !.deferred = @ \ {f}], f, "page")
  /\ UNCHANGED <<platform, account, activity, core, tell, left>>

------------------------------------------------------------------------------
(* The end of a read *)

Read == job["read"]
Answer == Dashboard(Read.usage, Read.activity, Read)
Ended == Read.phase \in {"answered", "failed"}

Shows(applied) == applied

\* macOS: the answer is shown unless a forced refresh waits; the account's part of what is
\* shown is cleared when there is none.
MacReadEnds ==
  LET applied == Read.phase = "answered" /\ ~page.pendingAccount
      waits == page.pendingAccount \/ page.pendingActivity
      mine == Read.by = "monitor"
  IN /\ page' = [page EXCEPT
                   !.reading = FALSE, !.pendingAccount = FALSE, !.pendingActivity = FALSE,
                   !.offline = IF applied THEN FALSE ELSE @ \/ Read.phase = "failed",
                   !.deferred = IF waits THEN @ \cup {page.pendingAccount} ELSE @,
                   !.shown = CASE applied -> Answer
                               [] Read.phase = "failed" -> [@ EXCEPT !.account = Cleared]
                               [] OTHER -> @]
     /\ main' = IF ~mine THEN main
                ELSE [main EXCEPT !.monitor = "sleeps",
                                  !.last = IF Shows(applied) THEN main.seen ELSE @]
     /\ job' = [job EXCEPT !["read"] = Idle]

\* Windows: the tray shows it, whoever asked is answered, and a monitor that has waited reads.
WindowsReadEnds ==
  LET ok == Read.phase = "answered"
      message(kind) == [kind |-> kind, ok |-> ok, dashboard |-> Answer]
      reply == IF main.joined THEN <<message("reply")>> ELSE <<>>
      push == IF main.monitor = "reads" /\ ok THEN <<message("push")>> ELSE <<>>
  IN /\ main' = [main EXCEPT
                   !.joined = FALSE, !.tray = IF ok THEN Read.activity ELSE Loading,
                   !.mail = @ \o reply \o push,
                   !.monitor = IF @ = "waits" THEN "reads" ELSE "sleeps",
                   !.last = IF main.monitor # "reads" THEN @
                            ELSE IF Shows(ok) THEN main.seen ELSE Loading]
     /\ job' = [job EXCEPT !["read"] = IF main.monitor = "waits"
                                       THEN Asked(page, FALSE, "monitor") ELSE Idle]
     /\ page' = page

ReadEnds ==
  /\ Ended /\ IF Mac THEN MacReadEnds ELSE WindowsReadEnds
  /\ UNCHANGED <<platform, account, activity, core, tell, asked, left>>

\* The renderer's refresh is answered: not shown when a forced one waits, which is made now.
RendererReply(m) ==
  LET shown == IF ~m.ok THEN [page.shown EXCEPT !.account = Cleared]
               ELSE IF page.pendingAccount THEN page.shown ELSE m.dashboard
      p == [page EXCEPT !.reading = FALSE, !.shown = shown, !.pendingAccount = FALSE]
      rest == [main EXCEPT !.mail = Tail(@)]
  IN IF page.pendingAccount
     THEN /\ page' = [p EXCEPT !.reading = TRUE]
          /\ job' = IF Reading THEN job ELSE [job EXCEPT !["read"] = Asked(p, TRUE, "page")]
          /\ main' = [rest EXCEPT !.joined = TRUE]
          /\ asked' = IF Reading THEN Cleared ELSE asked
     ELSE page' = [p EXCEPT !.timer = TRUE] /\ main' = rest /\ UNCHANGED <<job, asked>>

\* One that the monitor sends is shown unless a forced one waits. (None is older than the one
\* shown: they are read one after the other and arrive in order.)
RendererPush(m) ==
  /\ page' = IF page.pendingAccount THEN page ELSE [page EXCEPT !.shown = m.dashboard]
  /\ main' = [main EXCEPT !.mail = Tail(@)]
  /\ UNCHANGED <<job, asked>>

RendererGets ==
  /\ main.mail # <<>>
  /\ IF Head(main.mail).kind = "reply" THEN RendererReply(Head(main.mail))
     ELSE RendererPush(Head(main.mail))
  /\ UNCHANGED <<platform, account, activity, core, tell, left>>

------------------------------------------------------------------------------
(* The monitor *)

\* The revision is read, and a refresh is made when it is not the one shown last. On Windows
\* a read under way is awaited first. (Bound: a deferred refresh starts before a clock ticks.)
MonitorReads ==
  /\ main.monitor = "sleeps" /\ activity # main.last /\ page.deferred = {}
  /\ IF Mac
     THEN /\ Refreshes(page, FALSE, "monitor")
          /\ UNCHANGED <<platform, account, activity, core, tell, left>>
     ELSE /\ main' = [main EXCEPT !.monitor = IF Reading THEN "waits" ELSE "reads",
                                  !.seen = activity]
          /\ job' = IF Reading THEN job
                    ELSE [job EXCEPT !["read"] = Asked(page, FALSE, "monitor")]
          /\ UNCHANGED <<platform, account, activity, core, page, tell, asked, left>>

\* The revision cannot be read: the next one counts as new.
MonitorFails ==
  /\ main.monitor = "sleeps" /\ Spend("failures")
  /\ main' = [main EXCEPT !.last = Loading]
  /\ UNCHANGED <<platform, account, activity, core, job, page, tell, asked>>

------------------------------------------------------------------------------
(* The root *)

NoTell == [to |-> Loading, back |-> FALSE]

\* chooseKSFRoot: the page has the new root at once; cancelKSFRoot: when the Core was told.
ChooseRoot(r) ==
  /\ tell = NoTell /\ Spend("roots")
  /\ r = NoRoot => ~Mac \/ page.onboarded
  /\ tell' = [to |-> r, back |-> FALSE]
  /\ page' = IF Mac /\ r # NoRoot
             THEN [page EXCEPT !.root = r, !.shown.root = Loading, !.rootError = FALSE]
             ELSE page
  /\ UNCHANGED <<platform, account, activity, core, job, main, asked>>

Rollback == TRUE

\* The Core has been told: completeOnboarding and cancelKSFRoot keep the root and refresh.
RootTold ==
  /\ tell # NoTell /\ ~tell.back
  /\ core' = [core EXCEPT !.root = tell.to] /\ tell' = NoTell
  /\ Refreshes([page EXCEPT !.root = tell.to, !.onboarded = tell.to # NoRoot,
                            !.rootError = FALSE], ~Mac, "page")
  /\ UNCHANGED <<platform, account, activity, left>>

\* It could not be told: the page says so.
RootFails ==
  /\ tell # NoTell /\ ~tell.back /\ Spend("failures")
  /\ tell' = NoTell
  /\ page' = [page EXCEPT !.rootError = Mac]
  /\ UNCHANGED <<platform, account, activity, core, job, main, asked>>

\* persistKSFRoot: the settings could not be written, and the Core is told the old root again.
SettingsFail ==
  /\ ~Mac /\ tell # NoTell /\ ~tell.back /\ Spend("failures")
  /\ core' = [core EXCEPT !.root = tell.to]
  /\ tell' = IF Rollback THEN [to |-> page.root, back |-> TRUE] ELSE NoTell
  /\ UNCHANGED <<platform, account, activity, job, page, main, asked>>

RolledBack ==
  /\ tell.back
  /\ core' = [core EXCEPT !.root = tell.to] /\ tell' = NoTell
  /\ UNCHANGED <<platform, account, activity, job, page, main, asked, left>>

------------------------------------------------------------------------------
\* start: the first refresh is under way, and the timers run.
Init ==
  /\ platform \in Platforms /\ left \in Budgets
  /\ account = 1 /\ activity = 1
  /\ page = [root |-> 1, pins |-> 0, onboarded |-> TRUE, rootError |-> FALSE, offline |-> FALSE,
             reading |-> TRUE,
             pendingAccount |-> FALSE, pendingActivity |-> FALSE, deferred |-> {},
             timer |-> Mac,
             shown |-> Dashboard(Idle.usage, 0, [root |-> Loading, pins |-> 0])]
  /\ job = [r \in Readers |-> IF r = "read" THEN Asked(page, ~Mac, "page") ELSE Idle]
  /\ main = [monitor |-> "sleeps", last |-> Loading, seen |-> 0, joined |-> ~Mac,
             tray |-> Loading, mail |-> <<>>]
  /\ core = [usage |-> Idle.usage, root |-> 1, holder |-> Nothing]
  /\ tell = NoTell /\ asked = account

Next ==
  \/ CoreSteps \/ AccountMoves \/ ActivityMoves
  \/ \E only \in BOOLEAN : AskHistory(only)
  \/ ForceRefresh \/ TimerFires \/ Pin \/ \E f \in BOOLEAN : DeferredRuns(f)
  \/ ReadEnds \/ RendererGets \/ MonitorReads \/ MonitorFails
  \/ \E r \in {NoRoot, 2} : ChooseRoot(r)
  \/ RootTold \/ RootFails \/ SettingsFail \/ RolledBack

\* Requests are answered or time out, the hosts' event loops run, and so does their monitor.
\* Only Windows counts on its timer; macOS must keep up without.
Progress ==
  \/ CoreSteps \/ ReadEnds \/ RendererGets \/ RootTold \/ RolledBack
  \/ \E f \in BOOLEAN : DeferredRuns(f)
  \/ ~Mac /\ TimerFires

Fairness == WF_vars(Progress) /\ WF_vars(MonitorReads)

Spec == Init /\ [][Next]_vars /\ Fairness

------------------------------------------------------------------------------
TypeOK ==
  /\ core.usage \in Usage /\ core.holder \in Readers \cup {Nothing}
  /\ \A r \in Readers : job[r].phase \in
       {"no", "asked", "account", "local", "kept", "answered", "failed"}
  /\ main.monitor \in {"sleeps", "waits", "reads"} /\ page.deferred \subseteq BOOLEAN

Settled ==
  /\ ~page.reading /\ page.deferred = {} /\ ~page.pendingAccount /\ main.mail = <<>>

Fresh(since) == page.shown.account = Cleared \/ page.shown.account >= since

\* A forced refresh is never lost, whatever it meets: when the page has come to rest, what it
\* shows of the account was read after the refresh was asked for, or could not be read.
ForcedIsFresh == Settled => Fresh(asked)

\* The page and the Core work with the same root: unless the change is under way, or the page
\* says that it failed.
RootsAgree == tell = NoTell /\ ~page.rootError => core.root = ActiveRoot(page)

\* The two readers of the account do not undo each other: what the Core keeps of the device's
\* tokens and of the account never goes back to an older reading.
UsageNeverGoesBack ==
  [][/\ core'.usage.local >= core.usage.local
     /\ core'.usage.account >= core.usage.account \/ core'.usage.account = Cleared]_vars

\* The page keeps up: again and again it shows what the tasks do, and, unless it says that it
\* is offline, the root and the pins that are set; on Windows the tray does too. On macOS
\* without any timer.
Current ==
  /\ page.shown.activity = activity
  /\ ~page.offline =>
       /\ page.shown.pins = page.pins
       /\ page.rootError \/ page.shown.root = ActiveRoot(page)
  /\ Mac \/ main.tray = activity

CatchesUp == []<>Current
==============================================================================
