------------------------------ MODULE MCFiles ------------------------------
(* Small instances of six components that share no state: the action locks, the child's      *)
(* housekeeping, the store of task reports, the application the child is connected with, the *)
(* operations of its capabilities and the tokens read from Codex's logs.                     *)
(* A behaviour is one of a single component, chosen at its start; the others stay as made.   *)
EXTENDS ActionLocks, StoredState, TLC

CONSTANTS Writers, WorkAge, LongAge, AuditAge, WorkCount, OperationCount, AuditBytes, MaxClock,
          Threads, Projects, MaxInstant

VARIABLES
  part,  \* the component that moves
  clock, store, index, events, audit, lock, writer, cleaner, left,
  log, written, meter, parent, fork, made, modern, turns, bound, instant, scan, history, uses,
  lost, tokensLeft

retention == <<clock, store, index, events, audit, lock, writer, cleaner, left>>
reports ==
  <<key, keys, records, fileLocks, reporter, workspace, time, told, reportsLeft>>
registration ==
  <<handler, mutex, item, session, sessions, credentials, secret, operator, journal, forgotten,
    running, registrationLeft>>
tokens ==
  <<log, written, meter, parent, fork, made, modern, turns, bound, instant, scan, history, uses,
    lost, tokensLeft>>
operations ==
  <<class, policy, scopes, target, writes, flying, record, late, work, asked, worker, rereading,
    stage, todo, operationsLeft>>

Nothing == [stores |-> {}, finishes |-> 0, puts |-> 0, audits |-> 0, cleanups |-> 2,
            failures |-> 0]

AuditOnly == [Nothing EXCEPT !.audits = 4]

\* Records of one store; event lines; audit files.
RetentionBudgets ==
  {[Nothing EXCEPT !.stores = {s}, !.finishes = 4, !.failures = 1] :
     s \in {"work", "operations"}}
  \cup {[Nothing EXCEPT !.stores = {s}, !.finishes = 3] : s \in {"inbound", "control"}}
  \cup {[Nothing EXCEPT !.puts = 6], AuditOnly}

R == INSTANCE Retention WITH Budgets <- RetentionBudgets

\* Two first reports that differ in their content, a second one, and those of other tasks.
Reports ==
  [a |-> [task |-> "t1", event |-> "e1", expected |-> 0, receipt |-> 0],
   b |-> [task |-> "t1", event |-> "e1", expected |-> 0, receipt |-> 0 - 1],
   c |-> [task |-> "t1", event |-> "e2", expected |-> 1, receipt |-> 0],
   d |-> [task |-> "t2", event |-> "e1", expected |-> 0, receipt |-> 0 - 1],
   e |-> [task |-> "t3", event |-> "e1", expected |-> 0, receipt |-> 0 - 1]]

MCReportNames == DOMAIN Reports
MCTaskOf(r) == Reports[r].task
MCEventOf(r) == Reports[r].event
MCExpectedOf(r) == Reports[r].expected
MCReceiptOf(r) == Reports[r].receipt

Faults(sends, deaths, losses, edits, sets, failures) ==
  [sends |-> sends, deaths |-> deaths, losses |-> losses, edits |-> edits, sets |-> sets,
   failures |-> failures]

Plain == Faults(4, 0, 0, 0, 0, 0)

MCReportBudgets ==
  {Plain, Faults(3, 1, 0, 0, 1, 0), Faults(2, 0, 1, 0, 0, 1),
   Faults(3, 0, 0, 1, 1, 1)}

Registrations(starts, logouts, cancels, failures, crashes) ==
  [starts |-> starts, logouts |-> logouts, cancels |-> cancels, failures |-> failures,
   crashes |-> crashes]

MCRegistrationBudgets ==
  {Registrations(2, 1, 0, 1, 1), Registrations(2, 1, 1, 1, 0), Registrations(3, 1, 1, 0, 0),
   Registrations(2, 2, 0, 0, 1)}

Quiet == [days |-> 2, opens |-> 1, uses |-> 2, unsplit |-> 0, meets |-> 0, forks |-> 0,
          repeats |-> 0, upgrades |-> 0, moves |-> 0, binds |-> 0, reads |-> 1]

\* Copies of copies and of histories that go on; two formats; bindings; files that move; splits.
TokenBudgets ==
  {[Quiet EXCEPT !.forks = 2, !.uses = 1, !.reads = 0],
   [Quiet EXCEPT !.opens = 2, !.forks = 1, !.uses = 1],
   [Quiet EXCEPT !.forks = 1, !.upgrades = 1],
   [Quiet EXCEPT !.uses = 3, !.repeats = 1, !.upgrades = 1],
   [Quiet EXCEPT !.forks = 1, !.binds = 1, !.reads = 0],
   [Quiet EXCEPT !.opens = 2, !.binds = 2, !.reads = 0],
   [Quiet EXCEPT !.forks = 1, !.uses = 1, !.moves = 1, !.meets = 1],
   [Quiet EXCEPT !.forks = 1, !.uses = 1, !.unsplit = 1]}

\* The second thread works where its parent does.
HomeOf == 1 :> "w" @@ 2 :> "" @@ 3 :> "w"

U == INSTANCE TokenUsage WITH
       Home <- HomeOf, MaxClock <- MaxInstant, Budgets <- TokenBudgets, clock <- instant,
       left <- tokensLeft

Effect(risk) == [risk |-> risk, evidence |-> FALSE, follow |-> FALSE, reread |-> FALSE,
                 desktop |-> FALSE, user |-> FALSE]
Guarded(risk) == [Effect(risk) EXCEPT !.evidence = TRUE, !.reread = TRUE]

Calm == [crashes |-> 0, faults |-> 0, changes |-> 0, others |-> 0, cancels |-> 0, late |-> 0]

Of(definition, budgets) == {[class |-> definition, left |-> b] : b \in budgets}

\* Reads for a user; writes that a crash interrupts; confirmations that are late or repeated, of
\* a target that others change, under a policy that changes; what is confirmed at once; what
\* destroys.
MCOperationScenarios ==
  Of([Effect("read") EXCEPT !.user = TRUE],
     {[Calm EXCEPT !.faults = 1, !.others = 1], [Calm EXCEPT !.crashes = 1, !.cancels = 1]})
  \cup Of([Effect("write") EXCEPT !.follow = TRUE], {[Calm EXCEPT !.crashes = 1]})
  \cup Of(Guarded("high-impact-write"),
          {[Calm EXCEPT !.others = 1, !.late = 1], [Calm EXCEPT !.changes = 1, !.cancels = 1],
           [Calm EXCEPT !.crashes = 1, !.cancels = 1], [Calm EXCEPT !.faults = 2]})
  \cup Of([Guarded("high-impact-write") EXCEPT !.user = TRUE, !.desktop = TRUE],
          {[Calm EXCEPT !.others = 1]})
  \cup Of([Guarded("destructive") EXCEPT !.follow = TRUE],
          {[Calm EXCEPT !.crashes = 1, !.faults = 1]})

\* The budget of a component that does not move.
Some(budgets) == CHOOSE b \in budgets : TRUE

MCInit ==
  /\ Init /\ R!Init /\ RS!Init /\ A!Init /\ U!Init /\ K!Init
  /\ part \in {"locks", "retention", "reports", "registration", "operations", "tokens"}
  /\ part # "retention" => left = Some(RetentionBudgets)
  /\ part # "reports" => reportsLeft = Some(ReportBudgets)
  /\ part # "registration" => registrationLeft = Some(RegistrationBudgets)
  /\ part # "tokens" => tokensLeft = Some(TokenBudgets)
  /\ part # "operations" => /\ [class |-> class, left |-> operationsLeft] = Some(OpScenarios)
                            /\ policy.permission = K!Default(class.risk)
                            /\ scopes = "granted"

LocksNext ==
  /\ part = "locks" /\ Next
  /\ UNCHANGED <<part, retention, reports, registration, operations, tokens>>
RetentionNext ==
  /\ part = "retention" /\ R!Next
  /\ UNCHANGED <<part, vars, reports, registration, operations, tokens>>
ReportsNext ==
  /\ part = "reports" /\ RS!Next
  /\ UNCHANGED <<part, vars, retention, registration, operations, tokens>>
RegistrationNext ==
  /\ part = "registration" /\ A!Next
  /\ UNCHANGED <<part, vars, retention, reports, operations, tokens>>
OperationsNext ==
  /\ part = "operations" /\ K!Next
  /\ UNCHANGED <<part, vars, retention, reports, registration, tokens>>

\* Until a history is read.
TokensNext ==
  /\ part = "tokens" /\ history.at = 0
  /\ U!Next
  /\ UNCHANGED <<part, vars, retention, reports, registration, operations>>

MCNext == \/ LocksNext \/ RetentionNext \/ ReportsNext \/ RegistrationNext \/ OperationsNext
          \/ TokensNext

MCSpec ==
  MCInit /\ [][MCNext]_<<part, vars, retention, reports, registration, operations, tokens>>

\* Every component's state is of its type; the reports of a task are kept as they should: no
\* report leaves a file that cannot be read, and a task has one record; an operation is applied
\* once at most and its record true, and of those prepared from one reading of a target one at
\* most succeeds; and no token is counted twice, left out, or charged to two projects, whatever
\* Codex did to its logs. (What depends on the logs alone is asked while no history is read.)
FilesSound ==
  /\ TypeOK /\ R!TypeOK /\ RS!TypeOK /\ A!TypeOK /\ U!TypeOK
  /\ RS!NeverCorrupt /\ RS!OneRecordPerTask
  /\ K!TypeOK /\ K!AppliedOnce /\ K!RecordIsTrue /\ K!NoBlindWrite /\ K!PersonIsAsked
  /\ K!ItemAgrees
  /\ part = "tokens" =>
       /\ U!NeverTooMuch /\ U!ExactAtRest
       /\ scan.pc = "idle" => U!ProjectsTrue /\ U!ChargedOnce /\ U!ReadersAgree

\* Retention's: nothing goes early. Capabilities's: how an operation ended stays.
KeptLongEnough == R!KeptLongEnough /\ K!OutcomesStay
=============================================================================
