----------------------------- MODULE TaskReports -----------------------------
(* The reports KSF tasks leave in their workspace: a short-lived process per report, a      *)
(* private key from which a task's name is made, one file per task replaced as a whole,     *)
(* and locks held by file (taskruntime/store.go, files.go, receipt.go).                     *)
EXTENDS FiniteSets, Integers, Sequences

CONSTANTS
  Requests,     \* the reports there are; each may be sent again
  Task(_), Event(_), Expected(_),
  Receipt(_),   \* the state of the workspace its receipt was made of, or NoReceipt
  MaxHistory,   \* maxHistory
  MaxRecords,   \* maxRecords
  MaxKeys,      \* Bound: the keys that are ever made
  Budgets       \* Bound: [sends, deaths, losses, edits, sets, failures]

None == "none"
NoReceipt == 0 - 1
Tasks == {Task(r) : r \in Requests}

VARIABLES
  key,        \* the identity key on disk, 0 when there is none
  keys,       \* the keys made so far
  records,    \* records[k][t]: the history of t in the file named by the key k
  locks,      \* locks[l]: the report that holds a lock: a task's, the index's or the key's
  reporter,   \* reporter[r]: the process that sends r
  workspace,  \* the state of the sources that receipts are made of
  clock,
  told,       \* history: what the reporters of r were told
  left        \* the budget that is left

vars == <<key, keys, records, locks, reporter, workspace, clock, told, left>>
disk == <<key, keys, records>>
outside == <<workspace, clock>>

Index == "index"
Identity == "identity"

Spend(what) == left[what] > 0 /\ left' = [left EXCEPT ![what] = @ - 1]

------------------------------------------------------------------------------
(* The records *)

Written == {w \in (1..MaxKeys) \X Tasks : records[w[1]][w[2]] # <<>>}

\* load: a file whose history is not consistent is never read again, nor written.
Loads(history) ==
  /\ Len(history) <= MaxHistory
  /\ \A i, j \in DOMAIN history :
       i < j => /\ Event(history[i].request) # Event(history[j].request)
                /\ history[i].at <= history[j].at
  /\ \A i \in DOMAIN history : Expected(history[i].request) = i - 1

\* Mutant: an event is answered from the history whatever the report says.
ReplayedByName(r, history) == \E i \in DOMAIN history : Event(history[i].request) = Event(r)

\* The report's payload is its digest: the same event with other content is another report.
Replayed(r, history) == \E i \in DOMAIN history : history[i].request = r

Conflicts(r, history) ==
  \E i \in DOMAIN history : /\ Event(history[i].request) = Event(r)
                            /\ history[i].request # r

\* checkSources, the verifier of the workspace, and checkSources again.
Verified(r) == Receipt(r) \in {NoReceipt, workspace}

------------------------------------------------------------------------------
(* One report *)

Gone == [pc |-> "gone", key |-> 0, history |-> <<>>]

Set(r, v) == reporter' = [reporter EXCEPT ![r] = v]

Goes(r, pc) == Set(r, [reporter[r] EXCEPT !.pc = pc])

\* The file locks of a process go with it.
Unlocked(r) == [l \in DOMAIN locks |-> IF locks[l] = r THEN None ELSE locks[l]]

Answers(r, what) ==
  /\ told' = [told EXCEPT ![r] = @ \cup {what}]
  /\ Set(r, Gone) /\ locks' = Unlocked(r)

Fails(r) == Answers(r, "failed")

Send(r) ==
  /\ reporter[r].pc = "gone" /\ Spend("sends")
  /\ Goes(r, "start")
  /\ UNCHANGED <<disk, locks, outside, told>>

\* identityKey without creation.
ReadKey(r) ==
  /\ reporter[r].pc = "start"
  /\ Set(r, [reporter[r] EXCEPT !.key = key, !.pc = IF key = 0 THEN "scan" ELSE "named"])
  /\ UNCHANGED <<disk, locks, outside, told, left>>

\* recordIDs: there are records, and their key is lost.
KeyIsLost == Written # {}

ScanRecords(r) ==
  /\ reporter[r].pc = "scan"
  /\ IF KeyIsLost THEN Fails(r) ELSE Goes(r, "keyless") /\ UNCHANGED <<locks, told>>
  /\ UNCHANGED <<disk, outside, left>>

\* withLock waits for its turn, or for the end of its context.
Takes(r, l, pc) ==
  /\ locks[l] = None /\ locks' = [locks EXCEPT ![l] = r]
  /\ Goes(r, pc) /\ UNCHANGED told

LockKey(r) ==
  /\ reporter[r].pc = "keyless" /\ Takes(r, Identity, "makekey")
  /\ UNCHANGED <<disk, outside, left>>

NewKey == key = 0 /\ keys < MaxKeys /\ key' = keys + 1 /\ keys' = keys + 1

\* identityKey with creation, under identity.lock: who comes second reads what is there. A
\* key that was written stays, though the sync of its directory fails.
MakeKey(r) ==
  /\ reporter[r].pc = "makekey"
  /\ \/ /\ NewKey \/ (key # 0 /\ UNCHANGED <<key, keys>>)
        /\ Set(r, [reporter[r] EXCEPT !.key = key', !.pc = "named"])
        /\ locks' = Unlocked(r) /\ UNCHANGED <<told, left>>
     \/ /\ key = 0 /\ Spend("failures") /\ Fails(r)
        /\ NewKey \/ UNCHANGED <<key, keys>>
  /\ UNCHANGED <<records, outside>>

LockTask(r) ==
  /\ reporter[r].pc = "named" /\ Takes(r, Task(r), "locked")
  /\ UNCHANGED <<disk, outside, left>>

\* Under the lock of the task: an event already there is answered from the history, one with
\* other content or an unexpected revision refused, and nothing old makes room.
LoadTask(r) ==
  LET history == records[reporter[r].key][Task(r)]
  IN /\ reporter[r].pc = "locked"
     /\ IF ~Loads(history) THEN Fails(r)
        ELSE IF Replayed(r, history) THEN Answers(r, "ok")
        ELSE IF Conflicts(r, history) \/ Len(history) # Expected(r)
                \/ Len(history) >= MaxHistory
        THEN Fails(r)
        ELSE /\ Set(r, [reporter[r] EXCEPT !.history = history,
                                           !.pc = IF history = <<>> THEN "first" ELSE "verify"])
             /\ UNCHANGED <<locks, told>>
     /\ UNCHANGED <<disk, outside, left>>

\* The first report of a task also takes the lock of the index.
LockIndex(r) ==
  /\ reporter[r].pc = "first" /\ Takes(r, Index, "count")
  /\ UNCHANGED <<disk, outside, left>>

CountRecords(r) ==
  /\ reporter[r].pc = "count"
  /\ IF Cardinality(Written) >= MaxRecords THEN Fails(r)
     ELSE Goes(r, "verify") /\ UNCHANGED <<locks, told>>
  /\ UNCHANGED <<disk, outside, left>>

Verify(r) ==
  /\ reporter[r].pc = "verify"
  /\ IF Verified(r) THEN Goes(r, "write") /\ UNCHANGED <<locks, told>> ELSE Fails(r)
  /\ UNCHANGED <<disk, outside, left>>

Last(history) == history[Len(history)]

ClockWentBack(history) == history # <<>> /\ clock < Last(history).at

\* atomicWrite puts the whole new history in the place of the old one, or leaves the old one.
Replace(r) ==
  /\ reporter[r].pc = "write"
  /\ \/ /\ ClockWentBack(reporter[r].history) /\ Fails(r) /\ UNCHANGED <<records, left>>
     \/ /\ ~ClockWentBack(reporter[r].history)
        /\ records' = [records EXCEPT ![reporter[r].key][Task(r)] =
                         Append(reporter[r].history, [request |-> r, at |-> clock])]
        /\ Goes(r, "sync") /\ UNCHANGED <<locks, told, left>>
     \/ Spend("failures") /\ Fails(r) /\ UNCHANGED records
  /\ UNCHANGED <<key, keys, outside>>

\* syncDirectory: "task committed but directory sync failed; retry identical event".
Sync(r) ==
  /\ reporter[r].pc = "sync"
  /\ \/ Answers(r, "ok") /\ UNCHANGED left
     \/ Spend("failures") /\ Fails(r)
  /\ UNCHANGED <<key, keys, records, outside>>

\* The time of the report ends before it is written, or its process does; what it wrote stays.
Waiting(r) == reporter[r].pc \in {"keyless", "makekey", "named", "locked", "first", "count",
                                   "verify", "write"}

GivesUp(r) ==
  /\ Waiting(r) /\ Spend("deaths") /\ Fails(r)
  /\ UNCHANGED <<disk, outside>>

Dies(r) ==
  /\ reporter[r].pc # "gone" /\ Spend("deaths")
  /\ Set(r, Gone) /\ locks' = Unlocked(r)
  /\ UNCHANGED <<disk, outside, told>>

------------------------------------------------------------------------------
(* What happens around the reports *)

NobodyReports == \A r \in Requests : reporter[r].pc = "gone"

\* The private key is deleted while the records stay. (Bound: while nobody reports. Between
\* recordIDs and identityKey a report holds no lock, and would make a second key.)
KeyLost ==
  /\ key # 0 /\ NobodyReports /\ Spend("losses") /\ key' = 0
  /\ UNCHANGED <<keys, records, locks, reporter, outside, told>>

\* A source of the receipts changes.
Edit ==
  /\ Spend("edits") /\ workspace' = workspace + 1
  /\ UNCHANGED <<disk, locks, reporter, clock, told>>

\* Somebody sets the clock.
SetClock ==
  /\ Spend("sets") /\ clock' = 1 - clock
  /\ UNCHANGED <<disk, locks, reporter, workspace, told>>

------------------------------------------------------------------------------
Init ==
  /\ key = 0 /\ keys = 0
  /\ records = [k \in 0..MaxKeys |-> [t \in Tasks |-> <<>>]]
  /\ locks = [l \in Tasks \cup {Index, Identity} |-> None]
  /\ reporter = [r \in Requests |-> Gone]
  /\ workspace = 0 /\ clock = 1 /\ told = [r \in Requests |-> {}]
  /\ left \in Budgets

Report(r) ==
  \/ ReadKey(r) \/ ScanRecords(r) \/ LockKey(r) \/ MakeKey(r) \/ LockTask(r) \/ LoadTask(r)
  \/ LockIndex(r) \/ CountRecords(r) \/ Verify(r) \/ Replace(r) \/ Sync(r)

Next ==
  \/ \E r \in Requests : Send(r) \/ Report(r) \/ GivesUp(r) \/ Dies(r)
  \/ KeyLost \/ Edit \/ SetClock

Spec == Init /\ [][Next]_vars

------------------------------------------------------------------------------
TypeOK ==
  /\ key \in 0..MaxKeys /\ keys \in 0..MaxKeys /\ key <= keys
  /\ \A l \in DOMAIN locks : locks[l] \in Requests \cup {None}
  /\ \A r \in Requests : reporter[r].key \in 0..MaxKeys /\ told[r] \subseteq {"ok", "failed"}
  /\ \A l \in DOMAIN locks : locks[l] # None => reporter[locks[l]].pc # "gone"

\* No report leaves a file that load would refuse: a task is never shut out by its own
\* history, whatever the clock, the crashes and the other reports did (store.go:373-395).
NeverCorrupt == \A k \in 1..MaxKeys, t \in Tasks : Loads(records[k][t])

\* A task has one record, made with one key, and there are never more than maxRecords.
OneRecordPerTask ==
  /\ \A t \in Tasks : Cardinality({k \in 1..MaxKeys : records[k][t] # <<>>}) <= 1
  /\ Cardinality(Written) <= MaxRecords

\* The log of a task, whichever key its record is named by.
LogOf(t) ==
  LET written == {k \in 1..MaxKeys : records[k][t] # <<>>}
  IN IF written = {} THEN <<>>
     ELSE LET history == records[CHOOSE k \in written : TRUE][t]
          IN [i \in DOMAIN history |-> history[i].request]

\* The store is a log per task: every event once, at the revision it expected, and whoever
\* was told ok is in it.
Log == INSTANCE TaskLog WITH log <- [t \in Tasks |-> LogOf(t)]
ImplementsTaskLog == Log!Spec
=============================================================================
