------------------------------ MODULE Retention ------------------------------
(* The Feishu child's housekeeping: what is old or in excess is removed from the terminal  *)
(* work items, the receipts, the ledger of operations, the recorded events and the audit   *)
(* files, while all of them are written (feishu/lifecycle.go, audit.go, event_inbox.go).   *)
EXTENDS FiniteSets, Integers, Sequences

CONSTANTS
  Writers,     \* goroutines and processes that record something in the audit
  WorkAge,     \* thirty days, in ticks: work items, receipts, events
  LongAge,     \* ninety days: the ledger, and every outcome that needs a person
  AuditAge,    \* one hundred and eighty days
  WorkCount,   \* how many work items, receipts or events may stay
  OperationCount,
  AuditBytes,  \* how many records all audit files may hold
  MaxClock,    \* Bound: the ticks
  Budgets      \* Bound: [stores, finishes, puts, audits, cleanups, failures]; stores: the
               \* only ones that anything is recorded in

VARIABLES
  clock,
  store,    \* store[s]: the terminal records of a store, [id, when, protected]
  index,    \* the number of terminal work items that status.json claims
  events,   \* the event files by day: [day, when, lines], the lines numbered for ever
  audit,    \* the audit files, by day: [day, when, lines]
  lock,     \* the lock file of today's audit file: the name of its inode, 0 when removed
  writer,   \* writer[w]: a Record under way
  cleaner,  \* CleanupDataAt: which part it is at, and what that part has read
  left      \* the budget that is left

vars == <<clock, store, index, events, audit, lock, writer, cleaner, left>>
files == <<store, index, events, audit, lock>>

Stores == {"work", "operations", "inbound", "control"}

Spend(what) == left[what] > 0 /\ left' = [left EXCEPT ![what] = @ - 1]

Age(f) == clock - f.when

------------------------------------------------------------------------------
(* Which files a cleanup removes *)

\* The first n in the order of their times; files of one time come in any order.
Oldest(fs, n) == {X \in SUBSET fs : /\ Cardinality(X) = n
                                    /\ \A x \in X, y \in fs \ X : x.when <= y.when}

Excess(n, limit) == IF n > limit THEN n - limit ELSE 0

Smaller(m, n) == IF m < n THEN m ELSE n

\* An outcome that needs a person is kept for ninety days.
AgeLimit(f, age) == IF f.protected THEN LongAge ELSE age

Expired(fs, age) == {f \in fs : Age(f) >= AgeLimit(f, age)}

\* Those that may go although they are young.
Removable(fs) == {f \in fs : ~f.protected \/ Age(f) >= LongAge}

\* cleanupWorkRepository, removeExpiredOrExcess, cleanupOperationRecords: the expired, and
\* then the oldest of what may go until few enough are left. The second step of the ledger
\* counts the files the first removed once more, and removes them first: the same in effect.
Doomed(fs, age, count) ==
  LET rest == fs \ Expired(fs, age)
      may  == Removable(rest)
      n    == Smaller(Excess(Cardinality(rest), count), Cardinality(may))
  IN {Expired(fs, age) \cup X : X \in Oldest(may, n)}

AgeOf(s) == IF s = "operations" THEN LongAge ELSE WorkAge
CountOf(s) == IF s = "operations" THEN OperationCount ELSE WorkCount

\* A removal that fails ends the loop: what came before it is gone. The expired go first, the
\* others oldest first.
Begun(X, D, age) ==
  /\ D \subseteq X
  /\ \/ D \subseteq Expired(X, age)
     \/ /\ Expired(X, age) \subseteq D
        /\ \A d \in D \ Expired(X, age), x \in X \ D : d.when <= x.when

------------------------------------------------------------------------------
(* The parts of one cleanup: each runs whatever became of the one before *)

NextPart == [work |-> "inbound", inbound |-> "control", control |-> "events",
             events |-> "operations", operations |-> "audit", audit |-> "idle"]

Idle == [pc |-> "idle", counts |-> <<>>, seen |-> {}]

At(part) == cleaner.pc = part

Proceeds == cleaner' = [Idle EXCEPT !.pc = NextPart[cleaner.pc]]

\* RunLifecycleMaintenance starts one at once, every day, and when a store signals that it
\* has grown.
Starts ==
  /\ At("idle") /\ Spend("cleanups")
  /\ cleaner' = [Idle EXCEPT !.pc = "work"]
  /\ UNCHANGED <<clock, files, writer>>

\* updateIndexLocked, at the end of the loop.
Counted(n, removed) == IF n < removed THEN 0 ELSE n - removed

CleanStore(s) ==
  /\ At(s)
  /\ \E X \in Doomed(store[s], AgeOf(s), CountOf(s)) :
       \/ /\ store' = [store EXCEPT ![s] = @ \ X]
          /\ index' = IF s = "work" THEN Counted(index, Cardinality(X)) ELSE index
          /\ UNCHANGED left
       \/ \E D \in SUBSET X :
            /\ D # X /\ Begun(X, D, AgeOf(s)) /\ Spend("failures")
            /\ store' = [store EXCEPT ![s] = @ \ D] /\ UNCHANGED index
  /\ Proceeds
  /\ UNCHANGED <<clock, events, audit, lock, writer>>

\* The ledger is read without its locks; each record is then removed under its own.
ReadOperations ==
  /\ At("operations") /\ cleaner.seen = {}
  /\ \E X \in Doomed(store["operations"], LongAge, OperationCount) :
       cleaner' = IF X = {} THEN [Idle EXCEPT !.pc = "audit"] ELSE [cleaner EXCEPT !.seen = X]
  /\ UNCHANGED <<clock, files, writer, left>>

RemoveOperation ==
  /\ At("operations") /\ cleaner.seen # {}
  /\ \E X \in Oldest(cleaner.seen, 1) :
       /\ store' = [store EXCEPT !["operations"] = @ \ X]
       /\ IF cleaner.seen = X THEN Proceeds
          ELSE cleaner' = [cleaner EXCEPT !.seen = @ \ X]
  /\ UNCHANGED <<clock, index, events, audit, lock, writer, left>>

\* cleanupEventRecords: files untouched for thirty days go; then the lines are counted.
Fresh(f) == Age(f) < WorkAge

CountEvents ==
  /\ At("events") /\ cleaner.counts = <<>>
  /\ events' = SelectSeq(events, Fresh)
  /\ cleaner' = IF events' = <<>> THEN [Idle EXCEPT !.pc = "operations"]
                ELSE [cleaner EXCEPT !.counts =
                        [i \in DOMAIN events' |-> Cardinality(events'[i].lines)]]
  /\ UNCHANGED <<clock, store, index, audit, lock, writer, left>>

SumFrom(counts, i) ==
  LET F[j \in 1..Len(counts) + 1] == IF j > Len(counts) THEN 0 ELSE counts[j] + F[j + 1]
  IN F[i]

\* trimJSONLPrefix, under the lock of the file, which is written anew.
Trimmed(lines, n) == {l \in lines : Cardinality({k \in lines : k < l}) >= n}

\* Mutant: a file that reaches below the limit goes as a whole.
AnyFile(total, lines) == TRUE

\* Without all the lines of the file enough are left.
WholeFile(total, lines) == total - lines >= WorkCount

\* Oldest file first: whole while enough is left without it, then cut to what is too many.
TrimEvents ==
  /\ At("events") /\ cleaner.counts # <<>>
  /\ LET total == SumFrom(cleaner.counts, 1)
         lines == cleaner.counts[1]
         i     == Len(events) - Len(cleaner.counts) + 1
     IN /\ IF total <= WorkCount THEN Proceeds /\ UNCHANGED events
           ELSE IF WholeFile(total, lines)
           THEN /\ events' = SubSeq(events, 1, i - 1) \o SubSeq(events, i + 1, Len(events))
                /\ IF Len(cleaner.counts) = 1 THEN Proceeds
                   ELSE cleaner' = [cleaner EXCEPT !.counts = Tail(@)]
           ELSE /\ events' = [events EXCEPT ![i].when = clock,
                                              ![i].lines = Trimmed(@, total - WorkCount)]
                /\ Proceeds
  /\ UNCHANGED <<clock, store, index, audit, lock, writer, left>>

------------------------------------------------------------------------------
(* The audit: one file a day, its lock beside it *)

Today == {f \in audit : f.day = clock}

AuditSize(fs) == Cardinality(UNION {f.lines : f \in fs})

\* cleanupAuditFiles: those of half a year, and then the oldest until the rest is small. A
\* file of today is removed too once it was not written for a minute. Its lock is taken for
\* the removal and then removed: only what was read says that nobody writes.
AuditDoomed ==
  LET old     == {f \in audit : Age(f) >= AuditAge}
      rest    == audit \ old
      fits(X) == AuditSize(rest \ X) <= AuditBytes
      enough  == {X \in UNION {Oldest(rest, n) : n \in 0..Cardinality(rest)} : fits(X)}
      least   == {X \in enough : \A Y \in enough : X \subseteq Y}
  IN {old \cup X : X \in least \cup {Y \ Today : Y \in least}}

NobodyHolds == \A w \in Writers : writer[w].pc # "holds" \/ writer[w].inode # lock

CleanAudit ==
  /\ At("audit")
  /\ \E X \in AuditDoomed :
       /\ (X \cap Today # {}) => NobodyHolds
       /\ audit' = audit \ X
       /\ lock' = IF X \cap Today # {} THEN 0 ELSE lock
  /\ Proceeds
  /\ UNCHANGED <<clock, store, index, events, writer, left>>

NoWriter == [pc |-> "idle", inode |-> 0, fresh |-> FALSE, line |-> 0]

SetWriter(w, v) == writer' = [writer EXCEPT ![w] = v]

\* withProcessFileLock opens the lock file, or makes it, ...
Opens(w) ==
  /\ writer[w].pc = "idle" /\ Spend("audits")
  /\ lock' = IF lock = 0 THEN left.audits ELSE lock
  /\ SetWriter(w, [pc |-> "waits", inode |-> lock', fresh |-> FALSE, line |-> left.audits])
  /\ UNCHANGED <<clock, store, index, events, audit, cleaner>>

\* ... waits for the lock of what it opened, and looks for the file of the day ...
Locks(w) ==
  /\ writer[w].pc = "waits"
  /\ \A v \in Writers : ~(writer[v].pc = "holds" /\ writer[v].inode = writer[w].inode)
  /\ SetWriter(w, [writer[w] EXCEPT !.pc = "holds", !.fresh = (Today = {})])
  /\ UNCHANGED <<clock, files, cleaner, left>>

\* ... which it begins anew if there was none, and adds its record.
Records(w) ==
  /\ writer[w].pc = "holds"
  /\ LET before == IF writer[w].fresh THEN {} ELSE UNION {f.lines : f \in Today}
     IN audit' = (audit \ Today)
                   \cup {[day |-> clock, when |-> clock, lines |-> before \cup {writer[w].line}]}
  /\ SetWriter(w, NoWriter)
  /\ UNCHANGED <<clock, store, index, events, lock, cleaner, left>>

------------------------------------------------------------------------------
(* What is recorded meanwhile *)

\* An outcome may be unknown there.
MayNeedPerson(s) == s \in {"work", "operations"}

\* completeWork, Complete, RecordFailure, Finish: a record becomes terminal.
Finish(s) ==
  /\ Spend("finishes") /\ s \in left.stores
  /\ \E protected \in {FALSE, MayNeedPerson(s)} :
       store' = [store EXCEPT ![s] =
         @ \cup {[id |-> left.finishes, when |-> clock, protected |-> protected]}]
  /\ index' = IF s = "work" THEN index + 1 ELSE index
  /\ UNCHANGED <<clock, events, audit, lock, writer, cleaner>>

\* Put: a line at the end of the file of the day.
Put ==
  /\ Spend("puts")
  /\ LET n    == Len(events)
         line == {0 - left.puts}
         file(lines) == [day |-> clock, when |-> clock, lines |-> lines]
     IN events' = IF n > 0 /\ events[n].day = clock
                  THEN [events EXCEPT ![n] = file(@.lines \cup line)]
                  ELSE Append(events, file(line))
  /\ UNCHANGED <<clock, store, index, audit, lock, writer, cleaner>>

\* The day ends when no record is half written and no part is under way: both take
\* milliseconds. The lock of a new day's file is another one.
Tick ==
  /\ clock < MaxClock /\ At("idle") /\ \A w \in Writers : writer[w].pc = "idle"
  /\ clock' = clock + 1 /\ lock' = 0
  /\ UNCHANGED <<store, index, events, audit, writer, cleaner, left>>

------------------------------------------------------------------------------
Init ==
  /\ clock = 0 /\ store = [s \in Stores |-> {}] /\ index = 0 /\ events = <<>>
  /\ audit = {} /\ lock = 0 /\ writer = [w \in Writers |-> NoWriter] /\ cleaner = Idle
  /\ left \in Budgets

Next ==
  \/ Tick \/ Put \/ Starts \/ CountEvents \/ TrimEvents
  \/ \E s \in Stores : Finish(s)
  \/ \E s \in {"work", "inbound", "control"} : CleanStore(s)
  \/ ReadOperations \/ RemoveOperation \/ CleanAudit
  \/ \E w \in Writers : Opens(w) \/ Locks(w) \/ Records(w)

Spec == Init /\ [][Next]_vars

------------------------------------------------------------------------------
TypeOK ==
  /\ clock \in 0..MaxClock
  /\ index \in Nat /\ index >= Cardinality(store["work"])
  /\ \A s \in Stores : \A r \in store[s] : r.id \in Nat /\ r.when \in 0..clock
  /\ \A i \in DOMAIN events : events[i].when \in 0..clock
  /\ \A i, j \in DOMAIN events : i < j => events[i].day < events[j].day
  /\ \A f, g \in audit : f.day = g.day => f = g
  /\ cleaner.pc \in DOMAIN NextPart \cup {"idle"}

Lines(fs) == UNION {fs[i].lines : i \in DOMAIN fs}

\* Nothing goes early: a record leaves its store at its age, or because as many as may stay
\* are there without it and it needs no person; an event line leaves with a file of thirty
\* days, or because as many newer lines stay (lifecycle.go:18-24).
KeptLongEnough ==
  [][/\ \A s \in Stores : \A r \in store[s] \ store'[s] :
          \/ Age(r) >= AgeLimit(r, AgeOf(s))
          \/ ~r.protected /\ Cardinality(store'[s]) >= CountOf(s)
     /\ \A i \in DOMAIN events : \A l \in events[i].lines \ Lines(events') :
          \/ Age(events[i]) >= WorkAge
          \/ Cardinality({k \in Lines(events') : k > l}) >= WorkCount]_vars
=============================================================================
