----------------------------- MODULE TokenUsage -----------------------------
(* The tokens that the threads of Codex used, as the Core reads them from Codex's own logs    *)
(* (internal/tokens, service.TokenHistory): which file of a session it takes, whose a line    *)
(* of a copied history is, what a cumulative counter says was used since its last value, and  *)
(* which project or workspace that belongs to; and the Swift helper that keeps to the same    *)
(* contract. Codex is external: it opens threads, spawns and forks them, writes usage in the  *)
(* format of its version, restarts counters, and archives sessions and takes them up again.   *)
(*                                                                                            *)
(* The time of a line is the clock, and two ticks are a day. An amount is split in what was   *)
(* cached and the rest, input and output, which are told apart no further. Bounds: a line is  *)
(* there or not (a torn tail parses as nothing), a counter that restarts shows less at first  *)
(* than before, a fork copies what there is in one step, and one history is read at a time.   *)
EXTENDS Integers, Sequences, FiniteSets, FiniteSetsExt, SequencesExt

CONSTANTS
  Threads,   \* Numbers of threads.
  Projects,
  Home,      \* Where a thread works: a workspace, "none", or "" for where its parent does.
  MaxClock,
  Budgets    \* How much happens: one record of numbers per behaviour.

Places == {"sessions", "archived"}
Days == 1 .. (MaxClock + 1) \div 2
DayOf(at) == (at + 1) \div 2
Unknown == 0 - 1  \* no split was written
Nobody == 0       \* no thread

VARIABLES
  log,      \* Per thread and place, the lines of its file; none: there is no file.
  written,  \* Per thread and place, when it was written last.
  meter,    \* Per thread, Codex's cumulative counter.
  parent, fork, made,  \* Per thread, who spawned it, what it is a copy of, and since when.
  modern,   \* Codex writes a record per request.
  turns,    \* How many turns there were.
  bound,    \* Per thread, the projects it was bound to, with their times.
  clock,
  scan,     \* The reading of a history.
  history,  \* The history that is kept.
  uses,     \* A history: what was really used.
  lost,     \* A history: a log was removed.
  left

codex == <<log, written, meter, parent, fork, made, modern, turns, uses, lost>>
vars == <<codex, bound, clock, scan, history, left>>

Spend(what) == left[what] > 0 /\ left' = [left EXCEPT ![what] = @ - 1]

------------------------------------------------------------------------------
(* What a log says.                                                                           *)

Line(kind, thread, from, n, cached) ==
  [kind |-> kind, thread |-> thread, from |-> from, n |-> n, cached |-> cached, at |-> clock]

Meta(t, source) == Line("meta", t, source, 0, 0)
Turn(number) == Line("turn", Nobody, number, 0, 0)
Count(n, cached) == Line("count", Nobody, 0, n, cached)
Request(t, response, n, cached) == Line("request", t, response, n, cached)

\* The turns that a file has, copied ones too.
TurnsOf(lines) == {line.from : line \in {l \in Range(lines) : l.kind = "turn"}}

NewFile == [session |-> Nobody, owner |-> Nobody, fork |-> Nobody, seen |-> {}, samples |-> <<>>]

Sample(line, request, inherited) ==
  [at |-> line.at, n |-> line.n, cached |-> line.cached, request |-> request,
   inherited |-> inherited]

\* One more line of the file f of thread t; turnsOf: the turns of every thread, as far as known.
ReadLine(f, line, t, turnsOf) ==
  CASE line.kind = "meta" ->
         IF f.session # Nobody THEN [f EXCEPT !.owner = line.thread]
         ELSE [f EXCEPT !.session = line.thread, !.fork = line.from,
                        !.owner = IF line.from # Nobody THEN line.from ELSE line.thread]
    [] line.kind = "turn" ->
         IF f.fork = Nobody \/ turnsOf[f.fork] = {} THEN f
         ELSE [f EXCEPT !.owner = IF line.from \in turnsOf[f.fork] THEN f.fork ELSE f.session]
    [] line.kind = "request" ->
         LET session == IF f.session = Nobody THEN t ELSE f.session
             key == <<line.thread, line.from>>
             known == [f EXCEPT !.session = session, !.owner = line.thread]
         IN  IF key \in f.seen THEN known
             ELSE [known EXCEPT !.seen = @ \cup {key},
                                !.samples = Append(@, Sample(line, TRUE, line.thread # session))]
    [] line.kind = "count" ->
         LET copied == f.session # Nobody /\ f.owner # Nobody /\ f.owner # f.session
         IN  [f EXCEPT !.samples = Append(@, Sample(line, FALSE, copied))]

Samples(lines, t, turnsOf) ==
  FoldLeft(LAMBDA f, line : ReadLine(f, line, t, turnsOf), NewFile, lines).samples

NoSample == [at |-> 0, n |-> Unknown, cached |-> Unknown, request |-> FALSE, inherited |-> FALSE]

Delta(s, n, cached, baseline) == [at |-> s.at, n |-> n, cached |-> cached, baseline |-> baseline]

\* What was used between two values of a counter. A split stands if it adds up to the total.
Since(previous, s) ==
  LET restarted == s.n < previous.n
      n == IF previous = NoSample \/ restarted THEN s.n ELSE s.n - previous.n
      base == IF previous = NoSample \/ restarted \/ previous.cached = Unknown
              THEN [n |-> 0, cached |-> 0] ELSE previous
      adds == s.cached # Unknown /\ s.n - base.n = n
  IN  Delta(s, n, IF adds THEN s.cached - base.cached ELSE Unknown, previous # NoSample)

\* Mutant: what a copied counter shows is counted, too.
CountsCopies(d, s) ==
  IF s.request
  THEN IF s.inherited THEN d
       ELSE [d EXCEPT !.requests = TRUE, !.out = Append(@, Delta(s, s.n, s.cached, TRUE))]
  ELSE IF d.requests THEN d
  ELSE [d EXCEPT !.previous = s, !.out = Append(@, Since(d.previous, s))]

\* A copied counter is only what the next one is compared with; requests replace counters.
NextDelta(d, s) ==
  IF s.request
  THEN IF s.inherited THEN d
       ELSE [d EXCEPT !.requests = TRUE, !.out = Append(@, Delta(s, s.n, s.cached, TRUE))]
  ELSE IF d.requests THEN d
  ELSE [d EXCEPT !.previous = s,
                 !.out = IF s.inherited THEN @ ELSE Append(@, Since(d.previous, s))]

Deltas(samples) ==
  FoldLeft(NextDelta, [previous |-> NoSample, requests |-> FALSE, out |-> <<>>], samples).out

Zero == [n |-> 0, cached |-> 0, complete |-> TRUE]

Add(b, d) ==
  IF d.cached = Unknown
  THEN [b EXCEPT !.n = @ + d.n, !.complete = @ /\ d.n = 0]
  ELSE [b EXCEPT !.n = @ + d.n, !.cached = @ + d.cached]

\* The composition of a day, where it is known.
Split(b) == IF b.complete /\ b.cached \in 0 .. b.n THEN b.cached ELSE Unknown

------------------------------------------------------------------------------
(* Where the logs are.                                                                        *)

Exists(t, place) == log[t][place] # <<>>

\* The copy of a session that is read: the longer one, then the newer one; the first root's
\* otherwise.
Selected(t) ==
  LET longer == Len(log[t]["archived"]) - Len(log[t]["sessions"])
      newer == written[t]["archived"] > written[t]["sessions"]
  IN  IF longer > 0 \/ (longer = 0 /\ newer) THEN "archived" ELSE "sessions"

\* The threads that Codex lists, with their file.
Listed == {t \in Threads : Exists(t, "sessions")}

\* The turns of a source, found among the listed threads.
ListedTurns == [t \in Threads |-> IF t \in Listed THEN TurnsOf(log[t]["sessions"]) ELSE {}]

ThreadDeltas(t) == Deltas(Samples(log[t]["sessions"], t, ListedTurns))

\* t, its parent, and so on; the parents are opened first.
Ancestors(t) ==
  LET up[n \in Nat] == IF n = 0 THEN {t}
                       ELSE up[n - 1] \cup {parent[s] : s \in up[n - 1] \ {Nobody}}
  IN  up[Cardinality(Threads)] \ {Nobody}

Nearest(set) == IF set = {} THEN Nobody ELSE Max(set)

\* The timeline that holds for t, its own or the nearest ancestor's.
Timeline(t) ==
  LET by == Nearest({a \in Ancestors(t) : bound[a] # <<>>})
  IN  IF by = Nobody THEN <<>> ELSE bound[by]

NoBinding == [project |-> "none", at |-> 0]

LatestTransition(timeline, at) ==
  LET before == {i \in DOMAIN timeline : timeline[i].at <= at}
  IN  IF before = {} THEN NoBinding ELSE timeline[Max(before)]

SumOf(seq, Of(_)) == FoldLeft(LAMBDA sum, x : sum + Of(x), 0, seq)

\* What a thread adds to a project, and the deltas left out since they may reach back before
\* the binding.
OfProject(t, p) ==
  SelectSeq(ThreadDeltas(t), LAMBDA d : d.n > 0 /\ LatestTransition(Timeline(t), d.at).project = p)

Reaches(t, d) == ~d.baseline /\ LatestTransition(Timeline(t), d.at).at > made[t]

ProjectUsage(p) ==
  LET total(t) == SumOf(OfProject(t, p), LAMBDA d : IF Reaches(t, d) THEN 0 ELSE d.n)
      uncounted(t) == SumOf(OfProject(t, p), LAMBDA d : IF Reaches(t, d) THEN 1 ELSE 0)
  IN  [total |-> MapThenSumSet(total, Listed), uncounted |-> MapThenSumSet(uncounted, Listed)]

\* Where a thread works; and if that is a project's, by itself or by an ancestor.
WorkspaceOf(t) ==
  LET by == Nearest({a \in Ancestors(t) : Home[a] # "" \/ parent[a] = Nobody})
  IN  IF by = Nobody \/ Home[by] = "" THEN "none" ELSE Home[by]

KSFOwned(t) == \E a \in Ancestors(t) : bound[a] # <<>>

WorkspaceUsage(w) ==
  MapThenSumSet(LAMBDA t : SumOf(ThreadDeltas(t), LAMBDA d : d.n),
                {t \in Listed : WorkspaceOf(t) = w /\ ~KSFOwned(t)})

------------------------------------------------------------------------------
(* Codex.                                                                                     *)

\* A reading that sees Codex write is not of one moment.
Disturbs == scan' = [scan EXCEPT !.quiet = @ /\ scan.pc = "idle"]

Appends(t, lines) ==
  /\ log' = [log EXCEPT ![t]["sessions"] = @ \o lines]
  /\ written' = [written EXCEPT ![t]["sessions"] = clock]
  /\ Disturbs

\* Threads are numbered as they come.
Next1(t) == /\ made[t] = 0
            /\ \A s \in Threads : s < t => made[s] # 0
            /\ made' = [made EXCEPT ![t] = clock]

Live(t) == Exists(t, "sessions")

\* A new thread, of nobody or of an agent.
Open(t) ==
  /\ Next1(t) /\ Spend("opens")
  /\ \E by \in {Nobody} \cup {s \in Threads : Live(s)} : parent' = [parent EXCEPT ![t] = by]
  /\ turns' = turns + 1
  /\ Appends(t, <<Meta(t, Nobody), Turn(turns + 1)>>)
  /\ UNCHANGED <<meter, fork, modern, uses, lost, bound, clock, history>>

\* A copy of p's history, with new times, and the turn it goes on with. Some forks copy a
\* counter before the metadata, and only newer ones renew their own.
Fork(t, p) ==
  /\ Live(p) /\ Next1(t) /\ Spend("forks")
  /\ fork' = [fork EXCEPT ![t] = p]
  /\ \E by \in {Nobody, p} : parent' = [parent EXCEPT ![t] = by]
  /\ meter' = [meter EXCEPT ![t] = meter[p]]
  /\ turns' = turns + 1
  /\ \E early, renewed \in BOOLEAN :
       LET copied == [i \in DOMAIN log[p]["sessions"] |->
                        [log[p]["sessions"][i] EXCEPT !.at = clock]]
       IN  Appends(t, <<Meta(t, p)>>
                      \o (IF early THEN <<Count(meter[p].n, meter[p].cached)>> ELSE <<>>)
                      \o copied
                      \o (IF renewed THEN <<Meta(t, p)>> ELSE <<>>)
                      \o <<Turn(turns + 1)>>)
  /\ UNCHANGED <<modern, uses, lost, bound, clock, history>>

\* n tokens are used, of which n - 1 were cached. An old counter may have restarted, and its
\* split may be missing.
Use(t, n, restarts, split) ==
  /\ Live(t) /\ Spend(IF split THEN "uses" ELSE "unsplit")
  /\ restarts => n < meter[t].n
  /\ modern => split
  /\ uses' = Append(uses, [thread |-> t, at |-> clock, n |-> n, cached |-> n - 1])
  /\ LET base == IF restarts THEN [n |-> 0, cached |-> 0] ELSE meter[t]
         shown == [n |-> base.n + n, cached |-> base.cached + n - 1]
     IN  /\ meter' = [meter EXCEPT ![t] = shown]
         /\ Appends(t, <<IF modern THEN Request(t, Len(uses) + 1, n, n - 1)
                         ELSE Count(shown.n, IF split THEN shown.cached ELSE Unknown)>>)
  /\ UNCHANGED <<parent, fork, made, modern, turns, lost, bound, clock, history>>

\* A usage is written again: the last line, or the counter beside a request.
Repeat(t) ==
  /\ Live(t) /\ Spend("repeats")
  /\ LET own == log[t]["sessions"]
         last == own[Len(own)]
     IN  /\ last.kind \in {"count", "request"}
         /\ \E line \in {last} \cup (IF modern THEN {Count(meter[t].n, meter[t].cached)} ELSE {}) :
              Appends(t, <<[line EXCEPT !.at = clock]>>)
  /\ UNCHANGED <<meter, parent, fork, made, modern, turns, uses, lost, bound, clock, history>>

\* Codex is upgraded, and writes requests from now on.
Upgrade ==
  /\ ~modern /\ Spend("upgrades")
  /\ modern' = TRUE
  /\ UNCHANGED <<log, written, meter, parent, fork, made, turns, uses, lost, bound, clock, scan,
                 history>>

\* A session is put away, taken up again beside its archived file, or removed.
Archive(t) ==
  /\ Live(t) /\ Spend("moves")
  /\ log' = [log EXCEPT ![t] = [sessions |-> <<>>, archived |-> @["sessions"]]]
  /\ written' = [written EXCEPT ![t] = [sessions |-> 0, archived |-> @["sessions"]]]
  /\ Disturbs
  /\ UNCHANGED <<meter, parent, fork, made, modern, turns, uses, lost, bound, clock, history>>

Discard(t) ==
  /\ Live(t) /\ Spend("moves")
  /\ log' = [log EXCEPT ![t]["sessions"] = <<>>]
  /\ lost' = TRUE
  /\ Disturbs
  /\ UNCHANGED <<written, meter, parent, fork, made, modern, turns, uses, bound, clock, history>>

TakeUp(t) ==
  /\ Exists(t, "archived") /\ ~Exists(t, "sessions") /\ ~lost
  /\ log' = [log EXCEPT ![t]["sessions"] = log[t]["archived"]]
  /\ written' = [written EXCEPT ![t]["sessions"] = clock]
  /\ Disturbs
  /\ UNCHANGED <<meter, parent, fork, made, modern, turns, uses, lost, bound, clock, history,
                 left>>

\* A task is bound to a project (ksf).
Bind(t, p) ==
  /\ Live(t) /\ Spend("binds")
  /\ bound' = [bound EXCEPT ![t] = Append(@, [project |-> p, at |-> clock])]
  /\ UNCHANGED <<codex, clock, scan, history>>

Tick == clock < MaxClock /\ clock' = clock + 1 /\ UNCHANGED <<codex, bound, scan, history, left>>

------------------------------------------------------------------------------
(* The history of the Core.                                                                   *)

NoScan == [pc |-> "idle", path |-> [t \in Threads |-> "none"], todo |-> {}, at |-> 0, days |-> 1,
           sum |-> [d \in Days |-> Zero], quiet |-> TRUE]

\* TokenHistory lists the files, unless the last history is fresh enough.
BeginHistory ==
  /\ scan.pc = "idle"
  /\ history.at # clock \/ history.days # left.days
  /\ Spend("reads")
  /\ LET files == {t \in Threads : Exists(t, "sessions") \/ Exists(t, "archived")}
     IN  scan' = [NoScan EXCEPT !.pc = "reading", !.todo = files, !.at = clock, !.days = left.days,
                                !.path = [t \in Threads |-> IF t \in files THEN Selected(t)
                                                            ELSE "none"]]
  /\ UNCHANGED <<codex, bound, clock, history>>

Earliest == DayOf(scan.at) - scan.days + 1

\* The source of a fork is looked for among all the files, old ones too.
FoundTurns ==
  [t \in Threads |-> IF scan.path[t] = "none" THEN {} ELSE TurnsOf(log[t][scan.path[t]])]

\* One file. It may have gone, or not have been written since the first day asked for.
ReadFile(t) ==
  /\ scan.pc = "reading" /\ t \in scan.todo
  /\ LET place == scan.path[t]
         found == Deltas(Samples(log[t][place], t, FoundTurns))
         wanted == SelectSeq(found, LAMBDA d : DayOf(d.at) \in Earliest .. DayOf(scan.at))
         read == Exists(t, place) /\ DayOf(written[t][place]) >= Earliest
         AddTo(sum, d) == [sum EXCEPT ![DayOf(d.at)] = Add(@, d)]
     IN  scan' = [scan EXCEPT !.todo = @ \ {t},
                              !.sum = IF read THEN FoldLeft(AddTo, @, wanted) ELSE @]
  /\ UNCHANGED <<codex, bound, clock, history, left>>

EndHistory ==
  /\ scan.pc = "reading" /\ scan.todo = {}
  /\ history' = [at |-> scan.at, days |-> scan.days, sum |-> scan.sum]
  /\ scan' = NoScan
  /\ UNCHANGED <<codex, bound, clock, left>>

------------------------------------------------------------------------------
Init ==
  /\ log = [t \in Threads |-> [place \in Places |-> <<>>]]
  /\ written = [t \in Threads |-> [place \in Places |-> 0]]
  /\ meter = [t \in Threads |-> [n |-> 0, cached |-> 0]]
  /\ parent = [t \in Threads |-> Nobody]
  /\ fork = [t \in Threads |-> Nobody]
  /\ made = [t \in Threads |-> 0]
  /\ modern = FALSE
  /\ turns = 0
  /\ bound = [t \in Threads |-> <<>>]
  /\ clock = 2
  /\ scan = NoScan
  /\ history = [at |-> 0, days |-> 1, sum |-> [d \in Days |-> Zero]]
  /\ uses = <<>>
  /\ lost = FALSE
  /\ left \in Budgets

Codex ==
  \/ \E t \in Threads : Open(t) \/ Use(t, 1, TRUE, TRUE) \/ Repeat(t)
  \/ \E t \in Threads, split \in BOOLEAN : Use(t, 2, FALSE, split)
  \/ \E t \in Threads : Archive(t) \/ Discard(t) \/ TakeUp(t)
  \/ \E t, p \in Threads : Fork(t, p)
  \/ Upgrade

Next ==
  \/ (scan.pc = "reading" => left.meets > 0) /\ Codex
  \/ Tick
  \/ \E t \in Threads, p \in Projects : Bind(t, p)
  \/ BeginHistory
  \/ scan.todo # {} /\ ReadFile(Min(scan.todo))
  \/ EndHistory

Spec == Init /\ [][Next]_vars

------------------------------------------------------------------------------
(* The Swift helper, where it differs in form.                                                *)

\* It leaves out what is later than the days asked for, and takes what is earlier as a baseline.
SwiftSamples(lines, t, end) ==
  SelectSeq(Samples(lines, t, ListedTurns), LAMBDA s : DayOf(s.at) <= end)

SwiftNext(d, s, start) ==
  IF s.request
  THEN IF s.inherited THEN d
       ELSE [d EXCEPT !.requests = TRUE,
                      !.out = IF DayOf(s.at) < start THEN @
                              ELSE Append(@, Delta(s, s.n, s.cached, TRUE))]
  ELSE IF d.requests THEN d
  ELSE IF s.inherited \/ DayOf(s.at) < start THEN [d EXCEPT !.previous = s]
  ELSE LET restarted == s.n < d.previous.n
           previous == IF restarted THEN NoSample ELSE d.previous
           n == IF previous = NoSample THEN s.n ELSE s.n - previous.n
           split == IF s.cached = Unknown THEN Unknown
                    ELSE IF previous = NoSample THEN s.cached
                    ELSE IF previous.cached = Unknown THEN Unknown
                    ELSE s.cached - previous.cached
       IN  [d EXCEPT !.previous = s, !.out = Append(@, Delta(s, n, split, TRUE))]

SwiftDeltas(lines, t, start, end) ==
  FoldLeft(LAMBDA d, s : SwiftNext(d, s, start),
           [previous |-> NoSample, requests |-> FALSE, out |-> <<>>],
           SwiftSamples(lines, t, end)).out

------------------------------------------------------------------------------
(* The promises.                                                                              *)

UsedOn(d) == SumOf(uses, LAMBDA u : IF DayOf(u.at) = d THEN u.n ELSE 0)
CachedOn(d) == SumOf(uses, LAMBDA u : IF DayOf(u.at) = d THEN u.cached ELSE 0)

TypeOK ==
  /\ DOMAIN log = Threads /\ clock \in 1 .. MaxClock
  /\ made \in [Threads -> 0 .. MaxClock]
  /\ parent \in [Threads -> Threads \cup {Nobody}] /\ fork \in [Threads -> Threads \cup {Nobody}]
  /\ scan.pc \in {"idle", "reading"} /\ scan.todo \subseteq Threads
  /\ \A d \in Days : scan.sum[d].n \in Nat /\ history.sum[d].n \in Nat

\* Nothing is counted that was not used on that day, and nothing twice, whatever was forked, copied,
\* repeated, upgraded or moved meanwhile (reader.go:182).
NeverTooMuch == \A d \in Days : scan.sum[d].n <= UsedOn(d) /\ history.sum[d].n <= UsedOn(d)

\* All of it is counted, with its split where that is known, if no file is gone and Codex wrote
\* nothing meanwhile (reader.go:41).
ExactAtRest ==
  scan.pc = "reading" /\ scan.todo = {} /\ scan.quiet /\ ~lost =>
    \A d \in Earliest .. DayOf(scan.at) : d \in Days =>
      /\ scan.sum[d].n = UsedOn(d)
      /\ Split(scan.sum[d]) \in {Unknown, CachedOn(d)}

\* What a project is charged was used by its tasks while they were its, and if the sum calls itself
\* complete, it is all of that, unless the source of a fork is gone (project.go:27).
Charged(p) ==
  SumOf(uses, LAMBDA u : IF u.thread \in Listed
                            /\ LatestTransition(Timeline(u.thread), u.at).project = p
                         THEN u.n ELSE 0)

ProjectsTrue ==
  \A p \in Projects :
    LET usage == ProjectUsage(p)
    IN  /\ usage.total <= Charged(p)
        /\ usage.uncounted = 0 /\ (\A t \in Listed : fork[t] \in Listed \cup {Nobody}) =>
             usage.total = Charged(p)

\* No token is charged to two of the projects and workspaces (workspace.go:17).
ChargedOnce ==
  MapThenSumSet(LAMBDA p : ProjectUsage(p).total, Projects)
    + MapThenSumSet(WorkspaceUsage, {Home[t] : t \in Threads} \ {"", "none"})
    <= SumOf(uses, LAMBDA u : u.n)

\* The two readers agree about every file (accounting_contract_test.go:14).
ReadersAgree ==
  \A t \in Listed, start \in Days, end \in Days : start <= end =>
    LET go == SelectSeq(ThreadDeltas(t), LAMBDA d : DayOf(d.at) \in start .. end)
        swift == SwiftDeltas(log[t]["sessions"], t, start, end)
    IN  FoldLeft(Add, Zero, go) = FoldLeft(Add, Zero, swift)
=============================================================================
