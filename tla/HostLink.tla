------------------------------ MODULE HostLink -------------------------------
(* A desktop host and the Core it runs, over the Core's standard input and output: the host *)
(* starts the process, matches answers to requests, and ends it; the Core reads lines in    *)
(* order, handles the quick ones itself, hands the others to two bounded queues with a      *)
(* worker each, and leaves when it is told to, terminated, or alone                         *)
(* (rpc/server.go, Windows/src/core-client.cjs, CoreServiceProcessClient.swift,             *)
(* JSONRPCPipeConnection.swift).                                                            *)
EXTENDS Integers, Sequences, FiniteSets

CONSTANTS
  Requests,    \* what the host asks: [kind, n], kind one of "inline", "normal", "read"
  Platforms,   \* of {"macos", "windows"}
  MaxCores,    \* Bound: Cores a host starts
  MaxQueue,    \* Bound: the limits of the two queues (32 and 4 in the code)
  Budgets      \* Bound: [crashes, timeouts, exits]; exits are the host's, in order or not

None == 0
Cores == 1..MaxCores
Queues == {"normal", "read"}
Initialize(p) == [kind |-> "initialize", n |-> p]
Shutdown(p) == [kind |-> "shutdown", n |-> p]
Nothing == [kind |-> "nothing", n |-> 0]

VARIABLES
  platform,
  host,      \* up; current: the Core it uses; starting: initialize is awaited; closing; child:
             \* the Core that is being ended
  started,   \* how many Cores were started
  made,      \* the requests the host has made
  pending,   \* those that wait for an answer
  core,      \* core[p]
  left

vars == <<platform, host, started, made, pending, core, left>>

Spend(what) == left[what] > 0 /\ left' = [left EXCEPT ![what] = @ - 1]

Fresh == [life |-> "none", input |-> <<>>, eof |-> FALSE, term |-> FALSE, loop |-> "read",
          now |-> Nothing, queue |-> [k \in Queues |-> <<>>], closed |-> FALSE,
          worker |-> [k \in Queues |-> Nothing], cancelled |-> FALSE, output |-> <<>>,
          events |-> {}]

Up(p) == core[p].life = "up"
Ended(c) == [Fresh EXCEPT !.life = "ended", !.output = c.output, !.events = {"close", "exit"}]

------------------------------------------------------------------------------
(* The host *)

\* macOS starts its Core once; Windows starts one whenever a request finds none.
Start ==
  /\ host.up /\ host.closing = "no" /\ host.current = None /\ started < MaxCores
  /\ platform = "macos" => started = 0
  /\ LET p == started + 1
     IN /\ started' = p
        /\ host' = [host EXCEPT !.current = p, !.starting = TRUE]
        /\ core' = [core EXCEPT ![p].life = "up", ![p].input = <<Initialize(p)>>]
        /\ pending' = pending \cup {Initialize(p)}
  /\ UNCHANGED <<platform, made, left>>

\* Windows waits for initialize; macOS lets a request pass once the process is there.
Request(r) ==
  /\ host.up /\ host.closing = "no" /\ host.current # None /\ r \notin made
  /\ platform = "windows" => ~host.starting
  /\ made' = made \cup {r}
  /\ IF Up(host.current)
     THEN /\ pending' = pending \cup {r}
          /\ core' = [core EXCEPT ![host.current].input = Append(@, r)]
     ELSE UNCHANGED <<pending, core>>
  /\ UNCHANGED <<platform, host, started, left>>

\* Mutant: what happens to a Core is taken for what happens to the current one.
AnyCore(p) == TRUE

Mine(p) == host.current = p

\* macOS ends a Core that could not be initialised; Windows keeps it.
Uninitialized(p) ==
  IF platform = "macos"
  THEN /\ host' = [host EXCEPT !.starting = FALSE, !.current = None]
       /\ core' = [core EXCEPT ![p].term = Up(p)]
  ELSE host' = [host EXCEPT !.starting = FALSE] /\ UNCHANGED core

Receive(p) ==
  /\ host.up /\ core[p].output # <<>>
  /\ LET r == Head(core[p].output)
     IN /\ core' = [core EXCEPT ![p].output = Tail(@)]
        /\ pending' = IF Mine(p) THEN pending \ {r} ELSE pending
        /\ host' = IF Mine(p) /\ r = Initialize(p) /\ r \in pending
                   THEN [host EXCEPT !.starting = FALSE] ELSE host
  /\ UNCHANGED <<platform, started, made, left>>

TimesOut(r) ==
  /\ host.up /\ r \in pending /\ Spend("timeouts")
  /\ pending' = IF r.kind = "initialize" /\ platform = "macos" THEN {} ELSE pending \ {r}
  /\ IF r.kind = "initialize" THEN Uninitialized(r.n) ELSE UNCHANGED <<host, core>>
  /\ UNCHANGED <<platform, started, made>>

\* The end of a Core's output and of the process are told one by one, and late.
GoneWindows(p, e) ==
  /\ host.up /\ platform = "windows" /\ e \in core[p].events
  /\ core' = [core EXCEPT ![p].events = @ \ {e}]
  /\ IF Mine(p)
     THEN pending' = {} /\ host' = [host EXCEPT !.current = None, !.starting = FALSE]
     ELSE UNCHANGED <<pending, host>>
  /\ UNCHANGED <<platform, started, made, left>>

\* The connection is closed for good; the process stays the one there is.
GoneMac(p) ==
  /\ host.up /\ platform = "macos" /\ core[p].events # {}
  /\ core' = [core EXCEPT ![p].events = {}] /\ pending' = {}
  /\ host' = IF host.starting THEN [host EXCEPT !.starting = FALSE, !.current = None] ELSE host
  /\ UNCHANGED <<platform, started, made, left>>

------------------------------------------------------------------------------
(* The host ends *)

Close ==
  /\ host.up /\ host.closing = "no" /\ Spend("exits")
  /\ IF host.current # None /\ Up(host.current)
     THEN /\ host' = [host EXCEPT !.closing = "asked", !.child = host.current]
          /\ pending' = pending \cup {Shutdown(host.current)}
          /\ core' = [core EXCEPT ![host.current].input = Append(@, Shutdown(host.current))]
     ELSE host' = [host EXCEPT !.closing = "closed"] /\ UNCHANGED <<pending, core>>
  /\ UNCHANGED <<platform, started, made>>

\* Eight seconds for the answer; then Windows ends the input and macOS terminates the Core.
EndInput ==
  /\ host.up /\ host.closing = "asked"
  /\ IF Shutdown(host.child) \in pending THEN Spend("timeouts") ELSE UNCHANGED left
  /\ pending' = {}
  /\ IF platform = "windows"
     THEN /\ core' = [core EXCEPT ![host.child].eof = TRUE]
          /\ host' = [host EXCEPT !.closing = "waiting"]
     ELSE /\ core' = [core EXCEPT ![host.child].term = Up(host.child)]
          /\ host' = [host EXCEPT !.closing = "closed"]
  /\ UNCHANGED <<platform, started, made>>

\* Two seconds for the exit, then the tree is killed.
Forced ==
  /\ host.up /\ host.closing = "waiting"
  /\ \/ ~Up(host.child) /\ UNCHANGED <<core, left>>
     \/ /\ Up(host.child) /\ Spend("timeouts")
        /\ core' = [core EXCEPT ![host.child] = Ended(@)]
  /\ host' = [host EXCEPT !.closing = "closed"]
  /\ UNCHANGED <<platform, started, made, pending>>

HostLeaves ==
  /\ host' = [host EXCEPT !.up = FALSE, !.current = None, !.starting = FALSE]
  /\ pending' = {} /\ core' = [p \in Cores |-> [core[p] EXCEPT !.eof = TRUE, !.events = {}]]
  /\ UNCHANGED <<platform, started, made>>

HostExits == host.up /\ host.closing = "closed" /\ HostLeaves /\ UNCHANGED left
HostDies == host.up /\ host.closing # "closed" /\ Spend("exits") /\ HostLeaves

------------------------------------------------------------------------------
(* The Core: Serve, handle *)

Set(p, value) ==
  /\ core' = [core EXCEPT ![p] = value]
  /\ UNCHANGED <<platform, host, started, made, pending, left>>

\* An answer nobody can read ends the process there and then.
Answered(c, r) ==
  IF host.up THEN [c EXCEPT !.output = Append(@, r)] ELSE Ended(c)

ReadLine(p) ==
  /\ Up(p) /\ core[p].loop = "read" /\ core[p].input # <<>>
  /\ LET r == Head(core[p].input)
         c == [core[p] EXCEPT !.input = Tail(@)]
     IN \/ /\ r.kind \in {"initialize", "inline"}
           /\ Set(p, [c EXCEPT !.loop = "inline", !.now = r])
        \/ /\ r.kind = "shutdown"
           /\ Set(p, [c EXCEPT !.loop = "shutdown", !.closed = TRUE, !.cancelled = TRUE,
                               !.now = r])
        \/ /\ r.kind \in Queues
           /\ IF Len(c.queue[r.kind]) < MaxQueue
              THEN Set(p, [c EXCEPT !.queue[r.kind] = Append(@, r)])
              ELSE Set(p, Answered(c, r))

\* Nothing else is read while the loop handles a request itself.
HandleInline(p) ==
  /\ Up(p) /\ core[p].loop = "inline"
  /\ Set(p, Answered([core[p] EXCEPT !.loop = "read", !.now = Nothing], core[p].now))

\* What is queued when the context ends is dropped without an answer.
Take(p, k) ==
  /\ Up(p) /\ core[p].worker[k] = Nothing /\ core[p].queue[k] # <<>>
  /\ LET c == [core[p] EXCEPT !.queue[k] = Tail(@)]
     IN Set(p, IF c.cancelled THEN c ELSE [c EXCEPT !.worker[k] = Head(core[p].queue[k])])

Handle(p, k) ==
  /\ Up(p) /\ core[p].worker[k] # Nothing
  /\ Set(p, Answered([core[p] EXCEPT !.worker[k] = Nothing], core[p].worker[k]))

Leaves(c) == [c EXCEPT !.loop = "drain", !.closed = TRUE]

\* The input has ended: what was read before is still carried out, ...
InputEnds(p) ==
  /\ Up(p) /\ core[p].loop = "read" /\ core[p].input = <<>> /\ core[p].eof
  /\ Set(p, Leaves(core[p]))

\* ... unless the process was terminated.
Terminated(p) ==
  /\ Up(p) /\ core[p].term /\ core[p].loop = "read"
  /\ Set(p, [Leaves(core[p]) EXCEPT !.cancelled = TRUE])

WorkersDone(c) == c.closed /\ \A k \in Queues : c.queue[k] = <<>> /\ c.worker[k] = Nothing

\* service.Close, and the answer to shutdown when that was asked.
CloseCore(p) ==
  /\ Up(p) /\ WorkersDone(core[p])
  /\ \/ core[p].loop = "drain" /\ Set(p, Ended(core[p]))
     \/ core[p].loop = "shutdown"
        /\ Set(p, Ended(Answered(core[p], core[p].now)))

Crash(p) ==
  /\ Up(p) /\ Spend("crashes") /\ core' = [core EXCEPT ![p] = Ended(@)]
  /\ UNCHANGED <<platform, host, started, made, pending>>

------------------------------------------------------------------------------
Init ==
  /\ platform \in Platforms /\ started = 0 /\ made = {} /\ pending = {} /\ left \in Budgets
  /\ host = [up |-> TRUE, current |-> None, starting |-> FALSE, closing |-> "no",
             child |-> None]
  /\ core = [p \in Cores |-> Fresh]

HostSteps ==
  \/ Start \/ \E r \in Requests : Request(r)
  \/ \E p \in Cores : Receive(p) \/ GoneMac(p) \/ \E e \in {"close", "exit"} : GoneWindows(p, e)
  \/ \E r \in pending : TimesOut(r)
  \/ Close \/ EndInput \/ Forced \/ HostExits \/ HostDies

CoreSteps(p) ==
  \/ ReadLine(p) \/ HandleInline(p) \/ InputEnds(p) \/ Terminated(p) \/ CloseCore(p)
  \/ \E k \in Queues : Take(p, k) \/ Handle(p, k)

Next == HostSteps \/ \E p \in Cores : CoreSteps(p) \/ Crash(p)

\* The Core's goroutines run, and every handler ends by its deadline (45 or 120 seconds).
Fairness == \A p \in Cores : WF_vars(CoreSteps(p))

Spec == Init /\ [][Next]_vars /\ Fairness

------------------------------------------------------------------------------
TypeOK ==
  /\ host.current \in 0..started /\ host.child \in 0..started
  /\ made \subseteq Requests
  /\ \A p \in Cores : \A k \in Queues : Len(core[p].queue[k]) <= MaxQueue

\* Only one Core works on the user's data: whichever others are still there have been told to
\* end (core-client.cjs:47, where a late word of an old process must not end the new one).
OneCore == Cardinality({p \in Cores : Up(p) /\ ~core[p].eof /\ ~core[p].term}) <= 1

Orphaned == ~host.up /\ \E p \in Cores : Up(p)

\* A Core does not outlive its host, however the host went: it drains what it has read and
\* closes (server.go:108).
CoreFollowsHost == []<>~Orphaned
==============================================================================
