---------------------------- MODULE DesktopTasks -----------------------------
(* The Core's client of the Codex desktop application, as one task sees it: a connection, *)
(* the application's client that owns the task, snapshots the owner pushes, and observers *)
(* that read the task's state through one cache (desktop/activity.go,                      *)
(* observation_cache.go, snapshot_refresh.go).                                             *)
EXTENDS FiniteSets, Integers, Sequences

CONSTANTS
  Observers,    \* goroutines that observe the task, one observation after the other
  Owners,       \* clients of the application that can own the task
  Connections,  \* Bound: the connections there may be, 1..n
  MaxWire,      \* Bound: frames of the application that are not read yet
  Budgets       \* Bound: [calls, updates, moves, breaks, timeouts], and two choices: numeric,
                \* whether revisions are numbers, and passive, who only probes

NoConnection == 0
NoOwner == "nobody"
Everybody == "everybody"

VARIABLES
  connection,    \* the current one, or NoConnection
  clientID,      \* whether the application has named this client
  generation,    \* connectionGeneration
  socket,        \* socket[c]: "none", "open", "broken" or, with its reader, "closed"
  wire,          \* wire[c]: what the application sent and the reader has not read
  owner,         \* owners[key]
  pendingOwners, \* the connections on which an owner discovery nobody waits for is under way
  refreshes,     \* snapshotRefreshes: timers that run, [generation, source]
  cache,         \* the cache entries that were made; the last one is the current one
  observer,      \* observer[o]: an observation under way
  waiters,       \* [by, kind] of the registered waiters; of a snapshot also from whom
  channels,      \* what is in their channels: [by, kind, what, revision]
  asked,         \* requests the application has not answered: [kind, by, on, owner]
  task,          \* the application's: who owns the task and its revision
  follows,       \* the connections to which the application pushes the task
  pushed,        \* the last snapshot the cache accepted: what subscribers were woken for
  left

vars == <<connection, clientID, generation, socket, wire, owner, pendingOwners, refreshes,
          cache, observer, waiters, channels, asked, task, follows, pushed, left>>

link == <<connection, clientID, generation, socket>>
desk == <<task, follows>>

Spend(what) == left[what] > 0 /\ left' = [left EXCEPT ![what] = @ - 1]

Seen(g, o, r) == [generation |-> g, owner |-> o, revision |-> r]
Unseen == Seen(0, NoOwner, 0)

NewEntry(g) == [target |-> Unseen, generation |-> g, fresh |-> FALSE, pushes |-> 0,
                loading |-> FALSE]

Entry == cache[Len(cache)]

\* compareNumericSnapshotRevisions: older or the same; revisions that are digests are never.
NotNewer(r, than) == left.numeric /\ than > 0 /\ r <= than

------------------------------------------------------------------------------
(* Frames, waiters and channels *)

At(o, pc) == observer[o].pc = pc

Waiter(o, kind, from) == [by |-> o, kind |-> kind, from |-> from]
Holds(w) == \E x \in channels : x.by = w.by /\ x.kind = w.kind
Message(w, what, r) == [by |-> w.by, kind |-> w.kind, what |-> what, revision |-> r]
Deliver(ws, what, r) ==
  /\ \A w \in ws : ~Holds(w)
  /\ channels' = channels \cup {Message(w, what, r) : w \in ws}
Of(o, kind) == {x \in channels : x.by = o /\ x.kind = kind}

Ask(kind, o, to) == [kind |-> kind, by |-> o, on |-> connection, to |-> to]

\* A frame written to a connection the application has left is lost.
Sends(requests) ==
  asked' = IF connection # NoConnection /\ socket[connection] = "open"
           THEN asked \cup requests ELSE asked

\* An observer that is through with its reading has no waiter left: what is still answered
\* bears the number of a request that nobody knows.
Forgotten(f, o) == IF f.by = o /\ f.kind # "push" THEN [f EXCEPT !.by = "nobody"] ELSE f

Forget(o) ==
  /\ waiters' = {w \in waiters : w.by # o}
  /\ channels' = {x \in channels : x.by # o}
  /\ asked' = {a \in asked : a.by # o}
  /\ wire' = [c \in Connections |-> [i \in DOMAIN wire[c] |-> Forgotten(wire[c][i], o)]]

Idle == [pc |-> "idle", entry |-> 0, generation |-> 0, pushes |-> 0, next |-> "owner",
         target |-> Unseen, owner |-> NoOwner, floor |-> Unseen, told |-> Unseen]

Go(o, pc) == observer' = [observer EXCEPT ![o].pc = pc]

\* The reading has failed: before it asked anybody, or waiting for an answer.
NoReading(o) == observer' = [observer EXCEPT ![o].pc = "end", ![o].target = Unseen]
Fails(o) == NoReading(o) /\ Forget(o)

------------------------------------------------------------------------------
(* ObserveConversationState, up to the reading *)

Passive(o) == o \in left.passive

\* The entry as the observer finds it: of this connection and owner, or empty.
Reset(e) ==
  IF ~e.loading /\ \/ e.generation # generation
                   \/ e.target.owner # NoOwner /\ e.target.owner # owner
  THEN [NewEntry(generation) EXCEPT !.pushes = e.pushes] ELSE e

Valid(e) ==
  /\ connection # NoConnection /\ owner # NoOwner
  /\ e.generation = generation /\ e.target.owner = owner /\ e.target.revision > 0

SetEntry(i, e) == cache' = [cache EXCEPT ![i] = e]

Begin(o) == [Idle EXCEPT !.floor = IF At(o, "wait") THEN observer[o].floor ELSE pushed]

\* One observer reads, the others wait for it; ...
Observe(o) ==
  /\ ~Passive(o)
  /\ \/ At(o, "idle") /\ Spend("calls")
     \/ At(o, "wait") /\ ~cache[observer[o].entry].loading /\ UNCHANGED left
  /\ \E expired \in BOOLEAN :
       LET e == Reset(Entry)
           i == Len(cache)
       IN IF e.loading
          THEN /\ expired /\ UNCHANGED cache
               /\ observer' = [observer EXCEPT ![o] = [Begin(o) EXCEPT !.pc = "wait",
                                                                       !.entry = i]]
          ELSE IF e.fresh /\ ~expired
          THEN \* ... and what was read or pushed lately is good enough.
               /\ SetEntry(i, e)
               /\ observer' = [observer EXCEPT ![o] =
                    [Begin(o) EXCEPT !.told = IF Valid(e) THEN e.target ELSE Unseen]]
          ELSE /\ expired /\ SetEntry(i, [e EXCEPT !.loading = TRUE])
               /\ observer' = [observer EXCEPT ![o] =
                    [Begin(o) EXCEPT !.pc = "start", !.entry = i, !.generation = generation,
                                     !.pushes = e.pushes]]
  /\ UNCHANGED <<link, wire, owner, pendingOwners, refreshes, waiters, channels, asked, desk,
                 pushed>>

\* ObserveKnownConversationState
Probe(o) ==
  /\ Passive(o) /\ At(o, "idle") /\ Spend("calls")
  /\ observer' = [observer EXCEPT ![o] =
       IF connection = NoConnection \/ owner = NoOwner THEN Begin(o)
       ELSE [Begin(o) EXCEPT !.pc = "start", !.next = "load", !.generation = generation,
                             !.owner = owner]]
  /\ UNCHANGED <<link, wire, owner, pendingOwners, refreshes, cache, waiters, channels, asked,
                 desk, pushed>>

------------------------------------------------------------------------------
(* Start *)

\* A connection that is there is used, named or not; ...
Start(o) ==
  /\ At(o, "start") /\ Go(o, IF connection = NoConnection THEN "dial" ELSE observer[o].next)
  /\ UNCHANGED <<link, wire, owner, pendingOwners, refreshes, cache, waiters, channels, asked,
                 desk, pushed, left>>

\* ... otherwise everybody who found none makes one.
Dial(o) ==
  /\ At(o, "dial")
  /\ \E c \in Connections :
       /\ socket[c] = "none" /\ \A d \in Connections : d < c => socket[d] # "none"
       /\ connection' = c /\ socket' = [socket EXCEPT ![c] = "open"]
       /\ asked' = asked \cup {[kind |-> "initialize", by |-> "nobody", on |-> c, to |-> NoOwner]}
  /\ Go(o, "named")
  /\ UNCHANGED <<clientID, generation, wire, owner, pendingOwners, refreshes, cache, waiters,
                 channels, desk, pushed, left>>

Named(o) ==
  /\ At(o, "named") /\ clientID /\ Go(o, observer[o].next)
  /\ UNCHANGED <<link, wire, owner, pendingOwners, refreshes, cache, waiters, channels, asked,
                 desk, pushed, left>>

\* Close: it releases nobody, and the reader still handles what it has buffered.
Close ==
  /\ connection' = NoConnection /\ generation' = generation + 1 /\ owner' = NoOwner
  /\ IF connection = NoConnection THEN UNCHANGED <<socket, wire>>
     ELSE /\ socket' = [socket EXCEPT ![connection] =
                          IF @ = "closed" THEN @ ELSE "broken"]
          /\ \E n \in 0..Len(wire[connection]) :
               wire' = [wire EXCEPT ![connection] = SubSeq(@, 1, n)]

NotNamed(o) ==
  /\ At(o, "named") /\ ~clientID /\ Spend("timeouts")
  /\ Close /\ NoReading(o)
  /\ UNCHANGED <<clientID, pendingOwners, refreshes, cache, waiters, channels, asked, desk, pushed>>

\* The application is not there.
NoDial(o) ==
  /\ At(o, "dial") /\ NoReading(o)
  /\ UNCHANGED <<link, wire, owner, pendingOwners, refreshes, cache, waiters, channels, asked,
                 desk, pushed, left>>

------------------------------------------------------------------------------
(* refreshOwner and loadConversationStateFromOwnerMatchingRevision *)

AskOwner(o) ==
  /\ At(o, "owner") \/ At(o, "again")
  /\ IF connection = NoConnection \/ (At(o, "owner") /\ ~clientID)
     THEN NoReading(o) /\ UNCHANGED <<waiters, asked>>
     ELSE /\ waiters' = waiters \cup {Waiter(o, "owner", NoOwner)}
          /\ Sends({Ask("owner", o, NoOwner)})
          /\ Go(o, "discover")
  /\ UNCHANGED <<link, wire, owner, pendingOwners, refreshes, cache, channels, desk, pushed,
                 left>>

\* The answer is taken without the lock, and noted with it: the connection may be another.
\* When nobody owns the task, macOS opens it and asks again.
OwnerFound(o) ==
  /\ At(o, "discover") /\ Forget(o)
  /\ \E x \in Of(o, "owner") :
       IF x.what = NoOwner THEN (NoReading(o) \/ Go(o, "again")) /\ UNCHANGED owner
       ELSE /\ owner' = x.what
            /\ observer' = [observer EXCEPT ![o].pc = "start", ![o].next = "load",
                                            ![o].owner = x.what]
  /\ UNCHANGED <<link, pendingOwners, refreshes, cache, desk, pushed, left>>

\* The snapshot waiter is registered before everybody is told of the follower and the
\* owner is asked for the history.
Load(o) ==
  /\ At(o, "load")
  /\ IF connection = NoConnection THEN NoReading(o) /\ UNCHANGED <<waiters, asked>>
     ELSE IF ~clientID
     THEN /\ Sends({Ask("follow", "nobody", Everybody)}) /\ NoReading(o) /\ UNCHANGED waiters
     ELSE /\ waiters' = waiters \cup {Waiter(o, "snapshot", observer[o].owner),
                                      Waiter(o, "response", NoOwner)}
          /\ Sends({Ask("follow", "nobody", Everybody), Ask("load", o, observer[o].owner)})
          /\ Go(o, "loading")
  /\ UNCHANGED <<link, wire, owner, pendingOwners, refreshes, cache, channels, desk, pushed,
                 left>>

Loaded(o) ==
  /\ At(o, "loading")
  /\ \E x \in Of(o, "response") :
       IF x.what # "ok" THEN Fails(o)
       ELSE /\ Go(o, "snapshot") /\ channels' = channels \ {x}
            /\ UNCHANGED <<wire, waiters, asked>>
  /\ UNCHANGED <<link, owner, pendingOwners, refreshes, cache, desk, pushed, left>>

SnapshotRead(o) ==
  /\ At(o, "snapshot")
  /\ \E x \in Of(o, "snapshot") :
       IF x.what # "ok" THEN Fails(o)
       ELSE /\ observer' = [observer EXCEPT ![o].pc = "end", ![o].target =
                              Seen(observer[o].generation, observer[o].owner, x.revision)]
            /\ Forget(o)
  /\ UNCHANGED <<link, owner, pendingOwners, refreshes, cache, desk, pushed, left>>

\* The context of who waits for another's reading is over.
GivesUp(o) ==
  /\ At(o, "wait") /\ Spend("timeouts") /\ observer' = [observer EXCEPT ![o] = Idle]
  /\ UNCHANGED <<link, wire, owner, pendingOwners, refreshes, cache, waiters, channels, asked,
                 desk, pushed>>

\* Five or fifteen seconds, or the observer's context.
TimesOut(o) ==
  /\ At(o, "discover") \/ At(o, "loading") \/ At(o, "snapshot")
  /\ Spend("timeouts") /\ Fails(o)
  /\ UNCHANGED <<link, owner, pendingOwners, refreshes, cache, desk, pushed>>

------------------------------------------------------------------------------
(* ObserveConversationState, after the reading *)

StillOwned(o) ==
  /\ observer[o].generation = generation /\ connection # NoConnection
  /\ owner = observer[o].target.owner

\* Mutant: what was read replaces what was pushed meanwhile.
AsRead(e, target, pushes) == target

\* A revision never goes back; one without an order yields to every push since it was asked for.
Newest(e, target, pushes) ==
  IF /\ e.target.owner = target.owner /\ e.target.revision > 0
     /\ NotNewer(target.revision, e.target.revision) \/ (~left.numeric /\ e.pushes > pushes)
  THEN [e.target EXCEPT !.generation = target.generation] ELSE target

Failed(e) == [e EXCEPT !.fresh = TRUE, !.loading = FALSE]

Ends(o) ==
  LET i == observer[o].entry
      good == observer[o].target # Unseen /\ StillOwned(o)
  IN /\ At(o, "end")
     /\ IF Passive(o)
        THEN /\ UNCHANGED cache
             /\ observer' = [observer EXCEPT ![o] =
                  [Idle EXCEPT !.floor = observer[o].floor,
                               !.told = IF good THEN observer[o].target ELSE Unseen]]
        ELSE LET e == cache[i]
                 target == Newest(e, observer[o].target, observer[o].pushes)
             IN /\ SetEntry(i, IF good THEN [e EXCEPT !.target = target, !.fresh = TRUE,
                                                      !.generation = observer[o].generation,
                                                      !.loading = FALSE]
                               ELSE Failed(e))
                /\ observer' = [observer EXCEPT ![o] =
                     [Idle EXCEPT !.floor = observer[o].floor,
                                  !.told = IF good THEN target ELSE Unseen]]
     /\ UNCHANGED <<link, wire, owner, pendingOwners, refreshes, waiters, channels, asked, desk,
                    pushed, left>>

------------------------------------------------------------------------------
(* The reader *)

Take(c) == wire' = [wire EXCEPT ![c] = Tail(@)]

Served(ws) == waiters \ ws

\* cachePushedObservation: whether a snapshot is new to the cache, and the cache with it.
Trusted(source) == owner # NoOwner /\ owner = source

Current(source) ==
  IF Entry.generation # generation \/ (Entry.target.owner \notin {NoOwner, source})
  THEN Append(cache, NewEntry(generation)) ELSE cache

Accepted(source, r) ==
  /\ Trusted(source)
  /\ ~NotNewer(r, Current(source)[Len(Current(source))].target.revision)

Pushed(source, r) ==
  LET new == Current(source)
      i == Len(new)
  IN [new EXCEPT ![i].target = Seen(generation, source, r), ![i].fresh = TRUE,
                 ![i].pushes = @ + 1]

\* A response goes to who waits for it; what nobody waits for names this client or an owner.
Response(c, f) ==
  LET ws == {w \in waiters : w.by = f.by /\ w.kind = f.kind}
  IN CASE ws # {} ->
            /\ Deliver(ws, f.what, 0) /\ waiters' = Served(ws)
            /\ UNCHANGED <<clientID, owner, pendingOwners, asked>>
       [] ws = {} /\ f.kind = "initialize" ->
            /\ clientID' = TRUE /\ Sends({Ask("any", "nobody", NoOwner)})
            /\ pendingOwners' = pendingOwners \cup ({connection} \ {NoConnection})
            /\ UNCHANGED <<owner, waiters, channels>>
       [] ws = {} /\ f.kind = "any" /\ c \in pendingOwners ->
            /\ pendingOwners' = pendingOwners \ {c}
            /\ owner' = f.what /\ Sends({Ask("follow", "nobody", f.what)})
            /\ UNCHANGED <<clientID, waiters, channels>>
       [] OTHER -> UNCHANGED <<clientID, owner, pendingOwners, waiters, channels, asked>>

ReadResponse(c) ==
  /\ wire[c] # <<>> /\ Head(wire[c]).kind \notin {"push", "change"}
  /\ Take(c) /\ Response(c, Head(wire[c]))
  /\ UNCHANGED <<connection, generation, socket, refreshes, cache, observer, desk, pushed, left>>

ReadPush(c) ==
  /\ wire[c] # <<>> /\ Head(wire[c]).kind = "push"
  /\ LET f == Head(wire[c])
         ws == {w \in waiters : w.kind = "snapshot" /\ w.from = f.by}
     IN /\ cache' = IF Accepted(f.by, f.revision) THEN Pushed(f.by, f.revision)
                    ELSE IF Trusted(f.by) THEN Current(f.by) ELSE cache
        /\ pushed' = IF Accepted(f.by, f.revision)
                     THEN Seen(generation, f.by, f.revision) ELSE pushed
        /\ Deliver(ws, "ok", f.revision) /\ waiters' = Served(ws)
  /\ Take(c)
  /\ UNCHANGED <<link, owner, pendingOwners, refreshes, observer, asked, desk, left>>

\* scheduleSnapshotRefresh: one timer for each connection.
ReadChange(c) ==
  /\ wire[c] # <<>> /\ Head(wire[c]).kind = "change"
  /\ LET f == Head(wire[c])
     IN refreshes' = IF connection # NoConnection /\ Trusted(f.by)
                        /\ ~\E t \in refreshes : t.generation = generation
                     THEN {[generation |-> generation, source |-> f.by]} ELSE refreshes
  /\ Take(c)
  /\ UNCHANGED <<link, owner, pendingOwners, cache, observer, waiters, channels, asked, desk,
                 pushed, left>>

Refresh(t) ==
  /\ refreshes' = refreshes \ {t}
  /\ IF connection # NoConnection /\ t.generation = generation /\ owner = t.source
     THEN Sends({Ask("follow", "nobody", t.source)}) ELSE UNCHANGED asked
  /\ UNCHANGED <<link, wire, owner, pendingOwners, cache, observer, waiters, channels, desk,
                 pushed, left>>

\* connectionEnded: under the lock, and only for the connection there is.
ConnectionEnded(c) ==
  /\ socket[c] = "broken" /\ wire[c] = <<>>
  /\ socket' = [socket EXCEPT ![c] = "closed"]
  /\ IF connection = c
     THEN /\ connection' = NoConnection /\ clientID' = FALSE /\ owner' = NoOwner
          /\ generation' = generation + 1 /\ pendingOwners' = {}
          /\ \A w \in waiters : ~Holds(w)
          /\ channels' = channels \cup
               {Message(w, IF w.kind = "owner" THEN NoOwner ELSE "failed", 0) : w \in waiters}
          /\ waiters' = {}
     ELSE UNCHANGED <<connection, clientID, generation, owner, pendingOwners, channels, waiters>>
  /\ UNCHANGED <<wire, refreshes, cache, observer, asked, desk, pushed, left>>

------------------------------------------------------------------------------
(* The application *)

Room(c) == socket[c] = "open" /\ Len(wire[c]) < MaxWire

Frame(kind, by, what) == [kind |-> kind, by |-> by, what |-> what, revision |-> 0]
Push(r) == [Frame("push", task.owner, "state") EXCEPT !.revision = r]

Answers(a) ==
  /\ Room(a.on)
  /\ asked' = asked \ {a}
  /\ LET found == a.to \in {task.owner, Everybody}
         replies ==
           CASE a.kind = "initialize" -> {<<Frame("initialize", "nobody", "ok")>>}
             [] a.kind \in {"owner", "any"} -> {<<Frame(a.kind, a.by, task.owner)>>}
             [] a.kind = "follow" -> {IF found THEN <<Push(task.revision)>> ELSE <<>>}
             [] a.kind = "load" ->
                  IF ~found THEN {<<Frame("response", a.by, "failed")>>}
                  ELSE {<<Push(task.revision), Frame("response", a.by, "ok")>>,
                        <<Frame("response", a.by, "ok"), Push(task.revision)>>}
     IN /\ \E reply \in replies : wire' = [wire EXCEPT ![a.on] = @ \o reply]
        /\ follows' = IF a.kind \in {"follow", "load"} /\ found THEN follows \cup {a.on}
                      ELSE follows
  /\ UNCHANGED <<link, owner, pendingOwners, refreshes, cache, observer, waiters, channels,
                 task, pushed, left>>

\* The task goes on, and its owner pushes it whole or only says so.
Updates ==
  /\ Spend("updates") /\ task' = [task EXCEPT !.revision = @ + 1]
  /\ \A c \in follows : socket[c] = "open" => Room(c)
  /\ \E f \in {Push(task.revision + 1), Frame("change", task.owner, "state")} :
       wire' = [c \in Connections |-> IF c \in follows /\ Room(c) THEN Append(wire[c], f)
                                      ELSE wire[c]]
  /\ UNCHANGED <<link, owner, pendingOwners, refreshes, cache, observer, waiters, channels,
                 asked, follows, pushed>>

Moves ==
  /\ Spend("moves")
  /\ \E o \in Owners \ {task.owner} : task' = [task EXCEPT !.owner = o]
  /\ UNCHANGED <<link, wire, owner, pendingOwners, refreshes, cache, observer, waiters, channels,
                 asked, follows, pushed>>

Breaks(c) ==
  /\ socket[c] = "open" /\ Spend("breaks")
  /\ socket' = [socket EXCEPT ![c] = "broken"] /\ asked' = {a \in asked : a.on # c}
  /\ UNCHANGED <<connection, clientID, generation, wire, owner, pendingOwners, refreshes, cache,
                 observer, waiters, channels, desk, pushed>>

------------------------------------------------------------------------------
Init ==
  /\ connection = NoConnection /\ clientID = FALSE /\ generation = 1
  /\ socket = [c \in Connections |-> "none"] /\ wire = [c \in Connections |-> <<>>]
  /\ owner = NoOwner /\ pendingOwners = {} /\ refreshes = {}
  /\ cache = <<NewEntry(1)>>
  /\ observer = [o \in Observers |-> Idle]
  /\ waiters = {} /\ channels = {} /\ asked = {}
  /\ task = [owner |-> CHOOSE o \in Owners : TRUE, revision |-> 1] /\ follows = {}
  /\ pushed = Unseen
  /\ left \in Budgets

ObserverSteps(o) ==
  \/ Observe(o) \/ Probe(o) \/ Start(o) \/ Dial(o) \/ NoDial(o) \/ Named(o) \/ NotNamed(o)
  \/ AskOwner(o) \/ OwnerFound(o) \/ Load(o) \/ Loaded(o) \/ SnapshotRead(o) \/ TimesOut(o)
  \/ GivesUp(o) \/ Ends(o)

ReaderSteps(c) == ReadResponse(c) \/ ReadPush(c) \/ ReadChange(c) \/ ConnectionEnded(c)

Next ==
  \/ \E o \in Observers : ObserverSteps(o)
  \/ \E c \in Connections : ReaderSteps(c) \/ Breaks(c)
  \/ \E t \in refreshes : Refresh(t)
  \/ \E a \in asked : Answers(a)
  \/ Updates \/ Moves

Spec == Init /\ [][Next]_vars

------------------------------------------------------------------------------
TypeOK ==
  /\ connection \in Connections \cup {NoConnection} /\ owner \in Owners \cup {NoOwner}
  /\ \A c \in Connections : /\ socket[c] \in {"none", "open", "broken", "closed"}
                            /\ Len(wire[c]) <= MaxWire + 1
  /\ \A o \in Observers : \A w \in waiters :
       w.by = o => observer[o].pc \in {"discover", "loading", "snapshot"}

\* Who is woken because the cache accepted a snapshot finds it: an observation that begins
\* after an accepted push and succeeds shows that push or a later one of the owner, whoever
\* read meanwhile, over whichever connection (observation_cache.go:118).
SeesWhatWoke ==
  \A o \in Observers :
    LET told == observer[o].told
        floor == observer[o].floor
    IN told.generation = floor.generation /\ told.owner = floor.owner
       => told.revision >= floor.revision

\* No sender waits at a channel: the reader, or the end of a connection under the lock of
\* the whole client, would wait for an observer that waits for them.
NobodyBlocks == \A w \in waiters : ~Holds(w)

\* An entry that is being read has somebody who reads it: the others wait for that alone.
ReadingEnds ==
  \A i \in DOMAIN cache :
    cache[i].loading =>
      \E o \in Observers : observer[o].entry = i /\ observer[o].pc \notin {"idle", "wait"}
==============================================================================
