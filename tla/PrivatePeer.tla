----------------------------- MODULE PrivatePeer -----------------------------
(* The two ends of the private connection between the Core and its Feishu child: each end   *)
(* calls and notifies the other and handles what comes, over one bounded queue of writes and *)
(* one reader (privateipc/peer.go). Both ends speak the protocol: a frame is whole, of a     *)
(* legal size, and no ID is used twice.                                                      *)
EXTENDS FiniteSets, Integers, Sequences

CONSTANTS
  Calls,        \* the calls and notifications that are made, each with an ID of its own here
  From(_),      \* the end that makes a call: "core" or "child"
  MaxPending,   \* MaxPendingCalls
  MaxHandlers,  \* MaxConcurrentHandlers
  MaxWrites,    \* MaxQueuedWrites
  MaxWire,      \* Bound: the frames the operating system holds for an end that does not read
  MaxFaults     \* Bound: the writes that take more than WriteTimeout, and the ends that close

VARIABLES
  closed,    \* closed[s]: the channel of an end is closed
  caller,    \* caller[c]: where the call is, whether it is a notification, what its write came
             \* to, and what it returned
  ended,     \* ended[c]: the context of the caller is over
  pending,   \* pending[s]: the calls whose answer an end waits for
  response,  \* response[c]: the answer in the channel of the call
  handler,   \* handler[c]: where the other end's handler is, and whether it was run
  cancelled, \* cancelled[c]: the context of the handler is over
  writes,    \* writes[s]: the queue of the writer
  wire,      \* wire[s]: the frames an end wrote and the other has not read
  faults

vars == <<closed, caller, ended, pending, response, handler, cancelled, writes, wire, faults>>

Ends == {"core", "child"}
Other(s) == IF s = "core" THEN "child" ELSE "core"
Frame(kind, c, what) == [kind |-> kind, call |-> c, what |-> what]

At(c, pc) == caller[c].pc = pc
Handling(c) == handler[c].pc \notin {"none", "over"}
Slots(s) == {c \in Calls : From(c) # s /\ Handling(c)}

\* closePeer; closing twice changes nothing.
Closes(s) == closed' = [closed EXCEPT ![s] = TRUE]

\* Serve's context ends with the connection, and every handler's with it.
Cancelled(c) == cancelled[c] \/ closed[Other(From(c))]

------------------------------------------------------------------------------
(* Writing *)

Room(s) == Len(writes[s]) < MaxWrites

Queue(s, f) == writes' = [writes EXCEPT ![s] = Append(@, f)]

\* enqueue: nobody waits, and an end whose queue is full closes.
Enqueue(s, f) ==
  IF closed[s] THEN UNCHANGED <<closed, writes>>
  ELSE IF Room(s) THEN Queue(s, f) /\ UNCHANGED closed
  ELSE Closes(s) /\ UNCHANGED writes

\* The context a frame is written under; frames that are enqueued have none.
WriteEnded(f) ==
  \/ f.kind \in {"request", "notice"} /\ ended[f.call]
  \/ f.kind = "reply" /\ f.what = "result" /\ Cancelled(f.call)

Done(f, what) ==
  /\ caller' = IF f.kind \in {"request", "notice"} THEN [caller EXCEPT ![f.call].done = what] ELSE caller
  /\ handler' = IF f.kind = "reply" /\ f.what = "result" /\ handler[f.call].pc = "queued"
                THEN [handler EXCEPT ![f.call].pc = "over"] ELSE handler

\* writeLoop: what nobody waits for any more is dropped; ...
Drop(s) ==
  /\ ~closed[s] /\ writes[s] # <<>> /\ WriteEnded(Head(writes[s]))
  /\ Done(Head(writes[s]), "failed")
  /\ writes' = [writes EXCEPT ![s] = Tail(@)]
  /\ UNCHANGED <<closed, ended, pending, response, cancelled, wire, faults>>

\* ... the rest is written, unless the other end is gone, and who gave up meanwhile closes this
\* one; ...
Write(s) ==
  /\ ~closed[s] /\ writes[s] # <<>>
  /\ LET f == Head(writes[s])
     IN IF closed[Other(s)]
        THEN Done(f, "failed") /\ Closes(s) /\ UNCHANGED <<writes, wire>>
        ELSE /\ Len(wire[s]) < MaxWire
             /\ wire' = [wire EXCEPT ![s] = Append(@, f)]
             /\ writes' = [writes EXCEPT ![s] = Tail(@)]
             /\ \/ Done(f, "ok") /\ ~WriteEnded(f) /\ UNCHANGED closed
                \/ Done(f, "failed") /\ WriteEnded(f) /\ Closes(s)
  /\ UNCHANGED <<ended, pending, response, cancelled, faults>>

\* ... and an end that cannot write in time closes.
Stalls(s) ==
  /\ ~closed[s] /\ writes[s] # <<>> /\ Len(wire[s]) = MaxWire
  /\ WriteEnded(Head(writes[s])) \/ faults > 0
  /\ faults' = IF WriteEnded(Head(writes[s])) THEN faults ELSE faults - 1
  /\ Done(Head(writes[s]), "failed") /\ Closes(s)
  /\ UNCHANGED <<ended, pending, response, cancelled, writes, wire>>

------------------------------------------------------------------------------
(* Call and Notify *)

SetCaller(c, pc, told) == caller' = [caller EXCEPT ![c].pc = pc, ![c].told = told]

Returns(c, told) ==
  /\ SetCaller(c, "returned", told)
  /\ pending' = [pending EXCEPT ![From(c)] = @ \ {c}]

Call(c) ==
  /\ At(c, "idle")
  /\ IF closed[From(c)] THEN Returns(c, "closed")
     ELSE IF Cardinality(pending[From(c)]) >= MaxPending THEN Returns(c, "busy")
     ELSE /\ pending' = [pending EXCEPT ![From(c)] = @ \cup {c}]
          /\ SetCaller(c, "enqueue", "nothing")
  /\ UNCHANGED <<closed, ended, response, handler, cancelled, writes, wire, faults>>

Notify(c) ==
  /\ At(c, "idle")
  /\ caller' = [caller EXCEPT ![c].pc = "enqueue", ![c].notice = TRUE]
  /\ UNCHANGED <<closed, ended, pending, response, handler, cancelled, writes, wire, faults>>

\* write has no room for WriteTimeout.
NoRoomInTime(s) == ~closed[s] /\ ~Room(s) /\ faults > 0 /\ faults' = faults - 1

RequestFrame(c) == Frame(IF caller[c].notice THEN "notice" ELSE "request", c, "call")

\* write, before the queue has room: the call was never sent.
Offer(c) ==
  /\ At(c, "enqueue")
  /\ \/ ended[c] /\ Returns(c, "unsent") /\ UNCHANGED <<writes, faults>>
     \/ NoRoomInTime(From(c)) /\ Returns(c, "unsent") /\ UNCHANGED writes
     \/ closed[From(c)] /\ Returns(c, "closed") /\ UNCHANGED <<writes, faults>>
     \/ /\ ~closed[From(c)] /\ Room(From(c)) /\ Queue(From(c), RequestFrame(c))
        /\ SetCaller(c, "queued", "nothing") /\ UNCHANGED <<pending, faults>>
  /\ UNCHANGED <<closed, ended, response, handler, cancelled, wire>>

\* write, in the queue: who does not wait until it is written closes the end.
Sent(c) ==
  /\ At(c, "queued")
  /\ \/ /\ caller[c].done = "ok" /\ ~caller[c].notice /\ SetCaller(c, "waiting", "nothing")
        /\ UNCHANGED <<pending, closed>>
     \/ caller[c].done = "ok" /\ caller[c].notice /\ Returns(c, "sent") /\ UNCHANGED closed
     \/ caller[c].done = "failed" /\ Returns(c, "ended") /\ UNCHANGED closed
     \/ ended[c] /\ Returns(c, "ended") /\ Closes(From(c))
     \/ closed[From(c)] /\ Returns(c, "closed") /\ UNCHANGED closed
  /\ UNCHANGED <<ended, response, handler, cancelled, writes, wire, faults>>

\* Mutant: who gives up only forgets the call.
ForgetOnly(c) == UNCHANGED <<closed, writes>>

TellOther(c) == Enqueue(From(c), Frame("cancel", c, "cancel"))

Answered(c) ==
  /\ At(c, "waiting")
  /\ \/ response[c] # "nothing" /\ Returns(c, response[c]) /\ UNCHANGED <<closed, writes>>
     \/ ended[c] /\ Returns(c, "ended") /\ TellOther(c)
     \/ closed[From(c)] /\ Returns(c, "closed") /\ UNCHANGED <<closed, writes>>
  /\ UNCHANGED <<ended, response, handler, cancelled, wire, faults>>

------------------------------------------------------------------------------
(* Serve *)

\* A notification that finds no handler free is dropped, and nobody is told.
Busy(s, f) ==
  /\ IF f.kind = "notice" THEN UNCHANGED <<closed, writes>>
     ELSE Enqueue(s, Frame("reply", f.call, "busy"))
  /\ UNCHANGED handler

Accept(s) ==
  /\ ~closed[s] /\ wire[Other(s)] # <<>>
  /\ wire' = [wire EXCEPT ![Other(s)] = Tail(@)]
  /\ LET f == Head(wire[Other(s)])
         c == f.call
     IN CASE f.kind \in {"request", "notice"} ->
               /\ IF Cardinality(Slots(s)) >= MaxHandlers THEN Busy(s, f)
                  ELSE /\ handler' = [handler EXCEPT ![c].pc = "started"]
                       /\ UNCHANGED <<closed, writes>>
               /\ UNCHANGED <<pending, response, cancelled>>
          [] f.kind = "reply" ->
               /\ pending' = [pending EXCEPT ![s] = @ \ {c}]
               /\ response' = IF c \in pending[s] THEN [response EXCEPT ![c] = f.what]
                              ELSE response
               /\ UNCHANGED <<closed, writes, handler, cancelled>>
          [] f.kind = "cancel" ->
               /\ cancelled' = IF Handling(c) THEN [cancelled EXCEPT ![c] = TRUE] ELSE cancelled
               /\ UNCHANGED <<closed, writes, pending, response, handler>>
  /\ UNCHANGED <<caller, ended, faults>>

\* The other end is gone, and all it wrote is read.
EndOfFile(s) ==
  /\ ~closed[s] /\ closed[Other(s)] /\ wire[Other(s)] = <<>>
  /\ Closes(s)
  /\ UNCHANGED <<caller, ended, pending, response, handler, cancelled, writes, wire, faults>>

SetHandler(c, pc) == handler' = [handler EXCEPT ![c].pc = pc]

\* dispatch: nothing is begun for who has given up; ...
Dispatch(c) ==
  /\ handler[c].pc = "started"
  /\ handler' = IF Cancelled(c) THEN [handler EXCEPT ![c].pc = "over"]
                ELSE [handler EXCEPT ![c] = [pc |-> "running", run |-> TRUE]]
  /\ UNCHANGED <<closed, caller, ended, pending, response, cancelled, writes, wire, faults>>

\* ... the handler comes to its end, at the latest when its context does; ...
Handle(c) ==
  /\ handler[c].pc = "running" /\ SetHandler(c, IF caller[c].notice THEN "over" ELSE "answer")
  /\ UNCHANGED <<closed, caller, ended, pending, response, cancelled, writes, wire, faults>>

\* ... and its answer is written while somebody waits for it.
Answer(c) ==
  LET s == Other(From(c))
  IN /\ handler[c].pc = "answer"
     /\ \/ Cancelled(c) /\ SetHandler(c, "over") /\ UNCHANGED <<writes, faults>>
        \/ NoRoomInTime(s) /\ SetHandler(c, "over") /\ UNCHANGED writes
        \/ /\ ~Cancelled(c) /\ Room(s) /\ Queue(s, Frame("reply", c, "result"))
           /\ SetHandler(c, "queued") /\ UNCHANGED faults
     /\ UNCHANGED <<closed, caller, ended, pending, response, cancelled, wire>>

\* Cancelled while its answer is in the queue: it closes the whole connection.
Abandon(c) ==
  /\ handler[c].pc = "queued" /\ Cancelled(c)
  /\ SetHandler(c, "over") /\ Closes(Other(From(c)))
  /\ UNCHANGED <<caller, ended, pending, response, cancelled, writes, wire, faults>>

------------------------------------------------------------------------------
(* Around the connection *)

ContextEnds(c) ==
  /\ ~ended[c] /\ caller[c].pc \notin {"idle", "returned"} /\ ended' = [ended EXCEPT ![c] = TRUE]
  /\ UNCHANGED <<closed, caller, pending, response, handler, cancelled, writes, wire, faults>>

\* Close, or the end of a process.
End(s) ==
  /\ ~closed[s] /\ faults > 0 /\ faults' = faults - 1 /\ Closes(s)
  /\ UNCHANGED <<caller, ended, pending, response, handler, cancelled, writes, wire>>

------------------------------------------------------------------------------
Init ==
  /\ closed = [s \in Ends |-> FALSE]
  /\ caller = [c \in Calls |-> [pc |-> "idle", notice |-> FALSE, done |-> "no",
                              told |-> "nothing"]]
  /\ ended = [c \in Calls |-> FALSE]
  /\ pending = [s \in Ends |-> {}]
  /\ response = [c \in Calls |-> "nothing"]
  /\ handler = [c \in Calls |-> [pc |-> "none", run |-> FALSE]]
  /\ cancelled = [c \in Calls |-> FALSE]
  /\ writes = [s \in Ends |-> <<>>] /\ wire = [s \in Ends |-> <<>>]
  /\ faults = MaxFaults

CallSteps(c) == Offer(c) \/ Sent(c) \/ Answered(c)
EndSteps(s) == Drop(s) \/ Write(s) \/ Accept(s) \/ EndOfFile(s)
HandlerSteps(c) == Dispatch(c) \/ Answer(c) \/ Abandon(c) \/ (Cancelled(c) /\ Handle(c))

Next ==
  \/ \E c \in Calls : Call(c) \/ Notify(c) \/ CallSteps(c) \/ ContextEnds(c)
  \/ \E c \in Calls : Dispatch(c) \/ Handle(c) \/ Answer(c) \/ Abandon(c)
  \/ \E s \in Ends : EndSteps(s) \/ Stalls(s) \/ End(s)

\* Goroutines run; a handler ends when its context does; both ends read.
Fairness ==
  /\ \A c \in Calls : WF_vars(CallSteps(c)) /\ WF_vars(HandlerSteps(c))
  /\ \A s \in Ends : WF_vars(EndSteps(s))

Spec == Init /\ [][Next]_vars /\ Fairness

------------------------------------------------------------------------------
TypeOK ==
  /\ \A c \in Calls :
       /\ caller[c].pc \in {"idle", "enqueue", "queued", "waiting", "returned"}
       /\ handler[c].pc \in {"none", "started", "running", "answer", "queued", "over"}
       /\ response[c] \in {"nothing", "result", "busy"}
  /\ \A s \in Ends : /\ Cardinality(pending[s]) <= MaxPending
                     /\ Cardinality(Slots(s)) <= MaxHandlers
                     /\ Len(writes[s]) <= MaxWrites /\ Len(wire[s]) <= MaxWire
                     /\ \A c \in pending[s] : ~At(c, "idle") /\ ~At(c, "returned")

\* What a caller is told is true: an answer comes from a handler that was run for the call,
\* and who was told that there is no capacity, or that nothing was sent, may try again.
ToldIsTrue ==
  \A c \in Calls : /\ caller[c].told = "result" => handler[c].run
                   /\ caller[c].told \in {"busy", "unsent"} => ~handler[c].run

GoesOn == \E c \in Calls : caller[c].told = "ended" /\ handler[c].pc \notin {"none", "over"}

\* A call that its caller gave up does not go on at the other end for ever (peer.go:190).
GivenUpEnds == []<>~GoesOn
=============================================================================
