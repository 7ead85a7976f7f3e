----------------------------- MODULE CodexClient -----------------------------
(* The Core's client of a Codex app server: a process started by the first call that needs *)
(* one, calls in flight by number, a reader per process, requests the process makes of the *)
(* user, and the end of all of it (codex/client.go).                                        *)
EXTENDS FiniteSets, Integers

CONSTANTS
  Callers,       \* goroutines that call, one call after the other
  Processes,     \* Bound: the processes there may be, 1..n in the order of their start
  MaxRequests,   \* Bound: the requests for input
  Answerers,     \* goroutines that answer such a request or cancel it
  Budgets        \* Bound: [calls, faults, requests]; faults are answers that come too late,
                 \* initialisations that fail and processes that end on their own

NoProcess == 0

VARIABLES
  cmd,             \* the process the client has, or NoProcess
  closed,
  process,         \* process[p]: "none", "runs", "killed" or, with its reader, "ended"
  exitDone,        \* the last process that was started
  nextID,
  pending,         \* the calls in flight: [id, by]
  channels,        \* what is in the channels of calls: [id, what]
  received,        \* received[p]: the numbers of the calls written to a process
  answers,         \* answers[p]: what the process wrote and its reader has not read
  reader,          \* reader[p]: a number taken out of pending, its answer not yet handed over
  caller,          \* caller[c]: a call under way: its number, the process it initialises, and
                   \* the one whose stdin it has for writing
  closer,          \* Close: "no", "waits", or what it returned
  serverRequests,  \* the request of a thread that is shown: [process, id, kind], or NoRequest
  answer,          \* answer[a]: an answer to one, or its rejection, under way: [pc, request]
  given,           \* given[r]: how often a request for input was answered
  left             \* the budget that is left

vars == <<cmd, closed, process, exitDone, nextID, pending, channels, received, answers, reader,
          caller, closer, serverRequests, answer, given, left>>

NoRequest == [process |-> NoProcess, id |-> 0, kind |-> "none"]

Idle == [pc |-> "idle", id |-> 0, own |-> NoProcess, to |-> NoProcess]
Silent == [pc |-> "idle", request |-> NoRequest]

Spend(what) == left[what] > 0 /\ left' = [left EXCEPT ![what] = @ - 1]

Set(c, v) == caller' = [caller EXCEPT ![c] = v]
Goes(c, pc) == Set(c, [caller[c] EXCEPT !.pc = pc])
At(c, pc) == caller[c].pc = pc

------------------------------------------------------------------------------
(* stopLocked *)

Running == IF cmd = NoProcess THEN FALSE ELSE process[cmd] = "runs"

HasSome(id) == \E x \in channels : x.id = id

Put(id, what) == channels \cup {[id |-> id, what |-> what]}

TellPending ==
  /\ channels' = channels \cup {[id |-> p.id, what |-> "stopped"] : p \in pending}
  /\ pending' = {} /\ cmd' = NoProcess /\ serverRequests' = NoRequest

\* The process is killed, and whoever waits is told.
Stop ==
  /\ process' = IF Running THEN [process EXCEPT ![cmd] = "killed"] ELSE process
  /\ TellPending

------------------------------------------------------------------------------
(* Start and callStarted *)

\* Mutant: a client that was closed starts another process.
MayStartAgain == TRUE

MayStart == ~closed

\* A process that is there will do, even one that is still to be initialised. A client that is
\* closed starts none, and one that cannot be started leaves the client as it was.
Start(c) ==
  /\ At(c, "idle") /\ Spend("calls")
  /\ \/ cmd # NoProcess /\ Goes(c, "register")
        /\ UNCHANGED <<cmd, process, exitDone, pending, serverRequests>>
     \/ cmd = NoProcess /\ Set(c, Idle)
        /\ UNCHANGED <<cmd, process, exitDone, pending, serverRequests>>
     \/ /\ cmd = NoProcess /\ MayStart
        /\ \E p \in Processes :
             /\ process[p] = "none" /\ \A q \in Processes : q < p => process[q] # "none"
             /\ process' = [process EXCEPT ![p] = "runs"]
             /\ cmd' = p /\ exitDone' = p
             /\ Set(c, [Idle EXCEPT !.pc = "register", !.own = p])
        /\ pending' = {} /\ serverRequests' = NoRequest
  /\ UNCHANGED <<closed, nextID, channels, received, answers, reader, closer, answer, given>>

Initialising(c) == caller[c].own # NoProcess

\* The call gets its number and its channel, ...
Register(c) ==
  /\ At(c, "register")
  /\ nextID' = nextID + 1
  /\ pending' = pending \cup {[id |-> nextID', by |-> c]}
  /\ Set(c, [caller[c] EXCEPT !.pc = "write", !.id = nextID'])
  /\ UNCHANGED <<cmd, closed, process, exitDone, channels, received, answers, reader, closer,
                 serverRequests, answer, given, left>>

Without(id) == {p \in pending : p.id # id}

\* Start's own call has failed: whatever process there is now is stopped.
Fails(c) ==
  IF Initialising(c) THEN Goes(c, "stop") ELSE Set(c, Idle)

\* ... takes the stdin of the process there is now, ...
TakeStdin(c) ==
  /\ At(c, "write")
  /\ \/ /\ cmd # NoProcess
        /\ Set(c, [caller[c] EXCEPT !.pc = "writing", !.to = cmd]) /\ UNCHANGED pending
     \/ /\ cmd = NoProcess
        /\ Fails(c) /\ pending' = Without(caller[c].id)
  /\ UNCHANGED <<cmd, closed, process, exitDone, nextID, channels, received, answers, reader,
                 closer, serverRequests, answer, given, left>>

\* ... is written to it, which fails once that process was stopped and may once it has died, ...
Write(c) ==
  /\ At(c, "writing")
  /\ LET p == caller[c].to
     IN \/ /\ p = cmd
           /\ Goes(c, "wait") /\ UNCHANGED pending
           /\ received' = IF process[p] = "runs"
                          THEN [received EXCEPT ![p] = @ \cup {caller[c].id}] ELSE received
        \/ /\ process[p] # "runs"
           /\ Fails(c) /\ pending' = Without(caller[c].id) /\ UNCHANGED received
  /\ UNCHANGED <<cmd, closed, process, exitDone, nextID, channels, answers, reader, closer,
                 serverRequests, answer, given, left>>

\* ... and waits for what comes into its channel: an answer, or that the process stopped.
Returns(c) ==
  /\ At(c, "wait")
  /\ \E x \in channels :
       /\ x.id = caller[c].id /\ channels' = channels \ {x}
       /\ \/ ~Initialising(c) /\ Set(c, Idle) /\ UNCHANGED left
          \/ Initialising(c) /\ x.what = "stopped" /\ Goes(c, "stop") /\ UNCHANGED left
          \/ Initialising(c) /\ x.what = "answer" /\ Set(c, [Idle EXCEPT !.pc = "register"])
             /\ UNCHANGED left
          \/ Initialising(c) /\ x.what = "answer" /\ Spend("faults") /\ Goes(c, "stop")
  /\ UNCHANGED <<cmd, closed, process, exitDone, nextID, pending, received, answers, reader,
                 closer, serverRequests, answer, given>>

\* Its time, or that of its context, is over.
TimesOut(c) ==
  /\ At(c, "wait") /\ Spend("faults")
  /\ pending' = Without(caller[c].id) /\ Fails(c)
  /\ UNCHANGED <<cmd, closed, process, exitDone, nextID, channels, received, answers, reader,
                 closer, serverRequests, answer, given>>

StopFailed(c) ==
  /\ At(c, "stop") /\ Stop /\ Set(c, Idle)
  /\ UNCHANGED <<closed, exitDone, nextID, received, answers, reader, closer, answer, given,
                 left>>

------------------------------------------------------------------------------
(* The process and its reader *)

Answers(p, id) ==
  /\ process[p] = "runs" /\ id \in received[p]
  /\ received' = [received EXCEPT ![p] = @ \ {id}]
  /\ answers' = [answers EXCEPT ![p] = @ \cup {id}]
  /\ UNCHANGED <<cmd, closed, process, exitDone, nextID, pending, channels, reader, caller,
                 closer, serverRequests, answer, given, left>>

Dies(p) ==
  /\ process[p] = "runs" /\ Spend("faults")
  /\ process' = [process EXCEPT ![p] = "killed"]
  /\ UNCHANGED <<cmd, closed, exitDone, nextID, pending, channels, received, answers, reader,
                 caller, closer, serverRequests, answer, given>>

Reads(p) == process[p] \in {"runs", "killed"} /\ reader[p] = 0

\* Mutant: the call stays in flight until its answer is handed over.
StaysPending(id) == pending

Taken(id) == Without(id)

\* Under stateMu: who waits for the number is found, and nobody else finds him; ...
ReadAnswer(p, id) ==
  /\ Reads(p) /\ id \in answers[p]
  /\ answers' = [answers EXCEPT ![p] = @ \ {id}]
  /\ reader' = IF \E q \in pending : q.id = id THEN [reader EXCEPT ![p] = id] ELSE reader
  /\ pending' = Taken(id)
  /\ UNCHANGED <<cmd, closed, process, exitDone, nextID, channels, received, caller, closer,
                 serverRequests, answer, given, left>>

\* ... without it: the channel has room for one.
HandsOver(p) ==
  /\ reader[p] # 0 /\ ~HasSome(reader[p])
  /\ channels' = Put(reader[p], "answer")
  /\ reader' = [reader EXCEPT ![p] = 0]
  /\ UNCHANGED <<cmd, closed, process, exitDone, nextID, pending, received, answers, caller,
                 closer, serverRequests, answer, given, left>>

\* The output of a process has ended, and what was left of it may be lost.
ReaderEnds(p) ==
  /\ process[p] = "killed" /\ reader[p] = 0
  /\ answers' = [answers EXCEPT ![p] = {}] /\ received' = [received EXCEPT ![p] = {}]
  /\ IF cmd = p THEN TellPending ELSE UNCHANGED <<channels, pending, cmd, serverRequests>>
  /\ process' = [process EXCEPT ![p] = "ended"]
  /\ UNCHANGED <<closed, exitDone, nextID, reader, caller, closer, answer, given, left>>

------------------------------------------------------------------------------
(* Requests for the user *)

\* Read from a process, also from one that is no longer the client's; the thread's last counts.
Asks(p) ==
  /\ Reads(p) /\ Spend("requests")
  /\ \E kind \in {"input", "approval"} :
       serverRequests' = [process |-> p, id |-> left.requests, kind |-> kind]
  /\ UNCHANGED <<cmd, closed, process, exitDone, nextID, pending, channels, received, answers,
                 reader, caller, closer, answer, given>>

\* serverRequest/resolved
Resolved(p) ==
  /\ Reads(p) /\ serverRequests.process = p
  /\ serverRequests' = NoRequest
  /\ UNCHANGED <<cmd, closed, process, exitDone, nextID, pending, channels, received, answers,
                 reader, caller, closer, answer, given, left>>

SetAnswer(a, v) == answer' = [answer EXCEPT ![a] = v]

Forgotten == NoRequest

\* AnswerBridgeUserInput takes the request, so that nobody else answers it; CancelBridgeApproval
\* only looks at it.
TakeRequest(a) ==
  /\ answer[a].pc = "idle" /\ serverRequests # NoRequest
  /\ SetAnswer(a, [pc |-> "write", request |-> serverRequests])
  /\ serverRequests' = IF serverRequests.kind = "input" THEN Forgotten ELSE serverRequests
  /\ UNCHANGED <<cmd, closed, process, exitDone, nextID, pending, channels, received, answers,
                 reader, caller, closer, given, left>>

\* The answer is written to the process there is now, whoever asked. An input whose answer could
\* not be written stays forgotten; a rejected approval is forgotten once that is written.
WriteAnswer(a) ==
  /\ answer[a].pc = "write"
  /\ LET r == answer[a].request
     IN /\ given' = IF Running /\ r.kind = "input" THEN [given EXCEPT ![r.id] = @ + 1] ELSE given
        /\ SetAnswer(a, IF Running /\ r.kind = "approval" THEN [answer[a] EXCEPT !.pc = "forget"]
                        ELSE Silent)
  /\ UNCHANGED <<cmd, closed, process, exitDone, nextID, pending, channels, received, answers,
                 reader, caller, closer, serverRequests, left>>

\* The turn is interrupted by a call like any other after it.
ForgetApproval(a) ==
  /\ answer[a].pc = "forget" /\ SetAnswer(a, Silent)
  /\ serverRequests' = IF serverRequests.id = answer[a].request.id THEN NoRequest
                       ELSE serverRequests
  /\ UNCHANGED <<cmd, closed, process, exitDone, nextID, pending, channels, received, answers,
                 reader, caller, closer, given, left>>

------------------------------------------------------------------------------
(* Close *)

Close ==
  /\ closer = "no"
  /\ closed' = TRUE /\ Stop
  /\ closer' = IF exitDone = NoProcess THEN "ok" ELSE "waits"
  /\ UNCHANGED <<exitDone, nextID, received, answers, reader, caller, answer, given, left>>

\* It waits for the process it knew, for five seconds.
Closed ==
  /\ closer = "waits"
  /\ \/ process[exitDone] = "ended" /\ closer' = "ok" /\ UNCHANGED left
     \/ Spend("faults") /\ closer' = "failed"
  /\ UNCHANGED <<cmd, closed, process, exitDone, nextID, pending, channels, received, answers,
                 reader, caller, serverRequests, answer, given>>

------------------------------------------------------------------------------
Init ==
  /\ cmd = NoProcess /\ closed = FALSE /\ exitDone = NoProcess /\ nextID = 0 /\ pending = {}
  /\ process = [p \in Processes |-> "none"]
  /\ channels = {} /\ serverRequests = NoRequest /\ answer = [a \in Answerers |-> Silent]
  /\ received = [p \in Processes |-> {}] /\ answers = received
  /\ reader = [p \in Processes |-> 0]
  /\ caller = [c \in Callers |-> Idle] /\ closer = "no"
  /\ given = [r \in 1..MaxRequests |-> 0]
  /\ left \in Budgets

Next ==
  \/ \E c \in Callers : \/ Start(c) \/ Register(c) \/ TakeStdin(c) \/ Write(c) \/ Returns(c)
                        \/ TimesOut(c) \/ StopFailed(c)
  \/ \E p \in Processes :
       \/ Dies(p) \/ HandsOver(p) \/ ReaderEnds(p) \/ Asks(p) \/ Resolved(p)
       \/ \E id \in received[p] : Answers(p, id)
       \/ \E id \in answers[p] : ReadAnswer(p, id)
  \/ \E a \in Answerers : TakeRequest(a) \/ WriteAnswer(a) \/ ForgetApproval(a)
  \/ Close \/ Closed

Spec == Init /\ [][Next]_vars

------------------------------------------------------------------------------
TypeOK ==
  /\ cmd \in Processes \cup {NoProcess} /\ closer \in {"no", "waits", "ok", "failed"}
  /\ \A p \in Processes : process[p] \in {"none", "runs", "killed", "ended"}
  /\ \A p \in pending : p.id \in 1..nextID /\ p.by \in Callers
  /\ \A x \in channels : x.id \in 1..nextID /\ x.what \in {"answer", "stopped"}

\* No process outlives the client's use of it: only the current one runs, none once the
\* client is closed, and who closed it without an error finds the last one ended, as
\* CreateDraftThread needs it (client.go:346).
OneProcess ==
  /\ \A p \in Processes : process[p] = "runs" => p = cmd
  /\ closed => cmd = NoProcess
  /\ closer = "ok" /\ exitDone # NoProcess => process[exitDone] = "ended"

\* No sender ever waits at a channel: one that did would hold stateMu, or be the reader that
\* everybody waits for. So a call is handed at most one answer.
HandedOnce ==
  /\ \A p \in pending : ~HasSome(p.id)
  /\ \A p \in Processes : reader[p] # 0 => ~HasSome(reader[p])
  /\ \A p, q \in Processes : reader[p] # 0 /\ p # q => reader[p] # reader[q]

\* A request for input is answered at most once, by however many that answer it.
AnsweredOnce == \A r \in 1..MaxRequests : given[r] <= 1
=============================================================================
