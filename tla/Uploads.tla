------------------------------- MODULE Uploads -------------------------------
(* Inputs too large for one frame: a client sends them in chunks over its session with the  *)
(* local gateway, which gathers them in bounded memory and runs the request once            *)
(* (localipc/gateway.go, feishucli/upload.go, UPLOAD.md).                                    *)
EXTENDS FiniteSets, Integers

CONSTANTS
  Clients,
  MaxClients,    \* of the gateway
  MaxTransfers,  \* UploadTransferLimit
  MaxBytes,      \* UploadMemoryLimit, in the units of the two that follow
  Cost,          \* what a transfer reserves
  Scratch,       \* uploadScratchCharge: what a control message reserves while it is handled
  Decoders,      \* uploadDecoders
  Chunks,        \* the chunks of a request
  Budgets        \* Bound: [uploads, ends, drops, repeats, closes]; ends are those of a caller's
                 \* context, repeats are finishes and aborts sent beside another call

NoTransfer == 0

VARIABLES
  server,    \* closed: the gateway is closing
  conn,      \* conn[c]: "none", "waiting", "accepted", "admitted", "open" or "gone"
  client,    \* client[c]: an upload under way: [pc, transfer, sent, reply]
  calls,     \* control messages: [by, n, kind, transfer, offset, pc, waited, beside]
  transfer,  \* transfer[t]: [pc, owner, received, due]
  bytes,     \* processUploads
  slots,
  runs,      \* runs[t]: how often the request was given to the next handler
  told,      \* told[t]: what a client was told of a transfer, the first word that decides
  left

vars == <<server, conn, client, calls, transfer, bytes, slots, runs, told, left>>

Ids == DOMAIN transfer
Spend(what) == left[what] > 0 /\ left' = [left EXCEPT ![what] = @ - 1]

Idle == [pc |-> "idle", transfer |-> NoTransfer, sent |-> 0, reply |-> "none"]

Peers == {c \in Clients : conn[c] \in {"admitted", "open"}}
Lives(c) == conn[c] = "open"

------------------------------------------------------------------------------
(* The gateway *)

Dial(c) ==
  /\ conn[c] = "none" /\ ~server /\ conn' = [conn EXCEPT ![c] = "waiting"]
  /\ UNCHANGED <<server, client, calls, transfer, bytes, slots, runs, told, left>>

\* The loop has one connection in its hands, ...
Accept(c) ==
  /\ conn[c] = "waiting" /\ ~server /\ \A d \in Clients : conn[d] # "accepted"
  /\ conn' = [conn EXCEPT ![c] = "accepted"]
  /\ UNCHANGED <<server, client, calls, transfer, bytes, slots, runs, told, left>>

MayEnter == ~server /\ Cardinality(Peers) < MaxClients

\* ... and looks at the limit and at the closing with the lock.
Admit(c) ==
  /\ conn[c] = "accepted"
  /\ conn' = [conn EXCEPT ![c] = IF MayEnter THEN "admitted" ELSE "gone"]
  /\ UNCHANGED <<server, client, calls, transfer, bytes, slots, runs, told, left>>

Hello(c) ==
  /\ conn[c] = "admitted" /\ conn' = [conn EXCEPT ![c] = "open"]
  /\ UNCHANGED <<server, client, calls, transfer, bytes, slots, runs, told, left>>

\* With the connection the calls that wait on it end, and those nobody has begun.
Ends(cs) ==
  /\ conn' = [c \in Clients |-> IF c \in cs THEN "gone" ELSE conn[c]]
  /\ client' = [c \in Clients |-> IF c \in cs THEN Idle ELSE client[c]]
  /\ calls' = {[k EXCEPT !.waited = @ /\ k.by \notin cs] :
                 k \in {k \in calls : k.by \notin cs \/ k.pc # "sent"}}

Drop(c) ==
  /\ c \in Peers /\ Spend("drops") /\ Ends({c})
  /\ UNCHANGED <<server, transfer, bytes, slots, runs, told>>

\* Close: the peers there are, and the ones that wait for the listener.
Close ==
  /\ ~server /\ Spend("closes") /\ server' = TRUE
  /\ Ends(Peers \cup {c \in Clients : conn[c] = "waiting"})
  /\ UNCHANGED <<transfer, bytes, slots, runs, told>>

------------------------------------------------------------------------------
(* The client: CallRequest *)

\* The number of a call is of no other that its session has under way.
Number(c) == CHOOSE n \in 0..Cardinality(calls) : \A k \in calls : k.by = c => k.n # n

Message(c, kind, v, waited) ==
  [by |-> c, n |-> Number(c), kind |-> kind, transfer |-> v.transfer, offset |-> v.sent,
   pc |-> "sent", waited |-> waited, beside |-> ~waited]

Sends(c, kind, value) ==
  /\ client' = [client EXCEPT ![c] = [value EXCEPT !.pc = kind, !.reply = "none"]]
  /\ calls' = calls \cup {Message(c, kind, value, TRUE)}

Upload(c) ==
  /\ Lives(c) /\ client[c].pc = "idle" /\ Spend("uploads")
  /\ Sends(c, "start", Idle)
  /\ UNCHANGED <<server, conn, transfer, bytes, slots, runs, told>>

\* An answer: the next chunk, the finish, or, after a failure, the abort.
Decided(t, what) == told' = IF told[t] = "nothing" THEN [told EXCEPT ![t] = what] ELSE told

Goes(c) ==
  LET v == client[c]
      more == v.sent < Chunks
  IN /\ Lives(c) /\ v.reply # "none"
     /\ \/ /\ v.reply = "ok" /\ v.pc \in {"start", "chunk"}
           /\ Sends(c, IF more THEN "chunk" ELSE "finish", v) /\ UNCHANGED told
        \/ /\ v.reply = "ok" /\ v.pc \in {"finish", "abort"}
           /\ Decided(v.transfer, IF v.pc = "finish" THEN "done" ELSE "aborted")
           /\ client' = [client EXCEPT ![c] = Idle] /\ UNCHANGED calls
        \/ /\ v.reply = "failed" /\ v.pc \in {"chunk", "finish"}
           /\ Sends(c, "abort", v) /\ UNCHANGED told
        \/ /\ v.reply = "failed" /\ v.pc \in {"start", "abort"}
           /\ client' = [client EXCEPT ![c] = Idle] /\ UNCHANGED <<calls, told>>
     /\ UNCHANGED <<server, conn, transfer, bytes, slots, runs, left>>

\* The context of a call is over; the gateway may have begun with it, or not know yet.
ContextEnds(c) ==
  /\ Lives(c) /\ client[c].pc # "idle" /\ client[c].reply = "none" /\ Spend("ends")
  /\ LET forgotten == {[k EXCEPT !.waited = @ /\ k.by # c] : k \in calls}
     IN IF client[c].pc \in {"chunk", "finish"}
        THEN /\ client' = [client EXCEPT ![c].pc = "abort"]
             /\ calls' = forgotten \cup {Message(c, "abort", client[c], TRUE)}
        ELSE client' = [client EXCEPT ![c] = Idle] /\ calls' = forgotten
  /\ UNCHANGED <<server, conn, transfer, bytes, slots, runs, told>>

\* Whoever has the session and the ID may finish or abort at any time. Bound: one at a time.
Repeats(c, kind) ==
  /\ Lives(c) /\ client[c].transfer # NoTransfer /\ Spend("repeats")
  /\ \A k \in calls : ~(k.beside /\ k.kind = kind)
  /\ calls' = calls \cup {Message(c, kind, client[c], FALSE)}
  /\ UNCHANGED <<server, conn, client, transfer, bytes, slots, runs, told>>

------------------------------------------------------------------------------
(* uploadHandler *)

Moves(k, pc) == calls' = (calls \ {k}) \cup {[k EXCEPT !.pc = pc]}

Begun == {k \in calls : k.pc # "sent"}

\* The answer to who still waits; with it a client learns the ID, and how much was taken.
Replies(k, what, t) ==
  client' = IF k.waited
            THEN [client EXCEPT ![k.by].reply = what, ![k.by].transfer = t,
                                ![k.by].sent = @ + (IF k.kind = "chunk" /\ what = "ok"
                                                    THEN 1 ELSE 0)]
            ELSE client

Done(k, what, t) == calls' = calls \ {k} /\ Replies(k, what, t)

\* HandlePrivateRPC: a decoder and the scratch memory, or it is busy.
Begin(k) ==
  /\ k.pc = "sent"
  /\ IF Cardinality(Begun) < Decoders /\ bytes + Scratch <= MaxBytes
     THEN /\ Moves(k, "begun") /\ UNCHANGED client
          /\ bytes' = bytes + Scratch
     ELSE Done(k, "failed", k.transfer) /\ UNCHANGED bytes
  /\ UNCHANGED <<server, conn, transfer, slots, runs, told, left>>

\* The cancellation overtook the call.
Cancelled(k) ==
  /\ k.pc = "sent" /\ ~k.waited /\ calls' = calls \ {k}
  /\ UNCHANGED <<server, conn, client, transfer, bytes, slots, runs, told, left>>

\* The reservation of a transfer is given back with the transfer.
Remove(t) == transfer' = [transfer EXCEPT ![t].pc = "gone"]

Opened(c) == [pc |-> "open", owner |-> c, received |-> 0, due |-> FALSE]

Start(k) ==
  /\ k.pc = "begun" /\ k.kind = "start"
  /\ IF bytes + Cost <= MaxBytes /\ slots < MaxTransfers /\ Lives(k.by)
     THEN \E t \in Ids :
            /\ transfer[t].pc = "none" /\ \A u \in Ids : u < t => transfer[u].pc # "none"
            /\ transfer' = [transfer EXCEPT ![t] = Opened(k.by)]
            /\ bytes' = bytes + Cost - Scratch /\ slots' = slots + 1 /\ Done(k, "ok", t)
     ELSE /\ bytes' = bytes - Scratch /\ Done(k, "failed", NoTransfer)
          /\ UNCHANGED <<transfer, slots>>
  /\ UNCHANGED <<server, conn, runs, told, left>>

\* owned: of this connection, in the table, and in time.
InTable(t) == t # NoTransfer /\ transfer[t].pc = "open"
Owned(k) == InTable(k.transfer) /\ transfer[k.transfer].owner = k.by
Good(k) == Owned(k) /\ Lives(k.by) /\ ~transfer[k.transfer].due

Gives(n) == bytes' = bytes - n * Cost - Scratch /\ slots' = slots - n

Fails(k) ==
  /\ Done(k, "failed", k.transfer)
  /\ IF Owned(k) THEN Remove(k.transfer) /\ Gives(1) ELSE UNCHANGED transfer /\ Gives(0)

Chunk(k) ==
  /\ k.pc = "begun" /\ k.kind = "chunk"
  /\ IF Good(k) /\ k.offset = transfer[k.transfer].received
     THEN /\ transfer' = [transfer EXCEPT ![k.transfer].received = @ + 1]
          /\ Gives(0) /\ Done(k, "ok", k.transfer)
     ELSE Fails(k)
  /\ UNCHANGED <<server, conn, runs, told, left>>

Abort(k) ==
  /\ k.pc = "begun" /\ k.kind = "abort"
  /\ IF Good(k) THEN Remove(k.transfer) /\ Gives(1) /\ Done(k, "ok", k.transfer) ELSE Fails(k)
  /\ UNCHANGED <<server, conn, runs, told, left>>

\* Mutant: the transfer stays in the table while its request runs.
StaysInTable(t) == UNCHANGED transfer

Detach(t) == transfer' = [transfer EXCEPT ![t].pc = "detached"]

\* Out of the table, with its memory; ...
Finish(k) ==
  /\ k.pc = "begun" /\ k.kind = "finish"
  /\ IF Good(k) /\ transfer[k.transfer].received = Chunks
     THEN /\ Detach(k.transfer)
          /\ Moves(k, "running")
          /\ UNCHANGED <<client, bytes, slots>>
     ELSE Fails(k)
  /\ UNCHANGED <<server, conn, runs, told, left>>

\* ... unless the connection or the call has ended the request runs, well or not, and then both
\* are given back.
Run(k) ==
  /\ k.pc = "running"
  /\ \/ /\ Lives(k.by) /\ runs' = [runs EXCEPT ![k.transfer] = @ + 1]
        /\ \E what \in {"ok", "failed"} : Done(k, what, k.transfer)
     \/ ~k.waited /\ UNCHANGED runs /\ Done(k, "failed", k.transfer)
  /\ Remove(k.transfer) /\ Gives(1)
  /\ UNCHANGED <<server, conn, told, left>>

\* Idle for 30 seconds, or two minutes old.
Passes(t) ==
  /\ transfer[t].pc = "open" /\ ~transfer[t].due
  /\ transfer' = [transfer EXCEPT ![t].due = TRUE]
  /\ UNCHANGED <<server, conn, client, calls, bytes, slots, runs, told, left>>

StillThere(t) == InTable(t)

\* expire and discard: each takes the lock and looks whether the transfer is still there.
Discard(t) ==
  /\ StillThere(t) /\ (transfer[t].due \/ ~Lives(transfer[t].owner))
  /\ Remove(t) /\ bytes' = bytes - Cost /\ slots' = slots - 1
  /\ UNCHANGED <<server, conn, client, calls, runs, told, left>>

------------------------------------------------------------------------------
Init ==
  /\ server = FALSE /\ conn = [c \in Clients |-> "none"] /\ client = [c \in Clients |-> Idle]
  /\ calls = {} /\ bytes = 0 /\ slots = 0 /\ left \in Budgets
  /\ transfer = [t \in 1..left.uploads |-> [pc |-> "none", owner |-> CHOOSE c \in Clients : TRUE,
                                            received |-> 0, due |-> FALSE]]
  /\ runs = [t \in Ids |-> 0] /\ told = [t \in Ids |-> "nothing"]

Handles(k) == Begin(k) \/ Start(k) \/ Chunk(k) \/ Abort(k) \/ Finish(k) \/ Run(k)

Next ==
  \/ Close
  \/ \E c \in Clients :
       \/ Dial(c) \/ Accept(c) \/ Admit(c) \/ Hello(c) \/ Drop(c)
       \/ Upload(c) \/ Goes(c) \/ ContextEnds(c) \/ Repeats(c, "finish") \/ Repeats(c, "abort")
  \/ \E k \in calls : Handles(k) \/ Cancelled(k)
  \/ \E t \in Ids : Passes(t) \/ Discard(t)

Spec == Init /\ [][Next]_vars

------------------------------------------------------------------------------
TypeOK ==
  /\ bytes \in 0..MaxBytes /\ slots \in 0..MaxTransfers
  /\ \A c \in Clients : client[c].transfer \in Ids \cup {NoTransfer}

Held == {t \in Ids : transfer[t].pc \in {"open", "detached"}}

\* The memory that is reserved is that of the transfers there are and of the messages that are
\* being handled, whichever way a transfer ends: finished, aborted, too late, or with its
\* connection (upload.go:78).
MemoryIsHeld ==
  /\ slots = Cardinality(Held)
  /\ bytes = Cost * Cardinality(Held) + Scratch * Cardinality(Begun)

\* A request runs once at most, once if its client was told so, and never if the client was
\* told that it was given up (UPLOAD.md: "concurrent or later finishes cannot replay").
RunsAreTrue ==
  \A t \in Ids : /\ runs[t] <= 1
                 /\ told[t] = "done" => runs[t] = 1
                 /\ told[t] = "aborted" => runs[t] = 0
==============================================================================
