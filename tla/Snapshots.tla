------------------------------ MODULE Snapshots ------------------------------
(* The Feishu child's snapshot of itself and the Core's copy of it: a publisher that pushes *)
(* what has changed, reads that are answered beside it, a revision that is drawn when the   *)
(* snapshot is complete, and the copy, which keeps the highest revision of the connection   *)
(* it belongs to (ksf-assistant-feishu-bridge/private_rpc.go, main.go,                      *)
(* service/bridge_rpc.go, integration_gateway.go, service.go, feishu/supervisor.go).        *)
EXTENDS Integers

CONSTANTS
  MaxReads,    \* Bound: calls of fetchFeishuSnapshot at a time
  Slots,       \* Bound: pushes on their way at a time
  MaxChildren, \* Bound: generations of the child
  Budgets      \* Bound: [changes, reads]

None == 0
Blank == [rev |-> None, state |-> None, child |-> None]

\* The handshake of a generation goes by its number; the other reads follow.
Children == 1 .. MaxChildren
Readers == MaxChildren + 1 .. MaxChildren + MaxReads
Callers == Children \cup Readers

VARIABLES
  state,       \* what the child would say of itself, as the number of changes there were
  alive,       \* whether the current child's connection stands
  generation,  \* the supervisor's
  revision,    \* the child's counter
  previous,    \* the state the publisher pushed last, None at first
  publisher,   \* the snapshot it is making: [pc, state]
  push,        \* push[k]: a push on its way: [pc, snapshot]
  reader,      \* reader[c]: [pc, label, snapshot]; label is the epoch of its context
  cached,      \* feishuGeneration and lastFeishu
  left

vars == <<state, alive, generation, revision, previous, publisher, push, reader, cached, left>>

Spend(what) == left[what] > 0 /\ left' = [left EXCEPT ![what] = @ - 1]

NoPush == [pc |-> "none", snapshot |-> Blank]
Begun(pc, label) == [pc |-> pc, label |-> label, snapshot |-> Blank]
NoRead == Begun("idle", None)
Quiet == [pc |-> "idle", state |-> None]

IsCurrentGeneration(g) == alive /\ g = generation

------------------------------------------------------------------------------
(* The child *)

Change ==
  /\ Spend("changes") /\ state' = state + 1
  /\ UNCHANGED <<alive, generation, revision, previous, publisher, push, reader, cached>>

\* Bound: a tick that finds what the last one pushed, and only draws a revision, is left out.
Gather ==
  /\ alive /\ publisher.pc = "idle" /\ state # previous
  /\ publisher' = [pc |-> "gathered", state |-> state]
  /\ UNCHANGED <<state, alive, generation, revision, previous, push, reader, cached, left>>

Numbered(s) == [rev |-> revision + 1, state |-> s, child |-> generation]

\* The revision is drawn when the snapshot is complete, not when it was begun. What has come
\* back to what was pushed last is not pushed again.
Publish ==
  /\ alive /\ publisher.pc = "gathered" /\ publisher' = Quiet
  /\ revision' = revision + 1 /\ previous' = publisher.state
  /\ \E k \in Slots :
       /\ push[k].pc = "none"
       /\ push' = [push EXCEPT ![k] = [pc |-> "sent", snapshot |-> Numbered(publisher.state)]]
  /\ UNCHANGED <<state, alive, generation, reader, cached, left>>

\* The child of a read: bridge/snapshot/read is handled beside the publisher.
Reads(c) ==
  /\ reader[c].pc = "asked" /\ IsCurrentGeneration(reader[c].snapshot.child)
  /\ reader' = [reader EXCEPT ![c].pc = "gathered", ![c].snapshot.state = state]
  /\ UNCHANGED <<state, alive, generation, revision, previous, publisher, push, cached, left>>

Answers(c) ==
  /\ reader[c].pc = "gathered" /\ IsCurrentGeneration(reader[c].snapshot.child)
  /\ revision' = revision + 1
  /\ reader' = [reader EXCEPT ![c].pc = "answered",
                              ![c].snapshot = Numbered(reader[c].snapshot.state)]
  /\ UNCHANGED <<state, alive, generation, previous, publisher, push, cached, left>>

------------------------------------------------------------------------------
(* The supervisor *)

\* The connection closes, Stop begins, or the handshake has failed (connected).
ChildEnds ==
  /\ alive /\ generation < MaxChildren /\ alive' = FALSE /\ publisher' = Quiet
  /\ UNCHANGED <<state, generation, revision, previous, push, reader, cached, left>>

\* A new child numbers from one. Its handshake is a goroutine of its own, which may run beside
\* that of the generation before it.
NewChild ==
  /\ ~alive /\ generation < MaxChildren
  /\ alive' = TRUE /\ generation' = generation + 1 /\ revision' = 0 /\ previous' = None
  /\ reader' = [reader EXCEPT ![generation + 1] = Begun("connecting", generation + 1)]
  /\ UNCHANGED <<state, publisher, push, cached, left>>

\* Whether Supervisor.Call goes out: to the child of this moment, under a context that has no
\* epoch or that child's.
MayCall(c) == alive /\ reader[c].label \in {None, generation}

Call(c) ==
  /\ reader[c].pc = "labelled" /\ MayCall(c)
  /\ reader' = [reader EXCEPT ![c].pc = "asked", ![c].snapshot.child = generation]
  /\ UNCHANGED <<state, alive, generation, revision, previous, publisher, push, cached, left>>

\* No child to ask, or the one that was asked has gone: an answer of its is dropped, too.
CallFails(c) ==
  /\ \/ reader[c].pc = "labelled" /\ ~MayCall(c)
     \/ /\ reader[c].pc \in {"asked", "gathered", "answered"}
        /\ ~IsCurrentGeneration(reader[c].snapshot.child)
  /\ reader' = [reader EXCEPT ![c] = NoRead]
  /\ UNCHANGED <<state, alive, generation, revision, previous, publisher, push, cached, left>>

------------------------------------------------------------------------------
(* The Core *)

\* connectManagedBridge looks at the generation first, without the lock.
ConnectChecks(g) ==
  /\ reader[g].pc = "connecting"
  /\ reader' = [reader EXCEPT ![g] = IF IsCurrentGeneration(g)
                                     THEN [@ EXCEPT !.pc = "connect"] ELSE NoRead]
  /\ UNCHANGED <<state, alive, generation, revision, previous, publisher, push, cached, left>>

Newer(g) == g >= cached.generation

\* With the lock: the copy belongs to this connection from here on, unless a later one has it.
\* The child is initialized by a call before the one that reads (as Call and CallFails).
Connect(g) ==
  /\ reader[g].pc = "connect"
  /\ IF Newer(g)
     THEN /\ cached' = [generation |-> g, last |-> Blank]
          /\ reader' = [reader EXCEPT ![g].pc = "labelled"]
     ELSE reader' = [reader EXCEPT ![g] = NoRead] /\ UNCHANGED cached
  /\ UNCHANGED <<state, alive, generation, revision, previous, publisher, push, left>>

\* fetchFeishuSnapshot, at any time: for the configuration, and for a dashboard when the copy is
\* empty or was cleared (which forgets its age alone). The generation is read before the call.
Fetch(c) ==
  /\ c \in Readers /\ reader[c].pc = "idle" /\ Spend("reads")
  /\ reader' = [reader EXCEPT ![c] = Begun("labelled", generation)]
  /\ UNCHANGED <<state, alive, generation, revision, previous, publisher, push, cached>>

\* HandlePrivateRPC, first look: without the lock. Call has looked just before, and for the
\* handshake connectManagedBridge: what they let pass and this one does not ends the same way.
CheckRead(c) ==
  /\ reader[c].pc = "answered"
  /\ reader' = [reader EXCEPT ![c] = IF IsCurrentGeneration(@.label)
                                     THEN [@ EXCEPT !.pc = "checked"] ELSE NoRead]
  /\ UNCHANGED <<state, alive, generation, revision, previous, publisher, push, cached, left>>

\* bindHandler's look, and HandlePrivateRPC's after it.
CheckPush(k) ==
  /\ push[k].pc = "sent"
  /\ push' = [push EXCEPT ![k] = IF IsCurrentGeneration(@.snapshot.child)
                                 THEN [@ EXCEPT !.pc = "checked"] ELSE NoPush]
  /\ UNCHANGED <<state, alive, generation, revision, previous, publisher, reader, cached, left>>

\* Mutant: the generation is not looked at again with the lock held.
CheckedBefore(label) == TRUE

CheckedAgain(label) == label = cached.generation

\* Under the lock: the connection the copy belongs to, then the revision.
Keep(label, snapshot) ==
  cached' = IF CheckedAgain(label) /\ snapshot.rev > cached.last.rev
            THEN [cached EXCEPT !.last = snapshot] ELSE cached

StoreRead(c) ==
  /\ reader[c].pc = "checked" /\ Keep(reader[c].label, reader[c].snapshot)
  /\ reader' = [reader EXCEPT ![c] = NoRead]
  /\ UNCHANGED <<state, alive, generation, revision, previous, publisher, push, left>>

StorePush(k) ==
  /\ push[k].pc = "checked" /\ Keep(push[k].snapshot.child, push[k].snapshot)
  /\ push' = [push EXCEPT ![k] = NoPush]
  /\ UNCHANGED <<state, alive, generation, revision, previous, publisher, reader, left>>

------------------------------------------------------------------------------
Init ==
  /\ state = 1 /\ alive = FALSE /\ generation = 0 /\ revision = 0 /\ previous = None
  /\ publisher = Quiet /\ push = [k \in Slots |-> NoPush] /\ reader = [c \in Callers |-> NoRead]
  /\ cached = [generation |-> 0, last |-> Blank] /\ left \in Budgets

CallSteps(c) ==
  Reads(c) \/ Answers(c) \/ Call(c) \/ CallFails(c) \/ CheckRead(c) \/ StoreRead(c)

PushSteps(k) == CheckPush(k) \/ StorePush(k)

Next ==
  \/ Change \/ Gather \/ Publish \/ ChildEnds \/ NewChild
  \/ \E g \in Children : ConnectChecks(g) \/ Connect(g)
  \/ \E c \in Callers : Fetch(c) \/ CallSteps(c)
  \/ \E k \in Slots : PushSteps(k)

Spec == Init /\ [][Next]_vars

------------------------------------------------------------------------------
\* Every variable has its type, and speaks of no child there was not.
Snapshot == [rev : Nat, state : Nat, child : 0 .. generation]

TypeOK ==
  /\ state \in Nat /\ alive \in BOOLEAN /\ generation \in Nat
  /\ revision \in Nat /\ previous \in Nat
  /\ publisher \in [pc : {"idle", "gathered"}, state : Nat]
  /\ push \in [Slots -> [pc : {"none", "sent", "checked"}, snapshot : Snapshot]]
  /\ reader \in [Callers ->
       [pc : {"idle", "connecting", "connect", "labelled", "asked", "gathered", "answered",
              "checked"},
        label : 0 .. generation, snapshot : Snapshot]]
  /\ cached \in [generation : 0 .. generation, last : Snapshot]
  /\ left \in [{"changes", "reads"} -> Nat]

\* What the Core shows was said by the child its copy belongs to, never by one before it,
\* whichever of its snapshots are still on their way (bridge_rpc.go:54); and once a later
\* handshake has the copy, one it overtook does not take it back (integration_gateway.go:34).
OldNeverLands ==
  /\ cached.last.rev # None => cached.last.child = cached.generation
  /\ \A g \in Children :
       reader[g].pc \notin {"idle", "connecting", "connect"} => cached.generation >= g

==============================================================================
