----------------------------- MODULE EventInbox -----------------------------
(***************************************************************************)
(* The durable event inbox of the Core integration runtime                 *)
(* (Core/internal/integration: event_inbox.go, event_execution.go,         *)
(* event_receipts.go, event_review.go), on top of privatestore/json.go.    *)
(*                                                                         *)
(* An event handed over by the Feishu child is written to the inbox file   *)
(* before it is acknowledged.  One worker per partition claims the oldest  *)
(* pending record, runs its handler, and settles the record.  Before the   *)
(* first call with an outside effect the record is durably moved to phase  *)
(* "executing"; a restart replays what is still "preparing" and never what *)
(* is "executing".  Old settled records are compacted into one receipt     *)
(* file each, which is written before the record leaves the inbox file.    *)
(*                                                                         *)
(* The inbox file is an ordered slice with unique ids; it is a function    *)
(* from ids to records here, ordered by the field at.  There are three     *)
(* copies: mem (inbox.file), disk (integration-events-v1.json) and arch    *)
(* (integration-event-receipts-v1).  A write of a file may fail before or  *)
(* after it replaced the target (WriteJSON renames, then chmods).  Times   *)
(* are abstracted: wait says that RetryAt lies in the future, aged holds   *)
(* the ids whose settled record is older than the dedupe retention.        *)
(***************************************************************************)
EXTENDS Naturals, FiniteSets

CONSTANTS
  Ids,            \* event ids
  Digests,        \* payload fingerprints
  Deliveries,     \* the <<id, digest>> pairs the transport delivers
  Parts,          \* partitions (eventWorkerCount = 4 in the code)
  PartOf,         \* the partition of an <<id, digest>>: the hashed conversation
  Capacity,       \* eventInboxMaxRecords = 2048
  RecentReceipts, \* recentEventReceipts = 64
  MaxAttempts,    \* 5: claims before a preparing failure is final
  MaxFaults,      \* bound on failing writes
  MaxCrashes,     \* bound on crashes of the Core process
  NoEvent,        \* no record in a file
  NoId            \* no record held by a worker

ASSUME DeliveriesAssumption == Deliveries \subseteq Ids \X Digests
ASSUME PartOfAssumption == PartOf \in [Ids \X Digests -> Parts]
ASSUME BoundsAssumption ==
  /\ Capacity \in Nat /\ RecentReceipts \in Nat /\ MaxAttempts \in Nat
  /\ MaxFaults \in Nat /\ MaxCrashes \in Nat
ASSUME IdsAssumption == IsFiniteSet(Ids)

States == {"pending", "running", "completed", "failed", "outcome_unknown"}
TerminalStates == {"completed", "failed", "outcome_unknown"}
Phases == {"none", "preparing", "executing"}
Results == {"ok", "rejected", "error"}

\* exhausted stands for LastError = "pre_execution_retries_exhausted".
InboxEvent ==
  [digest : Digests, at : Nat, state : States, phase : Phases, attempts : Nat,
   wait : BOOLEAN, payload : BOOLEAN, exhausted : BOOLEAN]

ASSUME NoEventAssumption == NoEvent \notin InboxEvent
ASSUME NoIdAssumption == NoId \notin Ids

Nothing == [i \in Ids |-> NoEvent]

VARIABLES
  mem,      \* inbox.file of the running process
  disk,     \* the inbox file
  arch,     \* the receipt files
  unknown,  \* inbox.unknownReceipts, behind Health()
  up,       \* the process runs and has loaded the inbox
  stage,    \* per worker: idle, handling, granted (begin returned nil), finishing
  holds,    \* per worker: the id of its record
  result,   \* per worker: what the handler returned
  nextAt,   \* the next position in the file
  aged,     \* ids past the retention
  acked,    \* history: <<id, digest>> acknowledged to the transport
  effects,  \* history: <<id, attempt>> that reached an outside effect
  settled,  \* history: the outcome a finish or a restart reported durable
  faults, crashes

files == <<mem, disk, arch, unknown>>
workers == <<stage, holds, result>>
vars == <<files, up, workers, nextAt, aged, acked, effects, settled, faults, crashes>>

----------------------------------------------------------------------------
(* Records.                                                                *)

Terminal(r) == r # NoEvent /\ r.state \in TerminalStates
Active(r) == r # NoEvent /\ r.state \notin TerminalStates
NeedsReview(r) == r # NoEvent /\ (r.state = "outcome_unknown" \/ r.exhausted)
Partition(i, r) == PartOf[<<i, r.digest>>]

\* What is reported of a settled record.
Outcome(r) == IF r.exhausted THEN "exhausted" ELSE r.state

TerminalIds(f) == {i \in Ids : Terminal(f[i])}
Remove(f, A) == [i \in Ids |-> IF i \in A THEN NoEvent ELSE f[i]]
Expired(f) == {i \in aged : Terminal(f[i])}

\* What a reader of the two stores finds: a receipt wins over the inbox file.
Durable(i) == IF arch[i] # NoEvent THEN arch[i] ELSE disk[i]

----------------------------------------------------------------------------
(* Writing.  compact archives the oldest settled records of f until at     *)
(* most RecentReceipts remain and the file fits its size limit; sizes are  *)
(* not modelled, so any longer prefix of the settled records may go too.   *)

OldestFirst(f, A) ==
  /\ A \subseteq TerminalIds(f)
  /\ \A a \in A, b \in TerminalIds(f) \ A : f[a].at < f[b].at

NoConflict(f, receipts, A) ==
  \A i \in A : receipts[i] # NoEvent =>
    receipts[i].digest = f[i].digest /\ receipts[i].state = f[i].state

\* Mutant: the records leave the file without their receipts.
ArchiveNothing(f, receipts, A) == receipts

Archive(f, receipts, A) ==
  [i \in Ids |-> IF i \in A /\ receipts[i] = NoEvent THEN f[i] ELSE receipts[i]]

Reviewed(f, A) == {i \in A : NeedsReview(f[i])}

Compacted(f, receipts, A) ==
  /\ OldestFirst(f, A)
  /\ NoConflict(f, receipts, A)
  /\ Cardinality(TerminalIds(f) \ A) <= RecentReceipts

\* save(f) returned nil.
SaveOk(f, receipts, reviews) ==
  \E A \in SUBSET Ids :
    /\ Compacted(f, receipts, A)
    /\ arch' = Archive(f, receipts, A)
    /\ unknown' = reviews \cup Reviewed(f, A)
    /\ mem' = Remove(f, A)
    /\ disk' = Remove(f, A)
    /\ UNCHANGED faults

\* save(f) returned an error: an archive write failed (its file may be there,
\* its review mark is not), or the inbox write did (the file may be replaced).
SaveFailed(f, receipts, reviews) ==
  /\ faults < MaxFaults
  /\ faults' = faults + 1
  /\ mem' = mem
  /\ \E A, B \in SUBSET Ids :
       /\ B \subseteq A /\ Cardinality(A \ B) <= 1
       /\ OldestFirst(f, A) /\ OldestFirst(f, B)
       /\ NoConflict(f, receipts, A)
       /\ arch' = Archive(f, receipts, A)
       /\ unknown' = reviews \cup Reviewed(f, B)
       /\ \/ disk' = disk
          \/ A = B /\ Compacted(f, receipts, A) /\ disk' = Remove(f, A)

----------------------------------------------------------------------------
Init ==
  /\ mem = Nothing /\ disk = Nothing /\ arch = Nothing /\ unknown = {}
  /\ up = TRUE
  /\ stage = [p \in Parts |-> "idle"]
  /\ holds = [p \in Parts |-> NoId]
  /\ result = [p \in Parts |-> "ok"]
  /\ nextAt = 0
  /\ aged = {} /\ acked = {} /\ effects = {}
  /\ settled = [i \in Ids |-> "none"]
  /\ faults = 0 /\ crashes = 0

----------------------------------------------------------------------------
(* AcceptEvent.                                                            *)

NewEvent(d) ==
  [digest |-> d, at |-> nextAt, state |-> "pending", phase |-> "none",
   attempts |-> 0, wait |-> FALSE, payload |-> TRUE, exhausted |-> FALSE]

AcceptNew(i, d) ==
  LET kept == Remove(mem, Expired(mem))
      f == [kept EXCEPT ![i] = NewEvent(d)]
  IN /\ up
     /\ mem[i] = NoEvent /\ arch[i] = NoEvent
     /\ Cardinality({j \in Ids : Active(kept[j])}) < Capacity
     /\ \/ SaveOk(f, arch, unknown) /\ acked' = acked \cup {<<i, d>>}
        \/ SaveFailed(f, arch, unknown) /\ UNCHANGED acked
     /\ nextAt' = nextAt + 1
     /\ UNCHANGED <<up, workers, aged, effects, settled, crashes>>

\* A known id: accepted again under the same digest, refused under another.
AcceptDuplicate(i, d) ==
  LET known == IF mem[i] # NoEvent THEN mem[i] ELSE arch[i]
  IN /\ up
     /\ known # NoEvent
     /\ known.digest = d
     /\ acked' = acked \cup {<<i, d>>}
     /\ UNCHANGED <<files, up, workers, nextAt, aged, effects, settled, faults, crashes>>

\* The transport keeps a delivery for less than the dedupe retention.
Accept(i, d) ==
  /\ <<i, d>> \in Deliveries
  /\ i \notin aged
  /\ AcceptNew(i, d) \/ AcceptDuplicate(i, d)

----------------------------------------------------------------------------
(* The worker of a partition.                                              *)

\* Mutant: a record that waits for its retry is skipped.
PendingNow(p) ==
  {i \in Ids : /\ mem[i] # NoEvent /\ mem[i].state = "pending" /\ ~mem[i].wait
               /\ Partition(i, mem[i]) = p}

Pending(p) ==
  {i \in Ids : mem[i] # NoEvent /\ mem[i].state = "pending" /\ Partition(i, mem[i]) = p}

\* Mutant: the payload is scrubbed when the handler gets it.
ClaimedScrubbed(r) ==
  [r EXCEPT !.state = "running", !.phase = "preparing", !.attempts = @ + 1, !.payload = FALSE]

Claimed(r) == [r EXCEPT !.state = "running", !.phase = "preparing", !.attempts = @ + 1]

Claim(p, i) ==
  LET f == [mem EXCEPT ![i] = Claimed(@)]
  IN /\ up
     /\ stage[p] = "idle"
     /\ i \in Pending(p)
     /\ \A j \in Pending(p) : mem[i].at <= mem[j].at
     /\ ~mem[i].wait
     /\ \/ /\ SaveOk(f, arch, unknown)
           /\ stage' = [stage EXCEPT ![p] = "handling"]
           /\ holds' = [holds EXCEPT ![p] = i]
        \/ SaveFailed(f, arch, unknown) /\ UNCHANGED <<stage, holds>>
     /\ UNCHANGED <<up, result, nextAt, aged, acked, effects, settled, crashes>>

\* beginEventEffect, called by every port method with an outside effect.
Begin(p) ==
  LET i == holds[p]
      f == [mem EXCEPT ![i].phase = "executing"]
  IN /\ up
     /\ stage[p] = "handling"
     /\ mem[i] # NoEvent
     /\ mem[i].state = "running"
     /\ \/ /\ mem[i].phase = "executing"
           /\ stage' = [stage EXCEPT ![p] = "granted"]
           /\ UNCHANGED <<files, faults>>
        \/ /\ mem[i].phase # "executing"
           /\ \/ SaveOk(f, arch, unknown) /\ stage' = [stage EXCEPT ![p] = "granted"]
              \/ SaveFailed(f, arch, unknown) /\ UNCHANGED stage
     /\ UNCHANGED <<up, holds, result, nextAt, aged, acked, effects, settled, crashes>>

\* The call behind the wrapper; it may fail without having had its effect.
Effect(p) ==
  /\ up
  /\ stage[p] = "granted"
  /\ stage' = [stage EXCEPT ![p] = "handling"]
  /\ \/ effects' = effects \cup {<<holds[p], mem[holds[p]].attempts>>}
     \/ UNCHANGED effects
  /\ UNCHANGED <<files, up, holds, result, nextAt, aged, acked, settled, faults, crashes>>

\* The handler returns nil, a rejection (ErrInactiveTaskLink, ErrInvalidTaskCard)
\* or any other error, the two-minute deadline included.
HandlerReturns(p, r) ==
  /\ up
  /\ stage[p] = "handling"
  /\ stage' = [stage EXCEPT ![p] = "finishing"]
  /\ result' = [result EXCEPT ![p] = r]
  /\ UNCHANGED <<files, up, holds, nextAt, aged, acked, effects, settled, faults, crashes>>

Finished(e, r) ==
  CASE r = "ok" -> [e EXCEPT !.state = "completed", !.payload = FALSE]
    [] r = "rejected" -> [e EXCEPT !.state = "failed", !.payload = FALSE]
    [] r = "error" /\ e.phase = "preparing" /\ e.attempts < MaxAttempts ->
         [e EXCEPT !.state = "pending", !.wait = TRUE]
    [] r = "error" /\ e.phase = "preparing" /\ e.attempts >= MaxAttempts ->
         [e EXCEPT !.state = "failed", !.exhausted = TRUE]
    [] OTHER -> [e EXCEPT !.state = "outcome_unknown"]

\* A failed save is tried again; the handler is not.
Finish(p) ==
  LET i == holds[p]
      e == Finished(mem[i], result[p])
      f == [mem EXCEPT ![i] = e]
  IN /\ up
     /\ stage[p] = "finishing"
     /\ mem[i] # NoEvent
     /\ \/ /\ SaveOk(f, arch, unknown)
           /\ stage' = [stage EXCEPT ![p] = "idle"]
           /\ holds' = [holds EXCEPT ![p] = NoId]
           /\ result' = [result EXCEPT ![p] = "ok"]
           /\ settled' = [settled EXCEPT ![i] = IF Terminal(e) THEN Outcome(e) ELSE @]
        \/ SaveFailed(f, arch, unknown) /\ UNCHANGED <<workers, settled>>
     /\ UNCHANGED <<up, nextAt, aged, acked, effects, crashes>>

----------------------------------------------------------------------------
(* Time and maintenance.                                                   *)

\* RetryAt of every copy of the record passes.
RetryDue(i) ==
  LET due(f) == [f EXCEPT ![i] = IF @ = NoEvent THEN @ ELSE [@ EXCEPT !.wait = FALSE]]
  IN /\ mem[i] # NoEvent /\ mem[i].state = "pending" /\ mem[i].wait
     /\ mem' = due(mem)
     /\ disk' = due(disk)
     /\ UNCHANGED <<arch, unknown, up, workers, nextAt, aged, acked, effects, settled,
                    faults, crashes>>

\* The retention of a settled record runs out.
Age(i) ==
  /\ i \notin aged
  /\ Terminal(Durable(i))
  /\ \A p \in Parts : holds[p] # i
  /\ aged' = aged \cup {i}
  /\ UNCHANGED <<files, up, workers, nextAt, acked, effects, settled, faults, crashes>>

\* prune: drop expired records, then scan the receipts, which drops the expired
\* ones and marks those to review; the walk over the files may stop half way.
Prune ==
  LET kept == Remove(mem, Expired(mem))
  IN /\ up
     /\ \/ \E gone \in SUBSET Expired(arch), marked \in SUBSET Reviewed(arch, Ids \ aged) :
             LET receipts == Remove(arch, gone)
                 reviews == (unknown \ gone) \cup marked
             IN IF Expired(mem) = {}
                THEN arch' = receipts /\ unknown' = reviews /\ UNCHANGED <<mem, disk, faults>>
                ELSE SaveOk(kept, receipts, reviews)
        \/ Expired(mem) # {} /\ SaveFailed(kept, arch, unknown)
     /\ UNCHANGED <<up, workers, nextAt, aged, acked, effects, settled, crashes>>

----------------------------------------------------------------------------
(* Crash and restart.                                                      *)

Crash ==
  /\ up
  /\ crashes < MaxCrashes
  /\ crashes' = crashes + 1
  /\ up' = FALSE
  /\ mem' = Nothing /\ unknown' = {}
  /\ stage' = [p \in Parts |-> "idle"]
  /\ holds' = [p \in Parts |-> NoId]
  /\ result' = [p \in Parts |-> "ok"]
  /\ UNCHANGED <<disk, arch, nextAt, aged, acked, effects, settled, faults>>

Recovered(e) ==
  CASE e = NoEvent -> NoEvent
    [] e # NoEvent /\ e.state = "running" /\ e.phase = "preparing" ->
         [e EXCEPT !.state = "pending"]
    [] e # NoEvent /\ e.state = "running" /\ e.phase # "preparing" ->
         [e EXCEPT !.state = "outcome_unknown"]
    [] OTHER -> e

\* Mutant: the inbox file wins over the receipt.
RecoverFile == [i \in Ids |-> Recovered(disk[i])]

Recover == [i \in Ids |-> IF disk[i] = NoEvent THEN NoEvent ELSE Recovered(Durable(i))]

\* newEventInbox refuses a file it cannot trust.
Loadable ==
  \A i \in Ids : disk[i] # NoEvent =>
    /\ arch[i] # NoEvent => arch[i].digest = disk[i].digest
    /\ Recovered(Durable(i)).state = "pending" => Recovered(Durable(i)).payload

Load ==
  LET receipts == Remove(arch, Expired(arch))
      reviews == {i \in Ids : NeedsReview(receipts[i])}
  IN /\ ~up
     /\ Loadable
     /\ \/ /\ SaveOk(Recover, receipts, reviews)
           /\ up' = TRUE
           /\ settled' = [i \in Ids |->
                            IF Terminal(receipts[i]) THEN Outcome(receipts[i])
                            ELSE IF Terminal(Recover[i]) THEN Outcome(Recover[i])
                            ELSE settled[i]]
        \/ SaveFailed(Recover, receipts, reviews) /\ UNCHANGED <<up, settled>>
     /\ UNCHANGED <<workers, nextAt, aged, acked, effects, crashes>>

----------------------------------------------------------------------------
Next ==
  \/ \E i \in Ids, d \in Digests : Accept(i, d)
  \/ \E p \in Parts, i \in Ids : Claim(p, i)
  \/ \E p \in Parts : Begin(p)
  \/ \E p \in Parts : Effect(p)
  \/ \E p \in Parts, r \in Results : HandlerReturns(p, r)
  \/ \E p \in Parts : Finish(p)
  \/ \E i \in Ids : RetryDue(i)
  \/ \E i \in Ids : Age(i)
  \/ Prune
  \/ Crash
  \/ Load

Spec == Init /\ [][Next]_vars

\* Workers poll every 250 ms, a failed write is retried, a handler returns (its
\* context has a deadline, and it makes finitely many calls), backoffs pass and
\* the host restarts the Core.  Nothing is fair about faults, crashes, deliveries,
\* the retention clock or maintenance.
Fairness ==
  /\ \A p \in Parts : /\ WF_vars(\E i \in Ids : Claim(p, i))
                      /\ WF_vars(Effect(p))
                      /\ SF_vars(\E r \in Results : HandlerReturns(p, r))
                      /\ WF_vars(Finish(p))
  /\ \A i \in Ids : WF_vars(RetryDue(i))
  /\ WF_vars(Load)

LiveSpec == Spec /\ Fairness

----------------------------------------------------------------------------
(* Properties.                                                             *)

TypeOK ==
  /\ mem \in [Ids -> InboxEvent \cup {NoEvent}]
  /\ disk \in [Ids -> InboxEvent \cup {NoEvent}]
  /\ arch \in [Ids -> InboxEvent \cup {NoEvent}]
  /\ unknown \subseteq Ids
  /\ up \in BOOLEAN
  /\ stage \in [Parts -> {"idle", "handling", "granted", "finishing"}]
  /\ holds \in [Parts -> Ids \cup {NoId}]
  /\ result \in [Parts -> Results]
  /\ nextAt \in Nat
  /\ aged \subseteq Ids
  /\ acked \subseteq Ids \X Digests
  /\ effects \subseteq Ids \X Nat
  /\ settled \in [Ids -> TerminalStates \cup {"exhausted", "none"}]
  /\ faults \in Nat /\ crashes \in Nat

\* An acknowledged event is found, under the payload that was acknowledged, by
\* whoever reads the two stores, at any moment and whatever writes failed, until
\* its retention is over (README: "Acceptance is persisted before dispatch and
\* ACK"; "an ID with a different payload is rejected").
AckedIsDurable ==
  \A i \in Ids, d \in Digests : <<i, d>> \in acked /\ i \notin aged =>
    Durable(i) # NoEvent /\ Durable(i).digest = d

\* The outside effects of an event all come from one run of its handler: no
\* retry, failed write or restart replays an event that may have had an effect.
EffectsInOneRun ==
  \A e1, e2 \in effects : e1[1] = e2[1] => e1 = e2

\* An outcome reported durable stays the outcome, across later writes of the
\* inbox by other workers, compaction and restarts.
SettledIsFinal ==
  \A i \in Ids : settled[i] # "none" /\ i \notin aged =>
    Durable(i) # NoEvent /\ Outcome(Durable(i)) = settled[i]

\* An event runs only when every earlier event of its conversation's partition
\* is settled: a record waiting for its retry blocks those behind it.
PartitionOrder ==
  \A p \in Parts : stage[p] # "idle" =>
    \A j \in Ids : /\ mem[j] # NoEvent
                   /\ Partition(j, mem[j]) = p
                   /\ mem[j].at < mem[holds[p]].at
                   => Terminal(mem[j])

\* No reachable pair of files makes newEventInbox refuse to start, and no
\* receipt ever contradicts a settled record, which would fail every later save.
NeverWedged ==
  /\ Loadable
  /\ \A i \in Ids : Terminal(mem[i]) /\ arch[i] # NoEvent =>
       arch[i].digest = mem[i].digest /\ arch[i].state = mem[i].state

\* Health() counts exactly the outcomes to review: none hides in a receipt whose
\* record has left the inbox within the retention, and no mark outlives its receipt.
ReviewsAreVisible ==
  up => \A i \in Ids :
    /\ NeedsReview(arch[i]) /\ mem[i] = NoEvent /\ i \notin aged => i \in unknown
    /\ i \in unknown => NeedsReview(arch[i])

\* What the workers, the restart and the readers of the inbox rely on, in every state.
InboxSound ==
  TypeOK /\ AckedIsDurable /\ EffectsInOneRun /\ SettledIsFinal /\ ReviewsAreVisible

\* Every acknowledged event is eventually settled (or was, and is past retention).
AckedEventSettles ==
  \A i \in Ids : (\E d \in Digests : <<i, d>> \in acked)
                  ~> (settled[i] # "none" \/ i \in aged)

\* The inbox implements the promise of EventOnce.
Once == INSTANCE EventOnce WITH outcome <- settled
ImplementsEventOnce == Once!Spec
=============================================================================
