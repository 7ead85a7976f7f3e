-------------------------- MODULE EventInboxProofs --------------------------
(***************************************************************************)
(* Proofs about EventInbox.  Everything that matters about one id follows  *)
(* from how its three copies (mem, disk, arch) relate to the worker that   *)
(* holds it, so the inductive invariant is stated id by id.                *)
(***************************************************************************)
EXTENDS EventInbox, TLAPS

Running(r) == r # NoEvent /\ r.state = "running"

\* The record of an event that had an effect in run n: still in that run, past
\* the checkpoint, or settled otherwise than as never executed.
Began(r, n) ==
  /\ r # NoEvent
  /\ \/ Terminal(r) /\ ~r.exhausted
     \/ r.state = "running" /\ r.phase = "executing" /\ r.attempts = n

\* Workers and running records match one to one.
WorkerInv ==
  /\ \A p \in Parts :
       IF stage[p] = "idle" THEN holds[p] = NoId
       ELSE /\ up
            /\ holds[p] \in Ids
            /\ Running(mem[holds[p]])
            /\ Partition(holds[p], mem[holds[p]]) = p
            /\ stage[p] = "granted" => mem[holds[p]].phase = "executing"
  /\ \A i \in Ids : Running(mem[i]) =>
       /\ holds[Partition(i, mem[i])] = i
       /\ mem[i].phase \in {"preparing", "executing"}

DownInv == ~up => mem = Nothing

\* Per copy: what a record may look like.
RecordInv(r) ==
  r # NoEvent =>
    /\ r.at < nextAt
    /\ r.state \notin TerminalStates => r.payload
    /\ r.exhausted => r.state = "failed"

\* How the copies of one id relate.
CopyInv(i) ==
  /\ RecordInv(mem[i]) /\ RecordInv(disk[i]) /\ RecordInv(arch[i])
  /\ arch[i] # NoEvent => Terminal(arch[i])
  /\ mem[i] # NoEvent /\ disk[i] # NoEvent => mem[i].digest = disk[i].digest
  /\ arch[i] # NoEvent /\ disk[i] # NoEvent => arch[i].digest = disk[i].digest
  /\ mem[i] # NoEvent /\ arch[i] # NoEvent => mem[i].digest = arch[i].digest
  /\ mem[i] # NoEvent /\ arch[i] # NoEvent =>
       \/ arch[i] = mem[i]
       \/ \E p \in Parts : /\ stage[p] = "finishing" /\ holds[p] = i
                           /\ arch[i] = Finished(mem[i], result[p])
  /\ mem[i] # NoEvent /\ i \notin aged => disk[i] # NoEvent \/ arch[i] # NoEvent

\* A copy exists where it must: the durable one, and the loaded one when up.
Present(i) ==
  i \notin aged =>
    /\ disk[i] = NoEvent => arch[i] # NoEvent
    /\ up /\ mem[i] = NoEvent => arch[i] # NoEvent

EffectInv(i) ==
  /\ Running(mem[i]) /\ mem[i].phase = "executing" =>
       /\ disk[i] # NoEvent => Began(disk[i], mem[i].attempts)
       /\ arch[i] # NoEvent => ~arch[i].exhausted
  /\ \A e \in effects : e[1] = i =>
       /\ mem[i] # NoEvent => Began(mem[i], e[2])
       /\ disk[i] # NoEvent => Began(disk[i], e[2])
       /\ arch[i] # NoEvent => ~arch[i].exhausted
       /\ Present(i)

SettledInv(i) ==
  settled[i] # "none" =>
    /\ mem[i] # NoEvent => Terminal(mem[i]) /\ Outcome(mem[i]) = settled[i]
    /\ disk[i] # NoEvent => Terminal(disk[i]) /\ Outcome(disk[i]) = settled[i]
    /\ arch[i] # NoEvent => Outcome(arch[i]) = settled[i]
    /\ Present(i)

AckedInv(i) ==
  \A d \in Digests : <<i, d>> \in acked =>
    /\ mem[i] # NoEvent => mem[i].digest = d
    /\ disk[i] # NoEvent => disk[i].digest = d
    /\ arch[i] # NoEvent => arch[i].digest = d
    /\ Present(i)

ReviewInv(i) ==
  up =>
    /\ NeedsReview(arch[i]) /\ mem[i] = NoEvent /\ i \notin aged => i \in unknown
    /\ i \in unknown => NeedsReview(arch[i])

IdInv(i) ==
  /\ CopyInv(i) /\ EffectInv(i) /\ SettledInv(i)
  /\ AckedInv(i) /\ ReviewInv(i)

IndInv ==
  /\ TypeOK
  /\ WorkerInv
  /\ DownInv
  /\ \A i \in Ids : IdInv(i)
  /\ PartitionOrder

Copies == [Ids -> InboxEvent \cup {NoEvent}]

(* What a save does to one id.                                             *)

\* The receipt of i after compaction moved its settled record f[i] out.
Archived(i, f, receipts) ==
  /\ Terminal(f[i])
  /\ \/ receipts[i] = NoEvent /\ arch'[i] = f[i]
     \/ /\ receipts[i] # NoEvent /\ arch'[i] = receipts[i]
        /\ receipts[i].digest = f[i].digest /\ receipts[i].state = f[i].state

SavedAt(i, f, receipts, reviews) ==
  \/ /\ mem'[i] = f[i] /\ disk'[i] = f[i] /\ arch'[i] = receipts[i]
     /\ i \in unknown' <=> i \in reviews
  \/ /\ Archived(i, f, receipts)
     /\ mem'[i] = NoEvent /\ disk'[i] = NoEvent
     /\ i \in unknown' <=> (i \in reviews \/ NeedsReview(f[i]))

FailedAt(i, f, receipts, reviews) ==
  /\ mem'[i] = mem[i]
  /\ \/ /\ arch'[i] = receipts[i]
        /\ disk'[i] = disk[i] \/ disk'[i] = f[i]
        /\ i \in unknown' <=> i \in reviews
     \/ /\ Archived(i, f, receipts)
        /\ disk'[i] = disk[i] \/ disk'[i] = NoEvent
        /\ i \in reviews => i \in unknown'
        /\ i \in unknown' => i \in reviews \/ NeedsReview(f[i])

\* save, seen from one id: its record is written as it is, or it was settled and
\* became a receipt that agrees with it (event_inbox.go save, compact, archive).
LEMMA SaveOkAt ==
  ASSUME NEW f \in Copies, NEW receipts \in Copies, NEW reviews \in SUBSET Ids,
         SaveOk(f, receipts, reviews)
  PROVE  /\ mem' \in Copies /\ disk' \in Copies /\ arch' \in Copies
         /\ unknown' \subseteq Ids
         /\ faults' = faults
         /\ \A i \in Ids : SavedAt(i, f, receipts, reviews)
<1>1. PICK A \in SUBSET Ids :
        /\ Compacted(f, receipts, A)
        /\ arch' = Archive(f, receipts, A)
        /\ unknown' = reviews \cup Reviewed(f, A)
        /\ mem' = Remove(f, A)
        /\ disk' = Remove(f, A)
        /\ faults' = faults
  BY DEF SaveOk
<1>2. mem' \in Copies /\ disk' \in Copies /\ arch' \in Copies /\ unknown' \subseteq Ids
  BY <1>1 DEF Copies, Remove, Archive, Reviewed
<1>3. ASSUME NEW i \in Ids PROVE SavedAt(i, f, receipts, reviews)
  <2>1. CASE i \in A
    <3>1. Terminal(f[i]) BY <1>1, <2>1 DEF Compacted, OldestFirst, TerminalIds
    <3>2. receipts[i] # NoEvent =>
            receipts[i].digest = f[i].digest /\ receipts[i].state = f[i].state
      BY <1>1, <2>1 DEF Compacted, NoConflict
    <3>3. mem'[i] = NoEvent /\ disk'[i] = NoEvent BY <1>1, <2>1 DEF Remove
    <3>4. arch'[i] = IF receipts[i] = NoEvent THEN f[i] ELSE receipts[i]
      BY <1>1, <2>1 DEF Archive
    <3>5. i \in unknown' <=> (i \in reviews \/ NeedsReview(f[i])) BY <1>1, <2>1 DEF Reviewed
    <3> QED BY <3>1, <3>2, <3>3, <3>4, <3>5 DEF SavedAt, Archived
  <2>2. CASE i \notin A
    <3>1. mem'[i] = f[i] /\ disk'[i] = f[i] /\ arch'[i] = receipts[i]
      BY <1>1, <2>2 DEF Remove, Archive
    <3>2. i \in unknown' <=> i \in reviews BY <1>1, <2>2 DEF Reviewed
    <3> QED BY <3>1, <3>2 DEF SavedAt
  <2> QED BY <2>1, <2>2
<1> QED BY <1>1, <1>2, <1>3

LEMMA SaveFailedAt ==
  ASSUME NEW f \in Copies, NEW receipts \in Copies, NEW reviews \in SUBSET Ids,
         TypeOK, SaveFailed(f, receipts, reviews)
  PROVE  /\ mem' = mem /\ disk' \in Copies /\ arch' \in Copies
         /\ unknown' \subseteq Ids
         /\ faults' \in Nat
         /\ \A i \in Ids : FailedAt(i, f, receipts, reviews)
<1>1. PICK A \in SUBSET Ids, B \in SUBSET Ids :
        /\ B \subseteq A
        /\ OldestFirst(f, A)
        /\ NoConflict(f, receipts, A)
        /\ arch' = Archive(f, receipts, A)
        /\ unknown' = reviews \cup Reviewed(f, B)
        /\ disk' = disk \/ (A = B /\ disk' = Remove(f, A))
  BY DEF SaveFailed
<1>2. mem' = mem /\ faults' = faults + 1 BY DEF SaveFailed
<1>3. disk' \in Copies /\ arch' \in Copies /\ unknown' \subseteq Ids /\ faults' \in Nat
  BY <1>1, <1>2 DEF Copies, Remove, Archive, Reviewed, TypeOK
<1>4. ASSUME NEW i \in Ids PROVE FailedAt(i, f, receipts, reviews)
  <2>1. CASE i \in A
    <3>1. Terminal(f[i]) BY <1>1, <2>1 DEF OldestFirst, TerminalIds
    <3>2. receipts[i] # NoEvent =>
            receipts[i].digest = f[i].digest /\ receipts[i].state = f[i].state
      BY <1>1, <2>1 DEF NoConflict
    <3>3. disk'[i] = disk[i] \/ disk'[i] = NoEvent BY <1>1, <2>1 DEF Remove
    <3>4. arch'[i] = IF receipts[i] = NoEvent THEN f[i] ELSE receipts[i]
      BY <1>1, <2>1 DEF Archive
    <3>5. /\ i \in reviews => i \in unknown'
          /\ i \in unknown' => i \in reviews \/ NeedsReview(f[i])
      BY <1>1, <2>1 DEF Reviewed
    <3> QED BY <1>2, <3>1, <3>2, <3>3, <3>4, <3>5 DEF FailedAt, Archived
  <2>2. CASE i \notin A
    <3>1. arch'[i] = receipts[i] BY <1>1, <2>2 DEF Archive
    <3>2. disk'[i] = disk[i] \/ disk'[i] = f[i] BY <1>1, <2>2 DEF Remove
    <3>3. i \in unknown' <=> i \in reviews BY <1>1, <2>2 DEF Reviewed
    <3> QED BY <1>2, <3>1, <3>2, <3>3 DEF FailedAt
  <2> QED BY <2>1, <2>2
<1> QED BY <1>2, <1>3, <1>4

(* The ids a save does not act on.                                         *)

\* What a step leaves alone of an id it does not act on.
Frame(j) ==
  /\ up' = up /\ aged' = aged /\ settled'[j] = settled[j]
  /\ nextAt' \in Nat /\ nextAt <= nextAt'
  /\ \A p \in Parts : holds[p] = j \/ holds'[p] = j =>
       stage'[p] = stage[p] /\ holds'[p] = holds[p] /\ result'[p] = result[p]
  /\ \A e \in effects' : e[1] = j => e \in effects
  /\ \A d \in Digests : <<j, d>> \in acked' => <<j, d>> \in acked

\* A record another worker's save carries along keeps its invariant.
LEMMA MarkedSaved ==
  ASSUME IndInv, NEW j \in Ids, NEW f \in Copies, f[j] = mem[j], up, Frame(j),
         NEW reviews \in SUBSET Ids, j \in unknown => j \in reviews,
         j \in reviews => j \in unknown \/ NeedsReview(arch[j]),
         SavedAt(j, f, arch, reviews)
  PROVE  IdInv(j)'
<1> USE NoEventAssumption
<1>1. /\ mem[j] \in InboxEvent \cup {NoEvent}
      /\ disk[j] \in InboxEvent \cup {NoEvent}
      /\ arch[j] \in InboxEvent \cup {NoEvent}
      /\ nextAt \in Nat
  BY DEF IndInv, TypeOK
<1>2. IdInv(j) BY DEF IndInv
<1>3. Terminal(mem[j]) => \A p \in Parts : holds[p] # j \/ stage[p] # "finishing"
  BY DEF IndInv, WorkerInv, Running, Terminal, TerminalStates
<1>4. CopyInv(j)'
  <2>1. CASE mem'[j] = mem[j] /\ disk'[j] = mem[j] /\ arch'[j] = arch[j]
    <3>1. RecordInv(mem[j])' /\ RecordInv(disk[j])' /\ RecordInv(arch[j])'
      BY <1>1, <1>2, <2>1 DEF IdInv, CopyInv, RecordInv, Frame, InboxEvent
    <3>2. (mem[j] # NoEvent /\ arch[j] # NoEvent =>
             \/ arch[j] = mem[j]
             \/ \E p \in Parts : /\ stage[p] = "finishing" /\ holds[p] = j
                                 /\ arch[j] = Finished(mem[j], result[p]))'
      BY <1>2, <2>1 DEF IdInv, CopyInv, Frame
    <3> QED BY <1>1, <1>2, <2>1, <3>1, <3>2 DEF IdInv, CopyInv, Frame, Terminal
  <2>2. CASE Archived(j, f, arch) /\ mem'[j] = NoEvent /\ disk'[j] = NoEvent
    BY <1>1, <1>2, <2>2 DEF IdInv, CopyInv, Archived, RecordInv, Frame, InboxEvent, Terminal
  <2> QED BY <2>1, <2>2 DEF SavedAt
<1>5. EffectInv(j)' /\ SettledInv(j)' /\ AckedInv(j)'
  <2>1. CASE mem'[j] = mem[j] /\ disk'[j] = mem[j] /\ arch'[j] = arch[j]
    <3>1. EffectInv(j)' BY <1>1, <1>2, <2>1 DEF IdInv, EffectInv, Present, Began, Running, Frame
    <3>2. SettledInv(j)' BY <1>1, <1>2, <2>1 DEF IdInv, SettledInv, Present, Frame
    <3>3. AckedInv(j)' BY <1>1, <1>2, <2>1 DEF IdInv, AckedInv, Present, Frame
    <3> QED BY <3>1, <3>2, <3>3
  <2>2. CASE Archived(j, f, arch) /\ mem'[j] = NoEvent /\ disk'[j] = NoEvent
    <3>1. EffectInv(j)'
      BY <1>1, <1>2, <2>2
      DEF IdInv, EffectInv, Present, Began, Running, Frame, Archived, Terminal, TerminalStates
    <3>2. SettledInv(j)'
      BY <1>1, <1>2, <2>2 DEF IdInv, SettledInv, Present, Frame, Archived, Terminal
    <3>3. AckedInv(j)'
      BY <1>1, <1>2, <2>2 DEF IdInv, AckedInv, Present, Frame, Archived, Terminal
    <3> QED BY <3>1, <3>2, <3>3
  <2> QED BY <2>1, <2>2 DEF SavedAt
<1>6. ReviewInv(j)'
  BY <1>1, <1>2, <1>3 DEF IdInv, CopyInv, ReviewInv, Frame, SavedAt, Archived, NeedsReview
<1> QED BY <1>4, <1>5, <1>6 DEF IdInv

LEMMA OtherSaved ==
  ASSUME IndInv, NEW j \in Ids, NEW f \in Copies, f[j] = mem[j], up, Frame(j),
         SavedAt(j, f, arch, unknown)
  PROVE  IdInv(j)'
<1>1. unknown \in SUBSET Ids BY DEF IndInv, TypeOK
<1> QED BY <1>1, MarkedSaved

\* Nor does a save that failed half way disturb it.
LEMMA MarkedFailed ==
  ASSUME IndInv, NEW j \in Ids, NEW f \in Copies, f[j] = mem[j], up, Frame(j),
         NEW reviews \in SUBSET Ids, j \in unknown => j \in reviews,
         j \in reviews => j \in unknown \/ NeedsReview(arch[j]),
         FailedAt(j, f, arch, reviews)
  PROVE  IdInv(j)'
<1> USE NoEventAssumption
<1>1. /\ mem[j] \in InboxEvent \cup {NoEvent}
      /\ disk[j] \in InboxEvent \cup {NoEvent}
      /\ arch[j] \in InboxEvent \cup {NoEvent}
      /\ nextAt \in Nat
  BY DEF IndInv, TypeOK
<1>2. IdInv(j) BY DEF IndInv
<1>3. Terminal(mem[j]) => \A p \in Parts : holds[p] # j \/ stage[p] # "finishing"
  BY DEF IndInv, WorkerInv, Running, Terminal, TerminalStates
<1>4. CopyInv(j)'
  <2>1. CASE mem'[j] = mem[j] /\ arch'[j] = arch[j] /\ (disk'[j] = disk[j] \/ disk'[j] = mem[j])
    <3>1. RecordInv(mem[j])' /\ RecordInv(disk[j])' /\ RecordInv(arch[j])'
      BY <1>1, <1>2, <2>1 DEF IdInv, CopyInv, RecordInv, Frame, InboxEvent
    <3>2. (mem[j] # NoEvent /\ arch[j] # NoEvent =>
             \/ arch[j] = mem[j]
             \/ \E p \in Parts : /\ stage[p] = "finishing" /\ holds[p] = j
                                 /\ arch[j] = Finished(mem[j], result[p]))'
      BY <1>2, <2>1 DEF IdInv, CopyInv, Frame
    <3> QED BY <1>1, <1>2, <2>1, <3>1, <3>2 DEF IdInv, CopyInv, Frame, Terminal
  <2>2. CASE /\ Archived(j, f, arch) /\ mem'[j] = mem[j]
             /\ disk'[j] = disk[j] \/ disk'[j] = NoEvent
    <3>1. arch'[j] = mem[j] BY <1>2, <1>3, <2>2 DEF Archived, IdInv, CopyInv, Terminal
    <3> QED
      BY <1>1, <1>2, <2>2, <3>1
      DEF IdInv, CopyInv, Archived, RecordInv, Frame, InboxEvent, Terminal
  <2> QED BY <2>1, <2>2 DEF FailedAt
<1>5. EffectInv(j)' /\ SettledInv(j)' /\ AckedInv(j)'
  <2>1. CASE mem'[j] = mem[j] /\ arch'[j] = arch[j] /\ (disk'[j] = disk[j] \/ disk'[j] = mem[j])
    <3>1. EffectInv(j)' BY <1>1, <1>2, <2>1 DEF IdInv, EffectInv, Present, Began, Running, Frame
    <3>2. SettledInv(j)' BY <1>1, <1>2, <2>1 DEF IdInv, SettledInv, Present, Frame
    <3>3. AckedInv(j)' BY <1>1, <1>2, <2>1 DEF IdInv, AckedInv, Present, Frame
    <3> QED BY <3>1, <3>2, <3>3
  <2>2. CASE /\ Archived(j, f, arch) /\ mem'[j] = mem[j]
             /\ disk'[j] = disk[j] \/ disk'[j] = NoEvent
    <3>1. EffectInv(j)'
      BY <1>1, <1>2, <2>2
      DEF IdInv, EffectInv, Present, Began, Running, Frame, Archived, Terminal, TerminalStates
    <3>2. SettledInv(j)'
      BY <1>1, <1>2, <2>2 DEF IdInv, SettledInv, Present, Frame, Archived, Terminal
    <3>3. AckedInv(j)'
      BY <1>1, <1>2, <2>2 DEF IdInv, AckedInv, Present, Frame, Archived, Terminal
    <3> QED BY <3>1, <3>2, <3>3
  <2> QED BY <2>1, <2>2 DEF FailedAt
<1>6. ReviewInv(j)'
  BY <1>1, <1>2, <1>3
  DEF IdInv, CopyInv, ReviewInv, Frame, FailedAt, Archived, NeedsReview, Terminal
<1> QED BY <1>4, <1>5, <1>6 DEF IdInv

LEMMA OtherFailed ==
  ASSUME IndInv, NEW j \in Ids, NEW f \in Copies, f[j] = mem[j], up, Frame(j),
         FailedAt(j, f, arch, unknown)
  PROVE  IdInv(j)'
<1>1. unknown \in SUBSET Ids BY DEF IndInv, TypeOK
<1> QED BY <1>1, MarkedFailed

\* Past its retention, a settled record may vanish from any store.
LEMMA AgedVanishes ==
  ASSUME IndInv, NEW j \in aged, j \in Ids, Frame(j),
         mem'[j] \in {mem[j], NoEvent},
         disk'[j] \in {disk[j], NoEvent},
         arch'[j] \in {arch[j], NoEvent},
         j \in unknown' => j \in unknown /\ arch'[j] # NoEvent
  PROVE  IdInv(j)'
<1>1. /\ mem[j] \in InboxEvent \cup {NoEvent}
      /\ disk[j] \in InboxEvent \cup {NoEvent}
      /\ arch[j] \in InboxEvent \cup {NoEvent}
      /\ nextAt \in Nat
  BY DEF IndInv, TypeOK
<1>2. IdInv(j) BY DEF IndInv
<1>3. CopyInv(j)'
  <2>1. RecordInv(mem[j])' /\ RecordInv(disk[j])' /\ RecordInv(arch[j])'
    BY <1>1, <1>2, NoEventAssumption DEF IdInv, CopyInv, RecordInv, Frame, InboxEvent
  <2>2. (mem[j] # NoEvent /\ arch[j] # NoEvent =>
           \/ arch[j] = mem[j]
           \/ \E p \in Parts : /\ stage[p] = "finishing" /\ holds[p] = j
                               /\ arch[j] = Finished(mem[j], result[p]))'
    BY <1>2 DEF IdInv, CopyInv, Frame
  <2> QED BY <1>2, <2>1, <2>2 DEF IdInv, CopyInv, Frame, Terminal
<1>4. EffectInv(j)' BY <1>2 DEF IdInv, EffectInv, Present, Began, Running, Frame
<1>5. SettledInv(j)' /\ AckedInv(j)' /\ ReviewInv(j)'
  BY <1>2 DEF IdInv, SettledInv, AckedInv, ReviewInv, Present, Frame
<1> QED BY <1>3, <1>4, <1>5 DEF IdInv

\* A live record has no receipt, unless its worker is finishing it.
LEMMA LiveHasNoReceipt ==
  ASSUME IndInv, NEW i \in Ids, mem[i] # NoEvent, mem[i].state \notin TerminalStates,
         \A p \in Parts : holds[p] = i => stage[p] # "finishing"
  PROVE  arch[i] = NoEvent
  BY DEF IndInv, IdInv, CopyInv, Terminal

LEMMA InitInd == Init => IndInv
<1> SUFFICES ASSUME Init PROVE IndInv
  OBVIOUS
<1>1. TypeOK BY DEF Init, TypeOK, Nothing, Results
<1>2. WorkerInv /\ DownInv /\ PartitionOrder
  BY NoEventAssumption DEF Init, WorkerInv, DownInv, PartitionOrder, Nothing, Running
<1>3. ASSUME NEW i \in Ids PROVE IdInv(i)
  BY NoEventAssumption
  DEF Init, Nothing, IdInv, CopyInv, RecordInv, EffectInv, SettledInv, AckedInv, ReviewInv,
      Running, NeedsReview
<1> QED BY <1>1, <1>2, <1>3 DEF IndInv

LEMMA AcceptNewInd ==
  ASSUME IndInv, NEW i \in Ids, NEW d \in Digests, i \notin aged, AcceptNew(i, d)
  PROVE  IndInv'
<1> USE NoEventAssumption
<1> DEFINE f == [Remove(mem, Expired(mem)) EXCEPT ![i] = NewEvent(d)]
<1>0. /\ up /\ mem[i] = NoEvent /\ arch[i] = NoEvent
      /\ nextAt' = nextAt + 1 /\ nextAt \in Nat
      /\ UNCHANGED <<up, workers, aged, effects, settled, crashes>>
      /\ TypeOK
  BY DEF AcceptNew, IndInv, TypeOK
<1>1. NewEvent(d) \in InboxEvent BY <1>0 DEF NewEvent, InboxEvent, States, Phases
<1>2. f \in Copies BY <1>0, <1>1 DEF Copies, Remove, TypeOK
<1>3. /\ f[i] = NewEvent(d)
      /\ \A j \in Ids \ {i} : IF j \in Expired(mem) THEN f[j] = NoEvent ELSE f[j] = mem[j]
  BY DEF Remove
<1> HIDE DEF f
<1>4. \A j \in Ids \ {i} : Frame(j)
  <2>1. \A j \in Ids \ {i}, x \in Digests : <<j, x>> \in acked' => <<j, x>> \in acked
    BY DEF AcceptNew
  <2> QED BY <1>0, <2>1 DEF Frame, workers
<1>5. holds = holds' /\ stage = stage' /\ result' = result /\ \A p \in Parts : holds[p] # i
  BY <1>0, NoIdAssumption DEF IndInv, WorkerInv, Running, workers
<1>. ~Terminal(f[i]) BY <1>3 DEF Terminal, TerminalStates, NewEvent
<1>6. CASE SaveOk(f, arch, unknown) /\ acked' = acked \cup {<<i, d>>}
  <2>1. /\ mem' \in Copies /\ disk' \in Copies /\ arch' \in Copies
        /\ unknown' \subseteq Ids /\ faults' = faults
        /\ \A j \in Ids : SavedAt(j, f, arch, unknown)
    BY <1>0, <1>2, <1>6, SaveOkAt DEF TypeOK, Copies
  <2>2. TypeOK' BY <1>0, <1>6, <2>1 DEF TypeOK, Copies, workers
  <2>3. ASSUME NEW j \in Ids \ {i} PROVE IdInv(j)'
    <3>1. CASE j \in Expired(mem)
      <4>1. f[j] = NoEvent /\ j \in aged BY <1>3, <3>1 DEF Expired
      <4>2. /\ mem'[j] = NoEvent /\ disk'[j] = NoEvent /\ arch'[j] = arch[j]
            /\ j \in unknown' => j \in unknown
        BY <2>1, <4>1 DEF SavedAt, Archived, Terminal
      <4>3. j \in unknown => arch[j] # NoEvent BY <1>0 DEF IndInv, IdInv, ReviewInv, NeedsReview
      <4> QED BY <1>4, <4>1, <4>2, <4>3, AgedVanishes
    <3>2. CASE j \notin Expired(mem)
      <4>1. f[j] = mem[j] BY <1>3, <3>2
      <4> QED BY <1>0, <1>2, <1>4, <2>1, <4>1, OtherSaved
    <3> QED BY <3>1, <3>2
  <2>4. /\ mem'[i] = NewEvent(d) /\ disk'[i] = NewEvent(d) /\ arch'[i] = NoEvent
        /\ i \in unknown' <=> i \in unknown
    BY <1>0, <1>3, <2>1 DEF SavedAt, Archived
  <2>5. IdInv(i)'
    <3>1. /\ settled[i] = "none"
          /\ \A e \in effects : e[1] # i
          /\ \A x \in Digests : <<i, x>> \notin acked
          /\ i \notin unknown
      BY <1>0 DEF IndInv, IdInv, SettledInv, EffectInv, AckedInv, ReviewInv, Present, NeedsReview
    <3>2. CopyInv(i)' BY <1>0, <1>1, <2>4 DEF CopyInv, RecordInv, NewEvent, Terminal
    <3>3. EffectInv(i)' /\ SettledInv(i)' /\ ReviewInv(i)'
      BY <1>0, <1>1, <2>4, <3>1
      DEF EffectInv, SettledInv, ReviewInv, Running, NewEvent, NeedsReview, Present, workers
    <3>4. AckedInv(i)'
      <4>1. \A x \in Digests : <<i, x>> \in acked' => x = d BY <1>6, <3>1
      <4>2. NewEvent(d).digest = d /\ NewEvent(d) # NoEvent BY <1>1 DEF NewEvent
      <4> QED BY <2>4, <4>1, <4>2 DEF AckedInv, Present
    <3> QED BY <3>2, <3>3, <3>4 DEF IdInv
  <2>6. \A j \in Ids \ {i} : mem'[j] = mem[j] \/ (Terminal(mem[j]) /\ mem'[j] = NoEvent)
    BY <1>3, <2>1 DEF SavedAt, Archived, Expired, Terminal
  <2>7. WorkerInv'
    <3>1. ASSUME NEW p \in Parts, stage[p] # "idle"
          PROVE  mem'[holds[p]] = mem[holds[p]]
      BY <1>5, <2>6, <3>1 DEF IndInv, WorkerInv, Running, Terminal, TerminalStates
    <3>2. ASSUME NEW j \in Ids, Running(mem'[j])
          PROVE  mem'[j] = mem[j]
      BY <2>4, <2>6, <3>2 DEF Running, NewEvent
    <3>3. ASSUME NEW p \in Parts, stage[p] # "idle"
          PROVE  /\ up /\ holds[p] \in Ids
                 /\ Running(mem'[holds[p]])
                 /\ Partition(holds[p], mem'[holds[p]]) = p
                 /\ stage[p] = "granted" => mem'[holds[p]].phase = "executing"
      BY <3>1, <3>3 DEF IndInv, WorkerInv
    <3>4. ASSUME NEW p \in Parts, stage[p] = "idle"
          PROVE  holds[p] = NoId
      BY <3>4 DEF IndInv, WorkerInv
    <3>5. ASSUME NEW j \in Ids, Running(mem'[j])
          PROVE  /\ holds[Partition(j, mem'[j])] = j
                 /\ mem'[j].phase \in {"preparing", "executing"}
      BY <3>2, <3>5 DEF IndInv, WorkerInv
    <3> QED BY <1>0, <1>5, <3>3, <3>4, <3>5 DEF WorkerInv, Running, Partition
  <2>8. PartitionOrder'
    <3> SUFFICES ASSUME NEW p \in Parts, stage'[p] # "idle", NEW j \in Ids,
                        mem'[j] # NoEvent, Partition(j, mem'[j]) = p,
                        mem'[j].at < mem'[holds'[p]].at
                 PROVE  Terminal(mem'[j])
      BY DEF PartitionOrder, Terminal, Partition
    <3>1. holds[p] \in Ids \ {i} /\ Running(mem[holds[p]]) BY <1>5 DEF IndInv, WorkerInv
    <3>2. mem'[holds[p]] = mem[holds[p]] BY <2>6, <3>1 DEF Running, Terminal, TerminalStates
    <3>3. mem[holds[p]].at < nextAt /\ mem[holds[p]].at \in Nat
      BY <1>0, <3>1 DEF IndInv, IdInv, CopyInv, RecordInv, Running, TypeOK, InboxEvent
    <3>4. j # i BY <1>0, <1>5, <2>4, <3>2, <3>3 DEF NewEvent
    <3> QED BY <1>5, <2>6, <3>2, <3>4 DEF IndInv, PartitionOrder
  <2> QED BY <1>0, <2>2, <2>3, <2>5, <2>7, <2>8 DEF IndInv, DownInv
<1>7. CASE SaveFailed(f, arch, unknown) /\ acked' = acked
  <2>1. /\ mem' = mem /\ disk' \in Copies /\ arch' \in Copies
        /\ unknown' \subseteq Ids /\ faults' \in Nat
        /\ \A j \in Ids : FailedAt(j, f, arch, unknown)
    BY <1>0, <1>2, <1>7, SaveFailedAt DEF TypeOK, Copies
  <2>2. TypeOK' BY <1>0, <1>7, <2>1 DEF TypeOK, Copies, workers
  <2>3. ASSUME NEW j \in Ids \ {i} PROVE IdInv(j)'
    <3>1. CASE j \in Expired(mem)
      <4>1. f[j] = NoEvent /\ j \in aged BY <1>3, <3>1 DEF Expired
      <4>2. /\ disk'[j] \in {disk[j], NoEvent} /\ arch'[j] = arch[j]
            /\ j \in unknown' => j \in unknown
        BY <2>1, <4>1 DEF FailedAt, Archived, Terminal
      <4>3. j \in unknown => arch[j] # NoEvent BY <1>0 DEF IndInv, IdInv, ReviewInv, NeedsReview
      <4> QED BY <1>4, <2>1, <4>1, <4>2, <4>3, AgedVanishes
    <3>2. CASE j \notin Expired(mem)
      <4>1. f[j] = mem[j] BY <1>3, <3>2
      <4> QED BY <1>0, <1>2, <1>4, <2>1, <4>1, OtherFailed
    <3> QED BY <3>1, <3>2
  <2>4. /\ mem'[i] = NoEvent /\ disk'[i] \in {disk[i], NewEvent(d)} /\ arch'[i] = NoEvent
        /\ i \in unknown' <=> i \in unknown
    BY <1>0, <1>3, <2>1 DEF FailedAt, Archived
  <2>5. IdInv(i)'
    <3>1. /\ settled[i] = "none"
          /\ \A e \in effects : e[1] # i
          /\ \A x \in Digests : <<i, x>> \notin acked
          /\ i \notin unknown
      BY <1>0 DEF IndInv, IdInv, SettledInv, EffectInv, AckedInv, ReviewInv, Present, NeedsReview
    <3>2. CopyInv(i)'
      <4>1. RecordInv(disk[i]) BY DEF IndInv, IdInv, CopyInv
      <4>2. RecordInv(disk[i])'
        BY <1>0, <1>1, <2>4, <4>1 DEF RecordInv, NewEvent, TypeOK, InboxEvent
      <4> QED BY <1>0, <2>4, <4>2 DEF CopyInv, RecordInv, Terminal
    <3>3. EffectInv(i)' /\ SettledInv(i)' /\ ReviewInv(i)' /\ AckedInv(i)'
      BY <1>0, <1>7, <2>4, <3>1
      DEF EffectInv, SettledInv, ReviewInv, AckedInv, Running, NeedsReview
    <3> QED BY <3>2, <3>3 DEF IdInv
  <2>6. WorkerInv' /\ PartitionOrder'
    BY <1>0, <1>5, <2>1 DEF IndInv, WorkerInv, PartitionOrder, Running, Terminal, Partition
  <2> QED BY <1>0, <2>2, <2>3, <2>5, <2>6 DEF IndInv, DownInv
<1> QED BY <1>6, <1>7 DEF AcceptNew, f

(* The actions that save the file with one record replaced.                *)

LEMMA ReplaceSaved ==
  ASSUME IndInv, NEW i \in Ids, NEW e \in InboxEvent, up,
         \A j \in Ids \ {i} : Frame(j),
         SaveOk([mem EXCEPT ![i] = e], arch, unknown)
  PROVE  /\ mem' \in Copies /\ disk' \in Copies /\ arch' \in Copies
         /\ unknown' \subseteq Ids /\ faults' = faults
         /\ \A j \in Ids \ {i} :
              IdInv(j)' /\ (mem'[j] = mem[j] \/ (Terminal(mem[j]) /\ mem'[j] = NoEvent))
         /\ \/ /\ mem'[i] = e /\ disk'[i] = e /\ arch'[i] = arch[i]
               /\ i \in unknown' <=> i \in unknown
            \/ /\ Terminal(e) /\ mem'[i] = NoEvent /\ disk'[i] = NoEvent
               /\ \/ arch[i] = NoEvent /\ arch'[i] = e
                  \/ /\ arch[i] # NoEvent /\ arch'[i] = arch[i]
                     /\ arch[i].digest = e.digest /\ arch[i].state = e.state
               /\ i \in unknown' <=> (i \in unknown \/ NeedsReview(e))
<1> DEFINE f == [mem EXCEPT ![i] = e]
<1>1. f \in Copies /\ f[i] = e /\ \A j \in Ids \ {i} : f[j] = mem[j]
  BY DEF IndInv, TypeOK, Copies
<1>2. arch \in Copies /\ unknown \in SUBSET Ids BY DEF IndInv, TypeOK, Copies
<1>3. SaveOk(f, arch, unknown)
  OBVIOUS
<1> HIDE DEF f
<1>4. /\ mem' \in Copies /\ disk' \in Copies /\ arch' \in Copies
      /\ unknown' \subseteq Ids /\ faults' = faults
      /\ \A j \in Ids : SavedAt(j, f, arch, unknown)
  BY <1>1, <1>2, <1>3, SaveOkAt
<1>5. \A j \in Ids \ {i} : IdInv(j)' BY <1>1, <1>4, OtherSaved
<1>6. \A j \in Ids \ {i} : mem'[j] = mem[j] \/ (Terminal(mem[j]) /\ mem'[j] = NoEvent)
  BY <1>1, <1>4 DEF SavedAt, Archived
<1>7. SavedAt(i, f, arch, unknown) BY <1>4
<1> QED BY <1>1, <1>4, <1>5, <1>6, <1>7 DEF SavedAt, Archived

LEMMA ReplaceFailed ==
  ASSUME IndInv, NEW i \in Ids, NEW e \in InboxEvent, up,
         \A j \in Ids \ {i} : Frame(j),
         SaveFailed([mem EXCEPT ![i] = e], arch, unknown)
  PROVE  /\ mem' = mem /\ disk' \in Copies /\ arch' \in Copies
         /\ unknown' \subseteq Ids /\ faults' \in Nat
         /\ \A j \in Ids \ {i} : IdInv(j)'
         /\ \/ /\ disk'[i] = disk[i] \/ disk'[i] = e
               /\ arch'[i] = arch[i]
               /\ i \in unknown' <=> i \in unknown
            \/ /\ Terminal(e) /\ (disk'[i] = disk[i] \/ disk'[i] = NoEvent)
               /\ \/ arch[i] = NoEvent /\ arch'[i] = e
                  \/ /\ arch[i] # NoEvent /\ arch'[i] = arch[i]
                     /\ arch[i].digest = e.digest /\ arch[i].state = e.state
               /\ i \in unknown => i \in unknown'
               /\ i \in unknown' => i \in unknown \/ NeedsReview(e)
<1> DEFINE f == [mem EXCEPT ![i] = e]
<1>1. f \in Copies /\ f[i] = e /\ \A j \in Ids \ {i} : f[j] = mem[j]
  BY DEF IndInv, TypeOK, Copies
<1>2. arch \in Copies /\ unknown \in SUBSET Ids /\ TypeOK BY DEF IndInv, TypeOK, Copies
<1>3. SaveFailed(f, arch, unknown)
  OBVIOUS
<1> HIDE DEF f
<1>4. /\ mem' = mem /\ disk' \in Copies /\ arch' \in Copies
      /\ unknown' \subseteq Ids /\ faults' \in Nat
      /\ \A j \in Ids : FailedAt(j, f, arch, unknown)
  BY <1>1, <1>2, <1>3, SaveFailedAt
<1>5. \A j \in Ids \ {i} : IdInv(j)' BY <1>1, <1>4, OtherFailed
<1>6. FailedAt(i, f, arch, unknown) BY <1>4
<1> QED BY <1>1, <1>4, <1>5, <1>6 DEF FailedAt, Archived

LEMMA ClaimedRecord ==
  ASSUME NEW r \in InboxEvent
  PROVE  /\ Claimed(r) \in InboxEvent
         /\ Claimed(r).state = "running" /\ Claimed(r).phase = "preparing"
         /\ Claimed(r).digest = r.digest /\ Claimed(r).at = r.at
         /\ Claimed(r).payload = r.payload /\ Claimed(r).exhausted = r.exhausted
<1>1. PICK n \in Nat : n = r.attempts + 1 BY DEF InboxEvent
<1>2. Claimed(r) = [r EXCEPT !.state = "running", !.phase = "preparing", !.attempts = n]
  BY <1>1 DEF Claimed
<1> QED BY <1>2 DEF InboxEvent, States, Phases

LEMMA ClaimInd ==
  ASSUME IndInv, NEW p \in Parts, NEW i \in Ids, Claim(p, i)
  PROVE  IndInv'
<1> USE NoEventAssumption, NoIdAssumption
<1> DEFINE e == Claimed(mem[i])
<1>0. /\ up /\ stage[p] = "idle" /\ holds[p] = NoId /\ TypeOK
      /\ mem[i] # NoEvent /\ mem[i].state = "pending" /\ Partition(i, mem[i]) = p
      /\ UNCHANGED <<up, result, nextAt, aged, acked, effects, settled, crashes>>
  BY DEF Claim, IndInv, WorkerInv, Pending
<1>1. mem[i] \in InboxEvent /\ nextAt \in Nat BY <1>0 DEF TypeOK
<1>2. /\ e \in InboxEvent /\ e # NoEvent /\ ~Terminal(e)
      /\ e.state = "running" /\ e.phase = "preparing" /\ e.digest = mem[i].digest
      /\ e.at = mem[i].at /\ e.payload = mem[i].payload /\ e.exhausted = mem[i].exhausted
  BY <1>0, <1>1, ClaimedRecord DEF Terminal, TerminalStates
<1>3. \A q \in Parts : holds[q] # i BY <1>0 DEF IndInv, WorkerInv, Running
<1>4. /\ arch[i] = NoEvent
      /\ \A x \in effects : x[1] # i
      /\ settled[i] = "none"
      /\ i \notin unknown
      /\ RecordInv(mem[i])
  <2>1. arch[i] = NoEvent BY <1>0, <1>3, LiveHasNoReceipt DEF TerminalStates
  <2>2. \A x \in effects : x[1] # i
    BY <1>0 DEF IndInv, IdInv, EffectInv, Began, Terminal, TerminalStates
  <2>3. settled[i] = "none" BY <1>0 DEF IndInv, IdInv, SettledInv, Terminal, TerminalStates
  <2>4. i \notin unknown /\ RecordInv(mem[i])
    BY <1>0, <2>1 DEF IndInv, IdInv, ReviewInv, CopyInv, NeedsReview
  <2> QED BY <2>1, <2>2, <2>3, <2>4
<1>5. [mem EXCEPT ![i] = e] = [mem EXCEPT ![i] = Claimed(@)] BY <1>0 DEF TypeOK
<1> HIDE DEF e
<1>6. CASE /\ SaveOk([mem EXCEPT ![i] = e], arch, unknown)
           /\ stage' = [stage EXCEPT ![p] = "handling"]
           /\ holds' = [holds EXCEPT ![p] = i]
  <2>1. \A j \in Ids \ {i} : Frame(j) BY <1>0, <1>1, <1>6 DEF Frame, TypeOK
  <2>2. /\ mem' \in Copies /\ disk' \in Copies /\ arch' \in Copies
        /\ unknown' \subseteq Ids /\ faults' = faults
        /\ \A j \in Ids \ {i} :
             IdInv(j)' /\ (mem'[j] = mem[j] \/ (Terminal(mem[j]) /\ mem'[j] = NoEvent))
        /\ mem'[i] = e /\ disk'[i] = e /\ arch'[i] = NoEvent /\ i \notin unknown'
    BY <1>0, <1>2, <1>4, <1>6, <2>1, ReplaceSaved
  <2>3. TypeOK' BY <1>0, <1>6, <2>2 DEF TypeOK, Copies
  <2>4. IdInv(i)'
    <3>1. CopyInv(i)' BY <1>0, <1>2, <1>4, <2>2 DEF CopyInv, RecordInv, Terminal, TerminalStates
    <3>2. EffectInv(i)' /\ SettledInv(i)' /\ ReviewInv(i)'
      BY <1>0, <1>2, <1>4, <2>2 DEF EffectInv, SettledInv, ReviewInv, Running
    <3>3. AckedInv(i)' BY <1>0, <1>2, <2>2 DEF IndInv, IdInv, AckedInv, Present
    <3> QED BY <3>1, <3>2, <3>3 DEF IdInv
  <2>5. WorkerInv'
    <3>1. ASSUME NEW q \in Parts, q # p, stage[q] # "idle"
          PROVE  mem'[holds[q]] = mem[holds[q]]
      BY <1>3, <2>2, <3>1 DEF IndInv, WorkerInv, Running, Terminal, TerminalStates
    <3>2. ASSUME NEW q \in Parts, q # p, stage[q] # "idle"
          PROVE  /\ up /\ holds[q] \in Ids
                 /\ Running(mem'[holds[q]])
                 /\ Partition(holds[q], mem'[holds[q]]) = q
                 /\ stage[q] = "granted" => mem'[holds[q]].phase = "executing"
      BY <3>1, <3>2 DEF IndInv, WorkerInv
    <3>3. ASSUME NEW q \in Parts, stage[q] = "idle" PROVE holds[q] = NoId
      BY <3>3 DEF IndInv, WorkerInv
    <3>4. ASSUME NEW j \in Ids \ {i}, Running(mem'[j])
          PROVE  /\ Partition(j, mem'[j]) \in Parts \ {p}
                 /\ holds[Partition(j, mem'[j])] = j
                 /\ mem'[j].phase \in {"preparing", "executing"}
      <4>1. mem'[j] = mem[j] /\ mem[j] \in InboxEvent BY <1>0, <2>2, <3>4 DEF Running, TypeOK
      <4>2. Partition(j, mem[j]) \in Parts BY <4>1, PartOfAssumption DEF Partition, InboxEvent
      <4> QED BY <1>0, <3>4, <4>1, <4>2 DEF IndInv, WorkerInv
    <3>5. Running(mem'[i]) /\ Partition(i, mem'[i]) = p /\ mem'[i].phase = "preparing"
      BY <1>0, <1>2, <2>2 DEF Running, Partition
    <3>6. /\ stage'[p] = "handling" /\ holds'[p] = i
          /\ \A q \in Parts \ {p} : stage'[q] = stage[q] /\ holds'[q] = holds[q]
      BY <1>0, <1>6 DEF TypeOK
    <3> QED BY <1>0, <3>2, <3>3, <3>4, <3>5, <3>6 DEF WorkerInv, Running, Partition
  <2>6. PartitionOrder'
    <3> SUFFICES ASSUME NEW q \in Parts, stage'[q] # "idle", NEW j \in Ids,
                        mem'[j] # NoEvent, Partition(j, mem'[j]) = q,
                        mem'[j].at < mem'[holds'[q]].at
                 PROVE  Terminal(mem'[j])
      BY DEF PartitionOrder, Terminal, Partition
    <3>1. CASE q = p
      <4>1. holds'[q] = i /\ mem'[holds'[q]].at = mem[i].at
        BY <1>0, <1>2, <1>6, <2>2, <3>1 DEF TypeOK
      <4>2. j # i /\ mem'[j] = mem[j] /\ mem[j] \in InboxEvent
        BY <1>0, <1>1, <1>2, <2>2, <4>1 DEF TypeOK, InboxEvent
      <4>3. mem[j].state # "pending" BY <1>1, <3>1, <4>1, <4>2 DEF Claim, Pending, InboxEvent
      <4>4. ~Running(mem[j]) BY <1>0, <3>1, <4>2 DEF IndInv, WorkerInv
      <4> QED BY <4>2, <4>3, <4>4 DEF InboxEvent, States, Running, Terminal, TerminalStates
    <3>2. CASE q # p
      <4>1. stage[q] # "idle" /\ holds'[q] = holds[q] /\ holds[q] # i
        BY <1>0, <1>3, <1>6, <3>2 DEF TypeOK
      <4>2. mem'[holds[q]] = mem[holds[q]]
        BY <2>2, <4>1 DEF IndInv, WorkerInv, Running, Terminal, TerminalStates
      <4>3. j # i BY <1>0, <1>2, <2>2, <3>2 DEF Partition
      <4> QED BY <2>2, <4>1, <4>2, <4>3 DEF IndInv, PartitionOrder
    <3> QED BY <3>1, <3>2
  <2> QED BY <1>0, <2>2, <2>3, <2>4, <2>5, <2>6 DEF IndInv, DownInv
<1>7. CASE SaveFailed([mem EXCEPT ![i] = e], arch, unknown) /\ UNCHANGED <<stage, holds>>
  <2>1. \A j \in Ids \ {i} : Frame(j) BY <1>0, <1>1, <1>7 DEF Frame, TypeOK
  <2>2. /\ mem' = mem /\ disk' \in Copies /\ arch' \in Copies
        /\ unknown' \subseteq Ids /\ faults' \in Nat
        /\ \A j \in Ids \ {i} : IdInv(j)'
        /\ disk'[i] = disk[i] \/ disk'[i] = e
        /\ arch'[i] = NoEvent /\ i \notin unknown'
    BY <1>0, <1>2, <1>4, <1>7, <2>1, ReplaceFailed
  <2>3. TypeOK' BY <1>0, <1>7, <2>2 DEF TypeOK, Copies
  <2>4. IdInv(i)'
    <3>0. CopyInv(i) /\ AckedInv(i) BY DEF IndInv, IdInv
    <3>1. CopyInv(i)'
      BY <1>0, <1>2, <1>4, <2>2, <3>0 DEF CopyInv, RecordInv, Terminal, TerminalStates
    <3>2. EffectInv(i)' /\ SettledInv(i)' /\ ReviewInv(i)'
      BY <1>0, <1>2, <1>4, <2>2 DEF EffectInv, SettledInv, ReviewInv, Running
    <3>3. AckedInv(i)' BY <1>0, <1>2, <1>4, <2>2, <3>0 DEF AckedInv, Present
    <3> QED BY <3>1, <3>2, <3>3 DEF IdInv
  <2>5. WorkerInv' /\ PartitionOrder'
    BY <1>0, <1>7, <2>2 DEF IndInv, WorkerInv, PartitionOrder, Running, Terminal, Partition
  <2> QED BY <1>0, <2>2, <2>3, <2>4, <2>5 DEF IndInv, DownInv
<1> QED BY <1>5, <1>6, <1>7 DEF Claim, e

(* The steps of a worker that holds a record.                              *)

LEMMA Holder ==
  ASSUME IndInv, NEW p \in Parts, stage[p] # "idle"
  PROVE  /\ up /\ holds[p] \in Ids
         /\ Running(mem[holds[p]]) /\ mem[holds[p]] \in InboxEvent
         /\ mem[holds[p]].phase \in {"preparing", "executing"}
         /\ Partition(holds[p], mem[holds[p]]) = p
         /\ ~Terminal(mem[holds[p]])
         /\ \A q \in Parts : holds[q] = holds[p] => q = p
         /\ settled[holds[p]] = "none"
         /\ IdInv(holds[p])
<1>1. /\ up /\ holds[p] \in Ids
      /\ Running(mem[holds[p]])
      /\ Partition(holds[p], mem[holds[p]]) = p
  BY DEF IndInv, WorkerInv
<1>2. /\ mem[holds[p]] \in InboxEvent
      /\ mem[holds[p]].phase \in {"preparing", "executing"}
      /\ IdInv(holds[p])
  BY <1>1 DEF IndInv, TypeOK, WorkerInv, Running
<1>3. \A q \in Parts : holds[q] = holds[p] => q = p BY <1>1, NoIdAssumption DEF IndInv, WorkerInv
<1>4. ~Terminal(mem[holds[p]]) BY <1>1 DEF Running, Terminal, TerminalStates
<1>5. settled[holds[p]] = "none" BY <1>1, <1>2, <1>4 DEF IdInv, SettledInv, Running
<1> QED BY <1>1, <1>2, <1>3, <1>4, <1>5

\* The worker p moved on, with its record still running or settled; every other
\* record is as it was, or was settled and left the file.
LEMMA WorkerMoves ==
  ASSUME IndInv, NEW p \in Parts, stage[p] # "idle", up' = up,
         \A j \in Ids \ {holds[p]} :
           mem'[j] = mem[j] \/ (Terminal(mem[j]) /\ mem'[j] = NoEvent),
         \A q \in Parts \ {p} : stage'[q] = stage[q] /\ holds'[q] = holds[q],
         mem'[holds[p]] # NoEvent =>
           mem'[holds[p]].digest = mem[holds[p]].digest /\ mem'[holds[p]].at = mem[holds[p]].at,
         \/ /\ holds'[p] = holds[p] /\ stage'[p] # "idle"
            /\ Running(mem'[holds[p]])
            /\ mem'[holds[p]].phase \in {"preparing", "executing"}
            /\ stage'[p] = "granted" => mem'[holds[p]].phase = "executing"
         \/ holds'[p] = NoId /\ stage'[p] = "idle" /\ ~Running(mem'[holds[p]])
  PROVE  WorkerInv' /\ PartitionOrder'
<1> DEFINE i == holds[p]
<1>1. /\ up /\ i \in Ids /\ Running(mem[i]) /\ Partition(i, mem[i]) = p
      /\ \A q \in Parts : holds[q] = i => q = p
  BY Holder
<1>2. mem'[i] # NoEvent => Partition(i, mem'[i]) = p BY <1>1 DEF Partition
<1>3. ASSUME NEW q \in Parts \ {p}, stage[q] # "idle"
      PROVE  holds[q] \in Ids \ {i} /\ mem'[holds[q]] = mem[holds[q]]
  <2>1. holds[q] \in Ids \ {i} /\ ~Terminal(mem[holds[q]]) BY <1>1, <1>3, Holder
  <2> QED BY <2>1
<1>4. ASSUME NEW j \in Ids \ {i}, mem'[j] # NoEvent PROVE mem'[j] = mem[j]
  BY <1>4
<1>5. WorkerInv'
  <2>1. ASSUME NEW q \in Parts \ {p}, stage[q] # "idle"
        PROVE  /\ Running(mem'[holds[q]])
               /\ Partition(holds[q], mem'[holds[q]]) = q
               /\ stage[q] = "granted" => mem'[holds[q]].phase = "executing"
    BY <1>3, <2>1 DEF IndInv, WorkerInv
  <2>2. ASSUME NEW q \in Parts, stage[q] = "idle" PROVE holds[q] = NoId
    BY <2>2 DEF IndInv, WorkerInv
  <2>3. ASSUME NEW j \in Ids \ {i}, Running(mem'[j])
        PROVE  /\ holds'[Partition(j, mem'[j])] = j
               /\ mem'[j].phase \in {"preparing", "executing"}
    <3>1. mem'[j] = mem[j] /\ mem[j] \in InboxEvent BY <1>4, <2>3 DEF Running, IndInv, TypeOK
    <3>2. Partition(j, mem[j]) \in Parts BY <3>1, PartOfAssumption DEF Partition, InboxEvent
    <3>3. /\ holds[Partition(j, mem[j])] = j
          /\ mem[j].phase \in {"preparing", "executing"}
      BY <2>3, <3>1 DEF IndInv, WorkerInv
    <3> QED BY <3>1, <3>2, <3>3
  <2>4. Running(mem'[i]) => /\ holds'[Partition(i, mem'[i])] = i
                           /\ mem'[i].phase \in {"preparing", "executing"}
    BY <1>2 DEF Running
  <2>5. IF stage'[p] = "idle" THEN holds'[p] = NoId
        ELSE /\ up' /\ holds'[p] \in Ids /\ Running(mem'[holds'[p]])
             /\ Partition(holds'[p], mem'[holds'[p]]) = p
             /\ stage'[p] = "granted" => mem'[holds'[p]].phase = "executing"
    BY <1>1, <1>2 DEF Running
  <2>6. ASSUME NEW q \in Parts
        PROVE  IF stage'[q] = "idle" THEN holds'[q] = NoId
               ELSE /\ up' /\ holds'[q] \in Ids /\ Running(mem'[holds'[q]])
                    /\ Partition(holds'[q], mem'[holds'[q]]) = q
                    /\ stage'[q] = "granted" => mem'[holds'[q]].phase = "executing"
    BY <1>1, <1>3, <2>1, <2>2, <2>5
  <2>7. ASSUME NEW j \in Ids, Running(mem'[j])
        PROVE  /\ holds'[Partition(j, mem'[j])] = j
               /\ mem'[j].phase \in {"preparing", "executing"}
    BY <2>3, <2>4, <2>7
  <2> QED BY <2>6, <2>7 DEF WorkerInv, Running, Partition
<1>6. PartitionOrder'
  <2> SUFFICES ASSUME NEW q \in Parts, stage'[q] # "idle", NEW j \in Ids,
                      mem'[j] # NoEvent, Partition(j, mem'[j]) = q,
                      mem'[j].at < mem'[holds'[q]].at
               PROVE  Terminal(mem'[j])
    BY DEF PartitionOrder, Terminal, Partition
  <2>1. CASE q = p
    <3>1. holds'[p] = i /\ mem'[i].at = mem[i].at BY <2>1 DEF Running
    <3>2. j # i \/ mem'[i].at < mem'[i].at BY <2>1, <3>1
    <3>3. j # i BY <1>1, <3>1, <3>2 DEF Running, IndInv, TypeOK, InboxEvent
    <3> QED BY <1>4, <2>1, <3>1, <3>3 DEF IndInv, PartitionOrder
  <2>2. CASE q # p BY <1>2, <1>3, <1>4, <2>2 DEF IndInv, PartitionOrder
  <2> QED BY <2>1, <2>2
<1> QED BY <1>5, <1>6

\* A worker step that leaves the files alone keeps what holds of every id whose
\* receipt it is not finishing.
LEMMA FilesKept ==
  ASSUME IndInv, NEW j \in Ids, UNCHANGED <<files, nextAt, aged, up>>,
         settled'[j] = settled[j],
         \A d \in Digests : <<j, d>> \in acked' => <<j, d>> \in acked,
         \A q \in Parts : stage[q] = "finishing" /\ holds[q] = j =>
           stage'[q] = "finishing" /\ holds'[q] = j /\ result'[q] = result[q]
  PROVE  CopyInv(j)' /\ SettledInv(j)' /\ AckedInv(j)' /\ ReviewInv(j)'
<1>1. IdInv(j) BY DEF IndInv
<1>2. CopyInv(j)'
  <2>1. RecordInv(mem[j])' /\ RecordInv(disk[j])' /\ RecordInv(arch[j])'
    BY <1>1 DEF files, IdInv, CopyInv, RecordInv
  <2>2. (mem[j] # NoEvent /\ arch[j] # NoEvent =>
           \/ arch[j] = mem[j]
           \/ \E q \in Parts : /\ stage[q] = "finishing" /\ holds[q] = j
                               /\ arch[j] = Finished(mem[j], result[q]))'
    BY <1>1 DEF IdInv, CopyInv, files
  <2> QED BY <1>1, <2>1, <2>2 DEF IdInv, CopyInv, files, Terminal
<1> QED BY <1>1, <1>2 DEF files, IdInv, SettledInv, AckedInv, ReviewInv, Present

LEMMA BeginInd ==
  ASSUME IndInv, NEW p \in Parts, Begin(p)
  PROVE  IndInv'
<1> USE NoEventAssumption
<1> DEFINE i == holds[p]
           e == [mem[i] EXCEPT !.phase = "executing"]
<1>0. /\ up /\ stage[p] = "handling" /\ stage[p] # "idle" /\ TypeOK
      /\ UNCHANGED <<up, holds, result, nextAt, aged, acked, effects, settled, crashes>>
  BY DEF Begin, IndInv
<1>1. /\ i \in Ids /\ Running(mem[i]) /\ mem[i] \in InboxEvent /\ nextAt \in Nat
      /\ ~Terminal(mem[i]) /\ Partition(i, mem[i]) = p
      /\ \A q \in Parts : holds[q] = i => q = p
      /\ settled[i] = "none" /\ IdInv(i)
  BY <1>0, Holder DEF TypeOK
<1>2. arch[i] = NoEvent /\ i \notin unknown
  <2>1. arch[i] = NoEvent BY <1>0, <1>1, LiveHasNoReceipt DEF Terminal, Running
  <2> QED BY <1>0, <1>1, <2>1 DEF IdInv, ReviewInv, NeedsReview
<1>3. CASE /\ mem[i].phase = "executing"
           /\ stage' = [stage EXCEPT ![p] = "granted"]
           /\ UNCHANGED <<files, faults>>
  <2>1. TypeOK' BY <1>0, <1>3 DEF TypeOK, files
  <2>2. WorkerInv' /\ PartitionOrder' BY <1>0, <1>1, <1>3, WorkerMoves DEF files, TypeOK
  <2>3. ASSUME NEW j \in Ids PROVE IdInv(j)'
    <3>1. CopyInv(j)' /\ SettledInv(j)' /\ AckedInv(j)' /\ ReviewInv(j)'
      BY <1>0, <1>3, FilesKept DEF TypeOK
    <3>2. EffectInv(j)'
      BY <1>0, <1>3 DEF files, IndInv, IdInv, EffectInv, Present, Began, Running
    <3> QED BY <3>1, <3>2 DEF IdInv
  <2> QED BY <1>0, <2>1, <2>2, <2>3 DEF IndInv, DownInv
<1>4. /\ e \in InboxEvent /\ e # NoEvent /\ ~Terminal(e) /\ Running(e)
      /\ e.phase = "executing" /\ e.digest = mem[i].digest /\ e.at = mem[i].at
      /\ e.payload = mem[i].payload /\ e.exhausted = mem[i].exhausted
      /\ e.attempts = mem[i].attempts /\ e.state = "running"
  <2>1. e \in InboxEvent BY <1>1 DEF InboxEvent, Phases
  <2>2. /\ e.phase = "executing" /\ e.digest = mem[i].digest /\ e.at = mem[i].at
        /\ e.payload = mem[i].payload /\ e.exhausted = mem[i].exhausted
        /\ e.attempts = mem[i].attempts /\ e.state = "running"
    BY <1>1 DEF InboxEvent, Running
  <2> QED BY <2>1, <2>2 DEF Terminal, TerminalStates, Running
<1>5. [mem EXCEPT ![i] = e] = [mem EXCEPT ![i].phase = "executing"] BY <1>0, <1>1 DEF TypeOK
<1>6. RecordInv(mem[i]) /\ AckedInv(i) /\ EffectInv(i) /\ CopyInv(i) BY <1>1 DEF IdInv, CopyInv
<1> HIDE DEF e
<1>7. CASE /\ mem[i].phase # "executing"
           /\ SaveOk([mem EXCEPT ![i] = e], arch, unknown)
           /\ stage' = [stage EXCEPT ![p] = "granted"]
  <2>1. \A j \in Ids \ {i} : Frame(j) BY <1>0, <1>1, <1>7 DEF Frame, TypeOK
  <2>2. /\ mem' \in Copies /\ disk' \in Copies /\ arch' \in Copies
        /\ unknown' \subseteq Ids /\ faults' = faults
        /\ \A j \in Ids \ {i} :
             IdInv(j)' /\ (mem'[j] = mem[j] \/ (Terminal(mem[j]) /\ mem'[j] = NoEvent))
        /\ mem'[i] = e /\ disk'[i] = e /\ arch'[i] = NoEvent /\ i \notin unknown'
    BY <1>0, <1>1, <1>2, <1>4, <1>7, <2>1, ReplaceSaved
  <2>3. TypeOK' BY <1>0, <1>7, <2>2 DEF TypeOK, Copies
  <2>4. IdInv(i)'
    <3>1. CopyInv(i)'
      BY <1>0, <1>1, <1>4, <1>6, <2>2
      DEF CopyInv, RecordInv, Terminal, TerminalStates, Running
    <3>2. EffectInv(i)'
      BY <1>0, <1>1, <1>4, <1>6, <1>7, <2>2 DEF EffectInv, Began, Running, Present, Terminal
    <3>3. SettledInv(i)' /\ ReviewInv(i)' /\ AckedInv(i)'
      BY <1>0, <1>1, <1>4, <1>6, <2>2 DEF SettledInv, ReviewInv, AckedInv, Present, Running
    <3> QED BY <3>1, <3>2, <3>3 DEF IdInv
  <2>5. WorkerInv' /\ PartitionOrder' BY <1>0, <1>1, <1>4, <1>7, <2>2, WorkerMoves DEF TypeOK
  <2> QED BY <1>0, <2>2, <2>3, <2>4, <2>5 DEF IndInv, DownInv
<1>8. CASE SaveFailed([mem EXCEPT ![i] = e], arch, unknown) /\ UNCHANGED stage
  <2>1. \A j \in Ids \ {i} : Frame(j) BY <1>0, <1>1, <1>8 DEF Frame, TypeOK
  <2>2. /\ mem' = mem /\ disk' \in Copies /\ arch' \in Copies
        /\ unknown' \subseteq Ids /\ faults' \in Nat
        /\ \A j \in Ids \ {i} : IdInv(j)'
        /\ disk'[i] = disk[i] \/ disk'[i] = e
        /\ arch'[i] = NoEvent /\ i \notin unknown'
    BY <1>0, <1>1, <1>2, <1>4, <1>8, <2>1, ReplaceFailed
  <2>3. TypeOK' BY <1>0, <1>8, <2>2 DEF TypeOK, Copies
  <2>4. IdInv(i)'
    <3>1. CopyInv(i)'
      BY <1>0, <1>1, <1>2, <1>4, <1>6, <2>2
      DEF CopyInv, RecordInv, Terminal, TerminalStates, Running
    <3>2. EffectInv(i)'
      BY <1>0, <1>1, <1>2, <1>4, <1>6, <2>2 DEF EffectInv, Began, Running, Present, Terminal
    <3>3. SettledInv(i)' /\ ReviewInv(i)' /\ AckedInv(i)'
      BY <1>0, <1>1, <1>2, <1>4, <1>6, <2>2 DEF SettledInv, ReviewInv, AckedInv, Present, Running
    <3> QED BY <3>1, <3>2, <3>3 DEF IdInv
  <2>5. WorkerInv' /\ PartitionOrder'
    BY <1>0, <1>8, <2>2 DEF IndInv, WorkerInv, PartitionOrder, Running, Terminal, Partition
  <2> QED BY <1>0, <2>2, <2>3, <2>4, <2>5 DEF IndInv, DownInv
<1> QED BY <1>3, <1>5, <1>7, <1>8 DEF Begin, e

LEMMA AcceptDuplicateInd ==
  ASSUME IndInv, NEW i \in Ids, NEW d \in Digests, i \notin aged, AcceptDuplicate(i, d)
  PROVE  IndInv'
<1>1. /\ up /\ TypeOK /\ acked' = acked \cup {<<i, d>>}
      /\ IF mem[i] # NoEvent THEN mem[i].digest = d
         ELSE arch[i] # NoEvent /\ arch[i].digest = d
      /\ UNCHANGED <<files, up, workers, nextAt, aged, effects, settled, faults, crashes>>
  BY DEF AcceptDuplicate, IndInv
<1>2. TypeOK' BY <1>1 DEF TypeOK, files, workers
<1>3. WorkerInv' /\ PartitionOrder' /\ DownInv'
  BY <1>1
  DEF IndInv, WorkerInv, PartitionOrder, DownInv, files, workers, Running, Terminal, Partition
<1>4. ASSUME NEW j \in Ids PROVE EffectInv(j)'
  <2>1. EffectInv(j) BY DEF IndInv, IdInv
  <2> QED BY <1>1, <2>1 DEF EffectInv, Present, files, Began, Running
<1>5. ASSUME NEW j \in Ids \ {i} PROVE IdInv(j)'
  <2>1. \A x \in Digests : <<j, x>> \in acked' => <<j, x>> \in acked BY <1>1
  <2> QED BY <1>1, <1>4, <2>1, FilesKept DEF IdInv, workers
<1>6. IdInv(i)'
  <2>1. IdInv(i) BY DEF IndInv
  <2>2. CopyInv(i)' /\ SettledInv(i)' /\ ReviewInv(i)'
    <3>1. RecordInv(mem[i])' /\ RecordInv(disk[i])' /\ RecordInv(arch[i])'
      BY <1>1, <2>1 DEF files, IdInv, CopyInv, RecordInv
    <3>2. (mem[i] # NoEvent /\ arch[i] # NoEvent =>
             \/ arch[i] = mem[i]
             \/ \E q \in Parts : /\ stage[q] = "finishing" /\ holds[q] = i
                                 /\ arch[i] = Finished(mem[i], result[q]))'
      BY <1>1, <2>1 DEF IdInv, CopyInv, files, workers
    <3>3. CopyInv(i)' BY <1>1, <2>1, <3>1, <3>2 DEF IdInv, CopyInv, files, Terminal
    <3> QED BY <1>1, <2>1, <3>3 DEF files, IdInv, SettledInv, ReviewInv, Present
  <2>3. AckedInv(i)'
    <3>1. ASSUME NEW x \in Digests, <<i, x>> \in acked
          PROVE  x = d
      BY <1>1, <2>1, <3>1 DEF IdInv, AckedInv
    <3>2. \A x \in Digests : <<i, x>> \in acked' => x = d BY <1>1, <3>1
    <3>3. /\ mem[i] # NoEvent => mem[i].digest = d
          /\ disk[i] # NoEvent => disk[i].digest = d
          /\ arch[i] # NoEvent => arch[i].digest = d
          /\ Present(i)
      BY <1>1, <2>1 DEF IdInv, CopyInv, Present
    <3> QED BY <1>1, <3>2, <3>3 DEF AckedInv, files, Present
  <2> QED BY <1>4, <2>2, <2>3 DEF IdInv
<1> QED BY <1>2, <1>3, <1>5, <1>6 DEF IndInv

LEMMA EffectInd ==
  ASSUME IndInv, NEW p \in Parts, Effect(p)
  PROVE  IndInv'
<1> DEFINE i == holds[p]
<1>0. /\ up /\ stage[p] = "granted" /\ stage[p] # "idle" /\ TypeOK
      /\ stage' = [stage EXCEPT ![p] = "handling"]
      /\ UNCHANGED <<files, up, holds, result, nextAt, aged, acked, settled, faults, crashes>>
  BY DEF Effect, IndInv
<1>1. /\ i \in Ids /\ Running(mem[i]) /\ mem[i] \in InboxEvent
      /\ mem[i].phase = "executing" /\ IdInv(i)
  BY <1>0, Holder DEF IndInv, WorkerInv
<1>2. effects' = effects \/ effects' = effects \cup {<<i, mem[i].attempts>>} BY DEF Effect
<1>3. TypeOK' BY <1>0, <1>1, <1>2 DEF TypeOK, files, InboxEvent
<1>4. WorkerInv' /\ PartitionOrder' BY <1>0, <1>1, WorkerMoves DEF files, TypeOK
<1>5. ASSUME NEW j \in Ids PROVE IdInv(j)'
  <2>1. CopyInv(j)' /\ SettledInv(j)' /\ AckedInv(j)' /\ ReviewInv(j)'
    BY <1>0, FilesKept DEF TypeOK
  <2>2. ASSUME NEW x \in effects', x[1] = j, x \notin effects
        PROVE  j = i /\ x[2] = mem[i].attempts
    BY <1>2, <2>2
  <2>3. /\ mem[i] # NoEvent => Began(mem[i], mem[i].attempts)
        /\ disk[i] # NoEvent => Began(disk[i], mem[i].attempts)
        /\ arch[i] # NoEvent => ~arch[i].exhausted
        /\ Present(i)
    BY <1>1 DEF IdInv, EffectInv, CopyInv, Present, Began, Running
  <2>4. EffectInv(j) BY DEF IndInv, IdInv
  <2>5. EffectInv(j)'
    BY <1>0, <2>2, <2>3, <2>4 DEF EffectInv, files, Present, Began, Running, Terminal
  <2> QED BY <2>1, <2>5 DEF IdInv
<1> QED BY <1>0, <1>3, <1>4, <1>5 DEF IndInv, DownInv, files

LEMMA HandlerReturnsInd ==
  ASSUME IndInv, NEW p \in Parts, NEW r \in Results, HandlerReturns(p, r)
  PROVE  IndInv'
<1>0. /\ up /\ stage[p] = "handling" /\ stage[p] # "idle" /\ TypeOK
      /\ stage' = [stage EXCEPT ![p] = "finishing"]
      /\ result' = [result EXCEPT ![p] = r]
      /\ UNCHANGED <<files, up, holds, nextAt, aged, acked, effects, settled, faults, crashes>>
  BY DEF HandlerReturns, IndInv
<1>1. TypeOK' BY <1>0 DEF TypeOK, files
<1>2. WorkerInv' /\ PartitionOrder' BY <1>0, Holder, WorkerMoves DEF files, TypeOK
<1>3. ASSUME NEW j \in Ids PROVE IdInv(j)'
  <2>1. CopyInv(j)' /\ SettledInv(j)' /\ AckedInv(j)' /\ ReviewInv(j)'
    BY <1>0, FilesKept DEF TypeOK
  <2>2. EffectInv(j)' BY <1>0 DEF files, IndInv, IdInv, EffectInv, Present, Began, Running
  <2> QED BY <2>1, <2>2 DEF IdInv
<1> QED BY <1>0, <1>1, <1>2, <1>3 DEF IndInv, DownInv, files

\* What finish makes of a running record.
LEMMA FinishedRecord ==
  ASSUME NEW r \in InboxEvent, Running(r), r.phase \in {"preparing", "executing"},
         NEW x \in Results, ~r.exhausted
  PROVE  /\ Finished(r, x) \in InboxEvent
         /\ Finished(r, x).digest = r.digest /\ Finished(r, x).at = r.at
         /\ \/ Finished(r, x).state \in TerminalStates
            \/ Finished(r, x).state = "pending" /\ Finished(r, x).payload = r.payload
         /\ Finished(r, x).exhausted =>
              Finished(r, x).state = "failed" /\ r.phase = "preparing"
         /\ r.phase = "executing" => Finished(r, x).state \in TerminalStates
<1> USE DEF InboxEvent, States, TerminalStates, Phases
<1>1. CASE x = "ok"
  <2>1. Finished(r, x) = [r EXCEPT !.state = "completed", !.payload = FALSE] BY <1>1 DEF Finished
  <2> QED BY <2>1
<1>2. CASE x = "rejected"
  <2>1. Finished(r, x) = [r EXCEPT !.state = "failed", !.payload = FALSE] BY <1>2 DEF Finished
  <2> QED BY <2>1
<1>3. CASE x = "error" /\ r.phase = "preparing" /\ r.attempts < MaxAttempts
  <2>1. Finished(r, x) = [r EXCEPT !.state = "pending", !.wait = TRUE]
    BY <1>3, BoundsAssumption DEF Finished
  <2> QED BY <1>3, <2>1
<1>4. CASE x = "error" /\ r.phase = "preparing" /\ ~(r.attempts < MaxAttempts)
  <2>1. Finished(r, x) = [r EXCEPT !.state = "failed", !.exhausted = TRUE]
    BY <1>4, BoundsAssumption DEF Finished
  <2> QED BY <1>4, <2>1
<1>5. CASE x = "error" /\ r.phase = "executing"
  <2>1. Finished(r, x) = [r EXCEPT !.state = "outcome_unknown"] BY <1>5 DEF Finished
  <2> QED BY <1>5, <2>1
<1> QED BY <1>1, <1>2, <1>3, <1>4, <1>5 DEF Results

LEMMA FinishInd ==
  ASSUME IndInv, NEW p \in Parts, Finish(p)
  PROVE  IndInv'
<1> USE NoEventAssumption, NoIdAssumption
<1>i. PICK i \in Ids : holds[p] = i BY Holder DEF Finish
<1> DEFINE e == Finished(mem[i], result[p])
<1>0. /\ up /\ stage[p] = "finishing" /\ stage[p] # "idle" /\ TypeOK
      /\ result[p] \in Results
      /\ UNCHANGED <<up, nextAt, aged, acked, effects, crashes>>
  BY DEF Finish, IndInv, TypeOK
<1>1. /\ i \in Ids /\ Running(mem[i]) /\ mem[i] \in InboxEvent /\ nextAt \in Nat
      /\ ~Terminal(mem[i]) /\ mem[i] # NoEvent
      /\ mem[i].phase \in {"preparing", "executing"}
      /\ \A q \in Parts : holds[q] = i => q = p
      /\ settled[i] = "none" /\ CopyInv(i) /\ EffectInv(i) /\ AckedInv(i) /\ ReviewInv(i)
  BY <1>0, <1>i, Holder DEF TypeOK, IdInv, Running
<1>2. /\ e \in InboxEvent /\ e # NoEvent /\ e.digest = mem[i].digest /\ e.at = mem[i].at
      /\ Terminal(e) \/ (e.state = "pending" /\ e.payload)
      /\ e.exhausted => e.state = "failed" /\ mem[i].phase = "preparing"
      /\ mem[i].phase = "executing" => Terminal(e)
  <2>1. ~mem[i].exhausted /\ mem[i].payload
    BY <1>1 DEF CopyInv, RecordInv, Running, TerminalStates
  <2> QED BY <1>0, <1>1, <2>1, FinishedRecord DEF Terminal
<1>3. arch[i] # NoEvent => arch[i] = e /\ Terminal(e) BY <1>1, <1>i DEF CopyInv, Terminal
<1>4. \A x \in effects : x[1] = i => mem[i].phase = "executing" BY <1>1 DEF EffectInv, Began
<1>5. /\ Terminal(e) => Outcome(e) \in TerminalStates \cup {"exhausted"}
      /\ ~Running(e)
      /\ RecordInv(e)
  BY <1>1, <1>2 DEF Terminal, TerminalStates, Outcome, Running, RecordInv, CopyInv
<1> HIDE DEF e
<1>6. CASE /\ SaveOk([mem EXCEPT ![i] = e], arch, unknown)
           /\ stage' = [stage EXCEPT ![p] = "idle"]
           /\ holds' = [holds EXCEPT ![p] = NoId]
           /\ result' = [result EXCEPT ![p] = "ok"]
           /\ settled' = [settled EXCEPT ![i] = IF Terminal(e) THEN Outcome(e) ELSE @]
  <2>1. \A j \in Ids \ {i} : Frame(j) BY <1>0, <1>1, <1>6, <1>i DEF Frame, TypeOK
  <2>2. /\ mem' \in Copies /\ disk' \in Copies /\ arch' \in Copies
        /\ unknown' \subseteq Ids /\ faults' = faults
        /\ \A j \in Ids \ {i} :
             IdInv(j)' /\ (mem'[j] = mem[j] \/ (Terminal(mem[j]) /\ mem'[j] = NoEvent))
        /\ \/ /\ mem'[i] = e /\ disk'[i] = e /\ arch'[i] = arch[i]
              /\ i \in unknown' <=> i \in unknown
           \/ /\ Terminal(e) /\ mem'[i] = NoEvent /\ disk'[i] = NoEvent /\ arch'[i] = e
              /\ i \in unknown' <=> (i \in unknown \/ NeedsReview(e))
    <3>1. /\ mem' \in Copies /\ disk' \in Copies /\ arch' \in Copies
          /\ unknown' \subseteq Ids /\ faults' = faults
          /\ \A j \in Ids \ {i} :
               IdInv(j)' /\ (mem'[j] = mem[j] \/ (Terminal(mem[j]) /\ mem'[j] = NoEvent))
          /\ \/ /\ mem'[i] = e /\ disk'[i] = e /\ arch'[i] = arch[i]
                /\ i \in unknown' <=> i \in unknown
             \/ /\ Terminal(e) /\ mem'[i] = NoEvent /\ disk'[i] = NoEvent
                /\ \/ arch[i] = NoEvent /\ arch'[i] = e
                   \/ /\ arch[i] # NoEvent /\ arch'[i] = arch[i]
                      /\ arch[i].digest = e.digest /\ arch[i].state = e.state
                /\ i \in unknown' <=> (i \in unknown \/ NeedsReview(e))
      BY <1>0, <1>1, <1>2, <1>6, <2>1, ReplaceSaved
    <3> QED BY <1>3, <3>1
  <2>3. settled'[i] = (IF Terminal(e) THEN Outcome(e) ELSE "none") BY <1>0, <1>1, <1>6 DEF TypeOK
  <2>4. TypeOK' BY <1>0, <1>5, <1>6, <2>2 DEF TypeOK, Copies, Results
  <2>5. IdInv(i)'
    <3>1. CopyInv(i)'
      <4>1. RecordInv(mem[i])' /\ RecordInv(disk[i])' /\ RecordInv(arch[i])'
        BY <1>0, <1>3, <1>5, <2>2 DEF RecordInv
      <4>2. arch'[i] # NoEvent => Terminal(arch'[i]) BY <1>3, <2>2
      <4> QED BY <1>2, <1>3, <2>2, <4>1, <4>2 DEF CopyInv, Terminal
    <3>2. EffectInv(i)'
      BY <1>0, <1>1, <1>2, <1>3, <1>4, <1>5, <2>2
      DEF EffectInv, Began, Running, Present, Terminal, TerminalStates
    <3>3. SettledInv(i)' BY <1>3, <2>2, <2>3 DEF SettledInv, Present, Terminal, Outcome
    <3>4. AckedInv(i)' BY <1>0, <1>1, <1>2, <1>3, <2>2 DEF AckedInv, Present
    <3>5. ReviewInv(i)' BY <1>0, <1>1, <1>2, <1>3, <2>2 DEF ReviewInv, NeedsReview
    <3> QED BY <3>1, <3>2, <3>3, <3>4, <3>5 DEF IdInv
  <2>6. WorkerInv' /\ PartitionOrder'
    <3>1. ~Running(mem'[i]) BY <1>5, <2>2 DEF Running
    <3>2. mem'[i] # NoEvent => mem'[i].digest = mem[i].digest /\ mem'[i].at = mem[i].at
      BY <1>2, <2>2
    <3>3. /\ holds'[p] = NoId /\ stage'[p] = "idle"
          /\ \A q \in Parts \ {p} : stage'[q] = stage[q] /\ holds'[q] = holds[q]
      BY <1>0, <1>6 DEF TypeOK
    <3> QED BY <1>0, <1>i, <2>2, <3>1, <3>2, <3>3, WorkerMoves
  <2> QED BY <1>0, <2>2, <2>4, <2>5, <2>6 DEF IndInv, DownInv
<1>7. CASE SaveFailed([mem EXCEPT ![i] = e], arch, unknown) /\ UNCHANGED <<workers, settled>>
  <2>1. \A j \in Ids \ {i} : Frame(j) BY <1>0, <1>1, <1>7, <1>i DEF Frame, workers
  <2>2. /\ mem' = mem /\ disk' \in Copies /\ arch' \in Copies
        /\ unknown' \subseteq Ids /\ faults' \in Nat
        /\ \A j \in Ids \ {i} : IdInv(j)'
        /\ \/ /\ disk'[i] = disk[i] \/ disk'[i] = e
              /\ arch'[i] = arch[i]
              /\ i \in unknown' <=> i \in unknown
           \/ /\ Terminal(e) /\ (disk'[i] = disk[i] \/ disk'[i] = NoEvent)
              /\ arch'[i] = e
              /\ i \in unknown' => i \in unknown \/ NeedsReview(e)
    <3>1. /\ mem' = mem /\ disk' \in Copies /\ arch' \in Copies
          /\ unknown' \subseteq Ids /\ faults' \in Nat
          /\ \A j \in Ids \ {i} : IdInv(j)'
          /\ \/ /\ disk'[i] = disk[i] \/ disk'[i] = e
                /\ arch'[i] = arch[i]
                /\ i \in unknown' <=> i \in unknown
             \/ /\ Terminal(e) /\ (disk'[i] = disk[i] \/ disk'[i] = NoEvent)
                /\ \/ arch[i] = NoEvent /\ arch'[i] = e
                   \/ /\ arch[i] # NoEvent /\ arch'[i] = arch[i]
                      /\ arch[i].digest = e.digest /\ arch[i].state = e.state
                /\ i \in unknown => i \in unknown'
                /\ i \in unknown' => i \in unknown \/ NeedsReview(e)
      BY <1>0, <1>1, <1>2, <1>7, <2>1, ReplaceFailed
    <3> QED BY <1>3, <3>1
  <2>3. TypeOK' BY <1>0, <1>7, <2>2 DEF TypeOK, Copies, workers
  <2>4. IdInv(i)'
    <3>1. CopyInv(i)'
      <4>1. RecordInv(mem[i])' /\ RecordInv(disk[i])' /\ RecordInv(arch[i])'
        BY <1>0, <1>1, <1>3, <1>5, <2>2 DEF RecordInv, CopyInv
      <4>2. arch'[i] # NoEvent => Terminal(arch'[i]) /\ arch'[i] = e BY <1>3, <2>2
      <4>3. (mem[i] # NoEvent /\ arch[i] # NoEvent =>
               \/ arch[i] = mem[i]
               \/ \E q \in Parts : /\ stage[q] = "finishing" /\ holds[q] = i
                                   /\ arch[i] = Finished(mem[i], result[q]))'
        <5>1. arch'[i] # NoEvent =>
                /\ stage'[p] = "finishing" /\ holds'[p] = i
                /\ arch'[i] = Finished(mem'[i], result'[p])
          BY <1>0, <1>7, <1>i, <2>2, <4>2 DEF e, workers
        <5> QED BY <5>1
      <4>5. /\ mem'[i] # NoEvent /\ disk'[i] # NoEvent => mem'[i].digest = disk'[i].digest
            /\ arch'[i] # NoEvent /\ disk'[i] # NoEvent => arch'[i].digest = disk'[i].digest
            /\ mem'[i] # NoEvent /\ arch'[i] # NoEvent => mem'[i].digest = arch'[i].digest
            /\ mem'[i] # NoEvent /\ i \notin aged' => disk'[i] # NoEvent \/ arch'[i] # NoEvent
        BY <1>0, <1>1, <1>2, <2>2, <4>2 DEF CopyInv
      <4> QED BY <4>1, <4>2, <4>3, <4>5 DEF CopyInv, Terminal
    <3>2. EffectInv(i)'
      BY <1>0, <1>1, <1>2, <1>3, <1>4, <1>7, <2>2
      DEF EffectInv, Began, Running, Present, Terminal, workers
    <3>3. SettledInv(i)' BY <1>1, <1>7 DEF SettledInv, workers
    <3>4. AckedInv(i)' BY <1>0, <1>1, <1>2, <1>3, <1>7, <2>2 DEF AckedInv, Present, workers
    <3>5. ReviewInv(i)' BY <1>0, <1>1, <1>2, <1>3, <1>7, <2>2 DEF ReviewInv, NeedsReview, workers
    <3> QED BY <3>1, <3>2, <3>3, <3>4, <3>5 DEF IdInv
  <2>5. WorkerInv' /\ PartitionOrder'
    BY <1>0, <1>7, <2>2
    DEF IndInv, WorkerInv, PartitionOrder, Running, Terminal, Partition, workers
  <2> QED BY <1>0, <1>7, <2>2, <2>3, <2>4, <2>5 DEF IndInv, DownInv, workers
<1> QED BY <1>i, <1>6, <1>7 DEF Finish, e

(* Time and maintenance.                                                   *)

\* The workers keep their records when those are left as they are.
LEMMA WorkersStay ==
  ASSUME IndInv, UNCHANGED <<up, workers>>,
         \A j \in Ids : Running(mem[j]) \/ Running(mem'[j]) => mem'[j] = mem[j]
  PROVE  WorkerInv'
<1>1. stage' = stage /\ holds' = holds /\ up' = up BY DEF workers
<1>2. ASSUME NEW q \in Parts
      PROVE  IF stage[q] = "idle" THEN holds[q] = NoId
             ELSE /\ up /\ holds[q] \in Ids /\ Running(mem'[holds[q]])
                  /\ Partition(holds[q], mem'[holds[q]]) = q
                  /\ stage[q] = "granted" => mem'[holds[q]].phase = "executing"
  <2>1. CASE stage[q] = "idle" BY <2>1 DEF IndInv, WorkerInv
  <2>2. CASE stage[q] # "idle"
    <3>1. /\ up /\ holds[q] \in Ids /\ Running(mem[holds[q]])
          /\ Partition(holds[q], mem[holds[q]]) = q
          /\ stage[q] = "granted" => mem[holds[q]].phase = "executing"
      BY <2>2 DEF IndInv, WorkerInv
    <3>2. mem'[holds[q]] = mem[holds[q]] BY <3>1
    <3> QED BY <2>2, <3>1, <3>2
  <2> QED BY <2>1, <2>2
<1>3. ASSUME NEW j \in Ids, Running(mem'[j])
      PROVE  /\ holds[Partition(j, mem'[j])] = j
             /\ mem'[j].phase \in {"preparing", "executing"}
  <2>1. mem'[j] = mem[j] BY <1>3
  <2> QED BY <1>3, <2>1 DEF IndInv, WorkerInv
<1> QED BY <1>1, <1>2, <1>3 DEF WorkerInv, Running, Partition

LEMMA RetryDueInd ==
  ASSUME IndInv, NEW i \in Ids, RetryDue(i)
  PROVE  IndInv'
<1> USE NoEventAssumption
<1>0. /\ mem[i] # NoEvent /\ mem[i].state = "pending" /\ TypeOK
      /\ mem[i] \in InboxEvent /\ nextAt \in Nat /\ IdInv(i)
      /\ UNCHANGED <<arch, unknown, up, workers, nextAt, aged, acked, effects, settled,
                     faults, crashes>>
  BY DEF RetryDue, IndInv, TypeOK
<1>1. /\ mem'[i] = [mem[i] EXCEPT !.wait = FALSE]
      /\ disk'[i] = IF disk[i] = NoEvent THEN NoEvent ELSE [disk[i] EXCEPT !.wait = FALSE]
      /\ \A j \in Ids \ {i} : mem'[j] = mem[j] /\ disk'[j] = disk[j]
      /\ mem' \in Copies /\ disk' \in Copies
  <2>1. \A r \in InboxEvent : [r EXCEPT !.wait = FALSE] \in InboxEvent BY DEF InboxEvent
  <2> QED BY <1>0, <2>1 DEF RetryDue, TypeOK, Copies
<1>2. /\ mem'[i] \in InboxEvent /\ mem'[i].state = "pending" /\ mem'[i].at = mem[i].at
      /\ mem'[i].digest = mem[i].digest /\ mem'[i].payload = mem[i].payload
      /\ mem'[i].exhausted = mem[i].exhausted
  BY <1>0, <1>1 DEF InboxEvent
<1>3. disk[i] # NoEvent =>
        /\ disk'[i] # NoEvent /\ disk'[i].state = disk[i].state
        /\ disk'[i].digest = disk[i].digest /\ disk'[i].at = disk[i].at
        /\ disk'[i].payload = disk[i].payload /\ disk'[i].exhausted = disk[i].exhausted
  <2>1. ASSUME NEW r \in InboxEvent
        PROVE  LET w == [r EXCEPT !.wait = FALSE]
               IN  /\ w \in InboxEvent /\ w.state = r.state /\ w.digest = r.digest
                   /\ w.at = r.at /\ w.payload = r.payload /\ w.exhausted = r.exhausted
    BY DEF InboxEvent
  <2> QED BY <1>0, <1>1, <2>1 DEF TypeOK
<1>4. /\ arch[i] = NoEvent /\ settled[i] = "none" /\ \A x \in effects : x[1] # i
      /\ \A p \in Parts : holds[p] # i
  <2>1. \A p \in Parts : holds[p] # i BY <1>0, NoIdAssumption DEF IndInv, WorkerInv, Running
  <2>2. arch[i] = NoEvent BY <1>0, <2>1, LiveHasNoReceipt DEF TerminalStates
  <2>3. settled[i] = "none" /\ \A x \in effects : x[1] # i
    BY <1>0 DEF IdInv, SettledInv, EffectInv, Began, Terminal, TerminalStates
  <2> QED BY <2>1, <2>2, <2>3
<1>5. TypeOK' BY <1>0, <1>1 DEF TypeOK, Copies, workers
<1>6. ASSUME NEW j \in Ids \ {i} PROVE IdInv(j)'
  <2>1. mem \in Copies /\ FailedAt(j, mem, arch, unknown) /\ up /\ Frame(j)
    BY <1>0, <1>1 DEF TypeOK, Copies, FailedAt, Frame, workers, IndInv, DownInv, Nothing
  <2> QED BY <2>1, OtherFailed
<1>7. IdInv(i)'
  <2>1. CopyInv(i)' BY <1>0, <1>1, <1>2, <1>3, <1>4 DEF IdInv, CopyInv, RecordInv, Terminal
  <2>2. EffectInv(i)' /\ SettledInv(i)' /\ ReviewInv(i)'
    BY <1>0, <1>2, <1>4 DEF IdInv, EffectInv, SettledInv, ReviewInv, Running
  <2>3. AckedInv(i)' BY <1>0, <1>1, <1>2, <1>3 DEF IdInv, AckedInv, Present
  <2> QED BY <2>1, <2>2, <2>3 DEF IdInv
<1>8. WorkerInv' /\ PartitionOrder'
  <2>1. \A j \in Ids : /\ Running(mem'[j]) <=> Running(mem[j])
                       /\ Running(mem[j]) => mem'[j] = mem[j]
    BY <1>0, <1>1, <1>2 DEF Running
  <2>2. \A j \in Ids : mem'[j] # NoEvent =>
          /\ mem[j] # NoEvent /\ mem'[j].at = mem[j].at /\ mem'[j].digest = mem[j].digest
          /\ Terminal(mem[j]) => mem'[j] = mem[j]
    BY <1>0, <1>1, <1>2 DEF Terminal, TerminalStates
  <2>3. WorkerInv'
    <3>1. \A j \in Ids : Running(mem[j]) \/ Running(mem'[j]) => mem'[j] = mem[j]
      BY <2>1 DEF Running
    <3> QED BY <1>0, <3>1, WorkersStay
  <2>4. PartitionOrder'
    BY <1>0, <2>1, <2>2
    DEF IndInv, WorkerInv, PartitionOrder, Partition, Terminal, workers
  <2> QED BY <2>3, <2>4
<1> QED BY <1>0, <1>5, <1>6, <1>7, <1>8 DEF IndInv, DownInv, RetryDue, Nothing

LEMMA AgeInd ==
  ASSUME IndInv, NEW i \in Ids, Age(i)
  PROVE  IndInv'
<1>1. /\ aged' = aged \cup {i}
      /\ UNCHANGED <<files, up, workers, nextAt, acked, effects, settled, faults, crashes>>
  BY DEF Age
<1>2. TypeOK' BY <1>1 DEF IndInv, TypeOK, files, workers
<1>3. WorkerInv' /\ DownInv' /\ PartitionOrder'
  BY <1>1
  DEF IndInv, WorkerInv, DownInv, PartitionOrder, files, workers, Running, Terminal, Partition
<1>4. ASSUME NEW j \in Ids PROVE IdInv(j)'
  <2>1. IdInv(j) BY DEF IndInv
  <2>2. CopyInv(j)'
    <3>1. RecordInv(mem[j])' /\ RecordInv(disk[j])' /\ RecordInv(arch[j])'
      BY <1>1, <2>1 DEF files, IdInv, CopyInv, RecordInv
    <3>2. (mem[j] # NoEvent /\ arch[j] # NoEvent =>
             \/ arch[j] = mem[j]
             \/ \E q \in Parts : /\ stage[q] = "finishing" /\ holds[q] = j
                                 /\ arch[j] = Finished(mem[j], result[q]))'
      BY <1>1, <2>1 DEF IdInv, CopyInv, files, workers
    <3> QED BY <1>1, <2>1, <3>1, <3>2 DEF IdInv, CopyInv, files, Terminal
  <2>3. EffectInv(j)' BY <1>1, <2>1 DEF IdInv, EffectInv, files, Present, Began, Running
  <2>4. SettledInv(j)' /\ AckedInv(j)' /\ ReviewInv(j)'
    BY <1>1, <2>1 DEF IdInv, SettledInv, AckedInv, ReviewInv, files, Present
  <2> QED BY <2>2, <2>3, <2>4 DEF IdInv
<1> QED BY <1>2, <1>3, <1>4 DEF IndInv

\* A receipt past its retention may go while its record is still in the file.
LEMMA AgedReceiptGoes ==
  ASSUME IndInv, NEW j \in aged, j \in Ids, Frame(j),
         mem'[j] = mem[j], disk'[j] = mem[j], arch'[j] = NoEvent, j \notin unknown'
  PROVE  IdInv(j)'
<1> USE NoEventAssumption
<1>1. mem[j] \in InboxEvent \cup {NoEvent} /\ nextAt \in Nat BY DEF IndInv, TypeOK
<1>2. IdInv(j) BY DEF IndInv
<1>3. CopyInv(j)' BY <1>1, <1>2 DEF IdInv, CopyInv, RecordInv, Frame, InboxEvent
<1>4. EffectInv(j)' BY <1>2 DEF IdInv, EffectInv, Present, Began, Running, Frame
<1>5. SettledInv(j)' /\ AckedInv(j)' /\ ReviewInv(j)'
  BY <1>2 DEF IdInv, SettledInv, AckedInv, ReviewInv, Present, Frame, NeedsReview
<1> QED BY <1>3, <1>4, <1>5 DEF IdInv

LEMMA PruneInd ==
  ASSUME IndInv, Prune
  PROVE  IndInv'
<1> USE NoEventAssumption
<1> DEFINE kept == Remove(mem, Expired(mem))
<1>0. /\ up /\ TypeOK /\ mem \in Copies /\ arch \in Copies /\ disk \in Copies
      /\ unknown \subseteq Ids /\ nextAt \in Nat
      /\ UNCHANGED <<up, workers, nextAt, aged, acked, effects, settled, crashes>>
  BY DEF Prune, IndInv, TypeOK, Copies
<1>1. /\ kept \in Copies
      /\ \A j \in Ids : kept[j] = IF j \in Expired(mem) THEN NoEvent ELSE mem[j]
  BY <1>0 DEF Remove, Copies
<1>2. \A j \in Ids : Frame(j) BY <1>0 DEF Frame, workers
<1>3. \A j \in Ids : j \in unknown => arch[j] # NoEvent
  BY <1>0 DEF IndInv, IdInv, ReviewInv, NeedsReview
<1>4. \A gone \in SUBSET Expired(arch) :
        /\ Remove(arch, gone) \in Copies
        /\ \A j \in Ids : Remove(arch, gone)[j] = IF j \in gone THEN NoEvent ELSE arch[j]
        /\ gone \subseteq aged
  BY <1>0 DEF Remove, Expired, Copies
<1>m. \A gone \in SUBSET Expired(arch), marked \in SUBSET Reviewed(arch, Ids \ aged) :
        /\ (unknown \ gone) \cup marked \in SUBSET Ids
        /\ \A j \in marked : j \in Ids /\ j \notin gone /\ j \notin aged /\ NeedsReview(arch[j])
  BY <1>0 DEF Reviewed, Expired
<1> HIDE DEF kept
\* What is left follows from the fate of each record.
<1>5. ASSUME \A j \in Ids : IdInv(j)',
             \A j \in Ids : mem'[j] = mem[j] \/ (Terminal(mem[j]) /\ mem'[j] = NoEvent)
      PROVE  WorkerInv' /\ PartitionOrder'
  <2>1. ASSUME NEW q \in Parts, stage[q] # "idle"
        PROVE  holds[q] \in Ids /\ mem'[holds[q]] = mem[holds[q]]
    BY <1>5, <2>1, Holder
  <2>2. \A j \in Ids : mem'[j] # NoEvent => mem'[j] = mem[j] BY <1>5
  <2>3. WorkerInv'
    <3>1. \A j \in Ids : Running(mem[j]) \/ Running(mem'[j]) => mem'[j] = mem[j]
      BY <1>5 DEF Running, Terminal, TerminalStates
    <3> QED BY <1>0, <3>1, WorkersStay
  <2>4. PartitionOrder'
    BY <1>0, <2>1, <2>2 DEF IndInv, PartitionOrder, Partition, Terminal, workers
  <2> QED BY <2>3, <2>4
<1>6. ASSUME NEW gone \in SUBSET Expired(arch), NEW marked \in SUBSET Reviewed(arch, Ids \ aged),
             arch' = Remove(arch, gone), unknown' = (unknown \ gone) \cup marked,
             UNCHANGED <<mem, disk, faults>>
      PROVE  IndInv'
  <2>1. ASSUME NEW j \in Ids PROVE IdInv(j)'
    <3>1. CASE j \in gone BY <1>2, <1>3, <1>4, <1>m, <1>6, <3>1, AgedVanishes
    <3>2. CASE j \notin gone
      <4>1. FailedAt(j, mem, arch, (unknown \ gone) \cup marked) BY <1>4, <1>6, <3>2 DEF FailedAt
      <4>2. /\ (unknown \ gone) \cup marked \in SUBSET Ids
            /\ j \in unknown => j \in (unknown \ gone) \cup marked
            /\ j \in (unknown \ gone) \cup marked => j \in unknown \/ NeedsReview(arch[j])
        BY <1>m, <3>2
      <4> QED BY <1>0, <1>2, <4>1, <4>2, MarkedFailed
    <3> QED BY <3>1, <3>2
  <2>2. TypeOK' BY <1>0, <1>4, <1>m, <1>6 DEF TypeOK, Copies, workers
  <2> QED BY <1>0, <1>5, <1>6, <2>1, <2>2 DEF IndInv, DownInv
<1>7. ASSUME NEW gone \in SUBSET Expired(arch), NEW marked \in SUBSET Reviewed(arch, Ids \ aged),
             SaveOk(kept, Remove(arch, gone), (unknown \ gone) \cup marked)
      PROVE  IndInv'
  <2>1. /\ mem' \in Copies /\ disk' \in Copies /\ arch' \in Copies
        /\ unknown' \subseteq Ids /\ faults' = faults
        /\ \A j \in Ids : SavedAt(j, kept, Remove(arch, gone), (unknown \ gone) \cup marked)
    <3>1. Remove(arch, gone) \in Copies /\ (unknown \ gone) \cup marked \in SUBSET Ids
      BY <1>4, <1>m
    <3> QED BY <1>1, <1>7, <3>1, SaveOkAt
  <2>2. ASSUME NEW j \in Ids PROVE IdInv(j)'
    <3>0. SavedAt(j, kept, Remove(arch, gone), (unknown \ gone) \cup marked) BY <2>1
    <3>1. CASE j \in Expired(mem)
      <4>1. /\ mem'[j] = NoEvent /\ disk'[j] = NoEvent /\ j \in aged
            /\ arch'[j] \in {arch[j], NoEvent}
            /\ j \in unknown' => j \in unknown /\ j \notin gone /\ arch'[j] = arch[j]
        BY <1>1, <1>4, <1>m, <3>0, <3>1 DEF SavedAt, Archived, Terminal, Expired
      <4> QED BY <1>2, <1>3, <4>1, AgedVanishes
    <3>2. CASE j \notin Expired(mem) /\ j \in gone
      <4>1. kept[j] = mem[j] /\ j \in aged /\ ~Terminal(mem[j]) BY <1>1, <1>4, <3>2 DEF Expired
      <4>2. mem'[j] = mem[j] /\ disk'[j] = mem[j] /\ arch'[j] = NoEvent /\ j \notin unknown'
        BY <1>4, <1>m, <3>0, <3>2, <4>1 DEF SavedAt, Archived, Terminal
      <4> QED BY <1>2, <4>1, <4>2, AgedReceiptGoes
    <3>3. CASE j \notin Expired(mem) /\ j \notin gone
      <4>1. kept[j] = mem[j] /\ Remove(arch, gone)[j] = arch[j] BY <1>1, <1>4, <3>3
      <4>2. SavedAt(j, kept, arch, (unknown \ gone) \cup marked)
        BY <3>0, <3>3, <4>1 DEF SavedAt, Archived
      <4>3. /\ (unknown \ gone) \cup marked \in SUBSET Ids
            /\ j \in unknown => j \in (unknown \ gone) \cup marked
            /\ j \in (unknown \ gone) \cup marked => j \in unknown \/ NeedsReview(arch[j])
        BY <1>m, <3>3
      <4> QED BY <1>0, <1>1, <1>2, <4>1, <4>2, <4>3, MarkedSaved
    <3> QED BY <3>1, <3>2, <3>3
  <2>3. \A j \in Ids : mem'[j] = mem[j] \/ (Terminal(mem[j]) /\ mem'[j] = NoEvent)
    BY <1>1, <2>1 DEF SavedAt, Archived, Expired, Terminal
  <2>4. TypeOK' BY <1>0, <2>1 DEF TypeOK, Copies, workers
  <2> QED BY <1>0, <1>5, <2>2, <2>3, <2>4 DEF IndInv, DownInv
<1>8. CASE SaveFailed(kept, arch, unknown)
  <2>1. /\ mem' = mem /\ disk' \in Copies /\ arch' \in Copies
        /\ unknown' \subseteq Ids /\ faults' \in Nat
        /\ \A j \in Ids : FailedAt(j, kept, arch, unknown)
    BY <1>0, <1>1, <1>8, SaveFailedAt
  <2>2. ASSUME NEW j \in Ids PROVE IdInv(j)'
    <3>1. CASE j \in Expired(mem)
      <4>1. kept[j] = NoEvent /\ j \in aged BY <1>1, <3>1 DEF Expired
      <4>2. /\ disk'[j] \in {disk[j], NoEvent} /\ arch'[j] = arch[j]
            /\ j \in unknown' => j \in unknown
        BY <2>1, <4>1 DEF FailedAt, Archived, Terminal
      <4> QED BY <1>2, <1>3, <2>1, <4>1, <4>2, AgedVanishes
    <3>2. CASE j \notin Expired(mem) BY <1>0, <1>1, <1>2, <2>1, <3>2, OtherFailed
    <3> QED BY <3>1, <3>2
  <2>3. TypeOK' BY <1>0, <2>1 DEF TypeOK, Copies, workers
  <2> QED BY <1>0, <1>5, <2>1, <2>2, <2>3 DEF IndInv, DownInv
<1> QED BY <1>6, <1>7, <1>8 DEF Prune, kept

(* Crash and restart.                                                      *)

LEMMA CrashInd ==
  ASSUME IndInv, Crash
  PROVE  IndInv'
<1> USE NoEventAssumption
<1>1. /\ up' = FALSE /\ unknown' = {} /\ TypeOK /\ crashes' = crashes + 1
      /\ mem' = Nothing /\ \A j \in Ids : mem'[j] = NoEvent
      /\ \A p \in Parts : stage'[p] = "idle" /\ holds'[p] = NoId
      /\ UNCHANGED <<disk, arch, nextAt, aged, acked, effects, settled, faults>>
  BY DEF Crash, IndInv, Nothing
<1>2. TypeOK'
  <2>1. /\ mem' \in [Ids -> InboxEvent \cup {NoEvent}]
        /\ unknown' \subseteq Ids /\ up' \in BOOLEAN
    BY <1>1 DEF Nothing
  <2>2. /\ stage' \in [Parts -> {"idle", "handling", "granted", "finishing"}]
        /\ holds' \in [Parts -> Ids \cup {NoId}]
        /\ result' \in [Parts -> Results]
    BY DEF Crash, Results
  <2>3. crashes' \in Nat BY <1>1 DEF TypeOK
  <2> QED BY <1>1, <2>1, <2>2, <2>3 DEF TypeOK
<1>3. WorkerInv' /\ DownInv' /\ PartitionOrder'
  BY <1>1 DEF WorkerInv, DownInv, PartitionOrder, Running, Nothing
<1>4. ASSUME NEW j \in Ids PROVE IdInv(j)'
  <2>1. IdInv(j) BY DEF IndInv
  <2>2. CopyInv(j)' BY <1>1, <2>1 DEF IdInv, CopyInv, RecordInv, Terminal
  <2>3. EffectInv(j)' BY <1>1, <2>1 DEF IdInv, EffectInv, Present, Began, Running
  <2>4. SettledInv(j)' /\ AckedInv(j)' /\ ReviewInv(j)'
    BY <1>1, <2>1 DEF IdInv, SettledInv, AckedInv, ReviewInv, Present
  <2> QED BY <2>2, <2>3, <2>4 DEF IdInv
<1> QED BY <1>2, <1>3, <1>4 DEF IndInv

\* What a restart makes of one record: it is a receipt, or the record of the
\* inbox file, which no longer runs.
LEMMA RecoveredRecord ==
  ASSUME NEW r \in InboxEvent
  PROVE  /\ Recovered(r) \in InboxEvent
         /\ Recovered(r).digest = r.digest /\ Recovered(r).at = r.at
         /\ Recovered(r).payload = r.payload /\ Recovered(r).exhausted = r.exhausted
         /\ r.state # "running" => Recovered(r) = r
         /\ r.state = "running" /\ r.phase = "preparing" => Recovered(r).state = "pending"
         /\ r.state = "running" /\ r.phase # "preparing" =>
              Recovered(r).state = "outcome_unknown"
<1> USE NoEventAssumption DEF InboxEvent, States
<1>1. CASE r.state = "running" /\ r.phase = "preparing"
  <2>1. Recovered(r) = [r EXCEPT !.state = "pending"] BY <1>1 DEF Recovered
  <2> QED BY <1>1, <2>1
<1>2. CASE r.state = "running" /\ r.phase # "preparing"
  <2>1. Recovered(r) = [r EXCEPT !.state = "outcome_unknown"] BY <1>2 DEF Recovered
  <2> QED BY <1>2, <2>1
<1>3. CASE r.state # "running"
  <2>1. Recovered(r) = r BY <1>3 DEF Recovered
  <2> QED BY <1>3, <2>1
<1> QED BY <1>1, <1>2, <1>3

LEMMA LoadInd ==
  ASSUME IndInv, Load
  PROVE  IndInv'
<1> USE NoEventAssumption
<1> DEFINE c == Remove(arch, Expired(arch))
           reviews == {j \in Ids : NeedsReview(c[j])}
           r == Recover
<1>0. /\ ~up /\ TypeOK /\ disk \in Copies /\ arch \in Copies /\ nextAt \in Nat
      /\ \A j \in Ids : mem[j] = NoEvent
      /\ \A p \in Parts : stage[p] = "idle" /\ holds[p] = NoId
      /\ UNCHANGED <<workers, nextAt, aged, acked, effects, crashes>>
  BY DEF Load, IndInv, TypeOK, Copies, DownInv, Nothing, WorkerInv
<1>1. /\ c \in Copies /\ reviews \in SUBSET Ids
      /\ \A j \in Ids : \/ c[j] = arch[j]
                        \/ c[j] = NoEvent /\ j \in aged
  BY <1>0 DEF Remove, Expired, Copies
<1>2. ASSUME NEW j \in Ids
      PROVE  /\ disk[j] = NoEvent => r[j] = NoEvent
             /\ disk[j] # NoEvent /\ arch[j] # NoEvent => r[j] = arch[j]
             /\ disk[j] # NoEvent /\ arch[j] = NoEvent => r[j] = Recovered(disk[j])
             /\ r[j] \in InboxEvent \cup {NoEvent}
             /\ disk[j] # NoEvent => r[j] # NoEvent
             /\ disk[j] \in InboxEvent \cup {NoEvent}
             /\ arch[j] \in InboxEvent \cup {NoEvent}
  <2>1. disk[j] \in InboxEvent \cup {NoEvent} /\ arch[j] \in InboxEvent \cup {NoEvent}
    BY <1>0 DEF Copies
  <2>2. r[j] = IF disk[j] = NoEvent THEN NoEvent ELSE Recovered(Durable(j)) BY DEF Recover
  <2>3. arch[j] # NoEvent => arch[j].state # "running"
    BY DEF IndInv, IdInv, CopyInv, Terminal, TerminalStates
  <2> QED BY <2>1, <2>2, <2>3, RecoveredRecord DEF Durable
<1>3. r \in Copies BY <1>2 DEF Recover, Copies
<1> HIDE DEF c, r
\* The recovered record agrees with what the files said of the event.
<1>4. ASSUME NEW j \in Ids, r[j] # NoEvent
      PROVE  /\ disk[j] # NoEvent /\ r[j] \in InboxEvent
             /\ r[j].digest = disk[j].digest
             /\ arch[j] # NoEvent => r[j] = arch[j]
             /\ RecordInv(r[j])
             /\ ~Running(r[j])
             /\ \A n \in Nat : Began(disk[j], n) /\ (arch[j] # NoEvent => ~arch[j].exhausted)
                  => Began(r[j], n)
             /\ Terminal(disk[j]) => Terminal(r[j]) /\ (arch[j] = NoEvent => r[j] = disk[j])
  <2>1. disk[j] # NoEvent /\ CopyInv(j) /\ disk[j] \in InboxEvent BY <1>2, <1>4 DEF IndInv, IdInv
  <2>2. CASE arch[j] # NoEvent
    <3>1. r[j] = arch[j] /\ Terminal(arch[j]) /\ RecordInv(arch[j])
      BY <1>2, <2>1, <2>2 DEF CopyInv
    <3> QED BY <1>2, <2>1, <2>2, <3>1 DEF CopyInv, Running, Terminal, TerminalStates, Began
  <2>3. CASE arch[j] = NoEvent
    <3>1. r[j] = Recovered(disk[j]) /\ RecordInv(disk[j]) BY <1>2, <2>1, <2>3 DEF CopyInv
    <3>2. CASE disk[j].state # "running" BY <2>1, <2>3, <3>1, <3>2, RecoveredRecord DEF Running
    <3>3. CASE disk[j].state = "running"
      <4>1. /\ r[j] \in InboxEvent /\ r[j].digest = disk[j].digest /\ r[j].at = disk[j].at
            /\ r[j].payload = disk[j].payload /\ r[j].exhausted = disk[j].exhausted
            /\ disk[j].phase = "preparing" => r[j].state = "pending"
            /\ disk[j].phase # "preparing" => r[j].state = "outcome_unknown"
        BY <2>1, <3>1, <3>3, RecoveredRecord
      <4>2. disk[j].payload /\ ~disk[j].exhausted /\ disk[j].at < nextAt
        BY <2>1, <3>1, <3>3 DEF RecordInv, TerminalStates
      <4> QED
        BY <1>4, <2>1, <2>3, <3>3, <4>1, <4>2
        DEF RecordInv, Running, Terminal, TerminalStates, Began
    <3> QED BY <3>2, <3>3
  <2> QED BY <2>2, <2>3
<1>5. ASSUME NEW j \in Ids
      PROVE  /\ c[j] # NoEvent => arch[j] = c[j] /\ Terminal(c[j]) /\ RecordInv(c[j])
             /\ c[j] # NoEvent /\ r[j] # NoEvent => c[j] = r[j]
             /\ j \notin aged => c[j] = arch[j]
             /\ c[j] # NoEvent /\ disk[j] # NoEvent => c[j].digest = disk[j].digest
  BY <1>1, <1>4 DEF IndInv, IdInv, CopyInv
<1>6. CASE /\ SaveOk(r, c, reviews)
           /\ up' = TRUE
           /\ settled' = [j \in Ids |->
                            IF Terminal(c[j]) THEN Outcome(c[j])
                            ELSE IF Terminal(r[j]) THEN Outcome(r[j])
                            ELSE settled[j]]
  <2>1. /\ mem' \in Copies /\ disk' \in Copies /\ arch' \in Copies
        /\ unknown' \subseteq Ids /\ faults' = faults
        /\ \A j \in Ids : SavedAt(j, r, c, reviews)
    BY <1>1, <1>3, <1>6, SaveOkAt
  <2>2. ASSUME NEW j \in Ids
        PROVE  \/ /\ mem'[j] = r[j] /\ disk'[j] = r[j] /\ arch'[j] = c[j]
                  /\ j \in unknown' <=> NeedsReview(c[j])
               \/ /\ Terminal(r[j]) /\ r[j] # NoEvent
                  /\ mem'[j] = NoEvent /\ disk'[j] = NoEvent /\ arch'[j] = r[j]
                  /\ j \in unknown' => NeedsReview(r[j])
                  /\ NeedsReview(r[j]) => j \in unknown'
    BY <1>5, <2>1 DEF SavedAt, Archived, Terminal, NeedsReview
  <2>3. ASSUME NEW j \in Ids PROVE IdInv(j)'
    <3>0. EffectInv(j) /\ SettledInv(j) /\ AckedInv(j) /\ up' = TRUE BY <1>6 DEF IndInv, IdInv
    <3>1. CopyInv(j)'
      <4>1. RecordInv(mem[j])' /\ RecordInv(disk[j])' /\ RecordInv(arch[j])'
        BY <1>0, <1>4, <1>5, <2>2 DEF RecordInv
      <4> QED BY <1>0, <1>4, <1>5, <2>2, <4>1 DEF CopyInv, Terminal
    <3>2. EffectInv(j)'
      <4>1. ~Running(mem'[j]) BY <1>4, <2>2 DEF Running
      <4>2. ASSUME NEW x \in effects, x[1] = j
            PROVE  /\ mem'[j] # NoEvent => Began(mem'[j], x[2])
                   /\ disk'[j] # NoEvent => Began(disk'[j], x[2])
                   /\ arch'[j] # NoEvent => ~arch'[j].exhausted
                   /\ Present(j)'
        <5>1. /\ disk[j] # NoEvent => Began(disk[j], x[2])
              /\ arch[j] # NoEvent => ~arch[j].exhausted
              /\ Present(j)
              /\ x[2] \in Nat
          BY <1>0, <3>0, <4>2 DEF EffectInv, TypeOK
        <5>2. r[j] # NoEvent => Began(r[j], x[2]) BY <1>4, <5>1
        <5>3. Terminal(r[j]) => ~r[j].exhausted BY <5>2 DEF Began, Terminal, TerminalStates
        <5> QED BY <1>0, <1>2, <1>5, <2>2, <3>0, <5>1, <5>2, <5>3 DEF Present
      <4> QED BY <1>0, <4>1, <4>2 DEF EffectInv, Running
    <3>3. SettledInv(j)'
      <4>1. settled'[j] = IF Terminal(c[j]) THEN Outcome(c[j])
                          ELSE IF Terminal(r[j]) THEN Outcome(r[j]) ELSE settled[j]
        BY <1>6
      <4>2. CASE Terminal(c[j])
        BY <1>0, <1>5, <2>2, <3>0, <4>1, <4>2 DEF SettledInv, Present, Terminal, Outcome
      <4>3. CASE ~Terminal(c[j]) /\ Terminal(r[j])
        BY <1>0, <1>5, <2>2, <3>0, <4>1, <4>3 DEF SettledInv, Present, Terminal, Outcome
      <4>4. CASE ~Terminal(c[j]) /\ ~Terminal(r[j])
        <5>1. c[j] = NoEvent /\ (settled[j] # "none" => r[j] = NoEvent /\ j \in aged)
          BY <1>2, <1>4, <1>5, <3>0, <4>4 DEF SettledInv, Present
        <5> QED BY <1>0, <2>2, <4>1, <4>4, <5>1 DEF SettledInv, Present
      <4> QED BY <4>2, <4>3, <4>4
    <3>4. AckedInv(j)' BY <1>0, <1>2, <1>4, <1>5, <2>2, <3>0 DEF AckedInv, Present
    <3>5. ReviewInv(j)' BY <1>5, <2>2 DEF ReviewInv, NeedsReview
    <3> QED BY <3>1, <3>2, <3>3, <3>4, <3>5 DEF IdInv
  <2>4. TypeOK'
    <3>1. settled' \in [Ids -> TerminalStates \cup {"exhausted", "none"}]
      BY <1>0, <1>6 DEF TypeOK, Terminal, Outcome
    <3> QED BY <1>0, <1>6, <2>1, <3>1 DEF TypeOK, Copies, workers
  <2>5. WorkerInv' /\ DownInv' /\ PartitionOrder'
    <3>1. \A j \in Ids : ~Running(mem'[j]) BY <1>4, <2>2 DEF Running
    <3> QED BY <1>0, <1>6, <3>1 DEF WorkerInv, DownInv, PartitionOrder, Running, workers
  <2> QED BY <2>3, <2>4, <2>5 DEF IndInv
<1>7. CASE SaveFailed(r, c, reviews) /\ UNCHANGED <<up, settled>>
  <2>1. /\ mem' = mem /\ disk' \in Copies /\ arch' \in Copies
        /\ unknown' \subseteq Ids /\ faults' \in Nat
        /\ \A j \in Ids : FailedAt(j, r, c, reviews)
    BY <1>0, <1>1, <1>3, <1>7, SaveFailedAt
  <2>2. ASSUME NEW j \in Ids
        PROVE  /\ mem'[j] = NoEvent
               /\ \/ arch'[j] = c[j] /\ (disk'[j] = disk[j] \/ disk'[j] = r[j])
                  \/ /\ Terminal(r[j]) /\ r[j] # NoEvent /\ arch'[j] = r[j]
                     /\ disk'[j] = disk[j] \/ disk'[j] = NoEvent
    BY <1>0, <1>5, <2>1 DEF FailedAt, Archived, Terminal
  <2>3. ASSUME NEW j \in Ids PROVE IdInv(j)'
    <3>0. EffectInv(j) /\ SettledInv(j) /\ AckedInv(j) /\ CopyInv(j)
          /\ up' = FALSE /\ settled' = settled
      BY <1>0, <1>7 DEF IndInv, IdInv, TypeOK
    <3>1. CopyInv(j)'
      <4>1. RecordInv(mem[j])' /\ RecordInv(disk[j])' /\ RecordInv(arch[j])'
        BY <1>0, <1>4, <1>5, <2>2, <3>0 DEF RecordInv, CopyInv
      <4> QED BY <1>0, <1>4, <1>5, <2>2, <3>0, <4>1 DEF CopyInv, Terminal
    <3>2. EffectInv(j)'
      <4>1. ASSUME NEW x \in effects, x[1] = j
            PROVE  /\ disk'[j] # NoEvent => Began(disk'[j], x[2])
                   /\ arch'[j] # NoEvent => ~arch'[j].exhausted
                   /\ Present(j)'
        <5>1. /\ disk[j] # NoEvent => Began(disk[j], x[2])
              /\ arch[j] # NoEvent => ~arch[j].exhausted
              /\ Present(j)
              /\ x[2] \in Nat
          BY <1>0, <3>0, <4>1 DEF EffectInv, TypeOK
        <5>2. r[j] # NoEvent => Began(r[j], x[2]) BY <1>4, <5>1
        <5>3. Terminal(r[j]) => ~r[j].exhausted BY <5>2 DEF Began, Terminal, TerminalStates
        <5> QED BY <1>0, <1>2, <1>5, <2>2, <3>0, <5>1, <5>2, <5>3 DEF Present
      <4> QED BY <1>0, <2>2, <4>1 DEF EffectInv, Running
    <3>3. SettledInv(j)'
      BY <1>0, <1>2, <1>4, <1>5, <2>2, <3>0 DEF SettledInv, Present, Terminal, Outcome
    <3>4. AckedInv(j)' BY <1>0, <1>2, <1>4, <1>5, <2>2, <3>0 DEF AckedInv, Present
    <3>5. ReviewInv(j)' BY <3>0 DEF ReviewInv
    <3> QED BY <3>1, <3>2, <3>3, <3>4, <3>5 DEF IdInv
  <2>4. TypeOK' BY <1>0, <1>7, <2>1 DEF TypeOK, Copies, workers
  <2>5. WorkerInv' /\ DownInv' /\ PartitionOrder'
    BY <1>0, <1>7, <2>1
    DEF IndInv, WorkerInv, DownInv, PartitionOrder, Running, workers
  <2> QED BY <2>3, <2>4, <2>5 DEF IndInv
<1> QED BY <1>6, <1>7 DEF Load, r, c

LEMMA NextInd == IndInv /\ [Next]_vars => IndInv'
<1> SUFFICES ASSUME IndInv, [Next]_vars PROVE IndInv'
  OBVIOUS
<1>1. CASE \E i \in Ids, d \in Digests : Accept(i, d)
  BY <1>1, AcceptNewInd, AcceptDuplicateInd DEF Accept
<1>2. CASE \E p \in Parts, i \in Ids : Claim(p, i) BY <1>2, ClaimInd
<1>3. CASE \E p \in Parts : Begin(p) BY <1>3, BeginInd
<1>4. CASE \E p \in Parts : Effect(p) BY <1>4, EffectInd
<1>5. CASE \E p \in Parts, r \in Results : HandlerReturns(p, r) BY <1>5, HandlerReturnsInd
<1>6. CASE \E p \in Parts : Finish(p) BY <1>6, FinishInd
<1>7. CASE \E i \in Ids : RetryDue(i) BY <1>7, RetryDueInd
<1>8. CASE \E i \in Ids : Age(i) BY <1>8, AgeInd
<1>9. CASE Prune BY <1>9, PruneInd
<1>10. CASE Crash BY <1>10, CrashInd
<1>11. CASE Load BY <1>11, LoadInd
<1>12. CASE UNCHANGED vars
  <2>1. ASSUME NEW j \in Ids PROVE IdInv(j)'
    <3>1. CopyInv(j)' /\ SettledInv(j)' /\ AckedInv(j)' /\ ReviewInv(j)'
      BY <1>12, FilesKept DEF vars, workers
    <3>2. EffectInv(j)'
      BY <1>12
      DEF vars, files, IndInv, IdInv, EffectInv, Present, Began, Running
    <3> QED BY <3>1, <3>2 DEF IdInv
  <2>2. TypeOK' BY <1>12 DEF vars, files, workers, IndInv, TypeOK
  <2>3. WorkerInv' /\ DownInv' /\ PartitionOrder'
    BY <1>12
    DEF vars, files, workers, IndInv, WorkerInv, DownInv, PartitionOrder, Running,
        Terminal, Partition
  <2> QED BY <2>1, <2>2, <2>3 DEF IndInv
<1> QED BY <1>1, <1>2, <1>3, <1>4, <1>5, <1>6, <1>7, <1>8, <1>9, <1>10, <1>11, <1>12 DEF Next

\* The relation between the three copies and the workers holds in every state.
THEOREM InductiveInvariant == Spec => []IndInv
  BY InitInd, NextInd, PTL DEF Spec

\* Every variable keeps its type.
THEOREM TypeCorrect == Spec => []TypeOK
<1>1. IndInv => TypeOK BY DEF IndInv
<1> QED BY <1>1, InductiveInvariant, PTL

\* An acknowledged event stays readable under its payload, whatever writes fail
\* and whenever the process stops (AcceptEvent, save, compact, newEventInbox).
THEOREM AckedStaysDurable == Spec => []AckedIsDurable
<1>1. IndInv => AckedIsDurable BY DEF IndInv, IdInv, AckedInv, Present, AckedIsDurable, Durable
<1> QED BY <1>1, InductiveInvariant, PTL

\* A reported outcome is never changed or lost within the retention.
THEOREM SettledStaysFinal == Spec => []SettledIsFinal
<1>1. IndInv => SettledIsFinal BY DEF IndInv, IdInv, SettledInv, Present, SettledIsFinal, Durable
<1> QED BY <1>1, InductiveInvariant, PTL

\* A conversation's events run in the order of the file.
THEOREM PartitionsInOrder == Spec => []PartitionOrder
<1>1. IndInv => PartitionOrder BY DEF IndInv
<1> QED BY <1>1, InductiveInvariant, PTL

\* The files never reach a state newEventInbox or archive refuses.
THEOREM FilesNeverWedge == Spec => []NeverWedged
<1>1. IndInv => NeverWedged
  <2> SUFFICES ASSUME IndInv, NEW i \in Ids
               PROVE  /\ disk[i] # NoEvent =>
                           /\ arch[i] # NoEvent => arch[i].digest = disk[i].digest
                           /\ Recovered(Durable(i)).state = "pending" =>
                                Recovered(Durable(i)).payload
                      /\ Terminal(mem[i]) /\ arch[i] # NoEvent =>
                           arch[i].digest = mem[i].digest /\ arch[i].state = mem[i].state
    BY DEF NeverWedged, Loadable
  <2>1. CopyInv(i) /\ disk[i] \in InboxEvent \cup {NoEvent} /\ arch[i] \in InboxEvent \cup {NoEvent}
    BY DEF IndInv, IdInv, TypeOK
  <2>2. ASSUME disk[i] # NoEvent, Recovered(Durable(i)).state = "pending"
        PROVE  Recovered(Durable(i)).payload
    <3>1. CASE arch[i] # NoEvent
      <4>1. Durable(i) = arch[i] /\ arch[i] \in InboxEvent /\ arch[i].state \in TerminalStates
        BY <2>1, <3>1 DEF Durable, CopyInv, Terminal
      <4>2. Recovered(arch[i]) = arch[i] BY <4>1, RecoveredRecord DEF TerminalStates
      <4> QED BY <2>2, <4>1, <4>2 DEF TerminalStates
    <3>2. CASE arch[i] = NoEvent
      <4>1. Durable(i) = disk[i] /\ disk[i] \in InboxEvent /\ RecordInv(disk[i])
        BY <2>1, <2>2, <3>2 DEF Durable, CopyInv
      <4>2. disk[i].state \notin TerminalStates BY <2>2, <4>1, RecoveredRecord DEF TerminalStates
      <4> QED BY <2>2, <4>1, <4>2, RecoveredRecord DEF RecordInv
    <3> QED BY <3>1, <3>2
  <2>3. ASSUME Terminal(mem[i]), arch[i] # NoEvent PROVE arch[i] = mem[i]
    <3>1. ~Running(mem[i]) BY <2>3 DEF Terminal, TerminalStates, Running
    <3>2. \A q \in Parts : holds[q] = i => stage[q] = "idle" BY <3>1 DEF IndInv, WorkerInv
    <3> QED BY <2>1, <2>3, <3>2 DEF CopyInv, Terminal
  <2> QED BY <2>1, <2>2, <2>3 DEF CopyInv
<1> QED BY <1>1, InductiveInvariant, PTL

\* Health() counts the outcomes to review, no more and no fewer.
THEOREM ReviewsStayVisible == Spec => []ReviewsAreVisible
<1>1. IndInv => ReviewsAreVisible BY DEF IndInv, IdInv, ReviewInv, ReviewsAreVisible
<1> QED BY <1>1, InductiveInvariant, PTL

(* Effects, and the abstract promise.                                      *)

\* A worker about to have an effect has it in the only run that had any.
LEMMA EffectRun ==
  ASSUME IndInv, NEW p \in Parts, Effect(p)
  PROVE  /\ holds[p] \in Ids /\ settled[holds[p]] = "none"
         /\ effects \subseteq effects'
         /\ \A e \in effects' \ effects :
              e = <<holds[p], mem[holds[p]].attempts>>
         /\ \A e \in effects : e[1] = holds[p] => e[2] = mem[holds[p]].attempts
<1>1. stage[p] # "idle" /\ stage[p] = "granted" BY DEF Effect
<1>2. /\ holds[p] \in Ids /\ settled[holds[p]] = "none" /\ mem[holds[p]] # NoEvent
      /\ ~Terminal(mem[holds[p]]) /\ IdInv(holds[p])
  BY <1>1, Holder DEF Running
<1>3. \A e \in effects : e[1] = holds[p] => e[2] = mem[holds[p]].attempts
  BY <1>2 DEF IdInv, EffectInv, Began
<1> QED BY <1>2, <1>3 DEF Effect

LEMMA OneRunInd == IndInv /\ EffectsInOneRun /\ [Next]_vars => EffectsInOneRun'
<1> SUFFICES ASSUME IndInv, EffectsInOneRun, [Next]_vars PROVE EffectsInOneRun'
  OBVIOUS
<1>1. CASE UNCHANGED effects BY <1>1 DEF EffectsInOneRun
<1>2. ASSUME NEW p \in Parts, Effect(p) PROVE EffectsInOneRun'
  <2>1. effects' \subseteq Ids \X Nat BY <1>2, EffectInd DEF IndInv, TypeOK
  <2> SUFFICES ASSUME NEW e1 \in effects', NEW e2 \in effects', e1[1] = e2[1]
               PROVE  e1[2] = e2[2]
    BY <2>1 DEF EffectsInOneRun
  <2>2. /\ \A e \in effects' \ effects : e = <<holds[p], mem[holds[p]].attempts>>
        /\ \A e \in effects : e[1] = holds[p] => e[2] = mem[holds[p]].attempts
    BY <1>2, EffectRun
  <2>3. CASE e1 \in effects /\ e2 \in effects BY <2>3 DEF EffectsInOneRun
  <2>4. CASE e1 \notin effects \/ e2 \notin effects BY <2>2, <2>4
  <2> QED BY <2>3, <2>4
<1>3. UNCHANGED effects \/ \E p \in Parts : Effect(p)
  BY DEF Next, vars, Accept, AcceptNew, AcceptDuplicate, Claim, Begin, HandlerReturns,
         Finish, RetryDue, Age, Prune, Crash, Load
<1> QED BY <1>1, <1>2, <1>3

\* No retry, failed write or restart replays an event that had an effect: all its
\* effects belong to one run of its handler (begin, finish, newEventInbox).
THEOREM EffectsStayInOneRun == Spec => []EffectsInOneRun
<1>1. Init => EffectsInOneRun BY DEF Init, EffectsInOneRun
<1> QED BY <1>1, OneRunInd, InductiveInvariant, PTL DEF Spec

(* The refinement, one lemma per action that is not a stutter of EventOnce. *)

LEMMA AcceptAcks ==
  ASSUME IndInv, NEW i \in Ids, NEW d \in Digests, Accept(i, d)
  PROVE  [Once!Next]_(Once!vars)
<1>1. effects' = effects /\ settled' = settled BY DEF Accept, AcceptNew, AcceptDuplicate
<1>2. CASE acked' = acked BY <1>1, <1>2 DEF Once!vars
<1>3. CASE acked' = acked \cup {<<i, d>>}
  <2>1. ASSUME NEW e \in acked, e[1] = i PROVE e[2] = d
    <3>1. e = <<i, e[2]>> /\ e[2] \in Digests BY <2>1 DEF IndInv, TypeOK
    <3>2. i \notin aged /\ up /\ AckedInv(i)
      BY DEF Accept, AcceptNew, AcceptDuplicate, IndInv, IdInv
    <3>3. \/ mem[i] = NoEvent /\ arch[i] = NoEvent
          \/ mem[i] # NoEvent /\ mem[i].digest = d
          \/ arch[i] # NoEvent /\ arch[i].digest = d
      BY DEF Accept, AcceptNew, AcceptDuplicate
    <3> QED BY <3>1, <3>2, <3>3 DEF AckedInv, Present
  <2> QED BY <1>1, <1>3, <2>1 DEF Once!Next, Once!Ack
<1> QED BY <1>2, <1>3 DEF Accept, AcceptNew, AcceptDuplicate

LEMMA EffectRuns ==
  ASSUME IndInv, NEW p \in Parts, Effect(p)
  PROVE  Once!Next
<1>1. PICK i \in Ids : i = holds[p] BY EffectRun
<1>2. acked' = acked /\ settled' = settled BY DEF Effect
<1>3. effects' \subseteq Ids \X Nat /\ effects \subseteq Ids \X Nat
  BY EffectInd DEF IndInv, TypeOK
<1>4. Once!Run(i)
  <2>1. ASSUME NEW e1 \in effects', NEW e2 \in effects', e1[1] = i, e2[1] = i
        PROVE  e1[2] = e2[2]
    BY <1>1, <2>1, EffectRun
  <2> QED BY <1>1, <1>2, <2>1, EffectRun DEF Once!Run
<1> QED BY <1>4 DEF Once!Next

LEMMA FinishReports ==
  ASSUME IndInv, NEW p \in Parts, Finish(p)
  PROVE  [Once!Next]_(Once!vars)
<1>i. PICK i \in Ids : holds[p] = i BY Holder DEF Finish
<1> DEFINE e == Finished(mem[i], result[p])
<1>1. acked' = acked /\ effects' = effects /\ stage[p] # "idle" /\ result[p] \in Results
  BY DEF Finish, IndInv, TypeOK
<1>2. /\ settled[i] = "none" /\ IdInv(i) /\ Running(mem[i]) /\ ~Terminal(mem[i])
      /\ mem[i] \in InboxEvent /\ mem[i].phase \in {"preparing", "executing"}
  BY <1>1, <1>i, Holder
<1>3. e.exhausted => mem[i].phase = "preparing"
  <2>1. ~mem[i].exhausted BY <1>2 DEF IdInv, CopyInv, RecordInv, Running
  <2> QED BY <1>1, <1>2, <2>1, FinishedRecord
<1>4. mem[i].phase = "preparing" => \A x \in effects : x[1] # i
  BY <1>2 DEF IdInv, EffectInv, Began, Running
<1>5. settled' \in [Ids -> Once!Outcomes \cup {"none"}]
  BY FinishInd DEF IndInv, TypeOK, TerminalStates, Once!Outcomes
<1>6. \/ settled' = settled
      \/ settled' = [settled EXCEPT ![i] = IF Terminal(e) THEN Outcome(e) ELSE @]
  BY <1>i DEF Finish, workers
<1> HIDE DEF e
<1>7. Terminal(e) /\ Outcome(e) = "exhausted" => e.exhausted
  BY DEF Terminal, TerminalStates, Outcome
<1>8. ASSUME NEW j \in Ids
      PROVE  \/ settled'[j] = settled[j]
             \/ /\ settled[j] = "none"
                /\ settled'[j] = "exhausted" => \A x \in effects : x[1] # j
  <2>1. settled \in [Ids -> TerminalStates \cup {"exhausted", "none"}] BY DEF IndInv, TypeOK
  <2> QED BY <1>2, <1>3, <1>4, <1>6, <1>7, <2>1
<1>9. Once!Report BY <1>1, <1>5, <1>8 DEF Once!Report
<1> QED BY <1>9 DEF Once!Next

LEMMA LoadReports ==
  ASSUME IndInv, Load
  PROVE  [Once!Next]_(Once!vars)
<1> USE NoEventAssumption
<1> DEFINE c == Remove(arch, Expired(arch))
           r == Recover
<1>1. acked' = acked /\ effects' = effects BY DEF Load
<1>2. settled' \in [Ids -> Once!Outcomes \cup {"none"}]
  BY LoadInd DEF IndInv, TypeOK, TerminalStates, Once!Outcomes
<1>3. \/ settled' = settled
      \/ settled' = [j \in Ids |->
                       IF Terminal(c[j]) THEN Outcome(c[j])
                       ELSE IF Terminal(r[j]) THEN Outcome(r[j])
                       ELSE settled[j]]
  BY DEF Load
<1>4. ASSUME NEW j \in Ids, Terminal(c[j])
      PROVE  c[j] = arch[j] /\ arch[j] # NoEvent
  BY <1>4 DEF Remove, Terminal
<1>5. ASSUME NEW j \in Ids, Terminal(r[j])
      PROVE  IF arch[j] # NoEvent THEN r[j] = arch[j]
             ELSE /\ disk[j] # NoEvent /\ r[j].exhausted = disk[j].exhausted
                  /\ Terminal(disk[j]) => r[j] = disk[j]
                  /\ r[j].exhausted => Terminal(disk[j])
  <2>1. /\ disk[j] # NoEvent /\ r[j] = Recovered(Durable(j)) /\ CopyInv(j)
        /\ disk[j] \in InboxEvent /\ arch[j] \in InboxEvent \cup {NoEvent}
    BY <1>5 DEF Recover, Terminal, IndInv, IdInv, TypeOK
  <2>2. CASE arch[j] # NoEvent
    <3>1. arch[j].state # "running" BY <2>1, <2>2 DEF CopyInv, Terminal, TerminalStates
    <3> QED BY <2>1, <2>2, <3>1, RecoveredRecord DEF Durable
  <2>3. CASE arch[j] = NoEvent
    <3>1. r[j] = Recovered(disk[j]) /\ RecordInv(disk[j]) BY <2>1, <2>3 DEF Durable, CopyInv
    <3> QED BY <2>1, <2>3, <3>1, RecoveredRecord DEF Terminal, TerminalStates, RecordInv
  <2> QED BY <2>2, <2>3
<1> HIDE DEF c, r
<1>6. ASSUME NEW j \in Ids
      PROVE  \/ settled'[j] = settled[j]
             \/ /\ settled[j] = "none"
                /\ settled'[j] = "exhausted" => \A x \in effects : x[1] # j
  <2>0. SettledInv(j) /\ EffectInv(j) BY DEF IndInv, IdInv
  <2>1. CASE settled'[j] = settled[j] BY <2>1
  <2>2. CASE settled'[j] # settled[j] /\ Terminal(c[j]) /\ settled'[j] = Outcome(c[j])
    BY <1>4, <2>0, <2>2 DEF SettledInv, EffectInv, Outcome, Terminal, TerminalStates
  <2>3. CASE settled'[j] # settled[j] /\ Terminal(r[j]) /\ settled'[j] = Outcome(r[j])
    <3>1. settled[j] = "none" BY <1>5, <2>0, <2>3 DEF SettledInv
    <3>2. Outcome(r[j]) = "exhausted" => r[j].exhausted
      BY <2>3 DEF Terminal, TerminalStates, Outcome
    <3>3. r[j].exhausted => \A x \in effects : x[1] # j
      BY <1>5, <2>0, <2>3 DEF EffectInv, Began, Terminal, TerminalStates
    <3> QED BY <2>3, <3>1, <3>2, <3>3
  <2>4. \/ settled'[j] = settled[j]
        \/ Terminal(c[j]) /\ settled'[j] = Outcome(c[j])
        \/ Terminal(r[j]) /\ settled'[j] = Outcome(r[j])
    BY <1>3
  <2> QED BY <2>1, <2>2, <2>3, <2>4
<1>7. Once!Report BY <1>1, <1>2, <1>6 DEF Once!Report
<1> QED BY <1>7 DEF Once!Next

LEMMA StepRefines == IndInv /\ [Next]_vars => [Once!Next]_(Once!vars)
<1> SUFFICES ASSUME IndInv, [Next]_vars PROVE [Once!Next]_(Once!vars)
  OBVIOUS
<1>1. CASE UNCHANGED <<acked, effects, settled>> BY <1>1 DEF Once!vars
<1>2. CASE \E i \in Ids, d \in Digests : Accept(i, d) BY <1>2, AcceptAcks
<1>3. CASE \E p \in Parts : Effect(p) BY <1>3, EffectRuns
<1>4. CASE \E p \in Parts : Finish(p) BY <1>4, FinishReports
<1>5. CASE Load BY <1>5, LoadReports
<1>6. \/ UNCHANGED <<acked, effects, settled>>
      \/ \E i \in Ids, d \in Digests : Accept(i, d)
      \/ \E p \in Parts : Effect(p)
      \/ \E p \in Parts : Finish(p)
      \/ Load
  BY DEF Next, vars, Claim, Begin, HandlerReturns, RetryDue, Age, Prune, Crash
<1> QED BY <1>1, <1>2, <1>3, <1>4, <1>5, <1>6

\* Everything the workers, the restart and the readers of the inbox rely on holds in every
\* state: types, acknowledged events, effects in one run, final outcomes, visible reviews.
THEOREM InboxIsSound == Spec => []InboxSound
<1>1. (TypeOK /\ AckedIsDurable /\ EffectsInOneRun /\ SettledIsFinal /\ ReviewsAreVisible)
        => InboxSound
  BY DEF InboxSound
<1> QED
  BY <1>1, TypeCorrect, AckedStaysDurable, EffectsStayInOneRun, SettledStaysFinal,
     ReviewsStayVisible, PTL

\* The inbox keeps the promise of EventOnce: effects of one run only and none after
\* the outcome, one outcome per event, exhausted retries only without effects, and
\* one payload per acknowledged id.
THEOREM InboxImplementsEventOnce == Spec => ImplementsEventOnce
<1>1. Init => Once!Init BY DEF Init, Once!Init
<1> QED BY <1>1, StepRefines, InductiveInvariant, PTL DEF Spec, ImplementsEventOnce, Once!Spec
=============================================================================
