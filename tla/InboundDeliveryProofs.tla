------------------------ MODULE InboundDeliveryProofs ------------------------
(* What the inbound half of the child promises, for any works, partitions and bounds: no    *)
(* acknowledged event is lost, no file stops the recovery, and a work has one job. Whatever *)
(* is held in memory (jobs in channels and workers, what Handle, the recovery pass and a    *)
(* review have read) is a copy of a file that exists, unsettled and with its payload: that  *)
(* is why a copy that is written back late can repeat work, but never lose it.              *)
EXTENDS InboundDelivery, FiniteSetTheorems, TLAPS

\* A worker is idle when it has no job.
Busy == \A p \in Parts : stage[p] = "idle" <=> running[p] = NoJob

\* Who is completed is the Core's; who is not can be delivered.
Files ==
  \A i \in Works : box[i] # NoWork =>
    IF box[i].status = "completed" THEN i \in taken ELSE box[i].payload

Queued(p, x) == \E n \in DOMAIN queue[p] : x = queue[p][n]

\* Somebody has read x, and may write it back.
Copy(x) ==
  \/ \E p \in Parts : x = running[p] \/ Queued(p, x)
  \/ x = ingest \/ x = review \/ x \in spent
  \/ \E n \in DOMAIN due : x = due[n]

Unsettled(x) == box[x.id] # NoWork /\ x.work.status # "completed" /\ x.work.payload

Copies == \A x \in Job : Copy(x) => Unsettled(x)

\* What the Core has answered it has taken; what is acknowledged has a file.
Answered == \A p \in Parts : stage[p] = "answered" /\ answer[p] = "ok" => running[p].id \in taken
Acked == \A i \in acked : box[i] # NoWork

\* The channel and the worker of a partition hold the works of the partition that are in flight,
\* each once.
QueuedOnce ==
  \A p \in Parts :
    /\ Len(queue[p]) <= Buffer
    /\ \A n \in DOMAIN queue[p] : queue[p][n].id \in inFlight /\ PartOf[queue[p][n].id] = p
    /\ \A m, n \in DOMAIN queue[p] : queue[p][m].id = queue[p][n].id => m = n

RunningOnce ==
  \A p \in Parts : running[p] # NoJob =>
    /\ running[p].id \in inFlight /\ PartOf[running[p].id] = p
    /\ \A n \in DOMAIN queue[p] : queue[p][n].id # running[p].id

InFlightHeld ==
  \A i \in inFlight :
    \/ running[PartOf[i]] # NoJob /\ running[PartOf[i]].id = i
    \/ \E n \in DOMAIN queue[PartOf[i]] : queue[PartOf[i]][n].id = i

Jobs == QueuedOnce /\ RunningOnce /\ InFlightHeld /\ waiting \subseteq inFlight

IInv == TypeOK /\ Busy /\ Files /\ Copies /\ Answered /\ Acked /\ Jobs

(* What is written. *)

\* What a handler writes is a work, and has its payload if the copy has, unless it is completed.
LEMMA CompletedWork ==
  ASSUME NEW w \in InboundWork
  PROVE  Completed(w) \in InboundWork /\ Completed(w).status = "completed"
BY DEF InboundWork, Statuses, Completed

LEMMA DeferredWork ==
  ASSUME NEW w \in InboundWork
  PROVE  /\ Deferred(w) \in InboundWork /\ Deferred(w).status = "pending"
         /\ Deferred(w).payload = w.payload
<1>1. w.tries + 1 \in Nat BY DEF InboundWork
<1> QED BY <1>1 DEF InboundWork, Statuses, Deferred

LEMMA PausedWork ==
  ASSUME NEW w \in InboundWork, NEW n \in Nat
  PROVE  /\ Paused(w, n) \in InboundWork /\ Paused(w, n).status = "needs_review"
         /\ Paused(w, n).payload = w.payload
<1>1. w.tries + n \in Nat BY DEF InboundWork
<1> QED BY <1>1 DEF InboundWork, Statuses, Paused

LEMMA RevivedWork ==
  ASSUME NEW w \in InboundWork
  PROVE  /\ Revived(w) \in InboundWork /\ Revived(w).status = "pending"
         /\ Revived(w).payload = w.payload
<1>1. w.gen + 1 \in Nat BY DEF InboundWork
<1> QED BY <1>1 DEF InboundWork, Statuses, Revived

\* A write changes one file at most.
LEMMA Saved ==
  ASSUME TypeOK, NEW i \in Works, NEW w \in InboundWork, Save(i, w)
  PROVE  /\ box' \in [Works -> InboundWork \cup {NoWork}] /\ faults' \in Nat
         /\ \A j \in Works : box'[j] = box[j] \/ (j = i /\ box'[j] = w)
<1>1. box \in [Works -> InboundWork \cup {NoWork}] /\ faults \in Nat BY DEF TypeOK
<1>2. faults' \in Nat BY <1>1 DEF Save, Write, WriteFails
<1>3. box' = box \/ box' = [box EXCEPT ![i] = w] BY DEF Save, Write, WriteFails
<1> QED BY <1>1, <1>2, <1>3

\* Files and copies stay what they are when what is written has its payload, or is completed
\* and the Core's.
LEMMA FilesStay ==
  ASSUME TypeOK, Files, Acked, NEW i \in Works, NEW w \in InboundWork,
         \A j \in Works : box'[j] = box[j] \/ (j = i /\ box'[j] = w),
         IF w.status = "completed" THEN i \in taken' ELSE w.payload,
         taken \subseteq taken'
  PROVE  /\ Files' /\ \A j \in Works : box[j] # NoWork => box'[j] # NoWork
BY NoWorkAssumption DEF Files, TypeOK

LEMMA CopiesStay ==
  ASSUME Copies, \A j \in Works : box[j] # NoWork => box'[j] # NoWork,
         \A x \in Job : Copy(x)' => Copy(x) \/ Unsettled(x)'
  PROVE  Copies'
<1> SUFFICES ASSUME NEW x \in Job, Copy(x)' PROVE Unsettled(x)'
  BY DEF Copies
<1>1. x.id \in Works BY DEF Job
<1>2. CASE Copy(x) BY <1>1, <1>2 DEF Copies, Unsettled
<1> QED BY <1>2

\* A copy is written, with what makes it pending again, pauses or revives it, or the file of a
\* work that is the Core's is completed: all that is in memory stays.
LEMMA CopyWritten ==
  ASSUME IInv, NEW i \in Works, NEW w \in InboundWork, Save(i, w),
         IF w.status = "completed" THEN i \in taken ELSE w.payload,
         UNCHANGED <<queue, running, answer, inFlight, ingest, due, waiting, acked, taken>>,
         review' \in {review, NoJob}, spent' \subseteq spent, Busy',
         \A p \in Parts : stage'[p] = "answered" => stage[p] = "answered"
  PROVE  /\ Files' /\ Copies' /\ Answered' /\ Acked' /\ Jobs'
         /\ box' \in [Works -> InboundWork \cup {NoWork}] /\ faults' \in Nat
<1> USE DEF IInv
<1>1. /\ box' \in [Works -> InboundWork \cup {NoWork}] /\ faults' \in Nat
      /\ \A j \in Works : box'[j] = box[j] \/ (j = i /\ box'[j] = w)
  BY Saved
<1>2. Files' /\ \A j \in Works : box[j] # NoWork => box'[j] # NoWork BY <1>1, FilesStay
<1>3. \A x \in Job : Copy(x)' => Copy(x) BY NoJobAssumption DEF Copy, Queued
<1>4. Copies' BY <1>2, <1>3, CopiesStay
<1>5. Answered' BY DEF Answered
<1>6. Acked' BY <1>2 DEF Acked, TypeOK
<1>7. Jobs' BY DEF Jobs, QueuedOnce, RunningOnce, InFlightHeld
<1> QED BY <1>1, <1>2, <1>4, <1>5, <1>6, <1>7

\* What is in memory and is a job can be written back.
LEMMA CopyOf ==
  ASSUME IInv, NEW x \in Job, Copy(x)
  PROVE  /\ x.id \in Works /\ x.work \in InboundWork /\ box[x.id] # NoWork
         /\ x.work.status # "completed" /\ x.work.payload
BY DEF IInv, Copies, Unsettled, Job

LEMMA RunningCopy ==
  ASSUME IInv, NEW p \in Parts, stage[p] # "idle"
  PROVE  /\ running[p] \in Job /\ running[p].id \in Works /\ running[p].work \in InboundWork
         /\ box[running[p].id] # NoWork /\ running[p].work.payload
<1>1. running[p] \in Job BY DEF IInv, Busy, TypeOK
<1> QED BY <1>1, CopyOf DEF Copy

(* The initial state, and what changes only what is in memory. *)

LEMMA InitIInv == Init => IInv
<1> SUFFICES ASSUME Init PROVE IInv
  OBVIOUS
<1>1. LegacyReceipt \in InboundWork BY DEF LegacyReceipt, InboundWork, Statuses
<1>2. box \in [Works -> InboundWork \cup {NoWork}] BY <1>1 DEF Init
<1>3. \A x \in Job : ~Copy(x)
  <2>1. \A p \in Parts : queue[p] = <<>> /\ running[p] = NoJob BY DEF Init
  <2> QED BY <2>1, NoJobAssumption DEF Copy, Queued, Init
<1>4. TypeOK
  <2>1. <<>> \in Seq(Job)
    OBVIOUS
  <2> QED BY <1>2, <2>1 DEF Init, TypeOK, Answers
<1>5. Files BY DEF Init, Files, LegacyReceipt
<1>6. Jobs BY BoundsAssumption DEF Init, Jobs, QueuedOnce, RunningOnce, InFlightHeld
<1> QED BY <1>3, <1>4, <1>5, <1>6 DEF IInv, Busy, Copies, Answered, Acked, Init

\* A job is scheduled, or is not: it gets into the channel of its partition, once.
LEMMA ScheduleKeeps ==
  ASSUME IInv, NEW x \in Job, Copy(x), Scheduled(x) \/ NotScheduled(x),
         waiting' \subseteq waiting \cup inFlight'
  PROVE  /\ queue' \in [Parts -> Seq(Job)] /\ inFlight' \subseteq Works
         /\ inFlight \subseteq inFlight'
         /\ UNCHANGED <<running, stage, answer>>
         /\ \A p \in Parts, y \in Job : Queued(p, y)' => Queued(p, y) \/ y = x
         /\ Jobs'
<1> DEFINE q == PartOf[x.id]
<1> USE DEF IInv
<1>1. x.id \in Works /\ q \in Parts /\ queue \in [Parts -> Seq(Job)] /\ Buffer \in Nat
  BY CopyOf, PartOfAssumption, BoundsAssumption DEF TypeOK
<1>2. CASE NotScheduled(x)
  <2>1. UNCHANGED workers BY <1>2 DEF NotScheduled
  <2>2. Jobs' BY <2>1 DEF workers, Jobs, QueuedOnce, RunningOnce, InFlightHeld
  <2> QED BY <1>1, <2>1, <2>2 DEF workers, TypeOK, Queued
<1>3. CASE Scheduled(x)
  <2>1. /\ queue' = [queue EXCEPT ![q] = Append(@, x)] /\ inFlight' = inFlight \cup {x.id}
        /\ UNCHANGED <<running, stage, answer>> /\ x.id \notin inFlight /\ Len(queue[q]) < Buffer
    BY <1>3 DEF Scheduled, Room
  <2>2. /\ queue'[q] = Append(queue[q], x) /\ Append(queue[q], x) \in Seq(Job)
        /\ \A p \in Parts : p # q => queue'[p] = queue[p]
    BY <1>1, <2>1
  <2>3. queue' \in [Parts -> Seq(Job)] /\ inFlight' \subseteq Works
    BY <1>1, <2>1, <2>2 DEF TypeOK
  <2>4. /\ Len(queue'[q]) = Len(queue[q]) + 1 /\ queue'[q][Len(queue[q]) + 1] = x
        /\ \A n \in DOMAIN queue[q] : queue'[q][n] = queue[q][n]
        /\ DOMAIN queue'[q] = DOMAIN queue[q] \cup {Len(queue[q]) + 1}
        /\ Len(queue[q]) + 1 \notin DOMAIN queue[q]
    BY <1>1, <2>2
  <2>5. \A p \in Parts, y \in Job : Queued(p, y)' => Queued(p, y) \/ y = x
    BY <2>2, <2>4 DEF Queued
  <2>6. \A n \in DOMAIN queue[q] : queue[q][n].id # x.id BY <1>1, <2>1 DEF Jobs, QueuedOnce
  <2>7. ASSUME NEW p \in Parts
        PROVE  /\ Len(queue'[p]) <= Buffer
               /\ \A n \in DOMAIN queue'[p] :
                    queue'[p][n].id \in inFlight' /\ PartOf[queue'[p][n].id] = p
               /\ \A m, n \in DOMAIN queue'[p] : queue'[p][m].id = queue'[p][n].id => m = n
    <3>1. CASE p # q BY <3>1, <2>1, <2>2 DEF Jobs, QueuedOnce
    <3>2. CASE p = q
      <4>1. Len(queue'[q]) <= Buffer BY <1>1, <2>1, <2>4
      <4> QED BY <3>2, <4>1, <1>1, <2>1, <2>4, <2>6 DEF Jobs, QueuedOnce
    <3> QED BY <3>1, <3>2
  <2>8. QueuedOnce' BY <2>7 DEF QueuedOnce
  <2>9. ASSUME NEW p \in Parts, running[p] # NoJob
        PROVE  /\ running[p].id \in inFlight' /\ PartOf[running[p].id] = p
               /\ \A n \in DOMAIN queue'[p] : queue'[p][n].id # running[p].id
    <3>1. running[p].id \in inFlight /\ PartOf[running[p].id] = p BY <2>9 DEF Jobs, RunningOnce
    <3>2. \A n \in DOMAIN queue'[p] : queue'[p][n].id # running[p].id
      BY <3>1, <2>1, <2>2, <2>4, <2>9 DEF Jobs, RunningOnce
    <3> QED BY <3>1, <3>2, <2>1
  <2>10. RunningOnce' BY <2>1, <2>9 DEF RunningOnce
  <2>11. InFlightHeld'
    <3> SUFFICES ASSUME NEW i \in inFlight'
                 PROVE  \/ running[PartOf[i]] # NoJob /\ running[PartOf[i]].id = i
                        \/ \E n \in DOMAIN queue'[PartOf[i]] : queue'[PartOf[i]][n].id = i
      BY <2>1 DEF InFlightHeld
    <3>1. CASE i = x.id BY <3>1, <2>4
    <3>2. CASE i # x.id
      <4>1. i \in inFlight /\ PartOf[i] \in Parts BY <3>2, <2>1, PartOfAssumption DEF TypeOK
      <4>2. ASSUME NEW n \in DOMAIN queue[PartOf[i]]
            PROVE  n \in DOMAIN queue'[PartOf[i]] /\ queue'[PartOf[i]][n] = queue[PartOf[i]][n]
        <5>1. CASE PartOf[i] = q BY <5>1, <4>2, <2>4
        <5>2. CASE PartOf[i] # q BY <5>2, <4>1, <4>2, <2>2
        <5> QED BY <5>1, <5>2
      <4> QED BY <4>1, <4>2 DEF Jobs, InFlightHeld
    <3> QED BY <3>1, <3>2
  <2>12. waiting' \subseteq inFlight' BY <2>1 DEF Jobs
  <2> QED BY <2>1, <2>3, <2>5, <2>8, <2>10, <2>11, <2>12 DEF Jobs
<1> QED BY <1>2, <1>3

\* Nobody writes and nothing is read: what is in memory goes, or moves.
LEMMA MemoryOnly ==
  ASSUME IInv, box' = box, taken \subseteq taken', acked' \subseteq acked,
         \A x \in Job : Copy(x)' => Copy(x)
  PROVE  Files' /\ Copies' /\ Acked'
<1> USE DEF IInv
<1>1. Files' BY DEF Files
<1>2. Copies' BY CopiesStay
<1> QED BY <1>1, <1>2 DEF Acked

(* Handle *)

LEMMA EnqueueNewKeeps == ASSUME IInv, NEW i \in Works, EnqueueNew(i) PROVE IInv'
<1> USE DEF IInv
<1>1. /\ NewWork \in InboundWork /\ nextAt' \in Nat
      /\ NewWork.status = "pending" /\ NewWork.payload
  BY DEF EnqueueNew, TypeOK, NewWork, InboundWork, Statuses
<1>2. Save(i, NewWork) BY DEF EnqueueNew, Save
<1>3. /\ box' \in [Works -> InboundWork \cup {NoWork}] /\ faults' \in Nat
      /\ \A j \in Works : box'[j] = box[j] \/ (j = i /\ box'[j] = NewWork)
  BY <1>1, <1>2, Saved
<1>4. UNCHANGED <<up, connected, queue, running, stage, answer, inFlight, sweep, spent, due,
                  waiting, review, old, acked, taken, dispatches, reviews, crashes>>
  BY DEF EnqueueNew, workers, recovery, history
<1>5. Files' /\ \A j \in Works : box[j] # NoWork => box'[j] # NoWork
  BY <1>1, <1>3, <1>4, FilesStay
<1>6. ingest' = ingest \/ (ingest' = [id |-> i, work |-> NewWork] /\ box'[i] # NoWork)
  BY <1>1, NoWorkAssumption DEF EnqueueNew, Write, TypeOK
<1>7. ASSUME NEW x \in Job, Copy(x)' PROVE Copy(x) \/ Unsettled(x)'
  BY <1>1, <1>4, <1>6, <1>7 DEF Copy, Queued, Unsettled
<1>8. Copies' BY <1>5, <1>7, CopiesStay
<1>9. ingest' \in Job \cup {NoJob} BY <1>1, <1>6 DEF TypeOK, Job
<1>10. TypeOK' BY <1>1, <1>3, <1>4, <1>9 DEF TypeOK
<1>11. Busy' /\ Answered' /\ Jobs'
  BY <1>4 DEF Busy, Answered, Jobs, QueuedOnce, RunningOnce, InFlightHeld
<1>12. Acked' BY <1>4, <1>5 DEF Acked, TypeOK
<1> QED BY <1>5, <1>8, <1>10, <1>11, <1>12

LEMMA HandleExistingKeeps == ASSUME IInv, NEW i \in Works, HandleExisting(i) PROVE IInv'
<1> USE DEF IInv
<1>1. /\ acked' = acked \cup {i} /\ box[i] # NoWork
      /\ UNCHANGED <<box, up, connected, queue, running, stage, answer, inFlight, ingest, sweep,
                     spent, due, waiting, review, old, nextAt, taken, dispatches, reviews,
                     faults, crashes>>
  BY DEF HandleExisting, workers, recovery, clock, bounds
<1>2. Copies' BY <1>1 DEF Copies, Copy, Queued, Unsettled
<1> QED BY <1>1, <1>2 DEF TypeOK, Busy, Files, Answered, Acked, Jobs, QueuedOnce, RunningOnce,
                          InFlightHeld

LEMMA PutFailsKeeps == ASSUME IInv, PutFails PROVE IInv'
<1> USE DEF IInv
<1>1. /\ ingest' = NoJob /\ faults' = faults + 1
      /\ UNCHANGED <<box, up, connected, queue, running, stage, answer, inFlight, sweep, spent,
                     due, waiting, review, old, nextAt, acked, taken, dispatches, reviews,
                     crashes>>
  BY DEF PutFails, workers, recovery, clock, history
<1>2. \A x \in Job : Copy(x)' => Copy(x) BY <1>1, NoJobAssumption DEF Copy, Queued
<1>3. Files' /\ Copies' /\ Acked' BY <1>1, <1>2, MemoryOnly
<1> QED BY <1>1, <1>3 DEF TypeOK, Busy, Answered, Jobs, QueuedOnce, RunningOnce, InFlightHeld

LEMMA HandleNewKeeps == ASSUME IInv, HandleNew PROVE IInv'
<1> USE DEF IInv
<1>1. /\ ingest' = NoJob /\ acked' = acked \cup {ingest.id}
      /\ Scheduled(ingest) \/ NotScheduled(ingest)
      /\ UNCHANGED <<box, up, connected, sweep, spent, due, waiting, review, old, nextAt, taken,
                     dispatches, reviews, faults, crashes>>
  BY DEF HandleNew, recovery, clock, bounds
<1>2. ingest \in Job /\ Copy(ingest) BY DEF HandleNew, TypeOK, Copy
<1>3. /\ queue' \in [Parts -> Seq(Job)] /\ inFlight' \subseteq Works
      /\ UNCHANGED <<running, stage, answer>> /\ Jobs'
      /\ \A p \in Parts, y \in Job : Queued(p, y)' => Queued(p, y) \/ y = ingest
  BY <1>1, <1>2, ScheduleKeeps
<1>4. ingest.id \in Works /\ box[ingest.id] # NoWork BY <1>2, CopyOf
<1>5. \A x \in Job : Copy(x)' => Copy(x) BY <1>1, <1>2, <1>3, NoJobAssumption DEF Copy
<1>6. Copies' BY <1>1, <1>5, CopiesStay
<1>7. TypeOK' BY <1>1, <1>3, <1>4 DEF TypeOK
<1> QED BY <1>1, <1>3, <1>4, <1>6, <1>7 DEF Busy, Files, Answered, Acked

(* The workers *)

LEMMA TakeJobKeeps == ASSUME IInv, NEW p \in Parts, TakeJob(p) PROVE IInv'
<1> USE DEF IInv
<1>1. /\ queue' = [queue EXCEPT ![p] = Tail(@)]
      /\ running' = [running EXCEPT ![p] = Head(queue[p])]
      /\ stage' = [stage EXCEPT ![p] = "taken"] /\ stage[p] = "idle" /\ queue[p] # <<>>
      /\ UNCHANGED <<box, up, connected, answer, inFlight, ingest, sweep, spent, due, waiting,
                     review, old, nextAt, acked, taken, dispatches, reviews, faults, crashes>>
  BY DEF TakeJob, recovery, clock, history, bounds
<1>2. queue \in [Parts -> Seq(Job)] /\ queue[p] \in Seq(Job) /\ running[p] = NoJob
  BY <1>1 DEF TypeOK, Busy
<1>3. /\ Head(queue[p]) = queue[p][1] /\ 1 \in DOMAIN queue[p] /\ Head(queue[p]) \in Job
      /\ Tail(queue[p]) \in Seq(Job) /\ Len(Tail(queue[p])) = Len(queue[p]) - 1
      /\ \A n \in DOMAIN Tail(queue[p]) : /\ Tail(queue[p])[n] = queue[p][n + 1]
                                          /\ n + 1 \in DOMAIN queue[p] /\ n + 1 # 1
      /\ \A n \in DOMAIN queue[p] : n = 1 \/ (/\ n - 1 \in DOMAIN Tail(queue[p])
                                              /\ Tail(queue[p])[n - 1] = queue[p][n])
  BY <1>1, <1>2
<1>4. /\ queue'[p] = Tail(queue[p]) /\ running'[p] = queue[p][1]
      /\ \A r \in Parts : r # p => queue'[r] = queue[r] /\ running'[r] = running[r]
  BY <1>1, <1>2, <1>3 DEF TypeOK
<1>5. \A x \in Job : Copy(x)' => Copy(x)
  <2> SUFFICES ASSUME NEW x \in Job, Copy(x)' PROVE Copy(x)
    OBVIOUS
  <2>1. ASSUME NEW r \in Parts, Queued(r, x)' \/ x = running'[r]
        PROVE  Queued(r, x) \/ x = running[r]
    <3>1. CASE r # p BY <2>1, <3>1, <1>4 DEF Queued
    <3>2. CASE r = p /\ x = running'[p] BY <3>2, <1>3, <1>4 DEF Queued
    <3>3. CASE r = p /\ Queued(p, x)'
      <4>1. PICK n \in DOMAIN Tail(queue[p]) : x = Tail(queue[p])[n] BY <3>3, <1>4 DEF Queued
      <4>2. n + 1 \in DOMAIN queue[p] /\ x = queue[p][n + 1] BY <4>1, <1>3
      <4> QED BY <3>3, <4>2 DEF Queued
    <3> QED BY <2>1, <3>1, <3>2, <3>3
  <2> QED BY <2>1, <1>1 DEF Copy
<1>6. Files' /\ Copies' /\ Acked' BY <1>1, <1>5, MemoryOnly
<1>7. TypeOK' BY <1>1, <1>2, <1>3 DEF TypeOK
<1>8. Busy' /\ Answered' BY <1>1, <1>3, NoJobAssumption DEF Busy, Answered, TypeOK
<1>9. ASSUME NEW r \in Parts
      PROVE  /\ Len(queue'[r]) <= Buffer
             /\ \A n \in DOMAIN queue'[r] :
                  queue'[r][n].id \in inFlight' /\ PartOf[queue'[r][n].id] = r
             /\ \A m, n \in DOMAIN queue'[r] : queue'[r][m].id = queue'[r][n].id => m = n
  <2>1. CASE r # p BY <2>1, <1>1, <1>4 DEF Jobs, QueuedOnce
  <2>2. CASE r = p
    <3>1. Len(queue'[p]) <= Buffer BY <1>2, <1>3, <1>4, BoundsAssumption DEF Jobs, QueuedOnce
    <3>2. \A n \in DOMAIN queue'[p] :
            queue'[p][n].id \in inFlight' /\ PartOf[queue'[p][n].id] = p
      BY <1>1, <1>3, <1>4 DEF Jobs, QueuedOnce
    <3>3. ASSUME NEW m \in DOMAIN queue'[p], NEW n \in DOMAIN queue'[p],
                 queue'[p][m].id = queue'[p][n].id
          PROVE  m = n
      <4>1. m + 1 = n + 1 BY <1>3, <1>4, <3>3 DEF Jobs, QueuedOnce
      <4>2. m \in Nat /\ n \in Nat BY <1>2, <1>3, <1>4
      <4> QED BY <4>1, <4>2
    <3> QED BY <2>2, <3>1, <3>2, <3>3
  <2> QED BY <2>1, <2>2
<1>10. QueuedOnce' BY <1>9 DEF QueuedOnce
<1>11. ASSUME NEW r \in Parts, running'[r] # NoJob
       PROVE  /\ running'[r].id \in inFlight' /\ PartOf[running'[r].id] = r
              /\ \A n \in DOMAIN queue'[r] : queue'[r][n].id # running'[r].id
  <2>1. CASE r # p BY <2>1, <1>1, <1>4, <1>11 DEF Jobs, RunningOnce
  <2>2. CASE r = p
    <3>1. \A n \in DOMAIN queue'[p] : queue'[p][n].id # queue[p][1].id
      BY <1>3, <1>4 DEF Jobs, QueuedOnce
    <3> QED BY <2>2, <3>1, <1>1, <1>3, <1>4 DEF Jobs, QueuedOnce
  <2> QED BY <2>1, <2>2
<1>12. RunningOnce' BY <1>11 DEF RunningOnce
<1>13. ASSUME NEW i \in inFlight
       PROVE  \/ running'[PartOf[i]] # NoJob /\ running'[PartOf[i]].id = i
              \/ \E n \in DOMAIN queue'[PartOf[i]] : queue'[PartOf[i]][n].id = i
  <2>1. CASE PartOf[i] # p
    <3>1. PartOf[i] \in Parts BY PartOfAssumption DEF TypeOK
    <3> QED BY <2>1, <3>1, <1>4 DEF Jobs, InFlightHeld
  <2>2. CASE PartOf[i] = p
    <3>1. PICK n \in DOMAIN queue[p] : queue[p][n].id = i BY <2>2, <1>2 DEF Jobs, InFlightHeld
    <3>2. CASE n = 1 BY <3>1, <3>2, <2>2, <1>3, <1>4, NoJobAssumption
    <3>3. CASE n # 1
      <4>1. /\ n - 1 \in DOMAIN Tail(queue[p])
            /\ Tail(queue[p])[n - 1].id = i
        BY <3>1, <3>3, <1>3
      <4> QED BY <4>1, <2>2, <1>4
    <3> QED BY <3>2, <3>3
  <2> QED BY <2>1, <2>2
<1>14. InFlightHeld' BY <1>1, <1>13 DEF InFlightHeld
<1> QED BY <1>1, <1>6, <1>7, <1>8, <1>10, <1>12, <1>14 DEF Jobs

LEMMA PauseSpentKeeps == ASSUME IInv, NEW p \in Parts, PauseSpent(p) PROVE IInv'
<1> USE DEF IInv
<1> DEFINE w == Paused(running[p].work, 0)
<1>1. /\ Save(running[p].id, w) /\ stage[p] = "taken"
      /\ stage' = [stage EXCEPT ![p] = "settled"]
      /\ UNCHANGED <<up, connected, queue, running, answer, inFlight, ingest, sweep, spent, due,
                     waiting, review, old, nextAt, acked, taken, dispatches, reviews, crashes>>
  BY DEF PauseSpent, recovery, clock, history
<1>2. running[p].id \in Works /\ running[p].work \in InboundWork /\ running[p].work.payload
  BY <1>1, RunningCopy
<1>3. w \in InboundWork /\ w.status = "needs_review" /\ w.payload BY <1>2, PausedWork
<1>4. Busy' /\ \A r \in Parts : stage'[r] = "answered" => stage[r] = "answered"
  BY <1>1 DEF Busy, TypeOK
<1> HIDE DEF w
<1>5. /\ Files' /\ Copies' /\ Answered' /\ Acked' /\ Jobs'
      /\ box' \in [Works -> InboundWork \cup {NoWork}] /\ faults' \in Nat
  BY <1>1, <1>2, <1>3, <1>4, CopyWritten
<1> QED BY <1>1, <1>4, <1>5 DEF TypeOK

LEMMA DispatchKeeps == ASSUME IInv, NEW p \in Parts, Dispatch(p) PROVE IInv'
<1> USE DEF IInv
<1>1. /\ stage[p] = "taken" /\ stage' = [stage EXCEPT ![p] = "answered"]
      /\ dispatches' = [dispatches EXCEPT ![running[p].id] = @ + 1]
      /\ UNCHANGED <<box, up, connected, queue, running, inFlight, ingest, sweep, spent, due,
                     waiting, review, old, nextAt, acked, reviews, faults, crashes>>
  BY DEF Dispatch, recovery, clock, bounds
<1>2. running[p].id \in Works BY <1>1, RunningCopy
<1>3. PICK a \in Answers : /\ answer' = [answer EXCEPT ![p] = a]
                           /\ \/ taken' = taken \cup {running[p].id}
                              \/ a # "ok" /\ taken' = taken
  BY DEF Dispatch
<1>4. \A x \in Job : Copy(x)' => Copy(x) BY <1>1 DEF Copy, Queued
<1>5. Files' /\ Copies' /\ Acked' BY <1>1, <1>3, <1>4, MemoryOnly
<1>6. TypeOK' BY <1>1, <1>2, <1>3 DEF TypeOK
<1>7. Busy' /\ Answered' /\ Jobs'
  BY <1>1, <1>3 DEF Busy, Answered, TypeOK, Jobs, QueuedOnce, RunningOnce, InFlightHeld
<1> QED BY <1>5, <1>6, <1>7

LEMMA CompleteKeeps == ASSUME IInv, NEW p \in Parts, Complete(p) PROVE IInv'
<1> USE DEF IInv
<1> DEFINE i == running[p].id
           w == Completed(box[i])
<1>1. /\ Save(i, w) /\ stage[p] = "answered" /\ answer[p] = "ok"
      /\ UNCHANGED <<up, connected, queue, running, inFlight, ingest, sweep, spent, due,
                     waiting, review, old, nextAt, acked, taken, dispatches, reviews, crashes>>
  BY DEF Complete, Save, recovery, clock, history
<1>2. \/ stage' = [stage EXCEPT ![p] = "settled"] /\ answer' = answer
      \/ \E a \in {"error", "permanent"} : answer' = [answer EXCEPT ![p] = a] /\ stage' = stage
  BY DEF Complete
<1>3. i \in Works /\ box[i] \in InboundWork /\ i \in taken
  BY <1>1, RunningCopy DEF TypeOK, Answered
<1>4. w \in InboundWork /\ w.status = "completed" BY <1>3, CompletedWork
<1> HIDE DEF w, i
<1>5. /\ box' \in [Works -> InboundWork \cup {NoWork}] /\ faults' \in Nat
      /\ \A j \in Works : box'[j] = box[j] \/ (j = i /\ box'[j] = w)
  BY <1>1, <1>3, <1>4, Saved
<1>6. Files' /\ \A j \in Works : box[j] # NoWork => box'[j] # NoWork
  BY <1>1, <1>3, <1>4, <1>5, FilesStay
<1>7. \A x \in Job : Copy(x)' => Copy(x) BY <1>1 DEF Copy, Queued
<1>8. Copies' BY <1>6, <1>7, CopiesStay
<1>9. TypeOK' BY <1>1, <1>2, <1>5 DEF TypeOK, Answers
<1>10. Busy' /\ Answered' /\ Jobs'
  BY <1>1, <1>2 DEF Busy, Answered, TypeOK, Jobs, QueuedOnce, RunningOnce, InFlightHeld
<1>11. Acked' BY <1>1, <1>6 DEF Acked, TypeOK
<1> QED BY <1>6, <1>8, <1>9, <1>10, <1>11

LEMMA FailKeeps == ASSUME IInv, NEW p \in Parts, Fail(p) PROVE IInv'
<1> USE DEF IInv
<1>1. /\ stage[p] = "answered" /\ stage' = [stage EXCEPT ![p] = "settled"]
      /\ UNCHANGED <<up, connected, queue, running, answer, inFlight, ingest, sweep, spent, due,
                     waiting, review, old, nextAt, acked, taken, dispatches, reviews, crashes>>
  BY DEF Fail, recovery, clock, history
<1>2. running[p].id \in Works /\ running[p].work \in InboundWork /\ running[p].work.payload
  BY <1>1, RunningCopy
<1>3. PICK w \in InboundWork : w.status # "completed" /\ w.payload /\ Save(running[p].id, w)
  <2>1. /\ Paused(running[p].work, 1) \in InboundWork /\ Deferred(running[p].work) \in InboundWork
        /\ Paused(running[p].work, 1).status # "completed" /\ Paused(running[p].work, 1).payload
        /\ Deferred(running[p].work).status # "completed" /\ Deferred(running[p].work).payload
    BY <1>2, PausedWork, DeferredWork
  <2>2. \/ Save(running[p].id, Paused(running[p].work, 1))
        \/ Save(running[p].id, Deferred(running[p].work))
    BY DEF Fail
  <2> QED BY <2>1, <2>2
<1>4. Busy' /\ \A r \in Parts : stage'[r] = "answered" => stage[r] = "answered"
  BY <1>1 DEF Busy, TypeOK
<1>5. /\ Files' /\ Copies' /\ Answered' /\ Acked' /\ Jobs'
      /\ box' \in [Works -> InboundWork \cup {NoWork}] /\ faults' \in Nat
  BY <1>1, <1>2, <1>3, <1>4, CopyWritten
<1> QED BY <1>1, <1>4, <1>5 DEF TypeOK

LEMMA JobDoneKeeps == ASSUME IInv, NEW p \in Parts, JobDone(p) PROVE IInv'
<1> USE DEF IInv
<1> DEFINE i == running[p].id
<1>1. /\ stage[p] = "settled" /\ stage' = [stage EXCEPT ![p] = "idle"]
      /\ running' = [running EXCEPT ![p] = NoJob] /\ answer' = [answer EXCEPT ![p] = "ok"]
      /\ inFlight' = inFlight \ {i} /\ waiting' = waiting \ {i}
      /\ UNCHANGED <<box, up, connected, queue, ingest, sweep, spent, due, review, old, nextAt,
                     acked, taken, dispatches, reviews, faults, crashes>>
  BY DEF JobDone, clock, history, bounds
<1>2. running[p] # NoJob /\ i \in inFlight /\ PartOf[i] = p BY <1>1 DEF Busy, Jobs, RunningOnce
<1>3. /\ running'[p] = NoJob /\ \A r \in Parts : r # p => running'[r] = running[r]
  BY <1>1 DEF TypeOK
<1>4. \A x \in Job : Copy(x)' => Copy(x) BY <1>1, <1>3, NoJobAssumption DEF Copy, Queued
<1>5. Files' /\ Copies' /\ Acked' BY <1>1, <1>4, MemoryOnly
<1>6. TypeOK' BY <1>1 DEF TypeOK, Answers
<1>7. Busy' /\ Answered' BY <1>1 DEF Busy, Answered, TypeOK
<1>8. \A r \in Parts : \A n \in DOMAIN queue[r] : queue[r][n].id # i
  BY <1>2 DEF Jobs, QueuedOnce, RunningOnce
<1>9. QueuedOnce' BY <1>1, <1>8 DEF Jobs, QueuedOnce
<1>10. ASSUME NEW r \in Parts, r # p, running[r] # NoJob PROVE running[r].id # i
  BY <1>2, <1>10 DEF Jobs, RunningOnce
<1>11. RunningOnce' BY <1>1, <1>3, <1>10 DEF Jobs, RunningOnce
<1>12. ASSUME NEW j \in inFlight, j # i
       PROVE  \/ running'[PartOf[j]] # NoJob /\ running'[PartOf[j]].id = j
              \/ \E n \in DOMAIN queue[PartOf[j]] : queue[PartOf[j]][n].id = j
  <2>1. PartOf[j] \in Parts BY PartOfAssumption DEF TypeOK
  <2> QED BY <2>1, <1>3, <1>12 DEF Jobs, InFlightHeld
<1>13. InFlightHeld' BY <1>1, <1>12 DEF InFlightHeld
<1> QED BY <1>1, <1>5, <1>6, <1>7, <1>9, <1>11, <1>13 DEF Jobs

(* Recover *)

LEMMA SweepKeeps == ASSUME IInv, Sweep PROVE IInv'
<1> USE DEF IInv
<1>1. /\ sweep' = "pausing" /\ spent' = Snapshots(Spent)
      /\ \E s \in [1 .. Cardinality(Ready) -> Snapshots(Ready)] : due' = s
      /\ UNCHANGED <<box, up, connected, queue, running, stage, answer, inFlight, ingest, waiting,
                     review, old, nextAt, acked, taken, dispatches, reviews, faults, crashes>>
  BY DEF Sweep, workers, clock, history, bounds
<1>2. ASSUME NEW i \in Works, Pending(i), NEW x, x = [id |-> i, work |-> box[i]]
      PROVE  x \in Job /\ Unsettled(x)
  BY <1>2 DEF Pending, TypeOK, Job, Files, Unsettled
<1>3. \A x \in Snapshots(Spent) \cup Snapshots(Ready) : x \in Job /\ Unsettled(x)
  BY <1>2 DEF Snapshots, Spent, Ready
<1>4. Cardinality(Ready) \in Nat BY WorksAssumption, FS_Subset, FS_CardinalityType DEF Ready
<1>5. due' \in Seq(Job) /\ \A n \in DOMAIN due' : Unsettled(due'[n])
  <2>1. PICK s \in [1 .. Cardinality(Ready) -> Snapshots(Ready)] : due' = s BY <1>1
  <2> QED BY <2>1, <1>3, <1>4
<1>6. \A x \in Job : Copy(x)' => Copy(x) \/ Unsettled(x) BY <1>1, <1>3, <1>5 DEF Copy, Queued
<1>7. Copies' BY <1>1, <1>6, CopiesStay DEF Unsettled
<1>8. TypeOK' BY <1>1, <1>3, <1>5 DEF TypeOK
<1> QED BY <1>1, <1>7, <1>8 DEF Busy, Files, Answered, Acked, Jobs, QueuedOnce, RunningOnce,
                                InFlightHeld

LEMMA SweepPauseKeeps == ASSUME IInv, NEW x \in spent, SweepPause(x) PROVE IInv'
<1> USE DEF IInv
<1> DEFINE w == Paused(x.work, 0)
<1>1. /\ Save(x.id, w) /\ spent' \subseteq spent /\ due' \in {due, <<>>}
      /\ sweep' \in {sweep, "idle"} /\ connected' \in {connected, TRUE}
      /\ UNCHANGED <<up, queue, running, stage, answer, inFlight, ingest, waiting, review, old,
                     nextAt, acked, taken, dispatches, reviews, crashes>>
  BY DEF SweepPause, Save, workers, clock, history
<1>2. x \in Job /\ Copy(x) BY DEF TypeOK, Copy
<1>3. x.id \in Works /\ x.work \in InboundWork /\ x.work.payload BY <1>2, CopyOf
<1>4. w \in InboundWork /\ w.status = "needs_review" /\ w.payload BY <1>3, PausedWork
<1> HIDE DEF w
<1>5. /\ box' \in [Works -> InboundWork \cup {NoWork}] /\ faults' \in Nat
      /\ \A j \in Works : box'[j] = box[j] \/ (j = x.id /\ box'[j] = w)
  BY <1>1, <1>3, <1>4, Saved
<1>6. Files' /\ \A j \in Works : box[j] # NoWork => box'[j] # NoWork
  BY <1>1, <1>3, <1>4, <1>5, FilesStay
<1>7. due' = due \/ DOMAIN due' = {} BY <1>1
<1>8. \A y \in Job : Copy(y)' => Copy(y) BY <1>1, <1>7 DEF Copy, Queued
<1>9. Copies' BY <1>6, <1>8, CopiesStay
<1>10. TypeOK'
  <2>1. due' \in Seq(Job)
    <3>1. <<>> \in Seq(Job)
      OBVIOUS
    <3> QED BY <1>1, <3>1 DEF TypeOK
  <2>2. spent' \subseteq Job /\ sweep' \in {"idle", "pausing", "scheduling", "waiting"}
    BY <1>1 DEF TypeOK
  <2> QED BY <1>1, <1>5, <2>1, <2>2 DEF TypeOK
<1>11. Busy' /\ Answered' /\ Jobs'
  BY <1>1 DEF Busy, Answered, Jobs, QueuedOnce, RunningOnce, InFlightHeld
<1>12. Acked' BY <1>1, <1>6 DEF Acked, TypeOK
<1> QED BY <1>6, <1>9, <1>10, <1>11, <1>12

LEMMA SweepScheduleKeeps == ASSUME IInv, SweepSchedule PROVE IInv'
<1> USE DEF IInv
<1> DEFINE x == Head(due)
<1>1. /\ Scheduled(x) \/ NotScheduled(x)
      /\ due # <<>> /\ due' = Tail(due)
      /\ UNCHANGED <<box, up, connected, ingest, sweep, spent, review, old, nextAt, acked, taken,
                     dispatches, reviews, faults, crashes>>
  BY DEF SweepSchedule, clock, history, bounds
<1>2. waiting' = waiting \/ (waiting' = waiting \cup {x.id} /\ inFlight' = inFlight \cup {x.id})
  BY DEF SweepSchedule, Scheduled
<1>3. /\ x = due[1] /\ 1 \in DOMAIN due /\ x \in Job /\ due' \in Seq(Job)
      /\ \A n \in DOMAIN due' : due'[n] = due[n + 1] /\ n + 1 \in DOMAIN due
  BY <1>1 DEF TypeOK
<1>4. Copy(x) /\ x.id \in Works BY <1>3 DEF Copy, Job
<1> HIDE DEF x
<1>5. /\ queue' \in [Parts -> Seq(Job)] /\ inFlight' \subseteq Works
      /\ UNCHANGED <<running, stage, answer>> /\ Jobs'
      /\ \A p \in Parts, y \in Job : Queued(p, y)' => Queued(p, y) \/ y = x
  BY <1>1, <1>2, <1>3, <1>4, ScheduleKeeps
<1>6. ASSUME NEW y \in Job, Copy(y)' PROVE Copy(y)
  <2>1. (\E n \in DOMAIN due' : y = due'[n]) => \E n \in DOMAIN due : y = due[n] BY <1>3
  <2> QED BY <2>1, <1>1, <1>4, <1>5, <1>6 DEF Copy
<1>7. Files' /\ Copies' /\ Acked' BY <1>1, <1>6, MemoryOnly
<1>8. TypeOK' BY <1>1, <1>2, <1>3, <1>4, <1>5 DEF TypeOK
<1> QED BY <1>1, <1>5, <1>7, <1>8 DEF Busy, Answered

\* SweepReady, SweepWait and SweepEnd only move the pass on.
LEMMA SweepStepKeeps == ASSUME IInv, SweepReady \/ SweepWait \/ SweepEnd PROVE IInv'
<1> USE DEF IInv
<1>1. /\ sweep' \in {"scheduling", "waiting", "idle"} /\ connected' \in {connected, TRUE}
      /\ UNCHANGED <<box, up, queue, running, stage, answer, inFlight, ingest, spent, due, waiting,
                     review, old, nextAt, acked, taken, dispatches, reviews, faults, crashes>>
  BY DEF SweepReady, SweepWait, SweepEnd, workers, clock, history, bounds
<1>2. Copies' BY <1>1 DEF Copies, Copy, Queued, Unsettled
<1>3. TypeOK' BY <1>1 DEF TypeOK
<1>4. Busy' /\ Files' /\ Answered' /\ Acked' /\ Jobs'
  BY <1>1 DEF Busy, Files, Answered, Acked, Jobs, QueuedOnce, RunningOnce, InFlightHeld
<1> QED BY <1>2, <1>3, <1>4

(* Reviews, time, crash and restart *)

LEMMA ReadReviewKeeps == ASSUME IInv, NEW i \in Works, ReadReview(i) PROVE IInv'
<1> USE DEF IInv
<1>1. /\ review' = [id |-> i, work |-> box[i]] /\ reviews' = reviews + 1
      /\ box[i] # NoWork /\ box[i].status = "needs_review"
      /\ UNCHANGED <<box, up, connected, queue, running, stage, answer, inFlight, ingest, sweep,
                     spent, due, waiting, old, nextAt, acked, taken, dispatches, faults, crashes>>
  BY DEF ReadReview, workers, recovery, clock, history
<1>2. review' \in Job /\ Unsettled(review') BY <1>1 DEF TypeOK, Job, Files, Unsettled
<1>3. \A x \in Job : Copy(x)' => Copy(x) \/ Unsettled(x) BY <1>1, <1>2 DEF Copy, Queued
<1>4. Copies' BY <1>1, <1>3, CopiesStay DEF Unsettled
<1>5. TypeOK' BY <1>1, <1>2 DEF TypeOK
<1> QED BY <1>1, <1>4, <1>5 DEF Busy, Files, Answered, Acked, Jobs, QueuedOnce, RunningOnce,
                                InFlightHeld

LEMMA RetryReviewedKeeps == ASSUME IInv, RetryReviewed PROVE IInv'
<1> USE DEF IInv
<1> DEFINE w == Revived(review.work)
<1>1. /\ Save(review.id, w) /\ review' = NoJob /\ review \in Job
      /\ UNCHANGED <<up, connected, queue, running, stage, answer, inFlight, ingest, sweep, spent,
                     due, waiting, old, nextAt, acked, taken, dispatches, reviews, crashes>>
  BY DEF RetryReviewed, TypeOK, workers, recovery, clock, history
<1>2. review.id \in Works /\ review.work \in InboundWork /\ review.work.payload
  BY <1>1, CopyOf DEF Copy
<1>3. w \in InboundWork /\ w.status = "pending" /\ w.payload BY <1>2, RevivedWork
<1>4. Busy' BY <1>1 DEF Busy
<1> HIDE DEF w
<1>5. /\ Files' /\ Copies' /\ Answered' /\ Acked' /\ Jobs'
      /\ box' \in [Works -> InboundWork \cup {NoWork}] /\ faults' \in Nat
  BY <1>1, <1>2, <1>3, <1>4, CopyWritten
<1> QED BY <1>1, <1>4, <1>5 DEF TypeOK

LEMMA RetryDueKeeps == ASSUME IInv, NEW i \in Works, RetryDue(i) PROVE IInv'
<1> USE DEF IInv
<1> DEFINE w == [box[i] EXCEPT !.wait = FALSE]
<1>1. /\ box' = [box EXCEPT ![i] = w] /\ box[i] # NoWork
      /\ UNCHANGED <<up, connected, queue, running, stage, answer, inFlight, ingest, sweep, spent,
                     due, waiting, review, old, nextAt, acked, taken, dispatches, reviews, faults,
                     crashes>>
  BY DEF RetryDue, Pending, TypeOK, workers, recovery, clock, history, bounds
<1>2. /\ w \in InboundWork /\ w.status = box[i].status
      /\ IF w.status = "completed" THEN i \in taken ELSE w.payload
  BY <1>1 DEF TypeOK, InboundWork, Files
<1>3. Save(i, w) BY <1>1 DEF Save, Write
<1>4. Busy' BY <1>1 DEF Busy
<1> HIDE DEF w
<1>5. /\ Files' /\ Copies' /\ Answered' /\ Acked' /\ Jobs'
      /\ box' \in [Works -> InboundWork \cup {NoWork}]
  BY <1>1, <1>2, <1>3, <1>4, CopyWritten
<1> QED BY <1>1, <1>4, <1>5 DEF TypeOK

LEMMA HourPassesKeeps == ASSUME IInv, NEW i \in Works, HourPasses(i) PROVE IInv'
<1> USE DEF IInv
<1>1. /\ old' = old \cup {<<i, box[i].gen>>} /\ box[i] # NoWork
      /\ UNCHANGED <<box, up, connected, queue, running, stage, answer, inFlight, ingest, sweep,
                     spent, due, waiting, review, nextAt, acked, taken, dispatches, reviews,
                     faults, crashes>>
  BY DEF HourPasses, workers, recovery, history, bounds
<1>2. box[i].gen \in Nat BY <1>1 DEF TypeOK, InboundWork
<1>3. Copies' BY <1>1 DEF Copies, Copy, Queued, Unsettled
<1> QED BY <1>1, <1>2, <1>3 DEF TypeOK, Busy, Files, Answered, Acked, Jobs, QueuedOnce,
                                RunningOnce, InFlightHeld

LEMMA CrashKeeps == ASSUME IInv, Crash PROVE IInv'
<1> USE DEF IInv
<1>1. /\ queue' = [p \in Parts |-> <<>>] /\ running' = [p \in Parts |-> NoJob]
      /\ stage' = [p \in Parts |-> "idle"] /\ answer' = [p \in Parts |-> "ok"]
      /\ inFlight' = {} /\ waiting' = {} /\ ingest' = NoJob /\ spent' = {} /\ due' = <<>>
      /\ up' = FALSE /\ connected' = FALSE /\ sweep' = "idle" /\ crashes' = crashes + 1
      /\ UNCHANGED <<box, review, old, nextAt, acked, taken, dispatches, reviews, faults>>
  BY DEF Crash, clock, history
<1>2. \A p \in Parts : DOMAIN queue'[p] = {} /\ running'[p] = NoJob /\ Len(queue'[p]) = 0 BY <1>1
<1>3. \A x \in Job : Copy(x)' => Copy(x) BY <1>1, <1>2, NoJobAssumption DEF Copy, Queued
<1>4. Files' /\ Copies' /\ Acked' BY <1>1, <1>3, MemoryOnly
<1>5. TypeOK'
  <2>1. <<>> \in Seq(Job)
    OBVIOUS
  <2>2. queue' \in [Parts -> Seq(Job)] /\ due' \in Seq(Job) BY <1>1, <2>1
  <2>3. running' \in [Parts -> Job \cup {NoJob}] /\ answer' \in [Parts -> Answers]
    BY <1>1 DEF Answers
  <2>4. /\ stage' \in [Parts -> {"idle", "taken", "answered", "settled"}]
        /\ ingest' \in Job \cup {NoJob} /\ spent' \subseteq Job
        /\ inFlight' \subseteq Works /\ waiting' \subseteq Works
    BY <1>1
  <2>5. /\ up' \in BOOLEAN /\ connected' \in BOOLEAN
        /\ sweep' \in {"idle", "pausing", "scheduling", "waiting"}
    <3>1. up' = FALSE /\ connected' = FALSE /\ sweep' = "idle" BY <1>1
    <3> QED BY ONLY <3>1
  <2>6. crashes' \in Nat
    <3>1. crashes' = crashes + 1 /\ crashes \in Nat BY <1>1 DEF TypeOK
    <3> QED BY ONLY <3>1
  <2>7. UNCHANGED <<box, review, old, nextAt, acked, taken, dispatches, reviews, faults>> BY <1>1
  <2> QED BY <2>2, <2>3, <2>4, <2>5, <2>6, <2>7 DEF TypeOK
<1>6. Busy' /\ Answered' BY <1>1 DEF Busy, Answered
<1>7. Jobs' BY <1>1, <1>2, BoundsAssumption DEF Jobs, QueuedOnce, RunningOnce, InFlightHeld
<1> QED BY <1>4, <1>5, <1>6, <1>7

\* ScrubTerminal: what loses its payload is completed, and stays so.
LEMMA ScrubbedFile ==
  ASSUME IInv, NEW i \in Works
  PROVE  /\ Scrubbed(box[i]) \in InboundWork \cup {NoWork}
         /\ box[i] = NoWork <=> Scrubbed(box[i]) = NoWork
         /\ box[i] # NoWork => /\ Scrubbed(box[i]).status = box[i].status
                               /\ box[i].status # "completed" => Scrubbed(box[i]) = box[i]
<1>1. box[i] \in InboundWork \cup {NoWork} BY DEF IInv, TypeOK
<1>2. CASE box[i] # NoWork /\ box[i].status = "completed"
  BY <1>1, <1>2, CompletedWork, NoWorkAssumption DEF Scrubbed
<1>3. CASE ~(box[i] # NoWork /\ box[i].status = "completed") BY <1>1, <1>3 DEF Scrubbed
<1> QED BY <1>2, <1>3

LEMMA StartKeeps == ASSUME IInv, Start \/ StartFails PROVE IInv'
<1> USE DEF IInv
<1>1. /\ box' \in [Works -> InboundWork \cup {NoWork}]
      /\ \A i \in Works : box'[i] = box[i] \/ box'[i] = Scrubbed(box[i])
  BY ScrubbedFile DEF Start, StartFails, TypeOK
<1>2. /\ up' \in BOOLEAN /\ faults' \in Nat
      /\ UNCHANGED <<connected, queue, running, stage, answer, inFlight, ingest, sweep, spent, due,
                     waiting, review, old, nextAt, acked, taken, dispatches, reviews, crashes>>
  <2>1. CASE Start BY <2>1 DEF Start, TypeOK, workers, recovery, clock, history, bounds
  <2>2. CASE StartFails BY <2>2 DEF StartFails, TypeOK, workers, recovery, clock, history
  <2> QED BY <2>1, <2>2
<1>3. \A i \in Works : box[i] # NoWork <=> box'[i] # NoWork BY <1>1, ScrubbedFile
<1>4. Files' BY <1>1, <1>2, <1>3, ScrubbedFile DEF Files
<1>5. \A x \in Job : Copy(x)' => Copy(x) BY <1>2 DEF Copy, Queued
<1>6. Copies' BY <1>3, <1>5, CopiesStay
<1>7. Acked' BY <1>2, <1>3 DEF Acked, TypeOK
<1>8. TypeOK' BY <1>1, <1>2 DEF TypeOK
<1> QED BY <1>2, <1>4, <1>6, <1>7, <1>8 DEF Busy, Answered, Jobs, QueuedOnce, RunningOnce,
                                            InFlightHeld

LEMMA NextIInv == IInv /\ [Next]_vars => IInv'
<1> SUFFICES ASSUME IInv, [Next]_vars PROVE IInv'
  OBVIOUS
<1>1. CASE UNCHANGED vars
  <2>1. Copies' BY <1>1 DEF IInv, Copies, Copy, Queued, Unsettled, vars, workers, recovery
  <2> QED BY <1>1, <2>1 DEF IInv, TypeOK, Busy, Files, Answered, Acked, Jobs, QueuedOnce,
        RunningOnce, InFlightHeld, vars, workers, recovery, clock, history, bounds
<1>2. CASE Handle
  BY <1>2, EnqueueNewKeeps, HandleExistingKeeps, PutFailsKeeps, HandleNewKeeps DEF Handle
<1>3. CASE \E p \in Parts : Worker(p)
  BY <1>3, TakeJobKeeps, PauseSpentKeeps, DispatchKeeps, CompleteKeeps, FailKeeps, JobDoneKeeps
     DEF Worker
<1>4. CASE Recover
  BY <1>4, SweepKeeps, SweepPauseKeeps, SweepScheduleKeeps, SweepStepKeeps DEF Recover
<1>5. CASE Review BY <1>5, ReadReviewKeeps, RetryReviewedKeeps DEF Review
<1>6. CASE \E i \in Works : RetryDue(i) \/ HourPasses(i) BY <1>6, RetryDueKeeps, HourPassesKeeps
<1>7. CASE Crash \/ Start \/ StartFails BY <1>7, CrashKeeps, StartKeeps
<1> QED BY <1>1, <1>2, <1>3, <1>4, <1>5, <1>6, <1>7 DEF Next

\* A work in flight has one place, any other none.
LEMMA JobsAreOnce == IInv => OneJobPerWork
<1> SUFFICES ASSUME IInv PROVE OneJobPerWork
  OBVIOUS
<1> USE DEF IInv
<1>1. ASSUME NEW i \in Works, i \notin inFlight PROVE Places(i) = {}
  <2>1. ASSUME NEW p \in Parts, NEW n \in 1 .. Buffer, n <= Len(queue[p])
        PROVE  queue[p][n].id # i
    <3>1. n \in DOMAIN queue[p] BY <2>1, BoundsAssumption DEF TypeOK
    <3> QED BY <3>1, <1>1 DEF Jobs, QueuedOnce
  <2> QED BY <2>1, <1>1 DEF Places, Jobs, RunningOnce
<1>2. ASSUME NEW i \in inFlight PROVE \E x : Places(i) = {x}
  <2> DEFINE q == PartOf[i]
  <2>1. q \in Parts /\ queue[q] \in Seq(Job) /\ Len(queue[q]) \in Nat /\ Len(queue[q]) <= Buffer
    BY PartOfAssumption DEF TypeOK, Jobs, QueuedOnce
  <2>2. ASSUME NEW x \in Places(i)
        PROVE  /\ x = <<q, x[2]>>
               /\ \/ x[2] = 0 /\ running[q] # NoJob /\ running[q].id = i
                  \/ x[2] \in DOMAIN queue[q] /\ queue[q][x[2]].id = i
    <3>1. CASE x \in {<<p, 0>> : p \in {r \in Parts : running[r] # NoJob /\ running[r].id = i}}
      BY <3>1 DEF Jobs, RunningOnce
    <3>2. CASE /\ x \in Parts \X (1 .. Buffer) /\ x[2] <= Len(queue[x[1]])
               /\ queue[x[1]][x[2]].id = i
      <4>1. x[2] \in DOMAIN queue[x[1]] BY <3>2, BoundsAssumption DEF TypeOK
      <4>2. x[1] = q BY <4>1, <3>2 DEF Jobs, QueuedOnce
      <4> QED BY <3>2, <4>1, <4>2
    <3> QED BY <3>1, <3>2 DEF Places
  <2>3. CASE running[q] # NoJob /\ running[q].id = i
    <3>1. <<q, 0>> \in Places(i) BY <2>1, <2>3 DEF Places
    <3>2. \A n \in DOMAIN queue[q] : queue[q][n].id # i BY <2>1, <2>3 DEF Jobs, RunningOnce
    <3>3. \A x \in Places(i) : x = <<q, 0>> BY <2>2, <3>2
    <3> QED BY <3>1, <3>3
  <2>4. CASE ~(running[q] # NoJob /\ running[q].id = i)
    <3>1. PICK n \in DOMAIN queue[q] : queue[q][n].id = i BY <2>4 DEF Jobs, InFlightHeld
    <3>2. n \in 1 .. Buffer /\ n <= Len(queue[q]) BY <2>1, <3>1, BoundsAssumption
    <3>3. <<q, n>> \in Places(i) BY <2>1, <3>1, <3>2 DEF Places
    <3>4. \A x \in Places(i) : x = <<q, n>> BY <2>1, <2>2, <2>4, <3>1 DEF Jobs, QueuedOnce
    <3> QED BY <3>3, <3>4
  <2> QED BY <2>3, <2>4
<1>3. ASSUME NEW i \in Works PROVE Cardinality(Places(i)) = IF i \in inFlight THEN 1 ELSE 0
  BY <1>1, <1>2, FS_EmptySet, FS_Singleton
<1> QED BY <1>3 DEF OneJobPerWork, Jobs

\* No acknowledged event is lost: through failing writes, lost replies, crashes and copies that
\* are written back late.
THEOREM InboundNeverLoses == Spec => []NothingIsLost
<1>1. IInv => NothingIsLost BY DEF IInv, NothingIsLost, Files, Acked
<1> QED BY <1>1, InitIInv, NextIInv, PTL DEF Spec

\* No file stops the recovery pass.
THEOREM InboundNeverWedges == Spec => []RecoveryNeverWedged
<1>1. IInv => RecoveryNeverWedged BY DEF IInv, RecoveryNeverWedged, Files
<1> QED BY <1>1, InitIInv, NextIInv, PTL DEF Spec

\* A work in flight has one job, any other none, and the recovery waits for nothing else.
THEOREM InboundRunsOneJob == Spec => []OneJobPerWork
BY InitIInv, NextIInv, JobsAreOnce, PTL DEF Spec

(* The bound of the dispatches. A file, a job, a copy that the recovery has read, the event  *)
(* in Handle and the work in a review each allow a number of dispatches; that of the one job *)
(* there may be takes the place of its file's, so the largest of them counts, and what       *)
(* Handle and a review have in hand is added.                                                *)

Left(w) == IF w.tries < MaxAttempts THEN MaxAttempts - w.tries ELSE 0

FileLeft(i) == IF Pending(i) THEN Left(box[i]) ELSE 0

IngestLeft(i) ==
  IF box[i] = NoWork THEN 2 * MaxAttempts + 1
  ELSE IF ingest # NoJob /\ ingest.id = i THEN MaxAttempts + 1 ELSE 0

ReviewLeft(i) == IF review # NoJob /\ review.id = i THEN MaxAttempts ELSE 0

Granted == MaxAttempts * (2 + reviews) + 1 + crashes + faults

\* What is left for the file of i, its job, and a copy of it that is due.
Rest(i) == Granted - dispatches[i] - IngestLeft(i) - ReviewLeft(i)

FreshJobs(i) ==
  {x \in Job : x.id = i /\ \E p \in Parts : Queued(p, x) \/ (stage[p] = "taken" /\ x = running[p])}

AnsweredJobs(i) == {x \in Job : x.id = i /\ \E p \in Parts : stage[p] = "answered" /\ x = running[p]}

DueCopies(i) == {x \in Job : x.id = i /\ \E n \in DOMAIN due : x = due[n]}

\* A job that the recovery waits for is its own, and then nothing of the work is due; while
\* Handle's job waits for its turn, a pass may read the file once more.
Budgeted(i) ==
  /\ 0 <= Rest(i)
  /\ \A x \in FreshJobs(i) : Left(x.work) <= Rest(i)
  /\ \A x \in AnsweredJobs(i) : 1 <= Left(x.work) /\ Left(x.work) <= Rest(i) + 1
  /\ \/ FileLeft(i) <= Rest(i)
     \/ i \in waiting /\ AnsweredJobs(i) # {} /\ FileLeft(i) <= Rest(i) + 1
  /\ \A x \in DueCopies(i) : i \notin waiting /\ Left(x.work) <= Rest(i)
  /\ FreshJobs(i) # {} /\ i \notin waiting =>
       FileLeft(i) + 1 <= Rest(i) /\ \A x \in DueCopies(i) : Left(x.work) + 1 <= Rest(i)

DueOnce ==
  /\ \A m, n \in DOMAIN due : due[m].id = due[n].id => m = n
  /\ sweep \in {"idle", "pausing"} => waiting = {}

BInv == IInv /\ DueOnce /\ \A i \in Works : Budgeted(i)

LEMMA LeftType ==
  ASSUME NEW w \in InboundWork
  PROVE  Left(w) \in Nat /\ Left(w) <= MaxAttempts
BY BoundsAssumption DEF Left, InboundWork

LEMMA FileLeftType ==
  ASSUME TypeOK, NEW i \in Works
  PROVE  FileLeft(i) \in Nat /\ FileLeft(i) <= MaxAttempts
<1>1. Pending(i) => box[i] \in InboundWork BY DEF TypeOK, Pending
<1> QED BY <1>1, LeftType, BoundsAssumption DEF FileLeft

LEMMA JobLeftType ==
  ASSUME NEW x \in Job
  PROVE  Left(x.work) \in Nat /\ Left(x.work) <= MaxAttempts
BY LeftType DEF Job

LEMMA RestType ==
  ASSUME TypeOK, NEW i \in Works
  PROVE  /\ Rest(i) \in Int /\ Granted \in Int /\ IngestLeft(i) \in Nat /\ ReviewLeft(i) \in Nat
         /\ dispatches[i] \in Nat /\ reviews \in Nat /\ crashes \in Nat /\ faults \in Nat
         /\ MaxAttempts \in Nat
<1>1. dispatches[i] \in Nat /\ reviews \in Nat /\ crashes \in Nat /\ faults \in Nat /\ MaxAttempts \in Nat
  BY BoundsAssumption DEF TypeOK
<1>2. MaxAttempts * (2 + reviews) \in Nat BY <1>1
<1>3. IngestLeft(i) \in Nat /\ ReviewLeft(i) \in Nat BY <1>1 DEF IngestLeft, ReviewLeft
<1> QED BY <1>1, <1>2, <1>3 DEF Rest, Granted

LEMMA RestTypeNext ==
  ASSUME TypeOK', NEW i \in Works
  PROVE  Rest(i)' \in Int /\ FileLeft(i)' \in Nat /\ FileLeft(i)' <= MaxAttempts
<1>1. dispatches'[i] \in Nat /\ reviews' \in Nat /\ crashes' \in Nat /\ faults' \in Nat /\ MaxAttempts \in Nat
  BY BoundsAssumption DEF TypeOK
<1>2. MaxAttempts * (2 + reviews') \in Nat
  <2>1. \A r \in Nat : MaxAttempts * (2 + r) \in Nat BY <1>1
  <2> QED BY <1>1, <2>1
<1>3. IngestLeft(i)' \in Nat /\ ReviewLeft(i)' \in Nat BY <1>1 DEF IngestLeft, ReviewLeft
<1>4. Rest(i)' \in Int BY <1>1, <1>2, <1>3 DEF Rest, Granted
<1>5. Pending(i)' => box'[i] \in InboundWork BY DEF TypeOK, Pending
<1>6. FileLeft(i)' = IF Pending(i)' THEN Left(box'[i]) ELSE 0 BY DEF FileLeft, Left
<1> QED BY <1>4, <1>5, <1>6, LeftType, BoundsAssumption

\* What a review that is begun, a crash and a failing write add.
LEMMA GrantedGrows ==
  ASSUME TypeOK, TypeOK', NEW m \in Nat,
         (reviews' = reviews /\ m = 0) \/ (reviews' = reviews + 1 /\ m = MaxAttempts)
  PROVE  /\ Granted' = Granted + m + (crashes' - crashes) + (faults' - faults)
         /\ Granted \in Int /\ crashes \in Nat /\ crashes' \in Nat /\ faults \in Nat /\ faults' \in Nat
<1>1. /\ reviews \in Nat /\ crashes \in Nat /\ faults \in Nat /\ MaxAttempts \in Nat
      /\ crashes' \in Nat /\ faults' \in Nat
  BY BoundsAssumption DEF TypeOK
<1>2. MaxAttempts * (2 + reviews) \in Int BY <1>1
<1>3. MaxAttempts * (2 + (reviews + 1)) = MaxAttempts * (2 + reviews) + MaxAttempts BY <1>1
<1>4. MaxAttempts * (2 + reviews') = MaxAttempts * (2 + reviews) + m
  <2>1. CASE reviews' = reviews /\ m = 0 BY <1>2, <2>1
  <2>2. CASE reviews' = reviews + 1 /\ m = MaxAttempts BY <1>1, <1>3, <2>2
  <2> QED BY <2>1, <2>2
<1> DEFINE a == MaxAttempts * (2 + reviews)
           b == MaxAttempts * (2 + reviews')
<1>5. Granted = a + 1 + crashes + faults /\ Granted' = b + 1 + crashes' + faults' BY DEF Granted
<1>6. a \in Int /\ b = a + m BY <1>2, <1>4 DEF a, b
<1> HIDE DEF a, b
<1> QED BY <1>1, <1>5, <1>6

\* One place for each work: what is queued or taken is not answered.
LEMMA OnePlace ==
  ASSUME IInv, NEW i \in Works
  PROVE  /\ FreshJobs(i) = {} \/ AnsweredJobs(i) = {}
         /\ i \notin inFlight => FreshJobs(i) = {} /\ AnsweredJobs(i) = {}
         /\ \A p \in Parts : stage[p] \in {"answered", "settled"} /\ running[p].id = i => FreshJobs(i) = {}
         /\ \A p \in Parts : stage[p] \in {"taken", "settled"} /\ running[p].id = i => AnsweredJobs(i) = {}
         /\ \A p \in Parts : stage[p] # "idle" /\ running[p].id = i => i \in inFlight
<1> USE DEF IInv
<1>1. \A p \in Parts : stage[p] # "idle" => running[p] # NoJob BY DEF Busy
<1>2. \A p, q \in Parts : running[p] # NoJob /\ running[q] # NoJob /\ running[p].id = running[q].id => p = q
  BY DEF Jobs, RunningOnce
<1>3. ASSUME NEW p \in Parts, NEW q \in Parts, NEW x \in Job, Queued(p, x), running[q] # NoJob
      PROVE  running[q].id # x.id
  <2>1. PartOf[x.id] = p /\ x.id \in inFlight BY <1>3 DEF Queued, Jobs, QueuedOnce
  <2> QED BY <1>3, <2>1 DEF Queued, Jobs, RunningOnce
<1>4. ASSUME NEW p \in Parts, stage[p] \in {"answered", "settled"}, running[p].id = i
      PROVE  FreshJobs(i) = {}
  <2> SUFFICES ASSUME NEW x \in Job, x.id = i, NEW q \in Parts, Queued(q, x) \/ (stage[q] = "taken" /\ x = running[q])
               PROVE FALSE
    BY DEF FreshJobs
  <2>1. CASE Queued(q, x) BY <1>1, <1>3, <1>4, <2>1
  <2>2. CASE stage[q] = "taken" /\ x = running[q] BY <1>1, <1>2, <1>4, <2>2
  <2> QED BY <2>1, <2>2
<1>5. ASSUME NEW p \in Parts, stage[p] \in {"taken", "settled"}, running[p].id = i
      PROVE  AnsweredJobs(i) = {}
  BY <1>1, <1>2, <1>5 DEF AnsweredJobs
<1>6. FreshJobs(i) = {} \/ AnsweredJobs(i) = {} BY <1>4 DEF AnsweredJobs
<1>7. \A p \in Parts : stage[p] # "idle" /\ running[p].id = i => i \in inFlight
  BY <1>1 DEF Jobs, RunningOnce
<1>8. i \notin inFlight => FreshJobs(i) = {} BY <1>7 DEF FreshJobs, Queued, Jobs, QueuedOnce
<1>9. i \notin inFlight => AnsweredJobs(i) = {} BY <1>7 DEF AnsweredJobs
<1> QED BY <1>4, <1>5, <1>6, <1>7, <1>8, <1>9

\* What only takes away, or gives more, keeps the budget of a work.
LEMMA BudgetStays ==
  ASSUME TypeOK, TypeOK', NEW i \in Works, Budgeted(i), Rest(i) <= Rest(i)', FileLeft(i)' <= FileLeft(i),
         FreshJobs(i)' \subseteq FreshJobs(i), AnsweredJobs(i)' \subseteq AnsweredJobs(i),
         AnsweredJobs(i)' = AnsweredJobs(i) \/ FileLeft(i)' <= Rest(i)',
         DueCopies(i)' \subseteq DueCopies(i), i \in waiting' <=> i \in waiting
  PROVE  Budgeted(i)'
<1>1. Rest(i) \in Int /\ Rest(i)' \in Int /\ FileLeft(i) \in Nat /\ FileLeft(i)' \in Nat
  <2>1. Rest(i) \in Int /\ FileLeft(i) \in Nat BY RestType, FileLeftType
  <2>2. Rest(i)' \in Int /\ FileLeft(i)' \in Nat BY RestTypeNext
  <2> QED BY <2>1, <2>2
<1>2. \A x \in Job : Left(x.work) \in Nat /\ Left(x.work)' = Left(x.work) BY JobLeftType DEF Left
<1>3. FreshJobs(i) \subseteq Job /\ AnsweredJobs(i) \subseteq Job /\ DueCopies(i) \subseteq Job
  BY DEF FreshJobs, AnsweredJobs, DueCopies
<1> QED BY <1>1, <1>2, <1>3 DEF Budgeted

\* How the rest moves.
LEMMA RestMoves ==
  ASSUME TypeOK, TypeOK', NEW i \in Works, NEW m \in Nat,
         (reviews' = reviews /\ m = 0) \/ (reviews' = reviews + 1 /\ m = MaxAttempts)
  PROVE  /\ Rest(i)' = Rest(i) + m + (crashes' - crashes) + (faults' - faults) - (dispatches'[i] - dispatches[i])
                       - (IngestLeft(i)' - IngestLeft(i)) - (ReviewLeft(i)' - ReviewLeft(i))
         /\ crashes \in Nat /\ crashes' \in Nat /\ faults \in Nat /\ faults' \in Nat
         /\ dispatches[i] \in Nat /\ dispatches'[i] \in Nat /\ IngestLeft(i) \in Nat /\ IngestLeft(i)' \in Nat
         /\ ReviewLeft(i) \in Nat /\ ReviewLeft(i)' \in Nat /\ Rest(i) \in Int /\ Rest(i)' \in Int
<1>1. /\ Rest(i) = Granted - dispatches[i] - IngestLeft(i) - ReviewLeft(i)
      /\ Rest(i)' = Granted' - dispatches'[i] - IngestLeft(i)' - ReviewLeft(i)'
  BY DEF Rest
<1>2. /\ Granted' = Granted + m + (crashes' - crashes) + (faults' - faults)
      /\ Granted \in Int /\ crashes \in Nat /\ crashes' \in Nat /\ faults \in Nat /\ faults' \in Nat
  BY GrantedGrows
<1>3. /\ dispatches[i] \in Nat /\ dispatches'[i] \in Nat /\ IngestLeft(i) \in Nat /\ IngestLeft(i)' \in Nat
      /\ ReviewLeft(i) \in Nat /\ ReviewLeft(i)' \in Nat
  BY BoundsAssumption DEF TypeOK, IngestLeft, ReviewLeft
<1> QED BY <1>1, <1>2, <1>3

\* A step that makes no file, takes nothing new in hand and dispatches nothing leaves the rest.
LEMMA RestStays ==
  ASSUME TypeOK, TypeOK', NEW i \in Works,
         box'[i] = NoWork <=> box[i] = NoWork, dispatches'[i] = dispatches[i],
         ingest' # NoJob /\ ingest'.id = i => ingest' = ingest,
         review' # NoJob /\ review'.id = i => review' = review,
         reviews' = reviews, faults' >= faults, crashes' >= crashes
  PROVE  /\ Rest(i) <= Rest(i)' /\ (box'[i] = box[i] => FileLeft(i)' = FileLeft(i))
         /\ Rest(i) \in Int /\ Rest(i)' \in Int /\ FileLeft(i) \in Nat /\ FileLeft(i)' \in Nat
<1>1. IngestLeft(i)' <= IngestLeft(i) /\ ReviewLeft(i)' <= ReviewLeft(i)
  BY BoundsAssumption DEF IngestLeft, ReviewLeft
<1>2. box'[i] = box[i] => FileLeft(i)' = FileLeft(i) BY DEF FileLeft, Pending, Left
<1>3. /\ Rest(i)' = Rest(i) + 0 + (crashes' - crashes) + (faults' - faults) - (dispatches'[i] - dispatches[i])
                    - (IngestLeft(i)' - IngestLeft(i)) - (ReviewLeft(i)' - ReviewLeft(i))
      /\ crashes \in Nat /\ crashes' \in Nat /\ faults \in Nat /\ faults' \in Nat
      /\ dispatches[i] \in Nat /\ dispatches'[i] \in Nat /\ IngestLeft(i) \in Nat /\ IngestLeft(i)' \in Nat
      /\ ReviewLeft(i) \in Nat /\ ReviewLeft(i)' \in Nat /\ Rest(i) \in Int /\ Rest(i)' \in Int
  BY RestMoves
<1>4. FileLeft(i) \in Nat /\ FileLeft(i)' \in Nat BY FileLeftType, RestTypeNext
<1> QED BY <1>1, <1>2, <1>3, <1>4

\* A step that has nothing to do with i.
LEMMA Untouched ==
  ASSUME TypeOK, TypeOK', NEW i \in Works, Budgeted(i),
         box'[i] = box[i], dispatches'[i] = dispatches[i],
         ingest' # NoJob /\ ingest'.id = i => ingest' = ingest,
         review' # NoJob /\ review'.id = i => review' = review,
         reviews' = reviews, faults' >= faults, crashes' >= crashes,
         FreshJobs(i)' \subseteq FreshJobs(i), AnsweredJobs(i)' = AnsweredJobs(i),
         DueCopies(i)' \subseteq DueCopies(i), i \in waiting' <=> i \in waiting
  PROVE  Budgeted(i)'
<1>1. Rest(i) <= Rest(i)' /\ FileLeft(i)' = FileLeft(i) /\ FileLeft(i) \in Nat BY RestStays
<1>2. FileLeft(i)' <= FileLeft(i) BY <1>1
<1> QED BY <1>1, <1>2, BudgetStays

LEMMA JobsStay ==
  ASSUME NEW i \in Works, UNCHANGED <<queue, running, stage>>
  PROVE  FreshJobs(i)' = FreshJobs(i) /\ AnsweredJobs(i)' = AnsweredJobs(i)
BY DEF FreshJobs, AnsweredJobs, Queued

LEMMA DueStays ==
  ASSUME NEW i \in Works, UNCHANGED due
  PROVE  DueCopies(i)' = DueCopies(i)
BY DEF DueCopies

LEMMA CountsGrow ==
  ASSUME TypeOK, NEW i \in Works, NEW w, Save(i, w) \/ UNCHANGED faults
  PROVE  faults' >= faults
BY DEF TypeOK, Save, Write, WriteFails

\* What has no file has no copy.
LEMMA NoFileNoCopy ==
  ASSUME IInv, NEW i \in Works, box[i] = NoWork
  PROVE  FreshJobs(i) = {} /\ AnsweredJobs(i) = {} /\ DueCopies(i) = {}
BY DEF IInv, Copies, Copy, Unsettled, FreshJobs, AnsweredJobs, DueCopies, Queued

LEMMA EnqueueNewBudget ==
  ASSUME BInv, IInv', NEW j \in Works, EnqueueNew(j)
  PROVE  DueOnce' /\ \A i \in Works : Budgeted(i)'
<1>1. TypeOK /\ TypeOK' /\ \A i \in Works : Budgeted(i) BY DEF BInv, IInv
<1>2. DueOnce' BY DEF BInv, DueOnce, EnqueueNew, recovery
<1>3. NewWork \in InboundWork /\ Left(NewWork) = MaxAttempts
  BY <1>1, BoundsAssumption DEF TypeOK, NewWork, InboundWork, Statuses, Left
<1>4. Save(j, NewWork) BY DEF EnqueueNew, Save
<1>5. faults' >= faults /\ crashes' >= crashes BY <1>1, <1>4, CountsGrow DEF TypeOK, EnqueueNew
<1>6. /\ UNCHANGED <<queue, running, stage, due, waiting, review, reviews, crashes, dispatches>>
      /\ ingest = NoJob /\ box[j] = NoWork
  BY DEF EnqueueNew, workers, recovery, history
<1>7. ASSUME NEW i \in Works PROVE Budgeted(i)'
  <2>1. FreshJobs(i)' = FreshJobs(i) /\ AnsweredJobs(i)' = AnsweredJobs(i) /\ DueCopies(i)' = DueCopies(i)
    BY <1>6, JobsStay, DueStays
  <2>2. CASE i # j
    <3>1. box'[i] = box[i] BY <1>1, <1>4, <2>2 DEF TypeOK, Save, Write, WriteFails
    <3>2. ingest' # NoJob /\ ingest'.id = i => ingest' = ingest BY <2>2 DEF EnqueueNew
    <3> QED BY <1>1, <1>5, <1>6, <2>1, <3>1, <3>2, Untouched
  <2>3. CASE i = j
    <3>1. FreshJobs(i)' = {} /\ AnsweredJobs(i)' = {} /\ DueCopies(i)' = {}
      BY <1>6, <2>1, <2>3, NoFileNoCopy DEF BInv
    <3>2. IngestLeft(i) = 2 * MaxAttempts + 1 /\ ReviewLeft(i)' = ReviewLeft(i) /\ 0 <= Rest(i)
      BY <1>1, <1>6, <2>3 DEF IngestLeft, ReviewLeft, Budgeted
    <3>3. /\ Rest(i)' = Rest(i) + 0 + (crashes' - crashes) + (faults' - faults) - (dispatches'[i] - dispatches[i])
                        - (IngestLeft(i)' - IngestLeft(i)) - (ReviewLeft(i)' - ReviewLeft(i))
          /\ crashes \in Nat /\ faults \in Nat /\ faults' \in Nat
          /\ dispatches[i] \in Nat /\ IngestLeft(i)' \in Nat /\ ReviewLeft(i) \in Nat /\ Rest(i) \in Int
      BY <1>1, <1>6, RestMoves
    <3>4. FileLeft(i)' <= Rest(i)' /\ 0 <= Rest(i)'
      <4>1. CASE box'[i] = NoWork
        <5>1. IngestLeft(i)' = IngestLeft(i) /\ FileLeft(i)' = 0
          BY <1>6, <2>3, <4>1 DEF IngestLeft, FileLeft, Pending
        <5> QED BY <1>5, <1>6, <3>2, <3>3, <5>1
      <4>2. CASE box'[i] # NoWork
        <5>1. box'[i] = NewWork
          BY <1>1, <1>4, <1>6, <2>3, <4>2 DEF TypeOK, Save, Write, WriteFails
        <5>2. FileLeft(i)' = MaxAttempts BY <1>3, <4>2, <5>1 DEF FileLeft, Pending, Left, NewWork
        <5>3. IngestLeft(i)' <= MaxAttempts + 1 BY <4>2, BoundsAssumption DEF IngestLeft
        <5> QED BY <1>5, <1>6, <3>2, <3>3, <5>2, <5>3, BoundsAssumption
      <4> QED BY <4>1, <4>2
    <3> QED BY <3>1, <3>4 DEF Budgeted
  <2> QED BY <2>2, <2>3
<1> QED BY <1>2, <1>7

\* A job that is scheduled was nowhere before.
LEMMA ScheduledJob ==
  ASSUME IInv, NEW x \in Job, Scheduled(x), NEW i \in Works
  PROVE  /\ AnsweredJobs(i)' = AnsweredJobs(i)
         /\ i # x.id => FreshJobs(i)' = FreshJobs(i)
         /\ i = x.id => FreshJobs(i) = {} /\ AnsweredJobs(i) = {} /\ FreshJobs(i)' \subseteq {x} /\ i \notin waiting
<1>1. queue \in [Parts -> Seq(Job)] /\ x.id \in Works /\ PartOf[x.id] \in Parts
  BY PartOfAssumption DEF IInv, TypeOK, Job
<1>2. \A p \in Parts, y \in Job : Queued(p, y)' <=> Queued(p, y) \/ (p = PartOf[x.id] /\ y = x)
  <2> SUFFICES ASSUME NEW p \in Parts, NEW y \in Job
               PROVE  Queued(p, y)' <=> Queued(p, y) \/ (p = PartOf[x.id] /\ y = x)
    OBVIOUS
  <2>1. CASE p # PartOf[x.id]
    <3>1. queue'[p] = queue[p] BY <1>1, <2>1 DEF Scheduled
    <3> QED BY <2>1, <3>1 DEF Queued
  <2>2. CASE p = PartOf[x.id]
    <3>1. queue'[p] = Append(queue[p], x) BY <1>1, <2>2 DEF Scheduled
    <3>2. queue[p] \in Seq(Job) BY <1>1
    <3>3. /\ Len(queue'[p]) = Len(queue[p]) + 1 /\ Len(queue[p]) \in Nat
          /\ DOMAIN queue'[p] = 1 .. Len(queue'[p]) /\ DOMAIN queue[p] = 1 .. Len(queue[p])
          /\ \A n \in 1 .. Len(queue[p]) : queue'[p][n] = queue[p][n]
          /\ queue'[p][Len(queue[p]) + 1] = x
      BY <3>1, <3>2
    <3> DEFINE l == Len(queue[p])
    <3>4. ASSUME Queued(p, y)' PROVE Queued(p, y) \/ y = x
      <4>1. PICK n \in DOMAIN queue'[p] : y = queue'[p][n] BY <3>4 DEF Queued
      <4>2. n \in 1 .. l \/ n = l + 1 BY <3>3, <4>1
      <4> QED BY <3>3, <4>1, <4>2 DEF Queued
    <3>5. ASSUME Queued(p, y) PROVE Queued(p, y)'
      <4>1. PICK n \in DOMAIN queue[p] : y = queue[p][n] BY <3>5 DEF Queued
      <4>2. n \in 1 .. l /\ n \in DOMAIN queue'[p] BY <3>3, <4>1
      <4> QED BY <3>3, <4>1, <4>2 DEF Queued
    <3>6. Queued(p, x)'
      <4>1. l + 1 \in DOMAIN queue'[p] BY <3>3
      <4> QED BY <3>3, <4>1 DEF Queued
    <3> QED BY <2>2, <3>4, <3>5, <3>6
  <2> QED BY <2>1, <2>2
<1>3. UNCHANGED <<running, stage>> /\ x.id \notin inFlight BY DEF Scheduled
<1>4. AnsweredJobs(i)' = AnsweredJobs(i) BY <1>3 DEF AnsweredJobs
<1>5. i # x.id => FreshJobs(i)' = FreshJobs(i) BY <1>2, <1>3 DEF FreshJobs
<1>6. i = x.id => FreshJobs(i) = {} /\ AnsweredJobs(i) = {} /\ i \notin waiting
  BY <1>3, OnePlace DEF IInv, Jobs
<1>7. i = x.id => FreshJobs(i)' \subseteq FreshJobs(i) \cup {x} BY <1>2, <1>3 DEF FreshJobs
<1> QED BY <1>4, <1>5, <1>6, <1>7

LEMMA HandleNewBudget ==
  ASSUME BInv, IInv', HandleNew
  PROVE  DueOnce' /\ \A i \in Works : Budgeted(i)'
<1>1. TypeOK /\ TypeOK' /\ IInv /\ \A i \in Works : Budgeted(i) BY DEF BInv, IInv
<1>2. DueOnce' BY DEF BInv, DueOnce, HandleNew, recovery
<1>3. /\ UNCHANGED <<box, due, waiting, review, reviews, faults, crashes, dispatches>>
      /\ ingest # NoJob /\ ingest' = NoJob /\ ingest \in Job
  BY <1>1 DEF HandleNew, recovery, bounds, TypeOK
<1>4. crashes \in Nat /\ faults \in Nat /\ faults' >= faults /\ crashes' >= crashes
  BY <1>1, <1>3 DEF TypeOK
<1>5. ASSUME NEW i \in Works PROVE Budgeted(i)'
  <2>1. DueCopies(i)' = DueCopies(i) BY <1>3, DueStays
  <2>2. CASE NotScheduled(ingest)
    <3>1. FreshJobs(i)' = FreshJobs(i) /\ AnsweredJobs(i)' = AnsweredJobs(i)
      BY <2>2, JobsStay DEF NotScheduled, workers
    <3> QED BY <1>1, <1>3, <1>4, <2>1, <3>1, Untouched
  <2>3. CASE Scheduled(ingest) /\ i # ingest.id
    <3>1. FreshJobs(i)' = FreshJobs(i) /\ AnsweredJobs(i)' = AnsweredJobs(i)
      BY <1>1, <1>3, <2>3, ScheduledJob
    <3> QED BY <1>1, <1>3, <1>4, <2>1, <3>1, Untouched
  <2>4. CASE Scheduled(ingest) /\ i = ingest.id
    <3>1. /\ FreshJobs(i) = {} /\ AnsweredJobs(i) = {} /\ AnsweredJobs(i)' = {}
          /\ FreshJobs(i)' \subseteq {ingest} /\ i \notin waiting
      BY <1>1, <1>3, <2>4, ScheduledJob
    <3>2. box[i] # NoWork BY <1>1, <1>3, <2>4 DEF IInv, Copies, Copy, Unsettled
    <3>3. IngestLeft(i) = MaxAttempts + 1 /\ IngestLeft(i)' = 0 /\ ReviewLeft(i)' = ReviewLeft(i)
      BY <1>3, <2>4, <3>2 DEF IngestLeft, ReviewLeft
    <3>4. /\ Rest(i)' = Rest(i) + 0 + (crashes' - crashes) + (faults' - faults) - (dispatches'[i] - dispatches[i])
                        - (IngestLeft(i)' - IngestLeft(i)) - (ReviewLeft(i)' - ReviewLeft(i))
          /\ dispatches[i] \in Nat /\ ReviewLeft(i) \in Nat /\ Rest(i) \in Int
      BY <1>1, <1>3, RestMoves
    <3>5. Rest(i)' = Rest(i) + MaxAttempts + 1 /\ Rest(i) \in Int
      BY <1>3, <1>4, <3>3, <3>4, BoundsAssumption
    <3>6. FileLeft(i)' = FileLeft(i) /\ FileLeft(i) \in Nat /\ FileLeft(i) <= MaxAttempts
      BY <1>1, <1>3, FileLeftType DEF FileLeft, Pending, Left
    <3>7. \A x \in Job : Left(x.work) \in Nat /\ Left(x.work) <= MaxAttempts /\ Left(x.work)' = Left(x.work)
      BY JobLeftType DEF Left
    <3>8. DueCopies(i) \subseteq Job BY DEF DueCopies
    <3>9. /\ 0 <= Rest(i) /\ FileLeft(i) <= Rest(i)
          /\ \A x \in DueCopies(i) : Left(x.work) <= Rest(i)
      BY <1>1, <3>1 DEF Budgeted
    <3>10. /\ 0 <= Rest(i)' /\ \A x \in FreshJobs(i)' : Left(x.work)' <= Rest(i)'
           /\ FileLeft(i)' <= Rest(i)' /\ FileLeft(i)' + 1 <= Rest(i)'
           /\ \A x \in DueCopies(i)' : Left(x.work)' <= Rest(i)' /\ Left(x.work)' + 1 <= Rest(i)'
      BY <1>3, <2>1, <3>1, <3>5, <3>6, <3>7, <3>8, <3>9, BoundsAssumption
    <3> QED BY <1>3, <3>1, <3>10 DEF Budgeted
  <2> QED BY <2>2, <2>3, <2>4 DEF HandleNew
<1> QED BY <1>2, <1>5

LEMMA HandleFrameBudget ==
  ASSUME BInv, IInv', PutFails \/ \E j \in Works : HandleExisting(j)
  PROVE  DueOnce' /\ \A i \in Works : Budgeted(i)'
<1>1. TypeOK /\ TypeOK' /\ IInv /\ \A i \in Works : Budgeted(i) BY DEF BInv, IInv
<1>2. /\ UNCHANGED <<box, queue, running, stage, due, sweep, waiting, review, reviews, crashes, dispatches>>
      /\ ingest' \in {ingest, NoJob} /\ (faults' = faults \/ faults' = faults + 1)
  BY DEF PutFails, HandleExisting, recovery, workers, bounds, history
<1>3. faults' >= faults /\ crashes' >= crashes BY <1>1, <1>2 DEF TypeOK
<1>4. DueOnce' BY <1>2 DEF BInv, DueOnce
<1>5. ASSUME NEW i \in Works PROVE Budgeted(i)'
  <2>1. FreshJobs(i)' = FreshJobs(i) /\ AnsweredJobs(i)' = AnsweredJobs(i) /\ DueCopies(i)' = DueCopies(i)
    BY <1>2, JobsStay, DueStays
  <2> QED BY <1>1, <1>2, <1>3, <2>1, Untouched
<1> QED BY <1>4, <1>5

LEMMA TakeJobBudget ==
  ASSUME BInv, IInv', NEW p \in Parts, TakeJob(p)
  PROVE  DueOnce' /\ \A i \in Works : Budgeted(i)'
<1>1. TypeOK /\ TypeOK' /\ IInv /\ \A i \in Works : Budgeted(i) BY DEF BInv, IInv
<1>2. UNCHANGED <<box, due, sweep, waiting, ingest, review, reviews, faults, crashes, dispatches>>
  BY DEF TakeJob, recovery, bounds, history
<1>3. faults' >= faults /\ crashes' >= crashes BY <1>1, <1>2 DEF TypeOK
<1>4. DueOnce' BY <1>2 DEF BInv, DueOnce
<1>5. /\ queue[p] \in Seq(Job) /\ queue[p] # <<>> /\ running'[p] = Head(queue[p]) /\ queue'[p] = Tail(queue[p])
      /\ stage'[p] = "taken" /\ stage[p] = "idle"
      /\ \A q \in Parts : q # p => queue'[q] = queue[q] /\ running'[q] = running[q] /\ stage'[q] = stage[q]
  BY <1>1 DEF TakeJob, TypeOK
<1>6. Queued(p, Head(queue[p])) /\ \A x \in Job : Queued(p, x)' => Queued(p, x)
  <2>1. /\ Len(queue[p]) \in Nat /\ Len(queue[p]) >= 1 /\ Head(queue[p]) = queue[p][1]
        /\ DOMAIN queue[p] = 1 .. Len(queue[p]) /\ DOMAIN Tail(queue[p]) = 1 .. (Len(queue[p]) - 1)
        /\ \A n \in 1 .. (Len(queue[p]) - 1) : Tail(queue[p])[n] = queue[p][n + 1]
    BY <1>5
  <2>2. \A n \in 1 .. (Len(queue[p]) - 1) : n + 1 \in 1 .. Len(queue[p]) BY <2>1
  <2>3. 1 \in 1 .. Len(queue[p]) BY <2>1
  <2> QED BY <1>5, <2>1, <2>2, <2>3 DEF Queued
<1>7. \A x \in Job, q \in Parts : Queued(q, x)' => Queued(q, x) BY <1>5, <1>6 DEF Queued
<1>8. ASSUME NEW i \in Works PROVE Budgeted(i)'
  <2>1. FreshJobs(i)' \subseteq FreshJobs(i) BY <1>5, <1>6, <1>7 DEF FreshJobs
  <2>2. AnsweredJobs(i)' = AnsweredJobs(i) BY <1>5 DEF AnsweredJobs
  <2>3. DueCopies(i)' = DueCopies(i) BY <1>2, DueStays
  <2> QED BY <1>1, <1>2, <1>3, <2>1, <2>2, <2>3, Untouched
<1> QED BY <1>4, <1>8

\* What a worker, the recovery or a review writes over a file.
LEMMA SavedFile ==
  ASSUME TypeOK, NEW j \in Works, NEW w \in InboundWork, box[j] # NoWork, Save(j, w)
  PROVE  /\ \A i \in Works : i # j => box'[i] = box[i]
         /\ box'[j] # NoWork
         /\ box'[j] = w \/ (box'[j] = box[j] /\ faults' = faults + 1)
         /\ faults' = faults \/ faults' = faults + 1
BY NoWorkAssumption DEF TypeOK, Save, Write, WriteFails

\* The job of a busy worker is one of a work with a file.
LEMMA BusyJob ==
  ASSUME IInv, NEW p \in Parts, stage[p] # "idle"
  PROVE  /\ running[p] \in Job /\ running[p].id \in Works /\ running[p].work \in InboundWork
         /\ box[running[p].id] # NoWork
<1>1. running[p] \in Job BY DEF IInv, Busy, TypeOK
<1>2. Unsettled(running[p]) BY <1>1 DEF IInv, Copies, Copy
<1> QED BY <1>1, <1>2 DEF Job, Unsettled

\* The worker of one partition settles its job: nothing else of the work is in a channel.
LEMMA OtherJobs ==
  ASSUME IInv, NEW p \in Parts, stage[p] # "idle", NEW i \in Works,
         UNCHANGED <<queue, running>>, NEW s \in {"taken", "answered", "settled"},
         stage' = [stage EXCEPT ![p] = s], s = "taken" => stage[p] = "taken", s = "answered" => stage[p] # "settled"
  PROVE  /\ FreshJobs(i)' \subseteq FreshJobs(i)
         /\ i # running[p].id => AnsweredJobs(i)' = AnsweredJobs(i)
         /\ s = "settled" => AnsweredJobs(i)' \subseteq AnsweredJobs(i)
         /\ s = stage[p] => AnsweredJobs(i)' = AnsweredJobs(i)
         /\ s = "settled" /\ stage[p] = "taken" => AnsweredJobs(i)' = AnsweredJobs(i)
         /\ AnsweredJobs(i)' \subseteq AnsweredJobs(i) \cup {running[p]}
<1>1. \A q \in Parts : q # p => stage'[q] = stage[q] BY DEF IInv, TypeOK
<1>2. stage'[p] = s BY DEF IInv, TypeOK
<1>3. FreshJobs(i)' \subseteq FreshJobs(i) BY <1>1, <1>2 DEF FreshJobs, Queued
<1> QED BY <1>1, <1>2, <1>3 DEF AnsweredJobs

LEMMA PauseSpentBudget ==
  ASSUME BInv, IInv', NEW p \in Parts, PauseSpent(p)
  PROVE  DueOnce' /\ \A i \in Works : Budgeted(i)'
<1> DEFINE j == running[p].id
           w == running[p].work
<1>1. TypeOK /\ TypeOK' /\ IInv /\ \A i \in Works : Budgeted(i) BY DEF BInv, IInv
<1>2. /\ UNCHANGED <<queue, running, due, sweep, waiting, ingest, review, reviews, crashes, dispatches>>
      /\ stage[p] = "taken" /\ stage' = [stage EXCEPT ![p] = "settled"] /\ Save(j, Paused(w, 0))
  BY DEF PauseSpent, recovery, history
<1>3. j \in Works /\ w \in InboundWork /\ box[j] # NoWork BY <1>1, <1>2, BusyJob
<1>4. Paused(w, 0) \in InboundWork /\ Paused(w, 0).status = "needs_review" BY <1>3, PausedWork
<1>5. /\ \A i \in Works : i # j => box'[i] = box[i]
      /\ box'[j] # NoWork /\ (box'[j] = Paused(w, 0) \/ box'[j] = box[j])
      /\ faults' = faults \/ faults' = faults + 1
  BY <1>1, <1>2, <1>3, <1>4, SavedFile
<1>6. faults' >= faults /\ crashes' >= crashes BY <1>1, <1>2, <1>5 DEF TypeOK
<1>7. DueOnce' BY <1>2 DEF BInv, DueOnce
<1>8. ASSUME NEW i \in Works PROVE Budgeted(i)'
  <2>1. FreshJobs(i)' \subseteq FreshJobs(i) /\ AnsweredJobs(i)' = AnsweredJobs(i)
    BY <1>1, <1>2, OtherJobs
  <2>2. DueCopies(i)' = DueCopies(i) BY <1>2, DueStays
  <2>3. box'[i] = NoWork <=> box[i] = NoWork BY <1>3, <1>5
  <2>4. /\ Rest(i) <= Rest(i)' /\ (box'[i] = box[i] => FileLeft(i)' = FileLeft(i))
        /\ FileLeft(i) \in Nat
    BY <1>1, <1>2, <1>6, <2>3, RestStays
  <2>5. box'[i] # box[i] => FileLeft(i)' = 0 BY <1>4, <1>5 DEF FileLeft, Pending
  <2>6. FileLeft(i)' <= FileLeft(i) BY <2>4, <2>5
  <2> QED BY <1>1, <1>2, <2>1, <2>2, <2>4, <2>6, BudgetStays
<1> QED BY <1>7, <1>8

LEMMA DispatchBudget ==
  ASSUME BInv, IInv', NEW p \in Parts, Dispatch(p)
  PROVE  DueOnce' /\ \A i \in Works : Budgeted(i)'
<1> DEFINE j == running[p].id
           w == running[p].work
<1>1. TypeOK /\ TypeOK' /\ IInv /\ \A i \in Works : Budgeted(i) BY DEF BInv, IInv
<1>2. /\ UNCHANGED <<box, queue, running, due, sweep, waiting, ingest, review, reviews, faults, crashes>>
      /\ stage[p] = "taken" /\ stage' = [stage EXCEPT ![p] = "answered"]
      /\ dispatches' = [dispatches EXCEPT ![j] = @ + 1] /\ ~Exhausted(j, w, w.tries)
  BY DEF Dispatch, recovery, bounds
<1>3. running[p] \in Job /\ j \in Works /\ w \in InboundWork BY <1>1, <1>2, BusyJob
<1>4. faults' >= faults /\ crashes' >= crashes BY <1>1, <1>2 DEF TypeOK
<1>5. DueOnce' BY <1>2 DEF BInv, DueOnce
<1>6. ASSUME NEW i \in Works, i # j PROVE Budgeted(i)'
  <2>1. FreshJobs(i)' \subseteq FreshJobs(i) /\ AnsweredJobs(i)' = AnsweredJobs(i)
    BY <1>1, <1>2, <1>6, OtherJobs
  <2>2. DueCopies(i)' = DueCopies(i) BY <1>2, DueStays
  <2>3. dispatches'[i] = dispatches[i] BY <1>1, <1>2, <1>6 DEF TypeOK
  <2> QED BY <1>1, <1>2, <1>4, <2>1, <2>2, <2>3, Untouched
<1>7. ASSUME NEW i \in Works, i = j PROVE Budgeted(i)'
  <2>1. running[p] \in FreshJobs(i) BY <1>2, <1>3, <1>7 DEF FreshJobs
  <2>2. AnsweredJobs(i) = {} BY <1>1, <1>2, <1>7, OnePlace
  <2>3. stage'[p] = "answered" /\ \A q \in Parts : stage'[q] = "taken" => q # p /\ stage[q] = "taken"
    BY <1>1, <1>2 DEF TypeOK
  <2>4. \A q \in Parts, x \in Job : Queued(q, x) => x.id # i
    <3> SUFFICES ASSUME NEW q \in Parts, NEW x \in Job, Queued(q, x), x.id = i PROVE FALSE
      OBVIOUS
    <3>1. PartOf[i] = q BY <1>1 DEF IInv, Jobs, QueuedOnce, Queued
    <3>2. PartOf[i] = p /\ \A n \in DOMAIN queue[p] : queue[p][n].id # i
      BY <1>1, <1>2, <1>7 DEF IInv, Busy, Jobs, RunningOnce
    <3> QED BY <3>1, <3>2 DEF Queued
  <2>5. FreshJobs(i)' = {}
    <3>1. \A q \in Parts : q # p /\ stage[q] = "taken" => running[q].id # i
      BY <1>1, <1>2, <1>7 DEF IInv, Busy, Jobs, RunningOnce
    <3> QED BY <1>2, <2>3, <2>4, <3>1 DEF FreshJobs, Queued
  <2>6. AnsweredJobs(i)' \subseteq {running[p]} /\ AnsweredJobs(i)' # {}
    <3>1. AnsweredJobs(i)' \subseteq AnsweredJobs(i) \cup {running[p]} BY <1>1, <1>2, OtherJobs
    <3>2. running[p] \in AnsweredJobs(i)' BY <1>2, <1>3, <1>7, <2>3 DEF AnsweredJobs
    <3> QED BY <2>2, <3>1, <3>2
  <2>7. DueCopies(i)' = DueCopies(i) /\ DueCopies(i) \subseteq Job
    BY <1>2, DueStays DEF DueCopies
  <2>8. /\ Rest(i)' = Rest(i) + 0 + (crashes' - crashes) + (faults' - faults) - (dispatches'[i] - dispatches[i])
                      - (IngestLeft(i)' - IngestLeft(i)) - (ReviewLeft(i)' - ReviewLeft(i))
        /\ crashes \in Nat /\ faults \in Nat /\ dispatches[i] \in Nat /\ IngestLeft(i) \in Nat
        /\ ReviewLeft(i) \in Nat /\ Rest(i) \in Int
    BY <1>1, <1>2, RestMoves
  <2>9. dispatches'[i] = dispatches[i] + 1 /\ IngestLeft(i)' = IngestLeft(i) /\ ReviewLeft(i)' = ReviewLeft(i)
    BY <1>1, <1>2, <1>7 DEF TypeOK, IngestLeft, ReviewLeft
  <2>10. Rest(i)' = Rest(i) - 1 /\ Rest(i) \in Int BY <1>2, <2>8, <2>9
  <2>11. Left(w) >= 1 /\ Left(w) \in Nat /\ Left(w) <= Rest(i)
    <3>1. Left(w) >= 1 /\ Left(w) \in Nat
      BY <1>2, <1>3, LeftType, BoundsAssumption DEF Left, Exhausted, InboundWork
    <3> QED BY <1>1, <2>1, <3>1 DEF Budgeted
  <2>12. FileLeft(i)' = FileLeft(i) /\ FileLeft(i) \in Nat
    BY <1>1, <1>2, FileLeftType DEF FileLeft, Pending, Left
  <2>13. \A x \in Job : Left(x.work) \in Nat /\ Left(x.work)' = Left(x.work)
    BY JobLeftType DEF Left
  <2>14. \A x \in AnsweredJobs(i)' : 1 <= Left(x.work)' /\ Left(x.work)' <= Rest(i)' + 1
    BY <1>3, <2>6, <2>10, <2>11, <2>13
  <2>15. \/ FileLeft(i)' <= Rest(i)'
         \/ (i \in waiting' /\ FileLeft(i)' <= Rest(i)' + 1)
    BY <1>1, <1>2, <2>1, <2>2, <2>10, <2>12 DEF Budgeted
  <2>16. \A x \in DueCopies(i)' : i \notin waiting' /\ Left(x.work)' <= Rest(i)'
    BY <1>1, <1>2, <2>1, <2>7, <2>10, <2>13 DEF Budgeted
  <2>17. 0 <= Rest(i)' BY <2>10, <2>11
  <2> QED BY <2>5, <2>6, <2>14, <2>15, <2>16, <2>17 DEF Budgeted
<1> QED BY <1>5, <1>6, <1>7

LEMMA CompleteBudget ==
  ASSUME BInv, IInv', NEW p \in Parts, Complete(p)
  PROVE  DueOnce' /\ \A i \in Works : Budgeted(i)'
<1> DEFINE j == running[p].id
<1>1. TypeOK /\ TypeOK' /\ IInv /\ \A i \in Works : Budgeted(i) BY DEF BInv, IInv
<1>2. /\ UNCHANGED <<queue, running, due, sweep, waiting, ingest, review, reviews, crashes, dispatches>>
      /\ stage[p] = "answered"
      /\ \/ Write(j, Completed(box[j])) /\ stage' = [stage EXCEPT ![p] = "settled"]
         \/ WriteFails(j, Completed(box[j])) /\ UNCHANGED stage
  BY DEF Complete, recovery, history
<1>3. j \in Works /\ box[j] # NoWork /\ box[j] \in InboundWork BY <1>1, <1>2, BusyJob DEF TypeOK
<1>4. Completed(box[j]) \in InboundWork /\ Completed(box[j]).status = "completed"
  BY <1>3, CompletedWork
<1>5. /\ \A i \in Works : i # j => box'[i] = box[i]
      /\ box'[j] # NoWork
      /\ box'[j] = Completed(box[j]) \/ (box'[j] = box[j] /\ faults' = faults + 1)
      /\ faults' = faults \/ faults' = faults + 1
  BY <1>1, <1>2, <1>3, <1>4, SavedFile DEF Save
<1>6. faults' >= faults /\ crashes' >= crashes BY <1>1, <1>2, <1>5 DEF TypeOK
<1>7. DueOnce' BY <1>2 DEF BInv, DueOnce
<1>8. ASSUME NEW i \in Works PROVE Budgeted(i)'
  <2>1. DueCopies(i)' = DueCopies(i) BY <1>2, DueStays
  <2>2. box'[i] = NoWork <=> box[i] = NoWork BY <1>3, <1>5
  <2>3. /\ Rest(i) <= Rest(i)' /\ (box'[i] = box[i] => FileLeft(i)' = FileLeft(i))
        /\ FileLeft(i) \in Nat /\ Rest(i) \in Int /\ Rest(i)' \in Int
    BY <1>1, <1>2, <1>6, <2>2, RestStays
  <2>4. box'[i] # box[i] => FileLeft(i)' = 0 BY <1>4, <1>5 DEF FileLeft, Pending
  <2>5. FileLeft(i)' <= FileLeft(i) BY <2>3, <2>4
  <2>6. CASE UNCHANGED stage
    <3>1. FreshJobs(i)' = FreshJobs(i) /\ AnsweredJobs(i)' = AnsweredJobs(i)
      BY <1>2, <2>6, JobsStay
    <3> QED BY <1>1, <1>2, <2>1, <2>3, <2>5, <3>1, BudgetStays
  <2>7. CASE Write(j, Completed(box[j])) /\ stage' = [stage EXCEPT ![p] = "settled"]
    <3>1. /\ FreshJobs(i)' \subseteq FreshJobs(i) /\ AnsweredJobs(i)' \subseteq AnsweredJobs(i)
          /\ i # j => AnsweredJobs(i)' = AnsweredJobs(i)
      BY <1>1, <1>2, <2>7, OtherJobs
    <3>2. i = j => FileLeft(i)' = 0
      BY <1>1, <1>3, <1>4, <2>7 DEF TypeOK, Write, FileLeft, Pending
    <3>3. i = j => FileLeft(i)' <= Rest(i)' BY <1>1, <2>3, <3>2 DEF Budgeted
    <3> QED BY <1>1, <1>2, <2>1, <2>3, <2>5, <3>1, <3>3, BudgetStays
  <2> QED BY <1>2, <2>6, <2>7
<1> QED BY <1>7, <1>8

\* A failed attempt is counted.
LEMMA DeferredLeft ==
  ASSUME NEW w \in InboundWork, 1 <= Left(w)
  PROVE  Left(Deferred(w)) = Left(w) - 1
<1>1. w.tries \in Nat /\ Deferred(w).tries = w.tries + 1 BY DEF InboundWork, Deferred
<1> QED BY <1>1, BoundsAssumption DEF Left

LEMMA FailBudget ==
  ASSUME BInv, IInv', NEW p \in Parts, Fail(p)
  PROVE  DueOnce' /\ \A i \in Works : Budgeted(i)'
<1> DEFINE j == running[p].id
           w == running[p].work
<1>1. TypeOK /\ TypeOK' /\ IInv /\ \A i \in Works : Budgeted(i) BY DEF BInv, IInv
<1>2. /\ UNCHANGED <<queue, running, due, sweep, waiting, ingest, review, reviews, crashes, dispatches>>
      /\ stage[p] = "answered" /\ stage' = [stage EXCEPT ![p] = "settled"]
      /\ Save(j, Paused(w, 1)) \/ Save(j, Deferred(w))
  BY DEF Fail, recovery, history
<1>3. running[p] \in Job /\ j \in Works /\ w \in InboundWork /\ box[j] # NoWork
  BY <1>1, <1>2, BusyJob
<1>4. /\ Paused(w, 1) \in InboundWork /\ Paused(w, 1).status = "needs_review"
      /\ Deferred(w) \in InboundWork /\ Deferred(w).status = "pending"
  BY <1>3, PausedWork, DeferredWork
<1>5. PICK v \in {Paused(w, 1), Deferred(w)} :
        /\ \A i \in Works : i # j => box'[i] = box[i]
        /\ box'[j] # NoWork
        /\ box'[j] = v \/ (box'[j] = box[j] /\ faults' = faults + 1)
        /\ faults' = faults \/ faults' = faults + 1
  BY <1>1, <1>2, <1>3, <1>4, SavedFile
<1>6. faults' >= faults /\ crashes' >= crashes BY <1>1, <1>2, <1>5 DEF TypeOK
<1>7. DueOnce' BY <1>2 DEF BInv, DueOnce
<1>8. ASSUME NEW i \in Works, i # j PROVE Budgeted(i)'
  <2>1. FreshJobs(i)' \subseteq FreshJobs(i) /\ AnsweredJobs(i)' = AnsweredJobs(i)
    BY <1>1, <1>2, <1>8, OtherJobs
  <2>2. DueCopies(i)' = DueCopies(i) BY <1>2, DueStays
  <2> QED BY <1>1, <1>2, <1>5, <1>6, <1>8, <2>1, <2>2, Untouched
<1>9. ASSUME NEW i \in Works, i = j PROVE Budgeted(i)'
  <2>1. FreshJobs(i) = {} /\ FreshJobs(i)' \subseteq FreshJobs(i) /\ AnsweredJobs(i)' \subseteq AnsweredJobs(i)
    BY <1>1, <1>2, <1>9, OtherJobs, OnePlace
  <2>2. DueCopies(i)' = DueCopies(i) BY <1>2, DueStays
  <2>3. /\ Rest(i)' = Rest(i) + 0 + (crashes' - crashes) + (faults' - faults) - (dispatches'[i] - dispatches[i])
                      - (IngestLeft(i)' - IngestLeft(i)) - (ReviewLeft(i)' - ReviewLeft(i))
        /\ crashes \in Nat /\ faults \in Nat /\ faults' \in Nat /\ dispatches[i] \in Nat
        /\ IngestLeft(i) \in Nat /\ ReviewLeft(i) \in Nat /\ Rest(i) \in Int
    BY <1>1, <1>2, RestMoves
  <2>4. IngestLeft(i)' = IngestLeft(i) /\ ReviewLeft(i)' = ReviewLeft(i)
    BY <1>2, <1>3, <1>5, <1>9 DEF IngestLeft, ReviewLeft
  <2>5. Rest(i)' = Rest(i) + (faults' - faults) /\ Rest(i) \in Int /\ faults \in Nat
    BY <1>2, <2>3, <2>4
  <2>6. running[p] \in AnsweredJobs(i) BY <1>2, <1>3, <1>9 DEF AnsweredJobs
  <2>7. Left(w) \in Nat /\ 1 <= Left(w) /\ Left(w) <= Rest(i) + 1 /\ 0 <= Rest(i)
    BY <1>1, <1>3, <2>6, LeftType DEF Budgeted
  <2>8. FileLeft(i) \in Nat /\ FileLeft(i) <= Rest(i) + 1
    BY <1>1, <2>5, FileLeftType DEF Budgeted
  <2>9. FileLeft(i)' <= Rest(i)'
    <3>1. CASE box'[i] = box[i] /\ faults' = faults + 1
      <4>1. FileLeft(i)' = FileLeft(i) BY <3>1 DEF FileLeft, Pending, Left
      <4> QED BY <2>5, <2>8, <3>1, <4>1
    <3>2. CASE box'[i] = Paused(w, 1)
      <4>1. FileLeft(i)' = 0 BY <1>4, <3>2 DEF FileLeft, Pending
      <4> QED BY <1>6, <2>5, <2>7, <4>1, <1>5
    <3>3. CASE box'[i] = Deferred(w)
      <4>1. FileLeft(i)' = Left(Deferred(w))
        BY <1>4, <1>5, <1>9, <3>3 DEF FileLeft, Pending, Left
      <4>2. Left(Deferred(w)) = Left(w) - 1 BY <1>3, <2>7, DeferredLeft
      <4> QED BY <1>5, <2>5, <2>7, <4>1, <4>2
    <3> QED BY <1>5, <1>9, <3>1, <3>2, <3>3
  <2>10. Rest(i) <= Rest(i)' BY <1>5, <2>5
  <2>11. \A x \in Job : Left(x.work) \in Nat /\ Left(x.work)' = Left(x.work)
    BY JobLeftType DEF Left
  <2>12. AnsweredJobs(i)' = {}
    <3>1. \A q \in Parts : stage'[q] = "answered" => q # p /\ stage[q] = "answered"
      BY <1>1, <1>2 DEF TypeOK
    <3>2. \A q \in Parts : q # p /\ stage[q] = "answered" => running[q].id # i
      BY <1>1, <1>2, <1>9 DEF IInv, Busy, Jobs, RunningOnce
    <3> QED BY <1>2, <3>1, <3>2 DEF AnsweredJobs
  <2>13. DueCopies(i) \subseteq Job BY DEF DueCopies
  <2>14. \A x \in DueCopies(i)' : i \notin waiting' /\ Left(x.work)' <= Rest(i)'
    BY <1>1, <1>2, <2>2, <2>5, <2>10, <2>11, <2>13, <1>5 DEF Budgeted
  <2>15. 0 <= Rest(i)' BY <2>5, <2>7, <2>10, <1>5
  <2> QED BY <2>1, <2>9, <2>12, <2>14, <2>15 DEF Budgeted
<1> QED BY <1>7, <1>8, <1>9

LEMMA JobDoneBudget ==
  ASSUME BInv, IInv', NEW p \in Parts, JobDone(p)
  PROVE  DueOnce' /\ \A i \in Works : Budgeted(i)'
<1> DEFINE j == running[p].id
<1>1. TypeOK /\ TypeOK' /\ IInv /\ \A i \in Works : Budgeted(i) BY DEF BInv, IInv
<1>2. /\ UNCHANGED <<box, queue, due, sweep, ingest, review, reviews, faults, crashes, dispatches>>
      /\ stage[p] = "settled" /\ stage' = [stage EXCEPT ![p] = "idle"]
      /\ running' = [running EXCEPT ![p] = NoJob] /\ waiting' = waiting \ {j}
  BY DEF JobDone, history, bounds
<1>3. faults' >= faults /\ crashes' >= crashes BY <1>1, <1>2 DEF TypeOK
<1>4. DueOnce' BY <1>2 DEF BInv, DueOnce
<1>5. /\ stage'[p] = "idle"
      /\ \A q \in Parts : q # p => stage'[q] = stage[q] /\ running'[q] = running[q]
  BY <1>1, <1>2 DEF TypeOK
<1>6. ASSUME NEW i \in Works PROVE Budgeted(i)'
  <2>1. FreshJobs(i)' = FreshJobs(i) /\ AnsweredJobs(i)' = AnsweredJobs(i)
    BY <1>2, <1>5 DEF FreshJobs, AnsweredJobs, Queued
  <2>2. DueCopies(i)' = DueCopies(i) /\ DueCopies(i) \subseteq Job
    BY <1>2, DueStays DEF DueCopies
  <2>3. CASE i # j BY <1>1, <1>2, <1>3, <2>1, <2>2, <2>3, Untouched
  <2>4. CASE i = j
    <3>1. FreshJobs(i) = {} /\ AnsweredJobs(i) = {} BY <1>1, <1>2, <2>4, OnePlace
    <3>2. /\ Rest(i) <= Rest(i)' /\ FileLeft(i)' = FileLeft(i)
          /\ Rest(i) \in Int /\ Rest(i)' \in Int /\ FileLeft(i) \in Nat
      BY <1>1, <1>2, <1>3, RestStays
    <3>3. \A x \in Job : Left(x.work) \in Nat /\ Left(x.work)' = Left(x.work)
      BY JobLeftType DEF Left
    <3>4. 0 <= Rest(i) /\ FileLeft(i) <= Rest(i) /\ \A x \in DueCopies(i) : Left(x.work) <= Rest(i)
      BY <1>1, <3>1 DEF Budgeted
    <3>5. 0 <= Rest(i)' /\ FileLeft(i)' <= Rest(i)' /\ \A x \in DueCopies(i)' : Left(x.work)' <= Rest(i)'
      BY <2>2, <3>2, <3>3, <3>4
    <3> QED BY <1>2, <2>1, <2>4, <3>1, <3>5 DEF Budgeted
  <2> QED BY <2>3, <2>4
<1> QED BY <1>4, <1>6

\* A pass has each work it found once: as many copies as works, and each work's among them.
LEMMA AgedOnce ==
  ASSUME NEW S \in SUBSET Works, NEW s \in [1 .. Cardinality(S) -> Snapshots(S)], ByAge(S, s)
  PROVE  \A m, n \in DOMAIN s : s[m].id = s[n].id => m = n
<1>1. IsFiniteSet(S) /\ Cardinality(S) \in Nat BY WorksAssumption, FS_Subset, FS_CardinalityType
<1>2. ExistsBijection(S, Snapshots(S))
  <2> DEFINE f == [i \in S |-> [id |-> i, work |-> box[i]]]
  <2>1. \A i \in S : f[i] = [id |-> i, work |-> box[i]] /\ f[i].id = i
    OBVIOUS
  <2>2. f \in [S -> Snapshots(S)] BY DEF Snapshots
  <2> HIDE DEF f
  <2>3. f \in Injection(S, Snapshots(S)) BY <2>1, <2>2 DEF Injection, IsInjective
  <2>4. f \in Surjection(S, Snapshots(S)) BY <2>1, <2>2 DEF Surjection, Snapshots
  <2> QED BY <2>3, <2>4 DEF ExistsBijection, Bijection
<1>3. Cardinality(Snapshots(S)) = Cardinality(S) BY <1>1, <1>2, FS_Bijection
<1>4. IsFiniteSet(1 .. Cardinality(S)) /\ Cardinality(1 .. Cardinality(S)) = Cardinality(S)
  BY <1>1, FS_Interval
<1>5. s \in Surjection(1 .. Cardinality(S), Snapshots(S)) BY DEF Surjection, ByAge
<1>6. s \in Injection(1 .. Cardinality(S), Snapshots(S))
  BY <1>3, <1>4, <1>5, FS_SurjSameCardinalityImpliesInj
<1>7. \A x, y \in Snapshots(S) : x.id = y.id => x = y BY DEF Snapshots
<1> QED BY <1>6, <1>7 DEF Injection, IsInjective

LEMMA SweepBudget ==
  ASSUME BInv, IInv', Sweep
  PROVE  DueOnce' /\ \A i \in Works : Budgeted(i)'
<1>1. TypeOK /\ TypeOK' /\ IInv /\ \A i \in Works : Budgeted(i) BY DEF BInv, IInv
<1>2. /\ UNCHANGED <<box, queue, running, stage, waiting, ingest, review, reviews, faults, crashes, dispatches>>
      /\ sweep = "idle" /\ sweep' = "pausing"
  BY DEF Sweep, workers, history, bounds
<1>3. waiting = {} /\ waiting' = {} BY <1>2 DEF BInv, DueOnce
<1>4. PICK s \in [1 .. Cardinality(Ready) -> Snapshots(Ready)] : ByAge(Ready, s) /\ due' = s
  BY DEF Sweep
<1>5. DueOnce'
  <2>1. \A m, n \in DOMAIN s : s[m].id = s[n].id => m = n BY <1>4, AgedOnce DEF Ready
  <2> QED BY <1>3, <1>4, <2>1 DEF DueOnce
<1>6. faults' >= faults /\ crashes' >= crashes BY <1>1, <1>2 DEF TypeOK
<1>7. ASSUME NEW i \in Works PROVE Budgeted(i)'
  <2>1. FreshJobs(i)' = FreshJobs(i) /\ AnsweredJobs(i)' = AnsweredJobs(i) BY <1>2, JobsStay
  <2>2. \A x \in DueCopies(i)' : Left(x.work)' = FileLeft(i)
    <3>1. \A x \in DueCopies(i)' : \E j \in Ready : x = [id |-> j, work |-> box[j]] /\ x.id = i
      BY <1>4 DEF DueCopies, Snapshots
    <3>2. \A x \in DueCopies(i)' : i \in Ready /\ x.work = box[i] BY <3>1
    <3> QED BY <3>2 DEF Ready, FileLeft, Left
  <2>3. /\ Rest(i) <= Rest(i)' /\ FileLeft(i)' = FileLeft(i)
        /\ Rest(i) \in Int /\ Rest(i)' \in Int /\ FileLeft(i) \in Nat
    BY <1>1, <1>2, <1>6, RestStays
  <2>4. \A x \in Job : Left(x.work) \in Nat /\ Left(x.work)' = Left(x.work)
    BY JobLeftType DEF Left
  <2>5. FreshJobs(i) \subseteq Job /\ AnsweredJobs(i) \subseteq Job
    BY DEF FreshJobs, AnsweredJobs
  <2>6. /\ 0 <= Rest(i) /\ FileLeft(i) <= Rest(i)
        /\ \A x \in FreshJobs(i) : Left(x.work) <= Rest(i)
        /\ \A x \in AnsweredJobs(i) : 1 <= Left(x.work) /\ Left(x.work) <= Rest(i) + 1
        /\ FreshJobs(i) # {} => FileLeft(i) + 1 <= Rest(i)
    BY <1>1, <1>3 DEF Budgeted
  <2>7. /\ 0 <= Rest(i)' /\ FileLeft(i)' <= Rest(i)'
        /\ \A x \in FreshJobs(i)' : Left(x.work)' <= Rest(i)'
        /\ \A x \in AnsweredJobs(i)' : 1 <= Left(x.work)' /\ Left(x.work)' <= Rest(i)' + 1
    BY <2>1, <2>3, <2>4, <2>5, <2>6
  <2>8. FreshJobs(i)' # {} => FileLeft(i)' + 1 <= Rest(i)' BY <2>1, <2>3, <2>6
  <2>9. \A x \in DueCopies(i)' : Left(x.work)' <= Rest(i)' /\ (FreshJobs(i)' # {} => Left(x.work)' + 1 <= Rest(i)')
    BY <2>2, <2>3, <2>7, <2>8
  <2> QED BY <1>3, <2>7, <2>8, <2>9 DEF Budgeted
<1> QED BY <1>5, <1>7

LEMMA SweepPauseBudget ==
  ASSUME BInv, IInv', NEW x \in spent, SweepPause(x)
  PROVE  DueOnce' /\ \A i \in Works : Budgeted(i)'
<1>1. TypeOK /\ TypeOK' /\ IInv /\ \A i \in Works : Budgeted(i) BY DEF BInv, IInv
<1>2. /\ UNCHANGED <<queue, running, stage, waiting, ingest, review, reviews, crashes, dispatches>>
      /\ Save(x.id, Paused(x.work, 0)) /\ (due' = due \/ due' = <<>>)
      /\ sweep = "pausing" /\ sweep' \in {"idle", "pausing"}
  BY DEF SweepPause, Save, workers, history
<1>3. x \in Job /\ x.id \in Works /\ x.work \in InboundWork /\ box[x.id] # NoWork
  BY <1>1 DEF TypeOK, IInv, Copies, Copy, Unsettled, Job
<1>4. Paused(x.work, 0) \in InboundWork /\ Paused(x.work, 0).status = "needs_review"
  BY <1>3, PausedWork
<1>5. /\ \A i \in Works : i # x.id => box'[i] = box[i]
      /\ box'[x.id] # NoWork /\ (box'[x.id] = Paused(x.work, 0) \/ box'[x.id] = box[x.id])
      /\ faults' = faults \/ faults' = faults + 1
  BY <1>1, <1>2, <1>3, <1>4, SavedFile
<1>6. faults' >= faults /\ crashes' >= crashes BY <1>1, <1>2, <1>5 DEF TypeOK
<1>7. waiting = {} BY <1>2 DEF BInv, DueOnce
<1>8. DueOnce'
  <2>1. CASE due' = due BY <1>2, <1>7, <2>1 DEF BInv, DueOnce
  <2>2. CASE due' = <<>> BY <1>2, <1>7, <2>2 DEF BInv, DueOnce
  <2> QED BY <1>2, <2>1, <2>2
<1>9. ASSUME NEW i \in Works PROVE Budgeted(i)'
  <2>1. FreshJobs(i)' = FreshJobs(i) /\ AnsweredJobs(i)' = AnsweredJobs(i) BY <1>2, JobsStay
  <2>2. DueCopies(i)' \subseteq DueCopies(i)
    <3>1. CASE due' = due BY <3>1 DEF DueCopies
    <3>2. CASE due' = <<>> BY <3>2 DEF DueCopies
    <3> QED BY <1>2, <3>1, <3>2
  <2>3. box'[i] = NoWork <=> box[i] = NoWork BY <1>3, <1>5
  <2>4. /\ Rest(i) <= Rest(i)' /\ (box'[i] = box[i] => FileLeft(i)' = FileLeft(i))
        /\ FileLeft(i) \in Nat
    BY <1>1, <1>2, <1>6, <2>3, RestStays
  <2>5. box'[i] # box[i] => FileLeft(i)' = 0 BY <1>4, <1>5 DEF FileLeft, Pending
  <2>6. FileLeft(i)' <= FileLeft(i) BY <2>4, <2>5
  <2> QED BY <1>1, <1>2, <2>1, <2>2, <2>4, <2>6, BudgetStays
<1> QED BY <1>8, <1>9

\* Where the step is in memory and the jobs stay.
LEMMA SweepStepBudget ==
  ASSUME BInv, IInv', SweepReady \/ SweepWait \/ SweepEnd \/ \E j \in Works : HourPasses(j)
  PROVE  DueOnce' /\ \A i \in Works : Budgeted(i)'
<1>1. TypeOK /\ TypeOK' /\ IInv /\ \A i \in Works : Budgeted(i) BY DEF BInv, IInv
<1>2. /\ UNCHANGED <<box, queue, running, stage, due, waiting, ingest, review, reviews, faults, crashes, dispatches>>
      /\ sweep' # sweep => sweep' \in {"scheduling", "waiting"} \/ waiting = {}
  BY DEF SweepReady, SweepWait, SweepEnd, HourPasses, recovery, workers, bounds, history
<1>3. faults' >= faults /\ crashes' >= crashes BY <1>1, <1>2 DEF TypeOK
<1>4. DueOnce' BY <1>2 DEF BInv, DueOnce
<1>5. ASSUME NEW i \in Works PROVE Budgeted(i)'
  <2>1. FreshJobs(i)' = FreshJobs(i) /\ AnsweredJobs(i)' = AnsweredJobs(i) /\ DueCopies(i)' = DueCopies(i)
    BY <1>2, JobsStay, DueStays
  <2> QED BY <1>1, <1>2, <1>3, <2>1, Untouched
<1> QED BY <1>4, <1>5

LEMMA SweepScheduleBudget ==
  ASSUME BInv, IInv', SweepSchedule
  PROVE  DueOnce' /\ \A i \in Works : Budgeted(i)'
<1> DEFINE x == Head(due)
<1>1. TypeOK /\ TypeOK' /\ IInv /\ DueOnce /\ \A i \in Works : Budgeted(i) BY DEF BInv, IInv
<1>2. /\ UNCHANGED <<box, ingest, sweep, review, reviews, faults, crashes, dispatches>>
      /\ sweep = "scheduling" /\ due # <<>> /\ due' = Tail(due)
      /\ \/ Scheduled(x) /\ waiting' = waiting \cup {x.id}
         \/ NotScheduled(x) /\ UNCHANGED waiting
  BY DEF SweepSchedule, history, bounds
<1>3. /\ due \in Seq(Job) /\ Len(due) \in Nat /\ Len(due) >= 1 /\ x = due[1] /\ x \in Job
      /\ DOMAIN due = 1 .. Len(due) /\ 1 \in DOMAIN due /\ DOMAIN due' = 1 .. (Len(due) - 1)
      /\ \A n \in DOMAIN due' : due'[n] = due[n + 1] /\ n + 1 \in DOMAIN due /\ n + 1 # 1
  BY <1>1, <1>2 DEF TypeOK
<1>4. faults' >= faults /\ crashes' >= crashes BY <1>1, <1>2 DEF TypeOK
<1>5. DueOnce'
  <2>1. \A m, n \in DOMAIN due' : due'[m].id = due'[n].id => m = n
    <3> SUFFICES ASSUME NEW m \in DOMAIN due', NEW n \in DOMAIN due', due'[m].id = due'[n].id
                 PROVE  m = n
      OBVIOUS
    <3>1. m + 1 = n + 1 BY <1>1, <1>3 DEF DueOnce
    <3> QED BY <1>3, <3>1
  <2> QED BY <1>2, <2>1 DEF DueOnce
<1> HIDE DEF x
<1>6. ASSUME NEW i \in Works PROVE Budgeted(i)'
  <2>1. DueCopies(i)' \subseteq DueCopies(i) /\ DueCopies(i) \subseteq Job BY <1>3 DEF DueCopies
  <2>2. CASE NotScheduled(x) /\ UNCHANGED waiting
    <3>1. FreshJobs(i)' = FreshJobs(i) /\ AnsweredJobs(i)' = AnsweredJobs(i)
      BY <2>2, JobsStay DEF NotScheduled, workers
    <3> QED BY <1>1, <1>2, <1>4, <2>1, <2>2, <3>1, Untouched
  <2>3. CASE Scheduled(x) /\ waiting' = waiting \cup {x.id} /\ i # x.id
    <3>1. FreshJobs(i)' = FreshJobs(i) /\ AnsweredJobs(i)' = AnsweredJobs(i)
      BY <1>1, <1>3, <2>3, ScheduledJob
    <3> QED BY <1>1, <1>2, <1>4, <2>1, <2>3, <3>1, Untouched
  <2>4. CASE Scheduled(x) /\ waiting' = waiting \cup {x.id} /\ i = x.id
    <3>1. /\ FreshJobs(i) = {} /\ AnsweredJobs(i) = {} /\ AnsweredJobs(i)' = {}
          /\ FreshJobs(i)' \subseteq {x} /\ i \in waiting'
      BY <1>1, <1>3, <2>4, ScheduledJob
    <3>2. DueCopies(i)' = {} BY <1>1, <1>3, <2>4 DEF DueCopies, DueOnce
    <3>3. x \in DueCopies(i) BY <1>3, <2>4 DEF DueCopies
    <3>4. /\ Rest(i) <= Rest(i)' /\ FileLeft(i)' = FileLeft(i)
          /\ Rest(i) \in Int /\ Rest(i)' \in Int /\ FileLeft(i) \in Nat
      BY <1>1, <1>2, <1>4, RestStays
    <3>5. \A y \in Job : Left(y.work) \in Nat /\ Left(y.work)' = Left(y.work)
      BY JobLeftType DEF Left
    <3>6. 0 <= Rest(i) /\ FileLeft(i) <= Rest(i) /\ Left(x.work) <= Rest(i)
      BY <1>1, <3>1, <3>3 DEF Budgeted
    <3>7. /\ 0 <= Rest(i)' /\ FileLeft(i)' <= Rest(i)'
          /\ \A y \in FreshJobs(i)' : Left(y.work)' <= Rest(i)'
      BY <1>3, <3>1, <3>4, <3>5, <3>6
    <3> QED BY <3>1, <3>2, <3>7 DEF Budgeted
  <2> QED BY <1>2, <2>2, <2>3, <2>4
<1> QED BY <1>5, <1>6

LEMMA ReadReviewBudget ==
  ASSUME BInv, IInv', NEW j \in Works, ReadReview(j)
  PROVE  DueOnce' /\ \A i \in Works : Budgeted(i)'
<1>1. TypeOK /\ TypeOK' /\ IInv /\ \A i \in Works : Budgeted(i) BY DEF BInv, IInv
<1>2. /\ UNCHANGED <<box, queue, running, stage, due, sweep, waiting, ingest, faults, crashes, dispatches>>
      /\ review = NoJob /\ reviews' = reviews + 1 /\ review' = [id |-> j, work |-> box[j]]
  BY DEF ReadReview, recovery, workers, history
<1>3. DueOnce' BY <1>2 DEF BInv, DueOnce
<1>4. ASSUME NEW i \in Works PROVE Budgeted(i)'
  <2>1. FreshJobs(i)' = FreshJobs(i) /\ AnsweredJobs(i)' = AnsweredJobs(i) /\ DueCopies(i)' = DueCopies(i)
    BY <1>2, JobsStay, DueStays
  <2>2. MaxAttempts \in Nat BY BoundsAssumption
  <2>3. /\ Rest(i)' = Rest(i) + MaxAttempts + (crashes' - crashes) + (faults' - faults) - (dispatches'[i] - dispatches[i])
                      - (IngestLeft(i)' - IngestLeft(i)) - (ReviewLeft(i)' - ReviewLeft(i))
        /\ crashes \in Nat /\ faults \in Nat /\ dispatches[i] \in Nat
        /\ IngestLeft(i) \in Nat /\ ReviewLeft(i)' \in Nat /\ Rest(i) \in Int
    BY <1>1, <1>2, <2>2, RestMoves
  <2>4. IngestLeft(i)' = IngestLeft(i) /\ ReviewLeft(i) = 0 /\ ReviewLeft(i)' <= MaxAttempts
    BY <1>2, <2>2 DEF IngestLeft, ReviewLeft
  <2>5. Rest(i) <= Rest(i)' BY <1>2, <2>2, <2>3, <2>4
  <2>6. FileLeft(i)' = FileLeft(i) /\ FileLeft(i) \in Nat
    BY <1>1, <1>2, FileLeftType DEF FileLeft, Pending, Left
  <2>7. FileLeft(i)' <= FileLeft(i) BY <2>6
  <2> QED BY <1>1, <1>2, <2>1, <2>5, <2>7, BudgetStays
<1> QED BY <1>3, <1>4

\* A review starts a budget, which it brings.
LEMMA RetryReviewedBudget ==
  ASSUME BInv, IInv', RetryReviewed
  PROVE  DueOnce' /\ \A i \in Works : Budgeted(i)'
<1> DEFINE j == review.id
           v == Revived(review.work)
<1>1. TypeOK /\ TypeOK' /\ IInv /\ \A i \in Works : Budgeted(i) BY DEF BInv, IInv
<1>2. /\ UNCHANGED <<queue, running, stage, due, sweep, waiting, ingest, reviews, crashes, dispatches>>
      /\ review # NoJob /\ review' = NoJob /\ Save(j, v)
  BY DEF RetryReviewed, recovery, workers, history
<1>3. review \in Job /\ j \in Works /\ review.work \in InboundWork /\ box[j] # NoWork
  BY <1>1, <1>2 DEF TypeOK, IInv, Copies, Copy, Unsettled, Job
<1>4. v \in InboundWork BY <1>3, RevivedWork
<1>5. /\ \A i \in Works : i # j => box'[i] = box[i]
      /\ box'[j] # NoWork /\ (box'[j] = v \/ box'[j] = box[j])
      /\ faults' = faults \/ faults' = faults + 1
  BY <1>1, <1>2, <1>3, <1>4, SavedFile
<1>6. faults' >= faults /\ crashes' >= crashes BY <1>1, <1>2, <1>5 DEF TypeOK
<1>7. DueOnce' BY <1>2 DEF BInv, DueOnce
<1>8. ASSUME NEW i \in Works PROVE Budgeted(i)'
  <2>1. FreshJobs(i)' = FreshJobs(i) /\ AnsweredJobs(i)' = AnsweredJobs(i) /\ DueCopies(i)' = DueCopies(i)
    BY <1>2, JobsStay, DueStays
  <2>2. CASE i # j BY <1>1, <1>2, <1>5, <1>6, <2>1, <2>2, Untouched
  <2>3. CASE i = j
    <3>1. /\ Rest(i)' = Rest(i) + 0 + (crashes' - crashes) + (faults' - faults) - (dispatches'[i] - dispatches[i])
                        - (IngestLeft(i)' - IngestLeft(i)) - (ReviewLeft(i)' - ReviewLeft(i))
          /\ crashes \in Nat /\ faults \in Nat /\ faults' \in Nat /\ dispatches[i] \in Nat
          /\ IngestLeft(i) \in Nat /\ Rest(i) \in Int
      BY <1>1, <1>2, RestMoves
    <3>2. IngestLeft(i)' = IngestLeft(i) /\ ReviewLeft(i) = MaxAttempts /\ ReviewLeft(i)' = 0
      BY <1>2, <1>3, <1>5, <2>3 DEF IngestLeft, ReviewLeft
    <3>3. Rest(i)' = Rest(i) + MaxAttempts + (faults' - faults)
      BY <1>2, <3>1, <3>2, BoundsAssumption
    <3>4. /\ Rest(i)' >= Rest(i) + MaxAttempts /\ Rest(i) \in Int /\ Rest(i)' \in Int /\ MaxAttempts \in Nat
      BY <1>6, <3>1, <3>3, BoundsAssumption
    <3>5. FileLeft(i) \in Nat /\ FileLeft(i)' \in Nat /\ FileLeft(i)' <= MaxAttempts
      BY <1>1, FileLeftType, RestTypeNext
    <3>6. \A x \in Job : Left(x.work) \in Nat /\ Left(x.work)' = Left(x.work)
      BY JobLeftType DEF Left
    <3>7. FreshJobs(i) \subseteq Job /\ AnsweredJobs(i) \subseteq Job /\ DueCopies(i) \subseteq Job
      BY DEF FreshJobs, AnsweredJobs, DueCopies
    <3>8. 0 <= Rest(i)' /\ FileLeft(i)' <= Rest(i)'
      <4>1. 0 <= Rest(i) BY <1>1 DEF Budgeted
      <4> QED BY <3>4, <3>5, <4>1
    <3>9. FreshJobs(i)' # {} /\ i \notin waiting' =>
            FileLeft(i)' + 1 <= Rest(i)' /\ \A x \in DueCopies(i)' : Left(x.work)' + 1 <= Rest(i)'
      <4> SUFFICES ASSUME FreshJobs(i)' # {}, i \notin waiting'
                   PROVE  FileLeft(i)' + 1 <= Rest(i)' /\ \A x \in DueCopies(i)' : Left(x.work)' + 1 <= Rest(i)'
        OBVIOUS
      <4>1. FileLeft(i) + 1 <= Rest(i) /\ \A x \in DueCopies(i) : Left(x.work) + 1 <= Rest(i)
        BY <1>1, <1>2, <2>1 DEF Budgeted
      <4> QED BY <2>1, <3>4, <3>5, <3>6, <3>7, <4>1
    <3>10. /\ \A x \in FreshJobs(i)' : Left(x.work)' <= Rest(i)'
           /\ \A x \in AnsweredJobs(i)' : 1 <= Left(x.work)' /\ Left(x.work)' <= Rest(i)' + 1
           /\ \A x \in DueCopies(i)' : i \notin waiting' /\ Left(x.work)' <= Rest(i)'
      <4>1. /\ \A x \in FreshJobs(i) : Left(x.work) <= Rest(i)
            /\ \A x \in AnsweredJobs(i) : 1 <= Left(x.work) /\ Left(x.work) <= Rest(i) + 1
            /\ \A x \in DueCopies(i) : i \notin waiting /\ Left(x.work) <= Rest(i)
        BY <1>1 DEF Budgeted
      <4> QED BY <1>2, <2>1, <3>4, <3>6, <3>7, <4>1
    <3> QED BY <3>8, <3>9, <3>10 DEF Budgeted
  <2> QED BY <2>2, <2>3
<1> QED BY <1>7, <1>8

LEMMA RetryDueBudget ==
  ASSUME BInv, IInv', (\E j \in Works : RetryDue(j)) \/ Start \/ StartFails
  PROVE  DueOnce' /\ \A i \in Works : Budgeted(i)'
<1>1. TypeOK /\ TypeOK' /\ IInv /\ \A i \in Works : Budgeted(i) BY DEF BInv, IInv
<1>2. /\ UNCHANGED <<queue, running, stage, due, sweep, waiting, ingest, review, reviews, crashes, dispatches>>
      /\ faults' = faults \/ faults' = faults + 1
  BY DEF RetryDue, Start, StartFails, recovery, workers, bounds, history
<1>3. faults' >= faults /\ crashes' >= crashes BY <1>1, <1>2 DEF TypeOK
<1>4. DueOnce' BY <1>2 DEF BInv, DueOnce
<1>5. ASSUME NEW i \in Works PROVE Budgeted(i)'
  <2>1. FreshJobs(i)' = FreshJobs(i) /\ AnsweredJobs(i)' = AnsweredJobs(i) /\ DueCopies(i)' = DueCopies(i)
    BY <1>2, JobsStay, DueStays
  <2>2. /\ box'[i] = NoWork <=> box[i] = NoWork
        /\ \/ box'[i] = box[i]
           \/ box[i] # NoWork /\ box[i].status = box'[i].status /\ box[i].tries = box'[i].tries
    <3>1. CASE \E j \in Works : RetryDue(j)
      <4>1. PICK j \in Works : RetryDue(j) BY <3>1
      <4>2. box[j] \in InboundWork /\ box' = [box EXCEPT ![j] = [box[j] EXCEPT !.wait = FALSE]]
        BY <1>1, <4>1 DEF RetryDue, Pending, TypeOK
      <4>3. [box[j] EXCEPT !.wait = FALSE] \in InboundWork BY <4>2 DEF InboundWork
      <4>4. box'[i] = box[i] \/ (i = j /\ box'[i] = [box[i] EXCEPT !.wait = FALSE])
        BY <1>1, <4>2 DEF TypeOK
      <4> QED BY <4>2, <4>3, <4>4, NoWorkAssumption DEF InboundWork
    <3>2. CASE Start \/ StartFails
      <4>1. box'[i] \in {box[i], Scrubbed(box[i])} BY <3>2 DEF Start, StartFails
      <4>2. CASE box[i] \in InboundWork
        <5>1. Completed(box[i]) \in InboundWork /\ Completed(box[i]).tries = box[i].tries
          BY <4>2, CompletedWork DEF Completed, InboundWork
        <5> QED BY <4>1, <4>2, <5>1, CompletedWork, NoWorkAssumption DEF Scrubbed
      <4>3. CASE box[i] = NoWork BY <4>1, <4>3 DEF Scrubbed
      <4> QED BY <1>1, <4>2, <4>3 DEF TypeOK
    <3> QED BY <3>1, <3>2
  <2>3. Rest(i) <= Rest(i)' /\ (box'[i] = box[i] => FileLeft(i)' = FileLeft(i)) /\ FileLeft(i) \in Nat
    BY <1>1, <1>2, <1>3, <2>2, RestStays
  <2>4. box'[i] # box[i] => FileLeft(i)' = FileLeft(i) BY <2>2 DEF FileLeft, Pending, Left
  <2>5. FileLeft(i)' <= FileLeft(i) BY <2>3, <2>4
  <2> QED BY <1>1, <1>2, <2>1, <2>3, <2>5, BudgetStays
<1> QED BY <1>4, <1>5

\* A crash takes what was in hand, and a count with it.
LEMMA CrashBudget ==
  ASSUME BInv, IInv', Crash
  PROVE  DueOnce' /\ \A i \in Works : Budgeted(i)'
<1>1. TypeOK /\ TypeOK' /\ IInv /\ \A i \in Works : Budgeted(i) BY DEF BInv, IInv
<1>2. /\ UNCHANGED <<box, review, reviews, faults, dispatches>>
      /\ crashes' = crashes + 1 /\ ingest' = NoJob /\ due' = <<>> /\ waiting' = {}
      /\ queue' = [p \in Parts |-> <<>>] /\ stage' = [p \in Parts |-> "idle"]
  BY DEF Crash, history
<1>3. DueOnce' BY <1>2 DEF DueOnce
<1>4. ASSUME NEW i \in Works PROVE Budgeted(i)'
  <2>1. FreshJobs(i)' = {} /\ AnsweredJobs(i)' = {} /\ DueCopies(i)' = {}
    BY <1>2 DEF FreshJobs, AnsweredJobs, DueCopies, Queued
  <2>2. /\ Rest(i)' = Rest(i) + 0 + (crashes' - crashes) + (faults' - faults) - (dispatches'[i] - dispatches[i])
                      - (IngestLeft(i)' - IngestLeft(i)) - (ReviewLeft(i)' - ReviewLeft(i))
        /\ crashes \in Nat /\ faults \in Nat /\ dispatches[i] \in Nat /\ ReviewLeft(i) \in Nat
        /\ IngestLeft(i) \in Nat /\ IngestLeft(i)' \in Nat /\ Rest(i) \in Int
    BY <1>1, <1>2, RestMoves
  <2>3. IngestLeft(i)' <= IngestLeft(i) /\ ReviewLeft(i)' = ReviewLeft(i)
    BY <1>2, BoundsAssumption DEF IngestLeft, ReviewLeft
  <2>4. Rest(i)' >= Rest(i) + 1 /\ Rest(i) \in Int /\ Rest(i)' \in Int BY <1>2, <2>2, <2>3
  <2>5. FileLeft(i)' = FileLeft(i) /\ FileLeft(i) \in Nat
    BY <1>1, <1>2, FileLeftType DEF FileLeft, Pending, Left
  <2>6. 0 <= Rest(i) /\ FileLeft(i) <= Rest(i) + 1
    <3>1. 0 <= Rest(i) /\ (FileLeft(i) <= Rest(i) \/ FileLeft(i) <= Rest(i) + 1)
      BY <1>1 DEF Budgeted
    <3> QED BY <2>4, <2>5, <3>1
  <2>7. 0 <= Rest(i)' /\ FileLeft(i)' <= Rest(i)' BY <2>4, <2>5, <2>6
  <2> QED BY <2>1, <2>7 DEF Budgeted
<1> QED BY <1>3, <1>4

LEMMA InitBudget == Init => BInv
<1> SUFFICES ASSUME Init PROVE BInv
  OBVIOUS
<1>1. IInv BY InitIInv
<1>2. DueOnce BY DEF Init, DueOnce
<1>3. ASSUME NEW i \in Works PROVE Budgeted(i)
  <2>1. FreshJobs(i) = {} /\ AnsweredJobs(i) = {} /\ DueCopies(i) = {}
    BY DEF Init, FreshJobs, AnsweredJobs, DueCopies, Queued
  <2>2. FileLeft(i) = 0 BY DEF Init, FileLeft, Pending, LegacyReceipt
  <2>3. IngestLeft(i) <= 2 * MaxAttempts + 1 /\ IngestLeft(i) \in Nat /\ ReviewLeft(i) = 0
    BY BoundsAssumption DEF Init, IngestLeft, ReviewLeft
  <2>4. Granted = 2 * MaxAttempts + 1 BY BoundsAssumption DEF Init, Granted
  <2>5. dispatches[i] = 0 BY DEF Init
  <2>6. 0 <= Rest(i) BY <2>3, <2>4, <2>5, BoundsAssumption DEF Rest
  <2> QED BY <2>1, <2>2, <2>6 DEF Budgeted
<1> QED BY <1>1, <1>2, <1>3 DEF BInv

LEMMA NextBudget == BInv /\ [Next]_vars => BInv'
<1> SUFFICES ASSUME BInv, [Next]_vars PROVE BInv'
  OBVIOUS
<1>1. IInv' BY NextIInv DEF BInv
<1>2. CASE Next
  <2>1. DueOnce' /\ \A i \in Works : Budgeted(i)'
    BY <1>1, <1>2, EnqueueNewBudget, HandleNewBudget, HandleFrameBudget, TakeJobBudget, PauseSpentBudget,
       DispatchBudget, CompleteBudget, FailBudget, JobDoneBudget, SweepBudget, SweepPauseBudget,
       SweepStepBudget, SweepScheduleBudget, ReadReviewBudget, RetryReviewedBudget, RetryDueBudget,
       CrashBudget
    DEF Next, Handle, Worker, Recover, Review
  <2> QED BY <1>1, <2>1 DEF BInv
<1>3. CASE UNCHANGED vars
  <2>1. DueOnce' BY <1>3 DEF BInv, DueOnce, vars, recovery
  <2>2. \A i \in Works : Budgeted(i)'
    BY <1>3 DEF BInv, Budgeted, Rest, Granted, IngestLeft, ReviewLeft, FreshJobs, AnsweredJobs, DueCopies,
                Queued, FileLeft, Left, Pending, vars, recovery, workers, history, bounds
  <2> QED BY <1>1, <2>1, <2>2 DEF BInv
<1> QED BY <1>2, <1>3

LEMMA BudgetBounds == BInv => BudgetBoundsDispatches
<1> SUFFICES ASSUME BInv, NEW i \in Works
             PROVE  dispatches[i] <= MaxAttempts * (2 + reviews) + 1 + crashes + faults
  BY DEF BudgetBoundsDispatches
<1>1. /\ Rest(i) \in Int /\ Granted \in Int /\ IngestLeft(i) \in Nat /\ ReviewLeft(i) \in Nat
      /\ dispatches[i] \in Nat
  BY RestType DEF BInv, IInv
<1>2. 0 <= Rest(i) /\ Rest(i) = Granted - dispatches[i] - IngestLeft(i) - ReviewLeft(i)
  BY DEF BInv, Budgeted, Rest
<1>3. dispatches[i] <= Granted BY <1>1, <1>2
<1> QED BY <1>3 DEF Granted

\* The types, a recovery that can go on, and the dispatches of a work: no more than its budgets,
\* the second copy that Handle may hold, one stale copy, and the crashes and failed writes allow.
THEOREM InboundDeliverySound == Spec => []DeliverySound
<1>1. BInv => DeliverySound
  <2>1. BInv => TypeOK BY DEF BInv, IInv
  <2>2. BInv => RecoveryNeverWedged BY DEF BInv, IInv, Files, RecoveryNeverWedged
  <2> QED BY <2>1, <2>2, BudgetBounds DEF DeliverySound
<1> QED BY <1>1, InitBudget, NextBudget, PTL DEF Spec

=============================================================================
