--------------------------- MODULE WorkQueueProofs ---------------------------
(* What WorkQueue promises for any items, targets, parts and earlier versions: its types, that *)
(* no part of a message arrives twice, and that a terminal file says what Feishu has. That one *)
(* target is written in order, that the index is a projection and that every item ends         *)
(* (TargetInOrder, IndexIsAProjection, EverySubmissionEnds) stay with TLC. And, as an      *)
(* instance of TaskCards, what the cards of task links promise.                                *)
EXTENDS WorkQueue, Cards, FiniteSetTheorems, WellFoundedInduction, TLAPS

\* What a result says of the messages that arrived.
Truth(i, result) ==
  /\ result = "sent" => writes[i] = Parts[i]
  /\ result \in {"failed", "cancelled"} => writes[i] = 0

FilesTrue(i) ==
  /\ \A d \in Dirs : Truth(i, files[i][d].result)
  /\ files[i]["pending"].result \in {"none", "unknown"}
  /\ files[i]["pending"].v = 3 => files[i]["pending"].state = "pending"

\* An item that may still run, or be recovered from its record.
Live(i) ==
  \/ line[i] \in {"submit", "new"} \/ Exists(i, "pending") \/ Exists(i, "running")
  \/ worker[i] # Idle

OpTrue(i) ==
  Live(i) => /\ op[i] \in {"queued", "failed", "cancelled"} => writes[i] = 0
             /\ op[i] = "succeeded" => writes[i] = Parts[i]

\* The terminal file promises nothing that a later message could break.
Silent(i) == files[i]["terminal"].result \in {"none", "unknown"}

\* Whatever waits has not been run, and nobody runs it.
Waits(i) ==
  files[i]["pending"].state = "pending" =>
    writes[i] = 0 /\ worker[i] = Idle /\ ~Exists(i, "running") /\ Silent(i)

LineOK(i) ==
  /\ line[i] = "submit" => writes[i] = 0 /\ worker[i] = Idle /\ \A d \in Dirs : ~Exists(i, d)
  /\ line[i] = "new" => ~Exists(i, "running") /\ Silent(i) /\ writes[i] = 0
  /\ line[i] = "answered" => ~Exists(i, "pending") /\ writes[i] = Parts[i]

\* The version 2 queue is empty before anything runs.
Migrated(i) ==
  /\ line[i] \in {"new", "processed", "answered"} => "v2" \notin marks
  /\ worker[i] # Idle => "v2" \in marks

Before == {"admit", "look", "claim", "phase", "check"}
During == Before \cup {"send", "settle", "verify", "finish"}

\* How far a worker is says what arrived of its item.
Doing(i) ==
  /\ worker[i].pc \in During => files[i]["running"].result = "none" /\ Silent(i)
  /\ worker[i].pc \in Before => writes[i] = 0 /\ worker[i].sent = 0
  /\ worker[i].pc = "send" => writes[i] = worker[i].sent /\ worker[i].sent < Parts[i]
  /\ worker[i].pc = "verify" => writes[i] = Parts[i]
  /\ worker[i].pc = "settle" => worker[i].result \in {"failed", "unknown"}
  /\ worker[i].pc \in {"settle", "finish"} => Truth(i, worker[i].result)

AtRest(i) == Starting \/ stage = "down" => worker[i] = Idle

ItemOK(i) ==
  /\ FilesTrue(i) /\ OpTrue(i) /\ Waits(i) /\ LineOK(i) /\ Migrated(i) /\ Doing(i) /\ AtRest(i)
  /\ writes[i] <= Parts[i]

Stages ==
  stage \in {"inspect", "upgrade", "recover", "reconcile", "run", "draining"} => "v2" \in marks

IInv == TypeOK /\ Stages /\ \A i \in Items : ItemOK(i)

FileType == [v : {0, 3, 4}, state : Dirs \cup {"none"}, result : Results]
Lines == {"submit", "new", "processed", "answered", "none"}
WorkerType == [pc : During \cup {"idle", "doubt", "done", "broken"}, sent : Nat, result : Results]

(* The operators of the model *)

LEMMA FileTypes ==
  /\ NoFile \in FileType /\ File("pending", "none") \in FileType
  /\ File("running", "none") \in FileType
  /\ \A result \in Results : File("terminal", result) \in FileType
BY DEF NoFile, File, FileType, Dirs, Results

LEMMA InDirs == "pending" \in Dirs /\ "running" \in Dirs /\ "terminal" \in Dirs
BY DEF Dirs

\* What one operation on the files of an item writes.
LEMMA PutIs ==
  ASSUME TypeOK, NEW i \in Items, NEW d \in Dirs, NEW f \in FileType
  PROVE  /\ Put(i, d, f) \in [Items -> [Dirs -> FileType]]
         /\ \A j \in Items, e \in Dirs :
              Put(i, d, f)[j][e] = IF j = i /\ e = d THEN f ELSE files[j][e]
<1>1. files \in [Items -> [Dirs -> FileType]] BY DEF TypeOK, FileType
<1>2. Put(i, d, f) = [files EXCEPT ![i] = [files[i] EXCEPT ![d] = f]] BY DEF Put
<1>3. [files[i] EXCEPT ![d] = f] \in [Dirs -> FileType] BY <1>1
<1> QED BY <1>1, <1>2, <1>3

LEMMA PutStep ==
  ASSUME TypeOK, NEW i \in Items, NEW d \in Dirs, NEW f \in FileType, files' = Put(i, d, f)
  PROVE  /\ files' \in [Items -> [Dirs -> FileType]]
         /\ \A j \in Items, e \in Dirs :
              files'[j][e] = IF j = i /\ e = d THEN f ELSE files[j][e]
BY PutIs

LEMMA RenameIs ==
  ASSUME TypeOK, NEW i \in Items, NEW from \in Dirs, NEW to \in Dirs, NEW f \in FileType,
         from # to
  PROVE  /\ Rename(i, from, to, f) \in [Items -> [Dirs -> FileType]]
         /\ \A j \in Items, e \in Dirs :
              Rename(i, from, to, f)[j][e] =
                IF j = i /\ e = to THEN f ELSE IF j = i /\ e = from THEN NoFile ELSE files[j][e]
<1>1. files \in [Items -> [Dirs -> FileType]] /\ NoFile \in FileType
  BY FileTypes DEF TypeOK, FileType
<1> DEFINE g == [[files[i] EXCEPT ![from] = NoFile] EXCEPT ![to] = f]
<1>2. g \in [Dirs -> FileType]
      /\ \A e \in Dirs : g[e] = IF e = to THEN f ELSE IF e = from THEN NoFile ELSE files[i][e]
  BY <1>1
<1>3. Rename(i, from, to, f) = [files EXCEPT ![i] = g] BY <1>1 DEF Rename
<1> HIDE DEF g
<1> QED BY <1>1, <1>2, <1>3

LEMMA RenameStep ==
  ASSUME TypeOK, NEW i \in Items, NEW from \in Dirs, NEW to \in Dirs, NEW f \in FileType,
         from # to, files' = Rename(i, from, to, f)
  PROVE  /\ files' \in [Items -> [Dirs -> FileType]]
         /\ \A j \in Items, e \in Dirs :
              files'[j][e] = IF j = i /\ e = to THEN f
                             ELSE IF j = i /\ e = from THEN NoFile ELSE files[j][e]
BY RenameIs

LEMMA WorkerIs ==
  ASSUME TypeOK, NEW i \in Items, NEW pc \in During \cup {"idle", "doubt", "done", "broken"}
  PROVE  /\ Go(i, pc) => /\ worker' \in [Items -> WorkerType]
                         /\ worker'[i].pc = pc /\ worker'[i].sent = worker[i].sent
                         /\ worker'[i].result = worker[i].result
                         /\ \A j \in Items \ {i} : worker'[j] = worker[j]
         /\ \A result \in Results :
              Conclude(i, pc, result) =>
                         /\ worker' \in [Items -> WorkerType]
                         /\ worker'[i].pc = pc /\ worker'[i].sent = worker[i].sent
                         /\ worker'[i].result = result
                         /\ \A j \in Items \ {i} : worker'[j] = worker[j]
<1>1. worker \in [Items -> WorkerType] /\ worker[i] \in WorkerType
  BY DEF TypeOK, WorkerType, During, Before
<1>2. ASSUME Go(i, pc)
      PROVE  /\ worker' \in [Items -> WorkerType]
             /\ worker'[i].pc = pc /\ worker'[i].sent = worker[i].sent
             /\ worker'[i].result = worker[i].result
             /\ \A j \in Items \ {i} : worker'[j] = worker[j]
  <2>1. worker' = [worker EXCEPT ![i] = [worker[i] EXCEPT !.pc = pc]] BY <1>2 DEF Go
  <2>2. [worker[i] EXCEPT !.pc = pc] \in WorkerType BY <1>1 DEF WorkerType
  <2> QED BY <1>1, <2>1, <2>2 DEF WorkerType
<1>3. ASSUME NEW result \in Results, Conclude(i, pc, result)
      PROVE  /\ worker' \in [Items -> WorkerType]
             /\ worker'[i].pc = pc /\ worker'[i].sent = worker[i].sent
             /\ worker'[i].result = result
             /\ \A j \in Items \ {i} : worker'[j] = worker[j]
  <2> DEFINE r == [[worker[i] EXCEPT !.pc = pc] EXCEPT !.result = result]
  <2>1. worker' = [worker EXCEPT ![i] = r] BY <1>1, <1>3 DEF Conclude
  <2>2. r \in WorkerType /\ r.pc = pc /\ r.sent = worker[i].sent /\ r.result = result
    BY <1>1 DEF WorkerType
  <2> HIDE DEF r
  <2> QED BY <1>1, <2>1, <2>2
<1> QED BY <1>2, <1>3

LEMMA ReconciledIs ==
  ASSUME TypeOK, NEW i \in Items
  PROVE  /\ Reconciled(i) \in [Items -> OpStatuses]
         /\ \A j \in Items :
              Reconciled(i)[j] = IF j = i /\ op[i] \in InFlight THEN "unknown" ELSE op[j]
BY DEF TypeOK, Reconciled, OpStatuses, InFlight

\* A file that is recovered says what the record says, or what it said itself.
LEMMA RecoveredIs ==
  ASSUME TypeOK, NEW i \in Items, ItemOK(i), op' = Reconciled(i), Live(i)
  PROVE  /\ Recovered(i) \in FileType /\ Recovered(i).state = "terminal"
         /\ Recovered(i).v = 4 /\ Truth(i, Recovered(i).result)
         /\ RecoveredFile(i) \in FileType /\ RecoveredFile(i).state = "terminal"
         /\ RecoveredFile(i).v = 4 /\ Truth(i, RecoveredFile(i).result)
<1>1. op'[i] = IF op[i] \in InFlight THEN "unknown" ELSE op[i] BY ReconciledIs
<1>2. RecoveryResult(op'[i]) \in Results /\ Truth(i, RecoveryResult(op'[i]))
  <2>1. op'[i] \in {"queued", "failed", "cancelled"} => writes[i] = 0
    BY <1>1 DEF ItemOK, OpTrue, InFlight
  <2>2. op'[i] = "succeeded" => writes[i] = Parts[i] BY <1>1 DEF ItemOK, OpTrue, InFlight
  <2> QED BY <2>1, <2>2 DEF RecoveryResult, Results, Truth
<1>3. /\ Recovered(i) \in FileType /\ Recovered(i).state = "terminal"
      /\ Recovered(i).v = 4 /\ Truth(i, Recovered(i).result)
  BY <1>2 DEF Recovered, File, FileType, Dirs
<1>4. files[i]["running"] \in FileType /\ Truth(i, files[i]["running"].result)
  BY DEF TypeOK, FileType, Dirs, ItemOK, FilesTrue
<1>5. CASE files[i]["running"].state = "terminal" /\ files[i]["running"].result # "none"
  <2> DEFINE f == [files[i]["running"] EXCEPT !.v = 4]
  <2>1. RecoveredFile(i) = f BY <1>5 DEF RecoveredFile
  <2>2. f \in FileType /\ f.v = 4 /\ f.state = "terminal" /\ f.result = files[i]["running"].result
    BY <1>4, <1>5 DEF FileType
  <2> HIDE DEF f
  <2> QED BY <1>3, <1>4, <2>1, <2>2
<1>6. CASE ~(files[i]["running"].state = "terminal" /\ files[i]["running"].result # "none")
  <2>1. RecoveredFile(i) = Recovered(i) BY <1>6 DEF RecoveredFile
  <2> QED BY <1>3, <2>1
<1> QED BY <1>5, <1>6

LEMMA CountsAreNumbers == ASSUME NEW f PROVE CountsOf(f) \in [Dirs -> Int]
<1>1. ASSUME NEW d \in Dirs PROVE Cardinality({i \in Items : f[i][d] # NoFile}) \in Int
  <2>1. IsFiniteSet({i \in Items : f[i][d] # NoFile}) BY WorkAssumption, FS_Subset
  <2> QED BY <2>1, FS_CardinalityType
<1> QED BY <1>1 DEF CountsOf

LEMMA MovedAreNumbers ==
  ASSUME TypeOK, NEW from, NEW to PROVE Moved(from, to) \in [Dirs -> Int]
<1>1. index \in [Dirs -> Int] BY DEF TypeOK
<1>2. CASE index = Unreadable BY <1>2, CountsAreNumbers DEF Moved
<1>3. CASE index # Unreadable
  <2>1. \A d \in Dirs : (CASE d = to -> index[d] + 1
                           [] d = from /\ index[d] > 0 -> index[d] - 1
                           [] OTHER -> index[d]) \in Int
    BY <1>1
  <2> QED BY <1>3, <2>1 DEF Moved
<1> QED BY <1>2, <1>3

\* A set of items has a smallest one.
LEMMA SmallestItem ==
  ASSUME NEW S \in SUBSET Items, S # {} PROVE Min(S) \in S
<1>0. Items \subseteq Nat \ {0} /\ IsFiniteSet(Items) BY WorkAssumption
<1>1. S \in SUBSET Int /\ IsFiniteSet(S)
  <2>1. \A l \in S : l \in Int BY <1>0
  <2> QED BY <1>0, <2>1, FS_Subset
<1> DEFINE Below(k) == {l \in S : l < k}
           T == {Below(k) : k \in S}
<1>2. \A k \in S : Below(k) \in FiniteSubsetsOf(S)
  <2> TAKE k \in S
  <2>1. Below(k) \subseteq S
    OBVIOUS
  <2> HIDE DEF Below
  <2> QED BY <1>1, <2>1, FS_Subset DEF FiniteSubsetsOf
<1>3. T \subseteq FiniteSubsetsOf(S) /\ T # {}
  <2> HIDE DEF Below
  <2> QED BY <1>2
<1>4. PICK X \in T : \A Y \in T : <<Y, X>> \notin StrictSubsetOrdering(S)
  <2> HIDE DEF T
  <2> QED BY <1>1, <1>3, FS_StrictSubsetOrderingWellFounded, WFMin
<1>5. PICK m \in S : X = Below(m) BY <1>4
<1>6. ASSUME NEW n \in S, ~(m <= n) PROVE FALSE
  <2>1. m \in Int /\ n \in Int /\ \A l \in S : l \in Int BY <1>1
  <2>2. n \in Below(m) /\ n \notin Below(n) BY <2>1, <1>6
  <2>3. \A l \in S : l < n => l < m BY <2>1, <1>6
  <2>4. Below(n) \subseteq Below(m) /\ Below(n) \subseteq S /\ Below(m) \subseteq S BY <2>3
  <2>5. <<Below(n), Below(m)>> \in StrictSubsetOrdering(S)
    <3> HIDE DEF Below
    <3> QED BY <2>2, <2>4 DEF StrictSubsetOrdering
  <2> QED BY <1>4, <1>5, <2>5
<1>7. \E k \in S : \A n \in S : k <= n BY <1>6
<1> QED BY <1>7 DEF Min

LEMMA CandidateIs ==
  ASSUME Dispatching PROVE Candidate \in Items /\ Pending(Candidate)
<1>1. /\ Eligible # {} /\ Eligible \subseteq AnyPending
      /\ AnyPending \subseteq Items
  BY DEF Dispatching, Eligible, PendingHeads, AnyPending
<1> DEFINE behind == {i \in Eligible : \E h \in PendingHeads :
                        lastKey # 0 /\ Key[h] = Key[lastKey] /\ i > h}
           S == IF behind # {} THEN behind ELSE Eligible
<1>2. S \in SUBSET Items /\ S # {} /\ S \subseteq AnyPending
  <2>1. behind \subseteq Eligible
    OBVIOUS
  <2> HIDE DEF behind
  <2> QED BY <1>1, <2>1
<1>3. Candidate = Min(S) BY DEF Candidate
<1>4. Min(S) \in S
  <2> HIDE DEF S
  <2> QED BY <1>2, SmallestItem
<1>5. \A i \in AnyPending : i \in Items /\ Pending(i) BY DEF AnyPending
<1> HIDE DEF S
<1> QED BY <1>2, <1>3, <1>4, <1>5

(* Steps that leave an item alone *)

SameRecords(j) ==
  /\ \A d \in Dirs : files'[j][d] = files[j][d]
  /\ line'[j] = line[j] /\ op'[j] = op[j] /\ writes'[j] = writes[j]

SameMark == "v2" \in marks' <=> "v2" \in marks

\* Its records stay, and its worker at most goes away.
LEMMA Unmoved ==
  ASSUME NEW j \in Items, ItemOK(j), SameRecords(j), SameMark,
         worker'[j] \in {worker[j], Idle},
         (Starting \/ stage = "down")' => worker'[j] = Idle
  PROVE  ItemOK(j)'
<1> USE DEF SameRecords, SameMark, Dirs
<1>1. FilesTrue(j)' /\ (writes[j] <= Parts[j])' BY DEF ItemOK, FilesTrue, Truth
<1>2. OpTrue(j)' BY DEF ItemOK, OpTrue, Live, Exists
<1>3. Waits(j)' /\ LineOK(j)' BY DEF ItemOK, Waits, LineOK, Exists, Silent
<1>4. Migrated(j)' /\ AtRest(j)' BY DEF ItemOK, Migrated, AtRest
<1>5. Doing(j)'
  <2>1. CASE worker'[j] = worker[j] BY <2>1 DEF ItemOK, Doing, Silent, Truth
  <2>2. CASE worker'[j] = Idle BY <2>2 DEF Doing, Idle, Before, During
  <2> QED BY <2>1, <2>2
<1> QED BY <1>1, <1>2, <1>3, <1>4, <1>5 DEF ItemOK

\* The types of what a step writes are its only ones to show.
LEMMA TypesStay ==
  ASSUME TypeOK,
         files' \in [Items -> [Dirs -> FileType]], line' \in [Items -> Lines],
         marks' \subseteq {"v2", "v3"}, index' \in [Dirs -> Int],
         op' \in [Items -> OpStatuses], writes' \in [Items -> Nat],
         todo' \subseteq Items, reserved' \subseteq Items, lastKey' \in Items \cup {0},
         worker' \in [Items -> WorkerType]
  PROVE  TypeOK'
BY DEF TypeOK, FileType, Lines, WorkerType, During, Before

LEMMA Types ==
  ASSUME TypeOK
  PROVE  /\ files \in [Items -> [Dirs -> FileType]] /\ line \in [Items -> Lines]
         /\ marks \subseteq {"v2", "v3"} /\ index \in [Dirs -> Int]
         /\ op \in [Items -> OpStatuses] /\ writes \in [Items -> Nat]
         /\ todo \subseteq Items /\ reserved \subseteq Items /\ lastKey \in Items \cup {0}
         /\ worker \in [Items -> WorkerType]
BY DEF TypeOK, FileType, Lines, WorkerType, During, Before

LEMMA IdleIs == Idle \in WorkerType /\ [i \in Items |-> Idle] \in [Items -> WorkerType]
BY DEF Idle, WorkerType, Results

\* A step of the scheduler, or of a process: nothing of an item changes but its worker.
LEMMA ControlKeeps ==
  ASSUME IInv, UNCHANGED <<files, line, marks, op, writes>>,
         index' \in [Dirs -> Int], todo' \subseteq Items, reserved' \subseteq Items,
         lastKey' \in Items \cup {0}, Stages',
         \/ worker' = worker /\ ((Starting \/ stage = "down")' => Starting \/ stage = "down")
         \/ worker' = [i \in Items |-> Idle]
  PROVE  IInv'
<1>1. TypeOK' BY TypesStay, Types, IdleIs DEF IInv
<1>2. ASSUME NEW j \in Items PROVE ItemOK(j)'
  <2>1. ItemOK(j) /\ SameRecords(j) /\ SameMark BY DEF IInv, SameRecords, SameMark
  <2>2. worker'[j] \in {worker[j], Idle} /\ ((Starting \/ stage = "down")' => worker'[j] = Idle)
    BY DEF IInv, ItemOK, AtRest
  <2> QED BY <2>1, <2>2, Unmoved
<1> QED BY <1>1, <1>2 DEF IInv

\* A step of one item.
LEMMA OneMoves ==
  ASSUME IInv, NEW i \in Items, TypeOK', ItemOK(i)', Stages', SameMark,
         \A j \in Items \ {i} : SameRecords(j),
         \/ /\ \A j \in Items \ {i} : worker'[j] = worker[j]
            /\ (Starting \/ stage = "down")' => Starting \/ stage = "down"
         \/ \A j \in Items \ {i} : worker'[j] = Idle
  PROVE  IInv'
<1>1. ASSUME NEW j \in Items, j # i PROVE ItemOK(j)'
  <2>1. ItemOK(j) /\ SameRecords(j) /\ SameMark BY <1>1 DEF IInv
  <2>2. worker'[j] \in {worker[j], Idle} /\ ((Starting \/ stage = "down")' => worker'[j] = Idle)
    BY <1>1 DEF IInv, ItemOK, AtRest
  <2> QED BY <2>1, <2>2, Unmoved
<1> QED BY <1>1 DEF IInv

LEMMA QuietControl ==
  ASSUME IInv, \/ Imported \/ Inspect \/ RecoveredAll \/ StartupFails \/ Stop \/ PolicyChange
               \/ IndexBreaks \/ DispatchFails \/ \E b \in BOOLEAN : Drained(b)
               \/ \E i \in Items : DirectStarts(Key[i]) \/ DirectEnds(Key[i])
  PROVE  IInv'
<1> USE DEF disk, records, scheduler, execution, Quiet, Start, Starting, Stages
<1>t. TypeOK /\ Stages BY DEF IInv
<1>u. /\ index \in [Dirs -> Int] /\ todo \subseteq Items /\ reserved \subseteq Items
      /\ lastKey \in Items \cup {0} /\ CountsOf(files) \in [Dirs -> Int]
  BY <1>t, Types, CountsAreNumbers
<1>1. CASE Imported BY <1>1, <1>t, <1>u, ControlKeeps DEF Imported, AllDone
<1>2. CASE Inspect BY <1>2, <1>t, <1>u, ControlKeeps DEF Inspect, Degrade
<1>3. CASE RecoveredAll BY <1>3, <1>t, <1>u, ControlKeeps DEF RecoveredAll, AllDone
<1>4. CASE StartupFails BY <1>4, <1>t, <1>u, ControlKeeps DEF StartupFails, Degrade
<1>5. CASE Stop BY <1>5, <1>t, <1>u, ControlKeeps DEF Stop
<1>6. CASE PolicyChange BY <1>6, <1>t, <1>u, ControlKeeps DEF PolicyChange
<1>7. CASE IndexBreaks
  <2>1. index' \in [Dirs -> Int] BY <1>7 DEF IndexBreaks, Unreadable, Dirs
  <2> QED BY <1>7, <1>t, <1>u, <2>1, ControlKeeps DEF IndexBreaks
<1>8. CASE DispatchFails
  <2>1. index' \in [Dirs -> Int] BY <1>8, <1>u DEF DispatchFails
  <2>2. stage = "run" /\ stage' \in {"run", "draining"}
    BY <1>8 DEF DispatchFails, Dispatching, FailedDispatch
  <2> QED BY <1>8, <1>t, <1>u, <2>1, <2>2, ControlKeeps DEF DispatchFails, FailedDispatch
<1>9. CASE \E b \in BOOLEAN : Drained(b) BY <1>9, <1>t, <1>u, ControlKeeps DEF Drained
<1>10. CASE \E i \in Items : DirectStarts(Key[i]) \/ DirectEnds(Key[i])
  BY <1>10, <1>t, <1>u, ControlKeeps DEF DirectStarts, DirectEnds
<1> QED BY <1>1, <1>2, <1>3, <1>4, <1>5, <1>6, <1>7, <1>8, <1>9, <1>10

LEMMA ProcessEnds ==
  ASSUME IInv, Crash \/ Exit
  PROVE  IInv'
<1>1. UNCHANGED <<files, line, marks, index, op, writes>> /\ NoProcess
  BY DEF Crash, Exit, disk, records
<1>2. TypeOK /\ index \in [Dirs -> Int] BY Types DEF IInv
<1> QED BY <1>1, <1>2, ControlKeeps DEF NoProcess, Start, Stages

\* A record at most becomes unknown, and a line is archived.
LEMMA Faded ==
  ASSUME IInv, UNCHANGED <<files, writes, worker, reserved, lastKey>>,
         line' \in [Items -> Lines], op' \in [Items -> OpStatuses],
         marks' \subseteq {"v2", "v3"}, index' \in [Dirs -> Int], todo' \subseteq Items,
         \A j \in Items : /\ line'[j] \in {line[j], "none"} /\ op'[j] \in {op[j], "unknown"}
                          /\ "v2" \in marks' => "v2" \in marks \/ line'[j] = "none",
         "v2" \in marks => "v2" \in marks', Stages', Starting \/ stage = "down"
  PROVE  IInv'
<1>1. TypeOK' BY TypesStay, Types DEF IInv
<1>2. ASSUME NEW j \in Items PROVE ItemOK(j)'
  <2>1. /\ ItemOK(j) /\ worker[j] = Idle /\ worker'[j] = Idle
        /\ files'[j] = files[j] /\ writes'[j] = writes[j]
        /\ line'[j] \in {line[j], "none"} /\ op'[j] \in {op[j], "unknown"}
        /\ "v2" \in marks' => "v2" \in marks \/ line'[j] = "none"
    BY DEF IInv, ItemOK, AtRest
  <2>2. FilesTrue(j)' /\ (writes[j] <= Parts[j])' BY <2>1 DEF ItemOK, FilesTrue, Truth
  <2>3. OpTrue(j)' BY <2>1 DEF ItemOK, OpTrue, Live, Exists
  <2>4. Waits(j)' /\ LineOK(j)' BY <2>1 DEF ItemOK, Waits, LineOK, Exists, Silent
  <2>5. Migrated(j)' /\ AtRest(j)' BY <2>1 DEF ItemOK, Migrated, AtRest
  <2>6. Doing(j)' BY <2>1 DEF Doing, Idle, Before, During
  <2> QED BY <2>2, <2>3, <2>4, <2>5, <2>6 DEF ItemOK
<1> QED BY <1>1, <1>2 DEF IInv

LEMMA StartupKeeps ==
  ASSUME IInv, Boot \/ ReconcileTerminal \/ ArchiveQueue \/ ArchiveResults \/ Upgraded
  PROVE  IInv'
<1> USE DEF disk, records, scheduler, execution, Quiet, Start, Starting, Stages
<1>t. TypeOK /\ Stages /\ CountsOf(files) \in [Dirs -> Int] BY CountsAreNumbers DEF IInv
<1>u. /\ line \in [Items -> Lines] /\ op \in [Items -> OpStatuses]
      /\ marks \subseteq {"v2", "v3"} /\ index \in [Dirs -> Int] /\ todo \subseteq Items
  BY <1>t, Types
<1>1. CASE Boot
  <2>1. op' \in [Items -> OpStatuses] /\ \A j \in Items : op'[j] \in {op[j], "unknown"}
    BY <1>1, <1>u DEF Boot, OpStatuses
  <2>2. UNCHANGED <<files, writes, worker, reserved, lastKey, line, marks, index>>
        /\ todo' = Items /\ stage = "down" /\ Stages'
    BY <1>1 DEF Boot
  <2> QED BY <1>t, <1>u, <2>1, <2>2, Faded
<1>2. CASE ReconcileTerminal
  <2>1. op' \in [Items -> OpStatuses] /\ \A j \in Items : op'[j] \in {op[j], "unknown"}
    BY <1>2, <1>u DEF ReconcileTerminal, OpStatuses
  <2>2. UNCHANGED <<files, writes, worker, reserved, lastKey, line, marks>>
        /\ index' = CountsOf(files) /\ todo' = {} /\ Starting /\ Stages'
    BY <1>2, <1>t DEF ReconcileTerminal
  <2> QED BY <1>t, <1>u, <2>1, <2>2, Faded
<1>3. CASE ArchiveQueue
  <2>1. line' \in [Items -> Lines] /\ \A j \in Items : line'[j] \in {line[j], "none"}
    BY <1>3, <1>u DEF ArchiveQueue, Lines
  <2>2. UNCHANGED <<files, writes, worker, reserved, lastKey, op, marks>>
        /\ index' = CountsOf(files) /\ todo' = {} /\ Starting /\ Stages'
    BY <1>3, <1>t DEF ArchiveQueue, AllDone
  <2> QED BY <1>t, <1>u, <2>1, <2>2, Faded
<1>4. CASE ArchiveResults
  <2>1. line' \in [Items -> Lines] /\ \A j \in Items : line'[j] = "none"
    BY <1>4, <1>u DEF ArchiveResults, Lines
  <2>2. UNCHANGED <<files, writes, worker, reserved, lastKey, op, index>>
        /\ marks' = marks \cup {"v2"} /\ todo' = Items /\ Starting /\ Stages'
    BY <1>4, <1>t DEF ArchiveResults, AllDone
  <2> QED BY <1>t, <1>u, <2>1, <2>2, Faded
<1>5. CASE Upgraded
  <2>1. UNCHANGED <<files, writes, worker, reserved, lastKey, op, line>>
        /\ index' = CountsOf(files) /\ marks' = marks \cup {"v3"} /\ todo' = Items
        /\ Starting /\ Stages'
    BY <1>5, <1>t DEF Upgraded, AllDone
  <2> QED BY <1>t, <1>u, <2>1, Faded
<1> QED BY <1>1, <1>2, <1>3, <1>4, <1>5

(* Steps that start an item anew: nobody works on it *)

\* What such a step shares.
LEMMA TakeIs ==
  ASSUME IInv, NEW i \in Items, NEW at \in {"import", "answers", "upgrade", "recover"},
         Take(at, i), UNCHANGED <<line, marks, index>>,
         files' \in [Items -> [Dirs -> FileType]], op' \in [Items -> OpStatuses],
         \A j \in Items \ {i} : op'[j] = op[j] /\ \A d \in Dirs : files'[j][d] = files[j][d],
         FilesTrue(i)', OpTrue(i)', Waits(i)', LineOK(i)'
  PROVE  IInv'
<1>1. /\ UNCHANGED <<writes, worker, stage, reserved, lastKey>> /\ todo' \subseteq Items
      /\ stage = at /\ Starting /\ TypeOK /\ Stages
  BY DEF Take, Quiet, execution, IInv, Starting, TypeOK
<1>2. TypeOK' BY <1>1, Types, TypesStay
<1>3. ItemOK(i)'
  <2>1. ItemOK(i) /\ worker[i] = Idle /\ Parts[i] = Parts[i]' BY <1>1 DEF IInv, ItemOK, AtRest
  <2>2. Migrated(i)' /\ AtRest(i)' /\ (writes[i] <= Parts[i])'
    BY <1>1, <2>1 DEF ItemOK, Migrated, AtRest
  <2>3. Doing(i)' BY <1>1, <2>1 DEF Doing, Idle, Before, During
  <2> QED BY <2>2, <2>3 DEF ItemOK
<1>4. Stages' /\ SameMark /\ (Starting \/ stage = "down") BY <1>1 DEF Stages, SameMark
<1>5. \A j \in Items \ {i} : SameRecords(j) /\ worker'[j] = worker[j] BY <1>1 DEF SameRecords
<1> QED BY <1>2, <1>3, <1>4, <1>5, OneMoves

LEMMA ImportKeeps ==
  ASSUME IInv, NEW i \in Items, Import(i) PROVE IInv'
<1>0. TypeOK BY DEF IInv
<1>1. /\ TypeOK /\ ItemOK(i) /\ worker[i] = Idle /\ Take("import", i)
      /\ UNCHANGED <<line, marks, index, writes, worker>>
  BY DEF IInv, Import, Take, Quiet, execution, ItemOK, AtRest, Starting
<1>t. files \in [Items -> [Dirs -> FileType]] /\ op \in [Items -> OpStatuses] BY <1>1, Types
<1>2. CASE line[i] \notin {"new", "processed"}
  <2>1. UNCHANGED <<files, op>> BY <1>2 DEF Import
  <2>2. FilesTrue(i)' /\ OpTrue(i)' /\ Waits(i)' /\ LineOK(i)'
    BY <1>1, <2>1 DEF ItemOK, FilesTrue, Truth, OpTrue, Live, Waits, LineOK, Exists, Silent
  <2> QED BY <1>1, <1>t, <2>1, <2>2, TakeIs
<1>3. CASE line[i] \in {"new", "processed"} /\ (line[i] = "processed" \/ ~Approved(i))
  <2>1. op' = Reconciled(i) /\ files' = Put(i, "terminal", File("terminal", "unknown"))
    BY <1>3 DEF Import
  <2>2. File("terminal", "unknown") \in FileType BY FileTypes DEF Results
  <2>3. /\ files' \in [Items -> [Dirs -> FileType]]
        /\ \A j \in Items, e \in Dirs :
             files'[j][e] = IF j = i /\ e = "terminal" THEN File("terminal", "unknown")
                            ELSE files[j][e]
    BY <1>0, <2>1, <2>2, InDirs, PutStep
  <2>4. /\ op' \in [Items -> OpStatuses]
        /\ \A j \in Items : op'[j] = IF j = i /\ op[i] \in InFlight THEN "unknown" ELSE op[j]
    BY <1>1, <2>1, ReconciledIs
  <2>5. /\ files'[i]["pending"] = files[i]["pending"]
        /\ files'[i]["running"] = files[i]["running"]
        /\ files'[i]["terminal"].state = "terminal" /\ files'[i]["terminal"].result = "unknown"
        /\ op'[i] \in {op[i], "unknown"}
    BY <2>3, <2>4 DEF Dirs, File
  <2>6. FilesTrue(i)' /\ OpTrue(i)'
    BY <1>1, <1>3, <2>5 DEF ItemOK, FilesTrue, Truth, OpTrue, Live, Exists, Dirs
  <2>7. Waits(i)' /\ LineOK(i)' BY <1>1, <1>3, <2>5 DEF ItemOK, Waits, LineOK, Exists, Silent
  <2> QED BY <1>1, <2>3, <2>4, <2>6, <2>7, TakeIs
<1>4. CASE line[i] = "new" /\ Approved(i)
  <2>1. files' = Put(i, "pending", File("pending", "none")) BY <1>4 DEF Import
  <2>2. op' = op /\ File("pending", "none") \in FileType BY <1>4, FileTypes DEF Import
  <2>3. /\ files' \in [Items -> [Dirs -> FileType]]
        /\ \A j \in Items, e \in Dirs :
             files'[j][e] = IF j = i /\ e = "pending" THEN File("pending", "none")
                            ELSE files[j][e]
    BY <1>0, <2>1, <2>2, InDirs, PutStep
  <2>5. /\ files'[i]["terminal"] = files[i]["terminal"]
        /\ files'[i]["running"] = files[i]["running"]
        /\ files'[i]["pending"].state = "pending" /\ files'[i]["pending"].result = "none"
        /\ files'[i]["pending"].v = 4
    BY <2>3 DEF Dirs, File
  <2>6. FilesTrue(i)' /\ OpTrue(i)'
    BY <1>1, <1>4, <2>2, <2>5 DEF ItemOK, FilesTrue, Truth, OpTrue, Live, Exists, Dirs
  <2>7. Waits(i)' /\ LineOK(i)' BY <1>1, <1>4, <2>5 DEF ItemOK, Waits, LineOK, Exists, Silent
  <2> QED BY <1>1, <1>t, <2>2, <2>3, <2>6, <2>7, TakeIs
<1> QED BY <1>2, <1>3, <1>4

LEMMA ImportAnswerKeeps ==
  ASSUME IInv, NEW i \in Items, ImportAnswer(i) PROVE IInv'
<1>0. TypeOK BY DEF IInv
<1>1. /\ TypeOK /\ ItemOK(i) /\ worker[i] = Idle /\ Take("answers", i)
      /\ UNCHANGED <<line, marks, index, op, writes, worker>>
  BY DEF IInv, ImportAnswer, Take, Quiet, execution, ItemOK, AtRest, Starting
<1>t. files \in [Items -> [Dirs -> FileType]] /\ op \in [Items -> OpStatuses] BY <1>1, Types
<1>2. CASE line[i] # "answered"
  <2>1. UNCHANGED files BY <1>2 DEF ImportAnswer
  <2>2. FilesTrue(i)' /\ OpTrue(i)' /\ Waits(i)' /\ LineOK(i)'
    BY <1>1, <2>1 DEF ItemOK, FilesTrue, Truth, OpTrue, Live, Waits, LineOK, Exists, Silent
  <2> QED BY <1>1, <1>t, <2>1, <2>2, TakeIs
<1>3. CASE line[i] = "answered"
  <2>1. files' = Put(i, "terminal", File("terminal", "sent")) BY <1>3 DEF ImportAnswer
  <2>2. File("terminal", "sent") \in FileType BY FileTypes DEF Results
  <2>3. /\ files' \in [Items -> [Dirs -> FileType]]
        /\ \A j \in Items, e \in Dirs :
             files'[j][e] = IF j = i /\ e = "terminal" THEN File("terminal", "sent")
                            ELSE files[j][e]
    BY <1>0, <2>1, <2>2, InDirs, PutStep
  <2>5. /\ files'[i]["pending"] = files[i]["pending"]
        /\ files'[i]["running"] = files[i]["running"]
        /\ files'[i]["terminal"].result = "sent"
        /\ ~Exists(i, "pending") /\ writes[i] = Parts[i]
    BY <1>1, <1>3, <2>3 DEF Dirs, File, ItemOK, LineOK
  <2>6. FilesTrue(i)' /\ OpTrue(i)'
    BY <1>1, <1>3, <2>5 DEF ItemOK, FilesTrue, Truth, OpTrue, Live, Exists, Dirs
  <2>7. Waits(i)' /\ LineOK(i)'
    BY <1>1, <1>3, <2>5 DEF ItemOK, Waits, LineOK, Exists, Silent, NoFile
  <2> QED BY <1>1, <1>t, <2>3, <2>6, <2>7, TakeIs
<1> QED BY <1>2, <1>3

\* What a crash inside an operation on the files of an item shares.
LEMMA TornIs ==
  ASSUME IInv, NEW i \in Items, NoProcess, UNCHANGED <<line, marks, index, writes>>,
         files' \in [Items -> [Dirs -> FileType]], op' \in [Items -> OpStatuses],
         \A j \in Items \ {i} : op'[j] = op[j] /\ \A d \in Dirs : files'[j][d] = files[j][d],
         FilesTrue(i)', OpTrue(i)', Waits(i)', LineOK(i)'
  PROVE  IInv'
<1>1. /\ worker' = [j \in Items |-> Idle] /\ stage' = "down" /\ TypeOK /\ ItemOK(i)
      /\ todo' = {} /\ reserved' = {} /\ lastKey' = 0
  BY DEF NoProcess, Start, IInv
<1>2. TypeOK'
  <2>1. todo' \subseteq Items /\ reserved' \subseteq Items /\ lastKey' \in Items \cup {0} BY <1>1
  <2> QED BY <1>1, <2>1, IdleIs, Types, TypesStay
<1>3. ItemOK(i)'
  <2>1. worker'[i] = Idle /\ Parts[i] = Parts[i]' BY <1>1
  <2>2. Migrated(i)' /\ AtRest(i)' /\ (writes[i] <= Parts[i])'
    BY <1>1, <2>1 DEF ItemOK, Migrated, AtRest
  <2>3. Doing(i)' BY <2>1 DEF Doing, Idle, Before, During
  <2> QED BY <2>2, <2>3 DEF ItemOK
<1>4. Stages' /\ SameMark BY <1>1 DEF Stages, SameMark
<1>5. \A j \in Items \ {i} : SameRecords(j) /\ worker'[j] = Idle BY <1>1 DEF SameRecords
<1> QED BY <1>2, <1>3, <1>4, <1>5, OneMoves

\* What was claimed is recovered: its file says what the record says.
LEMMA RecoverIs ==
  ASSUME IInv, NEW i \in Items, Exists(i, "running"), op' = Reconciled(i),
         UNCHANGED <<line, writes>>, worker'[i] = Idle,
         \/ files' = Rename(i, "running", "terminal", RecoveredFile(i))
         \/ files' = Put(i, "running", RecoveredFile(i))
  PROVE  /\ files' \in [Items -> [Dirs -> FileType]] /\ op' \in [Items -> OpStatuses]
         /\ \A j \in Items \ {i} : op'[j] = op[j] /\ \A d \in Dirs : files'[j][d] = files[j][d]
         /\ FilesTrue(i)' /\ OpTrue(i)' /\ Waits(i)' /\ LineOK(i)'
<1>0. TypeOK BY DEF IInv
<1>1. ItemOK(i) /\ Live(i) BY DEF IInv, Live
<1> DEFINE f == RecoveredFile(i)
<1>2. f \in FileType /\ f.state = "terminal" /\ Truth(i, f.result) BY <1>0, <1>1, RecoveredIs
<1> HIDE DEF f
<1>3. op' \in [Items -> OpStatuses]
      /\ \A j \in Items : op'[j] = IF j = i /\ op[i] \in InFlight THEN "unknown" ELSE op[j]
  BY <1>0, ReconciledIs
<1>4. /\ files' \in [Items -> [Dirs -> FileType]]
      /\ \A j \in Items \ {i}, e \in Dirs : files'[j][e] = files[j][e]
      /\ files'[i]["pending"] = files[i]["pending"]
      /\ \A e \in Dirs : files'[i][e] \in {files[i][e], NoFile, f}
  <2>1. CASE files' = Rename(i, "running", "terminal", f) BY <1>0, <1>2, <2>1, InDirs, RenameStep
  <2>2. CASE files' = Put(i, "running", f) BY <1>0, <1>2, <2>2, InDirs, PutStep
  <2> QED BY <2>1, <2>2 DEF f
<1>5. files[i]["pending"].state # "pending" /\ line[i] \notin {"submit", "new"}
  BY <1>1, InDirs DEF ItemOK, Waits, LineOK
<1>6. FilesTrue(i)' BY <1>1, <1>2, <1>4, InDirs DEF ItemOK, FilesTrue, Truth, NoFile
<1>7. OpTrue(i)' BY <1>1, <1>3 DEF ItemOK, OpTrue
<1>8. Waits(i)' /\ LineOK(i)' BY <1>1, <1>4, <1>5 DEF ItemOK, Waits, LineOK, Exists
<1> QED BY <1>3, <1>4, <1>6, <1>7, <1>8

LEMMA RecoverKeeps ==
  ASSUME IInv, NEW i \in Items, Recover(i) PROVE IInv'
<1>1. /\ TypeOK /\ ItemOK(i) /\ worker[i] = Idle /\ Take("recover", i)
      /\ UNCHANGED <<line, marks, index, writes, worker>>
  BY DEF IInv, Recover, Take, Quiet, execution, ItemOK, AtRest, Starting
<1>2. CASE Exists(i, "running")
  <2>1. /\ files' \in [Items -> [Dirs -> FileType]] /\ op' \in [Items -> OpStatuses]
        /\ \A j \in Items \ {i} : op'[j] = op[j] /\ \A d \in Dirs : files'[j][d] = files[j][d]
        /\ FilesTrue(i)' /\ OpTrue(i)' /\ Waits(i)' /\ LineOK(i)'
    BY <1>1, <1>2, RecoverIs DEF Recover
  <2> QED BY <1>1, <2>1, TakeIs
<1>3. CASE ~Exists(i, "running")
  <2>1. UNCHANGED <<files, op>> BY <1>3 DEF Recover
  <2>2. FilesTrue(i)' /\ OpTrue(i)' /\ Waits(i)' /\ LineOK(i)'
    BY <1>1, <2>1 DEF ItemOK, FilesTrue, Truth, OpTrue, Live, Waits, LineOK, Exists, Silent
  <2>3. files \in [Items -> [Dirs -> FileType]] /\ op \in [Items -> OpStatuses] BY <1>1, Types
  <2> QED BY <1>1, <2>1, <2>2, <2>3, TakeIs
<1> QED BY <1>2, <1>3

LEMMA RecoverTornKeeps ==
  ASSUME IInv, NEW i \in Items, RecoverTorn(i) PROVE IInv'
<1>1. NoProcess /\ UNCHANGED <<line, marks, index, writes>> /\ worker'[i] = Idle
  BY DEF RecoverTorn, Torn, NoProcess
<1>2. /\ files' \in [Items -> [Dirs -> FileType]] /\ op' \in [Items -> OpStatuses]
      /\ \A j \in Items \ {i} : op'[j] = op[j] /\ \A d \in Dirs : files'[j][d] = files[j][d]
      /\ FilesTrue(i)' /\ OpTrue(i)' /\ Waits(i)' /\ LineOK(i)'
  BY <1>1, RecoverIs DEF RecoverTorn
<1> QED BY <1>1, <1>2, TornIs

\* A version 3 item that waits is denied: it ends as unknown.
LEMMA DenyIs ==
  ASSUME IInv, NEW i \in Items, Denied(i), op' = Reconciled(i),
         UNCHANGED <<line, writes>>, worker'[i] = Idle,
         \/ files' = Rename(i, "pending", "terminal", File("terminal", "unknown"))
         \/ files' = Put(i, "pending", File("terminal", "unknown"))
  PROVE  /\ files' \in [Items -> [Dirs -> FileType]] /\ op' \in [Items -> OpStatuses]
         /\ \A j \in Items \ {i} : op'[j] = op[j] /\ \A d \in Dirs : files'[j][d] = files[j][d]
         /\ FilesTrue(i)' /\ OpTrue(i)' /\ Waits(i)' /\ LineOK(i)'
<1>0. TypeOK BY DEF IInv
<1>1. ItemOK(i) /\ Exists(i, "pending") /\ Live(i) BY DEF IInv, Denied, Old, Exists, NoFile, Live
<1> DEFINE f == File("terminal", "unknown")
<1>2. f \in FileType /\ f.state = "terminal" /\ f.result = "unknown" /\ f.v = 4
  BY DEF File, FileType, Dirs, Results
<1> HIDE DEF f
<1>3. op' \in [Items -> OpStatuses]
      /\ \A j \in Items : op'[j] = IF j = i /\ op[i] \in InFlight THEN "unknown" ELSE op[j]
  BY <1>0, ReconciledIs
<1>4. /\ files' \in [Items -> [Dirs -> FileType]]
      /\ \A j \in Items \ {i}, e \in Dirs : files'[j][e] = files[j][e]
      /\ files'[i]["running"] = files[i]["running"]
      /\ files'[i]["pending"] \in {NoFile, f}
      /\ files'[i]["terminal"] \in {files[i]["terminal"], f}
  <2>1. CASE files' = Rename(i, "pending", "terminal", f) BY <1>0, <1>2, <2>1, InDirs, RenameStep
  <2>2. CASE files' = Put(i, "pending", f) BY <1>0, <1>2, <2>2, InDirs, PutStep
  <2> QED BY <2>1, <2>2 DEF f
<1>5. line[i] \notin {"submit", "answered"} BY <1>1, InDirs DEF ItemOK, LineOK
<1>6. FilesTrue(i)' BY <1>1, <1>2, <1>4 DEF ItemOK, FilesTrue, Truth, NoFile, Dirs
<1>7. OpTrue(i)' BY <1>1, <1>3 DEF ItemOK, OpTrue
<1>8. Waits(i)' /\ LineOK(i)'
  <2>1. files'[i]["pending"].state # "pending" BY <1>2, <1>4 DEF NoFile
  <2>2. Silent(i) => Silent(i)' BY <1>2, <1>4 DEF Silent
  <2> QED BY <1>1, <1>4, <1>5, <2>1, <2>2 DEF ItemOK, Waits, LineOK, Exists
<1> QED BY <1>3, <1>4, <1>6, <1>7, <1>8

LEMMA UpgradeTornKeeps ==
  ASSUME IInv, NEW i \in Items, UpgradeTorn(i) PROVE IInv'
<1>1. NoProcess /\ UNCHANGED <<line, marks, index, writes>> /\ worker'[i] = Idle
  BY DEF UpgradeTorn, Torn, NoProcess
<1>2. /\ files' \in [Items -> [Dirs -> FileType]] /\ op' \in [Items -> OpStatuses]
      /\ \A j \in Items \ {i} : op'[j] = op[j] /\ \A d \in Dirs : files'[j][d] = files[j][d]
      /\ FilesTrue(i)' /\ OpTrue(i)' /\ Waits(i)' /\ LineOK(i)'
  <2>1. CASE Denied(i) BY <1>1, <2>1, DenyIs DEF UpgradeTorn
  <2>2. CASE ~Denied(i)
    <3>1. Exists(i, "running") BY <2>2 DEF UpgradeTorn, Old, Exists, NoFile
    <3> QED BY <1>1, <2>2, <3>1, RecoverIs DEF UpgradeTorn
  <2> QED BY <2>1, <2>2
<1> QED BY <1>1, <1>2, TornIs

LEMMA UpgradeKeeps ==
  ASSUME IInv, NEW i \in Items, Upgrade(i) PROVE IInv'
<1>0. TypeOK BY DEF IInv
<1>1. /\ ItemOK(i) /\ worker[i] = Idle /\ Take("upgrade", i)
      /\ UNCHANGED <<line, marks, index, writes, worker>> /\ worker'[i] = Idle
  BY DEF IInv, Upgrade, Take, Quiet, execution, ItemOK, AtRest, Starting
<1>t. files \in [Items -> [Dirs -> FileType]] /\ op \in [Items -> OpStatuses] BY <1>0, Types
<1>2. Old(i, "pending") => ~Old(i, "running") /\ files[i]["pending"].state = "pending"
  BY <1>1 DEF Old, ItemOK, FilesTrue, Waits, Exists, NoFile
<1> HIDE DEF Old
<1>3. CASE Denied(i)
  <2>1. Old(i, "pending") /\ op' = Reconciled(i)
        /\ files' = Rename(i, "pending", "terminal", File("terminal", "unknown"))
    BY <1>2, <1>3 DEF Upgrade, Denied
  <2>2. /\ files' \in [Items -> [Dirs -> FileType]] /\ op' \in [Items -> OpStatuses]
        /\ \A j \in Items \ {i} : op'[j] = op[j] /\ \A d \in Dirs : files'[j][d] = files[j][d]
        /\ FilesTrue(i)' /\ OpTrue(i)' /\ Waits(i)' /\ LineOK(i)'
    BY <1>1, <1>3, <2>1, DenyIs
  <2> QED BY <1>1, <2>2, TakeIs
<1>4. CASE Old(i, "pending") /\ ~Denied(i)
  <2>1. files' = Put(i, "pending", File("pending", "none")) BY <1>2, <1>4 DEF Upgrade
  <2>2. op' = op /\ File("pending", "none") \in FileType BY <1>2, <1>4, FileTypes DEF Upgrade
  <2>3. /\ files' \in [Items -> [Dirs -> FileType]]
        /\ \A j \in Items, e \in Dirs :
             files'[j][e] = IF j = i /\ e = "pending" THEN File("pending", "none")
                            ELSE files[j][e]
    BY <1>0, <2>1, <2>2, InDirs, PutStep
  <2>5. /\ files'[i]["terminal"] = files[i]["terminal"]
        /\ files'[i]["running"] = files[i]["running"]
        /\ files'[i]["pending"].state = "pending" /\ files'[i]["pending"].result = "none"
        /\ files'[i]["pending"].v = 4 /\ Exists(i, "pending")
    BY <1>4, <2>3 DEF Dirs, File, Old, Exists, NoFile
  <2>6. FilesTrue(i)' /\ OpTrue(i)'
    BY <1>1, <1>4, <2>2, <2>5 DEF ItemOK, FilesTrue, Truth, OpTrue, Live, Dirs
  <2>7. Waits(i)' /\ LineOK(i)'
    BY <1>1, <1>2, <1>4, <2>5, InDirs DEF ItemOK, Waits, LineOK, Exists, Silent
  <2> QED BY <1>1, <1>t, <2>2, <2>3, <2>6, <2>7, TakeIs
<1>5. CASE ~Old(i, "pending") /\ Old(i, "running")
  <2>1. Exists(i, "running") /\ op' = Reconciled(i)
        /\ files' = Rename(i, "running", "terminal", RecoveredFile(i))
    <3>1. ~Denied(i) BY <1>5 DEF Denied
    <3>2. Exists(i, "running") BY <1>5 DEF Old, Exists, NoFile
    <3> QED BY <1>5, <3>1, <3>2 DEF Upgrade
  <2>2. /\ files' \in [Items -> [Dirs -> FileType]] /\ op' \in [Items -> OpStatuses]
        /\ \A j \in Items \ {i} : op'[j] = op[j] /\ \A d \in Dirs : files'[j][d] = files[j][d]
        /\ FilesTrue(i)' /\ OpTrue(i)' /\ Waits(i)' /\ LineOK(i)'
    BY <1>1, <2>1, RecoverIs
  <2> QED BY <1>1, <2>2, TakeIs
<1>6. CASE ~Old(i, "pending") /\ ~Old(i, "running")
  <2> DEFINE f == [files[i]["terminal"] EXCEPT !.v = IF @ = 3 THEN 4 ELSE @]
  <2>1. op' = op /\ files' = Put(i, "terminal", f) BY <1>6 DEF Upgrade, Denied, Put
  <2>2. /\ f \in FileType /\ f.state = files[i]["terminal"].state
        /\ f.result = files[i]["terminal"].result /\ (f.v = 0 <=> files[i]["terminal"].v = 0)
    <3>1. files[i]["terminal"] \in FileType BY <1>t, InDirs
    <3>2. CASE files[i]["terminal"].v = 3 BY <3>1, <3>2 DEF FileType
    <3>3. CASE files[i]["terminal"].v # 3 BY <3>1, <3>3 DEF FileType
    <3> QED BY <3>2, <3>3
  <2> HIDE DEF f
  <2>3. /\ files' \in [Items -> [Dirs -> FileType]]
        /\ \A j \in Items, e \in Dirs :
             files'[j][e] = IF j = i /\ e = "terminal" THEN f ELSE files[j][e]
    BY <1>0, <2>1, <2>2, InDirs, PutStep
  <2>4. f = NoFile <=> files[i]["terminal"] = NoFile
    <3>1. files[i]["terminal"] \in FileType BY <1>t, InDirs
    <3> QED BY <2>2, <3>1 DEF f, FileType, NoFile
  <2>5. /\ files'[i]["terminal"].result = files[i]["terminal"].result
        /\ files'[i]["pending"] = files[i]["pending"]
        /\ files'[i]["running"] = files[i]["running"]
        /\ Exists(i, "terminal")' <=> Exists(i, "terminal")
    BY <2>2, <2>3, <2>4 DEF Dirs, Exists
  <2>6. FilesTrue(i)' /\ OpTrue(i)'
    BY <1>1, <2>1, <2>5 DEF ItemOK, FilesTrue, Truth, OpTrue, Live, Exists, Dirs
  <2>7. Waits(i)' /\ LineOK(i)' BY <1>1, <2>5 DEF ItemOK, Waits, LineOK, Exists, Silent, Dirs
  <2> QED BY <1>1, <1>t, <2>1, <2>3, <2>6, <2>7, TakeIs
<1> QED BY <1>3, <1>4, <1>5, <1>6

(* Steps of the scheduler and of a worker *)

LEMMA SubmitKeeps ==
  ASSUME IInv, NEW i \in Items, Submit(i) PROVE IInv'
<1>0. TypeOK BY DEF IInv
<1>1. /\ ItemOK(i) /\ line[i] = "submit" /\ line' = [line EXCEPT ![i] = "none"]
      /\ files' = Put(i, "pending", File("pending", "none"))
      /\ index' = Moved("none", "pending") /\ \A d \in Dirs : ~Exists(i, d)
      /\ UNCHANGED <<marks, op, writes, worker, stage, todo, reserved, lastKey>>
  BY DEF IInv, Submit, records, scheduler, execution
<1>2. File("pending", "none") \in FileType BY FileTypes
<1>3. /\ files' \in [Items -> [Dirs -> FileType]]
      /\ \A j \in Items, e \in Dirs :
           files'[j][e] = IF j = i /\ e = "pending" THEN File("pending", "none")
                          ELSE files[j][e]
  BY <1>0, <1>1, <1>2, InDirs, PutStep
<1>4. TypeOK'
  <2>1. line' \in [Items -> Lines] /\ index' \in [Dirs -> Int]
    BY <1>0, <1>1, Types, MovedAreNumbers DEF Lines
  <2> QED BY <1>0, <1>1, <1>3, <2>1, Types, TypesStay
<1>5. /\ files'[i]["pending"].state = "pending" /\ files'[i]["pending"].result = "none"
      /\ files'[i]["pending"].v = 4 /\ files'[i]["running"] = NoFile
      /\ files'[i]["terminal"] = NoFile /\ line'[i] = "none" /\ worker'[i] = Idle
      /\ writes'[i] = 0 /\ op'[i] = op[i]
  <2>1. files'[i]["pending"] = File("pending", "none")
        /\ files'[i]["running"] = files[i]["running"] /\ files[i]["running"] = NoFile
        /\ files'[i]["terminal"] = files[i]["terminal"] /\ files[i]["terminal"] = NoFile
    BY <1>1, <1>3, InDirs DEF Exists
  <2>2. line'[i] = "none" BY <1>0, <1>1, Types
  <2>3. worker[i] = Idle /\ writes[i] = 0 BY <1>1 DEF ItemOK, LineOK
  <2> QED BY <1>1, <2>1, <2>2, <2>3 DEF File
<1>6. ItemOK(i)'
  <2>1. FilesTrue(i)' /\ (writes[i] <= Parts[i])'
    BY <1>1, <1>5 DEF ItemOK, FilesTrue, Truth, NoFile, Dirs
  <2>2. OpTrue(i)' BY <1>1, <1>5 DEF ItemOK, OpTrue, Live
  <2>3. Waits(i)' /\ LineOK(i)' BY <1>5 DEF Waits, LineOK, Exists, Silent, NoFile
  <2>4. Migrated(i)' /\ AtRest(i)' /\ Doing(i)'
    BY <1>5 DEF Migrated, AtRest, Doing, Idle, Before, During
  <2> QED BY <2>1, <2>2, <2>3, <2>4 DEF ItemOK
<1>7. \A j \in Items \ {i} : SameRecords(j) BY <1>0, <1>1, <1>3, Types DEF SameRecords
<1> QED BY <1>1, <1>4, <1>6, <1>7, OneMoves DEF IInv, Stages, SameMark, Starting

LEMMA CancelKeeps ==
  ASSUME IInv, NEW i \in Items, Cancel(i) PROVE IInv'
<1>1. /\ TypeOK /\ ItemOK(i) /\ op[i] = "queued" /\ op' = [op EXCEPT ![i] = "cancelled"]
      /\ UNCHANGED <<files, line, marks, index, writes, worker, stage, todo, reserved, lastKey>>
  BY DEF IInv, Cancel, disk, scheduler, execution
<1>2. op' \in [Items -> OpStatuses] /\ op'[i] = "cancelled"
      /\ \A j \in Items \ {i} : op'[j] = op[j]
  BY <1>1, Types DEF OpStatuses
<1>3. TypeOK' BY <1>1, <1>2, Types, TypesStay
<1>4. ItemOK(i)'
  <2>1. FilesTrue(i)' /\ Waits(i)' /\ LineOK(i)' /\ Migrated(i)' /\ AtRest(i)'
        /\ (writes[i] <= Parts[i])'
    BY <1>1 DEF ItemOK, FilesTrue, Truth, Waits, LineOK, Exists, Silent, Migrated, AtRest,
                Starting
  <2>2. OpTrue(i)' BY <1>1, <1>2 DEF ItemOK, OpTrue, Live, Exists
  <2>3. Doing(i)' BY <1>1 DEF ItemOK, Doing, Silent, Truth
  <2> QED BY <2>1, <2>2, <2>3 DEF ItemOK
<1>5. \A j \in Items \ {i} : SameRecords(j) BY <1>1, <1>2 DEF SameRecords
<1> QED BY <1>1, <1>3, <1>4, <1>5, OneMoves DEF IInv, Stages, SameMark, Starting

LEMMA DispatchKeeps ==
  ASSUME IInv, Dispatch \/ DispatchTorn PROVE IInv'
<1>d. Dispatching BY DEF Dispatch, DispatchTorn
<1>1. PICK i \in Items : i = Candidate /\ Pending(i) BY <1>d, CandidateIs
<1>0. TypeOK /\ i \in Items /\ Pending(i) /\ stage = "run" /\ "v2" \in marks
  BY <1>d, <1>1 DEF IInv, Dispatching, Stages
<1>a. ItemOK(i) BY <1>0 DEF IInv
<1>b. CASE Dispatch
  <2>1. /\ files' = Rename(i, "pending", "running", File("running", "none"))
        /\ index' = Moved("pending", "running") /\ reserved' = reserved \cup {i}
        /\ lastKey' = i /\ worker' = [worker EXCEPT ![i].pc = "admit"]
        /\ UNCHANGED <<line, marks, op, writes, stage, todo>>
    BY <1>b, <1>1 DEF Dispatch, records
  <2>2. File("running", "none") \in FileType BY FileTypes
  <2>3. /\ files' \in [Items -> [Dirs -> FileType]]
        /\ \A j \in Items, e \in Dirs :
             files'[j][e] = IF j = i /\ e = "running" THEN File("running", "none")
                            ELSE IF j = i /\ e = "pending" THEN NoFile ELSE files[j][e]
    BY <1>0, <2>1, <2>2, InDirs, RenameStep
  <2>4. /\ worker[i] = Idle /\ writes[i] = 0 /\ Silent(i) /\ line[i] = "none"
    <3>1. files[i]["pending"].state = "pending" /\ Exists(i, "pending")
      BY <1>0 DEF Pending, File, Exists, NoFile
    <3>2. line[i] \in Lines BY <1>0, Types
    <3> QED BY <1>0, <1>a, <3>1, <3>2, InDirs DEF ItemOK, Waits, LineOK, Migrated, Lines
  <2>5. /\ worker' \in [Items -> WorkerType] /\ worker'[i].pc = "admit" /\ worker'[i].sent = 0
        /\ \A j \in Items \ {i} : worker'[j] = worker[j]
    <3>1. Go(i, "admit") BY <2>1 DEF Go
    <3>2. worker[i].sent = 0 BY <2>4 DEF Idle
    <3> QED BY <1>0, <3>1, <3>2, WorkerIs DEF During, Before
  <2>6. /\ files'[i]["running"].result = "none" /\ files'[i]["pending"] = NoFile
        /\ files'[i]["terminal"] = files[i]["terminal"]
    BY <1>0, <2>3, InDirs DEF File
  <2>7. TypeOK'
    <3>1. index' \in [Dirs -> Int] BY <1>0, <2>1, MovedAreNumbers
    <3>2. reserved' \subseteq Items /\ lastKey' \in Items \cup {0} BY <1>0, <2>1, Types
    <3> QED BY <1>0, <2>1, <2>3, <2>5, <3>1, <3>2, Types, TypesStay
  <2>8. ItemOK(i)'
    <3>1. FilesTrue(i)' /\ (writes[i] <= Parts[i])'
      BY <1>a, <2>1, <2>6 DEF ItemOK, FilesTrue, Truth, NoFile, Dirs
    <3>2. OpTrue(i)'
      <4>1. Live(i) BY <1>0 DEF Live, Pending, Exists, File, NoFile
      <4> QED BY <1>a, <2>1, <4>1 DEF ItemOK, OpTrue
    <3>3. Waits(i)' /\ LineOK(i)' BY <2>1, <2>4, <2>6 DEF Waits, LineOK, NoFile
    <3>4. Migrated(i)' /\ AtRest(i)' BY <1>0, <2>1, <2>4 DEF Migrated, AtRest, Starting
    <3>5. Doing(i)' BY <2>1, <2>4, <2>5, <2>6 DEF Doing, During, Before, Silent
    <3> QED BY <3>1, <3>2, <3>3, <3>4, <3>5 DEF ItemOK
  <2>9. \A j \in Items \ {i} : SameRecords(j) BY <2>1, <2>3 DEF SameRecords
  <2> QED BY <1>0, <2>1, <2>5, <2>7, <2>8, <2>9, OneMoves DEF IInv, Stages, SameMark, Starting
<1>c. CASE DispatchTorn
  <2>1. /\ files' = Rename(i, "pending", "running", File("pending", "none")) /\ NoProcess
        /\ UNCHANGED <<line, marks, index, op, writes>>
    BY <1>c, <1>1 DEF DispatchTorn, Torn, records
  <2>2. File("pending", "none") \in FileType BY FileTypes
  <2>3. /\ files' \in [Items -> [Dirs -> FileType]]
        /\ \A j \in Items, e \in Dirs :
             files'[j][e] = IF j = i /\ e = "running" THEN File("pending", "none")
                            ELSE IF j = i /\ e = "pending" THEN NoFile ELSE files[j][e]
    BY <1>0, <2>1, <2>2, InDirs, RenameStep
  <2>4. Live(i) /\ line[i] \in Lines /\ line[i] \notin {"submit", "answered", "new"}
    <3>1. Exists(i, "pending") BY <1>0 DEF Pending, File, Exists, NoFile
    <3>2. line[i] \in Lines BY <1>0, Types
    <3> QED BY <1>0, <1>a, <3>1, <3>2, InDirs DEF ItemOK, LineOK, Migrated, Live
  <2>5. /\ files'[i]["running"].result = "none" /\ files'[i]["pending"] = NoFile
        /\ files'[i]["terminal"] = files[i]["terminal"]
    BY <1>0, <2>3, InDirs DEF File
  <2>6. FilesTrue(i)' /\ Waits(i)' /\ LineOK(i)'
    BY <1>a, <2>1, <2>4, <2>5 DEF ItemOK, FilesTrue, Truth, NoFile, Dirs, Waits, LineOK
  <2>7. OpTrue(i)' BY <1>a, <2>1, <2>4 DEF ItemOK, OpTrue
  <2>8. op' \in [Items -> OpStatuses] BY <1>0, <2>1, Types
  <2> QED BY <1>0, <2>1, <2>3, <2>6, <2>7, <2>8, TornIs
<1> QED BY <1>b, <1>c

\* What a step of a worker shares that leaves the files alone.
LEMMA WorkerStep ==
  ASSUME IInv, NEW i \in Items, NEW pc \in During \cup {"idle", "doubt", "done", "broken"},
         worker[i].pc # "idle", UNCHANGED <<files, line, marks, todo, lastKey>>,
         index' \in [Dirs -> Int], reserved' \subseteq Items,
         worker' \in [Items -> WorkerType], worker'[i].pc = pc,
         \A j \in Items \ {i} : worker'[j] = worker[j],
         op' \in [Items -> OpStatuses], writes' \in [Items -> Nat],
         \A j \in Items \ {i} : op'[j] = op[j] /\ writes'[j] = writes[j],
         stage' \in {stage, "draining"}, stage \in {"run", "draining"} \/ stage' = stage,
         OpTrue(i)', Doing(i)', writes'[i] <= Parts[i],
         \A d \in Dirs : Truth(i, files[i][d].result) => Truth(i, files[i][d].result)'
  PROVE  IInv'
<1>1. TypeOK /\ ItemOK(i) /\ worker[i] # Idle BY DEF IInv, Idle
<1>2. TypeOK' BY <1>1, Types, TypesStay
<1>3. ItemOK(i)'
  <2>1. FilesTrue(i)' BY <1>1 DEF ItemOK, FilesTrue
  <2>2. files[i]["pending"].state # "pending" /\ line[i] = "none" /\ "v2" \in marks
    <3>1. line[i] \in Lines BY <1>1, Types
    <3> QED BY <1>1, <3>1 DEF ItemOK, Waits, LineOK, Migrated, Lines
  <2>3. Waits(i)' /\ LineOK(i)' /\ Migrated(i)' BY <2>2 DEF Waits, LineOK, Migrated
  <2>4. AtRest(i)' BY <1>1 DEF ItemOK, AtRest, Starting
  <2> QED BY <2>1, <2>3, <2>4 DEF ItemOK
<1>4. \A j \in Items \ {i} : SameRecords(j) BY DEF SameRecords
<1>5. Stages' /\ SameMark /\ ((Starting \/ stage = "down")' => Starting \/ stage = "down")
  BY DEF IInv, Stages, SameMark, Starting
<1> QED BY <1>2, <1>3, <1>4, <1>5, OneMoves

\* A step that changes nothing but the worker of an item.
LEMMA OnlyWorkerKeeps ==
  ASSUME IInv, NEW i \in Items, NEW pc \in During \cup {"idle", "doubt", "done", "broken"},
         worker[i].pc # "idle", UNCHANGED <<files, line, marks, index, op, writes, todo, lastKey>>,
         reserved' \subseteq Items,
         worker' \in [Items -> WorkerType], worker'[i].pc = pc,
         \A j \in Items \ {i} : worker'[j] = worker[j],
         stage' \in {stage, "draining"}, stage \in {"run", "draining"} \/ stage' = stage,
         Doing(i)'
  PROVE  IInv'
<1>1. TypeOK /\ ItemOK(i) /\ Live(i) BY DEF IInv, Live, Idle
<1>2. OpTrue(i)' /\ writes'[i] <= Parts[i] BY <1>1 DEF ItemOK, OpTrue
<1>3. \A d \in Dirs : Truth(i, files[i][d].result) => Truth(i, files[i][d].result)' BY DEF Truth
<1> QED BY <1>1, <1>2, <1>3, Types, WorkerStep

LEMMA WorkerKeeps ==
  ASSUME IInv, NEW i \in Items,
         \/ Release(i) \/ Admit(i) \/ Look(i) \/ ClaimFails(i) \/ SetPhase(i) \/ Check(i)
         \/ SendRefused(i) \/ Panic(i)
  PROVE  IInv'
<1> USE DEF disk, records, scheduler, execution, OnlyWorker, At
<1>0. TypeOK BY DEF IInv
<1>1. ItemOK(i) /\ Doing(i) /\ reserved \subseteq Items BY <1>0, Types DEF IInv, ItemOK
<1>r. "failed" \in Results /\ "unknown" \in Results /\ "sent" \in Results BY DEF Results
<1>p. \A pc \in {"admit", "look", "claim", "phase", "check", "send", "settle", "verify", "finish",
                 "idle", "doubt", "done", "broken"} :
        pc \in During \cup {"idle", "doubt", "done", "broken"}
  BY DEF During, Before
<1>2. CASE Release(i)
  <2>1. worker' \in [Items -> WorkerType] /\ worker'[i] = Idle
        /\ \A j \in Items \ {i} : worker'[j] = worker[j]
    BY <1>0, <1>2, Types, IdleIs DEF Release
  <2>2. worker'[i].pc = "idle" /\ Doing(i)' BY <2>1 DEF Idle, Doing, During, Before
  <2> QED BY <1>1, <1>2, <1>p, <2>1, <2>2, OnlyWorkerKeeps DEF Release
<1>3. CASE Admit(i)
  <2>1. PICK pc \in {"doubt", "look"} : Go(i, pc) BY <1>3 DEF Admit
  <2>2. /\ worker' \in [Items -> WorkerType] /\ worker'[i].pc = pc
        /\ worker'[i].sent = worker[i].sent /\ worker'[i].result = worker[i].result
        /\ \A j \in Items \ {i} : worker'[j] = worker[j]
    BY <1>0, <1>p, <2>1, WorkerIs
  <2>3. Doing(i)' BY <1>1, <1>3, <2>2 DEF Admit, Doing, During, Before, Silent, Truth
  <2> QED BY <1>1, <1>3, <1>p, <2>2, <2>3, OnlyWorkerKeeps DEF Admit
<1>4. CASE Look(i) \/ ClaimFails(i) \/ SetPhase(i)
  <2>1. \/ /\ At(i, "look") /\ Go(i, "claim")
        \/ /\ At(i, "phase") /\ Go(i, "check")
        \/ /\ worker[i].pc \in {"look", "claim", "phase"}
           /\ \E result \in {"failed", "unknown"} : Conclude(i, "finish", result)
    BY <1>4 DEF Look, ClaimFails, SetPhase
  <2>2. UNCHANGED <<files, line, marks, index, op, writes, todo, lastKey, reserved, stage>>
        /\ worker[i].pc # "idle"
    BY <1>4 DEF Look, ClaimFails, SetPhase
  <2>3. PICK pc \in {"claim", "check", "finish"} :
          /\ worker' \in [Items -> WorkerType] /\ worker'[i].pc = pc
          /\ worker'[i].sent = worker[i].sent
          /\ pc = "finish" => worker'[i].result \in {"failed", "unknown"}
          /\ \A j \in Items \ {i} : worker'[j] = worker[j]
    BY <1>0, <1>p, <1>r, <2>1, WorkerIs
  <2>4. worker[i].pc \in Before BY <2>1 DEF Before
  <2>5. Doing(i)' BY <1>1, <2>2, <2>3, <2>4 DEF Doing, During, Before, Silent, Truth
  <2> QED BY <1>1, <1>p, <2>2, <2>3, <2>5, OnlyWorkerKeeps
<1>5. CASE Check(i)
  <2>1. worker[i].pc = "check" /\ (Go(i, "send") \/ Conclude(i, "settle", "failed"))
    BY <1>5 DEF Check
  <2>2. UNCHANGED <<files, line, marks, index, op, writes, todo, lastKey, reserved, stage>>
    BY <1>5 DEF Check
  <2>3. PICK pc \in {"send", "settle"} :
          /\ worker' \in [Items -> WorkerType] /\ worker'[i].pc = pc
          /\ worker'[i].sent = worker[i].sent
          /\ pc = "settle" => worker'[i].result = "failed"
          /\ \A j \in Items \ {i} : worker'[j] = worker[j]
    BY <1>0, <1>p, <1>r, <2>1, WorkerIs
  <2>4. Parts[i] > 0 /\ writes[i] = 0 /\ worker[i].sent = 0
    BY <1>1, <2>1, WorkAssumption DEF Doing, Before
  <2>5. Doing(i)' BY <1>1, <2>1, <2>2, <2>3, <2>4 DEF Doing, During, Before, Silent, Truth
  <2> QED BY <1>1, <1>p, <2>1, <2>2, <2>3, <2>5, OnlyWorkerKeeps
<1>6. CASE SendRefused(i)
  <2>1. worker[i].pc = "send" /\ Conclude(i, "settle", NotSent(i))
        /\ UNCHANGED <<files, line, marks, index, op, writes, todo, lastKey, reserved, stage>>
    BY <1>6 DEF SendRefused
  <2>2. NotSent(i) \in {"failed", "unknown"} /\ (NotSent(i) = "failed" => ~(worker[i].sent > 0))
    BY DEF NotSent
  <2>3. /\ worker' \in [Items -> WorkerType] /\ worker'[i].pc = "settle"
        /\ worker'[i].result = NotSent(i)
        /\ \A j \in Items \ {i} : worker'[j] = worker[j]
    BY <1>0, <1>p, <1>r, <2>1, <2>2, WorkerIs
  <2>4. NotSent(i) = "failed" => writes[i] = 0
    <3>1. worker[i].sent \in Nat BY <1>0, Types DEF WorkerType
    <3> QED BY <1>1, <2>1, <2>2, <3>1 DEF Doing
  <2>5. Doing(i)' BY <1>1, <2>1, <2>2, <2>3, <2>4 DEF Doing, During, Before, Silent, Truth
  <2> QED BY <1>1, <1>p, <2>1, <2>3, <2>5, OnlyWorkerKeeps
<1>7. CASE Panic(i)
  <2>1. /\ Go(i, "doubt") /\ worker[i].pc # "idle"
        /\ UNCHANGED <<files, line, marks, index, op, writes, todo, lastKey, reserved, stage>>
    BY <1>7 DEF Panic
  <2>2. /\ worker' \in [Items -> WorkerType] /\ worker'[i].pc = "doubt"
        /\ \A j \in Items \ {i} : worker'[j] = worker[j]
    BY <1>0, <1>p, <2>1, WorkerIs
  <2>3. Doing(i)' BY <2>2 DEF Doing, During, Before
  <2> QED BY <1>1, <1>p, <2>1, <2>2, <2>3, OnlyWorkerKeeps
<1> QED BY <1>2, <1>3, <1>4, <1>5, <1>6, <1>7

LEMMA WritesKeep ==
  ASSUME IInv, NEW i \in Items,
         Claim(i) \/ SendPart(i) \/ NoAnswer(i) \/ Settle(i) \/ Verify(i)
  PROVE  IInv'
<1> USE DEF disk, records, scheduler, execution, Working, At
<1>0. TypeOK BY DEF IInv
<1>1. ItemOK(i) /\ Doing(i) /\ reserved \subseteq Items /\ index \in [Dirs -> Int]
      /\ op \in [Items -> OpStatuses] /\ writes \in [Items -> Nat] /\ Parts[i] \in Nat \ {0}
  BY <1>0, Types, WorkAssumption DEF IInv, ItemOK
<1>r. "failed" \in Results /\ "unknown" \in Results /\ "sent" \in Results BY DEF Results
<1>p. \A pc \in {"phase", "send", "verify", "settle", "finish"} :
        pc \in During \cup {"idle", "doubt", "done", "broken"}
  BY DEF During, Before
<1>s. \A pc : Go(i, pc) => worker' = [worker EXCEPT ![i].pc = pc] BY DEF Go
<1>2. CASE Claim(i)
  <2>1. /\ worker[i].pc = "claim"
        /\ \/ op' = [op EXCEPT ![i] = "running"] /\ Go(i, "phase")
           \/ /\ op' \in {op, [op EXCEPT ![i] = "failed"]}
              /\ Conclude(i, "finish", "failed")
        /\ UNCHANGED <<files, line, marks, index, writes, todo, lastKey, reserved, stage>>
    BY <1>2 DEF Claim
  <2>2. PICK pc \in {"phase", "finish"} :
          /\ worker' \in [Items -> WorkerType] /\ worker'[i].pc = pc
          /\ worker'[i].sent = worker[i].sent
          /\ pc = "finish" => worker'[i].result = "failed"
          /\ \A j \in Items \ {i} : worker'[j] = worker[j]
    BY <1>0, <1>p, <1>r, <2>1, WorkerIs
  <2>3. op' \in [Items -> OpStatuses] /\ op'[i] \in {op[i], "running", "failed"}
        /\ \A j \in Items \ {i} : op'[j] = op[j]
    BY <1>1, <2>1 DEF OpStatuses, InFlight
  <2>4. writes[i] = 0 /\ worker[i].sent = 0 /\ Live(i)
        /\ files[i]["running"].result = "none" /\ Silent(i)
    BY <1>1, <2>1 DEF Doing, Before, During, Live, Idle
  <2>5. OpTrue(i)' /\ writes'[i] <= Parts[i] BY <1>1, <2>1, <2>3, <2>4 DEF ItemOK, OpTrue
  <2>6. Doing(i)' BY <2>1, <2>2, <2>4 DEF Doing, During, Before, Silent, Truth
  <2>7. \A d \in Dirs : Truth(i, files[i][d].result) => Truth(i, files[i][d].result)'
    BY <2>1 DEF Truth
  <2> QED BY <1>1, <1>p, <2>1, <2>2, <2>3, <2>5, <2>6, <2>7, WorkerStep
<1>3. CASE SendPart(i) \/ NoAnswer(i)
  <2>1. /\ worker[i].pc = "send" /\ op[i] = "running"
        /\ UNCHANGED <<files, line, marks, index, op, todo, lastKey, reserved, stage>>
    BY <1>3 DEF SendPart, NoAnswer, MayWrite
  <2>2. writes[i] = worker[i].sent /\ worker[i].sent < Parts[i] /\ worker[i].sent \in Nat
        /\ files[i]["running"].result = "none" /\ Silent(i)
    BY <1>0, <1>1, <2>1, Types DEF Doing, During, Before, WorkerType
  <2>3. writes' = [writes EXCEPT ![i] = @ + 1] \/ writes' = writes
    BY <1>3 DEF SendPart, NoAnswer, Arrives
  <2>4. writes' \in [Items -> Nat] /\ writes'[i] \in {writes[i], writes[i] + 1}
        /\ \A j \in Items \ {i} : writes'[j] = writes[j]
    BY <1>1, <2>3
  <2>5. OpTrue(i)' /\ writes'[i] <= Parts[i] BY <1>1, <2>1, <2>2, <2>4 DEF OpTrue
  <2>6. \A d \in Dirs : Truth(i, files[i][d].result)'
    BY <1>1, <2>1, <2>2 DEF ItemOK, FilesTrue, Truth, Silent, Dirs
  <2>7. CASE SendPart(i)
    <3> DEFINE pc == IF worker[i].sent + 1 = Parts[i] THEN "verify" ELSE "send"
               w == [[worker[i] EXCEPT !.sent = @ + 1] EXCEPT !.pc = pc]
    <3>1. worker[i] \in WorkerType /\ worker \in [Items -> WorkerType] BY <1>0, Types
    <3>2. worker' = [worker EXCEPT ![i] = w] BY <2>7, <3>1 DEF SendPart
    <3>3. pc \in {"verify", "send"} /\ pc \in During \cup {"idle", "doubt", "done", "broken"}
      BY DEF During
    <3>4. w \in WorkerType /\ w.pc = pc /\ w.sent = worker[i].sent + 1
      <4> HIDE DEF pc
      <4>1. worker[i].sent \in Nat BY <3>1 DEF WorkerType
      <4>2. [worker[i] EXCEPT !.sent = @ + 1] \in WorkerType BY <3>1, <4>1 DEF WorkerType
      <4> QED BY <3>1, <3>3, <4>1, <4>2 DEF WorkerType
    <3>5. /\ worker' \in [Items -> WorkerType] /\ worker'[i].pc = pc
          /\ worker'[i].sent = worker[i].sent + 1
          /\ \A j \in Items \ {i} : worker'[j] = worker[j]
      <4> HIDE DEF w, pc
      <4> QED BY <3>1, <3>2, <3>4
    <3>6. writes'[i] = writes[i] + 1 BY <1>1, <2>7 DEF SendPart, Arrives
    <3>7. Doing(i)'
      <4>1. CASE worker[i].sent + 1 = Parts[i]
        BY <2>1, <2>2, <3>5, <3>6, <4>1 DEF Doing, During, Before, Silent
      <4>2. CASE worker[i].sent + 1 # Parts[i]
        <5>1. worker[i].sent + 1 < Parts[i] BY <1>1, <2>2, <4>2
        <5> QED BY <2>1, <2>2, <3>5, <3>6, <4>2, <5>1 DEF Doing, During, Before, Silent
      <4> QED BY <4>1, <4>2
    <3> HIDE DEF w, pc
    <3> QED BY <1>1, <2>1, <2>4, <2>5, <2>6, <3>3, <3>5, <3>7, WorkerStep
  <2>8. CASE NoAnswer(i)
    <3>1. /\ worker' \in [Items -> WorkerType] /\ worker'[i].pc = "settle"
          /\ worker'[i].result = "unknown"
          /\ \A j \in Items \ {i} : worker'[j] = worker[j]
      BY <1>0, <1>p, <1>r, <2>8, WorkerIs DEF NoAnswer
    <3>2. Doing(i)' BY <2>1, <2>2, <3>1 DEF Doing, During, Before, Silent, Truth
    <3> QED BY <1>1, <1>p, <2>1, <2>4, <2>5, <2>6, <3>1, <3>2, WorkerStep
  <2> QED BY <1>3, <2>7, <2>8
<1>4. CASE Settle(i)
  <2>1. /\ worker[i].pc = "settle"
        /\ \/ op' = [op EXCEPT ![i] = worker[i].result] /\ Go(i, "finish")
           \/ Conclude(i, "finish", "unknown") /\ op' = op
        /\ UNCHANGED <<files, line, marks, index, writes, todo, lastKey, reserved, stage>>
    BY <1>4 DEF Settle
  <2>2. /\ worker' \in [Items -> WorkerType] /\ worker'[i].pc = "finish"
        /\ worker'[i].result \in {worker[i].result, "unknown"}
        /\ \A j \in Items \ {i} : worker'[j] = worker[j]
    BY <1>0, <1>p, <1>r, <2>1, WorkerIs
  <2>3. worker[i].result \in {"failed", "unknown"} /\ Truth(i, worker[i].result) /\ Live(i)
        /\ files[i]["running"].result = "none" /\ Silent(i)
    BY <1>1, <2>1 DEF Doing, During, Before, Live, Idle
  <2>4. op' \in [Items -> OpStatuses] /\ op'[i] \in {op[i], worker[i].result}
        /\ \A j \in Items \ {i} : op'[j] = op[j]
    BY <1>1, <2>1, <2>3 DEF OpStatuses
  <2>5. OpTrue(i)' /\ writes'[i] <= Parts[i] BY <1>1, <2>1, <2>3, <2>4 DEF ItemOK, OpTrue, Truth
  <2>6. Doing(i)' BY <2>1, <2>2, <2>3 DEF Doing, During, Before, Silent, Truth
  <2>7. \A d \in Dirs : Truth(i, files[i][d].result) => Truth(i, files[i][d].result)'
    BY <2>1 DEF Truth
  <2> QED BY <1>1, <1>p, <2>1, <2>2, <2>4, <2>5, <2>6, <2>7, WorkerStep
<1>5. CASE Verify(i)
  <2>1. /\ worker[i].pc = "verify"
        /\ UNCHANGED <<files, line, marks, index, writes, todo, lastKey, reserved, stage>>
        /\ op' = op \/ op' = [op EXCEPT ![i] = IF @ = "running" THEN "verifying" ELSE "succeeded"]
        /\ \/ Go(i, "verify") \/ Conclude(i, "finish", "sent")
           \/ Conclude(i, "finish", "unknown")
    BY <1>5 DEF Verify
  <2>2. PICK pc \in {"verify", "finish"} :
          /\ worker' \in [Items -> WorkerType] /\ worker'[i].pc = pc
          /\ pc = "finish" => worker'[i].result \in {"sent", "unknown"}
          /\ \A j \in Items \ {i} : worker'[j] = worker[j]
    BY <1>0, <1>p, <1>r, <2>1, WorkerIs
  <2>3. writes[i] = Parts[i] /\ Live(i) /\ files[i]["running"].result = "none" /\ Silent(i)
    BY <1>1, <2>1 DEF Doing, During, Before, Live, Idle
  <2>4. op' \in [Items -> OpStatuses] /\ op'[i] \in {op[i], "verifying", "succeeded"}
        /\ \A j \in Items \ {i} : op'[j] = op[j]
    BY <1>1, <2>1 DEF OpStatuses, InFlight
  <2>5. OpTrue(i)' /\ writes'[i] <= Parts[i] BY <1>1, <2>1, <2>3, <2>4 DEF ItemOK, OpTrue
  <2>6. Doing(i)' BY <2>1, <2>2, <2>3 DEF Doing, During, Before, Silent, Truth
  <2>7. \A d \in Dirs : Truth(i, files[i][d].result) => Truth(i, files[i][d].result)'
    BY <2>1 DEF Truth
  <2> QED BY <1>1, <1>p, <2>1, <2>2, <2>4, <2>5, <2>6, <2>7, WorkerStep
<1> QED BY <1>2, <1>3, <1>4, <1>5

\* The file of a claimed item is written, or moved to where it ends.
LEMMA FileWritten ==
  ASSUME IInv, NEW i \in Items, worker[i].pc # "idle",
         NEW f \in FileType, Truth(i, f.result),
         \/ files' = Rename(i, "running", "terminal", f)
         \/ files' = Put(i, "running", f) \/ files' = files,
         NEW pc \in {"done", "doubt", "broken"}, Go(i, pc),
         index' \in [Dirs -> Int], op' \in {op, Reconciled(i)},
         UNCHANGED <<line, marks, writes, todo, lastKey, reserved, stage>>
  PROVE  IInv'
<1>0. TypeOK BY DEF IInv
<1>1. ItemOK(i) /\ Live(i) /\ worker[i] # Idle /\ line[i] \in Lines
  BY <1>0, Types DEF IInv, Live, Idle
<1>2. /\ worker' \in [Items -> WorkerType] /\ worker'[i].pc = pc
      /\ \A j \in Items \ {i} : worker'[j] = worker[j]
  <2>1. pc \in During \cup {"idle", "doubt", "done", "broken"}
    OBVIOUS
  <2> QED BY <1>0, <2>1, WorkerIs
<1>3. op' \in [Items -> OpStatuses] /\ op'[i] \in {op[i], "unknown"}
      /\ \A j \in Items \ {i} : op'[j] = op[j]
  BY <1>0, Types, ReconciledIs
<1>4. /\ files' \in [Items -> [Dirs -> FileType]]
      /\ \A j \in Items \ {i}, e \in Dirs : files'[j][e] = files[j][e]
      /\ files'[i]["pending"] = files[i]["pending"]
      /\ \A e \in Dirs : files'[i][e] \in {files[i][e], NoFile, f}
  <2>1. CASE files' = Rename(i, "running", "terminal", f) BY <1>0, <2>1, InDirs, RenameStep
  <2>2. CASE files' = Put(i, "running", f) BY <1>0, <2>2, InDirs, PutStep
  <2>3. CASE files' = files BY <1>0, <2>3, Types
  <2> QED BY <2>1, <2>2, <2>3
<1>5. TypeOK' BY <1>0, <1>2, <1>3, <1>4, Types, TypesStay
<1>6. ItemOK(i)'
  <2>1. files[i]["pending"].state # "pending" /\ line[i] = "none" /\ "v2" \in marks
    BY <1>1 DEF ItemOK, Waits, LineOK, Migrated, Lines
  <2>2. FilesTrue(i)' /\ (writes[i] <= Parts[i])'
    BY <1>1, <1>4, InDirs DEF ItemOK, FilesTrue, Truth, NoFile
  <2>3. OpTrue(i)' BY <1>1, <1>3 DEF ItemOK, OpTrue
  <2>4. Waits(i)' /\ LineOK(i)' /\ Migrated(i)' BY <1>4, <2>1 DEF Waits, LineOK, Migrated
  <2>5. AtRest(i)' /\ Doing(i)' BY <1>1, <1>2 DEF ItemOK, AtRest, Starting, Doing, During, Before
  <2> QED BY <2>2, <2>3, <2>4, <2>5 DEF ItemOK
<1>7. \A j \in Items \ {i} : SameRecords(j) BY <1>3, <1>4 DEF SameRecords
<1> QED BY <1>2, <1>5, <1>6, <1>7, OneMoves DEF IInv, Stages, SameMark, Starting

LEMMA EndsKeep ==
  ASSUME IInv, NEW i \in Items, Finish(i) \/ FinishFails(i) \/ FinishTorn(i) \/ Doubt(i)
  PROVE  IInv'
<1> USE DEF disk, records, scheduler, execution, Working, At
<1>0. TypeOK /\ index \in [Dirs -> Int] /\ Moved("running", "terminal") \in [Dirs -> Int]
  BY Types, MovedAreNumbers DEF IInv
<1>1. ItemOK(i) /\ Doing(i) /\ worker[i].pc # "idle"
  BY DEF IInv, ItemOK, Finish, FinishFails, FinishTorn, Doubt
<1> DEFINE f == File("terminal", worker[i].result)
<1>2. CASE Finish(i) \/ FinishFails(i) \/ FinishTorn(i)
  <2>1. worker[i].pc = "finish" BY <1>2 DEF Finish, FinishFails, FinishTorn
  <2>2. f \in FileType /\ Truth(i, f.result) /\ f.state = "terminal"
        /\ files[i]["running"].result = "none" /\ Silent(i)
    <3>1. worker[i].result \in Results BY <1>0, Types DEF WorkerType
    <3> QED BY <1>1, <2>1, <3>1, FileTypes DEF Doing, During, File
  <2>3. CASE Finish(i)
    <3>1. /\ files' = Rename(i, "running", "terminal", f) /\ Go(i, "done")
          /\ index' \in [Dirs -> Int] /\ op' \in {op, Reconciled(i)}
          /\ UNCHANGED <<line, marks, writes, todo, lastKey, reserved, stage>>
      BY <1>0, <2>3 DEF Finish
    <3> HIDE DEF f
    <3> QED BY <1>1, <2>2, <3>1, FileWritten
  <2>4. CASE FinishFails(i)
    <3>1. /\ files' = files \/ files' = Put(i, "running", f)
          /\ Go(i, "doubt")
          /\ index' \in [Dirs -> Int] /\ op' \in {op, Reconciled(i)}
          /\ UNCHANGED <<line, marks, writes, todo, lastKey, reserved, stage>>
      BY <1>0, <2>4 DEF FinishFails
    <3> HIDE DEF f
    <3> QED BY <1>1, <2>2, <3>1, FileWritten
  <2>5. CASE FinishTorn(i)
    <3>1. /\ files' = Put(i, "running", f) /\ NoProcess
          /\ UNCHANGED <<line, marks, index, op, writes>>
      BY <2>5 DEF FinishTorn, Torn
    <3>f. f' = File("terminal", worker'[i].result)
      OBVIOUS
    <3>r. PICK g \in FileType : g = f /\ Truth(i, g.result) BY <2>2
    <3>2. /\ files' \in [Items -> [Dirs -> FileType]]
          /\ \A j \in Items, e \in Dirs :
               files'[j][e] = IF j = i /\ e = "running" THEN g ELSE files[j][e]
      BY <1>0, <3>1, <3>r, InDirs, PutStep
    <3>3. /\ files'[i]["pending"] = files[i]["pending"]
          /\ files'[i]["terminal"] = files[i]["terminal"] /\ files'[i]["running"] = g
      BY <3>2, InDirs
    <3>4. files[i]["pending"].state # "pending" /\ line[i] = "none" /\ Live(i)
      <4>1. line[i] \in Lines BY <1>0, Types
      <4> QED BY <1>1, <4>1 DEF ItemOK, Waits, LineOK, Migrated, Lines, Live, Idle
    <3>5. FilesTrue(i)' BY <1>1, <3>1, <3>3, <3>r DEF ItemOK, FilesTrue, Truth, Dirs
    <3>6. OpTrue(i)' /\ Waits(i)' /\ LineOK(i)'
      BY <1>1, <3>1, <3>3, <3>4 DEF ItemOK, OpTrue, Waits, LineOK
    <3>7. op' \in [Items -> OpStatuses] BY <1>0, <3>1, Types
    <3> HIDE DEF f
    <3> QED BY <3>1, <3>2, <3>5, <3>6, <3>7, TornIs
  <2> QED BY <1>2, <2>3, <2>4, <2>5
<1>3. CASE Doubt(i)
  <2>1. /\ op' = Reconciled(i) /\ Go(i, "broken")
        /\ files' = Rename(i, "running", "terminal", Recovered(i)) \/ files' = files
        /\ index' \in [Dirs -> Int]
        /\ UNCHANGED <<line, marks, writes, todo, lastKey, reserved, stage>>
    BY <1>0, <1>3 DEF Doubt
  <2>2. Live(i) BY <1>1 DEF Live, Idle
  <2>3. Recovered(i) \in FileType /\ Truth(i, Recovered(i).result)
    BY <1>0, <1>1, <2>1, <2>2, RecoveredIs
  <2> QED BY <1>1, <2>1, <2>3, FileWritten
<1> QED BY <1>2, <1>3

(* The invariant *)

LEMMA InitHolds == ASSUME Init PROVE IInv
<1>1. PICK s \in Scenarios :
        /\ line = [i \in Items |-> CASE s.origin[i] = "new" -> "submit"
                                     [] s.origin[i] = "v2new" -> "new"
                                     [] s.origin[i] = "v2processed" -> "processed"
                                     [] s.origin[i] = "v2answered" -> "answered"
                                     [] OTHER -> "none"]
        /\ files = [i \in Items |->
             [d \in Dirs |-> CASE s.origin[i] = "v3pending" /\ d = "pending" ->
                                    [v |-> 3, state |-> "pending", result |-> "none"]
                               [] s.origin[i] = "v3running" /\ d = "running" ->
                                    [v |-> 3, state |-> "running", result |-> "none"]
                               [] s.origin[i] = "v3finished" /\ d = "running" ->
                                    [v |-> 3, state |-> "terminal", result |-> "sent"]
                               [] s.origin[i] = "v3terminal" /\ d = "terminal" ->
                                    [v |-> 3, state |-> "terminal", result |-> "sent"]
                               [] OTHER -> NoFile]]
        /\ marks = s.marks /\ op = s.op
        /\ writes = [i \in Items |-> IF s.origin[i] \in {"new", "v2new", "v3pending"}
                                        \/ /\ s.origin[i] = "v3running"
                                           /\ s.op[i] \in {"queued", "failed", "cancelled"}
                                     THEN 0 ELSE Parts[i]]
        /\ index = CountsOf(files) /\ stage = "down" /\ todo = {} /\ reserved = {} /\ lastKey = 0
        /\ worker = [i \in Items |-> Idle]
  BY DEF Init
<1>2. /\ s.origin \in [Items -> Origins] /\ s.op \in [Items -> OpStatuses]
      /\ s.marks \subseteq {"v2", "v3"}
      /\ \A i \in Items :
           /\ s.origin[i] \in {"v2new", "v2processed", "v2answered"} => "v2" \notin s.marks
           /\ s.origin[i] \in {"new", "v2new", "v3pending"} => s.op[i] # "succeeded"
           /\ s.origin[i] = "v3finished" => s.op[i] \notin {"queued", "failed", "cancelled"}
  BY ScenariosAssumption
<1>3. ASSUME NEW i \in Items
      PROVE  /\ files[i] \in [Dirs -> FileType] /\ line[i] \in Lines /\ writes[i] \in Nat
             /\ ItemOK(i)
  <2>1. s.origin[i] \in Origins /\ worker[i] = Idle /\ Parts[i] \in Nat \ {0}
        /\ op[i] = s.op[i] /\ marks = s.marks
    BY <1>1, <1>2, WorkAssumption
  <2>2. writes[i] = IF s.origin[i] \in {"new", "v2new", "v3pending"}
                       \/ /\ s.origin[i] = "v3running"
                          /\ op[i] \in {"queued", "failed", "cancelled"}
                    THEN 0 ELSE Parts[i]
    BY <1>1, <2>1
  <2>3. Doing(i) /\ AtRest(i) BY <2>1 DEF Doing, AtRest, Idle, During, Before
  <2>4. CASE s.origin[i] \in {"new", "v2new", "v2processed", "v2answered"}
    <3>1. \A d \in Dirs : files[i][d] = NoFile BY <1>1, <2>4
    <3>2. line[i] = CASE s.origin[i] = "new" -> "submit" [] s.origin[i] = "v2new" -> "new"
                      [] s.origin[i] = "v2processed" -> "processed"
                      [] s.origin[i] = "v2answered" -> "answered" [] OTHER -> "none"
      BY <1>1
    <3>3. files[i] \in [Dirs -> FileType] BY <1>1, <3>1, FileTypes
    <3>4. FilesTrue(i) /\ Waits(i) /\ Silent(i)
      BY <3>1, InDirs DEF FilesTrue, Waits, Silent, Truth, NoFile
    <3>5. OpTrue(i) /\ LineOK(i) /\ Migrated(i)
      BY <1>2, <2>1, <2>2, <2>4, <3>1, <3>2, <3>4, InDirs
         DEF OpTrue, Live, Exists, LineOK, Migrated
    <3> QED BY <2>1, <2>2, <2>3, <2>4, <3>2, <3>3, <3>4, <3>5 DEF ItemOK, Lines
  <2>5. CASE s.origin[i] \in {"v3pending", "v3running", "v3finished", "v3terminal"}
    <3>1. line[i] = "none" BY <1>1, <2>5
    <3>2. /\ files[i]["pending"] = IF s.origin[i] = "v3pending"
                                   THEN [v |-> 3, state |-> "pending", result |-> "none"]
                                   ELSE NoFile
          /\ files[i]["running"] = IF s.origin[i] = "v3running"
                                   THEN [v |-> 3, state |-> "running", result |-> "none"]
                                   ELSE IF s.origin[i] = "v3finished"
                                   THEN [v |-> 3, state |-> "terminal", result |-> "sent"]
                                   ELSE NoFile
          /\ files[i]["terminal"] = IF s.origin[i] = "v3terminal"
                                    THEN [v |-> 3, state |-> "terminal", result |-> "sent"]
                                    ELSE NoFile
      BY <1>1, <2>5, InDirs
    <3>3. files[i] \in [Dirs -> FileType]
      <4>1. \A d \in Dirs : files[i][d] \in FileType
        BY <3>2, FileTypes DEF Dirs, FileType, Results
      <4> QED BY <1>1, <4>1
    <3>4. FilesTrue(i) /\ Waits(i)
      BY <2>1, <2>2, <2>5, <3>2 DEF FilesTrue, Waits, Exists, Silent, Truth, NoFile, Dirs
    <3>5. OpTrue(i) /\ LineOK(i) /\ Migrated(i)
      BY <1>2, <2>1, <2>2, <2>5, <3>1, <3>2, InDirs DEF OpTrue, Live, Exists, LineOK, Migrated
    <3> QED BY <2>1, <2>2, <2>3, <3>1, <3>3, <3>4, <3>5 DEF ItemOK, Lines
  <2> QED BY <2>1, <2>4, <2>5 DEF Origins
<1>4. TypeOK
  <2>1. /\ files \in [Items -> [Dirs -> FileType]] /\ line \in [Items -> Lines]
        /\ writes \in [Items -> Nat]
    BY <1>1, <1>3
  <2>2. /\ marks \subseteq {"v2", "v3"} /\ op \in [Items -> OpStatuses]
        /\ todo \subseteq Items /\ reserved \subseteq Items /\ lastKey \in Items \cup {0}
        /\ index \in [Dirs -> Int] /\ worker \in [Items -> WorkerType]
    BY <1>1, <1>2, CountsAreNumbers, IdleIs
  <2> QED BY <2>1, <2>2 DEF TypeOK, FileType, Lines, WorkerType, During, Before
<1> QED BY <1>1, <1>3, <1>4 DEF IInv, Stages

LEMMA NextKeeps == ASSUME IInv, [Next]_vars PROVE IInv'
<1>1. CASE UNCHANGED vars
  BY <1>1, ControlKeeps, Types DEF vars, disk, records, scheduler, execution, IInv, Stages,
     Starting
<1>2. CASE Startup
  BY <1>2, StartupKeeps, QuietControl, ImportKeeps, ImportAnswerKeeps, UpgradeKeeps,
     RecoverKeeps DEF Startup
<1>3. CASE Run BY <1>3, DispatchKeeps, QuietControl, WorkerKeeps DEF Run
<1>4. CASE \/ StartupFails \/ Crash \/ Stop \/ Exit \/ PolicyChange \/ IndexBreaks
           \/ DispatchTorn \/ Drained(TRUE)
  BY <1>4, QuietControl, ProcessEnds, DispatchKeeps
<1>5. ASSUME NEW i \in Items,
             \/ Execute(i) \/ ClaimFails(i) \/ FinishFails(i) \/ FinishTorn(i) \/ Panic(i)
      PROVE  IInv'
  BY <1>5, WorkerKeeps, WritesKeep, EndsKeep DEF Execute
<1>6. ASSUME NEW i \in Items,
             \/ UpgradeTorn(i) \/ RecoverTorn(i) \/ Submit(i) \/ Cancel(i)
             \/ DirectStarts(Key[i]) \/ DirectEnds(Key[i])
      PROVE  IInv'
  BY <1>6, UpgradeTornKeeps, RecoverTornKeeps, SubmitKeeps, CancelKeeps, QuietControl
<1> QED BY <1>1, <1>2, <1>3, <1>4, <1>5, <1>6 DEF Next

\* The inductive invariant holds, whatever crashes, fails or was left by earlier versions.
THEOREM QueueInvariant == Spec => []IInv
<1>1. Init => IInv BY InitHolds
<1>2. IInv /\ [Next]_vars => IInv' BY NextKeeps
<1> QED BY <1>1, <1>2, PTL DEF Spec

\* The types of the files, the records, the index and the workers, for any items.
THEOREM QueueTypeOK == Spec => []TypeOK
<1>1. IInv => TypeOK BY DEF IInv
<1> QED BY <1>1, QueueInvariant, PTL

\* No part of a message arrives at Feishu twice, whatever is recovered or migrated
\* (recoverRunning: what was claimed is never replayed).
THEOREM QueueWritesOnce == Spec => []WrittenOnce
<1>1. IInv => WrittenOnce BY DEF IInv, ItemOK, WrittenOnce
<1> QED BY <1>1, QueueInvariant, PTL

\* A terminal file that says sent, failed or cancelled says what Feishu has.
THEOREM QueueTellsTheTruth == Spec => []ResultIsTrue
<1>1. IInv => ResultIsTrue BY InDirs DEF IInv, ItemOK, FilesTrue, Truth, ResultIsTrue
<1> QED BY <1>1, QueueInvariant, PTL

(* The cards of task links, as an instance *)

CardBounds == CardAttempts \in Nat

CardSyncs ==
  [state : {"none", "pending", "waiting_retry", "synced", "needs_review"},
   code : {"none", "temporary", "unknown", "permanent", "exhausted", "no_card", "logout"},
   attempts : 0 .. CardAttempts, waiting : BOOLEAN, synced : TC!Versions,
   shows : {"none", "active", "ended"}]

CardLinkRecords ==
  [state : {"none", "active", "released"}, expired : BOOLEAN, text : TC!Texts, card : BOOLEAN,
   pending : BOOLEAN, leaving : BOOLEAN, sync : CardSyncs]

SyncCalls ==
  [by : {"nobody", "worker", "handler", "logout"},
   pc : {"idle", "skip", "no_card", "give_up", "submit", "patch", "patched", "failed"},
   version : TC!Versions, found : CardSyncs]

CardWorkers ==
  [pc : {"off", "look", "want", "sync", "wait", "over"}, cancelled : BOOLEAN]

CardHandlers ==
  [op : {"none", "create", "update", "interrupt", "release"},
   pc : {"idle", "upsert", "write", "send", "store", "want", "sync"}, link : CardLinks \cup {0}]

Logouts ==
  [pc : {"idle", "drain", "next", "want", "sync", "mark"}, todo : SUBSET CardLinks,
   link : CardLinks \cup {0}]

CardsTyped ==
  /\ cardLink \in [CardLinks -> CardLinkRecords]
  /\ cardSync \in [CardLinks -> SyncCalls]
  /\ cardWorker \in [CardLinks -> CardWorkers]
  /\ cardHandler \in CardHandlers
  /\ logout \in Logouts
  /\ revoked \in BOOLEAN
  /\ cardShown \in [CardLinks -> TC!Versions]

\* A sync that sends has a card to send, an attempt left, and a replacement that it has seen is
\* what Feishu shows.
SyncOK(i) ==
  /\ cardSync[i].pc \in {"submit", "patch", "patched", "failed"} =>
       /\ cardSync[i].version # TC!NoVersion
       /\ cardSync[i].found.attempts < CardAttempts
  /\ cardSync[i].pc = "patched" => cardShown[i] = cardSync[i].version
  /\ cardSync[i].by = "logout" => logout.pc = "sync" /\ logout.link = i

HandlerOK(h) ==
  /\ h.pc \notin {"idle", "upsert"} => h.link \in CardLinks
  /\ h.pc = "write" => h.op \in {"update", "interrupt", "release"}

CallersOK ==
  /\ HandlerOK(cardHandler)
  /\ logout.pc \in {"want", "sync", "mark"} => logout.link \in CardLinks

NoneIsActive == \A i \in CardLinks : ~TC!EffectivelyActive(cardLink[i])

\* From the moment it has released the links until the next login.
Disconnected ==
  revoked \/ logout.pc \in {"next", "want", "sync", "mark"} =>
    NoneIsActive /\ cardHandler = TC!NoHandler

CardsInv ==
  /\ CardsTyped
  /\ \A i \in CardLinks : SyncOK(i)
  /\ CallersOK
  /\ Disconnected

\* What a handler, a worker, a logout and a sync are when they do nothing.
LEMMA CardsAtRest ==
  ASSUME CardBounds
  PROVE  /\ TC!NoCardSync \in CardSyncs /\ TC!NoLink \in CardLinkRecords
         /\ TC!NoLink.state = "none"
         /\ TC!NoSync \in SyncCalls /\ TC!NoSync.pc = "idle" /\ TC!NoSync.by = "nobody"
         /\ TC!NoWorker \in CardWorkers
         /\ TC!NoHandler \in CardHandlers /\ TC!NoHandler.pc = "idle"
         /\ TC!NoLogout \in Logouts /\ TC!NoLogout.pc = "idle"
         /\ TC!NoCardSync.attempts = 0
<1>1. TC!NoCardSync \in CardSyncs /\ TC!NoCardSync.attempts = 0
  BY DEF CardBounds, TC!NoCardSync, CardSyncs, TC!Versions, TC!NoVersion
<1>2. TC!NoLink \in CardLinkRecords /\ TC!NoLink.state = "none"
  <2> HIDE DEF CardSyncs
  <2> QED BY <1>1 DEF TC!NoLink, CardLinkRecords, TC!Texts
<1>3. TC!NoSync \in SyncCalls /\ TC!NoSync.pc = "idle" /\ TC!NoSync.by = "nobody"
  BY <1>1 DEF TC!NoSync, SyncCalls, TC!Versions, TC!NoVersion
<1>4. TC!NoWorker \in CardWorkers BY DEF TC!NoWorker, CardWorkers
<1>5. TC!NoHandler \in CardHandlers /\ TC!NoHandler.pc = "idle" BY DEF TC!NoHandler, CardHandlers
<1>6. TC!NoLogout \in Logouts /\ TC!NoLogout.pc = "idle" BY DEF TC!NoLogout, Logouts
<1> QED BY <1>1, <1>2, <1>3, <1>4, <1>5, <1>6

\* What a card of a link shows.
LEMMA VersionOfALink ==
  ASSUME NEW l \in CardLinkRecords
  PROVE  TC!Version(l) \in TC!Versions /\ TC!Version(l) # TC!NoVersion
<1>1. l.text \in {0, 1} BY DEF CardLinkRecords, TC!Texts
<1>2. TC!Version(l) = 2 \/ TC!Version(l) = 3 \/ TC!Version(l) = l.text
  <2>1. CASE l.state = "released" BY <2>1 DEF TC!Version
  <2>2. CASE l.state # "released" /\ (l.state = "active" /\ l.expired) BY <2>2 DEF TC!Version
  <2>3. CASE l.state # "released" /\ ~(l.state = "active" /\ l.expired) BY <2>3 DEF TC!Version
  <2> QED BY <2>1, <2>2, <2>3
<1> QED BY <1>1, <1>2 DEF TC!Versions, TC!NoVersion, TC!Texts, TC!Ended

\* Who goes on when a sync is over or returns at once.
LEMMA MovesKeepTypes ==
  ASSUME CardsTyped, CardBounds, NEW i \in CardLinks, NEW who,
         NEW h \in CardHandlers, NEW p \in {"sync", "mark"}, NEW w \in {"sync", "wait"},
         TC!Moves(who, i, [worker |-> w, handler |-> h, logout |-> p])
  PROVE  /\ cardWorker' \in [CardLinks -> CardWorkers]
         /\ cardHandler' = (IF who = "handler" THEN h ELSE cardHandler)
         /\ cardHandler' \in CardHandlers
         /\ logout' \in Logouts
         /\ logout'.link = logout.link /\ logout'.todo = logout.todo
         /\ logout'.pc = IF who = "logout" THEN p ELSE logout.pc
<1>1. /\ cardWorker' = IF who = "worker"
                       THEN [cardWorker EXCEPT ![i] = [TC!NoWorker EXCEPT !.pc = w]]
                       ELSE cardWorker
      /\ cardHandler' = IF who = "handler" THEN h ELSE cardHandler
      /\ logout' = IF who = "logout" THEN [logout EXCEPT !.pc = p] ELSE logout
  BY DEF TC!Moves
<1>2. [TC!NoWorker EXCEPT !.pc = w] \in CardWorkers BY CardsAtRest DEF CardWorkers
<1>3. cardWorker' \in [CardLinks -> CardWorkers] BY <1>1, <1>2 DEF CardsTyped
<1>4. cardHandler' \in CardHandlers BY <1>1 DEF CardsTyped
<1>5. logout' \in Logouts /\ logout'.link = logout.link /\ logout'.todo = logout.todo
      /\ logout'.pc = IF who = "logout" THEN p ELSE logout.pc
  BY <1>1 DEF CardsTyped, Logouts
<1> QED BY <1>1, <1>3, <1>4, <1>5

\* No link becomes active but by an operation that was admitted.
Quieter == \A j \in CardLinks :
             TC!EffectivelyActive(cardLink'[j]) =>
               TC!EffectivelyActive(cardLink[j]) \/ cardHandler # TC!NoHandler

\* A step of a sync does to Feishu's cards what it does to its own.
OwnCard(i) == /\ cardShown' \in [CardLinks -> TC!Versions]
              /\ \A j \in CardLinks : j # i => cardShown'[j] = cardShown[j]

LEMMA SavedKeeps ==
  ASSUME CardsTyped, NEW i \in CardLinks, NEW s \in CardSyncs, NEW p \in BOOLEAN,
         TC!Saved(i, s, p)
  PROVE  /\ cardLink' \in [CardLinks -> CardLinkRecords]
         /\ \A j \in CardLinks : j # i => cardLink'[j] = cardLink[j]
         /\ cardLink'[i].state = cardLink[i].state /\ cardLink'[i].expired = cardLink[i].expired
         /\ cardLink'[i].text = cardLink[i].text /\ cardLink'[i].card = cardLink[i].card
         /\ cardLink[i].state # "none" => cardLink'[i].pending = p /\ cardLink'[i].sync = s
         /\ Quieter
<1> DEFINE l == [cardLink[i] EXCEPT !.sync = s, !.pending = p]
<1>1. cardLink' = [cardLink EXCEPT ![i] = IF @.state = "none" THEN @ ELSE l]
  BY DEF TC!Saved, TC!Update
<1>2. /\ l \in CardLinkRecords /\ l.state = cardLink[i].state
      /\ l.expired = cardLink[i].expired /\ l.text = cardLink[i].text /\ l.pending = p
      /\ l.card = cardLink[i].card /\ l.sync = s
  <2> HIDE DEF CardSyncs
  <2> QED BY DEF CardsTyped, CardLinkRecords
<1> HIDE DEF l
<1>3. /\ cardLink' \in [CardLinks -> CardLinkRecords]
      /\ \A j \in CardLinks : j # i => cardLink'[j] = cardLink[j]
      /\ cardLink'[i] = IF cardLink[i].state = "none" THEN cardLink[i] ELSE l
  BY <1>1, <1>2 DEF CardsTyped
<1>4. Quieter BY <1>2, <1>3 DEF Quieter, TC!EffectivelyActive
<1> QED BY <1>2, <1>3, <1>4

LEMMA SyncEndsKeeps ==
  ASSUME CardsInv, CardBounds, NEW i \in CardLinks, TC!SyncEnds(i),
         cardLink' \in [CardLinks -> CardLinkRecords], Quieter, OwnCard(i), revoked' = revoked
  PROVE  CardsInv'
<1> DEFINE who == cardSync[i].by
<1>1. /\ cardSync' = [cardSync EXCEPT ![i] = TC!NoSync]
      /\ TC!Moves(who, i, [worker |-> "wait", handler |-> TC!NoHandler, logout |-> "mark"])
  BY DEF TC!SyncEnds
<1>2. /\ cardWorker' \in [CardLinks -> CardWorkers]
      /\ cardHandler' = (IF who = "handler" THEN TC!NoHandler ELSE cardHandler)
      /\ cardHandler' \in CardHandlers
      /\ logout' \in Logouts
      /\ logout'.link = logout.link /\ logout'.todo = logout.todo
      /\ logout'.pc = IF who = "logout" THEN "mark" ELSE logout.pc
  <2> HIDE DEF who
  <2> QED BY <1>1, CardsAtRest, MovesKeepTypes DEF CardsInv
<1>3. who = "logout" => logout.pc = "sync" /\ logout.link = i BY DEF CardsInv, SyncOK
<1> HIDE DEF who
<1>4. CardsTyped' BY <1>1, <1>2, CardsAtRest DEF CardsInv, CardsTyped, OwnCard
<1>5. ASSUME NEW j \in CardLinks PROVE SyncOK(j)'
  <2>1. CASE j = i
    <3>1. cardSync'[j].pc = "idle" /\ cardSync'[j].by = "nobody"
      BY <1>1, <2>1, CardsAtRest DEF CardsInv, CardsTyped
    <3> QED BY <3>1 DEF SyncOK
  <2>2. CASE j # i
    <3>1. cardSync'[j] = cardSync[j] /\ cardShown'[j] = cardShown[j]
      BY <1>1, <2>2 DEF CardsInv, CardsTyped, OwnCard
    <3>2. cardSync[j].by = "logout" => logout.pc = "sync" /\ logout.link = j
      BY DEF CardsInv, SyncOK
    <3>3. cardSync[j].by = "logout" => logout'.pc = "sync" /\ logout'.link = j
      BY <1>2, <1>3, <2>2, <3>2
    <3> QED BY <3>1, <3>3 DEF CardsInv, SyncOK
  <2> QED BY <2>1, <2>2
<1>6. CallersOK' BY <1>2, <1>3, CardsAtRest DEF CardsInv, CallersOK, HandlerOK
<1>7. Disconnected' BY <1>2, <1>3 DEF CardsInv, Disconnected, NoneIsActive, Quieter
<1> QED BY <1>4, <1>5, <1>6, <1>7 DEF CardsInv

LEMMA SyncGoesKeeps ==
  ASSUME CardsInv, CardBounds, NEW i \in CardLinks, NEW s \in SyncCalls,
         cardSync' = [cardSync EXCEPT ![i] = s], s.by = cardSync[i].by,
         UNCHANGED <<cardWorker, cardHandler, logout, revoked>>,
         cardLink' \in [CardLinks -> CardLinkRecords], Quieter, OwnCard(i),
         s.pc \in {"submit", "patch", "patched", "failed"} =>
           s.version # TC!NoVersion /\ s.found.attempts < CardAttempts,
         s.pc = "patched" => cardShown'[i] = s.version
  PROVE  CardsInv'
<1>1. CardsTyped' BY DEF CardsInv, CardsTyped, OwnCard
<1>2. ASSUME NEW j \in CardLinks PROVE SyncOK(j)'
  <2>1. CASE j = i BY <2>1 DEF CardsInv, CardsTyped, SyncOK
  <2>2. CASE j # i BY <2>2 DEF CardsInv, CardsTyped, SyncOK, OwnCard
  <2> QED BY <2>1, <2>2
<1>3. CallersOK' /\ Disconnected' BY DEF CardsInv, CallersOK, Disconnected, NoneIsActive, Quieter
<1> QED BY <1>1, <1>2, <1>3 DEF CardsInv

\* Whatever is no step of a sync, nor of the logout.
LEMMA CardStep ==
  ASSUME CardsInv, UNCHANGED <<cardSync, logout, revoked>>,
         cardLink' \in [CardLinks -> CardLinkRecords], Quieter,
         cardWorker' \in [CardLinks -> CardWorkers], cardHandler' \in CardHandlers,
         HandlerOK(cardHandler'),
         \/ cardHandler' = TC!NoHandler \/ cardHandler # TC!NoHandler
         \/ ~revoked /\ logout.pc = "idle",
         cardShown' \in [CardLinks -> TC!Versions],
         \A j \in CardLinks : cardShown[j] # TC!NoVersion => cardShown'[j] = cardShown[j]
  PROVE  CardsInv'
<1>1. CardsTyped' BY DEF CardsInv, CardsTyped
<1>2. ASSUME NEW j \in CardLinks PROVE SyncOK(j)'
  BY DEF CardsInv, SyncOK
<1>3. CallersOK' /\ Disconnected' BY DEF CardsInv, CallersOK, Disconnected, NoneIsActive, Quieter
<1> QED BY <1>1, <1>2, <1>3 DEF CardsInv

(* The steps of a sync *)

LEMMA ReopenedIsASync ==
  ASSUME NEW r \in CardSyncs
  PROVE  TC!Reopened(r) \in CardSyncs /\ TC!Reopened(r).attempts = r.attempts
<1>1. CASE r.state = "needs_review" BY <1>1 DEF TC!Reopened, CardSyncs
<1>2. CASE r.state # "needs_review" BY <1>2 DEF TC!Reopened
<1> QED BY <1>1, <1>2

LEMMA DecisionOfALink ==
  ASSUME NEW l \in CardLinkRecords, CardBounds
  PROVE  /\ TC!Decision(l) \in {"return", "no_card", "skip", "give_up", "submit"}
         /\ TC!Decision(l) = "submit" => l.sync.attempts < CardAttempts
<1>1. l.sync.attempts \in Nat BY DEF CardLinkRecords, CardSyncs, CardBounds
<1>2. CASE ~l.card BY <1>2 DEF TC!Decision
<1>3. CASE l.card /\ l.sync.state = "needs_review"
           /\ (l.sync.code # "unknown" \/ TC!Exhausted(l.sync))
  BY <1>3 DEF TC!Decision
<1>4. CASE l.card /\ l.sync.state # "needs_review" /\ l.sync.waiting BY <1>4 DEF TC!Decision
<1>5. CASE l.card /\ ~(l.sync.state = "needs_review" /\ (l.sync.code # "unknown" \/ TC!Exhausted(l.sync)))
              /\ ~(l.sync.state # "needs_review" /\ l.sync.waiting)
  <2>1. TC!Decision(l) = IF l.sync.synced = TC!Version(l) THEN "skip"
                         ELSE IF TC!Exhausted(l.sync) THEN "give_up" ELSE "submit"
    BY <1>5 DEF TC!Decision
  <2> QED BY <1>1, <2>1 DEF TC!Exhausted, CardBounds
<1> QED BY <1>2, <1>3, <1>4, <1>5

LEMMA SyncLooksKeeps ==
  ASSUME CardsInv, CardBounds, NEW i \in CardLinks, NEW who \in {"worker", "handler", "logout"},
         TC!SyncLooks(who, i)
  PROVE  CardsInv'
<1> DEFINE l == cardLink[i]
           v == [by |-> who, pc |-> TC!Decision(l), version |-> TC!Version(l),
                 found |-> TC!Reopened(l.sync)]
           over == l.state = "none" \/ (who = "worker" /\ cardWorker[i].cancelled)
                   \/ TC!Decision(l) = "return"
<1>1. /\ cardSync[i] = TC!NoSync /\ TC!Wants(who, i)
      /\ UNCHANGED <<cardLink, revoked, cardShown>>
      /\ \/ /\ TC!Moves(who, i, [worker |-> "wait", handler |-> TC!NoHandler, logout |-> "mark"])
            /\ UNCHANGED cardSync
         \/ /\ ~over /\ cardSync' = [cardSync EXCEPT ![i] = v]
            /\ cardWorker' = IF who = "worker" THEN [cardWorker EXCEPT ![i].pc = "sync"]
                             ELSE cardWorker
            /\ cardHandler' = IF who = "handler" THEN [cardHandler EXCEPT !.pc = "sync"]
                              ELSE cardHandler
            /\ logout' = IF who = "logout" THEN [logout EXCEPT !.pc = "sync"] ELSE logout
  BY DEF TC!SyncLooks
<1>2. /\ l \in CardLinkRecords /\ l.sync \in CardSyncs
      /\ TC!Reopened(l.sync) \in CardSyncs /\ TC!Reopened(l.sync).attempts = l.sync.attempts
      /\ TC!Version(l) \in TC!Versions /\ TC!Version(l) # TC!NoVersion
  BY ReopenedIsASync, VersionOfALink DEF CardsInv, CardsTyped, CardLinkRecords
<1>3. /\ who = "handler" => cardHandler.pc = "want" /\ cardHandler.link = i
      /\ who = "logout" => logout.pc = "want" /\ logout.link = i
  BY <1>1 DEF TC!Wants
<1>4. /\ cardWorker' \in [CardLinks -> CardWorkers]
      /\ cardHandler' \in CardHandlers
      /\ \/ cardHandler' \in {cardHandler, TC!NoHandler}
         \/ (cardHandler' = [cardHandler EXCEPT !.pc = "sync"] /\ cardHandler.pc = "want")
      /\ logout' \in Logouts /\ logout'.link = logout.link
      /\ logout'.pc = logout.pc \/ (logout'.pc \in {"mark", "sync"} /\ who = "logout")
  <2>1. CASE TC!Moves(who, i, [worker |-> "wait", handler |-> TC!NoHandler, logout |-> "mark"])
    <3>1. /\ cardWorker' \in [CardLinks -> CardWorkers]
          /\ cardHandler' = (IF who = "handler" THEN TC!NoHandler ELSE cardHandler)
          /\ cardHandler' \in CardHandlers
          /\ logout' \in Logouts
          /\ logout'.link = logout.link
          /\ logout'.pc = IF who = "logout" THEN "mark" ELSE logout.pc
      BY <2>1, CardsAtRest, MovesKeepTypes DEF CardsInv
    <3> QED BY <3>1
  <2>2. CASE /\ cardWorker' = IF who = "worker" THEN [cardWorker EXCEPT ![i].pc = "sync"]
                             ELSE cardWorker
             /\ cardHandler' = IF who = "handler" THEN [cardHandler EXCEPT !.pc = "sync"]
                              ELSE cardHandler
             /\ logout' = IF who = "logout" THEN [logout EXCEPT !.pc = "sync"] ELSE logout
    <3>1. cardWorker' \in [CardLinks -> CardWorkers]
      BY <2>2 DEF CardsInv, CardsTyped, CardWorkers
    <3>2. cardHandler' \in CardHandlers BY <2>2 DEF CardsInv, CardsTyped, CardHandlers
    <3>3. /\ logout' \in Logouts /\ logout'.link = logout.link
          /\ logout'.pc = logout.pc \/ (logout'.pc \in {"mark", "sync"} /\ who = "logout")
      <4>1. logout \in Logouts BY DEF CardsInv, CardsTyped
      <4>2. CASE who = "logout" BY <2>2, <4>1, <4>2 DEF Logouts
      <4>3. CASE who # "logout" BY <2>2, <4>1, <4>3
      <4> QED BY <4>2, <4>3
    <3>4. \/ cardHandler' \in {cardHandler, TC!NoHandler}
          \/ (cardHandler' = [cardHandler EXCEPT !.pc = "sync"] /\ cardHandler.pc = "want")
      <4>1. CASE who = "handler" BY <1>3, <2>2, <4>1
      <4>2. CASE who # "handler" BY <2>2, <4>2
      <4> QED BY <4>1, <4>2
    <3> QED BY <3>1, <3>2, <3>3, <3>4
  <2> QED BY <1>1, <2>1, <2>2
<1>5. (~over => v \in SyncCalls) /\ v.by = who /\ v.pc = TC!Decision(l) /\ v.version = TC!Version(l)
      /\ v.found.attempts = l.sync.attempts
  <2>1. ~over => TC!Decision(l) \in {"no_card", "skip", "give_up", "submit"}
    BY <1>2, DecisionOfALink
  <2> QED BY <1>2, <2>1 DEF SyncCalls
<1> HIDE DEF v, l, over
<1>6. cardSync' \in [CardLinks -> SyncCalls] BY <1>1, <1>5 DEF CardsInv, CardsTyped
<1>7. CardsTyped' BY <1>1, <1>4, <1>6 DEF CardsInv, CardsTyped
<1>8. ASSUME NEW j \in CardLinks PROVE SyncOK(j)'
  <2>1. SyncOK(j) /\ (cardSync[j].by = "logout" => logout.pc = "sync" /\ logout.link = j)
    BY DEF CardsInv, SyncOK
  <2>2. cardSync[j].by = "logout" => who # "logout" /\ logout'.pc = "sync" /\ logout'.link = j
    BY <1>3, <1>4, <2>1
  <2>3. CASE cardSync'[j] = cardSync[j] BY <1>1, <2>1, <2>2, <2>3 DEF SyncOK
  <2>4. CASE cardSync'[j] # cardSync[j]
    <3>1. j = i /\ cardSync'[j] = v BY <1>1, <2>4 DEF CardsInv, CardsTyped
    <3>2. TC!Decision(l) \in {"return", "no_card", "skip", "give_up", "submit"}
          /\ (TC!Decision(l) = "submit" => l.sync.attempts < CardAttempts)
      BY <1>2, DecisionOfALink
    <3>3. who = "logout" => logout'.pc = "sync" /\ logout'.link = i
      BY <1>1, <1>3, <1>4, <2>4 DEF CardsInv, CardsTyped, Logouts
    <3> QED BY <1>2, <1>5, <3>1, <3>2, <3>3 DEF SyncOK
  <2> QED BY <2>3, <2>4
<1>9. CallersOK'
  BY <1>3, <1>4, CardsAtRest DEF CardsInv, CallersOK, HandlerOK, CardsTyped, CardHandlers
<1>10. Disconnected' BY <1>1, <1>3, <1>4, CardsAtRest DEF CardsInv, Disconnected, NoneIsActive
<1> QED BY <1>7, <1>8, <1>9, <1>10 DEF CardsInv

\* What a sync has read is of its type.
LEMMA FoundIsTyped ==
  ASSUME CardsInv, NEW i \in CardLinks
  PROVE  /\ cardSync[i].found \in CardSyncs /\ cardSync[i].version \in TC!Versions
         /\ cardLink \in [CardLinks -> CardLinkRecords]
         /\ cardShown \in [CardLinks -> TC!Versions]
BY DEF CardsInv, CardsTyped, SyncCalls

LEMMA CardUnmoved ==
  ASSUME CardsInv, NEW i \in CardLinks
  PROVE  /\ cardLink' = cardLink => Quieter /\ cardLink' \in [CardLinks -> CardLinkRecords]
         /\ cardShown' = cardShown => OwnCard(i)
         /\ TC!Patched(i) => OwnCard(i) /\ cardShown'[i] = cardSync[i].version
BY FoundIsTyped DEF Quieter, OwnCard, TC!Patched

LEMMA SyncSavesKeeps ==
  ASSUME CardsInv, CardBounds, NEW i \in CardLinks, TC!SyncSaves(i)
  PROVE  CardsInv'
<1> DEFINE f == cardSync[i].found
           g == [f EXCEPT !.state = "needs_review", !.code = "exhausted"]
           n == [TC!NoCardSync EXCEPT !.state = "synced", !.code = "no_card",
                                      !.shows = TC!EffectiveState(cardLink[i])]
<1>1. f \in CardSyncs /\ g \in CardSyncs BY FoundIsTyped DEF CardSyncs
<1>2. n \in CardSyncs BY CardsAtRest DEF CardSyncs, TC!EffectiveState
<1>3. /\ cardSync[i].pc \in {"skip", "no_card", "give_up"}
      /\ TC!SyncEnds(i) /\ UNCHANGED <<revoked, cardShown>>
      /\ TC!Saved(i, CASE cardSync[i].pc = "skip" -> f [] cardSync[i].pc = "give_up" -> g
                       [] OTHER -> n, FALSE)
  BY DEF TC!SyncSaves, TC!At
<1> HIDE DEF f, g, n
<1>4. \E s \in {f, g, n} : TC!Saved(i, s, FALSE)
  <2>1. CASE cardSync[i].pc = "skip" BY <1>3, <2>1
  <2>2. CASE cardSync[i].pc = "give_up" BY <1>3, <2>2
  <2>3. CASE cardSync[i].pc = "no_card" BY <1>3, <2>3
  <2> QED BY <1>3, <2>1, <2>2, <2>3
<1>5. PICK s \in CardSyncs : TC!Saved(i, s, FALSE) BY <1>1, <1>2, <1>4
<1>6. cardLink' \in [CardLinks -> CardLinkRecords] /\ Quieter BY <1>5, SavedKeeps DEF CardsInv
<1>7. OwnCard(i) BY <1>3, CardUnmoved
<1> QED BY <1>3, <1>6, <1>7, SyncEndsKeeps

LEMMA SyncSubmitsKeeps ==
  ASSUME CardsInv, CardBounds, NEW i \in CardLinks, TC!SyncSubmits(i)
  PROVE  CardsInv'
<1> DEFINE f == [cardSync[i].found EXCEPT !.state = "pending"]
           v == [cardSync[i] EXCEPT !.pc = "patch"]
<1>1. /\ cardSync[i].pc = "submit" /\ UNCHANGED <<revoked, cardShown>>
      /\ TC!Saved(i, f, TRUE)
      /\ \/ TC!SyncEnds(i)
         \/ cardSync' = [cardSync EXCEPT ![i].pc = "patch"]
              /\ UNCHANGED <<cardWorker, cardHandler, logout>>
  BY DEF TC!SyncSubmits, TC!At, TC!Goes
<1>2. f \in CardSyncs BY FoundIsTyped DEF CardSyncs
<1>3. cardLink' \in [CardLinks -> CardLinkRecords] /\ Quieter
  <2> HIDE DEF f
  <2> QED BY <1>1, <1>2, SavedKeeps DEF CardsInv
<1>4. OwnCard(i) BY <1>1, CardUnmoved
<1>5. CASE TC!SyncEnds(i) BY <1>1, <1>3, <1>4, <1>5, SyncEndsKeeps
<1>6. CASE /\ cardSync' = [cardSync EXCEPT ![i].pc = "patch"]
           /\ UNCHANGED <<cardWorker, cardHandler, logout>>
  <2>1. /\ v \in SyncCalls /\ v.by = cardSync[i].by /\ v.pc = "patch"
        /\ v.version = cardSync[i].version /\ v.found = cardSync[i].found
    <3> HIDE DEF CardSyncs
    <3> QED BY DEF CardsInv, CardsTyped, SyncCalls
  <2>2. cardSync' = [cardSync EXCEPT ![i] = v] BY <1>6 DEF CardsInv, CardsTyped
  <2>3. v.version # TC!NoVersion /\ v.found.attempts < CardAttempts
    BY <1>1, <2>1 DEF CardsInv, SyncOK
  <2> HIDE DEF v
  <2> QED BY <1>1, <1>3, <1>4, <1>6, <2>1, <2>2, <2>3, SyncGoesKeeps
<1> QED BY <1>1, <1>5, <1>6

LEMMA CardPatchedKeeps ==
  ASSUME CardsInv, CardBounds, NEW i \in CardLinks, TC!CardPatched(i)
  PROVE  CardsInv'
<1> DEFINE v == [cardSync[i] EXCEPT !.pc = "patched"]
<1>1. /\ cardSync[i].pc = "patch" /\ TC!Patched(i) /\ UNCHANGED <<cardLink, revoked>>
      /\ cardSync' = [cardSync EXCEPT ![i].pc = "patched"]
      /\ UNCHANGED <<cardWorker, cardHandler, logout>>
  BY DEF TC!CardPatched, TC!At, TC!Goes
<1>2. /\ v \in SyncCalls /\ v.by = cardSync[i].by /\ v.pc = "patched"
      /\ v.version = cardSync[i].version /\ v.found = cardSync[i].found
  <2> HIDE DEF CardSyncs
  <2> QED BY DEF CardsInv, CardsTyped, SyncCalls
<1>3. cardSync' = [cardSync EXCEPT ![i] = v] BY <1>1 DEF CardsInv, CardsTyped
<1>4. v.version # TC!NoVersion /\ v.found.attempts < CardAttempts
  BY <1>1, <1>2 DEF CardsInv, SyncOK
<1> HIDE DEF v
<1>5. OwnCard(i) /\ cardShown'[i] = v.version BY <1>1, <1>2, CardUnmoved
<1>6. cardLink' \in [CardLinks -> CardLinkRecords] /\ Quieter BY <1>1, CardUnmoved
<1> QED BY <1>1, <1>2, <1>3, <1>4, <1>5, <1>6, SyncGoesKeeps

LEMMA PatchCancelledKeeps ==
  ASSUME CardsInv, CardBounds, NEW i \in CardLinks, TC!PatchCancelled(i)
  PROVE  CardsInv'
<1>1. TC!SyncEnds(i) /\ UNCHANGED <<cardLink, revoked>>
      /\ (TC!Patched(i) \/ UNCHANGED cardShown)
  BY DEF TC!PatchCancelled
<1>2. OwnCard(i) /\ cardLink' \in [CardLinks -> CardLinkRecords] /\ Quieter BY <1>1, CardUnmoved
<1> QED BY <1>1, <1>2, SyncEndsKeeps

LEMMA NotPatchedKeeps ==
  ASSUME CardsInv, CardBounds, NEW i \in CardLinks,
         NEW code \in {"temporary", "unknown", "permanent"}, TC!NotPatched(i, code)
  PROVE  CardsInv'
<1> DEFINE f == [cardSync[i].found EXCEPT !.code = code]
           v == [cardSync[i] EXCEPT !.pc = "failed", !.found = f]
<1>1. /\ cardSync[i].pc = "patch" /\ (TC!Patched(i) \/ UNCHANGED cardShown)
      /\ cardSync' = [cardSync EXCEPT ![i].pc = "failed", ![i].found.code = code]
      /\ UNCHANGED <<cardLink, cardWorker, cardHandler, logout, revoked>>
  BY DEF TC!NotPatched, TC!At
<1>2. f \in CardSyncs /\ f.attempts = cardSync[i].found.attempts BY FoundIsTyped DEF CardSyncs
<1>3. cardSync' = [cardSync EXCEPT ![i] = v] BY <1>1 DEF CardsInv, CardsTyped
<1> HIDE DEF f
<1>4. /\ v \in SyncCalls /\ v.by = cardSync[i].by /\ v.pc = "failed"
      /\ v.version = cardSync[i].version /\ v.found = f
  <2> HIDE DEF CardSyncs
  <2> QED BY <1>2 DEF CardsInv, CardsTyped, SyncCalls
<1>5. v.version # TC!NoVersion /\ v.found.attempts < CardAttempts
  BY <1>1, <1>2, <1>4 DEF CardsInv, SyncOK
<1> HIDE DEF v
<1>6. OwnCard(i) /\ cardLink' \in [CardLinks -> CardLinkRecords] /\ Quieter BY <1>1, CardUnmoved
<1> QED BY <1>1, <1>3, <1>4, <1>5, <1>6, SyncGoesKeeps

LEMMA SyncFailsKeeps ==
  ASSUME CardsInv, CardBounds, NEW i \in CardLinks, TC!SyncFails(i)
  PROVE  CardsInv'
<1> DEFINE t == [cardSync[i].found EXCEPT !.attempts = @ + 1]
           r == t.code # "permanent" /\ ~TC!Exhausted(t)
           s == [t EXCEPT !.state = IF r THEN "waiting_retry" ELSE "needs_review", !.waiting = r]
<1>1. /\ cardSync[i].pc = "failed" /\ TC!Saved(i, s, r) /\ TC!SyncEnds(i)
      /\ UNCHANGED <<revoked, cardShown>>
  BY DEF TC!SyncFails, TC!At
<1>2. t \in CardSyncs
  <2>1. cardSync[i].found \in CardSyncs /\ cardSync[i].found.attempts < CardAttempts
    BY <1>1, FoundIsTyped DEF CardsInv, SyncOK
  <2>2. cardSync[i].found.attempts + 1 \in 0 .. CardAttempts BY <2>1 DEF CardSyncs, CardBounds
  <2> QED BY <2>1, <2>2 DEF CardSyncs
<1> HIDE DEF t
<1>3. r \in BOOLEAN
  OBVIOUS
<1> HIDE DEF r
<1>4. s \in CardSyncs BY <1>2, <1>3 DEF CardSyncs
<1> HIDE DEF s
<1>5. cardLink' \in [CardLinks -> CardLinkRecords] /\ Quieter
  BY <1>1, <1>3, <1>4, SavedKeeps DEF CardsInv
<1>6. OwnCard(i) BY <1>1, CardUnmoved
<1> QED BY <1>1, <1>5, <1>6, SyncEndsKeeps

LEMMA SyncConfirmsKeeps ==
  ASSUME CardsInv, CardBounds, NEW i \in CardLinks, TC!SyncConfirms(i)
  PROVE  /\ CardsInv'
         /\ cardLink'[i].state # "none" /\ ~cardLink'[i].pending =>
              cardShown'[i] = TC!Version(cardLink'[i])
<1> DEFINE l == cardLink[i]
           again == TC!Outdated(l, cardSync[i].version)
           s == [TC!NoCardSync EXCEPT
                   !.state = IF again THEN "pending" ELSE "synced",
                   !.synced = cardSync[i].version,
                   !.shows = IF cardSync[i].version \in TC!Ended THEN "ended" ELSE "active"]
<1>1. /\ cardSync[i].pc = "patched" /\ TC!Saved(i, s, again) /\ TC!SyncEnds(i)
      /\ UNCHANGED <<revoked, cardShown>>
  BY DEF TC!SyncConfirms, TC!At
<1>2. again \in BOOLEAN BY DEF TC!Outdated
<1>3. s \in CardSyncs BY CardsAtRest, FoundIsTyped DEF CardSyncs
<1> HIDE DEF s
<1>4. /\ cardLink' \in [CardLinks -> CardLinkRecords] /\ Quieter
      /\ cardLink'[i].state = cardLink[i].state /\ cardLink'[i].expired = cardLink[i].expired
      /\ cardLink'[i].text = cardLink[i].text
      /\ cardLink[i].state # "none" => cardLink'[i].pending = again
  <2> HIDE DEF again
  <2>1. CardsTyped /\ TC!Saved(i, s, again) BY <1>1 DEF CardsInv
  <2> QED BY <1>2, <1>3, <2>1, SavedKeeps
<1>5. OwnCard(i) BY <1>1, CardUnmoved
<1>6. CardsInv' BY <1>1, <1>4, <1>5, SyncEndsKeeps
<1>7. ASSUME cardLink'[i].state # "none", ~cardLink'[i].pending
      PROVE  cardShown'[i] = TC!Version(cardLink'[i])
  <2>1. l \in CardLinkRecords BY FoundIsTyped
  <2>3. /\ cardLink'[i].pending = again /\ cardLink'[i].state = l.state
        /\ cardLink'[i].expired = l.expired /\ cardLink'[i].text = l.text
    BY <1>4, <1>7
  <2>4. TC!Version(l) = cardSync[i].version BY <1>7, <2>3 DEF TC!Outdated
  <2>5. TC!Version(cardLink'[i]) = TC!Version(l) BY <2>3 DEF TC!Version
  <2>6. cardShown[i] = cardSync[i].version BY <1>1 DEF CardsInv, SyncOK
  <2> QED BY <1>1, <2>4, <2>5, <2>6
<1> QED BY <1>6, <1>7

(* The other steps *)

\* What a step makes of one link, if it makes it no more active than it was.
LEMMA OneLink ==
  ASSUME CardsInv, NEW i \in CardLinks, NEW r \in CardLinkRecords,
         cardLink' = [cardLink EXCEPT ![i] = r],
         \/ r.state # "active" \/ cardHandler # TC!NoHandler
         \/ r.state = cardLink[i].state /\ (cardLink[i].expired => r.expired)
  PROVE  cardLink' \in [CardLinks -> CardLinkRecords] /\ Quieter
BY FoundIsTyped DEF Quieter, TC!EffectivelyActive

LEMMA WorkerIsTyped ==
  ASSUME CardsInv, CardBounds, NEW i \in CardLinks,
         \/ \E to \in {"off", "look", "want", "sync", "wait", "over"} :
              cardWorker' = [cardWorker EXCEPT ![i].pc = to]
         \/ cardWorker' = [cardWorker EXCEPT ![i].cancelled = TRUE]
         \/ cardWorker' = [cardWorker EXCEPT ![i] = TC!NoWorker]
         \/ cardWorker' = cardWorker
  PROVE  cardWorker' \in [CardLinks -> CardWorkers]
<1>1. cardWorker \in [CardLinks -> CardWorkers] BY DEF CardsInv, CardsTyped
<1>2. ASSUME NEW to \in {"off", "look", "want", "sync", "wait", "over"},
             cardWorker' = [cardWorker EXCEPT ![i].pc = to]
      PROVE  cardWorker' \in [CardLinks -> CardWorkers]
  BY <1>1, <1>2 DEF CardWorkers
<1>3. CASE cardWorker' = [cardWorker EXCEPT ![i].cancelled = TRUE] BY <1>1, <1>3 DEF CardWorkers
<1>4. CASE cardWorker' = [cardWorker EXCEPT ![i] = TC!NoWorker] BY <1>1, <1>4, CardsAtRest
<1> QED BY <1>1, <1>2, <1>3, <1>4

LEMMA ChangedIsALink ==
  ASSUME NEW l \in CardLinkRecords, NEW p \in BOOLEAN
  PROVE  /\ TC!Changed(l) \in CardLinkRecords /\ TC!Changed(l).state = l.state
         /\ TC!Changed(l).expired = l.expired
         /\ [TC!Changed(l) EXCEPT !.pending = p] \in CardLinkRecords
         /\ [TC!Changed(l) EXCEPT !.pending = p].state = l.state
         /\ [TC!Changed(l) EXCEPT !.pending = p].expired = l.expired
<1>1. /\ TC!Changed(l) \in CardLinkRecords /\ TC!Changed(l).state = l.state
      /\ TC!Changed(l).expired = l.expired
  <2> HIDE DEF CardSyncs
  <2> QED BY DEF TC!Changed, CardLinkRecords, TC!Texts
<1>2. ASSUME NEW m \in CardLinkRecords
      PROVE  /\ [m EXCEPT !.pending = p] \in CardLinkRecords
             /\ [m EXCEPT !.pending = p].state = m.state
             /\ [m EXCEPT !.pending = p].expired = m.expired
  <2> HIDE DEF CardSyncs
  <2> QED BY DEF CardLinkRecords
<1> QED BY <1>1, <1>2

LEMMA ReleasedIsALink ==
  ASSUME NEW l \in CardLinkRecords
  PROVE  /\ TC!Released(l) \in CardLinkRecords /\ TC!Released(l).state = "released"
         /\ [TC!Released(l) EXCEPT !.leaving = TRUE] \in CardLinkRecords
         /\ [TC!Released(l) EXCEPT !.leaving = TRUE].state = "released"
<1>1. TC!Released(l) \in CardLinkRecords /\ TC!Released(l).state = "released"
  <2> HIDE DEF CardSyncs
  <2> QED BY DEF TC!Released, CardLinkRecords, TC!Texts
<1>2. ASSUME NEW m \in CardLinkRecords
      PROVE  /\ [m EXCEPT !.leaving = TRUE] \in CardLinkRecords
             /\ [m EXCEPT !.leaving = TRUE].state = m.state
  <2> HIDE DEF CardSyncs
  <2> QED BY DEF CardLinkRecords
<1> QED BY <1>1, <1>2

LEMMA BackoffEndsKeeps ==
  ASSUME CardsInv, CardBounds, NEW i \in CardLinks, TC!BackoffEnds(i)
  PROVE  CardsInv'
<1> DEFINE c == [cardLink[i].sync EXCEPT !.waiting = FALSE]
           r == [cardLink[i] EXCEPT !.sync = c]
<1>1. /\ cardLink' = [cardLink EXCEPT ![i].sync.waiting = FALSE]
      /\ UNCHANGED <<cardSync, cardWorker, cardHandler, logout, revoked, cardShown>>
  BY DEF TC!BackoffEnds, TC!running
<1>2. c \in CardSyncs
  <2>1. cardLink[i].sync \in CardSyncs BY FoundIsTyped DEF CardLinkRecords
  <2> QED BY <2>1 DEF CardSyncs
<1>3. cardLink' = [cardLink EXCEPT ![i] = r] BY <1>1, FoundIsTyped
<1> HIDE DEF c
<1>4. r \in CardLinkRecords /\ r.state = cardLink[i].state /\ r.expired = cardLink[i].expired
  <2> HIDE DEF CardSyncs
  <2> QED BY <1>2, FoundIsTyped DEF CardLinkRecords
<1> HIDE DEF r
<1>5. cardLink' \in [CardLinks -> CardLinkRecords] /\ Quieter BY <1>3, <1>4, OneLink
<1> QED BY <1>1, <1>5, CardStep DEF CardsInv, CardsTyped, CallersOK

LEMMA WorksKeeps ==
  ASSUME CardsInv, CardBounds, NEW i \in CardLinks, TC!Works(i)
  PROVE  CardsInv'
<1>1. /\ UNCHANGED <<cardLink, cardSync, cardHandler, logout, revoked, cardShown>>
      /\ \/ \E to \in {"look", "want", "wait", "over"} :
              cardWorker' = [cardWorker EXCEPT ![i].pc = to]
         \/ cardWorker' = [cardWorker EXCEPT ![i] = TC!NoWorker]
  BY DEF TC!Works, TC!WorkerLooks, TC!WorkerGoesOn, TC!WorkerRemoved
<1>2. cardWorker' \in [CardLinks -> CardWorkers] BY <1>1, WorkerIsTyped
<1>3. cardLink' \in [CardLinks -> CardLinkRecords] /\ Quieter BY <1>1, CardUnmoved
<1> QED BY <1>1, <1>2, <1>3, CardStep DEF CardsInv, CardsTyped, CallersOK

LEMMA MaintenanceKeeps ==
  ASSUME CardsInv, CardBounds, NEW i \in CardLinks, TC!MaintenanceDelivers(i)
  PROVE  CardsInv'
<1> DEFINE r == [cardLink[i] EXCEPT !.pending = TRUE]
<1>1. /\ UNCHANGED <<cardSync, cardHandler, logout, revoked, cardShown>>
      /\ cardLink' = [cardLink EXCEPT ![i].pending = TRUE] \/ cardLink' = cardLink
      /\ cardWorker' = TC!Delivered(i)
  BY DEF TC!MaintenanceDelivers
<1>2. cardWorker' \in [CardLinks -> CardWorkers] BY <1>1, WorkerIsTyped DEF TC!Delivered
<1>3. r \in CardLinkRecords /\ r.state = cardLink[i].state /\ r.expired = cardLink[i].expired
  <2> HIDE DEF CardSyncs
  <2> QED BY FoundIsTyped DEF CardLinkRecords
<1>4. cardLink' \in [CardLinks -> CardLinkRecords] /\ Quieter
  <2>1. CASE cardLink' = cardLink BY <2>1, CardUnmoved
  <2>2. CASE cardLink' = [cardLink EXCEPT ![i].pending = TRUE]
    <3>1. cardLink' = [cardLink EXCEPT ![i] = r] BY <2>2, FoundIsTyped
    <3> HIDE DEF r
    <3> QED BY <1>3, <3>1, OneLink
  <2> QED BY <1>1, <2>1, <2>2
<1> QED BY <1>1, <1>2, <1>4, CardStep DEF CardsInv, CardsTyped, CallersOK

LEMMA EnterKeeps ==
  ASSUME CardsInv, CardBounds, NEW o \in {"create", "update", "interrupt", "release"},
         NEW i \in CardLinks \cup {0}, NEW to \in {"upsert", "write"}, TC!Enter(o, i, to),
         to = "write" => i \in CardLinks /\ o # "create"
  PROVE  CardsInv'
<1>1. /\ cardHandler' = [op |-> o, pc |-> to, link |-> i]
      /\ logout.pc = "idle" /\ ~revoked
      /\ UNCHANGED <<cardLink, cardSync, cardWorker, logout, revoked, cardShown>>
  BY DEF TC!Enter, TC!Admits
<1>2. cardHandler' \in CardHandlers BY <1>1 DEF CardHandlers
<1>3. cardLink' \in [CardLinks -> CardLinkRecords] /\ Quieter
  BY <1>1 DEF CardsInv, CardsTyped, Quieter
<1>4. HandlerOK(cardHandler') BY <1>1 DEF HandlerOK
<1> QED BY <1>1, <1>2, <1>3, <1>4, CardStep DEF CardsInv, CardsTyped

LEMMA UpsertKeeps ==
  ASSUME CardsInv, CardBounds, NEW i \in CardLinks, TC!Upsert(i)
  PROVE  CardsInv'
<1> DEFINE r == [TC!NoLink EXCEPT !.state = "active"]
<1>1. /\ cardHandler.pc = "upsert"
      /\ cardLink' = [cardLink EXCEPT ![i] = r] \/ cardLink' = cardLink
      /\ \/ cardHandler' = TC!NoHandler
         \/ cardHandler' = [cardHandler EXCEPT !.pc = "send", !.link = i]
      /\ UNCHANGED <<cardSync, cardWorker, logout, revoked, cardShown>>
  BY DEF TC!Upsert
<1>2. r \in CardLinkRecords
  <2> HIDE DEF CardSyncs
  <2> QED BY CardsAtRest DEF CardLinkRecords
<1> HIDE DEF r
<1>3. cardHandler # TC!NoHandler BY <1>1, CardsAtRest
<1>4. cardLink' \in [CardLinks -> CardLinkRecords] /\ Quieter
  BY <1>1, <1>2, <1>3, OneLink, CardUnmoved
<1>5. /\ cardHandler' \in CardHandlers
      /\ HandlerOK(cardHandler')
  <2>1. CASE cardHandler' = TC!NoHandler BY <2>1, CardsAtRest DEF HandlerOK
  <2>2. CASE cardHandler' = [cardHandler EXCEPT !.pc = "send", !.link = i]
    BY <2>2 DEF CardsInv, CardsTyped, CardHandlers, HandlerOK
  <2> QED BY <1>1, <2>1, <2>2
<1> QED BY <1>1, <1>3, <1>4, <1>5, CardStep DEF CardsInv, CardsTyped

LEMMA HandlerWritesKeeps ==
  ASSUME CardsInv, CardBounds, TC!HandlerWrites
  PROVE  CardsInv'
<1> DEFINE i == cardHandler.link
           l == cardLink[i]
           c == [TC!Changed(l) EXCEPT !.pending = TRUE]
<1>1. cardHandler.pc = "write" /\ i \in CardLinks /\ cardHandler # TC!NoHandler
      /\ l \in CardLinkRecords
  BY CardsAtRest, FoundIsTyped DEF TC!HandlerWrites, CardsInv, CallersOK, HandlerOK
<1>2. /\ UNCHANGED <<cardSync, logout, revoked, cardShown>>
      /\ \/ cardLink' = [cardLink EXCEPT ![i] = TC!Released(l)]
         \/ cardLink' = [cardLink EXCEPT ![i] = TC!Changed(l)]
         \/ cardLink' = [cardLink EXCEPT ![i] = c]
         \/ cardLink' = [cardLink EXCEPT ![i] = l]
      /\ cardWorker' = TC!CancelledSend(i) \/ cardWorker' = cardWorker
      /\ cardHandler' = TC!NoHandler \/ cardHandler' = [cardHandler EXCEPT !.pc = "want"]
  <2>1. cardHandler.op \in {"release", "interrupt", "update"}
    BY <1>1 DEF CardsInv, CallersOK, HandlerOK
  <2>2. CASE cardHandler.op = "release"
    BY <1>1, <2>2, FoundIsTyped DEF TC!HandlerWrites, TC!Update
  <2>3. CASE cardHandler.op = "interrupt"
    BY <1>1, <2>3, FoundIsTyped DEF TC!HandlerWrites, TC!UpdateActive
  <2>4. CASE cardHandler.op = "update"
    BY <1>1, <2>4, FoundIsTyped DEF TC!HandlerWrites, TC!UpdateActive
  <2> QED BY <2>1, <2>2, <2>3, <2>4
<1>3. /\ TC!Released(l) \in CardLinkRecords /\ TC!Changed(l) \in CardLinkRecords
      /\ c \in CardLinkRecords
  BY <1>1, ChangedIsALink, ReleasedIsALink
<1>4. cardWorker' \in [CardLinks -> CardWorkers]
  BY <1>1, <1>2, WorkerIsTyped DEF TC!CancelledSend
<1>5. /\ cardHandler' \in CardHandlers
      /\ HandlerOK(cardHandler')
  <2>1. CASE cardHandler' = TC!NoHandler BY <2>1, CardsAtRest DEF HandlerOK
  <2>2. CASE cardHandler' = [cardHandler EXCEPT !.pc = "want"]
    BY <1>1, <2>2 DEF CardsInv, CardsTyped, CardHandlers, HandlerOK
  <2> QED BY <1>2, <2>1, <2>2
<1> HIDE DEF c, l, i
<1>6. cardLink' \in [CardLinks -> CardLinkRecords] /\ Quieter BY <1>1, <1>2, <1>3, OneLink
<1> QED BY <1>1, <1>2, <1>4, <1>5, <1>6, CardStep DEF CardsInv, CardsTyped

LEMMA SendRootCardKeeps ==
  ASSUME CardsInv, CardBounds, TC!SendRootCard
  PROVE  CardsInv'
<1> DEFINE i == cardHandler.link
<1>1. cardHandler.pc = "send" /\ i \in CardLinks /\ cardHandler # TC!NoHandler
      /\ cardLink[i] \in CardLinkRecords
  BY CardsAtRest, FoundIsTyped DEF TC!SendRootCard, CardsInv, CallersOK, HandlerOK
<1>2. /\ UNCHANGED <<cardLink, cardSync, cardWorker, logout, revoked>>
      /\ TC!RootCardSent(i) \/ cardShown' = cardShown
      /\ cardHandler' = TC!NoHandler \/ cardHandler' = [cardHandler EXCEPT !.pc = "store"]
  BY DEF TC!SendRootCard
<1>3. cardLink[i].text \in TC!Versions BY <1>1 DEF CardLinkRecords, TC!Versions
<1>4. /\ cardShown' \in [CardLinks -> TC!Versions]
      /\ \A j \in CardLinks : cardShown[j] # TC!NoVersion => cardShown'[j] = cardShown[j]
  BY <1>1, <1>2, <1>3 DEF CardsInv, CardsTyped, TC!RootCardSent
<1>5. /\ cardHandler' \in CardHandlers
      /\ HandlerOK(cardHandler')
  <2>1. CASE cardHandler' = TC!NoHandler BY <2>1, CardsAtRest DEF HandlerOK
  <2>2. CASE cardHandler' = [cardHandler EXCEPT !.pc = "store"]
    BY <1>1, <2>2 DEF CardsInv, CardsTyped, CardHandlers, HandlerOK
  <2> QED BY <1>2, <2>1, <2>2
<1>6. cardLink' \in [CardLinks -> CardLinkRecords] /\ Quieter
  BY <1>2 DEF CardsInv, CardsTyped, Quieter
<1> QED BY <1>1, <1>2, <1>4, <1>5, <1>6, CardStep DEF CardsInv, CardsTyped

LEMMA StoreRootCardKeeps ==
  ASSUME CardsInv, CardBounds, TC!StoreRootCard
  PROVE  CardsInv'
<1> DEFINE i == cardHandler.link
           r == [cardLink[i] EXCEPT !.card = TRUE]
<1>1. cardHandler.pc = "store" /\ i \in CardLinks /\ cardHandler # TC!NoHandler
      /\ cardLink[i] \in CardLinkRecords
  BY CardsAtRest, FoundIsTyped DEF TC!StoreRootCard, CardsInv, CallersOK, HandlerOK
<1>2. /\ UNCHANGED <<cardSync, cardWorker, logout, revoked, cardShown>>
      /\ cardLink' = [cardLink EXCEPT ![i] = r] \/ cardLink' = [cardLink EXCEPT ![i] = cardLink[i]]
      /\ cardHandler' = TC!NoHandler
  BY <1>1, FoundIsTyped DEF TC!StoreRootCard, TC!UpdateActive
<1>3. r \in CardLinkRecords
  <2> HIDE DEF CardSyncs
  <2> QED BY <1>1 DEF CardLinkRecords
<1> HIDE DEF r, i
<1>4. cardLink' \in [CardLinks -> CardLinkRecords] /\ Quieter BY <1>1, <1>2, <1>3, OneLink
<1> QED BY <1>1, <1>2, <1>4, CardsAtRest, CardStep DEF CardsInv, CardsTyped, HandlerOK

LEMMA WatcherWritesKeeps ==
  ASSUME CardsInv, CardBounds, NEW i \in CardLinks, TC!WatcherWrites(i)
  PROVE  CardsInv'
<1> DEFINE l == cardLink[i]
           c == [TC!Changed(l) EXCEPT !.pending = TRUE]
<1>1. /\ UNCHANGED <<cardSync, cardHandler, logout, revoked, cardShown>>
      /\ cardLink' = [cardLink EXCEPT ![i] = c]
      /\ cardWorker' = TC!Delivered(i)
  BY DEF TC!WatcherWrites
<1>2. c \in CardLinkRecords /\ c.state = l.state /\ c.expired = l.expired
  BY ChangedIsALink, FoundIsTyped
<1>3. cardWorker' \in [CardLinks -> CardWorkers] BY <1>1, WorkerIsTyped DEF TC!Delivered
<1> HIDE DEF c
<1>4. cardLink' \in [CardLinks -> CardLinkRecords] /\ Quieter BY <1>1, <1>2, OneLink
<1> QED BY <1>1, <1>3, <1>4, CardStep DEF CardsInv, CardsTyped, CallersOK

LEMMA ArchiveReleasesKeeps ==
  ASSUME CardsInv, CardBounds, NEW i \in CardLinks, TC!ArchiveReleases(i)
  PROVE  CardsInv'
<1> DEFINE r == TC!Released(cardLink[i])
<1>1. /\ UNCHANGED <<cardSync, cardHandler, logout, revoked, cardShown>>
      /\ cardLink' = [cardLink EXCEPT ![i] = r]
      /\ cardWorker' = TC!Delivered(i)
  BY FoundIsTyped DEF TC!ArchiveReleases
<1>2. r \in CardLinkRecords /\ r.state = "released" BY ReleasedIsALink, FoundIsTyped
<1>3. cardWorker' \in [CardLinks -> CardWorkers] BY <1>1, WorkerIsTyped DEF TC!Delivered
<1> HIDE DEF r
<1>4. cardLink' \in [CardLinks -> CardLinkRecords] /\ Quieter BY <1>1, <1>2, OneLink
<1> QED BY <1>1, <1>3, <1>4, CardStep DEF CardsInv, CardsTyped, CallersOK

LEMMA LeaseEndsKeeps ==
  ASSUME CardsInv, CardBounds, NEW i \in CardLinks, TC!LeaseEnds(i)
  PROVE  CardsInv'
<1> DEFINE r == [cardLink[i] EXCEPT !.expired = TRUE]
<1>1. /\ UNCHANGED <<cardSync, cardWorker, cardHandler, logout, revoked, cardShown>>
      /\ cardLink' = [cardLink EXCEPT ![i] = r]
  BY FoundIsTyped DEF TC!LeaseEnds, TC!running
<1>2. r \in CardLinkRecords /\ r.state = cardLink[i].state /\ r.expired = TRUE
  <2> HIDE DEF CardSyncs
  <2> QED BY FoundIsTyped DEF CardLinkRecords
<1> HIDE DEF r
<1>3. cardLink' \in [CardLinks -> CardLinkRecords] /\ Quieter BY <1>1, <1>2, OneLink
<1> QED BY <1>1, <1>3, CardStep DEF CardsInv, CardsTyped, CallersOK

LEMMA CleanupRemovesKeeps ==
  ASSUME CardsInv, CardBounds, NEW i \in CardLinks, TC!CleanupRemoves(i)
  PROVE  CardsInv'
<1>1. /\ UNCHANGED <<cardSync, cardWorker, cardHandler, logout, revoked, cardShown>>
      /\ cardLink' = [cardLink EXCEPT ![i] = TC!NoLink]
  BY DEF TC!CleanupRemoves, TC!running
<1>2. cardLink' \in [CardLinks -> CardLinkRecords] /\ Quieter BY <1>1, OneLink, CardsAtRest
<1> QED BY <1>1, <1>2, CardStep DEF CardsInv, CardsTyped, CallersOK

(* The logout, the next login and the end of the process *)

\* A step of the logout that lets no sync go.
LEMMA LogoutStep ==
  ASSUME CardsInv, UNCHANGED <<cardSync, cardWorker, cardHandler, cardShown>>,
         cardLink' \in [CardLinks -> CardLinkRecords], Quieter, logout' \in Logouts,
         logout.pc # "sync", logout'.pc # "sync", revoked' \in BOOLEAN,
         logout'.pc \in {"want", "mark"} => logout'.link \in CardLinks,
         revoked' => revoked \/ logout.pc = "next",
         \/ logout'.pc \notin {"next", "want", "mark"}
         \/ logout.pc \in {"next", "want", "mark"}
         \/ NoneIsActive' /\ cardHandler = TC!NoHandler
  PROVE  CardsInv'
<1>1. CardsTyped' BY DEF CardsInv, CardsTyped
<1>2. ASSUME NEW i \in CardLinks PROVE SyncOK(i)'
  BY DEF CardsInv, SyncOK
<1>3. CallersOK' BY DEF CardsInv, CallersOK
<1>4. Disconnected' BY DEF CardsInv, Disconnected, NoneIsActive, Quieter
<1> QED BY <1>1, <1>2, <1>3, <1>4 DEF CardsInv

LEMMA LogoutsAreTyped ==
  ASSUME NEW l \in Logouts, NEW to \in {"idle", "drain", "next", "want", "sync", "mark"},
         NEW i \in CardLinks \cup {0}, NEW rest \in SUBSET CardLinks
  PROVE  /\ [pc |-> to, todo |-> rest, link |-> i] \in Logouts
         /\ [l EXCEPT !.pc = to] \in Logouts /\ [l EXCEPT !.pc = to].pc = to
         /\ [l EXCEPT !.pc = to].link = l.link
         /\ [l EXCEPT !.pc = to, !.todo = rest] \in Logouts
         /\ [l EXCEPT !.pc = to, !.todo = rest].pc = to
         /\ [l EXCEPT !.pc = to, !.link = i] \in Logouts
         /\ [l EXCEPT !.pc = to, !.link = i].pc = to
BY DEF Logouts

LEMMA LogoutBeginsKeeps ==
  ASSUME CardsInv, CardBounds, TC!LogoutBegins
  PROVE  CardsInv'
<1> DEFINE g == [TC!NoLogout EXCEPT !.pc = "drain"]
<1>1. /\ UNCHANGED <<cardLink, cardSync, cardWorker, cardHandler, revoked, cardShown>>
      /\ logout = TC!NoLogout /\ logout' = g
  BY DEF TC!LogoutBegins
<1>2. g \in Logouts /\ g.pc = "drain" /\ logout.pc = "idle"
  BY <1>1, CardsAtRest, LogoutsAreTyped DEF CardsInv, CardsTyped, Logouts
<1>3. cardLink' \in [CardLinks -> CardLinkRecords] /\ Quieter
  BY <1>1 DEF CardsInv, CardsTyped, Quieter
<1> HIDE DEF g
<1> QED BY <1>1, <1>2, <1>3, LogoutStep DEF CardsInv, CardsTyped

LEMMA LogoutSelectsKeeps ==
  ASSUME CardsInv, CardBounds, TC!LogoutSelects
  PROVE  CardsInv'
<1> DEFINE l(i) == IF cardLink[i].state = "active"
                   THEN [TC!Released(cardLink[i]) EXCEPT !.leaving = TRUE] ELSE cardLink[i]
           rest == {i \in CardLinks : cardLink'[i].leaving}
<1>1. /\ UNCHANGED <<cardSync, cardWorker, cardHandler, revoked, cardShown>>
      /\ logout.pc = "drain" /\ cardHandler = TC!NoHandler
      /\ cardLink' = [i \in CardLinks |-> l(i)]
      /\ logout' = [logout EXCEPT !.pc = "next", !.todo = rest]
  BY DEF TC!LogoutSelects, TC!Drained
<1>2. ASSUME NEW i \in CardLinks PROVE l(i) \in CardLinkRecords /\ l(i).state # "active"
  <2>1. CASE cardLink[i].state = "active"
    <3>1. cardLink[i] \in CardLinkRecords BY FoundIsTyped
    <3> QED BY <2>1, <3>1, ReleasedIsALink
  <2>2. CASE cardLink[i].state # "active" BY <2>2, FoundIsTyped
  <2> QED BY <2>1, <2>2
<1> HIDE DEF l
<1>3. cardLink' \in [CardLinks -> CardLinkRecords] /\ Quieter /\ NoneIsActive'
  BY <1>1, <1>2 DEF Quieter, NoneIsActive, TC!EffectivelyActive
<1>4. rest \in SUBSET CardLinks
  OBVIOUS
<1>5. logout' \in Logouts /\ logout'.pc = "next"
  <2> HIDE DEF rest
  <2>1. logout \in Logouts BY DEF CardsInv, CardsTyped
  <2> QED BY <1>1, <1>4, <2>1 DEF Logouts
<1> QED BY <1>1, <1>3, <1>5, LogoutStep DEF CardsInv, CardsTyped

LEMMA LogoutTakesKeeps ==
  ASSUME CardsInv, CardBounds, NEW i \in CardLinks, TC!LogoutTakes(i)
  PROVE  CardsInv'
<1>1. /\ UNCHANGED <<cardLink, cardSync, cardWorker, cardHandler, revoked, cardShown>>
      /\ logout.pc = "next" /\ logout' = [pc |-> "want", todo |-> logout.todo \ {i}, link |-> i]
  BY DEF TC!LogoutTakes
<1>2. logout' \in Logouts /\ logout'.pc = "want" /\ logout'.link = i
  BY <1>1 DEF CardsInv, CardsTyped, Logouts
<1>3. cardLink' \in [CardLinks -> CardLinkRecords] /\ Quieter
  BY <1>1 DEF CardsInv, CardsTyped, Quieter
<1> QED BY <1>1, <1>2, <1>3, LogoutStep DEF CardsInv, CardsTyped

LEMMA LogoutGivesUpKeeps ==
  ASSUME CardsInv, CardBounds, TC!LogoutGivesUp
  PROVE  CardsInv'
<1>1. /\ UNCHANGED <<cardLink, cardSync, cardWorker, cardHandler, revoked, cardShown>>
      /\ logout.pc = "want" /\ logout' = [logout EXCEPT !.pc = "mark"]
  BY DEF TC!LogoutGivesUp
<1>2. logout' \in Logouts /\ logout'.pc = "mark" /\ logout'.link \in CardLinks
  BY <1>1 DEF CardsInv, CardsTyped, Logouts, CallersOK
<1>3. cardLink' \in [CardLinks -> CardLinkRecords] /\ Quieter
  BY <1>1 DEF CardsInv, CardsTyped, Quieter
<1> QED BY <1>1, <1>2, <1>3, LogoutStep DEF CardsInv, CardsTyped

LEMMA LogoutMarksKeeps ==
  ASSUME CardsInv, CardBounds, TC!LogoutMarks
  PROVE  CardsInv'
<1> DEFINE i == logout.link
           l == cardLink[i]
           seen == [l EXCEPT !.leaving = FALSE]
           s == [l.sync EXCEPT !.state = "needs_review", !.waiting = FALSE,
                               !.code = IF @ = "none" THEN "logout" ELSE @]
           m == [seen EXCEPT !.pending = FALSE, !.sync = s]
           new == [seen EXCEPT !.pending = FALSE, !.sync.state = "needs_review",
                               !.sync.waiting = FALSE,
                               !.sync.code = IF @ = "none" THEN "logout" ELSE @]
<1>1. /\ UNCHANGED <<cardSync, cardWorker, cardHandler, revoked, cardShown>>
      /\ logout.pc = "mark" /\ logout' = [logout EXCEPT !.pc = "next", !.link = 0]
      /\ cardLink' = [cardLink EXCEPT ![i] =
                        IF @.state = "none" THEN @
                        ELSE IF l.sync.state = "synced" THEN seen ELSE new]
  BY DEF TC!LogoutMarks, TC!Update
<1>2. i \in CardLinks /\ l \in CardLinkRecords /\ l.sync \in CardSyncs
  BY <1>1, FoundIsTyped DEF CardsInv, CallersOK, CardLinkRecords
<1>3. s \in CardSyncs BY <1>2 DEF CardSyncs
<1>4. /\ seen \in CardLinkRecords /\ seen.state = l.state /\ seen.expired = l.expired
      /\ seen.sync = l.sync
  <2> HIDE DEF CardSyncs, s, l
  <2> QED BY <1>2 DEF CardLinkRecords
<1>5. new = m
  <2> HIDE DEF seen
  <2> QED BY <1>2, <1>4 DEF CardLinkRecords, CardSyncs
<1>6. m \in CardLinkRecords /\ m.state = l.state /\ m.expired = l.expired
  <2> HIDE DEF CardSyncs, s, seen, l
  <2> QED BY <1>3, <1>4 DEF CardLinkRecords
<1>7. \E r \in {l, seen, m} : cardLink' = [cardLink EXCEPT ![i] = r]
  <2> HIDE DEF new, m, seen
  <2> QED BY <1>1, <1>2, <1>5
<1> HIDE DEF m, seen, l, i
<1>8. cardLink' \in [CardLinks -> CardLinkRecords] /\ Quieter
  BY <1>2, <1>4, <1>6, <1>7, OneLink DEF l
<1>9. logout' \in Logouts /\ logout'.pc = "next" BY <1>1 DEF CardsInv, CardsTyped, Logouts
<1> QED BY <1>1, <1>8, <1>9, LogoutStep DEF CardsInv, CardsTyped

LEMMA LogoutRevokesKeeps ==
  ASSUME CardsInv, CardBounds, TC!LogoutRevokes
  PROVE  CardsInv'
<1>1. /\ UNCHANGED <<cardLink, cardSync, cardWorker, cardHandler, cardShown>>
      /\ logout.pc = "next" /\ logout' = TC!NoLogout /\ revoked' = TRUE
  BY DEF TC!LogoutRevokes
<1>2. cardLink' \in [CardLinks -> CardLinkRecords] /\ Quieter
  BY <1>1 DEF CardsInv, CardsTyped, Quieter
<1> QED BY <1>1, <1>2, CardsAtRest, LogoutStep DEF CardsInv, CardsTyped

LEMMA LoginKeeps ==
  ASSUME CardsInv, CardBounds, TC!Login
  PROVE  CardsInv'
<1>1. /\ UNCHANGED <<cardLink, cardSync, cardWorker, cardHandler, logout, cardShown>>
      /\ revoked' = FALSE
  BY DEF TC!Login, TC!running
<1> QED BY <1>1 DEF CardsInv, CardsTyped, SyncOK, CallersOK, Disconnected, NoneIsActive

LEMMA RestartKeeps ==
  ASSUME CardsInv, CardBounds, TC!Restart
  PROVE  CardsInv'
<1>1. /\ UNCHANGED <<cardLink, revoked>>
      /\ cardSync' = [i \in CardLinks |-> TC!NoSync]
      /\ cardWorker' = [i \in CardLinks |-> TC!NoWorker]
      /\ cardHandler' = TC!NoHandler /\ logout' = TC!NoLogout
      /\ cardShown' = cardShown \/ \E i \in CardLinks : TC!Patched(i)
  BY DEF TC!Restart
<1>2. cardShown' \in [CardLinks -> TC!Versions]
  <2>1. CASE cardShown' = cardShown BY <2>1 DEF CardsInv, CardsTyped
  <2>2. ASSUME NEW i \in CardLinks, TC!Patched(i) PROVE cardShown' \in [CardLinks -> TC!Versions]
    BY <2>2, FoundIsTyped DEF TC!Patched
  <2> QED BY <1>1, <2>1, <2>2
<1>3. CardsTyped' BY <1>1, <1>2, CardsAtRest DEF CardsInv, CardsTyped
<1>4. ASSUME NEW i \in CardLinks PROVE SyncOK(i)'
  BY <1>1, CardsAtRest DEF SyncOK
<1>5. CallersOK' /\ Disconnected'
  BY <1>1, CardsAtRest DEF CardsInv, CallersOK, HandlerOK, Disconnected, NoneIsActive
<1> QED BY <1>3, <1>4, <1>5 DEF CardsInv

\* A replacement that was confirmed is written back by its own sync alone.
PatchedStays == \A i \in CardLinks :
                  cardSync[i].pc = "patched" =>
                    \/ cardSync'[i] = cardSync[i] \/ cardLink' = cardLink
                    \/ TC!SyncConfirms(i)

LEMMA SyncStepsKeep ==
  ASSUME CardsInv, CardBounds, NEW i \in CardLinks, TC!SyncSteps(i)
  PROVE  CardsInv' /\ PatchedStays
<1>1. CardsInv'
  BY SyncLooksKeeps, SyncSavesKeeps, SyncSubmitsKeeps, CardPatchedKeeps, PatchCancelledKeeps,
     NotPatchedKeeps, SyncFailsKeeps, SyncConfirmsKeeps
  DEF TC!SyncSteps, TC!PatchRefused
<1>2. ASSUME NEW j \in CardLinks, j # i PROVE cardSync'[j] = cardSync[j]
  BY <1>2 DEF TC!SyncSteps, TC!SyncLooks, TC!SyncSaves, TC!SyncSubmits, TC!CardPatched,
     TC!PatchCancelled, TC!PatchRefused, TC!NotPatched, TC!SyncFails, TC!SyncConfirms,
     TC!SyncEnds, TC!Goes, CardsInv, CardsTyped
<1>3. cardSync[i].pc = "patched" => TC!SyncConfirms(i)
  BY CardsAtRest
  DEF TC!SyncSteps, TC!SyncLooks, TC!SyncSaves, TC!SyncSubmits, TC!CardPatched,
     TC!PatchCancelled, TC!PatchRefused, TC!NotPatched, TC!SyncFails, TC!At
<1> QED BY <1>1, <1>2, <1>3 DEF PatchedStays

LEMMA ActsKeep ==
  ASSUME CardsInv, CardBounds, NEW i \in CardLinks, TC!Acts(i)
  PROVE  CardsInv' /\ PatchedStays
<1>1. ASSUME NEW o \in {"update", "interrupt", "release"}, TC!Operate(o, i)
      PROVE  CardsInv' /\ PatchedStays
  <2>1. TC!Enter(o, i, "write") BY <1>1 DEF TC!Operate
  <2>2. cardSync' = cardSync BY <2>1 DEF TC!Enter
  <2> QED BY <2>1, <2>2, EnterKeeps DEF PatchedStays
<1>2. ASSUME NEW code \in {"temporary", "unknown", "permanent"}, TC!PatchFails(i, code)
      PROVE  CardsInv' /\ PatchedStays
  <2>1. TC!NotPatched(i, code) BY <1>2 DEF TC!PatchFails
  <2>2. cardLink' = cardLink BY <2>1 DEF TC!NotPatched
  <2> QED BY <2>1, <2>2, NotPatchedKeeps DEF PatchedStays
<1>3. CASE TC!WatcherWrites(i) \/ TC!ArchiveReleases(i) \/ TC!LeaseEnds(i) \/ TC!CleanupRemoves(i)
  <2>1. cardSync' = cardSync
    BY <1>3 DEF TC!WatcherWrites, TC!ArchiveReleases, TC!LeaseEnds, TC!CleanupRemoves, TC!running
  <2> QED BY <1>3, <2>1, WatcherWritesKeeps, ArchiveReleasesKeeps, LeaseEndsKeeps,
             CleanupRemovesKeeps DEF PatchedStays
<1> QED BY <1>1, <1>2, <1>3 DEF TC!Acts

LEMMA CardsStep ==
  ASSUME CardsInv, CardBounds, [TC!Next]_TC!vars
  PROVE  CardsInv' /\ PatchedStays
<1>1. CASE UNCHANGED TC!vars
  <2>1. UNCHANGED <<cardLink, cardSync, cardWorker, cardHandler, logout, revoked, cardShown>>
    BY <1>1 DEF TC!vars, TC!running
  <2>2. cardLink' \in [CardLinks -> CardLinkRecords] /\ Quieter
    BY <2>1 DEF CardsInv, CardsTyped, Quieter
  <2> QED BY <2>1, <2>2, CardStep DEF CardsInv, CardsTyped, CallersOK, PatchedStays
<1>2. ASSUME NEW i \in CardLinks,
             TC!BackoffEnds(i) \/ TC!Works(i) \/ TC!MaintenanceDelivers(i)
      PROVE  CardsInv' /\ PatchedStays
  <2>1. cardSync' = cardSync
    BY <1>2 DEF TC!BackoffEnds, TC!Works, TC!WorkerLooks, TC!WorkerGoesOn, TC!WorkerRemoved,
       TC!MaintenanceDelivers, TC!running
  <2> QED BY <1>2, <2>1, BackoffEndsKeeps, WorksKeeps, MaintenanceKeeps DEF PatchedStays
<1>3. CASE TC!CreateTaskLink
  <2>1. TC!Enter("create", 0, "upsert") BY <1>3 DEF TC!CreateTaskLink
  <2>2. cardSync' = cardSync BY <2>1 DEF TC!Enter
  <2> QED BY <2>1, <2>2, EnterKeeps DEF PatchedStays
<1>4. CASE TC!Handles
  <2>1. cardSync' = cardSync
    BY <1>4 DEF TC!Handles, TC!Upsert, TC!HandlerWrites, TC!SendRootCard, TC!StoreRootCard
  <2> QED BY <1>4, <2>1, UpsertKeeps, HandlerWritesKeeps, SendRootCardKeeps, StoreRootCardKeeps
          DEF TC!Handles, PatchedStays
<1>5. CASE TC!LogoutBegins \/ TC!LogoutGivesUp \/ TC!LogsOut \/ TC!Login
  <2>1. cardSync' = cardSync
    BY <1>5 DEF TC!LogoutBegins, TC!LogoutGivesUp, TC!LogsOut, TC!LogoutSelects, TC!LogoutTakes,
       TC!LogoutMarks, TC!LogoutRevokes, TC!Login, TC!running
  <2> QED BY <1>5, <2>1, LogoutBeginsKeeps, LogoutGivesUpKeeps, LogoutSelectsKeeps,
             LogoutTakesKeeps, LogoutMarksKeeps, LogoutRevokesKeeps, LoginKeeps
          DEF TC!LogsOut, PatchedStays
<1>6. CASE TC!Restart
  <2>1. cardLink' = cardLink BY <1>6 DEF TC!Restart
  <2> QED BY <1>6, <2>1, RestartKeeps DEF PatchedStays
<1> QED BY <1>1, <1>2, <1>3, <1>4, <1>5, <1>6, SyncStepsKeep, ActsKeep DEF TC!Next

LEMMA CardsStart ==
  ASSUME CardBounds, TC!Init
  PROVE  CardsInv
<1>1. /\ cardLink = [i \in CardLinks |-> TC!NoLink] /\ cardSync = [i \in CardLinks |-> TC!NoSync]
      /\ cardWorker = [i \in CardLinks |-> TC!NoWorker] /\ cardHandler = TC!NoHandler
      /\ logout = TC!NoLogout /\ revoked = FALSE
      /\ cardShown = [i \in CardLinks |-> TC!NoVersion]
  BY DEF TC!Init
<1>2. TC!NoVersion \in TC!Versions BY DEF TC!Versions
<1>3. CardsTyped BY <1>1, <1>2, CardsAtRest DEF CardsTyped
<1>4. ASSUME NEW i \in CardLinks PROVE SyncOK(i)
  BY <1>1, CardsAtRest DEF SyncOK
<1>5. CallersOK /\ Disconnected BY <1>1, CardsAtRest DEF CallersOK, HandlerOK, Disconnected
<1> QED BY <1>3, <1>4, <1>5 DEF CardsInv

\* From the revocation to the next login no link controls a task and no operation is under way;
\* and the state of links, syncs and callers is of its type.
THEOREM RevokedStaysDisconnected ==
  ASSUME CardBounds
  PROVE  TC!Spec => [](TC!TypeOK /\ TC!RevokedIsDisconnected)
<1>1. TC!Init => CardsInv BY CardsStart
<1>2. CardsInv /\ [TC!Next]_TC!vars => CardsInv' BY CardsStep
<1>3. CardsInv => TC!TypeOK /\ TC!RevokedIsDisconnected
  <2> SUFFICES ASSUME CardsInv PROVE TC!TypeOK /\ TC!RevokedIsDisconnected
    OBVIOUS
  <2>1. TC!TypeOK
    BY DEF CardsInv, CardsTyped, CardLinkRecords, CardSyncs, SyncCalls, CardWorkers, CardHandlers,
       Logouts, TC!TypeOK
  <2>2. TC!RevokedIsDisconnected
    BY DEF CardsInv, Disconnected, NoneIsActive, TC!RevokedIsDisconnected, TC!Current
  <2> QED BY <2>1, <2>2
<1> QED BY <1>1, <1>2, <1>3, PTL DEF TC!Spec

\* What is written to a link l outside of a sync gives no card to a link that had ended, nor
\* takes a mark away, but for a person to look.
Follows(l, m) ==
  /\ ~l.card /\ ~TC!EffectivelyActive(l) => ~m.card /\ ~TC!EffectivelyActive(m)
  /\ l.pending => m.state = "none" \/ m.pending \/ m.sync.state = "needs_review"

\* A sync that found no card found an ended link, which gets none any more.
Cardless(i) ==
  cardSync[i].pc = "no_card" => ~cardLink[i].card /\ ~TC!EffectivelyActive(cardLink[i])

LEMMA WrittenFollows ==
  ASSUME NEW l \in CardLinkRecords, NEW s \in CardSyncs
  PROVE  /\ Follows(l, l)
         /\ Follows(l, TC!Changed(l)) /\ Follows(l, TC!Released(l))
         /\ Follows(l, [TC!Changed(l) EXCEPT !.pending = TRUE])
         /\ Follows(l, [TC!Released(l) EXCEPT !.leaving = TRUE])
         /\ Follows(l, [l EXCEPT !.pending = TRUE])
         /\ Follows(l, [l EXCEPT !.expired = TRUE])
         /\ Follows(l, [l EXCEPT !.leaving = FALSE])
         /\ Follows(l, [l EXCEPT !.sync = s])
         /\ TC!EffectivelyActive(l) => Follows(l, [l EXCEPT !.card = TRUE])
         /\ s.state = "needs_review" =>
              Follows(l, [[l EXCEPT !.leaving = FALSE] EXCEPT !.pending = FALSE, !.sync = s])
         /\ Follows(l, TC!NoLink)
<1>1. /\ Follows(l, l)
      /\ Follows(l, TC!Changed(l)) /\ Follows(l, TC!Released(l))
      /\ Follows(l, [TC!Changed(l) EXCEPT !.pending = TRUE])
      /\ Follows(l, [TC!Released(l) EXCEPT !.leaving = TRUE])
  <2> HIDE DEF CardSyncs
  <2> QED BY DEF Follows, CardLinkRecords, TC!Changed, TC!Released, TC!EffectivelyActive
<1>2. /\ Follows(l, [l EXCEPT !.pending = TRUE])
      /\ Follows(l, [l EXCEPT !.expired = TRUE])
      /\ Follows(l, [l EXCEPT !.leaving = FALSE])
      /\ Follows(l, [l EXCEPT !.sync = s])
      /\ TC!EffectivelyActive(l) => Follows(l, [l EXCEPT !.card = TRUE])
  <2> HIDE DEF CardSyncs
  <2> QED BY DEF Follows, CardLinkRecords, TC!EffectivelyActive
<1>3. s.state = "needs_review" =>
        Follows(l, [[l EXCEPT !.leaving = FALSE] EXCEPT !.pending = FALSE, !.sync = s])
  <2> HIDE DEF CardSyncs
  <2> QED BY DEF Follows, CardLinkRecords, TC!EffectivelyActive
<1>4. Follows(l, TC!NoLink)
  <2>1. TC!NoLink.state = "none" /\ ~TC!NoLink.card BY DEF TC!NoLink
  <2> QED BY <2>1 DEF Follows, TC!EffectivelyActive
<1> QED BY <1>1, <1>2, <1>3, <1>4

\* Whoever changes a link outside of its sync; a new link takes the place of none.
Written(i) == \/ Follows(cardLink[i], cardLink'[i])
              \/ cardLink[i].state = "none" /\ cardSync[i] = TC!NoSync

LEMMA HandlerFollows ==
  ASSUME CardsInv, CardBounds, NEW i \in CardLinks, TC!Handles
  PROVE  Written(i)
<1>1. cardLink[i] \in CardLinkRecords BY FoundIsTyped
<1>2. cardLink[i].sync \in CardSyncs BY <1>1 DEF CardLinkRecords
<1>3. /\ Follows(cardLink[i], cardLink[i])
      /\ Follows(cardLink[i], TC!Changed(cardLink[i]))
      /\ Follows(cardLink[i], TC!Released(cardLink[i]))
      /\ Follows(cardLink[i], [TC!Changed(cardLink[i]) EXCEPT !.pending = TRUE])
      /\ TC!EffectivelyActive(cardLink[i]) =>
           Follows(cardLink[i], [cardLink[i] EXCEPT !.card = TRUE])
  BY <1>1, <1>2, WrittenFollows
<1>4. ASSUME NEW j \in CardLinks, TC!Upsert(j) PROVE Written(i)
  <2>1. \/ cardLink' = cardLink
        \/ /\ cardLink[j].state = "none" /\ cardSync[j] = TC!NoSync
           /\ cardLink' = [cardLink EXCEPT ![j] = [TC!NoLink EXCEPT !.state = "active"]]
    BY <1>4 DEF TC!Upsert, TC!Drawn
  <2>2. cardLink'[i] = cardLink[i] \/ (cardLink[i].state = "none" /\ cardSync[i] = TC!NoSync)
    BY <2>1, FoundIsTyped
  <2> QED BY <1>3, <2>2 DEF Written
<1>5. CASE TC!HandlerWrites
  <2> DEFINE j == cardHandler.link
             l == cardLink[j]
             c == [TC!Changed(l) EXCEPT !.pending = TRUE]
  <2>1. cardHandler.pc = "write" /\ j \in CardLinks
    BY <1>5 DEF TC!HandlerWrites, CardsInv, CallersOK, HandlerOK
  <2>2. cardHandler.op \in {"release", "interrupt", "update"}
    BY <2>1 DEF CardsInv, CallersOK, HandlerOK
  <2>3. \E m \in {l, TC!Released(l), TC!Changed(l), c} : cardLink' = [cardLink EXCEPT ![j] = m]
    <3>1. CASE cardHandler.op = "release"
      BY <1>5, <2>1, <3>1, FoundIsTyped DEF TC!HandlerWrites, TC!Update
    <3>2. CASE cardHandler.op = "interrupt"
      BY <1>5, <2>1, <3>2, FoundIsTyped DEF TC!HandlerWrites, TC!UpdateActive
    <3>3. CASE cardHandler.op = "update"
      BY <1>5, <2>1, <3>3, FoundIsTyped DEF TC!HandlerWrites, TC!UpdateActive
    <3> QED BY <2>2, <3>1, <3>2, <3>3
  <2>4. cardLink'[i] \in {cardLink[i], TC!Released(cardLink[i]), TC!Changed(cardLink[i]),
                          [TC!Changed(cardLink[i]) EXCEPT !.pending = TRUE]}
    <3>1. CASE i = j BY <2>3, <3>1, FoundIsTyped
    <3>2. CASE i # j BY <2>3, <3>2, FoundIsTyped
    <3> QED BY <3>1, <3>2
  <2> QED BY <1>3, <2>4 DEF Written
<1>6. CASE TC!StoreRootCard
  <2>1. /\ cardHandler.pc = "store" /\ cardHandler.link \in CardLinks
        /\ cardLink' = [cardLink EXCEPT ![cardHandler.link] =
                          IF TC!EffectivelyActive(@)
                          THEN [cardLink[cardHandler.link] EXCEPT !.card = TRUE] ELSE @]
    BY <1>6 DEF TC!StoreRootCard, TC!UpdateActive, CardsInv, CallersOK, HandlerOK
  <2>2. \/ cardLink'[i] = cardLink[i]
        \/ TC!EffectivelyActive(cardLink[i]) /\ cardLink'[i] = [cardLink[i] EXCEPT !.card = TRUE]
    BY <2>1, FoundIsTyped
  <2> QED BY <1>3, <2>2 DEF Written
<1>7. CASE TC!SendRootCard BY <1>3, <1>7 DEF TC!SendRootCard, Written
<1> QED BY <1>4, <1>5, <1>6, <1>7 DEF TC!Handles

LEMMA LogoutFollows ==
  ASSUME CardsInv, CardBounds, NEW i \in CardLinks,
         TC!LogoutBegins \/ TC!LogoutGivesUp \/ TC!LogsOut \/ TC!Login
  PROVE  Written(i)
<1>1. cardLink[i] \in CardLinkRecords /\ cardLink[i].sync \in CardSyncs
  BY FoundIsTyped DEF CardLinkRecords
<1>2. /\ Follows(cardLink[i], cardLink[i])
      /\ Follows(cardLink[i], [TC!Released(cardLink[i]) EXCEPT !.leaving = TRUE])
      /\ Follows(cardLink[i], [cardLink[i] EXCEPT !.leaving = FALSE])
  BY <1>1, WrittenFollows
<1>3. CASE TC!LogoutSelects
  <2>1. cardLink'[i] = IF cardLink[i].state = "active"
                       THEN [TC!Released(cardLink[i]) EXCEPT !.leaving = TRUE] ELSE cardLink[i]
    BY <1>3 DEF TC!LogoutSelects
  <2> QED BY <1>2, <2>1 DEF Written
<1>4. CASE TC!LogoutMarks
  <2> DEFINE j == logout.link
             l == cardLink[j]
             seen == [l EXCEPT !.leaving = FALSE]
             s == [l.sync EXCEPT !.state = "needs_review", !.waiting = FALSE,
                                 !.code = IF @ = "none" THEN "logout" ELSE @]
             m == [seen EXCEPT !.pending = FALSE, !.sync = s]
             new == [seen EXCEPT !.pending = FALSE, !.sync.state = "needs_review",
                                 !.sync.waiting = FALSE,
                                 !.sync.code = IF @ = "none" THEN "logout" ELSE @]
  <2>1. cardLink' = [cardLink EXCEPT ![j] = IF @.state = "none" THEN @
                                            ELSE IF l.sync.state = "synced" THEN seen ELSE new]
    BY <1>4 DEF TC!LogoutMarks, TC!Update
  <2>2. j \in CardLinks /\ l \in CardLinkRecords /\ l.sync \in CardSyncs
    BY <1>4, FoundIsTyped DEF TC!LogoutMarks, CardsInv, CallersOK, CardLinkRecords
  <2>3. s \in CardSyncs /\ s.state = "needs_review" BY <2>2 DEF CardSyncs
  <2>4. seen \in CardLinkRecords /\ seen.sync = l.sync
    <3> HIDE DEF CardSyncs, s, l
    <3> QED BY <2>2 DEF CardLinkRecords
  <2>5. new = m
    <3> HIDE DEF seen
    <3> QED BY <2>2, <2>4 DEF CardLinkRecords, CardSyncs
  <2>6. Follows(l, l) /\ Follows(l, seen) /\ Follows(l, m)
    <3> HIDE DEF l, s
    <3> QED BY <2>2, <2>3, WrittenFollows
  <2> HIDE DEF new, m, seen
  <2>7. CASE i = j
    <3>1. cardLink'[i] \in {l, seen, m} BY <2>1, <2>2, <2>5, <2>7, FoundIsTyped
    <3> QED BY <2>6, <2>7, <3>1 DEF Written
  <2>8. CASE i # j
    <3>1. cardLink'[i] = cardLink[i] BY <2>1, <2>8, FoundIsTyped
    <3> QED BY <1>2, <3>1 DEF Written
  <2> QED BY <2>7, <2>8
<1>5. CASE TC!LogoutBegins \/ TC!LogoutGivesUp \/ TC!LogoutRevokes \/ TC!Login
  BY <1>2, <1>5 DEF TC!LogoutBegins, TC!LogoutGivesUp, TC!LogoutRevokes, TC!Login, Written
<1>6. ASSUME NEW j \in CardLinks, TC!LogoutTakes(j) PROVE Written(i)
  BY <1>2, <1>6 DEF TC!LogoutTakes, Written
<1> QED BY <1>3, <1>4, <1>5, <1>6 DEF TC!LogsOut

LEMMA OthersFollow ==
  ASSUME CardsInv, CardBounds, NEW i \in CardLinks, NEW j \in CardLinks,
         \/ TC!BackoffEnds(j) \/ TC!MaintenanceDelivers(j) \/ TC!WatcherWrites(j)
         \/ TC!ArchiveReleases(j) \/ TC!LeaseEnds(j) \/ TC!CleanupRemoves(j)
  PROVE  Written(i)
<1> DEFINE l == cardLink[j]
           s == [l.sync EXCEPT !.waiting = FALSE]
<1>1. l \in CardLinkRecords /\ cardLink[i] \in CardLinkRecords BY FoundIsTyped
<1>2. l.sync \in CardSyncs /\ cardLink[i].sync \in CardSyncs BY <1>1 DEF CardLinkRecords
<1>3. s \in CardSyncs BY <1>2 DEF CardSyncs
<1>4. \E m \in {l, [l EXCEPT !.sync = s], [l EXCEPT !.pending = TRUE],
                [TC!Changed(l) EXCEPT !.pending = TRUE], TC!Released(l),
                [l EXCEPT !.expired = TRUE], TC!NoLink} :
        cardLink' = [cardLink EXCEPT ![j] = m]
  <2>1. CASE TC!BackoffEnds(j)
    <3>1. cardLink' = [cardLink EXCEPT ![j] = [l EXCEPT !.sync = s]]
      BY <2>1, FoundIsTyped DEF TC!BackoffEnds
    <3> QED BY <3>1
  <2>2. CASE TC!MaintenanceDelivers(j)
    <3>1. \/ cardLink' = [cardLink EXCEPT ![j] = [l EXCEPT !.pending = TRUE]]
          \/ cardLink' = [cardLink EXCEPT ![j] = l]
      BY <2>2, FoundIsTyped DEF TC!MaintenanceDelivers
    <3> QED BY <3>1
  <2>3. CASE TC!WatcherWrites(j)
    <3>1. cardLink' = [cardLink EXCEPT ![j] = [TC!Changed(l) EXCEPT !.pending = TRUE]]
      BY <2>3 DEF TC!WatcherWrites
    <3> QED BY <3>1
  <2>4. CASE TC!ArchiveReleases(j)
    <3>1. cardLink' = [cardLink EXCEPT ![j] = TC!Released(l)]
      BY <2>4, FoundIsTyped DEF TC!ArchiveReleases
    <3> QED BY <3>1
  <2>5. CASE TC!LeaseEnds(j)
    <3>1. cardLink' = [cardLink EXCEPT ![j] = [l EXCEPT !.expired = TRUE]]
      BY <2>5, FoundIsTyped DEF TC!LeaseEnds
    <3> QED BY <3>1
  <2>6. CASE TC!CleanupRemoves(j) BY <2>6 DEF TC!CleanupRemoves
  <2> QED BY <2>1, <2>2, <2>3, <2>4, <2>5, <2>6
<1>5. /\ Follows(l, l) /\ Follows(l, [l EXCEPT !.sync = s])
      /\ Follows(l, [l EXCEPT !.pending = TRUE])
      /\ Follows(l, [TC!Changed(l) EXCEPT !.pending = TRUE]) /\ Follows(l, TC!Released(l))
      /\ Follows(l, [l EXCEPT !.expired = TRUE]) /\ Follows(l, TC!NoLink)
      /\ Follows(cardLink[i], cardLink[i])
  <2> HIDE DEF l, s
  <2> QED BY <1>1, <1>2, <1>3, WrittenFollows
<1>6. PICK m : cardLink' = [cardLink EXCEPT ![j] = m] /\ Follows(l, m)
  <2> HIDE DEF l, s
  <2> QED BY <1>4, <1>5
<1> QED BY <1>5, <1>6, FoundIsTyped DEF Written

\* A step is one of the sync of a link, or leaves every sync alone and follows its links, or
\* lets a sync go to where it is not cardless.
LEMMA LinksFollow ==
  ASSUME CardsInv, CardBounds, [TC!Next]_TC!vars, NEW i \in CardLinks
  PROVE  \/ TC!SyncSteps(i)
         \/ /\ Written(i)
            /\ cardSync'[i] = cardSync[i] \/ cardSync'[i].pc # "no_card"
<1>1. cardLink[i] \in CardLinkRecords /\ cardLink[i].sync \in CardSyncs
  BY FoundIsTyped DEF CardLinkRecords
<1>2. Follows(cardLink[i], cardLink[i]) BY <1>1, WrittenFollows
<1>3. CASE cardLink' = cardLink /\ cardSync' = cardSync BY <1>2, <1>3 DEF Written
<1>4. ASSUME NEW j \in CardLinks, TC!SyncSteps(j), j # i
      PROVE  Written(i) /\ cardSync'[i] = cardSync[i]
  <2>1. cardLink'[i] = cardLink[i]
    BY <1>4 DEF TC!SyncSteps, TC!SyncLooks, TC!SyncSaves, TC!SyncSubmits, TC!CardPatched,
       TC!PatchCancelled, TC!PatchRefused, TC!NotPatched, TC!SyncFails, TC!SyncConfirms,
       TC!Saved, TC!Update, CardsInv, CardsTyped
  <2>2. cardSync'[i] = cardSync[i]
    BY <1>4 DEF TC!SyncSteps, TC!SyncLooks, TC!SyncSaves, TC!SyncSubmits, TC!CardPatched,
       TC!PatchCancelled, TC!PatchRefused, TC!NotPatched, TC!SyncFails, TC!SyncConfirms,
       TC!SyncEnds, TC!Goes, CardsInv, CardsTyped
  <2> QED BY <1>2, <2>1, <2>2 DEF Written
<1>5. ASSUME NEW j \in CardLinks,
             \/ TC!BackoffEnds(j) \/ TC!MaintenanceDelivers(j) \/ TC!WatcherWrites(j)
             \/ TC!ArchiveReleases(j) \/ TC!LeaseEnds(j) \/ TC!CleanupRemoves(j)
      PROVE  Written(i) /\ cardSync'[i] = cardSync[i]
  <2>1. cardSync' = cardSync
    BY <1>5 DEF TC!BackoffEnds, TC!MaintenanceDelivers, TC!WatcherWrites, TC!ArchiveReleases,
       TC!LeaseEnds, TC!CleanupRemoves, TC!running
  <2> QED BY <1>5, <2>1, OthersFollow
<1>6. ASSUME NEW j \in CardLinks, NEW code \in {"temporary", "unknown", "permanent"},
             TC!PatchFails(j, code)
      PROVE  Written(i) /\ (cardSync'[i] = cardSync[i] \/ cardSync'[i].pc # "no_card")
  <2>1. /\ cardLink' = cardLink
        /\ cardSync' = [cardSync EXCEPT ![j].pc = "failed", ![j].found.code = code]
    BY <1>6 DEF TC!PatchFails, TC!NotPatched
  <2>2. cardSync'[i] = cardSync[i] \/ cardSync'[i].pc = "failed"
    <3>1. cardSync[j] \in SyncCalls /\ cardSync \in [CardLinks -> SyncCalls]
      BY DEF CardsInv, CardsTyped
    <3>2. CASE i = j
      <4>1. cardSync'[i] = [[cardSync[i] EXCEPT !.pc = "failed"] EXCEPT !.found.code = code]
        BY <2>1, <3>1, <3>2
      <4>2. [cardSync[i] EXCEPT !.pc = "failed"].pc = "failed" BY <3>1, <3>2 DEF SyncCalls
      <4>3. cardSync'[i].pc = "failed"
        <5> HIDE DEF CardSyncs
        <5> QED BY <3>1, <3>2, <4>1 DEF SyncCalls
      <4> QED BY <4>3
    <3>3. CASE i # j BY <2>1, <3>1, <3>3
    <3> QED BY <3>2, <3>3
  <2> QED BY <1>2, <2>1, <2>2 DEF Written
<1>7. ASSUME NEW j \in CardLinks, NEW o \in {"update", "interrupt", "release"}, TC!Operate(o, j)
      PROVE  Written(i) /\ cardSync'[i] = cardSync[i]
  BY <1>2, <1>7 DEF TC!Operate, TC!Enter, Written
<1>8. CASE TC!CreateTaskLink BY <1>2, <1>8 DEF TC!CreateTaskLink, TC!Enter, Written
<1>9. CASE TC!Handles
  <2>1. cardSync' = cardSync
    BY <1>9 DEF TC!Handles, TC!Upsert, TC!HandlerWrites, TC!SendRootCard, TC!StoreRootCard
  <2> QED BY <1>9, <2>1, HandlerFollows
<1>10. CASE TC!LogoutBegins \/ TC!LogoutGivesUp \/ TC!LogsOut \/ TC!Login
  <2>1. cardSync' = cardSync
    BY <1>10 DEF TC!LogoutBegins, TC!LogoutGivesUp, TC!LogsOut, TC!LogoutSelects, TC!LogoutTakes,
       TC!LogoutMarks, TC!LogoutRevokes, TC!Login, TC!running
  <2> QED BY <1>10, <2>1, LogoutFollows
<1>11. CASE TC!Restart
  <2>1. cardLink' = cardLink /\ cardSync'[i] = TC!NoSync BY <1>11 DEF TC!Restart
  <2> QED BY <1>2, <2>1, CardsAtRest DEF Written
<1>12. ASSUME NEW j \in CardLinks, TC!Works(j) PROVE cardLink' = cardLink /\ cardSync' = cardSync
  BY <1>12 DEF TC!Works, TC!WorkerLooks, TC!WorkerGoesOn, TC!WorkerRemoved
<1>13. CASE UNCHANGED TC!vars BY <1>3, <1>13 DEF TC!vars, TC!running
<1>14. CASE TC!Next
  <2>1. ASSUME NEW j \in CardLinks, TC!Acts(j)
        PROVE  Written(i) /\ (cardSync'[i] = cardSync[i] \/ cardSync'[i].pc # "no_card")
    BY <2>1, <1>5, <1>6, <1>7 DEF TC!Acts
  <2>2. ASSUME NEW j \in CardLinks, TC!SyncSteps(j)
        PROVE  TC!SyncSteps(i) \/ (Written(i) /\ cardSync'[i] = cardSync[i])
    BY <1>4, <2>2
  <2>3. ASSUME NEW j \in CardLinks, TC!BackoffEnds(j) \/ TC!MaintenanceDelivers(j)
        PROVE  Written(i) /\ cardSync'[i] = cardSync[i]
    BY <1>5, <2>3
  <2>4. ASSUME NEW j \in CardLinks, TC!Works(j)
        PROVE  Written(i) /\ cardSync'[i] = cardSync[i]
    BY <1>2, <1>12, <2>4 DEF Written
  <2> QED BY <1>8, <1>9, <1>10, <1>11, <1>14, <2>1, <2>2, <2>3, <2>4 DEF TC!Next
<1> QED BY <1>13, <1>14

\* What a sync leaves of the link it was called for.
LEMMA SyncFollows ==
  ASSUME CardsInv, CardBounds, NEW i \in CardLinks, TC!SyncSteps(i), Cardless(i)
  PROVE  /\ Cardless(i)'
         /\ TC!Unmarks(i) => TC!MarkIsDone(i) \/ TC!At(i, "skip")
<1>1. /\ cardSync[i].found \in CardSyncs /\ cardLink[i] \in CardLinkRecords
      /\ cardSync \in [CardLinks -> SyncCalls] /\ TC!NoSync.pc = "idle"
  BY FoundIsTyped, CardsAtRest DEF CardsInv, CardsTyped
<1>2. ASSUME cardLink' = cardLink PROVE ~TC!Unmarks(i)
  BY <1>2 DEF TC!Unmarks
<1>3. ASSUME TC!SyncEnds(i) PROVE Cardless(i)'
  BY <1>1, <1>3 DEF TC!SyncEnds, Cardless
<1>4. ASSUME NEW pc \in {"patch", "patched"}, TC!Goes(i, pc) PROVE Cardless(i)'
  <2>1. cardSync'[i].pc = pc
    <3> HIDE DEF CardSyncs
    <3> QED BY <1>1, <1>4 DEF TC!Goes, SyncCalls
  <2> QED BY <2>1 DEF Cardless
<1>5. ASSUME NEW who \in {"worker", "handler", "logout"}, TC!SyncLooks(who, i)
      PROVE  Cardless(i)' /\ ~TC!Unmarks(i)
  <2> DEFINE l == cardLink[i]
  <2>1. /\ cardLink' = cardLink
        /\ \/ cardSync' = cardSync
           \/ cardSync' = [cardSync EXCEPT ![i] = [by |-> who, pc |-> TC!Decision(l),
                             version |-> TC!Version(l), found |-> TC!Reopened(l.sync)]]
    BY <1>5 DEF TC!SyncLooks
  <2>2. cardSync'[i] = cardSync[i] \/ cardSync'[i].pc = TC!Decision(l) BY <1>1, <2>1
  <2>3. TC!Decision(l) = "no_card" => ~l.card /\ ~TC!EffectivelyActive(l)
    <3>1. CASE ~l.card BY <3>1 DEF TC!Decision
    <3>2. CASE l.card
      <4>1. TC!Decision(l) \in {"return", "skip", "give_up", "submit"}
        <5>1. CASE l.sync.state = "needs_review" /\ (l.sync.code # "unknown" \/ TC!Exhausted(l.sync))
          BY <3>2, <5>1 DEF TC!Decision
        <5>2. CASE l.sync.state # "needs_review" /\ l.sync.waiting BY <3>2, <5>2 DEF TC!Decision
        <5>3. CASE /\ ~(l.sync.state = "needs_review"
                        /\ (l.sync.code # "unknown" \/ TC!Exhausted(l.sync)))
                   /\ ~(l.sync.state # "needs_review" /\ l.sync.waiting)
          BY <3>2, <5>3 DEF TC!Decision
        <5> QED BY <5>1, <5>2, <5>3
      <4> QED BY <4>1
    <3> QED BY <3>1, <3>2
  <2> QED BY <1>2, <2>1, <2>2, <2>3 DEF Cardless
<1>6. CASE TC!SyncSaves(i)
  <2> DEFINE f == cardSync[i].found
             g == [f EXCEPT !.state = "needs_review", !.code = "exhausted"]
             n == [TC!NoCardSync EXCEPT !.state = "synced", !.code = "no_card",
                                        !.shows = TC!EffectiveState(cardLink[i])]
  <2>1. /\ cardSync[i].pc \in {"skip", "no_card", "give_up"}
        /\ TC!SyncEnds(i)
        /\ TC!Saved(i, CASE cardSync[i].pc = "skip" -> f [] cardSync[i].pc = "give_up" -> g
                         [] OTHER -> n, FALSE)
    BY <1>6 DEF TC!SyncSaves, TC!At
  <2>2. g \in CardSyncs /\ g.state = "needs_review" BY <1>1 DEF CardSyncs
  <2>3. n \in CardSyncs BY CardsAtRest DEF CardSyncs, TC!EffectiveState
  <2> HIDE DEF f, g, n
  <2>4. CASE cardSync[i].pc = "skip" BY <1>3, <2>1, <2>4 DEF TC!At
  <2>5. CASE cardSync[i].pc = "give_up"
    <3>1. TC!Saved(i, g, FALSE) BY <2>1, <2>5
    <3>2. cardLink[i].state # "none" => cardLink'[i].sync = g
      BY <2>2, <3>1, SavedKeeps DEF CardsInv
    <3> QED BY <1>3, <2>1, <2>2, <3>2 DEF TC!Unmarks, TC!MarkIsDone
  <2>6. CASE cardSync[i].pc = "no_card"
    <3>1. TC!Saved(i, n, FALSE) BY <2>1, <2>6
    <3>2. ~cardLink'[i].card BY <2>3, <2>6, <3>1, SavedKeeps DEF CardsInv, Cardless
    <3> QED BY <1>3, <2>1, <3>2 DEF TC!MarkIsDone
  <2> QED BY <2>1, <2>4, <2>5, <2>6
<1>7. CASE TC!SyncSubmits(i)
  <2> DEFINE f == [cardSync[i].found EXCEPT !.state = "pending"]
  <2>1. TC!Saved(i, f, TRUE) /\ (TC!SyncEnds(i) \/ TC!Goes(i, "patch"))
    BY <1>7 DEF TC!SyncSubmits
  <2>2. f \in CardSyncs BY <1>1 DEF CardSyncs
  <2> HIDE DEF f
  <2>3. cardLink[i].state # "none" => cardLink'[i].pending BY <2>1, <2>2, SavedKeeps DEF CardsInv
  <2> QED BY <1>3, <1>4, <2>1, <2>3 DEF TC!Unmarks
<1>8. CASE TC!CardPatched(i) \/ TC!PatchCancelled(i)
  BY <1>2, <1>3, <1>4, <1>8 DEF TC!CardPatched, TC!PatchCancelled
<1>9. CASE TC!PatchRefused(i)
  <2>1. /\ cardLink' = cardLink
        /\ cardSync' = [cardSync EXCEPT ![i].pc = "failed", ![i].found.code = "permanent"]
    BY <1>9 DEF TC!PatchRefused, TC!NotPatched
  <2>2. cardSync'[i].pc = "failed"
    <3> HIDE DEF CardSyncs
    <3> QED BY <1>1, <2>1 DEF SyncCalls
  <2> QED BY <1>2, <2>1, <2>2 DEF Cardless
<1>10. CASE TC!SyncFails(i)
  <2> DEFINE t == [cardSync[i].found EXCEPT !.attempts = @ + 1]
             r == t.code # "permanent" /\ ~TC!Exhausted(t)
             s == [t EXCEPT !.state = IF r THEN "waiting_retry" ELSE "needs_review",
                            !.waiting = r]
  <2>1. cardSync[i].pc = "failed" /\ TC!Saved(i, s, r) /\ TC!SyncEnds(i)
    BY <1>10 DEF TC!SyncFails, TC!At
  <2>2. cardSync[i].found.attempts + 1 \in 0 .. CardAttempts
    BY <1>1, <2>1 DEF CardsInv, SyncOK, CardSyncs, CardBounds
  <2>3. t \in CardSyncs BY <1>1, <2>2 DEF CardSyncs
  <2> HIDE DEF t
  <2>4. r \in BOOLEAN
    OBVIOUS
  <2> HIDE DEF r
  <2>5. s \in CardSyncs /\ s.state = IF r THEN "waiting_retry" ELSE "needs_review"
    BY <2>3, <2>4 DEF CardSyncs
  <2> HIDE DEF s
  <2>6. cardLink[i].state # "none" => cardLink'[i].pending = r /\ cardLink'[i].sync = s
    BY <2>1, <2>4, <2>5, SavedKeeps DEF CardsInv
  <2> QED BY <1>3, <2>1, <2>5, <2>6 DEF TC!Unmarks, TC!MarkIsDone
<1>11. CASE TC!SyncConfirms(i)
  BY <1>3, <1>11, SyncConfirmsKeeps DEF TC!SyncConfirms, TC!Unmarks, TC!MarkIsDone
<1> QED BY <1>5, <1>6, <1>7, <1>8, <1>9, <1>10, <1>11 DEF TC!SyncSteps

CardsStrongly == CardsInv /\ \A i \in CardLinks : Cardless(i)

LEMMA StronglyStep ==
  ASSUME CardsStrongly, CardBounds, [TC!Next]_TC!vars
  PROVE  /\ CardsStrongly'
         /\ \A i \in CardLinks : TC!Unmarks(i) => TC!MarkIsDone(i) \/ TC!At(i, "skip")
<1>1. CardsInv' /\ PatchedStays BY CardsStep DEF CardsStrongly
<1>2. ASSUME NEW i \in CardLinks
      PROVE  /\ Cardless(i)'
             /\ TC!Unmarks(i) => TC!MarkIsDone(i) \/ TC!At(i, "skip")
  <2>1. CASE TC!SyncSteps(i) BY <2>1, SyncFollows DEF CardsStrongly
  <2>2. CASE /\ Written(i)
             /\ cardSync'[i] = cardSync[i] \/ cardSync'[i].pc # "no_card"
    <3>1. Cardless(i)' BY <2>2, CardsAtRest DEF CardsStrongly, Cardless, Written, Follows
    <3>2. ASSUME TC!Unmarks(i), cardLink[i].pending PROVE TC!MarkIsDone(i)
      BY <2>2, <3>2 DEF Written, Follows, TC!Unmarks, TC!MarkIsDone
    <3>3. ASSUME TC!Unmarks(i), TC!At(i, "patched"), cardSync'[i] = TC!NoSync
          PROVE  TC!MarkIsDone(i)
      <4>1. TC!SyncConfirms(i) BY <1>1, <3>3, CardsAtRest DEF PatchedStays, TC!At, TC!Unmarks
      <4> QED BY <3>3, <4>1, SyncConfirmsKeeps DEF CardsStrongly, TC!Unmarks, TC!MarkIsDone
    <3> QED BY <3>1, <3>2, <3>3 DEF TC!Unmarks
  <2> QED BY <2>1, <2>2, LinksFollow DEF CardsStrongly
<1> QED BY <1>1, <1>2 DEF CardsStrongly

\* Whoever writes a link while its card is replaced or given up: a mark goes, or a replacement
\* is confirmed without one, only if what Feishu shows is the card that the link should have at
\* that moment, or the card is left to a person, or there is none. Excepted is the sync that
\* skips (task_card_sync.go:98), which looks at nothing written since it read the link.
THEOREM MarksOfCardsGoRightly ==
  ASSUME CardBounds
  PROVE  TC!Spec => MarksGoRightly
<1>1. TC!Init => CardsStrongly BY CardsStart, CardsAtRest DEF CardsStrongly, Cardless, TC!Init
<1>2. CardsStrongly /\ [TC!Next]_TC!vars => CardsStrongly' BY StronglyStep
<1>3. CardsStrongly /\ [TC!Next]_TC!vars =>
        [\A i \in CardLinks :
           TC!Unmarks(i) => TC!MarkIsDone(i) \/ TC!At(i, "skip")]_TC!vars
  BY StronglyStep
<1> QED BY <1>1, <1>2, <1>3, PTL DEF TC!Spec, MarksGoRightly, TC!MarksGoRightly
==============================================================================
