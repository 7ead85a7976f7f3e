----------------------------- MODULE Connections -----------------------------
(* Four components of the Core that face somebody else, as instances that share no state:    *)
(* the app server client, the view of Codex Desktop's tasks, the cache of the child's        *)
(* snapshots, and the uploads through the local gateway; and what each of them promises.     *)
CONSTANTS
  CodexCallers, Processes, Answerers, MaxRequests, CodexBudgets,    \* of CodexClient
  Observers, Owners, DesktopConnections, MaxFrames, DesktopBudgets,  \* of DesktopTasks
  MaxReads, PushSlots, MaxChildren, SnapshotsBudgets,          \* of Snapshots
  Clients, MaxClients, MaxTransfers, MaxBytes, Cost, Scratch, Decoders, Chunks, UploadsBudgets

VARIABLES
  cmd, closed, process, exitDone, nextID, pending, channels, received, answers, outputReader,
  caller, closer, serverRequests, answer, answerGiven, codexLeft,
  connection, clientID, connectionGeneration, socket, wire, taskOwner, pendingOwners, refreshes,
  cache, observer, waiters, waiterChannels, desktopAsked, task, follows, pushed, desktopLeft,
  state, alive, generation, revision, previous, publisher, push, reader, cached, snapshotsLeft,
  server, conn, client, requests, transfer, bytes, slots, runs, clientTold, uploadsLeft

X == INSTANCE CodexClient WITH
       Callers <- CodexCallers, Budgets <- CodexBudgets, reader <- outputReader,
       given <- answerGiven, left <- codexLeft

D == INSTANCE DesktopTasks WITH
       Connections <- DesktopConnections, MaxWire <- MaxFrames, Budgets <- DesktopBudgets,
       generation <- connectionGeneration, owner <- taskOwner, channels <- waiterChannels,
       asked <- desktopAsked, left <- desktopLeft

S == INSTANCE Snapshots WITH
       Slots <- PushSlots, Budgets <- SnapshotsBudgets, left <- snapshotsLeft

U == INSTANCE Uploads WITH
       Budgets <- UploadsBudgets, calls <- requests, told <- clientTold, left <- uploadsLeft

\* What the promises rest on: the types; that a call to Codex is handed one answer and a request
\* of its is answered once (client.go:669, :457); that no sender waits at a channel of an
\* observation and every read has a reader (activity.go:488); that the memory of uploads is
\* that of the transfers there are (upload.go:78).
ConnectionsSound ==
  /\ X!TypeOK /\ D!TypeOK /\ S!TypeOK /\ U!TypeOK
  /\ X!HandedOnce /\ X!AnsweredOnce
  /\ D!NobodyBlocks /\ D!ReadingEnds
  /\ U!MemoryIsHeld

\* CodexClient's: no process outlives the client's use of it.
OneProcess == X!OneProcess

\* DesktopTasks's: who is woken for a snapshot sees it, or a later one.
SeesWhatWoke == D!SeesWhatWoke

\* Snapshots's: what is shown was said by the child that is connected.
OldNeverLands == S!OldNeverLands

\* Uploads's: a request runs once, and as its client was told.
RunsAreTrue == U!RunsAreTrue
=============================================================================
