----------------------------- MODULE MCOutgoing -----------------------------
(* What the processes send to others, as small instances that share no state: the messages  *)
(* the child sends to Feishu (one message, with a change of the policy or a failing write,   *)
(* and a crash; or a message and a card edit for one chat), the app server client, the view  *)
(* of Codex Desktop's tasks, the cache of the child's snapshots, and the uploads through the *)
(* local gateway. A behaviour is one of a single instance, chosen at its start; the others   *)
(* stay as they were made.                                                                   *)
EXTENDS ServiceMessages, Connections

CONSTANTS m1, c1, t1

MessageAndEdit == {m1, c1}
TheEdit == {c1}
TheChat == {t1}
OneChat == [k \in MessageAndEdit |-> t1]

VARIABLE part  \* the instance that moves

messages == vars
codex ==
  <<cmd, closed, process, exitDone, nextID, pending, channels, received, answers, outputReader,
    caller, closer, serverRequests, answer, answerGiven, codexLeft>>
desktop ==
  <<connection, clientID, connectionGeneration, socket, wire, taskOwner, pendingOwners, refreshes,
    cache, observer, waiters, waiterChannels, desktopAsked, task, follows, pushed, desktopLeft>>
snapshots ==
  <<state, alive, generation, revision, previous, publisher, push, reader, cached,
    snapshotsLeft>>
uploads ==
  <<server, conn, client, requests, transfer, bytes, slots, runs, clientTold, uploadsLeft>>

------------------------------------------------------------------------------
\* One message alone, while the policy changes or writing fails, and the child crashes.
MaxTroubles == 1
M == INSTANCE ServiceMessages WITH MaxPolicies <- 1, MaxFaults <- 1, MaxCrashes <- 1

MCCodexBudgets ==
  {[calls |-> 2, faults |-> 2, requests |-> 0], [calls |-> 1, faults |-> 1, requests |-> 1]}

Looks ==
  [calls |-> 2, updates |-> 0, moves |-> 0, breaks |-> 0, timeouts |-> 0, numeric |-> TRUE,
   passive |-> {}]

MCDesktopBudgets ==
  {[Looks EXCEPT !.calls = 3, !.updates = 1],
   [Looks EXCEPT !.calls = 1, !.updates = 1, !.numeric = FALSE],
   [Looks EXCEPT !.updates = 1, !.passive = {"b"}],
   [Looks EXCEPT !.moves = 1], [Looks EXCEPT !.calls = 1, !.moves = 1, !.breaks = 1],
   [Looks EXCEPT !.breaks = 2], [Looks EXCEPT !.timeouts = 1]}

MCSnapshotsBudgets == {[changes |-> 1, reads |-> 0], [changes |-> 0, reads |-> 1]}

Uploads1 == [uploads |-> 1, ends |-> 0, drops |-> 0, repeats |-> 2, closes |-> 0]

\* A transfer takes four units and a message one: there is memory for two and one.
MCUploadsBudgets ==
  {Uploads1, [Uploads1 EXCEPT !.ends = 1, !.drops = 1, !.repeats = 0],
   [Uploads1 EXCEPT !.uploads = 2, !.drops = 1, !.repeats = 0, !.closes = 1]}

------------------------------------------------------------------------------
Some(set) == CHOOSE x \in set : TRUE

\* The messages that are not at work are those of the extended module, with one policy.
MCInit ==
  /\ part \in {"message", "both", "codex", "desktop", "snapshots", "uploads"}
  /\ IF part = "message" THEN M!Init ELSE Init
  /\ part \notin {"message", "both"} => policy.decision = "allowed"
  /\ X!Init /\ D!Init /\ S!Init /\ U!Init
  /\ part # "codex" => codexLeft = Some(CodexBudgets)
  /\ part # "desktop" => desktopLeft = Some(DesktopBudgets)
  /\ part # "snapshots" => snapshotsLeft = Some(SnapshotsBudgets)
  /\ part # "uploads" => uploadsLeft = Some(UploadsBudgets)

MessageNext ==
  /\ part = "message" /\ M!Next /\ call'[c1] = NoCall
  /\ (policy'.rev - 1) + faults' <= MaxTroubles
  /\ UNCHANGED <<part, codex, desktop, snapshots, uploads>>
BothNext ==
  part = "both" /\ Next /\ UNCHANGED <<part, codex, desktop, snapshots, uploads>>
CodexNext ==
  part = "codex" /\ X!Next /\ UNCHANGED <<part, messages, desktop, snapshots, uploads>>
DesktopNext ==
  part = "desktop" /\ D!Next /\ UNCHANGED <<part, messages, codex, snapshots, uploads>>
SnapshotsNext ==
  part = "snapshots" /\ S!Next /\ UNCHANGED <<part, messages, codex, desktop, uploads>>
UploadsNext ==
  part = "uploads" /\ U!Next /\ UNCHANGED <<part, messages, codex, desktop, snapshots>>

MCNext ==
  MessageNext \/ BothNext \/ CodexNext \/ DesktopNext \/ SnapshotsNext \/ UploadsNext

MCSpec == MCInit /\ [][MCNext]_<<part, messages, codex, desktop, snapshots, uploads>>

------------------------------------------------------------------------------
\* ServiceMessages's own MessagesSound, WrittenOnce and VerdictsAreTrue are about the operations
\* alone and say the same of both of its instances; the others are Connections's.
=============================================================================
