-------------------------------- MODULE Peers --------------------------------
(* The processes around the Core: the supervisor of the Feishu child, the private connection *)
(* to it and the host with its Cores, which share nothing, and what they promise.            *)
EXTENDS Supervisor

CONSTANTS
  PeerCalls, PeerOf(_), PeerPending, PeerHandlers, PeerWrites, PeerWire, PeerFaults,
  HostRequests, Platforms, MaxCores, HostQueue, HostBudgets

VARIABLES
  peerClosed, caller, ended, pending, response, handler, handlerEnded, writes, wire, stalls,
  platform, host, started, made, hostPending, core, hostLeft

P == INSTANCE PrivatePeer WITH
       Calls <- PeerCalls, From <- PeerOf, MaxPending <- PeerPending,
       MaxHandlers <- PeerHandlers, MaxWrites <- PeerWrites, MaxWire <- PeerWire,
       MaxFaults <- PeerFaults, closed <- peerClosed, cancelled <- handlerEnded, faults <- stalls

H == INSTANCE HostLink WITH
       Requests <- HostRequests, MaxQueue <- HostQueue, Budgets <- HostBudgets,
       pending <- hostPending, left <- hostLeft

\* HostLink's: one Core at work.
OneCore == H!OneCore

\* What the others rest on: the types; that what the supervisor reports as ready or starting
\* is, that it kills no child but the one whose connection is over, and restarts it a bounded
\* number of times (supervisor.go); that what a caller is told is true (peer.go:214).
ProcessesSound ==
  /\ TypeOK /\ P!TypeOK /\ H!TypeOK
  /\ ReadyIsReady /\ StartingIsPending /\ KilledIsClosed /\ RestartsBounded
  /\ P!ToldIsTrue
==============================================================================
