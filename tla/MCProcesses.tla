----------------------------- MODULE MCProcesses -----------------------------
(* Small instances of four components that share no state: the supervisor of the Feishu      *)
(* child, the private connection to it, a card edit the child makes, and the host with its   *)
(* Cores. A behaviour is one of a single component, chosen at its start; the others stay as  *)
(* they were made. These are the components that must get somewhere by themselves.           *)
EXTENDS Peers

CONSTANTS
  c1, c2,                 \* two callers whose Stops and Restarts overlap
  NoOp, NoLedger, NoCall  \* of ServiceMessages

MCCallers == {c1, c2}

VARIABLES
  part,  \* the component that moves
  ops, ledger, policy, late, editUp, call, admitted, resuming, sweep, recovering, loaded, given,
  consent, remoteWrites, applied, told, requests, editFaults, editCrashes

supervisor == vars
peers ==
  <<peerClosed, caller, ended, pending, response, handler, handlerEnded, writes, wire, stalls>>
hosts == <<platform, host, started, made, hostPending, core, hostLeft>>
edits ==
  <<ops, ledger, policy, late, editUp, call, admitted, resuming, sweep, recovering, loaded,
    given, consent, remoteWrites, applied, told, requests, editFaults, editCrashes>>

------------------------------------------------------------------------------
\* Both calls are the Core's: one handler at a time, one frame queued and one on its way.
FromCore(c) == "core"

MCHostRequests == {[kind |-> "normal", n |-> 1], [kind |-> "read", n |-> 1]}

MCHostBudgets ==
  {[crashes |-> 1, timeouts |-> 0, exits |-> 1], [crashes |-> 0, timeouts |-> 1, exits |-> 2]}

\* One card edit, which may be replaced once its outcome is unknown, and a crash.
EditTarget == [k \in {"edit"} |-> "chat"]

E == INSTANCE ServiceMessages WITH
       Keys <- {"edit"}, Edits <- {"edit"}, Targets <- {"chat"}, TargetOf <- EditTarget,
       Slots <- 4, MaxOps <- 2, MaxCalls <- 2, MaxPolicies <- 0, MaxFaults <- 0,
       MaxCrashes <- 1,
       up <- editUp, writes <- remoteWrites, calls <- requests, faults <- editFaults,
       crashes <- editCrashes

------------------------------------------------------------------------------
MCInit ==
  /\ part \in {"supervisor", "peers", "hosts", "edits"}
  /\ Init /\ P!Init /\ H!Init /\ E!Init
  /\ part # "supervisor" => other = FALSE
  /\ part # "hosts" => hostLeft = (CHOOSE b \in HostBudgets : TRUE) /\ platform = "macos"
  /\ part # "edits" => policy.decision = "allowed"

SupervisorNext == part = "supervisor" /\ Next /\ UNCHANGED <<part, peers, hosts, edits>>
PeersNext == part = "peers" /\ P!Next /\ UNCHANGED <<part, supervisor, hosts, edits>>
HostsNext == part = "hosts" /\ H!Next /\ UNCHANGED <<part, supervisor, peers, edits>>
EditsNext == part = "edits" /\ E!Next /\ UNCHANGED <<part, supervisor, peers, hosts>>

MCNext == SupervisorNext \/ PeersNext \/ HostsNext \/ EditsNext

\* The fairness of the four modules.
MCSpec ==
  /\ MCInit /\ [][MCNext]_<<part, supervisor, peers, hosts, edits>>
  /\ WF_vars(part = "supervisor" /\ (FireRestart \/ FireConflict))
  /\ WF_vars(part = "supervisor" /\ Tick)
  /\ WF_vars(part = "supervisor" /\ (Wait \/ (proc = "killed" /\ ChildExits)))
  /\ WF_vars(part = "supervisor" /\ ServeStep)
  /\ \A g \in Generations : WF_vars(part = "supervisor" /\ CallbackStep(g))
  /\ \A c \in Callers :
       WF_vars(/\ part = "supervisor"
               /\ StopDone(c) \/ Deadline(c) \/ ResetBudget(c) \/ StartAgain(c))
  /\ \A c \in {"a", "b"} : /\ WF_peers(part = "peers" /\ P!CallSteps(c))
                           /\ WF_peers(part = "peers" /\ P!HandlerSteps(c))
  /\ \A s \in {"core", "child"} : WF_peers(part = "peers" /\ P!EndSteps(s))
  /\ \A p \in 1..3 : WF_hosts(part = "hosts" /\ H!CoreSteps(p))
  /\ WF_edits(part = "edits" /\ E!CallStep("edit"))
  /\ \A o \in 1..2 : WF_edits(part = "edits" /\ E!Resume(o))
  /\ WF_edits(part = "edits" /\ E!Start) /\ WF_edits(part = "edits" /\ E!RecoveryStep)

------------------------------------------------------------------------------
\* PrivatePeer's, HostLink's and ServiceMessages's: a call that was given up ends at the other
\* end, too; no Core outlives its host; what was confirmed or claimed ends, or waits for the
\* next request, and a replacement never repeats an edit whose outcome is known
\* (service_message_resume.go).
OthersEnd ==
  /\ [](E!TypeOK /\ E!WrittenOnce)
  /\ []<>(~P!GoesOn /\ ~H!Orphaned /\ ~E!Unsettled)
=============================================================================
