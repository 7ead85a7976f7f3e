--------------------------- MODULE MCConfiguration ---------------------------
(* Small instances of what a user configures and watches, three components that share no   *)
(* state: the Core's requests with their receipts; the configuration page of a desktop; and *)
(* its dashboard. A behaviour is one of a single component, chosen at its start; the others *)
(* stay as they were made.                                                                  *)
EXTENDS Configuration, Desktops, TLC

MCAction == "c1" :> "create_app" @@ "c2" :> "create_app" @@ "f1" :> "finish_app"
         @@ "k1" :> "cancel_flow" @@ "l1" :> "logout" @@ "t1" :> "test_message"
         @@ "t2" :> "test_message" @@ "x1" :> "restart"

MCRequests == DOMAIN MCAction

Asks(first, requests) ==
  [app |-> first, asked |-> requests, crashes |-> 0, restarts |-> 0, reconnects |-> 0,
   failures |-> 0, half |-> {}]

\* A scan checked, and then a logout; a scan ended by a crash, cancelled or lost; a test
\* message beside a logout; a second message; a reconnection; and a scan or a logout that stops
\* halfway.
MCBudgets ==
  {[Asks("missing", {"c1", "f1"}) EXCEPT !.failures = 1],
   Asks("missing", {"c1", "f1", "l1"}),
   [Asks("missing", {"c1", "c2"}) EXCEPT !.crashes = 1],
   [Asks("missing", {"c1", "k1"}) EXCEPT !.failures = 1, !.restarts = 1],
   [Asks("present", {"t1", "l1"}) EXCEPT !.crashes = 1],
   [Asks("present", {"t1", "l1"}) EXCEPT !.failures = 1],
   [Asks("present", {"t1", "t2"}) EXCEPT !.failures = 1],
   [Asks("present", {"x1"}) EXCEPT !.failures = 1, !.restarts = 1, !.reconnects = 1],
   [Asks("missing", {"c1", "l1"}) EXCEPT !.failures = 1, !.half = {"registration", "purge"}]}

------------------------------------------------------------------------------
VARIABLE part      \* the component that moves

pages == <<desk, pageCore, page, pageReads, pageOp, pageCard, pageLeft>>
boards ==
  <<desk, account, activity, boardCore, boardJob, board, boardMain, boardTell, boardAsked,
    boardLeft>>

MCDesks == {"macos", "windows"}

Still == [changes |-> 0, restarts |-> 0, reads |-> 0, actions |-> 0, failures |-> 0,
          cards |-> 0, meets |-> 0]

\* An action while the Core changes, with its answer lost, beside a Core that starts again or a
\* task card.
MCPageBudgets ==
  {[Still EXCEPT !.changes = 1, !.actions = 1, !.reads = 1, !.failures = 1],
   [Still EXCEPT !.actions = 2, !.failures = 2],
   [Still EXCEPT !.actions = 1, !.restarts = 2, !.reads = 1, !.failures = 1],
   [Still EXCEPT !.changes = 1, !.actions = 1, !.cards = 1, !.failures = 1]}

\* An action begins while the page is being read.
MeetBudgets == {[Still EXCEPT !.changes = 1, !.actions = 1, !.meets = 1]}

Quiet == [account |-> 0, activity |-> 0, roots |-> 0, pins |-> 0, forced |-> 0,
          history |-> 0, failures |-> 0, timers |-> 0, intervals |-> 0]

\* Two forced refreshes, of an account that changes; a root chosen twice, or beside a pin; tasks
\* that move while a timer refreshes; and a token history beside the dashboard.
MCBoardBudgets ==
  {[Quiet EXCEPT !.account = 1, !.forced = 2, !.failures = 1],
   [Quiet EXCEPT !.roots = 2, !.failures = 1],
   [Quiet EXCEPT !.roots = 1, !.pins = 1],
   [Quiet EXCEPT !.account = 1, !.activity = 1, !.forced = 1, !.timers = 1],
   [Quiet EXCEPT !.account = 1, !.activity = 1, !.history = 1, !.intervals = 1],
   [Quiet EXCEPT !.activity = 1, !.history = 1, !.failures = 1]}

------------------------------------------------------------------------------
Some(set) == CHOOSE x \in set : TRUE

MCInit ==
  /\ part \in {"core", "page", "board"}
  /\ CP!Init /\ DB!Init /\ Init
  /\ part # "core" => left = Some(MCBudgets)
  /\ part # "page" => pageLeft = Some(MCPageBudgets)
  /\ part # "board" => boardLeft = Some(MCBoardBudgets)
  /\ part = "core" => desk = "macos"

CoreNext == part = "core" /\ Next /\ UNCHANGED <<part, pages, boards>>
PageNext == part = "page" /\ CP!Next /\ UNCHANGED <<part, vars, boards>>
BoardNext == part = "board" /\ DB!Next /\ UNCHANGED <<part, vars, pages>>

MCNext == CoreNext \/ PageNext \/ BoardNext

\* The fairness of the three modules.
MCSpec ==
  /\ MCInit /\ [][MCNext]_<<part, vars, pages, boards>>
  /\ WF_vars(part = "core" /\ \E r \in left.asked : Handles(r))
  /\ WF_vars(part = "core" /\ \E r \in left.asked : Queries(r))
  /\ WF_vars(part = "core" /\ StartRefresh)
  /\ WF_vars(part = "core" /\ Refreshes)
  /\ WF_vars(part = "core" /\ GoesOn)
  /\ WF_pages(part = "page" /\ (CP!Polls \/ CP!Answers))
  /\ WF_boards(part = "board" /\ DB!Progress)
  /\ WF_boards(part = "board" /\ DB!MonitorReads)

\* The page alone.
PageSpec ==
  /\ MCInit /\ part = "page" /\ [][PageNext]_<<part, vars, pages, boards>>
  /\ WF_pages(part = "page" /\ (CP!Polls \/ CP!Answers))

------------------------------------------------------------------------------
\* ConfigurationPage's: the page goes on observing the Core.
KeepsObserving == CP!KeepsObserving

\* Configuration's, ConfigurationPage's and Dashboards's: a receipt that can be answered is, the
\* page goes on observing, and the dashboard keeps up.
AllCatchUp ==
  []<>(/\ part = "core" => \A r \in Requests : ~Answerable(r)
       /\ part = "page" => page.shown = CP!Snapshot \/ pageOp.phase = "dialog"
       /\ part = "board" => DB!Current)
==============================================================================
