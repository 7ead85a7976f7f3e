------------------------------ MODULE TaskCards ------------------------------
(* The Feishu card of a task link and the durable mark that says it must be replaced
   (integration/task_card_sync.go, card_delivery_worker.go, archive_reconciliation.go,
   health.go, logout.go, the card half of runtime_api.go and task_links.go).
   Several goroutines change a link under the lock of the store: the handler of an
   operation, watchers of its turn, the archive reconciliation and the logout. Each sync
   of a card holds the sync lock of its link, reads the link, asks the Feishu child to
   replace the card, and writes what it knows back into a link that may have changed.
   What a card shows is a number; the 500 ms pause between two bodies of the same phase
   and the wake channel, which only shorten the two seconds of a worker, are left out. *)
EXTENDS Integers

CONSTANTS Links,        \* the connections that may be made, one after the other
          MaxAttempts,  \* retrypolicy: failed replacements before a person must look
          Budgets       \* what may happen in one behaviour: see left

Texts == {0, 1}   \* what the card of an active link may show
Ended == {2, 3}   \* the cards of a released and of an expired link
NoVersion == -1
Versions == {NoVersion} \cup Texts \cup Ended

VARIABLES
  link,     \* the durable links
  sync,     \* per link: who holds its sync lock, and how far that sync is
  worker,   \* per link: the goroutine of deliverTaskCard
  handler,  \* the admitted operation that holds the lock of the task
  logout,   \* DisconnectForLogout
  revoked,  \* the identity was revoked, and nobody has logged in since
  shown,    \* Feishu: what the card of each link shows
  left      \* how many operations, writes of watchers, faults (failed or lost calls,
            \* restarts), ends of a lease, logouts, archived tasks and removals may happen

running == <<sync, worker, handler, logout>>
vars == <<link, sync, worker, handler, logout, revoked, shown, left>>

Spend(what) == left[what] > 0 /\ left' = [left EXCEPT ![what] = @ - 1]

------------------------------------------------------------------------------
(* Links *)

NoCardSync == [state |-> "none", code |-> "none", attempts |-> 0, waiting |-> FALSE,
               synced |-> NoVersion, shows |-> "none"]

NoLink == [state |-> "none", expired |-> FALSE, text |-> 0, card |-> FALSE, pending |-> FALSE,
           leaving |-> FALSE, sync |-> NoCardSync]

EffectivelyActive(l) == l.state = "active" /\ ~l.expired

EffectiveState(l) == IF EffectivelyActive(l) THEN "active" ELSE "ended"

\* TaskLinkCardJSON renders the state the link effectively has at this moment.
Version(l) == CASE l.state = "released" -> 2
                [] l.state = "active" /\ l.expired -> 3
                [] OTHER -> l.text

Exhausted(s) == s.attempts >= MaxAttempts

\* TaskLinkCardSyncPending: an edit nobody knows the outcome of counts as pending.
SyncPending(l) ==
  IF l.sync.state = "needs_review" THEN l.sync.code = "unknown" /\ ~Exhausted(l.sync)
  ELSE l.pending /\ ~l.sync.waiting

\* A released link needs a new card only if it has one at all.
Released(l) == [l EXCEPT !.state = "released", !.text = 0, !.pending = l.pending \/ l.card]

\* Nothing is created or updated for an identifier that is not in the file.
Update(i, new) == link' = [link EXCEPT ![i] = IF @.state = "none" THEN @ ELSE new]

UpdateActive(i, new) == link' = [link EXCEPT ![i] = IF EffectivelyActive(@) THEN new ELSE @]

Changed(l) == [l EXCEPT !.text = 1 - @]

------------------------------------------------------------------------------
(* Who waits for the sync lock of a link, and who goes on when a sync is over *)

NoSync == [by |-> "nobody", pc |-> "idle", version |-> NoVersion, found |-> NoCardSync]

NoHandler == [op |-> "none", pc |-> "idle", link |-> 0]

NoLogout == [pc |-> "idle", todo |-> {}, link |-> 0]

NoWorker == [pc |-> "off", cancelled |-> FALSE]

Wants(who, i) == CASE who = "worker" -> worker[i].pc = "want"
                   [] who = "handler" -> handler.pc = "want" /\ handler.link = i
                   [] who = "logout" -> logout.pc = "want" /\ logout.link = i

Cancelled(i) == sync[i].by = "worker" /\ worker[i].cancelled

\* The process that has the lock now says so in its own pc, and moves on at the end.
Moves(who, i, pcs) ==
  /\ worker' = IF who = "worker" THEN [worker EXCEPT ![i] = [NoWorker EXCEPT !.pc = pcs.worker]]
               ELSE worker
  /\ handler' = IF who = "handler" THEN pcs.handler ELSE handler
  /\ logout' = IF who = "logout" THEN [logout EXCEPT !.pc = pcs.logout] ELSE logout

SyncEnds(i) ==
  /\ sync' = [sync EXCEPT ![i] = NoSync]
  /\ Moves(sync[i].by, i, [worker |-> "wait", handler |-> NoHandler, logout |-> "mark"])

Goes(i, pc) == /\ sync' = [sync EXCEPT ![i].pc = pc]
               /\ UNCHANGED <<worker, handler, logout>>

------------------------------------------------------------------------------
(* SyncTaskLinkCard *)

\* What to do about the link l with the card it should have.
Decision(l) ==
  LET s == l.sync IN
  CASE ~l.card -> IF EffectivelyActive(l) THEN "return" ELSE "no_card"
    [] l.card /\ s.state = "needs_review" /\ (s.code # "unknown" \/ Exhausted(s)) -> "return"
    [] l.card /\ s.state # "needs_review" /\ s.waiting -> "return"
    [] l.card /\ ~(s.state = "needs_review" /\ (s.code # "unknown" \/ Exhausted(s)))
              /\ ~(s.state # "needs_review" /\ s.waiting) ->
         IF s.synced = Version(l) THEN "skip"
         ELSE IF Exhausted(s) THEN "give_up"
         ELSE "submit"

Reopened(s) == IF s.state = "needs_review"
               THEN [s EXCEPT !.state = "pending", !.code = "none", !.waiting = FALSE] ELSE s

\* The lock is taken and the newest link is read; a call cancelled meanwhile returns.
SyncLooks(who, i) ==
  /\ sync[i] = NoSync
  /\ Wants(who, i)
  /\ LET l == link[i]
         over == l.state = "none" \/ (who = "worker" /\ worker[i].cancelled)
                 \/ Decision(l) = "return"
     IN IF over
        THEN /\ Moves(who, i, [worker |-> "wait", handler |-> NoHandler, logout |-> "mark"])
             /\ UNCHANGED sync
        ELSE /\ sync' = [sync EXCEPT ![i] = [by |-> who, pc |-> Decision(l),
                                             version |-> Version(l), found |-> Reopened(l.sync)]]
             /\ worker' = IF who = "worker" THEN [worker EXCEPT ![i].pc = "sync"] ELSE worker
             /\ handler' = IF who = "handler" THEN [handler EXCEPT !.pc = "sync"] ELSE handler
             /\ logout' = IF who = "logout" THEN [logout EXCEPT !.pc = "sync"] ELSE logout
  /\ UNCHANGED <<link, revoked, shown, left>>

At(i, pc) == sync[i].pc = pc

Saved(i, s, pending) == Update(i, [link[i] EXCEPT !.sync = s, !.pending = pending])

\* saveCardSync without a replacement: the state that was read, and no mark.
SyncSaves(i) ==
  /\ sync[i].pc \in {"skip", "no_card", "give_up"}
  /\ Saved(i, CASE At(i, "skip") -> sync[i].found
                [] At(i, "give_up") -> [sync[i].found EXCEPT !.state = "needs_review",
                                                             !.code = "exhausted"]
                [] OTHER -> [NoCardSync EXCEPT !.state = "synced", !.code = "no_card",
                                               !.shows = EffectiveState(link[i])], FALSE)
  /\ SyncEnds(i)
  /\ UNCHANGED <<revoked, shown, left>>

SyncSubmits(i) ==
  /\ At(i, "submit")
  /\ IF link[i].state = "none" THEN SyncEnds(i)
     ELSE Goes(i, "patch")
  /\ Saved(i, [sync[i].found EXCEPT !.state = "pending"], TRUE)
  /\ UNCHANGED <<revoked, shown, left>>

Patched(i) == shown' = [shown EXCEPT ![i] = sync[i].version]

\* PatchCard: the card is replaced, and the call was not cancelled by then.
CardPatched(i) ==
  /\ At(i, "patch")
  /\ ~revoked
  /\ ~Cancelled(i)
  /\ Patched(i)
  /\ Goes(i, "patched")
  /\ UNCHANGED <<link, revoked, left>>

\* A cancelled call may still have replaced the card; nothing is written about it.
PatchCancelled(i) ==
  /\ At(i, "patch")
  /\ Cancelled(i)
  /\ Patched(i) \/ UNCHANGED shown
  /\ SyncEnds(i)
  /\ UNCHANGED <<link, revoked, left>>

NotPatched(i, code) ==
  /\ At(i, "patch")
  /\ ~Cancelled(i)
  /\ IF code = "unknown" THEN Patched(i) \/ UNCHANGED shown ELSE UNCHANGED shown
  /\ sync' = [sync EXCEPT ![i].pc = "failed", ![i].found.code = code]
  /\ UNCHANGED <<link, worker, handler, logout, revoked>>

\* An answer that does not come leaves the outcome of the edit unknown.
PatchFails(i, code) == ~revoked /\ Spend("faults") /\ NotPatched(i, code)

\* Nobody is logged in.
PatchRefused(i) == revoked /\ NotPatched(i, "permanent") /\ UNCHANGED left

SyncFails(i) ==
  /\ At(i, "failed")
  /\ LET tried == [sync[i].found EXCEPT !.attempts = @ + 1]
         retried == tried.code # "permanent" /\ ~Exhausted(tried)
     IN Saved(i, [tried EXCEPT !.state = IF retried THEN "waiting_retry" ELSE "needs_review",
                               !.waiting = retried], retried)
  /\ SyncEnds(i)
  /\ UNCHANGED <<revoked, shown, left>>

\* Mutant: the mark goes whatever the link says by now.
AnyCard(l, version) == FALSE

\* The mark stays when the link should show another card by now.
Outdated(l, version) == Version(l) # version

SyncConfirms(i) ==
  /\ At(i, "patched")
  /\ LET l == link[i]
         again == Outdated(l, sync[i].version)
         s == [NoCardSync EXCEPT !.state = IF again THEN "pending" ELSE "synced",
                                 !.synced = sync[i].version,
                                 !.shows = IF sync[i].version \in Ended THEN "ended" ELSE "active"]
     IN Saved(i, s, again)
  /\ SyncEnds(i)
  /\ UNCHANGED <<revoked, shown, left>>

SyncSteps(i) == \/ \E who \in {"worker", "handler", "logout"} : SyncLooks(who, i)
                \/ SyncSaves(i) \/ SyncSubmits(i) \/ CardPatched(i) \/ PatchCancelled(i)
                \/ PatchRefused(i) \/ SyncFails(i) \/ SyncConfirms(i)

BackoffEnds(i) ==
  /\ link[i].sync.waiting
  /\ link' = [link EXCEPT ![i].sync.waiting = FALSE]
  /\ UNCHANGED <<running, revoked, shown, left>>

------------------------------------------------------------------------------
(* The worker of a card: deliverTaskCard and cancelTaskCardSend *)

\* A worker that has returned keeps its key for a moment: nothing is launched then.
Delivered(i) == IF worker[i].pc = "off" THEN [worker EXCEPT ![i].pc = "look"] ELSE worker

CancelledSend(i) == IF worker[i].pc \in {"want", "sync"}
                    THEN [worker EXCEPT ![i].cancelled = TRUE] ELSE worker

WorkerLooks(i) ==
  /\ worker[i].pc = "look"
  /\ worker' = [worker EXCEPT ![i].pc = IF link[i].state = "none" THEN "over"
                                        ELSE IF SyncPending(link[i]) THEN "want" ELSE "wait"]
  /\ UNCHANGED <<link, sync, handler, logout, revoked, shown, left>>

\* Every two seconds, or woken; a tick that finds nothing to do is left out.
WorkerGoesOn(i) ==
  /\ worker[i].pc = "wait"
  /\ \/ /\ ~EffectivelyActive(link[i])
        /\ ~SyncPending(link[i])
        /\ worker' = [worker EXCEPT ![i].pc = "over"]
     \/ /\ SyncPending(link[i])
        /\ worker' = [worker EXCEPT ![i].pc = "look"]
  /\ UNCHANGED <<link, sync, handler, logout, revoked, shown, left>>

\* Mutant: the key of a worker that has returned stays.
WorkerKeepsKey(i) == worker[i].pc = "over" /\ UNCHANGED vars

WorkerRemoved(i) ==
  /\ worker[i].pc = "over"
  /\ worker' = [worker EXCEPT ![i] = NoWorker]
  /\ UNCHANGED <<link, sync, handler, logout, revoked, shown, left>>

Works(i) == WorkerLooks(i) \/ WorkerGoesOn(i) \/ WorkerRemoved(i)

\* The card shows a state the link has left without anybody writing it.
ExpiredSinceSync(l) == /\ l.sync.state = "synced"
                       /\ l.sync.shows \notin {"none", EffectiveState(l)}

\* reconcileTaskLinkCards, every 30 seconds.
MaintenanceDelivers(i) ==
  /\ link[i].state # "none"
  /\ SyncPending(link[i]) \/ ExpiredSinceSync(link[i])
  /\ link' = IF ExpiredSinceSync(link[i]) THEN [link EXCEPT ![i].pending = TRUE] ELSE link
  /\ worker' = Delivered(i)
  /\ <<link, worker>>' # <<link, worker>>
  /\ UNCHANGED <<sync, handler, logout, revoked, shown, left>>

------------------------------------------------------------------------------
(* Operations: CreateTaskLink, Release, Interrupt, and the messages and card actions that
   write the link and sync its card before they return *)

Current == {i \in Links : EffectivelyActive(link[i])}

Admits == logout.pc = "idle" /\ ~revoked

Enter(op, i, pc) == /\ handler = NoHandler
                    /\ Admits
                    /\ Spend("operations")
                    /\ handler' = [op |-> op, pc |-> pc, link |-> i]
                    /\ UNCHANGED <<link, sync, worker, logout, revoked, shown>>

CreateTaskLink == Enter("create", 0, "upsert")

Operate(op, i) == /\ op \in {"update", "interrupt", "release"}
                  /\ i \in Current
                  /\ Enter(op, i, "write")

\* An active link is renewed; otherwise the next identifier is drawn.
Drawn(i) == link[i].state # "none" \/ shown[i] # NoVersion \/ sync[i] # NoSync

Upsert(i) ==
  /\ handler.pc = "upsert"
  /\ IF Current # {} THEN i \in Current /\ UNCHANGED link
     ELSE /\ ~Drawn(i)
          /\ \A j \in Links : j < i => Drawn(j)
          /\ link' = [link EXCEPT ![i] = [NoLink EXCEPT !.state = "active"]]
  /\ handler' = IF link[i].card THEN NoHandler ELSE [handler EXCEPT !.pc = "send", !.link = i]
  /\ UNCHANGED <<sync, worker, logout, revoked, shown, left>>

\* A link that ended meanwhile is not written, and its card is not synced.
HandlerWrites ==
  /\ handler.pc = "write"
  /\ LET i == handler.link
         l == link[i]
         synced == [handler EXCEPT !.pc = "want"]
     IN CASE handler.op = "release" ->
               /\ Update(i, Released(l))
               /\ worker' = CancelledSend(i)
               /\ handler' = synced
          [] handler.op = "interrupt" ->
               /\ UpdateActive(i, Changed(l))
               /\ worker' = CancelledSend(i)
               /\ handler' = IF EffectivelyActive(l) THEN synced ELSE NoHandler
          [] handler.op = "update" ->
               /\ UpdateActive(i, [Changed(l) EXCEPT !.pending = TRUE])
               /\ handler' = IF EffectivelyActive(l) THEN synced ELSE NoHandler
               /\ UNCHANGED worker
  /\ UNCHANGED <<sync, logout, revoked, shown, left>>

\* The key of the root card is the identifier of the link: sent again, the same card
\* answers. A lost answer leaves a link without its card until the user tries again.
RootCardSent(i) == shown' = [shown EXCEPT ![i] = IF @ = NoVersion THEN link[i].text ELSE @]

SendRootCard ==
  /\ handler.pc = "send"
  /\ \/ /\ RootCardSent(handler.link)
        /\ handler' = [handler EXCEPT !.pc = "store"]
        /\ UNCHANGED left
     \/ /\ Spend("faults")
        /\ RootCardSent(handler.link) \/ UNCHANGED shown
        /\ handler' = NoHandler
  /\ UNCHANGED <<link, sync, worker, logout, revoked>>

StoreRootCard ==
  /\ handler.pc = "store"
  /\ UpdateActive(handler.link, [link[handler.link] EXCEPT !.card = TRUE])
  /\ handler' = NoHandler
  /\ UNCHANGED <<sync, worker, logout, revoked, shown, left>>

Handles == (\E i \in Links : Upsert(i)) \/ HandlerWrites \/ SendRootCard \/ StoreRootCard

\* A watcher of the turn writes what it saw and has the card delivered.
WatcherWrites(i) ==
  /\ Spend("writes")
  /\ EffectivelyActive(link[i])
  /\ link' = [link EXCEPT ![i] = [Changed(link[i]) EXCEPT !.pending = TRUE]]
  /\ worker' = Delivered(i)
  /\ UNCHANGED <<sync, handler, logout, revoked, shown>>

\* reconcileArchivedLinks: under the lock of the task.
ArchiveReleases(i) ==
  /\ handler = NoHandler
  /\ EffectivelyActive(link[i])
  /\ Spend("archives")
  /\ link' = [link EXCEPT ![i] = Released(@)]
  /\ worker' = Delivered(i)
  /\ UNCHANGED <<sync, handler, logout, revoked, shown>>

LeaseEnds(i) == /\ EffectivelyActive(link[i])
                /\ Spend("leases")
                /\ link' = [link EXCEPT ![i].expired = TRUE]
                /\ UNCHANGED <<running, revoked, shown>>

\* CleanupAt: an ended link goes after seven days, or when there are too many. Bound: no
\* mark lasts the thirty days after which a marked one goes too.
CleanupRemoves(i) ==
  /\ link[i].state # "none"
  /\ ~EffectivelyActive(link[i])
  /\ ~link[i].pending
  /\ Spend("removals")
  /\ link' = [link EXCEPT ![i] = NoLink]
  /\ UNCHANGED <<running, revoked, shown>>

------------------------------------------------------------------------------
(* DisconnectForLogout *)

LogoutBegins == /\ logout = NoLogout
                /\ ~revoked
                /\ Spend("logouts")
                /\ logout' = [NoLogout EXCEPT !.pc = "drain"]
                /\ UNCHANGED <<link, sync, worker, handler, revoked, shown>>

Drained == handler = NoHandler

\* Every active link is released in one write; those of an earlier attempt are taken up.
LogoutSelects ==
  /\ logout.pc = "drain"
  /\ Drained
  /\ link' = [i \in Links |-> IF link[i].state = "active"
                              THEN [Released(link[i]) EXCEPT !.leaving = TRUE] ELSE link[i]]
  /\ logout' = [logout EXCEPT !.pc = "next", !.todo = {i \in Links : link'[i].leaving}]
  /\ UNCHANGED <<sync, worker, handler, revoked, shown, left>>

LogoutTakes(i) ==
  /\ logout.pc = "next"
  /\ i \in logout.todo
  /\ \A j \in logout.todo : i <= j
  /\ logout' = [pc |-> "want", todo |-> logout.todo \ {i}, link |-> i]
  /\ UNCHANGED <<link, sync, worker, handler, revoked, shown, left>>

\* The five seconds are over: the card is not waited for.
LogoutGivesUp ==
  /\ logout.pc = "want"
  /\ Spend("faults")
  /\ logout' = [logout EXCEPT !.pc = "mark"]
  /\ UNCHANGED <<link, sync, worker, handler, revoked, shown>>

\* A card that was not seen synced is left to a person.
LogoutMarks ==
  /\ logout.pc = "mark"
  /\ LET l == link[logout.link]
         seen == [l EXCEPT !.leaving = FALSE]
     IN Update(logout.link,
               IF l.sync.state = "synced" THEN seen
               ELSE [seen EXCEPT !.pending = FALSE, !.sync.state = "needs_review",
                                 !.sync.waiting = FALSE,
                                 !.sync.code = IF @ = "none" THEN "logout" ELSE @])
  /\ logout' = [logout EXCEPT !.pc = "next", !.link = 0]
  /\ UNCHANGED <<sync, worker, handler, revoked, shown, left>>

LogoutRevokes ==
  /\ logout.pc = "next"
  /\ logout.todo = {}
  /\ revoked' = TRUE
  /\ logout' = NoLogout
  /\ UNCHANGED <<link, sync, worker, handler, shown, left>>

LogsOut == LogoutSelects \/ (\E i \in Links : LogoutTakes(i)) \/ LogoutMarks \/ LogoutRevokes

Login == /\ revoked
         /\ revoked' = FALSE
         /\ UNCHANGED <<link, running, shown, left>>

\* The Core stops or crashes anywhere; a call under way may still reach Feishu.
Restart ==
  /\ Spend("faults")
  /\ sync' = [i \in Links |-> NoSync]
  /\ worker' = [i \in Links |-> NoWorker]
  /\ handler' = NoHandler
  /\ logout' = NoLogout
  /\ \/ UNCHANGED shown
     \/ \E i \in Links : At(i, "patch") /\ Patched(i)
  /\ UNCHANGED <<link, revoked>>

------------------------------------------------------------------------------

Init == /\ link = [i \in Links |-> NoLink]
        /\ sync = [i \in Links |-> NoSync]
        /\ worker = [i \in Links |-> NoWorker]
        /\ handler = NoHandler
        /\ logout = NoLogout
        /\ revoked = FALSE
        /\ shown = [i \in Links |-> NoVersion]
        /\ left \in Budgets

Acts(i) == \/ \E op \in {"update", "interrupt", "release"} : Operate(op, i)
           \/ \E code \in {"temporary", "unknown", "permanent"} : PatchFails(i, code)
           \/ WatcherWrites(i) \/ ArchiveReleases(i) \/ LeaseEnds(i) \/ CleanupRemoves(i)

Next == \/ \E i \in Links : \/ Acts(i) \/ SyncSteps(i) \/ BackoffEnds(i) \/ Works(i)
                            \/ MaintenanceDelivers(i)
        \/ CreateTaskLink \/ Handles
        \/ LogoutBegins \/ LogoutGivesUp \/ LogsOut \/ Login
        \/ Restart

Spec == Init /\ [][Next]_vars

\* Every call has a timeout, so whoever holds or waits for a lock goes on; the worker and
\* the maintenance come back by their tickers. Users, Feishu and the archive owe nothing.
LiveSpec == /\ Spec
            /\ \A i \in Links : /\ WF_vars(SyncSteps(i))
                                /\ WF_vars(Works(i))
                                /\ WF_vars(BackoffEnds(i) \/ MaintenanceDelivers(i))
            /\ WF_vars(Handles)
            /\ WF_vars(LogsOut)

------------------------------------------------------------------------------
(* Properties *)

TypeOK ==
  /\ \A i \in Links :
       /\ link[i].state \in {"none", "active", "released"}
       /\ link[i].text \in Texts
       /\ link[i].sync.state \in {"none", "pending", "waiting_retry", "synced", "needs_review"}
       /\ link[i].sync.attempts \in 0 .. MaxAttempts
       /\ link[i].sync.synced \in Versions
       /\ sync[i].pc \in {"idle", "skip", "no_card", "give_up", "submit", "patch", "patched",
                          "failed"}
       /\ worker[i].pc \in {"off", "look", "want", "sync", "wait", "over"}
  /\ handler.pc \in {"idle", "upsert", "write", "send", "store", "want", "sync"}
  /\ logout.pc \in {"idle", "drain", "next", "want", "sync", "mark"}
  /\ revoked \in BOOLEAN
  /\ shown \in [Links -> Versions]

\* A step that leaves a card without its mark: it was marked, or its replacement is confirmed.
Unmarks(i) == /\ link' # link
              /\ "none" \notin {link[i].state, link'[i].state}
              /\ link[i].pending \/ (At(i, "patched") /\ sync'[i] = NoSync)
              /\ ~link'[i].pending

\* What the card of a link is after such a step, if all is well: the one Feishu shows, one
\* that a person must look at, or none.
MarkIsDone(i) == \/ shown'[i] = Version(link'[i])
                 \/ link'[i].sync.state = "needs_review"
                 \/ ~link'[i].card

\* Whatever was written while a card was replaced, a mark goes only if Feishu shows the card
\* of the link as it is at that moment, or the card is left to a person. Except when a sync
\* finds the card it read already shown, and skips: see ClearedOnlyWhenShown.
MarksGoRightly == [][\A i \in Links : Unmarks(i) => MarkIsDone(i) \/ At(i, "skip")]_vars

\* task_card_sync.go:48: a sync "patches the bot-owned task card and only then clears the
\* durable pending marker". One that skips clears it without looking at what was written
\* since it read the link, and the newer card is never sent. A lease may end unwritten: its
\* card is found by the maintenance.
ClearedOnlyWhenShown ==
  [][\A i \in Links : Unmarks(i) => MarkIsDone(i) \/ ExpiredSinceSync(link'[i])]_vars

\* Once the identity is revoked no link controls the task any more, no operation that was
\* admitted before is still under way, and none begins before the next login.
RevokedIsDisconnected == revoked => Current = {} /\ handler = NoHandler

\* A card that is marked, or shows a state its link has left without a write. No mark stands
\* for ever, also when calls were cancelled or lost, workers were just returning, the Core
\* restarted or the user logged out: the card is replaced, kept for a person to see, or a sync
\* took the mark away because it skipped. What the card then shows is not said here.
Owed(i) == /\ link[i].card
           /\ link[i].sync.state # "needs_review"
           /\ link[i].pending \/ ExpiredSinceSync(link[i])

------------------------------------------------------------------------------
\* Small instance: a creation, a message and two writes of watchers, and nothing fails.
TwoWrites == {[operations |-> 2, writes |-> 2, faults |-> 0, leases |-> 0, logouts |-> 0,
               archives |-> 0, removals |-> 0]}
=============================================================================
