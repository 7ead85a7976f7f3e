--------------------------- MODULE AppRegistration ---------------------------
(* How the Feishu child connects an application and forgets it: a session that shows a code *)
(* to scan and polls for what became of it, the credentials and the operator it writes, and *)
(* the local cleanup of a logout, which a restart takes up again                            *)
(* (feishu/app_registration_native.go, auth_app_session.go, logout_cleanup.go).             *)
EXTENDS Integers

CONSTANTS
  Handlers,    \* handlers of the private connection that may be at work at a time
  Budgets      \* Bound: [starts, logouts, cancels, failures, crashes]; failures are those of a
               \* single write, removal or check

None == 0

VARIABLES
  handler,      \* handler[h]: a create, cancel or logout under way
  mutex,        \* who holds appConfigurationSessions, or "nobody"
  item,         \* the session in it, or None
  session,      \* session[s]: what its goroutine does, its status, and whether it is cancelled
  sessions,     \* how many there were
  credentials,  \* credentials/official-sdk.json: the session that wrote it, or None
  secret,       \* the secret in the keychain, by session
  operator,     \* client.json: the operator, by the session that bound it, or None
  journal,      \* the cleanup journal of a logout is there
  forgotten,    \* the sessions a finished logout has cancelled: 1..forgotten
  running,      \* whether the child serves calls
  left

vars == <<handler, mutex, item, session, sessions, credentials, secret, operator, journal,
          forgotten, running, left>>

disk == <<credentials, secret, operator, journal>>
registry == <<mutex, item, session, sessions>>

Spend(what) == left[what] > 0 /\ left' = [left EXCEPT ![what] = @ - 1]

Idle == [pc |-> "idle", told |-> "nothing", session |-> None, upTo |-> 0]
At(h, pc) == running /\ handler[h].pc = pc
Go(h, pc) == handler' = [handler EXCEPT ![h].pc = pc]
Told(h, what) == handler' = [handler EXCEPT ![h] = [Idle EXCEPT !.told = what]]

Free == mutex = "nobody"
MaxSessions == CHOOSE n \in {b.starts : b \in Budgets} : \A b \in Budgets : b.starts <= n
Ids == 1..MaxSessions
NoSession == [pc |-> "none", status |-> "none", cancelled |-> FALSE]

------------------------------------------------------------------------------
(* startNativeAppConfiguration *)

\* appCreationBusinessGuard, and that there are no credentials.
NothingConnected == ~journal /\ operator = None /\ credentials = None

Create(h) ==
  /\ At(h, "idle") /\ Spend("starts")
  /\ IF NothingConnected THEN Go(h, "create") ELSE Told(h, "not_started")
  /\ UNCHANGED <<registry, disk, forgotten, running>>

\* A session that is there is shown again, whatever became of it; ...
Reuse(h) ==
  /\ At(h, "create") /\ Free /\ item # None /\ Told(h, "shown")
  /\ UNCHANGED <<registry, disk, forgotten, running, left>>

\* ... a new one is begun at Feishu with the registry locked, up to thirty seconds.
Request(h) ==
  /\ At(h, "create") /\ Free /\ item = None
  /\ mutex' = h /\ Go(h, "requesting")
  /\ UNCHANGED <<item, session, sessions, disk, forgotten, running, left>>

\* requestNativeRegistration fails, its answer is incomplete, or its address is not trusted.
NotRequested(h) ==
  /\ At(h, "requesting") /\ Spend("failures")
  /\ mutex' = "nobody" /\ Told(h, "not_started")
  /\ UNCHANGED <<item, session, sessions, disk, forgotten, running>>

Requested(h) ==
  /\ At(h, "requesting")
  /\ LET s == sessions + 1
     IN /\ sessions' = s /\ item' = s
        /\ session' = [session EXCEPT ![s] =
                         [pc |-> "polling", status |-> "pending", cancelled |-> FALSE]]
  /\ mutex' = "nobody" /\ Told(h, "shown")
  /\ UNCHANGED <<disk, forgotten, running, left>>

------------------------------------------------------------------------------
(* finishNativeAppRegistration *)

Polling(s) == running /\ session[s].pc = "polling"

Ended(s, status) == session' = [session EXCEPT ![s].pc = "done", ![s].status = status]

\* Denied, expired, or cancelled while it waits for the next poll.
NotConfirmed(s) ==
  /\ Polling(s)
  /\ \/ session[s].cancelled /\ UNCHANGED left
     \/ Spend("failures")
  /\ Ended(s, "failed")
  /\ UNCHANGED <<handler, mutex, item, sessions, disk, forgotten, running>>

\* The user has scanned the code; from here on nothing looks at the cancellation.
Scanned(s) ==
  /\ Polling(s) /\ session' = [session EXCEPT ![s].pc = "secret"]
  /\ UNCHANGED <<handler, mutex, item, sessions, disk, forgotten, running, left>>

Failing(s, pc) ==
  /\ running /\ session[s].pc = pc /\ Spend("failures") /\ Ended(s, "failed")
  /\ UNCHANGED <<handler, mutex, item, sessions, disk, forgotten, running>>

\* storePlatformOfficialCredentials: the keychain first, then the file that names the entry.
StoreSecret(s) ==
  /\ running /\ session[s].pc = "secret"
  /\ secret' = secret \cup {s} /\ session' = [session EXCEPT ![s].pc = "credentials"]
  /\ UNCHANGED <<handler, mutex, item, sessions, credentials, operator, journal, forgotten,
                 running, left>>

StoreCredentials(s) ==
  /\ running /\ session[s].pc = "credentials"
  /\ credentials' = s /\ session' = [session EXCEPT ![s].pc = "operator"]
  /\ UNCHANGED <<handler, mutex, item, sessions, secret, operator, journal, forgotten, running,
                 left>>

\* A file that cannot be written takes the secret with it.
CredentialsFail(s) ==
  /\ running /\ session[s].pc = "credentials" /\ Spend("failures")
  /\ secret' = secret \ {s} /\ Ended(s, "failed")
  /\ UNCHANGED <<handler, mutex, item, sessions, credentials, operator, journal, forgotten,
                 running>>

\* bindRegistrationOperator
BindOperator(s) ==
  /\ running /\ session[s].pc = "operator"
  /\ operator' = s /\ session' = [session EXCEPT ![s].pc = "check"]
  /\ UNCHANGED <<handler, mutex, item, sessions, credentials, secret, journal, forgotten, running,
                 left>>

Connected(s) ==
  /\ running /\ session[s].pc = "check" /\ credentials # None /\ Ended(s, "completed")
  /\ UNCHANGED <<handler, mutex, item, sessions, disk, forgotten, running, left>>

------------------------------------------------------------------------------
(* CancelConfigurationFlow *)

Cancel(h) ==
  /\ At(h, "idle") /\ Free /\ item # None /\ Spend("cancels")
  /\ session' = [session EXCEPT ![item].cancelled = TRUE, ![item].status = "cancelled"]
  /\ handler' = [handler EXCEPT ![h].pc = "cancelling", ![h].session = item]
  /\ UNCHANGED <<mutex, item, sessions, disk, forgotten, running>>

\* Five seconds, or the end of the session; only the same session is taken out.
Cancelled(h) ==
  /\ At(h, "cancelling")
  /\ \/ /\ session[handler[h].session].pc = "done" /\ Free
        /\ item' = IF item = handler[h].session THEN None ELSE item
        /\ Told(h, "cancelled") /\ UNCHANGED left
     \/ Spend("failures") /\ Told(h, "unknown") /\ UNCHANGED item
  /\ UNCHANGED <<mutex, session, sessions, disk, forgotten, running>>

------------------------------------------------------------------------------
(* LogoutUserAuth, PurgeLocalFeishuState *)

\* A step that fails leaves the journal: the cleanup stays pending.
LogoutFails(h) ==
  /\ running /\ handler[h].pc \in {"journal", "purge", "client", "file", "end"}
  /\ Spend("failures") /\ Told(h, "failed")
  /\ UNCHANGED <<registry, disk, forgotten, running>>

Logout(h) ==
  /\ At(h, "idle") /\ Spend("logouts") /\ Go(h, "journal")
  /\ UNCHANGED <<registry, disk, forgotten, running>>

Journal(h) ==
  /\ At(h, "journal") /\ journal' = TRUE /\ Go(h, "sessions")
  /\ UNCHANGED <<registry, credentials, secret, operator, forgotten, running, left>>

\* Mutant: the session is cancelled and not waited for.
NotWaited(s) == TRUE

Waited(s) == session[s].pc = "done"

\* CancelAppConfiguration waits for the session with the registry locked.
CancelSession(h) ==
  /\ At(h, "sessions") /\ Free
  /\ IF item = None
     THEN /\ handler' = [handler EXCEPT ![h].pc = "purge", ![h].upTo = sessions]
          /\ UNCHANGED <<mutex, session>>
     ELSE /\ mutex' = h /\ session' = [session EXCEPT ![item].cancelled = TRUE]
          /\ Go(h, "waiting")
  /\ UNCHANGED <<item, sessions, disk, forgotten, running, left>>

SessionOver(h) ==
  /\ At(h, "waiting") /\ Waited(item)
  /\ item' = None /\ mutex' = "nobody"
  /\ handler' = [handler EXCEPT ![h].pc = "purge", ![h].upTo = sessions]
  /\ UNCHANGED <<session, sessions, disk, forgotten, running, left>>

\* The keychain entry is known by the credentials file alone; ...
PurgeSecret(h) ==
  /\ At(h, "purge") /\ secret' = secret \ {credentials} /\ Go(h, "client")
  /\ UNCHANGED <<registry, credentials, operator, journal, forgotten, running, left>>

\* ... the operator goes before the credentials.
PurgeClient(h) ==
  /\ At(h, "client") /\ operator' = None /\ Go(h, "file")
  /\ UNCHANGED <<registry, credentials, secret, journal, forgotten, running, left>>

PurgeFile(h) ==
  /\ At(h, "file") /\ credentials' = None /\ Go(h, "end")
  /\ UNCHANGED <<registry, secret, operator, journal, forgotten, running, left>>

\* Nothing may be there any more; the journal goes last.
LoggedOut(h) ==
  /\ At(h, "end")
  /\ IF credentials # None \/ operator # None
     THEN Told(h, "failed") /\ UNCHANGED <<journal, forgotten>>
     ELSE /\ journal' = FALSE
          /\ forgotten' = handler[h].upTo /\ Told(h, "logged_out")
  /\ UNCHANGED <<registry, credentials, secret, operator, running, left>>

------------------------------------------------------------------------------
(* The child's process *)

Crash ==
  /\ Spend("crashes") /\ running
  /\ running' = FALSE
  /\ handler' = [h \in Handlers |-> Idle] /\ mutex' = "nobody" /\ item' = None
  /\ session' = [s \in Ids |-> IF session[s].pc = "none" THEN NoSession
                               ELSE [session[s] EXCEPT !.pc = "done"]]
  /\ UNCHANGED <<sessions, disk, forgotten>>

\* RecoverPendingLocalFeishuCleanup, before any call is served: whole, or not at all.
Restart ==
  /\ ~running /\ running' = TRUE
  /\ \/ ~journal /\ UNCHANGED <<disk, forgotten, left>>
     \/ /\ journal /\ secret' = secret \ {credentials}
        /\ credentials' = None /\ operator' = None /\ journal' = FALSE
        /\ forgotten' = sessions /\ UNCHANGED left
     \/ journal /\ Spend("failures") /\ UNCHANGED <<disk, forgotten>>
  /\ UNCHANGED <<handler, registry>>

------------------------------------------------------------------------------
Init ==
  /\ handler = [h \in Handlers |-> Idle] /\ mutex = "nobody" /\ item = None
  /\ session = [s \in Ids |-> NoSession] /\ sessions = 0
  /\ credentials = None /\ secret = {} /\ operator = None
  /\ journal = FALSE /\ forgotten = 0 /\ running = TRUE
  /\ left \in Budgets

HandlerSteps(h) ==
  \/ Create(h) \/ Reuse(h) \/ Request(h) \/ NotRequested(h) \/ Requested(h)
  \/ Cancel(h) \/ Cancelled(h)
  \/ Logout(h) \/ Journal(h) \/ CancelSession(h) \/ SessionOver(h) \/ PurgeSecret(h)
  \/ PurgeClient(h) \/ PurgeFile(h) \/ LoggedOut(h) \/ LogoutFails(h)

SessionSteps(s) ==
  \/ NotConfirmed(s) \/ Scanned(s) \/ Failing(s, "secret") \/ StoreSecret(s)
  \/ StoreCredentials(s) \/ CredentialsFail(s) \/ Failing(s, "operator") \/ BindOperator(s)
  \/ Failing(s, "check") \/ Connected(s)

Next ==
  \/ \E h \in Handlers : HandlerSteps(h)
  \/ \E s \in Ids : SessionSteps(s)
  \/ Crash \/ Restart

Spec == Init /\ [][Next]_vars

------------------------------------------------------------------------------
TypeOK ==
  /\ mutex \in Handlers \cup {"nobody"} /\ item \in 0..sessions
  /\ credentials \in 0..sessions /\ operator \in 0..sessions /\ secret \subseteq 1..sessions
  /\ \A s \in Ids : session[s].status \in {"none", "pending", "failed", "cancelled", "completed"}

\* What a logout has ended stays ended: an application whose session was there when the logout
\* looked at the registry is connected by nobody once the logout is over, whether the call ran
\* to its end or a restart took the cleanup up again (logout_cleanup.go:62, main.go:76).
LogoutIsFinal ==
  /\ credentials # None => credentials > forgotten
  /\ operator # None => operator > forgotten
==============================================================================
