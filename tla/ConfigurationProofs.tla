------------------------- MODULE ConfigurationProofs -------------------------
(* Theorems about Configuration, for every set of requests and every budget: its types, that *)
(* no request is carried out twice, that what is said of a test message or of a logout is    *)
(* so, and that the page never offers what an application that is gone could do; and, as the *)
(* instances of Desktops, about the configuration page and the dashboard of a desktop.       *)
EXTENDS Configuration, Desktops, Sequences, FiniteSetTheorems, TLAPS

(* The inductive invariant *)

ReceiptType ==
  [outcome : Outcomes, stage : {None, "validating", "submitted", "verified"},
   flow : Requests \cup {None}, app : BOOLEAN, recovered : BOOLEAN]

Pcs == {"idle", "checked", "validating", "reading", "submitted", "executed", "saving",
        "scrubbing", "origin", "querying"}

HandlerType == [pc : Pcs, outcome : Outcomes, flow : Requests \cup {None}, app : BOOLEAN,
                todo : SUBSET Requests]

RefreshType == [pc : {"none", "reading", "read"}, mutation : Nat, current : BOOLEAN,
                read : DataType, older : SUBSET Requests]

ClosingType == [pc : {"none", "looking", "closing"}, saw : {None, "no session", "connection"},
                older : SUBSET Requests, todo : SUBSET Requests]

LeftType == [app : {"missing", "present"}, asked : SUBSET Requests, crashes : Nat,
             restarts : Nat, reconnects : Nat, failures : Nat,
             half : SUBSET {"registration", "purge"}]

Verdicts == {None, "writing", "completed", "failed"}

CoreTypes ==
  /\ receipts \in [Requests -> ReceiptType] /\ later \subseteq Requests \X Requests
  /\ handler \in [Requests -> HandlerType] /\ mutation \in Nat
  /\ data \in DataType /\ refresh \in RefreshType /\ closing \in ClosingType

WorldTypes ==
  /\ app \in {"missing", "unbound", "present"} /\ flow \in Flows /\ healthy \in BOOLEAN
  /\ ledger \in [Requests -> Verdicts] /\ executed \in [Requests -> Nat]
  /\ left \in LeftType /\ (left.half = {} => app # "unbound")

Types == CoreTypes /\ WorldTypes

\* Stored receipts are stamped in an order.
Ordered ==
  \A r, q \in Requests : r # q /\ {r, q} \subseteq Stored => Later(r, q) # Later(q, r)

Acts(r) == handler[r].pc \in {"reading", "submitted", "executed"}

\* One request acts, and nothing refreshes meanwhile.
ActsAlone ==
  /\ \A r, q \in Requests : Acts(r) /\ Acts(q) => r = q
  /\ \A r \in Requests : Acts(r) => refresh.pc = "none"
  /\ refresh.mutation <= mutation

\* The requests whose end is told by the ledger.
Told(r) == Action[r] \in {"test_message", "logout"}

\* What is said of a message or a logout agrees with the ledger.
Tells(r, outcome, verdict) ==
  /\ outcome = "completed" => verdict = "completed" \/ (Action[r] = "logout" /\ left.half # {})
  /\ outcome = "failed" => verdict \in {None, "failed"}

\* Carried out or not yet, as its receipt and its handler have it.
Progress(r) ==
  /\ executed[r] \in {0, 1}
  /\ \/ receipts[r].outcome = None
     \/ handler[r].pc \in {"checked", "validating", "reading", "submitted"}
     => executed[r] = 0
  /\ handler[r].pc \notin {"idle", "checked"} => receipts[r].outcome # None
  /\ executed[r] = 1 \/ handler[r].pc = "submitted" => receipts[r].stage # "validating"
  /\ executed[r] = 0 => ledger[r] = None
  /\ handler[r].pc \in {"executed", "saving", "querying"} => handler[r].outcome # None

\* A test message or a logout, and what the ledger knows of it.
Message(r) ==
  Told(r) =>
    /\ handler[r].pc = "submitted" => receipts[r].outcome \in {"unknown", "resolved"}
    /\ handler[r].pc \in {"executed", "saving", "querying"} =>
         Tells(r, handler[r].outcome, ledger[r])
    /\ Tells(r, receipts[r].outcome, ledger[r])

RequestOK(r) == Progress(r) /\ Message(r)

LoggingOut(r) == Action[r] = "logout" /\ handler[r].pc = "executed"

\* The application shown, and one about to be shown, is on the disk.
PageOK ==
  /\ data.ready /\ data.app = "present" => app = "present" \/ \E r \in Requests : LoggingOut(r)
  /\ refresh.pc = "read" /\ refresh.read.ready /\ refresh.read.app = "present" => app = "present"

IInv == Types /\ Ordered /\ ActsAlone /\ PageOK /\ \A r \in Requests : RequestOK(r)

(* Lemmas about the operators *)

\* Spending leaves the budgets what they are.
LEMMA Spending ==
  ASSUME NEW what \in {"crashes", "restarts", "reconnects", "failures"}, left \in LeftType,
         Spend(what)
  PROVE  left' \in LeftType /\ left'.asked = left.asked /\ left'.half = left.half
  BY DEF Spend, LeftType

\* Only the handler that is set moves.
LEMMA Setting ==
  ASSUME NEW r \in Requests, NEW h \in HandlerType, handler \in [Requests -> HandlerType],
         Set(r, h)
  PROVE  /\ handler' \in [Requests -> HandlerType] /\ handler'[r] = h
         /\ \A q \in Requests : q # r => handler'[q] = handler[q]
  BY DEF Set

\* A stamped receipt: only it moves, and it is later than all others.
LEMMA Saving ==
  ASSUME NEW r \in Requests, NEW receipt \in ReceiptType, receipt.outcome # None,
         receipts \in [Requests -> ReceiptType], later \subseteq Requests \X Requests,
         Ordered, SaveReceipt(r, receipt)
  PROVE  /\ receipts' \in [Requests -> ReceiptType] /\ later' \subseteq Requests \X Requests
         /\ Ordered'
         /\ receipts'[r].outcome = receipt.outcome /\ receipts'[r].stage = receipt.stage
         /\ \A q \in Requests : q # r => receipts'[q] = receipts[q]
  <1> DEFINE new == IF Action[r] = "logout" /\ receipt.outcome = "completed"
                    THEN Scrubbed(receipt) ELSE receipt
  <1>1. /\ new \in ReceiptType
        /\ new.outcome = receipt.outcome /\ new.stage = receipt.stage
    BY DEF Scrubbed, ReceiptType, Outcomes
  <1>2. receipts' = [receipts EXCEPT ![r] = new] BY DEF SaveReceipt
  <1>3. later' = {p \in later : r \notin {p[1], p[2]}} \cup {<<r, q>> : q \in Stored \ {r}}
    BY DEF SaveReceipt
  <1> HIDE DEF new
  <1>4. /\ receipts' \in [Requests -> ReceiptType] /\ receipts'[r] = new
        /\ \A q \in Requests : q # r => receipts'[q] = receipts[q]
    BY <1>1, <1>2
  <1>5. later' \subseteq Requests \X Requests BY <1>3 DEF Stored
  <1>6. \A a, b \in Requests : a # r /\ b # r => (<<a, b>> \in later' <=> <<a, b>> \in later)
    BY <1>3
  <1>7. \A a \in Requests : a # r => <<a, r>> \notin later' BY <1>3
  <1>8. \A b \in Requests : b # r /\ b \in Stored => <<r, b>> \in later' BY <1>3
  <1>9. \A q \in Requests : q # r => (q \in Stored' <=> q \in Stored) BY <1>4 DEF Stored
  <1>10. Ordered' BY <1>6, <1>7, <1>8, <1>9 DEF Ordered, Later
  <1> QED BY <1>1, <1>4, <1>5, <1>10

\* A receipt written without a stamp, that stays stored or unstored.
LEMMA Writing ==
  ASSUME NEW r \in Requests, NEW receipt \in ReceiptType,
         (receipt.outcome = None) = (receipts[r].outcome = None),
         receipts \in [Requests -> ReceiptType], Ordered, WriteReceipt(r, receipt)
  PROVE  /\ receipts' \in [Requests -> ReceiptType] /\ later' = later /\ Ordered'
         /\ receipts'[r] = receipt
         /\ \A q \in Requests : q # r => receipts'[q] = receipts[q]
  <1>1. /\ receipts' \in [Requests -> ReceiptType] /\ later' = later
        /\ receipts'[r] = receipt
        /\ \A q \in Requests : q # r => receipts'[q] = receipts[q]
    BY DEF WriteReceipt
  <1>2. Stored' = Stored BY <1>1 DEF Stored
  <1> QED BY <1>1, <1>2 DEF Ordered, Later

\* The snapshots that are read.
LEMMA Reading ==
  ASSUME NEW d \in DataType, Types
  PROVE  /\ QuickRead(d) \in DataType /\ EvidenceRead(d) \in DataType /\ Unread(d) \in DataType
         /\ EvidenceRead(d).app = app /\ ~Unread(d).ready
         /\ QuickRead(d).app = d.app /\ QuickRead(d).ready = d.ready
  BY DEF QuickRead, EvidenceRead, Unread, DataType, Types, WorldTypes

\* Constants of the types.
LEMMA Constant ==
  /\ NoReceipt \in ReceiptType /\ Idle \in HandlerType /\ NoData \in DataType
  /\ NoRefresh \in RefreshType /\ NoClosing \in ClosingType /\ NoFlow \in Flows
  /\ Idle.pc = "idle" /\ ~NoData.ready /\ NoRefresh.pc = "none" /\ NoRefresh.mutation = 0
  /\ NoReceipt.outcome = None /\ NoReceipt.stage = None
  BY DEF NoReceipt, Idle, NoData, NoRefresh, NoClosing, NoFlow, ReceiptType, HandlerType,
         DataType, RefreshType, ClosingType, Flows, Outcomes, Pcs, None

\* What the invariant says of one request.
LEMMA Typed ==
  ASSUME IInv, NEW r \in Requests
  PROVE  /\ handler[r] \in HandlerType /\ receipts[r] \in ReceiptType
         /\ Types /\ ActsAlone /\ PageOK /\ Ordered /\ RequestOK(r)
  BY DEF IInv, Types, CoreTypes

LEMMA Asked ==
  ASSUME IInv, NEW r \in left.asked
  PROVE  r \in Requests
  BY DEF IInv, Types, WorldTypes, LeftType

(* What moves, and what stays *)

\* Where one request moves, the others are what they were.
LEMMA OneMoves ==
  ASSUME IInv, NEW r \in Requests, RequestOK(r)', left'.half = left.half,
         \A q \in Requests : q # r => /\ handler'[q] = handler[q] /\ receipts'[q] = receipts[q]
                                      /\ ledger'[q] = ledger[q] /\ executed'[q] = executed[q]
  PROVE  \A q \in Requests : RequestOK(q)'
  BY DEF IInv, RequestOK, Progress, Message, Tells

\* A receipt may be written whatever its request does, if its outcome stays, is not that of a
\* message or a logout, or is "resolved", and if its stage stays or is the last; and a handler may end its cleaning.
LEMMA Overwriting ==
  ASSUME IInv, NEW r \in Requests, ledger'[r] = ledger[r], executed'[r] = executed[r],
         left'.half = left.half,
         \/ handler'[r] = handler[r]
         \/ /\ handler[r].pc \in {"scrubbing", "origin"}
            /\ handler'[r].pc \in {"idle", "scrubbing"},
         \/ receipts'[r].outcome = receipts[r].outcome
         \/ /\ ~Told(r) \/ receipts'[r].outcome = "resolved"
            /\ receipts'[r].outcome # None /\ receipts[r].outcome # None,
         receipts'[r].stage \in {receipts[r].stage, "verified"}
  PROVE  RequestOK(r)'
  BY DEF IInv, RequestOK, Progress, Message, Tells

\* The page, the refresh and the application stay, and no handler begins to act or forgets a
\* logout.
LEMMA PageStays ==
  ASSUME IInv, UNCHANGED <<mutation, data, app>>,
         refresh'.pc = refresh.pc, refresh'.mutation = refresh.mutation,
         refresh'.read = refresh.read,
         \A q \in Requests : (Acts(q)' => Acts(q)) /\ (LoggingOut(q) => LoggingOut(q)')
  PROVE  ActsAlone' /\ PageOK'
  BY DEF IInv, ActsAlone, PageOK, Acts

\* A new stamp is noted by the refresh and the goroutine it left.
LEMMA Stamps ==
  ASSUME Types, NEW r \in Requests, Restamped(r)
  PROVE  /\ refresh' \in RefreshType /\ closing' \in ClosingType
         /\ refresh'.pc = refresh.pc /\ refresh'.mutation = refresh.mutation
         /\ refresh'.read = refresh.read
  BY DEF Types, CoreTypes, Restamped, RefreshType, ClosingType

(* Requests *)

\* A new request has never been carried out.
LEMMA ApplyKeeps ==
  ASSUME IInv, NEW r \in left.asked, Apply(r)
  PROVE  IInv'
  <1> DEFINE h == [Idle EXCEPT !.pc = "checked",
                               !.flow = IF FlowRequest(r) THEN data.flow.id ELSE None]
  <1>1. /\ handler[r].pc = "idle" /\ receipts[r].outcome = None /\ Set(r, h)
        /\ UNCHANGED <<receipts, later, mutation, data, refresh, closing, world, left>>
    BY DEF Apply, MayApply
  <1>2. r \in Requests /\ h \in HandlerType /\ h.pc = "checked"
    BY DEF IInv, Types, CoreTypes, WorldTypes, LeftType, HandlerType, Idle, Pcs, Outcomes,
           DataType, Flows, None
  <1> HIDE DEF h
  <1>3. /\ handler' \in [Requests -> HandlerType] /\ handler'[r] = h
        /\ \A q \in Requests : q # r => handler'[q] = handler[q]
    BY <1>1, <1>2, Setting DEF IInv, Types, CoreTypes
  <1>4. Types' /\ Ordered'
    BY <1>1, <1>3 DEF IInv, Types, CoreTypes, WorldTypes, world, Ordered, Stored, Later
  <1>5. ActsAlone' /\ PageOK'
    <2>1. \A q \in Requests : (Acts(q)' => Acts(q)) /\ (LoggingOut(q) => LoggingOut(q)')
      BY <1>1, <1>2, <1>3 DEF Acts, LoggingOut
    <2> QED BY <1>1, <2>1, PageStays DEF world
  <1>6. RequestOK(r)' BY <1>1, <1>2, <1>3 DEF IInv, RequestOK, Progress, Message, Tells, world
  <1> QED BY <1>1, <1>2, <1>3, <1>4, <1>5, <1>6, OneMoves DEF IInv, world

\* It is accepted under its lock: nothing has been written for it before.
LEMMA AcceptKeeps ==
  ASSUME IInv, NEW r \in left.asked, Accept(r)
  PROVE  IInv'
  <1> DEFINE h == [handler[r] EXCEPT !.pc = "validating"]
             new == [NoReceipt EXCEPT !.outcome = "pending", !.stage = "validating"]
  <1>1. /\ handler[r].pc = "checked" /\ Set(r, h) /\ SaveReceipt(r, new) /\ Restamped(r)
        /\ UNCHANGED <<mutation, data, world, left>>
    BY DEF Accept
  <1>2. /\ r \in Requests /\ h \in HandlerType /\ h.pc = "validating"
        /\ new \in ReceiptType /\ new.outcome = "pending" /\ new.stage = "validating"
    <2>1. r \in Requests /\ handler[r] \in HandlerType /\ receipts[r] \in ReceiptType
      BY Asked, Typed
    <2> QED BY <2>1 DEF HandlerType, Pcs, ReceiptType, NoReceipt, Outcomes, None
  <1> HIDE DEF h, new
  <1>3. /\ handler' \in [Requests -> HandlerType] /\ handler'[r] = h
        /\ \A q \in Requests : q # r => handler'[q] = handler[q]
    BY <1>1, <1>2, Setting DEF IInv, Types, CoreTypes
  <1>4. /\ receipts' \in [Requests -> ReceiptType] /\ later' \subseteq Requests \X Requests
        /\ Ordered'
        /\ receipts'[r].outcome = "pending" /\ receipts'[r].stage = "validating"
        /\ \A q \in Requests : q # r => receipts'[q] = receipts[q]
    <2>1. new.outcome # None BY <1>2 DEF None
    <2> QED BY <1>1, <1>2, <2>1, Saving DEF IInv, Types, CoreTypes
  <1>5. /\ refresh' \in RefreshType /\ closing' \in ClosingType
        /\ refresh'.pc = refresh.pc /\ refresh'.mutation = refresh.mutation
        /\ refresh'.read = refresh.read
    BY <1>1, <1>2, Stamps DEF IInv
  <1>6. Types' BY <1>1, <1>3, <1>4, <1>5 DEF IInv, Types, CoreTypes, WorldTypes, world
  <1>7. ActsAlone' /\ PageOK'
    <2>1. \A q \in Requests : (Acts(q)' => Acts(q)) /\ (LoggingOut(q) => LoggingOut(q)')
      BY <1>1, <1>2, <1>3 DEF Acts, LoggingOut
    <2> QED BY <1>1, <1>5, <2>1, PageStays DEF world
  <1>8. RequestOK(r)'
    BY <1>1, <1>2, <1>3, <1>4 DEF IInv, RequestOK, Progress, Message, Tells, world, None
  <1> QED BY <1>1, <1>2, <1>3, <1>4, <1>6, <1>7, <1>8, OneMoves DEF IInv, world

\* It begins to act: alone, and whatever is being read is forgotten.
LEMMA BeginKeeps ==
  ASSUME IInv, NEW r \in left.asked, Begin(r)
  PROVE  IInv'
  <1> DEFINE h == [handler[r] EXCEPT !.pc = "reading"]
  <1>1. /\ handler[r].pc = "validating" /\ ~Acting /\ Set(r, h)
        /\ mutation' = mutation + 1
        /\ refresh' = IF refresh.mutation # mutation' THEN NoRefresh ELSE refresh
        /\ UNCHANGED <<receipts, later, data, closing, world, left>>
    BY DEF Begin, Offered, NextMutation
  <1>2. r \in Requests /\ h \in HandlerType /\ h.pc = "reading"
    <2>1. r \in Requests /\ handler[r] \in HandlerType /\ receipts[r] \in ReceiptType
      BY Asked, Typed
    <2> QED BY <2>1 DEF HandlerType, Pcs
  <1> HIDE DEF h
  <1>3. /\ handler' \in [Requests -> HandlerType] /\ handler'[r] = h
        /\ \A q \in Requests : q # r => handler'[q] = handler[q]
    BY <1>1, <1>2, Setting DEF IInv, Types, CoreTypes
  <1>4. refresh' = NoRefresh /\ mutation' \in Nat
    BY <1>1 DEF IInv, Types, CoreTypes, ActsAlone, RefreshType
  <1>5. Types' /\ Ordered'
    BY <1>1, <1>3, <1>4, Constant
    DEF IInv, Types, CoreTypes, WorldTypes, world, Ordered, Stored, Later
  <1>6. ActsAlone' BY <1>1, <1>2, <1>3, <1>4, Constant DEF ActsAlone, Acts, Acting
  <1>7. PageOK' BY <1>1, <1>2, <1>3, <1>4, Constant DEF IInv, PageOK, LoggingOut, world
  <1>8. RequestOK(r)' BY <1>1, <1>2, <1>3 DEF IInv, RequestOK, Progress, Message, Tells, world
  <1> QED BY <1>1, <1>2, <1>3, <1>5, <1>6, <1>7, <1>8, OneMoves DEF IInv, world

\* It is not offered: nothing was carried out.
LEMMA NotOfferedKeeps ==
  ASSUME IInv, NEW r \in left.asked, NotOffered(r)
  PROVE  IInv'
  <1> DEFINE h == [handler[r] EXCEPT !.pc = "saving", !.outcome = "failed"]
  <1>1. /\ handler[r].pc = "validating" /\ Set(r, h)
        /\ UNCHANGED <<receipts, later, mutation, data, refresh, closing, world, left>>
    BY DEF NotOffered
  <1>2. r \in Requests /\ h \in HandlerType /\ h.pc = "saving" /\ h.outcome = "failed"
    <2>1. r \in Requests /\ handler[r] \in HandlerType /\ receipts[r] \in ReceiptType
      BY Asked, Typed
    <2> QED BY <2>1 DEF HandlerType, Pcs, Outcomes
  <1> HIDE DEF h
  <1>3. /\ handler' \in [Requests -> HandlerType] /\ handler'[r] = h
        /\ \A q \in Requests : q # r => handler'[q] = handler[q]
    BY <1>1, <1>2, Setting DEF IInv, Types, CoreTypes
  <1>4. Types' /\ Ordered'
    BY <1>1, <1>3 DEF IInv, Types, CoreTypes, WorldTypes, world, Ordered, Stored, Later
  <1>5. ActsAlone' /\ PageOK'
    <2>1. \A q \in Requests : (Acts(q)' => Acts(q)) /\ (LoggingOut(q) => LoggingOut(q)')
      BY <1>1, <1>2, <1>3 DEF Acts, LoggingOut
    <2> QED BY <1>1, <2>1, PageStays DEF world
  <1>6. RequestOK(r)'
    BY <1>1, <1>2, <1>3 DEF IInv, RequestOK, Progress, Message, Tells, world, None
  <1> QED BY <1>1, <1>2, <1>3, <1>4, <1>5, <1>6, OneMoves DEF IInv, world

\* The reads of a request: what the page shows now is on the disk.
LEMMA ReadsShow ==
  ASSUME IInv, NEW r \in Requests, NEW d, Reads(r, d)
  PROVE  /\ d \in DataType /\ data' = d /\ left' \in LeftType /\ left'.half = left.half
         /\ handler[r].pc = "reading"
         /\ d.ready /\ d.app = "present" => app = "present"
  <1>1. /\ data \in DataType /\ left \in LeftType /\ Types
    BY DEF IInv, Types, CoreTypes, WorldTypes
  <1>2. left' \in LeftType /\ left'.half = left.half
    <2>1. CASE UNCHANGED left BY <1>1, <2>1
    <2>2. CASE Spend("failures") BY <1>1, <2>2, Spending
    <2> QED BY <2>1, <2>2 DEF Reads
  <1>3. handler[r].pc = "reading" /\ data' = d /\ (d = Fresh(r) \/ d = Unread(data)) BY DEF Reads
  <1>4. \A q \in Requests : ~LoggingOut(q) BY <1>3 DEF IInv, ActsAlone, Acts, LoggingOut
  <1>5. data.ready /\ data.app = "present" => app = "present" BY <1>4 DEF IInv, PageOK
  <1>6. QuickRead(data) \in DataType /\ EvidenceRead(QuickRead(data)) \in DataType
        /\ EvidenceRead(QuickRead(data)).app = app /\ Unread(data) \in DataType
        /\ ~Unread(data).ready
        /\ QuickRead(data).app = data.app /\ QuickRead(data).ready = data.ready
    BY <1>1, Reading
  <1> QED BY <1>2, <1>3, <1>5, <1>6 DEF Fresh

\* The receipt says submitted before anything is carried out.
LEMMA SubmitKeeps ==
  ASSUME IInv, NEW r \in left.asked, Submit(r)
  PROVE  IInv'
  <1> DEFINE h == [handler[r] EXCEPT !.pc = "submitted"]
  <1>1. PICK d \in {Fresh(r), Unread(data)} :
          /\ Reads(r, d)
          /\ SaveReceipt(r, [receipts[r] EXCEPT !.outcome = "unknown", !.stage = "submitted",
                                         !.flow = handler[r].flow, !.app = Exists(d.app)])
          /\ Restamped(r) /\ Set(r, h)
          /\ UNCHANGED <<mutation, world>>
    BY DEF Submit
  <1> DEFINE new == [receipts[r] EXCEPT !.outcome = "unknown", !.stage = "submitted",
                                        !.flow = handler[r].flow, !.app = Exists(d.app)]
  <1>2. /\ r \in Requests /\ h \in HandlerType /\ h.pc = "submitted"
        /\ new \in ReceiptType /\ new.outcome = "unknown" /\ new.stage = "submitted"
    <2>1. r \in Requests /\ handler[r] \in HandlerType /\ receipts[r] \in ReceiptType
      BY Asked, Typed
    <2>2. Exists(d.app) \in BOOLEAN BY DEF Exists
    <2> QED BY <2>1, <2>2 DEF HandlerType, Pcs, ReceiptType, Outcomes
  <1>3. SaveReceipt(r, new) /\ Set(r, h) BY <1>1
  <1> HIDE DEF h, new
  <1>4. /\ d \in DataType /\ data' = d /\ left' \in LeftType /\ left'.half = left.half
        /\ handler[r].pc = "reading" /\ (d.ready /\ d.app = "present" => app = "present")
    BY <1>1, <1>2, ReadsShow
  <1>5. /\ handler' \in [Requests -> HandlerType] /\ handler'[r] = h
        /\ \A q \in Requests : q # r => handler'[q] = handler[q]
    BY <1>2, <1>3, Setting DEF IInv, Types, CoreTypes
  <1>6. /\ receipts' \in [Requests -> ReceiptType] /\ later' \subseteq Requests \X Requests
        /\ Ordered'
        /\ receipts'[r].outcome = "unknown" /\ receipts'[r].stage = "submitted"
        /\ \A q \in Requests : q # r => receipts'[q] = receipts[q]
    <2>1. new.outcome # None BY <1>2 DEF None
    <2> QED BY <1>2, <1>3, <2>1, Saving DEF IInv, Types, CoreTypes
  <1>7. /\ refresh' \in RefreshType /\ closing' \in ClosingType
        /\ refresh'.pc = refresh.pc /\ refresh'.mutation = refresh.mutation
        /\ refresh'.read = refresh.read
    BY <1>1, <1>2, Stamps DEF IInv
  <1>8. Types' BY <1>1, <1>4, <1>5, <1>6, <1>7 DEF IInv, Types, CoreTypes, WorldTypes, world
  <1>9. ActsAlone' BY <1>1, <1>2, <1>4, <1>5, <1>7 DEF IInv, ActsAlone, Acts
  <1>10. PageOK' BY <1>1, <1>4, <1>7 DEF IInv, PageOK, world
  <1>11. RequestOK(r)'
    BY <1>1, <1>2, <1>4, <1>5, <1>6 DEF IInv, RequestOK, Progress, Message, Tells, world, None
  <1> QED BY <1>1, <1>2, <1>4, <1>5, <1>6, <1>8, <1>9, <1>10, <1>11, OneMoves DEF IInv, world

\* The page has changed meanwhile: nothing was carried out.
LEMMA NotSubmittedKeeps ==
  ASSUME IInv, NEW r \in left.asked, NotSubmitted(r)
  PROVE  IInv'
  <1> DEFINE h == [handler[r] EXCEPT !.pc = "saving", !.outcome = "failed"]
  <1>1. PICK d \in {Fresh(r), Unread(data)} :
          /\ Reads(r, d) /\ Set(r, h)
          /\ UNCHANGED <<receipts, later, mutation, refresh, closing, world>>
    BY DEF NotSubmitted
  <1>2. r \in Requests /\ h \in HandlerType /\ h.pc = "saving" /\ h.outcome = "failed"
    <2>1. r \in Requests /\ handler[r] \in HandlerType /\ receipts[r] \in ReceiptType
      BY Asked, Typed
    <2> QED BY <2>1 DEF HandlerType, Pcs, Outcomes
  <1>3. Set(r, h) BY <1>1
  <1> HIDE DEF h
  <1>4. /\ d \in DataType /\ data' = d /\ left' \in LeftType /\ left'.half = left.half
        /\ handler[r].pc = "reading" /\ (d.ready /\ d.app = "present" => app = "present")
    BY <1>1, <1>2, ReadsShow
  <1>5. /\ handler' \in [Requests -> HandlerType] /\ handler'[r] = h
        /\ \A q \in Requests : q # r => handler'[q] = handler[q]
    BY <1>2, <1>3, Setting DEF IInv, Types, CoreTypes
  <1>6. Types' /\ Ordered'
    BY <1>1, <1>4, <1>5
    DEF IInv, Types, CoreTypes, WorldTypes, world, Ordered, Stored, Later
  <1>7. ActsAlone' BY <1>1, <1>2, <1>4, <1>5 DEF IInv, ActsAlone, Acts
  <1>8. PageOK' BY <1>1, <1>4 DEF IInv, PageOK, world
  <1>9. RequestOK(r)'
    BY <1>1, <1>2, <1>4, <1>5 DEF IInv, RequestOK, Progress, Message, Tells, world, None
  <1> QED BY <1>1, <1>2, <1>4, <1>5, <1>6, <1>7, <1>8, <1>9, OneMoves DEF IInv, world

(* The act *)

\* The handler of r has an answer.
Result(r, outcome) ==
  /\ handler' \in [Requests -> HandlerType] /\ left' \in LeftType /\ left'.half = left.half
  /\ handler'[r].pc = "executed" /\ handler'[r].outcome = outcome
  /\ \A q \in Requests : q # r => handler'[q] = handler[q]

\* What may become of the child and of a refresh.
Child ==
  /\ flow' \in Flows /\ healthy' \in BOOLEAN /\ refresh' \in RefreshType
  /\ refresh'.pc = refresh.pc /\ refresh'.mutation = refresh.mutation
  /\ refresh'.read = refresh.read

LEMMA ResultOfAnswer ==
  ASSUME IInv, NEW r \in Requests, NEW outcome \in Outcomes, NEW f \in Requests \cup {None},
         Answered(r, outcome, f)
  PROVE  Result(r, outcome)
  <1> DEFINE h == [handler[r] EXCEPT !.pc = "executed", !.outcome = outcome, !.flow = f]
  <1>1. handler[r] \in HandlerType /\ left \in LeftType BY Typed DEF Types, WorldTypes
  <1>2. h \in HandlerType /\ h.pc = "executed" /\ h.outcome = outcome
    BY <1>1 DEF HandlerType, Pcs
  <1>3. Set(r, h) /\ UNCHANGED left BY DEF Answered, Answer
  <1> HIDE DEF h
  <1> QED BY <1>1, <1>2, <1>3, Setting DEF Result, IInv, Types, CoreTypes

LEMMA ResultOfFailure ==
  ASSUME IInv, NEW r \in Requests, Unanswered(r)
  PROVE  Result(r, "unknown")
  <1> DEFINE h == [handler[r] EXCEPT !.pc = "executed", !.outcome = "unknown",
                                     !.flow = handler[r].flow]
  <1>1. handler[r] \in HandlerType /\ left \in LeftType BY Typed DEF Types, WorldTypes
  <1>2. h \in HandlerType /\ h.pc = "executed" /\ h.outcome = "unknown"
    BY <1>1 DEF HandlerType, Pcs, Outcomes
  <1>3. Set(r, h) /\ Spend("failures") BY DEF Unanswered, Answer
  <1>4. left' \in LeftType /\ left'.half = left.half BY <1>1, <1>3, Spending
  <1> HIDE DEF h
  <1> QED BY <1>1, <1>2, <1>3, <1>4, Setting DEF Result, IInv, Types, CoreTypes

\* The outcomes there are.
LEMMA OutcomesAre ==
  /\ {"pending", "unknown", "completed", "failed"} \subseteq Outcomes
  /\ None \notin {"pending", "unknown", "completed", "failed"}
  BY DEF Outcomes, None

LEMMA ChildStaysOrGoes ==
  ASSUME IInv, ChildGone \/ ChildStays
  PROVE  Child
  <1>1. flow \in Flows /\ healthy \in BOOLEAN /\ refresh \in RefreshType
    BY DEF IInv, Types, CoreTypes, WorldTypes
  <1> QED BY <1>1, Constant DEF Child, ChildGone, ChildStays, RefreshType

\* What one act may do: its own answer, which is not empty; and only a logout takes the
\* application.
Done(r) ==
  /\ \E outcome \in {"pending", "unknown", "completed", "failed"} :
       /\ Result(r, outcome)
       /\ Told(r) => Tells(r, outcome, ledger'[r])
  /\ Child
  /\ app' \in {"missing", "unbound", "present"} /\ (Action[r] # "logout" => app' = app)
  /\ left.half = {} => app' # "unbound"
  /\ ledger' \in [Requests -> Verdicts]
  /\ \A q \in Requests : q # r => ledger'[q] = ledger[q]

LEMMA CreateAppDoes ==
  ASSUME IInv, NEW r \in Requests, Action[r] = "create_app", CreateApp(r)
  PROVE  Done(r)
  <1>1. flow \in Flows /\ Types BY DEF IInv, Types, WorldTypes
  <1>2. UNCHANGED <<app, ledger, healthy, refresh>> BY DEF CreateApp
  <1>3. flow' \in Flows BY <1>1 DEF CreateApp, Flows, None
  <1>4. \/ \E o \in {"pending", "unknown", "failed"}, f \in {None, r} : Answered(r, o, f)
        \/ Unanswered(r)
    BY DEF CreateApp
  <1>5. \E o \in {"pending", "unknown", "completed", "failed"} : Result(r, o)
    BY <1>4, ResultOfAnswer, ResultOfFailure, OutcomesAre
  <1> QED BY <1>1, <1>2, <1>3, <1>5 DEF Done, Told, Child, Types, CoreTypes, WorldTypes

LEMMA FinishAppDoes ==
  ASSUME IInv, NEW r \in Requests, Action[r] = "finish_app", FinishApp(r)
  PROVE  Done(r)
  <1>1. handler[r].flow \in Requests \cup {None} /\ Types BY Typed DEF HandlerType
  <1>2. UNCHANGED <<app, ledger>> /\ (ChildGone \/ ChildStays) BY DEF FinishApp
  <1>3. Child BY <1>2, ChildStaysOrGoes
  <1>4. \/ \E o \in {"pending", "unknown", "completed"} : Answered(r, o, handler[r].flow)
        \/ Unanswered(r)
    BY DEF FinishApp
  <1>5. \E o \in {"pending", "unknown", "completed", "failed"} : Result(r, o)
    BY <1>1, <1>4, ResultOfAnswer, ResultOfFailure, OutcomesAre
  <1> QED BY <1>1, <1>2, <1>3, <1>5 DEF Done, Told, Types, WorldTypes

LEMMA CancelFlowDoes ==
  ASSUME IInv, NEW r \in Requests, Action[r] = "cancel_flow", CancelFlow(r)
  PROVE  Done(r)
  <1>1. handler[r].flow \in Requests \cup {None} /\ Types /\ flow \in Flows
    BY Typed DEF HandlerType, Types, WorldTypes
  <1>2. UNCHANGED <<app, ledger, healthy, refresh>> /\ (flow' = NoFlow \/ flow' = flow)
    BY DEF CancelFlow
  <1>3. Child BY <1>1, <1>2, Constant DEF Child, Types, CoreTypes, WorldTypes
  <1>4. \/ \E o \in {"unknown", "completed"} : Answered(r, o, handler[r].flow)
        \/ Unanswered(r)
    BY DEF CancelFlow
  <1>5. \E o \in {"pending", "unknown", "completed", "failed"} : Result(r, o)
    BY <1>1, <1>4, ResultOfAnswer, ResultOfFailure, OutcomesAre
  <1> QED BY <1>1, <1>2, <1>3, <1>5 DEF Done, Told, Types, WorldTypes

\* The ledger has nothing of a logout that was not carried out.
LEMMA LogoutDoes ==
  ASSUME IInv, NEW r \in Requests, Action[r] = "logout", ledger[r] = None, Logout(r)
  PROVE  Done(r)
  <1>1. Types /\ ledger \in [Requests -> Verdicts] /\ (left.half = {} => app # "unbound")
    BY DEF IInv, Types, WorldTypes
  <1>2. Child BY ChildStaysOrGoes DEF Logout
  <1>3. CASE /\ app' = "missing" /\ ledger' = [ledger EXCEPT ![r] = "completed"]
             /\ Answered(r, "completed", None) \/ Unanswered(r)
    <2>1. \E o \in {"unknown", "completed"} : Result(r, o)
      BY <1>3, ResultOfAnswer, ResultOfFailure, OutcomesAre
    <2>2. /\ ledger' \in [Requests -> Verdicts] /\ ledger'[r] = "completed"
          /\ \A q \in Requests : q # r => ledger'[q] = ledger[q]
      BY <1>1, <1>3 DEF Verdicts
    <2> QED BY <1>2, <1>3, <2>1, <2>2 DEF Done, Tells
  <1>4. CASE "purge" \in left.half /\ app' = "unbound" /\ UNCHANGED ledger /\ Unanswered(r)
    <2>1. Result(r, "unknown") BY <1>4, ResultOfFailure
    <2> QED BY <1>1, <1>2, <1>4, <2>1 DEF Done, Tells
  <1>5. CASE UNCHANGED <<app, ledger>> /\ (Answered(r, "failed", None) \/ Unanswered(r))
    <2>1. \E o \in {"unknown", "failed"} : Result(r, o)
      BY <1>5, ResultOfAnswer, ResultOfFailure, OutcomesAre
    <2> QED BY <1>1, <1>2, <1>5, <2>1 DEF Done, Tells, Types, WorldTypes
  <1> QED BY <1>3, <1>4, <1>5 DEF Logout

LEMMA RestartChildDoes ==
  ASSUME IInv, NEW r \in Requests, Action[r] = "restart", RestartChild(r)
  PROVE  Done(r)
  <1>1. Types BY DEF IInv
  <1>2. UNCHANGED <<app, ledger>> /\ ChildGone BY DEF RestartChild
  <1>3. Child BY <1>2, ChildStaysOrGoes
  <1>4. Answered(r, "completed", None) \/ Unanswered(r) BY DEF RestartChild
  <1>5. \E o \in {"pending", "unknown", "completed", "failed"} : Result(r, o)
    BY <1>4, ResultOfAnswer, ResultOfFailure, OutcomesAre
  <1> QED BY <1>1, <1>2, <1>3, <1>5 DEF Done, Told, Types, WorldTypes

\* The ledger has nothing of a message that was not sent.
LEMMA TestMessageDoes ==
  ASSUME IInv, NEW r \in Requests, Action[r] = "test_message", ledger[r] = None,
         TestMessage(r)
  PROVE  Done(r)
  <1>1. Types /\ ledger \in [Requests -> Verdicts] BY DEF IInv, Types, WorldTypes
  <1>2. UNCHANGED app /\ Child BY ChildStaysOrGoes DEF TestMessage
  <1>3. CASE ledger' = [ledger EXCEPT ![r] = "completed"] /\ Answered(r, "completed", None)
    <2>1. Result(r, "completed") BY <1>3, ResultOfAnswer, OutcomesAre
    <2>2. /\ ledger' \in [Requests -> Verdicts] /\ ledger'[r] = "completed"
          /\ \A q \in Requests : q # r => ledger'[q] = ledger[q]
      BY <1>1, <1>3 DEF Verdicts
    <2> QED BY <1>1, <1>2, <2>1, <2>2 DEF Done, Tells, Types, WorldTypes
  <1>4. CASE ledger' = [ledger EXCEPT ![r] = "failed"] /\ Answered(r, "failed", None)
    <2>1. Result(r, "failed") BY <1>4, ResultOfAnswer, OutcomesAre
    <2>2. /\ ledger' \in [Requests -> Verdicts] /\ ledger'[r] = "failed"
          /\ \A q \in Requests : q # r => ledger'[q] = ledger[q]
      BY <1>1, <1>4 DEF Verdicts
    <2> QED BY <1>1, <1>2, <2>1, <2>2 DEF Done, Tells, Types, WorldTypes
  <1>5. CASE ledger' = [ledger EXCEPT ![r] = "writing"] /\ Unanswered(r)
    <2>1. Result(r, "unknown") BY <1>5, ResultOfFailure
    <2>2. /\ ledger' \in [Requests -> Verdicts]
          /\ \A q \in Requests : q # r => ledger'[q] = ledger[q]
      BY <1>1, <1>5 DEF Verdicts
    <2> QED BY <1>1, <1>2, <2>1, <2>2 DEF Done, Tells, Types, WorldTypes
  <1>6. CASE UNCHANGED ledger /\ Answered(r, "failed", None)
    <2>1. Result(r, "failed") BY <1>6, ResultOfAnswer, OutcomesAre
    <2> QED BY <1>1, <1>2, <1>6, <2>1 DEF Done, Tells, Types, WorldTypes
  <1> QED BY <1>3, <1>4, <1>5, <1>6 DEF TestMessage

\* A request is carried out once: it was submitted, and is so no more.
LEMMA ExecuteKeeps ==
  ASSUME IInv, NEW r \in left.asked, Execute(r)
  PROVE  IInv'
  <1>1. /\ handler[r].pc = "submitted"
        /\ executed' = [executed EXCEPT ![r] = executed[r] + 1]
        /\ UNCHANGED <<receipts, later, mutation, data, closing>>
    BY DEF Execute
  <1>2. r \in Requests /\ Types /\ ActsAlone /\ PageOK /\ Ordered /\ RequestOK(r) BY Asked, Typed
  <1>3. executed[r] = 0 /\ ledger[r] = None BY <1>1, <1>2 DEF RequestOK, Progress
  <1>4. Action[r] \in Actions BY <1>2, ConfigurationAssumption
  <1>5. Done(r)
    BY <1>2, <1>3, <1>4, CreateAppDoes, FinishAppDoes, CancelFlowDoes, LogoutDoes,
       RestartChildDoes, TestMessageDoes DEF Execute, Actions
  <1>6. PICK outcome \in {"pending", "unknown", "completed", "failed"} :
          /\ Result(r, outcome)
          /\ Told(r) => Tells(r, outcome, ledger'[r])
    BY <1>5 DEF Done
  <1>7. /\ executed' \in [Requests -> Nat] /\ executed'[r] = 1
        /\ \A q \in Requests : q # r => executed'[q] = executed[q]
    BY <1>1, <1>2, <1>3 DEF Types, WorldTypes
  <1>8. /\ Child /\ app' \in {"missing", "unbound", "present"}
        /\ (Action[r] # "logout" => app' = app) /\ (left.half = {} => app' # "unbound")
        /\ ledger' \in [Requests -> Verdicts]
        /\ \A q \in Requests : q # r => ledger'[q] = ledger[q]
    BY <1>5 DEF Done
  <1>9. Types' /\ Ordered'
    <2>1. CoreTypes' BY <1>1, <1>2, <1>6, <1>8 DEF Result, Child, Types, CoreTypes
    <2>2. WorldTypes' BY <1>6, <1>7, <1>8 DEF Result, Child, WorldTypes
    <2>3. Ordered' BY <1>1, <1>2 DEF Ordered, Stored, Later
    <2> QED BY <2>1, <2>2, <2>3 DEF Types
  <1>10. ActsAlone' BY <1>1, <1>2, <1>6, <1>8 DEF Result, Child, ActsAlone, Acts
  <1>11. PageOK'
    <2>1. refresh'.pc = "none" BY <1>1, <1>2, <1>8 DEF ActsAlone, Acts, Child
    <2>2. Action[r] = "logout" => LoggingOut(r)' BY <1>6 DEF Result, LoggingOut
    <2>3. \A q \in Requests : ~LoggingOut(q) BY <1>1, <1>2 DEF ActsAlone, Acts, LoggingOut
    <2> QED BY <1>1, <1>2, <1>8, <2>1, <2>2, <2>3 DEF PageOK
  <1>12. RequestOK(r)'
    <2>1. /\ handler'[r].pc = "executed" /\ handler'[r].outcome = outcome
          /\ receipts'[r] = receipts[r] /\ executed'[r] = 1
          /\ Told(r) => Tells(r, outcome, ledger'[r])
      BY <1>1, <1>6, <1>7 DEF Result
    <2>2. outcome # None BY OutcomesAre
    <2>3. Progress(r)' BY <1>1, <1>2, <2>1, <2>2 DEF RequestOK, Progress
    <2>4. Message(r)' BY <1>1, <1>2, <1>6, <2>1 DEF Result, RequestOK, Message, Tells
    <2> QED BY <2>3, <2>4 DEF RequestOK
  <1> QED BY <1>1, <1>2, <1>6, <1>7, <1>8, <1>9, <1>10, <1>11, <1>12, OneMoves DEF Result, IInv

(* The end of a request *)

\* A logout leaves a page that offers nothing.
LEMMA SettleKeeps ==
  ASSUME IInv, NEW r \in left.asked, Settle(r)
  PROVE  IInv'
  <1> DEFINE h == [handler[r] EXCEPT !.pc = "saving"]
  <1>1. /\ handler[r].pc = "executed" /\ Set(r, h)
        /\ data' = [data EXCEPT !.ready = @ /\ Action[r] \in {"test_message", "restart"},
                                !.flow = IF handler[r].outcome = "completed" /\ EndsFlow(r)
                                         THEN NoFlow ELSE @]
        /\ UNCHANGED <<receipts, later, mutation, refresh, closing, world, left>>
    BY DEF Settle
  <1>2. r \in Requests /\ Types /\ ActsAlone /\ PageOK /\ RequestOK(r) BY Asked, Typed
  <1>3. h \in HandlerType /\ h.pc = "saving" /\ h.outcome = handler[r].outcome
    <2>1. handler[r] \in HandlerType BY <1>2, Typed
    <2> QED BY <2>1 DEF HandlerType, Pcs
  <1> HIDE DEF h
  <1>4. /\ handler' \in [Requests -> HandlerType] /\ handler'[r] = h
        /\ \A q \in Requests : q # r => handler'[q] = handler[q]
    BY <1>1, <1>2, <1>3, Setting DEF Types, CoreTypes
  <1>5. /\ data' \in DataType /\ data'.app = data.app
        /\ data'.ready => data.ready /\ Action[r] \in {"test_message", "restart"}
    <2>1. data \in DataType BY <1>2 DEF Types, CoreTypes
    <2>2. /\ data'.app = data.app
          /\ data'.ready = (data.ready /\ Action[r] \in {"test_message", "restart"})
      BY <1>1, <2>1 DEF DataType
    <2>3. data' \in DataType BY <1>1, <2>1, Constant DEF DataType
    <2> QED BY <2>2, <2>3
  <1>6. Types' /\ Ordered'
    BY <1>1, <1>2, <1>4, <1>5
    DEF IInv, Types, CoreTypes, WorldTypes, world, Ordered, Stored, Later
  <1>7. ActsAlone' BY <1>1, <1>2, <1>3, <1>4 DEF ActsAlone, Acts
  <1>8. PageOK'
    <2>1. \A q \in Requests : LoggingOut(q) => q = r
      BY <1>1, <1>2 DEF ActsAlone, Acts, LoggingOut
    <2>2. data'.ready => ~LoggingOut(r) BY <1>5 DEF LoggingOut
    <2> QED BY <1>1, <1>2, <1>5, <2>1, <2>2 DEF PageOK, world
  <1>9. RequestOK(r)'
    <2>1. Progress(r)' BY <1>1, <1>2, <1>3, <1>4 DEF RequestOK, Progress, world
    <2>2. Message(r)' BY <1>1, <1>2, <1>3, <1>4 DEF RequestOK, Message, Tells, world
    <2> QED BY <2>1, <2>2 DEF RequestOK
  <1> QED BY <1>1, <1>2, <1>3, <1>4, <1>6, <1>7, <1>8, <1>9, OneMoves DEF IInv, world

\* Its receipt says what its answer said.
LEMMA SaveKeeps ==
  ASSUME IInv, NEW r \in left.asked, Save(r)
  PROVE  IInv'
  <1> DEFINE h == CASE handler[r].outcome = "completed" /\ Action[r] = "logout" ->
                         [Idle EXCEPT !.pc = "scrubbing", !.todo = Stored \ {r}]
                    [] handler[r].outcome = "completed" /\ Action[r] = "finish_app" ->
                         [handler[r] EXCEPT !.pc = "origin"]
                    [] OTHER -> Idle
             new == [receipts[r] EXCEPT !.outcome = handler[r].outcome,
                                        !.stage = FinalStage(r), !.flow = handler[r].flow]
  <1>1. /\ handler[r].pc = "saving" /\ Set(r, h) /\ SaveReceipt(r, new) /\ Restamped(r)
        /\ UNCHANGED <<mutation, data, world, left>>
    BY DEF Save
  <1>2. r \in Requests /\ Types /\ RequestOK(r) BY Asked, Typed
  <1>3. handler[r] \in HandlerType /\ receipts[r] \in ReceiptType /\ Stored \subseteq Requests
    BY <1>2, Typed DEF Stored
  <1>4. h \in HandlerType /\ h.pc \in {"idle", "scrubbing", "origin"}
    <2>1. [Idle EXCEPT !.pc = "scrubbing", !.todo = Stored \ {r}] \in HandlerType
      BY <1>3 DEF HandlerType, Pcs, Idle, Outcomes, None
    <2>2. [handler[r] EXCEPT !.pc = "origin"] \in HandlerType BY <1>3 DEF HandlerType, Pcs
    <2>3. /\ [Idle EXCEPT !.pc = "scrubbing", !.todo = Stored \ {r}].pc = "scrubbing"
          /\ [handler[r] EXCEPT !.pc = "origin"].pc = "origin"
      BY <1>3 DEF Idle, HandlerType
    <2> QED BY <2>1, <2>2, <2>3, Constant
  <1>5. /\ FinalStage(r) \in {"verified", "submitted", receipts[r].stage}
        /\ new \in ReceiptType /\ new.outcome = handler[r].outcome
        /\ new.stage = FinalStage(r)
    <2>1. FinalStage(r) \in {"verified", "submitted", receipts[r].stage} BY DEF FinalStage
    <2> QED BY <1>3, <2>1 DEF ReceiptType, HandlerType
  <1> HIDE DEF h, new
  <1>6. handler[r].outcome # None BY <1>1, <1>2 DEF RequestOK, Progress
  <1>7. /\ handler' \in [Requests -> HandlerType] /\ handler'[r] = h
        /\ \A q \in Requests : q # r => handler'[q] = handler[q]
    BY <1>1, <1>2, <1>4, Setting DEF Types, CoreTypes
  <1>8. /\ receipts' \in [Requests -> ReceiptType] /\ later' \subseteq Requests \X Requests
        /\ Ordered'
        /\ receipts'[r].outcome = handler[r].outcome /\ receipts'[r].stage = FinalStage(r)
        /\ \A q \in Requests : q # r => receipts'[q] = receipts[q]
    BY <1>1, <1>2, <1>5, <1>6, Saving DEF IInv, Types, CoreTypes
  <1>9. /\ refresh' \in RefreshType /\ closing' \in ClosingType
        /\ refresh'.pc = refresh.pc /\ refresh'.mutation = refresh.mutation
        /\ refresh'.read = refresh.read
    BY <1>1, <1>2, Stamps
  <1>10. Types' BY <1>1, <1>2, <1>7, <1>8, <1>9 DEF Types, CoreTypes, WorldTypes, world
  <1>11. ActsAlone' /\ PageOK'
    <2>1. \A q \in Requests : (Acts(q)' => Acts(q)) /\ (LoggingOut(q) => LoggingOut(q)')
      BY <1>1, <1>4, <1>7 DEF Acts, LoggingOut
    <2> QED BY <1>1, <1>9, <2>1, PageStays DEF world
  <1>12. RequestOK(r)'
    <2>1. Progress(r)' BY <1>1, <1>2, <1>4, <1>5, <1>6, <1>7, <1>8 DEF RequestOK, Progress, world
    <2>2. Message(r)' BY <1>1, <1>2, <1>4, <1>7, <1>8 DEF RequestOK, Message, Tells, world
    <2> QED BY <2>1, <2>2 DEF RequestOK
  <1> QED BY <1>1, <1>2, <1>7, <1>8, <1>10, <1>11, <1>12, OneMoves DEF IInv, world

\* What a logout makes of a receipt.
LEMMA Cancelling ==
  ASSUME IInv, NEW q \in Requests
  PROVE  /\ CancelledByLogout(q) \in ReceiptType
         /\ CancelledByLogout(q).stage \in {receipts[q].stage, "verified"}
         /\ \/ CancelledByLogout(q).outcome = receipts[q].outcome
            \/ /\ ~Told(q) \/ CancelledByLogout(q).outcome = "resolved"
               /\ CancelledByLogout(q).outcome # None /\ receipts[q].outcome # None
  <1>1. receipts[q] \in ReceiptType BY Typed
  <1> DEFINE s == Scrubbed(receipts[q])
  <1>2. s \in ReceiptType /\ s.outcome = receipts[q].outcome /\ s.stage = receipts[q].stage
    BY <1>1 DEF Scrubbed, ReceiptType
  <1> HIDE DEF s
  <1>3. CASE Action[q] \in configurationFlowAction /\ Unresolved(q)
    <2>1. CancelledByLogout(q) = [s EXCEPT !.outcome = "failed", !.stage = "verified"]
      BY <1>3 DEF CancelledByLogout, s
    <2>2. [s EXCEPT !.outcome = "failed", !.stage = "verified"] \in ReceiptType
      BY <1>2 DEF ReceiptType, Outcomes
    <2>3. /\ CancelledByLogout(q).outcome = "failed"
          /\ CancelledByLogout(q).stage = "verified"
      BY <1>2, <2>1 DEF ReceiptType
    <2> QED BY <1>3, <2>1, <2>2, <2>3 DEF configurationFlowAction, Unresolved, Told, None
  <1>4. CASE ~(Action[q] \in configurationFlowAction /\ Unresolved(q))
    BY <1>2, <1>4 DEF CancelledByLogout, s
  <1> QED BY <1>3, <1>4

\* A logout cleans the receipts of others.
LEMMA ScrubKeeps ==
  ASSUME IInv, NEW r \in left.asked, NEW q \in handler[r].todo, Scrub(r, q)
  PROVE  IInv'
  <1> DEFINE h == IF handler[r].todo = {q} THEN Idle
                  ELSE [handler[r] EXCEPT !.todo = @ \ {q}]
  <1>1. /\ handler[r].pc = "scrubbing" /\ Set(r, h)
        /\ WriteReceipt(q, CancelledByLogout(q))
        /\ UNCHANGED <<mutation, data, refresh, closing, world, left>>
    BY DEF Scrub
  <1>2. r \in Requests /\ Types /\ Ordered BY Asked, Typed
  <1>3. h \in HandlerType /\ h.pc \in {"idle", "scrubbing"} /\ q \in Requests
    <2>1. handler[r] \in HandlerType BY <1>2, Typed
    <2>2. /\ [handler[r] EXCEPT !.todo = @ \ {q}] \in HandlerType
          /\ [handler[r] EXCEPT !.todo = @ \ {q}].pc = "scrubbing"
      BY <1>1, <2>1 DEF HandlerType
    <2>3. q \in Requests BY <2>1 DEF HandlerType
    <2> QED BY <2>2, <2>3, Constant
  <1> HIDE DEF h
  <1>4. /\ handler' \in [Requests -> HandlerType] /\ handler'[r] = h
        /\ \A p \in Requests : p # r => handler'[p] = handler[p]
    BY <1>1, <1>2, <1>3, Setting DEF Types, CoreTypes
  <1>5. /\ receipts' \in [Requests -> ReceiptType] /\ later' = later /\ Ordered'
        /\ receipts'[q] = CancelledByLogout(q)
        /\ \A p \in Requests : p # q => receipts'[p] = receipts[p]
    <2>1. /\ CancelledByLogout(q) \in ReceiptType
          /\ (CancelledByLogout(q).outcome = None) = (receipts[q].outcome = None)
      BY <1>3, Cancelling
    <2> QED BY <1>1, <1>2, <1>3, <2>1, Writing DEF Types, CoreTypes
  <1>6. Types' BY <1>1, <1>2, <1>4, <1>5 DEF Types, CoreTypes, WorldTypes, world
  <1>7. ActsAlone' /\ PageOK'
    <2>1. \A p \in Requests : (Acts(p)' => Acts(p)) /\ (LoggingOut(p) => LoggingOut(p)')
      BY <1>1, <1>3, <1>4 DEF Acts, LoggingOut
    <2> QED BY <1>1, <2>1, PageStays DEF world
  <1>8. \A p \in Requests : RequestOK(p)'
    <2> SUFFICES ASSUME NEW p \in Requests
                 PROVE  RequestOK(p)'
      OBVIOUS
    <2>1. handler'[p] = handler[p] \/ (p = r /\ handler'[p].pc \in {"idle", "scrubbing"})
      BY <1>3, <1>4
    <2>2. /\ receipts'[p].stage \in {receipts[p].stage, "verified"}
          /\ \/ receipts'[p].outcome = receipts[p].outcome
             \/ /\ ~Told(p) \/ receipts'[p].outcome = "resolved"
                /\ receipts'[p].outcome # None /\ receipts[p].outcome # None
      BY <1>5, Cancelling
    <2> QED BY <1>1, <2>1, <2>2, Overwriting DEF world
  <1> QED BY <1>5, <1>6, <1>7, <1>8 DEF IInv

LEMMA NothingToScrubKeeps ==
  ASSUME IInv, NEW r \in left.asked, NothingToScrub(r)
  PROVE  IInv'
  <1>1. /\ handler[r].pc = "scrubbing" /\ Set(r, Idle)
        /\ UNCHANGED <<receipts, later, mutation, data, refresh, closing, world, left>>
    BY DEF NothingToScrub
  <1>2. r \in Requests BY Asked
  <1>3. /\ handler' \in [Requests -> HandlerType] /\ handler'[r] = Idle
        /\ \A q \in Requests : q # r => handler'[q] = handler[q]
    BY <1>1, <1>2, Constant, Setting DEF IInv, Types, CoreTypes
  <1>4. Types' /\ Ordered'
    BY <1>1, <1>3 DEF IInv, Types, CoreTypes, WorldTypes, world, Ordered, Stored, Later
  <1>5. ActsAlone' /\ PageOK'
    <2>1. \A q \in Requests : (Acts(q)' => Acts(q)) /\ (LoggingOut(q) => LoggingOut(q)')
      BY <1>1, <1>3, Constant DEF Acts, LoggingOut
    <2> QED BY <1>1, <2>1, PageStays DEF world
  <1>6. RequestOK(r)' BY <1>1, <1>2, <1>3, Constant, Overwriting DEF world
  <1> QED BY <1>1, <1>2, <1>3, <1>4, <1>5, <1>6, OneMoves DEF IInv, world

\* At most receipts are stamped, and those not of test messages.
Stamping ==
  /\ receipts' \in [Requests -> ReceiptType] /\ later' \subseteq Requests \X Requests
  /\ Ordered' /\ refresh' \in RefreshType /\ closing' \in ClosingType
  /\ refresh'.pc = refresh.pc /\ refresh'.mutation = refresh.mutation
  /\ refresh'.read = refresh.read
  /\ \A q \in Requests :
       /\ receipts'[q].stage \in {receipts[q].stage, "verified"}
       /\ \/ receipts'[q].outcome = receipts[q].outcome
          \/ /\ ~Told(q) \/ receipts'[q].outcome = "resolved"
             /\ receipts'[q].outcome # None /\ receipts[q].outcome # None

\* A confirmed flow completes the request that began it.
LEMMA CompleteOriginKeeps ==
  ASSUME IInv, NEW r \in left.asked, CompleteOrigin(r)
  PROVE  IInv'
  <1>1. /\ handler[r].pc = "origin" /\ Set(r, Idle)
        /\ UNCHANGED <<mutation, data, world, left>>
    BY DEF CompleteOrigin
  <1>2. r \in Requests /\ Types /\ Ordered BY Asked, Typed
  <1>3. /\ handler' \in [Requests -> HandlerType] /\ handler'[r] = Idle
        /\ \A q \in Requests : q # r => handler'[q] = handler[q]
    BY <1>1, <1>2, Constant, Setting DEF Types, CoreTypes
  <1>4. Stamping
    <2>1. CASE UNCHANGED <<receipts, later, refresh, closing>>
      BY <1>2, <2>1 DEF Stamping, Types, CoreTypes, Ordered, Stored, Later
    <2>2. ASSUME NEW q \in Origin(r), Restamped(q),
                 SaveReceipt(q, [receipts[q] EXCEPT !.outcome = "completed",
                                                    !.stage = "verified"])
          PROVE  Stamping
      <3> DEFINE new == [receipts[q] EXCEPT !.outcome = "completed", !.stage = "verified"]
      <3>1. q \in Requests /\ Action[q] = "create_app" /\ receipts[q].outcome # None
        BY DEF Origin, Unresolved, None
      <3>2. /\ new \in ReceiptType /\ new.outcome = "completed" /\ new.stage = "verified"
            /\ new.outcome # None
        <4>1. receipts[q] \in ReceiptType BY <3>1, Typed
        <4> QED BY <4>1 DEF ReceiptType, Outcomes, None
      <3>3. SaveReceipt(q, new) BY <2>2
      <3> HIDE DEF new
      <3>4. /\ receipts' \in [Requests -> ReceiptType]
            /\ later' \subseteq Requests \X Requests /\ Ordered'
            /\ receipts'[q].outcome = "completed" /\ receipts'[q].stage = "verified"
            /\ \A p \in Requests : p # q => receipts'[p] = receipts[p]
        BY <1>2, <3>1, <3>2, <3>3, Saving DEF Types, CoreTypes
      <3>5. /\ refresh' \in RefreshType /\ closing' \in ClosingType
            /\ refresh'.pc = refresh.pc /\ refresh'.mutation = refresh.mutation
            /\ refresh'.read = refresh.read
        BY <1>2, <2>2, <3>1, Stamps
      <3> QED BY <3>1, <3>2, <3>4, <3>5 DEF Stamping, Told
    <2> QED BY <2>1, <2>2 DEF CompleteOrigin
  <1>5. Types' /\ Ordered'
    BY <1>1, <1>2, <1>3, <1>4 DEF Stamping, Types, CoreTypes, WorldTypes, world
  <1>6. ActsAlone' /\ PageOK'
    <2>1. \A q \in Requests : (Acts(q)' => Acts(q)) /\ (LoggingOut(q) => LoggingOut(q)')
      BY <1>1, <1>3, Constant DEF Acts, LoggingOut
    <2> QED BY <1>1, <1>4, <2>1, PageStays DEF Stamping, world
  <1>7. \A q \in Requests : RequestOK(q)'
    <2> SUFFICES ASSUME NEW q \in Requests
                 PROVE  RequestOK(q)'
      OBVIOUS
    <2>1. handler'[q] = handler[q] \/ (q = r /\ handler'[q].pc = "idle") BY <1>3, Constant
    <2>2. /\ receipts'[q].stage \in {receipts[q].stage, "verified"}
          /\ \/ receipts'[q].outcome = receipts[q].outcome
             \/ /\ ~Told(q) \/ receipts'[q].outcome = "resolved"
                /\ receipts'[q].outcome # None /\ receipts[q].outcome # None
      BY <1>4 DEF Stamping
    <2> QED BY <1>1, <2>1, <2>2, Overwriting DEF world
  <1> QED BY <1>5, <1>6, <1>7 DEF IInv

(* Queries, migrations and refreshes *)

\* What a query finds of a message is what the ledger has; and a logout is found only where
\* something stopped halfway.
LEMMA QueryReadsKeeps ==
  ASSUME IInv, NEW r \in left.asked, QueryReads(r)
  PROVE  IInv'
  <1> DEFINE h == [Idle EXCEPT !.pc = "querying", !.outcome = Found(r), !.app = receipts[r].app]
  <1>1. /\ handler[r].pc = "idle" /\ Unresolved(r) /\ Found(r) # None /\ Set(r, h)
        /\ UNCHANGED <<receipts, later, mutation, data, refresh, closing, world, left>>
    BY DEF QueryReads
  <1>2. r \in Requests /\ Types /\ RequestOK(r) /\ receipts[r] \in ReceiptType BY Asked, Typed
  <1>3. /\ Found(r) \in {"completed", "failed", None}
        /\ Told(r) => Tells(r, Found(r), ledger[r])
    BY <1>2 DEF Found, Told, Tells, Types, WorldTypes, None
  <1>4. h \in HandlerType /\ h.pc = "querying" /\ h.outcome = Found(r)
    BY <1>2, <1>3 DEF HandlerType, Pcs, Idle, Outcomes, None, ReceiptType
  <1> HIDE DEF h
  <1>5. /\ handler' \in [Requests -> HandlerType] /\ handler'[r] = h
        /\ \A q \in Requests : q # r => handler'[q] = handler[q]
    BY <1>1, <1>2, <1>4, Setting DEF Types, CoreTypes
  <1>6. Types' /\ Ordered'
    BY <1>1, <1>5 DEF IInv, Types, CoreTypes, WorldTypes, world, Ordered, Stored, Later
  <1>7. ActsAlone' /\ PageOK'
    <2>1. \A q \in Requests : (Acts(q)' => Acts(q)) /\ (LoggingOut(q) => LoggingOut(q)')
      BY <1>1, <1>4, <1>5 DEF Acts, LoggingOut
    <2> QED BY <1>1, <2>1, PageStays DEF world
  <1>8. RequestOK(r)'
    <2>1. Progress(r)' BY <1>1, <1>2, <1>4, <1>5 DEF RequestOK, Progress, Unresolved, world, None
    <2>2. Message(r)' BY <1>1, <1>2, <1>3, <1>4, <1>5 DEF RequestOK, Message, Tells, world
    <2> QED BY <2>1, <2>2 DEF RequestOK
  <1> QED BY <1>1, <1>2, <1>5, <1>6, <1>7, <1>8, OneMoves DEF IInv, world

LEMMA QuerySavesKeeps ==
  ASSUME IInv, NEW r \in left.asked, QuerySaves(r)
  PROVE  IInv'
  <1> DEFINE new == [receipts[r] EXCEPT !.outcome = handler[r].outcome, !.stage = "verified",
                                        !.app = handler[r].app]
  <1>1. /\ handler[r].pc = "querying" /\ Set(r, Idle) /\ SaveReceipt(r, new) /\ Restamped(r)
        /\ UNCHANGED <<mutation, data, world, left>>
    BY DEF QuerySaves
  <1>2. r \in Requests /\ Types /\ RequestOK(r) BY Asked, Typed
  <1>3. new \in ReceiptType /\ new.outcome = handler[r].outcome /\ new.stage = "verified"
    <2>1. handler[r] \in HandlerType /\ receipts[r] \in ReceiptType BY <1>2, Typed
    <2> QED BY <2>1 DEF ReceiptType, HandlerType
  <1> HIDE DEF new
  <1>4. handler[r].outcome # None BY <1>1, <1>2 DEF RequestOK, Progress
  <1>5. /\ handler' \in [Requests -> HandlerType] /\ handler'[r] = Idle
        /\ \A q \in Requests : q # r => handler'[q] = handler[q]
    BY <1>1, <1>2, Constant, Setting DEF Types, CoreTypes
  <1>6. /\ receipts' \in [Requests -> ReceiptType] /\ later' \subseteq Requests \X Requests
        /\ Ordered'
        /\ receipts'[r].outcome = handler[r].outcome /\ receipts'[r].stage = "verified"
        /\ \A q \in Requests : q # r => receipts'[q] = receipts[q]
    BY <1>1, <1>2, <1>3, <1>4, Saving DEF IInv, Types, CoreTypes
  <1>7. /\ refresh' \in RefreshType /\ closing' \in ClosingType
        /\ refresh'.pc = refresh.pc /\ refresh'.mutation = refresh.mutation
        /\ refresh'.read = refresh.read
    BY <1>1, <1>2, Stamps
  <1>8. Types' BY <1>1, <1>2, <1>5, <1>6, <1>7 DEF Types, CoreTypes, WorldTypes, world
  <1>9. ActsAlone' /\ PageOK'
    <2>1. \A q \in Requests : (Acts(q)' => Acts(q)) /\ (LoggingOut(q) => LoggingOut(q)')
      BY <1>1, <1>5, Constant DEF Acts, LoggingOut
    <2> QED BY <1>1, <1>7, <2>1, PageStays DEF world
  <1>10. RequestOK(r)'
    <2>1. Progress(r)' BY <1>1, <1>2, <1>4, <1>5, <1>6, Constant DEF RequestOK, Progress, world
    <2>2. Message(r)' BY <1>1, <1>2, <1>5, <1>6, Constant DEF RequestOK, Message, Tells, world
    <2> QED BY <2>1, <2>2 DEF RequestOK
  <1> QED BY <1>1, <1>2, <1>5, <1>6, <1>8, <1>9, <1>10, OneMoves DEF IInv, world

\* A receipt is written, and nothing else moves but what is left behind.
LEMMA WriteKeeps ==
  ASSUME IInv, NEW r \in Requests, NEW receipt \in ReceiptType, WriteReceipt(r, receipt),
         receipt.stage \in {receipts[r].stage, "verified"},
         \/ receipt.outcome = receipts[r].outcome
         \/ /\ ~Told(r) \/ receipt.outcome = "resolved"
            /\ receipt.outcome # None /\ receipts[r].outcome # None,
         UNCHANGED <<handler, mutation, data, refresh, world, left>>, closing' \in ClosingType
  PROVE  IInv'
  <1>1. Types /\ Ordered BY DEF IInv
  <1>2. /\ receipts' \in [Requests -> ReceiptType] /\ later' = later /\ Ordered'
        /\ receipts'[r] = receipt
        /\ \A q \in Requests : q # r => receipts'[q] = receipts[q]
    <2>1. (receipt.outcome = None) = (receipts[r].outcome = None)
      OBVIOUS
    <2> QED BY <1>1, <2>1, Writing DEF Types, CoreTypes
  <1>3. Types' BY <1>1, <1>2 DEF Types, CoreTypes, WorldTypes, world
  <1>4. ActsAlone' /\ PageOK'
    <2>1. \A q \in Requests : (Acts(q)' => Acts(q)) /\ (LoggingOut(q) => LoggingOut(q)')
      BY DEF Acts, LoggingOut
    <2> QED BY <2>1, PageStays DEF world
  <1>5. \A q \in Requests : RequestOK(q)' BY <1>2, Overwriting DEF world
  <1> QED BY <1>2, <1>3, <1>4, <1>5 DEF IInv

\* Old receipts are settled by what came after them.
LEMMA MigrateKeeps ==
  ASSUME IInv, NEW r \in left.asked, Migrate(r)
  PROVE  IInv'
  <1>1. r \in Requests /\ receipts[r] \in ReceiptType /\ Types BY Asked, Typed
  <1>2. UNCHANGED <<handler, mutation, data, refresh, world, left>> /\ closing' \in ClosingType
    BY <1>1 DEF Migrate, core, Types, CoreTypes
  <1> DEFINE s == Scrubbed(receipts[r])
  <1>3. s \in ReceiptType /\ s.outcome = receipts[r].outcome BY <1>1 DEF Scrubbed, ReceiptType
  <1>4. CASE EndedByLogout(r) /\ WriteReceipt(r, CancelledByLogout(r))
    BY <1>1, <1>2, <1>4, Cancelling, WriteKeeps
  <1>5. CASE /\ CompletedByCheck(r)
             /\ \E f \in ChecksOf(r) :
                  WriteReceipt(r, [s EXCEPT !.outcome = "completed", !.stage = "verified",
                                            !.flow = f])
    <2>1. PICK f \in ChecksOf(r) :
            WriteReceipt(r, [s EXCEPT !.outcome = "completed", !.stage = "verified", !.flow = f])
      BY <1>5
    <2>2. f \in Requests \cup {None} BY Typed DEF ChecksOf, ReceiptType
    <2>3. /\ [s EXCEPT !.outcome = "completed", !.stage = "verified", !.flow = f]
               \in ReceiptType
          /\ [s EXCEPT !.outcome = "completed", !.stage = "verified", !.flow = f].outcome
               = "completed"
          /\ [s EXCEPT !.outcome = "completed", !.stage = "verified", !.flow = f].stage
               = "verified"
      BY <1>3, <2>2 DEF ReceiptType, Outcomes
    <2>4. /\ ~Told(r) /\ receipts[r].outcome # None
          /\ "completed" # None
      BY <1>5 DEF CompletedByCheck, Unresolved, Told, None
    <2> QED BY <1>1, <1>2, <2>1, <2>3, <2>4, WriteKeeps
  <1>6. CASE /\ SupersededByConnection(r)
             /\ WriteReceipt(r, [s EXCEPT !.outcome = "resolved", !.stage = "verified"])
    <2>1. /\ [s EXCEPT !.outcome = "resolved", !.stage = "verified"] \in ReceiptType
          /\ [s EXCEPT !.outcome = "resolved", !.stage = "verified"].outcome = "resolved"
          /\ [s EXCEPT !.outcome = "resolved", !.stage = "verified"].stage = "verified"
      BY <1>3 DEF ReceiptType, Outcomes
    <2>2. receipts[r].outcome # None /\ "resolved" # None
      BY <1>6 DEF SupersededByConnection, Unresolved, None
    <2> QED BY <1>1, <1>2, <1>6, <2>1, <2>2, WriteKeeps
  <1> QED
    BY <1>4, <1>5, <1>6
    DEF Migrate, persistLegacyConfigurationFlowOutcomes, persistSupersededLogoutOutcomes

\* The core and the receipts stay.
LEMMA CoreStays ==
  ASSUME IInv, UNCHANGED <<receipts, later, handler>>, Types', ActsAlone', PageOK',
         UNCHANGED <<ledger, executed>>, left'.half = left.half
  PROVE  IInv'
  <1>1. Ordered' BY DEF IInv, Ordered, Stored, Later
  <1>2. \A r \in Requests : RequestOK(r)' BY DEF IInv, RequestOK, Progress, Message, Tells
  <1> QED BY <1>1, <1>2 DEF IInv

LEMMA StartRefreshKeeps ==
  ASSUME IInv, StartRefresh
  PROVE  IInv'
  <1>1. /\ ~Acting
        /\ refresh' = [NoRefresh EXCEPT !.pc = "reading", !.mutation = mutation]
        /\ UNCHANGED <<receipts, later, handler, mutation, data, closing, world, left>>
    BY DEF StartRefresh
  <1>2. Types /\ mutation \in Nat BY DEF IInv, Types, CoreTypes
  <1>3. refresh' \in RefreshType /\ refresh'.pc = "reading" /\ refresh'.mutation = mutation
    BY <1>1, <1>2, Constant DEF NoRefresh, RefreshType
  <1>4. Types' BY <1>1, <1>2, <1>3 DEF Types, CoreTypes, WorldTypes, world
  <1>5. ActsAlone' BY <1>1, <1>2, <1>3 DEF ActsAlone, Acts, Acting
  <1>6. PageOK' BY <1>1, <1>3 DEF IInv, PageOK, LoggingOut, world
  <1> QED BY <1>1, <1>4, <1>5, <1>6, CoreStays DEF world

\* A refresh reads what is on the disk.
LEMMA RefreshReadsKeeps ==
  ASSUME IInv, RefreshReads
  PROVE  IInv'
  <1>1. /\ refresh.pc = "reading"
        /\ UNCHANGED <<receipts, later, handler, mutation, data, closing, world>>
    BY DEF RefreshReads
  <1>2. Types /\ data \in DataType /\ refresh \in RefreshType /\ left \in LeftType
    BY DEF IInv, Types, CoreTypes, WorldTypes
  <1>3. /\ QuickRead(data) \in DataType /\ EvidenceRead(QuickRead(data)) \in DataType
        /\ EvidenceRead(QuickRead(data)).app = app
        /\ Unread(data) \in DataType /\ ~Unread(data).ready
    BY <1>2, Reading
  <1>4. /\ refresh' \in RefreshType /\ refresh'.mutation = refresh.mutation
        /\ left' \in LeftType /\ left'.half = left.half
        /\ refresh'.read.ready => refresh'.read.app = app
    <2>1. CASE /\ UNCHANGED left
               /\ refresh' = [refresh EXCEPT !.pc = "read", !.older = Restarts,
                                             !.read = EvidenceRead(QuickRead(data))]
      <3>1. Restarts \subseteq Requests BY DEF Restarts, Stored
      <3> QED BY <1>2, <1>3, <2>1, <3>1 DEF RefreshType
    <2>2. CASE /\ Spend("failures")
               /\ refresh' = [refresh EXCEPT !.pc = "read", !.read = Unread(data)]
      BY <1>2, <1>3, <2>2, Spending DEF RefreshType
    <2> QED BY <2>1, <2>2 DEF RefreshReads
  <1>5. Types' BY <1>1, <1>2, <1>4 DEF Types, CoreTypes, WorldTypes, world
  <1>6. ActsAlone' BY <1>1, <1>4 DEF IInv, ActsAlone, Acts
  <1>7. PageOK' BY <1>1, <1>4 DEF IInv, PageOK, LoggingOut, world
  <1> QED BY <1>1, <1>4, <1>5, <1>6, <1>7, CoreStays DEF world

\* Nobody acts when it finishes, so what it read is still so.
LEMMA RefreshFinishesKeeps ==
  ASSUME IInv, RefreshFinishes
  PROVE  IInv'
  <1> DEFINE saw == IF refresh.current THEN Saw(refresh.read) ELSE None
  <1>1. /\ refresh.pc = "read" /\ refresh' = NoRefresh
        /\ data' = IF refresh.current THEN refresh.read ELSE Unread(data)
        /\ closing' = IF saw = None THEN closing
                      ELSE [NoClosing EXCEPT !.pc = "looking", !.saw = saw,
                                             !.older = refresh.older]
        /\ UNCHANGED <<receipts, later, handler, mutation, world, left>>
    BY DEF RefreshFinishes
  <1>2. /\ Types /\ data \in DataType /\ refresh \in RefreshType /\ closing \in ClosingType
        /\ mutation \in Nat
    BY DEF IInv, Types, CoreTypes
  <1>3. Unread(data) \in DataType /\ ~Unread(data).ready BY <1>2, Reading
  <1>4. data' \in DataType BY <1>1, <1>2, <1>3 DEF RefreshType
  <1>5. closing' \in ClosingType
    <2>1. saw \in {None, "no session", "connection"} BY DEF Saw
    <2> HIDE DEF saw
    <2> QED BY <1>1, <1>2, <2>1, Constant DEF ClosingType, RefreshType, NoClosing
  <1>6. Types' BY <1>1, <1>2, <1>4, <1>5, Constant DEF Types, CoreTypes, WorldTypes, world
  <1>7. ActsAlone' BY <1>1, <1>2, Constant DEF IInv, ActsAlone, Acts
  <1>8. PageOK' BY <1>1, <1>3, Constant DEF IInv, PageOK, LoggingOut, world
  <1> QED BY <1>1, <1>6, <1>7, <1>8, CoreStays DEF world

\* Only what is left behind moves.
LEMMA LooksKeeps ==
  ASSUME IInv, Looks
  PROVE  IInv'
  <1>1. /\ closing' = IF ToClose = {} THEN NoClosing
                      ELSE [closing EXCEPT !.pc = "closing", !.todo = ToClose]
        /\ UNCHANGED <<receipts, later, handler, mutation, data, refresh, world, left>>
    BY DEF Looks
  <1>2. Types /\ closing \in ClosingType /\ ToClose \subseteq Requests
    BY DEF IInv, Types, CoreTypes, ToClose
  <1>3. closing' \in ClosingType BY <1>1, <1>2, Constant DEF ClosingType
  <1>4. Types' BY <1>1, <1>2, <1>3 DEF Types, CoreTypes, WorldTypes, world
  <1>5. ActsAlone' /\ PageOK' BY <1>1 DEF IInv, ActsAlone, PageOK, Acts, LoggingOut, world
  <1> QED BY <1>1, <1>4, <1>5, CoreStays DEF world

LEMMA ClosesKeeps ==
  ASSUME IInv, NEW r \in closing.todo, Closes(r)
  PROVE  IInv'
  <1>1. /\ closing' = IF closing.todo = {r} THEN NoClosing
                      ELSE [closing EXCEPT !.todo = @ \ {r}]
        /\ UNCHANGED <<handler, mutation, data, refresh, world, left>>
    BY DEF Closes
  <1>2. Types /\ closing \in ClosingType /\ r \in Requests
    BY DEF IInv, Types, CoreTypes, ClosingType
  <1>3. receipts[r] \in ReceiptType BY <1>2, Typed
  <1>4. closing' \in ClosingType BY <1>1, <1>2, Constant DEF ClosingType
  <1> DEFINE s == Scrubbed(receipts[r])
  <1>5. CASE /\ Interrupted(r)
             /\ WriteReceipt(r, [s EXCEPT !.outcome = "failed", !.stage = "verified"])
    <2>1. s \in ReceiptType BY <1>3 DEF Scrubbed, ReceiptType
    <2>2. /\ [s EXCEPT !.outcome = "failed", !.stage = "verified"] \in ReceiptType
          /\ [s EXCEPT !.outcome = "failed", !.stage = "verified"].outcome = "failed"
          /\ [s EXCEPT !.outcome = "failed", !.stage = "verified"].stage = "verified"
      BY <2>1 DEF ReceiptType, Outcomes
    <2>3. /\ ~Told(r) /\ receipts[r].outcome # None
          /\ "failed" # None
      BY <1>5 DEF Interrupted, Unresolved, Told, None
    <2> QED BY <1>1, <1>2, <1>4, <1>5, <2>2, <2>3, WriteKeeps
  <1>6. CASE WriteReceipt(r, [receipts[r] EXCEPT !.recovered = TRUE])
    <2>1. /\ [receipts[r] EXCEPT !.recovered = TRUE] \in ReceiptType
          /\ [receipts[r] EXCEPT !.recovered = TRUE].outcome = receipts[r].outcome
          /\ [receipts[r] EXCEPT !.recovered = TRUE].stage = receipts[r].stage
      BY <1>3 DEF ReceiptType
    <2> QED BY <1>1, <1>2, <1>4, <1>6, <2>1, WriteKeeps
  <1>7. CASE UNCHANGED <<receipts, later>>
    <2>1. Types' BY <1>1, <1>2, <1>4, <1>7 DEF Types, CoreTypes, WorldTypes, world
    <2>2. ActsAlone' /\ PageOK'
      BY <1>1, <1>7 DEF IInv, ActsAlone, PageOK, Acts, LoggingOut, world
    <2> QED BY <1>1, <1>7, <2>1, <2>2, CoreStays DEF world
  <1> QED BY <1>5, <1>6, <1>7 DEF Closes

(* The person, the child, the processes *)

\* A scan may bring an application and takes none.
LEMMA FlowEndsKeeps ==
  ASSUME IInv, FlowEnds
  PROVE  IInv'
  <1>1. /\ UNCHANGED <<receipts, later, handler, mutation, data, refresh, closing>>
        /\ UNCHANGED <<healthy, ledger, executed, left>>
        /\ app' \in {app, "present"} \/ (app = "missing" /\ app' = "unbound" /\ left.half # {})
    BY DEF FlowEnds, core
  <1>2. Types /\ flow \in Flows BY DEF IInv, Types, WorldTypes
  <1>3. flow' \in Flows BY <1>2 DEF FlowEnds, Flows
  <1>4. Types' BY <1>1, <1>2, <1>3 DEF Types, CoreTypes, WorldTypes
  <1>5. ActsAlone' /\ PageOK' BY <1>1 DEF IInv, ActsAlone, PageOK, Acts, LoggingOut
  <1> QED BY <1>1, <1>4, <1>5, CoreStays

\* The ledger only decides what it was still writing.
LEMMA LedgerLearnsKeeps ==
  ASSUME IInv, NEW r \in left.asked, LedgerLearns(r)
  PROVE  IInv'
  <1>1. PICK verdict \in {"completed", "failed"} :
          /\ ledger[r] = "writing" /\ ledger' = [ledger EXCEPT ![r] = verdict]
          /\ UNCHANGED <<receipts, later, handler, mutation, data, refresh, closing>>
          /\ UNCHANGED <<app, flow, healthy, executed, left>>
    BY DEF LedgerLearns, core
  <1>2. r \in Requests /\ Types /\ RequestOK(r) BY Asked, Typed
  <1>3. /\ ledger' \in [Requests -> Verdicts] /\ ledger'[r] = verdict
        /\ \A q \in Requests : q # r => ledger'[q] = ledger[q]
    BY <1>1, <1>2 DEF Types, WorldTypes, Verdicts
  <1>4. Types' /\ Ordered'
    BY <1>1, <1>2, <1>3
    DEF IInv, Types, CoreTypes, WorldTypes, Ordered, Stored, Later
  <1>5. ActsAlone' /\ PageOK' BY <1>1 DEF IInv, ActsAlone, PageOK, Acts, LoggingOut
  <1>6. RequestOK(r)'
    <2>1. Progress(r)' BY <1>1, <1>2 DEF RequestOK, Progress, None
    <2>2. Message(r)' BY <1>1, <1>2, <1>3 DEF RequestOK, Message, Tells, None
    <2> QED BY <2>1, <2>2 DEF RequestOK
  <1> QED BY <1>1, <1>2, <1>3, <1>4, <1>5, <1>6, OneMoves DEF IInv

LEMMA ReconnectsKeeps ==
  ASSUME IInv, Reconnects
  PROVE  IInv'
  <1>1. /\ UNCHANGED <<receipts, later, handler, mutation, data, refresh, closing>>
        /\ UNCHANGED <<app, flow, ledger, executed>>
        /\ healthy' = TRUE /\ Spend("reconnects")
    BY DEF Reconnects, core
  <1>2. Types /\ left \in LeftType BY DEF IInv, Types, WorldTypes
  <1>3. left' \in LeftType /\ left'.half = left.half BY <1>1, <1>2, Spending
  <1>4. Types' BY <1>1, <1>2, <1>3 DEF Types, CoreTypes, WorldTypes
  <1>5. ActsAlone' /\ PageOK' BY <1>1 DEF IInv, ActsAlone, PageOK, Acts, LoggingOut
  <1> QED BY <1>1, <1>3, <1>4, <1>5, CoreStays

LEMMA ChildRestartsKeeps ==
  ASSUME IInv, ChildRestarts
  PROVE  IInv'
  <1>1. /\ UNCHANGED <<receipts, later, handler, mutation, data, closing, app, ledger>>
        /\ UNCHANGED executed /\ ChildGone /\ Spend("restarts")
    BY DEF ChildRestarts
  <1>2. Types /\ left \in LeftType /\ Child BY <1>1, ChildStaysOrGoes DEF IInv, Types, WorldTypes
  <1>3. left' \in LeftType /\ left'.half = left.half BY <1>1, <1>2, Spending
  <1>4. Types' BY <1>1, <1>2, <1>3 DEF Child, Types, CoreTypes, WorldTypes
  <1>5. ActsAlone' /\ PageOK' BY <1>1, <1>2 DEF Child, IInv, ActsAlone, PageOK, Acts, LoggingOut
  <1> QED BY <1>1, <1>3, <1>4, <1>5, CoreStays

\* The Core ends: only its files, and what was done, remain.
LEMMA CrashKeeps ==
  ASSUME IInv, Crash
  PROVE  IInv'
  <1>1. /\ handler' = [r \in Requests |-> Idle] /\ mutation' = 0 /\ data' = NoData
        /\ refresh' = NoRefresh /\ closing' = NoClosing /\ flow' = NoFlow
        /\ healthy' = FALSE /\ Spend("crashes")
        /\ UNCHANGED <<receipts, later, app, ledger, executed>>
    BY DEF Crash
  <1>2. Types /\ left \in LeftType BY DEF IInv, Types, WorldTypes
  <1>3. left' \in LeftType /\ left'.half = left.half BY <1>1, <1>2, Spending
  <1>4. /\ handler' \in [Requests -> HandlerType]
        /\ \A r \in Requests : handler'[r].pc = "idle"
    BY <1>1, Constant
  <1>5. Types' BY <1>1, <1>2, <1>3, <1>4, Constant DEF Types, CoreTypes, WorldTypes
  <1>6. Ordered' BY <1>1 DEF IInv, Ordered, Stored, Later
  <1>7. ActsAlone' /\ PageOK' BY <1>1, <1>4, Constant DEF ActsAlone, PageOK, Acts
  <1>8. \A r \in Requests : RequestOK(r)'
    <2> SUFFICES ASSUME NEW r \in Requests
                 PROVE  RequestOK(r)'
      OBVIOUS
    <2>1. handler'[r].pc = "idle" /\ RequestOK(r) BY <1>4, Typed
    <2>2. Progress(r)' BY <1>1, <2>1 DEF RequestOK, Progress
    <2>3. Message(r)' BY <1>1, <1>3, <2>1 DEF RequestOK, Message, Tells
    <2> QED BY <2>2, <2>3 DEF RequestOK
  <1> QED BY <1>5, <1>6, <1>7, <1>8 DEF IInv

(* The theorems *)

LEMMA Initially ==
  ASSUME Init
  PROVE  IInv
  <1>1. /\ receipts = [r \in Requests |-> NoReceipt] /\ later = {}
        /\ handler = [r \in Requests |-> Idle] /\ mutation = 0
        /\ data = NoData /\ refresh = NoRefresh /\ closing = NoClosing
        /\ ledger = [r \in Requests |-> None] /\ executed = [r \in Requests |-> 0]
        /\ left \in Budgets /\ app = left.app /\ flow = NoFlow
        /\ healthy = (left.app = "present")
    BY DEF Init
  <1>2. left \in LeftType BY <1>1, ConfigurationAssumption DEF LeftType
  <1>3. app \in {"missing", "present"} /\ healthy \in BOOLEAN BY <1>1, <1>2 DEF LeftType
  <1>4. Types BY <1>1, <1>2, <1>3, Constant DEF Types, CoreTypes, WorldTypes, Verdicts
  <1>5. Ordered BY <1>1, Constant DEF Ordered, Stored
  <1>6. ActsAlone /\ PageOK BY <1>1, Constant DEF ActsAlone, PageOK, Acts
  <1>7. \A r \in Requests : RequestOK(r)
    BY <1>1, Constant DEF RequestOK, Progress, Message, Tells, None
  <1> QED BY <1>4, <1>5, <1>6, <1>7 DEF IInv

LEMMA StepKeeps ==
  ASSUME IInv, [Next]_vars
  PROVE  IInv'
  <1>1. ASSUME NEW r \in left.asked, Handles(r)
        PROVE  IInv'
    BY <1>1, AcceptKeeps, BeginKeeps, NotOfferedKeeps, SubmitKeeps, NotSubmittedKeeps,
       ExecuteKeeps, SettleKeeps, SaveKeeps, NothingToScrubKeeps, CompleteOriginKeeps,
       ScrubKeeps DEF Handles
  <1>2. ASSUME NEW r \in left.asked,
               Apply(r) \/ Queries(r) \/ Migrate(r) \/ LedgerLearns(r)
        PROVE  IInv'
    BY <1>2, ApplyKeeps, QueryReadsKeeps, QuerySavesKeeps, MigrateKeeps, LedgerLearnsKeeps
    DEF Queries
  <1>3. CASE StartRefresh \/ Refreshes \/ GoesOn
    BY <1>3, StartRefreshKeeps, RefreshReadsKeeps, RefreshFinishesKeeps, LooksKeeps,
       ClosesKeeps DEF Refreshes, GoesOn
  <1>4. CASE FlowEnds \/ Reconnects \/ ChildRestarts \/ Crash
    BY <1>4, FlowEndsKeeps, ReconnectsKeeps, ChildRestartsKeeps, CrashKeeps
  <1>5. CASE UNCHANGED vars
    <2>1. /\ UNCHANGED <<receipts, later, handler, mutation, data, refresh, closing>>
          /\ UNCHANGED <<app, flow, healthy, ledger, executed, left>>
      BY <1>5 DEF vars, core, world
    <2>2. Types' /\ ActsAlone' /\ PageOK'
      BY <2>1 DEF IInv, Types, CoreTypes, WorldTypes, ActsAlone, PageOK, Acts, LoggingOut
    <2> QED BY <2>1, <2>2, CoreStays
  <1> QED BY <1>1, <1>2, <1>3, <1>4, <1>5 DEF Next

\* Every reachable state of the page, its requests and the child satisfies the invariant.
THEOREM ConfigurationInvariant == Spec => []IInv
  <1>1. Init => IInv BY Initially
  <1>2. IInv /\ [Next]_vars => IInv' BY StepKeeps
  <1> QED BY <1>1, <1>2, PTL DEF Spec

\* No request is ever carried out twice, whatever is repeated, queried, restarted or lost; and
\* a receipt of one that was says that it was submitted (ApplyFeishuConfiguration).
THEOREM RequestsExecuteOnce == Spec => []ExecutedOnce
  <1>1. IInv => ExecutedOnce
    <2> SUFFICES ASSUME IInv, NEW r \in Requests
                 PROVE  /\ executed[r] <= 1
                        /\ executed[r] = 1 => receipts[r].stage # "validating"
      BY DEF ExecutedOnce
    <2>1. Progress(r) BY Typed DEF RequestOK
    <2> QED BY <2>1 DEF Progress
  <1> QED BY <1>1, ConfigurationInvariant, PTL

\* The types, an order of the stamps, one request that acts; and a test message's receipt is
\* what the child's ledger says of it, a logout's what was removed unless a registration or a
\* purge may stop halfway (configurationResult).
THEOREM ReceiptsAreSound == Spec => []ConfigurationSound
  <1>1. IInv => TypeOK
    <2> SUFFICES ASSUME IInv
                 PROVE  TypeOK
      OBVIOUS
    <2>1. \A r, q \in Requests : r = q \/ {handler[r].pc, handler[q].pc} # {"submitted"}
      BY DEF IInv, ActsAlone, Acts
    <2> QED BY <2>1 DEF IInv, Types, CoreTypes, WorldTypes, Ordered, ReceiptType, TypeOK
  <1>2. IInv => ResultIsTrue BY DEF IInv, RequestOK, Message, Told, Tells, ResultIsTrue
  <1> QED BY <1>1, <1>2, ConfigurationInvariant, PTL DEF ConfigurationSound

\* Between actions the page shows no application that is gone (refreshConfiguration).
THEOREM PageShowsWhatExists == Spec => []ShownAppExists
  <1>1. IInv => ShownAppExists BY DEF IInv, PageOK, LoggingOut, Acting, ShownAppExists
  <1> QED BY <1>1, ConfigurationInvariant, PTL

(* The configuration page *)

SnapshotType == [epoch : Nat, rev : Nat, context : Nat]
RequestType == [id : Nat, asked : SnapshotType]
PageOutcomes == {CP!None, "completed", "failed", "unknown", "cancelled"}
PageType ==
  [shown : SnapshotType, retired : SUBSET Nat, loading : BOOLEAN, timer : BOOLEAN,
   error : BOOLEAN, busy : BOOLEAN, outcome : PageOutcomes, request : Nat]
ReadType ==
  [poll : BOOLEAN, stale : BOOLEAN, phase : {"asked", "answered", "failed"}, got : SnapshotType]
OpType ==
  [phase : {"no", "checks", "dialog", "submits", "queries", "gets"}, id : Nat,
   asked : SnapshotType, question : Nat \X Nat, stale : BOOLEAN, sends : Nat,
   outcome : PageOutcomes \cup {"thrown"}, snapshot : SnapshotType]
CoreType ==
  [epoch : Nat, rev : Nat, context : Nat, coming : RequestType, working : Nat,
   done : SUBSET Nat, refused : SUBSET Nat, lost : SUBSET Nat]
CardType ==
  [phase : {"no", "creates", "dialog"},
   operation : {CP!None, "awaiting", "sent", "cancelled"}]
PageBudget ==
  [changes : Nat, restarts : Nat, reads : Nat, actions : Nat, failures : Nat, cards : Nat,
   meets : Nat]

PageTyped ==
  /\ pageCore \in CoreType /\ page \in PageType /\ pageReads \subseteq ReadType
  /\ pageOp \in OpType /\ pageCard \in CardType /\ pageLeft \in PageBudget

PageBounds == Desks \subseteq {"macos", "windows"} /\ PageBudgets \subseteq PageBudget

\* What is shown, and what a read or an action brings, was the Core's; ...
FromTheCore ==
  /\ 1 <= pageCore.epoch /\ (CP!Mac => pageCore.epoch = 1)
  /\ page.shown.epoch <= pageCore.epoch
  /\ \A r \in pageReads :
       r.phase = "answered" => 1 <= r.got.epoch /\ r.got.epoch <= pageCore.epoch
  /\ pageOp.snapshot # CP!NoSnapshot =>
       1 <= pageOp.snapshot.epoch /\ pageOp.snapshot.epoch <= pageCore.epoch

\* ... on Windows the page heeds one of them at a time, and that is of no older epoch than what
\* is shown.
OneIsHeeded ==
  ~CP!Mac =>
    /\ \A r, q \in pageReads : ~r.stale /\ ~q.stale => r = q
    /\ \A r \in pageReads : ~r.stale /\ pageOp.phase # "no" => pageOp.stale
    /\ \A r \in pageReads :
         r.phase = "answered" /\ ~r.stale => page.shown.epoch <= r.got.epoch
    /\ pageOp.phase # "no" /\ ~pageOp.stale /\ pageOp.snapshot # CP!NoSnapshot =>
         page.shown.epoch <= pageOp.snapshot.epoch

Seen(id) == id \in pageCore.done \cup pageCore.refused \cup pageCore.lost \cup {pageCore.working}

\* The numbers of actions: an action has a new one, which the Core knows once it is submitted.
NumbersAreNew ==
  /\ \A id \in Nat : id # 0 /\ Seen(id) => pageLeft.actions < id
  /\ ~(0 \in pageCore.done \cup pageCore.refused \cup pageCore.lost)
  /\ pageCore.working # 0 =>
       ~(pageCore.working \in pageCore.done \cup pageCore.refused \cup pageCore.lost)
  /\ pageOp.phase # "no" => pageOp.id # 0 /\ pageLeft.actions < pageOp.id
  /\ pageOp.phase \in {"checks", "dialog"} => ~Seen(pageOp.id) /\ pageOp.sends = 0
  /\ pageCore.coming # CP!NoRequest =>
       pageOp.phase = "submits" /\ pageCore.coming.id = pageOp.id /\ ~Seen(pageOp.id)
  /\ pageOp.sends <= 1

\* What an action comes to, until the page has it.
OutcomeWillBeTrue ==
  /\ pageOp.phase = "gets" /\ pageOp.outcome = "completed" => pageOp.id \in pageCore.done
  /\ pageOp.phase = "gets" /\ pageOp.outcome \in {"failed", "cancelled"} =>
       ~(pageOp.id \in pageCore.done) /\ pageOp.id # pageCore.working
  /\ pageOp.phase \in {"submits", "queries"} => page.outcome = CP!None
  /\ ~CP!Mac /\ pageOp.phase \in {"checks", "dialog"} => page.outcome = CP!None
  /\ CP!Mac => pageOp.phase # "checks"
  /\ page.outcome # CP!None => page.request # 0

\* What the user is asked, and whether Windows asks anything else.
AskedAsShown ==
  /\ pageOp.phase = "submits" \/ (~CP!Mac /\ pageOp.phase = "dialog") =>
       CP!Context(pageOp.asked) = pageOp.question
  /\ ~CP!Mac => ~(pageOp.phase \in {"checks", "dialog", "submits", "queries"} /\ pageCard.phase # "no")

PageInv ==
  /\ PageTyped /\ FromTheCore /\ OneIsHeeded /\ NumbersAreNew /\ OutcomeWillBeTrue
  /\ AskedAsShown /\ CP!OutcomeIsTrue

LEMMA PageConstants ==
  /\ CP!NoSnapshot \in SnapshotType /\ CP!NoSnapshot.epoch = 0
  /\ CP!NoRequest \in RequestType /\ CP!NoRequest.id = 0
  /\ CP!NoOp \in OpType /\ CP!NoOp.phase = "no" /\ CP!NoOp.snapshot = CP!NoSnapshot
  /\ CP!NoOp.sends = 0 /\ CP!NoOp.outcome = CP!None /\ ~CP!NoOp.stale
<1>1. CP!NoSnapshot \in SnapshotType /\ CP!NoSnapshot.epoch = 0
  BY DEF CP!NoSnapshot, SnapshotType
<1>2. CP!NoRequest \in RequestType /\ CP!NoRequest.id = 0 BY <1>1 DEF CP!NoRequest, RequestType
<1>3. CP!Context(CP!NoSnapshot) \in Nat \X Nat BY DEF CP!NoSnapshot, CP!Context
<1> QED BY <1>1, <1>2, <1>3 DEF CP!NoOp, OpType, PageOutcomes, CP!None

LEMMA PageSnapshot ==
  ASSUME PageTyped
  PROVE  /\ CP!Snapshot \in SnapshotType /\ CP!Snapshot.epoch = pageCore.epoch
         /\ CP!Snapshot.rev = pageCore.rev /\ CP!Snapshot.context = pageCore.context
BY DEF PageTyped, CP!Snapshot, CoreType, SnapshotType

LEMMA PageContexts ==
  ASSUME NEW s \in SnapshotType
  PROVE  CP!Context(s) \in Nat \X Nat
BY DEF CP!Context, SnapshotType

LEMMA PageSpends ==
  ASSUME PageTyped, NEW what \in {"changes", "restarts", "reads", "failures", "cards"},
         CP!Spend(what)
  PROVE  pageLeft' \in PageBudget /\ pageLeft'.actions = pageLeft.actions
<1>1. CASE what = "changes" BY <1>1, CP!Spend("changes") DEF CP!Spend, PageTyped, PageBudget
<1>2. CASE what = "restarts" BY <1>2, CP!Spend("restarts") DEF CP!Spend, PageTyped, PageBudget
<1>3. CASE what = "reads" BY <1>3, CP!Spend("reads") DEF CP!Spend, PageTyped, PageBudget
<1>4. CASE what = "failures" BY <1>4, CP!Spend("failures") DEF CP!Spend, PageTyped, PageBudget
<1>5. CASE what = "cards" BY <1>5, CP!Spend("cards") DEF CP!Spend, PageTyped, PageBudget
<1> QED BY <1>1, <1>2, <1>3, <1>4, <1>5

LEMMA PageStale ==
  ASSUME NEW rs, rs \subseteq ReadType
  PROVE  /\ CP!Stale(rs) \subseteq ReadType
         /\ \A q \in CP!Stale(rs) :
              q.stale /\ \E r \in rs : q.phase = r.phase /\ q.got = r.got
BY DEF CP!Stale, ReadType

LEMMA PageNewRead ==
  ASSUME NEW poll \in BOOLEAN
  PROVE  CP!NewRead(poll) \in ReadType /\ CP!NewRead(poll).phase = "asked"
BY PageConstants DEF CP!NewRead, ReadType

\* Nothing that the numbers and outcomes are about moves.
LEMMA PageObserves ==
  ASSUME PageInv, PageTyped', UNCHANGED <<desk, pageCore, pageCard>>,
         pageLeft'.actions = pageLeft.actions,
         pageOp'.phase = pageOp.phase, pageOp'.id = pageOp.id, pageOp'.sends = pageOp.sends,
         pageOp'.outcome = pageOp.outcome, pageOp'.asked = pageOp.asked,
         pageOp'.question = pageOp.question,
         page'.outcome = page.outcome, page'.request = page.request
  PROVE  /\ NumbersAreNew' /\ OutcomeWillBeTrue' /\ AskedAsShown' /\ CP!OutcomeIsTrue'
<1>1. \A id : Seen(id)' <=> Seen(id) BY DEF PageInv, Seen
<1>2. NumbersAreNew' BY <1>1 DEF PageInv, NumbersAreNew
<1>3. OutcomeWillBeTrue' BY DEF PageInv, OutcomeWillBeTrue, CP!Mac
<1>4. AskedAsShown' BY DEF PageInv, AskedAsShown, CP!Mac, CP!Context
<1>5. CP!OutcomeIsTrue' BY DEF PageInv, CP!OutcomeIsTrue
<1> QED BY <1>2, <1>3, <1>4, <1>5

LEMMA PageReads ==
  ASSUME PageInv, NEW poll \in BOOLEAN, CP!Reads(page, poll),
         UNCHANGED <<desk, pageCore, pageCard>>,
         pageLeft' \in PageBudget, pageLeft'.actions = pageLeft.actions
  PROVE  PageInv'
<1> USE DEF PageInv
<1>1. /\ page' \in PageType /\ page'.shown = page.shown /\ page'.outcome = page.outcome
      /\ page'.request = page.request
  BY DEF CP!Reads, PageTyped, PageType
<1>2. /\ pageOp' \in OpType /\ pageOp'.phase = pageOp.phase /\ pageOp'.id = pageOp.id
      /\ pageOp'.sends = pageOp.sends /\ pageOp'.outcome = pageOp.outcome
      /\ pageOp'.asked = pageOp.asked /\ pageOp'.question = pageOp.question
      /\ pageOp'.snapshot = pageOp.snapshot /\ pageOp'.stale = (pageOp.phase # "no")
  BY DEF CP!Reads, PageTyped, OpType
<1>3. /\ pageReads' \subseteq ReadType
      /\ \A q \in pageReads' :
           \/ q = CP!NewRead(poll)
           \/ q.stale /\ \E r \in pageReads : q.phase = r.phase /\ q.got = r.got
  BY PageStale, PageNewRead DEF CP!Reads, PageTyped
<1>4. PageTyped' BY <1>1, <1>2, <1>3 DEF PageTyped
<1>5. FromTheCore' BY <1>1, <1>2, <1>3, PageNewRead DEF FromTheCore, CP!Mac
<1>6. OneIsHeeded' BY <1>1, <1>2, <1>3, PageNewRead DEF OneIsHeeded, CP!Mac
<1> QED BY <1>1, <1>2, <1>4, <1>5, <1>6, PageObserves

LEMMA PageManual == ASSUME PageInv, CP!ManualReads PROVE PageInv'
<1> USE DEF PageInv
<1>1. pageLeft' \in PageBudget /\ pageLeft'.actions = pageLeft.actions
  BY PageSpends DEF CP!ManualReads
<1>2. CASE ~CP!Mac BY <1>1, <1>2, PageReads DEF CP!ManualReads
<1>3. CASE CP!Mac
  <2>1. UNCHANGED <<desk, pageCore, pageCard, page, pageOp>> BY <1>3 DEF CP!ManualReads
  <2>2. /\ pageReads' \subseteq ReadType
        /\ \A q \in pageReads' :
             \/ q = CP!NewRead(FALSE)
             \/ q.stale /\ \E r \in pageReads : q.phase = r.phase /\ q.got = r.got
    BY <1>3, PageStale, PageNewRead DEF CP!ManualReads, PageTyped
  <2>3. PageTyped' BY <1>1, <2>1, <2>2 DEF PageTyped
  <2>4. FromTheCore' BY <2>1, <2>2, PageNewRead DEF FromTheCore, CP!Mac
  <2>5. OneIsHeeded' BY <1>3, <2>1 DEF OneIsHeeded, CP!Mac
  <2> QED BY <1>1, <2>1, <2>3, <2>4, <2>5, PageObserves
<1> QED BY <1>2, <1>3

LEMMA PageReadIsAnswered ==
  ASSUME PageInv, NEW r \in pageReads, NEW ok \in BOOLEAN, CP!ReadIsAnswered(r, ok)
  PROVE  PageInv'
<1> USE DEF PageInv
<1> DEFINE q == [r EXCEPT !.got = CP!Snapshot, !.phase = IF ok THEN "answered" ELSE "failed"]
<1>1. pageLeft' \in PageBudget /\ pageLeft'.actions = pageLeft.actions
  BY PageSpends DEF CP!ReadIsAnswered, PageTyped
<1>2. /\ q \in ReadType /\ q.stale = r.stale /\ q.got = CP!Snapshot
      /\ q.phase = "answered" \/ q.phase = "failed"
  BY PageSnapshot DEF PageTyped, ReadType
<1>3. pageReads' = (pageReads \ {r}) \cup {q} BY DEF CP!ReadIsAnswered
<1>4. UNCHANGED <<desk, pageCore, page, pageOp, pageCard>> BY DEF CP!ReadIsAnswered
<1> HIDE DEF q
<1>5. PageTyped' BY <1>1, <1>2, <1>3, <1>4 DEF PageTyped
<1>6. FromTheCore' BY <1>2, <1>3, <1>4, PageSnapshot DEF FromTheCore, CP!Mac, PageTyped, CoreType
<1>7. OneIsHeeded' BY <1>2, <1>3, <1>4, PageSnapshot DEF OneIsHeeded, FromTheCore, CP!Mac
<1> QED BY <1>1, <1>4, <1>5, <1>6, <1>7, PageObserves

\* What is shown next is a snapshot that may be shown, and no older.
LEMMA PageShows ==
  ASSUME NEW p \in PageType, NEW s \in SnapshotType, s.epoch # 0
  PROVE  /\ CP!Show(p, s) \in PageType /\ CP!Show(p, s).shown = s
         /\ CP!Show(p, s).outcome = p.outcome /\ CP!Show(p, s).request = p.request
BY DEF CP!Show, PageType, SnapshotType

NoOlder(s, t) ==
  t # CP!NoSnapshot => s.epoch > t.epoch \/ (s.epoch = t.epoch /\ s.rev >= t.rev)

LEMMA PageReadEnds ==
  ASSUME PageInv, NEW r \in pageReads, CP!ReadEnds(r)
  PROVE  PageInv' /\ NoOlder(page'.shown, page.shown)
<1> USE DEF PageInv
<1>1. UNCHANGED <<desk, pageCore, pageOp, pageCard, pageLeft>> /\ pageReads' = pageReads \ {r}
  BY DEF CP!ReadEnds
<1>2. r \in ReadType /\ page \in PageType BY DEF PageTyped
<1> DEFINE p == CP!Read(page, r)
<1>3. CASE r.phase = "answered" /\ CP!Accepts(page, r.got, r.stale)
  <2>1. p = CP!Show(page, r.got) BY <1>3 DEF CP!Read
  <2>2. r.got.epoch # 0 /\ r.got \in SnapshotType /\ ~r.stale
    BY <1>2, <1>3 DEF FromTheCore, ReadType, SnapshotType, CP!Accepts
  <2>3. /\ p \in PageType /\ p.shown = r.got /\ p.outcome = page.outcome
        /\ p.request = page.request
    BY <1>2, <2>1, <2>2, PageShows
  <2> HIDE DEF p
  <2>4. /\ page' \in PageType /\ page'.shown = r.got /\ page'.outcome = page.outcome
        /\ page'.request = page.request
    BY <2>3, <1>2 DEF CP!ReadEnds, PageType, ReadType, p
  <2>5. NoOlder(page'.shown, page.shown)
    <3>1. CASE CP!Mac
      BY <1>2, <1>3, <2>2, <2>4, <3>1
         DEF NoOlder, CP!Accepts, FromTheCore, PageType, SnapshotType, CP!NoSnapshot
    <3>2. CASE ~CP!Mac
      BY <1>2, <1>3, <2>2, <2>4, <3>2
         DEF NoOlder, CP!Accepts, OneIsHeeded, PageType, SnapshotType
    <3> QED BY <3>1, <3>2
  <2>6. PageTyped' BY <1>1, <2>4 DEF PageTyped
  <2>7. FromTheCore' BY <1>1, <1>3, <2>4 DEF FromTheCore, CP!Mac
  <2>8. OneIsHeeded' BY <1>1, <1>3, <2>2, <2>4 DEF OneIsHeeded, CP!Mac
  <2> QED BY <1>1, <2>4, <2>5, <2>6, <2>7, <2>8, PageObserves
<1>4. CASE ~(r.phase = "answered" /\ CP!Accepts(page, r.got, r.stale))
  <2>1. /\ p \in PageType /\ p.shown = page.shown /\ p.outcome = page.outcome
        /\ p.request = page.request
    BY <1>2, <1>4 DEF CP!Read, PageType
  <2> HIDE DEF p
  <2>2. /\ page' \in PageType /\ page'.shown = page.shown /\ page'.outcome = page.outcome
        /\ page'.request = page.request
    BY <2>1, <1>2 DEF CP!ReadEnds, PageType, ReadType, p
  <2>3. PageTyped' BY <1>1, <2>2 DEF PageTyped
  <2>4. FromTheCore' BY <1>1, <2>2 DEF FromTheCore, CP!Mac
  <2>5. OneIsHeeded' BY <1>1, <2>2 DEF OneIsHeeded, CP!Mac
  <2>6. NoOlder(page'.shown, page.shown) BY <1>2, <2>2 DEF NoOlder, PageType, SnapshotType
  <2> QED BY <1>1, <2>2, <2>3, <2>4, <2>5, <2>6, PageObserves
<1> QED BY <1>3, <1>4

LEMMA PageEnds ==
  ASSUME NEW o \in OpType, NEW outcome \in PageOutcomes \cup {"thrown"}, NEW s \in SnapshotType
  PROVE  LET e == CP!Ends(o, outcome, s)
         IN /\ e \in OpType /\ e.phase = "gets" /\ e.outcome = outcome /\ e.snapshot = s
            /\ e.id = o.id /\ e.stale = o.stale /\ e.sends = o.sends
BY DEF CP!Ends, OpType

LEMMA PageActs ==
  ASSUME PageInv, CP!Act
  PROVE  PageInv' /\ page'.shown = page.shown
<1> USE DEF PageInv
<1> DEFINE new == [CP!NoOp EXCEPT !.id = pageLeft.actions, !.asked = page.shown]
           question == [new EXCEPT !.phase = "dialog", !.question = CP!Context(page.shown)]
           checks == [new EXCEPT !.phase = "checks"]
<1>1. /\ pageOp.phase = "no" /\ pageLeft.actions > 0
      /\ UNCHANGED <<desk, pageCore, pageCard>>
  BY DEF CP!Act
<1>2. pageLeft' \in PageBudget /\ pageLeft'.actions = pageLeft.actions - 1
  <2> DEFINE meets == IF page.loading THEN pageLeft.meets - 1 ELSE pageLeft.meets
  <2>1. pageLeft \in PageBudget /\ pageLeft.actions > 0 /\ meets \in Nat
    <3>1. pageLeft \in PageBudget /\ pageLeft.actions > 0
          /\ (page.loading => pageLeft.meets > 0)
      BY DEF CP!Act, PageTyped
    <3> QED BY <3>1 DEF PageBudget
  <2>2. pageLeft' = [pageLeft EXCEPT !.actions = pageLeft.actions - 1, !.meets = meets]
    BY DEF CP!Act
  <2>3. pageLeft.actions - 1 \in Nat BY <2>1 DEF PageBudget
  <2> DEFINE acts == pageLeft.actions - 1
  <2> HIDE DEF meets, acts, PageInv
  <2>4. \A a, m \in Nat : LET b == [pageLeft EXCEPT !.actions = a, !.meets = m]
                          IN b \in PageBudget /\ b.actions = a
    BY <2>1 DEF PageBudget
  <2> QED BY <2>1, <2>2, <2>3, <2>4
<1>3. /\ new \in OpType /\ new.phase = "no" /\ new.id = pageLeft.actions
      /\ new.asked = page.shown /\ new.sends = 0 /\ new.snapshot = CP!NoSnapshot
      /\ ~new.stale /\ new.outcome = CP!None
  <2>1. page.shown \in SnapshotType /\ pageLeft.actions \in Nat
    BY DEF PageTyped, PageType, PageBudget
  <2> HIDE DEF PageInv
  <2> QED BY <2>1, PageConstants DEF OpType
<1> HIDE DEF new
<1>4. /\ question \in OpType /\ question.phase = "dialog" /\ question.id = new.id
      /\ question.asked = page.shown /\ question.sends = 0
      /\ question.snapshot = CP!NoSnapshot
  BY <1>3, PageContexts DEF OpType, PageTyped, PageType
<1>5. /\ checks \in OpType /\ checks.phase = "checks" /\ checks.id = new.id
      /\ checks.sends = 0 /\ checks.snapshot = CP!NoSnapshot
  BY <1>3 DEF OpType
<1>6. CASE CP!Mac
  <2>1. pageOp' = question /\ UNCHANGED <<page, pageReads>> BY <1>6 DEF CP!Act, new
  <2> HIDE DEF question
  <2>2. PageTyped' BY <1>1, <1>2, <1>4, <2>1 DEF PageTyped
  <2>3. FromTheCore' /\ OneIsHeeded'
    BY <1>1, <1>4, <1>6, <2>1 DEF FromTheCore, OneIsHeeded, CP!Mac
  <2>4. NumbersAreNew'
    BY <1>1, <1>2, <1>3, <1>4, <2>1 DEF NumbersAreNew, Seen, PageTyped, PageBudget, CoreType
  <2>5. OutcomeWillBeTrue' /\ AskedAsShown' /\ CP!OutcomeIsTrue'
    BY <1>1, <1>4, <1>6, <2>1
       DEF OutcomeWillBeTrue, AskedAsShown, CP!OutcomeIsTrue, CP!Mac, NumbersAreNew
  <2> QED BY <2>1, <2>2, <2>3, <2>4, <2>5
<1>7. CASE ~CP!Mac
  <2>1. /\ pageOp' = IF CP!MainBusy THEN CP!Ends(new, "thrown", CP!NoSnapshot) ELSE checks
        /\ page' = [page EXCEPT !.busy = TRUE, !.timer = FALSE, !.outcome = CP!None]
        /\ pageReads' = CP!Stale(pageReads)
    BY <1>7 DEF CP!Act, new
  <2>2. /\ pageOp' \in OpType /\ pageOp'.id = pageLeft.actions /\ pageOp'.sends = 0
        /\ pageOp'.snapshot = CP!NoSnapshot
        /\ \/ pageOp'.phase = "gets" /\ pageOp'.outcome = "thrown"
           \/ pageOp'.phase = "checks" /\ pageCard.phase = "no"
    BY <1>3, <1>5, <2>1, PageEnds, PageConstants DEF CP!MainBusy
  <2>3. /\ page' \in PageType /\ page'.shown = page.shown /\ page'.outcome = CP!None
    BY <2>1 DEF PageTyped, PageType, PageOutcomes
  <2>4. /\ pageReads' \subseteq ReadType
        /\ \A q \in pageReads' :
             q.stale /\ \E r \in pageReads : q.phase = r.phase /\ q.got = r.got
    BY <2>1, PageStale DEF PageTyped
  <2>5. PageTyped' BY <1>1, <1>2, <2>2, <2>3, <2>4 DEF PageTyped
  <2>6. FromTheCore' /\ OneIsHeeded'
    BY <1>1, <2>2, <2>3, <2>4 DEF FromTheCore, OneIsHeeded, CP!Mac
  <2>7. NumbersAreNew'
    BY <1>1, <1>2, <2>2 DEF NumbersAreNew, Seen, PageTyped, PageBudget, CoreType
  <2>8. OutcomeWillBeTrue' /\ AskedAsShown' /\ CP!OutcomeIsTrue'
    BY <1>1, <1>7, <2>2, <2>3
       DEF OutcomeWillBeTrue, AskedAsShown, CP!OutcomeIsTrue, CP!Mac, NumbersAreNew, CP!None
  <2> QED BY <2>3, <2>5, <2>6, <2>7, <2>8
<1> QED BY <1>6, <1>7

LEMMA PageMainChecks ==
  ASSUME PageInv, NEW ok \in BOOLEAN, NEW asks \in BOOLEAN, CP!MainChecks(ok, asks)
  PROVE  PageInv'
<1> USE DEF PageInv
<1>1. /\ pageOp.phase = "checks" /\ UNCHANGED <<desk, page, pageReads, pageCard>>
      /\ ~CP!Mac /\ pageCore.coming = CP!NoRequest /\ ~Seen(pageOp.id) /\ pageOp.sends = 0
      /\ pageCard.phase = "no" /\ page.outcome = CP!None /\ pageOp.id # 0
      /\ pageLeft.actions < pageOp.id
  BY DEF CP!MainChecks, OutcomeWillBeTrue, NumbersAreNew, AskedAsShown
<1>2. pageLeft' \in PageBudget /\ pageLeft'.actions = pageLeft.actions
  BY PageSpends DEF CP!MainChecks, PageTyped
<1> DEFINE going == [pageOp EXCEPT !.question = CP!Context(CP!Snapshot),
                       !.snapshot = CP!Snapshot,
                       !.phase = IF asks THEN "dialog" ELSE "submits",
                       !.sends = IF asks THEN @ ELSE 1]
<1>3. /\ going \in OpType /\ going.question = CP!Context(CP!Snapshot)
      /\ going.snapshot = CP!Snapshot /\ going.id = pageOp.id /\ going.asked = pageOp.asked
      /\ going.stale = pageOp.stale
      /\ going.phase = IF asks THEN "dialog" ELSE "submits"
      /\ going.sends = IF asks THEN 0 ELSE 1
  BY <1>1, PageSnapshot, PageContexts DEF PageTyped, OpType
<1>4. CASE ~ok \/ ~CP!StillCurrent(pageOp)
  <2>1. pageOp' = CP!Ends(pageOp, "thrown", CP!NoSnapshot) BY <1>4 DEF CP!MainChecks
  <2>2. /\ pageOp' \in OpType /\ pageOp'.phase = "gets" /\ pageOp'.outcome = "thrown"
        /\ pageOp'.snapshot = CP!NoSnapshot /\ pageOp'.id = pageOp.id
        /\ pageOp'.stale = pageOp.stale /\ pageOp'.sends = 0
    BY <1>1, <2>1, PageEnds, PageConstants DEF PageTyped
  <2>3. pageCore' = pageCore BY <2>2 DEF CP!MainChecks
  <2>4. PageTyped' BY <1>1, <1>2, <2>2, <2>3 DEF PageTyped
  <2>5. FromTheCore' /\ OneIsHeeded' BY <1>1, <2>2, <2>3 DEF FromTheCore, OneIsHeeded, CP!Mac
  <2>6. NumbersAreNew' BY <1>1, <1>2, <2>2, <2>3 DEF NumbersAreNew, Seen
  <2>7. OutcomeWillBeTrue' /\ AskedAsShown' /\ CP!OutcomeIsTrue'
    BY <1>1, <2>2, <2>3 DEF OutcomeWillBeTrue, AskedAsShown, CP!OutcomeIsTrue, CP!Mac, CP!None
  <2> QED BY <2>4, <2>5, <2>6, <2>7
<1>5. CASE ok /\ CP!StillCurrent(pageOp)
  <2>1. pageOp' = going BY <1>5 DEF CP!MainChecks
  <2>2. CP!Context(pageOp.asked) = CP!Context(CP!Snapshot) BY <1>5 DEF CP!StillCurrent
  <2> HIDE DEF going
  <2>3. CASE asks
    <3>1. pageOp'.phase = "dialog" /\ pageCore' = pageCore BY <1>3, <2>1, <2>3 DEF CP!MainChecks
    <3>2. PageTyped' BY <1>1, <1>2, <1>3, <2>1, <3>1 DEF PageTyped
    <3>3. FromTheCore' /\ OneIsHeeded'
      BY <1>1, <1>3, <2>1, <3>1, PageSnapshot
         DEF FromTheCore, OneIsHeeded, CP!Mac, PageTyped, CoreType
    <3>4. NumbersAreNew' BY <1>1, <1>2, <1>3, <2>1, <2>3, <3>1 DEF NumbersAreNew, Seen
    <3>5. OutcomeWillBeTrue' /\ AskedAsShown' /\ CP!OutcomeIsTrue'
      BY <1>1, <1>3, <2>1, <2>2, <2>3, <3>1
         DEF OutcomeWillBeTrue, AskedAsShown, CP!OutcomeIsTrue, CP!Mac, CP!None
    <3> QED BY <3>2, <3>3, <3>4, <3>5
  <2>4. CASE ~asks
    <3>1. pageOp'.phase = "submits"
          /\ pageCore' = [pageCore EXCEPT !.coming = CP!Request(pageOp)]
      BY <1>3, <2>1, <2>4 DEF CP!MainChecks
    <3>2. CP!Request(pageOp) \in RequestType /\ CP!Request(pageOp).id = pageOp.id
      BY DEF CP!Request, RequestType, PageTyped, OpType
    <3>3. /\ pageCore' \in CoreType /\ pageCore'.coming.id = pageOp.id
          /\ pageCore'.epoch = pageCore.epoch /\ pageCore'.working = pageCore.working
          /\ pageCore'.done = pageCore.done /\ pageCore'.refused = pageCore.refused
          /\ pageCore'.lost = pageCore.lost
      BY <3>1, <3>2 DEF PageTyped, CoreType
    <3>4. PageTyped' BY <1>1, <1>2, <1>3, <2>1, <3>3 DEF PageTyped
    <3>5. FromTheCore' /\ OneIsHeeded'
      BY <1>1, <1>3, <2>1, <3>3, PageSnapshot
         DEF FromTheCore, OneIsHeeded, CP!Mac, PageTyped, CoreType
    <3>6. NumbersAreNew' BY <1>1, <1>2, <1>3, <2>1, <2>4, <3>1, <3>3 DEF NumbersAreNew, Seen
    <3>7. OutcomeWillBeTrue' /\ AskedAsShown' /\ CP!OutcomeIsTrue'
      BY <1>1, <1>3, <2>1, <2>2, <2>4, <3>1, <3>3
         DEF OutcomeWillBeTrue, AskedAsShown, CP!OutcomeIsTrue, CP!Mac, CP!None
    <3> QED BY <3>4, <3>5, <3>6, <3>7
  <2> QED BY <2>3, <2>4
<1> QED BY <1>4, <1>5

\* An action that leaves the Core, the page and its reads alone and comes to its end, or on.
LEMMA PageOpMoves ==
  ASSUME PageInv, UNCHANGED <<desk, page, pageReads, pageCard, pageCore>>,
         pageLeft' \in PageBudget, pageLeft'.actions = pageLeft.actions,
         pageOp' \in OpType,
         pageOp.phase # "no", pageOp'.stale = pageOp.stale, pageOp'.id = pageOp.id,
         pageOp'.sends = pageOp.sends, pageOp'.phase \in {"queries", "gets"},
         pageOp'.phase = "queries" => pageOp.phase = "submits",
         \/ pageOp'.snapshot \in {CP!NoSnapshot, CP!Snapshot}
         \/ pageOp'.snapshot = pageOp.snapshot,
         pageCore.coming = CP!NoRequest,
         pageOp'.phase = "gets" /\ pageOp'.outcome = "completed" => pageOp.id \in pageCore.done,
         pageOp'.phase = "gets" /\ pageOp'.outcome \in {"failed", "cancelled"} =>
           ~(pageOp.id \in pageCore.done) /\ pageOp.id # pageCore.working
  PROVE  PageInv'
<1> USE DEF PageInv
<1>1. PageTyped' BY DEF PageTyped
<1>2. FromTheCore' /\ OneIsHeeded'
  BY PageSnapshot DEF FromTheCore, OneIsHeeded, CP!Mac, PageTyped, CoreType
<1>3. NumbersAreNew' BY DEF NumbersAreNew, Seen
<1>4. OutcomeWillBeTrue' /\ AskedAsShown' /\ CP!OutcomeIsTrue'
  BY DEF OutcomeWillBeTrue, AskedAsShown, CP!OutcomeIsTrue, CP!Mac
<1> QED BY <1>1, <1>2, <1>3, <1>4

\* No action: nothing of it is left.
LEMMA PageOpOver ==
  ASSUME PageInv, UNCHANGED <<desk, pageReads, pageCard, pageCore>>,
         pageLeft' \in PageBudget, pageLeft'.actions = pageLeft.actions,
         pageOp' = CP!NoOp, page' \in PageType, page'.shown = page.shown,
         page'.outcome = page.outcome, page'.request = page.request,
         pageCore.coming = CP!NoRequest
  PROVE  PageInv'
<1> USE DEF PageInv
<1>1. PageTyped' BY PageConstants DEF PageTyped
<1>2. FromTheCore' /\ OneIsHeeded' BY PageConstants DEF FromTheCore, OneIsHeeded, CP!Mac
<1>3. NumbersAreNew' BY PageConstants DEF NumbersAreNew, Seen
<1>4. OutcomeWillBeTrue' /\ AskedAsShown' /\ CP!OutcomeIsTrue'
  BY PageConstants DEF OutcomeWillBeTrue, AskedAsShown, CP!OutcomeIsTrue, CP!Mac
<1> QED BY <1>1, <1>2, <1>3, <1>4

LEMMA PageBudgetStays == PageTyped /\ pageLeft' = pageLeft => pageLeft' \in PageBudget /\ pageLeft'.actions = pageLeft.actions
BY DEF PageTyped

LEMMA PageDeclines == ASSUME PageInv, CP!Declines PROVE PageInv'
<1> USE DEF PageInv
<1>1. /\ pageOp.phase = "dialog" /\ UNCHANGED <<desk, page, pageReads, pageCard, pageCore, pageLeft>>
      /\ pageCore.coming = CP!NoRequest /\ ~Seen(pageOp.id)
  BY DEF CP!Declines, NumbersAreNew
<1>2. CASE CP!Mac BY <1>1, <1>2, PageOpOver, PageBudgetStays DEF CP!Declines, PageTyped
<1>3. CASE ~CP!Mac
  <2>1. pageOp' = CP!Ends(pageOp, "cancelled", pageOp.snapshot) BY <1>3 DEF CP!Declines
  <2>2. /\ pageOp' \in OpType /\ pageOp'.phase = "gets" /\ pageOp'.outcome = "cancelled"
        /\ pageOp'.snapshot = pageOp.snapshot /\ pageOp'.id = pageOp.id
        /\ pageOp'.stale = pageOp.stale /\ pageOp'.sends = pageOp.sends
    BY <2>1, PageEnds DEF PageTyped, OpType, PageOutcomes
  <2> QED BY <1>1, <2>2, PageOpMoves, PageBudgetStays DEF Seen
<1> QED BY <1>2, <1>3

LEMMA PageConfirms == ASSUME PageInv, NEW hidden \in BOOLEAN, CP!Confirms(hidden) PROVE PageInv'
<1> USE DEF PageInv
<1>1. /\ pageOp.phase = "dialog" /\ UNCHANGED <<desk, pageCard>>
      /\ pageCore.coming = CP!NoRequest /\ ~Seen(pageOp.id) /\ pageOp.id # 0
      /\ pageLeft.actions < pageOp.id
  BY DEF CP!Confirms, NumbersAreNew
<1>2. pageLeft' \in PageBudget /\ pageLeft'.actions = pageLeft.actions
  BY PageSpends DEF CP!Confirms, PageTyped
<1> DEFINE refused == hidden \/ (CP!Mac /\ (~CP!Expected(pageOp) \/ page.error \/ pageCard.phase = "dialog"))
           now == IF CP!Mac THEN [pageOp EXCEPT !.asked = page.shown] ELSE pageOp
           sent == [now EXCEPT !.phase = "submits", !.sends = 1]
<1>3. CASE refused
  <2>1. /\ pageOp' = IF CP!Mac THEN CP!NoOp ELSE CP!Ends(pageOp, "thrown", CP!NoSnapshot)
        /\ UNCHANGED <<pageCore, page, pageReads>>
    BY <1>3 DEF CP!Confirms
  <2>2. CASE CP!Mac BY <1>1, <1>2, <2>1, <2>2, PageOpOver DEF PageTyped
  <2>3. CASE ~CP!Mac
    <3>1. /\ pageOp' \in OpType /\ pageOp'.phase = "gets" /\ pageOp'.outcome = "thrown"
          /\ pageOp'.snapshot = CP!NoSnapshot /\ pageOp'.id = pageOp.id
          /\ pageOp'.stale = pageOp.stale /\ pageOp'.sends = pageOp.sends
      BY <2>1, <2>3, PageEnds, PageConstants DEF PageTyped
    <3> QED BY <1>1, <1>2, <2>1, <3>1, PageOpMoves
  <2> QED BY <2>2, <2>3
<1>4. CASE ~refused
  <2>1. /\ pageOp' = sent
        /\ pageCore' = [pageCore EXCEPT !.coming = CP!Request(now)]
        /\ page' = IF CP!Mac THEN [page EXCEPT !.busy = TRUE, !.outcome = CP!None] ELSE page
        /\ pageReads' = IF CP!Mac THEN CP!Stale(pageReads) ELSE pageReads
    BY <1>4 DEF CP!Confirms
  <2>2. /\ now \in OpType /\ now.id = pageOp.id /\ now.stale = pageOp.stale
        /\ now.question = pageOp.question /\ now.snapshot = pageOp.snapshot
        /\ CP!Context(now.asked) = now.question
    <3>1. CASE CP!Mac BY <1>4, <3>1 DEF PageTyped, OpType, PageType, CP!Expected
    <3>2. CASE ~CP!Mac BY <1>1, <3>2 DEF PageTyped, AskedAsShown
    <3> QED BY <3>1, <3>2
  <2> HIDE DEF now
  <2>3. /\ sent \in OpType /\ sent.id = pageOp.id /\ sent.stale = pageOp.stale
        /\ sent.phase = "submits" /\ sent.sends = 1 /\ sent.snapshot = pageOp.snapshot
        /\ CP!Context(sent.asked) = sent.question
    BY <2>2 DEF OpType
  <2> HIDE DEF sent
  <2>4. CP!Request(now) \in RequestType /\ CP!Request(now).id = pageOp.id
    BY <2>2 DEF CP!Request, RequestType, OpType
  <2>5. /\ pageCore' \in CoreType /\ pageCore'.coming.id = pageOp.id
        /\ pageCore'.epoch = pageCore.epoch /\ pageCore'.working = pageCore.working
        /\ pageCore'.done = pageCore.done /\ pageCore'.refused = pageCore.refused
        /\ pageCore'.lost = pageCore.lost
    BY <2>1, <2>4 DEF PageTyped, CoreType
  <2>6. page' \in PageType /\ page'.shown = page.shown /\ page'.outcome = CP!None
    <3>1. CASE CP!Mac BY <2>1, <3>1 DEF PageTyped, PageType, PageOutcomes
    <3>2. CASE ~CP!Mac BY <1>1, <2>1, <3>2 DEF PageTyped, OutcomeWillBeTrue
    <3> QED BY <3>1, <3>2
  <2>7. /\ pageReads' \subseteq ReadType
        /\ \A q \in pageReads' : \E r \in pageReads : q.phase = r.phase /\ q.got = r.got
        /\ ~CP!Mac => pageReads' = pageReads
    BY <2>1, PageStale DEF PageTyped
  <2>8. PageTyped' BY <1>1, <1>2, <2>1, <2>3, <2>5, <2>6, <2>7 DEF PageTyped
  <2>9. FromTheCore' /\ OneIsHeeded'
    BY <1>1, <2>1, <2>3, <2>5, <2>6, <2>7 DEF FromTheCore, OneIsHeeded, CP!Mac
  <2>10. NumbersAreNew' BY <1>1, <1>2, <2>1, <2>3, <2>5 DEF NumbersAreNew, Seen
  <2>11. OutcomeWillBeTrue' /\ AskedAsShown' /\ CP!OutcomeIsTrue'
    BY <1>1, <2>1, <2>3, <2>5, <2>6
       DEF OutcomeWillBeTrue, AskedAsShown, CP!OutcomeIsTrue, CP!Mac, CP!None
  <2> QED BY <2>8, <2>9, <2>10, <2>11
<1> QED BY <1>3, <1>4

LEMMA PageCallIsLost == ASSUME PageInv, CP!CallIsLost PROVE PageInv'
<1>1. /\ pageOp.phase = "submits" /\ pageCore.coming = CP!NoRequest
      /\ UNCHANGED <<desk, page, pageReads, pageCard, pageCore>>
  BY DEF CP!CallIsLost
<1>2. pageLeft' \in PageBudget /\ pageLeft'.actions = pageLeft.actions
  BY PageSpends DEF CP!CallIsLost, PageInv
<1>3. /\ pageOp' \in OpType /\ pageOp'.phase = "queries" /\ pageOp'.id = pageOp.id
      /\ pageOp'.stale = pageOp.stale /\ pageOp'.sends = pageOp.sends
      /\ pageOp'.snapshot = pageOp.snapshot
  BY DEF CP!CallIsLost, CP!Queries, PageInv, PageTyped, OpType
<1> QED BY <1>1, <1>2, <1>3, PageOpMoves

LEMMA PageCallIsAnswered == ASSUME PageInv, CP!CallIsAnswered PROVE PageInv'
<1> USE DEF PageInv
<1>1. /\ pageOp.phase = "submits" /\ pageOp.id \in pageCore.done \cup pageCore.refused
      /\ UNCHANGED <<desk, page, pageReads, pageCard, pageCore, pageLeft>>
  BY DEF CP!CallIsAnswered
<1>2. pageCore.coming = CP!NoRequest /\ pageOp.id # pageCore.working
  BY <1>1 DEF NumbersAreNew, Seen
<1> DEFINE outcome == IF pageOp.id \in pageCore.done THEN "completed" ELSE "failed"
<1>3. outcome \in PageOutcomes BY DEF PageOutcomes
<1>4. pageOp' = CP!Ends(pageOp, outcome, CP!Snapshot) BY DEF CP!CallIsAnswered
<1>5. /\ pageOp' \in OpType /\ pageOp'.phase = "gets" /\ pageOp'.outcome = outcome
      /\ pageOp'.snapshot = CP!Snapshot /\ pageOp'.id = pageOp.id
      /\ pageOp'.stale = pageOp.stale /\ pageOp'.sends = pageOp.sends
  <2> HIDE DEF outcome
  <2> QED BY <1>3, <1>4, PageEnds, PageSnapshot DEF PageTyped
<1> QED BY <1>1, <1>2, <1>5, PageOpMoves, PageBudgetStays

LEMMA PageIsLookedUp == ASSUME PageInv, NEW ok \in BOOLEAN, CP!IsLookedUp(ok) PROVE PageInv'
<1> USE DEF PageInv
<1>1. /\ pageOp.phase = "queries" /\ pageCore.coming = CP!NoRequest
      /\ UNCHANGED <<desk, page, pageReads, pageCard, pageCore>>
  BY DEF CP!IsLookedUp, NumbersAreNew
<1>2. pageLeft' \in PageBudget /\ pageLeft'.actions = pageLeft.actions
  BY PageSpends DEF CP!IsLookedUp, PageTyped
<1> DEFINE outcome == IF ok THEN CP!Known(pageOp.id) ELSE "thrown"
           s == IF ok THEN CP!Snapshot ELSE CP!NoSnapshot
<1>3. /\ outcome \in PageOutcomes \cup {"thrown"}
      /\ outcome = "completed" => pageOp.id \in pageCore.done
      /\ outcome \in {"failed", "cancelled"} =>
           ~(pageOp.id \in pageCore.done) /\ pageOp.id # pageCore.working
  BY DEF PageOutcomes, CP!Known
<1>4. pageOp' = CP!Ends(pageOp, outcome, s) /\ s \in SnapshotType
  BY PageSnapshot, PageConstants DEF CP!IsLookedUp
<1> HIDE DEF outcome
<1>5. /\ pageOp' \in OpType /\ pageOp'.phase = "gets" /\ pageOp'.outcome = outcome
      /\ pageOp'.snapshot = s /\ pageOp'.id = pageOp.id
      /\ pageOp'.stale = pageOp.stale /\ pageOp'.sends = pageOp.sends
  <2> HIDE DEF s
  <2> QED BY <1>3, <1>4, PageEnds DEF PageTyped
<1> QED BY <1>1, <1>2, <1>3, <1>5, PageOpMoves

LEMMA PageGets ==
  ASSUME PageInv, CP!PageGets
  PROVE  PageInv' /\ NoOlder(page'.shown, page.shown)
<1> USE DEF PageInv
<1>1. /\ pageOp.phase = "gets" /\ pageOp' = CP!NoOp
      /\ UNCHANGED <<desk, pageCore, pageReads, pageCard, pageLeft>>
      /\ pageCore.coming = CP!NoRequest /\ pageOp.id # 0
  BY DEF CP!PageGets, NumbersAreNew
<1> DEFINE outcome == IF pageOp.outcome = "thrown" THEN "unknown" ELSE pageOp.outcome
           said == [page EXCEPT !.outcome = outcome, !.request = pageOp.id]
           shows == ~pageOp.stale /\ pageOp.snapshot # CP!NoSnapshot
                      /\ CP!Accepts(page, pageOp.snapshot, FALSE)
           p == CASE pageOp.stale -> page
                [] ~pageOp.stale /\ pageOp.snapshot = CP!NoSnapshot ->
                     [said EXCEPT !.error = CP!Mac \/ @]
                [] ~pageOp.stale /\ pageOp.snapshot # CP!NoSnapshot
                     /\ CP!Accepts(page, pageOp.snapshot, FALSE) -> CP!Show(said, pageOp.snapshot)
                [] OTHER -> page
<1>2. page' = [p EXCEPT !.busy = CP!Busy(p, pageOp), !.timer = @ \/ (~CP!Mac /\ ~p.loading)]
  BY DEF CP!PageGets
<1>3. page \in PageType /\ pageOp \in OpType BY DEF PageTyped
<1>4. /\ outcome \in PageOutcomes
      /\ outcome = "completed" => pageOp.id \in pageCore.done
      /\ outcome \in {"failed", "cancelled"} =>
           ~(pageOp.id \in pageCore.done) /\ pageOp.id # pageCore.working
  BY <1>1, <1>3 DEF OpType, PageOutcomes, OutcomeWillBeTrue
<1> HIDE DEF outcome
<1>5. /\ said \in PageType /\ said.shown = page.shown /\ said.outcome = outcome
      /\ said.request = pageOp.id
  BY <1>3, <1>4 DEF PageType, OpType
<1> HIDE DEF said
<1>6. /\ p \in PageType
      /\ \/ p.outcome = page.outcome /\ p.request = page.request
         \/ p.outcome = outcome /\ p.request = pageOp.id
      /\ p.shown = IF shows THEN pageOp.snapshot ELSE page.shown
  <2>1. CASE pageOp.stale BY <1>3, <2>1
  <2>2. CASE ~pageOp.stale /\ pageOp.snapshot = CP!NoSnapshot
    <3>1. p = [said EXCEPT !.error = CP!Mac \/ said.error] BY <2>2
    <3> HIDE DEF p
    <3> QED BY <1>5, <2>2, <3>1 DEF PageType
  <2>3. CASE shows
    <3>1. p = CP!Show(said, pageOp.snapshot) BY <2>3
    <3>2. pageOp.snapshot \in SnapshotType /\ pageOp.snapshot.epoch # 0
      BY <1>3, <2>3 DEF FromTheCore, OpType, SnapshotType
    <3> HIDE DEF p
    <3> QED BY <1>5, <2>3, <3>1, <3>2, PageShows
  <2>4. CASE ~pageOp.stale /\ pageOp.snapshot # CP!NoSnapshot
             /\ ~CP!Accepts(page, pageOp.snapshot, FALSE)
    BY <1>3, <2>4
  <2> QED BY <2>1, <2>2, <2>3, <2>4
<1> HIDE DEF p
<1>7. /\ page' \in PageType /\ page'.shown = p.shown /\ page'.outcome = p.outcome
      /\ page'.request = p.request
  BY <1>2, <1>6 DEF PageType, CP!Busy
<1>8. NoOlder(page'.shown, page.shown)
  <2>1. CASE ~shows
    <3>1. page'.shown = page.shown
      <4> HIDE DEF shows
      <4> QED BY <1>6, <1>7, <2>1
    <3> QED BY <1>3, <3>1 DEF NoOlder, PageType, SnapshotType
  <2>2. CASE shows /\ CP!Mac
    BY <1>3, <1>6, <1>7, <2>2
       DEF NoOlder, CP!Accepts, FromTheCore, PageType, OpType, SnapshotType, CP!NoSnapshot
  <2>3. CASE shows /\ ~CP!Mac
    BY <1>1, <1>3, <1>6, <1>7, <2>3
       DEF NoOlder, CP!Accepts, OneIsHeeded, PageType, OpType, SnapshotType
  <2> QED BY <2>1, <2>2, <2>3
<1>9. PageTyped' BY <1>1, <1>7, PageConstants DEF PageTyped
<1>10. FromTheCore' BY <1>1, <1>6, <1>7, PageConstants DEF FromTheCore, CP!Mac
<1>11. OneIsHeeded' BY <1>1, <1>6, <1>7, PageConstants DEF OneIsHeeded, CP!Mac
<1>12. NumbersAreNew' BY <1>1, PageConstants DEF NumbersAreNew, Seen
<1>13. OutcomeWillBeTrue' /\ AskedAsShown' /\ CP!OutcomeIsTrue'
  BY <1>1, <1>4, <1>6, <1>7, PageConstants
     DEF OutcomeWillBeTrue, AskedAsShown, CP!OutcomeIsTrue, CP!Mac
<1> QED BY <1>8, <1>9, <1>10, <1>11, <1>12, <1>13

\* The task card, which only the questions are about.
LEMMA PageCards ==
  ASSUME PageInv, UNCHANGED <<desk, pageCore, page, pageReads, pageOp>>, pageCard' \in CardType,
         pageLeft' \in PageBudget, pageLeft'.actions = pageLeft.actions,
         pageCard.phase # "no" \/ CP!MayAsk
  PROVE  PageInv'
<1> USE DEF PageInv
<1>1. PageTyped' BY DEF PageTyped
<1>2. FromTheCore' /\ OneIsHeeded' /\ OutcomeWillBeTrue' /\ CP!OutcomeIsTrue'
  BY DEF FromTheCore, OneIsHeeded, OutcomeWillBeTrue, CP!OutcomeIsTrue, CP!Mac
<1>3. NumbersAreNew' BY DEF NumbersAreNew, Seen
<1>4. AskedAsShown' BY DEF AskedAsShown, CP!Mac, CP!Context, CP!MayAsk, CP!MainBusy
<1> QED BY <1>1, <1>2, <1>3, <1>4

LEMMA PageCardBegins == ASSUME PageInv, CP!CardBegins PROVE PageInv'
<1>1. pageLeft' \in PageBudget /\ pageLeft'.actions = pageLeft.actions
  BY PageSpends DEF CP!CardBegins, PageInv
<1> QED BY <1>1, PageCards DEF CP!CardBegins, CardType

LEMMA PageCardAsks == ASSUME PageInv, CP!CardAsks PROVE PageInv'
<1>1. pageCard' \in CardType /\ pageCard.phase # "no"
  BY DEF CP!CardAsks, CardType, PageInv, PageTyped
<1> QED BY <1>1, PageCards, PageBudgetStays DEF CP!CardAsks, PageInv

LEMMA PageCardAnswered ==
  ASSUME PageInv, NEW yes \in BOOLEAN, NEW ok \in BOOLEAN, CP!CardAnswered(yes, ok)
  PROVE  PageInv'
<1>1. pageLeft' \in PageBudget /\ pageLeft'.actions = pageLeft.actions
  BY PageSpends DEF CP!CardAnswered, PageInv, PageTyped
<1>2. pageCard' \in CardType /\ pageCard.phase # "no" BY DEF CP!CardAnswered, CardType
<1> QED BY <1>1, <1>2, PageCards DEF CP!CardAnswered

LEMMA PageCoreChanges ==
  ASSUME PageInv, NEW context \in BOOLEAN, CP!CoreChanges(context)
  PROVE  PageInv'
<1> USE DEF PageInv
<1>1. pageLeft' \in PageBudget /\ pageLeft'.actions = pageLeft.actions
  BY PageSpends DEF CP!CoreChanges
<1>2. /\ pageCore' \in CoreType /\ pageCore'.epoch = pageCore.epoch
      /\ pageCore'.coming = pageCore.coming /\ pageCore'.working = pageCore.working
      /\ pageCore'.done = pageCore.done /\ pageCore'.refused = pageCore.refused
      /\ pageCore'.lost = pageCore.lost
  <2> DEFINE now == IF context THEN pageCore.context + 1 ELSE pageCore.context
  <2>1. pageCore \in CoreType /\ pageCore.rev + 1 \in Nat /\ now \in Nat
    BY DEF PageTyped, CoreType
  <2>2. pageCore' = [pageCore EXCEPT !.rev = pageCore.rev + 1, !.context = now]
    BY DEF CP!CoreChanges
  <2> HIDE DEF now, PageInv
  <2>3. \A v, c \in Nat :
          LET b == [pageCore EXCEPT !.rev = v, !.context = c]
          IN /\ b \in CoreType /\ b.epoch = pageCore.epoch
             /\ b.coming = pageCore.coming /\ b.working = pageCore.working
             /\ b.done = pageCore.done /\ b.refused = pageCore.refused
             /\ b.lost = pageCore.lost
    BY <2>1 DEF CoreType
  <2> QED BY <2>1, <2>2, <2>3
<1>3. UNCHANGED <<desk, page, pageReads, pageOp, pageCard>> BY DEF CP!CoreChanges
<1>4. PageTyped' BY <1>1, <1>2, <1>3 DEF PageTyped
<1>5. FromTheCore' /\ OneIsHeeded' /\ OutcomeWillBeTrue' /\ CP!OutcomeIsTrue'
  BY <1>2, <1>3 DEF FromTheCore, OneIsHeeded, OutcomeWillBeTrue, CP!OutcomeIsTrue, CP!Mac
<1>6. NumbersAreNew' BY <1>1, <1>2, <1>3 DEF NumbersAreNew, Seen
<1>7. AskedAsShown' BY <1>3 DEF AskedAsShown, CP!Mac, CP!Context
<1> QED BY <1>4, <1>5, <1>6, <1>7

LEMMA PageCoreTakes == ASSUME PageInv, CP!CoreTakes PROVE PageInv'
<1> USE DEF PageInv
<1> DEFINE id == pageCore.coming.id
           taken == pageCore.working = 0
                      /\ CP!Context(pageCore.coming.asked) = CP!Context(CP!Snapshot)
<1>1. /\ pageOp.phase = "submits" /\ id = pageOp.id /\ ~Seen(id) /\ id # 0 /\ id \in Nat
      /\ pageLeft.actions < id /\ page.outcome = CP!None
  BY DEF CP!CoreTakes, NumbersAreNew, OutcomeWillBeTrue, PageTyped, OpType
<1>2. UNCHANGED <<desk, page, pageReads, pageOp, pageCard, pageLeft>> BY DEF CP!CoreTakes
<1>3. /\ pageCore' \in CoreType /\ pageCore'.epoch = pageCore.epoch
      /\ pageCore'.coming = CP!NoRequest
      /\ pageCore'.working = IF taken THEN id ELSE pageCore.working
      /\ pageCore'.done = pageCore.done /\ pageCore'.lost = pageCore.lost
      /\ pageCore'.refused = IF taken THEN pageCore.refused ELSE pageCore.refused \cup {id}
  <2>1. pageCore' = [pageCore EXCEPT
                       !.coming = CP!NoRequest,
                       !.working = IF taken THEN id ELSE pageCore.working,
                       !.refused = IF taken THEN pageCore.refused ELSE pageCore.refused \cup {id}]
    BY DEF CP!CoreTakes
  <2> HIDE DEF taken
  <2> QED BY <1>1, <2>1, PageConstants DEF PageTyped, CoreType
<1> HIDE DEF id
<1>4. taken => pageCore.working = 0
  OBVIOUS
<1> HIDE DEF taken
<1>5. PageTyped' BY <1>2, <1>3 DEF PageTyped
<1>6. FromTheCore' /\ OneIsHeeded' BY <1>2, <1>3 DEF FromTheCore, OneIsHeeded, CP!Mac
<1>7. NumbersAreNew' BY <1>1, <1>2, <1>3, <1>4 DEF NumbersAreNew, Seen
<1>8. OutcomeWillBeTrue' /\ CP!OutcomeIsTrue'
  BY <1>1, <1>2, <1>3 DEF OutcomeWillBeTrue, CP!OutcomeIsTrue, CP!Mac, CP!None
<1>9. AskedAsShown' BY <1>2 DEF AskedAsShown, CP!Mac, CP!Context
<1> QED BY <1>5, <1>6, <1>7, <1>8, <1>9

LEMMA PageCoreActs == ASSUME PageInv, CP!CoreActs PROVE PageInv'
<1> USE DEF PageInv
<1>1. /\ pageCore.working # 0 /\ UNCHANGED <<desk, page, pageReads, pageOp, pageCard, pageLeft>>
  BY DEF CP!CoreActs
<1>2. /\ pageCore' \in CoreType /\ pageCore'.epoch = pageCore.epoch
      /\ pageCore'.coming = pageCore.coming /\ pageCore'.working = 0
      /\ pageCore'.done = pageCore.done \cup {pageCore.working}
      /\ pageCore'.refused = pageCore.refused /\ pageCore'.lost = pageCore.lost
  <2>1. /\ pageCore \in CoreType /\ pageCore.rev + 1 \in Nat
        /\ pageCore.done \cup {pageCore.working} \in SUBSET Nat
    BY DEF PageTyped, CoreType
  <2>2. pageCore' = [pageCore EXCEPT !.done = pageCore.done \cup {pageCore.working},
                                    !.working = 0, !.rev = pageCore.rev + 1]
    BY DEF CP!CoreActs
  <2> HIDE DEF PageInv
  <2>3. \A v \in Nat, d \in SUBSET Nat :
          LET b == [pageCore EXCEPT !.done = d, !.working = 0, !.rev = v]
          IN /\ b \in CoreType /\ b.epoch = pageCore.epoch
             /\ b.coming = pageCore.coming /\ b.working = 0
             /\ b.done = d /\ b.refused = pageCore.refused /\ b.lost = pageCore.lost
    BY <2>1 DEF CoreType
  <2> QED BY <2>1, <2>2, <2>3
<1>3. PageTyped' BY <1>1, <1>2 DEF PageTyped
<1>4. FromTheCore' /\ OneIsHeeded' BY <1>1, <1>2 DEF FromTheCore, OneIsHeeded, CP!Mac
<1>5. NumbersAreNew' BY <1>1, <1>2 DEF NumbersAreNew, Seen, PageTyped, CoreType
<1>6. OutcomeWillBeTrue' /\ CP!OutcomeIsTrue'
  BY <1>1, <1>2 DEF OutcomeWillBeTrue, CP!OutcomeIsTrue, CP!Mac, NumbersAreNew, CP!None
<1>7. AskedAsShown' BY <1>1 DEF AskedAsShown, CP!Mac, CP!Context
<1> QED BY <1>3, <1>4, <1>5, <1>6, <1>7

LEMMA PageCoreRestarts == ASSUME PageInv, CP!CoreRestarts PROVE PageInv'
<1> USE DEF PageInv
<1>1. ~CP!Mac /\ UNCHANGED <<desk, page, pageCard>> BY DEF CP!CoreRestarts
<1>2. pageLeft' \in PageBudget /\ pageLeft'.actions = pageLeft.actions
  BY PageSpends DEF CP!CoreRestarts
<1>3. /\ pageCore' \in CoreType /\ pageCore'.epoch = pageCore.epoch + 1
      /\ pageCore'.coming = CP!NoRequest /\ pageCore'.working = 0
      /\ pageCore'.done = pageCore.done /\ pageCore'.refused = pageCore.refused
      /\ pageCore'.lost = IF pageCore.working = 0 THEN pageCore.lost
                          ELSE pageCore.lost \cup {pageCore.working}
  <2> DEFINE gone == IF pageCore.working = 0 THEN pageCore.lost
                     ELSE pageCore.lost \cup {pageCore.working}
  <2>1. pageCore \in CoreType /\ pageCore.epoch + 1 \in Nat /\ gone \in SUBSET Nat
    BY DEF PageTyped, CoreType
  <2>2. pageCore' = [pageCore EXCEPT !.epoch = pageCore.epoch + 1, !.rev = 1,
                                    !.coming = CP!NoRequest, !.working = 0, !.lost = gone]
    BY DEF CP!CoreRestarts
  <2> HIDE DEF gone, PageInv
  <2> DEFINE new == [pageCore EXCEPT !.epoch = pageCore.epoch + 1, !.rev = 1]
  <2>3. /\ new \in CoreType /\ new.epoch = pageCore.epoch + 1 /\ new.done = pageCore.done
        /\ new.refused = pageCore.refused
    BY <2>1 DEF CoreType
  <2>4. pageCore' = [new EXCEPT !.coming = CP!NoRequest, !.working = 0, !.lost = gone]
    BY <2>1, <2>2 DEF CoreType
  <2> HIDE DEF new
  <2>5. /\ pageCore' \in CoreType /\ pageCore'.epoch = pageCore.epoch + 1
        /\ pageCore'.coming = CP!NoRequest /\ pageCore'.working = 0
        /\ pageCore'.done = pageCore.done /\ pageCore'.refused = pageCore.refused
        /\ pageCore'.lost = gone
    BY <2>1, <2>3, <2>4, PageConstants DEF CoreType
  <2> QED BY <2>5 DEF gone
<1>4. /\ pageReads' \subseteq ReadType
      /\ \A r \in pageReads' :
           \E q \in pageReads :
             /\ r.stale = q.stale /\ r.got = q.got
             /\ r = IF q.phase = "asked" THEN [q EXCEPT !.phase = "failed"] ELSE q
             /\ r.phase = "answered" => q.phase = "answered"
  BY DEF CP!CoreRestarts, PageTyped, ReadType
<1>5. \/ /\ pageOp.phase = "submits" /\ pageOp' = CP!Queries(pageOp)
      \/ /\ pageOp.phase = "checks" /\ pageOp' = CP!Ends(pageOp, "thrown", CP!NoSnapshot)
      \/ /\ ~(pageOp.phase \in {"submits", "checks"}) /\ pageOp' = pageOp
  BY DEF CP!CoreRestarts
<1>6. /\ pageOp' \in OpType /\ pageOp'.id = pageOp.id /\ pageOp'.stale = pageOp.stale
      /\ pageOp'.sends = pageOp.sends
      /\ \/ /\ pageOp.phase = "submits" /\ pageOp'.phase = "queries"
            /\ pageOp'.snapshot = pageOp.snapshot
         \/ /\ pageOp.phase = "checks" /\ pageOp'.phase = "gets" /\ pageOp'.outcome = "thrown"
            /\ pageOp'.snapshot = CP!NoSnapshot
         \/ /\ ~(pageOp.phase \in {"submits", "checks"}) /\ pageOp' = pageOp
  <2>1. pageOp \in OpType BY DEF PageTyped
  <2>2. CASE pageOp.phase = "submits" /\ pageOp' = CP!Queries(pageOp)
    BY <2>1, <2>2 DEF CP!Queries, OpType
  <2>3. CASE pageOp.phase = "checks" /\ pageOp' = CP!Ends(pageOp, "thrown", CP!NoSnapshot)
    BY <2>1, <2>3, PageEnds, PageConstants
  <2> QED BY <1>5, <2>1, <2>2, <2>3
<1>7. PageTyped' BY <1>1, <1>2, <1>3, <1>4, <1>6 DEF PageTyped
<1>8. FromTheCore'
  BY <1>1, <1>3, <1>4, <1>6 DEF FromTheCore, CP!Mac, PageTyped, CoreType, PageType, SnapshotType, ReadType, OpType
<1>9. OneIsHeeded'
  <2>1. \A r, q \in pageReads' : ~r.stale /\ ~q.stale => r = q BY <1>1, <1>4 DEF OneIsHeeded
  <2> QED BY <1>1, <1>4, <1>6, <2>1 DEF OneIsHeeded, CP!Mac
<1>10. NumbersAreNew' BY <1>2, <1>3, <1>6 DEF NumbersAreNew, Seen, PageTyped, CoreType
<1>11. OutcomeWillBeTrue' /\ CP!OutcomeIsTrue'
  BY <1>1, <1>3, <1>6 DEF OutcomeWillBeTrue, CP!OutcomeIsTrue, CP!Mac, NumbersAreNew, CP!None
<1>12. AskedAsShown' BY <1>1, <1>6 DEF AskedAsShown, CP!Mac, CP!Context
<1> QED BY <1>7, <1>8, <1>9, <1>10, <1>11, <1>12

LEMMA PageStart == PageBounds /\ CP!Init => PageInv
<1> SUFFICES ASSUME PageBounds, CP!Init PROVE PageInv
  OBVIOUS
<1>1. PageTyped
  BY PageConstants, PageNewRead
     DEF PageBounds, CP!Init, PageTyped, CoreType, PageType, CardType, PageOutcomes
<1>2. /\ pageCore.epoch = 1 /\ pageCore.done = {} /\ pageCore.refused = {} /\ pageCore.lost = {}
      /\ pageCore.working = 0 /\ pageCore.coming = CP!NoRequest
  BY DEF CP!Init
<1>3. /\ page.shown = CP!NoSnapshot /\ page.outcome = CP!None /\ pageOp = CP!NoOp
      /\ pageReads = {CP!NewRead(TRUE)} /\ pageCard.phase = "no"
  BY DEF CP!Init
<1>4. FromTheCore /\ OneIsHeeded
  <2>1. \A r \in pageReads : r = CP!NewRead(TRUE) /\ r.phase = "asked" BY <1>3, PageNewRead
  <2>2. FromTheCore
    <3>1. page.shown.epoch = 0 /\ pageOp.snapshot = CP!NoSnapshot BY <1>3, PageConstants
    <3>2. \A r \in pageReads : r.phase # "answered" BY <2>1
    <3> QED BY <1>2, <3>1, <3>2 DEF FromTheCore
  <2>3. OneIsHeeded BY <1>3, <2>1, PageConstants DEF OneIsHeeded
  <2> QED BY <2>2, <2>3
<1>5. NumbersAreNew BY <1>2, <1>3, PageConstants DEF NumbersAreNew, Seen
<1>6. OutcomeWillBeTrue /\ AskedAsShown /\ CP!OutcomeIsTrue
  BY <1>2, <1>3, PageConstants DEF OutcomeWillBeTrue, AskedAsShown, CP!OutcomeIsTrue, CP!None
<1> QED BY <1>1, <1>4, <1>5, <1>6 DEF PageInv

LEMMA PageStep ==
  ASSUME PageInv, [CP!Next]_CP!vars
  PROVE  PageInv' /\ NoOlder(page'.shown, page.shown)
<1>1. ASSUME page'.shown = page.shown PROVE NoOlder(page'.shown, page.shown)
  BY <1>1 DEF NoOlder, PageInv, PageTyped, PageType, SnapshotType
<1>2. CASE UNCHANGED CP!vars
  <2> USE DEF PageInv
  <2>1. UNCHANGED <<desk, pageCore, page, pageReads, pageOp, pageCard, pageLeft>>
    BY <1>2 DEF CP!vars
  <2>2. PageTyped' /\ FromTheCore' /\ OneIsHeeded'
    BY <2>1 DEF PageTyped, FromTheCore, OneIsHeeded, CP!Mac
  <2> QED BY <1>1, <2>1, <2>2, PageObserves
<1>3. CASE CP!Polls
  <2>1. PageInv' BY <1>3, PageReads, PageBudgetStays DEF CP!Polls, PageInv
  <2>2. page'.shown = page.shown BY <1>3 DEF CP!Polls, CP!Reads, PageInv, PageTyped, PageType
  <2> QED BY <1>1, <2>1, <2>2
<1>4. CASE CP!ManualReads
  <2>1. page'.shown = page.shown
    BY <1>4 DEF CP!ManualReads, CP!Reads, PageInv, PageTyped, PageType
  <2> QED BY <1>1, <1>4, <2>1, PageManual
<1>5. CASE CP!Act BY <1>1, <1>5, PageActs
<1>6. ASSUME NEW ok \in BOOLEAN, NEW asks \in BOOLEAN, CP!MainChecks(ok, asks)
      PROVE  PageInv' /\ page' = page
  BY <1>6, PageMainChecks DEF CP!MainChecks
<1>7. CASE CP!Declines BY <1>1, <1>7, PageDeclines DEF CP!Declines
<1>8. ASSUME NEW hidden \in BOOLEAN, CP!Confirms(hidden)
      PROVE  PageInv' /\ page'.shown = page.shown
  BY <1>8, PageConfirms DEF CP!Confirms, PageInv, PageTyped, PageType
<1>9. CASE CP!CallIsLost BY <1>1, <1>9, PageCallIsLost DEF CP!CallIsLost
<1>10. CASE CP!CallIsAnswered BY <1>1, <1>10, PageCallIsAnswered DEF CP!CallIsAnswered
<1>11. ASSUME NEW ok \in BOOLEAN, CP!IsLookedUp(ok)
       PROVE  PageInv' /\ page' = page
  BY <1>11, PageIsLookedUp DEF CP!IsLookedUp
<1>12. CASE CP!PageGets BY <1>12, PageGets
<1>13. ASSUME NEW r \in pageReads, NEW ok \in BOOLEAN, CP!ReadIsAnswered(r, ok)
       PROVE  PageInv' /\ page' = page
  BY <1>13, PageReadIsAnswered DEF CP!ReadIsAnswered
<1>14. CASE \E r \in pageReads : CP!ReadEnds(r) BY <1>14, PageReadEnds
<1>15. CASE CP!CardBegins \/ CP!CardAsks
  BY <1>1, <1>15, PageCardBegins, PageCardAsks DEF CP!CardBegins, CP!CardAsks
<1>16. ASSUME NEW yes \in BOOLEAN, NEW ok \in BOOLEAN, CP!CardAnswered(yes, ok)
       PROVE  PageInv' /\ page' = page
  BY <1>16, PageCardAnswered DEF CP!CardAnswered
<1>17. ASSUME NEW context \in BOOLEAN, CP!CoreChanges(context)
       PROVE  PageInv' /\ page' = page
  BY <1>17, PageCoreChanges DEF CP!CoreChanges
<1>18. CASE CP!CoreTakes BY <1>1, <1>18, PageCoreTakes DEF CP!CoreTakes
<1>19. CASE CP!CoreActs BY <1>1, <1>19, PageCoreActs DEF CP!CoreActs
<1>20. CASE CP!CoreRestarts BY <1>1, <1>20, PageCoreRestarts DEF CP!CoreRestarts
<1> QED
  BY <1>1, <1>2, <1>3, <1>4, <1>5, <1>6, <1>7, <1>8, <1>9, <1>10, <1>11, <1>12, <1>13, <1>14,
     <1>15, <1>16, <1>17, <1>18, <1>19, <1>20
  DEF CP!Next, CP!Answers

LEMMA PageImplies ==
  PageInv => CP!TypeOK /\ CP!OutcomeIsTrue /\ CP!AsConfirmed /\ CP!SubmittedOnce /\ CP!OneQuestion
<1> SUFFICES ASSUME PageInv
             PROVE  /\ CP!TypeOK /\ CP!OutcomeIsTrue /\ CP!AsConfirmed /\ CP!SubmittedOnce
                    /\ CP!OneQuestion
  OBVIOUS
<1> USE DEF PageInv
<1>1. CP!TypeOK BY DEF CP!TypeOK, PageTyped, OpType, CardType, CoreType, PageType, PageOutcomes
<1>2. CP!AsConfirmed BY DEF CP!AsConfirmed, AskedAsShown
<1>3. CP!SubmittedOnce BY DEF CP!SubmittedOnce, NumbersAreNew
<1>4. CP!OneQuestion BY DEF CP!OneQuestion, AskedAsShown
<1> QED BY <1>1, <1>2, <1>3, <1>4

\* What the page says of an action is so, what is submitted is what the user was asked about,
\* it is submitted once, and Windows asks one question at a time, whatever is lost, restarted
\* or read meanwhile (FeishuConfiguration.swift, main.cjs, renderer/app.js).
THEOREM PageKeepsItsWord ==
  ASSUME PageBounds
  PROVE  CP!Spec => [](/\ CP!TypeOK /\ CP!OutcomeIsTrue /\ CP!AsConfirmed /\ CP!SubmittedOnce
                       /\ CP!OneQuestion)
<1>1. CP!Init => PageInv BY PageStart
<1>2. PageInv /\ [CP!Next]_CP!vars => PageInv' BY PageStep
<1> QED BY <1>1, <1>2, PageImplies, PTL DEF CP!Spec

\* What the page shows never goes back to an older revision or an epoch that is over: of what is
\* under way it heeds the latest, on Windows, and macOS has one epoch (app.js, UsageViewModel.swift).
THEOREM PageNeverGoesBack == ASSUME PageBounds PROVE CP!Spec => CP!ShownNeverGoesBack
<1>1. CP!Init => PageInv BY PageStart
<1>2. PageInv /\ [CP!Next]_CP!vars => PageInv' BY PageStep
<1>3. PageInv /\ [CP!Next]_CP!vars =>
        [page.shown # CP!NoSnapshot =>
           \/ page'.shown.epoch > page.shown.epoch
           \/ page'.shown.epoch = page.shown.epoch /\ page'.shown.rev >= page.shown.rev]_CP!vars
  BY PageStep DEF NoOlder
<1> QED BY <1>1, <1>2, <1>3, PTL DEF CP!Spec, CP!ShownNeverGoesBack

(* The dashboard *)

DashboardType == [account : Nat, local : Nat, activity : Nat, root : Int, pins : Nat]
JobPhases == {"no", "asked", "account", "local", "kept", "answered", "failed"}
JobType ==
  [phase : JobPhases, forced : BOOLEAN, root : Int, pins : Nat,
   by : {DB!Nothing, "page", "monitor"}, usage : DB!Usage, activity : Nat]
BoardType ==
  [root : Int, pins : Nat, onboarded : BOOLEAN, rootError : BOOLEAN, offline : BOOLEAN,
   reading : BOOLEAN, pendingAccount : BOOLEAN, pendingActivity : BOOLEAN,
   deferred : SUBSET BOOLEAN, timer : BOOLEAN, shown : DashboardType]
MailType == [kind : {"reply", "push"}, ok : BOOLEAN, dashboard : DashboardType]
MainType ==
  [monitor : {"sleeps", "waits", "reads"}, last : Int, seen : Int, joined : BOOLEAN,
   tray : Int, mail : Seq(MailType)]
BoardCoreType == [usage : DB!Usage, root : Int, holder : DB!Readers \cup {DB!Nothing}]

BoardTyped ==
  /\ account \in Nat /\ activity \in Nat /\ boardAsked \in Nat
  /\ boardCore \in BoardCoreType /\ boardJob \in [DB!Readers -> JobType]
  /\ board \in BoardType /\ boardMain \in MainType
  /\ boardTell \in [to : Int, back : BOOLEAN]

\* Who reads has accountReadMu, with what the Core keeps or something newer.
OneReads ==
  /\ \A r \in DB!Readers :
       /\ boardJob[r].phase \in {"account", "local"} <=> boardCore.holder = r
       /\ boardCore.holder = r =>
            /\ boardJob[r].usage.local = boardCore.usage.local
            /\ \/ boardJob[r].usage.account = DB!Cleared
               \/ boardJob[r].usage.account >= boardCore.usage.account
            /\ boardJob[r].usage.account <= account
  /\ boardCore.usage.local <= activity /\ boardCore.usage.account <= account
  /\ boardAsked <= account

NoReply(mail) == \A i \in 1..Len(mail) : mail[i].kind # "reply"

OneReply(mail) ==
  \A i, k \in 1..Len(mail) : mail[i].kind = "reply" /\ mail[k].kind = "reply" => i = k

\* A page that reads is told the end, once.
EachIsTold ==
  /\ DB!Mac => /\ boardMain.mail = <<>> /\ ~boardMain.joined
               /\ board.reading = (boardJob["read"].phase # "no")
  /\ ~DB!Mac => board.deferred = {}
  /\ OneReply(boardMain.mail)
  /\ boardMain.joined \/ ~board.reading => NoReply(boardMain.mail)
  /\ ~board.reading => ~boardMain.joined

Owed(p) == p.pendingAccount \/ TRUE \in p.deferred
RecentAccount(v, since) == v = DB!Cleared \/ v >= since
Carried(j) == j.forced /\ j.phase \in {"asked", "account"}

\* Each message is recent, unless a reply comes after it.
MailIsRecent(mail, joined, since) ==
  \A i \in 1..Len(mail) :
    mail[i].ok \/ mail[i].kind = "push" =>
      \/ RecentAccount(mail[i].dashboard.account, since)
      \/ joined \/ \E k \in 1..Len(mail) : i < k /\ mail[k].kind = "reply"

Recent(p, job, usage, main, since) ==
  /\ job["read"].phase \in {"local", "kept", "answered"} =>
       RecentAccount(job["read"].usage.account, since)
  /\ Carried(job["read"]) \/ job["read"].phase = "local" \/ RecentAccount(usage.account, since)
  /\ job["history"].phase = "local" =>
       RecentAccount(job["history"].usage.account, since) \/ Carried(job["read"])
  /\ RecentAccount(p.shown.account, since) \/ p.reading
  /\ MailIsRecent(main.mail, main.joined, since)

\* A refresh that was forced waits to be made, or is on its way, or has come.
ForceIsCarried ==
  ~Owed(board) => Recent(board, boardJob, boardCore.usage, boardMain, boardAsked)

\* The root the Core was told is the page's, or is being told.
RootsMatch ==
  /\ boardTell.back => ~DB!Mac /\ boardTell.to = board.root
  /\ DB!Mac /\ boardTell = DB!NoTell /\ ~board.rootError =>
       boardCore.root = DB!ActiveRoot(board)
  /\ ~DB!Mac /\ ~boardTell.back => boardCore.root = board.root

BoardInv == BoardTyped /\ OneReads /\ EachIsTold /\ ForceIsCarried /\ RootsMatch

LEMMA BoardConstants ==
  /\ DB!Idle \in JobType /\ DB!Idle.phase = "no" /\ ~DB!Idle.forced
  /\ DB!Idle.usage \in DB!Usage /\ DB!Idle.usage.account = 0 /\ DB!Idle.usage.local = 0
  /\ DB!Readers = {"read", "history"} /\ DB!Cleared = 0 /\ DB!Loading \in Int
  /\ DB!NoRoot = 0 /\ DB!NoTell \in [to : Int, back : BOOLEAN] /\ ~DB!NoTell.back
BY DEF DB!Idle, JobType, JobPhases, DB!Usage, DB!Readers, DB!Cleared, DB!Loading, DB!NoRoot,
       DB!NoTell

LEMMA BoardAsked ==
  ASSUME NEW p \in BoardType, NEW forced \in BOOLEAN, NEW by \in {"page", "monitor"}
  PROVE  /\ DB!Asked(p, forced, by) \in JobType /\ DB!Asked(p, forced, by).phase = "asked"
         /\ DB!Asked(p, forced, by).forced = forced
<1>1. DB!ActiveRoot(p) \in Int /\ p.pins \in Nat BY BoardConstants DEF DB!ActiveRoot, BoardType
<1> DEFINE j == [DB!Idle EXCEPT !.phase = "asked", !.forced = forced, !.by = by]
           root == DB!ActiveRoot(p)
<1>2. j \in JobType /\ j.phase = "asked" /\ j.forced = forced
  BY BoardConstants DEF JobType, JobPhases
<1>3. DB!Asked(p, forced, by) = [j EXCEPT !.root = root, !.pins = p.pins]
  BY BoardConstants DEF DB!Asked, JobType
<1> HIDE DEF j, root
<1>4. root \in Int BY <1>1 DEF root
<1> QED BY <1>1, <1>2, <1>3, <1>4 DEF JobType

LEMMA MailTail ==
  ASSUME NEW mail \in Seq(MailType), mail # <<>>
  PROVE  /\ Head(mail) = mail[1] /\ mail[1] \in MailType /\ Len(mail) \in Nat /\ Len(mail) >= 1
         /\ Tail(mail) \in Seq(MailType) /\ Len(Tail(mail)) = Len(mail) - 1
         /\ \A i \in 1..Len(Tail(mail)) : Tail(mail)[i] = mail[i + 1]
OBVIOUS

LEMMA MailRest ==
  ASSUME NEW mail \in Seq(MailType), mail # <<>>
  PROVE  /\ OneReply(mail) => OneReply(Tail(mail))
         /\ NoReply(mail) => NoReply(Tail(mail))
         /\ OneReply(mail) /\ mail[1].kind = "reply" => NoReply(Tail(mail))
<1>1. OneReply(mail) => OneReply(Tail(mail)) BY MailTail DEF OneReply
<1>2. NoReply(mail) => NoReply(Tail(mail)) BY MailTail DEF NoReply
<1>3. OneReply(mail) /\ mail[1].kind = "reply" => NoReply(Tail(mail))
  BY MailTail DEF OneReply, NoReply
<1> QED BY <1>1, <1>2, <1>3

LEMMA MailRestRecent ==
  ASSUME NEW mail \in Seq(MailType), mail # <<>>, NEW joined, NEW since,
         MailIsRecent(mail, joined, since)
  PROVE  MailIsRecent(Tail(mail), joined, since)
<1> SUFFICES ASSUME NEW i \in 1..Len(Tail(mail)),
                    Tail(mail)[i].ok \/ Tail(mail)[i].kind = "push",
                    ~RecentAccount(Tail(mail)[i].dashboard.account, since), ~joined
             PROVE  \E k \in 1..Len(Tail(mail)) : i < k /\ Tail(mail)[k].kind = "reply"
  BY DEF MailIsRecent
<1>1. i + 1 \in 1..Len(mail) /\ Tail(mail)[i] = mail[i + 1] BY MailTail
<1>2. PICK k \in 1..Len(mail) : i + 1 < k /\ mail[k].kind = "reply" BY <1>1 DEF MailIsRecent
<1>3. k - 1 \in 1..Len(Tail(mail)) /\ i < k - 1 BY <1>2, MailTail
<1>4. Tail(mail)[k - 1] = mail[k] BY <1>2, <1>3, MailTail
<1> QED BY <1>2, <1>3, <1>4

LEMMA MailSent ==
  ASSUME NEW mail \in Seq(MailType), NEW m \in MailType
  PROVE  /\ mail \o <<m>> \in Seq(MailType) /\ Len(mail \o <<m>>) = Len(mail) + 1
         /\ Len(mail) \in Nat /\ (mail \o <<m>>)[Len(mail) + 1] = m
         /\ \A i \in 1..Len(mail) : (mail \o <<m>>)[i] = mail[i]
OBVIOUS

\* What the Core does: the page, the messages and the roots are left alone.
LEMMA BoardCoreMoves ==
  ASSUME BoardInv, UNCHANGED <<desk, board, boardMain, boardTell, boardAsked>>,
         account' = account, activity' = activity,
         boardCore' \in BoardCoreType, boardCore'.root = boardCore.root,
         boardJob' \in [DB!Readers -> JobType],
         boardJob["read"].phase # "no", boardJob'["read"].phase # "no",
         OneReads',
         ~Owed(board) => Recent(board, boardJob', boardCore'.usage, boardMain, boardAsked)
  PROVE  BoardInv'
<1> USE DEF BoardInv
<1>1. BoardTyped' BY DEF BoardTyped
<1>2. EachIsTold' BY DEF EachIsTold, DB!Mac, OneReply, NoReply
<1>3. ForceIsCarried' BY DEF ForceIsCarried, Owed
<1>4. RootsMatch' BY DEF RootsMatch, DB!Mac, DB!ActiveRoot
<1> QED BY <1>1, <1>2, <1>3, <1>4

\* The same for the history, whose job may begin or end.
LEMMA BoardHistoryMoves ==
  ASSUME BoardInv, UNCHANGED <<desk, board, boardMain, boardTell, boardAsked>>,
         account' = account, activity' = activity,
         boardCore' \in BoardCoreType, boardCore'.root = boardCore.root,
         boardJob' \in [DB!Readers -> JobType],
         boardJob'["read"].phase = boardJob["read"].phase,
         OneReads',
         ~Owed(board) => Recent(board, boardJob', boardCore'.usage, boardMain, boardAsked)
  PROVE  BoardInv'
<1> USE DEF BoardInv
<1>1. BoardTyped' BY DEF BoardTyped
<1>2. EachIsTold' BY DEF EachIsTold, DB!Mac, OneReply, NoReply
<1>3. ForceIsCarried' BY DEF ForceIsCarried, Owed
<1>4. RootsMatch' BY DEF RootsMatch, DB!Mac, DB!ActiveRoot
<1> QED BY <1>1, <1>2, <1>3, <1>4

LEMMA BoardJobs ==
  ASSUME BoardTyped, NEW r \in DB!Readers
  PROVE  /\ boardJob[r] \in JobType /\ boardJob[r].usage \in DB!Usage
         /\ boardJob[r].usage.account \in Nat /\ boardJob[r].usage.local \in Nat
         /\ boardCore.usage \in DB!Usage /\ boardCore.usage.account \in Nat
         /\ boardCore.usage.local \in Nat /\ account \in Nat /\ activity \in Nat
         /\ boardAsked \in Nat
BY DEF BoardTyped, JobType, BoardCoreType, DB!Usage

LEMMA BoardCoreTakes ==
  ASSUME BoardInv, NEW r \in DB!Readers, NEW due \in BOOLEAN, DB!CoreTakes(r, due)
  PROVE  BoardInv' /\ boardCore'.usage = boardCore.usage
<1> USE DEF BoardInv
<1> DEFINE phase == IF DB!Needs(boardJob[r], due) THEN "account" ELSE "local"
           j == [boardJob[r] EXCEPT !.phase = phase, !.usage = boardCore.usage]
<1>1. /\ boardJob[r].phase = "asked" /\ boardCore.holder = DB!Nothing
      /\ boardCore' = [boardCore EXCEPT !.holder = r]
      /\ UNCHANGED <<desk, account, activity, board, boardMain, boardTell, boardAsked>>
  BY DEF DB!CoreTakes, DB!Free
<1>2. /\ boardCore' \in BoardCoreType /\ boardCore'.root = boardCore.root
      /\ boardCore'.usage = boardCore.usage /\ boardCore'.holder = r
  BY <1>1 DEF BoardTyped, BoardCoreType
<1>3. boardJob' = [boardJob EXCEPT ![r] = j] BY DEF DB!CoreTakes, BoardTyped
<1>4. /\ j \in JobType /\ j.phase = phase /\ j.forced = boardJob[r].forced
      /\ j.usage = boardCore.usage
  BY BoardJobs DEF JobType, JobPhases
<1>5. phase \in {"account", "local"} /\ (boardJob[r].forced => phase = "account") BY DEF DB!Needs
<1> HIDE DEF j, phase
<1>6. /\ boardJob' \in [DB!Readers -> JobType] /\ boardJob'[r] = j
      /\ \A q \in DB!Readers : q # r => boardJob'[q] = boardJob[q]
  BY <1>3, <1>4 DEF BoardTyped
<1>7. \A q \in DB!Readers : DB!Nothing # q BY BoardConstants DEF DB!Nothing
<1>8. OneReads' BY <1>1, <1>2, <1>4, <1>5, <1>6, <1>7, BoardJobs DEF OneReads
<1>9. ASSUME ~Owed(board)
      PROVE  Recent(board, boardJob', boardCore'.usage, boardMain, boardAsked)
  <2>1. Recent(board, boardJob, boardCore.usage, boardMain, boardAsked)
    BY <1>9 DEF ForceIsCarried
  <2>2. boardJob["read"].phase # "local" /\ boardJob["history"].phase # "local"
    BY <1>1, <1>7, BoardConstants DEF OneReads
  <2>3. CASE r = "read"
    <3>1. boardJob'["history"] = boardJob["history"] BY <1>6, <2>3, BoardConstants
    <3> QED BY <1>1, <1>2, <1>4, <1>5, <1>6, <2>1, <2>2, <2>3, <3>1 DEF Recent, Carried
  <2>4. CASE r = "history"
    <3>1. boardJob'["read"] = boardJob["read"] BY <1>6, <2>4, BoardConstants
    <3> QED BY <1>1, <1>2, <1>4, <1>5, <1>6, <2>1, <2>2, <2>4, <3>1 DEF Recent, Carried
  <2> QED BY <2>3, <2>4, BoardConstants
<1>10. CASE r = "read"
  <2>1. boardJob["read"].phase # "no" /\ boardJob'["read"].phase # "no"
    BY <1>1, <1>4, <1>5, <1>6, <1>10
  <2> QED BY <1>1, <1>2, <1>6, <1>8, <1>9, <2>1, BoardCoreMoves
<1>11. CASE r = "history"
  <2>1. boardJob'["read"].phase = boardJob["read"].phase BY <1>6, <1>11, BoardConstants
  <2> QED BY <1>1, <1>2, <1>6, <1>8, <1>9, <2>1, BoardHistoryMoves
<1> QED BY <1>10, <1>11, BoardConstants

LEMMA BoardCoreFetches ==
  ASSUME BoardInv, NEW r \in DB!Readers, NEW ok \in BOOLEAN, DB!CoreFetches(r, ok)
  PROVE  BoardInv' /\ boardCore'.usage = boardCore.usage
<1> USE DEF BoardInv
<1> DEFINE fetched == IF ok THEN account ELSE DB!Cleared
           usage == [boardJob[r].usage EXCEPT !.account = fetched]
           j == [boardJob[r] EXCEPT !.phase = "local", !.usage = usage]
<1>1. /\ boardJob[r].phase = "account" /\ boardCore' = boardCore
      /\ UNCHANGED <<desk, account, activity, board, boardMain, boardTell, boardAsked>>
  BY DEF DB!CoreFetches
<1>2. fetched \in Nat /\ (fetched = 0 \/ fetched = account) BY BoardConstants DEF BoardTyped
<1> HIDE DEF fetched
<1>3. usage \in DB!Usage /\ usage.account = fetched /\ usage.local = boardJob[r].usage.local
  BY <1>2, BoardJobs DEF DB!Usage
<1>4. boardJob' = [boardJob EXCEPT ![r] = j]
  BY BoardJobs DEF DB!CoreFetches, BoardTyped, JobType, DB!Usage, fetched
<1> HIDE DEF usage
<1>5. j \in JobType /\ j.phase = "local" /\ j.forced = boardJob[r].forced /\ j.usage = usage
  BY <1>3, BoardJobs DEF JobType, JobPhases
<1> HIDE DEF j
<1>6. /\ boardJob' \in [DB!Readers -> JobType] /\ boardJob'[r] = j
      /\ \A q \in DB!Readers : q # r => boardJob'[q] = boardJob[q]
  BY <1>4, <1>5 DEF BoardTyped
<1>7. boardCore.holder = r BY <1>1 DEF OneReads
<1>8. OneReads' BY <1>1, <1>2, <1>3, <1>5, <1>6, <1>7, BoardJobs, BoardConstants DEF OneReads
<1>9. ASSUME ~Owed(board)
      PROVE  Recent(board, boardJob', boardCore'.usage, boardMain, boardAsked)
  <2>1. Recent(board, boardJob, boardCore.usage, boardMain, boardAsked)
    BY <1>9 DEF ForceIsCarried
  <2>2. RecentAccount(fetched, boardAsked)
    BY <1>2, BoardConstants, BoardJobs DEF RecentAccount, OneReads
  <2>3. CASE r = "read"
    <3>1. boardJob'["history"] = boardJob["history"] /\ boardJob["history"].phase # "local"
      BY <1>6, <1>7, <2>3, BoardConstants DEF OneReads
    <3> QED BY <1>1, <1>3, <1>5, <1>6, <2>1, <2>2, <2>3, <3>1 DEF Recent, Carried
  <2>4. CASE r = "history"
    <3>1. boardJob'["read"] = boardJob["read"] BY <1>6, <2>4, BoardConstants
    <3> QED BY <1>1, <1>3, <1>5, <1>6, <2>1, <2>2, <2>4, <3>1 DEF Recent, Carried
  <2> QED BY <2>3, <2>4, BoardConstants
<1>10. boardCore' \in BoardCoreType BY <1>1 DEF BoardTyped
<1>11. CASE r = "read"
  <2>1. boardJob["read"].phase # "no" /\ boardJob'["read"].phase # "no"
    BY <1>1, <1>5, <1>6, <1>11
  <2> QED BY <1>1, <1>6, <1>8, <1>9, <1>10, <2>1, BoardCoreMoves
<1>12. CASE r = "history"
  <2>1. boardJob'["read"].phase = boardJob["read"].phase BY <1>6, <1>12, BoardConstants
  <2> QED BY <1>1, <1>6, <1>8, <1>9, <1>10, <2>1, BoardHistoryMoves
<1> QED BY <1>1, <1>11, <1>12, BoardConstants

UsageOnward ==
  /\ boardCore'.usage.local >= boardCore.usage.local
  /\ boardCore'.usage.account >= boardCore.usage.account \/ boardCore'.usage.account = DB!Cleared

LEMMA BoardCoreKeeps ==
  ASSUME BoardInv, NEW r \in DB!Readers, NEW due \in BOOLEAN, DB!CoreKeeps(r, due)
  PROVE  BoardInv' /\ UsageOnward
<1> USE DEF BoardInv
<1> DEFINE local == IF due THEN activity ELSE boardJob[r].usage.local
           usage == [boardJob[r].usage EXCEPT !.local = local]
           j == IF r = "read" THEN [boardJob[r] EXCEPT !.phase = "kept", !.usage = usage]
                ELSE DB!Idle
<1>1. /\ boardJob[r].phase = "local"
      /\ UNCHANGED <<desk, account, activity, board, boardMain, boardTell, boardAsked>>
  BY DEF DB!CoreKeeps
<1>2. boardCore.holder = r BY <1>1 DEF OneReads
<1>3. local \in Nat /\ local >= boardCore.usage.local /\ local <= activity
  BY <1>2, BoardJobs DEF OneReads
<1>4. /\ boardCore' = [boardCore EXCEPT !.usage = usage, !.holder = DB!Nothing]
      /\ boardJob' = [boardJob EXCEPT ![r] = j]
  BY DEF DB!CoreKeeps
<1> HIDE DEF local
<1>5. usage \in DB!Usage /\ usage.local = local /\ usage.account = boardJob[r].usage.account
  BY <1>3, BoardJobs DEF DB!Usage
<1> HIDE DEF usage
<1>6. /\ boardCore' \in BoardCoreType /\ boardCore'.root = boardCore.root
      /\ boardCore'.usage = usage /\ boardCore'.holder = DB!Nothing
  BY <1>4, <1>5 DEF BoardTyped, BoardCoreType
<1>7. /\ j \in JobType
      /\ r = "read" => j.phase = "kept" /\ j.usage = usage
      /\ r = "history" => j.phase = "no"
  BY <1>5, BoardJobs, BoardConstants DEF JobType, JobPhases
<1> HIDE DEF j
<1>8. /\ boardJob' \in [DB!Readers -> JobType] /\ boardJob'[r] = j
      /\ \A q \in DB!Readers : q # r => boardJob'[q] = boardJob[q]
  BY <1>4, <1>7 DEF BoardTyped
<1>9. \A q \in DB!Readers : DB!Nothing # q BY BoardConstants DEF DB!Nothing
<1>10. UsageOnward BY <1>2, <1>3, <1>5, <1>6 DEF UsageOnward, OneReads
<1>11. OneReads'
  BY <1>1, <1>2, <1>3, <1>5, <1>6, <1>7, <1>8, <1>9, BoardJobs, BoardConstants DEF OneReads
<1>12. ASSUME ~Owed(board)
       PROVE  Recent(board, boardJob', boardCore'.usage, boardMain, boardAsked)
  <2>1. Recent(board, boardJob, boardCore.usage, boardMain, boardAsked)
    BY <1>12 DEF ForceIsCarried
  <2>2. CASE r = "read"
    <3>1. boardJob'["history"] = boardJob["history"] /\ boardJob["history"].phase # "local"
      BY <1>2, <1>8, <2>2, BoardConstants DEF OneReads
    <3> QED BY <1>1, <1>5, <1>6, <1>7, <1>8, <2>1, <2>2, <3>1 DEF Recent, Carried
  <2>3. CASE r = "history"
    <3>1. boardJob'["read"] = boardJob["read"] /\ boardJob["read"].phase # "local"
      BY <1>2, <1>8, <2>3, BoardConstants DEF OneReads
    <3> QED BY <1>1, <1>5, <1>6, <1>7, <1>8, <2>1, <2>3, <3>1 DEF Recent, Carried
  <2> QED BY <2>2, <2>3, BoardConstants
<1>13. CASE r = "read"
  <2>1. boardJob["read"].phase # "no" /\ boardJob'["read"].phase # "no"
    BY <1>1, <1>7, <1>8, <1>13
  <2> QED BY <1>1, <1>6, <1>8, <1>10, <1>11, <1>12, <2>1, BoardCoreMoves
<1>14. CASE r = "history"
  <2>1. boardJob'["read"].phase = boardJob["read"].phase BY <1>8, <1>14, BoardConstants
  <2> QED BY <1>1, <1>6, <1>8, <1>10, <1>11, <1>12, <2>1, BoardHistoryMoves
<1> QED BY <1>13, <1>14, BoardConstants

LEMMA BoardCoreAnswers ==
  ASSUME BoardInv, NEW ok \in BOOLEAN, DB!CoreAnswers(ok)
  PROVE  BoardInv' /\ boardCore'.usage = boardCore.usage
<1> USE DEF BoardInv
<1> DEFINE phase == IF ok THEN "answered" ELSE "failed"
           j == [boardJob["read"] EXCEPT !.phase = phase, !.activity = activity]
<1>1. /\ boardJob["read"].phase = "kept" /\ boardCore' = boardCore
      /\ UNCHANGED <<desk, account, activity, board, boardMain, boardTell, boardAsked>>
  BY DEF DB!CoreAnswers
<1>2. boardJob' = [boardJob EXCEPT !["read"] = j]
  BY BoardConstants DEF DB!CoreAnswers, BoardTyped
<1>3. phase \in {"answered", "failed"}
  OBVIOUS
<1> HIDE DEF phase
<1>4. /\ j \in JobType /\ j.phase = phase /\ j.forced = boardJob["read"].forced
      /\ j.usage = boardJob["read"].usage
  BY <1>3, BoardJobs, BoardConstants DEF JobType, JobPhases
<1> HIDE DEF j
<1>5. /\ boardJob' \in [DB!Readers -> JobType] /\ boardJob'["read"] = j
      /\ \A q \in DB!Readers : q # "read" => boardJob'[q] = boardJob[q]
  BY <1>2, <1>4, BoardConstants DEF BoardTyped
<1>6. OneReads' BY <1>1, <1>3, <1>4, <1>5 DEF OneReads
<1>7. ~Owed(board) => Recent(board, boardJob', boardCore'.usage, boardMain, boardAsked)
  BY <1>1, <1>3, <1>4, <1>5, BoardConstants DEF ForceIsCarried, Recent, Carried
<1>8. boardCore' \in BoardCoreType BY <1>1 DEF BoardTyped
<1> QED BY <1>1, <1>3, <1>4, <1>5, <1>6, <1>7, <1>8, BoardCoreMoves

LEMMA BoardAsksHistory ==
  ASSUME BoardInv, NEW only \in BOOLEAN, DB!AskHistory(only)
  PROVE  BoardInv' /\ boardCore'.usage = boardCore.usage
<1> USE DEF BoardInv
<1> DEFINE j == [DB!Idle EXCEPT !.phase = "asked", !.forced = ~only]
<1>1. /\ boardJob["history"].phase = "no" /\ boardCore' = boardCore
      /\ UNCHANGED <<desk, account, activity, board, boardMain, boardTell, boardAsked>>
      /\ boardJob' = [boardJob EXCEPT !["history"] = j]
  BY DEF DB!AskHistory
<1>2. j \in JobType /\ j.phase = "asked" BY BoardConstants DEF JobType, JobPhases
<1> HIDE DEF j
<1>3. /\ boardJob' \in [DB!Readers -> JobType] /\ boardJob'["history"] = j
      /\ \A q \in DB!Readers : q # "history" => boardJob'[q] = boardJob[q]
  BY <1>1, <1>2, BoardConstants DEF BoardTyped
<1>4. boardJob'["read"] = boardJob["read"] BY <1>3, BoardConstants
<1>5. OneReads' BY <1>1, <1>2, <1>3 DEF OneReads
<1>6. ~Owed(board) => Recent(board, boardJob', boardCore'.usage, boardMain, boardAsked)
  BY <1>1, <1>2, <1>3, <1>4 DEF ForceIsCarried, Recent, Carried
<1>7. boardCore' \in BoardCoreType BY <1>1 DEF BoardTyped
<1> QED BY <1>1, <1>3, <1>4, <1>5, <1>6, <1>7, BoardHistoryMoves

LEMMA BoardReadMoves ==
  ASSUME BoardInv, DB!AccountMoves \/ DB!ActivityMoves
  PROVE  BoardInv' /\ boardCore'.usage = boardCore.usage
<1> USE DEF BoardInv
<1>1. /\ UNCHANGED <<desk, boardCore, boardJob, board, boardMain, boardTell, boardAsked>>
      /\ account' \in Nat /\ activity' \in Nat /\ account' >= account /\ activity' >= activity
  BY DEF DB!AccountMoves, DB!ActivityMoves, BoardTyped
<1>2. BoardTyped' BY <1>1 DEF BoardTyped
<1>3. OneReads'
  <2>1. /\ boardCore.usage.local <= activity' /\ boardCore.usage.account <= account'
        /\ boardAsked <= account'
    BY <1>1, BoardJobs, BoardConstants DEF OneReads
  <2>2. \A r \in DB!Readers :
          boardCore.holder = r => boardJob[r].usage.account <= account'
    BY <1>1, BoardJobs DEF OneReads
  <2> QED BY <1>1, <2>1, <2>2 DEF OneReads
<1>4. EachIsTold' /\ RootsMatch' /\ ForceIsCarried'
  BY <1>1 DEF EachIsTold, RootsMatch, ForceIsCarried, Recent, Owed, DB!Mac, OneReply, NoReply,
              DB!ActiveRoot
<1> QED BY <1>1, <1>2, <1>3, <1>4

\* A refresh, of a page that differs in what is set on it: its root, its pins, its timer, and
\* the refresh it had put off, when this is that one.
LEMMA BoardRefreshes ==
  ASSUME BoardInv, NEW p \in BoardType, NEW forced \in BOOLEAN, NEW by \in {"page", "monitor"},
         DB!Refreshes(p, forced, by),
         p.reading = board.reading, p.pendingAccount = board.pendingAccount,
         p.shown = board.shown, p.deferred \subseteq board.deferred,
         forced \/ (Owed(board) => Owed(p)), ~DB!Mac => p.deferred = board.deferred,
         by = "monitor" => DB!Mac,
         UNCHANGED <<desk, account, activity>>,
         boardCore' \in BoardCoreType, boardCore'.usage = boardCore.usage,
         boardCore'.holder = boardCore.holder,
         boardTell' \in [to : Int, back : BOOLEAN],
         boardTell'.back => ~DB!Mac /\ boardTell'.to = p.root,
         DB!Mac /\ boardTell' = DB!NoTell /\ ~p.rootError => boardCore'.root = DB!ActiveRoot(p),
         ~DB!Mac /\ ~boardTell'.back => boardCore'.root = p.root
  PROVE  BoardInv'
<1> USE DEF BoardInv
<1> DEFINE wish == DB!Asked(p, forced, IF DB!Mac THEN by ELSE "page")
           job == [boardJob EXCEPT !["read"] = wish]
           joins == ~DB!Mac /\ ~p.reading /\ DB!Reading
           starts == ~p.reading /\ ~joins
<1>1. board \in BoardType /\ boardMain \in MainType /\ boardJob \in [DB!Readers -> JobType]
  BY DEF BoardTyped
<1>2. wish \in JobType /\ wish.phase = "asked" /\ wish.forced = forced BY BoardAsked
<1>3. starts => boardJob["read"].phase = "no" BY DEF EachIsTold, DB!Reading
<1>4. /\ board' \in BoardType /\ board'.root = p.root /\ board'.onboarded = p.onboarded
      /\ board'.rootError = p.rootError /\ board'.shown = p.shown
      /\ board'.deferred = p.deferred /\ board'.reading = TRUE
      /\ board'.pendingAccount = IF p.reading THEN p.pendingAccount \/ forced
                                 ELSE p.pendingAccount
  <2>1. CASE DB!Mac BY <2>1 DEF DB!Refreshes, DB!MacRefreshes, DB!Force, BoardType
  <2>2. CASE ~DB!Mac BY <2>2 DEF DB!Refreshes, DB!WindowsRefreshes, DB!Force, BoardType
  <2> QED BY <2>1, <2>2
<1>5. boardJob' = IF starts THEN job ELSE boardJob
  <2>1. CASE DB!Mac BY <2>1 DEF DB!Refreshes, DB!MacRefreshes
  <2>2. CASE ~DB!Mac BY <2>2 DEF DB!Refreshes, DB!WindowsRefreshes
  <2> QED BY <2>1, <2>2
<1> HIDE DEF wish
<1>6. /\ job \in [DB!Readers -> JobType] /\ job["read"] = wish
      /\ job["history"] = boardJob["history"]
  BY <1>1, <1>2, BoardConstants
<1> HIDE DEF job
<1>7. /\ boardMain' \in MainType /\ boardMain'.mail = boardMain.mail
      /\ boardMain'.joined = IF ~DB!Mac /\ ~p.reading THEN TRUE ELSE boardMain.joined
  <2>1. CASE DB!Mac
    <3>1. activity \in Int BY DEF BoardTyped
    <3> QED BY <1>1, <2>1, <3>1 DEF DB!Refreshes, DB!MacRefreshes, MainType
  <2>2. CASE ~DB!Mac BY <1>1, <2>2 DEF DB!Refreshes, DB!WindowsRefreshes, MainType
  <2> QED BY <2>1, <2>2
<1>8. boardAsked' = IF ~forced \/ joins THEN boardAsked ELSE account BY DEF DB!Refreshes
<1>9. BoardTyped' BY <1>4, <1>5, <1>6, <1>7, <1>8, <1>1 DEF BoardTyped
<1>10. OneReads'
  <2>1. account \in Nat /\ boardAsked \in Nat /\ boardAsked <= account
    BY DEF BoardTyped, OneReads
  <2>2. boardAsked' <= account BY <1>8, <2>1
  <2>3. CASE starts
    <3>1. \A r \in DB!Readers : r = "read" \/ r = "history" BY BoardConstants
    <3>2. boardCore.holder # "read" BY <1>3, <2>3, BoardConstants DEF OneReads
    <3> QED BY <1>2, <1>5, <1>6, <2>2, <2>3, <3>1, <3>2 DEF OneReads
  <2>4. CASE ~starts BY <1>5, <2>2, <2>4 DEF OneReads
  <2> QED BY <2>3, <2>4
<1>11. EachIsTold'
  <2>1. DB!Mac => boardJob'["read"].phase # "no" BY <1>2, <1>5, <1>6 DEF EachIsTold
  <2>2. boardMain'.joined => NoReply(boardMain.mail) BY <1>7 DEF EachIsTold
  <2> QED BY <1>4, <1>7, <2>1, <2>2 DEF EachIsTold, DB!Mac, OneReply, NoReply
<1>12. RootsMatch' BY <1>4 DEF RootsMatch, DB!Mac, DB!ActiveRoot, DB!NoTell
<1>13. ForceIsCarried'
  <2> SUFFICES ASSUME ~Owed(board')
               PROVE  Recent(board', boardJob', boardCore'.usage, boardMain', boardAsked')
    BY DEF ForceIsCarried, Owed
  <2>1. ~Owed(p) /\ ~(p.reading /\ forced) BY <1>4 DEF Owed, BoardType
  <2>2. MailIsRecent(boardMain'.mail, boardMain'.joined, boardAsked')
    <3>1. CASE boardMain'.joined BY <3>1 DEF MailIsRecent
    <3>2. CASE ~boardMain'.joined /\ DB!Mac BY <1>7, <3>2 DEF MailIsRecent, EachIsTold
    <3>3. CASE ~boardMain'.joined /\ ~DB!Mac
      <4>1. p.reading /\ ~forced /\ boardAsked' = boardAsked /\ ~Owed(board)
        BY <1>7, <1>8, <2>1, <3>3
      <4> QED BY <1>7, <3>3, <4>1 DEF ForceIsCarried, Recent
    <3> QED BY <3>1, <3>2, <3>3
  <2>3. CASE starts
    <3>1. boardJob'["read"] = wish /\ boardJob'["history"] = boardJob["history"]
      BY <1>5, <1>6, <2>3
    <3>2. CASE forced BY <1>2, <1>4, <2>2, <3>1, <3>2 DEF Recent, Carried
    <3>3. CASE ~forced
      <4>1. boardAsked' = boardAsked /\ ~Owed(board) BY <1>8, <2>1, <3>3
      <4>2. RecentAccount(boardCore.usage.account, boardAsked)
        BY <1>3, <2>3, <4>1 DEF ForceIsCarried, Recent, Carried
      <4>3. boardJob["history"].phase = "local" =>
              RecentAccount(boardJob["history"].usage.account, boardAsked)
        BY <1>3, <2>3, <4>1 DEF ForceIsCarried, Recent, Carried
      <4> QED BY <1>2, <1>4, <2>2, <3>1, <4>1, <4>2, <4>3 DEF Recent
    <3> QED BY <3>2, <3>3
  <2>4. CASE ~starts
    <3>1. boardAsked' = boardAsked /\ ~Owed(board)
      <4>1. CASE forced BY <1>8, <2>1, <2>4, <4>1 DEF EachIsTold, Owed
      <4>2. CASE ~forced BY <1>8, <2>1, <4>2
      <4> QED BY <4>1, <4>2
    <3>2. Recent(board, boardJob, boardCore.usage, boardMain, boardAsked)
      BY <3>1 DEF ForceIsCarried
    <3> QED BY <1>4, <1>5, <2>2, <2>4, <3>1, <3>2 DEF Recent
  <2> QED BY <2>3, <2>4
<1> QED BY <1>9, <1>10, <1>11, <1>12, <1>13

LEMMA BoardHere ==
  ASSUME BoardInv
  PROVE  /\ board \in BoardType /\ boardCore \in BoardCoreType
         /\ boardTell \in [to : Int, back : BOOLEAN] /\ boardMain \in MainType
         /\ boardTell.back => ~DB!Mac /\ boardTell.to = board.root
         /\ DB!Mac /\ boardTell = DB!NoTell /\ ~board.rootError =>
              boardCore.root = DB!ActiveRoot(board)
         /\ ~DB!Mac /\ ~boardTell.back => boardCore.root = board.root
BY DEF BoardInv, BoardTyped, RootsMatch

LEMMA BoardForced == ASSUME BoardInv, DB!ForceRefresh PROVE BoardInv' /\ boardCore' = boardCore
<1>1. /\ DB!Refreshes(board, TRUE, "page")
      /\ UNCHANGED <<desk, account, activity, boardCore, boardTell>>
  BY DEF DB!ForceRefresh
<1> QED BY <1>1, BoardHere, BoardRefreshes

LEMMA BoardTimer == ASSUME BoardInv, DB!TimerFires PROVE BoardInv' /\ boardCore' = boardCore
<1> DEFINE p == [board EXCEPT !.timer = DB!Mac]
<1>1. /\ DB!Refreshes(p, FALSE, "page")
      /\ UNCHANGED <<desk, account, activity, boardCore, boardTell>>
  BY DEF DB!TimerFires
<1>2. /\ p \in BoardType /\ p.reading = board.reading /\ p.shown = board.shown
      /\ p.pendingAccount = board.pendingAccount /\ p.deferred = board.deferred
      /\ p.root = board.root /\ p.rootError = board.rootError
      /\ p.onboarded = board.onboarded
  BY BoardHere DEF BoardType, DB!Mac
<1> HIDE DEF p
<1>3. DB!ActiveRoot(p) = DB!ActiveRoot(board) /\ (Owed(board) => Owed(p))
  BY <1>2 DEF DB!ActiveRoot, Owed
<1> QED BY <1>1, <1>2, <1>3, BoardHere, BoardRefreshes

LEMMA BoardPins == ASSUME BoardInv, DB!Pin PROVE BoardInv' /\ boardCore' = boardCore
<1> DEFINE p == [board EXCEPT !.pins = @ + 1]
<1>1. /\ DB!Refreshes(p, FALSE, "page")
      /\ UNCHANGED <<desk, account, activity, boardCore, boardTell>>
  BY DEF DB!Pin
<1>2. /\ p \in BoardType /\ p.reading = board.reading /\ p.shown = board.shown
      /\ p.pendingAccount = board.pendingAccount /\ p.deferred = board.deferred
      /\ p.root = board.root /\ p.rootError = board.rootError
      /\ p.onboarded = board.onboarded
  BY BoardHere DEF BoardType
<1> HIDE DEF p
<1>3. DB!ActiveRoot(p) = DB!ActiveRoot(board) /\ (Owed(board) => Owed(p))
  BY <1>2 DEF DB!ActiveRoot, Owed
<1> QED BY <1>1, <1>2, <1>3, BoardHere, BoardRefreshes

LEMMA BoardDeferred ==
  ASSUME BoardInv, NEW f \in BOOLEAN, DB!DeferredRuns(f)
  PROVE  BoardInv' /\ boardCore' = boardCore
<1> DEFINE p == [board EXCEPT !.deferred = @ \ {f}]
<1>1. /\ f \in board.deferred /\ DB!Refreshes(p, f, "page")
      /\ UNCHANGED <<desk, account, activity, boardCore, boardTell>>
  BY DEF DB!DeferredRuns
<1>2. /\ p \in BoardType /\ p.reading = board.reading /\ p.shown = board.shown
      /\ p.pendingAccount = board.pendingAccount /\ p.deferred = board.deferred \ {f}
      /\ p.root = board.root /\ p.rootError = board.rootError
      /\ p.onboarded = board.onboarded
  BY BoardHere DEF BoardType
<1> HIDE DEF p
<1>3. DB!ActiveRoot(p) = DB!ActiveRoot(board) /\ (f \/ (Owed(board) => Owed(p)))
  BY <1>2 DEF DB!ActiveRoot, Owed
<1>4. DB!Mac BY <1>1 DEF BoardInv, EachIsTold
<1> QED BY <1>1, <1>2, <1>3, <1>4, BoardHere, BoardRefreshes

LEMMA BoardRootTold ==
  ASSUME BoardInv, DB!RootTold
  PROVE  BoardInv' /\ boardCore'.usage = boardCore.usage
<1> DEFINE p == [board EXCEPT !.root = boardTell.to, !.onboarded = boardTell.to # DB!NoRoot,
                              !.rootError = FALSE]
           to == boardTell.to
<1>1. /\ DB!Refreshes(p, ~DB!Mac, "page") /\ boardTell' = DB!NoTell
      /\ UNCHANGED <<desk, account, activity>>
      /\ boardCore' = [boardCore EXCEPT !.root = to]
  BY DEF DB!RootTold
<1>2. to \in Int BY BoardHere
<1>3. /\ p \in BoardType /\ p.reading = board.reading /\ p.shown = board.shown
      /\ p.pendingAccount = board.pendingAccount /\ p.deferred = board.deferred
      /\ p.root = to /\ p.onboarded = (to # DB!NoRoot)
  BY <1>2, BoardHere DEF BoardType
<1>4. /\ boardCore' \in BoardCoreType /\ boardCore'.usage = boardCore.usage
      /\ boardCore'.holder = boardCore.holder /\ boardCore'.root = to
  BY <1>1, <1>2, BoardHere DEF BoardCoreType
<1> HIDE DEF p
<1>5. DB!ActiveRoot(p) = to /\ (Owed(board) => Owed(p)) /\ (~DB!Mac) \in BOOLEAN
  BY <1>3, BoardConstants DEF DB!ActiveRoot, Owed, DB!Mac
<1>6. boardTell' \in [to : Int, back : BOOLEAN] /\ ~boardTell'.back BY <1>1, BoardConstants
<1> QED BY <1>1, <1>3, <1>4, <1>5, <1>6, BoardRefreshes

\* The root, while nothing is read or shown.
LEMMA BoardRootMoves ==
  ASSUME BoardInv, UNCHANGED <<desk, account, activity, boardJob, boardMain, boardAsked>>,
         board' \in BoardType, board'.reading = board.reading,
         board'.pendingAccount = board.pendingAccount, board'.deferred = board.deferred,
         board'.shown.account = board.shown.account,
         boardCore' \in BoardCoreType, boardCore'.usage = boardCore.usage,
         boardCore'.holder = boardCore.holder,
         boardTell' \in [to : Int, back : BOOLEAN], RootsMatch'
  PROVE  BoardInv'
<1> USE DEF BoardInv
<1>1. BoardTyped' BY DEF BoardTyped
<1>2. OneReads' BY DEF OneReads
<1>3. EachIsTold' BY DEF EachIsTold, DB!Mac, OneReply, NoReply
<1>4. ForceIsCarried' BY DEF ForceIsCarried, Recent, Owed
<1> QED BY <1>1, <1>2, <1>3, <1>4

LEMMA BoardChoosesRoot ==
  ASSUME BoardInv, NEW r \in {DB!NoRoot, 2}, DB!ChooseRoot(r)
  PROVE  BoardInv' /\ boardCore' = boardCore
<1>1. /\ UNCHANGED <<desk, account, activity, boardCore, boardJob, boardMain, boardAsked>>
      /\ boardTell = DB!NoTell /\ boardTell' = [to |-> r, back |-> FALSE] /\ r \in Int
  BY BoardConstants DEF DB!ChooseRoot
<1>2. boardTell' \in [to : Int, back : BOOLEAN] /\ ~boardTell'.back /\ boardTell' # DB!NoTell
  BY <1>1, BoardConstants DEF DB!NoTell, DB!Loading
<1>3. CASE DB!Mac /\ r # DB!NoRoot
  <2> DEFINE shown == [board.shown EXCEPT !.root = DB!Loading]
  <2>1. board' = [board EXCEPT !.root = r, !.shown = shown, !.rootError = FALSE]
    BY <1>3, BoardHere DEF DB!ChooseRoot, BoardType
  <2>2. shown \in DashboardType /\ shown.account = board.shown.account
    BY BoardHere, BoardConstants DEF BoardType, DashboardType
  <2> HIDE DEF shown
  <2>3. /\ board' \in BoardType /\ board'.reading = board.reading
        /\ board'.pendingAccount = board.pendingAccount /\ board'.deferred = board.deferred
        /\ board'.shown.account = board.shown.account
    BY <1>1, <2>1, <2>2, BoardHere DEF BoardType
  <2>4. RootsMatch' BY <1>1, <1>2, <1>3 DEF RootsMatch, DB!Mac, DB!NoTell
  <2> QED BY <1>1, <1>2, <2>3, <2>4, BoardHere, BoardRootMoves
<1>4. CASE ~(DB!Mac /\ r # DB!NoRoot)
  <2>1. board' = board BY <1>4 DEF DB!ChooseRoot
  <2>2. RootsMatch'
    BY <1>1, <1>2, <2>1, BoardHere, BoardConstants DEF RootsMatch, DB!Mac, DB!NoTell
  <2> QED BY <1>1, <1>2, <2>1, <2>2, BoardHere, BoardRootMoves
<1> QED BY <1>3, <1>4

LEMMA BoardRootFails == ASSUME BoardInv, DB!RootFails PROVE BoardInv' /\ boardCore' = boardCore
<1>1. /\ UNCHANGED <<desk, account, activity, boardCore, boardJob, boardMain, boardAsked>>
      /\ ~boardTell.back /\ boardTell' = DB!NoTell
      /\ board' = [board EXCEPT !.rootError = DB!Mac]
  BY DEF DB!RootFails
<1>2. /\ board' \in BoardType /\ board'.reading = board.reading /\ board'.shown = board.shown
      /\ board'.pendingAccount = board.pendingAccount /\ board'.deferred = board.deferred
      /\ board'.root = board.root /\ board'.rootError = DB!Mac
  BY <1>1, BoardHere DEF BoardType, DB!Mac
<1>3. RootsMatch' BY <1>1, <1>2, BoardHere, BoardConstants DEF RootsMatch, DB!Mac, DB!NoTell
<1> QED BY <1>1, <1>2, <1>3, BoardHere, BoardConstants, BoardRootMoves

LEMMA BoardSettings ==
  ASSUME BoardInv, DB!SettingsFail \/ DB!RolledBack
  PROVE  BoardInv' /\ boardCore'.usage = boardCore.usage
<1>1. /\ UNCHANGED <<desk, account, activity, board, boardJob, boardMain, boardAsked>>
      /\ boardCore' = [boardCore EXCEPT !.root = boardTell.to] /\ boardTell.to \in Int
  BY BoardHere DEF DB!SettingsFail, DB!RolledBack
<1>2. /\ boardCore' \in BoardCoreType /\ boardCore'.usage = boardCore.usage
      /\ boardCore'.holder = boardCore.holder /\ boardCore'.root = boardTell.to
  BY <1>1, BoardHere DEF BoardCoreType
<1>3. boardTell' \in [to : Int, back : BOOLEAN] /\ RootsMatch'
  <2>1. CASE DB!SettingsFail
    <3>1. /\ ~DB!Mac /\ boardTell' = [to |-> board.root, back |-> TRUE] /\ board.root \in Int
      BY <2>1, BoardHere DEF DB!SettingsFail, DB!Rollback, BoardType
    <3> QED BY <1>1, <3>1 DEF RootsMatch, DB!Mac
  <2>2. CASE DB!RolledBack
    <3>1. boardTell.back /\ boardTell' = DB!NoTell BY <2>2 DEF DB!RolledBack
    <3> QED BY <1>1, <1>2, <3>1, BoardHere, BoardConstants DEF RootsMatch, DB!Mac, DB!NoTell
  <2> QED BY <2>1, <2>2
<1> QED BY <1>1, <1>2, <1>3, BoardHere, BoardRootMoves

\* A read of nobody's: one that has ended, or one that the monitor begins.
LEMMA BoardReadRests ==
  ASSUME BoardInv, NEW j \in JobType,
         j.phase = "no" \/ (j.phase = "asked" /\ ~j.forced),
         boardJob["read"].phase \in {"no", "answered", "failed"},
         boardJob' = [boardJob EXCEPT !["read"] = j],
         UNCHANGED <<desk, account, activity, boardCore, boardAsked>>
  PROVE  /\ boardJob' \in [DB!Readers -> JobType] /\ OneReads' /\ boardJob'["read"] = j
         /\ boardJob'["history"] = boardJob["history"]
<1> USE DEF BoardInv
<1>1. /\ boardJob' \in [DB!Readers -> JobType] /\ boardJob'["read"] = j
      /\ boardJob'["history"] = boardJob["history"]
      /\ \A q \in DB!Readers : q # "read" => boardJob'[q] = boardJob[q]
  BY BoardConstants DEF BoardTyped
<1>2. boardCore.holder # "read" BY BoardConstants DEF OneReads
<1>3. OneReads' BY <1>1, <1>2 DEF OneReads
<1> QED BY <1>1, <1>3

LEMMA BoardRecentStill ==
  ASSUME NEW job, NEW old, NEW usage, NEW since, NEW p, NEW main, NEW p0, NEW before,
         job["read"].phase = "no" \/ (job["read"].phase = "asked" /\ ~job["read"].forced),
         old["read"].phase \in {"no", "answered", "failed"},
         job["history"] = old["history"],
         Recent(p0, old, usage, before, since),
         RecentAccount(p.shown.account, since) \/ p.reading,
         MailIsRecent(main.mail, main.joined, since)
  PROVE  Recent(p, job, usage, main, since)
BY DEF Recent, Carried

LEMMA BoardAnswer ==
  ASSUME BoardInv
  PROVE  DB!Answer \in DashboardType /\ DB!Answer.account = boardJob["read"].usage.account
<1>1. boardJob["read"] \in JobType BY BoardConstants DEF BoardInv, BoardTyped
<1> QED BY <1>1 DEF DB!Answer, DB!Dashboard, DB!Read, JobType, DashboardType, DB!Usage

LEMMA BoardMacReadEnds ==
  ASSUME BoardInv, DB!Mac, DB!ReadEnds
  PROVE  BoardInv' /\ boardCore' = boardCore
<1> USE DEF BoardInv
<1> DEFINE applied == boardJob["read"].phase = "answered" /\ ~board.pendingAccount
           waits == board.pendingAccount \/ board.pendingActivity
           failed == boardJob["read"].phase = "failed"
           deferred == IF waits THEN board.deferred \cup {board.pendingAccount}
                       ELSE board.deferred
           shown == CASE applied -> DB!Answer
                      [] failed -> [board.shown EXCEPT !.account = DB!Cleared]
                      [] OTHER -> board.shown
           offline == IF applied THEN FALSE ELSE board.offline \/ failed
           mine == boardJob["read"].by = "monitor"
           last == IF applied THEN boardMain.seen ELSE boardMain.last
<1>1. /\ boardJob["read"].phase \in {"answered", "failed"}
      /\ boardJob' = [boardJob EXCEPT !["read"] = DB!Idle]
      /\ UNCHANGED <<desk, account, activity, boardCore, boardTell, boardAsked>>
  BY DEF DB!ReadEnds, DB!MacReadEnds, DB!Ended, DB!Read
<1>2. board' = [board EXCEPT !.reading = FALSE, !.pendingAccount = FALSE,
                  !.pendingActivity = FALSE, !.offline = offline,
                  !.deferred = deferred, !.shown = shown]
  BY DEF DB!ReadEnds, DB!MacReadEnds, DB!Read
<1>3. boardMain' = IF ~mine THEN boardMain
                   ELSE [boardMain EXCEPT !.monitor = "sleeps", !.last = last]
  BY DEF DB!ReadEnds, DB!MacReadEnds, DB!Read, DB!Shows
<1>4. board \in BoardType /\ boardMain \in MainType BY DEF BoardTyped
<1>5. /\ shown \in DashboardType
      /\ shown.account = IF applied THEN boardJob["read"].usage.account
                         ELSE IF failed THEN 0 ELSE board.shown.account
  <2>1. CASE applied BY <2>1, BoardAnswer
  <2>2. CASE failed
    <3>1. shown = [board.shown EXCEPT !.account = DB!Cleared] /\ ~applied BY <2>2
    <3> HIDE DEF shown, applied
    <3> QED BY <1>4, <2>2, <3>1, BoardConstants DEF BoardType, DashboardType
  <2>3. CASE ~applied /\ ~failed BY <1>4, <2>3 DEF BoardType
  <2> QED BY <2>1, <2>2, <2>3
<1>6. deferred \in SUBSET BOOLEAN /\ (Owed(board) => TRUE \in deferred) /\ offline \in BOOLEAN
  BY <1>4 DEF BoardType, Owed
<1> HIDE DEF shown, deferred, offline
<1>7. /\ board' \in BoardType /\ board'.reading = FALSE /\ board'.shown = shown
      /\ board'.deferred = deferred /\ board'.root = board.root
      /\ board'.rootError = board.rootError /\ board'.onboarded = board.onboarded
      /\ board'.pendingAccount = FALSE
  BY <1>2, <1>4, <1>5, <1>6 DEF BoardType
<1>8. /\ boardMain' \in MainType /\ boardMain'.mail = boardMain.mail
      /\ boardMain'.joined = boardMain.joined
  BY <1>3, <1>4 DEF MainType
<1>9. /\ boardJob' \in [DB!Readers -> JobType] /\ OneReads' /\ boardJob'["read"] = DB!Idle
      /\ boardJob'["history"] = boardJob["history"]
  BY <1>1, BoardReadRests, BoardConstants
<1>10. BoardTyped' BY <1>1, <1>7, <1>8, <1>9 DEF BoardTyped
<1>11. EachIsTold'
  <2>1. OneReply(<<>>) /\ NoReply(<<>>) BY DEF OneReply, NoReply
  <2>2. boardMain'.mail = <<>> /\ ~boardMain'.joined BY <1>8 DEF EachIsTold
  <2> QED BY <1>1, <1>7, <1>9, <2>1, <2>2, BoardConstants DEF EachIsTold, DB!Mac
<1>12. RootsMatch' BY <1>1, <1>7 DEF RootsMatch, DB!Mac, DB!ActiveRoot
<1>13. ForceIsCarried'
  <2> SUFFICES ASSUME ~Owed(board')
               PROVE  Recent(board', boardJob', boardCore.usage, boardMain', boardAsked)
    BY <1>1 DEF ForceIsCarried, Owed
  <2>1. ~Owed(board) BY <1>6, <1>7 DEF Owed
  <2>2. Recent(board, boardJob, boardCore.usage, boardMain, boardAsked)
    BY <2>1 DEF ForceIsCarried
  <2>3. applied \/ failed BY <1>1, <2>1 DEF Owed
  <2>4. RecentAccount(board'.shown.account, boardAsked)
    BY <1>5, <1>7, <2>2, <2>3, BoardConstants DEF Recent, RecentAccount
  <2>5. MailIsRecent(boardMain'.mail, boardMain'.joined, boardAsked) BY <1>8, <2>2 DEF Recent
  <2> QED BY <1>1, <1>9, <2>2, <2>4, <2>5, BoardRecentStill, BoardConstants
<1> QED BY <1>1, <1>9, <1>10, <1>11, <1>12, <1>13

LEMMA MailIsSent ==
  ASSUME NEW mail \in Seq(MailType), NEW m \in MailType, NEW joined, NEW since,
         MailIsRecent(mail, joined \/ m.kind = "reply", since),
         m.ok \/ m.kind = "push" => joined \/ RecentAccount(m.dashboard.account, since)
  PROVE  MailIsRecent(mail \o <<m>>, joined, since)
<1> DEFINE now == mail \o <<m>>
<1>1. /\ Len(now) = Len(mail) + 1 /\ Len(mail) \in Nat /\ now[Len(mail) + 1] = m
      /\ \A i \in 1..Len(mail) : now[i] = mail[i]
  BY MailSent
<1> HIDE DEF now
<1> SUFFICES ASSUME NEW i \in 1..Len(now), now[i].ok \/ now[i].kind = "push", ~joined,
                    ~RecentAccount(now[i].dashboard.account, since)
             PROVE  \E k \in 1..Len(now) : i < k /\ now[k].kind = "reply"
  BY DEF MailIsRecent, now
<1>2. i # Len(mail) + 1 BY <1>1
<1>3. i \in 1..Len(mail) /\ now[i] = mail[i] BY <1>1, <1>2
<1>4. CASE m.kind = "reply" BY <1>1, <1>3, <1>4
<1>5. CASE m.kind # "reply"
  <2>1. PICK k \in 1..Len(mail) : i < k /\ mail[k].kind = "reply" BY <1>3, <1>5 DEF MailIsRecent
  <2> QED BY <1>1, <2>1
<1> QED BY <1>4, <1>5

LEMMA MailHasOneReply ==
  ASSUME NEW mail \in Seq(MailType), NEW m \in MailType, OneReply(mail),
         m.kind = "reply" => NoReply(mail)
  PROVE  /\ OneReply(mail \o <<m>>)
         /\ m.kind # "reply" /\ NoReply(mail) => NoReply(mail \o <<m>>)
<1> DEFINE now == mail \o <<m>>
<1>1. /\ Len(now) = Len(mail) + 1 /\ Len(mail) \in Nat /\ now[Len(mail) + 1] = m
      /\ \A i \in 1..Len(mail) : now[i] = mail[i]
  BY MailSent
<1> HIDE DEF now
<1>2. \A i \in 1..Len(now) : i \in 1..Len(mail) \/ i = Len(mail) + 1 BY <1>1
<1>3. OneReply(now) BY <1>1, <1>2 DEF OneReply, NoReply
<1>4. m.kind # "reply" /\ NoReply(mail) => NoReply(now) BY <1>1, <1>2 DEF NoReply
<1> QED BY <1>3, <1>4 DEF now

\* What the page and its main process are told at the end of a read: both, one or none.
MailAfter(mail, joined, pushes, ok, given) ==
  mail \o (IF joined THEN <<[kind |-> "reply", ok |-> ok, dashboard |-> given]>> ELSE <<>>)
       \o (IF pushes THEN <<[kind |-> "push", ok |-> ok, dashboard |-> given]>> ELSE <<>>)

LEMMA MailAtTheEnd ==
  ASSUME NEW mail \in Seq(MailType), NEW given \in DashboardType, NEW ok \in BOOLEAN,
         NEW joined \in BOOLEAN, NEW pushes \in BOOLEAN, NEW since, NEW recent \in BOOLEAN,
         OneReply(mail), joined => NoReply(mail), pushes => ok,
         recent => MailIsRecent(mail, joined, since),
         recent /\ ok => RecentAccount(given.account, since)
  PROVE  LET now == MailAfter(mail, joined, pushes, ok, given)
         IN /\ now \in Seq(MailType) /\ OneReply(now)
            /\ recent => MailIsRecent(now, FALSE, since)
            /\ ~joined /\ NoReply(mail) => NoReply(now)
<1> DEFINE message(kind) == [kind |-> kind, ok |-> ok, dashboard |-> given]
           r == message("reply")
           u == message("push")
           one == IF joined THEN mail \o <<r>> ELSE mail
           now == IF pushes THEN one \o <<u>> ELSE one
<1>1. /\ r \in MailType /\ r.kind = "reply" /\ r.ok = ok /\ r.dashboard = given
      /\ u \in MailType /\ u.kind = "push" /\ u.ok = ok /\ u.dashboard = given
  BY DEF MailType
<1>2. MailAfter(mail, joined, pushes, ok, given) = now
  <2>1. mail \o <<r>> \in Seq(MailType) BY <1>1, MailSent
  <2>2. /\ mail \o <<>> = mail
        /\ (mail \o <<r>>) \o <<>> = mail \o <<r>>
    <3> HIDE DEF r
    <3> QED BY <2>1
  <2> QED BY <2>2 DEF MailAfter
<1> HIDE DEF r, u
<1>3. /\ one \in Seq(MailType) /\ OneReply(one)
      /\ recent => MailIsRecent(one, FALSE, since)
      /\ ~joined /\ NoReply(mail) => NoReply(one)
  <2>1. CASE joined
    <3>1. mail \o <<r>> \in Seq(MailType) /\ OneReply(mail \o <<r>>)
      BY <1>1, <2>1, MailSent, MailHasOneReply
    <3>2. recent => MailIsRecent(mail, FALSE \/ r.kind = "reply", since) BY <1>1 DEF MailIsRecent
    <3>3. recent => MailIsRecent(mail \o <<r>>, FALSE, since) BY <1>1, <3>2, MailIsSent
    <3> QED BY <2>1, <3>1, <3>3
  <2>2. CASE ~joined BY <2>2
  <2> QED BY <2>1, <2>2
<1> HIDE DEF one
<1>4. /\ now \in Seq(MailType) /\ OneReply(now)
      /\ recent => MailIsRecent(now, FALSE, since)
      /\ ~joined /\ NoReply(mail) => NoReply(now)
  <2>1. CASE pushes
    <3>1. one \o <<u>> \in Seq(MailType) /\ OneReply(one \o <<u>>)
      BY <1>1, <1>3, MailSent, MailHasOneReply
    <3>2. recent => MailIsRecent(one, FALSE \/ u.kind = "reply", since)
      BY <1>1, <1>3 DEF MailIsRecent
    <3>3. recent => MailIsRecent(one \o <<u>>, FALSE, since)
      BY <1>1, <1>3, <2>1, <3>2, MailIsSent
    <3>4. NoReply(one) => NoReply(one \o <<u>>) BY <1>1, <1>3, MailHasOneReply
    <3> QED BY <1>3, <2>1, <3>1, <3>3, <3>4
  <2>2. CASE ~pushes BY <1>3, <2>2
  <2> QED BY <2>1, <2>2
<1> HIDE DEF now
<1> QED BY <1>2, <1>4

LEMMA BoardWindowsReadEnds ==
  ASSUME BoardInv, ~DB!Mac, DB!ReadEnds
  PROVE  BoardInv' /\ boardCore' = boardCore
<1> USE DEF BoardInv
<1> DEFINE ok == boardJob["read"].phase = "answered"
           pushes == boardMain.monitor = "reads" /\ ok
           message(kind) == [kind |-> kind, ok |-> ok, dashboard |-> DB!Answer]
           reply == IF boardMain.joined THEN <<message("reply")>> ELSE <<>>
           news == IF pushes THEN <<message("push")>> ELSE <<>>
           mail == boardMain.mail \o reply \o news
           tray == IF ok THEN boardJob["read"].activity ELSE DB!Loading
           monitor == IF boardMain.monitor = "waits" THEN "reads" ELSE "sleeps"
           last == IF boardMain.monitor # "reads" THEN boardMain.last
                   ELSE IF ok THEN boardMain.seen ELSE DB!Loading
           j == IF boardMain.monitor = "waits" THEN DB!Asked(board, FALSE, "monitor")
                ELSE DB!Idle
<1>1. /\ boardJob["read"].phase \in {"answered", "failed"}
      /\ boardJob' = [boardJob EXCEPT !["read"] = j]
      /\ UNCHANGED <<desk, account, activity, board, boardCore, boardTell, boardAsked>>
  BY DEF DB!ReadEnds, DB!WindowsReadEnds, DB!Ended, DB!Read
<1>2. boardMain' = [boardMain EXCEPT !.joined = FALSE, !.tray = tray, !.mail = mail,
                                    !.monitor = monitor, !.last = last]
  BY DEF DB!ReadEnds, DB!WindowsReadEnds, DB!Read, DB!Shows
<1>3. board \in BoardType /\ boardMain \in MainType /\ boardJob["read"] \in JobType
  BY BoardConstants DEF BoardTyped
<1>4. /\ j \in JobType /\ (j.phase = "no" \/ (j.phase = "asked" /\ ~j.forced))
  BY <1>3, BoardAsked, BoardConstants
<1>5. tray \in Int /\ last \in Int BY <1>3, BoardConstants DEF MainType, JobType
<1>6. /\ mail \in Seq(MailType) /\ OneReply(mail)
      /\ ~Owed(board) => MailIsRecent(mail, FALSE, boardAsked)
      /\ ~boardMain.joined /\ NoReply(boardMain.mail) => NoReply(mail)
  <2>1. boardMain.mail \in Seq(MailType) /\ boardMain.joined \in BOOLEAN BY <1>3 DEF MainType
  <2>2. OneReply(boardMain.mail) /\ (boardMain.joined => NoReply(boardMain.mail))
    BY DEF EachIsTold
  <2>3. DB!Answer \in DashboardType /\ ok \in BOOLEAN /\ pushes \in BOOLEAN BY BoardAnswer
  <2>4. ~Owed(board) =>
          /\ MailIsRecent(boardMain.mail, boardMain.joined, boardAsked)
          /\ ok => RecentAccount(DB!Answer.account, boardAsked)
    BY BoardAnswer DEF ForceIsCarried, Recent
  <2>8. mail = MailAfter(boardMain.mail, boardMain.joined, pushes, ok, DB!Answer)
    BY DEF MailAfter
  <2>9. pushes => ok
    OBVIOUS
  <2> DEFINE recent == ~Owed(board)
  <2>5. recent \in BOOLEAN
    OBVIOUS
  <2>6. /\ recent => MailIsRecent(boardMain.mail, boardMain.joined, boardAsked)
        /\ recent /\ ok => RecentAccount(DB!Answer.account, boardAsked)
    BY <2>4
  <2> HIDE DEF recent, ok, pushes, mail
  <2>7. /\ mail \in Seq(MailType) /\ OneReply(mail)
        /\ recent => MailIsRecent(mail, FALSE, boardAsked)
        /\ ~boardMain.joined /\ NoReply(boardMain.mail) => NoReply(mail)
    BY <2>1, <2>2, <2>3, <2>5, <2>6, <2>8, <2>9, MailAtTheEnd
  <2> QED BY <2>7 DEF recent
<1> HIDE DEF mail, tray, last, j
<1>7. /\ boardMain' \in MainType /\ boardMain'.mail = mail /\ ~boardMain'.joined
  <2>1. monitor \in {"sleeps", "waits", "reads"}
    OBVIOUS
  <2> DEFINE m == [boardMain EXCEPT !.joined = FALSE, !.tray = tray, !.mail = mail]
  <2>2. m \in MainType /\ m.mail = mail /\ ~m.joined BY <1>3, <1>5, <1>6 DEF MainType
  <2>3. boardMain' = [m EXCEPT !.monitor = monitor, !.last = last] BY <1>2, <1>3 DEF MainType
  <2> HIDE DEF m, monitor
  <2> QED BY <1>5, <2>1, <2>2, <2>3 DEF MainType
<1>8. /\ boardJob' \in [DB!Readers -> JobType] /\ OneReads' /\ boardJob'["read"] = j
      /\ boardJob'["history"] = boardJob["history"]
  BY <1>1, <1>4, BoardReadRests
<1>9. BoardTyped' BY <1>1, <1>7, <1>8 DEF BoardTyped
<1>10. EachIsTold'
  <2>1. ~board.reading => NoReply(mail) BY <1>6 DEF EachIsTold
  <2> QED BY <1>1, <1>6, <1>7, <2>1 DEF EachIsTold, DB!Mac
<1>11. RootsMatch' BY <1>1 DEF RootsMatch, DB!Mac, DB!ActiveRoot
<1>12. ForceIsCarried'
  <2> SUFFICES ASSUME ~Owed(board)
               PROVE  Recent(board, boardJob', boardCore.usage, boardMain', boardAsked)
    BY <1>1 DEF ForceIsCarried, Owed
  <2>1. Recent(board, boardJob, boardCore.usage, boardMain, boardAsked) BY DEF ForceIsCarried
  <2>2. RecentAccount(board.shown.account, boardAsked) \/ board.reading BY <2>1 DEF Recent
  <2>3. MailIsRecent(boardMain'.mail, boardMain'.joined, boardAsked)
    BY <1>6, <1>7 DEF MailIsRecent
  <2> QED BY <1>1, <1>4, <1>8, <2>1, <2>2, <2>3, BoardRecentStill
<1> QED BY <1>1, <1>8, <1>9, <1>10, <1>11, <1>12

LEMMA BoardMail ==
  ASSUME BoardInv, boardMain.mail # <<>>
  PROVE  /\ ~DB!Mac /\ board.deferred = {} /\ boardMain.mail \in Seq(MailType)
         /\ Head(boardMain.mail) = boardMain.mail[1] /\ boardMain.mail[1] \in MailType
         /\ 1 \in 1..Len(boardMain.mail)
         /\ Tail(boardMain.mail) \in Seq(MailType)
         /\ OneReply(boardMain.mail) /\ OneReply(Tail(boardMain.mail))
         /\ NoReply(boardMain.mail) => NoReply(Tail(boardMain.mail))
         /\ boardMain.mail[1].kind = "reply" => NoReply(Tail(boardMain.mail))
         /\ boardMain.mail[1].kind = "reply" => board.reading /\ ~boardMain.joined
<1>1. boardMain.mail \in Seq(MailType) /\ OneReply(boardMain.mail)
  BY DEF BoardInv, BoardTyped, MainType, EachIsTold
<1>2. ~DB!Mac /\ board.deferred = {} BY DEF BoardInv, EachIsTold
<1>3. 1 \in 1..Len(boardMain.mail) BY <1>1, MailTail
<1>4. boardMain.mail[1].kind = "reply" => ~NoReply(boardMain.mail) BY <1>3 DEF NoReply
<1>5. boardMain.mail[1].kind = "reply" => board.reading /\ ~boardMain.joined
  BY <1>4 DEF BoardInv, EachIsTold
<1> QED BY <1>1, <1>2, <1>3, <1>5, MailTail, MailRest

LEMMA BoardPush ==
  ASSUME BoardInv, DB!RendererGets, Head(boardMain.mail).kind # "reply"
  PROVE  BoardInv' /\ boardCore' = boardCore
<1> USE DEF BoardInv
<1> DEFINE m == Head(boardMain.mail)
           rest == Tail(boardMain.mail)
<1>1. /\ boardMain.mail # <<>>
      /\ UNCHANGED <<desk, account, activity, boardCore, boardTell, boardJob, boardAsked>>
      /\ board' = IF board.pendingAccount THEN board ELSE [board EXCEPT !.shown = m.dashboard]
      /\ boardMain' = [boardMain EXCEPT !.mail = rest]
  BY DEF DB!RendererGets, DB!RendererPush
<1>2. m \in MailType /\ rest \in Seq(MailType) BY <1>1, BoardMail
<1>3. board \in BoardType /\ boardMain \in MainType BY DEF BoardTyped
<1> HIDE DEF m, rest
<1>4. /\ boardMain' \in MainType /\ boardMain'.mail = rest
      /\ boardMain'.joined = boardMain.joined
  BY <1>1, <1>2, <1>3 DEF MainType
<1>5. /\ board' \in BoardType /\ board'.reading = board.reading
      /\ board'.pendingAccount = board.pendingAccount /\ board'.deferred = board.deferred
      /\ board'.root = board.root /\ board'.rootError = board.rootError
      /\ board'.onboarded = board.onboarded
      /\ ~board.pendingAccount => board'.shown = m.dashboard
  BY <1>1, <1>2, <1>3 DEF BoardType, MailType
<1>6. BoardTyped' BY <1>1, <1>4, <1>5 DEF BoardTyped
<1>7. OneReads' /\ RootsMatch' BY <1>1, <1>5 DEF OneReads, RootsMatch, DB!Mac, DB!ActiveRoot
<1>8. EachIsTold' BY <1>1, <1>4, <1>5, BoardMail DEF EachIsTold, DB!Mac, rest
<1>9. ForceIsCarried'
  <2> SUFFICES ASSUME ~Owed(board)
               PROVE  Recent(board', boardJob, boardCore.usage, boardMain', boardAsked)
    BY <1>1, <1>5 DEF ForceIsCarried, Owed
  <2>1. Recent(board, boardJob, boardCore.usage, boardMain, boardAsked) BY DEF ForceIsCarried
  <2>2. MailIsRecent(boardMain.mail, boardMain.joined, boardAsked) BY <2>1 DEF Recent
  <2>3. MailIsRecent(boardMain'.mail, boardMain'.joined, boardAsked)
    BY <1>1, <1>4, <2>2, BoardMail, MailRestRecent DEF rest
  <2>4. RecentAccount(board'.shown.account, boardAsked) \/ board'.reading
    <3>1. board'.shown = m.dashboard BY <1>5 DEF Owed
    <3>2. CASE m.ok \/ m.kind = "push"
      <4>1. /\ m = boardMain.mail[1] /\ 1 \in 1..Len(boardMain.mail)
        BY <1>1, BoardMail DEF m
      <4>2. \/ RecentAccount(m.dashboard.account, boardAsked)
            \/ boardMain.joined \/ ~NoReply(boardMain.mail)
        BY <2>2, <3>2, <4>1 DEF MailIsRecent, NoReply
      <4>3. RecentAccount(m.dashboard.account, boardAsked) \/ board.reading
        BY <4>2 DEF EachIsTold
      <4> QED BY <1>5, <3>1, <4>3
    <3>3. m.kind = "push" BY <1>2 DEF MailType, m
    <3> QED BY <3>2, <3>3
  <2> QED BY <2>1, <2>3, <2>4 DEF Recent
<1> QED BY <1>1, <1>6, <1>7, <1>8, <1>9

LEMMA BoardReply ==
  ASSUME BoardInv, DB!RendererGets, Head(boardMain.mail).kind = "reply"
  PROVE  BoardInv' /\ boardCore' = boardCore
<1> USE DEF BoardInv
<1> DEFINE m == Head(boardMain.mail)
           rest == Tail(boardMain.mail)
           cleared == [board.shown EXCEPT !.account = DB!Cleared]
           shown == IF ~m.ok THEN cleared
                    ELSE IF board.pendingAccount THEN board.shown ELSE m.dashboard
           p == [board EXCEPT !.reading = FALSE, !.shown = shown, !.pendingAccount = FALSE]
           q == [boardMain EXCEPT !.mail = rest]
<1>1. /\ boardMain.mail # <<>> /\ UNCHANGED <<desk, account, activity, boardCore, boardTell>>
      /\ board.pendingAccount =>
           /\ board' = [p EXCEPT !.reading = TRUE]
           /\ boardJob' = IF DB!Reading THEN boardJob
                          ELSE [boardJob EXCEPT !["read"] = DB!Asked(p, TRUE, "page")]
           /\ boardMain' = [q EXCEPT !.joined = TRUE]
           /\ boardAsked' = IF DB!Reading THEN DB!Cleared ELSE boardAsked
      /\ ~board.pendingAccount =>
           /\ board' = [p EXCEPT !.timer = TRUE] /\ boardMain' = q
           /\ UNCHANGED <<boardJob, boardAsked>>
  BY DEF DB!RendererGets, DB!RendererReply
<1>2. /\ ~DB!Mac /\ board.deferred = {} /\ m \in MailType /\ m = boardMain.mail[1]
      /\ 1 \in 1..Len(boardMain.mail) /\ rest \in Seq(MailType) /\ OneReply(rest)
      /\ NoReply(rest) /\ board.reading /\ ~boardMain.joined
      /\ boardMain.mail \in Seq(MailType) /\ boardMain.mail[1].kind = "reply"
  BY <1>1, BoardMail
<1>3. board \in BoardType /\ boardMain \in MainType BY DEF BoardTyped
<1>4. /\ shown \in DashboardType
      /\ ~m.ok => shown.account = 0
      /\ m.ok /\ ~board.pendingAccount => shown = m.dashboard
  <2>1. cleared \in DashboardType /\ cleared.account = 0
    BY <1>3, BoardConstants DEF BoardType, DashboardType
  <2> HIDE DEF cleared
  <2> QED BY <1>2, <1>3, <2>1 DEF BoardType, MailType
<1>5. \A i \in 1..Len(boardMain.mail) : 1 < i => boardMain.mail[i].kind # "reply"
  <2>1. OneReply(boardMain.mail) BY DEF EachIsTold
  <2> HIDE DEF BoardInv, m, rest, shown, p, q
  <2>2. \A i \in 1..Len(boardMain.mail) : boardMain.mail[i].kind = "reply" => i = 1
    BY <1>2, <2>1 DEF OneReply
  <2> QED BY <2>2
<1> HIDE DEF m, rest, shown
<1>6. /\ p \in BoardType /\ p.reading = FALSE /\ p.shown = shown /\ p.pendingAccount = FALSE
      /\ p.deferred = board.deferred /\ p.root = board.root
      /\ p.rootError = board.rootError /\ p.onboarded = board.onboarded
  BY <1>3, <1>4 DEF BoardType
<1>7. q \in MainType /\ q.mail = rest /\ q.joined = boardMain.joined BY <1>2, <1>3 DEF MainType
<1> HIDE DEF p, q
<1>8. CASE board.pendingAccount
  <2> DEFINE j == DB!Asked(p, TRUE, "page")
             job == [boardJob EXCEPT !["read"] = j]
  <2>1. j \in JobType /\ j.phase = "asked" /\ j.forced BY <1>6, BoardAsked
  <2>2. /\ board' \in BoardType /\ board'.reading = TRUE /\ board'.shown = shown
        /\ board'.pendingAccount = FALSE /\ board'.deferred = board.deferred
        /\ board'.root = board.root /\ board'.rootError = board.rootError
        /\ board'.onboarded = board.onboarded
    BY <1>1, <1>6, <1>8 DEF BoardType
  <2>3. /\ boardMain' \in MainType /\ boardMain'.mail = rest /\ boardMain'.joined = TRUE
    BY <1>1, <1>7, <1>8 DEF MainType
  <2> HIDE DEF j
  <2>4. /\ job \in [DB!Readers -> JobType] /\ job["read"] = j
        /\ job["history"] = boardJob["history"]
        /\ \A r \in DB!Readers : r # "read" => job[r] = boardJob[r]
    BY <2>1, BoardConstants DEF BoardTyped
  <2>5. boardJob' = IF DB!Reading THEN boardJob ELSE job BY <1>1, <1>8 DEF j
  <2> HIDE DEF job
  <2>6. boardAsked' \in Nat /\ boardAsked' <= account
    <3>1. boardAsked' = 0 \/ boardAsked' = boardAsked BY <1>1, <1>8, BoardConstants
    <3>2. boardAsked \in Nat /\ boardAsked <= account /\ account \in Nat
      BY DEF BoardTyped, OneReads
    <3> QED BY <3>1, <3>2
  <2>7. BoardTyped' BY <1>1, <2>2, <2>3, <2>4, <2>5, <2>6 DEF BoardTyped
  <2>8. OneReads'
    <3>1. CASE DB!Reading BY <1>1, <2>5, <2>6, <3>1 DEF OneReads
    <3>2. CASE ~DB!Reading
      <4>1. boardCore.holder # "read" BY <3>2, BoardConstants DEF OneReads, DB!Reading
      <4> QED BY <1>1, <2>1, <2>4, <2>5, <2>6, <3>2, <4>1 DEF OneReads
    <3> QED BY <3>1, <3>2
  <2>9. EachIsTold' BY <1>1, <1>2, <2>2, <2>3 DEF EachIsTold, DB!Mac
  <2>10. RootsMatch' BY <1>1, <2>2 DEF RootsMatch, DB!Mac, DB!ActiveRoot
  <2>11. ForceIsCarried'
    <3>1. MailIsRecent(boardMain'.mail, boardMain'.joined, boardAsked') BY <2>3 DEF MailIsRecent
    <3>2. CASE DB!Reading
      <4>1. /\ boardAsked' = 0 /\ boardJob' = boardJob
        BY <1>1, <1>8, <2>5, <3>2, BoardConstants
      <4>2. /\ boardJob["read"].usage.account \in Nat /\ boardJob["history"].usage.account \in Nat
            /\ boardCore.usage.account \in Nat
        BY BoardJobs, BoardConstants
      <4> QED BY <1>1, <2>2, <3>1, <4>1, <4>2 DEF ForceIsCarried, Recent, RecentAccount
    <3>3. CASE ~DB!Reading
      <4>1. boardJob'["read"] = j BY <2>4, <2>5, <3>3
      <4> QED BY <1>1, <2>1, <2>2, <3>1, <4>1 DEF ForceIsCarried, Recent, Carried
    <3> QED BY <3>2, <3>3
  <2> QED BY <1>1, <2>7, <2>8, <2>9, <2>10, <2>11
<1>9. CASE ~board.pendingAccount
  <2>1. /\ board' \in BoardType /\ board'.reading = FALSE /\ board'.shown = shown
        /\ board'.pendingAccount = FALSE /\ board'.deferred = board.deferred
        /\ board'.root = board.root /\ board'.rootError = board.rootError
        /\ board'.onboarded = board.onboarded
    BY <1>1, <1>6, <1>9 DEF BoardType
  <2>2. boardMain' \in MainType /\ boardMain'.mail = rest /\ ~boardMain'.joined
    BY <1>1, <1>2, <1>7, <1>9
  <2>3. boardJob' = boardJob /\ boardAsked' = boardAsked BY <1>1, <1>9
  <2>4. BoardTyped' BY <1>1, <2>1, <2>2, <2>3 DEF BoardTyped
  <2>5. OneReads' /\ RootsMatch'
    BY <1>1, <2>1, <2>3 DEF OneReads, RootsMatch, DB!Mac, DB!ActiveRoot
  <2>6. EachIsTold' BY <1>1, <1>2, <2>1, <2>2 DEF EachIsTold, DB!Mac
  <2>7. ForceIsCarried'
    <3>1. ~Owed(board) BY <1>2, <1>9 DEF Owed
    <3>2. Recent(board, boardJob, boardCore.usage, boardMain, boardAsked)
      BY <3>1 DEF ForceIsCarried
    <3>3. MailIsRecent(boardMain.mail, boardMain.joined, boardAsked) BY <3>2 DEF Recent
    <3>4. MailIsRecent(boardMain'.mail, boardMain'.joined, boardAsked)
      <4>1. MailIsRecent(rest, boardMain.joined, boardAsked)
        BY <1>1, <1>2, <3>3, MailRestRecent DEF rest
      <4> QED BY <1>2, <2>2, <4>1 DEF MailIsRecent
    <3>5. RecentAccount(board'.shown.account, boardAsked)
      <4>1. m.ok => RecentAccount(m.dashboard.account, boardAsked)
        BY <1>2, <1>5, <3>3 DEF MailIsRecent
      <4> QED BY <1>4, <1>9, <2>1, <4>1, BoardConstants DEF RecentAccount
    <3> QED BY <1>1, <2>3, <3>2, <3>4, <3>5 DEF ForceIsCarried, Recent
  <2> QED BY <1>1, <2>4, <2>5, <2>6, <2>7
<1> QED BY <1>8, <1>9

LEMMA BoardMonitorReads ==
  ASSUME BoardInv, DB!MonitorReads
  PROVE  BoardInv' /\ boardCore' = boardCore
<1>1. CASE DB!Mac
  <2>1. /\ DB!Refreshes(board, FALSE, "monitor")
        /\ UNCHANGED <<desk, account, activity, boardCore, boardTell>>
    BY <1>1 DEF DB!MonitorReads
  <2> QED BY <1>1, <2>1, BoardHere, BoardRefreshes
<1>2. CASE ~DB!Mac
  <2> USE DEF BoardInv
  <2> DEFINE monitor == IF DB!Reading THEN "waits" ELSE "reads"
             j == DB!Asked(board, FALSE, "monitor")
  <2>1. /\ boardMain' = [boardMain EXCEPT !.monitor = monitor, !.seen = activity]
        /\ boardJob' = IF DB!Reading THEN boardJob ELSE [boardJob EXCEPT !["read"] = j]
        /\ UNCHANGED <<desk, account, activity, boardCore, board, boardTell, boardAsked>>
    BY <1>2 DEF DB!MonitorReads
  <2>2. j \in JobType /\ j.phase = "asked" /\ ~j.forced BY BoardHere, BoardAsked
  <2>3. activity \in Int BY DEF BoardTyped
  <2>4. /\ boardMain' \in MainType /\ boardMain'.mail = boardMain.mail
        /\ boardMain'.joined = boardMain.joined
    BY <2>1, <2>3, BoardHere DEF MainType
  <2> HIDE DEF j
  <2>5. /\ boardJob' \in [DB!Readers -> JobType] /\ OneReads'
        /\ ~Owed(board) => Recent(board, boardJob', boardCore.usage, boardMain', boardAsked)
    <3>1. CASE DB!Reading
      <4>1. boardJob' = boardJob BY <2>1, <3>1
      <4>2. OneReads' BY <2>1, <4>1 DEF OneReads
      <4>3. ~Owed(board) => Recent(board, boardJob, boardCore.usage, boardMain', boardAsked)
        BY <2>4 DEF ForceIsCarried, Recent
      <4> QED BY <4>1, <4>2, <4>3 DEF BoardTyped
    <3>2. CASE ~DB!Reading
      <4>1. boardJob["read"].phase = "no" /\ boardJob' = [boardJob EXCEPT !["read"] = j]
        BY <2>1, <3>2 DEF DB!Reading
      <4>2. /\ boardJob' \in [DB!Readers -> JobType] /\ OneReads' /\ boardJob'["read"] = j
            /\ boardJob'["history"] = boardJob["history"]
        BY <2>1, <2>2, <4>1, BoardReadRests
      <4>3. ~Owed(board) =>
              /\ Recent(board, boardJob, boardCore.usage, boardMain, boardAsked)
              /\ RecentAccount(board.shown.account, boardAsked) \/ board.reading
              /\ MailIsRecent(boardMain'.mail, boardMain'.joined, boardAsked)
        BY <2>4 DEF ForceIsCarried, Recent
      <4> QED BY <2>2, <4>1, <4>2, <4>3, BoardRecentStill
    <3> QED BY <3>1, <3>2
  <2>6. BoardTyped' BY <2>1, <2>4, <2>5 DEF BoardTyped
  <2>7. EachIsTold' /\ RootsMatch'
    BY <1>2, <2>1, <2>4
       DEF EachIsTold, RootsMatch, DB!Mac, DB!ActiveRoot, OneReply, NoReply
  <2>8. ForceIsCarried' BY <2>1, <2>5 DEF ForceIsCarried, Owed
  <2> QED BY <2>1, <2>5, <2>6, <2>7, <2>8
<1> QED BY <1>1, <1>2

LEMMA BoardMonitorFails ==
  ASSUME BoardInv, DB!MonitorFails \/ UNCHANGED DB!vars
  PROVE  BoardInv' /\ boardCore' = boardCore
<1> USE DEF BoardInv
<1>1. /\ UNCHANGED <<desk, account, activity, boardCore, boardJob, board, boardTell, boardAsked>>
      /\ boardMain' = boardMain \/ boardMain' = [boardMain EXCEPT !.last = DB!Loading]
  BY DEF DB!MonitorFails, DB!vars
<1>2. /\ boardMain' \in MainType /\ boardMain'.mail = boardMain.mail
      /\ boardMain'.joined = boardMain.joined
  BY <1>1, BoardHere, BoardConstants DEF MainType
<1>3. BoardTyped' BY <1>1, <1>2 DEF BoardTyped
<1>4. OneReads' /\ EachIsTold' /\ RootsMatch' /\ ForceIsCarried'
  BY <1>1, <1>2
     DEF OneReads, EachIsTold, RootsMatch, ForceIsCarried, Recent, Owed, DB!Mac, DB!ActiveRoot,
         OneReply, NoReply
<1> QED BY <1>1, <1>3, <1>4

LEMMA BoardStart == DB!Init => BoardInv
<1> SUFFICES ASSUME DB!Init PROVE BoardInv
  OBVIOUS
<1>1. /\ account = 1 /\ activity = 1 /\ boardAsked = 1 /\ boardTell = DB!NoTell
      /\ boardCore = [usage |-> DB!Idle.usage, root |-> 1, holder |-> DB!Nothing]
      /\ boardMain = [monitor |-> "sleeps", last |-> DB!Loading, seen |-> 0,
                      joined |-> ~DB!Mac, tray |-> DB!Loading, mail |-> <<>>]
      /\ boardJob = [r \in DB!Readers |-> IF r = "read" THEN DB!Asked(board, ~DB!Mac, "page")
                                          ELSE DB!Idle]
  BY DEF DB!Init
<1>2. /\ board.root = 1 /\ board.reading /\ ~board.pendingAccount /\ board.deferred = {}
      /\ board.onboarded /\ ~board.rootError /\ board \in BoardType
  <2>1. DB!Dashboard(DB!Idle.usage, 0, [root |-> DB!Loading, pins |-> 0]) \in DashboardType
    BY BoardConstants DEF DB!Dashboard, DashboardType, DB!Usage
  <2> QED BY <2>1 DEF DB!Init, BoardType, DB!Mac
<1>3. /\ boardMain \in MainType /\ boardMain.joined = ~DB!Mac /\ boardMain.mail = <<>>
  BY <1>1, BoardConstants DEF MainType, DB!Mac
<1>4. /\ boardCore \in BoardCoreType /\ boardCore.root = 1 /\ boardCore.holder = DB!Nothing
      /\ boardCore.usage.account = 0 /\ boardCore.usage.local = 0
  BY <1>1, BoardConstants DEF BoardCoreType
<1>5. (~DB!Mac) \in BOOLEAN BY DEF DB!Mac
<1>6. /\ boardJob \in [DB!Readers -> JobType] /\ boardJob["read"].phase = "asked"
      /\ boardJob["read"].forced = ~DB!Mac /\ boardJob["history"].phase = "no"
  <2>1. /\ DB!Asked(board, ~DB!Mac, "page") \in JobType
        /\ DB!Asked(board, ~DB!Mac, "page").phase = "asked"
        /\ DB!Asked(board, ~DB!Mac, "page").forced = ~DB!Mac
    BY <1>2, <1>5, BoardAsked
  <2> QED BY <1>1, <2>1, BoardConstants
<1>7. BoardTyped BY <1>1, <1>2, <1>3, <1>4, <1>6, BoardConstants DEF BoardTyped
<1>8. OneReads BY <1>1, <1>4, <1>6, BoardConstants DEF OneReads, DB!Nothing
<1>9. EachIsTold
  <2>1. OneReply(<<>>) /\ NoReply(<<>>) BY DEF OneReply, NoReply
  <2> QED BY <1>2, <1>3, <1>6, <2>1 DEF EachIsTold
<1>10. RootsMatch BY <1>1, <1>2, <1>4, BoardConstants DEF RootsMatch, DB!ActiveRoot
<1>11. ForceIsCarried
  <2>1. MailIsRecent(boardMain.mail, boardMain.joined, boardAsked) BY <1>3 DEF MailIsRecent
  <2>2. RecentAccount(boardCore.usage.account, boardAsked)
    BY <1>4, BoardConstants DEF RecentAccount
  <2>3. /\ ~(boardJob["read"].phase \in {"local", "kept", "answered"})
        /\ boardJob["history"].phase # "local"
    BY <1>6
  <2>4. /\ boardJob["read"].phase \in {"local", "kept", "answered"} =>
             RecentAccount(boardJob["read"].usage.account, boardAsked)
        /\ boardJob["history"].phase = "local" =>
             RecentAccount(boardJob["history"].usage.account, boardAsked)
               \/ Carried(boardJob["read"])
    BY <2>3
  <2>5. /\ RecentAccount(board.shown.account, boardAsked) \/ board.reading
        /\ \/ Carried(boardJob["read"]) \/ boardJob["read"].phase = "local"
           \/ RecentAccount(boardCore.usage.account, boardAsked)
    BY <1>2, <2>2
  <2>6. Recent(board, boardJob, boardCore.usage, boardMain, boardAsked)
    BY <2>1, <2>4, <2>5 DEF Recent
  <2> QED BY <2>6 DEF ForceIsCarried
<1> QED BY <1>7, <1>8, <1>9, <1>10, <1>11 DEF BoardInv

LEMMA BoardStep == ASSUME BoardInv, [DB!Next]_DB!vars PROVE BoardInv' /\ UsageOnward
<1>1. ASSUME boardCore'.usage = boardCore.usage PROVE UsageOnward
  <2>1. boardCore.usage \in DB!Usage BY BoardHere DEF BoardCoreType
  <2> QED BY <1>1, <2>1 DEF UsageOnward, DB!Usage
<1>2. CASE DB!MonitorFails \/ UNCHANGED DB!vars BY <1>1, <1>2, BoardMonitorFails
<1>3. CASE DB!CoreSteps
  <2>1. ASSUME NEW r \in DB!Readers, NEW b \in BOOLEAN, DB!CoreTakes(r, b)
        PROVE  BoardInv' /\ UsageOnward
    BY <1>1, <2>1, BoardCoreTakes
  <2>2. ASSUME NEW r \in DB!Readers, NEW b \in BOOLEAN, DB!CoreKeeps(r, b)
        PROVE  BoardInv' /\ UsageOnward
    BY <2>2, BoardCoreKeeps
  <2>3. ASSUME NEW r \in DB!Readers, NEW ok \in BOOLEAN, DB!CoreFetches(r, ok)
        PROVE  BoardInv' /\ UsageOnward
    BY <1>1, <2>3, BoardCoreFetches
  <2>4. ASSUME NEW ok \in BOOLEAN, DB!CoreAnswers(ok)
        PROVE  BoardInv' /\ UsageOnward
    BY <1>1, <2>4, BoardCoreAnswers
  <2> QED BY <1>3, <2>1, <2>2, <2>3, <2>4 DEF DB!CoreSteps
<1>4. CASE DB!AccountMoves \/ DB!ActivityMoves BY <1>1, <1>4, BoardReadMoves
<1>5. CASE \E only \in BOOLEAN : DB!AskHistory(only) BY <1>1, <1>5, BoardAsksHistory
<1>6. CASE DB!ForceRefresh \/ DB!TimerFires \/ DB!Pin
  BY <1>1, <1>6, BoardForced, BoardTimer, BoardPins
<1>7. CASE \E f \in BOOLEAN : DB!DeferredRuns(f) BY <1>1, <1>7, BoardDeferred
<1>8. CASE DB!ReadEnds BY <1>1, <1>8, BoardMacReadEnds, BoardWindowsReadEnds
<1>9. CASE DB!RendererGets BY <1>1, <1>9, BoardReply, BoardPush
<1>10. CASE DB!MonitorReads BY <1>1, <1>10, BoardMonitorReads
<1>11. CASE \E r \in {DB!NoRoot, 2} : DB!ChooseRoot(r) BY <1>1, <1>11, BoardChoosesRoot
<1>12. CASE DB!RootTold BY <1>1, <1>12, BoardRootTold
<1>13. CASE DB!RootFails BY <1>1, <1>13, BoardRootFails
<1>14. CASE DB!SettingsFail \/ DB!RolledBack BY <1>1, <1>14, BoardSettings
<1> QED
  BY <1>2, <1>3, <1>4, <1>5, <1>6, <1>7, <1>8, <1>9, <1>10, <1>11, <1>12, <1>13, <1>14 DEF DB!Next

LEMMA BoardImplies == BoardInv => DB!TypeOK /\ DB!ForcedIsFresh /\ DB!RootsAgree
<1> SUFFICES ASSUME BoardInv PROVE DB!TypeOK /\ DB!ForcedIsFresh /\ DB!RootsAgree
  OBVIOUS
<1> USE DEF BoardInv
<1>1. DB!TypeOK
  BY DEF DB!TypeOK, BoardTyped, BoardCoreType, JobType, JobPhases, MainType, BoardType
<1>2. DB!ForcedIsFresh
  BY DEF DB!ForcedIsFresh, DB!Settled, DB!Fresh, ForceIsCarried, Recent, RecentAccount, Owed
<1>3. DB!RootsAgree BY BoardConstants DEF DB!RootsAgree, RootsMatch, DB!ActiveRoot
<1> QED BY <1>1, <1>2, <1>3

\* A forced refresh is never lost, whatever refreshes, failures, timers and reads of the monitor
\* it meets, and the page and the Core work with one root (UsageViewModel.swift, main.cjs,
\* renderer/app.js).
THEOREM DashboardKeepsItsWord ==
  DB!Spec => [](DB!TypeOK /\ DB!ForcedIsFresh /\ DB!RootsAgree)
<1>1. BoardInv /\ [DB!Next]_DB!vars => BoardInv' BY BoardStep
<1> QED BY <1>1, BoardStart, BoardImplies, PTL DEF DB!Spec

\* The dashboard and the token history do not undo each other's reading of the account
\* (service.go).
THEOREM UsageGoesOn == DB!Spec => DB!UsageNeverGoesBack
<1>1. BoardInv /\ [DB!Next]_DB!vars => BoardInv' BY BoardStep
<1>2. BoardInv /\ [DB!Next]_DB!vars =>
        [/\ boardCore'.usage.local >= boardCore.usage.local
         /\ boardCore'.usage.account >= boardCore.usage.account
              \/ boardCore'.usage.account = DB!Cleared]_DB!vars
  BY BoardStep DEF UsageOnward
<1> QED BY <1>1, <1>2, BoardStart, PTL DEF DB!Spec, DB!UsageNeverGoesBack

\* What a user was asked is what is submitted, once, and what the page says of it is so; a
\* forced refresh is answered with what was read after it, and the page works with the root
\* of the Core.
THEOREM PagesStaySound ==
  ASSUME PageBounds PROVE CP!Spec /\ DB!Spec => []PagesSound
<1>1. CP!Spec => [](/\ CP!TypeOK /\ CP!OutcomeIsTrue /\ CP!AsConfirmed /\ CP!SubmittedOnce
                    /\ CP!OneQuestion)
  BY PageKeepsItsWord
<1>2. DB!Spec => [](DB!TypeOK /\ DB!ForcedIsFresh /\ DB!RootsAgree) BY DashboardKeepsItsWord
<1>3. /\ CP!TypeOK /\ CP!OutcomeIsTrue /\ CP!AsConfirmed /\ CP!SubmittedOnce /\ CP!OneQuestion
      /\ DB!TypeOK /\ DB!ForcedIsFresh /\ DB!RootsAgree
      => PagesSound
  BY DEF PagesSound
<1> QED BY <1>1, <1>2, <1>3, PTL

\* Neither the page nor the usage of the Core goes back to what is older.
THEOREM NothingShownGoesBack ==
  ASSUME PageBounds PROVE CP!Spec /\ DB!Spec => NeverBack
  BY PageNeverGoesBack, UsageGoesOn DEF NeverBack
==============================================================================
