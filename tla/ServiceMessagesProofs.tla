------------------------ MODULE ServiceMessagesProofs ------------------------
(* What ServiceMessages promises for any keys, targets and bounds: its types, that no message *)
(* is written twice, that what a record says of the remote side is so, that nothing is        *)
(* written without the consent it needs, that a target has one writer, that a caller told of  *)
(* success can see the message, and that a recovery leaves nothing running. That operations   *)
(* settle (OperationsSettle) is a liveness property and is not proved. And, as the instances  *)
(* of Connections, about the cache of the child's snapshots, the app server client, the view  *)
(* of Codex Desktop's tasks and the uploads through the local gateway.                        *)
EXTENDS ServiceMessages, Connections, Sequences, FiniteSetTheorems, WellFoundedInduction, TLAPS

\* The statuses of an operation that has been claimed, and may be on its way.
Begun == {"running", "verifying", "unknown"}

\* No operation was prepared for its key after it.
Newest(o) == \A q \in Prepared : ops[q].key = ops[o].key => q <= o

\* Operations are numbered in the order they were prepared.
Numbered == \E n \in Nat : Prepared = 1 .. n

GivenUpTo(o, c) == \A g \in given : g[1] = o => g[2] <= c

\* A record, and what was sent for it.
Sent(o) ==
  /\ writes[o] <= 1 /\ (o \in applied => writes[o] = 1)
  /\ ops[o].status \in {"queued", "awaiting"} => ops[o].tries = 0
  /\ ops[o].status \in Begun => ops[o].tries >= 1
  /\ ops[o].tries = 0 => writes[o] = 0
  /\ ops[o].status \in {"cancelled", "expired"} \/ ops[o].again \/ ops[o].busy => writes[o] = 0
  /\ ops[o].again => ops[o].status \in {"failed", "expired"}
  /\ ops[o].busy => ops[o].status = "failed"
  /\ ops[o].status = "failed" => o \notin applied
  /\ ops[o].status = "succeeded" => o \in applied

\* A record, and the consent to it.
Consented(o) ==
  /\ ops[o].status = "awaiting" =>
       ops[o].perm = "confirm" /\ ops[o].challenge >= 1 /\ GivenUpTo(o, ops[o].challenge)
  /\ ops[o].perm = "confirm" /\ (ops[o].status \in InFlight \cup {"succeeded", "unknown"}
                                \/ writes[o] > 0)
       => consent[o] # 0 /\ GivenUpTo(o, consent[o])

\* Nothing is known of an operation before it is prepared.
Unused(o) ==
  writes[o] = 0 /\ o \notin applied /\ consent[o] = 0 /\ \A g \in given : g[1] # o

OpOK(o) == IF o \in Prepared THEN Sent(o) /\ Consented(o) ELSE Unused(o)

\* Of two operations of a key, the first was not sent, or it is an edit nobody knows about.
InTurn(o, q) ==
  o < q /\ ops[o].key = ops[q].key /\ writes[o] = 1
    => ops[o].key \in Edits /\ ops[o].status = "unknown"

\* A ledger names an operation of its key; those after it were not sent.
LedgerOK(k) ==
  /\ ledger[k] # NoLedger =>
       /\ ledger[k].op \in Prepared /\ ops[ledger[k].op].key = k
       /\ ops[ledger[k].op].status \notin Final => Newest(ledger[k].op)
  /\ \A o \in Prepared :
       ops[o].key = k /\ (ledger[k] = NoLedger \/ o > ledger[k].op) => writes[o] = 0

\* What a call knows of its operation, at each of its steps.
Bound(k, c) ==
  /\ c.at # "look" => c.op \in Prepared /\ ops[c.op].key = k
  /\ c.at \notin {"look", "binding"} => ledger[k] # NoLedger /\ ledger[k].op = c.op
  /\ c.at \in Executing \cup {"binding", "admitting"} => Newest(c.op)
  /\ c.replace => k \in Edits

Preparing(c) ==
  c.at = "binding" =>
    /\ writes[c.op] = 0 /\ consent[c.op] = 0 /\ \A g \in given : g[1] # c.op
    /\ c.seen = "awaiting" => ops[c.op].status = "awaiting"

Viewing(c) ==
  c.at = "viewed" =>
    /\ c.seen \in Final => ops[c.op].status = c.seen /\ (c.busy => ops[c.op].busy)
    /\ c.seen \notin Final => Newest(c.op)

Running(c) ==
  /\ c.at \in Claimed \ {"completing"} => ops[c.op].status \in {"running", "unknown"}
  /\ c.at = "completing" => ops[c.op].status \in {"verifying", "unknown"}
  /\ c.at \in {"checking", "guarding", "marking", "sending"} => writes[c.op] = 0
  /\ c.at = "writing" => (c.hit <=> c.op \in applied) /\ ~c.busy
  /\ c.at = "failing" => c.op \notin applied /\ (c.busy => writes[c.op] = 0)
  /\ c.at \in {"verifying", "completing"} => c.op \in applied
  /\ c.at = "settling" /\ c.result = "succeeded" => c.op \in applied

CallOK(k) ==
  call[k] # NoCall =>
    Bound(k, call[k]) /\ Preparing(call[k]) /\ Viewing(call[k]) /\ Running(call[k])

\* Whoever executes is admitted, and the admitted have targets of their own.
Admissions ==
  /\ \A k \in Keys : Calling(k, Executing) => k \in admitted
  /\ \A j, k \in admitted : j # k => TargetOf[j] # TargetOf[k]

InHands(o) == Calling(ops[o].key, Claimed) /\ call[ops[o].key].op = o

\* An operation that runs in nobody's hands is still before the recovery.
ToRecover(o) ==
  \/ sweep = "starting" \/ o \in recovering
  \/ loaded # NoOp /\ loaded.op = o /\ loaded.status \in {"running", "verifying"}

NothingForgotten ==
  faults = 0 =>
    \A o \in Prepared : ops[o].status \in {"running", "verifying"} => InHands(o) \/ ToRecover(o)

\* What the recovery and the resumptions name was prepared.
Named ==
  /\ recovering \subseteq Prepared /\ resuming \subseteq Prepared
  /\ loaded # NoOp => loaded.op \in Prepared
  /\ sweep # "sweeping" => recovering = {} /\ loaded = NoOp

\* What the records, the ledgers and the history say of each other.
Records ==
  /\ Numbered /\ ToldIsTrue
  /\ \A o \in Ops : OpOK(o)
  /\ \A o, q \in Prepared : InTurn(o, q)
  /\ \A k \in Keys : LedgerOK(k)

IInv ==
  TypeOK /\ Records /\ Admissions /\ Named /\ NothingForgotten /\ \A k \in Keys : CallOK(k)

(* The operators of the model *)

LEMMA PreparedIs ==
  ASSUME TypeOK, NEW o \in Prepared
  PROVE  o \in Ops /\ ops[o] # NoOp /\ ops[o] \in OperationRecord /\ ops[o].key \in Keys
BY DEF Prepared, TypeOK, OperationRecord

LEMMA CallIs ==
  ASSUME TypeOK, NEW k \in Keys, call[k] # NoCall
  PROVE  call[k] \in Call
BY DEF TypeOK

\* The statuses and the points, sorted out.
LEMMA Sorted ==
  /\ Statuses = InFlight \cup Final \cup {"awaiting"}
  /\ Claimed \subseteq Executing /\ Executing \subseteq Points
  /\ Executing = Claimed \cup {"validating", "rejecting", "claiming"}
  /\ Claimed = {"checking", "guarding", "marking", "sending", "writing", "failing", "doubting",
                "verifying", "completing"}
BY DEF Statuses, InFlight, Final, Claimed, Executing, Points

\* What a write of a record leaves, whether it fails or not.
LEMMA Writes ==
  ASSUME TypeOK, NEW o \in Ops, NEW r \in OperationRecord, WriteOp(o, r) \/ WriteOpFails(o, r)
  PROVE  /\ ops' \in [Ops -> OperationRecord \cup {NoOp}]
         /\ ops'[o] = ops[o] \/ ops'[o] = r
         /\ \A q \in Ops \ {o} : ops'[q] = ops[q]
         /\ faults' \in Nat
         /\ faults' = 0 => faults = 0 /\ ops'[o] = r
<1>1. ops \in [Ops -> OperationRecord \cup {NoOp}] /\ faults \in Nat BY DEF TypeOK
<1>2. CASE WriteOp(o, r) BY <1>1, <1>2 DEF WriteOp
<1>3. CASE WriteOpFails(o, r) BY <1>1, <1>3 DEF WriteOpFails
<1> QED BY <1>2, <1>3

LEMMA Written ==
  ASSUME TypeOK, NEW o \in Ops, NEW r \in OperationRecord, WriteOp(o, r)
  PROVE  ops'[o] = r /\ faults' = faults
BY DEF WriteOp, TypeOK

LEMMA WritesLedger ==
  ASSUME TypeOK, NEW k \in Keys, NEW l \in Ledger,
         WriteLedger(k, l) \/ WriteLedgerFails(k, l)
  PROVE  /\ ledger' \in [Keys -> Ledger \cup {NoLedger}]
         /\ ledger'[k] = ledger[k] \/ ledger'[k] = l
         /\ \A j \in Keys \ {k} : ledger'[j] = ledger[j]
         /\ faults' \in Nat
         /\ faults' = 0 => faults = 0
<1>1. ledger \in [Keys -> Ledger \cup {NoLedger}] /\ faults \in Nat BY DEF TypeOK
<1>2. CASE WriteLedger(k, l) BY <1>1, <1>2 DEF WriteLedger
<1>3. CASE WriteLedgerFails(k, l) BY <1>1, <1>3 DEF WriteLedgerFails
<1> QED BY <1>2, <1>3

\* The records that an update writes.
LEMMA MovedIs ==
  ASSUME NEW r \in OperationRecord, NEW status \in Statuses
  PROVE  /\ Moved(r, status) \in OperationRecord
         /\ Moved(r, status).key = r.key /\ Moved(r, status).perm = r.perm
         /\ Moved(r, status).status = status /\ Moved(r, status).tries = r.tries
         /\ ~Moved(r, status).again /\ ~Moved(r, status).busy
BY DEF OperationRecord, Moved

LEMMA RefusedIs ==
  ASSUME NEW r \in OperationRecord
  PROVE  /\ Refused(r) \in OperationRecord
         /\ Refused(r).key = r.key /\ Refused(r).perm = r.perm
         /\ Refused(r).status = "failed" /\ Refused(r).tries = r.tries
         /\ ~Refused(r).busy
BY DEF OperationRecord, Refused, Statuses

LEMMA ExpiredIs ==
  ASSUME NEW r \in OperationRecord
  PROVE  /\ Expired(r) \in OperationRecord
         /\ Expired(r).key = r.key /\ Expired(r).perm = r.perm
         /\ Expired(r).status = "expired" /\ Expired(r).tries = r.tries
         /\ Expired(r).busy = r.busy
BY DEF OperationRecord, Expired, Statuses

LEMMA DoubtedIs ==
  ASSUME NEW r \in OperationRecord
  PROVE  /\ Doubted(r) \in OperationRecord
         /\ Doubted(r).key = r.key /\ Doubted(r).perm = r.perm
         /\ Doubted(r).status = "unknown"
         /\ Doubted(r) = r \/ (Doubted(r).tries >= 1 /\ ~Doubted(r).again /\ ~Doubted(r).busy)
<1>1. Moved(r, "unknown") \in OperationRecord /\ Moved(r, "unknown").status = "unknown"
      /\ Moved(r, "unknown").key = r.key /\ Moved(r, "unknown").perm = r.perm
      /\ ~Moved(r, "unknown").again /\ ~Moved(r, "unknown").busy
  BY MovedIs DEF Statuses
<1> DEFINE m == Moved(r, "unknown")
<1>2. CASE r.status = "unknown" BY <1>2 DEF Doubted
<1>3. CASE r.status # "unknown"
  <2>1. Doubted(r) = [m EXCEPT !.tries = IF @ = 0 THEN 1 ELSE @] BY <1>3 DEF Doubted
  <2> HIDE DEF m
  <2>2. m \in OperationRecord /\ m.tries \in Nat BY <1>1 DEF OperationRecord, m
  <2>3. Doubted(r) \in OperationRecord /\ Doubted(r).tries >= 1 BY <2>1, <2>2 DEF OperationRecord
  <2>4. /\ Doubted(r).key = m.key /\ Doubted(r).perm = m.perm /\ Doubted(r).status = m.status
        /\ Doubted(r).again = m.again /\ Doubted(r).busy = m.busy
    BY <2>1, <2>2 DEF OperationRecord
  <2> QED BY <1>1, <2>3, <2>4 DEF m
<1> QED BY <1>2, <1>3

\* What a step of the call of key k leaves of the call.
CallIsNow(k, c) ==
  /\ call' \in [Keys -> Call \cup {NoCall}]
  /\ call'[k] = c
  /\ \A j \in Keys \ {k} : call'[j] = call[j]

LEMMA Calls ==
  ASSUME TypeOK, NEW k \in Keys, NEW c \in Call \cup {NoCall}, call' = [call EXCEPT ![k] = c]
  PROVE  CallIsNow(k, c)
BY DEF TypeOK, CallIsNow

\* It goes on as it is, and is elsewhere.
Same(c, d) == c.op = d.op /\ c.seen = d.seen /\ c.fresh = d.fresh /\ c.replace = d.replace

LEMMA Going ==
  ASSUME TypeOK, NEW k \in Keys, call[k] # NoCall, NEW point \in Points, Go(k, point)
  PROVE  \E c \in Call :
           /\ CallIsNow(k, c)
           /\ Same(c, call[k]) /\ c.at = point
           /\ c.hit = call[k].hit /\ c.busy = call[k].busy /\ c.result = call[k].result
<1> DEFINE c == [call[k] EXCEPT !.at = point]
<1>1. call[k] \in Call BY CallIs
<1>2. /\ c \in Call /\ Same(c, call[k]) /\ c.at = point
      /\ c.hit = call[k].hit /\ c.busy = call[k].busy /\ c.result = call[k].result
  BY <1>1 DEF Call, Same
<1>3. call' = [call EXCEPT ![k] = c] BY DEF Go
<1> QED BY <1>2, <1>3, Calls

LEMMA Returning ==
  ASSUME TypeOK, NEW k \in Keys, Return(k)
  PROVE  CallIsNow(k, NoCall)
BY Calls DEF Return

LEMMA Settles ==
  ASSUME TypeOK, NEW k \in Keys, call[k] # NoCall,
         NEW result \in {"none", "failed", "unknown", "succeeded"}, Settling(k, result)
  PROVE  /\ admitted' = admitted \ {k}
         /\ \E c \in Call :
              CallIsNow(k, c) /\ Same(c, call[k]) /\ c.at = "settling" /\ c.result = result
<1> DEFINE c == [call[k] EXCEPT !.at = "settling", !.result = result]
<1>1. call[k] \in Call BY CallIs
<1>2. c \in Call /\ Same(c, call[k]) /\ c.at = "settling" /\ c.result = result
  BY <1>1 DEF Call, Points, Same
<1>3. call' = [call EXCEPT ![k] = c] /\ admitted' = admitted \ {k} BY DEF Settling
<1> QED BY <1>2, <1>3, Calls

(* What a step leaves alone *)

\* A step of the call of key k leaves the other keys as they are.
OthersStay(k) ==
  /\ \A q \in Ops :
       \/ /\ ops'[q] = ops[q] /\ writes'[q] = writes[q] /\ consent'[q] = consent[q]
          /\ q \in applied' <=> q \in applied
       \/ /\ ops'[q] # NoOp /\ ops'[q].key = k
          /\ ops[q] # NoOp => ops[q].key = k
  /\ \A g \in given' :
       g \in given \/ (g[1] \in Ops /\ ops'[g[1]] # NoOp /\ ops'[g[1]].key = k)
  /\ \A j \in Keys \ {k} : call'[j] = call[j] /\ ledger'[j] = ledger[j]

LEMMA OthersKeep ==
  ASSUME IInv, NEW k \in Keys, OthersStay(k), NEW j \in Keys \ {k}
  PROVE  CallOK(j)'
<1>1. TypeOK /\ CallOK(j) BY DEF IInv
<1>2. call'[j] = call[j] /\ ledger'[j] = ledger[j] BY DEF OthersStay
<1>3. CASE call[j] = NoCall BY <1>2, <1>3 DEF CallOK
<1>4. CASE call[j] # NoCall
  <2>2. PICK c \in Call : c = call[j] BY <1>1, <1>4, CallIs
  <2> DEFINE o == c.op
  <2>1. Bound(j, c) /\ Preparing(c) /\ Viewing(c) /\ Running(c) BY <1>1, <1>4, <2>2 DEF CallOK
  <2>3. CASE c.at = "look"
    <3>1. (Bound(j, c) /\ Preparing(c) /\ Viewing(c) /\ Running(c))'
      BY <1>2, <2>1, <2>3, Sorted DEF Bound, Preparing, Viewing, Running
    <3> QED BY <1>2, <2>2, <3>1 DEF CallOK
  <2>4. CASE c.at # "look"
    <3>1. o \in Prepared /\ ops[o].key = j /\ o \in Ops BY <1>1, <2>1, <2>4, PreparedIs DEF Bound
    <3>2. /\ ops'[o] = ops[o] /\ writes'[o] = writes[o] /\ consent'[o] = consent[o]
          /\ o \in applied' <=> o \in applied
      BY <3>1 DEF OthersStay, Prepared
    <3>3. o \in Prepared' BY <3>1, <3>2 DEF Prepared
    <3>4. \A q \in Prepared' : ops'[q].key = j => q \in Prepared /\ ops[q].key = j
      BY DEF OthersStay, Prepared
    <3>5. Newest(o) => Newest(o)' BY <3>1, <3>2, <3>4 DEF Newest
    <3>6. (\A g \in given : g[1] # o) => \A g \in given' : g[1] # o BY <3>1, <3>2 DEF OthersStay
    <3>7. Bound(j, c)' BY <1>2, <2>1, <3>1, <3>2, <3>3, <3>5, Sorted DEF Bound
    <3>8. Preparing(c)' BY <1>2, <2>1, <3>2, <3>6 DEF Preparing
    <3>9. Viewing(c)' BY <1>2, <2>1, <3>2, <3>5 DEF Viewing
    <3>10. Running(c)' BY <1>2, <2>1, <3>2 DEF Running
    <3> QED BY <1>2, <2>2, <3>7, <3>8, <3>9, <3>10 DEF CallOK
  <2> QED BY <2>3, <2>4
<1> QED BY <1>3, <1>4

InRun == {"running", "verifying"}

\* An operation of k that runs after a step of k is in hand, or it ran before, in nobody's.
ForgetsNone(k) ==
  faults' = 0 =>
    /\ faults = 0
    /\ \A o \in Prepared' :
         ops'[o].key = k /\ ops'[o].status \in InRun =>
           \/ InHands(o)'
           \/ o \in Prepared /\ ops[o].key = k /\ ops[o].status \in InRun /\ ~InHands(o)

LEMMA NobodyForgotten ==
  ASSUME IInv, NEW k \in Keys, OthersStay(k), ForgetsNone(k), UNCHANGED recovery
  PROVE  NothingForgotten'
<1> SUFFICES ASSUME faults' = 0, NEW o \in Prepared', ops'[o].status \in InRun
             PROVE  InHands(o)' \/ ToRecover(o)'
  BY DEF NothingForgotten, InRun
<1>1. TypeOK /\ NothingForgotten /\ faults = 0 BY DEF IInv, ForgetsNone
<1>2. ToRecover(o) => ToRecover(o)' BY DEF recovery, ToRecover
<1>3. CASE ops'[o].key = k
  <2>1. CASE InHands(o)' BY <2>1
  <2>2. CASE o \in Prepared /\ ops[o].status \in InRun /\ ~InHands(o)
    BY <1>1, <1>2, <2>2 DEF NothingForgotten, InRun
  <2> QED BY <1>3, <2>1, <2>2 DEF ForgetsNone
<1>4. CASE ops'[o].key # k
  <2>1. o \in Ops /\ ops'[o] = ops[o] /\ o \in Prepared BY <1>4 DEF OthersStay, Prepared
  <2>2. InHands(o) \/ ToRecover(o) BY <1>1, <2>1 DEF NothingForgotten, InRun
  <2>3. ops[o].key \in Keys \ {k} BY <1>1, <1>4, <2>1, PreparedIs
  <2>4. call'[ops[o].key] = call[ops[o].key] BY <2>3 DEF OthersStay
  <2>5. InHands(o) => InHands(o)' BY <2>1, <2>4 DEF InHands, Calling
  <2> QED BY <1>2, <2>2, <2>5
<1> QED BY <1>3, <1>4

\* One record moves: it keeps its key, its permission and its end.
Kept(o) ==
  /\ ops' \in [Ops -> OperationRecord \cup {NoOp}]
  /\ ops'[o] # NoOp /\ ops'[o].key = ops[o].key /\ ops'[o].perm = ops[o].perm
  /\ ops[o].status \in Final =>
       ops'[o].status = ops[o].status /\ (ops[o].busy => ops'[o].busy)
  /\ \A q \in Ops \ {o} : ops'[q] = ops[q]

LEMMA KeptStays ==
  ASSUME TypeOK, NEW o \in Prepared, Kept(o)
  PROVE  /\ Prepared' = Prepared
         /\ \A q \in Prepared : ops'[q].key = ops[q].key
         /\ \A q \in Prepared : Newest(q) <=> Newest(q)'
<1>1. Prepared' = Prepared BY DEF Kept, Prepared
<1>2. \A q \in Prepared : ops'[q].key = ops[q].key BY DEF Kept, Prepared
<1> QED BY <1>1, <1>2 DEF Newest

LEMMA KeptRecords ==
  ASSUME IInv, NEW o \in Prepared, Kept(o), UNCHANGED <<ledger, writes, applied, told>>,
         \A q \in Ops \ {o} : consent'[q] = consent[q],
         \A g \in given' : g \in given \/ g[1] = o,
         OpOK(o)'
  PROVE  Records'
<1>1. TypeOK /\ Records BY DEF IInv
<1>2. /\ Prepared' = Prepared
      /\ \A q \in Prepared : ops'[q].key = ops[q].key
      /\ \A q \in Prepared : Newest(q) <=> Newest(q)'
  BY <1>1, KeptStays
<1>3. Numbered' BY <1>1, <1>2 DEF Records, Numbered
<1>4. ToldIsTrue'
  <2>1. \A q \in applied : q \in Prepared BY <1>1 DEF Records, OpOK, Unused, TypeOK
  <2> QED BY <1>1, <1>2, <2>1 DEF Records, ToldIsTrue
<1>5. \A q \in Ops : OpOK(q)'
  <2> SUFFICES ASSUME NEW q \in Ops, q # o
               PROVE  OpOK(q)'
    OBVIOUS
  <2>1. ops'[q] = ops[q] /\ writes'[q] = writes[q] /\ consent'[q] = consent[q]
        /\ (q \in applied' <=> q \in applied) /\ (q \in Prepared' <=> q \in Prepared)
    BY <1>2 DEF Kept
  <2>2. \A g \in given' : g[1] = q => g \in given
    OBVIOUS
  <2>3. OpOK(q) BY <1>1 DEF Records
  <2>4. Sent(q) => Sent(q)' BY <2>1 DEF Sent
  <2>5. Consented(q) => Consented(q)' BY <2>1, <2>2 DEF Consented, GivenUpTo
  <2>6. Unused(q) => Unused(q)' BY <2>1, <2>2 DEF Unused
  <2> QED BY <2>1, <2>3, <2>4, <2>5, <2>6 DEF OpOK
<1>6. \A p, q \in Prepared' : InTurn(p, q)'
  <2> SUFFICES ASSUME NEW p \in Prepared, NEW q \in Prepared, InTurn(p, q)
               PROVE  InTurn(p, q)'
    BY <1>1, <1>2 DEF Records
  <2>1. ops[p].status = "unknown" => ops'[p].status = "unknown" BY DEF Kept, Final, Prepared
  <2> QED BY <1>2, <2>1 DEF InTurn
<1>7. \A k \in Keys : LedgerOK(k)'
  <2> SUFFICES ASSUME NEW k \in Keys, LedgerOK(k)
               PROVE  LedgerOK(k)'
    BY <1>1 DEF Records
  <2>1. \A q \in Prepared : ops'[q].status \notin Final => ops[q].status \notin Final
    BY DEF Kept, Prepared
  <2> QED BY <1>2, <2>1 DEF LedgerOK
<1> QED BY <1>3, <1>4, <1>5, <1>6, <1>7 DEF Records

\* The ledger of a key moves, and what was given of an operation.
LEMMA LedgerRecords ==
  ASSUME IInv, NEW k \in Keys, NEW o \in Prepared, UNCHANGED <<ops, writes, applied, consent>>,
         \A j \in Keys \ {k} : ledger'[j] = ledger[j],
         \A g \in given' : g \in given \/ g[1] = o,
         OpOK(o)', LedgerOK(k)', ToldIsTrue'
  PROVE  Records'
<1>1. TypeOK /\ Records BY DEF IInv
<1>2. Prepared' = Prepared /\ \A q \in Prepared : Newest(q) <=> Newest(q)'
  BY DEF Prepared, Newest
<1>3. Numbered' BY <1>1, <1>2 DEF Records, Numbered
<1>4. \A q \in Ops : OpOK(q)'
  <2> SUFFICES ASSUME NEW q \in Ops, q # o
               PROVE  OpOK(q)'
    OBVIOUS
  <2>1. \A g \in given' : g[1] = q => g \in given
    OBVIOUS
  <2>2. OpOK(q) BY <1>1 DEF Records
  <2>3. Sent(q) => Sent(q)' BY DEF Sent
  <2>4. Consented(q) => Consented(q)' BY <2>1 DEF Consented, GivenUpTo
  <2>5. Unused(q) => Unused(q)' BY <2>1 DEF Unused
  <2> QED BY <1>2, <2>2, <2>3, <2>4, <2>5 DEF OpOK
<1>5. \A p, q \in Prepared' : InTurn(p, q)' BY <1>1, <1>2 DEF Records, InTurn
<1>6. \A j \in Keys \ {k} : LedgerOK(j)' BY <1>1, <1>2 DEF Records, LedgerOK
<1> QED BY <1>3, <1>4, <1>5, <1>6 DEF Records

LEMMA SameRecords ==
  ASSUME IInv, UNCHANGED <<files, given, consent, writes, applied>>, ToldIsTrue'
  PROVE  Records'
<1>1. TypeOK /\ Records BY DEF IInv
<1>2. UNCHANGED <<ops, ledger, given, consent, writes, applied>> BY DEF files
<1>3. Prepared' = Prepared BY <1>2 DEF Prepared
<1>4. \A o \in Ops : OpOK(o) => OpOK(o)'
  BY <1>2, <1>3 DEF OpOK, Sent, Consented, Unused, GivenUpTo
<1>5. \A o, q \in Prepared : InTurn(o, q) => InTurn(o, q)' BY <1>2 DEF InTurn
<1>6. \A k \in Keys : LedgerOK(k) => LedgerOK(k)' BY <1>2, <1>3 DEF LedgerOK, Newest
<1>7. Numbered => Numbered' BY <1>3 DEF Numbered
<1> QED BY <1>1, <1>3, <1>4, <1>5, <1>6, <1>7 DEF Records

(* The steps of a call, by what they move *)

LEMMA AdmissionsKeep ==
  ASSUME IInv, NEW k \in Keys, NEW c, CallIsNow(k, c),
         admitted' = admitted \/ admitted' = admitted \ {k},
         c # NoCall /\ c.at \in Executing => k \in admitted'
  PROVE  Admissions'
BY DEF IInv, Admissions, CallIsNow, Calling

LEMMA StepKeeps ==
  ASSUME IInv, NEW k \in Keys, UNCHANGED env, NEW c \in Call \cup {NoCall}, CallIsNow(k, c),
         ops' \in [Ops -> OperationRecord \cup {NoOp}],
         ledger' \in [Keys -> Ledger \cup {NoLedger}],
         admitted' \subseteq Keys, given' \subseteq Ops \X Nat, consent' \in [Ops -> Nat],
         writes' \in [Ops -> Nat], applied' \subseteq Ops, told' \subseteq Keys, faults' \in Nat,
         Prepared \subseteq Prepared',
         Records', OthersStay(k), ForgetsNone(k), CallOK(k)', Admissions'
  PROVE  IInv'
<1>1. TypeOK /\ Named BY DEF IInv
<1>2. UNCHANGED <<policy, late, up, resuming, sweep, recovering, loaded, calls, crashes>>
  BY DEF env, recovery
<1>3. TypeOK' BY <1>1, <1>2 DEF TypeOK, CallIsNow
<1>4. NothingForgotten' BY NobodyForgotten DEF env
<1>5. Named' BY <1>1, <1>2 DEF Named
<1>6. \A j \in Keys \ {k} : CallOK(j)' BY OthersKeep
<1> QED BY <1>3, <1>4, <1>5, <1>6 DEF IInv

\* A step that moves the call only.
LEMMA SilentStep ==
  ASSUME IInv, NEW k \in Keys, call[k] # NoCall, UNCHANGED <<env, files, history, faults>>,
         NEW c \in Call \cup {NoCall}, CallIsNow(k, c),
         admitted' = admitted \/ admitted' = admitted \ {k},
         c # NoCall =>
           /\ c.at \in Executing => k \in admitted'
           /\ Bound(k, c) /\ Preparing(c) /\ Viewing(c) /\ Running(c),
         call[k].at \in Claimed /\ ops[call[k].op].status \in InRun =>
           c # NoCall /\ c.at \in Claimed /\ c.op = call[k].op
  PROVE  IInv'
<1>1. TypeOK /\ Records BY DEF IInv
<1>2. UNCHANGED <<ops, ledger, given, consent, writes, applied, told, faults>>
  BY DEF files, history
<1>3. ToldIsTrue' BY <1>1, <1>2 DEF Records, ToldIsTrue
<1>4. Records' BY <1>2, <1>3, SameRecords
<1>5. Admissions' BY AdmissionsKeep
<1>6. OthersStay(k) BY <1>2 DEF OthersStay, CallIsNow
<1>7. Prepared' = Prepared BY <1>2 DEF Prepared
<1>8. ForgetsNone(k)
  <2> SUFFICES ASSUME faults = 0, NEW o \in Prepared, ops[o].key = k, ops[o].status \in InRun
               PROVE  InHands(o)' \/ ~InHands(o)
    BY <1>2, <1>7 DEF ForgetsNone
  <2> SUFFICES ASSUME InHands(o)
               PROVE  InHands(o)'
    OBVIOUS
  <2>1. call[k].at \in Claimed /\ call[k].op = o BY DEF InHands, Calling
  <2>2. call'[k] = c /\ c # NoCall /\ c.at \in Claimed /\ c.op = o BY <2>1 DEF CallIsNow
  <2> QED BY <1>2, <2>2 DEF InHands, Calling
<1>9. CallOK(k)'
  <2>1. call'[k] = c BY DEF CallIsNow
  <2>2. Bound(k, c) => Bound(k, c)' BY <1>2, <1>7 DEF Bound, Newest
  <2>3. Preparing(c) => Preparing(c)' BY <1>2 DEF Preparing
  <2>4. Viewing(c) => Viewing(c)' BY <1>2, <1>7 DEF Viewing, Newest
  <2>5. Running(c) => Running(c)' BY <1>2 DEF Running
  <2> QED BY <2>1, <2>2, <2>3, <2>4, <2>5 DEF CallOK
<1>10. admitted' \subseteq Keys BY <1>1 DEF TypeOK
<1> QED BY <1>1, <1>2, <1>4, <1>5, <1>6, <1>7, <1>8, <1>9, <1>10, StepKeeps DEF TypeOK

\* A step that moves the record of its operation too.
LEMMA RecordStep ==
  ASSUME IInv, NEW k \in Keys, call[k] # NoCall, NEW o \in Prepared, ops[o].key = k,
         UNCHANGED <<env, ledger, consent, writes, applied, told>>,
         Kept(o), faults' \in Nat, faults' = 0 => faults = 0,
         given' \subseteq Ops \X Nat, \A g \in given' : g \in given \/ g[1] = o,
         OpOK(o)',
         NEW c \in Call \cup {NoCall}, CallIsNow(k, c),
         admitted' = admitted \/ admitted' = admitted \ {k},
         c # NoCall =>
           /\ c.at \in Executing => k \in admitted'
           /\ c.at # "binding"
           /\ Bound(k, c) /\ Viewing(c)' /\ Running(c)',
         call[k].at \in Claimed => call[k].op = o,
         faults' = 0 /\ ops'[o].status \in InRun =>
           \/ c # NoCall /\ c.at \in Claimed /\ c.op = o
           \/ ops[o].status \in InRun /\ call[k].at \notin Claimed
  PROVE  IInv'
<1>1. TypeOK /\ Records /\ o \in Ops BY PreparedIs DEF IInv
<1>2. /\ Prepared' = Prepared
      /\ \A q \in Prepared : ops'[q].key = ops[q].key
      /\ \A q \in Prepared : Newest(q) <=> Newest(q)'
  BY <1>1, KeptStays
<1>3. Records' BY KeptRecords
<1>4. Admissions' BY AdmissionsKeep
<1>5. OthersStay(k) BY <1>1, <1>2 DEF OthersStay, CallIsNow, Kept, Prepared
<1>6. ForgetsNone(k)
  <2> SUFFICES ASSUME faults' = 0, NEW q \in Prepared, ops'[q].key = k, ops'[q].status \in InRun
               PROVE  \/ InHands(q)'
                      \/ ops[q].key = k /\ ops[q].status \in InRun /\ ~InHands(q)
    BY <1>2 DEF ForgetsNone
  <2>1. CASE q = o
    <3>1. CASE c # NoCall /\ c.at \in Claimed /\ c.op = o
      BY <2>1, <3>1 DEF InHands, Calling, CallIsNow
    <3>2. CASE ops[o].status \in InRun /\ call[k].at \notin Claimed
      BY <2>1, <3>2 DEF InHands, Calling
    <3> QED BY <2>1, <3>1, <3>2
  <2>2. CASE q # o
    <3>1. ops'[q] = ops[q] BY <2>2 DEF Kept, Prepared
    <3> QED BY <2>2, <3>1 DEF InHands, Calling
  <2> QED BY <2>1, <2>2
<1>7. CallOK(k)'
  <2>1. call'[k] = c BY DEF CallIsNow
  <2>2. CASE c = NoCall BY <2>1, <2>2 DEF CallOK
  <2>3. CASE c # NoCall
    <3>1. c.at # "look" => c.op \in Prepared BY <2>3 DEF Bound
    <3>2. Bound(k, c)' BY <1>2, <2>3, <3>1, Sorted DEF Bound
    <3>3. Preparing(c)' BY <2>3 DEF Preparing
    <3> QED BY <2>1, <2>3, <3>2, <3>3 DEF CallOK
  <2> QED BY <2>2, <2>3
<1>8. admitted' \subseteq Keys BY <1>1 DEF TypeOK
<1>9. ops' \in [Ops -> OperationRecord \cup {NoOp}] BY DEF Kept
<1> QED BY <1>1, <1>2, <1>3, <1>4, <1>5, <1>6, <1>7, <1>8, <1>9, StepKeeps DEF TypeOK

(* The steps that move the call only *)

LEMMA AtIs ==
  ASSUME IInv, NEW k \in Keys, NEW point, At(k, point)
  PROVE  /\ TypeOK /\ call[k] # NoCall /\ call[k] \in Call /\ call[k].at = point
         /\ Bound(k, call[k]) /\ Preparing(call[k]) /\ Viewing(call[k]) /\ Running(call[k])
         /\ point \in Executing => k \in admitted
         /\ point # "look" =>
              /\ call[k].op \in Prepared /\ ops[call[k].op].key = k
              /\ call[k].op \in Ops /\ ops[call[k].op] \in OperationRecord
BY CallIs, PreparedIs DEF IInv, At, CallOK, Admissions, Calling, Bound

LEMMA ProceedKeeps ==
  ASSUME IInv, NEW k \in Keys, Proceed(k)
  PROVE  IInv'
<1>1. At(k, "viewed") /\ call[k].seen = "queued" /\ Go(k, "admitting")
      /\ UNCHANGED <<env, files, admitted, history, faults>>
  BY DEF Proceed
<1>2. PICK c \in Call : CallIsNow(k, c) /\ Same(c, call[k]) /\ c.at = "admitting"
                        /\ c.replace = call[k].replace
  BY <1>1, AtIs, Going DEF Points, Same
<1>3. Bound(k, c) /\ Preparing(c) /\ Viewing(c) /\ Running(c)
  BY <1>1, <1>2, AtIs, Sorted DEF Bound, Preparing, Viewing, Running, Same, Final
<1> QED BY <1>1, <1>2, <1>3, AtIs, SilentStep, Sorted

LEMMA RefuseKeeps ==
  ASSUME IInv, NEW k \in Keys, Refuse(k)
  PROVE  IInv'
<1>1. At(k, "viewed") /\ Return(k) /\ UNCHANGED <<env, files, admitted, history, faults>>
  BY DEF Refuse
<1> QED BY <1>1, AtIs, Returning, SilentStep, Sorted

LEMMA AdmitTimeoutKeeps ==
  ASSUME IInv, NEW k \in Keys, AdmitTimeout(k)
  PROVE  IInv'
<1>1. At(k, "admitting") /\ Settling(k, "none") /\ UNCHANGED <<env, files, history, faults>>
  BY DEF AdmitTimeout
<1>2. PICK c \in Call :
        CallIsNow(k, c) /\ Same(c, call[k]) /\ c.at = "settling" /\ c.result = "none"
  BY <1>1, AtIs, Settles
<1>3. Bound(k, c) /\ Preparing(c) /\ Viewing(c) /\ Running(c)
  BY <1>1, <1>2, AtIs, Sorted DEF Bound, Preparing, Viewing, Running, Same
<1>4. admitted' = admitted \ {k} BY <1>1, AtIs, Settles
<1> QED BY <1>1, <1>2, <1>3, <1>4, AtIs, SilentStep, Sorted DEF Executing

LEMMA ValidateKeeps ==
  ASSUME IInv, NEW k \in Keys, Validate(k)
  PROVE  IInv'
<1>1. At(k, "validating") /\ UNCHANGED <<env, files, history, faults>> BY DEF Validate
<1>2. CASE \E point \in {"claiming", "rejecting"} : Go(k, point) /\ UNCHANGED admitted
  <2>1. PICK point \in {"claiming", "rejecting"} : Go(k, point) /\ UNCHANGED admitted BY <1>2
  <2>2. PICK c \in Call : CallIsNow(k, c) /\ Same(c, call[k]) /\ c.at = point
    BY <1>1, <2>1, AtIs, Going DEF Points
  <2>3. Bound(k, c) /\ Preparing(c) /\ Viewing(c) /\ Running(c)
    BY <1>1, <2>2, AtIs, Sorted DEF Bound, Preparing, Viewing, Running, Same
  <2> QED BY <1>1, <2>1, <2>2, <2>3, AtIs, SilentStep, Sorted
<1>3. CASE Settling(k, "failed")
  <2>1. PICK c \in Call :
          CallIsNow(k, c) /\ Same(c, call[k]) /\ c.at = "settling" /\ c.result = "failed"
    BY <1>1, <1>3, AtIs, Settles
  <2>2. Bound(k, c) /\ Preparing(c) /\ Viewing(c) /\ Running(c)
    BY <1>1, <2>1, AtIs, Sorted DEF Bound, Preparing, Viewing, Running, Same
  <2>3. admitted' = admitted \ {k} BY <1>1, <1>3, AtIs, Settles
  <2> QED BY <1>1, <2>1, <2>2, <2>3, AtIs, SilentStep, Sorted
<1> QED BY <1>2, <1>3 DEF Validate

\* A claimed call goes on to another of the points where it is claimed.
LEMMA ClaimedGoes ==
  ASSUME IInv, NEW k \in Keys, UNCHANGED <<env, files, admitted, history, faults>>,
         NEW from \in Claimed \ {"completing"}, At(k, from),
         NEW c \in Call, CallIsNow(k, c), Same(c, call[k]), c.at \in Claimed \ {"completing"},
         Running(c)
  PROVE  IInv'
<1>1. Bound(k, c) /\ Preparing(c) /\ Viewing(c)
  BY AtIs, Sorted DEF Bound, Preparing, Viewing, Same
<1>2. call[k] # NoCall /\ k \in admitted BY AtIs, Sorted
<1>3. c # NoCall /\ c.op = call[k].op /\ admitted' = admitted BY NothingAssumption DEF Same
<1> QED BY <1>1, <1>2, <1>3, SilentStep

LEMMA CheckKeeps ==
  ASSUME IInv, NEW k \in Keys, Check(k)
  PROVE  IInv'
<1>1. At(k, "checking") /\ UNCHANGED <<env, files, admitted, history, faults>> BY DEF Check
<1>2. PICK point \in {"guarding", "failing"} : Go(k, point) BY DEF Check
<1>3. PICK c \in Call : CallIsNow(k, c) /\ Same(c, call[k]) /\ c.at = point
  BY <1>1, <1>2, AtIs, Going DEF Points
<1>4. call[k].op \notin applied BY <1>1, AtIs DEF IInv, Records, OpOK, Sent, Running
<1>5. Running(c) BY <1>1, <1>3, <1>4, AtIs, Sorted DEF Running, Same
<1> QED BY <1>1, <1>3, <1>5, ClaimedGoes, Sorted

LEMMA GuardKeeps ==
  ASSUME IInv, NEW k \in Keys, Guard(k)
  PROVE  IInv'
<1>1. At(k, "guarding") /\ UNCHANGED <<env, files, admitted, history, faults>> BY DEF Guard
<1>2. PICK point \in {"marking", "failing", "doubting"} : Go(k, point) BY DEF Guard
<1>3. PICK c \in Call : CallIsNow(k, c) /\ Same(c, call[k]) /\ c.at = point
  BY <1>1, <1>2, AtIs, Going DEF Points
<1>4. call[k].op \notin applied BY <1>1, AtIs DEF IInv, Records, OpOK, Sent, Running
<1>5. Running(c) BY <1>1, <1>3, <1>4, AtIs, Sorted DEF Running, Same
<1> QED BY <1>1, <1>3, <1>5, ClaimedGoes, Sorted

LEMMA NotSentKeeps ==
  ASSUME IInv, NEW k \in Keys, NotSent(k)
  PROVE  IInv'
<1>1. At(k, "sending") /\ UNCHANGED <<env, files, admitted, history, faults>> BY DEF NotSent
<1>2. PICK c \in Call :
        CallIsNow(k, c) /\ Same(c, call[k]) /\ c.at \in {"doubting", "failing"}
  <2>1. CASE Go(k, "doubting") BY <1>1, <2>1, AtIs, Going DEF Points
  <2>2. CASE call' = [call EXCEPT ![k].at = "failing", ![k].busy = TRUE]
    <3> DEFINE c == [call[k] EXCEPT !.at = "failing", !.busy = TRUE]
    <3>1. c \in Call /\ Same(c, call[k]) /\ c.at = "failing" BY <1>1, AtIs DEF Call, Points, Same
    <3>2. call' = [call EXCEPT ![k] = c] BY <2>2
    <3>3. CallIsNow(k, c) BY <1>1, <3>1, <3>2, AtIs, Calls
    <3> QED BY <3>1, <3>3
  <2> QED BY <2>1, <2>2 DEF NotSent
<1>4. call[k].op \notin applied BY <1>1, AtIs DEF IInv, Records, OpOK, Sent, Running
<1>5. Running(c) BY <1>1, <1>2, <1>4, AtIs, Sorted DEF Running, Same
<1> QED BY <1>1, <1>2, <1>5, ClaimedGoes, Sorted

LEMMA AnswerKeeps ==
  ASSUME IInv, NEW k \in Keys, Answer(k)
  PROVE  IInv'
<1>1. At(k, "writing") /\ UNCHANGED <<env, files, admitted, history, faults>> BY DEF Answer
<1>2. PICK point \in {"verifying", "doubting", "failing"} :
        /\ Go(k, point)
        /\ point = "verifying" => call[k].hit
        /\ point = "failing" => ~call[k].hit
  BY DEF Answer, NoAnswer
<1>3. PICK c \in Call :
        CallIsNow(k, c) /\ Same(c, call[k]) /\ c.at = point /\ c.busy = call[k].busy
  BY <1>1, <1>2, AtIs, Going DEF Points
<1>5. Running(c) BY <1>1, <1>2, <1>3, AtIs, Sorted DEF Running, Same
<1> QED BY <1>1, <1>3, <1>5, ClaimedGoes, Sorted

(* How a record moves *)

\* A record becomes r, or the write failed and it stays.
OneMoves(o, r) ==
  /\ ops' \in [Ops -> OperationRecord \cup {NoOp}]
  /\ ops'[o] = ops[o] \/ ops'[o] = r
  /\ \A q \in Ops \ {o} : ops'[q] = ops[q]

LEMMA Stays ==
  ASSUME IInv, NEW o \in Prepared, UNCHANGED <<ops, given, consent, writes, applied>>
  PROVE  Kept(o) /\ OpOK(o)'
<1>1. TypeOK /\ OpOK(o) /\ o \in Ops /\ ops[o] # NoOp BY PreparedIs DEF IInv, Records
<1>2. Kept(o) BY <1>1 DEF Kept, TypeOK
<1>3. Sent(o) => Sent(o)' BY DEF Sent
<1>4. Consented(o) => Consented(o)' BY DEF Consented, GivenUpTo
<1>5. o \in Prepared' BY <1>1 DEF Prepared
<1> QED BY <1>1, <1>2, <1>3, <1>4, <1>5 DEF OpOK

\* An operation that was not claimed ends.
LEMMA EndsUnsent ==
  ASSUME IInv, NEW o \in Prepared, ops[o].status \in {"awaiting", "queued"},
         UNCHANGED <<given, consent, writes, applied>>,
         NEW r \in OperationRecord, OneMoves(o, r), r.key = ops[o].key, r.perm = ops[o].perm,
         r.status \in {"failed", "expired", "cancelled"}, r.tries = ops[o].tries, ~r.busy,
         r.again => r.status \in {"failed", "expired"}
  PROVE  Kept(o) /\ OpOK(o)'
<1>1. TypeOK /\ OpOK(o) /\ o \in Ops /\ ops[o] # NoOp /\ r # NoOp /\ writes[o] \in Nat
  BY PreparedIs, NothingAssumption DEF IInv, Records, TypeOK
<1>2. Kept(o) BY <1>1 DEF Kept, OneMoves, Final
<1>3. o \in Prepared' BY <1>1, <1>2 DEF Prepared, Kept
<1>4. Sent(o) /\ Consented(o) BY <1>1 DEF OpOK
<1>5. CASE ops'[o] = ops[o] BY <1>2, <1>3, <1>4, <1>5 DEF OpOK, Sent, Consented, GivenUpTo
<1>6. CASE ops'[o] = r
  <2>1. writes[o] = 0 /\ o \notin applied BY <1>4 DEF Sent
  <2>2. Sent(o)' BY <1>4, <1>6, <2>1 DEF Sent, Begun
  <2>3. Consented(o)' BY <1>6, <2>1 DEF Consented, InFlight
  <2> QED BY <1>2, <1>3, <2>2, <2>3 DEF OpOK
<1> QED BY <1>2, <1>5, <1>6 DEF OneMoves

LEMMA DoubtsIt ==
  ASSUME IInv, NEW o \in Prepared, MayDoubt(o), UNCHANGED <<given, consent, writes, applied>>,
         OneMoves(o, Doubted(ops[o]))
  PROVE  Kept(o) /\ OpOK(o)'
<1>1. /\ TypeOK /\ OpOK(o) /\ o \in Ops /\ ops[o] # NoOp /\ writes[o] \in Nat
      /\ ops[o] \in OperationRecord
  BY PreparedIs DEF IInv, Records, TypeOK
<1> DEFINE r == Doubted(ops[o])
<1>2. /\ r \in OperationRecord /\ r.key = ops[o].key /\ r.perm = ops[o].perm
      /\ r.status = "unknown"
      /\ r = ops[o] \/ (r.tries >= 1 /\ ~r.again /\ ~r.busy)
  BY <1>1, DoubtedIs
<1>3. ops[o].status # "unknown" => ops[o].status \in InFlight BY DEF MayDoubt
<1>4. ops[o].status = "unknown" => r = ops[o] BY DEF Doubted
<1> HIDE DEF r
<1>5. ops'[o] = ops[o] \/ ops'[o] = r BY DEF OneMoves, r
<1>6. Kept(o)
  BY <1>1, <1>2, <1>3, <1>4, <1>5, NothingAssumption DEF Kept, OneMoves, Final, InFlight
<1>7. o \in Prepared' BY <1>1, <1>6 DEF Prepared, Kept
<1>8. Sent(o) /\ Consented(o) BY <1>1 DEF OpOK
<1>9. CASE ops'[o] = ops[o] BY <1>6, <1>7, <1>8, <1>9 DEF OpOK, Sent, Consented, GivenUpTo
<1>10. CASE ops'[o] = r /\ r # ops[o]
  <2>1. r.tries \in Nat BY <1>2 DEF OperationRecord
  <2>2. Sent(o)' BY <1>2, <1>8, <1>10, <2>1 DEF Sent, Begun
  <2>3. Consented(o)' BY <1>2, <1>3, <1>4, <1>8, <1>10 DEF Consented, GivenUpTo
  <2> QED BY <1>6, <1>7, <2>2, <2>3 DEF OpOK
<1> QED BY <1>5, <1>6, <1>9, <1>10

\* A claimed operation goes on: it has what it needs where it goes.
LEMMA Advances ==
  ASSUME IInv, NEW o \in Prepared, ops[o].status \in InFlight,
         UNCHANGED <<given, consent, writes, applied>>,
         NEW r \in OperationRecord, OneMoves(o, r), r.key = ops[o].key, r.perm = ops[o].perm,
         r.status \in {"running", "verifying", "succeeded", "failed"},
         r.tries >= ops[o].tries, r.status \in InRun => r.tries >= 1,
         ~r.again, r.busy => r.status = "failed" /\ writes[o] = 0,
         r.status = "failed" => o \notin applied, r.status = "succeeded" => o \in applied
  PROVE  Kept(o) /\ OpOK(o)'
<1>1. /\ TypeOK /\ OpOK(o) /\ o \in Ops /\ ops[o] # NoOp /\ r # NoOp /\ writes[o] \in Nat
      /\ r.tries \in Nat /\ ops[o].tries \in Nat
  BY PreparedIs, NothingAssumption DEF IInv, Records, TypeOK, OperationRecord
<1>2. Kept(o) BY <1>1 DEF Kept, OneMoves, Final, InFlight
<1>3. o \in Prepared' BY <1>1, <1>2 DEF Prepared, Kept
<1>4. Sent(o) /\ Consented(o) BY <1>1 DEF OpOK
<1>5. CASE ops'[o] = ops[o] BY <1>2, <1>3, <1>4, <1>5 DEF OpOK, Sent, Consented, GivenUpTo
<1>6. CASE ops'[o] = r
  <2>1. r.tries = 0 => writes[o] = 0 BY <1>1, <1>4 DEF Sent
  <2>2. Sent(o)' BY <1>1, <1>4, <1>6, <2>1 DEF Sent, Begun, InRun
  <2>3. Consented(o)' BY <1>4, <1>6 DEF Consented, GivenUpTo, InFlight
  <2> QED BY <1>2, <1>3, <2>2, <2>3 DEF OpOK
<1> QED BY <1>2, <1>5, <1>6 DEF OneMoves

LEMMA WritesOne ==
  ASSUME TypeOK, NEW o \in Ops, NEW r \in OperationRecord, WriteOp(o, r) \/ WriteOpFails(o, r)
  PROVE  OneMoves(o, r) /\ faults' \in Nat /\ (faults' = 0 => faults = 0 /\ ops'[o] = r)
BY Writes DEF OneMoves

(* The steps that move a record *)

\* A call that executes gets its result: its operation does not run any more.
LEMMA Leaves ==
  ASSUME IInv, NEW k \in Keys, NEW from \in Executing, At(k, from), NEW o, o = call[k].op,
         UNCHANGED <<env, ledger, history>>, Kept(o), OpOK(o)',
         faults' \in Nat, faults' = 0 => faults = 0,
         NEW result \in {"none", "failed", "unknown", "succeeded"}, Settling(k, result),
         result = "succeeded" => o \in applied,
         faults' = 0 /\ ops'[o].status \in InRun => ops[o].status \in InRun /\ from \notin Claimed
  PROVE  IInv'
<1>1. PICK c \in Call :
        CallIsNow(k, c) /\ Same(c, call[k]) /\ c.at = "settling" /\ c.result = result
  BY AtIs, Settles
<1>2. admitted' = admitted \ {k} BY AtIs, Settles
<1>3. /\ TypeOK /\ call[k] # NoCall /\ call[k].at = from /\ o \in Prepared /\ ops[o].key = k
      /\ c.op = o /\ Bound(k, call[k]) /\ "settling" \notin Executing /\ from # "look"
      /\ from # "binding"
  BY <1>1, AtIs, Sorted DEF Same
<1>4. Bound(k, c) BY <1>1, <1>3 DEF Bound, Same
<1>5. Viewing(c)' BY <1>1 DEF Viewing
<1>6. Running(c)' BY <1>1, <1>3, Sorted DEF Running, history
<1>7. UNCHANGED <<consent, writes, applied, told, given>> /\ given \subseteq Ops \X Nat
  BY <1>3 DEF history, TypeOK
<1> QED BY <1>1, <1>2, <1>3, <1>4, <1>5, <1>6, <1>7, RecordStep

LEMMA RejectKeeps ==
  ASSUME IInv, NEW k \in Keys, Reject(k)
  PROVE  IInv'
<1>1. /\ At(k, "rejecting") /\ UNCHANGED <<env, ledger, history>>
      /\ UNCHANGED <<given, consent, writes, applied>>
  BY DEF Reject, history
<1>2. PICK o : o = call[k].op
  OBVIOUS
<1>3. /\ TypeOK /\ o \in Prepared /\ o \in Ops /\ ops[o] \in OperationRecord
      /\ "rejecting" \in Executing \ Claimed
  BY <1>1, <1>2, AtIs, Sorted
<1> DEFINE r == [Moved(ops[o], "failed") EXCEPT !.again = TRUE]
<1>4. /\ r \in OperationRecord /\ r.key = ops[o].key /\ r.perm = ops[o].perm
      /\ r.status = "failed" /\ r.tries = ops[o].tries /\ ~r.busy
  <2>1. PICK m \in OperationRecord :
          /\ m = Moved(ops[o], "failed") /\ m.key = ops[o].key /\ m.perm = ops[o].perm
          /\ m.status = "failed" /\ m.tries = ops[o].tries /\ ~m.busy
    BY <1>3, MovedIs DEF Statuses
  <2>2. r = [m EXCEPT !.again = TRUE] BY <2>1
  <2> QED BY <2>1, <2>2 DEF OperationRecord
<1>5. CASE ops[o].status = "queued" /\ (WriteOp(o, r) \/ WriteOpFails(o, r))
           /\ \E result \in {"failed", "unknown"} : Settling(k, result)
  <2> HIDE DEF r
  <2>1. PICK result \in {"failed", "unknown"} : Settling(k, result) BY <1>5
  <2>2. OneMoves(o, r) /\ faults' \in Nat /\ (faults' = 0 => faults = 0 /\ ops'[o] = r)
    BY <1>3, <1>4, <1>5, WritesOne
  <2>3. Kept(o) /\ OpOK(o)' BY <1>1, <1>3, <1>4, <1>5, <2>2, EndsUnsent
  <2> QED BY <1>1, <1>2, <1>3, <1>4, <2>1, <2>2, <2>3, Leaves DEF InRun
<1>6. CASE ops[o].status # "queued" /\ UNCHANGED <<ops, faults>> /\ Settling(k, "unknown")
  <2>1. Kept(o) /\ OpOK(o)' BY <1>1, <1>3, <1>6, Stays
  <2>2. faults' \in Nat BY <1>3, <1>6 DEF TypeOK
  <2> QED BY <1>1, <1>2, <1>3, <1>6, <2>1, <2>2, Leaves
<1> QED BY <1>2, <1>5, <1>6 DEF Reject

LEMMA FailKeeps ==
  ASSUME IInv, NEW k \in Keys, Fail(k)
  PROVE  IInv'
<1>1. /\ At(k, "failing") /\ UNCHANGED <<env, ledger, history>>
      /\ UNCHANGED <<given, consent, writes, applied>>
  BY DEF Fail, history
<1>2. PICK o : o = call[k].op
  OBVIOUS
<1>3. /\ TypeOK /\ o \in Prepared /\ o \in Ops /\ ops[o] \in OperationRecord
      /\ "failing" \in Executing /\ call[k].busy \in BOOLEAN
      /\ o \notin applied /\ (call[k].busy => writes[o] = 0)
      /\ ops[o].status \in {"running", "unknown"}
  BY <1>1, <1>2, AtIs, Sorted DEF Running, Call
<1> DEFINE r == [Moved(ops[o], "failed") EXCEPT !.busy = call[k].busy]
<1>4. /\ r \in OperationRecord /\ r.key = ops[o].key /\ r.perm = ops[o].perm
      /\ r.status = "failed" /\ r.tries = ops[o].tries /\ r.tries \in Nat
      /\ ~r.again /\ r.busy = call[k].busy
  BY <1>3, MovedIs DEF OperationRecord, Statuses
<1>5. CASE ops[o].status \in InFlight /\ (WriteOp(o, r) \/ WriteOpFails(o, r))
           /\ \E result \in {"failed", "unknown"} : Settling(k, result)
  <2> HIDE DEF r
  <2>1. PICK result \in {"failed", "unknown"} : Settling(k, result) BY <1>5
  <2>2. OneMoves(o, r) /\ faults' \in Nat /\ (faults' = 0 => faults = 0 /\ ops'[o] = r)
    BY <1>3, <1>4, <1>5, WritesOne
  <2>3. Kept(o) /\ OpOK(o)' BY <1>1, <1>3, <1>4, <1>5, <2>2, Advances DEF InRun
  <2> QED BY <1>1, <1>2, <1>3, <1>4, <2>1, <2>2, <2>3, Leaves DEF InRun
<1>6. CASE ops[o].status \notin InFlight /\ UNCHANGED <<ops, faults>> /\ Settling(k, "unknown")
  <2>1. Kept(o) /\ OpOK(o)' BY <1>1, <1>3, <1>6, Stays
  <2>2. faults' \in Nat BY <1>3, <1>6 DEF TypeOK
  <2>3. ops'[o].status \notin InRun BY <1>6 DEF InRun, InFlight
  <2> QED BY <1>1, <1>2, <1>3, <1>6, <2>1, <2>2, <2>3, Leaves
<1> QED BY <1>2, <1>5, <1>6 DEF Fail

LEMMA DoubtKeeps ==
  ASSUME IInv, NEW k \in Keys, Doubt(k)
  PROVE  IInv'
<1>1. /\ At(k, "doubting") /\ UNCHANGED <<env, ledger, history>> /\ Settling(k, "unknown")
      /\ UNCHANGED <<given, consent, writes, applied>>
  BY DEF Doubt, history
<1>2. PICK o : o = call[k].op
  OBVIOUS
<1>3. /\ TypeOK /\ o \in Prepared /\ o \in Ops /\ ops[o] \in OperationRecord
      /\ "doubting" \in Executing /\ ops[o].status \in {"running", "unknown"}
  BY <1>1, <1>2, AtIs, Sorted DEF Running
<1>4. /\ MayDoubt(o) /\ Doubted(ops[o]) \in OperationRecord
      /\ Doubted(ops[o]).status = "unknown"
  BY <1>3, DoubtedIs DEF MayDoubt, InFlight
<1>5. WriteOp(o, Doubted(ops[o])) \/ WriteOpFails(o, Doubted(ops[o])) BY <1>2, <1>4 DEF Doubt
<1>6. /\ OneMoves(o, Doubted(ops[o])) /\ faults' \in Nat
      /\ faults' = 0 => faults = 0 /\ ops'[o] = Doubted(ops[o])
  BY <1>3, <1>4, <1>5, WritesOne
<1>7. Kept(o) /\ OpOK(o)' BY <1>1, <1>3, <1>4, <1>6, DoubtsIt
<1> QED BY <1>1, <1>2, <1>3, <1>4, <1>6, <1>7, Leaves DEF InRun

LEMMA MarkVerifyingKeeps ==
  ASSUME IInv, NEW k \in Keys, MarkVerifying(k)
  PROVE  IInv'
<1>1. /\ At(k, "verifying") /\ UNCHANGED <<env, ledger, history>>
      /\ UNCHANGED <<given, consent, writes, applied, told>>
  BY DEF MarkVerifying, history
<1>2. PICK o : o = call[k].op
  OBVIOUS
<1>3. /\ TypeOK /\ o \in Prepared /\ o \in Ops /\ ops[o] \in OperationRecord
      /\ "verifying" \in Executing /\ o \in applied
      /\ ops[o].status \in {"running", "unknown"} /\ ops[o].tries \in Nat
      /\ given \subseteq Ops \X Nat
  BY <1>1, <1>2, AtIs, Sorted DEF Running, OperationRecord, TypeOK
<1> DEFINE r == Moved(ops[o], "verifying")
<1>4. /\ r \in OperationRecord /\ r.key = ops[o].key /\ r.perm = ops[o].perm
      /\ r.status = "verifying" /\ r.tries = ops[o].tries /\ ~r.again /\ ~r.busy
  BY <1>3, MovedIs DEF Statuses
<1>5. CASE ops[o].status = "running" /\ (WriteOp(o, r) \/ WriteOpFails(o, r))
  <2> HIDE DEF r
  <2>1. OneMoves(o, r) /\ faults' \in Nat /\ (faults' = 0 => faults = 0 /\ ops'[o] = r)
    BY <1>3, <1>4, <1>5, WritesOne
  <2>2. ops[o].tries >= 1 BY <1>3, <1>5 DEF IInv, Records, OpOK, Sent, Begun
  <2>3. Kept(o) /\ OpOK(o)' BY <1>1, <1>3, <1>4, <1>5, <2>1, <2>2, Advances DEF InRun, InFlight
  <2>4. CASE WriteOp(o, r) /\ Go(k, "completing") /\ UNCHANGED admitted
    <3>1. PICK c \in Call : CallIsNow(k, c) /\ Same(c, call[k]) /\ c.at = "completing"
      BY <1>1, <2>4, AtIs, Going DEF Points
    <3>2. ops'[o] = r BY <1>3, <1>4, <2>4, Written
    <3>3. c.op = o /\ k \in admitted /\ call[k].at = "verifying" /\ ops[o].key = k
          /\ call[k] # NoCall /\ c # NoCall
      BY <1>1, <1>2, <3>1, AtIs, Sorted, NothingAssumption DEF Same
    <3>4. Bound(k, c) BY <1>1, <3>1, AtIs, Sorted DEF Bound, Same
    <3>5. Viewing(c)' /\ Running(c)' BY <1>1, <1>3, <1>4, <3>1, <3>2, <3>3 DEF Viewing, Running
    <3>6. "completing" \in Claimed BY Sorted
    <3> QED BY <1>1, <1>2, <1>3, <2>1, <2>3, <2>4, <3>1, <3>3, <3>4, <3>5, <3>6, RecordStep
  <2>5. CASE WriteOpFails(o, r) /\ Settling(k, "unknown")
    <3>1. faults' # 0 BY <1>3, <2>5 DEF WriteOpFails, TypeOK
    <3> QED BY <1>1, <1>2, <1>3, <2>1, <2>3, <2>5, <3>1, Leaves
  <2> QED BY <1>2, <1>5, <2>4, <2>5 DEF MarkVerifying, r
<1>6. CASE ops[o].status # "running" /\ UNCHANGED <<ops, faults>> /\ Settling(k, "unknown")
  <2>1. Kept(o) /\ OpOK(o)' BY <1>1, <1>3, <1>6, Stays
  <2>2. faults' \in Nat BY <1>3, <1>6 DEF TypeOK
  <2>3. ops'[o].status \notin InRun BY <1>3, <1>6 DEF InRun
  <2> QED BY <1>1, <1>2, <1>3, <1>6, <2>1, <2>2, <2>3, Leaves
<1> QED BY <1>2, <1>5, <1>6 DEF MarkVerifying

LEMMA CompleteKeeps ==
  ASSUME IInv, NEW k \in Keys, Complete(k)
  PROVE  IInv'
<1>1. /\ At(k, "completing") /\ UNCHANGED <<env, ledger, history>>
      /\ UNCHANGED <<given, consent, writes, applied>>
  BY DEF Complete, history
<1>2. PICK o : o = call[k].op
  OBVIOUS
<1>3. /\ TypeOK /\ o \in Prepared /\ o \in Ops /\ ops[o] \in OperationRecord
      /\ "completing" \in Executing /\ o \in applied
      /\ ops[o].status \in {"verifying", "unknown"}
  BY <1>1, <1>2, AtIs, Sorted DEF Running
<1> DEFINE r == Moved(ops[o], "succeeded")
<1>4. /\ r \in OperationRecord /\ r.key = ops[o].key /\ r.perm = ops[o].perm
      /\ r.status = "succeeded" /\ r.tries = ops[o].tries /\ r.tries \in Nat
      /\ ~r.again /\ ~r.busy
  BY <1>3, MovedIs DEF OperationRecord, Statuses
<1>5. CASE ops[o].status \in {"running", "verifying"} /\ (WriteOp(o, r) \/ WriteOpFails(o, r))
           /\ \E result \in {"succeeded", "unknown"} : Settling(k, result)
  <2> HIDE DEF r
  <2>1. PICK result \in {"succeeded", "unknown"} : Settling(k, result) BY <1>5
  <2>2. OneMoves(o, r) /\ faults' \in Nat /\ (faults' = 0 => faults = 0 /\ ops'[o] = r)
    BY <1>3, <1>4, <1>5, WritesOne
  <2>3. Kept(o) /\ OpOK(o)' BY <1>1, <1>3, <1>4, <1>5, <2>2, Advances DEF InRun, InFlight
  <2> QED BY <1>1, <1>2, <1>3, <1>4, <2>1, <2>2, <2>3, Leaves DEF InRun
<1>6. CASE ops[o].status \notin {"running", "verifying"} /\ UNCHANGED <<ops, faults>>
           /\ Settling(k, "unknown")
  <2>1. Kept(o) /\ OpOK(o)' BY <1>1, <1>3, <1>6, Stays
  <2>2. faults' \in Nat BY <1>3, <1>6 DEF TypeOK
  <2> QED BY <1>1, <1>2, <1>3, <1>6, <2>1, <2>2, Leaves DEF InRun
<1> QED BY <1>2, <1>5, <1>6 DEF Complete

LEMMA ClaimKeeps ==
  ASSUME IInv, NEW k \in Keys, Claim(k)
  PROVE  IInv'
<1>1. /\ At(k, "claiming") /\ UNCHANGED <<env, ledger, history>>
      /\ UNCHANGED <<given, consent, writes, applied, told>>
  BY DEF Claim, history
<1>2. PICK o : o = call[k].op
  OBVIOUS
<1>3. /\ TypeOK /\ o \in Prepared /\ o \in Ops /\ ops[o] \in OperationRecord
      /\ "claiming" \in Executing \ Claimed /\ ops[o].tries \in Nat
      /\ given \subseteq Ops \X Nat
  BY <1>1, <1>2, AtIs, Sorted DEF OperationRecord, TypeOK
<1> DEFINE r == [Moved(ops[o], "running") EXCEPT !.tries = @ + 1]
<1>4. CASE ops[o].status = "queued" /\ (WriteOp(o, r) \/ WriteOpFails(o, r))
  <2>1. PICK m \in OperationRecord :
          /\ m = Moved(ops[o], "running") /\ m.key = ops[o].key /\ m.perm = ops[o].perm
          /\ m.status = "running" /\ m.tries = ops[o].tries /\ ~m.again /\ ~m.busy
    BY <1>3, MovedIs DEF Statuses
  <2>2. r = [m EXCEPT !.tries = @ + 1] BY <2>1
  <2>3. /\ r \in OperationRecord /\ r.key = ops[o].key /\ r.perm = ops[o].perm
        /\ r.status = "running" /\ r.tries = ops[o].tries + 1 /\ ~r.again /\ ~r.busy
    BY <2>1, <2>2 DEF OperationRecord
  <2> HIDE DEF r
  <2>4. OneMoves(o, r) /\ faults' \in Nat /\ (faults' = 0 => faults = 0 /\ ops'[o] = r)
    BY <1>3, <1>4, <2>3, WritesOne
  <2>5. writes[o] = 0 /\ ops[o].status \in InFlight
    BY <1>3, <1>4 DEF IInv, Records, OpOK, Sent, InFlight
  <2>6. Kept(o) /\ OpOK(o)' BY <1>1, <1>3, <1>4, <2>3, <2>4, <2>5, Advances DEF InRun, InFlight
  <2>7. CASE WriteOp(o, r) /\ Go(k, "checking") /\ UNCHANGED admitted
    <3>1. PICK c \in Call : CallIsNow(k, c) /\ Same(c, call[k]) /\ c.at = "checking"
      BY <1>1, <2>7, AtIs, Going DEF Points
    <3>2. ops'[o] = r BY <1>3, <2>3, <2>7, Written
    <3>3. c.op = o /\ k \in admitted /\ call[k].at = "claiming" /\ ops[o].key = k
          /\ call[k] # NoCall /\ c # NoCall
      BY <1>1, <1>2, <3>1, AtIs, Sorted, NothingAssumption DEF Same
    <3>4. Bound(k, c) BY <1>1, <3>1, AtIs, Sorted DEF Bound, Same
    <3>5. Viewing(c)' /\ Running(c)'
      BY <1>1, <1>3, <2>3, <2>5, <3>1, <3>2, <3>3 DEF Viewing, Running
    <3>6. "checking" \in Claimed BY Sorted
    <3> QED BY <1>1, <1>2, <1>3, <2>4, <2>6, <2>7, <3>1, <3>3, <3>4, <3>5, <3>6, RecordStep
  <2>8. CASE WriteOpFails(o, r) /\ Settling(k, "failed")
    <3>1. faults' # 0 BY <1>3, <2>8 DEF WriteOpFails, TypeOK
    <3> QED BY <1>1, <1>2, <1>3, <2>4, <2>6, <2>8, <3>1, Leaves
  <2>9. ops[o].status = "queued" /\ ~PolicyHolds(ops[o]) =>
          (WriteOp(o, Refused(ops[o])) \/ WriteOpFails(o, Refused(ops[o])))
            /\ Settling(k, "failed")
    BY <1>2 DEF Claim
  <2> HIDE <2>9
  <2>10. CASE PolicyHolds(ops[o]) BY <1>2, <1>4, <2>7, <2>8, <2>10 DEF Claim, r
  <2>11. CASE ~PolicyHolds(ops[o])
    <3> DEFINE s == Refused(ops[o])
    <3>1. (WriteOp(o, s) \/ WriteOpFails(o, s)) /\ Settling(k, "failed") BY <1>4, <2>9, <2>11
    <3>2. /\ s \in OperationRecord /\ s.key = ops[o].key /\ s.perm = ops[o].perm
          /\ s.status = "failed" /\ s.tries = ops[o].tries /\ ~s.busy
      BY <1>3, RefusedIs
    <3> HIDE DEF s
    <3>3. OneMoves(o, s) /\ faults' \in Nat /\ (faults' = 0 => faults = 0 /\ ops'[o] = s)
      BY <1>3, <3>1, <3>2, WritesOne
    <3>4. Kept(o) /\ OpOK(o)' BY <1>1, <1>3, <1>4, <3>2, <3>3, EndsUnsent
    <3> QED BY <1>1, <1>2, <1>3, <3>1, <3>2, <3>3, <3>4, Leaves DEF InRun
  <2> QED BY <2>10, <2>11
<1>5. CASE /\ ops[o].status = "queued"
           /\ WriteOp(o, Refused(ops[o])) \/ WriteOpFails(o, Refused(ops[o]))
           /\ Settling(k, "failed")
  <2> DEFINE s == Refused(ops[o])
  <2>1. /\ s \in OperationRecord /\ s.key = ops[o].key /\ s.perm = ops[o].perm
        /\ s.status = "failed" /\ s.tries = ops[o].tries /\ ~s.busy
    BY <1>3, RefusedIs
  <2> HIDE DEF s
  <2>2. OneMoves(o, s) /\ faults' \in Nat /\ (faults' = 0 => faults = 0 /\ ops'[o] = s)
    BY <1>3, <1>5, <2>1, WritesOne DEF s
  <2>3. Kept(o) /\ OpOK(o)' BY <1>1, <1>3, <1>5, <2>1, <2>2, EndsUnsent
  <2> QED BY <1>1, <1>2, <1>3, <1>5, <2>1, <2>2, <2>3, Leaves DEF InRun
<1>6. CASE ops[o].status # "queued" /\ UNCHANGED <<ops, faults>> /\ Settling(k, "failed")
  <2>1. Kept(o) /\ OpOK(o)' BY <1>1, <1>3, <1>6, Stays
  <2>2. faults' \in Nat BY <1>3, <1>6 DEF TypeOK
  <2> QED BY <1>1, <1>2, <1>3, <1>6, <2>1, <2>2, Leaves
<1> QED BY <1>2, <1>4, <1>5, <1>6 DEF Claim

\* A call ends at its first look, after it has moved the record.
LEMMA LooksAndEnds ==
  ASSUME IInv, NEW k \in Keys, NEW from \in {"look", "viewed"}, At(k, from),
         NEW o \in Prepared, ops[o].key = k,
         UNCHANGED <<env, ledger, admitted, consent, writes, applied, told>>,
         Kept(o), OpOK(o)', faults' \in Nat, faults' = 0 => faults = 0,
         given' \subseteq Ops \X Nat, \A g \in given' : g \in given \/ g[1] = o,
         Return(k),
         faults' = 0 /\ ops'[o].status \in InRun => ops[o].status \in InRun
  PROVE  IInv'
<1>1. CallIsNow(k, NoCall) /\ call[k] # NoCall /\ call[k].at \notin Claimed
  BY AtIs, Returning, Sorted
<1> QED BY <1>1, RecordStep

LEMMA GiveUpKeeps ==
  ASSUME IInv, NEW k \in Keys, GiveUp(k)
  PROVE  IInv'
<1>1. /\ At(k, "viewed") /\ UNCHANGED <<env, ledger, admitted, history>> /\ Return(k)
      /\ UNCHANGED <<given, consent, writes, applied, told>>
  BY DEF GiveUp, history
<1>2. PICK o : o = call[k].op
  OBVIOUS
<1>3. /\ TypeOK /\ o \in Prepared /\ o \in Ops /\ ops[o] \in OperationRecord
      /\ ops[o].key = k /\ given \subseteq Ops \X Nat
  BY <1>1, <1>2, AtIs DEF TypeOK
<1>4. CASE /\ MayDoubt(o)
           /\ WriteOp(o, Doubted(ops[o])) \/ WriteOpFails(o, Doubted(ops[o]))
  <2>1. Doubted(ops[o]) \in OperationRecord /\ Doubted(ops[o]).status = "unknown"
    BY <1>3, DoubtedIs
  <2>2. /\ OneMoves(o, Doubted(ops[o])) /\ faults' \in Nat
        /\ faults' = 0 => faults = 0 /\ ops'[o] = Doubted(ops[o])
    BY <1>3, <1>4, <2>1, WritesOne
  <2>3. Kept(o) /\ OpOK(o)' BY <1>1, <1>3, <1>4, <2>2, DoubtsIt
  <2> QED BY <1>1, <1>3, <2>1, <2>2, <2>3, LooksAndEnds DEF InRun
<1>5. CASE UNCHANGED <<ops, faults>>
  <2>1. Kept(o) /\ OpOK(o)' /\ faults' \in Nat BY <1>1, <1>3, <1>5, Stays DEF TypeOK
  <2> QED BY <1>1, <1>3, <1>5, <2>1, LooksAndEnds
<1> QED BY <1>2, <1>4, <1>5 DEF GiveUp

LEMMA RenewKeeps ==
  ASSUME IInv, NEW k \in Keys, Renew(k)
  PROVE  IInv'
<1>1. /\ At(k, "viewed") /\ Return(k)
      /\ UNCHANGED <<env, ledger, admitted, consent, writes, applied, told>>
  BY DEF Renew
<1>2. PICK o : o = call[k].op
  OBVIOUS
<1>3. /\ TypeOK /\ o \in Prepared /\ o \in Ops /\ ops[o] \in OperationRecord
      /\ ops[o].key = k /\ given \subseteq Ops \X Nat /\ ops[o].challenge \in Nat
      /\ Sent(o) /\ Consented(o) /\ ops[o] # NoOp
  BY <1>1, <1>2, AtIs, PreparedIs DEF TypeOK, OperationRecord, IInv, Records, OpOK
<1>4. CASE UNCHANGED <<ops, faults, given>>
  <2>1. Kept(o) /\ OpOK(o)' /\ faults' \in Nat BY <1>1, <1>3, <1>4, Stays DEF TypeOK
  <2> QED BY <1>1, <1>3, <1>4, <2>1, LooksAndEnds
<1> DEFINE r == [ops[o] EXCEPT !.challenge = @ + 1]
<1>5. CASE /\ ops[o].status = "awaiting"
           /\ \/ WriteOp(o, r) /\ given' = given \cup {<<o, r.challenge>>}
              \/ WriteOpFails(o, r) /\ UNCHANGED given
  <2>1. /\ r \in OperationRecord /\ r.key = ops[o].key /\ r.perm = ops[o].perm
        /\ r.status = "awaiting" /\ r.tries = ops[o].tries /\ r.again = ops[o].again
        /\ r.busy = ops[o].busy /\ r.challenge = ops[o].challenge + 1 /\ r # NoOp
    BY <1>3, <1>5, NothingAssumption DEF OperationRecord
  <2> HIDE DEF r
  <2>2. OneMoves(o, r) /\ faults' \in Nat /\ (faults' = 0 => faults = 0 /\ ops'[o] = r)
    BY <1>3, <1>5, <2>1, WritesOne
  <2>3. Kept(o) BY <1>3, <1>5, <2>1, <2>2 DEF Kept, OneMoves, Final
  <2>4. /\ given' = given \/ (given' = given \cup {<<o, r.challenge>>} /\ ops'[o] = r)
        /\ given' \subseteq Ops \X Nat
    <3>1. CASE WriteOp(o, r) /\ given' = given \cup {<<o, r.challenge>>}
      BY <1>3, <2>1, <3>1, Written
    <3>2. CASE given' = given BY <1>3, <3>2
    <3> QED BY <1>5, <3>1, <3>2
  <2>5. ops'[o].status = "awaiting" /\ ops'[o].tries = ops[o].tries
        /\ ops'[o].again = ops[o].again /\ ops'[o].busy = ops[o].busy
        /\ ops'[o].perm = ops[o].perm
    BY <1>5, <2>1, <2>2 DEF OneMoves
  <2>6. Sent(o)' BY <1>1, <1>3, <1>5, <2>5 DEF Sent, Begun
  <2>7. /\ ops'[o].challenge >= ops[o].challenge
        /\ \A g \in given' : g[1] = o => g[2] <= ops'[o].challenge
    <3>1. ops[o].challenge >= 1 /\ GivenUpTo(o, ops[o].challenge) BY <1>3, <1>5 DEF Consented
    <3>2. \A g \in given : g[2] \in Nat BY <1>3
    <3>3. \A g \in given : g[1] = o => g[2] <= ops[o].challenge BY <3>1 DEF GivenUpTo
    <3>4. CASE ops'[o] = r BY <1>3, <2>1, <2>4, <3>2, <3>3, <3>4
    <3>5. CASE given' = given /\ ops'[o] = ops[o] BY <1>3, <3>3, <3>5
    <3> QED BY <2>2, <2>4, <3>4, <3>5 DEF OneMoves
  <2>8. Consented(o)'
    <3>1. ops[o].perm = "confirm" /\ ops[o].challenge >= 1 /\ writes[o] = 0
      BY <1>3, <1>5 DEF Consented, Sent
    <3>2. ops'[o].challenge \in Nat BY <1>3, <2>1, <2>2 DEF OneMoves, OperationRecord
    <3> QED BY <1>1, <1>3, <2>5, <2>7, <3>1, <3>2 DEF Consented, GivenUpTo, InFlight
  <2>9. OpOK(o)' BY <2>3, <2>6, <2>8, <1>3 DEF OpOK, Prepared, Kept
  <2>10. ops'[o].status \notin InRun BY <2>5 DEF InRun
  <2> QED BY <1>1, <1>3, <2>2, <2>3, <2>4, <2>9, <2>10, LooksAndEnds
<1> QED BY <1>2, <1>4, <1>5 DEF Renew

LEMMA LookKeeps ==
  ASSUME IInv, NEW k \in Keys, Look(k)
  PROVE  IInv'
<1>1. /\ At(k, "look") /\ ledger[k] # NoLedger /\ UNCHANGED <<env, ledger, admitted, history>>
      /\ UNCHANGED <<given, consent, writes, applied, told>>
  BY DEF Look, history
<1>2. PICK o : o = ledger[k].op
  OBVIOUS
<1>3. o \in Prepared /\ ops[o].key = k /\ (ops[o].status \notin Final => Newest(o))
  BY <1>1, <1>2 DEF IInv, Records, LedgerOK
<1>4. /\ TypeOK /\ o \in Ops /\ ops[o] \in OperationRecord /\ given \subseteq Ops \X Nat
      /\ call[k] \in Call /\ call[k] # NoCall /\ call[k].at = "look" /\ Bound(k, call[k])
  BY <1>1, <1>3, AtIs, PreparedIs DEF TypeOK
<1> DEFINE r == IF IsLate(o) THEN Expired(ops[o]) ELSE ops[o]
<1>5. r \in OperationRecord /\ (~IsLate(o) => r = ops[o]) /\ (IsLate(o) => r = Expired(ops[o]))
  BY <1>4, ExpiredIs
<1>6. CASE WriteOp(o, r) \/ WriteOpFails(o, r)
  <2> HIDE DEF r
  <2>1. OneMoves(o, r) /\ faults' \in Nat /\ (faults' = 0 => faults = 0 /\ ops'[o] = r)
    BY <1>4, <1>5, <1>6, WritesOne
  <2>2. Kept(o) /\ OpOK(o)' /\ (ops'[o].status \in InRun => ops[o].status \in InRun)
        /\ (r.status = ops[o].status \/ r.status = "expired")
    <3>1. CASE IsLate(o)
      <4>1. ops[o].status = "awaiting" BY <3>1 DEF IsLate
      <4>2. /\ r.key = ops[o].key /\ r.perm = ops[o].perm /\ r.status = "expired"
            /\ r.tries = ops[o].tries /\ r.busy = ops[o].busy
        BY <1>4, <1>5, <3>1, ExpiredIs
      <4>3. ~ops[o].busy BY <1>3, <1>4, <4>1 DEF IInv, Records, OpOK, Sent
      <4>4. Kept(o) /\ OpOK(o)' BY <1>1, <1>3, <1>5, <2>1, <4>1, <4>2, <4>3, EndsUnsent
      <4> QED BY <2>1, <4>1, <4>2, <4>4 DEF OneMoves, InRun
    <3>2. CASE ~IsLate(o)
      <4>1. \A q \in Ops : ops'[q] = ops[q] BY <1>5, <2>1, <3>2 DEF OneMoves
      <4>2. ops' = ops BY <1>4, <2>1, <4>1 DEF OneMoves, TypeOK
      <4>3. Kept(o) /\ OpOK(o)' BY <1>1, <1>3, <4>2, Stays
      <4> QED BY <1>5, <3>2, <4>2, <4>3
    <3> QED BY <3>1, <3>2
  <2>3. CASE Return(k) BY <1>1, <1>3, <1>4, <2>1, <2>2, <2>3, LooksAndEnds
  <2>4. CASE /\ WriteOp(o, r)
             /\ call' = [call EXCEPT ![k].at = "viewed", ![k].op = o, ![k].seen = r.status,
                                     ![k].busy = r.busy]
    <3> DEFINE d == [call[k] EXCEPT !.at = "viewed", !.op = o, !.seen = r.status,
                                    !.busy = r.busy]
    <3>1. /\ d \in Call /\ d.at = "viewed" /\ d.op = o /\ d.seen = r.status /\ d.busy = r.busy
          /\ d.replace = call[k].replace
      BY <1>4, <1>5 DEF Call, Points, OperationRecord
    <3>2. call' = [call EXCEPT ![k] = d] BY <2>4
    <3> HIDE DEF d
    <3>3. PICK c \in Call : /\ CallIsNow(k, c) /\ c.at = "viewed" /\ c.op = o
                            /\ c.seen = r.status /\ c.busy = r.busy
                            /\ c.replace = call[k].replace
      BY <1>4, <3>1, <3>2, Calls
    <3>4. ops'[o] = r BY <1>4, <1>5, <2>4, Written
    <3>5. Bound(k, c) BY <1>1, <1>2, <1>3, <1>4, <3>3, Sorted DEF Bound
    <3>6. Newest(o) => Newest(o)' BY <1>3, <1>4, <2>2, KeptStays
    <3>7. Viewing(c)' BY <1>3, <2>2, <3>3, <3>4, <3>6 DEF Viewing, Final
    <3>8. Running(c)' BY <3>3, Sorted DEF Running
    <3>9. c.at \notin Executing /\ "look" \notin Claimed BY <3>3, Sorted
    <3> QED BY <1>1, <1>3, <1>4, <2>1, <2>2, <3>3, <3>5, <3>7, <3>8, <3>9, RecordStep
  <2> QED BY <1>2, <2>3, <2>4 DEF Look, r
<1> QED BY <1>2, <1>6 DEF Look

(* The steps that move the ledger *)

LEMMA LedgerStep ==
  ASSUME IInv, NEW k \in Keys, NEW o \in Prepared, call[k] # NoCall,
         call[k].op = o, ops[o].key = k,
         UNCHANGED <<env, ops, admitted, consent, writes, applied>>,
         ledger' \in [Keys -> Ledger \cup {NoLedger}],
         \A j \in Keys \ {k} : ledger'[j] = ledger[j],
         faults' \in Nat, faults' = 0 => faults = 0,
         given' \subseteq Ops \X Nat, \A g \in given' : g \in given \/ g[1] = o,
         told' \subseteq Keys, ToldIsTrue', OpOK(o)', LedgerOK(k)',
         NEW c \in Call \cup {NoCall}, CallIsNow(k, c),
         c # NoCall =>
           /\ c.at \in Executing => k \in admitted
           /\ Bound(k, c)' /\ Preparing(c)' /\ Viewing(c)' /\ Running(c)',
         call[k].at \in Claimed => c # NoCall /\ c.at \in Claimed /\ c.op = o
  PROVE  IInv'
<1>1. TypeOK /\ o \in Ops /\ ops[o] # NoOp BY PreparedIs DEF IInv
<1>2. Records' BY LedgerRecords
<1>3. Admissions' BY AdmissionsKeep
<1>4. OthersStay(k) BY <1>1 DEF OthersStay, CallIsNow
<1>5. Prepared' = Prepared BY DEF Prepared
<1>6. ForgetsNone(k)
  <2> SUFFICES ASSUME faults = 0, NEW q \in Prepared, ops[q].key = k, ops[q].status \in InRun,
                      InHands(q)
               PROVE  InHands(q)'
    BY <1>5 DEF ForgetsNone
  <2>1. call[k].at \in Claimed /\ q = o BY DEF InHands, Calling
  <2> QED BY <2>1 DEF InHands, Calling, CallIsNow
<1>7. CallOK(k)' BY DEF CallOK, CallIsNow
<1> QED BY <1>1, <1>2, <1>3, <1>4, <1>5, <1>6, <1>7, StepKeeps DEF TypeOK

LEMMA AlreadySentKeeps ==
  ASSUME IInv, NEW k \in Keys, AlreadySent(k)
  PROVE  IInv'
<1>1. /\ At(k, "viewed") /\ call[k].seen = "succeeded" /\ Return(k) /\ told' = told \cup {k}
      /\ UNCHANGED <<env, ops, ledger, admitted, given, consent, writes, applied, faults>>
  BY DEF AlreadySent, files
<1>2. PICK o : o = call[k].op
  OBVIOUS
<1>3. /\ TypeOK /\ o \in Prepared /\ o \in Ops /\ ops[o].key = k /\ call[k] # NoCall
      /\ ops[o].status = "succeeded" /\ call[k].at = "viewed"
  BY <1>1, <1>2, AtIs DEF Viewing, Final
<1>4. o \in applied BY <1>3 DEF IInv, Records, OpOK, Sent
<1>5. ToldIsTrue' BY <1>1, <1>3, <1>4 DEF IInv, Records, ToldIsTrue
<1>6. Prepared' = Prepared BY <1>1 DEF Prepared
<1>7. LedgerOK(k)' BY <1>1, <1>6 DEF IInv, Records, LedgerOK, Newest
<1>8. OpOK(o)' BY <1>1, <1>3, Stays
<1>9. CallIsNow(k, NoCall) /\ "viewed" \notin Claimed BY <1>1, <1>3, Returning, Sorted
<1> QED BY <1>1, <1>2, <1>3, <1>5, <1>7, <1>8, <1>9, LedgerStep DEF TypeOK

LEMMA SettleKeeps ==
  ASSUME IInv, NEW k \in Keys, Settle(k)
  PROVE  IInv'
<1>1. /\ At(k, "settling") /\ Return(k)
      /\ UNCHANGED <<env, ops, admitted, given, consent, writes, applied>>
  BY DEF Settle
<1>2. PICK o : o = call[k].op
  OBVIOUS
<1>3. /\ TypeOK /\ o \in Prepared /\ o \in Ops /\ ops[o].key = k /\ call[k] # NoCall
      /\ call[k].at = "settling" /\ ledger[k] # NoLedger /\ ledger[k] \in Ledger
      /\ call[k].result \in {"none", "failed", "unknown", "succeeded"}
      /\ call[k].result = "succeeded" => o \in applied
  BY <1>1, <1>2, AtIs DEF Bound, Running, Call, TypeOK
<1> DEFINE l == [ledger[k] EXCEPT !.phase = "terminal", !.status = call[k].result]
<1>4. l \in Ledger /\ l.op = ledger[k].op BY <1>3 DEF Ledger
<1>5. WriteLedger(k, l) \/ WriteLedgerFails(k, l) BY DEF Settle
<1> HIDE DEF l
<1>6. /\ ledger' \in [Keys -> Ledger \cup {NoLedger}]
      /\ ledger'[k] = ledger[k] \/ ledger'[k] = l
      /\ \A j \in Keys \ {k} : ledger'[j] = ledger[j]
      /\ faults' \in Nat /\ (faults' = 0 => faults = 0)
  BY <1>3, <1>4, <1>5, WritesLedger
<1>7. ledger'[k].op = ledger[k].op /\ ledger'[k] # NoLedger
  BY <1>3, <1>4, <1>6, NothingAssumption
<1>8. told' = told \/ (call[k].result = "succeeded" /\ told' = told \cup {k}) BY DEF Settle
<1>9. ToldIsTrue' BY <1>1, <1>3, <1>8 DEF IInv, Records, ToldIsTrue
<1>10. Prepared' = Prepared BY <1>1 DEF Prepared
<1>11. LedgerOK(k)' BY <1>1, <1>3, <1>7, <1>10 DEF IInv, Records, LedgerOK, Newest
<1>12. OpOK(o)' BY <1>1, <1>3, Stays
<1>13. CallIsNow(k, NoCall) /\ "settling" \notin Claimed BY <1>1, <1>3, Returning, Sorted
<1>14. told' \subseteq Keys /\ given' \subseteq Ops \X Nat BY <1>1, <1>3, <1>8 DEF TypeOK
<1> QED BY <1>1, <1>2, <1>3, <1>6, <1>9, <1>11, <1>12, <1>13, <1>14, LedgerStep

LEMMA MarkWritingKeeps ==
  ASSUME IInv, NEW k \in Keys, MarkWriting(k)
  PROVE  IInv'
<1>1. /\ At(k, "marking") /\ UNCHANGED <<env, ops, admitted, history>>
      /\ UNCHANGED <<given, consent, writes, applied, told>>
  BY DEF MarkWriting, history
<1>2. PICK o : o = call[k].op
  OBVIOUS
<1>3. /\ TypeOK /\ o \in Prepared /\ o \in Ops /\ ops[o].key = k /\ call[k] # NoCall
      /\ call[k].at = "marking" /\ ledger[k] # NoLedger /\ ledger[k] \in Ledger
      /\ ledger[k].op = o /\ k \in admitted /\ writes[o] = 0
      /\ ops[o].status \in {"running", "unknown"} /\ Newest(o)
      /\ call[k].replace => k \in Edits
  BY <1>1, <1>2, AtIs, Sorted DEF Bound, Running, TypeOK
<1> DEFINE l == [ledger[k] EXCEPT !.phase = "writing"]
<1>4. l \in Ledger /\ l.op = ledger[k].op BY <1>3 DEF Ledger
<1>5. WriteLedger(k, l) \/ WriteLedgerFails(k, l) BY DEF MarkWriting
<1> HIDE DEF l
<1>6. /\ ledger' \in [Keys -> Ledger \cup {NoLedger}]
      /\ ledger'[k] = ledger[k] \/ ledger'[k] = l
      /\ \A j \in Keys \ {k} : ledger'[j] = ledger[j]
      /\ faults' \in Nat /\ (faults' = 0 => faults = 0)
  BY <1>3, <1>4, <1>5, WritesLedger
<1>7. ledger'[k].op = ledger[k].op /\ ledger'[k] # NoLedger
  BY <1>3, <1>4, <1>6, NothingAssumption
<1>8. PICK point \in {"sending", "failing"} : Go(k, point) BY DEF MarkWriting
<1>9. PICK c \in Call :
        CallIsNow(k, c) /\ Same(c, call[k]) /\ c.at = point
  BY <1>3, <1>8, Going DEF Points
<1>10. Prepared' = Prepared /\ (Newest(o) => Newest(o)') BY <1>1 DEF Prepared, Newest
<1>11. LedgerOK(k)' BY <1>1, <1>3, <1>7, <1>10 DEF IInv, Records, LedgerOK, Newest
<1>12. OpOK(o)' /\ o \notin applied BY <1>1, <1>3, Stays DEF IInv, Records, OpOK, Sent
<1>13. Bound(k, c)' BY <1>1, <1>2, <1>3, <1>7, <1>9, <1>10, Sorted DEF Bound, Same
<1>14. Preparing(c)' /\ Viewing(c)' /\ Running(c)'
  BY <1>1, <1>2, <1>3, <1>9, <1>12, Sorted DEF Preparing, Viewing, Running, Same
<1>15. ToldIsTrue' /\ c.op = o /\ c # NoCall /\ c.at \in Claimed
  BY <1>1, <1>2, <1>3, <1>9, NothingAssumption, Sorted DEF IInv, Records, ToldIsTrue, Same
<1>16. told' \subseteq Keys /\ given' \subseteq Ops \X Nat BY <1>1, <1>3 DEF TypeOK
<1> QED BY <1>1, <1>2, <1>3, <1>6, <1>9, <1>11, <1>12, <1>13, <1>14, <1>15, <1>16, LedgerStep

LEMMA BindKeeps ==
  ASSUME IInv, NEW k \in Keys, Bind(k)
  PROVE  IInv'
<1>1. /\ At(k, "binding")
      /\ UNCHANGED <<env, ops, admitted, consent, writes, applied, told>>
  BY DEF Bind
<1>2. PICK o : o = call[k].op
  OBVIOUS
<1>3. /\ TypeOK /\ o \in Prepared /\ o \in Ops /\ ops[o].key = k /\ call[k] # NoCall
      /\ ops[o] \in OperationRecord /\ ops[o] # NoOp
      /\ call[k].at = "binding" /\ writes[o] = 0 /\ Newest(o) /\ call[k] \in Call
      /\ call[k].seen = "awaiting" => ops[o].status = "awaiting"
      /\ call[k].replace => k \in Edits
      /\ Sent(o) /\ Consented(o)
  BY <1>1, <1>2, AtIs, PreparedIs DEF Bound, Preparing, IInv, Records, OpOK
<1> DEFINE l == [op |-> o, phase |-> "queued", status |-> "none"]
<1>4. l \in Ledger /\ l.op = o BY <1>3 DEF Ledger
<1>5. WriteLedger(k, l) \/ WriteLedgerFails(k, l) BY <1>2 DEF Bind
<1> HIDE DEF l
<1>6. /\ ledger' \in [Keys -> Ledger \cup {NoLedger}]
      /\ ledger'[k] = ledger[k] \/ ledger'[k] = l
      /\ \A j \in Keys \ {k} : ledger'[j] = ledger[j]
      /\ faults' \in Nat /\ (faults' = 0 => faults = 0)
  BY <1>3, <1>4, <1>5, WritesLedger
<1>7. Prepared' = Prepared /\ (Newest(o) => Newest(o)') BY <1>1 DEF Prepared, Newest
<1>8. LedgerOK(k)'
  <2>1. CASE ledger'[k] = ledger[k] BY <1>1, <1>7, <2>1 DEF IInv, Records, LedgerOK, Newest
  <2>2. CASE ledger'[k] = l
    <3>1. \A q \in Prepared : ops[q].key = k => q <= o BY <1>3 DEF Newest
    <3>2. \A q \in Prepared : q \in Nat /\ o \in Nat
      BY <1>3, PreparedIs, BoundsAssumption DEF Ops
    <3> QED BY <1>1, <1>3, <1>4, <1>7, <2>2, <3>1, <3>2, NothingAssumption DEF LedgerOK
  <2> QED BY <1>6, <2>1, <2>2
<1>9. ToldIsTrue' /\ told' \subseteq Keys BY <1>1, <1>3 DEF IInv, Records, ToldIsTrue, TypeOK
<1>10. "binding" \notin Claimed /\ "admitting" \notin Executing /\ "look" \notin Executing
  BY Sorted
<1>11. CASE call[k].seen = "awaiting" /\ given' = given \cup {<<o, 1>>} /\ Return(k)
  <2>1. given' \subseteq Ops \X Nat BY <1>3, <1>11 DEF TypeOK
  <2>2. Sent(o)' BY <1>1, <1>3 DEF Sent
  <2>3. Consented(o)' BY <1>1, <1>3, <1>11 DEF Consented, GivenUpTo, InFlight
  <2>4. OpOK(o)' BY <1>3, <1>7, <2>2, <2>3 DEF OpOK
  <2>5. CallIsNow(k, NoCall) BY <1>3, <1>11, Returning
  <2> QED BY <1>1, <1>2, <1>3, <1>6, <1>8, <1>9, <1>10, <1>11, <2>1, <2>4, <2>5, LedgerStep
<1>12. CASE UNCHANGED given
  <2>1. OpOK(o)' /\ given' \subseteq Ops \X Nat BY <1>1, <1>3, <1>12, Stays DEF TypeOK
  <2>2. CASE Return(k)
    <3>1. CallIsNow(k, NoCall) BY <1>3, <2>2, Returning
    <3> QED BY <1>1, <1>2, <1>3, <1>6, <1>8, <1>9, <1>10, <1>12, <2>1, <3>1, LedgerStep
  <2>3. CASE /\ WriteLedger(k, l)
             /\ Go(k, IF call[k].fresh THEN "look" ELSE "admitting")
    <3>1. PICK point \in {"look", "admitting"} : Go(k, point) BY <2>3
    <3>2. PICK c \in Call : CallIsNow(k, c) /\ Same(c, call[k]) /\ c.at = point
      BY <1>3, <3>1, Going DEF Points
    <3>3. ledger'[k] = l /\ l # NoLedger
      BY <1>3, <1>4, <2>3, NothingAssumption DEF WriteLedger, TypeOK
    <3>4. Bound(k, c)' BY <1>1, <1>2, <1>3, <1>4, <1>7, <1>10, <3>2, <3>3 DEF Bound, Same
    <3>5. Preparing(c)' /\ Viewing(c)' /\ Running(c)'
      BY <3>2, Sorted DEF Preparing, Viewing, Running
    <3> QED BY <1>1, <1>2, <1>3, <1>6, <1>8, <1>9, <1>10, <1>12, <2>1, <3>2, <3>4, <3>5,
               LedgerStep
  <2> QED BY <1>2, <1>12, <2>2, <2>3, <1>11 DEF Bind, l
<1> QED BY <1>2, <1>11, <1>12 DEF Bind

(* Requests, admission, the remote write, and new operations *)

LEMMA RequestKeeps ==
  ASSUME IInv, NEW k \in Keys, Request(k)
  PROVE  IInv'
<1>1. /\ call[k] = NoCall /\ calls' = calls + 1
      /\ call' = [call EXCEPT ![k] = NewCall(k \in Edits)]
      /\ UNCHANGED <<files, policy, late, up, admitted, resuming, recovery, history, faults,
                     crashes>>
  BY DEF Request
<1>2. UNCHANGED <<ops, ledger, given, consent, writes, applied, told, sweep, recovering, loaded>>
  BY <1>1 DEF files, history, recovery
<1>3. TypeOK /\ Records /\ Admissions /\ Named /\ NothingForgotten BY DEF IInv
<1>4. PICK c \in Call : /\ c = NewCall(k \in Edits) /\ c.at = "look"
                        /\ c.replace => k \in Edits
  <2>1. NewCall(k \in Edits) \in Call BY DEF NewCall, Call, Points, Statuses
  <2> QED BY <2>1 DEF NewCall
<1>5. CallIsNow(k, c) BY <1>1, <1>3, <1>4, Calls
<1>6. Prepared' = Prepared BY <1>2 DEF Prepared
<1>7. TypeOK' BY <1>1, <1>2, <1>3, <1>5 DEF TypeOK, CallIsNow
<1>8. ToldIsTrue' BY <1>2, <1>3 DEF Records, ToldIsTrue
<1>9. Records' BY <1>1, <1>2, <1>8, SameRecords
<1>10. c.at \notin Executing BY <1>4, Sorted
<1>11. Admissions' BY <1>1, <1>5, <1>10, AdmissionsKeep
<1>12. Named' BY <1>1, <1>2, <1>3, <1>6 DEF Named
<1>13. OthersStay(k) BY <1>2, <1>5 DEF OthersStay, CallIsNow
<1>14. ForgetsNone(k) BY <1>1, <1>2, <1>6 DEF ForgetsNone, InHands, Calling
<1>15. NothingForgotten' BY <1>1, <1>13, <1>14, NobodyForgotten
<1>16. CallOK(k)'
  BY <1>4, <1>5, <1>10, Sorted
     DEF CallOK, CallIsNow, Bound, Preparing, Viewing, Running
<1>17. \A j \in Keys \ {k} : CallOK(j)' BY <1>13, OthersKeep
<1> QED BY <1>7, <1>9, <1>11, <1>12, <1>15, <1>16, <1>17 DEF IInv

LEMMA AdmitKeeps ==
  ASSUME IInv, NEW k \in Keys, Admit(k)
  PROVE  IInv'
<1>1. /\ At(k, "admitting") /\ MayRun(k) /\ admitted' = admitted \cup {k} /\ Go(k, "validating")
      /\ UNCHANGED <<env, files, history, faults>>
      /\ UNCHANGED <<ops, ledger, given, consent, writes, applied, told>>
  BY DEF Admit, files, history
<1>2. PICK c \in Call : CallIsNow(k, c) /\ Same(c, call[k]) /\ c.at = "validating"
  BY <1>1, AtIs, Going DEF Points
<1>3. TypeOK /\ Records /\ Admissions /\ call[k].at = "admitting" /\ call[k] # NoCall
  BY <1>1, AtIs DEF IInv
<1>4. Admissions'
  <2>1. \A j \in admitted : TargetOf[j] # TargetOf[k] BY <1>1 DEF MayRun
  <2> QED BY <1>1, <1>2, <1>3, <2>1 DEF Admissions, CallIsNow, Calling
<1>5. OthersStay(k) BY <1>1, <1>2 DEF OthersStay, CallIsNow
<1>6. Prepared' = Prepared BY <1>1 DEF Prepared
<1>7. ForgetsNone(k) BY <1>1, <1>3, <1>6, Sorted DEF ForgetsNone, InHands, Calling
<1>8. Bound(k, c) /\ Preparing(c) /\ Viewing(c) /\ Running(c)
  BY <1>1, <1>2, AtIs, Sorted DEF Bound, Preparing, Viewing, Running, Same
<1>9. CallOK(k)'
  BY <1>1, <1>2, <1>6, <1>8
     DEF CallOK, CallIsNow, Bound, Newest, Preparing, Viewing, Running
<1>10. ToldIsTrue' BY <1>1, <1>3 DEF Records, ToldIsTrue
<1>11. Records' BY <1>1, <1>10, SameRecords
<1> QED BY <1>1, <1>2, <1>3, <1>4, <1>5, <1>6, <1>7, <1>9, <1>11, StepKeeps DEF TypeOK

LEMMA SendKeeps ==
  ASSUME IInv, NEW k \in Keys, Send(k)
  PROVE  IInv'
<1>1. PICK o : o = call[k].op
  OBVIOUS
<1>2. /\ At(k, "sending") /\ writes' = [writes EXCEPT ![o] = @ + 1]
      /\ UNCHANGED <<env, files, admitted, given, consent, told, faults>>
      /\ UNCHANGED <<ops, ledger>>
  BY <1>1 DEF Send, files
<1>3. PICK hit \in BOOLEAN :
        /\ call' = [call EXCEPT ![k].at = "writing", ![k].hit = hit, ![k].busy = FALSE]
        /\ applied' = IF hit THEN applied \cup {o} ELSE applied
  BY <1>1 DEF Send
<1>4. /\ TypeOK /\ o \in Prepared /\ o \in Ops /\ ops[o].key = k /\ call[k] # NoCall
      /\ call[k] \in Call /\ call[k].at = "sending" /\ ledger[k] # NoLedger /\ ledger[k].op = o
      /\ ops[o].status \in {"running", "unknown"} /\ writes[o] = 0 /\ Newest(o)
      /\ k \in admitted /\ (call[k].replace => k \in Edits) /\ Records
  BY <1>1, <1>2, AtIs, Sorted DEF Bound, Running, IInv
<1>5. PICK c \in Call : /\ CallIsNow(k, c) /\ Same(c, call[k]) /\ c.at = "writing"
                        /\ c.hit = hit /\ ~c.busy
  <2> DEFINE d == [call[k] EXCEPT !.at = "writing", !.hit = hit, !.busy = FALSE]
  <2>1. d \in Call /\ Same(d, call[k]) /\ d.at = "writing" /\ d.hit = hit /\ ~d.busy
    BY <1>4 DEF Call, Points, Same
  <2>2. call' = [call EXCEPT ![k] = d] BY <1>3
  <2> HIDE DEF d
  <2> QED BY <1>4, <2>1, <2>2, Calls
<1>6. /\ writes' \in [Ops -> Nat] /\ writes'[o] = 1 /\ \A q \in Ops \ {o} : writes'[q] = writes[q]
      /\ applied' \subseteq Ops /\ (o \in applied' <=> hit) /\ o \notin applied
      /\ \A q \in Ops \ {o} : q \in applied' <=> q \in applied
  <2>1. o \notin applied BY <1>4 DEF Records, OpOK, Sent
  <2> QED BY <1>2, <1>3, <1>4, <2>1 DEF TypeOK
<1>7. Prepared' = Prepared /\ \A q \in Prepared : Newest(q) <=> Newest(q)'
  BY <1>2 DEF Prepared, Newest
<1>8. \A q \in Ops : OpOK(q)'
  <2> SUFFICES ASSUME NEW q \in Ops
               PROVE  OpOK(q)'
    OBVIOUS
  <2>1. CASE q # o
    <3>1. Sent(q) => Sent(q)' BY <1>2, <1>6, <2>1 DEF Sent
    <3>2. Consented(q) => Consented(q)' BY <1>2, <1>6, <2>1 DEF Consented, GivenUpTo
    <3>3. Unused(q) => Unused(q)' BY <1>2, <1>6, <2>1 DEF Unused
    <3> QED BY <1>4, <1>7, <3>1, <3>2, <3>3 DEF Records, OpOK
  <2>2. CASE q = o
    <3>1. Sent(o) /\ Consented(o) BY <1>4 DEF Records, OpOK
    <3>2. ops[o].tries >= 1 /\ ~ops[o].again /\ ~ops[o].busy BY <1>4, <3>1 DEF Sent, Begun
    <3>3. ops[o].tries \in Nat BY <1>4, PreparedIs DEF OperationRecord
    <3>4. Sent(o)' BY <1>2, <1>4, <1>6, <3>1, <3>2, <3>3 DEF Sent, Begun
    <3>5. Consented(o)' BY <1>2, <1>4, <3>1 DEF Consented, GivenUpTo, InFlight
    <3> QED BY <1>4, <1>7, <2>2, <3>4, <3>5 DEF OpOK
  <2> QED BY <2>1, <2>2
<1>9. \A p, q \in Prepared' : InTurn(p, q)'
  <2> SUFFICES ASSUME NEW p \in Prepared, NEW q \in Prepared, p < q, ops[p].key = ops[q].key,
                      writes'[p] = 1
               PROVE  ops[p].key \in Edits /\ ops[p].status = "unknown"
    BY <1>2, <1>7 DEF InTurn
  <2>1. p # o
    <3>1. p = o => q <= p BY <1>4 DEF Newest
    <3>2. p \in Nat /\ q \in Nat BY <1>4, PreparedIs, BoundsAssumption DEF Ops
    <3> QED BY <3>1, <3>2
  <2>2. writes[p] = 1 /\ InTurn(p, q) BY <1>4, <1>6, <2>1, PreparedIs DEF Records
  <2> QED BY <2>2 DEF InTurn
<1>10. \A j \in Keys : LedgerOK(j)'
  <2> SUFFICES ASSUME NEW j \in Keys, LedgerOK(j)
               PROVE  LedgerOK(j)'
    BY <1>4 DEF Records
  <2>1. \A q \in Prepared : ops[q].key = j /\ (ledger[j] = NoLedger \/ q > ledger[j].op)
                              => q # o
    <3>1. o \in Nat BY <1>4, BoundsAssumption DEF Ops
    <3> QED BY <1>4, <3>1
  <2>2. \A q \in Prepared : q \in Ops BY <1>4, PreparedIs
  <2> QED BY <1>2, <1>6, <1>7, <2>1, <2>2 DEF LedgerOK
<1>11. ToldIsTrue' /\ Numbered' BY <1>2, <1>3, <1>4, <1>7 DEF Records, ToldIsTrue, Numbered
<1>12. Records' BY <1>8, <1>9, <1>10, <1>11 DEF Records
<1>13. "writing" \in Claimed /\ "writing" \in Executing /\ c # NoCall
  BY Sorted, NothingAssumption
<1>14. Admissions' BY <1>2, <1>4, <1>5, AdmissionsKeep
<1>15. OthersStay(k) BY <1>2, <1>4, <1>5, <1>6 DEF OthersStay, CallIsNow, Prepared
<1>16. ForgetsNone(k)
  BY <1>1, <1>2, <1>4, <1>5, <1>7, <1>13 DEF ForgetsNone, InHands, Calling, CallIsNow, Same
<1>17. CallOK(k)'
  <2>1. Bound(k, c)' BY <1>1, <1>2, <1>4, <1>5, <1>7 DEF Bound, Same
  <2>2. Preparing(c)' /\ Viewing(c)' /\ Running(c)'
    BY <1>1, <1>2, <1>4, <1>5, <1>6 DEF Preparing, Viewing, Running, Same
  <2> QED BY <1>5, <2>1, <2>2 DEF CallOK, CallIsNow
<1> QED BY <1>2, <1>4, <1>5, <1>6, <1>7, <1>12, <1>14, <1>15, <1>16, <1>17, StepKeeps DEF TypeOK

\* Operations are numbered as they are prepared, so that the next number is free.
LEMMA NextNumber ==
  ASSUME IInv, Cardinality(Prepared) + 1 \in Ops
  PROVE  /\ Cardinality(Prepared) + 1 \notin Prepared
         /\ \A q \in Prepared : q < Cardinality(Prepared) + 1
         /\ Prepared \cup {Cardinality(Prepared) + 1} = 1 .. (Cardinality(Prepared) + 1)
         /\ Cardinality(Prepared) + 1 \in Nat
<1>1. PICK n \in Nat : Prepared = 1 .. n BY DEF IInv, Records, Numbered
<1>2. Cardinality(Prepared) = n BY <1>1, FS_Interval
<1> QED BY <1>1, <1>2

LEMMA PrepareKeeps ==
  ASSUME IInv, NEW k \in Keys, NEW from \in {"look", "viewed"}, At(k, from), Prepare(k),
         UNCHANGED <<env, ledger, admitted, history>>,
         \A q \in Prepared :
           ops[q].key = k /\ writes[q] = 1 => k \in Edits /\ ops[q].status = "unknown",
         ledger[k] # NoLedger => ops[ledger[k].op].status \in Final
  PROVE  IInv'
<1>1. /\ TypeOK /\ Records /\ call[k] # NoCall /\ call[k] \in Call /\ call[k].at = from
      /\ from \notin Executing /\ (call[k].replace => k \in Edits)
  BY AtIs, Sorted DEF IInv, Bound
<1>2. UNCHANGED <<given, consent, writes, applied, told>> BY DEF history
<1> DEFINE o == Cardinality(Prepared) + 1
           r == NewOperation(k)
<1>3. CASE Return(k) /\ UNCHANGED <<ops, faults>>
  <2>1. CallIsNow(k, NoCall) /\ call[k].at \notin Claimed BY <1>1, <1>3, Returning, Sorted
  <2> QED BY <1>1, <1>3, <2>1, SilentStep DEF files
<1>4. CASE /\ o \in Ops /\ policy.decision # "disabled"
           /\ \/ /\ WriteOp(o, r)
                 /\ call' = [call EXCEPT ![k].at = "binding", ![k].op = o, ![k].seen = r.status,
                                         ![k].fresh = ledger[k] = NoLedger]
              \/ WriteOpFails(o, r) /\ Return(k)
  <2>1. /\ r \in OperationRecord /\ r.key = k /\ r.tries = 0 /\ ~r.again /\ ~r.busy
        /\ \/ r.status = "awaiting" /\ r.perm = "confirm" /\ r.challenge = 1
           \/ r.status = "queued" /\ r.perm = "allowed"
    <3>1. policy.rev \in Nat /\ policy.decision \in {"confirm", "allowed"}
      BY <1>1, <1>4 DEF TypeOK, Decisions
    <3> QED BY <3>1 DEF NewOperation, OperationRecord, Statuses
  <2>2. /\ o \notin Prepared /\ \A q \in Prepared : q < o
        /\ Prepared \cup {o} = 1 .. o /\ o \in Nat /\ o \in Ops
    BY <1>4, NextNumber
  <2> HIDE DEF r
  <2>3. PICK p \in Ops : p = o BY <2>2
  <2>4. /\ p \notin Prepared /\ \A q \in Prepared : q < p
        /\ Prepared \cup {p} = 1 .. p /\ p \in Nat
        /\ WriteOp(p, r) \/ WriteOpFails(p, r)
    BY <1>4, <2>2, <2>3
  <2>5. /\ ops' \in [Ops -> OperationRecord \cup {NoOp}]
        /\ ops'[p] = ops[p] \/ ops'[p] = r
        /\ \A q \in Ops \ {p} : ops'[q] = ops[q]
        /\ faults' \in Nat /\ (faults' = 0 => faults = 0)
    BY <1>1, <2>1, <2>4, Writes
  <2>6. ops[p] = NoOp /\ r # NoOp /\ Unused(p) /\ \A q \in Prepared : q \in Ops /\ q \in Nat
    BY <1>1, <2>1, <2>4, PreparedIs, NothingAssumption, BoundsAssumption
       DEF Prepared, Records, OpOK, Ops
  <2>7. \/ Prepared' = Prepared /\ ops' = ops
        \/ Prepared' = Prepared \cup {p} /\ ops'[p] = r
    <3>1. CASE ops'[p] = r BY <2>5, <2>6, <3>1 DEF Prepared
    <3>2. CASE ops'[p] = ops[p]
      <4>1. \A q \in Ops : ops'[q] = ops[q] BY <2>5, <3>2
      <4> QED BY <1>1, <2>5, <4>1 DEF TypeOK, Prepared
    <3> QED BY <2>5, <3>1, <3>2
  <2>8. \A q \in Prepared : ops'[q] = ops[q] BY <2>4, <2>5, <2>6
  <2>9. Numbered' BY <1>1, <2>4, <2>7 DEF Records, Numbered
  <2>10. ToldIsTrue'
    <3>1. \A q \in applied : q \in Prepared BY <1>1 DEF Records, OpOK, Unused, TypeOK
    <3> QED BY <1>1, <1>2, <2>8, <3>1 DEF Records, ToldIsTrue
  <2>11. \A q \in Ops : OpOK(q)'
    <3> SUFFICES ASSUME NEW q \in Ops
                 PROVE  OpOK(q)'
      OBVIOUS
    <3>1. CASE q \in Prepared
      <4>1. Sent(q)' /\ Consented(q)'
        BY <1>1, <1>2, <2>8, <3>1 DEF Records, OpOK, Sent, Consented, GivenUpTo
      <4> QED BY <2>7, <3>1, <4>1 DEF OpOK
    <3>2. CASE q \notin Prepared' BY <1>1, <1>2, <2>7, <3>2 DEF Records, OpOK, Unused
    <3>3. CASE q \notin Prepared /\ q \in Prepared'
      <4>1. q = p /\ ops'[p] = r BY <2>7, <3>3
      <4>2. Sent(p)' BY <1>2, <2>1, <2>6, <4>1 DEF Sent, Unused, Begun
      <4>3. Consented(p)' BY <1>2, <2>1, <2>6, <4>1 DEF Consented, Unused, GivenUpTo, InFlight
      <4> QED BY <3>3, <4>1, <4>2, <4>3 DEF OpOK
    <3> QED BY <3>1, <3>2, <3>3
  <2>12. \A a, b \in Prepared' : InTurn(a, b)'
    <3> SUFFICES ASSUME NEW a \in Prepared', NEW b \in Prepared', a < b,
                        ops'[a].key = ops'[b].key, writes[a] = 1
                 PROVE  ops'[a].key \in Edits /\ ops'[a].status = "unknown"
      BY <1>2 DEF InTurn
    <3>1. a # p /\ a \in Prepared /\ ops'[a] = ops[a] BY <2>6, <2>7, <2>8 DEF Unused
    <3>2. CASE b \in Prepared BY <1>1, <2>8, <3>1, <3>2 DEF Records, InTurn
    <3>3. CASE b \notin Prepared BY <2>1, <2>7, <3>1, <3>3
    <3> QED BY <3>2, <3>3
  <2>13. \A j \in Keys : LedgerOK(j)'
    <3> SUFFICES ASSUME NEW j \in Keys
                 PROVE  LedgerOK(j)'
      OBVIOUS
    <3>1. LedgerOK(j) BY <1>1 DEF Records
    <3>2. ASSUME ledger[j] # NoLedger
          PROVE  /\ ledger[j].op \in Prepared' /\ ops'[ledger[j].op].key = j
                 /\ ops'[ledger[j].op].status \notin Final => Newest(ledger[j].op)'
      <4>1. PICK q \in Prepared : q = ledger[j].op BY <3>1, <3>2 DEF LedgerOK
      <4>2. ops'[q] = ops[q] /\ q \in Prepared' /\ ops[q].key = j
        BY <2>7, <2>8, <3>1, <3>2, <4>1 DEF LedgerOK
      <4>3. ASSUME ops[q].status \notin Final, NEW s \in Prepared', ops'[s].key = j
            PROVE  s <= q
        <5>1. j # k BY <3>2, <4>1, <4>3
        <5>2. s \in Prepared /\ ops'[s] = ops[s] BY <2>1, <2>7, <2>8, <4>3, <5>1
        <5>3. Newest(q) BY <3>1, <3>2, <4>1, <4>3 DEF LedgerOK
        <5> QED BY <4>2, <4>3, <5>2, <5>3 DEF Newest
      <4>4. ops[q].status \notin Final => Newest(q)' BY <4>2, <4>3 DEF Newest
      <4> QED BY <4>1, <4>2, <4>4
    <3>3. ASSUME NEW q \in Prepared', ops'[q].key = j, ledger[j] = NoLedger \/ q > ledger[j].op
          PROVE  writes[q] = 0
      <4>1. CASE q \in Prepared BY <2>8, <3>1, <3>3, <4>1 DEF LedgerOK
      <4>2. CASE q \notin Prepared BY <2>6, <2>7, <4>2 DEF Unused
      <4> QED BY <4>1, <4>2
    <3>4. UNCHANGED <<ledger, writes>> BY <1>2
    <3> QED BY <3>2, <3>3, <3>4 DEF LedgerOK
  <2>14. Records' BY <2>9, <2>10, <2>11, <2>12, <2>13 DEF Records
  <2>15. PICK c \in Call \cup {NoCall} :
           /\ CallIsNow(k, c)
           /\ c # NoCall =>
                /\ c.at = "binding" /\ c.op = p /\ c.seen = r.status
                /\ c.replace = call[k].replace /\ ops'[p] = r /\ Prepared' = Prepared \cup {p}
    <3>1. CASE Return(k) BY <1>1, <3>1, Returning
    <3>2. CASE /\ WriteOp(p, r)
               /\ call' = [call EXCEPT ![k].at = "binding", ![k].op = p, ![k].seen = r.status,
                                       ![k].fresh = ledger[k] = NoLedger]
      <4> DEFINE d == [call[k] EXCEPT !.at = "binding", !.op = p, !.seen = r.status,
                                      !.fresh = ledger[k] = NoLedger]
      <4>1. /\ d \in Call /\ d.at = "binding" /\ d.op = p /\ d.seen = r.status
            /\ d.replace = call[k].replace
        BY <1>1, <2>1 DEF Call, Points, OperationRecord
      <4>2. call' = [call EXCEPT ![k] = d] BY <3>2
      <4> HIDE DEF d
      <4>3. ops'[p] = r BY <1>1, <2>1, <3>2, Written
      <4>4. Prepared' = Prepared \cup {p} BY <2>5, <2>6, <4>3 DEF Prepared
      <4> QED BY <1>1, <4>1, <4>2, <4>3, <4>4, Calls
    <3> QED BY <1>4, <2>3, <3>1, <3>2
  <2>16. CallOK(k)'
    <3>1. CASE c = NoCall BY <2>15, <3>1 DEF CallOK, CallIsNow
    <3>2. CASE c # NoCall
      <4>1. Newest(p)' BY <2>4, <2>6, <2>15, <3>2 DEF Newest
      <4>2. Bound(k, c)' BY <1>1, <2>1, <2>15, <3>2, <4>1, Sorted DEF Bound
      <4>3. Preparing(c)' /\ Viewing(c)' /\ Running(c)'
        BY <1>2, <2>6, <2>15, <3>2, Sorted DEF Preparing, Viewing, Running, Unused
      <4> QED BY <2>15, <4>2, <4>3 DEF CallOK, CallIsNow
    <3> QED BY <3>1, <3>2
  <2>17. Admissions' BY <2>15, AdmissionsKeep, Sorted
  <2>18. OthersStay(k)
    <3>1. \A q \in Ops \ {p} : ops'[q] = ops[q] BY <2>5
    <3>2. ops'[p] = ops[p] \/ (ops'[p] # NoOp /\ ops'[p].key = k) BY <2>1, <2>5, <2>6
    <3> QED BY <1>2, <2>6, <2>15, <3>1, <3>2 DEF OthersStay, CallIsNow
  <2>19. ForgetsNone(k)
    <3> SUFFICES ASSUME NEW q \in Prepared', ops'[q].key = k, ops'[q].status \in InRun
                 PROVE  q \in Prepared /\ ops[q].key = k /\ ops[q].status \in InRun /\ ~InHands(q)
      BY <2>5 DEF ForgetsNone
    <3>1. q \in Prepared BY <2>1, <2>7 DEF InRun
    <3> QED BY <1>1, <2>8, <3>1, Sorted DEF InHands, Calling
  <2> QED BY <1>1, <1>2, <2>5, <2>7, <2>14, <2>15, <2>16, <2>17, <2>18, <2>19, StepKeeps
          DEF TypeOK
<1> QED BY <1>3, <1>4 DEF Prepare

LEMMA FirstKeeps ==
  ASSUME IInv, NEW k \in Keys, First(k)
  PROVE  IInv'
<1>1. At(k, "look") /\ ledger[k] = NoLedger /\ Prepare(k)
      /\ UNCHANGED <<env, ledger, admitted, history>>
  BY DEF First
<1>2. \A q \in Prepared : ops[q].key = k => writes[q] = 0 BY <1>1 DEF IInv, Records, LedgerOK
<1> QED BY <1>1, <1>2, PrepareKeeps

LEMMA AfreshKeeps ==
  ASSUME IInv, NEW k \in Keys, Afresh(k)
  PROVE  IInv'
<1>1. At(k, "viewed") /\ StartsAfresh(k) /\ Prepare(k)
      /\ UNCHANGED <<env, ledger, admitted, history>>
  BY DEF Afresh
<1>2. PICK o : o = call[k].op
  OBVIOUS
<1>3. /\ TypeOK /\ o \in Prepared /\ o \in Ops /\ ops[o].key = k
      /\ ledger[k] # NoLedger /\ ledger[k].op = o
      /\ call[k].seen \in Final => ops[o].status = call[k].seen
                                   /\ (call[k].busy => ops[o].busy)
      /\ call[k].replace => k \in Edits
  BY <1>1, <1>2, AtIs DEF Bound, Viewing
<1>4. /\ call[k].seen \in Final
      /\ writes[o] = 0 \/ (k \in Edits /\ ops[o].status = "unknown")
  BY <1>1, <1>3 DEF StartsAfresh, CanReprepare, CanReplace, Final, IInv, Records, OpOK, Sent
<1>5. \A q \in Prepared :
        ops[q].key = k /\ writes[q] = 1 => k \in Edits /\ ops[q].status = "unknown"
  <2> SUFFICES ASSUME NEW q \in Prepared, ops[q].key = k, writes[q] = 1
               PROVE  k \in Edits /\ ops[q].status = "unknown"
    OBVIOUS
  <2>1. ~(q > o) BY <1>3 DEF IInv, Records, LedgerOK
  <2>2. q \in Nat /\ o \in Nat BY <1>3, PreparedIs, BoundsAssumption DEF Ops
  <2>3. CASE q = o BY <1>4, <2>3
  <2>4. CASE q < o BY <1>3, <2>4 DEF IInv, Records, InTurn
  <2> QED BY <2>1, <2>2, <2>3, <2>4
<1> QED BY <1>1, <1>3, <1>4, <1>5, PrepareKeeps

LEMMA CallStepKeeps ==
  ASSUME IInv, NEW k \in Keys, CallStep(k)
  PROVE  IInv'
BY FirstKeeps, LookKeeps, BindKeeps, AfreshKeeps, RenewKeeps, AlreadySentKeeps, GiveUpKeeps,
   RefuseKeeps, ProceedKeeps, AdmitKeeps, AdmitTimeoutKeeps, ValidateKeeps, RejectKeeps,
   ClaimKeeps, CheckKeeps, GuardKeeps, MarkWritingKeeps, NotSentKeeps, SendKeeps, AnswerKeeps,
   FailKeeps, DoubtKeeps, MarkVerifyingKeeps, CompleteKeeps, SettleKeeps
   DEF CallStep

(* The user, the clock, the policy, and the recovery *)

\* Somebody else moves a record while a call may be at work on it.
Outside(o) ==
  /\ ops[o].status = "running" => ops'[o].status \in {"running", "unknown"}
  /\ ops[o].status = "verifying" => ops'[o].status \in {"verifying", "unknown"}
  /\ \/ \E g \in given : g[1] = o
     \/ consent'[o] = consent[o] /\ (ops[o].status = "awaiting" => ops'[o].status = "awaiting")

LEMMA OutsideKeeps ==
  ASSUME IInv, NEW o \in Prepared, Kept(o), Outside(o), OpOK(o)',
         UNCHANGED <<ledger, call, admitted, given, writes, applied, told>>,
         \A q \in Ops \ {o} : consent'[q] = consent[q]
  PROVE  /\ Records' /\ Admissions' /\ \A k \in Keys : CallOK(k)'
         /\ Prepared' = Prepared
<1>1. TypeOK /\ Records /\ o \in Ops BY PreparedIs DEF IInv
<1>2. /\ Prepared' = Prepared
      /\ \A q \in Prepared : ops'[q].key = ops[q].key
      /\ \A q \in Prepared : Newest(q) <=> Newest(q)'
  BY <1>1, KeptStays
<1>3. Records' BY KeptRecords
<1>4. Admissions' BY DEF IInv, Admissions, Calling
<1>5. ASSUME NEW k \in Keys
      PROVE  CallOK(k)'
  <2>1. CASE call[k] = NoCall BY <2>1 DEF CallOK
  <2>2. CASE call[k] # NoCall
    <3>1. PICK c \in Call : c = call[k] BY <1>1, <2>2, CallIs
    <3>2. Bound(k, c) /\ Preparing(c) /\ Viewing(c) /\ Running(c) BY <2>2, <3>1 DEF IInv, CallOK
    <3>3. c.at # "look" => c.op \in Prepared BY <3>2 DEF Bound
    <3>4. Bound(k, c)' BY <1>2, <3>2, <3>3, Sorted DEF Bound
    <3>5. Preparing(c)'
      <4> SUFFICES ASSUME c.at = "binding"
                   PROVE  Preparing(c)'
        BY DEF Preparing
      <4>1. CASE c.op = o BY <3>2, <4>1 DEF Preparing, Outside
      <4>2. CASE c.op # o
        <5>1. c.op \in Ops /\ ops'[c.op] = ops[c.op] /\ consent'[c.op] = consent[c.op]
          BY <1>1, <3>3, <4>2, PreparedIs DEF Kept
        <5> QED BY <3>2, <5>1 DEF Preparing
      <4> QED BY <4>1, <4>2
    <3>6. Viewing(c)' BY <1>1, <1>2, <3>2, <3>3, PreparedIs DEF Viewing, Kept
    <3>7. Running(c)'
      <4>1. c.at \in Claimed => c.op \in Prepared /\ c.op \in Ops
        BY <1>1, <3>3, PreparedIs, Sorted
      <4>2. c.at \in Claimed /\ c.op # o => ops'[c.op] = ops[c.op] BY <4>1 DEF Kept
      <4>3. ops[o].status = "unknown" => ops'[o].status = "unknown" BY DEF Kept, Final
      <4>4. c.at \in Claimed \ {"completing"} => ops'[c.op].status \in {"running", "unknown"}
        BY <3>2, <4>2, <4>3 DEF Running, Outside
      <4>5. c.at = "completing" => ops'[c.op].status \in {"verifying", "unknown"}
        BY <3>2, <4>2, <4>3, Sorted DEF Running, Outside
      <4> QED BY <3>2, <4>4, <4>5 DEF Running
    <3> QED BY <3>1, <3>4, <3>5, <3>6, <3>7 DEF CallOK
  <2> QED BY <2>1, <2>2
<1> QED BY <1>2, <1>3, <1>4, <1>5

\* The user moves a record: nothing of it runs before or after.
LEMMA UserStepKeeps ==
  ASSUME IInv, NEW o \in Prepared, Kept(o), OpOK(o)', \E g \in given : g[1] = o,
         ops[o].status \in {"awaiting", "queued"}, ops'[o].status \notin InRun,
         UNCHANGED <<ledger, policy, late, up, call, admitted, recovery, given, writes, applied,
                     told, calls, crashes>>,
         consent' \in [Ops -> Nat], \A q \in Ops \ {o} : consent'[q] = consent[q],
         faults' \in Nat, faults' = 0 => faults = 0,
         resuming' = resuming \/ resuming' = resuming \cup {o}
  PROVE  IInv'
<1>1. TypeOK /\ Named /\ NothingForgotten /\ o \in Ops BY PreparedIs DEF IInv
<1>2. Outside(o) BY DEF Outside
<1>3. /\ Records' /\ Admissions' /\ \A k \in Keys : CallOK(k)'
      /\ Prepared' = Prepared
  BY <1>2, OutsideKeeps
<1>4. TypeOK' BY <1>1 DEF TypeOK, Kept, recovery
<1>5. Named' BY <1>1, <1>3 DEF Named, recovery
<1>6. NothingForgotten'
  <2> SUFFICES ASSUME faults' = 0, NEW q \in Prepared, ops'[q].status \in InRun
               PROVE  InHands(q)' \/ ToRecover(q)'
    BY <1>3 DEF NothingForgotten, InRun
  <2>1. q # o /\ ops'[q] = ops[q] BY <1>1, PreparedIs DEF Kept
  <2>2. InHands(q) \/ ToRecover(q) BY <1>1, <2>1 DEF NothingForgotten, InRun
  <2> QED BY <2>1, <2>2 DEF InHands, Calling, ToRecover, recovery
<1> QED BY <1>3, <1>4, <1>5, <1>6 DEF IInv

LEMMA GivenIs ==
  ASSUME IInv, NEW o \in Ops, \E g \in given : g[1] = o
  PROVE  /\ o \in Prepared /\ Sent(o) /\ Consented(o) /\ TypeOK
         /\ ops[o] \in OperationRecord /\ ops[o] # NoOp
BY PreparedIs DEF IInv, Records, OpOK, Unused

LEMMA ConfirmKeeps ==
  ASSUME IInv, NEW o \in Ops, NEW c \in Challenges, Confirm(o, c)
  PROVE  IInv'
<1>1. /\ <<o, c>> \in given /\ ops[o].status = "awaiting"
      /\ UNCHANGED <<ledger, policy, late, up, call, admitted, recovery, given, writes, applied,
                     told, calls, crashes>>
  BY DEF Confirm
<1>2. /\ o \in Prepared /\ Sent(o) /\ Consented(o) /\ TypeOK /\ ops[o] \in OperationRecord
      /\ ops[o] # NoOp /\ \E g \in given : g[1] = o
  <2>1. \E g \in given : g[1] = o BY <1>1
  <2> QED BY <2>1, GivenIs
<1>3. ops[o].tries = 0 /\ ~ops[o].again /\ ~ops[o].busy /\ ops[o].perm = "confirm"
      /\ ops[o].challenge >= 1 /\ GivenUpTo(o, ops[o].challenge) /\ writes[o] = 0
      /\ o \notin applied
  BY <1>1, <1>2 DEF Sent, Consented, OperationRecord
<1> DEFINE Ending(r) ==
      /\ WriteOp(o, r) \/ WriteOpFails(o, r)
      /\ UNCHANGED <<consent, resuming>>
<1>4. ASSUME NEW r \in OperationRecord, Ending(r),
             r.key = ops[o].key, r.perm = ops[o].perm, r.status \in {"expired", "failed"},
             r.tries = ops[o].tries, ~r.busy
      PROVE  IInv'
  <2>1. OneMoves(o, r) /\ faults' \in Nat /\ (faults' = 0 => faults = 0 /\ ops'[o] = r)
    BY <1>2, <1>4, WritesOne
  <2>2. Kept(o) /\ OpOK(o)' BY <1>1, <1>2, <1>4, <2>1, EndsUnsent
  <2>3. ops'[o].status \notin InRun BY <1>1, <1>4, <2>1 DEF OneMoves, InRun
  <2>4. consent' \in [Ops -> Nat] BY <1>2, <1>4 DEF TypeOK
  <2> QED BY <1>1, <1>2, <1>4, <2>1, <2>2, <2>3, <2>4, UserStepKeeps
<1>5. CASE Ending(Expired(ops[o])) BY <1>2, <1>3, <1>4, <1>5, ExpiredIs
<1>6. CASE Ending(Refused(ops[o])) BY <1>2, <1>3, <1>4, <1>6, RefusedIs
<1> DEFINE queued == [ops[o] EXCEPT !.status = "queued", !.challenge = 0]
<1>7. CASE /\ CurrentChallenge(o, c)
           /\ \/ WriteOp(o, queued) /\ resuming' = resuming \cup {o}
              \/ WriteOpFails(o, queued) /\ UNCHANGED resuming
           /\ consent' = [consent EXCEPT ![o] = c]
  <2>1. /\ queued \in OperationRecord /\ queued.key = ops[o].key /\ queued.perm = "confirm"
        /\ queued.status = "queued" /\ queued.tries = 0 /\ ~queued.again /\ ~queued.busy
    BY <1>2, <1>3 DEF OperationRecord, Statuses
  <2> HIDE DEF queued
  <2>2. OneMoves(o, queued) /\ faults' \in Nat /\ (faults' = 0 => faults = 0)
    BY <1>2, <1>7, <2>1, WritesOne
  <2>3. Kept(o) BY <1>1, <1>2, <1>3, <2>1, <2>2, NothingAssumption DEF Kept, OneMoves, Final
  <2>4. /\ c = ops[o].challenge /\ c \in Nat /\ c # 0 /\ consent' \in [Ops -> Nat]
        /\ consent'[o] = c /\ \A q \in Ops \ {o} : consent'[q] = consent[q]
    BY <1>2, <1>3, <1>7 DEF CurrentChallenge, OperationRecord, TypeOK
  <2>5. Sent(o)' BY <1>1, <1>2, <1>3, <2>1, <2>2 DEF Sent, OneMoves, Begun
  <2>6. Consented(o)' BY <1>1, <1>2, <1>3, <2>1, <2>2, <2>4 DEF Consented, OneMoves, GivenUpTo
  <2>7. OpOK(o)' BY <1>2, <2>3, <2>5, <2>6 DEF OpOK, Prepared, Kept
  <2>8. ops'[o].status \notin InRun BY <1>1, <2>1, <2>2 DEF OneMoves, InRun
  <2>9. resuming' = resuming \/ resuming' = resuming \cup {o} BY <1>7
  <2> QED BY <1>1, <1>2, <2>2, <2>3, <2>4, <2>7, <2>8, <2>9, UserStepKeeps
<1> QED BY <1>5, <1>6, <1>7 DEF Confirm

LEMMA CancelKeeps ==
  ASSUME IInv, NEW o \in Ops, Cancel(o)
  PROVE  IInv'
<1>1. /\ \E g \in given : g[1] = o
      /\ ops[o].status \in {"awaiting", "queued"}
      /\ UNCHANGED <<ledger, policy, late, up, call, admitted, resuming, recovery, history, calls,
                     crashes>>
      /\ UNCHANGED <<given, consent, writes, applied, told>>
  BY DEF Cancel, Cancellable, history
<1> DEFINE r == [ops[o] EXCEPT !.status = "cancelled", !.challenge = 0]
<1>2. WriteOp(o, r) \/ WriteOpFails(o, r) BY DEF Cancel
<1>3. /\ o \in Prepared /\ Sent(o) /\ Consented(o) /\ TypeOK /\ ops[o] \in OperationRecord
  BY <1>1, GivenIs
<1>4. ~ops[o].again /\ ~ops[o].busy BY <1>1, <1>3 DEF Sent
<1>5. /\ r \in OperationRecord /\ r.key = ops[o].key /\ r.perm = ops[o].perm
      /\ r.status = "cancelled" /\ r.tries = ops[o].tries /\ ~r.busy /\ ~r.again
  BY <1>3, <1>4 DEF OperationRecord, Statuses
<1> HIDE DEF r
<1>6. OneMoves(o, r) /\ faults' \in Nat /\ (faults' = 0 => faults = 0 /\ ops'[o] = r)
  BY <1>2, <1>3, <1>5, WritesOne
<1>7. Kept(o) /\ OpOK(o)' BY <1>1, <1>3, <1>5, <1>6, EndsUnsent
<1>8. ops'[o].status \notin InRun /\ consent' \in [Ops -> Nat]
  BY <1>1, <1>3, <1>5, <1>6 DEF OneMoves, InRun, TypeOK
<1> QED BY <1>1, <1>3, <1>6, <1>7, <1>8, UserStepKeeps

LEMMA PollKeeps ==
  ASSUME IInv, NEW o \in Ops, Poll(o)
  PROVE  IInv'
<1>1. /\ \E g \in given : g[1] = o
      /\ ops[o].status = "awaiting"
      /\ UNCHANGED <<ledger, policy, late, up, call, admitted, resuming, recovery, history, calls,
                     crashes>>
      /\ UNCHANGED <<given, consent, writes, applied, told>>
  BY DEF Poll, IsLate, history
<1> DEFINE r == Expired(ops[o])
<1>2. WriteOp(o, r) \/ WriteOpFails(o, r) BY DEF Poll
<1>3. /\ o \in Prepared /\ Sent(o) /\ Consented(o) /\ TypeOK /\ ops[o] \in OperationRecord
  BY <1>1, GivenIs
<1>4. /\ r \in OperationRecord /\ r.key = ops[o].key /\ r.perm = ops[o].perm
      /\ r.status = "expired" /\ r.tries = ops[o].tries /\ ~r.busy
  BY <1>1, <1>3, ExpiredIs DEF Sent
<1> HIDE DEF r
<1>5. OneMoves(o, r) /\ faults' \in Nat /\ (faults' = 0 => faults = 0 /\ ops'[o] = r)
  BY <1>2, <1>3, <1>4, WritesOne
<1>6. Kept(o) /\ OpOK(o)' BY <1>1, <1>3, <1>4, <1>5, EndsUnsent
<1>7. ops'[o].status \notin InRun /\ consent' \in [Ops -> Nat]
  BY <1>1, <1>3, <1>4, <1>5 DEF OneMoves, InRun, TypeOK
<1> QED BY <1>1, <1>3, <1>5, <1>6, <1>7, UserStepKeeps

\* A step that leaves the records, the ledgers, the history and the calls.
LEMMA IdleStep ==
  ASSUME IInv, UNCHANGED <<files, history, call, admitted>>
  PROVE  /\ Records' /\ Admissions' /\ \A k \in Keys : CallOK(k)'
         /\ Prepared' = Prepared
         /\ \A o \in Prepared : InHands(o)' <=> InHands(o)
<1>1. UNCHANGED <<ops, ledger, given, consent, writes, applied, told>> BY DEF files, history
<1>2. Prepared' = Prepared BY <1>1 DEF Prepared
<1>3. ToldIsTrue' BY <1>1 DEF IInv, Records, ToldIsTrue
<1>4. Records' BY <1>1, <1>3, SameRecords
<1>5. Admissions' BY DEF IInv, Admissions, Calling
<1>6. \A k \in Keys : CallOK(k)'
  <2> SUFFICES ASSUME NEW k \in Keys, CallOK(k)
               PROVE  CallOK(k)'
    BY DEF IInv
  <2>1. ASSUME NEW c, Bound(k, c) /\ Preparing(c) /\ Viewing(c) /\ Running(c)
        PROVE  (Bound(k, c) /\ Preparing(c) /\ Viewing(c) /\ Running(c))'
    BY <1>1, <1>2, <2>1 DEF Bound, Newest, Preparing, Viewing, Running
  <2> QED BY <2>1 DEF CallOK
<1>7. \A o \in Prepared : InHands(o)' <=> InHands(o) BY <1>1 DEF InHands, Calling
<1> QED BY <1>2, <1>4, <1>5, <1>6, <1>7

LEMMA ResumeKeeps ==
  ASSUME IInv, NEW o \in Ops, Resume(o)
  PROVE  IInv'
<1>1. PICK k : k = ops[o].key
  OBVIOUS
<1>2. /\ o \in resuming /\ call[k] = NoCall /\ resuming' = resuming \ {o}
      /\ call' = [call EXCEPT ![k] = NewCall(FALSE)] \/ call' = call
      /\ UNCHANGED <<files, policy, late, up, admitted, recovery, history, bounds>>
      /\ UNCHANGED <<ops, ledger, given, consent, writes, applied, told, sweep, recovering,
                     loaded, calls, faults, crashes>>
  BY <1>1 DEF Resume, files, recovery, history, bounds
<1>3. TypeOK /\ Records /\ Admissions /\ Named /\ NothingForgotten /\ k \in Keys
  <2>1. o \in Prepared BY <1>2 DEF IInv, Named
  <2> QED BY <1>1, <2>1, PreparedIs DEF IInv
<1>4. PICK c \in Call \cup {NoCall} :
        /\ CallIsNow(k, c)
        /\ c # NoCall => c.at = "look" /\ ~c.replace
  <2>1. NewCall(FALSE) \in Call /\ NewCall(FALSE).at = "look" /\ ~NewCall(FALSE).replace
    BY DEF NewCall, Call, Points, Statuses
  <2>2. CASE call' = [call EXCEPT ![k] = NewCall(FALSE)] BY <1>3, <2>1, <2>2, Calls
  <2>3. CASE call' = call BY <1>2, <1>3, <2>3 DEF CallIsNow, TypeOK
  <2> QED BY <1>2, <2>2, <2>3
<1>5. Prepared' = Prepared BY <1>2 DEF Prepared
<1>6. TypeOK' BY <1>2, <1>3, <1>4 DEF TypeOK, CallIsNow
<1>7. ToldIsTrue' BY <1>2, <1>3 DEF Records, ToldIsTrue
<1>8. Records' BY <1>2, <1>7, SameRecords
<1>9. c # NoCall => c.at \notin Executing BY <1>4, Sorted
<1>10. Admissions' BY <1>2, <1>3, <1>4, <1>9, AdmissionsKeep
<1>11. Named' BY <1>2, <1>3, <1>5 DEF Named
<1>12. OthersStay(k) BY <1>2, <1>4 DEF OthersStay, CallIsNow
<1>13. ForgetsNone(k) BY <1>2, <1>5 DEF ForgetsNone, InHands, Calling
<1>14. NothingForgotten' BY <1>2, <1>3, <1>12, <1>13, NobodyForgotten
<1>15. CallOK(k)' BY <1>4, <1>9, Sorted DEF CallOK, CallIsNow, Bound, Preparing, Viewing, Running
<1>16. \A j \in Keys \ {k} : CallOK(j)' BY <1>3, <1>12, OthersKeep
<1> QED BY <1>3, <1>6, <1>8, <1>10, <1>11, <1>14, <1>15, <1>16 DEF IInv

LEMMA ClockKeeps ==
  ASSUME IInv, UpdatePolicy \/ Start \/ \E o \in Ops : FiveMinutesPass(o)
  PROVE  IInv'
<1>1. UNCHANGED <<files, call, admitted, resuming, recovery, history, bounds>>
  BY DEF UpdatePolicy, Start, FiveMinutesPass
<1>2. UNCHANGED <<ops, ledger, given, consent, writes, applied, told, sweep, recovering, loaded,
                  calls, faults, crashes>>
  BY <1>1 DEF files, recovery, history, bounds
<1>3. TypeOK /\ Named /\ NothingForgotten BY DEF IInv
<1>4. /\ Records' /\ Admissions' /\ Prepared' = Prepared /\ \A k \in Keys : CallOK(k)'
      /\ \A o \in Prepared : InHands(o)' <=> InHands(o)
  BY <1>1, IdleStep
<1>5. policy' \in [rev : Nat, decision : Decisions] /\ late' \subseteq Ops /\ up' \in BOOLEAN
  <2>1. CASE UpdatePolicy
    <3>1. policy.rev \in Nat BY <1>3 DEF TypeOK
    <3> QED BY <1>3, <2>1, <3>1 DEF TypeOK, UpdatePolicy
  <2>2. CASE Start BY <1>3, <2>2 DEF TypeOK, Start
  <2>3. CASE \E o \in Ops : FiveMinutesPass(o) BY <1>3, <2>3 DEF TypeOK, FiveMinutesPass
  <2> QED BY <2>1, <2>2, <2>3
<1>6. TypeOK' BY <1>1, <1>2, <1>3, <1>5 DEF TypeOK
<1>7. Named' BY <1>1, <1>2, <1>3, <1>4 DEF Named
<1>8. NothingForgotten'
  <2> SUFFICES ASSUME faults = 0, NEW o \in Prepared, ops[o].status \in InRun
               PROVE  InHands(o)' \/ ToRecover(o)'
    BY <1>2, <1>4 DEF NothingForgotten, InRun
  <2>1. InHands(o) \/ ToRecover(o) BY <1>3 DEF NothingForgotten, InRun
  <2> QED BY <1>2, <1>4, <2>1 DEF ToRecover
<1> QED BY <1>4, <1>6, <1>7, <1>8 DEF IInv

\* The child is down: nobody holds anything, and its recovery is still to come.
LEMMA DownKeeps ==
  ASSUME IInv, TypeOK', Records', Prepared' = Prepared, Down
  PROVE  IInv'
<1>1. /\ call' = [k \in Keys |-> NoCall] /\ admitted' = {} /\ resuming' = {}
      /\ sweep' = "starting" /\ recovering' = {} /\ loaded' = NoOp
  BY DEF Down
<1>2. \A k \in Keys : CallOK(k)' BY <1>1 DEF CallOK
<1>3. Admissions' BY <1>1 DEF Admissions, Calling
<1>4. Named' /\ NothingForgotten' BY <1>1 DEF Named, NothingForgotten, ToRecover
<1> QED BY <1>2, <1>3, <1>4 DEF IInv

LEMMA DownTypes ==
  ASSUME TypeOK, Down, UNCHANGED <<ledger, policy, late, history, calls, crashes>>,
         ops' \in [Ops -> OperationRecord \cup {NoOp}], faults' \in Nat
  PROVE  TypeOK'
<1>1. UNCHANGED <<given, consent, writes, applied, told>> BY DEF history
<1> QED BY <1>1 DEF TypeOK, Down

LEMMA CrashKeeps ==
  ASSUME IInv, Crash
  PROVE  IInv'
<1>1. /\ Down /\ crashes' = crashes + 1 /\ UNCHANGED <<files, policy, late, history, calls, faults>>
      /\ UNCHANGED <<ops, ledger, given, consent, writes, applied, told>>
  BY DEF Crash, files, history
<1>2. TypeOK'
  <2>0. TypeOK /\ crashes \in Nat BY DEF IInv, TypeOK
  <2>1. call' \in [Keys -> Call \cup {NoCall}] BY <1>1 DEF Down
  <2>2. up' \in BOOLEAN BY <1>1 DEF Down
  <2>3. crashes' \in Nat BY <1>1, <2>0
  <2>4. admitted' = {} /\ resuming' = {} /\ sweep' = "starting" /\ recovering' = {}
        /\ loaded' = NoOp
    BY <1>1 DEF Down
  <2> QED BY <1>1, <2>0, <2>1, <2>2, <2>3, <2>4 DEF TypeOK
<1>3. ToldIsTrue' /\ Prepared' = Prepared BY <1>1 DEF IInv, Records, ToldIsTrue, Prepared
<1>4. Records' BY <1>1, <1>3, SameRecords
<1> QED BY <1>1, <1>2, <1>3, <1>4, DownKeeps

LEMMA ListInterruptedKeeps ==
  ASSUME IInv, ListInterrupted
  PROVE  IInv'
<1>1. /\ sweep = "starting" /\ sweep' = "sweeping" /\ recovering' = Prepared
      /\ UNCHANGED <<files, policy, late, up, call, admitted, resuming, loaded, history, bounds>>
      /\ UNCHANGED <<ops, ledger, given, consent, writes, applied, told, calls, faults, crashes>>
  BY DEF ListInterrupted, files, history, bounds
<1>2. TypeOK /\ Named /\ Prepared \subseteq Ops BY PreparedIs DEF IInv
<1>3. /\ Records' /\ Admissions' /\ Prepared' = Prepared /\ \A k \in Keys : CallOK(k)'
  BY <1>1, IdleStep
<1>4. TypeOK' BY <1>1, <1>2 DEF TypeOK
<1>5. Named' BY <1>1, <1>2, <1>3 DEF Named
<1>6. NothingForgotten' BY <1>1, <1>3 DEF NothingForgotten, ToRecover
<1> QED BY <1>3, <1>4, <1>5, <1>6 DEF IInv

LEMMA LoadInterruptedKeeps ==
  ASSUME IInv, NEW o \in Ops, LoadInterrupted(o)
  PROVE  IInv'
<1>1. /\ loaded = NoOp /\ o \in recovering /\ recovering' = recovering \ {o}
      /\ loaded' = [op |-> o, status |-> ops[o].status]
      /\ UNCHANGED <<files, policy, late, up, call, admitted, resuming, sweep, history, bounds>>
      /\ UNCHANGED <<ops, ledger, given, consent, writes, applied, told, calls, faults, crashes>>
  BY DEF LoadInterrupted, files, history, bounds
<1>2. TypeOK /\ Named /\ NothingForgotten /\ o \in Prepared /\ sweep = "sweeping"
  BY <1>1 DEF IInv, Named, TypeOK
<1>3. /\ Records' /\ Admissions' /\ Prepared' = Prepared /\ \A k \in Keys : CallOK(k)'
      /\ \A q \in Prepared : InHands(q)' <=> InHands(q)
  BY <1>1, IdleStep
<1>4. loaded' \in [op : Ops, status : Statuses] /\ loaded' # NoOp /\ loaded'.op = o
      /\ loaded'.status = ops[o].status
  <2>1. ops[o].status \in Statuses BY <1>2, PreparedIs DEF OperationRecord
  <2> QED BY <1>1, <2>1, NothingAssumption
<1>5. TypeOK' BY <1>1, <1>2, <1>4 DEF TypeOK
<1>6. Named' BY <1>1, <1>2, <1>3, <1>4 DEF Named
<1>7. NothingForgotten'
  <2> SUFFICES ASSUME faults = 0, NEW q \in Prepared, ops[q].status \in InRun
               PROVE  InHands(q)' \/ ToRecover(q)'
    BY <1>1, <1>3 DEF NothingForgotten, InRun
  <2>1. InHands(q) \/ ToRecover(q) BY <1>2 DEF NothingForgotten, InRun
  <2> QED BY <1>1, <1>2, <1>3, <1>4, <2>1 DEF ToRecover, InRun
<1> QED BY <1>3, <1>5, <1>6, <1>7 DEF IInv

\* What the recovery does to the operation it has read.
LEMMA Interrupts ==
  ASSUME IInv, NEW o \in Prepared, loaded.op = o, MayInterrupt(o, loaded.status),
         WriteOp(o, Interruption(ops[o], loaded.status))
           \/ WriteOpFails(o, Interruption(ops[o], loaded.status)),
         UNCHANGED <<given, consent, writes, applied>>
  PROVE  /\ Kept(o) /\ Outside(o) /\ OpOK(o)'
         /\ ops' \in [Ops -> OperationRecord \cup {NoOp}] /\ faults' \in Nat
         /\ faults' = 0 => faults = 0 /\ ops'[o].status \notin InRun
<1>2. TypeOK /\ o \in Ops /\ ops[o] \in OperationRecord BY PreparedIs DEF IInv
<1> DEFINE r == Interruption(ops[o], loaded.status)
<1>3. CASE loaded.status = "queued"
  <2>1. PICK m \in OperationRecord :
          /\ m = Moved(ops[o], "failed") /\ m.key = ops[o].key /\ m.perm = ops[o].perm
          /\ m.status = "failed" /\ m.tries = ops[o].tries /\ ~m.busy
    BY <1>2, MovedIs DEF Statuses
  <2>2. r = [m EXCEPT !.again = TRUE] BY <1>3, <2>1 DEF Interruption
  <2>3. /\ r \in OperationRecord /\ r.key = ops[o].key /\ r.perm = ops[o].perm
        /\ r.status = "failed" /\ r.tries = ops[o].tries /\ ~r.busy
    BY <2>1, <2>2 DEF OperationRecord
  <2>4. ops[o].status = "queued" BY <1>3 DEF MayInterrupt
  <2>5. WriteOp(o, r) \/ WriteOpFails(o, r)
    OBVIOUS
  <2> HIDE DEF r
  <2>6. OneMoves(o, r) /\ faults' \in Nat /\ (faults' = 0 => faults = 0 /\ ops'[o] = r)
    BY <1>2, <2>3, <2>5, WritesOne
  <2>7. Kept(o) /\ OpOK(o)' BY <2>3, <2>4, <2>6, EndsUnsent
  <2>8. Outside(o) BY <2>4 DEF Outside
  <2> QED BY <2>3, <2>6, <2>7, <2>8 DEF OneMoves, InRun
<1>4. CASE loaded.status # "queued"
  <2>1. r = Doubted(ops[o]) /\ MayDoubt(o) BY <1>4 DEF Interruption, MayInterrupt
  <2>2. r \in OperationRecord /\ r.status = "unknown" BY <1>2, <2>1, DoubtedIs
  <2>3. WriteOp(o, r) \/ WriteOpFails(o, r)
    OBVIOUS
  <2>4. r = Doubted(ops[o]) BY <2>1
  <2> HIDE DEF r
  <2>5. OneMoves(o, r) /\ faults' \in Nat /\ (faults' = 0 => faults = 0 /\ ops'[o] = r)
    BY <1>2, <2>2, <2>3, WritesOne
  <2>6. Kept(o) /\ OpOK(o)' BY <2>1, <2>4, <2>5, DoubtsIt
  <2>7. ops[o].status # "awaiting" BY <2>1 DEF MayDoubt, InFlight
  <2>8. Outside(o) BY <2>2, <2>5, <2>7 DEF Outside, OneMoves
  <2> QED BY <2>2, <2>5, <2>6, <2>8 DEF OneMoves, InRun
<1> QED BY <1>3, <1>4

LEMMA RecoverLoadedKeeps ==
  ASSUME IInv, RecoverLoaded
  PROVE  IInv'
<1>1. PICK o : o = loaded.op
  OBVIOUS
<1>2. /\ loaded # NoOp /\ loaded' = NoOp
      /\ UNCHANGED <<ledger, policy, late, up, call, admitted, resuming, sweep, recovering,
                     history, calls, crashes>>
      /\ UNCHANGED <<given, consent, writes, applied, told>>
  BY DEF RecoverLoaded, history
<1>3. TypeOK /\ Named /\ NothingForgotten /\ o \in Prepared /\ o \in Ops
  BY <1>1, <1>2, PreparedIs DEF IInv, Named
<1>4. /\ Kept(o) /\ Outside(o) /\ OpOK(o)'
      /\ ops' \in [Ops -> OperationRecord \cup {NoOp}] /\ faults' \in Nat
      /\ faults' = 0 => faults = 0
      /\ faults' = 0 /\ loaded.status \in InFlight => ops'[o].status \notin InRun
      /\ loaded.status \notin InFlight => ops' = ops
  <2>1. CASE loaded.status \notin InFlight /\ UNCHANGED <<ops, faults>>
    <3>1. Kept(o) /\ OpOK(o)' BY <1>2, <1>3, <2>1, Stays
    <3>2. Outside(o) BY <1>2, <2>1 DEF Outside
    <3> QED BY <1>3, <2>1, <3>1, <3>2 DEF TypeOK
  <2>2. CASE loaded.status \in InFlight
    <3>1. MayInterrupt(o, loaded.status) /\ WriteOp(o, Interruption(ops[o], loaded.status))
      BY <1>1, <2>2 DEF RecoverLoaded
    <3> QED BY <1>1, <1>2, <1>3, <2>2, <3>1, Interrupts
  <2> QED BY <2>1, <2>2 DEF RecoverLoaded
<1>5. /\ Records' /\ Admissions' /\ \A k \in Keys : CallOK(k)'
      /\ Prepared' = Prepared
  BY <1>2, <1>3, <1>4, OutsideKeeps
<1>6. TypeOK' BY <1>2, <1>3, <1>4 DEF TypeOK
<1>7. Named' BY <1>2, <1>3, <1>5 DEF Named
<1>8. NothingForgotten'
  <2> SUFFICES ASSUME faults' = 0, NEW q \in Prepared, ops'[q].status \in InRun
               PROVE  InHands(q)' \/ ToRecover(q)'
    BY <1>5 DEF NothingForgotten, InRun
  <2>1. ops'[q] = ops[q] /\ (q = o => loaded.status \notin InFlight)
    BY <1>3, <1>4, PreparedIs DEF Kept
  <2>2. InHands(q) \/ ToRecover(q) BY <1>3, <1>4, <2>1 DEF NothingForgotten, InRun
  <2>3. ~(loaded.op = q /\ loaded.status \in {"running", "verifying"}) BY <1>1, <2>1 DEF InFlight
  <2> QED BY <1>2, <2>1, <2>2, <2>3 DEF InHands, Calling, ToRecover
<1> QED BY <1>5, <1>6, <1>7, <1>8 DEF IInv

LEMMA RecoveryFailsKeeps ==
  ASSUME IInv, RecoveryFails
  PROVE  IInv'
<1>1. PICK o : o = loaded.op
  OBVIOUS
<1>2. /\ loaded # NoOp /\ loaded.status \in InFlight /\ Down
      /\ UNCHANGED <<ledger, policy, late, history, calls, crashes>>
      /\ UNCHANGED <<given, consent, writes, applied, told>>
  BY DEF RecoveryFails, history
<1>3. TypeOK /\ o \in Prepared /\ o \in Ops BY <1>1, <1>2, PreparedIs DEF IInv, Named
<1>4. /\ Kept(o) /\ OpOK(o)'
      /\ ops' \in [Ops -> OperationRecord \cup {NoOp}] /\ faults' \in Nat
  <2>1. CASE UNCHANGED <<ops, faults>>
    <3>1. Kept(o) /\ OpOK(o)' BY <1>2, <1>3, <2>1, Stays
    <3> QED BY <1>3, <2>1, <3>1 DEF TypeOK
  <2>2. CASE /\ MayInterrupt(o, loaded.status)
             /\ WriteOpFails(o, Interruption(ops[o], loaded.status))
    BY <1>1, <1>2, <1>3, <2>2, Interrupts
  <2> QED BY <1>1, <2>1, <2>2 DEF RecoveryFails
<1>5. Records' /\ Prepared' = Prepared BY <1>2, <1>3, <1>4, KeptRecords, KeptStays
<1>6. TypeOK' BY <1>2, <1>3, <1>4, DownTypes
<1> QED BY <1>2, <1>5, <1>6, DownKeeps

LEMMA RecoveredKeeps ==
  ASSUME IInv, Recovered
  PROVE  IInv'
<1>1. /\ sweep = "sweeping" /\ sweep' = "done" /\ recovering = {} /\ loaded = NoOp
      /\ UNCHANGED <<files, policy, late, up, call, admitted, resuming, recovering, loaded,
                     history, bounds>>
      /\ UNCHANGED <<ops, ledger, given, consent, writes, applied, told, calls, faults, crashes>>
  BY DEF Recovered, files, history, bounds
<1>2. TypeOK /\ Named /\ NothingForgotten BY DEF IInv
<1>3. /\ Records' /\ Admissions' /\ Prepared' = Prepared /\ \A k \in Keys : CallOK(k)'
      /\ \A q \in Prepared : InHands(q)' <=> InHands(q)
  BY <1>1, IdleStep
<1>4. TypeOK' BY <1>1, <1>2 DEF TypeOK
<1>5. Named' BY <1>1, <1>2, <1>3 DEF Named
<1>6. NothingForgotten' BY <1>1, <1>2, <1>3 DEF NothingForgotten, ToRecover
<1> QED BY <1>3, <1>4, <1>5, <1>6 DEF IInv

(* The invariant *)

LEMMA Starts ==
  ASSUME Init
  PROVE  IInv
<1>1. Prepared = {} BY DEF Init, Prepared
<1>2. TypeOK
  <2>1. /\ ops \in [Ops -> OperationRecord \cup {NoOp}]
        /\ ledger \in [Keys -> Ledger \cup {NoLedger}]
        /\ call \in [Keys -> Call \cup {NoCall}]
        /\ consent \in [Ops -> Nat] /\ writes \in [Ops -> Nat]
    BY DEF Init
  <2>2. policy \in [rev : Nat, decision : Decisions] BY DEF Init
  <2> QED BY <2>1, <2>2 DEF Init, TypeOK
<1>3. Numbered
  <2>1. Prepared = 1 .. 0 BY <1>1
  <2> QED BY <2>1 DEF Numbered
<1>4. Records BY <1>1, <1>3 DEF Init, Records, ToldIsTrue, OpOK, Unused, LedgerOK
<1>5. Admissions /\ Named /\ NothingForgotten /\ \A k \in Keys : CallOK(k)
  BY <1>1 DEF Init, Admissions, Calling, Named, NothingForgotten, CallOK
<1> QED BY <1>2, <1>4, <1>5 DEF IInv

LEMMA Inductive ==
  ASSUME IInv, [Next]_vars
  PROVE  IInv'
<1>1. CASE UNCHANGED vars
  <2>1. /\ UNCHANGED <<files, policy, late, up, call, admitted, resuming, recovery, history,
                       bounds>>
        /\ UNCHANGED <<ops, ledger, given, consent, writes, applied, told, sweep, recovering,
                       loaded, calls, faults, crashes>>
    BY <1>1 DEF vars, files, recovery, history, bounds
  <2>2. /\ Records' /\ Admissions' /\ Prepared' = Prepared /\ \A k \in Keys : CallOK(k)'
        /\ \A q \in Prepared : InHands(q)' <=> InHands(q)
    BY <2>1, IdleStep
  <2>3. TypeOK' BY <2>1 DEF IInv, TypeOK
  <2>4. Named' BY <2>1, <2>2 DEF IInv, Named
  <2>5. \A q \in Prepared : ToRecover(q)' <=> ToRecover(q) BY <2>1 DEF ToRecover
  <2>6. NothingForgotten' BY <2>1, <2>2, <2>5 DEF IInv, NothingForgotten
  <2> QED BY <2>2, <2>3, <2>4, <2>6 DEF IInv
<1>2. CASE Next
  BY <1>2, RequestKeeps, CallStepKeeps, ConfirmKeeps, ResumeKeeps, CancelKeeps, PollKeeps,
     ClockKeeps, CrashKeeps, ListInterruptedKeeps, LoadInterruptedKeeps, RecoverLoadedKeeps,
     RecoveryFailsKeeps, RecoveredKeeps
     DEF Next, UserStep, RecoveryStep
<1> QED BY <1>1, <1>2

\* The inductive invariant holds of every behaviour: each record, its ledger, what was shown,
\* confirmed and sent, and how far the call of its key has come, agree.
THEOREM MessagesInvariant == Spec => []IInv
<1>1. Init => IInv BY Starts
<1>2. IInv /\ [Next]_vars => IInv' BY Inductive
<1> QED BY <1>1, <1>2, PTL DEF Spec

\* No operation is written twice, and of the operations of a key only card edits with an
\* unknown outcome are followed by another (service_message_execution.go:124).
THEOREM MessagesAreWrittenOnce == Spec => []WrittenOnce
<1>1. IInv => WrittenOnce
  <2> SUFFICES ASSUME IInv
               PROVE  WrittenOnce
    OBVIOUS
  <2>1. \A o \in Ops : writes[o] <= 1 BY DEF IInv, Records, OpOK, Sent, Unused
  <2> QED BY <2>1 DEF IInv, Records, InTurn, WrittenOnce
<1> QED BY <1>1, MessagesInvariant, PTL

\* What a record says of the remote side is so (operations.go, service_message_resume.go).
THEOREM RecordsAreTrue == Spec => []VerdictsAreTrue
<1>1. IInv => VerdictsAreTrue BY PreparedIs DEF IInv, Records, OpOK, Sent, VerdictsAreTrue
<1> QED BY <1>1, MessagesInvariant, PTL

\* Nothing is sent without the confirmation it needs, of the newest challenge
\* (capability_service.go, ConfirmWithEvidence).
THEOREM ConsentComesFirst == Spec => []ConsentBeforeWrite
<1>1. IInv => ConsentBeforeWrite
  BY PreparedIs DEF IInv, Records, OpOK, Consented, GivenUpTo, ConsentBeforeWrite
<1> QED BY <1>1, MessagesInvariant, PTL

\* Two calls never execute for one target at a time (execution_admission.go).
THEOREM TargetsHaveOneWriter == Spec => []OneWriterPerTarget
<1>1. IInv => OneWriterPerTarget BY DEF IInv, Admissions, OneWriterPerTarget
<1> QED BY <1>1, MessagesInvariant, PTL

\* A caller that was told of success can see the message, and once a recovery is over an
\* operation runs only in the hands of a call that claimed it (operations.go:676).
THEOREM CallersAndRecovery == Spec => [](TypeOK /\ ToldIsTrue /\ NothingLeftRunning)
<1>1. IInv => TypeOK /\ ToldIsTrue /\ NothingLeftRunning
  <2> SUFFICES ASSUME IInv
               PROVE  TypeOK /\ ToldIsTrue /\ NothingLeftRunning
    OBVIOUS
  <2>1. sweep = "done" => \A o \in Ops : ~ToRecover(o) BY DEF IInv, Named, ToRecover
  <2>2. \A o \in Prepared : o \in Ops BY PreparedIs DEF IInv
  <2> QED BY <2>1, <2>2 DEF IInv, Records, NothingForgotten, NothingLeftRunning, InHands
<1> QED BY <1>1, MessagesInvariant, PTL

\* All of them together: what is sent has consent and one writer, and what callers are told and
\* a recovery leaves behind is so (service_message_execution.go, operations.go).
THEOREM MessagesAreSound == Spec => []MessagesSound
<1>1. TypeOK /\ ToldIsTrue /\ NothingLeftRunning /\ ConsentBeforeWrite /\ OneWriterPerTarget
      => MessagesSound
  BY DEF MessagesSound
<1> QED BY <1>1, ConsentComesFirst, TargetsHaveOneWriter, CallersAndRecovery, PTL


(* The cache of the snapshots *)

SnapshotsBounds ==
  MaxReads \in Nat /\ MaxChildren \in Nat /\ SnapshotsBudgets \subseteq [{"changes", "reads"} -> Nat]

\* What a child was asked for is labelled with its generation, or with none; and only the
\* first kind is looked at with the lock held.
LabelledRight ==
  /\ alive => generation > 0
  /\ \A c \in S!Callers :
       /\ reader[c].pc \in {"asked", "gathered", "answered", "checked"} =>
            reader[c].label \in {0, reader[c].snapshot.child}
       /\ reader[c].pc = "checked" => reader[c].label = reader[c].snapshot.child
       /\ reader[c].pc \in {"connecting", "connect"} => c \in S!Children
       /\ c \in S!Children /\ reader[c].pc # "idle" => reader[c].label = c

SnapshotsInv == S!TypeOK /\ LabelledRight /\ S!OldNeverLands

LEMMA SnapshotsStart == S!Init /\ SnapshotsBounds => SnapshotsInv
<1> SUFFICES ASSUME S!Init, SnapshotsBounds PROVE SnapshotsInv
  OBVIOUS
<1> USE DEF S!Init, S!Begun, S!None, S!Blank, S!NoRead, S!NoPush, S!Quiet, S!Snapshot
<1>1. S!Blank \in S!Snapshot
  OBVIOUS
<1>2. reader \in [S!Callers ->
        [pc : {"idle", "connecting", "connect", "labelled", "asked", "gathered", "answered",
               "checked"},
         label : 0 .. generation, snapshot : S!Snapshot]]
  OBVIOUS
<1>3. push \in [PushSlots -> [pc : {"none", "sent", "checked"}, snapshot : S!Snapshot]]
  OBVIOUS
<1>4. cached \in [generation : 0 .. generation, last : S!Snapshot]
  OBVIOUS
<1>5. S!TypeOK BY <1>2, <1>3, <1>4 DEF S!TypeOK, SnapshotsBounds
<1>6. LabelledRight BY DEF LabelledRight
<1>7. S!OldNeverLands BY DEF S!OldNeverLands, S!Callers, S!Children
<1> QED BY <1>5, <1>6, <1>7 DEF SnapshotsInv

\* What an action that leaves the reads and the copy alone keeps.
LEMMA SnapshotsElsewhere ==
  ASSUME SnapshotsInv, UNCHANGED <<reader, cached, generation>>, alive' => alive
  PROVE  LabelledRight' /\ S!OldNeverLands'
BY DEF SnapshotsInv, LabelledRight, S!OldNeverLands, S!None

LEMMA SnapshotsChild ==
  ASSUME SnapshotsInv, S!Change \/ S!Gather \/ S!Publish \/ S!ChildEnds
  PROVE  SnapshotsInv'
<1> USE DEF S!TypeOK, S!Spend, S!None, S!Quiet, S!NoPush, S!Snapshot
<1>1. S!TypeOK BY DEF SnapshotsInv
<1>2. CASE S!Change
  <2>1. S!TypeOK' BY <1>1, <1>2 DEF S!Change
  <2> QED BY <1>2, <2>1, SnapshotsElsewhere DEF SnapshotsInv, S!Change
<1>3. CASE S!Gather
  <2>1. S!TypeOK' BY <1>1, <1>3 DEF S!Gather
  <2> QED BY <1>3, <2>1, SnapshotsElsewhere DEF SnapshotsInv, S!Gather
<1>4. CASE S!Publish
  <2>1. S!Numbered(publisher.state) \in S!Snapshot BY <1>1 DEF S!Numbered
  <2>2. S!TypeOK' BY <1>1, <1>4, <2>1 DEF S!Publish
  <2> QED BY <1>4, <2>2, SnapshotsElsewhere DEF SnapshotsInv, S!Publish
<1>5. CASE S!ChildEnds
  <2>1. S!TypeOK' BY <1>1, <1>5 DEF S!ChildEnds
  <2> QED BY <1>5, <2>1, SnapshotsElsewhere DEF SnapshotsInv, S!ChildEnds
<1> QED BY <1>2, <1>3, <1>4, <1>5

\* A new child: whatever there is was labelled with a generation before it.
LEMMA SnapshotsNewChild == ASSUME SnapshotsInv, S!NewChild, MaxReads \in Nat, MaxChildren \in Nat PROVE SnapshotsInv'
<1> USE DEF S!Begun, S!None, S!NoRead, S!Blank
<1>1. S!TypeOK /\ generation \in Nat /\ generation' = generation + 1
  BY DEF SnapshotsInv, S!TypeOK, S!NewChild
<1>2. 0 .. generation \subseteq 0 .. generation' /\ generation + 1 \in S!Children
  BY <1>1 DEF S!NewChild, S!Children
<1>3. S!Snapshot \subseteq [rev : Nat, state : Nat, child : 0 .. generation']
  BY <1>2 DEF S!Snapshot
<1>4. S!Snapshot \subseteq S!Snapshot' BY <1>3 DEF S!Snapshot
<1>5. [pc |-> "connecting", label |-> generation', snapshot |-> S!Blank] \in
        [pc : {"idle", "connecting", "connect", "labelled", "asked", "gathered", "answered",
               "checked"},
         label : 0 .. generation', snapshot : S!Snapshot']
  BY <1>1 DEF S!Snapshot
<1>6. reader' = [reader EXCEPT ![generation + 1] =
                   [pc |-> "connecting", label |-> generation', snapshot |-> S!Blank]]
  BY <1>1 DEF S!NewChild
<1>7. reader' \in [S!Callers ->
        [pc : {"idle", "connecting", "connect", "labelled", "asked", "gathered", "answered",
               "checked"},
         label : 0 .. generation', snapshot : S!Snapshot']]
  BY <1>1, <1>2, <1>4, <1>5, <1>6 DEF S!TypeOK
<1>8. push' \in [PushSlots -> [pc : {"none", "sent", "checked"}, snapshot : S!Snapshot']]
  BY <1>1, <1>4 DEF S!TypeOK, S!NewChild
<1>9. cached' \in [generation : 0 .. generation', last : S!Snapshot']
  BY <1>1, <1>2, <1>4 DEF S!TypeOK, S!NewChild
<1>10. S!TypeOK' BY <1>1, <1>7, <1>8, <1>9 DEF S!TypeOK, S!NewChild
<1>11. LabelledRight'
  BY <1>1, <1>2, <1>6 DEF SnapshotsInv, LabelledRight, S!TypeOK, S!Callers, S!NewChild
<1>12. S!OldNeverLands'
  BY <1>1, <1>6 DEF SnapshotsInv, S!OldNeverLands, S!NewChild, S!TypeOK, S!Callers
<1> QED BY <1>10, <1>11, <1>12 DEF SnapshotsInv

\* A read, one step on: nothing but the read changes, and perhaps the child's counter.
LEMMA SnapshotsReadMoves ==
  ASSUME SnapshotsInv, MaxChildren \in Nat, NEW c \in S!Callers,
         S!Reads(c) \/ S!Answers(c) \/ S!Call(c) \/ S!CallFails(c) \/ S!Fetch(c) \/ S!CheckRead(c)
  PROVE  SnapshotsInv'
<1> DEFINE r == reader[c]
           v == reader'[c]
           Fine == /\ reader' \in [S!Callers ->
                         [pc : {"idle", "connecting", "connect", "labelled", "asked",
                                "gathered", "answered", "checked"},
                          label : 0 .. generation, snapshot : S!Snapshot]]
                   /\ \A d \in S!Callers : d # c => reader'[d] = reader[d]
                   /\ v.pc \in {"idle", "labelled", "asked", "gathered", "answered", "checked"}
                   /\ v.pc \in {"asked", "gathered", "answered", "checked"} =>
                        v.label \in {0, v.snapshot.child}
                   /\ v.pc = "checked" => v.label = v.snapshot.child
                   /\ \/ v.pc = "idle"
                      \/ v.label = r.label /\ r.pc \notin {"idle", "connecting", "connect"}
                      \/ c \in S!Readers
                   /\ revision' \in Nat /\ snapshotsLeft' \in [{"changes", "reads"} -> Nat]
<1> USE DEF S!Begun, S!None, S!NoRead, S!IsCurrentGeneration
<1>1. /\ S!TypeOK /\ LabelledRight /\ S!OldNeverLands
      /\ UNCHANGED <<alive, generation, cached, state, publisher, push, previous>>
  BY DEF SnapshotsInv, S!Reads, S!Answers, S!Call, S!CallFails, S!CheckRead, S!Fetch
<1>2. /\ reader \in [S!Callers ->
            [pc : {"idle", "connecting", "connect", "labelled", "asked", "gathered", "answered",
                   "checked"},
             label : 0 .. generation, snapshot : S!Snapshot]]
      /\ generation \in Nat /\ state \in Nat /\ revision \in Nat
      /\ snapshotsLeft \in [{"changes", "reads"} -> Nat]
      /\ r.pc \in {"asked", "gathered", "answered", "checked"} => r.label \in {0, r.snapshot.child}
      /\ alive => generation > 0
      /\ S!Blank \in S!Snapshot /\ r.snapshot \in S!Snapshot
  BY <1>1 DEF S!TypeOK, LabelledRight, S!Blank, S!Snapshot
<1>3. ASSUME S!Reads(c) PROVE Fine
  <2>0. [r.snapshot EXCEPT !.state = state] \in S!Snapshot BY <1>2 DEF S!Snapshot
  <2>1. reader' \in [S!Callers ->
          [pc : {"idle", "connecting", "connect", "labelled", "asked",
                 "gathered", "answered", "checked"},
           label : 0 .. generation, snapshot : S!Snapshot]]
    BY <1>2, <2>0, <1>3 DEF S!Reads
  <2>2. \A d \in S!Callers : d # c => reader'[d] = reader[d] BY <1>2, <1>3 DEF S!Reads
  <2>3. /\ v.pc \in {"idle", "labelled", "asked", "gathered", "answered", "checked"}
        /\ v.pc \in {"asked", "gathered", "answered", "checked"} =>
                        v.label \in {0, v.snapshot.child}
        /\ v.pc = "checked" => v.label = v.snapshot.child
    BY <1>2, <1>3 DEF S!Reads
  <2>4. /\ \/ v.pc = "idle"
           \/ v.label = r.label /\ r.pc \notin {"idle", "connecting", "connect"}
           \/ c \in S!Readers
    BY <1>2, <1>3 DEF S!Reads
  <2>5. revision' \in Nat /\ snapshotsLeft' \in [{"changes", "reads"} -> Nat]
    BY <1>2, <1>3 DEF S!Reads
  <2> QED BY <2>1, <2>2, <2>3, <2>4, <2>5
<1>4. ASSUME S!Answers(c) PROVE Fine
  <2>0. S!Numbered(r.snapshot.state) \in S!Snapshot /\ S!Numbered(r.snapshot.state).child = generation
    BY <1>2 DEF S!Numbered, S!Snapshot
  <2>1. reader' \in [S!Callers ->
          [pc : {"idle", "connecting", "connect", "labelled", "asked",
                 "gathered", "answered", "checked"},
           label : 0 .. generation, snapshot : S!Snapshot]]
    BY <1>2, <2>0, <1>4 DEF S!Answers, S!Numbered
  <2>2. \A d \in S!Callers : d # c => reader'[d] = reader[d]
    BY <1>2, <1>4 DEF S!Answers, S!Numbered
  <2>3. /\ v.pc \in {"idle", "labelled", "asked", "gathered", "answered", "checked"}
        /\ v.pc \in {"asked", "gathered", "answered", "checked"} =>
                        v.label \in {0, v.snapshot.child}
        /\ v.pc = "checked" => v.label = v.snapshot.child
    BY <1>2, <1>4 DEF S!Answers, S!Numbered
  <2>4. /\ \/ v.pc = "idle"
           \/ v.label = r.label /\ r.pc \notin {"idle", "connecting", "connect"}
           \/ c \in S!Readers
    BY <1>2, <1>4 DEF S!Answers, S!Numbered
  <2>5. revision' \in Nat /\ snapshotsLeft' \in [{"changes", "reads"} -> Nat]
    BY <1>2, <1>4 DEF S!Answers, S!Numbered
  <2> QED BY <2>1, <2>2, <2>3, <2>4, <2>5
<1>5. ASSUME S!Call(c) PROVE Fine
  <2>0. [r.snapshot EXCEPT !.child = generation] \in S!Snapshot BY <1>2 DEF S!Snapshot
  <2>1. reader' \in [S!Callers ->
          [pc : {"idle", "connecting", "connect", "labelled", "asked",
                 "gathered", "answered", "checked"},
           label : 0 .. generation, snapshot : S!Snapshot]]
    BY <1>2, <2>0, <1>5 DEF S!Call, S!MayCall
  <2>2. \A d \in S!Callers : d # c => reader'[d] = reader[d] BY <1>2, <1>5 DEF S!Call, S!MayCall
  <2>3. /\ v.pc \in {"idle", "labelled", "asked", "gathered", "answered", "checked"}
        /\ v.pc \in {"asked", "gathered", "answered", "checked"} =>
                        v.label \in {0, v.snapshot.child}
        /\ v.pc = "checked" => v.label = v.snapshot.child
    BY <1>2, <1>5 DEF S!Call, S!MayCall
  <2>4. /\ \/ v.pc = "idle"
           \/ v.label = r.label /\ r.pc \notin {"idle", "connecting", "connect"}
           \/ c \in S!Readers
    BY <1>2, <1>5 DEF S!Call, S!MayCall
  <2>5. revision' \in Nat /\ snapshotsLeft' \in [{"changes", "reads"} -> Nat]
    BY <1>2, <1>5 DEF S!Call, S!MayCall
  <2> QED BY <2>1, <2>2, <2>3, <2>4, <2>5
<1>6. ASSUME S!CallFails(c) PROVE Fine
  <2>1. reader' \in [S!Callers ->
          [pc : {"idle", "connecting", "connect", "labelled", "asked",
                 "gathered", "answered", "checked"},
           label : 0 .. generation, snapshot : S!Snapshot]]
    BY <1>2, <1>6 DEF S!CallFails
  <2>2. \A d \in S!Callers : d # c => reader'[d] = reader[d] BY <1>2, <1>6 DEF S!CallFails
  <2>3. /\ v.pc \in {"idle", "labelled", "asked", "gathered", "answered", "checked"}
        /\ v.pc \in {"asked", "gathered", "answered", "checked"} =>
                        v.label \in {0, v.snapshot.child}
        /\ v.pc = "checked" => v.label = v.snapshot.child
    BY <1>2, <1>6 DEF S!CallFails
  <2>4. /\ \/ v.pc = "idle"
           \/ v.label = r.label /\ r.pc \notin {"idle", "connecting", "connect"}
           \/ c \in S!Readers
    BY <1>2, <1>6 DEF S!CallFails
  <2>5. revision' \in Nat /\ snapshotsLeft' \in [{"changes", "reads"} -> Nat]
    BY <1>2, <1>6 DEF S!CallFails
  <2> QED BY <2>1, <2>2, <2>3, <2>4, <2>5
<1>7. ASSUME S!Fetch(c) PROVE Fine
  <2>1. reader' \in [S!Callers ->
          [pc : {"idle", "connecting", "connect", "labelled", "asked",
                 "gathered", "answered", "checked"},
           label : 0 .. generation, snapshot : S!Snapshot]]
    BY <1>2, <1>7 DEF S!Fetch, S!Spend
  <2>2. \A d \in S!Callers : d # c => reader'[d] = reader[d] BY <1>2, <1>7 DEF S!Fetch, S!Spend
  <2>3. /\ v.pc \in {"idle", "labelled", "asked", "gathered", "answered", "checked"}
        /\ v.pc \in {"asked", "gathered", "answered", "checked"} =>
                        v.label \in {0, v.snapshot.child}
        /\ v.pc = "checked" => v.label = v.snapshot.child
    BY <1>2, <1>7 DEF S!Fetch, S!Spend
  <2>4. /\ \/ v.pc = "idle"
           \/ v.label = r.label /\ r.pc \notin {"idle", "connecting", "connect"}
           \/ c \in S!Readers
    BY <1>2, <1>7 DEF S!Fetch, S!Spend
  <2>5. revision' \in Nat /\ snapshotsLeft' \in [{"changes", "reads"} -> Nat]
    BY <1>2, <1>7 DEF S!Fetch, S!Spend
  <2> QED BY <2>1, <2>2, <2>3, <2>4, <2>5
<1>8. ASSUME S!CheckRead(c) PROVE Fine
  <2>1. reader' \in [S!Callers ->
          [pc : {"idle", "connecting", "connect", "labelled", "asked",
                 "gathered", "answered", "checked"},
           label : 0 .. generation, snapshot : S!Snapshot]]
    BY <1>2, <1>8 DEF S!CheckRead
  <2>2. \A d \in S!Callers : d # c => reader'[d] = reader[d] BY <1>2, <1>8 DEF S!CheckRead
  <2>3. /\ v.pc \in {"idle", "labelled", "asked", "gathered", "answered", "checked"}
        /\ v.pc \in {"asked", "gathered", "answered", "checked"} =>
                        v.label \in {0, v.snapshot.child}
        /\ v.pc = "checked" => v.label = v.snapshot.child
    BY <1>2, <1>8 DEF S!CheckRead
  <2>4. /\ \/ v.pc = "idle"
           \/ v.label = r.label /\ r.pc \notin {"idle", "connecting", "connect"}
           \/ c \in S!Readers
    BY <1>2, <1>8 DEF S!CheckRead
  <2>5. revision' \in Nat /\ snapshotsLeft' \in [{"changes", "reads"} -> Nat]
    BY <1>2, <1>8 DEF S!CheckRead
  <2> QED BY <2>1, <2>2, <2>3, <2>4, <2>5
<1>9. Fine BY <1>3, <1>4, <1>5, <1>6, <1>7, <1>8
<1>10. S!Snapshot' = S!Snapshot BY <1>1 DEF S!Snapshot
<1>11. S!TypeOK' BY <1>1, <1>9, <1>10 DEF S!TypeOK
<1>12. c \in S!Readers => c \notin S!Children BY DEF S!Readers, S!Children
<1>13. LabelledRight'
  <2>1. \A d \in S!Callers : d # c =>
          /\ reader'[d].pc \in {"asked", "gathered", "answered", "checked"} =>
               reader'[d].label \in {0, reader'[d].snapshot.child}
          /\ reader'[d].pc = "checked" => reader'[d].label = reader'[d].snapshot.child
          /\ reader'[d].pc \in {"connecting", "connect"} => d \in S!Children
          /\ d \in S!Children /\ reader'[d].pc # "idle" => reader'[d].label = d
    BY <1>1, <1>9 DEF LabelledRight
  <2>2. /\ v.pc \notin {"connecting", "connect"}
        /\ c \in S!Children /\ v.pc # "idle" => v.label = c
    BY <1>1, <1>9, <1>12 DEF LabelledRight
  <2> QED BY <1>1, <1>9, <2>1, <2>2 DEF LabelledRight
<1>14. S!OldNeverLands' BY <1>1, <1>9, <1>12 DEF S!OldNeverLands, S!Callers
<1> QED BY <1>11, <1>13, <1>14 DEF SnapshotsInv

\* A handshake begins to read when the copy is of its generation.
LEMMA SnapshotsHandshake ==
  ASSUME SnapshotsInv, NEW g \in S!Children, S!ConnectChecks(g) \/ S!Connect(g)
  PROVE  SnapshotsInv'
<1> USE DEF S!Begun, S!None, S!NoRead
<1>1. /\ S!TypeOK /\ LabelledRight /\ S!OldNeverLands /\ g \in S!Callers
      /\ UNCHANGED <<alive, generation, state, revision, publisher, push, previous, snapshotsLeft>>
  BY DEF SnapshotsInv, S!ConnectChecks, S!Connect, S!Callers
<1>2. S!Blank \in S!Snapshot /\ S!Snapshot' = S!Snapshot
  BY <1>1 DEF S!TypeOK, S!Snapshot, S!Blank
<1>3. reader[g].pc # "idle" /\ reader[g].label = g /\ g \in 0 .. generation
  BY <1>1 DEF LabelledRight, S!ConnectChecks, S!Connect, S!TypeOK
<1>4. S!TypeOK' BY <1>1, <1>2, <1>3 DEF S!TypeOK, S!ConnectChecks, S!Connect
<1>5. /\ \A d \in S!Callers : d # g => reader'[d] = reader[d]
      /\ reader'[g].pc \in {"idle", "connect", "labelled"}
      /\ reader'[g].pc # "idle" => reader'[g].label = g
      /\ reader'[g].pc = "labelled" => cached'.generation = g
      /\ cached' = cached \/ (g >= cached.generation /\ cached'.last.rev = 0 /\ cached'.generation = g)
  BY <1>1, <1>3 DEF S!TypeOK, S!ConnectChecks, S!Connect, S!Newer, S!Blank
<1>6. LabelledRight' BY <1>1, <1>5 DEF LabelledRight, S!Callers
<1>7. S!OldNeverLands' BY <1>1, <1>5 DEF S!OldNeverLands, S!Callers, S!Children, S!TypeOK
<1> QED BY <1>4, <1>6, <1>7 DEF SnapshotsInv

\* What is kept was labelled with the connection the copy belongs to.
LEMMA SnapshotsStore ==
  ASSUME SnapshotsInv, NEW label, NEW snapshot \in S!Snapshot,
         label = snapshot.child, S!Keep(label, snapshot), UNCHANGED generation
  PROVE  /\ cached' \in [generation : 0 .. generation, last : S!Snapshot]
         /\ cached'.generation = cached.generation
         /\ cached'.last.rev # 0 => cached'.last.child = cached'.generation
BY DEF SnapshotsInv, S!TypeOK, S!OldNeverLands, S!Keep, S!CheckedAgain, S!None

LEMMA SnapshotsStores ==
  ASSUME SnapshotsInv, MaxReads \in Nat, MaxChildren \in Nat,
         \/ \E c \in S!Callers : S!StoreRead(c)
         \/ \E k \in PushSlots : S!CheckPush(k) \/ S!StorePush(k)
  PROVE  SnapshotsInv'
<1> USE DEF S!Begun, S!None, S!NoRead, S!NoPush
<1>1. /\ S!TypeOK /\ LabelledRight /\ S!OldNeverLands
      /\ UNCHANGED <<alive, generation, state, revision, publisher, previous, snapshotsLeft>>
  BY DEF SnapshotsInv, S!StoreRead, S!CheckPush, S!StorePush
<1>2. S!Blank \in S!Snapshot /\ S!Snapshot' = S!Snapshot
  BY <1>1 DEF S!TypeOK, S!Snapshot, S!Blank
<1>3. CASE \E c \in S!Callers : S!StoreRead(c)
  <2>1. PICK c \in S!Callers : S!StoreRead(c) BY <1>3
  <2>2. /\ reader[c].snapshot \in S!Snapshot /\ reader[c].label = reader[c].snapshot.child
        /\ S!Keep(reader[c].label, reader[c].snapshot) /\ push' = push
        /\ reader' = [reader EXCEPT ![c] = S!NoRead]
    BY <1>1, <2>1 DEF S!TypeOK, LabelledRight, S!StoreRead
  <2>3. /\ cached' \in [generation : 0 .. generation, last : S!Snapshot]
        /\ cached'.generation = cached.generation
        /\ cached'.last.rev # 0 => cached'.last.child = cached'.generation
    BY <1>1, <2>2, SnapshotsStore
  <2>4. S!TypeOK' BY <1>1, <1>2, <2>2, <2>3 DEF S!TypeOK
  <2>5. LabelledRight' BY <1>1, <2>2 DEF S!TypeOK, LabelledRight
  <2>6. S!OldNeverLands' BY <1>1, <2>2, <2>3 DEF S!TypeOK, S!OldNeverLands, S!Callers
  <2> QED BY <2>4, <2>5, <2>6 DEF SnapshotsInv
<1>4. CASE \E k \in PushSlots : S!CheckPush(k)
  <2>1. S!TypeOK' BY <1>1, <1>2, <1>4 DEF S!TypeOK, S!CheckPush
  <2> QED BY <1>1, <1>4, <2>1, SnapshotsElsewhere DEF SnapshotsInv, S!CheckPush
<1>5. CASE \E k \in PushSlots : S!StorePush(k)
  <2>1. PICK k \in PushSlots : S!StorePush(k) BY <1>5
  <2>2. /\ push[k].snapshot \in S!Snapshot /\ reader' = reader
        /\ S!Keep(push[k].snapshot.child, push[k].snapshot)
        /\ push' = [push EXCEPT ![k] = S!NoPush]
    BY <1>1, <2>1 DEF S!TypeOK, S!StorePush
  <2>3. /\ cached' \in [generation : 0 .. generation, last : S!Snapshot]
        /\ cached'.generation = cached.generation
        /\ cached'.last.rev # 0 => cached'.last.child = cached'.generation
    BY <1>1, <2>2, SnapshotsStore
  <2>4. S!TypeOK' BY <1>1, <1>2, <2>2, <2>3 DEF S!TypeOK
  <2>5. LabelledRight' BY <1>1, <2>2 DEF LabelledRight
  <2>6. S!OldNeverLands' BY <1>1, <2>2, <2>3 DEF S!OldNeverLands
  <2> QED BY <2>4, <2>5, <2>6 DEF SnapshotsInv
<1> QED BY <1>3, <1>4, <1>5

LEMMA SnapshotsStep == SnapshotsInv /\ SnapshotsBounds /\ [S!Next]_S!vars => SnapshotsInv'
<1> SUFFICES ASSUME SnapshotsInv, SnapshotsBounds, [S!Next]_S!vars PROVE SnapshotsInv'
  OBVIOUS
<1> USE DEF SnapshotsBounds
<1>1. CASE UNCHANGED S!vars
  <2>1. S!TypeOK' BY <1>1 DEF SnapshotsInv, S!TypeOK, S!Snapshot, S!vars
  <2> QED BY <1>1, <2>1, SnapshotsElsewhere DEF SnapshotsInv, S!vars
<1>2. CASE S!Next
  <2>1. ASSUME S!Change \/ S!Gather \/ S!Publish \/ S!ChildEnds PROVE SnapshotsInv'
    BY <2>1, SnapshotsChild
  <2>2. ASSUME S!NewChild PROVE SnapshotsInv'
    BY <2>2, SnapshotsNewChild
  <2>3. ASSUME NEW g \in S!Children, S!ConnectChecks(g) \/ S!Connect(g) PROVE SnapshotsInv'
    BY <2>3, SnapshotsHandshake
  <2>4. ASSUME NEW c \in S!Callers, S!Fetch(c) \/ S!CallSteps(c) PROVE SnapshotsInv'
    BY <2>4, SnapshotsReadMoves, SnapshotsStores DEF S!CallSteps
  <2>5. ASSUME NEW k \in PushSlots, S!PushSteps(k) PROVE SnapshotsInv'
    BY <2>5, SnapshotsStores DEF S!PushSteps
  <2> QED BY <1>2, <2>1, <2>2, <2>3, <2>4, <2>5 DEF S!Next
<1> QED BY <1>1, <1>2

\* For any number of children, reads and pushes: the snapshot the Core shows was said by the
\* child its copy belongs to, and a handshake that was overtaken never takes the copy back.
THEOREM ShownSnapshotIsCurrent ==
  ASSUME SnapshotsBounds
  PROVE  S!Spec => []OldNeverLands
<1>1. S!Init => SnapshotsInv BY SnapshotsStart
<1>2. SnapshotsInv /\ [S!Next]_S!vars => SnapshotsInv' BY SnapshotsStep
<1>3. SnapshotsInv => OldNeverLands BY DEF SnapshotsInv, OldNeverLands
<1> QED BY <1>1, <1>2, <1>3, PTL DEF S!Spec

\* The copies, readers and pushes of the snapshots keep their types.
THEOREM SnapshotsAreTyped == ASSUME SnapshotsBounds PROVE S!Spec => []S!TypeOK
<1>1. S!Init => SnapshotsInv BY SnapshotsStart
<1>2. SnapshotsInv /\ [S!Next]_S!vars => SnapshotsInv' BY SnapshotsStep
<1>3. SnapshotsInv => S!TypeOK BY DEF SnapshotsInv
<1> QED BY <1>1, <1>2, <1>3, PTL DEF S!Spec

(* The app server client *)

ProcessesAreNumbered == Processes \subseteq Nat \ {0}

\* Once it is closed the client starts nothing, so the last process stays the last.
ProcessesInv ==
  /\ process \in [Processes -> {"none", "runs", "killed", "ended"}]
  /\ cmd \in Processes \cup {0} /\ exitDone \in Processes \cup {0}
  /\ closer \in {"no", "waits", "ok", "failed"}
  /\ closer # "no" => closed
  /\ closer = "waits" => exitDone # 0
  /\ X!OneProcess

LEMMA ProcessesStart == ProcessesAreNumbered /\ X!Init => ProcessesInv
BY DEF ProcessesAreNumbered, X!Init, ProcessesInv, X!OneProcess, X!NoProcess

\* The steps that neither start nor end a process.
LEMMA ProcessesElsewhere ==
  ASSUME ProcessesInv, UNCHANGED <<cmd, closed, process, exitDone, closer>>
  PROVE  ProcessesInv'
BY DEF ProcessesInv, X!OneProcess

LEMMA ProcessesStop ==
  ASSUME ProcessesAreNumbered, ProcessesInv, X!Stop, UNCHANGED <<exitDone>>,
         closed' \in {closed, TRUE},
         closer' = closer \/ (closed' /\ closer' \in {"ok", "waits"} /\ (closer' = "ok" <=> exitDone = 0))
  PROVE  ProcessesInv'
BY DEF ProcessesAreNumbered, ProcessesInv, X!OneProcess, X!Stop, X!TellPending, X!Running, X!NoProcess

LEMMA ProcessesStep == ProcessesAreNumbered /\ ProcessesInv /\ [X!Next]_X!vars => ProcessesInv'
<1> SUFFICES ASSUME ProcessesAreNumbered, ProcessesInv, [X!Next]_X!vars PROVE ProcessesInv'
  OBVIOUS
<1>1. CASE UNCHANGED X!vars BY <1>1, ProcessesElsewhere DEF X!vars
<1>2. ASSUME NEW c \in CodexCallers, X!Start(c) PROVE ProcessesInv'
  <2>1. CASE UNCHANGED <<cmd, process, exitDone>> BY <1>2, <2>1, ProcessesElsewhere DEF X!Start
  <2>2. CASE ~UNCHANGED <<cmd, process, exitDone>>
    <3>1. PICK p \in Processes : /\ process[p] = "none" /\ process' = [process EXCEPT ![p] = "runs"]
                                 /\ cmd' = p /\ exitDone' = p /\ cmd = 0 /\ ~closed /\ UNCHANGED <<closed, closer>>
      BY <1>2, <2>2 DEF X!Start, X!MayStart, X!NoProcess
    <3> QED BY <3>1 DEF ProcessesAreNumbered, ProcessesInv, X!OneProcess, X!NoProcess
  <2> QED BY <2>1, <2>2
<1>3. ASSUME NEW c \in CodexCallers, X!StopFailed(c) PROVE ProcessesInv'
  BY <1>3, ProcessesStop DEF X!StopFailed
<1>4. ASSUME NEW c \in CodexCallers, X!Register(c) \/ X!TakeStdin(c) \/ X!Write(c) \/ X!Returns(c) \/ X!TimesOut(c)
      PROVE  ProcessesInv'
  BY <1>4, ProcessesElsewhere DEF X!Register, X!TakeStdin, X!Write, X!Returns, X!TimesOut
<1>5. ASSUME NEW p \in Processes, X!Dies(p) PROVE ProcessesInv'
  BY <1>5 DEF X!Dies, ProcessesInv, X!OneProcess, X!NoProcess, ProcessesAreNumbered
<1>6. ASSUME NEW p \in Processes, X!ReaderEnds(p) PROVE ProcessesInv'
  BY <1>6 DEF X!ReaderEnds, X!TellPending, ProcessesInv, X!OneProcess, X!NoProcess, ProcessesAreNumbered
<1>7. ASSUME NEW p \in Processes, \/ X!HandsOver(p) \/ X!Asks(p) \/ X!Resolved(p)
                                  \/ \E id \in received[p] : X!Answers(p, id)
                                  \/ \E id \in answers[p] : X!ReadAnswer(p, id)
      PROVE  ProcessesInv'
  BY <1>7, ProcessesElsewhere DEF X!HandsOver, X!Asks, X!Resolved, X!Answers, X!ReadAnswer
<1>8. ASSUME NEW a \in Answerers, X!TakeRequest(a) \/ X!WriteAnswer(a) \/ X!ForgetApproval(a)
      PROVE  ProcessesInv'
  BY <1>8, ProcessesElsewhere DEF X!TakeRequest, X!WriteAnswer, X!ForgetApproval
<1>9. ASSUME X!Close PROVE ProcessesInv'
  BY <1>9, ProcessesStop DEF X!Close, X!NoProcess
<1>10. ASSUME X!Closed PROVE ProcessesInv'
  BY <1>10 DEF X!Closed, ProcessesInv, X!OneProcess, X!NoProcess
<1> QED BY <1>1, <1>2, <1>3, <1>4, <1>5, <1>6, <1>7, <1>8, <1>9, <1>10 DEF X!Next

\* However many call, fail, answer and close: the client has one process at a time, none once
\* it is closed, and a Close that reports no error has seen the last one end.
THEOREM NoProcessOutlivesTheClient ==
  ASSUME ProcessesAreNumbered
  PROVE  X!Spec => []OneProcess
<1>1. X!Init => ProcessesInv BY ProcessesStart
<1>2. ProcessesInv /\ [X!Next]_X!vars => ProcessesInv' BY ProcessesStep
<1>3. ProcessesInv => OneProcess BY DEF ProcessesInv, OneProcess
<1> QED BY <1>1, <1>2, <1>3, PTL DEF X!Spec

\* A number is in flight, with a reader, or in its channel: in one of these places.
NumbersInv ==
  /\ nextID \in Nat
  /\ \A p \in pending : p.id \in 1 .. nextID
  /\ \A x \in channels : x.id \in 1 .. nextID
  /\ outputReader \in [Processes -> 0 .. nextID]
  /\ \A p \in pending : \A q \in Processes : outputReader[q] # p.id
  /\ X!HandedOnce

LEMMA NumbersStart == X!Init => NumbersInv
BY DEF X!Init, NumbersInv, X!HandedOnce

LEMMA NumbersElsewhere ==
  ASSUME NumbersInv, UNCHANGED <<nextID, outputReader>>,
         pending' \subseteq pending, channels' \subseteq channels
  PROVE  NumbersInv'
BY DEF NumbersInv, X!HandedOnce, X!HasSome

LEMMA NumbersStop ==
  ASSUME NumbersInv, X!TellPending, UNCHANGED <<nextID, outputReader>>
  PROVE  NumbersInv'
BY DEF NumbersInv, X!HandedOnce, X!HasSome, X!TellPending

LEMMA NumbersStep == ProcessesAreNumbered /\ NumbersInv /\ [X!Next]_X!vars => NumbersInv'
<1> SUFFICES ASSUME ProcessesAreNumbered, NumbersInv, [X!Next]_X!vars PROVE NumbersInv'
  OBVIOUS
<1>1. CASE UNCHANGED X!vars BY <1>1, NumbersElsewhere DEF X!vars
<1>2. ASSUME NEW c \in CodexCallers, X!Register(c) PROVE NumbersInv'
  BY <1>2 DEF NumbersInv, X!HandedOnce, X!HasSome, X!Register
<1>3. ASSUME NEW c \in CodexCallers, X!Start(c) PROVE NumbersInv'
  BY <1>3, NumbersElsewhere DEF X!Start
<1>4. ASSUME NEW c \in CodexCallers, X!TakeStdin(c) \/ X!Write(c) \/ X!TimesOut(c) PROVE NumbersInv'
  BY <1>4, NumbersElsewhere DEF X!TakeStdin, X!Write, X!TimesOut, X!Without
<1>5. ASSUME NEW c \in CodexCallers, X!Returns(c) PROVE NumbersInv'
  BY <1>5, NumbersElsewhere DEF X!Returns
<1>6. ASSUME NEW c \in CodexCallers, X!StopFailed(c) PROVE NumbersInv'
  BY <1>6, NumbersStop DEF X!StopFailed, X!Stop
<1>7. ASSUME NEW p \in Processes, NEW id \in answers[p], X!ReadAnswer(p, id) PROVE NumbersInv'
  <2>1. CASE \E q \in pending : q.id = id
    <3>1. /\ id \in 1 .. nextID /\ outputReader' = [outputReader EXCEPT ![p] = id]
          /\ outputReader[p] = 0 /\ pending' = {q \in pending : q.id # id}
          /\ UNCHANGED <<nextID, channels>>
      BY <1>7, <2>1 DEF X!ReadAnswer, X!Reads, X!Taken, X!Without, NumbersInv
    <3>2. ~X!HasSome(id) /\ \A q \in Processes : outputReader[q] # id
      BY <2>1 DEF NumbersInv, X!HandedOnce
    <3>3. /\ nextID' \in Nat /\ \A q \in pending' : q.id \in 1 .. nextID'
          /\ \A x \in channels' : x.id \in 1 .. nextID'
          /\ outputReader' \in [Processes -> 0 .. nextID']
      BY <3>1 DEF NumbersInv
    <3>4. \A q \in pending' : \A r \in Processes : outputReader'[r] # q.id BY <3>1 DEF NumbersInv
    <3>5. X!HandedOnce' BY <3>1, <3>2 DEF NumbersInv, X!HandedOnce, X!HasSome
    <3> QED BY <3>3, <3>4, <3>5 DEF NumbersInv
  <2>2. CASE ~ \E q \in pending : q.id = id
    BY <1>7, <2>2, NumbersElsewhere DEF X!ReadAnswer, X!Taken, X!Without
  <2> QED BY <2>1, <2>2
<1>8. ASSUME NEW p \in Processes, X!HandsOver(p) PROVE NumbersInv'
  <2>1. /\ channels' = channels \cup {[id |-> outputReader[p], what |-> "answer"]}
        /\ outputReader' = [outputReader EXCEPT ![p] = 0] /\ outputReader[p] # 0
        /\ UNCHANGED <<nextID, pending>>
    BY <1>8 DEF X!HandsOver, X!Put
  <2>2. /\ nextID' \in Nat /\ \A q \in pending' : q.id \in 1 .. nextID'
        /\ \A x \in channels' : x.id \in 1 .. nextID'
        /\ outputReader' \in [Processes -> 0 .. nextID']
    BY <2>1 DEF NumbersInv
  <2>3. \A q \in pending' : \A r \in Processes : outputReader'[r] # q.id BY <2>1 DEF NumbersInv
  <2>4. X!HandedOnce' BY <2>1 DEF NumbersInv, X!HandedOnce, X!HasSome
  <2> QED BY <2>2, <2>3, <2>4 DEF NumbersInv
<1>9. ASSUME NEW p \in Processes, X!ReaderEnds(p) PROVE NumbersInv'
  BY <1>9, NumbersStop, NumbersElsewhere DEF X!ReaderEnds
<1>10. ASSUME NEW p \in Processes,
              X!Dies(p) \/ X!Asks(p) \/ X!Resolved(p) \/ \E id \in received[p] : X!Answers(p, id)
       PROVE  NumbersInv'
  BY <1>10, NumbersElsewhere DEF X!Dies, X!Asks, X!Resolved, X!Answers
<1>11. ASSUME NEW a \in Answerers, X!TakeRequest(a) \/ X!WriteAnswer(a) \/ X!ForgetApproval(a)
       PROVE  NumbersInv'
  BY <1>11, NumbersElsewhere DEF X!TakeRequest, X!WriteAnswer, X!ForgetApproval
<1>12. ASSUME X!Close \/ X!Closed PROVE NumbersInv'
  BY <1>12, NumbersStop, NumbersElsewhere DEF X!Close, X!Closed, X!Stop
<1> QED BY <1>1, <1>2, <1>3, <1>4, <1>5, <1>6, <1>7, <1>8, <1>9, <1>10, <1>11, <1>12 DEF X!Next

\* No reader and no stop ever waits at the channel of a call, which has room for one, whatever
\* of answers, timeouts, deaths and stops came first.
THEOREM NobodyWaitsAtAChannel ==
  ASSUME ProcessesAreNumbered
  PROVE  X!Spec => []X!HandedOnce
<1>1. X!Init => NumbersInv BY NumbersStart
<1>2. NumbersInv /\ [X!Next]_X!vars => NumbersInv' BY NumbersStep
<1>3. NumbersInv => X!HandedOnce BY DEF NumbersInv
<1> QED BY <1>1, <1>2, <1>3, PTL DEF X!Spec

\* Whose a number is, and what its channel may hold.
WordsInv ==
  /\ \A p \in pending : p.by \in CodexCallers
  /\ \A x \in channels : x.what \in {"answer", "stopped"}

LEMMA WordsElsewhere ==
  ASSUME WordsInv, pending' \subseteq pending, channels' \subseteq channels PROVE WordsInv'
BY DEF WordsInv

LEMMA WordsStop == ASSUME WordsInv, X!TellPending PROVE WordsInv'
BY DEF WordsInv, X!TellPending

LEMMA WordsStep == ASSUME WordsInv, [X!Next]_X!vars PROVE WordsInv'
<1>1. CASE UNCHANGED X!vars BY <1>1, WordsElsewhere DEF X!vars
<1>2. ASSUME NEW c \in CodexCallers, X!Register(c) PROVE WordsInv'
  BY <1>2 DEF X!Register, WordsInv
<1>3. ASSUME NEW c \in CodexCallers, \/ X!Start(c) \/ X!TakeStdin(c) \/ X!Write(c)
                                     \/ X!TimesOut(c) \/ X!Returns(c)
      PROVE  WordsInv'
  BY <1>3, WordsElsewhere DEF X!Start, X!TakeStdin, X!Write, X!TimesOut, X!Returns, X!Without
<1>4. ASSUME NEW c \in CodexCallers, X!StopFailed(c) PROVE WordsInv'
  BY <1>4, WordsStop DEF X!StopFailed, X!Stop
<1>5. ASSUME NEW p \in Processes, NEW id \in answers[p], X!ReadAnswer(p, id) PROVE WordsInv'
  BY <1>5, WordsElsewhere DEF X!ReadAnswer, X!Taken, X!Without
<1>6. ASSUME NEW p \in Processes, X!HandsOver(p) PROVE WordsInv'
  BY <1>6 DEF X!HandsOver, X!Put, WordsInv
<1>7. ASSUME NEW p \in Processes, X!ReaderEnds(p) PROVE WordsInv'
  BY <1>7, WordsStop, WordsElsewhere DEF X!ReaderEnds
<1>8. ASSUME NEW p \in Processes,
             X!Dies(p) \/ X!Asks(p) \/ X!Resolved(p) \/ \E id \in received[p] : X!Answers(p, id)
      PROVE  WordsInv'
  BY <1>8, WordsElsewhere DEF X!Dies, X!Asks, X!Resolved, X!Answers
<1>9. ASSUME NEW a \in Answerers, X!TakeRequest(a) \/ X!WriteAnswer(a) \/ X!ForgetApproval(a)
      PROVE  WordsInv'
  BY <1>9, WordsElsewhere DEF X!TakeRequest, X!WriteAnswer, X!ForgetApproval
<1>10. ASSUME X!Close \/ X!Closed PROVE WordsInv'
  BY <1>10, WordsStop, WordsElsewhere DEF X!Close, X!Closed, X!Stop
<1> QED BY <1>1, <1>2, <1>3, <1>4, <1>5, <1>6, <1>7, <1>8, <1>9, <1>10 DEF X!Next

\* The client's variables keep their types: a number in flight or in a channel was given, and
\* to a caller there is.
THEOREM ClientIsTyped == ASSUME ProcessesAreNumbered PROVE X!Spec => []X!TypeOK
<1>1. X!Init => ProcessesInv /\ NumbersInv /\ WordsInv
  BY ProcessesStart, NumbersStart DEF X!Init, WordsInv
<1>2. /\ ProcessesInv /\ [X!Next]_X!vars => ProcessesInv'
      /\ NumbersInv /\ [X!Next]_X!vars => NumbersInv'
      /\ WordsInv /\ [X!Next]_X!vars => WordsInv'
  BY ProcessesStep, NumbersStep, WordsStep
<1>3. ProcessesInv /\ NumbersInv /\ WordsInv => X!TypeOK
  BY DEF ProcessesInv, NumbersInv, WordsInv, X!TypeOK, X!NoProcess
<1> QED BY <1>1, <1>2, <1>3, PTL DEF X!Spec

CodexBounds ==
  /\ MaxRequests \in Nat
  /\ CodexBudgets \subseteq [{"calls", "faults", "requests"} -> Nat]

\* A request for input is shown, or with one goroutine that answers it, and was not answered
\* before; its number was not given before.
Holds(a, r) == answer[a].pc = "write" /\ answer[a].request.kind = "input" /\ answer[a].request.id = r
Shown(r) == serverRequests.kind = "input" /\ serverRequests.id = r

RequestsInv ==
  /\ codexLeft \in [{"calls", "faults", "requests"} -> Nat]
  /\ answerGiven \in [1 .. MaxRequests -> {0, 1}]
  /\ answer \in [Answerers -> [pc : {"idle", "write", "forget"},
                   request : [process : Processes \cup {0}, id : Nat,
                              kind : {"none", "input", "approval"}]]]
  /\ serverRequests \in [process : Processes \cup {0}, id : Nat,
                         kind : {"none", "input", "approval"}]
  /\ \A r \in 1 .. MaxRequests :
       /\ r <= codexLeft.requests =>
            answerGiven[r] = 0 /\ ~Shown(r) /\ \A a \in Answerers : ~Holds(a, r)
       /\ Shown(r) => answerGiven[r] = 0 /\ \A a \in Answerers : ~Holds(a, r)
       /\ \A a \in Answerers : Holds(a, r) =>
            answerGiven[r] = 0 /\ \A b \in Answerers : Holds(b, r) => a = b

LEMMA RequestsStart == CodexBounds /\ X!Init => RequestsInv
BY DEF CodexBounds, X!Init, RequestsInv, X!Silent, X!NoRequest, X!NoProcess, Shown, Holds

LEMMA RequestsElsewhere ==
  ASSUME RequestsInv, UNCHANGED <<answerGiven, answer>>, serverRequests' \in {serverRequests, X!NoRequest},
         codexLeft' \in [{"calls", "faults", "requests"} -> Nat],
         codexLeft'.requests <= codexLeft.requests
  PROVE  RequestsInv'
<1>1. serverRequests' = serverRequests \/
      (serverRequests' \in [process : Processes \cup {0}, id : Nat, kind : {"none", "input", "approval"}] /\ serverRequests'.kind = "none")
  BY DEF X!NoRequest, X!NoProcess
<1> QED BY <1>1 DEF RequestsInv, Shown, Holds
LEMMA CodexSpends ==
  ASSUME codexLeft \in [{"calls", "faults", "requests"} -> Nat],
         NEW what \in {"calls", "faults", "requests"}, X!Spend(what)
  PROVE  /\ codexLeft' \in [{"calls", "faults", "requests"} -> Nat]
         /\ codexLeft'.requests <= codexLeft.requests
BY DEF X!Spend

LEMMA RequestsAsked ==
  ASSUME RequestsInv, NEW p \in Processes, X!Asks(p)
  PROVE  RequestsInv'
<1>1. PICK kind \in {"input", "approval"} :
        serverRequests' = [process |-> p, id |-> codexLeft.requests, kind |-> kind]
  BY DEF X!Asks
<1>2. /\ codexLeft.requests \in Nat /\ codexLeft.requests > 0
      /\ codexLeft' = [codexLeft EXCEPT !["requests"] = codexLeft["requests"] - 1]
      /\ UNCHANGED <<answerGiven, answer>>
  BY DEF RequestsInv, X!Asks, X!Spend
<1>3. /\ codexLeft' \in [{"calls", "faults", "requests"} -> Nat]
      /\ codexLeft'.requests = codexLeft.requests - 1
  BY <1>2 DEF RequestsInv
<1> QED BY <1>1, <1>2, <1>3 DEF RequestsInv, Shown, Holds

LEMMA RequestsTaken ==
  ASSUME RequestsInv, NEW a \in Answerers, X!TakeRequest(a)
  PROVE  RequestsInv'
<1> USE DEF X!NoRequest, X!NoProcess
<1>1. /\ answer' = [answer EXCEPT ![a] = [pc |-> "write", request |-> serverRequests]]
      /\ serverRequests' = IF serverRequests.kind = "input" THEN X!NoRequest ELSE serverRequests
      /\ answer[a].pc = "idle" /\ UNCHANGED <<answerGiven, codexLeft>>
  BY DEF X!TakeRequest, X!SetAnswer, X!Forgotten
<1>2. \A r \in 1 .. MaxRequests : Shown(r)' <=> (Shown(r) /\ serverRequests.kind # "input")
  BY <1>1 DEF Shown
<1>3. \A r \in 1 .. MaxRequests : \A b \in Answerers :
        Holds(b, r)' <=> IF b = a THEN Shown(r) ELSE Holds(b, r)
  BY <1>1 DEF RequestsInv, Holds, Shown
<1>4. answer' \in [Answerers -> [pc : {"idle", "write", "forget"},
                   request : [process : Processes \cup {0}, id : Nat,
                              kind : {"none", "input", "approval"}]]]
  BY <1>1 DEF RequestsInv
<1>5. serverRequests' \in [process : Processes \cup {0}, id : Nat,
                           kind : {"none", "input", "approval"}]
  BY <1>1 DEF RequestsInv
<1>6. \A r \in 1 .. MaxRequests : ~Shown(r)' BY <1>2 DEF Shown
<1> QED BY <1>1, <1>3, <1>4, <1>5, <1>6 DEF RequestsInv

LEMMA RequestsAnswered ==
  ASSUME RequestsInv, NEW a \in Answerers, X!WriteAnswer(a) \/ X!ForgetApproval(a)
  PROVE  RequestsInv'
<1> USE DEF X!NoRequest, X!NoProcess
<1> DEFINE q == answer[a].request
<1>1. /\ q \in [process : Processes \cup {0}, id : Nat, kind : {"none", "input", "approval"}]
      /\ UNCHANGED codexLeft
  BY DEF RequestsInv, X!WriteAnswer, X!ForgetApproval
<1>2. /\ \A b \in Answerers : b # a => answer'[b] = answer[b]
      /\ answer'[a].pc # "write"
      /\ answer' \in [Answerers -> [pc : {"idle", "write", "forget"},
                   request : [process : Processes \cup {0}, id : Nat,
                              kind : {"none", "input", "approval"}]]]
  BY <1>1 DEF RequestsInv, X!WriteAnswer, X!ForgetApproval, X!SetAnswer, X!Silent
<1>3. /\ serverRequests' \in {serverRequests, X!NoRequest}
      /\ X!NoRequest \in [process : Processes \cup {0}, id : Nat,
                          kind : {"none", "input", "approval"}]
  BY DEF X!WriteAnswer, X!ForgetApproval
<1>4. \A r \in 1 .. MaxRequests : Shown(r)' => Shown(r) BY <1>3 DEF Shown
<1>5. \A r \in 1 .. MaxRequests : \A b \in Answerers : Holds(b, r)' => b # a /\ Holds(b, r)
  BY <1>2 DEF Holds
<1>6. \/ answerGiven' = answerGiven
      \/ answer[a].pc = "write" /\ q.kind = "input"
         /\ answerGiven' = [answerGiven EXCEPT ![q.id] = answerGiven[q.id] + 1]
  BY DEF X!WriteAnswer, X!ForgetApproval
<1>7. /\ answerGiven' \in [1 .. MaxRequests -> {0, 1}]
      /\ \A r \in 1 .. MaxRequests : answerGiven'[r] # answerGiven[r] => Holds(a, r)
  <2>1. CASE answerGiven' = answerGiven BY <2>1 DEF RequestsInv
  <2>2. CASE answer[a].pc = "write" /\ q.kind = "input" /\ q.id \in 1 .. MaxRequests
             /\ answerGiven' = [answerGiven EXCEPT ![q.id] = answerGiven[q.id] + 1]
    <3>1. Holds(a, q.id) BY <2>2 DEF Holds
    <3> QED BY <2>2, <3>1 DEF RequestsInv
  <2>3. CASE q.id \notin 1 .. MaxRequests
             /\ answerGiven' = [answerGiven EXCEPT ![q.id] = answerGiven[q.id] + 1]
    BY <2>3 DEF RequestsInv
  <2> QED BY <1>6, <2>1, <2>2, <2>3
<1>8. serverRequests' \in [process : Processes \cup {0}, id : Nat,
                           kind : {"none", "input", "approval"}]
  BY <1>3 DEF RequestsInv
<1> QED BY <1>1, <1>2, <1>4, <1>5, <1>7, <1>8 DEF RequestsInv

LEMMA RequestsStep == RequestsInv /\ [X!Next]_X!vars => RequestsInv'
<1> SUFFICES ASSUME RequestsInv, [X!Next]_X!vars PROVE RequestsInv'
  OBVIOUS
<1>1. codexLeft \in [{"calls", "faults", "requests"} -> Nat] BY DEF RequestsInv
<1>2. CASE UNCHANGED X!vars BY <1>1, <1>2, RequestsElsewhere DEF X!vars
<1>3. ASSUME NEW c \in CodexCallers,
             X!Start(c) \/ X!Register(c) \/ X!TakeStdin(c) \/ X!Write(c) \/ X!Returns(c)
               \/ X!TimesOut(c) \/ X!StopFailed(c)
      PROVE  RequestsInv'
  <2>1. CASE X!Start(c)
    <3>1. UNCHANGED <<answerGiven, answer>> /\ serverRequests' \in {serverRequests, X!NoRequest}
      BY <2>1 DEF X!Start
    <3>2. codexLeft' \in [{"calls", "faults", "requests"} -> Nat]
          /\ codexLeft'.requests <= codexLeft.requests
      BY <1>1, <2>1, CodexSpends DEF X!Start
    <3> QED BY <3>1, <3>2, RequestsElsewhere
  <2>2. CASE X!Register(c) \/ X!TakeStdin(c) \/ X!Write(c)
    BY <1>1, <2>2, RequestsElsewhere DEF X!Register, X!TakeStdin, X!Write
  <2>3. CASE X!Returns(c) \/ X!TimesOut(c)
    <3>1. UNCHANGED <<answerGiven, answer, serverRequests>> BY <2>3 DEF X!Returns, X!TimesOut
    <3>2. codexLeft' \in [{"calls", "faults", "requests"} -> Nat]
          /\ codexLeft'.requests <= codexLeft.requests
      BY <1>1, <2>3 DEF X!Returns, X!TimesOut, X!Spend
    <3> QED BY <3>1, <3>2, RequestsElsewhere
  <2>4. CASE X!StopFailed(c)
    BY <1>1, <2>4, RequestsElsewhere DEF X!StopFailed, X!Stop, X!TellPending
  <2> QED BY <1>3, <2>1, <2>2, <2>3, <2>4
<1>4. ASSUME NEW p \in Processes, X!Asks(p) PROVE RequestsInv'
  BY <1>4, RequestsAsked
<1>5. ASSUME NEW p \in Processes, \/ X!Dies(p) \/ X!HandsOver(p) \/ X!ReaderEnds(p) \/ X!Resolved(p)
                                  \/ \E id \in received[p] : X!Answers(p, id)
                                  \/ \E id \in answers[p] : X!ReadAnswer(p, id)
      PROVE  RequestsInv'
  BY <1>1, <1>5, RequestsElsewhere
  DEF X!Dies, X!HandsOver, X!ReaderEnds, X!Resolved, X!Answers, X!ReadAnswer, X!TellPending, X!Spend
<1>6. ASSUME NEW a \in Answerers, X!TakeRequest(a) PROVE RequestsInv'
  BY <1>6, RequestsTaken
<1>7. ASSUME NEW a \in Answerers, X!WriteAnswer(a) \/ X!ForgetApproval(a) PROVE RequestsInv'
  BY <1>7, RequestsAnswered
<1>8. ASSUME X!Close \/ X!Closed PROVE RequestsInv'
  BY <1>1, <1>8, RequestsElsewhere DEF X!Close, X!Closed, X!Stop, X!TellPending, X!Spend
<1> QED BY <1>2, <1>3, <1>4, <1>5, <1>6, <1>7, <1>8 DEF X!Next

\* However many goroutines answer it, a request of Codex for input is answered at most once.
THEOREM InputsAreAnsweredOnce ==
  ASSUME CodexBounds
  PROVE  X!Spec => []X!AnsweredOnce
<1>1. X!Init => RequestsInv BY RequestsStart
<1>2. RequestsInv /\ [X!Next]_X!vars => RequestsInv' BY RequestsStep
<1>3. RequestsInv => X!AnsweredOnce BY DEF RequestsInv, X!AnsweredOnce
<1> QED BY <1>1, <1>2, <1>3, PTL DEF X!Spec

(* The uploads *)

Transfers == DOMAIN transfer
TransferType == [pc : {"none", "open", "detached", "gone"}, owner : Clients, received : Nat, due : BOOLEAN]
ClientType ==
  [pc : {"idle", "start", "chunk", "finish", "abort"}, transfer : Transfers \cup {0}, sent : Nat,
   reply : {"none", "ok", "failed"}]
CallType ==
  [by : Clients, n : Nat, kind : {"start", "chunk", "finish", "abort"}, transfer : Transfers \cup {0},
   offset : Nat, pc : {"sent", "begun", "running"}, waited : BOOLEAN, beside : BOOLEAN]

\* A call that is waited for is the one its client is at, and the only one.
CallsWaited ==
  \A k \in requests :
    k.waited => /\ k.kind = client[k.by].pc /\ client[k.by].reply = "none"
                /\ k.kind # "start" => k.transfer = client[k.by].transfer
                /\ \A j \in requests : j.waited /\ j.by = k.by => j = k

\* A request that runs has its transfer out of the table, alone; ...
RunsAlone ==
  \A k \in requests :
    k.pc = "running" => /\ k.kind = "finish" /\ k.transfer \in Transfers
                        /\ transfer[k.transfer].pc = "detached" /\ runs[k.transfer] = 0
                        /\ \A j \in requests : j.pc = "running" /\ j.transfer = k.transfer => j = k

\* ... and what has run is gone.
RunsAreOver == \A t \in Transfers : runs[t] = 1 => transfer[t].pc = "gone"

\* What a client is about to tell is so.
AnswersAreTrue ==
  \A c \in Clients :
    /\ client[c].pc \in {"chunk", "finish", "abort"} => client[c].transfer \in Transfers
    /\ client[c].pc = "start" /\ client[c].reply = "ok" => client[c].transfer \in Transfers
    /\ client[c].reply = "ok" /\ client[c].pc = "finish" => runs[client[c].transfer] = 1
    /\ client[c].reply = "ok" /\ client[c].pc = "abort" =>
         transfer[client[c].transfer].pc = "gone" /\ runs[client[c].transfer] = 0

ToldIsOver == \A t \in Transfers : clientTold[t] = "aborted" => transfer[t].pc = "gone"

UploadsType ==
  /\ 0 \notin Transfers /\ transfer \in [Transfers -> TransferType]
  /\ client \in [Clients -> ClientType] /\ requests \subseteq CallType
  /\ runs \in [Transfers -> {0, 1}] /\ clientTold \in [Transfers -> {"nothing", "done", "aborted"}]

UploadsInv ==
  /\ UploadsType /\ CallsWaited /\ RunsAlone /\ RunsAreOver /\ AnswersAreTrue /\ ToldIsOver
  /\ U!RunsAreTrue

UploadsBounds ==
  /\ Clients # {} /\ \A b \in UploadsBudgets : b.uploads \in Nat
  /\ {Cost, Scratch, MaxBytes, MaxTransfers} \subseteq Nat

\* A session's calls differ in their numbers, ...
CallsApart ==
  /\ IsFiniteSet(requests)
  /\ \A j, k \in requests : j.by = k.by /\ j.n = k.n => j = k

LEMMA UploadsCounted == \A s : U!Cardinality(s) = Cardinality(s)
BY DEF U!Cardinality, Cardinality, U!IsFiniteSet, IsFiniteSet

\* ... because a number is free: there are more of them than calls.
LEMMA UploadsNumber ==
  ASSUME CallsApart, NEW c
  PROVE  /\ U!Number(c) \in Nat
         /\ \A k \in requests : k.by = c => k.n # U!Number(c)
<1> DEFINE m == Cardinality(requests)
           Free(n) == \A k \in requests : k.by = c => k.n # n
<1>1. m \in Nat /\ IsFiniteSet(requests) BY FS_CardinalityType DEF CallsApart
<1>2. U!Cardinality(requests) = m BY UploadsCounted
<1> HIDE DEF m
<1>3. ASSUME \A n \in 0 .. m : ~Free(n) PROVE FALSE
  <2> DEFINE f == [n \in 0 .. m |-> CHOOSE k \in requests : k.by = c /\ k.n = n]
  <2>1. \A n \in 0 .. m : f[n] \in requests /\ f[n].by = c /\ f[n].n = n BY <1>3
  <2>2. f \in [0 .. m -> requests] BY <2>1
  <2>3. IsFiniteSet(0 .. m) /\ Cardinality(0 .. m) = m + 1 BY <1>1, FS_Interval
  <2> HIDE DEF f
  <2>4. Cardinality(requests) < Cardinality(0 .. m) BY <1>1, <2>3 DEF m
  <2>5. PICK i, j \in 0 .. m : i # j /\ f[i] = f[j] BY <1>1, <2>2, <2>3, <2>4, FS_PigeonHole
  <2> QED BY <2>1, <2>5
<1>4. \E n \in 0 .. m : Free(n) BY <1>3
<1>5. U!Number(c) = CHOOSE n \in 0 .. m : Free(n) BY <1>2 DEF U!Number
<1> HIDE DEF Free
<1>6. U!Number(c) \in 0 .. m /\ Free(U!Number(c)) BY <1>4, <1>5
<1> QED BY <1>1, <1>6 DEF Free

LEMMA UploadsStart == UploadsBounds /\ U!Init => UploadsInv
<1> SUFFICES ASSUME UploadsBounds, U!Init PROVE UploadsInv
  OBVIOUS
<1>1. uploadsLeft.uploads \in Nat /\ Transfers = 1 .. uploadsLeft.uploads
  BY DEF U!Init, UploadsBounds, Transfers
<1>2. (CHOOSE c \in Clients : TRUE) \in Clients BY DEF UploadsBounds
<1>3. transfer = [t \in Transfers |-> [pc |-> "none", owner |-> CHOOSE c \in Clients : TRUE,
                                      received |-> 0, due |-> FALSE]]
  BY <1>1 DEF U!Init
<1>4. U!Idle \in ClientType /\ U!Idle.pc = "idle" BY DEF U!Idle, ClientType, U!NoTransfer
<1>5. runs = [t \in Transfers |-> 0] /\ clientTold = [t \in Transfers |-> "nothing"]
  BY DEF U!Init, U!Ids, Transfers
<1>6. UploadsType BY <1>1, <1>2, <1>3, <1>4, <1>5 DEF UploadsType, TransferType, U!Init
<1>7. RunsAreOver /\ AnswersAreTrue /\ ToldIsOver /\ U!RunsAreTrue
  BY <1>4, <1>5 DEF RunsAreOver, AnswersAreTrue, ToldIsOver, U!RunsAreTrue, U!Init, U!Ids, Transfers
<1>8. CallsWaited /\ RunsAlone BY DEF CallsWaited, RunsAlone, U!Init
<1> QED BY <1>6, <1>7, <1>8 DEF UploadsInv

LEMMA UploadsElsewhere ==
  ASSUME UploadsInv, UNCHANGED <<client, requests, transfer, runs, clientTold>>
  PROVE  UploadsInv'
BY DEF UploadsInv, UploadsType, CallsWaited, RunsAlone, RunsAreOver, AnswersAreTrue, ToldIsOver,
       U!RunsAreTrue, Transfers, TransferType, ClientType, CallType, U!Ids

\* What became of the transfers: what is out of the table stays as it is.
TransfersMove ==
  /\ transfer' \in [Transfers -> TransferType] /\ Transfers' = Transfers
  /\ \A t \in Transfers :
       transfer[t].pc \in {"detached", "gone"} => transfer'[t].pc = transfer[t].pc

LEMMA UploadsTime ==
  ASSUME UploadsInv, TransfersMove, UNCHANGED <<client, requests, runs, clientTold>>
  PROVE  UploadsInv'
<1>1. UploadsType'
  BY DEF UploadsInv, UploadsType, TransfersMove, TransferType, ClientType, CallType
<1>2. RunsAlone' /\ RunsAreOver' /\ ToldIsOver'
  BY DEF UploadsInv, TransfersMove, RunsAlone, RunsAreOver, ToldIsOver
<1>3. AnswersAreTrue' BY DEF UploadsInv, TransfersMove, AnswersAreTrue
<1>4. CallsWaited' /\ U!RunsAreTrue'
  BY DEF UploadsInv, TransfersMove, CallsWaited, U!RunsAreTrue, U!Ids, Transfers
<1> QED BY <1>1, <1>2, <1>3, <1>4 DEF UploadsInv

LEMMA UploadsPass ==
  ASSUME UploadsInv, NEW t \in Transfers, U!Passes(t) \/ U!Discard(t)
  PROVE  UploadsInv'
<1>1. transfer[t].pc = "open" /\ UNCHANGED <<client, requests, runs, clientTold>>
  BY DEF U!Passes, U!Discard, U!StillThere, U!InTable
<1>2. TransfersMove
  BY <1>1 DEF UploadsInv, UploadsType, TransfersMove, Transfers, TransferType, U!Passes, U!Discard, U!Remove
<1> QED BY <1>1, <1>2, UploadsTime

\* The answer to a call.
Answered(k, what, t) ==
  /\ requests' = requests \ {k}
  /\ \A c \in Clients : c # k.by \/ ~k.waited => client'[c] = client[c]
  /\ k.waited => /\ client'[k.by].pc = client[k.by].pc /\ client'[k.by].reply = what
                 /\ client'[k.by].transfer = t
  /\ client' \in [Clients -> ClientType]

LEMMA UploadsAnswer ==
  ASSUME UploadsInv, NEW k \in requests, NEW what \in {"ok", "failed"}, NEW t \in Transfers \cup {0},
         U!Done(k, what, t)
  PROVE  Answered(k, what, t)
<1>1. k \in CallType /\ client \in [Clients -> ClientType] BY DEF UploadsInv, UploadsType
<1>2. k.by \in Clients /\ client[k.by].sent \in Nat BY <1>1 DEF CallType, ClientType
<1> DEFINE n == client[k.by].sent + (IF k.kind = "chunk" /\ what = "ok" THEN 1 ELSE 0)
<1>3. n \in Nat BY <1>2
<1>4. requests' = requests \ {k}
      /\ client' = IF k.waited THEN [client EXCEPT ![k.by].reply = what, ![k.by].transfer = t, ![k.by].sent = n]
                   ELSE client
  BY DEF U!Done, U!Replies
<1> HIDE DEF n
<1> QED BY <1>1, <1>2, <1>3, <1>4 DEF Answered, ClientType

LEMMA UploadsHandled ==
  ASSUME UploadsInv, NEW k \in requests, k.pc # "running",
         NEW what \in {"ok", "failed"}, NEW t \in Transfers \cup {0}, U!Done(k, what, t),
         TransfersMove, UNCHANGED <<runs, clientTold>>,
         k.kind # "start" => t = k.transfer,
         what = "ok" => /\ k.kind # "finish" /\ t \in Transfers
                        /\ k.kind = "abort" => transfer'[t].pc = "gone" /\ runs[t] = 0
  PROVE  UploadsInv'
<1>1. Answered(k, what, t) BY UploadsAnswer
<1>2. Transfers' = Transfers /\ k \in CallType BY DEF TransfersMove, UploadsInv, UploadsType
<1>3. UploadsType'
  BY <1>1, <1>2 DEF UploadsInv, UploadsType, TransfersMove, Answered, TransferType, ClientType, CallType
<1>4. CallsWaited' BY <1>1 DEF UploadsInv, UploadsType, Answered, CallsWaited, CallType
<1>5. RunsAlone' /\ RunsAreOver' /\ ToldIsOver'
  BY <1>1, <1>2 DEF UploadsInv, TransfersMove, RunsAlone, RunsAreOver, ToldIsOver, Answered
<1>6. AnswersAreTrue'
  <2> SUFFICES ASSUME NEW c \in Clients
               PROVE /\ client'[c].pc \in {"chunk", "finish", "abort"} => client'[c].transfer \in Transfers
                     /\ client'[c].pc = "start" /\ client'[c].reply = "ok" => client'[c].transfer \in Transfers
                     /\ client'[c].reply = "ok" /\ client'[c].pc = "finish" => runs'[client'[c].transfer] = 1
                     /\ client'[c].reply = "ok" /\ client'[c].pc = "abort" =>
                          transfer'[client'[c].transfer].pc = "gone" /\ runs'[client'[c].transfer] = 0
    BY <1>2 DEF AnswersAreTrue
  <2>1. CASE c # k.by \/ ~k.waited
    BY <1>1, <2>1 DEF UploadsInv, AnswersAreTrue, TransfersMove, Answered
  <2>2. CASE c = k.by /\ k.waited
    <3>1. client[c].pc = k.kind /\ (k.kind # "start" => k.transfer = client[c].transfer)
      BY <2>2 DEF UploadsInv, CallsWaited
    <3>2. client'[c].pc = k.kind /\ client'[c].reply = what /\ client'[c].transfer = t
      BY <1>1, <2>2, <3>1 DEF Answered
    <3>3. k.kind \in {"chunk", "finish", "abort"} => t \in Transfers
      BY <3>1 DEF UploadsInv, AnswersAreTrue
    <3> QED BY <3>2, <3>3
  <2> QED BY <2>1, <2>2
<1>7. U!RunsAreTrue' BY <1>2 DEF UploadsInv, U!RunsAreTrue, U!Ids, Transfers
<1> QED BY <1>3, <1>4, <1>5, <1>6, <1>7 DEF UploadsInv

\* A call whose client no longer waits for it is the same call otherwise.
LEMMA UploadsLetGo ==
  ASSUME NEW k \in CallType, NEW w \in BOOLEAN, NEW j, j = [k EXCEPT !.waited = w]
  PROVE  /\ j \in CallType /\ j.by = k.by /\ j.n = k.n /\ j.kind = k.kind
         /\ j.transfer = k.transfer /\ j.pc = k.pc /\ j.waited = w
BY DEF CallType

LEMMA UploadsEnds ==
  ASSUME UploadsInv, NEW cs \in SUBSET Clients, U!Ends(cs), UNCHANGED <<transfer, runs, clientTold>>
  PROVE  UploadsInv'
<1> DEFINE End(k) == [k EXCEPT !.waited = k.waited /\ k.by \notin cs]
<1>1. requests \subseteq CallType /\ client \in [Clients -> ClientType]
  BY DEF UploadsInv, UploadsType
<1>2. \A k \in requests : /\ End(k) \in CallType /\ End(k).by = k.by /\ End(k).kind = k.kind
                          /\ End(k).transfer = k.transfer /\ End(k).pc = k.pc
                          /\ End(k).waited = (k.waited /\ k.by \notin cs)
  <2> TAKE k \in requests
  <2> DEFINE w == k.waited /\ k.by \notin cs
  <2>1. k \in CallType /\ w \in BOOLEAN BY <1>1
  <2> HIDE DEF w
  <2>2. LET j == [k EXCEPT !.waited = w]
        IN /\ j \in CallType /\ j.by = k.by /\ j.n = k.n /\ j.kind = k.kind
           /\ j.transfer = k.transfer /\ j.pc = k.pc /\ j.waited = w
    BY <2>1, UploadsLetGo
  <2> QED BY <2>2 DEF w
<1>3. \A j \in requests' : \E k \in requests : j = End(k) BY DEF U!Ends
<1>4. U!Idle \in ClientType /\ U!Idle.pc = "idle" /\ U!Idle.reply = "none"
  BY DEF U!Idle, ClientType, U!NoTransfer
<1>5. client' = [c \in Clients |-> IF c \in cs THEN U!Idle ELSE client[c]] BY DEF U!Ends
<1> HIDE DEF End
<1>6. requests' \subseteq CallType BY <1>2, <1>3
<1>7. client' \in [Clients -> ClientType] /\ Transfers' = Transfers
  BY <1>1, <1>4, <1>5 DEF Transfers
<1>8. UploadsType' BY <1>6, <1>7 DEF UploadsInv, UploadsType, TransferType, ClientType, CallType
<1>9. CallsWaited'
  <2> SUFFICES ASSUME NEW j \in requests', j.waited
               PROVE /\ j.kind = client'[j.by].pc /\ client'[j.by].reply = "none"
                     /\ j.kind # "start" => j.transfer = client'[j.by].transfer
                     /\ \A i \in requests' : i.waited /\ i.by = j.by => i = j
    BY DEF CallsWaited
  <2>1. PICK k \in requests : j = End(k) BY <1>3
  <2>2. k.waited /\ k.by \notin cs /\ k.by \in Clients BY <1>1, <1>2, <2>1 DEF CallType
  <2>3. client'[j.by] = client[k.by] BY <1>2, <1>5, <2>1, <2>2
  <2>4. ASSUME NEW i \in requests', i.waited, i.by = j.by PROVE i = j
    <3>1. PICK h \in requests : i = End(h) BY <1>3
    <3>2. h.waited /\ h.by = k.by BY <1>2, <2>1, <2>4, <3>1
    <3>3. h = k BY <2>2, <3>2 DEF UploadsInv, CallsWaited
    <3> QED BY <2>1, <3>1, <3>3
  <2> QED BY <1>2, <2>1, <2>2, <2>3, <2>4 DEF UploadsInv, CallsWaited
<1>10. RunsAlone'
  <2> SUFFICES ASSUME NEW j \in requests', j.pc = "running"
               PROVE /\ j.kind = "finish" /\ j.transfer \in Transfers
                     /\ transfer[j.transfer].pc = "detached" /\ runs[j.transfer] = 0
                     /\ \A i \in requests' : i.pc = "running" /\ i.transfer = j.transfer => i = j
    BY <1>7 DEF RunsAlone
  <2>1. PICK k \in requests : j = End(k) BY <1>3
  <2> QED BY <1>2, <1>3, <2>1 DEF UploadsInv, RunsAlone
<1>11. RunsAreOver' /\ ToldIsOver' /\ U!RunsAreTrue'
  BY DEF UploadsInv, RunsAreOver, ToldIsOver, U!RunsAreTrue, U!Ids, Transfers
<1>12. AnswersAreTrue' BY <1>4, <1>5, <1>7 DEF UploadsInv, AnswersAreTrue
<1> QED BY <1>8, <1>9, <1>10, <1>11, <1>12 DEF UploadsInv

\* A client that waits for nothing makes a call.
LEMMA UploadsSends ==
  ASSUME UploadsInv, CallsApart, NEW c \in Clients,
         NEW kind \in {"start", "chunk", "finish", "abort"},
         NEW value \in ClientType, U!Sends(c, kind, value), kind # "start" => value.transfer \in Transfers,
         \A k \in requests : k.waited => k.by # c, UNCHANGED <<transfer, runs, clientTold>>
  PROVE  UploadsInv'
<1> DEFINE n == U!Number(c)
           new == [by |-> c, n |-> n, kind |-> kind, transfer |-> value.transfer,
                   offset |-> value.sent, pc |-> "sent", waited |-> TRUE, beside |-> FALSE]
<1>0. n \in Nat BY UploadsNumber
<1>1. new \in CallType BY <1>0 DEF CallType, ClientType
<1>2. requests' = requests \cup {new} BY DEF U!Sends, U!Message
<1>3. client \in [Clients -> ClientType] /\ requests \subseteq CallType
  BY DEF UploadsInv, UploadsType
<1>4. /\ client'[c].pc = kind /\ client'[c].reply = "none" /\ client'[c].transfer = value.transfer
      /\ \A d \in Clients : d # c => client'[d] = client[d]
      /\ client' \in [Clients -> ClientType]
  BY <1>3 DEF U!Sends, ClientType
<1>5. /\ new.by = c /\ new.kind = kind /\ new.transfer = value.transfer /\ new.pc = "sent" /\ new.waited
  OBVIOUS
<1> HIDE DEF new
<1>6. UploadsType' /\ Transfers' = Transfers
  BY <1>1, <1>2, <1>4 DEF UploadsInv, UploadsType, TransferType, ClientType, CallType, Transfers
<1>7. CallsWaited' BY <1>2, <1>3, <1>4, <1>5 DEF UploadsInv, CallsWaited, CallType
<1>8. RunsAlone' BY <1>2, <1>5, <1>6 DEF UploadsInv, RunsAlone
<1>9. AnswersAreTrue' BY <1>4, <1>6 DEF UploadsInv, AnswersAreTrue
<1>10. RunsAreOver' /\ ToldIsOver' /\ U!RunsAreTrue'
  BY DEF UploadsInv, RunsAreOver, ToldIsOver, U!RunsAreTrue, U!Ids, Transfers
<1> QED BY <1>6, <1>7, <1>8, <1>9, <1>10 DEF UploadsInv

LEMMA UploadsUpload ==
  ASSUME UploadsInv, CallsApart, NEW c \in Clients, U!Upload(c)
  PROVE  UploadsInv'
<1>1. U!Idle \in ClientType BY DEF U!Idle, ClientType, U!NoTransfer
<1>2. \A k \in requests : k.waited => k.by # c
  BY DEF UploadsInv, UploadsType, CallsWaited, CallType, U!Upload
<1> QED BY <1>1, <1>2, UploadsSends DEF U!Upload

\* A client goes back to rest.
LEMMA UploadsRests ==
  ASSUME UploadsInv, NEW c \in Clients, client' = [client EXCEPT ![c] = U!Idle],
         \A k \in requests : k.waited => k.by # c, UNCHANGED <<requests, transfer, runs>>,
         clientTold' \in [Transfers -> {"nothing", "done", "aborted"}],
         \A t \in Transfers :
           \/ clientTold'[t] = clientTold[t]
           \/ clientTold'[t] = "done" /\ runs[t] = 1
           \/ clientTold'[t] = "aborted" /\ runs[t] = 0 /\ transfer[t].pc = "gone"
  PROVE  UploadsInv'
<1>1. U!Idle \in ClientType /\ U!Idle.pc = "idle" /\ U!Idle.reply = "none"
  BY DEF U!Idle, ClientType, U!NoTransfer
<1>2. client \in [Clients -> ClientType] /\ requests \subseteq CallType
  BY DEF UploadsInv, UploadsType
<1>3. Transfers' = Transfers /\ client' \in [Clients -> ClientType] BY <1>1, <1>2 DEF Transfers
<1>4. UploadsType' BY <1>3 DEF UploadsInv, UploadsType, TransferType, ClientType, CallType
<1>5. CallsWaited' BY <1>2 DEF UploadsInv, CallsWaited, CallType
<1>6. RunsAlone' /\ RunsAreOver' BY <1>3 DEF UploadsInv, RunsAlone, RunsAreOver
<1>7. AnswersAreTrue' BY <1>1, <1>2, <1>3 DEF UploadsInv, AnswersAreTrue
<1>8. ToldIsOver' /\ U!RunsAreTrue'
  BY <1>3 DEF UploadsInv, ToldIsOver, U!RunsAreTrue, U!Ids, Transfers
<1> QED BY <1>4, <1>5, <1>6, <1>7, <1>8 DEF UploadsInv

LEMMA UploadsGoes ==
  ASSUME UploadsInv, CallsApart, NEW c \in Clients, U!Goes(c)
  PROVE  UploadsInv'
<1> DEFINE v == client[c]
<1>1. v \in ClientType /\ clientTold \in [Transfers -> {"nothing", "done", "aborted"}]
  BY DEF UploadsInv, UploadsType
<1>2. \A k \in requests : k.waited => k.by # c BY DEF UploadsInv, CallsWaited, U!Goes
<1>3. UNCHANGED <<transfer, runs>> BY DEF U!Goes
<1>4. CASE v.reply = "ok" /\ v.pc \in {"start", "chunk"}
  <2>1. v.transfer \in Transfers BY <1>4 DEF UploadsInv, AnswersAreTrue
  <2>2. UNCHANGED clientTold /\ (U!Sends(c, "chunk", v) \/ U!Sends(c, "finish", v))
    BY <1>4 DEF U!Goes
  <2> HIDE DEF v
  <2> QED BY <1>1, <1>2, <1>3, <2>1, <2>2, UploadsSends
<1>5. CASE v.reply = "ok" /\ v.pc \in {"finish", "abort"}
  <2> DEFINE t == v.transfer
             what == IF v.pc = "finish" THEN "done" ELSE "aborted"
  <2>1. t \in Transfers /\ what \in {"done", "aborted"} BY <1>5 DEF UploadsInv, AnswersAreTrue
  <2>2. UNCHANGED requests /\ client' = [client EXCEPT ![c] = U!Idle] /\ U!Decided(t, what)
    BY <1>5 DEF U!Goes
  <2>3. /\ what = "done" => runs[t] = 1
        /\ what = "aborted" => runs[t] = 0 /\ transfer[t].pc = "gone"
    BY <1>5 DEF UploadsInv, AnswersAreTrue
  <2> HIDE DEF t, what
  <2>4. /\ clientTold' \in [Transfers -> {"nothing", "done", "aborted"}]
        /\ \A u \in Transfers : clientTold'[u] = clientTold[u] \/ (u = t /\ clientTold'[u] = what)
    <3>1. clientTold \in [Transfers -> {"nothing", "done", "aborted"}]
      BY DEF UploadsInv, UploadsType
    <3>2. clientTold' = [clientTold EXCEPT ![t] = what] \/ clientTold' = clientTold
      BY <2>2 DEF U!Decided
    <3> QED BY <2>1, <3>1, <3>2
  <2>5. \A u \in Transfers :
          \/ clientTold'[u] = clientTold[u]
          \/ clientTold'[u] = "done" /\ runs[u] = 1
          \/ clientTold'[u] = "aborted" /\ runs[u] = 0 /\ transfer[u].pc = "gone"
    BY <2>1, <2>3, <2>4
  <2>6. client' = [client EXCEPT ![c] = U!Idle] /\ UNCHANGED <<requests, transfer, runs>>
    BY <1>3, <2>2
  <2>7. clientTold' \in [Transfers -> {"nothing", "done", "aborted"}] BY <2>4
  <2> HIDE DEF v
  <2> QED BY <1>2, <2>5, <2>6, <2>7, UploadsRests
<1>6. CASE v.reply = "failed" /\ v.pc \in {"chunk", "finish"}
  <2>1. v.transfer \in Transfers BY <1>6 DEF UploadsInv, AnswersAreTrue
  <2>2. UNCHANGED clientTold /\ U!Sends(c, "abort", v) BY <1>6 DEF U!Goes
  <2> HIDE DEF v
  <2> QED BY <1>1, <1>2, <1>3, <2>1, <2>2, UploadsSends
<1>7. CASE v.reply = "failed" /\ v.pc \in {"start", "abort"}
  <2>1. UNCHANGED <<requests, clientTold>> /\ client' = [client EXCEPT ![c] = U!Idle]
    BY <1>7 DEF U!Goes
  <2>2. UNCHANGED <<requests, transfer, runs>> BY <1>3, <2>1
  <2>3. clientTold' \in [Transfers -> {"nothing", "done", "aborted"}] BY <1>1, <2>1
  <2>4. \A u \in Transfers : clientTold'[u] = clientTold[u] BY <2>1
  <2> QED BY <1>2, <2>1, <2>2, <2>3, <2>4, UploadsRests
<1> QED BY <1>4, <1>5, <1>6, <1>7 DEF U!Goes

LEMMA UploadsContextEnds ==
  ASSUME UploadsInv, CallsApart, NEW c \in Clients, U!ContextEnds(c)
  PROVE  UploadsInv'
<1> DEFINE End(k) == [k EXCEPT !.waited = k.waited /\ k.by # c]
           left == {End(k) : k \in requests}
           n == U!Number(c)
           new == [by |-> c, n |-> n, kind |-> "abort", transfer |-> client[c].transfer,
                   offset |-> client[c].sent, pc |-> "sent", waited |-> TRUE, beside |-> FALSE]
           aborts == client[c].pc \in {"chunk", "finish"}
<1>0. n \in Nat BY UploadsNumber
<1>1. requests \subseteq CallType /\ client \in [Clients -> ClientType]
  BY DEF UploadsInv, UploadsType
<1>2. \A k \in requests : /\ End(k) \in CallType /\ End(k).by = k.by /\ End(k).kind = k.kind
                          /\ End(k).transfer = k.transfer /\ End(k).pc = k.pc
                          /\ End(k).waited = (k.waited /\ k.by # c)
  <2> TAKE k \in requests
  <2> DEFINE w == k.waited /\ k.by # c
  <2>1. k \in CallType /\ w \in BOOLEAN BY <1>1
  <2> HIDE DEF w
  <2>2. LET j == [k EXCEPT !.waited = w]
        IN /\ j \in CallType /\ j.by = k.by /\ j.n = k.n /\ j.kind = k.kind
           /\ j.transfer = k.transfer /\ j.pc = k.pc /\ j.waited = w
    BY <2>1, UploadsLetGo
  <2> QED BY <2>2 DEF w
<1>3. /\ new \in CallType /\ new.by = c /\ new.kind = "abort" /\ new.pc = "sent" /\ new.waited
      /\ new.transfer = client[c].transfer
  BY <1>0, <1>1 DEF CallType, ClientType
<1>4. U!Idle \in ClientType /\ U!Idle.pc = "idle" /\ U!Idle.reply = "none"
  BY DEF U!Idle, ClientType, U!NoTransfer
<1>5. UNCHANGED <<transfer, runs, clientTold>> /\ client[c].reply = "none" BY DEF U!ContextEnds
<1>6. /\ aborts => requests' = left \cup {new}
      /\ ~aborts => requests' = left
  BY DEF U!ContextEnds, U!Message
<1> HIDE DEF End, new
<1>7. \A j \in requests' : (\E k \in requests : j = End(k)) \/ (aborts /\ j = new) BY <1>6
<1>8. /\ client' \in [Clients -> ClientType] /\ client'[c].reply = "none"
      /\ \A d \in Clients : d # c => client'[d] = client[d]
      /\ aborts => client'[c].pc = "abort" /\ client'[c].transfer = client[c].transfer
      /\ ~aborts => client'[c].pc = "idle"
  <2> DEFINE rec == [client[c] EXCEPT !.pc = "abort"]
  <2>1. /\ rec \in ClientType /\ rec.reply = "none" /\ rec.pc = "abort"
        /\ rec.transfer = client[c].transfer
    BY <1>1, <1>5 DEF ClientType
  <2>2. /\ aborts => client' = [client EXCEPT ![c] = rec]
        /\ ~aborts => client' = [client EXCEPT ![c] = U!Idle]
    BY DEF U!ContextEnds
  <2> HIDE DEF rec, aborts
  <2> QED BY <1>1, <1>4, <2>1, <2>2
<1>9. Transfers' = Transfers BY <1>5 DEF Transfers
<1>10. requests' \subseteq CallType BY <1>2, <1>3, <1>7
<1>11. UploadsType'
  BY <1>5, <1>8, <1>9, <1>10 DEF UploadsInv, UploadsType, TransferType, ClientType, CallType
<1>12. CallsWaited'
  <2>1. \A j \in requests' : j.waited => (\E k \in requests : j = End(k) /\ k.waited /\ k.by # c)
                                         \/ (aborts /\ j = new)
    BY <1>2, <1>7
  <2>2. ASSUME NEW j \in requests', j.waited, NEW i \in requests', i.waited, i.by = j.by
        PROVE  i = j
    BY <1>2, <1>3, <2>1, <2>2 DEF UploadsInv, CallsWaited
  <2>3. ASSUME NEW j \in requests', j.waited
        PROVE /\ j.kind = client'[j.by].pc /\ client'[j.by].reply = "none"
              /\ j.kind # "start" => j.transfer = client'[j.by].transfer
    <3>1. CASE aborts /\ j = new BY <1>3, <1>8, <3>1
    <3>2. CASE \E k \in requests : j = End(k) /\ k.waited /\ k.by # c
      <4>1. PICK k \in requests : j = End(k) /\ k.waited /\ k.by # c BY <3>2
      <4>2. j.kind = k.kind /\ j.transfer = k.transfer /\ client'[j.by] = client[k.by]
        BY <1>1, <1>2, <1>8, <4>1 DEF CallType
      <4> QED BY <4>1, <4>2 DEF UploadsInv, CallsWaited
    <3> QED BY <2>1, <2>3, <3>1, <3>2
  <2> QED BY <2>2, <2>3 DEF CallsWaited
<1>13. RunsAlone'
  <2> SUFFICES ASSUME NEW j \in requests', j.pc = "running"
               PROVE /\ j.kind = "finish" /\ j.transfer \in Transfers
                     /\ transfer[j.transfer].pc = "detached" /\ runs[j.transfer] = 0
                     /\ \A i \in requests' : i.pc = "running" /\ i.transfer = j.transfer => i = j
    BY <1>5, <1>9 DEF RunsAlone
  <2>1. PICK k \in requests : j = End(k) BY <1>3, <1>7
  <2> QED BY <1>2, <1>3, <1>7, <2>1 DEF UploadsInv, RunsAlone
<1>14. RunsAreOver' /\ ToldIsOver' /\ U!RunsAreTrue'
  BY <1>5 DEF UploadsInv, RunsAreOver, ToldIsOver, U!RunsAreTrue, U!Ids, Transfers
<1>15. AnswersAreTrue' BY <1>5, <1>8, <1>9 DEF UploadsInv, AnswersAreTrue
<1> QED BY <1>11, <1>12, <1>13, <1>14, <1>15 DEF UploadsInv

LEMMA UploadsRepeats ==
  ASSUME UploadsInv, CallsApart, NEW c \in Clients, NEW kind \in {"finish", "abort"}, U!Repeats(c, kind)
  PROVE  UploadsInv'
<1> DEFINE n == U!Number(c)
           new == [by |-> c, n |-> n, kind |-> kind, transfer |-> client[c].transfer,
                   offset |-> client[c].sent, pc |-> "sent", waited |-> FALSE, beside |-> TRUE]
<1>0. n \in Nat BY UploadsNumber
<1>1. requests' = requests \cup {new} /\ UNCHANGED <<client, transfer, runs, clientTold>>
  BY DEF U!Repeats, U!Message
<1>2. new \in CallType /\ ~new.waited /\ new.pc = "sent"
  BY <1>0 DEF UploadsInv, UploadsType, CallType, ClientType
<1> HIDE DEF new
<1>3. UploadsType' /\ Transfers' = Transfers
  BY <1>1, <1>2 DEF UploadsInv, UploadsType, TransferType, ClientType, CallType, Transfers
<1>4. CallsWaited' /\ RunsAlone' BY <1>1, <1>2, <1>3 DEF UploadsInv, CallsWaited, RunsAlone
<1>5. RunsAreOver' /\ ToldIsOver' /\ U!RunsAreTrue' /\ AnswersAreTrue'
  BY <1>1, <1>3 DEF UploadsInv, RunsAreOver, ToldIsOver, U!RunsAreTrue, U!Ids, Transfers, AnswersAreTrue
<1> QED BY <1>3, <1>4, <1>5 DEF UploadsInv

\* The handler takes a call up, or has its transfer out of the table and runs the request.
LEMMA UploadsTakenUp ==
  ASSUME UploadsInv, NEW k \in requests, k.pc # "running", NEW step \in {"begun", "running"}, U!Moves(k, step),
         TransfersMove, UNCHANGED <<client, runs, clientTold>>,
         step = "running" => /\ k.kind = "finish" /\ k.transfer \in Transfers
                             /\ transfer[k.transfer].pc = "open"
                             /\ transfer'[k.transfer].pc = "detached" /\ runs[k.transfer] = 0
  PROVE  UploadsInv'
<1> DEFINE new == [k EXCEPT !.pc = step]
<1>1. k \in CallType /\ requests \subseteq CallType BY DEF UploadsInv, UploadsType
<1>2. /\ new \in CallType /\ new.by = k.by /\ new.kind = k.kind /\ new.transfer = k.transfer
      /\ new.pc = step /\ new.waited = k.waited
  BY <1>1 DEF CallType
<1>3. requests' = (requests \ {k}) \cup {new} BY DEF U!Moves
<1> HIDE DEF new
<1>4. Transfers' = Transfers BY DEF TransfersMove
<1>5. UploadsType'
  BY <1>2, <1>3, <1>4 DEF UploadsInv, UploadsType, TransfersMove, TransferType, ClientType, CallType
<1>6. CallsWaited' BY <1>2, <1>3 DEF UploadsInv, CallsWaited
<1>7. RunsAlone'
  <2>1. ASSUME NEW j \in requests', j.pc = "running", j # new
        PROVE  j \in requests /\ transfer[j.transfer].pc = "detached" /\ j.transfer \in Transfers
               /\ transfer'[j.transfer].pc = "detached"
    BY <1>3, <2>1 DEF UploadsInv, RunsAlone, TransfersMove
  <2> SUFFICES ASSUME NEW j \in requests', j.pc = "running"
               PROVE /\ j.kind = "finish" /\ j.transfer \in Transfers
                     /\ transfer'[j.transfer].pc = "detached" /\ runs[j.transfer] = 0
                     /\ \A i \in requests' : i.pc = "running" /\ i.transfer = j.transfer => i = j
    BY <1>4 DEF RunsAlone
  <2>2. CASE j = new BY <1>2, <2>1, <2>2
  <2>3. CASE j # new
    <3>1. j \in requests /\ transfer[j.transfer].pc = "detached" /\ transfer'[j.transfer].pc = "detached"
      BY <2>1, <2>3
    <3>2. \A i \in requests' : i.pc = "running" /\ i.transfer = j.transfer => i \in requests
      BY <1>2, <1>3, <3>1
    <3> QED BY <3>1, <3>2 DEF UploadsInv, RunsAlone
  <2> QED BY <2>2, <2>3
<1>8. RunsAreOver' /\ ToldIsOver' /\ U!RunsAreTrue' /\ AnswersAreTrue'
  BY <1>4 DEF UploadsInv, TransfersMove, RunsAreOver, ToldIsOver, U!RunsAreTrue, U!Ids, Transfers, AnswersAreTrue
<1> QED BY <1>5, <1>6, <1>7, <1>8 DEF UploadsInv

LEMMA UploadsStand ==
  ASSUME UploadsInv, UNCHANGED transfer
  PROVE  TransfersMove
BY DEF UploadsInv, UploadsType, TransfersMove, Transfers

\* What is in the table may leave it, and nothing that is in it has run.
LEMMA UploadsLeave ==
  ASSUME UploadsInv, NEW t \in Transfers, transfer[t].pc = "open",
         NEW after \in {"detached", "gone"}, transfer' = [transfer EXCEPT ![t].pc = after]
  PROVE  TransfersMove /\ runs[t] = 0 /\ transfer'[t].pc = after
<1> DEFINE rec == [transfer[t] EXCEPT !.pc = after]
<1>1. transfer \in [Transfers -> TransferType] BY DEF UploadsInv, UploadsType
<1>2. rec \in TransferType /\ rec.pc = after BY <1>1 DEF TransferType
<1>3. transfer' = [transfer EXCEPT ![t] = rec]
  OBVIOUS
<1> HIDE DEF rec
<1>4. TransfersMove /\ transfer'[t].pc = after BY <1>1, <1>2, <1>3 DEF TransfersMove, Transfers
<1>5. runs[t] = 0 BY DEF UploadsInv, UploadsType, RunsAreOver
<1> QED BY <1>4, <1>5

\* owned
LEMMA UploadsOwned ==
  ASSUME UploadsInv, NEW k \in requests, U!Owned(k)
  PROVE  k.transfer \in Transfers /\ transfer[k.transfer].pc = "open"
BY DEF UploadsInv, UploadsType, CallType, U!Owned, U!InTable, U!NoTransfer

LEMMA UploadsFails ==
  ASSUME UploadsInv, NEW k \in requests, k.pc # "running", U!Fails(k), UNCHANGED <<runs, clientTold>>
  PROVE  UploadsInv'
<1>1. k.transfer \in Transfers \cup {0} BY DEF UploadsInv, UploadsType, CallType
<1>2. TransfersMove
  <2>1. CASE U!Owned(k) BY <2>1, UploadsOwned, UploadsLeave DEF U!Fails, U!Remove
  <2>2. CASE ~U!Owned(k) BY <2>2, UploadsStand DEF U!Fails
  <2> QED BY <2>1, <2>2
<1>3. U!Done(k, "failed", k.transfer) BY DEF U!Fails
<1> QED BY <1>1, <1>2, <1>3, UploadsHandled

LEMMA UploadsBegin ==
  ASSUME UploadsInv, NEW k \in requests, U!Begin(k)
  PROVE  UploadsInv'
<1>1. k.pc = "sent" /\ UNCHANGED <<transfer, runs, clientTold>> BY DEF U!Begin
<1>2. TransfersMove BY <1>1, UploadsStand
<1>3. k.transfer \in Transfers \cup {0} BY DEF UploadsInv, UploadsType, CallType
<1>4. CASE U!Moves(k, "begun") /\ UNCHANGED client BY <1>1, <1>2, <1>4, UploadsTakenUp
<1>5. CASE U!Done(k, "failed", k.transfer) BY <1>1, <1>2, <1>3, <1>5, UploadsHandled
<1> QED BY <1>4, <1>5 DEF U!Begin

LEMMA UploadsCancelled ==
  ASSUME UploadsInv, NEW k \in requests, U!Cancelled(k)
  PROVE  UploadsInv'
<1>1. requests' \subseteq requests /\ UNCHANGED <<client, transfer, runs, clientTold>>
  BY DEF U!Cancelled
<1>2. Transfers' = Transfers BY <1>1 DEF Transfers
<1> QED BY <1>1, <1>2 DEF UploadsInv, UploadsType, CallsWaited, RunsAlone, RunsAreOver, AnswersAreTrue, ToldIsOver,
       U!RunsAreTrue, Transfers, TransferType, ClientType, CallType, U!Ids

LEMMA UploadsStarts ==
  ASSUME UploadsInv, NEW k \in requests, U!Start(k)
  PROVE  UploadsInv'
<1>1. k.pc # "running" /\ k.kind = "start" /\ UNCHANGED <<runs, clientTold>> BY DEF U!Start
<1>2. CASE U!Done(k, "failed", U!NoTransfer) /\ UNCHANGED transfer
  <2>1. TransfersMove BY <1>2, UploadsStand
  <2>2. U!Done(k, "failed", 0) BY <1>2 DEF U!NoTransfer
  <2> QED BY <1>1, <2>1, <2>2, UploadsHandled
<1>3. CASE \E t \in U!Ids : /\ transfer[t].pc = "none" /\ transfer' = [transfer EXCEPT ![t] = U!Opened(k.by)]
                            /\ U!Done(k, "ok", t)
  <2>1. PICK t \in Transfers : /\ transfer[t].pc = "none"
                               /\ transfer' = [transfer EXCEPT ![t] = U!Opened(k.by)]
                               /\ U!Done(k, "ok", t)
    BY <1>3 DEF U!Ids, Transfers
  <2>2. U!Opened(k.by) \in TransferType
    BY DEF UploadsInv, UploadsType, CallType, U!Opened, TransferType
  <2>3. TransfersMove BY <2>1, <2>2 DEF UploadsInv, UploadsType, TransfersMove, Transfers
  <2>4. t \in Transfers \cup {0}
    OBVIOUS
  <2> QED BY <1>1, <2>1, <2>3, <2>4, UploadsHandled
<1> QED BY <1>2, <1>3 DEF U!Start

LEMMA UploadsChunk ==
  ASSUME UploadsInv, NEW k \in requests, U!Chunk(k)
  PROVE  UploadsInv'
<1>1. k.pc # "running" /\ k.kind = "chunk" /\ UNCHANGED <<runs, clientTold>> BY DEF U!Chunk
<1>2. CASE U!Good(k) /\ U!Done(k, "ok", k.transfer)
           /\ transfer' = [transfer EXCEPT ![k.transfer].received = @ + 1]
  <2> DEFINE t == k.transfer
             rec == [transfer[t] EXCEPT !.received = transfer[t].received + 1]
  <2>1. t \in Transfers /\ transfer[t].pc = "open" BY <1>2, UploadsOwned DEF U!Good
  <2>2. transfer \in [Transfers -> TransferType] BY DEF UploadsInv, UploadsType
  <2>3. rec \in TransferType /\ rec.pc = transfer[t].pc BY <2>1, <2>2 DEF TransferType
  <2>4. transfer' = [transfer EXCEPT ![t] = rec] BY <1>2
  <2> HIDE DEF rec
  <2>5. TransfersMove BY <2>1, <2>2, <2>3, <2>4 DEF TransfersMove, Transfers
  <2> QED BY <1>1, <1>2, <2>1, <2>5, UploadsHandled
<1>3. CASE U!Fails(k) BY <1>1, <1>3, UploadsFails
<1> QED BY <1>2, <1>3 DEF U!Chunk

LEMMA UploadsAbort ==
  ASSUME UploadsInv, NEW k \in requests, U!Abort(k)
  PROVE  UploadsInv'
<1>1. k.pc # "running" /\ k.kind = "abort" /\ UNCHANGED <<runs, clientTold>> BY DEF U!Abort
<1>2. CASE U!Good(k) /\ U!Remove(k.transfer) /\ U!Done(k, "ok", k.transfer)
  <2>1. k.transfer \in Transfers /\ transfer[k.transfer].pc = "open"
    BY <1>2, UploadsOwned DEF U!Good
  <2>2. TransfersMove /\ runs[k.transfer] = 0 /\ transfer'[k.transfer].pc = "gone"
    BY <1>2, <2>1, UploadsLeave DEF U!Remove
  <2> QED BY <1>1, <1>2, <2>1, <2>2, UploadsHandled
<1>3. CASE U!Fails(k) BY <1>1, <1>3, UploadsFails
<1> QED BY <1>2, <1>3 DEF U!Abort

LEMMA UploadsFinish ==
  ASSUME UploadsInv, NEW k \in requests, U!Finish(k)
  PROVE  UploadsInv'
<1>1. k.pc # "running" /\ k.kind = "finish" /\ UNCHANGED <<runs, clientTold>> BY DEF U!Finish
<1>2. CASE U!Good(k) /\ U!Detach(k.transfer) /\ U!Moves(k, "running") /\ UNCHANGED client
  <2>1. k.transfer \in Transfers /\ transfer[k.transfer].pc = "open"
    BY <1>2, UploadsOwned DEF U!Good
  <2>2. TransfersMove /\ runs[k.transfer] = 0 /\ transfer'[k.transfer].pc = "detached"
    BY <1>2, <2>1, UploadsLeave DEF U!Detach
  <2> QED BY <1>1, <1>2, <2>1, <2>2, UploadsTakenUp
<1>3. CASE U!Fails(k) BY <1>1, <1>3, UploadsFails
<1> QED BY <1>2, <1>3 DEF U!Finish

\* The request runs, or not, and the transfer is gone.
LEMMA UploadsRuns ==
  ASSUME UploadsInv, NEW k \in requests, U!Run(k)
  PROVE  UploadsInv'
<1> DEFINE t == k.transfer
<1>1. /\ k.kind = "finish" /\ t \in Transfers /\ transfer[t].pc = "detached" /\ runs[t] = 0
      /\ \A j \in requests : j.pc = "running" /\ j.transfer = t => j = k
  BY DEF UploadsInv, RunsAlone, U!Run
<1>2. PICK what \in {"ok", "failed"} : U!Done(k, what, t) /\ (what = "ok" => runs' = [runs EXCEPT ![t] = @ + 1])
  BY DEF U!Run
<1>3. Answered(k, what, t) BY <1>1, <1>2, UploadsAnswer
<1>4. /\ runs \in [Transfers -> {0, 1}] /\ clientTold \in [Transfers -> {"nothing", "done", "aborted"}]
      /\ transfer \in [Transfers -> TransferType] /\ requests \subseteq CallType
  BY DEF UploadsInv, UploadsType
<1>5. /\ runs' \in [Transfers -> {0, 1}] /\ \A u \in Transfers : u # t => runs'[u] = runs[u]
      /\ what = "ok" => runs'[t] = 1
  BY <1>1, <1>2, <1>4 DEF U!Run
<1>6. /\ Transfers' = Transfers /\ transfer' \in [Transfers -> TransferType] /\ transfer'[t].pc = "gone"
      /\ \A u \in Transfers : u # t => transfer'[u] = transfer[u]
  <2> DEFINE rec == [transfer[t] EXCEPT !.pc = "gone"]
  <2>1. rec \in TransferType /\ rec.pc = "gone" BY <1>1, <1>4 DEF TransferType
  <2>2. transfer' = [transfer EXCEPT ![t] = rec] BY DEF U!Run, U!Remove
  <2> HIDE DEF rec
  <2> QED BY <1>1, <1>4, <2>1, <2>2 DEF Transfers
<1>7. UNCHANGED clientTold BY DEF U!Run
<1> HIDE DEF t
<1>8. UploadsType'
  BY <1>3, <1>4, <1>5, <1>6, <1>7 DEF UploadsInv, UploadsType, Answered, TransferType, ClientType, CallType
<1>9. CallsWaited' BY <1>3, <1>4 DEF UploadsInv, Answered, CallsWaited, CallType
<1>10. RunsAlone' BY <1>1, <1>3, <1>5, <1>6 DEF UploadsInv, RunsAlone, Answered
<1>11. RunsAreOver' /\ ToldIsOver' BY <1>5, <1>6, <1>7 DEF UploadsInv, RunsAreOver, ToldIsOver
<1>12. U!RunsAreTrue'
  BY <1>1, <1>4, <1>5, <1>6, <1>7 DEF UploadsInv, ToldIsOver, U!RunsAreTrue, U!Ids, Transfers
<1>13. AnswersAreTrue'
  <2> SUFFICES ASSUME NEW c \in Clients
               PROVE /\ client'[c].pc \in {"chunk", "finish", "abort"} => client'[c].transfer \in Transfers
                     /\ client'[c].pc = "start" /\ client'[c].reply = "ok" => client'[c].transfer \in Transfers
                     /\ client'[c].reply = "ok" /\ client'[c].pc = "finish" => runs'[client'[c].transfer] = 1
                     /\ client'[c].reply = "ok" /\ client'[c].pc = "abort" =>
                          transfer'[client'[c].transfer].pc = "gone" /\ runs'[client'[c].transfer] = 0
    BY <1>6 DEF AnswersAreTrue
  <2>1. CASE c # k.by \/ ~k.waited
    <3>1. client'[c] = client[c] BY <1>3, <2>1 DEF Answered
    <3>2. client[c].reply = "ok" /\ client[c].pc \in {"finish", "abort"} => client[c].transfer # t
      BY <1>1 DEF UploadsInv, AnswersAreTrue
    <3> QED BY <1>5, <1>6, <3>1, <3>2 DEF UploadsInv, AnswersAreTrue
  <2>2. CASE c = k.by /\ k.waited
    <3>1. client[c].pc = "finish" BY <1>1, <2>2 DEF UploadsInv, CallsWaited
    <3>2. client'[c].pc = "finish" /\ client'[c].reply = what /\ client'[c].transfer = t
      BY <1>3, <2>2, <3>1 DEF Answered
    <3> QED BY <1>1, <1>5, <3>2
  <2> QED BY <2>1, <2>2
<1> QED BY <1>8, <1>9, <1>10, <1>11, <1>12, <1>13 DEF UploadsInv

LEMMA UploadsStep == UploadsInv /\ CallsApart /\ [U!Next]_U!vars => UploadsInv'
<1> SUFFICES ASSUME UploadsInv, CallsApart, [U!Next]_U!vars PROVE UploadsInv'
  OBVIOUS
<1>1. CASE UNCHANGED U!vars BY <1>1, UploadsElsewhere DEF U!vars
<1>2. CASE U!Close
  <2>1. U!Peers \cup {c \in Clients : conn[c] = "waiting"} \in SUBSET Clients BY DEF U!Peers
  <2> QED BY <1>2, <2>1, UploadsEnds DEF U!Close
<1>3. ASSUME NEW c \in Clients, U!Dial(c) \/ U!Accept(c) \/ U!Admit(c) \/ U!Hello(c)
      PROVE  UploadsInv'
  BY <1>3, UploadsElsewhere DEF U!Dial, U!Accept, U!Admit, U!Hello
<1>4. ASSUME NEW c \in Clients, U!Drop(c) PROVE UploadsInv'
  <2>1. {c} \in SUBSET Clients
    OBVIOUS
  <2> QED BY <1>4, <2>1, UploadsEnds DEF U!Drop
<1>5. ASSUME NEW c \in Clients, U!Upload(c) \/ U!Goes(c) \/ U!ContextEnds(c)
                                  \/ U!Repeats(c, "finish") \/ U!Repeats(c, "abort")
      PROVE  UploadsInv'
  BY <1>5, UploadsUpload, UploadsGoes, UploadsContextEnds, UploadsRepeats
<1>6. ASSUME NEW k \in requests, U!Handles(k) \/ U!Cancelled(k) PROVE UploadsInv'
  BY <1>6, UploadsBegin, UploadsStarts, UploadsChunk, UploadsAbort, UploadsFinish, UploadsRuns,
     UploadsCancelled DEF U!Handles
<1>7. ASSUME NEW t \in U!Ids, U!Passes(t) \/ U!Discard(t) PROVE UploadsInv'
  BY <1>7, UploadsPass DEF U!Ids, Transfers
<1> QED BY <1>1, <1>2, <1>3, <1>4, <1>5, <1>6, <1>7 DEF U!Next

\* The memory that is reserved is that of the transfers and of the calls that are handled, and
\* no more than there is.
MemoryInv ==
  /\ CallsApart /\ IsFiniteSet(Transfers)
  /\ slots = Cardinality(U!Held) /\ slots <= MaxTransfers
  /\ bytes = Cost * Cardinality(U!Held) + Scratch * Cardinality(U!Begun) /\ bytes <= MaxBytes

LEMMA MemoryCounts ==
  ASSUME MemoryInv
  PROVE  /\ IsFiniteSet(U!Held) /\ Cardinality(U!Held) \in Nat
         /\ IsFiniteSet(U!Begun) /\ Cardinality(U!Begun) \in Nat
<1>1. U!Held \in SUBSET Transfers /\ U!Begun \in SUBSET requests
  BY DEF U!Held, U!Begun, U!Ids, Transfers
<1>2. IsFiniteSet(U!Held) /\ IsFiniteSet(U!Begun) BY <1>1, FS_Subset DEF MemoryInv, CallsApart
<1> QED BY <1>2, FS_CardinalityType

LEMMA Reservations ==
  \A a, n \in Nat : a * n \in Nat /\ a * (n + 1) = a * n + a
OBVIOUS

\* What is given back or taken is what the transfers and calls that came or went reserve.
LEMMA MemoryMoves ==
  ASSUME UploadsBounds, MemoryInv, CallsApart', Transfers' = Transfers,
         NEW h \in {-1, 0, 1}, NEW b \in {-1, 0, 1},
         Cardinality(U!Held)' = Cardinality(U!Held) + h,
         Cardinality(U!Begun)' = Cardinality(U!Begun) + b,
         slots' = slots + h, slots' <= MaxTransfers,
         bytes' = bytes + (IF h = 1 THEN Cost ELSE IF h = 0 THEN 0 ELSE -Cost)
                        + (IF b = 1 THEN Scratch ELSE IF b = 0 THEN 0 ELSE -Scratch),
         bytes' <= MaxBytes
  PROVE  MemoryInv'
<1> DEFINE held == Cardinality(U!Held)
           begun == Cardinality(U!Begun)
<1>1. held \in Nat /\ begun \in Nat /\ Cost \in Nat /\ Scratch \in Nat
  BY MemoryCounts DEF UploadsBounds
<1>2. IsFiniteSet(U!Held') /\ IsFiniteSet(U!Begun')
  <2>1. U!Held' \in SUBSET Transfers /\ U!Begun' \in SUBSET requests'
    BY DEF U!Held, U!Begun, U!Ids, Transfers
  <2> QED BY <2>1, FS_Subset DEF MemoryInv, CallsApart
<1>3. held' \in Nat /\ begun' \in Nat BY <1>2, FS_CardinalityType
<1>4. /\ held' = held + h /\ begun' = begun + b /\ slots = held /\ bytes = Cost * held + Scratch * begun
  BY DEF MemoryInv
<1> HIDE DEF held, begun
<1>5. Cost * held' = Cost * held + (IF h = 1 THEN Cost ELSE IF h = 0 THEN 0 ELSE -Cost)
  <2>1. CASE h = 1 BY <1>1, <1>4, <2>1, Reservations
  <2>2. CASE h = 0 BY <1>1, <1>4, <2>2
  <2>3. CASE h = -1
    <3>1. held = held' + 1 BY <1>1, <1>3, <1>4, <2>3
    <3>2. Cost * held = Cost * held' + Cost /\ Cost * held' \in Nat
      BY <1>1, <1>3, <3>1, Reservations
    <3> QED BY <1>1, <2>3, <3>2
  <2> QED BY <2>1, <2>2, <2>3
<1>6. Scratch * begun' = Scratch * begun + (IF b = 1 THEN Scratch ELSE IF b = 0 THEN 0 ELSE -Scratch)
  <2>1. CASE b = 1 BY <1>1, <1>4, <2>1, Reservations
  <2>2. CASE b = 0 BY <1>1, <1>4, <2>2
  <2>3. CASE b = -1
    <3>1. begun = begun' + 1 BY <1>1, <1>3, <1>4, <2>3
    <3>2. Scratch * begun = Scratch * begun' + Scratch /\ Scratch * begun' \in Nat
      BY <1>1, <1>3, <3>1, Reservations
    <3> QED BY <1>1, <2>3, <3>2
  <2> QED BY <2>1, <2>2, <2>3
<1>7. Cost * held \in Nat /\ Scratch * begun \in Nat /\ Cost * held' \in Nat /\ Scratch * begun' \in Nat
  BY <1>1, <1>3, Reservations
<1>8. bytes' = Cost * held' + Scratch * begun' /\ slots' = held' BY <1>1, <1>4, <1>5, <1>6, <1>7
<1> QED BY <1>8 DEF MemoryInv, held, begun

\* Calls that change without being begun or ended keep their memory, ...
LEMMA CallsRenewed ==
  ASSUME CallsApart, IsFiniteSet(U!Begun), NEW f, NEW extra,
         DOMAIN f = requests,
         \A k \in requests : /\ f[k].by = k.by /\ f[k].n = k.n
                             /\ f[k].pc = "sent" <=> k.pc = "sent",
         IsFiniteSet(extra), \A e \in extra : e.pc = "sent", \A d, e \in extra : d = e,
         \A e \in extra : \A k \in requests : k.by = e.by => k.n # e.n,
         \A j \in requests' : j \in extra \/ \E k \in requests : j = f[k],
         \A k \in requests : k.pc # "sent" => f[k] \in requests'
  PROVE  CallsApart' /\ Cardinality(U!Begun)' = Cardinality(U!Begun)
<1> DEFINE T == {f[k] : k \in requests}
           g == [k \in U!Begun |-> f[k]]
<1>1. IsFiniteSet(T)
  <2> DEFINE m == [k \in requests |-> f[k]]
  <2>1. m \in Surjection(requests, T) BY DEF Surjection
  <2> QED BY <2>1, FS_Surjection DEF CallsApart
<1>2. IsFiniteSet(T \cup extra) /\ requests' \in SUBSET (T \cup extra) BY <1>1, FS_Union
<1>3. IsFiniteSet(requests') BY <1>2, FS_Subset
<1>4. ASSUME NEW i \in requests', NEW j \in requests', i.by = j.by, i.n = j.n
      PROVE  i = j
  BY <1>4 DEF CallsApart
<1>5. CallsApart' BY <1>3, <1>4 DEF CallsApart
<1>6. \A k \in U!Begun : k \in requests /\ k.pc # "sent" /\ f[k] \in U!Begun' BY DEF U!Begun
<1>7. g \in [U!Begun -> U!Begun'] BY <1>6
<1>8. \A j, k \in U!Begun : g[j] = g[k] => j = k BY <1>6 DEF CallsApart
<1>9. \A j \in U!Begun' : \E k \in U!Begun : g[k] = j
  <2> SUFFICES ASSUME NEW j \in U!Begun' PROVE \E k \in U!Begun : f[k] = j
    OBVIOUS
  <2>1. j \in requests' /\ j.pc # "sent" BY DEF U!Begun
  <2>2. PICK k \in requests : j = f[k] BY <2>1
  <2>3. k \in U!Begun BY <2>1, <2>2 DEF U!Begun
  <2> QED BY <2>2, <2>3
<1> HIDE DEF g
<1>10. g \in Bijection(U!Begun, U!Begun')
  BY <1>7, <1>8, <1>9 DEF Bijection, Injection, Surjection, IsInjective
<1>11. Cardinality(U!Begun') = Cardinality(U!Begun) BY <1>10, FS_Bijection DEF ExistsBijection
<1> QED BY <1>5, <1>11

\* ... and so do calls that only their number and a client are new of.
LEMMA CallsMade ==
  ASSUME CallsApart, IsFiniteSet(U!Begun), NEW c, NEW new, new.by = c, new.n = U!Number(c),
         new.pc = "sent", requests' = requests \cup {new}
  PROVE  CallsApart' /\ Cardinality(U!Begun)' = Cardinality(U!Begun)
<1> DEFINE f == [k \in requests |-> k]
<1>1. \A k \in requests : k.by = c => k.n # U!Number(c) BY UploadsNumber
<1>2. IsFiniteSet({new}) BY FS_Singleton
<1>3. /\ DOMAIN f = requests /\ \A k \in requests : f[k] = k
  OBVIOUS
<1> HIDE DEF f
<1>4. /\ \A k \in requests : /\ f[k].by = k.by /\ f[k].n = k.n
                             /\ f[k].pc = "sent" <=> k.pc = "sent"
      /\ \A e \in {new} : e.pc = "sent"
      /\ \A d, e \in {new} : d = e
      /\ \A e \in {new} : \A k \in requests : k.by = e.by => k.n # e.n
      /\ \A j \in requests' : j \in {new} \/ \E k \in requests : j = f[k]
      /\ \A k \in requests : k.pc # "sent" => f[k] \in requests'
  BY <1>1, <1>3
<1> QED BY <1>2, <1>3, <1>4, CallsRenewed

LEMMA CallsGone ==
  ASSUME CallsApart, IsFiniteSet(U!Begun), NEW k \in requests, requests' = requests \ {k}
  PROVE  /\ CallsApart'
         /\ Cardinality(U!Begun)' =
              IF k.pc = "sent" THEN Cardinality(U!Begun) ELSE Cardinality(U!Begun) - 1
<1>1. requests' \in SUBSET requests
  OBVIOUS
<1>2. CallsApart' BY <1>1, FS_Subset DEF CallsApart
<1>3. U!Begun' = U!Begun \ {k} BY DEF U!Begun
<1>4. k \in U!Begun <=> k.pc # "sent" BY DEF U!Begun
<1>5. Cardinality(U!Begun') = IF k \in U!Begun THEN Cardinality(U!Begun) - 1
                              ELSE Cardinality(U!Begun)
  BY <1>3, FS_RemoveElement
<1> QED BY <1>2, <1>4, <1>5

LEMMA CallsMoved ==
  ASSUME CallsApart, IsFiniteSet(U!Begun), requests \subseteq CallType, NEW k \in requests,
         NEW step \in {"begun", "running"}, U!Moves(k, step)
  PROVE  /\ CallsApart'
         /\ Cardinality(U!Begun)' =
              IF k.pc = "sent" THEN Cardinality(U!Begun) + 1 ELSE Cardinality(U!Begun)
<1> DEFINE new == [k EXCEPT !.pc = step]
<1>1. new.by = k.by /\ new.n = k.n /\ new.pc = step BY DEF CallType
<1>2. requests' = (requests \ {k}) \cup {new} BY DEF U!Moves
<1> HIDE DEF new
<1>3. IsFiniteSet(requests')
  <2>1. IsFiniteSet(requests \ {k}) BY FS_RemoveElement DEF CallsApart
  <2> QED BY <1>2, <2>1, FS_AddElement
<1>4. CallsApart' BY <1>1, <1>2, <1>3 DEF CallsApart
<1>5. U!Begun' = (U!Begun \ {k}) \cup {new} BY <1>1, <1>2 DEF U!Begun
<1>6. new \notin U!Begun \ {k} BY <1>1 DEF U!Begun, CallsApart
<1>7. k \in U!Begun <=> k.pc # "sent" BY DEF U!Begun
<1>8. /\ IsFiniteSet(U!Begun \ {k})
      /\ Cardinality(U!Begun \ {k}) = IF k \in U!Begun THEN Cardinality(U!Begun) - 1
                                      ELSE Cardinality(U!Begun)
  BY FS_RemoveElement
<1>9. Cardinality(U!Begun') = Cardinality(U!Begun \ {k}) + 1 BY <1>5, <1>6, <1>8, FS_AddElement
<1>10. Cardinality(U!Begun) \in Nat BY FS_CardinalityType
<1> QED BY <1>4, <1>7, <1>8, <1>9, <1>10

\* With a context or a connection the calls end that wait on it.
LEMMA CallsForgotten ==
  ASSUME UploadsInv, CallsApart, IsFiniteSet(U!Begun), NEW cs, NEW extra, IsFiniteSet(extra),
         \A e \in extra : e.pc = "sent", \A d, e \in extra : d = e,
         \A e \in extra : \A k \in requests : k.by = e.by => k.n # e.n,
         \A j \in requests' :
           j \in extra \/ \E k \in requests : j = [k EXCEPT !.waited = k.waited /\ k.by \notin cs],
         \A k \in requests :
           k.pc # "sent" => [k EXCEPT !.waited = k.waited /\ k.by \notin cs] \in requests'
  PROVE  CallsApart' /\ Cardinality(U!Begun)' = Cardinality(U!Begun)
<1> DEFINE f == [k \in requests |-> [k EXCEPT !.waited = k.waited /\ k.by \notin cs]]
<1>1. requests \subseteq CallType BY DEF UploadsInv, UploadsType
<1>2. \A k \in requests : f[k].by = k.by /\ f[k].n = k.n /\ f[k].pc = k.pc
  <2> TAKE k \in requests
  <2> DEFINE w == k.waited /\ k.by \notin cs
  <2>1. k \in CallType /\ w \in BOOLEAN BY <1>1
  <2>2. f[k] = [k EXCEPT !.waited = w]
    OBVIOUS
  <2> HIDE DEF w, f
  <2> QED BY <2>1, <2>2, UploadsLetGo
<1>3. /\ DOMAIN f = requests
      /\ \A j \in requests' : j \in extra \/ \E k \in requests : j = f[k]
      /\ \A k \in requests : k.pc # "sent" => f[k] \in requests'
  OBVIOUS
<1> HIDE DEF f
<1>4. \A k \in requests : /\ f[k].by = k.by /\ f[k].n = k.n
                          /\ f[k].pc = "sent" <=> k.pc = "sent"
  BY <1>2
<1> QED BY <1>3, <1>4, CallsRenewed

\* The transfers that are in memory.
LEMMA HeldKept ==
  ASSUME UploadsInv, Transfers' = Transfers,
         \A t \in Transfers : transfer'[t].pc \in {"open", "detached"}
                                <=> transfer[t].pc \in {"open", "detached"}
  PROVE  Cardinality(U!Held)' = Cardinality(U!Held)
<1>1. U!Held' = U!Held BY DEF U!Held, U!Ids, Transfers
<1> QED BY <1>1

LEMMA HeldStays == ASSUME UploadsInv, UNCHANGED transfer
                   PROVE  Transfers' = Transfers /\ Cardinality(U!Held)' = Cardinality(U!Held)
<1>1. Transfers' = Transfers BY DEF Transfers
<1> QED BY <1>1, HeldKept

LEMMA HeldGone ==
  ASSUME UploadsInv, IsFiniteSet(U!Held), NEW t \in Transfers,
         transfer[t].pc \in {"open", "detached"}, U!Remove(t)
  PROVE  Transfers' = Transfers /\ Cardinality(U!Held)' = Cardinality(U!Held) - 1
<1> DEFINE gone == [transfer[t] EXCEPT !.pc = "gone"]
<1>1. transfer \in [Transfers -> TransferType] BY DEF UploadsInv, UploadsType
<1>2. gone.pc = "gone" BY <1>1 DEF TransferType
<1>3. transfer' = [transfer EXCEPT ![t] = gone] BY DEF U!Remove
<1> HIDE DEF gone
<1>4. Transfers' = Transfers BY <1>1, <1>3 DEF Transfers
<1>5. \A u \in Transfers : transfer'[u] = IF u = t THEN gone ELSE transfer[u] BY <1>1, <1>3
<1>6. U!Held' = U!Held \ {t} /\ t \in U!Held BY <1>2, <1>4, <1>5 DEF U!Held, U!Ids, Transfers
<1> QED BY <1>4, <1>6, FS_RemoveElement

LEMMA HeldMore ==
  ASSUME UploadsInv, IsFiniteSet(U!Held), NEW t \in Transfers, transfer[t].pc = "none",
         NEW c, transfer' = [transfer EXCEPT ![t] = U!Opened(c)]
  PROVE  Transfers' = Transfers /\ Cardinality(U!Held)' = Cardinality(U!Held) + 1
<1>1. transfer \in [Transfers -> TransferType] BY DEF UploadsInv, UploadsType
<1>2. U!Opened(c).pc = "open" BY DEF U!Opened
<1>4. Transfers' = Transfers BY <1>1 DEF Transfers
<1>5. \A u \in Transfers : transfer'[u] = IF u = t THEN U!Opened(c) ELSE transfer[u] BY <1>1
<1>6. U!Held' = U!Held \cup {t} /\ t \notin U!Held
  BY <1>2, <1>4, <1>5 DEF U!Held, U!Ids, Transfers
<1> QED BY <1>4, <1>6, FS_AddElement

\* Numbers that the reservations are told from.
LEMMA MemoryNumbers ==
  ASSUME UploadsBounds, MemoryInv
  PROVE  /\ bytes \in Nat /\ slots \in Nat /\ Cost \in Nat /\ Scratch \in Nat
         /\ MaxBytes \in Nat /\ MaxTransfers \in Nat
<1>1. Cardinality(U!Held) \in Nat /\ Cardinality(U!Begun) \in Nat BY MemoryCounts
<1>2. Cost \in Nat /\ Scratch \in Nat /\ MaxBytes \in Nat /\ MaxTransfers \in Nat
  BY DEF UploadsBounds
<1>3. Cost * Cardinality(U!Held) \in Nat /\ Scratch * Cardinality(U!Begun) \in Nat
  BY <1>1, <1>2, Reservations
<1> QED BY <1>1, <1>2, <1>3 DEF MemoryInv

\* A step that reserves nothing.
LEMMA MemoryKept ==
  ASSUME UploadsBounds, UploadsInv, MemoryInv, CallsApart', UNCHANGED <<transfer, bytes, slots>>,
         Cardinality(U!Begun)' = Cardinality(U!Begun)
  PROVE  MemoryInv'
<1>1. Transfers' = Transfers /\ Cardinality(U!Held)' = Cardinality(U!Held) BY HeldStays
<1> QED BY <1>1 DEF MemoryInv

LEMMA MemoryElsewhere ==
  ASSUME UploadsBounds, UploadsInv, MemoryInv, UNCHANGED <<requests, transfer, bytes, slots>>
  PROVE  MemoryInv'
<1>1. CallsApart' /\ Cardinality(U!Begun)' = Cardinality(U!Begun)
  BY DEF MemoryInv, CallsApart, U!Begun
<1> QED BY <1>1, MemoryKept

LEMMA MemoryEnds ==
  ASSUME UploadsBounds, UploadsInv, MemoryInv, NEW cs, U!Ends(cs),
         UNCHANGED <<transfer, bytes, slots>>
  PROVE  MemoryInv'
<1>1. requests' = {[k EXCEPT !.waited = k.waited /\ k.by \notin cs] :
                     k \in {k \in requests : k.by \notin cs \/ k.pc # "sent"}}
  BY DEF U!Ends
<1>2. IsFiniteSet({}) BY FS_EmptySet
<1>3. CallsApart /\ IsFiniteSet(U!Begun) BY MemoryCounts DEF MemoryInv
<1>4. /\ \A j \in requests' :
           j \in {} \/ \E k \in requests : j = [k EXCEPT !.waited = k.waited /\ k.by \notin cs]
      /\ \A k \in requests :
           k.pc # "sent" => [k EXCEPT !.waited = k.waited /\ k.by \notin cs] \in requests'
  BY <1>1
<1>5. CallsApart' /\ Cardinality(U!Begun)' = Cardinality(U!Begun)
  BY <1>2, <1>3, <1>4, CallsForgotten
<1> QED BY <1>5, MemoryKept

LEMMA MemoryContextEnds ==
  ASSUME UploadsBounds, UploadsInv, MemoryInv, NEW c \in Clients, U!ContextEnds(c)
  PROVE  MemoryInv'
<1> DEFINE new == U!Message(c, "abort", client[c], TRUE)
           letGo == {[k EXCEPT !.waited = k.waited /\ k.by \notin {c}] : k \in requests}
           extra == IF client[c].pc \in {"chunk", "finish"} THEN {new} ELSE {}
<1>1. UNCHANGED <<transfer, bytes, slots>> BY DEF U!ContextEnds
<1>2. letGo = {[k EXCEPT !.waited = k.waited /\ k.by # c] : k \in requests}
  OBVIOUS
<1>3. CallsApart /\ IsFiniteSet(U!Begun) BY MemoryCounts DEF MemoryInv
<1>4. new.by = c /\ new.n = U!Number(c) /\ new.pc = "sent" BY DEF U!Message
<1>5. requests' = letGo \cup extra
  <2> HIDE DEF new
  <2>1. CASE client[c].pc \in {"chunk", "finish"}
    <3>1. requests' = {[k EXCEPT !.waited = k.waited /\ k.by # c] : k \in requests} \cup {new}
      BY <2>1 DEF U!ContextEnds, new
    <3> HIDE DEF letGo
    <3> QED BY <1>2, <2>1, <3>1
  <2>2. CASE client[c].pc \notin {"chunk", "finish"}
    <3>1. requests' = {[k EXCEPT !.waited = k.waited /\ k.by # c] : k \in requests}
      BY <2>2 DEF U!ContextEnds
    <3> HIDE DEF letGo
    <3> QED BY <1>2, <2>2, <3>1
  <2> QED BY <2>1, <2>2
<1> HIDE DEF new
<1>6. IsFiniteSet(extra) BY FS_EmptySet, FS_Singleton
<1>7. \A k \in requests : k.by = c => k.n # U!Number(c) BY <1>3, UploadsNumber
<1>8. /\ \A e \in extra : e.pc = "sent"
      /\ \A d, e \in extra : d = e
      /\ \A e \in extra : \A k \in requests : k.by = e.by => k.n # e.n
  BY <1>4, <1>7
<1> HIDE DEF extra
<1>9. /\ \A j \in requests' :
           j \in extra \/ \E k \in requests : j = [k EXCEPT !.waited = k.waited /\ k.by \notin {c}]
      /\ \A k \in requests :
           k.pc # "sent" => [k EXCEPT !.waited = k.waited /\ k.by \notin {c}] \in requests'
  BY <1>5
<1>10. CallsApart' /\ Cardinality(U!Begun)' = Cardinality(U!Begun)
  BY <1>3, <1>6, <1>8, <1>9, CallsForgotten
<1> QED BY <1>1, <1>10, MemoryKept

LEMMA MemoryMade ==
  ASSUME UploadsBounds, UploadsInv, MemoryInv, NEW c, NEW kind, NEW v, NEW waited,
         requests' = requests \cup {U!Message(c, kind, v, waited)},
         UNCHANGED <<transfer, bytes, slots>>
  PROVE  MemoryInv'
<1> DEFINE new == U!Message(c, kind, v, waited)
<1>1. new.by = c /\ new.n = U!Number(c) /\ new.pc = "sent" /\ requests' = requests \cup {new}
  BY DEF U!Message
<1>2. CallsApart /\ IsFiniteSet(U!Begun) BY MemoryCounts DEF MemoryInv
<1> HIDE DEF new
<1>3. CallsApart' /\ Cardinality(U!Begun)' = Cardinality(U!Begun) BY <1>1, <1>2, CallsMade
<1> QED BY <1>3, MemoryKept

LEMMA MemoryClient ==
  ASSUME UploadsBounds, UploadsInv, MemoryInv, NEW c \in Clients,
         U!Upload(c) \/ U!Goes(c) \/ U!Repeats(c, "finish") \/ U!Repeats(c, "abort")
  PROVE  MemoryInv'
<1>1. CASE U!Upload(c) BY <1>1, MemoryMade DEF U!Upload, U!Sends
<1>2. CASE U!Repeats(c, "finish") \/ U!Repeats(c, "abort") BY <1>2, MemoryMade DEF U!Repeats
<1>3. CASE U!Goes(c)
  <2>1. UNCHANGED <<transfer, bytes, slots>> BY <1>3 DEF U!Goes
  <2>2. \/ UNCHANGED requests
        \/ \E kind \in {"chunk", "finish", "abort"} :
             requests' = requests \cup {U!Message(c, kind, client[c], TRUE)}
    BY <1>3 DEF U!Goes, U!Sends
  <2>3. CASE UNCHANGED requests BY <2>1, <2>3, MemoryElsewhere
  <2>4. CASE \E kind \in {"chunk", "finish", "abort"} :
               requests' = requests \cup {U!Message(c, kind, client[c], TRUE)}
    BY <2>1, <2>4, MemoryMade
  <2> QED BY <2>2, <2>3, <2>4
<1> QED BY <1>1, <1>2, <1>3

\* A call that has been begun is over: its scratch memory is given back.
LEMMA MemoryOver ==
  ASSUME UploadsBounds, MemoryInv, NEW k \in requests, k.pc # "sent", requests' = requests \ {k},
         Transfers' = Transfers, NEW h \in {-1, 0, 1},
         Cardinality(U!Held)' = Cardinality(U!Held) + h, slots' = slots + h,
         bytes' = bytes + (IF h = 1 THEN Cost ELSE IF h = 0 THEN 0 ELSE -Cost) - Scratch,
         slots' <= MaxTransfers, bytes' <= MaxBytes
  PROVE  MemoryInv'
<1>1. CallsApart /\ IsFiniteSet(U!Begun) /\ Cardinality(U!Begun) \in Nat
  BY MemoryCounts DEF MemoryInv
<1>2. CallsApart' /\ Cardinality(U!Begun)' = Cardinality(U!Begun) - 1 BY <1>1, CallsGone
<1>3. bytes \in Nat /\ Cost \in Nat /\ Scratch \in Nat BY MemoryNumbers
<1>4. Cardinality(U!Begun)' = Cardinality(U!Begun) + (-1) BY <1>1, <1>2
<1>5. bytes' = bytes + (IF h = 1 THEN Cost ELSE IF h = 0 THEN 0 ELSE -Cost)
                     + (IF -1 = 1 THEN Scratch ELSE IF -1 = 0 THEN 0 ELSE -Scratch)
  BY <1>3
<1>6. -1 \in {-1, 0, 1}
  OBVIOUS
<1> QED BY <1>2, <1>4, <1>5, <1>6, MemoryMoves

LEMMA MemoryBegin ==
  ASSUME UploadsBounds, UploadsInv, MemoryInv, NEW k \in requests, U!Begin(k)
  PROVE  MemoryInv'
<1>1. CallsApart /\ IsFiniteSet(U!Begun) /\ Cardinality(U!Begun) \in Nat
  BY MemoryCounts DEF MemoryInv
<1>2. UNCHANGED <<transfer, slots>> /\ k.pc = "sent" /\ requests \subseteq CallType
  BY DEF U!Begin, UploadsInv, UploadsType
<1>3. Transfers' = Transfers /\ Cardinality(U!Held)' = Cardinality(U!Held) BY <1>2, HeldStays
<1>4. CASE U!Moves(k, "begun") /\ bytes' = bytes + Scratch /\ bytes + Scratch <= MaxBytes
  <2>1. CallsApart' /\ Cardinality(U!Begun)' = Cardinality(U!Begun) + 1
    BY <1>1, <1>2, <1>4, CallsMoved
  <2>2. /\ bytes \in Nat /\ slots \in Nat /\ Cost \in Nat /\ Scratch \in Nat
        /\ Cardinality(U!Held) \in Nat
    BY MemoryNumbers, MemoryCounts
  <2>3. slots <= MaxTransfers BY DEF MemoryInv
  <2>4. /\ Cardinality(U!Held)' = Cardinality(U!Held) + 0
        /\ slots' = slots + 0 /\ slots' <= MaxTransfers /\ bytes' <= MaxBytes
        /\ bytes' = bytes + (IF 0 = 1 THEN Cost ELSE IF 0 = 0 THEN 0 ELSE -Cost)
                          + (IF 1 = 1 THEN Scratch ELSE IF 1 = 0 THEN 0 ELSE -Scratch)
    BY <1>2, <1>3, <1>4, <2>2, <2>3
  <2>5. 0 \in {-1, 0, 1} /\ 1 \in {-1, 0, 1}
    OBVIOUS
  <2> QED BY <1>3, <2>1, <2>4, <2>5, MemoryMoves
<1>5. CASE requests' = requests \ {k} /\ UNCHANGED bytes
  <2>1. CallsApart' /\ Cardinality(U!Begun)' = Cardinality(U!Begun)
    BY <1>1, <1>2, <1>5, CallsGone
  <2> QED BY <1>2, <1>5, <2>1, MemoryKept
<1> QED BY <1>4, <1>5 DEF U!Begin, U!Done

LEMMA MemoryCancelled ==
  ASSUME UploadsBounds, UploadsInv, MemoryInv, NEW k \in requests, U!Cancelled(k)
  PROVE  MemoryInv'
<1>1. CallsApart /\ IsFiniteSet(U!Begun) BY MemoryCounts DEF MemoryInv
<1>2. k.pc = "sent" /\ requests' = requests \ {k} /\ UNCHANGED <<transfer, bytes, slots>>
  BY DEF U!Cancelled
<1>3. CallsApart' /\ Cardinality(U!Begun)' = Cardinality(U!Begun) BY <1>1, <1>2, CallsGone
<1> QED BY <1>2, <1>3, MemoryKept

LEMMA MemoryStarts ==
  ASSUME UploadsBounds, UploadsInv, MemoryInv, NEW k \in requests, U!Start(k)
  PROVE  MemoryInv'
<1>1. /\ bytes \in Nat /\ slots \in Nat /\ Cost \in Nat /\ Scratch \in Nat
      /\ MaxBytes \in Nat /\ MaxTransfers \in Nat
      /\ Cardinality(U!Held) \in Nat /\ IsFiniteSet(U!Held)
  BY MemoryNumbers, MemoryCounts
<1>2. bytes <= MaxBytes /\ slots <= MaxTransfers /\ slots = Cardinality(U!Held) BY DEF MemoryInv
<1>3. k.pc # "sent" /\ requests' = requests \ {k} BY DEF U!Start, U!Done
<1>4. 0 \in {-1, 0, 1} /\ 1 \in {-1, 0, 1}
  OBVIOUS
<1>5. CASE bytes' = bytes - Scratch /\ UNCHANGED <<transfer, slots>>
  <2>1. Transfers' = Transfers /\ Cardinality(U!Held)' = Cardinality(U!Held) BY <1>5, HeldStays
  <2>2. /\ Cardinality(U!Held)' = Cardinality(U!Held) + 0
        /\ slots' = slots + 0 /\ slots' <= MaxTransfers /\ bytes' <= MaxBytes
        /\ bytes' = bytes + (IF 0 = 1 THEN Cost ELSE IF 0 = 0 THEN 0 ELSE -Cost) - Scratch
    BY <1>1, <1>2, <1>5, <2>1
  <2> QED BY <1>3, <1>4, <2>1, <2>2, MemoryOver
<1>6. CASE /\ bytes + Cost <= MaxBytes /\ slots < MaxTransfers
           /\ bytes' = bytes + Cost - Scratch /\ slots' = slots + 1
           /\ \E t \in U!Ids : /\ transfer[t].pc = "none"
                               /\ transfer' = [transfer EXCEPT ![t] = U!Opened(k.by)]
  <2>1. PICK t \in Transfers : /\ transfer[t].pc = "none"
                               /\ transfer' = [transfer EXCEPT ![t] = U!Opened(k.by)]
    BY <1>6 DEF U!Ids, Transfers
  <2>2. Transfers' = Transfers /\ Cardinality(U!Held)' = Cardinality(U!Held) + 1
    BY <1>1, <2>1, HeldMore
  <2>3. /\ slots' = slots + 1 /\ slots' <= MaxTransfers /\ bytes' <= MaxBytes
        /\ bytes' = bytes + (IF 1 = 1 THEN Cost ELSE IF 1 = 0 THEN 0 ELSE -Cost) - Scratch
    BY <1>1, <1>2, <1>6
  <2> QED BY <1>3, <1>4, <2>2, <2>3, MemoryOver
<1> QED BY <1>5, <1>6 DEF U!Start

\* A transfer is given up, and a call with it.
LEMMA MemoryGivesOne ==
  ASSUME UploadsBounds, UploadsInv, MemoryInv, NEW k \in requests, k.pc # "sent",
         requests' = requests \ {k}, NEW t \in Transfers,
         transfer[t].pc \in {"open", "detached"}, U!Remove(t), U!Gives(1)
  PROVE  MemoryInv'
<1>1. /\ bytes \in Nat /\ slots \in Nat /\ Cost \in Nat /\ Scratch \in Nat
      /\ MaxBytes \in Nat /\ MaxTransfers \in Nat
      /\ Cardinality(U!Held) \in Nat /\ IsFiniteSet(U!Held)
  BY MemoryNumbers, MemoryCounts
<1>2. bytes <= MaxBytes /\ slots <= MaxTransfers BY DEF MemoryInv
<1>3. Transfers' = Transfers /\ Cardinality(U!Held)' = Cardinality(U!Held) - 1 BY <1>1, HeldGone
<1>4. bytes' = bytes - 1 * Cost - Scratch /\ slots' = slots - 1 BY DEF U!Gives
<1>5. /\ Cardinality(U!Held)' = Cardinality(U!Held) + (-1)
      /\ slots' = slots + (-1) /\ slots' <= MaxTransfers /\ bytes' <= MaxBytes
      /\ bytes' = bytes + (IF -1 = 1 THEN Cost ELSE IF -1 = 0 THEN 0 ELSE -Cost) - Scratch
  BY <1>1, <1>2, <1>3, <1>4
<1>6. -1 \in {-1, 0, 1}
  OBVIOUS
<1> QED BY <1>3, <1>5, <1>6, MemoryOver

LEMMA MemoryGivesNone ==
  ASSUME UploadsBounds, UploadsInv, MemoryInv, NEW k \in requests, k.pc # "sent",
         requests' = requests \ {k}, Transfers' = Transfers,
         Cardinality(U!Held)' = Cardinality(U!Held), U!Gives(0)
  PROVE  MemoryInv'
<1>1. /\ bytes \in Nat /\ slots \in Nat /\ Cost \in Nat /\ Scratch \in Nat
      /\ MaxBytes \in Nat /\ MaxTransfers \in Nat /\ Cardinality(U!Held) \in Nat
  BY MemoryNumbers, MemoryCounts
<1>2. bytes <= MaxBytes /\ slots <= MaxTransfers BY DEF MemoryInv
<1>3. bytes' = bytes - 0 * Cost - Scratch /\ slots' = slots - 0 BY DEF U!Gives
<1>4. /\ Cardinality(U!Held)' = Cardinality(U!Held) + 0
      /\ slots' = slots + 0 /\ slots' <= MaxTransfers /\ bytes' <= MaxBytes
      /\ bytes' = bytes + (IF 0 = 1 THEN Cost ELSE IF 0 = 0 THEN 0 ELSE -Cost) - Scratch
  BY <1>1, <1>2, <1>3
<1>5. 0 \in {-1, 0, 1}
  OBVIOUS
<1> QED BY <1>4, <1>5, MemoryOver

LEMMA MemoryFails ==
  ASSUME UploadsBounds, UploadsInv, MemoryInv, NEW k \in requests, k.pc # "sent", U!Fails(k)
  PROVE  MemoryInv'
<1>1. requests' = requests \ {k} BY DEF U!Fails, U!Done
<1>2. CASE U!Owned(k)
  <2>1. k.transfer \in Transfers /\ transfer[k.transfer].pc \in {"open", "detached"}
    BY <1>2, UploadsOwned
  <2>2. U!Remove(k.transfer) /\ U!Gives(1) BY <1>2 DEF U!Fails
  <2> QED BY <1>1, <2>1, <2>2, MemoryGivesOne
<1>3. CASE ~U!Owned(k)
  <2>1. UNCHANGED transfer /\ U!Gives(0) BY <1>3 DEF U!Fails
  <2>2. Transfers' = Transfers /\ Cardinality(U!Held)' = Cardinality(U!Held) BY <2>1, HeldStays
  <2> QED BY <1>1, <2>1, <2>2, MemoryGivesNone
<1> QED BY <1>2, <1>3

LEMMA MemoryChunk ==
  ASSUME UploadsBounds, UploadsInv, MemoryInv, NEW k \in requests, U!Chunk(k)
  PROVE  MemoryInv'
<1>1. k.pc # "sent" BY DEF U!Chunk
<1>2. CASE /\ U!Good(k) /\ U!Done(k, "ok", k.transfer) /\ U!Gives(0)
           /\ transfer' = [transfer EXCEPT ![k.transfer].received = @ + 1]
  <2> DEFINE t == k.transfer
             rec == [transfer[t] EXCEPT !.received = transfer[t].received + 1]
  <2>1. t \in Transfers BY <1>2, UploadsOwned DEF U!Good
  <2>2. transfer \in [Transfers -> TransferType] BY DEF UploadsInv, UploadsType
  <2>3. rec.pc = transfer[t].pc BY <2>1, <2>2 DEF TransferType
  <2>4. transfer' = [transfer EXCEPT ![t] = rec] BY <1>2
  <2> HIDE DEF rec
  <2>5. Transfers' = Transfers BY <2>2, <2>4 DEF Transfers
  <2>6. \A u \in Transfers : transfer'[u].pc = transfer[u].pc BY <2>1, <2>2, <2>3, <2>4
  <2>7. Cardinality(U!Held)' = Cardinality(U!Held) BY <2>5, <2>6, HeldKept
  <2>8. requests' = requests \ {k} BY <1>2 DEF U!Done
  <2> QED BY <1>1, <1>2, <2>5, <2>7, <2>8, MemoryGivesNone
<1>3. CASE U!Fails(k) BY <1>1, <1>3, MemoryFails
<1> QED BY <1>2, <1>3 DEF U!Chunk

LEMMA MemoryAbort ==
  ASSUME UploadsBounds, UploadsInv, MemoryInv, NEW k \in requests, U!Abort(k)
  PROVE  MemoryInv'
<1>1. k.pc # "sent" BY DEF U!Abort
<1>2. CASE U!Good(k) /\ U!Remove(k.transfer) /\ U!Gives(1) /\ U!Done(k, "ok", k.transfer)
  <2>1. k.transfer \in Transfers /\ transfer[k.transfer].pc \in {"open", "detached"}
    BY <1>2, UploadsOwned DEF U!Good
  <2>2. requests' = requests \ {k} BY <1>2 DEF U!Done
  <2> QED BY <1>1, <1>2, <2>1, <2>2, MemoryGivesOne
<1>3. CASE U!Fails(k) BY <1>1, <1>3, MemoryFails
<1> QED BY <1>2, <1>3 DEF U!Abort

LEMMA MemoryFinish ==
  ASSUME UploadsBounds, UploadsInv, MemoryInv, NEW k \in requests, U!Finish(k)
  PROVE  MemoryInv'
<1>1. k.pc # "sent" BY DEF U!Finish
<1>2. CASE U!Good(k) /\ U!Detach(k.transfer) /\ U!Moves(k, "running") /\ UNCHANGED <<bytes, slots>>
  <2> DEFINE t == k.transfer
             rec == [transfer[t] EXCEPT !.pc = "detached"]
  <2>1. t \in Transfers /\ transfer[t].pc = "open" BY <1>2, UploadsOwned DEF U!Good
  <2>2. transfer \in [Transfers -> TransferType] /\ requests \subseteq CallType
    BY DEF UploadsInv, UploadsType
  <2>3. rec.pc = "detached" BY <2>1, <2>2 DEF TransferType
  <2>4. transfer' = [transfer EXCEPT ![t] = rec] BY <1>2 DEF U!Detach
  <2> HIDE DEF rec
  <2>5. Transfers' = Transfers BY <2>2, <2>4 DEF Transfers
  <2>6. \A u \in Transfers : transfer'[u] = IF u = t THEN rec ELSE transfer[u]
    BY <2>1, <2>2, <2>4
  <2>7. Cardinality(U!Held)' = Cardinality(U!Held) BY <2>1, <2>3, <2>5, <2>6, HeldKept
  <2>8. CallsApart /\ IsFiniteSet(U!Begun) BY MemoryCounts DEF MemoryInv
  <2>9. CallsApart' /\ Cardinality(U!Begun)' = Cardinality(U!Begun)
    BY <1>1, <1>2, <2>2, <2>8, CallsMoved
  <2> QED BY <1>2, <2>5, <2>7, <2>9 DEF MemoryInv
<1>3. CASE U!Fails(k) BY <1>1, <1>3, MemoryFails
<1> QED BY <1>2, <1>3 DEF U!Finish

LEMMA MemoryRuns ==
  ASSUME UploadsBounds, UploadsInv, MemoryInv, NEW k \in requests, U!Run(k)
  PROVE  MemoryInv'
<1>1. k.pc = "running" /\ U!Remove(k.transfer) /\ U!Gives(1) /\ requests' = requests \ {k}
  BY DEF U!Run, U!Done
<1>2. k.transfer \in Transfers /\ transfer[k.transfer].pc \in {"open", "detached"}
  BY <1>1 DEF UploadsInv, RunsAlone
<1> QED BY <1>1, <1>2, MemoryGivesOne

LEMMA MemoryTime ==
  ASSUME UploadsBounds, UploadsInv, MemoryInv, NEW t \in Transfers, U!Passes(t) \/ U!Discard(t)
  PROVE  MemoryInv'
<1>1. transfer[t].pc = "open" /\ UNCHANGED requests
  BY DEF U!Passes, U!Discard, U!StillThere, U!InTable
<1>2. CallsApart' /\ Cardinality(U!Begun)' = Cardinality(U!Begun)
  BY <1>1 DEF MemoryInv, CallsApart, U!Begun
<1>3. CASE U!Passes(t)
  <2> DEFINE rec == [transfer[t] EXCEPT !.due = TRUE]
  <2>1. transfer \in [Transfers -> TransferType] BY DEF UploadsInv, UploadsType
  <2>2. rec.pc = transfer[t].pc BY <2>1 DEF TransferType
  <2>3. transfer' = [transfer EXCEPT ![t] = rec] /\ UNCHANGED <<bytes, slots>>
    BY <1>3 DEF U!Passes
  <2> HIDE DEF rec
  <2>4. Transfers' = Transfers BY <2>1, <2>3 DEF Transfers
  <2>5. \A u \in Transfers : transfer'[u].pc = transfer[u].pc BY <2>1, <2>2, <2>3
  <2>6. Cardinality(U!Held)' = Cardinality(U!Held) BY <2>4, <2>5, HeldKept
  <2> QED BY <1>2, <2>3, <2>4, <2>6 DEF MemoryInv
<1>4. CASE U!Discard(t)
  <2>1. /\ bytes \in Nat /\ slots \in Nat /\ Cost \in Nat /\ Scratch \in Nat
        /\ MaxBytes \in Nat /\ MaxTransfers \in Nat
        /\ Cardinality(U!Held) \in Nat /\ IsFiniteSet(U!Held) /\ Cardinality(U!Begun) \in Nat
    BY MemoryNumbers, MemoryCounts
  <2>2. bytes <= MaxBytes /\ slots <= MaxTransfers BY DEF MemoryInv
  <2>3. U!Remove(t) /\ bytes' = bytes - Cost /\ slots' = slots - 1 BY <1>4 DEF U!Discard
  <2>4. Transfers' = Transfers /\ Cardinality(U!Held)' = Cardinality(U!Held) - 1
    BY <1>1, <2>1, <2>3, HeldGone
  <2>5. /\ Cardinality(U!Held)' = Cardinality(U!Held) + (-1)
        /\ Cardinality(U!Begun)' = Cardinality(U!Begun) + 0
        /\ slots' = slots + (-1) /\ slots' <= MaxTransfers /\ bytes' <= MaxBytes
        /\ bytes' = bytes + (IF -1 = 1 THEN Cost ELSE IF -1 = 0 THEN 0 ELSE -Cost)
                          + (IF 0 = 1 THEN Scratch ELSE IF 0 = 0 THEN 0 ELSE -Scratch)
    BY <1>2, <2>1, <2>2, <2>3, <2>4
  <2>6. -1 \in {-1, 0, 1} /\ 0 \in {-1, 0, 1}
    OBVIOUS
  <2> QED BY <1>2, <2>4, <2>5, <2>6, MemoryMoves
<1> QED BY <1>3, <1>4

LEMMA MemoryStep ==
  ASSUME UploadsBounds, UploadsInv, MemoryInv, [U!Next]_U!vars PROVE MemoryInv'
<1>1. CASE UNCHANGED U!vars BY <1>1, MemoryElsewhere DEF U!vars
<1>2. CASE U!Close BY <1>2, MemoryEnds DEF U!Close
<1>3. ASSUME NEW c \in Clients, U!Dial(c) \/ U!Accept(c) \/ U!Admit(c) \/ U!Hello(c)
      PROVE  MemoryInv'
  BY <1>3, MemoryElsewhere DEF U!Dial, U!Accept, U!Admit, U!Hello
<1>4. ASSUME NEW c \in Clients, U!Drop(c) PROVE MemoryInv'
  BY <1>4, MemoryEnds DEF U!Drop
<1>5. ASSUME NEW c \in Clients, U!Upload(c) \/ U!Goes(c) \/ U!ContextEnds(c)
                                  \/ U!Repeats(c, "finish") \/ U!Repeats(c, "abort")
      PROVE  MemoryInv'
  BY <1>5, MemoryClient, MemoryContextEnds
<1>6. ASSUME NEW k \in requests, U!Handles(k) \/ U!Cancelled(k) PROVE MemoryInv'
  BY <1>6, MemoryBegin, MemoryStarts, MemoryChunk, MemoryAbort, MemoryFinish, MemoryRuns,
     MemoryCancelled DEF U!Handles
<1>7. ASSUME NEW t \in U!Ids, U!Passes(t) \/ U!Discard(t) PROVE MemoryInv'
  BY <1>7, MemoryTime DEF U!Ids, Transfers
<1> QED BY <1>1, <1>2, <1>3, <1>4, <1>5, <1>6, <1>7 DEF U!Next

LEMMA MemoryStart == UploadsBounds /\ U!Init => MemoryInv
<1> SUFFICES ASSUME UploadsBounds, U!Init PROVE MemoryInv
  OBVIOUS
<1>1. uploadsLeft.uploads \in Nat /\ Transfers = 1 .. uploadsLeft.uploads
  BY DEF U!Init, UploadsBounds, Transfers
<1>2. IsFiniteSet(Transfers) BY <1>1, FS_Interval
<1>3. U!Held = {} /\ U!Begun = {} BY <1>1 DEF U!Held, U!Begun, U!Ids, U!Init, Transfers
<1>4. IsFiniteSet({}) /\ Cardinality({}) = 0 BY FS_EmptySet
<1>5. Cost * 0 + Scratch * 0 = 0 /\ 0 <= MaxBytes /\ 0 <= MaxTransfers BY DEF UploadsBounds
<1> QED BY <1>2, <1>3, <1>4, <1>5 DEF MemoryInv, CallsApart, U!Init

LEMMA MemoryImplies ==
  ASSUME UploadsBounds, UploadsInv, MemoryInv PROVE U!TypeOK /\ U!MemoryIsHeld
<1>1. bytes \in Nat /\ slots \in Nat /\ MaxBytes \in Nat /\ MaxTransfers \in Nat BY MemoryNumbers
<1>2. bytes \in 0 .. MaxBytes /\ slots \in 0 .. MaxTransfers BY <1>1 DEF MemoryInv
<1>3. \A c \in Clients : client[c].transfer \in Transfers \cup {0}
  BY DEF UploadsInv, UploadsType, ClientType
<1>4. U!TypeOK BY <1>2, <1>3 DEF U!TypeOK, U!Ids, Transfers, U!NoTransfer
<1>5. U!MemoryIsHeld BY UploadsCounted DEF MemoryInv, U!MemoryIsHeld
<1> QED BY <1>4, <1>5

\* The memory of uploads is that of the transfers there are and of the calls that are handled,
\* and never more than there is, whichever way calls, transfers and connections end
\* (feishucli/upload.go:78).
THEOREM UploadMemoryIsHeld ==
  ASSUME UploadsBounds PROVE U!Spec => [](U!TypeOK /\ U!MemoryIsHeld)
<1>1. U!Init => UploadsInv /\ MemoryInv BY UploadsStart, MemoryStart
<1>2. UploadsInv /\ MemoryInv /\ [U!Next]_U!vars => (UploadsInv /\ MemoryInv)'
  BY UploadsStep, MemoryStep DEF MemoryInv
<1>3. UploadsInv /\ MemoryInv => U!TypeOK /\ U!MemoryIsHeld BY MemoryImplies
<1> QED BY <1>1, <1>2, <1>3, PTL DEF U!Spec


\* A request runs once at most, once if its client was told so, and never if the client was
\* told that it was given up, whoever else finishes or aborts it, however connections and
\* contexts end and whichever transfers become too old (localipc/gateway.go, feishucli/upload.go).
THEOREM RequestsRunOnce == ASSUME UploadsBounds PROVE U!Spec => []RunsAreTrue
<1>1. U!Init => UploadsInv /\ MemoryInv BY UploadsStart, MemoryStart
<1>2. UploadsInv /\ MemoryInv /\ [U!Next]_U!vars => (UploadsInv /\ MemoryInv)'
  BY UploadsStep, MemoryStep DEF MemoryInv
<1>3. UploadsInv => RunsAreTrue BY DEF UploadsInv, RunsAreTrue
<1> QED BY <1>1, <1>2, <1>3, PTL DEF U!Spec

(* The view of Codex Desktop *)

DesktopBounds ==
  /\ Owners # {} /\ MaxFrames \in Nat /\ DesktopConnections \subseteq Nat \ {0}
  /\ "none" \notin Owners
  /\ DesktopBudgets \subseteq
       [calls : Nat, updates : Nat, moves : Nat, breaks : Nat, timeouts : Nat,
        numeric : BOOLEAN, passive : SUBSET Observers]

OwnerOrNone == Owners \cup {D!NoOwner}
SeenType == [generation : Nat, owner : OwnerOrNone, revision : Nat]
EntryType ==
  [target : SeenType, generation : Nat, fresh : BOOLEAN, pushes : Nat, loading : BOOLEAN]
Asking == {"discover", "loading", "snapshot"}
Reading == {"start", "dial", "named", "owner", "again", "load", "end"} \cup Asking
ObserverType ==
  [pc : {"idle", "wait"} \cup Reading, entry : Nat, generation : Nat, pushes : Nat,
   next : {"owner", "load"}, target : SeenType, owner : OwnerOrNone, floor : SeenType,
   told : SeenType]
FrameKinds == {"initialize", "owner", "any", "response", "push", "change"}
FrameType ==
  [kind : FrameKinds, by : Observers \cup Owners \cup {"nobody"},
   what : Owners \cup {"ok", "failed", "state"}, revision : Nat]

\* What a frame names is an owner where an owner was asked for.
NamesAnOwner(f) == /\ f.kind \in {"owner", "any"} => f.what \in Owners
                   /\ f.kind = "push" => f.by \in Owners

NetOK ==
  /\ connection \in DesktopConnections \cup {0} /\ taskOwner \in OwnerOrNone
  /\ connectionGeneration \in Nat /\ clientID \in BOOLEAN
  /\ socket \in [DesktopConnections -> {"none", "open", "broken", "closed"}]
  /\ wire \in [DesktopConnections -> Seq(FrameType)]
  /\ \A c \in DesktopConnections : Len(wire[c]) <= MaxFrames + 1
  /\ \A c \in DesktopConnections : \A i \in 1 .. Len(wire[c]) : NamesAnOwner(wire[c][i])
  /\ task \in [owner : Owners, revision : Nat] /\ pushed \in SeenType
  /\ desktopLeft \in [calls : Nat, updates : Nat, moves : Nat, breaks : Nat, timeouts : Nat,
                      numeric : BOOLEAN, passive : SUBSET Observers]
  /\ \A a \in desktopAsked : /\ a.kind \in {"initialize", "owner", "any", "follow", "load"}
                             /\ a.by \in Observers \cup {"nobody"}
                             /\ a.on \in DesktopConnections

\* Who waits for an answer, and what is in whose channel: only while an observer asks, one of
\* each kind, and never both.
WaitersOK ==
  /\ observer \in [Observers -> ObserverType]
  /\ waiters \subseteq [by : Observers, kind : {"owner", "snapshot", "response"},
                        from : OwnerOrNone]
  /\ waiterChannels \subseteq [by : Observers, kind : {"owner", "snapshot", "response"},
                               what : OwnerOrNone \cup {"ok", "failed", "state"}, revision : Nat]
  /\ \A x \in waiterChannels : x.kind = "owner" => x.what \in OwnerOrNone
  /\ \A w \in waiters : observer[w.by].pc \in Asking
  /\ \A x \in waiterChannels : observer[x.by].pc \in Asking
  /\ \A v, w \in waiters : v.by = w.by /\ v.kind = w.kind => v = w
  /\ D!NobodyBlocks

\* A reader has an entry of the cache, and an entry that is being read has a reader.
CacheOK ==
  /\ cache \in Seq(EntryType) /\ Len(cache) > 0
  /\ \A o \in Observers :
       /\ observer[o].entry <= Len(cache)
       /\ observer[o].entry > 0 => o \notin desktopLeft.passive
       /\ o \notin desktopLeft.passive /\ observer[o].pc # "idle" => observer[o].entry > 0
  /\ D!ReadingEnds

DesktopInv == NetOK /\ WaitersOK /\ CacheOK

LEMMA DesktopSeen ==
  /\ D!Unseen \in SeenType /\ D!Idle \in ObserverType
  /\ D!Idle.pc = "idle" /\ D!Idle.entry = 0
  /\ \A g \in Nat, o \in OwnerOrNone, r \in Nat : D!Seen(g, o, r) \in SeenType
  /\ \A g \in Nat : D!NewEntry(g) \in EntryType /\ ~D!NewEntry(g).loading
<1>1. /\ D!Unseen \in SeenType
      /\ \A g \in Nat, o \in OwnerOrNone, r \in Nat : D!Seen(g, o, r) \in SeenType
  BY DEF D!Unseen, D!Seen, SeenType, OwnerOrNone
<1>2. \A g \in Nat : D!NewEntry(g) \in EntryType /\ ~D!NewEntry(g).loading
  BY <1>1 DEF D!NewEntry, EntryType
<1>3. D!Idle \in ObserverType /\ D!Idle.pc = "idle" /\ D!Idle.entry = 0
  BY <1>1 DEF D!Idle, ObserverType, OwnerOrNone
<1> QED BY <1>1, <1>2, <1>3

LEMMA DesktopStart == DesktopBounds /\ D!Init => DesktopInv
<1> SUFFICES ASSUME DesktopBounds, D!Init PROVE DesktopInv
  OBVIOUS
<1>1. task \in [owner : Owners, revision : Nat] BY DEF DesktopBounds, D!Init
<1> USE DEF D!Init, DesktopBounds, D!NoConnection
<1>a. wire \in [DesktopConnections -> Seq(FrameType)] /\ \A c \in DesktopConnections : wire[c] = <<>>
  OBVIOUS
<1>b. /\ \A c \in DesktopConnections : Len(wire[c]) <= MaxFrames + 1
      /\ \A c \in DesktopConnections : \A i \in 1 .. Len(wire[c]) : NamesAnOwner(wire[c][i])
  BY <1>a
<1>c. taskOwner \in OwnerOrNone /\ pushed \in SeenType BY DesktopSeen DEF OwnerOrNone
<1>2. NetOK BY <1>1, <1>a, <1>b, <1>c DEF NetOK
<1>3. WaitersOK BY DesktopSeen DEF WaitersOK, D!Init, D!NobodyBlocks
<1>4. cache = <<D!NewEntry(1)>> /\ \A o \in Observers : observer[o] = D!Idle BY DEF D!Init
<1>5. cache \in Seq(EntryType) /\ Len(cache) = 1 /\ ~cache[1].loading BY <1>4, DesktopSeen
<1>6. D!ReadingEnds BY <1>5 DEF D!ReadingEnds
<1>7. CacheOK BY <1>4, <1>5, <1>6, DesktopSeen DEF CacheOK
<1> QED BY <1>2, <1>3, <1>7 DEF DesktopInv

LEMMA DesktopSpends ==
  ASSUME NetOK, NEW what \in {"calls", "updates", "moves", "breaks", "timeouts"}, D!Spend(what)
  PROVE  /\ desktopLeft' \in [calls : Nat, updates : Nat, moves : Nat, breaks : Nat,
                               timeouts : Nat, numeric : BOOLEAN, passive : SUBSET Observers]
         /\ desktopLeft'.passive = desktopLeft.passive
<1>0. desktopLeft \in [calls : Nat, updates : Nat, moves : Nat, breaks : Nat,
                     timeouts : Nat, numeric : BOOLEAN, passive : SUBSET Observers]
  BY DEF NetOK
<1>1. CASE what = "calls"
  <2>1. D!Spend("calls") BY <1>1
  <2> QED BY <1>0, <2>1 DEF D!Spend
<1>2. CASE what = "updates"
  <2>1. D!Spend("updates") BY <1>2
  <2> QED BY <1>0, <2>1 DEF D!Spend
<1>3. CASE what = "moves"
  <2>1. D!Spend("moves") BY <1>3
  <2> QED BY <1>0, <2>1 DEF D!Spend
<1>4. CASE what = "breaks"
  <2>1. D!Spend("breaks") BY <1>4
  <2> QED BY <1>0, <2>1 DEF D!Spend
<1>5. CASE what = "timeouts"
  <2>1. D!Spend("timeouts") BY <1>5
  <2> QED BY <1>0, <2>1 DEF D!Spend
<1> QED BY <1>1, <1>2, <1>3, <1>4, <1>5

LEMMA DesktopSends ==
  ASSUME NetOK, NEW wanted, D!Sends(wanted),
         \A a \in wanted : /\ a.kind \in {"initialize", "owner", "any", "follow", "load"}
                             /\ a.by \in Observers \cup {"nobody"}
                             /\ a.on = connection
  PROVE  \A a \in desktopAsked' :
           /\ a.kind \in {"initialize", "owner", "any", "follow", "load"}
           /\ a.by \in Observers \cup {"nobody"}
           /\ a.on \in DesktopConnections
BY DEF NetOK, D!Sends, D!NoConnection

\* What the application and the network are keeps its type where they are left alone.
LEMMA NetKept ==
  ASSUME NetOK, UNCHANGED <<connection, taskOwner, connectionGeneration, clientID, socket, wire,
                            task, pushed>>,
         \/ UNCHANGED desktopLeft
         \/ \E what \in {"calls", "updates", "moves", "breaks", "timeouts"} : D!Spend(what),
         \/ UNCHANGED desktopAsked
         \/ \E wanted :
              /\ D!Sends(wanted)
              /\ \A a \in wanted : /\ a.kind \in {"initialize", "owner", "any", "follow", "load"}
                                     /\ a.by \in Observers \cup {"nobody"}
                                     /\ a.on = connection
  PROVE  NetOK' /\ desktopLeft'.passive = desktopLeft.passive
<1>1. /\ desktopLeft' \in [calls : Nat, updates : Nat, moves : Nat, breaks : Nat,
                            timeouts : Nat, numeric : BOOLEAN, passive : SUBSET Observers]
      /\ desktopLeft'.passive = desktopLeft.passive
  BY DesktopSpends DEF NetOK
<1>2. \A a \in desktopAsked' : /\ a.kind \in {"initialize", "owner", "any", "follow", "load"}
                               /\ a.by \in Observers \cup {"nobody"}
                               /\ a.on \in DesktopConnections
  BY DesktopSends DEF NetOK
<1> QED BY <1>1, <1>2 DEF NetOK

\* No waiter comes or goes.
LEMMA WaitersKept ==
  ASSUME WaitersOK, UNCHANGED <<waiters, waiterChannels>>,
         observer' \in [Observers -> ObserverType],
         \A o \in Observers : observer[o].pc \in Asking => observer'[o].pc \in Asking
  PROVE  WaitersOK'
BY DEF WaitersOK, D!NobodyBlocks, D!Holds

\* No observer begins or ends a reading.
LEMMA CacheKept ==
  ASSUME CacheOK, UNCHANGED cache, desktopLeft'.passive = desktopLeft.passive,
         \A o \in Observers : /\ observer'[o].entry = observer[o].entry
                              /\ observer'[o].pc = "idle" <=> observer[o].pc = "idle"
                              /\ observer'[o].pc = "wait" <=> observer[o].pc = "wait"
  PROVE  CacheOK'
BY DEF CacheOK, D!ReadingEnds

LEMMA DesktopGoes ==
  ASSUME WaitersOK, NEW o \in Observers, NEW v \in ObserverType,
         observer' = [observer EXCEPT ![o] = v]
  PROVE  /\ observer' \in [Observers -> ObserverType] /\ observer'[o] = v
         /\ \A p \in Observers : p # o => observer'[p] = observer[p]
BY DEF WaitersOK

\* A step within a reading.
LEMMA DesktopGoesOn ==
  ASSUME WaitersOK, NEW o \in Observers, NEW to \in Reading, D!Go(o, to),
         observer[o].pc \in Reading
  PROVE  /\ observer' \in [Observers -> ObserverType] /\ observer'[o].pc = to
         /\ \A p \in Observers : /\ observer'[p].entry = observer[p].entry
                                 /\ p # o => observer'[p] = observer[p]
                                 /\ observer'[p].pc = "idle" <=> observer[p].pc = "idle"
                                 /\ observer'[p].pc = "wait" <=> observer[p].pc = "wait"
<1>1. observer[o] \in ObserverType BY DEF WaitersOK
<1>2. [observer[o] EXCEPT !.pc = to] \in ObserverType BY <1>1 DEF ObserverType
<1>3. observer' = [observer EXCEPT ![o] = [observer[o] EXCEPT !.pc = to]] BY DEF D!Go
<1>4. /\ [observer[o] EXCEPT !.pc = to].pc = to
      /\ [observer[o] EXCEPT !.pc = to].entry = observer[o].entry
  BY <1>1 DEF ObserverType
<1>5. to # "idle" /\ to # "wait" /\ observer[o].pc # "idle" /\ observer[o].pc # "wait"
  BY DEF Reading, Asking
<1> QED BY <1>2, <1>3, <1>4, <1>5, DesktopGoes

LEMMA DesktopNoReading ==
  ASSUME WaitersOK, NEW o \in Observers, D!NoReading(o), observer[o].pc \in Reading
  PROVE  /\ observer' \in [Observers -> ObserverType] /\ observer'[o].pc = "end"
         /\ \A p \in Observers : /\ observer'[p].entry = observer[p].entry
                                 /\ p # o => observer'[p] = observer[p]
                                 /\ observer'[p].pc = "idle" <=> observer[p].pc = "idle"
                                 /\ observer'[p].pc = "wait" <=> observer[p].pc = "wait"
<1> DEFINE v == [observer[o] EXCEPT !.pc = "end", !.target = D!Unseen]
<1>1. observer[o] \in ObserverType BY DEF WaitersOK
<1>2. v \in ObserverType /\ v.pc = "end" /\ v.entry = observer[o].entry
  BY <1>1, DesktopSeen DEF ObserverType, Reading
<1>3. observer' = [observer EXCEPT ![o] = v] BY DEF D!NoReading
<1>5. observer[o].pc # "idle" /\ observer[o].pc # "wait" BY DEF Reading, Asking
<1> HIDE DEF v
<1> QED BY <1>2, <1>3, <1>5, DesktopGoes
LEMMA DesktopStarts ==
  ASSUME DesktopInv, NEW o \in Observers, D!Start(o) \/ D!Named(o) \/ D!NoDial(o)
  PROVE  DesktopInv'
<1> USE DEF DesktopInv, D!link, D!desk
<1>1. NetOK' BY NetKept DEF D!Start, D!Named, D!NoDial
<1>2. observer[o] \in ObserverType BY DEF WaitersOK
<1>3. CASE D!NoDial(o)
  <2>1. observer[o].pc = "dial" /\ D!NoReading(o) BY <1>3 DEF D!NoDial, D!At
  <2>2. observer[o].pc \in Reading BY <2>1 DEF Reading
  <2> HIDE DEF DesktopInv
  <2>3. WaitersOK' /\ CacheOK'
    BY <1>3, <2>1, <2>2, DesktopNoReading, WaitersKept, CacheKept
       DEF D!NoDial, Asking, DesktopInv, D!desk, D!link
  <2> QED BY <1>1, <2>3 DEF DesktopInv
<1>4. CASE D!Start(o) \/ D!Named(o)
  <2>1. PICK to \in Reading : D!Go(o, to)
    BY <1>2, <1>4 DEF D!Start, D!Named, Reading, ObserverType
  <2>2. observer[o].pc \in Reading \ Asking BY <1>4 DEF D!Start, D!Named, Reading, Asking, D!At
  <2>3. WaitersOK' /\ CacheOK'
    BY <1>4, <2>1, <2>2, DesktopGoesOn, WaitersKept, CacheKept DEF D!Start, D!Named
  <2> QED BY <1>1, <2>3
<1> QED BY <1>3, <1>4

LEMMA DesktopDial ==
  ASSUME DesktopBounds, DesktopInv, NEW o \in Observers, D!Dial(o)
  PROVE  DesktopInv'
<1> USE DEF DesktopInv, D!link, D!desk
<1>1. PICK c \in DesktopConnections :
        /\ connection' = c /\ socket' = [socket EXCEPT ![c] = "open"]
        /\ desktopAsked' = desktopAsked \cup
             {[kind |-> "initialize", by |-> "nobody", on |-> c, to |-> D!NoOwner]}
  BY DEF D!Dial
<1>2. NetOK' BY <1>1 DEF NetOK, D!Dial
<1>3. observer[o].pc \in Reading \ Asking /\ D!Go(o, "named") /\ "named" \in Reading
  BY DEF D!Dial, Reading, Asking, D!At
<1>4. WaitersOK' /\ CacheOK' BY <1>3, DesktopGoesOn, WaitersKept, CacheKept DEF D!Dial
<1> QED BY <1>2, <1>4

\* What a connection that is closed has buffered.
LEMMA DesktopClose ==
  ASSUME DesktopBounds, NetOK, D!Close,
         UNCHANGED <<clientID, desktopAsked, task, pushed>>,
         \E what \in {"calls", "updates", "moves", "breaks", "timeouts"} : D!Spend(what)
  PROVE  NetOK' /\ desktopLeft'.passive = desktopLeft.passive
<1>1. /\ desktopLeft' \in [calls : Nat, updates : Nat, moves : Nat, breaks : Nat,
                            timeouts : Nat, numeric : BOOLEAN, passive : SUBSET Observers]
      /\ desktopLeft'.passive = desktopLeft.passive
  BY DesktopSpends
<1>2. /\ connection' = 0 /\ connectionGeneration' \in Nat /\ taskOwner' \in OwnerOrNone
  BY DEF D!Close, NetOK, OwnerOrNone, D!NoConnection
<1>3. /\ socket' \in [DesktopConnections -> {"none", "open", "broken", "closed"}]
      /\ wire' \in [DesktopConnections -> Seq(FrameType)]
      /\ \A c \in DesktopConnections : Len(wire'[c]) <= MaxFrames + 1
      /\ \A c \in DesktopConnections : \A i \in 1 .. Len(wire'[c]) : NamesAnOwner(wire'[c][i])
  <2>1. CASE connection = 0 BY <2>1 DEF D!Close, NetOK, D!NoConnection
  <2>2. CASE connection # 0
    <3>1. connection \in DesktopConnections BY <2>2 DEF NetOK
    <3>2. socket' \in [DesktopConnections -> {"none", "open", "broken", "closed"}]
      BY <2>2, <3>1 DEF D!Close, NetOK, D!NoConnection
    <3>3. PICK n \in 0 .. Len(wire[connection]) :
            wire' = [wire EXCEPT ![connection] = SubSeq(wire[connection], 1, n)]
      BY <2>2 DEF D!Close, D!NoConnection
    <3>4. wire[connection] \in Seq(FrameType) BY <3>1 DEF NetOK
    <3>5. /\ SubSeq(wire[connection], 1, n) \in Seq(FrameType)
          /\ Len(SubSeq(wire[connection], 1, n)) = n
          /\ \A i \in 1 .. n : SubSeq(wire[connection], 1, n)[i] = wire[connection][i]
      BY <3>3, <3>4
    <3>6. /\ wire'[connection] = SubSeq(wire[connection], 1, n)
          /\ \A c \in DesktopConnections : c # connection => wire'[c] = wire[c]
      BY <3>1, <3>3 DEF NetOK
    <3>7. wire' \in [DesktopConnections -> Seq(FrameType)] BY <3>1, <3>3, <3>5 DEF NetOK
    <3>8. n <= Len(wire[connection]) /\ n \in Nat BY <3>3, <3>4
    <3>9. ASSUME NEW c \in DesktopConnections
          PROVE  /\ Len(wire'[c]) <= MaxFrames + 1
                 /\ \A i \in 1 .. Len(wire'[c]) : NamesAnOwner(wire'[c][i])
      <4>1. CASE c # connection BY <3>6, <4>1 DEF NetOK
      <4>2. CASE c = connection
        <5>1. Len(wire[c]) <= MaxFrames + 1 /\ Len(wire[c]) \in Nat BY <3>4, <4>2 DEF NetOK
        <5>2. \A i \in 1 .. Len(wire[c]) : NamesAnOwner(wire[c][i]) BY DEF NetOK
        <5> QED BY <3>5, <3>6, <3>8, <4>2, <5>1, <5>2 DEF DesktopBounds
      <4> QED BY <4>1, <4>2
    <3> QED BY <3>2, <3>7, <3>9
  <2> QED BY <2>1, <2>2
<1> QED BY <1>1, <1>2, <1>3 DEF NetOK

LEMMA DesktopNotNamed ==
  ASSUME DesktopBounds, DesktopInv, NEW o \in Observers, D!NotNamed(o)
  PROVE  DesktopInv'
<1> USE DEF DesktopInv
<1>1. NetOK' /\ desktopLeft'.passive = desktopLeft.passive BY DesktopClose DEF D!NotNamed, D!desk
<1>2. observer[o].pc \in Reading \ Asking /\ D!NoReading(o)
  BY DEF D!NotNamed, Reading, Asking, D!At
<1>3. WaitersOK' /\ CacheOK'
  BY <1>1, <1>2, DesktopNoReading, WaitersKept, CacheKept DEF D!NotNamed
<1> QED BY <1>1, <1>3

\* New waiters, of an observer that had none.
LEMMA DesktopWaits ==
  ASSUME DesktopInv, NEW o \in Observers, observer[o].pc \in Reading \ Asking, NEW ws,
         ws \subseteq [by : {o}, kind : {"owner", "snapshot", "response"}, from : OwnerOrNone],
         \A v, w \in ws : v.kind = w.kind => v = w,
         waiters' = waiters \cup ws, UNCHANGED waiterChannels,
         NEW to \in Asking, D!Go(o, to)
  PROVE  WaitersOK'
<1> USE DEF DesktopInv
<1>1. /\ observer' \in [Observers -> ObserverType] /\ observer'[o].pc = to
      /\ \A p \in Observers : p # o => observer'[p] = observer[p]
  BY DesktopGoesOn DEF Reading
<1>2. \A w \in waiters : w.by # o BY DEF WaitersOK
<1>3. \A x \in waiterChannels : x.by # o BY DEF WaitersOK
<1>4. waiters' \subseteq [by : Observers, kind : {"owner", "snapshot", "response"},
                         from : OwnerOrNone]
  BY DEF WaitersOK
<1>5. \A v, w \in waiters' : v.by = w.by /\ v.kind = w.kind => v = w BY <1>2 DEF WaitersOK
<1>6. \A w \in waiters' : observer'[w.by].pc \in Asking BY <1>1, <1>2 DEF WaitersOK
<1>7. \A x \in waiterChannels' : observer'[x.by].pc \in Asking BY <1>1, <1>3 DEF WaitersOK
<1>8. D!NobodyBlocks' BY <1>3 DEF WaitersOK, D!NobodyBlocks, D!Holds
<1> QED BY <1>1, <1>4, <1>5, <1>6, <1>7, <1>8 DEF WaitersOK

LEMMA DesktopAskOwner ==
  ASSUME DesktopInv, NEW o \in Observers, D!AskOwner(o)
  PROVE  DesktopInv'
<1> USE DEF DesktopInv, D!link, D!desk
<1>1. observer[o].pc \in Reading \ Asking BY DEF D!AskOwner, D!At, Reading, Asking
<1>2. CASE D!NoReading(o) /\ UNCHANGED <<waiters, desktopAsked>>
  <2>1. NetOK' BY <1>2, NetKept DEF D!AskOwner
  <2>2. WaitersOK' /\ CacheOK'
    BY <1>1, <1>2, DesktopNoReading, WaitersKept, CacheKept DEF D!AskOwner
  <2> QED BY <2>1, <2>2
<1>3. CASE /\ waiters' = waiters \cup {D!Waiter(o, "owner", D!NoOwner)}
           /\ D!Sends({D!Ask("owner", o, D!NoOwner)})
           /\ D!Go(o, "discover")
  <2>1. NetOK' BY <1>3, NetKept DEF D!AskOwner, D!Ask
  <2>2. WaitersOK'
    <3> DEFINE ws == {D!Waiter(o, "owner", D!NoOwner)}
    <3>1. /\ ws \subseteq [by : {o}, kind : {"owner", "snapshot", "response"}, from : OwnerOrNone]
          /\ \A v, w \in ws : v.kind = w.kind => v = w
      BY DEF D!Waiter, OwnerOrNone
    <3>2. waiters' = waiters \cup ws /\ UNCHANGED waiterChannels /\ "discover" \in Asking
      BY <1>3 DEF D!AskOwner, Asking
    <3> HIDE DEF ws
    <3> QED BY <1>1, <1>3, <3>1, <3>2, DesktopWaits
  <2>3. CacheOK' BY <1>1, <1>3, DesktopGoesOn, CacheKept DEF D!AskOwner, Reading, Asking
  <2> QED BY <2>1, <2>2, <2>3
<1> QED BY <1>2, <1>3 DEF D!AskOwner

LEMMA DesktopLoad ==
  ASSUME DesktopInv, NEW o \in Observers, D!Load(o)
  PROVE  DesktopInv'
<1> USE DEF DesktopInv, D!link, D!desk
<1>1. observer[o].pc \in Reading \ Asking /\ observer[o] \in ObserverType
  BY DEF D!Load, D!At, Reading, Asking, WaitersOK
<1>2. CASE D!NoReading(o) /\ UNCHANGED waiters
  <2>1. NetOK' BY <1>2, NetKept DEF D!Load, D!Ask
  <2>2. WaitersOK' /\ CacheOK' BY <1>1, <1>2, DesktopNoReading, WaitersKept, CacheKept DEF D!Load
  <2> QED BY <2>1, <2>2
<1>3. CASE /\ waiters' = waiters \cup {D!Waiter(o, "snapshot", observer[o].owner),
                                       D!Waiter(o, "response", D!NoOwner)}
           /\ D!Sends({D!Ask("follow", "nobody", D!Everybody), D!Ask("load", o, observer[o].owner)})
           /\ D!Go(o, "loading")
  <2>1. NetOK' BY <1>3, NetKept DEF D!Load, D!Ask
  <2>2. WaitersOK'
    <3> DEFINE ws == {D!Waiter(o, "snapshot", observer[o].owner), D!Waiter(o, "response", D!NoOwner)}
    <3>1. /\ ws \subseteq [by : {o}, kind : {"owner", "snapshot", "response"}, from : OwnerOrNone]
          /\ \A v, w \in ws : v.kind = w.kind => v = w
      BY <1>1 DEF D!Waiter, OwnerOrNone, ObserverType
    <3>2. waiters' = waiters \cup ws /\ UNCHANGED waiterChannels /\ "loading" \in Asking
      BY <1>3 DEF D!Load, Asking
    <3> HIDE DEF ws
    <3> QED BY <1>1, <1>3, <3>1, <3>2, DesktopWaits
  <2>3. CacheOK' BY <1>1, <1>3, DesktopGoesOn, CacheKept DEF D!Load, Reading, Asking
  <2> QED BY <2>1, <2>2, <2>3
<1> QED BY <1>2, <1>3 DEF D!Load

LEMMA DesktopForgets ==
  ASSUME DesktopInv, NEW o \in Observers, D!Forget(o),
         UNCHANGED <<connection, connectionGeneration, clientID, socket, task, pushed>>,
         taskOwner' \in OwnerOrNone,
         \/ UNCHANGED desktopLeft
         \/ \E what \in {"calls", "updates", "moves", "breaks", "timeouts"} : D!Spend(what)
  PROVE  NetOK' /\ desktopLeft'.passive = desktopLeft.passive
<1> USE DEF DesktopInv
<1>1. /\ desktopLeft' \in [calls : Nat, updates : Nat, moves : Nat, breaks : Nat,
                            timeouts : Nat, numeric : BOOLEAN, passive : SUBSET Observers]
      /\ desktopLeft'.passive = desktopLeft.passive
  BY DesktopSpends DEF NetOK
<1>2. ASSUME NEW f \in FrameType, NamesAnOwner(f)
      PROVE  D!Forgotten(f, o) \in FrameType /\ NamesAnOwner(D!Forgotten(f, o))
  <2> DEFINE g == [f EXCEPT !.by = "nobody"]
  <2>1. /\ g \in FrameType /\ g.kind = f.kind /\ g.what = f.what
    BY DEF FrameType
  <2>2. D!Forgotten(f, o) = IF f.by = o /\ f.kind # "push" THEN g ELSE f BY DEF D!Forgotten
  <2>3. f.kind # "push" => NamesAnOwner(g) BY <1>2, <2>1 DEF NamesAnOwner
  <2> HIDE DEF g
  <2> QED BY <1>2, <2>1, <2>2, <2>3
<1>3. ASSUME NEW c \in DesktopConnections
      PROVE  /\ wire'[c] \in Seq(FrameType) /\ Len(wire'[c]) = Len(wire[c])
             /\ \A i \in 1 .. Len(wire'[c]) : NamesAnOwner(wire'[c][i])
  <2>1. wire[c] \in Seq(FrameType) /\ \A i \in 1 .. Len(wire[c]) : NamesAnOwner(wire[c][i])
    BY DEF NetOK
  <2>2. wire'[c] = [i \in 1 .. Len(wire[c]) |-> D!Forgotten(wire[c][i], o)] BY <2>1 DEF D!Forget
  <2>3. \A i \in 1 .. Len(wire[c]) : wire[c][i] \in FrameType BY <2>1
  <2> QED BY <1>2, <2>1, <2>2, <2>3
<1>4. wire' \in [DesktopConnections -> Seq(FrameType)] BY <1>3 DEF D!Forget
<1>5. desktopAsked' \subseteq desktopAsked BY DEF D!Forget
<1> QED BY <1>1, <1>3, <1>4, <1>5 DEF NetOK

LEMMA ForgottenWaiters ==
  ASSUME DesktopInv, NEW o \in Observers, D!Forget(o),
         observer' \in [Observers -> ObserverType],
         \A p \in Observers : p # o => observer'[p] = observer[p]
  PROVE  WaitersOK'
<1>1. waiters' \subseteq waiters /\ waiterChannels' \subseteq waiterChannels BY DEF D!Forget
<1>2. (\A w \in waiters' : w.by # o) /\ (\A x \in waiterChannels' : x.by # o) BY DEF D!Forget
<1>3. /\ \A w \in waiters' : w.by \in Observers /\ observer'[w.by].pc \in Asking
      /\ \A x \in waiterChannels' : x.by \in Observers /\ observer'[x.by].pc \in Asking
  BY <1>1, <1>2 DEF DesktopInv, WaitersOK
<1>4. D!NobodyBlocks' BY <1>1 DEF DesktopInv, WaitersOK, D!NobodyBlocks, D!Holds
<1> QED BY <1>1, <1>3, <1>4 DEF DesktopInv, WaitersOK

LEMMA DesktopFails ==
  ASSUME DesktopInv, NEW o \in Observers, D!Fails(o), observer[o].pc \in Reading,
         UNCHANGED <<cache, connection, connectionGeneration, clientID, socket, task, pushed,
                     taskOwner>>,
         \/ UNCHANGED desktopLeft
         \/ \E what \in {"calls", "updates", "moves", "breaks", "timeouts"} : D!Spend(what)
  PROVE  DesktopInv'
<1> USE DEF DesktopInv, D!Fails
<1>1. NetOK' /\ desktopLeft'.passive = desktopLeft.passive BY DesktopForgets DEF NetOK
<1>2. WaitersOK' /\ CacheOK' BY <1>1, DesktopNoReading, ForgottenWaiters, CacheKept
<1> QED BY <1>1, <1>2

LEMMA DesktopTimesOut ==
  ASSUME DesktopInv, NEW o \in Observers, D!TimesOut(o) PROVE DesktopInv'
<1>1. observer[o].pc \in Reading BY DEF D!TimesOut, D!At, Reading, Asking
<1> QED BY <1>1, DesktopFails DEF D!TimesOut, D!link, D!desk

LEMMA DesktopLoaded ==
  ASSUME DesktopInv, NEW o \in Observers, D!Loaded(o) PROVE DesktopInv'
<1>1. observer[o].pc \in Reading BY DEF D!Loaded, D!At, Reading, Asking
<1>2. CASE D!Fails(o) BY <1>1, <1>2, DesktopFails DEF D!Loaded, D!link, D!desk
<1>3. CASE \E x \in waiterChannels :
             /\ D!Go(o, "snapshot") /\ waiterChannels' = waiterChannels \ {x}
             /\ UNCHANGED <<wire, waiters, desktopAsked>>
  <2> USE DEF DesktopInv
  <2>1. NetOK' BY <1>3, NetKept DEF D!Loaded, D!link, D!desk
  <2>2. /\ observer' \in [Observers -> ObserverType] /\ observer'[o].pc = "snapshot"
        /\ \A p \in Observers : p # o => observer'[p] = observer[p]
    BY <1>1, <1>3, DesktopGoesOn DEF Reading, Asking
  <2>3. waiterChannels' \subseteq waiterChannels /\ waiters' = waiters BY <1>3
  <2>4. /\ \A w \in waiters' : observer'[w.by].pc \in Asking
        /\ \A x \in waiterChannels' : observer'[x.by].pc \in Asking
    BY <2>2, <2>3 DEF WaitersOK, Asking
  <2>5. D!NobodyBlocks' BY <2>3 DEF WaitersOK, D!NobodyBlocks, D!Holds
  <2>6. WaitersOK' BY <2>2, <2>3, <2>4, <2>5 DEF WaitersOK
  <2>7. CacheOK' BY <1>1, <1>3, DesktopGoesOn, CacheKept DEF D!Loaded, D!desk, Reading, Asking
  <2> QED BY <2>1, <2>6, <2>7
<1> QED BY <1>2, <1>3 DEF D!Loaded, D!Of

LEMMA DesktopOwnerFound ==
  ASSUME DesktopInv, NEW o \in Observers, D!OwnerFound(o) PROVE DesktopInv'
<1> USE DEF DesktopInv
<1>1. observer[o].pc \in Reading /\ observer[o] \in ObserverType
  BY DEF D!OwnerFound, D!At, Reading, Asking, WaitersOK
<1>2. PICK x \in waiterChannels :
        /\ x.kind = "owner"
        /\ IF x.what = D!NoOwner
           THEN (D!NoReading(o) \/ D!Go(o, "again")) /\ UNCHANGED taskOwner
           ELSE /\ taskOwner' = x.what
                /\ observer' = [observer EXCEPT ![o].pc = "start", ![o].next = "load",
                                                ![o].owner = x.what]
  BY DEF D!OwnerFound, D!Of
<1>3. x.what \in OwnerOrNone BY <1>2 DEF WaitersOK
<1>4. NetOK' /\ desktopLeft'.passive = desktopLeft.passive
  <2>1. taskOwner' \in OwnerOrNone BY <1>2, <1>3 DEF NetOK
  <2> QED BY <2>1, DesktopForgets DEF D!OwnerFound, D!link, D!desk
<1>5. /\ observer' \in [Observers -> ObserverType]
      /\ \A p \in Observers : /\ observer'[p].entry = observer[p].entry
                              /\ p # o => observer'[p] = observer[p]
                              /\ observer'[p].pc = "idle" <=> observer[p].pc = "idle"
                              /\ observer'[p].pc = "wait" <=> observer[p].pc = "wait"
  <2>1. CASE x.what = D!NoOwner BY <1>1, <1>2, <2>1, DesktopNoReading, DesktopGoesOn DEF Reading
  <2>2. CASE x.what # D!NoOwner
    <3> DEFINE v == [observer[o] EXCEPT !.pc = "start", !.next = "load", !.owner = x.what]
    <3>1. v \in ObserverType /\ v.pc = "start" /\ v.entry = observer[o].entry
      BY <1>1, <1>3 DEF ObserverType, Reading
    <3>2. observer' = [observer EXCEPT ![o] = v] BY <1>2, <2>2
    <3>3. observer[o].pc # "idle" /\ observer[o].pc # "wait" BY <1>1 DEF Reading, Asking
    <3> HIDE DEF v
    <3> QED BY <3>1, <3>2, <3>3, DesktopGoes
  <2> QED BY <2>1, <2>2
<1>6. WaitersOK' /\ CacheOK' BY <1>4, <1>5, ForgottenWaiters, CacheKept DEF D!OwnerFound
<1> QED BY <1>4, <1>6

LEMMA DesktopSnapshotRead ==
  ASSUME DesktopInv, NEW o \in Observers, D!SnapshotRead(o) PROVE DesktopInv'
<1> USE DEF DesktopInv
<1>1. observer[o].pc \in Reading /\ observer[o] \in ObserverType
  BY DEF D!SnapshotRead, D!At, Reading, Asking, WaitersOK
<1>2. CASE D!Fails(o) BY <1>1, <1>2, DesktopFails DEF D!SnapshotRead, D!link, D!desk
<1>3. CASE ~D!Fails(o)
  <2>1. PICK x \in waiterChannels :
          observer' = [observer EXCEPT ![o].pc = "end", ![o].target =
             D!Seen(observer[o].generation, observer[o].owner, x.revision)]
    BY <1>3 DEF D!SnapshotRead, D!Of
  <2> DEFINE v == [observer[o] EXCEPT !.pc = "end", !.target =
                     D!Seen(observer[o].generation, observer[o].owner, x.revision)]
  <2>2. D!Seen(observer[o].generation, observer[o].owner, x.revision) \in SeenType
    BY <1>1, <2>1, DesktopSeen DEF ObserverType, WaitersOK
  <2>3. v \in ObserverType /\ v.pc = "end" /\ v.entry = observer[o].entry
    BY <1>1, <2>2 DEF ObserverType, Reading
  <2>4. observer' = [observer EXCEPT ![o] = v] BY <2>1
  <2>5. D!Forget(o) BY <1>3 DEF D!SnapshotRead
  <2>6. NetOK' /\ desktopLeft'.passive = desktopLeft.passive
    BY <2>5, DesktopForgets DEF D!SnapshotRead, D!link, D!desk, NetOK
  <2>7. observer[o].pc # "idle" /\ observer[o].pc # "wait" BY <1>1 DEF Reading, Asking
  <2> HIDE DEF v
  <2>8. WaitersOK' /\ CacheOK'
    BY <2>3, <2>4, <2>5, <2>6, <2>7, DesktopGoes, ForgottenWaiters, CacheKept DEF D!SnapshotRead
  <2> QED BY <2>6, <2>8
<1> QED BY <1>2, <1>3

LEMMA DesktopReset ==
  ASSUME NetOK, NEW e \in EntryType
  PROVE  D!Reset(e) \in EntryType /\ D!Reset(e).loading = e.loading
<1> DEFINE n == [D!NewEntry(connectionGeneration) EXCEPT !.pushes = e.pushes]
<1>1. /\ D!NewEntry(connectionGeneration) \in EntryType
      /\ ~D!NewEntry(connectionGeneration).loading
  BY DesktopSeen DEF NetOK
<1>2. n \in EntryType /\ n.loading = FALSE BY <1>1 DEF EntryType
<1>3. D!Reset(e) = n \/ D!Reset(e) = e BY DEF D!Reset
<1>4. e.loading \in BOOLEAN BY DEF EntryType
<1>5. e.loading => D!Reset(e) = e BY DEF D!Reset
<1> HIDE DEF n
<1> QED BY <1>2, <1>3, <1>4, <1>5

\* An observation begins.
LEMMA DesktopBegins ==
  ASSUME DesktopInv, NEW o \in Observers
  PROVE  D!Begin(o) \in ObserverType /\ D!Begin(o).entry = 0 /\ D!Begin(o).pc = "idle"
<1> DEFINE floor == IF D!At(o, "wait") THEN observer[o].floor ELSE pushed
<1>1. floor \in SeenType BY DEF DesktopInv, NetOK, WaitersOK, ObserverType
<1>2. D!Begin(o) = [D!Idle EXCEPT !.floor = floor] BY DEF D!Begin
<1> HIDE DEF floor
<1> QED BY <1>1, <1>2, DesktopSeen DEF ObserverType

\* An observer gets a value that does not wait for an answer, and had none to wait for.
LEMMA DesktopSteps ==
  ASSUME DesktopInv, NEW o \in Observers, NEW v \in ObserverType,
         observer' = [observer EXCEPT ![o] = v], observer[o].pc \notin Asking,
         UNCHANGED <<waiters, waiterChannels>>
  PROVE  WaitersOK'
BY DesktopGoes, WaitersKept DEF DesktopInv

\* The cache after one entry was set, and one observer with it.
LEMMA DesktopSets ==
  ASSUME CacheOK, NEW o \in Observers, NEW v \in ObserverType, NEW i \in 1 .. Len(cache),
         NEW e \in EntryType, cache' = [cache EXCEPT ![i] = e],
         observer \in [Observers -> ObserverType],
         observer' = [observer EXCEPT ![o] = v], desktopLeft'.passive = desktopLeft.passive,
         v.entry <= Len(cache), v.entry > 0 => o \notin desktopLeft.passive,
         o \notin desktopLeft.passive /\ v.pc # "idle" => v.entry > 0,
         \* Who reads goes on, or has read this entry, which is read by nobody then.
         observer[o].entry > 0 /\ observer[o].pc \notin {"idle", "wait"} =>
           observer[o].entry = i /\ ~e.loading,
         e.loading => \/ cache[i].loading
                      \/ v.entry = i /\ v.pc \notin {"idle", "wait"}
  PROVE  CacheOK'
<1>1. cache' \in Seq(EntryType) /\ Len(cache') = Len(cache) /\ cache'[i] = e BY DEF CacheOK
<1>2. \A j \in 1 .. Len(cache) : j # i => cache'[j] = cache[j] BY DEF CacheOK
<1>3. observer'[o] = v /\ \A p \in Observers : p # o => observer'[p] = observer[p]
  OBVIOUS
<1>4. ASSUME NEW j \in DOMAIN cache', cache'[j].loading
      PROVE  \E p \in Observers : observer'[p].entry = j /\ observer'[p].pc \notin {"idle", "wait"}
  <2>1. j \in 1 .. Len(cache) BY <1>1
  <2>2. CASE v.entry = j /\ v.pc \notin {"idle", "wait"} BY <1>3, <2>2
  <2>3. CASE ~(v.entry = j /\ v.pc \notin {"idle", "wait"})
    <3>1. cache[j].loading BY <1>1, <1>2, <1>4, <2>1, <2>3
    <3>2. PICK p \in Observers : observer[p].entry = j /\ observer[p].pc \notin {"idle", "wait"}
      BY <2>1, <3>1 DEF CacheOK, D!ReadingEnds
    <3>3. p # o BY <1>1, <1>4, <2>1, <3>2
    <3> QED BY <1>3, <3>2, <3>3
  <2> QED BY <2>2, <2>3
<1>5. D!ReadingEnds' BY <1>4 DEF D!ReadingEnds
<1>6. \A p \in Observers :
        /\ observer'[p].entry <= Len(cache')
        /\ observer'[p].entry > 0 => p \notin desktopLeft'.passive
        /\ p \notin desktopLeft'.passive /\ observer'[p].pc # "idle" => observer'[p].entry > 0
  BY <1>1, <1>3 DEF CacheOK
<1> QED BY <1>1, <1>5, <1>6 DEF CacheOK

LEMMA DesktopProbe ==
  ASSUME DesktopInv, NEW o \in Observers, D!Probe(o) PROVE DesktopInv'
<1> USE DEF DesktopInv, D!link, D!desk
<1>1. NetOK' /\ desktopLeft'.passive = desktopLeft.passive BY NetKept DEF D!Probe
<1>2. PICK v : /\ observer' = [observer EXCEPT ![o] = v]
               /\ v = IF connection = D!NoConnection \/ taskOwner = D!NoOwner THEN D!Begin(o)
                      ELSE [D!Begin(o) EXCEPT !.pc = "start", !.next = "load",
                              !.generation = connectionGeneration, !.owner = taskOwner]
  BY DEF D!Probe
<1>3. v \in ObserverType /\ v.entry = 0
  <2>1. connectionGeneration \in Nat /\ taskOwner \in OwnerOrNone BY DEF NetOK
  <2> QED BY <1>2, <2>1, DesktopBegins DEF ObserverType, Reading
<1>4. observer[o].pc = "idle" /\ o \in desktopLeft.passive BY DEF D!Probe, D!At, D!Passive
<1>5. WaitersOK' BY <1>2, <1>3, <1>4, DesktopSteps DEF D!Probe, Asking
<1>6. \A p \in Observers : p # o => observer'[p] = observer[p] BY <1>2, <1>3, DesktopGoes
<1>7. observer'[o] = v BY <1>2, <1>3, DesktopGoes
<1>8. D!ReadingEnds' BY <1>4, <1>6 DEF CacheOK, D!ReadingEnds, D!Probe
<1>9. CacheOK'
  <2>1. cache' = cache /\ Len(cache) \in Nat BY DEF D!Probe, CacheOK
  <2> HIDE DEF D!desk, D!link
  <2> QED BY <1>1, <1>3, <1>4, <1>6, <1>7, <1>8, <2>1 DEF CacheOK
<1> QED BY <1>1, <1>5, <1>9

LEMMA DesktopGivesUp ==
  ASSUME DesktopInv, NEW o \in Observers, D!GivesUp(o) PROVE DesktopInv'
<1> USE DEF DesktopInv, D!link, D!desk
<1>1. NetOK' /\ desktopLeft'.passive = desktopLeft.passive BY NetKept DEF D!GivesUp
<1>2. observer[o].pc = "wait" /\ observer' = [observer EXCEPT ![o] = D!Idle]
  BY DEF D!GivesUp, D!At
<1>3. WaitersOK' BY <1>2, DesktopSeen, DesktopSteps DEF D!GivesUp, Asking
<1>4. observer'[o] = D!Idle /\ \A p \in Observers : p # o => observer'[p] = observer[p]
  BY <1>2, DesktopSeen, DesktopGoes
<1>5. D!ReadingEnds' BY <1>2, <1>4 DEF CacheOK, D!ReadingEnds, D!GivesUp
<1>6. CacheOK' BY <1>1, <1>4, <1>5, DesktopSeen DEF CacheOK, D!GivesUp
<1> QED BY <1>1, <1>3, <1>6

LEMMA DesktopObserve ==
  ASSUME DesktopInv, NEW o \in Observers, D!Observe(o) PROVE DesktopInv'
<1> DEFINE e == D!Reset(D!Entry)
           i == Len(cache)
<1>1. NetOK' /\ desktopLeft'.passive = desktopLeft.passive
  BY NetKept DEF DesktopInv, D!Observe, D!link, D!desk
<1>2. cache \in Seq(EntryType) /\ i \in Nat /\ i > 0 /\ D!Entry = cache[i]
  BY DEF DesktopInv, CacheOK, D!Entry
<1>3. e \in EntryType /\ e.loading = cache[i].loading BY <1>2, DesktopReset DEF DesktopInv
<1>4. /\ observer[o].pc \in {"idle", "wait"} /\ o \notin desktopLeft.passive
      /\ UNCHANGED <<waiters, waiterChannels>>
  BY DEF D!Observe, D!At, D!Passive
<1>5. D!Begin(o) \in ObserverType /\ D!Begin(o).entry = 0 /\ D!Begin(o).pc = "idle"
  BY DesktopBegins
<1>6. PICK expired \in BOOLEAN :
        IF e.loading
        THEN /\ expired /\ UNCHANGED cache
             /\ observer' = [observer EXCEPT ![o] = [D!Begin(o) EXCEPT !.pc = "wait", !.entry = i]]
        ELSE IF e.fresh /\ ~expired
        THEN /\ D!SetEntry(i, e)
             /\ observer' = [observer EXCEPT ![o] =
                  [D!Begin(o) EXCEPT !.told = IF D!Valid(e) THEN e.target ELSE D!Unseen]]
        ELSE /\ expired /\ D!SetEntry(i, [e EXCEPT !.loading = TRUE])
             /\ observer' = [observer EXCEPT ![o] =
                  [D!Begin(o) EXCEPT !.pc = "start", !.entry = i,
                                     !.generation = connectionGeneration, !.pushes = e.pushes]]
  BY DEF D!Observe
<1>7. /\ observer \in [Observers -> ObserverType] /\ CacheOK /\ WaitersOK
      /\ connectionGeneration \in Nat
  BY DEF DesktopInv, WaitersOK, NetOK
<1> HIDE DEF e, i
<1>8. CASE e.loading
  <2> DEFINE v == [D!Begin(o) EXCEPT !.pc = "wait", !.entry = i]
  <2>1. v \in ObserverType /\ v.pc = "wait" /\ v.entry = i BY <1>2, <1>5 DEF ObserverType
  <2>2. observer' = [observer EXCEPT ![o] = v] /\ cache' = cache BY <1>6, <1>8
  <2> HIDE DEF v
  <2>3. WaitersOK' BY <1>4, <2>1, <2>2, DesktopSteps DEF Asking
  <2>4. observer'[o] = v /\ \A p \in Observers : p # o => observer'[p] = observer[p]
    BY <1>7, <2>1, <2>2, DesktopGoes
  <2>5. D!ReadingEnds' BY <1>4, <1>7, <2>2, <2>4 DEF CacheOK, D!ReadingEnds
  <2>6. CacheOK' BY <1>1, <1>2, <1>4, <1>7, <2>1, <2>2, <2>4, <2>5 DEF CacheOK, i
  <2> QED BY <1>1, <2>3, <2>6 DEF DesktopInv
<1>9. CASE ~e.loading /\ e.fresh /\ ~expired
  <2> DEFINE t == IF D!Valid(e) THEN e.target ELSE D!Unseen
             v == [D!Begin(o) EXCEPT !.told = t]
  <2>1. t \in SeenType BY <1>3, DesktopSeen DEF EntryType
  <2>2. observer' = [observer EXCEPT ![o] = v] /\ cache' = [cache EXCEPT ![i] = e]
    BY <1>6, <1>9 DEF D!SetEntry
  <2> HIDE DEF t
  <2>3. v \in ObserverType /\ v.pc = "idle" /\ v.entry = 0 BY <1>5, <2>1 DEF ObserverType
  <2> HIDE DEF v
  <2>4. WaitersOK' BY <1>4, <2>2, <2>3, DesktopSteps DEF Asking
  <2>5. CacheOK'
    <3>1. /\ i \in 1 .. Len(cache) /\ observer \in [Observers -> ObserverType]
          /\ v.entry <= Len(cache) /\ (v.entry > 0 => o \notin desktopLeft.passive)
          /\ (o \notin desktopLeft.passive /\ v.pc # "idle" => v.entry > 0)
          /\ (observer[o].entry > 0 /\ observer[o].pc \notin {"idle", "wait"} =>
                observer[o].entry = i /\ ~e.loading)
          /\ (e.loading => \/ cache[i].loading
                           \/ v.entry = i /\ v.pc \notin {"idle", "wait"})
      BY <1>2, <1>4, <1>7, <1>9, <2>3 DEF i
    <3> QED BY <1>1, <1>3, <1>7, <2>2, <2>3, <3>1, DesktopSets
  <2> QED BY <1>1, <2>4, <2>5 DEF DesktopInv
<1>10. CASE ~e.loading /\ ~(e.fresh /\ ~expired)
  <2> DEFINE n == [e EXCEPT !.loading = TRUE]
             v == [D!Begin(o) EXCEPT !.pc = "start", !.entry = i,
                                     !.generation = connectionGeneration, !.pushes = e.pushes]
  <2>1. n \in EntryType BY <1>3 DEF EntryType
  <2>2. observer' = [observer EXCEPT ![o] = v] /\ cache' = [cache EXCEPT ![i] = n]
    BY <1>6, <1>10 DEF D!SetEntry
  <2>3. v \in ObserverType /\ v.pc = "start" /\ v.entry = i
    <3>1. e.pushes \in Nat BY <1>3 DEF EntryType
    <3> QED BY <1>2, <1>5, <1>7, <3>1 DEF ObserverType, Reading
  <2> HIDE DEF v, n
  <2>4. WaitersOK' BY <1>4, <2>2, <2>3, DesktopSteps DEF Asking
  <2>5. CacheOK'
    <3>1. /\ i \in 1 .. Len(cache) /\ observer \in [Observers -> ObserverType]
          /\ v.entry <= Len(cache) /\ (v.entry > 0 => o \notin desktopLeft.passive)
          /\ (o \notin desktopLeft.passive /\ v.pc # "idle" => v.entry > 0)
          /\ (observer[o].entry > 0 /\ observer[o].pc \notin {"idle", "wait"} =>
                observer[o].entry = i /\ ~n.loading)
          /\ (n.loading => \/ cache[i].loading
                           \/ v.entry = i /\ v.pc \notin {"idle", "wait"})
      BY <1>2, <1>4, <1>7, <2>3 DEF i
    <3> QED BY <1>1, <1>7, <2>1, <2>2, <2>3, <3>1, DesktopSets
  <2> QED BY <1>1, <2>4, <2>5 DEF DesktopInv
<1> QED BY <1>6, <1>8, <1>9, <1>10

LEMMA DesktopNewest ==
  ASSUME NEW e \in EntryType, NEW aim \in SeenType, NEW pushes
  PROVE  D!Newest(e, aim, pushes) \in SeenType
<1>1. [e.target EXCEPT !.generation = aim.generation] \in SeenType BY DEF EntryType, SeenType
<1> QED BY <1>1 DEF D!Newest

LEMMA DesktopEnds ==
  ASSUME DesktopInv, NEW o \in Observers, D!Ends(o) PROVE DesktopInv'
<1> DEFINE i == observer[o].entry
           good == observer[o].target # D!Unseen /\ D!StillOwned(o)
<1>1. NetOK' /\ desktopLeft'.passive = desktopLeft.passive
  BY NetKept DEF DesktopInv, D!Ends, D!link, D!desk
<1>2. /\ observer \in [Observers -> ObserverType] /\ observer[o] \in ObserverType
      /\ CacheOK /\ WaitersOK
  BY DEF DesktopInv, WaitersOK
<1>3. /\ observer[o].pc = "end" /\ observer[o].target \in SeenType /\ observer[o].floor \in SeenType
      /\ observer[o].generation \in Nat
      /\ UNCHANGED <<waiters, waiterChannels>>
  BY <1>2 DEF D!Ends, D!At, ObserverType
<1>4. ASSUME NEW shown \in SeenType
      PROVE  /\ [D!Idle EXCEPT !.floor = observer[o].floor, !.told = shown] \in ObserverType
             /\ [D!Idle EXCEPT !.floor = observer[o].floor, !.told = shown].pc = "idle"
             /\ [D!Idle EXCEPT !.floor = observer[o].floor, !.told = shown].entry = 0
  BY <1>3, DesktopSeen DEF ObserverType
<1>5. CASE D!Passive(o)
  <2> DEFINE shown == IF good THEN observer[o].target ELSE D!Unseen
             v == [D!Idle EXCEPT !.floor = observer[o].floor, !.told = shown]
  <2>1. shown \in SeenType BY <1>3, DesktopSeen
  <2>2. v \in ObserverType /\ v.pc = "idle" /\ v.entry = 0 BY <1>4, <2>1
  <2>3. observer' = [observer EXCEPT ![o] = v] /\ cache' = cache BY <1>5 DEF D!Ends
  <2> HIDE DEF v
  <2>4. WaitersOK' BY <1>3, <2>2, <2>3, DesktopSteps DEF Asking
  <2>5. observer'[o] = v /\ \A p \in Observers : p # o => observer'[p] = observer[p]
    BY <1>2, <2>2, <2>3, DesktopGoes
  <2>6. observer[o].entry = 0 BY <1>2, <1>5 DEF CacheOK, D!Passive, ObserverType
  <2>7. D!ReadingEnds'
    <3>1. 0 \notin DOMAIN cache BY <1>2 DEF CacheOK
    <3> QED BY <1>2, <2>3, <2>5, <2>6, <3>1 DEF CacheOK, D!ReadingEnds
  <2>8. Len(cache) \in Nat BY <1>2 DEF CacheOK
  <2>9. CacheOK' BY <1>1, <1>2, <2>2, <2>3, <2>5, <2>7, <2>8 DEF CacheOK
  <2> QED BY <1>1, <2>4, <2>9 DEF DesktopInv
<1>6. CASE ~D!Passive(o)
  <2> DEFINE e == cache[i]
             aim == D!Newest(e, observer[o].target, observer[o].pushes)
             n == IF good THEN [e EXCEPT !.target = aim, !.fresh = TRUE,
                                         !.generation = observer[o].generation,
                                         !.loading = FALSE]
                  ELSE D!Failed(e)
             shown == IF good THEN aim ELSE D!Unseen
             v == [D!Idle EXCEPT !.floor = observer[o].floor, !.told = shown]
  <2>1. i \in 1 .. Len(cache) /\ cache \in Seq(EntryType)
    BY <1>2, <1>3, <1>6 DEF CacheOK, D!Passive, ObserverType
  <2>2. e \in EntryType BY <2>1
  <2>3. aim \in SeenType BY <1>3, <2>2, DesktopNewest
  <2> HIDE DEF aim
  <2>4. n \in EntryType /\ ~n.loading
    <3> HIDE DEF e
    <3>1. [e EXCEPT !.target = aim, !.fresh = TRUE, !.generation = observer[o].generation,
                    !.loading = FALSE] \in EntryType
      BY <1>3, <2>2, <2>3 DEF EntryType
    <3>2. D!Failed(e) \in EntryType /\ ~D!Failed(e).loading BY <2>2 DEF EntryType, D!Failed
    <3>3. ~[e EXCEPT !.target = aim, !.fresh = TRUE, !.generation = observer[o].generation,
                    !.loading = FALSE].loading
      BY <2>2 DEF EntryType
    <3> HIDE DEF good
    <3> QED BY <3>1, <3>2, <3>3
  <2>5. shown \in SeenType BY <2>3, DesktopSeen
  <2>6. observer' = [observer EXCEPT ![o] = v] /\ cache' = [cache EXCEPT ![i] = n]
    BY <1>6 DEF D!Ends, D!SetEntry, aim
  <2>7. v \in ObserverType /\ v.pc = "idle" /\ v.entry = 0 BY <1>4, <2>5
  <2> HIDE DEF v, n
  <2>8. WaitersOK' BY <1>3, <2>6, <2>7, DesktopSteps DEF Asking
  <2>9. CacheOK'
    <3>1. /\ i \in 1 .. Len(cache) /\ observer \in [Observers -> ObserverType]
          /\ v.entry <= Len(cache) /\ (v.entry > 0 => o \notin desktopLeft.passive)
          /\ (o \notin desktopLeft.passive /\ v.pc # "idle" => v.entry > 0)
          /\ (observer[o].entry > 0 /\ observer[o].pc \notin {"idle", "wait"} =>
                observer[o].entry = i /\ ~n.loading)
          /\ (n.loading => \/ cache[i].loading
                           \/ v.entry = i /\ v.pc \notin {"idle", "wait"})
      BY <1>2, <2>1, <2>4, <2>7
    <3> HIDE DEF i
    <3> QED BY <1>1, <1>2, <2>4, <2>6, <2>7, <3>1, DesktopSets
  <2> QED BY <1>1, <2>8, <2>9 DEF DesktopInv
<1> QED BY <1>5, <1>6

LEMMA DesktopDelivers ==
  ASSUME WaitersOK, NEW ws \in SUBSET waiters, NEW r \in Nat,
         NEW what \in OwnerOrNone \cup {"ok", "failed", "state"}, D!Deliver(ws, what, r),
         \A w \in ws : w.kind = "owner" => what \in OwnerOrNone,
         waiters' = waiters \ ws, UNCHANGED observer
  PROVE  WaitersOK'
<1>1. waiterChannels' = waiterChannels \cup {D!Message(w, what, r) : w \in ws} BY DEF D!Deliver
<1>2. \A w \in ws : /\ D!Message(w, what, r).by = w.by /\ D!Message(w, what, r).kind = w.kind
                    /\ D!Message(w, what, r).what = what
                    /\ D!Message(w, what, r) \in
                         [by : Observers, kind : {"owner", "snapshot", "response"},
                          what : OwnerOrNone \cup {"ok", "failed", "state"}, revision : Nat]
  BY DEF D!Message, WaitersOK
<1>3. waiterChannels' \subseteq
        [by : Observers, kind : {"owner", "snapshot", "response"},
         what : OwnerOrNone \cup {"ok", "failed", "state"}, revision : Nat]
  BY <1>1, <1>2 DEF WaitersOK
<1>4. \A x \in waiterChannels' : /\ x.kind = "owner" => x.what \in OwnerOrNone
                                 /\ observer'[x.by].pc \in Asking
  BY <1>1, <1>2 DEF WaitersOK
<1>5. ASSUME NEW w \in waiters', NEW x \in waiterChannels', x.by = w.by, x.kind = w.kind
      PROVE  FALSE
  <2>1. w \in waiters /\ w \notin ws
    OBVIOUS
  <2>2. x \notin waiterChannels BY <1>5, <2>1 DEF WaitersOK, D!NobodyBlocks, D!Holds
  <2>3. PICK v \in ws : x = D!Message(v, what, r) BY <1>1, <2>2
  <2>4. v = w BY <1>2, <1>5, <2>1, <2>3 DEF WaitersOK
  <2> QED BY <2>1, <2>4
<1>6. D!NobodyBlocks' BY <1>5 DEF D!NobodyBlocks, D!Holds
<1> QED BY <1>3, <1>4, <1>6 DEF WaitersOK

LEMMA DesktopTakes ==
  ASSUME DesktopBounds, DesktopInv, NEW c \in DesktopConnections, wire[c] # <<>>, D!Take(c)
  PROVE  /\ wire' \in [DesktopConnections -> Seq(FrameType)]
         /\ \A d \in DesktopConnections : Len(wire'[d]) <= MaxFrames + 1
         /\ \A d \in DesktopConnections : \A i \in 1 .. Len(wire'[d]) : NamesAnOwner(wire'[d][i])
         /\ Head(wire[c]) \in FrameType /\ NamesAnOwner(Head(wire[c]))
<1>1. /\ wire[c] \in Seq(FrameType) /\ Len(wire[c]) <= MaxFrames + 1
      /\ \A i \in 1 .. Len(wire[c]) : NamesAnOwner(wire[c][i])
  BY DEF DesktopInv, NetOK
<1>2. wire' = [wire EXCEPT ![c] = Tail(wire[c])] BY DEF D!Take
<1>3. /\ Tail(wire[c]) \in Seq(FrameType) /\ Len(Tail(wire[c])) = Len(wire[c]) - 1
      /\ \A i \in 1 .. Len(Tail(wire[c])) : Tail(wire[c])[i] = wire[c][i + 1]
      /\ Head(wire[c]) = wire[c][1] /\ Len(wire[c]) >= 1
  BY <1>1
<1>4. \A i \in 1 .. Len(Tail(wire[c])) : NamesAnOwner(Tail(wire[c])[i])
  <2>1. \A i \in 1 .. Len(Tail(wire[c])) : i + 1 \in 1 .. Len(wire[c]) BY <1>1, <1>3
  <2> QED BY <1>1, <1>3, <2>1
<1>5. /\ wire' \in [DesktopConnections -> Seq(FrameType)] /\ wire'[c] = Tail(wire[c])
      /\ \A d \in DesktopConnections : d # c => wire'[d] = wire[d]
  BY <1>2, <1>3 DEF DesktopInv, NetOK
<1>6. ASSUME NEW d \in DesktopConnections
      PROVE  /\ Len(wire'[d]) <= MaxFrames + 1
             /\ \A i \in 1 .. Len(wire'[d]) : NamesAnOwner(wire'[d][i])
  <2>1. CASE d = c
    <3>1. Len(Tail(wire[c])) <= MaxFrames + 1
      <4>1. Len(wire[c]) - 1 <= Len(wire[c]) BY <1>1
      <4> QED BY <1>1, <1>3, <4>1 DEF DesktopBounds
    <3> QED BY <1>4, <1>5, <2>1, <3>1
  <2>2. CASE d # c BY <1>5, <2>2 DEF DesktopInv, NetOK
  <2> QED BY <2>1, <2>2
<1>7. Head(wire[c]) \in FrameType /\ NamesAnOwner(Head(wire[c])) BY <1>1, <1>3
<1> QED BY <1>5, <1>6, <1>7

LEMMA DesktopReadResponse ==
  ASSUME DesktopBounds, DesktopInv, NEW c \in DesktopConnections, D!ReadResponse(c) PROVE DesktopInv'
<1> DEFINE f == Head(wire[c])
           ws == {w \in waiters : w.by = f.by /\ w.kind = f.kind}
<1>1. /\ wire' \in [DesktopConnections -> Seq(FrameType)]
      /\ \A d \in DesktopConnections : Len(wire'[d]) <= MaxFrames + 1
      /\ \A d \in DesktopConnections : \A i \in 1 .. Len(wire'[d]) : NamesAnOwner(wire'[d][i])
      /\ f \in FrameType /\ NamesAnOwner(f)
  BY DesktopTakes DEF D!ReadResponse
<1>2. UNCHANGED <<connection, connectionGeneration, socket, cache, observer, task, pushed, desktopLeft>>
  BY DEF D!ReadResponse, D!desk
<1>3. D!Response(c, f) BY DEF D!ReadResponse
<1>4. CacheOK' BY <1>2 DEF DesktopInv, CacheOK, D!ReadingEnds
<1>5. clientID' \in BOOLEAN /\ taskOwner' \in OwnerOrNone /\ WaitersOK'
      /\ \A a \in desktopAsked' : /\ a.kind \in {"initialize", "owner", "any", "follow", "load"}
                                  /\ a.by \in Observers \cup {"nobody"}
                                  /\ a.on \in DesktopConnections
  <2> HIDE DEF f
  <2>0. NetOK /\ WaitersOK BY DEF DesktopInv
  <2>1. CASE ws # {}
    <3>1. /\ D!Deliver(ws, f.what, 0) /\ waiters' = waiters \ ws
          /\ UNCHANGED <<clientID, taskOwner, pendingOwners, desktopAsked>>
      BY <1>3, <2>1 DEF D!Response, D!Served
    <3>2. f.what \in OwnerOrNone \cup {"ok", "failed", "state"}
      BY <1>1 DEF FrameType, OwnerOrNone
    <3>3. \A w \in ws : w.kind = "owner" => f.what \in OwnerOrNone
      BY <1>1 DEF NamesAnOwner, OwnerOrNone
    <3>4. ws \in SUBSET waiters
      OBVIOUS
    <3> HIDE DEF ws
    <3>5. WaitersOK' BY <1>2, <2>0, <3>1, <3>2, <3>3, <3>4, DesktopDelivers
    <3> QED BY <2>0, <3>1, <3>5 DEF NetOK
  <2>2. CASE ws = {} /\ f.kind = "initialize"
    <3>1. /\ clientID' = TRUE /\ D!Sends({D!Ask("any", "nobody", D!NoOwner)})
          /\ UNCHANGED <<taskOwner, waiters, waiterChannels>>
      BY <1>3, <2>2 DEF D!Response
    <3>2. WaitersOK' BY <1>2, <2>0, <3>1, WaitersKept DEF WaitersOK
    <3> DEFINE wanted == {D!Ask("any", "nobody", D!NoOwner)}
    <3>4. \A a \in wanted : a.kind = "any" /\ a.by = "nobody" /\ a.on = connection BY DEF D!Ask
    <3>5. D!Sends(wanted) BY <3>1
    <3> HIDE DEF wanted
    <3>6. \A a \in desktopAsked' : /\ a.kind \in {"initialize", "owner", "any", "follow", "load"}
                                  /\ a.by \in Observers \cup {"nobody"}
                                  /\ a.on \in DesktopConnections
      BY <2>0, <3>4, <3>5, DesktopSends
    <3> QED BY <2>0, <3>1, <3>2, <3>6 DEF NetOK
  <2>3. CASE ws = {} /\ f.kind = "any" /\ c \in pendingOwners
    <3>1. /\ taskOwner' = f.what /\ D!Sends({D!Ask("follow", "nobody", f.what)})
          /\ UNCHANGED <<clientID, waiters, waiterChannels>>
      BY <1>3, <2>3 DEF D!Response
    <3>2. WaitersOK' BY <1>2, <2>0, <3>1, WaitersKept DEF WaitersOK
    <3>3. taskOwner' \in OwnerOrNone BY <1>1, <2>3, <3>1 DEF NamesAnOwner, OwnerOrNone
    <3> DEFINE wanted == {D!Ask("follow", "nobody", f.what)}
    <3>4. \A a \in wanted : a.kind = "follow" /\ a.by = "nobody" /\ a.on = connection
      BY DEF D!Ask
    <3>5. D!Sends(wanted) BY <3>1
    <3> HIDE DEF wanted
    <3>6. \A a \in desktopAsked' : /\ a.kind \in {"initialize", "owner", "any", "follow", "load"}
                                  /\ a.by \in Observers \cup {"nobody"}
                                  /\ a.on \in DesktopConnections
      BY <2>0, <3>4, <3>5, DesktopSends
    <3> QED BY <2>0, <3>1, <3>2, <3>3, <3>6 DEF NetOK
  <2>4. CASE UNCHANGED <<clientID, taskOwner, pendingOwners, waiters, waiterChannels, desktopAsked>>
    <3>2. WaitersOK' BY <1>2, <2>0, <2>4, WaitersKept DEF WaitersOK
    <3> QED BY <2>0, <2>4, <3>2 DEF NetOK
  <2> QED BY <1>3, <2>1, <2>2, <2>3, <2>4 DEF D!Response
<1>6. NetOK' BY <1>1, <1>2, <1>5 DEF DesktopInv, NetOK
<1> QED BY <1>4, <1>5, <1>6 DEF DesktopInv

\* Entries may be added to the cache, and change but for who reads them.
LEMMA CacheGrows ==
  ASSUME CacheOK, cache' \in Seq(EntryType), Len(cache') >= Len(cache),
         \A i \in 1 .. Len(cache') : cache'[i].loading => i <= Len(cache) /\ cache[i].loading,
         UNCHANGED <<observer, desktopLeft>>, observer \in [Observers -> ObserverType]
  PROVE  CacheOK'
<1>1. Len(cache) \in Nat /\ Len(cache') \in Nat BY DEF CacheOK
<1>2. \A o \in Observers : observer[o].entry \in Nat BY DEF ObserverType
<1>3. D!ReadingEnds'
  <2>1. \A i \in DOMAIN cache' : i \in 1 .. Len(cache')
    OBVIOUS
  <2> QED BY <1>1, <2>1 DEF CacheOK, D!ReadingEnds
<1> QED BY <1>1, <1>2, <1>3 DEF CacheOK

LEMMA DesktopCurrent ==
  ASSUME DesktopInv, NEW source
  PROVE  LET new == D!Current(source)
         IN /\ new \in Seq(EntryType) /\ Len(new) >= Len(cache)
            /\ \A i \in 1 .. Len(new) : new[i].loading => i <= Len(cache) /\ cache[i].loading
<1>1. cache \in Seq(EntryType) /\ Len(cache) \in Nat BY DEF DesktopInv, CacheOK
<1>2. /\ D!NewEntry(connectionGeneration) \in EntryType
      /\ ~D!NewEntry(connectionGeneration).loading
  BY DesktopSeen DEF DesktopInv, NetOK
<1> DEFINE n == Append(cache, D!NewEntry(connectionGeneration))
<1>3. /\ n \in Seq(EntryType) /\ Len(n) = Len(cache) + 1
      /\ n[Len(cache) + 1] = D!NewEntry(connectionGeneration)
      /\ \A i \in 1 .. Len(cache) : n[i] = cache[i]
  BY <1>1, <1>2
<1> HIDE DEF n
<1>4. \A i \in 1 .. Len(n) : n[i].loading => i <= Len(cache) /\ cache[i].loading
  BY <1>1, <1>2, <1>3
<1>5. D!Current(source) = n \/ D!Current(source) = cache BY DEF D!Current, n
<1> QED BY <1>1, <1>3, <1>4, <1>5

LEMMA DesktopReadPush ==
  ASSUME DesktopBounds, DesktopInv, NEW c \in DesktopConnections, D!ReadPush(c) PROVE DesktopInv'
<1> DEFINE f == Head(wire[c])
           ws == {w \in waiters : w.kind = "snapshot" /\ w.from = f.by}
           new == D!Current(f.by)
<1>1. /\ wire' \in [DesktopConnections -> Seq(FrameType)]
      /\ \A d \in DesktopConnections : Len(wire'[d]) <= MaxFrames + 1
      /\ \A d \in DesktopConnections : \A i \in 1 .. Len(wire'[d]) : NamesAnOwner(wire'[d][i])
      /\ f \in FrameType /\ NamesAnOwner(f) /\ f.kind = "push"
  BY DesktopTakes DEF D!ReadPush
<1>2. UNCHANGED <<connection, clientID, connectionGeneration, socket, taskOwner, observer,
                  desktopAsked, task, desktopLeft>>
  BY DEF D!ReadPush, D!desk, D!link
<1>3. /\ cache' = IF D!Accepted(f.by, f.revision) THEN D!Pushed(f.by, f.revision)
                  ELSE IF D!Trusted(f.by) THEN new ELSE cache
      /\ pushed' = IF D!Accepted(f.by, f.revision)
                   THEN D!Seen(connectionGeneration, f.by, f.revision) ELSE pushed
      /\ D!Deliver(ws, "ok", f.revision) /\ waiters' = waiters \ ws
  BY DEF D!ReadPush, D!Served
<1>4. f.by \in Owners /\ f.revision \in Nat BY <1>1 DEF FrameType, NamesAnOwner
<1>5. NetOK /\ WaitersOK /\ CacheOK BY DEF DesktopInv
<1> HIDE DEF f
<1>6. D!Seen(connectionGeneration, f.by, f.revision) \in SeenType
  BY <1>4, <1>5, DesktopSeen DEF OwnerOrNone, NetOK
<1>7. NetOK' BY <1>1, <1>2, <1>3, <1>5, <1>6 DEF NetOK
<1>8. WaitersOK'
  <2>1. ws \in SUBSET waiters /\ \A w \in ws : w.kind # "owner"
    OBVIOUS
  <2> HIDE DEF ws
  <2> QED BY <1>2, <1>3, <1>4, <1>5, <2>1, DesktopDelivers
<1>9. /\ new \in Seq(EntryType) /\ Len(new) >= Len(cache)
      /\ \A i \in 1 .. Len(new) : new[i].loading => i <= Len(cache) /\ cache[i].loading
  BY DesktopCurrent
<1>10. CASE D!Accepted(f.by, f.revision)
  <2> DEFINE i == Len(new)
             e == [new[i] EXCEPT !.target = D!Seen(connectionGeneration, f.by, f.revision),
                                 !.fresh = TRUE, !.pushes = new[i].pushes + 1]
  <2>1. cache' = [new EXCEPT ![i] = e] BY <1>3, <1>10 DEF D!Pushed
  <2> HIDE DEF new
  <2>2. i \in 1 .. Len(new) /\ new[i] \in EntryType BY <1>5, <1>9 DEF CacheOK
  <2>3. e \in EntryType /\ e.loading = new[i].loading
    <3> DEFINE last == new[i]
               seen == D!Seen(connectionGeneration, f.by, f.revision)
    <3>1. last \in EntryType BY <2>2
    <3>2. e = [last EXCEPT !.target = seen, !.fresh = TRUE, !.pushes = last.pushes + 1]
      OBVIOUS
    <3>3. seen \in SeenType BY <1>6
    <3> HIDE DEF last, e, seen
    <3>4. last.pushes + 1 \in Nat BY <3>1 DEF EntryType
    <3>5. e \in EntryType /\ e.loading = last.loading BY <3>1, <3>2, <3>3, <3>4 DEF EntryType
    <3> QED BY <3>5 DEF last
  <2> HIDE DEF e
  <2>4. /\ cache' \in Seq(EntryType) /\ Len(cache') = Len(new) /\ cache'[i] = e
        /\ \A j \in 1 .. Len(new) : j # i => cache'[j] = new[j]
    BY <1>9, <2>1, <2>2, <2>3
  <2>5. \A j \in 1 .. Len(cache') : cache'[j].loading => j <= Len(cache) /\ cache[j].loading
    BY <1>9, <2>3, <2>4
  <2> QED BY <1>2, <1>5, <1>7, <1>8, <1>9, <2>4, <2>5, CacheGrows DEF DesktopInv, WaitersOK
<1>11. CASE cache' = new
  <2>1. CacheOK' BY <1>2, <1>5, <1>9, <1>11, CacheGrows DEF WaitersOK
  <2> QED BY <1>7, <1>8, <2>1 DEF DesktopInv
<1>12. CASE cache' = cache
  <2>1. CacheOK' BY <1>2, <1>5, <1>12 DEF CacheOK, D!ReadingEnds
  <2> QED BY <1>7, <1>8, <2>1 DEF DesktopInv
<1> QED BY <1>3, <1>10, <1>11, <1>12

LEMMA DesktopReadChange ==
  ASSUME DesktopBounds, DesktopInv, NEW c \in DesktopConnections, D!ReadChange(c)
  PROVE  DesktopInv'
<1>1. /\ wire' \in [DesktopConnections -> Seq(FrameType)]
      /\ \A d \in DesktopConnections : Len(wire'[d]) <= MaxFrames + 1
      /\ \A d \in DesktopConnections : \A i \in 1 .. Len(wire'[d]) : NamesAnOwner(wire'[d][i])
  BY DesktopTakes DEF D!ReadChange
<1>2. UNCHANGED <<connection, clientID, connectionGeneration, socket, taskOwner, observer, cache,
                  waiters, waiterChannels, desktopAsked, task, pushed, desktopLeft>>
  BY DEF D!ReadChange, D!desk, D!link
<1>3. NetOK' BY <1>1, <1>2 DEF DesktopInv, NetOK
<1>4. WaitersOK' /\ CacheOK' BY <1>2, WaitersKept, CacheKept DEF DesktopInv, WaitersOK
<1> QED BY <1>3, <1>4 DEF DesktopInv

\* Everybody who waits is answered.
LEMMA DesktopConnectionEnded ==
  ASSUME DesktopInv, NEW c \in DesktopConnections, D!ConnectionEnded(c)
  PROVE  DesktopInv'
<1> USE DEF D!desk
<1>1. NetOK /\ WaitersOK /\ CacheOK BY DEF DesktopInv
<1>2. UNCHANGED <<wire, cache, observer, desktopAsked, task, pushed, desktopLeft>>
  BY DEF D!ConnectionEnded
<1>3. CacheOK' BY <1>1, <1>2, CacheKept
<1>4. socket' \in [DesktopConnections -> {"none", "open", "broken", "closed"}]
  BY <1>1 DEF D!ConnectionEnded, NetOK
<1>5. CASE UNCHANGED <<connection, clientID, connectionGeneration, taskOwner, waiterChannels, waiters>>
  <2>1. NetOK' BY <1>1, <1>2, <1>4, <1>5 DEF NetOK
  <2>2. WaitersOK' BY <1>1, <1>2, <1>5, WaitersKept DEF WaitersOK
  <2> QED BY <1>3, <2>1, <2>2 DEF DesktopInv
<1>6. CASE /\ connection' = D!NoConnection /\ clientID' = FALSE /\ taskOwner' = D!NoOwner
           /\ connectionGeneration' = connectionGeneration + 1
           /\ waiterChannels' = waiterChannels \cup
                {D!Message(w, IF w.kind = "owner" THEN D!NoOwner ELSE "failed", 0) : w \in waiters}
           /\ waiters' = {}
  <2>1. connection' = 0 /\ taskOwner' \in OwnerOrNone /\ connectionGeneration' \in Nat
    BY <1>1, <1>6 DEF NetOK, OwnerOrNone, D!NoConnection
  <2>2. NetOK' BY <1>1, <1>2, <1>4, <1>6, <2>1 DEF NetOK
  <2>3. \A w \in waiters :
          LET x == D!Message(w, IF w.kind = "owner" THEN D!NoOwner ELSE "failed", 0)
          IN /\ x \in [by : Observers, kind : {"owner", "snapshot", "response"},
                       what : OwnerOrNone \cup {"ok", "failed", "state"}, revision : Nat]
             /\ x.by = w.by /\ (x.kind = "owner" => x.what \in OwnerOrNone)
    BY <1>1 DEF D!Message, WaitersOK, OwnerOrNone
  <2>4. waiterChannels' \subseteq
          [by : Observers, kind : {"owner", "snapshot", "response"},
           what : OwnerOrNone \cup {"ok", "failed", "state"}, revision : Nat]
    BY <1>1, <1>6, <2>3 DEF WaitersOK
  <2>5. \A x \in waiterChannels' : /\ x.kind = "owner" => x.what \in OwnerOrNone
                                   /\ observer'[x.by].pc \in Asking
    BY <1>1, <1>2, <1>6, <2>3 DEF WaitersOK
  <2>6. waiters' = {} /\ observer' = observer BY <1>2, <1>6
  <2>7. D!NobodyBlocks' BY <2>6 DEF D!NobodyBlocks
  <2>8. observer' \in [Observers -> ObserverType] BY <1>1, <2>6 DEF WaitersOK
  <2>9. WaitersOK' BY <2>4, <2>5, <2>6, <2>7, <2>8 DEF WaitersOK
  <2> QED BY <1>3, <2>2, <2>9 DEF DesktopInv
<1> QED BY <1>5, <1>6 DEF D!ConnectionEnded

LEMMA DesktopBreaks ==
  ASSUME DesktopInv, NEW c \in DesktopConnections, D!Breaks(c) PROVE DesktopInv'
<1>1. NetOK /\ WaitersOK /\ CacheOK BY DEF DesktopInv
<1>2. UNCHANGED <<connection, clientID, connectionGeneration, wire, taskOwner, cache, observer,
                  waiters, waiterChannels, task, pushed>>
  BY DEF D!Breaks, D!desk
<1>3. /\ desktopLeft' \in [calls : Nat, updates : Nat, moves : Nat, breaks : Nat,
                            timeouts : Nat, numeric : BOOLEAN, passive : SUBSET Observers]
      /\ desktopLeft'.passive = desktopLeft.passive
  BY <1>1, DesktopSpends DEF D!Breaks
<1>4. /\ socket' \in [DesktopConnections -> {"none", "open", "broken", "closed"}]
      /\ desktopAsked' \subseteq desktopAsked
  BY <1>1 DEF D!Breaks, NetOK
<1>5. NetOK' BY <1>1, <1>2, <1>3, <1>4 DEF NetOK
<1>6. WaitersOK' /\ CacheOK' BY <1>1, <1>2, <1>3, WaitersKept, CacheKept DEF WaitersOK
<1> QED BY <1>5, <1>6 DEF DesktopInv

LEMMA DesktopRefresh ==
  ASSUME DesktopInv, NEW t \in refreshes, D!Refresh(t) PROVE DesktopInv'
<1>1. NetOK /\ WaitersOK /\ CacheOK BY DEF DesktopInv
<1>2. UNCHANGED <<connection, clientID, connectionGeneration, socket, wire, taskOwner, cache,
                  observer, waiters, waiterChannels, task, pushed, desktopLeft>>
  BY DEF D!Refresh, D!desk, D!link
<1>3. UNCHANGED desktopAsked \/ D!Sends({D!Ask("follow", "nobody", t.source)}) BY DEF D!Refresh
<1>4. NetOK' BY <1>1, <1>2, <1>3, NetKept DEF D!Ask
<1>5. WaitersOK' /\ CacheOK' BY <1>1, <1>2, WaitersKept, CacheKept DEF WaitersOK
<1> QED BY <1>4, <1>5 DEF DesktopInv

LEMMA DesktopFrames ==
  ASSUME NetOK, DesktopBounds
  PROVE  /\ \A kind \in FrameKinds, by \in Observers \cup Owners \cup {"nobody"},
              what \in Owners \cup {"ok", "failed", "state"} :
               /\ D!Frame(kind, by, what) \in FrameType /\ D!Frame(kind, by, what).kind = kind
               /\ D!Frame(kind, by, what).what = what
         /\ \A r \in Nat : D!Push(r) \in FrameType /\ NamesAnOwner(D!Push(r))
<1>1. \A kind \in FrameKinds, by \in Observers \cup Owners \cup {"nobody"},
         what \in Owners \cup {"ok", "failed", "state"} :
        /\ D!Frame(kind, by, what) \in FrameType /\ D!Frame(kind, by, what).kind = kind
        /\ D!Frame(kind, by, what).what = what /\ D!Frame(kind, by, what).by = by
  BY DEF D!Frame, FrameType
<1>2. ASSUME NEW r \in Nat
      PROVE  D!Push(r) \in FrameType /\ NamesAnOwner(D!Push(r))
  <2> DEFINE f == D!Frame("push", task.owner, "state")
  <2>1. task.owner \in Owners BY DEF NetOK
  <2>2. f \in FrameType /\ f.kind = "push" /\ f.by = task.owner BY <1>1, <2>1 DEF FrameKinds
  <2>3. D!Push(r) = [f EXCEPT !.revision = r] BY DEF D!Push
  <2> HIDE DEF f
  <2>4. D!Push(r) \in FrameType /\ D!Push(r).kind = "push" /\ D!Push(r).by = task.owner
    BY <2>2, <2>3 DEF FrameType
  <2> QED BY <2>1, <2>4 DEF NamesAnOwner
<1> QED BY <1>1, <1>2

LEMMA FewFrames ==
  \A f, g \in FrameType : NamesAnOwner(f) /\ NamesAnOwner(g) =>
    \A s \in {<<>>, <<f>>, <<f, g>>} :
      /\ s \in Seq(FrameType) /\ Len(s) \in Nat /\ Len(s) <= 2
      /\ \A i \in 1 .. Len(s) : NamesAnOwner(s[i])
<1> SUFFICES ASSUME NEW f \in FrameType, NEW g \in FrameType,
                    NamesAnOwner(f), NamesAnOwner(g)
             PROVE  \A s \in {<<>>, <<f>>, <<f, g>>} :
                      /\ s \in Seq(FrameType) /\ Len(s) \in Nat /\ Len(s) <= 2
                      /\ \A i \in 1 .. Len(s) : NamesAnOwner(s[i])
  OBVIOUS
<1> HIDE DEF FrameType
<1>1. /\ <<>> \in Seq(FrameType) /\ Len(<<>>) = 0
  OBVIOUS
<1>2. /\ <<f>> \in Seq(FrameType) /\ Len(<<f>>) = 1 /\ <<f>>[1] = f
  OBVIOUS
<1>3. /\ <<f, g>> \in Seq(FrameType) /\ Len(<<f, g>>) = 2
      /\ <<f, g>>[1] = f /\ <<f, g>>[2] = g
  OBVIOUS
<1>4. \A i \in 1 .. 2 : i = 1 \/ i = 2
  OBVIOUS
<1>5. ASSUME NEW s, s = <<>>
      PROVE  /\ s \in Seq(FrameType) /\ Len(s) \in Nat /\ Len(s) <= 2
             /\ \A i \in 1 .. Len(s) : NamesAnOwner(s[i])
  BY <1>1, <1>5
<1>6. ASSUME NEW s, s = <<f>>
      PROVE  /\ s \in Seq(FrameType) /\ Len(s) \in Nat /\ Len(s) <= 2
             /\ \A i \in 1 .. Len(s) : NamesAnOwner(s[i])
  <2>1. \A i \in 1 .. 1 : i = 1
    OBVIOUS
  <2> QED BY <1>2, <1>6, <2>1
<1>7. ASSUME NEW s, s = <<f, g>>
      PROVE  /\ s \in Seq(FrameType) /\ Len(s) \in Nat /\ Len(s) <= 2
             /\ \A i \in 1 .. Len(s) : NamesAnOwner(s[i])
  BY <1>3, <1>4, <1>7
<1> QED BY <1>5, <1>6, <1>7

LEMMA DesktopAnswers ==
  ASSUME DesktopBounds, DesktopInv, NEW a \in desktopAsked, D!Answers(a)
  PROVE  DesktopInv'
<1>1. NetOK /\ WaitersOK /\ CacheOK BY DEF DesktopInv
<1>2. UNCHANGED <<connection, clientID, connectionGeneration, socket, taskOwner, cache, observer,
                  waiters, waiterChannels, task, pushed, desktopLeft>>
  BY DEF D!Answers, D!link
<1>3. /\ a.kind \in {"initialize", "owner", "any", "follow", "load"}
      /\ a.by \in Observers \cup {"nobody"} /\ a.on \in DesktopConnections
  BY <1>1 DEF NetOK
<1> DEFINE found == a.to \in {task.owner, D!Everybody}
           replies ==
             CASE a.kind = "initialize" -> {<<D!Frame("initialize", "nobody", "ok")>>}
               [] a.kind \in {"owner", "any"} -> {<<D!Frame(a.kind, a.by, task.owner)>>}
               [] a.kind = "follow" -> {IF found THEN <<D!Push(task.revision)>> ELSE <<>>}
               [] a.kind = "load" ->
                    IF ~found THEN {<<D!Frame("response", a.by, "failed")>>}
                    ELSE {<<D!Push(task.revision), D!Frame("response", a.by, "ok")>>,
                          <<D!Frame("response", a.by, "ok"), D!Push(task.revision)>>}
<1>4. PICK reply \in replies : wire' = [wire EXCEPT ![a.on] = wire[a.on] \o reply]
  BY DEF D!Answers
<1>5. task.revision \in Nat /\ task.owner \in Owners BY <1>1 DEF NetOK
<1> HIDE DEF replies
<1> DEFINE thePush == D!Push(task.revision)
           named == D!Frame("initialize", "nobody", "ok")
           failed == D!Frame("response", a.by, "failed")
           done == D!Frame("response", a.by, "ok")
           who == D!Frame(a.kind, a.by, task.owner)
<1>a. /\ "initialize" \in FrameKinds /\ "response" \in FrameKinds
      /\ a.kind \in {"owner", "any"} => a.kind \in FrameKinds
      /\ a.by \in Observers \cup Owners \cup {"nobody"}
      /\ "nobody" \in Observers \cup Owners \cup {"nobody"}
      /\ task.owner \in Owners \cup {"ok", "failed", "state"}
      /\ "ok" \in Owners \cup {"ok", "failed", "state"}
      /\ "failed" \in Owners \cup {"ok", "failed", "state"}
  BY <1>3, <1>5 DEF FrameKinds
<1>b. thePush \in FrameType /\ NamesAnOwner(thePush) BY <1>1, <1>5, DesktopFrames
<1>c. named \in FrameType /\ named.kind = "initialize" BY <1>a DEF D!Frame, FrameType
<1>d. failed \in FrameType /\ failed.kind = "response" BY <1>1, <1>a, DesktopFrames
<1>e. done \in FrameType /\ done.kind = "response" BY <1>1, <1>a, DesktopFrames
<1>f. a.kind \in {"owner", "any"} =>
        who \in FrameType /\ who.kind = a.kind /\ who.what = task.owner
  BY <1>a DEF D!Frame, FrameType
<1>g. /\ NamesAnOwner(named) /\ NamesAnOwner(failed) /\ NamesAnOwner(done)
      /\ a.kind \in {"owner", "any"} => NamesAnOwner(who)
  <2> HIDE DEF named, failed, done, who
  <2> QED BY <1>5, <1>c, <1>d, <1>e, <1>f DEF NamesAnOwner
<1>6. /\ a.kind = "initialize" => reply = <<named>>
      /\ a.kind \in {"owner", "any"} => reply = <<who>>
      /\ a.kind = "follow" => reply \in {<<thePush>>, <<>>}
      /\ a.kind = "load" => reply \in {<<failed>>, <<thePush, done>>, <<done, thePush>>}
  <2> HIDE DEF named, failed, done, who, thePush, found
  <2>1. replies =
          CASE a.kind = "initialize" -> {<<named>>}
            [] a.kind \in {"owner", "any"} -> {<<who>>}
            [] a.kind = "follow" -> {IF found THEN <<thePush>> ELSE <<>>}
            [] a.kind = "load" -> IF ~found THEN {<<failed>>}
                                  ELSE {<<thePush, done>>, <<done, thePush>>}
    BY DEF replies, named, failed, done, who, thePush
  <2>2. a.kind = "initialize" => replies = {<<named>>} BY <2>1
  <2>3. a.kind \in {"owner", "any"} => replies = {<<who>>} BY <2>1
  <2>4. a.kind = "follow" => replies = {IF found THEN <<thePush>> ELSE <<>>} BY <2>1
  <2>5. a.kind = "load" => replies = IF ~found THEN {<<failed>>}
                                     ELSE {<<thePush, done>>, <<done, thePush>>}
    BY <2>1
  <2> QED BY <1>4, <2>2, <2>3, <2>4, <2>5
<1> HIDE DEF named, failed, done, who, thePush, found
<1>7. /\ reply \in Seq(FrameType) /\ Len(reply) \in Nat /\ Len(reply) <= 2
      /\ \A i \in 1 .. Len(reply) : NamesAnOwner(reply[i])
  <2>1. CASE a.kind = "initialize" BY <1>6, <1>c, <1>g, <2>1, FewFrames
  <2>2. CASE a.kind \in {"owner", "any"} BY <1>6, <1>f, <1>g, <2>2, FewFrames
  <2>3. CASE a.kind = "follow" BY <1>6, <1>b, <2>3, FewFrames
  <2>4. CASE a.kind = "load" BY <1>6, <1>b, <1>d, <1>e, <1>g, <2>4, FewFrames
  <2> QED BY <1>3, <2>1, <2>2, <2>3, <2>4
<1>8. /\ wire[a.on] \in Seq(FrameType) /\ Len(wire[a.on]) < MaxFrames
      /\ \A i \in 1 .. Len(wire[a.on]) : NamesAnOwner(wire[a.on][i])
  BY <1>1, <1>3 DEF NetOK, D!Answers, D!Room
<1>9. /\ wire[a.on] \o reply \in Seq(FrameType) /\ Len(wire[a.on] \o reply) <= MaxFrames + 1
      /\ \A i \in 1 .. Len(wire[a.on] \o reply) : NamesAnOwner((wire[a.on] \o reply)[i])
  BY <1>7, <1>8 DEF DesktopBounds
<1>10. /\ wire' \in [DesktopConnections -> Seq(FrameType)]
       /\ \A c \in DesktopConnections : Len(wire'[c]) <= MaxFrames + 1
       /\ \A c \in DesktopConnections : \A i \in 1 .. Len(wire'[c]) : NamesAnOwner(wire'[c][i])
  BY <1>1, <1>3, <1>4, <1>9 DEF NetOK
<1>11. desktopAsked' \subseteq desktopAsked BY DEF D!Answers
<1>12. NetOK' BY <1>1, <1>2, <1>10, <1>11 DEF NetOK
<1>13. WaitersOK' /\ CacheOK' BY <1>1, <1>2, WaitersKept, CacheKept DEF WaitersOK
<1> QED BY <1>12, <1>13 DEF DesktopInv

LEMMA DesktopUpdates ==
  ASSUME DesktopBounds, DesktopInv, D!Updates PROVE DesktopInv'
<1>1. NetOK /\ WaitersOK /\ CacheOK BY DEF DesktopInv
<1>2. UNCHANGED <<connection, clientID, connectionGeneration, socket, taskOwner, cache, observer,
                  waiters, waiterChannels, desktopAsked, pushed>>
  BY DEF D!Updates, D!link
<1>3. /\ desktopLeft' \in [calls : Nat, updates : Nat, moves : Nat, breaks : Nat,
                            timeouts : Nat, numeric : BOOLEAN, passive : SUBSET Observers]
      /\ desktopLeft'.passive = desktopLeft.passive
  BY <1>1, DesktopSpends DEF D!Updates
<1>4. task' \in [owner : Owners, revision : Nat] /\ task.revision + 1 \in Nat /\ task.owner \in Owners
  <2>1. task \in [owner : Owners, revision : Nat] BY <1>1 DEF NetOK
  <2>2. task.revision \in Nat /\ task.owner \in Owners BY <2>1
  <2>3. task' = [task EXCEPT !.revision = task.revision + 1] BY DEF D!Updates
  <2>4. task.revision + 1 \in Nat BY <2>2
  <2> QED BY <2>1, <2>2, <2>3, <2>4
<1>5. PICK f \in {D!Push(task.revision + 1), D!Frame("change", task.owner, "state")} :
        wire' = [c \in DesktopConnections |->
                   IF c \in follows /\ D!Room(c) THEN Append(wire[c], f) ELSE wire[c]]
  BY DEF D!Updates
<1>6. f \in FrameType /\ NamesAnOwner(f)
  <2>1. CASE f = D!Push(task.revision + 1) BY <1>1, <1>4, <2>1, DesktopFrames
  <2>2. CASE f = D!Frame("change", task.owner, "state")
    BY <1>1, <1>4, <2>2, DesktopFrames DEF NamesAnOwner, FrameKinds
  <2> QED BY <1>5, <2>1, <2>2
<1>7. ASSUME NEW c \in DesktopConnections
      PROVE  /\ wire'[c] \in Seq(FrameType) /\ Len(wire'[c]) <= MaxFrames + 1
             /\ \A i \in 1 .. Len(wire'[c]) : NamesAnOwner(wire'[c][i])
  <2>1. /\ wire[c] \in Seq(FrameType) /\ Len(wire[c]) <= MaxFrames + 1
        /\ \A i \in 1 .. Len(wire[c]) : NamesAnOwner(wire[c][i])
    BY <1>1 DEF NetOK
  <2>2. CASE wire'[c] = wire[c] BY <2>1, <2>2
  <2>3. CASE wire'[c] = Append(wire[c], f) /\ Len(wire[c]) < MaxFrames
    BY <1>6, <2>1, <2>3 DEF DesktopBounds
  <2> QED BY <1>5, <2>2, <2>3 DEF D!Room
<1>8. wire' \in [DesktopConnections -> Seq(FrameType)] BY <1>5, <1>7
<1>9. NetOK' BY <1>1, <1>2, <1>3, <1>4, <1>7, <1>8 DEF NetOK
<1>10. WaitersOK' /\ CacheOK' BY <1>1, <1>2, <1>3, WaitersKept, CacheKept DEF WaitersOK
<1> QED BY <1>9, <1>10 DEF DesktopInv

LEMMA DesktopMoves ==
  ASSUME DesktopInv, D!Moves PROVE DesktopInv'
<1>1. NetOK /\ WaitersOK /\ CacheOK BY DEF DesktopInv
<1>2. UNCHANGED <<connection, clientID, connectionGeneration, socket, wire, taskOwner, cache,
                  observer, waiters, waiterChannels, desktopAsked, pushed>>
  BY DEF D!Moves, D!link
<1>3. /\ desktopLeft' \in [calls : Nat, updates : Nat, moves : Nat, breaks : Nat,
                            timeouts : Nat, numeric : BOOLEAN, passive : SUBSET Observers]
      /\ desktopLeft'.passive = desktopLeft.passive
  BY <1>1, DesktopSpends DEF D!Moves
<1>4. task' \in [owner : Owners, revision : Nat] BY <1>1 DEF D!Moves, NetOK
<1>5. NetOK' BY <1>1, <1>2, <1>3, <1>4 DEF NetOK
<1>6. WaitersOK' /\ CacheOK' BY <1>1, <1>2, <1>3, WaitersKept, CacheKept DEF WaitersOK
<1> QED BY <1>5, <1>6 DEF DesktopInv

LEMMA DesktopNext ==
  ASSUME DesktopBounds, DesktopInv, [D!Next]_(D!vars) PROVE DesktopInv'
<1>1. ASSUME NEW o \in Observers, D!ObserverSteps(o) PROVE DesktopInv'
  BY <1>1, DesktopObserve, DesktopProbe, DesktopStarts, DesktopDial, DesktopNotNamed,
     DesktopAskOwner, DesktopOwnerFound, DesktopLoad, DesktopLoaded, DesktopSnapshotRead,
     DesktopTimesOut, DesktopGivesUp, DesktopEnds DEF D!ObserverSteps
<1>2. ASSUME NEW c \in DesktopConnections, D!ReaderSteps(c) \/ D!Breaks(c) PROVE DesktopInv'
  BY <1>2, DesktopReadResponse, DesktopReadPush, DesktopReadChange, DesktopConnectionEnded,
     DesktopBreaks DEF D!ReaderSteps
<1>3. CASE UNCHANGED D!vars
  <2>1. UNCHANGED <<connection, clientID, connectionGeneration, socket, wire, taskOwner, cache,
                    observer, waiters, waiterChannels, desktopAsked, task, pushed, desktopLeft>>
    BY <1>3 DEF D!vars
  <2>2. NetOK' BY <2>1 DEF DesktopInv, NetOK
  <2>3. WaitersOK' /\ CacheOK' BY <2>1, WaitersKept, CacheKept DEF DesktopInv, WaitersOK
  <2> QED BY <2>2, <2>3 DEF DesktopInv
<1> QED BY <1>1, <1>2, <1>3, DesktopRefresh, DesktopAnswers, DesktopUpdates, DesktopMoves
        DEF D!Next

LEMMA DesktopTyped == DesktopInv => D!TypeOK
<1> SUFFICES ASSUME DesktopInv PROVE D!TypeOK
  OBVIOUS
<1>1. connection \in DesktopConnections \cup {0} /\ taskOwner \in OwnerOrNone
  BY DEF DesktopInv, NetOK
<1>2. \A c \in DesktopConnections : /\ socket[c] \in {"none", "open", "broken", "closed"}
                                    /\ Len(wire[c]) <= MaxFrames + 1
  BY DEF DesktopInv, NetOK
<1>3. \A o \in Observers : \A w \in waiters : w.by = o => observer[o].pc \in Asking
  BY DEF DesktopInv, WaitersOK
<1> QED BY <1>1, <1>2, <1>3 DEF D!TypeOK, OwnerOrNone, D!NoConnection, Asking

\* The snapshots of Codex Desktop (DesktopTasks): no sender ever waits at a channel, and an entry
\* of the cache that is being read has somebody who reads it, however connections break, owners
\* move and observations end in between.
THEOREM NoObserverBlocks ==
  ASSUME DesktopBounds
  PROVE  D!Spec => [](D!TypeOK /\ D!NobodyBlocks /\ D!ReadingEnds)
<1>1. D!Init => DesktopInv BY DesktopStart
<1>2. DesktopInv /\ [D!Next]_(D!vars) => DesktopInv' BY DesktopNext
<1>3. DesktopInv => D!TypeOK /\ D!NobodyBlocks /\ D!ReadingEnds
  BY DesktopTyped DEF DesktopInv, WaitersOK, CacheOK
<1> QED BY <1>1, <1>2, <1>3, PTL DEF D!Spec

\* The components that face somebody else keep what their promises rest on: their types, one
\* answer to a call of Codex and to a request of its, no observer of a task that waits for
\* ever or holds somebody up, and memory for what is uploaded and for nothing else.
THEOREM ConnectionsStaySound ==
  ASSUME ProcessesAreNumbered, CodexBounds, DesktopBounds, SnapshotsBounds, UploadsBounds
  PROVE  X!Spec /\ D!Spec /\ S!Spec /\ U!Spec => []ConnectionsSound
<1>1. X!Spec => []X!TypeOK BY ClientIsTyped
<1>2. X!Spec => []X!HandedOnce BY NobodyWaitsAtAChannel
<1>3. X!Spec => []X!AnsweredOnce BY InputsAreAnsweredOnce
<1>4. D!Spec => [](D!TypeOK /\ D!NobodyBlocks /\ D!ReadingEnds) BY NoObserverBlocks
<1>5. S!Spec => []S!TypeOK BY SnapshotsAreTyped
<1>6. U!Spec => [](U!TypeOK /\ U!MemoryIsHeld) BY UploadMemoryIsHeld
<1>7. /\ X!TypeOK /\ X!HandedOnce /\ X!AnsweredOnce
      /\ D!TypeOK /\ D!NobodyBlocks /\ D!ReadingEnds
      /\ S!TypeOK /\ U!TypeOK /\ U!MemoryIsHeld
      => ConnectionsSound
  BY DEF ConnectionsSound
<1> QED BY <1>1, <1>2, <1>3, <1>4, <1>5, <1>6, <1>7, PTL
==============================================================================
