----------------------------- MODULE ActionLocks -----------------------------
(* The locks by which the inbound runtime keeps two actions off one conversation or task:  *)
(* a map of mutexes, made when the first call asks for a key and dropped with its last     *)
(* user (integration/action_locks.go).                                                     *)
EXTENDS Integers, FiniteSets

CONSTANTS
  Calls,    \* calls of lockActions; one may be made again after it has unlocked
  Keys,     \* conversations and tasks, in the order of their names
  Mutexes   \* the mutexes there may be at once


None == "none"

ASSUME ActionLocksAssumption ==
  Keys \subseteq Int /\ IsFiniteSet(Keys) /\ None \notin Calls /\ None \notin Mutexes

VARIABLES
  pc,           \* pc[c]: "idle", "locking", "inside", "unlocking"
  unique,       \* unique[c]: the keys of the call, each once
  locks,        \* locks[c][k]: the mutex the call found for a key
  actionLocks,  \* actionLocks[k]: the mutex of a key
  users,        \* users[m]: the calls that count on a mutex
  owner         \* owner[m]: the call that holds it

vars == <<pc, unique, locks, actionLocks, users, owner>>

NoLocks == [k \in Keys |-> None]

\* A mutex nobody counts on: a new one.
Unused(m) == users[m] = {}

Found(k) == actionLocks[k] # None

\* Under actionMu: every key has a mutex now, and counts this call.
Register(c, ks, found) ==
  /\ pc[c] = "idle" /\ ks # {}
  /\ \A k \in ks : IF Found(k) THEN found[k] = actionLocks[k] ELSE Unused(found[k])
  /\ \A k, l \in ks : k # l => found[k] # found[l]
  /\ pc' = [pc EXCEPT ![c] = "locking"]
  /\ unique' = [unique EXCEPT ![c] = ks]
  /\ locks' = [locks EXCEPT ![c] = [k \in Keys |-> IF k \in ks THEN found[k] ELSE None]]
  /\ actionLocks' = [k \in Keys |-> IF k \in ks THEN found[k] ELSE actionLocks[k]]
  /\ users' = [m \in Mutexes |-> IF \E k \in ks : found[k] = m THEN users[m] \cup {c}
                                 ELSE users[m]]
  /\ UNCHANGED owner

Held(c) == {k \in unique[c] : owner[locks[c][k]] = c}

\* Mutant: the keys are not sorted.
AnyOrder(c, k) == k \in unique[c] \ Held(c)

\* The keys are sorted, and taken in that order.
InOrder(c, k) ==
  /\ k \in unique[c] \ Held(c)
  /\ \A l \in unique[c] \ Held(c) : k <= l

Lock(c, k) ==
  /\ pc[c] = "locking" /\ InOrder(c, k) /\ owner[locks[c][k]] = None
  /\ owner' = [owner EXCEPT ![locks[c][k]] = c]
  /\ pc' = [pc EXCEPT ![c] = IF unique[c] \ Held(c) = {k} THEN "inside" ELSE "locking"]
  /\ UNCHANGED <<unique, locks, actionLocks, users>>

\* The work is done: the mutexes are unlocked, last first.
Unlock(c, k) ==
  /\ pc[c] \in {"inside", "unlocking"} /\ k \in Held(c) /\ \A l \in Held(c) : l <= k
  /\ owner' = [owner EXCEPT ![locks[c][k]] = None]
  /\ pc' = [pc EXCEPT ![c] = "unlocking"]
  /\ UNCHANGED <<unique, locks, actionLocks, users>>

\* Mutant: the key leaves the map whoever counts on its mutex.
Forgotten(c, k) == k \in unique[c]

LastUser(c, k) == k \in unique[c] /\ users[locks[c][k]] = {c}

\* Under actionMu again: who counts on nothing any more takes its key out of the map.
Release(c) ==
  /\ pc[c] = "unlocking" /\ Held(c) = {}
  /\ pc' = [pc EXCEPT ![c] = "idle"]
  /\ users' = [m \in Mutexes |-> users[m] \ {c}]
  /\ actionLocks' = [k \in Keys |-> IF LastUser(c, k) THEN None ELSE actionLocks[k]]
  /\ unique' = [unique EXCEPT ![c] = {}]
  /\ locks' = [locks EXCEPT ![c] = NoLocks]
  /\ UNCHANGED owner

------------------------------------------------------------------------------
Init ==
  /\ pc = [c \in Calls |-> "idle"]
  /\ unique = [c \in Calls |-> {}]
  /\ locks = [c \in Calls |-> NoLocks]
  /\ actionLocks = NoLocks
  /\ users = [m \in Mutexes |-> {}]
  /\ owner = [m \in Mutexes |-> None]

Next == \E c \in Calls :
  \/ \E ks \in SUBSET Keys : \E found \in [ks -> Mutexes] : Register(c, ks, found)
  \/ \E k \in Keys : Lock(c, k) \/ Unlock(c, k)
  \/ Release(c)

Spec == Init /\ [][Next]_vars

------------------------------------------------------------------------------
TypeOK ==
  /\ pc \in [Calls -> {"idle", "locking", "inside", "unlocking"}]
  /\ unique \in [Calls -> SUBSET Keys]
  /\ locks \in [Calls -> [Keys -> Mutexes \cup {None}]]
  /\ actionLocks \in [Keys -> Mutexes \cup {None}]
  /\ users \in [Mutexes -> SUBSET Calls]
  /\ owner \in [Mutexes -> Calls \cup {None}]

\* While a call is inside, no other call is inside for one of its keys, even when the mutex
\* of the key was dropped and made anew meanwhile.
LocksExclude ==
  \A c, d \in Calls :
    (c # d /\ pc[c] = "inside" /\ pc[d] = "inside") => unique[c] \cap unique[d] = {}

\* Calls of several keys never all wait on each other: while one waits, some call is inside,
\* unlocks, or finds the next mutex it needs free.
LocksAdvance ==
  (\E c \in Calls : pc[c] = "locking") =>
    \E d \in Calls :
      \/ pc[d] \in {"inside", "unlocking"}
      \/ pc[d] = "locking" /\ \E k \in Keys : InOrder(d, k) /\ owner[locks[d][k]] = None
=============================================================================
