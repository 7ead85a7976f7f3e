--------------------------- MODULE ComponentProofs ---------------------------
(* Theorems about four components that share no state: the action locks, for any calls,  *)
(* keys and mutexes, and, as the instances of StoredState, the application the child is   *)
(* connected with, the store of the reports of KSF tasks, and the governed operations of  *)
(* the child's capabilities.                                                              *)
EXTENDS ActionLocks, StoredState, Sequences, FiniteSetTheorems, TLAPS

(* The action locks. A mutex that a call counts on stays the mutex of its key until the
   call has released it, so two calls of one key wait for the same mutex whatever was
   dropped and made anew meanwhile. *)

\* A call's mutexes are those of the map, and count it.
Counted ==
  \A c \in Calls : \A k \in unique[c] :
    locks[c][k] = actionLocks[k] /\ locks[c][k] \in Mutexes /\ c \in users[locks[c][k]]

IdleHasNoKeys == \A c \in Calls : pc[c] = "idle" => unique[c] = {}

OwnMutex == \A k, l \in Keys : (Found(k) /\ actionLocks[k] = actionLocks[l]) => k = l

\* A mutex of the map counts somebody, and what counts a call is one of its mutexes.
InUse == \A k \in Keys : Found(k) => users[actionLocks[k]] # {}

UsersHaveKeys ==
  \A m \in Mutexes : \A c \in users[m] : \E k \in unique[c] : locks[c][k] = m

InsideOwns == \A c \in Calls : pc[c] = "inside" => \A k \in unique[c] : owner[locks[c][k]] = c

IInv == TypeOK /\ Counted /\ IdleHasNoKeys /\ OwnMutex /\ InUse /\ UsersHaveKeys /\ InsideOwns

LEMMA InitIInv == Init => IInv
BY DEF Init, IInv, TypeOK, Counted, IdleHasNoKeys, OwnMutex, InUse, UsersHaveKeys, InsideOwns,
       NoLocks, Found

\* The map after a registration: new mutexes are those nobody counted on.
LEMMA RegisterKeeps ==
  ASSUME IInv, NEW c \in Calls, NEW ks \in SUBSET Keys, NEW found \in [ks -> Mutexes],
         Register(c, ks, found)
  PROVE  IInv'
<1> USE ActionLocksAssumption DEF IInv
<1>1. TypeOK' BY DEF TypeOK, Register
<1>2. unique[c] = {} BY DEF IdleHasNoKeys, Register
<1>3. \A k \in Keys : /\ k \in ks => actionLocks'[k] = found[k]
                      /\ (k \notin ks \/ Found(k)) => actionLocks'[k] = actionLocks[k]
  BY DEF Register, TypeOK, Found
<1>4. \A m \in Mutexes : /\ users[m] \subseteq users'[m]
                         /\ \A d \in Calls : d # c => (d \in users'[m] <=> d \in users[m])
                         /\ c \in users'[m] <=> (c \in users[m] \/ \E k \in ks : found[k] = m)
  BY DEF Register, TypeOK
<1>5. /\ unique'[c] = ks /\ \A k \in ks : locks'[c][k] = found[k]
      /\ \A d \in Calls : d # c => unique'[d] = unique[d] /\ locks'[d] = locks[d]
  BY DEF Register, TypeOK
<1>6. ASSUME NEW d \in Calls, NEW k \in unique'[d]
      PROVE  /\ locks'[d][k] = actionLocks'[k] /\ locks'[d][k] \in Mutexes
             /\ d \in users'[locks'[d][k]]
  <2>1. CASE d = c BY <2>1, <1>3, <1>4, <1>5, <1>6
  <2>2. CASE d # c
    <3>1. k \in unique[d] /\ k \in Keys /\ locks[d][k] = actionLocks[k]
      BY <2>2, <1>5, <1>6 DEF Counted, TypeOK
    <3>2. Found(k) /\ locks[d][k] \in Mutexes /\ d \in users[locks[d][k]]
      BY <3>1 DEF Counted, Found
    <3> QED BY <2>2, <3>1, <3>2, <1>3, <1>4, <1>5
  <2> QED BY <2>1, <2>2
<1>7. Counted' BY <1>6 DEF Counted
<1>8. IdleHasNoKeys' BY DEF IdleHasNoKeys, Register, TypeOK
<1>9. \A k \in ks : Found(k) \/ users[found[k]] = {} BY DEF Register, Unused
<1>10. ASSUME NEW k \in Keys, NEW l \in Keys, actionLocks'[k] # None,
              actionLocks'[k] = actionLocks'[l]
       PROVE  k = l
  <2>1. CASE k \in ks /\ l \in ks BY <2>1, <1>3, <1>10 DEF Register
  <2>2. CASE k \in ks /\ l \notin ks
    <3>1. Found(l) /\ found[k] = actionLocks[l] BY <2>2, <1>3, <1>10 DEF Found
    <3>2. Found(k) BY <2>2, <3>1, <1>9 DEF InUse
    <3> QED BY <2>2, <3>1, <3>2, <1>3 DEF OwnMutex
  <2>3. CASE k \notin ks /\ l \in ks
    <3>1. Found(k) /\ found[l] = actionLocks[k] BY <2>3, <1>3, <1>10 DEF Found
    <3>2. Found(l) BY <2>3, <3>1, <1>9 DEF InUse
    <3> QED BY <2>3, <3>1, <3>2, <1>3 DEF OwnMutex
  <2>4. CASE k \notin ks /\ l \notin ks BY <2>4, <1>3, <1>10 DEF OwnMutex, Found
  <2> QED BY <2>1, <2>2, <2>3, <2>4
<1>11. OwnMutex' BY <1>10 DEF OwnMutex, Found
<1>12. ASSUME NEW k \in Keys, actionLocks'[k] # None
       PROVE  users'[actionLocks'[k]] # {}
  <2>1. CASE k \in ks BY <2>1, <1>3, <1>4
  <2>2. CASE k \notin ks
    <3>1. Found(k) /\ actionLocks'[k] = actionLocks[k] /\ actionLocks[k] \in Mutexes
      BY <2>2, <1>3, <1>12 DEF Found, TypeOK
    <3> QED BY <3>1, <1>4 DEF InUse
  <2> QED BY <2>1, <2>2
<1>13. InUse' BY <1>12 DEF InUse, Found
<1>14. ASSUME NEW m \in Mutexes, NEW d \in users'[m]
       PROVE  \E k \in unique'[d] : locks'[d][k] = m
  <2>1. d \in Calls BY <1>1, <1>14 DEF TypeOK
  <2>2. CASE d # c BY <2>1, <2>2, <1>4, <1>5, <1>14 DEF UsersHaveKeys
  <2>3. CASE d = c
    <3>1. c \notin users[m] BY <1>2 DEF UsersHaveKeys
    <3> QED BY <2>3, <3>1, <1>4, <1>5, <1>14
  <2> QED BY <2>2, <2>3
<1>15. UsersHaveKeys' BY <1>14 DEF UsersHaveKeys
<1>16. InsideOwns' BY <1>5 DEF InsideOwns, Register, TypeOK
<1> QED BY <1>1, <1>7, <1>8, <1>11, <1>13, <1>15, <1>16

\* What a call locks was free, so whoever is inside keeps what it owns.
LEMMA LockKeeps ==
  ASSUME IInv, NEW c \in Calls, NEW k \in Keys, Lock(c, k)
  PROVE  IInv'
<1> USE ActionLocksAssumption DEF IInv
<1>1. k \in unique[c] /\ locks[c][k] \in Mutexes BY DEF Lock, InOrder, Counted
<1>2. TypeOK' BY <1>1 DEF TypeOK, Lock
<1>3. Counted' /\ OwnMutex' /\ InUse' /\ UsersHaveKeys'
  BY DEF Counted, OwnMutex, InUse, UsersHaveKeys, Found, Lock
<1>4. IdleHasNoKeys' BY DEF IdleHasNoKeys, Lock, TypeOK
<1>5. \A m \in Mutexes : owner'[m] = IF m = locks[c][k] THEN c ELSE owner[m] BY DEF Lock, TypeOK
<1>6. ASSUME NEW d \in Calls, pc'[d] = "inside", NEW l \in unique[d]
      PROVE  owner'[locks[d][l]] = d
  <2>1. locks[d][l] \in Mutexes BY DEF Counted
  <2>2. CASE d = c
    <3>1. unique[c] \ Held(c) = {k} BY <2>2, <1>6 DEF Lock, TypeOK
    <3>2. l = k \/ owner[locks[c][l]] = c BY <3>1, <2>2 DEF Held
    <3> QED BY <3>2, <2>1, <2>2, <1>5
  <2>3. CASE d # c
    <3>1. owner[locks[d][l]] = d BY <2>3, <1>6 DEF Lock, TypeOK, InsideOwns
    <3> QED BY <3>1, <2>1, <1>5 DEF Lock
  <2> QED BY <2>2, <2>3
<1>7. InsideOwns' BY <1>6 DEF InsideOwns, Lock
<1> QED BY <1>2, <1>3, <1>4, <1>7

\* A call only unlocks what it owns.
LEMMA UnlockKeeps ==
  ASSUME IInv, NEW c \in Calls, NEW k \in Keys, Unlock(c, k)
  PROVE  IInv'
<1> USE ActionLocksAssumption DEF IInv
<1>1. k \in unique[c] /\ locks[c][k] \in Mutexes /\ owner[locks[c][k]] = c
  BY DEF Unlock, Held, Counted
<1>2. TypeOK' BY <1>1 DEF TypeOK, Unlock
<1>3. UNCHANGED <<unique, locks, actionLocks, users>> BY DEF Unlock
<1>4. Counted' /\ OwnMutex' /\ InUse' /\ UsersHaveKeys'
  BY <1>3 DEF Counted, OwnMutex, InUse, UsersHaveKeys, Found
<1>5. IdleHasNoKeys' BY DEF IdleHasNoKeys, Unlock, TypeOK
<1>6. ASSUME NEW d \in Calls, pc'[d] = "inside", NEW l \in unique[d]
      PROVE  owner'[locks[d][l]] = d
  <2>1. d # c /\ pc[d] = "inside" BY <1>6 DEF Unlock, TypeOK
  <2>2. owner[locks[d][l]] = d /\ locks[d][l] \in Mutexes BY <2>1 DEF InsideOwns, Counted
  <2> QED BY <1>1, <2>1, <2>2 DEF Unlock, TypeOK
<1>7. InsideOwns' BY <1>6 DEF InsideOwns, Unlock
<1> QED BY <1>2, <1>4, <1>5, <1>7

\* A key leaves the map only when nobody else counts on its mutex.
LEMMA ReleaseKeeps ==
  ASSUME IInv, NEW c \in Calls, Release(c)
  PROVE  IInv'
<1> USE ActionLocksAssumption DEF IInv
<1>1. TypeOK' BY DEF TypeOK, Release, NoLocks
<1>2. /\ unique'[c] = {} /\ pc'[c] = "idle"
      /\ \A d \in Calls : d # c => /\ unique'[d] = unique[d] /\ locks'[d] = locks[d]
                                   /\ pc'[d] = pc[d]
  BY DEF Release, TypeOK
<1>3. \A m \in Mutexes : users'[m] = users[m] \ {c} BY DEF Release, TypeOK
<1>4. \A k \in Keys : actionLocks'[k] = IF LastUser(c, k) THEN None ELSE actionLocks[k]
  BY DEF Release, TypeOK
<1>5. ASSUME NEW d \in Calls, NEW k \in unique'[d]
      PROVE  /\ locks'[d][k] = actionLocks'[k] /\ locks'[d][k] \in Mutexes
             /\ d \in users'[locks'[d][k]]
  <2>1. d # c /\ k \in unique[d] /\ k \in Keys BY <1>2, <1>5 DEF TypeOK
  <2>2. locks[d][k] = actionLocks[k] /\ locks[d][k] \in Mutexes /\ d \in users[locks[d][k]]
    BY <2>1 DEF Counted
  <2>3. ~LastUser(c, k) BY <2>1, <2>2 DEF LastUser, Counted
  <2> QED BY <2>1, <2>2, <2>3, <1>2, <1>3, <1>4
<1>6. Counted' BY <1>5 DEF Counted
<1>7. IdleHasNoKeys' BY <1>2 DEF IdleHasNoKeys
<1>8. OwnMutex' BY <1>4 DEF OwnMutex, Found
<1>9. ASSUME NEW k \in Keys, actionLocks'[k] # None
      PROVE  users'[actionLocks'[k]] # {}
  <2>1. /\ actionLocks'[k] = actionLocks[k] /\ Found(k) /\ ~LastUser(c, k)
        /\ actionLocks[k] \in Mutexes
    BY <1>4, <1>9 DEF Found, TypeOK
  <2>2. users[actionLocks[k]] # {} BY <2>1 DEF InUse
  <2>3. users[actionLocks[k]] # {c}
    <3>1. SUFFICES ASSUME users[actionLocks[k]] = {c} PROVE FALSE
      OBVIOUS
    <3>2. PICK l \in unique[c] : locks[c][l] = actionLocks[k] BY <2>1, <3>1 DEF UsersHaveKeys
    <3>3. l \in Keys /\ actionLocks[l] = actionLocks[k] BY <3>2 DEF Counted, TypeOK
    <3>4. l = k BY <2>1, <3>3 DEF OwnMutex
    <3> QED BY <2>1, <3>1, <3>2, <3>4 DEF LastUser
  <2> QED BY <2>1, <2>2, <2>3, <1>3
<1>10. InUse' BY <1>9 DEF InUse, Found
<1>11. ASSUME NEW m \in Mutexes, NEW d \in users'[m]
       PROVE  \E k \in unique'[d] : locks'[d][k] = m
  <2>1. d # c /\ d \in users[m] /\ d \in Calls BY <1>3, <1>11 DEF TypeOK
  <2> QED BY <2>1, <1>2 DEF UsersHaveKeys
<1>12. UsersHaveKeys' BY <1>11 DEF UsersHaveKeys
<1>13. InsideOwns' BY <1>2 DEF InsideOwns, Release
<1> QED BY <1>1, <1>6, <1>7, <1>8, <1>10, <1>12, <1>13

LEMMA NextIInv == IInv /\ [Next]_vars => IInv'
<1> SUFFICES ASSUME IInv, [Next]_vars PROVE IInv'
  OBVIOUS
<1>1. CASE UNCHANGED vars
  BY <1>1 DEF IInv, TypeOK, Counted, IdleHasNoKeys, OwnMutex, InUse, UsersHaveKeys,
              InsideOwns, Found, vars
<1>2. CASE Next BY <1>2, RegisterKeeps, LockKeeps, UnlockKeeps, ReleaseKeeps DEF Next
<1> QED BY <1>1, <1>2

\* Two calls inside for one key own one mutex: they are one call.
LEMMA IInvExcludes == IInv => LocksExclude
BY DEF IInv, LocksExclude, Counted, InsideOwns

(* Waiting. The calls that wait for the greatest key anybody waits for wait for one whose   *)
(* holder waits for nothing: keys are taken in their order.                                  *)

\* A finite set of integers has a greatest element.
LEMMA GreatestKey ==
  ASSUME NEW Ks \in SUBSET Int, IsFiniteSet(Ks), Ks # {}
  PROVE  \E m \in Ks : \A n \in Ks : n <= m
<1> DEFINE Above(k) == {l \in Ks : l > k}
           T == {Above(k) : k \in Ks}
<1>0. \A k \in Ks : Above(k) \in FiniteSubsetsOf(Ks)
  <2> TAKE k \in Ks
  <2>1. Above(k) \subseteq Ks
    OBVIOUS
  <2> HIDE DEF Above
  <2>2. IsFiniteSet(Above(k)) BY <2>1, FS_Subset
  <2> QED BY <2>1, <2>2 DEF FiniteSubsetsOf
<1>1. T \subseteq FiniteSubsetsOf(Ks) /\ T # {}
  <2> HIDE DEF Above
  <2> QED BY <1>0
<1>2. PICK B \in T : \A C \in T : <<C, B>> \notin StrictSubsetOrdering(Ks)
  <2> HIDE DEF T
  <2> QED BY <1>1, FS_StrictSubsetOrderingWellFounded, WFMin
<1>3. PICK m \in Ks : B = Above(m) BY <1>2
<1>4. ASSUME NEW n \in Ks, ~(n <= m) PROVE FALSE
  <2>1. m \in Int /\ n \in Int /\ Ks \subseteq Int
    OBVIOUS
  <2>2. n \in Above(m) /\ n \notin Above(n) BY <2>1, <1>4
  <2>3. \A l \in Ks : l > n => l > m BY <2>1, <1>4
  <2>4. Above(n) \subseteq Above(m) /\ Above(n) \subseteq Ks /\ Above(m) \subseteq Ks BY <2>3
  <2>5. <<Above(n), Above(m)>> \in StrictSubsetOrdering(Ks)
    <3> HIDE DEF Above
    <3> QED BY <2>2, <2>4 DEF StrictSubsetOrdering
  <2> QED BY <1>2, <1>3, <2>5
<1> QED BY <1>4

\* And a least one.
LEMMA LeastKey ==
  ASSUME NEW Ks \in SUBSET Int, IsFiniteSet(Ks), Ks # {}
  PROVE  \E m \in Ks : \A n \in Ks : m <= n
<1> DEFINE Below(k) == {l \in Ks : l < k}
           T == {Below(k) : k \in Ks}
<1>0. \A k \in Ks : Below(k) \in FiniteSubsetsOf(Ks)
  <2> TAKE k \in Ks
  <2>1. Below(k) \subseteq Ks
    OBVIOUS
  <2> HIDE DEF Below
  <2>2. IsFiniteSet(Below(k)) BY <2>1, FS_Subset
  <2> QED BY <2>1, <2>2 DEF FiniteSubsetsOf
<1>1. T \subseteq FiniteSubsetsOf(Ks) /\ T # {}
  <2> HIDE DEF Below
  <2> QED BY <1>0
<1>2. PICK B \in T : \A C \in T : <<C, B>> \notin StrictSubsetOrdering(Ks)
  <2> HIDE DEF T
  <2> QED BY <1>1, FS_StrictSubsetOrderingWellFounded, WFMin
<1>3. PICK m \in Ks : B = Below(m) BY <1>2
<1>4. ASSUME NEW n \in Ks, ~(m <= n) PROVE FALSE
  <2>1. m \in Int /\ n \in Int /\ Ks \subseteq Int
    OBVIOUS
  <2>2. n \in Below(m) /\ n \notin Below(n) BY <2>1, <1>4
  <2>3. \A l \in Ks : l < n => l < m BY <2>1, <1>4
  <2>4. Below(n) \subseteq Below(m) /\ Below(n) \subseteq Ks /\ Below(m) \subseteq Ks BY <2>3
  <2>5. <<Below(n), Below(m)>> \in StrictSubsetOrdering(Ks)
    <3> HIDE DEF Below
    <3> QED BY <2>2, <2>4 DEF StrictSubsetOrdering
  <2> QED BY <1>2, <1>3, <2>5
<1> QED BY <1>4

Wanted(c) == unique[c] \ Held(c)

\* A call that locks still wants a key, and all it wants comes after all it holds.
Ascends ==
  \A c \in Calls : pc[c] = "locking" =>
    Wanted(c) # {} /\ \A k \in Held(c), l \in Wanted(c) : k < l

\* A mutex is held for a key of the call that holds it.
HeldForKey ==
  \A m \in Mutexes : owner[m] # None => \E k \in unique[owner[m]] : locks[owner[m]][k] = m

AInv == IInv /\ Ascends /\ HeldForKey

LEMMA InitAInv == Init => AInv
BY InitIInv DEF Init, AInv, Ascends, HeldForKey

\* What a call holds and wants depends on its own keys and on the mutexes it holds.
LEMMA SameHeld ==
  ASSUME IInv, NEW d \in Calls, unique'[d] = unique[d], locks'[d] = locks[d],
         \A m \in Mutexes : owner'[m] = d <=> owner[m] = d
  PROVE  Held(d)' = Held(d) /\ Wanted(d)' = Wanted(d)
<1>1. \A k \in unique[d] : locks[d][k] \in Mutexes BY DEF IInv, Counted
<1>2. Held(d)' = Held(d) BY <1>1 DEF Held
<1> QED BY <1>2 DEF Wanted

LEMMA RegisterAscends ==
  ASSUME AInv, NEW c \in Calls, NEW ks \in SUBSET Keys, NEW found \in [ks -> Mutexes],
         Register(c, ks, found)
  PROVE  Ascends' /\ HeldForKey'
<1> USE ActionLocksAssumption DEF AInv
<1>1. /\ unique'[c] = ks /\ ks # {} /\ unique[c] = {} /\ owner' = owner
      /\ \A d \in Calls : d # c => /\ unique'[d] = unique[d] /\ locks'[d] = locks[d]
                                   /\ pc'[d] = pc[d]
  BY DEF Register, IInv, TypeOK, IdleHasNoKeys
<1>2. \A k \in ks : locks'[c][k] \in Mutexes BY DEF Register, IInv, TypeOK
<1>3. \A m \in Mutexes : owner[m] # c BY <1>1 DEF HeldForKey
<1>4. Held(c)' = {} /\ Wanted(c)' = ks BY <1>1, <1>2, <1>3 DEF Held, Wanted
<1>5. ASSUME NEW d \in Calls, d # c PROVE Held(d)' = Held(d) /\ Wanted(d)' = Wanted(d)
  BY <1>1, <1>5, SameHeld
<1>6. ASSUME NEW d \in Calls, pc'[d] = "locking"
      PROVE  Wanted(d)' # {} /\ \A k \in Held(d)', l \in Wanted(d)' : k < l
  <2>1. CASE d = c BY <2>1, <1>1, <1>4
  <2>2. CASE d # c BY <2>2, <1>1, <1>5, <1>6 DEF Ascends
  <2> QED BY <2>1, <2>2
<1>7. Ascends' BY <1>6 DEF Ascends
<1>8. ASSUME NEW m \in Mutexes, owner[m] # None
      PROVE  \E k \in unique'[owner[m]] : locks'[owner[m]][k] = m
  <2>1. owner[m] \in Calls /\ owner[m] # c BY <1>3, <1>8 DEF IInv, TypeOK
  <2> QED BY <2>1, <1>1, <1>8 DEF HeldForKey
<1>9. HeldForKey' BY <1>1, <1>8 DEF HeldForKey
<1> QED BY <1>7, <1>9

LEMMA LockAscends ==
  ASSUME AInv, NEW c \in Calls, NEW k \in Keys, Lock(c, k)
  PROVE  Ascends' /\ HeldForKey'
<1> USE ActionLocksAssumption DEF AInv
<1>1. /\ k \in Wanted(c) /\ locks[c][k] \in Mutexes /\ owner[locks[c][k]] = None
      /\ \A l \in Wanted(c) : k <= l
  BY DEF Lock, InOrder, IInv, Counted, Wanted
<1>2. /\ unique' = unique /\ locks' = locks
      /\ \A m \in Mutexes : owner'[m] = IF m = locks[c][k] THEN c ELSE owner[m]
  BY DEF Lock, IInv, TypeOK
<1>3. ASSUME NEW l \in unique[c], locks[c][l] = locks[c][k] PROVE l = k
  <2>1. l \in Keys /\ k \in unique[c] /\ Found(l) /\ actionLocks[l] = actionLocks[k]
    BY <1>1, <1>3 DEF IInv, Counted, TypeOK, Found, Wanted
  <2> QED BY <2>1 DEF IInv, OwnMutex
<1>4. Held(c)' = Held(c) \cup {k}
  <2>1. \A l \in unique[c] : locks[c][l] \in Mutexes BY DEF IInv, Counted
  <2>2. ASSUME NEW l \in unique[c]
        PROVE  owner'[locks[c][l]] = c <=> owner[locks[c][l]] = c \/ l = k
    BY <2>1, <1>2, <1>3, <1>1
  <2> QED BY <2>2, <1>1, <1>2 DEF Held, Wanted
<1>5. Wanted(c)' = Wanted(c) \ {k} BY <1>2, <1>4 DEF Wanted
<1>6. ASSUME NEW d \in Calls, d # c PROVE Held(d)' = Held(d) /\ Wanted(d)' = Wanted(d)
  BY <1>1, <1>2, <1>6, SameHeld
<1>7. ASSUME NEW d \in Calls, pc'[d] = "locking"
      PROVE  Wanted(d)' # {} /\ \A j \in Held(d)', l \in Wanted(d)' : j < l
  <2>1. CASE d = c
    <3>1. pc[c] = "locking" /\ Wanted(c) # {k} BY <2>1, <1>7 DEF Lock, IInv, TypeOK, Wanted
    <3>2. Held(c) \subseteq Int /\ Wanted(c) \subseteq Int BY DEF Held, Wanted, IInv, TypeOK
    <3> QED BY <2>1, <3>1, <3>2, <1>1, <1>4, <1>5 DEF Ascends
  <2>2. CASE d # c BY <2>2, <1>6, <1>7 DEF Ascends, Lock, IInv, TypeOK
  <2> QED BY <2>1, <2>2
<1>8. Ascends' BY <1>7 DEF Ascends
<1>9. HeldForKey' BY <1>1, <1>2 DEF HeldForKey, Wanted
<1> QED BY <1>8, <1>9

LEMMA UnlockAscends ==
  ASSUME AInv, NEW c \in Calls, NEW k \in Keys, Unlock(c, k)
  PROVE  Ascends' /\ HeldForKey'
<1> USE ActionLocksAssumption DEF AInv
<1>1. locks[c][k] \in Mutexes /\ owner[locks[c][k]] = c BY DEF Unlock, Held, IInv, Counted
<1>2. /\ unique' = unique /\ locks' = locks /\ pc'[c] = "unlocking"
      /\ \A m \in Mutexes : owner'[m] = IF m = locks[c][k] THEN None ELSE owner[m]
  BY DEF Unlock, IInv, TypeOK
<1>3. ASSUME NEW d \in Calls, pc'[d] = "locking"
      PROVE  Wanted(d)' # {} /\ \A j \in Held(d)', l \in Wanted(d)' : j < l
  <2>1. d # c /\ pc[d] = "locking" BY <1>2, <1>3 DEF Unlock, IInv, TypeOK
  <2>2. Held(d)' = Held(d) /\ Wanted(d)' = Wanted(d) BY <2>1, <1>1, <1>2, SameHeld
  <2> QED BY <2>1, <2>2 DEF Ascends
<1>4. Ascends' BY <1>3 DEF Ascends
<1>5. HeldForKey' BY <1>2 DEF HeldForKey
<1> QED BY <1>4, <1>5

LEMMA ReleaseAscends ==
  ASSUME AInv, NEW c \in Calls, Release(c)
  PROVE  Ascends' /\ HeldForKey'
<1> USE ActionLocksAssumption DEF AInv
<1>1. /\ owner' = owner /\ pc'[c] = "idle"
      /\ \A d \in Calls : d # c => /\ unique'[d] = unique[d] /\ locks'[d] = locks[d]
                                   /\ pc'[d] = pc[d]
  BY DEF Release, IInv, TypeOK
<1>2. ASSUME NEW d \in Calls, pc'[d] = "locking"
      PROVE  Wanted(d)' # {} /\ \A j \in Held(d)', l \in Wanted(d)' : j < l
  <2>1. d # c /\ pc[d] = "locking" BY <1>1, <1>2
  <2>2. Held(d)' = Held(d) /\ Wanted(d)' = Wanted(d) BY <2>1, <1>1, SameHeld
  <2> QED BY <2>1, <2>2 DEF Ascends
<1>3. Ascends' BY <1>2 DEF Ascends
<1>4. \A m \in Mutexes : owner[m] # c BY DEF HeldForKey, Release, Held
<1>5. ASSUME NEW m \in Mutexes, owner[m] # None
      PROVE  \E k \in unique'[owner[m]] : locks'[owner[m]][k] = m
  <2>1. owner[m] \in Calls /\ owner[m] # c BY <1>4, <1>5 DEF IInv, TypeOK
  <2> QED BY <2>1, <1>1, <1>5 DEF HeldForKey
<1>6. HeldForKey' BY <1>1, <1>5 DEF HeldForKey
<1> QED BY <1>3, <1>6

LEMMA NextAInv == AInv /\ [Next]_vars => AInv'
<1> SUFFICES ASSUME AInv, [Next]_vars PROVE AInv'
  OBVIOUS
<1>1. IInv' BY NextIInv DEF AInv
<1>2. CASE UNCHANGED vars BY <1>1, <1>2 DEF AInv, Ascends, HeldForKey, Held, Wanted, vars
<1>3. CASE Next
  BY <1>1, <1>3, RegisterAscends, LockAscends, UnlockAscends, ReleaseAscends DEF Next, AInv
<1> QED BY <1>2, <1>3

\* A call that locks has a key it takes next.
LEMMA NextKey ==
  ASSUME AInv, NEW c \in Calls, pc[c] = "locking"
  PROVE  \E k \in Keys : InOrder(c, k)
<1>1. Wanted(c) # {} /\ Wanted(c) \subseteq Keys BY DEF AInv, Ascends, Wanted, IInv, TypeOK
<1>2. IsFiniteSet(Wanted(c)) /\ Wanted(c) \in SUBSET Int
  BY <1>1, FS_Subset, ActionLocksAssumption
<1>3. PICK k \in Wanted(c) : \A l \in Wanted(c) : k <= l BY <1>1, <1>2, LeastKey
<1> QED BY <1>1, <1>3 DEF InOrder, Wanted

LEMMA AInvAdvances == AInv => LocksAdvance
<1> SUFFICES ASSUME AInv, NEW c \in Calls, pc[c] = "locking",
                    \A d \in Calls : pc[d] \notin {"inside", "unlocking"},
                    \A d \in Calls, k \in Keys :
                      pc[d] = "locking" /\ InOrder(d, k) => owner[locks[d][k]] # None
             PROVE  FALSE
  BY DEF LocksAdvance
<1> DEFINE W == {k \in Keys : \E d \in Calls : pc[d] = "locking" /\ InOrder(d, k)}
<1>1. W # {} /\ IsFiniteSet(W) /\ W \in SUBSET Int BY NextKey, FS_Subset, ActionLocksAssumption
<1>2. PICK m \in W : \A n \in W : n <= m
  <2> HIDE DEF W
  <2> QED BY <1>1, GreatestKey
<1>3. PICK d \in Calls : pc[d] = "locking" /\ InOrder(d, m) BY <1>2
<1>4. PICK e \in Calls : owner[locks[d][m]] = e BY <1>3 DEF AInv, IInv, TypeOK, InOrder, Counted
<1>5. m \in Held(e)
  <2>1. /\ locks[d][m] = actionLocks[m] /\ locks[d][m] \in Mutexes /\ Found(m)
    BY <1>3, ActionLocksAssumption DEF AInv, IInv, Counted, InOrder, Found
  <2>2. PICK k \in unique[e] : locks[e][k] = locks[d][m]
    BY <2>1, <1>4, ActionLocksAssumption DEF AInv, HeldForKey
  <2>3. k \in Keys /\ actionLocks[k] = actionLocks[m]
    BY <2>1, <2>2 DEF AInv, IInv, Counted, TypeOK
  <2>4. k = m BY <2>1, <2>3 DEF AInv, IInv, OwnMutex
  <2> QED BY <2>2, <2>4, <1>4 DEF Held
<1>6. pc[e] = "locking" BY <1>5 DEF AInv, IInv, IdleHasNoKeys, TypeOK, Held
<1>7. PICK l \in Keys : InOrder(e, l) BY <1>6, NextKey
<1>8. l \in W /\ l \in Wanted(e) /\ l \in Int /\ m \in Int
  BY <1>6, <1>7, ActionLocksAssumption DEF InOrder, Wanted
<1>9. m < l BY <1>5, <1>6, <1>8 DEF AInv, Ascends
<1> QED BY <1>2, <1>8, <1>9

\* The state of the locks is always what the code believes of it.
THEOREM LocksTypeOK == Spec => []TypeOK
<1>1. IInv => TypeOK BY DEF IInv
<1> QED BY <1>1, InitIInv, NextIInv, PTL DEF Spec

\* For any number of calls, conversations and tasks: no two calls are ever inside for one key.
THEOREM LocksAlwaysExclude == Spec => []LocksExclude
BY InitIInv, NextIInv, IInvExcludes, PTL DEF Spec

\* Calls of several keys never wait in a circle, for any calls, keys and mutexes.
THEOREM LocksAlwaysAdvance == Spec => []LocksAdvance
BY InitAInv, NextAInv, AInvAdvances, PTL DEF Spec

(* The application the child is connected with *)

RegistrationBounds ==
  /\ "nobody" \notin Handlers
  /\ \A b \in RegistrationBudgets : b.starts \in Nat
  /\ \E b \in RegistrationBudgets : \A c \in RegistrationBudgets : c.starts <= b.starts

Steps == {"none", "polling", "secret", "credentials", "operator", "check", "done"}
Statuses == {"none", "pending", "failed", "cancelled", "completed"}
HandlerSteps ==
  {"idle", "create", "requesting", "cancelling", "journal", "sessions", "waiting", "purge", "client",
   "file", "end"}
Answers == {"nothing", "shown", "not_started", "cancelled", "unknown", "failed", "logged_out"}
Running(s) == session[s].pc \notin {"none", "done"}
Purging(h) == handler[h].pc \in {"purge", "client", "file", "end"}

\* The one session that is not over is the one in the registry; no logout that has looked at the
\* registry, nor one that is over, was before it.
RegistrationInv ==
  /\ sessions \in Nat /\ item \in 0 .. sessions /\ forgotten \in 0 .. sessions
  /\ session \in [A!Ids -> [pc : Steps, status : Statuses, cancelled : BOOLEAN]]
  /\ handler \in [Handlers -> [pc : HandlerSteps, told : Answers, session : Nat, upTo : 0 .. sessions]]
  /\ credentials \in 0 .. sessions /\ operator \in 0 .. sessions
  /\ \A s \in A!Ids : Running(s) => running /\ s = item /\ s > forgotten
  /\ \A h \in Handlers : Purging(h) => \A s \in A!Ids : Running(s) => s > handler[h].upTo
  /\ \A h \in Handlers : handler[h].pc = "requesting" => mutex = h /\ item = 0
  /\ \A h \in Handlers : handler[h].pc = "waiting" => mutex = h
  /\ A!LogoutIsFinal

LEMMA IdsAreNumbers == RegistrationBounds => A!Ids \subseteq Nat \ {0}
<1> SUFFICES ASSUME RegistrationBounds PROVE A!Ids \subseteq Nat \ {0}
  OBVIOUS
<1>1. \E n \in {b.starts : b \in RegistrationBudgets} : \A b \in RegistrationBudgets : b.starts <= n
  BY DEF RegistrationBounds
<1>2. A!MaxSessions \in {b.starts : b \in RegistrationBudgets} BY <1>1 DEF A!MaxSessions
<1>3. A!MaxSessions \in Nat BY <1>2 DEF RegistrationBounds
<1> QED BY <1>3 DEF A!Ids

HandlerType == [pc : HandlerSteps, told : Answers, session : Nat, upTo : 0 .. sessions]

LEMMA RegistrationStart == RegistrationBounds /\ A!Init => RegistrationInv
<1> SUFFICES ASSUME RegistrationBounds, A!Init PROVE RegistrationInv
  OBVIOUS
<1>1. A!NoSession \in [pc : Steps, status : Statuses, cancelled : BOOLEAN] /\ A!NoSession.pc = "none"
  BY DEF A!NoSession, Steps, Statuses
<1>2. /\ A!Idle \in [pc : HandlerSteps, told : Answers, session : Nat, upTo : 0 .. sessions]
      /\ A!Idle.pc = "idle" /\ sessions = 0
  BY DEF A!Idle, A!None, A!Init, HandlerSteps, Answers
<1> QED BY <1>1, <1>2 DEF A!Init, RegistrationInv, A!None, Running, Purging, A!LogoutIsFinal

\* A handler goes on, with the session up to which it has looked, or is done.
HandlerGoes(h, at) ==
  /\ handler' \in [Handlers -> HandlerType]
  /\ \A k \in Handlers : k # h => handler'[k] = handler[k]
  /\ handler'[h].pc = at

LEMMA Goes ==
  ASSUME RegistrationInv, NEW h \in Handlers, NEW at \in HandlerSteps, A!Go(h, at)
  PROVE  HandlerGoes(h, at) /\ handler'[h].upTo = handler[h].upTo
BY DEF RegistrationInv, A!Go, HandlerGoes, HandlerType

LEMMA Tells ==
  ASSUME RegistrationInv, NEW h \in Handlers, NEW what \in Answers, A!Told(h, what)
  PROVE  HandlerGoes(h, "idle")
<1> DEFINE v == [A!Idle EXCEPT !.told = what]
<1>1. sessions \in Nat BY DEF RegistrationInv
<1>2. v \in HandlerType /\ v.pc = "idle"
  BY <1>1 DEF A!Idle, A!None, HandlerType, HandlerSteps, Answers
<1> HIDE DEF v
<1>3. handler' = [handler EXCEPT ![h] = v] BY DEF A!Told, v
<1> QED BY <1>2, <1>3 DEF RegistrationInv, HandlerGoes, HandlerType

LEMMA HandlerAlone ==
  ASSUME RegistrationInv, NEW h \in Handlers, NEW at, HandlerGoes(h, at),
         UNCHANGED <<mutex, item, session, sessions, forgotten, credentials, operator, running>>,
         at \notin {"requesting", "waiting"},
         Purging(h)' => Purging(h) /\ handler'[h].upTo = handler[h].upTo
  PROVE  RegistrationInv'
BY DEF RegistrationInv, HandlerGoes, HandlerType, Running, Purging, A!LogoutIsFinal, A!Ids, A!MaxSessions

LEMMA HandlersIdle ==
  ASSUME RegistrationInv, NEW h \in Handlers, A!Create(h) \/ A!Reuse(h) \/ A!Logout(h) \/ A!Journal(h)
  PROVE  RegistrationInv'
<1>1. UNCHANGED <<mutex, item, session, sessions, forgotten, credentials, operator, running>>
  BY DEF A!Create, A!Reuse, A!Logout, A!Journal, A!registry, A!disk
<1>2. \E at \in {"create", "journal", "sessions", "idle"} : HandlerGoes(h, at)
  BY Goes, Tells DEF A!Create, A!Reuse, A!Logout, A!Journal, HandlerSteps, Answers
<1> QED BY <1>1, <1>2, HandlerAlone DEF HandlerGoes, Purging

SessionType == [pc : Steps, status : Statuses, cancelled : BOOLEAN]

\* The goroutine of a session goes on, and what it writes is its own.
LEMMA SessionMoves ==
  ASSUME RegistrationInv, RegistrationBounds, NEW s \in A!Ids, A!SessionSteps(s)
  PROVE  RegistrationInv'
<1>1. /\ session \in [A!Ids -> SessionType] /\ Running(s) /\ s \in Int
  BY IdsAreNumbers
  DEF RegistrationInv, Running, SessionType, A!SessionSteps, A!NotConfirmed, A!Polling, A!Scanned,
      A!Failing, A!StoreSecret, A!StoreCredentials, A!CredentialsFail, A!BindOperator, A!Connected
<1>2. /\ running /\ s = item /\ s > forgotten /\ s \in 0 .. sessions
  BY <1>1 DEF RegistrationInv
<1>3. /\ session' \in [A!Ids -> SessionType] /\ \A t \in A!Ids : t # s => session'[t] = session[t]
  <2>1. CASE A!NotConfirmed(s)
    BY <1>1, <2>1 DEF A!NotConfirmed, A!Ended, SessionType, Steps, Statuses
  <2>2. CASE A!Scanned(s) BY <1>1, <2>2 DEF A!Scanned, SessionType, Steps, Statuses
  <2>3. CASE A!Failing(s, "secret") \/ A!Failing(s, "operator") \/ A!Failing(s, "check")
    BY <1>1, <2>3 DEF A!Failing, A!Ended, SessionType, Steps, Statuses
  <2>4. CASE A!StoreSecret(s) BY <1>1, <2>4 DEF A!StoreSecret, SessionType, Steps, Statuses
  <2>5. CASE A!StoreCredentials(s)
    BY <1>1, <2>5 DEF A!StoreCredentials, SessionType, Steps, Statuses
  <2>6. CASE A!CredentialsFail(s)
    BY <1>1, <2>6 DEF A!CredentialsFail, A!Ended, SessionType, Steps, Statuses
  <2>7. CASE A!BindOperator(s) BY <1>1, <2>7 DEF A!BindOperator, SessionType, Steps, Statuses
  <2>8. CASE A!Connected(s) BY <1>1, <2>8 DEF A!Connected, A!Ended, SessionType, Steps, Statuses
  <2> QED BY <2>1, <2>2, <2>3, <2>4, <2>5, <2>6, <2>7, <2>8 DEF A!SessionSteps
<1>4. /\ UNCHANGED <<handler, mutex, item, sessions, forgotten, running>>
      /\ credentials' \in {credentials, s} /\ operator' \in {operator, s}
  BY DEF A!SessionSteps, A!NotConfirmed, A!Polling, A!Scanned, A!Failing, A!StoreSecret, A!StoreCredentials,
         A!CredentialsFail, A!BindOperator, A!Connected, A!disk
<1>5. \A t \in A!Ids : Running(t)' => Running(t) BY <1>1, <1>3 DEF Running
<1>6. A!LogoutIsFinal' BY <1>2, <1>4 DEF RegistrationInv, A!LogoutIsFinal, A!None
<1>7. /\ credentials' \in 0 .. sessions /\ operator' \in 0 .. sessions
  BY <1>2, <1>4 DEF RegistrationInv
<1>8. \A h \in Handlers : Purging(h)' => Purging(h) BY <1>4 DEF Purging
<1> QED BY <1>3, <1>4, <1>5, <1>6, <1>7, <1>8 DEF RegistrationInv, SessionType, A!Ids, A!MaxSessions

\* Create: the registry is locked for the request, and the session that comes of it is new.
LEMMA RegistrationCreates ==
  ASSUME RegistrationInv, RegistrationBounds, NEW h \in Handlers,
         A!Request(h) \/ A!NotRequested(h) \/ A!Requested(h)
  PROVE  RegistrationInv'
<1> USE DEF HandlerSteps, Answers
<1>1. CASE A!Request(h)
  <2>1. HandlerGoes(h, "requesting") /\ handler'[h].upTo = handler[h].upTo
    BY <1>1, Goes DEF A!Request
  <2>2. /\ UNCHANGED <<item, session, sessions, forgotten, credentials, operator, running>>
        /\ mutex = "nobody" /\ mutex' = h /\ item = 0
    BY <1>1 DEF A!Request, A!Free, A!disk, A!None
  <2>3. \A k \in Handlers : handler[k].pc \notin {"requesting", "waiting"}
    BY <2>2 DEF RegistrationInv, RegistrationBounds
  <2> QED BY <2>1, <2>2, <2>3
      DEF RegistrationInv, HandlerGoes, HandlerType, Running, Purging, A!LogoutIsFinal, A!Ids, A!MaxSessions
<1>2. CASE A!NotRequested(h)
  <2>1. HandlerGoes(h, "idle") BY <1>2, Tells DEF A!NotRequested
  <2>2. /\ UNCHANGED <<item, session, sessions, forgotten, credentials, operator, running>>
        /\ handler[h].pc = "requesting"
    BY <1>2 DEF A!NotRequested, A!At, A!disk
  <2>3. \A k \in Handlers : k # h => handler[k].pc \notin {"requesting", "waiting"}
    BY <2>2 DEF RegistrationInv
  <2> QED BY <2>1, <2>2, <2>3
      DEF RegistrationInv, HandlerGoes, HandlerType, Running, Purging, A!LogoutIsFinal, A!Ids, A!MaxSessions
<1>3. CASE A!Requested(h)
  <2> DEFINE s == sessions + 1
             v == [pc |-> "polling", status |-> "pending", cancelled |-> FALSE]
  <2>1. HandlerGoes(h, "idle") BY <1>3, Tells DEF A!Requested
  <2>2. /\ UNCHANGED <<forgotten, credentials, operator, running>> /\ running
        /\ sessions' = s /\ item' = s /\ session' = [session EXCEPT ![s] = v]
        /\ handler[h].pc = "requesting"
    BY <1>3 DEF A!Requested, A!At, A!disk
  <2>3. /\ \A k \in Handlers : k # h => handler[k].pc \notin {"requesting", "waiting"}
        /\ item = 0 /\ sessions \in Nat
    BY <2>2 DEF RegistrationInv
  <2>4. v \in SessionType BY DEF SessionType, Steps, Statuses
  <2> HIDE DEF v
  <2>5. session' \in [A!Ids -> SessionType] /\ \A t \in A!Ids : t # s => session'[t] = session[t]
    BY <2>2, <2>4 DEF RegistrationInv, SessionType
  <2>6. \A t \in A!Ids : t # 0 /\ t \in Int BY IdsAreNumbers
  <2>7. \A t \in A!Ids : ~Running(t) BY <2>3, <2>6 DEF RegistrationInv
  <2>8. \A t \in A!Ids : Running(t)' => t = s BY <2>5, <2>7 DEF Running
  <2>9. 0 .. sessions \subseteq 0 .. sessions' BY <2>2, <2>3
  <2>10. handler' \in [Handlers -> [pc : HandlerSteps, told : Answers, session : Nat, upTo : 0 .. sessions']]
    BY <2>1, <2>9 DEF HandlerGoes, HandlerType
  <2>11. \A k \in Handlers : handler'[k].upTo <= sessions
    BY <2>1, <2>3 DEF HandlerGoes, HandlerType
  <2>12. /\ sessions' \in Nat /\ item' \in 0 .. sessions' /\ forgotten' \in 0 .. sessions'
         /\ credentials' \in 0 .. sessions' /\ operator' \in 0 .. sessions' /\ A!LogoutIsFinal'
    BY <2>2, <2>3, <2>9 DEF RegistrationInv, A!LogoutIsFinal
  <2>13. \A t \in A!Ids : Running(t)' => running' /\ t = item' /\ t > forgotten'
    BY <2>2, <2>3, <2>8 DEF RegistrationInv
  <2>14. \A k \in Handlers : Purging(k)' => \A t \in A!Ids : Running(t)' => t > handler'[k].upTo
    BY <2>3, <2>8, <2>10, <2>11
  <2>15. \A k \in Handlers : handler'[k].pc \notin {"requesting", "waiting"}
    BY <2>1, <2>3 DEF HandlerGoes
  <2> QED BY <2>5, <2>10, <2>12, <2>13, <2>14, <2>15 DEF RegistrationInv, SessionType, A!Ids, A!MaxSessions
<1> QED BY <1>1, <1>2, <1>3

\* CancelConfigurationFlow: only a session that is over leaves the registry.
LEMMA RegistrationCancels ==
  ASSUME RegistrationInv, RegistrationBounds, NEW h \in Handlers, A!Cancel(h) \/ A!Cancelled(h)
  PROVE  RegistrationInv'
<1> USE DEF HandlerSteps, Answers
<1>1. CASE A!Cancel(h)
  <2>1. /\ handler' = [handler EXCEPT ![h].pc = "cancelling", ![h].session = item]
        /\ session' = [session EXCEPT ![item].cancelled = TRUE, ![item].status = "cancelled"]
        /\ UNCHANGED <<mutex, item, sessions, forgotten, credentials, operator, running>>
    BY <1>1 DEF A!Cancel, A!disk
  <2>2. HandlerGoes(h, "cancelling")
    <3>1. item \in Nat /\ handler \in [Handlers -> HandlerType]
      BY DEF RegistrationInv, HandlerType
    <3>2. handler' = [handler EXCEPT ![h] = [handler[h] EXCEPT !.pc = "cancelling", !.session = item]]
      BY <2>1
    <3>3. [handler[h] EXCEPT !.pc = "cancelling", !.session = item] \in HandlerType
      BY <3>1 DEF HandlerType
    <3> QED BY <3>1, <3>2, <3>3 DEF HandlerGoes, HandlerType
  <2>3. /\ session' \in [A!Ids -> SessionType]
        /\ \A s \in A!Ids : session'[s].pc = session[s].pc
    BY <2>1 DEF RegistrationInv, SessionType, Statuses
  <2>4. /\ \A s \in A!Ids : Running(s)' <=> Running(s)
        /\ \A k \in Handlers : Purging(k)' => Purging(k) /\ handler'[k] = handler[k]
        /\ \A k \in Handlers : handler'[k].pc \in {"requesting", "waiting"} => handler'[k] = handler[k]
    BY <2>2, <2>3 DEF HandlerGoes, Running, Purging
  <2>5. A!Ids' = A!Ids BY <2>1 DEF A!Ids, A!MaxSessions
  <2>6. A!LogoutIsFinal' BY <2>1, <2>2, <2>4 DEF RegistrationInv, HandlerGoes, A!LogoutIsFinal
  <2> QED BY <2>1, <2>2, <2>3, <2>4, <2>5, <2>6 DEF RegistrationInv, HandlerGoes, HandlerType, SessionType, Purging
<1>2. CASE A!Cancelled(h)
  <2>1. HandlerGoes(h, "idle") BY <1>2, Tells DEF A!Cancelled
  <2>2. UNCHANGED <<mutex, session, sessions, forgotten, credentials, operator, running>>
    BY <1>2 DEF A!Cancelled, A!disk
  <2>3. CASE item' = item BY <2>1, <2>2, <2>3, HandlerAlone DEF HandlerGoes, Purging
  <2>4. CASE item' # item
    <3>1. item' = 0 /\ session[item].pc = "done" /\ mutex = "nobody"
      BY <1>2, <2>4 DEF A!Cancelled, A!Free, A!None
    <3>2. \A s \in A!Ids : ~Running(s) BY <3>1 DEF RegistrationInv, Running
    <3>3. \A k \in Handlers : handler[k].pc \notin {"requesting", "waiting"}
      BY <3>1 DEF RegistrationInv, RegistrationBounds
    <3>4. \A s \in A!Ids : ~Running(s)' BY <2>2, <3>2 DEF Running
    <3>5. item' \in 0 .. sessions /\ sessions \in Nat BY <3>1 DEF RegistrationInv
    <3> QED BY <2>1, <2>2, <3>1, <3>3, <3>4, <3>5
        DEF RegistrationInv, HandlerGoes, HandlerType, A!LogoutIsFinal, A!Ids, A!MaxSessions
  <2> QED BY <2>3, <2>4
<1> QED BY <1>1, <1>2

\* CancelAppConfiguration: when a logout goes on to purge, every session that was is over.
LEMMA LogoutLooks ==
  ASSUME RegistrationInv, RegistrationBounds, NEW h \in Handlers, A!CancelSession(h) \/ A!SessionOver(h)
  PROVE  RegistrationInv'
<1> USE DEF HandlerSteps, Answers
<1>1. /\ sessions \in Nat /\ sessions \in 0 .. sessions
      /\ UNCHANGED <<sessions, forgotten, credentials, operator, running>>
      /\ \A t \in A!Ids : t # 0 /\ t \in Int
  BY IdsAreNumbers DEF RegistrationInv, A!CancelSession, A!SessionOver, A!disk
<1>2. CASE A!CancelSession(h) /\ item = 0
  <2>1. /\ handler' = [handler EXCEPT ![h].pc = "purge", ![h].upTo = sessions]
        /\ UNCHANGED <<mutex, session, item>>
    BY <1>2 DEF A!CancelSession, A!None
  <2>2. HandlerGoes(h, "purge") BY <1>1, <2>1 DEF RegistrationInv, HandlerGoes, HandlerType
  <2>3. \A s \in A!Ids : ~Running(s) /\ ~Running(s)'
    BY <1>1, <1>2, <2>1 DEF RegistrationInv, Running
  <2> QED BY <1>1, <2>1, <2>2, <2>3 DEF RegistrationInv, HandlerGoes, HandlerType, A!LogoutIsFinal, A!Ids, A!MaxSessions
<1>3. CASE A!CancelSession(h) /\ item # 0
  <2>1. /\ session' = [session EXCEPT ![item].cancelled = TRUE] /\ mutex' = h /\ item' = item
        /\ mutex = "nobody"
    BY <1>3 DEF A!CancelSession, A!None, A!Free
  <2>2. HandlerGoes(h, "waiting") /\ handler'[h].upTo = handler[h].upTo
    BY <1>3, Goes DEF A!CancelSession, A!None
  <2>3. /\ session' \in [A!Ids -> SessionType]
        /\ \A s \in A!Ids : session'[s].pc = session[s].pc
    <3>1. session \in [A!Ids -> SessionType] BY DEF RegistrationInv, SessionType
    <3> QED BY <2>1, <3>1 DEF SessionType
  <2>4. \A k \in Handlers : handler[k].pc \notin {"requesting", "waiting"}
    BY <2>1 DEF RegistrationInv, RegistrationBounds
  <2> QED BY <1>1, <2>1, <2>2, <2>3, <2>4
      DEF RegistrationInv, HandlerGoes, HandlerType, SessionType, Running, Purging, A!LogoutIsFinal, A!Ids, A!MaxSessions
<1>4. CASE A!SessionOver(h)
  <2>1. /\ handler' = [handler EXCEPT ![h].pc = "purge", ![h].upTo = sessions]
        /\ item' = 0 /\ mutex' = "nobody" /\ UNCHANGED session /\ handler[h].pc = "waiting"
        /\ session[item].pc = "done"
    BY <1>4 DEF A!SessionOver, A!Waited, A!None, A!At
  <2>2. HandlerGoes(h, "purge")
    <3>1. handler \in [Handlers -> HandlerType] /\ sessions' = sessions
      BY <1>1 DEF RegistrationInv, HandlerType
    <3>2. handler' = [handler EXCEPT ![h].pc = "purge", ![h].upTo = sessions] BY <2>1
    <3> QED BY <1>1, <3>1, <3>2 DEF HandlerGoes, HandlerType
  <2>3. \A s \in A!Ids : ~Running(s) /\ ~Running(s)' BY <1>1, <2>1 DEF RegistrationInv, Running
  <2>4. \A k \in Handlers : k # h => handler[k].pc \notin {"requesting", "waiting"}
    BY <2>1 DEF RegistrationInv
  <2>5. item' \in 0 .. sessions BY <1>1, <2>1
  <2> QED BY <1>1, <2>1, <2>2, <2>3, <2>4, <2>5
      DEF RegistrationInv, HandlerGoes, HandlerType, A!LogoutIsFinal, A!Ids, A!MaxSessions
<1> QED BY <1>2, <1>3, <1>4 DEF A!None

\* The purge, and the end of it.
LEMMA LogoutPurges ==
  ASSUME RegistrationInv, RegistrationBounds, NEW h \in Handlers,
         \/ A!PurgeSecret(h) \/ A!PurgeClient(h) \/ A!PurgeFile(h)
         \/ A!LoggedOut(h) \/ A!LogoutFails(h)
  PROVE  RegistrationInv'
<1> USE DEF HandlerSteps, Answers
<1>1. /\ UNCHANGED <<mutex, item, session, sessions, running>> /\ sessions \in Nat
      /\ 0 \in 0 .. sessions
  BY DEF RegistrationInv, A!PurgeSecret, A!PurgeClient, A!PurgeFile, A!LoggedOut, A!LogoutFails, A!registry
<1>2. CASE A!PurgeSecret(h) \/ A!PurgeClient(h) \/ A!PurgeFile(h)
  <2>1. \E at \in {"client", "file", "end"} : HandlerGoes(h, at) /\ handler'[h].upTo = handler[h].upTo
    BY <1>2, Goes DEF A!PurgeSecret, A!PurgeClient, A!PurgeFile
  <2>2. /\ credentials' \in {credentials, 0} /\ operator' \in {operator, 0} /\ UNCHANGED forgotten
        /\ Purging(h)
    BY <1>2 DEF A!PurgeSecret, A!PurgeClient, A!PurgeFile, A!None, A!At, Purging
  <2>3. /\ credentials' \in 0 .. sessions /\ operator' \in 0 .. sessions /\ A!LogoutIsFinal'
    BY <1>1, <2>2 DEF RegistrationInv, A!LogoutIsFinal, A!None
  <2> QED BY <1>1, <2>1, <2>2, <2>3
      DEF RegistrationInv, HandlerGoes, HandlerType, Running, Purging, A!Ids, A!MaxSessions
<1>3. CASE A!LogoutFails(h)
  <2>1. HandlerGoes(h, "idle") /\ UNCHANGED <<credentials, operator, forgotten>>
    BY <1>3, Tells DEF A!LogoutFails, A!disk
  <2> QED BY <1>1, <2>1, HandlerAlone DEF HandlerGoes, Purging
<1>4. CASE A!LoggedOut(h)
  <2>1. HandlerGoes(h, "idle") /\ UNCHANGED <<credentials, operator>>
    BY <1>4, Tells DEF A!LoggedOut
  <2>2. CASE UNCHANGED forgotten BY <1>1, <2>1, <2>2, HandlerAlone DEF HandlerGoes, Purging
  <2>3. CASE ~UNCHANGED forgotten
    <3>1. credentials = 0 /\ operator = 0 /\ forgotten' = handler[h].upTo /\ Purging(h)
      BY <1>4, <2>3 DEF A!LoggedOut, A!None, A!At, Purging
    <3>2. forgotten' \in 0 .. sessions /\ \A s \in A!Ids : Running(s) => s > forgotten'
      BY <3>1 DEF RegistrationInv
    <3>3. A!LogoutIsFinal' BY <2>1, <3>1 DEF A!LogoutIsFinal, A!None
    <3> QED BY <1>1, <2>1, <3>2, <3>3
        DEF RegistrationInv, HandlerGoes, HandlerType, Running, Purging, A!Ids, A!MaxSessions
  <2> QED BY <2>2, <2>3
<1> QED BY <1>2, <1>3, <1>4

\* The process ends, and its sessions with it; a restart takes a pending cleanup up.
LEMMA RegistrationRestarts ==
  ASSUME RegistrationInv, RegistrationBounds, A!Crash \/ A!Restart
  PROVE  RegistrationInv'
<1>1. A!Idle \in HandlerType /\ A!Idle.pc = "idle" /\ sessions \in Nat /\ 0 \in 0 .. sessions
      /\ sessions \in 0 .. sessions
  BY DEF RegistrationInv, A!Idle, A!None, HandlerType, HandlerSteps, Answers
<1>2. CASE A!Crash
  <2>1. /\ handler' = [h \in Handlers |-> A!Idle] /\ item' = 0
        /\ session' = [s \in A!Ids |-> IF session[s].pc = "none" THEN A!NoSession
                                       ELSE [session[s] EXCEPT !.pc = "done"]]
        /\ UNCHANGED <<sessions, forgotten, credentials, operator>>
    BY <1>2 DEF A!Crash, A!None, A!disk
  <2>2. A!NoSession \in SessionType /\ A!NoSession.pc = "none"
    BY DEF A!NoSession, SessionType, Steps, Statuses
  <2>3. /\ session' \in [A!Ids -> SessionType]
        /\ \A s \in A!Ids : ~Running(s)'
    BY <2>1, <2>2 DEF RegistrationInv, SessionType, Running, Steps
  <2> QED BY <1>1, <2>1, <2>3
      DEF RegistrationInv, SessionType, HandlerType, Purging, A!LogoutIsFinal, A!Ids, A!MaxSessions
<1>3. CASE A!Restart
  <2>1. /\ UNCHANGED <<handler, mutex, item, session, sessions>> /\ ~running
        /\ \/ UNCHANGED <<credentials, operator, forgotten>>
           \/ credentials' = 0 /\ operator' = 0 /\ forgotten' = sessions
    BY <1>3 DEF A!Restart, A!registry, A!disk, A!None
  <2>2. \A s \in A!Ids : ~Running(s) /\ ~Running(s)' BY <2>1 DEF RegistrationInv, Running
  <2>3. /\ credentials' \in 0 .. sessions /\ operator' \in 0 .. sessions /\ forgotten' \in 0 .. sessions
        /\ A!LogoutIsFinal'
    BY <1>1, <2>1 DEF RegistrationInv, A!LogoutIsFinal, A!None
  <2> QED BY <2>1, <2>2, <2>3 DEF RegistrationInv, Purging, A!Ids, A!MaxSessions
<1> QED BY <1>2, <1>3

LEMMA RegistrationStep == RegistrationBounds /\ RegistrationInv /\ [A!Next]_A!vars => RegistrationInv'
<1> SUFFICES ASSUME RegistrationBounds, RegistrationInv, [A!Next]_A!vars PROVE RegistrationInv'
  OBVIOUS
<1>1. CASE UNCHANGED A!vars
  BY <1>1 DEF A!vars, RegistrationInv, Running, Purging, A!LogoutIsFinal, A!Ids, A!MaxSessions
<1>2. CASE A!Next
  BY <1>2, HandlersIdle, RegistrationCreates, RegistrationCancels, LogoutLooks, LogoutPurges,
     SessionMoves, RegistrationRestarts DEF A!Next, A!HandlerSteps
<1> QED BY <1>1, <1>2

\* For any handlers, and however calls and sessions fail, end and start again: an application
\* whose session was there when a logout looked at the registry is connected by nobody once the
\* logout is over.
THEOREM LogoutStaysFinal ==
  ASSUME RegistrationBounds
  PROVE  A!Spec => []LogoutIsFinal
<1>1. A!Init => RegistrationInv BY RegistrationStart
<1>2. RegistrationInv /\ [A!Next]_A!vars => RegistrationInv' BY RegistrationStep
<1>3. RegistrationInv => LogoutIsFinal BY DEF RegistrationInv, LogoutIsFinal
<1> QED BY <1>1, <1>2, <1>3, PTL DEF A!Spec

(* The store of the reports *)

ReportBounds ==
  /\ "none" \notin ReportNames
  /\ MaxKeys \in Nat /\ MaxRecords \in Nat /\ MaxHistory \in Nat
  /\ \A r \in ReportNames : ExpectedOf(r) \in Nat

Line == [request : ReportNames, at : {0, 1}]
ReporterSteps ==
  {"gone", "start", "scan", "keyless", "makekey", "named", "locked", "first", "count", "verify",
   "write", "sync"}
WithKey == {"named", "locked", "first", "count", "verify", "write", "sync"}
WithTask == WithKey \ {"named"}
WithHistory == {"first", "count", "verify", "write"}

StoreTypeOK ==
  /\ keys \in 0 .. MaxKeys /\ key \in 0 .. keys /\ time \in {0, 1}
  /\ records \in [0 .. MaxKeys -> [RS!Tasks -> Seq(Line)]]
  /\ fileLocks \in [RS!Tasks \cup {RS!Index, RS!Identity} -> ReportNames \cup {RS!None}]
  /\ reporter \in [ReportNames -> [pc : ReporterSteps, key : 0 .. MaxKeys, history : Seq(Line)]]
  /\ told \in [ReportNames -> SUBSET {"ok", "failed"}]

Records == 0 .. MaxKeys

\* Every file is made with one key, the one there is when there is one; it can be read, and
\* there are not too many.
StoreOK ==
  /\ \A k \in Records, t \in RS!Tasks :
       /\ records[k][t] # <<>> => k # 0 /\ (key # 0 => k = key)
       /\ RS!Loads(records[k][t])
       /\ \A i \in DOMAIN records[k][t] : TaskOf(records[k][t][i].request) = t
  /\ \A k, l \in Records, t, u \in RS!Tasks :
       records[k][t] # <<>> /\ records[l][u] # <<>> => k = l
  /\ IsFiniteSet(RS!Written) /\ Cardinality(RS!Written) <= MaxRecords

FirstOne(r) ==
  reporter[r].pc = "count" \/ (reporter[r].pc \in {"verify", "write"} /\ reporter[r].history = <<>>)

\* A reporter holds the locks of what it has read, and that is still so.
ReporterOK(r) ==
  /\ reporter[r].pc \in WithTask => fileLocks[TaskOf(r)] = r
  /\ reporter[r].pc = "makekey" => fileLocks[RS!Identity] = r
  /\ FirstOne(r) => fileLocks[RS!Index] = r
  /\ reporter[r].pc \in WithKey => key # 0 /\ reporter[r].key = key
  /\ reporter[r].pc \in {"keyless", "makekey"} /\ key = 0 => RS!Written = {}
  /\ reporter[r].pc \in WithHistory =>
       /\ reporter[r].history = records[key][TaskOf(r)]
       /\ Len(reporter[r].history) = ExpectedOf(r) /\ Len(reporter[r].history) < MaxHistory
       /\ \A i \in DOMAIN reporter[r].history :
            EventOf(reporter[r].history[i].request) # EventOf(r)
  /\ reporter[r].pc \in {"first", "count"} => reporter[r].history = <<>>
  /\ reporter[r].pc \in {"verify", "write"} /\ reporter[r].history = <<>> =>
       Cardinality(RS!Written) < MaxRecords
  /\ reporter[r].pc = "sync" =>
       \E i \in DOMAIN records[key][TaskOf(r)] : records[key][TaskOf(r)][i].request = r

ReportsInv == StoreTypeOK /\ StoreOK /\ \A r \in ReportNames : ReporterOK(r)

LEMMA TasksAre == \A r \in ReportNames : TaskOf(r) \in RS!Tasks
BY DEF RS!Tasks

LEMMA StoreStart == ReportBounds /\ RS!Init => ReportsInv
<1> SUFFICES ASSUME ReportBounds, RS!Init PROVE ReportsInv
  OBVIOUS
<1> USE DEF RS!Init, ReportBounds
<1>1. RS!Written = {} BY DEF RS!Written
<1>2. StoreTypeOK BY DEF StoreTypeOK, RS!Gone, ReporterSteps, RS!None
<1>3. StoreOK BY <1>1, FS_EmptySet DEF StoreOK, Records, RS!Loads
<1>4. \A r \in ReportNames : ReporterOK(r)
  BY DEF ReporterOK, RS!Gone, WithKey, WithTask, WithHistory, FirstOne
<1> QED BY <1>2, <1>3, <1>4 DEF ReportsInv

\* What a reporter does beside the store leaves the store and the other reporters as they were.
Beside(r) ==
  /\ UNCHANGED <<key, keys, records>>
  /\ \A s \in ReportNames \ {r} : reporter'[s] = reporter[s]
  /\ \A s \in ReportNames \ {r} : \A l \in DOMAIN fileLocks : fileLocks[l] = s => fileLocks'[l] = s

LEMMA OthersStay ==
  ASSUME ReportsInv, NEW r \in ReportNames, Beside(r), StoreTypeOK', ReporterOK(r)'
  PROVE  ReportsInv'
<1>1. RS!Written' = RS!Written BY DEF RS!Written, Beside
<1>2. StoreOK' BY <1>1 DEF ReportsInv, StoreOK, Beside, RS!Loads
<1>3. ASSUME NEW s \in ReportNames \ {r} PROVE ReporterOK(s)'
  <2>1. /\ TaskOf(s) \in DOMAIN fileLocks /\ RS!Identity \in DOMAIN fileLocks
        /\ RS!Index \in DOMAIN fileLocks
    BY TasksAre DEF ReportsInv, StoreTypeOK
  <2>2. ReporterOK(s) BY DEF ReportsInv
  <2> QED BY <1>1, <2>1, <2>2 DEF ReporterOK, Beside, FirstOne
<1> QED BY <1>2, <1>3 DEF ReportsInv

\* A reporter that is through, or dies, has left every lock it held.
LEMMA IsGone ==
  ASSUME ReportBounds, ReportsInv, NEW r \in ReportNames, UNCHANGED <<key, keys, records, time>>,
         RS!Set(r, RS!Gone), fileLocks' = RS!Unlocked(r), told' \in [ReportNames -> SUBSET {"ok", "failed"}]
  PROVE  ReportsInv'
<1>0. RS!Gone \in [pc : ReporterSteps, key : 0 .. MaxKeys, history : Seq(Line)]
  BY DEF RS!Gone, ReporterSteps, ReportBounds
<1>1. StoreTypeOK'
  BY <1>0 DEF ReportsInv, StoreTypeOK, RS!Set, RS!Unlocked, RS!None, ReportBounds
<1>2. Beside(r) BY DEF Beside, RS!Set, RS!Unlocked, ReportsInv, StoreTypeOK
<1>3. reporter'[r].pc = "gone" BY DEF RS!Set, RS!Gone, ReportsInv, StoreTypeOK
<1>4. ReporterOK(r)' BY <1>3 DEF ReporterOK, FirstOne, WithKey, WithTask, WithHistory
<1> QED BY <1>1, <1>2, <1>4, OthersStay

LEMMA IsTold ==
  ASSUME ReportBounds, ReportsInv, NEW r \in ReportNames, NEW what \in {"ok", "failed"},
         UNCHANGED <<key, keys, records, time>>, RS!Answers(r, what)
  PROVE  ReportsInv'
<1>1. told' \in [ReportNames -> SUBSET {"ok", "failed"}]
  BY DEF RS!Answers, ReportsInv, StoreTypeOK
<1> QED BY <1>1, IsGone DEF RS!Answers

\* A reporter takes a lock, or goes on without one.
LEMMA GoesOn ==
  ASSUME ReportBounds, ReportsInv, NEW r \in ReportNames,
         UNCHANGED <<key, keys, records, time, told>>,
         \/ UNCHANGED fileLocks
         \/ \E l \in DOMAIN fileLocks : fileLocks[l] = RS!None /\ fileLocks' = [fileLocks EXCEPT ![l] = r],
         NEW R \in [pc : ReporterSteps, key : 0 .. MaxKeys, history : Seq(Line)],
         RS!Set(r, R), ReporterOK(r)'
  PROVE  ReportsInv'
<1>1. StoreTypeOK' BY DEF ReportsInv, StoreTypeOK, RS!Set, ReportBounds
<1>2. Beside(r) BY DEF Beside, RS!Set, ReportsInv, StoreTypeOK, RS!None, ReportBounds
<1> QED BY <1>1, <1>2, OthersStay

LEMMA WrittenCounted == RS!Cardinality(RS!Written) = Cardinality(RS!Written)
BY DEF RS!Cardinality, Cardinality, RS!IsFiniteSet, IsFiniteSet

\* Whoever makes the key finds no record: the others keep what they have.
LEMMA KeyMade ==
  ASSUME ReportBounds, ReportsInv, NEW r \in ReportNames, RS!MakeKey(r)
  PROVE  ReportsInv'
<1>1. /\ records' = records /\ time' = time /\ reporter[r].pc = "makekey"
      /\ fileLocks' = RS!Unlocked(r) /\ fileLocks[RS!Identity] = r
      /\ reporter[r] \in [pc : ReporterSteps, key : 0 .. MaxKeys, history : Seq(Line)]
  BY DEF RS!MakeKey, RS!Fails, RS!Answers, RS!outside, ReportsInv, ReporterOK, StoreTypeOK
<1>2. \/ UNCHANGED <<key, keys>>
      \/ key = 0 /\ key' # 0 /\ key' \in 0 .. keys' /\ keys' \in 0 .. MaxKeys /\ RS!Written = {}
  <2>1. RS!NewKey => key = 0 /\ key' # 0 /\ key' \in 0 .. keys' /\ keys' \in 0 .. MaxKeys
    BY DEF RS!NewKey, ReportsInv, StoreTypeOK, ReportBounds
  <2>2. key = 0 => RS!Written = {} BY <1>1 DEF ReportsInv, ReporterOK
  <2> QED BY <2>1, <2>2 DEF RS!MakeKey
<1>3. RS!Written' = RS!Written BY <1>1 DEF RS!Written
<1>4. \E R \in [pc : {"gone", "named"}, key : 0 .. MaxKeys, history : Seq(Line)] :
        RS!Set(r, R) /\ (R.pc = "named" => R.key = key' /\ key' # 0)
  <2>1. key' \in 0 .. MaxKeys BY <1>2 DEF ReportsInv, StoreTypeOK, ReportBounds
  <2>2. CASE RS!Set(r, [reporter[r] EXCEPT !.key = key', !.pc = "named"]) /\ key' # 0
    <3> DEFINE R == [reporter[r] EXCEPT !.key = key', !.pc = "named"]
    <3>1. R \in [pc : {"gone", "named"}, key : 0 .. MaxKeys, history : Seq(Line)] BY <1>1, <2>1
    <3>2. RS!Set(r, R) /\ R.key = key' /\ key' # 0 BY <1>1, <2>2
    <3> QED BY <3>1, <3>2
  <2>3. CASE RS!Set(r, RS!Gone)
    <3>1. RS!Gone \in [pc : {"gone", "named"}, key : 0 .. MaxKeys, history : Seq(Line)]
      BY DEF RS!Gone, ReportBounds
    <3>2. RS!Gone.pc = "gone" BY DEF RS!Gone
    <3> QED BY <2>3, <3>1, <3>2
  <2> QED BY <1>2, <2>2, <2>3 DEF RS!MakeKey, RS!Fails, RS!Answers, RS!NewKey
<1>5. PICK R \in [pc : {"gone", "named"}, key : 0 .. MaxKeys, history : Seq(Line)] :
        RS!Set(r, R) /\ (R.pc = "named" => R.key = key' /\ key' # 0)
  BY <1>4
<1>6. /\ \A s \in ReportNames \ {r} : reporter'[s] = reporter[s]
      /\ reporter'[r] = R
      /\ reporter' \in [ReportNames -> [pc : ReporterSteps, key : 0 .. MaxKeys, history : Seq(Line)]]
  BY <1>5 DEF RS!Set, ReportsInv, StoreTypeOK, ReporterSteps
<1>7. told' \in [ReportNames -> SUBSET {"ok", "failed"}]
  <2>1. told' = told \/ told' = [told EXCEPT ![r] = @ \cup {"failed"}]
    BY DEF RS!MakeKey, RS!Fails, RS!Answers
  <2>2. told \in [ReportNames -> SUBSET {"ok", "failed"}] BY DEF ReportsInv, StoreTypeOK
  <2> QED BY <2>1, <2>2
<1>8. StoreTypeOK' BY <1>1, <1>2, <1>6, <1>7 DEF ReportsInv, StoreTypeOK, RS!Unlocked, RS!None
<1>9. StoreOK'
  <2>1. CASE UNCHANGED <<key, keys>> BY <1>1, <1>3, <2>1 DEF ReportsInv, StoreOK, RS!Loads
  <2>2. CASE RS!Written = {}
    <3>1. ASSUME NEW k \in Records, NEW t \in RS!Tasks PROVE records[k][t] = <<>>
      <4>1. SUFFICES ASSUME records[k][t] # <<>> PROVE FALSE
        OBVIOUS
      <4>2. k \in 1 .. MaxKeys BY <4>1 DEF ReportsInv, StoreOK, Records, ReportBounds
      <4>3. <<k, t>> \in RS!Written BY <4>1, <4>2 DEF RS!Written
      <4> QED BY <2>2, <4>3
    <3> QED BY <1>1, <1>3, <3>1 DEF ReportsInv, StoreOK, RS!Loads
  <2> QED BY <1>2, <2>1, <2>2
<1>10. ReporterOK(r)' BY <1>5, <1>6 DEF ReporterOK, FirstOne, WithKey, WithTask, WithHistory
<1>11. ASSUME NEW s \in ReportNames \ {r} PROVE ReporterOK(s)'
  <2>1. ReporterOK(s) /\ (reporter[s].pc \in WithKey => key' = key)
    BY <1>2 DEF ReportsInv, ReporterOK
  <2>2. \A l \in DOMAIN fileLocks : fileLocks[l] = s => fileLocks'[l] = s BY <1>1 DEF RS!Unlocked
  <2>3. /\ TaskOf(s) \in DOMAIN fileLocks /\ RS!Identity \in DOMAIN fileLocks
        /\ RS!Index \in DOMAIN fileLocks
    BY TasksAre DEF ReportsInv, StoreTypeOK
  <2>4. key' = 0 => key = 0 BY <1>2
  <2> QED BY <1>1, <1>3, <1>6, <2>1, <2>2, <2>3, <2>4
          DEF ReporterOK, FirstOne, WithKey, WithTask, WithHistory
<1> QED BY <1>8, <1>9, <1>10, <1>11 DEF ReportsInv

NewLine(r) == [request |-> r, at |-> time]

\* What a line more makes of a history that can be read.
LEMMA OneLineMore ==
  ASSUME ReportBounds, NEW r \in ReportNames, NEW h \in Seq(Line), time \in {0, 1},
         RS!Loads(h), Len(h) = ExpectedOf(r), Len(h) < MaxHistory,
         \A i \in DOMAIN h : EventOf(h[i].request) # EventOf(r),
         ~RS!ClockWentBack(h)
  PROVE  /\ RS!Loads(Append(h, NewLine(r)))
         /\ Append(h, NewLine(r)) \in Seq(Line) /\ Append(h, NewLine(r)) # <<>>
<1> DEFINE g == Append(h, NewLine(r))
<1>1. g \in Seq(Line) /\ Len(g) = Len(h) + 1 /\ g[Len(h) + 1] = NewLine(r)
      /\ \A i \in 1 .. Len(h) : g[i] = h[i]
  BY DEF NewLine, Line
<1>2. \A i \in 1 .. Len(h) : h[i].at <= time /\ h[i].at \in {0, 1}
  <2>1. TAKE i \in 1 .. Len(h)
  <2>2. h[i] \in Line /\ h[Len(h)] \in Line /\ h # <<>>
    OBVIOUS
  <2>3. h[Len(h)].at <= time BY <2>2 DEF RS!ClockWentBack, RS!Last, Line
  <2>4. i < Len(h) => h[i].at <= h[Len(h)].at BY DEF RS!Loads
  <2> QED BY <2>2, <2>3, <2>4 DEF Line
<1>3. Len(g) <= MaxHistory /\ DOMAIN g = 1 .. Len(h) + 1 /\ Len(h) \in Nat
  BY <1>1 DEF ReportBounds
<1> HIDE DEF g
<1>4. ASSUME NEW i \in DOMAIN g, NEW j \in DOMAIN g, i < j
      PROVE  EventOf(g[i].request) # EventOf(g[j].request) /\ g[i].at <= g[j].at
  <2>1. CASE j \in 1 .. Len(h)
    <3>1. i \in 1 .. Len(h) BY <1>3, <1>4, <2>1
    <3> QED BY <1>1, <1>4, <2>1, <3>1 DEF RS!Loads
  <2>2. CASE j = Len(h) + 1
    <3>1. i \in 1 .. Len(h) BY <1>3, <1>4, <2>2
    <3> QED BY <1>1, <1>2, <2>2, <3>1 DEF NewLine
  <2> QED BY <1>3, <2>1, <2>2
<1>5. ASSUME NEW i \in DOMAIN g PROVE ExpectedOf(g[i].request) = i - 1
  <2>1. CASE i \in 1 .. Len(h) BY <1>1, <2>1 DEF RS!Loads
  <2>2. CASE i = Len(h) + 1 BY <1>1, <2>2 DEF NewLine
  <2> QED BY <1>3, <2>1, <2>2
<1>6. g # <<>> BY <1>1, <1>3
<1> QED BY <1>1, <1>3, <1>4, <1>5, <1>6 DEF RS!Loads, g

\* The file of a task is replaced by one with a line more; the others stay.
LEMMA Replaced ==
  ASSUME ReportBounds, ReportsInv, NEW r \in ReportNames, RS!Replace(r)
  PROVE  ReportsInv'
<1>1. CASE RS!ClockWentBack(reporter[r].history) /\ RS!Fails(r) /\ UNCHANGED <<records, reportsLeft>>
  BY <1>1, IsTold DEF RS!Replace, RS!Fails, RS!outside
<1>2. CASE RS!Spend("failures") /\ RS!Fails(r) /\ UNCHANGED records
  BY <1>2, IsTold DEF RS!Replace, RS!Fails, RS!outside
<1>3. CASE /\ ~RS!ClockWentBack(reporter[r].history)
           /\ records' = [records EXCEPT ![reporter[r].key][TaskOf(r)] =
                            Append(reporter[r].history, NewLine(r))]
           /\ RS!Goes(r, "sync") /\ UNCHANGED <<fileLocks, told, reportsLeft>>
  <2> DEFINE t == TaskOf(r)
             g == Append(reporter[r].history, NewLine(r))
  <2>1. /\ UNCHANGED <<key, keys, time>> /\ reporter[r].pc = "write" /\ time \in {0, 1}
        /\ reporter[r] \in [pc : ReporterSteps, key : 0 .. MaxKeys, history : Seq(Line)]
        /\ ReporterOK(r) /\ t \in RS!Tasks /\ key \in Records
    BY TasksAre DEF RS!Replace, RS!outside, ReportsInv, StoreTypeOK, Records, ReportBounds
  <2>2. /\ reporter[r].key = key /\ key # 0 /\ fileLocks[t] = r
        /\ reporter[r].history = records[key][t]
    BY <2>1 DEF ReporterOK, WithKey, WithTask, WithHistory
  <2>3. RS!Loads(g) /\ g \in Seq(Line) /\ g # <<>>
    BY <1>3, <2>1, <2>2, OneLineMore DEF ReporterOK, WithHistory, ReportsInv, StoreOK
  <2> HIDE DEF g
  <2>4. /\ records' \in [0 .. MaxKeys -> [RS!Tasks -> Seq(Line)]]
        /\ records'[key][t] = g
        /\ \A k \in Records, u \in RS!Tasks :
             k # key \/ u # t => records'[k][u] = records[k][u]
    BY <1>3, <2>1, <2>2, <2>3 DEF ReportsInv, StoreTypeOK, Records, g
  <2>5. /\ \A s \in ReportNames \ {r} : reporter'[s] = reporter[s]
        /\ reporter'[r].pc = "sync" /\ reporter'[r].key = key
        /\ reporter' \in [ReportNames -> [pc : ReporterSteps, key : 0 .. MaxKeys, history : Seq(Line)]]
    BY <1>3, <2>1, <2>2 DEF RS!Goes, RS!Set, ReportsInv, StoreTypeOK, ReporterSteps
  <2>6. StoreTypeOK' BY <1>3, <2>1, <2>4, <2>5 DEF ReportsInv, StoreTypeOK
  <2>7. \A i \in DOMAIN g : TaskOf(g[i].request) = t
    <3>1. \A i \in DOMAIN reporter[r].history : TaskOf(reporter[r].history[i].request) = t
      BY <2>1, <2>2 DEF ReportsInv, StoreOK
    <3> QED BY <2>1, <3>1 DEF g, NewLine
  <2>8. RS!Written' = RS!Written \cup {<<key, t>>}
    <3>1. key \in 1 .. MaxKeys /\ 1 .. MaxKeys \subseteq Records
      BY <2>1, <2>2 DEF Records, ReportBounds
    <3>2. \A k \in 1 .. MaxKeys, u \in RS!Tasks :
            records'[k][u] # <<>> <=> records[k][u] # <<>> \/ (k = key /\ u = t)
      BY <2>3, <2>4, <3>1
    <3>3. ASSUME NEW k \in 1 .. MaxKeys, NEW u \in RS!Tasks
          PROVE  <<k, u>> \in RS!Written' <=> <<k, u>> \in RS!Written \cup {<<key, t>>}
      BY <3>2 DEF RS!Written
    <3>4. /\ RS!Written \subseteq (1 .. MaxKeys) \X RS!Tasks
          /\ RS!Written' \subseteq (1 .. MaxKeys) \X RS!Tasks
          /\ <<key, t>> \in (1 .. MaxKeys) \X RS!Tasks
      BY <2>1, <3>1 DEF RS!Written
    <3> QED BY <3>3, <3>4
  <2>9. IsFiniteSet(RS!Written') /\ Cardinality(RS!Written') <= MaxRecords
    <3>1. CASE <<key, t>> \in RS!Written
      <4>1. RS!Written' = RS!Written BY <2>8, <3>1
      <4> QED BY <4>1 DEF ReportsInv, StoreOK
    <3>2. CASE <<key, t>> \notin RS!Written
      <4>1. reporter[r].history = <<>> BY <2>1, <2>2, <3>2 DEF RS!Written, Records, ReportBounds
      <4>2. Cardinality(RS!Written) < MaxRecords BY <2>1, <4>1 DEF ReporterOK
      <4>3. IsFiniteSet(RS!Written) /\ Cardinality(RS!Written) \in Nat
        BY FS_CardinalityType DEF ReportsInv, StoreOK
      <4>4. IsFiniteSet(RS!Written') /\ Cardinality(RS!Written') = Cardinality(RS!Written) + 1
        BY <2>8, <3>2, <4>3, FS_AddElement
      <4> QED BY <4>2, <4>3, <4>4 DEF ReportBounds
    <3> QED BY <3>1, <3>2
  <2>10. StoreOK'
    <3>1. \A k \in Records, u \in RS!Tasks : records[k][u] # <<>> => k = key
      BY <2>2 DEF ReportsInv, StoreOK
    <3>2. \A k \in Records, u \in RS!Tasks : records'[k][u] # <<>> => k = key BY <2>4, <3>1
    <3>3. ASSUME NEW k \in Records, NEW u \in RS!Tasks
          PROVE  /\ RS!Loads(records'[k][u])
                 /\ \A i \in DOMAIN records'[k][u] : TaskOf(records'[k][u][i].request) = u
      <4>1. CASE k = key /\ u = t BY <2>3, <2>4, <2>7, <4>1
      <4>2. CASE ~(k = key /\ u = t) BY <2>4, <4>2 DEF ReportsInv, StoreOK
      <4> QED BY <4>1, <4>2
    <3>4. \A k \in Records, u \in RS!Tasks : RS!Loads(records[k][u])' <=> RS!Loads(records'[k][u])
      BY DEF RS!Loads
    <3> QED BY <2>1, <2>2, <2>9, <3>2, <3>3, <3>4 DEF StoreOK
  <2>11. ReporterOK(r)'
    <3>0. /\ Len(g) = Len(reporter[r].history) + 1 /\ Len(reporter[r].history) \in Nat
          /\ g[Len(reporter[r].history) + 1] = NewLine(r)
      BY <2>1 DEF g, NewLine, Line
    <3>1. \E i \in DOMAIN g : g[i].request = r BY <2>3, <3>0 DEF NewLine
    <3> QED BY <1>3, <2>1, <2>2, <2>4, <2>5, <3>1
            DEF ReporterOK, FirstOne, WithKey, WithTask, WithHistory
  <2>12. ASSUME NEW s \in ReportNames \ {r} PROVE ReporterOK(s)'
    <3>1. ReporterOK(s) /\ reporter'[s] = reporter[s] /\ TaskOf(s) \in RS!Tasks
          /\ UNCHANGED <<key, fileLocks>>
      BY <1>3, <2>1, <2>5, TasksAre DEF ReportsInv
    <3>2. reporter[s].pc \in WithTask => TaskOf(s) # t BY <2>2, <3>1 DEF ReporterOK
    <3>3. reporter[s].pc \in WithTask => records'[key][TaskOf(s)] = records[key][TaskOf(s)]
      BY <2>1, <2>4, <3>1, <3>2
    <3>4. reporter[s].pc \in {"verify", "write"} /\ reporter[s].history = <<>> =>
            Cardinality(RS!Written') < MaxRecords
      <4>1. SUFFICES ASSUME reporter[s].pc \in {"verify", "write"}, reporter[s].history = <<>>
                     PROVE  Cardinality(RS!Written') < MaxRecords
        OBVIOUS
      <4>2. fileLocks[RS!Index] = s BY <3>1, <4>1 DEF ReporterOK, FirstOne
      <4>3. reporter[r].history # <<>> BY <2>1, <4>2 DEF ReporterOK, FirstOne
      <4>4. <<key, t>> \in RS!Written BY <2>1, <2>2, <4>3 DEF RS!Written, Records, ReportBounds
      <4>5. RS!Written' = RS!Written BY <2>8, <4>4
      <4> QED BY <3>1, <4>1, <4>5 DEF ReporterOK
    <3> QED BY <2>2, <3>1, <3>2, <3>3, <3>4
            DEF ReporterOK, FirstOne, WithKey, WithTask, WithHistory
  <2> QED BY <2>6, <2>10, <2>11, <2>12 DEF ReportsInv
<1> QED BY <1>1, <1>2, <1>3 DEF RS!Replace, NewLine

LEMMA ReporterStep ==
  ASSUME ReportBounds, ReportsInv, NEW r \in ReportNames, RS!Report(r)
  PROVE  ReportsInv'
<1>t. /\ reporter[r] \in [pc : ReporterSteps, key : 0 .. MaxKeys, history : Seq(Line)]
      /\ reporter \in [ReportNames -> [pc : ReporterSteps, key : 0 .. MaxKeys, history : Seq(Line)]]
      /\ ReporterOK(r) /\ TaskOf(r) \in RS!Tasks
  BY TasksAre DEF ReportsInv, StoreTypeOK
<1>l. key \in 0 .. MaxKeys BY DEF ReportsInv, StoreTypeOK, ReportBounds
<1>w. UNCHANGED <<key, records>> => RS!Written' = RS!Written BY DEF RS!Written
<1>1. CASE RS!ReadKey(r)
  <2> DEFINE R == [reporter[r] EXCEPT !.key = key, !.pc = IF key = 0 THEN "scan" ELSE "named"]
  <2>1. R \in [pc : ReporterSteps, key : 0 .. MaxKeys, history : Seq(Line)]
    BY <1>t, <1>l DEF ReporterSteps
  <2>2. /\ UNCHANGED <<key, keys, records, time, told, fileLocks>> /\ RS!Set(r, R)
    BY <1>1 DEF RS!ReadKey, RS!disk, RS!outside
  <2>3. reporter'[r] = R BY <1>t, <2>2 DEF RS!Set
  <2>4. ReporterOK(r)'
    BY <1>t, <2>2, <2>3 DEF ReporterOK, FirstOne, WithKey, WithTask, WithHistory
  <2> QED BY <2>1, <2>2, <2>4, GoesOn
<1>2. CASE RS!ScanRecords(r)
  <2>1. CASE RS!KeyIsLost BY <1>2, <2>1, IsTold DEF RS!ScanRecords, RS!Fails, RS!disk, RS!outside
  <2>2. CASE ~RS!KeyIsLost
    <3> DEFINE R == [reporter[r] EXCEPT !.pc = "keyless"]
    <3>1. R \in [pc : ReporterSteps, key : 0 .. MaxKeys, history : Seq(Line)]
      BY <1>t DEF ReporterSteps
    <3>2. /\ UNCHANGED <<key, keys, records, time, told, fileLocks>> /\ RS!Set(r, R)
      BY <1>2, <2>2 DEF RS!ScanRecords, RS!Goes, RS!disk, RS!outside
    <3>3. reporter'[r] = R BY <1>t, <3>2 DEF RS!Set
    <3>4. RS!Written' = {} BY <2>2, <3>2, <1>w DEF RS!KeyIsLost
    <3>5. ReporterOK(r)'
      BY <1>t, <3>2, <3>3, <3>4 DEF ReporterOK, FirstOne, WithKey, WithTask, WithHistory
    <3> QED BY <3>1, <3>2, <3>5, GoesOn
  <2> QED BY <2>1, <2>2
<1>3. CASE RS!LockKey(r)
  <2> DEFINE R == [reporter[r] EXCEPT !.pc = "makekey"]
  <2>1. R \in [pc : ReporterSteps, key : 0 .. MaxKeys, history : Seq(Line)]
    BY <1>t DEF ReporterSteps
  <2>2. /\ UNCHANGED <<key, keys, records, time, told>> /\ RS!Set(r, R)
        /\ reporter[r].pc = "keyless"
        /\ RS!Identity \in DOMAIN fileLocks /\ fileLocks[RS!Identity] = RS!None
        /\ fileLocks' = [fileLocks EXCEPT ![RS!Identity] = r]
    BY <1>3 DEF RS!LockKey, RS!Takes, RS!Goes, RS!disk, RS!outside, ReportsInv, StoreTypeOK
  <2>3. reporter'[r] = R BY <1>t, <2>2 DEF RS!Set
  <2>4. ReporterOK(r)'
    BY <1>t, <1>w, <2>2, <2>3 DEF ReporterOK, FirstOne, WithKey, WithTask, WithHistory
  <2> QED BY <2>1, <2>2, <2>4, GoesOn
<1>5. CASE RS!LockTask(r)
  <2> DEFINE R == [reporter[r] EXCEPT !.pc = "locked"]
  <2>1. R \in [pc : ReporterSteps, key : 0 .. MaxKeys, history : Seq(Line)]
    BY <1>t DEF ReporterSteps
  <2>2. /\ UNCHANGED <<key, keys, records, time, told>> /\ RS!Set(r, R)
        /\ reporter[r].pc = "named"
        /\ TaskOf(r) \in DOMAIN fileLocks /\ fileLocks[TaskOf(r)] = RS!None
        /\ fileLocks' = [fileLocks EXCEPT ![TaskOf(r)] = r]
    BY <1>5, <1>t DEF RS!LockTask, RS!Takes, RS!Goes, RS!disk, RS!outside, ReportsInv, StoreTypeOK
  <2>3. reporter'[r] = R BY <1>t, <2>2 DEF RS!Set
  <2>4. ReporterOK(r)'
    BY <1>t, <2>2, <2>3 DEF ReporterOK, FirstOne, WithKey, WithTask, WithHistory
  <2> QED BY <2>1, <2>2, <2>4, GoesOn
<1>7. CASE RS!LockIndex(r)
  <2> DEFINE R == [reporter[r] EXCEPT !.pc = "count"]
  <2>1. R \in [pc : ReporterSteps, key : 0 .. MaxKeys, history : Seq(Line)]
    BY <1>t DEF ReporterSteps
  <2>2. /\ UNCHANGED <<key, keys, records, time, told>> /\ RS!Set(r, R)
        /\ reporter[r].pc = "first"
        /\ RS!Index \in DOMAIN fileLocks /\ fileLocks[RS!Index] = RS!None
        /\ fileLocks' = [fileLocks EXCEPT ![RS!Index] = r]
    BY <1>7 DEF RS!LockIndex, RS!Takes, RS!Goes, RS!disk, RS!outside, ReportsInv, StoreTypeOK
  <2>3. reporter'[r] = R BY <1>t, <2>2 DEF RS!Set
  <2>4. TaskOf(r) \in DOMAIN fileLocks /\ fileLocks \in [DOMAIN fileLocks -> ReportNames \cup {RS!None}]
    BY <1>t DEF ReportsInv, StoreTypeOK
  <2>5. ReporterOK(r)'
    BY <1>t, <2>2, <2>3, <2>4 DEF ReporterOK, FirstOne, WithKey, WithTask, WithHistory
  <2> QED BY <2>1, <2>2, <2>5, GoesOn
<1>8. CASE RS!CountRecords(r)
  <2>1. CASE Cardinality(RS!Written) >= MaxRecords
    BY <1>8, <2>1, WrittenCounted, IsTold DEF RS!CountRecords, RS!Fails, RS!disk, RS!outside
  <2>2. CASE ~(Cardinality(RS!Written) >= MaxRecords)
    <3> DEFINE R == [reporter[r] EXCEPT !.pc = "verify"]
    <3>1. R \in [pc : ReporterSteps, key : 0 .. MaxKeys, history : Seq(Line)]
      BY <1>t DEF ReporterSteps
    <3>2. /\ UNCHANGED <<key, keys, records, time, told, fileLocks>> /\ RS!Set(r, R)
          /\ reporter[r].pc = "count"
      BY <1>8, <2>2, WrittenCounted DEF RS!CountRecords, RS!Goes, RS!disk, RS!outside
    <3>3. reporter'[r] = R BY <1>t, <3>2 DEF RS!Set
    <3>4. RS!Written' = RS!Written /\ Cardinality(RS!Written) \in Nat
      BY <1>w, <3>2, FS_CardinalityType DEF ReportsInv, StoreOK
    <3>5. Cardinality(RS!Written') < MaxRecords BY <2>2, <3>4 DEF ReportBounds
    <3>6. ReporterOK(r)'
      BY <1>t, <3>2, <3>3, <3>5 DEF ReporterOK, FirstOne, WithKey, WithTask, WithHistory
    <3> QED BY <3>1, <3>2, <3>6, GoesOn
  <2> QED BY <2>1, <2>2
<1>9. CASE RS!Verify(r)
  <2>1. CASE ~RS!Verified(r) BY <1>9, <2>1, IsTold DEF RS!Verify, RS!Fails, RS!disk, RS!outside
  <2>2. CASE RS!Verified(r)
    <3> DEFINE R == [reporter[r] EXCEPT !.pc = "write"]
    <3>1. R \in [pc : ReporterSteps, key : 0 .. MaxKeys, history : Seq(Line)]
      BY <1>t DEF ReporterSteps
    <3>2. /\ UNCHANGED <<key, keys, records, time, told, fileLocks>> /\ RS!Set(r, R)
          /\ reporter[r].pc = "verify"
      BY <1>9, <2>2 DEF RS!Verify, RS!Goes, RS!disk, RS!outside
    <3>3. reporter'[r] = R BY <1>t, <3>2 DEF RS!Set
    <3>4. ReporterOK(r)'
      BY <1>t, <1>w, <3>2, <3>3 DEF ReporterOK, FirstOne, WithKey, WithTask, WithHistory
    <3> QED BY <3>1, <3>2, <3>4, GoesOn
  <2> QED BY <2>1, <2>2
<1>10. CASE RS!LoadTask(r)
  <2> DEFINE history == records[reporter[r].key][TaskOf(r)]
  <2>1. UNCHANGED <<key, keys, records, time>> /\ reporter[r].pc = "locked"
    BY <1>10 DEF RS!LoadTask, RS!disk, RS!outside
  <2>2. CASE ~RS!Loads(history) BY <1>10, <2>1, <2>2, IsTold DEF RS!LoadTask, RS!Fails
  <2>3. CASE RS!Loads(history) /\ RS!Replayed(r, history)
    BY <1>10, <2>1, <2>3, IsTold DEF RS!LoadTask
  <2>4. CASE /\ RS!Loads(history) /\ ~RS!Replayed(r, history)
             /\ \/ RS!Conflicts(r, history) \/ Len(history) # ExpectedOf(r)
                \/ Len(history) >= MaxHistory
    BY <1>10, <2>1, <2>4, IsTold DEF RS!LoadTask, RS!Fails
  <2>5. CASE /\ RS!Loads(history) /\ ~RS!Replayed(r, history)
             /\ ~RS!Conflicts(r, history) /\ Len(history) = ExpectedOf(r)
             /\ ~(Len(history) >= MaxHistory)
    <3> DEFINE R == [reporter[r] EXCEPT !.history = history,
                                        !.pc = IF history = <<>> THEN "first" ELSE "verify"]
    <3>0. history \in Seq(Line) /\ key # 0 /\ reporter[r].key = key
      BY <1>t, <2>1 DEF ReporterOK, WithKey, ReportsInv, StoreTypeOK
    <3>1. R \in [pc : ReporterSteps, key : 0 .. MaxKeys, history : Seq(Line)]
      BY <1>t, <3>0 DEF ReporterSteps
    <3>2. UNCHANGED <<fileLocks, told>> /\ RS!Set(r, R) BY <1>10, <2>5 DEF RS!LoadTask
    <3>3. reporter'[r] = R BY <1>t, <3>2 DEF RS!Set
    <3>4. \A i \in DOMAIN history : EventOf(history[i].request) # EventOf(r)
      BY <2>5 DEF RS!Replayed, RS!Conflicts
    <3>5. Len(history) < MaxHistory BY <2>5, <3>0 DEF ReportBounds
    <3>6. /\ reporter'[r].pc \in {"first", "verify"} /\ reporter'[r].history = history
          /\ reporter'[r].key = key
          /\ reporter'[r].pc = "first" => history = <<>>
          /\ reporter'[r].pc = "verify" => history # <<>>
      BY <1>t, <3>3, <3>0
    <3>7. ReporterOK(r)'
      BY <1>t, <2>1, <2>5, <3>0, <3>2, <3>4, <3>5, <3>6
      DEF ReporterOK, FirstOne, WithKey, WithTask, WithHistory
    <3> HIDE DEF R
    <3> QED BY <2>1, <3>1, <3>2, <3>7, GoesOn
  <2> QED BY <2>2, <2>3, <2>4, <2>5
<1>11. CASE RS!Sync(r)
  <2>1. CASE RS!Answers(r, "ok") /\ UNCHANGED reportsLeft
    BY <1>11, <2>1, IsTold DEF RS!Sync, RS!outside
  <2>2. CASE RS!Spend("failures") /\ RS!Fails(r)
    BY <1>11, <2>2, IsTold DEF RS!Sync, RS!Fails, RS!outside
  <2> QED BY <1>11, <2>1, <2>2 DEF RS!Sync
<1>12. CASE RS!MakeKey(r) BY <1>12, KeyMade
<1>13. CASE RS!Replace(r) BY <1>13, Replaced
<1> QED BY <1>1, <1>2, <1>3, <1>5, <1>7, <1>8, <1>9, <1>10, <1>11, <1>12, <1>13 DEF RS!Report

LEMMA ReportsStep == ReportBounds /\ ReportsInv /\ [RS!Next]_RS!vars => ReportsInv'
<1> SUFFICES ASSUME ReportBounds, ReportsInv, [RS!Next]_RS!vars PROVE ReportsInv'
  OBVIOUS
<1>1. ASSUME NEW r \in ReportNames, RS!Send(r) PROVE ReportsInv'
  <2> DEFINE R == [reporter[r] EXCEPT !.pc = "start"]
  <2>1. reporter[r] \in [pc : ReporterSteps, key : 0 .. MaxKeys, history : Seq(Line)]
    BY DEF ReportsInv, StoreTypeOK
  <2>2. R \in [pc : ReporterSteps, key : 0 .. MaxKeys, history : Seq(Line)]
    BY <2>1 DEF ReporterSteps
  <2>3. UNCHANGED <<key, keys, records, time, told, fileLocks>> /\ RS!Set(r, R)
    BY <1>1 DEF RS!Send, RS!Goes, RS!disk, RS!outside
  <2>4. reporter'[r] = R BY <2>3 DEF RS!Set, ReportsInv, StoreTypeOK
  <2>5. ReporterOK(r)' BY <2>1, <2>4 DEF ReporterOK, FirstOne, WithKey, WithTask, WithHistory
  <2> QED BY <2>2, <2>3, <2>5, GoesOn
<1>2. ASSUME NEW r \in ReportNames, RS!GivesUp(r) PROVE ReportsInv'
  BY <1>2, IsTold DEF RS!GivesUp, RS!Fails, RS!disk, RS!outside
<1>3. ASSUME NEW r \in ReportNames, RS!Dies(r) PROVE ReportsInv'
  BY <1>3, IsGone DEF RS!Dies, RS!disk, RS!outside, ReportsInv, StoreTypeOK
<1>4. CASE RS!KeyLost
  <2>1. /\ key' = 0 /\ UNCHANGED <<keys, records, fileLocks, reporter, time, told>>
        /\ \A r \in ReportNames : reporter[r].pc = "gone"
    BY <1>4 DEF RS!KeyLost, RS!NobodyReports, RS!outside
  <2>2. RS!Written' = RS!Written BY <2>1 DEF RS!Written
  <2>3. StoreTypeOK' BY <2>1 DEF ReportsInv, StoreTypeOK, ReportBounds
  <2>4. StoreOK' BY <2>1, <2>2 DEF ReportsInv, StoreOK, RS!Loads
  <2>5. \A r \in ReportNames : ReporterOK(r)'
    BY <2>1 DEF ReporterOK, FirstOne, WithKey, WithTask, WithHistory
  <2> QED BY <2>3, <2>4, <2>5 DEF ReportsInv
<1>5. CASE RS!Edit \/ RS!SetClock \/ UNCHANGED RS!vars
  <2>1. UNCHANGED <<key, keys, records, fileLocks, reporter, told>> /\ time' \in {0, 1}
    BY <1>5 DEF RS!Edit, RS!SetClock, RS!vars, RS!disk, ReportsInv, StoreTypeOK
  <2>2. RS!Written' = RS!Written BY <2>1 DEF RS!Written
  <2>3. StoreTypeOK' BY <2>1 DEF ReportsInv, StoreTypeOK
  <2>4. StoreOK' BY <2>1, <2>2 DEF ReportsInv, StoreOK, RS!Loads
  <2>5. \A r \in ReportNames : ReporterOK(r)' BY <2>1, <2>2 DEF ReportsInv, ReporterOK, FirstOne
  <2> QED BY <2>3, <2>4, <2>5 DEF ReportsInv
<1> QED BY <1>1, <1>2, <1>3, <1>4, <1>5, ReporterStep DEF RS!Next

\* TaskReports: no report leaves a file that cannot be read, whatever the clock, the crashes and
\* the other reports did, for any reports and bounds (store.go:373-395).
THEOREM ReportsNeverCorrupt ==
  ASSUME ReportBounds PROVE RS!Spec => []RS!NeverCorrupt
<1>1. RS!Init => ReportsInv BY StoreStart
<1>2. ReportsInv /\ [RS!Next]_RS!vars => ReportsInv' BY ReportsStep
<1>3. ReportsInv => RS!NeverCorrupt
  BY DEF ReportsInv, StoreOK, Records, RS!NeverCorrupt, ReportBounds
<1> QED BY <1>1, <1>2, <1>3, PTL DEF RS!Spec

\* TaskReports: a task has one record, made with one key, and there are never too many.
THEOREM OneRecordForATask ==
  ASSUME ReportBounds PROVE RS!Spec => []RS!OneRecordPerTask
<1>1. RS!Init => ReportsInv BY StoreStart
<1>2. ReportsInv /\ [RS!Next]_RS!vars => ReportsInv' BY ReportsStep
<1>3. ReportsInv => RS!OneRecordPerTask
  <2> SUFFICES ASSUME ReportsInv PROVE RS!OneRecordPerTask
    OBVIOUS
  <2>1. RS!Cardinality(RS!Written) <= MaxRecords BY WrittenCounted DEF ReportsInv, StoreOK
  <2>2. ASSUME NEW t \in RS!Tasks
        PROVE  RS!Cardinality({k \in 1 .. MaxKeys : records[k][t] # <<>>}) <= 1
    <3> DEFINE Ks == {k \in 1 .. MaxKeys : records[k][t] # <<>>}
    <3>1. \A k, l \in Ks : k = l BY DEF ReportsInv, StoreOK, Records, ReportBounds
    <3> HIDE DEF Ks
    <3>2. RS!Cardinality(Ks) = Cardinality(Ks)
      BY DEF RS!Cardinality, Cardinality, RS!IsFiniteSet, IsFiniteSet
    <3>3. Ks = {} => RS!Cardinality(Ks) <= 1 BY <3>2, FS_EmptySet
    <3>4. ASSUME Ks # {} PROVE RS!Cardinality(Ks) <= 1
      <4>1. PICK k \in Ks : TRUE BY <3>4
      <4>2. Ks = {k} BY <3>1, <4>1
      <4>3. Cardinality({k}) = 1 BY FS_Singleton
      <4> QED BY <3>2, <4>2, <4>3
    <3> QED BY <3>3, <3>4 DEF Ks
  <2> QED BY <2>1, <2>2 DEF RS!OneRecordPerTask
<1> QED BY <1>1, <1>2, <1>3, PTL DEF RS!Spec

\* The log of a task is what its one file says.
Said(h) == [i \in DOMAIN h |-> h[i].request]

LEMMA LogIs ==
  ASSUME ReportBounds, StoreTypeOK, StoreOK, NEW t \in RS!Tasks
  PROVE  /\ \A k \in Records : records[k][t] # <<>> => RS!LogOf(t) = Said(records[k][t])
         /\ (\A k \in Records : records[k][t] = <<>>) => RS!LogOf(t) = <<>>
<1> DEFINE Ks == {k \in 1 .. MaxKeys : records[k][t] # <<>>}
<1>1. ASSUME NEW k \in Records, records[k][t] # <<>>
      PROVE  RS!LogOf(t) = Said(records[k][t])
  <2>1. k \in Ks /\ \A l \in Ks : l = k BY <1>1 DEF StoreOK, Records, ReportBounds
  <2>2. (CHOOSE l \in Ks : TRUE) = k /\ Ks # {} BY <2>1
  <2> QED BY <2>2 DEF RS!LogOf, Said
<1>2. (\A k \in Records : records[k][t] = <<>>) => RS!LogOf(t) = <<>>
  BY DEF RS!LogOf, Records, ReportBounds
<1> QED BY <1>1, <1>2

LEMMA LogLater ==
  ASSUME ReportBounds, ReportsInv', NEW t \in RS!Tasks
  PROVE  /\ \A k \in Records : records'[k][t] # <<>> => RS!LogOf(t)' = Said(records'[k][t])
         /\ (\A k \in Records : records'[k][t] = <<>>) => RS!LogOf(t)' = <<>>
<1> DEFINE Ks == {k \in 1 .. MaxKeys : records'[k][t] # <<>>}
<1>1. ASSUME NEW k \in Records, records'[k][t] # <<>>
      PROVE  RS!LogOf(t)' = Said(records'[k][t])
  <2>1. k \in Ks /\ \A l \in Ks : l = k BY <1>1 DEF ReportsInv, StoreOK, Records, ReportBounds
  <2>2. (CHOOSE l \in Ks : TRUE) = k /\ Ks # {} BY <2>1
  <2> QED BY <2>2 DEF RS!LogOf, Said
<1>2. (\A k \in Records : records'[k][t] = <<>>) => RS!LogOf(t)' = <<>>
  BY DEF RS!LogOf, Records, ReportBounds
<1> QED BY <1>1, <1>2

\* A report that is answered "ok" is in the log.
LEMMA TellsTrue ==
  ASSUME ReportBounds, ReportsInv, NEW r \in ReportNames, NEW what \in {"ok", "failed"},
         records' = records, RS!Answers(r, what),
         what = "ok" => \E i \in DOMAIN records[key][TaskOf(r)] : records[key][TaskOf(r)][i].request = r
  PROVE  RS!Log!Tell(r)
<1> DEFINE t == TaskOf(r)
           log == [u \in RS!Tasks |-> RS!LogOf(u)]
<1>1. t \in RS!Tasks /\ key \in Records
  BY TasksAre DEF ReportsInv, StoreTypeOK, Records, ReportBounds
<1>2. what = "ok" => RS!Log!Logged(r)
  <2>1. SUFFICES ASSUME what = "ok" PROVE RS!Log!Logged(r)
    OBVIOUS
  <2>2. PICK i \in DOMAIN records[key][t] : records[key][t][i].request = r BY <2>1
  <2>3. records[key][t] # <<>> BY <2>2
  <2>4. RS!LogOf(t) = Said(records[key][t]) BY <1>1, <2>3, LogIs DEF ReportsInv
  <2>5. log[t] = Said(records[key][t]) BY <1>1, <2>4
  <2>6. i \in DOMAIN log[t] /\ log[t][i] = r BY <2>2, <2>5 DEF Said
  <2> QED BY <2>6 DEF RS!Log!Logged
<1>3. UNCHANGED log BY DEF RS!LogOf
<1>4. told' = [told EXCEPT ![r] = @ \cup {what}] BY DEF RS!Answers
<1> QED BY <1>2, <1>3, <1>4 DEF RS!Log!Tell

LEMMA LogStays == UNCHANGED <<records, told>> => UNCHANGED RS!Log!vars
BY DEF RS!Log!vars, RS!LogOf

LEMMA SaidIs ==
  ASSUME NEW h \in Seq(Line)
  PROVE  /\ Said(h) \in Seq(ReportNames) /\ Len(Said(h)) = Len(h)
         /\ \A i \in 1 .. Len(h) : Said(h)[i] = h[i].request
<1>0. DOMAIN h = 1 .. Len(h) /\ Len(h) \in Nat /\ \A i \in 1 .. Len(h) : h[i] \in Line
  OBVIOUS
<1>1. DOMAIN h = 1 .. Len(h) /\ Len(h) \in Nat /\ \A i \in 1 .. Len(h) : h[i].request \in ReportNames
  BY <1>0 DEF Line
<1>2. Said(h) \in [1 .. Len(h) -> ReportNames] BY <1>1 DEF Said
<1> QED BY <1>1, <1>2 DEF Said

\* One report takes its place in the log.
LEMMA Takes ==
  ASSUME ReportBounds, ReportsInv, NEW r \in ReportNames, RS!Replace(r), records' # records
  PROVE  RS!Log!Take(r)
<1> DEFINE t == TaskOf(r)
           h == reporter[r].history
           g == Append(h, NewLine(r))
           log == [u \in RS!Tasks |-> RS!LogOf(u)]
<1>0. /\ ~RS!ClockWentBack(h) /\ records' = [records EXCEPT ![reporter[r].key][t] = g]
      /\ UNCHANGED told /\ reporter[r].pc = "write"
  BY DEF RS!Replace, NewLine
<1>t. /\ time \in {0, 1} /\ key \in Records
      /\ reporter[r] \in [pc : ReporterSteps, key : 0 .. MaxKeys, history : Seq(Line)]
      /\ records \in [0 .. MaxKeys -> [RS!Tasks -> Seq(Line)]]
  BY DEF ReportsInv, StoreTypeOK, Records, ReportBounds
<1>u. t \in RS!Tasks /\ ReporterOK(r) /\ ReportsInv' BY TasksAre, Replaced DEF ReportsInv
<1>1. /\ ~RS!ClockWentBack(h) /\ records' = [records EXCEPT ![reporter[r].key][t] = g]
      /\ UNCHANGED told /\ reporter[r].pc = "write" /\ time \in {0, 1}
      /\ reporter[r] \in [pc : ReporterSteps, key : 0 .. MaxKeys, history : Seq(Line)]
      /\ ReporterOK(r) /\ t \in RS!Tasks /\ key \in Records /\ ReportsInv'
      /\ records \in [0 .. MaxKeys -> [RS!Tasks -> Seq(Line)]]
  BY <1>0, <1>t, <1>u
<1>2. /\ reporter[r].key = key /\ h = records[key][t] /\ h \in Seq(Line)
      /\ Len(h) = ExpectedOf(r) /\ Len(h) < MaxHistory
      /\ \A i \in DOMAIN h : EventOf(h[i].request) # EventOf(r)
  BY <1>1 DEF ReporterOK, WithKey, WithHistory
<1>3. g \in Seq(Line) /\ g # <<>>
  <2>1. RS!Loads(h) BY <1>1, <1>2 DEF ReportsInv, StoreOK
  <2> QED BY <1>1, <1>2, <2>1, OneLineMore
<1>4. /\ records'[key][t] = g
      /\ \A k \in Records, u \in RS!Tasks : k # key \/ u # t => records'[k][u] = records[k][u]
  BY <1>1, <1>2 DEF Records
<1>5. RS!LogOf(t) = Said(h)
  <2>1. CASE h # <<>> BY <1>1, <1>2, <2>1, LogIs DEF ReportsInv
  <2>2. CASE h = <<>>
    <3>1. \A k \in Records : records[k][t] = <<>>
      BY <1>1, <1>2, <2>2 DEF ReportsInv, StoreOK, ReporterOK, WithKey
    <3>2. RS!LogOf(t) = <<>> BY <1>1, <3>1, LogIs DEF ReportsInv
    <3> QED BY <2>2, <3>2 DEF Said
  <2> QED BY <2>1, <2>2
<1>6. RS!LogOf(t)' = Said(g)
  <2>1. RS!LogOf(t)' = Said(records'[key][t]) BY <1>1, <1>3, <1>4, LogLater
  <2> QED BY <1>4, <2>1
<1>7. ASSUME NEW u \in RS!Tasks, u # t PROVE RS!LogOf(u)' = RS!LogOf(u)
  <2>1. \A k \in Records : records'[k][u] = records[k][u] BY <1>4, <1>7
  <2> HIDE DEF t
  <2>2. CASE \A k \in Records : records[k][u] = <<>>
    <3>1. RS!LogOf(u) = <<>> BY <2>2, LogIs DEF ReportsInv
    <3>2. RS!LogOf(u)' = <<>> BY <1>1, <2>1, <2>2, LogLater
    <3> QED BY <3>1, <3>2
  <2>3. CASE \E k \in Records : records[k][u] # <<>>
    <3>1. PICK k \in Records : records[k][u] # <<>> BY <2>3
    <3>2. RS!LogOf(u) = Said(records[k][u]) BY <3>1, LogIs DEF ReportsInv
    <3>3. RS!LogOf(u)' = Said(records'[k][u]) BY <1>1, <2>1, <3>1, LogLater
    <3> QED BY <2>1, <3>2, <3>3
  <2> QED BY <2>2, <2>3
<1>8. Said(g) = Append(Said(h), r)
  <2>1. /\ Len(g) = Len(h) + 1 /\ Len(h) \in Nat /\ g[Len(h) + 1] = NewLine(r)
        /\ \A i \in 1 .. Len(h) : g[i] = h[i]
        /\ DOMAIN g = 1 .. Len(h) + 1 /\ DOMAIN h = 1 .. Len(h)
    BY <1>1, <1>2 DEF NewLine, Line
  <2>2. /\ Said(h) \in Seq(ReportNames) /\ Len(Said(h)) = Len(h)
        /\ \A i \in 1 .. Len(h) : Said(h)[i] = h[i].request
    BY <1>2, SaidIs
  <2>3. /\ Said(g) \in Seq(ReportNames) /\ Len(Said(g)) = Len(h) + 1
        /\ \A i \in 1 .. Len(h) + 1 : Said(g)[i] = g[i].request
    BY <1>3, <2>1, SaidIs
  <2>4. Append(Said(h), r) \in Seq(ReportNames) /\ Len(Append(Said(h), r)) = Len(h) + 1 BY <2>2
  <2>5. \A i \in 1 .. Len(h) + 1 : Said(g)[i] = Append(Said(h), r)[i]
    BY <2>1, <2>2, <2>3 DEF NewLine
  <2> QED BY <2>3, <2>4, <2>5
<1> HIDE DEF g
<1>9. log' = [log EXCEPT ![t] = Append(@, r)] BY <1>1, <1>5, <1>6, <1>7, <1>8 DEF RS!Tasks
<1>10. Len(log[t]) = ExpectedOf(r) /\ \A i \in DOMAIN log[t] : EventOf(log[t][i]) # EventOf(r)
  <2>1. log[t] = Said(h) BY <1>1, <1>5
  <2> QED BY <1>2, <2>1, SaidIs
<1> QED BY <1>1, <1>9, <1>10 DEF RS!Log!Take

\* TaskReports implements TaskLog: whatever dies, is lost, fails or is sent again, the store is
\* a log per task in which every event stands once, at the revision its reporter expected, and
\* nobody is told ok of a report that is not in it.
THEOREM ReportsImplementTheLog ==
  ASSUME ReportBounds PROVE RS!Spec => ImplementsTaskLog
<1>1. RS!Init => ReportsInv BY StoreStart
<1>2. ReportsInv /\ [RS!Next]_RS!vars => ReportsInv' BY ReportsStep
<1>3. RS!Init => RS!Log!Init BY DEF RS!Init, RS!Log!Init, RS!LogOf, RS!Tasks
<1>4. ReportsInv /\ [RS!Next]_RS!vars => [RS!Log!Next]_RS!Log!vars
  <2> SUFFICES ASSUME ReportsInv, [RS!Next]_RS!vars PROVE [RS!Log!Next]_RS!Log!vars
    OBVIOUS
  <2>1. ASSUME NEW r \in ReportNames, RS!Replace(r) PROVE [RS!Log!Next]_RS!Log!vars
    <3>1. CASE records' # records BY <2>1, <3>1, Takes DEF RS!Log!Next
    <3>2. CASE records' = records
      <4>1. RS!Fails(r) => RS!Log!Tell(r) BY <3>2, TellsTrue DEF RS!Fails
      <4>2. RS!Fails(r) \/ UNCHANGED told BY <2>1 DEF RS!Replace
      <4> QED BY <3>2, <4>1, <4>2, LogStays DEF RS!Log!Next
    <3> QED BY <3>1, <3>2
  <2>2. ASSUME NEW r \in ReportNames, RS!Fails(r), records' = records PROVE [RS!Log!Next]_RS!Log!vars
    BY <2>2, TellsTrue DEF RS!Fails, RS!Log!Next
  <2>3. ASSUME NEW r \in ReportNames, RS!LoadTask(r) PROVE [RS!Log!Next]_RS!Log!vars
    <3>1. CASE RS!Replayed(r, records[reporter[r].key][TaskOf(r)]) /\ RS!Answers(r, "ok")
      <4>1. reporter[r].key = key BY <2>3 DEF RS!LoadTask, ReportsInv, ReporterOK, WithKey
      <4> QED BY <2>3, <3>1, <4>1, TellsTrue DEF RS!Replayed, RS!LoadTask, RS!disk, RS!Log!Next
    <3>2. CASE RS!Fails(r) BY <2>2, <2>3, <3>2 DEF RS!LoadTask, RS!disk
    <3>3. CASE UNCHANGED told BY <2>3, <3>3, LogStays DEF RS!LoadTask, RS!disk
    <3> QED BY <2>3, <3>1, <3>2, <3>3 DEF RS!LoadTask
  <2>4. ASSUME NEW r \in ReportNames, RS!Sync(r) PROVE [RS!Log!Next]_RS!Log!vars
    <3>1. CASE RS!Answers(r, "ok")
      BY <2>4, <3>1, TellsTrue DEF RS!Sync, ReportsInv, ReporterOK, RS!Log!Next
    <3>2. CASE RS!Fails(r) BY <2>2, <2>4, <3>2 DEF RS!Sync
    <3> QED BY <2>4, <3>1, <3>2 DEF RS!Sync
  <2>5. ASSUME NEW r \in ReportNames,
               RS!ScanRecords(r) \/ RS!MakeKey(r) \/ RS!CountRecords(r) \/ RS!Verify(r) \/ RS!GivesUp(r)
        PROVE  [RS!Log!Next]_RS!Log!vars
    <3>1. records' = records /\ (RS!Fails(r) \/ UNCHANGED told)
      BY <2>5 DEF RS!ScanRecords, RS!MakeKey, RS!CountRecords, RS!Verify, RS!GivesUp, RS!disk
    <3> QED BY <2>2, <3>1, LogStays
  <2>6. ASSUME NEW r \in ReportNames,
               \/ RS!Send(r) \/ RS!ReadKey(r) \/ RS!LockKey(r) \/ RS!LockTask(r) \/ RS!LockIndex(r)
               \/ RS!Dies(r)
        PROVE  [RS!Log!Next]_RS!Log!vars
    BY <2>6, LogStays
    DEF RS!Send, RS!ReadKey, RS!LockKey, RS!LockTask, RS!LockIndex, RS!Dies, RS!Takes, RS!disk
  <2>7. CASE RS!KeyLost \/ RS!Edit \/ RS!SetClock \/ UNCHANGED RS!vars
    BY <2>7, LogStays DEF RS!KeyLost, RS!Edit, RS!SetClock, RS!vars, RS!disk
  <2> QED BY <2>1, <2>3, <2>4, <2>5, <2>6, <2>7 DEF RS!Next, RS!Report
<1> QED BY <1>1, <1>2, <1>3, <1>4, PTL DEF RS!Spec, ImplementsTaskLog, RS!ImplementsTaskLog, RS!Log!Spec

(* The governed operations of the capabilities *)

\* What reads needs no preflight and no reread: so it is in the manifest.
OpBounds ==
  /\ 0 \notin OpIds
  /\ \A s \in OpScenarios :
       /\ s.class.evidence \in BOOLEAN /\ s.class.reread \in BOOLEAN
       /\ s.class.risk = "read" => ~s.class.evidence /\ ~s.class.reread

OpRecords ==
  [status : K!Statuses,
   next : {"none", "confirm", "execute", "query", "manual_review", "stop", "reprepare"},
   revision : Nat, permission : K!Permissions, print : Nat, attempts : Nat,
   tries : 0 .. K!Verification]

Waiting == {"none", "awaiting_confirmation", "queued"}

\* An operation that may have been written: nobody can cancel it any more.
Claimed(r) ==
  /\ r.status \in {"running", "verifying", "succeeded", "failed", "outcome_unknown"}
  /\ r.next # "reprepare"

\* It is reread only when its outcome is unknown, and not more often than it may be.
Reviewed(r) ==
  /\ r.status \in Waiting \cup {"running"} => r.tries = 0
  /\ ~class.reread => r.tries = 0
  /\ class.reread /\ r.status = "outcome_unknown" =>
       (r.next = "manual_review" <=> r.tries = K!Verification)

\* What a step may make of a record, if the operation does not succeed with it.
Evolves(r, s) ==
  /\ s \in OpRecords /\ Reviewed(s)
  /\ r.status \in K!Final => s = r
  /\ Claimed(r) => Claimed(s)
  /\ K!Unknown(r) => K!Unknown(s)
  /\ s.status = "succeeded" => r.status = "succeeded"
  /\ s.status \in {"none", "awaiting_confirmation"} =>
       r.status \in {"none", "awaiting_confirmation"}
  /\ r.status # "running" /\ s.status = "running" =>
       r.status = "queued" /\ r.revision = policy.revision
  /\ r.status # "none" => s.print = r.print
  /\ r.tries <= s.tries

NotWritten(o) == writes[o] = 0 /\ o \notin flying

RecordOK(o) ==
  /\ Reviewed(record[o])
  /\ ~Claimed(record[o]) => NotWritten(o)
  /\ writes[o] + (IF o \in flying THEN 1 ELSE 0) <= 1
  /\ record[o].status = "succeeded" /\ class.risk # "read" =>
       writes[o] = 1 /\ (class.evidence => record[o].print < target)

Dispatching == {"dispatch", "submit", "reading", "complete"}

\* The operation that a call dispatches or has queued; no other call does.
OwnOf(c) == IF asked[c].pc \in Dispatching THEN asked[c].op ELSE work[c].op

CallOK(c) ==
  /\ asked[c].pc \in Dispatching \cup {"confirm", "confirming"} => asked[c].op \in OpIds
  /\ work[c].state = "none" <=> work[c].op = 0
  /\ work[c].op # 0 => asked[c].pc = "done" /\ class.risk # "read"
  /\ asked[c].pc = "submit" => class.risk # "read"
  /\ asked[c].pc \in {"reading", "complete"} => class.risk = "read"
  /\ asked[c].pc \in {"dispatch", "submit"} => NotWritten(asked[c].op)
  /\ OwnOf(c) # 0 =>
       /\ record[OwnOf(c)].status \notin {"none", "awaiting_confirmation"}
       /\ \A d \in OpCalls : OwnOf(c) = OwnOf(d) => c = d

Before == {"check", "preflight", "reject", "claim"}
ToWrite == {"boundary", "execute", "write"}
Written == {"follow", "verify", "settle"}

\* The print of a preflight is newer than those of all that succeeded.
Newest(print) ==
  /\ print <= target
  /\ \A p \in OpIds : record[p].status = "succeeded" => record[p].print < print

WorkOK(c) ==
  LET o == work[c].op
      at == worker[c].pc
  IN /\ at # "idle" =>
          /\ work[c].state = "running"
          /\ \A d \in OpCalls : worker[d].pc # "idle" => d = c
     /\ at \in Before \/ work[c].state = "pending" => NotWritten(o)
     /\ at \in ToWrite => NotWritten(o)
     /\ at \in Written => writes[o] = 1
     /\ at \in (ToWrite \cup Written) \ {"settle"} => record[o].status = "running"
     /\ at = "settle" => record[o].status = "verifying" /\ record[o].tries = 0
     /\ at \in ToWrite \cup Written => record[o].next # "reprepare"
     /\ at = "finish" => (worker[c].result = "succeeded" <=> record[o].status = "succeeded")
     /\ class.evidence /\ at = "claim" => Newest(worker[c].print)
     /\ class.evidence /\ at \in ToWrite \cup Written => Newest(record[o].print)
     /\ class.evidence /\ at \in Written => record[o].print < target

StageOK ==
  /\ stage \notin {"up", "degraded"} => \A c \in OpCalls : worker[c].pc = "idle"
  /\ rereading # 0 => record[rereading].tries > 0
  /\ stage = "items" => \A c \in todo : c \in OpCalls /\ work[c].state = "running"
  /\ stage \in {"terminal", "again"} =>
       \A c \in todo : c \in OpCalls /\ work[c].state = "terminal"
  /\ stage = "ops" => todo \subseteq OpIds

\* What a call is about to queue waits, or has been refused.
CallsWait ==
  \A c \in OpCalls :
    asked[c].pc \in {"dispatch", "submit"} =>
      record[asked[c].op].status \in {"queued"} \cup K!Final

OpsInv ==
  /\ K!TypeOK
  /\ \A o \in OpIds : RecordOK(o)
  /\ \A c \in OpCalls : CallOK(c)
  /\ \A c \in OpCalls : WorkOK(c)
  /\ K!NoBlindWrite /\ K!ItemAgrees
  /\ StageOK /\ CallsWait

(* What each update makes of a record *)

LEMMA RecordsAreTyped ==
  ASSUME K!TypeOK
  PROVE  record \in [OpIds -> OpRecords]
BY DEF K!TypeOK, OpRecords

LEMMA TheSame ==
  ASSUME NEW r \in OpRecords, Reviewed(r)
  PROVE  Evolves(r, r)
<1>1. r.tries \in Nat BY DEF OpRecords, K!Verification
<1> QED BY <1>1 DEF Evolves, K!Final, OpRecords

LEMMA DoubtEvolves ==
  ASSUME NEW r \in OpRecords, Reviewed(r)
  PROVE  Evolves(r, K!Doubted(r))
<1>1. CASE r.status \notin K!InFlight
  <2>1. K!Doubted(r) = r BY <1>1 DEF K!Doubted
  <2> QED BY <2>1, TheSame
<1>2. CASE r.status \in K!InFlight
  <2> DEFINE s == K!Doubted(r)
  <2>1. s = [r EXCEPT !.status = "outcome_unknown", !.next = K!UnknownNext(r),
                      !.attempts = IF @ = 0 THEN 1 ELSE @]
    BY <1>2 DEF K!Doubted
  <2>2. K!UnknownNext(r) \in {"manual_review", "query"} BY DEF K!UnknownNext
  <2>3. s \in OpRecords
    <3>1. (IF r.attempts = 0 THEN 1 ELSE r.attempts) \in Nat BY DEF OpRecords
    <3>2. K!UnknownNext(r) \in {"none", "confirm", "execute", "query", "manual_review", "stop",
                               "reprepare"}
      BY <2>2
    <3>3. "outcome_unknown" \in K!Statuses BY DEF K!Statuses
    <3> QED BY <2>1, <3>1, <3>2, <3>3 DEF OpRecords
  <2>4. s.status = "outcome_unknown" /\ s.next = K!UnknownNext(r) /\ s.tries = r.tries
        /\ s.print = r.print
    BY <2>1 DEF OpRecords
  <2>5. r.tries \in 0 .. 3 BY DEF OpRecords, K!Verification
  <2>6. Reviewed(s) BY <2>4, <2>5 DEF Reviewed, K!UnknownNext, K!Verification, Waiting
  <2>7. Evolves(r, s)
    <3> HIDE DEF s
    <3> QED
      BY <1>2, <2>2, <2>3, <2>4, <2>5, <2>6
      DEF Evolves, K!InFlight, K!Final, Claimed, K!Unknown
  <2> QED BY <2>7
<1> QED BY <1>1, <1>2

\* A record whose status and next action change.
Changed(r, status, next) == [r EXCEPT !.status = status, !.next = next]

LEMMA ChangedFields ==
  ASSUME NEW r \in OpRecords, NEW status \in K!Statuses,
         NEW next \in {"none", "confirm", "execute", "query", "manual_review", "stop", "reprepare"}
  PROVE  /\ Changed(r, status, next) \in OpRecords
         /\ Changed(r, status, next).status = status /\ Changed(r, status, next).next = next
         /\ Changed(r, status, next).tries = r.tries /\ Changed(r, status, next).print = r.print
         /\ Changed(r, status, next).revision = r.revision
         /\ Changed(r, status, next).permission = r.permission
BY DEF Changed, OpRecords

\* Failed, by who works on it
LEMMA FailEvolves ==
  ASSUME NEW r \in OpRecords, Reviewed(r), r.status \in K!InFlight, ~K!Unknown(r)
  PROVE  Evolves(r, Changed(r, "failed", "stop"))
<1> DEFINE s == Changed(r, "failed", "stop")
<1>1. s \in OpRecords /\ s.status = "failed" /\ s.next = "stop" /\ s.tries = r.tries
      /\ s.print = r.print
  BY ChangedFields DEF K!Statuses
<1>2. r.tries \in 0 .. 3 BY DEF OpRecords, K!Verification
<1>3. Reviewed(s) BY <1>1 DEF Reviewed, Waiting
<1>9. Evolves(r, s)
  <2> HIDE DEF s
  <2> QED BY <1>1, <1>2, <1>3 DEF Evolves, K!InFlight, K!Final, Claimed, K!Unknown
<1> QED BY <1>9

\* Rejected, cancelled, expired or queued, while it waits
LEMMA WaitingEvolves ==
  ASSUME NEW r \in OpRecords, Reviewed(r),
         r.status \in {"awaiting_confirmation", "queued"},
         NEW status \in {"failed", "cancelled", "expired", "queued"},
         NEW next \in {"reprepare", "stop", "execute"},
         status = "queued" => next = "execute",
         status = "failed" => next = "reprepare"
  PROVE  Evolves(r, Changed(r, status, next))
<1> DEFINE s == Changed(r, status, next)
<1>1. s \in OpRecords /\ s.status = status /\ s.next = next /\ s.tries = r.tries
      /\ s.print = r.print
  BY ChangedFields DEF K!Statuses
<1>2. r.tries \in 0 .. 3 BY DEF OpRecords, K!Verification
<1>3. Reviewed(s) BY <1>1 DEF Reviewed, Waiting
<1>9. Evolves(r, s)
  <2> HIDE DEF s
  <2> QED BY <1>1, <1>2, <1>3 DEF Evolves, K!Final, Claimed, K!Unknown
<1> QED BY <1>9

LEMMA RunsEvolves ==
  ASSUME NEW r \in OpRecords, Reviewed(r), r.status = "queued",
         r.revision = policy.revision
  PROVE  LET s == [r EXCEPT !.status = "running", !.next = "query", !.attempts = @ + 1]
         IN Evolves(r, s) /\ s.status = "running" /\ s.next = "query" /\ s.print = r.print
<1> DEFINE s == [r EXCEPT !.status = "running", !.next = "query", !.attempts = @ + 1]
<1>0. "running" \in K!Statuses /\ r.attempts + 1 \in Nat BY DEF OpRecords, K!Statuses
<1>1. s \in OpRecords /\ s.status = "running" /\ s.next = "query" /\ s.tries = r.tries
      /\ s.print = r.print
  BY <1>0 DEF OpRecords
<1>2. r.tries \in 0 .. 3 BY DEF OpRecords, K!Verification
<1>3. Reviewed(s) BY <1>1 DEF Reviewed, Waiting
<1>4. Evolves(r, s)
  <2> HIDE DEF s
  <2> QED BY <1>1, <1>2, <1>3 DEF Evolves, K!Final, Claimed, K!Unknown
<1> QED BY <1>1, <1>4

LEMMA VerifyEvolves ==
  ASSUME NEW r \in OpRecords, Reviewed(r), r.status = "running"
  PROVE  Evolves(r, Changed(r, "verifying", "query"))
<1> DEFINE s == Changed(r, "verifying", "query")
<1>1. s \in OpRecords /\ s.status = "verifying" /\ s.next = "query" /\ s.tries = r.tries
      /\ s.print = r.print
  BY ChangedFields DEF K!Statuses
<1>2. r.tries \in 0 .. 3 BY DEF OpRecords, K!Verification
<1>3. Reviewed(s) BY <1>1 DEF Reviewed, Waiting
<1>9. Evolves(r, s)
  <2> HIDE DEF s
  <2> QED BY <1>1, <1>2, <1>3 DEF Evolves, K!Final, Claimed, K!Unknown
<1> QED BY <1>9

LEMMA BeginEvolves ==
  ASSUME NEW r \in OpRecords, Reviewed(r), r.status = "outcome_unknown", class.reread,
         r.tries < K!Verification
  PROVE  LET s == [r EXCEPT !.status = "verifying", !.next = "query", !.tries = @ + 1]
         IN Evolves(r, s) /\ s.tries > 0
<1> DEFINE s == [r EXCEPT !.status = "verifying", !.next = "query", !.tries = @ + 1]
<1>2. r.tries \in 0 .. 3 /\ r.tries + 1 \in 0 .. 3 BY DEF OpRecords, K!Verification
<1>1. s \in OpRecords /\ s.status = "verifying" /\ s.next = "query"
      /\ s.tries = r.tries + 1 /\ s.print = r.print
  BY <1>2 DEF OpRecords, K!Statuses, K!Verification
<1>3. Reviewed(s) BY <1>1 DEF Reviewed, Waiting
<1>4. Evolves(r, s)
  <2> HIDE DEF s
  <2> QED BY <1>1, <1>2, <1>3 DEF Evolves, K!Final, Claimed, K!Unknown
<1> QED BY <1>1, <1>2, <1>4

LEMMA ResolveEvolves ==
  ASSUME NEW r \in OpRecords, Reviewed(r), r.status = "verifying"
  PROVE  /\ Evolves(r, K!Resolved(r, K!Assessment))
         /\ K!Resolved(r, K!Assessment).status = "outcome_unknown"
<1> DEFINE s == K!Resolved(r, K!Assessment)
           n == IF r.tries >= K!Verification THEN "manual_review" ELSE "query"
<1>1. s = Changed(r, "outcome_unknown", n) BY DEF K!Resolved, K!Assessment, Changed
<1>2. n \in {"manual_review", "query"}
  OBVIOUS
<1>3. s \in OpRecords /\ s.status = "outcome_unknown" /\ s.next = n /\ s.tries = r.tries
      /\ s.print = r.print
  BY <1>1, <1>2, ChangedFields DEF K!Statuses
<1>4. r.tries \in 0 .. 3 BY DEF OpRecords, K!Verification
<1>5. Reviewed(s) BY <1>3, <1>4 DEF Reviewed, Waiting, K!Verification
<1>6. Evolves(r, s)
  <2> HIDE DEF s, n
  <2> QED BY <1>2, <1>3, <1>4, <1>5 DEF Evolves, K!Final, Claimed, K!Unknown
<1> QED BY <1>3, <1>6

(* What holds of everybody who does not move *)

LEMMA RecordsAreReviewed ==
  ASSUME OpsInv, NEW o \in OpIds
  PROVE  record[o] \in OpRecords /\ Reviewed(record[o])
BY RecordsAreTyped DEF OpsInv, RecordOK

LEMMA NoneEvolves ==
  ASSUME OpsInv, record' = record
  PROVE  \A o \in OpIds : Evolves(record[o], record'[o])
BY RecordsAreReviewed, TheSame

LEMMA OneEvolves ==
  ASSUME OpsInv, NEW o \in OpIds, NEW s, Evolves(record[o], s),
         record' = [record EXCEPT ![o] = s]
  PROVE  /\ record' \in [OpIds -> OpRecords] /\ record'[o] = s
         /\ \A p \in OpIds : Evolves(record[p], record'[p])
         /\ \A p \in OpIds : p # o => record'[p] = record[p]
<1>1. record \in [OpIds -> OpRecords] /\ s \in OpRecords BY RecordsAreTyped DEF OpsInv, Evolves
<1>2. record'[o] = s /\ \A p \in OpIds : p # o => record'[p] = record[p] BY <1>1
<1>3. \A p \in OpIds : Evolves(record[p], record'[p]) BY <1>2, RecordsAreReviewed, TheSame
<1> QED BY <1>1, <1>2, <1>3

\* Becomes and Fail, as one change of a record
LEMMA BecomesChanges ==
  ASSUME OpsInv, NEW o \in OpIds, NEW status, NEW next, K!Becomes(o, status, next)
  PROVE  record' = [record EXCEPT ![o] = Changed(record[o], status, next)]
<1>1. record \in [OpIds -> OpRecords] BY RecordsAreTyped DEF OpsInv
<1> QED BY <1>1 DEF K!Becomes, Changed

Evolving == \A o \in OpIds : Evolves(record[o], record'[o])

Untouched == writes' = writes /\ flying' = flying

LEMMA RecordsKept ==
  ASSUME OpsInv, class' = class, Untouched, target' \in Nat, target <= target', Evolving
  PROVE  (\A o \in OpIds : RecordOK(o)') /\ K!NoBlindWrite'
<1>0. target \in Nat /\ record \in [OpIds -> OpRecords] BY RecordsAreTyped DEF OpsInv, K!TypeOK
<1>1. ASSUME NEW o \in OpIds PROVE RecordOK(o)'
  <2>1. RecordOK(o) /\ Evolves(record[o], record'[o]) BY <1>1 DEF OpsInv, Evolving
  <2>2. Reviewed(record'[o]) /\ Reviewed(record[o])' BY <2>1 DEF Evolves, Reviewed
  <2>3. (~Claimed(record[o]) => NotWritten(o))'
    BY <2>1 DEF Evolves, RecordOK, Untouched, NotWritten, Claimed
  <2>4. (writes[o] + (IF o \in flying THEN 1 ELSE 0) <= 1)' BY <2>1 DEF RecordOK, Untouched
  <2>5. ASSUME record'[o].status = "succeeded", class'.risk # "read"
        PROVE  writes'[o] = 1 /\ (class'.evidence => record'[o].print < target')
    <3>1. record[o].status = "succeeded" /\ record'[o] = record[o]
      BY <2>1, <2>5 DEF Evolves, K!Final
    <3>2. record[o].print \in Nat BY <1>0 DEF OpRecords
    <3> QED BY <1>0, <2>1, <2>5, <3>1, <3>2 DEF RecordOK, Untouched
  <2> QED BY <2>2, <2>3, <2>4, <2>5 DEF RecordOK
<1>2. \A o \in OpIds :
        record'[o].status = "succeeded" => record[o].status = "succeeded" /\ record'[o] = record[o]
  BY DEF Evolving, Evolves, K!Final
<1>3. K!NoBlindWrite' BY <1>2 DEF OpsInv, K!NoBlindWrite, K!Status, Evolving, Evolves
<1> QED BY <1>1, <1>3

\* The items, as a file each
SameItems ==
  \A c \in OpCalls :
    /\ work'[c].op = work[c].op
    /\ work'[c].state = "none" <=> work[c].state = "none"

\* No operation waits for a confirmation that it had.
Onward ==
  \A o \in OpIds :
    record'[o].status \in {"none", "awaiting_confirmation"} =>
      record[o].status \in {"none", "awaiting_confirmation"}

LEMMA EvolvingIsOnward ==
  ASSUME Evolving
  PROVE  Onward
BY DEF Evolving, Evolves, Onward

LEMMA CallsKept ==
  ASSUME OpsInv, OpBounds, class' = class, asked' = asked, Untouched, Onward,
         SameItems
  PROVE  \A c \in OpCalls : CallOK(c)'
<1> SUFFICES ASSUME NEW c \in OpCalls PROVE CallOK(c)'
  OBVIOUS
<1>1. \A d \in OpCalls : OwnOf(d)' = OwnOf(d) BY DEF OwnOf, SameItems
<1>2. CallOK(c) /\ \A d \in OpCalls : asked'[d] = asked[d] /\ work'[d].op = work[d].op
  BY DEF OpsInv, SameItems
<1>3. OwnOf(c) # 0 => OwnOf(c) \in OpIds BY <1>2 DEF CallOK, OwnOf, OpsInv, K!TypeOK
<1>4. (OwnOf(c) # 0 =>
       /\ record[OwnOf(c)].status \notin {"none", "awaiting_confirmation"}
       /\ \A d \in OpCalls : OwnOf(c) = OwnOf(d) => c = d)'
  <2>1. CASE OwnOf(c) = 0 BY <1>1, <2>1
  <2>2. CASE OwnOf(c) # 0
    <3>2. record'[OwnOf(c)].status \notin {"none", "awaiting_confirmation"}
      BY <1>2, <1>3, <2>2 DEF CallOK, Onward
    <3>3. \A d \in OpCalls : OwnOf(c) = OwnOf(d) => c = d BY <1>2, <2>2 DEF CallOK
    <3> QED BY <1>1, <3>2, <3>3
  <2> QED BY <2>1, <2>2
<1> QED BY <1>2, <1>4 DEF CallOK, NotWritten, Untouched, SameItems

\* A call takes a step.
LEMMA CallMoves ==
  ASSUME OpsInv, OpBounds, class' = class, work' = work, Untouched, Onward,
         NEW c \in OpCalls, NEW x, asked' = [asked EXCEPT ![c] = x],
         asked[c].pc # "done",
         x.pc \in Dispatching \cup {"confirm", "confirming"} => x.op \in OpIds,
         x.pc = "submit" => class.risk # "read",
         x.pc \in {"reading", "complete"} => class.risk = "read",
         x.pc \in {"dispatch", "submit"} => NotWritten(x.op),
         x.pc \in Dispatching =>
           /\ record'[x.op].status \notin {"none", "awaiting_confirmation"}
           /\ \A d \in OpCalls : d # c => OwnOf(d) # x.op
  PROVE  \A d \in OpCalls : CallOK(d)'
<1>1. asked'[c] = x /\ \A d \in OpCalls : d # c => asked'[d] = asked[d] BY DEF OpsInv, K!TypeOK
<1>2. work[c].op = 0 BY DEF OpsInv, CallOK
<1>3. \A d \in OpCalls : d # c => OwnOf(d)' = OwnOf(d) BY <1>1 DEF OwnOf
<1>4. OwnOf(c)' = IF x.pc \in Dispatching THEN x.op ELSE 0 BY <1>1, <1>2 DEF OwnOf
<1>5. \A d \in OpCalls : d # c /\ OwnOf(c)' # 0 => OwnOf(d) # OwnOf(c)' BY <1>4
<1>6. CallOK(c)'
  <2>1. (OwnOf(c) # 0 =>
         /\ record[OwnOf(c)].status \notin {"none", "awaiting_confirmation"}
         /\ \A d \in OpCalls : OwnOf(c) = OwnOf(d) => c = d)'
    BY <1>3, <1>4, <1>5
  <2>2. CallOK(c) BY DEF OpsInv
  <2> QED BY <1>1, <1>2, <2>1, <2>2 DEF CallOK, NotWritten, Untouched, Dispatching
<1>7. ASSUME NEW d \in OpCalls, d # c PROVE CallOK(d)'
  <2>1. CallOK(d) BY DEF OpsInv
  <2>2. OwnOf(d) # 0 => OwnOf(d) \in OpIds BY <2>1 DEF CallOK, OwnOf, OpsInv, K!TypeOK
  <2>3. (OwnOf(d) # 0 =>
         /\ record[OwnOf(d)].status \notin {"none", "awaiting_confirmation"}
         /\ \A e \in OpCalls : OwnOf(d) = OwnOf(e) => d = e)'
    <3>1. CASE OwnOf(d) = 0 BY <1>3, <1>7, <3>1
    <3>2. CASE OwnOf(d) # 0
      <4>2. record'[OwnOf(d)].status \notin {"none", "awaiting_confirmation"}
        BY <2>1, <2>2, <3>2 DEF CallOK, Onward
      <4>3. \A e \in OpCalls : OwnOf(d) = OwnOf(e) => d = e BY <2>1, <3>2 DEF CallOK
      <4> QED BY <1>3, <1>5, <1>7, <3>2, <4>2, <4>3
    <3> QED BY <3>1, <3>2
  <2> QED BY <1>1, <1>7, <2>1, <2>3 DEF CallOK, NotWritten, Untouched
<1> QED BY <1>6, <1>7

\* Nobody else touches what an execution works on.
Undisturbed ==
  \A c \in OpCalls :
    worker[c].pc \in ToWrite \cup Written => record'[work[c].op] = record[work[c].op]

LEMMA NewestKept ==
  ASSUME OpsInv, target' \in Nat, target <= target', Evolving, NEW print \in Nat,
         Newest(print)
  PROVE  Newest(print)'
<1>1. target \in Nat BY DEF OpsInv, K!TypeOK
<1> QED BY <1>1 DEF Newest, Evolving, Evolves, K!Final

LEMMA OpsOfWork ==
  ASSUME OpsInv, NEW c \in OpCalls, work[c].state # "none"
  PROVE  work[c].op \in OpIds /\ work[c].op # 0 /\ OwnOf(c) = work[c].op
         /\ class.risk # "read"
BY DEF OpsInv, K!TypeOK, CallOK, OwnOf, Dispatching

LEMMA WorksKept ==
  ASSUME OpsInv, class' = class, worker' = worker, Untouched, target' \in Nat,
         target <= target', Evolving, Undisturbed, NEW c \in OpCalls, work'[c] = work[c]
  PROVE  WorkOK(c)'
<1> DEFINE o == work[c].op
<1>0. WorkOK(c) /\ target \in Nat /\ record \in [OpIds -> OpRecords]
      /\ worker[c].print \in Nat
  BY RecordsAreTyped DEF OpsInv, K!TypeOK
<1>1. worker[c].pc # "idle" => o \in OpIds BY <1>0, OpsOfWork DEF WorkOK
<1>2. worker[c].pc \in ToWrite \cup Written => record'[o] = record[o] BY DEF Undisturbed
<1>3. worker[c].pc = "finish" =>
        (record'[o].status = "succeeded" <=> record[o].status = "succeeded")
  BY <1>1 DEF Evolving, Evolves, K!Final
<1>4. class.evidence /\ worker[c].pc = "claim" => Newest(worker[c].print)'
  BY <1>0, NewestKept DEF WorkOK
<1>5. class.evidence /\ worker[c].pc \in ToWrite \cup Written => Newest(record[o].print)'
  <2>1. HAVE class.evidence /\ worker[c].pc \in ToWrite \cup Written
  <2>2. record[o].print \in Nat /\ Newest(record[o].print)
    BY <1>0, <1>1, <2>1 DEF WorkOK, OpRecords, ToWrite, Written
  <2>3. record'[o].print = record[o].print BY <1>2, <2>1
  <2> DEFINE q == record[o].print
  <2>4. Newest(q) BY <2>2
  <2>5. q \in Nat BY <2>2
  <2>6. target <= target' /\ \A p \in OpIds : record'[p].status = "succeeded" =>
          record[p].status = "succeeded" /\ record'[p] = record[p]
    BY DEF Evolving, Evolves, K!Final
  <2> QED BY <1>0, <2>3, <2>4, <2>5, <2>6 DEF Newest
<1>6. class.evidence /\ worker[c].pc \in Written => record'[o].print < target'
  <2>1. HAVE class.evidence /\ worker[c].pc \in Written
  <2>2. record[o].print \in Nat /\ record[o].print < target
    BY <1>0, <1>1, <2>1 DEF WorkOK, OpRecords, Written
  <2> QED BY <1>0, <1>2, <2>1, <2>2
<1> QED BY <1>0, <1>2, <1>3, <1>4, <1>5, <1>6 DEF WorkOK, NotWritten, Untouched, Before, ToWrite, Written

LEMMA ItemsKept ==
  ASSUME OpsInv, Evolving, work' = work
  PROVE  K!ItemAgrees'
<1> SUFFICES ASSUME NEW c \in OpCalls, work[c].state = "terminal"
             PROVE  work[c].result = "succeeded" <=> record'[work[c].op].status = "succeeded"
  BY DEF K!ItemAgrees, K!Status
<1>1. work[c].op \in OpIds BY OpsOfWork
<1> QED BY <1>1 DEF OpsInv, K!ItemAgrees, K!Status, Evolving, Evolves, K!Final

LEMMA StageKept ==
  ASSUME OpsInv, OpBounds, Evolving, stage' = stage, todo' = todo,
         rereading' = rereading,
         stage \notin {"up", "degraded"} => worker' = worker,
         \A c \in OpCalls :
           /\ work[c].state = "running" /\ stage = "items" => work'[c].state = "running"
           /\ work[c].state = "terminal" => work'[c].state = "terminal"
  PROVE  StageOK'
<1>1. StageOK /\ record \in [OpIds -> OpRecords]
      /\ rereading \in OpIds \cup {0}
  BY RecordsAreTyped DEF OpsInv, K!TypeOK
<1>2. rereading # 0 => record'[rereading].tries > 0
  <2>1. HAVE rereading # 0
  <2>2. Evolves(record[rereading], record'[rereading]) /\ record[rereading].tries > 0
    BY <1>1, <2>1 DEF Evolving, StageOK
  <2>3. record[rereading].tries \in Nat /\ record'[rereading].tries \in Nat
    BY <1>1, <2>1, <2>2 DEF Evolves, OpRecords, K!Verification
  <2> QED BY <2>2, <2>3 DEF Evolves
<1> QED BY <1>1, <1>2 DEF StageOK

(* The steps of a call *)

AskedCalls ==
  [pc : {"idle", "prepare", "confirm", "confirming", "dispatch", "submit", "reading", "complete",
         "done"},
   op : OpIds \cup {0}, print : Nat]

\* An operation that succeeds in this step
Succeeds(o) ==
  /\ record[o].status \notin K!Final /\ ~K!Unknown(record[o]) /\ record[o].status # "none"
  /\ record'[o].status = "succeeded"

Outcomes == \A o \in OpIds : Evolves(record[o], record'[o]) \/ Succeeds(o)

LEMMA UndisturbedBy ==
  ASSUME OpsInv, NEW o \in OpIds,
         \A p \in OpIds : p # o => record'[p] = record[p],
         \/ record[o].status \in Waiting \cup {"outcome_unknown"} \/ record[o].tries > 0
         \/ class.risk = "read"
         \/ \E c \in OpCalls : asked[c].pc \in Dispatching /\ asked[c].op = o
  PROVE  Undisturbed
<1> SUFFICES ASSUME NEW d \in OpCalls, worker[d].pc \in ToWrite \cup Written
             PROVE  record'[work[d].op] = record[work[d].op]
  BY DEF Undisturbed
<1>1. work[d].state = "running" BY DEF OpsInv, WorkOK, ToWrite, Written
<1>2. work[d].op \in OpIds /\ work[d].op # 0 /\ OwnOf(d) = work[d].op /\ class.risk # "read"
  BY <1>1, OpsOfWork
<1>3. /\ record[work[d].op].status \in {"running", "verifying"}
      /\ record[work[d].op].status = "verifying" => record[work[d].op].tries = 0
      /\ record[work[d].op].status = "running" => record[work[d].op].tries = 0
  <2>1. Reviewed(record[work[d].op]) /\ WorkOK(d) BY <1>2, RecordsAreReviewed DEF OpsInv
  <2> QED BY <2>1 DEF WorkOK, ToWrite, Written, Reviewed, Waiting
<1>4. work[d].op # o
  <2>1. ~ \E c \in OpCalls : asked[c].pc \in Dispatching /\ asked[c].op = work[d].op
    <3> SUFFICES ASSUME NEW c \in OpCalls, asked[c].pc \in Dispatching,
                        asked[c].op = work[d].op
                 PROVE  FALSE
      OBVIOUS
    <3>1. OwnOf(c) = work[d].op BY DEF OwnOf
    <3>2. c = d BY <1>2, <3>1 DEF OpsInv, CallOK
    <3> QED BY <1>2, <3>2 DEF OpsInv, CallOK, Dispatching
  <2> QED BY <1>2, <1>3, <2>1 DEF Waiting
<1> QED BY <1>2, <1>4

LEMMA CallStep ==
  ASSUME OpsInv, OpBounds, NEW c \in OpCalls, NEW x \in AskedCalls,
         asked' = [asked EXCEPT ![c] = x],
         UNCHANGED <<class, policy, target, writes, flying, late, work, worker, rereading, stage,
                     todo>>,
         scopes' \in {"granted", "missing", "asked"},
         record' \in [OpIds -> OpRecords], Evolving, Undisturbed, CallsWait',
         asked[c].pc # "done",
         x.pc \in Dispatching \cup {"confirm", "confirming"} => x.op \in OpIds,
         x.pc = "submit" => class.risk # "read",
         x.pc \in {"reading", "complete"} => class.risk = "read",
         x.pc \in {"dispatch", "submit"} => NotWritten(x.op),
         x.pc \in Dispatching =>
           /\ record'[x.op].status \notin {"none", "awaiting_confirmation"}
           /\ \A d \in OpCalls : d # c => OwnOf(d) # x.op
  PROVE  OpsInv' /\ Outcomes
<1>0. target \in Nat /\ target <= target' /\ target' \in Nat BY DEF OpsInv, K!TypeOK
<1>1. K!TypeOK'
  <2>1. record' \in [OpIds -> [status : K!Statuses,
                         next : {"none", "confirm", "execute", "query", "manual_review", "stop",
                                 "reprepare"},
                         revision : Nat, permission : K!Permissions, print : Nat,
                         attempts : Nat, tries : 0 .. K!Verification]]
    BY DEF OpRecords
  <2>2. asked' \in [OpCalls ->
          [pc : {"idle", "prepare", "confirm", "confirming", "dispatch", "submit", "reading",
                 "complete", "done"},
           op : OpIds \cup {0}, print : Nat]]
    BY DEF OpsInv, K!TypeOK, AskedCalls
  <2> QED BY <2>1, <2>2 DEF OpsInv, K!TypeOK
<1>2. (\A o \in OpIds : RecordOK(o)') /\ K!NoBlindWrite' BY <1>0, RecordsKept DEF Untouched
<1>3. \A d \in OpCalls : CallOK(d)' BY CallMoves, EvolvingIsOnward DEF Untouched
<1>4. \A d \in OpCalls : WorkOK(d)' BY <1>0, WorksKept DEF Untouched
<1>5. K!ItemAgrees' /\ StageOK' BY ItemsKept, StageKept
<1>6. Outcomes BY DEF Evolving, Outcomes
<1> QED BY <1>1, <1>2, <1>3, <1>4, <1>5, <1>6 DEF OpsInv

\* The same, for what leaves the records alone.
LEMMA QuietCall ==
  ASSUME OpsInv, OpBounds, NEW c \in OpCalls, NEW x \in AskedCalls,
         asked' = [asked EXCEPT ![c] = x],
         UNCHANGED <<class, policy, target, writes, flying, late, work, worker, rereading, stage,
                     todo, record>>,
         scopes' \in {"granted", "missing", "asked"},
         asked[c].pc # "done",
         x.pc \in {"confirm", "confirming"} => x.op \in OpIds,
         x.pc \in Dispatching =>
           /\ asked[c].pc \in Dispatching /\ x.op = asked[c].op
           /\ x.pc = "submit" => class.risk # "read" /\ asked[c].pc = "dispatch"
           /\ x.pc \in {"reading", "complete"} => class.risk = "read"
           /\ x.pc # "dispatch"
  PROVE  OpsInv' /\ Outcomes
<1>1. record' \in [OpIds -> OpRecords] /\ Evolving /\ Undisturbed
  BY RecordsAreTyped, NoneEvolves DEF OpsInv, Evolving, Undisturbed
<1>4. CallsWait'
  <2>1. asked'[c] = x /\ \A d \in OpCalls : d # c => asked'[d] = asked[d] BY DEF OpsInv, K!TypeOK
  <2> QED BY <2>1 DEF OpsInv, CallsWait, Dispatching
<1>2. ASSUME x.pc \in Dispatching
      PROVE  /\ x.op \in OpIds /\ OwnOf(c) = x.op /\ x.op # 0
             /\ record'[x.op].status \notin {"none", "awaiting_confirmation"}
             /\ \A d \in OpCalls : d # c => OwnOf(d) # x.op
             /\ x.pc = "submit" => NotWritten(x.op)
  <2>1. OwnOf(c) = x.op /\ asked[c].op = x.op /\ asked[c].pc \in Dispatching /\ CallOK(c)
    BY <1>2 DEF OwnOf, OpsInv
  <2>2. x.op \in OpIds /\ x.op # 0 BY <2>1 DEF CallOK, OpBounds
  <2> QED BY <1>2, <2>1, <2>2 DEF CallOK
<1>3. x.pc \in Dispatching \cup {"confirm", "confirming"} => x.op \in OpIds BY <1>2
<1> QED BY <1>1, <1>2, <1>3, <1>4, CallStep DEF Dispatching

\* ReadsFor: what the call becomes
LEMMA ReadsForMoves ==
  ASSUME OpsInv, NEW c \in OpCalls, NEW op, NEW to, K!ReadsFor(c, op, to)
  PROVE  /\ scopes' \in {"granted", "missing", "asked"}
         /\ \/ asked' = [asked EXCEPT ![c] = K!Done]
            \/ \E p \in Nat : asked' = [asked EXCEPT ![c] = [pc |-> to, op |-> op, print |-> p]]
<1>1. target \in Nat /\ scopes \in {"granted", "missing", "asked"} BY DEF OpsInv, K!TypeOK
<1> QED BY <1>1 DEF K!ReadsFor, K!Asks, K!Ends

LEMMA DoneIsACall == K!Done \in AskedCalls /\ K!Done.pc = "done" /\ K!Done.op = 0
BY DEF K!Done, K!NoCall, AskedCalls

LEMMA PrepareKeeps ==
  ASSUME OpsInv, OpBounds, NEW c \in OpCalls, K!Prepare(c)
  PROVE  OpsInv' /\ Outcomes
<1>1. /\ UNCHANGED <<class, policy, target, writes, flying, late, work, worker, rereading, stage,
                     todo, record>>
      /\ asked[c].pc = "idle" /\ K!ReadsFor(c, 0, "prepare")
  BY DEF K!Prepare, K!New, K!At, K!remote
<1>2. scopes' \in {"granted", "missing", "asked"} BY <1>1, ReadsForMoves
<1>3. CASE asked' = [asked EXCEPT ![c] = K!Done]
  BY <1>1, <1>2, <1>3, DoneIsACall, QuietCall DEF Dispatching
<1>4. ASSUME NEW p \in Nat, asked' = [asked EXCEPT ![c] = [pc |-> "prepare", op |-> 0, print |-> p]]
      PROVE  OpsInv' /\ Outcomes
  <2> DEFINE x == [pc |-> "prepare", op |-> 0, print |-> p]
  <2>1. x \in AskedCalls /\ x.pc = "prepare" BY DEF AskedCalls
  <2>2. asked' = [asked EXCEPT ![c] = x] BY <1>4
  <2> HIDE DEF x
  <2> QED BY <1>1, <1>2, <2>1, <2>2, QuietCall DEF Dispatching
<1> QED BY <1>1, <1>3, <1>4, ReadsForMoves

LEMMA ConfirmKeeps ==
  ASSUME OpsInv, OpBounds, NEW c \in OpCalls, NEW o \in OpIds,
         K!Confirm(c, o)
  PROVE  OpsInv' /\ Outcomes
<1>1. /\ UNCHANGED <<class, policy, target, writes, flying, late, work, worker, rereading, stage,
                     todo, record>>
      /\ asked[c].pc \in {"idle", "confirm"} /\ K!ReadsFor(c, o, "confirming")
  BY DEF K!Confirm, K!New, K!At, K!remote
<1>2. scopes' \in {"granted", "missing", "asked"} BY <1>1, ReadsForMoves
<1>3. CASE asked' = [asked EXCEPT ![c] = K!Done]
  BY <1>1, <1>2, <1>3, DoneIsACall, QuietCall DEF Dispatching
<1>4. ASSUME NEW p \in Nat,
             asked' = [asked EXCEPT ![c] = [pc |-> "confirming", op |-> o, print |-> p]]
      PROVE  OpsInv' /\ Outcomes
  <2> DEFINE x == [pc |-> "confirming", op |-> o, print |-> p]
  <2>1. x \in AskedCalls /\ x.pc = "confirming" /\ x.op = o BY DEF AskedCalls
  <2>2. asked' = [asked EXCEPT ![c] = x] BY <1>4
  <2> HIDE DEF x
  <2> QED BY <1>1, <1>2, <2>1, <2>2, QuietCall DEF Dispatching
<1> QED BY <1>1, <1>3, <1>4, ReadsForMoves

LEMMA UnavailableKeeps ==
  ASSUME OpsInv, OpBounds, NEW c \in OpCalls, K!Unavailable(c)
  PROVE  OpsInv' /\ Outcomes
<1>1. /\ UNCHANGED <<class, policy, scopes, target, writes, flying, late, work, worker, rereading,
                     stage, todo, record>>
      /\ asked[c].pc = "confirm" /\ asked' = [asked EXCEPT ![c] = K!Done]
  BY DEF K!Unavailable, K!At, K!remote, K!Ends
<1>2. scopes' \in {"granted", "missing", "asked"} BY <1>1 DEF OpsInv, K!TypeOK
<1> QED BY <1>1, <1>2, DoneIsACall, QuietCall DEF Dispatching

\* A call that ends or changes its step while its operation, still waiting or its own, changes
LEMMA OwnChange ==
  ASSUME OpsInv, OpBounds, NEW c \in OpCalls, NEW x \in AskedCalls,
         asked' = [asked EXCEPT ![c] = x], asked[c].pc # "done",
         UNCHANGED <<class, policy, target, writes, flying, late, work, worker, rereading, stage,
                     todo>>,
         scopes' \in {"granted", "missing", "asked"},
         NEW o \in OpIds, NEW s, Evolves(record[o], s),
         record' = [record EXCEPT ![o] = s],
         \/ /\ record[o].status \in Waiting
            /\ s.status \in {"awaiting_confirmation", "queued"} \cup K!Final
         \/ asked[c].pc \in Dispatching /\ asked[c].op = o
         \/ class.risk = "read" /\ record[o].status \notin Waiting,
         \/ x.pc = "done"
         \/ /\ x.op = o
            /\ s.status \notin {"none", "awaiting_confirmation"}
            /\ \/ x.pc = "dispatch" /\ NotWritten(o) /\ s.status = "queued"
               \/ x.pc = "confirm"
               \/ x.pc \in {"reading", "complete"} /\ class.risk = "read"
            /\ \A d \in OpCalls : d # c => OwnOf(d) # o
         \/ x.pc = "confirm" /\ x.op = o
  PROVE  OpsInv' /\ Outcomes
<1>1. /\ record' \in [OpIds -> OpRecords] /\ record'[o] = s
      /\ \A p \in OpIds : p # o => record'[p] = record[p]
      /\ Evolving
  BY OneEvolves DEF Evolving
<1>2. Undisturbed BY <1>1, UndisturbedBy
<1>3. /\ x.pc \in Dispatching \cup {"confirm", "confirming"} => x.op \in OpIds
      /\ x.pc # "submit"
      /\ x.pc \in {"reading", "complete"} => class.risk = "read"
      /\ x.pc \in {"dispatch", "submit"} => NotWritten(x.op)
  BY DEF Dispatching
<1>4. x.pc \in Dispatching =>
           /\ record'[x.op].status \notin {"none", "awaiting_confirmation"}
           /\ \A d \in OpCalls : d # c => OwnOf(d) # x.op
  BY <1>1 DEF Dispatching
<1>5. CallsWait'
  <2>1. asked'[c] = x /\ \A d \in OpCalls : d # c => asked'[d] = asked[d] BY DEF OpsInv, K!TypeOK
  <2>2. x.pc \in {"dispatch", "submit"} => x.op = o /\ s.status = "queued"
    OBVIOUS
  <2>3. ASSUME NEW d \in OpCalls, d # c, asked[d].pc \in {"dispatch", "submit"},
               asked[d].op = o
        PROVE  s.status \in {"queued"} \cup K!Final
    <3>1. OwnOf(d) = o /\ o # 0 BY <2>3 DEF OwnOf, Dispatching, OpBounds
    <3>2. CASE class.risk = "read" /\ record[o].status \notin Waiting
      BY <2>3, <3>2 DEF OpsInv, CallsWait, Evolves, Waiting, K!Final
    <3>3. CASE asked[c].pc \in Dispatching /\ asked[c].op = o
      <4>1. OwnOf(c) = o BY <3>3 DEF OwnOf
      <4> QED BY <2>3, <3>1, <4>1 DEF OpsInv, CallOK
    <3>4. CASE record[o].status \in Waiting /\ s.status \in {"awaiting_confirmation", "queued"} \cup K!Final
      <4>1. record[o].status \notin {"none", "awaiting_confirmation"} BY <3>1 DEF OpsInv, CallOK
      <4> QED BY <3>4, <4>1 DEF Evolves
    <3> QED BY <3>2, <3>3, <3>4
  <2> QED BY <1>1, <2>1, <2>2, <2>3 DEF OpsInv, CallsWait
<1> QED BY <1>1, <1>2, <1>3, <1>4, <1>5, CallStep

\* Nobody dispatches an operation that is not confirmed.
LEMMA NobodyOwns ==
  ASSUME OpsInv, OpBounds, NEW o \in OpIds,
         record[o].status \in {"none", "awaiting_confirmation"}
  PROVE  NotWritten(o) /\ \A d \in OpCalls : OwnOf(d) # o
<1>1. NotWritten(o) BY DEF OpsInv, RecordOK, Claimed
<1>2. o # 0 BY DEF OpBounds
<1> QED BY <1>1, <1>2 DEF OpsInv, CallOK

\* A call goes on with what it has.
LEMMA GoesTo ==
  ASSUME OpsInv, NEW c \in OpCalls,
         NEW to \in {"idle", "prepare", "confirm", "confirming", "dispatch", "submit", "reading",
                     "complete", "done"},
         K!Goes(c, to)
  PROVE  \E x \in AskedCalls : /\ asked' = [asked EXCEPT ![c] = x]
                               /\ x.pc = to /\ x.op = asked[c].op
<1> DEFINE x == [asked[c] EXCEPT !.pc = to]
<1>1. asked \in [OpCalls -> AskedCalls] BY DEF OpsInv, K!TypeOK, AskedCalls
<1>2. x \in AskedCalls /\ x.pc = to /\ x.op = asked[c].op BY <1>1 DEF AskedCalls
<1>3. asked' = [asked EXCEPT ![c] = x] BY <1>1 DEF K!Goes
<1> QED BY <1>2, <1>3

\* The record of an operation after Fail
LEMMA Fails ==
  ASSUME OpsInv, NEW o \in OpIds, K!Fail(o),
         record[o].status \in K!InFlight => ~K!Unknown(record[o])
  PROVE  \E s \in OpRecords :
           /\ Evolves(record[o], s) /\ record' = [record EXCEPT ![o] = s]
           /\ \/ record[o].status \notin K!InFlight /\ s = record[o]
              \/ record[o].status \in K!InFlight /\ s.status = "failed" /\ s.next = "stop"
<1>1. record[o] \in OpRecords /\ Reviewed(record[o]) /\ record = [record EXCEPT ![o] = record[o]]
  BY RecordsAreReviewed DEF OpsInv, K!TypeOK
<1>2. CASE record[o].status \notin K!InFlight
  <2>1. record' = [record EXCEPT ![o] = record[o]] BY <1>1, <1>2 DEF K!Fail, K!Status
  <2> QED BY <1>1, <1>2, <2>1, TheSame
<1>3. CASE record[o].status \in K!InFlight
  <2>1. record' = [record EXCEPT ![o] = Changed(record[o], "failed", "stop")]
    BY <1>3, BecomesChanges DEF K!Fail, K!Status
  <2>2. Evolves(record[o], Changed(record[o], "failed", "stop")) BY <1>1, <1>3, FailEvolves
  <2>3. /\ Changed(record[o], "failed", "stop") \in OpRecords
        /\ Changed(record[o], "failed", "stop").status = "failed"
        /\ Changed(record[o], "failed", "stop").next = "stop"
    BY <1>1, ChangedFields DEF K!Statuses
  <2> QED BY <1>3, <2>1, <2>2, <2>3
<1> QED BY <1>2, <1>3

\* A call that ends while the record of an operation that waits, or is its own, changes
LEMMA EndsWith ==
  ASSUME OpsInv, OpBounds, NEW c \in OpCalls, K!Ends(c),
         asked[c].pc # "done",
         UNCHANGED <<class, policy, target, writes, flying, late, work, worker, rereading, stage,
                     todo>>,
         scopes' \in {"granted", "missing", "asked"},
         NEW o \in OpIds, NEW s, Evolves(record[o], s),
         record' = [record EXCEPT ![o] = s],
         \/ /\ record[o].status \in Waiting
            /\ s.status \in {"awaiting_confirmation", "queued"} \cup K!Final
         \/ asked[c].pc \in Dispatching /\ asked[c].op = o
  PROVE  OpsInv' /\ Outcomes
BY DoneIsACall, OwnChange DEF K!Ends

LEMMA EndsQuietly ==
  ASSUME OpsInv, OpBounds, NEW c \in OpCalls, K!Ends(c),
         asked[c].pc # "done",
         UNCHANGED <<class, policy, target, writes, flying, late, work, worker, rereading, stage,
                     todo, record>>,
         scopes' \in {"granted", "missing", "asked"}
  PROVE  OpsInv' /\ Outcomes
BY DoneIsACall, QuietCall DEF K!Ends, Dispatching

LEMMA PreparedKeeps ==
  ASSUME OpsInv, OpBounds, NEW c \in OpCalls, K!Prepared(c)
  PROVE  OpsInv' /\ Outcomes
<1>1. /\ UNCHANGED <<class, policy, scopes, target, writes, flying, late, work, worker, rereading,
                     stage, todo>>
      /\ asked[c].pc = "prepare"
  BY DEF K!Prepared, K!At, K!remote
<1>2. scopes' \in {"granted", "missing", "asked"} BY <1>1 DEF OpsInv, K!TypeOK
<1>3. CASE K!Ends(c) /\ UNCHANGED record BY <1>1, <1>2, <1>3, EndsQuietly
<1>4. CASE ~(K!Ends(c) /\ UNCHANGED record)
  <2> DEFINE o == CHOOSE o \in OpIds : K!Status(o) = "none"
             confirm == policy.permission = "confirm_each"
             status == IF confirm THEN "awaiting_confirmation" ELSE "queued"
             next == IF confirm THEN "confirm" ELSE "execute"
             s == [K!Unprepared EXCEPT
                      !.status = status, !.next = next, !.revision = policy.revision, !.permission = policy.permission,
                      !.print = asked[c].print]
             x == IF ~confirm THEN [pc |-> "dispatch", op |-> o, print |-> 0]
                  ELSE IF class.desktop THEN [pc |-> "confirm", op |-> o, print |-> 0]
                  ELSE K!Done
  <2>1. /\ \E p \in OpIds : K!Status(p) = "none"
        /\ record' = [record EXCEPT ![o] = s]
        /\ asked' = [asked EXCEPT ![c] = x]
    BY <1>4 DEF K!Prepared
  <2>2. o \in OpIds /\ record[o].status = "none" BY <2>1 DEF K!Status
  <2>3. x \in AskedCalls BY <2>2, DoneIsACall DEF AskedCalls
  <2>4. \/ x.pc = "done"
        \/ x.pc = "confirm" /\ x.op = o
        \/ x.pc = "dispatch" /\ x.op = o /\ ~confirm
    BY DoneIsACall
  <2>5. /\ policy.revision \in Nat /\ policy.permission \in K!Permissions
        /\ asked[c].print \in Nat
    BY DEF OpsInv, K!TypeOK
  <2>6. status \in {"awaiting_confirmation", "queued"} /\ next \in {"confirm", "execute"}
    OBVIOUS
  <2>7. s \in OpRecords /\ s.tries = 0 /\ s.status = status
    <3> HIDE DEF confirm, status, next
    <3>1. K!Unprepared \in OpRecords /\ K!Unprepared.tries = 0
      BY DEF K!Unprepared, OpRecords, K!Statuses, K!Permissions, K!Verification
    <3>2. status \in K!Statuses BY <2>6 DEF K!Statuses
    <3>3. next \in {"none", "confirm", "execute", "query", "manual_review", "stop", "reprepare"}
      BY <2>6
    <3> QED BY <2>5, <3>1, <3>2, <3>3 DEF OpRecords
  <2>8. record[o].tries = 0 BY <2>2, RecordsAreReviewed DEF Reviewed, Waiting
  <2>9. Reviewed(s)
    <3> HIDE DEF s, o
    <3> QED BY <2>7 DEF Reviewed, Waiting
  <2>10. Evolves(record[o], s)
    <3> HIDE DEF s, o
    <3> QED BY <2>2, <2>6, <2>7, <2>8, <2>9 DEF Evolves, K!Final, Claimed, K!Unknown
  <2>11. NotWritten(o) /\ \A d \in OpCalls : OwnOf(d) # o BY <2>2, NobodyOwns
  <2> HIDE DEF s, o, x
  <2>12. record[o].status \in Waiting /\ s.status \in {"awaiting_confirmation", "queued"} \cup K!Final
    BY <2>2, <2>6, <2>7 DEF Waiting
  <2>13. x.pc = "dispatch" => s.status = "queued" BY <2>4, <2>7
  <2>14. \/ x.pc = "done"
         \/ /\ x.op = o
            /\ s.status \notin {"none", "awaiting_confirmation"}
            /\ \/ x.pc = "dispatch" /\ NotWritten(o) /\ s.status = "queued"
               \/ x.pc = "confirm"
               \/ x.pc \in {"reading", "complete"} /\ class.risk = "read"
            /\ \A d \in OpCalls : d # c => OwnOf(d) # o
         \/ x.pc = "confirm" /\ x.op = o
    BY <2>4, <2>11, <2>13
  <2> QED BY <1>1, <1>2, <2>1, <2>2, <2>3, <2>10, <2>12, <2>14, OwnChange
<1> QED BY <1>3, <1>4

LEMMA ConfirmedKeeps ==
  ASSUME OpsInv, OpBounds, NEW c \in OpCalls, K!Confirmed(c)
  PROVE  OpsInv' /\ Outcomes
<1> DEFINE o == asked[c].op
<1>1. /\ UNCHANGED <<class, policy, scopes, target, writes, flying, late, work, worker, rereading,
                     stage, todo>>
      /\ asked[c].pc = "confirming"
  BY DEF K!Confirmed, K!At, K!remote
<1>2. scopes' \in {"granted", "missing", "asked"} /\ o \in OpIds
  BY <1>1 DEF OpsInv, K!TypeOK, CallOK
<1>3. record[o] \in OpRecords /\ Reviewed(record[o]) BY <1>2, RecordsAreReviewed
<1>4. CASE K!Ends(c) /\ UNCHANGED record BY <1>1, <1>2, <1>4, EndsQuietly
<1>5. CASE ~(K!Ends(c) /\ UNCHANGED record)
  <2>1. /\ record[o].status = "awaiting_confirmation"
        /\ \/ K!Becomes(o, "expired", "reprepare") /\ K!Ends(c)
           \/ K!Becomes(o, "failed", "reprepare") /\ K!Ends(c)
           \/ K!Becomes(o, "queued", "execute") /\ K!Goes(c, "dispatch")
    BY <1>5 DEF K!Confirmed, K!Op, K!Pending, K!Rejected
  <2>2. record[o].status \in Waiting BY <2>1 DEF Waiting
  <2>3. ASSUME NEW status \in {"failed", "expired"}, K!Becomes(o, status, "reprepare"), K!Ends(c)
        PROVE  OpsInv' /\ Outcomes
    <3> DEFINE s == Changed(record[o], status, "reprepare")
    <3>1. record' = [record EXCEPT ![o] = s] BY <1>2, <2>3, BecomesChanges
    <3>2. Evolves(record[o], s) BY <1>3, <2>1, <2>3, WaitingEvolves
    <3>3. s.status = status BY <1>3, <2>3, ChangedFields DEF K!Statuses
    <3>4. s.status \in {"awaiting_confirmation", "queued"} \cup K!Final BY <3>3 DEF K!Final
    <3> HIDE DEF s
    <3> QED BY <1>1, <1>2, <2>2, <2>3, <3>1, <3>2, <3>4, EndsWith
  <2>4. ASSUME K!Becomes(o, "queued", "execute"), K!Goes(c, "dispatch")
        PROVE  OpsInv' /\ Outcomes
    <3> DEFINE s == Changed(record[o], "queued", "execute")
    <3>1. record' = [record EXCEPT ![o] = s] BY <1>2, <2>4, BecomesChanges
    <3>2. Evolves(record[o], s) BY <1>3, <2>1, WaitingEvolves
    <3>3. s.status = "queued" BY <1>3, ChangedFields DEF K!Statuses
    <3>4. PICK x \in AskedCalls : asked' = [asked EXCEPT ![c] = x] /\ x.pc = "dispatch" /\ x.op = o
      BY <2>4, GoesTo
    <3>5. NotWritten(o) /\ \A d \in OpCalls : OwnOf(d) # o BY <1>2, <2>1, NobodyOwns
    <3> HIDE DEF s
    <3> QED BY <1>1, <1>2, <2>2, <3>1, <3>2, <3>3, <3>4, <3>5, OwnChange
  <2> QED BY <2>1, <2>3, <2>4
<1> QED BY <1>4, <1>5

LEMMA DispatchKeeps ==
  ASSUME OpsInv, OpBounds, NEW c \in OpCalls, K!Dispatch(c)
  PROVE  OpsInv' /\ Outcomes
<1> DEFINE o == asked[c].op
<1>1. /\ UNCHANGED <<class, policy, scopes, target, writes, flying, late, work, worker, rereading,
                     stage, todo>>
      /\ asked[c].pc = "dispatch" /\ class.risk # "read"
  BY DEF K!Dispatch, K!At, K!remote
<1>2. scopes' \in {"granted", "missing", "asked"} /\ o \in OpIds
  BY <1>1 DEF OpsInv, K!TypeOK, CallOK, Dispatching
<1>3. CASE K!Ends(c) /\ UNCHANGED record BY <1>1, <1>2, <1>3, EndsQuietly
<1>4. CASE K!Ends(c) /\ K!Fail(o) /\ record[o].status = "queued"
  <2>1. ~K!Unknown(record[o]) BY <1>4 DEF K!Unknown
  <2>2. PICK s \in OpRecords : Evolves(record[o], s) /\ record' = [record EXCEPT ![o] = s]
    BY <1>2, <1>4, <2>1, Fails
  <2> QED BY <1>1, <1>2, <1>4, <2>2, EndsWith DEF Dispatching
<1>5. CASE K!Goes(c, "submit") /\ UNCHANGED record
  <2>1. PICK x \in AskedCalls : asked' = [asked EXCEPT ![c] = x] /\ x.pc = "submit" /\ x.op = o
    BY <1>5, GoesTo
  <2> QED BY <1>1, <1>2, <1>5, <2>1, QuietCall DEF Dispatching
<1> QED BY <1>3, <1>4, <1>5 DEF K!Dispatch, K!Op, K!Status

LEMMA ClaimReadKeeps ==
  ASSUME OpsInv, OpBounds, NEW c \in OpCalls, K!ClaimRead(c)
  PROVE  OpsInv' /\ Outcomes
<1> DEFINE o == asked[c].op
<1>1. /\ UNCHANGED <<class, policy, scopes, target, writes, flying, late, work, worker, rereading,
                     stage, todo>>
      /\ asked[c].pc = "dispatch" /\ class.risk = "read"
  BY DEF K!ClaimRead, K!At, K!remote
<1>2. scopes' \in {"granted", "missing", "asked"} /\ o \in OpIds
  BY <1>1 DEF OpsInv, K!TypeOK, CallOK, Dispatching
<1>3. record[o] \in OpRecords /\ Reviewed(record[o]) BY <1>2, RecordsAreReviewed
<1>4. CASE K!Ends(c) /\ UNCHANGED record BY <1>1, <1>2, <1>4, EndsQuietly
<1>5. CASE record[o].status = "queued" /\ K!Ends(c) /\ K!Becomes(o, "failed", "reprepare")
  <2> DEFINE s == Changed(record[o], "failed", "reprepare")
  <2>1. record' = [record EXCEPT ![o] = s] BY <1>2, <1>5, BecomesChanges
  <2>2. Evolves(record[o], s) BY <1>3, <1>5, WaitingEvolves
  <2> HIDE DEF s
  <2> QED BY <1>1, <1>2, <1>5, <2>1, <2>2, EndsWith DEF Dispatching
<1>6. CASE /\ record[o].status = "queued" /\ K!Current(record[o])
           /\ record' = [record EXCEPT ![o].status = "running", ![o].next = "query",
                                       ![o].attempts = @ + 1]
           /\ K!Goes(c, "reading")
  <2> DEFINE s == [record[o] EXCEPT !.status = "running", !.next = "query", !.attempts = @ + 1]
  <2>1. record' = [record EXCEPT ![o] = s] BY <1>2, <1>6 DEF OpsInv, K!TypeOK
  <2>2. Evolves(record[o], s) /\ s.status = "running" BY <1>3, <1>6, RunsEvolves DEF K!Current
  <2>3. PICK x \in AskedCalls : asked' = [asked EXCEPT ![c] = x] /\ x.pc = "reading" /\ x.op = o
    BY <1>6, GoesTo
  <2>4. OwnOf(c) = o /\ o # 0 BY <1>1, <1>2 DEF OwnOf, Dispatching, OpBounds
  <2>5. \A d \in OpCalls : d # c => OwnOf(d) # o BY <2>4 DEF OpsInv, CallOK
  <2> HIDE DEF s
  <2> QED BY <1>1, <1>2, <2>1, <2>2, <2>3, <2>5, OwnChange DEF Dispatching
<1> QED
  BY <1>4, <1>5, <1>6
  DEF K!ClaimRead, K!Op, K!Status, K!Claim, K!Rejected

LEMMA SubmitKeeps ==
  ASSUME OpsInv, OpBounds, NEW c \in OpCalls, K!Submit(c)
  PROVE  OpsInv' /\ Outcomes
<1> DEFINE o == asked[c].op
           w == [op |-> o, state |-> "pending", result |-> "none"]
<1>1. /\ UNCHANGED <<class, policy, scopes, target, writes, flying, late, worker, rereading, stage,
                     todo>>
      /\ asked[c].pc = "submit" /\ K!Ends(c)
  BY DEF K!Submit, K!At, K!remote
<1>2. /\ scopes' \in {"granted", "missing", "asked"} /\ o \in OpIds /\ o # 0
      /\ OwnOf(c) = o /\ NotWritten(o) /\ class.risk # "read"
      /\ work[c].op = 0 /\ work[c].state = "none" /\ worker[c].pc = "idle"
  BY <1>1 DEF OpsInv, K!TypeOK, CallOK, WorkOK, Dispatching, OpBounds, OwnOf
<1>3. CASE work' = [work EXCEPT ![c] = w] /\ UNCHANGED record
  <2>1. asked' = [asked EXCEPT ![c] = K!Done] BY <1>1 DEF K!Ends
  <2>2. /\ work'[c] = w /\ \A d \in OpCalls : d # c => work'[d] = work[d]
        /\ asked'[c] = K!Done /\ \A d \in OpCalls : d # c => asked'[d] = asked[d]
    BY <1>3, <2>1 DEF OpsInv, K!TypeOK
  <2>3. Evolving /\ Onward /\ Undisturbed
    BY <1>3, NoneEvolves, EvolvingIsOnward DEF Evolving, Undisturbed
  <2>4. target \in Nat /\ target' \in Nat /\ target <= target' BY <1>1 DEF OpsInv, K!TypeOK
  <2>5. K!TypeOK'
    <3>1. w \in [op : OpIds \cup {0}, state : {"none", "pending", "running", "terminal"},
                 result : {"none", "succeeded", "failed", "unknown"}]
      BY <1>2
    <3>2. work' \in [OpCalls ->
            [op : OpIds \cup {0}, state : {"none", "pending", "running", "terminal"},
             result : {"none", "succeeded", "failed", "unknown"}]]
      BY <1>3, <3>1 DEF OpsInv, K!TypeOK
    <3>3. asked' \in [OpCalls ->
            [pc : {"idle", "prepare", "confirm", "confirming", "dispatch", "submit", "reading",
                   "complete", "done"},
             op : OpIds \cup {0}, print : Nat]]
      BY <2>1, DoneIsACall DEF OpsInv, K!TypeOK, AskedCalls
    <3> QED BY <1>1, <1>3, <3>2, <3>3 DEF OpsInv, K!TypeOK
  <2>6. (\A p \in OpIds : RecordOK(p)') /\ K!NoBlindWrite'
    BY <1>1, <2>3, <2>4, RecordsKept DEF Untouched
  <2>7. \A d \in OpCalls : OwnOf(d)' = OwnOf(d) BY <1>2, <2>2, DoneIsACall DEF OwnOf, Dispatching
  <2>8. ASSUME NEW d \in OpCalls PROVE CallOK(d)'
    <3>1. (OwnOf(d) # 0 =>
           /\ record[OwnOf(d)].status \notin {"none", "awaiting_confirmation"}
           /\ \A e \in OpCalls : OwnOf(d) = OwnOf(e) => d = e)'
      BY <1>3, <2>7 DEF OpsInv, CallOK
    <3>2. CASE d = c BY <1>1, <1>2, <2>2, <3>1, <3>2, DoneIsACall DEF CallOK, Dispatching
    <3>3. CASE d # c
      <4>1. CallOK(d) BY DEF OpsInv
      <4> QED BY <1>1, <2>2, <3>1, <3>3, <4>1 DEF CallOK, NotWritten
    <3> QED BY <3>2, <3>3
  <2>9. ASSUME NEW d \in OpCalls PROVE WorkOK(d)'
    <3>1. CASE d = c BY <1>1, <1>2, <2>2, <3>1 DEF WorkOK, NotWritten, Before, ToWrite, Written
    <3>2. CASE d # c BY <1>1, <2>2, <2>3, <2>4, <3>2, WorksKept DEF Untouched
    <3> QED BY <3>1, <3>2
  <2>10. K!ItemAgrees'
    <3> SUFFICES ASSUME NEW d \in OpCalls, work'[d].state = "terminal"
                 PROVE  work'[d].result = "succeeded" <=> record'[work'[d].op].status = "succeeded"
      BY DEF K!ItemAgrees, K!Status
    <3>1. work'[d] = work[d] BY <2>2
    <3> QED BY <1>3, <3>1 DEF OpsInv, K!ItemAgrees, K!Status
  <2>11. StageOK' BY <1>1, <1>2, <2>2, <2>3, StageKept
  <2>12. CallsWait' BY <1>3, <2>2, DoneIsACall DEF OpsInv, CallsWait
  <2> QED BY <2>3, <2>5, <2>6, <2>8, <2>9, <2>10, <2>11, <2>12 DEF OpsInv, Outcomes, Evolving
<1>4. CASE K!Fail(o) /\ UNCHANGED work
  <2>1. record[o].status \in {"queued"} \cup K!Final BY <1>1 DEF OpsInv, CallsWait
  <2>2. ~K!Unknown(record[o]) BY <2>1 DEF K!Unknown, K!Final
  <2>3. PICK s \in OpRecords : Evolves(record[o], s) /\ record' = [record EXCEPT ![o] = s]
    BY <1>2, <1>4, <2>2, Fails
  <2> QED BY <1>1, <1>2, <1>4, <2>3, EndsWith DEF Dispatching
<1> QED BY <1>3, <1>4 DEF K!Submit, K!Op

\* What reads is never reread, and needs no preflight.
LEMMA ReadsAreReadOnce ==
  ASSUME OpsInv, OpBounds, class.risk = "read", NEW o \in OpIds
  PROVE  /\ record[o].tries = 0 /\ ~class.reread /\ ~class.evidence
         /\ record[o].status \in K!InFlight => ~K!Unknown(record[o])
<1>1. ~class.reread /\ ~class.evidence BY DEF OpsInv, K!TypeOK, OpBounds
<1>2. record[o].tries = 0 BY <1>1, RecordsAreReviewed DEF Reviewed
<1> QED BY <1>1, <1>2 DEF K!InFlight, K!Unknown

LEMMA ReadKeeps ==
  ASSUME OpsInv, OpBounds, NEW c \in OpCalls, K!Read(c)
  PROVE  OpsInv' /\ Outcomes
<1> DEFINE o == asked[c].op
<1>1. /\ UNCHANGED <<class, policy, target, writes, flying, late, work, worker, rereading,
                     stage, todo>>
      /\ asked[c].pc = "reading" /\ K!Asks
  BY DEF K!Read, K!At, K!remote
<1>2. /\ scopes' \in {"granted", "missing", "asked"} /\ o \in OpIds /\ o # 0
      /\ class.risk = "read" /\ OwnOf(c) = o
  BY <1>1 DEF OpsInv, K!TypeOK, K!Asks, CallOK, Dispatching, OwnOf, OpBounds
<1>3. record[o] \in OpRecords /\ Reviewed(record[o]) BY <1>2, RecordsAreReviewed
<1>4. CASE K!Ends(c) /\ K!Fail(o)
  <2>1. record[o].status \in K!InFlight => ~K!Unknown(record[o]) BY <1>2, ReadsAreReadOnce
  <2>2. PICK s \in OpRecords : Evolves(record[o], s) /\ record' = [record EXCEPT ![o] = s]
    BY <1>2, <1>4, <2>1, Fails
  <2> QED BY <1>1, <1>2, <1>4, <2>2, EndsWith DEF Dispatching
<1>5. CASE K!Goes(c, "complete") /\ UNCHANGED record
  <2>1. PICK x \in AskedCalls : asked' = [asked EXCEPT ![c] = x] /\ x.pc = "complete" /\ x.op = o
    BY <1>5, GoesTo
  <2> QED BY <1>1, <1>2, <1>5, <2>1, QuietCall DEF Dispatching
<1>6. CASE /\ record[o].status = "running" /\ K!Becomes(o, "verifying", "query")
           /\ K!Goes(c, "complete")
  <2> DEFINE s == Changed(record[o], "verifying", "query")
  <2>1. record' = [record EXCEPT ![o] = s] BY <1>2, <1>6, BecomesChanges
  <2>2. Evolves(record[o], s) BY <1>3, <1>6, VerifyEvolves
  <2>3. s.status = "verifying" BY <1>3, ChangedFields DEF K!Statuses
  <2>4. PICK x \in AskedCalls : asked' = [asked EXCEPT ![c] = x] /\ x.pc = "complete" /\ x.op = o
    BY <1>6, GoesTo
  <2>5. \A d \in OpCalls : d # c => OwnOf(d) # o BY <1>2 DEF OpsInv, CallOK
  <2> HIDE DEF s
  <2> QED BY <1>1, <1>2, <2>1, <2>2, <2>3, <2>4, <2>5, OwnChange DEF Dispatching
<1> QED BY <1>4, <1>5, <1>6 DEF K!Read, K!Op, K!Status

\* An operation in flight that is not known to be of unknown outcome succeeds.
LEMMA Completes ==
  ASSUME OpsInv, NEW o \in OpIds, K!Complete(o), ~K!Unknown(record[o]),
         record[o].status \in {"running", "verifying"}
  PROVE  /\ record' \in [OpIds -> OpRecords]
         /\ \A p \in OpIds : p # o => record'[p] = record[p]
         /\ record'[o].status = "succeeded" /\ record'[o].next = "stop"
         /\ record'[o].tries = record[o].tries /\ record'[o].print = record[o].print
         /\ Reviewed(record'[o]) /\ Claimed(record'[o])
         /\ Onward /\ Outcomes
<1> DEFINE s == Changed(record[o], "succeeded", "stop")
<1>1. record[o] \in OpRecords /\ Reviewed(record[o])
      /\ record \in [OpIds -> OpRecords]
  BY RecordsAreReviewed, RecordsAreTyped DEF OpsInv
<1>2. s \in OpRecords /\ s.status = "succeeded" /\ s.next = "stop"
      /\ s.tries = record[o].tries /\ s.print = record[o].print
  BY <1>1, ChangedFields DEF K!Statuses
<1>3. record' = [record EXCEPT ![o] = s] BY BecomesChanges DEF K!Complete, K!Status
<1> HIDE DEF s
<1>4. /\ record' \in [OpIds -> OpRecords] /\ record'[o] = s
      /\ \A p \in OpIds : p # o => record'[p] = record[p]
  BY <1>1, <1>2, <1>3
<1>5. Reviewed(s) /\ Claimed(s) BY <1>1, <1>2 DEF Reviewed, Claimed, Waiting
<1>6. Succeeds(o) BY <1>2, <1>4 DEF Succeeds, K!Final
<1>7. Outcomes BY <1>4, <1>6, RecordsAreReviewed, TheSame DEF Outcomes
<1>8. Onward BY <1>2, <1>4 DEF Onward
<1> QED BY <1>2, <1>4, <1>5, <1>7, <1>8

LEMMA CompletedKeeps ==
  ASSUME OpsInv, OpBounds, NEW c \in OpCalls, K!Completed(c)
  PROVE  OpsInv' /\ Outcomes
<1> DEFINE o == asked[c].op
<1>1. /\ UNCHANGED <<class, policy, scopes, target, writes, flying, late, work, worker, rereading,
                     stage, todo>>
      /\ asked[c].pc = "complete" /\ K!Ends(c) /\ K!Complete(o)
  BY DEF K!Completed, K!At, K!remote, K!Op
<1>2. /\ scopes' \in {"granted", "missing", "asked"} /\ o \in OpIds /\ o # 0
      /\ class.risk = "read" /\ OwnOf(c) = o
  BY <1>1 DEF OpsInv, K!TypeOK, CallOK, Dispatching, OwnOf, OpBounds
<1>3. CASE record[o].status \notin {"running", "verifying"}
  <2>1. UNCHANGED record BY <1>1, <1>3 DEF K!Complete, K!Status
  <2> QED BY <1>1, <1>2, <2>1, EndsQuietly
<1>4. CASE record[o].status \in {"running", "verifying"}
  <2>1. /\ record[o].tries = 0 /\ ~class.evidence /\ ~class.reread
        /\ ~K!Unknown(record[o])
    BY <1>2, <1>4, ReadsAreReadOnce DEF K!InFlight
  <2>2. /\ record' \in [OpIds -> OpRecords]
        /\ \A p \in OpIds : p # o => record'[p] = record[p]
        /\ record'[o].status = "succeeded" /\ record'[o].next = "stop"
        /\ record'[o].tries = record[o].tries /\ record'[o].print = record[o].print
        /\ Reviewed(record'[o]) /\ Claimed(record'[o])
        /\ Onward /\ Outcomes
    BY <1>1, <1>2, <1>4, <2>1, Completes
  <2>3. K!TypeOK'
    <3>1. asked' \in [OpCalls ->
            [pc : {"idle", "prepare", "confirm", "confirming", "dispatch", "submit", "reading",
                   "complete", "done"},
             op : OpIds \cup {0}, print : Nat]]
      BY <1>1, DoneIsACall DEF OpsInv, K!TypeOK, AskedCalls, K!Ends
    <3> QED BY <1>1, <2>2, <3>1 DEF OpsInv, K!TypeOK, OpRecords
  <2>4. ASSUME NEW p \in OpIds PROVE RecordOK(p)'
    <3>1. RecordOK(p) BY DEF OpsInv
    <3>2. Reviewed(record[p])' BY <1>1, <2>2, <3>1 DEF RecordOK, Reviewed
    <3>3. (~Claimed(record[p]) => NotWritten(p))'
      BY <1>1, <2>2, <3>1 DEF RecordOK, Claimed, NotWritten
    <3> QED BY <1>1, <1>2, <2>2, <3>1, <3>2, <3>3 DEF RecordOK
  <2>5. \A d \in OpCalls : CallOK(d)'
    BY <1>1, <2>2, DoneIsACall, CallMoves DEF K!Ends, Untouched, Dispatching
  <2>6. \A d \in OpCalls : work[d].state = "none" /\ worker[d].pc = "idle"
    BY <1>2, OpsOfWork DEF OpsInv, WorkOK
  <2>7. \A d \in OpCalls : WorkOK(d)' BY <1>1, <2>6 DEF WorkOK, Before, ToWrite, Written
  <2>8. K!NoBlindWrite' /\ K!ItemAgrees' BY <1>1, <2>1, <2>6 DEF K!NoBlindWrite, K!ItemAgrees
  <2>9. StageOK' BY <1>1, <2>2 DEF OpsInv, StageOK, K!TypeOK
  <2>10. CallsWait'
    <3>1. asked'[c] = K!Done /\ \A d \in OpCalls : d # c => asked'[d] = asked[d]
      BY <1>1 DEF OpsInv, K!TypeOK, K!Ends
    <3>2. \A d \in OpCalls : d # c => OwnOf(d) # o BY <1>2 DEF OpsInv, CallOK
    <3>3. \A d \in OpCalls :
            asked'[d].pc \in {"dispatch", "submit"} =>
              record'[asked'[d].op].status \in {"queued"} \cup K!Final
      <4> SUFFICES ASSUME NEW d \in OpCalls, asked'[d].pc \in {"dispatch", "submit"}
                   PROVE  record'[asked'[d].op].status \in {"queued"} \cup K!Final
        OBVIOUS
      <4>1. d # c /\ asked'[d] = asked[d] BY <3>1, DoneIsACall
      <4>2. asked[d].op # o /\ asked[d].op \in OpIds
        BY <3>2, <4>1 DEF OwnOf, Dispatching, OpsInv, CallOK
      <4> QED BY <2>2, <4>1, <4>2 DEF OpsInv, CallsWait
    <3> QED BY <3>3 DEF CallsWait
  <2> QED BY <2>2, <2>3, <2>4, <2>5, <2>7, <2>8, <2>9, <2>10 DEF OpsInv
<1> QED BY <1>3, <1>4

LEMMA CallStepsKeep ==
  ASSUME OpsInv, OpBounds, NEW c \in OpCalls, K!CallSteps(c)
  PROVE  OpsInv' /\ Outcomes
BY PrepareKeeps, PreparedKeeps, UnavailableKeeps, ConfirmedKeeps, DispatchKeeps, SubmitKeeps,
   ClaimReadKeeps, ReadKeeps, CompletedKeeps, ConfirmKeeps
DEF K!CallSteps

(* The steps of the execution of an item *)

Executions ==
  [pc : {"idle", "check", "preflight", "reject", "claim", "boundary", "execute", "write", "follow",
         "verify", "settle", "finish", "doubt"},
   print : Nat, result : {"none", "succeeded", "failed", "unknown"}]

LEMMA WorkFacts ==
  ASSUME OpsInv, OpBounds, NEW c \in OpCalls, worker[c].pc # "idle"
  PROVE  /\ work[c].op \in OpIds /\ work[c].op # 0 /\ OwnOf(c) = work[c].op
         /\ class.risk # "read" /\ stage \in {"up", "degraded"}
         /\ work[c].state = "running" /\ asked[c].pc = "done"
         /\ \A d \in OpCalls : d # c => worker[d].pc = "idle" /\ OwnOf(d) # work[c].op
         /\ record[work[c].op] \in OpRecords /\ Reviewed(record[work[c].op])
         /\ record[work[c].op].status \notin {"none", "awaiting_confirmation"}
         /\ worker[c] \in Executions
         /\ WorkOK(c) /\ RecordOK(work[c].op)
<1>1. work[c].state = "running" /\ \A d \in OpCalls : d # c => worker[d].pc = "idle"
  BY DEF OpsInv, WorkOK
<1>2. /\ work[c].op \in OpIds /\ work[c].op # 0 /\ OwnOf(c) = work[c].op
      /\ class.risk # "read"
  BY <1>1, OpsOfWork
<1>3. /\ asked[c].pc = "done"
      /\ \A d \in OpCalls : d # c => OwnOf(d) # work[c].op
      /\ record[work[c].op].status \notin {"none", "awaiting_confirmation"}
  BY <1>2 DEF OpsInv, CallOK
<1>4. stage \in {"up", "degraded"} BY DEF OpsInv, StageOK
<1>5. record[work[c].op] \in OpRecords /\ Reviewed(record[work[c].op])
  BY <1>2, RecordsAreReviewed
<1>6. worker[c] \in Executions BY DEF OpsInv, K!TypeOK, Executions
<1> QED BY <1>1, <1>2, <1>3, <1>4, <1>5, <1>6 DEF OpsInv

\* An execution takes a step: what it does to its own operation is left to be shown.
LEMMA WorkerChange ==
  ASSUME OpsInv, OpBounds, NEW c \in OpCalls, worker[c].pc # "idle",
         NEW y \in Executions, worker' = [worker EXCEPT ![c] = y],
         UNCHANGED <<class, policy, late, work, asked, rereading, stage, todo>>,
         scopes' \in {"granted", "missing", "asked"},
         target' \in Nat, target <= target',
         writes' \in [OpIds -> Nat], flying' \subseteq OpIds,
         record' \in [OpIds -> OpRecords],
         \A p \in OpIds : p # work[c].op =>
           /\ record'[p] = record[p] /\ writes'[p] = writes[p]
           /\ p \in flying' <=> p \in flying,
         record[work[c].op].tries <= record'[work[c].op].tries,
         RecordOK(work[c].op)', WorkOK(c)', Onward, Outcomes, K!NoBlindWrite'
  PROVE  OpsInv' /\ Outcomes
<1> DEFINE o == work[c].op
<1>1. /\ o \in OpIds /\ o # 0 /\ OwnOf(c) = o
      /\ class.risk # "read" /\ stage \in {"up", "degraded"}
      /\ work[c].state = "running" /\ asked[c].pc = "done"
      /\ \A d \in OpCalls : d # c => worker[d].pc = "idle" /\ OwnOf(d) # o
  BY WorkFacts
<1>2. worker'[c] = y /\ \A d \in OpCalls : d # c => worker'[d] = worker[d]
  BY DEF OpsInv, K!TypeOK
<1>3. K!TypeOK'
  <2>1. worker' \in [OpCalls ->
           [pc : {"idle", "check", "preflight", "reject", "claim", "boundary", "execute", "write",
                  "follow", "verify", "settle", "finish", "doubt"},
            print : Nat, result : {"none", "succeeded", "failed", "unknown"}]]
    BY DEF OpsInv, K!TypeOK, Executions
  <2>2. target' \in Nat \ {0} BY DEF OpsInv, K!TypeOK
  <2> QED BY <2>1, <2>2 DEF OpsInv, K!TypeOK, OpRecords
<1>4. ASSUME NEW p \in OpIds PROVE RecordOK(p)'
  <2>1. CASE p = o BY <2>1
  <2>2. CASE p # o
    <3>1. RecordOK(p) /\ record'[p] = record[p] /\ writes'[p] = writes[p]
          /\ (p \in flying' <=> p \in flying) /\ class' = class
          /\ target \in Nat /\ record[p].print \in Nat
      BY <1>4, <2>2, RecordsAreReviewed DEF OpsInv, K!TypeOK, OpRecords
    <3>2. Reviewed(record[p])' BY <3>1 DEF RecordOK, Reviewed
    <3>3. (~Claimed(record[p]) => NotWritten(p))' BY <3>1 DEF RecordOK, Claimed, NotWritten
    <3>4. (writes[p] + (IF p \in flying THEN 1 ELSE 0) <= 1)' BY <3>1 DEF RecordOK
    <3>5. (record[p].status = "succeeded" /\ class.risk # "read" =>
             writes[p] = 1 /\ (class.evidence => record[p].print < target))'
      BY <3>1 DEF RecordOK
    <3> QED BY <3>2, <3>3, <3>4, <3>5 DEF RecordOK
  <2> QED BY <2>1, <2>2
<1>5. ASSUME NEW d \in OpCalls PROVE CallOK(d)'
  <2>1. CallOK(d) /\ OwnOf(d)' = OwnOf(d) /\ \A e \in OpCalls : OwnOf(e)' = OwnOf(e)
    BY DEF OpsInv, OwnOf
  <2>2. OwnOf(d) # 0 => OwnOf(d) \in OpIds BY <2>1 DEF CallOK, OwnOf, OpsInv, K!TypeOK
  <2>3. (OwnOf(d) # 0 =>
         /\ record[OwnOf(d)].status \notin {"none", "awaiting_confirmation"}
         /\ \A e \in OpCalls : OwnOf(d) = OwnOf(e) => d = e)'
    BY <2>1, <2>2 DEF CallOK, Onward
  <2>4. asked[d].pc \in {"dispatch", "submit"} => asked[d].op # o /\ asked[d].op \in OpIds
    BY <1>1, <2>1 DEF OwnOf, CallOK, Dispatching
  <2>5. (asked[d].pc \in {"dispatch", "submit"} => NotWritten(asked[d].op))'
    BY <2>1, <2>4 DEF CallOK, NotWritten
  <2> QED BY <2>1, <2>3, <2>5 DEF CallOK
<1>6. ASSUME NEW d \in OpCalls PROVE WorkOK(d)'
  <2>1. CASE d # c
    <3>1. worker'[d].pc = "idle" /\ WorkOK(d) BY <1>1, <1>2, <2>1 DEF OpsInv
    <3>2. work[d].state = "pending" => work[d].op # o /\ work[d].op \in OpIds
      BY <1>1, <2>1, OpsOfWork
    <3>3. (work[d].state = "pending" => NotWritten(work[d].op))'
      BY <3>1, <3>2 DEF WorkOK, NotWritten
    <3> QED BY <3>1, <3>3 DEF WorkOK, Before, ToWrite, Written
  <2> QED BY <2>1
<1>7. K!ItemAgrees'
  <2> SUFFICES ASSUME NEW d \in OpCalls, work[d].state = "terminal"
               PROVE  work[d].result = "succeeded" <=> record'[work[d].op].status = "succeeded"
    BY DEF K!ItemAgrees, K!Status
  <2>1. d # c /\ work[d].op \in OpIds /\ OwnOf(d) = work[d].op BY <1>1, OpsOfWork
  <2>2. record'[work[d].op] = record[work[d].op] BY <1>1, <2>1
  <2> QED BY <2>2 DEF OpsInv, K!ItemAgrees, K!Status
<1>8. StageOK'
  <2>1. rereading # 0 => record'[rereading].tries > 0
    <3>1. HAVE rereading # 0
    <3>2. rereading \in OpIds /\ record[rereading].tries > 0
      BY <3>1 DEF OpsInv, K!TypeOK, StageOK
    <3>3. record[rereading].tries \in Nat /\ record'[rereading].tries \in Nat
      BY <3>2, RecordsAreReviewed DEF OpRecords, K!Verification
    <3> QED BY <3>2, <3>3
  <2> QED BY <1>1, <2>1 DEF OpsInv, StageOK
<1>9. CallsWait'
  <2> SUFFICES ASSUME NEW d \in OpCalls, asked[d].pc \in {"dispatch", "submit"}
               PROVE  record'[asked[d].op].status \in {"queued"} \cup K!Final
    BY DEF CallsWait
  <2>1. asked[d].op # o /\ asked[d].op \in OpIds BY <1>1 DEF OwnOf, OpsInv, CallOK, Dispatching
  <2> QED BY <2>1 DEF OpsInv, CallsWait
<1> QED BY <1>3, <1>4, <1>5, <1>6, <1>7, <1>8, <1>9 DEF OpsInv

\* The same, for what writes nothing and is no success.
LEMMA WorkerStep ==
  ASSUME OpsInv, OpBounds, NEW c \in OpCalls, worker[c].pc # "idle",
         NEW y \in Executions, worker' = [worker EXCEPT ![c] = y],
         UNCHANGED <<class, policy, target, writes, flying, late, work, asked, rereading, stage,
                     todo>>,
         scopes' \in {"granted", "missing", "asked"},
         NEW s, Evolves(record[work[c].op], s), record' = [record EXCEPT ![work[c].op] = s],
         y.pc # "idle",
         y.pc \in Before => worker[c].pc \in Before,
         y.pc \in ToWrite =>
           /\ worker[c].pc \in Before \cup ToWrite
           /\ s.status = "running" /\ s.next # "reprepare",
         y.pc \in Written =>
           /\ worker[c].pc \in Written /\ s.next # "reprepare"
           /\ y.pc # "settle" => s.status = "running"
           /\ y.pc = "settle" => s.status = "verifying" /\ s.tries = 0,
         y.pc = "finish" => y.result # "succeeded" /\ s.status # "succeeded",
         class.evidence /\ y.pc = "claim" => Newest(y.print),
         class.evidence /\ y.pc \in ToWrite /\ worker[c].pc \in Before =>
           Newest(record[work[c].op].print)
  PROVE  OpsInv' /\ Outcomes
<1> DEFINE o == work[c].op
<1>1. /\ o \in OpIds /\ work[c].state = "running" /\ WorkOK(c)
      /\ \A d \in OpCalls : d # c => worker[d].pc = "idle"
      /\ record[o].status \notin {"none", "awaiting_confirmation"}
      /\ record[o] \in OpRecords
  BY WorkFacts
<1>2. /\ record' \in [OpIds -> OpRecords] /\ record'[o] = s
      /\ \A p \in OpIds : p # o => record'[p] = record[p]
      /\ Evolving
  BY <1>1, OneEvolves DEF Evolving
<1>3. /\ Onward /\ Outcomes
      /\ record[o].tries <= record'[o].tries
      /\ s.print = record[o].print
  BY <1>1, <1>2, EvolvingIsOnward DEF Outcomes, Evolving, Evolves
<1>4. /\ target \in Nat /\ target' \in Nat /\ target <= target' /\ target' = target
      /\ writes' \in [OpIds -> Nat] /\ flying' \subseteq OpIds
  BY DEF OpsInv, K!TypeOK
<1>5. (\A p \in OpIds : RecordOK(p)') /\ K!NoBlindWrite' BY <1>2, <1>4, RecordsKept DEF Untouched
<1>6. worker'[c] = y /\ \A d \in OpCalls : d # c => worker'[d] = worker[d]
  BY DEF OpsInv, K!TypeOK
<1>7. WorkOK(c)'
  <2>1. \A print \in Nat : Newest(print) => Newest(print)' BY <1>2, <1>4, NewestKept
  <2>2. y.print \in Nat /\ record[o].print \in Nat BY <1>1 DEF Executions, OpRecords
  <2>3. class.evidence /\ y.pc \in ToWrite \cup Written => Newest(record[o].print)
    BY <1>1 DEF WorkOK, ToWrite, Written, Before
  <2>4. (class.evidence /\ worker[c].pc \in ToWrite \cup Written => Newest(record[o].print))'
    <3>1. HAVE class'.evidence /\ worker'[c].pc \in ToWrite \cup Written
    <3>2. Newest(record[o].print) BY <1>6, <2>3, <3>1
    <3>3. \A p \in OpIds : record'[p].status = "succeeded" =>
            record[p].status = "succeeded" /\ record'[p] = record[p]
      BY <1>2 DEF Evolving, Evolves, K!Final
    <3> QED BY <1>2, <1>3, <1>4, <3>2, <3>3 DEF Newest
  <2>5. (class.evidence /\ worker[c].pc = "claim" => Newest(worker[c].print))'
    <3>1. HAVE class'.evidence /\ worker'[c].pc = "claim"
    <3>2. Newest(y.print) BY <1>6, <3>1
    <3>3. \A p \in OpIds : record'[p].status = "succeeded" =>
            record[p].status = "succeeded" /\ record'[p] = record[p]
      BY <1>2 DEF Evolving, Evolves, K!Final
    <3> QED BY <1>4, <1>6, <3>2, <3>3 DEF Newest
  <2>6. /\ y.pc \in Before \cup ToWrite => NotWritten(o)
        /\ y.pc \in Written => writes[o] = 1
        /\ class.evidence /\ y.pc \in Written => record[o].print < target
    BY <1>1 DEF WorkOK, Before, ToWrite, Written
  <2> QED
    BY <1>1, <1>2, <1>3, <1>4, <1>6, <2>4, <2>5, <2>6
    DEF WorkOK, NotWritten, Before, ToWrite, Written
<1> QED BY <1>1, <1>2, <1>3, <1>4, <1>5, <1>7, WorkerChange

WorkSteps ==
  {"idle", "check", "preflight", "reject", "claim", "boundary", "execute", "write", "follow",
   "verify", "settle", "finish", "doubt"}

LEMMA GoesOnTo ==
  ASSUME OpsInv, NEW c \in OpCalls, NEW to \in WorkSteps, K!GoesOn(c, to)
  PROVE  \E y \in Executions : /\ worker' = [worker EXCEPT ![c] = y]
                               /\ y.pc = to /\ y.print = worker[c].print
<1> DEFINE y == [worker[c] EXCEPT !.pc = to]
<1>1. worker \in [OpCalls -> Executions] BY DEF OpsInv, K!TypeOK, Executions
<1>2. y \in Executions /\ y.pc = to /\ y.print = worker[c].print
  BY <1>1 DEF Executions, WorkSteps
<1>3. worker' = [worker EXCEPT ![c] = y] BY <1>1 DEF K!GoesOn
<1> QED BY <1>2, <1>3

LEMMA ResultsIn ==
  ASSUME NEW c \in OpCalls, NEW result \in {"succeeded", "failed", "unknown"},
         K!Results(c, result)
  PROVE  \E y \in Executions : /\ worker' = [worker EXCEPT ![c] = y]
                               /\ y.pc = "finish" /\ y.result = result
<1> DEFINE y == [pc |-> "finish", print |-> 0, result |-> result]
<1>1. K!NoWork \in Executions /\ K!NoWork.print = 0 BY DEF K!NoWork, Executions
<1>2. [K!NoWork EXCEPT !.pc = "finish", !.result = result] \in Executions
      /\ [K!NoWork EXCEPT !.pc = "finish", !.result = result].pc = "finish"
      /\ [K!NoWork EXCEPT !.pc = "finish", !.result = result].result = result
  BY <1>1 DEF Executions
<1> QED BY <1>2 DEF K!Results

\* The record stays as it is, and the execution does not reach what needs more.
LEMMA QuietWork ==
  ASSUME OpsInv, OpBounds, NEW c \in OpCalls, worker[c].pc # "idle",
         NEW y \in Executions, worker' = [worker EXCEPT ![c] = y],
         UNCHANGED <<class, policy, target, writes, flying, late, work, asked, rereading, stage,
                     todo, record>>,
         scopes' \in {"granted", "missing", "asked"},
         \/ y.pc \in {"check", "preflight", "reject"} /\ worker[c].pc \in Before
         \/ /\ y.pc = "claim" /\ worker[c].pc \in Before
            /\ class.evidence => Newest(y.print)
         \/ y.pc \in ToWrite /\ worker[c].pc \in ToWrite
         \/ y.pc = "verify" /\ worker[c].pc = "follow"
         \/ y.pc = "doubt"
         \/ y.pc = "finish" /\ y.result = "failed" /\ worker[c].pc \in Before
  PROVE  OpsInv' /\ Outcomes
<1> DEFINE o == work[c].op
<1>1. /\ o \in OpIds /\ WorkOK(c) /\ RecordOK(o) /\ class.risk # "read"
      /\ record[o] \in OpRecords /\ Reviewed(record[o])
  BY WorkFacts
<1>2. record' = [record EXCEPT ![o] = record[o]] /\ Evolves(record[o], record[o])
  BY <1>1, TheSame DEF OpsInv, K!TypeOK
<1>3. /\ worker[c].pc \in Before => NotWritten(o)
      /\ worker[c].pc \in ToWrite => record[o].status = "running" /\ record[o].next # "reprepare"
      /\ worker[c].pc = "follow" => record[o].status = "running" /\ record[o].next # "reprepare"
  BY <1>1 DEF WorkOK, ToWrite, Written, Before
<1>4. worker[c].pc \in Before => record[o].status # "succeeded"
  BY <1>1, <1>3 DEF RecordOK, NotWritten
<1>5. /\ y.pc # "idle"
      /\ y.pc \in Before => worker[c].pc \in Before
      /\ y.pc \in ToWrite =>
           /\ worker[c].pc \in Before \cup ToWrite
           /\ record[o].status = "running" /\ record[o].next # "reprepare"
      /\ y.pc \in Written =>
           /\ worker[c].pc \in Written /\ record[o].next # "reprepare"
           /\ y.pc # "settle" => record[o].status = "running"
           /\ y.pc = "settle" => record[o].status = "verifying" /\ record[o].tries = 0
      /\ y.pc = "finish" => y.result # "succeeded" /\ record[o].status # "succeeded"
      /\ class.evidence /\ y.pc = "claim" => Newest(y.print)
      /\ class.evidence /\ y.pc \in ToWrite /\ worker[c].pc \in Before =>
           Newest(record[work[c].op].print)
  BY <1>3, <1>4 DEF Before, ToWrite, Written
<1> QED BY <1>2, <1>5, WorkerStep

\* The record changes and the item is about to be finished without success.
LEMMA WorkEnds ==
  ASSUME OpsInv, OpBounds, NEW c \in OpCalls, worker[c].pc # "idle",
         NEW result \in {"failed", "unknown"}, K!Results(c, result),
         UNCHANGED <<class, policy, target, writes, flying, late, work, asked, rereading, stage,
                     todo>>,
         scopes' \in {"granted", "missing", "asked"},
         NEW s, Evolves(record[work[c].op], s), record' = [record EXCEPT ![work[c].op] = s],
         s.status # "succeeded"
  PROVE  OpsInv' /\ Outcomes
<1>1. PICK y \in Executions : /\ worker' = [worker EXCEPT ![c] = y]
                              /\ y.pc = "finish" /\ y.result = result
  BY ResultsIn
<1> QED BY <1>1, WorkerStep DEF Before, ToWrite, Written

\* Who is about to write fails or doubts its own operation.
LEMMA WorkFails ==
  ASSUME OpsInv, OpBounds, NEW c \in OpCalls,
         worker[c].pc \in ToWrite \cup (Written \ {"settle"}),
         K!Fail(work[c].op), K!Results(c, "failed"),
         UNCHANGED <<class, policy, target, writes, flying, late, work, asked, rereading, stage,
                     todo>>,
         scopes' \in {"granted", "missing", "asked"}
  PROVE  OpsInv' /\ Outcomes
<1> DEFINE o == work[c].op
<1>1. worker[c].pc # "idle" BY DEF ToWrite, Written
<1>2. o \in OpIds /\ record[o].status = "running" BY <1>1, WorkFacts DEF WorkOK, ToWrite, Written
<1>3. PICK s \in OpRecords :
           /\ Evolves(record[o], s) /\ record' = [record EXCEPT ![o] = s]
           /\ \/ record[o].status \notin K!InFlight /\ s = record[o]
              \/ record[o].status \in K!InFlight /\ s.status = "failed" /\ s.next = "stop"
  BY <1>2, Fails DEF K!Unknown
<1>4. s.status # "succeeded" BY <1>2, <1>3
<1> QED BY <1>1, <1>3, <1>4, WorkEnds

LEMMA WorkDoubts ==
  ASSUME OpsInv, OpBounds, NEW c \in OpCalls,
         worker[c].pc \in ToWrite \cup (Written \ {"settle"}),
         K!MarkOutcomeUnknown(work[c].op), K!Results(c, "unknown"),
         UNCHANGED <<class, policy, scopes, target, writes, flying, late, work, asked, rereading,
                     stage, todo>>
  PROVE  OpsInv' /\ Outcomes
<1> DEFINE o == work[c].op
           s == K!Doubted(record[o])
<1>1. worker[c].pc # "idle" /\ scopes' \in {"granted", "missing", "asked"}
  BY DEF ToWrite, Written, OpsInv, K!TypeOK
<1>2. /\ o \in OpIds /\ record[o].status = "running"
      /\ record[o] \in OpRecords /\ Reviewed(record[o])
  BY <1>1, WorkFacts DEF WorkOK, ToWrite, Written
<1>3. record' = [record EXCEPT ![o] = s] BY <1>2 DEF K!MarkOutcomeUnknown, OpsInv, K!TypeOK
<1>4. Evolves(record[o], s) BY <1>2, DoubtEvolves
<1>5. s.status # "succeeded" BY <1>2, <1>4 DEF Evolves
<1> HIDE DEF s
<1> QED BY <1>1, <1>3, <1>4, <1>5, WorkEnds

LEMMA CheckKeeps ==
  ASSUME OpsInv, OpBounds, NEW c \in OpCalls, K!Check(c)
  PROVE  OpsInv' /\ Outcomes
<1>1. /\ UNCHANGED <<class, policy, scopes, target, writes, flying, late, work, asked, rereading,
                     stage, todo, record>>
      /\ worker[c].pc = "check" /\ worker[c].pc \in Before /\ worker[c].pc # "idle"
      /\ scopes' \in {"granted", "missing", "asked"}
  BY DEF K!Check, K!Works, K!remote, Before, OpsInv, K!TypeOK
<1>2. CASE K!Results(c, "failed")
  <2>1. PICK y \in Executions : /\ worker' = [worker EXCEPT ![c] = y]
                                /\ y.pc = "finish" /\ y.result = "failed"
    BY <1>2, ResultsIn
  <2> QED BY <1>1, <2>1, QuietWork
<1>3. CASE K!GoesOn(c, "reject") \/ K!GoesOn(c, "preflight")
  <2>1. PICK y \in Executions : /\ worker' = [worker EXCEPT ![c] = y]
                                /\ y.pc \in {"reject", "preflight"}
    BY <1>3, GoesOnTo DEF WorkSteps
  <2> QED BY <1>1, <2>1, QuietWork
<1>4. CASE K!GoesOn(c, "claim") /\ ~class.evidence
  <2>1. PICK y \in Executions : worker' = [worker EXCEPT ![c] = y] /\ y.pc = "claim"
    BY <1>4, GoesOnTo DEF WorkSteps
  <2> QED BY <1>1, <1>4, <2>1, QuietWork
<1> QED BY <1>2, <1>3, <1>4 DEF K!Check

LEMMA PreflightKeeps ==
  ASSUME OpsInv, OpBounds, NEW c \in OpCalls, K!Preflight(c)
  PROVE  OpsInv' /\ Outcomes
<1>1. /\ UNCHANGED <<class, policy, target, writes, flying, late, work, asked, rereading,
                     stage, todo, record>>
      /\ worker[c].pc \in Before /\ worker[c].pc # "idle"
      /\ scopes' \in {"granted", "missing", "asked"}
  BY DEF K!Preflight, K!Works, K!remote, K!Asks, Before, OpsInv, K!TypeOK
<1>2. CASE K!GoesOn(c, "reject")
  <2>1. PICK y \in Executions : worker' = [worker EXCEPT ![c] = y] /\ y.pc = "reject"
    BY <1>2, GoesOnTo DEF WorkSteps
  <2> QED BY <1>1, <2>1, QuietWork
<1>3. CASE worker' = [worker EXCEPT ![c] = [@ EXCEPT !.pc = "claim", !.print = target]]
  <2> DEFINE y == [worker[c] EXCEPT !.pc = "claim", !.print = target]
  <2>1. worker \in [OpCalls -> Executions] /\ target \in Nat BY DEF OpsInv, K!TypeOK, Executions
  <2>2. y \in Executions /\ y.pc = "claim" /\ y.print = target BY <2>1 DEF Executions
  <2>3. worker' = [worker EXCEPT ![c] = y] BY <1>3
  <2>4. class.evidence => Newest(target)
    <3> SUFFICES ASSUME class.evidence, NEW p \in OpIds, record[p].status = "succeeded"
                 PROVE  record[p].print < target
      BY <2>1 DEF Newest
    <3>1. RecordOK(p) /\ class.risk # "read" BY <1>1, WorkFacts DEF OpsInv
    <3> QED BY <3>1 DEF RecordOK
  <2> HIDE DEF y
  <2> QED BY <1>1, <2>2, <2>3, <2>4, QuietWork
<1> QED BY <1>2, <1>3 DEF K!Preflight

LEMMA RejectKeeps ==
  ASSUME OpsInv, OpBounds, NEW c \in OpCalls, K!Reject(c)
  PROVE  OpsInv' /\ Outcomes
<1> DEFINE o == work[c].op
<1>1. /\ UNCHANGED <<class, policy, scopes, target, writes, flying, late, work, asked, rereading,
                     stage, todo>>
      /\ worker[c].pc \in Before /\ worker[c].pc # "idle"
      /\ scopes' \in {"granted", "missing", "asked"}
  BY DEF K!Reject, K!Works, K!remote, Before, OpsInv, K!TypeOK
<1>2. CASE K!GoesOn(c, "doubt") /\ UNCHANGED record
  <2>1. PICK y \in Executions : worker' = [worker EXCEPT ![c] = y] /\ y.pc = "doubt"
    BY <1>2, GoesOnTo DEF WorkSteps
  <2> QED BY <1>1, <1>2, <2>1, QuietWork
<1>3. CASE /\ record[o].status = "queued" /\ K!Becomes(o, "failed", "reprepare")
           /\ K!Results(c, "failed")
  <2> DEFINE s == Changed(record[o], "failed", "reprepare")
  <2>1. o \in OpIds /\ record[o] \in OpRecords /\ Reviewed(record[o]) BY <1>1, WorkFacts
  <2>2. record' = [record EXCEPT ![o] = s] BY <1>3, <2>1, BecomesChanges
  <2>3. Evolves(record[o], s) BY <1>3, <2>1, WaitingEvolves
  <2>4. s.status = "failed" BY <2>1, ChangedFields DEF K!Statuses
  <2> HIDE DEF s
  <2> QED BY <1>1, <1>3, <2>2, <2>3, <2>4, WorkEnds
<1> QED BY <1>2, <1>3 DEF K!Reject, K!Status, K!For, K!Rejected

LEMMA ClaimOpKeeps ==
  ASSUME OpsInv, OpBounds, NEW c \in OpCalls, K!ClaimOp(c)
  PROVE  OpsInv' /\ Outcomes
<1> DEFINE o == work[c].op
<1>1. /\ UNCHANGED <<class, policy, scopes, target, writes, flying, late, work, asked, rereading,
                     stage, todo>>
      /\ worker[c].pc = "claim" /\ worker[c].pc \in Before /\ worker[c].pc # "idle"
      /\ scopes' \in {"granted", "missing", "asked"}
  BY DEF K!ClaimOp, K!Works, K!remote, Before, OpsInv, K!TypeOK
<1>2. o \in OpIds /\ record[o] \in OpRecords /\ Reviewed(record[o]) /\ WorkOK(c)
  BY <1>1, WorkFacts
<1>3. CASE K!Results(c, "failed") /\ UNCHANGED record
  <2>1. PICK y \in Executions : /\ worker' = [worker EXCEPT ![c] = y]
                                /\ y.pc = "finish" /\ y.result = "failed"
    BY <1>3, ResultsIn
  <2> QED BY <1>1, <1>3, <2>1, QuietWork
<1>4. CASE /\ record[o].status = "queued" /\ K!Becomes(o, "failed", "reprepare")
           /\ IF record'[o].status = "running" THEN K!GoesOn(c, "boundary")
                                               ELSE K!Results(c, "failed")
  <2> DEFINE s == Changed(record[o], "failed", "reprepare")
  <2>1. record' = [record EXCEPT ![o] = s] BY <1>2, <1>4, BecomesChanges
  <2>2. Evolves(record[o], s) BY <1>2, <1>4, WaitingEvolves
  <2>3. s.status = "failed" BY <1>2, ChangedFields DEF K!Statuses
  <2> HIDE DEF s
  <2>4. record'[o] = s BY <1>2, <2>1 DEF OpsInv, K!TypeOK
  <2>5. K!Results(c, "failed") BY <1>4, <2>3, <2>4
  <2> QED BY <1>1, <2>1, <2>2, <2>3, <2>5, WorkEnds
<1>5. CASE /\ record[o].status = "queued" /\ K!Becomes(o, "failed", "reprepare")
           /\ K!Results(c, "failed")
  <2> DEFINE s == Changed(record[o], "failed", "reprepare")
  <2>1. record' = [record EXCEPT ![o] = s] BY <1>2, <1>5, BecomesChanges
  <2>2. Evolves(record[o], s) BY <1>2, <1>5, WaitingEvolves
  <2>3. s.status = "failed" BY <1>2, ChangedFields DEF K!Statuses
  <2> HIDE DEF s
  <2> QED BY <1>1, <1>5, <2>1, <2>2, <2>3, WorkEnds
<1>6. CASE /\ record[o].status = "queued" /\ worker[c].print = record[o].print
           /\ K!Current(record[o])
           /\ record' = [record EXCEPT ![o].status = "running", ![o].next = "query",
                                       ![o].attempts = @ + 1]
           /\ IF record'[o].status = "running" THEN K!GoesOn(c, "boundary")
                                               ELSE K!Results(c, "failed")
  <2> DEFINE s == [record[o] EXCEPT !.status = "running", !.next = "query", !.attempts = @ + 1]
  <2>1. record' = [record EXCEPT ![o] = s] /\ record'[o] = s BY <1>2, <1>6 DEF OpsInv, K!TypeOK
  <2>2. Evolves(record[o], s) /\ s.status = "running" /\ s.next = "query"
    BY <1>2, <1>6, RunsEvolves DEF K!Current
  <2> HIDE DEF s
  <2>3. PICK y \in Executions : worker' = [worker EXCEPT ![c] = y] /\ y.pc = "boundary"
    BY <1>6, <2>1, <2>2, GoesOnTo DEF WorkSteps
  <2>4. class.evidence => Newest(record[o].print) BY <1>1, <1>2, <1>6 DEF WorkOK
  <2> QED BY <1>1, <2>1, <2>2, <2>3, <2>4, WorkerStep DEF Before, ToWrite, Written
<1> QED
  BY <1>3, <1>4, <1>5, <1>6
  DEF K!ClaimOp, K!For, K!Status, K!Claim, K!Rejected

LEMMA PassesKeeps ==
  ASSUME OpsInv, OpBounds, NEW c \in OpCalls,
         worker[c].pc \in {"boundary", "execute"},
         NEW next \in {"execute", "write"}, K!Passes(c, next)
  PROVE  OpsInv' /\ Outcomes
<1>1. /\ UNCHANGED <<class, policy, scopes, target, writes, flying, late, work, asked, rereading,
                     stage, todo>>
      /\ worker[c].pc \in ToWrite /\ worker[c].pc # "idle"
      /\ scopes' \in {"granted", "missing", "asked"}
  BY DEF K!Passes, K!remote, ToWrite, OpsInv, K!TypeOK
<1>2. CASE K!GoesOn(c, next) /\ UNCHANGED record
  <2>1. PICK y \in Executions : worker' = [worker EXCEPT ![c] = y] /\ y.pc = next
    BY <1>2, GoesOnTo DEF WorkSteps
  <2> QED BY <1>1, <1>2, <2>1, QuietWork DEF ToWrite
<1>3. CASE K!Fail(work[c].op) /\ K!Results(c, "failed") BY <1>1, <1>3, WorkFails
<1> QED BY <1>2, <1>3 DEF K!Passes, K!For

LEMMA ScopesKeeps ==
  ASSUME OpsInv, OpBounds, NEW c \in OpCalls, K!Scopes(c)
  PROVE  OpsInv' /\ Outcomes
<1>1. /\ UNCHANGED <<class, policy, target, writes, flying, late, work, asked, rereading,
                     stage, todo>>
      /\ worker[c].pc \in ToWrite /\ K!Fail(work[c].op) /\ K!Results(c, "failed")
      /\ scopes' \in {"granted", "missing", "asked"}
  BY DEF K!Scopes, K!Works, K!Asks, K!For, K!remote, ToWrite, OpsInv, K!TypeOK
<1> QED BY <1>1, WorkFails

LEMMA FollowKeeps ==
  ASSUME OpsInv, OpBounds, NEW c \in OpCalls, K!Follow(c)
  PROVE  OpsInv' /\ Outcomes
<1>1. /\ UNCHANGED <<class, policy, scopes, target, writes, flying, late, work, asked, rereading,
                     stage, todo>>
      /\ worker[c].pc = "follow" /\ scopes' \in {"granted", "missing", "asked"}
      /\ worker[c].pc \in ToWrite \cup (Written \ {"settle"})
  BY DEF K!Follow, K!Works, K!remote, Written, OpsInv, K!TypeOK
<1>2. CASE K!GoesOn(c, "verify") /\ UNCHANGED record
  <2>1. PICK y \in Executions : worker' = [worker EXCEPT ![c] = y] /\ y.pc = "verify"
    BY <1>2, GoesOnTo DEF WorkSteps
  <2> QED BY <1>1, <1>2, <2>1, QuietWork
<1>3. CASE K!Uncertain(c) BY <1>1, <1>3, WorkDoubts DEF K!Uncertain, K!For
<1>4. CASE K!Certain(c) BY <1>1, <1>4, WorkFails DEF K!Certain, K!For
<1> QED BY <1>2, <1>3, <1>4 DEF K!Follow

LEMMA VerifyKeeps ==
  ASSUME OpsInv, OpBounds, NEW c \in OpCalls, K!Verify(c)
  PROVE  OpsInv' /\ Outcomes
<1> DEFINE o == work[c].op
           s == Changed(record[o], "verifying", "query")
<1>1. /\ UNCHANGED <<class, policy, scopes, target, writes, flying, late, work, asked, rereading,
                     stage, todo>>
      /\ worker[c].pc = "verify" /\ worker[c].pc # "idle" /\ worker[c].pc \in Written
      /\ scopes' \in {"granted", "missing", "asked"}
  BY DEF K!Verify, K!Works, K!remote, Written, OpsInv, K!TypeOK
<1>2. /\ o \in OpIds /\ record[o].status = "running"
      /\ record[o] \in OpRecords /\ Reviewed(record[o])
  BY <1>1, WorkFacts DEF WorkOK, ToWrite, Written
<1>3. K!Becomes(o, "verifying", "query") /\ K!GoesOn(c, "settle")
  BY <1>2 DEF K!Verify, K!For, K!Status
<1>4. record' = [record EXCEPT ![o] = s] BY <1>2, <1>3, BecomesChanges
<1>5. Evolves(record[o], s) BY <1>2, VerifyEvolves
<1>6. s.status = "verifying" /\ s.next = "query" /\ s.tries = 0
  BY <1>2, ChangedFields DEF K!Statuses, Reviewed, Waiting
<1>7. PICK y \in Executions : worker' = [worker EXCEPT ![c] = y] /\ y.pc = "settle"
  BY <1>3, GoesOnTo DEF WorkSteps
<1> HIDE DEF s
<1> QED BY <1>1, <1>4, <1>5, <1>6, <1>7, WorkerStep DEF Before, ToWrite, Written

\* No success, no blind write.
LEMMA BlindKept ==
  ASSUME OpsInv, class' = class, Evolving
  PROVE  K!NoBlindWrite'
<1>1. \A o \in OpIds :
        record'[o].status = "succeeded" => record[o].status = "succeeded" /\ record'[o] = record[o]
  BY DEF Evolving, Evolves, K!Final
<1> QED BY <1>1 DEF OpsInv, K!NoBlindWrite, K!Status, Evolving, Evolves

\* What is sent without an answer may still be applied.
LEMMA SentUnanswered ==
  ASSUME OpsInv, OpBounds, NEW c \in OpCalls, worker[c].pc = "write",
         NEW y \in Executions, worker' = [worker EXCEPT ![c] = y],
         UNCHANGED <<class, policy, scopes, target, writes, late, work, asked, rereading, stage,
                     todo>>,
         flying' = flying \cup {work[c].op},
         NEW s, Evolves(record[work[c].op], s), record' = [record EXCEPT ![work[c].op] = s],
         s.status # "succeeded",
         y.pc = "doubt" \/ (y.pc = "finish" /\ y.result # "succeeded")
  PROVE  OpsInv' /\ Outcomes
<1> DEFINE o == work[c].op
<1>1. /\ o \in OpIds /\ record[o].status = "running" /\ record[o].next # "reprepare"
      /\ record[o] \in OpRecords /\ NotWritten(o) /\ WorkOK(c) /\ work[c].state = "running"
      /\ \A d \in OpCalls : d # c => worker[d].pc = "idle"
  BY WorkFacts DEF WorkOK, ToWrite, Written
<1>2. /\ record' \in [OpIds -> OpRecords] /\ record'[o] = s
      /\ \A p \in OpIds : p # o => record'[p] = record[p]
      /\ Evolving /\ Onward /\ Outcomes
  BY <1>1, OneEvolves, EvolvingIsOnward DEF Evolving, Outcomes
<1>3. /\ target \in Nat /\ target' \in Nat /\ target <= target' /\ scopes' \in {"granted", "missing", "asked"}
      /\ writes' \in [OpIds -> Nat] /\ flying' \subseteq OpIds
  BY <1>1 DEF OpsInv, K!TypeOK
<1>4. worker'[c] = y /\ \A d \in OpCalls : d # c => worker'[d] = worker[d]
  BY DEF OpsInv, K!TypeOK
<1>5. Claimed(s) /\ Reviewed(s) /\ record[o].tries <= s.tries BY <1>1 DEF Evolves, Claimed
<1>6. RecordOK(o)'
  <2>1. Reviewed(record[o])' BY <1>2, <1>5 DEF Reviewed
  <2> QED BY <1>1, <1>2, <1>5, <2>1 DEF RecordOK, Claimed, NotWritten
<1>7. WorkOK(c)' BY <1>1, <1>2, <1>4 DEF WorkOK, Before, ToWrite, Written
<1>8. K!NoBlindWrite' BY <1>2, BlindKept
<1>9. \A p \in OpIds : p # o =>
           /\ record'[p] = record[p] /\ writes'[p] = writes[p]
           /\ p \in flying' <=> p \in flying
  BY <1>2
<1> QED BY <1>1, <1>2, <1>3, <1>5, <1>6, <1>7, <1>8, <1>9, WorkerChange

LEMMA WriteKeeps ==
  ASSUME OpsInv, OpBounds, NEW c \in OpCalls, K!Write(c)
  PROVE  OpsInv' /\ Outcomes
<1> DEFINE o == work[c].op
<1>1. /\ UNCHANGED <<class, policy, scopes, late, work, asked, rereading, stage, todo>>
      /\ worker[c].pc = "write" /\ worker[c].pc \in ToWrite \cup (Written \ {"settle"})
      /\ worker[c].pc # "idle" /\ scopes' \in {"granted", "missing", "asked"}
  BY DEF K!Write, K!Works, ToWrite, OpsInv, K!TypeOK
<1>2. CASE K!NotStarted(c) BY <1>1, <1>2, WorkFails DEF K!NotStarted, K!Certain, K!For, K!remote
<1>3. CASE K!Objects(c) BY <1>1, <1>3, WorkDoubts DEF K!Objects, K!Uncertain, K!For, K!remote
<1>4. CASE K!NoAnswer(c)
  <2> DEFINE s == K!Doubted(record[o])
  <2>1. /\ o \in OpIds /\ record[o].status = "running"
        /\ record[o] \in OpRecords /\ Reviewed(record[o])
    BY <1>1, WorkFacts DEF WorkOK, ToWrite, Written
  <2>2. record' = [record EXCEPT ![o] = s]
    BY <1>4, <2>1 DEF K!NoAnswer, K!Uncertain, K!For, K!MarkOutcomeUnknown, OpsInv, K!TypeOK
  <2>3. Evolves(record[o], s) BY <2>1, DoubtEvolves
  <2>4. s.status # "succeeded" BY <2>1, <2>3 DEF Evolves
  <2>5. PICK y \in Executions : /\ worker' = [worker EXCEPT ![c] = y]
                                /\ y.pc = "finish" /\ y.result = "unknown"
    BY <1>4, ResultsIn DEF K!NoAnswer, K!Uncertain
  <2>6. flying' = flying \cup {o} /\ UNCHANGED <<target, writes>> BY <1>4 DEF K!NoAnswer, K!For
  <2> HIDE DEF s
  <2> QED BY <1>1, <2>2, <2>3, <2>4, <2>5, <2>6, SentUnanswered
<1>5. CASE /\ K!Applied(o) /\ UNCHANGED <<flying, record>>
           /\ K!GoesOn(c, IF class.follow THEN "follow" ELSE "verify")
  <2>1. /\ o \in OpIds /\ record[o].status = "running" /\ record[o].next # "reprepare"
        /\ record[o] \in OpRecords /\ NotWritten(o) /\ WorkOK(c) /\ work[c].state = "running"
        /\ RecordOK(o)
        /\ \A d \in OpCalls : d # c => worker[d].pc = "idle"
    BY <1>1, WorkFacts DEF WorkOK, ToWrite, Written
  <2>2. PICK y \in Executions : worker' = [worker EXCEPT ![c] = y] /\ y.pc \in {"follow", "verify"}
    BY <1>5, GoesOnTo DEF WorkSteps
  <2>3. worker'[c] = y /\ \A d \in OpCalls : d # c => worker'[d] = worker[d]
    BY <2>2 DEF OpsInv, K!TypeOK
  <2>4. /\ target \in Nat /\ target' = target + 1 /\ target' \in Nat /\ target <= target'
        /\ writes' \in [OpIds -> Nat] /\ flying' \subseteq OpIds
        /\ writes'[o] = 1 /\ \A p \in OpIds : p # o => writes'[p] = writes[p]
    BY <1>5, <2>1 DEF OpsInv, K!TypeOK, K!Applied, NotWritten
  <2>5. /\ record' \in [OpIds -> OpRecords] /\ Evolving /\ Onward /\ Outcomes
    BY <1>5, RecordsAreTyped, NoneEvolves, EvolvingIsOnward DEF Evolving, Outcomes, OpsInv
  <2>6. RecordOK(o)' BY <1>1, <1>5, <2>1, <2>4 DEF RecordOK, Reviewed, Claimed, NotWritten
  <2>7. class.evidence => Newest(record[o].print) BY <1>1, <2>1 DEF WorkOK, ToWrite
  <2>8. WorkOK(c)'
    <3>1. (class.evidence => Newest(record[o].print) /\ record[o].print < target)'
      <4>1. record[o].print \in Nat BY <2>1 DEF OpRecords
      <4> QED BY <1>1, <1>5, <2>4, <2>7, <4>1 DEF Newest
    <3> QED BY <1>1, <1>5, <2>1, <2>2, <2>3, <2>4, <3>1 DEF WorkOK, Before, ToWrite, Written
  <2>9. K!NoBlindWrite' BY <1>1, <2>5, BlindKept
  <2>10. record[o].tries <= record'[o].tries BY <1>5, <2>1 DEF OpRecords, K!Verification
  <2> QED BY <1>1, <1>5, <2>1, <2>2, <2>4, <2>5, <2>6, <2>8, <2>9, <2>10, WorkerChange
<1> QED BY <1>2, <1>3, <1>4, <1>5 DEF K!Write, K!For

LEMMA BreaksKeeps ==
  ASSUME OpsInv, OpBounds, NEW c \in OpCalls, K!Breaks(c)
  PROVE  OpsInv' /\ Outcomes
<1> DEFINE o == work[c].op
<1>1. /\ UNCHANGED <<class, policy, scopes, target, writes, record, late, work, asked, rereading,
                     stage, todo>>
      /\ worker[c].pc # "idle" /\ scopes' \in {"granted", "missing", "asked"}
      /\ K!GoesOn(c, "doubt")
  BY DEF K!Breaks, OpsInv, K!TypeOK
<1>2. PICK y \in Executions : worker' = [worker EXCEPT ![c] = y] /\ y.pc = "doubt"
  BY <1>1, GoesOnTo DEF WorkSteps
<1>3. CASE UNCHANGED flying BY <1>1, <1>2, <1>3, QuietWork
<1>4. CASE worker[c].pc = "write" /\ flying' = flying \cup {o}
  <2>1. /\ o \in OpIds /\ record[o].status = "running"
        /\ record[o] \in OpRecords /\ Reviewed(record[o])
    BY <1>1, <1>4, WorkFacts DEF WorkOK, ToWrite, Written
  <2>2. record' = [record EXCEPT ![o] = record[o]] /\ Evolves(record[o], record[o])
    BY <1>1, <2>1, TheSame DEF OpsInv, K!TypeOK
  <2> QED BY <1>1, <1>2, <1>4, <2>1, <2>2, SentUnanswered
<1> QED BY <1>3, <1>4 DEF K!Breaks, K!For

LEMMA SettleKeeps ==
  ASSUME OpsInv, OpBounds, NEW c \in OpCalls, K!Settle(c)
  PROVE  OpsInv' /\ Outcomes
<1> DEFINE o == work[c].op
<1>1. /\ UNCHANGED <<class, policy, scopes, target, writes, flying, late, work, asked, rereading,
                     stage, todo>>
      /\ worker[c].pc = "settle" /\ worker[c].pc # "idle"
      /\ scopes' \in {"granted", "missing", "asked"}
  BY DEF K!Settle, K!Works, K!remote, OpsInv, K!TypeOK
<1>2. /\ o \in OpIds /\ record[o].status = "verifying" /\ record[o].tries = 0
      /\ record[o] \in OpRecords /\ Reviewed(record[o])
      /\ WorkOK(c) /\ RecordOK(o) /\ work[c].state = "running" /\ class.risk # "read"
      /\ \A d \in OpCalls : d # c => worker[d].pc = "idle"
  BY <1>1, WorkFacts DEF WorkOK, ToWrite, Written
<1>3. CASE record' = [record EXCEPT ![o] = K!Resolved(@, K!Assessment)] /\ K!Results(c, "unknown")
  <2> DEFINE s == K!Resolved(record[o], K!Assessment)
  <2>1. record' = [record EXCEPT ![o] = s] BY <1>2, <1>3 DEF OpsInv, K!TypeOK
  <2>2. Evolves(record[o], s) /\ s.status = "outcome_unknown" BY <1>2, ResolveEvolves
  <2> HIDE DEF s
  <2> QED BY <1>1, <1>3, <2>1, <2>2, WorkEnds
<1>4. CASE K!Complete(o) /\ K!Results(c, "succeeded")
  <2>1. ~K!Unknown(record[o]) BY <1>2 DEF K!Unknown
  <2>2. /\ record' \in [OpIds -> OpRecords]
        /\ \A p \in OpIds : p # o => record'[p] = record[p]
        /\ record'[o].status = "succeeded" /\ record'[o].next = "stop"
        /\ record'[o].tries = record[o].tries /\ record'[o].print = record[o].print
        /\ Reviewed(record'[o]) /\ Claimed(record'[o])
        /\ Onward /\ Outcomes
    BY <1>2, <1>4, <2>1, Completes
  <2>3. PICK y \in Executions : /\ worker' = [worker EXCEPT ![c] = y]
                                /\ y.pc = "finish" /\ y.result = "succeeded"
    BY <1>4, ResultsIn
  <2>4. worker'[c] = y /\ \A d \in OpCalls : d # c => worker'[d] = worker[d]
    BY <2>3 DEF OpsInv, K!TypeOK
  <2>5. /\ target \in Nat /\ target' \in Nat /\ target <= target' /\ target' = target
        /\ writes' \in [OpIds -> Nat] /\ flying' \subseteq OpIds
        /\ writes' = writes /\ flying' = flying
    BY <1>1 DEF OpsInv, K!TypeOK
  <2>6. writes[o] = 1 /\ (class.evidence => Newest(record[o].print) /\ record[o].print < target)
    BY <1>1, <1>2 DEF WorkOK, Written
  <2>7. RecordOK(o)'
    <3>1. Reviewed(record[o])' BY <1>1, <2>2 DEF Reviewed
    <3> QED BY <1>1, <1>2, <2>2, <2>5, <2>6, <3>1 DEF RecordOK, Claimed
  <2>8. WorkOK(c)' BY <1>1, <1>2, <2>2, <2>3, <2>4 DEF WorkOK, Before, ToWrite, Written
  <2>9. K!NoBlindWrite'
    <3> SUFFICES ASSUME class.evidence, NEW p \in OpIds, NEW q \in OpIds, p # q,
                        record'[p].print = record'[q].print,
                        record'[p].status = "succeeded", record'[q].status = "succeeded"
                 PROVE  FALSE
      BY <1>1 DEF K!NoBlindWrite, K!Status
    <3>1. \A x \in OpIds : record[x].print \in Nat BY RecordsAreReviewed DEF OpRecords
    <3>2. ASSUME NEW x \in OpIds, x # o, record'[x].status = "succeeded"
          PROVE  record'[x].print < record'[o].print
      BY <2>2, <2>6, <3>2 DEF Newest
    <3>3. \A x \in OpIds : record'[x].print \in Nat BY <2>2, <3>1, <1>2
    <3>4. CASE p = o BY <3>2, <3>3, <3>4
    <3>5. CASE q = o BY <3>2, <3>3, <3>5
    <3>6. CASE p # o /\ q # o BY <2>2, <3>6 DEF OpsInv, K!NoBlindWrite, K!Status
    <3> QED BY <3>4, <3>5, <3>6
  <2>10. record[o].tries <= record'[o].tries BY <1>2, <2>2
  <2>11. \A p \in OpIds : p # o =>
           /\ record'[p] = record[p] /\ writes'[p] = writes[p]
           /\ p \in flying' <=> p \in flying
    BY <2>2, <2>5
  <2> QED BY <1>1, <1>2, <2>2, <2>3, <2>5, <2>7, <2>8, <2>9, <2>10, <2>11, WorkerChange
<1> QED BY <1>2, <1>3, <1>4 DEF K!Settle, K!For, K!Status

\* An item is taken, finished or recovered.
Items ==
  [op : OpIds \cup {0}, state : {"none", "pending", "running", "terminal"},
   result : {"none", "succeeded", "failed", "unknown"}]

LEMMA ItemMoves ==
  ASSUME OpsInv, OpBounds, NEW c \in OpCalls, work[c].state # "none",
         \A d \in OpCalls : d # c => worker[d].pc = "idle",
         NEW y \in Executions, worker' = [worker EXCEPT ![c] = y],
         NEW w \in Items, work' = [work EXCEPT ![c] = w],
         w.op = work[c].op, w.state \in {"running", "terminal"},
         UNCHANGED <<class, policy, scopes, target, writes, flying, late, asked, rereading>>,
         stage' \in K!Recovery \cup {"up", "degraded", "down"},
         todo' \subseteq OpIds \cup OpCalls, StageOK',
         NEW s, Evolves(record[work[c].op], s), record' = [record EXCEPT ![work[c].op] = s],
         y.pc = "idle" \/ (y.pc = "check" /\ w.state = "running" /\ NotWritten(work[c].op)),
         w.state = "terminal" => (w.result = "succeeded" <=> s.status = "succeeded")
  PROVE  OpsInv' /\ Outcomes
<1> DEFINE o == work[c].op
<1>1. o \in OpIds /\ o # 0 /\ OwnOf(c) = o /\ class.risk # "read" BY OpsOfWork
<1>2. /\ record' \in [OpIds -> OpRecords] /\ record'[o] = s
      /\ \A p \in OpIds : p # o => record'[p] = record[p]
      /\ Evolving /\ Onward /\ Outcomes
  BY <1>1, OneEvolves, EvolvingIsOnward DEF Evolving, Outcomes
<1>3. target \in Nat /\ target' \in Nat /\ target <= target' BY DEF OpsInv, K!TypeOK
<1>4. /\ worker'[c] = y /\ \A d \in OpCalls : d # c => worker'[d] = worker[d]
      /\ work'[c] = w /\ \A d \in OpCalls : d # c => work'[d] = work[d]
  BY DEF OpsInv, K!TypeOK
<1>5. K!TypeOK'
  <2>1. worker' \in [OpCalls ->
           [pc : {"idle", "check", "preflight", "reject", "claim", "boundary", "execute", "write",
                  "follow", "verify", "settle", "finish", "doubt"},
            print : Nat, result : {"none", "succeeded", "failed", "unknown"}]]
    BY DEF OpsInv, K!TypeOK, Executions
  <2>2. work' \in [OpCalls ->
           [op : OpIds \cup {0}, state : {"none", "pending", "running", "terminal"},
            result : {"none", "succeeded", "failed", "unknown"}]]
    BY DEF OpsInv, K!TypeOK, Items
  <2> QED BY <1>2, <2>1, <2>2 DEF OpsInv, K!TypeOK, OpRecords
<1>6. (\A p \in OpIds : RecordOK(p)') /\ K!NoBlindWrite' BY <1>2, <1>3, RecordsKept DEF Untouched
<1>7. \A d \in OpCalls : CallOK(d)'
  <2>1. SameItems BY <1>4 DEF SameItems
  <2> QED BY <1>2, <2>1, CallsKept DEF Untouched
<1>8. ASSUME NEW d \in OpCalls PROVE WorkOK(d)'
  <2>1. CASE d = c BY <1>4, <2>1 DEF WorkOK, NotWritten, Before, ToWrite, Written
  <2>2. CASE d # c
    <3>1. worker'[d].pc = "idle" /\ work'[d] = work[d] /\ WorkOK(d) BY <1>4, <2>2 DEF OpsInv
    <3> QED BY <3>1 DEF WorkOK, NotWritten, Before, ToWrite, Written
  <2> QED BY <2>1, <2>2
<1>9. K!ItemAgrees'
  <2> SUFFICES ASSUME NEW d \in OpCalls, work'[d].state = "terminal"
               PROVE  work'[d].result = "succeeded" <=> record'[work'[d].op].status = "succeeded"
    BY DEF K!ItemAgrees, K!Status
  <2>1. CASE d = c BY <1>2, <1>4, <2>1
  <2>2. CASE d # c
    <3>1. work'[d] = work[d] /\ OwnOf(d) = work[d].op /\ work[d].op \in OpIds
      BY <1>4, <2>2, OpsOfWork
    <3>2. work[d].op # o BY <1>1, <2>2, <3>1 DEF OpsInv, CallOK
    <3> QED BY <1>2, <3>1, <3>2 DEF OpsInv, K!ItemAgrees, K!Status
  <2> QED BY <2>1, <2>2
<1>10. CallsWait'
  <2> SUFFICES ASSUME NEW d \in OpCalls, asked[d].pc \in {"dispatch", "submit"}
               PROVE  record'[asked[d].op].status \in {"queued"} \cup K!Final
    BY DEF CallsWait
  <2>1. OwnOf(d) = asked[d].op /\ asked[d].op \in OpIds /\ asked[c].pc = "done"
    BY <1>1 DEF OwnOf, OpsInv, CallOK, Dispatching
  <2>2. asked[d].op # o BY <1>1, <2>1 DEF OpsInv, CallOK
  <2> QED BY <1>2, <2>1, <2>2 DEF OpsInv, CallsWait
<1> QED BY <1>2, <1>5, <1>6, <1>7, <1>8, <1>9, <1>10 DEF OpsInv

LEMMA SameRecord ==
  ASSUME OpsInv, NEW o \in OpIds, UNCHANGED record
  PROVE  record' = [record EXCEPT ![o] = record[o]] /\ Evolves(record[o], record[o])
BY RecordsAreReviewed, TheSame DEF OpsInv, K!TypeOK

LEMMA DoubtedRecord ==
  ASSUME OpsInv, NEW o \in OpIds,
         record' = [record EXCEPT ![o] = K!Doubted(@)]
  PROVE  /\ record' = [record EXCEPT ![o] = K!Doubted(record[o])]
         /\ Evolves(record[o], K!Doubted(record[o]))
         /\ K!Doubted(record[o]).status = "succeeded" <=> record[o].status = "succeeded"
         /\ K!Doubted(record[o]).status \in K!Final <=> record[o].status \in K!Final
         /\ record'[o] = K!Doubted(record[o])
<1>1. record[o] \in OpRecords /\ Reviewed(record[o])
      /\ record \in [OpIds -> OpRecords]
  BY RecordsAreReviewed, RecordsAreTyped DEF OpsInv
<1>2. Evolves(record[o], K!Doubted(record[o])) BY <1>1, DoubtEvolves
<1>3. /\ record' = [record EXCEPT ![o] = K!Doubted(record[o])]
      /\ record'[o] = K!Doubted(record[o])
  BY <1>1
<1>4. \/ record[o].status \in K!InFlight /\ K!Doubted(record[o]).status = "outcome_unknown"
      \/ K!Doubted(record[o]) = record[o]
  BY <1>1 DEF K!Doubted, OpRecords
<1> QED BY <1>2, <1>3, <1>4 DEF K!InFlight, K!Final

LEMMA TakeKeeps ==
  ASSUME OpsInv, OpBounds, NEW c \in OpCalls, K!Take(c)
  PROVE  OpsInv' /\ Outcomes
<1> DEFINE w == [work[c] EXCEPT !.state = "running"]
<1>1. /\ UNCHANGED <<class, policy, scopes, target, writes, flying, record, late, asked, rereading,
                     stage, todo>>
      /\ stage = "up" /\ work[c].state = "pending" /\ K!GoesOn(c, "check")
      /\ \A d \in OpCalls : worker[d].pc = "idle"
      /\ work' = [work EXCEPT ![c].state = "running"]
  BY DEF K!Take, K!remote
<1>2. PICK y \in Executions : worker' = [worker EXCEPT ![c] = y] /\ y.pc = "check"
  BY <1>1, GoesOnTo DEF WorkSteps
<1>3. work \in [OpCalls -> Items] BY DEF OpsInv, K!TypeOK, Items
<1>4. w \in Items /\ w.state = "running" /\ w.op = work[c].op /\ work' = [work EXCEPT ![c] = w]
  BY <1>1, <1>3 DEF Items
<1> HIDE DEF w
<1>5. work[c].op \in OpIds /\ NotWritten(work[c].op) BY <1>1, OpsOfWork DEF OpsInv, WorkOK
<1>6. /\ stage' \in K!Recovery \cup {"up", "degraded", "down"}
      /\ todo' \subseteq OpIds \cup OpCalls
  BY <1>1 DEF OpsInv, K!TypeOK
<1>7. StageOK' BY <1>1 DEF OpsInv, StageOK
<1>8. record' = [record EXCEPT ![work[c].op] = record[work[c].op]]
      /\ Evolves(record[work[c].op], record[work[c].op])
  BY <1>1, <1>5, SameRecord
<1> QED BY <1>1, <1>2, <1>4, <1>5, <1>6, <1>7, <1>8, ItemMoves

LEMMA NoWorkIsIdle == K!NoWork \in Executions /\ K!NoWork.pc = "idle"
BY DEF K!NoWork, Executions

LEMMA FinishKeeps ==
  ASSUME OpsInv, OpBounds, NEW c \in OpCalls, K!Finish(c)
  PROVE  OpsInv' /\ Outcomes
<1> DEFINE w == [work[c] EXCEPT !.state = "terminal", !.result = worker[c].result]
<1>1. /\ UNCHANGED <<class, policy, scopes, target, writes, flying, record, late, asked, rereading,
                     stage, todo>>
      /\ worker[c].pc = "finish" /\ worker' = [worker EXCEPT ![c] = K!NoWork]
      /\ work' = [work EXCEPT ![c].state = "terminal", ![c].result = worker[c].result]
  BY DEF K!Finish, K!Works, K!remote
<1>2. /\ work[c].op \in OpIds /\ work[c].state = "running" /\ stage \in {"up", "degraded"}
      /\ WorkOK(c) /\ worker[c] \in Executions
      /\ \A d \in OpCalls : d # c => worker[d].pc = "idle"
  BY <1>1, WorkFacts
<1>3. work \in [OpCalls -> Items] BY DEF OpsInv, K!TypeOK, Items
<1>4. /\ w \in Items /\ w.state = "terminal" /\ w.op = work[c].op /\ w.result = worker[c].result
      /\ work' = [work EXCEPT ![c] = w]
  BY <1>1, <1>2, <1>3 DEF Items, Executions
<1> HIDE DEF w
<1>5. /\ stage' \in K!Recovery \cup {"up", "degraded", "down"}
      /\ todo' \subseteq OpIds \cup OpCalls
  BY <1>1 DEF OpsInv, K!TypeOK
<1>6. StageOK' BY <1>1, <1>2 DEF OpsInv, StageOK
<1>7. record' = [record EXCEPT ![work[c].op] = record[work[c].op]]
      /\ Evolves(record[work[c].op], record[work[c].op])
  BY <1>1, <1>2, SameRecord
<1>8. w.result = "succeeded" <=> record[work[c].op].status = "succeeded"
  BY <1>1, <1>2, <1>4 DEF WorkOK
<1> QED BY <1>1, <1>2, <1>4, <1>5, <1>6, <1>7, <1>8, NoWorkIsIdle, ItemMoves

\* How a doubted record is told in the item
LEMMA RecoveredAgrees ==
  ASSUME NEW r
  PROVE  /\ K!RecoveryResult(r) \in {"none", "succeeded", "failed", "unknown"}
         /\ K!RecoveryResult(r) = "succeeded" <=> r.status = "succeeded"
<1>1. CASE r.status = "succeeded" BY <1>1 DEF K!RecoveryResult
<1>2. CASE r.status # "succeeded"
  <2>1. K!RecoveryResult(r) = IF r.status \in K!Final \ {"succeeded"} THEN "failed" ELSE "unknown"
    BY <1>2 DEF K!RecoveryResult
  <2> QED BY <1>2, <2>1
<1> QED BY <1>1, <1>2

LEMMA DoubtKeeps ==
  ASSUME OpsInv, OpBounds, NEW c \in OpCalls, K!Doubt(c)
  PROVE  OpsInv' /\ Outcomes
<1> DEFINE o == work[c].op
<1>1. /\ UNCHANGED <<class, policy, scopes, target, writes, flying, late, asked, rereading, todo>>
      /\ worker[c].pc = "doubt" /\ worker' = [worker EXCEPT ![c] = K!NoWork]
      /\ stage' = IF stage = "up" THEN "degraded" ELSE stage
  BY DEF K!Doubt, K!Works, K!remote
<1>2. /\ o \in OpIds /\ work[c].state = "running" /\ stage \in {"up", "degraded"}
      /\ \A d \in OpCalls : d # c => worker[d].pc = "idle"
  BY <1>1, WorkFacts
<1>3. work \in [OpCalls -> Items] BY DEF OpsInv, K!TypeOK, Items
<1>4. /\ stage' \in K!Recovery \cup {"up", "degraded", "down"}
      /\ todo' \subseteq OpIds \cup OpCalls /\ stage' \in {"up", "degraded"}
  BY <1>1, <1>2 DEF OpsInv, K!TypeOK
<1>5. ASSUME Evolving PROVE StageOK'
  <2>1. rereading # 0 => record'[rereading].tries > 0
    <3>1. HAVE rereading # 0
    <3>2. rereading \in OpIds /\ record[rereading].tries > 0
      BY <3>1 DEF OpsInv, K!TypeOK, StageOK
    <3>3. Evolves(record[rereading], record'[rereading]) BY <1>5, <3>2 DEF Evolving
    <3>4. record[rereading].tries \in Nat /\ record'[rereading].tries \in Nat
      BY <3>2, <3>3, RecordsAreReviewed DEF Evolves, OpRecords, K!Verification
    <3> QED BY <3>2, <3>3, <3>4 DEF Evolves
  <2> QED BY <1>1, <1>4, <2>1 DEF StageOK
<1>6. CASE K!MarkOutcomeUnknown(o) /\ K!Recovered(c)
  <2> DEFINE s == K!Doubted(record[o])
             w == [work[c] EXCEPT !.state = "terminal", !.result = K!RecoveryResult(s)]
  <2>1. /\ record' = [record EXCEPT ![o] = s] /\ Evolves(record[o], s)
    BY <1>2, <1>6, DoubtedRecord DEF K!MarkOutcomeUnknown
  <2>2. K!RecoveryResult(s) \in {"none", "succeeded", "failed", "unknown"}
        /\ (K!RecoveryResult(s) = "succeeded" <=> s.status = "succeeded")
    BY RecoveredAgrees
  <2>3. /\ w \in Items /\ w.state = "terminal" /\ w.op = o
        /\ w.result = K!RecoveryResult(s)
    BY <1>3, <2>2 DEF Items
  <2>4. work' = [work EXCEPT ![c] = w] BY <1>3, <1>6 DEF K!Recovered, K!For
  <2> HIDE DEF s, w
  <2>5. StageOK' BY <1>2, <1>5, <2>1, OneEvolves DEF Evolving
  <2> QED BY <1>1, <1>2, <1>4, <2>1, <2>2, <2>3, <2>4, <2>5, NoWorkIsIdle, ItemMoves
<1>7. CASE UNCHANGED work /\ (K!MarkOutcomeUnknown(o) \/ UNCHANGED record)
  <2>1. PICK s : record' = [record EXCEPT ![o] = s] /\ Evolves(record[o], s)
    <3>1. CASE K!MarkOutcomeUnknown(o) BY <1>2, <3>1, DoubtedRecord DEF K!MarkOutcomeUnknown
    <3>2. CASE UNCHANGED record BY <1>2, <3>2, SameRecord
    <3> QED BY <1>7, <3>1, <3>2
  <2>2. work' = [work EXCEPT ![c] = work[c]] /\ work[c] \in Items BY <1>3, <1>7
  <2>3. StageOK' BY <1>2, <1>5, <2>1, OneEvolves DEF Evolving
  <2> QED BY <1>1, <1>2, <1>4, <2>1, <2>2, <2>3, NoWorkIsIdle, ItemMoves
<1> QED BY <1>6, <1>7 DEF K!Doubt, K!For

LEMMA WorkerStepsKeep ==
  ASSUME OpsInv, OpBounds, NEW c \in OpCalls, K!WorkerSteps(c)
  PROVE  OpsInv' /\ Outcomes
<1>1. CASE K!Boundary(c) BY <1>1, PassesKeeps DEF K!Boundary, K!Works
<1>2. CASE K!Execute(c) BY <1>2, PassesKeeps DEF K!Execute, K!Works
<1> QED
  BY <1>1, <1>2, TakeKeeps, CheckKeeps, PreflightKeeps, RejectKeeps, ClaimOpKeeps, ScopesKeeps,
     WriteKeeps, FollowKeeps, VerifyKeeps, SettleKeeps, FinishKeeps, BreaksKeeps, DoubtKeeps
  DEF K!WorkerSteps

(* The steps of nobody's execution *)

\* Whatever leaves the files of the queue, the calls and the executions alone
LEMMA OtherStep ==
  ASSUME OpsInv, OpBounds,
         UNCHANGED <<class, writes, flying, work, asked, worker>>,
         policy' \in [revision : Nat \ {0}, permission : K!Permissions],
         scopes' \in {"granted", "missing", "asked"}, late' \subseteq OpIds,
         rereading' \in OpIds \cup {0},
         stage' \in K!Recovery \cup {"up", "degraded", "down"},
         todo' \subseteq OpIds \cup OpCalls,
         target' \in Nat, target <= target',
         record' \in [OpIds -> OpRecords], Evolving, Undisturbed, StageOK', CallsWait'
  PROVE  OpsInv' /\ Outcomes
<1>0. target' \in Nat \ {0} /\ Onward BY EvolvingIsOnward DEF OpsInv, K!TypeOK
<1>1. K!TypeOK' BY <1>0 DEF OpsInv, K!TypeOK, OpRecords
<1>2. (\A o \in OpIds : RecordOK(o)') /\ K!NoBlindWrite' BY RecordsKept DEF Untouched
<1>3. \A d \in OpCalls : CallOK(d)' BY <1>0, CallsKept DEF Untouched, SameItems
<1>4. \A d \in OpCalls : WorkOK(d)' BY WorksKept DEF Untouched
<1>5. K!ItemAgrees' BY ItemsKept
<1>6. Outcomes BY DEF Evolving, Outcomes
<1> QED BY <1>1, <1>2, <1>3, <1>4, <1>5, <1>6 DEF OpsInv

\* The types of what stays
LEMMA TypesOf ==
  ASSUME OpsInv
  PROVE  /\ policy \in [revision : Nat \ {0}, permission : K!Permissions]
         /\ scopes \in {"granted", "missing", "asked"} /\ late \subseteq OpIds
         /\ rereading \in OpIds \cup {0}
         /\ stage \in K!Recovery \cup {"up", "degraded", "down"}
         /\ todo \subseteq OpIds \cup OpCalls
         /\ target \in Nat /\ target <= target
         /\ record \in [OpIds -> OpRecords]
BY RecordsAreTyped DEF OpsInv, K!TypeOK

\* What leaves the records alone as well
LEMMA QuietStep ==
  ASSUME OpsInv, OpBounds,
         UNCHANGED <<class, writes, flying, work, asked, worker, record>>,
         policy' \in [revision : Nat \ {0}, permission : K!Permissions],
         scopes' \in {"granted", "missing", "asked"}, late' \subseteq OpIds,
         rereading' \in OpIds \cup {0},
         stage' \in K!Recovery \cup {"up", "degraded", "down"},
         todo' \subseteq OpIds \cup OpCalls,
         target' \in Nat, target <= target', StageOK'
  PROVE  OpsInv' /\ Outcomes
<1>1. /\ record' \in [OpIds -> OpRecords] /\ Evolving /\ Undisturbed /\ CallsWait'
  BY RecordsAreTyped, NoneEvolves DEF OpsInv, Evolving, Undisturbed, CallsWait
<1> QED BY <1>1, OtherStep

LEMMA UpdatePolicyKeeps ==
  ASSUME OpsInv, OpBounds, NEW p \in K!Permissions, K!UpdatePolicy(p)
  PROVE  OpsInv' /\ Outcomes
<1>1. /\ UNCHANGED <<class, scopes, target, writes, flying, record, late, work, asked, worker,
                     rereading, stage, todo>>
      /\ policy' = [revision |-> policy.revision + 1, permission |-> p]
  BY DEF K!UpdatePolicy, K!remote, K!process
<1>2. policy' \in [revision : Nat \ {0}, permission : K!Permissions] BY <1>1, TypesOf
<1>3. StageOK' BY <1>1 DEF OpsInv, StageOK
<1> QED BY <1>1, <1>2, <1>3, TypesOf, QuietStep

LEMMA GrantKeeps ==
  ASSUME OpsInv, OpBounds, K!Grant
  PROVE  OpsInv' /\ Outcomes
<1>1. /\ UNCHANGED <<class, policy, target, writes, flying, record, late, work, asked, worker,
                     rereading, stage, todo>>
      /\ scopes' = "granted"
  BY DEF K!Grant, K!remote, K!process
<1>2. StageOK' BY <1>1 DEF OpsInv, StageOK
<1> QED BY <1>1, <1>2, TypesOf, QuietStep

LEMMA OtherKeeps ==
  ASSUME OpsInv, OpBounds, K!Other
  PROVE  OpsInv' /\ Outcomes
<1>1. /\ UNCHANGED <<class, policy, writes, flying, record, late, work, asked, worker, rereading,
                     stage, todo>>
      /\ \/ target' = target + 1 /\ UNCHANGED scopes
         \/ scopes' = "missing" /\ UNCHANGED target
  BY DEF K!Other, K!process
<1>2. /\ scopes' \in {"granted", "missing", "asked"}
      /\ target' \in Nat /\ target <= target'
  BY <1>1, TypesOf
<1>3. StageOK' BY <1>1 DEF OpsInv, StageOK
<1> QED BY <1>1, <1>2, <1>3, TypesOf, QuietStep

LEMMA WindowClosesKeeps ==
  ASSUME OpsInv, OpBounds, NEW o \in OpIds, K!WindowCloses(o)
  PROVE  OpsInv' /\ Outcomes
<1>1. /\ UNCHANGED <<class, policy, scopes, target, writes, flying, record, work, asked, worker,
                     rereading, stage, todo>>
      /\ late' = late \cup {o}
  BY DEF K!WindowCloses, K!remote, K!process
<1>2. late' \subseteq OpIds BY <1>1, TypesOf
<1>3. StageOK' BY <1>1 DEF OpsInv, StageOK
<1> QED BY <1>1, <1>2, <1>3, TypesOf, QuietStep

LEMMA StartKeeps ==
  ASSUME OpsInv, OpBounds, K!Start
  PROVE  OpsInv' /\ Outcomes
<1>1. /\ UNCHANGED <<class, policy, scopes, target, writes, flying, record, late, work, asked,
                     worker, rereading>>
      /\ stage = "down" /\ stage' = "items" /\ todo' = K!StoredIn("running")
  BY DEF K!Start, K!Alive, K!remote
<1>2. /\ stage' \in K!Recovery \cup {"up", "degraded", "down"}
      /\ todo' \subseteq OpIds \cup OpCalls
  BY <1>1 DEF K!StoredIn, K!Recovery
<1>3. StageOK' BY <1>1 DEF OpsInv, StageOK, K!StoredIn
<1> QED BY <1>1, <1>2, <1>3, TypesOf, QuietStep

LEMMA ProceedKeeps ==
  ASSUME OpsInv, OpBounds, K!Proceed
  PROVE  OpsInv' /\ Outcomes
<1>1. /\ UNCHANGED <<class, policy, scopes, target, writes, flying, record, late, work, asked,
                     worker, rereading>>
      /\ stage \in {"items", "terminal", "ops", "again"}
      /\ stage' = K!Following[stage]
      /\ todo' = CASE stage' = "ops" -> {o \in OpIds : K!Status(o) # "none"}
                   [] stage' \in {"terminal", "again"} -> K!StoredIn("terminal")
                   [] OTHER -> {}
  BY DEF K!Proceed, K!remote, K!Recovery
<1>2. /\ stage = "items" => stage' = "terminal"
      /\ stage = "terminal" => stage' = "ops"
      /\ stage = "ops" => stage' = "again"
      /\ stage = "again" => stage' = "up"
  BY <1>1 DEF K!Following
<1>3. \/ stage' \in {"terminal", "again"} /\ todo' = K!StoredIn("terminal")
      \/ stage' = "ops" /\ todo' = {o \in OpIds : K!Status(o) # "none"}
      \/ stage' = "up" /\ todo' = {}
  <2>1. CASE stage' \in {"terminal", "again"} BY <1>1, <2>1
  <2>2. CASE stage' = "ops" BY <1>1, <2>2
  <2>3. CASE stage' = "up" BY <1>1, <2>3
  <2> QED BY <1>1, <1>2, <2>1, <2>2, <2>3
<1>4. /\ stage' \in K!Recovery \cup {"up", "degraded", "down"}
      /\ todo' \subseteq OpIds \cup OpCalls
  BY <1>3 DEF K!StoredIn, K!Recovery
<1>5. StageOK' BY <1>1, <1>3 DEF OpsInv, StageOK, K!StoredIn
<1> QED BY <1>1, <1>4, <1>5, TypesOf, QuietStep

\* One record changes.
LEMMA RecordStep ==
  ASSUME OpsInv, OpBounds,
         UNCHANGED <<class, policy, scopes, target, writes, flying, late, work, asked, worker>>,
         rereading' \in OpIds \cup {0},
         stage' = stage, todo' \subseteq todo,
         NEW o \in OpIds, NEW s, Evolves(record[o], s), record' = [record EXCEPT ![o] = s],
         \/ record[o].status \in Waiting \cup {"outcome_unknown"} \/ record[o].tries > 0
         \/ stage \notin {"up", "degraded"},
         \/ s.status \in K!Final
         \/ record[o].status \notin {"queued"} \cup K!Final
         \/ \E c \in OpCalls : work[c].op = o,
         rereading' # 0 => \/ rereading' = rereading
                           \/ rereading' = o /\ s.tries > 0
  PROVE  OpsInv' /\ Outcomes
<1>1. /\ record' \in [OpIds -> OpRecords] /\ record'[o] = s
      /\ \A p \in OpIds : p # o => record'[p] = record[p]
      /\ Evolving
  BY OneEvolves DEF Evolving
<1>2. Undisturbed
  <2>1. CASE stage \notin {"up", "degraded"}
    BY <2>1 DEF OpsInv, StageOK, Undisturbed, ToWrite, Written
  <2>2. CASE record[o].status \in Waiting \cup {"outcome_unknown"} \/ record[o].tries > 0
    BY <1>1, <2>2, UndisturbedBy
  <2> QED BY <2>1, <2>2
<1>3. StageOK'
  <2>1. ASSUME rereading' # 0 PROVE record'[rereading'].tries > 0
    <3>1. CASE rereading' = o /\ s.tries > 0 BY <1>1, <3>1
    <3>2. CASE rereading' = rereading
      <4>1. rereading \in OpIds /\ record[rereading].tries > 0
        BY <2>1, <3>2 DEF OpsInv, K!TypeOK, StageOK
      <4>2. Evolves(record[rereading], record'[rereading]) BY <1>1, <4>1 DEF Evolving
      <4>3. record[rereading].tries \in Nat /\ record'[rereading].tries \in Nat
        BY <4>1, <4>2, RecordsAreReviewed DEF Evolves, OpRecords, K!Verification
      <4> QED BY <3>2, <4>1, <4>2, <4>3 DEF Evolves
    <3> QED BY <2>1, <3>1, <3>2
  <2> QED BY <2>1 DEF OpsInv, StageOK
<1>4. CallsWait'
  <2> SUFFICES ASSUME NEW d \in OpCalls, asked[d].pc \in {"dispatch", "submit"}
               PROVE  record'[asked[d].op].status \in {"queued"} \cup K!Final
    BY DEF CallsWait
  <2>1. /\ asked[d].op \in OpIds /\ OwnOf(d) = asked[d].op /\ OwnOf(d) # 0
        /\ record[asked[d].op].status \in {"queued"} \cup K!Final
        /\ asked[d].pc # "done"
    BY DEF OpsInv, CallOK, OwnOf, Dispatching, CallsWait, OpBounds
  <2>2. CASE asked[d].op # o BY <1>1, <2>1, <2>2
  <2>3. CASE s.status \in K!Final BY <1>1, <2>1, <2>2, <2>3
  <2>4. ASSUME NEW c \in OpCalls, work[c].op = o, asked[d].op = o PROVE FALSE
    <3>1. asked[c].pc = "done" /\ OwnOf(c) = o
      BY <2>1, <2>4 DEF OpsInv, CallOK, OwnOf, Dispatching
    <3> QED BY <2>1, <2>4, <3>1 DEF OpsInv, CallOK
  <2> QED BY <2>1, <2>2, <2>3, <2>4
<1>5. /\ policy' \in [revision : Nat \ {0}, permission : K!Permissions]
      /\ scopes' \in {"granted", "missing", "asked"} /\ late' \subseteq OpIds
      /\ stage' \in K!Recovery \cup {"up", "degraded", "down"}
      /\ todo' \subseteq OpIds \cup OpCalls
      /\ target' \in Nat /\ target <= target'
  BY TypesOf
<1> QED BY <1>1, <1>2, <1>3, <1>4, <1>5, OtherStep

LEMMA EndsWhileWaiting ==
  ASSUME OpsInv, OpBounds, NEW o \in OpIds,
         UNCHANGED <<class, policy, scopes, target, writes, flying, late, work, asked, worker,
                     rereading, stage, todo>>,
         record[o].status \in {"awaiting_confirmation", "queued"},
         NEW status \in {"cancelled", "expired"}, NEW next \in {"stop", "reprepare"},
         K!Becomes(o, status, next)
  PROVE  OpsInv' /\ Outcomes
<1> DEFINE s == Changed(record[o], status, next)
<1>1. record[o] \in OpRecords /\ Reviewed(record[o]) BY RecordsAreReviewed
<1>2. record' = [record EXCEPT ![o] = s] BY BecomesChanges
<1>3. Evolves(record[o], s) BY <1>1, WaitingEvolves
<1>4. s.status \in K!Final BY <1>1, ChangedFields DEF K!Statuses, K!Final
<1>5. record[o].status \in Waiting \cup {"outcome_unknown"} BY DEF Waiting
<1>6. rereading' \in OpIds \cup {0} /\ rereading' = rereading /\ todo' \subseteq todo BY TypesOf
<1> HIDE DEF s
<1> QED BY <1>2, <1>3, <1>4, <1>5, <1>6, RecordStep

LEMMA CancelKeeps ==
  ASSUME OpsInv, OpBounds, NEW o \in OpIds, K!Cancel(o)
  PROVE  OpsInv' /\ Outcomes
BY EndsWhileWaiting DEF K!Cancel, K!Status, K!remote, K!process

LEMMA ExpireKeeps ==
  ASSUME OpsInv, OpBounds, NEW o \in OpIds, K!Expire(o)
  PROVE  OpsInv' /\ Outcomes
BY EndsWhileWaiting DEF K!Expire, K!Status, K!remote, K!process

LEMMA BeginKeeps ==
  ASSUME OpsInv, OpBounds, NEW o \in OpIds, K!Begin(o)
  PROVE  OpsInv' /\ Outcomes
<1> DEFINE s == [record[o] EXCEPT !.status = "verifying", !.next = "query", !.tries = @ + 1]
<1>1. /\ UNCHANGED <<class, policy, scopes, target, writes, flying, late, work, asked, worker,
                     stage, todo>>
      /\ class.reread /\ record[o].status = "outcome_unknown"
      /\ record[o].tries < K!Verification /\ rereading' = o
      /\ record' = [record EXCEPT ![o].status = "verifying", ![o].next = "query",
                                  ![o].tries = @ + 1]
  BY DEF K!Begin, K!remote, K!Status, K!Reconcilable
<1>2. record[o] \in OpRecords /\ Reviewed(record[o]) BY RecordsAreReviewed
<1>3. record' = [record EXCEPT ![o] = s] BY <1>1, TypesOf
<1>4. Evolves(record[o], s) /\ s.tries > 0 BY <1>1, <1>2, BeginEvolves
<1>5. record[o].status \in Waiting \cup {"outcome_unknown"}
      /\ record[o].status \notin {"queued"} \cup K!Final
  BY <1>1 DEF Waiting, K!Final
<1> HIDE DEF s
<1> QED BY <1>1, <1>3, <1>4, <1>5, RecordStep

LEMMA ResolveKeeps ==
  ASSUME OpsInv, OpBounds, K!Resolve
  PROVE  OpsInv' /\ Outcomes
<1> DEFINE o == rereading
           s == K!Resolved(record[o], K!Assessment)
<1>1. /\ UNCHANGED <<class, policy, scopes, target, writes, flying, late, work, asked, worker,
                     stage, todo>>
      /\ rereading # 0 /\ rereading' = 0
  BY DEF K!Resolve, K!remote
<1>2. o \in OpIds /\ record[o].tries > 0 BY <1>1 DEF OpsInv, K!TypeOK, StageOK
<1>3. CASE record[o].status # "verifying"
  <2>1. UNCHANGED record BY <1>3 DEF K!Resolve, K!Status
  <2>2. StageOK' BY <1>1, <2>1 DEF OpsInv, StageOK
  <2> QED BY <1>1, <2>1, <2>2, TypesOf, QuietStep
<1>4. CASE record[o].status = "verifying"
  <2>1. record' = [record EXCEPT ![o] = s] BY <1>4, TypesOf DEF K!Resolve, K!Status
  <2>2. record[o] \in OpRecords /\ Reviewed(record[o]) BY <1>2, RecordsAreReviewed
  <2>3. Evolves(record[o], s) BY <1>4, <2>2, ResolveEvolves
  <2>4. record[o].status \notin {"queued"} \cup K!Final BY <1>4 DEF K!Final
  <2> HIDE DEF s
  <2> QED BY <1>1, <1>2, <2>1, <2>3, <2>4, RecordStep
<1> QED BY <1>3, <1>4

LEMMA RecoverTerminalKeeps ==
  ASSUME OpsInv, OpBounds, NEW c \in OpCalls, NEW at \in {"terminal", "again"},
         K!RecoverTerminal(at, c)
  PROVE  OpsInv' /\ Outcomes
<1> DEFINE o == work[c].op
           s == K!Doubted(record[o])
<1>1. /\ UNCHANGED <<class, policy, scopes, target, writes, flying, late, work, asked, worker,
                     rereading, stage>>
      /\ stage = at /\ c \in todo /\ todo' = todo \ {c} /\ K!MarkOutcomeUnknown(o)
  BY DEF K!RecoverTerminal, K!Visits, K!remote, K!For
<1>2. work[c].state = "terminal" BY <1>1 DEF OpsInv, StageOK
<1>3. o \in OpIds BY <1>2, OpsOfWork
<1>4. record' = [record EXCEPT ![o] = s] /\ Evolves(record[o], s)
  BY <1>1, <1>3, DoubtedRecord DEF K!MarkOutcomeUnknown
<1>5. rereading' \in OpIds \cup {0} /\ rereading' = rereading /\ todo' \subseteq todo
  BY <1>1, TypesOf
<1> HIDE DEF s
<1> QED BY <1>1, <1>3, <1>4, <1>5, RecordStep

LEMMA RecoverOpKeeps ==
  ASSUME OpsInv, OpBounds, NEW o \in OpIds, K!RecoverOp(o)
  PROVE  OpsInv' /\ Outcomes
<1> DEFINE s == K!Doubted(record[o])
<1>1. /\ UNCHANGED <<class, policy, scopes, target, writes, flying, late, work, asked, worker,
                     rereading, stage>>
      /\ stage = "ops" /\ todo' = todo \ {o}
  BY DEF K!RecoverOp, K!Visits, K!remote
<1>2. CASE UNCHANGED record
  <2>1. StageOK' BY <1>1, <1>2 DEF OpsInv, StageOK
  <2>2. todo' \subseteq OpIds \cup OpCalls BY <1>1, TypesOf
  <2> QED BY <1>1, <1>2, <2>1, <2>2, TypesOf, QuietStep
<1>3. CASE record[o].status \in {"running", "verifying"} /\ K!MarkOutcomeUnknown(o)
  <2>1. record' = [record EXCEPT ![o] = s] /\ Evolves(record[o], s)
    BY <1>3, DoubtedRecord DEF K!MarkOutcomeUnknown
  <2>2. rereading' \in OpIds \cup {0} /\ rereading' = rereading /\ todo' \subseteq todo
    BY <1>1, TypesOf
  <2>3. record[o].status \notin {"queued"} \cup K!Final BY <1>3 DEF K!Final
  <2> HIDE DEF s
  <2> QED BY <1>1, <2>1, <2>2, <2>3, RecordStep
<1> QED BY <1>2, <1>3 DEF K!RecoverOp, K!Status

LEMMA RecoverItemKeeps ==
  ASSUME OpsInv, OpBounds, NEW c \in OpCalls, K!RecoverItem(c)
  PROVE  OpsInv' /\ Outcomes
<1> DEFINE o == work[c].op
           s == K!Doubted(record[o])
           w == [work[c] EXCEPT !.state = "terminal", !.result = K!RecoveryResult(s)]
<1>1. /\ UNCHANGED <<class, policy, scopes, target, writes, flying, late, asked, worker, rereading,
                     stage>>
      /\ stage = "items" /\ c \in todo /\ todo' = todo \ {c}
      /\ record' = [record EXCEPT ![o] = K!Doubted(@)]
  BY DEF K!RecoverItem, K!Visits, K!remote, K!For, K!Reconciled
<1>2. work[c].state = "running" BY <1>1 DEF OpsInv, StageOK
<1>3. /\ o \in OpIds /\ work \in [OpCalls -> Items]
      /\ worker \in [OpCalls -> Executions] /\ record[o] \in OpRecords
  BY <1>2, OpsOfWork, RecordsAreReviewed DEF OpsInv, K!TypeOK, Items, Executions
<1>4. record' = [record EXCEPT ![o] = s] /\ Evolves(record[o], s) /\ record'[o] = s
  BY <1>1, <1>3, DoubtedRecord
<1>5. s.status # "queued" BY <1>3 DEF K!Doubted, K!InFlight, OpRecords
<1>6. K!RecoveryResult(s) \in {"none", "succeeded", "failed", "unknown"}
      /\ (K!RecoveryResult(s) = "succeeded" <=> s.status = "succeeded")
  BY RecoveredAgrees
<1>7. w \in Items /\ w.state = "terminal" /\ w.op = o /\ w.result = K!RecoveryResult(s)
  BY <1>3, <1>6 DEF Items
<1>8. work' = [work EXCEPT ![c].state = "terminal", ![c].result = K!RecoveryResult(record'[o])]
  <2> HIDE DEF s, w
  <2> QED BY <1>4, <1>5 DEF K!RecoverItem, K!For
<1>9. work' = [work EXCEPT ![c] = w]
  <2>1. work' = [work EXCEPT ![c].state = "terminal", ![c].result = K!RecoveryResult(s)]
    <3> HIDE DEF s
    <3> QED BY <1>4, <1>8
  <2> HIDE DEF s
  <2> QED BY <1>3, <2>1
<1> HIDE DEF s, w
<1>10. /\ \A d \in OpCalls : worker[d].pc = "idle"
       /\ worker' = [worker EXCEPT ![c] = worker[c]]
  BY <1>1, <1>3 DEF OpsInv, StageOK
<1>11. /\ stage' \in K!Recovery \cup {"up", "degraded", "down"}
       /\ todo' \subseteq OpIds \cup OpCalls
  BY <1>1, TypesOf
<1>12. StageOK'
  <2>1. rereading # 0 => record'[rereading].tries > 0
    <3>1. HAVE rereading # 0
    <3>2. rereading \in OpIds /\ record[rereading].tries > 0
      BY <3>1 DEF OpsInv, K!TypeOK, StageOK
    <3>3. Evolves(record[rereading], record'[rereading]) BY <1>3, <1>4, <3>2, OneEvolves
    <3>4. record[rereading].tries \in Nat /\ record'[rereading].tries \in Nat
      BY <3>2, <3>3, RecordsAreReviewed DEF Evolves, OpRecords, K!Verification
    <3> QED BY <3>2, <3>3, <3>4 DEF Evolves
  <2>2. \A d \in todo' : d \in OpCalls /\ work'[d].state = "running"
    BY <1>1, <1>3, <1>9 DEF OpsInv, StageOK
  <2> QED BY <1>1, <1>10, <2>1, <2>2 DEF StageOK
<1> DEFINE y == worker[c]
<1>13. y \in Executions /\ y.pc = "idle" /\ worker' = [worker EXCEPT ![c] = y] BY <1>3, <1>10
<1>14. w.state = "terminal" => (w.result = "succeeded" <=> s.status = "succeeded") BY <1>6, <1>7
<1>15. UNCHANGED <<class, policy, scopes, target, writes, flying, late, asked, rereading>>
  BY <1>1
<1>16. /\ \A d \in OpCalls : d # c => worker[d].pc = "idle"
       /\ work[c].state # "none" /\ w.state \in {"running", "terminal"}
       /\ w.op = work[c].op /\ w \in Items
  BY <1>2, <1>7, <1>10
<1>17. Evolves(record[work[c].op], s) /\ record' = [record EXCEPT ![work[c].op] = s] BY <1>4
<1> HIDE DEF y, o
<1> QED BY <1>9, <1>11, <1>12, <1>13, <1>14, <1>15, <1>16, <1>17, ItemMoves

\* What was sent is applied after all, or lost.
LEMMA LandsKeeps ==
  ASSUME OpsInv, OpBounds, NEW o \in OpIds, K!Lands(o)
  PROVE  OpsInv' /\ Outcomes
<1>1. /\ UNCHANGED <<class, policy, scopes, record, late, work, asked, worker, rereading, stage,
                     todo>>
      /\ o \in flying /\ flying' = flying \ {o}
      /\ \/ writes' = [writes EXCEPT ![o] = @ + 1] /\ target' = target + 1
         \/ UNCHANGED <<target, writes>>
  BY DEF K!Lands, K!process, K!Applied
<1>2. writes \in [OpIds -> Nat] BY DEF OpsInv, K!TypeOK
<1>3. writes[o] = 0 /\ Claimed(record[o]) /\ (class.risk # "read" => record[o].status # "succeeded")
  <2>1. RecordOK(o) BY DEF OpsInv
  <2>2. writes[o] = 0 BY <1>1, <1>2, <2>1 DEF RecordOK
  <2> QED BY <1>1, <2>1, <2>2 DEF RecordOK, NotWritten
<1>4. /\ target \in Nat /\ target' \in Nat \ {0} /\ target <= target'
      /\ writes' \in [OpIds -> Nat] /\ flying' \subseteq OpIds
      /\ \A p \in OpIds : p # o => /\ writes'[p] = writes[p]
                                   /\ p \in flying' <=> p \in flying
      /\ writes'[o] \in {0, 1} /\ o \notin flying'
  BY <1>1, <1>2, <1>3 DEF OpsInv, K!TypeOK
<1>5. \A p \in OpIds : NotWritten(p) => p # o /\ NotWritten(p)' BY <1>1, <1>4 DEF NotWritten
<1>6. K!TypeOK' BY <1>1, <1>4 DEF OpsInv, K!TypeOK
<1>7. ASSUME NEW p \in OpIds PROVE RecordOK(p)'
  <2>1. RecordOK(p) /\ record[p].print \in Nat BY RecordsAreReviewed DEF OpsInv, OpRecords
  <2>2. Reviewed(record[p])' BY <1>1, <2>1 DEF RecordOK, Reviewed
  <2>3. (~Claimed(record[p]) => NotWritten(p))' BY <1>1, <1>5, <2>1 DEF RecordOK, Claimed
  <2>4. (writes[p] + (IF p \in flying THEN 1 ELSE 0) <= 1)' BY <1>2, <1>4, <2>1 DEF RecordOK
  <2>5. (record[p].status = "succeeded" /\ class.risk # "read" =>
           writes[p] = 1 /\ (class.evidence => record[p].print < target))'
    BY <1>1, <1>3, <1>4, <2>1 DEF RecordOK
  <2> QED BY <2>2, <2>3, <2>4, <2>5 DEF RecordOK
<1>8. ASSUME NEW d \in OpCalls PROVE CallOK(d)'
  <2>1. CallOK(d) BY DEF OpsInv
  <2>2. asked[d].pc \in {"dispatch", "submit"} => asked[d].op \in OpIds
    BY <2>1 DEF CallOK, Dispatching
  <2>3. (asked[d].pc \in {"dispatch", "submit"} => NotWritten(asked[d].op))'
    BY <1>1, <1>5, <2>1, <2>2 DEF CallOK
  <2> QED BY <1>1, <2>1, <2>3 DEF CallOK, OwnOf
<1>9. ASSUME NEW d \in OpCalls PROVE WorkOK(d)'
  <2>1. WorkOK(d) BY DEF OpsInv
  <2>2. (worker[d].pc # "idle" \/ work[d].state = "pending") => work[d].op \in OpIds
    BY <2>1, OpsOfWork DEF WorkOK
  <2>3. ((worker[d].pc \in Before \cup ToWrite \/ work[d].state = "pending") =>
           NotWritten(work[d].op))'
    BY <1>1, <1>5, <2>1, <2>2 DEF WorkOK, Before, ToWrite
  <2>4. (worker[d].pc \in Written => writes[work[d].op] = 1)'
    BY <1>1, <1>3, <1>4, <2>1, <2>2 DEF WorkOK, Written
  <2>5. ASSUME class.evidence, worker[d].pc = "claim" PROVE Newest(worker[d].print)'
    <3>1. worker[d].print \in Nat /\ Newest(worker[d].print)
      BY <2>1, <2>5 DEF WorkOK, OpsInv, K!TypeOK
    <3> QED BY <1>1, <1>4, <3>1 DEF Newest
  <2>6. ASSUME class.evidence, worker[d].pc \in ToWrite \cup Written
        PROVE  /\ Newest(record[work[d].op].print)'
               /\ worker[d].pc \in Written => record'[work[d].op].print < target'
    <3>1. record[work[d].op].print \in Nat
      BY <2>2, <2>6, RecordsAreReviewed DEF OpRecords, ToWrite, Written
    <3>2. Newest(record[work[d].op].print) BY <2>1, <2>6 DEF WorkOK
    <3>3. worker[d].pc \in Written => record[work[d].op].print < target BY <2>1, <2>6 DEF WorkOK
    <3> QED BY <1>1, <1>4, <3>1, <3>2, <3>3 DEF Newest
  <2> QED BY <1>1, <2>1, <2>3, <2>4, <2>5, <2>6 DEF WorkOK
<1>10. K!NoBlindWrite' /\ K!ItemAgrees' /\ StageOK' /\ CallsWait'
  BY <1>1 DEF OpsInv, K!NoBlindWrite, K!ItemAgrees, K!Status, StageOK, CallsWait
<1>11. Outcomes BY <1>1, NoneEvolves DEF Outcomes
<1> QED BY <1>6, <1>7, <1>8, <1>9, <1>10, <1>11 DEF OpsInv

\* The process ends: what was about to be written may be on its way.
LEMMA PerishKeeps ==
  ASSUME OpsInv, OpBounds, K!Perishes,
         UNCHANGED <<class, policy, scopes, target, writes, late, work>>,
         record' \in [OpIds -> OpRecords], Evolving
  PROVE  OpsInv' /\ Outcomes
<1>1. /\ asked' = [c \in OpCalls |-> IF asked[c].pc = "idle" THEN K!NoCall ELSE K!Done]
      /\ worker' = [c \in OpCalls |-> K!NoWork]
      /\ rereading' = 0 /\ stage' = "down" /\ todo' = {}
      /\ flying' = flying \cup {work[c].op : c \in {d \in OpCalls : worker[d].pc = "write"}}
  BY DEF K!Perishes, K!For
<1>2. ASSUME NEW p \in flying', p \notin flying
      PROVE  \E c \in OpCalls :
               /\ worker[c].pc = "write" /\ work[c].op = p /\ p \in OpIds
               /\ NotWritten(p) /\ Claimed(record[p]) /\ OwnOf(c) = p /\ p # 0
               /\ work[c].state = "running" /\ record[p].status = "running"
  <2>1. PICK c \in OpCalls : worker[c].pc = "write" /\ work[c].op = p BY <1>1, <1>2
  <2>2. /\ work[c].state = "running" /\ p \in OpIds /\ p # 0 /\ OwnOf(c) = p
        /\ WorkOK(c)
    BY <2>1, WorkFacts
  <2>3. NotWritten(p) /\ record[p].status = "running" /\ record[p].next # "reprepare"
    BY <2>1, <2>2 DEF WorkOK, ToWrite
  <2> QED BY <2>1, <2>2, <2>3 DEF Claimed
<1>3. flying' \subseteq OpIds /\ flying \subseteq flying' BY <1>1, <1>2 DEF OpsInv, K!TypeOK
<1>4. /\ K!NoCall \in AskedCalls /\ K!NoCall.pc = "idle" /\ K!NoCall.op = 0
      /\ K!Done \in AskedCalls /\ K!Done.pc = "done"
  BY DoneIsACall DEF K!NoCall, AskedCalls
<1>5. /\ asked' \in [OpCalls -> AskedCalls]
      /\ \A d \in OpCalls : asked'[d].pc \in {"idle", "done"}
      /\ \A d \in OpCalls : asked[d].pc = "done" => asked'[d].pc = "done"
  <2> HIDE DEF AskedCalls
  <2>1. asked' = [c \in OpCalls |-> IF asked[c].pc = "idle" THEN K!NoCall ELSE K!Done] BY <1>1
  <2>2. asked' \in [OpCalls -> AskedCalls] BY <1>4, <2>1
  <2>3. ASSUME NEW d \in OpCalls
        PROVE  /\ asked'[d].pc \in {"idle", "done"}
               /\ asked[d].pc = "done" => asked'[d].pc = "done"
    <3>1. asked'[d] = IF asked[d].pc = "idle" THEN K!NoCall ELSE K!Done BY <2>1
    <3> QED BY <1>4, <3>1
  <2> QED BY <2>2, <2>3
<1>13. /\ worker' \in [OpCalls -> Executions]
       /\ \A d \in OpCalls : worker'[d].pc = "idle"
  BY <1>1, NoWorkIsIdle
<1>6. K!TypeOK'
  <2>1. asked' \in [OpCalls ->
          [pc : {"idle", "prepare", "confirm", "confirming", "dispatch", "submit", "reading",
                 "complete", "done"},
           op : OpIds \cup {0}, print : Nat]]
    BY <1>5 DEF AskedCalls
  <2>2. worker' \in [OpCalls ->
           [pc : {"idle", "check", "preflight", "reject", "claim", "boundary", "execute", "write",
                  "follow", "verify", "settle", "finish", "doubt"},
            print : Nat, result : {"none", "succeeded", "failed", "unknown"}]]
    BY <1>13 DEF Executions
  <2>3. rereading' = 0 /\ stage' = "down" /\ todo' = {} BY <1>1
  <2> QED BY <1>3, <2>1, <2>2, <2>3 DEF OpsInv, K!TypeOK, OpRecords
<1>7. ASSUME NEW p \in OpIds PROVE RecordOK(p)'
  <2>1. RecordOK(p) /\ Evolves(record[p], record'[p]) /\ writes[p] \in Nat
    BY DEF OpsInv, Evolving, K!TypeOK
  <2>2. Reviewed(record[p])' BY <2>1 DEF Evolves, Reviewed
  <2>3. (~Claimed(record[p]) => NotWritten(p))'
    BY <1>2, <2>1 DEF Evolves, RecordOK, NotWritten, Claimed
  <2>4. (writes[p] + (IF p \in flying THEN 1 ELSE 0) <= 1)'
    <3>1. CASE p \in flying' /\ p \notin flying
      <4>1. writes[p] = 0 BY <1>2, <3>1 DEF NotWritten
      <4> QED BY <3>1, <4>1
    <3>2. CASE p \in flying' <=> p \in flying BY <2>1, <3>2 DEF RecordOK
    <3> QED BY <1>3, <3>1, <3>2
  <2>5. (record[p].status = "succeeded" /\ class.risk # "read" =>
           writes[p] = 1 /\ (class.evidence => record[p].print < target))'
    BY <2>1 DEF Evolves, RecordOK, K!Final
  <2> QED BY <2>2, <2>3, <2>4, <2>5 DEF RecordOK
<1>8. ASSUME NEW d \in OpCalls PROVE CallOK(d)'
  <2>1. ASSUME NEW e \in OpCalls
        PROVE  OwnOf(e)' = work[e].op /\ (work[e].op # 0 => OwnOf(e) = work[e].op)
    <3>1. asked'[e].pc \in {"idle", "done"} BY <1>5
    <3>2. work[e].op # 0 => asked[e].pc = "done" BY DEF OpsInv, CallOK
    <3> QED BY <3>1, <3>2 DEF OwnOf, Dispatching
  <2>2. CallOK(d) /\ (work[d].op # 0 => work[d].op \in OpIds) /\ Onward
    BY EvolvingIsOnward DEF OpsInv, K!TypeOK
  <2>3. (OwnOf(d) # 0 =>
         /\ record[OwnOf(d)].status \notin {"none", "awaiting_confirmation"}
         /\ \A e \in OpCalls : OwnOf(d) = OwnOf(e) => d = e)'
    BY <2>1, <2>2 DEF CallOK, Onward
  <2>4. asked'[d].pc \in {"idle", "done"} /\ (asked[d].pc = "done" => asked'[d].pc = "done")
    BY <1>5
  <2>5. /\ work[d].state = "none" <=> work[d].op = 0
        /\ work[d].op # 0 => asked[d].pc = "done" /\ class.risk # "read"
    BY <2>2 DEF CallOK
  <2> QED BY <2>3, <2>4, <2>5 DEF CallOK, Dispatching
<1>9. ASSUME NEW d \in OpCalls PROVE WorkOK(d)'
  <2>1. ASSUME work[d].state = "pending" PROVE NotWritten(work[d].op)'
    <3>1. NotWritten(work[d].op) /\ work[d].op \in OpIds /\ OwnOf(d) = work[d].op
      BY <2>1, OpsOfWork DEF OpsInv, WorkOK
    <3>2. ASSUME work[d].op \in flying' PROVE FALSE
      <4>1. PICK c \in OpCalls :
              OwnOf(c) = work[d].op /\ work[d].op # 0 /\ work[c].state = "running"
        BY <1>2, <3>1, <3>2 DEF NotWritten
      <4>2. c = d BY <3>1, <4>1 DEF OpsInv, CallOK
      <4> QED BY <2>1, <4>1, <4>2
    <3> QED BY <3>1, <3>2 DEF NotWritten
  <2>2. worker'[d].pc = "idle" BY <1>13
  <2> QED BY <2>1, <2>2 DEF WorkOK, Before, ToWrite, Written
<1>10. K!NoBlindWrite' /\ K!ItemAgrees' BY BlindKept, ItemsKept
<1>11. StageOK' /\ CallsWait' /\ Outcomes
  <2>1. StageOK' BY <1>1, <1>13 DEF StageOK
  <2>2. CallsWait' BY <1>5 DEF CallsWait
  <2> QED BY <2>1, <2>2 DEF Outcomes, Evolving
<1> QED BY <1>6, <1>7, <1>8, <1>9, <1>10, <1>11 DEF OpsInv

LEMMA CrashKeeps ==
  ASSUME OpsInv, OpBounds, K!Crash
  PROVE  OpsInv' /\ Outcomes
<1>1. /\ K!Perishes /\ UNCHANGED record
      /\ UNCHANGED <<class, policy, scopes, target, writes, late, work>>
  BY DEF K!Crash
<1>2. Evolving BY <1>1, NoneEvolves DEF Evolving
<1> QED BY <1>1, <1>2, TypesOf, PerishKeeps

LEMMA RecoverTornKeeps ==
  ASSUME OpsInv, OpBounds, NEW c \in OpCalls, K!RecoverTorn(c)
  PROVE  OpsInv' /\ Outcomes
<1> DEFINE o == work[c].op
<1>1. /\ K!Perishes /\ record' = [record EXCEPT ![o] = K!Doubted(@)]
      /\ UNCHANGED <<class, policy, scopes, target, writes, late, work>>
      /\ stage = "items" /\ c \in todo
  BY DEF K!RecoverTorn, K!For, K!Reconciled
<1>2. o \in OpIds BY <1>1, OpsOfWork DEF OpsInv, StageOK
<1>3. record' \in [OpIds -> OpRecords] /\ Evolving
  BY <1>1, <1>2, DoubtedRecord, OneEvolves DEF Evolving
<1> QED BY <1>1, <1>3, PerishKeeps

LEMMA OperationsStep ==
  ASSUME OpsInv, OpBounds, [K!Next]_K!vars
  PROVE  OpsInv' /\ Outcomes
<1>1. CASE UNCHANGED K!vars
  <2>1. /\ UNCHANGED <<class, policy, scopes, target, writes, flying, record, late, work, asked,
                       worker, rereading, stage, todo>>
    BY <1>1 DEF K!vars
  <2>2. StageOK' BY <2>1 DEF OpsInv, StageOK
  <2> QED BY <2>1, <2>2, TypesOf, QuietStep
<1>2. CASE K!RecoverySteps
  BY <1>2, CrashKeeps, StartKeeps, ProceedKeeps, RecoverItemKeeps, RecoverTornKeeps,
     RecoverTerminalKeeps, RecoverOpKeeps
  DEF K!RecoverySteps
<1> QED
  BY <1>1, <1>2, CallStepsKeep, WorkerStepsKeep, CancelKeeps, WindowClosesKeeps, ExpireKeeps,
     LandsKeeps, BeginKeeps, UpdatePolicyKeeps, GrantKeeps, ResolveKeeps, OtherKeeps
  DEF K!Next

LEMMA OperationsStart ==
  ASSUME OpBounds, K!Init
  PROVE  OpsInv
<1>1. /\ class \in {s.class : s \in OpScenarios}
      /\ target = 1 /\ writes = [o \in OpIds |-> 0] /\ flying = {}
      /\ record = [o \in OpIds |-> K!Unprepared] /\ late = {}
      /\ work = [c \in OpCalls |-> K!NoItem]
      /\ asked = [c \in OpCalls |-> K!NoCall]
      /\ worker = [c \in OpCalls |-> K!NoWork]
      /\ rereading = 0 /\ stage = "up" /\ todo = {}
      /\ scopes \in {"granted", "missing", "asked"}
  BY DEF K!Init
<1>2. policy \in [revision : Nat \ {0}, permission : K!Permissions]
  <2>1. K!Default(class.risk) \in K!Permissions
    <3>1. CASE class.risk \in {"read", "write"} BY <3>1 DEF K!Default, K!Permissions
    <3>2. CASE class.risk \in {"high-impact-write", "remote-operation"}
      BY <3>2 DEF K!Default, K!Permissions
    <3>3. CASE class.risk \notin {"read", "write", "high-impact-write", "remote-operation"}
      BY <3>3 DEF K!Default, K!Permissions
    <3> QED BY <3>1, <3>2, <3>3
  <2>2. PICK p \in {K!Default(class.risk)} \cup
                     (IF class.risk = "destructive" THEN {"confirm_each"} ELSE {}) :
          policy = [revision |-> 1, permission |-> p]
    BY DEF K!Init
  <2>3. p \in K!Permissions BY <2>1, <2>2 DEF K!Permissions
  <2> QED BY <2>2, <2>3
<1>3. /\ K!Unprepared \in OpRecords /\ K!Unprepared.status = "none"
      /\ K!Unprepared.tries = 0 /\ K!Unprepared.next = "none"
  BY DEF K!Unprepared, OpRecords, K!Statuses, K!Permissions, K!Verification
<1>4. /\ K!NoItem \in Items /\ K!NoItem.op = 0 /\ K!NoItem.state = "none"
      /\ K!NoCall \in AskedCalls /\ K!NoCall.pc = "idle" /\ K!NoCall.op = 0
  BY DEF K!NoItem, K!NoCall, Items, AskedCalls
<1>5. K!TypeOK
  <2>1. work \in [OpCalls ->
           [op : OpIds \cup {0}, state : {"none", "pending", "running", "terminal"},
            result : {"none", "succeeded", "failed", "unknown"}]]
    BY <1>1, <1>4 DEF Items
  <2>2. asked \in [OpCalls ->
          [pc : {"idle", "prepare", "confirm", "confirming", "dispatch", "submit", "reading",
                 "complete", "done"},
           op : OpIds \cup {0}, print : Nat]]
    BY <1>1, <1>4 DEF AskedCalls
  <2>3. worker \in [OpCalls ->
           [pc : {"idle", "check", "preflight", "reject", "claim", "boundary", "execute", "write",
                  "follow", "verify", "settle", "finish", "doubt"},
            print : Nat, result : {"none", "succeeded", "failed", "unknown"}]]
    BY <1>1, NoWorkIsIdle DEF Executions
  <2>4. record \in [OpIds -> [status : K!Statuses,
                         next : {"none", "confirm", "execute", "query", "manual_review", "stop",
                                 "reprepare"},
                         revision : Nat, permission : K!Permissions, print : Nat,
                         attempts : Nat, tries : 0 .. K!Verification]]
    BY <1>1, <1>3 DEF OpRecords
  <2> QED BY <1>1, <1>2, <2>1, <2>2, <2>3, <2>4 DEF K!TypeOK
<1>6. ASSUME NEW o \in OpIds PROVE RecordOK(o)
  <2>1. record[o] = K!Unprepared /\ writes[o] = 0 /\ o \notin flying BY <1>1
  <2>2. Reviewed(K!Unprepared) BY <1>3 DEF Reviewed, Waiting
  <2>3. ~Claimed(K!Unprepared) BY <1>3 DEF Claimed
  <2> QED BY <1>3, <2>1, <2>2, <2>3 DEF RecordOK, NotWritten
<1>7. \A c \in OpCalls : CallOK(c) /\ WorkOK(c)
  BY <1>1, <1>4, NoWorkIsIdle DEF CallOK, WorkOK, OwnOf, Dispatching, Before, ToWrite, Written
<1>8. K!NoBlindWrite /\ K!ItemAgrees /\ StageOK /\ CallsWait
  BY <1>1, <1>3, <1>4, NoWorkIsIdle DEF K!NoBlindWrite, K!ItemAgrees, K!Status, StageOK, CallsWait
<1> QED BY <1>5, <1>6, <1>7, <1>8 DEF OpsInv

\* Whatever is confirmed twice, crashes, is answered late or finds its policy changed: a governed
\* write is applied at most once, by one item, and what the record says of it is true.
THEOREM OperationsAreApplied ==
  ASSUME OpBounds
  PROVE  K!Spec => [](K!TypeOK /\ K!AppliedOnce /\ K!RecordIsTrue /\ K!ItemAgrees)
<1>1. K!Init => OpsInv BY OperationsStart
<1>2. OpsInv /\ [K!Next]_K!vars => OpsInv' BY OperationsStep
<1>3. OpsInv => K!TypeOK /\ K!AppliedOnce /\ K!RecordIsTrue /\ K!ItemAgrees
  <2> SUFFICES ASSUME OpsInv PROVE K!AppliedOnce /\ K!RecordIsTrue
    BY DEF OpsInv
  <2>1. K!AppliedOnce
    <3>1. \A c, d \in OpCalls : work[c].op = work[d].op /\ work[c].op # 0 => c = d
      <4> SUFFICES ASSUME NEW c \in OpCalls, NEW d \in OpCalls,
                          work[c].op = work[d].op, work[c].op # 0
                   PROVE  c = d
        OBVIOUS
      <4>1. OwnOf(c) = work[c].op /\ OwnOf(d) = work[d].op
        BY DEF OpsInv, CallOK, OwnOf, Dispatching
      <4> QED BY <4>1 DEF OpsInv, CallOK
    <3> QED BY <3>1 DEF OpsInv, RecordOK, K!AppliedOnce
  <2>2. K!RecordIsTrue BY DEF OpsInv, RecordOK, Claimed, NotWritten, K!RecordIsTrue, K!Status
  <2> QED BY <2>1, <2>2
<1> QED BY <1>1, <1>2, <1>3, PTL DEF K!Spec

\* Of any number of operations prepared from one reading of a target, one at most succeeds.
THEOREM NoOperationIsBlind ==
  ASSUME OpBounds
  PROVE  K!Spec => []K!NoBlindWrite
<1>1. K!Init => OpsInv BY OperationsStart
<1>2. OpsInv /\ [K!Next]_K!vars => OpsInv' BY OperationsStep
<1>3. OpsInv => K!NoBlindWrite BY DEF OpsInv
<1> QED BY <1>1, <1>2, <1>3, PTL DEF K!Spec

\* A person is asked about an unknown outcome after exactly three rereads, where there is
\* something to reread.
THEOREM UnknownOutcomesAreReread ==
  ASSUME OpBounds
  PROVE  K!Spec => []K!PersonIsAsked
<1>1. K!Init => OpsInv BY OperationsStart
<1>2. OpsInv /\ [K!Next]_K!vars => OpsInv' BY OperationsStep
<1>3. OpsInv => K!PersonIsAsked BY DEF OpsInv, RecordOK, Reviewed, K!PersonIsAsked, K!Status
<1> QED BY <1>1, <1>2, <1>3, PTL DEF K!Spec

\* How an operation ended stays so; what is unknown never turns into a success or a failure; and
\* what waited while its policy was changed never runs.
THEOREM EndedOperationsStay ==
  ASSUME OpBounds
  PROVE  K!Spec => K!OutcomesStay
<1>1. K!Init => OpsInv BY OperationsStart
<1>2. OpsInv /\ [K!Next]_K!vars => OpsInv' BY OperationsStep
<1>3. OpsInv /\ [K!Next]_K!vars =>
        [\A o \in OpIds :
           /\ K!Status(o) \in K!Final => record'[o] = record[o]
           /\ K!Unknown(record[o]) => K!Unknown(record'[o])
           /\ K!Status(o) \in {"awaiting_confirmation", "queued"}
                /\ record[o].revision # policy.revision => K!Status(o)' # "running"]_K!vars
  <2> SUFFICES ASSUME OpsInv, [K!Next]_K!vars, NEW o \in OpIds
               PROVE  /\ K!Status(o) \in K!Final => record'[o] = record[o]
                      /\ K!Unknown(record[o]) => K!Unknown(record'[o])
                      /\ K!Status(o) \in {"awaiting_confirmation", "queued"}
                           /\ record[o].revision # policy.revision => K!Status(o)' # "running"
    OBVIOUS
  <2>1. Evolves(record[o], record'[o]) \/ Succeeds(o) BY OperationsStep DEF Outcomes
  <2>2. CASE Evolves(record[o], record'[o]) BY <2>2 DEF Evolves, K!Status
  <2>3. CASE Succeeds(o) BY <2>3 DEF Succeeds, K!Status
  <2> QED BY <2>1, <2>2, <2>3
<1> QED BY <1>1, <1>2, <1>3, PTL DEF K!Spec, K!OutcomesStay
==============================================================================
