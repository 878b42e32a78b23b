----------------------- MODULE DetectingMutexProofs -----------------------
(***************************************************************************)
(* The properties of DetectingMutex, proved for any number of threads and  *)
(* locks and any depth of recursion.  MutexInv is inductive under TypeOK   *)
(* and carries all the others.                                             *)
(***************************************************************************)
EXTENDS DetectingMutex, TLAPS

(* What a thread does, one disjunct per action. *)
LEMMA StepCases ==
    ASSUME Next
    PROVE  \E t \in Threads :
             \/ FastPath(t) \/ EnterWait(t) \/ Retry(t) \/ FallAsleep(t) \/ TimeOut(t)
             \/ AfterAcquire(t) \/ Notify(t) \/ AfterRelease(t)
             \/ \E l \in Locks :
                  \/ UnlockOnce(t, l) \/ Unlock(t, l) \/ LockAgain(t, l)
                  \/ BeforeAcquire(t, l) \/ Abort(t, l) \/ TryLock(t, l)
BY DEF Next, Continue, Leave, Enter

(* Every variable keeps its type, and a call always has a lock. *)
THEOREM TypeCorrect == Spec => []TypeOK
<1>1. Init => TypeOK
  <2> SUFFICES ASSUME Init PROVE TypeOK
    OBVIOUS
  <2>1. /\ pc \in [Threads -> Labels]
        /\ want \in [Threads -> Locks \cup {None}]
        /\ \A t \in Threads : pc[t] # "idle" => want[t] \in Locks
    BY DEF Init, Labels
  <2>2. /\ holder \in [Locks -> Threads \cup {None}]
        /\ count \in [Locks -> [Threads -> Nat]]
        /\ waitMutex \in [Locks -> Threads \cup {None}]
    BY DEF Init
  <2>3. /\ threadLocks \in [Threads -> SUBSET Locks]
        /\ waiting \in [Threads -> Locks \cup {None}]
        /\ reported \subseteq SUBSET Threads
        /\ aborted \in BOOLEAN
    BY DEF Init
  <2> QED
    BY <2>1, <2>2, <2>3 DEF TypeOK
<1>2. TypeOK /\ [Next]_vars => TypeOK'
  <2> SUFFICES ASSUME TypeOK, [Next]_vars
               PROVE  TypeOK'
    OBVIOUS
  <2> USE MutexAssumption DEF TypeOK, Labels, callVars, mutexVars, detectorVars, Goto
  <2>1. CASE UNCHANGED vars
    BY <2>1 DEF vars
  <2>2. CASE Next
    <3>1. PICK t \in Threads :
             \/ FastPath(t) \/ EnterWait(t) \/ Retry(t) \/ FallAsleep(t) \/ TimeOut(t)
             \/ AfterAcquire(t) \/ Notify(t) \/ AfterRelease(t)
             \/ \E l \in Locks :
                  \/ UnlockOnce(t, l) \/ Unlock(t, l) \/ LockAgain(t, l)
                  \/ BeforeAcquire(t, l) \/ Abort(t, l) \/ TryLock(t, l)
      BY <2>2, StepCases
    <3>2. CASE FastPath(t)
      <4>1. CASE holder[want[t]] = None
        <5>1. want[t] \in Locks
          BY <3>2 DEF FastPath
        <5>2. holder' \in [Locks -> Threads \cup {None}]
          BY <3>2, <4>1, <5>1 DEF FastPath
        <5>3. /\ pc' \in [Threads -> Labels]
              /\ UNCHANGED want
          BY <3>2, <4>1 DEF FastPath
        <5>4. waitMutex' \in [Locks -> Threads \cup {None}]
          BY <3>2, <4>1, <5>1 DEF FastPath
        <5>5. \A u \in Threads : pc'[u] # "idle" => want'[u] \in Locks
          BY <3>2, <4>1, <5>1 DEF FastPath
        <5> QED
          BY <3>2, <4>1, <5>2, <5>3, <5>4, <5>5 DEF FastPath
      <4>2. CASE holder[want[t]] # None
        BY <3>2, <4>2 DEF FastPath
      <4> QED
        BY <4>1, <4>2
    <3>3. CASE EnterWait(t)
      BY <3>3 DEF EnterWait
    <3>4. CASE Retry(t)
      <4>1. CASE holder[want[t]] = None
        <5>1. want[t] \in Locks
          BY <3>4 DEF Retry
        <5>2. holder' \in [Locks -> Threads \cup {None}]
          BY <3>4, <4>1, <5>1 DEF Retry
        <5>3. /\ pc' \in [Threads -> Labels]
              /\ UNCHANGED want
          BY <3>4, <4>1 DEF Retry
        <5>4. waitMutex' \in [Locks -> Threads \cup {None}]
          BY <3>4, <4>1, <5>1 DEF Retry
        <5>5. \A u \in Threads : pc'[u] # "idle" => want'[u] \in Locks
          BY <3>4, <4>1, <5>1 DEF Retry
        <5> QED
          BY <3>4, <4>1, <5>2, <5>3, <5>4, <5>5 DEF Retry
      <4>2. CASE holder[want[t]] # None
        <5>1. /\ pc' \in [Threads -> Labels]
              /\ \A u \in Threads : pc'[u] # "idle" => pc[u] # "idle"
          BY <3>4, <4>2 DEF Retry
        <5>2. UNCHANGED <<want, mutexVars, detectorVars>>
          BY <3>4, <4>2 DEF Retry
        <5> QED
          BY <5>1, <5>2
      <4> QED
        BY <4>1, <4>2
    <3>5. CASE FallAsleep(t)
      BY <3>5 DEF FallAsleep
    <3>6. CASE TimeOut(t)
      BY <3>6 DEF TimeOut
    <3>7. CASE AfterAcquire(t)
      BY <3>7 DEF AfterAcquire
    <3>8. CASE Notify(t)
      <4>1. CASE Goto(t, "released")
        BY <3>8, <4>1 DEF Notify
      <4>2. ASSUME NEW u \in Sleepers(want[t]),
                   pc' = [pc EXCEPT ![t] = "released", ![u] = "woken"]
            PROVE  TypeOK'
        <5>1. u \in Threads /\ pc[u] = "asleep" /\ pc[t] = "notify"
          BY <3>8, <4>2 DEF Notify, Sleepers
        <5>2. /\ pc' \in [Threads -> Labels]
              /\ \A v \in Threads : pc'[v] # "idle" => pc[v] # "idle"
          BY <4>2, <5>1
        <5>3. UNCHANGED <<want, mutexVars, detectorVars>>
          BY <3>8 DEF Notify
        <5> QED
          BY <5>2, <5>3
      <4> QED
        BY <3>8, <4>1, <4>2 DEF Notify
    <3>9. CASE AfterRelease(t)
      BY <3>9 DEF AfterRelease
    <3>10. ASSUME NEW l \in Locks, UnlockOnce(t, l) PROVE TypeOK'
      BY <3>10 DEF UnlockOnce
    <3>11. ASSUME NEW l \in Locks, Unlock(t, l) PROVE TypeOK'
      BY <3>11 DEF Unlock
    <3>12. ASSUME NEW l \in Locks, LockAgain(t, l) PROVE TypeOK'
      BY <3>12 DEF LockAgain
    <3>13. ASSUME NEW l \in Locks, BeforeAcquire(t, l) PROVE TypeOK'
      BY <3>13 DEF BeforeAcquire, CrossedWith
    <3>14. ASSUME NEW l \in Locks, Abort(t, l) PROVE TypeOK'
      BY <3>14 DEF Abort
    <3>15. ASSUME NEW l \in Locks, TryLock(t, l) PROVE TypeOK'
      BY <3>15 DEF TryLock
    <3> QED
      BY <3>1, <3>2, <3>3, <3>4, <3>5, <3>6, <3>7, <3>8, <3>9, <3>10, <3>11, <3>12,
         <3>13, <3>14, <3>15
  <2> QED
    BY <2>1, <2>2
<1> QED
  BY <1>1, <1>2, PTL DEF Spec

(* The detector's maps follow the mutex and the counts through every step. *)
LEMMA InvInit == Init => MutexInv
<1> SUFFICES ASSUME Init, NEW t \in Threads
             PROVE  MutexInv!(t)
  BY DEF MutexInv
<1>1. \A l \in Locks : holder[l] = None /\ count[l][t] = 0
  BY DEF Init
<1>2. pc[t] = "idle" /\ threadLocks[t] = {} /\ waiting[t] = None
  BY DEF Init
<1> QED
  BY <1>1, <1>2, MutexAssumption DEF Acquiring

(* Every step keeps what MutexInv says of the mutex, the counts and the    *)
(* detector's maps.                                                        *)
LEMMA InvStep == TypeOK /\ MutexInv /\ [Next]_vars => MutexInv'
<1> SUFFICES ASSUME TypeOK, MutexInv, [Next]_vars
             PROVE  MutexInv'
  OBVIOUS
<1> USE MutexAssumption DEF TypeOK, MutexInv, Acquiring, callVars, mutexVars, detectorVars,
        Goto
<1>1. CASE UNCHANGED vars
  BY <1>1 DEF vars
<1>2. CASE Next
  <2>1. PICK t \in Threads :
           \/ FastPath(t) \/ EnterWait(t) \/ Retry(t) \/ FallAsleep(t) \/ TimeOut(t)
           \/ AfterAcquire(t) \/ Notify(t) \/ AfterRelease(t)
           \/ \E l \in Locks :
                \/ UnlockOnce(t, l) \/ Unlock(t, l) \/ LockAgain(t, l)
                \/ BeforeAcquire(t, l) \/ Abort(t, l) \/ TryLock(t, l)
    BY <1>2, StepCases
  <2>2. CASE FastPath(t)
    BY <2>2 DEF FastPath
  <2>3. CASE EnterWait(t)
    BY <2>3 DEF EnterWait
  <2>4. CASE Retry(t)
    BY <2>4 DEF Retry
  <2>5. CASE FallAsleep(t)
    BY <2>5 DEF FallAsleep
  <2>6. CASE TimeOut(t)
    BY <2>6 DEF TimeOut
  <2>7. CASE AfterAcquire(t)
    BY <2>7 DEF AfterAcquire
  <2>8. CASE Notify(t)
    BY <2>8 DEF Notify, Sleepers
  <2>9. CASE AfterRelease(t)
    BY <2>9 DEF AfterRelease
  <2>10. ASSUME NEW l \in Locks, UnlockOnce(t, l) PROVE MutexInv'
    BY <2>10 DEF UnlockOnce
  <2>11. ASSUME NEW l \in Locks, Unlock(t, l) PROVE MutexInv'
    BY <2>11 DEF Unlock
  <2>12. ASSUME NEW l \in Locks, LockAgain(t, l) PROVE MutexInv'
    BY <2>12 DEF LockAgain
  <2>13. ASSUME NEW l \in Locks, BeforeAcquire(t, l) PROVE MutexInv'
    BY <2>13 DEF BeforeAcquire
  <2>14. ASSUME NEW l \in Locks, Abort(t, l) PROVE MutexInv'
    BY <2>14 DEF Abort
  <2>15. ASSUME NEW l \in Locks, TryLock(t, l) PROVE MutexInv'
    BY <2>15 DEF TryLock
  <2> QED
    BY <2>1, <2>2, <2>3, <2>4, <2>5, <2>6, <2>7, <2>8, <2>9, <2>10, <2>11, <2>12,
       <2>13, <2>14, <2>15
<1> QED
  BY <1>1, <1>2

(* The inductive invariant: how the mutex under the wrapper, the counts of *)
(* the threads and the detector's two maps lag behind one another at each  *)
(* step of lock, try_lock and unlock.                                      *)
THEOREM MutexCorrect == Spec => []MutexInv
BY TypeCorrect, InvInit, InvStep, PTL DEF Spec

(* Two threads are never inside the same lock: the two counts and the      *)
(* mutex under them agree.                                                 *)
THEOREM NeverTwoInside == Spec => []Exclusive
<1>1. TypeOK /\ MutexInv => Exclusive
  <2> SUFFICES ASSUME TypeOK, MutexInv, NEW l \in Locks, NEW t \in Threads, NEW u \in Threads,
                      count[l][t] > 0, count[l][u] > 0
               PROVE  t = u
    BY DEF Exclusive
  <2>1. holder[l] = t /\ holder[l] = u
    BY DEF MutexInv
  <2> QED
    BY <2>1
<1> QED
  BY <1>1, TypeCorrect, MutexCorrect, PTL

(* The wrapper implements recursive locks: a thread that gets in finds     *)
(* every other one outside, because the mutex under the wrapper and the    *)
(* counts agree; everything else of a call changes no count.               *)
THEOREM LocksAreRecursive == Spec => ImplementsLocks
<1>1. Init => Recursive!Init
  BY DEF Init, Recursive!Init
<1>2. TypeOK /\ MutexInv /\ [Next]_vars => [Recursive!Next]_count
  <2> SUFFICES ASSUME TypeOK, MutexInv, [Next]_vars, count' # count
               PROVE  Recursive!Next
    OBVIOUS
  <2> USE DEF callVars, mutexVars, detectorVars
  <2>1. PICK t \in Threads :
           \/ FastPath(t) \/ EnterWait(t) \/ Retry(t) \/ FallAsleep(t) \/ TimeOut(t)
           \/ AfterAcquire(t) \/ Notify(t) \/ AfterRelease(t)
           \/ \E l \in Locks :
                \/ UnlockOnce(t, l) \/ Unlock(t, l) \/ LockAgain(t, l)
                \/ BeforeAcquire(t, l) \/ Abort(t, l) \/ TryLock(t, l)
    BY StepCases DEF vars
  <2>2. CASE AfterAcquire(t)
    <3>1. PICK l \in Locks : l = want[t]
      BY <2>2 DEF AfterAcquire, TypeOK
    <3>2. holder[l] = t /\ count[l][t] = 0
      BY <2>2, <3>1 DEF AfterAcquire, MutexInv
    <3>3. \A u \in Threads : count[l][u] \in Nat /\ ~(count[l][u] > 0 /\ u # t)
      BY <3>2 DEF MutexInv, TypeOK
    <3>4. \A u \in Threads \ {t} : count[l][u] = 0
      BY <3>3
    <3>5. count' = [count EXCEPT ![l][t] = @ + 1]
      BY <2>2, <3>1, <3>2 DEF AfterAcquire, TypeOK
    <3> QED
      BY <3>4, <3>5 DEF Recursive!Next, Recursive!Lock
  <2>3. ASSUME NEW l \in Locks, LockAgain(t, l) PROVE Recursive!Next
    <3>1. count[l][t] > 0 /\ count' = [count EXCEPT ![l][t] = @ + 1]
      BY <2>3, MutexAssumption DEF LockAgain, TypeOK
    <3>2. \A u \in Threads : count[l][u] \in Nat /\ ~(count[l][u] > 0 /\ u # t)
      BY <3>1 DEF MutexInv, TypeOK
    <3>3. \A u \in Threads \ {t} : count[l][u] = 0
      BY <3>2
    <3> QED
      BY <3>1, <3>3 DEF Recursive!Next, Recursive!Lock
  <2>4. ASSUME NEW l \in Locks, UnlockOnce(t, l) \/ Unlock(t, l) PROVE Recursive!Next
    <3>1. count[l][t] > 0 /\ count' = [count EXCEPT ![l][t] = @ - 1]
      BY <2>4 DEF UnlockOnce, Unlock, TypeOK
    <3> QED
      BY <3>1 DEF Recursive!Next, Recursive!Unlock
  <2>5. FastPath(t) \/ EnterWait(t) \/ Retry(t) \/ FallAsleep(t) \/ TimeOut(t)
           \/ Notify(t) \/ AfterRelease(t) => count' = count
    BY DEF FastPath, EnterWait, Retry, FallAsleep, TimeOut, Notify, AfterRelease
  <2>6. ASSUME NEW l \in Locks, BeforeAcquire(t, l) \/ Abort(t, l) \/ TryLock(t, l)
        PROVE  count' = count
    BY <2>6 DEF BeforeAcquire, Abort, TryLock
  <2> QED
    BY <2>1, <2>2, <2>3, <2>4, <2>5, <2>6
<1> QED
  BY <1>1, <1>2, TypeCorrect, MutexCorrect, PTL DEF Spec, ImplementsLocks, Recursive!Spec

(* Outside a call the detector's record of a thread is what it holds.      *)
THEOREM RecordsAreExact == Spec => []RecordIsExact
<1>1. MutexInv => RecordIsExact
  BY DEF MutexInv, RecordIsExact
<1> QED
  BY <1>1, MutexCorrect, PTL

-----------------------------------------------------------------------------
(* A thread without the permission that never calls try_lock, on its way   *)
(* into a lock, holds none; so it never holds two.                         *)
OneAtATime ==
    Checking =>
        \A t \in Threads \ (MultiLockers \cup TryLockers) :
            /\ pc[t] \in Acquiring => \A l \in Locks : count[l][t] = 0
            /\ \A l, m \in Locks : count[l][t] > 0 /\ count[m][t] > 0 => l = m

(* A step that changes no count and starts no acquisition keeps it. *)
LEMMA OneAtATimeKept ==
    ASSUME OneAtATime, UNCHANGED count,
           \A t \in Threads : pc'[t] \in Acquiring => pc[t] \in Acquiring
    PROVE  OneAtATime'
BY DEF OneAtATime, Acquiring

(* A thread that may hold one lock only is on its way into a lock while it *)
(* holds none.                                                             *)
LEMMA OneAtATimeStep ==
    TypeOK /\ MutexInv /\ OneAtATime /\ [Next]_vars => OneAtATime'
<1> SUFFICES ASSUME TypeOK, MutexInv, OneAtATime, [Next]_vars
             PROVE  OneAtATime'
  OBVIOUS
<1> USE DEF TypeOK, Goto, Acquiring, callVars, mutexVars, detectorVars
<1>1. CASE UNCHANGED vars
  BY <1>1, OneAtATimeKept DEF vars
<1>2. CASE Next
  <2>1. PICK t \in Threads :
           \/ FastPath(t) \/ EnterWait(t) \/ Retry(t) \/ FallAsleep(t) \/ TimeOut(t)
           \/ AfterAcquire(t) \/ Notify(t) \/ AfterRelease(t)
           \/ \E l \in Locks :
                \/ UnlockOnce(t, l) \/ Unlock(t, l) \/ LockAgain(t, l)
                \/ BeforeAcquire(t, l) \/ Abort(t, l) \/ TryLock(t, l)
    BY <1>2, StepCases
  <2>2. CASE FastPath(t)
    BY <2>2, OneAtATimeKept DEF FastPath
  <2>3. CASE EnterWait(t)
    BY <2>3, OneAtATimeKept DEF EnterWait
  <2>4. CASE Retry(t)
    BY <2>4, OneAtATimeKept DEF Retry
  <2>5. CASE FallAsleep(t)
    BY <2>5, OneAtATimeKept DEF FallAsleep
  <2>6. CASE TimeOut(t)
    BY <2>6, OneAtATimeKept DEF TimeOut
  <2>7. CASE AfterAcquire(t)
    BY <2>7 DEF AfterAcquire, OneAtATime
  <2>8. CASE Notify(t)
    BY <2>8, OneAtATimeKept DEF Notify, Sleepers
  <2>9. CASE AfterRelease(t)
    BY <2>9, OneAtATimeKept DEF AfterRelease
  <2>10. ASSUME NEW l \in Locks, UnlockOnce(t, l) PROVE OneAtATime'
    BY <2>10 DEF UnlockOnce, OneAtATime
  <2>11. ASSUME NEW l \in Locks, Unlock(t, l) PROVE OneAtATime'
    BY <2>11 DEF Unlock, OneAtATime
  <2>12. ASSUME NEW l \in Locks, LockAgain(t, l) PROVE OneAtATime'
    BY <2>12 DEF LockAgain, OneAtATime
  <2>13. ASSUME NEW l \in Locks, BeforeAcquire(t, l) PROVE OneAtATime'
    <3>1. Checking /\ t \notin MultiLockers => threadLocks[t] = {}
      BY <2>13 DEF BeforeAcquire, Forbidden, MutexInv
    <3>2. Checking /\ t \notin MultiLockers => \A m \in Locks : count[m][t] = 0
      BY <3>1 DEF MutexInv
    <3> QED
      BY <2>13, <3>2 DEF BeforeAcquire, OneAtATime
  <2>14. ASSUME NEW l \in Locks, Abort(t, l) PROVE OneAtATime'
    BY <2>14, OneAtATimeKept DEF Abort
  <2>15. ASSUME NEW l \in Locks, TryLock(t, l) PROVE OneAtATime'
    BY <2>15 DEF TryLock, OneAtATime
  <2> QED
    BY <2>1, <2>2, <2>3, <2>4, <2>5, <2>6, <2>7, <2>8, <2>9, <2>10, <2>11, <2>12,
       <2>13, <2>14, <2>15
<1> QED
  BY <1>1, <1>2

(* In a debug build only the permitted threads, and those that call        *)
(* try_lock, which is not checked, ever hold two locks.                    *)
THEOREM OnlyPermittedHoldTwo == Spec => []OneLockEach
<1>1. Init => OneAtATime
  <2> SUFFICES ASSUME Init, NEW t \in Threads
               PROVE  pc[t] \notin Acquiring /\ \A l \in Locks : ~(count[l][t] > 0)
    BY DEF OneAtATime
  <2>1. pc[t] = "idle" /\ \A l \in Locks : count[l][t] = 0
    BY DEF Init
  <2> QED
    BY <2>1 DEF Acquiring
<1>2. OneAtATime => OneLockEach
  BY DEF OneAtATime, OneLockEach
<1>3. TypeOK /\ MutexInv /\ OneAtATime /\ [Next]_vars => OneAtATime'
  BY OneAtATimeStep
<1> QED
  BY <1>1, <1>2, <1>3, TypeCorrect, MutexCorrect, PTL DEF Spec

-----------------------------------------------------------------------------
(* Who waits for a lock and holds another has it on record. *)
LEMMA WaiterIsRecorded ==
    ASSUME TypeOK, MutexInv, NEW t \in Threads, NEW l \in Locks,
           waiting[t] # None, holder[l] = t, l # waiting[t]
    PROVE  l \in threadLocks[t]
BY DEF MutexInv

(* And what a waiting thread has on record it holds. *)
LEMMA RecordOfWaiter ==
    ASSUME TypeOK, MutexInv, NEW t \in Threads, NEW l \in threadLocks[t],
           waiting[t] # None \/ pc[t] = "idle"
    PROVE  holder[l] = t
BY DEF TypeOK, MutexInv, Acquiring

(* The condition for which a pair of threads must be reported. *)
Stuck(t, u) ==
    /\ waiting[t] # None
    /\ waiting[u] # None
    /\ holder[waiting[t]] = u
    /\ holder[waiting[u]] = t

(* Only a thread that starts to wait can close a cycle. *)
LEMMA OldCycle ==
    ASSUME TypeOK, MutexInv, Next, NEW t \in Threads, NEW u \in Threads, t # u,
           Stuck(t, u)', waiting'[t] = waiting[t], waiting'[u] = waiting[u]
    PROVE  Stuck(t, u)
<1> USE MutexAssumption DEF Stuck, TypeOK, Goto, Acquiring, callVars, mutexVars, detectorVars
<1>1. PICK v \in Threads :
         \/ FastPath(v) \/ EnterWait(v) \/ Retry(v) \/ FallAsleep(v) \/ TimeOut(v)
         \/ AfterAcquire(v) \/ Notify(v) \/ AfterRelease(v)
         \/ \E l \in Locks :
              \/ UnlockOnce(v, l) \/ Unlock(v, l) \/ LockAgain(v, l)
              \/ BeforeAcquire(v, l) \/ Abort(v, l) \/ TryLock(v, l)
  BY StepCases
<1>2. CASE UNCHANGED holder
  BY <1>2
<1>3. CASE FastPath(v) \/ Retry(v)
  <2>1. waiting[v] # None => waiting[v] = want[v]
    BY DEF MutexInv
  <2>2. waiting[v] # None
    BY <1>3 DEF MutexInv, FastPath, Retry
  <2>3. holder' = holder \/ holder' = [holder EXCEPT ![want[v]] = v]
    BY <1>3 DEF FastPath, Retry
  <2> QED
    BY <2>1, <2>2, <2>3
<1>4. ASSUME NEW l \in Locks, Unlock(v, l) \/ TryLock(v, l) PROVE Stuck(t, u)
  <2>1. waiting[v] = None
    BY <1>4 DEF MutexInv, Unlock, TryLock
  <2>2. holder' = [holder EXCEPT ![l] = None] \/ holder' = [holder EXCEPT ![l] = v]
    BY <1>4 DEF Unlock, TryLock
  <2> QED
    BY <2>1, <2>2
<1>5. CASE \/ EnterWait(v) \/ FallAsleep(v) \/ TimeOut(v) \/ AfterAcquire(v)
           \/ Notify(v) \/ AfterRelease(v)
  BY <1>2, <1>5 DEF EnterWait, FallAsleep, TimeOut, AfterAcquire, Notify, AfterRelease
<1>6. ASSUME NEW l \in Locks,
             UnlockOnce(v, l) \/ LockAgain(v, l) \/ BeforeAcquire(v, l) \/ Abort(v, l)
      PROVE  Stuck(t, u)
  BY <1>2, <1>6 DEF UnlockOnce, LockAgain, BeforeAcquire, Abort
<1> QED
  BY <1>1, <1>3, <1>4, <1>5, <1>6

(* What a thread that starts to wait reports: exactly the pairs it closes. *)
LEMMA ReportsItsPairs ==
    ASSUME TypeOK, MutexInv, Checking, NEW t \in Threads, NEW l \in Locks,
           BeforeAcquire(t, l), NEW u \in Threads, u # t
    PROVE  u \in CrossedWith(t, l) <=> Stuck(t, u)'
<1> USE DEF TypeOK, Goto, mutexVars
<1>1. /\ pc[t] = "idle"
      /\ waiting' = [waiting EXCEPT ![t] = l]
      /\ UNCHANGED holder
  BY DEF BeforeAcquire
<1>2. waiting'[t] = l /\ waiting'[u] = waiting[u] /\ l # None
  BY <1>1, MutexAssumption
<1>3. waiting[t] = None /\ holder[l] # t
  <2>1. waiting[t] = None
    BY <1>1 DEF MutexInv, Acquiring
  <2>2. ~(count[l][t] > 0)
    BY DEF BeforeAcquire
  <2> QED
    BY <1>1, <2>1, <2>2 DEF MutexInv
<1>4. ASSUME u \in CrossedWith(t, l) PROVE Stuck(t, u)'
  <2>1. l \in threadLocks[u] /\ waiting[u] \in threadLocks[t]
    BY <1>4 DEF CrossedWith
  <2>2. waiting[u] # None /\ waiting[u] \in Locks
    BY <2>1, MutexAssumption
  <2>3. holder[l] = u /\ holder[waiting[u]] = t
    BY <1>1, <2>1, <2>2, RecordOfWaiter
  <2> QED
    BY <1>1, <1>2, <2>2, <2>3 DEF Stuck
<1>5. ASSUME Stuck(t, u)' PROVE u \in CrossedWith(t, l)
  <2>1. /\ waiting[u] \in Locks
        /\ waiting[u] # None
        /\ holder[l] = u
        /\ holder[waiting[u]] = t
    BY <1>1, <1>2, <1>5 DEF Stuck
  <2>2. l \in threadLocks[u]
    BY <1>3, <2>1, WaiterIsRecorded
  <2>3. waiting[u] \in threadLocks[t]
    BY <1>1, <2>1 DEF MutexInv
  <2> QED
    BY <2>2, <2>3 DEF CrossedWith
<1> QED
  BY <1>4, <1>5

(* Records of a wait end only with the wait, and reports are never taken   *)
(* back.                                                                   *)
LEMMA OtherSteps ==
    ASSUME TypeOK, MutexInv, Next,
           ~\E t \in Threads : \E l \in Locks : BeforeAcquire(t, l)
    PROVE  /\ UNCHANGED reported
           /\ \A t \in Threads : waiting'[t] = waiting[t] \/ waiting'[t] = None
<1> USE DEF TypeOK, callVars, mutexVars, detectorVars
<1>1. PICK v \in Threads :
         \/ FastPath(v) \/ EnterWait(v) \/ Retry(v) \/ FallAsleep(v) \/ TimeOut(v)
         \/ AfterAcquire(v) \/ Notify(v) \/ AfterRelease(v)
         \/ \E l \in Locks :
              \/ UnlockOnce(v, l) \/ Unlock(v, l) \/ LockAgain(v, l)
              \/ BeforeAcquire(v, l) \/ Abort(v, l) \/ TryLock(v, l)
  BY StepCases
<1>2. CASE FastPath(v) \/ EnterWait(v) \/ Retry(v) \/ FallAsleep(v) \/ TimeOut(v)
  BY <1>2 DEF FastPath, EnterWait, Retry, FallAsleep, TimeOut
<1>3. CASE AfterAcquire(v) \/ Notify(v) \/ AfterRelease(v)
  BY <1>3 DEF AfterAcquire, Notify, AfterRelease
<1>4. ASSUME NEW l \in Locks,
             UnlockOnce(v, l) \/ Unlock(v, l) \/ LockAgain(v, l) \/ Abort(v, l) \/ TryLock(v, l)
      PROVE  UNCHANGED <<reported, waiting>>
  BY <1>4 DEF UnlockOnce, Unlock, LockAgain, Abort, TryLock
<1> QED
  BY <1>1, <1>2, <1>3, <1>4

(* Two threads that wait for each other have been reported, whatever the   *)
(* order in which they came.                                               *)
THEOREM DeadlocksAreReported == Spec => []StuckPairIsReported
<1>1. Init => StuckPairIsReported
  BY DEF Init, StuckPairIsReported
<1>2. TypeOK /\ MutexInv /\ StuckPairIsReported /\ [Next]_vars => StuckPairIsReported'
  <2> SUFFICES ASSUME TypeOK, MutexInv, StuckPairIsReported, [Next]_vars, Checking,
                      NEW t \in Threads, NEW u \in Threads, t # u, Stuck(t, u)'
               PROVE  {t, u} \in reported'
    BY DEF StuckPairIsReported, Stuck
  <2>1. CASE UNCHANGED vars
    BY <2>1 DEF vars, detectorVars, mutexVars, StuckPairIsReported, Stuck
  <2>2. ASSUME Next, waiting'[t] = waiting[t], waiting'[u] = waiting[u]
        PROVE  {t, u} \in reported
    BY <2>2, OldCycle DEF StuckPairIsReported, Stuck
  <2>3. ASSUME Next, NEW v \in Threads, NEW l \in Locks, BeforeAcquire(v, l)
        PROVE  {t, u} \in reported'
    <3>1. reported' = reported \cup {{v, w} : w \in CrossedWith(v, l)}
      BY <2>3 DEF BeforeAcquire
    <3>2. CASE v = t
      BY <2>3, <3>1, <3>2, ReportsItsPairs
    <3>3. CASE v = u
      <4>1. Stuck(u, t)'
        BY DEF Stuck
      <4>2. t \in CrossedWith(u, l)
        BY <2>3, <3>3, <4>1, ReportsItsPairs
      <4> QED
        BY <3>1, <3>3, <4>2
    <3>4. CASE v # t /\ v # u
      <4>1. waiting'[t] = waiting[t] /\ waiting'[u] = waiting[u]
        BY <2>3, <3>4 DEF BeforeAcquire, TypeOK
      <4> QED
        BY <2>2, <2>3, <3>1, <4>1
    <3> QED
      BY <3>2, <3>3, <3>4
  <2>4. CASE Next /\ ~\E v \in Threads : \E l \in Locks : BeforeAcquire(v, l)
    <3>1. /\ UNCHANGED reported
          /\ waiting'[t] = waiting[t] /\ waiting'[u] = waiting[u]
      BY <2>4, OtherSteps DEF Stuck
    <3> QED
      BY <2>2, <2>4, <3>1
  <2> QED
    BY <2>1, <2>3, <2>4
<1> QED
  BY <1>1, <1>2, TypeCorrect, MutexCorrect, PTL DEF Spec

(* Nothing but a pair of threads that wait for each other is reported.     *)
THEOREM ReportsAreTrue == Spec => NoFalseAlarm
<1> DEFINE New(t, u) == t # u /\ {t, u} \in reported' \ reported
<1>1. ASSUME TypeOK, MutexInv, [Next]_vars, NEW t \in Threads, NEW u \in Threads, New(t, u)
      PROVE  Stuck(t, u)'
  <2>1. ~UNCHANGED vars
    BY <1>1 DEF vars, detectorVars
  <2>2. PICK v \in Threads, l \in Locks : BeforeAcquire(v, l)
    BY <1>1, <2>1, OtherSteps
  <2>3. /\ Checking
        /\ reported' = reported \cup {{v, w} : w \in CrossedWith(v, l)}
    BY <1>1, <2>2 DEF BeforeAcquire
  <2>4. PICK w \in CrossedWith(v, l) : {t, u} = {v, w}
    BY <1>1, <2>3
  <2>5. w \in Threads /\ w # v
    BY DEF CrossedWith
  <2>6. Stuck(v, w)'
    BY <1>1, <2>2, <2>3, <2>5, ReportsItsPairs
  <2>7. (t = v /\ u = w) \/ (t = w /\ u = v)
    BY <1>1, <2>4
  <2> QED
    BY <2>6, <2>7 DEF Stuck
<1>2. TypeOK /\ MutexInv /\ [Next]_vars =>
        [\A t, u \in Threads :
           t # u /\ {t, u} \in reported' \ reported =>
             /\ waiting'[t] # None /\ waiting'[u] # None
             /\ holder[waiting'[t]] = u /\ holder[waiting'[u]] = t]_vars
  <2> SUFFICES ASSUME TypeOK, MutexInv, [Next]_vars, NEW t \in Threads, NEW u \in Threads,
                      New(t, u)
               PROVE  /\ waiting'[t] # None /\ waiting'[u] # None
                      /\ holder[waiting'[t]] = u /\ holder[waiting'[u]] = t
    OBVIOUS
  <2>1. Stuck(t, u)'
    BY <1>1
  <2>2. PICK v \in Threads, l \in Locks : BeforeAcquire(v, l)
    BY OtherSteps DEF vars, detectorVars
  <2>3. UNCHANGED holder
    BY <2>2 DEF BeforeAcquire, mutexVars
  <2> QED
    BY <2>1, <2>3 DEF Stuck
<1> QED
  BY <1>2, TypeCorrect, MutexCorrect, PTL DEF Spec, NoFalseAlarm
=============================================================================
