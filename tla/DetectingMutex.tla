--------------------------- MODULE DetectingMutex ---------------------------
(***************************************************************************)
(* DeadlockDetectingMutex<std::recursive_mutex>, the type of mutexUi and   *)
(* mutexModel, and the DeadlockDetector they report to.                    *)
(*                                                                         *)
(* The wrapper counts the recursion itself, so that the mutex under it is  *)
(* only ever locked with try_lock; a thread that fails sleeps on a         *)
(* condition variable.  The steps are the sections the code protects with  *)
(* a mutex of its own, and the calls on the mutex under the wrapper.  A    *)
(* count is only ever touched by its own thread, so it changes in the same *)
(* step as the next thing that thread does.                                *)
(***************************************************************************)
EXTENDS Naturals

CONSTANTS
    Threads,
    Locks,
    None,           \* no thread and no lock
    MultiLockers,   \* threads allowed to take more than one lock
    Checking,       \* CHECK_FOR_DEADLOCKS: a debug build
    TryLockers,     \* threads that use try_lock too
    MaxCount        \* bound: depth of the recursion

ASSUME MutexAssumption ==
    /\ None \notin Threads \cup Locks
    /\ MultiLockers \subseteq Threads
    /\ Checking \in BOOLEAN
    /\ TryLockers \subseteq Threads
    /\ MaxCount \in Nat \ {0}

VARIABLES
    pc,             \* where the thread is in lock or unlock, "idle" outside
    want,           \* the lock of that call
    holder,         \* who holds m_mutex
    count,          \* count[l][t]: m_ownershipCount
    waitMutex,      \* who holds m_waitMutex
    threadLocks,    \* DeadlockDetector: m_threadLocks
    waiting,        \* DeadlockDetector: m_threadWaiting
    reported,       \* the pairs of threads reported as deadlocked
    aborted         \* LOG_FATAL_THROW

callVars == <<pc, want>>
mutexVars == <<holder, count, waitMutex>>
detectorVars == <<threadLocks, waiting, reported, aborted>>
vars == <<callVars, mutexVars, detectorVars>>

Init ==
    /\ pc = [t \in Threads |-> "idle"]
    /\ want = [t \in Threads |-> None]
    /\ holder = [l \in Locks |-> None]
    /\ count = [l \in Locks |-> [t \in Threads |-> 0]]
    /\ waitMutex = [l \in Locks |-> None]
    /\ threadLocks = [t \in Threads |-> {}]
    /\ waiting = [t \in Threads |-> None]
    /\ reported = {}
    /\ aborted = FALSE

Goto(t, label) == pc' = [pc EXCEPT ![t] = label]

-----------------------------------------------------------------------------
(* lock and try_lock.                                                      *)

(* The recursive case of both. *)
LockAgain(t, l) ==
    /\ pc[t] = "idle"
    /\ count[l][t] \in 1..(MaxCount - 1)
    /\ count' = [count EXCEPT ![l][t] = @ + 1]
    /\ UNCHANGED <<callVars, holder, waitMutex, detectorVars>>

(* beforeLockAcquire. *)
Forbidden(t, l) ==
    Checking /\ threadLocks[t] # {} /\ l \notin threadLocks[t] /\ t \notin MultiLockers

(* Mutant: who waits is not looked at. *)
CrossedWith_AnyHolder(t, l) == {u \in Threads \ {t} : l \in threadLocks[u]}

(* Mutant: the locks of the two threads are mixed up. *)
CrossedWith_OwnLock(t, l) ==
    {u \in Threads \ {t} : l \in threadLocks[t] /\ waiting[u] \in threadLocks[u]}

CrossedWith(t, l) ==
    {u \in Threads \ {t} : l \in threadLocks[u] /\ waiting[u] \in threadLocks[t]}

BeforeAcquire(t, l) ==
    /\ pc[t] = "idle"
    /\ count[l][t] = 0
    /\ ~Forbidden(t, l)
    /\ waiting' = [waiting EXCEPT ![t] = l]
    /\ reported' = IF Checking THEN reported \cup {{t, u} : u \in CrossedWith(t, l)}
                   ELSE reported
    /\ want' = [want EXCEPT ![t] = l]
    /\ Goto(t, "fast")
    /\ UNCHANGED <<mutexVars, threadLocks, aborted>>

(* The whole program ends. *)
Abort(t, l) ==
    /\ pc[t] = "idle"
    /\ count[l][t] = 0
    /\ Forbidden(t, l)
    /\ aborted' = TRUE
    /\ UNCHANGED <<callVars, mutexVars, threadLocks, waiting, reported>>

FastPath(t) ==
    /\ pc[t] = "fast"
    /\ LET l == want[t]
       IN \/ /\ holder[l] = None
             /\ holder' = [holder EXCEPT ![l] = t]
             /\ Goto(t, "acquired")
          \/ /\ holder[l] # None
             /\ Goto(t, "queue")
             /\ UNCHANGED holder
    /\ UNCHANGED <<want, count, waitMutex, detectorVars>>

(* m_waitMutex is taken on the way in, and again after the sleep. *)
EnterWait(t) ==
    /\ pc[t] \in {"queue", "woken"}
    /\ waitMutex[want[t]] = None
    /\ waitMutex' = [waitMutex EXCEPT ![want[t]] = t]
    /\ Goto(t, "retry")
    /\ UNCHANGED <<want, holder, count, detectorVars>>

Retry(t) ==
    /\ pc[t] = "retry"
    /\ LET l == want[t]
       IN \/ /\ holder[l] = None
             /\ holder' = [holder EXCEPT ![l] = t]
             /\ waitMutex' = [waitMutex EXCEPT ![l] = None]
             /\ Goto(t, "acquired")
          \/ /\ holder[l] # None
             /\ Goto(t, "drowsy")
             /\ UNCHANGED <<holder, waitMutex>>
    /\ UNCHANGED <<want, count, detectorVars>>

(* wait_for releases m_waitMutex and blocks in one step. *)
FallAsleep(t) ==
    /\ pc[t] = "drowsy"
    /\ waitMutex' = [waitMutex EXCEPT ![want[t]] = None]
    /\ Goto(t, "asleep")
    /\ UNCHANGED <<want, holder, count, detectorVars>>

(* Mutant: wait instead of wait_for. *)
TimeOut_Never(t) ==
    /\ pc[t] = "asleep"
    /\ pc[t] = "idle"
    /\ UNCHANGED vars

(* The 5 s of wait_for are over. *)
TimeOut(t) ==
    /\ pc[t] = "asleep"
    /\ Goto(t, "woken")
    /\ UNCHANGED <<want, mutexVars, detectorVars>>

(* Mutant: the detector is not told. *)
AfterAcquire_NotRecorded(t) ==
    /\ pc[t] = "acquired"
    /\ count' = [count EXCEPT ![want[t]][t] = 1]
    /\ waiting' = [waiting EXCEPT ![t] = None]
    /\ want' = [want EXCEPT ![t] = None]
    /\ Goto(t, "idle")
    /\ UNCHANGED <<holder, waitMutex, threadLocks, reported, aborted>>

(* The count of the first lock, and afterLockAcquire. *)
AfterAcquire(t) ==
    /\ pc[t] = "acquired"
    /\ count' = [count EXCEPT ![want[t]][t] = 1]
    /\ threadLocks' = [threadLocks EXCEPT ![t] = @ \cup {want[t]}]
    /\ waiting' = [waiting EXCEPT ![t] = None]
    /\ want' = [want EXCEPT ![t] = None]
    /\ Goto(t, "idle")
    /\ UNCHANGED <<holder, waitMutex, reported, aborted>>

(* try_lock, when it succeeds; it does not pass beforeLockAcquire. *)
TryLock(t, l) ==
    /\ t \in TryLockers
    /\ pc[t] = "idle"
    /\ count[l][t] = 0
    /\ holder[l] = None
    /\ holder' = [holder EXCEPT ![l] = t]
    /\ want' = [want EXCEPT ![t] = l]
    /\ Goto(t, "acquired")
    /\ UNCHANGED <<count, waitMutex, detectorVars>>

-----------------------------------------------------------------------------
(* unlock.                                                                 *)

(* Mutant: a thread that does not own the lock is not turned away. *)
UnlockOnce_NotOwned(t, l) ==
    /\ pc[t] = "idle"
    /\ count[l][t] # 1
    /\ count' = [count EXCEPT ![l][t] = @ - 1]
    /\ UNCHANGED <<callVars, holder, waitMutex, detectorVars>>

UnlockOnce(t, l) ==
    /\ pc[t] = "idle"
    /\ count[l][t] > 1
    /\ count' = [count EXCEPT ![l][t] = @ - 1]
    /\ UNCHANGED <<callVars, holder, waitMutex, detectorVars>>

(* Mutant: every unlock releases the mutex. *)
Unlock_EveryTime(t, l) ==
    /\ pc[t] = "idle"
    /\ count[l][t] > 0
    /\ count' = [count EXCEPT ![l][t] = @ - 1]
    /\ holder' = [holder EXCEPT ![l] = None]
    /\ want' = [want EXCEPT ![t] = l]
    /\ Goto(t, "notify")
    /\ UNCHANGED <<waitMutex, detectorVars>>

Unlock(t, l) ==
    /\ pc[t] = "idle"
    /\ count[l][t] = 1
    /\ count' = [count EXCEPT ![l][t] = 0]
    /\ holder' = [holder EXCEPT ![l] = None]
    /\ want' = [want EXCEPT ![t] = l]
    /\ Goto(t, "notify")
    /\ UNCHANGED <<waitMutex, detectorVars>>

(* notify_one, without m_waitMutex: one sleeper wakes, if there is one. *)
Sleepers(l) == {u \in Threads : pc[u] = "asleep" /\ want[u] = l}

Notify(t) ==
    /\ pc[t] = "notify"
    /\ \/ Sleepers(want[t]) = {} /\ Goto(t, "released")
       \/ \E u \in Sleepers(want[t]) :
             pc' = [pc EXCEPT ![t] = "released", ![u] = "woken"]
    /\ UNCHANGED <<want, mutexVars, detectorVars>>

(* afterLockRelease. *)
AfterRelease(t) ==
    /\ pc[t] = "released"
    /\ threadLocks' = [threadLocks EXCEPT ![t] = @ \ {want[t]}]
    /\ want' = [want EXCEPT ![t] = None]
    /\ Goto(t, "idle")
    /\ UNCHANGED <<mutexVars, waiting, reported, aborted>>

-----------------------------------------------------------------------------
(* A thread inside a call of the wrapper. *)
Continue(t) ==
    \/ FastPath(t) \/ EnterWait(t) \/ Retry(t) \/ FallAsleep(t) \/ TimeOut(t)
    \/ AfterAcquire(t) \/ Notify(t) \/ AfterRelease(t)

(* A thread that holds a lock calls unlock. *)
Leave(t) == \E l \in Locks : UnlockOnce(t, l) \/ Unlock(t, l)

(* A thread calls lock or try_lock. *)
Enter(t) ==
    \E l \in Locks : LockAgain(t, l) \/ BeforeAcquire(t, l) \/ Abort(t, l) \/ TryLock(t, l)

Next == ~aborted /\ \E t \in Threads : Continue(t) \/ Leave(t) \/ Enter(t)

Spec == Init /\ [][Next]_vars

(* A call of the wrapper goes on by itself; callers need not unlock. *)
Fairness == \A t \in Threads : WF_vars(~aborted /\ Continue(t))

FairSpec == Spec /\ Fairness

-----------------------------------------------------------------------------
Labels == {"idle", "fast", "queue", "retry", "drowsy", "asleep", "woken",
           "acquired", "notify", "released"}

TypeOK ==
    /\ pc \in [Threads -> Labels]
    /\ want \in [Threads -> Locks \cup {None}]
    /\ \A t \in Threads : pc[t] # "idle" => want[t] \in Locks
    /\ holder \in [Locks -> Threads \cup {None}]
    /\ count \in [Locks -> [Threads -> Nat]]
    /\ waitMutex \in [Locks -> Threads \cup {None}]
    /\ threadLocks \in [Threads -> SUBSET Locks]
    /\ waiting \in [Threads -> Locks \cup {None}]
    /\ reported \subseteq SUBSET Threads
    /\ aborted \in BOOLEAN

(* A thread in the middle of lock.                                         *)
Acquiring == {"fast", "queue", "retry", "drowsy", "asleep", "woken", "acquired"}

(* The detector's two maps follow the mutex and the counts through every   *)
(* step of a call, the ones where they lag behind included.                *)
MutexInv ==
    \A t \in Threads :
        /\ \A l \in Locks :
              holder[l] = t <=> count[l][t] > 0 \/ (pc[t] = "acquired" /\ want[t] = l)
        /\ pc[t] # "idle" => count[want[t]][t] = 0
        /\ threadLocks[t] =
              {l \in Locks : \/ count[l][t] > 0
                             \/ pc[t] \in {"notify", "released"} /\ want[t] = l}
        /\ waiting[t] # None => pc[t] \in Acquiring /\ waiting[t] = want[t]
        /\ waiting[t] = None => pc[t] \in {"idle", "acquired", "notify", "released"}

(* Two threads are never inside the same lock, however often each of them  *)
(* locked it and whichever way it got in.                                  *)
Exclusive ==
    \A l \in Locks : \A t, u \in Threads : count[l][t] > 0 /\ count[l][u] > 0 => t = u

(* The wrapper implements recursive locks: whatever try_lock, the sleepers *)
(* and the wake-ups do inside, a call that returns has let its thread in   *)
(* once more while no other was inside, or out once.                       *)
Recursive == INSTANCE RecursiveLocks WITH depth <- count

ImplementsLocks == Recursive!Spec

(* What the detector has on record for a thread that runs the program's    *)
(* own code is exactly what it holds: getOwningThreadId and the check of   *)
(* beforeLockAcquire do not go wrong because of a call that is over.       *)
RecordIsExact ==
    \A t \in Threads :
        pc[t] = "idle" => threadLocks[t] = {l \in Locks : count[l][t] > 0}

(* Two threads that wait for each other have been reported: the one that   *)
(* came second saw the first (the check of beforeLockAcquire).             *)
StuckPairIsReported ==
    \A t, u \in Threads :
        Checking /\ t # u /\ waiting[t] # None /\ waiting[u] # None =>
            (holder[waiting[t]] = u /\ holder[waiting[u]] = t => {t, u} \in reported)

(* A pair is only reported when each of the two waits for a lock the other *)
(* one holds: records of a release or of an acquisition under way raise no *)
(* false alarm.                                                            *)
NoFalseAlarm ==
    [][\A t, u \in Threads :
          t # u /\ {t, u} \in reported' \ reported =>
              /\ waiting'[t] # None /\ waiting'[u] # None
              /\ holder[waiting'[t]] = u /\ holder[waiting'[u]] = t]_vars

(* In a debug build only the threads allowed to hold two locks ever do,    *)
(* as long as the others do not use try_lock, which asks nobody.           *)
OneLockEach ==
    Checking =>
        \A t \in Threads \ (MultiLockers \cup TryLockers) : \A l, m \in Locks :
            count[l][t] > 0 /\ count[m][t] > 0 => l = m

(* A lock that is free and has a sleeper is taken again: a wake-up that    *)
(* came too early costs the 5 s of wait_for, and not for ever.             *)
FreeIsTaken ==
    \A l \in Locks : \A t \in Threads :
        (holder[l] = None /\ pc[t] = "asleep" /\ want[t] = l)
            ~> (holder[l] # None \/ aborted)
=============================================================================
