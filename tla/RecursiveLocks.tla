--------------------------- MODULE RecursiveLocks ---------------------------
(***************************************************************************)
(* What a lock of the program promises its callers, however it is built: a *)
(* thread is inside as often as it locked and did not unlock, and nobody   *)
(* gets in while another thread is inside.  A call that waits is no step.  *)
(***************************************************************************)
EXTENDS Naturals

CONSTANTS
    Threads,
    Locks

VARIABLE depth      \* depth[l][t]: how often t is inside l

Init == depth = [l \in Locks |-> [t \in Threads |-> 0]]

(* lock and try_lock return. *)
Lock(t, l) ==
    /\ \A u \in Threads \ {t} : depth[l][u] = 0
    /\ depth' = [depth EXCEPT ![l][t] = @ + 1]

(* unlock lets go; it does nothing for a thread that is not inside. *)
Unlock(t, l) ==
    /\ depth[l][t] > 0
    /\ depth' = [depth EXCEPT ![l][t] = @ - 1]

Next == \E t \in Threads, l \in Locks : Lock(t, l) \/ Unlock(t, l)

Spec == Init /\ [][Next]_depth
=============================================================================
