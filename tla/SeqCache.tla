------------------------------ MODULE SeqCache ------------------------------
(***************************************************************************)
(* What the polling of the object model promises, without requests,        *)
(* responses, timers or threads.  The Duet owns one versioned section of   *)
(* its object model per key; the panel shows some version of each section, *)
(* remembers the newest version it was told of, and calls a section        *)
(* settled while it sees no reason to fetch it.                            *)
(***************************************************************************)
EXTENDS Integers

CONSTANT Keys       \* the object model keys the panel follows

VARIABLES
    current,        \* current[k]: version of section k on the Duet
    known,          \* known[k]: newest version of k the panel was told of
    shown,          \* shown[k]: version of k the panel shows, -1 for none
    settled         \* the sections the panel sees no reason to fetch

cacheVars == <<current, known, shown, settled>>

Init ==
    /\ current \in [Keys -> Nat]
    /\ known = [k \in Keys |-> 0]
    /\ shown = [k \in Keys |-> -1]
    /\ settled = {}

(* The Duet changes section k. *)
Change(k) ==
    /\ current' = [current EXCEPT ![k] = @ + 1]
    /\ UNCHANGED <<known, shown, settled>>

(* The panel hears the version numbers of all sections: it forgets that a  *)
(* section is settled exactly when its number is news.                     *)
Learn ==
    /\ known' \in [Keys -> Nat]
    /\ \A k \in Keys : known'[k] >= known[k] /\ known'[k] <= current[k]
    /\ settled' = {k \in settled : known'[k] = known[k]}
    /\ UNCHANGED <<current, shown>>

(* The panel receives section k: never older than what it shows, never     *)
(* newer than what the Duet has.                                           *)
Receive(k) ==
    /\ \E v \in 0..current[k] : v >= shown[k] /\ shown' = [shown EXCEPT ![k] = v]
    /\ UNCHANGED <<current, known, settled>>

(* The panel settles on k: only when it shows every change it was told of. *)
Settle(k) ==
    /\ known[k] > 0 => shown[k] >= known[k]
    /\ settled' = settled \cup {k}
    /\ UNCHANGED <<current, known, shown>>

(* The panel has second thoughts about some sections. *)
Doubt ==
    /\ settled' \subseteq settled
    /\ UNCHANGED <<current, known, shown>>

(* The panel forgets everything: the connection is made again. *)
Forget ==
    /\ known' = [k \in Keys |-> 0]
    /\ shown' = [k \in Keys |-> -1]
    /\ settled' = {}
    /\ UNCHANGED current

Next ==
    \/ \E k \in Keys : Change(k) \/ Receive(k) \/ Settle(k)
    \/ Learn
    \/ Doubt
    \/ Forget

Spec == Init /\ [][Next]_cacheVars
=============================================================================
