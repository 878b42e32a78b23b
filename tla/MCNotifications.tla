-------------------------- MODULE MCNotifications --------------------------
(* Instances of the notifications for TLC.                                 *)
EXTENDS Notifications

World(timeouts, reconnects, alerts, responses) ==
    [timeouts |-> timeouts, reconnects |-> reconnects, alerts |-> alerts,
     responses |-> responses]

OnlyTimed == {World(TRUE, 0, 2, 2)}

(* Three boxes of the Duet are needed for a forgotten timer to meet a      *)
(* question, two replies for a list that has a second.                     *)
AllWorlds ==
    {World(FALSE, 0, 2, 2), World(FALSE, 0, 3, 1), World(TRUE, 0, 2, 2),
     World(TRUE, 1, 2, 1), World(TRUE, 1, 1, 2)}
=============================================================================
