--------------------------- MODULE MCUsbTransport ---------------------------
(* Instances of the USB link for TLC.                                      *)
EXTENDS UsbTransport

Quiet == [channels |-> 2, sends |-> FALSE, unplugs |-> FALSE]
OneChannel == [channels |-> 1, sends |-> TRUE, unplugs |-> TRUE]
Sends == [channels |-> 1, sends |-> TRUE, unplugs |-> FALSE]

AllWorlds == {Quiet, OneChannel}
OneSends == {Sends}
=============================================================================
