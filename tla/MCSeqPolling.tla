---------------------------- MODULE MCSeqPolling ----------------------------
(***************************************************************************)
(* Instances of the polling of the object model for TLC.                   *)
(***************************************************************************)
EXTENDS SeqPolling

(* Values of OtherMessages: what else is answered on the line. *)
OnlyModel == {}
AnyReplies == {NoKey, OtherKey}

=============================================================================
