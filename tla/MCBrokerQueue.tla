---------------------------- MODULE MCBrokerQueue ----------------------------
(***************************************************************************)
(* TLC instance of BrokerQueue.  The queue is small enough to be full      *)
(* while the publishers still have messages to send.  No symmetry, since   *)
(* the run checks liveness too.                                            *)
(***************************************************************************)
EXTENDS BrokerQueue
=============================================================================
