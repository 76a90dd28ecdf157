-------------------------- MODULE MCBrokerManager --------------------------
(***************************************************************************)
(* TLC instances of BrokerManager.                                         *)
(***************************************************************************)
EXTENDS BrokerManager
=============================================================================
