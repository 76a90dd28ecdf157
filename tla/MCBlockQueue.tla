---------------------------- MODULE MCBlockQueue ----------------------------
(***************************************************************************)
(* TLC instances of BlockQueue.                                            *)
(***************************************************************************)
EXTENDS BlockQueue
=============================================================================
