--------------------------- MODULE MCDirectTopic ---------------------------
(***************************************************************************)
(* TLC instances of DirectTopic.                                           *)
(***************************************************************************)
EXTENDS DirectTopic
=============================================================================
