------------------------- MODULE MCStreamFileTopic -------------------------
(***************************************************************************)
(* TLC instances of StreamFileTopic.                                       *)
(***************************************************************************)
EXTENDS StreamFileTopic
=============================================================================
