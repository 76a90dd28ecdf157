---------------------------- MODULE MCFileTopic ----------------------------
(***************************************************************************)
(* TLC instances of FileTopic.  Two bytes stand for the four of a length   *)
(* field, and a file is full after one or two records.                     *)
(***************************************************************************)
EXTENDS FileTopic
=============================================================================
