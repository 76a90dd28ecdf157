------------------------------ MODULE TopicLog ------------------------------
(***************************************************************************)
(* What a LightQ topic promises, whatever stores it: the messages the      *)
(* broker took from its publishers form one log, the log only grows at its *)
(* end, and the consumer side works through it from the front, one message *)
(* at a time, skipping none and repeating none.  A Forgetful log may be    *)
(* begun anew.                                                             *)
(*                                                                         *)
(* This is the abstract specification; the storage modules implement it    *)
(* under a refinement mapping.  It models no code of its own.              *)
(***************************************************************************)
EXTENDS Naturals, Sequences

CONSTANTS
    Messages,
    Forgetful   \* may the log be begun anew, as when its keeper restarts?

VARIABLES
    log,       \* the messages taken in, in order
    served     \* how many of them the consumer side has taken out

vars == <<log, served>>

TypeOK ==
    /\ log \in Seq(Messages)
    /\ served \in 0..Len(log)

Init ==
    /\ log = <<>>
    /\ served = 0

Store(m) ==
    /\ log' = Append(log, m)
    /\ UNCHANGED served

Serve ==
    /\ served < Len(log)
    /\ served' = served + 1
    /\ UNCHANGED log

Forget ==
    /\ Forgetful
    /\ log' = <<>>
    /\ served' = 0

Next ==
    \/ \E m \in Messages : Store(m)
    \/ Serve
    \/ Forget

Spec == Init /\ [][Next]_vars

\* Whatever was taken in is taken out eventually.
FairSpec == Spec /\ WF_vars(Serve)
=============================================================================
