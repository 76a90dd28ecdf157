---------------------------- MODULE BoundedFifo ----------------------------
(***************************************************************************)
(* What BrokerQueue takes the queue between its two threads to be: a first *)
(* in, first out queue with one producer and one consumer that takes       *)
(* elements while it holds fewer than Capacity and gives them up, oldest   *)
(* first.                                                                  *)
(*                                                                         *)
(* This is the abstract specification; BlockQueue implements it under a    *)
(* refinement mapping.  It models no code of its own.                      *)
(***************************************************************************)
EXTENDS Naturals, Sequences

CONSTANTS Elements, Capacity

VARIABLES
    fifo,   \* the elements in the queue, oldest first
    got     \* the element taken out last

vars == <<fifo, got>>

Put(e) ==
    /\ Len(fifo) < Capacity
    /\ fifo' = Append(fifo, e)
    /\ UNCHANGED got

Get ==
    /\ fifo # <<>>
    /\ got' = Head(fifo)
    /\ fifo' = Tail(fifo)

Next == Get \/ \E e \in Elements : Put(e)

Spec == fifo = <<>> /\ got \in Elements /\ [][Next]_vars

\* A consumer that goes on asking gets whatever is in the queue.
FairSpec == Spec /\ WF_vars(Get)
=============================================================================
