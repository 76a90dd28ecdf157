-------------------------- MODULE BrokerQueueProofs --------------------------
(***************************************************************************)
(* Proofs about BrokerQueue for every set of publishers, every capacity    *)
(* and every order of the producer thread's stores.                        *)
(***************************************************************************)
EXTENDS BrokerQueue, SequenceTheorems, WellFoundedInduction, TLAPS

-----------------------------------------------------------------------------
(***************************************************************************)
(* Sequences.                                                              *)
(***************************************************************************)

\* Moving the first element of a queue to the end of what precedes it leaves
\* the concatenation as it was.
LEMMA MoveHead ==
    ASSUME NEW S, NEW t \in Seq(S), NEW q \in Seq(S), NEW r \in Seq(S),
           q # <<>>
    PROVE  Append(t, Head(q)) \o Tail(q) \o r = t \o q \o r
<1>1. Head(q) \in S /\ Tail(q) \in Seq(S)
  BY HeadTailProperties
<1>2. <<Head(q)>> \in Seq(S)
  BY <1>1
<1>3. Append(t, Head(q)) = t \o <<Head(q)>>
  BY <1>1, AppendIsConcat
<1>4. <<Head(q)>> \o Tail(q) = q
  <2>1. <<Head(q)>> \o Tail(q) \in Seq(S)
    BY <1>1, <1>2, ConcatProperties
  <2>2. Len(Tail(q)) = Len(q) - 1 /\ Len(q) \in Nat \ {0}
    BY HeadTailProperties, EmptySeq
  <2>3. Len(<<Head(q)>> \o Tail(q)) = Len(q)
    BY <1>1, <1>2, <2>2, ConcatProperties
  <2>4. ASSUME NEW i \in 1..Len(q)
        PROVE  (<<Head(q)>> \o Tail(q))[i] = q[i]
    BY <1>1, <1>2, <2>2, ConcatProperties, HeadTailProperties
  <2>5. QED
    BY <2>1, <2>3, <2>4, SeqEqual
<1>5. (t \o <<Head(q)>>) \o Tail(q) = t \o q
  BY <1>1, <1>2, <1>4, ConcatAssociative
<1>6. QED
  BY <1>3, <1>5

\* Enqueuing the element that was pending after a queue leaves the
\* concatenation as it was.
LEMMA MoveLast ==
    ASSUME NEW S, NEW t \in Seq(S), NEW q \in Seq(S), NEW m \in S
    PROVE  t \o Append(q, m) \o <<>> = t \o q \o <<m>>
<1>1. <<m>> \in Seq(S)
  OBVIOUS
<1>2. Append(q, m) = q \o <<m>> /\ Append(q, m) \in Seq(S)
  BY AppendIsConcat, AppendProperties
<1>3. t \o Append(q, m) = (t \o q) \o <<m>>
  BY <1>1, <1>2, ConcatAssociative
<1>4. t \o Append(q, m) \in Seq(S)
  BY <1>2, ConcatProperties
<1>5. QED
  BY <1>3, <1>4, ConcatEmptySeq

-----------------------------------------------------------------------------
(***************************************************************************)
(* The inductive invariant.                                                *)
(***************************************************************************)

\* What a publisher sends is a message with a number within the bound.
LEMMA PublishedIsMessage ==
    ASSUME QueueTypeOK, NEW p \in Publishers, NEW len \in Lengths,
           Len(published[p]) < MaxSent
    PROVE  [pub |-> p, num |-> Len(published[p]) + 1, len |-> len] \in Messages
<1>1. Len(published[p]) \in Nat
  BY LenProperties DEF QueueTypeOK
<1>2. Len(published[p]) + 1 \in 1..MaxSent
  BY <1>1, BoundsAssumption
<1>3. QED
  BY <1>2 DEF Messages

\* The initial state satisfies the invariant.
LEMMA InitQueueInv == QueueInit => QueueInv
<1> SUFFICES ASSUME QueueInit PROVE QueueInv
  OBVIOUS
<1> USE DEF QueueInit
<1>1. QueueTypeOK
  BY NoMsgAssumption DEF QueueTypeOK, ProducerPhases, ConsumerPhases
<1>2. Fifo
  BY DEF Fifo, Pending, Holding
<1>3. CountersAgree /\ SizeNeverWraps
  BY DEF CountersAgree, SizeNeverWraps
<1>4. QED
  BY <1>1, <1>2, <1>3 DEF QueueInv

\* Every step of either thread, and of a publisher, keeps the types.
LEMMA StepTypeOK == QueueTypeOK /\ [QueueNext]_queueVars => QueueTypeOK'
<1> SUFFICES ASSUME QueueTypeOK, [QueueNext]_queueVars PROVE QueueTypeOK'
  OBVIOUS
<1> USE DEF QueueTypeOK, ProducerPhases, ConsumerPhases
<1>1. ASSUME NEW p \in Publishers, Publish(p) PROVE QueueTypeOK'
  <2>1. PICK len \in Lengths :
          LET m == [pub |-> p, num |-> Len(published[p]) + 1, len |-> len]
          IN  /\ published' = [published EXCEPT ![p] = Append(@, m)]
              /\ inbox' = [inbox EXCEPT ![p] = Append(@, m)]
    BY <1>1 DEF Publish
  <2> DEFINE m == [pub |-> p, num |-> Len(published[p]) + 1, len |-> len]
  <2>2. m \in Messages
    BY <1>1, PublishedIsMessage DEF Publish
  <2>3. Append(published[p], m) \in Seq(Messages)
    BY <2>2, AppendProperties
  <2>4. Append(inbox[p], m) \in Seq(Messages)
    BY <2>2, AppendProperties
  <2>5. published' \in [Publishers -> Seq(Messages)]
    BY <2>1, <2>3
  <2>6. inbox' \in [Publishers -> Seq(Messages)]
    BY <2>1, <2>4
  <2>7. QED
    BY <1>1, <2>5, <2>6 DEF Publish, consumerVars
<1>2. ASSUME NEW p \in Publishers, ReadEmpty(p) PROVE QueueTypeOK'
  <2>1. Tail(inbox[p]) \in Seq(Messages)
    BY <1>2, HeadTailProperties DEF ReadEmpty
  <2>2. QED
    BY <1>2, <2>1 DEF ReadEmpty, consumerVars
<1>3. ASSUME NEW p \in Publishers, ReadMessage(p) PROVE QueueTypeOK'
  <2>1. Head(inbox[p]) \in Messages /\ Tail(inbox[p]) \in Seq(Messages)
    BY <1>3, HeadTailProperties DEF ReadMessage
  <2>2. Append(accepted, Head(inbox[p])) \in Seq(Messages)
    BY <2>1, AppendProperties
  <2>3. QED
    BY <1>3, <2>1, <2>2, NoMsgAssumption DEF ReadMessage, consumerVars
<1>4. CASE ReadFails
  BY <1>4 DEF ReadFails, consumerVars
<1>5. CASE TryEnqueue
  BY <1>5, AppendProperties DEF TryEnqueue, consumerVars
<1>6. CASE CountEnqueued
  BY <1>6 DEF CountEnqueued, consumerVars
<1>7. CASE CountEarly
  BY <1>7 DEF CountEarly, consumerVars
<1>8. CASE InsertLate
  BY <1>8, AppendProperties DEF InsertLate, consumerVars
<1>9. CASE Poll
  BY <1>9 DEF Poll, producerVars
<1>10. CASE Dequeue
  <2>1. Head(queue) \in Messages /\ Tail(queue) \in Seq(Messages)
    BY <1>10, HeadTailProperties DEF Dequeue
  <2>2. Append(taken, Head(queue)) \in Seq(Messages)
    BY <2>1, AppendProperties
  <2>3. QED
    BY <1>10, <2>1, <2>2, NoMsgAssumption DEF Dequeue, producerVars
<1>11. CASE DequeueEmpty
  BY <1>11 DEF DequeueEmpty, producerVars
<1>12. CASE Sent
  BY <1>12 DEF Sent, producerVars
<1>13. CASE UNCHANGED queueVars
  BY <1>13 DEF queueVars
<1>14. QED
  BY <1>1, <1>2, <1>3, <1>4, <1>5, <1>6, <1>7, <1>8, <1>9, <1>10, <1>11,
     <1>12, <1>13 DEF QueueNext, Producer

\* What the producer thread does to the queue and the counters keeps the rest
\* of the invariant.
LEMMA ProducerStep ==
    QueueInv /\ QueueTypeOK' /\ Producer =>
        Fifo' /\ CountersAgree' /\ SizeNeverWraps' /\ (ppc = "insert" => Relaxed)'
<1> SUFFICES ASSUME QueueInv, QueueTypeOK', Producer
    PROVE Fifo' /\ CountersAgree' /\ SizeNeverWraps' /\ (ppc = "insert" => Relaxed)'
  OBVIOUS
<1> USE DEF QueueInv
<1>0. /\ taken \in Seq(Messages) /\ queue \in Seq(Messages)
      /\ taken \o queue \in Seq(Messages)
      /\ Len(taken) \in Nat /\ Len(queue) \in Nat
      /\ enqueued \in Nat /\ dequeued \in Nat
  BY ConcatProperties, LenProperties DEF QueueTypeOK
<1>1. ASSUME NEW p \in Publishers, ReadEmpty(p)
      PROVE  Fifo' /\ CountersAgree' /\ SizeNeverWraps' /\ (ppc = "insert" => Relaxed)'
  BY <1>1 DEF ReadEmpty, consumerVars, Fifo, Pending, Holding, CountersAgree,
              SizeNeverWraps
<1>2. ASSUME NEW p \in Publishers, ReadMessage(p)
      PROVE  Fifo' /\ CountersAgree' /\ SizeNeverWraps' /\ (ppc = "insert" => Relaxed)'
  <2>1. pmsg' \in Messages
    BY <1>2, HeadTailProperties DEF ReadMessage, QueueTypeOK
  <2>2. accepted = taken \o queue
    BY <1>2, <1>0, ConcatEmptySeq DEF ReadMessage, Fifo, Pending, Holding
  <2>3. Append(accepted, pmsg') = taken \o queue \o <<pmsg'>>
    BY <1>0, <2>1, <2>2, AppendIsConcat
  <2>4. Fifo'
    BY <1>2, <2>3 DEF ReadMessage, consumerVars, Fifo, Pending, Holding
  <2>5. QED
    BY <1>2, <2>4 DEF ReadMessage, consumerVars, CountersAgree, SizeNeverWraps
<1>3. CASE ReadFails
  BY <1>3 DEF ReadFails, consumerVars, Fifo, Pending, Holding, CountersAgree,
              SizeNeverWraps
<1>4. CASE TryEnqueue
  <2>1. pmsg \in Messages
    BY <1>4 DEF TryEnqueue, QueueTypeOK
  <2>2. Fifo'
    BY <1>0, <1>4, <2>1, MoveLast DEF TryEnqueue, consumerVars, Fifo, Pending, Holding
  <2>3. Len(queue') = Len(queue) + 1
    BY <1>0, <1>4, <2>1, AppendProperties DEF TryEnqueue
  <2>4. QED
    BY <1>0, <1>4, <2>2, <2>3 DEF TryEnqueue, consumerVars, CountersAgree,
                                  SizeNeverWraps
<1>5. CASE CountEnqueued
  BY <1>0, <1>5 DEF CountEnqueued, consumerVars, Fifo, Pending, Holding,
                    CountersAgree, SizeNeverWraps
<1>6. CASE CountEarly
  BY <1>0, <1>6 DEF CountEarly, consumerVars, Fifo, Pending, Holding,
                    CountersAgree, SizeNeverWraps
<1>7. CASE InsertLate
  <2>1. pmsg \in Messages
    BY <1>7 DEF InsertLate, QueueTypeOK
  <2>2. Fifo'
    BY <1>0, <1>7, <2>1, MoveLast DEF InsertLate, consumerVars, Fifo, Pending, Holding
  <2>3. Len(queue') = Len(queue) + 1
    BY <1>0, <1>7, <2>1, AppendProperties DEF InsertLate
  <2>4. QED
    BY <1>0, <1>7, <2>2, <2>3 DEF InsertLate, consumerVars, CountersAgree,
                                  SizeNeverWraps
<1>8. QED
  BY <1>1, <1>2, <1>3, <1>4, <1>5, <1>6, <1>7 DEF Producer

\* So does what the consumer thread does.
LEMMA ConsumerStep ==
    QueueInv /\ QueueTypeOK' /\ (Poll \/ Dequeue \/ DequeueEmpty \/ Sent) =>
        Fifo' /\ CountersAgree' /\ SizeNeverWraps' /\ (ppc = "insert" => Relaxed)'
<1> SUFFICES ASSUME QueueInv, QueueTypeOK', Poll \/ Dequeue \/ DequeueEmpty \/ Sent
    PROVE Fifo' /\ CountersAgree' /\ SizeNeverWraps' /\ (ppc = "insert" => Relaxed)'
  OBVIOUS
<1> USE DEF QueueInv
<1>1. CASE Poll
  BY <1>1 DEF Poll, producerVars, Fifo, Pending, Holding, CountersAgree,
              SizeNeverWraps, QueueTypeOK
<1>2. CASE Dequeue
  <2>1. /\ taken \in Seq(Messages) /\ queue \in Seq(Messages)
        /\ Pending \in Seq(Messages)
        /\ Len(taken) \in Nat /\ Len(queue) \in Nat \ {0}
    <3>1. Holding => pmsg \in Messages
      BY DEF Holding, QueueTypeOK
    <3>2. Pending \in Seq(Messages)
      BY <3>1 DEF Pending
    <3>3. QED
      BY <1>2, <3>2, LenProperties, EmptySeq DEF Dequeue, QueueTypeOK
  <2>2. Head(queue) \in Messages /\ Len(Tail(queue)) = Len(queue) - 1
    BY <1>2, <2>1, HeadTailProperties DEF Dequeue
  <2>3. Len(Append(taken, Head(queue))) = Len(taken) + 1
    BY <2>1, <2>2, AppendProperties
  <2>4. Append(taken, Head(queue)) \o Tail(queue) \o Pending
          = taken \o queue \o Pending
    BY <1>2, <2>1, MoveHead, SMTT(30) DEF Dequeue
  <2>5. Pending' = Pending
    BY <1>2 DEF Dequeue, producerVars, Pending, Holding
  <2>6. Fifo'
    BY <1>2, <2>4, <2>5 DEF Dequeue, producerVars, Fifo
  <2>7. CountersAgree'
    <3>1. /\ dequeued' = dequeued + 1 /\ enqueued' = enqueued /\ ppc' = ppc
          /\ Len(taken') = Len(taken) + 1 /\ Len(queue') = Len(queue) - 1
      BY <1>2, <2>2, <2>3 DEF Dequeue, producerVars
    <3>2. enqueued \in Nat /\ dequeued \in Nat
      BY DEF QueueTypeOK
    <3>3. dequeued' = Len(taken')
      BY <3>1 DEF CountersAgree
    <3>4. dequeued' + Len(queue') = dequeued + Len(queue)
      BY <2>1, <3>1, <3>2
    <3>5. QED
      BY <3>1, <3>3, <3>4 DEF CountersAgree
  <2>8. SizeNeverWraps'
    BY <1>2 DEF Dequeue, producerVars, SizeNeverWraps, QueueTypeOK
  <2>9. QED
    BY <1>2, <2>6, <2>7, <2>8 DEF Dequeue, producerVars
<1>3. CASE DequeueEmpty
  BY <1>3 DEF DequeueEmpty, producerVars, Fifo, Pending, Holding, CountersAgree,
              SizeNeverWraps
<1>4. CASE Sent
  BY <1>4 DEF Sent, producerVars, Fifo, Pending, Holding, CountersAgree,
              SizeNeverWraps
<1>5. QED
  BY <1>1, <1>2, <1>3, <1>4

\* The invariant is inductive.
LEMMA StepQueueInv == QueueInv /\ [QueueNext]_queueVars => QueueInv'
<1> SUFFICES ASSUME QueueInv, [QueueNext]_queueVars PROVE QueueInv'
  OBVIOUS
<1>1. QueueTypeOK'
  BY StepTypeOK DEF QueueInv
<1>2. ASSUME NEW p \in Publishers, Publish(p) PROVE QueueInv'
  BY <1>1, <1>2 DEF Publish, consumerVars, QueueInv, Fifo, Pending, Holding,
                    CountersAgree, SizeNeverWraps
<1>3. CASE Producer
  BY <1>1, <1>3, ProducerStep DEF QueueInv
<1>4. CASE Poll \/ Dequeue \/ DequeueEmpty \/ Sent
  BY <1>1, <1>4, ConsumerStep DEF QueueInv
<1>5. CASE UNCHANGED queueVars
  BY <1>1, <1>5 DEF queueVars, QueueInv, Fifo, Pending, Holding, CountersAgree,
                    SizeNeverWraps
<1>6. QED
  BY <1>2, <1>3, <1>4, <1>5 DEF QueueNext
-----------------------------------------------------------------------------
(***************************************************************************)
(* The order of the messages.                                              *)
(***************************************************************************)

\* How many messages of publisher p have left its pipe.
Left(p) == Len(published[p]) - Len(inbox[p])

\* Messages are numbered as they are sent, a pipe holds the last ones, and what
\* was accepted has left the pipe, in order.
NumbersInv ==
    /\ \A p \in Publishers : Len(inbox[p]) <= Len(published[p])
    /\ \A p \in Publishers : \A i \in DOMAIN inbox[p] :
          inbox[p][i].pub = p /\ inbox[p][i].num = Left(p) + i
    /\ \A i \in DOMAIN accepted : accepted[i].num <= Left(accepted[i].pub)
    /\ \A i, j \in DOMAIN accepted :
          i < j /\ accepted[i].pub = accepted[j].pub => accepted[i].num < accepted[j].num

\* What a step that leaves publishers, pipes and accepted messages alone keeps.
LEMMA NumbersUnchanged ==
    NumbersInv /\ UNCHANGED <<published, inbox, accepted>> => NumbersInv'
BY DEF NumbersInv, Left

\* What was accepted are messages, each of a publisher and with a number.
LEMMA AcceptedElements ==
    ASSUME QueueTypeOK
    PROVE  /\ Len(accepted) \in Nat /\ DOMAIN accepted = 1..Len(accepted)
           /\ \A i \in DOMAIN accepted :
                 /\ accepted[i] \in Messages
                 /\ accepted[i].pub \in Publishers /\ accepted[i].num \in Nat
<1>1. /\ Len(accepted) \in Nat /\ DOMAIN accepted = 1..Len(accepted)
      /\ accepted \in [1..Len(accepted) -> Messages]
  BY LenProperties DEF QueueTypeOK
<1>2. \A m \in Messages : m.pub \in Publishers /\ m.num \in Nat
  BY DEF Messages
<1> QED
  BY <1>1, <1>2

\* The numbers of what has left each pipe are natural numbers.
LEMMA LeftType == QueueTypeOK => \A q \in Publishers : Left(q) \in Int
<1> SUFFICES ASSUME QueueTypeOK, NEW q \in Publishers PROVE Left(q) \in Int
  OBVIOUS
<1>1. published[q] \in Seq(Messages) /\ inbox[q] \in Seq(Messages)
  BY DEF QueueTypeOK
<1> QED
  BY <1>1, LenProperties DEF Left

\* A publisher numbers its next message after the last.
LEMMA PublishNumbers ==
    ASSUME QueueTypeOK, NumbersInv, NEW p \in Publishers, Publish(p)
    PROVE  NumbersInv'
<1>1. PICK len \in Lengths :
        LET m == [pub |-> p, num |-> Len(published[p]) + 1, len |-> len]
        IN  /\ published' = [published EXCEPT ![p] = Append(@, m)]
            /\ inbox' = [inbox EXCEPT ![p] = Append(@, m)]
  BY DEF Publish
<1> DEFINE m == [pub |-> p, num |-> Len(published[p]) + 1, len |-> len]
<1>2. m \in Messages
  BY PublishedIsMessage DEF Publish
<1>3. m.pub = p /\ m.num = Len(published[p]) + 1
  OBVIOUS
<1> HIDE DEF m
<1>4. /\ published[p] \in Seq(Messages) /\ inbox[p] \in Seq(Messages)
      /\ published'[p] = Append(published[p], m) /\ inbox'[p] = Append(inbox[p], m)
  BY <1>1 DEF QueueTypeOK, m
<1>5. \A q \in Publishers : q # p => published'[q] = published[q] /\ inbox'[q] = inbox[q]
  BY <1>1 DEF QueueTypeOK, m
<1>6. Len(published'[p]) = Len(published[p]) + 1 /\ Len(published[p]) \in Nat
  BY <1>2, <1>4, AppendProperties, LenProperties
<1>7. /\ Len(inbox'[p]) = Len(inbox[p]) + 1 /\ Len(inbox[p]) \in Nat
      /\ DOMAIN inbox[p] = 1..Len(inbox[p])
      /\ DOMAIN inbox'[p] = 1..Len(inbox[p]) + 1
      /\ \A i \in 1..Len(inbox[p]) : inbox'[p][i] = inbox[p][i]
      /\ inbox'[p][Len(inbox[p]) + 1] = m
  <2>1. Append(inbox[p], m) \in Seq(Messages)
    BY <1>2, <1>4, AppendProperties
  <2> QED
    BY <1>2, <1>4, <2>1, AppendProperties, LenProperties
<1>8. \A q \in Publishers : Left(q)' = Left(q)
  <2>1. Left(p)' = Left(p)
    BY <1>6, <1>7 DEF Left
  <2>2. ASSUME NEW q \in Publishers, q # p PROVE Left(q)' = Left(q)
    BY <1>5, <2>2 DEF Left
  <2> QED
    BY <2>1, <2>2
<1>9. accepted' = accepted /\ \A i \in DOMAIN accepted : accepted[i].pub \in Publishers
  BY AcceptedElements DEF Publish
<1>10. ASSUME NEW i \in DOMAIN inbox'[p]
       PROVE  inbox'[p][i].pub = p /\ inbox'[p][i].num = Left(p) + i
  <2>1. CASE i \in 1..Len(inbox[p])
    BY <1>7, <2>1 DEF NumbersInv
  <2>2. CASE i = Len(inbox[p]) + 1
    <3> DEFINE x == Len(published[p])
               y == Len(inbox[p])
    <3>a. x \in Nat /\ y \in Nat /\ Left(p) = x - y /\ i = y + 1
      BY <1>6, <1>7, <2>2 DEF Left
    <3> HIDE DEF x, y
    <3>1. Left(p) + i = x + 1
      BY <3>a
    <3> USE DEF x
    <3> QED
      BY <1>3, <1>7, <2>2, <3>1
  <2> QED
    BY <1>7, <1>10, <2>1, <2>2
<1>11. \A q \in Publishers : \A i \in DOMAIN inbox'[q] :
        inbox'[q][i].pub = q /\ inbox'[q][i].num = Left(q)' + i
  <2>1. ASSUME NEW q \in Publishers, q # p, NEW i \in DOMAIN inbox'[q]
        PROVE  inbox'[q][i].pub = q /\ inbox'[q][i].num = Left(q)' + i
    BY <1>5, <1>8, <2>1 DEF NumbersInv
  <2> QED
    BY <1>8, <1>10, <2>1
<1>12. \A q \in Publishers : Len(inbox'[q]) <= Len(published'[q])
  <2>1. Len(inbox[p]) <= Len(published[p])
    BY DEF NumbersInv
  <2>2. ASSUME NEW q \in Publishers, q # p PROVE Len(inbox'[q]) <= Len(published'[q])
    BY <1>5, <2>2 DEF NumbersInv
  <2> QED
    BY <1>6, <1>7, <2>1, <2>2
<1> QED
  BY <1>8, <1>9, <1>11, <1>12 DEF NumbersInv

\* Taking the first message out of a pipe keeps the numbers of the others.
LEMMA TakeFromInbox ==
    ASSUME QueueTypeOK, NumbersInv, NEW p \in Publishers, inbox[p] # <<>>,
           inbox' = [inbox EXCEPT ![p] = Tail(@)], published' = published
    PROVE  /\ \A q \in Publishers : Len(inbox'[q]) <= Len(published'[q])
           /\ \A q \in Publishers : \A i \in DOMAIN inbox'[q] :
                 inbox'[q][i].pub = q /\ inbox'[q][i].num = Left(q)' + i
           /\ \A q \in Publishers : Left(q)' = IF q = p THEN Left(p) + 1 ELSE Left(q)
           /\ Left(p) \in Nat
           /\ Head(inbox[p]) \in Messages
           /\ Head(inbox[p]).pub = p /\ Head(inbox[p]).num = Left(p) + 1
<1>1. /\ published[p] \in Seq(Messages) /\ inbox[p] \in Seq(Messages)
      /\ inbox'[p] = Tail(inbox[p])
  BY DEF QueueTypeOK
<1>2. \A q \in Publishers : q # p => inbox'[q] = inbox[q]
  BY DEF QueueTypeOK
<1>3. /\ Len(published[p]) \in Nat /\ Len(inbox[p]) \in Nat \ {0}
      /\ DOMAIN inbox[p] = 1..Len(inbox[p])
  BY <1>1, LenProperties, EmptySeq
<1>4. /\ Len(inbox'[p]) = Len(inbox[p]) - 1
      /\ DOMAIN inbox'[p] = 1..Len(inbox[p]) - 1
      /\ \A i \in 1..Len(inbox[p]) - 1 : inbox'[p][i] = inbox[p][i + 1]
      /\ Head(inbox[p]) \in Messages
      /\ Head(inbox[p]) = inbox[p][1]
  <2>1. Tail(inbox[p]) \in Seq(Messages) /\ Len(Tail(inbox[p])) = Len(inbox[p]) - 1
    BY <1>1, HeadTailProperties
  <2>2. DOMAIN Tail(inbox[p]) = 1..Len(inbox[p]) - 1
    BY <2>1, LenProperties
  <2> QED
    <3>1. \A i \in 1..Len(inbox[p]) - 1 : Tail(inbox[p])[i] = inbox[p][i + 1]
      BY <1>1, <2>1, HeadTailProperties
    <3>2. Head(inbox[p]) \in Messages /\ Head(inbox[p]) = inbox[p][1]
      BY <1>1, HeadTailProperties
    <3> QED
      BY <1>1, <2>1, <2>2, <3>1, <3>2
<1>5. \A q \in Publishers : Left(q)' = IF q = p THEN Left(p) + 1 ELSE Left(q)
  <2> DEFINE x == Len(published[p])
             y == Len(inbox[p])
             z == Len(inbox'[p])
  <2>a. x \in Nat /\ y \in Nat /\ z = y - 1 /\ Left(p) = x - y /\ Left(p)' = x - z
    BY <1>3, <1>4 DEF Left
  <2> HIDE DEF x, y, z
  <2>1. Left(p)' = Left(p) + 1
    BY <2>a
  <2>2. ASSUME NEW q \in Publishers, q # p PROVE Left(q)' = Left(q)
    BY <1>2, <2>2 DEF Left
  <2> QED
    BY <2>1, <2>2
<1>6. Len(inbox[p]) <= Len(published[p])
  BY DEF NumbersInv
<1>7. \A q \in Publishers : Len(inbox'[q]) <= Len(published'[q])
  <2>1. ASSUME NEW q \in Publishers, q # p PROVE Len(inbox'[q]) <= Len(published'[q])
    BY <1>2, <2>1 DEF NumbersInv
  <2> QED
    BY <1>3, <1>4, <1>6, <2>1
<1>8. Left(p) \in Nat
  BY <1>3, <1>6 DEF Left
<1>9. ASSUME NEW i \in DOMAIN inbox'[p]
      PROVE  inbox'[p][i].pub = p /\ inbox'[p][i].num = Left(p) + 1 + i
  <2>1. i \in 1..Len(inbox[p]) - 1 /\ i + 1 \in DOMAIN inbox[p]
    BY <1>3, <1>4, <1>9
  <2>2. inbox[p][i + 1].pub = p /\ inbox[p][i + 1].num = Left(p) + (i + 1)
    BY <2>1 DEF NumbersInv
  <2>3. Left(p) + (i + 1) = Left(p) + 1 + i
    BY <1>8, <2>1
  <2> QED
    BY <1>4, <2>1, <2>2, <2>3
<1>10. \A q \in Publishers : \A i \in DOMAIN inbox'[q] :
        inbox'[q][i].pub = q /\ inbox'[q][i].num = Left(q)' + i
  <2>1. ASSUME NEW q \in Publishers, q # p, NEW i \in DOMAIN inbox'[q]
        PROVE  inbox'[q][i].pub = q /\ inbox'[q][i].num = Left(q)' + i
    BY <1>2, <1>5, <2>1 DEF NumbersInv
  <2> QED
    BY <1>5, <1>9, <2>1
<1>11. Head(inbox[p]).pub = p /\ Head(inbox[p]).num = Left(p) + 1
  BY <1>3, <1>4 DEF NumbersInv
<1> QED
  BY <1>4, <1>5, <1>7, <1>8, <1>10, <1>11

\* Every step keeps the numbers in order.
LEMMA StepNumbers ==
    QueueTypeOK /\ NumbersInv /\ [QueueNext]_queueVars => NumbersInv'
<1> SUFFICES ASSUME QueueTypeOK, NumbersInv, [QueueNext]_queueVars
             PROVE  NumbersInv'
  OBVIOUS
<1>1. ASSUME NEW p \in Publishers, Publish(p) PROVE NumbersInv'
  BY <1>1, PublishNumbers
<1>2. ASSUME NEW p \in Publishers, ReadEmpty(p) PROVE NumbersInv'
  <2>1. /\ inbox[p] # <<>> /\ inbox' = [inbox EXCEPT ![p] = Tail(@)]
        /\ published' = published /\ accepted' = accepted
    BY <1>2 DEF ReadEmpty
  <2>2. ASSUME NEW i \in DOMAIN accepted, NEW q \in Publishers, accepted[i].pub = q
        PROVE  accepted[i].num <= Left(q)'
    <3>1. Left(q)' \in {Left(q), Left(q) + 1}
      BY <2>1, TakeFromInbox
    <3>2. accepted[i].num \in Nat /\ Left(q) \in Int /\ accepted[i].num <= Left(q)
      BY <2>2, AcceptedElements, LeftType DEF NumbersInv
    <3> QED
      BY <3>1, <3>2
  <2>3. (\A i \in DOMAIN accepted : accepted[i].num <= Left(accepted[i].pub))'
    BY <2>1, <2>2, AcceptedElements DEF Left
  <2> QED
    BY <2>1, <2>3, TakeFromInbox DEF NumbersInv
<1>3. ASSUME NEW p \in Publishers, ReadMessage(p) PROVE NumbersInv'
  <2> DEFINE m == Head(inbox[p])
  <2>1. /\ inbox[p] # <<>> /\ inbox' = [inbox EXCEPT ![p] = Tail(@)]
        /\ published' = published /\ accepted' = Append(accepted, m)
    BY <1>3 DEF ReadMessage
  <2>2. /\ m \in Messages /\ m.pub = p /\ m.num = Left(p) + 1 /\ Left(p) \in Nat
        /\ \A q \in Publishers : Left(q)' = IF q = p THEN Left(p) + 1 ELSE Left(q)
    BY <2>1, TakeFromInbox
  <2> HIDE DEF m
  <2>3. /\ accepted \in Seq(Messages) /\ Len(accepted) \in Nat
        /\ DOMAIN accepted = 1..Len(accepted)
        /\ DOMAIN accepted' = 1..Len(accepted) + 1
        /\ \A i \in 1..Len(accepted) : accepted'[i] = accepted[i]
        /\ accepted'[Len(accepted) + 1] = m
    <3>1. accepted \in Seq(Messages)
      BY DEF QueueTypeOK
    <3>2. accepted' \in Seq(Messages) /\ Len(accepted') = Len(accepted) + 1
      BY <2>1, <2>2, <3>1, AppendProperties
    <3> QED
      BY <2>1, <2>2, <3>1, <3>2, AppendProperties, LenProperties
  <2>4. \A i \in DOMAIN accepted : /\ accepted[i].pub \in Publishers
                                   /\ accepted[i].num \in Nat
                                   /\ accepted[i].num <= Left(accepted[i].pub)
    BY AcceptedElements DEF NumbersInv
  <2>5. \A q \in Publishers : Left(q) \in Int
    BY LeftType
  <2>6. ASSUME NEW i \in DOMAIN accepted', NEW q \in Publishers, accepted'[i].pub = q
        PROVE  accepted'[i].num <= Left(q)'
    <3>1. CASE i \in DOMAIN accepted
      <4>1. /\ accepted'[i].num = accepted[i].num
            /\ accepted[i].num \in Nat /\ accepted[i].num <= Left(q)
        BY <2>3, <2>4, <2>6, <3>1
      <4>2. Left(q)' \in {Left(q), Left(q) + 1}
        BY <2>2
      <4> QED
        BY <2>5, <4>1, <4>2
    <3>2. CASE i = Len(accepted) + 1
      <4>1. q = p /\ accepted'[i].num = Left(p) + 1
        BY <2>2, <2>3, <2>6, <3>2
      <4> QED
        BY <2>2, <4>1
    <3> QED
      BY <2>3, <2>6, <3>1, <3>2
  <2>7. ASSUME NEW i \in DOMAIN accepted', NEW j \in DOMAIN accepted', i < j,
               accepted'[i].pub = accepted'[j].pub
        PROVE  accepted'[i].num < accepted'[j].num
    <3>1. CASE j \in DOMAIN accepted
      BY <2>3, <2>7, <3>1 DEF NumbersInv
    <3>2. CASE j = Len(accepted) + 1
      <4>1. i \in DOMAIN accepted /\ accepted'[i] = accepted[i] /\ accepted'[j] = m
        BY <2>3, <2>7, <3>2
      <4>2. accepted[i].pub = p /\ accepted[i].num <= Left(p)
        BY <2>2, <2>4, <2>7, <4>1
      <4> QED
        BY <2>2, <2>4, <4>1, <4>2
    <3> QED
      BY <2>3, <3>1, <3>2
  <2>8. (\A i \in DOMAIN accepted : accepted[i].num <= Left(accepted[i].pub))'
    <3>1. \A i \in DOMAIN accepted' : accepted'[i].pub \in Publishers
      BY <2>2, <2>3, <2>4
    <3> QED
      BY <2>6, <3>1 DEF Left
  <2> QED
    BY <2>1, <2>7, <2>8, TakeFromInbox DEF NumbersInv
<1>4. CASE UNCHANGED <<published, inbox, accepted>>
  BY <1>4, NumbersUnchanged
<1>5. CASE \/ ReadFails \/ TryEnqueue \/ CountEnqueued \/ CountEarly \/ InsertLate
           \/ Poll \/ Dequeue \/ DequeueEmpty \/ Sent \/ UNCHANGED queueVars
  BY <1>4, <1>5 DEF ReadFails, TryEnqueue, CountEnqueued, CountEarly, InsertLate,
                    Poll, Dequeue, DequeueEmpty, Sent, queueVars, producerVars
<1> QED
  BY <1>1, <1>2, <1>3, <1>5 DEF QueueNext, Producer

\* At the start nothing was sent.
LEMMA InitNumbers == QueueInit => NumbersInv
BY DEF QueueInit, NumbersInv, Left

\* No two messages the broker accepted are the same.
LEMMA AcceptedDistinct ==
    ASSUME QueueTypeOK, NumbersInv, NEW i \in DOMAIN accepted, NEW j \in DOMAIN accepted,
           accepted[i] = accepted[j]
    PROVE  i = j
<1>1. /\ i \in Nat /\ j \in Nat
      /\ accepted[i].num \in Nat /\ accepted[j].num \in Nat
  BY AcceptedElements
<1> QED
  BY <1>1 DEF NumbersInv
-----------------------------------------------------------------------------
(***************************************************************************)
(* The theorems.                                                           *)
(***************************************************************************)

\* The invariant holds of every run of the two threads.
THEOREM QueueInvariant == QueueSpec => []QueueInv
<1>1. QED
  BY InitQueueInv, StepQueueInv, PTL DEF QueueSpec

\* Type correctness.
THEOREM QueueTypeCorrect == QueueSpec => []QueueTypeOK
<1>1. QueueInv => QueueTypeOK
  BY DEF QueueInv
<1>2. QED
  BY <1>1, QueueInvariant, PTL

\* No message is lost, duplicated or reordered between the producer thread's
\* read_msg and the consumer thread's sockets.
THEOREM FifoHolds == QueueSpec => []Fifo
<1>1. QueueInv => Fifo
  BY DEF QueueInv
<1>2. QED
  BY <1>1, QueueInvariant, PTL

\* get_queue_size does not wrap around as the consumer thread computes it.
THEOREM SizeHolds == QueueSpec => []SizeNeverWraps
<1>1. QueueInv => SizeNeverWraps
  BY DEF QueueInv
<1>2. QED
  BY <1>1, QueueInvariant, PTL

\* Stores seen in program order make the polled counters a promise that
\* try_dequeue finds an element.
THEOREM WakeupHolds == QueueSpec => []NoSpuriousWakeup
<1>1. QueueInv => NoSpuriousWakeup
  <2> SUFFICES ASSUME QueueInv, cpc = "dequeue", ~Relaxed PROVE queue # <<>>
    BY DEF NoSpuriousWakeup
  <2>1. dequeued < enqueued /\ ppc # "insert"
    BY DEF QueueInv, SizeNeverWraps
  <2>2. Len(queue) # 0
    BY <2>1 DEF QueueInv, CountersAgree, QueueTypeOK
  <2>3. QED
    BY <2>2
<1>2. QED
  BY <1>1, QueueInvariant, PTL

\* For any number of publishers, whatever they send and however ZMQ interleaves
\* them, each publisher's messages are accepted in the order in which it sent them,
\* and what was not accepted yet is still in its pipe (producer.h: read_msg).
THEOREM NumbersHold == QueueSpec => []NumbersInv
<1>1. QED
  BY InitNumbers, StepNumbers, QueueTypeCorrect, PTL DEF QueueSpec

-----------------------------------------------------------------------------
(***************************************************************************)
(* What Chosen gives, by induction over the length of the sequence.        *)
(***************************************************************************)

\* The order that the natural numbers are well founded on.
Less == {ss \in Nat \X Nat : ss[1] < ss[2]}

\* A set of numbers with 0 and with the successor of each of its members is the
\* set of all numbers: induction, with no operator for a parameter.
LEMMA SetInduction ==
    ASSUME NEW T \in SUBSET Nat, 0 \in T, \A n \in T : n + 1 \in T
    PROVE  T = Nat
<1> SUFFICES ASSUME Nat \ T # {} PROVE FALSE
  OBVIOUS
<1>1. IsWellFoundedOn(Less, Nat)
  BY NatLessThanWellFounded DEF OpToRel, Less
<1>2. PICK x \in Nat \ T : \A y \in Nat \ T : ~ (<<y, x>> \in Less)
  BY <1>1, WFMin
<1>3. x # 0 /\ x - 1 \in Nat /\ x - 1 < x
  BY <1>2
<1>4. x - 1 \in T
  BY <1>2, <1>3 DEF Less
<1>5. (x - 1) + 1 \in T
  BY <1>4
<1> QED
  BY <1>2, <1>5

\* What Chosen counts with: the elements of S among the first n.
IsUpTo(f, n, s, S) ==
    f = [i \in 0..n |-> IF i = 0 THEN <<>>
                        ELSE IF s[i] \in S THEN Append(f[i - 1], s[i])
                        ELSE f[i - 1]]

\* There is such a function for a sequence of any length, so that Chosen can be
\* unfolded.
LEMMA ChosenUnfolds ==
    ASSUME NEW s, NEW S, NEW n \in Nat, Len(s) = n
    PROVE  \E f : IsUpTo(f, n, s, S) /\ Chosen(s, S) = f[n]
<1> DEFINE T == {m \in Nat : \E f : IsUpTo(f, m, s, S)}
<1>1. 0 \in T
  <2>1. PICK g : g = [i \in 0..0 |-> <<>>]
    OBVIOUS
  <2>2. IsUpTo(g, 0, s, S)
    BY <2>1 DEF IsUpTo
  <2> QED
    BY <2>2
<1>2. ASSUME NEW m \in T PROVE m + 1 \in T
  <2>1. PICK f : IsUpTo(f, m, s, S)
    OBVIOUS
  <2>2. PICK g : g = [i \in 0..m + 1 |-> IF i = 0 THEN <<>>
                        ELSE IF s[i] \in S THEN Append(f[i - 1], s[i])
                        ELSE f[i - 1]]
    OBVIOUS
  <2>3. m \in Nat /\ m + 1 \in Nat
    OBVIOUS
  <2>4. ASSUME NEW i \in 0..m + 1, i # 0 PROVE g[i - 1] = f[i - 1]
    <3>1. i - 1 \in 0..m /\ i - 1 \in 0..m + 1
      BY <2>3, <2>4
    <3> QED
      BY <2>1, <2>2, <3>1 DEF IsUpTo
  <2>5. IsUpTo(g, m + 1, s, S)
    BY <2>2, <2>4 DEF IsUpTo
  <2> QED
    BY <2>3, <2>5
<1>3. T = Nat
  <2> HIDE DEF T
  <2>1. T \in SUBSET Nat
    BY DEF T
  <2> QED
    BY <1>1, <1>2, <2>1, SetInduction
<1>4. \E f : IsUpTo(f, n, s, S)
  BY <1>3
<1> DEFINE F == CHOOSE f : IsUpTo(f, n, s, S)
<1>5. IsUpTo(F, n, s, S)
  BY <1>4, Zenon
<1>6. Chosen(s, S) = F[n]
  BY DEF Chosen, IsUpTo
<1> QED
  BY <1>5, <1>6

\* A function that counts like that has the elements it should, step by step.
LEMMA UpToSteps ==
    ASSUME NEW f, NEW n \in Nat, NEW s, NEW S, IsUpTo(f, n, s, S)
    PROVE  /\ f[0] = <<>>
           /\ \A i \in 1..n : f[i] = IF s[i] \in S THEN Append(f[i - 1], s[i]) ELSE f[i - 1]
<1>1. 0 \in 0..n /\ \A i \in 1..n : i \in 0..n /\ i # 0
  OBVIOUS
<1> QED
  BY <1>1, Zenon DEF IsUpTo

\* Two sequences that agree up to n have the same elements chosen up to n.
LEMMA UpToAgree ==
    ASSUME NEW n \in Nat, NEW k \in Nat, NEW m \in Nat, n <= k, n <= m, NEW S, NEW s, NEW t,
           \A i \in 1..n : s[i] = t[i],
           NEW f, IsUpTo(f, k, s, S), NEW g, IsUpTo(g, m, t, S)
    PROVE  f[n] = g[n]
<1> DEFINE T == {i \in Nat : i <= n => f[i] = g[i]}
<1>1. 0 \in T
  BY UpToSteps
<1>2. ASSUME NEW i \in T PROVE i + 1 \in T
  <2>1. i \in Nat /\ i + 1 \in Nat /\ (i + 1) - 1 = i
    OBVIOUS
  <2>2. SUFFICES ASSUME i + 1 <= n PROVE f[i + 1] = g[i + 1]
    BY <2>1
  <2>3. i + 1 \in 1..k /\ i + 1 \in 1..m /\ i + 1 \in 1..n /\ i <= n
    BY <2>1, <2>2
  <2>4. f[i] = g[i]
    BY <2>3
  <2>5. f[i + 1] = IF s[i + 1] \in S THEN Append(f[i], s[i + 1]) ELSE f[i]
    BY <2>1, <2>3, UpToSteps
  <2>6. g[i + 1] = IF t[i + 1] \in S THEN Append(g[i], t[i + 1]) ELSE g[i]
    BY <2>1, <2>3, UpToSteps
  <2> QED
    BY <2>3, <2>4, <2>5, <2>6
<1>3. T = Nat
  <2> HIDE DEF T
  <2>1. T \in SUBSET Nat
    BY DEF T
  <2> QED
    BY <1>1, <1>2, <2>1, SetInduction
<1> QED
  BY <1>3

\* Nothing is chosen from nothing.
LEMMA ChosenEmpty ==
    ASSUME NEW S
    PROVE  Chosen(<<>>, S) = <<>>
<1>1. Len(<<>>) = 0
  OBVIOUS
<1>2. PICK f : IsUpTo(f, 0, <<>>, S) /\ Chosen(<<>>, S) = f[0]
  BY <1>1, ChosenUnfolds
<1> QED
  BY <1>2, UpToSteps

\* An element that is appended is chosen last, if it is at all.
LEMMA ChosenAppend ==
    ASSUME NEW M, NEW s \in Seq(M), NEW m \in M, NEW S
    PROVE  Chosen(Append(s, m), S)
             = IF m \in S THEN Append(Chosen(s, S), m) ELSE Chosen(s, S)
<1>l. PICK n : n = Len(s)
  OBVIOUS
<1>t. PICK t : t = Append(s, m)
  OBVIOUS
<1>1. /\ n \in Nat /\ n + 1 \in Nat /\ n + 1 \in 1..n + 1 /\ (n + 1) - 1 = n
      /\ Len(t) = n + 1 /\ t[n + 1] = m
      /\ \A i \in 1..n : t[i] = s[i]
  BY <1>l, <1>t, LenProperties, AppendProperties
<1>2. PICK f : IsUpTo(f, n, s, S) /\ Chosen(s, S) = f[n]
  BY <1>1, <1>l, ChosenUnfolds
<1>3. PICK g : IsUpTo(g, n + 1, t, S) /\ Chosen(t, S) = g[n + 1]
  BY <1>1, ChosenUnfolds, SMTT(30)
<1>4. g[n] = f[n]
  BY <1>1, <1>2, <1>3, UpToAgree
<1>5. g[n + 1] = IF m \in S THEN Append(g[n], m) ELSE g[n]
  <2>k. PICK k : k = n + 1
    OBVIOUS
  <2>1. k \in Nat /\ IsUpTo(g, k, t, S)
    BY <1>1, <1>3, <2>k
  <2>2. \A i \in 1..k : g[i] = IF t[i] \in S THEN Append(g[i - 1], t[i]) ELSE g[i - 1]
    BY <2>1, UpToSteps
  <2> QED
    BY <1>1, <2>k, <2>2
<1> QED
  BY <1>2, <1>3, <1>4, <1>5, <1>t

\* What is chosen from a sequence are elements of it.
LEMMA ChosenType ==
    ASSUME NEW M, NEW s \in Seq(M), NEW S
    PROVE  Chosen(s, S) \in Seq(M)
<1>l. PICK n : n = Len(s)
  OBVIOUS
<1>1. n \in Nat /\ \A i \in 1..n : s[i] \in M
  BY <1>l, LenProperties, ElementOfSeq
<1>2. PICK f : IsUpTo(f, n, s, S) /\ Chosen(s, S) = f[n]
  BY <1>1, <1>l, ChosenUnfolds
<1> DEFINE T == {i \in Nat : i <= n => f[i] \in Seq(M)}
<1>3. 0 \in T
  <2>1. f[0] = <<>> /\ <<>> \in Seq(M)
    BY <1>1, <1>2, UpToSteps
  <2> QED
    BY <2>1
<1>4. ASSUME NEW i \in T PROVE i + 1 \in T
  <2>1. i \in Nat /\ i + 1 \in Nat /\ (i + 1) - 1 = i
    OBVIOUS
  <2>2. SUFFICES ASSUME i + 1 <= n PROVE f[i + 1] \in Seq(M)
    BY <2>1
  <2>3. i + 1 \in 1..n /\ i <= n
    BY <1>1, <2>1, <2>2
  <2>4. f[i] \in Seq(M) /\ s[i + 1] \in M
    BY <1>1, <2>3
  <2>5. f[i + 1] = IF s[i + 1] \in S THEN Append(f[i], s[i + 1]) ELSE f[i]
    BY <1>1, <1>2, <2>1, <2>3, UpToSteps
  <2> QED
    BY <2>4, <2>5, AppendProperties
<1>5. T = Nat
  <2> HIDE DEF T
  <2>1. T \in SUBSET Nat
    BY DEF T
  <2> QED
    BY <1>3, <1>4, <2>1, SetInduction
<1> QED
  BY <1>1, <1>2, <1>5

\* The first element is chosen first, if it is at all.
LEMMA ChosenHead ==
    ASSUME NEW M, NEW s \in Seq(M), s # <<>>, NEW S
    PROVE  /\ Head(s) \in S => Chosen(s, S) = <<Head(s)>> \o Chosen(Tail(s), S)
           /\ Head(s) \notin S => Chosen(s, S) = Chosen(Tail(s), S)
<1>l. PICK n : n = Len(s) - 1
  OBVIOUS
<1>t. PICK t : t = Tail(s)
  OBVIOUS
<1>h. PICK h : h = IF s[1] \in S THEN <<s[1]>> ELSE <<>>
  OBVIOUS
<1>1. /\ n \in Nat /\ n + 1 \in Nat /\ Len(s) = n + 1
      /\ t \in Seq(M) /\ Len(t) = n
      /\ \A i \in 1..n : t[i] = s[i + 1] /\ t[i] \in M
      /\ Head(s) = s[1] /\ s[1] \in M /\ h \in Seq(M)
  <2>1. Len(s) \in Nat \ {0}
    BY LenProperties, EmptySeq
  <2>2. Head(s) \in M /\ Tail(s) \in Seq(M) /\ Len(Tail(s)) = Len(s) - 1
    BY HeadTailProperties
  <2>3. \A i \in 1..n : t[i] = s[i + 1]
    BY <2>1, <1>l, <1>t
  <2>4. Head(s) = s[1]
    OBVIOUS
  <2> QED
    BY <2>1, <2>2, <2>3, <2>4, <1>l, <1>t, <1>h, ElementOfSeq
<1>2. PICK f : IsUpTo(f, n, t, S) /\ Chosen(t, S) = f[n]
  BY <1>1, ChosenUnfolds
<1>3. PICK g : IsUpTo(g, n + 1, s, S) /\ Chosen(s, S) = g[n + 1]
  BY <1>1, ChosenUnfolds
<1> DEFINE T == {i \in Nat : i <= n => f[i] \in Seq(M) /\ g[i + 1] = h \o f[i]}
<1>4. 0 \in T
  <2>1. f[0] = <<>> /\ g[0] = <<>>
    BY <1>1, <1>2, <1>3, UpToSteps
  <2>2. 1 \in 1..n + 1 /\ 1 - 1 = 0
    BY <1>1
  <2>3. g[1] = IF s[1] \in S THEN Append(g[0], s[1]) ELSE g[0]
    BY <1>1, <1>3, <2>2, UpToSteps
  <2>4. Append(<<>>, s[1]) = <<s[1]>>
    OBVIOUS
  <2>5. g[1] = h
    BY <2>1, <2>3, <2>4, <1>h
  <2>6. h \o <<>> = h /\ <<>> \in Seq(M) /\ 0 + 1 = 1
    BY <1>1, ConcatEmptySeq
  <2>7. f[0] \in Seq(M) /\ g[0 + 1] = h \o f[0]
    BY <2>1, <2>5, <2>6, Zenon
  <2> QED
    BY <2>7
<1>5. ASSUME NEW i \in T PROVE i + 1 \in T
  <2>1. i \in Nat /\ i + 1 \in Nat /\ (i + 1) - 1 = i
    OBVIOUS
  <2>2. SUFFICES ASSUME i + 1 <= n
                 PROVE  f[i + 1] \in Seq(M) /\ g[(i + 1) + 1] = h \o f[i + 1]
    BY <2>1
  <2>3. i + 1 \in 1..n /\ i <= n /\ (i + 1) + 1 \in 1..n + 1 /\ ((i + 1) + 1) - 1 = i + 1
    BY <1>1, <2>1, <2>2
  <2>4. f[i] \in Seq(M) /\ g[i + 1] = h \o f[i]
    BY <2>3
  <2>x. PICK x : x = t[i + 1]
    OBVIOUS
  <2>5. x \in M /\ s[(i + 1) + 1] = x
    BY <1>1, <2>3, <2>x
  <2>6. f[i + 1] = IF x \in S THEN Append(f[i], x) ELSE f[i]
    <3>1. \A j \in 1..n : f[j] = IF t[j] \in S THEN Append(f[j - 1], t[j]) ELSE f[j - 1]
      BY <1>1, <1>2, UpToSteps
    <3> QED
      BY <2>1, <2>3, <2>x, <3>1
  <2>7. g[(i + 1) + 1] = IF x \in S THEN Append(g[i + 1], x) ELSE g[i + 1]
    <3>k. PICK k : k = n + 1
      OBVIOUS
    <3>1. k \in Nat /\ IsUpTo(g, k, s, S)
      BY <1>1, <1>3, <3>k
    <3>2. \A j \in 1..k : g[j] = IF s[j] \in S THEN Append(g[j - 1], s[j]) ELSE g[j - 1]
      BY <3>1, UpToSteps
    <3> QED
      BY <2>3, <2>5, <3>k, <3>2
  <2>8. Append(h \o f[i], x) = h \o Append(f[i], x)
    <3>a. PICK a : a = f[i]
      OBVIOUS
    <3>1. h \in Seq(M) /\ a \in Seq(M) /\ x \in M
      BY <1>1, <2>4, <2>5, <3>a
    <3>2. Append(h \o a, x) = h \o Append(a, x)
      <4>1. <<x>> \in Seq(M) /\ h \o a \in Seq(M)
        BY <3>1, ConcatProperties
      <4>2. Append(h \o a, x) = (h \o a) \o <<x>> /\ Append(a, x) = a \o <<x>>
        BY <3>1, <4>1, AppendIsConcat
      <4>3. <<x>> \in Seq(M) /\ h \in Seq(M) /\ a \in Seq(M)
        BY <3>1, <4>1
      <4>4. (h \o a) \o <<x>> = h \o (a \o <<x>>)
        BY <4>3, ConcatAssociative, SMTT(30)
      <4> QED
        BY <4>2, <4>4
    <3> QED
      BY <3>2, <3>a
  <2>9. Append(f[i], x) \in Seq(M)
    BY <2>4, <2>5, AppendProperties
  <2> QED
    BY <2>4, <2>6, <2>7, <2>8, <2>9
<1>6. T = Nat
  <2> HIDE DEF T
  <2>1. T \in SUBSET Nat
    BY DEF T
  <2> QED
    BY <1>4, <1>5, <2>1, SetInduction
<1>7. f[n] \in Seq(M) /\ g[n + 1] = h \o f[n]
  BY <1>1, <1>6, SMTT(30)
<1>8. <<>> \o f[n] = f[n]
  BY <1>7, ConcatEmptySeq
<1> QED
  BY <1>1, <1>2, <1>3, <1>7, <1>8, <1>h, <1>t

-----------------------------------------------------------------------------
(***************************************************************************)
(* Each publisher's order.                                                 *)
(***************************************************************************)

\* What is in order for one publisher; a message that it publishes goes last.
LEMMA PublishInOrder ==
    ASSUME NEW a \in Seq(Messages), NEW b \in Seq(Messages), NEW c \in Seq(Messages),
           NEW m \in Messages,
           Chosen(a, From(m.pub)) \o Chosen(b, NonEmpty) = Chosen(c, NonEmpty)
    PROVE  Chosen(a, From(m.pub)) \o Chosen(Append(b, m), NonEmpty)
             = Chosen(Append(c, m), NonEmpty)
<1>a. PICK x : x = Chosen(a, From(m.pub))
  OBVIOUS
<1>b. PICK y : y = Chosen(b, NonEmpty)
  OBVIOUS
<1>1. x \in Seq(Messages) /\ y \in Seq(Messages) /\ x \o y = Chosen(c, NonEmpty)
  BY <1>a, <1>b, ChosenType
<1>2. CASE m \in NonEmpty
  <2>1. Chosen(Append(b, m), NonEmpty) = Append(y, m)
    BY <1>2, <1>b, ChosenAppend, SMTT(30)
  <2>2. Chosen(Append(c, m), NonEmpty) = Append(x \o y, m)
    BY <1>2, <1>1, ChosenAppend
  <2>3. <<m>> \in Seq(Messages) /\ x \o y \in Seq(Messages)
    <3>1. <<m>> \in Seq(Messages)
      OBVIOUS
    <3> QED
      BY <1>1, <3>1, ConcatProperties
  <2>4. Append(x \o y, m) = (x \o y) \o <<m>> /\ Append(y, m) = y \o <<m>>
    BY <1>1, <2>3, AppendIsConcat
  <2>5. (x \o y) \o <<m>> = x \o (y \o <<m>>)
    <3>1. x \in Seq(Messages) /\ y \in Seq(Messages) /\ <<m>> \in Seq(Messages)
      BY <1>1, <2>3
    <3> QED
      BY <3>1, ConcatAssociative, SMTT(30)
  <2> QED
    BY <1>a, <2>1, <2>2, <2>4, <2>5
<1>3. CASE m \notin NonEmpty
  <2>1. Chosen(Append(b, m), NonEmpty) = y /\ Chosen(Append(c, m), NonEmpty) = x \o y
    BY <1>1, <1>3, <1>b, ChosenAppend
  <2> QED
    BY <1>a, <2>1
<1> QED
  BY <1>2, <1>3

\* A message that is not empty is accepted after what its publisher had accepted.
LEMMA ReadInOrder ==
    ASSUME NEW a \in Seq(Messages), NEW b \in Seq(Messages), b # <<>>,
           Head(b) \in NonEmpty, NEW p, Head(b) \in From(p)
    PROVE  Chosen(Append(a, Head(b)), From(p)) \o Chosen(Tail(b), NonEmpty)
             = Chosen(a, From(p)) \o Chosen(b, NonEmpty)
<1>m. PICK m : m = Head(b)
  OBVIOUS
<1>x. PICK x : x = Chosen(a, From(p))
  OBVIOUS
<1>y. PICK y : y = Chosen(Tail(b), NonEmpty)
  OBVIOUS
<1>1. m \in Messages /\ Tail(b) \in Seq(Messages) /\ m \in From(p) /\ m \in NonEmpty
  BY <1>m, HeadTailProperties
<1>2. x \in Seq(Messages) /\ y \in Seq(Messages) /\ <<m>> \in Seq(Messages)
  <2>1. <<m>> \in Seq(Messages)
    BY <1>1
  <2> QED
    BY <1>1, <1>x, <1>y, <2>1, ChosenType
<1>3. Chosen(Append(a, m), From(p)) = Append(x, m)
  BY <1>1, <1>x, ChosenAppend
<1>4. Chosen(b, NonEmpty) = <<m>> \o y
  BY <1>m, <1>y, ChosenHead
<1>5. Append(x, m) = x \o <<m>>
  BY <1>1, <1>2, AppendIsConcat
<1>6. (x \o <<m>>) \o y = x \o (<<m>> \o y)
  BY <1>2, ConcatAssociative
<1> QED
  BY <1>m, <1>x, <1>y, <1>3, <1>4, <1>5, <1>6

\* Every step keeps each publisher's order.
LEMMA StepOrder ==
    QueueTypeOK /\ NumbersInv /\ PublisherOrder /\ [QueueNext]_queueVars => PublisherOrder'
<1> SUFFICES ASSUME QueueTypeOK, NumbersInv, PublisherOrder, [QueueNext]_queueVars
             PROVE  PublisherOrder'
  OBVIOUS
<1>1. /\ \A q \in Publishers : published[q] \in Seq(Messages) /\ inbox[q] \in Seq(Messages)
      /\ published \in [Publishers -> Seq(Messages)] /\ inbox \in [Publishers -> Seq(Messages)]
      /\ accepted \in Seq(Messages)
  BY DEF QueueTypeOK
<1>2. \A q \in Publishers :
        Chosen(accepted, From(q)) \o Chosen(inbox[q], NonEmpty) = Chosen(published[q], NonEmpty)
  BY DEF PublisherOrder
<1>3. ASSUME NEW p \in Publishers, Publish(p) PROVE PublisherOrder'
  <2>1. PICK len \in Lengths :
          LET m == [pub |-> p, num |-> Len(published[p]) + 1, len |-> len]
          IN  /\ published' = [published EXCEPT ![p] = Append(@, m)]
              /\ inbox' = [inbox EXCEPT ![p] = Append(@, m)]
    BY <1>3 DEF Publish
  <2>m. PICK m : m = [pub |-> p, num |-> Len(published[p]) + 1, len |-> len]
    OBVIOUS
  <2>2. m \in Messages /\ m.pub = p
    BY <1>3, <2>m, PublishedIsMessage DEF Publish
  <2>3. /\ published' = [published EXCEPT ![p] = Append(@, m)]
        /\ inbox' = [inbox EXCEPT ![p] = Append(@, m)]
        /\ accepted' = accepted
    BY <1>3, <2>1, <2>m DEF Publish
  <2>4. Chosen(accepted, From(p)) \o Chosen(Append(inbox[p], m), NonEmpty)
          = Chosen(Append(published[p], m), NonEmpty)
    BY <1>1, <1>2, <2>2, PublishInOrder, ZenonT(30)
  <2>5. ASSUME NEW q \in Publishers
        PROVE  Chosen(accepted', From(q)) \o Chosen(inbox'[q], NonEmpty)
                 = Chosen(published'[q], NonEmpty)
    <3>1. CASE q = p
      BY <1>1, <2>3, <2>4, <3>1
    <3>2. CASE q # p
      BY <1>1, <1>2, <2>3, <3>2
    <3> QED
      BY <3>1, <3>2
  <2> QED
    BY <2>5 DEF PublisherOrder, From, NonEmpty
<1>4. ASSUME NEW p \in Publishers, ReadEmpty(p) PROVE PublisherOrder'
  <2>1. inbox[p] # <<>> /\ Head(inbox[p]) \notin NonEmpty
    BY <1>4 DEF ReadEmpty, NonEmpty
  <2>2. Chosen(Tail(inbox[p]), NonEmpty) = Chosen(inbox[p], NonEmpty)
    BY <1>1, <2>1, ChosenHead
  <2>3. /\ inbox' = [inbox EXCEPT ![p] = Tail(@)]
        /\ UNCHANGED <<published, accepted>>
    BY <1>4 DEF ReadEmpty
  <2>4. ASSUME NEW q \in Publishers
        PROVE  Chosen(accepted', From(q)) \o Chosen(inbox'[q], NonEmpty)
                 = Chosen(published'[q], NonEmpty)
    <3>1. CASE q = p
      BY <1>1, <1>2, <2>2, <2>3, <3>1
    <3>2. CASE q # p
      BY <1>1, <1>2, <2>3, <3>2
    <3> QED
      BY <3>1, <3>2
  <2> QED
    BY <2>4 DEF PublisherOrder, From, NonEmpty
<1>5. ASSUME NEW p \in Publishers, ReadMessage(p) PROVE PublisherOrder'
  <2>1. /\ inbox[p] # <<>> /\ Head(inbox[p]).len > 0
        /\ inbox' = [inbox EXCEPT ![p] = Tail(@)]
        /\ accepted' = Append(accepted, Head(inbox[p]))
        /\ published' = published
    BY <1>5 DEF ReadMessage
  <2>2. Head(inbox[p]) \in Messages /\ Head(inbox[p]).pub = p
    <3>1. 1 \in DOMAIN inbox[p] /\ Head(inbox[p]) = inbox[p][1]
      BY <1>1, <2>1, EmptySeq, LenProperties
    <3> QED
      BY <1>1, <2>1, <3>1, HeadTailProperties DEF NumbersInv
  <2>3. /\ Head(inbox[p]) \in NonEmpty /\ Head(inbox[p]) \in From(p)
        /\ \A q \in Publishers : q # p => Head(inbox[p]) \notin From(q)
    BY <2>1, <2>2 DEF NonEmpty, From
  <2>4. Chosen(Append(accepted, Head(inbox[p])), From(p)) \o Chosen(Tail(inbox[p]), NonEmpty)
          = Chosen(accepted, From(p)) \o Chosen(inbox[p], NonEmpty)
    BY <1>1, <2>1, <2>3, ReadInOrder
  <2>5. ASSUME NEW q \in Publishers
        PROVE  Chosen(accepted', From(q)) \o Chosen(inbox'[q], NonEmpty)
                 = Chosen(published'[q], NonEmpty)
    <3>1. CASE q = p
      BY <1>1, <1>2, <2>1, <2>4, <3>1
    <3>2. CASE q # p
      <4>1. Chosen(Append(accepted, Head(inbox[p])), From(q)) = Chosen(accepted, From(q))
        BY <1>1, <2>2, <2>3, <3>2, ChosenAppend
      <4> QED
        BY <1>1, <1>2, <2>1, <3>2, <4>1
    <3> QED
      BY <3>1, <3>2
  <2> QED
    BY <2>5 DEF PublisherOrder, From, NonEmpty
<1>6. CASE UNCHANGED <<published, inbox, accepted>>
  BY <1>2, <1>6 DEF PublisherOrder, From, NonEmpty
<1> QED
  BY <1>3, <1>4, <1>5, <1>6 DEF QueueNext, Producer, ReadFails, TryEnqueue, CountEnqueued,
     CountEarly, InsertLate, Poll, Dequeue, DequeueEmpty, Sent, producerVars, consumerVars, queueVars

\* For any publishers, whatever they send and however ZMQ interleaves them: what
\* each has sent and was not empty was accepted, in its order, or is in its pipe
\* (producer.h: process_producers, which passes over reads of no bytes).
THEOREM PublisherOrderHolds == QueueSpec => []PublisherOrder
<1>1. QueueInit => PublisherOrder
  <2> SUFFICES ASSUME QueueInit, NEW p \in Publishers
               PROVE  Chosen(accepted, From(p)) \o Chosen(inbox[p], NonEmpty)
                        = Chosen(published[p], NonEmpty)
    BY DEF PublisherOrder
  <2>1. accepted = <<>> /\ inbox[p] = <<>> /\ published[p] = <<>>
    BY DEF QueueInit
  <2> QED
    BY <2>1, ChosenEmpty, ConcatEmptySeq, EmptySeq
<1> QED
  BY <1>1, StepOrder, NumbersHold, QueueTypeCorrect, PTL DEF QueueSpec

-----------------------------------------------------------------------------
(***************************************************************************)
(* The queue implements the log of a topic.                                *)
(***************************************************************************)

\* A step either stores the message just read, or serves the next one, or is
\* not seen in the log.
LEMMA StepRefines ==
    QueueInv /\ QueueInv' /\ [QueueNext]_queueVars => [Log!Next]_(Log!vars)
<1> SUFFICES ASSUME QueueInv, QueueInv', [QueueNext]_queueVars
    PROVE [Log!Next]_(Log!vars)
  OBVIOUS
<1>1. ASSUME NEW p \in Publishers, ReadMessage(p) PROVE Log!Next
  <2>1. Head(inbox[p]) \in Messages
    BY <1>1, HeadTailProperties DEF ReadMessage, QueueInv, QueueTypeOK
  <2>2. Log!Store(Head(inbox[p]))
    BY <1>1 DEF ReadMessage, consumerVars, Log!Store
  <2>3. QED
    BY <2>1, <2>2 DEF Log!Next
<1>2. CASE Dequeue
  <2>1. /\ taken \in Seq(Messages) /\ queue \in Seq(Messages)
        /\ Pending \in Seq(Messages) /\ queue # <<>>
        /\ Len(taken) \in Nat /\ Len(queue) \in Nat \ {0} /\ Len(Pending) \in Nat
    <3>1. Holding => pmsg \in Messages
      BY DEF Holding, QueueInv, QueueTypeOK
    <3>2. Pending \in Seq(Messages)
      BY <3>1 DEF Pending
    <3>3. QED
      BY <1>2, <3>2, LenProperties, EmptySeq DEF Dequeue, QueueInv, QueueTypeOK
  <2>2. Len(accepted) = Len(taken) + Len(queue) + Len(Pending)
    <3>1. taken \o queue \in Seq(Messages) /\ Len(taken \o queue) = Len(taken) + Len(queue)
      BY <2>1, ConcatProperties
    <3>2. QED
      BY <2>1, <3>1, ConcatProperties DEF QueueInv, Fifo
  <2>3. Len(taken) < Len(accepted)
    BY <2>1, <2>2
  <2>4. Head(queue) \in Messages
    BY <2>1, HeadTailProperties
  <2>5. Len(taken') = Len(taken) + 1
    BY <1>2, <2>1, <2>4, AppendProperties DEF Dequeue
  <2>6. QED
    BY <1>2, <2>3, <2>5 DEF Dequeue, producerVars, Log!Next, Log!Serve
<1>3. ASSUME \/ \E p \in Publishers : Publish(p) \/ ReadEmpty(p)
             \/ ReadFails \/ TryEnqueue \/ CountEnqueued \/ CountEarly
             \/ InsertLate \/ Poll \/ DequeueEmpty \/ Sent
             \/ UNCHANGED queueVars
      PROVE  UNCHANGED Log!vars
  BY <1>3 DEF Publish, ReadEmpty, ReadFails, TryEnqueue, CountEnqueued,
              CountEarly, InsertLate, Poll, DequeueEmpty, Sent, queueVars,
              producerVars, consumerVars, Log!vars
<1>4. QED
  BY <1>1, <1>2, <1>3 DEF QueueNext, Producer

\* The safety half of ImplementsLog: every run of the two threads is a run of a
\* log that is stored into at its end and served from its front.
THEOREM QueueImplementsLog == QueueSpec => Log!Spec
<1>1. QueueInit => Log!Init
  BY EmptySeq DEF QueueInit, Log!Init
<1>2. QED
  BY <1>1, StepRefines, QueueInvariant, PTL DEF QueueSpec, Log!Spec

=============================================================================
