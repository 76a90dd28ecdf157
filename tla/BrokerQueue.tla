----------------------------- MODULE BrokerQueue -----------------------------
(***************************************************************************)
(* The in-memory storage of a topic of type "queue" (broker_storage.h) and *)
(* the two broker threads that share it.  The producer thread              *)
(* (producer::process_producers) reads a message from its ZMQ PULL socket, *)
(* retries try_enqueue until the queue has room, then increments           *)
(* total_enqueued_messages_.  The consumer thread                          *)
(* (consumer::process_consumers) polls the difference of the two counters, *)
(* dequeues, increments total_dequeued_messages_ and sends the message.    *)
(* Sending is a phase of its own here, "send"; QueueTopic says what        *)
(* happens in it.                                                          *)
(*                                                                         *)
(* The counters are plain uint64_t, read by another thread with no         *)
(* synchronisation.  Relaxed = TRUE lets the increment of                  *)
(* total_enqueued_messages_ become visible before the enqueued element     *)
(* does; with Relaxed = FALSE stores are seen in program order (x86-64).   *)
(***************************************************************************)
EXTENDS Naturals, Sequences

CONSTANTS
    Publishers,     \* client processes with a PUSH socket to this topic
    Lengths,        \* payload lengths a publisher may send
    NoMsg,          \* no message in a thread's local variable
    MinCapacity,    \* elements the queue holds in every case
    MaxCapacity,    \* elements it holds at most, see TryEnqueue
    PipeHwm,        \* bound: messages in flight from one publisher
    MaxSent,        \* bound: messages one publisher sends
    Relaxed         \* may the counter be seen before the element?

Messages == [pub : Publishers, num : 1..MaxSent, len : Lengths]

ASSUME LengthsAssumption == Lengths \subseteq Nat
ASSUME NoMsgAssumption == NoMsg \notin Messages
ASSUME CapacityAssumption ==
    /\ MinCapacity \in Nat \ {0}
    /\ MaxCapacity \in Nat
    /\ MinCapacity <= MaxCapacity
ASSUME BoundsAssumption == PipeHwm \in Nat /\ MaxSent \in Nat
ASSUME RelaxedAssumption == Relaxed \in BOOLEAN

VARIABLES
    published,  \* history: what each publisher has sent
    inbox,      \* messages in flight from each publisher
    ppc,        \* phase of the producer thread
    pmsg,       \* its local variable "message"
    queue,      \* p_queue_
    enqueued,   \* total_enqueued_messages_
    dequeued,   \* total_dequeued_messages_
    cpc,        \* phase of the consumer thread
    cmsg,       \* its local variable "message"
    accepted,   \* history: messages the producer thread read, in order
    taken       \* history: messages the consumer thread dequeued, in order

producerVars == <<published, inbox, ppc, pmsg, accepted>>
consumerVars == <<dequeued, cpc, cmsg, taken>>
queueVars == <<published, inbox, ppc, pmsg, queue, enqueued, dequeued, cpc,
               cmsg, accepted, taken>>

ProducerPhases == {"read", "enqueue", "count", "insert", "stopped"}
ConsumerPhases == {"poll", "dequeue", "send"}

\* Phases in which the producer thread holds a message that is not yet in the
\* queue.
Holding == ppc \in {"enqueue", "insert"}
\* That message, as a sequence.
Pending == IF Holding THEN <<pmsg>> ELSE <<>>

QueueInit ==
    /\ published = [p \in Publishers |-> <<>>]
    /\ inbox = [p \in Publishers |-> <<>>]
    /\ ppc = "read"
    /\ pmsg = NoMsg
    /\ queue = <<>>
    /\ enqueued = 0
    /\ dequeued = 0
    /\ cpc = "poll"
    /\ cmsg = NoMsg
    /\ accepted = <<>>
    /\ taken = <<>>
-----------------------------------------------------------------------------
(***************************************************************************)
(* The producer side.                                                      *)
(***************************************************************************)

\* A publisher sends its next message.  (External: the client's PUSH socket.)
Publish(p) ==
    /\ Len(published[p]) < MaxSent
    /\ Len(inbox[p]) < PipeHwm
    /\ \E len \in Lengths :
         LET m == [pub |-> p, num |-> Len(published[p]) + 1, len |-> len]
         IN  /\ published' = [published EXCEPT ![p] = Append(@, m)]
             /\ inbox' = [inbox EXCEPT ![p] = Append(@, m)]
    /\ UNCHANGED <<ppc, pmsg, queue, enqueued, accepted, consumerVars>>

\* read_msg returned 0 bytes: the loop goes round without storing anything.
ReadEmpty(p) ==
    /\ ppc = "read"
    /\ inbox[p] # <<>>
    /\ Head(inbox[p]).len = 0
    /\ inbox' = [inbox EXCEPT ![p] = Tail(@)]
    /\ UNCHANGED <<published, ppc, pmsg, queue, enqueued, accepted, consumerVars>>

\* Mutated form of ReadMessage: the test for a short read is off by one and
\* drops messages of one byte too.
ReadMessageDropsShort(p) ==
    /\ ppc = "read"
    /\ inbox[p] # <<>>
    /\ Head(inbox[p]).len > 0
    /\ inbox' = [inbox EXCEPT ![p] = Tail(@)]
    /\ IF Head(inbox[p]).len > 1
       THEN /\ pmsg' = Head(inbox[p])
            /\ accepted' = Append(accepted, Head(inbox[p]))
            /\ ppc' = "enqueue"
       ELSE UNCHANGED <<pmsg, accepted, ppc>>
    /\ UNCHANGED <<published, queue, enqueued, consumerVars>>

\* read_msg returned a message, from whichever publisher ZMQ picked.
ReadMessage(p) ==
    /\ ppc = "read"
    /\ inbox[p] # <<>>
    /\ Head(inbox[p]).len > 0
    /\ inbox' = [inbox EXCEPT ![p] = Tail(@)]
    /\ pmsg' = Head(inbox[p])
    /\ accepted' = Append(accepted, Head(inbox[p]))
    /\ ppc' = "enqueue"
    /\ UNCHANGED <<published, queue, enqueued, consumerVars>>

\* read_msg returned -1 (a zmq::error_t was caught): the thread ends.
ReadFails ==
    /\ ppc = "read"
    /\ ppc' = "stopped"
    /\ UNCHANGED <<published, inbox, pmsg, queue, enqueued, accepted, consumerVars>>

\* Mutated form of TryEnqueue: a message that was enqueued is tried again.
TryEnqueueAgain ==
    /\ ppc = "enqueue"
    /\ Len(queue) < MaxCapacity
    /\ queue' = Append(queue, pmsg)
    /\ ppc' = IF Len(queue) = 0 THEN "count" ELSE "enqueue"
    /\ UNCHANGED <<published, inbox, pmsg, enqueued, accepted, consumerVars>>

\* try_enqueue succeeds.  The queue is a ring of blocks of which the one being
\* read cannot be reused, so it takes between MinCapacity and MaxCapacity
\* elements.  A try_enqueue that fails changes nothing but the time: the thread
\* sleeps and tries again.
TryEnqueue ==
    /\ ppc = "enqueue"
    /\ Len(queue) < MaxCapacity
    /\ queue' = Append(queue, pmsg)
    /\ ppc' = "count"
    /\ UNCHANGED <<published, inbox, pmsg, enqueued, accepted, consumerVars>>

\* Mutated form of CountEnqueued: the local message is not cleared.
CountEnqueuedKeeps ==
    /\ ppc = "count"
    /\ enqueued' = enqueued + 1
    /\ ppc' = "read"
    /\ UNCHANGED <<published, inbox, pmsg, queue, accepted, consumerVars>>

\* ++total_enqueued_messages_, then round the loop: message.clear().
CountEnqueued ==
    /\ ppc = "count"
    /\ enqueued' = enqueued + 1
    /\ pmsg' = NoMsg
    /\ ppc' = "read"
    /\ UNCHANGED <<published, inbox, queue, accepted, consumerVars>>

\* The same two stores seen in the other order: first the counter ...
CountEarly ==
    /\ Relaxed
    /\ ppc = "enqueue"
    /\ Len(queue) < MaxCapacity
    /\ enqueued' = enqueued + 1
    /\ ppc' = "insert"
    /\ UNCHANGED <<published, inbox, pmsg, queue, accepted, consumerVars>>

\* ... then the element.
InsertLate ==
    /\ ppc = "insert"
    /\ queue' = Append(queue, pmsg)
    /\ pmsg' = NoMsg
    /\ ppc' = "read"
    /\ UNCHANGED <<published, inbox, enqueued, accepted, consumerVars>>

Producer ==
    \/ \E p \in Publishers : ReadEmpty(p) \/ ReadMessage(p)
    \/ ReadFails
    \/ TryEnqueue
    \/ CountEnqueued
    \/ CountEarly
    \/ InsertLate
-----------------------------------------------------------------------------
(***************************************************************************)
(* The consumer side.                                                      *)
(***************************************************************************)

\* Mutated form of Poll: the thread dequeues without waiting for the counters.
PollTooEarly ==
    /\ cpc = "poll"
    /\ enqueued + 1 # dequeued
    /\ cpc' = "dequeue"
    /\ UNCHANGED <<producerVars, queue, enqueued, dequeued, cmsg, taken>>

\* while (get_queue_size() <= 0) sleep: the size is an unsigned difference, so
\* the loop is left as soon as the two counters differ.
Poll ==
    /\ cpc = "poll"
    /\ enqueued # dequeued
    /\ cpc' = "dequeue"
    /\ UNCHANGED <<producerVars, queue, enqueued, dequeued, cmsg, taken>>

\* try_dequeue succeeds, ++total_dequeued_messages_.
Dequeue ==
    /\ cpc = "dequeue"
    /\ queue # <<>>
    /\ cmsg' = Head(queue)
    /\ queue' = Tail(queue)
    /\ dequeued' = dequeued + 1
    /\ taken' = Append(taken, Head(queue))
    /\ cpc' = "send"
    /\ UNCHANGED <<producerVars, enqueued>>

\* try_dequeue fails: result is 0, the thread sleeps and polls again.
DequeueEmpty ==
    /\ cpc = "dequeue"
    /\ queue = <<>>
    /\ cpc' = "poll"
    /\ UNCHANGED <<producerVars, queue, enqueued, dequeued, cmsg, taken>>

\* The message went to the sockets; round the loop: message.clear().
Sent ==
    /\ cpc = "send"
    /\ cmsg' = NoMsg
    /\ cpc' = "poll"
    /\ UNCHANGED <<producerVars, queue, enqueued, dequeued, taken>>
-----------------------------------------------------------------------------
QueueNext ==
    \/ \E p \in Publishers : Publish(p)
    \/ Producer
    \/ Poll
    \/ Dequeue
    \/ DequeueEmpty
    \/ Sent

QueueSpec == QueueInit /\ [][QueueNext]_queueVars

\* Both threads keep running, so each step that stays enabled is taken.  A full
\* queue may refuse an element even below MaxCapacity, hence the guard on
\* TryEnqueue; nothing obliges a publisher to send, or read_msg to fail.
ThreadFairness ==
    /\ \A p \in Publishers : WF_queueVars(ReadEmpty(p) \/ ReadMessage(p))
    /\ WF_queueVars(Len(queue) < MinCapacity /\ TryEnqueue)
    /\ WF_queueVars(CountEnqueued)
    /\ WF_queueVars(InsertLate)
    /\ WF_queueVars(Poll)
    /\ WF_queueVars(Dequeue \/ DequeueEmpty)

FairQueueSpec == QueueSpec /\ ThreadFairness /\ WF_queueVars(Sent)
-----------------------------------------------------------------------------
(***************************************************************************)
(* Properties.                                                             *)
(***************************************************************************)

\* The type invariant: each variable holds what its C++ type and the phase of
\* its thread say, and a thread holds a message exactly in the phases between
\* reading it and finishing with it.
QueueTypeOK ==
    /\ published \in [Publishers -> Seq(Messages)]
    /\ inbox \in [Publishers -> Seq(Messages)]
    /\ ppc \in ProducerPhases
    /\ pmsg \in Messages \cup {NoMsg}
    /\ pmsg = NoMsg <=> ppc \in {"read", "stopped"}
    /\ queue \in Seq(Messages)
    /\ enqueued \in Nat
    /\ dequeued \in Nat
    /\ cpc \in ConsumerPhases
    /\ cmsg \in Messages \cup {NoMsg}
    /\ cmsg = NoMsg <=> cpc # "send"
    /\ accepted \in Seq(Messages)
    /\ taken \in Seq(Messages)

\* Between read_msg and the consumer's sockets nothing is lost, duplicated or
\* reordered: what was dequeued, what is queued and what the producer thread
\* still holds are, one after the other, exactly what it read, however often
\* try_enqueue had to be retried.  (broker_storage.h: write_to_queue,
\* get_message_from_queue.)
Fifo == accepted = taken \o queue \o Pending

\* The two counters account for every message: they differ by the length of
\* the queue, except while the producer thread is between its two stores.
CountersAgree ==
    /\ dequeued = Len(taken)
    /\ enqueued + (IF ppc = "count" THEN 1 ELSE 0)
         = dequeued + Len(queue) + (IF ppc = "insert" THEN 1 ELSE 0)

\* total_enqueued_messages_ - total_dequeued_messages_, an unsigned difference
\* of two counters of two threads, never wraps around as the consumer thread
\* sees it, and is not zero once that thread has left the polling loop.
SizeNeverWraps ==
    /\ dequeued <= enqueued
    /\ cpc = "dequeue" => dequeued < enqueued

\* With stores seen in program order, polling the counters is enough: the
\* try_dequeue that follows finds an element.  The counters alone do not say
\* so; the fallback for result = 0 in process_consumers is for Relaxed builds.
NoSpuriousWakeup == (cpc = "dequeue" /\ ~Relaxed) => queue # <<>>

\* The strengthening that makes Fifo, SizeNeverWraps and NoSpuriousWakeup
\* inductive.
QueueInv ==
    /\ QueueTypeOK
    /\ Fifo
    /\ CountersAgree
    /\ SizeNeverWraps
    /\ ppc = "insert" => Relaxed

\* The elements of S in a sequence, in their order.
Chosen(s, S) ==
    LET upTo[n \in 0..Len(s)] ==
            IF n = 0 THEN <<>>
            ELSE IF s[n] \in S THEN Append(upTo[n - 1], s[n])
            ELSE upTo[n - 1]
    IN  upTo[Len(s)]

From(p) == {m \in Messages : m.pub = p}
NonEmpty == {m \in Messages : m.len > 0}

\* Each publisher's messages are accepted in the order it sent them, all of
\* them except the empty ones, however ZMQ interleaves the publishers.
PublisherOrder ==
    \A p \in Publishers :
        Chosen(accepted, From(p)) \o Chosen(inbox[p], NonEmpty)
          = Chosen(published[p], NonEmpty)

\* The queue implements the log of a topic: read_msg stores, try_dequeue
\* serves, and what is stored is served eventually, also if the queue refuses it
\* for a while.
Log == INSTANCE TopicLog
         WITH log <- accepted, served <- Len(taken), Forgetful <- FALSE
ImplementsLog == Log!FairSpec
=============================================================================
