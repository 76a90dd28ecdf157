----------------------------- MODULE QueueTopic -----------------------------
(***************************************************************************)
(* A topic of type "queue" with both kinds of consumers: BrokerQueue's two *)
(* threads composed with the PUSH and the PUB socket the consumer thread   *)
(* sends through, their clients and their monitors (ZmqSockets).           *)
(*                                                                         *)
(* The send phase of the consumer thread is spelled out: first the PUSH    *)
(* socket, then the PUB socket, each only if its monitor counts clients    *)
(* (consumer.h, the broker_queue branch of process_consumers).             *)
(***************************************************************************)
EXTENDS BrokerQueue, ZmqSockets

CONSTANTS Push, Pub     \* the two sockets

ASSUME SocketsAssumption == Sockets = {Push, Pub} /\ Push # Pub

VARIABLE stage          \* where the consumer thread is with its message

Stages == {"push", "pushing", "pub", "publishing"}

topicVars == <<queueVars, zmqVars, stage>>

TopicInit ==
    /\ QueueInit
    /\ ZmqInit
    /\ stage = "push"

At(st) == cpc = "send" /\ stage = st
GoTo(st) == stage' = st /\ UNCHANGED queueVars

\* get_num_connected_clients() > 0 on the PUSH socket.  The count is read once;
\* what becomes of it later does not stop the send that follows.
CheckPush ==
    /\ At("push")
    /\ SeesClients(Push)
    /\ GoTo("pushing")
    /\ UNCHANGED zmqVars

\* Mutated form of SkipPush: the count is compared with 1.
SkipPushOffByOne ==
    /\ At("push")
    /\ get_num_connected_clients(Push) <= 1
    /\ GoTo("pub")
    /\ UNCHANGED zmqVars

\* "No clients are connected to push socket. Not sending message"
SkipPush ==
    /\ At("push")
    /\ ~SeesClients(Push)
    /\ GoTo("pub")
    /\ UNCHANGED zmqVars

\* Mutated form of SendPush: a message that was sent is sent again.
SendPushAgain ==
    /\ At("pushing")
    /\ PushTo(Push, cmsg)
    /\ \E st \in {"pushing", "pub"} : GoTo(st)

\* Mutated form of SendPush: the thread waits for every client to have room.
SendPushWaitsForAll ==
    /\ At("pushing")
    /\ Of(Push) = Attached(Push)
    /\ PushTo(Push, cmsg)
    /\ GoTo("pub")

\* write_msg on the PUSH socket; blocked as long as PushTo is.
SendPush ==
    /\ At("pushing")
    /\ PushTo(Push, cmsg)
    /\ GoTo("pub")

\* write_msg caught a zmq::error_t and returned -1: the result is overwritten
\* and the message goes on to the PUB socket.
FailPush ==
    /\ At("pushing")
    /\ GoTo("pub")
    /\ UNCHANGED zmqVars

CheckPub ==
    /\ At("pub")
    /\ SeesClients(Pub)
    /\ GoTo("publishing")
    /\ UNCHANGED zmqVars

\* Mutated form of NextMessage: the thread dequeues again without polling.
NextMessageUnpolled ==
    /\ stage' = "push"
    /\ cmsg' = NoMsg
    /\ cpc' = "dequeue"
    /\ UNCHANGED <<producerVars, queue, enqueued, dequeued, taken>>

\* Mutated form of NextMessage: the stage is not reset.
NextMessageAtPub == Sent /\ UNCHANGED stage

\* The loop body is done with the message.
NextMessage == stage' = "push" /\ Sent

\* "No clients are connected to pub socket. Not sending message"
SkipPub ==
    /\ At("pub")
    /\ ~SeesClients(Pub)
    /\ NextMessage
    /\ UNCHANGED zmqVars

\* Mutated form of SendPub: the message is published a second time.
SendPubAgain ==
    /\ At("publishing")
    /\ PubTo(Pub, cmsg)
    /\ NextMessage \/ GoTo("pub")

\* write_msg on the PUB socket.
SendPub ==
    /\ At("publishing")
    /\ PubTo(Pub, cmsg)
    /\ NextMessage

\* write_msg returned -1; nobody looks at it.
FailPub ==
    /\ At("publishing")
    /\ NextMessage
    /\ UNCHANGED zmqVars

Send == CheckPush \/ SkipPush \/ SendPush \/ CheckPub \/ SkipPub \/ SendPub

QueueStep ==
    /\ \/ \E p \in Publishers : Publish(p)
       \/ Producer
       \/ Poll
       \/ Dequeue
       \/ DequeueEmpty
    /\ UNCHANGED <<zmqVars, stage>>

TopicNext ==
    \/ QueueStep
    \/ Send
    \/ FailPush
    \/ FailPub
    \/ Environment /\ UNCHANGED <<queueVars, stage>>

TopicSpec == TopicInit /\ [][TopicNext]_topicVars

TopicFairness ==
    /\ ThreadFairness
    /\ WF_topicVars(Send)
    /\ EnvironmentFairness

FairTopicSpec == TopicSpec /\ TopicFairness
-----------------------------------------------------------------------------
(***************************************************************************)
(* Properties.                                                             *)
(***************************************************************************)

\* The type invariant: the consumer thread looks for the next message only
\* when it is done with both sockets.
TopicTypeOK ==
    /\ QueueTypeOK
    /\ ZmqTypeOK
    /\ stage \in Stages
    /\ cpc # "send" => stage = "push"

\* Load balancing: no message is handed to two consumers of the PUSH socket, or
\* to one of them twice, whatever connects, breaks or is retried.
OneConsumerPerMessage ==
    \A c, d \in Of(Push) : \A i \in DOMAIN handed[c], j \in DOMAIN handed[d] :
        handed[c][i] = handed[d][j] => c = d /\ i = j

Position(m) == CHOOSE i \in DOMAIN taken : taken[i] = m

\* Every consumer, of either kind, is handed messages in the order in which the
\* broker read them from the publishers, and none of them twice.
HandedInOrder ==
    \A c \in Clients : \A i, j \in DOMAIN handed[c] :
        i < j => Position(handed[c][i]) < Position(handed[c][j])

\* A message is withheld from an attached consumer of the PUSH socket only if
\* the monitor is behind: it has events to handle, or missed some.
SkipsOnlyIfMonitorBehind ==
    [][SkipPush => \/ Attached(Push) = {}
                   \/ events[Push] # <<>>
                   \/ missed[Push] # 0]_topicVars

\* However many messages were read, as many are taken out eventually.
BacklogDrains ==
    \A n \in 1..(MaxSent * Cardinality(Publishers)) :
        Len(accepted) >= n ~> Len(taken) >= n

\* The topic does not get stuck as long as one puller stays, with other pullers
\* coming and going and monitors lagging.
DrainsIfPullerStays ==
    (\E c \in Of(Push) : <>[](peer[c] = "attached")) => BacklogDrains

\* "Each consumer gets a copy of a message", "Both subscriber and pipelining
\* mode are supported for a single topic": once the pullers are gone, a
\* subscriber that stays is served.
DrainsIfSubscriberStays ==
    /\ \A c \in Of(Push) : <>[](peer[c] = "off")
    /\ \E c \in Of(Pub) : <>[](peer[c] = "attached")
    => BacklogDrains
=============================================================================
