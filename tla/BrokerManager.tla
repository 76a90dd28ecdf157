--------------------------- MODULE BrokerManager ---------------------------
(***************************************************************************)
(* The admin protocol: broker_manager.h and the client library's side of   *)
(* it in lightq_api.cpp.  One thread of the broker reads requests from a   *)
(* ZMQ REP socket, one at a time, and answers each: create a topic, join   *)
(* it (the first join binds the endpoint the topic's clients will use),    *)
(* statistics.  A client sends a request on a REQ socket and blocks until  *)
(* the answer is there.                                                    *)
(*                                                                         *)
(* A request for statistics reads counters that the topic's two threads    *)
(* increment at the same time, with no lock; each read is a step.          *)
(***************************************************************************)
EXTENDS Integers, FiniteSets

CONSTANTS
    Clients,        \* client processes, each with one REQ socket
    Topics,         \* topic names
    Odd,            \* requests the library does not send, see Request
    Uint32,         \* numbers in a uint32_t (2^32)
    SlowQueue,      \* the size above which a publisher waits (10000)
    MaxCount,       \* bound: messages of one topic
    BusyPorts       \* the sets of ports that other programs may have bound

Nobody == "nobody"

ASSUME ClientsAssumption == Nobody \notin Clients
ASSUME TopicsAssumption == IsFiniteSet(Topics)
ASSUME OddAssumption == Odd \subseteq {"unknown", "empty", "oversized", "nocmd"}
ASSUME NumbersAssumption == Uint32 \in Nat \ {0} /\ SlowQueue \in Nat /\ MaxCount \in Nat
ASSUME BusyAssumption == BusyPorts \subseteq SUBSET Nat

\* auth: are the credentials those of the admin, or of the topic?
Request ==
    [cmd : {"create", "stats"}, topic : Topics, auth : BOOLEAN]
      \cup [cmd : {"join"}, topic : Topics, auth : BOOLEAN,
            side : {"pub", "sub", "pull"}, stream : {"zmq"}]
      \cup [cmd : {"join"}, topic : Topics, auth : BOOLEAN,
            side : {"pull"}, stream : {"socket"}]
      \cup [cmd : Odd \cup {"ping"}]

Ports == 1..(3 * Cardinality(Topics))
None == 0           \* no port
Nothing == [status |-> "none"]

VARIABLES
    exists,     \* the keys of brokers_
    producer,   \* of each topic: the port of its producer, if any
    consumer,   \* of each topic: the ports and the stream type of its consumer
    nextPort,   \* get_next_port's static
    bound,      \* what is bound to each port
    enqueued,   \* of each topic: total_enqueued_messages_
    dequeued,   \* of each topic: total_dequeued_messages_
    mpc,        \* phase of broker_manager::run
    rep,        \* the client the REP socket owes an answer
    stats,      \* what a statistics request has read so far
    phase,      \* of each client: what it does
    request,    \* of each client: its last request
    reply,      \* of each client: the answer to it
    refused     \* history: topics and sides whose bind failed

topicVars == <<exists, producer, consumer, nextPort, bound, refused>>
counterVars == <<enqueued, dequeued>>
managerVars == <<mpc, rep, stats>>
clientVars == <<phase, request, reply>>
adminVars == <<topicVars, counterVars, managerVars, clientVars>>

NoConsumer == [pub |-> None, push |-> None, stream |-> "none"]
NoStats == [enq |-> -1, deq |-> -1, received |-> -1, enq0 |-> 0, deq0 |-> 0]

\* Other programs may have bound some of the ports.
AdminInit ==
    /\ exists = {}
    /\ producer = [t \in Topics |-> None]
    /\ consumer = [t \in Topics |-> NoConsumer]
    /\ nextPort = 1
    /\ \E busy \in BusyPorts :
          bound = [p \in Ports |-> IF p \in busy THEN "busy" ELSE "free"]
    /\ enqueued = [t \in Topics |-> 0]
    /\ dequeued = [t \in Topics |-> 0]
    /\ mpc = "read"
    /\ rep = Nobody
    /\ stats = NoStats
    /\ phase = [c \in Clients |-> "idle"]
    /\ request = [c \in Clients |-> [cmd |-> "ping"]]
    /\ reply = [c \in Clients |-> Nothing]
    /\ refused = {}
-----------------------------------------------------------------------------
(***************************************************************************)
(* The topics' threads, as far as the manager sees them.                   *)
(***************************************************************************)

\* Do the threads of a topic run?  They are started after the bind; a stream
\* socket's is not looked at.
Produces(t) == producer[t] # None /\ <<t, "producer">> \notin refused
Consumes(t) ==
    /\ consumer[t] # NoConsumer
    /\ consumer[t].stream = "socket" \/ <<t, "consumer">> \notin refused

\* ++total_enqueued_messages_
Enqueued(t) ==
    /\ mpc # "dead"
    /\ Produces(t)
    /\ enqueued[t] < MaxCount
    /\ enqueued' = [enqueued EXCEPT ![t] = @ + 1]
    /\ UNCHANGED <<dequeued, topicVars, managerVars, clientVars>>

\* ++total_dequeued_messages_
Dequeued(t) ==
    /\ mpc # "dead"
    /\ Consumes(t)
    /\ dequeued[t] < enqueued[t]
    /\ dequeued' = [dequeued EXCEPT ![t] = @ + 1]
    /\ UNCHANGED <<enqueued, topicVars, managerVars, clientVars>>
-----------------------------------------------------------------------------
(***************************************************************************)
(* The manager's thread.                                                   *)
(***************************************************************************)

Req == request[rep]

\* A request is read.  "Received zero byte. continue": an empty one is not
\* answered.
read_msg(c) ==
    /\ mpc = "read" /\ rep = Nobody
    /\ phase[c] = "sent"
    /\ phase' = [phase EXCEPT ![c] = "wait"]
    /\ rep' = c
    /\ mpc' = IF request[c].cmd = "empty" THEN "read" ELSE "process"
    /\ UNCHANGED <<stats, request, reply, topicVars, counterVars>>

\* A REP socket that owes an answer cannot be read: read_msg returns -1, and
\* run returns.
read_msg_fails ==
    /\ mpc = "read" /\ rep # Nobody
    /\ mpc' = "returned"
    /\ UNCHANGED <<rep, stats, clientVars, topicVars, counterVars>>

\* reply_cmd, and round the loop.
Answer(answer) ==
    /\ reply' = [reply EXCEPT ![rep] = answer]
    /\ phase' = [phase EXCEPT ![rep] = "answered"]
    /\ rep' = Nobody
    /\ mpc' = "read"
    /\ stats' = NoStats
    /\ UNCHANGED request

Error == [status |-> "error"]
Success == [status |-> "ok"]

\* Mutated form of reply_invalid_cmd: only a request that parses is answered.
reply_invalid_cmd_silent ==
    /\ mpc = "process"
    /\ Req.cmd \in {"unknown", "ping"}
    /\ IF Req.cmd = "ping"
       THEN Answer(Success)
       ELSE mpc' = "read" /\ UNCHANGED <<rep, stats, clientVars>>
    /\ UNCHANGED <<topicVars, counterVars>>

\* No JSON, or a command that is none; and "ping".
reply_invalid_cmd ==
    /\ mpc = "process"
    /\ Req.cmd \in {"unknown", "ping"}
    /\ Answer(IF Req.cmd = "ping" THEN Success ELSE Error)
    /\ UNCHANGED <<topicVars, counterVars>>

\* "excceds the allowed command lenth": the request is answered, and run returns.
reply_oversized ==
    /\ mpc = "process"
    /\ Req.cmd = "oversized"
    /\ reply' = [reply EXCEPT ![rep] = Error]
    /\ phase' = [phase EXCEPT ![rep] = "answered"]
    /\ rep' = Nobody
    /\ mpc' = "returned"
    /\ UNCHANGED <<stats, request, topicVars, counterVars>>

\* get_cmd: JSON without a string "cmd" makes get<std::string>() throw.
\* run_broker catches it, unless it was asked to block: then the exception
\* leaves a thread and the process ends.
get_cmd_throws ==
    /\ mpc = "process"
    /\ Req.cmd = "nocmd"
    /\ mpc' \in {"returned", "dead"}
    /\ UNCHANGED <<rep, stats, clientVars, topicVars, counterVars>>

\* A topic that exists is an error, whoever asks.
reply_create_topic ==
    /\ mpc = "process"
    /\ Req.cmd = "create"
    /\ IF Req.topic \in exists \/ ~Req.auth
       THEN Answer(Error) /\ UNCHANGED exists
       ELSE Answer(Success) /\ exists' = exists \cup {Req.topic}
    /\ UNCHANGED <<producer, consumer, nextPort, bound, refused, counterVars>>

CanJoin == mpc = "process" /\ Req.cmd = "join" /\ Req.topic \in exists /\ Req.auth

\* The topic does not exist, or the credentials are wrong; the same for "stats".
reply_refused ==
    /\ mpc = "process"
    /\ Req.cmd \in {"join", "stats"}
    /\ Req.topic \notin exists \/ ~Req.auth
    /\ Answer(Error)
    /\ UNCHANGED <<topicVars, counterVars>>

\* The endpoint a join is told.
BindUri(t, side) ==
    CASE side = "pub" -> producer'[t]
      [] side = "sub" -> consumer'[t].pub
      [] side = "pull" -> consumer'[t].push

AnswerJoin == Answer([status |-> "ok", port |-> BindUri(Req.topic, Req.side)])

\* Mutated form of init_producer: the next endpoint gets the same port.
init_producer_same_port(t) ==
    /\ producer' = [producer EXCEPT ![t] = nextPort]
    /\ bound' = [bound EXCEPT ![nextPort] = "pull"]
    /\ AnswerJoin
    /\ UNCHANGED <<exists, consumer, nextPort, refused>>

\* init_producer: the pointer is set before init is called, and stays if the
\* bind fails.
init_producer(t) ==
    /\ producer' = [producer EXCEPT ![t] = nextPort]
    /\ nextPort' = nextPort + 1
    /\ IF bound[nextPort] = "busy"
       THEN /\ refused' = refused \cup {<<t, "producer">>}
            /\ UNCHANGED bound
            /\ Answer(Error)
       ELSE /\ bound' = [bound EXCEPT ![nextPort] = "pull"]
            /\ UNCHANGED refused
            /\ AnswerJoin
    /\ UNCHANGED <<exists, consumer>>

\* The first port is for the PUB socket, the second for the PUSH socket, which is
\* bound first, or for the stream socket, whose bind is not looked at.
init_consumer(t, stream) ==
    LET pub == nextPort
        push == nextPort + 1
        fails == <<t, "consumer">>
    IN  /\ consumer' = [consumer EXCEPT ![t] = [pub |-> pub, push |-> push, stream |-> stream]]
        /\ nextPort' = nextPort + 2
        /\ \/ /\ stream = "zmq" /\ bound[push] = "busy"
              /\ refused' = refused \cup {fails}
              /\ UNCHANGED bound
              /\ Answer(Error)
           \/ /\ stream = "zmq" /\ bound[push] = "free" /\ bound[pub] = "busy"
              /\ refused' = refused \cup {fails}
              /\ bound' = [bound EXCEPT ![push] = "push"]
              /\ Answer(Error)
           \/ /\ stream = "zmq" /\ bound[push] = "free" /\ bound[pub] = "free"
              /\ bound' = [bound EXCEPT ![push] = "push", ![pub] = "pub"]
              /\ UNCHANGED refused
              /\ AnswerJoin
           \/ /\ stream = "socket" /\ bound[push] = "busy"
              /\ refused' = refused \cup {fails}
              /\ UNCHANGED bound
              /\ AnswerJoin
           \/ /\ stream = "socket" /\ bound[push] = "free"
              /\ bound' = [bound EXCEPT ![push] = "stream"]
              /\ UNCHANGED refused
              /\ AnswerJoin
        /\ UNCHANGED <<exists, producer>>

\* Mutated form of JoinAgain: a subscriber is told the endpoint of the pullers.
JoinAgainSwapped ==
    /\ CanJoin
    /\ IF Req.side = "pub" THEN producer[Req.topic] # None
                           ELSE consumer[Req.topic] # NoConsumer
    /\ UNCHANGED <<topicVars, counterVars>>
    /\ Answer([status |-> "ok",
               port |-> BindUri(Req.topic, IF Req.side = "sub" THEN "pull" ELSE Req.side)])

\* Whoever joins first makes the endpoint; whoever joins later is told it, as it
\* was made.
JoinFirst ==
    /\ CanJoin
    /\ \/ Req.side = "pub" /\ producer[Req.topic] = None /\ init_producer(Req.topic)
       \/ /\ Req.side # "pub" /\ consumer[Req.topic] = NoConsumer
          /\ init_consumer(Req.topic, Req.stream)
    /\ UNCHANGED counterVars

JoinAgain ==
    /\ CanJoin
    /\ IF Req.side = "pub" THEN producer[Req.topic] # None
                           ELSE consumer[Req.topic] # NoConsumer
    /\ UNCHANGED <<topicVars, counterVars>>
    /\ AnswerJoin

\* reply_to_stats begins.
StartStats ==
    /\ mpc = "process"
    /\ Req.cmd = "stats" /\ Req.topic \in exists /\ Req.auth
    /\ mpc' = "size"
    /\ stats' = [stats EXCEPT !.enq0 = enqueued[Req.topic], !.deq0 = dequeued[Req.topic]]
    /\ UNCHANGED <<rep, clientVars, topicVars, counterVars>>

\* get_queue_size: the difference of two counters, read in either order.
ReadSize ==
    /\ mpc = "size"
    /\ \/ /\ stats.enq = -1
          /\ stats' = [stats EXCEPT !.enq = enqueued[Req.topic]]
          /\ mpc' = IF stats.deq = -1 THEN "size" ELSE "received"
       \/ /\ stats.deq = -1
          /\ stats' = [stats EXCEPT !.deq = dequeued[Req.topic]]
          /\ mpc' = IF stats.enq = -1 THEN "size" ELSE "received"
    /\ UNCHANGED <<rep, clientVars, topicVars, counterVars>>

\* Mutated form of ReadReceived: it waits for the number the size was made from.
ReadReceivedInStep ==
    /\ mpc = "received"
    /\ enqueued[Req.topic] = stats.enq
    /\ stats' = [stats EXCEPT !.received = enqueued[Req.topic] % Uint32]
    /\ mpc' = "sent"
    /\ UNCHANGED <<rep, clientVars, topicVars, counterVars>>

\* get_total_msg_received returns the counter as a uint32_t.
ReadReceived ==
    /\ mpc = "received"
    /\ stats' = [stats EXCEPT !.received = enqueued[Req.topic] % Uint32]
    /\ mpc' = "sent"
    /\ UNCHANGED <<rep, clientVars, topicVars, counterVars>>

\* low and high are no part of the answer: what the size can have been at any
\* time since the request was read, give or take what moved.
StatsAnswer(received, sent) ==
    [status |-> "ok",
     size |-> stats.enq - stats.deq, received |-> received, sent |-> sent,
     low |-> stats.enq0 - dequeued[Req.topic], high |-> enqueued[Req.topic] - stats.deq0]

\* Mutated form of reply_to_stats: sent is what has not been sent.
reply_to_stats_left ==
    /\ mpc = "sent"
    /\ Answer(StatsAnswer(stats.received,
                          (enqueued[Req.topic] - dequeued[Req.topic]) % Uint32))
    /\ UNCHANGED <<topicVars, counterVars>>

\* get_total_msg_sent likewise, and the answer.  The size is sent as an int64_t.
reply_to_stats ==
    /\ mpc = "sent"
    /\ Answer(StatsAnswer(stats.received, dequeued[Req.topic] % Uint32))
    /\ UNCHANGED <<topicVars, counterVars>>

Manager ==
    \/ \E c \in Clients : read_msg(c)
    \/ read_msg_fails
    \/ reply_invalid_cmd \/ reply_oversized \/ get_cmd_throws
    \/ reply_create_topic
    \/ reply_refused \/ JoinFirst \/ JoinAgain
    \/ StartStats \/ ReadSize \/ ReadReceived \/ reply_to_stats
-----------------------------------------------------------------------------
(***************************************************************************)
(* The clients.                                                            *)
(***************************************************************************)

\* A request is sent; read_msg blocks until the answer comes.
SendRequest(c) ==
    /\ phase[c] = "idle"
    /\ \E r \in Request : request' = [request EXCEPT ![c] = r]
    /\ phase' = [phase EXCEPT ![c] = "sent"]
    /\ UNCHANGED <<reply, topicVars, counterVars, managerVars>>

\* The call returns to the program that made it, with what is below.
Return(c) ==
    /\ phase[c] = "answered"
    /\ phase' = [phase EXCEPT ![c] = "idle"]
    /\ request' = [request EXCEPT ![c] = [cmd |-> "ping"]]
    /\ reply' = [reply EXCEPT ![c] = Nothing]
    /\ UNCHANGED <<topicVars, counterVars, managerVars>>

Answered(c, cmd) == phase[c] = "answered" /\ request[c].cmd = cmd

\* init_producer and init_consumer return a connection if the join was allowed and
\* connect works.  ZMQ connects to anything, a stream socket only if something
\* listens.
init_client(c) ==
    /\ Answered(c, "join")
    /\ reply[c].status = "ok"
    /\ \/ request[c].stream = "zmq"
       \/ bound[reply[c].port] # "free" /\ mpc # "dead"

\* Mutated form of publish_delay_algorithm: what counts is what was received.
publish_delay_algorithm_received(c) ==
    /\ Answered(c, "stats")
    /\ reply[c].status = "ok"
    /\ reply[c].received > SlowQueue

\* publish_delay_algorithm sleeps long if get_stats returns a size of more than
\* SlowQueue.  It is a uint64_t there, so that is the case if it was negative.
\* (The short sleep for a queue that has grown is left out.)
publish_delay_algorithm(c) ==
    /\ Answered(c, "stats")
    /\ reply[c].status = "ok"
    /\ reply[c].size > SlowQueue \/ reply[c].size < 0

AdminNext ==
    \/ Manager
    \/ \E c \in Clients : SendRequest(c) \/ Return(c)
    \/ \E t \in Topics : Enqueued(t) \/ Dequeued(t)

AdminSpec == AdminInit /\ [][AdminNext]_adminVars

\* The manager's thread runs on, and its REP socket takes requests in turn.
FairAdminSpec ==
    /\ AdminSpec
    /\ WF_adminVars(Manager)
    /\ \A c \in Clients : SF_adminVars(read_msg(c))
-----------------------------------------------------------------------------
(***************************************************************************)
(* Properties.                                                             *)
(***************************************************************************)

Ended == {"returned", "dead"}

Side(c) == IF request[c].side = "pub" THEN "producer" ELSE "consumer"

\* The type invariant: the REP socket owes an answer while a request is worked
\* on, and what is bound is what the topics name.
AdminTypeOK ==
    /\ exists \subseteq Topics
    /\ producer \in [Topics -> Ports \cup {None}]
    /\ \A t \in Topics : (consumer[t].push = None) = (consumer[t] = NoConsumer)
    /\ nextPort \in Ports \cup {1 + Cardinality(Ports)}
    /\ bound \in [Ports -> {"free", "busy", "pull", "pub", "push", "stream"}]
    /\ \A p \in Ports : p >= nextPort => bound[p] \in {"free", "busy"}
    /\ mpc \in {"read", "process", "size", "received", "sent", "returned", "dead"}
    /\ mpc \in {"process", "size", "received", "sent"} =>
          rep \in Clients /\ phase[rep] = "wait"
    /\ phase \in [Clients -> {"idle", "sent", "wait", "answered"}]
    /\ \A c \in Clients : request[c] \in Request
    /\ \A c \in Clients : phase[c] = "wait" => c = rep

\* A client that was let in is connected to the endpoint of its topic, of the
\* kind it asked for.  It is not if a bind had failed before: the broker object
\* is kept, and the next who asks is told its address.  Nor is a consumer for
\* which the topic was set up with the other kind of stream.
JoinedIsServed ==
    \A c \in Clients : init_client(c) =>
        LET r == request[c]
            port == reply[c].port
            kind == bound[port]
        IN  \/ <<r.topic, Side(c)>> \in refused
            \/ r.side = "pub" /\ port = producer[r.topic] /\ kind = "pull"
            \/ r.side = "sub" /\ port = consumer[r.topic].pub /\ kind = "pub"
            \/ /\ r.side = "pull" /\ port = consumer[r.topic].push
               /\ kind = (IF r.stream = "zmq" THEN "push" ELSE "stream")
            \/ r.side # "pub" /\ consumer[r.topic].stream # r.stream

\* The admin thread ends only over a request that the library does not send, and
\* never over one that is merely unknown.
EndsOnlyOnOdd ==
    [][mpc' \in Ended /\ mpc \notin Ended =>
          rep # Nobody /\ Req.cmd \in {"empty", "oversized", "nocmd"}]_adminVars

\* The size, and the numbers received and sent, were read at different times: they
\* agree with one another, and with the queue, up to what moved meanwhile.
StatsWithinWindow ==
    \A c \in Clients :
        Answered(c, "stats") /\ reply[c].status = "ok" =>
            LET r == reply[c]
            IN  /\ r.size \in r.low..r.high
                /\ \E n \in r.low..r.high : (r.received - r.sent - n) % Uint32 = 0

\* A publisher waits if the queue was too long all the time, and if it waits, then
\* the queue may have been too long, or messages left it while the answer was made.
\* (publish_delay_algorithm, fed by reply_to_stats.)
WaitsIfBehind ==
    \A c \in Clients : Answered(c, "stats") /\ reply[c].status = "ok" =>
        IF publish_delay_algorithm(c)
        THEN reply[c].high > SlowQueue \/ reply[c].low < 0
        ELSE reply[c].low <= SlowQueue

\* Whoever asks is answered, in whatever order they ask, as long as the admin
\* thread runs.
EveryRequestIsAnswered ==
    \A c \in Clients :
        phase[c] = "sent" ~> phase[c] = "answered" \/ mpc \in Ended
=============================================================================
