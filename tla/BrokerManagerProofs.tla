------------------------- MODULE BrokerManagerProofs -------------------------
(***************************************************************************)
(* Proofs about BrokerManager, for any clients, topics and ports taken by  *)
(* others: its type invariant; what can end the admin thread; that one who *)
(* was let in reaches the endpoint of the topic; and what the counters     *)
(* in a reply, read without a lock, tell its reader.                       *)
(***************************************************************************)
EXTENDS BrokerManager, FiniteSetTheorems, TLAPS

\* What the admin thread knows of the client whose request it has: it waits, so
\* its request stays what it was; and if the thread is back at read_msg with an
\* answer owed, the request was an empty one.
RepInv ==
    /\ phase \in [Clients -> {"idle", "sent", "wait", "answered"}]
    /\ request \in [Clients -> Request]
    /\ rep # Nobody => rep \in Clients /\ phase[rep] = "wait"
    /\ mpc \in {"process", "size", "received", "sent"} => rep # Nobody
    /\ mpc = "read" /\ rep # Nobody => Req.cmd = "empty"

\* A request without parameters is one of the requests.
LEMMA PingIsRequest == [cmd |-> "ping"] \in Request
BY DEF Request

\* Answering gives the request back.
LEMMA AnswerKeepsInv ==
    ASSUME NEW answer, RepInv, rep # Nobody, Answer(answer)
    PROVE  RepInv' /\ mpc' = "read"
BY DEF Answer, RepInv, Req

\* A request that is worked on and not finished stays with the thread.
LEMMA GoingOnKeepsInv ==
    ASSUME RepInv, UNCHANGED <<rep, clientVars>>, rep # Nobody, mpc' # "read"
    PROVE  RepInv'
BY DEF RepInv, Req, clientVars

\* The steps that answer a request.
LEMMA Answers ==
    ASSUME RepInv,
           \/ reply_invalid_cmd \/ reply_create_topic \/ reply_refused
           \/ JoinFirst \/ JoinAgain \/ reply_to_stats
    PROVE  rep # Nobody /\ \E answer : Answer(answer)
<1>1. CASE reply_invalid_cmd
  BY <1>1 DEF reply_invalid_cmd, RepInv
<1>2. CASE reply_create_topic
  BY <1>2 DEF reply_create_topic, RepInv
<1>3. CASE reply_refused
  BY <1>3 DEF reply_refused, RepInv
<1>4. CASE JoinFirst
  <2>1. rep # Nobody
    BY <1>4 DEF JoinFirst, CanJoin, RepInv
  <2>2. CASE init_producer(Req.topic)
    BY <2>1, <2>2 DEF init_producer, AnswerJoin
  <2>3. CASE init_consumer(Req.topic, Req.stream)
    BY <2>1, <2>3 DEF init_consumer, AnswerJoin
  <2> QED
    BY <1>4, <2>2, <2>3 DEF JoinFirst
<1>5. CASE JoinAgain
  BY <1>5 DEF JoinAgain, CanJoin, AnswerJoin, RepInv
<1>6. CASE reply_to_stats
  BY <1>6 DEF reply_to_stats, RepInv
<1> QED
  BY <1>1, <1>2, <1>3, <1>4, <1>5, <1>6

\* The steps of the admin thread.
LEMMA ManagerKeepsInv ==
    ASSUME RepInv, Manager
    PROVE  /\ RepInv'
           /\ mpc' \in Ended => rep # Nobody /\ Req.cmd \in {"empty", "oversized", "nocmd"}
<1>1. CASE \E c \in Clients : read_msg(c)
  <2>1. PICK c \in Clients : read_msg(c)
    BY <1>1
  <2> QED
    BY <2>1, ClientsAssumption DEF read_msg, RepInv, Req, Ended
<1>2. CASE read_msg_fails
  BY <1>2 DEF read_msg_fails, RepInv, Req, clientVars
<1>3. CASE \/ reply_invalid_cmd \/ reply_create_topic \/ reply_refused
           \/ JoinFirst \/ JoinAgain \/ reply_to_stats
  BY <1>3, Answers, AnswerKeepsInv DEF Ended
<1>4. CASE reply_oversized
  BY <1>4 DEF reply_oversized, RepInv, Req
<1>5. CASE get_cmd_throws
  BY <1>5, GoingOnKeepsInv DEF get_cmd_throws, RepInv
<1>6. CASE StartStats
  <2>1. mpc = "process" /\ mpc' = "size" /\ UNCHANGED <<rep, clientVars>>
    BY <1>6 DEF StartStats
  <2> QED
    BY <2>1, GoingOnKeepsInv DEF RepInv, Ended
<1>7. CASE ReadSize
  <2>1. mpc = "size" /\ mpc' \in {"size", "received"} /\ UNCHANGED <<rep, clientVars>>
    BY <1>7 DEF ReadSize
  <2> QED
    BY <2>1, GoingOnKeepsInv DEF RepInv, Ended
<1>8. CASE ReadReceived
  <2>1. mpc = "received" /\ mpc' = "sent" /\ UNCHANGED <<rep, clientVars>>
    BY <1>8 DEF ReadReceived
  <2> QED
    BY <2>1, GoingOnKeepsInv DEF RepInv, Ended
<1> QED
  BY <1>1, <1>2, <1>3, <1>4, <1>5, <1>6, <1>7, <1>8 DEF Manager

\* All other steps leave the admin thread and the request it works on alone.
LEMMA OthersKeepInv ==
    ASSUME RepInv,
           \/ \E c \in Clients : SendRequest(c) \/ Return(c)
           \/ \E t \in Topics : Enqueued(t) \/ Dequeued(t)
           \/ UNCHANGED adminVars
    PROVE  RepInv' /\ mpc' = mpc
<1>1. ASSUME NEW c \in Clients, SendRequest(c)
      PROVE  RepInv' /\ mpc' = mpc
  BY <1>1 DEF SendRequest, RepInv, Req, managerVars
<1>2. ASSUME NEW c \in Clients, Return(c)
      PROVE  RepInv' /\ mpc' = mpc
  BY <1>2, PingIsRequest DEF Return, RepInv, Req, managerVars
<1>3. CASE UNCHANGED <<managerVars, clientVars>>
  BY <1>3 DEF RepInv, Req, managerVars, clientVars
<1> QED
  BY <1>1, <1>2, <1>3 DEF Enqueued, Dequeued, adminVars

\* At the start there is no request and the admin thread runs.
LEMMA AdminInitInv == AdminInit => RepInv
BY PingIsRequest DEF AdminInit, RepInv

\* For any clients, topics and requests: broker_manager::run ends only over a
\* request that is empty, oversized or without a command, which the library does
\* not send, and never over another, whatever came before it.
THEOREM EndsOnlyOnOddHolds == AdminSpec => EndsOnlyOnOdd
<1>1. RepInv /\ [AdminNext]_adminVars => RepInv'
  BY ManagerKeepsInv, OthersKeepInv DEF AdminNext
<1>2. RepInv /\ [AdminNext]_adminVars =>
        [mpc' \in Ended /\ mpc \notin Ended =>
            rep # Nobody /\ Req.cmd \in {"empty", "oversized", "nocmd"}]_adminVars
  BY ManagerKeepsInv, OthersKeepInv DEF AdminNext
<1> QED
  BY <1>1, <1>2, AdminInitInv, PTL DEF AdminSpec, EndsOnlyOnOdd

-----------------------------------------------------------------------------
(***************************************************************************)
(* Topics, endpoints and ports.                                            *)
(***************************************************************************)

\* What a request is made of.
LEMMA RequestProperties ==
    ASSUME NEW r \in Request
    PROVE  /\ r.cmd \in {"create", "stats", "join"} => r.topic \in Topics
           /\ r.cmd = "join" => /\ r.side \in {"pub", "sub", "pull"}
                                /\ r.stream \in {"zmq", "socket"}
                                /\ r.side # "pull" => r.stream = "zmq"
BY OddAssumption DEF Request

\* The topics that have a producer and the ones that have a consumer.
Produced == {t \in Topics : producer[t] # None}
Consumed == {t \in Topics : consumer[t] # NoConsumer}

ConsumerSet == [pub : Ports, push : Ports, stream : {"zmq", "socket"}]
Bindings == {"free", "busy", "pull", "pub", "push", "stream"}

\* Each topic takes one port for its producer and two for its consumer, once; no
\* port is given out twice, and the ones that are given out are bound to what they
\* were given out for, or the bind was refused.
PortsInv ==
    /\ exists \subseteq Topics
    /\ producer \in [Topics -> Ports \cup {None}]
    /\ consumer \in [Topics -> ConsumerSet \cup {NoConsumer}]
    /\ bound \in [Ports -> Bindings]
    /\ nextPort = 1 + Cardinality(Produced) + 2 * Cardinality(Consumed)
    /\ \A p \in Ports : p >= nextPort => bound[p] \in {"free", "busy"}
    /\ \A t \in Produced :
          /\ producer[t] < nextPort
          /\ <<t, "producer">> \in refused \/ bound[producer[t]] = "pull"
    /\ \A t \in Consumed :
          LET c == consumer[t]
          IN  /\ c.pub < nextPort /\ c.push < nextPort
              /\ \/ <<t, "consumer">> \in refused
                 \/ c.stream = "zmq" /\ bound[c.pub] = "pub" /\ bound[c.push] = "push"
                 \/ c.stream = "socket" /\ bound[c.push] = "stream"

\* There is no topic without a number of topics.
LEMMA CountTypes ==
    /\ Cardinality(Topics) \in Nat
    /\ Cardinality(Produced) \in Nat /\ Cardinality(Produced) <= Cardinality(Topics)
    /\ Cardinality(Consumed) \in Nat /\ Cardinality(Consumed) <= Cardinality(Topics)
    /\ IsFiniteSet(Produced) /\ IsFiniteSet(Consumed)
<1>1. Produced \in SUBSET Topics /\ Consumed \in SUBSET Topics
  BY DEF Produced, Consumed
<1> QED
  BY <1>1, TopicsAssumption, FS_Subset, FS_CardinalityType

\* A topic that has no producer leaves a port for it.
LEMMA RoomForProducer ==
    ASSUME PortsInv, NEW t \in Topics, producer[t] = None
    PROVE  /\ nextPort \in Ports /\ nextPort # None
           /\ Cardinality(Produced \cup {t}) = Cardinality(Produced) + 1
<1>a. PICK n : n = Cardinality(Topics)
  OBVIOUS
<1>b. PICK p : p = Cardinality(Produced)
  OBVIOUS
<1>c. PICK q : q = Cardinality(Consumed)
  OBVIOUS
<1>1. t \notin Produced /\ Produced \cup {t} \in SUBSET Topics
  BY DEF Produced
<1>2. Cardinality(Produced \cup {t}) = p + 1
  BY <1>b, <1>1, CountTypes, FS_AddElement
<1>3. p + 1 <= n
  BY <1>a, <1>1, <1>2, TopicsAssumption, FS_Subset
<1>4. n \in Nat /\ p \in Nat /\ q \in Nat /\ q <= n
  BY <1>a, <1>b, <1>c, CountTypes
<1>5. nextPort = 1 + p + 2 * q
  BY <1>b, <1>c DEF PortsInv
<1>6. 1 + p + 2 * q \in 1..(3 * n) /\ 1 + p + 2 * q # 0
  BY <1>3, <1>4
<1> QED
  BY <1>a, <1>b, <1>2, <1>5, <1>6 DEF Ports, None

\* A topic that has no consumer leaves two.
LEMMA RoomForConsumer ==
    ASSUME PortsInv, NEW t \in Topics, consumer[t] = NoConsumer
    PROVE  /\ nextPort \in Ports /\ nextPort + 1 \in Ports /\ nextPort \in Nat \ {0}
           /\ Cardinality(Consumed \cup {t}) = Cardinality(Consumed) + 1
<1>a. PICK n : n = Cardinality(Topics)
  OBVIOUS
<1>b. PICK p : p = Cardinality(Produced)
  OBVIOUS
<1>c. PICK q : q = Cardinality(Consumed)
  OBVIOUS
<1>1. t \notin Consumed /\ Consumed \cup {t} \in SUBSET Topics
  BY DEF Consumed
<1>2. Cardinality(Consumed \cup {t}) = q + 1
  BY <1>c, <1>1, CountTypes, FS_AddElement
<1>3. q + 1 <= n
  BY <1>a, <1>1, <1>2, TopicsAssumption, FS_Subset
<1>4. n \in Nat /\ p \in Nat /\ q \in Nat /\ p <= n
  BY <1>a, <1>b, <1>c, CountTypes
<1>5. nextPort = 1 + p + 2 * q
  BY <1>b, <1>c DEF PortsInv
<1>6. /\ 1 + p + 2 * q \in 1..(3 * n) /\ 1 + p + 2 * q + 1 \in 1..(3 * n)
      /\ 1 + p + 2 * q \in Nat \ {0}
  BY <1>3, <1>4
<1> QED
  BY <1>a, <1>c, <1>2, <1>5, <1>6 DEF Ports

\* What was given out stays as it was.
TopicsKept ==
    \A t \in Topics :
        /\ producer[t] # None => producer'[t] = producer[t]
        /\ consumer[t] # NoConsumer => consumer'[t] = consumer[t]

\* A producer takes the next port.
LEMMA ProducerTakesPort ==
    ASSUME PortsInv, NEW t \in Topics, producer[t] = None, init_producer(t)
    PROVE  /\ PortsInv' /\ TopicsKept
           /\ producer'[t] # None
<1>a. PICK n : n = nextPort
  OBVIOUS
<1>1. /\ n \in Ports /\ n # None /\ n \in Int
      /\ Cardinality(Produced \cup {t}) = Cardinality(Produced) + 1
  BY <1>a, RoomForProducer DEF Ports
<1>2. /\ producer' = [producer EXCEPT ![t] = n] /\ nextPort' = n + 1
      /\ UNCHANGED <<exists, consumer>>
      /\ \/ refused' = refused \cup {<<t, "producer">>} /\ bound' = bound
         \/ refused' = refused /\ bound' = [bound EXCEPT ![n] = "pull"]
  BY <1>a DEF init_producer
<1>3. /\ producer' \in [Topics -> Ports \cup {None}] /\ producer'[t] = n
      /\ \A u \in Topics : u # t => producer'[u] = producer[u]
  BY <1>1, <1>2 DEF PortsInv
<1>4. Produced' = Produced \cup {t} /\ Consumed' = Consumed
  BY <1>1, <1>2, <1>3 DEF Produced, Consumed
<1>5. nextPort' = 1 + Cardinality(Produced') + 2 * Cardinality(Consumed')
  <2>1. nextPort = 1 + Cardinality(Produced) + 2 * Cardinality(Consumed)
    BY DEF PortsInv
  <2> QED
    BY <1>1, <1>2, <1>4, <1>a, <2>1, CountTypes
<1>6. /\ bound' \in [Ports -> Bindings]
      /\ \A p \in Ports : p # n => bound'[p] = bound[p]
      /\ <<t, "producer">> \in refused' \/ bound'[n] = "pull"
      /\ refused \subseteq refused'
  BY <1>1, <1>2 DEF PortsInv, Bindings
<1>7. \A p \in Ports : p >= nextPort' => bound'[p] \in {"free", "busy"}
  <2> SUFFICES ASSUME NEW p \in Ports, p >= nextPort' PROVE bound'[p] \in {"free", "busy"}
    OBVIOUS
  <2>1. p >= n /\ p # n
    BY <1>1, <1>2 DEF Ports
  <2> QED
    BY <1>6, <1>a, <2>1 DEF PortsInv
<1>8. \A u \in Produced' :
          /\ producer'[u] < nextPort'
          /\ <<u, "producer">> \in refused' \/ bound'[producer'[u]] = "pull"
  <2> SUFFICES ASSUME NEW u \in Produced'
               PROVE  /\ producer'[u] < nextPort'
                      /\ <<u, "producer">> \in refused' \/ bound'[producer'[u]] = "pull"
    OBVIOUS
  <2>1. CASE u = t
    BY <1>1, <1>2, <1>3, <1>6, <2>1
  <2>2. CASE u # t
    <3>1. u \in Produced /\ u \in Topics /\ producer'[u] = producer[u]
      BY <1>3, <1>4, <2>2 DEF Produced
    <3>2. /\ producer[u] \in Ports /\ producer[u] < n
          /\ <<u, "producer">> \in refused \/ bound[producer[u]] = "pull"
      BY <1>a, <3>1 DEF PortsInv, Produced
    <3>3. producer[u] # n /\ producer[u] < n + 1
      BY <1>1, <3>2 DEF Ports
    <3> QED
      BY <1>2, <1>6, <3>1, <3>2, <3>3
  <2> QED
    BY <2>1, <2>2
<1>9. \A u \in Consumed' :
          LET c == consumer'[u]
          IN  /\ c.pub < nextPort' /\ c.push < nextPort'
              /\ \/ <<u, "consumer">> \in refused'
                 \/ c.stream = "zmq" /\ bound'[c.pub] = "pub" /\ bound'[c.push] = "push"
                 \/ c.stream = "socket" /\ bound'[c.push] = "stream"
  <2> SUFFICES ASSUME NEW u \in Consumed', NEW c, c = consumer[u]
               PROVE  /\ c.pub < nextPort' /\ c.push < nextPort'
                      /\ \/ <<u, "consumer">> \in refused'
                         \/ c.stream = "zmq" /\ bound'[c.pub] = "pub" /\ bound'[c.push] = "push"
                         \/ c.stream = "socket" /\ bound'[c.push] = "stream"
    BY <1>2
  <2>1. /\ u \in Consumed /\ c.pub \in Ports /\ c.push \in Ports /\ c.pub < n /\ c.push < n
        /\ \/ <<u, "consumer">> \in refused
           \/ c.stream = "zmq" /\ bound[c.pub] = "pub" /\ bound[c.push] = "push"
           \/ c.stream = "socket" /\ bound[c.push] = "stream"
    <3>1. u \in Consumed /\ c \in ConsumerSet
      BY <1>4 DEF Consumed, PortsInv
    <3> QED
      BY <1>a, <3>1 DEF PortsInv, ConsumerSet
  <2>2. c.pub # n /\ c.push # n /\ c.pub < n + 1 /\ c.push < n + 1
    BY <1>1, <2>1 DEF Ports
  <2> QED
    BY <1>2, <1>6, <2>1, <2>2
<1>10. TopicsKept
  BY <1>2, <1>3 DEF TopicsKept
<1>11. exists' \subseteq Topics /\ consumer' \in [Topics -> ConsumerSet \cup {NoConsumer}]
  BY <1>2 DEF PortsInv
<1> QED
  BY <1>1, <1>3, <1>5, <1>6, <1>7, <1>8, <1>9, <1>10, <1>11 DEF PortsInv

\* A consumer takes the next two.
LEMMA ConsumerTakesPorts ==
    ASSUME PortsInv, NEW t \in Topics, consumer[t] = NoConsumer,
           NEW stream \in {"zmq", "socket"}, init_consumer(t, stream)
    PROVE  /\ PortsInv' /\ TopicsKept
           /\ consumer'[t] # NoConsumer
<1>a. PICK n : n = nextPort
  OBVIOUS
<1>b. PICK k : k = n + 1
  OBVIOUS
<1>c. PICK c : c = [pub |-> n, push |-> k, stream |-> stream]
  OBVIOUS
<1>1. /\ n \in Ports /\ k \in Ports /\ n \in Nat \ {0} /\ k # n /\ k \in Nat
      /\ Cardinality(Consumed \cup {t}) = Cardinality(Consumed) + 1
  BY <1>a, <1>b, RoomForConsumer
<1>2. /\ consumer' = [consumer EXCEPT ![t] = c] /\ nextPort' = n + 2
      /\ UNCHANGED <<exists, producer>>
      /\ refused \subseteq refused'
      /\ \/ <<t, "consumer">> \in refused' /\ bound' \in {bound, [bound EXCEPT ![k] = "push"]}
         \/ stream = "zmq" /\ bound' = [bound EXCEPT ![k] = "push", ![n] = "pub"]
         \/ stream = "socket" /\ bound' = [bound EXCEPT ![k] = "stream"]
  BY <1>a, <1>b, <1>c DEF init_consumer
<1>3. c \in ConsumerSet /\ c # NoConsumer
  <2>1. c \in ConsumerSet
    BY <1>1, <1>c DEF ConsumerSet
  <2>2. c.push = k /\ NoConsumer.push = 0 /\ k # 0
    BY <1>1, <1>b, <1>c DEF NoConsumer, None
  <2> QED
    BY <2>1, <2>2
<1>4. /\ consumer' \in [Topics -> ConsumerSet \cup {NoConsumer}] /\ consumer'[t] = c
      /\ \A u \in Topics : u # t => consumer'[u] = consumer[u]
  BY <1>2, <1>3 DEF PortsInv
<1>5. Consumed' = Consumed \cup {t} /\ Produced' = Produced
  BY <1>2, <1>3, <1>4 DEF Produced, Consumed
<1>6. nextPort' = 1 + Cardinality(Produced') + 2 * Cardinality(Consumed')
  <2>1. nextPort = 1 + Cardinality(Produced) + 2 * Cardinality(Consumed)
    BY DEF PortsInv
  <2> QED
    BY <1>1, <1>2, <1>5, <1>a, <2>1, CountTypes
<1>7. /\ bound' \in [Ports -> Bindings]
      /\ \A p \in Ports : p # n /\ p # k => bound'[p] = bound[p]
      /\ \/ <<t, "consumer">> \in refused'
         \/ stream = "zmq" /\ bound'[k] = "push" /\ bound'[n] = "pub"
         \/ stream = "socket" /\ bound'[k] = "stream"
  BY <1>1, <1>2 DEF PortsInv, Bindings
<1>8. \A p \in Ports : p >= nextPort' => bound'[p] \in {"free", "busy"}
  <2> SUFFICES ASSUME NEW p \in Ports, p >= nextPort' PROVE bound'[p] \in {"free", "busy"}
    OBVIOUS
  <2>1. p >= n /\ p # n /\ p # k
    BY <1>1, <1>2, <1>b DEF Ports
  <2> QED
    BY <1>7, <1>a, <2>1 DEF PortsInv
<1>9. \A u \in Produced' :
          /\ producer'[u] < nextPort'
          /\ <<u, "producer">> \in refused' \/ bound'[producer'[u]] = "pull"
  <2> SUFFICES ASSUME NEW u \in Produced', NEW p, p = producer[u]
               PROVE  /\ p < nextPort'
                      /\ <<u, "producer">> \in refused' \/ bound'[p] = "pull"
    BY <1>2
  <2>1. /\ p \in Ports /\ p < n
        /\ <<u, "producer">> \in refused \/ bound[p] = "pull"
    BY <1>5, <1>a DEF PortsInv, Produced
  <2>2. p # n /\ p # k /\ p < n + 2
    BY <1>1, <1>b, <2>1 DEF Ports
  <2> QED
    BY <1>2, <1>7, <2>1, <2>2
<1>10. ASSUME NEW u \in Consumed', NEW d, d = consumer'[u]
       PROVE  /\ d.pub < nextPort' /\ d.push < nextPort'
              /\ \/ <<u, "consumer">> \in refused'
                 \/ d.stream = "zmq" /\ bound'[d.pub] = "pub" /\ bound'[d.push] = "push"
                 \/ d.stream = "socket" /\ bound'[d.push] = "stream"
  <2>1. CASE u = t
    <3>1. d = c /\ d.pub = n /\ d.push = k /\ d.stream = stream
      BY <1>4, <1>10, <1>c, <2>1
    <3>2. d.pub < nextPort' /\ d.push < nextPort'
      BY <1>1, <1>2, <1>b, <3>1
    <3> QED
      BY <1>7, <2>1, <3>1, <3>2
  <2>2. CASE u # t
    <3>1. u \in Consumed /\ u \in Topics /\ d = consumer[u] /\ d \in ConsumerSet
      BY <1>4, <1>5, <1>10, <2>2 DEF Consumed, PortsInv
    <3>2. /\ d.pub \in Ports /\ d.push \in Ports /\ d.pub < n /\ d.push < n
          /\ \/ <<u, "consumer">> \in refused
             \/ d.stream = "zmq" /\ bound[d.pub] = "pub" /\ bound[d.push] = "push"
             \/ d.stream = "socket" /\ bound[d.push] = "stream"
      BY <1>a, <3>1 DEF PortsInv, ConsumerSet
    <3>3. /\ d.pub # n /\ d.push # n /\ d.pub # k /\ d.push # k
          /\ d.pub < n + 2 /\ d.push < n + 2
      BY <1>1, <1>b, <3>2 DEF Ports
    <3> QED
      BY <1>2, <1>7, <3>2, <3>3
  <2> QED
    BY <2>1, <2>2
<1>11. TopicsKept
  BY <1>2, <1>4 DEF TopicsKept
<1>12. exists' \subseteq Topics /\ producer' \in [Topics -> Ports \cup {None}]
  BY <1>2 DEF PortsInv
<1> QED
  BY <1>3, <1>4, <1>6, <1>7, <1>8, <1>9, <1>10, <1>11, <1>12 DEF PortsInv

\* The steps that leave the topics alone.
LEMMA TopicsAlone ==
    ASSUME PortsInv, UNCHANGED topicVars
    PROVE  PortsInv' /\ TopicsKept
BY DEF PortsInv, TopicsKept, topicVars, Produced, Consumed

\* Every step keeps the ports in order, and what has been given out.
LEMMA StepPorts ==
    ASSUME RepInv, PortsInv, [AdminNext]_adminVars
    PROVE  PortsInv' /\ TopicsKept
<1>1. CASE UNCHANGED topicVars
  BY <1>1, TopicsAlone
<1>2. CASE reply_create_topic
  <2>1. /\ UNCHANGED <<producer, consumer, nextPort, bound, refused>>
        /\ exists' = exists \/ exists' = exists \cup {Req.topic}
        /\ Req.cmd = "create" /\ Req \in Request
    BY <1>2 DEF reply_create_topic, RepInv, Req
  <2>2. exists' \subseteq Topics
    BY <2>1, RequestProperties DEF PortsInv
  <2> QED
    BY <2>1, <2>2 DEF PortsInv, TopicsKept, Produced, Consumed
<1>3. CASE JoinFirst
  <2>a. PICK t : t = Req.topic
    OBVIOUS
  <2>b. PICK s : s = Req.stream
    OBVIOUS
  <2>1. Req.cmd = "join" /\ Req \in Request
    BY <1>3 DEF JoinFirst, CanJoin, RepInv, Req
  <2>2. t \in Topics /\ s \in {"zmq", "socket"}
    BY <2>1, <2>a, <2>b, RequestProperties
  <2>3. \/ producer[t] = None /\ init_producer(t)
        \/ consumer[t] = NoConsumer /\ init_consumer(t, s)
    BY <1>3, <2>a, <2>b DEF JoinFirst
  <2> QED
    BY <2>2, <2>3, ProducerTakesPort, ConsumerTakesPorts
<1> QED
  BY <1>1, <1>2, <1>3
     DEF AdminNext, Manager, read_msg, read_msg_fails, reply_invalid_cmd, reply_oversized,
         get_cmd_throws, reply_refused, JoinAgain, StartStats, ReadSize, ReadReceived,
         reply_to_stats, SendRequest, Return, Enqueued, Dequeued, adminVars

\* At the start no port has been given out.
LEMMA AdminInitPorts == AdminInit => PortsInv
<1> SUFFICES ASSUME AdminInit PROVE PortsInv
  OBVIOUS
<1>1. Produced = {} /\ Consumed = {} /\ nextPort = 1
  BY DEF AdminInit, Produced, Consumed
<1>2. nextPort = 1 + Cardinality(Produced) + 2 * Cardinality(Consumed)
  BY <1>1, FS_EmptySet
<1>3. bound \in [Ports -> {"free", "busy"}]
  BY DEF AdminInit
<1> QED
  BY <1>1, <1>2, <1>3 DEF AdminInit, PortsInv, Bindings

\* Type correctness, with the number of the ports: however many topics are created
\* and joined, each join has a port of its own (broker_manager.h: get_next_port,
\* init_producer, init_consumer), and the REP socket owes an answer exactly to the
\* client that waits for one.
THEOREM AdminTypeCorrect == AdminSpec => []AdminTypeOK
<1> DEFINE WaitInv == /\ \A c \in Clients : phase[c] = "wait" => c = rep
                      /\ mpc \in {"read", "process", "size", "received", "sent",
                                  "returned", "dead"}
<1>1. AdminInit => WaitInv
  BY DEF AdminInit
<1>2. RepInv /\ WaitInv /\ [AdminNext]_adminVars => WaitInv'
  <2> SUFFICES ASSUME RepInv, WaitInv, [AdminNext]_adminVars PROVE WaitInv'
    OBVIOUS
  <2>1. ASSUME NEW c \in Clients, read_msg(c) PROVE WaitInv'
    BY <2>1, ClientsAssumption DEF read_msg, RepInv
  <2>2. CASE \/ reply_invalid_cmd \/ reply_create_topic \/ reply_refused
             \/ JoinFirst \/ JoinAgain \/ reply_to_stats
    <3>1. PICK answer : rep # Nobody /\ Answer(answer)
      BY <2>2, Answers
    <3> QED
      BY <3>1 DEF Answer, RepInv
  <2>3. CASE reply_oversized
    BY <2>3 DEF reply_oversized, RepInv
  <2>4. CASE \/ read_msg_fails \/ get_cmd_throws \/ StartStats \/ ReadSize \/ ReadReceived
             \/ UNCHANGED adminVars
             \/ \E t \in Topics : Enqueued(t) \/ Dequeued(t)
    BY <2>4 DEF read_msg_fails, get_cmd_throws, StartStats, ReadSize, ReadReceived, adminVars,
                clientVars, managerVars, Enqueued, Dequeued
  <2>5. ASSUME NEW c \in Clients, SendRequest(c) \/ Return(c) PROVE WaitInv'
    BY <2>5 DEF SendRequest, Return, managerVars, RepInv
  <2> QED
    BY <2>1, <2>2, <2>3, <2>4, <2>5 DEF AdminNext, Manager
<1>3. RepInv /\ [AdminNext]_adminVars => RepInv'
  BY ManagerKeepsInv, OthersKeepInv DEF AdminNext
<1>4. RepInv /\ PortsInv /\ WaitInv => AdminTypeOK
  <2> SUFFICES ASSUME RepInv, PortsInv, WaitInv PROVE AdminTypeOK
    OBVIOUS
  <2>1. \A t \in Topics : (consumer[t].push = None) = (consumer[t] = NoConsumer)
    <3> SUFFICES ASSUME NEW t \in Topics
                 PROVE  (consumer[t].push = None) = (consumer[t] = NoConsumer)
      OBVIOUS
    <3>1. CASE consumer[t] = NoConsumer
      BY <3>1 DEF NoConsumer
    <3>2. CASE consumer[t] # NoConsumer
      <4>1. consumer[t].push \in Ports
        BY <3>2 DEF PortsInv, ConsumerSet
      <4> QED
        BY <3>2, <4>1 DEF Ports, None
    <3> QED
      BY <3>1, <3>2
  <2>2. nextPort \in Ports \cup {1 + Cardinality(Ports)}
    <3>a. PICK n : n = Cardinality(Topics)
      OBVIOUS
    <3>b. PICK p : p = Cardinality(Produced)
      OBVIOUS
    <3>c. PICK q : q = Cardinality(Consumed)
      OBVIOUS
    <3>1. n \in Nat /\ p \in Nat /\ q \in Nat /\ p <= n /\ q <= n /\ nextPort = 1 + p + 2 * q
      BY <3>a, <3>b, <3>c, CountTypes DEF PortsInv
    <3>d. PICK m : m = 3 * n
      OBVIOUS
    <3>2. Ports = 1..m /\ m \in Nat
      BY <3>1, <3>a, <3>d DEF Ports
    <3>3. Cardinality(Ports) = m
      <4>1. Cardinality(1..m) = IF 1 > m THEN 0 ELSE m - 1 + 1
        BY <3>2, FS_Interval
      <4> QED
        BY <3>2, <4>1
    <3>4. 1 + p + 2 * q \in 1..(m + 1)
      BY <3>1, <3>d
    <3> QED
      BY <3>1, <3>2, <3>3, <3>4
  <2>3. mpc \in {"process", "size", "received", "sent"} => rep \in Clients /\ phase[rep] = "wait"
    BY DEF RepInv
  <2> QED
    BY <2>1, <2>2, <2>3 DEF AdminTypeOK, RepInv, PortsInv, Bindings
<1> HIDE DEF WaitInv
<1> QED
  BY <1>1, <1>2, <1>3, <1>4, AdminInitInv, AdminInitPorts, StepPorts, PTL DEF AdminSpec

-----------------------------------------------------------------------------
(***************************************************************************)
(* Answers.                                                                *)
(***************************************************************************)

\* What a client was told about its join is what its topic names.
GoodJoin(r, answer) ==
    r.cmd = "join" /\ answer.status = "ok" =>
        /\ r.side = "pub" =>
              producer[r.topic] # None /\ answer.port = producer[r.topic]
        /\ r.side = "sub" =>
              consumer[r.topic] # NoConsumer /\ answer.port = consumer[r.topic].pub
        /\ r.side = "pull" =>
              consumer[r.topic] # NoConsumer /\ answer.port = consumer[r.topic].push

JoinsInv == \A c \in Clients : phase[c] = "answered" => GoodJoin(request[c], reply[c])

\* A statistics request is worked on in the phases of its own; what it has read
\* lies between what the counters were when it began and what they are now.
StatsSet == [enq : Int, deq : Int, received : Int, enq0 : Nat, deq0 : Nat]
Reads(n, low, high) == n = -1 \/ n \in low..high

StatsInv ==
    /\ enqueued \in [Topics -> Nat] /\ dequeued \in [Topics -> Nat]
    /\ stats \in StatsSet
    /\ mpc \in {"read", "process"} => stats.enq = -1 /\ stats.deq = -1
    /\ mpc \in {"size", "received", "sent"} =>
          LET t == Req.topic
          IN  /\ Req.cmd = "stats" /\ t \in Topics
              /\ stats.enq0 <= enqueued[t] /\ stats.deq0 <= dequeued[t]
              /\ Reads(stats.enq, stats.enq0, enqueued[t])
              /\ Reads(stats.deq, stats.deq0, dequeued[t])
    /\ mpc \in {"received", "sent"} => stats.enq # -1 /\ stats.deq # -1
    /\ mpc = "sent" =>
          \E x \in stats.enq0..enqueued[Req.topic] : stats.received = x % Uint32

\* An answer with statistics is within its window.
GoodStats(r, answer) ==
    r.cmd = "stats" /\ answer.status = "ok" =>
        /\ answer.size \in Int /\ answer.low \in Int /\ answer.high \in Int
        /\ answer.size \in answer.low..answer.high
        /\ \E n \in answer.low..answer.high : (answer.received - answer.sent - n) % Uint32 = 0

StatsRepliesInv == \A c \in Clients : phase[c] = "answered" => GoodStats(request[c], reply[c])

\* The answers are somewhere, whatever they are.
RepliesFit == \E R : reply \in [Clients -> R]

\* Giving one answer leaves the other clients' alone.
LEMMA AnswerEffect ==
    ASSUME RepInv, RepliesFit, NEW answer, rep # Nobody, Answer(answer)
    PROVE  /\ RepliesFit' /\ UNCHANGED request
           /\ rep \in Clients /\ reply'[rep] = answer
           /\ \A c \in Clients : c # rep => reply'[c] = reply[c] /\ phase'[c] = phase[c]
<1>1. PICK R : reply \in [Clients -> R]
  BY DEF RepliesFit
<1>2. rep \in Clients /\ reply' = [reply EXCEPT ![rep] = answer]
  BY DEF RepInv, Answer
<1>3. reply' \in [Clients -> R \cup {answer}]
  BY <1>1, <1>2
<1>4. RepliesFit'
  BY <1>3 DEF RepliesFit
<1> QED
  BY <1>1, <1>2, <1>4 DEF Answer, RepInv

\* A topic's endpoint stays, and so does what was said about it.
LEMMA JoinKept ==
    ASSUME TopicsKept, NEW r \in Request, NEW answer, GoodJoin(r, answer)
    PROVE  GoodJoin(r, answer)'
<1> SUFFICES ASSUME r.cmd = "join", answer.status = "ok" PROVE GoodJoin(r, answer)'
  BY DEF GoodJoin
<1>1. r.topic \in Topics
  BY RequestProperties
<1> QED
  BY <1>1 DEF GoodJoin, TopicsKept

\* An answer is right if the one that is given now is.
LEMMA AnswerKeepsReplies ==
    ASSUME RepInv, RepliesFit, JoinsInv, StatsRepliesInv, TopicsKept,
           NEW answer, rep # Nobody, Answer(answer),
           NEW r, r = Req, GoodJoin(r, answer)', GoodStats(r, answer)
    PROVE  RepliesFit' /\ JoinsInv' /\ StatsRepliesInv'
<1>1. /\ RepliesFit' /\ UNCHANGED request
      /\ rep \in Clients /\ reply'[rep] = answer
      /\ \A c \in Clients : c # rep => reply'[c] = reply[c] /\ phase'[c] = phase[c]
  BY AnswerEffect
<1>2. ASSUME NEW c \in Clients, phase'[c] = "answered",
             NEW q, q = request[c], NEW a, a = reply'[c]
      PROVE  GoodJoin(q, a)' /\ GoodStats(q, a)
  <2>1. CASE c = rep
    BY <1>1, <1>2, <2>1 DEF Req
  <2>2. CASE c # rep
    <3>1. phase[c] = "answered" /\ a = reply[c] /\ q \in Request
      BY <1>1, <1>2, <2>2 DEF RepInv
    <3>2. GoodJoin(q, a) /\ GoodStats(q, a)
      BY <1>2, <3>1 DEF JoinsInv, StatsRepliesInv
    <3> QED
      BY <3>1, <3>2, JoinKept
  <2> QED
    BY <2>1, <2>2
<1>3. JoinsInv'
  <2> SUFFICES ASSUME NEW c \in Clients, phase'[c] = "answered"
               PROVE  GoodJoin(request[c], reply[c])'
    BY DEF JoinsInv
  <2>1. PICK q : q = request[c]
    OBVIOUS
  <2>2. PICK a : a = reply'[c]
    OBVIOUS
  <2>3. GoodJoin(q, a)' /\ request'[c] = q
    BY <1>1, <1>2, <2>1, <2>2
  <2> QED
    BY <2>2, <2>3 DEF GoodJoin
<1>4. StatsRepliesInv'
  <2> SUFFICES ASSUME NEW c \in Clients, phase'[c] = "answered"
               PROVE  GoodStats(request'[c], reply'[c])
    BY DEF StatsRepliesInv
  <2> QED
    BY <1>1, <1>2
<1> QED
  BY <1>1, <1>3, <1>4

\* The steps that answer nobody.
LEMMA NoAnswerKeepsReplies ==
    ASSUME RepInv, RepliesFit, JoinsInv, StatsRepliesInv, TopicsKept,
           RepliesFit',
           \A c \in Clients : phase'[c] = "answered" =>
              phase[c] = "answered" /\ reply'[c] = reply[c] /\ request'[c] = request[c]
    PROVE  JoinsInv' /\ StatsRepliesInv'
<1>1. ASSUME NEW c \in Clients, phase'[c] = "answered"
      PROVE  GoodJoin(request[c], reply[c])' /\ GoodStats(request'[c], reply'[c])
  <2>1. PICK q : q = request[c]
    OBVIOUS
  <2>2. PICK a : a = reply[c]
    OBVIOUS
  <2>3. GoodJoin(q, a) /\ GoodStats(q, a) /\ q \in Request
    BY <1>1, <2>1, <2>2 DEF JoinsInv, StatsRepliesInv, RepInv
  <2>4. GoodJoin(q, a)' /\ request'[c] = q /\ reply'[c] = a
    BY <1>1, <2>1, <2>2, <2>3, JoinKept
  <2>5. GoodJoin(request[c], reply[c])'
    BY <2>4 DEF GoodJoin
  <2> QED
    BY <2>3, <2>4, <2>5
<1> QED
  BY <1>1 DEF JoinsInv, StatsRepliesInv

\* Numbers that agree agree as uint32_t as well.
LEMMA Congruent ==
    ASSUME NEW x \in Nat, NEW y \in Nat
    PROVE  ((x % Uint32) - (y % Uint32) - (x - y)) % Uint32 = 0
<1>a. PICK u \in Nat \ {0} : u = Uint32
  BY NumbersAssumption
<1>1. PICK p \in Nat : x = u * p + (x % u)
  <2>1. x \div u \in Nat /\ x = u * (x \div u) + (x % u)
    OBVIOUS
  <2> QED
    BY <2>1
<1>2. PICK q \in Nat : y = u * q + (y % u)
  <2>1. y \div u \in Nat /\ y = u * (y \div u) + (y % u)
    OBVIOUS
  <2> QED
    BY <2>1
<1>3. x % u \in Nat /\ y % u \in Nat
  OBVIOUS
<1>b. PICK a \in Int : a = u * p
  OBVIOUS
<1>c. PICK b \in Int : b = u * q
  OBVIOUS
<1>4. (x % u) - (y % u) - (x - y) = b - a
  <2>1. PICK m \in Nat : m = x % u
    BY <1>3
  <2>2. PICK n \in Nat : n = y % u
    BY <1>3
  <2>3. x = a + m /\ y = b + n
    BY <1>1, <1>2, <1>b, <1>c, <2>1, <2>2
  <2>4. m - n - (x - y) = b - a
    BY <2>3
  <2> QED
    BY <2>1, <2>2, <2>4
<1>5. b - a = u * (q - p) /\ q - p \in Int
  BY <1>b, <1>c
<1>6. ASSUME NEW k \in Int PROVE (u * k) % u = 0
  OBVIOUS
<1>7. (b - a) % u = 0
  BY <1>5, <1>6
<1> QED
  BY <1>a, <1>4, <1>7

\* The answers to joins.
LEMMA JoinAnswers ==
    ASSUME RepInv, PortsInv, TopicsKept, JoinFirst \/ JoinAgain
    PROVE  \E answer : /\ Answer(answer)
                       /\ \A r : r = Req => GoodJoin(r, answer)' /\ GoodStats(r, answer)
<1>a. PICK r : r = Req
  OBVIOUS
<1>b. PICK t : t = r.topic
  OBVIOUS
<1>1. /\ r \in Request /\ r.cmd = "join" /\ t \in Topics
      /\ r.side \in {"pub", "sub", "pull"} /\ r.stream \in {"zmq", "socket"}
      /\ rep # Nobody
  <2>1. r \in Request /\ r.cmd = "join" /\ rep # Nobody
    BY <1>a DEF JoinFirst, JoinAgain, CanJoin, RepInv, Req
  <2> QED
    BY <1>b, <2>1, RequestProperties
<1>2. IF r.side = "pub" THEN producer'[t] # None ELSE consumer'[t] # NoConsumer
  <2>1. CASE JoinFirst
    <3>1. \/ r.side = "pub" /\ producer[t] = None /\ init_producer(t)
          \/ r.side # "pub" /\ consumer[t] = NoConsumer /\ init_consumer(t, r.stream)
      BY <1>a, <1>b, <2>1 DEF JoinFirst
    <3> QED
      BY <1>1, <3>1, ProducerTakesPort, ConsumerTakesPorts
  <2>2. CASE JoinAgain
    <3>1. /\ IF r.side = "pub" THEN producer[t] # None ELSE consumer[t] # NoConsumer
      BY <1>a, <1>b, <2>2 DEF JoinAgain
    <3> QED
      BY <1>1, <3>1 DEF TopicsKept
  <2> QED
    BY <2>1, <2>2
<1>3. PICK port : port = BindUri(t, r.side)
  OBVIOUS
<1>4. PICK answer : /\ Answer(answer)
                    /\ answer \in {Error, [status |-> "ok", port |-> port]}
  BY <1>a, <1>b, <1>3
     DEF JoinFirst, JoinAgain, init_producer, init_consumer, AnswerJoin
<1>5. GoodStats(r, answer)
  BY <1>1 DEF GoodStats
<1>6. GoodJoin(r, answer)'
  <2>1. CASE answer = Error
    BY <2>1 DEF GoodJoin, Error
  <2>2. CASE answer = [status |-> "ok", port |-> port]
    <3>1. /\ r.side = "pub" => port = producer'[t]
          /\ r.side = "sub" => port = consumer'[t].pub
          /\ r.side = "pull" => port = consumer'[t].push
      BY <1>1, <1>3 DEF BindUri
    <3>2. answer.port = port
      BY <2>2
    <3> QED
      BY <1>1, <1>2, <1>b, <3>1, <3>2 DEF GoodJoin
  <2> QED
    BY <1>4, <2>1, <2>2
<1> QED
  BY <1>4, <1>5, <1>6, <1>a

\* The answer to a request for statistics: the numbers it is made from were read
\* one after the other, while both counters went up.
LEMMA StatsAnswers ==
    ASSUME RepInv, StatsInv, reply_to_stats
    PROVE  \E answer : /\ Answer(answer)
                       /\ \A r : r = Req => GoodJoin(r, answer)' /\ GoodStats(r, answer)
<1>a. PICK r : r = Req
  OBVIOUS
<1>b. PICK t : t = r.topic
  OBVIOUS
<1>e. PICK e : e = enqueued[t]
  OBVIOUS
<1>d. PICK d : d = dequeued[t]
  OBVIOUS
<1>1. /\ r.cmd = "stats" /\ e \in Nat /\ d \in Nat
      /\ stats.enq0 \in Nat /\ stats.deq0 \in Nat
      /\ stats.deq0 <= d
      /\ stats.enq \in stats.enq0..e /\ stats.deq \in stats.deq0..d
      /\ mpc = "sent"
  BY <1>a, <1>b, <1>e, <1>d DEF reply_to_stats, StatsInv, StatsSet, Reads
<1>2. PICK x \in stats.enq0..e : stats.received = x % Uint32
  BY <1>1, <1>a, <1>b, <1>e DEF StatsInv
<1>3. PICK answer : answer = [status |-> "ok", size |-> stats.enq - stats.deq,
                              received |-> stats.received, sent |-> d % Uint32,
                              low |-> stats.enq0 - d, high |-> e - stats.deq0]
  OBVIOUS
<1>4. Answer(answer)
  BY <1>a, <1>b, <1>d, <1>e, <1>3 DEF reply_to_stats, StatsAnswer
<1>5. GoodJoin(r, answer)'
  BY <1>1 DEF GoodJoin
<1>6. GoodStats(r, answer)
  <2>1. /\ answer.size = stats.enq - stats.deq /\ answer.low = stats.enq0 - d
        /\ answer.high = e - stats.deq0
        /\ answer.received = x % Uint32 /\ answer.sent = d % Uint32
    BY <1>2, <1>3
  <2>2. /\ answer.size \in Int /\ answer.low \in Int /\ answer.high \in Int
        /\ answer.size \in answer.low..answer.high
    BY <1>1, <2>1
  <2>3. x - d \in answer.low..answer.high /\ x \in Nat
    BY <1>1, <1>2, <2>1
  <2>4. (answer.received - answer.sent - (x - d)) % Uint32 = 0
    BY <1>1, <2>1, <2>3, Congruent
  <2> QED
    BY <2>2, <2>3, <2>4 DEF GoodStats
<1> QED
  BY <1>4, <1>5, <1>6, <1>a

\* Statistics are gathered while the counters go up.
LEMMA StepStats ==
    ASSUME RepInv, StatsInv, [AdminNext]_adminVars
    PROVE  StatsInv'
<1> USE DEF StatsInv, Reads
<1>1. CASE UNCHANGED adminVars
  BY <1>1 DEF adminVars, counterVars, managerVars, clientVars, Req
<1>2. ASSUME NEW t \in Topics, Enqueued(t)
      PROVE  StatsInv'
  <2>1. /\ enqueued' = [enqueued EXCEPT ![t] = @ + 1]
        /\ UNCHANGED <<dequeued, mpc, rep, stats, phase, request>>
    BY <1>2 DEF Enqueued, managerVars, clientVars
  <2>2. enqueued' \in [Topics -> Nat] /\ \A u \in Topics : enqueued[u] <= enqueued'[u]
    BY <2>1
  <2>3. /\ stats.enq0 \in Nat /\ \A u \in Topics : enqueued[u] \in Nat /\ enqueued'[u] \in Nat
    BY <2>2 DEF StatsSet
  <2>4. \A u \in Topics : stats.enq0..enqueued[u] \subseteq stats.enq0..enqueued'[u]
    BY <2>2, <2>3
  <2>5. Req' = Req
    BY <2>1 DEF Req
  <2>6. mpc \in {"size", "received", "sent"} => Req.topic \in Topics
    OBVIOUS
  <2>7. mpc \in {"size", "received", "sent"} =>
           /\ stats.enq0 <= enqueued'[Req.topic]
           /\ Reads(stats.enq, stats.enq0, enqueued'[Req.topic])
    BY <2>2, <2>3, <2>4, <2>6
  <2> QED
    BY <2>1, <2>2, <2>4, <2>5, <2>6, <2>7
<1>3. ASSUME NEW t \in Topics, Dequeued(t)
      PROVE  StatsInv'
  <2>1. /\ dequeued' = [dequeued EXCEPT ![t] = @ + 1]
        /\ UNCHANGED <<enqueued, mpc, rep, stats, phase, request>>
    BY <1>3 DEF Dequeued, managerVars, clientVars
  <2>2. dequeued' \in [Topics -> Nat] /\ \A u \in Topics : dequeued[u] <= dequeued'[u]
    BY <2>1
  <2>3. /\ stats.deq0 \in Nat /\ \A u \in Topics : dequeued[u] \in Nat /\ dequeued'[u] \in Nat
    BY <2>2 DEF StatsSet
  <2>4. \A u \in Topics : stats.deq0..dequeued[u] \subseteq stats.deq0..dequeued'[u]
    BY <2>2, <2>3
  <2>5. Req' = Req
    BY <2>1 DEF Req
  <2>6. mpc \in {"size", "received", "sent"} => Req.topic \in Topics
    OBVIOUS
  <2>7. mpc \in {"size", "received", "sent"} =>
           /\ stats.deq0 <= dequeued'[Req.topic]
           /\ Reads(stats.deq, stats.deq0, dequeued'[Req.topic])
    BY <2>2, <2>3, <2>4, <2>6
  <2> QED
    BY <2>1, <2>2, <2>4, <2>5, <2>6, <2>7
<1>4. ASSUME NEW c \in Clients, SendRequest(c) \/ Return(c)
      PROVE  StatsInv'
  <2>1. /\ UNCHANGED <<enqueued, dequeued, mpc, rep, stats>>
        /\ \A b \in Clients : b # c => request'[b] = request[b]
        /\ phase[c] \in {"idle", "answered"}
    BY <1>4 DEF SendRequest, Return, counterVars, managerVars, RepInv
  <2>2. mpc \in {"size", "received", "sent"} => Req' = Req
    BY <2>1 DEF RepInv, Req
  <2> QED
    BY <2>1, <2>2
<1>5. ASSUME NEW c \in Clients, read_msg(c)
      PROVE  StatsInv'
  <2>1. /\ UNCHANGED <<enqueued, dequeued, stats>> /\ mpc = "read" /\ mpc' \in {"read", "process"}
    BY <1>5 DEF read_msg, counterVars
  <2> QED
    BY <2>1
<1>6. CASE read_msg_fails \/ get_cmd_throws \/ reply_oversized
  <2>1. /\ UNCHANGED <<enqueued, dequeued, stats>> /\ mpc' \in {"returned", "dead"}
    BY <1>6 DEF read_msg_fails, get_cmd_throws, reply_oversized, counterVars
  <2> QED
    BY <2>1
<1>7. CASE \/ reply_invalid_cmd \/ reply_create_topic \/ reply_refused
           \/ JoinFirst \/ JoinAgain \/ reply_to_stats
  <2>1. PICK answer : rep # Nobody /\ Answer(answer)
    BY <1>7, Answers
  <2>2. mpc' = "read" /\ stats' = NoStats
    BY <2>1 DEF Answer
  <2>3. UNCHANGED <<enqueued, dequeued>>
    BY <1>7 DEF reply_invalid_cmd, reply_create_topic, reply_refused, JoinFirst, JoinAgain,
                reply_to_stats, counterVars
  <2>4. NoStats \in StatsSet /\ NoStats.enq = -1 /\ NoStats.deq = -1
    BY DEF NoStats, StatsSet
  <2> QED
    BY <2>2, <2>3, <2>4
<1>8. CASE StartStats
  <2>1. /\ mpc = "process" /\ mpc' = "size" /\ UNCHANGED <<enqueued, dequeued, rep, request>>
        /\ stats' = [stats EXCEPT !.enq0 = enqueued[Req.topic], !.deq0 = dequeued[Req.topic]]
        /\ Req.cmd = "stats" /\ Req \in Request
    BY <1>8 DEF StartStats, counterVars, clientVars, RepInv, Req
  <2>2. Req.topic \in Topics /\ Req' = Req
    BY <2>1, RequestProperties DEF Req
  <2>3. enqueued[Req.topic] \in Nat /\ dequeued[Req.topic] \in Nat
    BY <2>2
  <2>4. /\ stats' \in StatsSet /\ stats'.enq = -1 /\ stats'.deq = -1
        /\ stats'.enq0 = enqueued[Req.topic] /\ stats'.deq0 = dequeued[Req.topic]
    BY <2>1, <2>3 DEF StatsSet
  <2> QED
    BY <2>1, <2>2, <2>3, <2>4
<1>9. CASE ReadSize
  <2>1. /\ mpc = "size" /\ UNCHANGED <<enqueued, dequeued, rep, request>> /\ Req' = Req
        /\ \/ /\ stats' = [stats EXCEPT !.enq = enqueued[Req.topic]]
              /\ mpc' = IF stats.deq = -1 THEN "size" ELSE "received"
           \/ /\ stats' = [stats EXCEPT !.deq = dequeued[Req.topic]]
              /\ mpc' = IF stats.enq = -1 THEN "size" ELSE "received"
    BY <1>9 DEF ReadSize, counterVars, clientVars, Req
  <2>2. /\ Req.topic \in Topics /\ enqueued[Req.topic] \in Nat /\ dequeued[Req.topic] \in Nat
        /\ stats \in StatsSet /\ stats.enq0 \in Nat /\ stats.deq0 \in Nat
    BY <2>1 DEF StatsSet
  <2>3. CASE /\ stats' = [stats EXCEPT !.enq = enqueued[Req.topic]]
             /\ mpc' = IF stats.deq = -1 THEN "size" ELSE "received"
    <3>1. /\ stats' \in StatsSet /\ stats'.enq = enqueued[Req.topic] /\ stats'.deq = stats.deq
          /\ stats'.enq0 = stats.enq0 /\ stats'.deq0 = stats.deq0
      BY <2>2, <2>3 DEF StatsSet
    <3> QED
      BY <2>1, <2>2, <2>3, <3>1
  <2>4. CASE /\ stats' = [stats EXCEPT !.deq = dequeued[Req.topic]]
             /\ mpc' = IF stats.enq = -1 THEN "size" ELSE "received"
    <3>1. /\ stats' \in StatsSet /\ stats'.deq = dequeued[Req.topic] /\ stats'.enq = stats.enq
          /\ stats'.enq0 = stats.enq0 /\ stats'.deq0 = stats.deq0
      BY <2>2, <2>4 DEF StatsSet
    <3> QED
      BY <2>1, <2>2, <2>4, <3>1
  <2> QED
    BY <2>1, <2>3, <2>4
<1>10. CASE ReadReceived
  <2>1. /\ mpc = "received" /\ mpc' = "sent" /\ UNCHANGED <<enqueued, dequeued, rep, request>>
        /\ Req' = Req
        /\ stats' = [stats EXCEPT !.received = enqueued[Req.topic] % Uint32]
    BY <1>10 DEF ReadReceived, counterVars, clientVars, Req
  <2>2. /\ Req.topic \in Topics /\ enqueued[Req.topic] \in Nat
        /\ stats \in StatsSet /\ stats.enq0 \in Nat
    BY <2>1 DEF StatsSet
  <2>3. enqueued[Req.topic] % Uint32 \in Int
    BY <2>2, NumbersAssumption
  <2>4. /\ stats' \in StatsSet /\ stats'.deq = stats.deq /\ stats'.enq = stats.enq
        /\ stats'.enq0 = stats.enq0 /\ stats'.deq0 = stats.deq0
        /\ stats'.received = enqueued[Req.topic] % Uint32
    BY <2>1, <2>2, <2>3 DEF StatsSet
  <2>5. enqueued[Req.topic] \in stats.enq0..enqueued[Req.topic]
    BY <2>1, <2>2
  <2> QED
    BY <2>1, <2>2, <2>4, <2>5
<1> QED
  BY <1>1, <1>2, <1>3, <1>4, <1>5, <1>6, <1>7, <1>8, <1>9, <1>10 DEF AdminNext, Manager

\* All that the theorems below need.
RepliesInv == RepliesFit /\ JoinsInv /\ StatsRepliesInv
AdminInv == RepInv /\ PortsInv /\ StatsInv /\ RepliesInv

\* Every answer is right when it is given, and stays so.
LEMMA StepReplies ==
    ASSUME AdminInv, [AdminNext]_adminVars
    PROVE  RepliesInv'
<1> USE DEF AdminInv, RepliesInv
<1>1. TopicsKept
  BY StepPorts
<1>2. ASSUME NEW answer, rep # Nobody, Answer(answer),
             \A r : r = Req => GoodJoin(r, answer)' /\ GoodStats(r, answer)
      PROVE  RepliesInv'
  <2>1. PICK r : r = Req
    OBVIOUS
  <2> QED
    BY <1>1, <1>2, <2>1, AnswerKeepsReplies
<1>3. CASE JoinFirst \/ JoinAgain \/ reply_to_stats
  <2>1. \E answer : /\ Answer(answer)
                    /\ \A r : r = Req => GoodJoin(r, answer)' /\ GoodStats(r, answer)
    BY <1>1, <1>3, JoinAnswers, StatsAnswers
  <2>2. rep # Nobody
    BY <1>3, Answers
  <2> QED
    BY <1>2, <2>1, <2>2
<1>4. CASE reply_invalid_cmd \/ reply_create_topic \/ reply_refused
  <2>1. PICK answer : /\ Answer(answer)
                      /\ Req.cmd \in {"unknown", "ping", "create"} \/ answer = Error
    BY <1>4 DEF reply_invalid_cmd, reply_create_topic, reply_refused
  <2>2. ASSUME NEW r, r = Req PROVE GoodJoin(r, answer)' /\ GoodStats(r, answer)
    <3>1. ~(r.cmd \in {"join", "stats"} /\ answer.status = "ok")
      BY <2>1, <2>2 DEF Error
    <3> QED
      BY <3>1 DEF GoodJoin, GoodStats
  <2>3. rep # Nobody
    BY <1>4, Answers
  <2> QED
    BY <1>2, <2>1, <2>2, <2>3
<1>5. CASE reply_oversized
  <2>1. /\ rep # Nobody /\ reply' = [reply EXCEPT ![rep] = Error] /\ Req.cmd = "oversized"
        /\ phase' = [phase EXCEPT ![rep] = "answered"] /\ UNCHANGED request
    BY <1>5 DEF reply_oversized, RepInv
  <2>2. PICK R : reply \in [Clients -> R]
    BY DEF RepliesFit
  <2>3. reply' \in [Clients -> R \cup {Error}] /\ rep \in Clients
    BY <2>1, <2>2 DEF RepInv
  <2>4. RepliesFit'
    BY <2>3 DEF RepliesFit
  <2>5. ASSUME NEW c \in Clients, phase'[c] = "answered"
        PROVE  GoodJoin(request[c], reply[c])' /\ GoodStats(request'[c], reply'[c])
    <3>1. CASE c = rep
      BY <2>1, <3>1 DEF GoodJoin, GoodStats, Req
    <3>2. CASE c # rep
      <4>1. PICK q : q = request[c]
        OBVIOUS
      <4>2. PICK a : a = reply[c]
        OBVIOUS
      <4>3. phase[c] = "answered" /\ request'[c] = q /\ reply'[c] = a /\ q \in Request
        BY <2>1, <2>2, <2>3, <2>5, <3>2, <4>1, <4>2 DEF RepInv
      <4>4. GoodJoin(q, a) /\ GoodStats(q, a)
        BY <4>1, <4>2, <4>3 DEF JoinsInv, StatsRepliesInv
      <4>5. GoodJoin(q, a)'
        BY <1>1, <4>3, <4>4, JoinKept
      <4>6. GoodJoin(request[c], reply[c])'
        BY <4>3, <4>5 DEF GoodJoin
      <4> QED
        BY <4>3, <4>4, <4>6
    <3> QED
      BY <3>1, <3>2
  <2> QED
    BY <2>4, <2>5 DEF JoinsInv, StatsRepliesInv
<1>6. ASSUME NEW c \in Clients, Return(c)
      PROVE  RepliesInv'
  <2>1. /\ phase' = [phase EXCEPT ![c] = "idle"] /\ reply' = [reply EXCEPT ![c] = Nothing]
        /\ request' = [request EXCEPT ![c] = [cmd |-> "ping"]]
    BY <1>6 DEF Return
  <2>2. PICK R : reply \in [Clients -> R]
    BY DEF RepliesFit
  <2>3. reply' \in [Clients -> R \cup {Nothing}]
    BY <2>1, <2>2
  <2>4. RepliesFit'
    BY <2>3 DEF RepliesFit
  <2>5. \A b \in Clients : phase'[b] = "answered" =>
              phase[b] = "answered" /\ reply'[b] = reply[b] /\ request'[b] = request[b]
    BY <2>1, <2>2 DEF RepInv
  <2> QED
    BY <1>1, <2>4, <2>5, NoAnswerKeepsReplies
<1>7. CASE \/ \E c \in Clients : read_msg(c) \/ SendRequest(c)
           \/ read_msg_fails \/ get_cmd_throws \/ StartStats \/ ReadSize \/ ReadReceived
           \/ \E t \in Topics : Enqueued(t) \/ Dequeued(t)
           \/ UNCHANGED adminVars
  <2>1. reply' = reply
    BY <1>7 DEF read_msg, SendRequest, read_msg_fails, get_cmd_throws, StartStats, ReadSize,
                ReadReceived, Enqueued, Dequeued, adminVars, clientVars
  <2>2. RepliesFit'
    BY <2>1 DEF RepliesFit
  <2>3. \A b \in Clients : phase'[b] = "answered" =>
              phase[b] = "answered" /\ request'[b] = request[b]
    <3>1. ASSUME NEW c \in Clients, read_msg(c) \/ SendRequest(c), NEW b \in Clients,
                 phase'[b] = "answered"
          PROVE  phase[b] = "answered" /\ request'[b] = request[b]
      BY <3>1 DEF read_msg, SendRequest, RepInv
    <3> QED
      BY <1>7, <3>1
         DEF read_msg_fails, get_cmd_throws, StartStats, ReadSize, ReadReceived, Enqueued,
             Dequeued, adminVars, clientVars
  <2> QED
    BY <1>1, <2>1, <2>2, <2>3, NoAnswerKeepsReplies
<1> QED
  BY <1>3, <1>4, <1>5, <1>6, <1>7 DEF AdminNext, Manager

\* The invariant holds of every run of the broker and its clients.
THEOREM AdminInvariant == AdminSpec => []AdminInv
<1>1. AdminInit => AdminInv
  <2> SUFFICES ASSUME AdminInit PROVE AdminInv
    OBVIOUS
  <2>1. StatsInv
    BY DEF AdminInit, StatsInv, StatsSet, NoStats
  <2>2. reply \in [Clients -> {Nothing}]
    BY DEF AdminInit
  <2>3. RepliesInv
    BY <2>2 DEF AdminInit, RepliesInv, RepliesFit, JoinsInv, StatsRepliesInv
  <2> QED
    BY <2>1, <2>3, AdminInitInv, AdminInitPorts DEF AdminInv
<1>2. AdminInv /\ [AdminNext]_adminVars => AdminInv'
  <2> SUFFICES ASSUME AdminInv, [AdminNext]_adminVars PROVE AdminInv'
    OBVIOUS
  <2>1. RepInv'
    BY ManagerKeepsInv, OthersKeepInv DEF AdminNext, AdminInv
  <2> QED
    BY <2>1, StepPorts, StepStats, StepReplies DEF AdminInv
<1> QED
  BY <1>1, <1>2, PTL DEF AdminSpec

\* A client that was let in talks to the endpoint of its topic, whoever made it, and
\* whatever else was bound meanwhile; unless its bind was refused, or the topic was
\* set up for the other kind of stream (broker_manager.h: process_join).
THEOREM JoinedIsServedHolds == AdminSpec => []JoinedIsServed
<1>1. AdminInv => JoinedIsServed
  <2> SUFFICES ASSUME AdminInv, NEW c \in Clients, init_client(c),
                      NEW r, r = request[c], NEW port, port = reply[c].port,
                      NEW kind, kind = bound[port]
               PROVE  \/ <<r.topic, Side(c)>> \in refused
                      \/ r.side = "pub" /\ port = producer[r.topic] /\ kind = "pull"
                      \/ r.side = "sub" /\ port = consumer[r.topic].pub /\ kind = "pub"
                      \/ /\ r.side = "pull" /\ port = consumer[r.topic].push
                         /\ kind = (IF r.stream = "zmq" THEN "push" ELSE "stream")
                      \/ r.side # "pub" /\ consumer[r.topic].stream # r.stream
    BY DEF JoinedIsServed
  <2> USE DEF AdminInv, RepliesInv
  <2>a. PICK t : t = r.topic
    OBVIOUS
  <2>1. phase[c] = "answered" /\ r.cmd = "join" /\ reply[c].status = "ok" /\ r \in Request
    BY DEF init_client, Answered, RepInv
  <2>2. /\ t \in Topics /\ r.side \in {"pub", "sub", "pull"} /\ r.stream \in {"zmq", "socket"}
        /\ r.side # "pull" => r.stream = "zmq"
    BY <2>1, <2>a, RequestProperties
  <2>3. GoodJoin(r, reply[c])
    BY <2>1 DEF JoinsInv
  <2>4. CASE r.side = "pub"
    <3>1. producer[t] # None /\ port = producer[t]
      BY <2>1, <2>3, <2>4, <2>a DEF GoodJoin
    <3>2. <<t, "producer">> \in refused \/ bound[producer[t]] = "pull"
      BY <2>2, <3>1 DEF PortsInv, Produced
    <3> QED
      BY <2>4, <2>a, <3>1, <3>2 DEF Side
  <2>5. CASE r.side # "pub"
    <3>1. /\ consumer[t] # NoConsumer
          /\ r.side = "sub" => port = consumer[t].pub
          /\ r.side = "pull" => port = consumer[t].push
      BY <2>1, <2>2, <2>3, <2>5, <2>a DEF GoodJoin
    <3>2. \/ <<t, "consumer">> \in refused
          \/ /\ consumer[t].stream = "zmq"
             /\ bound[consumer[t].pub] = "pub" /\ bound[consumer[t].push] = "push"
          \/ consumer[t].stream = "socket" /\ bound[consumer[t].push] = "stream"
      BY <2>2, <3>1 DEF PortsInv, Consumed
    <3>3. Side(c) = "consumer"
      BY <2>5 DEF Side
    <3> QED
      BY <2>2, <2>5, <2>a, <3>1, <3>2, <3>3
  <2> QED
    BY <2>4, <2>5
<1> QED
  BY <1>1, AdminInvariant, PTL

\* The statistics agree with one another and with the queue up to what moved while
\* they were read, for any number of messages and clients, although the counters are
\* read without a lock and wrap as uint32_t (broker_manager.h: reply_to_stats).
THEOREM StatsWithinWindowHolds == AdminSpec => []StatsWithinWindow
<1>1. AdminInv => StatsWithinWindow
  BY DEF AdminInv, RepliesInv, StatsRepliesInv, GoodStats, StatsWithinWindow, Answered
<1> QED
  BY <1>1, AdminInvariant, PTL

\* A publisher waits only if the queue can have been too long, or messages left it
\* meanwhile, and always if it was too long all the time (lightq_api.cpp:
\* publish_delay_algorithm).
THEOREM WaitsIfBehindHolds == AdminSpec => []WaitsIfBehind
<1>1. AdminInv => WaitsIfBehind
  <2> SUFFICES ASSUME AdminInv, NEW c \in Clients, Answered(c, "stats"), reply[c].status = "ok"
               PROVE  IF publish_delay_algorithm(c)
                      THEN reply[c].high > SlowQueue \/ reply[c].low < 0
                      ELSE reply[c].low <= SlowQueue
    BY DEF WaitsIfBehind
  <2>1. GoodStats(request[c], reply[c])
    BY DEF AdminInv, RepliesInv, StatsRepliesInv, Answered
  <2>2. PICK size, low, high : size = reply[c].size /\ low = reply[c].low /\ high = reply[c].high
    OBVIOUS
  <2>3. /\ size \in Int /\ low \in Int /\ high \in Int /\ low <= size /\ size <= high
        /\ SlowQueue \in Nat
    BY <2>1, <2>2, NumbersAssumption DEF GoodStats, Answered
  <2>4. publish_delay_algorithm(c) <=> size > SlowQueue \/ size < 0
    BY <2>2 DEF publish_delay_algorithm
  <2>5. IF size > SlowQueue \/ size < 0 THEN high > SlowQueue \/ low < 0 ELSE low <= SlowQueue
    BY <2>3
  <2> QED
    BY <2>2, <2>4, <2>5
<1> QED
  BY <1>1, AdminInvariant, PTL
=============================================================================
